------------------------------ MODULE Session ------------------------------
(***************************************************************************)
(* wsl-executor-daemon, server.rs: serve, the loop that answers one host   *)
(* connection, with the tasks it spawns and its response writer. Several   *)
(* connections share the semaphore of global permits.                      *)
(*                                                                         *)
(* The executor a task calls is represented by its contract: it looks at   *)
(* the token before it admits a request (Scheduler shows that a token      *)
(* cancelled before the call starts no tool), reports Started and Failed   *)
(* through the connection's WireObserver and returns one result. Progress  *)
(* reports, which change nothing but the length of the response stream,    *)
(* are left out.                                                           *)
(***************************************************************************)
EXTENDS Integers, Sequences, FiniteSets

CONSTANTS
    Connections,    \* host connections
    Ids,            \* execution ids the hosts may choose
    MaxTasks,       \* bound: executions accepted over all connections
    MaxMessages,    \* bound: messages read from each connection
    GlobalPermits,  \* permits shared by all connections
    Resettable      \* connections on which reading a frame may fail

ASSUME BoundsAssumption ==
    /\ MaxTasks \in Nat
    /\ MaxMessages \in Nat
    /\ GlobalPermits \in Nat
    /\ Resettable \subseteq Connections

Tasks == 1..MaxTasks
None  == 0

VARIABLES
    conn,       \* where serve of each connection is
    session,    \* whether the session of each connection is established
    received,   \* number of messages read from each connection
    active,     \* per connection, the task registered under each id
    phase,      \* where each spawned task is
    owner,      \* the connection of each task
    name,       \* the execution id of each task
    cancelled,  \* tasks whose cancellation token is cancelled
    permit,     \* tasks that hold a global permit
    told,       \* the responses about each task, in order
    acked,      \* tasks whose host was told that a cancel found them
    backlog,    \* whether the channel of each connection holds responses
    writer      \* the writer task: "open", "done" or "failed"

serving  == <<conn, session, received>>
tasks    == <<phase, owner, name>>
channel  == <<backlog, writer>>
vars == <<serving, active, tasks, cancelled, permit, told, acked, channel>>

-----------------------------------------------------------------------------
\* responses.send: ignored once the writer task has ended.
Send(c) == backlog' = [backlog EXCEPT ![c] = writer[c] = "open"]

\* A response about task t of connection c.
Tell(c, t, type) ==
    /\ Send(c)
    /\ told' = [told EXCEPT ![t] = Append(@, type)]

\* A spawned task that can still do something.
Live == {"waiting", "executing", "admitted", "running", "returned", "released", "removed"}

\* A task whose future is suspended at an await.
Suspended == {"waiting", "executing", "admitted", "running"}

TasksOf(c) == {t \in Tasks : phase[t] # "unused" /\ owner[t] = c}
LiveTasks(c) == {t \in TasksOf(c) : phase[t] \in Live}

\* The tasks registered in the active map of a connection.
Registered(c) == {active[c][id] : id \in Ids} \ {None}

-----------------------------------------------------------------------------
Init ==
    /\ conn = [c \in Connections |-> "reading"]
    /\ session = [c \in Connections |-> FALSE]
    /\ received = [c \in Connections |-> 0]
    /\ active = [c \in Connections |-> [id \in Ids |-> None]]
    /\ phase = [t \in Tasks |-> "unused"]
    /\ owner = [t \in Tasks |-> CHOOSE c \in Connections : TRUE]
    /\ name = [t \in Tasks |-> CHOOSE id \in Ids : TRUE]
    /\ cancelled = {}
    /\ permit = {}
    /\ told = [t \in Tasks |-> <<>>]
    /\ acked = {}
    /\ backlog = [c \in Connections |-> FALSE]
    /\ writer = [c \in Connections |-> "open"]

-----------------------------------------------------------------------------
(* The read loop.                                                          *)

\* read_frame returns a message.
Receive(c) ==
    /\ conn[c] = "reading"
    /\ received[c] < MaxMessages
    /\ received' = [received EXCEPT ![c] = @ + 1]

\* Mutant: the loop ends without cancelling anything.
Break_NoCancel(c) ==
    /\ conn' = [conn EXCEPT ![c] = "draining"]
    /\ UNCHANGED cancelled

\* The loop ends: every registered execution is cancelled, then serve waits
\* for the tasks.
Break(c) ==
    /\ conn' = [conn EXCEPT ![c] = "draining"]
    /\ cancelled' = cancelled \cup Registered(c)

\* Before the handshake anything but hello is refused.
HandshakeRequired(c) ==
    /\ Receive(c)
    /\ ~session[c]
    /\ Send(c)
    /\ UNCHANGED <<conn, session, active, tasks, cancelled, permit, told, acked, writer>>

DuplicateHello(c) ==
    /\ Receive(c)
    /\ session[c]
    /\ Send(c)
    /\ UNCHANGED <<conn, session, active, tasks, cancelled, permit, told, acked, writer>>

\* Another protocol version, or the session factory refuses the token or the
\* workspace.
HelloRefused(c) ==
    /\ Receive(c)
    /\ ~session[c]
    /\ Send(c)
    /\ Break(c)
    /\ UNCHANGED <<session, active, tasks, permit, told, acked, writer>>

HelloAccepted(c) ==
    /\ Receive(c)
    /\ ~session[c]
    /\ session' = [session EXCEPT ![c] = TRUE]
    /\ Send(c)
    /\ UNCHANGED <<conn, active, tasks, cancelled, permit, told, acked, writer>>

DuplicateExecution(c, id) ==
    /\ Receive(c)
    /\ session[c]
    /\ active[c][id] # None
    /\ Send(c)
    /\ UNCHANGED <<conn, session, active, tasks, cancelled, permit, told, acked, writer>>

\* Mutant: an id that is already active is registered again.
Execute_Overwrite(c, id) ==
    \E t \in Tasks :
        /\ Receive(c)
        /\ session[c]
        /\ phase[t] = "unused" /\ \A u \in Tasks : u < t => phase[u] # "unused"
        /\ active' = [active EXCEPT ![c][id] = t]
        /\ phase' = [phase EXCEPT ![t] = "waiting"]
        /\ owner' = [owner EXCEPT ![t] = c]
        /\ name' = [name EXCEPT ![t] = id]
        /\ Tell(c, t, "accepted")
        /\ UNCHANGED <<conn, session, cancelled, permit, acked, writer>>

\* The id is registered with a new token and a task is spawned for it.
Execute(c, id) ==
    \E t \in Tasks :
        /\ Receive(c)
        /\ session[c]
        /\ active[c][id] = None
        /\ phase[t] = "unused" /\ \A u \in Tasks : u < t => phase[u] # "unused"
        /\ active' = [active EXCEPT ![c][id] = t]
        /\ phase' = [phase EXCEPT ![t] = "waiting"]
        /\ owner' = [owner EXCEPT ![t] = c]
        /\ name' = [name EXCEPT ![t] = id]
        /\ Tell(c, t, "accepted")
        /\ UNCHANGED <<conn, session, cancelled, permit, acked, writer>>

\* Mutant: the acknowledgement says found, the token is not cancelled.
Cancel_AckOnly(c, id) ==
    /\ Receive(c)
    /\ session[c]
    /\ Send(c)
    /\ acked' = acked \cup ({active[c][id]} \ {None})
    /\ UNCHANGED <<conn, session, active, tasks, cancelled, permit, told, writer>>

\* The acknowledgement names the task it found, if any.
Cancel(c, id) ==
    /\ Receive(c)
    /\ session[c]
    /\ cancelled' = cancelled \cup ({active[c][id]} \ {None})
    /\ Send(c)
    /\ acked' = acked \cup ({active[c][id]} \ {None})
    /\ UNCHANGED <<conn, session, active, tasks, permit, told, writer>>

ListTools(c) ==
    /\ Receive(c)
    /\ session[c]
    /\ Send(c)
    /\ UNCHANGED <<conn, session, active, tasks, cancelled, permit, told, acked, writer>>

Shutdown(c) ==
    /\ Receive(c)
    /\ session[c]
    /\ Send(c)
    /\ Break(c)
    /\ UNCHANGED <<session, active, tasks, permit, told, acked, writer>>

\* read_frame returns None: the host closed its end.
EndOfStream(c) ==
    /\ conn[c] = "reading"
    /\ Break(c)
    /\ UNCHANGED <<session, received, active, tasks, permit, told, acked, channel>>

\* read_frame fails: serve returns through the ? operator. The local
\* variables are dropped: the session, and the JoinSet, which aborts its tasks
\* without waiting for them and without cancelling their tokens.
FrameFailure(c) ==
    /\ c \in Resettable
    /\ conn[c] = "reading"
    /\ conn' = [conn EXCEPT ![c] = "failed"]
    /\ session' = [session EXCEPT ![c] = FALSE]
    /\ UNCHANGED <<received, active, tasks, cancelled, permit, told, acked, channel>>

-----------------------------------------------------------------------------
(* The end of serve and the writer task.                                   *)

\* Mutant: serve drops its sender without joining the tasks.
Drained_NoJoin(c) ==
    /\ conn[c] = "draining"
    /\ conn' = [conn EXCEPT ![c] = "flushing"]
    /\ UNCHANGED <<session, received, active, tasks, cancelled, permit, told, acked, channel>>

\* Every task has been joined; drop(responses).
Drained(c) ==
    /\ conn[c] = "draining"
    /\ LiveTasks(c) = {}
    /\ conn' = [conn EXCEPT ![c] = "flushing"]
    /\ UNCHANGED <<session, received, active, tasks, cancelled, permit, told, acked, channel>>

\* The writer task was joined; serve returns and drops the session.
Returned(c) ==
    /\ conn[c] = "flushing"
    /\ writer[c] # "open"
    /\ conn' = [conn EXCEPT ![c] = "returned"]
    /\ session' = [session EXCEPT ![c] = FALSE]
    /\ UNCHANGED <<received, active, tasks, cancelled, permit, told, acked, channel>>

\* The senders of the response channel that are alive: serve's own, the one
\* in the observer of the session, and one per task.
HasSenders(c) ==
    \/ conn[c] \in {"reading", "draining"}
    \/ session[c]
    \/ LiveTasks(c) # {}

\* The last response in the channel is written.
WriterWrites(c) ==
    /\ writer[c] = "open"
    /\ backlog[c]
    /\ backlog' = [backlog EXCEPT ![c] = FALSE]
    /\ UNCHANGED <<serving, active, tasks, cancelled, permit, told, acked, writer>>

\* The host is gone and a response cannot be written; the rest is dropped.
WriterFails(c) ==
    /\ writer[c] = "open"
    /\ backlog[c]
    /\ writer' = [writer EXCEPT ![c] = "failed"]
    /\ backlog' = [backlog EXCEPT ![c] = FALSE]
    /\ UNCHANGED <<serving, active, tasks, cancelled, permit, told, acked>>

\* recv returns None: all is written and every sender is dropped.
WriterEnds(c) ==
    /\ writer[c] = "open"
    /\ ~backlog[c]
    /\ ~HasSenders(c)
    /\ writer' = [writer EXCEPT ![c] = "done"]
    /\ UNCHANGED <<serving, active, tasks, cancelled, permit, told, acked, backlog>>

-----------------------------------------------------------------------------
(* A spawned execution.                                                    *)

Move(t, p) == phase' = [phase EXCEPT ![t] = p]

AcquireGlobal(t) ==
    /\ phase[t] = "waiting"
    /\ Cardinality(permit) < GlobalPermits
    /\ permit' = permit \cup {t}
    /\ Move(t, "executing")
    /\ UNCHANGED <<serving, active, owner, name, cancelled, told, acked, channel>>

\* The select takes the other branch: the executor is called all the same,
\* without a permit.
WaitCancelled(t) ==
    /\ phase[t] = "waiting"
    /\ t \in cancelled
    /\ Move(t, "executing")
    /\ UNCHANGED <<serving, active, owner, name, cancelled, permit, told, acked, channel>>

\* Mutant: the executor does not look at the token first.
ExecutorAdmits_Unchecked(t) ==
    /\ phase[t] = "executing"
    /\ Move(t, "admitted")
    /\ UNCHANGED <<serving, active, owner, name, cancelled, permit, told, acked, channel>>

\* The executor found the token not cancelled and acquired its own permit.
ExecutorAdmits(t) ==
    /\ phase[t] = "executing"
    /\ t \notin cancelled
    /\ Move(t, "admitted")
    /\ UNCHANGED <<serving, active, owner, name, cancelled, permit, told, acked, channel>>

ToolStarts(t) ==
    /\ phase[t] = "admitted"
    /\ Tell(owner[t], t, "started")
    /\ Move(t, "running")
    /\ UNCHANGED <<serving, active, owner, name, cancelled, permit, acked, writer>>

ToolSucceeds(t) ==
    /\ phase[t] = "running"
    /\ Move(t, "returned")
    /\ UNCHANGED <<serving, active, owner, name, cancelled, permit, told, acked, channel>>

\* Mutant: the executor returns an error that it has not reported.
ExecutorFails_Silent(t) ==
    /\ phase[t] \in {"executing", "admitted", "running"}
    /\ Move(t, "returned")
    /\ UNCHANGED <<serving, active, owner, name, cancelled, permit, told, acked, channel>>

\* Cancelled, timed out, unknown tool, error or panic: the observer reports
\* Failed, then execute returns an error result.
ExecutorFails(t) ==
    /\ phase[t] \in {"executing", "admitted", "running"}
    /\ Tell(owner[t], t, "failed")
    /\ Move(t, "returned")
    /\ UNCHANGED <<serving, active, owner, name, cancelled, permit, acked, writer>>

ReleaseGlobal(t) ==
    /\ phase[t] = "returned"
    /\ permit' = permit \ {t}
    /\ Move(t, "released")
    /\ UNCHANGED <<serving, active, owner, name, cancelled, told, acked, channel>>

RemoveActive(t) ==
    /\ phase[t] = "released"
    /\ active' = [active EXCEPT ![owner[t]][name[t]] = None]
    /\ Move(t, "removed")
    /\ UNCHANGED <<serving, owner, name, cancelled, permit, told, acked, channel>>

SendCompleted(t) ==
    /\ phase[t] = "removed"
    /\ Tell(owner[t], t, "completed")
    /\ Move(t, "ended")
    /\ UNCHANGED <<serving, active, owner, name, cancelled, permit, acked, writer>>

\* An aborted task is dropped at its await, with the permits it holds.
Abort(t) ==
    /\ phase[t] \in Suspended
    /\ conn[owner[t]] = "failed"
    /\ permit' = permit \ {t}
    /\ Move(t, "aborted")
    /\ UNCHANGED <<serving, active, owner, name, cancelled, told, acked, channel>>

-----------------------------------------------------------------------------
ClientMessage(c) ==
    \/ HandshakeRequired(c) \/ DuplicateHello(c) \/ HelloRefused(c) \/ HelloAccepted(c)
    \/ \E id \in Ids : DuplicateExecution(c, id) \/ Execute(c, id) \/ Cancel(c, id)
    \/ ListTools(c) \/ Shutdown(c) \/ EndOfStream(c) \/ FrameFailure(c)

Teardown(c) == Drained(c) \/ Returned(c)
Writer(c)   == WriterWrites(c) \/ WriterEnds(c)

\* What a task does without waiting for a tool, a permit or a client.
TaskStep(t) ==
    \/ WaitCancelled(t) \/ ToolStarts(t) \/ ReleaseGlobal(t) \/ RemoveActive(t)
    \/ SendCompleted(t) \/ Abort(t)

Next ==
    \/ \E c \in Connections :
          ClientMessage(c) \/ Teardown(c) \/ Writer(c) \/ WriterFails(c)
    \/ \E t \in Tasks :
          \/ TaskStep(t) \/ AcquireGlobal(t) \/ ExecutorAdmits(t)
          \/ ToolSucceeds(t) \/ ExecutorFails(t)

Spec == Init /\ [][Next]_vars

\* The runtime runs every task that can go on, the writer and serve. The
\* executor returns from a cancelled request. Hosts owe nothing, tools neither.
Fairness ==
    /\ \A c \in Connections : WF_vars(Teardown(c)) /\ WF_vars(Writer(c))
    /\ \A t \in Tasks :
          WF_vars(TaskStep(t)) /\ WF_vars(t \in cancelled /\ ExecutorFails(t))

FairSpec == Spec /\ Fairness

-----------------------------------------------------------------------------
(* Properties.                                                             *)

\* Accepted comes first, Started and Failed at most once and in this order,
\* Completed last and exactly once when the task has ended: the order in which
\* a host may rely on the responses.
ResponsesInOrder ==
    \A t \in Tasks : phase[t] # "unused" =>
        /\ told[t] \in {<<"accepted">>, <<"accepted", "started">>,
                        <<"accepted", "failed">>, <<"accepted", "started", "failed">>,
                        <<"accepted", "started", "completed">>,
                        <<"accepted", "failed", "completed">>,
                        <<"accepted", "started", "failed", "completed">>}
        /\ phase[t] = "ended" <=> told[t][Len(told[t])] = "completed"

\* Over all connections, no more tools run than there are global permits, even
\* though the executor is also called without a permit.
GlobalLimit ==
    Cardinality({t \in Tasks : phase[t] = "running"}) <= GlobalPermits

\* The active map is exact: under each id the one execution that a cancel
\* message would reach, and every execution that has not been removed is there.
\* A task never removes the registration of another with the same id.
ActiveMapExact ==
    \A c \in Connections :
        /\ \A id \in Ids : active[c][id] # None =>
              owner[active[c][id]] = c /\ name[active[c][id]] = id
        /\ conn[c] # "failed" =>
              Registered(c) = {t \in LiveTasks(c) : phase[t] # "removed"}

\* The doc of serve, on the orderly path: it waits for every task it spawned,
\* and each of them has reported its completion before the writer is awaited.
DrainWaitsForTasks ==
    \A c \in Connections : conn[c] \in {"flushing", "returned"} =>
        \A t \in TasksOf(c) : phase[t] = "ended" /\ t \notin permit

\* A host that is told its cancel was found gets an end of that execution, and
\* when the connection ends all its executions do.
CancelledEnds ==
    \A t \in Tasks : t \in acked ~> phase[t] \in {"ended", "aborted"}

\* Once the loop has ended, serve gets as far as awaiting its writer.
TeardownDrains ==
    \A c \in Connections : conn[c] = "draining" ~> conn[c] \in {"flushing", "returned"}

\* The doc of serve says it returns after the cleanup ("waits for their
\* cleanup before returning"), and the tests await it after a shutdown.
ServeReturns ==
    \A c \in Connections : conn[c] = "draining" ~> conn[c] = "returned"

=============================================================================
