----------------------------- MODULE WslClient -----------------------------
(***************************************************************************)
(* windows-agent-client, wsl.rs: an established WslClient with the calls   *)
(* made through it, its writer and reader tasks and their three maps of    *)
(* waiters, against the guest of server.rs reduced to what it tells a      *)
(* host: a refused or an accepted execution, at most one Failed report,    *)
(* the id freed, then Completed (Session checks that order); one answer to *)
(* every cancel and list.                                                  *)
(*                                                                         *)
(* A queue entry names the call it stands for, but the client looks its    *)
(* waiters up by IdOf, as the code does. Accepted, Started, Progress and   *)
(* ShutdownAck, which the reader skips, are left out. A message counts as  *)
(* read by the guest in the step that writes it.                           *)
(***************************************************************************)
EXTENDS Integers, Sequences, FiniteSets

CONSTANTS
    Executes, Cancels, Lists,  \* the calls of execute, cancel and list_tools
    Ids,                       \* execution ids
    IdOf,                      \* the id each execute or cancel names
    Oversized,                 \* executes whose result exceeds the frame limit
    MayDrop,                   \* calls whose caller may give up
    MaxCalls                   \* bound: calls made through the client

ASSUME CallsAssumption ==
    /\ Executes \cap Cancels = {} /\ (Executes \cup Cancels) \cap Lists = {}
    /\ IdOf \in [Executes \cup Cancels -> Ids]
    /\ Oversized \subseteq Executes
    /\ MayDrop \subseteq Executes \cup Cancels \cup Lists
    /\ MaxCalls \in Nat

Calls == Executes \cup Cancels \cup Lists

\* An empty slot of a map, and the message the client sends last.
None     == "none"
Shutdown == "shutdown"

ASSUME NamesAssumption == None \notin Calls /\ Shutdown \notin Calls

VARIABLES
    call,        \* where each call is
    reply,       \* what the oneshot channel of each call received, about which call
    pending,     \* the execute that waits under each id
    cancel_acks, \* the cancel that waits under each id
    tool_acks,   \* the list_tools calls that wait
    requests,    \* the channel to the writer task and the stream behind it
    writer,      \* the writer task: "open", "aborting" or "ended"
    reader,      \* "reading", the map it drains next, "ended" or "aborted"
    responses,   \* the stream from the guest
    lost,        \* whether the connection is gone
    active,      \* the guest's execution under each id
    execution    \* where the guest's execution of each execute is

callers == <<call, reply>>
maps    == <<pending, cancel_acks, tool_acks>>
guest   == <<active, execution>>
vars == <<callers, maps, requests, writer, reader, responses, lost, guest>>

-----------------------------------------------------------------------------
NoReply(c)      == [type |-> "none", about |-> c]
Disconnected(c) == [type |-> "disconnected", about |-> c]

\* Nothing has come through the oneshot channel yet.
Unanswered(c) == reply[c].type = "none"

\* The call awaits its channel.
Waits(c) == call[c] = "awaiting" /\ Unanswered(c)

Init ==
    /\ call = [c \in Calls |-> "new"]
    /\ reply = [c \in Calls |-> NoReply(c)]
    /\ pending = [id \in Ids |-> None]
    /\ cancel_acks = [id \in Ids |-> None]
    /\ tool_acks = {}
    /\ requests = <<>>
    /\ writer = "open"
    /\ reader = "reading"
    /\ responses = <<>>
    /\ lost = FALSE
    /\ active = [id \in Ids |-> None]
    /\ execution = [e \in Executes |-> "none"]

-----------------------------------------------------------------------------
(* The calls. Before the client is dropped, and each call once.            *)

Begin(c) ==
    /\ call[c] = "new"
    /\ reader # "aborted"
    /\ Cardinality({d \in Calls : call[d] # "new"}) < MaxCalls

\* requests.send succeeds as long as the writer task holds its receiver.
SendRequest(m) == writer = "open" /\ requests' = Append(requests, m)

\* The senders of these calls are dropped: their receivers see a closed
\* channel, unless something was sent before.
DropSenders(C) ==
    [c \in Calls |-> IF c \in C /\ Unanswered(c) THEN Disconnected(c) ELSE reply[c]]

ExecuteDuplicate(e) ==
    /\ Begin(e)
    /\ pending[IdOf[e]] # None
    /\ call' = [call EXCEPT ![e] = "awaiting"]
    /\ reply' = [reply EXCEPT ![e] = [type |-> "duplicate", about |-> e]]
    /\ UNCHANGED <<maps, requests, writer, reader, responses, lost, guest>>

\* Mutant: an id that is already pending is registered again.
ExecuteRegisters_Overwrite(e) ==
    /\ Begin(e)
    /\ pending' = [pending EXCEPT ![IdOf[e]] = e]
    /\ reply' = DropSenders({pending[IdOf[e]]})
    /\ call' = [call EXCEPT ![e] = "registered"]
    /\ UNCHANGED <<cancel_acks, tool_acks, requests, writer, reader, responses, lost, guest>>

\* The waiter is inserted under the lock, which is released before the send.
ExecuteRegisters(e) ==
    /\ Begin(e)
    /\ pending[IdOf[e]] = None
    /\ pending' = [pending EXCEPT ![IdOf[e]] = e]
    /\ call' = [call EXCEPT ![e] = "registered"]
    /\ UNCHANGED <<reply, cancel_acks, tool_acks, requests, writer, reader, responses, lost,
                   guest>>

ListRegisters(l) ==
    /\ Begin(l)
    /\ tool_acks' = tool_acks \cup {l}
    /\ call' = [call EXCEPT ![l] = "registered"]
    /\ UNCHANGED <<reply, pending, cancel_acks, requests, writer, reader, responses, lost, guest>>

Sends(c) ==
    /\ call[c] = "registered"
    /\ SendRequest(c)
    /\ call' = [call EXCEPT ![c] = "awaiting"]
    /\ UNCHANGED <<reply, maps, writer, reader, responses, lost, guest>>

\* The writer is gone: whatever waits under the id is removed and the call
\* returns Disconnected.
ExecuteSendFails(e) ==
    /\ call[e] = "registered"
    /\ writer = "ended"
    /\ pending' = [pending EXCEPT ![IdOf[e]] = None]
    /\ reply' = [DropSenders({pending[IdOf[e]]}) EXCEPT ![e] = Disconnected(e)]
    /\ call' = [call EXCEPT ![e] = "awaiting"]
    /\ UNCHANGED <<cancel_acks, tool_acks, requests, writer, reader, responses, lost, guest>>

ListSendFails(l) ==
    /\ call[l] = "registered"
    /\ writer = "ended"
    /\ tool_acks' = tool_acks \ {l}
    /\ reply' = [reply EXCEPT ![l] = Disconnected(l)]
    /\ call' = [call EXCEPT ![l] = "awaiting"]
    /\ UNCHANGED <<pending, cancel_acks, requests, writer, reader, responses, lost, guest>>

\* cancel registers and sends under one lock. An earlier cancel that waits
\* under the id loses its sender.
CancelSends(k) ==
    /\ Begin(k)
    /\ SendRequest(k)
    /\ cancel_acks' = [cancel_acks EXCEPT ![IdOf[k]] = k]
    /\ reply' = DropSenders({cancel_acks[IdOf[k]]})
    /\ call' = [call EXCEPT ![k] = "awaiting"]
    /\ UNCHANGED <<pending, tool_acks, writer, reader, responses, lost, guest>>

CancelSendFails(k) ==
    /\ Begin(k)
    /\ writer = "ended"
    /\ cancel_acks' = [cancel_acks EXCEPT ![IdOf[k]] = None]
    /\ reply' = DropSenders({cancel_acks[IdOf[k]], k})
    /\ call' = [call EXCEPT ![k] = "awaiting"]
    /\ UNCHANGED <<pending, tool_acks, requests, writer, reader, responses, lost, guest>>

\* The future of a call is dropped where it awaits; its waiter stays.
CallerDrops(c) ==
    /\ c \in MayDrop
    /\ Waits(c)
    /\ call' = [call EXCEPT ![c] = "dropped"]
    /\ UNCHANGED <<reply, maps, requests, writer, reader, responses, lost, guest>>

\* Drop: no call borrows the client any more. Shutdown is sent and both tasks
\* are aborted; the writer may still get something written.
ClientDrops ==
    /\ reader # "aborted"
    /\ \A c \in Calls : call[c] # "registered" /\ ~Waits(c)
    /\ requests' = IF writer = "open" THEN Append(requests, Shutdown) ELSE requests
    /\ writer' = IF writer = "open" THEN "aborting" ELSE writer
    /\ reader' = "aborted"
    /\ UNCHANGED <<callers, maps, responses, lost, guest>>

-----------------------------------------------------------------------------
(* The writer task.                                                        *)

\* The stream is gone: the frame vanishes, or its write fails and the task
\* ends, with all that is queued.
WritesToLost ==
    /\ lost
    /\ writer = "open"
    /\ requests # <<>>
    /\ \/ requests' = Tail(requests) /\ UNCHANGED writer
       \/ requests' = <<>> /\ writer' = "ended"
    /\ UNCHANGED <<callers, maps, reader, responses, lost, guest>>

WriterAborted ==
    /\ writer = "aborting"
    /\ writer' = "ended"
    /\ requests' = <<>>
    /\ lost' = TRUE
    /\ UNCHANGED <<callers, maps, reader, responses, guest>>

-----------------------------------------------------------------------------
(* The reader task.                                                        *)

\* The reply to the waiter found in a slot, if there is one.
Resolve(c, type, about) ==
    [x \in Calls |-> IF x = c /\ Unanswered(x) THEN [type |-> type, about |-> about]
                     ELSE reply[x]]

\* Completed, or Failed with an execution id: the same waiter either way.
ReadsResult ==
    LET m == Head(responses) IN
    /\ m.type \in {"completed", "failed", "refused"}
    /\ reply' = Resolve(pending[IdOf[m.about]], m.type, m.about)
    /\ pending' = [pending EXCEPT ![IdOf[m.about]] = None]
    /\ UNCHANGED <<cancel_acks, tool_acks>>

\* Mutant: the acknowledgement answers the execution as well.
ReadsCancelAck_EndsExecute ==
    LET m == Head(responses) IN
    /\ m.type \in {"found", "not_found"}
    /\ reply' = Resolve(pending[IdOf[m.about]], m.type, m.about)
    /\ pending' = [pending EXCEPT ![IdOf[m.about]] = None]
    /\ UNCHANGED <<cancel_acks, tool_acks>>

ReadsCancelAck ==
    LET m == Head(responses) IN
    /\ m.type \in {"found", "not_found"}
    /\ reply' = Resolve(cancel_acks[IdOf[m.about]], m.type, m.about)
    /\ cancel_acks' = [cancel_acks EXCEPT ![IdOf[m.about]] = None]
    /\ UNCHANGED <<pending, tool_acks>>

ReadsTools ==
    LET m == Head(responses) IN
    /\ m.type = "tools"
    /\ reply' = IF m.about \in tool_acks THEN Resolve(m.about, m.type, m.about) ELSE reply
    /\ tool_acks' = tool_acks \ {m.about}
    /\ UNCHANGED <<pending, cancel_acks>>

ReaderReads ==
    /\ reader = "reading"
    /\ responses # <<>>
    /\ ReadsResult \/ ReadsCancelAck \/ ReadsTools
    /\ responses' = Tail(responses)
    /\ UNCHANGED <<call, requests, writer, reader, lost, guest>>

\* read_frame returns None or an error: the stream has ended, or the next
\* frame is longer than the maximum, which only the reader enforces.
ReaderStops ==
    /\ reader = "reading"
    /\ \/ lost
       \/ responses # <<>> /\ Head(responses).type = "oversized"
    /\ reader' = "pending"
    /\ UNCHANGED <<callers, maps, requests, writer, responses, lost, guest>>

DrainPending ==
    /\ reader = "pending"
    /\ reply' = DropSenders({pending[id] : id \in Ids})
    /\ pending' = [id \in Ids |-> None]
    /\ reader' = "cancels"
    /\ UNCHANGED <<call, cancel_acks, tool_acks, requests, writer, responses, lost, guest>>

\* Mutant: the cancels are left in their map.
DrainCancels_Skipped ==
    /\ reader = "cancels"
    /\ reader' = "tools"
    /\ UNCHANGED <<callers, maps, requests, writer, responses, lost, guest>>

DrainCancels ==
    /\ reader = "cancels"
    /\ reply' = DropSenders({cancel_acks[id] : id \in Ids})
    /\ cancel_acks' = [id \in Ids |-> None]
    /\ reader' = "tools"
    /\ UNCHANGED <<call, pending, tool_acks, requests, writer, responses, lost, guest>>

DrainTools ==
    /\ reader = "tools"
    /\ reply' = DropSenders(tool_acks)
    /\ tool_acks' = {}
    /\ reader' = "ended"
    /\ UNCHANGED <<call, pending, cancel_acks, requests, writer, responses, lost, guest>>

-----------------------------------------------------------------------------
(* The guest, and the connection.                                          *)

Answer(type, c) == responses' = Append(responses, [type |-> type, about |-> c])

GuestExecutes(e) ==
    /\ e \in Executes
    /\ \/ /\ active[IdOf[e]] # None
          /\ Answer("refused", e)
          /\ UNCHANGED guest
       \/ /\ active[IdOf[e]] = None
          /\ active' = [active EXCEPT ![IdOf[e]] = e]
          /\ execution' = [execution EXCEPT ![e] = "active"]
          /\ UNCHANGED responses
    /\ UNCHANGED lost

GuestCancels(k) ==
    /\ k \in Cancels
    /\ Answer(IF active[IdOf[k]] = None THEN "not_found" ELSE "found", k)
    /\ UNCHANGED <<lost, guest>>

GuestLists(l) ==
    /\ l \in Lists
    /\ Answer("tools", l)
    /\ UNCHANGED <<lost, guest>>

GuestShutsDown(m) ==
    /\ m = Shutdown
    /\ lost' = TRUE
    /\ UNCHANGED <<responses, guest>>

\* A frame is written and serve handles it.
GuestReceives ==
    /\ ~lost
    /\ requests # <<>>
    /\ LET m == Head(requests) IN
       GuestExecutes(m) \/ GuestCancels(m) \/ GuestLists(m) \/ GuestShutsDown(m)
    /\ requests' = Tail(requests)
    /\ UNCHANGED <<callers, maps, writer, reader>>

GuestFails(e) ==
    /\ ~lost
    /\ execution[e] = "active"
    /\ Answer("failed", e)
    /\ execution' = [execution EXCEPT ![e] = "failed"]
    /\ UNCHANGED <<callers, maps, requests, writer, reader, lost, active>>

GuestFrees(e) ==
    /\ ~lost
    /\ execution[e] \in {"active", "failed"}
    /\ active' = [active EXCEPT ![IdOf[e]] = None]
    /\ execution' = [execution EXCEPT ![e] = "freed"]
    /\ UNCHANGED <<callers, maps, requests, writer, reader, responses, lost>>

\* Mutant: Completed is sent while the id is still active.
GuestCompletes_Early(e) ==
    /\ ~lost
    /\ execution[e] \in {"active", "failed"}
    /\ Answer("completed", e)
    /\ UNCHANGED <<callers, maps, requests, writer, reader, lost, guest>>

GuestCompletes(e) ==
    /\ ~lost
    /\ execution[e] = "freed"
    /\ Answer(IF e \in Oversized THEN "oversized" ELSE "completed", e)
    /\ execution' = [execution EXCEPT ![e] = "ended"]
    /\ UNCHANGED <<callers, maps, requests, writer, reader, lost, active>>

\* The daemon dies or the connection breaks.
ConnectionLost ==
    /\ ~lost
    /\ lost' = TRUE
    /\ UNCHANGED <<callers, maps, requests, writer, reader, responses, guest>>

-----------------------------------------------------------------------------
CallStep(c) ==
    \/ c \in Executes /\ ExecuteSendFails(c)
    \/ c \in Lists /\ ListSendFails(c)
    \/ Sends(c)

Writer == WritesToLost \/ WriterAborted
Reader == ReaderReads \/ ReaderStops \/ DrainPending \/ DrainCancels \/ DrainTools

Next ==
    \/ \E e \in Executes :
          \/ ExecuteDuplicate(e) \/ ExecuteRegisters(e)
          \/ GuestFails(e) \/ GuestFrees(e) \/ GuestCompletes(e)
    \/ \E k \in Cancels : CancelSends(k) \/ CancelSendFails(k)
    \/ \E l \in Lists : ListRegisters(l)
    \/ \E c \in Calls : CallStep(c) \/ CallerDrops(c)
    \/ ClientDrops \/ Writer \/ Reader \/ GuestReceives \/ ConnectionLost

Spec == Init /\ [][Next]_vars

\* Calls, the two tasks and serve go on when they can; an execution need not.
Fairness ==
    /\ \A c \in Calls : WF_vars(CallStep(c))
    /\ WF_vars(Writer) /\ WF_vars(Reader) /\ WF_vars(GuestReceives)

FairSpec == Spec /\ Fairness

-----------------------------------------------------------------------------
(* Properties.                                                             *)

\* The waiters of two calls are told apart by id only. When a call gets the
\* answer to another one, both are of one kind and name one id, and the other
\* had been released by something else than its own last answer: by a stray
\* answer in its turn, by losing its sender (a cancel to the later cancel that
\* took its slot, an execute to a call whose send failed), or, an execute, by
\* the Failed report that precedes Completed.
StrayAnswersOnly ==
    \A c \in Calls : reply[c].about # c =>
        LET d == reply[c].about IN
        /\ {c, d} \subseteq Executes \/ {c, d} \subseteq Cancels
        /\ IdOf[c] = IdOf[d]
        /\ \/ reply[d].about # d
           \/ reply[d].type = "disconnected"
           \/ d \in Executes /\ reply[d].type = "failed"

\* When an id may be used again. A call that returned the result of its own
\* execution is over on both sides: the guest has freed the id and nothing
\* about it is on its way. And the guest refuses an id that the client took to
\* be free only if another execute with it had been answered.
IdsFreedByCompletion ==
    /\ \A d \in Executes : reply[d] = [type |-> "completed", about |-> d] =>
          /\ active[IdOf[d]] # d
          /\ \A i \in DOMAIN responses : responses[i].about # d
    /\ \A e \in Executes : reply[e].type = "refused" =>
          \E d \in Executes \ {e} :
             IdOf[d] = IdOf[e] /\ reply[d].type \notin {"none", "duplicate", "disconnected"}

\* Disconnected is what a call gets when the reader or the writer has ended,
\* and a cancel also while both run, if another cancel with its id was begun,
\* which can take its slot.
DisconnectedIsJustified ==
    \A c \in Calls : reply[c].type = "disconnected" =>
        \/ reader # "reading" \/ writer = "ended"
        \/ c \in Cancels /\ \E k \in Cancels \ {c} : IdOf[k] = IdOf[c] /\ call[k] # "new"

\* The docs of cancel and list_tools: while the reader runs, each of them gets
\* an answer, whatever the executions do; and when the reader stops, every call
\* that waits then returns.
CallsReleased ==
    \A c \in Calls :
        Waits(c) /\ (reader = "pending" \/ (reader = "reading" /\ c \in Cancels \cup Lists))
            ~> ~Waits(c)

\* The doc of cancel says that it waits for the guest to acknowledge, and the
\* comment in the reader that an awaiting cancel reports Disconnected when the
\* connection ends: a cancel that waits returns.
CancelReturns ==
    \A k \in Cancels : Waits(k) ~> ~Waits(k)
=============================================================================
