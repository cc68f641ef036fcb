-------------------------- MODULE PluginSupervisor --------------------------
(***************************************************************************)
(* executor-plugin, supervisor.rs: the calls of one plugin package, the    *)
(* manager task that owns its process, the reader of the process's output, *)
(* the cancellation watcher of each call and the grace timers.             *)
(*                                                                         *)
(* The manager awaits its writes to the plugin, so between taking a command*)
(* and finishing it everybody else may step: mgr says what it is busy with.*)
(* A frame, a command and an event carry the call they stand for, but the  *)
(* code sees only its id, IdOf[call]; a completed and a failed response    *)
(* differ in their payload only and are both "answer".                     *)
(***************************************************************************)
EXTENDS Integers, Sequences, FiniteSets

CONSTANTS
    MaxCalls,         \* bound: calls made through the supervisor
    Ids,              \* invocation ids
    IdOf,             \* the id of each call: its execution id
    MaxConcurrency,   \* manifest.max_concurrency
    CommandCapacity,  \* slots of the command channel (256 in the code)
    EventCapacity,    \* slots of the event channel (256 in the code)
    InCapacity,       \* frames that fit in the plugin's standard input
    OutCapacity,      \* frames that fit in the plugin's standard output
    MaxStrays,        \* bound: responses of the plugin that answer nothing
    MayDrop           \* a call may be dropped without being cancelled

Calls == 1..MaxCalls
None  == 0

ASSUME CallsAssumption == MaxCalls \in Nat /\ IdOf \in [Calls -> Ids]
ASSUME LimitsAssumption ==
    /\ MaxConcurrency \in Nat \ {0}
    /\ CommandCapacity \in Nat \ {0}
    /\ EventCapacity \in Nat \ {0}
    /\ InCapacity \in Nat \ {0}
    /\ OutCapacity \in Nat \ {0}
ASSUME FlagsAssumption == MaxStrays \in Nat /\ MayDrop \in BOOLEAN

VARIABLES
    attached,    \* whether the session still holds the supervisor
    caller,      \* where the future of each call is
    cancelled,   \* calls whose context token is cancelled
    result,      \* what each call's oneshot channel holds
    watching,    \* calls whose watcher task is alive
    timers,      \* calls whose cancellation is in its grace period
    commands,    \* the command channel
    events,      \* the event channel
    mgr,         \* what the manager is doing, for which call and why
    running,     \* generation of the process the manager owns, or None
    generation,  \* number of processes started
    pending,     \* the call waiting for an answer under each id
    process,     \* the plugin process: "down", "up" or "exited"
    reader,      \* whether the task that reads its output is alive
    stdin,       \* frames written to the plugin and not read by it
    serving,     \* calls the plugin has read and not answered
    stdout,      \* responses the reader has not read
    handled,     \* calls whose answer the manager has taken
    strays       \* number of responses that answered nothing

callers  == <<attached, caller, cancelled>>
helpers  == <<watching, timers>>
owned    == <<running, generation, pending, handled>>
plugin   == <<process, stdin, serving, stdout, strays>>
vars == <<callers, result, helpers, commands, events, mgr, owned, plugin, reader>>

-----------------------------------------------------------------------------
\* The future of a call that the executor still polls.
Active == {"acquiring", "sending", "awaiting"}

PendingCalls == {pending[id] : id \in Ids} \ {None}
Invokes(s)   == {s[i].call : i \in {j \in DOMAIN s : s[j].op = "invoke"}}

\* Mutant: the permit is dropped when the command has been sent.
Holders_UntilSent ==
    {k \in Calls : caller[k] = "sending"}

\* The calls that hold a permit: it lives in the Invocation, which moves from
\* the caller through the command channel and the manager into pending.
Holders ==
    {k \in Calls : caller[k] = "sending"} \cup Invokes(commands) \cup PendingCalls
        \cup (IF mgr.at = "writing" THEN {mgr.call} ELSE {})

\* Strong senders of the command channel; a grace timer has only a weak one.
ChannelOpen ==
    attached \/ watching # {} \/ \E k \in Calls : caller[k] \in Active

Idle == [at |-> "idle", call |-> None, why |-> "none"]
Busy(at, k) == [at |-> at, call |-> k, why |-> "none"]

\* A oneshot channel takes one value, and none once its receiver is dropped.
Resolve(ks, value) ==
    result' = [k \in Calls |->
        IF k \in ks /\ result[k] = "none" /\ caller[k] = "awaiting" THEN value ELSE result[k]]

\* A command can be sent: there is a slot.
Command(op, k) ==
    /\ Len(commands) < CommandCapacity
    /\ commands' = Append(commands, [op |-> op, call |-> k])

-----------------------------------------------------------------------------
Init ==
    /\ attached = TRUE
    /\ caller = [k \in Calls |-> "idle"]
    /\ cancelled = {}
    /\ result = [k \in Calls |-> "none"]
    /\ watching = {}
    /\ timers = {}
    /\ commands = <<>>
    /\ events = <<>>
    /\ mgr = Idle
    /\ running = None
    /\ generation = 0
    /\ pending = [id \in Ids |-> None]
    /\ process = "down"
    /\ reader = FALSE
    /\ stdin = <<>>
    /\ serving = {}
    /\ stdout = <<>>
    /\ handled = {}
    /\ strays = 0

-----------------------------------------------------------------------------
(* The calls.                                                              *)

\* The executor invokes the adapter. A connection refuses an execution id that
\* is in use, but an id may be used again. Calls are numbered as they come.
Invoke(k) ==
    /\ attached
    /\ caller[k] = "idle" /\ \A j \in Calls : j < k => caller[j] # "idle"
    /\ \A j \in Calls : caller[j] \in Active => IdOf[j] # IdOf[k]
    /\ caller' = [caller EXCEPT ![k] = "acquiring"]
    /\ UNCHANGED <<attached, cancelled, result, helpers, commands, events, mgr, owned, plugin, reader>>

Acquire(k) ==
    /\ caller[k] = "acquiring"
    /\ Cardinality(Holders) < MaxConcurrency
    /\ caller' = [caller EXCEPT ![k] = "sending"]
    /\ UNCHANGED <<attached, cancelled, result, helpers, commands, events, mgr, owned, plugin, reader>>

\* The command is sent and the watcher spawned.
SendInvoke(k) ==
    /\ caller[k] = "sending"
    /\ Command("invoke", k)
    /\ caller' = [caller EXCEPT ![k] = "awaiting"]
    /\ watching' = watching \cup {k}
    /\ UNCHANGED <<attached, cancelled, result, timers, events, mgr, owned, plugin, reader>>

\* The oneshot channel yields a result, or its sender was dropped.
Return(k) ==
    /\ caller[k] = "awaiting"
    /\ result[k] # "none"
    /\ caller' = [caller EXCEPT ![k] = "returned"]
    /\ UNCHANGED <<attached, cancelled, result, helpers, commands, events, mgr, owned, plugin, reader>>

\* The host cancels, or the executor does when the call is out of time.
CancelToken(k) ==
    /\ caller[k] \in Active
    /\ k \notin cancelled
    /\ cancelled' = cancelled \cup {k}
    /\ UNCHANGED <<attached, caller, result, helpers, commands, events, mgr, owned, plugin, reader>>

\* The executor drops the future of the call: it has cancelled the token,
\* unless the whole submission is dropped.
Drop(k) ==
    /\ caller[k] \in Active
    /\ k \in cancelled \/ MayDrop
    /\ caller' = [caller EXCEPT ![k] = "dropped"]
    /\ result' = [result EXCEPT ![k] = "none"]
    /\ UNCHANGED <<attached, cancelled, helpers, commands, events, mgr, owned, plugin, reader>>

\* The connection ends and its registry is dropped.
Detach ==
    /\ attached
    /\ attached' = FALSE
    /\ UNCHANGED <<caller, cancelled, result, helpers, commands, events, mgr, owned, plugin, reader>>

\* The watcher finds the token cancelled, which it may also do when the call
\* has just ended: its select prefers neither.
WatcherCancels(k) ==
    /\ k \in watching
    /\ k \in cancelled
    /\ Command("cancel", k)
    /\ watching' = watching \ {k}
    /\ UNCHANGED <<callers, result, timers, events, mgr, owned, plugin, reader>>

\* finished is cancelled, except when the sender of the result was dropped.
WatcherEnds(k) ==
    /\ k \in watching
    /\ caller[k] = "returned"
    /\ result[k] # "lost"
    /\ watching' = watching \ {k}
    /\ UNCHANGED <<callers, result, timers, commands, events, mgr, owned, plugin, reader>>

\* The grace period is over; the weak sender may be dead by then.
GraceExpires(k) ==
    /\ k \in timers
    /\ timers' = timers \ {k}
    /\ \/ ChannelOpen /\ Command("kill", k)
       \/ ~ChannelOpen /\ UNCHANGED commands
    /\ UNCHANGED <<callers, result, watching, events, mgr, owned, plugin, reader>>

-----------------------------------------------------------------------------
(* The manager.                                                            *)

\* stop_process takes the process; its write of Shutdown is awaited.
Stop(why, k) ==
    /\ mgr' = [at |-> "stopping", call |-> k, why |-> why]
    /\ running' = None

\* The next command, when the manager is at its select.
Received(op, k) ==
    /\ mgr.at = "idle"
    /\ commands # <<>>
    /\ Head(commands) = [op |-> op, call |-> k]
    /\ commands' = Tail(commands)

ReceiveInvoke(k) ==
    /\ Received("invoke", k)
    /\ running # None
    /\ mgr' = Busy("writing", k)
    /\ UNCHANGED <<callers, result, helpers, events, owned, plugin, reader>>

\* start_plugin: the process is spawned and answers the handshake.
StartPlugin(k) ==
    /\ Received("invoke", k)
    /\ running = None
    /\ generation' = generation + 1
    /\ running' = generation'
    /\ process' = "up"
    /\ reader' = TRUE
    /\ mgr' = Busy("writing", k)
    /\ UNCHANGED <<callers, result, helpers, events, pending, handled, stdin, serving, stdout, strays>>

\* It cannot be spawned, does not answer in time or answers something else:
\* the child is dropped and killed.
StartFails(k) ==
    /\ Received("invoke", k)
    /\ running = None
    /\ generation' = generation + 1
    /\ Resolve({k}, "error")
    /\ UNCHANGED <<callers, helpers, events, mgr, running, pending, handled, plugin, reader>>

\* A frame is written once the pipe has room for it.
Written(op, k) ==
    /\ process = "up"
    /\ Len(stdin) < InCapacity
    /\ stdin' = Append(stdin, [op |-> op, call |-> k])

\* pending.insert drops the invocation it replaces, with its result sender.
WriteInvoke(k) ==
    /\ mgr = Busy("writing", k)
    /\ Written("invoke", k)
    /\ Resolve({pending[IdOf[k]]}, "lost")
    /\ pending' = [pending EXCEPT ![IdOf[k]] = k]
    /\ mgr' = Idle
    /\ UNCHANGED <<callers, helpers, commands, events, running, generation, handled, process, serving, stdout, reader, strays>>

WriteInvokeFails(k) ==
    /\ mgr = Busy("writing", k)
    /\ process = "exited"
    /\ Resolve({k}, "error")
    /\ Stop("write failed", k)
    /\ UNCHANGED <<callers, helpers, commands, events, generation, pending, handled, plugin, reader>>

ReceiveCancel(k) ==
    /\ Received("cancel", k)
    /\ mgr' = IF pending[IdOf[k]] # None THEN Busy("cancelling", k) ELSE Idle
    /\ UNCHANGED <<callers, result, helpers, events, owned, plugin, reader>>

\* Mutant: no grace timer is started.
WriteCancel_NoTimer(k) ==
    /\ mgr = Busy("cancelling", k)
    /\ Written("cancel", k) \/ (process = "exited" /\ UNCHANGED stdin)
    /\ mgr' = Idle
    /\ UNCHANGED <<callers, result, helpers, commands, events, owned, process, serving, stdout, reader, strays>>

\* The outcome of the write is ignored; then the grace timer is spawned.
WriteCancel(k) ==
    /\ mgr = Busy("cancelling", k)
    /\ Written("cancel", k) \/ (process = "exited" /\ UNCHANGED stdin)
    /\ timers' = timers \cup {k}
    /\ mgr' = Idle
    /\ UNCHANGED <<callers, result, watching, commands, events, owned, process, serving, stdout, reader, strays>>

\* Mutant: the plugin is stopped whether or not the call is pending.
KillIfPending_Always(k) ==
    /\ Received("kill", k)
    /\ Stop("ignored", k)
    /\ UNCHANGED <<callers, result, helpers, events, generation, pending, handled, plugin, reader>>

KillIfPending(k) ==
    /\ Received("kill", k)
    /\ IF pending[IdOf[k]] # None THEN Stop("ignored", k) ELSE UNCHANGED <<mgr, running>>
    /\ UNCHANGED <<callers, result, helpers, events, generation, pending, handled, plugin, reader>>

\* Mutant: the manager ends and forgets the process.
CommandsClosed_NoStop ==
    /\ mgr.at = "idle"
    /\ commands = <<>>
    /\ ~ChannelOpen
    /\ mgr' = Busy("ended", None)
    /\ UNCHANGED <<callers, result, helpers, commands, events, owned, plugin, reader>>

\* Every sender is gone.
CommandsClosed ==
    /\ mgr.at = "idle"
    /\ commands = <<>>
    /\ ~ChannelOpen
    /\ IF running # None THEN Stop("closed", None)
       ELSE mgr' = Busy("ended", None) /\ UNCHANGED running
    /\ UNCHANGED <<callers, result, helpers, commands, events, generation, pending, handled, plugin, reader>>

\* Mutant: the calls of the stopped process are left pending.
StopProcess_KeepsPending ==
    /\ mgr.at = "stopping"
    /\ process = "exited" \/ Len(stdin) < InCapacity
    /\ process' = "down" /\ stdin' = <<>> /\ serving' = {} /\ stdout' = <<>>
    /\ reader' = FALSE
    /\ mgr' = IF mgr.why = "closed" THEN Busy("ended", None) ELSE Idle
    /\ UNCHANGED <<callers, result, helpers, commands, events, owned, strays>>

\* The rest of stop_process: the shutdown frame is written or refused, the
\* process exits or is killed, its reader is aborted. Then fail_all.
StopProcess ==
    /\ mgr.at = "stopping"
    /\ process = "exited" \/ Len(stdin) < InCapacity
    /\ process' = "down" /\ stdin' = <<>> /\ serving' = {} /\ stdout' = <<>>
    /\ reader' = FALSE
    /\ Resolve(PendingCalls, "error")
    /\ pending' = [id \in Ids |-> None]
    /\ mgr' = IF mgr.why = "closed" THEN Busy("ended", None) ELSE Idle
    /\ UNCHANGED <<callers, helpers, commands, events, running, generation, handled, strays>>

\* Mutant: an event of an earlier process counts as one of this process.
Current_AnyGeneration(e) == running # None

\* The event comes from the process the manager owns.
Current(e) == running # None /\ running = e.generation

\* The manager, at its select, takes the next event.
TakeEvent ==
    /\ mgr.at = "idle"
    /\ events' = Tail(events)

StaleEvent(e) ==
    /\ TakeEvent
    /\ ~Current(e)
    /\ UNCHANGED <<callers, result, helpers, commands, mgr, owned, plugin, reader>>

HandleClosed(e) ==
    /\ TakeEvent
    /\ Current(e) /\ e.what = "closed"
    /\ Stop("exited", None)
    /\ UNCHANGED <<callers, result, helpers, commands, generation, pending, handled, plugin, reader>>

HandleProgress(e) ==
    /\ TakeEvent
    /\ Current(e) /\ e.what = "progress" /\ pending[IdOf[e.call]] # None
    /\ UNCHANGED <<callers, result, helpers, commands, mgr, owned, plugin, reader>>

\* Completed or failed: the pending invocation leaves and its result is sent.
HandleAnswer(e) ==
    /\ TakeEvent
    /\ Current(e) /\ e.what = "answer" /\ pending[IdOf[e.call]] # None
    /\ Resolve({pending[IdOf[e.call]]}, "answered")
    /\ pending' = [pending EXCEPT ![IdOf[e.call]] = None]
    /\ handled' = handled \cup {e.call}
    /\ UNCHANGED <<callers, helpers, commands, mgr, running, generation, plugin, reader>>

\* A response for an unknown invocation, or a lifecycle response.
ProtocolViolation(e) ==
    /\ TakeEvent
    /\ Current(e)
    /\ \/ e.what = "lifecycle"
       \/ e.what \in {"progress", "answer"} /\ pending[IdOf[e.call]] = None
    /\ Stop("violation", e.call)
    /\ UNCHANGED <<callers, result, helpers, commands, generation, pending, handled, plugin, reader>>

-----------------------------------------------------------------------------
(* The reader task.                                                        *)

\* A message is read and sent to the manager once the channel has a slot. The
\* generation is the one the reader was started with.
ReaderForwards ==
    /\ reader
    /\ stdout # <<>>
    /\ Len(events) < EventCapacity
    /\ events' = Append(events, [generation |-> generation, what |-> Head(stdout).what,
                                 call |-> Head(stdout).call])
    /\ stdout' = Tail(stdout)
    /\ UNCHANGED <<callers, result, helpers, commands, mgr, owned, process, stdin, serving, reader, strays>>

\* Mutant: the end of the output is not reported.
ReaderCloses_Silent ==
    /\ reader
    /\ process = "exited" /\ stdout = <<>>
    /\ Len(events) < EventCapacity
    /\ reader' = FALSE
    /\ UNCHANGED <<callers, result, helpers, commands, events, mgr, owned, plugin>>

\* The plugin has exited or its output cannot be read.
ReaderCloses ==
    /\ reader
    /\ process = "exited" /\ stdout = <<>>
    /\ Len(events) < EventCapacity
    /\ events' = Append(events, [generation |-> generation, what |-> "closed", call |-> None])
    /\ reader' = FALSE
    /\ UNCHANGED <<callers, result, helpers, commands, mgr, owned, plugin>>

-----------------------------------------------------------------------------
(* The plugin process, as far as the protocol lets the daemon see it.      *)

PluginReads ==
    /\ process = "up"
    /\ stdin # <<>>
    /\ stdin' = Tail(stdin)
    /\ serving' = serving \cup Invokes(<<Head(stdin)>>)
    /\ UNCHANGED <<callers, result, helpers, commands, events, mgr, owned, process, stdout, reader, strays>>

Respond(what, k) ==
    /\ process = "up"
    /\ Len(stdout) < OutCapacity
    /\ stdout' = Append(stdout, [what |-> what, call |-> k])
    /\ UNCHANGED <<callers, result, helpers, commands, events, mgr, owned, process, stdin, reader>>

PluginAnswers(k) ==
    /\ k \in serving
    /\ Respond("answer", k)
    /\ serving' = serving \ {k}
    /\ UNCHANGED strays

PluginProgress(k) ==
    /\ k \in serving
    /\ Respond("progress", k)
    /\ UNCHANGED <<serving, strays>>

\* A response that is out of place: to no call it has read, or a lifecycle one.
PluginStrays ==
    /\ strays < MaxStrays
    /\ \/ Respond("lifecycle", None)
       \/ \E k \in Calls \ serving : Respond("answer", k) \/ Respond("progress", k)
    /\ strays' = strays + 1
    /\ UNCHANGED serving

PluginExits ==
    /\ process = "up"
    /\ process' = "exited"
    /\ UNCHANGED <<callers, result, helpers, commands, events, mgr, owned, stdin, serving, stdout, reader, strays>>

-----------------------------------------------------------------------------
CallStep(k)   == Acquire(k) \/ SendInvoke(k) \/ Return(k)
HelperStep(k) == WatcherCancels(k) \/ WatcherEnds(k) \/ GraceExpires(k)

ManagerCommand ==
    \E k \in Calls :
        \/ ReceiveInvoke(k) \/ StartPlugin(k) \/ StartFails(k)
        \/ ReceiveCancel(k) \/ KillIfPending(k)

ManagerEvent ==
    /\ events # <<>>
    /\ LET e == Head(events)
       IN  \/ StaleEvent(e) \/ HandleClosed(e) \/ HandleProgress(e)
           \/ HandleAnswer(e) \/ ProtocolViolation(e)

ManagerGoesOn ==
    \/ \E k \in Calls : WriteInvoke(k) \/ WriteInvokeFails(k) \/ WriteCancel(k)
    \/ StopProcess \/ CommandsClosed

Reader == ReaderForwards \/ ReaderCloses

Next ==
    \/ \E k \in Calls :
          \/ Invoke(k) \/ CancelToken(k) \/ Drop(k) \/ CallStep(k) \/ HelperStep(k)
          \/ PluginAnswers(k) \/ PluginProgress(k)
    \/ Detach
    \/ ManagerCommand \/ ManagerEvent \/ ManagerGoesOn
    \/ Reader
    \/ PluginReads \/ PluginExits \/ PluginStrays

Spec == Init /\ [][Next]_vars

\* The runtime runs every task that can go on. The manager's select picks a
\* ready branch at random, so neither channel is neglected for ever.
FairDaemon ==
    /\ \A k \in Calls : WF_vars(CallStep(k)) /\ WF_vars(HelperStep(k))
    /\ SF_vars(ManagerCommand) /\ SF_vars(ManagerEvent) /\ WF_vars(ManagerGoesOn)
    /\ WF_vars(Reader)

\* The plugin owes nothing: it may hang for ever.
FairSpec == Spec /\ FairDaemon

-----------------------------------------------------------------------------
(* Properties.                                                             *)

\* No call waits for a process that is not there: whatever is pending belongs to
\* the process the manager owns or is just stopping, and a call that is
\* neither queued nor pending nor being written has its result.
NoOrphan ==
    /\ PendingCalls # {} => running # None \/ mgr.at = "stopping"
    /\ \A k \in Calls : caller[k] = "awaiting" /\ result[k] = "none" =>
          k \in PendingCalls \cup Invokes(commands) \/ (mgr.at = "writing" /\ mgr.call = k)

\* A plugin that sends only what it is asked for never has more unanswered
\* invocations than max_concurrency of its manifest, however calls are
\* cancelled and dropped and the process replaced.
PluginConcurrency ==
    strays = 0 => Cardinality(serving \cup Invokes(stdin)) <= MaxConcurrency

\* Such a plugin is never stopped for a protocol violation: messages of an
\* earlier process are not held against it.
NoFalseViolation ==
    strays = 0 => mgr.why # "violation"

\* docs/plugin-protocol.md: the package is killed for a cancellation only when
\* the plugin has not finished that invocation.
KilledOnlyIfIgnored ==
    mgr.why = "ignored" => mgr.call \notin handled

\* docs/plugin-protocol.md: a cancelled invocation is finished by the plugin or
\* ended by the daemon after the grace period, and with it its permit.
CancelledCallReleased ==
    \A k \in Calls : k \in cancelled /\ k \in PendingCalls ~> k \notin PendingCalls

\* When the process dies, the calls that wait for it are failed.
CrashReleasesCalls ==
    \A k \in Calls : k \in PendingCalls /\ process = "exited" ~> k \notin PendingCalls

\* A call that was dropped without a cancellation, or lost its result sender,
\* never tells its watcher that it has finished: the watcher keeps a sender of
\* the command channel.
Stranded ==
    {k \in watching \ cancelled :
        caller[k] = "dropped" \/ (caller[k] = "returned" /\ result[k] = "lost")}

\* When the session is gone and no call is left, the manager stops the process
\* and ends, unless the watcher of a call that was dropped without a
\* cancellation keeps the command channel open (invoke, run_manager).
ProcessReaped ==
    (~attached /\ Stranded = {} /\ \A k \in Calls : caller[k] \notin Active)
        ~> (mgr.at = "ended" /\ process = "down")
=============================================================================
