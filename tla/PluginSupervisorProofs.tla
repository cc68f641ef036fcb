----------------------- MODULE PluginSupervisorProofs -----------------------
(***************************************************************************)
(* Proofs about PluginSupervisor for every number of calls, capacity and   *)
(* limit: no call is orphaned, and the permits bound what is under way     *)
(* whatever the ids. With an id of its own for each call also: the package *)
(* is killed only for a call it has not finished, a plugin that sends only *)
(* what it is asked for is never accused of a violation, and it never has  *)
(* more invocations than the manifest allows.                              *)
(***************************************************************************)
EXTENDS PluginSupervisor, FiniteSetTheorems, SequenceTheorems, TLAPS

Places   == {"idle", "acquiring", "sending", "awaiting", "returned", "dropped"}
Outcomes == {"none", "error", "answered", "lost"}
Steps    == {"idle", "writing", "cancelling", "stopping", "ended"}
Reasons  == {"none", "write failed", "ignored", "closed", "exited", "violation"}

CommandMsg == [op : {"invoke", "cancel", "kill"}, call : Calls]
Response   == [what : {"answer", "progress", "lifecycle"}, call : Calls \cup {None}]
Event      == [generation : Nat, what : {"answer", "progress", "lifecycle", "closed"},
               call : Calls \cup {None}]

\* What the manager may be doing; it has a reason only to stop the process.
ManagerState(m) ==
    /\ m \in [at : Steps, call : Calls \cup {None}, why : Reasons]
    /\ m.at # "stopping" => m.why = "none"

\* The calls and the manager.
CallTypes ==
    /\ caller \in [Calls -> Places]
    /\ result \in [Calls -> Outcomes]
    /\ pending \in [Ids -> Calls \cup {None}]
    /\ commands \in Seq(CommandMsg)
    /\ ManagerState(mgr)
    /\ running \in Nat /\ generation \in Nat

\* The process and its reader. Only a lifecycle response is about no call.
PluginTypes ==
    /\ stdin \in Seq(CommandMsg)
    /\ stdout \in Seq(Response)
    /\ events \in Seq(Event)
    /\ \A i \in DOMAIN stdout : stdout[i].what # "lifecycle" => stdout[i].call \in Calls
    /\ \A i \in DOMAIN events :
          events[i].what \in {"answer", "progress"} => events[i].call \in Calls
    /\ serving \subseteq Calls
    /\ strays \in Nat

\* A frame is written to a process the manager owns.
WritesToOwned == mgr.at = "writing" => running # None

-----------------------------------------------------------------------------
(* Where the invocation of a call is.                                      *)

Before  == {k \in Calls : caller[k] \in {"idle", "acquiring", "sending"}}
Sending == {k \in Calls : caller[k] = "sending"}
Queued  == Invokes(commands)
Writing == IF mgr.at = "writing" THEN {mgr.call} ELSE {}

\* It has not reached the plugin yet.
Ahead == Before \cup Queued \cup Writing

\* No two of these frames invoke the same call.
InvokedOnce(s) ==
    \A i, j \in DOMAIN s :
        s[i].op = "invoke" /\ s[j].op = "invoke" /\ s[i].call = s[j].call => i = j

\* An invocation is in one place.
PlaceInv ==
    /\ InvokedOnce(commands)
    /\ Before \cap Queued = {}
    /\ Before \cap Writing = {}
    /\ Queued \cap Writing = {}
    /\ PendingCalls \cap Ahead = {}

PermitInv == IsFiniteSet(Holders) /\ Cardinality(Holders) <= MaxConcurrency

\* A pending call is found under its own id.
OwnId == \A id \in Ids : pending[id] # None => IdOf[pending[id]] = id

-----------------------------------------------------------------------------
(* What the plugin has been given and what it has said.                    *)

Given == serving \cup Invokes(stdin)

\* A process that is not owned and not being stopped is gone with its pipes.
GoneInv ==
    running = None /\ mgr.at # "stopping" =>
        process = "down" /\ ~reader /\ stdin = <<>> /\ serving = {} /\ stdout = <<>>

\* The process the manager owns is the last one started.
GenerationInv ==
    /\ running # None => running = generation
    /\ \A i \in DOMAIN events : events[i].generation <= generation

\* A call that was answered before is neither pending nor about to be.
HandledInv == handled \cap (Ahead \cup PendingCalls) = {}

\* What the plugin has been given is pending, each call once.
GivenInv ==
    /\ Given \subseteq PendingCalls
    /\ InvokedOnce(stdin)
    /\ serving \cap Invokes(stdin) = {}

\* What comes from the process is about a pending call, and its answer is the
\* last that is said about a call.
SaidInv ==
    /\ \A i \in DOMAIN stdout :
          /\ stdout[i].what # "lifecycle"
          /\ stdout[i].call \in PendingCalls
          /\ stdout[i].what = "answer" => stdout[i].call \notin Given
    /\ \A i \in DOMAIN events : Current(events[i]) =>
          /\ events[i].what # "lifecycle"
          /\ events[i].what # "closed" => events[i].call \in PendingCalls
          /\ events[i].what = "answer" => events[i].call \notin Given
    /\ \A i, j \in DOMAIN stdout :
          i < j /\ stdout[i].what = "answer" => stdout[j].call # stdout[i].call
    /\ \A i, j \in DOMAIN events :
          i < j /\ Current(events[i]) /\ Current(events[j]) /\ events[i].what = "answer"
             => events[j].call # events[i].call
    /\ \A i \in DOMAIN events, j \in DOMAIN stdout :
          Current(events[i]) /\ events[i].what = "answer" => stdout[j].call # events[i].call

\* Every call has an id of its own.
OwnIds == \A j, k \in Calls : IdOf[j] = IdOf[k] => j = k

PlantInv == strays = 0 => GivenInv /\ (running # None => SaidInv) /\ NoFalseViolation

-----------------------------------------------------------------------------
(* Sequences of frames.                                                    *)

\* A frame that is appended adds the call it invokes.
LEMMA InvokesOfAppend ==
    ASSUME NEW s \in Seq(CommandMsg), NEW m \in CommandMsg
    PROVE  /\ Append(s, m) \in Seq(CommandMsg)
           /\ m.op = "invoke" => Invokes(Append(s, m)) = Invokes(s) \cup {m.call}
           /\ m.op # "invoke" => Invokes(Append(s, m)) = Invokes(s)
           /\ InvokedOnce(s) /\ (m.op = "invoke" => m.call \notin Invokes(s))
                => InvokedOnce(Append(s, m))
  <1> DEFINE t == Append(s, m)
  <1>1. /\ t \in Seq(CommandMsg)
        /\ DOMAIN s = 1..Len(s) /\ Len(s) \in Nat
        /\ DOMAIN t = 1..(Len(s) + 1)
        /\ \A i \in DOMAIN s : t[i] = s[i]
        /\ t[Len(s) + 1] = m
    OBVIOUS
  <1> HIDE DEF t
  <1>2. /\ m.op = "invoke" => Invokes(t) = Invokes(s) \cup {m.call}
        /\ m.op # "invoke" => Invokes(t) = Invokes(s)
    <2>1. \A i \in DOMAIN t : i \in DOMAIN s \/ i = Len(s) + 1
      BY <1>1
    <2>2. DOMAIN s \subseteq DOMAIN t /\ Len(s) + 1 \in DOMAIN t
      BY <1>1
    <2> QED BY <1>1, <2>1, <2>2, Zenon DEF Invokes
  <1>3. ASSUME InvokedOnce(s), m.op = "invoke" => m.call \notin Invokes(s)
        PROVE  InvokedOnce(t)
    <2>1. \A i \in DOMAIN s : m.op = "invoke" /\ s[i].op = "invoke" => s[i].call # m.call
      BY <1>3 DEF Invokes
    <2> QED BY <1>1, <1>3, <2>1 DEF InvokedOnce
  <1> QED BY <1>1, <1>2, <1>3 DEF t

\* Taking the first frame takes the call it invokes.
LEMMA InvokesOfTail ==
    ASSUME NEW s \in Seq(CommandMsg), s # <<>>
    PROVE  /\ Head(s) \in CommandMsg /\ Tail(s) \in Seq(CommandMsg)
           /\ Head(s).op = "invoke" => Invokes(s) = Invokes(Tail(s)) \cup {Head(s).call}
           /\ Head(s).op # "invoke" => Invokes(s) = Invokes(Tail(s))
           /\ InvokedOnce(s) => /\ InvokedOnce(Tail(s))
                                /\ Head(s).op = "invoke" => Head(s).call \notin Invokes(Tail(s))
  <1> DEFINE t == Tail(s)
             m == Head(s)
  <1>1. /\ m \in CommandMsg /\ t \in Seq(CommandMsg)
        /\ DOMAIN s = 1..Len(s) /\ Len(s) \in Nat \ {0}
        /\ DOMAIN t = 1..(Len(s) - 1)
        /\ \A i \in DOMAIN t : t[i] = s[i + 1]
        /\ s[1] = m
    OBVIOUS
  <1> HIDE DEF t, m
  <1>2. /\ 1 \in DOMAIN s
        /\ \A i \in DOMAIN t : i + 1 \in DOMAIN s
        /\ \A i \in DOMAIN s : i = 1 \/ \E j \in DOMAIN t : i = j + 1
    <2>1. \A i \in DOMAIN s : i # 1 => i - 1 \in DOMAIN t /\ i = (i - 1) + 1
      BY <1>1
    <2> QED BY <1>1, <2>1
  <1>3. /\ m.op = "invoke" => Invokes(s) = Invokes(t) \cup {m.call}
        /\ m.op # "invoke" => Invokes(s) = Invokes(t)
    <2>1. \A x \in Invokes(s) : x \in Invokes(t) \/ (m.op = "invoke" /\ x = m.call)
      BY <1>1, <1>2 DEF Invokes
    <2>2. \A x \in Invokes(t) : x \in Invokes(s)
      BY <1>1, <1>2 DEF Invokes
    <2>3. m.op = "invoke" => m.call \in Invokes(s)
      BY <1>1, <1>2 DEF Invokes
    <2> QED BY <2>1, <2>2, <2>3
  <1>4. ASSUME InvokedOnce(s)
        PROVE  InvokedOnce(t) /\ (m.op = "invoke" => m.call \notin Invokes(t))
    <2>1. InvokedOnce(t)
      BY <1>1, <1>2, <1>4 DEF InvokedOnce
    <2>2. \A i \in DOMAIN t : m.op = "invoke" /\ t[i].op = "invoke" => t[i].call # m.call
      BY <1>1, <1>2, <1>4 DEF InvokedOnce
    <2> QED BY <2>1, <2>2 DEF Invokes
  <1> QED BY <1>1, <1>3, <1>4 DEF t, m

-----------------------------------------------------------------------------
(* Types.                                                                  *)

\* The states the manager's code puts it in.
LEMMA ManagerStates ==
    /\ ManagerState(Idle)
    /\ \A k \in Calls \cup {None} :
          /\ ManagerState(Busy("writing", k)) /\ ManagerState(Busy("cancelling", k))
          /\ ManagerState(Busy("ended", k))
          /\ \A why \in Reasons : ManagerState([at |-> "stopping", call |-> k, why |-> why])
  BY DEF ManagerState, Idle, Busy, Steps, Reasons

\* Every step keeps the types of the calls and the manager.
LEMMA CallTypesStep ==
    ASSUME CallTypes, PluginTypes, [Next]_vars
    PROVE  CallTypes'
  <1> USE CallsAssumption DEF CallTypes, callers, helpers, owned, plugin
  <1>0. None \notin Calls /\ \A k \in Calls : IdOf[k] \in Ids
    BY DEF None, Calls
  <1>1. CASE UNCHANGED vars
    BY <1>1 DEF vars
  <1>2. ASSUME NEW k \in Calls,
               \/ Invoke(k) \/ CancelToken(k) \/ Drop(k) \/ Acquire(k) \/ Return(k)
               \/ WatcherEnds(k) \/ PluginAnswers(k) \/ PluginProgress(k)
        PROVE  CallTypes'
    BY <1>2 DEF Invoke, CancelToken, Drop, Acquire, Return, WatcherEnds, PluginAnswers,
                PluginProgress, Respond, Places, Outcomes
  <1>3. ASSUME NEW k \in Calls, SendInvoke(k) \/ WatcherCancels(k) \/ GraceExpires(k)
        PROVE  CallTypes'
    <2>1. commands' = commands \/ \E op \in {"invoke", "cancel", "kill"} : Command(op, k)
      BY <1>3 DEF SendInvoke, WatcherCancels, GraceExpires
    <2>2. commands' \in Seq(CommandMsg)
      <3>1. \A op \in {"invoke", "cancel", "kill"} : [op |-> op, call |-> k] \in CommandMsg
        BY DEF CommandMsg
      <3>2. ASSUME NEW m \in CommandMsg, commands' = Append(commands, m)
            PROVE  commands' \in Seq(CommandMsg)
        BY <3>2, InvokesOfAppend
      <3> QED BY <2>1, <3>1, <3>2 DEF Command
    <2> QED BY <1>3, <2>2 DEF SendInvoke, WatcherCancels, GraceExpires, Places
  <1>4. ASSUME NEW k \in Calls,
               \/ ReceiveInvoke(k) \/ StartPlugin(k) \/ StartFails(k)
               \/ ReceiveCancel(k) \/ KillIfPending(k)
        PROVE  CallTypes'
    <2>1. \E op : Received(op, k)
      BY <1>4 DEF ReceiveInvoke, StartPlugin, StartFails, ReceiveCancel, KillIfPending
    <2>2. commands' \in Seq(CommandMsg)
      BY <2>1 DEF Received
    <2>3. result' \in [Calls -> Outcomes]
      BY <1>4 DEF ReceiveInvoke, StartPlugin, StartFails, ReceiveCancel, KillIfPending,
                  Resolve, Outcomes
    <2>4. running' \in Nat /\ generation' \in Nat
      BY <1>4 DEF ReceiveInvoke, StartPlugin, StartFails, ReceiveCancel, KillIfPending, Stop, None
    <2>5. ManagerState(mgr')
      BY <1>4, ManagerStates
      DEF ReceiveInvoke, StartPlugin, StartFails, ReceiveCancel, KillIfPending, Stop, Reasons
    <2> QED BY <1>4, <2>2, <2>3, <2>4, <2>5
            DEF ReceiveInvoke, StartPlugin, StartFails, ReceiveCancel, KillIfPending
  <1>5. ASSUME NEW k \in Calls, WriteInvoke(k) \/ WriteInvokeFails(k) \/ WriteCancel(k)
        PROVE  CallTypes'
    <2>1. ManagerState(mgr')
      BY <1>5, ManagerStates DEF WriteInvoke, WriteInvokeFails, WriteCancel, Stop, Reasons
    <2>2. result' \in [Calls -> Outcomes]
      BY <1>5 DEF WriteInvoke, WriteInvokeFails, WriteCancel, Resolve, Outcomes
    <2>3. pending' \in [Ids -> Calls \cup {None}]
      BY <1>5, <1>0 DEF WriteInvoke, WriteInvokeFails, WriteCancel
    <2>4. running' \in Nat
      <3>1. running' = running \/ running' = None
        BY <1>5 DEF WriteInvoke, WriteInvokeFails, WriteCancel, Stop
      <3> QED BY <3>1 DEF None
    <2>5. generation' = generation /\ caller' = caller /\ commands' = commands
      BY <1>5 DEF WriteInvoke, WriteInvokeFails, WriteCancel
    <2> QED BY <2>1, <2>2, <2>3, <2>4, <2>5
  <1>6. CASE StopProcess
    <2>1. ManagerState(mgr')
      BY <1>6, ManagerStates DEF StopProcess
    <2>2. result' \in [Calls -> Outcomes]
      BY <1>6 DEF StopProcess, Resolve, Outcomes
    <2> QED BY <1>6, <2>1, <2>2 DEF StopProcess
  <1>7. CASE CommandsClosed
    <2>1. ManagerState(mgr')
      BY <1>7, ManagerStates DEF CommandsClosed, Stop, Reasons
    <2> QED BY <1>7, <2>1 DEF CommandsClosed, Stop, None
  <1>8. ASSUME NEW e, StaleEvent(e) \/ HandleProgress(e)
        PROVE  CallTypes'
    BY <1>8 DEF StaleEvent, HandleProgress
  <1>9. ASSUME NEW e, e.call \in Calls \cup {None}, HandleClosed(e) \/ ProtocolViolation(e)
        PROVE  CallTypes'
    <2>1. ManagerState(mgr')
      BY <1>9, ManagerStates DEF HandleClosed, ProtocolViolation, Stop, Reasons
    <2> QED BY <1>9, <2>1 DEF HandleClosed, ProtocolViolation, Stop, None
  <1>10. ASSUME NEW e, HandleAnswer(e)
         PROVE  CallTypes'
    <2>1. result' \in [Calls -> Outcomes]
      BY <1>10 DEF HandleAnswer, Resolve, Outcomes
    <2>2. pending' \in [Ids -> Calls \cup {None}]
      BY <1>10 DEF HandleAnswer
    <2> QED BY <1>10, <2>1, <2>2 DEF HandleAnswer
  <1>11. CASE Detach \/ Reader \/ PluginReads \/ PluginExits \/ PluginStrays
    BY <1>11 DEF Detach, Reader, ReaderForwards, ReaderCloses, PluginReads, PluginExits,
                 PluginStrays, Respond
  <1>12. CASE ManagerEvent
    <2>1. events # <<>> => Head(events).call \in Calls \cup {None}
      <3>1. events # <<>> => Head(events) \in Event
        BY DEF PluginTypes
      <3> QED BY <3>1 DEF Event
    <2> QED BY <1>8, <1>9, <1>10, <1>12, <2>1 DEF ManagerEvent
  <1> QED
    BY <1>1, <1>2, <1>3, <1>4, <1>5, <1>6, <1>7, <1>11, <1>12
    DEF Next, CallStep, HelperStep, ManagerCommand, ManagerGoesOn

\* A frame is written, a response comes, or the pipes are emptied.
LEMMA Pipes ==
    /\ \A k \in Calls :
          /\ [op |-> "invoke", call |-> k] \in CommandMsg
          /\ [op |-> "cancel", call |-> k] \in CommandMsg
          /\ [op |-> "kill", call |-> k] \in CommandMsg
          /\ [what |-> "answer", call |-> k] \in Response
          /\ [what |-> "progress", call |-> k] \in Response
    /\ [what |-> "lifecycle", call |-> None] \in Response
  BY DEF CommandMsg, Response

\* What is appended is of the type of what was there, and keeps what holds of
\* every element; so does what is left when the first is taken.
LEMMA OutputAppend ==
    ASSUME NEW S, NEW s \in Seq(S), NEW m \in S
    PROVE  /\ Append(s, m) \in Seq(S)
           /\ DOMAIN s = 1..Len(s) /\ Len(s) \in Nat
           /\ DOMAIN Append(s, m) = 1..(Len(s) + 1)
           /\ \A i \in DOMAIN s : Append(s, m)[i] = s[i]
           /\ Append(s, m)[Len(s) + 1] = m
  OBVIOUS

\* The same in terms of positions.
LEMMA AppendOrder ==
    ASSUME NEW S, NEW s \in Seq(S), NEW m \in S
    PROVE  \E n \in DOMAIN Append(s, m) :
             /\ \A i \in DOMAIN Append(s, m) : i \in DOMAIN s \/ i = n
             /\ \A i \in DOMAIN s : i \in DOMAIN Append(s, m) /\ Append(s, m)[i] = s[i] /\ ~(n < i)
             /\ Append(s, m)[n] = m /\ ~(n < n)
  <1>1. WITNESS Len(s) + 1 \in DOMAIN Append(s, m)
  <1> QED BY OutputAppend

LEMMA OutputTail ==
    ASSUME NEW S, NEW s \in Seq(S), s # <<>>
    PROVE  /\ Tail(s) \in Seq(S) /\ Head(s) \in S
           /\ 1 \in DOMAIN s /\ s[1] = Head(s)
           /\ \A i \in DOMAIN Tail(s) :
                 i \in Nat /\ i + 1 > 1 /\ i + 1 \in DOMAIN s /\ Tail(s)[i] = s[i + 1]
  OBVIOUS

\* Every step keeps the types of the process's side.
LEMMA PluginTypesStep ==
    ASSUME CallTypes, PluginTypes, [Next]_vars
    PROVE  PluginTypes'
  <1> DEFINE Said(s)  == \A i \in DOMAIN s : s[i].what # "lifecycle" => s[i].call \in Calls
             Heard(s) == \A i \in DOMAIN s :
                            s[i].what \in {"answer", "progress"} => s[i].call \in Calls
  <1> USE DEF PluginTypes, callers, helpers, owned, plugin
  <1>0. Said(stdout) /\ Heard(events)
    OBVIOUS
  <1>t. ASSUME events # <<>>, events' = Tail(events)
        PROVE  events' \in Seq(Event) /\ Heard(events')
    <2>1. Tail(events) \in Seq(Event)
          /\ \A i \in DOMAIN Tail(events) : i + 1 \in DOMAIN events /\ Tail(events)[i] = events[i + 1]
      BY <1>t, OutputTail
    <2> QED BY <1>t, <2>1
  <1>1. CASE UNCHANGED vars
    BY <1>1 DEF vars
  <1>2. ASSUME NEW k \in Calls,
               \/ Invoke(k) \/ CancelToken(k) \/ Drop(k) \/ CallStep(k) \/ HelperStep(k)
               \/ ReceiveInvoke(k) \/ StartPlugin(k) \/ StartFails(k)
               \/ ReceiveCancel(k) \/ KillIfPending(k) \/ WriteInvokeFails(k)
        PROVE  PluginTypes'
    BY <1>2 DEF Invoke, CancelToken, Drop, CallStep, Acquire, SendInvoke, Return, HelperStep,
                WatcherCancels, WatcherEnds, GraceExpires, ReceiveInvoke, StartPlugin,
                StartFails, ReceiveCancel, KillIfPending, WriteInvokeFails
  <1>3. ASSUME NEW k \in Calls, WriteInvoke(k) \/ WriteCancel(k)
        PROVE  PluginTypes'
    <2>1. stdin' = stdin \/ Written("invoke", k) \/ Written("cancel", k)
      BY <1>3 DEF WriteInvoke, WriteCancel
    <2>2. stdin' \in Seq(CommandMsg)
      <3>1. \A m \in CommandMsg : Append(stdin, m) \in Seq(CommandMsg)
        BY OutputAppend
      <3> QED BY <2>1, <3>1, Pipes DEF Written
    <2> QED BY <1>3, <2>2 DEF WriteInvoke, WriteCancel
  <1>4. CASE StopProcess
    BY <1>4 DEF StopProcess
  <1>5. CASE CommandsClosed \/ Detach \/ PluginExits
    BY <1>5 DEF CommandsClosed, Detach, PluginExits
  <1>6. CASE ManagerEvent
    <2>1. events # <<>> /\ events' = Tail(events) /\ UNCHANGED plugin
      BY <1>6 DEF ManagerEvent, TakeEvent, StaleEvent, HandleClosed, HandleProgress,
                  HandleAnswer, ProtocolViolation
    <2> QED BY <1>t, <2>1
  <1>7. CASE ReaderForwards
    <2> DEFINE m == [generation |-> generation, what |-> Head(stdout).what,
                     call |-> Head(stdout).call]
    <2>1. /\ Head(stdout) \in Response /\ Tail(stdout) \in Seq(Response)
          /\ Head(stdout).what # "lifecycle" => Head(stdout).call \in Calls
          /\ \A i \in DOMAIN Tail(stdout) :
                i + 1 \in DOMAIN stdout /\ Tail(stdout)[i] = stdout[i + 1]
      BY <1>7, OutputTail DEF ReaderForwards
    <2>2. m \in Event /\ m.what = Head(stdout).what /\ m.call = Head(stdout).call
      BY <2>1 DEF Response, Event, CallTypes
    <2>3. events' = Append(events, m) /\ stdout' = Tail(stdout)
      BY <1>7 DEF ReaderForwards
    <2> HIDE DEF m
    <2>4. events' \in Seq(Event) /\ Heard(events')
      <3>1. m.what \in {"answer", "progress"} => m.call \in Calls
        BY <2>1, <2>2
      <3> QED BY <2>2, <2>3, <3>1, OutputAppend
    <2>5. stdout' \in Seq(Response) /\ Said(stdout')
      BY <2>1, <2>3
    <2> QED BY <1>7, <2>4, <2>5 DEF ReaderForwards
  <1>8. CASE ReaderCloses
    <2> DEFINE m == [generation |-> generation, what |-> "closed", call |-> None]
    <2>1. m \in Event /\ m.what = "closed"
      BY DEF Event, CallTypes
    <2>2. events' = Append(events, m)
      BY <1>8 DEF ReaderCloses
    <2> HIDE DEF m
    <2>3. events' \in Seq(Event) /\ Heard(events')
      BY <2>1, <2>2, OutputAppend
    <2> QED BY <1>8, <2>3 DEF ReaderCloses
  <1>9. CASE PluginReads
    <2>1. stdin # <<>> /\ stdin' = Tail(stdin) /\ serving' = serving \cup Invokes(<<Head(stdin)>>)
      BY <1>9 DEF PluginReads
    <2>2. Invokes(<<Head(stdin)>>) \subseteq {Head(stdin).call}
      BY DEF Invokes
    <2>3. Head(stdin) \in CommandMsg /\ stdin' \in Seq(CommandMsg)
      BY <2>1, InvokesOfTail
    <2>4. serving' \subseteq Calls
      BY <2>1, <2>2, <2>3 DEF CommandMsg
    <2> QED BY <1>9, <2>3, <2>4 DEF PluginReads
  <1>10. ASSUME NEW m \in Response, m.what # "lifecycle" => m.call \in Calls,
                stdout' = Append(stdout, m)
         PROVE  stdout' \in Seq(Response) /\ Said(stdout')
    BY <1>10, OutputAppend
  <1>11. ASSUME NEW k \in Calls, PluginAnswers(k) \/ PluginProgress(k)
         PROVE  PluginTypes'
    <2>1. stdout' \in Seq(Response) /\ Said(stdout')
      BY <1>10, <1>11, Pipes DEF PluginAnswers, PluginProgress, Respond
    <2> QED BY <1>11, <2>1 DEF PluginAnswers, PluginProgress, Respond
  <1>12. CASE PluginStrays
    <2>1. stdout' \in Seq(Response) /\ Said(stdout')
      BY <1>10, <1>12, Pipes DEF PluginStrays, Respond
    <2>2. strays' \in Nat
      BY <1>12 DEF PluginStrays
    <2> QED BY <1>12, <2>1, <2>2 DEF PluginStrays, Respond
  <1> QED
    BY <1>1, <1>2, <1>3, <1>4, <1>5, <1>6, <1>7, <1>8, <1>9, <1>11, <1>12
    DEF Next, ManagerCommand, ManagerGoesOn, Reader

-----------------------------------------------------------------------------
(* What a step does to the place of an invocation.                         *)

\* No invocation comes anywhere.
Shrinks ==
    /\ Before' \subseteq Before /\ Sending' \subseteq Sending
    /\ Queued' \subseteq Queued /\ (InvokedOnce(commands) => InvokedOnce(commands)')
    /\ Writing' \subseteq Writing
    /\ PendingCalls' \subseteq PendingCalls

\* A call gets a permit.
Acquired(k) ==
    /\ Before' \subseteq Before /\ Sending' \subseteq Sending \cup {k}
    /\ commands' = commands /\ Queued' = Queued /\ Writing' = Writing
    /\ PendingCalls' = PendingCalls
    /\ Cardinality(Holders) < MaxConcurrency

\* A call sends its command.
Sent(k) ==
    /\ k \in Sending
    /\ Before' \subseteq Before \ {k} /\ Sending' \subseteq Sending
    /\ Queued' = Queued \cup {k}
    /\ InvokedOnce(commands) /\ k \notin Queued => InvokedOnce(commands)'
    /\ Writing' = Writing /\ PendingCalls' = PendingCalls

\* The manager takes it from the channel to write it.
Taken(k) ==
    /\ k \in Queued
    /\ Before' = Before /\ Sending' = Sending
    /\ Queued' \subseteq Queued
    /\ InvokedOnce(commands) => InvokedOnce(commands)' /\ k \notin Queued'
    /\ Writing' = {k} /\ PendingCalls' = PendingCalls

\* It is written and becomes pending.
Put(k) ==
    /\ Writing = {k}
    /\ Before' = Before /\ Sending' = Sending
    /\ commands' = commands /\ Queued' = Queued
    /\ Writing' = {} /\ PendingCalls' \subseteq PendingCalls \cup {k}

\* The pending map: a slot is filled, or emptied.
LEMMA PendingSlot ==
    ASSUME CallTypes, NEW id \in Ids, NEW x \in Calls \cup {None},
           pending' = [pending EXCEPT ![id] = x]
    PROVE  /\ PendingCalls' \subseteq PendingCalls \cup ({x} \ {None})
           /\ PendingCalls \subseteq PendingCalls' \cup {pending[id]}
           /\ x # None => x \in PendingCalls'
  <1>1. pending'[id] = x /\ \A j \in Ids : j # id => pending'[j] = pending[j]
    BY DEF CallTypes
  <1> QED BY <1>1 DEF PendingCalls

\* The first command leaves the channel.
LEMMA ReceivedEffect ==
    ASSUME CallTypes, NEW op, NEW k \in Calls, Received(op, k)
    PROVE  /\ op = "invoke" => k \in Queued /\ Queued \subseteq Queued' \cup {k}
           /\ op # "invoke" => Queued \subseteq Queued'
           /\ Queued' \subseteq Queued
           /\ InvokedOnce(commands) => InvokedOnce(commands)'
           /\ InvokedOnce(commands) /\ op = "invoke" => k \notin Queued'
           /\ Writing = {}
  <1>1. commands \in Seq(CommandMsg) /\ commands # <<>> /\ commands' = Tail(commands)
    BY DEF CallTypes, Received
  <1>2. Head(commands).op = op /\ Head(commands).call = k
    BY DEF Received
  <1>3. Writing = {}
    BY DEF Received, Writing
  <1>4. Queued = Invokes(commands) /\ Queued' = Invokes(Tail(commands))
    BY <1>1 DEF Queued
  <1>5. InvokedOnce(commands)' <=> InvokedOnce(Tail(commands))
    BY <1>1
  <1> QED BY <1>1, <1>2, <1>3, <1>4, <1>5, InvokesOfTail

\* A command is appended to the channel.
LEMMA CommandEffect ==
    ASSUME CallTypes, NEW op \in {"invoke", "cancel", "kill"}, NEW k \in Calls, Command(op, k)
    PROVE  /\ op = "invoke" => Queued' = Queued \cup {k}
           /\ op # "invoke" => Queued' = Queued
           /\ InvokedOnce(commands) /\ (op = "invoke" => k \notin Queued) => InvokedOnce(commands)'
  <1> DEFINE m == [op |-> op, call |-> k]
  <1>1. m \in CommandMsg /\ m.op = op /\ m.call = k
    BY DEF CommandMsg
  <1>2. commands \in Seq(CommandMsg) /\ commands' = Append(commands, m)
    BY DEF CallTypes, Command
  <1> HIDE DEF m
  <1>3. Queued = Invokes(commands) /\ Queued' = Invokes(Append(commands, m))
    BY <1>2 DEF Queued
  <1>4. InvokedOnce(commands)' <=> InvokedOnce(Append(commands, m))
    BY <1>2
  <1> QED BY <1>1, <1>2, <1>3, <1>4, InvokesOfAppend

\* An answer or a progress report names a call.
LEMMA AnswerNamesCall ==
    ASSUME PluginTypes, events # <<>>
    PROVE  /\ Head(events) = events[1] /\ 1 \in DOMAIN events
           /\ Head(events).what \in {"answer", "progress"} => Head(events).call \in Calls
  <1>1. 1 \in DOMAIN events /\ events[1] = Head(events)
    BY OutputTail DEF PluginTypes
  <1> QED BY <1>1 DEF PluginTypes

\* Every step is one of these.
LEMMA Flow ==
    ASSUME CallTypes, PluginTypes, [Next]_vars
    PROVE  Shrinks \/ \E k \in Calls : Acquired(k) \/ Sent(k) \/ Taken(k) \/ Put(k)
  <1> USE CallsAssumption DEF callers, helpers, owned, plugin
  <1>0. /\ None \notin Calls /\ \A k \in Calls : IdOf[k] \in Ids
        /\ caller \in [Calls -> Places]
    BY DEF None, Calls, CallTypes
  <1>c. caller' = caller => Before' = Before /\ Sending' = Sending
    BY DEF Before, Sending
  <1>q. commands' = commands =>
            Queued' = Queued /\ (InvokedOnce(commands) => InvokedOnce(commands)')
    BY DEF Queued
  <1>p. pending' = pending => PendingCalls' = PendingCalls
    BY DEF PendingCalls
  <1>w. /\ mgr' = mgr => Writing' = Writing
        /\ mgr'.at # "writing" => Writing' = {}
    BY DEF Writing
  <1>1. CASE UNCHANGED vars
    BY <1>1, <1>c, <1>q, <1>p, <1>w DEF vars, Shrinks
  <1>2. ASSUME NEW k \in Calls, Invoke(k) \/ Return(k) \/ Drop(k)
        PROVE  Shrinks
    <2>1. Before' \subseteq Before /\ Sending' \subseteq Sending
      BY <1>0, <1>2 DEF Invoke, Return, Drop, Before, Sending, Active
    <2> QED BY <1>2, <2>1, <1>q, <1>p, <1>w DEF Invoke, Return, Drop, Shrinks
  <1>3. ASSUME NEW k \in Calls, Acquire(k)
        PROVE  Acquired(k)
    <2>1. Before' \subseteq Before /\ Sending' \subseteq Sending \cup {k}
      BY <1>0, <1>3 DEF Acquire, Before, Sending
    <2> QED BY <1>3, <2>1, <1>q, <1>p, <1>w DEF Acquire, Acquired
  <1>4. ASSUME NEW k \in Calls, SendInvoke(k)
        PROVE  Sent(k)
    <2>1. k \in Sending /\ Before' \subseteq Before \ {k} /\ Sending' \subseteq Sending
      BY <1>0, <1>4 DEF SendInvoke, Before, Sending
    <2>2. Command("invoke", k)
      BY <1>4 DEF SendInvoke
    <2> QED BY <1>4, <2>1, <2>2, CommandEffect, <1>p, <1>w DEF SendInvoke, Sent
  <1>5. ASSUME NEW k \in Calls,
               \/ CancelToken(k) \/ WatcherEnds(k) \/ PluginAnswers(k) \/ PluginProgress(k)
        PROVE  Shrinks
    BY <1>5, <1>c, <1>q, <1>p, <1>w
    DEF CancelToken, WatcherEnds, PluginAnswers, PluginProgress, Respond, Shrinks
  <1>6. ASSUME NEW k \in Calls, WatcherCancels(k) \/ GraceExpires(k)
        PROVE  Shrinks
    <2>1. commands' = commands \/ Command("cancel", k) \/ Command("kill", k)
      BY <1>6 DEF WatcherCancels, GraceExpires
    <2>2. Queued' \subseteq Queued /\ (InvokedOnce(commands) => InvokedOnce(commands)')
      BY <2>1, <1>q, CommandEffect
    <2> QED BY <1>6, <2>2, <1>c, <1>p, <1>w DEF WatcherCancels, GraceExpires, Shrinks
  <1>7. ASSUME NEW k \in Calls, ReceiveInvoke(k) \/ StartPlugin(k)
        PROVE  Taken(k)
    <2>1. Received("invoke", k)
      BY <1>7 DEF ReceiveInvoke, StartPlugin
    <2>2. Writing' = {k}
      BY <1>7 DEF ReceiveInvoke, StartPlugin, Busy, Writing
    <2> QED BY <1>7, <2>1, <2>2, ReceivedEffect, <1>c, <1>p DEF ReceiveInvoke, StartPlugin, Taken
  <1>8. ASSUME NEW k \in Calls, StartFails(k) \/ ReceiveCancel(k) \/ KillIfPending(k)
        PROVE  Shrinks
    <2>1. \E op : Received(op, k)
      BY <1>8 DEF StartFails, ReceiveCancel, KillIfPending
    <2>2. Writing' = {}
      BY <1>8 DEF StartFails, ReceiveCancel, KillIfPending, Received, Busy, Idle, Stop, Writing
    <2> QED BY <1>8, <2>1, <2>2, ReceivedEffect, <1>c, <1>p
            DEF StartFails, ReceiveCancel, KillIfPending, Shrinks
  <1>9. ASSUME NEW k \in Calls, WriteInvoke(k)
        PROVE  Put(k)
    <2>1. Writing = {k} /\ Writing' = {}
      BY <1>9 DEF WriteInvoke, Busy, Idle, Writing
    <2>2. PendingCalls' \subseteq PendingCalls \cup {k}
      BY <1>9, <1>0, PendingSlot DEF WriteInvoke
    <2> QED BY <1>9, <2>1, <2>2, <1>c, <1>q DEF WriteInvoke, Put
  <1>10. ASSUME NEW k \in Calls, WriteInvokeFails(k) \/ WriteCancel(k)
         PROVE  Shrinks
    <2>1. Writing' = {}
      <3>1. mgr' = Idle \/ mgr' = [at |-> "stopping", call |-> k, why |-> "write failed"]
        BY <1>10 DEF WriteInvokeFails, WriteCancel, Stop
      <3>2. CASE mgr' = Idle
        BY <3>2, <1>w DEF Idle
      <3>3. CASE mgr' = [at |-> "stopping", call |-> k, why |-> "write failed"]
        BY <3>3, <1>w
      <3> QED BY <3>1, <3>2, <3>3
    <2> QED BY <1>10, <2>1, <1>c, <1>q, <1>p DEF WriteInvokeFails, WriteCancel, Shrinks
  <1>11. CASE StopProcess
    <2>1. Writing' = {}
      BY <1>11 DEF StopProcess, Idle, Busy, Writing
    <2>2. PendingCalls' = {}
      BY <1>11 DEF StopProcess, PendingCalls
    <2> QED BY <1>11, <2>1, <2>2, <1>c, <1>q DEF StopProcess, Shrinks
  <1>12. CASE CommandsClosed
    <2>1. Writing' = {}
      BY <1>12 DEF CommandsClosed, Stop, Busy, Writing
    <2> QED BY <1>12, <2>1, <1>c, <1>q, <1>p DEF CommandsClosed, Shrinks
  <1>13. ASSUME NEW e, StaleEvent(e) \/ HandleProgress(e) \/ HandleClosed(e) \/ ProtocolViolation(e)
         PROVE  Shrinks
    <2>1. Writing' = {}
      BY <1>13 DEF StaleEvent, HandleProgress, HandleClosed, ProtocolViolation, TakeEvent, Stop,
                   Writing
    <2> QED BY <1>13, <2>1, <1>c, <1>q, <1>p
            DEF StaleEvent, HandleProgress, HandleClosed, ProtocolViolation, Shrinks
  <1>14. ASSUME NEW e, IdOf[e.call] \in Ids, HandleAnswer(e)
         PROVE  Shrinks
    <2>1. PendingCalls' \subseteq PendingCalls
      BY <1>14, PendingSlot DEF HandleAnswer
    <2> QED BY <1>14, <2>1, <1>c, <1>q, <1>w DEF HandleAnswer, Shrinks
  <1>15. CASE Detach \/ Reader \/ PluginReads \/ PluginExits \/ PluginStrays
    BY <1>15, <1>c, <1>q, <1>p, <1>w
    DEF Detach, Reader, ReaderForwards, ReaderCloses, PluginReads, PluginExits, PluginStrays,
        Respond, Shrinks
  <1>16. CASE ManagerEvent
    <2>1. HandleAnswer(Head(events)) => IdOf[Head(events).call] \in Ids
      BY <1>0, <1>16, AnswerNamesCall DEF ManagerEvent, HandleAnswer
    <2> QED BY <1>13, <1>14, <1>16, <2>1 DEF ManagerEvent
  <1> QED
    BY <1>1, <1>2, <1>3, <1>4, <1>5, <1>6, <1>7, <1>8, <1>9, <1>10, <1>11, <1>12, <1>15, <1>16
    DEF Next, CallStep, HelperStep, ManagerCommand, ManagerGoesOn

-----------------------------------------------------------------------------
(* One place, and the permits.                                             *)

\* An invocation moves on and is never in two places.
LEMMA PlaceStep ==
    ASSUME CallTypes, PluginTypes, PlaceInv, [Next]_vars
    PROVE  PlaceInv'
  <1>0. Sending \subseteq Before
    BY DEF Sending, Before
  <1>1. CASE Shrinks
    BY <1>1 DEF Shrinks, PlaceInv, Ahead
  <1>2. ASSUME NEW k \in Calls, Acquired(k)
        PROVE  PlaceInv'
    <2>1. InvokedOnce(commands)'
      BY <1>2 DEF Acquired, PlaceInv
    <2> QED BY <1>2, <2>1 DEF Acquired, PlaceInv, Ahead
  <1>3. ASSUME NEW k \in Calls, Sent(k)
        PROVE  PlaceInv'
    BY <1>0, <1>3 DEF Sent, PlaceInv, Ahead
  <1>4. ASSUME NEW k \in Calls, Taken(k)
        PROVE  PlaceInv'
    BY <1>4 DEF Taken, PlaceInv, Ahead
  <1>5. ASSUME NEW k \in Calls, Put(k)
        PROVE  PlaceInv'
    <2>1. InvokedOnce(commands)'
      BY <1>5 DEF Put, PlaceInv
    <2> QED BY <1>5, <2>1 DEF Put, PlaceInv, Ahead
  <1> QED BY <1>1, <1>2, <1>3, <1>4, <1>5, Flow

\* A permit follows the invocation: only an acquisition adds a holder.
LEMMA PermitStep ==
    ASSUME CallTypes, PluginTypes, PlaceInv, PermitInv, [Next]_vars
    PROVE  PermitInv'
  <1>0. Holders = Sending \cup Queued \cup PendingCalls \cup Writing
    BY DEF Holders, Sending, Queued, Writing
  <1>0a. Holders' = Sending' \cup Queued' \cup PendingCalls' \cup Writing'
    BY DEF Holders, Sending, Queued, Writing
  <1>1. ASSUME Holders' \subseteq Holders
        PROVE  PermitInv'
    <2>1. IsFiniteSet(Holders') /\ Cardinality(Holders') <= Cardinality(Holders)
      BY <1>1, FS_Subset DEF PermitInv
    <2>2. Cardinality(Holders) \in Nat /\ Cardinality(Holders') \in Nat
      BY <2>1, FS_CardinalityType DEF PermitInv
    <2> QED BY <2>1, <2>2, LimitsAssumption DEF PermitInv
  <1>2. ASSUME NEW k \in Calls, Acquired(k)
        PROVE  PermitInv'
    <2>1. Holders' \subseteq Holders \cup {k} /\ Cardinality(Holders) < MaxConcurrency
      BY <1>0, <1>0a, <1>2 DEF Acquired
    <2>2. /\ IsFiniteSet(Holders \cup {k})
          /\ Cardinality(Holders \cup {k}) <= Cardinality(Holders) + 1
      <3>1. IsFiniteSet(Holders) /\ Cardinality(Holders) \in Nat
        BY FS_CardinalityType DEF PermitInv
      <3>2. /\ IsFiniteSet(Holders \cup {k})
            /\ \/ Cardinality(Holders \cup {k}) = Cardinality(Holders)
               \/ Cardinality(Holders \cup {k}) = Cardinality(Holders) + 1
        BY <3>1, FS_AddElement
      <3> QED BY <3>1, <3>2
    <2>3. IsFiniteSet(Holders') /\ Cardinality(Holders') <= Cardinality(Holders \cup {k})
      BY <2>1, <2>2, FS_Subset
    <2>4. /\ Cardinality(Holders) \in Nat /\ Cardinality(Holders') \in Nat
          /\ Cardinality(Holders \cup {k}) \in Nat
      BY <2>2, <2>3, FS_CardinalityType DEF PermitInv
    <2> QED BY <2>1, <2>2, <2>3, <2>4, LimitsAssumption DEF PermitInv
  <1>3. Shrinks \/ (\E k \in Calls : Sent(k) \/ Taken(k) \/ Put(k)) => Holders' \subseteq Holders
    BY <1>0, <1>0a DEF Shrinks, Sent, Taken, Put
  <1> QED BY <1>1, <1>2, <1>3, Flow

\* A call is registered under its own id.
LEMMA OwnIdStep ==
    ASSUME CallTypes, PluginTypes, OwnId, [Next]_vars
    PROVE  OwnId'
  <1> USE CallsAssumption DEF callers, helpers, owned, plugin
  <1>1. ASSUME NEW k \in Calls, WriteInvoke(k)
        PROVE  OwnId'
    <2>1. pending' = [pending EXCEPT ![IdOf[k]] = k]
      BY <1>1 DEF WriteInvoke
    <2> QED BY <2>1 DEF OwnId, CallTypes
  <1>2. CASE StopProcess
    BY <1>2 DEF StopProcess, OwnId
  <1>3. ASSUME NEW e, HandleAnswer(e)
        PROVE  OwnId'
    <2>1. pending' = [pending EXCEPT ![IdOf[e.call]] = None]
      BY <1>3 DEF HandleAnswer
    <2> QED BY <2>1 DEF OwnId, CallTypes
  <1>4. ASSUME pending' = pending
        PROVE  OwnId'
    BY <1>4 DEF OwnId
  <1>5. \/ \E k \in Calls : WriteInvoke(k)
        \/ StopProcess
        \/ \E e : HandleAnswer(e)
        \/ pending' = pending
    BY DEF Next, vars, Invoke, CancelToken, Drop, CallStep, Acquire, SendInvoke, Return, HelperStep,
           WatcherCancels, WatcherEnds, GraceExpires, PluginAnswers, PluginProgress, Respond,
           Detach, ManagerCommand, ReceiveInvoke, StartPlugin, StartFails, ReceiveCancel,
           KillIfPending, ManagerEvent, StaleEvent, HandleClosed, HandleProgress,
           ProtocolViolation, ManagerGoesOn, WriteInvokeFails, WriteCancel, CommandsClosed,
           Reader, ReaderForwards, ReaderCloses, PluginReads, PluginExits, PluginStrays
  <1> QED BY <1>1, <1>2, <1>3, <1>4, <1>5

-----------------------------------------------------------------------------
(* No call is orphaned.                                                    *)

\* The calls that wait, and the places where an invocation waits for its end.
Waiting == {k \in Calls : caller[k] = "awaiting" /\ result[k] = "none"}
Under   == PendingCalls \cup Queued \cup Writing

\* Pending calls have a process.
Owned == PendingCalls # {} => running # None \/ mgr.at = "stopping"

LEMMA OrphanParts == NoOrphan <=> Owned /\ Waiting \subseteq Under
  <1>1. \A k : k \in Writing <=> mgr.at = "writing" /\ mgr.call = k
    BY DEF Writing
  <1>2. Waiting \subseteq Under <=>
          \A k \in Calls : caller[k] = "awaiting" /\ result[k] = "none" =>
             k \in PendingCalls \cup Invokes(commands) \/ (mgr.at = "writing" /\ mgr.call = k)
    BY <1>1 DEF Waiting, Under, Queued
  <1> QED BY <1>2 DEF NoOrphan, Owned

\* A channel that is given a value has its caller no longer waiting.
LEMMA ResolveEffect ==
    ASSUME CallTypes, NEW ks, NEW value \in Outcomes \ {"none"}, Resolve(ks, value),
           caller' = caller
    PROVE  Waiting' \subseteq Waiting \ ks
  BY DEF Resolve, Waiting, CallTypes

\* The manager is at rest, or not, in the states that the code puts it in.
LEMMA ManagerAt ==
    /\ Idle.at = "idle" /\ Idle.why = "none"
    /\ \A at, k : Busy(at, k).at = at /\ Busy(at, k).call = k /\ Busy(at, k).why = "none"
    /\ \A k, why : /\ [at |-> "stopping", call |-> k, why |-> why].at = "stopping"
                   /\ [at |-> "stopping", call |-> k, why |-> why].call = k
                   /\ [at |-> "stopping", call |-> k, why |-> why].why = why
  BY DEF Idle, Busy

\* Every step keeps a process for the pending calls and for the frame being
\* written, and a place for every call that waits.
LEMMA OrphanStep ==
    ASSUME CallTypes, PluginTypes, WritesToOwned, Owned, Waiting \subseteq Under, [Next]_vars
    PROVE  WritesToOwned' /\ Owned' /\ (Waiting \subseteq Under)'
  <1> USE CallsAssumption DEF callers, helpers, owned, plugin, Under
  <1>0. /\ None \notin Calls /\ None = 0 /\ \A k \in Calls : IdOf[k] \in Ids
        /\ caller \in [Calls -> Places] /\ generation \in Nat
    BY DEF None, Calls, CallTypes
  <1>c. caller' = caller /\ result' = result => Waiting' = Waiting
    BY DEF Waiting
  <1>q. commands' = commands => Queued' = Queued
    BY DEF Queued
  <1>p. pending' = pending => PendingCalls' = PendingCalls
    BY DEF PendingCalls
  <1>w. /\ mgr' = mgr => Writing' = Writing
        /\ mgr'.at # "writing" => Writing' = {}
        /\ mgr.at # "writing" => Writing = {}
    BY DEF Writing
  <1>v. {"error", "answered", "lost"} \subseteq Outcomes \ {"none"}
    BY DEF Outcomes
  <1>m. UNCHANGED <<mgr, running, pending>> => WritesToOwned' /\ Owned'
    BY <1>p DEF WritesToOwned, Owned
  <1>s. ASSUME NEW why, NEW k, Stop(why, k), mgr.at # "writing"
        PROVE  WritesToOwned' /\ Owned' /\ Writing' = {} /\ Writing = {}
    BY <1>s, <1>w, ManagerAt DEF Stop, WritesToOwned, Owned
  <1>1. CASE UNCHANGED vars
    BY <1>1, <1>c, <1>q, <1>p, <1>w, <1>m DEF vars
  <1>2. ASSUME NEW k \in Calls, Invoke(k) \/ Return(k) \/ Drop(k) \/ Acquire(k)
        PROVE  WritesToOwned' /\ Owned' /\ (Waiting \subseteq Under)'
    <2>1. Waiting' \subseteq Waiting
      BY <1>0, <1>2 DEF Invoke, Return, Drop, Acquire, Waiting, CallTypes
    <2>2. UNCHANGED <<mgr, running, pending, commands>>
      BY <1>2 DEF Invoke, Return, Drop, Acquire
    <2> QED BY <2>1, <2>2, <1>q, <1>p, <1>w, <1>m
  <1>3. ASSUME NEW k \in Calls, SendInvoke(k)
        PROVE  WritesToOwned' /\ Owned' /\ (Waiting \subseteq Under)'
    <2>1. Waiting' \subseteq Waiting \cup {k}
      BY <1>0, <1>3 DEF SendInvoke, Waiting, CallTypes
    <2>2. Queued' = Queued \cup {k}
      BY <1>3, CommandEffect DEF SendInvoke
    <2>3. UNCHANGED <<mgr, running, pending>>
      BY <1>3 DEF SendInvoke
    <2> QED BY <2>1, <2>2, <2>3, <1>p, <1>w, <1>m
  <1>4. ASSUME NEW k \in Calls,
               \/ CancelToken(k) \/ WatcherEnds(k) \/ PluginAnswers(k) \/ PluginProgress(k)
        PROVE  WritesToOwned' /\ Owned' /\ (Waiting \subseteq Under)'
    <2>1. UNCHANGED <<mgr, running, pending, commands, caller, result>>
      BY <1>4 DEF CancelToken, WatcherEnds, PluginAnswers, PluginProgress, Respond
    <2> QED BY <2>1, <1>c, <1>q, <1>p, <1>w, <1>m
  <1>5. ASSUME NEW k \in Calls, WatcherCancels(k) \/ GraceExpires(k)
        PROVE  WritesToOwned' /\ Owned' /\ (Waiting \subseteq Under)'
    <2>1. commands' = commands \/ Command("cancel", k) \/ Command("kill", k)
      BY <1>5 DEF WatcherCancels, GraceExpires
    <2>2. Queued' = Queued
      BY <2>1, <1>q, CommandEffect
    <2>3. UNCHANGED <<mgr, running, pending, caller, result>>
      BY <1>5 DEF WatcherCancels, GraceExpires
    <2> QED BY <2>2, <2>3, <1>c, <1>p, <1>w, <1>m
  <1>6. ASSUME NEW k \in Calls, ReceiveInvoke(k) \/ StartPlugin(k)
        PROVE  WritesToOwned' /\ Owned' /\ (Waiting \subseteq Under)'
    <2>1. Queued \subseteq Queued' \cup {k} /\ Writing = {}
      BY <1>6, ReceivedEffect DEF ReceiveInvoke, StartPlugin
    <2>2. Writing' = {k}
      BY <1>6, ManagerAt DEF ReceiveInvoke, StartPlugin, Writing
    <2>3. UNCHANGED <<pending, caller, result>>
      BY <1>6 DEF ReceiveInvoke, StartPlugin
    <2>4. running' # None
      BY <1>0, <1>6 DEF ReceiveInvoke, StartPlugin
    <2> QED BY <2>1, <2>2, <2>3, <2>4, <1>c, <1>p DEF WritesToOwned, Owned
  <1>7. ASSUME NEW k \in Calls, StartFails(k)
        PROVE  WritesToOwned' /\ Owned' /\ (Waiting \subseteq Under)'
    <2>1. Queued \subseteq Queued' \cup {k} /\ Writing = {}
      BY <1>7, ReceivedEffect DEF StartFails
    <2>2. Waiting' \subseteq Waiting \ {k}
      BY <1>7, <1>v, ResolveEffect DEF StartFails
    <2>3. UNCHANGED <<mgr, running, pending>>
      BY <1>7 DEF StartFails
    <2> QED BY <2>1, <2>2, <2>3, <1>p, <1>w, <1>m
  <1>8. ASSUME NEW k \in Calls, ReceiveCancel(k) \/ KillIfPending(k)
        PROVE  WritesToOwned' /\ Owned' /\ (Waiting \subseteq Under)'
    <2>1. mgr.at = "idle" /\ \E op \in {"cancel", "kill"} : Received(op, k)
      BY <1>8 DEF ReceiveCancel, KillIfPending, Received
    <2>2. Queued \subseteq Queued'
      BY <2>1, ReceivedEffect
    <2>3. UNCHANGED <<pending, caller, result>>
      BY <1>8 DEF ReceiveCancel, KillIfPending
    <2>4. WritesToOwned' /\ Owned' /\ Writing' = {} /\ Writing = {}
      <3>1. CASE ReceiveCancel(k)
        <4>1. running' = running /\ (mgr' = Idle \/ mgr' = Busy("cancelling", k))
          BY <3>1 DEF ReceiveCancel
        <4>2. mgr'.at # "writing"
          BY <4>1, ManagerAt
        <4> QED BY <2>1, <2>3, <4>1, <4>2, <1>p, <1>w DEF WritesToOwned, Owned
      <3>2. CASE KillIfPending(k)
        <4>1. Stop("ignored", k) \/ UNCHANGED <<mgr, running>>
          BY <3>2 DEF KillIfPending
        <4> QED BY <2>1, <2>3, <4>1, <1>s, <1>m, <1>w
      <3> QED BY <1>8, <3>1, <3>2
    <2> QED BY <2>2, <2>3, <2>4, <1>c, <1>p
  <1>9. ASSUME NEW k \in Calls, WriteInvoke(k)
        PROVE  WritesToOwned' /\ Owned' /\ (Waiting \subseteq Under)'
    <2>1. Writing = {k} /\ mgr.at = "writing" /\ mgr'.at = "idle" /\ Writing' = {}
      BY <1>9, ManagerAt DEF WriteInvoke, Writing
    <2>2. PendingCalls \subseteq PendingCalls' \cup {pending[IdOf[k]]} /\ k \in PendingCalls'
      BY <1>9, <1>0, PendingSlot DEF WriteInvoke
    <2>3. Waiting' \subseteq Waiting \ {pending[IdOf[k]]}
      BY <1>9, <1>v, ResolveEffect DEF WriteInvoke
    <2>4. UNCHANGED <<running, commands>>
      BY <1>9 DEF WriteInvoke
    <2> QED BY <2>1, <2>2, <2>3, <2>4, <1>q DEF WritesToOwned, Owned
  <1>10. ASSUME NEW k \in Calls, WriteInvokeFails(k)
         PROVE  WritesToOwned' /\ Owned' /\ (Waiting \subseteq Under)'
    <2>1. Writing = {k} /\ mgr'.at = "stopping" /\ Writing' = {}
      <3>1. mgr = Busy("writing", k)
            /\ mgr' = [at |-> "stopping", call |-> k, why |-> "write failed"]
        BY <1>10 DEF WriteInvokeFails, Stop
      <3>2. mgr.at = "writing" /\ mgr.call = k /\ mgr'.at = "stopping"
        BY <3>1, ManagerAt
      <3> QED BY <3>2, <1>w DEF Writing
    <2>2. Waiting' \subseteq Waiting \ {k}
      BY <1>10, <1>v, ResolveEffect DEF WriteInvokeFails
    <2>3. UNCHANGED <<pending, commands>>
      BY <1>10 DEF WriteInvokeFails
    <2> QED BY <2>1, <2>2, <2>3, <1>q, <1>p DEF WritesToOwned, Owned
  <1>11. ASSUME NEW k \in Calls, WriteCancel(k)
         PROVE  WritesToOwned' /\ Owned' /\ (Waiting \subseteq Under)'
    <2>1. Writing = {} /\ mgr.at = "cancelling" /\ mgr'.at = "idle" /\ Writing' = {}
      BY <1>11, ManagerAt DEF WriteCancel, Writing
    <2>2. UNCHANGED <<running, pending, commands, caller, result>>
      BY <1>11 DEF WriteCancel
    <2> QED BY <2>1, <2>2, <1>c, <1>q, <1>p DEF WritesToOwned, Owned
  <1>12. CASE StopProcess
    <2>1. PendingCalls' = {}
      BY <1>12 DEF StopProcess, PendingCalls
    <2>2. Waiting' \subseteq Waiting \ PendingCalls
      BY <1>12, <1>v, ResolveEffect DEF StopProcess
    <2>3. mgr.at = "stopping" /\ mgr'.at # "writing" /\ UNCHANGED commands
      BY <1>12, ManagerAt DEF StopProcess
    <2> QED BY <2>1, <2>2, <2>3, <1>q, <1>w DEF WritesToOwned, Owned
  <1>13. CASE CommandsClosed
    <2>1. mgr.at = "idle" /\ UNCHANGED <<pending, commands, caller, result>>
      BY <1>13 DEF CommandsClosed
    <2>2. WritesToOwned' /\ Owned' /\ Writing' = {} /\ Writing = {}
      <3>1. Stop("closed", None) \/ (running = None /\ mgr'.at = "ended")
        BY <1>13, ManagerAt DEF CommandsClosed
      <3>2. running = None => PendingCalls = {}
        BY <2>1 DEF Owned
      <3> QED BY <2>1, <3>1, <3>2, <1>s, <1>w, <1>p DEF WritesToOwned, Owned
    <2> QED BY <2>1, <2>2, <1>c, <1>q, <1>p
  <1>14. ASSUME NEW e, StaleEvent(e) \/ HandleProgress(e)
         PROVE  WritesToOwned' /\ Owned' /\ (Waiting \subseteq Under)'
    <2>1. UNCHANGED <<mgr, running, pending, commands, caller, result>>
      BY <1>14 DEF StaleEvent, HandleProgress
    <2> QED BY <2>1, <1>c, <1>q, <1>p, <1>w, <1>m
  <1>15. ASSUME NEW e, HandleClosed(e) \/ ProtocolViolation(e)
         PROVE  WritesToOwned' /\ Owned' /\ (Waiting \subseteq Under)'
    <2>1. mgr.at = "idle" /\ UNCHANGED <<pending, commands, caller, result>>
      BY <1>15 DEF HandleClosed, ProtocolViolation, TakeEvent
    <2>2. Stop("exited", None) \/ Stop("violation", e.call)
      BY <1>15 DEF HandleClosed, ProtocolViolation
    <2>3. WritesToOwned' /\ Owned' /\ Writing' = {} /\ Writing = {}
      BY <2>1, <2>2, <1>s
    <2> QED BY <2>1, <2>3, <1>c, <1>q, <1>p
  <1>16. ASSUME NEW e, IdOf[e.call] \in Ids, HandleAnswer(e)
         PROVE  WritesToOwned' /\ Owned' /\ (Waiting \subseteq Under)'
    <2>1. /\ PendingCalls' \subseteq PendingCalls
          /\ PendingCalls \subseteq PendingCalls' \cup {pending[IdOf[e.call]]}
      BY <1>16, PendingSlot DEF HandleAnswer
    <2>2. Waiting' \subseteq Waiting \ {pending[IdOf[e.call]]}
      BY <1>16, <1>v, ResolveEffect DEF HandleAnswer
    <2>3. UNCHANGED <<mgr, running, commands>>
      BY <1>16 DEF HandleAnswer
    <2> QED BY <2>1, <2>2, <2>3, <1>q, <1>w DEF WritesToOwned, Owned
  <1>17. CASE Detach \/ Reader \/ PluginReads \/ PluginExits \/ PluginStrays
    <2>1. UNCHANGED <<mgr, running, pending, commands, caller, result>>
      BY <1>17 DEF Detach, Reader, ReaderForwards, ReaderCloses, PluginReads, PluginExits,
                   PluginStrays, Respond
    <2> QED BY <2>1, <1>c, <1>q, <1>p, <1>w, <1>m
  <1>18. CASE ManagerEvent
    <2>1. HandleAnswer(Head(events)) => IdOf[Head(events).call] \in Ids
      BY <1>0, <1>18, AnswerNamesCall DEF ManagerEvent, HandleAnswer
    <2> QED BY <1>14, <1>15, <1>16, <1>18, <2>1 DEF ManagerEvent
  <1> QED
    BY <1>1, <1>2, <1>3, <1>4, <1>5, <1>6, <1>7, <1>8, <1>9, <1>10, <1>11, <1>12, <1>13, <1>17,
       <1>18
    DEF Next, CallStep, HelperStep, ManagerCommand, ManagerGoesOn

\* The parts that hold for any ids, together.
BaseInv == CallTypes /\ PluginTypes /\ WritesToOwned /\ NoOrphan /\ PlaceInv /\ PermitInv /\ OwnId

LEMMA BaseInit == Init => BaseInv
  <1> SUFFICES ASSUME Init PROVE BaseInv
    OBVIOUS
  <1> USE CallsAssumption, LimitsAssumption DEF Init
  <1>0. commands = <<>> /\ stdin = <<>> /\ stdout = <<>> /\ events = <<>>
    OBVIOUS
  <1>1. CallTypes
    <2>1. ManagerState(mgr)
      BY ManagerStates
    <2> QED BY <2>1 DEF CallTypes, Places, Outcomes, None
  <1>2. PluginTypes
    BY DEF PluginTypes
  <1>3. PendingCalls = {} /\ Queued = {} /\ Writing = {} /\ Sending = {}
    BY ManagerAt DEF PendingCalls, Queued, Invokes, Writing, Sending
  <1>4. mgr.at = "idle"
    BY ManagerAt
  <1>5. WritesToOwned /\ OwnId
    BY <1>4 DEF WritesToOwned, OwnId
  <1>6. NoOrphan
    <2>1. Waiting = {}
      BY DEF Waiting
    <2> QED BY <1>3, <2>1, OrphanParts DEF Owned
  <1>7. PlaceInv
    BY <1>0, <1>3 DEF PlaceInv, InvokedOnce, Ahead
  <1>8. PermitInv
    <2>1. Holders = {}
      BY <1>3 DEF Holders, Sending, Queued, Writing
    <2> QED BY <2>1, FS_EmptySet DEF PermitInv
  <1> QED BY <1>1, <1>2, <1>5, <1>6, <1>7, <1>8 DEF BaseInv

LEMMA BaseStep == BaseInv /\ [Next]_vars => BaseInv'
  <1> SUFFICES ASSUME BaseInv, [Next]_vars PROVE BaseInv'
    OBVIOUS
  <1> USE DEF BaseInv
  <1>1. CallTypes' /\ PluginTypes'
    BY CallTypesStep, PluginTypesStep
  <1>2. Owned /\ Waiting \subseteq Under
    BY OrphanParts
  <1>3. WritesToOwned' /\ Owned' /\ (Waiting \subseteq Under)'
    BY <1>2, OrphanStep
  <1>4. NoOrphan'
    BY <1>3, OrphanParts, PTL
  <1>5. PlaceInv' /\ PermitInv' /\ OwnId'
    BY PlaceStep, PermitStep, OwnIdStep
  <1> QED BY <1>1, <1>3, <1>4, <1>5

\* Whatever ids the host uses, however calls are cancelled and dropped and the
\* process fails or is replaced: a call that waits has its invocation queued,
\* being written or pending, and what is pending has a process (run_manager,
\* stop_process and fail_all).
THEOREM NoCallIsOrphaned == Spec => []NoOrphan
  <1>1. BaseInv => NoOrphan
    BY DEF BaseInv
  <1> QED BY <1>1, BaseInit, BaseStep, PTL DEF Spec

-----------------------------------------------------------------------------
(* Processes and generations.                                              *)

\* A step that leaves the process and the manager's hold on it alone, one that
\* only the process or its reader takes, a start and a stop.
LEMMA GoneStep ==
    ASSUME BaseInv, GoneInv, GenerationInv, [Next]_vars
    PROVE  GoneInv' /\ GenerationInv'
  <1> USE DEF callers, helpers, owned, plugin
  <1>0. /\ events \in Seq(Event) /\ stdout \in Seq(Response) /\ generation \in Nat
        /\ running \in Nat /\ None = 0
        /\ \A i \in DOMAIN events : events[i].generation \in Nat
    <2>1. /\ events \in Seq(Event) /\ stdout \in Seq(Response) /\ generation \in Nat
          /\ running \in Nat
      BY DEF BaseInv, CallTypes, PluginTypes
    <2>2. \A i \in DOMAIN events : events[i] \in Event
      BY <2>1
    <2> QED BY <2>1, <2>2 DEF Event, None
  <1>g. ASSUME events' = events, generation' \in {generation, generation + 1}
        PROVE  \A i \in DOMAIN events' : events'[i].generation <= generation'
    BY <1>0, <1>g DEF GenerationInv
  <1>s. ASSUME NEW why, NEW k, Stop(why, k)
        PROVE  running' = None /\ mgr'.at = "stopping"
    BY <1>s, ManagerAt DEF Stop
  <1>1. CASE UNCHANGED vars
    BY <1>1 DEF vars, GoneInv, GenerationInv, Current
  <1>2. ASSUME NEW k \in Calls,
               \/ Invoke(k) \/ CancelToken(k) \/ Drop(k) \/ CallStep(k) \/ HelperStep(k)
        PROVE  GoneInv' /\ GenerationInv'
    <2>1. UNCHANGED <<events, mgr, owned, plugin, reader>>
      BY <1>2 DEF Invoke, CancelToken, Drop, CallStep, Acquire, SendInvoke, Return, HelperStep,
                  WatcherCancels, WatcherEnds, GraceExpires
    <2> QED BY <2>1 DEF GoneInv, GenerationInv
  <1>3. ASSUME NEW k \in Calls, ReceiveInvoke(k) \/ ReceiveCancel(k)
        PROVE  GoneInv' /\ GenerationInv'
    <2>1. mgr.at = "idle" /\ UNCHANGED <<events, owned, plugin, reader>>
      BY <1>3 DEF ReceiveInvoke, ReceiveCancel, Received
    <2> QED BY <2>1 DEF GoneInv, GenerationInv
  <1>4. ASSUME NEW k \in Calls, StartPlugin(k)
        PROVE  GoneInv' /\ GenerationInv'
    <2>1. generation' = generation + 1 /\ running' = generation' /\ events' = events
      BY <1>4 DEF StartPlugin
    <2> QED BY <1>0, <1>g, <2>1 DEF GoneInv, GenerationInv
  <1>5. ASSUME NEW k \in Calls, StartFails(k)
        PROVE  GoneInv' /\ GenerationInv'
    <2>1. /\ generation' = generation + 1 /\ running = None
          /\ UNCHANGED <<events, running, mgr, plugin, reader>>
      BY <1>5 DEF StartFails
    <2> QED BY <1>0, <1>g, <2>1 DEF GoneInv, GenerationInv
  <1>6. ASSUME NEW k \in Calls, KillIfPending(k) \/ WriteInvokeFails(k)
        PROVE  GoneInv' /\ GenerationInv'
    <2>1. /\ \/ Stop("ignored", k) \/ Stop("write failed", k) \/ UNCHANGED <<mgr, running>>
          /\ UNCHANGED <<events, generation, plugin, reader>>
      BY <1>6 DEF KillIfPending, WriteInvokeFails
    <2> QED BY <1>s, <2>1 DEF GoneInv, GenerationInv
  <1>7. ASSUME NEW k \in Calls, WriteInvoke(k) \/ WriteCancel(k)
        PROVE  GoneInv' /\ GenerationInv'
    <2>1. /\ mgr.at # "stopping" /\ (process = "up" \/ stdin' = stdin)
          /\ UNCHANGED <<events, running, generation, process, serving, stdout, reader>>
      BY <1>7, ManagerAt DEF WriteInvoke, WriteCancel, Written
    <2> QED BY <2>1 DEF GoneInv, GenerationInv
  <1>8. CASE StopProcess
    <2>1. /\ process' = "down" /\ reader' = FALSE /\ stdin' = <<>> /\ serving' = {}
          /\ stdout' = <<>> /\ UNCHANGED <<events, running, generation>>
      BY <1>8 DEF StopProcess
    <2> QED BY <2>1 DEF GoneInv, GenerationInv
  <1>9. CASE CommandsClosed
    <2>1. /\ Stop("closed", None) \/ (mgr.at = "idle" /\ running' = running)
          /\ UNCHANGED <<events, generation, plugin, reader>>
      BY <1>9 DEF CommandsClosed
    <2> QED BY <1>s, <2>1 DEF GoneInv, GenerationInv
  <1>10. CASE ManagerEvent
    <2>1. /\ events # <<>> /\ events' = Tail(events) /\ UNCHANGED <<generation, plugin, reader>>
          /\ \/ UNCHANGED <<mgr, running>>
             \/ \E why, k : Stop(why, k)
      BY <1>10 DEF ManagerEvent, TakeEvent, StaleEvent, HandleClosed, HandleProgress,
                   HandleAnswer, ProtocolViolation
    <2>2. \A i \in DOMAIN events' : events'[i].generation <= generation'
      <3>1. \A i \in DOMAIN Tail(events) : i + 1 \in DOMAIN events /\ Tail(events)[i] = events[i + 1]
        BY <1>0, <2>1, OutputTail
      <3> QED BY <2>1, <3>1 DEF GenerationInv
    <2> QED BY <1>s, <2>1, <2>2 DEF GoneInv, GenerationInv
  <1>11. CASE Reader
    <2>1. PICK m : /\ reader /\ m.generation = generation /\ m \in Event
                   /\ events' = Append(events, m)
                   /\ UNCHANGED <<mgr, running, generation>>
      <3>1. CASE ReaderForwards
        <4>1. Head(stdout) \in Response
          BY <1>0, <3>1, OutputTail DEF ReaderForwards
        <4>2. [generation |-> generation, what |-> Head(stdout).what, call |-> Head(stdout).call]
                 \in Event
          BY <1>0, <4>1 DEF Response, Event
        <4> QED BY <3>1, <4>2 DEF ReaderForwards
      <3>2. CASE ReaderCloses
        <4>1. [generation |-> generation, what |-> "closed", call |-> None] \in Event
          BY <1>0 DEF Event
        <4> QED BY <3>2, <4>1 DEF ReaderCloses
      <3> QED BY <1>11, <3>1, <3>2 DEF Reader
    <2>2. \A i \in DOMAIN events' : events'[i].generation <= generation'
      BY <1>0, <2>1, OutputAppend DEF GenerationInv
    <2> QED BY <2>1, <2>2 DEF GoneInv, GenerationInv
  <1>12. ASSUME process = "up", UNCHANGED <<events, mgr, running, generation>>
         PROVE  GoneInv' /\ GenerationInv'
    BY <1>12 DEF GoneInv, GenerationInv
  <1>13. CASE \/ PluginReads \/ PluginExits \/ PluginStrays
              \/ \E k \in Calls : PluginAnswers(k) \/ PluginProgress(k)
    BY <1>12, <1>13 DEF PluginReads, PluginExits, PluginStrays, PluginAnswers, PluginProgress,
                        Respond
  <1>14. CASE Detach
    BY <1>14 DEF Detach, GoneInv, GenerationInv
  <1> QED
    BY <1>1, <1>2, <1>3, <1>4, <1>5, <1>6, <1>7, <1>8, <1>9, <1>10, <1>11, <1>13, <1>14
    DEF Next, ManagerCommand, ManagerGoesOn

\* stop_process takes the process out of the manager's hands first.
StopsOwned == mgr.at = "stopping" => running = None

LEMMA StopsOwnedStep ==
    ASSUME BaseInv, StopsOwned, [Next]_vars
    PROVE  StopsOwned'
  <1> USE DEF callers, helpers, owned, plugin
  <1>1. \/ UNCHANGED <<mgr, running>>
        \/ \E why, k : Stop(why, k)
        \/ mgr' = Idle
        \/ \E k : mgr' = Busy("writing", k) \/ mgr' = Busy("cancelling", k) \/ mgr' = Busy("ended", k)
    BY DEF Next, vars, Invoke, CancelToken, Drop, CallStep, Acquire, SendInvoke, Return, HelperStep,
           WatcherCancels, WatcherEnds, GraceExpires, PluginAnswers, PluginProgress, Respond,
           Detach, ManagerCommand, ReceiveInvoke, StartPlugin, StartFails, ReceiveCancel,
           KillIfPending, ManagerEvent, StaleEvent, HandleClosed, HandleProgress, HandleAnswer,
           ProtocolViolation, ManagerGoesOn, WriteInvoke, WriteInvokeFails, WriteCancel,
           StopProcess, CommandsClosed, Reader, ReaderForwards, ReaderCloses, PluginReads,
           PluginExits, PluginStrays
  <1> QED BY <1>1, ManagerAt DEF StopsOwned, Stop

-----------------------------------------------------------------------------
(* The kill after the grace period.                                        *)

\* With an id of its own a call is pending exactly when its slot is taken.
LEMMA PendingIsOwn ==
    ASSUME OwnIds, CallTypes, OwnId, NEW k \in Calls
    PROVE  /\ IdOf[k] \in Ids
           /\ pending[IdOf[k]] # None => pending[IdOf[k]] = k
           /\ k \in PendingCalls <=> pending[IdOf[k]] # None
           /\ pending' = [pending EXCEPT ![IdOf[k]] = None] => PendingCalls' = PendingCalls \ {k}
  <1>1. IdOf[k] \in Ids /\ pending \in [Ids -> Calls \cup {None}] /\ None \notin Calls
    BY CallsAssumption DEF CallTypes, None, Calls
  <1>2. \A id \in Ids : pending[id] = k => id = IdOf[k]
    BY <1>1 DEF OwnId
  <1>3. pending[IdOf[k]] # None => pending[IdOf[k]] = k
    BY <1>1 DEF OwnId, OwnIds
  <1>4. k \in PendingCalls <=> pending[IdOf[k]] # None
    BY <1>1, <1>2, <1>3 DEF PendingCalls
  <1>5. ASSUME pending' = [pending EXCEPT ![IdOf[k]] = None]
        PROVE  PendingCalls' = PendingCalls \ {k}
    <2>1. pending'[IdOf[k]] = None /\ \A id \in Ids : id # IdOf[k] => pending'[id] = pending[id]
      BY <1>1, <1>5
    <2>2. PendingCalls' = {pending'[id] : id \in Ids} \ {None}
      BY DEF PendingCalls
    <2> QED BY <1>1, <1>2, <1>3, <2>1, <2>2 DEF PendingCalls
  <1> QED BY <1>1, <1>3, <1>4, <1>5

\* An invocation never goes back.
LEMMA Onward ==
    ASSUME CallTypes, PluginTypes, [Next]_vars
    PROVE  Ahead' \cup PendingCalls' \subseteq Ahead \cup PendingCalls
  <1>1. Sending \subseteq Before
    BY DEF Sending, Before
  <1> QED BY <1>1, Flow DEF Ahead, Shrinks, Acquired, Sent, Taken, Put

\* Only an answer is handled, and only the kill has this reason.
LEMMA HandledChanges ==
    ASSUME [Next]_vars
    PROVE  \/ UNCHANGED <<mgr, handled>>
           \/ events # <<>> /\ HandleAnswer(Head(events))
           \/ \E k \in Calls : KillIfPending(k) /\ UNCHANGED handled
           \/ mgr'.why # "ignored" /\ UNCHANGED handled
  <1> USE DEF callers, helpers, owned, plugin
  <1>1. \/ UNCHANGED <<mgr, handled>>
        \/ events # <<>> /\ HandleAnswer(Head(events))
        \/ \E k \in Calls : KillIfPending(k) /\ UNCHANGED handled
        \/ (\E k, why : why # "ignored" /\ Stop(why, k)) /\ UNCHANGED handled
        \/ mgr' = Idle /\ UNCHANGED handled
        \/ (\E k : \/ mgr' = Busy("writing", k) \/ mgr' = Busy("cancelling", k)
                   \/ mgr' = Busy("ended", k)) /\ UNCHANGED handled
    BY DEF Next, vars, Invoke, CancelToken, Drop, CallStep, Acquire, SendInvoke, Return, HelperStep,
           WatcherCancels, WatcherEnds, GraceExpires, PluginAnswers, PluginProgress, Respond,
           Detach, ManagerCommand, ReceiveInvoke, StartPlugin, StartFails, ReceiveCancel,
           KillIfPending, ManagerEvent, StaleEvent, HandleClosed, HandleProgress,
           ProtocolViolation, ManagerGoesOn, WriteInvoke, WriteInvokeFails, WriteCancel,
           StopProcess, CommandsClosed, Reader, ReaderForwards, ReaderCloses, PluginReads,
           PluginExits, PluginStrays
  <1>2. ASSUME NEW k, NEW why, why # "ignored", Stop(why, k)
        PROVE  mgr'.why # "ignored"
    BY <1>2, ManagerAt DEF Stop
  <1>3. ASSUME mgr' = Idle \/ \E k : \/ mgr' = Busy("writing", k) \/ mgr' = Busy("cancelling", k)
                                     \/ mgr' = Busy("ended", k)
        PROVE  mgr'.why # "ignored"
    BY <1>3, ManagerAt
  <1> QED BY <1>1, <1>2, <1>3

LEMMA HandledStep ==
    ASSUME OwnIds, BaseInv, HandledInv, KilledOnlyIfIgnored, [Next]_vars
    PROVE  HandledInv' /\ KilledOnlyIfIgnored'
  <1> USE DEF BaseInv
  <1>0. Ahead' \cup PendingCalls' \subseteq Ahead \cup PendingCalls
    BY Onward
  <1>1. handled' = handled => HandledInv'
    BY <1>0 DEF HandledInv
  <1>2. CASE UNCHANGED <<mgr, handled>>
    BY <1>1, <1>2 DEF KilledOnlyIfIgnored
  <1>3. CASE mgr'.why # "ignored" /\ UNCHANGED handled
    BY <1>1, <1>3 DEF KilledOnlyIfIgnored
  <1>4. ASSUME NEW k \in Calls, KillIfPending(k), UNCHANGED handled
        PROVE  KilledOnlyIfIgnored'
    <2>1. CASE pending[IdOf[k]] # None
      <3>1. k \notin handled
        BY <2>1, PendingIsOwn DEF HandledInv
      <3>2. mgr'.call = k
        BY <1>4, <2>1, ManagerAt DEF KillIfPending, Stop
      <3> QED BY <1>4, <3>1, <3>2 DEF KilledOnlyIfIgnored
    <2>2. CASE pending[IdOf[k]] = None
      BY <1>4, <2>2 DEF KillIfPending, KilledOnlyIfIgnored
    <2> QED BY <2>1, <2>2
  <1>5. ASSUME events # <<>>, HandleAnswer(Head(events))
        PROVE  HandledInv' /\ KilledOnlyIfIgnored'
    <2> DEFINE k == Head(events).call
    <2>1. k \in Calls
      BY <1>5, AnswerNamesCall DEF HandleAnswer
    <2>2. /\ pending[IdOf[k]] # None /\ handled' = handled \cup {k}
          /\ pending' = [pending EXCEPT ![IdOf[k]] = None]
          /\ mgr.at = "idle" /\ UNCHANGED <<caller, commands, mgr>>
      BY <1>5 DEF HandleAnswer, TakeEvent, callers
    <2> HIDE DEF k
    <2>3. k \in PendingCalls /\ PendingCalls' = PendingCalls \ {k}
      BY <2>1, <2>2, PendingIsOwn
    <2>4. Ahead' = Ahead
      BY <2>2 DEF Ahead, Before, Queued, Writing
    <2>5. HandledInv'
      BY <2>2, <2>3, <2>4 DEF HandledInv, PlaceInv
    <2>6. mgr'.why = "none"
      BY <2>2 DEF CallTypes, ManagerState
    <2> QED BY <2>5, <2>6 DEF KilledOnlyIfIgnored
  <1> QED BY <1>1, <1>2, <1>3, <1>4, <1>5, HandledChanges

\* When every call has an id of its own, the package is stopped for a
\* cancellation only for a call whose answer the manager has not taken
\* (KillIfPending in run_manager), whatever the plugin sends. The hypothesis is
\* needed: a later call under the same id is found pending in its place.
THEOREM KillsAreJustified ==
    ASSUME OwnIds
    PROVE  Spec => []KilledOnlyIfIgnored
  <1> DEFINE I == BaseInv /\ HandledInv /\ KilledOnlyIfIgnored
  <1>1. Init => I
    <2>1. Init => handled = {} /\ mgr.why = "none"
      BY ManagerAt DEF Init
    <2> QED BY <2>1, BaseInit DEF HandledInv, KilledOnlyIfIgnored
  <1>2. I /\ [Next]_vars => I'
    BY OwnIds, BaseStep, HandledStep
  <1>3. I => KilledOnlyIfIgnored
    OBVIOUS
  <1> HIDE DEF I
  <1> QED BY <1>1, <1>2, <1>3, PTL DEF Spec

-----------------------------------------------------------------------------
(* A plugin that sends only what it is asked for.                          *)

\* A step that takes nothing from or to the process, or ends the manager's hold
\* on it.
LEMMA PlantQuiet ==
    ASSUME PlantInv, UNCHANGED <<serving, stdin, stdout, events, pending, strays>>,
           running' = running \/ running' = None,
           mgr' = mgr \/ mgr'.why # "violation"
    PROVE  PlantInv'
  <1> SUFFICES ASSUME strays = 0 PROVE PlantInv'
    BY DEF PlantInv
  <1>1. GivenInv'
    BY DEF PlantInv, GivenInv, Given, PendingCalls
  <1>2. ASSUME running' # None
        PROVE  SaidInv'
    <2>1. running' = running /\ SaidInv
      BY <1>2 DEF PlantInv
    <2> QED BY <2>1 DEF SaidInv, Current, Given, PendingCalls
  <1>3. NoFalseViolation'
    BY DEF PlantInv, NoFalseViolation
  <1> QED BY <1>1, <1>2, <1>3 DEF PlantInv

\* The manager writes a frame.
LEMMA PlantWrite ==
    ASSUME OwnIds, BaseInv, PlantInv, NEW k \in Calls, WriteInvoke(k) \/ WriteCancel(k)
    PROVE  PlantInv'
  <1> USE DEF callers, helpers, owned, plugin
  <1> SUFFICES ASSUME strays = 0 PROVE PlantInv'
    BY DEF PlantInv, WriteInvoke, WriteCancel
  <1>0. /\ UNCHANGED <<serving, stdout, events, running, strays>>
        /\ stdin \in Seq(CommandMsg)
    BY DEF WriteInvoke, WriteCancel, BaseInv, PluginTypes
  <1>1. mgr' = Idle
    BY DEF WriteInvoke, WriteCancel
  <1>2. NoFalseViolation'
    BY <1>1, ManagerAt DEF NoFalseViolation
  <1>3. ASSUME WriteInvoke(k)
        PROVE  /\ PendingCalls \subseteq PendingCalls' /\ k \in PendingCalls'
               /\ k \notin PendingCalls
               /\ Invokes(stdin)' = Invokes(stdin) \cup {k}
               /\ InvokedOnce(stdin) /\ k \notin Invokes(stdin) => InvokedOnce(stdin)'
    <2>1. k \notin PendingCalls
      <3>1. Writing = {k}
        BY <1>3, ManagerAt DEF WriteInvoke, Writing
      <3> QED BY <3>1 DEF BaseInv, PlaceInv, Ahead
    <2>2. pending[IdOf[k]] = None
      BY <2>1, PendingIsOwn DEF BaseInv
    <2>3. /\ PendingCalls \subseteq PendingCalls' \cup {pending[IdOf[k]]} /\ k \in PendingCalls'
      <3>1. IdOf[k] \in Ids /\ k # None
        BY CallsAssumption DEF None, Calls
      <3> QED BY <1>3, <3>1, PendingSlot DEF WriteInvoke, BaseInv
    <2>4. None \notin PendingCalls
      BY DEF PendingCalls
    <2> DEFINE m == [op |-> "invoke", call |-> k]
    <2>5. stdin' = Append(stdin, m) /\ m \in CommandMsg /\ m.op = "invoke" /\ m.call = k
      BY <1>3, Pipes DEF WriteInvoke, Written
    <2> HIDE DEF m
    <2>6. /\ Invokes(stdin)' = Invokes(stdin) \cup {k}
          /\ InvokedOnce(stdin) /\ k \notin Invokes(stdin) => InvokedOnce(stdin)'
      BY <1>0, <2>5, InvokesOfAppend
    <2> QED BY <2>1, <2>2, <2>3, <2>4, <2>6
  <1>4. ASSUME WriteCancel(k)
        PROVE  /\ PendingCalls = PendingCalls'
               /\ Invokes(stdin)' = Invokes(stdin)
               /\ InvokedOnce(stdin) => InvokedOnce(stdin)'
    <2>1. pending' = pending
      BY <1>4 DEF WriteCancel
    <2>2. CASE stdin' = stdin
      BY <2>1, <2>2 DEF PendingCalls
    <2>3. CASE Written("cancel", k)
      <3> DEFINE m == [op |-> "cancel", call |-> k]
      <3>1. stdin' = Append(stdin, m) /\ m \in CommandMsg /\ m.op = "cancel"
        BY <2>3, Pipes DEF Written
      <3> HIDE DEF m
      <3>2. /\ Invokes(stdin)' = Invokes(stdin)
            /\ InvokedOnce(stdin) => InvokedOnce(stdin)'
        BY <1>0, <3>1, InvokesOfAppend
      <3> QED BY <2>1, <3>2 DEF PendingCalls
    <2> QED BY <1>4, <2>2, <2>3 DEF WriteCancel
  <1>5. GivenInv'
    BY <1>0, <1>3, <1>4 DEF PlantInv, GivenInv, Given
  <1>6. ASSUME running' # None
        PROVE  SaidInv'
    <2>1. SaidInv
      BY <1>0, <1>6 DEF PlantInv
    <2>2. /\ PendingCalls \subseteq PendingCalls'
          /\ \A x \in PendingCalls : x \notin Given => x \notin Given'
      BY <1>0, <1>3, <1>4 DEF Given
    <2>3. \A e : Current(e)' <=> Current(e)
      BY <1>0 DEF Current
    <2> QED BY <1>0, <2>1, <2>2, <2>3 DEF SaidInv, Current
  <1> QED BY <1>2, <1>5, <1>6 DEF PlantInv

\* A process is started: nothing that was said before is current.
LEMMA PlantStart ==
    ASSUME BaseInv, GoneInv, GenerationInv, PlantInv, NEW k \in Calls, StartPlugin(k)
    PROVE  PlantInv'
  <1> SUFFICES ASSUME strays = 0 PROVE PlantInv'
    BY DEF PlantInv, StartPlugin
  <1>0. /\ UNCHANGED <<serving, stdin, stdout, events, pending, strays>>
        /\ running' = generation + 1 /\ generation \in Nat /\ mgr' = Busy("writing", k)
        /\ running = None /\ mgr.at = "idle"
    BY DEF StartPlugin, Received, BaseInv, CallTypes
  <1>1. stdout = <<>>
    BY <1>0 DEF GoneInv
  <1>2. \A i \in DOMAIN events : events[i].generation # running'
    <2>1. \A i \in DOMAIN events : events[i] \in Event
      BY DEF BaseInv, PluginTypes
    <2>2. \A i \in DOMAIN events : events[i].generation \in Nat
      BY <2>1 DEF Event
    <2> QED BY <1>0, <2>2 DEF GenerationInv
  <1>3. SaidInv'
    BY <1>0, <1>1, <1>2 DEF SaidInv, Current
  <1>4. GivenInv'
    BY <1>0 DEF PlantInv, GivenInv, Given, PendingCalls
  <1>5. NoFalseViolation'
    BY <1>0, ManagerAt DEF NoFalseViolation
  <1> QED BY <1>3, <1>4, <1>5 DEF PlantInv

\* The process is stopped: nothing is given any more.
LEMMA PlantStop ==
    ASSUME StopsOwned, PlantInv, StopProcess
    PROVE  PlantInv'
  <1>0. /\ stdin' = <<>> /\ serving' = {} /\ running' = None
        /\ mgr' = Idle \/ mgr' = Busy("ended", None)
    BY DEF StopProcess, StopsOwned
  <1>1. GivenInv'
    BY <1>0 DEF GivenInv, Given, Invokes, InvokedOnce
  <1>2. NoFalseViolation'
    BY <1>0, ManagerAt DEF NoFalseViolation
  <1> QED BY <1>0, <1>1, <1>2 DEF PlantInv

\* The manager takes an event: a report of its process is about a pending call.
LEMMA PlantEvent ==
    ASSUME OwnIds, BaseInv, PlantInv, ManagerEvent
    PROVE  PlantInv'
  <1> USE DEF callers, helpers, owned, plugin
  <1> DEFINE e == Head(events)
  <1>0. /\ events # <<>> /\ events' = Tail(events) /\ UNCHANGED <<serving, stdin, stdout, strays>>
        /\ e = events[1] /\ 1 \in DOMAIN events
        /\ e.what \in {"answer", "progress"} => e.call \in Calls
    BY AnswerNamesCall DEF BaseInv, ManagerEvent, TakeEvent, StaleEvent, HandleClosed,
       HandleProgress, HandleAnswer, ProtocolViolation
  <1>1. \A i \in DOMAIN Tail(events) :
           i \in Nat /\ 1 < i + 1 /\ i + 1 \in DOMAIN events /\ Tail(events)[i] = events[i + 1]
    BY <1>0, OutputTail DEF BaseInv, PluginTypes
  <1> SUFFICES ASSUME strays = 0 PROVE PlantInv'
    BY <1>0 DEF PlantInv
  <1>2. ASSUME running' = None, pending' = pending, mgr'.why # "violation"
        PROVE  PlantInv'
    <2>1. GivenInv'
      BY <1>0, <1>2 DEF PlantInv, GivenInv, Given, PendingCalls
    <2> QED BY <1>2, <2>1 DEF PlantInv, NoFalseViolation
  <1>3. CASE HandleClosed(e)
    <2>1. running' = None /\ pending' = pending /\ mgr'.why = "exited"
      BY <1>3, ManagerAt DEF HandleClosed, Stop
    <2> QED BY <1>2, <2>1
  <1>4. CASE StaleEvent(e) \/ HandleProgress(e)
    <2>1. UNCHANGED <<mgr, running, pending>>
      BY <1>4 DEF StaleEvent, HandleProgress
    <2>2. GivenInv' /\ PendingCalls' = PendingCalls /\ Given' = Given
      BY <1>0, <2>1 DEF PlantInv, GivenInv, Given, PendingCalls
    <2>3. ASSUME running' # None
          PROVE  SaidInv'
      <3>1. SaidInv
        BY <2>1, <2>3 DEF PlantInv
      <3> QED BY <1>0, <1>1, <2>1, <2>2, <3>1 DEF SaidInv, Current
    <2> QED BY <2>1, <2>2, <2>3 DEF PlantInv, NoFalseViolation
  <1>5. CASE ProtocolViolation(e)
    <2>1. running # None /\ SaidInv /\ Current(e)
      BY <1>5 DEF ProtocolViolation, Current, PlantInv
    <2>2. e.what # "lifecycle" /\ (e.what # "closed" => e.call \in PendingCalls)
      BY <1>0, <2>1 DEF SaidInv
    <2>3. e.what \in {"answer", "progress"} /\ e.call \in Calls /\ pending[IdOf[e.call]] = None
      BY <1>0, <1>5, <2>2 DEF ProtocolViolation
    <2> QED BY <2>2, <2>3, PendingIsOwn DEF BaseInv
  <1>6. CASE HandleAnswer(e)
    <2> DEFINE k == e.call
    <2>1. /\ UNCHANGED <<mgr, running>> /\ running # None /\ Current(e) /\ e.what = "answer"
          /\ pending' = [pending EXCEPT ![IdOf[k]] = None]
      BY <1>6 DEF HandleAnswer, Current
    <2>2. k \in Calls /\ PendingCalls' = PendingCalls \ {k}
      BY <1>0, <2>1, PendingIsOwn DEF BaseInv
    <2>3. SaidInv /\ GivenInv
      BY <2>1 DEF PlantInv
    <2>4. /\ k \notin Given
          /\ \A j \in DOMAIN stdout : stdout[j].call # k
          /\ \A j \in DOMAIN events : 1 < j /\ Current(events[j]) => events[j].call # k
      BY <1>0, <2>1, <2>3 DEF SaidInv
    <2>5. Given' = Given
      BY <1>0 DEF Given
    <2> HIDE DEF e, k
    <2>6. GivenInv'
      BY <1>0, <2>2, <2>3, <2>4, <2>5 DEF GivenInv, Given
    <2>7. SaidInv'
      <3>1. \A i \in DOMAIN Tail(events) : Current(Tail(events)[i]) => Tail(events)[i].call # k
        BY <1>1, <2>4
      <3> QED BY <1>0, <1>1, <2>1, <2>2, <2>3, <2>4, <2>5, <3>1 DEF SaidInv, Current
    <2> QED BY <2>1, <2>6, <2>7 DEF PlantInv, NoFalseViolation
  <1> QED BY <1>3, <1>4, <1>5, <1>6 DEF ManagerEvent

\* The reader hands on what it has read, in order.
LEMMA PlantReader ==
    ASSUME BaseInv, GenerationInv, PlantInv, Reader
    PROVE  PlantInv'
  <1> USE DEF callers, helpers, owned, plugin
  <1>0. /\ UNCHANGED <<serving, stdin, pending, strays, running, mgr, generation>>
        /\ events \in Seq(Event) /\ stdout \in Seq(Response) /\ generation \in Nat
    BY DEF Reader, ReaderForwards, ReaderCloses, BaseInv, PluginTypes, CallTypes
  <1> SUFFICES ASSUME strays = 0 PROVE PlantInv'
    BY <1>0 DEF PlantInv
  <1>1. GivenInv' /\ PendingCalls' = PendingCalls /\ Given' = Given
    BY <1>0 DEF PlantInv, GivenInv, Given, PendingCalls
  <1>2. NoFalseViolation'
    BY <1>0 DEF PlantInv, NoFalseViolation
  <1> SUFFICES ASSUME running' # None PROVE SaidInv'
    BY <1>1, <1>2 DEF PlantInv
  <1>3. SaidInv /\ running # None
    BY <1>0 DEF PlantInv
  <1>4. CASE ReaderForwards
    <2> DEFINE h == Head(stdout)
               m == [generation |-> generation, what |-> h.what, call |-> h.call]
    <2>1. stdout # <<>> /\ stdout' = Tail(stdout) /\ events' = Append(events, m)
      BY <1>4 DEF ReaderForwards
    <2>2. /\ h \in Response /\ 1 \in DOMAIN stdout /\ stdout[1] = h
          /\ \A i \in DOMAIN Tail(stdout) :
                i \in Nat /\ 1 < i + 1 /\ i + 1 \in DOMAIN stdout /\ Tail(stdout)[i] = stdout[i + 1]
      BY <1>0, <2>1, OutputTail
    <2>3. m \in Event /\ m.what = h.what /\ m.call = h.call
      BY <1>0, <2>2 DEF Response, Event
    <2> HIDE DEF h, m
    <2>4. PICK n \in DOMAIN events' :
             /\ \A i \in DOMAIN events' : i \in DOMAIN events \/ i = n
             /\ \A i \in DOMAIN events : i \in DOMAIN events' /\ events'[i] = events[i] /\ ~(n < i)
             /\ events'[n] = m /\ ~(n < n)
      BY <1>0, <2>1, <2>3, AppendOrder
    <2>5. \A x : Current(x)' <=> Current(x)
      BY <1>0 DEF Current
    <2>6. /\ h.what # "lifecycle" /\ h.call \in PendingCalls
          /\ h.what = "answer" => h.call \notin Given
          /\ \A i \in DOMAIN Tail(stdout) : h.what = "answer" => Tail(stdout)[i].call # h.call
          /\ \A i \in DOMAIN events :
                Current(events[i]) /\ events[i].what = "answer" => h.call # events[i].call
      BY <1>3, <2>2 DEF SaidInv
    <2>7. /\ \A i \in DOMAIN stdout' :
             /\ stdout'[i].what # "lifecycle"
             /\ stdout'[i].call \in PendingCalls'
             /\ stdout'[i].what = "answer" => stdout'[i].call \notin Given'
          /\ \A i, j \in DOMAIN stdout' :
             i < j /\ stdout'[i].what = "answer" => stdout'[j].call # stdout'[i].call
      BY <1>1, <1>3, <2>1, <2>2 DEF SaidInv
    <2>8. \A i \in DOMAIN events' : (Current(events[i])') =>
             /\ events'[i].what # "lifecycle"
             /\ events'[i].what # "closed" => events'[i].call \in PendingCalls'
             /\ events'[i].what = "answer" => events'[i].call \notin Given'
      BY <1>0, <1>1, <1>3, <2>3, <2>4, <2>6 DEF SaidInv, Current
    <2>9. \A i, j \in DOMAIN events' :
             i < j /\ (Current(events[i])') /\ (Current(events[j])') /\ events'[i].what = "answer"
                => events'[j].call # events'[i].call
      <3> SUFFICES ASSUME NEW i \in DOMAIN events', NEW j \in DOMAIN events', i < j,
                          Current(events[i])', Current(events[j])', events'[i].what = "answer"
                   PROVE  events'[j].call # events'[i].call
        OBVIOUS
      <3>1. i \in DOMAIN events
        BY <2>4
      <3>2. Current(events[i]) /\ events[i].what = "answer"
        BY <1>0, <2>4, <3>1 DEF Current
      <3>3. CASE j = n
        BY <2>3, <2>4, <2>6, <3>1, <3>2, <3>3
      <3>4. CASE j \in DOMAIN events
        <4>1. Current(events[j])
          BY <1>0, <2>4, <3>4 DEF Current
        <4> QED BY <1>3, <2>4, <3>1, <3>2, <3>4, <4>1 DEF SaidInv
      <3> QED BY <2>4, <3>3, <3>4
    <2>10. \A i \in DOMAIN events', j \in DOMAIN stdout' :
             (Current(events[i])') /\ events'[i].what = "answer" => stdout'[j].call # events'[i].call
      <3> SUFFICES ASSUME NEW i \in DOMAIN events', NEW j \in DOMAIN stdout',
                          Current(events[i])', events'[i].what = "answer"
                   PROVE  stdout'[j].call # events'[i].call
        OBVIOUS
      <3>1. CASE i = n
        BY <2>1, <2>3, <2>4, <2>6, <3>1
      <3>2. CASE i \in DOMAIN events
        <4>1. Current(events[i]) /\ events[i].what = "answer"
          BY <1>0, <2>4, <3>2 DEF Current
        <4> QED BY <1>3, <2>1, <2>2, <2>4, <3>2, <4>1 DEF SaidInv
      <3> QED BY <2>4, <3>1, <3>2
    <2> QED BY <2>7, <2>8, <2>9, <2>10 DEF SaidInv
  <1>5. CASE ReaderCloses
    <2> DEFINE m == [generation |-> generation, what |-> "closed", call |-> None]
    <2>1. stdout' = stdout /\ events' = Append(events, m)
      BY <1>5 DEF ReaderCloses
    <2>2. m \in Event /\ m.what = "closed" /\ m.call = None
      BY <1>0 DEF Event
    <2> HIDE DEF m
    <2>3. PICK n \in DOMAIN events' :
             /\ \A i \in DOMAIN events' : i \in DOMAIN events \/ i = n
             /\ \A i \in DOMAIN events : i \in DOMAIN events' /\ events'[i] = events[i] /\ ~(n < i)
             /\ events'[n] = m /\ ~(n < n)
      BY <1>0, <2>1, <2>2, AppendOrder
    <2>4. None \notin PendingCalls
      BY DEF PendingCalls
    <2>5. \A i \in DOMAIN events' : (Current(events[i])') =>
             /\ events'[i].what # "lifecycle"
             /\ events'[i].what # "closed" => events'[i].call \in PendingCalls'
             /\ events'[i].what = "answer" => events'[i].call \notin Given'
      BY <1>0, <1>1, <1>3, <2>2, <2>3 DEF SaidInv, Current
    <2>6. \A i, j \in DOMAIN events' :
             i < j /\ (Current(events[i])') /\ (Current(events[j])') /\ events'[i].what = "answer"
                => events'[j].call # events'[i].call
      <3> SUFFICES ASSUME NEW i \in DOMAIN events', NEW j \in DOMAIN events', i < j,
                          Current(events[i])', Current(events[j])', events'[i].what = "answer"
                   PROVE  events'[j].call # events'[i].call
        OBVIOUS
      <3>1. i \in DOMAIN events
        BY <2>3
      <3>2. Current(events[i]) /\ events[i].what = "answer" /\ events'[i] = events[i]
        BY <1>0, <2>3, <3>1 DEF Current
      <3>3. CASE j = n
        <4>1. events[i].call \in PendingCalls
          BY <1>3, <3>1, <3>2 DEF SaidInv
        <4> QED BY <2>2, <2>3, <2>4, <3>2, <3>3, <4>1
      <3>4. CASE j \in DOMAIN events
        <4>1. Current(events[j])
          BY <1>0, <2>3, <3>4 DEF Current
        <4> QED BY <1>3, <2>3, <3>1, <3>2, <3>4, <4>1 DEF SaidInv
      <3> QED BY <2>3, <3>3, <3>4
    <2>7. \A i \in DOMAIN events', j \in DOMAIN stdout' :
             (Current(events[i])') /\ events'[i].what = "answer" => stdout'[j].call # events'[i].call
      BY <1>0, <1>3, <2>1, <2>2, <2>3 DEF SaidInv, Current
    <2> QED BY <1>1, <1>3, <2>1, <2>5, <2>6, <2>7 DEF SaidInv
  <1> QED BY <1>4, <1>5 DEF Reader

\* The plugin reads a frame: the call it invokes is now served.
LEMMA PlantReads ==
    ASSUME BaseInv, PlantInv, PluginReads
    PROVE  PlantInv'
  <1> USE DEF callers, helpers, owned, plugin
  <1> DEFINE m == Head(stdin)
  <1>0. /\ UNCHANGED <<events, stdout, pending, strays, running, mgr>>
        /\ stdin \in Seq(CommandMsg) /\ stdin # <<>> /\ stdin' = Tail(stdin)
        /\ serving' = serving \cup Invokes(<<m>>)
    BY DEF PluginReads, BaseInv, PluginTypes
  <1> SUFFICES ASSUME strays = 0 PROVE PlantInv'
    BY <1>0 DEF PlantInv
  <1>1. /\ m.op = "invoke" => Invokes(<<m>>) = {m.call}
        /\ m.op # "invoke" => Invokes(<<m>>) = {}
    BY DEF Invokes
  <1>2. /\ m.op = "invoke" => Invokes(stdin) = Invokes(Tail(stdin)) \cup {m.call}
        /\ m.op # "invoke" => Invokes(stdin) = Invokes(Tail(stdin))
        /\ InvokedOnce(stdin) => /\ InvokedOnce(Tail(stdin))
                                 /\ m.op = "invoke" => m.call \notin Invokes(Tail(stdin))
    BY <1>0, InvokesOfTail
  <1>3. Invokes(stdin)' = Invokes(Tail(stdin)) /\ (InvokedOnce(stdin)' <=> InvokedOnce(Tail(stdin)))
    BY <1>0
  <1>4. Given' = Given
    BY <1>0, <1>1, <1>2, <1>3 DEF Given
  <1>5. PendingCalls' = PendingCalls
    BY <1>0 DEF PendingCalls
  <1> HIDE DEF m
  <1>6. GivenInv'
    <2>1. GivenInv
      BY DEF PlantInv
    <2>2. InvokedOnce(stdin)'
      BY <1>2, <1>3, <2>1 DEF GivenInv
    <2>3. serving' \cap (Invokes(stdin)') = {}
      BY <1>0, <1>1, <1>2, <1>3, <2>1 DEF GivenInv
    <2> QED BY <1>4, <1>5, <2>1, <2>2, <2>3 DEF GivenInv
  <1>7. running' # None => SaidInv'
    BY <1>0, <1>4, <1>5 DEF PlantInv, SaidInv, Current
  <1> QED BY <1>0, <1>6, <1>7 DEF PlantInv, NoFalseViolation

\* The plugin reports about a call it serves, or answers it for good.
LEMMA PlantResponds ==
    ASSUME BaseInv, PlantInv, NEW k \in Calls, PluginAnswers(k) \/ PluginProgress(k)
    PROVE  PlantInv'
  <1> USE DEF callers, helpers, owned, plugin
  <1>0. /\ UNCHANGED <<events, stdin, pending, strays, running, mgr>> /\ k \in serving
        /\ stdout \in Seq(Response)
    BY DEF PluginAnswers, PluginProgress, Respond, BaseInv, PluginTypes
  <1> SUFFICES ASSUME strays = 0 PROVE PlantInv'
    BY <1>0 DEF PlantInv
  <1>1. PICK m \in Response :
           /\ stdout' = Append(stdout, m) /\ m.call = k /\ m.what \in {"answer", "progress"}
           /\ m.what = "answer" => serving' = serving \ {k}
           /\ m.what # "answer" => serving' = serving
    <2>1. CASE PluginAnswers(k)
      <3> DEFINE m == [what |-> "answer", call |-> k]
      <3>1. m \in Response /\ m.what = "answer" /\ m.call = k
        BY Pipes
      <3>2. stdout' = Append(stdout, m) /\ serving' = serving \ {k}
        BY <2>1 DEF PluginAnswers, Respond
      <3> HIDE DEF m
      <3> QED BY <3>1, <3>2
    <2>2. CASE PluginProgress(k)
      <3> DEFINE m == [what |-> "progress", call |-> k]
      <3>1. m \in Response /\ m.what = "progress" /\ m.call = k
        BY Pipes
      <3>2. stdout' = Append(stdout, m) /\ serving' = serving
        BY <2>2 DEF PluginProgress, Respond
      <3> HIDE DEF m
      <3> QED BY <3>1, <3>2
    <2> QED BY <2>1, <2>2
  <1>2. GivenInv
    BY DEF PlantInv
  <1>3. /\ PendingCalls' = PendingCalls /\ Given' \subseteq Given
        /\ m.what = "answer" => k \notin Given'
        /\ k \in PendingCalls /\ k \in Given
    BY <1>0, <1>1, <1>2 DEF GivenInv, Given, PendingCalls
  <1>4. GivenInv'
    BY <1>0, <1>1, <1>2, <1>3 DEF GivenInv
  <1> SUFFICES ASSUME running' # None PROVE SaidInv'
    BY <1>0, <1>4 DEF PlantInv, NoFalseViolation
  <1>5. SaidInv
    BY <1>0 DEF PlantInv
  <1>6. PICK n \in DOMAIN stdout' :
           /\ \A i \in DOMAIN stdout' : i \in DOMAIN stdout \/ i = n
           /\ \A i \in DOMAIN stdout : i \in DOMAIN stdout' /\ stdout'[i] = stdout[i] /\ ~(n < i)
           /\ stdout'[n] = m /\ ~(n < n)
    BY <1>0, <1>1, AppendOrder
  <1>7. \A i \in DOMAIN stdout' :
           /\ stdout'[i].what # "lifecycle"
           /\ stdout'[i].call \in PendingCalls'
           /\ stdout'[i].what = "answer" => stdout'[i].call \notin Given'
    BY <1>1, <1>3, <1>5, <1>6 DEF SaidInv
  <1>8. \A i, j \in DOMAIN stdout' :
           i < j /\ stdout'[i].what = "answer" => stdout'[j].call # stdout'[i].call
    <2> SUFFICES ASSUME NEW i \in DOMAIN stdout', NEW j \in DOMAIN stdout', i < j,
                        stdout'[i].what = "answer"
                 PROVE  stdout'[j].call # stdout'[i].call
      OBVIOUS
    <2>1. i \in DOMAIN stdout /\ stdout'[i] = stdout[i]
      BY <1>6
    <2>2. CASE j = n
      BY <1>1, <1>3, <1>5, <1>6, <2>1, <2>2 DEF SaidInv
    <2>3. CASE j \in DOMAIN stdout
      BY <1>5, <1>6, <2>1, <2>3 DEF SaidInv
    <2> QED BY <1>6, <2>2, <2>3
  <1>9. /\ \A i \in DOMAIN events' : (Current(events[i])') =>
             /\ events'[i].what # "lifecycle"
             /\ events'[i].what # "closed" => events'[i].call \in PendingCalls'
             /\ events'[i].what = "answer" => events'[i].call \notin Given'
        /\ \A i, j \in DOMAIN events' :
             i < j /\ (Current(events[i])') /\ (Current(events[j])') /\ events'[i].what = "answer"
                => events'[j].call # events'[i].call
    BY <1>0, <1>3, <1>5 DEF SaidInv, Current
  <1>10. \A i \in DOMAIN events', j \in DOMAIN stdout' :
           (Current(events[i])') /\ events'[i].what = "answer" => stdout'[j].call # events'[i].call
    BY <1>0, <1>1, <1>3, <1>5, <1>6 DEF SaidInv, Current
  <1> QED BY <1>7, <1>8, <1>9, <1>10 DEF SaidInv

\* All steps.
LEMMA PlantStep ==
    ASSUME OwnIds, BaseInv, GoneInv, GenerationInv, StopsOwned, PlantInv, [Next]_vars
    PROVE  PlantInv'
  <1> USE DEF callers, helpers, owned, plugin
  <1>1. CASE UNCHANGED vars
    BY <1>1, PlantQuiet DEF vars
  <1>2. ASSUME NEW k \in Calls,
               \/ Invoke(k) \/ CancelToken(k) \/ Drop(k) \/ CallStep(k) \/ HelperStep(k)
        PROVE  PlantInv'
    <2>1. UNCHANGED <<serving, stdin, stdout, events, pending, strays, running, mgr>>
      BY <1>2 DEF Invoke, CancelToken, Drop, CallStep, Acquire, SendInvoke, Return, HelperStep,
                  WatcherCancels, WatcherEnds, GraceExpires
    <2> QED BY <2>1, PlantQuiet
  <1>3. CASE Detach \/ PluginExits
    <2>1. UNCHANGED <<serving, stdin, stdout, events, pending, strays, running, mgr>>
      BY <1>3 DEF Detach, PluginExits
    <2> QED BY <2>1, PlantQuiet
  <1>4. ASSUME NEW k \in Calls,
               \/ ReceiveInvoke(k) \/ StartFails(k) \/ ReceiveCancel(k) \/ KillIfPending(k)
               \/ WriteInvokeFails(k)
        PROVE  PlantInv'
    <2>1. /\ UNCHANGED <<serving, stdin, stdout, events, pending, strays>>
          /\ running' = running \/ running' = None
      BY <1>4 DEF ReceiveInvoke, StartFails, ReceiveCancel, KillIfPending, WriteInvokeFails, Stop
    <2>2. mgr' = mgr \/ mgr' = Idle \/ mgr' = Busy("writing", k) \/ mgr' = Busy("cancelling", k)
            \/ mgr' = [at |-> "stopping", call |-> k, why |-> "ignored"]
            \/ mgr' = [at |-> "stopping", call |-> k, why |-> "write failed"]
      BY <1>4 DEF ReceiveInvoke, StartFails, ReceiveCancel, KillIfPending, WriteInvokeFails, Stop
    <2>3. mgr' = mgr \/ mgr'.why # "violation"
      <3>1. ASSUME NEW why, why # "violation",
                   mgr' = [at |-> "stopping", call |-> k, why |-> why]
            PROVE  mgr'.why # "violation"
        BY <3>1, ManagerAt
      <3>2. ASSUME mgr' = Idle \/ mgr' = Busy("writing", k) \/ mgr' = Busy("cancelling", k)
            PROVE  mgr'.why # "violation"
        BY <3>2, ManagerAt
      <3> QED BY <2>2, <3>1, <3>2
    <2> QED BY <2>1, <2>3, PlantQuiet
  <1>5. CASE CommandsClosed
    <2>1. /\ UNCHANGED <<serving, stdin, stdout, events, pending, strays>>
          /\ running' = running \/ running' = None
          /\ \/ mgr' = Busy("ended", None)
             \/ mgr' = [at |-> "stopping", call |-> None, why |-> "closed"]
      BY <1>5 DEF CommandsClosed, Stop
    <2>2. mgr'.why # "violation"
      BY <2>1, ManagerAt
    <2> QED BY <2>1, <2>2, PlantQuiet
  <1>6. CASE PluginStrays
    <2>1. strays' # 0
      BY <1>6 DEF PluginStrays, BaseInv, PluginTypes
    <2> QED BY <2>1 DEF PlantInv
  <1> QED
    BY <1>1, <1>2, <1>3, <1>4, <1>5, <1>6, PlantStart, PlantStop, PlantWrite, PlantEvent,
       PlantReader, PlantReads, PlantResponds
    DEF Next, ManagerCommand, ManagerGoesOn

\* The inductive invariant of the calls with ids of their own.
WholeInv == BaseInv /\ GoneInv /\ GenerationInv /\ StopsOwned /\ PlantInv

LEMMA WholeInvariant ==
    ASSUME OwnIds
    PROVE  Spec => []WholeInv
  <1>1. Init => WholeInv
    <2> SUFFICES ASSUME Init PROVE WholeInv
      OBVIOUS
    <2>1. mgr.at = "idle" /\ mgr.why = "none"
      BY ManagerAt DEF Init
    <2>2. GoneInv /\ GenerationInv /\ StopsOwned
      BY <2>1 DEF Init, GoneInv, GenerationInv, StopsOwned
    <2>3. GivenInv
      BY DEF Init, GivenInv, Given, Invokes, InvokedOnce
    <2>4. PlantInv
      BY <2>1, <2>3 DEF Init, PlantInv, NoFalseViolation
    <2> QED BY <2>2, <2>4, BaseInit DEF WholeInv
  <1>2. WholeInv /\ [Next]_vars => WholeInv'
    BY OwnIds, BaseStep, GoneStep, StopsOwnedStep, PlantStep DEF WholeInv
  <1> QED BY <1>1, <1>2, PTL DEF Spec

\* When every call has an id of its own, a plugin that sends only what it is
\* asked for is never stopped for a protocol violation (handle_response in
\* run_manager): what an earlier process said is stale, and what its own says
\* is about a call that is still pending.
THEOREM ViolationsAreTrue ==
    ASSUME OwnIds
    PROVE  Spec => []NoFalseViolation
  <1>1. WholeInv => NoFalseViolation
    BY DEF WholeInv, PlantInv, NoFalseViolation
  <1> QED BY <1>1, WholeInvariant, OwnIds, PTL

\* When every call has an id of its own, a plugin that sends only what it is
\* asked for never has more unanswered invocations than max_concurrency: what
\* it was given is pending, and a pending call holds one of the permits.
THEOREM PluginNotOverloaded ==
    ASSUME OwnIds
    PROVE  Spec => []PluginConcurrency
  <1>1. WholeInv => PluginConcurrency
    <2> SUFFICES ASSUME WholeInv, strays = 0
                 PROVE  Cardinality(serving \cup Invokes(stdin)) <= MaxConcurrency
      BY DEF PluginConcurrency
    <2>1. Given \subseteq Holders
      BY DEF WholeInv, PlantInv, GivenInv, Holders
    <2>2. IsFiniteSet(Holders) /\ Cardinality(Holders) <= MaxConcurrency
      BY DEF WholeInv, BaseInv, PermitInv
    <2>3. IsFiniteSet(Given) /\ Cardinality(Given) <= Cardinality(Holders)
      BY <2>1, <2>2, FS_Subset
    <2>4. Cardinality(Given) \in Nat /\ Cardinality(Holders) \in Nat
      BY <2>2, <2>3, FS_CardinalityType
    <2>5. Cardinality(Given) <= MaxConcurrency
      BY <2>2, <2>3, <2>4, LimitsAssumption
    <2> QED BY <2>5 DEF Given
  <1> QED BY <1>1, WholeInvariant, OwnIds, PTL
=============================================================================
