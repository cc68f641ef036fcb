--------------------------- MODULE SessionProofs ---------------------------
(***************************************************************************)
(* Proofs about Session for every number of connections, ids, tasks and    *)
(* permits: the active map is exact, the limit over all connections holds, *)
(* the responses about an execution come in order, and a connection that   *)
(* drains waits for all it spawned.                                        *)
(***************************************************************************)
EXTENDS Session, FiniteSetTheorems, SequenceTheorems, TLAPS

States == {"reading", "draining", "flushing", "returned", "failed"}

\* An owner and a name mean something once the task is spawned.
Types ==
    /\ conn \in [Connections -> States]
    /\ active \in [Connections -> [Ids -> Tasks \cup {None}]]
    /\ phase \in [Tasks -> Live \cup {"unused", "ended", "aborted"}]
    /\ DOMAIN owner = Tasks
    /\ DOMAIN name = Tasks
    /\ \A t \in Tasks : phase[t] # "unused" => owner[t] \in Connections /\ name[t] \in Ids

\* The phases of a task that is in the active map.
Mapped == Live \ {"removed"}

\* A task that is not removed yet is in the map, and nobody else is in its
\* slot; only the drop of a failed connection leaves aborted tasks behind.
MapInv ==
    /\ \A t \in Tasks : phase[t] \in Mapped => active[owner[t]][name[t]] = t
    /\ \A c \in Connections, id \in Ids : active[c][id] # None =>
          LET t == active[c][id]
          IN  owner[t] = c /\ name[t] = id /\ phase[t] \in Mapped \cup {"aborted"}
    /\ \A t \in Tasks : phase[t] = "aborted" => conn[owner[t]] = "failed"

\* Who holds a global permit. The executor is called without one only for a
\* task that is cancelled, and then it admits nothing.
PermitInv ==
    /\ \A t \in permit : t \in Tasks /\ phase[t] \in {"executing", "admitted", "running", "returned"}
    /\ \A t \in Tasks : phase[t] \in {"admitted", "running"} => t \in permit
    /\ \A t \in Tasks : phase[t] = "executing" => t \in permit \/ t \in cancelled

IInv == Types /\ MapInv /\ PermitInv /\ DrainWaitsForTasks

\* Permits in use are counted right.
CountInv == IsFiniteSet(permit) /\ Cardinality(permit) <= GlobalPermits

\* What the host has been told by the time a task is in a phase.
ToldIn(p) ==
    CASE p = "unused" -> {<<>>}
      [] p \in {"waiting", "executing", "admitted"} -> {<<"accepted">>}
      [] p = "running" -> {<<"accepted", "started">>}
      [] p \in {"returned", "released", "removed"} ->
            {<<"accepted", "started">>, <<"accepted", "failed">>,
             <<"accepted", "started", "failed">>}
      [] p = "ended" ->
            {<<"accepted", "started", "completed">>, <<"accepted", "failed", "completed">>,
             <<"accepted", "started", "failed", "completed">>}
      [] OTHER -> {<<"accepted">>, <<"accepted", "started">>}

ToldInv ==
    /\ DOMAIN told = Tasks
    /\ \A t \in Tasks : told[t] \in ToldIn(phase[t])

-----------------------------------------------------------------------------
\* Tasks are numbered from 1, so that None is not one of them.
LEMMA NoneIsNoTask == None \notin Tasks
  BY BoundsAssumption DEF None, Tasks

LEMMA InitIInv == Init => IInv
  <1> SUFFICES ASSUME Init PROVE IInv
    OBVIOUS
  <1> USE DEF Init
  <1>1. Types
    BY DEF Types, States, Live
  <1>2. MapInv /\ PermitInv
    BY DEF MapInv, PermitInv, Mapped, Live
  <1>3. DrainWaitsForTasks
    BY DEF DrainWaitsForTasks
  <1> QED
    BY <1>1, <1>2, <1>3 DEF IInv

\* A step that leaves the tasks, the map and the connections alone keeps the
\* invariant; it may cancel something.
LEMMA QuietKeepsIInv ==
    ASSUME IInv, UNCHANGED <<conn, active, phase, owner, name, permit>>, cancelled \subseteq cancelled'
    PROVE  IInv'
  <1>1. Types' /\ MapInv' /\ PermitInv'
    BY DEF IInv, Types, MapInv, PermitInv
  <1>2. DrainWaitsForTasks'
    BY DEF IInv, DrainWaitsForTasks, TasksOf
  <1> QED
    BY <1>1, <1>2 DEF IInv

\* serve of a connection goes on to where nothing is asked of its tasks.
LEMMA ConnectionMovesOn ==
    ASSUME IInv, UNCHANGED <<active, phase, owner, name, permit>>, cancelled \subseteq cancelled',
           NEW c \in Connections, NEW q \in States, conn' = [conn EXCEPT ![c] = q], conn[c] # "failed",
           q \in {"flushing", "returned"} => \A t \in TasksOf(c) : phase[t] = "ended" /\ t \notin permit
    PROVE  IInv'
  <1>1. Types' /\ PermitInv'
    BY DEF IInv, Types, PermitInv
  <1>2. MapInv'
    BY DEF IInv, Types, MapInv
  <1>3. DrainWaitsForTasks'
    BY DEF IInv, Types, DrainWaitsForTasks, TasksOf
  <1> QED
    BY <1>1, <1>2, <1>3 DEF IInv

\* A task that stays in the map goes to another phase, with the permit that
\* the phase calls for.
LEMMA TaskMovesOn ==
    ASSUME IInv, UNCHANGED <<conn, active, owner, name, cancelled>>,
           NEW t \in Tasks, NEW q \in Mapped, phase[t] \in Mapped, phase' = [phase EXCEPT ![t] = q],
           \A u \in Tasks \ {t} : u \in permit' <=> u \in permit,
           permit' \subseteq Tasks,
           t \in permit' => q \in {"executing", "admitted", "running", "returned"},
           q \in {"admitted", "running"} => t \in permit',
           q = "executing" => t \in permit' \/ t \in cancelled
    PROVE  IInv'
  <1> USE DEF IInv
  <1>1. Types'
    BY DEF Types, Mapped, Live
  <1>2. MapInv'
    BY NoneIsNoTask DEF Types, MapInv, Mapped, Live
  <1>3. PermitInv'
    BY DEF Types, PermitInv
  <1>4. DrainWaitsForTasks'
    <2> SUFFICES ASSUME NEW c \in Connections, conn'[c] \in {"flushing", "returned"},
                        NEW u \in TasksOf(c)'
                 PROVE  phase'[u] = "ended" /\ u \notin permit'
      BY DEF DrainWaitsForTasks
    <2>1. u \in Tasks /\ owner[u] = c /\ phase[u] # "unused"
      BY DEF TasksOf, Types, Mapped, Live
    <2>2. phase[u] = "ended" /\ u \notin permit
      BY <2>1 DEF DrainWaitsForTasks, TasksOf
    <2>3. u # t
      BY <2>2 DEF Mapped, Live
    <2> QED
      BY <2>1, <2>2, <2>3 DEF Types
  <1> QED
    BY <1>1, <1>2, <1>3, <1>4

\* A new execution takes an empty slot and an unused task.
LEMMA ExecuteKeepsIInv ==
    ASSUME IInv, NEW c \in Connections, NEW id \in Ids, Execute(c, id) PROVE IInv'
  <1>1. PICK t \in Tasks :
          /\ conn[c] = "reading"
          /\ active[c][id] = None /\ phase[t] = "unused"
          /\ active' = [active EXCEPT ![c] = [active[c] EXCEPT ![id] = t]]
          /\ phase' = [phase EXCEPT ![t] = "waiting"]
          /\ owner' = [owner EXCEPT ![t] = c]
          /\ name' = [name EXCEPT ![t] = id]
          /\ UNCHANGED <<conn, cancelled, permit>>
    BY DEF Execute, Receive
  <1>2. Types /\ MapInv /\ PermitInv /\ DrainWaitsForTasks
    BY DEF IInv
  <1>3. /\ active'[c][id] = t
        /\ \A d \in Connections, i \in Ids : <<d, i>> # <<c, id>> => active'[d][i] = active[d][i]
    BY <1>1, <1>2 DEF Types
  <1>4. /\ phase'[t] = "waiting" /\ owner'[t] = c /\ name'[t] = id
        /\ \A u \in Tasks \ {t} : phase'[u] = phase[u] /\ owner'[u] = owner[u] /\ name'[u] = name[u]
    BY <1>1, <1>2 DEF Types
  <1>5. Types'
    <2>1. active' \in [Connections -> [Ids -> Tasks \cup {None}]]
      BY <1>1, <1>2 DEF Types
    <2> QED
      BY <1>1, <1>2, <2>1 DEF Types, Live
  <1>6. MapInv'
    <2>1. ASSUME NEW u \in Tasks, phase'[u] \in Mapped
          PROVE  active'[owner'[u]][name'[u]] = u
      <3>1. CASE u = t
        BY <3>1, <1>3, <1>4
      <3>2. CASE u # t
        <4>1. active[owner[u]][name[u]] = u /\ owner[u] \in Connections /\ name[u] \in Ids
          BY <3>2, <2>1, <1>2, <1>4 DEF MapInv, Types, Mapped, Live
        <4>2. <<owner[u], name[u]>> # <<c, id>>
          BY <4>1, <1>1, NoneIsNoTask
        <4> QED
          BY <3>2, <4>1, <4>2, <1>3, <1>4
      <3> QED
        BY <3>1, <3>2
    <2>2. ASSUME NEW d \in Connections, NEW i \in Ids, active'[d][i] # None
          PROVE  LET u == active'[d][i]
                 IN  owner'[u] = d /\ name'[u] = i /\ phase'[u] \in Mapped \cup {"aborted"}
      <3>1. CASE <<d, i>> = <<c, id>>
        BY <3>1, <1>3, <1>4 DEF Mapped, Live
      <3>2. CASE <<d, i>> # <<c, id>>
        <4>1. /\ active'[d][i] = active[d][i] /\ active[d][i] \in Tasks
              /\ phase[active[d][i]] \in Mapped \cup {"aborted"}
          BY <3>2, <2>2, <1>2, <1>3 DEF MapInv, Types
        <4>2. active[d][i] # t
          BY <4>1, <1>1 DEF Mapped, Live
        <4> QED
          BY <4>1, <4>2, <2>2, <1>2, <1>4 DEF MapInv
      <3> QED
        BY <3>1, <3>2
    <2>3. \A u \in Tasks : phase'[u] = "aborted" => conn'[owner'[u]] = "failed"
      BY <1>1, <1>2, <1>4 DEF MapInv
    <2> QED
      BY <2>1, <2>2, <2>3 DEF MapInv
  <1>7. PermitInv'
    BY <1>1, <1>2, <1>4 DEF PermitInv
  <1>8. DrainWaitsForTasks'
    BY <1>1, <1>2, <1>4 DEF DrainWaitsForTasks, TasksOf
  <1> QED
    BY <1>5, <1>6, <1>7, <1>8 DEF IInv

\* A task removes its own registration and no other.
LEMMA RemoveKeepsIInv ==
    ASSUME IInv, NEW t \in Tasks, RemoveActive(t) PROVE IInv'
  <1> DEFINE c == owner[t]
             id == name[t]
  <1>1. Types /\ MapInv /\ PermitInv /\ DrainWaitsForTasks
    BY DEF IInv
  <1>2. /\ phase[t] = "released"
        /\ active' = [active EXCEPT ![c] = [active[c] EXCEPT ![id] = None]]
        /\ phase' = [phase EXCEPT ![t] = "removed"]
        /\ UNCHANGED <<conn, owner, name, cancelled, permit>>
    BY DEF RemoveActive, Move, serving
  <1>3. c \in Connections /\ id \in Ids /\ active[c][id] = t
    BY <1>1, <1>2 DEF Types, MapInv, Mapped, Live
  <1> HIDE DEF c, id
  <1>4. /\ active'[c][id] = None
        /\ \A d \in Connections, i \in Ids : <<d, i>> # <<c, id>> => active'[d][i] = active[d][i]
    BY <1>1, <1>2, <1>3 DEF Types
  <1>5. Types'
    <2>1. active' \in [Connections -> [Ids -> Tasks \cup {None}]]
      BY <1>1, <1>2 DEF Types
    <2> QED
      BY <1>1, <1>2, <2>1 DEF Types, Live
  <1>6. MapInv'
    <2>1. ASSUME NEW u \in Tasks, phase'[u] \in Mapped PROVE active'[owner'[u]][name'[u]] = u
      <3>1. u # t /\ phase[u] \in Mapped
        BY <1>1, <1>2, <2>1 DEF Types, Mapped
      <3>2. active[owner[u]][name[u]] = u /\ owner[u] \in Connections /\ name[u] \in Ids
        BY <1>1, <3>1 DEF MapInv, Types, Mapped, Live
      <3> QED
        BY <1>2, <1>3, <1>4, <3>1, <3>2
    <2>2. ASSUME NEW d \in Connections, NEW i \in Ids, active'[d][i] # None
          PROVE  LET u == active'[d][i]
                 IN  owner'[u] = d /\ name'[u] = i /\ phase'[u] \in Mapped \cup {"aborted"}
      <3>1. active'[d][i] = active[d][i] /\ active[d][i] \in Tasks
        BY <1>1, <1>4, <2>2 DEF Types
      <3>2. active[d][i] # t
        BY <1>1, <1>4, <2>2, <3>1 DEF MapInv, c, id
      <3> QED
        BY <1>1, <1>2, <2>2, <3>1, <3>2 DEF MapInv, Types
    <2> QED
      BY <1>1, <1>2, <2>1, <2>2 DEF MapInv, Types
  <1>7. PermitInv'
    BY <1>1, <1>2 DEF PermitInv, Types
  <1>8. DrainWaitsForTasks'
    BY <1>1, <1>2 DEF DrainWaitsForTasks, TasksOf, Types
  <1> QED
    BY <1>5, <1>6, <1>7, <1>8 DEF IInv

\* A task leaves the scene: it has sent Completed, or it is aborted with its
\* failed connection.
LEMMA LeavingKeepsIInv ==
    ASSUME IInv, NEW t \in Tasks, SendCompleted(t) \/ Abort(t) PROVE IInv'
  <1>1. Types /\ MapInv /\ PermitInv /\ DrainWaitsForTasks
    BY DEF IInv
  <1>2. UNCHANGED <<conn, active, owner, name, cancelled>>
    BY DEF SendCompleted, Abort, serving
  <1>3. \/ phase[t] = "removed" /\ phase' = [phase EXCEPT ![t] = "ended"] /\ permit' = permit
        \/ /\ phase[t] \in Suspended /\ conn[owner[t]] = "failed"
           /\ phase' = [phase EXCEPT ![t] = "aborted"] /\ permit' = permit \ {t}
    BY DEF SendCompleted, Abort, Move
  <1>4. Types'
    BY <1>1, <1>2, <1>3 DEF Types, Suspended, Live
  <1>5. MapInv'
    BY <1>1, <1>2, <1>3, NoneIsNoTask DEF Types, MapInv, Mapped, Live, Suspended
  <1>6. PermitInv'
    BY <1>1, <1>2, <1>3 DEF Types, PermitInv, Suspended
  <1>7. DrainWaitsForTasks'
    BY <1>1, <1>2, <1>3 DEF Types, DrainWaitsForTasks, TasksOf, Suspended
  <1> QED
    BY <1>4, <1>5, <1>6, <1>7 DEF IInv

LEMMA NextKeepsIInv == IInv /\ [Next]_vars => IInv'
  <1> SUFFICES ASSUME IInv, [Next]_vars PROVE IInv'
    OBVIOUS
  <1>0. Types /\ MapInv /\ PermitInv /\ DrainWaitsForTasks
    BY DEF IInv
  <1>1. ASSUME NEW c \in Connections,
               \/ HandshakeRequired(c) \/ DuplicateHello(c) \/ HelloAccepted(c) \/ ListTools(c)
               \/ \E id \in Ids : DuplicateExecution(c, id) \/ Cancel(c, id)
               \/ Writer(c) \/ WriterFails(c)
        PROVE  IInv'
    <2>1. UNCHANGED <<conn, active, phase, owner, name, permit>> /\ cancelled \subseteq cancelled'
      BY <1>1 DEF HandshakeRequired, DuplicateHello, HelloAccepted, ListTools, DuplicateExecution,
         Cancel, Writer, WriterWrites, WriterEnds, WriterFails, tasks, serving
    <2> QED
      BY <2>1, QuietKeepsIInv
  <1>2. ASSUME NEW c \in Connections, HelloRefused(c) \/ Shutdown(c) \/ EndOfStream(c) PROVE IInv'
    <2>1. /\ UNCHANGED <<active, phase, owner, name, permit>> /\ cancelled \subseteq cancelled'
          /\ conn[c] = "reading" /\ conn' = [conn EXCEPT ![c] = "draining"]
      BY <1>2 DEF HelloRefused, Shutdown, EndOfStream, Break, Receive, tasks
    <2> QED
      BY <2>1, ConnectionMovesOn DEF States
  <1>3. ASSUME NEW c \in Connections, FrameFailure(c) PROVE IInv'
    <2>1. /\ UNCHANGED <<active, phase, owner, name, permit, cancelled>>
          /\ conn[c] = "reading" /\ conn' = [conn EXCEPT ![c] = "failed"]
      BY <1>3 DEF FrameFailure, tasks
    <2> QED
      BY <2>1, ConnectionMovesOn DEF States
  <1>4. ASSUME NEW c \in Connections, Drained(c) PROVE IInv'
    <2>1. /\ UNCHANGED <<active, phase, owner, name, permit, cancelled>>
          /\ conn[c] = "draining" /\ conn' = [conn EXCEPT ![c] = "flushing"] /\ LiveTasks(c) = {}
      BY <1>4 DEF Drained, tasks
    <2>2. \A t \in TasksOf(c) : phase[t] = "ended" /\ t \notin permit
      BY <1>0, <2>1 DEF TasksOf, LiveTasks, Types, MapInv, PermitInv
    <2> QED
      BY <2>1, <2>2, ConnectionMovesOn DEF States
  <1>5. ASSUME NEW c \in Connections, Returned(c) PROVE IInv'
    <2>1. /\ UNCHANGED <<active, phase, owner, name, permit, cancelled>>
          /\ conn[c] = "flushing" /\ conn' = [conn EXCEPT ![c] = "returned"]
      BY <1>5 DEF Returned, tasks
    <2>2. \A t \in TasksOf(c) : phase[t] = "ended" /\ t \notin permit
      BY <1>0, <2>1 DEF DrainWaitsForTasks
    <2> QED
      BY <2>1, <2>2, ConnectionMovesOn DEF States
  <1>6. ASSUME NEW t \in Tasks,
               \/ AcquireGlobal(t) \/ WaitCancelled(t) \/ ExecutorAdmits(t) \/ ToolStarts(t)
               \/ ToolSucceeds(t) \/ ExecutorFails(t) \/ ReleaseGlobal(t)
        PROVE  IInv'
    <2> USE DEF Mapped, Live, Move
    <2>0. permit \subseteq Tasks
      BY <1>0 DEF PermitInv
    <2>1. UNCHANGED <<conn, active, owner, name, cancelled>>
      BY <1>6 DEF AcquireGlobal, WaitCancelled, ExecutorAdmits, ToolStarts, ToolSucceeds,
         ExecutorFails, ReleaseGlobal, serving
    <2>2. CASE AcquireGlobal(t)
      BY <2>0, <2>1, <2>2, TaskMovesOn DEF AcquireGlobal
    <2>3. CASE WaitCancelled(t)
      BY <2>0, <2>1, <2>3, TaskMovesOn DEF WaitCancelled
    <2>4. CASE ExecutorAdmits(t)
      <3>1. t \in permit
        BY <1>0, <2>4 DEF ExecutorAdmits, PermitInv
      <3> QED
        BY <2>0, <2>1, <2>4, <3>1, TaskMovesOn DEF ExecutorAdmits
    <2>5. CASE ToolStarts(t) \/ ToolSucceeds(t)
      <3>1. t \in permit
        BY <1>0, <2>5 DEF ToolStarts, ToolSucceeds, PermitInv
      <3> QED
        BY <2>0, <2>1, <2>5, <3>1, TaskMovesOn DEF ToolStarts, ToolSucceeds
    <2>6. CASE ExecutorFails(t)
      BY <2>0, <2>1, <2>6, TaskMovesOn DEF ExecutorFails
    <2>7. CASE ReleaseGlobal(t)
      BY <2>0, <2>1, <2>7, TaskMovesOn DEF ReleaseGlobal
    <2> QED
      BY <1>6, <2>2, <2>3, <2>4, <2>5, <2>6, <2>7
  <1>7. ASSUME NEW c \in Connections, NEW id \in Ids, Execute(c, id) PROVE IInv'
    BY <1>7, ExecuteKeepsIInv
  <1>8. ASSUME NEW t \in Tasks, RemoveActive(t) \/ SendCompleted(t) \/ Abort(t) PROVE IInv'
    BY <1>8, RemoveKeepsIInv, LeavingKeepsIInv
  <1>9. CASE UNCHANGED vars
    BY <1>9, QuietKeepsIInv DEF vars, serving, tasks
  <1> QED
    BY <1>1, <1>2, <1>3, <1>4, <1>5, <1>6, <1>7, <1>8, <1>9 DEF Next, ClientMessage, Teardown, TaskStep

\* The inductive invariant holds of every behaviour of the server.
THEOREM Invariance == Spec => []IInv
  BY InitIInv, NextKeepsIInv, PTL DEF Spec

\* The active map of a connection is exact, whatever is executed, cancelled,
\* finished or aborted: a cancel message reaches the execution it names.
THEOREM ActiveMapIsExact == Spec => []ActiveMapExact
  <1>1. ASSUME IInv PROVE ActiveMapExact
    <2>0. Types /\ MapInv
      BY <1>1 DEF IInv
    <2> SUFFICES ASSUME NEW c \in Connections, conn[c] # "failed"
                 PROVE  Registered(c) = {t \in LiveTasks(c) : phase[t] # "removed"}
      BY <2>0 DEF ActiveMapExact, MapInv
    <2>1. ASSUME NEW t \in Registered(c) PROVE t \in LiveTasks(c) /\ phase[t] # "removed"
      <3>1. PICK id \in Ids : t = active[c][id] /\ t # None
        BY <2>1 DEF Registered
      <3>2. t \in Tasks /\ owner[t] = c /\ phase[t] \in Mapped \cup {"aborted"}
        BY <2>0, <3>1 DEF Types, MapInv
      <3> QED
        BY <2>0, <3>2 DEF MapInv, LiveTasks, TasksOf, Mapped, Live
    <2>2. ASSUME NEW t \in LiveTasks(c), phase[t] # "removed" PROVE t \in Registered(c)
      <3>1. t \in Tasks /\ owner[t] = c /\ phase[t] \in Mapped /\ name[t] \in Ids
        BY <2>0, <2>2 DEF Types, LiveTasks, TasksOf, Mapped
      <3> QED
        BY <2>0, <3>1, NoneIsNoTask DEF MapInv, Registered
    <2> QED
      BY <2>1, <2>2
  <1> QED
    BY <1>1, Invariance, PTL

\* A connection that ends in an orderly way has waited for all its tasks (the
\* teardown of serve).
THEOREM DrainingWaits == Spec => []DrainWaitsForTasks
  <1>1. IInv => DrainWaitsForTasks
    BY DEF IInv
  <1> QED
    BY <1>1, Invariance, PTL

-----------------------------------------------------------------------------
\* Every step keeps the count of the permits in use.
LEMMA NextKeepsCount == CountInv /\ [Next]_vars => CountInv'
  <1> SUFFICES ASSUME CountInv, [Next]_vars PROVE CountInv'
    OBVIOUS
  <1>0. IsFiniteSet(permit) /\ Cardinality(permit) \in Nat /\ GlobalPermits \in Nat
        /\ Cardinality(permit) <= GlobalPermits
    BY FS_CardinalityType, BoundsAssumption DEF CountInv
  <1>1. ASSUME NEW t \in Tasks, AcquireGlobal(t) PROVE CountInv'
    <2>1. Cardinality(permit) < GlobalPermits /\ permit' = permit \cup {t}
      BY <1>1 DEF AcquireGlobal
    <2>2. /\ IsFiniteSet(permit')
          /\ Cardinality(permit') = IF t \in permit THEN Cardinality(permit) ELSE Cardinality(permit) + 1
      BY <1>0, <2>1, FS_AddElement
    <2>3. Cardinality(permit') \in Nat
      BY <2>2, FS_CardinalityType
    <2> QED
      BY <1>0, <2>1, <2>2, <2>3 DEF CountInv
  <1>2. ASSUME NEW t \in Tasks, ReleaseGlobal(t) \/ Abort(t) PROVE CountInv'
    <2>1. permit' \in SUBSET permit
      BY <1>2 DEF ReleaseGlobal, Abort
    <2>2. IsFiniteSet(permit') /\ Cardinality(permit') <= Cardinality(permit)
      BY <1>0, <2>1, FS_Subset
    <2>3. Cardinality(permit') \in Nat
      BY <2>2, FS_CardinalityType
    <2> QED
      BY <1>0, <2>2, <2>3 DEF CountInv
  <1>3. CASE permit' = permit
    BY <1>3 DEF CountInv
  <1>4. permit' = permit \/ \E t \in Tasks : AcquireGlobal(t) \/ ReleaseGlobal(t) \/ Abort(t)
    BY DEF Next, vars, ClientMessage, Teardown, Writer, TaskStep, HandshakeRequired, DuplicateHello,
       HelloRefused, HelloAccepted, DuplicateExecution, Execute, Cancel, ListTools, Shutdown, EndOfStream,
       FrameFailure, Drained, Returned, WriterWrites, WriterFails, WriterEnds, WaitCancelled,
       ExecutorAdmits, ToolStarts, ToolSucceeds, ExecutorFails, RemoveActive, SendCompleted
  <1> QED
    BY <1>1, <1>2, <1>3, <1>4

\* Over all connections, no more tools run than there are global permits,
\* although the executor is called without a permit for cancelled tasks.
THEOREM GlobalLimitHolds == Spec => []GlobalLimit
  <1>1. Init => CountInv
    BY FS_EmptySet, BoundsAssumption DEF Init, CountInv
  <1>2. ASSUME IInv, CountInv PROVE GlobalLimit
    <2>1. {t \in Tasks : phase[t] = "running"} \in SUBSET permit
      BY <1>2 DEF IInv, PermitInv
    <2>2. /\ IsFiniteSet({t \in Tasks : phase[t] = "running"})
          /\ Cardinality({t \in Tasks : phase[t] = "running"}) <= Cardinality(permit)
      BY <1>2, <2>1, FS_Subset DEF CountInv
    <2>3. /\ Cardinality({t \in Tasks : phase[t] = "running"}) \in Nat
          /\ Cardinality(permit) \in Nat /\ GlobalPermits \in Nat
      BY <1>2, <2>2, FS_CardinalityType, BoundsAssumption DEF CountInv
    <2> QED
      BY <1>2, <2>2, <2>3 DEF CountInv, GlobalLimit
  <1> QED
    BY <1>1, <1>2, NextKeepsCount, Invariance, PTL DEF Spec

-----------------------------------------------------------------------------
\* What Append makes of a tuple of known length.
LEMMA AppendTo1 ==
    ASSUME NEW S, NEW a \in S, NEW b \in S
    PROVE  Append(<<a>>, b) = <<a, b>>
  <1> DEFINE s == Append(<<a>>, b)
  <1> DEFINE t == <<a, b>>
  <1>1. s \in Seq(S) /\ Len(s) = 2 /\ s[1] = a /\ s[2] = b
    <2>1. <<a>> \in Seq(S) /\ Len(<<a>>) = 1
      OBVIOUS
    <2>2. <<a>>[1] = a
      OBVIOUS
    <2> QED
      BY <2>1, <2>2, AppendProperties
  <1>2. t \in Seq(S) /\ Len(t) = 2 /\ t[1] = a /\ t[2] = b
    OBVIOUS
  <1> HIDE DEF s, t
  <1>3. \A i \in 1..2 : s[i] = t[i]
    BY <1>1, <1>2
  <1>4. s = t
    BY <1>1, <1>2, <1>3, SeqEqual
  <1> QED
    BY <1>4 DEF s, t

LEMMA AppendTo2 ==
    ASSUME NEW S, NEW a \in S, NEW b \in S, NEW c \in S
    PROVE  Append(<<a, b>>, c) = <<a, b, c>>
  <1> DEFINE s == Append(<<a, b>>, c)
  <1> DEFINE t == <<a, b, c>>
  <1>1. s \in Seq(S) /\ Len(s) = 3 /\ s[1] = a /\ s[2] = b /\ s[3] = c
    <2>1. <<a, b>> \in Seq(S) /\ Len(<<a, b>>) = 2
      OBVIOUS
    <2>2. <<a, b>>[1] = a /\ <<a, b>>[2] = b
      OBVIOUS
    <2> QED
      BY <2>1, <2>2, AppendProperties
  <1>2. t \in Seq(S) /\ Len(t) = 3 /\ t[1] = a /\ t[2] = b /\ t[3] = c
    OBVIOUS
  <1> HIDE DEF s, t
  <1>3. \A i \in 1..3 : s[i] = t[i]
    BY <1>1, <1>2
  <1>4. s = t
    BY <1>1, <1>2, <1>3, SeqEqual
  <1> QED
    BY <1>4 DEF s, t

LEMMA AppendTo3 ==
    ASSUME NEW S, NEW a \in S, NEW b \in S, NEW c \in S, NEW d \in S
    PROVE  Append(<<a, b, c>>, d) = <<a, b, c, d>>
  <1> DEFINE s == Append(<<a, b, c>>, d)
  <1> DEFINE t == <<a, b, c, d>>
  <1>1. s \in Seq(S) /\ Len(s) = 4 /\ s[1] = a /\ s[2] = b /\ s[3] = c /\ s[4] = d
    <2>1. <<a, b, c>> \in Seq(S) /\ Len(<<a, b, c>>) = 3
      OBVIOUS
    <2>2. <<a, b, c>>[1] = a /\ <<a, b, c>>[2] = b /\ <<a, b, c>>[3] = c
      OBVIOUS
    <2> QED
      BY <2>1, <2>2, AppendProperties
  <1>2. t \in Seq(S) /\ Len(t) = 4 /\ t[1] = a /\ t[2] = b /\ t[3] = c /\ t[4] = d
    OBVIOUS
  <1> HIDE DEF s, t
  <1>3. \A i \in 1..4 : s[i] = t[i]
    BY <1>1, <1>2
  <1>4. s = t
    BY <1>1, <1>2, <1>3, SeqEqual
  <1> QED
    BY <1>4 DEF s, t

Kinds == {"accepted", "started", "failed", "completed"}

\* One more response takes a host from what it was told in one phase to what
\* it is told in the next.
LEMMA Responses ==
    /\ Append(<<>>, "accepted") \in ToldIn("waiting")
    /\ \A s \in ToldIn("admitted") : Append(s, "started") \in ToldIn("running")
    /\ \A s \in ToldIn("executing") \cup ToldIn("admitted") \cup ToldIn("running") :
          Append(s, "failed") \in ToldIn("returned")
    /\ \A s \in ToldIn("removed") : Append(s, "completed") \in ToldIn("ended")
  <1>0. "accepted" \in Kinds /\ "started" \in Kinds /\ "failed" \in Kinds /\ "completed" \in Kinds
    BY DEF Kinds
  <1>1. Append(<<>>, "accepted") \in ToldIn("waiting")
    BY DEF ToldIn
  <1>2. \A s \in ToldIn("admitted") : Append(s, "started") \in ToldIn("running")
    <2>1. ToldIn("admitted") = {<<"accepted">>} /\ ToldIn("running") = {<<"accepted", "started">>}
      BY DEF ToldIn
    <2>2. Append(<<"accepted">>, "started") = <<"accepted", "started">>
      BY <1>0, AppendTo1
    <2> QED
      BY <2>1, <2>2
  <1>3. \A s \in ToldIn("executing") \cup ToldIn("admitted") \cup ToldIn("running") :
          Append(s, "failed") \in ToldIn("returned")
    <2>1. /\ ToldIn("admitted") = {<<"accepted">>} /\ ToldIn("executing") = {<<"accepted">>}
          /\ ToldIn("running") = {<<"accepted", "started">>}
          /\ <<"accepted", "failed">> \in ToldIn("returned")
          /\ <<"accepted", "started", "failed">> \in ToldIn("returned")
      BY DEF ToldIn
    <2>2. Append(<<"accepted">>, "failed") = <<"accepted", "failed">>
      BY <1>0, AppendTo1
    <2>3. Append(<<"accepted", "started">>, "failed") = <<"accepted", "started", "failed">>
      BY <1>0, AppendTo2
    <2> QED
      BY <2>1, <2>2, <2>3
  <1>4. \A s \in ToldIn("removed") : Append(s, "completed") \in ToldIn("ended")
    <2>1. /\ ToldIn("removed") = {<<"accepted", "started">>, <<"accepted", "failed">>,
                                  <<"accepted", "started", "failed">>}
          /\ ToldIn("ended") = {<<"accepted", "started", "completed">>,
                                <<"accepted", "failed", "completed">>,
                                <<"accepted", "started", "failed", "completed">>}
      BY DEF ToldIn
    <2>2. Append(<<"accepted", "started">>, "completed") = <<"accepted", "started", "completed">>
      BY <1>0, AppendTo2
    <2>3. Append(<<"accepted", "failed">>, "completed") = <<"accepted", "failed", "completed">>
      BY <1>0, AppendTo2
    <2>4. Append(<<"accepted", "started", "failed">>, "completed")
            = <<"accepted", "started", "failed", "completed">>
      BY <1>0, AppendTo3
    <2> QED
      BY <2>1, <2>2, <2>3, <2>4
  <1> QED
    BY <1>1, <1>2, <1>3, <1>4

\* Without a response, the phases a task may go through agree on what was told.
LEMMA SilentMoves ==
    /\ ToldIn("waiting") = ToldIn("executing") /\ ToldIn("executing") = ToldIn("admitted")
    /\ ToldIn("running") \subseteq ToldIn("returned")
    /\ ToldIn("returned") = ToldIn("released") /\ ToldIn("released") = ToldIn("removed")
    /\ \A p \in Suspended : ToldIn(p) \subseteq ToldIn("aborted")
  BY DEF ToldIn, Suspended

LEMMA NextKeepsTold == IInv /\ ToldInv /\ [Next]_vars => ToldInv'
  <1> SUFFICES ASSUME Types, ToldInv, [Next]_vars PROVE ToldInv'
    BY DEF IInv
  <1>0. DOMAIN phase = Tasks
    BY DEF Types
  <1>1. ASSUME NEW t \in Tasks, NEW q, NEW s, phase' = [phase EXCEPT ![t] = q],
               told' = [told EXCEPT ![t] = s], s \in ToldIn(q)
        PROVE  ToldInv'
    BY <1>0, <1>1 DEF ToldInv
  <1>2. ASSUME NEW t \in Tasks, NEW q, phase' = [phase EXCEPT ![t] = q], told' = told,
               ToldIn(phase[t]) \subseteq ToldIn(q)
        PROVE  ToldInv'
    BY <1>0, <1>2 DEF ToldInv
  <1>3. ASSUME NEW c \in Connections, NEW id \in Ids, Execute(c, id) PROVE ToldInv'
    <2>1. PICK t \in Tasks : /\ phase[t] = "unused" /\ phase' = [phase EXCEPT ![t] = "waiting"]
                             /\ told' = [told EXCEPT ![t] = Append(told[t], "accepted")]
      BY <1>3 DEF Execute, Tell
    <2>2. told[t] = <<>>
      BY <2>1 DEF ToldInv, ToldIn
    <2>3. Append(told[t], "accepted") \in ToldIn("waiting")
      BY <2>2, Responses
    <2> QED
      BY <1>1, <2>1, <2>3
  <1>4. ASSUME NEW t \in Tasks, ToolStarts(t) PROVE ToldInv'
    <2>1. /\ phase[t] = "admitted" /\ phase' = [phase EXCEPT ![t] = "running"]
          /\ told' = [told EXCEPT ![t] = Append(told[t], "started")]
      BY <1>4 DEF ToolStarts, Tell, Move
    <2>2. Append(told[t], "started") \in ToldIn("running")
      BY <2>1, Responses DEF ToldInv
    <2> QED
      BY <1>1, <2>1, <2>2
  <1>5. ASSUME NEW t \in Tasks, ExecutorFails(t) PROVE ToldInv'
    <2>1. /\ phase[t] \in {"executing", "admitted", "running"}
          /\ phase' = [phase EXCEPT ![t] = "returned"]
          /\ told' = [told EXCEPT ![t] = Append(told[t], "failed")]
      BY <1>5 DEF ExecutorFails, Tell, Move
    <2>2. Append(told[t], "failed") \in ToldIn("returned")
      BY <2>1, Responses DEF ToldInv
    <2> QED
      BY <1>1, <2>1, <2>2
  <1>6. ASSUME NEW t \in Tasks, SendCompleted(t) PROVE ToldInv'
    <2>1. /\ phase[t] = "removed" /\ phase' = [phase EXCEPT ![t] = "ended"]
          /\ told' = [told EXCEPT ![t] = Append(told[t], "completed")]
      BY <1>6 DEF SendCompleted, Tell, Move
    <2>2. Append(told[t], "completed") \in ToldIn("ended")
      BY <2>1, Responses DEF ToldInv
    <2> QED
      BY <1>1, <2>1, <2>2
  <1>7. ASSUME NEW t \in Tasks,
               \/ AcquireGlobal(t) \/ WaitCancelled(t) \/ ExecutorAdmits(t) \/ ToolSucceeds(t)
               \/ ReleaseGlobal(t) \/ RemoveActive(t) \/ Abort(t)
        PROVE  ToldInv'
    <2>1. /\ told' = told
          /\ \E q \in {"executing", "admitted", "returned", "released", "removed", "aborted"} :
                phase' = [phase EXCEPT ![t] = q] /\ ToldIn(phase[t]) \subseteq ToldIn(q)
      BY <1>7, SilentMoves DEF AcquireGlobal, WaitCancelled, ExecutorAdmits, ToolSucceeds,
         ReleaseGlobal, RemoveActive, Abort, Move
    <2> QED
      BY <1>2, <2>1
  <1>8. CASE UNCHANGED <<phase, told>>
    BY <1>8 DEF ToldInv
  <1>9. \/ UNCHANGED <<phase, told>>
        \/ \E c \in Connections, id \in Ids : Execute(c, id)
        \/ \E t \in Tasks :
              \/ ToolStarts(t) \/ ExecutorFails(t) \/ SendCompleted(t) \/ AcquireGlobal(t)
              \/ WaitCancelled(t) \/ ExecutorAdmits(t) \/ ToolSucceeds(t) \/ ReleaseGlobal(t)
              \/ RemoveActive(t) \/ Abort(t)
    BY DEF Next, vars, tasks, ClientMessage, Teardown, Writer, TaskStep, HandshakeRequired,
       DuplicateHello, HelloRefused, HelloAccepted, DuplicateExecution, Cancel, ListTools, Shutdown,
       EndOfStream, FrameFailure, Drained, Returned, WriterWrites, WriterFails, WriterEnds
  <1> QED
    BY <1>3, <1>4, <1>5, <1>6, <1>7, <1>8, <1>9

\* The responses about an execution come in the order a host relies on: Accepted,
\* Started, Failed, Completed (serve and its observer).
THEOREM ResponsesComeInOrder == Spec => []ResponsesInOrder
  <1>1. Init => ToldInv
    BY DEF Init, ToldInv, ToldIn
  <1>2. ASSUME Types, ToldInv PROVE ResponsesInOrder
    <2> SUFFICES ASSUME NEW t \in Tasks, phase[t] # "unused"
                 PROVE  /\ told[t] \in {<<"accepted">>, <<"accepted", "started">>,
                              <<"accepted", "failed">>, <<"accepted", "started", "failed">>,
                              <<"accepted", "started", "completed">>,
                              <<"accepted", "failed", "completed">>,
                              <<"accepted", "started", "failed", "completed">>}
                        /\ phase[t] = "ended" <=> told[t][Len(told[t])] = "completed"
      BY DEF ResponsesInOrder
    <2>1. phase[t] \in Live \cup {"ended", "aborted"} /\ told[t] \in ToldIn(phase[t])
      BY <1>2 DEF Types, ToldInv
    <2>2. CASE phase[t] = "ended"
      <3>1. told[t] \in {<<"accepted", "started", "completed">>, <<"accepted", "failed", "completed">>,
                         <<"accepted", "started", "failed", "completed">>}
        BY <2>1, <2>2 DEF ToldIn
      <3>2. CASE told[t] = <<"accepted", "started", "completed">>
        BY <2>2, <3>2
      <3>3. CASE told[t] = <<"accepted", "failed", "completed">>
        BY <2>2, <3>3
      <3>4. CASE told[t] = <<"accepted", "started", "failed", "completed">>
        BY <2>2, <3>4
      <3> QED
        BY <3>1, <3>2, <3>3, <3>4
    <2>3. CASE phase[t] # "ended"
      <3>1. told[t] \in {<<"accepted">>, <<"accepted", "started">>,
                         <<"accepted", "failed">>, <<"accepted", "started", "failed">>}
        BY <2>1, <2>3 DEF ToldIn, Live
      <3> QED
        BY <2>3, <3>1
    <2> QED
      BY <2>2, <2>3
  <1>3. IInv => Types
    BY DEF IInv
  <1> QED
    BY <1>1, <1>2, <1>3, NextKeepsTold, Invariance, PTL DEF Spec
=============================================================================
