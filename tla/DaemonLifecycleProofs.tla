----------------------- MODULE DaemonLifecycleProofs -----------------------
(***************************************************************************)
(* Proofs about DaemonLifecycle for every set of process ids and of        *)
(* clients: the daemon can be found, `ensure-running' names it unless both *)
(* the id and the port of a dead one were taken again, and a connect fails *)
(* only because of what it asked for itself.                               *)
(***************************************************************************)
EXTENDS DaemonLifecycle, TLAPS

Kinds == {"none", "serve", "ensure", "stop"}
Labels == {"none", "lock", "bind", "temp", "rename", "serving", "read", "probe", "spawn", "reread",
           "reprobe", "check", "kill", "remove"}
Records == [pid : Pids \cup {0}, inst : Nat]
Processes == [kind : Kinds, at : Labels, inst : Nat, saw : Records, left : Nat,
              for : Clients \cup {"none", "user"}]
Places == {"idle", "cached", "ask", "wait", "dial", "up", "failed", "invalid"}
Calls == [at : Places, inst : Nat, fresh : BOOLEAN, refused : BOOLEAN]

\* The processes' side: what serve, ensure-running and stop keep.
ProcTypes ==
    /\ proc \in [Pids -> Processes]
    /\ file \in Records
    /\ serviceLock \in Pids \cup {0}
    /\ instances \in Nat

\* Nobody knows an instance that has not been started yet, so that the next
\* one is new to all of them.
ProcNumbers ==
    /\ file.inst <= instances
    /\ \A q \in Pids : proc[q].inst <= instances /\ proc[q].saw.inst <= instances

\* Only a holder of the service lock gets as far as having an instance.
ServiceInv ==
    \A q \in Pids :
        /\ Is(q, "serve", "bind") => serviceLock = q
        /\ proc[q].kind = "serve" /\ proc[q].at \in {"temp", "rename", "serving"} => proc[q].inst > 0
        /\ proc[q].inst > 0 => /\ serviceLock = q
                               /\ proc[q].kind = "serve"
                               /\ proc[q].at \in {"temp", "rename", "serving"}

\* A record of an instance that still runs, in the file or as somebody read
\* it, has its process id; a stop that read it has signalled that process
\* before it removes the file.
RecordInv ==
    \A r \in Pids : proc[r].inst > 0 =>
        /\ file.inst = proc[r].inst => file.pid = r
        /\ \A q \in Pids : proc[q].saw.inst = proc[r].inst =>
              proc[q].saw.pid = r /\ (Is(q, "stop", "remove") => r \in terminated)

PInv == ProcTypes /\ ProcNumbers /\ ServiceInv /\ RecordInv /\ DaemonFindable

\* The clients' side.
ClientTypes ==
    /\ client \in [Clients -> Calls]
    /\ cache \in Nat

ClientNumbers ==
    /\ cache <= instances
    /\ \A c \in Clients : client[c].inst <= instances

\* A command runs for a client that waits for it, and nobody else does.  A
\* connect that has asked has nothing from the cache left.
ClientInv ==
    /\ \A q \in Pids : proc[q].for \in Clients => client[proc[q].for].at = "wait"
    /\ \A q, r \in Pids : proc[q].for \in Clients /\ proc[q].for = proc[r].for => q = r
    /\ \A c \in Clients :
          /\ client[c].at \in {"ask", "wait"} => client[c].inst = 0
          /\ client[c].at \in {"wait", "dial", "failed"} => client[c].fresh

CInv == ClientTypes /\ ClientNumbers /\ ClientInv /\ FailedConnectIsFresh

LEMMA InitInv == Init => PInv /\ CInv
  BY LifecycleAssumption DEF Init, PInv, CInv, ProcTypes, ProcNumbers, ServiceInv, RecordInv,
     DaemonFindable, ClientTypes, ClientNumbers, ClientInv, FailedConnectIsFresh, NoState, NoProc,
     NoClient, Kinds, Labels, Records, Processes, Places, Calls, Is, Listening

-----------------------------------------------------------------------------
\* What a step means for the clients: an instance that did not listen does not
\* start to, unless it is a new one, and no process turns to another client.
Unheard ==
    /\ instances' \in Nat /\ instances <= instances'
    /\ \A q \in Pids : /\ proc'[q].inst \in {proc[q].inst, 0, instances + 1}
                       /\ proc'[q].for \in Clients => proc'[q].for = proc[q].for

LEMMA NoProcFacts ==
    /\ NoProc \in Processes /\ NoState \in Records
    /\ NoProc.inst = 0 /\ NoProc.kind = "none" /\ NoProc.at = "none" /\ NoProc.saw = NoState
    /\ NoState.inst = 0 /\ NoProc.for = "none" /\ NoProc.for \notin Clients
  BY LifecycleAssumption DEF NoProc, NoState, Processes, Records, Kinds, Labels

\* Processes without an instance may do whatever they like with themselves,
\* as long as a stop signals before it removes.
LEMMA QuietKeeps ==
    ASSUME PInv, proc' \in [Pids -> Processes], serviceLock' = serviceLock,
           UNCHANGED <<file, unrecorded, instances>>, terminated \subseteq terminated',
           \A q \in Pids : proc'[q] = proc[q] \/
              /\ proc[q].inst = 0 /\ proc'[q].inst = 0
              /\ proc'[q].kind = "serve" => proc'[q].at = "lock"
              /\ proc'[q].saw \in {proc[q].saw, file, NoState}
              /\ proc'[q].kind = "stop" /\ proc'[q].at = "remove" =>
                    \A r \in Pids : proc[r].inst > 0 /\ proc[r].inst = proc'[q].saw.inst => r \in terminated'
    PROVE  PInv'
  <1>1. ProcTypes'
    BY DEF PInv, ProcTypes
  <1>2. ProcNumbers'
    BY NoProcFacts, <1>1 DEF PInv, ProcTypes, ProcNumbers, Processes, Records
  <1>3. ServiceInv'
    BY <1>1 DEF PInv, ProcTypes, ServiceInv, Is, Processes
  <1>4. \A r \in Pids : proc'[r].inst > 0 => proc'[r] = proc[r] /\ proc[r].inst \in Nat
    BY DEF PInv, ProcTypes, Processes
  <1>5. RecordInv'
    BY <1>4, NoProcFacts DEF PInv, ProcTypes, RecordInv, Is, Processes, Records
  <1>6. DaemonFindable'
    BY <1>4 DEF PInv, ServiceInv, DaemonFindable
  <1> QED
    BY <1>1, <1>2, <1>3, <1>5, <1>6 DEF PInv

LEMMA ExitKeeps ==
    ASSUME PInv, NEW q \in Pids, Exits(q), UNCHANGED <<file, unrecorded, instances>>
    PROVE  PInv' /\ Unheard
  <1>1. /\ proc' \in [Pids -> Processes] /\ proc'[q] = NoProc
        /\ \A r \in Pids \ {q} : proc'[r] = proc[r] /\ (r \in terminated => r \in terminated')
    BY NoProcFacts DEF PInv, ProcTypes, Exits
  <1>2. serviceLock' \in Pids \cup {0} /\ (serviceLock # q => serviceLock' = serviceLock)
    BY DEF PInv, ProcTypes, Exits, Free
  <1>3. ProcTypes' /\ Unheard
    BY <1>1, <1>2, NoProcFacts DEF PInv, ProcTypes, Unheard
  <1>4. ProcNumbers'
    BY <1>1, NoProcFacts DEF PInv, ProcTypes, ProcNumbers
  <1>5. ServiceInv'
    BY <1>1, <1>2, NoProcFacts DEF PInv, ServiceInv, Is
  <1>6. RecordInv'
    BY <1>1, NoProcFacts DEF PInv, RecordInv, Is
  <1>7. DaemonFindable'
    BY <1>1, <1>2, NoProcFacts DEF PInv, DaemonFindable
  <1> QED
    BY <1>3, <1>4, <1>5, <1>6, <1>7 DEF PInv

\* A serve on its way to the state file.
LEMMA ServeKeeps ==
    ASSUME PInv, NEW q \in Pids, Serve(q)
    PROVE  PInv' /\ Unheard
  <1> DEFINE Ends == Exits(q) /\ UNCHANGED <<file, unrecorded, instances>>
  <1>0. /\ proc \in [Pids -> Processes] /\ file \in Records /\ serviceLock \in Pids \cup {0}
        /\ instances \in Nat /\ q # 0
    BY LifecycleAssumption DEF PInv, ProcTypes
  <1>1. CASE LockService(q) /\ ~Ends
    <2>1. /\ serviceLock = 0 /\ serviceLock' = q /\ Is(q, "serve", "lock")
          /\ proc' = [proc EXCEPT ![q].at = "bind"]
          /\ UNCHANGED <<file, terminated, unrecorded, instances>>
      BY <1>1 DEF LockService, state, bounds
    <2>2. /\ proc' \in [Pids -> Processes] /\ proc'[q] = [proc[q] EXCEPT !.at = "bind"]
          /\ \A r \in Pids \ {q} : proc'[r] = proc[r]
      BY <1>0, <2>1 DEF Processes, Labels
    <2>3. /\ proc'[q].at = "bind" /\ proc'[q].kind = "serve" /\ proc'[q].inst = proc[q].inst
          /\ proc'[q].saw = proc[q].saw /\ proc'[q].for = proc[q].for
      BY <1>0, <2>1, <2>2 DEF Processes, Is
    <2>4. \A r \in Pids : proc[r].inst = 0 /\ proc'[r].inst = 0
      BY <1>0, <2>1, <2>2, <2>3, LifecycleAssumption DEF PInv, ServiceInv, Processes
    <2>5. ServiceInv'
      BY <1>0, <2>1, <2>2, <2>3, <2>4, LifecycleAssumption DEF PInv, ServiceInv, Is
    <2> QED
      BY <1>0, <2>1, <2>2, <2>3, <2>4, <2>5
      DEF PInv, ProcTypes, ProcNumbers, RecordInv, DaemonFindable, Unheard
  <1>2. CASE Bind(q) /\ ~Ends
    <2>1. /\ instances' = instances + 1 /\ Is(q, "serve", "bind")
          /\ proc' = [proc EXCEPT ![q].inst = instances', ![q].at = "temp"]
          /\ UNCHANGED <<file, serviceLock, terminated, unrecorded>>
      BY <1>2 DEF Bind, state, locks, bounds
    <2>0. proc' = [proc EXCEPT ![q] = [proc[q] EXCEPT !.inst = instances + 1, !.at = "temp"]]
      BY <1>0, <2>1 DEF Processes
    <2>2. /\ proc' \in [Pids -> Processes]
          /\ proc'[q] = [proc[q] EXCEPT !.inst = instances + 1, !.at = "temp"]
          /\ \A r \in Pids \ {q} : proc'[r] = proc[r]
      <3> DEFINE p == [proc[q] EXCEPT !.inst = instances + 1, !.at = "temp"]
      <3>0. \A n \in Nat, r \in Processes : [r EXCEPT !.inst = n, !.at = "temp"] \in Processes
        BY DEF Processes, Labels
      <3>4. proc[q] \in Processes /\ instances + 1 \in Nat
        BY <1>0
      <3>1. p \in Processes
        BY <3>0, <3>4, Zenon
      <3> HIDE DEF p
      <3>2. proc' = [proc EXCEPT ![q] = p]
        BY <2>0 DEF p
      <3>3. proc' \in [Pids -> Processes] /\ proc'[q] = p /\ \A r \in Pids \ {q} : proc'[r] = proc[r]
        BY <1>0, <3>1, <3>2
      <3> QED
        BY <3>3 DEF p
    <2>3. /\ proc'[q].at = "temp" /\ proc'[q].kind = "serve" /\ proc'[q].inst = instances + 1
          /\ proc'[q].saw = proc[q].saw /\ proc'[q].for = proc[q].for
      BY <1>0, <2>1, <2>2 DEF Processes, Is
    <2>4. /\ \A r \in Pids \ {q} : proc[r].inst = 0 /\ proc'[r].inst = 0
          /\ \A r \in Pids : proc[r].saw.inst \in Nat /\ proc[r].inst \in Nat
      BY <1>0, <2>1, <2>2, LifecycleAssumption DEF PInv, ServiceInv, Processes, Records
    <2>5. ServiceInv' /\ serviceLock' = q
      BY <1>0, <2>1, <2>2, <2>3, <2>4, LifecycleAssumption DEF PInv, ServiceInv, Is
    <2>6. ProcNumbers' /\ ProcTypes'
      BY <1>0, <2>1, <2>2, <2>3, <2>4 DEF PInv, ProcNumbers, ProcTypes, Records
    <2>7. \A r \in Pids : proc'[r].inst > 0 => /\ r = q /\ file'.inst # proc'[r].inst
                                               /\ \A p \in Pids : proc'[p].saw.inst # proc'[r].inst
      BY <1>0, <2>1, <2>2, <2>3, <2>4 DEF PInv, ProcNumbers, Records
    <2> QED
      BY <1>0, <2>1, <2>2, <2>3, <2>4, <2>5, <2>6, <2>7
      DEF PInv, RecordInv, DaemonFindable, Unheard
  <1>3. CASE WriteTemporary(q) /\ ~Ends
    <2>1. /\ Is(q, "serve", "temp") /\ proc' = [proc EXCEPT ![q].at = "rename"]
          /\ UNCHANGED <<file, serviceLock, terminated, unrecorded, instances>>
      BY <1>3 DEF WriteTemporary, Step, locks, bounds
    <2>2. /\ proc' \in [Pids -> Processes] /\ proc'[q] = [proc[q] EXCEPT !.at = "rename"]
          /\ \A r \in Pids \ {q} : proc'[r] = proc[r]
      BY <1>0, <2>1 DEF Processes, Labels
    <2>3. /\ proc'[q].at = "rename" /\ proc'[q].kind = "serve" /\ proc'[q].inst = proc[q].inst
          /\ proc'[q].saw = proc[q].saw /\ proc'[q].for = proc[q].for
      BY <1>0, <2>1, <2>2 DEF Processes, Is
    <2>4. ServiceInv' /\ RecordInv'
      BY <1>0, <2>1, <2>2, <2>3 DEF PInv, ServiceInv, RecordInv, Is
    <2> QED
      BY <1>0, <2>1, <2>2, <2>3, <2>4
      DEF PInv, ProcTypes, ProcNumbers, DaemonFindable, Unheard, Is
  <1>4. CASE WriteState(q)
    <2>1. /\ Is(q, "serve", "rename") /\ proc' = [proc EXCEPT ![q].at = "serving"]
          /\ file' = [pid |-> q, inst |-> proc[q].inst]
          /\ UNCHANGED <<serviceLock, terminated, unrecorded, instances>>
      BY <1>4 DEF WriteState, Step, locks, bounds
    <2>2. /\ proc' \in [Pids -> Processes] /\ proc'[q] = [proc[q] EXCEPT !.at = "serving"]
          /\ \A r \in Pids \ {q} : proc'[r] = proc[r]
      BY <1>0, <2>1 DEF Processes, Labels
    <2>3. /\ proc'[q].at = "serving" /\ proc'[q].kind = "serve" /\ proc'[q].inst = proc[q].inst
          /\ proc'[q].saw = proc[q].saw /\ proc'[q].for = proc[q].for
      BY <1>0, <2>1, <2>2 DEF Processes, Is
    <2>4. file' \in Records /\ file'.pid = q /\ file'.inst = proc[q].inst
      BY <1>0, <2>1 DEF Processes, Records
    <2>5. serviceLock = q /\ \A r \in Pids : proc[r].inst > 0 => r = q
      BY <2>1 DEF PInv, ServiceInv, Is
    <2>6. ServiceInv' /\ RecordInv'
      BY <1>0, <2>1, <2>2, <2>3, <2>4, <2>5 DEF PInv, ServiceInv, RecordInv, Is
    <2>7. DaemonFindable'
      BY <1>0, <2>1, <2>2, <2>3, <2>5 DEF DaemonFindable
    <2> QED
      BY <1>0, <2>1, <2>2, <2>3, <2>4, <2>6, <2>7
      DEF PInv, ProcTypes, ProcNumbers, Unheard, Is
  <1>5. CASE Ends
    BY <1>5, ExitKeeps
  <1> QED
    BY <1>1, <1>2, <1>3, <1>4, <1>5 DEF Serve

\* The record a stop removes is one that it has read, and whose daemon it has
\* signalled, or it counts as unrecorded.
LEMMA StopRemovesKeeps ==
    ASSUME PInv, NEW q \in Pids, StopRemoves(q)
    PROVE  PInv' /\ Unheard
  <1>0. /\ proc \in [Pids -> Processes] /\ file \in Records /\ serviceLock \in Pids \cup {0}
        /\ instances \in Nat
    BY DEF PInv, ProcTypes
  <1>1. /\ Is(q, "stop", "remove") /\ file' = NoState /\ instances' = instances
        /\ unrecorded' = unrecorded \cup ({file.inst} \ {0, proc[q].saw.inst}) /\ Exits(q)
    BY DEF StopRemoves, bounds
  <1>2. /\ proc' \in [Pids -> Processes] /\ proc'[q] = NoProc
        /\ \A r \in Pids \ {q} : proc'[r] = proc[r] /\ (r \in terminated => r \in terminated')
    BY <1>0, <1>1, NoProcFacts DEF Exits
  <1>3. serviceLock' \in Pids \cup {0} /\ (serviceLock # q => serviceLock' = serviceLock)
    BY <1>0, <1>1 DEF Exits, Free
  <1>4. ProcTypes' /\ Unheard
    BY <1>0, <1>1, <1>2, <1>3, NoProcFacts DEF ProcTypes, Unheard
  <1>5. ProcNumbers'
    BY <1>0, <1>1, <1>2, NoProcFacts DEF PInv, ProcNumbers
  <1>6. ServiceInv'
    BY <1>2, <1>3, NoProcFacts DEF PInv, ServiceInv, Is
  <1>7. RecordInv'
    BY <1>1, <1>2, NoProcFacts DEF PInv, RecordInv, Is
  <1>8. DaemonFindable'
    <2> SUFFICES ASSUME NEW r \in Pids, proc'[r].inst > 0
                 PROVE  /\ serviceLock' = r
                        /\ proc'[r].at = "serving" =>
                              r \in terminated' \/ proc'[r].inst \in unrecorded'
      BY DEF DaemonFindable
    <2>1. r # q /\ proc'[r] = proc[r] /\ serviceLock = r /\ proc[r].inst \in Nat
      BY <1>0, <1>2, NoProcFacts DEF PInv, DaemonFindable, Processes
    <2>2. CASE file = [pid |-> r, inst |-> proc[r].inst]
      <3>1. proc[r].inst = proc[q].saw.inst => r \in terminated'
        BY <1>1, <1>2, <2>1 DEF PInv, RecordInv
      <3> QED
        BY <1>1, <1>3, <2>1, <2>2, <3>1
    <2> QED
      BY <1>1, <1>2, <1>3, <2>1, <2>2 DEF PInv, DaemonFindable
  <1> QED
    BY <1>4, <1>5, <1>6, <1>7, <1>8 DEF PInv

\* A step of a process to another label, which keeps all else of it.
LEMMA Relabel ==
    ASSUME NEW r \in Processes, NEW label \in Labels
    PROVE  LET p == [r EXCEPT !.at = label]
           IN  /\ p \in Processes /\ p.at = label /\ p.kind = r.kind /\ p.inst = r.inst
               /\ p.saw = r.saw /\ p.for = r.for
  BY DEF Processes

LEMMA NewFacts ==
    ASSUME NEW kind \in {"serve", "ensure", "stop"}, NEW f \in Clients \cup {"none", "user"}
    PROVE  /\ New(kind, f) \in Processes /\ New(kind, f).inst = 0 /\ New(kind, f).saw = NoState
           /\ New(kind, f).at = "lock" /\ New(kind, f).kind = kind /\ New(kind, f).for = f
  BY NoProcFacts DEF New, NoProc, Processes, Kinds, Labels

\* A process that starts.
LEMMA LaunchKeeps ==
    ASSUME PInv, NEW q \in Pids, ~Alive(q), NEW kind \in {"serve", "ensure", "stop"},
           NEW f \in Clients \cup {"none", "user"}, proc' = [proc EXCEPT ![q] = New(kind, f)],
           UNCHANGED <<file, locks, terminated, unrecorded, instances>>
    PROVE  PInv'
  <1>1. /\ proc' \in [Pids -> Processes] /\ proc'[q] = New(kind, f)
        /\ \A r \in Pids \ {q} : proc'[r] = proc[r]
    BY NewFacts DEF PInv, ProcTypes
  <1>2. proc[q].inst = 0
    BY NoProcFacts DEF Alive
  <1> QED
    BY <1>1, <1>2, NewFacts, QuietKeeps DEF locks

\* One step of ensure-running or stop that is not its last one.
LEMMA CommandKeeps ==
    ASSUME PInv, NEW q \in Pids, proc[q].kind # "serve", NEW p \in Processes,
           proc' = [proc EXCEPT ![q] = p], p.kind = proc[q].kind, p.inst = proc[q].inst,
           p.for = proc[q].for, p.saw \in {proc[q].saw, file},
           p.kind = "stop" /\ p.at = "remove" =>
              \A r \in Pids : proc[r].inst > 0 /\ proc[r].inst = p.saw.inst => r \in terminated',
           terminated \subseteq terminated', serviceLock' = serviceLock,
           UNCHANGED <<file, unrecorded, instances>>
    PROVE  PInv' /\ Unheard
  <1>1. /\ proc' \in [Pids -> Processes] /\ proc'[q] = p
        /\ \A r \in Pids \ {q} : proc'[r] = proc[r]
    BY DEF PInv, ProcTypes
  <1>2. proc[q].inst = 0 /\ instances \in Nat
    BY DEF PInv, ProcTypes, ServiceInv, Processes
  <1>3. PInv'
    BY <1>1, <1>2, QuietKeeps
  <1> QED
    BY <1>1, <1>2, <1>3 DEF Unheard

LEMMA LockStateKeeps ==
    ASSUME PInv, NEW q \in Pids, LockState(q)
    PROVE  PInv' /\ Unheard
  <1> DEFINE p == [proc[q] EXCEPT !.at = "read"]
  <1>1. /\ p \in Processes /\ p.at = "read" /\ p.kind = proc[q].kind /\ p.inst = proc[q].inst
        /\ p.saw = proc[q].saw /\ p.for = proc[q].for
    BY Relabel DEF PInv, ProcTypes, Labels
  <1>2. proc' = [proc EXCEPT ![q] = p]
    BY DEF LockState
  <1> HIDE DEF p
  <1> QED
    BY <1>1, <1>2, CommandKeeps DEF LockState, state, bounds

LEMMA ReadStateKeeps ==
    ASSUME PInv, NEW q \in Pids, ReadState(q)
    PROVE  PInv' /\ Unheard
  <1>0. proc \in [Pids -> Processes] /\ file \in Records
    BY DEF PInv, ProcTypes
  <1>1. CASE proc[q].at = "read"
    <2> DEFINE p == [proc[q] EXCEPT !.saw = file, !.at = "probe"]
    <2>1. /\ p \in Processes /\ p.at = "probe" /\ p.kind = proc[q].kind /\ p.inst = proc[q].inst
          /\ p.saw = file /\ p.for = proc[q].for
      BY <1>0 DEF Processes, Labels
    <2>2. proc' = [proc EXCEPT ![q] = p]
      BY <1>0, <1>1 DEF ReadState
    <2> HIDE DEF p
    <2> QED
      BY <2>1, <2>2, CommandKeeps DEF ReadState, state, bounds, locks
  <1>2. CASE proc[q].at # "read"
    <2> DEFINE n == proc[q].left - 1
    <2>1. n \in Nat
      BY <1>0, <1>2 DEF ReadState, Processes
    <2> HIDE DEF n
    <2> DEFINE p == [proc[q] EXCEPT !.saw = file, !.at = "reprobe", !.left = n]
    <2>2. /\ p \in Processes /\ p.at = "reprobe" /\ p.kind = proc[q].kind /\ p.inst = proc[q].inst
          /\ p.saw = file /\ p.for = proc[q].for
      BY <1>0, <2>1 DEF Processes, Labels
    <2>3. proc' = [proc EXCEPT ![q] = p]
      BY <1>0, <1>2 DEF ReadState, n
    <2> HIDE DEF p
    <2> QED
      BY <2>2, <2>3, CommandKeeps DEF ReadState, state, bounds, locks
  <1> QED
    BY <1>1, <1>2

LEMMA ProbeKeeps ==
    ASSUME PInv, NEW q \in Pids, Probe(q)
    PROVE  PInv' /\ Unheard
  <1>1. CASE Exits(q)
    BY <1>1, ExitKeeps DEF Probe, state, bounds
  <1>2. CASE ~Exits(q)
    <2> DEFINE label == IF proc[q].at = "probe" THEN "spawn" ELSE "reread"
    <2>0. label \in Labels
      BY DEF Labels
    <2> HIDE DEF label
    <2> DEFINE p == [proc[q] EXCEPT !.at = label]
    <2>1. /\ p \in Processes /\ p.at = label /\ p.kind = proc[q].kind /\ p.inst = proc[q].inst
          /\ p.saw = proc[q].saw /\ p.for = proc[q].for
      BY <2>0, Relabel DEF PInv, ProcTypes
    <2>2. proc' = [proc EXCEPT ![q] = p] /\ p.at # "remove"
      BY <1>2, <2>1 DEF Probe, Step, label
    <2> HIDE DEF p
    <2> QED
      BY <1>2, <2>1, <2>2, CommandKeeps DEF Probe, Step, state, bounds, locks
  <1> QED
    BY <1>1, <1>2

LEMMA StopKeeps ==
    ASSUME PInv, NEW q \in Pids, Stop(q)
    PROVE  PInv' /\ Unheard
  <1>0. proc \in [Pids -> Processes] /\ file \in Records
    BY DEF PInv, ProcTypes
  <1>1. CASE StopReads(q) /\ ~Exits(q)
    <2> DEFINE p == [proc[q] EXCEPT !.saw = file, !.at = "check"]
    <2>1. /\ p \in Processes /\ p.at = "check" /\ p.kind = proc[q].kind /\ p.inst = proc[q].inst
          /\ p.saw = file /\ p.for = proc[q].for
      BY <1>0 DEF Processes, Labels
    <2>2. proc' = [proc EXCEPT ![q] = p]
      BY <1>0, <1>1 DEF StopReads
    <2> HIDE DEF p
    <2> QED
      BY <1>1, <2>1, <2>2, CommandKeeps DEF StopReads, state, bounds, locks, Is
  <1>2. CASE StopReads(q) /\ Exits(q)
    BY <1>2, ExitKeeps DEF StopReads, state, bounds
  <1>3. CASE StopChecks(q)
    <2> DEFINE label == IF IsDaemon(proc[q].saw) THEN "kill" ELSE "remove"
    <2>0. label \in Labels
      BY DEF Labels
    <2> HIDE DEF label
    <2> DEFINE p == [proc[q] EXCEPT !.at = label]
    <2>1. /\ p \in Processes /\ p.at = label /\ p.kind = proc[q].kind /\ p.inst = proc[q].inst
          /\ p.saw = proc[q].saw /\ p.for = proc[q].for
      BY <2>0, Relabel DEF PInv, ProcTypes
    <2>2. proc' = [proc EXCEPT ![q] = p]
      BY <1>3 DEF StopChecks, Step, label
    <2>3. p.at = "remove" => \A r \in Pids : proc[r].inst > 0 => proc[r].inst # p.saw.inst
      BY <2>1, NoProcFacts DEF PInv, RecordInv, IsDaemon, Alive, label
    <2> HIDE DEF p
    <2> QED
      BY <1>3, <2>1, <2>2, <2>3, CommandKeeps DEF StopChecks, Step, state, bounds, locks, Is
  <1>4. CASE StopSignals(q)
    <2> DEFINE p == [proc[q] EXCEPT !.at = "remove"]
    <2>1. /\ p \in Processes /\ p.at = "remove" /\ p.kind = proc[q].kind /\ p.inst = proc[q].inst
          /\ p.saw = proc[q].saw /\ p.for = proc[q].for
      BY Relabel DEF PInv, ProcTypes, Labels
    <2>2. proc' = [proc EXCEPT ![q] = p]
      BY <1>4 DEF StopSignals
    <2>3. \A r \in Pids : proc[r].inst > 0 /\ proc[r].inst = p.saw.inst => r \in terminated'
      BY <1>4, <2>1, NoProcFacts DEF StopSignals, PInv, RecordInv, Alive
    <2> HIDE DEF p
    <2> QED
      BY <1>4, <2>1, <2>2, <2>3, CommandKeeps DEF StopSignals, state, bounds, locks, Is
  <1> QED
    BY <1>1, <1>2, <1>3, <1>4, StopRemovesKeeps DEF Stop

LEMMA SpawnKeeps ==
    ASSUME PInv, NEW q \in Pids, Spawn(q)
    PROVE  PInv' /\ Unheard
  <1>0. proc \in [Pids -> Processes] /\ instances \in Nat
    BY DEF PInv, ProcTypes
  <1>1. CASE Exits(q)
    BY <1>1, ExitKeeps DEF Spawn, state, bounds
  <1>2. CASE ~Exits(q)
    <2>1. PICK r \in Pids :
             /\ ~Alive(r)
             /\ proc' = [proc EXCEPT ![r] = New("serve", "none"), ![q].at = "reread", ![q].left = Polls]
      BY <1>2 DEF Spawn
    <2>2. r # q /\ proc[q].inst = 0 /\ proc[q].kind = "ensure" /\ proc[r].inst = 0
      <3>1. proc[q].kind = "ensure" /\ proc[r] = NoProc
        BY <2>1 DEF Spawn, Is, Alive
      <3>2. proc[q].inst \in Nat /\ ~(proc[q].inst > 0)
        BY <1>0, <3>1 DEF PInv, ServiceInv, Processes
      <3> QED
        BY <3>1, <3>2, NoProcFacts
    <2> DEFINE p == [proc[q] EXCEPT !.at = "reread", !.left = Polls]
    <2>3. /\ p \in Processes /\ p.at = "reread" /\ p.kind = proc[q].kind /\ p.inst = proc[q].inst
          /\ p.saw = proc[q].saw /\ p.for = proc[q].for
      BY <1>0, LifecycleAssumption DEF Processes, Labels
    <2>4. /\ proc'[q] = p /\ proc'[r] = New("serve", "none")
          /\ \A u \in Pids \ {q, r} : proc'[u] = proc[u]
          /\ DOMAIN proc' = Pids /\ proc' = [u \in Pids |-> proc'[u]]
      BY <1>0, <2>1, <2>2
    <2> HIDE DEF p
    <2>5. /\ New("serve", "none") \in Processes /\ New("serve", "none").inst = 0
          /\ New("serve", "none").saw = NoState /\ New("serve", "none").for \notin Clients
          /\ New("serve", "none").at = "lock"
      BY NewFacts, LifecycleAssumption
    <2>6. proc' \in [Pids -> Processes]
      BY <1>0, <2>3, <2>4, <2>5
    <2>7. UNCHANGED <<file, unrecorded, instances, serviceLock, terminated>>
      BY <1>2 DEF Spawn, state, bounds, locks
    <2>8. PInv'
      BY <2>2, <2>3, <2>4, <2>5, <2>6, <2>7, QuietKeeps
    <2> QED
      BY <1>0, <2>2, <2>3, <2>4, <2>5, <2>7, <2>8 DEF Unheard
  <1> QED
    BY <1>1, <1>2

\* A process that ends before it has an answer.
LEMMA EndKeeps ==
    ASSUME PInv, NEW q \in Pids, Terminates(q) \/ Crash(q) \/ GiveUp(q)
    PROVE  PInv' /\ Unheard
  BY ExitKeeps DEF Terminates, Crash, GiveUp, state, bounds

LEMMA RunsKeeps ==
    ASSUME PInv, NEW q \in Pids, Runs(q) \/ Terminates(q) \/ Crash(q)
    PROVE  PInv' /\ Unheard
  BY ServeKeeps, LockStateKeeps, ReadStateKeeps, ProbeKeeps, SpawnKeeps, EndKeeps, StopKeeps
     DEF Runs, Ensure

\* A step that changes nothing on the processes' side.
LEMMA IdleKeeps ==
    ASSUME PInv, UNCHANGED <<proc, state, locks, terminated, unrecorded, instances>>
    PROVE  PInv' /\ Unheard
  <1>1. UNCHANGED <<proc, file, serviceLock, terminated, unrecorded, instances>>
    BY DEF state, locks
  <1> QED
    BY <1>1 DEF PInv, ProcTypes, ProcNumbers, ServiceInv, RecordInv, DaemonFindable, Is, Unheard

LEMMA NextKeepsProcesses == PInv /\ [Next]_vars => PInv'
  <1> SUFFICES ASSUME PInv, [Next]_vars PROVE PInv'
    OBVIOUS
  <1>1. ASSUME NEW q \in Pids, NEW kind \in {"serve", "ensure", "stop"}, Launch(q, kind) PROVE PInv'
    BY <1>1, LaunchKeeps DEF Launch, state
  <1>2. ASSUME NEW c \in Clients, AskGuest(c) PROVE PInv'
    BY <1>2, LaunchKeeps DEF AskGuest, state, bounds
  <1>3. ASSUME NEW c \in Clients, Connect(c) \/ DialCached(c) \/ Dial(c) PROVE PInv'
    BY <1>3, IdleKeeps DEF Connect, DialCached, Dial, bounds
  <1>5. ASSUME NEW i \in 1..instances, PortChanges(i) PROVE PInv'
    BY <1>5, IdleKeeps DEF PortChanges, bounds
  <1>4. CASE UNCHANGED vars
    BY <1>4, IdleKeeps DEF vars, bounds
  <1> QED
    BY <1>1, <1>2, <1>3, <1>4, <1>5, RunsKeeps DEF Next, Connects

-----------------------------------------------------------------------------
\* There is one daemon, and it can be found while it serves (run_tcp, which holds
\* the service lock and writes the state file), unless a stop removed its record.
THEOREM DaemonIsFindable == Spec => []DaemonFindable
  <1>1. PInv => DaemonFindable
    BY DEF PInv
  <1> QED
    BY <1>1, InitInv, NextKeepsProcesses, PTL DEF Spec

-----------------------------------------------------------------------------
\* An instance that is known and does not listen never listens again.
LEMMA SilenceStays ==
    ASSUME PInv, PInv', Unheard, NEW i \in Nat, i <= instances, ~Listening(i)
    PROVE  ~Listening(i)'
  <1>1. ASSUME NEW q \in Pids, proc'[q].inst = i, i > 0 PROVE FALSE
    <2>1. proc'[q].inst = proc[q].inst /\ instances \in Nat
      BY <1>1 DEF Unheard, PInv, ProcTypes
    <2>2. proc[q].kind = "serve"
      BY <1>1, <2>1 DEF PInv, ServiceInv
    <2> QED
      BY <1>1, <2>1, <2>2 DEF Listening
  <1> QED
    BY <1>1 DEF Listening

\* The clients notice nothing of a step that does not tell them.
LEMMA QuietForClients ==
    ASSUME PInv, PInv', CInv, Unheard, UNCHANGED clients
    PROVE  CInv'
  <1>0. UNCHANGED <<cache, client>> /\ instances \in Nat
    BY DEF clients, PInv, ProcTypes
  <1>1. ClientTypes' /\ ClientNumbers'
    BY <1>0 DEF CInv, ClientTypes, ClientNumbers, Unheard, Calls
  <1>2. ClientInv'
    BY <1>0 DEF CInv, ClientInv, Unheard
  <1>3. FailedConnectIsFresh'
    <2> SUFFICES ASSUME NEW c \in Clients, client[c].at = "failed"
                 PROVE  client[c].fresh /\ (client[c].refused \/ ~Listening(client[c].inst)')
      BY <1>0 DEF FailedConnectIsFresh
    <2>1. /\ client[c].fresh /\ (client[c].refused \/ ~Listening(client[c].inst))
          /\ client[c].inst \in Nat /\ client[c].inst <= instances
      BY DEF CInv, FailedConnectIsFresh, ClientTypes, ClientNumbers, Calls
    <2> QED
      BY <2>1, <1>0, SilenceStays DEF Listening
  <1> QED
    BY <1>1, <1>2, <1>3 DEF CInv

\* The end of a command, of which its client is told.
LEMMA ToldClient ==
    ASSUME PInv, PInv', CInv, Unheard, NEW q \in Pids, Exits(q), NEW i \in Nat, i <= instances,
           Tell(q, i), UNCHANGED <<cache, instances>>
    PROVE  CInv'
  <1>0. /\ client \in [Clients -> Calls] /\ cache \in Nat /\ instances \in Nat
        /\ proc'[q] = NoProc /\ \A r \in Pids \ {q} : proc'[r] = proc[r]
    BY DEF CInv, ClientTypes, PInv, ProcTypes, Exits
  <1>1. /\ DOMAIN client' = Clients
        /\ \A c \in Clients : proc[q].for # c => client'[c] = client[c]
        /\ \A c \in Clients : proc[q].for = c =>
              client'[c] = IF i = 0 THEN [client[c] EXCEPT !.at = "failed"]
                                    ELSE [client[c] EXCEPT !.at = "dial", !.inst = i]
    BY <1>0 DEF Tell
  <1>2. \A c \in Clients : proc[q].for = c =>
           /\ client[c].at = "wait" /\ client[c].inst = 0 /\ client[c].fresh
           /\ client'[c] \in Calls /\ client'[c].fresh /\ client'[c].at \in {"failed", "dial"}
           /\ client'[c].at = "failed" => client'[c].inst = 0
           /\ client'[c].at = "dial" => client'[c].inst = i
    <2> SUFFICES ASSUME NEW c \in Clients, proc[q].for = c
                 PROVE  /\ client[c].at = "wait" /\ client[c].inst = 0 /\ client[c].fresh
                        /\ client'[c] \in Calls /\ client'[c].fresh /\ client'[c].at \in {"failed", "dial"}
                        /\ client'[c].at = "failed" => client'[c].inst = 0
                        /\ client'[c].at = "dial" => client'[c].inst = i
      OBVIOUS
    <2>1. client[c] \in Calls /\ client[c].at = "wait" /\ client[c].inst = 0 /\ client[c].fresh
      BY <1>0 DEF CInv, ClientInv
    <2>2. CASE i = 0
      <3>1. client'[c] = [client[c] EXCEPT !.at = "failed"]
        BY <1>1, <2>2
      <3>2. /\ client'[c] \in Calls /\ client'[c].at = "failed"
            /\ client'[c].inst = client[c].inst /\ (client'[c].fresh <=> client[c].fresh)
        BY <2>1, <3>1 DEF Calls, Places
      <3> QED
        BY <2>1, <3>2
    <2>3. CASE i # 0
      <3>1. client'[c] = [client[c] EXCEPT !.at = "dial", !.inst = i]
        BY <1>1, <2>3
      <3>2. /\ client'[c] \in Calls /\ client'[c].at = "dial"
            /\ client'[c].inst = i /\ (client'[c].fresh <=> client[c].fresh)
        BY <2>1, <3>1 DEF Calls, Places
      <3> QED
        BY <2>1, <3>2
    <2> QED
      BY <2>2, <2>3
  <1>3. ClientTypes'
    <2>1. \A c \in Clients : client'[c] \in Calls
      BY <1>0, <1>1, <1>2
    <2>2. client' = [c \in Clients |-> client'[c]]
      BY DEF Tell
    <2> QED
      BY <1>0, <2>1, <2>2 DEF ClientTypes
  <1>4. ClientNumbers'
    <2>1. ASSUME NEW c \in Clients PROVE client'[c].inst <= instances
      <3>1. client[c].inst <= instances
        BY DEF CInv, ClientNumbers
      <3>2. CASE proc[q].for = c
        BY <1>0, <1>2, <3>2
      <3> QED
        BY <1>1, <3>1, <3>2
    <2> QED
      BY <2>1 DEF CInv, ClientNumbers
  <1>5. ClientInv'
    <2>1. ASSUME NEW r \in Pids, proc'[r].for \in Clients
          PROVE  r # q /\ proc'[r] = proc[r] /\ client'[proc'[r].for].at = "wait"
      <3>1. r # q /\ proc'[r] = proc[r]
        BY <1>0, <2>1, NoProcFacts
      <3>2. client[proc[r].for].at = "wait" /\ proc[r].for # proc[q].for
        BY <2>1, <3>1 DEF CInv, ClientInv
      <3> QED
        BY <1>1, <2>1, <3>1, <3>2
    <2>2. ASSUME NEW c \in Clients
          PROVE  /\ client'[c].at \in {"ask", "wait"} => client'[c].inst = 0
                 /\ client'[c].at \in {"wait", "dial", "failed"} => client'[c].fresh
      <3>1. CASE proc[q].for = c
        BY <1>2, <3>1
      <3>2. CASE proc[q].for # c
        BY <1>1, <3>2 DEF CInv, ClientInv
      <3> QED
        BY <3>1, <3>2
    <2>3. \A p, r \in Pids : proc'[p].for \in Clients /\ proc'[p].for = proc'[r].for => p = r
      BY <2>1 DEF CInv, ClientInv
    <2> QED
      BY <2>1, <2>2, <2>3 DEF ClientInv
  <1>6. FailedConnectIsFresh'
    <2> SUFFICES ASSUME NEW c \in Clients, client'[c].at = "failed"
                 PROVE  /\ client'[c].fresh
                        /\ client'[c].refused \/
                              \A p \in Pids : ~ /\ proc'[p].kind = "serve"
                                                /\ proc'[p].inst = client'[c].inst
                                                /\ client'[c].inst > 0
      BY DEF FailedConnectIsFresh, Listening
    <2>1. CASE proc[q].for = c
      BY <1>2, <2>1
    <2>2. CASE proc[q].for # c
      <3>1. /\ client'[c] = client[c] /\ client[c].fresh
            /\ client[c].refused \/ ~Listening(client[c].inst)
            /\ client[c].inst \in Nat /\ client[c].inst <= instances
        BY <1>1, <2>2 DEF CInv, FailedConnectIsFresh, ClientTypes, ClientNumbers, Calls
      <3> QED
        BY <3>1, SilenceStays DEF Listening
    <2> QED
      BY <2>1, <2>2
  <1> QED
    BY <1>3, <1>4, <1>5, <1>6 DEF CInv

\* A step of a connect, after which no command runs for it.
LEMMA ConnectMoves ==
    ASSUME PInv, CInv, UNCHANGED <<proc, instances>>, NEW c \in Clients, client[c].at # "wait",
           NEW r \in Calls, Moves(c, r), cache' \in {0, cache, r.inst}, r.inst <= instances,
           r.at # "wait", r.at = "ask" => r.inst = 0, r.at = "dial" => r.fresh,
           r.at = "failed" => r.fresh /\ (r.refused \/ ~Listening(r.inst))
    PROVE  CInv'
  <1>0. /\ client \in [Clients -> Calls] /\ cache \in Nat /\ instances \in Nat /\ r.inst \in Nat
        /\ \A b \in Clients : client[b].inst \in Nat
    BY DEF CInv, ClientTypes, PInv, ProcTypes, Calls
  <1>1. /\ client' \in [Clients -> Calls] /\ client'[c] = r
        /\ \A b \in Clients \ {c} : client'[b] = client[b]
    BY <1>0 DEF Moves
  <1>2. ClientTypes' /\ ClientNumbers'
    BY <1>0, <1>1 DEF CInv, ClientTypes, ClientNumbers
  <1>3. ClientInv'
    BY <1>0, <1>1 DEF CInv, ClientInv
  <1>4. FailedConnectIsFresh'
    BY <1>0, <1>1 DEF CInv, FailedConnectIsFresh, Listening
  <1> QED
    BY <1>2, <1>3, <1>4 DEF CInv

\* A connect that asks gets a command of its own.
LEMMA AskKeeps ==
    ASSUME PInv, PInv', CInv, NEW c \in Clients, AskGuest(c)
    PROVE  CInv'
  <1> DEFINE r == [client[c] EXCEPT !.at = "wait", !.fresh = TRUE]
  <1>0. /\ client \in [Clients -> Calls] /\ cache \in Nat /\ instances \in Nat
        /\ client[c].at = "ask" /\ client[c].inst = 0 /\ UNCHANGED <<cache, instances>>
        /\ \A b \in Clients : client[b].inst \in Nat
    BY DEF CInv, ClientTypes, ClientInv, PInv, ProcTypes, Calls, AskGuest, bounds
  <1>1. r \in Calls /\ r.at = "wait" /\ r.inst = 0 /\ r.fresh
    BY <1>0 DEF Calls, Places
  <1> HIDE DEF r
  <1>2. /\ client' \in [Clients -> Calls] /\ client'[c] = r
        /\ \A b \in Clients \ {c} : client'[b] = client[b]
    BY <1>0, <1>1 DEF AskGuest, Moves, r
  <1>3. PICK q \in Pids : ~Alive(q) /\ proc' = [proc EXCEPT ![q] = New("ensure", c)]
    BY DEF AskGuest
  <1>4. /\ proc'[q].for = c /\ proc'[q].inst = 0 /\ proc[q].inst = 0 /\ proc[q].for \notin Clients
        /\ \A p \in Pids \ {q} : proc'[p] = proc[p]
    BY <1>3, NewFacts, NoProcFacts DEF PInv, ProcTypes, Alive
  <1>5. ClientTypes' /\ ClientNumbers'
    BY <1>0, <1>1, <1>2 DEF CInv, ClientTypes, ClientNumbers
  <1>6. \A p \in Pids : proc[p].for # c
    BY <1>0 DEF CInv, ClientInv
  <1>7. ClientInv'
    BY <1>0, <1>1, <1>2, <1>4, <1>6 DEF CInv, ClientInv
  <1>8. FailedConnectIsFresh'
    BY <1>1, <1>2, <1>4 DEF CInv, FailedConnectIsFresh, Listening
  <1> QED
    BY <1>5, <1>7, <1>8 DEF CInv

LEMMA ConnectKeeps ==
    ASSUME PInv, CInv, NEW c \in Clients, Connect(c) \/ DialCached(c) \/ Dial(c)
    PROVE  CInv'
  <1>0. /\ client \in [Clients -> Calls] /\ cache \in Nat /\ instances \in Nat /\ cache <= instances
        /\ client[c] \in Calls /\ client[c].inst \in Nat /\ client[c].inst <= instances
        /\ client[c].at = "dial" => client[c].fresh
        /\ UNCHANGED <<proc, instances>>
    BY DEF CInv, ClientTypes, ClientNumbers, ClientInv, PInv, ProcTypes, Calls, Connect, DialCached,
       Dial, bounds
  <1>1. CASE Connect(c) /\ Moves(c, [NoClient EXCEPT !.at = "invalid"])
    <2> DEFINE r == [NoClient EXCEPT !.at = "invalid"]
    <2>1. r \in Calls /\ r.at = "invalid" /\ r.inst = 0
      BY DEF Calls, Places, NoClient
    <2>2. Moves(c, r) /\ cache' = cache /\ client[c].at = "idle"
      BY <1>1 DEF Connect
    <2> HIDE DEF r
    <2> QED
      BY <1>0, <2>1, <2>2, ConnectMoves
  <1>2. CASE Connect(c) /\ ~Moves(c, [NoClient EXCEPT !.at = "invalid"])
    <2> DEFINE r == [NoClient EXCEPT !.at = IF cache = 0 THEN "ask" ELSE "cached", !.inst = cache]
    <2>1. r \in Calls /\ r.at = (IF cache = 0 THEN "ask" ELSE "cached") /\ r.inst = cache
      BY <1>0 DEF Calls, Places, NoClient
    <2>2. Moves(c, r) /\ cache' = cache /\ client[c].at = "idle"
      BY <1>2 DEF Connect
    <2> HIDE DEF r
    <2> QED
      BY <1>0, <2>1, <2>2, ConnectMoves
  <1>3. CASE DialCached(c)
    <2> DEFINE r == [client[c] EXCEPT !.at = "up"]
               f == [client[c] EXCEPT !.at = "ask", !.inst = 0]
    <2>1. /\ r \in Calls /\ r.at = "up" /\ r.inst = client[c].inst
          /\ f \in Calls /\ f.at = "ask" /\ f.inst = 0
      BY <1>0 DEF Calls, Places
    <2>2. /\ client[c].at = "cached"
          /\ (Moves(c, r) /\ cache' = cache) \/ (Moves(c, f) /\ cache' = 0)
      BY <1>3 DEF DialCached
    <2> HIDE DEF r, f
    <2>3. CASE Moves(c, r) /\ cache' = cache
      BY <1>0, <2>1, <2>2, <2>3, ConnectMoves
    <2>4. CASE Moves(c, f) /\ cache' = 0
      BY <1>0, <2>1, <2>2, <2>4, ConnectMoves
    <2> QED
      BY <2>2, <2>3, <2>4
  <1>4. CASE Dial(c)
    <2> DEFINE r == [client[c] EXCEPT !.at = "up"]
               f == [client[c] EXCEPT !.at = "failed", !.refused = Listening(client[c].inst)]
    <2>0. Listening(client[c].inst) \in BOOLEAN
      BY DEF Listening
    <2>1. /\ r \in Calls /\ r.at = "up" /\ r.inst = client[c].inst
          /\ f \in Calls /\ f.at = "failed" /\ f.inst = client[c].inst
          /\ (f.fresh <=> client[c].fresh) /\ (f.refused <=> Listening(client[c].inst))
      BY <1>0, <2>0 DEF Calls, Places
    <2>2. /\ client[c].at = "dial"
          /\ (Moves(c, r) /\ cache' = client[c].inst) \/ (Moves(c, f) /\ cache' = cache)
      BY <1>4 DEF Dial
    <2>3. f.refused \/ ~Listening(f.inst)
      BY <2>1
    <2> HIDE DEF r, f
    <2>4. CASE Moves(c, r) /\ cache' = client[c].inst
      BY <1>0, <2>1, <2>2, <2>4, ConnectMoves
    <2>5. CASE Moves(c, f) /\ cache' = cache
      BY <1>0, <2>1, <2>2, <2>3, <2>5, ConnectMoves
    <2> QED
      BY <2>2, <2>4, <2>5
  <1> QED
    BY <1>1, <1>2, <1>3, <1>4

\* Every step of a process leaves the clients alone, or is the end of a command
\* that failed or that names an instance it has found healthy.
LEMMA WhatRunsTell ==
    ASSUME PInv, NEW q \in Pids, Runs(q) \/ Terminates(q) \/ Crash(q)
    PROVE  \/ UNCHANGED clients
           \/ /\ Exits(q) /\ UNCHANGED <<cache, instances>>
              /\ \/ Tell(q, 0)
                 \/ Healthy(proc[q].saw) /\ Tell(q, proc[q].saw.inst)
  BY DEF Runs, Serve, Ensure, Stop, LockService, Bind, WriteTemporary, WriteState, LockState,
     ReadState, Probe, Spawn, GiveUp, StopReads, StopChecks, StopSignals, StopRemoves, Terminates,
     Crash, clients, bounds

LEMMA NextKeepsClients == PInv /\ PInv' /\ CInv /\ [Next]_vars => CInv'
  <1> SUFFICES ASSUME PInv, PInv', CInv, [Next]_vars PROVE CInv'
    OBVIOUS
  <1>1. ASSUME NEW q \in Pids, Runs(q) \/ Terminates(q) \/ Crash(q) PROVE CInv'
    <2>1. Unheard
      BY <1>1, RunsKeeps
    <2>2. proc[q].saw.inst \in Nat /\ proc[q].saw.inst <= instances /\ 0 <= instances
      BY DEF PInv, ProcTypes, ProcNumbers, Processes, Records
    <2> QED
      BY <1>1, <2>1, <2>2, WhatRunsTell, ToldClient, QuietForClients
  <1>2. ASSUME NEW q \in Pids, NEW kind \in {"serve", "ensure", "stop"}, Launch(q, kind) PROVE CInv'
    <2>1. /\ proc'[q].inst = 0 /\ proc'[q].for \notin Clients /\ instances' = instances
          /\ instances \in Nat /\ \A r \in Pids \ {q} : proc'[r] = proc[r]
      BY <1>2, NewFacts, LifecycleAssumption DEF Launch, PInv, ProcTypes
    <2>2. Unheard
      BY <2>1 DEF Unheard
    <2> QED
      BY <1>2, <2>2, QuietForClients DEF Launch
  <1>3. CASE UNCHANGED vars
    BY <1>3, IdleKeeps, QuietForClients DEF vars, bounds
  <1>4. ASSUME NEW i \in 1..instances, PortChanges(i) PROVE CInv'
    BY <1>4, IdleKeeps, QuietForClients DEF PortChanges, bounds
  <1> QED
    BY <1>1, <1>2, <1>3, <1>4, AskKeeps, ConnectKeeps DEF Next, Connects

-----------------------------------------------------------------------------
LEMMA Invariance == Spec => [](PInv /\ CInv)
  BY InitInv, NextKeepsProcesses, NextKeepsClients, PTL DEF Spec

\* A connect never fails because of an endpoint it had from the cache (connect in
\* wsl.rs, which forgets it and asks ensure-running): the command it asked for
\* failed, or the daemon named by that is gone or refused the hello.
THEOREM FailuresAreFresh == Spec => []FailedConnectIsFresh
  <1>1. CInv => FailedConnectIsFresh
    BY DEF CInv
  <1> QED
    BY <1>1, Invariance, PTL

\* What ensure_running returns is the daemon that holds the service lock, or one
\* that has ended and whose process id and port were both taken again
\* (read_healthy_state, which looks at the two and not at the token).
THEOREM EnsureNamesLive == Spec => EnsureReportsLive
  <1> DEFINE Named(c) ==
               \/ serviceLock # 0 /\ proc[serviceLock].inst = client'[c].inst
               \/ /\ client'[c].inst \in taken
                  /\ \E q \in Pids : proc[q].for = c /\ IsDaemon(proc[q].saw)
             Reported(c) == client'[c].at = "dial" /\ client[c].at # "dial" => Named(c)
  <1>1. ASSUME PInv, CInv, [Next]_vars, NEW c \in Clients PROVE Reported(c)
    <2>0. client \in [Clients -> Calls]
      BY <1>1 DEF CInv, ClientTypes
    <2>1. ASSUME NEW q \in Pids, Runs(q) \/ Terminates(q) \/ Crash(q) PROVE Reported(c)
      <3>1. CASE UNCHANGED clients
        BY <3>1 DEF clients
      <3>2. CASE Tell(q, 0)
        <4>1. client'[c].at \in {"failed", client[c].at}
          BY <2>0, <3>2 DEF Tell, Calls
        <4> QED
          BY <4>1
      <3>3. CASE Healthy(proc[q].saw) /\ Tell(q, proc[q].saw.inst)
        <4>1. PICK i \in Nat : i = proc[q].saw.inst
          BY <1>1 DEF PInv, ProcTypes, Processes, Records
        <4>2. Tell(q, i)
          BY <3>3, <4>1
        <4>3. client'[c] = client[c] \/ proc[q].for = c
          BY <2>0, <4>2 DEF Tell
        <4>4. client'[c].at = "dial" /\ client[c].at # "dial" => client'[c].inst = i
          BY <2>0, <4>2 DEF Tell, Calls
        <4>5. IsDaemon(proc[q].saw) /\ (Listening(i) \/ i \in taken)
          BY <3>3, <4>1 DEF Healthy, Accepts
        <4>6. ASSUME Listening(i) PROVE serviceLock # 0 /\ proc[serviceLock].inst = i
          BY <1>1, <4>6, LifecycleAssumption DEF Listening, PInv, ServiceInv
        <4> QED
          BY <4>3, <4>4, <4>5, <4>6
      <3> QED
        BY <1>1, <2>1, <3>1, <3>2, <3>3, WhatRunsTell
    <2>2. ASSUME NEW q \in Pids, NEW kind \in {"serve", "ensure", "stop"}, Launch(q, kind)
          PROVE  Reported(c)
      BY <2>2 DEF Launch, clients
    <2>3. ASSUME NEW b \in Clients, Connect(b) \/ DialCached(b) \/ AskGuest(b) \/ Dial(b)
          PROVE  Reported(c)
      <3>1. client'[c] = client[c] \/ client'[c].at # "dial"
        BY <2>0, <2>3 DEF Connect, DialCached, AskGuest, Dial, Moves, Calls, NoClient
      <3> QED
        BY <3>1
    <2>4. CASE UNCHANGED vars
      BY <2>4 DEF vars, clients
    <2>5. ASSUME NEW i \in 1..instances, PortChanges(i) PROVE Reported(c)
      BY <2>5 DEF PortChanges, clients
    <2> QED
      BY <1>1, <2>1, <2>2, <2>3, <2>4, <2>5 DEF Next, Connects
  <1>2. PInv /\ CInv /\ [Next]_vars =>
           [\A c \in Clients : client'[c].at = "dial" /\ client[c].at # "dial" =>
               \/ serviceLock # 0 /\ proc[serviceLock].inst = client'[c].inst
               \/ /\ client'[c].inst \in taken
                  /\ \E q \in Pids : proc[q].for = c /\ IsDaemon(proc[q].saw)]_vars
    BY <1>1
  <1> QED
    BY <1>2, Invariance, PTL DEF Spec, EnsureReportsLive
=============================================================================
