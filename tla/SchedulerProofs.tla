-------------------------- MODULE SchedulerProofs --------------------------
(***************************************************************************)
(* Proofs about Scheduler for every set of requests, every concurrency     *)
(* limit and every mix of tools.                                           *)
(*                                                                         *)
(* The permits are the argument: Ownership says who holds what in which    *)
(* phase, and with PermitsConserved and the order of the queue             *)
(* (NoIdlePermit) it is inductive. All that the semaphore does when        *)
(* permits come back is in one lemma, about Release.                          *)
(***************************************************************************)
EXTENDS Scheduler, SequenceTheorems, TLAPS

\* Who holds permits: a running request all it asked for, a queued request
\* that left the queue all it asked for, a waiting request less than that.
Ownership ==
    /\ \A r \in Requests : phase[r] \in Running => Satisfied(r, held[r])
    /\ \A r \in Requests :
          phase[r] \in Queueing /\ r \notin waiting /\ held[r] # {} => Satisfied(r, held[r])
    /\ \A w \in waiting : phase[w] \in Queueing /\ ~Satisfied(w, held[w])

\* The part of the type invariant the permits need.
PermitTypes ==
    /\ kind \in [Requests -> ToolKinds]
    /\ phase \in [Requests -> Phases]
    /\ free \subseteq Permits
    /\ held \in [Requests -> SUBSET Permits]
    /\ waiting \subseteq Requests
    /\ ahead \in [Requests -> SUBSET Requests]

IInv == PermitTypes /\ PermitsConserved /\ Ownership /\ NoIdlePermit

\* Whatever the configured limit, PermitPool::new makes a pool that is not
\* empty.
LEMMA PoolNotEmpty == Permits # {}
<1>1. PermitCount \in Nat /\ PermitCount >= 1
  BY ConfigAssumption DEF PermitCount
<1>2. 1 \in Permits
  BY <1>1 DEF Permits
<1> QED
  BY <1>2

\* A request that has all it asked for holds something.
LEMMA SatisfiedNotEmpty ==
    ASSUME NEW r, NEW S, Satisfied(r, S)
    PROVE  S # {}
BY PoolNotEmpty DEF Satisfied

\* When the requests in rel end or give up, what they held is dealt out and
\* the invariant survives: nothing is lost, nobody gets too much, and the
\* queue keeps its order.
LEMMA ReleaseKeepsIInv ==
    ASSUME IInv, kind' = kind, NEW rel \in SUBSET Requests,
           phase' \in [Requests -> Phases],
           \A r \in Requests \ rel : phase'[r] = phase[r],
           \A r \in rel : phase'[r] \in {"returning", "done", "dropped"},
           Release(rel)
    PROVE  IInv'
<1> DEFINE S == UNION {held[r] : r \in rel}
           base == [r \in Requests |-> IF r \in rel THEN {} ELSE held[r]]
<1>1. PermitTypes /\ PermitsConserved /\ Ownership /\ NoIdlePermit
  BY DEF IInv
<1>2. S \in SUBSET Permits /\ base \in [Requests -> SUBSET Permits]
  BY <1>1 DEF PermitTypes
<1>3. PICK to \in [S -> (waiting \ rel) \cup {Pool}] :
        /\ held' = [r \in Requests |-> base[r] \cup {p \in S : to[p] = r}]
        /\ held' \in [Requests -> SUBSET Permits]
        /\ free' = free \cup {p \in S : to[p] = Pool}
        /\ waiting' = {w \in waiting \ rel : ~Satisfied(w, held'[w])}
        /\ ahead' = [r \in Requests |->
                        IF r \in waiting' THEN ahead[r] \cap waiting' ELSE {}]
        /\ \A w \in waiting' : \A p \in S : to[p] \in ahead[w] \cup {w}
  <2>1. PICK to \in Deals(S, waiting \ rel, base) :
          /\ held' = Now(base, to)
          /\ free' = free \cup {p \in S : to[p] = Pool}
          /\ waiting' = {w \in waiting \ rel : ~Satisfied(w, Now(base, to)[w])}
          /\ ahead' = [r \in Requests |->
                          IF r \in waiting' THEN ahead[r] \cap waiting' ELSE {}]
    BY DEF Release
  <2> HIDE DEF S, base
  <2>2. /\ to \in [S -> (waiting \ rel) \cup {Pool}]
        /\ \A w \in waiting \ rel :
              ~Satisfied(w, Now(base, to)[w]) => \A p \in S : to[p] \in ahead[w] \cup {w}
    BY <2>1 DEF Deals
  <2>3. held' = [r \in Requests |-> base[r] \cup {p \in S : to[p] = r}]
    BY <2>1, <2>2 DEF Now
  <2>4. held' \in [Requests -> SUBSET Permits]
    BY <1>2, <2>3
  <2>5. /\ waiting' = {w \in waiting \ rel : ~Satisfied(w, held'[w])}
        /\ \A w \in waiting' : \A p \in S : to[p] \in ahead[w] \cup {w}
    BY <2>1, <2>2
  <2> QED BY <2>1, <2>2, <2>3, <2>4, <2>5
<1> HIDE DEF S
<1>4. \A r \in rel : r \notin waiting \ rel
  OBVIOUS
<1>5. \A r \in rel : held'[r] = {}
  BY <1>3, <1>4, PoolAssumption
<1>6. \A r \in Requests \ rel : r \notin waiting => held'[r] = held[r]
  BY <1>3, PoolAssumption
<1>7. PermitTypes'
  BY <1>1, <1>2, <1>3 DEF PermitTypes
<1>8. PermitsConserved'
  <2>1. \A p \in S : p \notin free /\ (\A r \in Requests \ rel : p \notin held[r])
    BY <1>1 DEF PermitsConserved, S
  <2>2. \A r \in Requests : held'[r] \cap free' = {}
    BY <1>1, <1>3, <2>1, PoolAssumption DEF PermitsConserved
  <2>3. \A r, s \in Requests : r # s => held'[r] \cap held'[s] = {}
    <3> SUFFICES ASSUME NEW r \in Requests, NEW s \in Requests, r # s,
                        NEW p \in held'[r], p \in held'[s]
                 PROVE  FALSE
      OBVIOUS
    <3>1. CASE p \in S
      BY <3>1, <1>3, <2>1
    <3>2. CASE p \notin S
      BY <3>2, <1>1, <1>3 DEF PermitsConserved
    <3> QED BY <3>1, <3>2
  <2>4. free' \cup UNION {held'[r] : r \in Requests} = Permits
    <3>1. ASSUME NEW p \in Permits
          PROVE  p \in free' \/ \E r \in Requests : p \in held'[r]
      <4>1. CASE p \in S
        <5>1. to[p] = Pool \/ to[p] \in Requests
          BY <4>1, <1>1 DEF PermitTypes
        <5> QED BY <4>1, <5>1, <1>3
      <4>2. CASE p \in free
        BY <4>2, <1>3
      <4>3. CASE p \notin S /\ p \notin free
        <5>1. PICK r \in Requests : p \in held[r]
          BY <4>3, <1>1 DEF PermitsConserved
        <5>2. r \notin rel
          BY <5>1, <4>3 DEF S
        <5> QED BY <5>1, <5>2, <1>3
      <4> QED BY <4>1, <4>2, <4>3
    <3> QED BY <3>1, <1>7 DEF PermitTypes
  <2>5. \A r \in Requests :
           phase'[r] \in {"unsubmitted", "done", "dropped"} => held'[r] = {}
    <3> SUFFICES ASSUME NEW r \in Requests \ rel,
                        phase'[r] \in {"unsubmitted", "done", "dropped"}
                 PROVE  held'[r] = {}
      BY <1>5
    <3>1. phase[r] \in {"unsubmitted", "done", "dropped"}
      OBVIOUS
    <3>2. r \notin waiting
      BY <3>1, <1>1 DEF Ownership, Queueing
    <3>3. held[r] = {}
      BY <3>1, <1>1 DEF PermitsConserved
    <3> QED BY <3>2, <3>3, <1>6
  <2> QED BY <2>2, <2>3, <2>4, <2>5 DEF PermitsConserved
<1>9. Ownership'
  <2>1. ASSUME NEW r \in Requests, phase'[r] \in Running
        PROVE  Satisfied(r, held[r])'
    <3>1. r \notin rel /\ phase[r] \in Running
      BY <2>1 DEF Running
    <3>2. r \notin waiting
      BY <3>1, <1>1 DEF Ownership, Queueing, Running
    <3>3. held'[r] = held[r]
      BY <3>1, <3>2, <1>6
    <3> QED BY <3>1, <3>3, <1>1 DEF Ownership, Satisfied, is_concurrent, Permits, PermitCount
  <2>2. ASSUME NEW r \in Requests, phase'[r] \in Queueing, r \notin waiting', held'[r] # {}
        PROVE  Satisfied(r, held[r])'
    <3>1. r \notin rel /\ phase[r] \in Queueing
      BY <2>2 DEF Queueing
    <3>2. CASE r \in waiting
      BY <2>2, <3>1, <3>2, <1>3 DEF Satisfied, is_concurrent, Permits, PermitCount
    <3>3. CASE r \notin waiting
      <4>1. held'[r] = held[r]
        BY <3>1, <3>3, <1>6
      <4> QED BY <2>2, <3>1, <3>3, <4>1, <1>1
              DEF Ownership, Satisfied, is_concurrent, Permits, PermitCount
    <3> QED BY <3>2, <3>3
  <2>3. ASSUME NEW w \in waiting'
        PROVE  phase'[w] \in Queueing /\ ~Satisfied(w, held[w])'
    <3>1. w \in waiting /\ w \notin rel /\ w \in Requests /\ ~Satisfied(w, held'[w])
      BY <1>1, <1>3, <2>3 DEF PermitTypes
    <3>2. w \notin rel
      BY <3>1
    <3>3. phase'[w] \in Queueing
      BY <3>1, <3>2, <1>1 DEF Ownership
    <3> QED BY <3>1, <3>3 DEF Satisfied, is_concurrent, Permits, PermitCount
  <2> QED BY <2>1, <2>2, <2>3 DEF Ownership
<1>10. NoIdlePermit'
  <2>1. waiting' \subseteq waiting \ rel
    BY <1>3
  <2>2. waiting' # {} => free' = {}
    <3> SUFFICES ASSUME NEW w \in waiting' PROVE free' = {}
      OBVIOUS
    <3>1. free = {}
      BY <2>1, <1>1 DEF NoIdlePermit
    <3>2. \A p \in S : to[p] # Pool
      <4>1. ahead[w] \cup {w} \subseteq Requests
        BY <2>1, <1>1 DEF PermitTypes
      <4> QED BY <4>1, <1>3, PoolAssumption
    <3> QED BY <3>1, <3>2, <1>3
  <2>3. ASSUME NEW w \in waiting', ahead'[w] # {}
        PROVE  held'[w] = {}
    <3>1. PICK v \in waiting' : v \in ahead[w]
      BY <2>1, <2>3, <1>1, <1>3 DEF PermitTypes
    <3>2. v # w /\ w \notin ahead[v]
      BY <3>1, <2>1, <1>1 DEF NoIdlePermit
    <3>3. \A p \in S : to[p] # w
      <4>1. \A p \in S : to[p] \in ahead[v] \cup {v}
        BY <3>1, <1>3
      <4> QED BY <3>2, <4>1
    <3>4. held[w] = {} /\ w \in Requests /\ w \notin rel
      BY <3>1, <2>1, <1>1 DEF NoIdlePermit, PermitTypes
    <3> QED BY <3>3, <3>4, <1>3
  <2>4. \A w \in waiting' : ahead'[w] \subseteq waiting' \ {w}
    BY <2>1, <1>1, <1>3 DEF PermitTypes, NoIdlePermit
  <2>5. \A v, w \in waiting' : v # w => (v \in ahead'[w] <=> w \notin ahead'[v])
    <3> SUFFICES ASSUME NEW v \in waiting', NEW w \in waiting', v # w
                 PROVE  (v \in ahead'[w] <=> w \notin ahead'[v])
      OBVIOUS
    <3>1. v \in Requests /\ w \in Requests /\ v \in waiting /\ w \in waiting
      BY <2>1, <1>1 DEF PermitTypes
    <3>2. ahead'[w] = ahead[w] \cap waiting' /\ ahead'[v] = ahead[v] \cap waiting'
      BY <3>1, <1>3
    <3>3. v \in ahead[w] <=> w \notin ahead[v]
      BY <3>1, <1>1 DEF NoIdlePermit
    <3> QED BY <3>2, <3>3
  <2> QED BY <2>2, <2>3, <2>4, <2>5 DEF NoIdlePermit
<1> QED
  BY <1>7, <1>8, <1>9, <1>10 DEF IInv

-----------------------------------------------------------------------------
\* A fresh runtime satisfies the invariant: every permit is in the pool.
LEMMA InitIInv == Init => IInv
<1> SUFFICES ASSUME Init PROVE IInv
  OBVIOUS
<1>1. PermitTypes
  BY ConfigAssumption DEF Init, PermitTypes, Phases
<1>2. PermitsConserved
  BY DEF Init, PermitsConserved
<1>3. Ownership /\ NoIdlePermit
  BY DEF Init, Ownership, NoIdlePermit, Running, Queueing
<1> QED
  BY <1>1, <1>2, <1>3 DEF IInv

\* A step that moves one request between phases without touching the
\* semaphore keeps the invariant, given that the request holds what its new
\* phase calls for.
LEMMA MoveKeepsIInv ==
    ASSUME IInv, UNCHANGED <<kind, free, held, waiting, ahead>>,
           phase' \in [Requests -> Phases],
           \A r \in Requests : phase'[r] # phase[r] =>
              /\ phase'[r] \in Running => Satisfied(r, held[r])
              /\ phase'[r] \in Queueing =>
                    r \in waiting \/ held[r] = {} \/ Satisfied(r, held[r])
              /\ phase'[r] \in {"unsubmitted", "done", "dropped"} => held[r] = {}
              /\ r \in waiting => phase'[r] \in Queueing
    PROVE  IInv'
<1>1. PermitTypes /\ PermitsConserved /\ Ownership /\ NoIdlePermit
  BY DEF IInv
<1>2. \A r \in Requests : Satisfied(r, held[r])' <=> Satisfied(r, held[r])
  BY DEF Satisfied, is_concurrent, Permits, PermitCount
<1>3. PermitTypes'
  BY <1>1 DEF PermitTypes
<1>4. PermitsConserved'
  BY <1>1 DEF PermitsConserved
<1>5. Ownership'
  BY <1>1, <1>2 DEF Ownership, PermitTypes
<1>6. NoIdlePermit'
  BY <1>1 DEF NoIdlePermit
<1> QED
  BY <1>3, <1>4, <1>5, <1>6 DEF IInv

\* The first poll of the acquire future takes only free permits; it leaves
\* the pool empty when it has to queue up.
LEMMA FirstPollKeepsIInv ==
    ASSUME IInv, NEW r \in Requests, FirstPermitPoll(r)
    PROVE  IInv'
<1> DEFINE take == FirstTake(r)
<1>1. PermitTypes /\ PermitsConserved /\ Ownership /\ NoIdlePermit
  BY DEF IInv
<1>2. /\ phase[r] = "permit_poll" /\ r \notin waiting /\ held[r] = {}
      /\ held' = [held EXCEPT ![r] = take]
      /\ free' = free \ take
      /\ kind' = kind
  BY DEF FirstPermitPoll, Unregistered
<1>3. take \subseteq free
  BY DEF FirstTake
<1>4. CASE Satisfied(r, take)
  <2>1. phase' = [phase EXCEPT ![r] = "prepared"] /\ waiting' = waiting /\ ahead' = ahead
    BY <1>4 DEF FirstPermitPoll, GoTo
  <2>2. waiting = {}
    BY <1>1, <1>3, <1>4, SatisfiedNotEmpty DEF NoIdlePermit
  <2> HIDE DEF take
  <2>3. PermitTypes'
    BY <1>1, <1>2, <1>3, <2>1 DEF PermitTypes, Phases
  <2>4. PermitsConserved'
    BY <1>1, <1>2, <1>3, <2>1 DEF PermitsConserved, PermitTypes
  <2>5. Ownership'
    BY <1>1, <1>2, <1>4, <2>1, <2>2
       DEF PermitTypes, Ownership, Satisfied, is_concurrent, Permits, PermitCount
  <2>6. NoIdlePermit'
    BY <2>1, <2>2 DEF NoIdlePermit
  <2> QED BY <2>3, <2>4, <2>5, <2>6 DEF IInv
<1>5. CASE ~Satisfied(r, take)
  <2>1. /\ phase' = [phase EXCEPT ![r] = "deadline_poll"]
        /\ waiting' = waiting \cup {r}
        /\ ahead' = [ahead EXCEPT ![r] = waiting]
    BY <1>5 DEF FirstPermitPoll, GoTo
  <2>2. free' = {}
    BY <1>2, <1>5 DEF FirstTake, Satisfied
  <2>3. waiting # {} => take = {}
    BY <1>1, <1>3 DEF NoIdlePermit
  <2> HIDE DEF take
  <2>4. PermitTypes'
    BY <1>1, <1>2, <1>3, <2>1 DEF PermitTypes, Phases
  <2>5. PermitsConserved'
    BY <1>1, <1>2, <1>3, <2>1 DEF PermitsConserved, PermitTypes
  <2>6. Ownership'
    BY <1>1, <1>2, <1>5, <2>1
       DEF PermitTypes, Ownership, Satisfied, is_concurrent, Permits, PermitCount,
           Queueing, Running
  <2>7. NoIdlePermit'
    BY <1>1, <1>2, <2>1, <2>2, <2>3 DEF NoIdlePermit, PermitTypes
  <2> QED BY <2>4, <2>5, <2>6, <2>7 DEF IInv
<1> QED
  BY <1>4, <1>5

\* Every step of a request's future keeps the invariant.
LEMMA PollKeepsIInv ==
    ASSUME IInv, NEW r \in Requests, Poll(r)
    PROVE  IInv'
<1> USE DEF GoTo
<1>1. PermitTypes /\ Ownership
  BY DEF IInv
<1>2. CASE QueuedCancelled(r) \/ QueuedTimedOut(r)
  <2>1. Release({r}) /\ kind' = kind /\ phase' = [phase EXCEPT ![r] = "returning"]
    BY <1>2 DEF QueuedCancelled, QueuedTimedOut, give_up, fail_with
  <2>2. /\ phase' \in [Requests -> Phases]
        /\ \A x \in Requests \ {r} : phase'[x] = phase[x]
        /\ \A x \in {r} : phase'[x] \in {"returning", "done", "dropped"}
    BY <1>1, <2>1 DEF PermitTypes, Phases
  <2> QED BY <2>1, <2>2, ReleaseKeepsIInv
<1>3. CASE Return(r)
  <2>1. Release({r}) /\ kind' = kind /\ phase' = [phase EXCEPT ![r] = "done"]
    BY <1>3 DEF Return
  <2>2. /\ phase' \in [Requests -> Phases]
        /\ \A x \in Requests \ {r} : phase'[x] = phase[x]
        /\ \A x \in {r} : phase'[x] \in {"returning", "done", "dropped"}
    BY <1>1, <2>1 DEF PermitTypes, Phases
  <2> QED BY <2>1, <2>2, ReleaseKeepsIInv
<1>4. CASE FirstPermitPoll(r)
  BY <1>4, FirstPollKeepsIInv
<1>5. CASE LaterPermitPoll(r)
  <2>1. /\ UNCHANGED <<kind, free, held, waiting, ahead>>
        /\ phase[r] = "permit_poll"
        /\ phase' = [phase EXCEPT ![r] = IF r \in waiting THEN "deadline_poll" ELSE "prepared"]
        /\ r \in waiting \/ held[r] # {}
    BY <1>5 DEF LaterPermitPoll, semaphore, Unregistered
  <2>2. r \notin waiting => Satisfied(r, held[r])
    BY <1>1, <2>1 DEF Ownership, Queueing
  <2> QED BY <1>1, <2>1, <2>2, MoveKeepsIInv DEF PermitTypes, Phases, Running, Queueing
<1>6. CASE NotCancelled(r) \/ KeepWaiting(r)
  <2>1. /\ UNCHANGED <<kind, free, held, waiting, ahead>>
        /\ phase[r] \in Queueing
        /\ \E p \in {"permit_poll", "cancel_poll"} : phase' = [phase EXCEPT ![r] = p]
    BY <1>6 DEF NotCancelled, KeepWaiting, semaphore, Queueing
  <2>2. r \in waiting \/ held[r] = {} \/ Satisfied(r, held[r])
    BY <1>1, <2>1 DEF Ownership
  <2> QED BY <1>1, <2>1, <2>2, MoveKeepsIInv DEF PermitTypes, Phases, Running, Queueing
<1>7. CASE Started(r) \/ PollOperation(r) \/ OperationPending(r) \/ StartWorker(r)
  <2>1. /\ UNCHANGED <<kind, free, held, waiting, ahead>>
        /\ phase[r] \in Running
        /\ \E p \in {"select", "operation"} : phase' = [phase EXCEPT ![r] = p]
    BY <1>7 DEF Started, PollOperation, OperationPending, StartWorker, semaphore, Running
  <2>2. Satisfied(r, held[r]) /\ r \notin waiting
    BY <1>1, <2>1 DEF Ownership, Running, Queueing
  <2> QED BY <1>1, <2>1, <2>2, MoveKeepsIInv DEF PermitTypes, Phases, Running, Queueing
<1>8. CASE ToolNotFound(r) \/ Panicked(r) \/ ToolFails(r) \/ Interrupted(r) \/ Succeeded(r)
  <2>1. /\ UNCHANGED <<kind, free, held, waiting, ahead>>
        /\ phase[r] \in Running
        /\ phase' = [phase EXCEPT ![r] = "returning"]
    BY <1>8 DEF ToolNotFound, Panicked, ToolFails, Interrupted, Succeeded, fail_with,
                semaphore, Running
  <2>2. r \notin waiting
    BY <1>1, <2>1 DEF Ownership, Running, Queueing
  <2> QED BY <1>1, <2>1, <2>2, MoveKeepsIInv DEF PermitTypes, Phases, Running, Queueing
<1>9. CASE Validated(r)
  <2>1. UNCHANGED <<kind, free, held, waiting, ahead, phase>>
    BY <1>9 DEF Validated, semaphore
  <2> QED BY <1>1, <2>1, MoveKeepsIInv DEF PermitTypes
<1> QED
  BY <1>2, <1>3, <1>4, <1>5, <1>6, <1>7, <1>8, <1>9 DEF Poll

\* So does every step of a caller, of the clock and of a blocking thread.
LEMMA NextKeepsIInv == IInv /\ [Next]_vars => IInv'
<1> SUFFICES ASSUME IInv, [Next]_vars PROVE IInv'
  OBVIOUS
<1>1. PermitTypes /\ PermitsConserved /\ Ownership
  BY DEF IInv
<1>2. ASSUME NEW r \in Requests, Poll(r) PROVE IInv'
  BY <1>2, PollKeepsIInv
<1>3. ASSUME NEW b \in Submissions, DropSubmission(b) PROVE IInv'
  <2>1. PICK gone : gone = {r \in RequestsOf(b) : phase[r] # "done"}
    OBVIOUS
  <2>2. gone \in SUBSET Requests
    BY <2>1 DEF RequestsOf
  <2>3. /\ kind' = kind
        /\ phase' = [r \in Requests |-> IF r \in gone THEN "dropped" ELSE phase[r]]
    BY <1>3, <2>1 DEF DropSubmission
  <2>4. Release(gone)
    BY <1>3, <2>1 DEF DropSubmission
  <2>5. /\ phase' \in [Requests -> Phases]
        /\ \A r \in Requests \ gone : phase'[r] = phase[r]
        /\ \A r \in gone : phase'[r] \in {"returning", "done", "dropped"}
    BY <1>1, <2>2, <2>3 DEF PermitTypes, Phases
  <2> QED BY <2>2, <2>3, <2>4, <2>5, ReleaseKeepsIInv
<1>4. ASSUME NEW b \in Submissions, Submit(b) PROVE IInv'
  <2>1. /\ UNCHANGED <<kind, free, held, waiting, ahead>>
        /\ \A r \in RequestsOf(b) : phase[r] = "unsubmitted"
        /\ phase' = [r \in Requests |->
                        IF r \in RequestsOf(b) THEN "cancel_poll" ELSE phase[r]]
    BY <1>4 DEF Submit, semaphore
  <2>2. \A r \in RequestsOf(b) : r \in Requests /\ held[r] = {}
    BY <1>1, <2>1 DEF PermitsConserved, RequestsOf
  <2> QED BY <1>1, <2>1, <2>2, MoveKeepsIInv DEF PermitTypes, Phases, Running, Queueing
<1>5. CASE \/ \E b \in Submissions : Cancel(b) \/ DeadlinePasses(b) \/ Collect(b)
           \/ \E r \in Requests : ToolTimerFires(r) \/ WorkerEnds(r)
           \/ UNCHANGED vars
  <2>1. UNCHANGED <<kind, free, held, waiting, ahead, phase>>
    BY <1>5 DEF Cancel, DeadlinePasses, Collect, ToolTimerFires, WorkerEnds, semaphore, vars
  <2> QED BY <1>1, <2>1, MoveKeepsIInv DEF PermitTypes
<1> QED
  BY <1>2, <1>3, <1>4, <1>5 DEF Next

\* The inductive invariant holds of every behaviour of the scheduler.
THEOREM Invariance == Spec => []IInv
  BY InitIInv, NextKeepsIInv, PTL DEF Spec

\* No permit is ever lost or duplicated, however requests end.
THEOREM PermitsAreConserved == Spec => []PermitsConserved
<1>1. IInv => PermitsConserved
  BY DEF IInv
<1> QED
  BY <1>1, Invariance, PTL

\* No permit lies idle while a request waits, and only the oldest waiter
\* accumulates permits.
THEOREM NoPermitIsIdle == Spec => []NoIdlePermit
<1>1. IInv => NoIdlePermit
  BY DEF IInv
<1> QED
  BY <1>1, Invariance, PTL

\* A tool that is not concurrency safe runs alone.
THEOREM Exclusivity == Spec => []ExclusiveRunsAlone
<1>1. ASSUME IInv PROVE ExclusiveRunsAlone
  <2> SUFFICES ASSUME NEW r \in Requests, NEW s \in Requests, r # s,
                      phase[r] \in Running, ~is_concurrent(r), phase[s] \in Running
               PROVE  FALSE
    BY DEF ExclusiveRunsAlone
  <2>1. held[r] = Permits
    BY <1>1 DEF IInv, Ownership, Satisfied
  <2>2. held[s] # {} /\ held[s] \subseteq Permits
    BY <1>1, SatisfiedNotEmpty DEF IInv, Ownership, PermitTypes
  <2>3. held[r] \cap held[s] = {}
    BY <1>1 DEF IInv, PermitsConserved
  <2> QED BY <2>1, <2>2, <2>3
<1> QED
  BY <1>1, Invariance, PTL
-----------------------------------------------------------------------------
\* What a release leaves in the queue: a waiter behind one that still waits
\* gets nothing.
LEMMA ReleaseInOrder ==
    ASSUME IInv, NEW rel \in SUBSET Requests, Release(rel),
           NEW v \in waiting, NEW w \in waiting \ rel, v \in ahead[w], v \in waiting'
    PROVE  w \in waiting'
<1> DEFINE S == UNION {held[r] : r \in rel}
           base == [r \in Requests |-> IF r \in rel THEN {} ELSE held[r]]
<1>1. PICK to \in Deals(S, waiting \ rel, base) :
        waiting' = {x \in waiting \ rel : ~Satisfied(x, Now(base, to)[x])}
  BY DEF Release
<1>2. w \in Requests /\ base[w] = held[w]
  BY DEF IInv, PermitTypes
<1> HIDE DEF S, base
<1>3. \A p \in S : to[p] \in ahead[v] \cup {v}
  BY <1>1 DEF Deals
<1>4. w # v /\ w \notin ahead[v]
  BY DEF IInv, NoIdlePermit
<1>5. Now(base, to)[w] = held[w]
  <2>1. DOMAIN to = S
    BY <1>1 DEF Deals
  <2> QED BY <1>2, <1>3, <1>4, <2>1 DEF Now
<1>6. ~Satisfied(w, held[w])
  BY DEF IInv, Ownership
<1> QED
  BY <1>1, <1>5, <1>6

\* Requests get their permits in the order in which they queued up.
THEOREM Fifo == Spec => NoOvertaking
<1>1. ASSUME IInv, [Next]_vars, NEW v \in waiting, NEW w \in waiting,
             v \in ahead[w], v \in waiting', phase'[w] \in Queueing
      PROVE  w \in waiting'
  <2>1. PermitTypes /\ Ownership
    BY <1>1 DEF IInv
  <2>2. w \in Requests /\ phase[w] \in Queueing
    BY <1>1, <2>1 DEF PermitTypes, Ownership
  <2>3. ASSUME NEW b \in Submissions, DropSubmission(b) PROVE w \in waiting'
    <3>1. PICK gone : gone = {r \in RequestsOf(b) : phase[r] # "done"}
      OBVIOUS
    <3>2. gone \in SUBSET Requests
      BY <3>1 DEF RequestsOf
    <3>3. phase' = [r \in Requests |-> IF r \in gone THEN "dropped" ELSE phase[r]]
      BY <2>3, <3>1 DEF DropSubmission
    <3>4. Release(gone)
      BY <2>3, <3>1 DEF DropSubmission
    <3>5. w \in waiting \ gone
      BY <1>1, <2>2, <3>3 DEF Queueing
    <3> QED BY <1>1, <3>2, <3>4, <3>5, ReleaseInOrder
  <2>4. ASSUME NEW r \in Requests,
               QueuedCancelled(r) \/ QueuedTimedOut(r) \/ Return(r)
        PROVE  w \in waiting'
    <3>1. Release({r}) /\ \E p \in {"returning", "done"} : phase' = [phase EXCEPT ![r] = p]
      BY <2>4 DEF QueuedCancelled, QueuedTimedOut, Return, give_up, fail_with, GoTo
    <3>2. w \in waiting \ {r}
      BY <1>1, <2>1, <2>2, <3>1 DEF Queueing, PermitTypes
    <3> QED BY <1>1, <3>1, <3>2, ReleaseInOrder
  <2>5. ASSUME NEW r \in Requests, FirstPermitPoll(r) PROVE w \in waiting'
    BY <1>1, <2>5 DEF FirstPermitPoll
  <2>6. CASE \/ \E b \in Submissions :
                  Submit(b) \/ Cancel(b) \/ DeadlinePasses(b) \/ Collect(b)
             \/ \E r \in Requests :
                  \/ ToolTimerFires(r) \/ WorkerEnds(r) \/ NotCancelled(r)
                  \/ LaterPermitPoll(r) \/ KeepWaiting(r) \/ ToolNotFound(r)
                  \/ Started(r) \/ Panicked(r) \/ Interrupted(r) \/ PollOperation(r)
                  \/ Validated(r) \/ ToolFails(r) \/ OperationPending(r)
                  \/ StartWorker(r) \/ Succeeded(r)
             \/ UNCHANGED vars
    <3>1. waiting' = waiting
      BY <2>6 DEF Submit, Cancel, DeadlinePasses, Collect, ToolTimerFires, WorkerEnds,
            NotCancelled, LaterPermitPoll, KeepWaiting, ToolNotFound, Started, Panicked,
            Interrupted, PollOperation, Validated, ToolFails, OperationPending,
            StartWorker, Succeeded, semaphore, vars
    <3> QED BY <1>1, <3>1
  <2> QED BY <1>1, <2>3, <2>4, <2>5, <2>6 DEF Next, Poll
<1>2. IInv /\ [Next]_vars =>
        [\A v, w \in waiting :
           v \in ahead[w] /\ v \in waiting' /\ phase'[w] \in Queueing => w \in waiting']_vars
  BY <1>1
<1> QED
  BY <1>2, Invariance, PTL DEF Spec, NoOvertaking

-----------------------------------------------------------------------------
\* The part of the type invariant that the permits do not need.
ReportTypes ==
    /\ stage \in [Requests -> {"validate", "invoke"}]
    /\ cancelled \subseteq Submissions
    /\ childCancelled \subseteq Requests
    /\ deadlinePassed \subseteq Submissions
    /\ timerFired \subseteq Requests
    /\ events \in [Requests -> Seq({"started", "failed"})]
    /\ outcome \in [Requests -> Errors \cup {"none", "ok"}]
    /\ workers \subseteq Requests
    /\ completed \in [Submissions -> Seq(Requests)]
    /\ output \in [Submissions -> Seq(Requests)]

\* Sorting a batch's results gives a sequence of requests again.
LEMMA SortedType ==
    ASSUME NEW results \in Seq(Requests), NEW sorted \in Sortings(results)
    PROVE  sorted \in Seq(Requests)
<1>1. sorted \in [1..Len(results) -> Range(results)] /\ Len(results) \in Nat
  BY DEF Sortings
<1>2. Range(results) \subseteq Requests
  BY DEF Range
<1> QED
  BY <1>1, <1>2

\* Every step keeps the types of what the permits do not concern: kinds,
\* stages, tokens, clocks, reports, threads and batches.
LEMMA NextKeepsReportTypes == ReportTypes /\ [Next]_vars => ReportTypes'
<1> SUFFICES ASSUME ReportTypes, [Next]_vars PROVE ReportTypes'
  OBVIOUS
<1> USE DEF ReportTypes
<1>1. ASSUME NEW b \in Submissions, Submit(b) \/ DropSubmission(b) PROVE ReportTypes'
  BY <1>1 DEF Submit, DropSubmission, tokens, clocks, reports, batches
<1>2. ASSUME NEW b \in Submissions, Cancel(b) \/ DeadlinePasses(b) PROVE ReportTypes'
  BY <1>2 DEF Cancel, DeadlinePasses, tokens, clocks, reports, batches
<1>3. ASSUME NEW b \in Submissions, Collect(b) PROVE ReportTypes'
  <2>1. PICK sorted \in Sortings(completed[b]) : output' = [output EXCEPT ![b] = sorted]
    BY <1>3 DEF Collect
  <2>2. sorted \in Seq(Requests)
    BY <2>1, SortedType
  <2>3. output' \in [Submissions -> Seq(Requests)]
    BY <2>1, <2>2
  <2> QED BY <1>3, <2>3 DEF Collect, tokens, clocks, reports
<1>4. ASSUME NEW r \in Requests, ToolTimerFires(r) \/ WorkerEnds(r) \/ StartWorker(r)
      PROVE  ReportTypes'
  BY <1>4 DEF ToolTimerFires, WorkerEnds, StartWorker, tokens, clocks, reports, batches
<1>5. ASSUME NEW r \in Requests,
             \/ NotCancelled(r) \/ FirstPermitPoll(r) \/ LaterPermitPoll(r)
             \/ KeepWaiting(r) \/ PollOperation(r) \/ OperationPending(r)
      PROVE  ReportTypes'
  BY <1>5 DEF NotCancelled, FirstPermitPoll, LaterPermitPoll, KeepWaiting, PollOperation,
              OperationPending, tokens, clocks, reports, batches
<1>6. ASSUME NEW r \in Requests, NEW code \in Errors, fail_with(r, code)
      PROVE  /\ events' \in [Requests -> Seq({"started", "failed"})]
             /\ outcome' \in [Requests -> Errors \cup {"none", "ok"}]
  BY <1>6 DEF fail_with
<1>7. ASSUME NEW r \in Requests,
             QueuedCancelled(r) \/ QueuedTimedOut(r) \/ Interrupted(r)
      PROVE  ReportTypes'
  <2>1. fail_with(r, "cancelled") \/ fail_with(r, "timed_out")
    BY <1>7 DEF QueuedCancelled, QueuedTimedOut, Interrupted, give_up
  <2>2. /\ events' \in [Requests -> Seq({"started", "failed"})]
        /\ outcome' \in [Requests -> Errors \cup {"none", "ok"}]
    BY <2>1, <1>6 DEF Errors
  <2> QED BY <1>7, <2>2
          DEF QueuedCancelled, QueuedTimedOut, Interrupted, give_up, clocks, batches
<1>8. ASSUME NEW r \in Requests, ToolNotFound(r) \/ Panicked(r) \/ ToolFails(r)
      PROVE  ReportTypes'
  <2>1. \E code \in Errors : fail_with(r, code)
    BY <1>8 DEF ToolNotFound, Panicked, ToolFails, Errors
  <2>2. /\ events' \in [Requests -> Seq({"started", "failed"})]
        /\ outcome' \in [Requests -> Errors \cup {"none", "ok"}]
    BY <2>1, <1>6
  <2> QED BY <1>8, <2>2 DEF ToolNotFound, Panicked, ToolFails, tokens, clocks, batches
<1>9. ASSUME NEW r \in Requests, Started(r) \/ Validated(r) \/ Succeeded(r)
      PROVE  ReportTypes'
  <2>1. CASE Started(r)
    BY <1>9, <2>1 DEF Started, tokens, clocks, batches
  <2>2. CASE Validated(r)
    BY <1>9, <2>2 DEF Validated, tokens, clocks, reports, batches
  <2>3. CASE Succeeded(r)
    BY <1>9, <2>3 DEF Succeeded, tokens, clocks, batches
  <2> QED BY <1>9, <2>1, <2>2, <2>3
<1>10. ASSUME NEW r \in Requests, Return(r) PROVE ReportTypes'
  BY <1>10, BatchAssumption DEF Return, tokens, clocks, reports
<1>11. CASE UNCHANGED vars
  BY <1>11 DEF vars, tokens, clocks, reports, batches
<1> QED
  BY <1>1, <1>2, <1>3, <1>4, <1>5, <1>7, <1>8, <1>9, <1>10, <1>11 DEF Next, Poll

\* The type invariant.
THEOREM TypeCorrect == Spec => []TypeOK
<1>1. Init => ReportTypes
  BY DEF Init, ReportTypes, Errors
<1>2. IInv /\ ReportTypes => TypeOK
  BY DEF IInv, PermitTypes, ReportTypes, TypeOK
<1> QED
  BY <1>1, <1>2, NextKeepsReportTypes, Invariance, PTL DEF Spec

-----------------------------------------------------------------------------
\* What has been reported of a request in each phase: nothing before it is
\* prepared, its start alone while its tool may run, and then what its outcome
\* calls for.
ReportInv ==
    \A r \in Requests :
        /\ phase[r] \in Queueing \cup {"unsubmitted", "prepared"} =>
              events[r] = <<>> /\ outcome[r] = "none"
        /\ phase[r] \in {"select", "operation"} =>
              events[r] = <<"started">> /\ outcome[r] = "none"
        /\ outcome[r] = "none" => events[r] \in {<<>>, <<"started">>}
        /\ outcome[r] = "ok" => events[r] = <<"started">>
        /\ outcome[r] \in Errors => events[r] \in {<<"failed">>, <<"started", "failed">>}
        /\ outcome[r] \in {"validation_error", "execution_error"} =>
              events[r] = <<"started", "failed">>
        /\ outcome[r] = "tool_not_found" => events[r] = <<"failed">>

\* A request's own token is cancelled only when the request ends, and a thread
\* it started is abandoned only by a request whose token is cancelled.
TokenInv ==
    /\ \A r \in childCancelled : phase[r] \in {"returning", "done", "dropped"}
    /\ \A r \in workers : phase[r] \in {"select", "operation", "returning", "done", "dropped"}

EndInv == ReportInv /\ TokenInv /\ InterruptionIsJustified /\ AbandonedWorkerIsCancelled

\* What has completed in a batch is what is done.
DoneInv ==
    \A b \in Submissions : Range(completed[b]) = {r \in RequestsOf(b) : phase[r] = "done"}

LEMMA AppendFailed ==
    /\ Append(<<>>, "failed") = <<"failed">>
    /\ Append(<<"started">>, "failed") = <<"started", "failed">>
    /\ Append(<<>>, "started") = <<"started">>
<1> DEFINE s == Append(<<"started">>, "failed")
           t == <<"started", "failed">>
           S == {"started", "failed"}
<1>1. s \in Seq(S) /\ Len(s) = 2 /\ s[1] = "started" /\ s[2] = "failed"
  <2>1. <<"started">> \in Seq(S) /\ "failed" \in S /\ Len(<<"started">>) = 1
    OBVIOUS
  <2>2. <<"started">>[1] = "started"
    OBVIOUS
  <2> QED BY <2>1, <2>2, AppendProperties
<1>2. t \in Seq(S) /\ Len(t) = 2 /\ t[1] = "started" /\ t[2] = "failed"
  OBVIOUS
<1> HIDE DEF s, t
<1>3. \A i \in 1..2 : s[i] = t[i]
  BY <1>1, <1>2
<1>4. s = t
  BY <1>1, <1>2, <1>3, SeqEqual
<1>5. Append(<<>>, "failed") = <<"failed">> /\ Append(<<>>, "started") = <<"started">>
  OBVIOUS
<1> QED
  BY <1>4, <1>5 DEF s, t

\* A request that fails is reported once, whatever phase it fails in.
LEMMA FailureKeepsEndInv ==
    ASSUME TypeOK, EndInv, NEW r \in Requests, NEW code \in Errors, fail_with(r, code),
           phase[r] \in Queueing \cup Running,
           code \in {"validation_error", "execution_error"} => phase[r] = "operation",
           code = "tool_not_found" => phase[r] = "prepared",
           code = "cancelled" => SubmissionOf[r] \in cancelled,
           code = "timed_out" => effective_deadline_passed(r),
           UNCHANGED <<cancelled, clocks, workers>>,
           childCancelled' \in {childCancelled, childCancelled \cup {r}},
           r \in workers => r \in childCancelled'
    PROVE  EndInv'
<1>0. /\ phase' = [phase EXCEPT ![r] = "returning"]
      /\ outcome' = [outcome EXCEPT ![r] = code]
      /\ events' = [events EXCEPT ![r] = Append(events[r], "failed")]
      /\ UNCHANGED <<deadlinePassed, timerFired>>
  BY DEF fail_with, GoTo, clocks
<1>1. /\ phase'[r] = "returning" /\ outcome'[r] = code /\ events'[r] = Append(events[r], "failed")
      /\ \A x \in Requests \ {r} : /\ phase'[x] = phase[x] /\ outcome'[x] = outcome[x]
                                   /\ events'[x] = events[x]
  BY <1>0 DEF TypeOK
<1>2. /\ events'[r] \in {<<"failed">>, <<"started", "failed">>}
      /\ phase[r] = "operation" => events'[r] = <<"started", "failed">>
      /\ phase[r] = "prepared" => events'[r] = <<"failed">>
  <2>1. CASE phase[r] \in Queueing \cup {"prepared"}
    <3>1. events[r] = <<>>
      BY <2>1 DEF EndInv, ReportInv
    <3> QED BY <2>1, <3>1, <1>1, AppendFailed DEF Queueing
  <2>2. CASE phase[r] \in {"select", "operation"}
    <3>1. events[r] = <<"started">>
      BY <2>2 DEF EndInv, ReportInv
    <3> QED BY <2>2, <3>1, <1>1, AppendFailed
  <2> QED BY <2>1, <2>2 DEF Running
<1>3. ReportInv'
  <2> SUFFICES ASSUME NEW x \in Requests
               PROVE  /\ phase'[x] \in Queueing \cup {"unsubmitted", "prepared"} =>
                            events'[x] = <<>> /\ outcome'[x] = "none"
                      /\ phase'[x] \in {"select", "operation"} =>
                            events'[x] = <<"started">> /\ outcome'[x] = "none"
                      /\ outcome'[x] = "none" => events'[x] \in {<<>>, <<"started">>}
                      /\ outcome'[x] = "ok" => events'[x] = <<"started">>
                      /\ outcome'[x] \in Errors => events'[x] \in {<<"failed">>, <<"started", "failed">>}
                      /\ outcome'[x] \in {"validation_error", "execution_error"} =>
                            events'[x] = <<"started", "failed">>
                      /\ outcome'[x] = "tool_not_found" => events'[x] = <<"failed">>
    BY DEF ReportInv
  <2>1. CASE x = r
    BY <1>1, <1>2, <2>1 DEF Queueing, Errors
  <2>2. CASE x # r
    BY <1>1, <2>2 DEF EndInv, ReportInv
  <2> QED BY <2>1, <2>2
<1>4. TokenInv'
  BY <1>1 DEF EndInv, TokenInv, TypeOK
<1>5. InterruptionIsJustified'
  BY <1>0, <1>1 DEF EndInv, InterruptionIsJustified, effective_deadline_passed
<1>6. AbandonedWorkerIsCancelled'
  BY <1>0, <1>1 DEF EndInv, AbandonedWorkerIsCancelled, Cancelled, TypeOK
<1> QED
  BY <1>3, <1>4, <1>5, <1>6 DEF EndInv

\* A step that reports nothing, under which tokens and clocks only advance and
\* no request with a thread ends.
LEMMA SilenceKeepsEndInv ==
    ASSUME TypeOK, TypeOK', EndInv, UNCHANGED <<events, outcome, childCancelled>>,
           cancelled \subseteq cancelled', deadlinePassed \subseteq deadlinePassed',
           timerFired \subseteq timerFired',
           \A r \in Requests : phase'[r] # phase[r] =>
              \/ phase[r] \in Queueing \cup {"unsubmitted"} /\ phase'[r] \in Queueing \cup {"prepared"}
              \/ phase[r] \in {"select", "operation"} /\ phase'[r] \in {"select", "operation"}
              \/ phase[r] = "returning" /\ phase'[r] = "done"
              \/ phase'[r] = "dropped",
           \A r \in workers' \ workers : phase[r] = "operation"
    PROVE  EndInv'
<1>1. ReportInv'
  BY DEF EndInv, ReportInv, Queueing
<1>2. TokenInv'
  BY DEF EndInv, TokenInv, TypeOK, Queueing
<1>3. InterruptionIsJustified'
  BY DEF EndInv, InterruptionIsJustified, effective_deadline_passed
<1>4. AbandonedWorkerIsCancelled'
  BY DEF EndInv, AbandonedWorkerIsCancelled, Cancelled, TypeOK, Queueing
<1> QED
  BY <1>1, <1>2, <1>3, <1>4 DEF EndInv

LEMMA PollKeepsEndInv ==
    ASSUME TypeOK, TypeOK', EndInv, NEW r \in Requests, Poll(r)
    PROVE  EndInv'
<1>0. /\ r \in childCancelled => phase[r] \in {"returning", "done", "dropped"}
      /\ r \in workers => phase[r] \in {"select", "operation", "returning", "done", "dropped"}
  BY DEF EndInv, TokenInv
<1>1. CASE QueuedCancelled(r)
  <2>1. /\ phase[r] = "cancel_poll" /\ fail_with(r, "cancelled") /\ SubmissionOf[r] \in cancelled
        /\ childCancelled' = childCancelled \cup {r} /\ UNCHANGED <<cancelled, clocks, workers>>
    BY <1>0, <1>1 DEF QueuedCancelled, give_up, Cancelled
  <2> QED BY <2>1, FailureKeepsEndInv DEF Queueing, Errors
<1>2. CASE QueuedTimedOut(r)
  <2>1. /\ phase[r] = "deadline_poll" /\ fail_with(r, "timed_out") /\ effective_deadline_passed(r)
        /\ childCancelled' = childCancelled \cup {r} /\ UNCHANGED <<cancelled, clocks, workers>>
    BY <1>2 DEF QueuedTimedOut, give_up, effective_deadline_passed
  <2> QED BY <2>1, FailureKeepsEndInv DEF Queueing, Errors
<1>3. CASE ToolNotFound(r)
  <2>1. /\ phase[r] = "prepared" /\ fail_with(r, "tool_not_found")
        /\ UNCHANGED <<cancelled, childCancelled, clocks, workers>>
    BY <1>3 DEF ToolNotFound, tokens
  <2> QED BY <1>0, <2>1, FailureKeepsEndInv DEF Running, Errors
<1>4. CASE Panicked(r)
  <2>1. /\ phase[r] \in {"prepared", "operation"} /\ fail_with(r, "execution_panic")
        /\ phase[r] = "operation" => r \notin workers
        /\ UNCHANGED <<cancelled, childCancelled, clocks, workers>>
    BY <1>4 DEF Panicked, tokens
  <2> QED BY <1>0, <2>1, FailureKeepsEndInv DEF Running, Errors
<1>5. CASE Interrupted(r)
  <2>1. /\ phase[r] = "select" /\ childCancelled' = childCancelled \cup {r}
        /\ UNCHANGED <<cancelled, clocks, workers>>
        /\ \/ fail_with(r, "cancelled") /\ SubmissionOf[r] \in cancelled
           \/ fail_with(r, "timed_out") /\ effective_deadline_passed(r)
    BY <1>0, <1>5 DEF Interrupted, Cancelled
  <2> QED BY <2>1, FailureKeepsEndInv DEF Running, Errors
<1>6. CASE ToolFails(r)
  <2>1. /\ phase[r] = "operation" /\ r \notin workers
        /\ fail_with(r, "validation_error") \/ fail_with(r, "execution_error")
        /\ UNCHANGED <<cancelled, childCancelled, clocks, workers>>
    BY <1>6 DEF ToolFails, tokens
  <2> QED BY <2>1, FailureKeepsEndInv DEF Running, Errors
<1>7. CASE Started(r)
  <2>1. /\ phase[r] = "prepared" /\ phase' = [phase EXCEPT ![r] = "select"]
        /\ events' = [events EXCEPT ![r] = Append(events[r], "started")]
        /\ UNCHANGED <<cancelled, childCancelled, deadlinePassed, timerFired, outcome, workers>>
    BY <1>7 DEF Started, tokens, clocks, GoTo
  <2>2. events[r] = <<>> /\ outcome[r] = "none"
    BY <2>1 DEF EndInv, ReportInv
  <2>3. /\ phase'[r] = "select" /\ events'[r] = <<"started">>
        /\ \A x \in Requests \ {r} : phase'[x] = phase[x] /\ events'[x] = events[x]
    BY <2>1, <2>2, AppendFailed DEF TypeOK
  <2>4. ReportInv'
    <3>1. ASSUME NEW x \in Requests, x # r PROVE
             /\ phase'[x] = phase[x] /\ events'[x] = events[x] /\ outcome'[x] = outcome[x]
      BY <2>1, <2>3, <3>1
    <3> QED BY <2>1, <2>2, <2>3, <3>1 DEF EndInv, ReportInv, Queueing, Errors
  <2>5. TokenInv' /\ InterruptionIsJustified' /\ AbandonedWorkerIsCancelled'
    BY <2>1, <2>2, <2>3 DEF EndInv, TokenInv, InterruptionIsJustified, AbandonedWorkerIsCancelled,
       effective_deadline_passed, Cancelled, TypeOK
  <2> QED BY <2>4, <2>5 DEF EndInv
<1>8. CASE Succeeded(r)
  <2>1. /\ phase[r] = "operation" /\ r \notin workers /\ phase' = [phase EXCEPT ![r] = "returning"]
        /\ outcome' = [outcome EXCEPT ![r] = "ok"]
        /\ UNCHANGED <<cancelled, childCancelled, deadlinePassed, timerFired, events, workers>>
    BY <1>8 DEF Succeeded, tokens, clocks, GoTo
  <2>2. events[r] = <<"started">>
    BY <2>1 DEF EndInv, ReportInv
  <2>3. /\ phase'[r] = "returning" /\ outcome'[r] = "ok"
        /\ \A x \in Requests \ {r} : phase'[x] = phase[x] /\ outcome'[x] = outcome[x]
    BY <2>1 DEF TypeOK
  <2>4. ReportInv'
    <3>1. ASSUME NEW x \in Requests, x # r PROVE
             /\ phase'[x] = phase[x] /\ events'[x] = events[x] /\ outcome'[x] = outcome[x]
      BY <2>1, <2>3, <3>1
    <3> QED BY <2>1, <2>2, <2>3, <3>1 DEF EndInv, ReportInv, Queueing, Errors
  <2>5. TokenInv' /\ InterruptionIsJustified' /\ AbandonedWorkerIsCancelled'
    BY <2>1, <2>2, <2>3 DEF EndInv, TokenInv, InterruptionIsJustified, AbandonedWorkerIsCancelled,
       effective_deadline_passed, Cancelled, TypeOK
  <2> QED BY <2>4, <2>5 DEF EndInv
<1>9. CASE \/ NotCancelled(r) \/ FirstPermitPoll(r) \/ LaterPermitPoll(r) \/ KeepWaiting(r)
           \/ PollOperation(r) \/ Validated(r) \/ OperationPending(r) \/ StartWorker(r) \/ Return(r)
  <2>1. /\ UNCHANGED <<events, outcome, childCancelled, cancelled, deadlinePassed, timerFired>>
        /\ \A x \in workers' \ workers : phase[x] = "operation"
        /\ \/ phase' = phase
           \/ \E p \in Queueing \cup {"prepared"} :
                 phase[r] \in Queueing /\ phase' = [phase EXCEPT ![r] = p]
           \/ \E p \in {"select", "operation"} :
                 phase[r] \in {"select", "operation"} /\ phase' = [phase EXCEPT ![r] = p]
           \/ phase[r] = "returning" /\ phase' = [phase EXCEPT ![r] = "done"]
    BY <1>9 DEF NotCancelled, FirstPermitPoll, LaterPermitPoll, KeepWaiting, PollOperation, Validated,
       OperationPending, StartWorker, Return, GoTo, tokens, clocks, reports, Queueing
  <2> QED BY <2>1, SilenceKeepsEndInv DEF TypeOK
<1> QED
  BY <1>1, <1>2, <1>3, <1>4, <1>5, <1>6, <1>7, <1>8, <1>9 DEF Poll

LEMMA NextKeepsEndInv == TypeOK /\ TypeOK' /\ EndInv /\ [Next]_vars => EndInv'
<1> SUFFICES ASSUME TypeOK, TypeOK', EndInv, [Next]_vars PROVE EndInv'
  OBVIOUS
<1>1. ASSUME NEW b \in Submissions, Submit(b) \/ DropSubmission(b) PROVE EndInv'
  <2>1. /\ UNCHANGED <<events, outcome, childCancelled, cancelled, deadlinePassed, timerFired, workers>>
        /\ \A r \in Requests : phase'[r] # phase[r] =>
              \/ phase[r] = "unsubmitted" /\ phase'[r] = "cancel_poll"
              \/ phase'[r] = "dropped"
    BY <1>1 DEF Submit, DropSubmission, tokens, clocks, reports
  <2> QED BY <2>1, SilenceKeepsEndInv DEF Queueing
<1>2. CASE \/ \E b \in Submissions : Cancel(b) \/ DeadlinePasses(b) \/ Collect(b)
           \/ \E r \in Requests : ToolTimerFires(r) \/ WorkerEnds(r)
           \/ UNCHANGED vars
  <2>1. /\ UNCHANGED <<events, outcome, childCancelled, phase>> /\ workers' \subseteq workers
        /\ cancelled \subseteq cancelled' /\ deadlinePassed \subseteq deadlinePassed'
        /\ timerFired \subseteq timerFired'
    BY <1>2 DEF Cancel, DeadlinePasses, Collect, ToolTimerFires, WorkerEnds, tokens, clocks, reports, vars
  <2> QED BY <2>1, SilenceKeepsEndInv
<1> QED
  BY <1>1, <1>2, PollKeepsEndInv DEF Next

\* How requests end: reported as they end, interrupted only for a reason of
\* their own, and with their threads told.
LEMMA EndsInvariance == Spec => []EndInv
<1>1. Init => EndInv
  BY DEF Init, EndInv, ReportInv, TokenInv, InterruptionIsJustified, AbandonedWorkerIsCancelled,
     Queueing, Errors
<1> QED
  BY <1>1, NextKeepsEndInv, TypeCorrect, PTL DEF Spec

\* The events an observer sees agree with the result the caller gets.
THEOREM EventsAgree == Spec => []EventsMatchOutcome
<1>1. ASSUME EndInv PROVE EventsMatchOutcome
  <2>1. "started" \notin Range(<<>>) /\ "started" \notin Range(<<"failed">>)
    BY DEF Range
  <2>2. \A r \in Requests : phase[r] \in Queueing \/ outcome[r] = "tool_not_found" =>
           "started" \notin Range(events[r])
    BY <1>1, <2>1 DEF EndInv, ReportInv
  <2> QED BY <1>1, <2>2 DEF EndInv, ReportInv, EventsMatchOutcome
<1> QED
  BY <1>1, EndsInvariance, PTL

\* A request is interrupted only because of its own submission or timeout.
THEOREM InterruptionsAreJustified == Spec => []InterruptionIsJustified
<1>1. EndInv => InterruptionIsJustified
  BY DEF EndInv
<1> QED
  BY <1>1, EndsInvariance, PTL

\* A thread that outlives its request finds its token cancelled.
THEOREM AbandonedWorkersAreCancelled == Spec => []AbandonedWorkerIsCancelled
<1>1. EndInv => AbandonedWorkerIsCancelled
  BY DEF EndInv
<1> QED
  BY <1>1, EndsInvariance, PTL

-----------------------------------------------------------------------------
LEMMA RangeOfAppend ==
    ASSUME NEW S, NEW s \in Seq(S), NEW e \in S
    PROVE  Range(Append(s, e)) = Range(s) \cup {e}
<1> DEFINE n == Len(s)
           a == Append(s, e)
<1>1. n \in Nat /\ DOMAIN s = 1..n
  OBVIOUS
<1>2. /\ DOMAIN a = 1..(n + 1) /\ a[n + 1] = e
      /\ \A i \in 1..n : a[i] = s[i]
  BY AppendProperties
<1> HIDE DEF n, a
<1>3. Range(a) \subseteq Range(s) \cup {e}
  <2> SUFFICES ASSUME NEW i \in 1..(n + 1) PROVE a[i] \in Range(s) \cup {e}
    BY <1>2 DEF Range
  <2>1. i \in 1..n \/ i = n + 1
    BY <1>1
  <2> QED BY <1>1, <1>2, <2>1 DEF Range
<1>4. Range(s) \cup {e} \subseteq Range(a)
  <2>1. ASSUME NEW i \in 1..n PROVE s[i] \in Range(a)
    <3>1. i \in 1..(n + 1) /\ a[i] = s[i]
      BY <1>1, <1>2
    <3> QED BY <1>2, <3>1 DEF Range
  <2>2. n + 1 \in 1..(n + 1)
    BY <1>1
  <2> QED BY <1>1, <1>2, <2>1, <2>2 DEF Range
<1> QED
  BY <1>3, <1>4 DEF a

\* What execute has collected is what is done, and it is collected once.
LEMMA NextKeepsResults ==
    TypeOK /\ DoneInv /\ ResultsInInputOrder /\ [Next]_vars => DoneInv' /\ ResultsInInputOrder'
<1> SUFFICES ASSUME TypeOK, DoneInv, ResultsInInputOrder, [Next]_vars
             PROVE  DoneInv' /\ ResultsInInputOrder'
  OBVIOUS
<1>1. ASSUME UNCHANGED <<completed, output>>,
             \A r \in Requests : phase'[r] = "done" <=> phase[r] = "done"
      PROVE  DoneInv' /\ ResultsInInputOrder'
  <2>1. \A b \in Submissions : {r \in RequestsOf(b) : phase'[r] = "done"}
                                 = {r \in RequestsOf(b) : phase[r] = "done"}
    BY <1>1 DEF RequestsOf
  <2> QED BY <1>1, <2>1 DEF DoneInv, ResultsInInputOrder, RequestsOf
<1>2. ASSUME NEW r \in Requests, Return(r) PROVE DoneInv' /\ ResultsInInputOrder'
  <2> DEFINE b == SubmissionOf[r]
  <2>1. /\ output' = output /\ phase' = [phase EXCEPT ![r] = "done"]
        /\ completed' = [completed EXCEPT ![b] = Append(completed[b], r)]
    BY <1>2 DEF Return, GoTo
  <2>2. b \in Submissions /\ completed[b] \in Seq(Requests)
    BY BatchAssumption DEF TypeOK
  <2>3. Range(completed'[b]) = Range(completed[b]) \cup {r}
    BY <2>1, <2>2, RangeOfAppend DEF TypeOK
  <2>4. ASSUME NEW c \in Submissions
        PROVE  Range(completed'[c]) = {x \in RequestsOf(c) : phase'[x] = "done"}
    <3>1. Range(completed[c]) = {x \in RequestsOf(c) : phase[x] = "done"}
      BY DEF DoneInv
    <3>2. CASE c = b
      <4>1. {x \in RequestsOf(c) : phase'[x] = "done"}
              = {x \in RequestsOf(c) : phase[x] = "done"} \cup {r}
        BY <2>1, <3>2 DEF RequestsOf, TypeOK
      <4> QED BY <2>3, <3>1, <3>2, <4>1
    <3>3. CASE c # b
      <4>1. completed'[c] = completed[c]
        BY <2>1, <2>2, <3>3 DEF TypeOK
      <4>2. {x \in RequestsOf(c) : phase'[x] = "done"} = {x \in RequestsOf(c) : phase[x] = "done"}
        BY <2>1, <3>3 DEF RequestsOf, TypeOK
      <4> QED BY <3>1, <4>1, <4>2
    <3> QED BY <3>2, <3>3
  <2>5. DoneInv'
    BY <2>4 DEF DoneInv, RequestsOf
  <2> QED BY <2>1, <2>5 DEF ResultsInInputOrder, RequestsOf
<1>3. ASSUME NEW b \in Submissions, Collect(b) PROVE DoneInv' /\ ResultsInInputOrder'
  <2>1. /\ UNCHANGED <<phase, completed>>
        /\ \A r \in RequestsOf(b) : phase[r] = "done"
    BY <1>3 DEF Collect
  <2>2. PICK sorted \in Sortings(completed[b]) : output' = [output EXCEPT ![b] = sorted]
    BY <1>3 DEF Collect
  <2>3. Range(completed[b]) = RequestsOf(b)
    BY <2>1 DEF DoneInv
  <2>4. /\ Range(sorted) = RequestsOf(b)
        /\ \A i, j \in DOMAIN sorted : i < j => Index[sorted[i]] < Index[sorted[j]]
    BY <2>2, <2>3 DEF Sortings
  <2>5. output'[b] = sorted /\ \A c \in Submissions \ {b} : output'[c] = output[c]
    BY <2>2 DEF TypeOK
  <2>6. ASSUME NEW c \in Submissions, output'[c] # <<>>
        PROVE  /\ Range(output'[c]) = RequestsOf(c)
               /\ \A i, j \in DOMAIN output'[c] :
                     i < j => Index[output'[c][i]] < Index[output'[c][j]]
    <3>1. CASE c = b
      BY <2>4, <2>5, <3>1
    <3>2. CASE c # b
      BY <2>5, <2>6, <3>2 DEF ResultsInInputOrder
    <3> QED BY <3>1, <3>2
  <2>7. ResultsInInputOrder'
    BY <2>6 DEF ResultsInInputOrder, RequestsOf
  <2> QED BY <2>1, <2>7 DEF DoneInv, RequestsOf
<1>4. ASSUME NEW r \in Requests, Poll(r), ~Return(r)
      PROVE  /\ UNCHANGED <<completed, output>>
             /\ \E p \in Phases \ {"done"} : phase' = [phase EXCEPT ![r] = p]
             /\ phase[r] # "done"
  BY <1>4 DEF Poll, QueuedCancelled, NotCancelled, FirstPermitPoll, LaterPermitPoll, QueuedTimedOut,
     KeepWaiting, ToolNotFound, Started, Panicked, Interrupted, PollOperation, Validated, ToolFails,
     OperationPending, StartWorker, Succeeded, give_up, fail_with, GoTo, batches, Phases, TypeOK
<1>5. ASSUME NEW r \in Requests, Poll(r), ~Return(r) PROVE DoneInv' /\ ResultsInInputOrder'
  BY <1>1, <1>4, <1>5 DEF TypeOK
<1>6. ASSUME NEW b \in Submissions, Submit(b) \/ DropSubmission(b)
      PROVE  DoneInv' /\ ResultsInInputOrder'
  <2>1. /\ UNCHANGED <<completed, output>>
        /\ \A r \in Requests : phase'[r] = "done" <=> phase[r] = "done"
    BY <1>6 DEF Submit, DropSubmission, batches
  <2> QED BY <1>1, <2>1
<1>7. CASE \/ \E b \in Submissions : Cancel(b) \/ DeadlinePasses(b)
           \/ \E r \in Requests : ToolTimerFires(r) \/ WorkerEnds(r)
           \/ UNCHANGED vars
  <2>1. UNCHANGED <<completed, output, phase>>
    BY <1>7 DEF Cancel, DeadlinePasses, ToolTimerFires, WorkerEnds, batches, vars
  <2> QED BY <1>1, <2>1
<1> QED
  BY <1>2, <1>3, <1>5, <1>6, <1>7 DEF Next

\* execute_all returns one result per request, in the order of the requests.
THEOREM ResultsAreInOrder == Spec => []ResultsInInputOrder
<1>1. Init => DoneInv /\ ResultsInInputOrder
  <2>1. Range(<<>>) = {}
    BY DEF Range
  <2> QED BY <2>1 DEF Init, DoneInv, ResultsInInputOrder, RequestsOf
<1> QED
  BY <1>1, NextKeepsResults, TypeCorrect, PTL DEF Spec

-----------------------------------------------------------------------------
\* A request that was cancelled before it was submitted, from then on: it can
\* only be submitted, and then the first thing its future looks at is the
\* token.
Doomed(r) ==
    /\ SubmissionOf[r] \in cancelled
    /\ phase[r] \in {"unsubmitted", "cancel_poll", "returning", "done", "dropped"}
    /\ phase[r] = "cancel_poll" => events[r] = <<>>
    /\ events[r] \in {<<>>, <<"failed">>}
    /\ held[r] = {}
    /\ r \notin waiting

\* A request that neither holds nor waits gets nothing when others release.
LEMMA ReleasePassesBy ==
    ASSUME TypeOK, NEW rel \in SUBSET Requests, Release(rel), NEW r \in Requests, held[r] = {},
           r \notin waiting
    PROVE  held'[r] = {} /\ r \notin waiting'
<1> DEFINE S == UNION {held[x] : x \in rel}
           base == [x \in Requests |-> IF x \in rel THEN {} ELSE held[x]]
<1>1. PICK to \in Deals(S, waiting \ rel, base) :
        /\ held' = Now(base, to)
        /\ waiting' = {x \in waiting \ rel : ~Satisfied(x, Now(base, to)[x])}
  BY DEF Release
<1>2. base[r] = {}
  OBVIOUS
<1> HIDE DEF S, base
<1>3. to \in [S -> (waiting \ rel) \cup {Pool}]
  BY <1>1 DEF Deals
<1>4. \A p \in DOMAIN to : to[p] # r
  BY <1>3, PoolAssumption
<1>5. held'[r] = {}
  BY <1>1, <1>2, <1>4 DEF Now
<1> QED
  BY <1>1, <1>5

LEMMA DoomStays ==
    ASSUME TypeOK, EndInv, NEW r \in Requests, Doomed(r), [Next]_vars
    PROVE  Doomed(r)'
<1>0. /\ SubmissionOf[r] \in cancelled /\ held[r] = {} /\ r \notin waiting
      /\ phase[r] \in {"unsubmitted", "cancel_poll", "returning", "done", "dropped"}
      /\ events[r] \in {<<>>, <<"failed">>}
      /\ phase[r] = "cancel_poll" => events[r] = <<>>
      /\ phase[r] = "unsubmitted" => events[r] = <<>>
  BY DEF Doomed, EndInv, ReportInv
<1>1. ASSUME cancelled \subseteq cancelled', phase'[r] = phase[r], events'[r] = events[r],
             held'[r] = {}, r \notin waiting'
      PROVE  Doomed(r)'
  BY <1>0, <1>1 DEF Doomed
<1>2. ASSUME NEW b \in Submissions, Submit(b) PROVE Doomed(r)'
  <2>1. UNCHANGED <<cancelled, events, held, waiting>>
    BY <1>2 DEF Submit, semaphore, tokens, reports
  <2>2. phase'[r] = phase[r] \/ (phase[r] = "unsubmitted" /\ phase'[r] = "cancel_poll")
    BY <1>2 DEF Submit
  <2> QED BY <1>0, <2>1, <2>2 DEF Doomed
<1>3. ASSUME NEW b \in Submissions, DropSubmission(b) PROVE Doomed(r)'
  <2> DEFINE gone == {x \in RequestsOf(b) : phase[x] # "done"}
  <2>1. /\ UNCHANGED <<cancelled, events>> /\ Release(gone)
        /\ phase'[r] = phase[r] \/ phase'[r] = "dropped"
    BY <1>3 DEF DropSubmission, tokens, reports
  <2>2. gone \in SUBSET Requests
    BY DEF RequestsOf
  <2> HIDE DEF gone
  <2>3. held'[r] = {} /\ r \notin waiting'
    BY <1>0, <2>1, <2>2, ReleasePassesBy
  <2> QED BY <1>0, <2>1, <2>3 DEF Doomed
<1>4. ASSUME NEW x \in Requests, QueuedCancelled(x) \/ QueuedTimedOut(x) \/ Return(x) PROVE Doomed(r)'
  <2>1. Release({x}) /\ cancelled' = cancelled
    BY <1>4 DEF QueuedCancelled, QueuedTimedOut, Return, give_up, tokens
  <2>2. held'[r] = {} /\ r \notin waiting'
    BY <1>0, <2>1, ReleasePassesBy
  <2>3. CASE x # r
    <3>1. phase'[r] = phase[r] /\ events'[r] = events[r]
      BY <1>4, <2>3 DEF QueuedCancelled, QueuedTimedOut, Return, give_up, fail_with, GoTo, reports, TypeOK
    <3> QED BY <1>1, <2>1, <2>2, <3>1
  <2>4. CASE x = r /\ Return(r)
    <3>1. phase'[r] = "done" /\ events' = events
      BY <2>4 DEF Return, GoTo, reports, TypeOK
    <3> QED BY <1>0, <2>1, <2>2, <3>1 DEF Doomed
  <2>5. CASE x = r /\ (QueuedCancelled(r) \/ QueuedTimedOut(r))
    <3>1. /\ phase[r] = "cancel_poll" /\ phase'[r] = "returning"
          /\ events'[r] = Append(events[r], "failed")
      BY <1>0, <2>5 DEF QueuedCancelled, QueuedTimedOut, give_up, fail_with, GoTo, TypeOK
    <3>2. events'[r] = <<"failed">>
      BY <1>0, <3>1, AppendFailed
    <3> QED BY <1>0, <2>1, <2>2, <3>1, <3>2 DEF Doomed
  <2> QED BY <1>4, <2>3, <2>4, <2>5
<1>5. ASSUME NEW x \in Requests, Poll(x), ~QueuedCancelled(x), ~QueuedTimedOut(x), ~Return(x)
      PROVE  Doomed(r)'
  <2>1. /\ cancelled' = cancelled
        /\ phase[x] \notin {"unsubmitted", "returning", "done", "dropped"}
        /\ phase[x] = "cancel_poll" => ~Cancelled(x)
    BY <1>5 DEF Poll, NotCancelled, FirstPermitPoll, LaterPermitPoll, KeepWaiting, ToolNotFound,
       Started, Panicked, Interrupted, PollOperation, Validated, ToolFails, OperationPending,
       StartWorker, Succeeded, tokens
  <2>2. x # r
    BY <1>0, <2>1 DEF Cancelled
  <2>3. phase'[r] = phase[r] /\ events'[r] = events[r] /\ held'[r] = held[r] /\ (r \in waiting' => r \in waiting)
    BY <1>5, <2>2 DEF Poll, NotCancelled, FirstPermitPoll, LaterPermitPoll, KeepWaiting, ToolNotFound,
       Started, Panicked, Interrupted, PollOperation, Validated, ToolFails, OperationPending,
       StartWorker, Succeeded, fail_with, GoTo, semaphore, reports, TypeOK
  <2> QED BY <1>0, <1>1, <2>1, <2>3
<1>6. CASE \/ \E b \in Submissions : Cancel(b) \/ DeadlinePasses(b) \/ Collect(b)
           \/ \E x \in Requests : ToolTimerFires(x) \/ WorkerEnds(x)
           \/ UNCHANGED vars
  <2>1. UNCHANGED <<phase, events, held, waiting>> /\ cancelled \subseteq cancelled'
    BY <1>6 DEF Cancel, DeadlinePasses, Collect, ToolTimerFires, WorkerEnds, semaphore, tokens, reports, vars
  <2> QED BY <1>0, <1>1, <2>1
<1> QED
  BY <1>2, <1>3, <1>4, <1>5, <1>6 DEF Next

\* Nothing is started for, and no permit goes to, a submission that was
\* cancelled before execute was called.
THEOREM CancelledNeverStarts == Spec => CancelledBeforeSubmissionNeverStarts
<1>1. ASSUME NEW r \in Requests
      PROVE  Spec => [](SubmissionOf[r] \in cancelled /\ phase[r] = "unsubmitted"
                           => [](events[r] \in {<<>>, <<"failed">>} /\ held[r] = {}))
  <2>1. TypeOK /\ EndInv /\ Doomed(r) /\ [Next]_vars => Doomed(r)'
    BY DoomStays
  <2>2. /\ IInv /\ EndInv /\ SubmissionOf[r] \in cancelled /\ phase[r] = "unsubmitted" => Doomed(r)
    <3>1. ASSUME IInv, EndInv, phase[r] = "unsubmitted"
          PROVE  held[r] = {} /\ r \notin waiting /\ events[r] = <<>>
      BY <3>1 DEF IInv, PermitsConserved, Ownership, Queueing, EndInv, ReportInv
    <3> QED BY <3>1 DEF Doomed
  <2>3. Doomed(r) => events[r] \in {<<>>, <<"failed">>} /\ held[r] = {}
    BY DEF Doomed
  <2> QED
    BY <2>1, <2>2, <2>3, Invariance, EndsInvariance, TypeCorrect, PTL DEF Spec
<1> QED
  BY <1>1 DEF CancelledBeforeSubmissionNeverStarts
=============================================================================
