------------------------- MODULE NativeShellProofs -------------------------
(***************************************************************************)
(* For every set of descendants and every size of pipe, buffer and limit:  *)
(* a signal never reaches a stranger, a run that ends early leaves nothing *)
(* behind, and what is captured is exact.                                  *)
(***************************************************************************)
EXTENDS NativeShell, TLAPS

Readers == [len : Nat, truncated : BOOLEAN, done : BOOLEAN]

(* The types of the processes and of the streams.                          *)
GroupTypes ==
    /\ run \in {"spawn", "select", "killed", "stdout", "stderr"} \cup Ended
    /\ leader \in {"none", "running", "zombie", "reaped"}
    /\ kids \subseteq Kids
    /\ holds \in [Streams -> SUBSET (Kids \cup {"leader"})]

StreamTypes ==
    /\ pipe \in [Streams -> Nat]
    /\ written \in [Streams -> Nat]
    /\ reader \in [Streams -> Readers]

(* The killer is armed exactly while the child may still be unreaped, and  *)
(* somebody else gets the id of the group only after that.                 *)
ArmedWhileUnreaped ==
    /\ run = "spawn" => leader = "none" /\ kids = {} /\ ~armed
    /\ run \in {"select", "killed"} => armed /\ leader \in {"running", "zombie"}
    /\ run \in {"stdout", "stderr"} => ~armed /\ leader = "reaped"
    /\ stranger => leader = "reaped" /\ kids = {}

GroupInv == GroupTypes /\ ArmedWhileUnreaped /\ KillsOwnGroup /\ EndedEarlyLeavesNothing

(* What a reader has taken from its pipe is accounted for, and a reader    *)
(* that has seen the end leaves nothing to be read or written.             *)
Taken(s) == written[s] - pipe[s]

ReadExactly ==
    \A s \in Streams :
        /\ pipe[s] <= written[s]
        /\ reader[s].len = IF Taken(s) <= Cap THEN Taken(s) ELSE Cap
        /\ reader[s].truncated <=> Taken(s) > Cap
        /\ reader[s].done => pipe[s] = 0 /\ holds[s] = {} /\ run # "spawn"

CaptureInv == StreamTypes /\ ReadExactly

-----------------------------------------------------------------------------
(* Nothing runs before the child is spawned.                               *)
LEMMA InitGroupInv == Init => GroupInv
  BY DEF Init, GroupInv, GroupTypes, ArmedWhileUnreaped, KillsOwnGroup,
         EndedEarlyLeavesNothing, Ended

(* Killing the group while its child is unreaped hits no stranger and      *)
(* leaves nothing alive.                                                   *)
LEMMA KillingIsSafe ==
    ASSUME GroupInv, leader \in {"running", "zombie"}, KillGroup
    PROVE  /\ ~stranger' /\ ~hit'
           /\ leader' = "zombie" /\ kids' = {}
           /\ holds' \in [Streams -> SUBSET (Kids \cup {"leader"})]
  BY DEF GroupInv, GroupTypes, ArmedWhileUnreaped, KillsOwnGroup, KillGroup

(* When run ends, its locals are dropped: either the killer is armed and   *)
(* nothing of the command survives, or it was disarmed after the reaping.  *)
LEMMA DroppingIsSafe ==
    ASSUME GroupInv, run \notin Ended \cup {"spawn"}, DropLocals, run' \in Ended, armed' = armed
    PROVE  GroupInv'
  <1> USE DEF GroupInv, GroupTypes, Ended
  <1>1. CASE armed
    <2>1. leader \in {"running", "zombie"} /\ KillGroup
      BY <1>1 DEF DropLocals, ArmedWhileUnreaped
    <2> QED
      BY <1>1, <2>1, KillingIsSafe
         DEF ArmedWhileUnreaped, KillsOwnGroup, EndedEarlyLeavesNothing, Living
  <1>2. CASE ~armed
    <2>1. UNCHANGED <<leader, kids, holds, stranger, hit>> /\ ~armed'
      BY <1>2 DEF DropLocals, group, others
    <2> QED
      BY <2>1 DEF ArmedWhileUnreaped, KillsOwnGroup, EndedEarlyLeavesNothing
  <1> QED
    BY <1>1, <1>2

(* Every step keeps it.                                                    *)
LEMMA NextGroupInv == GroupInv /\ [Next]_vars => GroupInv'
  <1> SUFFICES ASSUME GroupInv, [Next]_vars PROVE GroupInv'
    OBVIOUS
  <1> USE DEF Ended
  <1>0. GroupTypes /\ ArmedWhileUnreaped /\ KillsOwnGroup /\ EndedEarlyLeavesNothing
    BY DEF GroupInv
  <1>1. CASE SpawnFails \/ Spawn
    BY <1>0, <1>1 DEF SpawnFails, Spawn, group, others, GroupInv, GroupTypes, ArmedWhileUnreaped,
       KillsOwnGroup, EndedEarlyLeavesNothing
  <1>2. CASE SelectCancelled
    <2>1. KillGroup /\ leader \in {"running", "zombie"} /\ run' = "killed" /\ armed' = armed /\ armed
      BY <1>0, <1>2 DEF SelectCancelled, ArmedWhileUnreaped
    <2> QED
      BY <1>0, <2>1, KillingIsSafe DEF GroupInv, GroupTypes, ArmedWhileUnreaped,
         KillsOwnGroup, EndedEarlyLeavesNothing
  <1>3. CASE WaitReturns
    BY <1>0, <1>3 DEF WaitReturns, others, GroupInv, GroupTypes, ArmedWhileUnreaped,
       KillsOwnGroup, EndedEarlyLeavesNothing
  <1>4. CASE Collect("stdout", "stdout", "stderr")
    BY <1>0, <1>4 DEF Collect, group, others, GroupInv, GroupTypes, ArmedWhileUnreaped,
       KillsOwnGroup, EndedEarlyLeavesNothing
  <1>5. CASE Collect("stderr", "stderr", "returned") \/ WaitFails \/ Drop
    <2>1. run \notin Ended \cup {"spawn"} /\ DropLocals /\ run' \in Ended /\ armed' = armed
      BY <1>0, <1>5 DEF Collect, WaitFails, Drop
    <2> QED
      BY <2>1, DroppingIsSafe
  <1>6. CASE ReapOrphan \/ IdReused
    BY <1>0, <1>6 DEF ReapOrphan, IdReused, group, others, GroupInv, GroupTypes, ArmedWhileUnreaped,
       KillsOwnGroup, EndedEarlyLeavesNothing, Living
  <1>7. CASE LeaderExits
    BY <1>0, <1>7 DEF LeaderExits, others, GroupInv, GroupTypes, ArmedWhileUnreaped,
       KillsOwnGroup, EndedEarlyLeavesNothing, Living
  <1>8. ASSUME NEW k \in Kids, Fork(k) PROVE GroupInv'
    <2>1. /\ UNCHANGED <<run, leader, armed, stranger, hit>>
          /\ kids' = kids \cup {k}
          /\ kids # {} \/ leader = "running"
      BY <1>8 DEF Fork, Living, others
    <2>2. holds' \in [Streams -> SUBSET (Kids \cup {"leader"})]
      BY <1>0, <1>8 DEF Fork, GroupTypes
    <2> QED
      BY <1>0, <2>1, <2>2 DEF GroupInv, GroupTypes, ArmedWhileUnreaped,
         KillsOwnGroup, EndedEarlyLeavesNothing, Living
  <1>9. ASSUME NEW k \in Kids, KidExits(k) PROVE GroupInv'
    BY <1>0, <1>9 DEF KidExits, others, GroupInv, GroupTypes, ArmedWhileUnreaped,
       KillsOwnGroup, EndedEarlyLeavesNothing, Living
  <1>10. ASSUME NEW s \in Streams, NEW k \in Kids \cup {"leader"}, CloseStream(k, s)
         PROVE  GroupInv'
    BY <1>0, <1>10 DEF CloseStream, others, GroupInv, GroupTypes, ArmedWhileUnreaped,
       KillsOwnGroup, EndedEarlyLeavesNothing, Living
  <1>11. CASE \/ Cancel \/ UNCHANGED vars
              \/ \E s \in Streams : Write(s) \/ ReadSome(s) \/ ReadEnd(s)
    <2>1. UNCHANGED <<run, leader, kids, holds, armed, stranger, hit>>
      BY <1>11 DEF Cancel, Write, ReadSome, ReadEnd, vars, group, others
    <2> QED
      BY <1>0, <2>1 DEF GroupInv, GroupTypes, ArmedWhileUnreaped, KillsOwnGroup,
         EndedEarlyLeavesNothing, Living
  <1> QED
    BY <1>1, <1>2, <1>3, <1>4, <1>5, <1>6, <1>7, <1>8, <1>9, <1>10, <1>11 DEF Next, Run

(* No signal is sent to an id that belongs to somebody else by now: the    *)
(* group killer is disarmed before the child's id can be used again.       *)
THEOREM SignalsStayInGroup == Spec => []KillsOwnGroup
  <1>1. GroupInv => KillsOwnGroup
    BY DEF GroupInv
  <1> QED
    BY <1>1, InitGroupInv, NextGroupInv, PTL DEF Spec

(* A run that is dropped or fails before its child was reaped leaves       *)
(* nothing running (run and the drop of the group killer).                 *)
THEOREM NothingLeftBehind == Spec => []EndedEarlyLeavesNothing
  <1>1. GroupInv => EndedEarlyLeavesNothing
    BY DEF GroupInv
  <1> QED
    BY <1>1, InitGroupInv, NextGroupInv, PTL DEF Spec

-----------------------------------------------------------------------------
(* The smaller of two numbers.                                             *)
LEMMA MinOfTwo ==
    ASSUME NEW a \in Int, NEW b \in Int
    PROVE  Min({a, b}) = IF a <= b THEN a ELSE b
  BY DEF Min

(* One read of n bytes moves the capture from the first t bytes to the     *)
(* first t + n, with the limit taken into account.                         *)
LEMMA ReadKeepsExact ==
    ASSUME NEW t \in Nat, NEW n \in Nat, n > 0, NEW len \in Nat, NEW truncated \in BOOLEAN,
           len = IF t <= Cap THEN t ELSE Cap,
           truncated <=> t > Cap
    PROVE  /\ len + Kept(len, n) = IF t + n <= Cap THEN t + n ELSE Cap
           /\ truncated \/ Truncates(len, n) <=> t + n > Cap
  <1>1. Cap \in Nat
    BY ShellAssumption
  <1>2. Cap - len \in Int
    BY <1>1
  <1>3. Kept(len, n) = IF len >= Cap THEN 0 ELSE IF n <= Cap - len THEN n ELSE Cap - len
    BY <1>2, MinOfTwo DEF Kept
  <1> QED
    BY <1>1, <1>3 DEF Truncates

LEMMA InitCaptureInv == Init => CaptureInv
  BY ShellAssumption DEF Init, CaptureInv, StreamTypes, ReadExactly, Taken, Readers, NewReader

(* Nobody opens a stream again that no process has open.                   *)
LEMMA ClosedStaysClosed ==
    ASSUME [Next]_vars, run # "spawn", NEW s \in Streams, holds[s] = {}
    PROVE  holds'[s] = {}
  <1>1. CASE \/ SpawnFails \/ Cancel \/ WaitReturns \/ ReapOrphan \/ IdReused
             \/ Collect("stdout", "stdout", "stderr") \/ UNCHANGED vars
             \/ \E x \in Streams : Write(x) \/ ReadSome(x) \/ ReadEnd(x)
    BY <1>1 DEF SpawnFails, Cancel, WaitReturns, ReapOrphan, IdReused, Collect, Write, ReadSome,
       ReadEnd, vars, group
  <1>2. CASE \/ SelectCancelled \/ WaitFails \/ Drop \/ Collect("stderr", "stderr", "returned")
    BY <1>2 DEF SelectCancelled, WaitFails, Drop, Collect, DropLocals, KillGroup, group
  <1>3. CASE LeaderExits \/ \E k \in Kids : KidExits(k)
    BY <1>3 DEF LeaderExits, KidExits
  <1>4. CASE \E k \in Kids : Fork(k)
    BY <1>4 DEF Fork
  <1>5. ASSUME NEW x \in Streams, NEW k \in Kids \cup {"leader"}, CloseStream(k, x)
        PROVE  holds'[s] = {}
    BY <1>5 DEF CloseStream
  <1>6. CASE Spawn
    BY <1>6 DEF Spawn
  <1> QED
    BY <1>1, <1>2, <1>3, <1>4, <1>5, <1>6 DEF Next, Run

(* Once it has started, run never goes back to the spawning.               *)
LEMMA SpawnedOnce ==
    ASSUME [Next]_vars, run # "spawn" PROVE run' # "spawn"
  BY DEF Next, vars, Run, SpawnFails, Spawn, Cancel, SelectCancelled, WaitReturns, Collect, WaitFails,
     Drop, ReapOrphan, LeaderExits, IdReused, Fork, KidExits, Write, ReadSome, ReadEnd, CloseStream

LEMMA NextCaptureInv == CaptureInv /\ [Next]_vars => CaptureInv'
  <1> SUFFICES ASSUME CaptureInv, [Next]_vars PROVE CaptureInv'
    OBVIOUS
  <1>0. StreamTypes /\ ReadExactly
    BY DEF CaptureInv
  <1>1. ASSUME NEW s \in Streams, Write(s) PROVE CaptureInv'
    <2>1. PICK n \in 1..PipeSize :
            /\ pipe' = [pipe EXCEPT ![s] = @ + n]
            /\ written' = [written EXCEPT ![s] = @ + n]
      BY <1>1 DEF Write
    <2>2. n \in Nat
      BY <2>1, ShellAssumption
    <2>3. ~reader[s].done /\ UNCHANGED <<reader, holds, run>>
      BY <1>0, <1>1 DEF Write, group, ReadExactly
    <2>4. StreamTypes'
      BY <1>0, <2>1, <2>2, <2>3 DEF StreamTypes
    <2>5. \A x \in Streams : Taken(x)' = Taken(x)
      BY <1>0, <2>1, <2>2 DEF StreamTypes, Taken
    <2>6. ReadExactly'
      BY <1>0, <2>1, <2>2, <2>3, <2>5 DEF StreamTypes, ReadExactly
    <2> QED
      BY <2>4, <2>6 DEF CaptureInv
  <1>2. ASSUME NEW s \in Streams, ReadSome(s) PROVE CaptureInv'
    <2> DEFINE n == Min({pipe[s], Scratch})
               r == reader[s]
    <2>1. /\ pipe[s] \in Nat /\ pipe[s] > 0 /\ written[s] \in Nat /\ pipe[s] <= written[s]
          /\ Scratch \in Nat /\ Scratch > 0 /\ Cap \in Nat
      BY <1>0, <1>2, ShellAssumption DEF ReadSome, StreamTypes, ReadExactly
    <2>2. n \in Nat /\ n > 0 /\ n <= pipe[s]
      BY <2>1, MinOfTwo
    <2>3. /\ pipe' = [pipe EXCEPT ![s] = @ - n]
          /\ reader' = [reader EXCEPT ![s] = [r EXCEPT !.len = @ + Kept(@, n),
                                                      !.truncated = @ \/ Truncates(r.len, n)]]
          /\ UNCHANGED <<run, holds, written>>
      BY <1>2 DEF ReadSome, group
    <2> HIDE DEF n
    <2>4. r \in Readers /\ r.len \in Nat /\ r.truncated \in BOOLEAN
      BY <1>0 DEF StreamTypes, Readers
    <2>5. /\ r.len = IF Taken(s) <= Cap THEN Taken(s) ELSE Cap
          /\ r.truncated <=> Taken(s) > Cap
          /\ Taken(s) \in Nat
      BY <1>0, <2>1 DEF ReadExactly, Taken
    <2>6. /\ r.len + Kept(r.len, n) = IF Taken(s) + n <= Cap THEN Taken(s) + n ELSE Cap
          /\ r.truncated \/ Truncates(r.len, n) <=> Taken(s) + n > Cap
      BY <2>2, <2>4, <2>5, ReadKeepsExact
    <2>7. r.len + Kept(r.len, n) \in Nat
      BY <2>1, <2>2, <2>5, <2>6
    <2>8. /\ reader'[s] \in Readers
          /\ reader'[s].len = r.len + Kept(r.len, n)
          /\ reader'[s].truncated <=> (r.truncated \/ Truncates(r.len, n))
          /\ reader'[s].done = r.done
      <3>1. reader'[s] = [r EXCEPT !.len = @ + Kept(@, n), !.truncated = @ \/ Truncates(r.len, n)]
        BY <1>0, <2>3 DEF StreamTypes
      <3>2. (r.truncated \/ Truncates(r.len, n)) \in BOOLEAN
        OBVIOUS
      <3> HIDE DEF r
      <3> QED
        BY <2>4, <2>7, <3>1, <3>2 DEF Readers
    <2>9. \A x \in Streams \ {s} : reader'[x] = reader[x] /\ pipe'[x] = pipe[x]
      BY <1>0, <2>3 DEF StreamTypes
    <2>10. pipe'[s] = pipe[s] - n
      BY <1>0, <2>3 DEF StreamTypes
    <2>11. StreamTypes'
      <3>1. pipe' \in [Streams -> Nat]
        BY <1>0, <2>2, <2>3 DEF StreamTypes
      <3>2. reader' \in [Streams -> Readers]
        <4>1. reader' = [reader EXCEPT ![s] = reader'[s]]
          BY <1>0, <2>3 DEF StreamTypes
        <4> QED
          BY <1>0, <2>8, <4>1 DEF StreamTypes
      <3> QED
        BY <1>0, <2>3, <3>1, <3>2 DEF StreamTypes
    <2>12. Taken(s)' = Taken(s) + n /\ \A x \in Streams \ {s} : Taken(x)' = Taken(x)
      BY <2>1, <2>2, <2>3, <2>9, <2>10 DEF Taken
    <2>13. ~r.done
      BY <1>0, <2>1 DEF ReadExactly
    <2>14. ReadExactly'
      <3> SUFFICES ASSUME NEW x \in Streams
                   PROVE  /\ pipe'[x] <= written'[x]
                          /\ reader'[x].len = IF Taken(x)' <= Cap THEN Taken(x)' ELSE Cap
                          /\ reader'[x].truncated <=> Taken(x)' > Cap
                          /\ reader'[x].done => pipe'[x] = 0 /\ holds'[x] = {} /\ run' # "spawn"
        BY DEF ReadExactly
      <3>1. CASE x = s
        BY <3>1, <2>1, <2>2, <2>3, <2>6, <2>8, <2>10, <2>12, <2>13
      <3>2. CASE x # s
        BY <3>2, <1>0, <2>3, <2>9, <2>12 DEF ReadExactly
      <3> QED
        BY <3>1, <3>2
    <2> QED
      BY <2>11, <2>14 DEF CaptureInv
  <1>3. ASSUME NEW s \in Streams, ReadEnd(s) PROVE CaptureInv'
    <2>1. /\ reader' = [reader EXCEPT ![s] = [reader[s] EXCEPT !.done = TRUE]]
          /\ pipe[s] = 0 /\ holds[s] = {} /\ run # "spawn"
          /\ UNCHANGED <<run, holds, pipe, written>>
      BY <1>3 DEF ReadEnd, group
    <2>2. /\ [reader[s] EXCEPT !.done = TRUE] \in Readers
          /\ [reader[s] EXCEPT !.done = TRUE].len = reader[s].len
          /\ [reader[s] EXCEPT !.done = TRUE].truncated = reader[s].truncated
      BY <1>0 DEF StreamTypes, Readers
    <2>3. StreamTypes'
      BY <1>0, <2>1, <2>2 DEF StreamTypes
    <2>4. \A x \in Streams : Taken(x)' = Taken(x)
      BY <2>1 DEF Taken
    <2>5. ReadExactly'
      BY <1>0, <2>1, <2>2, <2>4 DEF ReadExactly, StreamTypes
    <2> QED
      BY <2>3, <2>5 DEF CaptureInv
  <1>4. CASE UNCHANGED streams
    <2>1. UNCHANGED <<pipe, written, reader>> /\ \A s \in Streams : Taken(s)' = Taken(s)
      BY <1>4 DEF streams, Taken
    <2>2. ReadExactly'
      BY <1>0, <2>1, ClosedStaysClosed, SpawnedOnce DEF ReadExactly
    <2> QED
      BY <1>0, <2>1, <2>2 DEF CaptureInv, StreamTypes
  <1>5. \/ UNCHANGED streams
        \/ \E s \in Streams : Write(s) \/ ReadSome(s) \/ ReadEnd(s)
    BY DEF Next, vars, Run, SpawnFails, Spawn, Cancel, SelectCancelled, WaitReturns, Collect, WaitFails,
       Drop, ReapOrphan, LeaderExits, IdReused, Fork, KidExits, CloseStream
  <1> QED
    BY <1>1, <1>2, <1>3, <1>4, <1>5

(* A reader that is done (read_capped) has kept exactly the first Cap      *)
(* bytes, and says that it truncated exactly when there were more.         *)
THEOREM CaptureIsExact == Spec => []CaptureExact
  <1>1. ASSUME CaptureInv PROVE CaptureExact
    <2> SUFFICES ASSUME NEW s \in Streams, reader[s].done
                 PROVE  /\ reader[s].len = Min({written[s], Cap})
                        /\ reader[s].truncated = (written[s] > Cap)
      BY DEF CaptureExact
    <2>1. written[s] \in Nat /\ Cap \in Nat /\ Taken(s) = written[s]
      BY <1>1, ShellAssumption DEF CaptureInv, StreamTypes, ReadExactly, Taken
    <2>2. Min({written[s], Cap}) = IF written[s] <= Cap THEN written[s] ELSE Cap
      BY <2>1, MinOfTwo
    <2>3. reader[s].truncated \in BOOLEAN /\ (reader[s].truncated <=> written[s] > Cap)
      BY <1>1, <2>1 DEF CaptureInv, StreamTypes, ReadExactly, Readers
    <2> QED
      BY <1>1, <2>1, <2>2, <2>3 DEF CaptureInv, ReadExactly
  <1> QED
    BY <1>1, InitCaptureInv, NextCaptureInv, PTL DEF Spec
=============================================================================
