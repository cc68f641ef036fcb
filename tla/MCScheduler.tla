---------------------------- MODULE MCScheduler ----------------------------
(***************************************************************************)
(* Instances of Scheduler for TLC. Mixed: a batch of two requests shares   *)
(* the pool with a submission of its own. Pair: two submissions of one     *)
(* request each, small enough for every kind of tool and every behaviour.  *)
(***************************************************************************)
EXTENDS Scheduler

MixedRequests == {"r1", "r2", "r3"}
MixedSubmissions == {"batch", "single"}
MixedSubmissionOf == [r \in MixedRequests |-> IF r = "r3" THEN "single" ELSE "batch"]
MixedIndex == [r \in MixedRequests |-> IF r = "r2" THEN 1 ELSE 0]

PairRequests == {"r1", "r2"}
PairSubmissions == {"first", "second"}
PairSubmissionOf == [r \in PairRequests |-> IF r = "r1" THEN "first" ELSE "second"]
PairIndex == [r \in PairRequests |-> 0]
=============================================================================
