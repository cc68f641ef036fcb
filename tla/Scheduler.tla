----------------------------- MODULE Scheduler -----------------------------
(***************************************************************************)
(* executor-core: the scheduler that runs submissions of tool requests     *)
(* over one pool of permits (scheduler.rs, invocation.rs, executor.rs).    *)
(*                                                                         *)
(* A submission is one call of ToolExecutor::execute or execute_all: a     *)
(* batch of requests that share one deadline and one cancellation token.   *)
(* Every request is a future (run_one) that is polled; a step of the       *)
(* model is a stretch of a poll up to the next point where another thread  *)
(* can observe or disturb it: every branch of a select! is a step of its   *)
(* own, because cancellation, a timer or a released permit may arrive      *)
(* between two branches of the same poll.                                  *)
(*                                                                         *)
(* The permits of the semaphore are modelled as tokens, so that "how many" *)
(* becomes "which": a concurrent request wants one of them, an exclusive   *)
(* request wants all of them.                                              *)
(***************************************************************************)
EXTENDS Integers, Sequences, FiniteSets, Functions

CONSTANTS
    Submissions,       \* the calls of execute / execute_all
    Requests,          \* the requests of all submissions
    SubmissionOf,      \* the submission of each request
    Index,             \* the position of each request in its batch
    Kinds,             \* the kinds of tools the requests may name
    Behaviours,        \* what tools may do besides returning their output
    ConcurrencyLimit,  \* ExecutorConfig::concurrency_limit, possibly 0
    MaxPermits,        \* Semaphore::MAX_PERMITS, after the cast to u32
    Deadlined,         \* the submissions built with with_timeout
    ToolTimeout,       \* whether ExecutorConfig::tool_timeout is set
    MayCancel,         \* the submissions whose caller may cancel them
    MayDrop            \* the submissions whose caller may drop the future

ToolKinds == {"concurrent", "exclusive", "panicking", "unknown"}
ToolBehaviours == {"pending", "fails", "panics", "blocks"}

ASSUME BatchAssumption ==
    /\ SubmissionOf \in [Requests -> Submissions]
    /\ Index \in [Requests -> Nat]
    /\ \A r, s \in Requests :
          SubmissionOf[r] = SubmissionOf[s] /\ Index[r] = Index[s] => r = s

ASSUME ConfigAssumption ==
    /\ Kinds \subseteq ToolKinds
    /\ Behaviours \subseteq ToolBehaviours
    /\ ConcurrencyLimit \in Nat
    /\ MaxPermits \in Nat \ {0}
    /\ Deadlined \subseteq Submissions
    /\ ToolTimeout \in BOOLEAN
    /\ MayCancel \subseteq Submissions
    /\ MayDrop \subseteq Submissions

ASSUME FiniteAssumption == IsFiniteSet(Requests)

\* The destination of a permit nobody needs, as opposed to a request.
Pool == "pool"

ASSUME PoolAssumption == Pool \notin Requests

RequestsOf(b) == {r \in Requests : SubmissionOf[r] = b}

VARIABLES
    kind,            \* the kind of tool each request names
    phase,           \* where run_one of each request is
    stage,           \* where invoke_inner of each request is
    free,            \* permits in the semaphore
    held,            \* permits assigned to each request, partly or fully
    waiting,         \* requests queued in the semaphore, not yet satisfied
    ahead,           \* for a waiting request, the requests queued before it
    cancelled,       \* submissions whose cancellation token is cancelled
    childCancelled,  \* requests whose own child token is cancelled
    deadlinePassed,  \* submissions whose deadline has passed
    timerFired,      \* requests whose tool timeout has passed
    events,          \* lifecycle events reported for each request
    outcome,         \* "none", "ok" or the code of the request's error
    workers,         \* requests with a live run_blocking thread
    completed,       \* requests of each submission in order of completion
    output           \* the results execute returned for each submission

semaphore == <<free, held, waiting, ahead>>
tokens    == <<cancelled, childCancelled>>
clocks    == <<deadlinePassed, timerFired>>
reports   == <<events, outcome>>
batches   == <<completed, output>>
vars == <<kind, phase, stage, semaphore, tokens, clocks, reports, workers, batches>>

-----------------------------------------------------------------------------
(* The permit pool.                                                        *)

\* PermitPool::new: the configured limit clamped to 1 .. MAX_PERMITS.
PermitCount == IF ConcurrencyLimit < 1 THEN 1
               ELSE IF ConcurrencyLimit > MaxPermits THEN MaxPermits
               ELSE ConcurrencyLimit

Permits == 1..PermitCount

\* A request for an unknown tool counts as concurrent; a tool whose
\* is_concurrency_safe panics counts as exclusive.
is_concurrent(r) == kind[r] \in {"concurrent", "unknown"}

\* Mutant: an exclusive request acquires a single permit.
Satisfied_OnePermit(r, S) == S # {}

\* S is all that acquire_owned or acquire_many_owned(count) asks for.
Satisfied(r, S) == IF is_concurrent(r) THEN S # {} ELSE S = Permits

\* What the first poll of the acquire future takes out of the semaphore: a
\* concurrent request one permit if there is one, an exclusive request all
\* there are, even when they are not enough.
FirstTake(r) == IF is_concurrent(r) /\ free # {} THEN {CHOOSE p \in free : TRUE}
                ELSE free

\* What every request holds once the permits are dealt, besides its base.
Now(base, to) == [r \in Requests |-> base[r] \cup {p \in DOMAIN to : to[p] = r}]

\* Mutant: whichever waiter is polled first may take the permits.
Deals_AnyOrder(S, queue, base) ==
    {to \in [S -> queue \cup {Pool}] :
        \A p \in S : to[p] = Pool => \A w \in queue : Satisfied(w, Now(base, to)[w])}

\* How the semaphore may hand the permits S to the requests in queue, oldest
\* first, when base is what every request holds already: no waiter gets more
\* than it asked for, and as long as one is not satisfied nothing goes to
\* those behind it or back to the pool. Permits are dealt in increasing order.
Deals(S, queue, base) ==
    {to \in [S -> queue \cup {Pool}] :
        /\ \A w \in queue :
              /\ is_concurrent(w) => \A p, q \in S : to[p] = w /\ to[q] = w => p = q
              /\ ~Satisfied(w, Now(base, to)[w]) => \A p \in S : to[p] \in ahead[w] \cup {w}
        /\ \A p, q \in S : p < q =>
              \/ to[q] = Pool
              \/ to[p] # Pool /\ (to[p] = to[q] \/ to[p] \in ahead[to[q]])}

\* Mutant: permits come back to the pool without waking a waiter.
Release_NoWakeup(rel) ==
    /\ held' = [r \in Requests |-> IF r \in rel THEN {} ELSE held[r]]
    /\ free' = free \cup UNION {held[r] : r \in rel}
    /\ waiting' = waiting \ rel
    /\ ahead' = [r \in Requests |-> IF r \in waiting' THEN ahead[r] \cap waiting' ELSE {}]

\* The requests in rel leave the semaphore: they give up their place in its
\* queue, and what they hold goes to the requests that wait. A waiter that now
\* has all it asked for leaves the queue, what nobody needs stays free.
Release(rel) ==
    LET S     == UNION {held[r] : r \in rel}
        base  == [r \in Requests |-> IF r \in rel THEN {} ELSE held[r]]
        queue == waiting \ rel
    IN \E to \in Deals(S, queue, base) :
        /\ held' = Now(base, to)
        /\ free' = free \cup {p \in S : to[p] = Pool}
        /\ waiting' = {w \in queue : ~Satisfied(w, Now(base, to)[w])}
        /\ ahead' = [r \in Requests |->
                        IF r \in waiting' THEN ahead[r] \cap waiting' ELSE {}]

-----------------------------------------------------------------------------
(* Tokens, deadlines and reports.                                          *)

\* The child token of a request is cancelled with its submission's token.
Cancelled(r) == r \in childCancelled \/ SubmissionOf[r] \in cancelled

\* effective_deadline: the earlier of the submission's deadline and the
\* tool timeout, which starts when the permit has been acquired.
effective_deadline_passed(r) ==
    SubmissionOf[r] \in deadlinePassed \/ r \in timerFired

GoTo(r, p) == phase' = [phase EXCEPT ![r] = p]

\* fail_with: report the failure once, then return the error result.
fail_with(r, code) ==
    /\ events' = [events EXCEPT ![r] = Append(@, "failed")]
    /\ outcome' = [outcome EXCEPT ![r] = code]
    /\ GoTo(r, "returning")

-----------------------------------------------------------------------------
Init ==
    /\ kind \in [Requests -> Kinds]
    /\ phase = [r \in Requests |-> "unsubmitted"]
    /\ stage = [r \in Requests |-> "validate"]
    /\ free = Permits
    /\ held = [r \in Requests |-> {}]
    /\ waiting = {}
    /\ ahead = [r \in Requests |-> {}]
    /\ cancelled = {}
    /\ childCancelled = {}
    /\ deadlinePassed = {}
    /\ timerFired = {}
    /\ events = [r \in Requests |-> <<>>]
    /\ outcome = [r \in Requests |-> "none"]
    /\ workers = {}
    /\ completed = [b \in Submissions |-> <<>>]
    /\ output = [b \in Submissions |-> <<>>]

(* The caller: submissions, cancellation and the passing of time.          *)

\* execute: every request of the batch becomes a future of the same set.
Submit(b) ==
    /\ \A r \in RequestsOf(b) : phase[r] = "unsubmitted"
    /\ phase' = [r \in Requests |-> IF r \in RequestsOf(b) THEN "cancel_poll" ELSE phase[r]]
    /\ UNCHANGED <<kind, stage, semaphore, tokens, clocks, reports, workers, batches>>

\* The submission's caller cancels the token of its SubmissionControls, before
\* the submission or while it runs.
Cancel(b) ==
    /\ b \in MayCancel \ cancelled
    /\ output[b] = <<>>
    /\ cancelled' = cancelled \cup {b}
    /\ UNCHANGED <<kind, phase, stage, semaphore, childCancelled, clocks, reports,
                   workers, batches>>

\* The deadline was fixed by with_timeout, so it may pass before execute is
\* called.
DeadlinePasses(b) ==
    /\ b \in Deadlined \ deadlinePassed
    /\ output[b] = <<>>
    /\ deadlinePassed' = deadlinePassed \cup {b}
    /\ UNCHANGED <<kind, phase, stage, semaphore, tokens, timerFired, reports,
                   workers, batches>>

ToolTimerFires(r) ==
    /\ ToolTimeout
    /\ phase[r] \in {"prepared", "select", "operation"}
    /\ r \notin timerFired
    /\ timerFired' = timerFired \cup {r}
    /\ UNCHANGED <<kind, phase, stage, semaphore, tokens, deadlinePassed, reports,
                   workers, batches>>

\* The caller drops the future of execute: every request of the batch is
\* dropped where it stands, its place in the queue and its permits with it.
\* No token is cancelled and nothing is reported.
DropSubmission(b) ==
    LET gone == {r \in RequestsOf(b) : phase[r] # "done"} IN
    /\ b \in MayDrop
    /\ output[b] = <<>>
    /\ gone # {}
    /\ \A r \in RequestsOf(b) : phase[r] \notin {"unsubmitted", "dropped"}
    /\ Release(gone)
    /\ phase' = [r \in Requests |-> IF r \in gone THEN "dropped" ELSE phase[r]]
    /\ UNCHANGED <<kind, stage, tokens, clocks, reports, workers, batches>>

-----------------------------------------------------------------------------
(* acquire_permit: a biased select of cancellation and the permit inside a *)
(* timeout_at.                                                             *)

\* Mutant: a request that stops waiting forgets the permits it was assigned.
give_up_Leak(r, code) ==
    /\ held' = [held EXCEPT ![r] = {}]
    /\ waiting' = waiting \ {r}
    /\ ahead' = [x \in Requests |-> ahead[x] \ {r}]
    /\ UNCHANGED free
    /\ childCancelled' = childCancelled \cup {r}
    /\ fail_with(r, code)
    /\ UNCHANGED <<kind, stage, cancelled, clocks, workers, batches>>

\* The request stops waiting: dropping the acquire future gives back the
\* permits it was assigned, the child token is cancelled, the failure reported.
give_up(r, code) ==
    /\ Release({r})
    /\ childCancelled' = childCancelled \cup {r}
    /\ fail_with(r, code)
    /\ UNCHANGED <<kind, stage, cancelled, clocks, workers, batches>>

QueuedCancelled(r) ==
    /\ phase[r] = "cancel_poll"
    /\ Cancelled(r)
    /\ give_up(r, "cancelled")

\* Mutant: the select is not biased, a ready permit may win over cancellation.
NotCancelled_Unbiased(r) ==
    /\ phase[r] = "cancel_poll"
    /\ GoTo(r, "permit_poll")
    /\ UNCHANGED <<kind, stage, semaphore, tokens, clocks, reports, workers, batches>>

NotCancelled(r) ==
    /\ phase[r] = "cancel_poll"
    /\ ~Cancelled(r)
    /\ GoTo(r, "permit_poll")
    /\ UNCHANGED <<kind, stage, semaphore, tokens, clocks, reports, workers, batches>>

\* The acquire future was never polled before.
Unregistered(r) == r \notin waiting /\ held[r] = {}

\* The first poll of the acquire future: it takes what it can and, when that
\* is not all it asked for, queues up behind the requests already waiting.
FirstPermitPoll(r) ==
    /\ phase[r] = "permit_poll"
    /\ Unregistered(r)
    /\ held' = [held EXCEPT ![r] = FirstTake(r)]
    /\ free' = free \ FirstTake(r)
    /\ IF Satisfied(r, FirstTake(r))
       THEN GoTo(r, "prepared") /\ UNCHANGED <<waiting, ahead>>
       ELSE /\ GoTo(r, "deadline_poll")
            /\ waiting' = waiting \cup {r}
            /\ ahead' = [ahead EXCEPT ![r] = waiting]
    /\ UNCHANGED <<kind, stage, tokens, clocks, reports, workers, batches>>

\* A later poll: the permits were assigned meanwhile, or not yet.
LaterPermitPoll(r) ==
    /\ phase[r] = "permit_poll"
    /\ ~Unregistered(r)
    /\ GoTo(r, IF r \in waiting THEN "deadline_poll" ELSE "prepared")
    /\ UNCHANGED <<kind, stage, semaphore, tokens, clocks, reports, workers, batches>>

\* Mutant: the wait for a permit is not bounded by the deadline.
QueuedTimedOut_Waits(r) ==
    /\ phase[r] = "deadline_poll"
    /\ SubmissionOf[r] \in deadlinePassed
    /\ GoTo(r, "cancel_poll")
    /\ UNCHANGED <<kind, stage, semaphore, tokens, clocks, reports, workers, batches>>

\* timeout_at polls its timer only after the permit was not ready; a permit
\* assigned between these two polls is given back.
QueuedTimedOut(r) ==
    /\ phase[r] = "deadline_poll"
    /\ SubmissionOf[r] \in deadlinePassed
    /\ give_up(r, "timed_out")

KeepWaiting(r) ==
    /\ phase[r] = "deadline_poll"
    /\ SubmissionOf[r] \notin deadlinePassed
    /\ GoTo(r, "cancel_poll")
    /\ UNCHANGED <<kind, stage, semaphore, tokens, clocks, reports, workers, batches>>

-----------------------------------------------------------------------------
(* run_prepared and invoke: the request holds its permits.                 *)

ToolNotFound(r) ==
    /\ phase[r] = "prepared"
    /\ kind[r] = "unknown"
    /\ fail_with(r, "tool_not_found")
    /\ UNCHANGED <<kind, stage, semaphore, tokens, clocks, workers, batches>>

Started(r) ==
    /\ phase[r] = "prepared"
    /\ kind[r] # "unknown"
    /\ events' = [events EXCEPT ![r] = Append(@, "started")]
    /\ GoTo(r, "select")
    /\ UNCHANGED <<kind, stage, semaphore, tokens, clocks, outcome, workers, batches>>

\* Mutant: a panic becomes an error result that is not reported.
Panicked_Unreported(r) ==
    /\ "panics" \in Behaviours
    /\ phase[r] = "operation" /\ r \notin workers
    /\ outcome' = [outcome EXCEPT ![r] = "execution_panic"]
    /\ GoTo(r, "returning")
    /\ UNCHANGED <<kind, stage, semaphore, tokens, clocks, events, workers, batches>>

\* catch_unwind in run_one: invocation_detail panics before Started is
\* reported, validate or invoke panic while the operation is polled.
Panicked(r) ==
    /\ "panics" \in Behaviours
    /\ \/ phase[r] = "prepared" /\ kind[r] # "unknown"
       \/ phase[r] = "operation" /\ r \notin workers
    /\ fail_with(r, "execution_panic")
    /\ UNCHANGED <<kind, stage, semaphore, tokens, clocks, workers, batches>>

\* Mutant: the context holds a clone of the submission's token, no child token.
Interrupted_SharedToken(r) ==
    /\ phase[r] = "select"
    /\ \/ Cancelled(r) /\ fail_with(r, "cancelled")
       \/ ~Cancelled(r) /\ effective_deadline_passed(r) /\ fail_with(r, "timed_out")
    /\ childCancelled' = childCancelled \cup RequestsOf(SubmissionOf[r])
    /\ UNCHANGED <<kind, stage, semaphore, cancelled, clocks, workers, batches>>

\* Mutant: the interrupted operation is dropped without cancelling its token.
Interrupted_NoCancel(r) ==
    /\ phase[r] = "select"
    /\ \/ Cancelled(r) /\ fail_with(r, "cancelled")
       \/ ~Cancelled(r) /\ effective_deadline_passed(r) /\ fail_with(r, "timed_out")
    /\ UNCHANGED <<kind, stage, semaphore, tokens, clocks, workers, batches>>

\* invoke: the biased select looks at cancellation, then at the effective
\* deadline, then polls the operation, in one step here: a cancellation that
\* arrives between the first two looks counts as arriving after both. Either
\* interruption drops the operation and cancels the token its blocking threads
\* look at.
Interrupted(r) ==
    /\ phase[r] = "select"
    /\ \/ Cancelled(r) /\ fail_with(r, "cancelled")
       \/ ~Cancelled(r) /\ effective_deadline_passed(r) /\ fail_with(r, "timed_out")
    /\ childCancelled' = childCancelled \cup {r}
    /\ UNCHANGED <<kind, stage, semaphore, cancelled, clocks, workers, batches>>

PollOperation(r) ==
    /\ phase[r] = "select"
    /\ ~Cancelled(r) /\ ~effective_deadline_passed(r)
    /\ GoTo(r, "operation")
    /\ UNCHANGED <<kind, stage, semaphore, tokens, clocks, reports, workers, batches>>

-----------------------------------------------------------------------------
(* invoke_inner: the arguments are validated, then the tool is invoked.    *)

\* validate_arguments and Tool::validate accept; the poll goes on.
Validated(r) ==
    /\ phase[r] = "operation"
    /\ stage[r] = "validate"
    /\ stage' = [stage EXCEPT ![r] = "invoke"]
    /\ UNCHANGED <<kind, phase, semaphore, tokens, clocks, reports, workers, batches>>

\* Mutant: the failure is reported with a code of the tool's own.
ToolFails_OwnCode(r) ==
    /\ "fails" \in Behaviours
    /\ phase[r] = "operation"
    /\ r \notin workers
    /\ fail_with(r, "tool_error")
    /\ UNCHANGED <<kind, stage, semaphore, tokens, clocks, workers, batches>>

\* The schema or validate rejects the arguments, or invoke returns an error. The
\* code passes on whatever error a tool returns; no tool of the repository
\* returns that it was cancelled or timed out.
ToolFails(r) ==
    /\ "fails" \in Behaviours
    /\ phase[r] = "operation"
    /\ r \notin workers
    /\ fail_with(r, IF stage[r] = "validate" THEN "validation_error" ELSE "execution_error")
    /\ UNCHANGED <<kind, stage, semaphore, tokens, clocks, workers, batches>>

\* validate or invoke is pending; the task parks until the next poll.
OperationPending(r) ==
    /\ phase[r] = "operation"
    /\ "pending" \in Behaviours \/ r \in workers
    /\ GoTo(r, "select")
    /\ UNCHANGED <<kind, stage, semaphore, tokens, clocks, reports, workers, batches>>

\* run_blocking: the tool starts a blocking thread and awaits it.
StartWorker(r) ==
    /\ "blocks" \in Behaviours
    /\ phase[r] = "operation"
    /\ stage[r] = "invoke"
    /\ r \notin workers
    /\ workers' = workers \cup {r}
    /\ GoTo(r, "select")
    /\ UNCHANGED <<kind, stage, semaphore, tokens, clocks, reports, batches>>

\* The thread ends by itself, whatever became of the future that awaited it.
WorkerEnds(r) ==
    /\ r \in workers
    /\ workers' = workers \ {r}
    /\ UNCHANGED <<kind, phase, stage, semaphore, tokens, clocks, reports, batches>>

Succeeded(r) ==
    /\ phase[r] = "operation"
    /\ stage[r] = "invoke"
    /\ r \notin workers
    /\ outcome' = [outcome EXCEPT ![r] = "ok"]
    /\ GoTo(r, "returning")
    /\ UNCHANGED <<kind, stage, semaphore, tokens, clocks, events, workers, batches>>

-----------------------------------------------------------------------------
\* The end of run_one: the permit is dropped and the result joins the
\* completed results of the batch.
Return(r) ==
    LET b == SubmissionOf[r] IN
    /\ phase[r] = "returning"
    /\ Release({r})
    /\ completed' = [completed EXCEPT ![b] = Append(@, r)]
    /\ GoTo(r, "done")
    /\ UNCHANGED <<kind, stage, tokens, clocks, reports, workers, output>>

\* Mutant: the results stay in order of completion.
Sortings_Unsorted(results) == {results}

\* sort_by_key on the input index: the same results, in input order.
Sortings(results) ==
    {sorted \in [DOMAIN results -> Range(results)] :
        /\ Range(sorted) = Range(results)
        /\ \A i, j \in DOMAIN results : i < j => Index[sorted[i]] < Index[sorted[j]]}

\* The end of execute: the batch is complete and its results are sorted.
Collect(b) ==
    /\ output[b] = <<>>
    /\ RequestsOf(b) # {}
    /\ \A r \in RequestsOf(b) : phase[r] = "done"
    /\ \E sorted \in Sortings(completed[b]) : output' = [output EXCEPT ![b] = sorted]
    /\ UNCHANGED <<kind, phase, stage, semaphore, tokens, clocks, reports, workers,
                   completed>>

-----------------------------------------------------------------------------
\* A step of the task that polls the request.
Poll(r) ==
    \/ QueuedCancelled(r) \/ NotCancelled(r)
    \/ FirstPermitPoll(r) \/ LaterPermitPoll(r)
    \/ QueuedTimedOut(r) \/ KeepWaiting(r)
    \/ ToolNotFound(r) \/ Started(r) \/ Panicked(r)
    \/ Interrupted(r) \/ PollOperation(r)
    \/ Validated(r) \/ ToolFails(r) \/ OperationPending(r)
    \/ StartWorker(r) \/ Succeeded(r) \/ Return(r)

Next ==
    \/ \E b \in Submissions :
          Submit(b) \/ Cancel(b) \/ DeadlinePasses(b) \/ DropSubmission(b) \/ Collect(b)
    \/ \E r \in Requests : ToolTimerFires(r) \/ WorkerEnds(r) \/ Poll(r)

Spec == Init /\ [][Next]_vars

\* The runtime polls every woken task and wakes it at its deadline. Nothing
\* makes a tool finish, a blocking thread end, a caller cancel or a tool's
\* timer fire: an executor without a tool timeout is one where none ever does.
Fairness ==
    /\ \A r \in Requests : WF_vars(Poll(r))
    /\ \A b \in Submissions : WF_vars(DeadlinePasses(b)) /\ WF_vars(Collect(b))

FairSpec == Spec /\ Fairness
-----------------------------------------------------------------------------
(* Properties.                                                             *)

Phases == {"unsubmitted", "cancel_poll", "permit_poll", "deadline_poll", "prepared",
           "select", "operation", "returning", "done", "dropped"}
Errors == {"cancelled", "timed_out", "tool_not_found", "validation_error",
           "execution_error", "execution_panic"}

\* The type invariant of the executor's state.
TypeOK ==
    /\ kind \in [Requests -> ToolKinds]
    /\ phase \in [Requests -> Phases]
    /\ stage \in [Requests -> {"validate", "invoke"}]
    /\ free \subseteq Permits
    /\ held \in [Requests -> SUBSET Permits]
    /\ waiting \subseteq Requests
    /\ ahead \in [Requests -> SUBSET Requests]
    /\ cancelled \subseteq Submissions
    /\ childCancelled \subseteq Requests
    /\ deadlinePassed \subseteq Submissions
    /\ timerFired \subseteq Requests
    /\ events \in [Requests -> Seq({"started", "failed"})]
    /\ outcome \in [Requests -> Errors \cup {"none", "ok"}]
    /\ workers \subseteq Requests
    /\ completed \in [Submissions -> Seq(Requests)]
    /\ output \in [Submissions -> Seq(Requests)]

Queueing == {"cancel_poll", "permit_poll", "deadline_poll"}
Running  == {"prepared", "select", "operation"}

\* Every permit is free or held by exactly one request, whichever way requests
\* leave the queue or end (run_one's drop, a dropped acquire future, a panic),
\* and a request that has ended or not begun holds none.
PermitsConserved ==
    /\ free \cup UNION {held[r] : r \in Requests} = Permits
    /\ \A r \in Requests : held[r] \cap free = {}
    /\ \A r, s \in Requests : r # s => held[r] \cap held[s] = {}
    /\ \A r \in Requests : phase[r] \in {"unsubmitted", "done", "dropped"} => held[r] = {}

\* The point of acquire_many_owned(count): while a tool that is not concurrency
\* safe is running, no other request is.
ExclusiveRunsAlone ==
    \A r, s \in Requests :
        r # s /\ phase[r] \in Running /\ ~is_concurrent(r) => phase[s] \notin Running

\* No permit lies idle while a request waits, only the oldest waiter hoards
\* permits, and the queue is a total order: a permit given back by a
\* cancelled, timed-out or dropped waiter reaches the next one.
NoIdlePermit ==
    /\ waiting # {} => free = {}
    /\ \A w \in waiting : ahead[w] # {} => held[w] = {}
    /\ \A w \in waiting : ahead[w] \subseteq waiting \ {w}
    /\ \A v, w \in waiting : v # w => (v \in ahead[w] <=> w \notin ahead[v])

\* The lifecycle an observer sees agrees with the result of the request: an
\* error is reported by exactly one Failed, as the last event, a success by
\* none; a request that failed in the queue or named no tool never Started.
EventsMatchOutcome ==
    \A r \in Requests :
        /\ outcome[r] = "none" => events[r] \in {<<>>, <<"started">>}
        /\ outcome[r] = "ok" => events[r] = <<"started">>
        /\ outcome[r] \in Errors =>
              events[r] \in {<<"failed">>, <<"started", "failed">>}
        /\ outcome[r] \in {"validation_error", "execution_error"} =>
              events[r] = <<"started", "failed">>
        /\ phase[r] \in Queueing \/ outcome[r] = "tool_not_found" =>
              "started" \notin Range(events[r])

\* A request is only reported cancelled when its own submission was, and only
\* timed out when its deadline or its own tool timeout passed: a timeout
\* cancels the request's child token, never its siblings.
InterruptionIsJustified ==
    \A r \in Requests :
        /\ outcome[r] = "cancelled" => SubmissionOf[r] \in cancelled
        /\ outcome[r] = "timed_out" => effective_deadline_passed(r)

\* A blocking thread that outlives its request can see that it was abandoned,
\* as run_blocking promises, unless the caller dropped the submission.
AbandonedWorkerIsCancelled ==
    \A r \in workers : phase[r] \in {"returning", "done"} => Cancelled(r)

\* execute_all returns one result per request, in input order, whatever order
\* the requests completed in.
ResultsInInputOrder ==
    \A b \in Submissions : output[b] # <<>> =>
        /\ Range(output[b]) = RequestsOf(b)
        /\ \A i, j \in DOMAIN output[b] :
              i < j => Index[output[b][i]] < Index[output[b][j]]

\* The semaphore is fair: a request never gets its permits while one that
\* queued before it still waits.
NoOvertaking ==
    [][\A v, w \in waiting :
          v \in ahead[w] /\ v \in waiting' /\ phase'[w] \in Queueing => w \in waiting']_vars

\* A submission cancelled before execute is called starts no tool: the server
\* runs execute without a global permit and relies on the biased select.
CancelledBeforeSubmissionNeverStarts ==
    \A r \in Requests :
        [](SubmissionOf[r] \in cancelled /\ phase[r] = "unsubmitted"
              => [](events[r] \in {<<>>, <<"failed">>} /\ held[r] = {}))

\* execute(b) returns, or its caller drops it.
Returns(b) ==
    (\A r \in RequestsOf(b) : phase[r] # "unsubmitted")
        ~> (output[b] # <<>> \/ \E r \in RequestsOf(b) : phase[r] = "dropped")

\* A submission with a deadline returns, wherever its requests are by then, in
\* the queue or running, though tools hang, those of other submissions too that
\* hold the permits it waits for, and though no tool timeout ends them. With
\* a tool timeout every submission returns (acquire_permit, invoke).
BoundedSubmissionReturns ==
    /\ \A b \in Deadlined : Returns(b)
    /\ ToolTimeout /\ (\A r \in Requests : WF_vars(ToolTimerFires(r)))
          => \A b \in Submissions : Returns(b)
=============================================================================
