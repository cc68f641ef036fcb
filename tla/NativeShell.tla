---------------------------- MODULE NativeShell ----------------------------
(***************************************************************************)
(* One command run by the shell tool (wsl-runtime, native.rs and shell.rs):*)
(* the child and its descendants in a process group of their own, the two  *)
(* tasks that read their output, and the future of `run', which its caller *)
(* may drop at any await because of a timeout or a cancellation.           *)
(***************************************************************************)
EXTENDS Naturals, FiniteSetsExt

CONSTANTS
    Kids,           \* descendants the command may start
    Streams,        \* stdout and stderr
    Cap,            \* bytes of a stream that are kept (limits.max_stdout)
    Scratch,        \* size of the read buffer
    PipeSize,       \* bytes a pipe holds
    MaxBytes        \* bound on what is written to a stream

ASSUME ShellAssumption ==
    /\ {Cap, MaxBytes} \subseteq Nat
    /\ {Scratch, PipeSize} \subseteq Nat \ {0}
    /\ "leader" \notin Kids

VARIABLES
    run,            \* where the future of run stands
    leader,         \* the child
    kids,           \* its living descendants
    holds,          \* holds[s] has stream s open for writing
    pipe,           \* bytes in the pipe of a stream
    written,        \* bytes written to it so far
    reader,         \* the task that reads it
    armed,          \* the state of the GroupKiller
    cancelled,      \* the cancellation token
    stranger,       \* a process of somebody else has the id of the group
    hit             \* such a process was sent a signal

group == <<leader, kids, holds>>
streams == <<pipe, written, reader>>
others == <<stranger, hit>>
vars == <<run, group, streams, armed, cancelled, others>>

Ended == {"returned", "dropped", "failed"}
NewReader == [len |-> 0, truncated |-> FALSE, done |-> FALSE]

Init ==
    /\ run = "spawn"
    /\ leader = "none"
    /\ kids = {}
    /\ holds = [s \in Streams |-> {}]
    /\ pipe = [s \in Streams |-> 0]
    /\ written = [s \in Streams |-> 0]
    /\ reader = [s \in Streams |-> NewReader]
    /\ armed = FALSE
    /\ cancelled = FALSE
    /\ stranger = FALSE
    /\ hit = FALSE

(* The arguments or the directory are refused, or the program is missing.  *)
SpawnFails ==
    /\ run = "spawn"
    /\ run' = "failed"
    /\ UNCHANGED <<group, streams, armed, cancelled, others>>

Spawn ==
    /\ run = "spawn"
    /\ run' = "select"
    /\ leader' = "running"
    /\ holds' = [s \in Streams |-> {"leader"}]
    /\ armed' = TRUE
    /\ UNCHANGED <<kids, streams, cancelled, others>>

(***************************************************************************)
(* The command (external)                                                  *)
(***************************************************************************)
Living == kids \cup (IF leader = "running" THEN {"leader"} ELSE {})

Fork(k) ==
    /\ Living # {}
    /\ k \notin kids
    /\ \E parent \in Living :
          holds' = [s \in Streams |-> IF parent \in holds[s] THEN holds[s] \cup {k} ELSE holds[s]]
    /\ kids' = kids \cup {k}
    /\ UNCHANGED <<run, leader, streams, armed, cancelled, others>>

Write(s) ==
    /\ holds[s] # {}
    /\ \E n \in 1..PipeSize :
          /\ pipe[s] + n <= PipeSize
          /\ written[s] + n <= MaxBytes
          /\ pipe' = [pipe EXCEPT ![s] = @ + n]
          /\ written' = [written EXCEPT ![s] = @ + n]
    /\ UNCHANGED <<run, group, reader, armed, cancelled, others>>

CloseStream(k, s) ==
    /\ k \in holds[s]
    /\ holds' = [holds EXCEPT ![s] = @ \ {k}]
    /\ UNCHANGED <<run, leader, kids, streams, armed, cancelled, others>>

LeaderExits ==
    /\ leader = "running"
    /\ leader' = "zombie"
    /\ holds' = [s \in Streams |-> holds[s] \ {"leader"}]
    /\ UNCHANGED <<run, kids, streams, armed, cancelled, others>>

KidExits(k) ==
    /\ k \in kids
    /\ kids' = kids \ {k}
    /\ holds' = [s \in Streams |-> holds[s] \ {k}]
    /\ UNCHANGED <<run, leader, streams, armed, cancelled, others>>

(* An id is free again when the child was reaped and the group is empty.   *)
IdReused ==
    /\ leader = "reaped"
    /\ kids = {}
    /\ stranger' = TRUE
    /\ UNCHANGED <<run, group, streams, armed, cancelled, hit>>

(***************************************************************************)
(* read_capped                                                             *)
(***************************************************************************)
Kept(len, n) == IF len >= Cap THEN 0 ELSE Min({n, Cap - len})

Truncates_OffByOne(len, n) == len >= Cap \/ n >= Cap - len

Truncates(len, n) == len >= Cap \/ n > Cap - len

ReadSome_StopsAtCap(s) ==
    LET n == Min({pipe[s], Scratch})  r == reader[s] IN
    /\ run # "spawn"
    /\ pipe[s] > 0
    /\ r.len < Cap
    /\ pipe' = [pipe EXCEPT ![s] = @ - n]
    /\ reader' = [reader EXCEPT ![s].len = @ + Kept(@, n),
                                ![s].truncated = @ \/ Truncates(r.len, n)]
    /\ UNCHANGED <<run, group, written, armed, cancelled, others>>

ReadSome(s) ==
    LET n == Min({pipe[s], Scratch})  r == reader[s] IN
    /\ run # "spawn"
    /\ pipe[s] > 0
    /\ pipe' = [pipe EXCEPT ![s] = @ - n]
    /\ reader' = [reader EXCEPT ![s].len = @ + Kept(@, n),
                                ![s].truncated = @ \/ Truncates(r.len, n)]
    /\ UNCHANGED <<run, group, written, armed, cancelled, others>>

(* The end of the stream; the pipe of a child gives no other read error.   *)
ReadEnd(s) ==
    /\ run # "spawn"
    /\ pipe[s] = 0
    /\ holds[s] = {}
    /\ ~reader[s].done
    /\ reader' = [reader EXCEPT ![s].done = TRUE]
    /\ UNCHANGED <<run, group, pipe, written, armed, cancelled, others>>

(***************************************************************************)
(* run                                                                     *)
(***************************************************************************)
(* SIGKILL to the group: all its members end, or a stranger's do.          *)
KillGroup ==
    /\ kids' = {}
    /\ leader' = IF leader = "running" THEN "zombie" ELSE leader
    /\ holds' = [s \in Streams |-> {}]
    /\ hit' = (hit \/ stranger)
    /\ UNCHANGED stranger

DropLocals_ChildOnly ==
    /\ leader' = IF leader = "running" THEN "zombie" ELSE leader
    /\ holds' = [s \in Streams |-> holds[s] \ {"leader"}]
    /\ UNCHANGED <<kids, others>>

(* The locals of run are dropped: the killer first and then the child,     *)
(* which is killed and left to the runtime to reap.                        *)
DropLocals ==
    \/ armed /\ KillGroup
    \/ /\ ~armed
       /\ leader # "running"
       /\ UNCHANGED <<group, others>>

Cancel ==
    /\ ~cancelled
    /\ cancelled' = TRUE
    /\ UNCHANGED <<run, group, streams, armed, others>>

(* The select polls its branches in any order.                             *)
SelectCancelled ==
    /\ run = "select"
    /\ cancelled
    /\ KillGroup
    /\ run' = "killed"
    /\ UNCHANGED <<streams, armed, cancelled>>

WaitReturns_StaysArmed ==
    /\ run \in {"select", "killed"}
    /\ leader = "zombie"
    /\ leader' = "reaped"
    /\ run' = "stdout"
    /\ UNCHANGED <<kids, holds, streams, armed, cancelled, others>>

WaitReturns ==
    /\ run \in {"select", "killed"}
    /\ leader = "zombie"
    /\ leader' = "reaped"
    /\ armed' = FALSE
    /\ run' = "stdout"
    /\ UNCHANGED <<kids, holds, streams, cancelled, others>>

WaitFails ==
    /\ run = "select"
    /\ run' = "failed"
    /\ DropLocals
    /\ UNCHANGED <<streams, armed, cancelled>>

Collect(s, label, next) ==
    /\ run = label
    /\ reader[s].done
    /\ run' = next
    /\ IF next = "returned" THEN DropLocals ELSE UNCHANGED <<group, others>>
    /\ UNCHANGED <<streams, armed, cancelled>>

(* The caller drops the future while it awaits something.                  *)
Drop ==
    /\ run \notin Ended \cup {"spawn"}
    /\ run' = "dropped"
    /\ DropLocals
    /\ UNCHANGED <<streams, armed, cancelled>>

(* The runtime reaps a child whose handle was dropped.                     *)
ReapOrphan ==
    /\ run \in Ended
    /\ leader = "zombie"
    /\ leader' = "reaped"
    /\ UNCHANGED <<run, kids, holds, streams, armed, cancelled, others>>

Run == \/ SelectCancelled \/ WaitReturns
       \/ Collect("stdout", "stdout", "stderr") \/ Collect("stderr", "stderr", "returned")

Next ==
    \/ SpawnFails \/ Spawn \/ Cancel \/ Run \/ WaitFails \/ Drop \/ ReapOrphan
    \/ LeaderExits \/ IdReused
    \/ \E k \in Kids : Fork(k) \/ KidExits(k)
    \/ \E s \in Streams : \/ Write(s) \/ ReadSome(s) \/ ReadEnd(s)
                          \/ \E k \in Kids \cup {"leader"} : CloseStream(k, s)

Spec == Init /\ [][Next]_vars

(* The runtime polls run and both readers; nothing is assumed of commands. *)
Fairness ==
    /\ WF_vars(Run)
    /\ \A s \in Streams : WF_vars(ReadSome(s)) /\ WF_vars(ReadEnd(s))

FairSpec == Spec /\ Fairness

(***************************************************************************)
(* Properties                                                              *)
(***************************************************************************)
(* No signal goes to processes of somebody else: whenever the group is     *)
(* killed, the child has not been reaped, so that its id is still taken    *)
(* (kill_group, GroupKiller).                                              *)
KillsOwnGroup == ~hit

(* When run ends before it has got the status of the child, by a drop at   *)
(* any await or an error, nothing of the command is left (GroupKiller).    *)
EndedEarlyLeavesNothing ==
    run \in Ended /\ armed => Living = {}

(* What is captured is the first Cap bytes, and truncated says exactly     *)
(* whether there were more, however the bytes arrive (read_capped).        *)
CaptureExact ==
    \A s \in Streams : reader[s].done =>
        /\ reader[s].len = Min({written[s], Cap})
        /\ reader[s].truncated = (written[s] > Cap)

(* run returns once the child has ended and every process has closed its   *)
(* output, with or without cancellation (run).                             *)
RunReturns ==
    (leader \in {"zombie", "reaped"} /\ \A s \in Streams : holds[s] = {}) ~> run \in Ended

=============================================================================
