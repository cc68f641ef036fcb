-------------------------- MODULE DaemonLifecycle --------------------------
(***************************************************************************)
(* How the resident daemon is started, found and stopped (daemon.rs), by   *)
(* processes that share a state file and two file locks and that may die   *)
(* at any point; and how a client finds it through its cache and the       *)
(* `ensure-running' command (windows-agent-client, wsl.rs connect).        *)
(*                                                                         *)
(* Process ids and ports are used again.  An instance number stands for    *)
(* the endpoint of one start of the daemon: its token, which is random and *)
(* never the same twice, and the port it had.                              *)
(***************************************************************************)
EXTENDS Naturals, FiniteSets

CONSTANTS
    Pids,           \* process ids
    Clients,        \* calls of WslClient::connect in one Windows process
    Polls,          \* how often ensure_running looks for the daemon it started
    MaxLaunches,    \* bound on commands started by hand
    MaxInstances,   \* bound on daemons that get as far as binding a port
    MaxCrashes      \* bound on processes killed from outside

ASSUME LifecycleAssumption ==
    /\ IsFiniteSet(Pids) /\ Pids # {}
    /\ {Polls, MaxLaunches, MaxInstances, MaxCrashes} \subseteq Nat
    /\ 0 \notin Pids
    /\ Clients \cap {"none", "user"} = {}

VARIABLES
    proc,           \* proc[q] is the process with id q
    file,           \* daemon.json
    temps,          \* ids q with a leftover daemon.json.q
    stateLock,      \* who holds daemon.lock, or 0
    serviceLock,    \* who holds daemon.service.lock, or 0
    terminated,     \* processes with a pending SIGTERM
    unrecorded,     \* auxiliary: instances whose record a stop removed unread
    taken,          \* ended instances whose port somebody else listens on
    cache,          \* the client's endpoint of the daemon
    client,         \* client[c] is where a connect stands
    instances, launches, crashes

state == <<file, temps>>
locks == <<stateLock, serviceLock>>
bounds == <<instances, launches, crashes>>
clients == <<cache, client>>
vars == <<proc, state, locks, terminated, unrecorded, taken, clients, bounds>>

NoState == [pid |-> 0, inst |-> 0]
NoProc == [kind |-> "none", at |-> "none", inst |-> 0, saw |-> NoState, left |-> 0, for |-> "none"]
NoClient == [at |-> "idle", inst |-> 0, fresh |-> FALSE, refused |-> FALSE]

Alive(q) == proc[q] # NoProc
Listening(i) == \E q \in Pids : proc[q].kind = "serve" /\ proc[q].inst = i /\ i > 0

Init ==
    /\ proc = [q \in Pids |-> NoProc]
    /\ file = NoState
    /\ temps = {}
    /\ stateLock = 0
    /\ serviceLock = 0
    /\ terminated = {}
    /\ unrecorded = {}
    /\ taken = {}
    /\ cache = 0
    /\ client = [c \in Clients |-> NoClient]
    /\ instances = 0 /\ launches = 0 /\ crashes = 0

(***************************************************************************)
(* Processes                                                               *)
(***************************************************************************)
New(kind, for) == [NoProc EXCEPT !.kind = kind, !.at = "lock", !.for = for]

(* The end of a process closes its files, which gives up its locks.        *)
Free(lock, q) == IF lock = q THEN 0 ELSE lock

Exits(q) ==
    /\ proc' = [proc EXCEPT ![q] = NoProc]
    /\ stateLock' = Free(stateLock, q)
    /\ serviceLock' = Free(serviceLock, q)
    /\ terminated' = terminated \ {q}

Step(q, label) ==
    /\ proc' = [proc EXCEPT ![q].at = label]
    /\ UNCHANGED <<locks, terminated>>

Is(q, kind, label) == proc[q].kind = kind /\ proc[q].at = label

(* A command typed by a user.                                              *)
Launch(q, kind) ==
    /\ launches < MaxLaunches
    /\ launches' = launches + 1
    /\ ~Alive(q)
    /\ proc' = [proc EXCEPT ![q] = New(kind, "user")]
    /\ UNCHANGED <<state, locks, terminated, unrecorded, taken, clients, instances, crashes>>

(* What the client that waits for the command q gets to know.              *)
Tell(q, i) ==
    client' = [c \in Clients |->
                 IF proc[q].for = c
                 THEN IF i = 0 THEN [client[c] EXCEPT !.at = "failed"]
                               ELSE [client[c] EXCEPT !.at = "dial", !.inst = i]
                 ELSE client[c]]

(* The kernel ends a process that was sent SIGTERM; nothing handles it.    *)
Terminates(q) ==
    /\ q \in terminated
    /\ Exits(q)
    /\ Tell(q, 0)
    /\ UNCHANGED <<state, unrecorded, taken, cache, bounds>>

(* A process is killed, or the distribution is shut down under it.         *)
Crash(q) ==
    /\ Alive(q)
    /\ crashes < MaxCrashes
    /\ crashes' = crashes + 1
    /\ Exits(q)
    /\ Tell(q, 0)
    /\ UNCHANGED <<state, unrecorded, taken, cache, instances, launches>>

(* A port whose daemon has ended is bound by another program or by a later *)
(* daemon, or is free again.                                               *)
PortChanges(i) ==
    /\ i \in 1..instances
    /\ ~Listening(i)
    /\ taken' = IF i \in taken THEN taken \ {i} ELSE taken \cup {i}
    /\ UNCHANGED <<proc, state, locks, terminated, unrecorded, clients, bounds>>

(***************************************************************************)
(* serve                                                                   *)
(***************************************************************************)
LockService(q) ==
    /\ Is(q, "serve", "lock")
    /\ \/ /\ serviceLock = 0
          /\ serviceLock' = q
          /\ proc' = [proc EXCEPT ![q].at = "bind"]
          /\ UNCHANGED <<stateLock, terminated>>
       \/ serviceLock # 0 /\ Exits(q)
    /\ UNCHANGED <<state, unrecorded, taken, clients, bounds>>

(* The configuration is checked and a port is bound, or one of them fails. *)
Bind(q) ==
    /\ Is(q, "serve", "bind")
    /\ \/ /\ instances < MaxInstances
          /\ instances' = instances + 1
          /\ proc' = [proc EXCEPT ![q].inst = instances', ![q].at = "temp"]
          /\ UNCHANGED <<locks, terminated>>
       \/ Exits(q) /\ UNCHANGED instances
    /\ UNCHANGED <<state, unrecorded, taken, clients, launches, crashes>>

(* create_new fails on a leftover of an earlier process with the same id.  *)
WriteTemporary(q) ==
    /\ Is(q, "serve", "temp")
    /\ \/ q \notin temps /\ temps' = temps \cup {q} /\ Step(q, "rename")
       \/ q \in temps /\ UNCHANGED temps /\ Exits(q)
    /\ UNCHANGED <<file, unrecorded, taken, clients, bounds>>

WriteState(q) ==
    /\ Is(q, "serve", "rename")
    /\ file' = [pid |-> q, inst |-> proc[q].inst]
    /\ temps' = temps \ {q}
    /\ Step(q, "serving")
    /\ UNCHANGED <<unrecorded, taken, clients, bounds>>

(***************************************************************************)
(* ensure_running                                                          *)
(***************************************************************************)
LockState(q) ==
    /\ proc[q].kind \in {"ensure", "stop"}
    /\ proc[q].at = "lock"
    /\ stateLock = 0
    /\ stateLock' = q
    /\ proc' = [proc EXCEPT ![q].at = "read"]
    /\ UNCHANGED <<state, serviceLock, terminated, unrecorded, taken, clients, bounds>>

ReadState(q) ==
    /\ proc[q].kind = "ensure"
    /\ \/ /\ proc[q].at = "read"
          /\ proc' = [proc EXCEPT ![q].saw = file, ![q].at = "probe"]
       \/ /\ proc[q].at = "reread"
          /\ proc[q].left > 0
          /\ proc' = [proc EXCEPT ![q].saw = file, ![q].at = "reprobe", ![q].left = @ - 1]
    /\ UNCHANGED <<state, locks, terminated, unrecorded, taken, clients, bounds>>

IsDaemon(s) == s.pid \in Pids /\ Alive(s.pid)
Accepts(i) == Listening(i) \/ i \in taken

Healthy_NoConnect(s) == s # NoState /\ IsDaemon(s)

(* The recorded id is that of a process of this program and somebody       *)
(* accepts on the recorded port; nobody is asked for the token.            *)
Healthy(s) == s # NoState /\ IsDaemon(s) /\ Accepts(s.inst)

Probe(q) ==
    LET s == proc[q].saw IN
    /\ proc[q].kind = "ensure"
    /\ proc[q].at \in {"probe", "reprobe"}
    /\ \/ Healthy(s) /\ Exits(q) /\ Tell(q, s.inst)
       \/ /\ ~Healthy(s)
          /\ Step(q, IF proc[q].at = "probe" THEN "spawn" ELSE "reread")
          /\ UNCHANGED client
    /\ UNCHANGED <<state, unrecorded, taken, cache, bounds>>

(* A detached `serve', which outlives the process that started it.         *)
Spawn(q) ==
    /\ Is(q, "ensure", "spawn")
    /\ \/ /\ \E r \in Pids :
                /\ ~Alive(r)
                /\ proc' = [proc EXCEPT ![r] = New("serve", "none"), ![q].at = "reread",
                                      ![q].left = Polls]
          /\ UNCHANGED <<locks, terminated, client>>
       \/ (\A r \in Pids : Alive(r)) /\ Exits(q) /\ Tell(q, 0)
    /\ UNCHANGED <<state, unrecorded, taken, cache, bounds>>

GiveUp_Never(q) ==
    /\ Is(q, "ensure", "reread") /\ proc[q].left = 0
    /\ UNCHANGED vars

(* The polls were too few for the daemon to start.                         *)
GiveUp(q) ==
    /\ Is(q, "ensure", "reread")
    /\ proc[q].left = 0
    /\ Exits(q)
    /\ Tell(q, 0)
    /\ UNCHANGED <<state, unrecorded, taken, cache, bounds>>

(***************************************************************************)
(* stop                                                                    *)
(***************************************************************************)
StopReads(q) ==
    /\ Is(q, "stop", "read")
    /\ \/ file = NoState /\ Exits(q)
       \/ /\ file # NoState
          /\ proc' = [proc EXCEPT ![q].saw = file, ![q].at = "check"]
          /\ UNCHANGED <<locks, terminated>>
    /\ UNCHANGED <<state, unrecorded, taken, clients, bounds>>

StopChecks(q) ==
    /\ Is(q, "stop", "check")
    /\ Step(q, IF IsDaemon(proc[q].saw) THEN "kill" ELSE "remove")
    /\ UNCHANGED <<state, unrecorded, taken, clients, bounds>>

StopSignals_Skipped(q) ==
    /\ Is(q, "stop", "kill")
    /\ Step(q, "remove")
    /\ UNCHANGED <<state, unrecorded, taken, clients, bounds>>

(* The signal goes to whatever has the id by now.                          *)
StopSignals(q) ==
    /\ Is(q, "stop", "kill")
    /\ proc' = [proc EXCEPT ![q].at = "remove"]
    /\ terminated' = terminated \cup {r \in Pids : Alive(r) /\ r = proc[q].saw.pid}
    /\ UNCHANGED <<state, locks, unrecorded, taken, clients, bounds>>

(* The file is removed whatever it says by now.                            *)
StopRemoves(q) ==
    /\ Is(q, "stop", "remove")
    /\ file' = NoState
    /\ unrecorded' = unrecorded \cup ({file.inst} \ {0, proc[q].saw.inst})
    /\ Exits(q)
    /\ UNCHANGED <<temps, taken, clients, bounds>>

(***************************************************************************)
(* WslClient::connect                                                      *)
(***************************************************************************)
Moves(c, r) == client' = [client EXCEPT ![c] = r]

(* A workspace that is no absolute path is an error before anything else.  *)
Connect(c) ==
    /\ client[c].at = "idle"
    /\ \/ Moves(c, [NoClient EXCEPT !.at = "invalid"])
       \/ Moves(c, [NoClient EXCEPT !.at = IF cache = 0 THEN "ask" ELSE "cached", !.inst = cache])
    /\ UNCHANGED <<proc, state, locks, terminated, unrecorded, taken, cache, bounds>>

DialCached_Final(c) ==
    LET r == client[c] IN
    /\ r.at = "cached"
    /\ \/ Listening(r.inst) /\ Moves(c, [r EXCEPT !.at = "up"])
       \/ Moves(c, [r EXCEPT !.at = "failed", !.refused = Listening(r.inst)])
    /\ UNCHANGED <<proc, state, locks, terminated, unrecorded, taken, cache, bounds>>

(* A daemon may refuse the hello (the workspace, the plugins), and whoever *)
(* took the port of another one does.  A cached endpoint that fails is     *)
(* forgotten, whoever put it there, and the guest is asked.                *)
DialCached(c) ==
    LET r == client[c] IN
    /\ r.at = "cached"
    /\ \/ Listening(r.inst) /\ Moves(c, [r EXCEPT !.at = "up"]) /\ UNCHANGED cache
       \/ Moves(c, [r EXCEPT !.at = "ask", !.inst = 0]) /\ cache' = 0
    /\ UNCHANGED <<proc, state, locks, terminated, unrecorded, taken, bounds>>

AskGuest(c) ==
    /\ client[c].at = "ask"
    /\ Moves(c, [client[c] EXCEPT !.at = "wait", !.fresh = TRUE])
    /\ \E q \in Pids : ~Alive(q) /\ proc' = [proc EXCEPT ![q] = New("ensure", c)]
    /\ UNCHANGED <<state, locks, terminated, unrecorded, taken, cache, bounds>>

Dial(c) ==
    LET r == client[c] IN
    /\ r.at = "dial"
    /\ \/ Listening(r.inst) /\ Moves(c, [r EXCEPT !.at = "up"]) /\ cache' = r.inst
       \/ /\ Moves(c, [r EXCEPT !.at = "failed", !.refused = Listening(r.inst)])
          /\ UNCHANGED cache
    /\ UNCHANGED <<proc, state, locks, terminated, unrecorded, taken, bounds>>

Serve(q) == LockService(q) \/ Bind(q) \/ WriteTemporary(q) \/ WriteState(q)
Ensure(q) == ReadState(q) \/ Probe(q) \/ Spawn(q) \/ GiveUp(q)
Stop(q) == StopReads(q) \/ StopChecks(q) \/ StopSignals(q) \/ StopRemoves(q)
Runs(q) == Serve(q) \/ LockState(q) \/ Ensure(q) \/ Stop(q)
Connects(c) == DialCached(c) \/ AskGuest(c) \/ Dial(c)

Next ==
    \/ \E q \in Pids :
          \/ \E kind \in {"serve", "ensure", "stop"} : Launch(q, kind)
          \/ Terminates(q) \/ Crash(q)
          \/ Runs(q)
    \/ \E i \in 1..instances : PortChanges(i)
    \/ \E c \in Clients : Connect(c) \/ Connects(c)

Spec == Init /\ [][Next]_vars

(* The kernel runs every process, wakes one that waits for a lock that is  *)
(* free, and delivers signals.                                             *)
Fairness == \A q \in Pids : WF_vars(Runs(q) \/ Terminates(q))

FairSpec == Spec /\ Fairness

(* There is one daemon and it can be found: whoever has bound a port holds *)
(* the service lock, and once it serves the state file names it, unless a  *)
(* stop has signalled it or has removed, with a record it never read, the  *)
(* record of a daemon that was started meanwhile (run_tcp, stop).          *)
DaemonFindable ==
    \A q \in Pids : proc[q].inst > 0 =>
        /\ serviceLock = q
        /\ proc[q].at = "serving" =>
              \/ file = [pid |-> q, inst |-> proc[q].inst]
              \/ q \in terminated
              \/ proc[q].inst \in unrecorded

(* What a client is told of is the daemon that holds the service lock in   *)
(* that moment, or one that has ended and of which the port and the        *)
(* process id have both been taken again, the id by a process of the same  *)
(* program: neither of them alone misleads ensure-running, both do, since  *)
(* it does not ask for the token (read_healthy_state).                     *)
EnsureReportsLive ==
    [][\A c \in Clients : client'[c].at = "dial" /\ client[c].at # "dial" =>
          \/ serviceLock # 0 /\ proc[serviceLock].inst = client'[c].inst
          \/ /\ client'[c].inst \in taken
             /\ \E q \in Pids : proc[q].for = c /\ IsDaemon(proc[q].saw)]_vars

(* A connect with a workspace it can ask for fails only because of what    *)
(* its own ensure-running said in this call: the command failed, the       *)
(* daemon it named is not there (any more), or that daemon refused the     *)
(* hello.  A cached endpoint, stale or refused, is never the reason        *)
(* (wsl.rs, connect).                                                      *)
FailedConnectIsFresh ==
    \A c \in Clients : client[c].at = "failed" =>
        client[c].fresh /\ (client[c].refused \/ ~Listening(client[c].inst))

(* Every command ends, whatever dies or is killed around it: the state     *)
(* lock is never kept for good (ensure_running, stop).                     *)
CommandsEnd ==
    \A q \in Pids : proc[q].kind \in {"ensure", "stop"} ~> proc[q].kind \notin {"ensure", "stop"}
=============================================================================
