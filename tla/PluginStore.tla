---------------------------- MODULE PluginStore ----------------------------
(***************************************************************************)
(* The directory of installed plugins (executor-plugin, package.rs), used  *)
(* by several processes at once without a lock: `ate-daemon tool' commands *)
(* that install, remove, enable and disable, and daemon sessions that      *)
(* discover and register plugins (daemon.rs).  Every system call on the    *)
(* directory is a step, and a process may be killed between any two.       *)
(***************************************************************************)
EXTENDS Naturals, FiniteSets

CONSTANTS
    Procs, Ids, Packages, IdOf, ToolsOf, Unusable, BornDisabled, Builtins,
    Asks,       \* what a process may be asked to do
    Stored      \* what may be installed at the beginning

(* A directory: which package it was unpacked from, whether all of it is   *)
(* there, and whether it has a .disabled marker.                           *)
None == [pkg |-> "none", disabled |-> FALSE, whole |-> FALSE]
Dirs == [pkg : Packages, disabled : BOOLEAN, whole : BOOLEAN]

NoOp == [kind |-> "none"]
Ops == [kind : {"install"}, pkg : Packages, replace : BOOLEAN]
         \cup [kind : {"remove", "enable", "disable"}, id : Ids]
         \cup [kind : {"session"}]
Mutates(o) == o.kind \notin {"none", "session"}
Target(o) == IF o.kind = "install" THEN IdOf[o.pkg] ELSE o.id

ASSUME StoreAssumption ==
    /\ IsFiniteSet(Ids)
    /\ IdOf \in [Packages -> Ids]
    /\ Unusable \subseteq Packages /\ BornDisabled \subseteq Packages
    /\ \A k \in Packages : ToolsOf[k] # {}
    /\ "none" \notin Packages
    /\ \A p \in Procs : Asks[p] \subseteq Ops
    /\ Stored \subseteq [Ids -> {None} \cup Dirs]
    /\ \A s \in Stored : \A i \in Ids : s[i] # None => s[i].whole /\ IdOf[s[i].pkg] = i

VARIABLES
    dest,       \* dest[i] is the directory named i
    staging,    \* staging[p] is the .install- directory of p
    aside,      \* aside[p] is the .backup- or .removed- directory of p
    pc,         \* where p stands
    op,         \* what p was asked to do
    outcome,    \* what p is going to report
    loaded,     \* what a session has loaded so far
    todo,       \* the directories it has still to load
    result,     \* what p reported
    view,       \* the plugins a session registered
    raced,      \* auxiliary: operations that overlapped one that changes the store
    effect      \* auxiliary: whether p has changed the store as asked

files == <<dest, staging, aside>>
reading == <<loaded, todo, view>>
aux == <<raced, effect>>
vars == <<files, pc, op, outcome, reading, result, aux>>

Running == {p \in Procs : pc[p] \notin {"idle", "done", "dead"}}

Init ==
    /\ dest \in Stored
    /\ staging = [p \in Procs |-> None]
    /\ aside = [p \in Procs |-> None]
    /\ pc = [p \in Procs |-> "idle"]
    /\ op = [p \in Procs |-> NoOp]
    /\ outcome = [p \in Procs |-> "none"]
    /\ loaded = [p \in Procs |-> [i \in Ids |-> None]]
    /\ todo = [p \in Procs |-> {}]
    /\ result = [p \in Procs |-> "none"]
    /\ view = [p \in Procs |-> {}]
    /\ raced = {}
    /\ effect = [p \in Procs |-> FALSE]

Goto(p, label) == pc' = [pc EXCEPT ![p] = label]
Outcome(p, r) == outcome' = [outcome EXCEPT ![p] = r]
Asked == UNCHANGED <<op, result, raced>>

(* The commands of the command line, and a new session.                    *)
FirstStep(o) ==
    CASE o.kind = "install" -> "create"
      [] o.kind = "remove"  -> "find"
      [] o.kind = "session" -> "list"
      [] OTHER              -> "check"

Begin(p, o) ==
    LET writers == {q \in Running : Mutates(op[q])} IN
    /\ pc[p] = "idle"
    /\ op' = [op EXCEPT ![p] = o]
    /\ Goto(p, FirstStep(o))
    /\ raced' = raced \cup (IF writers # {} THEN {p} ELSE {})
                      \cup (IF Mutates(o) THEN Running ELSE {})
    /\ UNCHANGED <<files, outcome, reading, result, effect>>

(***************************************************************************)
(* install                                                                 *)
(***************************************************************************)
CreateStaging(p) ==
    /\ pc[p] = "create"
    /\ staging' = [staging EXCEPT ![p] = [pkg |-> op[p].pkg, whole |-> FALSE,
                                          disabled |-> op[p].pkg \in BornDisabled]]
    /\ Goto(p, "unpack")
    /\ UNCHANGED <<dest, aside, outcome, reading, effect>> /\ Asked

Unpack_Unchecked(p) ==
    /\ pc[p] = "unpack"
    /\ \E b \in BOOLEAN : staging' = [staging EXCEPT ![p].whole = b]
    /\ Goto(p, "exists")
    /\ UNCHANGED <<dest, aside, outcome, reading, effect>> /\ Asked

(* All of the archive is unpacked, its manifest is valid and its local     *)
(* entrypoint could be made executable; or something of that failed.       *)
Unpack(p) ==
    /\ pc[p] = "unpack"
    /\ \/ /\ staging' = [staging EXCEPT ![p].whole = TRUE]
          /\ Goto(p, "exists")
          /\ UNCHANGED outcome
       \/ /\ Goto(p, "cleanup")
          /\ Outcome(p, "failed")
          /\ UNCHANGED staging
    /\ UNCHANGED <<dest, aside, reading, effect>> /\ Asked

CheckExists_Ignored(p) ==
    /\ pc[p] = "exists"
    /\ Goto(p, "choose")
    /\ UNCHANGED <<files, outcome, reading, effect>> /\ Asked

CheckExists(p) ==
    LET refused == dest[Target(op[p])] # None /\ ~op[p].replace IN
    /\ pc[p] = "exists"
    /\ Goto(p, IF refused THEN "cleanup" ELSE "choose")
    /\ Outcome(p, IF refused THEN "exists" ELSE outcome[p])
    /\ UNCHANGED <<files, reading, effect>> /\ Asked

(* The second look at the destination decides how it is put in place.      *)
Choose(p) ==
    /\ pc[p] = "choose"
    /\ Goto(p, IF dest[Target(op[p])] # None THEN "backup" ELSE "place")
    /\ UNCHANGED <<files, outcome, reading, effect>> /\ Asked

(* Every rename may fail, one of nothing or onto a directory must.         *)
MoveAside(p) ==
    LET i == Target(op[p]) IN
    /\ dest[i] # None
    /\ aside' = [aside EXCEPT ![p] = dest[i]]
    /\ dest' = [dest EXCEPT ![i] = None]

Backup(p) ==
    /\ pc[p] = "backup"
    /\ \/ /\ MoveAside(p)
          /\ Goto(p, "swap")
          /\ UNCHANGED outcome
       \/ /\ Goto(p, "cleanup")
          /\ Outcome(p, "failed")
          /\ UNCHANGED <<dest, aside>>
    /\ UNCHANGED <<staging, reading, effect>> /\ Asked

PutInPlace(p) ==
    LET i == Target(op[p]) IN
    /\ dest[i] = None
    /\ dest' = [dest EXCEPT ![i] = staging[p]]
    /\ staging' = [staging EXCEPT ![p] = None]
    /\ effect' = [effect EXCEPT ![p] = TRUE]

Swap(p) ==
    /\ pc[p] = "swap"
    /\ \/ PutInPlace(p) /\ Goto(p, "discard")
       \/ Goto(p, "rollback") /\ UNCHANGED <<dest, staging, effect>>
    /\ UNCHANGED <<aside, outcome, reading>> /\ Asked

(* A failure of the rename back is ignored.                                *)
Rollback(p) ==
    LET i == Target(op[p]) IN
    /\ pc[p] = "rollback"
    /\ \/ /\ dest[i] = None
          /\ dest' = [dest EXCEPT ![i] = aside[p]]
          /\ aside' = [aside EXCEPT ![p] = None]
       \/ UNCHANGED <<dest, aside>>
    /\ Goto(p, "cleanup")
    /\ Outcome(p, "failed")
    /\ UNCHANGED <<staging, reading, effect>> /\ Asked

Place(p) ==
    /\ pc[p] = "place"
    /\ \/ PutInPlace(p) /\ Goto(p, "load") /\ UNCHANGED outcome
       \/ /\ Goto(p, "cleanup")
          /\ Outcome(p, "failed")
          /\ UNCHANGED <<dest, staging, effect>>
    /\ UNCHANGED <<aside, reading>> /\ Asked

(* remove_dir_all of the backup, which may fail half-way.                  *)
Discard(p) ==
    /\ pc[p] = "discard"
    /\ \/ /\ aside' = [aside EXCEPT ![p] = None]
          /\ Goto(p, "load")
          /\ UNCHANGED outcome
       \/ /\ aside' = [aside EXCEPT ![p].whole = FALSE]
          /\ Goto(p, "cleanup")
          /\ Outcome(p, "failed")
    /\ UNCHANGED <<dest, staging, reading, effect>> /\ Asked

(* load_installed fails for a directory that is gone, and for a package    *)
(* whose entrypoint is a directory.                                        *)
Load(p) ==
    /\ pc[p] = "load"
    /\ \/ dest[Target(op[p])].whole /\ Outcome(p, "done")
       \/ Outcome(p, "failed")
    /\ Goto(p, "cleanup")
    /\ UNCHANGED <<files, reading, effect>> /\ Asked

Report(p, r) ==
    /\ result' = [result EXCEPT ![p] = r]
    /\ Goto(p, "done")
    /\ UNCHANGED <<op, raced, effect, outcome>>

Cleanup(p) ==
    /\ pc[p] = "cleanup"
    /\ staging' = [staging EXCEPT ![p] = None]
    /\ Report(p, outcome[p])
    /\ UNCHANGED <<dest, aside, reading>>

(***************************************************************************)
(* remove                                                                  *)
(***************************************************************************)
FindInstalled(p) ==
    /\ pc[p] = "find"
    /\ \/ dest[op[p].id] # None /\ Goto(p, "remove") /\ UNCHANGED <<outcome, result>>
       \/ dest[op[p].id] = None /\ Report(p, "not_found")
    /\ UNCHANGED <<files, op, outcome, reading, raced, effect>>

Remove(p) ==
    /\ pc[p] = "remove"
    /\ \/ /\ MoveAside(p)
          /\ effect' = [effect EXCEPT ![p] = TRUE]
          /\ Goto(p, "delete")
          /\ UNCHANGED result
       \/ Report(p, "failed") /\ UNCHANGED <<dest, aside>>
    /\ UNCHANGED <<staging, op, outcome, reading, raced>>

DeleteRemoved(p) ==
    /\ pc[p] = "delete"
    /\ \/ aside' = [aside EXCEPT ![p] = None] /\ Report(p, "done")
       \/ aside' = [aside EXCEPT ![p].whole = FALSE] /\ Report(p, "failed")
    /\ UNCHANGED <<dest, staging, reading>>

(***************************************************************************)
(* set_enabled                                                             *)
(***************************************************************************)
CheckInstalled(p) ==
    /\ pc[p] = "check"
    /\ \/ dest[op[p].id] # None /\ Goto(p, "mark") /\ UNCHANGED result
       \/ dest[op[p].id] = None /\ Report(p, "not_found")
    /\ UNCHANGED <<files, op, outcome, reading, raced, effect>>

(* A marker that is gone, with its directory or without, counts as removed;*)
(* one that could not be filled is there all the same.                     *)
Mark(p) ==
    LET i == op[p].id  enable == op[p].kind = "enable" IN
    /\ pc[p] = "mark"
    /\ \/ /\ dest[i] # None
          /\ dest' = [dest EXCEPT ![i].disabled = ~enable]
          /\ effect' = [effect EXCEPT ![p] = TRUE]
          /\ Outcome(p, "done") \/ (~enable /\ Outcome(p, "failed"))
       \/ /\ UNCHANGED <<dest, effect>>
          /\ Outcome(p, IF dest[i] = None /\ enable THEN "done" ELSE "failed")
    /\ Goto(p, "cleanup")
    /\ UNCHANGED <<staging, aside, reading>> /\ Asked

(***************************************************************************)
(* discover and register_plugins                                           *)
(***************************************************************************)
(* When the directory cannot be listed the session is refused.             *)
ListEntries(p) ==
    /\ pc[p] = "list"
    /\ \/ /\ todo' = [todo EXCEPT ![p] = {i \in Ids : dest[i] # None}]
          /\ Goto(p, "manifest")
          /\ UNCHANGED result
       \/ Report(p, "failed") /\ UNCHANGED todo
    /\ UNCHANGED <<files, outcome, loaded, view, effect, op, raced>>

(* load_installed reads the manifest first and looks for the marker last,  *)
(* each by its path; a directory that cannot be loaded is skipped.         *)
Entry(p) == CHOOSE i \in todo[p] : TRUE

LoadManifest(p) ==
    LET i == Entry(p) IN
    /\ pc[p] = "manifest"
    /\ todo[p] # {}
    /\ \/ /\ dest[i].whole
          /\ loaded' = [loaded EXCEPT ![p][i] = dest[i]]
          /\ Goto(p, "marker")
          /\ UNCHANGED todo
       \/ /\ ~dest[i].whole
          /\ todo' = [todo EXCEPT ![p] = @ \ {i}]
          /\ UNCHANGED <<loaded, pc>>
    /\ UNCHANGED <<files, outcome, view, effect>> /\ Asked

(* Another package may be there by now, without the file that the manifest *)
(* names as entrypoint; then it is skipped after all.                      *)
LoadMarker(p) ==
    LET i == Entry(p) IN
    /\ pc[p] = "marker"
    /\ \/ loaded' = [loaded EXCEPT ![p][i].disabled = dest[i].disabled]
       \/ dest[i].pkg # loaded[p][i].pkg /\ loaded' = [loaded EXCEPT ![p][i] = None]
    /\ todo' = [todo EXCEPT ![p] = @ \ {i}]
    /\ Goto(p, "manifest")
    /\ UNCHANGED <<files, outcome, view, effect>> /\ Asked

(* The eligible plugins, and how many of them declare a name.              *)
EligiblePlugins(p) == {i \in Ids : /\ loaded[p][i] # None
                                   /\ ~loaded[p][i].disabled
                                   /\ loaded[p][i].pkg \notin Unusable}

NameCount(p, name) ==
    Cardinality({i \in EligiblePlugins(p) : name \in ToolsOf[loaded[p][i].pkg]})

NoConflict(p, i) ==
    \A name \in ToolsOf[loaded[p][i].pkg] :
        name \notin Builtins /\ NameCount(p, name) <= 1

RegisterPlugins(p) ==
    /\ pc[p] = "manifest"
    /\ todo[p] = {}
    /\ view' = [view EXCEPT ![p] = {i \in EligiblePlugins(p) : NoConflict(p, i)}]
    /\ Report(p, "listed")
    /\ UNCHANGED <<files, loaded, todo>>

(* The process is killed, and its hidden directories stay.                 *)
Dies(p) ==
    /\ p \in Running
    /\ Goto(p, "dead")
    /\ UNCHANGED <<files, outcome, reading, effect>> /\ Asked

Next == \E p \in Procs :
           \/ \E o \in Asks[p] : Begin(p, o)
           \/ CreateStaging(p) \/ Unpack(p) \/ CheckExists(p) \/ Choose(p)
           \/ Backup(p) \/ Swap(p) \/ Rollback(p) \/ Place(p) \/ Discard(p)
           \/ Load(p) \/ Cleanup(p)
           \/ FindInstalled(p) \/ Remove(p) \/ DeleteRemoved(p)
           \/ CheckInstalled(p) \/ Mark(p)
           \/ ListEntries(p) \/ LoadManifest(p) \/ LoadMarker(p) \/ RegisterPlugins(p)
           \/ Dies(p)

Spec == Init /\ [][Next]_vars

(***************************************************************************)
(* Properties                                                              *)
(***************************************************************************)
(* A package under its own name is complete and has that id, whatever      *)
(* installs failed, raced or were killed half-way: discover and the        *)
(* supervisor never meet half of one (package.rs, install).                *)
VisibleIsComplete ==
    \A i \in Ids : dest[i] # None => dest[i].whole /\ IdOf[dest[i].pkg] = i

(* While a replacement is between its two renames the id still stands for  *)
(* the package in the backup.                                              *)
InGap(i) == {p \in Procs : pc[p] \in {"swap", "rollback"} /\ Target(op[p]) = i}

CatalogEntry(i) ==
    LET d == IF dest[i] # None \/ InGap(i) = {} THEN dest[i]
             ELSE aside[CHOOSE p \in InGap(i) : TRUE]
    IN [pkg |-> d.pkg, disabled |-> d.disabled]

Catalog == INSTANCE PluginCatalog
              WITH catalog <- [i \in Ids |-> CatalogEntry(i)], running <- Running

(* The store is a catalog: an operation that overlaps no other change acts *)
(* at one point and reports the truth, a session that overlaps none sees   *)
(* one state, and a package is lost only by a replacement that is killed   *)
(* between its renames or can neither put the new one in place nor the old *)
(* one back (package.rs, daemon.rs register_plugins).                      *)
AtomicUnlessRaced == Catalog!CatalogSpec
=============================================================================
