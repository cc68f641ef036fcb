------------------------- MODULE PluginStoreProofs -------------------------
(***************************************************************************)
(* For every set of processes, ids and packages: whatever installs,        *)
(* removals and kills interleave, a visible package is complete; and the   *)
(* directory implements the catalog of PluginCatalog.                      *)
(***************************************************************************)
EXTENDS PluginStore, FiniteSetTheorems, TLAPS

Directories == [pkg : Packages \cup {"none"}, disabled : BOOLEAN, whole : BOOLEAN]

Labels == {"idle", "create", "unpack", "exists", "choose", "backup", "swap", "rollback", "place",
           "discard", "load", "cleanup", "find", "remove", "delete", "check", "mark", "list",
           "manifest", "marker", "done", "dead"}

(* The directories and the operations are well typed.                      *)
FilesOK ==
    /\ dest \in [Ids -> Directories]
    /\ staging \in [Procs -> Directories]
    /\ aside \in [Procs -> Directories]
    /\ pc \in [Procs -> Labels]
    /\ op \in [Procs -> {NoOp} \cup Ops]

(* Steps of an install and of the operations on a named plugin; those of   *)
(* an install with a whole package in the staging directory, and those     *)
(* with a backup to put back.                                              *)
InstallSteps == {"create", "unpack", "exists", "choose", "backup", "swap", "rollback", "place"}
NamedSteps == {"find", "remove", "check", "mark"}
Prepared == {"exists", "choose", "backup", "swap", "place"}
BackedUp == {"swap", "rollback"}

(* What an install is going to make visible is complete and has the id of  *)
(* the destination: the package it unpacked, and the one it moved aside.   *)
StagedIsComplete ==
    \A p \in Procs :
        /\ pc[p] \in InstallSteps => op[p].kind = "install" /\ op[p].pkg \in Packages
        /\ pc[p] \in NamedSteps => op[p].kind # "install" /\ op[p].id \in Ids
        /\ pc[p] \in Prepared \cup {"unpack"} => staging[p].pkg = op[p].pkg
        /\ pc[p] \in Prepared => staging[p].whole
        /\ pc[p] \in BackedUp => aside[p].whole /\ IdOf[aside[p].pkg] = IdOf[op[p].pkg]

IInv == FilesOK /\ VisibleIsComplete /\ StagedIsComplete

LEMMA InitIInv == Init => IInv
  <1> SUFFICES ASSUME Init PROVE IInv
    OBVIOUS
  <1>1. None \in Directories
    BY DEF None, Directories
  <1>2. \A s \in Stored : s \in [Ids -> Directories]
    BY <1>1, StoreAssumption DEF Dirs, Directories
  <1>3. FilesOK
    BY <1>1, <1>2 DEF Init, FilesOK, Labels
  <1>4. VisibleIsComplete
    BY StoreAssumption DEF Init, VisibleIsComplete
  <1>5. StagedIsComplete
    BY DEF Init, StagedIsComplete, InstallSteps, NamedSteps, Prepared, BackedUp
  <1> QED
    BY <1>3, <1>4, <1>5 DEF IInv

(* Setting a field of a directory gives a directory.                       *)
LEMMA DirectoryUpdates ==
    ASSUME NEW d \in Directories, NEW b \in BOOLEAN
    PROVE  /\ [d EXCEPT !.whole = b] \in Directories
           /\ [d EXCEPT !.whole = b].whole = b
           /\ [d EXCEPT !.whole = b].pkg = d.pkg
           /\ [d EXCEPT !.disabled = b] \in Directories
           /\ [d EXCEPT !.disabled = b].whole = d.whole
           /\ [d EXCEPT !.disabled = b].pkg = d.pkg
  BY DEF Directories

(* An install names a package; every other operation but a session, an id. *)
LEMMA OpArguments ==
    ASSUME NEW o \in Ops
    PROVE  /\ o.kind = "install" => o.pkg \in Packages
           /\ o.kind \notin {"install", "session"} => o.id \in Ids
  BY DEF Ops

LEMMA NextIInv == ASSUME IInv, [Next]_vars PROVE IInv'
  <1>1. CASE UNCHANGED vars
    BY <1>1 DEF IInv, FilesOK, VisibleIsComplete, StagedIsComplete, vars, files
  <1>2. ASSUME NEW p \in Procs,
               \/ \E o \in Asks[p] : Begin(p, o)
               \/ CreateStaging(p) \/ Unpack(p) \/ CheckExists(p) \/ Choose(p)
               \/ Backup(p) \/ Swap(p) \/ Rollback(p) \/ Place(p) \/ Discard(p)
               \/ Load(p) \/ Cleanup(p)
               \/ FindInstalled(p) \/ Remove(p) \/ DeleteRemoved(p)
               \/ CheckInstalled(p) \/ Mark(p)
               \/ ListEntries(p) \/ LoadManifest(p) \/ LoadMarker(p) \/ RegisterPlugins(p)
               \/ Dies(p)
        PROVE IInv'
    <2> USE <1>2 DEF InstallSteps, NamedSteps, Prepared, BackedUp, Labels
    <2>t. FilesOK /\ VisibleIsComplete /\ StagedIsComplete
      BY DEF IInv
    <2>n. None \in Directories /\ None.whole = FALSE /\ None.pkg = "none"
      BY DEF None, Directories
    <2>1. ASSUME NEW o \in Asks[p], Begin(p, o) PROVE IInv'
      <3>1. /\ o \in Ops
            /\ o.kind = "install" => o.pkg \in Packages
            /\ o.kind \notin {"install", "session"} => o.id \in Ids
        BY StoreAssumption, OpArguments
      <3>2. /\ FirstStep(o) \in Labels
            /\ FirstStep(o) \in InstallSteps => FirstStep(o) = "create" /\ o.kind = "install"
            /\ FirstStep(o) \in NamedSteps => o.kind \notin {"install", "session"}
        BY DEF FirstStep
      <3>3. FilesOK'
        BY <2>1, <2>t, <3>1, <3>2 DEF FilesOK, Begin, Goto, files
      <3>4. VisibleIsComplete'
        BY <2>1, <2>t DEF VisibleIsComplete, Begin, files
      <3>5. StagedIsComplete'
        BY <2>1, <2>t, <3>1, <3>2 DEF FilesOK, StagedIsComplete, Begin, Goto, files
      <3> QED
        BY <3>3, <3>4, <3>5 DEF IInv
    <2>2. CASE CreateStaging(p)
      BY <2>2, <2>t DEF IInv, FilesOK, VisibleIsComplete, StagedIsComplete, CreateStaging, Goto, Asked, Directories
    <2>3. CASE Unpack(p)
      <3> DEFINE s == [staging[p] EXCEPT !.whole = TRUE]
      <3>1. s \in Directories /\ s.whole = TRUE /\ s.pkg = staging[p].pkg
        BY <2>t, DirectoryUpdates DEF FilesOK
      <3>2. pc[p] = "unpack" /\ UNCHANGED <<dest, aside, op>>
        BY <2>3 DEF Unpack, Asked
      <3>3. \/ staging' = [staging EXCEPT ![p] = s] /\ pc' = [pc EXCEPT ![p] = "exists"]
            \/ UNCHANGED staging /\ pc' = [pc EXCEPT ![p] = "cleanup"]
        BY <2>3 DEF Unpack, Goto
      <3> HIDE DEF s
      <3>4. FilesOK'
        BY <2>t, <3>1, <3>2, <3>3 DEF FilesOK
      <3>5. VisibleIsComplete'
        BY <2>t, <3>2 DEF VisibleIsComplete
      <3>6. StagedIsComplete'
        BY <2>t, <3>1, <3>2, <3>3 DEF FilesOK, StagedIsComplete
      <3> QED
        BY <3>4, <3>5, <3>6 DEF IInv
    <2>4. CASE CheckExists(p)
      BY <2>4, <2>t DEF IInv, FilesOK, VisibleIsComplete, StagedIsComplete, CheckExists, Goto, Asked, files
    <2>5. CASE Choose(p)
      BY <2>5, <2>t DEF IInv, FilesOK, VisibleIsComplete, StagedIsComplete, Choose, Goto, Asked, files
    <2>6. CASE Backup(p)
      <3>1. Target(op[p]) = IdOf[op[p].pkg] /\ Target(op[p]) \in Ids
        BY <2>6, <2>t, StoreAssumption DEF Backup, Target, StagedIsComplete
      <3>2. FilesOK'
        BY <2>6, <2>t, <2>n, <3>1 DEF FilesOK, Backup, MoveAside, Goto, Asked
      <3>3. VisibleIsComplete'
        BY <2>6, <2>t, <3>1 DEF FilesOK, VisibleIsComplete, Backup, MoveAside
      <3>4. StagedIsComplete'
        BY <2>6, <2>t, <3>1 DEF FilesOK, VisibleIsComplete, StagedIsComplete, Backup, MoveAside, Goto, Asked
      <3> QED
        BY <3>2, <3>3, <3>4 DEF IInv
    <2>7. ASSUME PutInPlace(p), op[p].kind = "install", op[p].pkg \in Packages,
                 staging[p].whole, staging[p].pkg = op[p].pkg
          PROVE  VisibleIsComplete' /\ dest' \in [Ids -> Directories] /\ staging' \in [Procs -> Directories]
      BY <2>7, <2>t, <2>n, StoreAssumption DEF PutInPlace, Target, FilesOK, VisibleIsComplete
    <2>8. CASE Swap(p)
      <3>1. FilesOK' /\ VisibleIsComplete'
        BY <2>7, <2>8, <2>t DEF Swap, FilesOK, VisibleIsComplete, StagedIsComplete, Goto, Asked
      <3>2. StagedIsComplete'
        BY <2>8, <2>t DEF Swap, PutInPlace, FilesOK, StagedIsComplete, Goto, Asked
      <3> QED
        BY <3>1, <3>2 DEF IInv
    <2>9. CASE Rollback(p)
      <3>1. Target(op[p]) = IdOf[op[p].pkg] /\ Target(op[p]) \in Ids
        BY <2>9, <2>t, StoreAssumption DEF Rollback, Target, StagedIsComplete
      <3>2. FilesOK' /\ VisibleIsComplete'
        BY <2>9, <2>t, <2>n, <3>1 DEF FilesOK, VisibleIsComplete, StagedIsComplete, Rollback, Goto, Asked
      <3>3. StagedIsComplete'
        BY <2>9, <2>t DEF FilesOK, StagedIsComplete, Rollback, Goto, Asked
      <3> QED
        BY <3>2, <3>3 DEF IInv
    <2>10. CASE Place(p)
      <3>1. FilesOK' /\ VisibleIsComplete'
        BY <2>7, <2>10, <2>t DEF Place, FilesOK, VisibleIsComplete, StagedIsComplete, Goto, Asked
      <3>2. StagedIsComplete'
        BY <2>10, <2>t DEF Place, PutInPlace, FilesOK, StagedIsComplete, Goto, Asked
      <3> QED
        BY <3>1, <3>2 DEF IInv
    <2>11. CASE Discard(p)
      <3>0. [aside[p] EXCEPT !.whole = FALSE] \in Directories
        BY <2>t, DirectoryUpdates DEF FilesOK
      <3>1. FilesOK'
        BY <2>11, <2>t, <2>n, <3>0 DEF FilesOK, Discard, Goto, Asked
      <3>2. VisibleIsComplete'
        BY <2>11, <2>t, <2>n, <3>0 DEF FilesOK, VisibleIsComplete, Discard, Goto, Asked
      <3>3. StagedIsComplete'
        BY <2>11, <2>t, <2>n, <3>0 DEF FilesOK, StagedIsComplete, Discard, Goto, Asked
      <3> QED
        BY <3>1, <3>2, <3>3 DEF IInv
    <2>12. CASE Load(p) \/ Cleanup(p)
      BY <2>12, <2>t, <2>n DEF IInv, FilesOK, VisibleIsComplete, StagedIsComplete, Load, Cleanup, Report, Goto, Asked, files
    <2>13. CASE FindInstalled(p) \/ CheckInstalled(p)
      BY <2>13, <2>t DEF IInv, FilesOK, VisibleIsComplete, StagedIsComplete, FindInstalled, CheckInstalled, Report, Goto, files
    <2>14. CASE Remove(p)
      <3>0. Target(op[p]) \in Ids
        BY <2>14, <2>t DEF Remove, Target, StagedIsComplete
      <3>1. FilesOK'
        BY <2>14, <2>t, <2>n, <3>0 DEF FilesOK, Remove, MoveAside, Report, Goto
      <3>2. VisibleIsComplete'
        BY <2>14, <2>t, <2>n, <3>0 DEF FilesOK, VisibleIsComplete, Remove, MoveAside, Report, Goto
      <3>3. StagedIsComplete'
        BY <2>14, <2>t, <2>n, <3>0 DEF FilesOK, StagedIsComplete, Remove, MoveAside, Report, Goto
      <3> QED
        BY <3>1, <3>2, <3>3 DEF IInv
    <2>15. CASE DeleteRemoved(p)
      <3>0. [aside[p] EXCEPT !.whole = FALSE] \in Directories
        BY <2>t, DirectoryUpdates DEF FilesOK
      <3>1. FilesOK'
        BY <2>15, <2>t, <2>n, <3>0 DEF FilesOK, DeleteRemoved, Report, Goto
      <3>2. VisibleIsComplete'
        BY <2>15, <2>t, <2>n, <3>0 DEF FilesOK, VisibleIsComplete, DeleteRemoved, Report, Goto
      <3>3. StagedIsComplete'
        BY <2>15, <2>t, <2>n, <3>0 DEF FilesOK, StagedIsComplete, DeleteRemoved, Report, Goto
      <3> QED
        BY <3>1, <3>2, <3>3 DEF IInv
    <2>16. CASE Mark(p)
      <3> DEFINE i == op[p].id
                 d == [dest[i] EXCEPT !.disabled = ~(op[p].kind = "enable")]
      <3>0. i \in Ids
        BY <2>16, <2>t DEF Mark, StagedIsComplete
      <3>1. d \in Directories /\ d.whole = dest[i].whole /\ d.pkg = dest[i].pkg
        <4>1. dest[i] \in Directories
          BY <2>t, <3>0 DEF FilesOK
        <4> HIDE DEF i
        <4> QED
          BY <4>1, DirectoryUpdates
      <3>2. \/ dest[i] # None /\ dest' = [dest EXCEPT ![i] = d]
            \/ UNCHANGED dest
        BY <2>16 DEF Mark
      <3> HIDE DEF i, d
      <3>3. FilesOK'
        BY <2>16, <2>t, <3>0, <3>1, <3>2 DEF FilesOK, Mark, Goto, Asked
      <3>4. VisibleIsComplete'
        BY <2>t, <3>0, <3>1, <3>2 DEF FilesOK, VisibleIsComplete
      <3>5. StagedIsComplete'
        BY <2>16, <2>t DEF FilesOK, StagedIsComplete, Mark, Goto, Asked
      <3> QED
        BY <3>3, <3>4, <3>5 DEF IInv
    <2>17. CASE ListEntries(p) \/ LoadManifest(p) \/ LoadMarker(p) \/ RegisterPlugins(p) \/ Dies(p)
      BY <2>17, <2>t DEF IInv, FilesOK, VisibleIsComplete, StagedIsComplete, ListEntries, LoadManifest, LoadMarker,
            RegisterPlugins, Dies, Report, Goto, Asked, files
    <2> QED
      BY <1>2, <2>1, <2>2, <2>3, <2>4, <2>5, <2>6, <2>8, <2>9, <2>10, <2>11, <2>12, <2>13, <2>14, <2>15, <2>16, <2>17
  <1> QED
    BY <1>1, <1>2 DEF Next

(* Whatever installs fail, race or are killed half-way, a directory with a *)
(* plugin's name holds a whole package with that id (package.rs, install). *)
THEOREM VisibleAlwaysComplete == Spec => []VisibleIsComplete
  <1>1. IInv => VisibleIsComplete
    BY DEF IInv
  <1> QED
    BY InitIInv, NextIInv, <1>1, PTL DEF Spec

-----------------------------------------------------------------------------
(* The refinement of PluginCatalog.                                        *)

(* A directory is missing or has a package.                                *)
Cells == Dirs \cup {None}

StoreTypes ==
    /\ dest \in [Ids -> Cells]
    /\ staging \in [Procs -> Cells]
    /\ aside \in [Procs -> Cells]
    /\ outcome \in [Procs -> {"none", "done", "exists", "failed"}]
    /\ effect \in [Procs -> BOOLEAN]
    /\ view \in [Procs -> SUBSET Ids]
    /\ todo \in [Procs -> SUBSET Ids]
    /\ loaded \in [Procs -> [Ids -> Cells]]
    /\ DOMAIN result = Procs

(* Which operation is at a label, and what it has done by then: all that   *)
(* an operation brings about itself, whoever runs beside it.               *)
OfInstall == InstallSteps \cup {"discard", "load"}
OfRemove  == {"find", "remove", "delete"}
OfMarker  == {"check", "mark"}
OfSession == {"list", "manifest", "marker"}
Early     == InstallSteps \cup {"find", "remove", "check", "mark", "idle"}

Own(p) ==
    /\ pc[p] \in OfInstall => op[p].kind = "install" /\ op[p].pkg \in Packages
    /\ pc[p] \in OfRemove => op[p].kind = "remove" /\ op[p].id \in Ids
    /\ pc[p] \in OfMarker => op[p].kind \in {"enable", "disable"} /\ op[p].id \in Ids
    /\ pc[p] = "cleanup" => Mutates(op[p]) /\ Target(op[p]) \in Ids /\ outcome[p] # "none"
    /\ pc[p] \in OfSession => op[p].kind = "session"
    /\ pc[p] = "idle" => op[p] = NoOp
    /\ pc[p] \in Early => ~effect[p]
    /\ pc[p] \in {"discard", "load", "delete"} => effect[p]
    /\ pc[p] \in Prepared \cup {"unpack"} => staging[p].disabled = (op[p].pkg \in BornDisabled)
    /\ pc[p] \in BackedUp => aside[p] # None
    /\ pc[p] = "marker" => todo[p] # {} /\ loaded[p][Entry(p)] # None

(* An operation that overlaps one that changes the store is raced.         *)
RaceInv ==
    \A p, q \in Running : p # q /\ Mutates(op[q]) => p \in raced

(* What an operation that is not raced has found still holds.              *)
Found(p) ==
    LET d == dest[Target(op[p])] IN
    /\ pc[p] = "choose" => op[p].replace \/ d = None
    /\ pc[p] = "backup" => op[p].replace /\ d # None
    /\ pc[p] = "place" => d = None
    /\ pc[p] \in BackedUp => op[p].replace /\ d = None
    /\ pc[p] \in {"remove", "mark"} => d # None
    /\ pc[p] = "cleanup" /\ outcome[p] = "done" => effect[p]
    /\ pc[p] = "cleanup" /\ outcome[p] = "exists" =>
          op[p].kind = "install" /\ ~op[p].replace /\ d # None

(* What a session that is not raced has loaded is what is there.           *)
Loaded(p) ==
    /\ pc[p] \in {"idle", "list"} => \A i \in Ids : loaded[p][i] = None
    /\ pc[p] \in {"manifest", "marker"} =>
          \A i \in Ids : IF i \in todo[p] THEN dest[i] # None ELSE loaded[p][i] = dest[i]
    /\ pc[p] = "marker" => loaded[p][Entry(p)] = dest[Entry(p)]

Unraced(p) == pc[p] \notin {"done", "dead"} /\ p \notin raced => Found(p) /\ Loaded(p)

RInv ==
    /\ StoreTypes /\ RaceInv
    /\ \A p \in Procs : Own(p) /\ Unraced(p)

(* The steps of a process once it has been asked.                          *)
Works(p) ==
    \/ CreateStaging(p) \/ Unpack(p) \/ CheckExists(p) \/ Choose(p)
    \/ Backup(p) \/ Swap(p) \/ Rollback(p) \/ Place(p) \/ Discard(p)
    \/ Load(p) \/ Cleanup(p)
    \/ FindInstalled(p) \/ Remove(p) \/ DeleteRemoved(p)
    \/ CheckInstalled(p) \/ Mark(p)
    \/ ListEntries(p) \/ LoadManifest(p) \/ LoadMarker(p) \/ RegisterPlugins(p)
    \/ Dies(p)

(* A step of p changes nothing of another process, and a directory only if *)
(* it is the target of p.                                                  *)
Frame(p) ==
    /\ \A q \in Procs \ {p} :
          /\ pc'[q] = pc[q] /\ op'[q] = op[q] /\ outcome'[q] = outcome[q] /\ effect'[q] = effect[q]
          /\ staging'[q] = staging[q] /\ aside'[q] = aside[q]
          /\ todo'[q] = todo[q] /\ loaded'[q] = loaded[q]
    /\ raced \subseteq raced'
    /\ \/ dest' = dest
       \/ /\ p \in Running /\ Mutates(op[p])
          /\ \A j \in Ids : j # Target(op[p]) => dest'[j] = dest[j]

(* Where the target is among the ids.                                      *)
LEMMA Targets ==
    ASSUME RInv, NEW p \in Procs
    PROVE  /\ pc[p] \in OfInstall =>
                 /\ Target(op[p]) = IdOf[op[p].pkg] /\ Target(op[p]) \in Ids /\ Mutates(op[p])
                 /\ p \in Running
           /\ pc[p] \in OfRemove \cup OfMarker =>
                 /\ Target(op[p]) = op[p].id /\ Target(op[p]) \in Ids /\ Mutates(op[p])
                 /\ p \in Running
           /\ pc[p] = "cleanup" => Target(op[p]) \in Ids /\ Mutates(op[p]) /\ p \in Running
           /\ pc[p] \in OfSession => ~Mutates(op[p]) /\ p \in Running
  BY StoreAssumption
     DEF RInv, Own, OfInstall, InstallSteps, OfRemove, OfMarker, OfSession, Target, Mutates, Running

LEMMA CellUpdates ==
    /\ None \in Cells /\ ~None.whole /\ None.pkg = "none" /\ ~None.disabled
    /\ \A d \in Cells, b \in BOOLEAN :
          /\ d \in Directories
          /\ d # None => /\ d.pkg \in Packages
                         /\ [d EXCEPT !.disabled = b] \in Cells
                         /\ [d EXCEPT !.disabled = b] # None
                         /\ [d EXCEPT !.disabled = b].disabled = b
                         /\ [d EXCEPT !.disabled = b].pkg = d.pkg
                         /\ [d EXCEPT !.whole = b] \in Cells
                         /\ [d EXCEPT !.whole = b].disabled = d.disabled
          /\ [d EXCEPT !.whole = FALSE] \in Cells
          /\ [d EXCEPT !.disabled = d.disabled] = d
  <1>1. None \in Cells /\ ~None.whole /\ None.pkg = "none" /\ ~None.disabled
    BY DEF Cells, None
  <1>2. ASSUME NEW d \in Dirs, NEW b \in BOOLEAN
        PROVE  /\ d \in Directories /\ d.pkg \in Packages /\ d # None
               /\ [d EXCEPT !.disabled = b] \in Dirs
               /\ [d EXCEPT !.disabled = b].disabled = b
               /\ [d EXCEPT !.disabled = b].pkg = d.pkg
               /\ [d EXCEPT !.whole = b] \in Dirs
               /\ [d EXCEPT !.whole = b].disabled = d.disabled
               /\ [d EXCEPT !.disabled = d.disabled] = d
    BY StoreAssumption DEF Dirs, Directories, None
  <1>3. None \in Directories /\ None.whole = FALSE
    BY DEF None, Directories
  <1>4. \A d \in Directories : [d EXCEPT !.whole = d.whole] = d /\ [d EXCEPT !.disabled = d.disabled] = d
    BY DEF Directories
  <1>5. [None EXCEPT !.whole = FALSE] = None
    <2>1. [None EXCEPT !.whole = None.whole] = None
      BY <1>3, <1>4
    <2> QED BY <1>3, <2>1
  <1>6. \A d \in Dirs, b \in BOOLEAN : [d EXCEPT !.disabled = b] # None
    BY <1>2
  <1>7. ASSUME NEW d \in Cells, NEW b \in BOOLEAN
        PROVE  /\ d \in Directories
               /\ d # None => /\ d.pkg \in Packages
                              /\ [d EXCEPT !.disabled = b] \in Cells
                              /\ [d EXCEPT !.disabled = b] # None
                              /\ [d EXCEPT !.disabled = b].disabled = b
                              /\ [d EXCEPT !.disabled = b].pkg = d.pkg
                              /\ [d EXCEPT !.whole = b] \in Cells
                              /\ [d EXCEPT !.whole = b].disabled = d.disabled
               /\ [d EXCEPT !.whole = FALSE] \in Cells
               /\ [d EXCEPT !.disabled = d.disabled] = d
    <2>1. CASE d \in Dirs
      BY <1>2, <1>6, <2>1 DEF Cells
    <2>2. CASE d = None
      BY <1>1, <1>3, <1>4, <1>5, <2>2
    <2> QED BY <2>1, <2>2 DEF Cells
  <1> QED BY <1>1, <1>7

LEMMA FrameStep ==
    ASSUME IInv, RInv, NEW p \in Procs, Works(p)
    PROVE  Frame(p) /\ UNCHANGED <<op, raced>>
  <1> USE Targets DEF files, reading, aux, Goto, Outcome, Asked, Report
  <1>0. /\ dest \in [Ids -> Cells] /\ pc \in [Procs -> Labels]
        /\ staging \in [Procs -> Cells] /\ aside \in [Procs -> Cells]
        /\ outcome \in [Procs -> {"none", "done", "exists", "failed"}]
        /\ effect \in [Procs -> BOOLEAN] /\ todo \in [Procs -> SUBSET Ids]
        /\ loaded \in [Procs -> [Ids -> Cells]]
    BY DEF RInv, StoreTypes, IInv, FilesOK
  <1>1. CASE CreateStaging(p) \/ Unpack(p) \/ CheckExists(p) \/ Choose(p) \/ Discard(p) \/ Load(p)
             \/ Cleanup(p) \/ FindInstalled(p) \/ DeleteRemoved(p) \/ CheckInstalled(p) \/ Dies(p)
    BY <1>0, <1>1
       DEF Frame, CreateStaging, Unpack, CheckExists, Choose, Discard, Load, Cleanup, FindInstalled,
           DeleteRemoved, CheckInstalled, Dies
  <1>2. CASE ListEntries(p) \/ LoadManifest(p) \/ LoadMarker(p) \/ RegisterPlugins(p)
    BY <1>0, <1>2 DEF Frame, ListEntries, LoadManifest, LoadMarker, RegisterPlugins
  <1>3. CASE Backup(p) \/ Swap(p) \/ Rollback(p) \/ Place(p)
    BY <1>0, <1>3 DEF Frame, Backup, Swap, Rollback, Place, MoveAside, PutInPlace, OfInstall, InstallSteps
  <1>4. CASE Remove(p) \/ Mark(p)
    BY <1>0, <1>4 DEF Frame, Remove, Mark, MoveAside, OfRemove, OfMarker
  <1> QED BY <1>1, <1>2, <1>3, <1>4 DEF Works

(* Nothing that another operation relies on is disturbed.                  *)
LEMMA OthersKeep ==
    ASSUME RInv, NEW p \in Procs, Frame(p), NEW q \in Procs, q # p
    PROVE  Own(q)' /\ Unraced(q)'
  <1>1. Own(q) /\ Unraced(q) /\ RaceInv
    BY DEF RInv
  <1>e. Entry(q)' = Entry(q)
    BY DEF Frame, Entry
  <1>2. Own(q)'
    BY <1>1, <1>e DEF Frame, Own
  <1>3. ASSUME pc'[q] \notin {"done", "dead"}, q \notin raced'
        PROVE  Found(q)' /\ Loaded(q)'
    <2>1. q \notin raced /\ pc[q] \notin {"done", "dead"} /\ Found(q) /\ Loaded(q)
      BY <1>1, <1>3 DEF Frame, Unraced
    <2>2. CASE pc[q] = "idle"
      BY <2>1, <2>2 DEF Found, Loaded, Frame, BackedUp
    <2>3. CASE pc[q] # "idle"
      <3>1. q \in Running
        BY <2>1, <2>3 DEF Running
      <3>2. dest' = dest
        BY <1>1, <2>1, <3>1 DEF Frame, RaceInv
      <3> QED BY <1>e, <2>1, <3>2 DEF Found, Loaded, Frame
    <2> QED BY <2>2, <2>3
  <1> QED BY <1>2, <1>3 DEF Unraced

(* What each operation does to its own state.                              *)
LEMMA InstallKeeps ==
    ASSUME IInv, RInv, NEW p \in Procs,
           \/ CreateStaging(p) \/ Unpack(p) \/ CheckExists(p) \/ Choose(p) \/ Backup(p) \/ Swap(p)
           \/ Rollback(p) \/ Place(p) \/ Discard(p) \/ Load(p)
    PROVE  StoreTypes' /\ Own(p)' /\ Unraced(p)'
  <1> USE DEF files, reading, Goto, Outcome, Asked, Report, OfInstall, InstallSteps, OfRemove, OfMarker,
              OfSession, Early, Prepared, BackedUp
  <1> DEFINE t == Target(op[p])
  <1>0. /\ dest \in [Ids -> Cells] /\ pc \in [Procs -> Labels]
        /\ staging \in [Procs -> Cells] /\ aside \in [Procs -> Cells]
        /\ outcome \in [Procs -> {"none", "done", "exists", "failed"}]
        /\ effect \in [Procs -> BOOLEAN] /\ todo \in [Procs -> SUBSET Ids]
        /\ loaded \in [Procs -> [Ids -> Cells]] /\ view \in [Procs -> SUBSET Ids]
        /\ DOMAIN result = Procs
    BY DEF RInv, StoreTypes, IInv, FilesOK
  <1>1. Own(p) /\ Unraced(p)
    BY DEF RInv
  <1>2. /\ pc[p] \in OfInstall /\ op[p].kind = "install" /\ op[p].pkg \in Packages
        /\ t \in Ids /\ Mutates(op[p])
        /\ UNCHANGED <<op, raced, result, view, todo, loaded>>
    <2>1. pc[p] \in OfInstall
      BY DEF CreateStaging, Unpack, CheckExists, Choose, Backup, Swap, Rollback, Place, Discard, Load
    <2>2. UNCHANGED <<op, raced, result, view, todo, loaded>>
      BY DEF CreateStaging, Unpack, CheckExists, Choose, Backup, Swap, Rollback, Place, Discard, Load
    <2> QED BY <1>1, <2>1, <2>2, Targets DEF Own
  <1>n. None \in Cells
    BY CellUpdates
  <1>3. CASE CreateStaging(p)
    <2> DEFINE s == [pkg |-> op[p].pkg, whole |-> FALSE, disabled |-> op[p].pkg \in BornDisabled]
    <2>1. s \in Cells /\ s.disabled = (op[p].pkg \in BornDisabled)
      BY <1>2 DEF Cells, Dirs
    <2>2. /\ pc[p] = "create" /\ staging' = [staging EXCEPT ![p] = s] /\ pc' = [pc EXCEPT ![p] = "unpack"]
          /\ UNCHANGED <<dest, aside, outcome, effect>>
      BY <1>3 DEF CreateStaging
    <2> HIDE DEF s
    <2> QED BY <1>0, <1>1, <1>2, <2>1, <2>2 DEF StoreTypes, Own, Unraced, Found, Loaded
  <1>4. CASE Unpack(p)
    <2> DEFINE s == [staging[p] EXCEPT !.whole = TRUE]
    <2>1. /\ pc[p] = "unpack" /\ UNCHANGED <<dest, aside, effect>>
          /\ \/ staging' = [staging EXCEPT ![p] = s] /\ pc' = [pc EXCEPT ![p] = "exists"] /\ UNCHANGED outcome
             \/ /\ pc' = [pc EXCEPT ![p] = "cleanup"] /\ outcome' = [outcome EXCEPT ![p] = "failed"]
                /\ UNCHANGED staging
      BY <1>4 DEF Unpack
    <2>2. staging[p] \in Cells /\ staging[p] # None
      <3>1. staging[p].pkg \in Packages
        BY <1>2, <2>1 DEF IInv, StagedIsComplete
      <3>2. None.pkg \notin Packages
        BY StoreAssumption DEF None
      <3> QED BY <1>0, <3>1, <3>2
    <2>3. s \in Cells /\ s.disabled = staging[p].disabled
      <3>1. ASSUME NEW d \in Cells, d # None
            PROVE  [d EXCEPT !.whole = TRUE] \in Cells /\ [d EXCEPT !.whole = TRUE].disabled = d.disabled
        BY <3>1, CellUpdates
      <3> QED BY <2>2, <3>1
    <2> HIDE DEF s
    <2>4. StoreTypes'
      <3> HIDE DEF t
      <3>1. staging' \in [Procs -> Cells]
        BY <1>0, <2>1, <2>3
      <3>2. outcome' \in [Procs -> {"none", "done", "exists", "failed"}]
        BY <1>0, <2>1
      <3> QED BY <1>0, <1>2, <2>1, <3>1, <3>2 DEF StoreTypes
    <2>5. Own(p)'
      BY <1>0, <1>1, <1>2, <2>1, <2>3 DEF Own
    <2>6. Unraced(p)'
      BY <1>0, <1>1, <1>2, <2>1 DEF Unraced, Found, Loaded
    <2> QED BY <2>4, <2>5, <2>6
  <1>5. CASE CheckExists(p)
    <2>1. /\ pc[p] = "exists" /\ UNCHANGED <<dest, staging, aside, effect>>
          /\ \/ /\ dest[t] # None /\ ~op[p].replace
                /\ pc' = [pc EXCEPT ![p] = "cleanup"] /\ outcome' = [outcome EXCEPT ![p] = "exists"]
             \/ /\ dest[t] = None \/ op[p].replace
                /\ pc' = [pc EXCEPT ![p] = "choose"] /\ outcome' = [outcome EXCEPT ![p] = outcome[p]]
      BY <1>5 DEF CheckExists
    <2> QED BY <1>0, <1>1, <1>2, <2>1 DEF StoreTypes, Own, Unraced, Found, Loaded
  <1>6. CASE Choose(p)
    <2>1. /\ pc[p] = "choose" /\ UNCHANGED <<dest, staging, aside, effect, outcome>>
          /\ \/ dest[t] # None /\ pc' = [pc EXCEPT ![p] = "backup"]
             \/ dest[t] = None /\ pc' = [pc EXCEPT ![p] = "place"]
      BY <1>6 DEF Choose
    <2> QED BY <1>0, <1>1, <1>2, <2>1 DEF StoreTypes, Own, Unraced, Found, Loaded
  <1>7. CASE Backup(p)
    <2>1. /\ pc[p] = "backup" /\ UNCHANGED <<staging, effect>>
          /\ \/ /\ dest[t] # None /\ aside' = [aside EXCEPT ![p] = dest[t]]
                /\ dest' = [dest EXCEPT ![t] = None] /\ pc' = [pc EXCEPT ![p] = "swap"]
                /\ UNCHANGED outcome
             \/ /\ pc' = [pc EXCEPT ![p] = "cleanup"]
                /\ outcome' = [outcome EXCEPT ![p] = "failed"] /\ UNCHANGED <<dest, aside>>
      BY <1>7 DEF Backup, MoveAside
    <2>2. StoreTypes'
      <3> HIDE DEF t
      <3>1. dest[t] \in Cells /\ aside[p] \in Cells
        BY <1>0, <1>2
      <3>2. dest' \in [Ids -> Cells]
        BY <1>0, <1>n, <2>1, <3>1
      <3>3. aside' \in [Procs -> Cells]
        BY <1>0, <1>n, <2>1, <3>1
      <3>4. outcome' \in [Procs -> {"none", "done", "exists", "failed"}]
        BY <1>0, <2>1
      <3> QED BY <1>0, <1>2, <2>1, <3>2, <3>3, <3>4 DEF StoreTypes
    <2>3. Own(p)'
      BY <1>0, <1>1, <1>2, <2>1 DEF Own
    <2>4. Unraced(p)'
      BY <1>0, <1>1, <1>2, <2>1 DEF Unraced, Found, Loaded
    <2> QED BY <2>2, <2>3, <2>4
  <1>8. ASSUME PutInPlace(p), pc[p] \in {"swap", "place"}, UNCHANGED <<aside, outcome>>,
               \/ pc[p] = "swap" /\ pc' = [pc EXCEPT ![p] = "discard"]
               \/ pc[p] = "place" /\ pc' = [pc EXCEPT ![p] = "load"]
        PROVE  StoreTypes' /\ Own(p)' /\ Unraced(p)'
    BY <1>0, <1>1, <1>2, <1>8, CellUpdates DEF PutInPlace, StoreTypes, Own, Unraced, Found, Loaded
  <1>9. CASE Swap(p)
    <2>1. CASE PutInPlace(p) /\ pc' = [pc EXCEPT ![p] = "discard"]
      BY <1>8, <1>9, <2>1 DEF Swap
    <2>2. CASE /\ pc' = [pc EXCEPT ![p] = "rollback"]
               /\ UNCHANGED <<dest, staging, effect>>
      <3>1. pc[p] = "swap" /\ UNCHANGED <<aside, outcome>>
        BY <1>9 DEF Swap
      <3> QED BY <1>0, <1>1, <1>2, <2>2, <3>1 DEF StoreTypes, Own, Unraced, Found, Loaded
    <2> QED BY <1>9, <2>1, <2>2 DEF Swap
  <1>10. CASE Rollback(p)
    <2>1. /\ pc[p] = "rollback" /\ UNCHANGED <<staging, effect>>
          /\ pc' = [pc EXCEPT ![p] = "cleanup"] /\ outcome' = [outcome EXCEPT ![p] = "failed"]
          /\ \/ dest' = [dest EXCEPT ![t] = aside[p]] /\ aside' = [aside EXCEPT ![p] = None]
             \/ UNCHANGED <<dest, aside>>
      BY <1>10 DEF Rollback
    <2>2. StoreTypes'
      <3> HIDE DEF t
      <3>1. dest[t] \in Cells /\ aside[p] \in Cells
        BY <1>0, <1>2
      <3>2. dest' \in [Ids -> Cells]
        BY <1>0, <1>n, <2>1, <3>1
      <3>3. aside' \in [Procs -> Cells]
        BY <1>0, <1>n, <2>1, <3>1
      <3>4. outcome' \in [Procs -> {"none", "done", "exists", "failed"}]
        BY <1>0, <2>1
      <3> QED BY <1>0, <1>2, <2>1, <3>2, <3>3, <3>4 DEF StoreTypes
    <2>3. Own(p)'
      BY <1>0, <1>1, <1>2, <2>1 DEF Own
    <2>4. Unraced(p)'
      BY <1>0, <1>1, <1>2, <2>1 DEF Unraced, Found, Loaded
    <2> QED BY <2>2, <2>3, <2>4
  <1>11. CASE Place(p)
    <2>1. CASE PutInPlace(p) /\ pc' = [pc EXCEPT ![p] = "load"] /\ UNCHANGED outcome
      BY <1>8, <1>11, <2>1 DEF Place
    <2>2. CASE /\ pc' = [pc EXCEPT ![p] = "cleanup"]
               /\ outcome' = [outcome EXCEPT ![p] = "failed"] /\ UNCHANGED <<dest, staging, effect>>
      <3>1. pc[p] = "place" /\ UNCHANGED aside
        BY <1>11 DEF Place
      <3> QED BY <1>0, <1>1, <1>2, <2>2, <3>1 DEF StoreTypes, Own, Unraced, Found, Loaded
    <2> QED BY <1>11, <2>1, <2>2 DEF Place
  <1>12. CASE Discard(p)
    <2> DEFINE a == [aside[p] EXCEPT !.whole = FALSE]
    <2>1. a \in Cells
      <3>1. \A d \in Cells : [d EXCEPT !.whole = FALSE] \in Cells
        BY CellUpdates
      <3> QED BY <1>0, <3>1
    <2>2. /\ pc[p] = "discard" /\ UNCHANGED <<dest, staging, effect>>
          /\ \/ /\ aside' = [aside EXCEPT ![p] = None] /\ pc' = [pc EXCEPT ![p] = "load"]
                /\ UNCHANGED outcome
             \/ /\ aside' = [aside EXCEPT ![p] = a] /\ pc' = [pc EXCEPT ![p] = "cleanup"]
                /\ outcome' = [outcome EXCEPT ![p] = "failed"]
      BY <1>12 DEF Discard
    <2> HIDE DEF a
    <2>3. StoreTypes'
      <3> HIDE DEF t
      <3>1. aside' \in [Procs -> Cells]
        BY <1>0, <1>n, <2>1, <2>2
      <3>2. outcome' \in [Procs -> {"none", "done", "exists", "failed"}]
        BY <1>0, <2>2
      <3> QED BY <1>0, <1>2, <2>2, <3>1, <3>2 DEF StoreTypes
    <2>4. Own(p)'
      BY <1>0, <1>1, <1>2, <2>2 DEF Own
    <2>5. Unraced(p)'
      BY <1>0, <1>1, <1>2, <2>2 DEF Unraced, Found, Loaded
    <2> QED BY <2>3, <2>4, <2>5
  <1>13. CASE Load(p)
    <2>1. /\ pc[p] = "load" /\ UNCHANGED <<dest, staging, aside, effect>>
          /\ pc' = [pc EXCEPT ![p] = "cleanup"]
          /\ \E r \in {"done", "failed"} : outcome' = [outcome EXCEPT ![p] = r]
      BY <1>13 DEF Load
    <2> QED BY <1>0, <1>1, <1>2, <2>1 DEF StoreTypes, Own, Unraced, Found, Loaded
  <1> QED BY <1>3, <1>4, <1>5, <1>6, <1>7, <1>9, <1>10, <1>11, <1>12, <1>13

LEMMA NamedKeeps ==
    ASSUME IInv, RInv, NEW p \in Procs,
           \/ Cleanup(p) \/ FindInstalled(p) \/ Remove(p) \/ DeleteRemoved(p) \/ CheckInstalled(p)
           \/ Mark(p) \/ Dies(p)
    PROVE  StoreTypes' /\ Own(p)' /\ Unraced(p)'
  <1> USE DEF files, reading, Goto, Outcome, Asked, Report, OfInstall, InstallSteps, OfRemove, OfMarker,
              OfSession, Early, Prepared, BackedUp
  <1>0. /\ dest \in [Ids -> Cells] /\ pc \in [Procs -> Labels]
        /\ staging \in [Procs -> Cells] /\ aside \in [Procs -> Cells]
        /\ outcome \in [Procs -> {"none", "done", "exists", "failed"}]
        /\ effect \in [Procs -> BOOLEAN] /\ todo \in [Procs -> SUBSET Ids]
        /\ loaded \in [Procs -> [Ids -> Cells]] /\ view \in [Procs -> SUBSET Ids]
        /\ DOMAIN result = Procs
    BY DEF RInv, StoreTypes, IInv, FilesOK
  <1>1. Own(p) /\ Unraced(p)
    BY DEF RInv
  <1>n. None \in Cells
    BY CellUpdates
  <1>2. ASSUME pc'[p] \in {"done", "dead"} PROVE Own(p)' /\ Unraced(p)'
    BY <1>2 DEF Own, Unraced
  <1>3. UNCHANGED <<op, raced, view, todo, loaded>>
    BY DEF Cleanup, FindInstalled, Remove, DeleteRemoved, CheckInstalled, Mark, Dies
  <1>4. ASSUME dest' \in [Ids -> Cells], staging' \in [Procs -> Cells], aside' \in [Procs -> Cells],
               outcome' \in [Procs -> {"none", "done", "exists", "failed"}],
               effect' \in [Procs -> BOOLEAN], DOMAIN result' = Procs
        PROVE  StoreTypes'
    BY <1>0, <1>3, <1>4 DEF StoreTypes
  <1>5. ASSUME NEW r, result' = [result EXCEPT ![p] = r] PROVE DOMAIN result' = Procs
    BY <1>0, <1>5
  <1>6. CASE Cleanup(p) \/ Dies(p)
    <2>1. staging' \in [Procs -> Cells] /\ DOMAIN result' = Procs /\ UNCHANGED <<dest, aside, outcome, effect>>
      BY <1>0, <1>n, <1>6 DEF Cleanup, Dies
    <2>2. pc'[p] \in {"done", "dead"}
      BY <1>0, <1>6 DEF Cleanup, Dies
    <2> QED BY <1>0, <1>2, <1>4, <2>1, <2>2
  <1>7. CASE FindInstalled(p) \/ CheckInstalled(p)
    <2>1. DOMAIN result' = Procs /\ UNCHANGED <<files, outcome, effect>>
      BY <1>0, <1>7 DEF FindInstalled, CheckInstalled
    <2>2. StoreTypes'
      BY <1>0, <1>4, <2>1
    <2>3. \/ pc'[p] = "done"
          \/ pc[p] = "find" /\ pc'[p] = "remove" /\ dest[op[p].id] # None
          \/ pc[p] = "check" /\ pc'[p] = "mark" /\ dest[op[p].id] # None
      BY <1>0, <1>7 DEF FindInstalled, CheckInstalled
    <2>4. CASE pc'[p] # "done"
      <3>1. Target(op[p]) = op[p].id
        BY <2>3, <2>4, Targets
      <3>2. Own(p)'
        BY <1>1, <1>3, <2>1, <2>3, <2>4 DEF Own
      <3>3. Unraced(p)'
        BY <1>1, <1>3, <2>1, <2>3, <2>4, <3>1 DEF Unraced, Found, Loaded
      <3> QED BY <2>2, <3>2, <3>3
    <2> QED BY <1>2, <2>2, <2>4
  <1>8. CASE Remove(p)
    <2>1. pc[p] = "remove" /\ UNCHANGED <<staging, outcome>> /\ Target(op[p]) \in Ids
      BY <1>8, Targets DEF Remove
    <2> DEFINE t == Target(op[p])
    <2>2. \/ /\ aside' = [aside EXCEPT ![p] = dest[t]] /\ dest' = [dest EXCEPT ![t] = None]
             /\ effect' = [effect EXCEPT ![p] = TRUE] /\ pc' = [pc EXCEPT ![p] = "delete"]
             /\ UNCHANGED result
          \/ /\ pc' = [pc EXCEPT ![p] = "done"] /\ result' = [result EXCEPT ![p] = "failed"]
             /\ UNCHANGED <<dest, aside, effect>>
      BY <1>8 DEF Remove, MoveAside
    <2>3. t \in Ids /\ dest[t] \in Cells
      BY <1>0, <2>1
    <2> HIDE DEF t
    <2>4. dest' \in [Ids -> Cells]
      BY <1>0, <1>n, <2>2, <2>3
    <2>5. aside' \in [Procs -> Cells]
      BY <1>0, <2>2, <2>3
    <2>6. effect' \in [Procs -> BOOLEAN] /\ DOMAIN result' = Procs
      BY <1>0, <2>2
    <2>7. StoreTypes'
      BY <1>0, <1>4, <2>1, <2>4, <2>5, <2>6
    <2>8. CASE pc' = [pc EXCEPT ![p] = "delete"]
      <3>1. pc'[p] = "delete" /\ effect'[p]
        BY <1>0, <2>2, <2>8
      <3>2. Own(p)'
        BY <1>1, <1>3, <2>1, <3>1 DEF Own
      <3>3. Unraced(p)'
        BY <3>1 DEF Unraced, Found, Loaded
      <3> QED BY <2>7, <3>2, <3>3
    <2>9. CASE pc' = [pc EXCEPT ![p] = "done"]
      BY <1>0, <1>2, <2>7, <2>9
    <2> QED BY <2>2, <2>8, <2>9
  <1>9. CASE DeleteRemoved(p)
    <2>1. \A d \in Cells : [d EXCEPT !.whole = FALSE] \in Cells
      BY CellUpdates
    <2>2. \E a \in Cells : aside' = [aside EXCEPT ![p] = a]
      BY <1>0, <1>n, <1>9, <2>1 DEF DeleteRemoved
    <2>3. aside' \in [Procs -> Cells]
      BY <1>0, <2>2
    <2>4. DOMAIN result' = Procs /\ UNCHANGED <<dest, staging, outcome, effect>> /\ pc'[p] = "done"
      BY <1>0, <1>9 DEF DeleteRemoved
    <2> QED BY <1>0, <1>2, <1>4, <2>3, <2>4
  <1>10. CASE Mark(p)
    <2> DEFINE i == op[p].id
               d == [dest[i] EXCEPT !.disabled = ~(op[p].kind = "enable")]
    <2>1. /\ pc[p] = "mark" /\ UNCHANGED <<staging, aside, result>> /\ i \in Ids
          /\ pc'[p] = "cleanup" /\ Mutates(op[p]) /\ Target(op[p]) = i /\ op[p].kind # "install"
      BY <1>0, <1>1, <1>10, Targets DEF Mark, Own
    <2>2. \/ dest[i] # None /\ dest' = [dest EXCEPT ![i] = d] /\ effect' = [effect EXCEPT ![p] = TRUE]
          \/ /\ UNCHANGED <<dest, effect>>
             /\ dest[i] # None => outcome' = [outcome EXCEPT ![p] = "failed"]
      BY <1>10 DEF Mark
    <2>3. \/ outcome' = [outcome EXCEPT ![p] = "failed"]
          \/ outcome' = [outcome EXCEPT ![p] = "done"]
      BY <1>10 DEF Mark
    <2>4. dest[i] # None => d \in Cells
      <3>1. \A e \in Cells, b \in BOOLEAN : e # None => [e EXCEPT !.disabled = b] \in Cells
        BY CellUpdates
      <3> QED BY <1>0, <2>1, <3>1
    <2> HIDE DEF d, i
    <2>5. dest' \in [Ids -> Cells]
      BY <1>0, <2>1, <2>2, <2>4
    <2>6. outcome' \in [Procs -> {"none", "done", "exists", "failed"}] /\ effect' \in [Procs -> BOOLEAN]
      BY <1>0, <2>2, <2>3
    <2>7. StoreTypes'
      BY <1>0, <1>4, <2>1, <2>5, <2>6
    <2>8. outcome'[p] \in {"failed", "done"}
      BY <1>0, <2>3
    <2>9. Own(p)'
      BY <1>3, <2>1, <2>8 DEF Own
    <2>10. ASSUME p \notin raced, outcome'[p] = "done" PROVE effect'[p]
      BY <1>0, <1>1, <2>1, <2>2, <2>10 DEF Unraced, Found
    <2>11. Unraced(p)'
      BY <1>3, <2>1, <2>8, <2>10 DEF Unraced, Found, Loaded
    <2> QED BY <2>7, <2>9, <2>11
  <1> QED BY <1>6, <1>7, <1>8, <1>9, <1>10

LEMMA SessionKeeps ==
    ASSUME IInv, RInv, NEW p \in Procs,
           ListEntries(p) \/ LoadManifest(p) \/ LoadMarker(p) \/ RegisterPlugins(p)
    PROVE  StoreTypes' /\ Own(p)' /\ Unraced(p)'
  <1> USE DEF files, reading, Goto, Outcome, Asked, Report, OfInstall, InstallSteps, OfRemove, OfMarker,
              OfSession, Early, Prepared, BackedUp
  <1>0. /\ dest \in [Ids -> Cells] /\ pc \in [Procs -> Labels]
        /\ todo \in [Procs -> SUBSET Ids]
        /\ loaded \in [Procs -> [Ids -> Cells]] /\ view \in [Procs -> SUBSET Ids]
        /\ DOMAIN result = Procs
    BY DEF RInv, StoreTypes, IInv, FilesOK
  <1>1. Own(p) /\ Unraced(p) /\ StoreTypes /\ VisibleIsComplete
    BY DEF RInv, IInv
  <1>n. None \in Cells /\ ~None.whole
    BY CellUpdates
  <1>2. UNCHANGED <<files, op, raced, outcome, effect>>
    BY DEF ListEntries, LoadManifest, LoadMarker, RegisterPlugins
  <1>3. ASSUME todo' \in [Procs -> SUBSET Ids], loaded' \in [Procs -> [Ids -> Cells]],
               view' \in [Procs -> SUBSET Ids], DOMAIN result' = Procs
        PROVE  StoreTypes'
    BY <1>1, <1>2, <1>3 DEF StoreTypes
  <1>4. CASE ListEntries(p)
    <2>1. /\ pc[p] = "list" /\ todo' \in [Procs -> SUBSET Ids] /\ UNCHANGED <<loaded, view>>
          /\ DOMAIN result' = Procs
          /\ \/ pc'[p] = "manifest" /\ todo'[p] = {i \in Ids : dest[i] # None}
             \/ pc'[p] = "done"
      BY <1>0, <1>4 DEF ListEntries
    <2>2. StoreTypes'
      BY <1>0, <1>3, <2>1
    <2>3. Own(p)'
      BY <1>1, <1>2, <2>1 DEF Own
    <2>4. Unraced(p)'
      BY <1>1, <1>2, <2>1 DEF Unraced, Found, Loaded
    <2> QED BY <2>2, <2>3, <2>4
  <1>5. CASE LoadManifest(p)
    <2> DEFINE i == Entry(p)
    <2>1. /\ pc[p] = "manifest" /\ todo[p] # {} /\ UNCHANGED <<view, result>>
          /\ \/ /\ dest[i].whole /\ loaded' = [loaded EXCEPT ![p] = [loaded[p] EXCEPT ![i] = dest[i]]]
                /\ pc' = [pc EXCEPT ![p] = "marker"] /\ UNCHANGED todo
             \/ /\ ~dest[i].whole /\ todo' = [todo EXCEPT ![p] = todo[p] \ {i}]
                /\ UNCHANGED <<loaded, pc>>
      BY <1>5 DEF LoadManifest
    <2>2. i \in todo[p] /\ i \in Ids
      <3>1. i \in todo[p]
        BY <2>1 DEF Entry
      <3> QED BY <1>0, <3>1
    <2>3. UNCHANGED todo => Entry(p)' = i
      BY DEF Entry
    <2> HIDE DEF i
    <2>4. CASE dest[i].whole
      <3>1. dest[i] \in Cells /\ dest[i] # None /\ loaded[p] \in [Ids -> Cells]
        BY <1>0, <1>n, <2>2, <2>4
      <3>2. /\ pc'[p] = "marker" /\ UNCHANGED todo /\ loaded'[p][i] = dest[i] /\ loaded'[p] \in [Ids -> Cells]
            /\ \A j \in Ids : j # i => loaded'[p][j] = loaded[p][j]
        BY <1>0, <2>1, <2>2, <2>4, <3>1
      <3>3. loaded' \in [Procs -> [Ids -> Cells]]
        <4>1. [loaded[p] EXCEPT ![i] = dest[i]] \in [Ids -> Cells]
          BY <3>1
        <4> QED BY <1>0, <2>1, <2>4, <4>1
      <3>4. StoreTypes'
        BY <1>0, <1>3, <2>1, <3>2, <3>3
      <3>5. Own(p)'
        BY <1>1, <1>2, <2>1, <2>3, <3>1, <3>2 DEF Own
      <3>6. Unraced(p)'
        BY <1>1, <1>2, <2>1, <2>2, <2>3, <3>2 DEF Unraced, Found, Loaded
      <3> QED BY <3>4, <3>5, <3>6
    <2>5. CASE ~dest[i].whole
      <3>1. pc'[p] = "manifest" /\ UNCHANGED loaded /\ todo' \in [Procs -> SUBSET Ids]
        BY <1>0, <2>1, <2>5
      <3>2. p \in raced
        <4>1. dest[i] = None
          BY <1>1, <2>2, <2>5 DEF VisibleIsComplete
        <4> QED BY <1>1, <2>1, <2>2, <4>1 DEF Unraced, Loaded
      <3>3. StoreTypes'
        BY <1>0, <1>3, <2>1, <3>1
      <3>4. Own(p)'
        BY <1>1, <1>2, <2>1, <3>1 DEF Own
      <3> QED BY <1>2, <3>2, <3>3, <3>4 DEF Unraced
    <2> QED BY <2>4, <2>5
  <1>6. CASE LoadMarker(p)
    <2> DEFINE i == Entry(p)
               d == [loaded[p][i] EXCEPT !.disabled = dest[i].disabled]
    <2>1. /\ pc[p] = "marker" /\ pc' = [pc EXCEPT ![p] = "manifest"] /\ UNCHANGED <<view, result>>
          /\ todo' = [todo EXCEPT ![p] = todo[p] \ {i}]
          /\ \/ loaded' = [loaded EXCEPT ![p] = [loaded[p] EXCEPT ![i] = d]]
             \/ /\ dest[i].pkg # loaded[p][i].pkg
                /\ loaded' = [loaded EXCEPT ![p] = [loaded[p] EXCEPT ![i] = None]]
      BY <1>6 DEF LoadMarker
    <2>2. i \in todo[p] /\ i \in Ids /\ loaded[p][i] # None
      <3>1. i \in todo[p]
        BY <1>1, <2>1 DEF Entry, Own
      <3> QED BY <1>0, <1>1, <2>1, <3>1 DEF Own
    <2>3. d \in Cells
      <3>1. \A e \in Cells, b \in BOOLEAN : e # None => [e EXCEPT !.disabled = b] \in Cells
        BY CellUpdates
      <3>2. dest[i] \in Directories /\ loaded[p][i] \in Cells
        BY <1>0, <2>2 DEF IInv, FilesOK
      <3>3. dest[i].disabled \in BOOLEAN
        BY <3>2 DEF Directories
      <3> HIDE DEF i
      <3> QED BY <2>2, <3>1, <3>2, <3>3
    <2>4. ASSUME loaded[p][i] = dest[i] PROVE d = dest[i]
      <3>1. \A e \in Cells : [e EXCEPT !.disabled = e.disabled] = e
        BY CellUpdates
      <3>2. dest[i] \in Cells
        BY <1>0, <2>2
      <3> HIDE DEF i
      <3> QED BY <2>4, <3>1, <3>2
    <2> HIDE DEF i, d
    <2>5. \E e \in Cells :
             /\ loaded' = [loaded EXCEPT ![p] = [loaded[p] EXCEPT ![i] = e]]
             /\ loaded[p][i] = dest[i] => e = dest[i]
      BY <1>n, <2>1, <2>3, <2>4
    <2>6. PICK e \in Cells :
             /\ loaded' = [loaded EXCEPT ![p] = [loaded[p] EXCEPT ![i] = e]]
             /\ loaded[p][i] = dest[i] => e = dest[i]
      BY <2>5
    <2>7. loaded' \in [Procs -> [Ids -> Cells]]
      <3>1. [loaded[p] EXCEPT ![i] = e] \in [Ids -> Cells]
        BY <1>0
      <3> QED BY <1>0, <2>6, <3>1
    <2>8. /\ pc'[p] = "manifest" /\ todo'[p] = todo[p] \ {i} /\ todo' \in [Procs -> SUBSET Ids]
          /\ loaded'[p] = [loaded[p] EXCEPT ![i] = e]
      BY <1>0, <2>1, <2>6
    <2>9. loaded'[p][i] = e /\ \A j \in Ids : j # i => loaded'[p][j] = loaded[p][j]
      BY <1>0, <2>2, <2>8
    <2>10. StoreTypes'
      BY <1>0, <1>3, <2>1, <2>7, <2>8
    <2>11. Own(p)'
      BY <1>1, <1>2, <2>1, <2>8 DEF Own
    <2>12. ASSUME p \notin raced PROVE Found(p)' /\ Loaded(p)'
      <3>1. loaded[p][i] = dest[i] /\ \A j \in Ids : IF j \in todo[p] THEN dest[j] # None ELSE loaded[p][j] = dest[j]
        BY <1>1, <2>1, <2>12 DEF Unraced, Loaded, i
      <3> QED BY <1>2, <2>2, <2>6, <2>8, <2>9, <3>1 DEF Found, Loaded
    <2> QED BY <1>2, <2>10, <2>11, <2>12 DEF Unraced
  <1>7. CASE RegisterPlugins(p)
    <2>1. /\ DOMAIN result' = Procs /\ UNCHANGED <<todo, loaded>> /\ pc'[p] = "done"
          /\ view' \in [Procs -> SUBSET Ids]
      BY <1>0, <1>7 DEF RegisterPlugins, EligiblePlugins
    <2>2. StoreTypes'
      BY <1>0, <1>3, <2>1
    <2> QED BY <2>1, <2>2 DEF Own, Unraced
  <1> QED BY <1>4, <1>5, <1>6, <1>7

(* Who begins knows nothing yet, and races with whom it finds at work.     *)
LEMMA BeginKeeps ==
    ASSUME IInv, RInv, NEW p \in Procs, NEW o \in Asks[p], Begin(p, o)
    PROVE  RInv'
  <1> USE DEF files, reading, Goto, OfInstall, InstallSteps, OfRemove, OfMarker, OfSession, Early, Prepared,
              BackedUp
  <1>0. /\ pc \in [Procs -> Labels] /\ op \in [Procs -> {NoOp} \cup Ops]
        /\ StoreTypes /\ RaceInv /\ Own(p) /\ Unraced(p)
    BY DEF RInv, IInv, FilesOK
  <1>1. /\ pc[p] = "idle" /\ op' = [op EXCEPT ![p] = o] /\ pc' = [pc EXCEPT ![p] = FirstStep(o)]
        /\ UNCHANGED <<dest, staging, aside, outcome, loaded, todo, view, result, effect>>
        /\ raced \subseteq raced'
        /\ Mutates(o) => Running \subseteq raced'
        /\ \A q \in Running : Mutates(op[q]) => p \in raced'
    BY DEF Begin
  <1>2. o \in Ops /\ (o.kind = "install" => o.pkg \in Packages)
        /\ (o.kind \notin {"install", "session"} => o.id \in Ids)
        /\ o.kind \in {"install", "remove", "enable", "disable", "session"}
    <2>1. o \in Ops
      BY StoreAssumption
    <2>2. o.kind \in {"install", "remove", "enable", "disable", "session"}
      BY <2>1 DEF Ops
    <2> QED BY <2>1, <2>2, OpArguments
  <1>3. pc'[p] = FirstStep(o) /\ op'[p] = o
    BY <1>0, <1>1
  <1>4. /\ FirstStep(o) = "create" => o.kind = "install"
        /\ FirstStep(o) = "find" => o.kind = "remove"
        /\ FirstStep(o) = "list" => o.kind = "session"
        /\ FirstStep(o) = "check" => o.kind \in {"enable", "disable"}
        /\ FirstStep(o) \in {"create", "find", "list", "check"}
    BY <1>2 DEF FirstStep
  <1>5. Own(p)'
    BY <1>0, <1>1, <1>2, <1>3, <1>4 DEF Own
  <1>6. Unraced(p)'
    <2>1. ASSUME p \notin raced PROVE \A i \in Ids : loaded[p][i] = None
      BY <1>0, <1>1, <2>1 DEF Unraced, Loaded
    <2> QED BY <1>1, <1>3, <1>4, <2>1 DEF Unraced, Found, Loaded
  <1>7. Frame(p)
    BY <1>0, <1>1 DEF Frame
  <1>8. \A q \in Procs : Own(q)' /\ Unraced(q)'
    BY <1>5, <1>6, <1>7, OthersKeep
  <1>9. RaceInv'
    <2> SUFFICES ASSUME NEW q \in Procs, NEW r \in Procs, q \in Running', r \in Running', q # r, Mutates(op'[r])
                 PROVE  q \in raced'
      BY DEF RaceInv, Running
    <2>1. \A x \in Procs : x # p => pc'[x] = pc[x] /\ op'[x] = op[x] /\ (x \in Running' <=> x \in Running)
      BY <1>0, <1>1 DEF Running
    <2>2. CASE q = p
      BY <1>1, <2>1, <2>2
    <2>3. CASE r = p
      BY <1>1, <1>3, <2>1, <2>3
    <2>4. CASE q # p /\ r # p
      BY <1>0, <1>1, <2>1, <2>4 DEF RaceInv
    <2> QED BY <2>2, <2>3, <2>4
  <1> QED BY <1>0, <1>1, <1>8, <1>9 DEF RInv, StoreTypes

(* A working process does not start to run.                                *)
LEMMA StillRunning ==
    ASSUME IInv, NEW p \in Procs, Works(p)
    PROVE  p \in Running /\ Running' \subseteq Running
  <1> USE DEF Goto, Outcome, Asked, Report
  <1>0. pc \in [Procs -> Labels]
    BY DEF IInv, FilesOK
  <1>1. p \in Running /\ \A q \in Procs : q # p => pc'[q] = pc[q]
    <2>1. CASE CreateStaging(p) \/ Unpack(p) \/ CheckExists(p) \/ Choose(p) \/ Backup(p) \/ Swap(p)
               \/ Rollback(p) \/ Place(p) \/ Discard(p) \/ Load(p) \/ Cleanup(p)
      BY <1>0, <2>1 DEF Running, CreateStaging, Unpack, CheckExists, Choose, Backup, Swap, Rollback, Place,
            Discard, Load, Cleanup
    <2>2. CASE FindInstalled(p) \/ Remove(p) \/ DeleteRemoved(p) \/ CheckInstalled(p) \/ Mark(p)
               \/ ListEntries(p) \/ LoadManifest(p) \/ LoadMarker(p) \/ RegisterPlugins(p) \/ Dies(p)
      BY <1>0, <2>2 DEF Running, FindInstalled, Remove, DeleteRemoved, CheckInstalled, Mark, ListEntries,
            LoadManifest, LoadMarker, RegisterPlugins, Dies
    <2> QED BY <2>1, <2>2 DEF Works
  <1> QED BY <1>1 DEF Running

LEMMA InitRInv == Init => RInv
  <1> SUFFICES ASSUME Init PROVE RInv
    OBVIOUS
  <1>1. None \in Cells
    BY CellUpdates
  <1>2. dest \in [Ids -> Cells]
    BY StoreAssumption DEF Init, Cells
  <1>3. StoreTypes
    BY <1>1, <1>2 DEF Init, StoreTypes
  <1>4. RaceInv
    BY DEF Init, RaceInv, Running
  <1>5. \A p \in Procs : Own(p) /\ Unraced(p)
    BY DEF Init, Own, Unraced, Found, Loaded, OfInstall, InstallSteps, OfRemove, OfMarker, OfSession, Early,
           Prepared, BackedUp
  <1> QED BY <1>3, <1>4, <1>5 DEF RInv

LEMMA NextRInv == ASSUME IInv, RInv, [Next]_vars PROVE RInv'
  <1>1. CASE UNCHANGED vars
    <2>1. UNCHANGED <<dest, staging, aside, pc, op, outcome, loaded, todo, view, result, raced, effect>>
      BY <1>1 DEF vars, files, reading, aux
    <2>2. \A q \in Procs : Own(q)' /\ Unraced(q)'
      BY <2>1 DEF RInv, Own, Unraced, Found, Loaded, Entry
    <2>3. RaceInv'
      BY <2>1 DEF RInv, RaceInv, Running
    <2> QED BY <2>1, <2>2, <2>3 DEF RInv, StoreTypes
  <1>2. ASSUME NEW p \in Procs, Works(p) PROVE RInv'
    <2>1. Frame(p) /\ UNCHANGED <<op, raced>>
      BY <1>2, FrameStep
    <2>2. StoreTypes' /\ Own(p)' /\ Unraced(p)'
      BY <1>2, InstallKeeps, NamedKeeps, SessionKeeps DEF Works
    <2>3. \A q \in Procs : Own(q)' /\ Unraced(q)'
      BY <2>1, <2>2, OthersKeep
    <2>4. RaceInv'
      BY <1>2, <2>1, StillRunning DEF RInv, RaceInv
    <2> QED BY <2>2, <2>3, <2>4 DEF RInv
  <1>3. ASSUME NEW p \in Procs, NEW o \in Asks[p], Begin(p, o) PROVE RInv'
    BY <1>3, BeginKeeps
  <1> QED BY <1>1, <1>2, <1>3 DEF Next, Works

-----------------------------------------------------------------------------
(* The mapping: what the catalog shows for an id.                          *)
AsEntry(d) == [pkg |-> d.pkg, disabled |-> d.disabled]

EntriesOK == \A i \in Ids : CatalogEntry(i) \in Catalog!Entries

LEMMA AsEntries ==
    \A d \in Cells : /\ AsEntry(d) \in Catalog!Entries
                     /\ AsEntry(d) = Catalog!Absent <=> d = None
                     /\ AsEntry(d).pkg = d.pkg /\ AsEntry(d).disabled = d.disabled
  <1>1. AsEntry(None) = Catalog!Absent
    BY DEF AsEntry, None, Catalog!Absent
  <1>2. \A d \in Dirs : AsEntry(d) \in [pkg : Packages, disabled : BOOLEAN] /\ d.pkg \in Packages
    BY DEF AsEntry, Dirs
  <1>3. \A d \in Dirs : AsEntry(d) # Catalog!Absent
    BY <1>2, StoreAssumption DEF AsEntry, Catalog!Absent
  <1>4. \A d \in Dirs : d # None
    BY <1>2, StoreAssumption DEF None
  <1> QED BY <1>1, <1>2, <1>3, <1>4 DEF Cells, Catalog!Entries, AsEntry

LEMMA EntryFacts ==
    ASSUME IInv, RInv, NEW i \in Ids
    PROVE  /\ CatalogEntry(i) \in Catalog!Entries
           /\ InGap(i) = {} \/ dest[i] # None => CatalogEntry(i) = AsEntry(dest[i])
           /\ dest[i] # None => CatalogEntry(i) # Catalog!Absent
           /\ dest[i] = None /\ InGap(i) = {} => CatalogEntry(i) = Catalog!Absent
  <1>0. dest[i] \in Cells /\ aside \in [Procs -> Cells]
    BY DEF RInv, StoreTypes
  <1>1. CASE InGap(i) = {} \/ dest[i] # None
    <2>1. CatalogEntry(i) = AsEntry(dest[i])
      BY <1>1 DEF CatalogEntry, AsEntry
    <2>2. PICK d \in Cells : d = dest[i]
      BY <1>0
    <2>3. AsEntry(d) \in Catalog!Entries /\ (AsEntry(d) = Catalog!Absent <=> d = None)
      BY AsEntries
    <2>4. CatalogEntry(i) = AsEntry(d)
      BY <1>1, <2>2 DEF CatalogEntry, AsEntry
    <2> QED BY <1>1, <2>1, <2>2, <2>3, <2>4
  <1>2. CASE InGap(i) # {} /\ dest[i] = None
    <2> DEFINE q == CHOOSE r \in InGap(i) : TRUE
    <2>1. q \in InGap(i)
      BY <1>2
    <2>2. q \in Procs
      BY <2>1 DEF InGap
    <2>3. PICK d \in Cells : d = aside[q]
      BY <1>0, <2>2
    <2>4. CatalogEntry(i) = AsEntry(d)
      BY <1>2, <2>3 DEF CatalogEntry, AsEntry
    <2>5. AsEntry(d) \in Catalog!Entries
      BY AsEntries
    <2> QED BY <1>2, <2>4, <2>5
  <1> QED BY <1>1, <1>2

LEMMA EntriesTyped == IInv /\ RInv => EntriesOK
  BY EntryFacts DEF EntriesOK

LEMMA SameEntry ==
    ASSUME NEW j \in Ids, dest'[j] = dest[j], InGap(j)' = InGap(j), \A q \in InGap(j) : aside'[q] = aside[q]
    PROVE  CatalogEntry(j)' = CatalogEntry(j)
  <1>1. CASE InGap(j) = {} \/ dest[j] # None
    BY <1>1 DEF CatalogEntry
  <1>2. CASE InGap(j) # {} /\ dest[j] = None
    <2> DEFINE q == CHOOSE r \in InGap(j) : TRUE
    <2>1. q \in InGap(j)
      BY <1>2
    <2>2. (CHOOSE r \in InGap(j)' : TRUE) = q
      OBVIOUS
    <2>3. CatalogEntry(j) = AsEntry(aside[q])
      BY <1>2 DEF CatalogEntry, AsEntry
    <2>4. CatalogEntry(j)' = AsEntry(aside'[q])
      BY <1>2, <2>2 DEF CatalogEntry, AsEntry
    <2> HIDE DEF q
    <2> QED BY <2>1, <2>3, <2>4
  <1> QED BY <1>1, <1>2

(* A step that changes no package and is at neither rename shows nothing.  *)
LEMMA EntriesKept ==
    ASSUME NEW p \in Procs, Frame(p), dest' = dest, pc[p] \notin BackedUp, pc'[p] \notin BackedUp
    PROVE  \A j \in Ids : CatalogEntry(j)' = CatalogEntry(j)
  <1> SUFFICES ASSUME NEW j \in Ids PROVE CatalogEntry(j)' = CatalogEntry(j)
    OBVIOUS
  <1>1. InGap(j)' = InGap(j)
    BY DEF Frame, InGap, BackedUp
  <1>2. \A q \in InGap(j) : aside'[q] = aside[q]
    BY DEF Frame, InGap, BackedUp
  <1> QED BY <1>1, <1>2, SameEntry

LEMMA OthersKept ==
    ASSUME NEW p \in Procs, Frame(p), op' = op, NEW j \in Ids, j # Target(op[p])
    PROVE  CatalogEntry(j)' = CatalogEntry(j)
  <1>1. dest'[j] = dest[j]
    BY DEF Frame
  <1>2. InGap(j)' = InGap(j)
    BY DEF Frame, InGap
  <1>3. \A q \in InGap(j) : aside'[q] = aside[q]
    BY DEF Frame, InGap
  <1> QED BY <1>1, <1>2, <1>3, SameEntry

(* Nobody else is between two renames beside an operation not raced.       *)
LEMMA AloneInGap ==
    ASSUME RInv, NEW p \in Running, p \notin raced, NEW i
    PROVE  InGap(i) \subseteq {p}
  <1> SUFFICES ASSUME NEW q \in InGap(i), q # p PROVE FALSE
    OBVIOUS
  <1>1. q \in Procs /\ pc[q] \in {"swap", "rollback"}
    BY DEF InGap
  <1>2. q \in Running /\ Mutates(op[q])
    BY <1>1, Targets DEF OfInstall, InstallSteps
  <1> QED BY <1>2 DEF RInv, RaceInv

(* The catalog as a whole, and the steps of PluginCatalog.                 *)
Cat == [i \in Ids |-> CatalogEntry(i)]

LEMMA CatSet ==
    ASSUME NEW t \in Ids, \A j \in Ids : j # t => CatalogEntry(j)' = CatalogEntry(j)
    PROVE  Cat' = [Cat EXCEPT ![t] = CatalogEntry(t)']
  BY DEF Cat

LEMMA RunningAfter ==
    ASSUME NEW p \in Running, Frame(p)
    PROVE  /\ pc'[p] \notin {"idle", "done", "dead"} => Running' = Running
           /\ pc'[p] \in {"done", "dead"} => Running' = Running \ {p}
  BY DEF Frame, Running

LEMMA CatKept ==
    ASSUME NEW p \in Procs, Frame(p), dest' = dest, pc[p] \notin BackedUp, pc'[p] \notin BackedUp
    PROVE  Cat' = Cat
  BY EntriesKept DEF Cat

LEMMA Stutters ==
    ASSUME Cat' = Cat, Running' = Running, UNCHANGED <<op, raced, effect, result, view>>
    PROVE  UNCHANGED Catalog!cvars
  BY DEF Cat, Catalog!cvars

LEMMA ActsRaced ==
    ASSUME IInv', RInv', NEW p \in Running, Frame(p), p \in raced, Mutates(op[p]), Target(op[p]) \in Ids,
           pc'[p] \notin {"idle", "done", "dead"},
           NEW b \in BOOLEAN, effect' = [effect EXCEPT ![p] = b],
           UNCHANGED <<op, raced, result, view>>
    PROVE  Catalog!ActsWhileRaced(p)
  <1> DEFINE t == Target(op[p])
  <1>1. p \in Procs
    BY DEF Running
  <1>2. EntriesOK'
    BY EntriesTyped, PTL
  <1>3. PICK e : e = CatalogEntry(t)'
    OBVIOUS
  <1>4. e \in Catalog!Entries
    BY <1>2, <1>3 DEF EntriesOK
  <1>5. \A j \in Ids : j # t => CatalogEntry(j)' = CatalogEntry(j)
    BY <1>1, OthersKept
  <1> HIDE DEF t
  <1>6. Cat' = [Cat EXCEPT ![t] = e]
    BY <1>3, <1>5, CatSet DEF t
  <1>7. Running' = Running
    BY RunningAfter
  <1> QED
    BY <1>4, <1>6, <1>7 DEF Catalog!ActsWhileRaced, Catalog!Mutates, Catalog!Target, Mutates, Target, Cat, t

(* The rename of the staging directory is where an install takes effect.   *)
LEMMA InstallTakesEffect ==
    ASSUME IInv, RInv, NEW p \in Procs, Frame(p), PutInPlace(p), p \notin raced,
           pc[p] \in {"swap", "place"}, pc'[p] \in {"discard", "load"},
           UNCHANGED <<op, raced, result, view>>
    PROVE  Catalog!TakesEffect(p)
  <1>1. /\ p \in Running /\ Mutates(op[p]) /\ Target(op[p]) \in Ids /\ op[p].kind = "install" /\ ~effect[p]
    BY Targets DEF RInv, Own, OfInstall, InstallSteps, Early
  <1>t. PICK t \in Ids : t = Target(op[p])
    BY <1>1
  <1>2. op[p].replace \/ CatalogEntry(t) = Catalog!Absent
    <2>1. CASE pc[p] = "swap"
      BY <2>1 DEF RInv, Unraced, Found, BackedUp
    <2>2. CASE pc[p] = "place"
      <3>1. InGap(t) \subseteq {p} /\ p \notin InGap(t)
        BY <1>1, <2>2, AloneInGap DEF InGap
      <3>2. dest[t] = None
        BY <1>t DEF PutInPlace
      <3> QED BY <3>1, <3>2, EntryFacts
    <2> QED BY <2>1, <2>2
  <1>b. PICK b : b = staging[p].disabled
    OBVIOUS
  <1>s. b = (op[p].pkg \in BornDisabled)
    BY <1>b DEF RInv, Own, Prepared
  <1>3. /\ staging[p] \in Directories /\ staging[p].pkg = op[p].pkg /\ staging[p].disabled = b
        /\ staging[p].whole /\ op[p].pkg \in Packages
    BY <1>b DEF IInv, FilesOK, StagedIsComplete, Prepared, InstallSteps, RInv, Own
  <1>4. staging[p] # None
    BY <1>3 DEF None
  <1>5. dest'[t] = staging[p]
    BY <1>t DEF PutInPlace, RInv, StoreTypes
  <1>6. CatalogEntry(t)' = [pkg |-> op[p].pkg, disabled |-> b]
    BY <1>3, <1>4, <1>5 DEF CatalogEntry
  <1>7. \A j \in Ids : j # t => CatalogEntry(j)' = CatalogEntry(j)
    BY <1>t, OthersKept
  <1>8. effect' = [effect EXCEPT ![p] = TRUE] /\ Running' = Running
    BY <1>1, RunningAfter DEF PutInPlace
  <1>9. Cat' = [Cat EXCEPT ![t] = [pkg |-> op[p].pkg, disabled |-> op[p].pkg \in BornDisabled]]
    BY <1>6, <1>7, <1>s, CatSet
  <1>10. op[p].replace \/ Cat[t] = Catalog!Absent
    BY <1>2 DEF Cat
  <1> QED
    BY <1>1, <1>t, <1>8, <1>9, <1>10
       DEF Catalog!TakesEffect, Catalog!Mutates, Catalog!Target, Mutates, Target, Cat

(* The rename to the hidden name is where a removal takes effect.          *)
LEMMA RemoveTakesEffect ==
    ASSUME IInv, RInv, NEW p \in Procs, Frame(p), MoveAside(p), p \notin raced, pc[p] = "remove",
           pc'[p] = "delete", effect' = [effect EXCEPT ![p] = TRUE], UNCHANGED <<op, raced, result, view>>
    PROVE  Catalog!TakesEffect(p)
  <1>1. p \in Running /\ Mutates(op[p]) /\ Target(op[p]) \in Ids /\ op[p].kind = "remove" /\ ~effect[p]
    BY Targets DEF RInv, Own, OfRemove, Early
  <1>t. PICK t \in Ids : t = Target(op[p])
    BY <1>1
  <1>2. dest[t] # None /\ dest'[t] = None
    BY <1>t DEF MoveAside, RInv, StoreTypes
  <1>3. CatalogEntry(t) # Catalog!Absent
    BY <1>2, EntryFacts
  <1>4. InGap(t)' = {}
    <2>1. InGap(t) \subseteq {p} /\ p \notin InGap(t)
      BY <1>1, AloneInGap DEF InGap
    <2> QED BY <2>1 DEF InGap, Frame
  <1>5. CatalogEntry(t)' = Catalog!Absent
    <2>1. CatalogEntry(t)' = [pkg |-> dest'[t].pkg, disabled |-> dest'[t].disabled]
      BY <1>4 DEF CatalogEntry
    <2> QED BY <1>2, <2>1 DEF None, Catalog!Absent
  <1>6. \A j \in Ids : j # t => CatalogEntry(j)' = CatalogEntry(j)
    BY <1>t, OthersKept
  <1>7. Running' = Running
    BY <1>1, RunningAfter
  <1>8. Cat' = [Cat EXCEPT ![t] = Catalog!Absent]
    BY <1>5, <1>6, CatSet
  <1>9. Cat[t] # Catalog!Absent
    BY <1>3 DEF Cat
  <1> QED
    BY <1>1, <1>t, <1>7, <1>8, <1>9 DEF Catalog!TakesEffect, Catalog!Mutates, Catalog!Target, Mutates, Target, Cat

(* The marker is where enabling and disabling take effect.                 *)
LEMMA MarkTakesEffect ==
    ASSUME IInv, RInv, NEW p \in Procs, Frame(p), Mark(p), p \notin raced, effect' # effect
    PROVE  Catalog!TakesEffect(p)
  <1>1. /\ p \in Running /\ Mutates(op[p]) /\ Target(op[p]) \in Ids /\ Target(op[p]) = op[p].id
        /\ op[p].kind \in {"enable", "disable"} /\ ~effect[p]
    BY Targets DEF Mark, RInv, Own, OfMarker, Early
  <1>t. PICK t \in Ids : t = Target(op[p])
    BY <1>1
  <1>d. PICK d \in Cells : d = dest[t]
    BY DEF RInv, StoreTypes
  <1>b. PICK b \in BOOLEAN : b = (op[p].kind = "disable")
    OBVIOUS
  <1>2. d # None
    BY <1>1, <1>t, <1>d DEF RInv, Unraced, Found, Mark
  <1>3. /\ dest' = [dest EXCEPT ![t] = [d EXCEPT !.disabled = b]]
        /\ effect' = [effect EXCEPT ![p] = TRUE]
    <2>1. (~(op[p].kind = "enable")) = b
      BY <1>1, <1>b
    <2> QED BY <1>1, <1>t, <1>d, <1>2, <2>1 DEF Mark
  <1>4. /\ [d EXCEPT !.disabled = b] # None
        /\ [d EXCEPT !.disabled = b].disabled = b
        /\ [d EXCEPT !.disabled = b].pkg = d.pkg
    <2>1. d.pkg \in Packages /\ None.pkg \notin Packages
      BY <1>2, StoreAssumption DEF Cells, Dirs, None
    <2>2. \A e \in Cells, c \in BOOLEAN : e # None => [e EXCEPT !.disabled = c].disabled = c
      BY CellUpdates
    <2>3. \A e \in Cells, c \in BOOLEAN : e # None => [e EXCEPT !.disabled = c].pkg = e.pkg
      BY CellUpdates
    <2> QED BY <1>2, <2>1, <2>2, <2>3
  <1>5. dest'[t] = [d EXCEPT !.disabled = b]
    BY <1>3 DEF RInv, StoreTypes
  <1>6. CatalogEntry(t) = [pkg |-> d.pkg, disabled |-> d.disabled] /\ CatalogEntry(t) # Catalog!Absent
    <2>1. CatalogEntry(t) # Catalog!Absent
      BY <1>2, <1>d, EntryFacts
    <2> QED BY <1>2, <1>d, <2>1 DEF CatalogEntry
  <1>7. CatalogEntry(t)' = [pkg |-> d.pkg, disabled |-> b]
    BY <1>4, <1>5 DEF CatalogEntry
  <1>8. CatalogEntry(t)' = [CatalogEntry(t) EXCEPT !.disabled = b]
    BY <1>6, <1>7
  <1>9. \A j \in Ids : j # t => CatalogEntry(j)' = CatalogEntry(j)
    BY <1>t, FrameStep, OthersKept DEF Works
  <1>10. Running' = Running /\ UNCHANGED <<op, raced, result, view>>
    <2>1. pc'[p] = "cleanup"
      BY DEF Mark, Goto, IInv, FilesOK
    <2> QED BY <1>1, <2>1, RunningAfter DEF Mark, Asked, reading
  <1>11. Cat[t] = CatalogEntry(t)
    BY DEF Cat
  <1>12. Cat' = [Cat EXCEPT ![t] = [Cat[t] EXCEPT !.disabled = b]]
    BY <1>8, <1>9, <1>11, CatSet
  <1>13. Cat' = [Cat EXCEPT ![t] = [Cat[t] EXCEPT !.disabled = (op[p].kind = "disable")]] /\ Cat[t] # Catalog!Absent
    BY <1>6, <1>11, <1>12, <1>b
  <1> QED
    BY <1>1, <1>t, <1>3, <1>10, <1>13
       DEF Catalog!TakesEffect, Catalog!Mutates, Catalog!Target, Mutates, Target, Cat

(* A report leaves the catalog as it is.                                   *)
LEMMA MakesReport ==
    ASSUME NEW p \in Running, Frame(p), dest' = dest, pc[p] \notin BackedUp, pc'[p] = "done", NEW r,
           result' = [result EXCEPT ![p] = r],
           NEW seen \in SUBSET Ids, view' = [view EXCEPT ![p] = seen],
           p \in raced \/ Catalog!Truthful(p, r), UNCHANGED <<op, raced, effect>>
    PROVE  Catalog!Reports(p, r)
  <1>1. p \in Procs
    BY DEF Running
  <1>2. Cat' = Cat
    BY <1>1, CatKept DEF BackedUp
  <1>3. Running' = Running \ {p}
    BY RunningAfter
  <1> QED
    BY <1>2, <1>3 DEF Catalog!Reports, Cat

(* A set with an element has at most one if it has no other.               *)
LEMMA AtMostOne ==
    ASSUME NEW S, IsFiniteSet(S), NEW x \in S
    PROVE  Cardinality(S) <= 1 <=> \A y \in S : y = x
  <1>1. IsFiniteSet(S \ {x}) /\ Cardinality(S \ {x}) = Cardinality(S) - 1 /\ Cardinality(S) \in Nat
    BY FS_RemoveElement, FS_CardinalityType
  <1>2. Cardinality(S \ {x}) \in Nat /\ (Cardinality(S \ {x}) = 0 <=> S \ {x} = {})
    BY <1>1, FS_CardinalityType, FS_EmptySet
  <1> QED BY <1>1, <1>2

(* Counting the plugins with a name finds those that share none.           *)
LEMMA RegistersTheCatalog ==
    ASSUME IInv, RInv, NEW p \in Procs, NEW C, NEW L \in [Ids -> Cells], L = loaded[p],
           \A i \in Ids : C[i] = AsEntry(L[i])
    PROVE  {i \in EligiblePlugins(p) : NoConflict(p, i)} = Catalog!Registrable(C)
  <1>1. \A i \in Ids : /\ C[i] = Catalog!Absent <=> L[i] = None
                       /\ C[i].pkg = L[i].pkg /\ C[i].disabled = L[i].disabled
    BY AsEntries
  <1>2. PICK E \in SUBSET Ids : E = EligiblePlugins(p)
    BY DEF EligiblePlugins
  <1>3. E = Catalog!Eligible(C)
    BY <1>1, <1>2 DEF EligiblePlugins, Catalog!Eligible
  <1>4. ASSUME NEW i \in E
        PROVE  NoConflict(p, i) <=>
                  /\ ToolsOf[L[i].pkg] \cap Builtins = {}
                  /\ \A j \in E \ {i} : ToolsOf[L[i].pkg] \cap ToolsOf[L[j].pkg] = {}
    <2>1. ASSUME NEW name \in ToolsOf[L[i].pkg]
          PROVE  NameCount(p, name) <= 1 <=> \A j \in E : name \in ToolsOf[L[j].pkg] => j = i
      <3> DEFINE S == {j \in E : name \in ToolsOf[L[j].pkg]}
      <3>1. NameCount(p, name) = Cardinality(S)
        BY <1>2 DEF NameCount
      <3>2. IsFiniteSet(S) /\ i \in S
        BY FS_Subset, StoreAssumption
      <3>3. Cardinality(S) <= 1 <=> \A y \in S : y = i
        <4> HIDE DEF S
        <4> QED BY <3>2, AtMostOne
      <3> QED BY <3>1, <3>3
    <2> QED BY <2>1 DEF NoConflict
  <1> QED BY <1>1, <1>2, <1>3, <1>4 DEF Catalog!Registrable

LEMMA SessionReports ==
    ASSUME IInv, RInv, NEW p \in Procs, Frame(p), RegisterPlugins(p)
    PROVE  Catalog!Reports(p, "listed")
  <1>1. /\ p \in Running /\ op[p].kind = "session" /\ dest' = dest /\ pc[p] = "manifest" /\ pc'[p] = "done"
        /\ UNCHANGED <<op, raced, effect>> /\ result' = [result EXCEPT ![p] = "listed"]
    BY Targets DEF RegisterPlugins, Report, Goto, files, OfSession, RInv, Own, IInv, FilesOK
  <1>2. PICK seen \in SUBSET Ids : /\ seen = {i \in EligiblePlugins(p) : NoConflict(p, i)}
                                   /\ view' = [view EXCEPT ![p] = seen]
    BY DEF RegisterPlugins, EligiblePlugins
  <1>3. view'[p] = seen
    BY <1>2 DEF RInv, StoreTypes
  <1>4. ASSUME p \notin raced PROVE Catalog!Truthful(p, "listed")
    <2>1. \A i \in Ids : loaded[p][i] = dest[i]
      BY <1>1, <1>4 DEF RInv, Unraced, Loaded, RegisterPlugins
    <2>2. \A i \in Ids : InGap(i) = {}
      BY <1>1, <1>4, AloneInGap DEF InGap
    <2>3. PICK L \in [Ids -> Cells] : L = loaded[p]
      BY DEF RInv, StoreTypes
    <2>4. PICK C : C = Cat
      OBVIOUS
    <2>5. \A i \in Ids : C[i] = AsEntry(L[i])
      BY <2>1, <2>2, <2>3, <2>4 DEF Cat, CatalogEntry, AsEntry
    <2>6. seen = Catalog!Registrable(C)
      BY <1>2, <2>3, <2>5, RegistersTheCatalog
    <2>7. view'[p] = Catalog!Registrable(Cat)
      BY <1>3, <2>4, <2>6 DEF Catalog!Registrable, Catalog!Eligible
    <2> QED BY <1>1, <2>7 DEF Catalog!Truthful, Cat
  <1> QED BY <1>1, <1>2, <1>4, MakesReport DEF BackedUp

(* A session that could not list the directory is refused.                 *)
LEMMA ListingFails ==
    ASSUME IInv, RInv, NEW p \in Procs, Frame(p), ListEntries(p), pc'[p] = "done"
    PROVE  Catalog!Reports(p, "failed")
  <1>0. pc \in [Procs -> Labels] /\ view \in [Procs -> SUBSET Ids]
    BY DEF IInv, FilesOK, RInv, StoreTypes
  <1>1. /\ p \in Running /\ dest' = dest /\ pc[p] = "list" /\ UNCHANGED <<op, raced, effect, view>>
        /\ result' = [result EXCEPT ![p] = "failed"]
    BY <1>0, Targets DEF ListEntries, Report, Goto, files, OfSession
  <1>2. PICK seen \in SUBSET Ids : view' = [view EXCEPT ![p] = seen]
    <2>1. view' = [view EXCEPT ![p] = view[p]] /\ view[p] \in SUBSET Ids
      BY <1>0, <1>1
    <2> QED BY <2>1
  <1>3. Catalog!Truthful(p, "failed")
    BY DEF Catalog!Truthful
  <1> QED BY <1>1, <1>2, <1>3, MakesReport DEF BackedUp

LEMMA CommandReports ==
    ASSUME IInv, RInv, NEW p \in Procs, Frame(p), pc'[p] = "done",
           Cleanup(p) \/ FindInstalled(p) \/ Remove(p) \/ DeleteRemoved(p) \/ CheckInstalled(p)
    PROVE  \E r \in Catalog!Results : Catalog!Reports(p, r)
  <1> USE DEF Report, Goto, files, reading
  <1>0. /\ pc \in [Procs -> Labels] /\ view \in [Procs -> SUBSET Ids]
        /\ outcome \in [Procs -> {"none", "done", "exists", "failed"}]
    BY DEF IInv, FilesOK, RInv, StoreTypes
  <1>1. /\ p \in Running /\ Mutates(op[p]) /\ Target(op[p]) \in Ids /\ dest' = dest
        /\ pc[p] \in {"cleanup", "find", "remove", "delete", "check"}
        /\ UNCHANGED <<op, raced, effect, view>>
    <2>1. pc[p] \in {"cleanup", "find", "remove", "delete", "check"} /\ UNCHANGED <<op, raced, view>>
      BY DEF Cleanup, FindInstalled, Remove, DeleteRemoved, CheckInstalled
    <2>2. dest' = dest /\ UNCHANGED effect
      BY <1>0 DEF Cleanup, FindInstalled, Remove, DeleteRemoved, CheckInstalled
    <2> QED BY <2>1, <2>2, Targets DEF OfRemove, OfMarker
  <1>2. view' = [view EXCEPT ![p] = view[p]] /\ view[p] \in SUBSET Ids
    BY <1>0, <1>1
  <1>3. ASSUME NEW r \in Catalog!Results, result' = [result EXCEPT ![p] = r],
               p \in raced \/ Catalog!Truthful(p, r)
        PROVE  \E x \in Catalog!Results : Catalog!Reports(p, x)
    <2>1. PICK seen \in SUBSET Ids : view' = [view EXCEPT ![p] = seen]
      BY <1>2
    <2>2. Catalog!Reports(p, r)
      BY <1>1, <1>3, <2>1, MakesReport DEF BackedUp
    <2> QED BY <1>3, <2>2
  <1>t. PICK t \in Ids : t = Target(op[p])
    BY <1>1
  <1>c. Cat[t] = CatalogEntry(t)
    BY DEF Cat
  <1>4. "failed" \in Catalog!Results /\ Catalog!Truthful(p, "failed")
    BY DEF Catalog!Results, Catalog!Truthful
  <1>5. ASSUME p \notin raced, ~effect[p], dest[t] = None, pc[p] \in {"find", "check"}
        PROVE  Catalog!Truthful(p, "not_found")
    <2>1. InGap(t) = {}
      BY <1>1, <1>5, AloneInGap DEF InGap
    <2>2. Cat[t] = Catalog!Absent
      BY <1>5, <1>c, <2>1, EntryFacts
    <2> QED
      BY <1>1, <1>5, <1>t, <2>2 DEF Catalog!Truthful, Catalog!Mutates, Catalog!Target, Mutates, Target, Cat
  <1>6. CASE Cleanup(p)
    <2>1. pc[p] = "cleanup" /\ result' = [result EXCEPT ![p] = outcome[p]]
      BY <1>6 DEF Cleanup
    <2>2. PICK r \in {"done", "exists", "failed"} : r = outcome[p]
      BY <1>0, <2>1 DEF RInv, Own
    <2>3. ASSUME p \notin raced PROVE Catalog!Truthful(p, r)
      <3>1. Found(p)
        BY <2>1, <2>3 DEF RInv, Unraced
      <3>2. CASE r = "done"
        BY <2>1, <2>2, <3>1, <3>2 DEF Found, Catalog!Truthful
      <3>3. CASE r = "exists"
        <4>1. op[p].kind = "install" /\ ~op[p].replace /\ dest[t] # None
          BY <1>t, <2>1, <2>2, <3>1, <3>3 DEF Found
        <4>2. Cat[t] # Catalog!Absent
          BY <1>c, <4>1, EntryFacts
        <4> QED
          BY <1>t, <3>3, <4>1, <4>2 DEF Catalog!Truthful, Catalog!Target, Target, Cat
      <3> QED BY <1>4, <2>2, <3>2, <3>3
    <2>4. r \in Catalog!Results
      BY DEF Catalog!Results
    <2> QED BY <1>3, <2>1, <2>2, <2>3, <2>4
  <1>7. CASE FindInstalled(p) \/ CheckInstalled(p)
    <2>1. /\ pc[p] \in {"find", "check"} /\ result' = [result EXCEPT ![p] = "not_found"]
          /\ dest[op[p].id] = None
      BY <1>0, <1>7 DEF FindInstalled, CheckInstalled
    <2>2. t = op[p].id /\ ~effect[p]
      BY <1>t, <2>1, Targets DEF OfRemove, OfMarker, RInv, Own, Early
    <2>3. p \in raced \/ Catalog!Truthful(p, "not_found")
      BY <1>5, <2>1, <2>2
    <2>4. "not_found" \in Catalog!Results
      BY DEF Catalog!Results
    <2> QED BY <1>3, <2>1, <2>3, <2>4
  <1>8. CASE Remove(p)
    <2>1. result' = [result EXCEPT ![p] = "failed"]
      BY <1>0, <1>8 DEF Remove
    <2> QED BY <1>3, <1>4, <2>1
  <1>9. CASE DeleteRemoved(p)
    <2>1. \/ result' = [result EXCEPT ![p] = "failed"]
          \/ result' = [result EXCEPT ![p] = "done"]
      BY <1>9 DEF DeleteRemoved
    <2>2. "done" \in Catalog!Results /\ Catalog!Truthful(p, "done")
      BY <1>9 DEF DeleteRemoved, RInv, Own, Catalog!Results, Catalog!Truthful
    <2> QED BY <1>3, <1>4, <2>1, <2>2
  <1> QED BY <1>6, <1>7, <1>8, <1>9

(* A process killed between the renames takes its backup with it.          *)
LEMMA DeathIsMapped ==
    ASSUME IInv, RInv, IInv', RInv', NEW p \in Procs, Frame(p), Dies(p)
    PROVE  Catalog!Dies(p)
  <1>1. p \in Running /\ pc'[p] = "dead" /\ dest' = dest /\ UNCHANGED <<op, raced, effect, result, view>>
    BY DEF Dies, Goto, Asked, files, reading, IInv, FilesOK
  <1>2. Running' = Running \ {p}
    BY <1>1, RunningAfter
  <1>3. CASE pc[p] \notin BackedUp
    <2>1. Cat' = Cat
      BY <1>1, <1>3, CatKept DEF BackedUp
    <2> QED BY <1>1, <1>2, <2>1 DEF Catalog!Dies, Cat
  <1>4. CASE pc[p] \in BackedUp
    <2>1. Target(op[p]) \in Ids /\ op[p].kind = "install" /\ ~effect[p]
      BY <1>4, Targets DEF BackedUp, OfInstall, InstallSteps, RInv, Own, Early
    <2>t. PICK t \in Ids : t = Target(op[p])
      BY <2>1
    <2>e. PICK e : e = CatalogEntry(t)'
      OBVIOUS
    <2>2. Cat' = [Cat EXCEPT ![t] = e]
      <3>1. \A j \in Ids : j # t => CatalogEntry(j)' = CatalogEntry(j)
        BY <1>1, <2>t, OthersKept
      <3> QED BY <2>e, <3>1, CatSet
    <2>3. CASE p \in raced
      <3>1. EntriesOK'
        BY EntriesTyped, PTL
      <3>2. e \in Catalog!Entries
        BY <2>e, <3>1 DEF EntriesOK
      <3> QED
        BY <1>1, <1>2, <2>1, <2>t, <2>2, <2>3, <3>2 DEF Catalog!Dies, Catalog!Target, Target, Cat
    <2>4. CASE p \notin raced
      <3>1. op[p].replace /\ dest[t] = None
        BY <1>4, <2>4, <2>t DEF RInv, Unraced, Found, BackedUp
      <3>2. InGap(t)' = {}
        <4>1. InGap(t) \subseteq {p}
          BY <1>1, <2>4, AloneInGap
        <4> QED BY <1>1, <4>1 DEF InGap, Frame
      <3>3. CatalogEntry(t)' = Catalog!Absent
        <4>1. CatalogEntry(t)' = [pkg |-> dest'[t].pkg, disabled |-> dest'[t].disabled]
          BY <3>2 DEF CatalogEntry
        <4>2. dest'[t] = None
          BY <1>1, <3>1
        <4> QED BY <4>1, <4>2 DEF None, Catalog!Absent
      <3>4. Cat' = [Cat EXCEPT ![t] = Catalog!Absent]
        BY <2>e, <2>2, <3>3
      <3> QED
        BY <1>1, <1>2, <2>1, <2>t, <2>4, <3>1, <3>4 DEF Catalog!Dies, Catalog!Target, Target, Cat
    <2> QED BY <2>3, <2>4
  <1> QED BY <1>3, <1>4

LEMMA BeginIsMapped ==
    ASSUME IInv, RInv, NEW p \in Procs, NEW o \in Asks[p], Begin(p, o)
    PROVE  \E x \in Catalog!Ops : Catalog!Begin(p, x)
  <1>0. pc \in [Procs -> Labels] /\ op \in [Procs -> {NoOp} \cup Ops]
    BY DEF IInv, FilesOK
  <1>1. /\ pc[p] = "idle" /\ pc' = [pc EXCEPT ![p] = FirstStep(o)] /\ op' = [op EXCEPT ![p] = o]
        /\ UNCHANGED <<dest, staging, aside, outcome, loaded, todo, view, result, effect>>
        /\ raced \subseteq raced'
    BY DEF Begin, Goto, files, reading
  <1>2. FirstStep(o) \in {"create", "find", "list", "check"}
    BY DEF FirstStep
  <1>3. Frame(p)
    BY <1>0, <1>1 DEF Frame
  <1>4. Cat' = Cat
    BY <1>0, <1>1, <1>2, <1>3, CatKept DEF BackedUp
  <1>5. Running' = Running \cup {p}
    BY <1>0, <1>1, <1>2 DEF Running
  <1>6. op[p] = NoOp
    BY <1>1 DEF RInv, Own
  <1>7. raced' = raced \cup (IF {q \in Running : Mutates(op[q])} # {} THEN {p} ELSE {})
                      \cup (IF Mutates(o) THEN Running ELSE {})
    BY DEF Begin
  <1>8. Catalog!Begin(p, o)
    BY <1>1, <1>4, <1>5, <1>6, <1>7 DEF Catalog!Begin, Catalog!NoOp, NoOp, Catalog!Mutates, Mutates, Cat
  <1>9. o \in Catalog!Ops
    BY StoreAssumption DEF Ops, Catalog!Ops
  <1> QED BY <1>8, <1>9

(* The first rename of a replacement that is not raced shows nothing.      *)
LEMMA BackupIsMapped ==
    ASSUME IInv, RInv, IInv', RInv', NEW p \in Procs, Frame(p), Backup(p)
    PROVE  Catalog!ActsWhileRaced(p) \/ UNCHANGED Catalog!cvars
  <1> USE DEF Goto, Outcome, Asked, reading
  <1>0. /\ pc \in [Procs -> Labels] /\ effect \in [Procs -> BOOLEAN]
        /\ dest \in [Ids -> Cells] /\ aside \in [Procs -> Cells]
    BY DEF IInv, FilesOK, RInv, StoreTypes
  <1>1. /\ pc[p] = "backup" /\ pc'[p] \in {"swap", "cleanup"} /\ UNCHANGED <<op, raced, result, view, effect>>
        /\ p \in Running /\ Mutates(op[p]) /\ Target(op[p]) \in Ids
    BY <1>0, Targets DEF Backup, OfInstall, InstallSteps
  <1>2. CASE p \in raced
    <2>1. PICK b \in BOOLEAN : effect' = [effect EXCEPT ![p] = b]
      BY <1>0, <1>1
    <2> QED BY <1>1, <1>2, <2>1, ActsRaced
  <1>3. CASE p \notin raced
    <2>t. PICK t \in Ids : t = Target(op[p])
      BY <1>1
    <2>1. dest[t] # None
      BY <1>1, <1>3, <2>t DEF RInv, Unraced, Found
    <2>a. Running' = Running
      BY <1>1, RunningAfter
    <2>b. CASE pc'[p] = "cleanup"
      <3>1. dest' = dest
        BY <1>0, <2>b DEF Backup
      <3>2. Cat' = Cat
        BY <1>1, <2>b, <3>1, CatKept DEF BackedUp
      <3> QED BY <1>1, <2>a, <3>2, Stutters
    <2>c. SUFFICES ASSUME pc'[p] = "swap" PROVE UNCHANGED Catalog!cvars
      BY <1>1, <2>b
    <2>2. pc'[p] = "swap" /\ dest'[t] = None /\ aside'[p] = dest[t]
      BY <1>0, <2>t, <2>1, <2>c DEF Backup, MoveAside
    <2>3. InGap(t)' = {p}
      <3>1. InGap(t) \subseteq {p}
        BY <1>1, <1>3, AloneInGap
      <3>2. p \in InGap(t)'
        BY <1>1, <2>t, <2>2 DEF InGap
      <3>3. \A q \in Procs \ {p} : q \in InGap(t)' <=> q \in InGap(t)
        BY DEF InGap, Frame
      <3>4. InGap(t)' \subseteq Procs
        BY DEF InGap
      <3> QED BY <3>1, <3>2, <3>3, <3>4
    <2>4. CatalogEntry(t)' = CatalogEntry(t)
      <3>1. (CHOOSE q \in InGap(t)' : TRUE) = p
        BY <2>3
      <3>2. CatalogEntry(t)' = [pkg |-> aside'[p].pkg, disabled |-> aside'[p].disabled]
        BY <2>2, <2>3, <3>1 DEF CatalogEntry
      <3>3. CatalogEntry(t) = [pkg |-> dest[t].pkg, disabled |-> dest[t].disabled]
        BY <2>1 DEF CatalogEntry
      <3> QED BY <2>2, <3>2, <3>3
    <2>5. \A j \in Ids : CatalogEntry(j)' = CatalogEntry(j)
      BY <1>1, <2>t, <2>4, OthersKept
    <2>6. Cat' = Cat
      BY <2>5 DEF Cat
    <2> QED BY <1>1, <2>6, <2>a, Stutters
  <1> QED BY <1>2, <1>3

(* The rename back shows nothing when it works and loses the package when  *)
(* it does not.                                                            *)
LEMMA RollbackIsMapped ==
    ASSUME IInv, RInv, NEW p \in Procs, Frame(p), Rollback(p), p \notin raced
    PROVE  Catalog!Loses(p) \/ UNCHANGED Catalog!cvars
  <1> USE DEF Goto, Outcome, Asked, reading
  <1>0. /\ pc \in [Procs -> Labels] /\ dest \in [Ids -> Cells] /\ aside \in [Procs -> Cells]
    BY DEF IInv, FilesOK, RInv, StoreTypes
  <1>1. /\ pc[p] = "rollback" /\ pc'[p] = "cleanup" /\ UNCHANGED <<op, raced, result, view, effect>>
        /\ p \in Running /\ Target(op[p]) \in Ids
    BY <1>0, Targets DEF Rollback, OfInstall, InstallSteps
  <1>t. PICK t \in Ids : t = Target(op[p])
    BY <1>1
  <1>2. /\ op[p].kind = "install" /\ op[p].replace /\ ~effect[p] /\ aside[p] # None /\ dest[t] = None
    BY <1>1, <1>t DEF RInv, Own, Unraced, Found, BackedUp, OfInstall, InstallSteps, Early
  <1>3. InGap(t) = {p} /\ InGap(t)' = {}
    <2>1. InGap(t) \subseteq {p} /\ p \in InGap(t)
      BY <1>1, <1>t, AloneInGap DEF InGap
    <2> QED BY <1>1, <2>1 DEF InGap, Frame
  <1>4. CatalogEntry(t)' = [pkg |-> dest'[t].pkg, disabled |-> dest'[t].disabled]
    BY <1>3 DEF CatalogEntry
  <1>5. \A j \in Ids : j # t => CatalogEntry(j)' = CatalogEntry(j)
    BY <1>1, <1>t, OthersKept
  <1>6. Running' = Running
    BY <1>1, RunningAfter
  <1>7. CASE dest' = [dest EXCEPT ![t] = aside[p]]
    <2>1. (CHOOSE q \in InGap(t) : TRUE) = p
      BY <1>3
    <2>2. CatalogEntry(t) = [pkg |-> aside[p].pkg, disabled |-> aside[p].disabled]
      BY <1>2, <1>3, <2>1 DEF CatalogEntry
    <2>3. CatalogEntry(t)' = CatalogEntry(t)
      BY <1>0, <1>4, <1>7, <2>2
    <2>4. Cat' = Cat
      BY <1>5, <2>3 DEF Cat
    <2> QED BY <1>1, <1>6, <2>4, Stutters
  <1>8. CASE dest' = dest
    <2>0. dest'[t] = None
      BY <1>2, <1>8
    <2>1. CatalogEntry(t)' = Catalog!Absent
      BY <1>4, <2>0 DEF None, Catalog!Absent
    <2>2. Cat' = [Cat EXCEPT ![t] = Catalog!Absent]
      BY <1>5, <2>1, CatSet
    <2> QED
      BY <1>1, <1>2, <1>t, <1>6, <2>2 DEF Catalog!Loses, Catalog!Target, Target, Cat
  <1> QED BY <1>7, <1>8, <1>t DEF Rollback

LEMMA RenamesAreMapped ==
    ASSUME IInv, RInv, IInv', RInv', NEW p \in Procs, Frame(p), Swap(p) \/ Place(p) \/ Rollback(p)
    PROVE  \/ Catalog!ActsWhileRaced(p) \/ Catalog!TakesEffect(p) \/ Catalog!Loses(p)
           \/ UNCHANGED Catalog!cvars
  <1> USE DEF Goto, Outcome, Asked, reading
  <1>0. pc \in [Procs -> Labels] /\ effect \in [Procs -> BOOLEAN]
    BY DEF IInv, FilesOK, RInv, StoreTypes
  <1>1. /\ pc[p] \in {"swap", "place", "rollback"} /\ UNCHANGED <<op, raced, result, view>>
        /\ p \in Running /\ Mutates(op[p]) /\ Target(op[p]) \in Ids
    BY Targets DEF Swap, Place, Rollback, OfInstall, InstallSteps
  <1>2. pc'[p] \notin {"idle", "done", "dead"}
    BY <1>0 DEF Swap, Place, Rollback
  <1>3. CASE p \in raced
    <2>1. \E b \in BOOLEAN : effect' = [effect EXCEPT ![p] = b]
      <3>1. effect' = effect \/ effect' = [effect EXCEPT ![p] = TRUE]
        BY DEF Swap, Place, Rollback, PutInPlace
      <3> QED BY <1>0, <3>1
    <2>2. PICK b \in BOOLEAN : effect' = [effect EXCEPT ![p] = b]
      BY <2>1
    <2> QED BY <1>1, <1>2, <1>3, <2>2, ActsRaced
  <1>4. CASE p \notin raced /\ Rollback(p)
    BY <1>4, RollbackIsMapped
  <1>5. CASE p \notin raced /\ (Swap(p) \/ Place(p))
    <2>1. \/ PutInPlace(p) /\ pc'[p] \in {"discard", "load"}
          \/ UNCHANGED <<dest, aside, effect>> /\ pc[p] = "swap" /\ pc'[p] = "rollback"
          \/ UNCHANGED <<dest, effect>> /\ pc[p] = "place" /\ pc'[p] = "cleanup"
      BY <1>0, <1>5 DEF Swap, Place
    <2>2. pc[p] \in {"swap", "place"}
      BY <1>5 DEF Swap, Place
    <2>3. Running' = Running
      BY <1>1, <1>2, RunningAfter
    <2>4. CASE PutInPlace(p) /\ pc'[p] \in {"discard", "load"}
      BY <1>1, <1>5, <2>2, <2>4, InstallTakesEffect
    <2>5. CASE UNCHANGED <<dest, aside, effect>> /\ pc[p] = "swap" /\ pc'[p] = "rollback"
      <3>1. ASSUME NEW j \in Ids PROVE CatalogEntry(j)' = CatalogEntry(j)
        <4>1. InGap(j)' = InGap(j)
          BY <1>1, <2>5 DEF InGap, Frame
        <4> QED BY <2>5, <4>1, SameEntry
      <3>2. Cat' = Cat
        BY <3>1 DEF Cat
      <3> QED BY <1>1, <2>3, <2>5, <3>2, Stutters
    <2>6. CASE UNCHANGED <<dest, effect>> /\ pc[p] = "place" /\ pc'[p] = "cleanup"
      <3>1. Cat' = Cat
        BY <2>6, CatKept DEF BackedUp
      <3> QED BY <1>1, <2>3, <2>6, <3>1, Stutters
    <2> QED BY <2>1, <2>4, <2>5, <2>6
  <1> QED BY <1>3, <1>4, <1>5

LEMMA ChangesAreMapped ==
    ASSUME IInv, RInv, IInv', RInv', NEW p \in Procs, Frame(p), pc'[p] # "done", Remove(p) \/ Mark(p)
    PROVE  Catalog!ActsWhileRaced(p) \/ Catalog!TakesEffect(p) \/ UNCHANGED Catalog!cvars
  <1> USE DEF Goto, Outcome, Asked, Report, reading
  <1>0. pc \in [Procs -> Labels] /\ effect \in [Procs -> BOOLEAN]
    BY DEF IInv, FilesOK, RInv, StoreTypes
  <1>1. /\ pc[p] \in {"remove", "mark"} /\ UNCHANGED <<op, raced, result, view>>
        /\ pc'[p] \notin {"idle", "done", "dead"}
        /\ p \in Running /\ Mutates(op[p]) /\ Target(op[p]) \in Ids
    BY <1>0, Targets DEF Remove, Mark, OfRemove, OfMarker
  <1>2. CASE p \in raced
    <2>1. \E b \in BOOLEAN : effect' = [effect EXCEPT ![p] = b]
      <3>1. effect' = effect \/ effect' = [effect EXCEPT ![p] = TRUE]
        BY DEF Remove, Mark
      <3> QED BY <1>0, <3>1
    <2>2. PICK b \in BOOLEAN : effect' = [effect EXCEPT ![p] = b]
      BY <2>1
    <2> QED BY <1>1, <1>2, <2>2, ActsRaced
  <1>3. CASE p \notin raced /\ Remove(p)
    <2>1. MoveAside(p) /\ pc[p] = "remove" /\ pc'[p] = "delete" /\ effect' = [effect EXCEPT ![p] = TRUE]
      BY <1>0, <1>1, <1>3 DEF Remove
    <2> QED BY <1>1, <1>3, <2>1, RemoveTakesEffect
  <1>4. CASE p \notin raced /\ Mark(p) /\ effect' # effect
    BY <1>4, MarkTakesEffect
  <1>5. CASE p \notin raced /\ Mark(p) /\ effect' = effect
    <2>1. ~effect[p] /\ effect'[p] = effect[p]
      BY <1>5 DEF Mark, RInv, Own, Early
    <2>2. dest' = dest /\ pc[p] = "mark" /\ pc'[p] = "cleanup"
      BY <1>0, <1>5, <2>1 DEF Mark
    <2>3. Cat' = Cat /\ Running' = Running
      BY <1>1, <2>2, CatKept, RunningAfter DEF BackedUp
    <2> QED BY <1>1, <1>5, <2>3, Stutters
  <1> QED BY <1>2, <1>3, <1>4, <1>5

LEMMA QuietSteps ==
    ASSUME IInv, RInv, NEW p \in Procs, Frame(p), pc'[p] # "done",
           \/ CreateStaging(p) \/ Unpack(p) \/ CheckExists(p) \/ Choose(p) \/ Discard(p) \/ Load(p)
           \/ FindInstalled(p) \/ CheckInstalled(p)
           \/ ListEntries(p) \/ LoadManifest(p) \/ LoadMarker(p)
    PROVE  UNCHANGED Catalog!cvars
  <1> USE DEF Goto, Outcome, Asked, Report, files, reading
  <1>0. pc \in [Procs -> Labels]
    BY DEF IInv, FilesOK
  <1>1. dest' = dest /\ UNCHANGED <<op, raced, effect, result, view>>
    BY <1>0 DEF CreateStaging, Unpack, CheckExists, Choose, Discard, Load, FindInstalled, CheckInstalled,
           ListEntries, LoadManifest, LoadMarker
  <1>2. p \in Running /\ pc[p] \notin BackedUp
    BY DEF CreateStaging, Unpack, CheckExists, Choose, Discard, Load, FindInstalled, CheckInstalled,
           ListEntries, LoadManifest, LoadMarker, Running, BackedUp
  <1>3. pc'[p] \notin BackedUp \cup {"idle", "done", "dead"}
    BY <1>0 DEF CreateStaging, Unpack, CheckExists, Choose, Discard, Load, FindInstalled, CheckInstalled,
           ListEntries, LoadManifest, LoadMarker, BackedUp
  <1>4. Cat' = Cat
    BY <1>1, <1>2, <1>3, CatKept
  <1>5. Running' = Running
    BY <1>2, <1>3, RunningAfter
  <1> QED BY <1>1, <1>4, <1>5, Stutters

LEMMA InitIsMapped == Init => Catalog!CInit
  <1> SUFFICES ASSUME Init PROVE Catalog!CInit
    OBVIOUS
  <1>1. IInv /\ RInv
    BY InitIInv, InitRInv
  <1>2. Running = {} /\ \A i \in Ids : InGap(i) = {}
    BY DEF Init, Running, InGap
  <1>3. ASSUME NEW i \in Ids
        PROVE  /\ CatalogEntry(i) \in Catalog!Entries
               /\ CatalogEntry(i) # Catalog!Absent => IdOf[CatalogEntry(i).pkg] = i
    <2>1. CatalogEntry(i) \in Catalog!Entries /\ (dest[i] = None => CatalogEntry(i) = Catalog!Absent)
      BY <1>1, <1>2, EntryFacts
    <2>2. dest[i] # None => IdOf[dest[i].pkg] = i
      BY <1>1 DEF IInv, VisibleIsComplete
    <2>3. CatalogEntry(i).pkg = dest[i].pkg
      BY <1>2 DEF CatalogEntry
    <2> QED BY <2>1, <2>2, <2>3
  <1>4. Cat \in [Ids -> Catalog!Entries] /\ \A i \in Ids : Cat[i] # Catalog!Absent => IdOf[Cat[i].pkg] = i
    BY <1>3 DEF Cat
  <1> QED
    BY <1>2, <1>4 DEF Init, Catalog!CInit, Catalog!NoOp, NoOp, Cat

LEMMA NextIsMapped ==
    ASSUME IInv, RInv, IInv', RInv', [Next]_vars
    PROVE  [Catalog!CNext]_(Catalog!cvars)
  <1>1. CASE UNCHANGED vars
    <2>1. UNCHANGED <<dest, aside, pc, op, raced, effect, result, view>>
      BY <1>1 DEF vars, files, reading, aux
    <2>2. \A j \in Ids : InGap(j)' = InGap(j)
      BY <2>1 DEF InGap
    <2>3. \A j \in Ids : CatalogEntry(j)' = CatalogEntry(j)
      BY <2>1, <2>2, SameEntry
    <2>4. Cat' = Cat /\ Running' = Running
      BY <2>1, <2>3 DEF Cat, Running
    <2> QED BY <2>1, <2>4, Stutters
  <1>2. ASSUME NEW p \in Procs, Works(p) PROVE [Catalog!CNext]_(Catalog!cvars)
    <2>1. Frame(p)
      BY <1>2, FrameStep
    <2>2. \/ Catalog!ActsWhileRaced(p) \/ Catalog!TakesEffect(p) \/ Catalog!Dies(p) \/ Catalog!Loses(p)
          \/ \E r \in Catalog!Results : Catalog!Reports(p, r)
          \/ UNCHANGED Catalog!cvars
      <3>1. CASE Backup(p)
        BY <2>1, <3>1, BackupIsMapped
      <3>2. CASE Swap(p) \/ Place(p) \/ Rollback(p)
        BY <2>1, <3>2, RenamesAreMapped
      <3>3. CASE Dies(p)
        BY <2>1, <3>3, DeathIsMapped
      <3>4. CASE RegisterPlugins(p)
        <4>1. "listed" \in Catalog!Results
          BY DEF Catalog!Results
        <4> QED BY <2>1, <3>4, <4>1, SessionReports
      <3>5. CASE Cleanup(p) \/ DeleteRemoved(p)
        <4>1. pc'[p] = "done"
          BY <3>5 DEF Cleanup, DeleteRemoved, Report, Goto, IInv, FilesOK
        <4> QED BY <2>1, <3>5, <4>1, CommandReports
      <3>6. CASE pc'[p] = "done" /\ (FindInstalled(p) \/ Remove(p) \/ CheckInstalled(p))
        BY <2>1, <3>6, CommandReports
      <3>7. CASE Mark(p)
        <4>1. pc'[p] # "done"
          BY <3>7 DEF Mark, Goto, IInv, FilesOK
        <4> QED BY <2>1, <3>7, <4>1, ChangesAreMapped
      <3>8. CASE pc'[p] # "done" /\ Remove(p)
        BY <2>1, <3>8, ChangesAreMapped
      <3>9. CASE pc'[p] # "done" /\ (FindInstalled(p) \/ CheckInstalled(p))
        BY <2>1, <3>9, QuietSteps
      <3>10. CASE \/ CreateStaging(p) \/ Unpack(p) \/ CheckExists(p) \/ Choose(p) \/ Discard(p) \/ Load(p)
                 \/ LoadManifest(p) \/ LoadMarker(p)
        <4>1. pc'[p] # "done"
          <5>1. pc \in [Procs -> Labels]
            BY DEF IInv, FilesOK
          <5> QED
            BY <3>10, <5>1 DEF CreateStaging, Unpack, CheckExists, Choose, Discard, Load, LoadManifest,
                  LoadMarker, Goto
        <4> QED BY <2>1, <3>10, <4>1, QuietSteps
      <3>11. CASE pc'[p] = "done" /\ ListEntries(p)
        <4>1. "failed" \in Catalog!Results
          BY DEF Catalog!Results
        <4> QED BY <2>1, <3>11, <4>1, ListingFails
      <3>12. CASE pc'[p] # "done" /\ ListEntries(p)
        BY <2>1, <3>12, QuietSteps
      <3> QED
        BY <1>2, <3>1, <3>2, <3>3, <3>4, <3>5, <3>6, <3>7, <3>8, <3>9, <3>10, <3>11, <3>12 DEF Works
    <2> QED BY <2>2 DEF Catalog!CNext
  <1>3. ASSUME NEW p \in Procs, NEW o \in Asks[p], Begin(p, o) PROVE [Catalog!CNext]_(Catalog!cvars)
    BY <1>3, BeginIsMapped DEF Catalog!CNext
  <1> QED BY <1>1, <1>2, <1>3 DEF Next, Works

(* The directory is a catalog: whatever an operation that overlaps no      *)
(* other change does happens at one point and is reported truthfully, and  *)
(* a session that overlaps none registers what one state of the store      *)
(* holds, for any number of processes, ids and packages (package.rs;       *)
(* daemon.rs, register_plugins).                                           *)
THEOREM StoreImplementsCatalog == Spec => AtomicUnlessRaced
  <1>1. Init => IInv /\ RInv
    BY InitIInv, InitRInv
  <1>2. IInv /\ RInv /\ [Next]_vars => (IInv /\ RInv)'
    BY NextIInv, NextRInv
  <1>3. IInv /\ RInv /\ (IInv /\ RInv)' /\ [Next]_vars => [Catalog!CNext]_(Catalog!cvars)
    BY NextIsMapped
  <1> QED
    BY <1>1, <1>2, <1>3, InitIsMapped, PTL DEF Spec, AtomicUnlessRaced, Catalog!CatalogSpec
=============================================================================
