--------------------------- MODULE PluginCatalog ---------------------------
(***************************************************************************)
(* What the plugin store promises its users: a map from plugin ids to      *)
(* packages that installs, removals and markers change atomically and that *)
(* sessions read at once, with results that tell the truth.  The promise   *)
(* is made to operations that do not overlap another one that changes the  *)
(* store; `raced' holds the operations that did.                           *)
(***************************************************************************)
EXTENDS Naturals

CONSTANTS
    Procs,          \* operations, each run once by a process of its own
    Ids,            \* plugin ids
    Packages,       \* packages that can be installed
    IdOf,           \* the id in the manifest of a package
    ToolsOf,        \* the names of its tools
    Unusable,       \* packages that need a missing command or cannot be started
    BornDisabled,   \* packages whose archive has a .disabled marker in it
    Builtins        \* names of the tools every session has

VARIABLES
    catalog,        \* catalog[i] is the package with id i, or Absent
    op,             \* op[p] is what p was asked to do
    running,        \* operations in progress
    raced,          \* operations that overlapped one that changes the store
    effect,         \* whether p has had its effect
    result,         \* what p reported
    view            \* the plugins a session registered

cvars == <<catalog, op, running, raced, effect, result, view>>

Absent == [pkg |-> "none", disabled |-> FALSE]
Entries == {Absent} \cup [pkg : Packages, disabled : BOOLEAN]

NoOp == [kind |-> "none"]
Ops == [kind : {"install"}, pkg : Packages, replace : BOOLEAN]
         \cup [kind : {"remove", "enable", "disable"}, id : Ids]
         \cup [kind : {"session"}]

Mutates(o) == o.kind \notin {"none", "session"}
Target(o) == IF o.kind = "install" THEN IdOf[o.pkg] ELSE o.id

(***************************************************************************)
(* The plugins a session gets from a catalog: enabled, with all their      *)
(* commands, and with no tool name that a builtin or another such plugin   *)
(* has.                                                                    *)
(***************************************************************************)
Eligible(cat) == {i \in Ids : /\ cat[i] # Absent
                              /\ ~cat[i].disabled
                              /\ cat[i].pkg \notin Unusable}

Registrable(cat) ==
    {i \in Eligible(cat) :
        /\ ToolsOf[cat[i].pkg] \cap Builtins = {}
        /\ \A j \in Eligible(cat) \ {i} :
              ToolsOf[cat[i].pkg] \cap ToolsOf[cat[j].pkg] = {}}

CInit ==
    /\ catalog \in [Ids -> Entries]
    /\ \A i \in Ids : catalog[i] # Absent => IdOf[catalog[i].pkg] = i
    /\ op = [p \in Procs |-> NoOp]
    /\ running = {}
    /\ raced = {}
    /\ effect = [p \in Procs |-> FALSE]
    /\ result = [p \in Procs |-> "none"]
    /\ view = [p \in Procs |-> {}]

Begin(p, o) ==
    LET writers == {q \in running : Mutates(op[q])} IN
    /\ op[p] = NoOp
    /\ op' = [op EXCEPT ![p] = o]
    /\ running' = running \cup {p}
    /\ raced' = raced \cup (IF writers # {} THEN {p} ELSE {})
                      \cup (IF Mutates(o) THEN running ELSE {})
    /\ UNCHANGED <<catalog, effect, result, view>>

(* The effect of p, all at once and in a catalog that allows it.           *)
TakesEffect(p) ==
    LET o == op[p]  i == Target(o) IN
    /\ p \in running
    /\ Mutates(o)
    /\ ~effect[p]
    /\ \/ /\ o.kind = "install"
          /\ o.replace \/ catalog[i] = Absent
          /\ catalog' = [catalog EXCEPT ![i] = [pkg |-> o.pkg, disabled |-> o.pkg \in BornDisabled]]
       \/ /\ o.kind = "remove"
          /\ catalog[i] # Absent
          /\ catalog' = [catalog EXCEPT ![i] = Absent]
       \/ /\ o.kind \in {"enable", "disable"}
          /\ catalog[i] # Absent
          /\ catalog' = [catalog EXCEPT ![i].disabled = (o.kind = "disable")]
    /\ effect' = [effect EXCEPT ![p] = TRUE]
    /\ UNCHANGED <<op, running, raced, result, view>>

(* An operation that was not alone may do something else to its own id.    *)
ActsWhileRaced(p) ==
    /\ p \in running \cap raced
    /\ Mutates(op[p])
    /\ \E e \in Entries : catalog' = [catalog EXCEPT ![Target(op[p])] = e]
    /\ \E b \in BOOLEAN : effect' = [effect EXCEPT ![p] = b]
    /\ UNCHANGED <<op, running, raced, result, view>>

(* A report is true of the catalog it is made in.                          *)
Truthful(p, r) ==
    CASE r = "done"      -> effect[p]
      [] r = "exists"    -> op[p].kind = "install" /\ ~op[p].replace /\ catalog[Target(op[p])] # Absent
      [] r = "not_found" -> ~effect[p] /\ Mutates(op[p]) /\ catalog[Target(op[p])] = Absent
      [] r = "listed"    -> op[p].kind = "session" /\ view'[p] = Registrable(catalog)
      [] OTHER           -> TRUE

Reports(p, r) ==
    /\ p \in running
    /\ running' = running \ {p}
    /\ result' = [result EXCEPT ![p] = r]
    /\ \E seen \in SUBSET Ids : view' = [view EXCEPT ![p] = seen]
    /\ p \in raced \/ Truthful(p, r)
    /\ UNCHANGED <<catalog, op, raced, effect>>

(* A replacement may lose the old package before the new one is in place.  *)
Loses(p) ==
    /\ p \in running
    /\ op[p].kind = "install"
    /\ op[p].replace
    /\ ~effect[p]
    /\ catalog' = [catalog EXCEPT ![Target(op[p])] = Absent]
    /\ UNCHANGED <<op, running, raced, effect, result, view>>

(* A process may be killed.  Only a replacement takes the old package with *)
(* it, and only before the new one is in place.                            *)
Dies(p) ==
    /\ p \in running
    /\ running' = running \ {p}
    /\ \/ UNCHANGED catalog
       \/ /\ op[p].kind = "install"
          /\ op[p].replace \/ p \in raced
          /\ ~effect[p]
          /\ \E e \in IF p \in raced THEN Entries ELSE {Absent} :
                catalog' = [catalog EXCEPT ![Target(op[p])] = e]
    /\ UNCHANGED <<op, raced, effect, result, view>>

Results == {"done", "exists", "not_found", "failed", "listed"}

CNext == \E p \in Procs :
            \/ \E o \in Ops : Begin(p, o)
            \/ TakesEffect(p)
            \/ ActsWhileRaced(p) \/ Loses(p)
            \/ \E r \in Results : Reports(p, r)
            \/ Dies(p)

CatalogSpec == CInit /\ [][CNext]_cvars
=============================================================================
