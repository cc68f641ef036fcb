--------------------------- MODULE MCPluginStore ---------------------------
(***************************************************************************)
(* Two versions of plugins a and b: the old a has the name of a builtin    *)
(* tool and comes disabled, the new a has a name that b has, and the new b *)
(* needs a missing command.                                                *)
(***************************************************************************)
EXTENDS PluginStore

MCIdOf == [k \in {"a1", "a2", "b1", "b2"} |-> IF k \in {"b1", "b2"} THEN "b" ELSE "a"]
MCToolsOf == [k \in {"a1", "a2", "b1", "b2"} |->
                CASE k = "a1" -> {"read"} [] k = "a2" -> {"x", "y"} [] OTHER -> {"y"}]

(* Plugin b is installed, and a in its old version, disabled, or not.      *)
MCStored == {[a |-> d, b |-> [pkg |-> "b1", disabled |-> FALSE, whole |-> TRUE]] :
                d \in {None, [pkg |-> "a1", disabled |-> TRUE, whole |-> TRUE]}}

MCAsks == [p1 |-> [kind : {"install"}, pkg : {"a2"}, replace : BOOLEAN],
           p2 |-> [kind : {"install"}, pkg : {"a1", "b2"}, replace : BOOLEAN]
                    \cup [kind : {"disable"}, id : {"a"}] \cup [kind : {"session"}],
           p3 |-> [kind : {"remove", "enable"}, id : {"a"}] \cup [kind : {"session"}]]
=============================================================================
