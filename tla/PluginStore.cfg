SPECIFICATION Spec
CONSTANTS
    Procs = {"p1", "p2", "p3"}
    Ids = {"a", "b"}
    Packages = {"a1", "a2", "b1", "b2"}
    IdOf <- MCIdOf
    ToolsOf <- MCToolsOf
    Unusable = {"b2"}
    BornDisabled = {"a1"}
    Asks <- MCAsks
    Stored <- MCStored
    Builtins = {"read"}
INVARIANTS
    VisibleIsComplete
PROPERTIES
    AtomicUnlessRaced
CHECK_DEADLOCK FALSE
