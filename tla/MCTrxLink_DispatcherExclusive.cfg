CONSTANTS
    n1 = n1
    n2 = n2
    n3 = n3
    None = None
    Nodes <- MCNodes
    Flavor = "bobwire_circuit"
    Faults = {}
    Unloadable = {}
    MaxSymbols = 2
    Budget <- MCBudget
SPECIFICATION Spec
INVARIANT DispatcherExclusive
