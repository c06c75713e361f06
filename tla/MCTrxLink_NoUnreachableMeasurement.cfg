CONSTANTS
    n1 = n1
    n2 = n2
    n3 = n3
    None = None
    Nodes <- MCNodes3
    Flavor = "trx_circuit"
    Faults = {"abort"}
    Unloadable = {}
    MaxSymbols = 1
    Budget <- MCBudget31
SPECIFICATION Spec
INVARIANT NoUnreachableMeasurement
