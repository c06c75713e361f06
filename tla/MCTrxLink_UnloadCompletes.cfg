CONSTANTS
    n1 = n1
    n2 = n2
    n3 = n3
    None = None
    Nodes <- MCNodes
    Flavor = "trx_circuit"
    Faults = {}
    Unloadable = {n1}
    MaxSymbols = 2
    Budget <- MCBudget
SPECIFICATION FairSpec
PROPERTY UnloadCompletes
