CONSTANTS
    n1 = n1
    n2 = n2
    n3 = n3
    None = None
    Nodes <- MCNodes3
    Flavor = "trx_circuit"
    Faults = {"lose", "error", "abort"}
    Unloadable = {n1}
    MaxSymbols = 2
    Budget <- MCBudget3
SPECIFICATION Spec
INVARIANT TypeOK
INVARIANT OneMeasurementOutstanding
