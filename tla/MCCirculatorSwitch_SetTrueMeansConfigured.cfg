CONSTANTS
    PortCount = 4
    Faults = {"error"}
    MaxRequests = 3
    MaxLoads = 2
SPECIFICATION Spec
INVARIANT SetTrueMeansConfigured
