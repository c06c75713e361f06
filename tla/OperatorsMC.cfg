CONSTANTS
    MaxLen = 4
    Slots = {s1, s2, s3}
    MaxAllocs = 3
    Octets = {0, 1, 10, 127, 255, 256}
    HostOrder = "little"
    FastBytes = 8
    BaseBytes = {0, 106, 255}
    MaxFileLen = 2
    MaxBasisCalls = 24
    CharSigned = TRUE
    PortValues = {0, 80, 65535, 65536, 70000}
    OddPorts <- MCOddPorts
SYMMETRY SlotSymmetry
SPECIFICATION OpSpec
INVARIANT PackCheckAgree
INVARIANT LegitimateRequestsAnswered
INVARIANT HeapSafe
INVARIANT NodeIdAgrees
