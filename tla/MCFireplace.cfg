CONSTANTS
    brazil = brazil
    trabea = trabea
    UnknownName = UnknownName
    NoModule = NoModule
    Modules <- MCModules
    TrxModules <- MCTrxModules
    ModuleActions <- MCModuleActions
    Messages = {"request", "push", "wait", "reply", "bogus"}
    MaxItems = 3
    WaitCount = 2
    AsyncWaitFail = 4
    MaxOps = 6
    MaxRequests = 1
SPECIFICATION FairSpec
 
PROPERTY ProducerStops
PROPERTY NotifyCompletes
INVARIANT TypeOK
INVARIANT BarrierComplete
INVARIANT DriverNotUnloadedDuringRequest
INVARIANT ProducerOnlyWithUnit
PROPERTY AsyncPathIsFifo
