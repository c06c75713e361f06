CONSTANTS
    brazil = brazil
    trabea = trabea
    UnknownName = UnknownName
    NoModule = NoModule
    Modules <- MCModules
    TrxModules <- MCTrxModules
    ModuleActions <- MCModuleActions
    Messages = {"request", "push", "wait", "reply", "bogus"}
    MaxItems = 3
    WaitCount = 2
    AsyncWaitFail = 4
    MaxOps = 4
    MaxRequests = 1
SPECIFICATION Spec
INVARIANT PromptRelease
