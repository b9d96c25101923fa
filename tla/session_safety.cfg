CONSTANTS
    s1 = s1
    s2 = s2
    Sessions <- OneSession
    Names = {"LANG", "HOME"}
    DefaultEnv = {}
    Sizes <- MCSizes
    ReqKinds <- AnyRequest
    MaxReq = 3
INIT Init
NEXT Next
INVARIANTS
    TypeOK
    DestroyOnce
    NoOutputAfterClose
    OneExitReport
PROPERTY
    ExitReportFinal
    LifecycleRefines
