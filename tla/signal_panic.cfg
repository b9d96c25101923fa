CONSTANTS
    s1 = s1
    s2 = s2
    Sessions <- OneSession
    Names = {"LANG", "HOME"}
    DefaultEnv = {}
    Sizes <- MCSizes
    ReqKinds <- SignalAndShell
    MaxReq = 2
SPECIFICATION Spec
INVARIANTS
    NoPanic
