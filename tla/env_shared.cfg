CONSTANTS
    s1 = s1
    s2 = s2
    Sessions <- TwoSessions
    Names = {"LANG", "HOME"}
    DefaultEnv = {}
    Sizes <- MCSizes
    ReqKinds <- EnvAndShell
    MaxReq = 2
SPECIFICATION Spec
INVARIANTS
    EnvIsolation
