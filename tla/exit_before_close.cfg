CONSTANTS
    s1 = s1
    s2 = s2
    Sessions <- OneSession
    Names = {"LANG", "HOME"}
    DefaultEnv = {}
    Sizes <- MCSizes
    ReqKinds <- ShellOnly
    MaxReq = 1
SPECIFICATION Spec
INVARIANTS
    ExitBeforeClose
