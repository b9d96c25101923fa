CONSTANTS
    s1 = s1
    s2 = s2
    Sessions <- OneSession
    Names = {"LANG", "HOME"}
    DefaultEnv = {}
    Sizes <- MCWidths
    ReqKinds <- PtyShell
    MaxReq = 3
SPECIFICATION Spec
INVARIANTS
    WindowApplied
