CONSTANTS
    s1 = s1
    s2 = s2
    Sessions <- OneSession
    Names = {"LANG", "HOME"}
    DefaultEnv = {}
    Sizes <- MCSizes
    ReqKinds <- NoPtyRequests
    MaxReq = 3
SPECIFICATION Spec
PROPERTIES
    SessionCompletes
