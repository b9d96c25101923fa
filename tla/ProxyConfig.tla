----------------------------- MODULE ProxyConfig -----------------------------
(***************************************************************************)
(* The ssh-proxy process (cmd/ssh-proxy/main.go): main runs configure,     *)
(* which checks the flags one after the other and builds the list of       *)
(* password authenticators and the host key, then serves until an         *)
(* interrupt or a server failure.  A flag value is abstracted to what      *)
(* configure tells apart: empty, a parsable URL of scheme http or https,   *)
(* or an unparsable one.  The authenticators themselves and the composite  *)
(* that tries them are outside src/ and are not modelled; configure's part *)
(* is which members it installs, in which order.                           *)
(***************************************************************************)
EXTENDS Naturals, Sequences

Flags ==
    [bbsAddress : {"", "http", "https", "bad"},
     ccAPIURL : {"", "url", "bad"},
     enableCFAuth : BOOLEAN,
     enableDiegoAuth : BOOLEAN,
     hostKey : {"", "valid", "invalid"},
     bbsCertsOK : BOOLEAN]   \* bbsCACert, bbsClientCert, bbsClientKey load

VARIABLES
    flags,       \* the parsed command line
    pc,          \* main: "bbsAddress", "ccAPIURL", "bbsClient", "authens",
                 \* "hostKey", "start", "serving", "exited"
    bbsClient,   \* "none", "plain" or "secure"
    authens,     \* the PasswordAuthenticators installed, in order
    hostKeyAdded,
    exitCode     \* the process's exit status once pc = "exited"

vars == <<flags, pc, bbsClient, authens, hostKeyAdded, exitCode>>

TypeOK ==
    /\ flags \in Flags
    /\ pc \in {"bbsAddress", "ccAPIURL", "bbsClient", "authens", "hostKey",
               "start", "serving", "exited"}
    /\ bbsClient \in {"none", "plain", "secure"}
    /\ authens \in Seq({"diego", "cf"})
    /\ hostKeyAdded \in BOOLEAN
    /\ exitCode \in 0..2

Init ==
    /\ flags \in Flags
    /\ pc = "bbsAddress"
    /\ bbsClient = "none"
    /\ authens = <<>>
    /\ hostKeyAdded = FALSE
    /\ exitCode = 0

\* logger.Fatal logs and then panics; nothing recovers the panic, so the
\* Go runtime ends the process with status 2.
Fatal ==
    /\ pc' = "exited"
    /\ exitCode' = 2
    /\ UNCHANGED <<flags, bbsClient, authens, hostKeyAdded>>

Goto(l) == pc' = l /\ UNCHANGED <<flags, bbsClient, authens, hostKeyAdded, exitCode>>

\* configure: bbsAddress is required and must parse as a URL.
CheckBBSAddress ==
    /\ pc = "bbsAddress"
    /\ IF flags.bbsAddress \in {"", "bad"} THEN Fatal ELSE Goto("ccAPIURL")

\* configure: a non-empty ccAPIURL must parse.
CheckCCAPIURL ==
    /\ pc = "ccAPIURL"
    /\ IF flags.ccAPIURL = "bad" THEN Fatal ELSE Goto("bbsClient")

\* Mutant: the certificates loaded before the scheme is looked at.
InitBBSClientCertsFirst ==
    /\ pc = "bbsClient"
    /\ IF ~flags.bbsCertsOK
       THEN Fatal
       ELSE /\ bbsClient' = IF flags.bbsAddress = "https" THEN "secure" ELSE "plain"
            /\ pc' = "authens"
            /\ UNCHANGED <<flags, authens, hostKeyAdded, exitCode>>

\* initializeBBSClient: plain client for http, mutual-TLS client for https,
\* which fails on certificates that do not load.
InitBBSClient ==
    /\ pc = "bbsClient"
    /\ IF flags.bbsAddress = "https" /\ ~flags.bbsCertsOK
       THEN Fatal
       ELSE /\ bbsClient' = IF flags.bbsAddress = "https" THEN "secure" ELSE "plain"
            /\ pc' = "authens"
            /\ UNCHANGED <<flags, authens, hostKeyAdded, exitCode>>

\* configure: the Diego authenticator when enableDiegoAuth, then the CF
\* authenticator when ccAPIURL is set and enableCFAuth; the composite of
\* them becomes the server config's PasswordCallback.
BuildAuthenticators ==
    /\ pc = "authens"
    /\ authens' = (IF flags.enableDiegoAuth THEN <<"diego">> ELSE <<>>)
                  \o (IF flags.ccAPIURL # "" /\ flags.enableCFAuth
                      THEN <<"cf">> ELSE <<>>)
    /\ pc' = "hostKey"
    /\ UNCHANGED <<flags, bbsClient, hostKeyAdded, exitCode>>

\* Mutant: parsePrivateKey's error only logged, the nil key added.
CheckHostKeyParseErrorLogged ==
    /\ pc = "hostKey"
    /\ IF flags.hostKey = ""
       THEN Fatal
       ELSE /\ hostKeyAdded' = (flags.hostKey = "valid")
            /\ pc' = "start"
            /\ UNCHANGED <<flags, bbsClient, authens, exitCode>>

\* configure: hostKey is required; parsePrivateKey's error is fatal too.
CheckHostKey ==
    /\ pc = "hostKey"
    /\ IF flags.hostKey # "valid"
       THEN Fatal
       ELSE /\ hostKeyAdded' = TRUE
            /\ pc' = "start"
            /\ UNCHANGED <<flags, bbsClient, authens, exitCode>>

\* main: configure returned (its error is always nil here), the proxy and
\* server are built and the ordered group is invoked.
StartServer ==
    /\ pc = "start"
    /\ Goto("serving")

\* main: monitor.Wait returns nil after an interrupt (exit 0) or the
\* server's error (exit 1).
Stop ==
    /\ pc = "serving"
    /\ \E code \in {0, 1} : exitCode' = code
    /\ pc' = "exited"
    /\ UNCHANGED <<flags, bbsClient, authens, hostKeyAdded>>

Exited == pc = "exited" /\ UNCHANGED vars
-----------------------------------------------------------------------------
Next ==
    \/ CheckBBSAddress \/ CheckCCAPIURL \/ InitBBSClient
    \/ BuildAuthenticators \/ CheckHostKey \/ StartServer \/ Stop
    \/ Exited

Spec == Init /\ [][Next]_vars
-----------------------------------------------------------------------------
\* The proxy accepts connections only with a configuration that passed
\* every check of configure: a parsable BBS address with its client built,
\* a parsable CC URL when one is given, and the host key added.
ServesOnlyConfigured ==
    pc = "serving" =>
        /\ flags.bbsAddress \in {"http", "https"}
        /\ bbsClient = IF flags.bbsAddress = "https" THEN "secure" ELSE "plain"
        /\ flags.ccAPIURL # "bad"
        /\ hostKeyAdded

\* The flags configure accepts: a parsable BBS address, with certificates
\* that load when its scheme is https, a CC URL that is empty or parses,
\* and a host key that is given and parses.
ConfigAccepted(f) ==
    /\ f.bbsAddress \in {"http", "https"}
    /\ f.bbsAddress = "https" => f.bbsCertsOK
    /\ f.ccAPIURL # "bad"
    /\ f.hostKey = "valid"

\* Spec 6: a configuration error is fatal before the accept loop starts,
\* and fatal exits are reserved for startup-time configuration errors.
\* Across configure's chain of checks and initializeBBSClient: the process
\* ends through logger.Fatal (its panic gives status 2) exactly when some
\* flag is invalid, so no valid configuration is refused and no invalid one
\* reaches serve and later exits 0 or 1.
FatalExactlyOnConfigError ==
    pc = "exited" => (exitCode = 2 <=> ~ConfigAccepted(flags))
-----------------------------------------------------------------------------
(***************************************************************************)
(* The inductive invariant behind ServesOnlyConfigured and                 *)
(* FatalExactlyOnConfigError (ProxyConfigProofs proves it).                *)
(***************************************************************************)
\* What configure has established at each point of main.
StageFacts ==
    /\ pc \in {"bbsAddress", "ccAPIURL", "bbsClient", "authens"} => authens = <<>>
    /\ pc \in {"ccAPIURL", "bbsClient", "authens", "hostKey", "start", "serving"}
         => flags.bbsAddress \in {"http", "https"}
    /\ pc \in {"bbsClient", "authens", "hostKey", "start", "serving"}
         => flags.ccAPIURL # "bad"
    /\ pc \in {"authens", "hostKey", "start", "serving"}
         => /\ bbsClient = IF flags.bbsAddress = "https" THEN "secure" ELSE "plain"
            /\ flags.bbsAddress = "https" => flags.bbsCertsOK
    /\ pc \in {"start", "serving"} => hostKeyAdded /\ flags.hostKey = "valid"
    /\ pc # "exited" => exitCode = 0

ProxyIInv == TypeOK /\ StageFacts /\ FatalExactlyOnConfigError
==============================================================================
