------------------------- MODULE ProxyConfigProofs --------------------------
(***************************************************************************)
(* Proofs about ssh-proxy's main, for every combination of flags: it       *)
(* serves only with a configuration that passed every check of configure,  *)
(* and it ends through logger.Fatal exactly when a flag is invalid.  Both  *)
(* rest on ProxyIInv: the facts configure has established at each pc, and *)
(* that the exit status is 0 until main exits.                             *)
(***************************************************************************)
EXTENDS ProxyConfig, TLAPS

LEMMA InitIInv == Init => ProxyIInv
  <1> SUFFICES ASSUME Init PROVE ProxyIInv
    OBVIOUS
  <1>1. authens \in Seq({"diego", "cf"})
    BY DEF Init
  <1>2. TypeOK
    <2>1. exitCode \in 0..2
      BY DEF Init
    <2>2. /\ flags \in Flags /\ hostKeyAdded \in BOOLEAN
          /\ pc \in {"bbsAddress", "ccAPIURL", "bbsClient", "authens", "hostKey",
                     "start", "serving", "exited"}
          /\ bbsClient \in {"none", "plain", "secure"}
      BY DEF Init
    <2>3. QED
      BY <1>1, <2>1, <2>2 DEF TypeOK
  <1>3. StageFacts /\ FatalExactlyOnConfigError
    BY DEF Init, StageFacts, FatalExactlyOnConfigError
  <1>4. QED
    BY <1>2, <1>3 DEF ProxyIInv

\* The list configure builds holds Diego and CF members only.
LEMMA BuiltListType ==
  ASSUME NEW d \in BOOLEAN, NEW c \in BOOLEAN
  PROVE  (IF d THEN <<"diego">> ELSE <<>>) \o (IF c THEN <<"cf">> ELSE <<>>)
           \in Seq({"diego", "cf"})
  <1> DEFINE S == Seq({"diego", "cf"})
  <1>1. <<"diego">> \in S /\ <<"cf">> \in S /\ <<>> \in S
    OBVIOUS
  <1>2. \A s, t \in S : s \o t \in S
    OBVIOUS
  <1>3. (IF d THEN <<"diego">> ELSE <<>>) \in S /\ (IF c THEN <<"cf">> ELSE <<>>) \in S
    BY <1>1
  <1>4. QED
    BY <1>2, <1>3

\* A logger.Fatal on a flag that configure rejects ends main with status 2.
LEMMA FatalStep ==
  ASSUME ProxyIInv, Fatal, ~ConfigAccepted(flags)
  PROVE  ProxyIInv'
  <1>1. TypeOK'
    BY DEF ProxyIInv, Fatal, TypeOK
  <1>2. StageFacts'
    BY DEF Fatal, StageFacts
  <1>3. FatalExactlyOnConfigError'
    BY DEF Fatal, FatalExactlyOnConfigError
  <1>4. QED
    BY <1>1, <1>2, <1>3 DEF ProxyIInv

LEMMA NextIInv == ProxyIInv /\ [Next]_vars => ProxyIInv'
  <1> SUFFICES ASSUME ProxyIInv, [Next]_vars PROVE ProxyIInv'
    OBVIOUS
  <1> USE DEF ProxyIInv
  <1>1. CASE CheckBBSAddress
    <2>1. CASE flags.bbsAddress \in {"", "bad"}
      <3>1. Fatal /\ ~ConfigAccepted(flags)
        BY <1>1, <2>1 DEF CheckBBSAddress, ConfigAccepted
      <3>2. QED
        BY <3>1, FatalStep
    <2>2. CASE flags.bbsAddress \notin {"", "bad"}
      BY <1>1, <2>2 DEF CheckBBSAddress, Goto, TypeOK, StageFacts,
                        FatalExactlyOnConfigError, Flags
    <2>3. QED
      BY <2>1, <2>2
  <1>2. CASE CheckCCAPIURL
    <2>1. CASE flags.ccAPIURL = "bad"
      <3>1. Fatal /\ ~ConfigAccepted(flags)
        BY <1>2, <2>1 DEF CheckCCAPIURL, ConfigAccepted
      <3>2. QED
        BY <3>1, FatalStep
    <2>2. CASE flags.ccAPIURL # "bad"
      BY <1>2, <2>2 DEF CheckCCAPIURL, Goto, TypeOK, StageFacts, FatalExactlyOnConfigError
    <2>3. QED
      BY <2>1, <2>2
  <1>3. CASE InitBBSClient
    <2>1. CASE flags.bbsAddress = "https" /\ ~flags.bbsCertsOK
      <3>1. Fatal /\ ~ConfigAccepted(flags)
        BY <1>3, <2>1 DEF InitBBSClient, ConfigAccepted
      <3>2. QED
        BY <3>1, FatalStep
    <2>2. CASE ~(flags.bbsAddress = "https" /\ ~flags.bbsCertsOK)
      BY <1>3, <2>2 DEF InitBBSClient, TypeOK, StageFacts, FatalExactlyOnConfigError
    <2>3. QED
      BY <2>1, <2>2
  <1>4. CASE BuildAuthenticators
    <2>1. authens' \in Seq({"diego", "cf"})
      <3>1. flags.enableDiegoAuth \in BOOLEAN
        BY DEF TypeOK, Flags
      <3>2. QED
        BY <1>4, <3>1, BuiltListType DEF BuildAuthenticators
    <2>2. QED
      BY <1>4, <2>1 DEF BuildAuthenticators, TypeOK, StageFacts, FatalExactlyOnConfigError
  <1>5. CASE CheckHostKey
    <2>1. CASE flags.hostKey # "valid"
      <3>1. Fatal /\ ~ConfigAccepted(flags)
        BY <1>5, <2>1 DEF CheckHostKey, ConfigAccepted
      <3>2. QED
        BY <3>1, FatalStep
    <2>2. CASE flags.hostKey = "valid"
      BY <1>5, <2>2 DEF CheckHostKey, TypeOK, StageFacts, FatalExactlyOnConfigError
    <2>3. QED
      BY <2>1, <2>2
  <1>6. CASE StartServer
    BY <1>6 DEF StartServer, Goto, TypeOK, StageFacts, FatalExactlyOnConfigError
  <1>7. CASE Stop
    <2>1. ConfigAccepted(flags)
      BY <1>7 DEF Stop, StageFacts, ConfigAccepted
    <2>2. QED
      BY <1>7, <2>1 DEF Stop, TypeOK, StageFacts, FatalExactlyOnConfigError
  <1>8. CASE Exited \/ UNCHANGED vars
    BY <1>8 DEF Exited, vars, TypeOK, StageFacts, FatalExactlyOnConfigError
  <1>9. QED
    BY <1>1, <1>2, <1>3, <1>4, <1>5, <1>6, <1>7, <1>8 DEF Next

\* The proxy's state is always one that main can be in.
THEOREM ProxyIInvHolds == Spec => []ProxyIInv
  BY InitIInv, NextIInv, PTL DEF Spec

\* ssh-proxy accepts SSH connections only after configure has checked every
\* flag: a parsable BBS address with the client its scheme needs, a
\* parsable CC URL when one is set, and the host key added to the config.
THEOREM ServesConfigured == Spec => []ServesOnlyConfigured
  <1>1. ProxyIInv => ServesOnlyConfigured
    BY DEF ProxyIInv, StageFacts, ServesOnlyConfigured
  <1>2. QED
    BY ProxyIInvHolds, <1>1, PTL

\* For every command line, configure and initializeBBSClient end the
\* process through logger.Fatal exactly when a flag is invalid: a valid
\* configuration is never refused (an http BBS address needs no
\* certificates), and an invalid one never reaches serve.
THEOREM ConfigErrorsFatal == Spec => []FatalExactlyOnConfigError
  <1>1. ProxyIInv => FatalExactlyOnConfigError
    BY DEF ProxyIInv
  <1>2. QED
    BY ProxyIInvHolds, <1>1, PTL
==============================================================================
