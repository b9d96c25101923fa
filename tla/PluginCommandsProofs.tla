------------------------- MODULE PluginCommandsProofs -------------------------
(***************************************************************************)
(* Proofs about SSHPlugin.Run: for every number of invocations and every   *)
(* set of remote exit statuses, an ssh invocation surfaces how the remote  *)
(* command ended and closes the secure shell whenever Run returns.  The    *)
(* argument is the inductive invariant PluginIInv: while a session is in   *)
(* flight nothing of its outcome is recorded, and the process exits       *)
(* exactly on an *ssh.ExitError.                                           *)
(***************************************************************************)
EXTENDS PluginCommands, TLAPS

\* Begin starts an invocation: a fresh command, nothing recorded yet.
LEMMA BeginStep ==
  ASSUME TypeOK, NEW c \in Commands, Begin(c)
  PROVE  /\ cmd' = c /\ remote' = "none" /\ remoteStatus' = 0 /\ exitCode' = 0
         /\ runs' \in 0..MaxRuns
  BY PluginAssumption DEF Begin, TypeOK

LEMMA InitIInv == Init => PluginIInv
  BY PluginAssumption DEF Init, PluginIInv, TypeOK, SessionInFlight,
                          ExitedOnExitError, RemoteOutcomeSurfaced,
                          ShellClosedOnReturn

\* The four commands that return from Run at once leave an idle process
\* whose command is not ssh and which records no remote result.
LEMMA ReturnAtOnce ==
  ASSUME PluginIInv, NEW c \in Commands \ {"ssh"}, Begin(c),
         pc' = "idle", shell' = "none", enabled' \in BOOLEAN,
         report' \in {"none", "failed", "invalidCommand"}
  PROVE  PluginIInv'
  <1>1. /\ cmd' = c /\ remote' = "none" /\ remoteStatus' = 0 /\ exitCode' = 0
        /\ runs' \in 0..MaxRuns
    BY BeginStep DEF PluginIInv
  <1>2. TypeOK'
    BY <1>1 DEF TypeOK, Commands
  <1>3. QED
    BY <1>1, <1>2 DEF PluginIInv, SessionInFlight, ExitedOnExitError,
                      RemoteOutcomeSurfaced, ShellClosedOnReturn

LEMMA NextIInv == PluginIInv /\ [Next]_vars => PluginIInv'
  <1> SUFFICES ASSUME PluginIInv, [Next]_vars PROVE PluginIInv'
    OBVIOUS
  <1> USE DEF Commands, Advertised
  <1>1. CASE RunEnableSSH
    <2>1. enabled' \in BOOLEAN /\ report' \in {"none", "failed", "invalidCommand"}
      BY <1>1 DEF RunEnableSSH, EnableSSH, PluginIInv, TypeOK
    <2>2. QED
      BY <1>1, <2>1, ReturnAtOnce DEF RunEnableSSH
  <1>2. CASE RunDisableSSH
    <2>1. enabled' \in BOOLEAN /\ report' \in {"none", "failed", "invalidCommand"}
      BY <1>2 DEF RunDisableSSH, EnableSSH, PluginIInv, TypeOK
    <2>2. QED
      BY <1>2, <2>1, ReturnAtOnce DEF RunDisableSSH
  <1>3. CASE RunSSHEnabled
    BY <1>3, ReturnAtOnce DEF RunSSHEnabled, PluginIInv, TypeOK
  <1>4. CASE RunDefault
    <2>1. PICK c \in Commands \ {"ssh", "enable-ssh", "disable-ssh", "ssh-enabled"} :
                 Begin(c)
      BY <1>4 DEF RunDefault
    <2>2. QED
      BY <1>4, <2>1, ReturnAtOnce DEF RunDefault, PluginIInv, TypeOK
  <1>5. CASE SSHConnect
    <2>1. /\ cmd' = "ssh" /\ remote' = "none" /\ remoteStatus' = 0 /\ exitCode' = 0
          /\ runs' \in 0..MaxRuns
      BY <1>5, BeginStep DEF SSHConnect, PluginIInv
    <2>2. CASE report' = "failed" /\ pc' = "idle" /\ shell' = "none"
      BY <1>5, <2>1, <2>2 DEF SSHConnect, PluginIInv, TypeOK, SessionInFlight,
                              ExitedOnExitError, RemoteOutcomeSurfaced,
                              ShellClosedOnReturn
    <2>3. CASE report' = "none" /\ pc' = "connected" /\ shell' = "open"
      BY <1>5, <2>1, <2>3 DEF SSHConnect, PluginIInv, TypeOK, SessionInFlight,
                              ExitedOnExitError, RemoteOutcomeSurfaced,
                              ShellClosedOnReturn
    <2>4. QED
      BY <1>5, <2>2, <2>3 DEF SSHConnect
  <1>6. CASE SSHForward
    BY <1>6 DEF SSHForward, PluginIInv, TypeOK, SessionInFlight,
                ExitedOnExitError, RemoteOutcomeSurfaced, ShellClosedOnReturn
  <1>7. CASE SSHSession
    <2>1. PICK r \in RemoteResults, s \in Statuses :
            /\ remote' = r
            /\ remoteStatus' = IF r = "exitError" THEN s ELSE 0
            /\ IF r = "exitError"
               THEN /\ pc' = "exited" /\ exitCode' = s
                    /\ UNCHANGED <<shell, report>>
               ELSE /\ pc' = "idle" /\ shell' = "closed"
                    /\ report' = IF r = "clean" THEN "none" ELSE "failed"
                    /\ UNCHANGED exitCode
      BY <1>7 DEF SSHSession
    <2>2. /\ pc = "forwarded" /\ UNCHANGED <<enabled, cmd, runs>>
          /\ cmd = "ssh" /\ shell = "open" /\ report = "none" /\ exitCode = 0
      BY <1>7 DEF SSHSession, PluginIInv, SessionInFlight
    <2>3. CASE r = "exitError"
      BY <2>1, <2>2, <2>3 DEF PluginIInv, TypeOK, SessionInFlight,
                              ExitedOnExitError, RemoteOutcomeSurfaced,
                              ShellClosedOnReturn, RemoteResults
    <2>4. CASE r # "exitError"
      BY <2>1, <2>2, <2>4 DEF PluginIInv, TypeOK, SessionInFlight,
                              ExitedOnExitError, RemoteOutcomeSurfaced,
                              ShellClosedOnReturn, RemoteResults
    <2>5. QED
      BY <2>3, <2>4
  <1>8. CASE Done \/ UNCHANGED vars
    BY <1>8 DEF Done, vars, PluginIInv, TypeOK, SessionInFlight,
                ExitedOnExitError, RemoteOutcomeSurfaced, ShellClosedOnReturn
  <1>9. QED
    BY <1>1, <1>2, <1>3, <1>4, <1>5, <1>6, <1>7, <1>8 DEF Next

\* Every state of every sequence of invocations satisfies the inductive
\* invariant: an in-flight ssh invocation has an open shell and no recorded
\* outcome, and os.Exit happened exactly on a remote *ssh.ExitError.
THEOREM PluginIInvHolds == Spec => []PluginIInv
  BY InitIInv, NextIInv, PTL DEF Spec

\* An ssh invocation tells the user how the remote command ended, in every
\* behaviour and for every set of statuses: an *ssh.ExitError's status
\* becomes the process's exit status through os.Exit, another error of
\* InteractiveSession is printed through Fail, and a clean end is silent.
THEOREM OutcomeSurfaced == Spec => []RemoteOutcomeSurfaced
  <1>1. PluginIInv => RemoteOutcomeSurfaced
    BY DEF PluginIInv
  <1>2. QED
    BY <1>1, PluginIInvHolds, PTL

\* Whenever Run returns from an ssh invocation, the secure shell it
\* connected is not left open: the deferred Close ran, on the
\* LocalPortForward error path as on the session's.
THEOREM ShellClosed == Spec => []ShellClosedOnReturn
  <1>1. PluginIInv => ShellClosedOnReturn
    BY DEF PluginIInv
  <1>2. QED
    BY <1>1, PluginIInvHolds, PTL
==============================================================================
