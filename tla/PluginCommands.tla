---------------------------- MODULE PluginCommands ----------------------------
(***************************************************************************)
(* The cf CLI plugin (SSHPlugin.Run in src/unnamed/part_000): each         *)
(* invocation dispatches on args[0].  enable-ssh, disable-ssh and          *)
(* ssh-enabled call the cmd package against the app's enable_ssh flag on  *)
(* the cloud controller, which persists across invocations; ssh connects, *)
(* forwards local ports, runs the remote session and exits the process    *)
(* with the remote command's status.  The cmd package is not under src/:   *)
(* EnableSSH and SSHEnabled are modelled by their effect on the flag and   *)
(* by their possible failure.                                              *)
(***************************************************************************)
EXTENDS Naturals

CONSTANTS
    MaxRuns,    \* invocations of the plugin in one behaviour
    Statuses    \* non-zero exit statuses a remote command may end with

ASSUME PluginAssumption == MaxRuns \in Nat /\ Statuses \subseteq Nat \ {0}

\* GetMetadata: the commands the plugin advertises to the cf CLI.
Advertised == {"ssh", "enable-ssh", "disable-ssh", "ssh-enabled",
               "allow-space-ssh", "disallow-space-ssh", "space-ssh-allowed"}

\* What the cf CLI may pass as args[0]: an advertised command or another word.
Commands == Advertised \cup {"other"}

\* How InteractiveSession (or Wait) returns: nil, an *ssh.ExitError
\* (carrying the remote status), or another error.
RemoteResults == {"clean", "exitError", "otherError"}

VARIABLES
    enabled,    \* the app's enable_ssh on the cloud controller
    pc,         \* "idle" between invocations, "connected", "forwarded",
                \* "exited" after os.Exit
    cmd,        \* args[0] of the current (or last) invocation
    report,     \* what Fail printed: "none", "failed", "invalidCommand"
    shell,      \* the secure shell: "none", "open", "closed"
    remote,     \* how the remote session returned, "none" before
    remoteStatus, \* the ExitStatus of an *ssh.ExitError, 0 otherwise
    exitCode,   \* the plugin process's status: os.Exit's, 0 if Run returned
    runs        \* invocations so far

vars == <<enabled, pc, cmd, report, shell, remote, remoteStatus, exitCode, runs>>

TypeOK ==
    /\ enabled \in BOOLEAN
    /\ pc \in {"idle", "connected", "forwarded", "exited"}
    /\ cmd \in Commands \cup {"none"}
    /\ report \in {"none", "failed", "invalidCommand"}
    /\ shell \in {"none", "open", "closed"}
    /\ remote \in RemoteResults \cup {"none"}
    /\ remoteStatus \in Statuses \cup {0}
    /\ exitCode \in Statuses \cup {0}
    /\ runs \in 0..MaxRuns

\* plugin.Start: the app exists with either setting.
Init ==
    /\ enabled \in BOOLEAN
    /\ pc = "idle"
    /\ cmd = "none"
    /\ report = "none"
    /\ shell = "none"
    /\ remote = "none"
    /\ remoteStatus = 0
    /\ exitCode = 0
    /\ runs = 0

\* Run is entered with args[0] = c (a new process after an os.Exit).
Begin(c) ==
    /\ pc \in {"idle", "exited"}
    /\ runs < MaxRuns
    /\ cmd' = c
    /\ runs' = runs + 1
    /\ remote' = "none"
    /\ remoteStatus' = 0
    /\ exitCode' = 0

\* cmd.EnableSSH: sets enable_ssh on the app, or fails and Run calls Fail.
EnableSSH ==
    \/ enabled' = TRUE /\ report' = "none"
    \/ UNCHANGED enabled /\ report' = "failed"

RunEnableSSH ==
    /\ Begin("enable-ssh")
    /\ EnableSSH
    /\ pc' = "idle" /\ shell' = "none"

\* The disable-ssh case calls cmd.EnableSSH as well.
RunDisableSSH ==
    /\ Begin("disable-ssh")
    /\ EnableSSH
    /\ pc' = "idle" /\ shell' = "none"

\* cmd.SSHEnabled only reads the flag; its failure is reported.
RunSSHEnabled ==
    /\ Begin("ssh-enabled")
    /\ report' \in {"none", "failed"}
    /\ pc' = "idle" /\ shell' = "none"
    /\ UNCHANGED enabled

\* Any other args[0], advertised or not, reaches the default case.
RunDefault ==
    /\ \E c \in Commands \ {"ssh", "enable-ssh", "disable-ssh", "ssh-enabled"} :
          Begin(c)
    /\ report' = "invalidCommand"
    /\ pc' = "idle" /\ shell' = "none"
    /\ UNCHANGED enabled

\* ssh: the options parse and the secure shell connects, or one of them
\* fails and Run returns after Fail (Close is deferred only after Connect).
SSHConnect ==
    /\ Begin("ssh")
    /\ \/ report' = "failed" /\ pc' = "idle" /\ shell' = "none"
       \/ report' = "none" /\ pc' = "connected" /\ shell' = "open"
    /\ UNCHANGED enabled

\* Mutant: the Close deferred only once the ports are forwarded.
SSHForwardCloseLate ==
    /\ pc = "connected"
    /\ \/ pc' = "idle"
       \/ pc' = "forwarded"
    /\ UNCHANGED <<enabled, cmd, report, shell, remote, remoteStatus, exitCode, runs>>

\* LocalPortForward: its error makes Run return without Fail; the deferred
\* Close runs.
SSHForward ==
    /\ pc = "connected"
    /\ \/ pc' = "idle" /\ shell' = "closed"
       \/ pc' = "forwarded" /\ UNCHANGED shell
    /\ UNCHANGED <<enabled, cmd, report, remote, remoteStatus, exitCode, runs>>

\* Mutant: every error of the session reported through Fail.
SSHSessionNoExitError ==
    /\ pc = "forwarded"
    /\ \E r \in RemoteResults, s \in Statuses :
          /\ remote' = r
          /\ remoteStatus' = IF r = "exitError" THEN s ELSE 0
          /\ pc' = "idle" /\ shell' = "closed"
          /\ report' = IF r = "clean" THEN "none" ELSE "failed"
          /\ UNCHANGED exitCode
    /\ UNCHANGED <<enabled, cmd, runs>>

\* InteractiveSession (or Wait with SkipRemoteExecution) returns: nil
\* returns from Run; an *ssh.ExitError exits the process with the remote
\* status, so the deferred Close never runs; another error is reported.
SSHSession ==
    /\ pc = "forwarded"
    /\ \E r \in RemoteResults, s \in Statuses :
          /\ remote' = r
          /\ remoteStatus' = IF r = "exitError" THEN s ELSE 0
          /\ IF r = "exitError"
             THEN /\ pc' = "exited" /\ exitCode' = s
                  /\ UNCHANGED <<shell, report>>
             ELSE /\ pc' = "idle" /\ shell' = "closed"
                  /\ report' = IF r = "clean" THEN "none" ELSE "failed"
                  /\ UNCHANGED exitCode
    /\ UNCHANGED <<enabled, cmd, runs>>

\* Every invocation has been made.
Done == runs = MaxRuns /\ pc \in {"idle", "exited"} /\ UNCHANGED vars

Next ==
    \/ RunEnableSSH \/ RunDisableSSH \/ RunSSHEnabled \/ RunDefault
    \/ SSHConnect \/ SSHForward \/ SSHSession
    \/ Done

Spec == Init /\ [][Next]_vars
-----------------------------------------------------------------------------
\* The user learns how the remote command ended: a remote exit status
\* becomes the plugin's own exit status, another session error is printed
\* as FAILED, and a clean end reports nothing.
RemoteOutcomeSurfaced ==
    cmd = "ssh" /\ remote # "none" =>
        \/ remote = "exitError" /\ pc = "exited" /\ exitCode = remoteStatus
        \/ remote = "otherError" /\ report = "failed" /\ exitCode = 0
        \/ remote = "clean" /\ report = "none" /\ exitCode = 0

\* When Run returns from an ssh invocation, the secure shell it connected
\* has been closed (the deferred Close), on the port-forward error path too.
ShellClosedOnReturn ==
    pc = "idle" /\ cmd = "ssh" => shell # "open"

-----------------------------------------------------------------------------
(***************************************************************************)
(* The inductive invariant behind RemoteOutcomeSurfaced and               *)
(* ShellClosedOnReturn (PluginCommandsProofs proves it).                  *)
(***************************************************************************)
\* While an ssh invocation is connected or forwarding, the shell is open
\* and nothing of the session's outcome has been recorded yet.
SessionInFlight ==
    pc \in {"connected", "forwarded"} =>
        /\ cmd = "ssh" /\ shell = "open"
        /\ remote = "none" /\ report = "none" /\ exitCode = 0

\* The process exited exactly when the remote session ended with an
\* *ssh.ExitError, and only an ssh invocation records a remote result.
ExitedOnExitError ==
    /\ pc = "exited" <=> remote = "exitError"
    /\ remote # "none" => cmd = "ssh"

PluginIInv ==
    /\ TypeOK
    /\ SessionInFlight
    /\ ExitedOnExitError
    /\ RemoteOutcomeSurfaced
    /\ ShellClosedOnReturn

==============================================================================
