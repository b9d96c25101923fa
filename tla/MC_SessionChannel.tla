------------------------- MODULE MC_SessionChannel -------------------------
(* Instances of SessionChannel for TLC.                                    *)
EXTENDS SessionChannel

CONSTANTS s1, s2

\* One session, or two sharing the handler (and its defaultEnv map).
OneSession == {s1}
TwoSessions == {s1, s2}

\* A width below 2^16 and one that uint16() truncates to 80.
MCSizes == {80, 65616}
\* Two widths that stay distinct in uint16.
MCWidths == {80, 120}

\* What the client sends in each run.
AnyRequest == AllReqKinds
NoPtyRequests == {"env", "signal", "exec-cmd", "shell", "other"}
PtyShell == {"pty-req", "shell"}
ShellOnly == {"shell"}
EnvAndShell == {"env", "shell"}
SignalAndShell == {"signal", "shell"}
ScpExec == {"exec-scp"}
=============================================================================
