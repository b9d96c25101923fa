--------------------------- MODULE SessionLifecycle ---------------------------
(***************************************************************************)
(* What a session channel promises its client (spec 4.E and invariants 1   *)
(* and 2 of spec 8), whatever goroutines serve it:                         *)
(*   - a session runs at most one command, whose launch fails or which     *)
(*     starts, and which, once started, ends once in one way;              *)
(*   - the session reports its end with one exit message, sent only after  *)
(*     the launch failed or the command ended, and saying how: exit-status *)
(*     for a normal exit, exit-signal for a signal, exit-status 255 for a  *)
(*     failed launch or an unclassifiable error;                           *)
(*   - the channel is closed exactly once.                                 *)
(* The order of the report and the close is not part of the promise here: *)
(* the code does not keep it (see the exit_before_close run).              *)
(***************************************************************************)
EXTENDS Naturals

CONSTANT Sessions

\* How a started command can end.
Ends == {"exited", "signaled", "waitError"}

\* The exit message for each end.
ReportFor == [exited |-> "status", signaled |-> "signal", waitError |-> "status255"]

VARIABLES
    command,     \* "none", "failed", "running", "exited"
    ended,       \* how the command ended, "none" before
    report,      \* the exit message sent, "none" before
    closeCount   \* times the channel was closed

lifeVars == <<command, ended, report, closeCount>>

LifeInit ==
    /\ command = [s \in Sessions |-> "none"]
    /\ ended = [s \in Sessions |-> "none"]
    /\ report = [s \in Sessions |-> "none"]
    /\ closeCount = [s \in Sessions |-> 0]

\* The session's one command is launched; the launch fails or it starts.
Launch(s) ==
    /\ command[s] = "none"
    /\ \E c \in {"failed", "running"} : command' = [command EXCEPT ![s] = c]
    /\ UNCHANGED <<ended, report, closeCount>>

\* The started command ends.
End(s, e) ==
    /\ command[s] = "running"
    /\ command' = [command EXCEPT ![s] = "exited"]
    /\ ended' = [ended EXCEPT ![s] = e]
    /\ UNCHANGED <<report, closeCount>>

\* The one exit message, once the launch failed or the command ended.
Report(s) ==
    /\ report[s] = "none"
    /\ command[s] \in {"failed", "exited"}
    /\ report' = [report EXCEPT ![s] =
                    IF command[s] = "failed" THEN "status255"
                    ELSE ReportFor[ended[s]]]
    /\ UNCHANGED <<command, ended, closeCount>>

\* The channel is closed, once.
Close(s) ==
    /\ closeCount[s] = 0
    /\ closeCount' = [closeCount EXCEPT ![s] = 1]
    /\ UNCHANGED <<command, ended, report>>

LifeNext ==
    \E s \in Sessions :
        \/ Launch(s)
        \/ \E e \in Ends : End(s, e)
        \/ Report(s)
        \/ Close(s)

LifeSpec == LifeInit /\ [][LifeNext]_lifeVars
==============================================================================
