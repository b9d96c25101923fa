-------------------------- MODULE SessionExitProofs --------------------------
(***************************************************************************)
(* Proof that every session sends at most one exit message, and that the   *)
(* message says how the child ended (OneExitReport), for every set of      *)
(* sessions and every request bound.                                       *)
(*                                                                         *)
(* OneExitReport is not inductive: nothing in it stops the request loop    *)
(* and the waiter from both reaching sendExitMessage.  ExitAccounted says  *)
(* who owns the report: a failed launch starts no waiter and is reported   *)
(* by the loop, a started child is reported by its waiter only, and the    *)
(* count of messages sent is 1 exactly when the owner has passed its       *)
(* sendExitMessage call.  It rests on IInv (SessionChannelProofs): a       *)
(* command exists before the loop's failure path or the waiter, and the    *)
(* waiter reports only an exited child with a known outcome.               *)
(***************************************************************************)
EXTENDS SessionChannelProofs

\* The exit facts of one session.
ExitOK(s) == ExitAccountedAt(s) /\ ExitReportedOnce(s)

\* The exit facts of a session hold after any step that leaves that
\* session's command, actors and exit message alone.
LEMMA ExitFrame ==
  ASSUME NEW t, ExitOK(t),
         exitSent'[t] = exitSent[t], exitKind'[t] = exitKind[t],
         child'[t] = child[t], outcome'[t] = outcome[t],
         loopPc'[t] = loopPc[t], waiterPc'[t] = waiterPc[t]
  PROVE  ExitOK(t)'
  BY DEF ExitOK, ExitAccountedAt, ExitReportedOnce, ExitReported

LEMMA InitExit == Init => \A t \in Sessions : ExitOK(t)
  BY DEF Init, ExitOK, ExitAccountedAt, ExitReportedOnce, ExitReported

\* A step that changes none of the exit-related variables.
LEMMA UnchangedExit ==
  ASSUME \A t \in Sessions : ExitOK(t),
         UNCHANGED <<exitSent, exitKind, child, outcome, loopPc, waiterPc>>
  PROVE  \A t \in Sessions : ExitOK(t)'
  BY ExitFrame

\* A step of session s leaves every other session's exit facts alone when
\* it updates the exit-related variables only at s.
LEMMA OtherSessions ==
  ASSUME TypeOK, NEW s \in Sessions, \A t \in Sessions : ExitOK(t),
         \A t \in Sessions \ {s} :
            /\ exitSent'[t] = exitSent[t] /\ exitKind'[t] = exitKind[t]
            /\ child'[t] = child[t] /\ outcome'[t] = outcome[t]
            /\ loopPc'[t] = loopPc[t] /\ waiterPc'[t] = waiterPc[t],
         ExitOK(s)'
  PROVE  \A t \in Sessions : ExitOK(t)'
  BY ExitFrame

\* sendExitMessage on the loop's failure path: only a failed launch puts
\* the loop there, and nothing was reported for it before.
LEMMA LoopSendExitStep ==
  ASSUME IInv, \A t \in Sessions : ExitOK(t), NEW s \in Sessions, LoopSendExit(s)
  PROVE  \A t \in Sessions : ExitOK(t)'
  <1>1. child[s] = "failed"
    BY DEF LoopSendExit, IInv, TypeOK, ChildTypeOK, CommandFirst, ExitOK,
           ExitAccountedAt
  <1>2. exitSent[s] = 0
    BY <1>1 DEF LoopSendExit, ExitOK, ExitAccountedAt, ExitReported
  <1>3. /\ exitSent'[s] = 1 /\ exitKind'[s] = "status255"
        /\ loopPc'[s] = "destroy" /\ waiterPc'[s] = waiterPc[s]
        /\ child'[s] = child[s] /\ outcome'[s] = outcome[s]
    BY <1>2 DEF LoopSendExit, IInv, TypeOK, CtlTypeOK, EndTypeOK, childVars
  <1>4. ExitOK(s)'
    BY <1>1, <1>3 DEF ExitOK, ExitAccountedAt, ExitReportedOnce, ExitReported
  <1>5. QED
    BY <1>4, OtherSessions DEF LoopSendExit, IInv, TypeOK, CtlTypeOK,
                               EndTypeOK, childVars

\* sendExitMessage in the waiter: its child has exited, and the waiter
\* alone reports a started child.
LEMMA WaiterSendExitStep ==
  ASSUME IInv, \A t \in Sessions : ExitOK(t), NEW s \in Sessions,
         WaiterSendExit(s)
  PROVE  \A t \in Sessions : ExitOK(t)'
  <1>1. child[s] = "exited"
    BY DEF WaiterSendExit, IInv, WaiterAfterExit
  <1>2. exitSent[s] = 0
    BY <1>1 DEF WaiterSendExit, ExitOK, ExitAccountedAt, ExitReported
  <1>3. /\ exitSent'[s] = 1 /\ exitKind'[s] = ExitReport[outcome[s]]
        /\ waiterPc'[s] = "destroy" /\ loopPc'[s] = loopPc[s]
        /\ child'[s] = child[s] /\ outcome'[s] = outcome[s]
    BY <1>2 DEF WaiterSendExit, IInv, TypeOK, CtlTypeOK, EndTypeOK, childVars
  <1>4. ExitOK(s)'
    BY <1>1, <1>3 DEF ExitOK, ExitAccountedAt, ExitReportedOnce, ExitReported
  <1>5. QED
    BY <1>4, OtherSessions DEF WaiterSendExit, IInv, TypeOK, CtlTypeOK,
                               EndTypeOK, childVars

\* The loop moves between labels other than sendExit.
LEMMA LoopMoves ==
  ASSUME NEW s, ExitOK(s),
         loopPc[s] # "sendExit", loopPc'[s] # "sendExit",
         exitSent'[s] = exitSent[s], exitKind'[s] = exitKind[s],
         child'[s] = child[s], outcome'[s] = outcome[s],
         waiterPc'[s] = waiterPc[s]
  PROVE  ExitOK(s)'
  BY DEF ExitOK, ExitAccountedAt, ExitReportedOnce, ExitReported

\* The waiter of an exited child moves without passing sendExitMessage.
LEMMA WaiterMoves ==
  ASSUME NEW s, ExitOK(s), child[s] = "exited",
         waiterPc[s] \in {"wait", "sendExit"} <=> waiterPc'[s] \in {"wait", "sendExit"},
         waiterPc'[s] # "none",
         exitSent'[s] = exitSent[s], exitKind'[s] = exitKind[s],
         child'[s] = child[s], outcome'[s] = outcome[s],
         loopPc'[s] = loopPc[s]
  PROVE  ExitOK(s)'
  BY DEF ExitOK, ExitAccountedAt, ExitReportedOnce, ExitReported

LEMMA WaiterWaitStep ==
  ASSUME IInv, \A t \in Sessions : ExitOK(t), NEW s \in Sessions,
         WaiterWait(s)
  PROVE  \A t \in Sessions : ExitOK(t)'
  <1>1. /\ waiterPc'[s] = "sendExit" /\ loopPc'[s] = loopPc[s]
        /\ exitSent'[s] = exitSent[s] /\ exitKind'[s] = exitKind[s]
        /\ child'[s] = child[s] /\ outcome'[s] = outcome[s]
    BY DEF WaiterWait, IInv, TypeOK, CtlTypeOK, childVars, exitVars
  <1>2. ExitOK(s)'
    BY <1>1, WaiterMoves DEF WaiterWait
  <1>3. QED
    BY <1>2, OtherSessions DEF WaiterWait, IInv, TypeOK, CtlTypeOK, childVars,
                               exitVars

LEMMA LoopEndStep ==
  ASSUME IInv, \A t \in Sessions : ExitOK(t), NEW s \in Sessions, LoopEnd(s)
  PROVE  \A t \in Sessions : ExitOK(t)'
  <1>1. /\ loopPc'[s] = "destroy" /\ waiterPc'[s] = waiterPc[s]
        /\ exitSent'[s] = exitSent[s] /\ exitKind'[s] = exitKind[s]
        /\ child'[s] = child[s] /\ outcome'[s] = outcome[s]
    BY DEF LoopEnd, IInv, TypeOK, CtlTypeOK, childVars, exitVars
  <1>2. ExitOK(s)'
    BY <1>1, LoopMoves DEF LoopEnd
  <1>3. QED
    BY <1>2, OtherSessions DEF LoopEnd, IInv, TypeOK, CtlTypeOK, childVars,
                               exitVars

\* destroy, taken by the loop or by the waiter, moves its caller between
\* labels that lie past (or away from) sendExitMessage.
LEMMA DestroyLockStep ==
  ASSUME IInv, \A t \in Sessions : ExitOK(t), NEW s \in Sessions,
         NEW a \in Actors, DestroyLock(s, a)
  PROVE  \A t \in Sessions : ExitOK(t)'
  <1>1. /\ exitSent' = exitSent /\ exitKind' = exitKind
        /\ child' = child /\ outcome' = outcome
    BY DEF DestroyLock, childVars, exitVars
  <1>2. CASE a = "loop"
    <2>1. /\ loopPc[s] = "destroy"
          /\ loopPc'[s] \in {"wgwait", loopRet[s]} /\ waiterPc' = waiterPc
          /\ \A t \in Sessions \ {s} : loopPc'[t] = loopPc[t]
      BY <1>2 DEF DestroyLock, SetPc, Pc, Return, IInv, TypeOK, CtlTypeOK
    <2>2. loopPc'[s] # "sendExit"
      BY <2>1 DEF IInv, TypeOK, CtlTypeOK
    <2>3. ExitOK(s)'
      BY <1>1, <2>1, <2>2, LoopMoves
    <2>4. QED
      BY <1>1, <2>1, <2>3, OtherSessions DEF IInv
  <1>3. CASE a = "waiter"
    <2>1. /\ waiterPc[s] = "destroy"
          /\ waiterPc'[s] \in {"wgwait", "done"} /\ loopPc' = loopPc
          /\ \A t \in Sessions \ {s} : waiterPc'[t] = waiterPc[t]
      BY <1>3 DEF DestroyLock, SetPc, Pc, Return, IInv, TypeOK, CtlTypeOK
    <2>2. child[s] = "exited"
      BY <2>1 DEF IInv, WaiterAfterExit
    <2>3. ExitOK(s)'
      BY <1>1, <2>1, <2>2, WaiterMoves
    <2>4. QED
      BY <1>1, <2>1, <2>3, OtherSessions DEF IInv
  <1>4. QED
    BY <1>2, <1>3 DEF Actors

LEMMA DestroyFinishStep ==
  ASSUME IInv, \A t \in Sessions : ExitOK(t), NEW s \in Sessions,
         NEW a \in Actors, DestroyFinish(s, a)
  PROVE  \A t \in Sessions : ExitOK(t)'
  <1>1. /\ exitSent' = exitSent /\ exitKind' = exitKind
        /\ child' = child /\ outcome' = outcome
    BY DEF DestroyFinish, childVars, exitVars
  <1>2. CASE a = "loop"
    <2>1. /\ loopPc[s] = "wgwait"
          /\ loopPc'[s] = loopRet[s] /\ waiterPc' = waiterPc
          /\ \A t \in Sessions \ {s} : loopPc'[t] = loopPc[t]
      BY <1>2 DEF DestroyFinish, SetPc, Pc, Return, IInv, TypeOK, CtlTypeOK
    <2>2. loopPc'[s] # "sendExit"
      BY <2>1 DEF IInv, TypeOK, CtlTypeOK
    <2>3. ExitOK(s)'
      BY <1>1, <2>1, <2>2, LoopMoves
    <2>4. QED
      BY <1>1, <2>1, <2>3, OtherSessions DEF IInv
  <1>3. CASE a = "waiter"
    <2>1. /\ waiterPc[s] = "wgwait"
          /\ waiterPc'[s] = "done" /\ loopPc' = loopPc
          /\ \A t \in Sessions \ {s} : waiterPc'[t] = waiterPc[t]
      BY <1>3 DEF DestroyFinish, SetPc, Pc, Return, IInv, TypeOK, CtlTypeOK
    <2>2. child[s] = "exited"
      BY <2>1 DEF IInv, WaiterAfterExit
    <2>3. ExitOK(s)'
      BY <1>1, <2>1, <2>2, WaiterMoves
    <2>4. QED
      BY <1>1, <2>1, <2>3, OtherSessions DEF IInv
  <1>4. QED
    BY <1>2, <1>3 DEF Actors

\* The child ends while its waiter still waits: nothing is reported yet.
LEMMA ChildEndsStep ==
  ASSUME IInv, \A t \in Sessions : ExitOK(t), NEW s \in Sessions,
         child[s] = "running", NEW o, ChildEnds(s, o)
  PROVE  \A t \in Sessions : ExitOK(t)'
  <1>1. waiterPc[s] = "wait" /\ exitSent[s] = 0
    BY DEF ExitOK, ExitAccountedAt, ExitReported
  <1>2. loopPc[s] # "sendExit"
    BY DEF ExitOK, ExitAccountedAt
  <1>3. /\ child'[s] = "exited"
        /\ exitSent' = exitSent /\ exitKind' = exitKind
        /\ loopPc' = loopPc /\ waiterPc' = waiterPc
        /\ \A t \in Sessions \ {s} : child'[t] = child[t] /\ outcome'[t] = outcome[t]
    BY DEF ChildEnds, exitVars, IInv, TypeOK, ChildTypeOK
  <1>4. ExitOK(s)'
    BY <1>1, <1>2, <1>3 DEF ExitOK, ExitAccountedAt, ExitReportedOnce,
                           ExitReported
  <1>5. QED
    BY <1>3, <1>4, OtherSessions DEF IInv

\* executeShell: a second command is refused and changes nothing; the
\* first one either fails to launch, and the loop is sent to report it, or
\* starts, and a waiter is started to report it.
LEMMA ExecuteShellStep ==
  ASSUME IInv, \A t \in Sessions : ExitOK(t), NEW s \in Sessions, NEW k,
         ExecuteShell(s, k)
  PROVE  \A t \in Sessions : ExitOK(t)'
  <1>1. exitSent' = exitSent /\ exitKind' = exitKind
    BY DEF ExecuteShell, exitVars
  <1>2. CASE child[s] # "none"
    <2>1. /\ loopPc' = loopPc /\ waiterPc' = waiterPc
          /\ child' = child /\ outcome' = outcome
      BY <1>2 DEF ExecuteShell, childVars
    <2>2. QED
      BY <1>1, <2>1, UnchangedExit
  <1>3. CASE child[s] = "none"
    <2>1. exitSent[s] = 0 /\ waiterPc[s] = "none"
      BY <1>3 DEF IInv, CommandFirst, ExitOK, ExitAccountedAt, ExitReported
    <2>2. outcome' = outcome
      BY <1>3 DEF ExecuteShell
    <2>3. \A t \in Sessions \ {s} :
            /\ child'[t] = child[t]
            /\ loopPc'[t] = loopPc[t] /\ waiterPc'[t] = waiterPc[t]
      BY <1>3 DEF ExecuteShell, IInv, TypeOK, CtlTypeOK, ChildTypeOK
    <2>4. \/ child'[s] = "failed" /\ loopPc'[s] = "sendExit" /\ waiterPc'[s] = "none"
          \/ child'[s] = "running" /\ loopPc'[s] = "serve" /\ waiterPc'[s] = "wait"
      BY <1>3, <2>1 DEF ExecuteShell, IInv, TypeOK, CtlTypeOK, ChildTypeOK
    <2>5. ExitOK(s)'
      BY <1>1, <2>1, <2>4 DEF ExitOK, ExitAccountedAt, ExitReportedOnce,
                              ExitReported
    <2>6. QED
      BY <1>1, <2>2, <2>3, <2>5, OtherSessions DEF IInv
  <1>4. QED
    BY <1>2, <1>3

LEMMA NextExit ==
  ASSUME IInv, \A t \in Sessions : ExitOK(t), [Next]_vars
  PROVE  \A t \in Sessions : ExitOK(t)'
  <1> DEFINE Untouched ==
        UNCHANGED <<exitSent, exitKind, child, outcome, loopPc, waiterPc>>
  <1>1. CASE \E s \in Sessions, n \in Names : HandleEnv(s, n)
    <2>1. Untouched
      BY <1>1 DEF HandleEnv, Receive, childVars, exitVars
    <2>2. QED
      BY <2>1, UnchangedExit
  <1>2. CASE \E s \in Sessions : HandleSignal(s)
    <2>1. Untouched
      BY <1>2 DEF HandleSignal, Receive, exitVars
    <2>2. QED
      BY <2>1, UnchangedExit
  <1>3. CASE \E s \in Sessions, sz \in Sizes : HandlePtyReq(s, sz)
    <2>1. Untouched
      BY <1>3 DEF HandlePtyReq, Receive, childVars, exitVars
    <2>2. QED
      BY <2>1, UnchangedExit
  <1>4. CASE \E s \in Sessions, sz \in Sizes : HandleWindowChange(s, sz)
    <2>1. Untouched
      BY <1>4 DEF HandleWindowChange, Receive, childVars, exitVars
    <2>2. QED
      BY <2>1, UnchangedExit
  <1>5. CASE \E s \in Sessions, k \in {"scp", "cmd"} : HandleExec(s, k)
    BY <1>5, ExecuteShellStep DEF HandleExec
  <1>6. CASE \E s \in Sessions : HandleShell(s)
    BY <1>6, ExecuteShellStep DEF HandleShell
  <1>7. CASE \E s \in Sessions : HandleOther(s)
    <2>1. Untouched
      BY <1>7 DEF HandleOther, Receive, childVars, exitVars
    <2>2. QED
      BY <2>1, UnchangedExit
  <1>8. CASE \E s \in Sessions : LoopEnd(s)
    BY <1>8, LoopEndStep
  <1>9. CASE \E s \in Sessions : LoopSendExit(s)
    BY <1>9, LoopSendExitStep
  <1>10. CASE \E s \in Sessions : WaiterWait(s)
    BY <1>10, WaiterWaitStep
  <1>11. CASE \E s \in Sessions : WaiterSendExit(s)
    BY <1>11, WaiterSendExitStep
  <1>12. CASE \E s \in Sessions, a \in {"loop", "waiter"} : DestroyLock(s, a)
    BY <1>12, DestroyLockStep DEF Actors
  <1>13. CASE \E s \in Sessions, a \in {"loop", "waiter"} : DestroyFinish(s, a)
    BY <1>13, DestroyFinishStep DEF Actors
  <1>14. CASE \E s \in Sessions : FromPtyEOF(s)
    <2>1. Untouched
      BY <1>14 DEF FromPtyEOF, childVars, exitVars
    <2>2. QED
      BY <2>1, UnchangedExit
  <1>15. CASE \E s \in Sessions : FromPtyCloseWrite(s)
    <2>1. Untouched
      BY <1>15 DEF FromPtyCloseWrite, childVars, exitVars
    <2>2. QED
      BY <2>1, UnchangedExit
  <1>16. CASE \E s \in Sessions : InCopierEOF(s)
    <2>1. Untouched
      BY <1>16 DEF InCopierEOF, childVars, exitVars
    <2>2. QED
      BY <2>1, UnchangedExit
  <1>17. CASE \E s \in Sessions : ChildExit(s)
    BY <1>17, ChildEndsStep DEF ChildExit
  <1>18. CASE \E s \in Sessions : ChildHangup(s)
    BY <1>18, ChildEndsStep DEF ChildHangup
  <1>19. CASE \E s \in Sessions : ClientEOF(s) \/ ClientClose(s)
    <2>1. Untouched
      BY <1>19 DEF ClientEOF, ClientClose, childVars, exitVars
    <2>2. QED
      BY <2>1, UnchangedExit
  <1>20. CASE UNCHANGED vars
    <2>1. Untouched
      BY <1>20 DEF vars
    <2>2. QED
      BY <2>1, UnchangedExit
  <1>21. QED
    BY <1>1, <1>2, <1>3, <1>4, <1>5, <1>6, <1>7, <1>8, <1>9, <1>10, <1>11,
       <1>12, <1>13, <1>14, <1>15, <1>16, <1>17, <1>18, <1>19, <1>20
    DEF Next, Terminated

\* The exit facts of every session are those of ExitAccounted and
\* OneExitReport.
LEMMA ExitOKAll ==
  (\A t \in Sessions : ExitOK(t)) <=> ExitAccounted /\ OneExitReport
  BY DEF ExitOK, ExitAccounted, OneExitReport

\* ExitInv holds in every state of every behaviour of Spec.
THEOREM ExitInvHolds == Spec => []ExitInv
  <1>1. Init => ExitInv
    BY InitIInv, InitExit, ExitOKAll DEF ExitInv
  <1>2. ExitInv /\ [Next]_vars => ExitInv'
    <2> SUFFICES ASSUME ExitInv, [Next]_vars PROVE ExitInv'
      OBVIOUS
    <2>1. IInv'
      BY NextIInv DEF ExitInv
    <2>2. (\A t \in Sessions : ExitOK(t))'
      BY NextExit, ExitOKAll DEF ExitInv
    <2>3. QED
      BY <2>1, <2>2 DEF ExitInv, ExitOK, ExitAccounted, OneExitReport
  <1>3. QED
    BY <1>1, <1>2, PTL DEF Spec

\* One exit report per session, for every number of sessions: the request
\* loop (after a failed launch) and the waiter goroutine (after a started
\* child exits) never both call sendExitMessage, neither calls it twice,
\* and the message sent is exit-status 255 for a failed launch or a Wait
\* error, exit-signal for a signalled child, and exit-status otherwise.
THEOREM ExitReportedOnceForAll == Spec => []OneExitReport
  <1>1. ExitInv => OneExitReport
    BY DEF ExitInv
  <1>2. QED
    BY <1>1, ExitInvHolds, PTL

\* A step keeps session s's exit message, command and outcome.
Kept(s) ==
    /\ exitSent'[s] = exitSent[s] /\ exitKind'[s] = exitKind[s]
    /\ child'[s] = child[s] /\ outcome'[s] = outcome[s]

\* Once session s has reported its exit, no step changes the report or
\* what it reported: neither actor is at sendExitMessage any more, a
\* second executeShell is refused, and the child no longer runs.
LEMMA FinalStep ==
  ASSUME IInv, \A t \in Sessions : ExitOK(t), [Next]_vars,
         NEW s \in Sessions, exitSent[s] = 1
  PROVE  Kept(s)
  <1> DEFINE Untouched == UNCHANGED <<exitSent, exitKind, child, outcome>>
  <1>1. /\ child[s] \in {"failed", "exited"}
        /\ loopPc[s] # "sendExit" /\ waiterPc[s] # "sendExit"
    BY DEF ExitOK, ExitAccountedAt, ExitReported
  <1>2. Untouched => Kept(s)
    BY DEF Kept
  <1>3. CASE \/ \E r \in Sessions, n \in Names : HandleEnv(r, n)
             \/ \E r \in Sessions : HandleSignal(r) \/ HandleOther(r)
             \/ \E r \in Sessions, sz \in Sizes :
                   HandlePtyReq(r, sz) \/ HandleWindowChange(r, sz)
    BY <1>2, <1>3 DEF HandleEnv, HandleSignal, HandleOther, HandlePtyReq,
                      HandleWindowChange, Receive, childVars, exitVars
  <1>4. CASE \/ \E r \in Sessions : LoopEnd(r) \/ WaiterWait(r)
             \/ \E r \in Sessions, a \in {"loop", "waiter"} :
                   DestroyLock(r, a) \/ DestroyFinish(r, a)
    BY <1>2, <1>4 DEF LoopEnd, WaiterWait, DestroyLock, DestroyFinish,
                      childVars, exitVars
  <1>5. CASE \E r \in Sessions : \/ FromPtyEOF(r) \/ FromPtyCloseWrite(r)
                                 \/ InCopierEOF(r)
                                 \/ ClientEOF(r) \/ ClientClose(r)
    BY <1>2, <1>5 DEF FromPtyEOF, FromPtyCloseWrite, InCopierEOF, ClientEOF,
                      ClientClose, childVars, exitVars
  <1>6. CASE \E r \in Sessions, k \in {"scp", "cmd", "shell"} : ExecuteShell(r, k)
    <2>1. PICK r \in Sessions, k \in {"scp", "cmd", "shell"} : ExecuteShell(r, k)
      BY <1>6
    <2>2. CASE r = s
      BY <1>1, <1>2, <2>1, <2>2 DEF ExecuteShell, childVars, exitVars
    <2>3. CASE r # s
      <3>1. exitSent' = exitSent /\ exitKind' = exitKind /\ outcome' = outcome
        BY <2>1 DEF ExecuteShell, exitVars, childVars
      <3>2. CASE child[r] # "none"
        BY <2>1, <3>1, <3>2 DEF ExecuteShell, Kept, childVars
      <3>3. CASE child[r] = "none"
        <4>1. \E v \in {"failed", "running"} : child' = [child EXCEPT ![r] = v]
          BY <2>1, <3>3 DEF ExecuteShell
        <4>2. child'[s] = child[s]
          BY <2>3, <4>1 DEF IInv, TypeOK, ChildTypeOK
        <4>3. QED
          BY <3>1, <4>2 DEF Kept
      <3>4. QED
        BY <3>2, <3>3
    <2>4. QED
      BY <2>2, <2>3
  <1>7. CASE \E r \in Sessions : LoopSendExit(r)
    <2>1. PICK r \in Sessions : LoopSendExit(r)
      BY <1>7
    <2>2. r # s
      BY <1>1, <2>1 DEF LoopSendExit
    <2>3. QED
      BY <2>1, <2>2 DEF LoopSendExit, Kept, childVars, IInv, TypeOK, EndTypeOK
  <1>8. CASE \E r \in Sessions : WaiterSendExit(r)
    <2>1. PICK r \in Sessions : WaiterSendExit(r)
      BY <1>8
    <2>2. r # s
      BY <1>1, <2>1 DEF WaiterSendExit
    <2>3. QED
      BY <2>1, <2>2 DEF WaiterSendExit, Kept, childVars, IInv, TypeOK, EndTypeOK
  <1>9. CASE \E r \in Sessions, o \in {"exited", "signaled", "waitError"} :
                child[r] = "running" /\ ChildEnds(r, o)
    <2>1. PICK r \in Sessions, o \in {"exited", "signaled", "waitError"} :
                child[r] = "running" /\ ChildEnds(r, o)
      BY <1>9
    <2>2. r # s
      BY <1>1, <2>1
    <2>3. QED
      BY <2>1, <2>2 DEF ChildEnds, Kept, exitVars, IInv, TypeOK, ChildTypeOK
  <1>10. CASE UNCHANGED vars
    BY <1>2, <1>10 DEF vars
  <1>11. QED
    BY <1>3, <1>4, <1>5, <1>6, <1>7, <1>8, <1>9, <1>10
    DEF Next, Terminated, HandleExec, HandleShell, ChildExit, ChildHangup

\* The exit report is final: once the request loop or the waiter goroutine
\* has sent a session's exit message, no later step sends another or
\* changes the command or the outcome the message reported.
THEOREM ExitReportIsFinal == Spec => ExitReportFinal
  <1>1. ExitInv /\ [Next]_vars =>
          [\A s \in Sessions :
             exitSent[s] = 1 =>
                /\ exitSent'[s] = 1 /\ exitKind'[s] = exitKind[s]
                /\ child'[s] = child[s] /\ outcome'[s] = outcome[s]]_vars
    <2> SUFFICES ASSUME ExitInv, [Next]_vars
                 PROVE  \A s \in Sessions :
                          exitSent[s] = 1 =>
                            /\ exitSent'[s] = 1 /\ exitKind'[s] = exitKind[s]
                            /\ child'[s] = child[s] /\ outcome'[s] = outcome[s]
      OBVIOUS
    <2>1. IInv /\ \A t \in Sessions : ExitOK(t)
      BY ExitOKAll DEF ExitInv
    <2>2. QED
      BY <2>1, FinalStep DEF Kept
  <1>2. QED
    BY <1>1, ExitInvHolds, PTL DEF Spec, ExitReportFinal

-----------------------------------------------------------------------------
(***************************************************************************)
(* Refinement of SessionLifecycle.  Every step of the goroutines is a step *)
(* of the lifecycle or leaves it alone: executeShell's first call is       *)
(* Launch, ChildEnds is End, the loop's or the waiter's sendExitMessage is *)
(* Report (ExitInv says it is the first and says what it must), and the    *)
(* closing half of destroy is Close (the mutex holder finds the session    *)
(* not complete, so the channel was not closed yet).                       *)
(***************************************************************************)
LEMMA LifeInitStep == Init => Life!LifeInit
  BY DEF Init, Life!LifeInit, ReportSent

\* A step that changes neither the command, its end, the exit message nor
\* the closes is a lifecycle stutter.
LEMMA LifeStutter ==
  ASSUME UNCHANGED <<child, outcome, exitSent, exitKind, closes>>
  PROVE  UNCHANGED Life!lifeVars
  BY DEF Life!lifeVars, ReportSent

LEMMA LaunchStep ==
  ASSUME IInv, NEW r \in Sessions, NEW k, ExecuteShell(r, k)
  PROVE  [Life!LifeNext]_Life!lifeVars
  <1>1. UNCHANGED <<outcome, exitSent, exitKind, closes>>
    BY DEF ExecuteShell, exitVars, childVars, closeVars
  <1>2. CASE child[r] # "none"
    BY <1>1, <1>2, LifeStutter DEF ExecuteShell, childVars
  <1>3. CASE child[r] = "none"
    <2>1. PICK c \in {"failed", "running"} : child' = [child EXCEPT ![r] = c]
      BY <1>3 DEF ExecuteShell
    <2>2. ReportSent' = ReportSent
      BY <1>1 DEF ReportSent
    <2>3. Life!Launch(r)
      BY <1>1, <1>3, <2>1, <2>2 DEF Life!Launch
    <2>4. QED
      BY <2>3 DEF Life!LifeNext
  <1>4. QED
    BY <1>2, <1>3

LEMMA ReportStep ==
  ASSUME ExitInv, NEW r \in Sessions, LoopSendExit(r) \/ WaiterSendExit(r)
  PROVE  [Life!LifeNext]_Life!lifeVars
  <1>1. IInv /\ ExitOK(r)
    BY ExitOKAll DEF ExitInv
  <1>2. /\ exitSent[r] = 0
        /\ exitSent'[r] = 1
        /\ \A t \in Sessions \ {r} : exitSent'[t] = exitSent[t]
        /\ UNCHANGED <<child, outcome, closes>>
        /\ \/ child[r] = "failed" /\ exitKind'[r] = "status255"
           \/ child[r] = "exited" /\ exitKind'[r] = ExitReport[outcome[r]]
        /\ \A t \in Sessions \ {r} : exitKind'[t] = exitKind[t]
    <2>1. CASE LoopSendExit(r)
      <3>1. child[r] = "failed"
        BY <1>1, <2>1 DEF LoopSendExit, IInv, TypeOK, ChildTypeOK, CommandFirst,
                          ExitOK, ExitAccountedAt
      <3>2. exitSent[r] = 0
        BY <1>1, <2>1, <3>1 DEF LoopSendExit, ExitOK, ExitAccountedAt,
                                ExitReported
      <3>3. /\ exitSent'[r] = 1
            /\ \A t \in Sessions \ {r} : exitSent'[t] = exitSent[t]
        BY <1>1, <2>1, <3>2 DEF LoopSendExit, IInv, TypeOK, EndTypeOK
      <3>4. /\ exitKind'[r] = "status255"
            /\ \A t \in Sessions \ {r} : exitKind'[t] = exitKind[t]
        BY <1>1, <2>1 DEF LoopSendExit, IInv, TypeOK, EndTypeOK
      <3>5. UNCHANGED <<child, outcome, closes>>
        BY <2>1 DEF LoopSendExit, childVars, closeVars
      <3>6. QED
        BY <3>1, <3>2, <3>3, <3>4, <3>5
    <2>2. CASE WaiterSendExit(r)
      <3>1. child[r] = "exited"
        BY <1>1, <2>2 DEF WaiterSendExit, IInv, WaiterAfterExit
      <3>2. exitSent[r] = 0
        BY <1>1, <2>2, <3>1 DEF WaiterSendExit, ExitOK, ExitAccountedAt,
                                ExitReported
      <3>3. /\ exitSent'[r] = 1
            /\ \A t \in Sessions \ {r} : exitSent'[t] = exitSent[t]
        BY <1>1, <2>2, <3>2 DEF WaiterSendExit, IInv, TypeOK, EndTypeOK
      <3>4. /\ exitKind'[r] = ExitReport[outcome[r]]
            /\ \A t \in Sessions \ {r} : exitKind'[t] = exitKind[t]
        BY <1>1, <2>2 DEF WaiterSendExit, IInv, TypeOK, EndTypeOK
      <3>5. UNCHANGED <<child, outcome, closes>>
        BY <2>2 DEF WaiterSendExit, childVars, closeVars
      <3>6. QED
        BY <3>1, <3>2, <3>3, <3>4, <3>5
    <2>3. QED
      BY <2>1, <2>2
  <1>3. ReportSent[r] = "none"
    BY <1>2 DEF ReportSent
  <1>4. ReportSent' = [ReportSent EXCEPT ![r] =
                          IF child[r] = "failed" THEN "status255"
                          ELSE Life!ReportFor[outcome[r]]]
    BY <1>1, <1>2 DEF ReportSent, ExitReport, Life!ReportFor, IInv, TypeOK,
                      EndTypeOK
  <1>5. Life!Report(r)
    BY <1>2, <1>3, <1>4 DEF Life!Report
  <1>6. QED
    BY <1>5 DEF Life!LifeNext

LEMMA EndStep ==
  ASSUME NEW r \in Sessions, NEW o \in Life!Ends, child[r] = "running",
         ChildEnds(r, o)
  PROVE  [Life!LifeNext]_Life!lifeVars
  <1>1. Life!End(r, o)
    BY DEF ChildEnds, Life!End, ReportSent, exitVars, closeVars
  <1>2. QED
    BY <1>1 DEF Life!LifeNext

LEMMA CloseStep ==
  ASSUME IInv, NEW r \in Sessions, NEW a \in Actors, DestroyFinish(r, a)
  PROVE  [Life!LifeNext]_Life!lifeVars
  <1>1. closes[r] = 0
    <2>1. lockHolder[r] = a /\ a # "none"
      BY DEF DestroyFinish, IInv, LockHeldInWgWait, Actors
    <2>2. ~complete[r]
      BY <2>1 DEF IInv, LockHeldInWgWait
    <2>3. QED
      BY <2>2 DEF IInv, ClosedIffComplete
  <1>2. /\ closes' = [closes EXCEPT ![r] = 1]
        /\ UNCHANGED <<child, outcome, exitSent, exitKind>>
    BY <1>1 DEF DestroyFinish, childVars, exitVars
  <1>3. Life!Close(r)
    BY <1>1, <1>2 DEF Life!Close, ReportSent
  <1>4. QED
    BY <1>3 DEF Life!LifeNext

LEMMA LifeStep ==
  ASSUME ExitInv, [Next]_vars
  PROVE  [Life!LifeNext]_Life!lifeVars
  <1> DEFINE Untouched == UNCHANGED <<child, outcome, exitSent, exitKind, closes>>
  <1>1. IInv
    BY DEF ExitInv
  <1>2. CASE \/ \E r \in Sessions, n \in Names : HandleEnv(r, n)
             \/ \E r \in Sessions : HandleSignal(r) \/ HandleOther(r)
             \/ \E r \in Sessions, sz \in Sizes :
                   HandlePtyReq(r, sz) \/ HandleWindowChange(r, sz)
    <2>1. Untouched
      BY <1>2 DEF HandleEnv, HandleSignal, HandleOther, HandlePtyReq,
                  HandleWindowChange, Receive, childVars, exitVars, closeVars
    <2>2. QED
      BY <2>1, LifeStutter
  <1>3. CASE \/ \E r \in Sessions : LoopEnd(r) \/ WaiterWait(r)
             \/ \E r \in Sessions, a \in {"loop", "waiter"} : DestroyLock(r, a)
    <2>1. Untouched
      BY <1>3 DEF LoopEnd, WaiterWait, DestroyLock, childVars, exitVars,
                  closeVars
    <2>2. QED
      BY <2>1, LifeStutter
  <1>4. CASE \E r \in Sessions : \/ FromPtyEOF(r) \/ FromPtyCloseWrite(r)
                                 \/ InCopierEOF(r)
                                 \/ ClientEOF(r) \/ ClientClose(r)
    <2>1. Untouched
      BY <1>4 DEF FromPtyEOF, FromPtyCloseWrite, InCopierEOF, ClientEOF,
                  ClientClose, childVars, exitVars, closeVars
    <2>2. QED
      BY <2>1, LifeStutter
  <1>5. CASE \E r \in Sessions, k \in {"scp", "cmd", "shell"} : ExecuteShell(r, k)
    BY <1>1, <1>5, LaunchStep
  <1>6. CASE \E r \in Sessions : LoopSendExit(r) \/ WaiterSendExit(r)
    BY <1>6, ReportStep
  <1>7. CASE \E r \in Sessions, o \in {"exited", "signaled", "waitError"} :
                child[r] = "running" /\ ChildEnds(r, o)
    BY <1>7, EndStep DEF Life!Ends
  <1>8. CASE \E r \in Sessions, a \in {"loop", "waiter"} : DestroyFinish(r, a)
    BY <1>1, <1>8, CloseStep DEF Actors
  <1>9. CASE UNCHANGED vars
    <2>1. Untouched
      BY <1>9 DEF vars
    <2>2. QED
      BY <2>1, LifeStutter
  <1>10. QED
    BY <1>2, <1>3, <1>4, <1>5, <1>6, <1>7, <1>8, <1>9
    DEF Next, Terminated, HandleExec, HandleShell, ChildExit, ChildHangup

\* The session's goroutines implement SessionLifecycle, for every set of
\* sessions: whatever the interleaving of the request loop, the waiter, the
\* copiers, the child and the client, a session launches at most one
\* command, sends one exit message that matches how the command ended, and
\* closes its channel once.
THEOREM LifecycleRefinement == Spec => LifecycleRefines
  <1>1. []ExitInv /\ [][Next]_vars => [][Life!LifeNext]_Life!lifeVars
    BY LifeStep, PTL
  <1>2. QED
    BY <1>1, LifeInitStep, ExitInvHolds, PTL
    DEF Spec, LifecycleRefines, Life!LifeSpec

==============================================================================
