------------------------ MODULE SessionChannelProofs ------------------------
(***************************************************************************)
(* Proofs about SessionChannel for every set of sessions, names, sizes,    *)
(* request kinds and every request bound: the type invariant, the          *)
(* idempotence of destroy (DestroyOnce) and that no pty output reaches a   *)
(* closed channel (NoOutputAfterClose), all from the inductive invariant   *)
(* IInv.                                                                   *)
(***************************************************************************)
EXTENDS SessionChannel, TLAPS



\* The width of a window is kept modulo 2^16.
LEMMA Uint16BoundPos == Uint16Bound \in Nat \ {0}
  BY DEF Uint16Bound

LEMMA Uint16Type ==
  ASSUME NEW n \in Nat
  PROVE  Uint16(n) \in 0..(Uint16Bound - 1)
  BY Uint16BoundPos DEF Uint16

\* The initial state: no command, no copier, nothing closed.
LEMMA InitIInv == Init => IInv
  <1> SUFFICES ASSUME Init PROVE IInv
    OBVIOUS
  <1>1. TypeOK
    <2>1. CtlTypeOK
      BY ConstAssumption DEF Init, CtlTypeOK, LoopLabels, WaiterLabels
    <2>2. PtyTypeOK
      BY Uint16BoundPos DEF Init, PtyTypeOK
    <2>3. ChildTypeOK
      <3>1. /\ child \in [Sessions -> {"none", "failed", "running", "exited"}]
            /\ childKind \in [Sessions -> {"none", "shell", "cmd", "scp"}]
            /\ outcome \in [Sessions -> {"none", "exited", "signaled", "waitError"}]
            /\ scpCalls \in [Sessions -> 0..MaxReq]
        BY ConstAssumption DEF Init
      <3>2. childEnv \in [Sessions -> SUBSET (Names \cup {"TERM"})]
        BY DEF Init
      <3>3. sigSent \in [Sessions -> BOOLEAN] /\ panicked \in BOOLEAN
        BY DEF Init
      <3>4. QED
        BY <3>1, <3>2, <3>3 DEF ChildTypeOK
    <2>4. EndTypeOK
      BY DEF Init, EndTypeOK
    <2>5. QED
      BY <2>1, <2>2, <2>3, <2>4 DEF TypeOK
  <1>2. WgCountsCopier
    BY DEF Init, WgCountsCopier
  <1>3. LockHeldInWgWait
    BY DEF Init, LockHeldInWgWait, Pc, Actors
  <1>4. ClosedIffComplete
    BY DEF Init, ClosedIffComplete
  <1>5. CommandFirst
    BY DEF Init, CommandFirst
  <1>6. WaiterAfterExit
    BY DEF Init, WaiterAfterExit
  <1>7. ScpCounted
    BY DEF Init, ScpCounted
  <1>8. NoCopierAfterComplete
    BY DEF Init, NoCopierAfterComplete
  <1>9. QED
    BY <1>1, <1>2, <1>3, <1>4, <1>5, <1>6, <1>7, <1>8 DEF IInv

\* A stored pty width is a natural number: the client's uint32 or 0.
LEMMA PtySizeNat ==
  ASSUME PtyTypeOK, NEW s \in Sessions
  PROVE  ptySize[s] \in Nat
  <1>1. ptySize[s] \in Sizes \cup {0}
    BY DEF PtyTypeOK
  <1>2. Sizes \subseteq Nat
    BY ConstAssumption
  <1>3. CASE ptySize[s] = 0
    BY <1>3
  <1>4. CASE ptySize[s] \in Sizes
    BY <1>2, <1>4
  <1>5. QED
    BY <1>1, <1>3, <1>4

\* executeShell keeps the pty variables typed: the master is opened with
\* the stored size truncated to uint16 (setWindowSize in runWithPty).
LEMMA ExecuteShellPtyType ==
  ASSUME PtyTypeOK, NEW s \in Sessions, NEW k \in {"shell", "cmd", "scp"},
         ExecuteShell(s, k)
  PROVE  PtyTypeOK'
  <1>1. Uint16(ptySize[s]) \in 0..(Uint16Bound - 1)
    BY PtySizeNat, Uint16Type
  <1>2. UNCHANGED <<allocPty, ptySize>>
    BY DEF ExecuteShell
  <1>3. CASE UNCHANGED <<master, masterSize>>
    BY <1>2, <1>3 DEF PtyTypeOK
  <1>4. CASE StartCopiers(s) /\ allocPty[s]
    BY <1>1, <1>2, <1>4 DEF PtyTypeOK, StartCopiers
  <1>5. CASE StartCopiers(s) /\ ~allocPty[s]
    BY <1>2, <1>5 DEF PtyTypeOK, StartCopiers
  <1>6. QED
    BY <1>3, <1>4, <1>5 DEF ExecuteShell

\* One step of any action keeps IInv: one step per action, and under it
\* one step per part of IInv.
LEMMA NextIInv == IInv /\ [Next]_vars => IInv'
  <1> SUFFICES ASSUME TypeOK, WgCountsCopier, LockHeldInWgWait,
                      ClosedIffComplete, CommandFirst, NoCopierAfterComplete,
                      WaiterAfterExit, ScpCounted, [Next]_vars
               PROVE  IInv'
    BY DEF IInv
  <1>1. ASSUME NEW s \in Sessions, NEW n \in Names, HandleEnv(s, n)
        PROVE  IInv'
    <2>1. CtlTypeOK'
      BY <1>1, ConstAssumption DEF CtlTypeOK, HandleEnv, Receive, TypeOK, CtlTypeOK, LoopLabels, WaiterLabels, envVars, ptyVars, childVars, copyVars, closeVars, exitVars
    <2>2. PtyTypeOK'
      BY <1>1 DEF PtyTypeOK, HandleEnv, Receive, TypeOK, PtyTypeOK, envVars, ptyVars, childVars, copyVars, closeVars, exitVars
    <2>3. ChildTypeOK'
      BY <1>1 DEF ChildTypeOK, HandleEnv, Receive, TypeOK, ChildTypeOK, envVars, ptyVars, childVars, copyVars, closeVars, exitVars
    <2>4. EndTypeOK'
      BY <1>1 DEF EndTypeOK, HandleEnv, Receive, TypeOK, EndTypeOK, envVars, ptyVars, childVars, copyVars, closeVars, exitVars
    <2>5. WgCountsCopier'
      BY <1>1 DEF WgCountsCopier, HandleEnv, Receive, TypeOK, CtlTypeOK, PtyTypeOK, ChildTypeOK, EndTypeOK, envVars, ptyVars, childVars, copyVars, closeVars, exitVars
    <2>6. LockHeldInWgWait'
      BY <1>1 DEF LockHeldInWgWait, HandleEnv, Receive, TypeOK, CtlTypeOK, PtyTypeOK, ChildTypeOK, EndTypeOK, Actors, Pc, envVars, ptyVars, childVars, copyVars, closeVars, exitVars
    <2>7. ClosedIffComplete'
      BY <1>1 DEF ClosedIffComplete, HandleEnv, Receive, TypeOK, CtlTypeOK, PtyTypeOK, ChildTypeOK, EndTypeOK, envVars, ptyVars, childVars, copyVars, closeVars, exitVars
    <2>8. CommandFirst'
      BY <1>1 DEF CommandFirst, HandleEnv, Receive, TypeOK, CtlTypeOK, PtyTypeOK, ChildTypeOK, EndTypeOK, envVars, ptyVars, childVars, copyVars, closeVars, exitVars
    <2>9. NoCopierAfterComplete'
      BY <1>1 DEF NoCopierAfterComplete, HandleEnv, Receive, TypeOK, CtlTypeOK, PtyTypeOK, ChildTypeOK, EndTypeOK, envVars, ptyVars, childVars, copyVars, closeVars, exitVars
    <2>10. WaiterAfterExit'
      BY <1>1 DEF WaiterAfterExit, HandleEnv, Receive, TypeOK, CtlTypeOK, PtyTypeOK, ChildTypeOK, EndTypeOK, envVars, ptyVars, childVars, copyVars, closeVars, exitVars
    <2>11. ScpCounted'
      BY <1>1 DEF ScpCounted, HandleEnv, Receive, TypeOK, CtlTypeOK, PtyTypeOK, ChildTypeOK, EndTypeOK, envVars, ptyVars, childVars, copyVars, closeVars, exitVars
    <2>12. QED
      BY <2>1, <2>2, <2>3, <2>4, <2>5, <2>6, <2>7, <2>8, <2>9, <2>10, <2>11 DEF IInv, TypeOK
  <1>2. ASSUME NEW s \in Sessions, HandleSignal(s)
        PROVE  IInv'
    <2>1. CtlTypeOK'
      BY <1>2, ConstAssumption DEF CtlTypeOK, HandleSignal, Receive, TypeOK, CtlTypeOK, LoopLabels, WaiterLabels, envVars, ptyVars, childVars, copyVars, closeVars, exitVars
    <2>2. PtyTypeOK'
      BY <1>2 DEF PtyTypeOK, HandleSignal, Receive, TypeOK, PtyTypeOK, envVars, ptyVars, childVars, copyVars, closeVars, exitVars
    <2>3. ChildTypeOK'
      BY <1>2 DEF ChildTypeOK, HandleSignal, Receive, TypeOK, ChildTypeOK, envVars, ptyVars, childVars, copyVars, closeVars, exitVars
    <2>4. EndTypeOK'
      BY <1>2 DEF EndTypeOK, HandleSignal, Receive, TypeOK, EndTypeOK, envVars, ptyVars, childVars, copyVars, closeVars, exitVars
    <2>5. WgCountsCopier'
      BY <1>2 DEF WgCountsCopier, HandleSignal, Receive, TypeOK, CtlTypeOK, PtyTypeOK, ChildTypeOK, EndTypeOK, envVars, ptyVars, childVars, copyVars, closeVars, exitVars
    <2>6. LockHeldInWgWait'
      BY <1>2 DEF LockHeldInWgWait, HandleSignal, Receive, TypeOK, CtlTypeOK, PtyTypeOK, ChildTypeOK, EndTypeOK, Actors, Pc, envVars, ptyVars, childVars, copyVars, closeVars, exitVars
    <2>7. ClosedIffComplete'
      BY <1>2 DEF ClosedIffComplete, HandleSignal, Receive, TypeOK, CtlTypeOK, PtyTypeOK, ChildTypeOK, EndTypeOK, envVars, ptyVars, childVars, copyVars, closeVars, exitVars
    <2>8. CommandFirst'
      BY <1>2 DEF CommandFirst, HandleSignal, Receive, TypeOK, CtlTypeOK, PtyTypeOK, ChildTypeOK, EndTypeOK, envVars, ptyVars, childVars, copyVars, closeVars, exitVars
    <2>9. NoCopierAfterComplete'
      BY <1>2 DEF NoCopierAfterComplete, HandleSignal, Receive, TypeOK, CtlTypeOK, PtyTypeOK, ChildTypeOK, EndTypeOK, envVars, ptyVars, childVars, copyVars, closeVars, exitVars
    <2>10. WaiterAfterExit'
      BY <1>2 DEF WaiterAfterExit, HandleSignal, Receive, TypeOK, CtlTypeOK, PtyTypeOK, ChildTypeOK, EndTypeOK, envVars, ptyVars, childVars, copyVars, closeVars, exitVars
    <2>11. ScpCounted'
      BY <1>2 DEF ScpCounted, HandleSignal, Receive, TypeOK, CtlTypeOK, PtyTypeOK, ChildTypeOK, EndTypeOK, envVars, ptyVars, childVars, copyVars, closeVars, exitVars
    <2>12. QED
      BY <2>1, <2>2, <2>3, <2>4, <2>5, <2>6, <2>7, <2>8, <2>9, <2>10, <2>11 DEF IInv, TypeOK
  <1>3. ASSUME NEW s \in Sessions, NEW sz \in Sizes, HandlePtyReq(s, sz)
        PROVE  IInv'
    <2>1. CtlTypeOK'
      BY <1>3, ConstAssumption DEF CtlTypeOK, HandlePtyReq, Receive, TypeOK, CtlTypeOK, LoopLabels, WaiterLabels, envVars, ptyVars, childVars, copyVars, closeVars, exitVars
    <2>2. PtyTypeOK'
      BY <1>3, ConstAssumption DEF PtyTypeOK, HandlePtyReq, Receive, TypeOK, PtyTypeOK, envVars, ptyVars, childVars, copyVars, closeVars, exitVars
    <2>3. ChildTypeOK'
      BY <1>3 DEF ChildTypeOK, HandlePtyReq, Receive, TypeOK, ChildTypeOK, envVars, ptyVars, childVars, copyVars, closeVars, exitVars
    <2>4. EndTypeOK'
      BY <1>3 DEF EndTypeOK, HandlePtyReq, Receive, TypeOK, EndTypeOK, envVars, ptyVars, childVars, copyVars, closeVars, exitVars
    <2>5. WgCountsCopier'
      BY <1>3 DEF WgCountsCopier, HandlePtyReq, Receive, TypeOK, CtlTypeOK, PtyTypeOK, ChildTypeOK, EndTypeOK, envVars, ptyVars, childVars, copyVars, closeVars, exitVars
    <2>6. LockHeldInWgWait'
      BY <1>3 DEF LockHeldInWgWait, HandlePtyReq, Receive, TypeOK, CtlTypeOK, PtyTypeOK, ChildTypeOK, EndTypeOK, Actors, Pc, envVars, ptyVars, childVars, copyVars, closeVars, exitVars
    <2>7. ClosedIffComplete'
      BY <1>3 DEF ClosedIffComplete, HandlePtyReq, Receive, TypeOK, CtlTypeOK, PtyTypeOK, ChildTypeOK, EndTypeOK, envVars, ptyVars, childVars, copyVars, closeVars, exitVars
    <2>8. CommandFirst'
      BY <1>3 DEF CommandFirst, HandlePtyReq, Receive, TypeOK, CtlTypeOK, PtyTypeOK, ChildTypeOK, EndTypeOK, envVars, ptyVars, childVars, copyVars, closeVars, exitVars
    <2>9. NoCopierAfterComplete'
      BY <1>3 DEF NoCopierAfterComplete, HandlePtyReq, Receive, TypeOK, CtlTypeOK, PtyTypeOK, ChildTypeOK, EndTypeOK, envVars, ptyVars, childVars, copyVars, closeVars, exitVars
    <2>10. WaiterAfterExit'
      BY <1>3 DEF WaiterAfterExit, HandlePtyReq, Receive, TypeOK, CtlTypeOK, PtyTypeOK, ChildTypeOK, EndTypeOK, envVars, ptyVars, childVars, copyVars, closeVars, exitVars
    <2>11. ScpCounted'
      BY <1>3 DEF ScpCounted, HandlePtyReq, Receive, TypeOK, CtlTypeOK, PtyTypeOK, ChildTypeOK, EndTypeOK, envVars, ptyVars, childVars, copyVars, closeVars, exitVars
    <2>12. QED
      BY <2>1, <2>2, <2>3, <2>4, <2>5, <2>6, <2>7, <2>8, <2>9, <2>10, <2>11 DEF IInv, TypeOK
  <1>4. ASSUME NEW s \in Sessions, NEW sz \in Sizes, HandleWindowChange(s, sz)
        PROVE  IInv'
    <2>1. CtlTypeOK'
      BY <1>4, ConstAssumption DEF CtlTypeOK, HandleWindowChange, Receive, Uint16, TypeOK, CtlTypeOK, LoopLabels, WaiterLabels, envVars, ptyVars, childVars, copyVars, closeVars, exitVars
    <2>2. PtyTypeOK'
      BY <1>4, Uint16Type, ConstAssumption DEF PtyTypeOK, HandleWindowChange, Receive, Uint16, TypeOK, PtyTypeOK, envVars, ptyVars, childVars, copyVars, closeVars, exitVars
    <2>3. ChildTypeOK'
      BY <1>4 DEF ChildTypeOK, HandleWindowChange, Receive, Uint16, TypeOK, ChildTypeOK, envVars, ptyVars, childVars, copyVars, closeVars, exitVars
    <2>4. EndTypeOK'
      BY <1>4 DEF EndTypeOK, HandleWindowChange, Receive, Uint16, TypeOK, EndTypeOK, envVars, ptyVars, childVars, copyVars, closeVars, exitVars
    <2>5. WgCountsCopier'
      BY <1>4 DEF WgCountsCopier, HandleWindowChange, Receive, Uint16, TypeOK, CtlTypeOK, PtyTypeOK, ChildTypeOK, EndTypeOK, envVars, ptyVars, childVars, copyVars, closeVars, exitVars
    <2>6. LockHeldInWgWait'
      BY <1>4 DEF LockHeldInWgWait, HandleWindowChange, Receive, Uint16, TypeOK, CtlTypeOK, PtyTypeOK, ChildTypeOK, EndTypeOK, Actors, Pc, envVars, ptyVars, childVars, copyVars, closeVars, exitVars
    <2>7. ClosedIffComplete'
      BY <1>4 DEF ClosedIffComplete, HandleWindowChange, Receive, Uint16, TypeOK, CtlTypeOK, PtyTypeOK, ChildTypeOK, EndTypeOK, envVars, ptyVars, childVars, copyVars, closeVars, exitVars
    <2>8. CommandFirst'
      BY <1>4 DEF CommandFirst, HandleWindowChange, Receive, Uint16, TypeOK, CtlTypeOK, PtyTypeOK, ChildTypeOK, EndTypeOK, envVars, ptyVars, childVars, copyVars, closeVars, exitVars
    <2>9. NoCopierAfterComplete'
      BY <1>4 DEF NoCopierAfterComplete, HandleWindowChange, Receive, Uint16, TypeOK, CtlTypeOK, PtyTypeOK, ChildTypeOK, EndTypeOK, envVars, ptyVars, childVars, copyVars, closeVars, exitVars
    <2>10. WaiterAfterExit'
      BY <1>4 DEF WaiterAfterExit, HandleWindowChange, Receive, Uint16, TypeOK, CtlTypeOK, PtyTypeOK, ChildTypeOK, EndTypeOK, envVars, ptyVars, childVars, copyVars, closeVars, exitVars
    <2>11. ScpCounted'
      BY <1>4 DEF ScpCounted, HandleWindowChange, Receive, Uint16, TypeOK, CtlTypeOK, PtyTypeOK, ChildTypeOK, EndTypeOK, envVars, ptyVars, childVars, copyVars, closeVars, exitVars
    <2>12. QED
      BY <2>1, <2>2, <2>3, <2>4, <2>5, <2>6, <2>7, <2>8, <2>9, <2>10, <2>11 DEF IInv, TypeOK
  <1>5. ASSUME NEW s \in Sessions, NEW k \in {"scp", "cmd"}, HandleExec(s, k)
        PROVE  IInv'
    <2>1. CtlTypeOK'
      BY <1>5, ConstAssumption DEF CtlTypeOK, HandleExec, Receive, ExecuteShell, StartCopiers, TypeOK, CtlTypeOK, LoopLabels, WaiterLabels, envVars, ptyVars, childVars, copyVars, closeVars, exitVars
    <2>2. PtyTypeOK'
      BY <1>5, ExecuteShellPtyType DEF HandleExec, HandleShell, TypeOK
    <2>3. ChildTypeOK'
      BY <1>5, ConstAssumption DEF ChildTypeOK, HandleExec, Receive, ExecuteShell, StartCopiers, TypeOK, ChildTypeOK, ScpCounted, CtlTypeOK, envVars, ptyVars, childVars, copyVars, closeVars, exitVars
    <2>4. EndTypeOK'
      BY <1>5 DEF EndTypeOK, HandleExec, Receive, ExecuteShell, StartCopiers, TypeOK, EndTypeOK, envVars, ptyVars, childVars, copyVars, closeVars, exitVars
    <2>5. WgCountsCopier'
      BY <1>5 DEF WgCountsCopier, HandleExec, Receive, ExecuteShell, StartCopiers, TypeOK, CtlTypeOK, PtyTypeOK, ChildTypeOK, EndTypeOK, CommandFirst, envVars, ptyVars, childVars, copyVars, closeVars, exitVars
    <2>6. LockHeldInWgWait'
      BY <1>5 DEF LockHeldInWgWait, HandleExec, Receive, ExecuteShell, StartCopiers, TypeOK, CtlTypeOK, PtyTypeOK, ChildTypeOK, EndTypeOK, CommandFirst, Actors, Pc, envVars, ptyVars, childVars, copyVars, closeVars, exitVars
    <2>7. ClosedIffComplete'
      BY <1>5 DEF ClosedIffComplete, HandleExec, Receive, ExecuteShell, StartCopiers, TypeOK, CtlTypeOK, PtyTypeOK, ChildTypeOK, EndTypeOK, envVars, ptyVars, childVars, copyVars, closeVars, exitVars
    <2>8. CommandFirst'
      BY <1>5 DEF CommandFirst, HandleExec, Receive, ExecuteShell, StartCopiers, TypeOK, CtlTypeOK, PtyTypeOK, ChildTypeOK, EndTypeOK, envVars, ptyVars, childVars, copyVars, closeVars, exitVars
    <2>9. NoCopierAfterComplete'
      BY <1>5 DEF NoCopierAfterComplete, HandleExec, Receive, ExecuteShell, StartCopiers, TypeOK, CtlTypeOK, PtyTypeOK, ChildTypeOK, EndTypeOK, CommandFirst, envVars, ptyVars, childVars, copyVars, closeVars, exitVars
    <2>10. WaiterAfterExit'
      BY <1>5 DEF WaiterAfterExit, HandleExec, Receive, ExecuteShell, StartCopiers, TypeOK, CtlTypeOK, PtyTypeOK, ChildTypeOK, EndTypeOK, envVars, ptyVars, childVars, copyVars, closeVars, exitVars
    <2>11. ScpCounted'
      BY <1>5 DEF ScpCounted, HandleExec, Receive, ExecuteShell, StartCopiers, TypeOK, CtlTypeOK, PtyTypeOK, ChildTypeOK, EndTypeOK, envVars, ptyVars, childVars, copyVars, closeVars, exitVars
    <2>12. QED
      BY <2>1, <2>2, <2>3, <2>4, <2>5, <2>6, <2>7, <2>8, <2>9, <2>10, <2>11 DEF IInv, TypeOK
  <1>6. ASSUME NEW s \in Sessions, HandleShell(s)
        PROVE  IInv'
    <2>1. CtlTypeOK'
      BY <1>6, ConstAssumption DEF CtlTypeOK, HandleShell, Receive, ExecuteShell, StartCopiers, TypeOK, CtlTypeOK, LoopLabels, WaiterLabels, envVars, ptyVars, childVars, copyVars, closeVars, exitVars
    <2>2. PtyTypeOK'
      BY <1>6, ExecuteShellPtyType DEF HandleExec, HandleShell, TypeOK
    <2>3. ChildTypeOK'
      BY <1>6 DEF ChildTypeOK, HandleShell, Receive, ExecuteShell, StartCopiers, TypeOK, ChildTypeOK, CtlTypeOK, envVars, ptyVars, childVars, copyVars, closeVars, exitVars
    <2>4. EndTypeOK'
      BY <1>6 DEF EndTypeOK, HandleShell, Receive, ExecuteShell, StartCopiers, TypeOK, EndTypeOK, envVars, ptyVars, childVars, copyVars, closeVars, exitVars
    <2>5. WgCountsCopier'
      BY <1>6 DEF WgCountsCopier, HandleShell, Receive, ExecuteShell, StartCopiers, TypeOK, CtlTypeOK, PtyTypeOK, ChildTypeOK, EndTypeOK, CommandFirst, envVars, ptyVars, childVars, copyVars, closeVars, exitVars
    <2>6. LockHeldInWgWait'
      BY <1>6 DEF LockHeldInWgWait, HandleShell, Receive, ExecuteShell, StartCopiers, TypeOK, CtlTypeOK, PtyTypeOK, ChildTypeOK, EndTypeOK, CommandFirst, Actors, Pc, envVars, ptyVars, childVars, copyVars, closeVars, exitVars
    <2>7. ClosedIffComplete'
      BY <1>6 DEF ClosedIffComplete, HandleShell, Receive, ExecuteShell, StartCopiers, TypeOK, CtlTypeOK, PtyTypeOK, ChildTypeOK, EndTypeOK, envVars, ptyVars, childVars, copyVars, closeVars, exitVars
    <2>8. CommandFirst'
      BY <1>6 DEF CommandFirst, HandleShell, Receive, ExecuteShell, StartCopiers, TypeOK, CtlTypeOK, PtyTypeOK, ChildTypeOK, EndTypeOK, envVars, ptyVars, childVars, copyVars, closeVars, exitVars
    <2>9. NoCopierAfterComplete'
      BY <1>6 DEF NoCopierAfterComplete, HandleShell, Receive, ExecuteShell, StartCopiers, TypeOK, CtlTypeOK, PtyTypeOK, ChildTypeOK, EndTypeOK, CommandFirst, envVars, ptyVars, childVars, copyVars, closeVars, exitVars
    <2>10. WaiterAfterExit'
      BY <1>6 DEF WaiterAfterExit, HandleShell, Receive, ExecuteShell, StartCopiers, TypeOK, CtlTypeOK, PtyTypeOK, ChildTypeOK, EndTypeOK, envVars, ptyVars, childVars, copyVars, closeVars, exitVars
    <2>11. ScpCounted'
      BY <1>6 DEF ScpCounted, HandleShell, Receive, ExecuteShell, StartCopiers, TypeOK, CtlTypeOK, PtyTypeOK, ChildTypeOK, EndTypeOK, envVars, ptyVars, childVars, copyVars, closeVars, exitVars
    <2>12. QED
      BY <2>1, <2>2, <2>3, <2>4, <2>5, <2>6, <2>7, <2>8, <2>9, <2>10, <2>11 DEF IInv, TypeOK
  <1>7. ASSUME NEW s \in Sessions, HandleOther(s)
        PROVE  IInv'
    <2>1. CtlTypeOK'
      BY <1>7, ConstAssumption DEF CtlTypeOK, HandleOther, Receive, TypeOK, CtlTypeOK, LoopLabels, WaiterLabels, envVars, ptyVars, childVars, copyVars, closeVars, exitVars
    <2>2. PtyTypeOK'
      BY <1>7 DEF PtyTypeOK, HandleOther, Receive, TypeOK, PtyTypeOK, envVars, ptyVars, childVars, copyVars, closeVars, exitVars
    <2>3. ChildTypeOK'
      BY <1>7 DEF ChildTypeOK, HandleOther, Receive, TypeOK, ChildTypeOK, envVars, ptyVars, childVars, copyVars, closeVars, exitVars
    <2>4. EndTypeOK'
      BY <1>7 DEF EndTypeOK, HandleOther, Receive, TypeOK, EndTypeOK, envVars, ptyVars, childVars, copyVars, closeVars, exitVars
    <2>5. WgCountsCopier'
      BY <1>7 DEF WgCountsCopier, HandleOther, Receive, TypeOK, CtlTypeOK, PtyTypeOK, ChildTypeOK, EndTypeOK, envVars, ptyVars, childVars, copyVars, closeVars, exitVars
    <2>6. LockHeldInWgWait'
      BY <1>7 DEF LockHeldInWgWait, HandleOther, Receive, TypeOK, CtlTypeOK, PtyTypeOK, ChildTypeOK, EndTypeOK, Actors, Pc, envVars, ptyVars, childVars, copyVars, closeVars, exitVars
    <2>7. ClosedIffComplete'
      BY <1>7 DEF ClosedIffComplete, HandleOther, Receive, TypeOK, CtlTypeOK, PtyTypeOK, ChildTypeOK, EndTypeOK, envVars, ptyVars, childVars, copyVars, closeVars, exitVars
    <2>8. CommandFirst'
      BY <1>7 DEF CommandFirst, HandleOther, Receive, TypeOK, CtlTypeOK, PtyTypeOK, ChildTypeOK, EndTypeOK, envVars, ptyVars, childVars, copyVars, closeVars, exitVars
    <2>9. NoCopierAfterComplete'
      BY <1>7 DEF NoCopierAfterComplete, HandleOther, Receive, TypeOK, CtlTypeOK, PtyTypeOK, ChildTypeOK, EndTypeOK, envVars, ptyVars, childVars, copyVars, closeVars, exitVars
    <2>10. WaiterAfterExit'
      BY <1>7 DEF WaiterAfterExit, HandleOther, Receive, TypeOK, CtlTypeOK, PtyTypeOK, ChildTypeOK, EndTypeOK, envVars, ptyVars, childVars, copyVars, closeVars, exitVars
    <2>11. ScpCounted'
      BY <1>7 DEF ScpCounted, HandleOther, Receive, TypeOK, CtlTypeOK, PtyTypeOK, ChildTypeOK, EndTypeOK, envVars, ptyVars, childVars, copyVars, closeVars, exitVars
    <2>12. QED
      BY <2>1, <2>2, <2>3, <2>4, <2>5, <2>6, <2>7, <2>8, <2>9, <2>10, <2>11 DEF IInv, TypeOK
  <1>8. ASSUME NEW s \in Sessions, LoopEnd(s)
        PROVE  IInv'
    <2>1. CtlTypeOK'
      BY <1>8, ConstAssumption DEF CtlTypeOK, LoopEnd, TypeOK, CtlTypeOK, LoopLabels, WaiterLabels, envVars, ptyVars, childVars, copyVars, closeVars, exitVars
    <2>2. PtyTypeOK'
      BY <1>8 DEF PtyTypeOK, LoopEnd, TypeOK, PtyTypeOK, envVars, ptyVars, childVars, copyVars, closeVars, exitVars
    <2>3. ChildTypeOK'
      BY <1>8 DEF ChildTypeOK, LoopEnd, TypeOK, ChildTypeOK, envVars, ptyVars, childVars, copyVars, closeVars, exitVars
    <2>4. EndTypeOK'
      BY <1>8 DEF EndTypeOK, LoopEnd, TypeOK, EndTypeOK, envVars, ptyVars, childVars, copyVars, closeVars, exitVars
    <2>5. WgCountsCopier'
      BY <1>8 DEF WgCountsCopier, LoopEnd, TypeOK, CtlTypeOK, PtyTypeOK, ChildTypeOK, EndTypeOK, envVars, ptyVars, childVars, copyVars, closeVars, exitVars
    <2>6. LockHeldInWgWait'
      BY <1>8 DEF LockHeldInWgWait, LoopEnd, TypeOK, CtlTypeOK, PtyTypeOK, ChildTypeOK, EndTypeOK, Actors, Pc, envVars, ptyVars, childVars, copyVars, closeVars, exitVars
    <2>7. ClosedIffComplete'
      BY <1>8 DEF ClosedIffComplete, LoopEnd, TypeOK, CtlTypeOK, PtyTypeOK, ChildTypeOK, EndTypeOK, envVars, ptyVars, childVars, copyVars, closeVars, exitVars
    <2>8. CommandFirst'
      BY <1>8 DEF CommandFirst, LoopEnd, TypeOK, CtlTypeOK, PtyTypeOK, ChildTypeOK, EndTypeOK, envVars, ptyVars, childVars, copyVars, closeVars, exitVars
    <2>9. NoCopierAfterComplete'
      BY <1>8 DEF NoCopierAfterComplete, LoopEnd, TypeOK, CtlTypeOK, PtyTypeOK, ChildTypeOK, EndTypeOK, envVars, ptyVars, childVars, copyVars, closeVars, exitVars
    <2>10. WaiterAfterExit'
      BY <1>8 DEF WaiterAfterExit, LoopEnd, TypeOK, CtlTypeOK, PtyTypeOK, ChildTypeOK, EndTypeOK, envVars, ptyVars, childVars, copyVars, closeVars, exitVars
    <2>11. ScpCounted'
      BY <1>8 DEF ScpCounted, LoopEnd, TypeOK, CtlTypeOK, PtyTypeOK, ChildTypeOK, EndTypeOK, envVars, ptyVars, childVars, copyVars, closeVars, exitVars
    <2>12. QED
      BY <2>1, <2>2, <2>3, <2>4, <2>5, <2>6, <2>7, <2>8, <2>9, <2>10, <2>11 DEF IInv, TypeOK
  <1>9. ASSUME NEW s \in Sessions, LoopSendExit(s)
        PROVE  IInv'
    <2>1. CtlTypeOK'
      BY <1>9, ConstAssumption DEF CtlTypeOK, LoopSendExit, TypeOK, CtlTypeOK, LoopLabels, WaiterLabels, envVars, ptyVars, childVars, copyVars, closeVars, exitVars
    <2>2. PtyTypeOK'
      BY <1>9 DEF PtyTypeOK, LoopSendExit, TypeOK, PtyTypeOK, envVars, ptyVars, childVars, copyVars, closeVars, exitVars
    <2>3. ChildTypeOK'
      BY <1>9 DEF ChildTypeOK, LoopSendExit, TypeOK, ChildTypeOK, envVars, ptyVars, childVars, copyVars, closeVars, exitVars
    <2>4. EndTypeOK'
      BY <1>9 DEF EndTypeOK, LoopSendExit, TypeOK, EndTypeOK, envVars, ptyVars, childVars, copyVars, closeVars, exitVars
    <2>5. WgCountsCopier'
      BY <1>9 DEF WgCountsCopier, LoopSendExit, TypeOK, CtlTypeOK, PtyTypeOK, ChildTypeOK, EndTypeOK, envVars, ptyVars, childVars, copyVars, closeVars, exitVars
    <2>6. LockHeldInWgWait'
      BY <1>9 DEF LockHeldInWgWait, LoopSendExit, TypeOK, CtlTypeOK, PtyTypeOK, ChildTypeOK, EndTypeOK, Actors, Pc, envVars, ptyVars, childVars, copyVars, closeVars, exitVars
    <2>7. ClosedIffComplete'
      BY <1>9 DEF ClosedIffComplete, LoopSendExit, TypeOK, CtlTypeOK, PtyTypeOK, ChildTypeOK, EndTypeOK, envVars, ptyVars, childVars, copyVars, closeVars, exitVars
    <2>8. CommandFirst'
      BY <1>9 DEF CommandFirst, LoopSendExit, TypeOK, CtlTypeOK, PtyTypeOK, ChildTypeOK, EndTypeOK, envVars, ptyVars, childVars, copyVars, closeVars, exitVars
    <2>9. NoCopierAfterComplete'
      BY <1>9 DEF NoCopierAfterComplete, LoopSendExit, TypeOK, CtlTypeOK, PtyTypeOK, ChildTypeOK, EndTypeOK, envVars, ptyVars, childVars, copyVars, closeVars, exitVars
    <2>10. WaiterAfterExit'
      BY <1>9 DEF WaiterAfterExit, LoopSendExit, TypeOK, CtlTypeOK, PtyTypeOK, ChildTypeOK, EndTypeOK, envVars, ptyVars, childVars, copyVars, closeVars, exitVars
    <2>11. ScpCounted'
      BY <1>9 DEF ScpCounted, LoopSendExit, TypeOK, CtlTypeOK, PtyTypeOK, ChildTypeOK, EndTypeOK, envVars, ptyVars, childVars, copyVars, closeVars, exitVars
    <2>12. QED
      BY <2>1, <2>2, <2>3, <2>4, <2>5, <2>6, <2>7, <2>8, <2>9, <2>10, <2>11 DEF IInv, TypeOK
  <1>10. ASSUME NEW s \in Sessions, WaiterWait(s)
        PROVE  IInv'
    <2>1. CtlTypeOK'
      BY <1>10, ConstAssumption DEF CtlTypeOK, WaiterWait, TypeOK, CtlTypeOK, LoopLabels, WaiterLabels, envVars, ptyVars, childVars, copyVars, closeVars, exitVars
    <2>2. PtyTypeOK'
      BY <1>10 DEF PtyTypeOK, WaiterWait, TypeOK, PtyTypeOK, envVars, ptyVars, childVars, copyVars, closeVars, exitVars
    <2>3. ChildTypeOK'
      BY <1>10 DEF ChildTypeOK, WaiterWait, TypeOK, ChildTypeOK, envVars, ptyVars, childVars, copyVars, closeVars, exitVars
    <2>4. EndTypeOK'
      BY <1>10 DEF EndTypeOK, WaiterWait, TypeOK, EndTypeOK, envVars, ptyVars, childVars, copyVars, closeVars, exitVars
    <2>5. WgCountsCopier'
      BY <1>10 DEF WgCountsCopier, WaiterWait, TypeOK, CtlTypeOK, PtyTypeOK, ChildTypeOK, EndTypeOK, envVars, ptyVars, childVars, copyVars, closeVars, exitVars
    <2>6. LockHeldInWgWait'
      BY <1>10 DEF LockHeldInWgWait, WaiterWait, TypeOK, CtlTypeOK, PtyTypeOK, ChildTypeOK, EndTypeOK, Actors, Pc, envVars, ptyVars, childVars, copyVars, closeVars, exitVars
    <2>7. ClosedIffComplete'
      BY <1>10 DEF ClosedIffComplete, WaiterWait, TypeOK, CtlTypeOK, PtyTypeOK, ChildTypeOK, EndTypeOK, envVars, ptyVars, childVars, copyVars, closeVars, exitVars
    <2>8. CommandFirst'
      BY <1>10 DEF CommandFirst, WaiterWait, TypeOK, CtlTypeOK, PtyTypeOK, ChildTypeOK, EndTypeOK, envVars, ptyVars, childVars, copyVars, closeVars, exitVars
    <2>9. NoCopierAfterComplete'
      BY <1>10 DEF NoCopierAfterComplete, WaiterWait, TypeOK, CtlTypeOK, PtyTypeOK, ChildTypeOK, EndTypeOK, envVars, ptyVars, childVars, copyVars, closeVars, exitVars
    <2>10. WaiterAfterExit'
      BY <1>10 DEF WaiterAfterExit, WaiterWait, TypeOK, CtlTypeOK, PtyTypeOK, ChildTypeOK, EndTypeOK, envVars, ptyVars, childVars, copyVars, closeVars, exitVars
    <2>11. ScpCounted'
      BY <1>10 DEF ScpCounted, WaiterWait, TypeOK, CtlTypeOK, PtyTypeOK, ChildTypeOK, EndTypeOK, envVars, ptyVars, childVars, copyVars, closeVars, exitVars
    <2>12. QED
      BY <2>1, <2>2, <2>3, <2>4, <2>5, <2>6, <2>7, <2>8, <2>9, <2>10, <2>11 DEF IInv, TypeOK
  <1>11. ASSUME NEW s \in Sessions, WaiterSendExit(s)
        PROVE  IInv'
    <2>1. CtlTypeOK'
      BY <1>11, ConstAssumption DEF CtlTypeOK, WaiterSendExit, ExitReport, TypeOK, CtlTypeOK, LoopLabels, WaiterLabels, envVars, ptyVars, childVars, copyVars, closeVars, exitVars
    <2>2. PtyTypeOK'
      BY <1>11 DEF PtyTypeOK, WaiterSendExit, ExitReport, TypeOK, PtyTypeOK, envVars, ptyVars, childVars, copyVars, closeVars, exitVars
    <2>3. ChildTypeOK'
      BY <1>11 DEF ChildTypeOK, WaiterSendExit, ExitReport, TypeOK, ChildTypeOK, envVars, ptyVars, childVars, copyVars, closeVars, exitVars
    <2>4. EndTypeOK'
      BY <1>11 DEF EndTypeOK, WaiterSendExit, ExitReport, TypeOK, EndTypeOK, WaiterAfterExit, ChildTypeOK, envVars, ptyVars, childVars, copyVars, closeVars, exitVars
    <2>5. WgCountsCopier'
      BY <1>11 DEF WgCountsCopier, WaiterSendExit, ExitReport, TypeOK, CtlTypeOK, PtyTypeOK, ChildTypeOK, EndTypeOK, envVars, ptyVars, childVars, copyVars, closeVars, exitVars
    <2>6. LockHeldInWgWait'
      BY <1>11 DEF LockHeldInWgWait, WaiterSendExit, ExitReport, TypeOK, CtlTypeOK, PtyTypeOK, ChildTypeOK, EndTypeOK, Actors, Pc, envVars, ptyVars, childVars, copyVars, closeVars, exitVars
    <2>7. ClosedIffComplete'
      BY <1>11 DEF ClosedIffComplete, WaiterSendExit, ExitReport, TypeOK, CtlTypeOK, PtyTypeOK, ChildTypeOK, EndTypeOK, envVars, ptyVars, childVars, copyVars, closeVars, exitVars
    <2>8. CommandFirst'
      BY <1>11 DEF CommandFirst, WaiterSendExit, ExitReport, TypeOK, CtlTypeOK, PtyTypeOK, ChildTypeOK, EndTypeOK, envVars, ptyVars, childVars, copyVars, closeVars, exitVars
    <2>9. NoCopierAfterComplete'
      BY <1>11 DEF NoCopierAfterComplete, WaiterSendExit, ExitReport, TypeOK, CtlTypeOK, PtyTypeOK, ChildTypeOK, EndTypeOK, envVars, ptyVars, childVars, copyVars, closeVars, exitVars
    <2>10. WaiterAfterExit'
      BY <1>11 DEF WaiterAfterExit, WaiterSendExit, ExitReport, TypeOK, CtlTypeOK, PtyTypeOK, ChildTypeOK, EndTypeOK, envVars, ptyVars, childVars, copyVars, closeVars, exitVars
    <2>11. ScpCounted'
      BY <1>11 DEF ScpCounted, WaiterSendExit, ExitReport, TypeOK, CtlTypeOK, PtyTypeOK, ChildTypeOK, EndTypeOK, envVars, ptyVars, childVars, copyVars, closeVars, exitVars
    <2>12. QED
      BY <2>1, <2>2, <2>3, <2>4, <2>5, <2>6, <2>7, <2>8, <2>9, <2>10, <2>11 DEF IInv, TypeOK
  <1>12. ASSUME NEW s \in Sessions, NEW a \in {"loop", "waiter"}, DestroyLock(s, a)
        PROVE  IInv'
    <2>1. CtlTypeOK'
      BY <1>12, ConstAssumption DEF CtlTypeOK, DestroyLock, SetPc, Return, Pc, TypeOK, CtlTypeOK, LoopLabels, WaiterLabels, envVars, ptyVars, childVars, copyVars, closeVars, exitVars
    <2>2. PtyTypeOK'
      BY <1>12 DEF PtyTypeOK, DestroyLock, SetPc, Return, Pc, TypeOK, PtyTypeOK, envVars, ptyVars, childVars, copyVars, closeVars, exitVars
    <2>3. ChildTypeOK'
      BY <1>12 DEF ChildTypeOK, DestroyLock, SetPc, Return, Pc, TypeOK, ChildTypeOK, envVars, ptyVars, childVars, copyVars, closeVars, exitVars
    <2>4. EndTypeOK'
      BY <1>12 DEF EndTypeOK, DestroyLock, SetPc, Return, Pc, TypeOK, EndTypeOK, envVars, ptyVars, childVars, copyVars, closeVars, exitVars
    <2>5. WgCountsCopier'
      BY <1>12 DEF WgCountsCopier, DestroyLock, SetPc, Return, Pc, TypeOK, CtlTypeOK, PtyTypeOK, ChildTypeOK, EndTypeOK, envVars, ptyVars, childVars, copyVars, closeVars, exitVars
    <2>6. LockHeldInWgWait'
      BY <1>12 DEF LockHeldInWgWait, DestroyLock, SetPc, Return, Pc, TypeOK, CtlTypeOK, PtyTypeOK, ChildTypeOK, EndTypeOK, Actors, Pc, envVars, ptyVars, childVars, copyVars, closeVars, exitVars
    <2>7. ClosedIffComplete'
      BY <1>12 DEF ClosedIffComplete, DestroyLock, SetPc, Return, Pc, TypeOK, CtlTypeOK, PtyTypeOK, ChildTypeOK, EndTypeOK, envVars, ptyVars, childVars, copyVars, closeVars, exitVars
    <2>8. CommandFirst'
      BY <1>12 DEF CommandFirst, DestroyLock, SetPc, Return, Pc, TypeOK, CtlTypeOK, PtyTypeOK, ChildTypeOK, EndTypeOK, envVars, ptyVars, childVars, copyVars, closeVars, exitVars
    <2>9. NoCopierAfterComplete'
      BY <1>12 DEF NoCopierAfterComplete, DestroyLock, SetPc, Return, Pc, TypeOK, CtlTypeOK, PtyTypeOK, ChildTypeOK, EndTypeOK, envVars, ptyVars, childVars, copyVars, closeVars, exitVars
    <2>10. WaiterAfterExit'
      BY <1>12 DEF WaiterAfterExit, DestroyLock, SetPc, Return, Pc, TypeOK, CtlTypeOK, PtyTypeOK, ChildTypeOK, EndTypeOK, envVars, ptyVars, childVars, copyVars, closeVars, exitVars
    <2>11. ScpCounted'
      BY <1>12 DEF ScpCounted, DestroyLock, SetPc, Return, Pc, TypeOK, CtlTypeOK, PtyTypeOK, ChildTypeOK, EndTypeOK, envVars, ptyVars, childVars, copyVars, closeVars, exitVars
    <2>12. QED
      BY <2>1, <2>2, <2>3, <2>4, <2>5, <2>6, <2>7, <2>8, <2>9, <2>10, <2>11 DEF IInv, TypeOK
  <1>13. ASSUME NEW s \in Sessions, NEW a \in {"loop", "waiter"}, DestroyFinish(s, a)
        PROVE  IInv'
    <2>1. CtlTypeOK'
      BY <1>13, ConstAssumption DEF CtlTypeOK, DestroyFinish, SetPc, Return, Pc, TypeOK, CtlTypeOK, LoopLabels, WaiterLabels, envVars, ptyVars, childVars, copyVars, closeVars, exitVars
    <2>2. PtyTypeOK'
      BY <1>13 DEF PtyTypeOK, DestroyFinish, SetPc, Return, Pc, TypeOK, PtyTypeOK, envVars, ptyVars, childVars, copyVars, closeVars, exitVars
    <2>3. ChildTypeOK'
      BY <1>13 DEF ChildTypeOK, DestroyFinish, SetPc, Return, Pc, TypeOK, ChildTypeOK, envVars, ptyVars, childVars, copyVars, closeVars, exitVars
    <2>4. EndTypeOK'
      BY <1>13 DEF EndTypeOK, DestroyFinish, SetPc, Return, Pc, TypeOK, EndTypeOK, envVars, ptyVars, childVars, copyVars, closeVars, exitVars
    <2>5. WgCountsCopier'
      BY <1>13 DEF WgCountsCopier, DestroyFinish, SetPc, Return, Pc, TypeOK, CtlTypeOK, PtyTypeOK, ChildTypeOK, EndTypeOK, envVars, ptyVars, childVars, copyVars, closeVars, exitVars
    <2>6. LockHeldInWgWait'
      BY <1>13 DEF LockHeldInWgWait, DestroyFinish, SetPc, Return, Pc, TypeOK, CtlTypeOK, PtyTypeOK, ChildTypeOK, EndTypeOK, Actors, Pc, envVars, ptyVars, childVars, copyVars, closeVars, exitVars
    <2>7. ClosedIffComplete'
      BY <1>13 DEF ClosedIffComplete, DestroyFinish, SetPc, Return, Pc, TypeOK, CtlTypeOK, PtyTypeOK, ChildTypeOK, EndTypeOK, LockHeldInWgWait, Actors, Pc, envVars, ptyVars, childVars, copyVars, closeVars, exitVars
    <2>8. CommandFirst'
      BY <1>13 DEF CommandFirst, DestroyFinish, SetPc, Return, Pc, TypeOK, CtlTypeOK, PtyTypeOK, ChildTypeOK, EndTypeOK, envVars, ptyVars, childVars, copyVars, closeVars, exitVars
    <2>9. NoCopierAfterComplete'
      BY <1>13 DEF NoCopierAfterComplete, DestroyFinish, SetPc, Return, Pc, TypeOK, CtlTypeOK, PtyTypeOK, ChildTypeOK, EndTypeOK, WgCountsCopier, envVars, ptyVars, childVars, copyVars, closeVars, exitVars
    <2>10. WaiterAfterExit'
      BY <1>13 DEF WaiterAfterExit, DestroyFinish, SetPc, Return, Pc, TypeOK, CtlTypeOK, PtyTypeOK, ChildTypeOK, EndTypeOK, envVars, ptyVars, childVars, copyVars, closeVars, exitVars
    <2>11. ScpCounted'
      BY <1>13 DEF ScpCounted, DestroyFinish, SetPc, Return, Pc, TypeOK, CtlTypeOK, PtyTypeOK, ChildTypeOK, EndTypeOK, envVars, ptyVars, childVars, copyVars, closeVars, exitVars
    <2>12. QED
      BY <2>1, <2>2, <2>3, <2>4, <2>5, <2>6, <2>7, <2>8, <2>9, <2>10, <2>11 DEF IInv, TypeOK
  <1>14. ASSUME NEW s \in Sessions, FromPtyEOF(s)
        PROVE  IInv'
    <2>1. CtlTypeOK'
      BY <1>14, ConstAssumption DEF CtlTypeOK, FromPtyEOF, TypeOK, CtlTypeOK, LoopLabels, WaiterLabels, envVars, ptyVars, childVars, copyVars, closeVars, exitVars
    <2>2. PtyTypeOK'
      BY <1>14 DEF PtyTypeOK, FromPtyEOF, TypeOK, PtyTypeOK, envVars, ptyVars, childVars, copyVars, closeVars, exitVars
    <2>3. ChildTypeOK'
      BY <1>14 DEF ChildTypeOK, FromPtyEOF, TypeOK, ChildTypeOK, envVars, ptyVars, childVars, copyVars, closeVars, exitVars
    <2>4. EndTypeOK'
      BY <1>14 DEF EndTypeOK, FromPtyEOF, TypeOK, EndTypeOK, WgCountsCopier, envVars, ptyVars, childVars, copyVars, closeVars, exitVars
    <2>5. WgCountsCopier'
      BY <1>14 DEF WgCountsCopier, FromPtyEOF, TypeOK, CtlTypeOK, PtyTypeOK, ChildTypeOK, EndTypeOK, envVars, ptyVars, childVars, copyVars, closeVars, exitVars
    <2>6. LockHeldInWgWait'
      BY <1>14 DEF LockHeldInWgWait, FromPtyEOF, TypeOK, CtlTypeOK, PtyTypeOK, ChildTypeOK, EndTypeOK, Actors, Pc, envVars, ptyVars, childVars, copyVars, closeVars, exitVars
    <2>7. ClosedIffComplete'
      BY <1>14 DEF ClosedIffComplete, FromPtyEOF, TypeOK, CtlTypeOK, PtyTypeOK, ChildTypeOK, EndTypeOK, envVars, ptyVars, childVars, copyVars, closeVars, exitVars
    <2>8. CommandFirst'
      BY <1>14 DEF CommandFirst, FromPtyEOF, TypeOK, CtlTypeOK, PtyTypeOK, ChildTypeOK, EndTypeOK, envVars, ptyVars, childVars, copyVars, closeVars, exitVars
    <2>9. NoCopierAfterComplete'
      BY <1>14 DEF NoCopierAfterComplete, FromPtyEOF, TypeOK, CtlTypeOK, PtyTypeOK, ChildTypeOK, EndTypeOK, envVars, ptyVars, childVars, copyVars, closeVars, exitVars
    <2>10. WaiterAfterExit'
      BY <1>14 DEF WaiterAfterExit, FromPtyEOF, TypeOK, CtlTypeOK, PtyTypeOK, ChildTypeOK, EndTypeOK, envVars, ptyVars, childVars, copyVars, closeVars, exitVars
    <2>11. ScpCounted'
      BY <1>14 DEF ScpCounted, FromPtyEOF, TypeOK, CtlTypeOK, PtyTypeOK, ChildTypeOK, EndTypeOK, envVars, ptyVars, childVars, copyVars, closeVars, exitVars
    <2>12. QED
      BY <2>1, <2>2, <2>3, <2>4, <2>5, <2>6, <2>7, <2>8, <2>9, <2>10, <2>11 DEF IInv, TypeOK
  <1>15. ASSUME NEW s \in Sessions, FromPtyCloseWrite(s)
        PROVE  IInv'
    <2>1. CtlTypeOK'
      BY <1>15, ConstAssumption DEF CtlTypeOK, FromPtyCloseWrite, TypeOK, CtlTypeOK, LoopLabels, WaiterLabels, envVars, ptyVars, childVars, copyVars, closeVars, exitVars
    <2>2. PtyTypeOK'
      BY <1>15 DEF PtyTypeOK, FromPtyCloseWrite, TypeOK, PtyTypeOK, envVars, ptyVars, childVars, copyVars, closeVars, exitVars
    <2>3. ChildTypeOK'
      BY <1>15 DEF ChildTypeOK, FromPtyCloseWrite, TypeOK, ChildTypeOK, envVars, ptyVars, childVars, copyVars, closeVars, exitVars
    <2>4. EndTypeOK'
      BY <1>15 DEF EndTypeOK, FromPtyCloseWrite, TypeOK, EndTypeOK, envVars, ptyVars, childVars, copyVars, closeVars, exitVars
    <2>5. WgCountsCopier'
      BY <1>15 DEF WgCountsCopier, FromPtyCloseWrite, TypeOK, CtlTypeOK, PtyTypeOK, ChildTypeOK, EndTypeOK, envVars, ptyVars, childVars, copyVars, closeVars, exitVars
    <2>6. LockHeldInWgWait'
      BY <1>15 DEF LockHeldInWgWait, FromPtyCloseWrite, TypeOK, CtlTypeOK, PtyTypeOK, ChildTypeOK, EndTypeOK, Actors, Pc, envVars, ptyVars, childVars, copyVars, closeVars, exitVars
    <2>7. ClosedIffComplete'
      BY <1>15 DEF ClosedIffComplete, FromPtyCloseWrite, TypeOK, CtlTypeOK, PtyTypeOK, ChildTypeOK, EndTypeOK, envVars, ptyVars, childVars, copyVars, closeVars, exitVars
    <2>8. CommandFirst'
      BY <1>15 DEF CommandFirst, FromPtyCloseWrite, TypeOK, CtlTypeOK, PtyTypeOK, ChildTypeOK, EndTypeOK, envVars, ptyVars, childVars, copyVars, closeVars, exitVars
    <2>9. NoCopierAfterComplete'
      BY <1>15 DEF NoCopierAfterComplete, FromPtyCloseWrite, TypeOK, CtlTypeOK, PtyTypeOK, ChildTypeOK, EndTypeOK, envVars, ptyVars, childVars, copyVars, closeVars, exitVars
    <2>10. WaiterAfterExit'
      BY <1>15 DEF WaiterAfterExit, FromPtyCloseWrite, TypeOK, CtlTypeOK, PtyTypeOK, ChildTypeOK, EndTypeOK, envVars, ptyVars, childVars, copyVars, closeVars, exitVars
    <2>11. ScpCounted'
      BY <1>15 DEF ScpCounted, FromPtyCloseWrite, TypeOK, CtlTypeOK, PtyTypeOK, ChildTypeOK, EndTypeOK, envVars, ptyVars, childVars, copyVars, closeVars, exitVars
    <2>12. QED
      BY <2>1, <2>2, <2>3, <2>4, <2>5, <2>6, <2>7, <2>8, <2>9, <2>10, <2>11 DEF IInv, TypeOK
  <1>16. ASSUME NEW s \in Sessions, InCopierEOF(s)
        PROVE  IInv'
    <2>1. CtlTypeOK'
      BY <1>16, ConstAssumption DEF CtlTypeOK, InCopierEOF, TypeOK, CtlTypeOK, LoopLabels, WaiterLabels, envVars, ptyVars, childVars, copyVars, closeVars, exitVars
    <2>2. PtyTypeOK'
      BY <1>16 DEF PtyTypeOK, InCopierEOF, TypeOK, PtyTypeOK, envVars, ptyVars, childVars, copyVars, closeVars, exitVars
    <2>3. ChildTypeOK'
      BY <1>16 DEF ChildTypeOK, InCopierEOF, TypeOK, ChildTypeOK, envVars, ptyVars, childVars, copyVars, closeVars, exitVars
    <2>4. EndTypeOK'
      BY <1>16 DEF EndTypeOK, InCopierEOF, TypeOK, EndTypeOK, envVars, ptyVars, childVars, copyVars, closeVars, exitVars
    <2>5. WgCountsCopier'
      BY <1>16 DEF WgCountsCopier, InCopierEOF, TypeOK, CtlTypeOK, PtyTypeOK, ChildTypeOK, EndTypeOK, envVars, ptyVars, childVars, copyVars, closeVars, exitVars
    <2>6. LockHeldInWgWait'
      BY <1>16 DEF LockHeldInWgWait, InCopierEOF, TypeOK, CtlTypeOK, PtyTypeOK, ChildTypeOK, EndTypeOK, Actors, Pc, envVars, ptyVars, childVars, copyVars, closeVars, exitVars
    <2>7. ClosedIffComplete'
      BY <1>16 DEF ClosedIffComplete, InCopierEOF, TypeOK, CtlTypeOK, PtyTypeOK, ChildTypeOK, EndTypeOK, envVars, ptyVars, childVars, copyVars, closeVars, exitVars
    <2>8. CommandFirst'
      BY <1>16 DEF CommandFirst, InCopierEOF, TypeOK, CtlTypeOK, PtyTypeOK, ChildTypeOK, EndTypeOK, envVars, ptyVars, childVars, copyVars, closeVars, exitVars
    <2>9. NoCopierAfterComplete'
      BY <1>16 DEF NoCopierAfterComplete, InCopierEOF, TypeOK, CtlTypeOK, PtyTypeOK, ChildTypeOK, EndTypeOK, envVars, ptyVars, childVars, copyVars, closeVars, exitVars
    <2>10. WaiterAfterExit'
      BY <1>16 DEF WaiterAfterExit, InCopierEOF, TypeOK, CtlTypeOK, PtyTypeOK, ChildTypeOK, EndTypeOK, envVars, ptyVars, childVars, copyVars, closeVars, exitVars
    <2>11. ScpCounted'
      BY <1>16 DEF ScpCounted, InCopierEOF, TypeOK, CtlTypeOK, PtyTypeOK, ChildTypeOK, EndTypeOK, envVars, ptyVars, childVars, copyVars, closeVars, exitVars
    <2>12. QED
      BY <2>1, <2>2, <2>3, <2>4, <2>5, <2>6, <2>7, <2>8, <2>9, <2>10, <2>11 DEF IInv, TypeOK
  <1>17. ASSUME NEW s \in Sessions, ChildExit(s)
        PROVE  IInv'
    <2>1. CtlTypeOK'
      BY <1>17, ConstAssumption DEF CtlTypeOK, ChildExit, ChildEnds, TypeOK, CtlTypeOK, LoopLabels, WaiterLabels, envVars, ptyVars, childVars, copyVars, closeVars, exitVars
    <2>2. PtyTypeOK'
      BY <1>17 DEF PtyTypeOK, ChildExit, ChildEnds, TypeOK, PtyTypeOK, envVars, ptyVars, childVars, copyVars, closeVars, exitVars
    <2>3. ChildTypeOK'
      BY <1>17 DEF ChildTypeOK, ChildExit, ChildEnds, TypeOK, ChildTypeOK, envVars, ptyVars, childVars, copyVars, closeVars, exitVars
    <2>4. EndTypeOK'
      BY <1>17 DEF EndTypeOK, ChildExit, ChildEnds, TypeOK, EndTypeOK, envVars, ptyVars, childVars, copyVars, closeVars, exitVars
    <2>5. WgCountsCopier'
      BY <1>17 DEF WgCountsCopier, ChildExit, ChildEnds, TypeOK, CtlTypeOK, PtyTypeOK, ChildTypeOK, EndTypeOK, envVars, ptyVars, childVars, copyVars, closeVars, exitVars
    <2>6. LockHeldInWgWait'
      BY <1>17 DEF LockHeldInWgWait, ChildExit, ChildEnds, TypeOK, CtlTypeOK, PtyTypeOK, ChildTypeOK, EndTypeOK, Actors, Pc, envVars, ptyVars, childVars, copyVars, closeVars, exitVars
    <2>7. ClosedIffComplete'
      BY <1>17 DEF ClosedIffComplete, ChildExit, ChildEnds, TypeOK, CtlTypeOK, PtyTypeOK, ChildTypeOK, EndTypeOK, envVars, ptyVars, childVars, copyVars, closeVars, exitVars
    <2>8. CommandFirst'
      BY <1>17 DEF CommandFirst, ChildExit, ChildEnds, TypeOK, CtlTypeOK, PtyTypeOK, ChildTypeOK, EndTypeOK, envVars, ptyVars, childVars, copyVars, closeVars, exitVars
    <2>9. NoCopierAfterComplete'
      BY <1>17 DEF NoCopierAfterComplete, ChildExit, ChildEnds, TypeOK, CtlTypeOK, PtyTypeOK, ChildTypeOK, EndTypeOK, envVars, ptyVars, childVars, copyVars, closeVars, exitVars
    <2>10. WaiterAfterExit'
      BY <1>17 DEF WaiterAfterExit, ChildExit, ChildEnds, TypeOK, CtlTypeOK, PtyTypeOK, ChildTypeOK, EndTypeOK, envVars, ptyVars, childVars, copyVars, closeVars, exitVars
    <2>11. ScpCounted'
      BY <1>17 DEF ScpCounted, ChildExit, ChildEnds, TypeOK, CtlTypeOK, PtyTypeOK, ChildTypeOK, EndTypeOK, envVars, ptyVars, childVars, copyVars, closeVars, exitVars
    <2>12. QED
      BY <2>1, <2>2, <2>3, <2>4, <2>5, <2>6, <2>7, <2>8, <2>9, <2>10, <2>11 DEF IInv, TypeOK
  <1>18. ASSUME NEW s \in Sessions, ChildHangup(s)
        PROVE  IInv'
    <2>1. CtlTypeOK'
      BY <1>18, ConstAssumption DEF CtlTypeOK, ChildHangup, ChildEnds, InputEnded, TypeOK, CtlTypeOK, LoopLabels, WaiterLabels, envVars, ptyVars, childVars, copyVars, closeVars, exitVars
    <2>2. PtyTypeOK'
      BY <1>18 DEF PtyTypeOK, ChildHangup, ChildEnds, InputEnded, TypeOK, PtyTypeOK, envVars, ptyVars, childVars, copyVars, closeVars, exitVars
    <2>3. ChildTypeOK'
      BY <1>18 DEF ChildTypeOK, ChildHangup, ChildEnds, InputEnded, TypeOK, ChildTypeOK, envVars, ptyVars, childVars, copyVars, closeVars, exitVars
    <2>4. EndTypeOK'
      BY <1>18 DEF EndTypeOK, ChildHangup, ChildEnds, InputEnded, TypeOK, EndTypeOK, envVars, ptyVars, childVars, copyVars, closeVars, exitVars
    <2>5. WgCountsCopier'
      BY <1>18 DEF WgCountsCopier, ChildHangup, ChildEnds, InputEnded, TypeOK, CtlTypeOK, PtyTypeOK, ChildTypeOK, EndTypeOK, envVars, ptyVars, childVars, copyVars, closeVars, exitVars
    <2>6. LockHeldInWgWait'
      BY <1>18 DEF LockHeldInWgWait, ChildHangup, ChildEnds, InputEnded, TypeOK, CtlTypeOK, PtyTypeOK, ChildTypeOK, EndTypeOK, Actors, Pc, envVars, ptyVars, childVars, copyVars, closeVars, exitVars
    <2>7. ClosedIffComplete'
      BY <1>18 DEF ClosedIffComplete, ChildHangup, ChildEnds, InputEnded, TypeOK, CtlTypeOK, PtyTypeOK, ChildTypeOK, EndTypeOK, envVars, ptyVars, childVars, copyVars, closeVars, exitVars
    <2>8. CommandFirst'
      BY <1>18 DEF CommandFirst, ChildHangup, ChildEnds, InputEnded, TypeOK, CtlTypeOK, PtyTypeOK, ChildTypeOK, EndTypeOK, envVars, ptyVars, childVars, copyVars, closeVars, exitVars
    <2>9. NoCopierAfterComplete'
      BY <1>18 DEF NoCopierAfterComplete, ChildHangup, ChildEnds, InputEnded, TypeOK, CtlTypeOK, PtyTypeOK, ChildTypeOK, EndTypeOK, envVars, ptyVars, childVars, copyVars, closeVars, exitVars
    <2>10. WaiterAfterExit'
      BY <1>18 DEF WaiterAfterExit, ChildHangup, ChildEnds, InputEnded, TypeOK, CtlTypeOK, PtyTypeOK, ChildTypeOK, EndTypeOK, envVars, ptyVars, childVars, copyVars, closeVars, exitVars
    <2>11. ScpCounted'
      BY <1>18 DEF ScpCounted, ChildHangup, ChildEnds, InputEnded, TypeOK, CtlTypeOK, PtyTypeOK, ChildTypeOK, EndTypeOK, envVars, ptyVars, childVars, copyVars, closeVars, exitVars
    <2>12. QED
      BY <2>1, <2>2, <2>3, <2>4, <2>5, <2>6, <2>7, <2>8, <2>9, <2>10, <2>11 DEF IInv, TypeOK
  <1>19. ASSUME NEW s \in Sessions, ClientEOF(s)
        PROVE  IInv'
    <2>1. CtlTypeOK'
      BY <1>19, ConstAssumption DEF CtlTypeOK, ClientEOF, TypeOK, CtlTypeOK, LoopLabels, WaiterLabels, envVars, ptyVars, childVars, copyVars, closeVars, exitVars
    <2>2. PtyTypeOK'
      BY <1>19 DEF PtyTypeOK, ClientEOF, TypeOK, PtyTypeOK, envVars, ptyVars, childVars, copyVars, closeVars, exitVars
    <2>3. ChildTypeOK'
      BY <1>19 DEF ChildTypeOK, ClientEOF, TypeOK, ChildTypeOK, envVars, ptyVars, childVars, copyVars, closeVars, exitVars
    <2>4. EndTypeOK'
      BY <1>19 DEF EndTypeOK, ClientEOF, TypeOK, EndTypeOK, envVars, ptyVars, childVars, copyVars, closeVars, exitVars
    <2>5. WgCountsCopier'
      BY <1>19 DEF WgCountsCopier, ClientEOF, TypeOK, CtlTypeOK, PtyTypeOK, ChildTypeOK, EndTypeOK, envVars, ptyVars, childVars, copyVars, closeVars, exitVars
    <2>6. LockHeldInWgWait'
      BY <1>19 DEF LockHeldInWgWait, ClientEOF, TypeOK, CtlTypeOK, PtyTypeOK, ChildTypeOK, EndTypeOK, Actors, Pc, envVars, ptyVars, childVars, copyVars, closeVars, exitVars
    <2>7. ClosedIffComplete'
      BY <1>19 DEF ClosedIffComplete, ClientEOF, TypeOK, CtlTypeOK, PtyTypeOK, ChildTypeOK, EndTypeOK, envVars, ptyVars, childVars, copyVars, closeVars, exitVars
    <2>8. CommandFirst'
      BY <1>19 DEF CommandFirst, ClientEOF, TypeOK, CtlTypeOK, PtyTypeOK, ChildTypeOK, EndTypeOK, envVars, ptyVars, childVars, copyVars, closeVars, exitVars
    <2>9. NoCopierAfterComplete'
      BY <1>19 DEF NoCopierAfterComplete, ClientEOF, TypeOK, CtlTypeOK, PtyTypeOK, ChildTypeOK, EndTypeOK, envVars, ptyVars, childVars, copyVars, closeVars, exitVars
    <2>10. WaiterAfterExit'
      BY <1>19 DEF WaiterAfterExit, ClientEOF, TypeOK, CtlTypeOK, PtyTypeOK, ChildTypeOK, EndTypeOK, envVars, ptyVars, childVars, copyVars, closeVars, exitVars
    <2>11. ScpCounted'
      BY <1>19 DEF ScpCounted, ClientEOF, TypeOK, CtlTypeOK, PtyTypeOK, ChildTypeOK, EndTypeOK, envVars, ptyVars, childVars, copyVars, closeVars, exitVars
    <2>12. QED
      BY <2>1, <2>2, <2>3, <2>4, <2>5, <2>6, <2>7, <2>8, <2>9, <2>10, <2>11 DEF IInv, TypeOK
  <1>20. ASSUME NEW s \in Sessions, ClientClose(s)
        PROVE  IInv'
    <2>1. CtlTypeOK'
      BY <1>20, ConstAssumption DEF CtlTypeOK, ClientClose, TypeOK, CtlTypeOK, LoopLabels, WaiterLabels, envVars, ptyVars, childVars, copyVars, closeVars, exitVars
    <2>2. PtyTypeOK'
      BY <1>20 DEF PtyTypeOK, ClientClose, TypeOK, PtyTypeOK, envVars, ptyVars, childVars, copyVars, closeVars, exitVars
    <2>3. ChildTypeOK'
      BY <1>20 DEF ChildTypeOK, ClientClose, TypeOK, ChildTypeOK, envVars, ptyVars, childVars, copyVars, closeVars, exitVars
    <2>4. EndTypeOK'
      BY <1>20 DEF EndTypeOK, ClientClose, TypeOK, EndTypeOK, envVars, ptyVars, childVars, copyVars, closeVars, exitVars
    <2>5. WgCountsCopier'
      BY <1>20 DEF WgCountsCopier, ClientClose, TypeOK, CtlTypeOK, PtyTypeOK, ChildTypeOK, EndTypeOK, envVars, ptyVars, childVars, copyVars, closeVars, exitVars
    <2>6. LockHeldInWgWait'
      BY <1>20 DEF LockHeldInWgWait, ClientClose, TypeOK, CtlTypeOK, PtyTypeOK, ChildTypeOK, EndTypeOK, Actors, Pc, envVars, ptyVars, childVars, copyVars, closeVars, exitVars
    <2>7. ClosedIffComplete'
      BY <1>20 DEF ClosedIffComplete, ClientClose, TypeOK, CtlTypeOK, PtyTypeOK, ChildTypeOK, EndTypeOK, envVars, ptyVars, childVars, copyVars, closeVars, exitVars
    <2>8. CommandFirst'
      BY <1>20 DEF CommandFirst, ClientClose, TypeOK, CtlTypeOK, PtyTypeOK, ChildTypeOK, EndTypeOK, envVars, ptyVars, childVars, copyVars, closeVars, exitVars
    <2>9. NoCopierAfterComplete'
      BY <1>20 DEF NoCopierAfterComplete, ClientClose, TypeOK, CtlTypeOK, PtyTypeOK, ChildTypeOK, EndTypeOK, envVars, ptyVars, childVars, copyVars, closeVars, exitVars
    <2>10. WaiterAfterExit'
      BY <1>20 DEF WaiterAfterExit, ClientClose, TypeOK, CtlTypeOK, PtyTypeOK, ChildTypeOK, EndTypeOK, envVars, ptyVars, childVars, copyVars, closeVars, exitVars
    <2>11. ScpCounted'
      BY <1>20 DEF ScpCounted, ClientClose, TypeOK, CtlTypeOK, PtyTypeOK, ChildTypeOK, EndTypeOK, envVars, ptyVars, childVars, copyVars, closeVars, exitVars
    <2>12. QED
      BY <2>1, <2>2, <2>3, <2>4, <2>5, <2>6, <2>7, <2>8, <2>9, <2>10, <2>11 DEF IInv, TypeOK
  <1>21. CASE UNCHANGED vars
    BY <1>21 DEF vars, IInv, TypeOK, CtlTypeOK, PtyTypeOK, ChildTypeOK,
                  EndTypeOK, WgCountsCopier, LockHeldInWgWait, ClosedIffComplete,
                  CommandFirst, NoCopierAfterComplete, WaiterAfterExit, ScpCounted, Pc
  <1>22. QED
    BY <1>1, <1>2, <1>3, <1>4, <1>5, <1>6, <1>7, <1>8, <1>9, <1>10, <1>11, <1>12, <1>13, <1>14, <1>15, <1>16, <1>17, <1>18, <1>19, <1>20, <1>21 DEF Next, Alive, Terminated

\* IInv holds in every state of every behaviour of Spec.
THEOREM IInvHolds == Spec => []IInv
  BY InitIInv, NextIInv, PTL DEF Spec

\* Type correctness of the session model: every variable stays in its
\* domain, in particular sess.wg never goes below zero (wg.Done is called
\* once per wg.Add in runWithPty) and sendExitMessage only reports an
\* outcome Wait returned.
THEOREM TypeCorrect == Spec => []TypeOK
  <1>1. IInv => TypeOK
    BY DEF IInv
  <1>2. QED
    BY <1>1, IInvHolds, PTL

\* destroy is idempotent: however the request loop's deferred destroy and
\* the waiter goroutine's destroy interleave, sess.complete makes the
\* second call return, so the channel and the pty master are closed at
\* most once.
THEOREM DestroyIdempotent == Spec => []DestroyOnce
  <1>1. IInv => DestroyOnce
    BY DEF IInv, TypeOK, EndTypeOK, ClosedIffComplete, DestroyOnce
  <1>2. QED
    BY <1>1, IInvHolds, PTL

\* No pty output after close: destroy's wg.Wait waits for the from-pty
\* copier counted by sess.wg before channel.Close, and no command can be
\* launched once the session completed.
THEOREM NoPtyOutputAfterClose == Spec => []NoOutputAfterClose
  <1>1. IInv => NoOutputAfterClose
    BY DEF IInv, TypeOK, EndTypeOK, ClosedIffComplete, NoCopierAfterComplete,
           NoOutputAfterClose
  <1>2. QED
    BY <1>1, IInvHolds, PTL

=============================================================================
