--------------------------- MODULE SessionChannel ---------------------------
(***************************************************************************)
(* The `session` channel handler of handlers/session_channel_handler.go.   *)
(*                                                                         *)
(* Each session is served by several goroutines that this module models as *)
(* separate actors:                                                        *)
(*   - the request loop (serviceRequests and the handlers it calls, with   *)
(*     its deferred destroy);                                              *)
(*   - the waiter goroutine started by executeShell (wait, then            *)
(*     sendExitMessage, then destroy);                                     *)
(*   - the from-pty copier (helpers.Copy into the channel, counted in the  *)
(*     session's WaitGroup, followed by channel.CloseWrite);               *)
(*   - the input copier: to-pty (helpers.Copy into the pty master) or      *)
(*     to-stdin (helpers.CopyAndClose into the child's stdin pipe);        *)
(*   - the child process and the SSH client.                               *)
(* Every handler that takes the session mutex is one atomic step, guarded  *)
(* by the mutex being free; only destroy blocks while holding it (in       *)
(* wg.Wait), so the mutex is modelled by who holds it during destroy.      *)
(*                                                                         *)
(* The env map of every session is the handler's defaultEnv map itself     *)
(* (newSession assigns the map, it does not copy it), so `env` is one      *)
(* variable shared by all sessions.  Environment values are abstracted     *)
(* away: a map is the set of names it defines.                             *)
(***************************************************************************)
EXTENDS Naturals, FiniteSets

CONSTANTS
    Sessions,     \* session channels of one handler
    Names,        \* variable names a client may send in `env` requests
    DefaultEnv,   \* names of the handler's defaultEnv map
    Sizes,        \* terminal column counts (uint32) sent by the client
    ReqKinds,     \* request types the client sends in this model
    MaxReq        \* bound on the requests one session receives

AllReqKinds == {"env", "signal", "pty-req", "window-change", "exec-scp",
                "exec-cmd", "shell", "other"}

ASSUME ConstAssumption ==
    /\ Sessions # {}
    /\ DefaultEnv \subseteq Names \cup {"TERM"}
    /\ Sizes \subseteq Nat /\ Sizes # {}
    /\ ReqKinds \subseteq AllReqKinds
    /\ MaxReq \in Nat

\* win.Winsize holds uint16 fields: setWindowSize converts with uint16().
Uint16Bound == 65536
Uint16(n) == n % Uint16Bound

VARIABLES
    env,          \* the shared map handler.defaultEnv = sess.env (names)
    setBy,        \* history: names each session wrote into env
    stream,       \* client side: "open", "eof" (CloseWrite), "closed"
    nreq,         \* requests received by each session
    loopPc,       \* request loop goroutine
    loopRet,      \* where the loop continues after its destroy call
    waiterPc,     \* goroutine started by executeShell
    lockHolder,   \* who holds sess.Mutex during destroy
    allocPty,     \* sess.allocPty
    ptySize,      \* sess.ptyRequest.Columns
    master,       \* sess.ptyMaster: "none", "open", "closed"
    masterSize,   \* window width last applied to the pty master
    child,        \* sess.command: "none", "failed" (Start failed), "running", "exited"
    childKind,    \* "shell", "cmd" or "scp" (exec of an scp command line)
    childEnv,     \* client-set names in cmd.Env built by environment()
    outcome,      \* how the child ended: "none", "exited", "signaled", "waitError"
    sigSent,      \* a signal was delivered to the running child
    scpCalls,     \* calls of scpHandler.HandleSCPRequest
    wg,           \* sess.wg counter
    fromPty,      \* "none", "copying", "closewrite", "done"
    inCopier,     \* to-pty or to-stdin copier: "none", "copying", "done"
    complete,     \* sess.complete
    closes,       \* calls of sess.channel.Close
    masterCloses, \* calls of sess.ptyMaster.Close
    exitSent,     \* exit-status / exit-signal messages sent
    exitKind,     \* the last exit message: "none", "status", "status255", "signal"
    exitLate,     \* an exit message was sent on an already closed channel
    lateCloseWrite, \* channel.CloseWrite was called after channel.Close
    panicked      \* the process crashed (nil *os.Process signalled)

vars == <<env, setBy, stream, nreq, loopPc, loopRet, waiterPc, lockHolder,
          allocPty, ptySize, master, masterSize, child, childKind, childEnv,
          outcome, sigSent, scpCalls, wg, fromPty, inCopier, complete, closes,
          masterCloses, exitSent, exitKind, exitLate, lateCloseWrite, panicked>>

LoopLabels == {"serve", "sendExit", "destroy", "wgwait", "finished"}
WaiterLabels == {"none", "wait", "sendExit", "destroy", "wgwait", "done"}

\* Where an actor of session s is, and how it moves: the request loop and
\* the waiter goroutine both call destroy.
Pc(a, s) == IF a = "loop" THEN loopPc[s] ELSE waiterPc[s]
SetPc(a, s, l) ==
    IF a = "loop"
    THEN loopPc' = [loopPc EXCEPT ![s] = l] /\ UNCHANGED waiterPc
    ELSE waiterPc' = [waiterPc EXCEPT ![s] = l] /\ UNCHANGED loopPc
Return(a, s) == IF a = "loop" THEN loopRet[s] ELSE "done"

\* sendExitMessage: the message chosen for the error returned by Wait.
ExitReport == [exited |-> "status", signaled |-> "signal", waitError |-> "status255"]

envVars == <<env, setBy>>
ptyVars == <<allocPty, ptySize, master, masterSize>>
childVars == <<child, childKind, childEnv, outcome, sigSent>>
copyVars == <<wg, fromPty, inCopier>>
closeVars == <<complete, closes, masterCloses, lateCloseWrite>>
exitVars == <<exitSent, exitKind, exitLate>>

\* The request loop, the waiter and the client.
CtlTypeOK ==
    /\ env \subseteq Names \cup {"TERM"}
    /\ setBy \in [Sessions -> SUBSET (Names \cup {"TERM"})]
    /\ stream \in [Sessions -> {"open", "eof", "closed"}]
    /\ nreq \in [Sessions -> 0..MaxReq]
    /\ loopPc \in [Sessions -> LoopLabels]
    /\ loopRet \in [Sessions -> {"serve", "finished"}]
    /\ waiterPc \in [Sessions -> WaiterLabels]
    /\ lockHolder \in [Sessions -> {"none", "loop", "waiter"}]

\* The pty request and the pty master.
PtyTypeOK ==
    /\ allocPty \in [Sessions -> BOOLEAN]
    /\ ptySize \in [Sessions -> Sizes \cup {0}]
    /\ master \in [Sessions -> {"none", "open", "closed"}]
    /\ masterSize \in [Sessions -> 0..(Uint16Bound - 1)]

\* The command and its process.
ChildTypeOK ==
    /\ child \in [Sessions -> {"none", "failed", "running", "exited"}]
    /\ childKind \in [Sessions -> {"none", "shell", "cmd", "scp"}]
    /\ childEnv \in [Sessions -> SUBSET (Names \cup {"TERM"})]
    /\ outcome \in [Sessions -> {"none", "exited", "signaled", "waitError"}]
    /\ sigSent \in [Sessions -> BOOLEAN]
    /\ scpCalls \in [Sessions -> 0..MaxReq]
    /\ panicked \in BOOLEAN

\* Copiers, destroy and the exit message.
EndTypeOK ==
    /\ wg \in [Sessions -> Nat]
    /\ fromPty \in [Sessions -> {"none", "copying", "closewrite", "done"}]
    /\ inCopier \in [Sessions -> {"none", "copying", "done"}]
    /\ complete \in [Sessions -> BOOLEAN]
    /\ closes \in [Sessions -> Nat]
    /\ masterCloses \in [Sessions -> Nat]
    /\ exitSent \in [Sessions -> Nat]
    /\ exitKind \in [Sessions -> {"none", "status", "status255", "signal"}]
    /\ exitLate \in [Sessions -> BOOLEAN]
    /\ lateCloseWrite \in [Sessions -> BOOLEAN]

TypeOK == CtlTypeOK /\ PtyTypeOK /\ ChildTypeOK /\ EndTypeOK

\* HandleNewChannel accepted the channel; newSession built the session.
Init ==
    /\ env = DefaultEnv
    /\ setBy = [s \in Sessions |-> {}]
    /\ stream = [s \in Sessions |-> "open"]
    /\ nreq = [s \in Sessions |-> 0]
    /\ loopPc = [s \in Sessions |-> "serve"]
    /\ loopRet = [s \in Sessions |-> "finished"]
    /\ waiterPc = [s \in Sessions |-> "none"]
    /\ lockHolder = [s \in Sessions |-> "none"]
    /\ allocPty = [s \in Sessions |-> FALSE]
    /\ ptySize = [s \in Sessions |-> 0]
    /\ master = [s \in Sessions |-> "none"]
    /\ masterSize = [s \in Sessions |-> 0]
    /\ child = [s \in Sessions |-> "none"]
    /\ childKind = [s \in Sessions |-> "none"]
    /\ childEnv = [s \in Sessions |-> {}]
    /\ outcome = [s \in Sessions |-> "none"]
    /\ sigSent = [s \in Sessions |-> FALSE]
    /\ scpCalls = [s \in Sessions |-> 0]
    /\ wg = [s \in Sessions |-> 0]
    /\ fromPty = [s \in Sessions |-> "none"]
    /\ inCopier = [s \in Sessions |-> "none"]
    /\ complete = [s \in Sessions |-> FALSE]
    /\ closes = [s \in Sessions |-> 0]
    /\ masterCloses = [s \in Sessions |-> 0]
    /\ exitSent = [s \in Sessions |-> 0]
    /\ exitKind = [s \in Sessions |-> "none"]
    /\ exitLate = [s \in Sessions |-> FALSE]
    /\ lateCloseWrite = [s \in Sessions |-> FALSE]
    /\ panicked = FALSE
-----------------------------------------------------------------------------
(***************************************************************************)
(* The request loop: serviceRequests takes the next request of the         *)
(* channel's request stream and dispatches on its type.  Every handler     *)
(* but the default branch takes sess.Mutex, so it waits while destroy      *)
(* holds it.                                                               *)
(***************************************************************************)
Receive(s, k) ==
    /\ loopPc[s] = "serve"
    /\ stream[s] # "closed"
    /\ nreq[s] < MaxReq
    /\ k \in ReqKinds
    /\ k # "other" => lockHolder[s] = "none"
    /\ nreq' = [nreq EXCEPT ![s] = @ + 1]

\* handleEnvironmentRequest: sess.env[Name] = Value, in the shared map.
HandleEnv(s, n) ==
    /\ Receive(s, "env")
    /\ env' = env \cup {n}
    /\ setBy' = [setBy EXCEPT ![s] = @ \cup {n}]
    /\ UNCHANGED <<stream, loopPc, loopRet, waiterPc, lockHolder, ptyVars,
                   childVars, scpCalls, copyVars, closeVars, exitVars, panicked>>

\* handleSignalRequest: runner.Signal(sess.command, ...) when a command was
\* created.  When Start failed, cmd.Process is nil and Process.Signal
\* dereferences it: the panic ends the whole process.  Signalling an exited
\* child returns an error that is only logged.
HandleSignal(s) ==
    /\ Receive(s, "signal")
    /\ sigSent' = [sigSent EXCEPT ![s] = @ \/ child[s] = "running"]
    /\ panicked' = (panicked \/ child[s] = "failed")
    /\ UNCHANGED <<envVars, stream, loopPc, loopRet, waiterPc, lockHolder,
                   ptyVars, child, childKind, childEnv, outcome, scpCalls,
                   copyVars, closeVars, exitVars>>

\* handlePtyRequest: store the request, allocPty = true, env["TERM"] = Term.
\* A pty-req after the command started changes nothing on the live pty.
HandlePtyReq(s, sz) ==
    /\ Receive(s, "pty-req")
    /\ allocPty' = [allocPty EXCEPT ![s] = TRUE]
    /\ ptySize' = [ptySize EXCEPT ![s] = sz]
    /\ env' = env \cup {"TERM"}
    /\ setBy' = [setBy EXCEPT ![s] = @ \cup {"TERM"}]
    /\ UNCHANGED <<stream, loopPc, loopRet, waiterPc, lockHolder, master,
                   masterSize, childVars, scpCalls, copyVars, closeVars,
                   exitVars, panicked>>

\* handleWindowChangeRequest: update the stored size when a pty was
\* requested; apply it to the master (truncated to uint16) once one exists.
HandleWindowChange(s, sz) ==
    /\ Receive(s, "window-change")
    /\ ptySize' = [ptySize EXCEPT ![s] = IF allocPty[s] THEN sz ELSE @]
    /\ masterSize' = [masterSize EXCEPT ![s] =
                        IF master[s] # "none" THEN Uint16(ptySize'[s]) ELSE @]
    /\ UNCHANGED <<envVars, stream, loopPc, loopRet, waiterPc, lockHolder,
                   allocPty, master, childVars, scpCalls, copyVars, closeVars,
                   exitVars, panicked>>

\* The default branch: reply false.
HandleOther(s) ==
    /\ Receive(s, "other")
    /\ UNCHANGED <<envVars, stream, loopPc, loopRet, waiterPc, lockHolder,
                   ptyVars, childVars, scpCalls, copyVars, closeVars,
                   exitVars, panicked>>

(***************************************************************************)
(* executeShell, under sess.Mutex: createCommand refuses a second command  *)
(* ("command already started", reply false).  Otherwise cmd.Env is built   *)
(* from the shared map by environment() (client HOME and USER dropped),    *)
(* sess.command is set, and the command is launched: runWithPty when a pty *)
(* was requested, run otherwise.  A launch can fail before any copier      *)
(* exists (pty.Open or StdinPipe failing) or at runner.Start, after the    *)
(* copiers were started.  On failure the loop itself goes on to            *)
(* sendExitMessage and destroy; on success a waiter goroutine is started.  *)
(***************************************************************************)
StartCopiers(s) ==
    IF allocPty[s]
    THEN /\ master' = [master EXCEPT ![s] = "open"]
         /\ masterSize' = [masterSize EXCEPT ![s] = Uint16(ptySize[s])]
         /\ wg' = [wg EXCEPT ![s] = @ + 1]
         /\ fromPty' = [fromPty EXCEPT ![s] = "copying"]
         /\ inCopier' = [inCopier EXCEPT ![s] = "copying"]
    ELSE /\ inCopier' = [inCopier EXCEPT ![s] = "copying"]
         /\ UNCHANGED <<master, masterSize, wg, fromPty>>

\* Mutant: createCommand without its "command already started" check.
ExecuteShellNoStartedCheck(s, k) ==
    /\ lockHolder[s] = "none"
    /\ childKind' = [childKind EXCEPT ![s] = k]
    /\ childEnv' = [childEnv EXCEPT ![s] = env \ {"HOME", "USER"}]
    /\ UNCHANGED <<outcome, sigSent>>
    /\ \/ /\ child' = [child EXCEPT ![s] = "failed"]
          /\ loopPc' = [loopPc EXCEPT ![s] = "sendExit"]
          /\ UNCHANGED <<loopRet, waiterPc, master, masterSize, copyVars>>
       \/ /\ StartCopiers(s)
          /\ \E started \in BOOLEAN :
               /\ child' = [child EXCEPT ![s] =
                              IF started THEN "running" ELSE "failed"]
               /\ loopPc' = [loopPc EXCEPT ![s] =
                              IF started THEN "serve" ELSE "sendExit"]
               /\ waiterPc' = [waiterPc EXCEPT ![s] =
                              IF started THEN "wait" ELSE @]
          /\ UNCHANGED loopRet
    /\ UNCHANGED <<envVars, stream, lockHolder, allocPty, ptySize, closeVars,
                   exitVars, panicked>>

ExecuteShell(s, k) ==
    /\ lockHolder[s] = "none"
    /\ IF child[s] # "none"
       THEN UNCHANGED <<loopPc, loopRet, waiterPc, master, masterSize,
                        childVars, copyVars>>
       ELSE /\ childKind' = [childKind EXCEPT ![s] = k]
            /\ childEnv' = [childEnv EXCEPT ![s] = env \ {"HOME", "USER"}]
            /\ UNCHANGED <<outcome, sigSent>>
            /\ \/ /\ child' = [child EXCEPT ![s] = "failed"]
                  /\ loopPc' = [loopPc EXCEPT ![s] = "sendExit"]
                  /\ UNCHANGED <<loopRet, waiterPc, master, masterSize, copyVars>>
               \/ /\ StartCopiers(s)
                  /\ \E started \in BOOLEAN :
                       /\ child' = [child EXCEPT ![s] =
                                      IF started THEN "running" ELSE "failed"]
                       /\ loopPc' = [loopPc EXCEPT ![s] =
                                      IF started THEN "serve" ELSE "sendExit"]
                       /\ waiterPc' = [waiterPc EXCEPT ![s] =
                                      IF started THEN "wait" ELSE @]
                  /\ UNCHANGED loopRet
    /\ UNCHANGED <<envVars, stream, lockHolder, allocPty, ptySize, closeVars,
                   exitVars, panicked>>

\* handleExecRequest: an scp command line goes to the SCP handler, and then
\* to executeShell as well (there is no return after the SCP call).
HandleExec(s, k) ==
    /\ Receive(s, IF k = "scp" THEN "exec-scp" ELSE "exec-cmd")
    /\ scpCalls' = [scpCalls EXCEPT ![s] = IF k = "scp" THEN @ + 1 ELSE @]
    /\ ExecuteShell(s, k)

\* handleShellRequest
HandleShell(s) ==
    /\ Receive(s, "shell")
    /\ ExecuteShell(s, "shell")
    /\ UNCHANGED scpCalls

\* Mutant: serviceRequests without its deferred destroy.
LoopEndNoDestroy(s) ==
    /\ loopPc[s] = "serve"
    /\ stream[s] = "closed"
    /\ loopPc' = [loopPc EXCEPT ![s] = "finished"]
    /\ UNCHANGED <<envVars, stream, nreq, loopRet, waiterPc, lockHolder, ptyVars,
                   childVars, scpCalls, copyVars, closeVars, exitVars, panicked>>

\* The request stream ends (the channel is closed): the deferred destroy.
LoopEnd(s) ==
    /\ loopPc[s] = "serve"
    /\ stream[s] = "closed"
    /\ loopPc' = [loopPc EXCEPT ![s] = "destroy"]
    /\ loopRet' = [loopRet EXCEPT ![s] = "finished"]
    /\ UNCHANGED <<envVars, stream, nreq, waiterPc, lockHolder, ptyVars,
                   childVars, scpCalls, copyVars, closeVars, exitVars, panicked>>

\* sendExitMessage(err) in executeShell after a failed launch: the error is
\* not an *exec.ExitError, so the status is 255.  destroy follows, and then
\* the loop goes on serving requests.
LoopSendExit(s) ==
    /\ loopPc[s] = "sendExit"
    /\ exitSent' = [exitSent EXCEPT ![s] = @ + 1]
    /\ exitKind' = [exitKind EXCEPT ![s] = "status255"]
    /\ exitLate' = [exitLate EXCEPT ![s] = @ \/ closes[s] > 0]
    /\ loopPc' = [loopPc EXCEPT ![s] = "destroy"]
    /\ loopRet' = [loopRet EXCEPT ![s] = "serve"]
    /\ UNCHANGED <<envVars, stream, nreq, waiterPc, lockHolder, ptyVars,
                   childVars, scpCalls, copyVars, closeVars, panicked>>

\* The waiter goroutine: sess.wait(cmd) returns once the child has exited.
WaiterWait(s) ==
    /\ waiterPc[s] = "wait"
    /\ child[s] = "exited"
    /\ waiterPc' = [waiterPc EXCEPT ![s] = "sendExit"]
    /\ UNCHANGED <<envVars, stream, nreq, loopPc, loopRet, lockHolder, ptyVars,
                   childVars, scpCalls, copyVars, closeVars, exitVars, panicked>>

\* Mutant: sendExitMessage without its Signaled() branch.
WaiterSendExitStatusOnly(s) ==
    /\ waiterPc[s] = "sendExit"
    /\ exitSent' = [exitSent EXCEPT ![s] = @ + 1]
    /\ exitKind' = [exitKind EXCEPT ![s] =
                      IF outcome[s] = "waitError" THEN "status255" ELSE "status"]
    /\ exitLate' = [exitLate EXCEPT ![s] = @ \/ closes[s] > 0]
    /\ waiterPc' = [waiterPc EXCEPT ![s] = "destroy"]
    /\ UNCHANGED <<envVars, stream, nreq, loopPc, loopRet, lockHolder, ptyVars,
                   childVars, scpCalls, copyVars, closeVars, panicked>>

\* sendExitMessage(err) with the error Wait returned.
WaiterSendExit(s) ==
    /\ waiterPc[s] = "sendExit"
    /\ exitSent' = [exitSent EXCEPT ![s] = @ + 1]
    /\ exitKind' = [exitKind EXCEPT ![s] = ExitReport[outcome[s]]]
    /\ exitLate' = [exitLate EXCEPT ![s] = @ \/ closes[s] > 0]
    /\ waiterPc' = [waiterPc EXCEPT ![s] = "destroy"]
    /\ UNCHANGED <<envVars, stream, nreq, loopPc, loopRet, lockHolder, ptyVars,
                   childVars, scpCalls, copyVars, closeVars, panicked>>

(***************************************************************************)
(* destroy, called by actor a: take sess.Mutex; return at once when        *)
(* complete; otherwise wg.Wait() with the mutex held, then complete = true,*)
(* close the channel and, when one was opened, the pty master.             *)
(***************************************************************************)
\* Mutant: destroy without the `if sess.complete { return }` check.
DestroyLockNoCompleteCheck(s, a) ==
    /\ Pc(a, s) = "destroy"
    /\ lockHolder[s] = "none"
    /\ SetPc(a, s, "wgwait") /\ lockHolder' = [lockHolder EXCEPT ![s] = a]
    /\ UNCHANGED <<envVars, stream, nreq, loopRet, ptyVars, childVars,
                   scpCalls, copyVars, closeVars, exitVars, panicked>>

DestroyLock(s, a) ==
    /\ Pc(a, s) = "destroy"
    /\ lockHolder[s] = "none"
    /\ IF complete[s]
       THEN SetPc(a, s, Return(a, s)) /\ UNCHANGED lockHolder
       ELSE SetPc(a, s, "wgwait") /\ lockHolder' = [lockHolder EXCEPT ![s] = a]
    /\ UNCHANGED <<envVars, stream, nreq, loopRet, ptyVars, childVars,
                   scpCalls, copyVars, closeVars, exitVars, panicked>>

\* Mutant: destroy without sess.wg.Wait().
DestroyFinishNoWgWait(s, a) ==
    /\ Pc(a, s) = "wgwait"
    /\ complete' = [complete EXCEPT ![s] = TRUE]
    /\ closes' = [closes EXCEPT ![s] = @ + 1]
    /\ masterCloses' = [masterCloses EXCEPT ![s] =
                          IF master[s] # "none" THEN @ + 1 ELSE @]
    /\ master' = [master EXCEPT ![s] = IF @ = "open" THEN "closed" ELSE @]
    /\ lockHolder' = [lockHolder EXCEPT ![s] = "none"]
    /\ SetPc(a, s, Return(a, s))
    /\ UNCHANGED <<envVars, stream, nreq, loopRet, allocPty, ptySize,
                   masterSize, childVars, scpCalls, copyVars, lateCloseWrite,
                   exitVars, panicked>>

DestroyFinish(s, a) ==
    /\ Pc(a, s) = "wgwait"
    /\ wg[s] = 0
    /\ complete' = [complete EXCEPT ![s] = TRUE]
    /\ closes' = [closes EXCEPT ![s] = @ + 1]
    /\ masterCloses' = [masterCloses EXCEPT ![s] =
                          IF master[s] # "none" THEN @ + 1 ELSE @]
    /\ master' = [master EXCEPT ![s] = IF @ = "open" THEN "closed" ELSE @]
    /\ lockHolder' = [lockHolder EXCEPT ![s] = "none"]
    /\ SetPc(a, s, Return(a, s))
    /\ UNCHANGED <<envVars, stream, nreq, loopRet, allocPty, ptySize,
                   masterSize, childVars, scpCalls, copyVars, lateCloseWrite,
                   exitVars, panicked>>
-----------------------------------------------------------------------------
(***************************************************************************)
(* Copier goroutines (helpers.Copy / helpers.CopyAndClose).                *)
(***************************************************************************)
\* Mutant: the from-pty copier calls wg.Done twice.
FromPtyEOFTwice(s) ==
    /\ fromPty[s] \in {"copying", "closewrite"}
    /\ child[s] \in {"failed", "exited"} \/ master[s] = "closed"
    /\ wg' = [wg EXCEPT ![s] = @ - 1]
    /\ fromPty' = [fromPty EXCEPT ![s] = "closewrite"]
    /\ UNCHANGED <<envVars, stream, nreq, loopPc, loopRet, waiterPc, lockHolder,
                   ptyVars, childVars, scpCalls, inCopier, closeVars,
                   exitVars, panicked>>

\* from-pty: reading the master fails once no process holds the slave (the
\* child ended or never started; runWithPty closed its own slave handle) or
\* once the master is closed.  Copy then calls wg.Done.
FromPtyEOF(s) ==
    /\ fromPty[s] = "copying"
    /\ child[s] \in {"failed", "exited"} \/ master[s] = "closed"
    /\ wg' = [wg EXCEPT ![s] = @ - 1]
    /\ fromPty' = [fromPty EXCEPT ![s] = "closewrite"]
    /\ UNCHANGED <<envVars, stream, nreq, loopPc, loopRet, waiterPc, lockHolder,
                   ptyVars, childVars, scpCalls, inCopier, closeVars,
                   exitVars, panicked>>

\* ... and after Copy returned, sess.channel.CloseWrite().
FromPtyCloseWrite(s) ==
    /\ fromPty[s] = "closewrite"
    /\ fromPty' = [fromPty EXCEPT ![s] = "done"]
    /\ lateCloseWrite' = [lateCloseWrite EXCEPT ![s] = @ \/ closes[s] > 0]
    /\ UNCHANGED <<envVars, stream, nreq, loopPc, loopRet, waiterPc, lockHolder,
                   ptyVars, childVars, scpCalls, wg, inCopier, complete, closes,
                   masterCloses, exitVars, panicked>>

\* to-pty / to-stdin: reading the channel returns EOF once the client sent
\* EOF or closed it.  CopyAndClose then closes the child's stdin pipe.
InCopierEOF(s) ==
    /\ inCopier[s] = "copying"
    /\ stream[s] # "open"
    /\ inCopier' = [inCopier EXCEPT ![s] = "done"]
    /\ UNCHANGED <<envVars, stream, nreq, loopPc, loopRet, waiterPc, lockHolder,
                   ptyVars, childVars, scpCalls, wg, fromPty, closeVars,
                   exitVars, panicked>>

(***************************************************************************)
(* The child process.  Any command may end at any time (ChildExit, not     *)
(* fair: a command may also run for ever).  A shell ends when its input    *)
(* ends: its stdin pipe was closed (no pty) or the pty master was closed   *)
(* (hang-up) (ChildHangup, fair).                                          *)
(***************************************************************************)
ChildEnds(s, o) ==
    /\ child' = [child EXCEPT ![s] = "exited"]
    /\ outcome' = [outcome EXCEPT ![s] = o]
    /\ UNCHANGED <<envVars, stream, nreq, loopPc, loopRet, waiterPc, lockHolder,
                   ptyVars, childKind, childEnv, sigSent, scpCalls, copyVars,
                   closeVars, exitVars, panicked>>

InputEnded(s) ==
    \/ master[s] = "none" /\ inCopier[s] = "done"
    \/ master[s] = "closed"

ChildExit(s) ==
    /\ child[s] = "running"
    /\ \E o \in {"exited", "signaled", "waitError"} : ChildEnds(s, o)

ChildHangup(s) ==
    /\ child[s] = "running"
    /\ childKind[s] = "shell"
    /\ InputEnded(s)
    /\ \E o \in {"exited", "signaled"} : ChildEnds(s, o)

(***************************************************************************)
(* The SSH client: it may send EOF and close the channel at any time.      *)
(***************************************************************************)
ClientEOF(s) ==
    /\ stream[s] = "open"
    /\ stream' = [stream EXCEPT ![s] = "eof"]
    /\ UNCHANGED <<envVars, nreq, loopPc, loopRet, waiterPc, lockHolder, ptyVars,
                   childVars, scpCalls, copyVars, closeVars, exitVars, panicked>>

ClientClose(s) ==
    /\ stream[s] # "closed"
    /\ stream' = [stream EXCEPT ![s] = "closed"]
    /\ UNCHANGED <<envVars, nreq, loopPc, loopRet, waiterPc, lockHolder, ptyVars,
                   childVars, scpCalls, copyVars, closeVars, exitVars, panicked>>

\* Every goroutine of every session has finished, or the process crashed.
Finished ==
    \/ panicked
    \/ \A s \in Sessions :
         /\ loopPc[s] = "finished"
         /\ waiterPc[s] \in {"none", "done"}
         /\ fromPty[s] \in {"none", "done"}
         /\ inCopier[s] \in {"none", "done"}
         /\ child[s] # "running"

Terminated == Finished /\ UNCHANGED vars

\* A panic in any goroutine ends the process: nothing runs after it.
Alive == ~panicked

Next ==
    \/ \E s \in Sessions, n \in Names : Alive /\ HandleEnv(s, n)
    \/ \E s \in Sessions : Alive /\ HandleSignal(s)
    \/ \E s \in Sessions, sz \in Sizes : Alive /\ HandlePtyReq(s, sz)
    \/ \E s \in Sessions, sz \in Sizes : Alive /\ HandleWindowChange(s, sz)
    \/ \E s \in Sessions, k \in {"scp", "cmd"} : Alive /\ HandleExec(s, k)
    \/ \E s \in Sessions : Alive /\ HandleShell(s)
    \/ \E s \in Sessions : Alive /\ HandleOther(s)
    \/ \E s \in Sessions : Alive /\ LoopEnd(s)
    \/ \E s \in Sessions : Alive /\ LoopSendExit(s)
    \/ \E s \in Sessions : Alive /\ WaiterWait(s)
    \/ \E s \in Sessions : Alive /\ WaiterSendExit(s)
    \/ \E s \in Sessions, a \in {"loop", "waiter"} : Alive /\ DestroyLock(s, a)
    \/ \E s \in Sessions, a \in {"loop", "waiter"} : Alive /\ DestroyFinish(s, a)
    \/ \E s \in Sessions : Alive /\ FromPtyEOF(s)
    \/ \E s \in Sessions : Alive /\ FromPtyCloseWrite(s)
    \/ \E s \in Sessions : Alive /\ InCopierEOF(s)
    \/ \E s \in Sessions : Alive /\ ChildExit(s)
    \/ \E s \in Sessions : Alive /\ ChildHangup(s)
    \/ \E s \in Sessions : Alive /\ ClientEOF(s)
    \/ \E s \in Sessions : Alive /\ ClientClose(s)
    \/ Terminated

(***************************************************************************)
(* Fairness.  Goroutines of the server are scheduled: every internal step  *)
(* that stays enabled happens.  Requests come from the client and get no   *)
(* fairness.  A shell whose input ended does exit.  A client answers the   *)
(* server's channel close with its own (the SSH connection protocol),      *)
(* which is what ends the request stream.                                  *)
(***************************************************************************)
Fairness ==
    \A s \in Sessions :
        /\ WF_vars(LoopEnd(s)) /\ WF_vars(LoopSendExit(s))
        /\ WF_vars(WaiterWait(s)) /\ WF_vars(WaiterSendExit(s))
        /\ \A a \in {"loop", "waiter"} :
             WF_vars(DestroyLock(s, a)) /\ WF_vars(DestroyFinish(s, a))
        /\ WF_vars(FromPtyEOF(s)) /\ WF_vars(FromPtyCloseWrite(s))
        /\ WF_vars(InCopierEOF(s))
        /\ WF_vars(ChildHangup(s))
        /\ WF_vars(closes[s] > 0 /\ ClientClose(s))

Spec == Init /\ [][Next]_vars /\ Fairness
-----------------------------------------------------------------------------
(***************************************************************************)
(* Properties.                                                             *)
(***************************************************************************)

\* destroy is idempotent although the request loop (at the end of the
\* stream, or after a failed launch) and the waiter goroutine both call it,
\* concurrently: the channel and the pty master are each closed at most once
\* (spec 8, invariant 1).
DestroyOnce ==
    \A s \in Sessions : closes[s] <= 1 /\ masterCloses[s] <= 1

\* No pty output can be written to a channel that destroy has closed:
\* destroy waits on sess.wg, which counts the from-pty copier, before it
\* closes the channel.
NoOutputAfterClose ==
    \A s \in Sessions : closes[s] > 0 => fromPty[s] # "copying"

\* At most one exit-status or exit-signal message per session, whether the
\* launch failed (reported by executeShell) or the child ran (reported by
\* the waiter), and it reports how the child ended: status 255 for a failed
\* launch or a Wait error, exit-signal for a child killed by a signal.
ExitReportedOnce(s) ==
    /\ exitSent[s] <= 1
    /\ exitSent[s] = 1 =>
         exitKind[s] = IF child[s] = "failed" THEN "status255"
                       ELSE ExitReport[outcome[s]]

OneExitReport == \A s \in Sessions : ExitReportedOnce(s)

\* A session's exit message is its last word: once the loop or the waiter
\* has sent it, no later step of any actor sends another or changes the
\* command and the outcome it reported (createCommand refuses a second
\* command, and Wait returns once).
ExitReportFinal ==
    [][\A s \in Sessions :
         exitSent[s] = 1 =>
            /\ exitSent'[s] = 1 /\ exitKind'[s] = exitKind[s]
            /\ child'[s] = child[s] /\ outcome'[s] = outcome[s]]_vars

\* The session as its client sees it (SessionLifecycle): the command, its
\* end, the exit message sent (the one sendExitMessage call that counts),
\* and the channel's closes.
ReportSent == [s \in Sessions |-> IF exitSent[s] = 1 THEN exitKind[s] ELSE "none"]

Life == INSTANCE SessionLifecycle
          WITH command <- child, ended <- outcome, report <- ReportSent,
               closeCount <- closes

\* The goroutines of a session implement its lifecycle: executeShell
\* launches at most one command, Wait ends it once, the loop or the waiter
\* sends the one exit message that matches the end, and destroy closes the
\* channel once, however the loop's and the waiter's calls interleave.
LifecycleRefines == Life!LifeSpec

\* Spec 8, invariant 2: a session that started a child sends its exit
\* message before the channel is closed.
ExitBeforeClose ==
    \A s \in Sessions :
        (closes[s] > 0 /\ child[s] # "none") => exitSent[s] = 1

\* Spec 3 and 5: copiers do not outlive their session; when destroy has
\* completed, no copier of the session still uses the channel.
CopiersJoined ==
    \A s \in Sessions :
        complete[s] => /\ fromPty[s] \in {"none", "done"}
                       /\ inCopier[s] \in {"none", "done"}

\* Spec 5: the session state is the only mutable object and the env map is
\* not aliased: a child's environment holds only the handler's defaults and
\* the variables its own session set.
EnvIsolation ==
    \A s \in Sessions :
        child[s] # "none" => childEnv[s] \subseteq DefaultEnv \cup setBy[s]

\* Spec 7: per-connection errors never terminate the process; a `signal`
\* request is answered whatever state the command is in.
NoPanic == ~panicked

\* Spec 4.E: a pty-req on a running session applies the new window size to
\* the live pty; whatever the request order, the master's size is the stored
\* ptyRequest width as the kernel's uint16 winsize field holds it.
WindowApplied ==
    \A s \in Sessions :
        master[s] = "open" => masterSize[s] = Uint16(ptySize[s])

\* Once the client has closed the channel, destroy completes: the session's
\* resources are released whatever its child does (spec 5: suspension
\* points are cancellable by closing the channel).
SessionCompletes ==
    \A s \in Sessions : stream[s] = "closed" ~> complete[s]
-----------------------------------------------------------------------------
(***************************************************************************)
(* The inductive invariant behind TypeOK, DestroyOnce and                  *)
(* NoOutputAfterClose (SessionChannelProofs proves it).                    *)
(***************************************************************************)
Actors == {"loop", "waiter"}

\* sess.wg counts exactly the running from-pty copier.
WgCountsCopier ==
    \A s \in Sessions : wg[s] = IF fromPty[s] = "copying" THEN 1 ELSE 0

\* Only the actor blocked in wg.Wait holds the mutex, and only before the
\* session completed.
LockHeldInWgWait ==
    \A s \in Sessions :
        /\ \A a \in Actors : Pc(a, s) = "wgwait" <=> lockHolder[s] = a
        /\ lockHolder[s] # "none" => ~complete[s]

\* The channel was closed once exactly when the session completed; the
\* master only by that same call.
ClosedIffComplete ==
    \A s \in Sessions :
        /\ closes[s] = IF complete[s] THEN 1 ELSE 0
        /\ masterCloses[s] <= closes[s]

\* A command exists before anything that needs one: the copiers, the
\* waiter, the failure path of the loop; a session completed without one
\* was completed by the loop's deferred destroy, which has returned.
CommandFirst ==
    \A s \in Sessions :
        /\ child[s] = "none" => /\ fromPty[s] = "none"
                                /\ waiterPc[s] = "none"
                                /\ loopPc[s] # "sendExit"
                                /\ loopPc[s] \in {"destroy", "wgwait"}
                                     => loopRet[s] = "finished"
        /\ complete[s] /\ child[s] = "none" => loopPc[s] = "finished"

\* A completed session has no from-pty copier left: destroy waited for it,
\* and no command can be launched afterwards.
NoCopierAfterComplete ==
    \A s \in Sessions : complete[s] => fromPty[s] # "copying"

\* The waiter reports only a child that has exited, whose outcome is known.
WaiterAfterExit ==
    \A s \in Sessions :
        /\ waiterPc[s] \in {"sendExit", "destroy", "wgwait", "done"}
             => child[s] = "exited"
        /\ child[s] = "exited" <=> outcome[s] # "none"

\* Every exec of an scp command line was a request.
ScpCounted == \A s \in Sessions : scpCalls[s] <= nreq[s]

IInv ==
    /\ TypeOK
    /\ WgCountsCopier
    /\ LockHeldInWgWait
    /\ ClosedIffComplete
    /\ CommandFirst
    /\ NoCopierAfterComplete
    /\ WaiterAfterExit
    /\ ScpCounted

(***************************************************************************)
(* The strengthening behind OneExitReport.  Exactly one actor may report   *)
(* a session's exit: the loop after a failed launch, the waiter after a    *)
(* started child exited.                                                   *)
(***************************************************************************)
\* The exit message has been sent exactly when the actor that owns the
\* report has passed its sendExitMessage call.
ExitReported(s) ==
    \/ child[s] = "failed" /\ loopPc[s] # "sendExit"
    \/ child[s] = "exited" /\ waiterPc[s] \notin {"wait", "sendExit"}

\* A failed launch starts no waiter; a started child has a waiter and the
\* loop does not report it; the waiter waits while the child runs.
ExitAccountedAt(s) ==
    /\ exitSent[s] = IF ExitReported(s) THEN 1 ELSE 0
    /\ child[s] = "failed" => waiterPc[s] = "none"
    /\ child[s] \in {"running", "exited"} =>
         loopPc[s] # "sendExit" /\ waiterPc[s] # "none"
    /\ child[s] = "running" => waiterPc[s] = "wait"

ExitAccounted == \A s \in Sessions : ExitAccountedAt(s)

ExitInv == IInv /\ ExitAccounted /\ OneExitReport
====
