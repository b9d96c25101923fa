# Verification of diego-ssh: session channels, proxy configuration, CLI plugin

This directory holds TLA+ models of the diego-ssh repository (an SSH proxy
that authenticates clients and routes them to containers, and an SSH
daemon that serves `session` channels by running a shell), the TLC
configurations that check them, and TLAPS proofs about them.

## 1. Inventory

The repository under `src/` has three files:

| File | What it is |
|---|---|
| `src/handlers/session_channel_handler.go` | The `session` channel handler of the SSH daemon: request dispatch, command launch with or without a pty, exit reporting, teardown. |
| `src/cmd/ssh-proxy/main.go` | The proxy's `main`: flag parsing, configuration, the list of password authenticators, the SSH server config. |
| `src/unnamed/part_000` | The `PasswordAuthenticator` interface, and the `cf` CLI plugin's `main` (`ssh`, `enable-ssh`, `disable-ssh`, ... commands). |

spec.md also describes parts whose code is not in `src/`: the composite,
shared-secret and CF authenticators, the permissions builder, the proxy
channel broker, the direct-tcpip handler, the I/O couplers and the
listener. Section 6 says what is modelled from the spec and what is not.

### 1.1 Session channel handler (component E of spec.md)

State of one session (`session` struct, lines 114-133): `env` map,
`command` (`*exec.Cmd`), `allocPty`, `ptyRequest`, `ptyMaster`, `complete`,
a `sync.Mutex`, a `sync.WaitGroup`.  The handler (`SessionChannelHandler`)
holds `defaultEnv`, and **every session's `env` is that same map**
(`newSession`, line 141, assigns it, it does not copy it).

Goroutines of one session, all of which this project models:

* the request loop `serviceRequests` (146-174) with its deferred `destroy`;
  it calls the handlers `env`, `signal`, `pty-req`, `window-change`,
  `exec`, `shell` and replies false to anything else;
* `executeShell` (330-367), under the mutex: `createCommand` refuses a
  second command; `runWithPty` / `run` launch it; on a launch error the
  loop itself sends the exit message and calls `destroy`, and then keeps
  serving requests; on success a waiter goroutine runs
  `wait` → `sendExitMessage` → `destroy`;
* with a pty: the from-pty copier (`helpers.Copy` with `&sess.wg`, then
  `channel.CloseWrite`) and the to-pty copier (not in the WaitGroup);
  without: the to-stdin copier (`helpers.CopyAndClose`);
* `destroy` (576-594): takes the mutex, returns if `complete`, otherwise
  **waits on the WaitGroup while holding the mutex**, then closes the
  channel and the pty master.

Hard behaviour: two callers of `destroy` (the loop and the waiter) race;
the launch can fail after the copiers have started; requests keep
arriving after a failed launch and after `destroy`; the client can close
the channel while the child runs; the child can ignore its input; the
env map is shared by sessions that run concurrently under different
mutexes.

What makes it correct (spec.md sections 3, 5, 8): destroy is idempotent;
no output after close; exactly one exit message, sent before the channel
closes; copiers do not outlive the session; environments are not shared;
per-connection errors never end the process; scp `exec` is handled by the
SCP handler only; closing the channel cancels every wait.

### 1.2 Proxy configuration (`configure` in main.go, component H glue)

`configure` (155-210) builds the list of password authenticators from the
flags (`enableDiegoAuth`; `ccAPIURL` non-empty and `enableCFAuth`), the
composite authenticator, and the SSH server config, and calls
`logger.Fatal` for a missing BBS address, an unparsable URL, or a missing
or unparsable host key.  It is sequential and runs once at start-up.

### 1.3 CLI plugin (`SSHPlugin.Run`, part_000)

`Run` (lines 98-175 of part_000) dispatches on the command name.
`disable-ssh` calls `cmd.EnableSSH`, the same function as `enable-ssh`
(spec.md section 9 lists this as an open question).

### 1.4 Parts described by spec.md whose code is not under src/

Composite authenticator (first success wins, last error otherwise,
"no authenticators configured" when empty), the Diego and CF
authenticators, the permissions builder, the proxy channel broker (dial
backend, open the same channel type, pump data and requests both ways,
close both when both directions ended), direct-tcpip and the listener.

## 2. Modules

| Module | Models | Status |
|---|---|---|
| `SessionChannel`, `MC_SessionChannel` | the session handler (1.1) | modelled; refines `SessionLifecycle`; `SessionChannelProofs` proves type correctness, `DestroyOnce`, `NoOutputAfterClose`; `SessionExitProofs` proves `OneExitReport`, `ExitReportFinal` and the refinement |
| `SessionLifecycle` | what a session promises its client (spec 4.E, spec 8 invariants 1 and 2 without the report/close order): the abstract specification | spec-modelled |
| `TermModes`, `MC_TermModes` | `setTerminalAttributes`, the pty-req modelist loop (474-517) | modelled; `TermModesProofs` proves type correctness and that the pairs read are those at offsets 0, 5, 10, ... |
| `ProxyConfig`, `MC_ProxyConfig` | ssh-proxy's `main`, `configure`, `initializeBBSClient`, `parsePrivateKey` | modelled; `ProxyConfigProofs` proves `ServesOnlyConfigured` and `FatalExactlyOnConfigError` |
| `PluginCommands`, `MC_PluginCommands` | the cf CLI plugin's `Run` over the app's `enable_ssh` flag | modelled; `PluginCommandsProofs` proves `RemoteOutcomeSurfaced` and `ShellClosedOnReturn` |

Still open: the race of two sessions writing the shared env map as two
steps (the Go runtime's "concurrent map writes" fatal error).

## 3. The model `SessionChannel`

Constants: `Sessions` (sessions of one handler), `Names` (env names a
client sends), `DefaultEnv`, `Sizes` (column counts, uint32), `ReqKinds`
(the request types a run lets the client send), `MaxReq` (requests per
session).  `ConstAssumption` states what the proofs need.

Abstractions: an env map is the set of names it defines (values are not
distinguished by any property); a window size is its column count; a
message payload is its request type; the replies are not modelled (they
follow from the branch taken); logging is left out.  A payload that fails
to unmarshal takes the early return of its handler, which changes no
state, and is not a separate action.

Each action is one goroutine step.  Handlers that take the session mutex
are atomic and enabled only when `destroy` does not hold it (`lockHolder`),
which is the only place the mutex is held across a blocking call.

| Action | Code |
|---|---|
| `HandleEnv`, `HandleSignal`, `HandlePtyReq`, `HandleWindowChange`, `HandleExec`, `HandleShell`, `HandleOther` | the `switch` of `serviceRequests` and the handlers |
| `ExecuteShell`, `StartCopiers` | `executeShell`, `createCommand`, `environment`, `run`, `runWithPty` |
| `LoopEnd` | end of `for req := range requests`, deferred `destroy` |
| `LoopSendExit` | `sendExitMessage(err)` after a failed launch |
| `WaiterWait`, `WaiterSendExit` | the goroutine of `executeShell`: `wait`, `sendExitMessage` |
| `DestroyLock`, `DestroyFinish` | `destroy`: lock and `complete` check; `wg.Wait`, close channel and master |
| `FromPtyEOF`, `FromPtyCloseWrite` | from-pty `helpers.Copy(..., &sess.wg, ...)`, then `CloseWrite` |
| `InCopierEOF` | to-pty `helpers.Copy` / to-stdin `helpers.CopyAndClose` |
| `ChildExit`, `ChildHangup` | the child process (any command may end; a shell ends when its input ends) |
| `ClientEOF`, `ClientClose` | the SSH client |

`panicked` records a crash of the process (a nil `*os.Process`
signalled); no step follows it.

Fairness (`Fairness`): weak fairness for every step of a server
goroutine (the Go scheduler runs runnable goroutines), for a shell whose
input ended (it exits on EOF or hang-up), and for the client answering
the server's channel close (SSH requires the peer to answer `close`).
Requests and a command ending by itself get no fairness: a client may
stay idle, a command may run for ever.

## 4. Runs

The runs of this section use `MC_SessionChannel` (one session `s1`, or `s1` and `s2`),
`Sizes = {80, 65616}` (65616 truncates to 80 in `uint16`), names
`LANG` and `HOME`.

| Run | Expect | Checks | Shows |
|---|---|---|---|
| `session_safety` | pass | `TypeOK`, `DestroyOnce`, `NoOutputAfterClose`, `OneExitReport`, `ExitReportFinal`, `LifecycleRefines` | with every request type, 3 requests: destroy closes once though two goroutines call it; the WaitGroup keeps pty output off a closed channel; one exit report that matches how the child ended, whether the launch failed or not, and nothing (a second exec, a second sendExitMessage) changes it afterwards; the session implements `SessionLifecycle` |
| `session_liveness` | pass | `SessionCompletes` | without a pty, a closed channel always leads to a completed session, even when the command runs for ever |
| `pty_close_hang` | violation | `SessionCompletes` | with a pty, the client closes, `destroy` holds the mutex in `wg.Wait` for the from-pty copier, which waits for the shell, which waits for input that never ends: the session never completes |
| `exit_before_close` | violation | `ExitBeforeClose` | the deferred `destroy` closes the channel while the child runs; the exit message comes after (spec 8.2 says before) |
| `copiers_outlive` | violation | `CopiersJoined` | after a failed `Start`, `destroy` completes while the to-stdin copier still reads the channel (spec 3: copiers do not outlive the session) |
| `env_shared` | violation | `EnvIsolation` | two sessions: an `env` request of one shows up in the other's child environment (the `defaultEnv` map is shared) |
| `signal_panic` | violation | `NoPanic` | `Start` fails, then a `signal` request calls `Process.Signal` on a nil process: the panic ends the daemon |
| `window_pty_req` | violation | `WindowApplied` | one session, `Sizes = {80, 120}`: pty-req 80, shell, pty-req 120 leaves the live pty at 80 while the stored request says 120; `handlePtyRequest` (253) only stores the size (spec 4.E: applied to the live pty) |

Bounds: `MaxReq = 3` in the safety run lets a session receive a pty-req,
an exec and a second exec or signal, or an exec that fails and a request
after `destroy`; with the launch outcome, the child's outcome, the client's
EOF/close and the interleavings of the five goroutines, this reaches
43,878 states.  Each property above needs at most two requests to be
violated by a mutant (see `mutants` in PROJECT.json).  Two sessions are
used only where the property relates sessions.

## 4a. The model `TermModes`

`setTerminalAttributes` reads a `bytes.Reader` over the modelist: a uint8
opcode, then (unless it is 0 or >= 160) a big-endian uint32 value; it
calls `TcGetAttr` and `TermAttrSetters[opcode].Set`, and a failure of
either only skips the pair.  Constants: `Inputs` (the modelists a client
may send) and `KnownOpcodes` (the opcodes `TermAttrSetters` has, a table
defined outside `src/`).  Variables: the reader's position `pos`, the
loop's `pc`, the current `opcode` and `value`, and the pairs `tried`
(read in full) and `applied` (`Set` succeeded).  A value is kept as its
four base-256 digits (`BigEndian32`), since a uint32 overflows TLC.

| Action | Code |
|---|---|
| `ReadOpcode` | 478-489: read the opcode; EOF, 0 or >= 160 ends the loop |
| `ReadValue` | 490-495: read the value; a short read consumes what is left and ends the loop |
| `ApplyMode` | 496-516: `TcGetAttr` may fail; an opcode without a setter panics (nil interface); `Set` may fail |

`SpecPairs` is the reference parser of spec 4.A and invariant 6, written
as a recursive function (not a RECURSIVE operator, so the module stays
provable).  `ModesReadAtOffsets` says the same without recursion: the
j-th pair read is `PairAt(input, 5 * (j - 1))`, every such offset starts a
pair (`PairStartsAt`: a byte left, an opcode in 1..159, four bytes after
it), and a finished loop stopped where no pair starts.  Runs
(`MC_TermModes`: every modelist of up to 9 bytes over `{0, 1, 7, 160}`,
and every modelist of two full pairs (opcode 1 or 7, value bytes 0 or
160) followed by up to two bytes of that alphabet; 1.9 million states; 1
is in the table, 7 is not, as the real table covers only some of
1..159):

| Run | Expect | Checks | Shows |
|---|---|---|---|
| `modes_parse` | pass | `TypeOK`, `ModesReadAsSpecified`, `ModesReadAtOffsets` | the reader never passes the end; when the loop ends normally it has read exactly the reference parser's pairs, including stops at 0, at 160 and inside a value; and the closed form agrees, so on these inputs it is equivalent to the recursive reference |
| `modes_unknown_opcode` | violation | `ModesNoPanic` | `<<7, 0, 0, 0, 1>>`: opcode 7 has no setter and `Set` is called on nil (spec: unknown opcodes are skipped) |

Nine bytes hold a full pair followed by a second one cut in its value,
or a pair and a terminator, so every way the loop stops is reached after
one pair was applied.  The two-pair modelists carry the loop to its
second and third offsets, where an error in the offset arithmetic would
show: their value bytes are 0 and 160, so an opcode read one byte off
ends the loop early, and their tails stop the third read at EOF, at 0,
at 160 or inside a value.

## 4b. The model `ProxyConfig`

`ProxyConfig` follows `main` through `configure`.  A flag is abstracted
to what `configure` tells apart (`Flags`): `bbsAddress` empty, an http or
https URL, or unparsable; `ccAPIURL` empty, parsable or not; the two auth
toggles; the host key empty, valid or invalid; whether the BBS
certificates load.  `Init` chooses any of the 288 flag records.

| Action | Code |
|---|---|
| `CheckBBSAddress` | 155-166 |
| `CheckCCAPIURL` | 168-171 |
| `InitBBSClient` | 173, 233-248: plain client for http, mutual TLS for https |
| `BuildAuthenticators` | 173-195: Diego if enabled, CF if a CC URL is set and enabled, composite as `PasswordCallback` |
| `CheckHostKey` | 197-219, with `parsePrivateKey` |
| `StartServer`, `Stop` | 112-146: the server group runs; `monitor.Wait` ends with exit 0 or 1 |
| `Fatal` | `logger.Fatal`: lager logs and panics; nothing recovers, so the process ends with status 2 |

The authenticators and the composite that tries them are not under
`src/`, and nothing in `main.go` decides what they answer, so the model
stops at the list `configure` installs.  `ConfigAccepted(f)` is the
conjunction of the checks `configure` and `initializeBBSClient` make.
`FatalExactlyOnConfigError` relates it to how the process ends: an
invalid flag ends it through `logger.Fatal`, and a valid one never does.
This is spec 6: a configuration error is fatal before the accept loop,
and fatal exits are kept for configuration errors.  Its mutant loads
the BBS certificates before it looks at the scheme, so an http address
with unusable certificate flags is refused.

| Run | Expect | Checks | Shows |
|---|---|---|---|
| `proxy_startup` | pass | `ServesOnlyConfigured`, `FatalExactlyOnConfigError` | all 288 flag records: ssh-proxy serves only with a checked address, the matching BBS client, a parsable CC URL and the host key; it exits through `logger.Fatal` (status 2) exactly when a flag is invalid, and otherwise only through `monitor.Wait` (0 or 1) |

The flag records are every combination of the values `configure` tells
apart, so every check fails alone and with every other; no bound is
involved.

## 4c. The model `PluginCommands`

`Run` dispatches on `args[0]`.  The app's `enable_ssh` flag persists
across invocations; `cmd.EnableSSH` and `cmd.SSHEnabled` (not under
`src/`) set or read it and may fail.  The `ssh` path connects
(`SSHConnect`, after which `Close` is deferred), forwards ports
(`SSHForward`: an error returns silently), and runs the session
(`SSHSession`): nil returns, an `*ssh.ExitError` calls `os.Exit` with the
remote status (deferred `Close` skipped), another error calls `Fail`.

| Run | Expect | Checks | Shows |
|---|---|---|---|
| `plugin_ssh` | pass | `RemoteOutcomeSurfaced`, `ShellClosedOnReturn` | four invocations of any command: the remote end is surfaced as exit status, FAILED or nothing; whenever `Run` returns after connecting, the shell is closed |

## 4d. Observations without a run

Seen while modelling, plain from the code, and modelled but not asserted
by a run (spec.md raises the first two as open questions):

* `handleExecRequest` (319) hands an scp command to the SCP handler and
  then runs it in the shell too (`HandleExec`: `scpCalls`, `childKind`).
* `disable-ssh` (part_000, 110) calls `cmd.EnableSSH` (`RunDisableSSH`).
* `GetMetadata` advertises `allow-space-ssh`, `disallow-space-ssh` and
  `space-ssh-allowed`, which `Run` answers with "Invalid command"
  (`RunDefault`).
* `logger.Fatal` panics, so a configuration error ends ssh-proxy with
  status 2, while spec 6 gives 1; `main`'s `os.Exit(1)` after `configure`
  is unreachable (`Fatal`).

## 5. Proofs

`SessionChannelProofs` proves, for all constants satisfying
`ConstAssumption`:

* `TypeCorrect`: `Spec => []TypeOK`;
* `DestroyIdempotent`: `Spec => []DestroyOnce`;
* `NoPtyOutputAfterClose`: `Spec => []NoOutputAfterClose`.

All three follow from the inductive invariant `IInv` (checked by TLC on
the `session_safety` instance before it was proved). `TypeOK` alone is not
inductive: `FromPtyEOF` decrements `wg`, which stays a natural number only
because `wg` counts exactly the running from-pty copier
(`WgCountsCopier`), and `WaiterSendExit` reads `ExitReport[outcome]`,
defined only because the waiter reports after the child exited
(`WaiterAfterExit`).  `DestroyOnce` needs that only the actor in `wg.Wait`
holds the mutex and only before completion (`LockHeldInWgWait`), so that
`closes` equals 1 exactly when `complete` (`ClosedIffComplete`).
`NoOutputAfterClose` needs `NoCopierAfterComplete` (a completed session
has no running from-pty copier): `DestroyFinish` keeps it because it runs
only when `wg` is 0, and a launch after completion would break it, which
`CommandFirst` excludes: a session completed without a command was
completed by the loop's deferred destroy, and that loop has returned.

`TermModesProofs` proves `ModesTypeCorrect`: `Spec => []TypeOK` for every
modelist and setter table (`ModesAssumption`); `TypeOK` is inductive as it
stands, the step of `ReadValue` resting on lemma `BigEndianType`.
It also proves `ModesReadCorrect`: `Spec => []ModesReadAtOffsets`, spec
invariant 6 in closed form, for every modelist and setter table.  The
property is not inductive alone: that `ReadValue` appends the pair at
offset `5 * Len(tried)`, and that a stop means no pair starts there, hold
only because the reader is aligned, which `ReaderAligned` adds: at
`5 * Len(tried)` before an opcode and while a pair is applied, one byte
further, past an opcode in 1..159, before a value.  The inductive
invariant `ModesIInv` (`TypeOK /\ ModesReadAtOffsets /\ ReaderAligned`)
was checked by TLC on the `modes_parse` instance first; lemma
`AppendPairAt` carries the offsets across `Append` (from the library's
`AppendProperties`).

`ProxyConfigProofs` proves, for every command line:

* `ProxyIInvHolds`: `Spec => []ProxyIInv`;
* `ServesConfigured`: `Spec => []ServesOnlyConfigured`;
* `ConfigErrorsFatal`: `Spec => []FatalExactlyOnConfigError`.

Neither property is inductive alone.  The invariant `ProxyIInv` adds
`StageFacts`: what `configure` has established at each value of `pc`,
and that the exit status is 0 until main exits.  For example, past
`bbsAddress` the address is http or https.  Past `bbsClient`, an https
address has certificates that load.  So each `Fatal` step is on a flag
that `ConfigAccepted` rejects (lemma `FatalStep`), and `Stop` runs only
with accepted flags.  TLC checked `ProxyIInv` on the `proxy_startup`
instance before it was proved.

The window width is taken modulo `Uint16Bound`, kept opaque in the proofs
(lemma `Uint16Type`).

`SessionExitProofs` (extending `SessionChannelProofs`) proves, for all
constants satisfying `ConstAssumption`:

* `ExitInvHolds`: `Spec => []ExitInv`;
* `ExitReportedOnceForAll`: `Spec => []OneExitReport`;
* `ExitReportIsFinal`: `Spec => ExitReportFinal`, an action property;
* `LifecycleRefinement`: `Spec => LifecycleRefines`, i.e. the session
  handler implements `SessionLifecycle` under the mapping command `child`,
  end `outcome`, report `ReportSent` (the kind of the message once one
  was sent), close count `closes`.

`OneExitReport` is not inductive: nothing in it keeps the request loop
and the waiter from both reaching `sendExitMessage`.  `ExitAccounted`
says who owns the report: a failed launch starts no waiter and only the
loop reports it; a started child has a waiter, the loop never reaches its
failure path, and the waiter waits while the child runs; and `exitSent`
is 1 exactly when the owner has passed `sendExitMessage`
(`ExitReported`).  `ExitInv == IInv /\ ExitAccounted /\ OneExitReport`
was checked by TLC on the `session_safety` instance before it was proved.
The step proof works session by session: lemma `ExitFrame` says a
session's facts survive a step that leaves its command, actors and exit
message alone (`OtherSessions` applies it to every session but the
acting one), and `LoopMoves` and `WaiterMoves` cover an actor moving
between labels that do not pass `sendExitMessage`.  `ExitReportFinal`
follows from `ExitInv`: once reported, neither actor is at
`sendExitMessage`, `createCommand` refuses a second command, and the child
no longer runs.  The refinement maps the first `executeShell` to
`Launch`, `ChildEnds` to `End`, either `sendExitMessage` to `Report`
(`ExitInv` says it is the first report and what it says), and the closing
half of `destroy` to `Close` (`LockHeldInWgWait` and `ClosedIffComplete`
say the mutex holder finds the channel not yet closed); every other step
is a stutter.

`PluginCommandsProofs` proves, for every `MaxRuns` and set of statuses
(`PluginAssumption`), `PluginIInvHolds`, `OutcomeSurfaced`
(`Spec => []RemoteOutcomeSurfaced`) and `ShellClosed`
(`Spec => []ShellClosedOnReturn`).  Neither property is inductive alone:
`SSHSession` records the outcome, and it is the plugin's answer only if
nothing was recorded while the session was in flight, and the shell was
open and the command ssh (`SessionInFlight`); and `Begin` leaves an
exited process only because `pc = "exited"` holds exactly when the remote
returned an `*ssh.ExitError` (`ExitedOnExitError`).  `PluginIInv` was
checked by TLC on the `plugin_ssh` instance first.

Only TLC checks: the liveness property `SessionCompletes` (TLAPS does not
reason about fairness and ENABLED), the violation runs, and
`ModesReadAsSpecified`.  The reference parser `SpecPairs` is the
recursive function `pairsFrom`; even the single unfolding a step proof
would need (`pairsFrom[i] = <<pair>> \o pairsFrom[i + 5]`) rests on the
library's recursive-function theorems, which take an operator parameter
that the installed provers cannot instantiate, and the invariant itself
needs induction over the modelist.  What is proved instead is its closed
form `ModesReadAtOffsets`; that the two agree is checked by TLC on every
input of `modes_parse`, not proved.

## 6. Not modelled

* Logging (lager), metrics (dropsonde), the debug server, flag parsing
  and the HTTP client construction: no state that any property reads.
* The SSH transport and the `x/crypto/ssh` library: assumed; a channel
  is its open/EOF/closed state.
* `ShellLocator.ShellPath`: a search of `$PATH`; the shell path is not
  distinguished by any property.
* The permissions builder, proxy broker, direct-tcpip handler and
  listener: their code is not in `src/` and their behaviour is I/O
  forwarding and registry lookups.
* The authenticators and the composite authenticator (spec 4.C): not
  under `src/`.  Only `configure`'s choice of members is modelled
  (`BuildAuthenticators`).  A model of their answers would be written
  from the spec alone, and a refinement of it would check nothing that
  `main.go` does.
* `NewHttpClient`, `initializeDropsonde`, the debug-server member of the
  group: no state a property reads.
* `TermAttrSetters` and the termios setters themselves (outside `src/`):
  a setter table is the constant `KnownOpcodes`, a setter's effect the
  pair appended to `applied`.
