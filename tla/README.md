# Verification of the OOB console hub

The hub (`oob-hub`) is an SSH server in front of one modem. A user logs in with a
password, picks a site from a menu, the hub dials the site, and the user talks to its
serial console until one side hangs up. `oob-manage` edits the user accounts of the
same directory from the command line.

This directory holds TLA+ models of that code, TLC runs over small instances of them
and theorems checked by TLAPS. File and line numbers are those of the sources; the
map from definitions to lines is in `PROJECT.json`.

```
tlc -workers 2 -config MCConsole_safety.cfg MCConsole     # any run
tlapm ConsoleProofs.tla                                   # any proof module
```

## 1. Inventory

| Component | Source | State | Operations |
|---|---|---|---|
| Device lock | `internal/modem/pool.go` | `activeSite` under a mutex, `""` when idle | `Acquire`, `Release`, `ActiveSite`, `IsAvailable` |
| Root TUI model | `internal/tui/model.go`, `messages.go` | `state`, the sub-models, `activeSite`, `activeModem` | `Update` in each of four states, `returnToMenu` |
| Site menu, status polls | `internal/tui/menu.go`, `sip.go` | the list with its connected marker, the last status | select, quit, tick, status |
| Dialing | `internal/tui/dialing.go` | `done`, `err`, transcript; the goroutine of `acquireAndDial` | acquire, open, init, configure, dial, retry, give up |
| Terminal session | `internal/tui/terminal.go` | line buffer, `prevWasEnter`, `carrierLost`, `gotData`, three goroutines | `Run`, `userToModem`, the reader, the wake-up ticker, `cleanup` |
| Modem AT driver | `internal/modem/modem.go` | the open device, its transcript | `Open`, `Init`, `Configure`, `Dial`, `Hangup`, `Close`, `drain`, `readUntil` |
| User store | `internal/auth/store.go` | `users.json`, `.tmp`, `.lock`, an RWMutex per process | `NewFileStore`, `Authenticate`, `MustChangePassword`, `List`, `Add`, `Remove`, `Lock`, `Unlock`, `Reset`, `SetPassword`, `UpdateLastLogin` |
| Passwords | `internal/auth/password.go` | none | hash, compare, generate |
| Login, password change | `internal/sshserver/server.go`, `internal/tui/password.go` | per connection: authenticated, form contents | `passwordAuth`, `teaHandler`, `submit` |
| Legacy migration | `internal/auth/migrate.go` | `users.conf` and its `.migrated` names | `MigrateFromLegacy` |
| Site configuration | `internal/config` | none | `ParseSites`, `LoadFromEnv` |
| Session log | `internal/session/logger.go` | the open log | `NewLogger`, tee, `Close` |
| Server process | `cmd/oob-hub` | none of its own | start, signal, shutdown |
| Account command | `cmd/oob-manage` | none | one store call per run |
| Modem probe | `cmd/oob-probe` | none | opens the device and tries commands |
| Scripts, telephony | `scripts`, `config`, `systemd` | external programs | start-up, health check |

**How they interact.** `passwordAuth` and `teaHandler` call the user store, then start
one Bubble Tea program per SSH session. Inside a program everything is a message to
`Model.Update`: the menu sends a `DialRequestMsg`, the goroutine of `acquireAndDial` a
`DialResultMsg` or an `ErrorMsg`, and a connected dial hands its open modem to a
`TerminalSession`, which blocks the event loop until it returns (`tea.Exec`) and then
produces a `TerminalDoneMsg`. The programs share the `DeviceLock` and the user store in
memory; `oob-manage` shares `users.json` through the file system and `oob-probe` the
device, without the lock.

**What is hard.** The claim of the device is taken by one goroutine, carried through a
message, and given back by another, with six early returns on the way, while the user
may leave the screen, quit, or lose the connection. Messages carry no identity, so a
late one is taken for the answer to whatever is on the screen. The account file is
rewritten as a whole by several processes that may fail or die between any two file
operations. A terminal is three goroutines and a clean-up that hangs up by silence,
against a goroutine that writes every two seconds. The modem answers when it likes, and
nothing matches its answers to commands. A login is three calls of a store that others
change meanwhile. The line editor keeps state across keys. `PROJECT.json` lists these as
hazards, each at its line.

**What makes each part correct.**

- *Device lock, dialing, terminal:* the device has one user at any time; every way out
  of a dial or terminal closes and releases exactly once; the modem a user gets is that
  of the site on the screen; no dial spins for ever.
- *User store:* the calls behave as if made one after the other on one map; the file is
  never half written, whatever fails; no call hangs on a lock.
- *Line editor:* what is on the screen is what is sent; the escape disconnects.
- *Login:* only an account that is neither locked nor removed gets in, and one with a
  temporary password gets no further than the form.
- *Migration:* each account is migrated once.
- *AT driver:* the answer a command gets is its own; `Hangup` reaches command mode.
- *Menu:* the status shown is that of the trunk; polls go on while the menu is shown and
  do not pile up.

## 2. Plan

| Step | Modules | Depends on | State |
|---|---|---|---|
| 1 | `DeviceClaim` (abstract), `Console`, `ConsoleProofs` | – | done |
| 2 | `LineBuffer`, `LineBufferProofs` | – | done |
| 3 | `UserStore` (abstract), `FileStore`, `FileStoreProofs`, `FileStoreRefinement` | – | done |
| 4 | `Terminal`, `TerminalProofs` | `Console` for its place | done |
| 5 | `Hub`: start, migration, login, password form, `oob-manage`; `HubProofs` | composes `UserStore` | done |
| 6 | `ModemAT`: both users of the AT driver; `ModemATProofs` | `Console` for its place | done |
| 7 | `Menu`: the status polls; `MenuProofs` | `Console` for its place | done |
| 8 | The line editor's screen, the variants of a dial, consequences of `DeviceClaim` and `UserStore`; in the proof modules above | 1–7 | done |

Abstract specifications: `DeviceClaim` (what a device lock promises to the code that
uses the device) and `UserStore` (what the store promises to its callers); `FileStore`
implements the latter and `Hub` is built on it. Runs stay below about a million states
and two minutes. Every invariant and action property of a passing run is a theorem
(section 6), and so are both refinements.

## 3. Modules

### `Console` – a session from menu to hang-up

State: `lockSite` is `DeviceLock.activeSite`; `open` the set of dials that hold an open
device file; per dial its phase `pc`, `owner`, `site`, `attempt` and `result`; per
session the program (`prog`, `conn`, `quit`) and the fields of the root model (`state`,
`activeSite`, `activeModem`, `done`). A *dial* is one `DialRequestMsg` and all that
comes of it. Its phase is where its control is:

| Phases | Code |
|---|---|
| `requested`, `posted`, `exec`, `returned` | a message in flight: `DialRequestMsg`; `DialResultMsg` or `ErrorMsg`; the message of `tea.Exec`; `TerminalDoneMsg` |
| `acquire` … `release` | the goroutine of `acquireAndDial` (dialing.go:135-209), one phase per call |
| `terminal`, `cleanup`, `unlock` | `TerminalSession.Run` and its deferred `cleanup` |
| `unused`, `over` | before and after |

Each call of the goroutine is a step, because other goroutines run between any two.
Handlers of `Model.Update` are one step each, as the event loop runs them one at a
time. Commands of Bubble Tea run in goroutines of their own, so messages are unordered;
those of an ended program are never received. A lost SSH connection becomes a `QuitMsg`,
which a program blocked in `tea.Exec` does not see; what such a terminal sees is the end
of stdin (`StdinEOF`).

Abstracted: texts, spinner, transcript, the phone number, delays, the AT commands (each
call succeeds or fails; `ModemAT` opens them up), bytes and goroutines in the terminal
(`LineBuffer`, `Terminal`).

`Impatient` is the set of sessions whose users press ctrl+c in a running dial. It splits
the users into those who get what the screen promises and those who may not, so that
the first promise can be checked in the presence of the second kind.

`DeviceClaim` is the promise of the lock: a user claims the device, opens and closes
it any number of times while the claim stands, and yields it closed; at most one claim
at a time. `Console` implements it with `holders <- Holders`, the dials between acquire
and release.

### `LineBuffer` – `userToModem`

One step per byte read; control bytes take their branch, Backspace drops a *byte* of
`lineBuf` and erases a *column* of `screen`. `Bytes` says what each key sends. `screen`
is what the user sees, `sent` and `shown` the last line sent and what was shown for it.

### `FileStore` and `UserStore`

Paths lead to inodes (`file`, `tmp`), inodes have contents, and a writer keeps its inode
open when somebody renames it. `content` is a map of accounts or `Partial`, a file that
does not parse. A process is down until `NewFileStore` runs and may die at any step. A
call is in a phase between two file operations, each of which may fail; `WriteError`
leads through the deferred unlocks. The mutex is of one process, the file lock of all.
A reading call is one step: it opens the file once under the read lock, and no writer of
its process runs meanwhile; another process replaces the file by a rename, which
leaves the reader the old contents. `List` reads the same way and changes nothing, so it
has no action.

`UserStore` is one map on which every call takes effect once, or not at all and then
answers with an error. A caller that dies gets no answer. `users <- Users_`, the parsed
contents of `users.json`. A password that bcrypt refuses (`TooLong`) is an error of `Add`
and is dropped by `SetPassword` and `Reset`, which answer "ok" (store.go:157-177).

### `Terminal` – the goroutines of `Run`

`reader`, `user` and `waker` are the three goroutines of `Run`, `main` is `Run` and its
deferred `cleanup`, one phase per call; `done` is the channel, with its capacity. The
goroutine of `userToModem` of a terminal that ended cannot be stopped while it waits in
`Read`: it becomes a `leftover` and takes keys until the first Enter, which it writes to
a closed modem.

The reader reads through `io.TeeReader` (logger.go:50): what it gets, and what sets
`gotData`, is what the log took (`LogTakes`), and the error of the log is taken for one of
the modem. A log that failed may have taken a part, a closed one takes nothing. `spoke`,
`logRefused` and `woken` are history: whether data had been read when the hang-up began,
whether the log refused some, and whether the waker wrote while `Hangup` was under way.

Time is in ticks, for the sake of `Hangup`: the modem (`line`, `quiet`) takes a `+++` for
an escape after `Guard` ticks of silence and if as many follow, `Hangup` sleeps `Pause`
ticks before and after, and the waker writes every `WakePeriod`. Sleeps may last longer
than asked, and a goroutine that can write does so before time passes. Which of several
enabled goroutines goes first is open.

### `Hub` – start, migration, login, password form

Composes `UserStore` by `INSTANCE`: a call is asked (`Ask`), takes effect once
(`StoreAnswers`), and its caller goes on later (`Hear`). The callers are the migration,
one operator with `oob-manage`, and for each session its login and each submit of its
form, as `submit` runs in a goroutine on a copy of the form. `hub` is how far `main` of
`oob-hub` is; `Exit` is every end of the process, after which the answers to its calls
are lost and the effects may have happened. `screen` is how far a login is, then
`Model.state`. `Message` delivers the answer to a submit to whatever screen is shown.

`typed`, `past`, `had`, `untold` and `crashed` are history. `past[s].excuse` records why
an account may need another password change although its user has the menu; the
properties name each such reason.

### `ModemAT` – the AT driver and its two programs

`Script` is the driver as a sequence of steps (drain, write, read), put together from
`Init`, `Configure`, `Dial` and `Hangup`; `pc` is the step a program is at. `oob-hub`
(`acquireAndDial`) retries and hangs up, `oob-probe` does neither after a failed dial.
Programs follow one another on the same modem, and any may die at any step.

`toModem` is what was written and not yet processed, `toHost` what was answered and not
yet read. `drain` empties `toHost`; `readUntil` takes what is there once a match is in it,
or gives up; what comes after that is left for the next read. The modem aborts a dial at
any character, may or may not take `+++` for an escape, and answers every command by OK or
ERROR. Its calls are numbered by the ATDT that made them. Result words of two words are
written with an underscore.

### `Menu` – the status polls

A chain is a tick that is due and a check that runs or whose message is on its way. The
menu's `Init` starts one; `sipTickMsg`, if the menu is shown, sets the next tick and
starts the next check; on another screen the message is dropped and the chain ends. A
check reads the trunk at one moment between its start and its result. Opening the menu
builds a new one, whose status is unknown. A chain has room for one check; that a tick never
finds the last one under way is a theorem (`ChecksDoNotOverlap`).

## 4. Runs

| Run | Question | Bounds |
|---|---|---|
| `console_safety` | Is the device exclusive, is the lock accounted for on every exit, does a failed dial leave nothing, does a patient user get the right modem and leak none, and does it all implement `DeviceClaim`? | 2 sessions, one impatient; 2 dials; 2 sites, one with init commands; results CONNECT, BUSY, NO CARRIER; 3 attempts |
| `console_liveness` | Does a device stay held only by a terminal or a leak, does every dialing screen resolve, does every lost connection end its program? | 2 sessions, 2 dials, 1 site, 2 attempts, the log may fail |
| `console_wrong_site` | violated: the late CONNECT of an abandoned dial is shown under the name of another site | 1 session, 2 dials, 2 sites |
| `console_leak` | violated: ctrl+c in a dial that connects leaves the modem open and the lock held, with the user back in the menu | the same; leaks of programs that ended left aside |
| `linebuffer_ascii` | Is what is sent what was shown, and is the escape branch really never taken? | six keys of seven |
| `linebuffer_escape` | violated: a line `~.` after Enter does not disconnect (README.md:97) | four keys |
| `filestore_store` | Does the file behave as one map, stay whole, keep updates apart, and does every call of a live process return? | 2 processes; two login calls and an operator's call; users present, locked, absent; the file there or not; all failures and crashes |
| `filestore_first_start` | violated: a process in `NewFileStore` replaces the file to which another has already added a user | 2 processes starting at once |
| `terminal` | Does either side end a terminal, is its call hung up, is a lost carrier left alone, what do the goroutines of an ended terminal still do? | 2 terminals; guard time 2, sleeps 3, wake-ups every 4 ticks; the log may fail |
| `hub` | Who gets past the password form, which password counts then, who changes an account, what does a crash of the migration cost, does every session get an answer? | 1 session with 2 submits; 2 users, one only in `users.conf`; passwords good, too short, too long; 1 operator's call; any number of restarts |
| `modem` | Is a dial told of its own call only, is the line free when it waits, does it end? | 3 programs, 2 attempts, 1 command of `modem_init`; 3 commands may wait for the modem when a program starts |
| `menu` | Is the trunk's state shown, do polls pile up, do results come in order? | 3 chains; period 4, checks up to 2; outputs with none, one and two registrations |

**Why the bounds suffice.** Two dials are what it takes for one to be late for, refused
by, or confused with the other, and the interference of a third is of the same kind (a
claim admits one dial, the rest are refused). Three attempts give a first, a middle and a
last. BUSY stands for the results that are not retried, NO CARRIER for those that are;
the outcome TIMEOUT takes the same branch as NO CARRIER and NO DIALTONE and ERROR that of
BUSY. The safety invariants do not rest on bounds: they are proved (section 6). In `FileStore` one
process holds the mutex twice over (two sessions), another contends for the file lock;
`Inodes` has the two that are ever in use when processes start one after the other, and
four when they may start together. Dials are symmetric in the safety run; no symmetry is
used with liveness. `CHECK_DEADLOCK FALSE` is given everywhere: all programs may have
ended, all calls returned (`menu`, where time always passes, is checked for deadlock).

`Terminal`: the ticks keep the order of the code's times, 1000 ms of guard time < 1100 ms of
sleep < 2000 ms between wake-ups, and two sleeps exceed a wake-up period, which is what
makes them meet. Two terminals give one that is over and one it disturbs. `Hub`: two
submits are what it takes to overlap; a restart may come at any point, any number of times;
more sessions of one user add only that one changes the password the other chose, which
`ChosenPasswordHolds` names. `ModemAT`: three programs give one that leaves something
behind, one that is killed over it, and one that meets both. `Menu`: with three chains one
may be ending, one old and one new.

*The bound `Backlog` and the modem's speed.* The driver does not match answers to commands:
an ATH whose answer is late shifts every later answer by one (modem.go:86, 93). A modem
that falls behind further with each program could make `Init` succeed on old answers only,
and both `ResultIsOurs` and `LineIsCleared` would fail. Two assumptions exclude this: the
125 s that `Dial` waits are enough for a modem that works at all to come to the commands
before it, and no program is started while more than `Backlog` commands still wait. Without
it, two kills in a row are enough for TLC to find the failure (`MCModemAT_slow.cfg`,
section 7). The theorems ask that fewer commands wait than `Init` and `Configure` read
answers, three and one for each command of `modem_init`; the run has the largest such number.

`ConcurrentStart` is `FALSE` in `filestore_store`: no two processes are inside
`NewFileStore` at once. With it `TRUE` the code publishes truncated and empty files
(section 7), which is what `filestore_first_start` shows; the other run says what holds
once the file exists or is made by one process.

**Fairness.** `Console`: weak fairness of each dial goroutine and each clean-up, because
each of their steps is a call that returns: every modem read has a deadline
(modem.go:210-222, 250-290), sleeps are finite, the mutex is held for a few
instructions; and of each event loop, which handles what it was sent. Nothing is
assumed of users, of the remote end, or of the connection: a terminal may last for ever.
`FileStore`: weak fairness of the steps of each call, which says that the system calls
return and that the kernel grants a free file lock; no call is assumed to fail, and no
process is assumed to start, crash, or call. `Terminal`: time passes, goroutines that can
run do, a read of a closed file returns, and stdin ends with the connection; nothing of keys
or of the remote end. `Hub`: every call of the store is answered, which `CallsReturn` of
`FileStore` shows, and event loops handle what they were sent. `ModemAT`: the driver runs,
since each of its steps has a deadline; the modem may stop for ever, and if it has not, it
comes to what was written. `Menu` states bounds on time as invariants and needs no fairness.

## 5. Properties that carry the weight

- `ExclusiveDevice`, `ClaimMatchesLock`, `FailedDialLeavesNothing` (`Console`): the claim
  passes through nine phases of one goroutine, a message, and the clean-up of another; the
  properties relate the lock, the open file and the phases across all of them.
- `PatientConnectsRight`, `PatientNeverLeaks`: the promise to a user who waits, in the
  presence of duplicate requests, of errors of other dials, of lost connections, and of
  impatient neighbours. The first fails for an impatient user (`console_wrong_site`).
- `HeldForeverMeansUsedOrLeaked`: a device that is never given back is in a terminal or
  has been leaked; no retry loop or clean-up keeps it.
- `LiveFileParses`, `OneUpdate`, `UpdatesOwnUser` (`FileStore`): the reasons the
  refinement holds. The new contents stay a fresh copy from read to rename.
- `ImplementsUserStore`: each call takes effect at one instant, the rename, or not at all.
- `CallsReturn`: no error path keeps a mutex or the file lock, and a dead process frees it.
- `HangupEndsCall` (`Terminal`): no terminal leaves its call up, because once data was read
  the waker is silent through both guard times of `Hangup`. It names three ways around it: a
  waker that writes into `Hangup` when nothing was read before, a session log that refused
  data, which `Run` takes for a lost carrier, and keys in flight at a broken connection.
- `NoHangupAfterReadError`: the order of `carrierLost.Store` and `done <-` is what keeps a
  lost carrier from being hung up.
- `SwallowsOneLine`, `GoroutinesEnd`: what is left of a terminal takes one line of keys at
  most, and all but the key reader end by themselves; the channel's capacity matters.
- `ForcedUsersChange`, `ChosenPasswordHolds` (`Hub`): relate the account in the store to the
  screen of a session, across calls of others; each names all the ways around it.
- `AccountsChangeByRight`: relates each change of an account to the call that is answered
  with it. A submit that comes after the operator's lock leaves the lock, and a migration
  that is run again, also after a rename that failed, changes no account that is there.
- `MigrationLosesNobody`: relates `users.conf`, the accounts and what was printed, across
  errors, crashes and repeated starts.
- `StrayErrorNeedsTwoSubmits`: an error of the form reaches the dialing screen only after a
  double submit.
- `ResultIsOurs`, `LineIsCleared` (`ModemAT`): whatever answers, calls and commands
  earlier attempts and killed programs left behind, within `Backlog`, a dial reports on its
  own call. ERROR is excepted: a late refusal
  of an earlier command is taken for the dial's.
- `DialReturns`: with a modem that stops answering at any point.
- `TrunkIsShown` (`Menu`): a state that lasted a period and a check is on the screen, however
  often the menu was left. `OneChain`, `ResultsInOrder`: the two things a quick return spoils.
- `LineIsShown`: screen and buffer, edited separately, agree (for keys of one byte).
- `EscapeNeverTaken`: the branch at terminal.go:174 is dead code.

Every property of a run is also checked against a mutation of the code's model that a
plausible bug would produce (the operators marked "Mutant:" next to the originals), and
fails there.

Three more are proved for every value of the constants and are no part of the runs, as each
is the safety half of a liveness property that a run checks:

- `DialAdvances` (`HeldForeverMeansUsedOrLeaked`): no step of a dial leads back to one it has
  done, but for the next attempt, and those are counted.
- `LocksInUse` (`CallsReturn`): the file lock is with a call that is about to read, write or
  release, the mutex of a process with one call, after whatever error or crash.
- `LastHasRoom` (`GoroutinesEnd`): no goroutine of a terminal that ended waits for a receiver
  that is gone, also not a `leftover`, of whose channel `Terminal` keeps no record.

## 6. Proofs

A module `XProofs` proves theorems about `X` for every value of its constants. Every
invariant proof has the same form: an inductive invariant, stated at the end of `X` (those
of `LineBuffer` in its proof module), holds initially, is kept by each action, and implies
the properties. TLC finds each inductive invariant, and the three properties named above,
to hold in the component's instance.

### `ConsoleProofs` – any number of sessions, dials, sites and attempts

| Theorem | Statement | Hypothesis |
|---|---|---|
| `TypeCorrect` | `Spec => []TypeOK` | |
| `Invariance` | `Spec => []IInv` | named sites |
| `Exclusivity` | `Spec => []ExclusiveDevice` | named sites |
| `LockAccounting` | `Spec => []ClaimMatchesLock` | named sites |
| `Refinement` | `Spec => Claim!Spec` | named sites |
| `FailureCleansUp` | `Spec => []FailedDialLeavesNothing` | |
| `PatientInvariance` | `Spec => []PatientInv` | |
| `PatientIsConnectedRight` | `Spec => []PatientConnectsRight` | |
| `PatientLeaksNothing` | `Spec => []PatientNeverLeaks` | |
| `DialsAdvance` | `Spec => DialAdvances` | |
| `LockChangesHandsClosed` | holders change only by way of nobody, with the device closed before and after | named sites |

"Named sites" is `Idle \notin SiteNames`: no site has an empty name. The code does not
guarantee it (section 7) and without it exclusion fails, so it is a hypothesis of the
theorems that need it and no assumption of the module. `ConsoleAssumption` otherwise asks
only for what the constants are.

*Exclusion.* `TypeOK` is inductive only with `RetriesLeft`: `attempt` stays within
`maxRetries` because `sleep` is entered with an attempt left. `ExclusiveDevice` alone is
not inductive, since opening the device says nothing of who else has it. `IInv` adds

- `SiteChosen`: a requested dial has a configured, hence non-empty, site, so that
  `lockSite := site[d]` makes the lock busy;
- `OpenByPhase`, `ResultByPhase`: phase and result say whether the modem is open, which
  decides for a `posted` dial whether its claim travels on with the message;
- `OneClaim` and `ClaimMatchesLock`: one dial claims at a time and the lock is its mark.

`Acquire` needs `lockSite = Idle`, hence nobody claims (`IdleMeansNoClaim`); `Release`
and `ReleaseTerminal` are taken by the claimant, hence by the only one. Steps that touch
one dial's phase and result go through `DialInvLocal`, steps of keys and messages that
touch none through `DialInvFrame`. Refinement follows step by step: acquiring claims,
opening and closing are steps under the claim, `Release` yields, the rest stutters. What
`DeviceClaim` promises, `Console` then has too: `LockChangesHandsClosed` is a lemma about
one step of `DeviceClaim` (`ClaimStepIsClean`), carried over.

*Dials end.* `DialsAdvance` needs only that a dial before `acquire` has made no attempt
(`Untried`): then every step that changes its phase goes up in `Position` or counts an
attempt, of which there are at most `maxRetries`.

*Patient users.* Messages carry no identity, so the right message reaches a screen only
because there is one it can be. `PatientInv` says so: of the dials of a patient session
one is current (in its goroutine, in a terminal, or with a message on its way), and the
screen is the one that belongs to its phase, with its site (`ScreenFollowsDial`). The
lock plays no part in it, so no hypothesis on names is needed. A dial that is over has
left its modem open only if the log could not be created (`LeakNeedsLog`).

### `FileStoreProofs`, `FileStoreRefinement` – any processes, calls, users and inodes

| Theorem | Statement | Hypothesis |
|---|---|---|
| `LockInvariance` | `Spec => []LockInv` | |
| `FileStoreType` | `Spec => []TypeOK` | |
| `UpdatesAreExclusive` | `Spec => []OneUpdate` | |
| `StoreInvariance` | `Spec => []StoreInv` | `~ConcurrentStart` |
| `FileIsWhole` | `Spec => []LiveFileParses` | `~ConcurrentStart` |
| `NoUpdateIsLost` | `Spec => []UpdatesOwnUser` | `~ConcurrentStart` |
| `FileStoreRefinesUserStore` | `Spec => ImplementsUserStore` | `~ConcurrentStart` |
| `AccountsStayUnlessRemoved` | `Spec => AccountsStay` | `~ConcurrentStart` |
| `LocksAreInUse` | `Spec => []LocksInUse` | |
| `ChangesAreAnswered` | `Spec => [][AnswerOfChange]_vars` | `~ConcurrentStart` |

The hypothesis is that of the run: two processes inside `NewFileStore` at once do break
the file (section 7), so without it the statements are false. The locks do not need it.

*Argument.* `LockInv` ties the file lock and the operation asked for to the phase of each
call (`FlockHeld`, `InUse`). `StoreInv` adds that one writer writes at a time
(`OneWriter`): calls keep each other out by the file lock, and keep `NewFileStore` out,
which takes no lock, because it writes only while there is no file and they only when
there is one; and that what a writer has in memory, then in the temporary file, is the
file in place with its own change (`WritesNew`), since nobody replaces the file
meanwhile. Under it each step either leaves the parsed contents of `users.json` alone or
is the rename of one call, which changes one account as `UserStore` says; a crash, a
failed operation or a truncated temporary file is a stuttering step, and a refusal
answers for the map as it was when it was read. `ChangesAreAnswered` is read off the
refinement: a step of `UserStore` that changes the map answers one call with ok, and no
step replaces an answer (`StoreStepIsAnswered`), hence neither does one of `FileStore`.

### `TerminalProofs` – any guard time, longer sleep, wake-up period and capacity

| Theorem | Statement |
|---|---|
| `TerminalType` | `Spec => []TypeOK` |
| `NoHangupWithoutCarrier` | `Spec => []NoHangupAfterReadError` |
| `HangupEndsCalls` | `Spec => []HangupEndsCall` |
| `AbandonedTakeOneLine` | `Spec => []SwallowsOneLine` |
| `LastGoroutineHasRoom` | `Spec => []LastHasRoom` |

`TerminalAssumption` asks that the sleeps of `Hangup` are longer than the guard time
(modem.go sleeps 1100 ms, the modem waits 1000 ms). `TerminalInv` has a part for each
property. `CarrierInv`: a read error that is on its way to `Run`, or has arrived, has
already been marked. `SilenceInv`: from the start of `Hangup` on, the silence so far
and what is left of the sleep make up a guard time, unless the waker has written into it,
which it does not once data was read; a waker that was already about to write does so
before time passes, while the whole sleep is still ahead. `TalkInv` says what the user's goroutine and the
line can be when `Hangup` starts. `LinesInv` counts goroutines: each abandoned terminal has
one reader of keys at most, which has taken its line or has it still to take. `DoneInv`
counts values: those in the channel and the one that `Run` took were sent by directions
that have ended, so that with one still to end the channel is empty once `Run` has taken
its value. A capacity of one would do; the code has two.

### `HubProofs` – any number of sessions, submits, users, restarts and crashes

| Theorem | Statement |
|---|---|
| `HubInvariance` | `Spec => []HubInv` |
| `HubType` | `Spec => []TypeOK` |
| `ForcedUsersChangeIt` | `Spec => []ForcedUsersChange` |
| `ConfirmedPasswordHolds` | `Spec => []ChosenPasswordHolds` |
| `OneSubmitLeavesNoError` | `Spec => []StrayErrorNeedsTwoSubmits` |
| `NobodyIsLost` | `Spec => []MigrationLosesNobody` |
| `ChangesAreByRight` | `Spec => AccountsChangeByRight` |

The properties speak of the time after an answer was heard, but others change the store
between the answer and its hearing. `HubInv` therefore speaks of the answer: a session is
`Settled` from the moment the store answers what opens the menu to it, and from then on
its account is not forced, or the history says why (`Unforced`); a password counts from
the answer "ok" on (`Chosen`). What a submit in flight carries is what was confirmed
(`Confirmed`, `OneSubmit`), and only submits set a password that a user chose (`AskedBy`).
For the migration, all users before the one it is at have had an account (`Migrated`).
The proof sorts the steps (`Steps`): a step belongs to one session, or is an answer of the
store, whose effect on the one account and its owners is a lemma of its own
(`ChangeEffect`, `AnswerEffect`), or is the end of the process, or leaves sessions alone.
`ChangesAreByRight` joins that effect with who asks what (`WhoAsks`): an account changes
by an answer only (`OnlyAnswersChange`).
`HubAssumption` asks that temporary passwords are neither too short nor too long, which
`GenerateTemporaryPassword` gives.

### `ModemATProofs` – any `modem_init`, attempts and number of programs

| Theorem | Statement | Hypothesis |
|---|---|---|
| `ModemATType` | `Spec => []TypeOK` | |
| `ModemATInvariance` | `Spec => []ModemInv` | `Backlog < 3 + Len(Commands)` |
| `DialReportsOwnCall` | `Spec => []ResultIsOurs` | `Backlog < 3 + Len(Commands)` |
| `NoOldCall` | `Spec => []LineIsCleared` | `Backlog < 3 + Len(Commands)` |
| `DialMovesOn` | `Spec => [][Driver => Advances]_vars` | |

The type theorem contains that no connection costs more than `maxRetries` calls
(`CallsCounted`), and `DialMovesOn` that every step of the driver goes on to a later step
of `Script`, to the next attempt or to the end, timeouts and errors included: it takes no
more than `maxRetries` times the length of `Script`, and `DialReturns` asks fairness for no
more than that each is taken. The two others rest on a counting argument: `Init` and `Configure` read 3 +
`Len(Commands)` answers (`DueAtStart`). An old answer, one that is there or that the
modem gives before it has come to some waiting command, can be taken for one of them, but
each read uses up one. As long as an old call is up or an old ATDT is waiting, there are
fewer of these answers than are still to be read (`ClearsOrFails`), so the driver cannot
come to its ATDT: it fails first. An escaped call needs `EscapeHangsUp`: behind every
`+++` that the modem may take for an escape comes an ATH or ATZ. When `Dial` drains and
nothing is due any more, the line is clear and no ATDT waits, and from there on all that
is about a call is about its own (`OwnCall`). `Retried` carries this over a retry: after
NO CARRIER the ATDT has been processed, after a timeout nothing waits or the modem has
stopped for good. `Script` is a sequence of unknown length; `ScriptShape` and `Places` say
once what its steps are.

The hypothesis bounds how far behind the modem may be when a program opens it. The code
does not enforce it: a user who dials again and again at a modem that answers nothing for
a while can exceed it, and then the failure is real (section 7). One command more than
it allows makes `ModemInv` fail in TLC.

### `MenuProofs` – any period, longest check and number of chains

| Theorem | Statement |
|---|---|
| `MenuType` | `Spec => []TypeOK` |
| `ResultsComeInOrder` | `Spec => []ResultsInOrder` |
| `ChainsDoNotPileUp` | `Spec => []OneChain` |
| `MenuShowsTrunk` | `Spec => []TrunkIsShown` |
| `ChecksDoNotOverlap` | `Spec => [](\A c \in Chains : tick[c] = 0 => check[c] = NoCheck)` |

Check and next tick of a chain start together (`CheckHasTick`), so age of the one and
remaining time of the other add up to a period: a tick that is due finds the check over
(`NoTwoChecks`); ticks end within a period of leaving the
menu (`TicksEnd`), hence after a longer absence one is left (`OneTick`). For
`TrunkIsShown`: what is shown came from a chain that polls on (`Polled`), and a check
that looked after the last change saw the present state (`SawTrunk`). `MenuAssumption`
asks that a check is shorter than the period, `TrunkAssumption` that the first
registration of the output is the trunk's, the only one that `pjsip_wizard.conf` has.

### `LineBufferProofs` – any keys, encodings and lengths

| Theorem | Statement | Hypothesis |
|---|---|---|
| `LineBufferType` | `Spec => []TypeOK` | |
| `EscapeUnreachable` | `Spec => []EscapeNeverTaken` | |
| `LineShownIsLineSent` | `Spec => []LineIsShown` | `OneByteKeys` |

For the second the strengthening is `FlagMeansEmptyLine`: `prevWasEnter` holds only while
the line is empty, so it never meets a line of two characters. For the third it is
`LineInv`: the buffer is the line of the columns on the screen (`Line`), and so it was when
it was sent. `OneByteKeys` says that every key that is shown is one byte; without it a
Backspace takes one byte of several (section 7) and the statement is false. `Line` is a
sequence of as many elements as there are columns, each given by its column, so that
adding and dropping one at the end (`LineAppend`, `LineDropLast`) needs no induction.

### Only model-checked

All liveness (`HeldForeverMeansUsedOrLeaked` and the other properties of
`console_liveness`, `CallsReturn`, `EitherSideEnds`, `GoroutinesEnd`, `DialReturns`,
`SessionsAreAnswered`): leads-to under fairness is out of the prover's reach, which is why
their safety halves are properties of their own (`DialAdvances`, `LocksInUse`, `LastHasRoom`,
`DialMovesOn`, `ChecksDoNotOverlap`). The violations are counterexamples and stay with TLC.

## 7. Where code and words part

With a run:

1. A late `DialResultMsg` is taken for the dial on the screen (model.go:147): banner and
   session log name one site, the modem is connected to another.
2. ctrl+c in a dial that connects leaks modem and lock until the server restarts
   (model.go:161), while pool.go:47 promises the connected site.
3. `~.` never disconnects (terminal.go:174 against README.md:97): the flag it asks for
   is reset by the characters it asks for. Ctrl+C works.
4. `NewFileStore` writes without the file lock (store.go:63): of two processes that
   start together, one may empty the file that the other has filled.

Further counterexamples. Each is a configuration that checks one statement of the code's own
words, which TLC finds violated; none is among the runs of section 4. The properties of
the passing runs name these cases as exceptions.

| Configuration, module | Statement | What happens |
|---|---|---|
| `MCConsole_quit`, `MCConsole` | `AvailableUnlessInUse` (pool.go:54) | a program that ends while its dial runs (q just before Enter, a lost connection) leaves the open modem to nobody (model.go:154) |
| `MCConsole_failed_log`, `MCConsole` | `ActiveSiteIsInUse` (pool.go:47) | `NewLogger` fails and `Run` returns before it has deferred `cleanup` (terminal.go:47-51) |
| `MCConsole_empty_site`, `MCConsole` | `OneSessionHoldsDevice` (pool.go:10) | `ParseSites` accepts an empty name, and a lock held for it reads as idle (pool.go:28, 36): hence the hypothesis of the theorems |
| `MCLineBufferWide`, `MCLineBufferWide` | `BackspaceRemovesChar` (terminal.go:161) | Backspace takes one byte of a character of several; the rest stays in the line, unseen: hence `OneByteKeys` |
| `Terminal_silent`, `Terminal` | `HangupHangsUp` (modem.go:183) | when the remote never speaks, the wake-ups fall into the guard time of `Hangup` and the call may stay up until the next `Init` (terminal.go:111) |
| `Terminal_closed_log`, `Terminal` | `SkipsOnlyLostCarrier` (terminal.go:211) | `cleanup` closes the log before it asks for `carrierLost`: data that comes in between fails on the log, marks the carrier lost, and skips the hang-up |
| `MCHub_no_form`, `MCHub` | `FirstLoginChanges` (README.md:89) | an error of `MustChangePassword` lets a user with a temporary password in without the form (server.go:91-95) |
| `MCHub_long_password`, `MCHub` | `ConfirmedIsStored` (messages.go:41) | a password of more than 72 bytes is refused by `HashPassword` and answered with success (store.go:157-177) |
| `MCHub_migrates_again`, `MCHub` | `MigrationRunsOnce` (migrate.go:43) | oob-hub dies before the rename of `users.conf` (or the rename fails, which is ignored): the next start brings removed users back |
| `MCModemAT_slow`, `MCModemAT` | `LineIsCleared` (modem.go:84) | without the bound on `Backlog`, `Init` succeeds on the answers to commands of killed programs, and an old ATDT dials while the new dial waits |
| `MCMenu_quick_return`, `MCMenu` | `OneTickPerPeriod` (sip.go:113) | coming back to the menu within 30 s doubles the polls for as long as it is shown (menu.go:132, model.go:184) |

Seen while modelling:

- `Reset` of oob-manage reports success for a password that `HashPassword` refuses, as
  `SetPassword` does. A user who is removed between login and `MustChangePassword` gets the menu.
- Shutdown: `ListenAndServe` returns as soon as `Shutdown` has closed the listener, and its
  goroutine ends the process (main.go:60-63). "Shutdown gracefully stops the SSH server"
  (server.go:67) and its ten seconds are cut short, terminals are not hung up.
- A temporary password of the migration exists only until it is printed (migrate.go:33-40): a
  crash between leaves an account that the next migration skips.
- After a carrier loss the goroutine of `userToModem` still reads (terminal.go:97): the first
  line of keys for the menu is lost.
- Two submits of the password form run side by side (password.go:112): the older password may
  be the one that stays, and a late error shows as the end of a dial that goes on.
- Bytes that come in the same read as CONNECT belong to `Dial`'s transcript and never reach
  the terminal (modem.go:271-279).
- After a quick return to the menu an older result may replace a newer one. The commands of a
  check have no timeout (sip.go:38-48): a longer check than the period breaks `MenuAssumption`.
- The marker of the connected site is set when the menu is built (menu.go:82) and not
  renewed: `refreshItems` (menu.go:177) has no caller.
- Only the first line with three fields decides the trunk's status (sip.go:61-105): other
  registrations, and "No objects found.", read as unregistered when they come first.
- sites.go:24 shows commands of the fifth field separated by commas, line 26 and the code
  separate them by semicolons.
- `oob-healthcheck.sh` greps for "registered" without regard to case, which "Unregistered"
  passes, and looks for `/dev/ttyIAX*`, which the program does not use.
- Two processes in `NewFileStore` share `users.json.tmp`: one may rename the file the
  other has just truncated. `LiveFileParses` is therefore checked without concurrent
  starts.
- README.md describes a pool of eight IAX modems; the code has one device.

## 8. Not modelled

- *Parts of components:* filtering, sizes and the connected marker of the menu; the two local
  health checks of the status line; the format of `users.conf`, of `sites.conf` and of the
  environment (pure parsing; a failure is a way to `Exit`); names and texts of the session log;
  arguments and output of `oob-manage` and `oob-probe`.
- *Both users of the device at once:* `oob-probe` opens the device without the lock, from
  another process. Exclusion is a statement about the sessions of one `oob-hub`, and
  `ModemAT` runs the two programs one after the other.
- *The remote's words:* a site of an old call that prints "OK" or "CONNECT" while `Init` talks
  to it could pass for the modem. `ModemAT` has remote data that matches nothing.
- *Outside the models:* the hash function and the random passwords (libraries and
  randomness); the bytes of the session log; colours and layout; Asterisk, the SIP trunk and
  the soft modem, of which the code sees a device file and the output of a status command;
  the start-up and host scripts.
