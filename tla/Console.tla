------------------------------ MODULE Console ------------------------------
(***************************************************************************)
(* The console hub from the site menu to the end of a modem session: every *)
(* SSH session runs one Bubble Tea program (internal/tui/model.go); a site *)
(* picked in its menu starts one goroutine that acquires the modem device, *)
(* dials and posts its result (internal/tui/dialing.go); a CONNECT hands   *)
(* the open device to a TerminalSession (internal/tui/terminal.go); all of *)
(* them share one DeviceLock (internal/modem/pool.go).                     *)
(*                                                                         *)
(* A message in flight is a phase of the dial it belongs to: "requested"   *)
(* is a DialRequestMsg, "posted" a DialResultMsg or ErrorMsg, "exec" the   *)
(* message of tea.Exec, "returned" a TerminalDoneMsg.  Every command runs  *)
(* in a goroutine of its own, so messages arrive in any order; those of a  *)
(* program that has ended are never received.                              *)
(***************************************************************************)
EXTENDS Naturals

CONSTANTS
  Sessions,       \* SSH sessions, each with its tea.Program
  Dials,          \* the dials ever requested; bounds the model
  SiteNames,      \* Site.Name of the configured sites
  Idle,           \* the empty string, DeviceLock.activeSite of an idle device
  WithModemInit,  \* the sites with a non-empty ModemInit
  Outcomes,       \* the dial results the modem may give
  maxRetries,     \* dialing.go: dial attempts in all
  Impatient,      \* sessions whose user may leave a dial in progress (ctrl+c)
  LogDirFails,    \* whether session.NewLogger may fail
  NoDial, NoSession

DialResult == {"CONNECT", "BUSY", "NO CARRIER", "NO DIALTONE", "ERROR", "TIMEOUT"}

ASSUME ConsoleAssumption ==
  /\ WithModemInit \subseteq SiteNames
  /\ Outcomes \subseteq DialResult
  /\ maxRetries \in Nat \ {0}
  /\ Impatient \subseteq Sessions
  /\ LogDirFails \in BOOLEAN
  /\ NoDial \notin Dials
  /\ NoSession \notin Sessions

VARIABLES
  \* DeviceLock and the device
  lockSite,     \* DeviceLock.activeSite
  open,         \* the dials that hold an open file on the device
  \* per dial: acquireAndDial, then the TerminalSession that inherits its modem
  pc, owner, site, attempt, result,
  \* per session: the tea.Program and the root Model
  prog,         \* "new", "loop", "exec" (event loop blocked in tea.Exec), "ended"
  conn,         \* the SSH connection is up
  quit,         \* a QuitMsg is in flight
  state,        \* Model.state
  activeSite,   \* Model.activeSite
  activeModem,  \* Model.activeModem, as the dial that opened it
  done          \* DialingModel.done

dialVars == <<pc, owner, site, attempt, result>>
progVars == <<prog, conn, quit>>
uiVars == <<state, activeSite, activeModem, done>>
vars == <<lockSite, open, dialVars, progVars, uiVars>>

Phases == {"unused", "requested", "acquire", "open", "init", "configure", "dial",
           "close", "sleep", "release", "posted", "exec", "terminal", "cleanup",
           "unlock", "returned", "over"}

Goto(d, phase) == pc' = [pc EXCEPT ![d] = phase]

retryable(r) == r \in {"NO CARRIER", "TIMEOUT"}

Init ==
  /\ lockSite = Idle
  /\ open = {}
  /\ pc = [d \in Dials |-> "unused"]
  /\ owner = [d \in Dials |-> NoSession]
  /\ site = [d \in Dials |-> Idle]
  /\ attempt = [d \in Dials |-> 0]
  /\ result = [d \in Dials |-> "none"]
  /\ prog = [s \in Sessions |-> "new"]
  /\ conn = [s \in Sessions |-> FALSE]
  /\ quit = [s \in Sessions |-> FALSE]
  /\ state = [s \in Sessions |-> "Menu"]
  /\ activeSite = [s \in Sessions |-> Idle]
  /\ activeModem = [s \in Sessions |-> NoDial]
  /\ done = [s \in Sessions |-> FALSE]

-----------------------------------------------------------------------------
\* The SSH session and its program.

\* An authenticated user with no pending password change: tui.New, StateMenu.
Connect(s) ==
  /\ prog[s] = "new"
  /\ prog' = [prog EXCEPT ![s] = "loop"]
  /\ conn' = [conn EXCEPT ![s] = TRUE]
  /\ UNCHANGED <<lockSite, open, dialVars, quit, uiVars>>

\* The connection drops; Wish then asks the program to quit.
Disconnect(s) ==
  /\ conn[s]
  /\ conn' = [conn EXCEPT ![s] = FALSE]
  /\ quit' = [quit EXCEPT ![s] = TRUE]
  /\ UNCHANGED <<lockSite, open, dialVars, prog, uiVars>>

\* The event loop receives a QuitMsg: the program ends in whatever state it is.
HandleQuit(s) ==
  /\ prog[s] = "loop" /\ quit[s]
  /\ prog' = [prog EXCEPT ![s] = "ended"]
  /\ conn' = [conn EXCEPT ![s] = FALSE]
  /\ UNCHANGED <<lockSite, open, dialVars, quit, uiVars>>

-----------------------------------------------------------------------------
\* Keys.  They reach Model.Update only while the event loop runs.

KeyIn(s, st) == conn[s] /\ prog[s] = "loop" /\ state[s] = st

\* Enter in the menu: a command that sends DialRequestMsg for the selected site.
SelectSite(s, d, x) ==
  /\ KeyIn(s, "Menu")
  /\ pc[d] = "unused"
  /\ Goto(d, "requested")
  /\ owner' = [owner EXCEPT ![d] = s]
  /\ site' = [site EXCEPT ![d] = x]
  /\ UNCHANGED <<lockSite, open, attempt, result, progVars, uiVars>>

\* q or ctrl+c in the menu: tea.Quit.
PressQuit(s) ==
  /\ KeyIn(s, "Menu")
  /\ quit' = [quit EXCEPT ![s] = TRUE]
  /\ UNCHANGED <<lockSite, open, dialVars, prog, conn, uiVars>>

returnToMenu(s) ==
  /\ state' = [state EXCEPT ![s] = "Menu"]
  /\ activeModem' = [activeModem EXCEPT ![s] = NoDial]
  /\ UNCHANGED <<activeSite, done>>

\* Mutant: Enter leaves the dialing screen whether or not the dial is done.
LeaveDialingEarly(s) ==
  /\ KeyIn(s, "Dialing")
  /\ returnToMenu(s)
  /\ UNCHANGED <<lockSite, open, dialVars, progVars>>

\* On the dialing screen ctrl+c always leaves, Enter only when the dial is done.
LeaveDialing(s) ==
  /\ KeyIn(s, "Dialing")
  /\ s \in Impatient \/ done[s]
  /\ returnToMenu(s)
  /\ UNCHANGED <<lockSite, open, dialVars, progVars>>

-----------------------------------------------------------------------------
\* Messages, handled by the event loop of the owner's program.

Receives(s, d, phase) == prog[s] = "loop" /\ owner[d] = s /\ pc[d] = phase

\* Mutant: the root model starts a dial in any state.
HandleDialRequestAnywhere(s, d) ==
  /\ Receives(s, d, "requested")
  /\ state' = [state EXCEPT ![s] = "Dialing"]
  /\ activeSite' = [activeSite EXCEPT ![s] = site[d]]
  /\ done' = [done EXCEPT ![s] = FALSE]
  /\ Goto(d, "acquire")
  /\ UNCHANGED <<lockSite, open, owner, site, attempt, result, progVars, activeModem>>

\* DialRequestMsg: only updateMenu handles it; any other state ignores it.
HandleDialRequest(s, d) ==
  /\ Receives(s, d, "requested")
  /\ \/ /\ state[s] = "Menu"
        /\ state' = [state EXCEPT ![s] = "Dialing"]
        /\ activeSite' = [activeSite EXCEPT ![s] = site[d]]
        /\ done' = [done EXCEPT ![s] = FALSE]
        /\ Goto(d, "acquire")
     \/ /\ state[s] # "Menu"
        /\ Goto(d, "over")
        /\ UNCHANGED <<state, activeSite, done>>
  /\ UNCHANGED <<lockSite, open, owner, site, attempt, result, progVars, activeModem>>

\* Mutant: an ErrorMsg does not end the dial on the screen.
HandleDialOutcomeNoError(s, d) ==
  /\ Receives(s, d, "posted")
  /\ \/ /\ state[s] = "Dialing" /\ result[d] = "CONNECT"
        /\ state' = [state EXCEPT ![s] = "Connected"]
        /\ activeModem' = [activeModem EXCEPT ![s] = d]
        /\ Goto(d, "exec")
        /\ UNCHANGED done
     \/ /\ state[s] # "Dialing" \/ result[d] # "CONNECT"
        /\ done' = [done EXCEPT ![s] = @ \/ (state[s] = "Dialing" /\ result[d] # "failure")]
        /\ Goto(d, "over")
        /\ UNCHANGED <<state, activeModem>>
  /\ UNCHANGED <<lockSite, open, owner, site, attempt, result, progVars, activeSite>>

\* DialResultMsg or ErrorMsg: only updateDialing handles it, and it takes the
\* message for the answer to the dial on the screen.
HandleDialOutcome(s, d) ==
  /\ Receives(s, d, "posted")
  /\ \/ /\ state[s] = "Dialing" /\ result[d] = "CONNECT"
        /\ state' = [state EXCEPT ![s] = "Connected"]
        /\ activeModem' = [activeModem EXCEPT ![s] = d]
        /\ Goto(d, "exec")
        /\ UNCHANGED done
     \/ /\ state[s] = "Dialing" /\ result[d] # "CONNECT"
        /\ done' = [done EXCEPT ![s] = TRUE]
        /\ Goto(d, "over")
        /\ UNCHANGED <<state, activeModem>>
     \/ /\ state[s] # "Dialing"
        /\ Goto(d, "over")
        /\ UNCHANGED <<state, activeModem, done>>
  /\ UNCHANGED <<lockSite, open, owner, site, attempt, result, progVars, activeSite>>

\* The message of tea.Exec: TerminalSession.Run blocks the event loop, or
\* returns at once when the session log cannot be created.
HandleExec(s, d) ==
  /\ Receives(s, d, "exec")
  /\ \/ /\ prog' = [prog EXCEPT ![s] = "exec"]
        /\ Goto(d, "terminal")
     \/ /\ LogDirFails
        /\ Goto(d, "returned")
        /\ UNCHANGED prog
  /\ UNCHANGED <<lockSite, open, owner, site, attempt, result, conn, quit, uiVars>>

HandleTerminalDone(s, d) ==
  /\ Receives(s, d, "returned")
  /\ \/ state[s] = "Connected" /\ returnToMenu(s)
     \/ state[s] # "Connected" /\ UNCHANGED uiVars
  /\ Goto(d, "over")
  /\ UNCHANGED <<lockSite, open, owner, site, attempt, result, progVars>>

-----------------------------------------------------------------------------
\* The goroutine of acquireAndDial.

\* Mutant: the device file is checked, the active site is not.
AcquireUnchecked(d) ==
  /\ pc[d] = "acquire"
  /\ lockSite' = site[d]
  /\ attempt' = [attempt EXCEPT ![d] = 1]
  /\ Goto(d, "open")
  /\ UNCHANGED <<open, owner, site, result, progVars, uiVars>>

\* DeviceLock.Acquire: refused when busy or when the device file is missing.
Acquire(d) ==
  /\ pc[d] = "acquire"
  /\ \/ /\ lockSite = Idle
        /\ lockSite' = site[d]
        /\ attempt' = [attempt EXCEPT ![d] = 1]
        /\ Goto(d, "open")
        /\ UNCHANGED result
     \/ /\ result' = [result EXCEPT ![d] = "failure"]
        /\ Goto(d, "posted")
        /\ UNCHANGED <<lockSite, attempt>>
  /\ UNCHANGED <<open, owner, site, progVars, uiVars>>

\* Mutant: the early return after a failed open forgets the lock.
OpenKeepsLock(d) ==
  /\ pc[d] = "open"
  /\ \/ /\ open' = open \union {d}
        /\ Goto(d, "init")
        /\ UNCHANGED result
     \/ /\ result' = [result EXCEPT ![d] = "failure"]
        /\ Goto(d, "posted")
        /\ UNCHANGED open
  /\ UNCHANGED <<lockSite, owner, site, attempt, progVars, uiVars>>

Open(d) ==
  /\ pc[d] = "open"
  /\ \/ /\ open' = open \union {d}
        /\ Goto(d, "init")
        /\ UNCHANGED result
     \/ /\ result' = [result EXCEPT ![d] = "failure"]
        /\ Goto(d, "release")
        /\ UNCHANGED open
  /\ UNCHANGED <<lockSite, owner, site, attempt, progVars, uiVars>>

\* Mutant: the early return after a failed command forgets to close the modem.
ExchangeKeepsOpen(d, phase, next) ==
  /\ pc[d] = phase
  /\ \/ Goto(d, next) /\ UNCHANGED result
     \/ result' = [result EXCEPT ![d] = "failure"] /\ Goto(d, "release")
  /\ UNCHANGED <<lockSite, open, owner, site, attempt, progVars, uiVars>>

\* An AT exchange that answers OK goes on to the next phase; ERROR, silence or
\* a write error closes the modem and fails the dial.
Exchange(d, phase, next) ==
  /\ pc[d] = phase
  /\ \/ Goto(d, next) /\ UNCHANGED result
     \/ result' = [result EXCEPT ![d] = "failure"] /\ Goto(d, "close")
  /\ UNCHANGED <<lockSite, open, owner, site, attempt, progVars, uiVars>>

InitModem(d) ==
  Exchange(d, "init", IF site[d] \in WithModemInit THEN "configure" ELSE "dial")

Configure(d) == Exchange(d, "configure", "dial")

\* ATDT.  CONNECT is posted with the open modem; any other result, and a write
\* error, hangs up and closes it.
Dial(d) ==
  /\ pc[d] = "dial"
  /\ \E r \in Outcomes \union {"failure"} :
       /\ result' = [result EXCEPT ![d] = r]
       /\ Goto(d, IF r = "CONNECT" THEN "posted" ELSE "close")
  /\ UNCHANGED <<lockSite, open, owner, site, attempt, progVars, uiVars>>

\* Mutant: one attempt too many.
CloseOffByOne(d) ==
  /\ pc[d] = "close"
  /\ open' = open \ {d}
  /\ Goto(d, IF retryable(result[d]) /\ attempt[d] <= maxRetries THEN "sleep" ELSE "release")
  /\ UNCHANGED <<lockSite, owner, site, attempt, result, progVars, uiVars>>

\* Modem.Close on the dialing path, then the decision to retry.
Close(d) ==
  /\ pc[d] = "close"
  /\ open' = open \ {d}
  /\ Goto(d, IF retryable(result[d]) /\ attempt[d] < maxRetries THEN "sleep" ELSE "release")
  /\ UNCHANGED <<lockSite, owner, site, attempt, result, progVars, uiVars>>

\* Mutant: the attempt is not counted.
RetryUncounted(d) ==
  /\ pc[d] = "sleep"
  /\ Goto(d, "open")
  /\ UNCHANGED <<lockSite, open, owner, site, attempt, result, progVars, uiVars>>

\* After retryDelay: the next attempt.
Retry(d) ==
  /\ pc[d] = "sleep"
  /\ attempt' = [attempt EXCEPT ![d] = @ + 1]
  /\ Goto(d, "open")
  /\ UNCHANGED <<lockSite, open, owner, site, result, progVars, uiVars>>

\* DeviceLock.Release, then the goroutine posts its message.
Release(d) ==
  /\ pc[d] = "release"
  /\ lockSite' = Idle
  /\ Goto(d, "posted")
  /\ UNCHANGED <<open, owner, site, attempt, result, progVars, uiVars>>

-----------------------------------------------------------------------------
\* TerminalSession.Run and its deferred cleanup.

\* The user disconnects, the modem stops reading, or a write fails.
TerminalEnds(d) ==
  /\ pc[d] = "terminal"
  /\ Goto(d, "cleanup")
  /\ UNCHANGED <<lockSite, open, owner, site, attempt, result, progVars, uiVars>>

\* Mutant: a read error of stdin is retried.
StdinEOFRetried(d) ==
  /\ TerminalEnds(d)
  /\ conn[owner[d]]

\* Stdin ends with the SSH connection.
StdinEOF(d) ==
  /\ TerminalEnds(d)
  /\ ~conn[owner[d]]

\* Mutant: cleanup releases the lock before it hangs up and closes.
CloseTerminalLast(d) ==
  /\ pc[d] = "cleanup"
  /\ \/ /\ lockSite # Idle
        /\ lockSite' = Idle
        /\ UNCHANGED <<pc, open>>
     \/ /\ lockSite = Idle
        /\ open' = open \ {d}
        /\ Goto(d, "unlock")
        /\ UNCHANGED lockSite
  /\ UNCHANGED <<owner, site, attempt, result, progVars, uiVars>>

\* cleanup: hang up unless the carrier is lost, close the modem, ...
CloseTerminal(d) ==
  /\ pc[d] = "cleanup"
  /\ open' = open \ {d}
  /\ Goto(d, "unlock")
  /\ UNCHANGED <<lockSite, owner, site, attempt, result, progVars, uiVars>>

\* ... release the lock; Run returns and the event loop goes on.
ReleaseTerminal(d) ==
  /\ pc[d] = "unlock"
  /\ lockSite' = Idle
  /\ prog' = [prog EXCEPT ![owner[d]] = "loop"]
  /\ Goto(d, "returned")
  /\ UNCHANGED <<open, owner, site, attempt, result, conn, quit, uiVars>>

-----------------------------------------------------------------------------
DialStep(d) ==
  Acquire(d) \/ Open(d) \/ InitModem(d) \/ Configure(d) \/ Dial(d)
    \/ Close(d) \/ Retry(d) \/ Release(d)

CleanupStep(d) == StdinEOF(d) \/ CloseTerminal(d) \/ ReleaseTerminal(d)

EventLoop(s) ==
  \/ HandleQuit(s)
  \/ \E d \in Dials : HandleDialRequest(s, d) \/ HandleDialOutcome(s, d)
                        \/ HandleExec(s, d) \/ HandleTerminalDone(s, d)

User(s) ==
  \/ Connect(s) \/ Disconnect(s) \/ PressQuit(s) \/ LeaveDialing(s)
  \/ \E d \in Dials, x \in SiteNames : SelectSite(s, d, x)

Next ==
  \/ \E s \in Sessions : User(s) \/ EventLoop(s)
  \/ \E d \in Dials : DialStep(d) \/ TerminalEnds(d) \/ CleanupStep(d)

Spec == Init /\ [][Next]_vars

\* Every call of a dial goroutine and of the cleanup returns (each read of the
\* modem has a deadline), and a running event loop handles what it was sent.
\* Nothing is assumed of users, of the remote end or of the SSH connection.
Fairness ==
  /\ \A d \in Dials : WF_vars(DialStep(d)) /\ WF_vars(CleanupStep(d))
  /\ \A s \in Sessions : WF_vars(EventLoop(s))

FairSpec == Spec /\ Fairness
-----------------------------------------------------------------------------
TypeOK ==
  /\ lockSite \in SiteNames \union {Idle}
  /\ open \subseteq Dials
  /\ pc \in [Dials -> Phases]
  /\ owner \in [Dials -> Sessions \union {NoSession}]
  /\ site \in [Dials -> SiteNames \union {Idle}]
  /\ attempt \in [Dials -> 0..maxRetries]
  /\ result \in [Dials -> DialResult \union {"none", "failure"}]
  /\ prog \in [Sessions -> {"new", "loop", "exec", "ended"}]
  /\ conn \in [Sessions -> BOOLEAN]
  /\ quit \in [Sessions -> BOOLEAN]
  /\ state \in [Sessions -> {"Menu", "Dialing", "Connected"}]
  /\ activeSite \in [Sessions -> SiteNames \union {Idle}]
  /\ activeModem \in [Sessions -> Dials \union {NoDial}]
  /\ done \in [Sessions -> BOOLEAN]

\* Dial d has acquired the device lock and not released it.
Claims(d) == d \in open \/ pc[d] \in {"open", "sleep", "release", "unlock"}

Holders == {d \in Dials : Claims(d)}

InGoroutine(d) ==
  pc[d] \in {"acquire", "open", "init", "configure", "dial", "close", "sleep", "release"}

InTerminal(d) == pc[d] \in {"terminal", "cleanup", "unlock"}

\* A message about d that a program will still receive.
InMessage(d) == pc[d] \in {"posted", "exec"} /\ prog[owner[d]] # "ended"

\* The modem of d is open and nothing is left that would close it.
Orphan(d) == d \in open /\ ~(InGoroutine(d) \/ InTerminal(d) \/ InMessage(d))
-----------------------------------------------------------------------------
(***************************************************************************)
(* The inductive invariant behind the exclusive claim.                     *)
(***************************************************************************)

\* A dial that waits for its next attempt has one left.
RetriesLeft == \A d \in Dials : pc[d] = "sleep" => attempt[d] < maxRetries

\* A dial that was requested has a configured site.
SiteChosen == \A d \in Dials : pc[d] # "unused" => site[d] \in SiteNames

\* The phase of a dial, and at the end its result, say whether its modem is open.
OpenByPhase(d) ==
  /\ pc[d] \in {"init", "configure", "dial", "close", "exec", "terminal", "cleanup"}
       => d \in open
  /\ pc[d] \in {"unused", "requested", "acquire", "open", "sleep", "release", "unlock"}
       => d \notin open
  /\ pc[d] = "posted" => (d \in open <=> result[d] = "CONNECT")
  /\ pc[d] \in {"returned", "over"} /\ result[d] # "CONNECT" => d \notin open

ResultByPhase(d) ==
  /\ pc[d] \in {"unused", "requested", "acquire", "open", "init", "configure", "dial",
               "close", "sleep", "release"} => result[d] # "CONNECT"
  /\ pc[d] \in {"exec", "terminal", "cleanup", "unlock", "returned"}
       => result[d] = "CONNECT"

OneClaim == \A d, e \in Dials : Claims(d) /\ Claims(e) => d = e

(***************************************************************************)
(* Safety.                                                                 *)
(***************************************************************************)

\* The modem device is open in one place at most, through every dial, retry,
\* terminal and hand-over between them.
ExclusiveDevice == \A d, e \in open : d = e

\* DeviceLock.activeSite names the site of the dial that has the claim, and is
\* empty when no dial has it: no exit of acquireAndDial or cleanup forgets to
\* release, and none releases the lock of another session.
ClaimMatchesLock ==
  /\ \A d \in Dials : Claims(d) => lockSite = site[d]
  /\ lockSite # Idle => \E d \in Dials : Claims(d)

\* By the time a failed dial is reported, its modem is closed and its claim is
\* gone, whichever step failed and after any number of retries.
FailedDialLeavesNothing ==
  \A d \in Dials :
    pc[d] \in {"posted", "over"} /\ result[d] # "CONNECT" => ~Claims(d)

IInv ==
  /\ TypeOK
  /\ RetriesLeft
  /\ SiteChosen
  /\ \A d \in Dials : OpenByPhase(d) /\ ResultByPhase(d)
  /\ OneClaim
  /\ ClaimMatchesLock

(***************************************************************************)
(* The inductive invariant behind the promises to a patient user.          *)
(***************************************************************************)

\* The root model left its menu for dial d and has not heard the last of it.
Current(d) == InGoroutine(d) \/ InTerminal(d) \/ pc[d] \in {"posted", "exec", "returned"}

\* The screen of session s shows the one dial that is current.
ScreenFollowsDial(s) ==
  /\ \A d, e \in Dials : Current(d) /\ Current(e) /\ owner[d] = s /\ owner[e] = s => d = e
  /\ \A d \in Dials : owner[d] = s =>
       /\ InGoroutine(d) \/ pc[d] = "posted"
            => state[s] = "Dialing" /\ ~done[s] /\ site[d] = activeSite[s]
       /\ InTerminal(d) \/ pc[d] \in {"exec", "returned"}
            => state[s] = "Connected" /\ activeModem[s] = d
  /\ state[s] = "Connected" =>
       /\ activeModem[s] \in Dials /\ pc[activeModem[s]] # "unused"
       /\ site[activeModem[s]] = activeSite[s]

\* A dial of a patient user that is over has left its modem open only for the log.
LeakNeedsLog ==
  \A d \in open : pc[d] \in {"returned", "over"} => owner[d] \in Impatient \/ LogDirFails

PatientInv ==
  /\ TypeOK
  /\ \A d \in Dials : OpenByPhase(d) /\ ResultByPhase(d)
  /\ \A s \in Sessions \ Impatient : ScreenFollowsDial(s)
  /\ LeakNeedsLog

\* A user who never leaves a dial in progress is connected to the site shown.
PatientConnectsRight ==
  \A s \in Sessions \ Impatient :
    state[s] = "Connected" => site[activeModem[s]] = activeSite[s]

\* While the program of such a user runs, none of its modems is left open with
\* nobody to close it, unless the session log could not be created.
PatientNeverLeaks ==
  \A d \in Dials :
    Orphan(d) /\ prog[owner[d]] # "ended" => owner[d] \in Impatient \/ LogDirFails

\* Where a phase is in the course of a dial.
Position(phase) ==
  CASE phase = "unused"  -> 0  [] phase = "requested" -> 1  [] phase = "acquire"  -> 2
    [] phase = "open"    -> 3  [] phase = "init"      -> 4  [] phase = "configure" -> 5
    [] phase = "dial"    -> 6  [] phase = "close"     -> 7  [] phase = "sleep"    -> 8
    [] phase = "release" -> 9  [] phase = "posted"    -> 10 [] phase = "exec"     -> 11
    [] phase = "terminal" -> 12 [] phase = "cleanup"  -> 13 [] phase = "unlock"   -> 14
    [] phase = "returned" -> 15 [] phase = "over"     -> 16

\* A dial goes back in its course only for its next attempt, and has maxRetries of
\* them: no path through retries, failures and lost messages goes round for ever.
DialAdvances ==
  [][\A d \in Dials :
       /\ attempt[d] <= attempt'[d] /\ attempt'[d] <= maxRetries
       /\ pc'[d] # pc[d] =>
            attempt[d] < attempt'[d] \/ Position(pc[d]) < Position(pc'[d])]_vars

\* The lock, the dialing goroutines and the terminals together keep the promise
\* of DeviceLock.
Claim == INSTANCE DeviceClaim WITH holders <- Holders
ImplementsDeviceClaim == Claim!Spec

(***************************************************************************)
(* Liveness.                                                               *)
(***************************************************************************)

\* A device held for ever is held by a terminal its user keeps, or leaked: dials
\* and clean-ups always come to an end.
HeldForeverMeansUsedOrLeaked ==
  \A d \in Dials :
    []<>~Claims(d) \/ <>[](pc[d] = "terminal" \/ Orphan(d))

\* The spinner of the dialing screen gives way to a connection or to an error.
DialingScreenResolves ==
  \A s \in Sessions :
    state[s] = "Dialing" ~> state[s] # "Dialing" \/ done[s] \/ prog[s] = "ended"

\* The program of a lost connection ends, also when it sat in a terminal.
DisconnectEndsSession ==
  \A s \in Sessions : (prog[s] # "new" /\ ~conn[s]) ~> prog[s] = "ended"

(***************************************************************************)
(* What the comments and the documentation say, and the code does not do.  *)
(***************************************************************************)

\* terminal.go:66 prints "CONNECTED to" and the site name: the modem of a
\* connected session is the one that dialed that site.
ConnectedToChosenSite ==
  \A s \in Sessions :
    state[s] = "Connected" => site[activeModem[s]] = activeSite[s]

\* pool.go:47 "ActiveSite returns the name of the currently connected site, or
\* "" if idle": a site it names has a session that uses or dials it, as long as the
\* program that dialed it runs.
ActiveSiteIsInUse ==
  lockSite # Idle =>
    \E d \in Dials : Claims(d) /\ (Orphan(d) => prog[owner[d]] = "ended")

\* pool.go:54 "IsAvailable returns true if the modem device is not in use": a program
\* that has ended, on whatever screen, leaves nobody but its goroutines with the device.
AvailableUnlessInUse ==
  lockSite # Idle =>
    \E d \in Dials : Claims(d) /\ (Orphan(d) => prog[owner[d]] # "ended")

\* pool.go:10 "Only one session can hold the device at a time."
OneSessionHoldsDevice ==
  \A d, e \in Holders : owner[d] = owner[e]
=============================================================================
