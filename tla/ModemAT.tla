------------------------------ MODULE ModemAT ------------------------------
(***************************************************************************)
(* The AT driver (internal/modem/modem.go) as its two programs use it:     *)
(* acquireAndDial of oob-hub with its retries (internal/tui/dialing.go)    *)
(* and run of oob-probe (cmd/oob-probe/main.go), one after the other on    *)
(* one modem.  A program may die anywhere and leave the modem as it is.    *)
(*                                                                         *)
(* The modem is slow: what was written waits in toModem, what it answered  *)
(* waits in toHost, and a timeout may pass first.  It may stop for good;   *)
(* if not, it comes to every command within the 125 s that Dial waits.  An *)
(* answer is its result word with the number of the call it is about (0:   *)
(* none); echo and spacing are left out, no result word is in them.        *)
(***************************************************************************)
EXTENDS Naturals, Sequences, FiniteSets

CONSTANTS
  Commands,    \* modem_init of the site, or -init-cmds: AT commands
  MaxRetries,
  Programs,    \* how many programs are started; bounds the model
  Backlog      \* how many commands may wait for the modem when one is started

ASSUME ModemAssumption ==
  Commands \in Seq({"CFG"}) /\ MaxRetries \in Nat \ {0} /\ Programs \in Nat /\ Backlog \in Nat

VARIABLES
  program,   \* "none", "hub" or "probe": who has the device open
  pc,        \* its next step in Script
  attempt,   \* of acquireAndDial
  result,    \* of Dial: its word, and the calls the words of the answer are about
  toModem, toHost,
  mode,      \* of the modem: "command", "dialing", "online", or "escaped" from it
  call,      \* the call it is in, 0 in command mode
  stopped,   \* it does nothing any more
  calls,     \* how many ATDT were sent: the number of the last call
  started    \* how many programs were started

driverVars == <<program, pc, attempt, result, started>>
modemVars == <<mode, call, stopped>>
vars == <<driverVars, modemVars, toModem, toHost, calls>>

-----------------------------------------------------------------------------
\* The steps of the driver: "drain", a string to write, or a read, by what it wants.

InitSteps ==
  <<"drain", "+++", "drain", "ATH", "ignored", "drain", "ATZ", "ok", "drain",
    "ATE0", "ok", "ATX3", "ok", "drain">>

ConfigureSteps == [i \in 1..(3 * Len(Commands)) |->
  CASE i % 3 = 1 -> "drain" [] i % 3 = 2 -> Commands[(i + 1) \div 3] [] OTHER -> "ok"]

DialSteps == <<"drain", "ATDT", "result">>

HangupSteps == <<"+++", "ATH", "ignored">>

Script == InitSteps \o ConfigureSteps \o DialSteps \o <<"talk">> \o HangupSteps \o <<"close">>

ResultAt == Len(InitSteps \o ConfigureSteps \o DialSteps)
TalkAt == ResultAt + 1
HangupAt == ResultAt + 2
CloseAt == Len(Script)

Step == IF program = "none" THEN "none" ELSE Script[pc]
GoTo(n) == pc' = n /\ UNCHANGED <<program, attempt, started>>

NoResult == [is |-> "none", of |-> {}]

Init ==
  /\ program = "none" /\ pc = 1 /\ attempt = 1 /\ result = NoResult /\ started = 0
  /\ toModem = <<>> /\ toHost = <<>> /\ calls = 0
  /\ mode = "command" /\ call = 0 /\ stopped = FALSE

-----------------------------------------------------------------------------
\* The programs.

\* oob-hub dials, or oob-probe is started; Open.
Start ==
  /\ program = "none" /\ started < Programs /\ (stopped \/ Len(toModem) <= Backlog)
  /\ program' \in {"hub", "probe"}
  /\ started' = started + 1
  /\ pc' = 1 /\ attempt' = 1 /\ result' = NoResult
  /\ UNCHANGED <<modemVars, toModem, toHost, calls>>

\* The program is killed.  Its terminal may lose what was not read when it closes.
Dies ==
  /\ program # "none"
  /\ program' = "none" /\ pc' = 1
  /\ toHost' \in {toHost, <<>>}
  /\ UNCHANGED <<attempt, started, result, modemVars, toModem, calls>>

Drain ==
  /\ Step = "drain"
  /\ toHost' = <<>>
  /\ GoTo(pc + 1)
  /\ UNCHANGED <<result, modemVars, toModem, calls>>

\* What follows a step that failed: an error in Init or Configure ends the program's
\* use of the modem, Hangup stops at its own, and what Init writes before ATZ may fail.
AfterError ==
  CASE pc < ResultAt /\ Script[pc] \in {"+++", "ATH"} -> pc + 1
    [] pc < ResultAt /\ Script[pc] = "ATDT" /\ program = "hub" -> HangupAt
    [] OTHER -> CloseAt

Write ==
  /\ Step \in {"+++", "ATH", "ATZ", "ATE0", "ATX3", "CFG", "ATDT"}
  /\ calls' = IF Step = "ATDT" THEN calls + 1 ELSE calls
  /\ \/ /\ toModem' = Append(toModem, [cmd |-> Step, call |-> calls'])
        /\ GoTo(pc + 1) /\ UNCHANGED result
     \/ /\ GoTo(AfterError) /\ UNCHANGED toModem
        /\ result' = IF Step = "ATDT" THEN [is |-> "ERROR", of |-> {}] ELSE result
  /\ UNCHANGED <<modemVars, toHost>>

Matches ==
  CASE Step = "result" -> {"CONNECT", "BUSY", "NO_CARRIER", "NO_DIALTONE", "ERROR"}
    [] Step = "ignored" /\ pc < ResultAt -> {"OK", "ERROR", "NO_CARRIER"}
    [] OTHER -> {"OK", "ERROR"}

Words(answers) == {answers[i].says : i \in 1..Len(answers)}

\* readUntil returns what it has read once a match is in it.  A read takes what is
\* there; n of it came in time.
Matched(n) == Words(SubSeq(toHost, 1, n)) \intersect Matches # {}

ReadsUntil(n) ==
  /\ Matched(n)
  /\ toHost' = SubSeq(toHost, n + 1, Len(toHost))
  /\ UNCHANGED <<modemVars, toModem, calls>>

\* Mutant: the deadline is looked at only after something was read.
UnansweredAfterData == toHost # <<>> /\ ~Matched(Len(toHost))

\* The deadline passes, or a read fails, with no match in what came.
Unanswered == ~Matched(Len(toHost))

\* Mutant: a command that is not answered in time is taken for done.
AfterTimeoutGoesOn == pc + 1

AfterTimeout == CloseAt

\* The answer to ATZ, ATE0, ATX3 or a command of modem_init.
ReadOK ==
  /\ Step = "ok"
  /\ \/ \E n \in 1..Len(toHost) :
          /\ ReadsUntil(n)
          /\ GoTo(IF "ERROR" \in Words(SubSeq(toHost, 1, n)) THEN CloseAt ELSE pc + 1)
     \/ /\ Unanswered /\ toHost' = <<>>
        /\ GoTo(AfterTimeout)
        /\ UNCHANGED <<modemVars, toModem, calls>>
  /\ UNCHANGED result

\* The answer to ATH, which nobody looks at.
ReadIgnored ==
  /\ Step = "ignored"
  /\ \/ \E n \in 1..Len(toHost) : ReadsUntil(n)
     \/ Unanswered /\ toHost' = <<>> /\ UNCHANGED <<modemVars, toModem, calls>>
  /\ GoTo(pc + 1)
  /\ UNCHANGED result

\* The result of Dial: the first of these that was read.
Order == <<"CONNECT", "BUSY", "NO_CARRIER", "NO_DIALTONE", "ERROR">>

ResultOf(answers) ==
  LET first == CHOOSE i \in 1..5 : /\ Order[i] \in Words(answers)
                                   /\ \A j \in 1..(i - 1) : Order[j] \notin Words(answers)
      about == {i \in 1..Len(answers) : answers[i].says = Order[first]} IN
    [is |-> Order[first], of |-> {answers[i].call : i \in about}]

\* After a result that is not CONNECT acquireAndDial hangs up, oob-probe just closes.
Failed == IF program = "hub" THEN HangupAt ELSE CloseAt

ReadResult ==
  /\ Step = "result"
  /\ \/ \E n \in 1..Len(toHost) :
          /\ ReadsUntil(n)
          /\ result' = ResultOf(SubSeq(toHost, 1, n))
     \/ /\ Unanswered /\ toHost' = <<>>
        /\ stopped \/ toModem = <<>>
        /\ result' = [is |-> "TIMEOUT", of |-> {}]
        /\ UNCHANGED <<modemVars, toModem, calls>>
  /\ GoTo(IF result'.is = "CONNECT" THEN TalkAt ELSE Failed)

\* The terminal, or connectedLoop of oob-probe: it reads what there is, and writes.
Talk ==
  /\ Step = "talk"
  /\ \/ toHost # <<>> /\ toHost' = <<>> /\ UNCHANGED toModem
     \/ /\ toModem = <<>> /\ toModem' = <<[cmd |-> "CR", call |-> calls]>>
        /\ UNCHANGED toHost
  /\ UNCHANGED <<driverVars, modemVars, calls>>

\* The user, a signal or the time limit ends it with Hangup; a failed read without.
TalkEnds ==
  /\ Step = "talk"
  /\ GoTo(HangupAt) \/ GoTo(CloseAt)
  /\ UNCHANGED <<result, modemVars, toModem, toHost, calls>>

retryable == {"NO_CARRIER", "TIMEOUT"}

\* Mutant: one attempt too many.
MoreAttemptsOneMore == attempt <= MaxRetries

MoreAttempts == attempt < MaxRetries

Close ==
  /\ Step = "close"
  /\ toHost' \in {toHost, <<>>}
  /\ pc' = 1
  /\ \/ /\ program = "hub" /\ result.is \in retryable /\ MoreAttempts
        /\ attempt' = attempt + 1 /\ result' = NoResult
        /\ UNCHANGED program
     \/ /\ ~(program = "hub" /\ result.is \in retryable /\ MoreAttempts)
        /\ program' = "none"
        /\ UNCHANGED <<attempt, result>>
  /\ UNCHANGED <<started, modemVars, toModem, calls>>

Driver == Drain \/ Write \/ ReadOK \/ ReadIgnored \/ ReadResult \/ Close

-----------------------------------------------------------------------------
\* The modem, and the other end of its line.

Emit(word, about) == toHost' = Append(toHost, [says |-> word, call |-> about])

Hook(m, c) == mode' = m /\ call' = c /\ UNCHANGED stopped

\* A character ends a call that is being set up, and is lost.
Abort ==
  /\ mode = "dialing" /\ toModem # <<>>
  /\ Emit("NO_CARRIER", call) /\ Hook("command", 0)

\* "+++" takes effect when nothing is sent around it, or passes as data.
Data ==
  /\ mode = "online" /\ toModem # <<>>
  /\ \/ Head(toModem).cmd = "+++" /\ Len(toModem) = 1 /\ Emit("OK", 0) /\ Hook("escaped", call)
     \/ UNCHANGED <<modemVars, toHost>>

Command ==
  /\ mode \in {"command", "escaped"} /\ toModem # <<>>
  /\ LET head == Head(toModem) IN
       \/ head.cmd \in {"+++", "CR"} /\ UNCHANGED <<modemVars, toHost>>
       \/ /\ head.cmd \in {"ATH", "ATZ"} /\ Hook("command", 0)
          /\ Emit("OK", 0) \/ Emit("ERROR", 0) \/ (mode = "escaped" /\ Emit("NO_CARRIER", call))
       \/ /\ head.cmd \in {"ATE0", "ATX3", "CFG"} /\ UNCHANGED modemVars
          /\ Emit("OK", 0) \/ Emit("ERROR", 0)
       \/ /\ head.cmd = "ATDT"
          /\ \/ mode = "command" /\ Hook("dialing", head.call) /\ UNCHANGED toHost
             \/ Emit("ERROR", 0) /\ UNCHANGED modemVars

Modem ==
  /\ ~stopped
  /\ Abort \/ Data \/ Command
  /\ toModem' = Tail(toModem)
  /\ UNCHANGED <<driverVars, calls>>

Line ==
  /\ ~stopped
  /\ \/ /\ mode = "dialing"
        /\ \/ Emit("CONNECT", call) /\ Hook("online", call)
           \/ \E word \in {"BUSY", "NO_CARRIER", "NO_DIALTONE"} :
                Emit(word, call) /\ Hook("command", 0)
     \/ /\ mode \in {"online", "escaped"}
        /\ Emit("NO_CARRIER", call) /\ Hook("command", 0)
  /\ UNCHANGED <<driverVars, toModem, calls>>

Stops ==
  /\ ~stopped /\ stopped' = TRUE
  /\ UNCHANGED <<driverVars, mode, call, toModem, toHost, calls>>

Next == Start \/ Dies \/ Driver \/ Talk \/ TalkEnds \/ Modem \/ Line \/ Stops

Spec == Init /\ [][Next]_vars

\* The driver runs; a modem that has not stopped comes to what was written.
FairSpec == Spec /\ WF_vars(Driver) /\ WF_vars(Modem)
-----------------------------------------------------------------------------
Answers == [says : {"OK", "CONNECT", "BUSY", "NO_CARRIER", "NO_DIALTONE", "ERROR"},
            call : 0..calls]

TypeOK ==
  /\ program \in {"none", "hub", "probe"}
  /\ pc \in 1..Len(Script)
  /\ attempt \in 1..MaxRetries
  /\ result \in [is : {"none", "TIMEOUT", "CONNECT", "BUSY", "NO_CARRIER", "NO_DIALTONE", "ERROR"},
                 of : SUBSET (0..calls)]
  /\ toModem \in Seq([cmd : {"+++", "ATH", "ATZ", "ATE0", "ATX3", "CFG", "ATDT", "CR"},
                      call : 0..calls])
  /\ toHost \in Seq(Answers)
  /\ mode \in {"command", "dialing", "online", "escaped"}
  /\ call \in 0..calls /\ (call = 0 <=> mode = "command") /\ stopped \in BOOLEAN
  /\ calls \in 0..(Programs * MaxRetries)
  /\ started \in 0..Programs

\* What Dial reports of a call is about the call it made, whatever earlier attempts
\* and programs left behind: no old CONNECT, BUSY or NO CARRIER is taken for it, as long
\* as no more than Backlog commands wait for the modem when a program opens it.  (ERROR
\* may be the late answer to an earlier command.)
ResultIsOurs ==
  result.is \in {"CONNECT", "BUSY", "NO_CARRIER", "NO_DIALTONE"} => result.of = {calls}

\* While Dial waits for its result no older call is up: Init has cleared the line, or
\* has failed.
LineIsCleared == Step = "result" /\ mode # "command" => call = calls

(***************************************************************************)
(* The inductive invariant behind these.                                   *)
(***************************************************************************)
Dials == {i \in 1..Len(toModem) : toModem[i].cmd = "ATDT"}

OKs(answers) == {i \in 1..Len(answers) : answers[i].says = "OK"}

\* The answers that Init and Configure still read from step n on.
Due(n) == {i \in n..ResultAt : Script[i] = "ok"}

\* Which calls words are about: an OK or ERROR is about none.
Numbered ==
  /\ \A i \in 1..Len(toHost) : toHost[i].call = 0 <=> toHost[i].says \in {"OK", "ERROR"}
  /\ \A i \in Dials : toModem[i].call # 0

\* Whoever gets the modem to escape hangs up next.
HangsUp(c) == c.cmd \in {"ATH", "ATZ"}

MayHangUp == program = "none" \/ pc <= 7 \/ pc >= HangupAt

NoCommand(i) == toModem[i].cmd \in {"+++", "CR"}

EscapeHangsUp ==
  /\ mode = "escaped" =>
       \/ MayHangUp /\ \A i \in 1..Len(toModem) : NoCommand(i)
       \/ \E i \in 1..Len(toModem) : HangsUp(toModem[i]) /\ \A j \in 1..(i - 1) : NoCommand(j)
  /\ toModem # <<>> /\ toModem[Len(toModem)].cmd = "+++" => MayHangUp /\ pc # HangupAt

\* What may still make Init succeed on old answers: those that are there, and those that
\* the modem gives before it has done n commands.
Late == IF pc = 1 THEN 0 ELSE Cardinality(OKs(toHost))
Coming(n) == IF stopped THEN 0 ELSE n

\* A line that is not clear yet, or will be in use again by an old ATDT, leaves too few of
\* them: Init cannot come to its end while it lasts.
ClearsOrFails ==
  program # "none" /\ pc < ResultAt - 1 =>
    /\ \A i \in Dials : Late + Coming(i) < Cardinality(Due(pc))
    /\ mode \in {"dialing", "online"} => Late + Coming(1) < Cardinality(Due(pc))
    /\ mode = "escaped" => Late < Cardinality(Due(pc))

\* When Dial comes to it the line is clear; from then on there is its own call only.
OwnCall ==
  /\ program # "none" /\ pc = ResultAt - 1 =>
       mode = "command" /\ Dials = {} /\ \A i \in 1..Len(toHost) : toHost[i].call = 0
  /\ program # "none" /\ pc = ResultAt =>
       /\ call \in {0, calls}
       /\ \A i \in 1..Len(toHost) : toHost[i].call \in {0, calls}
       /\ \A i \in Dials : /\ toModem[i].call = calls /\ call = 0 /\ Dials = {i}
                           /\ \A j \in 1..Len(toHost) : toHost[j].call = 0

\* A result that is tried again leaves no ATDT behind.
Retried ==
  /\ program # "none" /\ pc <= ResultAt => result = NoResult
  /\ program # "none" /\ pc > ResultAt /\ result.is \in retryable => stopped \/ Dials = {}

\* Every attempt of every program makes one call at most.
CallsCounted ==
  IF program = "none" THEN calls <= started * MaxRetries
  ELSE /\ started > 0
       /\ calls + (IF pc < ResultAt THEN 1 ELSE 0) <= (started - 1) * MaxRetries + attempt

ModemInv ==
  /\ TypeOK /\ CallsCounted /\ Numbered /\ EscapeHangsUp
  /\ ClearsOrFails /\ OwnCall /\ Retried /\ ResultIsOurs

\* Every dial comes to its end, also with a modem that never answers.
DialReturns == []<>(program = "none" \/ pc = TalkAt)
=============================================================================
