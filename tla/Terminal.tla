------------------------------ MODULE Terminal ------------------------------
(***************************************************************************)
(* The terminals of one SSH session, one after the other                   *)
(* (internal/tui/terminal.go): Run starts a goroutine that shows what the  *)
(* modem sends (reader), one that sends what the user types (user) and one *)
(* that sends Enter until the remote responds (waker), waits for the first *)
(* value in the channel done and cleans up while the others may still run. *)
(* The reader ends by a read error, which also comes from the session log; *)
(* the goroutine that reads the keys of a terminal that ended stays in     *)
(* Read until the next key, which it takes from whatever is on the screen. *)
(*                                                                         *)
(* Time passes in ticks for the guard time of the modem, the sleeps of     *)
(* Modem.Hangup and the ticker of the waker, and not between two           *)
(* statements of the waker: a goroutine that can run does.  A sleep and a  *)
(* ticker may take longer than asked.  LineBuffer has what the keys do to  *)
(* a line, and Console what becomes of the device lock.                    *)
(***************************************************************************)
EXTENDS Naturals, Sequences

CONSTANTS
  Last,        \* the number of terminals; bounds the model
  Guard,       \* ticks of silence around +++ that the modem asks for
  Pause,       \* ticks of the sleeps in Modem.Hangup
  WakePeriod,  \* ticks between two wake-ups
  Capacity,    \* of the channel done
  LogFails     \* whether a write to the session log may fail

ASSUME TerminalAssumption ==
  /\ Last \in Nat
  /\ Guard \in Nat \ {0} /\ Pause \in Nat /\ Pause > Guard
  /\ WakePeriod \in Nat \ {0} /\ Capacity \in Nat \ {0}
  /\ LogFails \in BOOLEAN

VARIABLES
  \* the terminal that runs or ran last
  main,                 \* where Run and its cleanup are
  reader, user, waker,  \* its goroutines
  gotData, carrierLost, \* its atomics
  done,                 \* the values in its channel
  ret,                  \* what Run returns
  leftover,     \* the user goroutines of earlier terminals that still read keys
  conn,         \* the SSH connection is up
  line,         \* the modem: "idle", "data", "escaping" after a +++, or "command"
  quiet,        \* ticks since the last character it got, up to Guard
  pause,        \* ticks left of the sleep in Hangup
  due,          \* ticks left until the ticker fires
  \* history, for the properties
  spoke,        \* the remote had spoken when the hang-up began
  logRefused,   \* an error of the session log was taken for one of the modem
  woken,        \* the waker wrote while Hangup was under way
  started,      \* the terminals so far
  abandoned,    \* those that ended while their user goroutine was reading
  swallowed     \* the Enters such a goroutine took

procs == <<main, reader, user, waker, leftover>>
shared == <<gotData, carrierLost, done, ret>>
modem == <<line, quiet>>
time == <<pause, due>>
history == <<spoke, logRefused, woken, started, abandoned, swallowed>>
vars == <<procs, shared, conn, modem, time, history>>

Init ==
  /\ main = "over" /\ reader = "end" /\ user = "end" /\ waker = "end"
  /\ gotData = FALSE /\ carrierLost = FALSE /\ done = <<>> /\ ret = "none"
  /\ leftover = 0
  /\ conn = TRUE
  /\ line = "idle" /\ quiet = 0
  /\ pause = 0 /\ due = 0
  /\ spoke = FALSE /\ logRefused = FALSE /\ woken = FALSE
  /\ started = 0 /\ abandoned = 0 /\ swallowed = 0

DeviceOpen == main \notin {"unlock", "over"}
LogOpen == main \in {"run", "log"}

\* Run, with the modem that a dial connected.  Modem.Init slept before the dial:
\* the reader and the waker of the last terminal have met its closed modem.
Start ==
  /\ main = "over" /\ reader = "end" /\ waker = "end" /\ user \in {"read", "end"}
  /\ conn /\ started < Last
  /\ main' = "run" /\ reader' = "read" /\ user' = "read" /\ waker' = "write"
  /\ leftover' = IF user = "read" THEN leftover + 1 ELSE leftover
  /\ gotData' = FALSE /\ carrierLost' = FALSE /\ done' = <<>> /\ ret' = "none"
  /\ line' = "data" /\ quiet' = 0
  /\ due' = WakePeriod
  /\ spoke' = FALSE /\ logRefused' = FALSE /\ woken' = FALSE
  /\ started' = started + 1
  /\ UNCHANGED <<conn, pause, abandoned, swallowed>>

-----------------------------------------------------------------------------
\* The modem: characters from the host, silence, and the remote end.

Characters ==
  /\ quiet' = 0
  /\ line' = IF line = "escaping" THEN "data" ELSE line

EscapeSequence ==
  /\ quiet' = 0
  /\ line' = IF line = "data" /\ quiet = Guard THEN "escaping"
             ELSE IF line = "escaping" THEN "data" ELSE line

HangupCommand ==
  /\ quiet' = 0
  /\ line' = IF line = "command" THEN "idle" ELSE IF line = "escaping" THEN "data" ELSE line

\* Mutant: a wait that is over goes on.
LessAndLess(n) == n - 1

Less(n) == IF n > 0 THEN n - 1 ELSE 0

Tick ==
  /\ quiet < Guard \/ pause > 0 \/ due > 0
  /\ waker # "write"
  /\ quiet' = IF quiet < Guard THEN quiet + 1 ELSE quiet
  /\ pause' = Less(pause)
  /\ due' = Less(due)
  /\ line' = IF line = "escaping" /\ quiet' = Guard THEN "command" ELSE line
  /\ UNCHANGED <<procs, shared, conn, history>>

RemoteHangsUp ==
  /\ line # "idle"
  /\ line' = "idle"
  /\ UNCHANGED <<procs, shared, conn, quiet, time, history>>

Disconnect ==
  /\ conn
  /\ conn' = FALSE
  /\ UNCHANGED <<procs, shared, modem, time, history>>

-----------------------------------------------------------------------------
\* Modem to user.

\* How much of what was read the write to the log takes: one that fails may take a
\* part, a closed log takes nothing.
LogTakes == IF ~LogOpen THEN {"none"} ELSE IF LogFails THEN {"all", "part", "none"} ELSE {"all"}

\* The modem has data, of the remote or its own.  Read returns as much of it as the log
\* took, with the error of the log; that much sets gotData and is shown, and then the
\* error counts.
Read ==
  /\ reader = "read" /\ DeviceOpen
  /\ \/ \E taken \in LogTakes \ {"none"} :
          /\ gotData' = TRUE
          /\ \/ /\ reader' = IF taken = "all" THEN "read" ELSE "store"
                /\ logRefused' = (logRefused \/ taken # "all")
             \/ /\ ~conn
                /\ reader' = "sendWrite"
                /\ UNCHANGED logRefused
     \/ /\ "none" \in LogTakes
        /\ reader' = "store"
        /\ logRefused' = TRUE
        /\ UNCHANGED gotData
  /\ UNCHANGED <<main, user, waker, leftover, carrierLost, done, ret, conn, modem, time,
                 spoke, woken, started, abandoned, swallowed>>

\* Read returns an error alone: the carrier is lost, the device is closed, or
\* the deadline that readUntil sets in Hangup has passed.
ReadError ==
  /\ reader = "read"
  /\ line = "idle" \/ ~DeviceOpen \/ main = "answer"
  /\ reader' = "store"
  /\ UNCHANGED <<main, user, waker, leftover, shared, conn, modem, time, history>>

\* Mutant: done is not buffered, and Run receives one value only.
SendUnbuffered(v) == main = "run" /\ done = <<>> /\ done' = Append(done, v)

\* done <- v, which waits for room in the channel.
Send(v) == Len(done) < Capacity /\ done' = Append(done, v)

\* Mutant: the error is sent before the carrier is marked lost.
SendThenStore ==
  \/ /\ reader = "store" /\ Send("read")
     /\ reader' = "sendRead"
     /\ UNCHANGED carrierLost
  \/ /\ reader = "sendRead"
     /\ carrierLost' = TRUE
     /\ reader' = "end"
     /\ UNCHANGED done

StoreThenSend ==
  \/ /\ reader = "store"
     /\ carrierLost' = TRUE
     /\ reader' = "sendRead"
     /\ UNCHANGED done
  \/ /\ reader = "sendRead" /\ Send("read")
     /\ reader' = "end"
     /\ UNCHANGED carrierLost

ReaderEnds ==
  /\ \/ StoreThenSend
     \/ reader = "sendWrite" /\ Send("write") /\ reader' = "end" /\ UNCHANGED carrierLost
  /\ UNCHANGED <<main, user, waker, leftover, gotData, ret, conn, modem, time, history>>

-----------------------------------------------------------------------------
\* User to modem.

\* Mutant: the error of the write to the modem is ignored.
EndsByWriteErrorIgnored == FALSE

\* userToModem returns the error of the write to a modem that is closed.
EndsByWriteError == TRUE

Swallow == swallowed' = IF swallowed <= Last THEN swallowed + 1 ELSE swallowed

\* Enter sends the line; a modem that is closed or lost its carrier may refuse it.
KeyEnter ==
  /\ user = "read"
  /\ \/ DeviceOpen /\ Characters /\ UNCHANGED <<user, swallowed>>
     \/ /\ ~DeviceOpen \/ line = "idle"
        /\ user' = IF EndsByWriteError THEN "sendWrite" ELSE "read"
        /\ IF DeviceOpen THEN UNCHANGED swallowed ELSE Swallow
        /\ UNCHANGED modem
  /\ UNCHANGED <<main, reader, waker, leftover, shared, conn, time, spoke, logRefused,
                 woken, started, abandoned>>

\* Ctrl+C or the escape; the end of the SSH connection.
KeyLeave ==
  /\ user = "read"
  /\ user' = "sendNil" \/ (~conn /\ user' = "sendStdin")
  /\ UNCHANGED <<main, reader, waker, leftover, shared, conn, modem, time, history>>

StdinEOF == ~conn /\ KeyLeave

\* A key for a user goroutine of an earlier terminal; its channel has room.
KeyToLeftover ==
  /\ leftover > 0
  /\ \/ /\ leftover' = IF EndsByWriteError THEN leftover - 1 ELSE leftover
        /\ Swallow
     \/ leftover' = leftover - 1 /\ UNCHANGED swallowed
  /\ UNCHANGED <<main, reader, user, waker, shared, conn, modem, time, spoke, logRefused,
                 woken, started, abandoned>>

UserEnds ==
  /\ \/ user = "sendNil" /\ Send("nil")
     \/ user = "sendStdin" /\ Send("stdin")
     \/ user = "sendWrite" /\ Send("write")
  /\ user' = "end"
  /\ UNCHANGED <<main, reader, waker, leftover, gotData, carrierLost, ret, conn, modem,
                 time, history>>

-----------------------------------------------------------------------------
\* The wake-up goroutine: an Enter at once and at every tick of its ticker.

\* Mutant: the waker does not look whether the remote has responded.
RespondedIgnored == FALSE

Responded == gotData

WakeTick ==
  /\ waker = "tick" /\ due = 0
  /\ due' = WakePeriod
  /\ waker' = IF Responded THEN "end" ELSE "write"
  /\ UNCHANGED <<main, reader, user, leftover, shared, conn, modem, pause, history>>

WakeWrite ==
  /\ waker = "write"
  /\ \/ /\ DeviceOpen /\ Characters
        /\ waker' = "tick"
        /\ woken' = (woken \/ main \in {"escape", "hangup"})
     \/ /\ ~DeviceOpen \/ line = "idle"
        /\ waker' = "end"
        /\ UNCHANGED <<modem, woken>>
  /\ UNCHANGED <<main, reader, user, leftover, shared, conn, time, spoke, logRefused,
                 started, abandoned, swallowed>>

-----------------------------------------------------------------------------
\* Run after the first value, and its deferred cleanup.

At(phase, next) == main = phase /\ main' = next

\* Mutant: Run waits for both directions.
EnoughBoth == Len(done) = 2

Enough == done # <<>>

Receive ==
  /\ At("run", "log") /\ Enough
  /\ ret' = Head(done)
  /\ done' = Tail(done)
  /\ UNCHANGED <<reader, user, waker, leftover, gotData, carrierLost, conn, modem, time,
                 history>>

CloseLog ==
  /\ At("log", "carrier")
  /\ UNCHANGED <<reader, user, waker, leftover, shared, conn, modem, time, history>>

\* carrierLost.Load, and the first sleep of Hangup.
LoadCarrierLost ==
  /\ \/ At("carrier", "close") /\ carrierLost /\ UNCHANGED pause
     \/ At("carrier", "escape") /\ ~carrierLost /\ pause' = Pause
  /\ spoke' = gotData
  /\ UNCHANGED <<reader, user, waker, leftover, shared, conn, modem, due, logRefused,
                 woken, started, abandoned, swallowed>>

\* Modem.Hangup: +++ and ATH, each after a sleep, and the wait for an answer; a
\* write that fails ends it.
Hangup ==
  /\ \/ At("escape", "hangup") /\ pause = 0 /\ EscapeSequence /\ pause' = Pause
     \/ At("hangup", "answer") /\ pause = 0 /\ HangupCommand /\ UNCHANGED pause
     \/ At("answer", "close") /\ UNCHANGED <<modem, pause>>
     \/ /\ At("escape", "close") \/ At("hangup", "close")
        /\ pause = 0 /\ line = "idle"
        /\ UNCHANGED <<modem, pause>>
  /\ UNCHANGED <<reader, user, waker, leftover, shared, conn, due, history>>

\* Modem.Close, then DeviceLock.Release.
CloseModem ==
  /\ \/ /\ At("close", "unlock")
        /\ abandoned' = IF user = "read" THEN abandoned + 1 ELSE abandoned
     \/ At("unlock", "over") /\ UNCHANGED abandoned
  /\ UNCHANGED <<reader, user, waker, leftover, shared, conn, modem, time, spoke,
                 logRefused, woken, started, swallowed>>

Main == Receive \/ CloseLog \/ LoadCarrierLost \/ Hangup \/ CloseModem

Waker == WakeTick \/ WakeWrite

Next ==
  \/ Start \/ Main \/ Tick \/ RemoteHangsUp \/ Disconnect
  \/ Read \/ ReadError \/ ReaderEnds
  \/ KeyEnter \/ KeyLeave \/ KeyToLeftover \/ UserEnds
  \/ Waker

Spec == Init /\ [][Next]_vars

\* Time passes, goroutines run, a Read of a closed file returns and stdin ends
\* with the connection.  Nothing is assumed of the keys, the remote end or the log.
Fairness ==
  /\ WF_vars(Tick) /\ WF_vars(Main) /\ WF_vars(Waker)
  /\ WF_vars(ReaderEnds) /\ WF_vars(UserEnds) /\ WF_vars(StdinEOF)
  /\ WF_vars(ReadError /\ ~DeviceOpen)

FairSpec == Spec /\ Fairness
-----------------------------------------------------------------------------
Values == {"nil", "stdin", "read", "write"}

TypeOK ==
  /\ main \in {"run", "log", "carrier", "escape", "hangup", "answer", "close", "unlock", "over"}
  /\ reader \in {"read", "store", "sendRead", "sendWrite", "end"}
  /\ user \in {"read", "sendNil", "sendStdin", "sendWrite", "end"}
  /\ waker \in {"tick", "write", "end"}
  /\ gotData \in BOOLEAN /\ carrierLost \in BOOLEAN /\ conn \in BOOLEAN
  /\ spoke \in BOOLEAN /\ logRefused \in BOOLEAN /\ woken \in BOOLEAN
  /\ done \in Seq(Values)
  /\ ret \in Values \union {"none"}
  /\ leftover \in 0..Last /\ started \in 0..Last /\ abandoned \in 0..Last
  /\ swallowed \in 0..(Last + 1)
  /\ line \in {"idle", "data", "escaping", "command"}
  /\ quiet \in 0..Guard /\ pause \in 0..Pause /\ due \in 0..WakePeriod

\* A terminal leaves no call behind: Hangup has its silence before and after +++, and
\* once the remote has spoken the waker keeps it too.  Three things may undo it, and no
\* other: a waker that writes into Hangup because the remote never spoke, a session log
\* that refused data, which counts as a lost carrier, and keys still in flight when the
\* connection that showed the data broke.
HangupEndsCall ==
  main = "over" => line = "idle" \/ logRefused \/ ret = "write" \/ (woken /\ ~spoke)

\* When Run returns the read error, cleanup knows that the carrier is lost and
\* does not send +++ and ATH into the modem.
NoHangupAfterReadError ==
  main \in {"escape", "hangup", "answer"} => ret # "read"

\* A terminal that ended under its user costs one line at most: the goroutine
\* that still reads the keys takes them up to the first Enter.
SwallowsOneLine == swallowed <= abandoned

\* After Run has taken its one value nobody takes another, and a goroutine that has
\* not ended, also one that types into the next terminal, finds room for its value.
LastHasRoom ==
  main # "run" /\ (reader # "end" \/ user # "end") => Len(done) < Capacity

(***************************************************************************)
(* The inductive invariants behind these, one for each.                    *)
(***************************************************************************)
One(holds) == IF holds THEN 1 ELSE 0

Sent(v) == \E i \in 1..Len(done) : done[i] = v

\* Every terminal has one user goroutine; it is left over and takes a line only if its
\* terminal abandoned it.
LinesInv ==
  /\ leftover + One(user = "read") <= started
  /\ abandoned + One(DeviceOpen) <= started
  /\ swallowed + leftover + One(user = "read" /\ ~DeviceOpen) <= abandoned

\* Either direction sends when it ends, and only then.
DoneInv == Len(done) + One(main # "run") <= One(reader = "end") + One(user = "end")

\* A read error is known as a lost carrier before it is on its way to Run.
CarrierInv ==
  /\ reader = "sendRead" \/ Sent("read") \/ ret = "read" => carrierLost
  /\ NoHangupAfterReadError

\* Who types no more, and what has become of the modem before Hangup comes to it.
TalkInv ==
  /\ main \in {"run", "log", "carrier"} /\ (carrierLost \/ reader \in {"store", "sendRead"})
       => line = "idle" \/ logRefused
  /\ Sent("nil") \/ Sent("stdin") \/ ret \in {"nil", "stdin"} => user = "end"
  /\ main \in {"log", "carrier", "escape", "hangup", "answer"} => ret # "none"
  /\ main \in {"run", "log", "carrier", "escape"} => line \in {"data", "idle"}
  /\ spoke => gotData

\* Nobody but Hangup sends to the modem: the silence that it needs is there, or will
\* be when its sleep is over.
Alone == (spoke \/ ~woken) /\ ~logRefused /\ ret # "write"

SilenceInv ==
  Alone =>
    /\ main = "escape" =>
         /\ spoke /\ waker = "write" => pause = Pause
         /\ quiet + pause >= Guard
    /\ main = "hangup" =>
         /\ spoke => waker # "write"
         /\ \/ line \in {"idle", "command"}
            \/ line = "escaping" /\ quiet < Guard /\ quiet + pause >= Guard
    /\ main \in {"answer", "close", "unlock", "over"} => line = "idle"

TerminalInv == TypeOK /\ LinesInv /\ DoneInv /\ CarrierInv /\ TalkInv /\ SilenceInv

\* Either direction ends the terminal, and cleanup gives the device back.
EitherSideEnds ==
  (main = "run" /\ (reader = "end" \/ user = "end")) ~> main = "over"

\* The reader and the waker of a terminal that ended end too, without a key: their
\* reads and writes fail once the modem is closed, and done has room for both.
GoroutinesEnd == main = "over" ~> reader = "end" /\ waker = "end"

(***************************************************************************)
(* What the comments and the messages say, and the code does not do.       *)
(***************************************************************************)

\* modem.go:183 "Hangup sends the escape sequence and ATH to hang up": a terminal whose
\* carrier was not taken for lost, and whose user types no more, leaves no call behind.
HangupHangsUp ==
  main = "over" => line = "idle" \/ logRefused \/ ret = "write"

\* terminal.go:211 "carrier already lost, skipping hangup": when cleanup goes past
\* Hangup, there is no carrier.
SkipsOnlyLostCarrier == [][main = "carrier" /\ main' = "close" => line = "idle"]_vars
=============================================================================
