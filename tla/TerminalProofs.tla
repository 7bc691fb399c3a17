--------------------------- MODULE TerminalProofs ---------------------------
(***************************************************************************)
(* Proofs about Terminal, for every number of terminals and every guard    *)
(* time, sleep and period that the assumption allows: what cleanup does to *)
(* the modem, and what a user goroutine that outlives its terminal takes.  *)
(***************************************************************************)
EXTENDS Terminal, TLAPS

USE TerminalAssumption

LEMMA InitTerminalInv == Init => TerminalInv
<1> SUFFICES ASSUME Init PROVE TerminalInv
    OBVIOUS
<1>1. TypeOK
  <2>1. done \in Seq(Values)
    BY DEF Init
  <2>2. /\ gotData \in BOOLEAN /\ carrierLost \in BOOLEAN /\ conn \in BOOLEAN
        /\ spoke \in BOOLEAN /\ logRefused \in BOOLEAN /\ woken \in BOOLEAN
    BY DEF Init
  <2> QED BY <2>1, <2>2 DEF Init, TypeOK, Values
<1>2. LinesInv
  BY DEF Init, LinesInv, One, DeviceOpen
<1>3. DoneInv
  BY DEF Init, DoneInv, One
<1>4. CarrierInv /\ TalkInv /\ SilenceInv
  BY DEF Init, CarrierInv, NoHangupAfterReadError, TalkInv, SilenceInv, Alone, Sent
<1> QED BY <1>1, <1>2, <1>3, <1>4 DEF TerminalInv

\* What a send and a receive do to the values in the channel.
LEMMA SentGrows ==
  ASSUME TypeOK, NEW v \in Values, Send(v)
  PROVE  done' \in Seq(Values) /\ \A u : Sent(u)' => Sent(u) \/ u = v
BY DEF TypeOK, Send, Sent

LEMMA SentShrinks ==
  ASSUME TypeOK, Enough, ret' = Head(done), done' = Tail(done)
  PROVE  done' \in Seq(Values) /\ ret' \in Values /\ Sent(ret') /\ \A u : Sent(u)' => Sent(u)
BY DEF TypeOK, Enough, Sent

LEMMA ReaderSends ==
  ASSUME TypeOK, ReaderEnds
  PROVE  \/ reader = "store" /\ reader' = "sendRead" /\ carrierLost' = TRUE /\ UNCHANGED done
         \/ /\ reader = "sendRead" /\ reader' = "end" /\ UNCHANGED carrierLost
            /\ done' \in Seq(Values) /\ \A u : Sent(u)' => Sent(u) \/ u = "read"
         \/ /\ reader = "sendWrite" /\ reader' = "end" /\ UNCHANGED carrierLost
            /\ done' \in Seq(Values) /\ \A u : Sent(u)' => Sent(u) \/ u = "write"
<1>1. CASE reader = "store"
  BY <1>1 DEF ReaderEnds, StoreThenSend
<1>2. CASE reader = "sendRead" /\ Send("read")
  BY <1>2, SentGrows DEF ReaderEnds, StoreThenSend, Values
<1>3. CASE reader = "sendWrite" /\ Send("write")
  BY <1>3, SentGrows DEF ReaderEnds, StoreThenSend, Values
<1> QED BY <1>1, <1>2, <1>3 DEF ReaderEnds, StoreThenSend

LEMMA UserSends ==
  ASSUME TypeOK, UserEnds
  PROVE  /\ user # "read" /\ user' = "end"
         /\ done' \in Seq(Values)
         /\ \A u : Sent(u)' => Sent(u) \/ u \in {"nil", "stdin", "write"}
BY SentGrows DEF UserEnds, Values

\* A goroutine sends as it ends; Run takes a value as it stops waiting.
LEMMA DoneGrows ==
  ASSUME TypeOK, NEW v \in Values, Send(v)
  PROVE  Len(done') = Len(done) + 1
BY DEF TypeOK, Send

LEMMA DoneShrinks ==
  ASSUME TypeOK, Receive
  PROVE  Len(done) \in Nat \ {0} /\ Len(done') = Len(done) - 1
BY DEF TypeOK, Receive, Enough

LEMMA ReaderSendsAtEnd ==
  ASSUME TypeOK, ReaderEnds
  PROVE  /\ reader # "end"
         /\ \/ reader' # "end" /\ UNCHANGED done
            \/ reader' = "end" /\ Len(done') = Len(done) + 1
BY DoneGrows DEF ReaderEnds, StoreThenSend, Values

LEMMA UserSendsAtEnd ==
  ASSUME TypeOK, UserEnds
  PROVE  user # "end" /\ user' = "end" /\ Len(done') = Len(done) + 1
BY DoneGrows DEF UserEnds, Values

\* Every variable keeps its type.
LEMMA NextTypeOK == TerminalInv /\ [Next]_vars => TypeOK'
<1> SUFFICES ASSUME TerminalInv, [Next]_vars PROVE TypeOK'
    OBVIOUS
<1> USE DEF TypeOK, LinesInv, One, Values, DeviceOpen, procs, shared, modem, time, history
<1> TypeOK /\ LinesInv /\ DoneInv /\ CarrierInv /\ TalkInv /\ SilenceInv
  BY DEF TerminalInv
<1>1. CASE Start
  <2>1. done' \in Seq(Values)
    BY <1>1 DEF Start
  <2>2. started' \in 0..Last /\ leftover' \in 0..Last
    BY <1>1 DEF Start
  <2>3. /\ gotData' \in BOOLEAN /\ carrierLost' \in BOOLEAN /\ conn' \in BOOLEAN
        /\ spoke' \in BOOLEAN /\ logRefused' \in BOOLEAN /\ woken' \in BOOLEAN
    BY <1>1 DEF Start
  <2> QED BY <1>1, <2>1, <2>2, <2>3 DEF Start
<1>2. CASE Receive          BY <1>2, SentShrinks DEF Receive, At
<1>3. CASE CloseLog         BY <1>3 DEF CloseLog, At
<1>4. CASE LoadCarrierLost  BY <1>4 DEF LoadCarrierLost, At
<1>5. CASE Hangup           BY <1>5 DEF Hangup, At, EscapeSequence, HangupCommand
<1>6. CASE CloseModem       BY <1>6 DEF CloseModem, At
<1>7. CASE Tick             BY <1>7 DEF Tick, Less
<1>8. CASE RemoteHangsUp    BY <1>8 DEF RemoteHangsUp
<1>9. CASE Disconnect
  <2>1. conn' \in BOOLEAN
    BY <1>9 DEF Disconnect
  <2> QED BY <1>9, <2>1 DEF Disconnect
<1>10. CASE Read
  <2>1. gotData' \in BOOLEAN /\ logRefused' \in BOOLEAN
    BY <1>10 DEF Read
  <2>2. reader' \in {"read", "store", "sendWrite"}
    BY <1>10 DEF Read
  <2> QED BY <1>10, <2>1, <2>2 DEF Read
<1>11. CASE ReadError       BY <1>11 DEF ReadError
<1>12. CASE ReaderEnds
  <2>1. /\ reader' \in {"sendRead", "end"} /\ done' \in Seq(Values)
        /\ carrierLost' \in BOOLEAN
    BY <1>12, ReaderSends
  <2> QED BY <1>12, <2>1 DEF ReaderEnds
<1>13. CASE KeyEnter        BY <1>13 DEF KeyEnter, Characters, Swallow, EndsByWriteError
<1>14. CASE KeyLeave        BY <1>14 DEF KeyLeave
<1>15. CASE KeyToLeftover   BY <1>15 DEF KeyToLeftover, Swallow, EndsByWriteError
<1>16. CASE UserEnds        BY <1>16, UserSends DEF UserEnds
<1>17. CASE WakeTick        BY <1>17 DEF WakeTick, Responded
<1>18. CASE WakeWrite
  <2>1. woken' \in BOOLEAN
    BY <1>18 DEF WakeWrite
  <2> QED BY <1>18, <2>1 DEF WakeWrite, Characters
<1>19. CASE UNCHANGED vars BY <1>19 DEF vars
<1> QED BY <1>1, <1>2, <1>3, <1>4, <1>5, <1>6, <1>7, <1>8, <1>9, <1>10,
         <1>11, <1>12, <1>13, <1>14, <1>15, <1>16, <1>17, <1>18, <1>19
         DEF Next, Main, Waker

LEMMA NextLinesInv == TerminalInv /\ [Next]_vars => LinesInv'
<1> SUFFICES ASSUME TerminalInv, [Next]_vars PROVE LinesInv'
    OBVIOUS
<1> USE DEF LinesInv, TypeOK, One, DeviceOpen, procs, shared, modem, time, history
<1> TypeOK /\ LinesInv /\ DoneInv /\ CarrierInv /\ TalkInv /\ SilenceInv
  BY DEF TerminalInv
<1>1. CASE Start            BY <1>1 DEF Start
<1>2. CASE Receive          BY <1>2, SentShrinks DEF Receive, At
<1>3. CASE CloseLog         BY <1>3 DEF CloseLog, At
<1>4. CASE LoadCarrierLost  BY <1>4 DEF LoadCarrierLost, At
<1>5. CASE Hangup           BY <1>5 DEF Hangup, At, EscapeSequence, HangupCommand
<1>6. CASE CloseModem       BY <1>6 DEF CloseModem, At
<1>7. CASE Tick             BY <1>7 DEF Tick, Less
<1>8. CASE RemoteHangsUp    BY <1>8 DEF RemoteHangsUp
<1>9. CASE Disconnect       BY <1>9 DEF Disconnect
<1>10. CASE Read            BY <1>10 DEF Read
<1>11. CASE ReadError       BY <1>11 DEF ReadError
<1>12. CASE ReaderEnds      BY <1>12, ReaderSends DEF ReaderEnds
<1>13. CASE KeyEnter        BY <1>13 DEF KeyEnter, Characters, Swallow, EndsByWriteError
<1>14. CASE KeyLeave        BY <1>14 DEF KeyLeave
<1>15. CASE KeyToLeftover   BY <1>15 DEF KeyToLeftover, Swallow, EndsByWriteError
<1>16. CASE UserEnds        BY <1>16, UserSends DEF UserEnds
<1>17. CASE WakeTick        BY <1>17 DEF WakeTick, Responded
<1>18. CASE WakeWrite       BY <1>18 DEF WakeWrite, Characters
<1>19. CASE UNCHANGED vars BY <1>19 DEF vars
<1> QED BY <1>1, <1>2, <1>3, <1>4, <1>5, <1>6, <1>7, <1>8, <1>9, <1>10,
         <1>11, <1>12, <1>13, <1>14, <1>15, <1>16, <1>17, <1>18, <1>19
         DEF Next, Main, Waker

LEMMA NextDoneInv == TerminalInv /\ [Next]_vars => DoneInv'
<1> SUFFICES ASSUME TerminalInv, [Next]_vars PROVE DoneInv'
    OBVIOUS
<1> USE DEF DoneInv, TypeOK, One, procs, shared, modem, time, history
<1> TypeOK /\ LinesInv /\ DoneInv /\ CarrierInv /\ TalkInv /\ SilenceInv
  BY DEF TerminalInv
<1>1. CASE Start            BY <1>1 DEF Start
<1>2. CASE Receive          BY <1>2, DoneShrinks DEF Receive, At
<1>3. CASE CloseLog         BY <1>3 DEF CloseLog, At
<1>4. CASE LoadCarrierLost  BY <1>4 DEF LoadCarrierLost, At
<1>5. CASE Hangup           BY <1>5 DEF Hangup, At, EscapeSequence, HangupCommand
<1>6. CASE CloseModem       BY <1>6 DEF CloseModem, At
<1>7. CASE Tick             BY <1>7 DEF Tick, Less
<1>8. CASE RemoteHangsUp    BY <1>8 DEF RemoteHangsUp
<1>9. CASE Disconnect       BY <1>9 DEF Disconnect
<1>10. CASE Read            BY <1>10 DEF Read
<1>11. CASE ReadError       BY <1>11 DEF ReadError
<1>12. CASE ReaderEnds      BY <1>12, ReaderSendsAtEnd DEF ReaderEnds
<1>13. CASE KeyEnter        BY <1>13 DEF KeyEnter, Characters, Swallow, EndsByWriteError
<1>14. CASE KeyLeave        BY <1>14 DEF KeyLeave
<1>15. CASE KeyToLeftover   BY <1>15 DEF KeyToLeftover, Swallow, EndsByWriteError
<1>16. CASE UserEnds        BY <1>16, UserSendsAtEnd DEF UserEnds
<1>17. CASE WakeTick        BY <1>17 DEF WakeTick, Responded
<1>18. CASE WakeWrite       BY <1>18 DEF WakeWrite, Characters
<1>19. CASE UNCHANGED vars BY <1>19 DEF vars
<1> QED BY <1>1, <1>2, <1>3, <1>4, <1>5, <1>6, <1>7, <1>8, <1>9, <1>10,
         <1>11, <1>12, <1>13, <1>14, <1>15, <1>16, <1>17, <1>18, <1>19
         DEF Next, Main, Waker

LEMMA NextCarrierInv == TerminalInv /\ [Next]_vars => CarrierInv'
<1> SUFFICES ASSUME TerminalInv, [Next]_vars PROVE CarrierInv'
    OBVIOUS
<1> USE DEF CarrierInv, TypeOK, NoHangupAfterReadError, Sent, Values, procs, shared, modem, time, history
<1> TypeOK /\ LinesInv /\ DoneInv /\ CarrierInv /\ TalkInv /\ SilenceInv
  BY DEF TerminalInv
<1>1. CASE Start            BY <1>1 DEF Start
<1>2. CASE Receive          BY <1>2, SentShrinks DEF Receive, At
<1>3. CASE CloseLog         BY <1>3 DEF CloseLog, At
<1>4. CASE LoadCarrierLost  BY <1>4 DEF LoadCarrierLost, At
<1>5. CASE Hangup           BY <1>5 DEF Hangup, At, EscapeSequence, HangupCommand
<1>6. CASE CloseModem       BY <1>6 DEF CloseModem, At
<1>7. CASE Tick             BY <1>7 DEF Tick, Less
<1>8. CASE RemoteHangsUp    BY <1>8 DEF RemoteHangsUp
<1>9. CASE Disconnect       BY <1>9 DEF Disconnect
<1>10. CASE Read            BY <1>10 DEF Read
<1>11. CASE ReadError       BY <1>11 DEF ReadError
<1>12. CASE ReaderEnds      BY <1>12, ReaderSends DEF ReaderEnds
<1>13. CASE KeyEnter        BY <1>13 DEF KeyEnter, Characters, Swallow, EndsByWriteError
<1>14. CASE KeyLeave        BY <1>14 DEF KeyLeave
<1>15. CASE KeyToLeftover   BY <1>15 DEF KeyToLeftover, Swallow, EndsByWriteError
<1>16. CASE UserEnds        BY <1>16, UserSends DEF UserEnds
<1>17. CASE WakeTick        BY <1>17 DEF WakeTick, Responded
<1>18. CASE WakeWrite       BY <1>18 DEF WakeWrite, Characters
<1>19. CASE UNCHANGED vars BY <1>19 DEF vars
<1> QED BY <1>1, <1>2, <1>3, <1>4, <1>5, <1>6, <1>7, <1>8, <1>9, <1>10,
         <1>11, <1>12, <1>13, <1>14, <1>15, <1>16, <1>17, <1>18, <1>19
         DEF Next, Main, Waker

LEMMA NextTalkInv == TerminalInv /\ [Next]_vars => TalkInv'
<1> SUFFICES ASSUME TerminalInv, [Next]_vars PROVE TalkInv'
    OBVIOUS
<1> USE DEF TalkInv, TypeOK, Sent, Values, DeviceOpen, procs, shared, modem, time, history
<1> TypeOK /\ LinesInv /\ DoneInv /\ CarrierInv /\ TalkInv /\ SilenceInv
  BY DEF TerminalInv
<1>1. CASE Start            BY <1>1 DEF Start
<1>2. CASE Receive          BY <1>2, SentShrinks DEF Receive, At
<1>3. CASE CloseLog         BY <1>3 DEF CloseLog, At
<1>4. CASE LoadCarrierLost  BY <1>4 DEF LoadCarrierLost, At
<1>5. CASE Hangup           BY <1>5 DEF Hangup, At, EscapeSequence, HangupCommand
<1>6. CASE CloseModem       BY <1>6 DEF CloseModem, At
<1>7. CASE Tick             BY <1>7 DEF Tick, Less
<1>8. CASE RemoteHangsUp    BY <1>8 DEF RemoteHangsUp
<1>9. CASE Disconnect       BY <1>9 DEF Disconnect
<1>10. CASE Read
  <2>1. /\ (reader' = "store" \/ logRefused) => logRefused'
        /\ reader' \in {"read", "store", "sendWrite"}
        /\ gotData => gotData'
    <3>1. CASE ~conn /\ reader' = "sendWrite" /\ gotData' = TRUE /\ UNCHANGED logRefused
      BY <3>1
    <3>2. CASE reader' = "store" /\ logRefused' = TRUE /\ UNCHANGED gotData
      BY <3>2
    <3>3. ASSUME NEW taken \in {"all", "part"}, gotData' = TRUE,
                 reader' = IF taken = "all" THEN "read" ELSE "store",
                 logRefused' = (logRefused \/ taken # "all")
          PROVE  /\ (reader' = "store" \/ logRefused) => logRefused'
                 /\ reader' \in {"read", "store", "sendWrite"}
                 /\ gotData => gotData'
      BY <3>3
    <3> QED BY <1>10, <3>1, <3>2, <3>3 DEF Read, LogTakes
  <2>2. UNCHANGED <<main, user, carrierLost, done, ret, line, spoke>>
    BY <1>10 DEF Read
  <2> QED BY <2>1, <2>2
<1>11. CASE ReadError       BY <1>11 DEF ReadError
<1>12. CASE ReaderEnds
  <2>1. ASSUME NEW u, u # "read", u # "write", Sent(u)' PROVE Sent(u)
    BY <1>12, <2>1, ReaderSends
  <2>2. Sent("nil")' \/ Sent("stdin")' => user = "end"
    BY <2>1
  <2> QED BY <1>12, <2>2 DEF ReaderEnds, StoreThenSend
<1>13. CASE KeyEnter        BY <1>13 DEF KeyEnter, Characters, Swallow, EndsByWriteError
<1>14. CASE KeyLeave        BY <1>14 DEF KeyLeave
<1>15. CASE KeyToLeftover   BY <1>15 DEF KeyToLeftover, Swallow, EndsByWriteError
<1>16. CASE UserEnds        BY <1>16, UserSends DEF UserEnds
<1>17. CASE WakeTick        BY <1>17 DEF WakeTick, Responded
<1>18. CASE WakeWrite       BY <1>18 DEF WakeWrite, Characters
<1>19. CASE UNCHANGED vars BY <1>19 DEF vars
<1> QED BY <1>1, <1>2, <1>3, <1>4, <1>5, <1>6, <1>7, <1>8, <1>9, <1>10,
         <1>11, <1>12, <1>13, <1>14, <1>15, <1>16, <1>17, <1>18, <1>19
         DEF Next, Main, Waker

LEMMA NextSilenceInv == TerminalInv /\ [Next]_vars => SilenceInv'
<1> SUFFICES ASSUME TerminalInv, [Next]_vars PROVE SilenceInv'
    OBVIOUS
<1> USE DEF SilenceInv, TypeOK, CarrierInv, NoHangupAfterReadError, TalkInv, Alone, Values, procs, shared, modem, time, history
<1> TypeOK /\ LinesInv /\ DoneInv /\ CarrierInv /\ TalkInv /\ SilenceInv
  BY DEF TerminalInv
<1>1. CASE Start            BY <1>1 DEF Start
<1>2. CASE Receive          BY <1>2, SentShrinks DEF Receive, At
<1>3. CASE CloseLog         BY <1>3 DEF CloseLog, At
<1>4. CASE LoadCarrierLost  BY <1>4 DEF LoadCarrierLost, At
<1>5. CASE Hangup           BY <1>5 DEF Hangup, At, EscapeSequence, HangupCommand
<1>6. CASE CloseModem       BY <1>6 DEF CloseModem, At
<1>7. CASE Tick             BY <1>7 DEF Tick, Less
<1>8. CASE RemoteHangsUp    BY <1>8 DEF RemoteHangsUp
<1>9. CASE Disconnect       BY <1>9 DEF Disconnect
<1>10. CASE Read            BY <1>10 DEF Read
<1>11. CASE ReadError       BY <1>11 DEF ReadError
<1>12. CASE ReaderEnds      BY <1>12 DEF ReaderEnds
<1>13. CASE KeyEnter        BY <1>13 DEF KeyEnter, Characters, Swallow, EndsByWriteError
<1>14. CASE KeyLeave        BY <1>14 DEF KeyLeave
<1>15. CASE KeyToLeftover   BY <1>15 DEF KeyToLeftover, Swallow, EndsByWriteError
<1>16. CASE UserEnds        BY <1>16, UserSends DEF UserEnds
<1>17. CASE WakeTick        BY <1>17 DEF WakeTick, Responded
<1>18. CASE WakeWrite
  <2>1. UNCHANGED <<main, pause, spoke, logRefused, ret>> /\ waker' # "write"
    BY <1>18 DEF WakeWrite
  <2>2. CASE UNCHANGED <<modem, woken>>
    BY <2>1, <2>2
  <2>3. CASE DeviceOpen /\ Characters /\ woken' = (woken \/ main \in {"escape", "hangup"})
    <3>1. CASE main \in {"escape", "hangup"}
      <4>1. woken'
        BY <2>3, <3>1
      <4>2. CASE spoke
        BY <1>18, <2>1, <2>3, <3>1, <4>2 DEF WakeWrite, Characters
      <4>3. CASE ~spoke
        BY <2>1, <4>1, <4>3
      <4> QED BY <4>2, <4>3
    <3>2. CASE main \notin {"escape", "hangup"}
      BY <2>1, <2>3, <3>2 DEF Characters, DeviceOpen
    <3> QED BY <3>1, <3>2
  <2> QED BY <1>18, <2>2, <2>3 DEF WakeWrite
<1>19. CASE UNCHANGED vars BY <1>19 DEF vars
<1> QED BY <1>1, <1>2, <1>3, <1>4, <1>5, <1>6, <1>7, <1>8, <1>9, <1>10,
         <1>11, <1>12, <1>13, <1>14, <1>15, <1>16, <1>17, <1>18, <1>19
         DEF Next, Main, Waker

LEMMA NextTerminalInv == TerminalInv /\ [Next]_vars => TerminalInv'
BY NextTypeOK, NextLinesInv, NextDoneInv, NextCarrierInv, NextTalkInv, NextSilenceInv DEF TerminalInv

-----------------------------------------------------------------------------
\* The invariant holds from the first terminal to the last.
THEOREM TerminalInvariance == Spec => []TerminalInv
BY InitTerminalInv, NextTerminalInv, PTL DEF Spec

\* Every variable keeps its type.
THEOREM TerminalType == Spec => []TypeOK
<1>1. TerminalInv => TypeOK
  BY DEF TerminalInv
<1> QED BY <1>1, TerminalInvariance, PTL

\* A read error is never followed by +++ and ATH: the reader marks the carrier lost
\* before Run can hear of the error, in whatever order the goroutines run.
THEOREM NoHangupWithoutCarrier == Spec => []NoHangupAfterReadError
<1>1. TerminalInv => NoHangupAfterReadError
  BY DEF TerminalInv, CarrierInv
<1> QED BY <1>1, TerminalInvariance, PTL

\* For every guard time and every longer sleep of Hangup a terminal leaves no call behind,
\* unless the log refused data, keys were in flight at a broken connection, or the waker
\* wrote into Hangup, which it does only when the remote never spoke.
THEOREM HangupEndsCalls == Spec => []HangupEndsCall
<1>1. TerminalInv => HangupEndsCall
  BY DEF TerminalInv, SilenceInv, Alone, HangupEndsCall
<1> QED BY <1>1, TerminalInvariance, PTL

\* However many terminals one session opens, those that were abandoned take no more
\* than one line each from what the user types later.
THEOREM AbandonedTakeOneLine == Spec => []SwallowsOneLine
<1>1. TerminalInv => SwallowsOneLine
  BY DEF TerminalInv, LinesInv, TypeOK, One, SwallowsOneLine
<1> QED BY <1>1, TerminalInvariance, PTL

\* The goroutine that outlives Run never waits for a receiver that is gone: both
\* directions send once, Run receives once, and any capacity will do for the value left.
THEOREM LastGoroutineHasRoom == Spec => []LastHasRoom
<1>1. TerminalInv => LastHasRoom
  <2> SUFFICES ASSUME TerminalInv, main # "run", reader # "end" \/ user # "end"
               PROVE  Len(done) < Capacity
    BY DEF LastHasRoom
  <2>1. Len(done) \in Nat
    BY DEF TerminalInv, TypeOK
  <2> QED BY <2>1 DEF TerminalInv, DoneInv, One
<1> QED BY <1>1, TerminalInvariance, PTL
=============================================================================
