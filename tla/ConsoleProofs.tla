--------------------------- MODULE ConsoleProofs ---------------------------
(***************************************************************************)
(* Proofs about Console, for every number of sessions, dials, sites and    *)
(* retries.                                                                *)
(***************************************************************************)
EXTENDS Console, TLAPS

LEMMA InitType == Init => TypeOK
BY ConsoleAssumption DEF Init, TypeOK, Phases

\* Each step of the program, the user or a dial keeps the types.
LEMMA NextType == TypeOK /\ RetriesLeft /\ [Next]_vars => TypeOK'
<1> SUFFICES ASSUME TypeOK, RetriesLeft, [Next]_vars PROVE TypeOK'
    OBVIOUS
<1> USE ConsoleAssumption DEF TypeOK, Phases, Goto, dialVars, progVars, uiVars
<1>1. ASSUME NEW s \in Sessions, User(s) PROVE TypeOK'
  <2>1. CASE Connect(s)     BY <2>1 DEF Connect
  <2>2. CASE Disconnect(s)  BY <2>2 DEF Disconnect
  <2>3. CASE PressQuit(s)   BY <2>3 DEF PressQuit
  <2>4. CASE LeaveDialing(s) BY <2>4 DEF LeaveDialing, returnToMenu
  <2>5. ASSUME NEW d \in Dials, NEW x \in SiteNames, SelectSite(s, d, x)
        PROVE  TypeOK'
    BY <2>5 DEF SelectSite
  <2> QED BY <1>1, <2>1, <2>2, <2>3, <2>4, <2>5 DEF User
<1>2. ASSUME NEW s \in Sessions, EventLoop(s) PROVE TypeOK'
  <2>1. CASE HandleQuit(s) BY <2>1 DEF HandleQuit
  <2>2. ASSUME NEW d \in Dials, HandleDialRequest(s, d) PROVE TypeOK'
    <3>1. CASE state[s] = "Menu"
      <4>1. pc' \in [Dials -> Phases] /\ state' \in [Sessions -> {"Menu", "Dialing", "Connected"}]
        BY <2>2, <3>1 DEF HandleDialRequest
      <4>2. activeSite' \in [Sessions -> SiteNames \union {Idle}]
        BY <2>2, <3>1 DEF HandleDialRequest
      <4>3. done' \in [Sessions -> BOOLEAN]
        BY <2>2, <3>1 DEF HandleDialRequest
      <4> QED BY <2>2, <3>1, <4>1, <4>2, <4>3 DEF HandleDialRequest
    <3>2. CASE state[s] # "Menu" BY <2>2, <3>2 DEF HandleDialRequest
    <3> QED BY <3>1, <3>2
  <2>3. ASSUME NEW d \in Dials, HandleDialOutcome(s, d) PROVE TypeOK'
    <3>1. CASE state[s] = "Dialing" /\ result[d] = "CONNECT"
      <4>1. pc' \in [Dials -> Phases] /\ state' \in [Sessions -> {"Menu", "Dialing", "Connected"}]
        BY <2>3, <3>1 DEF HandleDialOutcome
      <4>2. activeModem' \in [Sessions -> Dials \union {NoDial}]
        BY <2>3, <3>1 DEF HandleDialOutcome
      <4> QED BY <2>3, <3>1, <4>1, <4>2 DEF HandleDialOutcome
    <3>2. CASE state[s] = "Dialing" /\ result[d] # "CONNECT"
      <4>1. pc' \in [Dials -> Phases] /\ done' \in [Sessions -> BOOLEAN]
        BY <2>3, <3>2 DEF HandleDialOutcome
      <4>2. UNCHANGED <<lockSite, open, owner, site, attempt, result, progVars,
                        activeSite, state, activeModem>>
        BY <2>3, <3>2 DEF HandleDialOutcome
      <4> QED BY <4>1, <4>2
    <3>3. CASE state[s] # "Dialing" BY <2>3, <3>3 DEF HandleDialOutcome
    <3> QED BY <3>1, <3>2, <3>3
  <2>4. ASSUME NEW d \in Dials, HandleExec(s, d) PROVE TypeOK'
    BY <2>4 DEF HandleExec
  <2>5. ASSUME NEW d \in Dials, HandleTerminalDone(s, d) PROVE TypeOK'
    BY <2>5 DEF HandleTerminalDone, returnToMenu
  <2> QED BY <1>2, <2>1, <2>2, <2>3, <2>4, <2>5 DEF EventLoop
<1>3. ASSUME NEW d \in Dials, DialStep(d) PROVE TypeOK'
  <2>1. CASE Acquire(d)   BY <2>1 DEF Acquire
  <2>2. CASE Open(d)      BY <2>2 DEF Open
  <2>3. CASE InitModem(d) BY <2>3 DEF InitModem, Exchange
  <2>4. CASE Configure(d) BY <2>4 DEF Configure, Exchange
  <2>5. CASE Dial(d)      BY <2>5 DEF Dial
  <2>6. CASE Close(d)     BY <2>6 DEF Close
  <2>7. CASE Retry(d)     BY <2>7 DEF Retry, RetriesLeft
  <2>8. CASE Release(d)   BY <2>8 DEF Release
  <2> QED BY <1>3, <2>1, <2>2, <2>3, <2>4, <2>5, <2>6, <2>7, <2>8 DEF DialStep
<1>4. ASSUME NEW d \in Dials, TerminalEnds(d) \/ CleanupStep(d) PROVE TypeOK'
  <2>1. CASE TerminalEnds(d)    BY <2>1 DEF TerminalEnds
  <2>2. CASE CloseTerminal(d)   BY <2>2 DEF CloseTerminal
  <2>3. CASE ReleaseTerminal(d) BY <2>3 DEF ReleaseTerminal
  <2> QED BY <1>4, <2>1, <2>2, <2>3 DEF CleanupStep, StdinEOF
<1>5. CASE UNCHANGED vars BY <1>5 DEF vars
<1> QED BY <1>1, <1>2, <1>3, <1>4, <1>5 DEF Next

\* A dial sleeps only while it has an attempt left, so attempts never overrun.
LEMMA NextRetries == TypeOK /\ RetriesLeft /\ [Next]_vars => RetriesLeft'
<1> SUFFICES ASSUME TypeOK, RetriesLeft, [Next]_vars PROVE RetriesLeft'
    OBVIOUS
<1> USE ConsoleAssumption DEF TypeOK, RetriesLeft, Goto, dialVars, progVars, uiVars
<1>1. ASSUME NEW s \in Sessions, User(s) PROVE RetriesLeft'
  BY <1>1 DEF User, Connect, Disconnect, PressQuit, LeaveDialing, SelectSite
<1>2. ASSUME NEW s \in Sessions, EventLoop(s) PROVE RetriesLeft'
  BY <1>2 DEF EventLoop, HandleQuit, HandleDialRequest, HandleDialOutcome, HandleExec,
       HandleTerminalDone
<1>3. ASSUME NEW d \in Dials, DialStep(d) PROVE RetriesLeft'
  BY <1>3 DEF DialStep, Acquire, Open, InitModem, Configure, Exchange, Dial, Close,
       Retry, Release
<1>4. ASSUME NEW d \in Dials, TerminalEnds(d) \/ CleanupStep(d) PROVE RetriesLeft'
  BY <1>4 DEF TerminalEnds, CleanupStep, StdinEOF, CloseTerminal, ReleaseTerminal
<1>5. CASE UNCHANGED vars BY <1>5 DEF vars
<1> QED BY <1>1, <1>2, <1>3, <1>4, <1>5 DEF Next

LEMMA InitRetries == Init => RetriesLeft
BY DEF Init, RetriesLeft

\* Every variable keeps its type in every behaviour; that a dial never exceeds
\* its maxRetries attempts is the part that needs RetriesLeft.
THEOREM TypeCorrect == Spec => []TypeOK
<1>1. Init => TypeOK /\ RetriesLeft
  BY InitType, InitRetries
<1>2. TypeOK /\ RetriesLeft /\ [Next]_vars => TypeOK' /\ RetriesLeft'
  BY NextType, NextRetries
<1> QED BY <1>1, <1>2, PTL DEF Spec
-----------------------------------------------------------------------------

\* What the invariant says of the phases and claims of a dial.
DialInv ==
  /\ SiteChosen
  /\ \A d \in Dials : OpenByPhase(d) /\ ResultByPhase(d)
  /\ OneClaim
  /\ ClaimMatchesLock

\* A step that leaves the dials, the lock and the device alone keeps it.
LEMMA DialInvFrame ==
  ASSUME DialInv, UNCHANGED <<lockSite, open, pc, site, result>>
  PROVE  DialInv'
BY DEF DialInv, SiteChosen, OpenByPhase, ResultByPhase, OneClaim, ClaimMatchesLock, Claims

\* A step of one dial keeps it when the dial itself fits its new phase and it
\* keeps its claim, takes one from an idle lock, or gives its own up.
LEMMA DialInvLocal ==
  ASSUME DialInv, NEW d \in Dials,
         \A e \in Dials \ {d} : /\ pc'[e] = pc[e] /\ site'[e] = site[e]
                                /\ result'[e] = result[e]
                                /\ e \in open' <=> e \in open,
         pc'[d] # "unused" => site'[d] \in SiteNames,
         OpenByPhase(d)', ResultByPhase(d)',
         \/ lockSite' = lockSite /\ site'[d] = site[d] /\ (Claims(d)' <=> Claims(d))
         \/ (\A e \in Dials : ~Claims(e)) /\ lockSite' = site'[d] /\ Claims(d)'
         \/ Claims(d) /\ ~Claims(d)' /\ lockSite' = Idle
         \/ lockSite' = lockSite /\ ~Claims(d) /\ ~Claims(d)'
  PROVE  DialInv'
<1>1. \A e \in Dials \ {d} : Claims(e)' <=> Claims(e)
  BY DEF Claims
<1>2. \A e \in Dials : OpenByPhase(e)' /\ ResultByPhase(e)'
  BY DEF OpenByPhase, ResultByPhase, DialInv
<1>3. SiteChosen'
  BY DEF SiteChosen, DialInv
<1>4. OneClaim'
  BY <1>1 DEF DialInv, OneClaim
<1>5. ClaimMatchesLock'
  BY <1>1 DEF DialInv, OneClaim, ClaimMatchesLock
<1> QED BY <1>2, <1>3, <1>4, <1>5 DEF DialInv

\* An idle lock means that no dial has the claim: no site has the name "".
LEMMA IdleMeansNoClaim ==
  ASSUME Idle \notin SiteNames, TypeOK, DialInv, lockSite = Idle
  PROVE  \A e \in Dials : ~Claims(e)
BY DEF TypeOK, DialInv, SiteChosen, OpenByPhase, ClaimMatchesLock, Claims

\* Every step keeps the invariant, whatever users, the modem and messages do.
LEMMA NextDialInv ==
  ASSUME Idle \notin SiteNames, TypeOK, DialInv, [Next]_vars
  PROVE  DialInv'
<1> USE DEF TypeOK, Goto, dialVars, progVars, uiVars
<1>1. ASSUME NEW s \in Sessions, User(s) PROVE DialInv'
  <2>1. CASE Connect(s) \/ Disconnect(s) \/ PressQuit(s) \/ LeaveDialing(s)
    BY <2>1, DialInvFrame DEF Connect, Disconnect, PressQuit, LeaveDialing
  <2>2. ASSUME NEW d \in Dials, NEW x \in SiteNames, SelectSite(s, d, x)
        PROVE  DialInv'
    BY <2>2, DialInvLocal DEF SelectSite, DialInv, OpenByPhase, ResultByPhase, Claims
  <2> QED BY <1>1, <2>1, <2>2 DEF User
<1>2. ASSUME NEW s \in Sessions, EventLoop(s) PROVE DialInv'
  <2>1. CASE HandleQuit(s) BY <2>1, DialInvFrame DEF HandleQuit
  <2>2. ASSUME NEW d \in Dials, HandleDialRequest(s, d) PROVE DialInv'
    BY <2>2, DialInvLocal DEF HandleDialRequest, Receives, DialInv, SiteChosen,
         OpenByPhase, ResultByPhase, Claims
  <2>3. ASSUME NEW d \in Dials, HandleDialOutcome(s, d) PROVE DialInv'
    BY <2>3, DialInvLocal DEF HandleDialOutcome, Receives, DialInv, SiteChosen,
         OpenByPhase, ResultByPhase, Claims
  <2>4. ASSUME NEW d \in Dials, HandleExec(s, d) PROVE DialInv'
    BY <2>4, DialInvLocal DEF HandleExec, Receives, DialInv, SiteChosen,
         OpenByPhase, ResultByPhase, Claims
  <2>5. ASSUME NEW d \in Dials, HandleTerminalDone(s, d) PROVE DialInv'
    BY <2>5, DialInvLocal DEF HandleTerminalDone, Receives, DialInv, SiteChosen,
         OpenByPhase, ResultByPhase, Claims
  <2> QED BY <1>2, <2>1, <2>2, <2>3, <2>4, <2>5 DEF EventLoop
<1>3. ASSUME NEW d \in Dials, DialStep(d) PROVE DialInv'
  <2> USE DEF DialInv, SiteChosen, OpenByPhase, ResultByPhase, Claims
  <2>1. CASE Acquire(d)   BY <2>1, DialInvLocal, IdleMeansNoClaim DEF Acquire
  <2>2. CASE Open(d)      BY <2>2, DialInvLocal DEF Open
  <2>3. CASE InitModem(d) BY <2>3, DialInvLocal DEF InitModem, Exchange
  <2>4. CASE Configure(d) BY <2>4, DialInvLocal DEF Configure, Exchange
  <2>5. CASE Dial(d)      BY <2>5, DialInvLocal DEF Dial
  <2>6. CASE Close(d)     BY <2>6, DialInvLocal DEF Close
  <2>7. CASE Retry(d)     BY <2>7, DialInvLocal DEF Retry
  <2>8. CASE Release(d)   BY <2>8, DialInvLocal DEF Release
  <2> QED BY <1>3, <2>1, <2>2, <2>3, <2>4, <2>5, <2>6, <2>7, <2>8 DEF DialStep
<1>4. ASSUME NEW d \in Dials, TerminalEnds(d) \/ CleanupStep(d) PROVE DialInv'
  <2> USE DEF DialInv, SiteChosen, OpenByPhase, ResultByPhase, Claims
  <2>1. CASE TerminalEnds(d)    BY <2>1, DialInvLocal DEF TerminalEnds
  <2>2. CASE CloseTerminal(d)   BY <2>2, DialInvLocal DEF CloseTerminal
  <2>3. CASE ReleaseTerminal(d) BY <2>3, DialInvLocal DEF ReleaseTerminal
  <2> QED BY <1>4, <2>1, <2>2, <2>3 DEF CleanupStep, StdinEOF
<1>5. CASE UNCHANGED vars BY <1>5, DialInvFrame DEF vars
<1> QED BY <1>1, <1>2, <1>3, <1>4, <1>5 DEF Next

LEMMA InitDialInv == Init => DialInv
BY DEF Init, DialInv, SiteChosen, OpenByPhase, ResultByPhase, OneClaim,
     ClaimMatchesLock, Claims

\* When every site has a name, the inductive invariant holds for ever.
THEOREM Invariance ==
  ASSUME Idle \notin SiteNames
  PROVE  Spec => []IInv
<1>1. Init => IInv
  BY InitType, InitRetries, InitDialInv DEF IInv, DialInv
<1>2. IInv /\ [Next]_vars => IInv'
  BY NextType, NextRetries, NextDialInv DEF IInv, DialInv
<1> QED BY <1>1, <1>2, PTL DEF Spec

\* Only one session can hold the device at a time, for any number of sessions,
\* abandoned dials and leaked modems, when every site has a name.
THEOREM Exclusivity ==
  ASSUME Idle \notin SiteNames
  PROVE  Spec => []ExclusiveDevice
<1>1. IInv => ExclusiveDevice
  BY DEF IInv, TypeOK, OneClaim, Claims, ExclusiveDevice
<1> QED BY <1>1, Invariance, PTL

\* The lock always names the site of the one dial that claims the device.
THEOREM LockAccounting ==
  ASSUME Idle \notin SiteNames
  PROVE  Spec => []ClaimMatchesLock
<1>1. IInv => ClaimMatchesLock
  BY DEF IInv
<1> QED BY <1>1, Invariance, PTL
-----------------------------------------------------------------------------
(***************************************************************************)
(* The promises to a patient user.                                         *)
(***************************************************************************)
PhasesFit == \A d \in Dials : OpenByPhase(d) /\ ResultByPhase(d)

\* A step of dial d that leaves it fitting its phase leaves every dial so.
LEMMA PhasesFitLocal ==
  ASSUME PhasesFit, NEW d \in Dials, OpenByPhase(d)', ResultByPhase(d)',
         \A e \in Dials \ {d} : /\ pc'[e] = pc[e] /\ result'[e] = result[e]
                                /\ e \in open' <=> e \in open
  PROVE  PhasesFit'
BY DEF PhasesFit, OpenByPhase, ResultByPhase

\* Phase and result say whether the modem is open, whatever the sites are called.
LEMMA NextPhasesFit == TypeOK /\ PhasesFit /\ [Next]_vars => PhasesFit'
<1> SUFFICES ASSUME TypeOK, PhasesFit, [Next]_vars PROVE PhasesFit'
    OBVIOUS
<1> USE DEF TypeOK, Goto, dialVars, progVars, uiVars
<1>0. ASSUME UNCHANGED <<open, pc, result>> PROVE PhasesFit'
  BY <1>0 DEF PhasesFit, OpenByPhase, ResultByPhase
<1>1. ASSUME NEW s \in Sessions, User(s) PROVE PhasesFit'
  <2>1. CASE Connect(s) \/ Disconnect(s) \/ PressQuit(s) \/ LeaveDialing(s)
    BY <1>0, <2>1 DEF Connect, Disconnect, PressQuit, LeaveDialing
  <2>2. ASSUME NEW d \in Dials, NEW x \in SiteNames, SelectSite(s, d, x)
        PROVE  PhasesFit'
    BY <2>2, PhasesFitLocal DEF SelectSite, PhasesFit, OpenByPhase, ResultByPhase
  <2> QED BY <1>1, <2>1, <2>2 DEF User
<1>2. ASSUME NEW s \in Sessions, EventLoop(s) PROVE PhasesFit'
  <2>1. CASE HandleQuit(s) BY <1>0, <2>1 DEF HandleQuit
  <2>2. ASSUME NEW d \in Dials,
               \/ HandleDialRequest(s, d) \/ HandleDialOutcome(s, d)
               \/ HandleExec(s, d) \/ HandleTerminalDone(s, d)
        PROVE  PhasesFit'
    BY <2>2, PhasesFitLocal DEF HandleDialRequest, HandleDialOutcome, HandleExec,
         HandleTerminalDone, Receives, PhasesFit, OpenByPhase, ResultByPhase
  <2> QED BY <1>2, <2>1, <2>2 DEF EventLoop
<1>3. ASSUME NEW d \in Dials, DialStep(d) PROVE PhasesFit'
  BY <1>3, PhasesFitLocal DEF DialStep, Acquire, Open, InitModem, Configure, Exchange, Dial,
       Close, Retry, Release, PhasesFit, OpenByPhase, ResultByPhase
<1>4. ASSUME NEW d \in Dials, TerminalEnds(d) \/ CleanupStep(d) PROVE PhasesFit'
  BY <1>4, PhasesFitLocal DEF TerminalEnds, CleanupStep, StdinEOF, CloseTerminal,
       ReleaseTerminal, PhasesFit, OpenByPhase, ResultByPhase
<1>5. CASE UNCHANGED vars BY <1>0, <1>5 DEF vars
<1> QED BY <1>1, <1>2, <1>3, <1>4, <1>5 DEF Next

\* Only the session itself and the goroutines of its dials can part its screen from
\* the current dial: no step of another session or dial does.
LEMMA ScreenFrame ==
  ASSUME NEW s \in Sessions, ScreenFollowsDial(s),
         UNCHANGED <<pc, owner, site, state[s], done[s], activeSite[s], activeModem[s]>>
  PROVE  ScreenFollowsDial(s)'
BY DEF ScreenFollowsDial, Current, InGoroutine, InTerminal

\* A step of dial d keeps it on every screen when no dial becomes current.
LEMMA ScreenLocal ==
  ASSUME TypeOK, NEW s \in Sessions, ScreenFollowsDial(s), NEW d \in Dials,
         UNCHANGED <<owner, site, state[s], done[s], activeSite[s], activeModem[s]>>,
         \A e \in Dials \ {d} : pc'[e] = pc[e],
         pc[d] # "unused" /\ pc'[d] # "unused",
         \/ (InGoroutine(d) \/ pc[d] = "posted") /\ (InGoroutine(d)' \/ pc'[d] = "posted")
         \/ /\ InTerminal(d) \/ pc[d] \in {"exec", "returned"}
            /\ InTerminal(d)' \/ pc'[d] \in {"exec", "returned"}
         \/ ~Current(d)'
  PROVE  ScreenFollowsDial(s)'
BY DEF ScreenFollowsDial, Current, InGoroutine, InTerminal, TypeOK

\* The screen of a patient user follows the dial through every step.
LEMMA NextScreen ==
  ASSUME TypeOK, PhasesFit, NEW s \in Sessions \ Impatient, ScreenFollowsDial(s), [Next]_vars
  PROVE  ScreenFollowsDial(s)'
<1> USE DEF TypeOK, Goto, dialVars, progVars, uiVars
<1>1. ASSUME NEW t \in Sessions, User(t) PROVE ScreenFollowsDial(s)'
  <2>1. CASE Connect(t) \/ Disconnect(t) \/ PressQuit(t)
    BY <2>1, ScreenFrame DEF Connect, Disconnect, PressQuit
  <2>2. CASE LeaveDialing(t)
    <3>1. CASE t = s
      <4>1. \A d \in Dials : owner[d] = s => ~Current(d)
        BY <2>2, <3>1 DEF LeaveDialing, KeyIn, ScreenFollowsDial, Current
      <4> QED BY <2>2, <3>1, <4>1 DEF LeaveDialing, returnToMenu, ScreenFollowsDial, Current,
                   InGoroutine, InTerminal
    <3>2. CASE t # s
      BY <2>2, <3>2, ScreenFrame DEF LeaveDialing, returnToMenu
    <3> QED BY <3>1, <3>2
  <2>3. ASSUME NEW d \in Dials, NEW x \in SiteNames, SelectSite(t, d, x)
        PROVE  ScreenFollowsDial(s)'
    BY <2>3 DEF SelectSite, ScreenFollowsDial, Current, InGoroutine, InTerminal
  <2> QED BY <1>1, <2>1, <2>2, <2>3 DEF User
<1>2. ASSUME NEW t \in Sessions, EventLoop(t) PROVE ScreenFollowsDial(s)'
  <2>1. CASE HandleQuit(t) BY <2>1, ScreenFrame DEF HandleQuit
  <2>2. ASSUME NEW d \in Dials, HandleDialRequest(t, d) PROVE ScreenFollowsDial(s)'
    BY <2>2 DEF HandleDialRequest, Receives, ScreenFollowsDial, Current, InGoroutine, InTerminal
  <2>3. ASSUME NEW d \in Dials, HandleDialOutcome(t, d) PROVE ScreenFollowsDial(s)'
    BY <2>3 DEF HandleDialOutcome, Receives, ScreenFollowsDial, Current, InGoroutine, InTerminal
  <2>4. ASSUME NEW d \in Dials, HandleExec(t, d) PROVE ScreenFollowsDial(s)'
    BY <2>4, ScreenLocal DEF HandleExec, Receives, InTerminal
  <2>5. ASSUME NEW d \in Dials, HandleTerminalDone(t, d) PROVE ScreenFollowsDial(s)'
    BY <2>5 DEF HandleTerminalDone, returnToMenu, Receives, ScreenFollowsDial, Current,
         InGoroutine, InTerminal
  <2> QED BY <1>2, <2>1, <2>2, <2>3, <2>4, <2>5 DEF EventLoop
<1>3. ASSUME NEW d \in Dials, DialStep(d) PROVE ScreenFollowsDial(s)'
  BY <1>3, ScreenLocal DEF DialStep, Acquire, Open, InitModem, Configure, Exchange, Dial,
       Close, Retry, Release, InGoroutine
<1>4. ASSUME NEW d \in Dials, TerminalEnds(d) \/ CleanupStep(d) PROVE ScreenFollowsDial(s)'
  BY <1>4, ScreenLocal DEF TerminalEnds, CleanupStep, StdinEOF, CloseTerminal,
       ReleaseTerminal, InTerminal
<1>5. CASE UNCHANGED vars BY <1>5, ScreenFrame DEF vars
<1> QED BY <1>1, <1>2, <1>3, <1>4, <1>5 DEF Next

\* A CONNECT that a patient user waits for is not dropped: it goes on to a terminal,
\* and only a log that cannot be created ends that without its clean-up.
LEMMA NextLeak ==
  ASSUME TypeOK, PhasesFit, LeakNeedsLog, [Next]_vars,
         \A s \in Sessions \ Impatient : ScreenFollowsDial(s)
  PROVE  LeakNeedsLog'
<1> USE DEF TypeOK, Goto, dialVars, progVars, uiVars
<1>1. ASSUME NEW s \in Sessions, User(s) PROVE LeakNeedsLog'
  BY <1>1 DEF User, Connect, Disconnect, PressQuit, LeaveDialing, SelectSite, LeakNeedsLog,
       PhasesFit, OpenByPhase
<1>2. ASSUME NEW s \in Sessions, EventLoop(s) PROVE LeakNeedsLog'
  <2>1. CASE HandleQuit(s) BY <2>1 DEF HandleQuit, LeakNeedsLog
  <2>2. ASSUME NEW d \in Dials, HandleDialRequest(s, d) PROVE LeakNeedsLog'
    BY <2>2 DEF HandleDialRequest, Receives, LeakNeedsLog, PhasesFit, OpenByPhase
  <2>3. ASSUME NEW d \in Dials, HandleDialOutcome(s, d) PROVE LeakNeedsLog'
    <3>1. s \notin Impatient => state[s] = "Dialing"
      BY <2>3 DEF HandleDialOutcome, Receives, ScreenFollowsDial
    <3> QED BY <2>3, <3>1 DEF HandleDialOutcome, Receives, LeakNeedsLog, PhasesFit, OpenByPhase
  <2>4. ASSUME NEW d \in Dials, HandleExec(s, d) PROVE LeakNeedsLog'
    BY <2>4 DEF HandleExec, Receives, LeakNeedsLog
  <2>5. ASSUME NEW d \in Dials, HandleTerminalDone(s, d) PROVE LeakNeedsLog'
    BY <2>5 DEF HandleTerminalDone, Receives, LeakNeedsLog
  <2> QED BY <1>2, <2>1, <2>2, <2>3, <2>4, <2>5 DEF EventLoop
<1>3. ASSUME NEW d \in Dials, DialStep(d) PROVE LeakNeedsLog'
  BY <1>3 DEF DialStep, Acquire, Open, InitModem, Configure, Exchange, Dial,
       Close, Retry, Release, LeakNeedsLog
<1>4. ASSUME NEW d \in Dials, TerminalEnds(d) \/ CleanupStep(d) PROVE LeakNeedsLog'
  BY <1>4 DEF TerminalEnds, CleanupStep, StdinEOF, CloseTerminal, ReleaseTerminal,
       LeakNeedsLog, PhasesFit, OpenByPhase
<1>5. CASE UNCHANGED vars BY <1>5 DEF vars, LeakNeedsLog
<1> QED BY <1>1, <1>2, <1>3, <1>4, <1>5 DEF Next

LEMMA InitPatientInv == Init => PatientInv /\ RetriesLeft
<1>1. Init => PhasesFit /\ LeakNeedsLog /\ \A s \in Sessions : ScreenFollowsDial(s)
  BY DEF Init, PhasesFit, OpenByPhase, ResultByPhase, LeakNeedsLog, ScreenFollowsDial, Current,
       InGoroutine, InTerminal
<1> QED BY <1>1, InitType, InitRetries DEF PatientInv, PhasesFit

\* The screen and the dial of every patient user agree for ever.
THEOREM PatientInvariance == Spec => []PatientInv
<1>1. PatientInv /\ RetriesLeft /\ [Next]_vars => PatientInv' /\ RetriesLeft'
  <2> SUFFICES ASSUME PatientInv, RetriesLeft, [Next]_vars
               PROVE  PatientInv' /\ RetriesLeft'
      OBVIOUS
  <2>1. TypeOK' /\ RetriesLeft'
    BY NextType, NextRetries DEF PatientInv
  <2>2. PhasesFit'
    BY NextPhasesFit DEF PatientInv, PhasesFit
  <2>3. \A s \in Sessions \ Impatient : ScreenFollowsDial(s)'
    BY NextScreen DEF PatientInv, PhasesFit
  <2>4. LeakNeedsLog'
    BY NextLeak DEF PatientInv, PhasesFit
  <2> QED BY <2>1, <2>2, <2>3, <2>4 DEF PatientInv, PhasesFit
<1> QED BY <1>1, InitPatientInv, PTL DEF Spec

\* No exit of acquireAndDial that reports a failure keeps the modem or the lock,
\* whatever the sites are called.
THEOREM FailureCleansUp == Spec => []FailedDialLeavesNothing
<1>1. PatientInv => FailedDialLeavesNothing
  BY DEF PatientInv, OpenByPhase, FailedDialLeavesNothing, Claims
<1> QED BY <1>1, PatientInvariance, PTL

\* A user who never leaves a dial in progress is connected to the site on the screen,
\* whatever other users do to theirs and however messages overtake one another.
THEOREM PatientIsConnectedRight == Spec => []PatientConnectsRight
<1>1. PatientInv => PatientConnectsRight
  BY DEF PatientInv, ScreenFollowsDial, PatientConnectsRight
<1> QED BY <1>1, PatientInvariance, PTL

\* Nor does such a user leave an open modem behind while the program runs, unless the
\* session log could not be created.
THEOREM PatientLeaksNothing == Spec => []PatientNeverLeaks
<1>1. PatientInv => PatientNeverLeaks
  BY DEF PatientInv, TypeOK, Phases, OpenByPhase, LeakNeedsLog, PatientNeverLeaks, Orphan,
       InGoroutine, InTerminal, InMessage
<1> QED BY <1>1, PatientInvariance, PTL
-----------------------------------------------------------------------------
(***************************************************************************)
(* Console implements DeviceClaim.                                         *)
(***************************************************************************)
\* A step of dial d that touches no other dial changes the set of holders and
\* the set of open modems only at d.
LEMMA HoldersLocal ==
  ASSUME TypeOK, TypeOK', NEW d \in Dials,
         \A e \in Dials \ {d} : pc'[e] = pc[e] /\ (e \in open' <=> e \in open)
  PROVE  /\ Claims(d)' <=> Claims(d) => Holders' = Holders
         /\ ~Claims(d) /\ Claims(d)' => Holders' = Holders \union {d}
         /\ Claims(d) /\ ~Claims(d)' => Holders' = Holders \ {d}
BY DEF Holders, Claims, TypeOK

\* The dial with the claim is the only holder, and only it may have the modem open.
LEMMA HoldersOfClaim ==
  ASSUME IInv
  PROVE  /\ \A d \in Dials : Claims(d) => Holders = {d}
         /\ open \subseteq Holders
BY DEF IInv, TypeOK, OneClaim, Holders, Claims

\* Each step is one of the four operations of DeviceClaim or invisible to it.
LEMMA StepRefines ==
  ASSUME Idle \notin SiteNames, IInv, IInv', [Next]_vars
  PROVE  [Claim!Next]_(Claim!vars)
<1> USE DEF Goto, dialVars, progVars, uiVars
<1> TypeOK /\ TypeOK' /\ DialInv
  BY DEF IInv, DialInv
<1> DEFINE Same == Holders' = Holders /\ open' = open
<1>1. ASSUME NEW s \in Sessions, User(s) PROVE Same
  <2>1. CASE Connect(s) \/ Disconnect(s) \/ PressQuit(s) \/ LeaveDialing(s)
    BY <2>1 DEF Connect, Disconnect, PressQuit, LeaveDialing, Holders, Claims
  <2>2. ASSUME NEW d \in Dials, NEW x \in SiteNames, SelectSite(s, d, x) PROVE Same
    BY <2>2, HoldersLocal DEF SelectSite, Claims, TypeOK
  <2> QED BY <1>1, <2>1, <2>2 DEF User
<1>2. ASSUME NEW s \in Sessions, EventLoop(s) PROVE Same
  <2>1. CASE HandleQuit(s)
    BY <2>1 DEF HandleQuit, Holders, Claims
  <2>2. ASSUME NEW d \in Dials,
               \/ HandleDialRequest(s, d) \/ HandleDialOutcome(s, d)
               \/ HandleExec(s, d) \/ HandleTerminalDone(s, d)
        PROVE  Same
    BY <2>2, HoldersLocal DEF HandleDialRequest, HandleDialOutcome, HandleExec,
         HandleTerminalDone, Receives, Claims, TypeOK
  <2> QED BY <1>2, <2>1, <2>2 DEF EventLoop
<1>3. ASSUME NEW d \in Dials, DialStep(d) PROVE Claim!Next \/ Same
  <2> USE DEF Claims, TypeOK
  <2>1. CASE Acquire(d)
    <3>1. CASE lockSite = Idle /\ pc'[d] = "open"
      <4>1. Holders = {}
        BY <3>1, IdleMeansNoClaim DEF Holders
      <4>2. Holders' = {d} /\ open' = open
        BY <2>1, <3>1, <4>1, HoldersLocal, IdleMeansNoClaim DEF Acquire
      <4> QED BY <4>1, <4>2 DEF Claim!Next, Claim!Claim
    <3>2. CASE pc'[d] = "posted"
      BY <2>1, <3>2, HoldersLocal DEF Acquire
    <3> QED BY <2>1, <3>1, <3>2 DEF Acquire
  <2>2. CASE Open(d)
    <3>1. CASE pc'[d] = "init"
      <4>1. Holders = {d} /\ open = {}
        BY <2>2, HoldersOfClaim DEF Open, IInv, OpenByPhase
      <4>2. Holders' = Holders /\ open' = {d}
        BY <2>2, <3>1, <4>1, HoldersLocal DEF Open
      <4> QED BY <4>1, <4>2 DEF Claim!Next, Claim!Use
    <3>2. CASE pc'[d] = "release"
      BY <2>2, <3>2, HoldersLocal DEF Open
    <3> QED BY <2>2, <3>1, <3>2 DEF Open
  <2>3. CASE InitModem(d) \/ Configure(d) \/ Dial(d) \/ Retry(d)
    BY <2>3, HoldersLocal DEF InitModem, Configure, Exchange, Dial, Retry, IInv, OpenByPhase
  <2>4. CASE Close(d)
    <3>1. Holders = {d} /\ open = {d}
      BY <2>4, HoldersOfClaim DEF Close, IInv, OpenByPhase
    <3>2. Holders' = Holders /\ open' = {}
      BY <2>4, <3>1, HoldersLocal DEF Close
    <3> QED BY <3>1, <3>2 DEF Claim!Next, Claim!Stop
  <2>5. CASE Release(d)
    <3>1. Holders = {d} /\ open = {}
      BY <2>5, HoldersOfClaim DEF Release, IInv, OpenByPhase
    <3>2. Holders' = {} /\ open' = open
      BY <2>5, <3>1, HoldersLocal DEF Release
    <3> QED BY <3>1, <3>2 DEF Claim!Next, Claim!Yield
  <2> QED BY <1>3, <2>1, <2>2, <2>3, <2>4, <2>5 DEF DialStep
<1>4. ASSUME NEW d \in Dials, TerminalEnds(d) \/ CleanupStep(d) PROVE Claim!Next \/ Same
  <2> USE DEF Claims, TypeOK
  <2>1. CASE TerminalEnds(d)
    BY <2>1, HoldersLocal DEF TerminalEnds, IInv, OpenByPhase
  <2>2. CASE CloseTerminal(d)
    <3>1. Holders = {d} /\ open = {d}
      BY <2>2, HoldersOfClaim DEF CloseTerminal, IInv, OpenByPhase
    <3>2. Holders' = Holders /\ open' = {}
      BY <2>2, <3>1, HoldersLocal DEF CloseTerminal
    <3> QED BY <3>1, <3>2 DEF Claim!Next, Claim!Stop
  <2>3. CASE ReleaseTerminal(d)
    <3>1. Holders = {d} /\ open = {}
      BY <2>3, HoldersOfClaim DEF ReleaseTerminal, IInv, OpenByPhase
    <3>2. Holders' = {} /\ open' = open
      BY <2>3, <3>1, HoldersLocal DEF ReleaseTerminal
    <3> QED BY <3>1, <3>2 DEF Claim!Next, Claim!Yield
  <2> QED BY <1>4, <2>1, <2>2, <2>3 DEF CleanupStep, StdinEOF
<1>5. CASE UNCHANGED vars
  BY <1>5 DEF vars, Claim!vars, Holders, Claims
<1> QED BY <1>1, <1>2, <1>3, <1>4, <1>5 DEF Next, Claim!vars

\* The whole of Console keeps the promise of DeviceLock, for every value of the
\* constants under which sites have names.
THEOREM Refinement ==
  ASSUME Idle \notin SiteNames
  PROVE  Spec => ImplementsDeviceClaim
<1>1. Init => Claim!Init
  BY DEF Init, Claim!Init, Holders, Claims
<1>2. IInv /\ IInv' /\ [Next]_vars => [Claim!Next]_(Claim!vars)
  BY StepRefines
<1> QED BY <1>1, <1>2, Invariance, PTL DEF Spec, ImplementsDeviceClaim, Claim!Spec

\* What DeviceClaim allows: it changes hands by way of nobody, and with the device closed.
LEMMA ClaimStepIsClean ==
  ASSUME [Claim!Next]_(Claim!vars), Holders' # Holders
  PROVE  (Holders = {} \/ Holders' = {}) /\ open' = open
BY DEF Claim!Next, Claim!vars, Claim!Claim, Claim!Use, Claim!Stop, Claim!Yield

\* A dial never takes the lock from another, and whenever the lock is taken or given
\* back the device file is closed: every Open of one dial comes after the Close of the one
\* before, on each of the paths through retries, failures, terminals and their clean-up.
THEOREM LockChangesHandsClosed ==
  ASSUME Idle \notin SiteNames
  PROVE  Spec => [][Holders' # Holders => (Holders = {} \/ Holders' = {}) /\ open = {} /\ open' = {}]_vars
<1>1. IInv /\ IInv' /\ [Next]_vars
        => [Holders' # Holders => (Holders = {} \/ Holders' = {}) /\ open = {} /\ open' = {}]_vars
  <2> SUFFICES ASSUME IInv, IInv', [Next]_vars, Holders' # Holders
               PROVE  (Holders = {} \/ Holders' = {}) /\ open = {} /\ open' = {}
      OBVIOUS
  <2>1. (Holders = {} \/ Holders' = {}) /\ open' = open
    BY StepRefines, ClaimStepIsClean
  <2>2. open \subseteq Holders
    BY HoldersOfClaim
  <2>3. open' \subseteq Holders'
    BY DEF IInv, TypeOK, Holders, Claims
  <2> QED BY <2>1, <2>2, <2>3
<1> QED BY <1>1, Invariance, PTL DEF Spec

-----------------------------------------------------------------------------
(***************************************************************************)
(* Dials come to an end.                                                   *)
(***************************************************************************)
\* What a step may do to dial d.
Advances(d) ==
  /\ attempt[d] <= attempt'[d]
  /\ pc'[d] # pc[d] => attempt[d] < attempt'[d] \/ Position(pc[d]) < Position(pc'[d])

LEMMA Positions ==
  /\ Position("unused") = 0 /\ Position("requested") = 1 /\ Position("acquire") = 2
  /\ Position("open") = 3 /\ Position("init") = 4 /\ Position("configure") = 5
  /\ Position("dial") = 6 /\ Position("close") = 7 /\ Position("sleep") = 8
  /\ Position("release") = 9 /\ Position("posted") = 10 /\ Position("exec") = 11
  /\ Position("terminal") = 12 /\ Position("cleanup") = 13 /\ Position("unlock") = 14
  /\ Position("returned") = 15 /\ Position("over") = 16
BY DEF Position

\* A dial that has not tried to acquire the lock has made no attempt.
Untried == \A d \in Dials : pc[d] \in {"unused", "requested", "acquire"} => attempt[d] = 0

LEMMA NextUntried == TypeOK /\ Untried /\ [Next]_vars => Untried'
<1> SUFFICES ASSUME TypeOK, Untried, [Next]_vars PROVE Untried'
    OBVIOUS
<1> USE DEF TypeOK, Untried, Goto, dialVars, progVars, uiVars
<1>1. ASSUME NEW s \in Sessions, User(s) PROVE Untried'
  BY <1>1 DEF User, Connect, Disconnect, PressQuit, LeaveDialing, SelectSite
<1>2. ASSUME NEW s \in Sessions, EventLoop(s) PROVE Untried'
  BY <1>2 DEF EventLoop, HandleQuit, HandleDialRequest, HandleDialOutcome, HandleExec,
       HandleTerminalDone, Receives
<1>3. ASSUME NEW d \in Dials, DialStep(d) PROVE Untried'
  BY <1>3 DEF DialStep, Acquire, Open, InitModem, Configure, Exchange, Dial, Close, Retry, Release
<1>4. ASSUME NEW d \in Dials, TerminalEnds(d) \/ CleanupStep(d) PROVE Untried'
  BY <1>4 DEF TerminalEnds, CleanupStep, StdinEOF, CloseTerminal, ReleaseTerminal
<1>5. CASE UNCHANGED vars BY <1>5 DEF vars
<1> QED BY <1>1, <1>2, <1>3, <1>4, <1>5 DEF Next

LEMMA AdvancesFrame ==
  ASSUME TypeOK, NEW d \in Dials, pc'[d] = pc[d], attempt'[d] = attempt[d]
  PROVE  Advances(d)
BY DEF TypeOK, Advances

LEMMA NextAdvances ==
  ASSUME TypeOK, Untried, [Next]_vars, NEW d \in Dials
  PROVE  Advances(d)
<1> USE DEF TypeOK, Goto, dialVars, progVars, uiVars
<1>1. ASSUME NEW s \in Sessions, User(s) PROVE Advances(d)
  BY <1>1, Positions DEF User, Connect, Disconnect, PressQuit, LeaveDialing, SelectSite, Advances
<1>2. ASSUME NEW s \in Sessions, EventLoop(s) PROVE Advances(d)
  BY <1>2, Positions DEF EventLoop, HandleQuit, HandleDialRequest, HandleDialOutcome, HandleExec,
       HandleTerminalDone, Receives, Advances
<1>3. ASSUME NEW e \in Dials, DialStep(e) PROVE Advances(d)
  <2>1. CASE Acquire(e) \/ Open(e) \/ Release(e)
    BY <2>1, Positions DEF Acquire, Open, Release, Advances, Untried
  <2>2. CASE InitModem(e) \/ Configure(e)
    BY <2>2, Positions DEF InitModem, Configure, Exchange, Advances
  <2>3. CASE Close(e)
    BY <2>3, Positions DEF Close, Advances
  <2>4. CASE Retry(e)
    BY <2>4 DEF Retry, Advances
  <2>5. CASE Dial(e)
    BY <2>5, Positions DEF Dial, Advances
  <2> QED BY <1>3, <2>1, <2>2, <2>3, <2>4, <2>5 DEF DialStep
<1>4. ASSUME NEW e \in Dials, TerminalEnds(e) \/ CleanupStep(e) PROVE Advances(d)
  BY <1>4, Positions DEF TerminalEnds, CleanupStep, StdinEOF, CloseTerminal, ReleaseTerminal, Advances
<1>5. CASE UNCHANGED vars
  BY <1>5, AdvancesFrame DEF vars
<1> QED BY <1>1, <1>2, <1>3, <1>4, <1>5 DEF Next

\* For any number of dials and attempts: each step of a dial takes it on in its course or
\* counts an attempt, and attempts are bounded; a dial takes finitely many steps, whatever
\* the modem answers and the others do.
THEOREM DialsAdvance == Spec => DialAdvances
<1> DEFINE Step ==
      \A d \in Dials :
        /\ attempt[d] <= attempt'[d] /\ attempt'[d] <= maxRetries
        /\ pc'[d] # pc[d] => attempt[d] < attempt'[d] \/ Position(pc[d]) < Position(pc'[d])
<1>1. Init => TypeOK /\ RetriesLeft /\ Untried
  BY InitType, InitRetries DEF Init, Untried
<1>2. TypeOK /\ RetriesLeft /\ Untried /\ [Next]_vars => (TypeOK /\ RetriesLeft /\ Untried)'
  BY NextType, NextRetries, NextUntried
<1>3. TypeOK /\ TypeOK' /\ Untried /\ [Next]_vars => [Step]_vars
  <2> SUFFICES ASSUME TypeOK, TypeOK', Untried, [Next]_vars, NEW d \in Dials
               PROVE  Advances(d) /\ attempt'[d] <= maxRetries
    BY DEF Advances
  <2>1. attempt'[d] \in 0..maxRetries
    BY DEF TypeOK
  <2> QED BY <2>1, NextAdvances, ConsoleAssumption
<1> QED BY <1>1, <1>2, <1>3, PTL DEF Spec, DialAdvances
=============================================================================
