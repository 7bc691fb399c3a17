-------------------------------- MODULE Menu --------------------------------
(***************************************************************************)
(* The status line of the site menu (internal/tui/menu.go, sip.go) as the  *)
(* root model shows and leaves the menu (internal/tui/model.go).  Opening  *)
(* the menu starts a chain: a status check, and a tick after 30 s whose    *)
(* message, if the menu is there to take it, starts the next of both.      *)
(* Messages reach whatever screen is shown by then: a return to the menu   *)
(* starts one more chain and meets the messages of the old ones.           *)
(*                                                                         *)
(* Time is counted in units; a due message is delivered before the next.   *)
(* The code sets no limit to a check; that each ends within MaxCheck is an *)
(* assumption about asterisk, ls and pgrep.  Selecting a site is in        *)
(* Console.                                                                *)
(***************************************************************************)
EXTENDS Naturals, Sequences, FiniteSets

CONSTANTS
  Period,    \* of sipTick
  MaxCheck,  \* the longest check
  Chains,    \* slots for chains; bounds the model
  Outputs    \* Outputs[t]: what "pjsip show registrations" prints while the trunk is t

\* A line is "other" (blank, a header, or of less than three fields) or its third field.
Status == {"Registered", "Unregistered"}

ASSUME MenuAssumption ==
  /\ MaxCheck \in Nat \ {0} /\ Period \in Nat /\ MaxCheck < Period
  /\ Outputs \in [Status -> SUBSET Seq({"other", "found"} \union Status)]

VARIABLES
  shown,   \* sipInfo.Status of the menu
  age,     \* how long ago the check it shows was started, at most Old
  inMenu,  \* state is StateMenu
  since,   \* how long the menu has been shown, or not
  tick,    \* when the tick of each chain is due, None without one
  check,   \* the check of each chain that runs or whose message is on its way
  trunk,   \* what the line of the trunk says at this moment
  steady,  \* for how long
  quick,   \* history: the menu was left for no longer than a tick
  stale    \* history: a result replaced one of a later check

vars == <<shown, age, inMenu, since, tick, check, trunk, steady, quick, stale>>

None == Period + 1
NoCheck == [age |-> 0, saw |-> "none"]
Old == MaxCheck + 1
Long == Period + MaxCheck + 1

CapAt(n, bound) == IF n > bound THEN bound ELSE n

\* Mutant: the tick is set to two periods.
IntervalLong == 2 * Period

Interval == Period

\* The line that decides.
Registration(out) ==
  LET full == {i \in 1..Len(out) : out[i] # "other"} IN
    IF full = {} THEN 0 ELSE CHOOSE i \in full : \A j \in full : i <= j

\* An output without such a line, or a command that failed, is "Unregistered".
parseSIPRegistrations(out) ==
  IF Registration(out) # 0 /\ out[Registration(out)] = "Registered" THEN "Registered"
  ELSE "Unregistered"

\* The one trunk that registers (pjsip_wizard.conf) comes first.
ASSUME TrunkAssumption ==
  \A t \in Status : \A out \in Outputs[t] : parseSIPRegistrations(out) = t

Alive(c) == tick[c] # None \/ check[c] # NoCheck

Running == [age |-> 0, saw |-> "pending"]

\* MenuModel.Init on a free chain.
StartsChain(c) ==
  /\ tick' = [tick EXCEPT ![c] = Interval]
  /\ check' = [check EXCEPT ![c] = Running]

\* tui.New with StateMenu, and Model.Init.
Init ==
  /\ shown = "unknown" /\ age = Old /\ inMenu = TRUE /\ since = 0
  /\ \E c \in Chains :
       /\ tick = [d \in Chains |-> IF d = c THEN Interval ELSE None]
       /\ check = [d \in Chains |-> IF d = c THEN Running ELSE NoCheck]
  /\ trunk \in Status /\ steady = 0
  /\ quick = FALSE /\ stale = FALSE

\* DialRequestMsg.
Leave ==
  /\ inMenu
  /\ inMenu' = FALSE /\ since' = 0
  /\ UNCHANGED <<shown, age, tick, check, trunk, steady, quick, stale>>

\* returnToMenu: a new MenuModel, and its Init.
Return ==
  /\ ~inMenu
  /\ inMenu' = TRUE /\ since' = 0
  /\ shown' = "unknown" /\ age' = Old
  /\ \E c \in Chains : ~Alive(c) /\ StartsChain(c)
  /\ quick' = (since <= Period)
  /\ stale' = FALSE
  /\ UNCHANGED <<trunk, steady>>

\* Mutant: the root model passes sipTickMsg to the menu on every screen.
TakesTickAlways == TRUE

\* Only updateMenu passes messages to the menu.
TakesTick == inMenu

\* Mutant: the tick starts a check, but no tick.
NextTickNever == None

NextTick == Interval

sipTickMsg(c) ==
  /\ tick[c] = 0
  /\ \/ /\ TakesTick
        /\ tick' = [tick EXCEPT ![c] = NextTick]
        /\ check' = [check EXCEPT ![c] = Running]
     \/ /\ ~TakesTick
        /\ tick' = [tick EXCEPT ![c] = None]
        /\ UNCHANGED check
  /\ UNCHANGED <<shown, age, inMenu, since, trunk, steady, quick, stale>>

\* checkSIPStatus asks asterisk; the command may fail.
checkSIPStatus(c) ==
  /\ check[c].saw = "pending"
  /\ \E saw \in {parseSIPRegistrations(out) : out \in Outputs[trunk]} :
       check' = [check EXCEPT ![c].saw = saw]
  /\ UNCHANGED <<shown, age, inMenu, since, tick, trunk, steady, quick, stale>>

sipStatusMsg(c) ==
  /\ check[c].saw \in Status
  /\ check' = [check EXCEPT ![c] = NoCheck]
  /\ \/ /\ inMenu
        /\ shown' = check[c].saw /\ age' = check[c].age
        /\ stale' = (stale \/ check[c].age > age)
     \/ ~inMenu /\ UNCHANGED <<shown, age, stale>>
  /\ UNCHANGED <<inMenu, since, tick, trunk, steady, quick>>

TrunkChanges ==
  /\ trunk' \in Status \ {trunk} /\ steady' = 0
  /\ UNCHANGED <<shown, age, inMenu, since, tick, check, quick, stale>>

Time ==
  /\ \A c \in Chains : tick[c] # 0 /\ (check[c] # NoCheck => check[c].age < MaxCheck)
  /\ tick' = [c \in Chains |-> IF tick[c] = None THEN None ELSE tick[c] - 1]
  /\ check' = [c \in Chains |-> IF check[c] = NoCheck THEN NoCheck
                                ELSE [check[c] EXCEPT !.age = @ + 1]]
  /\ age' = CapAt(age + 1, Old)
  /\ since' = CapAt(since + 1, Long) /\ steady' = CapAt(steady + 1, Long)
  /\ UNCHANGED <<shown, inMenu, trunk, quick, stale>>

Next ==
  \/ Leave \/ Return \/ TrunkChanges \/ Time
  \/ \E c \in Chains : sipTickMsg(c) \/ checkSIPStatus(c) \/ sipStatusMsg(c)

Spec == Init /\ [][Next]_vars
-----------------------------------------------------------------------------
TypeOK ==
  /\ shown \in {"unknown"} \union Status
  /\ age \in 0..Old /\ since \in 0..Long /\ steady \in 0..Long
  /\ inMenu \in BOOLEAN /\ quick \in BOOLEAN /\ stale \in BOOLEAN
  /\ tick \in [Chains -> 0..None]
  /\ check \in [Chains -> {NoCheck} \union
                          [age : 0..MaxCheck, saw : {"pending"} \union Status]]
  /\ trunk \in Status

\* The menu shows what has been so for a period and a check, however often the user
\* left and returned and in whatever order results came: polling does not stop, and no
\* result of an old check outlives the next.
TrunkIsShown == inMenu /\ since > MaxCheck /\ steady > Period + MaxCheck => shown = trunk

\* There is one chain of checks, unless the user came back within its period: every
\* chain of the menu that was left has ended by then.
OneChain == Cardinality({c \in Chains : tick[c] # None}) > 1 => quick

\* A result replaces the one of a later check only after such a return.
ResultsInOrder == stale => quick

(***************************************************************************)
(* The inductive invariant behind these.                                   *)
(***************************************************************************)
\* A check was started together with the tick of its chain, and ends before it.
CheckHasTick == \A c \in Chains : check[c] # NoCheck => tick[c] + check[c].age = Period

\* Away from the menu every tick comes to nothing within a period.
TicksEnd == ~inMenu => \A c \in Chains : tick[c] # None => tick[c] + since <= Period

\* After a longer absence the chain that the menu starts is the only one.
OneTick == ~quick => \A c, d \in Chains : tick[c] # None /\ tick[d] # None => c = d

\* Then what is shown was asked for before what is still to come.
InOrder ==
  /\ stale => quick
  /\ ~quick /\ inMenu => \A c \in Chains : check[c] # NoCheck => check[c].age <= age

\* What a check saw since the trunk changed for the last time is so still.
SawTrunk ==
  \A c \in Chains : check[c].saw \in Status /\ steady > check[c].age => check[c].saw = trunk

\* When the check was started whose result chain c gave last.
ShownAge(c) == IF check[c] = NoCheck THEN Period - tick[c] ELSE Period + check[c].age

\* The menu has a result as soon as its first check ends; what it shows comes from a
\* chain that polls on, so that it grows old for a period and a check only.
Polled ==
  inMenu =>
    IF shown = "unknown" THEN \E c \in Chains : check[c] # NoCheck /\ check[c].age = since
    ELSE \E c \in Chains : tick[c] # None /\ (steady > ShownAge(c) => shown = trunk)

MenuInv ==
  TypeOK /\ CheckHasTick /\ TicksEnd /\ OneTick /\ InOrder /\ SawTrunk /\ Polled

(***************************************************************************)
(* What the comment says, and the code does not do.                        *)
(***************************************************************************)

\* sip.go:113 "sipTick returns a command that ticks every 30 seconds": a menu that has been
\* on the screen for a period is polled by one tick in each.
OneTickPerPeriod ==
  inMenu /\ since > Period => Cardinality({c \in Chains : tick[c] # None}) <= 1
=============================================================================
