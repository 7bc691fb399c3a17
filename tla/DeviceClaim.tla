---------------------------- MODULE DeviceClaim ----------------------------
(***************************************************************************)
(* What DeviceLock promises (internal/modem/pool.go: "Only one session can *)
(* hold the device at a time."): a dial claims the device when nobody has  *)
(* it, opens it only while it has the claim, and yields the claim itself,  *)
(* after it has closed the device.                                         *)
(***************************************************************************)
CONSTANT Dials

VARIABLES
  holders,  \* the dials with a claim on the device
  open      \* the dials with the device open

vars == <<holders, open>>

Init == holders = {} /\ open = {}

Claim(d) ==
  /\ holders = {}
  /\ holders' = {d}
  /\ UNCHANGED open

Use(d) ==
  /\ holders = {d} /\ open = {}
  /\ open' = {d}
  /\ UNCHANGED holders

Stop(d) ==
  /\ open = {d}
  /\ open' = {}
  /\ UNCHANGED holders

Yield(d) ==
  /\ holders = {d} /\ open = {}
  /\ holders' = {}
  /\ UNCHANGED open

Next == \E d \in Dials : Claim(d) \/ Use(d) \/ Stop(d) \/ Yield(d)

Spec == Init /\ [][Next]_vars
=============================================================================
