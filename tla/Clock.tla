-------------------------------- MODULE Clock --------------------------------
(* The clock every component is given (src/src/internal/clock.ts): a reading  *)
(* in units of whatever windows the instance uses.                            *)
EXTENDS Naturals

CONSTANT Horizon  \* bound: the last reading

ASSUME ClockAssumption == Horizon \in Nat

VARIABLE now

Tick == now < Horizon /\ now' = now + 1
=============================================================================
