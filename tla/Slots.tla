------------------------------- MODULE Slots -------------------------------
(***************************************************************************)
(* What a cap on simultaneous connections, or on responses held open,       *)
(* promises: no more than Limit at a time hold a slot, one is turned away    *)
(* only while all of them are held, and a slot given back can be taken.      *)
(***************************************************************************)
EXTENDS Naturals, FiniteSets

CONSTANTS Users, Limit

VARIABLES holders, turnedAway

vars == <<holders, turnedAway>>

Init == holders = {} /\ turnedAway = {}

Acquire(u) ==
  /\ u \notin holders /\ Cardinality(holders) < Limit
  /\ holders' = holders \cup {u}
  /\ UNCHANGED turnedAway

TurnAway(u) ==
  /\ u \notin holders /\ Cardinality(holders) >= Limit
  /\ turnedAway' = turnedAway \cup {u}
  /\ UNCHANGED holders

Release(u) ==
  /\ u \in holders
  /\ holders' = holders \ {u}
  /\ UNCHANGED turnedAway

Next == \E u \in Users : Acquire(u) \/ TurnAway(u) \/ Release(u)

Spec == Init /\ [][Next]_vars
============================================================================
