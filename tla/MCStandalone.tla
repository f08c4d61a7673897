----------------------------- MODULE MCStandalone -----------------------------
(* Small instances of Standalone: one address, findings that reach the       *)
(* block threshold alone or together, and reloads that drop or shadow parts.   *)
EXTENDS Standalone, TLC

CONSTANTS r1, r2, a

ASSUME NoGuardAssumption == ~BlockRequiresProof

MCIps      == {a}
MCIpOf     == [r \in Requests |-> a]
MCScore    == [guess |-> 2, payload |-> 3]
MCFamily   == [guess |-> "shape", payload |-> "attack"]
MCAsk      == [guess |-> NoAction, payload |-> "decoy"]
AllActions == {"pass", "not-found", "block", "tarpit", "decoy"}

Ladder5 == [rules |-> <<>>, blockAt |-> 5, tarpitAt |-> 3]
ProofRule == [minTotal |-> 0, minScore |-> 3, certain |-> BOOLEAN, fired |-> {"payload"},
              respondWith |-> FromDetector, fallback |-> "not-found"]
Rules5 == [Ladder5 EXCEPT !.rules = <<ProofRule>>]

Base == [detectors |-> <<"guess", "payload">>, shadowed |-> {}, actions |-> AllActions,
         policy |-> Ladder5, exempt |-> {}]
MCConfigs ==
  {Base, [Base EXCEPT !.policy = Rules5], [Base EXCEPT !.shadowed = {"payload"}],
   [Base EXCEPT !.actions = {"block"}], [Base EXCEPT !.exempt = {a}]}

Shape(fires) == [fires |-> fires, carriesBody |-> TRUE, form |-> FALSE, ignored |-> FALSE]
MCShapes ==
  {Shape({}), Shape({"guess"}), Shape({"guess", "payload"}), [NoFacts EXCEPT !.ignored = TRUE]}
=============================================================================
