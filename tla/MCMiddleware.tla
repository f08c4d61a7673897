----------------------------- MODULE MCMiddleware -----------------------------
(* Small instances of Middleware: three findings whose scores cross the       *)
(* thresholds of the ladder only together, one address, one or two requests.  *)
EXTENDS Middleware, TLC

MCIpOf == [r \in Requests |-> CHOOSE ip \in Ips : TRUE]

\* guess: a header finding; payload: needs the body; replay: proof; trap: a
\* hidden form field, proof as well; rate: a sliding-window detector.
MCScore  == [guess |-> 2, payload |-> 3, replay |-> 2, trap |-> 3, rate |-> 2]
MCFamily == [guess |-> "shape", payload |-> "attack", replay |-> "attack", trap |-> "trap",
             rate |-> "volume"]
MCAsk    == [guess |-> NoAction, payload |-> "decoy", replay |-> NoAction, trap |-> NoAction,
             rate |-> NoAction]
On(f, S) == [d \in S |-> f[d]]
ScoreOf  == On(MCScore, Detectors)
FamilyOf == On(MCFamily, Detectors)
AskOf    == On(MCAsk, Detectors)

AllActions == {"pass", "not-found", "block", "tarpit", "decoy"}

LadderPolicy  == [rules |-> <<>>, blockAt |-> 4, tarpitAt |-> 3]
AnyRule       == [minTotal |-> 0, minScore |-> 0, certain |-> BOOLEAN, fired |-> {},
                  respondWith |-> "pass", fallback |-> "not-found"]
ObservePolicy == [LadderPolicy EXCEPT !.rules = <<AnyRule>>]

Config(detectors, shadowed, actions, policy, exempt) ==
  [detectors |-> detectors, shadowed |-> shadowed, actions |-> actions, policy |-> policy,
   exempt |-> exempt]

Steady == Config(<<"guess", "payload", "replay">>, {}, AllActions, LadderPolicy, {})
\* A reload shadows a detector, drops an action, observes only, or exempts the source.
Reloads ==
  {Steady,
   [Steady EXCEPT !.shadowed = {"guess"}],
   [Steady EXCEPT !.actions = {"pass", "not-found", "block"}],
   [Steady EXCEPT !.policy = ObservePolicy],
   [Steady EXCEPT !.exempt = Ips]}

Shape(fires, body, form) ==
  [fires |-> fires, carriesBody |-> body, form |-> form, ignored |-> FALSE]
Ignored == [NoFacts EXCEPT !.ignored = TRUE]

FewShapes ==
  {Shape({"guess"}, TRUE, FALSE), Shape({"guess", "payload", "replay"}, TRUE, FALSE),
   Shape({"replay"}, FALSE, FALSE)}

\* Forms behind a body detector, with every kind of reload.
Bodied == Config(<<"guess", "payload", "trap">>, {}, AllActions, LadderPolicy, {})
FormReloads ==
  {Bodied,
   [Bodied EXCEPT !.shadowed = {"guess", "trap"}],
   [Bodied EXCEPT !.actions = {"block"}],
   [Bodied EXCEPT !.policy = ObservePolicy],
   [Bodied EXCEPT !.exempt = Ips]}
AllShapes ==
  {Shape(fires, TRUE, TRUE) : fires \in {{}, {"guess", "payload"}, {"guess", "trap"}, {"trap"}}}
  \cup {Shape({"guess"}, FALSE, FALSE), Ignored}
=============================================================================
