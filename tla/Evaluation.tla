------------------------------ MODULE Evaluation ------------------------------
(***************************************************************************)
(* HoneypotEngine.evaluate() of core.ts and dispatch() of adapters/node.ts  *)
(* as their callers interleave them: one action per stretch of code between *)
(* two awaits, on the live, replaceable parts of the engine (detectors,     *)
(* shadow set, actions, policy, exemptions).                                *)
(*                                                                         *)
(* A front end (Middleware, Standalone) extends this module, starts passes  *)
(* with StartPass and takes over when one is "judged" or has "failed".      *)
(*                                                                         *)
(* Data: a detector stands for the one finding it can report, with a score, *)
(* a family, an action it may ask for, and whether it is proof (`certain`). *)
(* An allowlist entry and a service token are both a source the current     *)
(* configuration exempts.                                                   *)
(***************************************************************************)
EXTENDS ResponsePolicy

CONSTANTS
  Requests,          \* requests in flight
  Ips,               \* source addresses
  IpOf,              \* [Requests -> Ips]
  Detectors,
  BodyDetectors,     \* detectors with needsBody: silent until a pass has the body
  TrapDetectors,     \* the trap detector: fires on parsed form fields
  WindowedDetectors, \* read a sliding window, so two passes may disagree
  CertainDetectors,  \* their finding is proof
  Score, Family, Ask, \* what a detector's finding carries
  ActionIds,
  Configs,           \* the configurations reconfigure() may install
  BlockRequiresProof,
  UnprovenBlockFallback,
  Faults,            \* which calls may fail, a subset of FaultKinds
  Shapes             \* the requests that may arrive

FaultKinds == {"blocklist", "detector", "score", "policy", "store", "body", "action", "host"}

ASSUME SourceAssumption == IpOf \in [Requests -> Ips]

ASSUME DetectorAssumption ==
  /\ BodyDetectors \cup TrapDetectors \cup WindowedDetectors \cup CertainDetectors \subseteq Detectors
  /\ Score \in [Detectors -> Nat]
  /\ Ask \in [Detectors -> ActionIds \cup {NoAction}]

\* A sum of natural scores is natural: a fact about a fold, which TLC evaluates.
ASSUME ScoreAssumption ==
  \A found \in SUBSET Detectors : CombinedScore(found, Score, Family) \in Nat

\* createMiddleware refuses a fallback of "block"; trapFormGuard, which takes one of its own,
\* does not look, and is modelled with the options of the middleware in front of it.
ASSUME ActionAssumption ==
  /\ {"block", "pass", "not-found", "tarpit", UnprovenBlockFallback} \subseteq ActionIds
  /\ NoAction \notin ActionIds
  /\ UnprovenBlockFallback # "block"
  /\ BlockRequiresProof \in BOOLEAN

\* What a configuration holds; every action id its policy names is in ActionIds.
ASSUME ConfigAssumption ==
  \A c \in Configs :
    /\ DOMAIN c = {"detectors", "shadowed", "actions", "policy", "exempt"}
    /\ c.detectors \in Seq(Detectors) /\ c.detectors # <<>>
    /\ c.shadowed \subseteq Detectors
    /\ c.actions \subseteq ActionIds
    /\ c.exempt \subseteq Ips
    /\ \A i \in DOMAIN c.policy.rules :
         /\ c.policy.rules[i].respondWith \in ActionIds \cup {FromDetector}
         /\ c.policy.rules[i].fallback \in ActionIds

ASSUME FaultAssumption == Faults \subseteq FaultKinds

VARIABLES
  config,   \* the live parts of the engine
  stage,    \* where each request is suspended
  facts,    \* what the request would trip, and its shape
  pass,     \* locals of the evaluate() call in progress, then its result
  tally,    \* how often each once-per-request effect happened
  hits,     \* incidents in the store
  score,    \* the store's running score per address
  proven,   \* addresses a committed pass found proof against
  blocked,  \* the blocklist
  answer,   \* who answers the request
  ran       \* the response action dispatch() ran

evalVars == <<config, stage, facts, pass, tally, hits, score, proven, blocked, answer, ran>>

-----------------------------------------------------------------------------
Stages == {"idle", "checking", "reading", "scanning", "scoring", "deciding", "recording",
           "announcing", "judged", "executing", "handed", "handedLast", "routed", "failed", "done"}

(* The ways evaluate() is called: the middleware's deferred first pass, its  *)
(* only pass, its committing second pass, and trapFormGuard's two passes.    *)
PassKinds == {"defer", "single", "commit", "probe", "trap"}
CommitsSecondOnly(k) == k \in {"commit", "trap"}  \* mutant: an only pass defers too
Commits(k) == k \in {"single", "commit", "trap"}
TracksAll(k) == k \in {"defer", "single", "commit"}  \* mutant: the second pass tracks again
Tracks(k)  == k \in {"defer", "single"}
AuditsFirst(k) == k \in {"defer", "single"}  \* mutant: a second pass is never audited
Audits(k)  == k \in {"defer", "single", "commit"}
HasForm(k) == k \in {"probe", "trap"}

FactsType == [fires : SUBSET Detectors, carriesBody : BOOLEAN, form : BOOLEAN, ignored : BOOLEAN]
NoFacts   == [fires |-> {}, carriesBody |-> FALSE, form |-> FALSE, ignored |-> FALSE]

ASSUME ShapeAssumption == Shapes \subseteq FactsType

PassType ==
  [kind : PassKinds, body : BOOLEAN, todo : Seq(Detectors), found : SUBSET Detectors,
   shadow : SUBSET Detectors, prior : Nat, action : ActionIds \cup {NoAction},
   impl : ActionIds \cup {NoAction}]

NewPass(k, body, todo) ==
  [kind |-> k, body |-> body, todo |-> todo, found |-> {}, shadow |-> {}, prior |-> 0,
   action |-> NoAction, impl |-> NoAction]

Effects  == {"seen", "bypassed", "audited", "shadowed", "recorded", "announced", "next"}
NoTally  == [e \in Effects |-> 0]
Bump(t, es) == [e \in Effects |-> t[e] + IF e \in es THEN 1 ELSE 0]

\* Effects e happens only when p holds.
When(p, e) == IF p THEN {e} ELSE {}

Answers == {"none", "app", "error", "refused", "honeypot", "empty"}

HitType == [req : Requests, ip : Ips, score : Nat, total : Nat, respondedWith : ActionIds]

EvalInit ==
  /\ config \in Configs
  /\ stage   = [r \in Requests |-> "idle"]
  /\ facts   = [r \in Requests |-> NoFacts]
  /\ pass    = [r \in Requests |-> NewPass("single", FALSE, <<>>)]
  /\ tally   = [r \in Requests |-> NoTally]
  /\ hits    = {}
  /\ score   = [ip \in Ips |-> 0]
  /\ proven  = {}
  /\ blocked = {}
  /\ answer  = [r \in Requests |-> "none"]
  /\ ran     = [r \in Requests |-> NoAction]

Goto(r, s) == stage' = [stage EXCEPT ![r] = s]
Say(r, a) == answer' = [answer EXCEPT ![r] = a]
Count(r, es) == tally' = [tally EXCEPT ![r] = Bump(@, es)]

-----------------------------------------------------------------------------
(* The synchronous start of evaluate(): exemption, then the activity window, *)
(* then the first detector.                                                  *)
StartPass(r, k, body) ==
  IF IpOf[r] \in config.exempt
  THEN /\ pass' = [pass EXCEPT ![r] = NewPass(k, body, <<>>)]
       /\ Count(r, When(Audits(k), "bypassed"))
       /\ Goto(r, "judged")
  ELSE /\ pass' = [pass EXCEPT ![r] = NewPass(k, body, config.detectors)]
       /\ Count(r, When(Tracks(k), "seen"))
       /\ Goto(r, "scanning")

CanFire(r, d) ==
  /\ d \in facts[r].fires
  /\ d \in BodyDetectors => pass[r].body
  /\ d \in TrapDetectors => HasForm(pass[r].kind)

Outcomes(r, d) ==
  (IF d \in WindowedDetectors THEN {"fired", "silent"}
   ELSE IF CanFire(r, d) THEN {"fired"} ELSE {"silent"})
  \cup (IF "detector" \in Faults THEN {"failed"} ELSE {})

Last(todo) == Tail(todo) = <<>>

(* The next detector settles. Whether it is shadowed is read now, on the     *)
(* configuration of this moment; after the last one the findings are sorted. *)
Inspect(r) ==
  /\ stage[r] = "scanning"
  /\ LET p == pass[r]
         d == Head(p.todo)
     IN \E outcome \in Outcomes(r, d) :
          LET live   == outcome = "fired" /\ d \notin config.shadowed
              muted  == outcome = "fired" /\ d \in config.shadowed
              found  == IF live THEN p.found \cup {d} ELSE p.found
              shadow == IF muted THEN p.shadow \cup {d} ELSE p.shadow
          IN /\ pass' = [pass EXCEPT ![r].todo = Tail(p.todo), ![r].found = found,
                                     ![r].shadow = shadow]
             /\ IF ~Last(p.todo)
                THEN UNCHANGED <<stage, tally>>
                ELSE /\ Count(r, When(shadow # {} /\ Commits(p.kind), "shadowed")
                                 \cup When(found = {} /\ Audits(p.kind), "audited"))
                     /\ Goto(r, IF found = {} THEN "judged" ELSE "scoring")
  /\ UNCHANGED <<config, facts, hits, score, proven, blocked, answer, ran>>

(* safeScore: the address's score before this request, or 0 if the store fails. *)
ReadScore(r) ==
  /\ stage[r] = "scoring"
  /\ \E prior \in {score[IpOf[r]]} \cup IF "score" \in Faults THEN {0} ELSE {} :
       pass' = [pass EXCEPT ![r].prior = prior]
  /\ Goto(r, "deciding")
  /\ UNCHANGED <<config, facts, tally, hits, score, proven, blocked, answer, ran>>

RequestScore(r) == CombinedScore(pass[r].found, Score, Family)
TotalScore(r)   == pass[r].prior + RequestScore(r)
IsProof(found)  == found \cap CertainDetectors # {}

PolicyContext(r, top) ==
  [total |-> TotalScore(r), score |-> RequestScore(r), certain |-> IsProof(pass[r].found),
   fired |-> pass[r].found, ask |-> Ask[top]]

Lookup(a) == IF a \in config.actions THEN a ELSE NoAction

GuardedNever(a, found) == a  \* mutant: no guard

\* The proof guard: an unproven block becomes the fallback.
Guarded(a, found) ==
  IF a = "block" /\ BlockRequiresProof /\ ~IsProof(found) THEN UnprovenBlockFallback ELSE a

(* The live policy decides, the proof guard runs after it. A deferred pass   *)
(* returns here; a committing one is counted and goes on to the store.       *)
Decide(r) ==
  /\ stage[r] = "deciding"
  /\ LET p == pass[r] IN
     \E top \in Detectors, a \in ActionIds :
       LET action == Guarded(a, p.found) IN
       /\ Leads(top, p.found, Score)
       /\ Decides(config.policy, PolicyContext(r, top), a)
       /\ IF Commits(p.kind)
          THEN /\ pass' = [pass EXCEPT ![r].action = action]
               /\ Count(r, When(Audits(p.kind), "audited"))
               /\ proven' = IF IsProof(p.found) THEN proven \cup {IpOf[r]} ELSE proven
               /\ Goto(r, "recording")
          ELSE /\ pass' = [pass EXCEPT ![r].action = action, ![r].impl = Lookup(action)]
               /\ Goto(r, "judged")
               /\ UNCHANGED <<tally, proven>>
  /\ UNCHANGED <<config, facts, hits, score, blocked, answer, ran>>

(* A policy is caller-supplied code and its exception is not caught here. *)
PolicyThrows(r) ==
  /\ stage[r] = "deciding"
  /\ "policy" \in Faults
  /\ Goto(r, "failed")
  /\ UNCHANGED <<config, facts, pass, tally, hits, score, proven, blocked, answer, ran>>

Hit(r) == [req |-> r, ip |-> IpOf[r], score |-> RequestScore(r), total |-> TotalScore(r),
           respondedWith |-> pass[r].action]

\* mutant: the total of the policy's context is written back
RecordTotal(r) ==
  /\ stage[r] = "recording"
  /\ hits' = hits \cup {Hit(r)}
  /\ score' = [score EXCEPT ![IpOf[r]] = TotalScore(r)]
  /\ Count(r, {"recorded"})
  /\ Goto(r, "announcing")
  /\ UNCHANGED <<config, facts, pass, proven, blocked, answer, ran>>

(* store.record: best effort, credited to the ledger when it succeeds. *)
Record(r) ==
  /\ stage[r] = "recording"
  /\ \/ /\ hits' = hits \cup {Hit(r)}
        /\ score' = [score EXCEPT ![IpOf[r]] = @ + RequestScore(r)]
     \/ /\ "store" \in Faults
        /\ UNCHANGED <<hits, score>>
  /\ Count(r, {"recorded"})
  /\ Goto(r, "announcing")
  /\ UNCHANGED <<config, facts, pass, proven, blocked, answer, ran>>

(* onHit, the listeners, and the result: the action is looked up only now. *)
Announce(r) ==
  /\ stage[r] = "announcing"
  /\ pass' = [pass EXCEPT ![r].impl = Lookup(pass[r].action)]
  /\ Count(r, {"announced"})
  /\ Goto(r, "judged")
  /\ UNCHANGED <<config, facts, hits, score, proven, blocked, answer, ran>>

-----------------------------------------------------------------------------
ResolveBlock(r) ==                        \* mutant: an unknown action blocks
  IF pass[r].impl # NoAction THEN pass[r].impl ELSE Lookup("block")

(* dispatch(): the action evaluate() looked up, or not-found, or a bare 404. *)
Resolve(r) == IF pass[r].impl # NoAction THEN pass[r].impl ELSE Lookup("not-found")

StartDispatch(r) ==
  /\ ran' = [ran EXCEPT ![r] = Resolve(r)]
  /\ Goto(r, "executing")
  /\ UNCHANGED <<config, facts, pass, tally, hits, score, proven, blocked, answer>>

(* blockAction reports a blocklist that fails and answers all the same. *)
Execute(r) ==
  /\ stage[r] = "executing"
  /\ \/ ran[r] = "block" /\ blocked' = blocked \cup {IpOf[r]}
     \/ (ran[r] # "block" \/ "blocklist" \in Faults) /\ UNCHANGED blocked
  /\ Say(r, "honeypot")
  /\ Goto(r, "done")
  /\ UNCHANGED <<config, facts, pass, tally, hits, score, proven, ran>>

(* An action throws, before or after its headers were sent. *)
ExecuteThrows(r) ==
  /\ stage[r] = "executing"
  /\ "action" \in Faults
  /\ ran[r] \notin {"block", NoAction}
  /\ \/ UNCHANGED answer
     \/ Say(r, "honeypot")
  /\ Goto(r, "failed")
  /\ UNCHANGED <<config, facts, pass, tally, hits, score, proven, blocked, ran>>

-----------------------------------------------------------------------------
(* reconfigure(): every part is replaced in one synchronous call. *)
Reconfigure ==
  /\ \E c \in Configs \ {config} : config' = c
  /\ UNCHANGED <<stage, facts, pass, tally, hits, score, proven, blocked, answer, ran>>

(* A block runs out. *)
Expire(ip) ==
  /\ ip \in blocked
  /\ blocked' = blocked \ {ip}
  /\ UNCHANGED <<config, stage, facts, pass, tally, hits, score, proven, answer, ran>>

Evaluate(r) ==
  \/ Inspect(r)
  \/ ReadScore(r)
  \/ Decide(r)
  \/ PolicyThrows(r)
  \/ Record(r)
  \/ Announce(r)
  \/ Execute(r)
  \/ ExecuteThrows(r)

(* What a suspended pass may rely on when it resumes. *)
LocalsOK ==
  \A r \in Requests :
    /\ stage[r] = "scanning" => pass[r].todo # <<>>
    /\ stage[r] = "recording" => pass[r].action \in ActionIds

EvalTypeOK ==
  /\ config \in Configs
  /\ stage \in [Requests -> Stages]
  /\ facts \in [Requests -> FactsType]
  /\ pass \in [Requests -> PassType]
  /\ LocalsOK
  /\ tally \in [Requests -> [Effects -> Nat]]
  /\ hits \in SUBSET HitType
  /\ score \in [Ips -> Nat]
  /\ proven \in SUBSET Ips
  /\ blocked \in SUBSET Ips
  /\ answer \in [Requests -> Answers]
  /\ ran \in [Requests -> ActionIds \cup {NoAction}]
=============================================================================
