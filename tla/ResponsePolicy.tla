---------------------------- MODULE ResponsePolicy ----------------------------
(***************************************************************************)
(* How the engine turns findings into a response: the score of a request   *)
(* (core.ts combinedScore), rule lists and the score ladder they fall back *)
(* to (policy/rules.ts), and the presets (policy/presets.ts).              *)
(*                                                                         *)
(* A context is a record [total, score, certain, fired, ask]: the running  *)
(* total including this request, what this request scored by itself,       *)
(* whether one of its findings is proof, the detectors that fired, and the *)
(* action the top finding asks for (NoAction when it asks for none).       *)
(* A rule's bounds on method, path, address and confidence, and its upper  *)
(* bounds on the scores, select contexts the same way its lower bounds do   *)
(* and are left out; a predicate that throws is a rule that does not match. *)
(* rulePolicy() may be given another fallback, but whoever calls it here    *)
(* gives the ladder or nothing, which is the ladder too.                    *)
(***************************************************************************)
EXTENDS Integers, Sequences, FiniteSetsExt

NoAction == "none"
FromDetector == "@detector"

-----------------------------------------------------------------------------
(* A family counts once, at its highest score; a detection without one is   *)
(* a family of its own.                                                      *)
CombinedScore(found, Score, Family) ==
  LET members(f) == {d \in found : Family[d] = f}
      best(f)    == Max({Score[d] : d \in members(f)})
  IN  MapThenSumSet(best, {Family[d] : d \in found})

(* The detections are sorted by score and the first one leads. *)
Leads(d, found, Score) == d \in found /\ \A e \in found : Score[e] =< Score[d]

-----------------------------------------------------------------------------
(* Absent fields match everything: {} for detectors, BOOLEAN for certain. *)
Matches(rule, ctx) ==
  /\ ctx.total >= rule.minTotal
  /\ ctx.score >= rule.minScore
  /\ ctx.certain \in rule.certain
  /\ rule.fired = {} \/ rule.fired \cap ctx.fired # {}

RuleAnswer(rule, ctx) ==
  IF rule.respondWith # FromDetector THEN rule.respondWith
  ELSE IF ctx.ask # NoAction THEN ctx.ask ELSE rule.fallback

Ladder(policy, ctx) ==
  IF ctx.total >= policy.blockAt THEN "block"
  ELSE IF ctx.ask # NoAction THEN ctx.ask
  ELSE IF ctx.total >= policy.tarpitAt THEN "tarpit"
  ELSE "not-found"

FirstMatch(policy, ctx, i) ==
  /\ i \in DOMAIN policy.rules
  /\ Matches(policy.rules[i], ctx)
  /\ \A j \in 1 .. i - 1 : ~Matches(policy.rules[j], ctx)

(* policy answers ctx with action a: the first rule that matches, or the ladder. *)
Decides(policy, ctx, a) ==
  \/ \E i \in DOMAIN policy.rules :
       FirstMatch(policy, ctx, i) /\ a = RuleAnswer(policy.rules[i], ctx)
  \/ /\ \A i \in DOMAIN policy.rules : ~Matches(policy.rules[i], ctx)
     /\ a = Ladder(policy, ctx)
=============================================================================
