------------------------------ MODULE Middleware ------------------------------
(***************************************************************************)
(* The Express/Connect middleware of adapters/node.ts in front of an        *)
(* application (Koa, Fastify and Fetch wrap the same function), and the     *)
(* trapFormGuard mounted on a form's route behind it.                       *)
(*                                                                         *)
(* The engine's evaluate() is module Evaluation. A request is handed to the *)
(* application by next(), refused because its address is blocked, or        *)
(* answered by the honeypot through dispatch().                             *)
(***************************************************************************)
EXTENDS Evaluation

CONSTANTS
  FailOpen,        \* MiddlewareOptions.failOpen
  GuardMounted     \* whether the application mounts trapFormGuard

ASSUME OptionAssumption == FailOpen \in BOOLEAN /\ GuardMounted \in BOOLEAN

VARIABLES
  bodyRead,  \* the honeypot has consumed the request's body
  escaped    \* requests whose middleware promise rejected into the host

frontVars == <<bodyRead, escaped>>

vars == <<config, stage, facts, pass, tally, hits, score, proven, blocked, answer, ran,
          bodyRead, escaped>>

Init ==
  /\ EvalInit
  /\ bodyRead = [r \in Requests |-> FALSE]
  /\ escaped  = {}

-----------------------------------------------------------------------------
(* proceed(): the application takes the request over, effects es counted with it. *)
HandOver(r, es) ==
  /\ Say(r, "app")
  /\ Count(r, es \cup {"next"})
  /\ Goto(r, "handed")

(* ignorePaths and the exemptions come before anything that awaits. *)
Arrive(r) ==
  /\ stage[r] = "idle"
  /\ \E f \in Shapes :
       /\ facts' = [facts EXCEPT ![r] = f]
       /\ IF f.ignored \/ IpOf[r] \in config.exempt
          THEN HandOver(r, {"bypassed"})
          ELSE Goto(r, "checking") /\ UNCHANGED <<answer, tally>>
  /\ UNCHANGED <<config, pass, hits, score, proven, blocked, ran, bodyRead, escaped>>

BodyPhase(r) ==
  /\ facts[r].carriesBody
  /\ \E i \in DOMAIN config.detectors : config.detectors[i] \in BodyDetectors

CheckBlocked(r) ==
  /\ stage[r] = "checking"
  /\ IF IpOf[r] \in blocked
     THEN /\ Say(r, "refused")
          /\ Goto(r, "done")
          /\ UNCHANGED <<pass, tally>>
     ELSE /\ StartPass(r, IF BodyPhase(r) THEN "defer" ELSE "single", FALSE)
          /\ UNCHANGED answer
  /\ UNCHANGED <<config, facts, hits, score, proven, blocked, ran, bodyRead, escaped>>

BlockCheckFails(r) ==
  /\ stage[r] = "checking"
  /\ "blocklist" \in Faults
  /\ Goto(r, "failed")
  /\ UNCHANGED <<config, facts, pass, tally, hits, score, proven, blocked, answer, ran, frontVars>>

-----------------------------------------------------------------------------

(* handle() after a first pass that flagged the request and deferred. *)
Deferred(r) == stage[r] = "judged" /\ pass[r].kind = "defer" /\ pass[r].found # {}

(* The policy passes it: the first pass is committed without the body. *)
CommitUnread(r) ==
  /\ Deferred(r)
  /\ pass[r].action = "pass"
  /\ StartPass(r, "commit", FALSE)
  /\ UNCHANGED <<config, facts, hits, score, proven, blocked, answer, ran, frontVars>>

StartReading(r) ==
  /\ Deferred(r)
  /\ pass[r].action # "pass"
  /\ bodyRead' = [bodyRead EXCEPT ![r] = TRUE]
  /\ Goto(r, "reading")
  /\ UNCHANGED <<config, facts, pass, tally, hits, score, proven, blocked, answer, ran, escaped>>

(* readBody settles, with undefined when the request errors or is aborted. *)
BodySettles(r) ==
  /\ stage[r] = "reading"
  /\ \E body \in {TRUE} \cup IF "body" \in Faults THEN {FALSE} ELSE {} :
       StartPass(r, "commit", body)
  /\ UNCHANGED <<config, facts, hits, score, proven, blocked, answer, ran, frontVars>>

-----------------------------------------------------------------------------
Settled(r) ==
  /\ stage[r] = "judged"
  /\ pass[r].kind \in {"defer", "single", "commit"}
  /\ ~Deferred(r)

Passes(r) == pass[r].found = {} \/ pass[r].action = "pass"

(* Nothing fired, or the policy passed it. With a body phase and no live      *)
(* finding the shadowed ones are reported here.                               *)
PassOn(r) ==
  /\ Settled(r)
  /\ Passes(r)
  /\ HandOver(r, When(/\ pass[r].kind \in {"defer", "commit"}
                      /\ pass[r].found = {}
                      /\ pass[r].shadow # {}, "shadowed"))
  /\ UNCHANGED <<config, facts, pass, hits, score, proven, blocked, ran, bodyRead, escaped>>

Dispatch(r) ==
  /\ \/ Settled(r) /\ ~Passes(r)
     \/ stage[r] = "judged" /\ pass[r].kind = "trap" /\ pass[r].action # "pass"
  /\ StartDispatch(r)
  /\ UNCHANGED frontVars

-----------------------------------------------------------------------------
(* next() returns to the middleware, or the host throws out of it. A form's  *)
(* route runs the guard next.                                                *)
HostReturns(r) ==
  /\ stage[r] \in {"handed", "handedLast"}
  /\ Goto(r, IF GuardMounted /\ facts[r].form /\ answer[r] = "app" THEN "routed" ELSE "done")
  /\ UNCHANGED <<config, facts, pass, tally, hits, score, proven, blocked, answer, ran, frontVars>>

HostThrows(r) ==
  /\ "host" \in Faults
  /\ \/ stage[r] = "handed" /\ Goto(r, "failed") /\ UNCHANGED escaped
     \/ stage[r] = "handedLast" /\ Goto(r, "done") /\ escaped' = escaped \cup {r}
  /\ UNCHANGED <<config, facts, pass, tally, hits, score, proven, blocked, answer, ran, bodyRead>>

(* The middleware's catch. *)
InGuard(r)   == HasForm(pass[r].kind)
Continued(r) == tally[r]["next"] > 0

\* mutant: the error is reported and the request forgotten
CatchReports(r) ==
  /\ stage[r] = "failed"
  /\ ~InGuard(r)
  /\ Goto(r, "done")
  /\ UNCHANGED <<config, facts, pass, tally, hits, score, proven, blocked, answer, ran, frontVars>>

Catch(r) ==
  /\ stage[r] = "failed"
  /\ ~InGuard(r)
  /\ IF Continued(r) \/ answer[r] = "honeypot"
     THEN Goto(r, "done") /\ UNCHANGED <<answer, tally>>
     ELSE /\ Say(r, IF FailOpen THEN "app" ELSE "error")
          /\ Count(r, {"next"})
          /\ Goto(r, "handedLast")
  /\ UNCHANGED <<config, facts, pass, hits, score, proven, blocked, ran, bodyRead, escaped>>

-----------------------------------------------------------------------------
(* trapFormGuard on the route. It asks the exemptions without counting them.  *)
GuardStarts(r) ==
  /\ stage[r] = "routed"
  /\ IF facts[r].ignored \/ IpOf[r] \in config.exempt
     THEN Goto(r, "done") /\ UNCHANGED <<pass, tally>>
     ELSE StartPass(r, "probe", FALSE)
  /\ UNCHANGED <<config, facts, hits, score, proven, blocked, answer, ran, frontVars>>

(* Only a trap finding makes the guard commit the request. *)
GuardJudges(r) ==
  /\ stage[r] = "judged"
  /\ pass[r].kind = "probe"
  /\ IF pass[r].found \cap TrapDetectors = {}
     THEN Goto(r, "done") /\ UNCHANGED <<pass, tally>>
     ELSE StartPass(r, "trap", FALSE)
  /\ UNCHANGED <<config, facts, hits, score, proven, blocked, answer, ran, frontVars>>

GuardPasses(r) ==
  /\ stage[r] = "judged"
  /\ pass[r].kind = "trap"
  /\ pass[r].action = "pass"
  /\ Goto(r, "done")
  /\ UNCHANGED <<config, facts, pass, tally, hits, score, proven, blocked, answer, ran, frontVars>>

(* The guard fails open: unless a response was under way the form's handler runs. It may throw, *)
(* here as in Catch, and nothing catches what it throws: the request is done with all the same. *)
GuardCatch(r) ==
  /\ stage[r] = "failed"
  /\ InGuard(r)
  /\ Goto(r, "done")
  /\ UNCHANGED <<config, facts, pass, tally, hits, score, proven, blocked, answer, ran, frontVars>>

-----------------------------------------------------------------------------
Front(r) ==
  \/ Arrive(r) \/ CheckBlocked(r) \/ BlockCheckFails(r)
  \/ CommitUnread(r) \/ StartReading(r) \/ BodySettles(r)
  \/ PassOn(r) \/ Dispatch(r)
  \/ HostReturns(r) \/ HostThrows(r) \/ Catch(r)
  \/ GuardStarts(r) \/ GuardJudges(r) \/ GuardPasses(r) \/ GuardCatch(r)

Step(r) == Front(r) \/ (Evaluate(r) /\ UNCHANGED frontVars)

(* Every request has been dealt with. *)
Quiet ==
  /\ \A r \in Requests : stage[r] = "done"
  /\ UNCHANGED vars

Next ==
  \/ \E r \in Requests : Step(r)
  \/ Reconfigure /\ UNCHANGED frontVars
  \/ \E ip \in Ips : Expire(ip) /\ UNCHANGED frontVars
  \/ Quiet

Spec == Init /\ [][Next]_vars

(* Detectors have a deadline; backends, actions and the host settle. Nothing  *)
(* is assumed of operators reloading the configuration or of blocks expiring. *)
Fairness == \A r \in Requests : WF_vars(stage[r] # "idle" /\ Step(r))

FairSpec == Spec /\ Fairness

-----------------------------------------------------------------------------
TypeOK ==
  /\ EvalTypeOK
  /\ bodyRead \in [Requests -> BOOLEAN]
  /\ escaped \in SUBSET Requests

(* An address is on the blocklist only if some request of it was committed    *)
(* with a finding that is proof (core.ts 645-658): however findings add up,    *)
(* requests interleave and policies are swapped, a guess never blocks.         *)
BlockedOnlyOnProof == BlockRequiresProof => blocked \subseteq proven

(* The two passes over one request are one request (core.ts 38-52): one entry  *)
(* in the activity window, one record in the store, one announcement.          *)
CommittedOnce ==
  \A r \in Requests : \A e \in {"seen", "recorded", "announced"} : tally[r][e] =< 1

(* A request that went through without a failure was counted in exactly one    *)
(* place: refused, exempted, or audited by the pass that decided it            *)
(* (core.ts 389-396 and 597-604).                                              *)
CountedOnce ==
  \A r \in Requests :
    /\ tally[r]["bypassed"] + tally[r]["audited"] =< 1
    /\ stage[r] = "done" /\ Faults = {} =>
         tally[r]["bypassed"] + tally[r]["audited"] = IF answer[r] = "refused" THEN 0 ELSE 1

(* Whoever is answered by the honeypot was flagged and put to the store first. *)
AnsweredWhenRecorded ==
  \A r \in Requests : answer[r] = "honeypot" => tally[r]["recorded"] >= 1

(* Every request that arrives is eventually answered, passed on or refused,    *)
(* whatever fails on the way (node.ts 87-115).                                 *)
EveryRequestSettles ==
  \A r \in Requests : stage[r] # "idle" ~> (stage[r] = "done" /\ answer[r] # "none")

-----------------------------------------------------------------------------
(* Without the guard on a form's route, the two-pass middleware is the front   *)
(* door: a verdict is the answer, a report is a call of store.record.          *)
Reported == {r \in Requests : tally[r]["recorded"] > 0}

Door == INSTANCE FrontDoor WITH verdict <- answer, reported <- Reported

(* Every step of the middleware is a step of the front door or invisible to it *)
(* (node.ts 119-209, core.ts 525-725).                                         *)
ImplementsFrontDoor == Door!Spec
=============================================================================
