------------------------------ MODULE Standalone ------------------------------
(***************************************************************************)
(* HoneypotServer of adapters/server.ts: nothing sits behind it, so the     *)
(* body is read first, one committing pass decides, what nothing flags is   *)
(* answered like an empty path, and the proof guard is off.                 *)
(***************************************************************************)
EXTENDS Evaluation

ServerInit == EvalInit

ServerArrive(r) ==
  /\ stage[r] = "idle"
  /\ \E f \in Shapes :
       /\ facts' = [facts EXCEPT ![r] = f]
       /\ IF f.ignored \/ IpOf[r] \in config.exempt
          THEN Say(r, "empty") /\ Count(r, {"bypassed"}) /\ Goto(r, "done")
          ELSE Goto(r, "checking") /\ UNCHANGED <<answer, tally>>
  /\ UNCHANGED <<config, pass, hits, score, proven, blocked, ran>>

ServerCheckBlocked(r) ==
  /\ stage[r] = "checking"
  /\ IF IpOf[r] \in blocked
     THEN Say(r, "refused") /\ Goto(r, "done")
     ELSE Goto(r, "reading") /\ UNCHANGED answer
  /\ UNCHANGED <<config, facts, pass, tally, hits, score, proven, blocked, ran>>

ServerBlockCheckFails(r) ==
  /\ stage[r] = "checking"
  /\ "blocklist" \in Faults
  /\ Goto(r, "failed")
  /\ UNCHANGED <<config, facts, pass, tally, hits, score, proven, blocked, answer, ran>>

(* readBody settles, with undefined when the request errors or is aborted. *)
ServerBodySettles(r) ==
  /\ stage[r] = "reading"
  /\ \E body \in {facts[r].carriesBody} \cup IF "body" \in Faults THEN {FALSE} ELSE {} :
       StartPass(r, "single", body)
  /\ UNCHANGED <<config, facts, hits, score, proven, blocked, answer, ran>>

AnswerEmpty(r) ==
  /\ stage[r] = "judged"
  /\ pass[r].found = {}
  /\ Say(r, "empty")
  /\ Goto(r, "done")
  /\ UNCHANGED <<config, facts, pass, tally, hits, score, proven, blocked, ran>>

ServerDispatch(r) ==
  /\ stage[r] = "judged"
  /\ pass[r].found # {}
  /\ StartDispatch(r)

\* mutant: only a response that had begun is ended
ServerCatchBegun(r) ==
  /\ stage[r] = "failed"
  /\ Goto(r, "done")
  /\ UNCHANGED <<config, facts, pass, tally, hits, score, proven, blocked, answer, ran>>

(* The catch around handle(): a 500 unless the response had begun. *)
ServerCatch(r) ==
  /\ stage[r] = "failed"
  /\ IF answer[r] = "none" THEN Say(r, "error") ELSE UNCHANGED answer
  /\ Goto(r, "done")
  /\ UNCHANGED <<config, facts, pass, tally, hits, score, proven, blocked, ran>>

ServerStep(r) ==
  \/ ServerArrive(r) \/ ServerCheckBlocked(r) \/ ServerBlockCheckFails(r) \/ ServerBodySettles(r)
  \/ AnswerEmpty(r) \/ ServerDispatch(r) \/ ServerCatch(r)
  \/ Evaluate(r)

ServerQuiet ==
  /\ \A r \in Requests : stage[r] = "done"
  /\ UNCHANGED evalVars

ServerNext ==
  \/ \E r \in Requests : ServerStep(r)
  \/ Reconfigure
  \/ \E ip \in Ips : Expire(ip)
  \/ ServerQuiet

ServerSpec == ServerInit /\ [][ServerNext]_evalVars

\* Detectors have a deadline; the stores, the body and the actions settle.
ServerFairSpec == ServerSpec /\ \A r \in Requests : WF_evalVars(stage[r] # "idle" /\ ServerStep(r))

-----------------------------------------------------------------------------
(* A block is explained: while the store works, a blocked address has an       *)
(* incident on record whose response was the block (core.ts 686-724), though   *)
(* the two are written in different steps and the configuration may change     *)
(* between them.                                                               *)
BlockOnRecord ==
  "store" \notin Faults =>
    \A ip \in blocked : \E h \in hits : h.ip = ip /\ h.respondedWith = "block"

\* The sum of the scores of a set of incidents.
HitSum(S) == MapThenSumSet(LAMBDA h : h.score, S)

(* The scores an address was charged are the scores of its recorded incidents, *)
(* once each: concurrent requests neither lose nor double a charge.            *)
ChargedOnce ==
  \A ip \in Ips :
    score[ip] = HitSum({h \in hits : h.ip = ip})

(* Every request that arrives is answered.                                     *)
EveryRequestAnswered ==
  \A r \in Requests : stage[r] # "idle" ~> (stage[r] = "done" /\ answer[r] # "none")
=============================================================================
