--------------------------- MODULE FrontEndProofs ---------------------------
(***************************************************************************)
(* Theorems about the two front ends of the engine, Middleware and          *)
(* Standalone, for every set of requests, addresses, detectors, policies and *)
(* configurations: first what the steps of evaluate() and dispatch() do for  *)
(* both, then each by itself.                                               *)
(***************************************************************************)
EXTENDS Middleware, Standalone, DataTheorems

-----------------------------------------------------------------------------
(* evaluate() and dispatch().                                               *)

(* Counting an effect keeps a tally a tally. *)
LEMMA CountType ==
  ASSUME tally \in [Requests -> [Effects -> Nat]], NEW r \in Requests, NEW es, Count(r, es)
  PROVE  tally' \in [Requests -> [Effects -> Nat]]
<1>1. ASSUME NEW t \in [Effects -> Nat]
      PROVE  Bump(t, es) \in [Effects -> Nat]
  BY DEF Bump
<1>2. Bump(tally[r], es) \in [Effects -> Nat]
  BY <1>1
<1> QED
  BY <1>2 DEF Count

LEMMA NewPassType ==
  ASSUME NEW k \in PassKinds, NEW body \in BOOLEAN, NEW todo \in Seq(Detectors)
  PROVE  NewPass(k, body, todo) \in PassType /\ NewPass(k, body, todo).todo = todo
<1>1. {} \in SUBSET Detectors /\ 0 \in Nat /\ NoAction \in ActionIds \cup {NoAction}
  OBVIOUS
<1> QED
  BY <1>1, SMT DEF NewPass, PassType

(* Whatever is found, its combined score is a natural number. *)
LEMMA RequestScoreType ==
  ASSUME EvalTypeOK, NEW r \in Requests
  PROVE  RequestScore(r) \in Nat /\ TotalScore(r) \in Nat
<1>1. pass[r].found \in SUBSET Detectors /\ pass[r].prior \in Nat
  BY DEF EvalTypeOK, PassType
<1>2. RequestScore(r) \in Nat
  BY <1>1, ScoreAssumption DEF RequestScore
<1> QED
  BY <1>1, <1>2 DEF TotalScore

LEMMA LookupType ==
  ASSUME config \in Configs, NEW a
  PROVE  Lookup(a) \in {a, NoAction} /\ Lookup(a) \in ActionIds \cup {NoAction}
BY ConfigAssumption DEF Lookup

(* Starting a pass: what it leaves in every variable it assigns. *)
LEMMA StartPassType ==
  ASSUME EvalTypeOK, NEW r \in Requests, NEW k \in PassKinds, NEW body \in BOOLEAN,
         StartPass(r, k, body)
  PROVE  /\ pass' \in [Requests -> PassType]
         /\ tally' \in [Requests -> [Effects -> Nat]]
         /\ stage' \in [Requests -> Stages]
         /\ LocalsOK'
<1>1. config.detectors \in Seq(Detectors) /\ config.detectors # <<>>
  BY ConfigAssumption DEF EvalTypeOK
<1>2. <<>> \in Seq(Detectors)
  OBVIOUS
<1>3. NewPass(k, body, <<>>) \in PassType
  BY <1>2, NewPassType
<1>4. /\ NewPass(k, body, config.detectors) \in PassType
      /\ NewPass(k, body, config.detectors).todo # <<>>
  BY <1>1, NewPassType
<1>5. \E es : Count(r, es)
  BY Zenon DEF StartPass
<1>6. tally' \in [Requests -> [Effects -> Nat]]
  BY <1>5, CountType DEF EvalTypeOK
<1>7. CASE IpOf[r] \in config.exempt
  <2>1. pass' = [pass EXCEPT ![r] = NewPass(k, body, <<>>)] /\ Goto(r, "judged")
    BY <1>7 DEF StartPass
  <2> QED
    BY <2>1, <1>3, <1>6 DEF EvalTypeOK, LocalsOK, Goto, Stages
<1>8. CASE IpOf[r] \notin config.exempt
  <2>1. /\ pass' = [pass EXCEPT ![r] = NewPass(k, body, config.detectors)]
        /\ Goto(r, "scanning")
    BY <1>8 DEF StartPass
  <2> QED
    BY <2>1, <1>4, <1>6 DEF EvalTypeOK, LocalsOK, Goto, Stages
<1> QED
  BY <1>7, <1>8

-----------------------------------------------------------------------------
(* The steps of evaluate() and dispatch() keep the types. *)
LEMMA InspectType ==
  ASSUME EvalTypeOK, NEW r \in Requests, Inspect(r)
  PROVE  EvalTypeOK'
<1>1. /\ stage[r] = "scanning" /\ pass[r] \in PassType
      /\ pass[r].todo \in Seq(Detectors) /\ pass[r].todo # <<>>
  BY DEF Inspect, EvalTypeOK, LocalsOK, PassType
<1>2. Head(pass[r].todo) \in Detectors /\ Tail(pass[r].todo) \in Seq(Detectors)
  BY <1>1
<1>3. PICK found \in SUBSET Detectors, shadow \in SUBSET Detectors :
        /\ pass' = [pass EXCEPT ![r].todo = Tail(pass[r].todo), ![r].found = found,
                                ![r].shadow = shadow]
        /\ \/ ~Last(pass[r].todo) /\ UNCHANGED <<stage, tally>>
           \/ /\ \E es : Count(r, es)
              /\ Goto(r, IF found = {} THEN "judged" ELSE "scoring")
  <2> DEFINE d == Head(pass[r].todo)
             foundIf(fired) == IF fired THEN pass[r].found \cup {d} ELSE pass[r].found
             shadowIf(fired) == IF fired THEN pass[r].shadow \cup {d} ELSE pass[r].shadow
  <2>1. PICK outcome \in Outcomes(r, d) :
          LET found  == foundIf(outcome = "fired" /\ d \notin config.shadowed)
              shadow == shadowIf(outcome = "fired" /\ d \in config.shadowed)
          IN /\ pass' = [pass EXCEPT ![r].todo = Tail(pass[r].todo), ![r].found = found,
                                     ![r].shadow = shadow]
             /\ \/ ~Last(pass[r].todo) /\ UNCHANGED <<stage, tally>>
                \/ /\ \E es : Count(r, es)
                   /\ Goto(r, IF found = {} THEN "judged" ELSE "scoring")
    BY Zenon DEF Inspect
  <2>2. /\ foundIf(TRUE) \in SUBSET Detectors /\ foundIf(FALSE) \in SUBSET Detectors
        /\ shadowIf(TRUE) \in SUBSET Detectors /\ shadowIf(FALSE) \in SUBSET Detectors
    BY <1>1, <1>2 DEF PassType
  <2>3. \A fired \in BOOLEAN : foundIf(fired) \in SUBSET Detectors /\ shadowIf(fired) \in SUBSET Detectors
    BY <2>2
  <2> HIDE DEF foundIf, shadowIf
  <2> QED
    BY <2>1, <2>3
<1>4. pass' \in [Requests -> PassType] /\ pass'[r].todo = Tail(pass[r].todo)
  BY <1>1, <1>2, <1>3 DEF EvalTypeOK, PassType
<1>5. tally' \in [Requests -> [Effects -> Nat]]
  BY <1>3, CountType DEF EvalTypeOK
<1>6. stage' \in [Requests -> Stages] /\ LocalsOK'
  BY <1>1, <1>3, <1>4 DEF EvalTypeOK, LocalsOK, Last, Goto, Stages
<1> QED
  BY <1>4, <1>5, <1>6 DEF Inspect, EvalTypeOK

LEMMA DecideType ==
  ASSUME EvalTypeOK, NEW r \in Requests, Decide(r)
  PROVE  EvalTypeOK'
<1>1. PICK a \in ActionIds :
        LET action == Guarded(a, pass[r].found) IN
        \/ /\ pass' = [pass EXCEPT ![r].action = action]
           /\ \E es : Count(r, es)
           /\ proven' = IF IsProof(pass[r].found) THEN proven \cup {IpOf[r]} ELSE proven
           /\ Goto(r, "recording")
        \/ /\ pass' = [pass EXCEPT ![r].action = action, ![r].impl = Lookup(action)]
           /\ Goto(r, "judged")
           /\ UNCHANGED <<tally, proven>>
  BY Zenon DEF Decide
<1>2. Guarded(a, pass[r].found) \in ActionIds
  BY ActionAssumption DEF Guarded
<1>3. Lookup(Guarded(a, pass[r].found)) \in ActionIds \cup {NoAction}
  BY LookupType DEF EvalTypeOK
<1>4. pass' \in [Requests -> PassType] /\ pass'[r].action \in ActionIds
  <2>1. pass \in [Requests -> PassType] /\ pass[r] \in PassType
    BY DEF EvalTypeOK
  <2>2. ASSUME NEW action \in ActionIds, NEW impl \in ActionIds \cup {NoAction},
               \/ pass' = [pass EXCEPT ![r].action = action]
               \/ pass' = [pass EXCEPT ![r].action = action, ![r].impl = impl]
        PROVE  pass' \in [Requests -> PassType] /\ pass'[r].action \in ActionIds
    <3>1. /\ [pass[r] EXCEPT !.action = action] \in PassType
          /\ [pass[r] EXCEPT !.action = action, !.impl = impl] \in PassType
      BY <2>1 DEF PassType
    <3>2. /\ [pass[r] EXCEPT !.action = action].action = action
          /\ [pass[r] EXCEPT !.action = action, !.impl = impl].action = action
      BY <2>1 DEF PassType
    <3>3. \/ pass' = [pass EXCEPT ![r] = [pass[r] EXCEPT !.action = action]]
          \/ pass' = [pass EXCEPT ![r] = [pass[r] EXCEPT !.action = action, !.impl = impl]]
      BY <2>1, <2>2
    <3> QED
      BY <2>1, <3>1, <3>2, <3>3
  <2> QED
    BY <1>1, <1>2, <1>3, <2>2, Zenon
<1>5. tally' \in [Requests -> [Effects -> Nat]]
  BY <1>1, CountType DEF EvalTypeOK
<1>6. stage' \in [Requests -> Stages] /\ LocalsOK'
  BY <1>1, <1>4 DEF EvalTypeOK, LocalsOK, Goto, Stages
<1>7. proven' \in SUBSET Ips
  BY <1>1, SourceAssumption DEF EvalTypeOK
<1> QED
  BY <1>4, <1>5, <1>6, <1>7 DEF Decide, EvalTypeOK

LEMMA RecordType ==
  ASSUME EvalTypeOK, NEW r \in Requests, Record(r)
  PROVE  EvalTypeOK'
<1>1. IpOf[r] \in Ips /\ RequestScore(r) \in Nat /\ TotalScore(r) \in Nat
  BY RequestScoreType, SourceAssumption
<1>2. Hit(r) \in HitType
  <2>1. pass[r].action \in ActionIds
    BY DEF EvalTypeOK, LocalsOK, Record
  <2> QED
    BY <1>1, <2>1 DEF Hit, HitType
<1>3. hits' \in SUBSET HitType /\ score' \in [Ips -> Nat]
  BY <1>1, <1>2 DEF Record, EvalTypeOK
<1>4. tally' \in [Requests -> [Effects -> Nat]]
  BY CountType DEF Record, EvalTypeOK
<1>5. stage' \in [Requests -> Stages] /\ LocalsOK'
  BY DEF Record, EvalTypeOK, LocalsOK, Goto, Stages
<1> QED
  BY <1>3, <1>4, <1>5 DEF Record, EvalTypeOK

LEMMA AnnounceType ==
  ASSUME EvalTypeOK, NEW r \in Requests, Announce(r)
  PROVE  EvalTypeOK'
<1>1. pass' \in [Requests -> PassType]
  <2>1. Lookup(pass[r].action) \in ActionIds \cup {NoAction}
    BY LookupType DEF EvalTypeOK
  <2>2. pass' = [pass EXCEPT ![r].impl = Lookup(pass[r].action)]
    BY Zenon DEF Announce
  <2>3. \A w \in PassType : \A a \in ActionIds \cup {NoAction} : [w EXCEPT !.impl = a] \in PassType
    BY DEF PassType
  <2>4. pass \in [Requests -> PassType]
    BY DEF EvalTypeOK
  <2> QED
    BY <2>1, <2>2, <2>3, <2>4
<1>2. tally' \in [Requests -> [Effects -> Nat]]
  BY CountType DEF Announce, EvalTypeOK
<1>3. stage' \in [Requests -> Stages] /\ LocalsOK'
  BY DEF Announce, EvalTypeOK, LocalsOK, Goto, Stages
<1> QED
  BY <1>1, <1>2, <1>3 DEF Announce, EvalTypeOK

LEMMA EvaluateType ==
  ASSUME EvalTypeOK, NEW r \in Requests, Evaluate(r)
  PROVE  EvalTypeOK'
<1>1. CASE Inspect(r)
  BY <1>1, InspectType
<1>2. CASE ReadScore(r)
  <2>1. PICK prior \in Nat : pass' = [pass EXCEPT ![r].prior = prior]
    BY <1>2, SourceAssumption DEF ReadScore, EvalTypeOK
  <2>2. pass' \in [Requests -> PassType]
    <3>1. \A w \in PassType : \A n \in Nat : [w EXCEPT !.prior = n] \in PassType
      BY DEF PassType
    <3>2. pass \in [Requests -> PassType]
      BY DEF EvalTypeOK
    <3> QED
      BY <2>1, <3>1, <3>2
  <2> QED
    BY <1>2, <2>2 DEF ReadScore, EvalTypeOK, LocalsOK, Goto, Stages
<1>3. CASE Decide(r)
  BY <1>3, DecideType
<1>4. CASE PolicyThrows(r)
  BY <1>4 DEF PolicyThrows, EvalTypeOK, LocalsOK, Goto, Stages
<1>5. CASE Record(r)
  BY <1>5, RecordType
<1>6. CASE Announce(r)
  BY <1>6, AnnounceType
<1>7. CASE Execute(r)
  BY <1>7, SourceAssumption
  DEF Execute, EvalTypeOK, LocalsOK, Goto, Stages, Say, Answers
<1>8. CASE ExecuteThrows(r)
  BY <1>8 DEF ExecuteThrows, EvalTypeOK, LocalsOK, Goto, Stages, Say, Answers
<1> QED
  BY <1>1, <1>2, <1>3, <1>4, <1>5, <1>6, <1>7, <1>8 DEF Evaluate

-----------------------------------------------------------------------------
(* Counting adds one to the effects counted and leaves the others alone. *)
LEMMA CountKeeps ==
  ASSUME EvalTypeOK, NEW r \in Requests, NEW es, Count(r, es), NEW e \in Effects
  PROVE  /\ tally'[r][e] = tally[r][e] + IF e \in es THEN 1 ELSE 0
         /\ e \notin es => tally'[r][e] = tally[r][e]
         /\ e \in es => tally'[r][e] > 0
         /\ \A q \in Requests \ {r} : tally'[q] = tally[q]
<1>1. tally[r][e] \in Nat /\ tally'[r] = Bump(tally[r], es)
  BY DEF EvalTypeOK, Count
<1>2. tally'[r][e] = tally[r][e] + IF e \in es THEN 1 ELSE 0
  BY <1>1 DEF Bump
<1>3. \A q \in Requests \ {r} : tally'[q] = tally[q]
  BY DEF EvalTypeOK, Count
<1> QED
  BY <1>1, <1>2, <1>3

\* The count of e in r's tally went up exactly if p.
Counts(r, e, p) == tally'[r][e] = tally[r][e] + IF p THEN 1 ELSE 0

\* The effects r's step counted are among es.
CountsOnly(r, es) == \A e \in Effects \ es : tally'[r][e] = tally[r][e]

(* A pass that has just started has found and decided nothing; an exempted    *)
(* request is judged at once and counted by the pass that audits it.          *)
LEMMA StartPassEffect ==
  ASSUME EvalTypeOK, NEW r \in Requests, NEW k \in PassKinds, NEW body \in BOOLEAN,
         StartPass(r, k, body)
  PROVE  /\ pass'[r].kind = k /\ pass'[r].found = {}
         /\ pass'[r].action = NoAction /\ pass'[r].impl = NoAction
         /\ CountsOnly(r, {"seen", "bypassed"})
         /\ \/ /\ stage'[r] = "judged"
               /\ Counts(r, "bypassed", Audits(k)) /\ Counts(r, "seen", FALSE)
            \/ /\ stage'[r] = "scanning"
               /\ Counts(r, "seen", Tracks(k)) /\ Counts(r, "bypassed", FALSE)
         /\ \A q \in Requests \ {r} :
              stage'[q] = stage[q] /\ pass'[q] = pass[q] /\ tally'[q] = tally[q]
<1>1. \E todo : pass' = [pass EXCEPT ![r] = NewPass(k, body, todo)]
  BY Zenon DEF StartPass
<1>2. \/ Goto(r, "judged") /\ Count(r, When(Audits(k), "bypassed"))
      \/ Goto(r, "scanning") /\ Count(r, When(Tracks(k), "seen"))
  BY Zenon DEF StartPass
<1>3. ASSUME NEW p, NEW f \in {"seen", "bypassed"}, Count(r, When(p, f))
      PROVE  /\ CountsOnly(r, {"seen", "bypassed"}) /\ Counts(r, f, p)
             /\ \A e \in {"seen", "bypassed"} \ {f} : Counts(r, e, FALSE)
             /\ \A q \in Requests \ {r} : tally'[q] = tally[q]
  <2>1. \A e \in Effects : e \in When(p, f) <=> (p /\ e = f)
    BY DEF When
  <2>2. \A e \in Effects : tally'[r][e] = tally[r][e] + IF e \in When(p, f) THEN 1 ELSE 0
    BY <1>3, CountKeeps
  <2>3. {"seen", "bypassed"} \subseteq Effects
    BY DEF Effects
  <2>4. \A e \in Effects : tally[r][e] \in Nat
    BY DEF EvalTypeOK
  <2>5. \A q \in Requests \ {r} : tally'[q] = tally[q]
    BY <1>3, <2>3, CountKeeps
  <2> QED
    BY <2>1, <2>2, <2>3, <2>4, <2>5 DEF CountsOnly, Counts
<1>4. /\ CountsOnly(r, {"seen", "bypassed"})
      /\ \/ /\ Goto(r, "judged")
            /\ Counts(r, "bypassed", Audits(k)) /\ Counts(r, "seen", FALSE)
         \/ /\ Goto(r, "scanning")
            /\ Counts(r, "seen", Tracks(k)) /\ Counts(r, "bypassed", FALSE)
      /\ \A q \in Requests \ {r} : tally'[q] = tally[q]
  BY <1>2, <1>3
<1>5. /\ pass'[r].kind = k /\ pass'[r].found = {}
      /\ pass'[r].action = NoAction /\ pass'[r].impl = NoAction
  BY <1>1 DEF EvalTypeOK, NewPass
<1>6. \A s : Goto(r, s) => stage'[r] = s
  BY DEF EvalTypeOK, Goto
<1>7. \A q \in Requests \ {r} : stage'[q] = stage[q] /\ pass'[q] = pass[q]
  BY <1>1, <1>2 DEF EvalTypeOK, Goto
<1> QED
  BY <1>4, <1>5, <1>6, <1>7, Zenon

(* A detector settles: after the last one the pass is judged if it found      *)
(* nothing, which an auditing pass counts, and scored otherwise.              *)
LEMMA InspectEffect ==
  ASSUME EvalTypeOK, NEW r \in Requests, Inspect(r)
  PROVE  /\ stage[r] = "scanning" /\ UNCHANGED <<answer, ran, hits, score, proven, blocked>>
         /\ pass'[r].kind = pass[r].kind
         /\ pass'[r].action = pass[r].action /\ pass'[r].impl = pass[r].impl
         /\ CountsOnly(r, {"shadowed", "audited"})
         /\ \/ stage'[r] = "scanning" /\ Counts(r, "audited", FALSE)
            \/ stage'[r] = "scoring" /\ pass'[r].found # {} /\ Counts(r, "audited", FALSE)
            \/ /\ stage'[r] = "judged" /\ pass'[r].found = {}
               /\ Counts(r, "audited", Audits(pass[r].kind))
<1>a. /\ pass \in [Requests -> PassType] /\ pass[r] \in PassType
      /\ stage \in [Requests -> Stages] /\ \A e \in Effects : tally[r][e] \in Nat
  BY DEF EvalTypeOK
<1>1. /\ stage[r] = "scanning" /\ UNCHANGED <<answer, ran, hits, score, proven, blocked>>
  BY DEF Inspect
<1> DEFINE d == Head(pass[r].todo)
           found(o) == IF o = "fired" /\ d \notin config.shadowed
                       THEN pass[r].found \cup {d} ELSE pass[r].found
           shadow(o) == IF o = "fired" /\ d \in config.shadowed
                        THEN pass[r].shadow \cup {d} ELSE pass[r].shadow
           counted(o) == When(shadow(o) # {} /\ Commits(pass[r].kind), "shadowed")
                         \cup When(found(o) = {} /\ Audits(pass[r].kind), "audited")
<1>2. PICK o \in Outcomes(r, d) :
        /\ pass' = [pass EXCEPT ![r].todo = Tail(pass[r].todo), ![r].found = found(o),
                                ![r].shadow = shadow(o)]
        /\ IF ~Last(pass[r].todo)
           THEN UNCHANGED <<stage, tally>>
           ELSE /\ Count(r, counted(o))
                /\ Goto(r, IF found(o) = {} THEN "judged" ELSE "scoring")
  BY Zenon DEF Inspect
<1>3. /\ \A e \in Effects \ {"shadowed", "audited"} : e \notin counted(o)
      /\ "audited" \in counted(o) <=> found(o) = {} /\ Audits(pass[r].kind)
  BY DEF When
<1> HIDE DEF found, shadow, counted
<1>4. /\ pass'[r].kind = pass[r].kind /\ pass'[r].found = found(o)
      /\ pass'[r].action = pass[r].action /\ pass'[r].impl = pass[r].impl
  BY <1>2, <1>a DEF PassType
<1>5. CASE UNCHANGED <<stage, tally>>
  BY <1>a, <1>1, <1>4, <1>5 DEF CountsOnly, Counts, Effects
<1>6. CASE /\ Count(r, counted(o))
           /\ Goto(r, IF found(o) = {} THEN "judged" ELSE "scoring")
  <2>1. stage'[r] = IF found(o) = {} THEN "judged" ELSE "scoring"
    BY <1>6, <1>a DEF Goto
  <2>2. \A e \in Effects : tally'[r][e] = tally[r][e] + IF e \in counted(o) THEN 1 ELSE 0
    BY <1>6, CountKeeps
  <2>3. CountsOnly(r, {"shadowed", "audited"})
    BY <1>a, <1>3, <2>2 DEF CountsOnly
  <2>4. Counts(r, "audited", found(o) = {} /\ Audits(pass[r].kind))
    BY <1>3, <2>2 DEF Counts, Effects
  <2>5. found(o) = {} => Counts(r, "audited", Audits(pass[r].kind))
    BY <2>4 DEF Counts
  <2>6. found(o) # {} => Counts(r, "audited", FALSE)
    BY <2>4 DEF Counts
  <2> QED
    BY <1>1, <1>4, <2>1, <2>3, <2>5, <2>6
<1> QED
  BY <1>2, <1>5, <1>6

(* The policy decides: a committing pass is audited and goes on to the store,  *)
(* any other is judged; the guard may have replaced the action.               *)
LEMMA DecideEffect ==
  ASSUME EvalTypeOK, NEW r \in Requests, Decide(r)
  PROVE  /\ stage[r] = "deciding" /\ UNCHANGED <<answer, ran, hits, score, blocked>>
         /\ proven' = proven \/ proven' = proven \cup {IpOf[r]}
         /\ pass'[r].kind = pass[r].kind /\ pass'[r].found = pass[r].found
         /\ CountsOnly(r, {"audited"})
         /\ \/ /\ Commits(pass[r].kind) /\ stage'[r] = "recording"
               /\ Counts(r, "audited", Audits(pass[r].kind))
               /\ pass'[r].impl = pass[r].impl
            \/ /\ ~Commits(pass[r].kind) /\ stage'[r] = "judged"
               /\ Counts(r, "audited", FALSE)
               /\ pass'[r].impl \in {pass'[r].action, NoAction}
<1>a. /\ pass \in [Requests -> PassType] /\ pass[r] \in PassType
      /\ stage \in [Requests -> Stages] /\ \A e \in Effects : tally[r][e] \in Nat
      /\ config \in Configs
  BY DEF EvalTypeOK
<1>1. /\ stage[r] = "deciding" /\ UNCHANGED <<answer, ran, hits, score, blocked>>
      /\ proven' = proven \/ proven' = proven \cup {IpOf[r]}
  BY DEF Decide
<1>2. PICK a :
        \/ /\ Commits(pass[r].kind)
           /\ pass' = [pass EXCEPT ![r].action = a]
           /\ Count(r, When(Audits(pass[r].kind), "audited"))
           /\ Goto(r, "recording")
        \/ /\ ~Commits(pass[r].kind)
           /\ pass' = [pass EXCEPT ![r].action = a, ![r].impl = Lookup(a)]
           /\ Goto(r, "judged")
           /\ UNCHANGED tally
  BY Zenon DEF Decide
<1>3. /\ pass'[r].kind = pass[r].kind /\ pass'[r].found = pass[r].found
      /\ pass'[r].action = a
  BY <1>2, <1>a DEF PassType
<1>4. CASE /\ Commits(pass[r].kind)
           /\ pass' = [pass EXCEPT ![r].action = a]
           /\ Count(r, When(Audits(pass[r].kind), "audited"))
           /\ Goto(r, "recording")
  <2> DEFINE es == When(Audits(pass[r].kind), "audited")
  <2>1. \A e : e \in es <=> e = "audited" /\ Audits(pass[r].kind)
    BY DEF When
  <2>2. \A e \in Effects : tally'[r][e] = tally[r][e] + IF e \in es THEN 1 ELSE 0
    BY <1>4, CountKeeps
  <2> HIDE DEF es
  <2>3. CountsOnly(r, {"audited"}) /\ Counts(r, "audited", Audits(pass[r].kind))
    BY <1>a, <2>1, <2>2 DEF CountsOnly, Counts, Effects
  <2>4. stage'[r] = "recording" /\ pass'[r].impl = pass[r].impl
    BY <1>4, <1>a DEF Goto, PassType
  <2> QED
    BY <1>1, <1>3, <1>4, <2>3, <2>4
<1>5. CASE /\ ~Commits(pass[r].kind)
           /\ pass' = [pass EXCEPT ![r].action = a, ![r].impl = Lookup(a)]
           /\ Goto(r, "judged")
           /\ UNCHANGED tally
  <2>1. pass'[r].impl = Lookup(a) /\ stage'[r] = "judged"
    BY <1>5, <1>a DEF Goto, PassType
  <2>2. Lookup(a) \in {a, NoAction}
    BY <1>a, LookupType
  <2>3. CountsOnly(r, {"audited"}) /\ Counts(r, "audited", FALSE)
    BY <1>5, <1>a DEF CountsOnly, Counts, Effects
  <2> QED
    BY <1>1, <1>3, <1>5, <2>1, <2>2, <2>3
<1> QED
  BY <1>2, <1>4, <1>5

(* The store is called once by a committing pass, then the listeners, and the *)
(* action is looked up on the configuration of that later moment.             *)
LEMMA RecordEffect ==
  ASSUME EvalTypeOK, NEW r \in Requests, Record(r)
  PROVE  /\ stage[r] = "recording" /\ stage'[r] = "announcing"
         /\ UNCHANGED <<pass, answer, ran, proven, blocked>>
         /\ CountsOnly(r, {"recorded"}) /\ Counts(r, "recorded", TRUE)
<1>1. Count(r, {"recorded"}) /\ \A e \in Effects : tally[r][e] \in Nat
  BY DEF Record, EvalTypeOK
<1>2. CountsOnly(r, {"recorded"}) /\ Counts(r, "recorded", TRUE)
  BY <1>1, CountKeeps DEF CountsOnly, Counts, Effects
<1> QED
  BY <1>2 DEF Record, EvalTypeOK, Goto

LEMMA AnnounceEffect ==
  ASSUME EvalTypeOK, NEW r \in Requests, Announce(r)
  PROVE  /\ stage[r] = "announcing" /\ stage'[r] = "judged"
         /\ UNCHANGED <<answer, ran, hits, score, proven, blocked>>
         /\ pass'[r].kind = pass[r].kind /\ pass'[r].found = pass[r].found
         /\ pass'[r].action = pass[r].action
         /\ pass'[r].impl \in {pass[r].action, NoAction}
         /\ CountsOnly(r, {"announced"}) /\ Counts(r, "announced", TRUE)
<1>1. Count(r, {"announced"}) /\ \A e \in Effects : tally[r][e] \in Nat
  BY DEF Announce, EvalTypeOK
<1>2. CountsOnly(r, {"announced"}) /\ Counts(r, "announced", TRUE)
  BY <1>1, CountKeeps DEF CountsOnly, Counts, Effects
<1>3. /\ pass'[r].kind = pass[r].kind /\ pass'[r].found = pass[r].found
      /\ pass'[r].action = pass[r].action
      /\ pass'[r].impl = Lookup(pass[r].action)
  BY DEF Announce, EvalTypeOK, PassType
<1>4. Lookup(pass[r].action) \in {pass[r].action, NoAction}
  BY LookupType DEF EvalTypeOK
<1> QED
  BY <1>2, <1>3, <1>4 DEF Announce, EvalTypeOK, Goto
-----------------------------------------------------------------------------
(* The steps of the middleware and of the guard keep the types. *)
LEMMA HandOverType ==
  ASSUME EvalTypeOK, NEW r \in Requests, NEW es, HandOver(r, es), UNCHANGED pass
  PROVE  /\ answer' \in [Requests -> Answers]
         /\ tally' \in [Requests -> [Effects -> Nat]]
         /\ stage' \in [Requests -> Stages]
         /\ LocalsOK'
<1>1. tally' \in [Requests -> [Effects -> Nat]]
  BY CountType DEF HandOver, EvalTypeOK
<1> QED
  BY <1>1 DEF HandOver, EvalTypeOK, LocalsOK, Say, Goto, Stages, Answers

(* A step that starts a pass and touches nothing else of evaluate()'s state. *)
LEMMA FreshPassType ==
  ASSUME TypeOK, NEW r \in Requests, NEW k \in PassKinds, NEW body \in BOOLEAN,
         StartPass(r, k, body),
         UNCHANGED <<config, facts, hits, score, proven, blocked, answer, ran, frontVars>>
  PROVE  TypeOK'
BY StartPassType DEF TypeOK, EvalTypeOK, frontVars

(* A step that only moves a request on. *)
LEMMA MoveType ==
  ASSUME TypeOK, NEW r \in Requests, NEW s \in Stages \ {"scanning", "recording"}, Goto(r, s),
         UNCHANGED <<config, facts, pass, tally, hits, score, proven, blocked, answer, ran>>,
         bodyRead' \in [Requests -> BOOLEAN], escaped' \in SUBSET Requests
  PROVE  TypeOK'
BY DEF TypeOK, EvalTypeOK, LocalsOK, Goto

LEMMA FrontType ==
  ASSUME TypeOK, NEW r \in Requests, Front(r)
  PROVE  TypeOK'
<1> USE DEF frontVars
<1>1. CASE Arrive(r)
  <2>1. PICK f \in Shapes :
          /\ facts' = [facts EXCEPT ![r] = f]
          /\ \/ HandOver(r, {"bypassed"})
             \/ Goto(r, "checking") /\ UNCHANGED <<answer, tally>>
    BY <1>1, Zenon DEF Arrive
  <2>2. facts' \in [Requests -> FactsType]
    BY <2>1, ShapeAssumption DEF TypeOK, EvalTypeOK
  <2>3. /\ answer' \in [Requests -> Answers]
        /\ tally' \in [Requests -> [Effects -> Nat]]
        /\ stage' \in [Requests -> Stages]
        /\ LocalsOK'
    <3>1. CASE HandOver(r, {"bypassed"})
      BY <1>1, <3>1, HandOverType DEF Arrive, TypeOK
    <3>2. CASE Goto(r, "checking") /\ UNCHANGED <<answer, tally>>
      BY <1>1, <3>2 DEF Arrive, TypeOK, EvalTypeOK, LocalsOK, Goto, Stages
    <3> QED
      BY <2>1, <3>1, <3>2
  <2> QED
    BY <1>1, <2>2, <2>3 DEF Arrive, TypeOK, EvalTypeOK
<1>2. CASE CheckBlocked(r)
  <2>1. CASE IpOf[r] \in blocked
    BY <1>2, <2>1
    DEF CheckBlocked, TypeOK, EvalTypeOK, LocalsOK, Goto, Say, Stages, Answers
  <2>2. CASE IpOf[r] \notin blocked
    <3>1. \E k \in PassKinds : StartPass(r, k, FALSE)
      BY <1>2, <2>2 DEF CheckBlocked, PassKinds
    <3> QED
      BY <1>2, <2>2, <3>1, FreshPassType DEF CheckBlocked
  <2> QED
    BY <2>1, <2>2
<1>3. CASE BlockCheckFails(r)
  BY <1>3, MoveType DEF BlockCheckFails, TypeOK, Stages
<1>4. CASE CommitUnread(r)
  BY <1>4, FreshPassType DEF CommitUnread, PassKinds
<1>5. CASE StartReading(r)
  <2>1. bodyRead' \in [Requests -> BOOLEAN]
    BY <1>5 DEF StartReading, TypeOK
  <2> QED
    BY <1>5, <2>1, MoveType DEF StartReading, TypeOK, Stages
<1>6. CASE BodySettles(r)
  <2>1. \E body \in BOOLEAN : StartPass(r, "commit", body)
    BY <1>6 DEF BodySettles
  <2> QED
    BY <1>6, <2>1, FreshPassType DEF BodySettles, PassKinds
<1>7. CASE PassOn(r)
  <2>1. \E es : HandOver(r, es)
    BY <1>7, Zenon DEF PassOn
  <2>2. /\ answer' \in [Requests -> Answers]
        /\ tally' \in [Requests -> [Effects -> Nat]]
        /\ stage' \in [Requests -> Stages]
        /\ LocalsOK'
    BY <1>7, <2>1, HandOverType DEF PassOn, TypeOK
  <2> QED
    BY <1>7, <2>2 DEF PassOn, TypeOK, EvalTypeOK
<1>8. CASE Dispatch(r)
  <2>1. Resolve(r) \in ActionIds \cup {NoAction}
    BY LookupType DEF Resolve, TypeOK, EvalTypeOK, PassType
  <2> QED
    BY <1>8, <2>1
    DEF Dispatch, StartDispatch, TypeOK, EvalTypeOK, LocalsOK, Goto, Stages
<1>9. CASE HostReturns(r)
  BY <1>9, MoveType DEF HostReturns, TypeOK, Stages
<1>10. CASE HostThrows(r)
  BY <1>10, MoveType DEF HostThrows, TypeOK, Stages
<1>11. CASE Catch(r)
  <2>1. CASE Goto(r, "done") /\ UNCHANGED <<answer, tally>>
    BY <1>11, <2>1, MoveType DEF Catch, TypeOK, Stages
  <2>2. CASE /\ Say(r, IF FailOpen THEN "app" ELSE "error")
             /\ Count(r, {"next"})
             /\ Goto(r, "handedLast")
    <3>1. tally' \in [Requests -> [Effects -> Nat]]
      BY <2>2, CountType DEF TypeOK, EvalTypeOK
    <3> QED
      BY <1>11, <2>2, <3>1
      DEF Catch, TypeOK, EvalTypeOK, LocalsOK, Goto, Say, Stages, Answers
  <2> QED
    BY <1>11, <2>1, <2>2 DEF Catch
<1>12. CASE GuardStarts(r)
  <2>1. CASE Goto(r, "done") /\ UNCHANGED <<pass, tally>>
    BY <1>12, <2>1, MoveType DEF GuardStarts, TypeOK, Stages
  <2>2. CASE StartPass(r, "probe", FALSE)
    BY <1>12, <2>2, FreshPassType DEF GuardStarts, PassKinds
  <2> QED
    BY <1>12, <2>1, <2>2 DEF GuardStarts
<1>13. CASE GuardJudges(r)
  <2>1. CASE Goto(r, "done") /\ UNCHANGED <<pass, tally>>
    BY <1>13, <2>1, MoveType DEF GuardJudges, TypeOK, Stages
  <2>2. CASE StartPass(r, "trap", FALSE)
    BY <1>13, <2>2, FreshPassType DEF GuardJudges, PassKinds
  <2> QED
    BY <1>13, <2>1, <2>2 DEF GuardJudges
<1>14. CASE GuardPasses(r)
  BY <1>14, MoveType DEF GuardPasses, TypeOK, Stages
<1>15. CASE GuardCatch(r)
  BY <1>15, MoveType DEF GuardCatch, TypeOK, Stages
<1> QED
  BY <1>1, <1>2, <1>3, <1>4, <1>5, <1>6, <1>7, <1>8, <1>9, <1>10, <1>11, <1>12, <1>13,
     <1>14, <1>15 DEF Front

LEMMA InitType == Init => TypeOK
<1> SUFFICES ASSUME Init PROVE TypeOK
  OBVIOUS
<1>1. NewPass("single", FALSE, <<>>) \in PassType
  <2>1. <<>> \in Seq(Detectors) /\ "single" \in PassKinds
    BY DEF PassKinds
  <2> QED
    BY <2>1, NewPassType
<1>2. NoFacts \in FactsType /\ NoTally \in [Effects -> Nat]
  BY DEF NoFacts, FactsType, NoTally
<1> QED
  BY <1>1, <1>2 DEF Init, EvalInit, TypeOK, EvalTypeOK, LocalsOK, Stages, Answers

LEMMA NextType == TypeOK /\ [Next]_vars => TypeOK'
<1> SUFFICES ASSUME TypeOK, [Next]_vars PROVE TypeOK'
  OBVIOUS
<1>1. ASSUME NEW r \in Requests, Step(r) PROVE TypeOK'
  BY <1>1, FrontType, EvaluateType DEF Step, TypeOK, frontVars
<1>2. CASE Reconfigure /\ UNCHANGED frontVars
  BY <1>2 DEF Reconfigure, TypeOK, EvalTypeOK, LocalsOK, frontVars
<1>3. ASSUME NEW ip \in Ips, Expire(ip), UNCHANGED frontVars PROVE TypeOK'
  BY <1>3 DEF Expire, TypeOK, EvalTypeOK, LocalsOK, frontVars
<1>4. CASE UNCHANGED vars
  BY <1>4 DEF vars, TypeOK, EvalTypeOK, LocalsOK
<1> QED
  BY <1>1, <1>2, <1>3, <1>4 DEF Next, Quiet

(* The variables hold what they should, a pass suspended in evaluate() what   *)
(* it needs to resume (core.ts 525-725, node.ts 79-323).                       *)
THEOREM TypeCorrect == Spec => []TypeOK
<1> QED
  BY InitType, NextType, PTL DEF Spec

-----------------------------------------------------------------------------
(* What makes BlockedOnlyOnProof inductive: an undecided pass has no action,  *)
(* a committed "block" belongs to a proven address while it waits for the     *)
(* store and the listeners, and the action looked up afterwards - on a        *)
(* configuration that may have changed - is the one decided or none at all.   *)
Decided(r) ==
  /\ stage[r] \in {"scanning", "scoring", "deciding"} =>
       pass[r].action = NoAction /\ pass[r].impl = NoAction
  /\ /\ stage[r] \in {"recording", "announcing", "judged"}
     /\ Commits(pass[r].kind)
     /\ pass[r].action = "block"
     => IpOf[r] \in proven
  /\ stage[r] = "judged" => pass[r].impl \in {pass[r].action, NoAction}
  /\ stage[r] = "executing" /\ ran[r] = "block" => IpOf[r] \in proven

ProofInv ==
  /\ TypeOK
  /\ BlockRequiresProof => blocked \subseteq proven /\ \A r \in Requests : Decided(r)

-----------------------------------------------------------------------------
(* A step of one request leaves every other request where it is. *)
LEMMA Frame ==
  ASSUME TypeOK, NEW r \in Requests, Step(r), NEW q \in Requests \ {r}
  PROVE  /\ stage'[q] = stage[q] /\ pass'[q] = pass[q] /\ ran'[q] = ran[q]
         /\ answer'[q] = answer[q] /\ tally'[q] = tally[q]
         /\ proven \subseteq proven'
<1> USE DEF TypeOK, EvalTypeOK, Goto, Say, Count
<1>1. CASE Arrive(r)
  BY <1>1 DEF Arrive, HandOver
<1>2. CASE CheckBlocked(r)
  BY <1>2 DEF CheckBlocked, StartPass
<1>3. CASE BlockCheckFails(r)
  BY <1>3 DEF BlockCheckFails
<1>4. CASE CommitUnread(r)
  BY <1>4 DEF CommitUnread, StartPass
<1>5. CASE StartReading(r)
  BY <1>5 DEF StartReading
<1>6. CASE BodySettles(r)
  BY <1>6 DEF BodySettles, StartPass
<1>7. CASE PassOn(r)
  BY <1>7 DEF PassOn, HandOver
<1>8. CASE Dispatch(r)
  BY <1>8 DEF Dispatch, StartDispatch
<1>9. CASE HostReturns(r)
  BY <1>9 DEF HostReturns
<1>10. CASE HostThrows(r)
  BY <1>10 DEF HostThrows
<1>11. CASE Catch(r)
  BY <1>11 DEF Catch
<1>12. CASE GuardStarts(r)
  BY <1>12 DEF GuardStarts, StartPass
<1>13. CASE GuardJudges(r)
  BY <1>13 DEF GuardJudges, StartPass
<1>14. CASE GuardPasses(r)
  BY <1>14 DEF GuardPasses
<1>15. CASE GuardCatch(r)
  BY <1>15 DEF GuardCatch
<1>16. CASE Inspect(r)
  BY <1>16 DEF Inspect
<1>17. CASE ReadScore(r)
  BY <1>17 DEF ReadScore
<1>18. CASE Decide(r)
  BY <1>18 DEF Decide
<1>19. CASE PolicyThrows(r)
  BY <1>19 DEF PolicyThrows
<1>20. CASE Record(r)
  BY <1>20 DEF Record
<1>21. CASE Announce(r)
  BY <1>21 DEF Announce
<1>22. CASE Execute(r)
  BY <1>22 DEF Execute
<1>23. CASE ExecuteThrows(r)
  BY <1>23 DEF ExecuteThrows
<1> QED
  BY <1>1, <1>2, <1>3, <1>4, <1>5, <1>6, <1>7, <1>8, <1>9, <1>10, <1>11, <1>12, <1>13,
     <1>14, <1>15, <1>16, <1>17, <1>18, <1>19, <1>20, <1>21, <1>22, <1>23
  DEF Step, Front, Evaluate

(* A step of r keeps what is decided of r, and blocks only proven addresses. *)
LEMMA DecidedStep ==
  ASSUME TypeOK, TypeOK', BlockRequiresProof, blocked \subseteq proven,
         NEW r \in Requests, Decided(r), Step(r)
  PROVE  blocked' \subseteq proven' /\ Decided(r)'
<1> USE DEF Goto
<1>a. /\ pass \in [Requests -> PassType] /\ pass[r] \in PassType
      /\ stage \in [Requests -> Stages] /\ ran \in [Requests -> ActionIds \cup {NoAction}]
      /\ config \in Configs
  BY DEF TypeOK, EvalTypeOK
<1>b. ASSUME NEW s \in Stages, Goto(r, s) PROVE stage'[r] = s
  BY <1>a, <1>b
<1>c. ASSUME UNCHANGED <<proven, blocked>>,
             NEW k \in PassKinds, NEW body \in BOOLEAN, StartPass(r, k, body)
      PROVE  blocked' \subseteq proven' /\ Decided(r)'
  <2>1. EvalTypeOK
    BY DEF TypeOK
  <2>2. /\ stage'[r] \in {"scanning", "judged"}
        /\ pass'[r].action = NoAction /\ pass'[r].impl = NoAction
    BY <1>c, <2>1, StartPassEffect
  <2> QED
    BY <1>c, <2>2, ActionAssumption DEF Decided
<1>d. ASSUME UNCHANGED <<proven, blocked>>,
             NEW s \in {"idle", "checking", "reading", "handed", "handedLast", "routed",
                        "failed", "done"},
             Goto(r, s)
      PROVE  blocked' \subseteq proven' /\ Decided(r)'
  BY <1>d, <1>a DEF Decided, Stages
<1>1. CASE Arrive(r)
  BY <1>1, <1>d, Zenon DEF Arrive, HandOver
<1>2. CASE CheckBlocked(r)
  BY <1>2, <1>c, <1>d DEF CheckBlocked, PassKinds
<1>3. CASE BlockCheckFails(r)
  BY <1>3, <1>d DEF BlockCheckFails
<1>4. CASE CommitUnread(r)
  BY <1>4, <1>c DEF CommitUnread, PassKinds
<1>5. CASE StartReading(r)
  BY <1>5, <1>d DEF StartReading
<1>6. CASE BodySettles(r)
  BY <1>6, <1>c DEF BodySettles, PassKinds
<1>7. CASE PassOn(r)
  BY <1>7, <1>d DEF PassOn, HandOver
<1>8. CASE Dispatch(r)
  <2>1. stage'[r] = "executing" /\ ran'[r] = Resolve(r) /\ UNCHANGED <<proven, blocked>>
    BY <1>8, <1>a DEF Dispatch, StartDispatch, Stages
  <2>2. ASSUME Resolve(r) = "block" PROVE pass[r].impl = "block"
    BY <2>2, <1>a, LookupType DEF Resolve, NoAction
  <2>3. stage[r] = "judged" /\ Commits(pass[r].kind)
    BY <1>8 DEF Dispatch, Settled, Deferred, Passes, Commits
  <2>4. Resolve(r) = "block" => IpOf[r] \in proven
    BY <2>2, <2>3 DEF Decided, NoAction
  <2> QED
    BY <2>1, <2>4 DEF Decided
<1>9. CASE HostReturns(r)
  BY <1>9, <1>d DEF HostReturns
<1>10. CASE HostThrows(r)
  BY <1>10, <1>d DEF HostThrows
<1>11. CASE Catch(r)
  BY <1>11, <1>d DEF Catch
<1>12. CASE GuardStarts(r)
  BY <1>12, <1>c, <1>d DEF GuardStarts, PassKinds
<1>13. CASE GuardJudges(r)
  BY <1>13, <1>c, <1>d DEF GuardJudges, PassKinds
<1>14. CASE GuardPasses(r)
  BY <1>14, <1>d DEF GuardPasses
<1>15. CASE GuardCatch(r)
  BY <1>15, <1>d DEF GuardCatch
<1>16. CASE Inspect(r)
  <2>1. stage[r] = "scanning" /\ stage'[r] \in {"scanning", "judged", "scoring"}
    BY <1>16, <1>a DEF Inspect, Stages
  <2>2. /\ pass'[r].action = pass[r].action /\ pass'[r].impl = pass[r].impl
        /\ UNCHANGED <<proven, blocked>>
    BY <1>16, <1>a DEF Inspect, PassType
  <2> QED
    BY <2>1, <2>2, ActionAssumption DEF Decided
<1>17. CASE ReadScore(r)
  <2>1. stage[r] = "scoring" /\ stage'[r] = "deciding"
    BY <1>17, <1>a DEF ReadScore, Stages
  <2>2. /\ pass'[r].action = pass[r].action /\ pass'[r].impl = pass[r].impl
        /\ UNCHANGED <<proven, blocked>>
    BY <1>17, <1>a DEF ReadScore, PassType
  <2> QED
    BY <2>1, <2>2 DEF Decided
<1>18. CASE Decide(r)
  <2>1. PICK a \in ActionIds :
          LET action == Guarded(a, pass[r].found) IN
          IF Commits(pass[r].kind)
          THEN /\ pass' = [pass EXCEPT ![r].action = action]
               /\ proven' = IF IsProof(pass[r].found) THEN proven \cup {IpOf[r]} ELSE proven
               /\ Goto(r, "recording")
          ELSE /\ pass' = [pass EXCEPT ![r].action = action, ![r].impl = Lookup(action)]
               /\ Goto(r, "judged")
               /\ UNCHANGED <<tally, proven>>
    BY <1>18, Zenon DEF Decide
  <2>2. UNCHANGED blocked
    BY <1>18 DEF Decide
  <2>3. CASE Commits(pass[r].kind)
    <3>1. /\ pass'[r].action = Guarded(a, pass[r].found)
          /\ proven \subseteq proven' /\ stage'[r] = "recording"
          /\ IsProof(pass[r].found) => IpOf[r] \in proven'
      BY <2>1, <2>3, <1>a DEF PassType, Stages
    <3>2. Guarded(a, pass[r].found) = "block" => IsProof(pass[r].found)
      BY ActionAssumption DEF Guarded
    <3> QED
      BY <2>2, <3>1, <3>2 DEF Decided
  <2>4. CASE ~Commits(pass[r].kind)
    <3>1. /\ stage'[r] = "judged" /\ pass'[r].kind = pass[r].kind
          /\ pass'[r].action = Guarded(a, pass[r].found)
          /\ pass'[r].impl = Lookup(Guarded(a, pass[r].found)) /\ UNCHANGED proven
      BY <2>1, <2>4, <1>a DEF PassType, Stages
    <3>2. Lookup(Guarded(a, pass[r].found)) \in {Guarded(a, pass[r].found), NoAction}
      BY <1>a, LookupType
    <3> QED
      BY <2>2, <2>4, <3>1, <3>2 DEF Decided, Commits
  <2> QED
    BY <2>3, <2>4
<1>19. CASE PolicyThrows(r)
  BY <1>19, <1>d DEF PolicyThrows
<1>20. CASE Record(r)
  BY <1>20, <1>a DEF Record, Decided, Stages
<1>21. CASE Announce(r)
  <2>1. /\ stage[r] = "announcing" /\ stage'[r] = "judged" /\ UNCHANGED <<proven, blocked>>
        /\ pass'[r].kind = pass[r].kind /\ pass'[r].action = pass[r].action
        /\ pass'[r].impl = Lookup(pass[r].action)
    BY <1>21, <1>a DEF Announce, PassType, Stages
  <2>2. Lookup(pass[r].action) \in {pass[r].action, NoAction}
    BY <1>a, LookupType
  <2> QED
    BY <2>1, <2>2 DEF Decided, Commits
<1>22. CASE Execute(r)
  BY <1>22, <1>a DEF Execute, Decided, Stages
<1>23. CASE ExecuteThrows(r)
  BY <1>23, <1>d DEF ExecuteThrows
<1> QED
  BY <1>1, <1>2, <1>3, <1>4, <1>5, <1>6, <1>7, <1>8, <1>9, <1>10, <1>11, <1>12, <1>13,
     <1>14, <1>15, <1>16, <1>17, <1>18, <1>19, <1>20, <1>21, <1>22, <1>23
  DEF Step, Front, Evaluate

LEMMA ProofInvNext == ProofInv /\ [Next]_vars => ProofInv'
<1> SUFFICES ASSUME ProofInv, [Next]_vars PROVE ProofInv'
  OBVIOUS
<1>1. TypeOK'
  BY NextType DEF ProofInv
<1>2. ASSUME BlockRequiresProof
      PROVE  blocked' \subseteq proven' /\ \A q \in Requests : Decided(q)'
  <2>1. TypeOK /\ blocked \subseteq proven /\ \A q \in Requests : Decided(q)
    BY <1>2 DEF ProofInv
  <2>2. ASSUME NEW r \in Requests, Step(r)
        PROVE  blocked' \subseteq proven' /\ \A q \in Requests : Decided(q)'
    <3>1. blocked' \subseteq proven' /\ Decided(r)'
      BY <1>1, <1>2, <2>1, <2>2, DecidedStep
    <3>2. ASSUME NEW q \in Requests \ {r} PROVE Decided(q)'
      BY <2>1, <2>2, Frame DEF Decided, Commits
    <3> QED
      BY <3>1, <3>2
  <2>3. CASE Reconfigure
    BY <2>1, <2>3 DEF Reconfigure, Decided, Commits
  <2>4. ASSUME NEW ip \in Ips, Expire(ip)
        PROVE  blocked' \subseteq proven' /\ \A q \in Requests : Decided(q)'
    BY <2>1, <2>4 DEF Expire, Decided, Commits
  <2>5. CASE UNCHANGED vars
    BY <2>1, <2>5 DEF vars, Decided, Commits
  <2> QED
    BY <2>2, <2>3, <2>4, <2>5 DEF Next, Quiet
<1>3. BlockRequiresProof' = BlockRequiresProof
  OBVIOUS
<1> QED
  BY <1>1, <1>2, <1>3 DEF ProofInv

(* The proof guard holds (core.ts 652-658): whatever the findings, however     *)
(* requests, reloads and expiries interleave, an address is on the blocklist   *)
(* only if a committed finding proved something about it.                      *)
THEOREM OnlyProofBlocks == Spec => []BlockedOnlyOnProof
<1>1. Init => ProofInv
  BY InitType DEF Init, EvalInit, NewPass, ProofInv, Decided
<1>2. ProofInv => BlockedOnlyOnProof
  BY DEF ProofInv, BlockedOnlyOnProof
<1> QED
  BY <1>1, <1>2, ProofInvNext, PTL DEF Spec

-----------------------------------------------------------------------------
(* What makes AnsweredWhenRecorded inductive when no route mounts the guard:  *)
(* one pass at a time, no answer before the end of it, and a flagged request  *)
(* reported by the time it is judged.                                         *)
Reporting(r) ==
  /\ pass[r].kind \in {"defer", "single", "commit"}
  /\ stage[r] # "routed"
  /\ stage[r] \in Stages \ {"handed", "handedLast", "failed", "done"} => answer[r] = "none"
  /\ stage[r] \in {"handed", "handedLast"} => answer[r] \in {"app", "error"}
  /\ stage[r] # "done" => answer[r] \in {"none", "app", "error", "honeypot"}
  /\ Continued(r) <=> answer[r] \in {"app", "error"}
  /\ stage[r] \in {"recording", "announcing"} => Commits(pass[r].kind)
  /\ stage[r] \in {"scoring", "deciding"} => pass[r].found # {}
  /\ \/ stage[r] \in {"announcing", "executing"}
     \/ stage[r] = "judged" /\ Commits(pass[r].kind) /\ pass[r].found # {}
     \/ answer[r] = "honeypot"
     => tally[r]["recorded"] > 0

ReportInv ==
  /\ ProofInv
  /\ ~GuardMounted => \A r \in Requests : Reporting(r)

(* A step of r keeps what is known of r's answer and report. *)
LEMMA ReportingStep ==
  ASSUME TypeOK, TypeOK', ~GuardMounted, NEW r \in Requests, Reporting(r), Step(r)
  PROVE  Reporting(r)'
<1> USE DEF Goto, Say
<1>a. /\ EvalTypeOK /\ pass \in [Requests -> PassType] /\ pass[r] \in PassType
      /\ stage \in [Requests -> Stages] /\ answer \in [Requests -> Answers]
      /\ tally[r]["recorded"] \in Nat /\ tally[r]["next"] \in Nat
  BY DEF TypeOK, EvalTypeOK, Effects
<1>b. ~HasForm(pass[r].kind) /\ ~InGuard(r)
  BY DEF Reporting, HasForm, InGuard
<1>c. ASSUME NEW k \in {"defer", "single", "commit"}, NEW body \in BOOLEAN,
             StartPass(r, k, body), UNCHANGED answer, answer[r] = "none"
      PROVE  Reporting(r)'
  <2>1. /\ stage'[r] \in {"scanning", "judged"}
        /\ pass'[r].kind = k /\ pass'[r].found = {}
        /\ tally'[r]["recorded"] = tally[r]["recorded"]
        /\ tally'[r]["next"] = tally[r]["next"]
    <3>1. k \in PassKinds
      BY DEF PassKinds
    <3>2. /\ pass'[r].kind = k /\ pass'[r].found = {} /\ CountsOnly(r, {"seen", "bypassed"})
          /\ stage'[r] \in {"scanning", "judged"}
      <4>1. EvalTypeOK /\ StartPass(r, k, body)
        BY <1>a, <1>c
      <4>2. /\ pass'[r].kind = k /\ pass'[r].found = {} /\ CountsOnly(r, {"seen", "bypassed"})
            /\ stage'[r] = "judged" \/ stage'[r] = "scanning"
        BY <3>1, <4>1, StartPassEffect
      <4> QED
        BY <4>2
    <3>3. "recorded" \in Effects \ {"seen", "bypassed"} /\ "next" \in Effects \ {"seen", "bypassed"}
      BY DEF Effects
    <3> QED
      BY <3>2, <3>3 DEF CountsOnly
  <2> QED
    BY <1>a, <1>c, <2>1 DEF Reporting, Continued, Commits
<1>d. ASSUME NEW s \in {"checking", "reading", "failed", "done"}, Goto(r, s),
             UNCHANGED <<pass, answer, tally>>, stage[r] # "done",
             s \in {"failed", "done"} \/ answer[r] = "none"
      PROVE  Reporting(r)'
  BY <1>a, <1>d DEF Reporting, Stages, Continued, Commits
<1>e. ASSUME NEW es, HandOver(r, es), UNCHANGED pass
      PROVE  Reporting(r)'
  <2>1. tally'[r]["next"] > 0
    BY <1>a, <1>e, CountKeeps DEF HandOver, Effects
  <2> QED
    BY <1>a, <1>e, <2>1 DEF HandOver, Reporting, Stages, Continued
<1>1. CASE Arrive(r)
  BY <1>1, <1>d, <1>e, Zenon DEF Arrive, Reporting, Stages
<1>2. CASE CheckBlocked(r)
  <2>1. answer[r] = "none"
    BY <1>2 DEF CheckBlocked, Reporting, Stages
  <2>2. CASE IpOf[r] \in blocked
    BY <1>2, <2>1, <2>2, <1>a DEF CheckBlocked, Reporting, Stages, Continued
  <2>3. CASE IpOf[r] \notin blocked
    BY <1>2, <2>1, <2>3, <1>c DEF CheckBlocked
  <2> QED
    BY <2>2, <2>3
<1>3. CASE BlockCheckFails(r)
  BY <1>3, <1>d DEF BlockCheckFails
<1>4. CASE CommitUnread(r)
  BY <1>4, <1>c DEF CommitUnread, Deferred, Reporting, Stages
<1>5. CASE StartReading(r)
  BY <1>5, <1>d DEF StartReading, Deferred, Reporting, Stages
<1>6. CASE BodySettles(r)
  BY <1>6, <1>c DEF BodySettles, Reporting, Stages
<1>7. CASE PassOn(r)
  BY <1>7, <1>e, Zenon DEF PassOn
<1>8. CASE Dispatch(r)
  <2>1. /\ stage[r] = "judged" /\ Commits(pass[r].kind) /\ pass[r].found # {}
    BY <1>8 DEF Dispatch, Settled, Deferred, Passes, Commits, Reporting
  <2> QED
    BY <1>8, <1>a, <2>1 DEF Dispatch, StartDispatch, Reporting, Stages, Continued
<1>9. CASE HostReturns(r)
  BY <1>9, <1>d DEF HostReturns
<1>10. CASE HostThrows(r)
  BY <1>10, <1>d DEF HostThrows
<1>11. CASE Catch(r)
  <2>1. CASE Goto(r, "done") /\ UNCHANGED <<answer, tally>>
    BY <1>11, <2>1, <1>d DEF Catch
  <2>2. CASE /\ Say(r, IF FailOpen THEN "app" ELSE "error")
             /\ Count(r, {"next"})
             /\ Goto(r, "handedLast")
    <3>1. tally'[r]["next"] > 0
      BY <1>a, <2>2, CountKeeps DEF Effects
    <3> QED
      BY <1>11, <1>a, <2>2, <3>1 DEF Catch, Reporting, Stages, Continued
  <2> QED
    BY <1>11, <2>1, <2>2 DEF Catch
<1>12. CASE GuardStarts(r) \/ GuardJudges(r) \/ GuardPasses(r) \/ GuardCatch(r)
  BY <1>12, <1>b DEF GuardStarts, GuardJudges, GuardPasses, GuardCatch, Reporting
<1>16. CASE Inspect(r)
  <2>1. /\ tally'[r]["next"] = tally[r]["next"]
        /\ tally'[r]["recorded"] = tally[r]["recorded"]
    <3>1. CountsOnly(r, {"shadowed", "audited"})
      BY <1>16, <1>a, InspectEffect, Zenon
    <3>2. "next" \in Effects \ {"shadowed", "audited"} /\ "recorded" \in Effects \ {"shadowed", "audited"}
      BY DEF Effects
    <3> QED
      BY <3>1, <3>2 DEF CountsOnly
  <2>2. /\ stage[r] = "scanning" /\ UNCHANGED answer /\ pass'[r].kind = pass[r].kind
        /\ \/ stage'[r] = "scanning"
           \/ stage'[r] = "scoring" /\ pass'[r].found # {}
           \/ stage'[r] = "judged" /\ pass'[r].found = {}
    BY <1>16, <1>a, InspectEffect
  <2> QED
    BY <2>1, <2>2 DEF Reporting, Stages, Continued, Commits
<1>17. CASE ReadScore(r)
  BY <1>17, <1>a DEF ReadScore, PassType, Reporting, Stages, Continued, Commits
<1>18. CASE Decide(r)
  <2>1. /\ tally'[r]["next"] = tally[r]["next"]
        /\ tally'[r]["recorded"] = tally[r]["recorded"]
    BY <1>18, <1>a, DecideEffect DEF CountsOnly, Effects
  <2>2. /\ stage[r] = "deciding" /\ UNCHANGED answer
        /\ pass'[r].kind = pass[r].kind /\ pass'[r].found = pass[r].found
        /\ \/ stage'[r] = "recording" /\ Commits(pass[r].kind)
           \/ stage'[r] = "judged" /\ ~Commits(pass[r].kind)
    BY <1>18, <1>a, DecideEffect
  <2> QED
    BY <2>1, <2>2 DEF Reporting, Stages, Continued, Commits
<1>19. CASE PolicyThrows(r)
  BY <1>19, <1>d DEF PolicyThrows
<1>20. CASE Record(r)
  <2>1. tally'[r]["recorded"] > 0 /\ tally'[r]["next"] = tally[r]["next"]
    BY <1>a, <1>20, CountKeeps DEF Record, Effects
  <2> QED
    BY <1>20, <1>a, <2>1 DEF Record, Reporting, Stages, Continued, Commits
<1>21. CASE Announce(r)
  <2>1. /\ tally'[r]["recorded"] = tally[r]["recorded"]
        /\ tally'[r]["next"] = tally[r]["next"]
    BY <1>a, <1>21, CountKeeps DEF Announce, Effects
  <2> QED
    BY <1>21, <1>a, <2>1 DEF Announce, PassType, Reporting, Stages, Continued, Commits
<1>22. CASE Execute(r)
  BY <1>22, <1>a DEF Execute, Reporting, Stages, Continued
<1>23. CASE ExecuteThrows(r)
  BY <1>23, <1>a DEF ExecuteThrows, Reporting, Stages, Continued
<1> QED
  BY <1>1, <1>2, <1>3, <1>4, <1>5, <1>6, <1>7, <1>8, <1>9, <1>10, <1>11, <1>12,
     <1>16, <1>17, <1>18, <1>19, <1>20, <1>21, <1>22, <1>23
  DEF Step, Front, Evaluate

LEMMA ReportInvNext == ReportInv /\ [Next]_vars => ReportInv'
<1> SUFFICES ASSUME ReportInv, [Next]_vars PROVE ReportInv'
  OBVIOUS
<1>1. ProofInv' /\ TypeOK /\ TypeOK'
  BY ProofInvNext, NextType DEF ReportInv, ProofInv
<1>2. ASSUME ~GuardMounted
      PROVE  \A q \in Requests : Reporting(q)'
  <2>1. \A q \in Requests : Reporting(q)
    BY <1>2 DEF ReportInv
  <2>2. ASSUME NEW r \in Requests, Step(r), NEW q \in Requests PROVE Reporting(q)'
    <3>1. CASE q = r
      BY <1>1, <1>2, <2>1, <2>2, <3>1, ReportingStep
    <3>2. CASE q # r
      BY <1>1, <2>1, <2>2, <3>2, Frame DEF Reporting, Continued, Commits
    <3> QED
      BY <3>1, <3>2
  <2>3. CASE UNCHANGED <<stage, pass, tally, answer>>
    BY <2>1, <2>3 DEF Reporting, Continued, Commits
  <2> QED
    BY <2>2, <2>3 DEF Next, Quiet, Reconfigure, Expire, vars
<1> QED
  BY <1>1, <1>2 DEF ReportInv

(* Without a guarded route whoever is answered by the honeypot was flagged by  *)
(* a committed pass and put to the store before (core.ts 711-715,              *)
(* node.ts 192-208): no fault, reload or interleaving hides an answer.         *)
THEOREM AnswersAreReported == ASSUME ~GuardMounted PROVE Spec => []AnsweredWhenRecorded
<1>1. Init => ReportInv
  BY InitType
  DEF Init, EvalInit, NewPass, NoTally, Effects, ReportInv, ProofInv, Decided, Reporting,
      Continued, Commits, Stages
<1>2. ReportInv => AnsweredWhenRecorded
  BY DEF ReportInv, ProofInv, TypeOK, EvalTypeOK, Effects, Reporting, AnsweredWhenRecorded
<1> QED
  BY <1>1, <1>2, ReportInvNext, PTL DEF Spec

-----------------------------------------------------------------------------
(* Which requests were reported changes only when the store is called. *)
LEMMA ReportsKept ==
  ASSUME TypeOK, NEW r \in Requests, Step(r), ~Record(r)
  PROVE  Reported' = Reported
<1> DEFINE others(es) == "recorded" \notin es
<1>1. ASSUME NEW es, Count(r, es), others(es) PROVE Reported' = Reported
  <2>1. \A q \in Requests : tally'[q]["recorded"] = tally[q]["recorded"]
    BY <1>1, CountKeeps DEF Effects, TypeOK
  <2> QED
    BY <2>1 DEF Reported
<1>2. ASSUME UNCHANGED tally PROVE Reported' = Reported
  BY <1>2 DEF Reported
<1>3. \A p, e : e # "recorded" => others(When(p, e))
  BY DEF When
<1>4. ASSUME NEW k, NEW body, StartPass(r, k, body) PROVE Reported' = Reported
  <2>1. Count(r, When(Audits(k), "bypassed")) \/ Count(r, When(Tracks(k), "seen"))
    BY <1>4, Zenon DEF StartPass
  <2> QED
    BY <2>1, <1>1, <1>3
<1>5. ASSUME NEW es, HandOver(r, es), others(es) PROVE Reported' = Reported
  <2>1. others(es \cup {"next"}) /\ Count(r, es \cup {"next"})
    BY <1>5 DEF HandOver
  <2> QED
    BY <2>1, <1>1
<1>6. others({"bypassed"}) /\ others({"next"}) /\ others({"announced"})
  OBVIOUS
<1>7. ASSUME NEW p, NEW q PROVE others(When(p, "shadowed") \cup When(q, "audited"))
  BY DEF When
<1> HIDE DEF others
<1>8. ASSUME Arrive(r) PROVE Reported' = Reported
  BY <1>2, <1>5, <1>6, <1>8, Zenon DEF Arrive
<1>9. ASSUME CheckBlocked(r) \/ CommitUnread(r) \/ BodySettles(r) \/ GuardStarts(r) \/ GuardJudges(r)
      PROVE  Reported' = Reported
  BY <1>2, <1>4, <1>9, Zenon DEF CheckBlocked, CommitUnread, BodySettles, GuardStarts, GuardJudges
<1>10. ASSUME PassOn(r) PROVE Reported' = Reported
  BY <1>3, <1>5, <1>10 DEF PassOn
<1>11. ASSUME Catch(r) PROVE Reported' = Reported
  BY <1>1, <1>2, <1>6, <1>11, Zenon DEF Catch
<1>12. ASSUME Inspect(r) PROVE Reported' = Reported
  BY <1>1, <1>2, <1>7, <1>12, Zenon DEF Inspect
<1>13. ASSUME Decide(r) PROVE Reported' = Reported
  BY <1>1, <1>2, <1>3, <1>13 DEF Decide
<1>14. ASSUME Announce(r) PROVE Reported' = Reported
  BY <1>1, <1>6, <1>14 DEF Announce
<1>15. ASSUME UNCHANGED tally \/ StartDispatch(r) PROVE Reported' = Reported
  BY <1>2, <1>15 DEF StartDispatch
<1> QED
  BY <1>8, <1>9, <1>10, <1>11, <1>12, <1>13, <1>14, <1>15
  DEF Step, Front, Evaluate, BlockCheckFails, StartReading, Dispatch, HostReturns, HostThrows,
      GuardPasses, GuardCatch, ReadScore, PolicyThrows, Execute, ExecuteThrows

LEMMA DoorStep ==
  ASSUME ReportInv, BlockRequiresProof, ~GuardMounted, NEW r \in Requests, Step(r)
  PROVE  [Door!Next]_<<answer, Reported, proven, blocked>>
<1> DEFINE still == UNCHANGED <<answer, Reported, proven, blocked>>
<1> SUFFICES still \/ Door!Refuse(r) \/ Door!Pass(r) \/ Door!Report(r) \/ Door!Prove(r) \/ Door!Answer(r)
  BY DEF Door!Next, Door!vars
<1> USE DEF Say
<1>a. TypeOK /\ Reporting(r) /\ Decided(r)
  BY DEF ReportInv, ProofInv
<1>b. ~Record(r) => Reported' = Reported
  BY <1>a, ReportsKept
<1>d. ASSUME \E es : HandOver(r, es), answer[r] = "none", ~Record(r),
             UNCHANGED <<proven, blocked>>
      PROVE  Door!Pass(r)
  BY <1>b, <1>d DEF HandOver, Door!Pass
<1>1. CASE Arrive(r)
  <2>1. answer[r] = "none" /\ ~Record(r)
    BY <1>1, <1>a DEF Arrive, Reporting, Stages, Record
  <2>2. (\E es : HandOver(r, es)) \/ UNCHANGED answer
    BY <1>1, Zenon DEF Arrive
  <2> QED
    BY <1>1, <1>b, <1>d, <2>1, <2>2 DEF Arrive
<1>2. CASE CheckBlocked(r)
  <2>1. answer[r] = "none" /\ ~Record(r)
    BY <1>2, <1>a DEF CheckBlocked, Reporting, Stages, Record
  <2> QED
    BY <1>2, <1>b, <2>1 DEF CheckBlocked, Door!Refuse
<1>3. CASE PassOn(r)
  <2>1. answer[r] = "none" /\ ~Record(r)
    BY <1>3, <1>a DEF PassOn, Settled, Reporting, Stages, Record
  <2>2. \E es : HandOver(r, es)
    BY <1>3, Zenon DEF PassOn
  <2> QED
    BY <1>3, <1>d, <2>1, <2>2 DEF PassOn
<1>4. CASE Catch(r)
  <2>1. ~Record(r)
    BY <1>4 DEF Catch, Record
  <2>2. CASE UNCHANGED answer
    BY <1>4, <1>b, <2>1, <2>2 DEF Catch
  <2>3. CASE ~UNCHANGED answer
    <3>1. ~Continued(r) /\ answer[r] # "honeypot" /\ Say(r, IF FailOpen THEN "app" ELSE "error")
      BY <1>4, <2>3 DEF Catch
    <3>2. answer[r] = "none"
      BY <1>4, <1>a, <3>1 DEF Catch, Reporting
    <3> QED
      BY <1>4, <1>b, <2>1, <3>1, <3>2 DEF Catch, Door!Pass
  <2> QED
    BY <2>2, <2>3
<1>5. CASE Record(r)
  <2>1. answer[r] = "none"
    BY <1>5, <1>a DEF Record, Reporting, Stages
  <2>2. Reported' = Reported \cup {r}
    <3>1. Count(r, {"recorded"})
      BY <1>5 DEF Record
    <3>2. tally'[r]["recorded"] > 0 /\ \A q \in Requests \ {r} : tally'[q] = tally[q]
      BY <1>a, <3>1, CountKeeps DEF Effects, TypeOK, EvalTypeOK
    <3> QED
      BY <3>2 DEF Reported
  <2> QED
    BY <1>5, <2>1, <2>2 DEF Record, Door!Report
<1>6. CASE Decide(r)
  <2>1. ~Record(r)
    BY <1>6 DEF Decide, Record
  <2>2. proven' = proven \cup {IpOf[r]} \/ proven' = proven
    BY <1>6 DEF Decide
  <2> QED
    BY <1>6, <1>b, <2>1, <2>2 DEF Decide, Door!Prove
<1>7. CASE Execute(r) \/ ExecuteThrows(r)
  <2>1. /\ stage[r] = "executing" /\ ~Record(r) /\ answer[r] = "none"
        /\ tally[r]["recorded"] > 0
    BY <1>7, <1>a DEF Execute, ExecuteThrows, Record, Reporting, Stages
  <2>2. r \in Reported /\ (ran[r] = "block" => IpOf[r] \in proven)
    BY <1>a, <2>1 DEF Reported, Decided
  <2> QED
    BY <1>7, <1>b, <2>1, <2>2 DEF Execute, ExecuteThrows, Door!Answer
<1>8. ASSUME ~Record(r), UNCHANGED <<answer, proven, blocked>> PROVE still
  BY <1>8, <1>b
<1> QED
  BY <1>1, <1>2, <1>3, <1>4, <1>5, <1>6, <1>7, <1>8
  DEF Step, Front, Evaluate, BlockCheckFails, CommitUnread, StartReading, BodySettles, Dispatch,
      StartDispatch, HostReturns, HostThrows, GuardStarts, GuardJudges, GuardPasses, GuardCatch,
      Inspect, ReadScore, PolicyThrows, Announce, Record

(* With the proof guard on and no guarded route, the middleware implements the *)
(* front door for every configuration, reload, fault and interleaving: one     *)
(* verdict per request, blocked only when proven, answered only when reported. *)
THEOREM ImplementsDoor ==
  ASSUME BlockRequiresProof, ~GuardMounted
  PROVE  Spec => ImplementsFrontDoor
<1>1. Init => ReportInv
  BY InitType
  DEF Init, EvalInit, NewPass, NoTally, Effects, ReportInv, ProofInv, Decided, Reporting,
      Continued, Commits, Stages
<1>2. Init => Door!Init
  BY DEF Init, EvalInit, NoTally, Effects, Reported, Door!Init
<1>3. ReportInv /\ [Next]_vars => [Door!Next]_<<answer, Reported, proven, blocked>>
  <2> SUFFICES ASSUME ReportInv, [Next]_vars
               PROVE  [Door!Next]_<<answer, Reported, proven, blocked>>
    OBVIOUS
  <2>1. ASSUME NEW r \in Requests, Step(r)
        PROVE  [Door!Next]_<<answer, Reported, proven, blocked>>
    BY <2>1, DoorStep
  <2>2. ASSUME NEW ip \in Ips, Expire(ip)
        PROVE  [Door!Next]_<<answer, Reported, proven, blocked>>
    BY <2>2 DEF Expire, Reported, Door!Next, Door!Expire
  <2>3. CASE UNCHANGED vars \/ Reconfigure
    BY <2>3 DEF vars, Reconfigure, Reported
  <2> QED
    BY <2>1, <2>2, <2>3 DEF Next, Quiet
<1> QED
  BY <1>1, <1>2, <1>3, ReportInvNext, PTL DEF Spec, ImplementsFrontDoor, Door!Spec, Door!vars

-----------------------------------------------------------------------------
(* What makes CountedOnce inductive: where a request that has been counted    *)
(* can be, and where one that has not; the guard's passes count nothing, and  *)
(* only requests the middleware passed on reach it.                           *)
Counted(r) == tally[r]["bypassed"] + tally[r]["audited"]

Undecided == {"idle", "checking", "reading", "scanning", "scoring", "deciding"}

Counting(r) ==
  /\ Counted(r) \in {0, 1}
  /\ InGuard(r) => stage[r] \notin {"idle", "checking", "reading", "handed", "handedLast", "routed"}
  /\ stage[r] \in {"recording", "announcing"} => Commits(pass[r].kind)
  /\ stage[r] \in {"scoring", "deciding"} => pass[r].found # {}
  /\ ~InGuard(r) =>
       /\ stage[r] \in Undecided \/ Deferred(r) => Counted(r) = 0
       /\ stage[r] \in {"recording", "announcing", "executing"} \/ Settled(r) => Counted(r) = 1
  /\ Faults = {} =>
       /\ stage[r] \notin {"failed", "handedLast"}
       /\ InGuard(r) \/ stage[r] \in {"handed", "routed"} => Counted(r) = 1
       /\ stage[r] # "done" \/ InGuard(r) => answer[r] # "refused"
       /\ stage[r] = "done" => Counted(r) = IF answer[r] = "refused" THEN 0 ELSE 1

CountInv == TypeOK /\ \A r \in Requests : Counting(r)

(* Effects that leave both counters alone leave their sum alone. *)
LEMMA CountedSame ==
  ASSUME TypeOK, NEW r \in Requests, NEW es, CountsOnly(r, es),
         "bypassed" \notin es, "audited" \notin es
  PROVE  Counted(r)' = Counted(r)
BY DEF Counted, CountsOnly, Effects

LEMMA CountingStep ==
  ASSUME TypeOK, NEW r \in Requests, Counting(r), Step(r)
  PROVE  Counting(r)'
<1> DEFINE c == Counted(r)
           c2 == Counted(r)'
           k == pass[r].kind
           k2 == pass'[r].kind
<1>a. /\ EvalTypeOK /\ pass[r] \in PassType /\ k \in PassKinds
      /\ stage \in [Requests -> Stages] /\ answer \in [Requests -> Answers]
      /\ tally[r]["bypassed"] \in Nat /\ tally[r]["audited"] \in Nat
      /\ pass \in [Requests -> PassType] /\ c \in Nat
  <2>1. /\ EvalTypeOK /\ pass \in [Requests -> PassType] /\ stage \in [Requests -> Stages]
        /\ answer \in [Requests -> Answers] /\ tally[r] \in [Effects -> Nat]
    BY DEF TypeOK, EvalTypeOK
  <2>2. pass[r] \in PassType /\ k \in PassKinds
    BY <2>1 DEF PassType
  <2>3. tally[r]["bypassed"] \in Nat /\ tally[r]["audited"] \in Nat
    BY <2>1 DEF Effects
  <2>4. c \in Nat
    BY <2>3 DEF Counted
  <2> QED
    BY <2>1, <2>2, <2>3, <2>4
<1>b. \A s : Goto(r, s) => stage'[r] = s
  BY <1>a DEF Goto
<1>c. \A w : Say(r, w) => answer'[r] = w
  BY <1>a DEF Say
<1>d. UNCHANGED tally => c2 = c
  BY DEF Counted
<1>e. ASSUME NEW es, Count(r, es)
      PROVE  /\ "bypassed" \in es /\ "audited" \notin es => c2 = c + 1
             /\ "bypassed" \notin es /\ "audited" \notin es => c2 = c
  <2>1. /\ tally'[r]["bypassed"] = tally[r]["bypassed"] + IF "bypassed" \in es THEN 1 ELSE 0
        /\ tally'[r]["audited"] = tally[r]["audited"] + IF "audited" \in es THEN 1 ELSE 0
    BY <1>a, <1>e, CountKeeps DEF Effects
  <2> QED
    BY <1>a, <2>1 DEF Counted
\* A pass started with the request not counted yet, or by the guard.
<1>f. ASSUME NEW kind \in PassKinds, NEW body \in BOOLEAN, StartPass(r, kind, body),
             UNCHANGED answer
      PROVE  /\ k2 = kind /\ pass'[r].found = {}
             /\ \/ stage'[r] = "judged" /\ c2 = c + IF Audits(kind) THEN 1 ELSE 0
                \/ stage'[r] = "scanning" /\ c2 = c
  <2>1. /\ k2 = kind /\ pass'[r].found = {}
        /\ CountsOnly(r, {"seen", "bypassed"})
        /\ \/ /\ stage'[r] = "judged"
              /\ Counts(r, "bypassed", Audits(kind)) /\ Counts(r, "seen", FALSE)
           \/ /\ stage'[r] = "scanning"
              /\ Counts(r, "seen", Tracks(kind)) /\ Counts(r, "bypassed", FALSE)
    <3>1. EvalTypeOK /\ StartPass(r, kind, body)
      BY <1>a, <1>f
    <3> HIDE DEF k2
    <3>2. /\ pass'[r].kind = kind /\ pass'[r].found = {}
          /\ CountsOnly(r, {"seen", "bypassed"})
          /\ \/ /\ stage'[r] = "judged"
                /\ Counts(r, "bypassed", Audits(kind)) /\ Counts(r, "seen", FALSE)
             \/ /\ stage'[r] = "scanning"
                /\ Counts(r, "seen", Tracks(kind)) /\ Counts(r, "bypassed", FALSE)
      BY <3>1, StartPassEffect
    <3> QED
      BY <3>2 DEF k2
  <2>2. tally'[r]["audited"] = tally[r]["audited"]
    BY <2>1 DEF CountsOnly, Effects
  <2> QED
    BY <1>a, <2>1, <2>2 DEF Counts, Counted
\* The middleware's own passes start with nothing counted.
<1>g. ASSUME NEW kind \in {"defer", "single", "commit"}, NEW body \in BOOLEAN,
             StartPass(r, kind, body), UNCHANGED answer, c = 0,
             Faults = {} => answer[r] # "refused"
      PROVE  Counting(r)'
  <2>1. /\ k2 = kind /\ pass'[r].found = {}
        /\ \/ stage'[r] = "judged" /\ c2 = c + IF Audits(kind) THEN 1 ELSE 0
           \/ stage'[r] = "scanning" /\ c2 = c
    BY <1>f, <1>g DEF PassKinds
  <2> HIDE DEF c, c2, k, k2
  <2>2. c2 = Counted(r)' /\ k2 = pass'[r].kind
    BY DEF c2, k2
  <2> QED
    BY <1>g, <2>1, <2>2 DEF Counting, InGuard, HasForm, Audits, Deferred, Settled, Undecided
\* The guard's passes start with the request counted, if nothing failed.
<1>h. ASSUME NEW kind \in {"probe", "trap"}, NEW body \in BOOLEAN,
             StartPass(r, kind, body), UNCHANGED answer,
             Faults = {} => c = 1 /\ answer[r] # "refused"
      PROVE  Counting(r)'
  <2>1. /\ k2 = kind /\ pass'[r].found = {}
        /\ stage'[r] \in {"judged", "scanning"} /\ c2 = c
    BY <1>a, <1>f, <1>h DEF PassKinds, Audits
  <2>2. c \in {0, 1}
    BY DEF Counting
  <2> HIDE DEF c, c2, k, k2
  <2>3. c2 = Counted(r)' /\ k2 = pass'[r].kind
    BY DEF c2, k2
  <2> QED
    BY <1>h, <2>1, <2>2, <2>3 DEF Counting, InGuard, HasForm, Deferred, Settled
\* A step that only moves the request on.
<1>i. ASSUME NEW s \in {"checking", "reading", "failed", "done", "routed"}, stage'[r] = s,
             UNCHANGED <<pass, answer, tally>>,
             s \in {"checking", "reading"} => ~InGuard(r) /\ c = 0 /\ stage[r] # "done",
             s = "failed" => Faults # {},
             s = "routed" => stage[r] \in {"handed", "handedLast"},
             s = "done" => (Faults = {} => c = 1 /\ answer[r] # "refused")
      PROVE  Counting(r)'
  BY <1>d, <1>i DEF Counting, Counted, InGuard, Deferred, Settled, Undecided
<1>1. CASE Arrive(r)
  <2>1. stage[r] = "idle" /\ ~InGuard(r) /\ c = 0
    BY <1>1 DEF Arrive, Counting, Undecided
  <2>2. CASE HandOver(r, {"bypassed"})
    <3>1. stage'[r] = "handed" /\ answer'[r] = "app" /\ c2 = c + 1 /\ UNCHANGED pass
      BY <1>1, <2>2, <1>b, <1>c, <1>e DEF HandOver, Arrive
    <3> QED
      BY <2>1, <3>1 DEF Counting, InGuard, Deferred, Settled, Undecided
  <2>3. CASE Goto(r, "checking") /\ UNCHANGED <<answer, tally>>
    BY <1>1, <1>b, <1>i, <2>1, <2>3 DEF Arrive
  <2> QED
    BY <1>1, <2>2, <2>3, Zenon DEF Arrive
<1>2. CASE CheckBlocked(r)
  <2>1. stage[r] = "checking" /\ ~InGuard(r) /\ c = 0 /\ (Faults = {} => answer[r] # "refused")
    BY <1>2 DEF CheckBlocked, Counting, Undecided
  <2>2. CASE IpOf[r] \in blocked
    <3>1. stage'[r] = "done" /\ answer'[r] = "refused" /\ UNCHANGED <<pass, tally>>
      BY <1>2, <2>2, <1>b, <1>c DEF CheckBlocked
    <3> QED
      BY <1>d, <2>1, <3>1 DEF Counting, InGuard, Deferred, Settled, Undecided
  <2>3. CASE IpOf[r] \notin blocked
    BY <1>2, <1>g, <2>1, <2>3 DEF CheckBlocked
  <2> QED
    BY <2>2, <2>3
<1>3. CASE BlockCheckFails(r)
  BY <1>3, <1>b, <1>i DEF BlockCheckFails
<1>j. ASSUME Deferred(r) PROVE ~InGuard(r) /\ c = 0 /\ stage[r] = "judged"
  BY <1>j DEF Deferred, Counting, InGuard, HasForm
<1>4. CASE CommitUnread(r)
  BY <1>4, <1>g, <1>j DEF CommitUnread, Counting
<1>5. CASE StartReading(r)
  BY <1>5, <1>b, <1>i, <1>j DEF StartReading
<1>6. CASE BodySettles(r)
  <2>1. stage[r] = "reading" /\ c = 0 /\ (Faults = {} => answer[r] # "refused")
    BY <1>6 DEF BodySettles, Counting, Undecided
  <2> QED
    BY <1>6, <1>g, <2>1 DEF BodySettles
<1>k. ASSUME Settled(r) PROVE ~InGuard(r) /\ c = 1 /\ stage[r] = "judged"
  BY <1>k DEF Settled, Counting, InGuard, HasForm
<1>7. CASE PassOn(r)
  <2>1. PICK es : HandOver(r, es) /\ "bypassed" \notin es /\ "audited" \notin es
    BY <1>7 DEF PassOn, When
  <2>2. stage'[r] = "handed" /\ answer'[r] = "app" /\ c2 = c /\ UNCHANGED pass
    BY <1>7, <2>1, <1>b, <1>c, <1>e DEF HandOver, PassOn
  <2> QED
    BY <1>7, <1>k, <2>2 DEF PassOn, Counting, InGuard, Deferred, Settled, Undecided
<1>8. CASE Dispatch(r)
  <2>1. stage'[r] = "executing" /\ UNCHANGED <<pass, tally, answer>> /\ stage[r] = "judged"
    BY <1>8, <1>b DEF Dispatch, StartDispatch, Settled
  <2>2. ~InGuard(r) => Settled(r)
    BY <1>8 DEF Dispatch, InGuard, HasForm
  <2> QED
    BY <1>d, <1>k, <2>1, <2>2 DEF Counting, InGuard, Deferred, Settled, Undecided
<1>9. CASE HostReturns(r)
  <2>1. stage[r] \in {"handed", "handedLast"} /\ UNCHANGED <<pass, answer, tally>>
        /\ stage'[r] \in {"routed", "done"}
    BY <1>9, <1>b DEF HostReturns
  <2>2. Faults = {} => c = 1 /\ answer[r] # "refused"
    BY <2>1 DEF Counting
  <2> QED
    BY <1>i, <2>1, <2>2
<1>10. CASE HostThrows(r)
  <2>1. stage'[r] \in {"failed", "done"} /\ UNCHANGED <<pass, answer, tally>> /\ Faults # {}
    BY <1>10, <1>b DEF HostThrows
  <2> QED
    BY <1>i, <2>1
<1>11. CASE Catch(r)
  <2>1. Faults # {} /\ ~InGuard(r) /\ UNCHANGED pass
    BY <1>11 DEF Catch, Counting
  <2>2. CASE Goto(r, "done") /\ UNCHANGED <<answer, tally>>
    BY <1>b, <1>i, <2>1, <2>2
  <2>3. CASE Count(r, {"next"}) /\ Goto(r, "handedLast")
    <3>1. c2 = c /\ stage'[r] = "handedLast"
      BY <1>b, <1>e, <2>3
    <3> QED
      BY <2>1, <3>1 DEF Counting, InGuard, Deferred, Settled, Undecided
  <2> QED
    BY <1>11, <2>2, <2>3 DEF Catch
<1>12. CASE GuardStarts(r)
  <2>1. stage[r] = "routed" /\ (Faults = {} => c = 1 /\ answer[r] # "refused")
    BY <1>12 DEF GuardStarts, Counting
  <2>2. CASE Goto(r, "done") /\ UNCHANGED <<pass, tally>>
    BY <1>12, <1>b, <1>i, <2>1, <2>2 DEF GuardStarts
  <2>3. CASE StartPass(r, "probe", FALSE)
    BY <1>12, <1>h, <2>1, <2>3 DEF GuardStarts
  <2> QED
    BY <1>12, <2>2, <2>3 DEF GuardStarts
<1>l. ASSUME InGuard(r) PROVE Faults = {} => c = 1 /\ answer[r] # "refused"
  BY <1>l DEF Counting
<1>13. CASE GuardJudges(r)
  <2>1. InGuard(r)
    BY <1>13 DEF GuardJudges, InGuard, HasForm
  <2>2. CASE Goto(r, "done") /\ UNCHANGED <<pass, tally>>
    BY <1>13, <1>b, <1>i, <1>l, <2>1, <2>2 DEF GuardJudges
  <2>3. CASE StartPass(r, "trap", FALSE)
    BY <1>13, <1>h, <1>l, <2>1, <2>3 DEF GuardJudges
  <2> QED
    BY <1>13, <2>2, <2>3 DEF GuardJudges
<1>14. CASE GuardPasses(r) \/ GuardCatch(r)
  <2>1. InGuard(r) /\ stage'[r] = "done" /\ UNCHANGED <<pass, answer, tally>>
    BY <1>14, <1>b DEF GuardPasses, GuardCatch, InGuard, HasForm
  <2> QED
    BY <1>i, <1>l, <2>1
<1>16. CASE Inspect(r)
  <2>1. /\ stage[r] = "scanning" /\ UNCHANGED answer /\ k2 = k
        /\ CountsOnly(r, {"shadowed", "audited"})
        /\ \/ stage'[r] = "scanning" /\ Counts(r, "audited", FALSE)
           \/ stage'[r] = "scoring" /\ pass'[r].found # {} /\ Counts(r, "audited", FALSE)
           \/ stage'[r] = "judged" /\ pass'[r].found = {} /\ Counts(r, "audited", Audits(k))
    BY <1>16, <1>a, InspectEffect
  <2>2. tally'[r]["bypassed"] = tally[r]["bypassed"]
    BY <2>1 DEF CountsOnly, Effects
  <2>3. \/ stage'[r] = "scanning" /\ c2 = c
        \/ stage'[r] = "scoring" /\ pass'[r].found # {} /\ c2 = c
        \/ stage'[r] = "judged" /\ pass'[r].found = {} /\ c2 = c + IF Audits(k) THEN 1 ELSE 0
    BY <1>a, <2>1, <2>2 DEF Counts, Counted
  <2>4. c \in {0, 1} /\ (~HasForm(k) => c = 0) /\ (HasForm(k) => ~Audits(k)) /\ (~HasForm(k) => Audits(k))
    BY <1>a, <2>1 DEF Counting, InGuard, Undecided, HasForm, Audits, PassKinds
  <2> HIDE DEF c, c2
  <2>5. c = Counted(r) /\ c2 = Counted(r)'
    BY DEF c, c2
  <2> QED
    BY <2>1, <2>3, <2>4, <2>5 DEF Counting, InGuard, Deferred, Settled, Undecided, Audits
<1>17. CASE ReadScore(r)
  <2>1. /\ stage[r] = "scoring" /\ stage'[r] = "deciding" /\ UNCHANGED <<answer, tally>>
        /\ k2 = k /\ pass'[r].found = pass[r].found
    BY <1>17, <1>a, <1>b DEF ReadScore, PassType
  <2> QED
    BY <1>d, <2>1 DEF Counting, InGuard, Deferred, Settled, Undecided
<1>18. CASE Decide(r)
  <2>1. /\ stage[r] = "deciding" /\ UNCHANGED answer /\ k2 = k
        /\ pass'[r].found = pass[r].found
        /\ CountsOnly(r, {"audited"})
        /\ \/ Commits(k) /\ stage'[r] = "recording" /\ Counts(r, "audited", Audits(k))
           \/ ~Commits(k) /\ stage'[r] = "judged" /\ Counts(r, "audited", FALSE)
    BY <1>18, <1>a, DecideEffect
  <2>2. tally'[r]["bypassed"] = tally[r]["bypassed"]
    BY <2>1 DEF CountsOnly, Effects
  <2>3. \/ Commits(k) /\ stage'[r] = "recording" /\ c2 = c + IF Audits(k) THEN 1 ELSE 0
        \/ ~Commits(k) /\ stage'[r] = "judged" /\ c2 = c
    BY <1>a, <2>1, <2>2 DEF Counts, Counted
  <2>4. c \in {0, 1} /\ (~HasForm(k) => c = 0) /\ (HasForm(k) => ~Audits(k))
        /\ (~HasForm(k) => Audits(k)) /\ pass[r].found # {}
        /\ (~Commits(k) /\ ~HasForm(k) => k = "defer")
    BY <1>a, <2>1 DEF Counting, InGuard, Undecided, HasForm, Audits, Commits, PassKinds
  <2> HIDE DEF c, c2
  <2>5. c = Counted(r) /\ c2 = Counted(r)'
    BY DEF c, c2
  <2> QED
    BY <2>1, <2>3, <2>4, <2>5 DEF Counting, InGuard, Deferred, Settled, Undecided
<1>19. CASE PolicyThrows(r)
  BY <1>19, <1>b, <1>i DEF PolicyThrows
<1>20. CASE Record(r)
  <2>1. /\ stage[r] = "recording" /\ stage'[r] = "announcing" /\ UNCHANGED <<pass, answer>>
        /\ c2 = c
    BY <1>20, <1>a, RecordEffect, CountedSame
  <2> QED
    BY <2>1 DEF Counting, InGuard, Deferred, Settled, Undecided
<1>21. CASE Announce(r)
  <2>1. /\ stage[r] = "announcing" /\ stage'[r] = "judged" /\ UNCHANGED answer
        /\ k2 = k /\ pass'[r].found = pass[r].found /\ c2 = c
    BY <1>21, <1>a, AnnounceEffect, CountedSame
  <2>2. Commits(k)
    BY <2>1 DEF Counting
  <2> QED
    BY <2>1, <2>2 DEF Counting, InGuard, Deferred, Settled, Undecided, Commits
<1>22. CASE Execute(r)
  <2>1. /\ stage[r] = "executing" /\ stage'[r] = "done" /\ answer'[r] = "honeypot"
        /\ UNCHANGED <<pass, tally>>
    BY <1>22, <1>b, <1>c DEF Execute
  <2> QED
    BY <1>d, <2>1 DEF Counting, InGuard, Deferred, Settled, Undecided
<1>23. CASE ExecuteThrows(r)
  <2>1. /\ stage[r] = "executing" /\ stage'[r] = "failed" /\ Faults # {}
        /\ UNCHANGED <<pass, tally>>
    BY <1>23, <1>b DEF ExecuteThrows
  <2> QED
    BY <1>d, <2>1 DEF Counting, InGuard, Deferred, Settled, Undecided
<1> QED
  BY <1>1, <1>2, <1>3, <1>4, <1>5, <1>6, <1>7, <1>8, <1>9, <1>10, <1>11, <1>12, <1>13, <1>14,
     <1>16, <1>17, <1>18, <1>19, <1>20, <1>21, <1>22, <1>23
  DEF Step, Front, Evaluate

LEMMA CountInvNext == CountInv /\ [Next]_vars => CountInv'
<1> SUFFICES ASSUME CountInv, [Next]_vars PROVE CountInv'
  OBVIOUS
<1>1. TypeOK'
  BY NextType DEF CountInv
<1>2. ASSUME NEW r \in Requests, Step(r), NEW q \in Requests PROVE Counting(q)'
  <2>1. CASE q = r
    BY <1>2, <2>1, CountingStep DEF CountInv
  <2>2. CASE q # r
    BY <1>2, <2>2, Frame
    DEF CountInv, Counting, Counted, InGuard, HasForm, Commits, Deferred, Settled
  <2> QED
    BY <2>1, <2>2
<1>3. CASE UNCHANGED <<stage, pass, tally, answer>>
  BY <1>1, <1>3
  DEF CountInv, Counting, Counted, InGuard, HasForm, Commits, Deferred, Settled
<1> QED
  BY <1>1, <1>2, <1>3 DEF CountInv, Next, Quiet, Reconfigure, Expire, vars

(* Every request is counted in one place (core.ts 389-396 and 597-604), with   *)
(* or without a guarded route, for every mix of faults, reloads and            *)
(* interleavings; and when nothing fails none that is finished was missed.     *)
THEOREM EveryRequestCountedOnce == Spec => []CountedOnce
<1>1. Init => CountInv
  <2> SUFFICES ASSUME Init PROVE CountInv
    OBVIOUS
  <2>1. TypeOK
    BY InitType
  <2>2. ASSUME NEW r \in Requests
        PROVE  stage[r] = "idle" /\ pass[r].kind = "single" /\ answer[r] = "none" /\ Counted(r) = 0
    BY DEF Init, EvalInit, NewPass, NoTally, Effects, Counted
  <2> QED
    BY <2>1, <2>2 DEF CountInv, Counting, InGuard, HasForm, Deferred, Settled
<1>2. CountInv => CountedOnce
  BY DEF CountInv, Counting, Counted, CountedOnce
<1> QED
  BY <1>1, <1>2, CountInvNext, PTL DEF Spec

-----------------------------------------------------------------------------
(* What makes CommittedOnce inductive when no route mounts the guard: a        *)
(* request enters the window with its first pass only, and reaches the store   *)
(* and the listeners only from a pass after which it is not deferred again.    *)
BeforeRecord(r) ==
  \/ stage[r] \in Undecided \cup {"recording"}
  \/ stage[r] = "judged" /\ pass[r].kind = "defer"

Committing(r) ==
  /\ \A e \in {"seen", "recorded", "announced"} : tally[r][e] \in {0, 1}
  /\ stage[r] \in {"idle", "checking"} => tally[r]["seen"] = 0
  /\ BeforeRecord(r) => tally[r]["recorded"] = 0
  /\ BeforeRecord(r) \/ stage[r] = "announcing" => tally[r]["announced"] = 0

CommitInv ==
  /\ ReportInv
  /\ ~GuardMounted => \A r \in Requests : Committing(r)

LEMMA CommittingStep ==
  ASSUME TypeOK, ~GuardMounted, NEW r \in Requests, Reporting(r), Committing(r), Step(r)
  PROVE  Committing(r)'
<1> DEFINE seen == tally[r]["seen"]
           recorded == tally[r]["recorded"]
           announced == tally[r]["announced"]
           k == pass[r].kind
<1>a. /\ EvalTypeOK /\ pass[r] \in PassType /\ k \in {"defer", "single", "commit"}
      /\ stage[r] # "routed"
      /\ seen \in Nat /\ recorded \in Nat /\ announced \in Nat
  <2>1. tally[r] \in [Effects -> Nat] /\ pass[r] \in PassType /\ EvalTypeOK
    BY DEF TypeOK, EvalTypeOK
  <2> QED
    BY <2>1 DEF Effects, Reporting
<1>b. \A s : Goto(r, s) => stage'[r] = s
  BY DEF TypeOK, EvalTypeOK, Goto
<1>c. ASSUME NEW es, CountsOnly(r, es), es \cap {"seen", "recorded", "announced"} = {}
      PROVE  seen' = seen /\ recorded' = recorded /\ announced' = announced
  BY <1>c DEF CountsOnly, Effects
<1>d. ASSUME NEW es, Count(r, es), es \cap {"seen", "recorded", "announced"} = {}
      PROVE  seen' = seen /\ recorded' = recorded /\ announced' = announced
  BY <1>a, <1>d, CountKeeps DEF Effects
\* A step that starts no pass, counts none of the three and leaves no earlier stage.
<1>e. ASSUME seen' = seen, recorded' = recorded, announced' = announced,
             stage'[r] \in {"idle", "checking"} => stage[r] \in {"idle", "checking"},
             BeforeRecord(r)' => BeforeRecord(r),
             stage'[r] # "announcing"
      PROVE  Committing(r)'
  BY <1>e DEF Committing
<1>f. ASSUME NEW kind \in {"defer", "single", "commit"}, NEW body \in BOOLEAN,
             StartPass(r, kind, body), BeforeRecord(r), Tracks(kind) => seen = 0
      PROVE  Committing(r)'
  <2>1. /\ CountsOnly(r, {"seen", "bypassed"})
        /\ \/ stage'[r] = "judged" /\ Counts(r, "seen", FALSE)
           \/ stage'[r] = "scanning" /\ Counts(r, "seen", Tracks(kind))
    BY <1>a, <1>f, StartPassEffect DEF PassKinds
  <2>2. recorded' = recorded /\ announced' = announced
    BY <2>1 DEF CountsOnly, Effects
  <2>3. seen' = seen \/ (seen' = seen + 1 /\ seen = 0)
    BY <1>a, <1>f, <2>1 DEF Counts
  <2>4. recorded = 0 /\ announced = 0 /\ seen \in {0, 1}
    BY <1>f DEF Committing
  <2>5. seen' \in {0, 1} /\ recorded' = 0 /\ announced' = 0
    BY <2>2, <2>3, <2>4
  <2>6. stage'[r] \notin {"idle", "checking"}
    BY <2>1
  <2> QED
    BY <2>5, <2>6 DEF Committing
\* Once a request is past its first pass and not deferred, only its end is left.
<1>g. ASSUME stage'[r] \in {"handed", "handedLast", "failed", "done", "executing"},
             seen' = seen, recorded' = recorded, announced' = announced
      PROVE  Committing(r)'
  BY <1>e, <1>g DEF BeforeRecord, Undecided
<1>1. CASE Arrive(r)
  <2>1. stage[r] = "idle"
    BY <1>1 DEF Arrive
  <2>2. CASE HandOver(r, {"bypassed"})
    BY <1>b, <1>d, <1>g, <2>2 DEF HandOver
  <2>3. CASE Goto(r, "checking") /\ UNCHANGED tally
    BY <1>b, <1>e, <2>1, <2>3 DEF BeforeRecord, Undecided
  <2> QED
    BY <1>1, <2>2, <2>3, Zenon DEF Arrive
<1>2. CASE CheckBlocked(r)
  <2>1. stage[r] = "checking" /\ BeforeRecord(r) /\ seen = 0
    BY <1>2 DEF CheckBlocked, BeforeRecord, Undecided, Committing
  <2>2. CASE Goto(r, "done") /\ UNCHANGED tally
    BY <1>b, <1>g, <2>2
  <2>3. CASE \E kind \in {"defer", "single"} : StartPass(r, kind, FALSE)
    BY <1>f, <2>1, <2>3
  <2> QED
    BY <1>2, <2>2, <2>3 DEF CheckBlocked
<1>3. CASE BlockCheckFails(r) \/ HostThrows(r) \/ PolicyThrows(r)
  BY <1>3, <1>b, <1>g DEF BlockCheckFails, HostThrows, PolicyThrows
<1>4. CASE CommitUnread(r)
  BY <1>4, <1>f DEF CommitUnread, Deferred, BeforeRecord, Tracks
<1>5. CASE StartReading(r)
  <2>1. BeforeRecord(r) /\ stage'[r] = "reading" /\ UNCHANGED tally
    BY <1>5, <1>b DEF StartReading, Deferred, BeforeRecord
  <2> QED
    BY <1>e, <2>1
<1>6. CASE BodySettles(r)
  <2>1. \E body \in BOOLEAN : StartPass(r, "commit", body)
    BY <1>6 DEF BodySettles
  <2> QED
    BY <1>6, <1>f, <2>1 DEF BodySettles, BeforeRecord, Undecided, Tracks
<1>7. CASE PassOn(r)
  <2>1. PICK es : HandOver(r, es) /\ es \cap {"seen", "recorded", "announced"} = {}
    BY <1>7 DEF PassOn, When
  <2>2. Count(r, es \cup {"next"}) /\ Goto(r, "handed")
    BY <2>1 DEF HandOver
  <2>3. (es \cup {"next"}) \cap {"seen", "recorded", "announced"} = {}
    BY <2>1
  <2> QED
    BY <1>b, <1>d, <1>g, <2>2, <2>3
<1>8. CASE Dispatch(r) \/ Execute(r) \/ ExecuteThrows(r)
  BY <1>8, <1>b, <1>g DEF Dispatch, StartDispatch, Execute, ExecuteThrows
<1>9. CASE HostReturns(r)
  BY <1>9, <1>b, <1>g DEF HostReturns
<1>11. CASE Catch(r)
  <2>1. CASE Goto(r, "done") /\ UNCHANGED tally
    BY <1>b, <1>g, <2>1
  <2>2. CASE Count(r, {"next"}) /\ Goto(r, "handedLast")
    BY <1>b, <1>d, <1>g, <2>2
  <2> QED
    BY <1>11, <2>1, <2>2 DEF Catch
<1>12. CASE GuardStarts(r) \/ GuardJudges(r) \/ GuardPasses(r) \/ GuardCatch(r)
  BY <1>12, <1>a DEF GuardStarts, GuardJudges, GuardPasses, GuardCatch, InGuard, HasForm
<1>16. CASE Inspect(r)
  <2>1. /\ stage[r] = "scanning" /\ CountsOnly(r, {"shadowed", "audited"})
        /\ stage'[r] \in {"scanning", "scoring", "judged"}
    BY <1>16, <1>a, InspectEffect
  <2>2. seen' = seen /\ recorded' = recorded /\ announced' = announced
    BY <1>c, <2>1
  <2> QED
    BY <1>e, <2>1, <2>2 DEF BeforeRecord, Undecided
<1>17. CASE ReadScore(r)
  <2>1. stage[r] = "scoring" /\ stage'[r] = "deciding" /\ UNCHANGED tally
    BY <1>17, <1>b DEF ReadScore
  <2> QED
    BY <1>e, <2>1 DEF BeforeRecord, Undecided
<1>18. CASE Decide(r)
  <2>1. /\ stage[r] = "deciding" /\ CountsOnly(r, {"audited"})
        /\ stage'[r] \in {"recording", "judged"}
    BY <1>18, <1>a, DecideEffect
  <2>2. seen' = seen /\ recorded' = recorded /\ announced' = announced
    BY <1>c, <2>1
  <2> QED
    BY <1>e, <2>1, <2>2 DEF BeforeRecord, Undecided
<1>20. CASE Record(r)
  <2>1. /\ stage[r] = "recording" /\ stage'[r] = "announcing"
        /\ CountsOnly(r, {"recorded"}) /\ Counts(r, "recorded", TRUE)
    BY <1>20, <1>a, RecordEffect
  <2>2. seen' = seen /\ announced' = announced /\ recorded' = recorded + 1
    BY <2>1 DEF CountsOnly, Counts, Effects
  <2>3. recorded = 0 /\ announced = 0
    BY <2>1 DEF Committing, BeforeRecord
  <2> QED
    BY <2>1, <2>2, <2>3 DEF Committing, BeforeRecord, Undecided
<1>21. CASE Announce(r)
  <2>1. /\ stage[r] = "announcing" /\ stage'[r] = "judged" /\ k' = k
        /\ CountsOnly(r, {"announced"}) /\ Counts(r, "announced", TRUE)
    BY <1>21, <1>a, AnnounceEffect
  <2>2. seen' = seen /\ recorded' = recorded /\ announced' = announced + 1
    BY <2>1 DEF CountsOnly, Counts, Effects
  <2>3. announced = 0 /\ k # "defer"
    BY <2>1 DEF Committing, Reporting, Commits
  <2> QED
    BY <2>1, <2>2, <2>3 DEF Committing, BeforeRecord, Undecided
<1> QED
  BY <1>1, <1>2, <1>3, <1>4, <1>5, <1>6, <1>7, <1>8, <1>9, <1>11, <1>12,
     <1>16, <1>17, <1>18, <1>20, <1>21
  DEF Step, Front, Evaluate

LEMMA CommitInvNext == CommitInv /\ [Next]_vars => CommitInv'
<1> SUFFICES ASSUME CommitInv, [Next]_vars PROVE CommitInv'
  OBVIOUS
<1>1. ReportInv' /\ TypeOK
  BY ReportInvNext DEF CommitInv, ReportInv, ProofInv
<1>2. ASSUME ~GuardMounted, NEW r \in Requests, Step(r), NEW q \in Requests
      PROVE  Committing(q)'
  <2>1. CASE q = r
    BY <1>1, <1>2, <2>1, CommittingStep DEF CommitInv, ReportInv
  <2>2. CASE q # r
    BY <1>1, <1>2, <2>2, Frame DEF CommitInv, Committing, BeforeRecord
  <2> QED
    BY <2>1, <2>2
<1>3. ASSUME ~GuardMounted, UNCHANGED <<stage, pass, tally>>, NEW q \in Requests
      PROVE  Committing(q)'
  BY <1>3 DEF CommitInv, Committing, BeforeRecord
<1> QED
  BY <1>1, <1>2, <1>3 DEF CommitInv, Next, Quiet, Reconfigure, Expire, vars

(* The two passes over a request are one request (core.ts 38-52): with no      *)
(* guarded route it enters the activity window, the store and the listeners    *)
(* at most once each, whatever fails, however the body settles and whatever    *)
(* is reloaded between the passes.                                             *)
THEOREM OnePassCommits == ASSUME ~GuardMounted PROVE Spec => []CommittedOnce
<1>1. Init => CommitInv
  <2> SUFFICES ASSUME Init PROVE CommitInv
    OBVIOUS
  <2>1. ReportInv
    BY InitType
    DEF Init, EvalInit, NewPass, NoTally, Effects, ReportInv, ProofInv, Decided, Reporting,
        Continued, Commits, Stages
  <2>2. ASSUME NEW r \in Requests PROVE \A e \in Effects : tally[r][e] = 0
    BY DEF Init, EvalInit, NoTally
  <2> QED
    BY <2>1, <2>2 DEF CommitInv, Committing, Effects
<1>2. CommitInv => CommittedOnce
  BY DEF CommitInv, Committing, CommittedOnce
<1> QED
  BY <1>1, <1>2, CommitInvNext, PTL DEF Spec

-----------------------------------------------------------------------------
(* The standalone server.                                                    *)

LEMMA ServerStepType ==
  ASSUME EvalTypeOK, NEW r \in Requests, ServerStep(r)
  PROVE  EvalTypeOK'
<1>1. CASE ServerArrive(r)
  <2>1. PICK f \in Shapes :
          /\ facts' = [facts EXCEPT ![r] = f]
          /\ \/ Say(r, "empty") /\ Count(r, {"bypassed"}) /\ Goto(r, "done")
             \/ Goto(r, "checking") /\ UNCHANGED <<answer, tally>>
    BY <1>1, Zenon DEF ServerArrive
  <2>2. facts' \in [Requests -> FactsType]
    BY <2>1, ShapeAssumption DEF EvalTypeOK
  <2>3. tally' \in [Requests -> [Effects -> Nat]]
    BY <2>1, CountType DEF EvalTypeOK
  <2> QED
    BY <1>1, <2>1, <2>2, <2>3
    DEF ServerArrive, EvalTypeOK, LocalsOK, Goto, Say, Stages, Answers
<1>2. CASE ServerCheckBlocked(r)
  BY <1>2 DEF ServerCheckBlocked, EvalTypeOK, LocalsOK, Goto, Say, Stages, Answers
<1>3. CASE ServerBlockCheckFails(r)
  BY <1>3 DEF ServerBlockCheckFails, EvalTypeOK, LocalsOK, Goto, Stages
<1>4. CASE ServerBodySettles(r)
  <2>1. \E body \in BOOLEAN : StartPass(r, "single", body)
    BY <1>4 DEF ServerBodySettles, EvalTypeOK, FactsType
  <2> QED
    BY <1>4, <2>1, StartPassType DEF ServerBodySettles, EvalTypeOK, PassKinds
<1>5. CASE AnswerEmpty(r)
  BY <1>5 DEF AnswerEmpty, EvalTypeOK, LocalsOK, Goto, Say, Stages, Answers
<1>6. CASE ServerDispatch(r)
  <2>1. Resolve(r) \in ActionIds \cup {NoAction}
    BY LookupType DEF Resolve, EvalTypeOK, PassType
  <2> QED
    BY <1>6, <2>1 DEF ServerDispatch, StartDispatch, EvalTypeOK, LocalsOK, Goto, Stages
<1>7. CASE ServerCatch(r)
  BY <1>7 DEF ServerCatch, EvalTypeOK, LocalsOK, Goto, Say, Stages, Answers
<1>8. CASE Evaluate(r)
  BY <1>8, EvaluateType
<1> QED
  BY <1>1, <1>2, <1>3, <1>4, <1>5, <1>6, <1>7, <1>8 DEF ServerStep

LEMMA ServerInitType == ServerInit => EvalTypeOK
<1> SUFFICES ASSUME ServerInit PROVE EvalTypeOK
  OBVIOUS
<1>1. NewPass("single", FALSE, <<>>) \in PassType
  <2>1. <<>> \in Seq(Detectors) /\ "single" \in PassKinds
    BY DEF PassKinds
  <2> QED
    BY <2>1, NewPassType
<1>2. NoTally \in [Effects -> Nat] /\ NoFacts \in FactsType
  BY DEF NoTally, NoFacts, FactsType
<1> QED
  BY <1>1, <1>2 DEF ServerInit, EvalInit, EvalTypeOK, LocalsOK, Stages, Answers

LEMMA ServerNextType == EvalTypeOK /\ [ServerNext]_evalVars => EvalTypeOK'
<1> SUFFICES ASSUME EvalTypeOK, [ServerNext]_evalVars PROVE EvalTypeOK'
  OBVIOUS
<1>1. CASE \E r \in Requests : ServerStep(r)
  BY <1>1, ServerStepType
<1>2. CASE Reconfigure
  BY <1>2 DEF Reconfigure, EvalTypeOK, LocalsOK
<1>3. CASE \E ip \in Ips : Expire(ip)
  BY <1>3 DEF Expire, EvalTypeOK, LocalsOK
<1>4. CASE UNCHANGED evalVars
  BY <1>4 DEF evalVars, EvalTypeOK, LocalsOK
<1> QED
  BY <1>1, <1>2, <1>3, <1>4 DEF ServerNext, ServerQuiet

(* The state of the standalone server is always well typed, and a suspended    *)
(* pass finds the locals it relies on.                                         *)
THEOREM StandaloneTypes == ServerSpec => []EvalTypeOK
BY ServerInitType, ServerNextType, PTL DEF ServerSpec

-----------------------------------------------------------------------------
\* it adds up the scores of every subset of S, in the order CHOOSE takes them.
SumOver(it, S) ==
  it = [s \in SUBSET S |-> IF s = {} THEN 0
                           ELSE LET x == CHOOSE x \in s : TRUE IN x.score + it[s \ {x}]]

LEMMA HitSumEmpty == HitSum({}) = 0
BY DEF HitSum, MapThenSumSet, MapThenFoldSet

(* Any function that adds up the subsets of S so gives the sums of HitSum.     *)
LEMMA HitSumIs ==
  ASSUME NEW S, IsFiniteSet(S), \A h \in S : h.score \in Int,
         NEW g \in [SUBSET S -> Int], SumOver(g, S), NEW s \in SUBSET S
  PROVE  HitSum(s) = g[s]
<1> DEFINE it == CHOOSE it : SumOver(it, s)
<1>1. HitSum(s) = it[s]
  BY DEF HitSum, MapThenSumSet, MapThenFoldSet, SumOver
<1>2. SumOver(it, s)
  <2> DEFINE k == [t \in SUBSET s |-> g[t]]
  <2>1. \A t \in SUBSET S : g[t] = IF t = {} THEN 0
                           ELSE LET x == CHOOSE x \in t : TRUE IN x.score + g[t \ {x}]
    BY DEF SumOver
  <2>2. k = [t \in SUBSET s |-> IF t = {} THEN 0
                           ELSE LET x == CHOOSE x \in t : TRUE IN x.score + k[t \ {x}]]
    <3>1. \A t \in SUBSET s : LET x == CHOOSE x \in t : TRUE IN k[t \ {x}] = g[t \ {x}]
      OBVIOUS
    <3> QED
      BY <2>1, <3>1
  <2>3. SumOver(k, s)
    BY <2>2 DEF SumOver
  <2> HIDE DEF k
  <2> QED
    BY <2>3
<1> HIDE DEF it
<1> DEFINE T == {t \in SUBSET s : it[t] = g[t]}
<1>3. {} \in T
  BY <1>2 DEF SumOver
<1>4. ASSUME NEW t \in SUBSET s, t # {}, \A x \in t : t \ {x} \in T PROVE t \in T
  <2> DEFINE x == CHOOSE x \in t : TRUE
  <2>1. x \in t
    BY <1>4
  <2>2. it[t] = x.score + it[t \ {x}]
    BY <1>2, <1>4 DEF SumOver
  <2>3. g[t] = x.score + g[t \ {x}]
    BY <1>4 DEF SumOver
  <2> QED
    BY <1>4, <2>1, <2>2, <2>3
<1> HIDE DEF T
<1>5. SUBSET s \subseteq T
  <2>1. IsFiniteSet(s)
    BY FS_Subset
  <2> QED
    BY <1>3, <1>4, <2>1, SubsetInduction
<1>6. it[s] = g[s]
  BY <1>5 DEF T
<1> QED
  BY <1>1, <1>6

(* One more incident adds its score, whatever order the sum is taken in.       *)
LEMMA HitSumAdds ==
  ASSUME NEW S, IsFiniteSet(S), NEW x \in S, \A h \in S : h.score \in Int
  PROVE  /\ HitSum(S) = x.score + HitSum(S \ {x})
         /\ HitSum(S \ {x}) \in Int
<1> DEFINE C == [s \in SUBSET S |-> CHOOSE h \in s : TRUE]
           W == [h \in S |-> h.score]
           F == [a \in Int |-> [h \in S |-> h.score + a]]
<1>1. \A s \in SUBSET S : s # {} => C[s] \in s /\ C[s] = CHOOSE h \in s : TRUE
  OBVIOUS
<1>2. W \in [S -> Int] /\ \A h \in S : W[h] = h.score
  OBVIOUS
<1>3. F \in [Int -> [S -> Int]] /\ \A a \in Int : \A h \in S : F[a][h] = h.score + a
  OBVIOUS
<1> HIDE DEF C, W, F
<1>4. PICK g \in [SUBSET S -> Int] : Folds(g, S, 0, C, F)
  <2>1. 0 \in Int /\ F \in [Int -> [S -> Int]] /\ \A s \in SUBSET S : s # {} => C[s] \in s
    BY <1>1, <1>3
  <2> QED
    BY <2>1, FoldExists
<1>5. g[{}] = 0 /\ \A s \in SUBSET S : s # {} => g[s] = F[g[s \ {C[s]}]][C[s]]
  BY <1>4 DEF Folds
<1>6. ASSUME NEW s \in SUBSET S, s # {} PROVE g[s] = W[C[s]] + g[s \ {C[s]}]
  <2>1. C[s] \in S /\ g[s \ {C[s]}] \in Int
    BY <1>1, <1>6
  <2>2. W[C[s]] = C[s].score /\ F[g[s \ {C[s]}]][C[s]] = C[s].score + g[s \ {C[s]}]
    BY <1>2, <1>3, <2>1
  <2> QED
    BY <1>5, <1>6, <2>2
<1>7. SumOver(g, S)
  <2>1. \A s \in SUBSET S : g[s] = IF s = {} THEN 0
                           ELSE LET h == CHOOSE h \in s : TRUE IN h.score + g[s \ {h}]
    <3> SUFFICES ASSUME NEW s \in SUBSET S
                 PROVE  g[s] = IF s = {} THEN 0 ELSE LET h == CHOOSE h \in s : TRUE IN h.score + g[s \ {h}]
      OBVIOUS
    <3>1. CASE s = {}
      BY <1>5, <3>1
    <3>2. CASE s # {}
      <4>1. C[s] \in S /\ C[s] = CHOOSE h \in s : TRUE
        BY <1>1, <3>2
      <4>2. g[s] = C[s].score + g[s \ {C[s]}]
        BY <1>2, <1>6, <3>2, <4>1
      <4> QED
        BY <3>2, <4>1, <4>2
    <3> QED
      BY <3>1, <3>2
  <2> QED
    BY <2>1 DEF SumOver
<1>8. g[S] = W[x] + g[S \ {x}]
  <2>1. Sums(g, S, W, C)
    BY <1>1, <1>2, <1>6 DEF Sums
  <2> QED
    BY <2>1, SumTakesAny
<1>9. HitSum(S) = g[S] /\ HitSum(S \ {x}) = g[S \ {x}]
  BY <1>7, HitSumIs
<1> QED
  BY <1>2, <1>8, <1>9

-----------------------------------------------------------------------------
(* A step of one request leaves every other request where it is, and no        *)
(* incident is ever taken back.                                                *)
LEMMA ServerFrame ==
  ASSUME EvalTypeOK, NEW r \in Requests, ServerStep(r), NEW q \in Requests \ {r}
  PROVE  stage'[q] = stage[q] /\ pass'[q] = pass[q] /\ ran'[q] = ran[q]
<1> USE DEF EvalTypeOK, Goto, Say, Count
<1>1. CASE ServerArrive(r)
  BY <1>1 DEF ServerArrive
<1>2. CASE ServerCheckBlocked(r) \/ ServerBlockCheckFails(r) \/ AnswerEmpty(r) \/ ServerCatch(r)
  BY <1>2 DEF ServerCheckBlocked, ServerBlockCheckFails, AnswerEmpty, ServerCatch
<1>3. CASE ServerBodySettles(r)
  BY <1>3 DEF ServerBodySettles, StartPass
<1>4. CASE ServerDispatch(r)
  BY <1>4 DEF ServerDispatch, StartDispatch
<1>5. CASE Inspect(r)
  BY <1>5 DEF Inspect
<1>6. CASE ReadScore(r) \/ PolicyThrows(r) \/ Announce(r)
  BY <1>6 DEF ReadScore, PolicyThrows, Announce
<1>7. CASE Decide(r)
  BY <1>7 DEF Decide
<1>8. CASE Record(r)
  BY <1>8 DEF Record
<1>9. CASE Execute(r) \/ ExecuteThrows(r)
  BY <1>9 DEF Execute, ExecuteThrows
<1> QED
  BY <1>1, <1>2, <1>3, <1>4, <1>5, <1>6, <1>7, <1>8, <1>9 DEF ServerStep, Evaluate

LEMMA HitsGrow ==
  ASSUME EvalTypeOK, NEW r \in Requests, ServerStep(r)
  PROVE  /\ hits \subseteq hits'
         /\ ~Record(r) => UNCHANGED <<hits, score>>
         /\ ~Execute(r) => UNCHANGED blocked
BY DEF ServerStep, Evaluate, ServerArrive, ServerCheckBlocked, ServerBlockCheckFails, ServerBodySettles, AnswerEmpty, ServerDispatch,
       StartDispatch, ServerCatch, Inspect, ReadScore, Decide, PolicyThrows, Record, Announce,
       Execute, ExecuteThrows

-----------------------------------------------------------------------------
(* What makes BlockOnRecord inductive: a pass has no action before its policy  *)
(* decides, a block it decided is on record from the moment the listeners      *)
(* hear of it, and what dispatch() runs is that decision or not-found.         *)
OnRecord(ip) == \E h \in hits : h.ip = ip /\ h.respondedWith = "block"

Explained(r) ==
  /\ pass[r].kind = "single"
  /\ stage[r] \in Undecided => pass[r].action = NoAction /\ pass[r].impl = NoAction
  /\ stage[r] \in {"announcing", "judged"} /\ pass[r].action = "block" => OnRecord(IpOf[r])
  /\ stage[r] = "judged" => pass[r].impl \in {pass[r].action, NoAction}
  /\ stage[r] = "executing" /\ ran[r] = "block" => OnRecord(IpOf[r])

BlockInv ==
  /\ EvalTypeOK
  /\ "store" \notin Faults =>
       /\ \A ip \in blocked : OnRecord(ip)
       /\ \A r \in Requests : Explained(r)

(* A step of r keeps r explained, and blocks only an address on record. *)
LEMMA ExplainedStep ==
  ASSUME EvalTypeOK, "store" \notin Faults, NEW r \in Requests, Explained(r), ServerStep(r)
  PROVE  Explained(r)' /\ blocked' \subseteq blocked \cup {ip \in Ips : OnRecord(ip)'}
<1>a. /\ pass \in [Requests -> PassType] /\ pass[r] \in PassType /\ config \in Configs
      /\ stage \in [Requests -> Stages] /\ ran \in [Requests -> ActionIds \cup {NoAction}]
      /\ IpOf[r] \in Ips /\ NoAction # "block"
  BY SourceAssumption, ActionAssumption DEF EvalTypeOK
<1>b. \A s : Goto(r, s) => stage'[r] = s
  BY <1>a DEF Goto
<1>c. OnRecord(IpOf[r]) => OnRecord(IpOf[r])'
  BY HitsGrow DEF OnRecord
<1>d. ~Execute(r) => UNCHANGED blocked
  BY HitsGrow
\* A step into a stage where nothing is promised.
<1>e. ASSUME UNCHANGED pass, Goto(r, "failed") \/ Goto(r, "done")
      PROVE  Explained(r)'
  BY <1>b, <1>e DEF Explained, Undecided
<1>1. CASE ServerArrive(r)
  <2>1. stage[r] = "idle" /\ UNCHANGED pass /\ stage'[r] \in {"checking", "done"}
    BY <1>1, <1>b DEF ServerArrive
  <2> QED
    BY <1>d, <1>1, <2>1 DEF Explained, Undecided, ServerArrive, Execute
<1>2. CASE ServerCheckBlocked(r)
  <2>1. stage[r] = "checking" /\ UNCHANGED pass /\ stage'[r] \in {"reading", "done"}
    BY <1>2, <1>b DEF ServerCheckBlocked
  <2> QED
    BY <1>d, <1>2, <2>1 DEF Explained, Undecided, ServerCheckBlocked, Execute
<1>3. CASE ServerBlockCheckFails(r) \/ AnswerEmpty(r) \/ ServerCatch(r) \/ PolicyThrows(r) \/ ExecuteThrows(r)
  <2>1. Explained(r)' /\ UNCHANGED blocked
    BY <1>3, <1>e DEF ServerBlockCheckFails, AnswerEmpty, ServerCatch, PolicyThrows, ExecuteThrows
  <2> QED
    BY <2>1
<1>4. CASE ServerBodySettles(r)
  <2>1. \E body \in BOOLEAN : StartPass(r, "single", body)
    BY <1>4 DEF ServerBodySettles, EvalTypeOK, FactsType
  <2>2. /\ stage'[r] \in {"scanning", "judged"} /\ pass'[r].kind = "single"
        /\ pass'[r].action = NoAction /\ pass'[r].impl = NoAction
    BY <2>1, StartPassEffect DEF PassKinds
  <2>3. UNCHANGED blocked
    BY <1>4 DEF ServerBodySettles
  <2> QED
    BY <1>a, <2>2, <2>3 DEF Explained, Undecided
<1>5. CASE ServerDispatch(r)
  <2>1. /\ stage[r] = "judged" /\ stage'[r] = "executing" /\ ran'[r] = Resolve(r)
        /\ UNCHANGED <<pass, blocked>>
    BY <1>5, <1>a, <1>b DEF ServerDispatch, StartDispatch
  <2>2. ASSUME Resolve(r) = "block" PROVE pass[r].impl = "block"
    BY <2>2, <1>a, LookupType DEF Resolve, NoAction
  <2>3. Resolve(r) = "block" => OnRecord(IpOf[r])
    BY <1>a, <2>1, <2>2 DEF Explained
  <2> QED
    BY <1>c, <2>1, <2>3 DEF Explained, Undecided
<1>6. CASE Inspect(r)
  <2>1. /\ stage[r] = "scanning" /\ stage'[r] \in {"scanning", "scoring", "judged"}
        /\ pass'[r].kind = pass[r].kind /\ UNCHANGED blocked
        /\ pass'[r].action = pass[r].action /\ pass'[r].impl = pass[r].impl
    BY <1>6, InspectEffect
  <2> QED
    BY <1>a, <2>1 DEF Explained, Undecided
<1>7. CASE ReadScore(r)
  <2>1. stage[r] = "scoring" /\ stage'[r] = "deciding" /\ UNCHANGED blocked
    BY <1>7, <1>b DEF ReadScore
  <2>2. /\ pass'[r].kind = pass[r].kind
        /\ pass'[r].action = pass[r].action /\ pass'[r].impl = pass[r].impl
    BY <1>7, <1>a DEF ReadScore, PassType
  <2> QED
    BY <2>1, <2>2 DEF Explained, Undecided
<1>8. CASE Decide(r)
  <2>1. /\ stage[r] = "deciding" /\ UNCHANGED blocked
        /\ pass'[r].kind = pass[r].kind
        /\ stage'[r] = "recording"
    BY <1>8, DecideEffect DEF Explained, Commits
  <2> QED
    BY <2>1 DEF Explained, Undecided
<1>9. CASE Record(r)
  <2>1. /\ stage'[r] = "announcing" /\ UNCHANGED <<pass, ran, blocked>>
    BY <1>9, RecordEffect
  <2>2. hits' = hits \cup {Hit(r)}
    BY <1>9 DEF Record
  <2>3. Hit(r).ip = IpOf[r] /\ Hit(r).respondedWith = pass[r].action
    BY DEF Hit
  <2>4. pass[r].action = "block" => OnRecord(IpOf[r])'
    BY <2>2, <2>3 DEF OnRecord
  <2> QED
    BY <2>1, <2>4 DEF Explained, Undecided
<1>10. CASE Announce(r)
  <2>1. /\ stage[r] = "announcing" /\ stage'[r] = "judged" /\ UNCHANGED blocked
        /\ pass'[r].kind = pass[r].kind /\ pass'[r].action = pass[r].action
        /\ pass'[r].impl \in {pass[r].action, NoAction}
    BY <1>10, AnnounceEffect
  <2> QED
    BY <1>c, <2>1 DEF Explained, Undecided
<1>11. CASE Execute(r)
  <2>1. stage[r] = "executing" /\ UNCHANGED pass /\ Goto(r, "done")
    BY <1>11 DEF Execute
  <2>2. blocked' = blocked \/ (ran[r] = "block" /\ blocked' = blocked \cup {IpOf[r]})
    BY <1>11 DEF Execute
  <2>3. ran[r] = "block" => OnRecord(IpOf[r])'
    BY <1>c, <2>1 DEF Explained
  <2> QED
    BY <1>a, <1>e, <2>1, <2>2, <2>3
<1> QED
  BY <1>1, <1>2, <1>3, <1>4, <1>5, <1>6, <1>7, <1>8, <1>9, <1>10, <1>11 DEF ServerStep, Evaluate

LEMMA BlockInvNext == BlockInv /\ [ServerNext]_evalVars => BlockInv'
<1> SUFFICES ASSUME BlockInv, [ServerNext]_evalVars PROVE BlockInv'
  OBVIOUS
<1>1. EvalTypeOK /\ EvalTypeOK'
  BY ServerNextType DEF BlockInv
<1> SUFFICES ASSUME "store" \notin Faults
             PROVE  /\ \A ip \in blocked' : OnRecord(ip)'
                    /\ \A q \in Requests : Explained(q)'
  BY <1>1 DEF BlockInv
<1>2. CASE \E r \in Requests : ServerStep(r)
  <2>1. PICK r \in Requests : ServerStep(r)
    BY <1>2
  <2>2. \A ip : OnRecord(ip) => OnRecord(ip)'
    BY <1>1, <2>1, HitsGrow DEF OnRecord
  <2>3. Explained(r)' /\ blocked' \subseteq blocked \cup {ip \in Ips : OnRecord(ip)'}
    BY <1>1, <2>1, ExplainedStep DEF BlockInv
  <2>4. ASSUME NEW q \in Requests \ {r} PROVE Explained(q)'
    <3>1. stage'[q] = stage[q] /\ pass'[q] = pass[q] /\ ran'[q] = ran[q]
      BY <1>1, <2>1, ServerFrame
    <3> QED
      BY <2>2, <3>1 DEF BlockInv, Explained
  <2> QED
    BY <2>2, <2>3, <2>4 DEF BlockInv
<1>3. CASE UNCHANGED <<stage, pass, ran, hits>> /\ blocked' \subseteq blocked
  BY <1>3 DEF BlockInv, Explained, OnRecord
<1> QED
  BY <1>2, <1>3 DEF ServerNext, ServerQuiet, Reconfigure, Expire, vars, evalVars

(* A block is explained (core.ts 686-724): while the store works, whatever     *)
(* the policies, the reloads and the interleaving, a blocked address has an    *)
(* incident on record whose response was the block.                            *)
THEOREM BlocksAreExplained == ServerSpec => []BlockOnRecord
<1>1. ServerInit => BlockInv
  BY ServerInitType DEF ServerInit, EvalInit, NewPass, BlockInv, Explained, Undecided
<1>2. BlockInv => BlockOnRecord
  BY DEF BlockInv, BlockOnRecord, OnRecord
<1> QED
  BY <1>1, <1>2, BlockInvNext, PTL DEF ServerSpec

-----------------------------------------------------------------------------
(* What makes ChargedOnce inductive: a request has no incident before its pass *)
(* reaches the store, so what Record adds is new, and it is added to the score *)
(* and to the incidents in one step.                                           *)
ChargeInv ==
  /\ EvalTypeOK
  /\ IsFiniteSet(hits)
  /\ \A r \in Requests :
       /\ pass[r].kind = "single"
       /\ stage[r] \in Undecided \cup {"recording"} => \A h \in hits : h.req # r
  /\ ChargedOnce

LEMMA HitsOf ==
  ASSUME IsFiniteSet(hits), NEW ip
  PROVE  IsFiniteSet({h \in hits : h.ip = ip})
<1>1. {h \in hits : h.ip = ip} \subseteq hits
  OBVIOUS
<1> QED
  BY <1>1, FS_Subset

(* The store adds the request's score to the address, and to no other.         *)
LEMMA RecordCharges ==
  ASSUME ChargeInv, NEW r \in Requests, Record(r)
  PROVE  IsFiniteSet(hits') /\ ChargedOnce'
<1>1. /\ hits \subseteq HitType /\ score \in [Ips -> Nat] /\ IpOf[r] \in Ips
      /\ RequestScore(r) \in Nat /\ IsFiniteSet(hits) /\ ChargedOnce
  BY RequestScoreType, SourceAssumption DEF ChargeInv, EvalTypeOK
<1>2. CASE UNCHANGED <<hits, score>>
  BY <1>1, <1>2 DEF ChargedOnce
<1>3. CASE /\ hits' = hits \cup {Hit(r)}
           /\ score' = [score EXCEPT ![IpOf[r]] = @ + RequestScore(r)]
  <2> DEFINE new == Hit(r)
             before(ip) == {h \in hits : h.ip = ip}
             after(ip) == {h \in hits' : h.ip = ip}
  <2>1. /\ new.ip = IpOf[r] /\ new.score = RequestScore(r) /\ new.req = r
    BY DEF Hit
  <2>2. new \notin hits
    BY <2>1 DEF ChargeInv, Record
  <2> HIDE DEF new
  <2>3. IsFiniteSet(hits') /\ hits' = hits \cup {new}
    <3>1. IsFiniteSet(hits \cup {new})
      BY <1>1, FS_AddElement
    <3> QED
      BY <1>3, <3>1 DEF new
  <2>4. ASSUME NEW ip \in Ips PROVE score'[ip] = HitSum(after(ip))
    <3>1. CASE ip # IpOf[r]
      <4>1. after(ip) = before(ip) /\ score'[ip] = score[ip]
        BY <1>1, <1>3, <2>1, <2>3, <3>1
      <4> QED
        BY <1>1, <4>1 DEF ChargedOnce
    <3>2. CASE ip = IpOf[r]
      <4>1. new \in after(ip) /\ after(ip) \ {new} = before(ip)
        BY <2>1, <2>2, <2>3, <3>2
      <4>2. \A h \in after(ip) : h.score \in Int
        BY <1>1, <2>1, <2>3 DEF HitType
      <4>3. IsFiniteSet(after(ip))
        BY <2>3, FS_Subset
      <4>4. HitSum(after(ip)) = new.score + HitSum(before(ip))
        <5> HIDE DEF before, after
        <5>1. HitSum(after(ip)) = new.score + HitSum(after(ip) \ {new})
          BY <4>1, <4>2, <4>3, HitSumAdds
        <5> QED
          BY <4>1, <5>1
      <4>5. score'[ip] = score[ip] + RequestScore(r) /\ score[ip] = HitSum(before(ip))
        BY <1>1, <1>3, <3>2 DEF ChargedOnce
      <4>6. score[ip] \in Nat
        BY <1>1
      <4> HIDE DEF before, after
      <4> QED
        BY <1>1, <2>1, <4>4, <4>5, <4>6
    <3> QED
      BY <3>1, <3>2
  <2> QED
    BY <2>3, <2>4 DEF ChargedOnce
<1> QED
  BY <1>2, <1>3 DEF Record

(* A step of r starts no second pass, and leaves r without an incident until    *)
(* its pass is past the store.                                                 *)
LEMMA ChargeStep ==
  ASSUME ChargeInv, NEW r \in Requests, ServerStep(r)
  PROVE  /\ pass'[r].kind = "single"
         /\ \A q \in Requests \ {r} : \A h \in hits' \ hits : h.req # q
         /\ stage'[r] \in Undecided \cup {"recording"} => \A h \in hits' : h.req # r
<1>a. /\ pass \in [Requests -> PassType] /\ stage \in [Requests -> Stages]
      /\ EvalTypeOK /\ pass[r].kind = "single"
  BY DEF ChargeInv, EvalTypeOK
<1>b. \A s : Goto(r, s) => stage'[r] = s
  BY <1>a DEF Goto
<1>c. ASSUME pass'[r].kind = "single", UNCHANGED hits,
             \/ stage'[r] \notin Undecided \cup {"recording"}
             \/ stage[r] \in Undecided \cup {"recording"}
      PROVE  /\ pass'[r].kind = "single"
             /\ \A q \in Requests \ {r} : \A h \in hits' \ hits : h.req # q
             /\ stage'[r] \in Undecided \cup {"recording"} => \A h \in hits' : h.req # r
  BY <1>c DEF ChargeInv
<1>1. CASE ServerArrive(r) \/ ServerCheckBlocked(r) \/ ServerBlockCheckFails(r)
  BY <1>1, <1>a, <1>c DEF ServerArrive, ServerCheckBlocked, ServerBlockCheckFails, Undecided
<1>2. CASE AnswerEmpty(r) \/ ServerCatch(r) \/ PolicyThrows(r) \/ ExecuteThrows(r) \/ Execute(r)
  <2>1. UNCHANGED <<pass, hits>> /\ stage'[r] \in {"done", "failed"}
    BY <1>2, <1>b DEF AnswerEmpty, ServerCatch, PolicyThrows, ExecuteThrows, Execute
  <2> QED
    BY <1>a, <1>c, <2>1 DEF Undecided
<1>3. CASE ServerDispatch(r)
  <2>1. UNCHANGED <<pass, hits>> /\ stage'[r] = "executing"
    BY <1>3, <1>b DEF ServerDispatch, StartDispatch
  <2> QED
    BY <1>a, <1>c, <2>1 DEF Undecided
<1>4. CASE ServerBodySettles(r)
  <2>1. \E body \in BOOLEAN : StartPass(r, "single", body)
    BY <1>4, <1>a DEF ServerBodySettles, EvalTypeOK, FactsType
  <2>2. pass'[r].kind = "single"
    BY <1>a, <2>1, StartPassEffect DEF PassKinds
  <2>3. stage[r] = "reading" /\ UNCHANGED hits
    BY <1>4 DEF ServerBodySettles
  <2> QED
    BY <1>c, <2>2, <2>3 DEF Undecided
<1>5. CASE Inspect(r)
  <2>1. stage[r] = "scanning" /\ pass'[r].kind = pass[r].kind /\ UNCHANGED hits
    BY <1>5, <1>a, InspectEffect
  <2> QED
    BY <1>a, <1>c, <2>1 DEF Undecided
<1>6. CASE ReadScore(r)
  <2>1. stage[r] = "scoring" /\ pass'[r].kind = pass[r].kind /\ UNCHANGED hits
    BY <1>6, <1>a DEF ReadScore, PassType
  <2> QED
    BY <1>a, <1>c, <2>1 DEF Undecided
<1>7. CASE Decide(r)
  <2>1. stage[r] = "deciding" /\ pass'[r].kind = pass[r].kind /\ UNCHANGED hits
    BY <1>7, <1>a, DecideEffect
  <2> QED
    BY <1>a, <1>c, <2>1 DEF Undecided
<1>8. CASE Record(r)
  <2>1. stage'[r] = "announcing" /\ UNCHANGED pass
    BY <1>8, <1>a, RecordEffect
  <2>2. \A h \in hits' \ hits : h.req = r
    BY <1>8 DEF Record, Hit
  <2> QED
    BY <1>a, <2>1, <2>2 DEF Undecided
<1>9. CASE Announce(r)
  <2>1. stage'[r] = "judged" /\ pass'[r].kind = pass[r].kind /\ UNCHANGED hits
    BY <1>9, <1>a, AnnounceEffect
  <2> QED
    BY <1>a, <1>c, <2>1 DEF Undecided
<1> QED
  BY <1>1, <1>2, <1>3, <1>4, <1>5, <1>6, <1>7, <1>8, <1>9 DEF ServerStep, Evaluate

LEMMA ChargeInvNext == ChargeInv /\ [ServerNext]_evalVars => ChargeInv'
<1> SUFFICES ASSUME ChargeInv, [ServerNext]_evalVars PROVE ChargeInv'
  OBVIOUS
<1>1. EvalTypeOK /\ EvalTypeOK'
  BY ServerNextType DEF ChargeInv
<1>2. CASE \E r \in Requests : ServerStep(r)
  <2>1. PICK r \in Requests : ServerStep(r)
    BY <1>2
  <2>2. IsFiniteSet(hits') /\ ChargedOnce'
    <3>1. CASE Record(r)
      BY <3>1, RecordCharges
    <3>2. CASE ~Record(r)
      BY <1>1, <2>1, <3>2, HitsGrow DEF ChargeInv, ChargedOnce
    <3> QED
      BY <3>1, <3>2
  <2>3. ASSUME NEW q \in Requests
        PROVE  /\ pass'[q].kind = "single"
               /\ stage'[q] \in Undecided \cup {"recording"} => \A h \in hits' : h.req # q
    <3>1. CASE q = r
      BY <2>1, <3>1, ChargeStep
    <3>2. CASE q # r
      <4>1. stage'[q] = stage[q] /\ pass'[q] = pass[q]
        BY <1>1, <2>1, <3>2, ServerFrame
      <4>2. \A h \in hits' \ hits : h.req # q
        BY <2>1, <3>2, ChargeStep
      <4> QED
        BY <4>1, <4>2 DEF ChargeInv
    <3> QED
      BY <3>1, <3>2
  <2> QED
    BY <1>1, <2>2, <2>3 DEF ChargeInv
<1>3. CASE UNCHANGED <<stage, pass, hits, score>>
  BY <1>1, <1>3 DEF ChargeInv, ChargedOnce
<1> QED
  BY <1>2, <1>3 DEF ServerNext, ServerQuiet, Reconfigure, Expire, vars, evalVars

(* Concurrent requests neither lose nor double a charge (core.ts 708-715): the  *)
(* score of an address is the sum of the scores of its recorded incidents,      *)
(* however many requests of it interleave and whatever fails or is reloaded.    *)
THEOREM NoChargeIsLostOrDoubled == ServerSpec => []ChargedOnce
<1>1. ServerInit => ChargeInv
  <2> SUFFICES ASSUME ServerInit PROVE ChargeInv
    OBVIOUS
  <2>1. IsFiniteSet(hits) /\ hits = {}
    BY FS_EmptySet DEF ServerInit, EvalInit
  <2>2. ChargedOnce
    <3>1. ASSUME NEW ip \in Ips PROVE {h \in hits : h.ip = ip} = {} /\ score[ip] = 0
      BY <2>1 DEF ServerInit, EvalInit
    <3> QED
      BY <3>1, HitSumEmpty DEF ChargedOnce
  <2> QED
    BY ServerInitType, <2>1, <2>2 DEF ServerInit, EvalInit, NewPass, ChargeInv
<1>2. ChargeInv => ChargedOnce
  BY DEF ChargeInv
<1> QED
  BY <1>1, <1>2, ChargeInvNext, PTL DEF ServerSpec
=============================================================================
