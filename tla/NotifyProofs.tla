---------------------------- MODULE NotifyProofs ----------------------------
(* What Notify guarantees for every set of hooks, sockets, events and caps.  *)
EXTENDS Notify, DataTheorems

(* ------------------------------- the socket ------------------------------ *)

SocketInv ==
  /\ tcp \in Sockets \union {NoSocket} /\ sock \in [Sockets -> SocketStates]
  /\ ready \in BOOLEAN /\ reconnect \in BOOLEAN /\ sinkClosed \in BOOLEAN /\ started \in BOOLEAN
  /\ SocketOwned
  /\ AlwaysAWayBack

LEMMA SpareIsFree ==
  ASSUME NEW s \in Sockets, sock[s] = "none"
  PROVE  Spare \in Sockets /\ sock[Spare] = "none"
BY DEF Spare

(* Dialling, with whatever else the step does, keeps the one usable socket. *)
LEMMA DialKeeps ==
  ASSUME SocketInv, Dial, ready' = ready
  PROVE  /\ tcp' \in Sockets \union {NoSocket} /\ sock' \in [Sockets -> SocketStates]
         /\ SocketOwned'
         /\ ~sinkClosed => tcp' # NoSocket
         /\ tcp # NoSocket \/ sinkClosed => tcp' = tcp
<1>1. CASE ~sinkClosed /\ tcp = NoSocket
  <2>1. Spare \in Sockets /\ sock[Spare] = "none"
    BY <1>1, SpareIsFree DEF Dial
  <2>2. tcp' = Spare /\ sock' = [sock EXCEPT ![Spare] = "dialling"]
    BY <1>1 DEF Dial
  <2>3. \A s \in Sockets : ~Usable(s)
    BY <1>1, SyslogAssumption DEF SocketInv, SocketOwned
  <2>4. ~ready
    BY <1>1 DEF SocketInv, SocketOwned
  <2>5. sock' \in [Sockets -> SocketStates]
    BY <2>1, <2>2 DEF SocketInv, SocketStates
  <2>6. SocketOwned'
    BY <2>1, <2>2, <2>3, <2>4, SyslogAssumption DEF SocketInv, SocketOwned, Usable
  <2> QED
    BY <1>1, <2>1, <2>2, <2>5, <2>6, SyslogAssumption
<1>2. CASE ~(~sinkClosed /\ tcp = NoSocket)
  <2>1. UNCHANGED <<tcp, sock>>
    BY <1>2 DEF Dial
  <2> QED
    BY <1>2, <2>1 DEF SocketInv, SocketOwned, Usable
<1> QED
  BY <1>1, <1>2

(* Tearing down leaves no usable socket, if the event at hand only made one  *)
(* socket unusable.                                                          *)
LEMMA TeardownKeeps ==
  ASSUME SocketInv, NEW s \in Sockets, NEW st \in {"none", "doomed"},
         Teardown([sock EXCEPT ![s] = st])
  PROVE  SocketInv'
<1> DEFINE after == [sock EXCEPT ![s] = st]
<1>1. /\ tcp' = NoSocket /\ sock' = Doomed(after)
      /\ ready' = FALSE /\ reconnect' = (reconnect \/ Rearmed)
      /\ UNCHANGED <<sinkClosed, started>>
  BY DEF Teardown
<1>2. after \in [Sockets -> SocketStates] /\ \A t \in Sockets : after[t] = IF t = s THEN st ELSE sock[t]
  BY DEF SocketInv, SocketStates
<1>3. sock' \in [Sockets -> SocketStates]
  BY <1>1, <1>2 DEF Doomed, SocketStates
<1>4. \A t \in Sockets : ~(sock'[t] \in {"dialling", "open", "ended"})
  BY <1>1, <1>2, SyslogAssumption DEF Doomed, SocketInv, SocketOwned, Usable
<1>5. SocketOwned'
  BY <1>1, <1>4, SyslogAssumption DEF SocketOwned, Usable
<1>6. AlwaysAWayBack' /\ reconnect' \in BOOLEAN
  BY <1>1 DEF AlwaysAWayBack, Rearmed, SocketInv
<1> QED
  BY <1>1, <1>3, <1>5, <1>6 DEF SocketInv

SyslogAct == Progress \/ Trouble \/ Send \/ CloseSink \/ UNCHANGED syslogVars

(* Every step of the sink keeps the socket invariant. *)
LEMMA SocketStep == SocketInv /\ SyslogAct => SocketInv'
<1> SUFFICES ASSUME SocketInv, SyslogAct PROVE SocketInv'
  OBVIOUS
<1>1. CASE StartSink
  BY <1>1, DialKeeps DEF StartSink, SocketInv, AlwaysAWayBack
<1>2. CASE Send
  <2>1. CASE sinkClosed
    BY <1>2, <2>1 DEF Send, syslogVars, SocketInv, SocketOwned, Usable, AlwaysAWayBack
  <2>2. CASE ~sinkClosed
    BY <1>2, <2>2, DialKeeps DEF Send, SocketInv, AlwaysAWayBack
  <2> QED
    BY <2>1, <2>2
<1>3. CASE TimerFires
  BY <1>3, DialKeeps DEF TimerFires, SocketInv, AlwaysAWayBack
<1>4. ASSUME NEW s \in Sockets, Connects(s) PROVE SocketInv'
  <2>1. tcp = s
    BY <1>4 DEF Connects, SocketInv, SocketOwned, Usable
  <2>2. sock' \in [Sockets -> SocketStates] /\ SocketOwned'
    BY <1>4, <2>1, SyslogAssumption DEF Connects, SocketInv, SocketOwned, Usable, SocketStates
  <2> QED
    BY <1>4, <2>2 DEF Connects, SocketInv, AlwaysAWayBack
<1>5. ASSUME NEW s \in Sockets, Errors(s) PROVE SocketInv'
  BY <1>5, TeardownKeeps DEF Errors
<1>6. ASSUME NEW s \in Sockets, HangsUp(s) PROVE SocketInv'
  <2>1. tcp = s
    BY <1>6 DEF HangsUp, SocketInv, SocketOwned, Usable
  <2>2. sock' \in [Sockets -> SocketStates] /\ SocketOwned'
    BY <1>6, <2>1, SyslogAssumption DEF HangsUp, SocketInv, SocketOwned, Usable, SocketStates
  <2> QED
    BY <1>6, <2>2 DEF HangsUp, SocketInv, AlwaysAWayBack
<1>7. ASSUME NEW s \in Sockets, Closes(s) PROVE SocketInv'
  BY <1>7, TeardownKeeps DEF Closes
<1>8. CASE Stalls
  BY <1>8 DEF Stalls, SocketInv, SocketOwned, Usable, AlwaysAWayBack
<1>9. CASE CloseSink
  <2>1. sock' \in [Sockets -> SocketStates]
    BY <1>9 DEF CloseSink, Doomed, SocketInv, SocketStates
  <2>2. \A t \in Sockets : ~(sock'[t] \in {"dialling", "open", "ended"})
    BY <1>9, SyslogAssumption DEF CloseSink, Doomed, SocketInv, SocketOwned, Usable
  <2> QED
    BY <1>9, <2>1, <2>2, SyslogAssumption DEF CloseSink, SocketInv, SocketOwned, Usable, AlwaysAWayBack
<1>10. CASE UNCHANGED syslogVars
  BY <1>10 DEF syslogVars, SocketInv, SocketOwned, Usable, AlwaysAWayBack
<1> QED
  BY <1>1, <1>2, <1>3, <1>4, <1>5, <1>6, <1>7, <1>8, <1>9, <1>10 DEF SyslogAct, Progress, Trouble

(* Whatever the hub and the webhooks do, the sink takes one step of its own  *)
(* or none.                                                                  *)
LEMMA NextIsSyslogAct == [Next]_vars => SyslogAct
BY DEF Next, vars, Publish, WebStep, CollectorStep, Close, TimePasses, SyslogAct

\* The sink never leaks a socket nor trusts a dead one, whatever 'close'
\* events are still on their way.
THEOREM OneSocket == Spec => []SocketOwned
<1>1. Init => SocketInv
  BY SyslogAssumption DEF Init, SyslogInit, SocketInv, SocketOwned, AlwaysAWayBack, Usable, SocketStates
<1>2. SocketInv /\ [Next]_vars => SocketInv'
  BY SocketStep, NextIsSyslogAct
<1> QED
  BY <1>1, <1>2, PTL DEF Spec, SocketInv

\* A started sink always has a socket or a timer, a closed one neither.
THEOREM WayBack == Spec => []AlwaysAWayBack
<1>1. Init => SocketInv
  BY SyslogAssumption DEF Init, SyslogInit, SocketInv, SocketOwned, AlwaysAWayBack, Usable, SocketStates
<1>2. SocketInv /\ [Next]_vars => SocketInv'
  BY SocketStep, NextIsSyslogAct
<1> QED
  BY <1>1, <1>2, PTL DEF Spec, SocketInv

(* ------------------------------ the webhooks ----------------------------- *)

PostType == [hook : Hooks, what : {"alert", "summary"} \X Nat, attempt : Nat,
             phase : {"sent", "backoff"}]

\* Deliveries are told apart by their hook and what they carry, an alert by the
\* event's number, a summary by a time before the hook's next one.
Distinct ==
  /\ \A p, q \in posts : p.hook = q.hook /\ p.what = q.what => p = q
  /\ \A p \in posts :
       IF Counted(p) THEN p.what[2] <= Len(history)
       ELSE /\ p.what[2] <= now
            /\ due[p.hook] # NoTimer => p.what[2] < due[p.hook]

SlotsInv ==
  /\ inFlight \in [Hooks -> Nat]
  /\ \A h \in Hooks : IsFiniteSet(Taking(h))
  /\ SlotsAreDeliveries

WebInv ==
  /\ now \in Nat
  /\ \E S : history \in Seq(S)
  /\ held \in [Hooks -> Nat] /\ due \in [Hooks -> Nat \union {NoTimer}]
  /\ posts \in SUBSET PostType
  /\ Distinct
  /\ SlotsInv
  /\ SummaryIsComing

LEMMA SummaryAfterType ==
  ASSUME NEW h \in Hooks
  PROVE  SummaryAfter(h) \in Nat \ {0}
<1> DEFINE a == MinSummary
           b == DedupeOf[h]
           c == ThrottleOf[h].window
<1>1. a \in Nat \ {0} /\ b \in Nat /\ c \in Nat
  BY WebhookAssumption
<1> HIDE DEF a, b, c
<1>2. \E x \in {a, b, c} : \A y \in {a, b, c} : x >= y
  BY <1>1
<1>3. Max({a, b, c}) \in Nat \ {0}
  BY <1>1, <1>2 DEF Max
<1> QED
  BY <1>3 DEF SummaryAfter, a, b, c

(* One more event on record. *)
LEMMA HistoryGrows ==
  ASSUME NEW S, history \in Seq(S), NEW r, history' = Append(history, r)
  PROVE  Len(history) \in Nat /\ Len(history') = Len(history) + 1 /\ \E T : history' \in Seq(T)
<1>1. history \in Seq(S \union {r})
  BY SMT
<1> QED
  BY <1>1, AppendProperties, LenProperties

(* A delivery that ends frees the slot it held, and only that. *)
LEMMA EndsKeeps ==
  ASSUME WebInv, NEW p \in posts, Ends(p), UNCHANGED <<now, history, held, due, hubOpen>>
  PROVE  WebInv'
<1>1. posts' = posts \ {p} /\ inFlight' = Freed(p) /\ p \in PostType /\ p.hook \in Hooks
  BY DEF Ends, WebInv, PostType
<1>2. posts' \in SUBSET PostType /\ Distinct'
  BY <1>1 DEF WebInv, Distinct, Counted
<1>3. ASSUME NEW h \in Hooks
      PROVE  /\ IsFiniteSet(Taking(h)') /\ inFlight'[h] = Cardinality(Taking(h)')
             /\ inFlight'[h] \in Nat
  <2>1. Taking(h)' = Taking(h) \ {p}
    BY <1>1 DEF Taking, Counted
  <2>2. /\ IsFiniteSet(Taking(h)')
        /\ Cardinality(Taking(h)') = IF p \in Taking(h) THEN Cardinality(Taking(h)) - 1
                                                       ELSE Cardinality(Taking(h))
    <3>1. IsFiniteSet(Taking(h))
      BY DEF WebInv, SlotsInv
    <3> HIDE DEF Taking
    <3> QED
      BY <2>1, <3>1, FS_RemoveElement
  <2>3. p \in Taking(h) <=> (p.hook = h /\ Counted(p))
    BY DEF Taking
  <2>4. inFlight[h] = Cardinality(Taking(h)) /\ inFlight \in [Hooks -> Nat]
    BY DEF WebInv, SlotsInv, SlotsAreDeliveries
  <2>5. inFlight'[h] = IF p.hook = h /\ Counted(p) THEN inFlight[h] - 1 ELSE inFlight[h]
    BY <1>1, <2>4 DEF Freed
  <2>6. inFlight'[h] = Cardinality(Taking(h)')
    BY <2>2, <2>3, <2>4, <2>5
  <2> QED
    BY <2>2, <2>6, FS_CardinalityType
<1>4. inFlight' = [h \in Hooks |-> inFlight'[h]]
  BY <1>1 DEF Freed, WebInv, SlotsInv
<1>5. SlotsInv'
  BY <1>3, <1>4 DEF SlotsInv, SlotsAreDeliveries
<1> QED
  BY <1>2, <1>5 DEF WebInv, SummaryIsComing

(* A delivery that fails or is tried again keeps its slot. *)
LEMMA ChangeKeeps ==
  ASSUME WebInv, NEW p \in posts, NEW q \in PostType, q.hook = p.hook, q.what = p.what,
         posts' = (posts \ {p}) \union {q},
         UNCHANGED <<now, history, held, due, hubOpen, inFlight>>
  PROVE  WebInv'
<1>1. posts' \in SUBSET PostType
  BY DEF WebInv
<1>2. Distinct'
  BY DEF WebInv, Distinct, Counted
<1>3. ASSUME NEW h \in Hooks
      PROVE  IsFiniteSet(Taking(h)') /\ inFlight[h] = Cardinality(Taking(h)')
  <2>1. IsFiniteSet(Taking(h)) /\ inFlight[h] = Cardinality(Taking(h)) /\ inFlight[h] \in Nat
    BY DEF WebInv, SlotsInv, SlotsAreDeliveries
  <2>2. CASE p.hook = h /\ Counted(p)
    <3>1. Taking(h)' = (Taking(h) \ {p}) \union {q} /\ p \in Taking(h)
      BY <2>2 DEF Taking, Counted
    <3>2. q \notin Taking(h) \ {p}
      BY DEF Taking, WebInv, Distinct
    <3>3. IsFiniteSet(Taking(h) \ {p}) /\ Cardinality(Taking(h) \ {p}) = Cardinality(Taking(h)) - 1
      BY <2>1, <3>1, FS_RemoveElement
    <3> DEFINE S == Taking(h) \ {p}
    <3>4. IsFiniteSet(S) /\ q \notin S /\ Taking(h)' = S \union {q}
      BY <3>1, <3>2, <3>3
    <3> HIDE DEF S
    <3>5. IsFiniteSet(S \union {q}) /\ Cardinality(S \union {q}) = Cardinality(S) + 1
      BY <3>4, FS_AddElement
    <3>6. IsFiniteSet(Taking(h)') /\ Cardinality(Taking(h)') = Cardinality(S) + 1
      BY <3>4, <3>5
    <3> QED
      BY <2>1, <3>3, <3>6 DEF S
  <2>3. CASE ~(p.hook = h /\ Counted(p))
    <3>1. Taking(h)' = Taking(h)
      BY <2>3 DEF Taking, Counted
    <3> QED
      BY <2>1, <3>1
  <2> QED
    BY <2>2, <2>3
<1>4. SlotsInv'
  BY <1>3 DEF SlotsInv, SlotsAreDeliveries, WebInv
<1> QED
  BY <1>1, <1>2, <1>4 DEF WebInv, SummaryIsComing

LEMMA DeliveringKeeps ==
  ASSUME WebInv, Delivering, UNCHANGED <<now, history, hubOpen>>
  PROVE  WebInv'
<1>1. PICK p \in posts : Answered(p) \/ Fails(p) \/ Retries(p)
  BY DEF Delivering
<1>2. p \in PostType
  BY DEF WebInv
<1>3. CASE Answered(p)
  BY <1>3, EndsKeeps DEF Answered
<1>4. CASE Fails(p)
  <2>1. CASE TriesAgain(p)
    <3> DEFINE q == [p EXCEPT !.phase = "backoff"]
    <3>1. q \in PostType /\ q.hook = p.hook /\ q.what = p.what
      BY <1>2 DEF PostType
    <3>2. posts' = (posts \ {p}) \union {q} /\ UNCHANGED <<inFlight, held, due>>
      BY <1>4, <2>1 DEF Fails
    <3> QED
      BY <3>1, <3>2, ChangeKeeps
  <2>2. CASE ~TriesAgain(p)
    BY <1>4, <2>2, EndsKeeps DEF Fails
  <2> QED
    BY <2>1, <2>2
<1>5. CASE Retries(p)
  <2> DEFINE q == [p EXCEPT !.phase = "sent", !.attempt = NextAttempt(p)]
  <2> DEFINE n == NextAttempt(p)
  <2>0. n \in Nat
    BY <1>2 DEF PostType, NextAttempt
  <2> HIDE DEF n
  <2>1. q \in PostType /\ q.hook = p.hook /\ q.what = p.what
    BY <1>2, <2>0 DEF PostType, n
  <2>2. posts' = (posts \ {p}) \union {q} /\ UNCHANGED <<inFlight, held, due>>
    BY <1>5 DEF Retries
  <2> QED
    BY <2>1, <2>2, ChangeKeeps
<1> QED
  BY <1>1, <1>3, <1>4, <1>5

(* A summary holds no slot, and leaves nothing to report. *)
LEMMA SummarisingKeeps ==
  ASSUME WebInv, Summarising, UNCHANGED <<now, history, hubOpen>>
  PROVE  WebInv'
<1>1. PICK h \in Hooks : SummaryFires(h)
  BY DEF Summarising
<1>2. /\ due[h] # NoTimer /\ now >= due[h] /\ due[h] \in Nat
      /\ due' = [due EXCEPT ![h] = NoTimer] /\ held' = [held EXCEPT ![h] = 0]
      /\ UNCHANGED inFlight
  BY <1>1 DEF SummaryFires, HeldAfterSummary, WebInv
<1>3. held' \in [Hooks -> Nat] /\ due' \in [Hooks -> Nat \union {NoTimer}]
  BY <1>2 DEF WebInv
<1>4. SummaryIsComing'
  BY <1>2 DEF SummaryIsComing, WebInv
<1>5. ASSUME NEW q \in posts', q \notin posts
      PROVE  /\ q \in PostType /\ q.hook = h /\ q.what = <<"summary", now>> /\ ~Counted(q)
  BY <1>1, <1>5 DEF SummaryFires, Posts, PostType, Counted, WebInv
<1>6. posts \subseteq posts'
  BY <1>1 DEF SummaryFires
<1>7. posts' \in SUBSET PostType
  BY <1>5 DEF WebInv
<1>8. ASSUME NEW p \in posts, p.hook = h PROVE p.what # <<"summary", now>>
  BY <1>2, <1>8 DEF WebInv, Distinct, Counted, PostType
<1>9. \A p, q \in posts' : p.hook = q.hook /\ p.what = q.what => p = q
  <2> SUFFICES ASSUME NEW p \in posts', NEW q \in posts', p.hook = q.hook, p.what = q.what
               PROVE  p = q
    OBVIOUS
  <2>1. CASE p \in posts /\ q \in posts
    BY <2>1 DEF WebInv, Distinct
  <2>2. p \in posts <=> q \in posts
    BY <1>5, <1>8
  <2>3. CASE p \notin posts /\ q \notin posts
    BY <1>1, <2>3 DEF SummaryFires, Posts
  <2> QED
    BY <2>1, <2>2, <2>3
<1>10. \A p \in posts' : IF Counted(p) THEN p.what[2] <= Len(history)'
                         ELSE /\ p.what[2] <= now'
                              /\ due'[p.hook] # NoTimer => p.what[2] < due'[p.hook]
  <2>1. ASSUME NEW p \in posts', p \in posts
        PROVE  IF Counted(p) THEN p.what[2] <= Len(history)
               ELSE p.what[2] <= now /\ (due'[p.hook] # NoTimer => p.what[2] < due'[p.hook])
    BY <1>2, <2>1 DEF WebInv, Distinct, PostType
  <2>2. ASSUME NEW p \in posts', p \notin posts
        PROVE  ~Counted(p) /\ p.what[2] <= now /\ due'[p.hook] = NoTimer
    BY <1>2, <1>5, <2>2 DEF WebInv
  <2> QED
    BY <2>1, <2>2
<1>11. Distinct'
  BY <1>9, <1>10 DEF Distinct, Counted
<1>12. \A g \in Hooks : Taking(g)' = Taking(g)
  BY <1>5, <1>6 DEF Taking, Counted
<1>13. SlotsInv'
  BY <1>2, <1>12 DEF SlotsInv, SlotsAreDeliveries, WebInv
<1> QED
  BY <1>3, <1>4, <1>7, <1>11, <1>13 DEF WebInv

(* A dispatch starts at most one delivery per hook, under a number of its    *)
(* own, and whatever it holds back has a timer.                              *)
LEMMA DispatchKeeps ==
  ASSUME WebInv, NEW e, Dispatch(e, Len(history) + 1), NEW r, history' = Append(history, r),
         UNCHANGED <<now, hubOpen>>
  PROVE  WebInv'
<1> DEFINE n == Len(history) + 1
           new(h) == [hook |-> h, what |-> <<"alert", n>>, attempt |-> 1, phase |-> "sent"]
<1>1. Len(history) \in Nat /\ Len(history') = n /\ \E T : history' \in Seq(T)
  BY HistoryGrows DEF WebInv
<1>2. Started(e) \subseteq Hooks /\ HeldBack(e) \subseteq Hooks
  BY DEF Started, Asking, Free, HeldBack
<1>3. posts' = posts \union {new(h) : h \in {g \in Started(e) : RetriesOf[g] > 0}}
  BY DEF Dispatch, Posts
<1>4. \A h \in Hooks : new(h) \in PostType /\ Counted(new(h)) /\ new(h).hook = h /\ new(h).what[2] = n
  BY <1>1 DEF PostType, Counted
<1>5. \A p \in posts : Counted(p) => p.what[2] \in Nat /\ p.what[2] < n
  BY <1>1 DEF WebInv, Distinct, PostType
<1>6. \A q \in posts' : q \in posts \/ \E h \in Hooks : q = new(h) /\ h \in Started(e) /\ RetriesOf[h] > 0
  BY <1>2, <1>3
<1>7. \A h \in Hooks : new(h) \notin posts
  BY <1>1, <1>4, <1>5
<1> HIDE DEF new
<1>8. posts' \in SUBSET PostType
  BY <1>4, <1>6 DEF WebInv
<1>9. /\ held' \in [Hooks -> Nat]
      /\ due' \in [Hooks -> Nat \union {NoTimer}]
      /\ \A h \in Hooks : due'[h] = due[h] \/ (due[h] = NoTimer /\ due'[h] \in Nat /\ due'[h] > now)
  <2>1. held' \in [Hooks -> Nat]
    BY DEF Dispatch, WebInv
  <2>2. due' = [h \in Hooks |-> IF h \in HeldBack(e) /\ due[h] = NoTimer
                               THEN now + SummaryAfter(h) ELSE due[h]]
    BY DEF Dispatch, Timers
  <2>3. ASSUME NEW h \in Hooks
        PROVE  /\ due'[h] \in Nat \union {NoTimer}
               /\ due'[h] = due[h] \/ (due[h] = NoTimer /\ due'[h] \in Nat /\ due'[h] > now)
    <3>1. now + SummaryAfter(h) \in Nat /\ now + SummaryAfter(h) > now
      BY SummaryAfterType DEF WebInv
    <3> QED
      BY <2>2, <3>1 DEF WebInv
  <2> QED
    BY <2>1, <2>2, <2>3
<1>10. SummaryIsComing'
  <2> SUFFICES ASSUME hubOpen, NEW h \in Hooks, held'[h] > 0 PROVE due'[h] # NoTimer
    BY DEF SummaryIsComing
  <2>1. CASE h \in HeldBack(e)
    BY <2>1, SummaryAfterType, WebhookAssumption DEF Dispatch, Timers, WebInv
  <2>2. CASE h \notin HeldBack(e)
    BY <1>9, <2>2, WebhookAssumption DEF Dispatch, WebInv, SummaryIsComing
  <2> QED
    BY <2>1, <2>2
<1>11. \A p, q \in posts' : p.hook = q.hook /\ p.what = q.what => p = q
  <2> SUFFICES ASSUME NEW p \in posts', NEW q \in posts', p.hook = q.hook, p.what = q.what
               PROVE  p = q
    OBVIOUS
  <2>1. CASE p \in posts /\ q \in posts
    BY <2>1 DEF WebInv, Distinct
  <2>2. Counted(p) <=> Counted(q)
    BY DEF Counted
  <2>3. p \in posts <=> q \in posts
    BY <1>1, <1>4, <1>5, <1>6, <2>2
  <2>4. CASE p \notin posts /\ q \notin posts
    BY <1>4, <1>6, <2>4
  <2> QED
    BY <2>1, <2>3, <2>4
<1>12. \A p \in posts' : IF Counted(p) THEN p.what[2] <= n
                         ELSE p.what[2] <= now /\ (due'[p.hook] # NoTimer => p.what[2] < due'[p.hook])
  <2>1. ASSUME NEW p \in posts
        PROVE  IF Counted(p) THEN p.what[2] <= n
               ELSE p.what[2] <= now /\ (due'[p.hook] # NoTimer => p.what[2] < due'[p.hook])
    <3>1. p.hook \in Hooks /\ p.what[2] \in Nat
      BY DEF WebInv, PostType
    <3>2. Counted(p) => p.what[2] <= n
      BY <1>1, <1>5, <3>1
    <3>3. ~Counted(p) => p.what[2] <= now /\ (due[p.hook] # NoTimer => p.what[2] < due[p.hook])
      BY DEF WebInv, Distinct
    <3>4. now \in Nat /\ due[p.hook] \in Nat \union {NoTimer}
      BY <3>1 DEF WebInv
    <3>5. ~Counted(p) /\ due'[p.hook] # NoTimer => p.what[2] < due'[p.hook]
      BY <1>9, <3>1, <3>3, <3>4
    <3> QED
      BY <3>2, <3>3, <3>5
  <2> QED
    BY <1>1, <1>4, <1>6, <2>1
<1>13. Distinct'
  BY <1>1, <1>11, <1>12 DEF Distinct, Counted
<1>14. ASSUME NEW h \in Hooks
       PROVE  /\ IsFiniteSet(Taking(h)') /\ inFlight'[h] = Cardinality(Taking(h)')
              /\ inFlight'[h] \in Nat
  <2>1. IsFiniteSet(Taking(h)) /\ inFlight[h] = Cardinality(Taking(h)) /\ inFlight[h] \in Nat
    BY DEF WebInv, SlotsInv, SlotsAreDeliveries
  <2>2. CASE h \in Started(e) /\ RetriesOf[h] > 0
    <3>1. Taking(h)' = Taking(h) \union {new(h)}
      BY <1>3, <1>4, <1>6, <2>2 DEF Taking, Counted
    <3>2. new(h) \notin Taking(h)
      BY <1>7 DEF Taking
    <3>3. inFlight'[h] = inFlight[h] + 1
      BY <2>2 DEF Dispatch
    <3> DEFINE S == Taking(h)
    <3> HIDE DEF S
    <3>4. IsFiniteSet(S \union {new(h)}) /\ Cardinality(S \union {new(h)}) = Cardinality(S) + 1
      BY <2>1, <3>2, FS_AddElement DEF S
    <3> QED
      BY <2>1, <3>1, <3>3, <3>4 DEF S
  <2>3. CASE ~(h \in Started(e) /\ RetriesOf[h] > 0)
    <3>1. Taking(h)' = Taking(h)
      BY <1>3, <1>4, <1>6, <2>3 DEF Taking, Counted
    <3>2. inFlight'[h] = inFlight[h]
      BY <2>1, <2>3 DEF Dispatch
    <3> QED
      BY <2>1, <3>1, <3>2
  <2> QED
    BY <2>2, <2>3
<1>15. SlotsInv'
  <2>1. inFlight' = [h \in Hooks |-> inFlight'[h]]
    BY DEF Dispatch
  <2> QED
    BY <1>14, <2>1 DEF SlotsInv, SlotsAreDeliveries
<1> QED
  BY <1>1, <1>8, <1>9, <1>10, <1>13, <1>15 DEF WebInv

LEMMA WebStepKeeps == WebInv /\ [Next]_vars => WebInv'
<1> SUFFICES ASSUME WebInv, [Next]_vars PROVE WebInv'
  OBVIOUS
<1>1. ASSUME NEW e, Publish(e) PROVE WebInv'
  <2>1. PICK r : history' = Append(history, r)
    BY <1>1 DEF Publish
  <2>2. UNCHANGED <<now, hubOpen>>
    BY <1>1 DEF Publish, Emit
  <2>3. CASE Reaches("webhooks", e)
    BY <1>1, <2>1, <2>2, <2>3, DispatchKeeps DEF Publish
  <2>4. CASE UNCHANGED webVars
    <3>1. Len(history) \in Nat /\ Len(history') = Len(history) + 1 /\ \E T : history' \in Seq(T)
      BY <2>1, HistoryGrows DEF WebInv
    <3>2. Distinct'
      BY <2>2, <2>4, <3>1 DEF WebInv, Distinct, Counted, webVars, PostType
    <3>3. SlotsInv' /\ SummaryIsComing'
      BY <2>2, <2>4 DEF WebInv, SlotsInv, SlotsAreDeliveries, Taking, Counted, SummaryIsComing, webVars
    <3> QED
      BY <2>2, <2>4, <3>1, <3>2, <3>3 DEF WebInv, webVars
  <2> QED
    BY <1>1, <2>3, <2>4 DEF Publish
<1>2. CASE WebStep
  BY <1>2, DeliveringKeeps, SummarisingKeeps DEF WebStep, hubVars
<1>3. CASE Close
  <2>1. /\ UNCHANGED <<now, history, posts, inFlight, held>>
        /\ hubOpen' = FALSE
        /\ due' \in [Hooks -> Nat \union {NoTimer}]
        /\ \A h \in Hooks : due'[h] = NoTimer \/ due'[h] = due[h]
    BY <1>3 DEF Close, CloseHub, Detach, webVars, WebInv
  <2>2. \A p \in posts : p.hook \in Hooks
    BY DEF WebInv, PostType
  <2>3. Distinct'
    BY <2>1, <2>2 DEF WebInv, Distinct, Counted
  <2>4. SlotsInv' /\ SummaryIsComing'
    BY <2>1 DEF WebInv, SlotsInv, SlotsAreDeliveries, Taking, Counted, SummaryIsComing
  <2> QED
    BY <2>1, <2>3, <2>4 DEF WebInv
<1>4. CASE TimePasses
  <2>1. now' = now + 1 /\ now' \in Nat /\ UNCHANGED <<webVars, history, hubOpen>>
    BY <1>4 DEF TimePasses, Tick, hubVars, WebInv
  <2>2. \A p \in posts : p.what[2] \in Nat
    BY DEF WebInv, PostType
  <2>3. Distinct'
    BY <2>1, <2>2 DEF WebInv, Distinct, Counted, webVars
  <2>4. SlotsInv' /\ SummaryIsComing'
    BY <2>1 DEF WebInv, SlotsInv, SlotsAreDeliveries, Taking, Counted, SummaryIsComing, webVars
  <2> QED
    BY <2>1, <2>3, <2>4 DEF WebInv, webVars
<1>5. CASE CollectorStep \/ UNCHANGED vars
  <2>1. UNCHANGED <<now, history, hubOpen, webVars>>
    BY <1>5 DEF CollectorStep, vars, hubVars
  <2> QED
    BY <2>1 DEF webVars, WebInv, Distinct, SlotsInv, SlotsAreDeliveries, Taking, Counted, SummaryIsComing
<1> QED
  BY <1>1, <1>2, <1>3, <1>4, <1>5 DEF Next

LEMMA WebInitially == Init => WebInv
<1> SUFFICES ASSUME Init PROVE WebInv
  OBVIOUS
<1>1. now = 0 /\ history = <<>> /\ posts = {} /\ \A h \in Hooks : held[h] = 0 /\ inFlight[h] = 0
  BY DEF Init, WebInit
<1>2. history \in Seq({})
  BY <1>1
<1>3. \A h \in Hooks : Taking(h) = {}
  BY <1>1 DEF Taking
<1>4. SlotsInv
  BY <1>1, <1>3, FS_EmptySet DEF SlotsInv, SlotsAreDeliveries, Init, WebInit
<1>5. Distinct /\ SummaryIsComing
  BY <1>1 DEF Distinct, SummaryIsComing
<1> QED
  BY <1>1, <1>2, <1>4, <1>5 DEF WebInv, Init, WebInit

\* A hook's count of deliveries in flight is that of the deliveries under way,
\* so no outcome of a delivery, and no summary, leaks or doubles a slot.
THEOREM NoSlotLeaks == Spec => []SlotsAreDeliveries
<1>1. WebInv => SlotsAreDeliveries
  BY DEF WebInv, SlotsInv
<1> QED
  BY <1>1, WebInitially, WebStepKeeps, PTL DEF Spec

\* While the hub is open, a hook that has held something back has a timer that
\* will report it.
THEOREM SummaryComes == Spec => []SummaryIsComing
<1>1. WebInv => SummaryIsComing
  BY DEF WebInv
<1> QED
  BY <1>1, WebInitially, WebStepKeeps, PTL DEF Spec

(* ---------------------------- what was held back ------------------------- *)

PassedNow == {i \in DOMAIN history : history[i].passed /\ history[i].at >= windowStart}

Refused == {i \in DOMAIN history : ~history[i].passed}

RefusedBy(h) == {i \in DOMAIN history : h \in history[i].held}

\* No record is as late as the end of the window at hand, so none is left in
\* the next one.
HubInv ==
  /\ now \in Nat
  /\ \E S : history \in Seq(S)
  /\ windowStart \in Nat /\ windowStart <= now /\ windowCount \in 0..Ceiling
  /\ hubHeld \in Nat /\ toldHub \in Nat
  /\ held \in [Hooks -> Nat] /\ toldOf \in [Hooks -> Nat]
  /\ \A i \in DOMAIN history :
       /\ history[i].at \in Nat /\ history[i].at <= now
       /\ Window > 0 => history[i].at < windowStart + Window
  /\ Cardinality(PassedNow) = windowCount
  /\ Cardinality(Refused) = toldHub + hubHeld
  /\ \A h \in Hooks : Cardinality(RefusedBy(h)) = toldOf[h] + held[h]

(* The record of an event says what became of it. *)
Recorded(r, e) ==
  /\ history' = Append(history, r)
  /\ r.event = e /\ r.at = now
  /\ r.passed <=> Passes(e)
  /\ r.started = IF Reaches("webhooks", e) THEN Started(e) ELSE {}
  /\ r.held = IF Reaches("webhooks", e) THEN HeldBack(e) ELSE {}

LEMMA PublishRecords ==
  ASSUME NEW e, Publish(e)
  PROVE  \E r : Recorded(r, e)
<1> DEFINE s == IF Reaches("webhooks", e) THEN Started(e) ELSE {}
           b == IF Reaches("webhooks", e) THEN HeldBack(e) ELSE {}
           r == [event |-> e, at |-> now, passed |-> Passes(e), started |-> s, held |-> b]
<1>1. history' = Append(history, r)
  BY DEF Publish
<1>2. \A p, x, y :
        /\ [event |-> e, at |-> now, passed |-> p, started |-> x, held |-> y].event = e
        /\ [event |-> e, at |-> now, passed |-> p, started |-> x, held |-> y].at = now
        /\ [event |-> e, at |-> now, passed |-> p, started |-> x, held |-> y].passed = p
        /\ [event |-> e, at |-> now, passed |-> p, started |-> x, held |-> y].started = x
        /\ [event |-> e, at |-> now, passed |-> p, started |-> x, held |-> y].held = y
  OBVIOUS
<1>3. r.event = e /\ r.at = now /\ r.passed = Passes(e) /\ r.started = s /\ r.held = b
  BY <1>2, Zenon
<1> QED
  BY <1>1, <1>3, Zenon DEF Recorded

LEMMA RecordedAt ==
  ASSUME NEW S, history \in Seq(S), NEW r, NEW e, Recorded(r, e)
  PROVE  /\ Len(history) \in Nat /\ \E T : history' \in Seq(T)
         /\ DOMAIN history = 1..Len(history) /\ DOMAIN history' = 1..(Len(history) + 1)
         /\ history'[Len(history) + 1] = r
         /\ \A i \in 1..Len(history) : history'[i] = history[i]
<1>1. history \in Seq(S \union {r})
  BY SMT
<1>2. history' = Append(history, r)
  BY DEF Recorded
<1> QED
  BY <1>1, <1>2, AppendProperties, LenProperties

(* One more position counts one more. *)
LEMMA OneMore ==
  ASSUME NEW n \in Nat, NEW P \in SUBSET (1..n)
  PROVE  /\ IsFiniteSet(P) /\ Cardinality(P) \in Nat
         /\ IsFiniteSet(P \union {n + 1}) /\ Cardinality(P \union {n + 1}) = Cardinality(P) + 1
<1>1. IsFiniteSet(1..n)
  BY FS_Interval
<1>2. IsFiniteSet(P) /\ Cardinality(P) \in Nat
  BY <1>1, FS_Subset, FS_CardinalityType
<1>3. n + 1 \notin P
  OBVIOUS
<1>4. IsFiniteSet(P \union {n + 1}) /\ Cardinality(P \union {n + 1}) = Cardinality(P) + 1
  BY <1>2, <1>3, FS_AddElement
<1> QED
  BY <1>2, <1>4

LEMMA HubPublishes == ASSUME HubInv, NEW e, Publish(e) PROVE HubInv'
<1> DEFINE n == Len(history)
<1>1. PICK r : Recorded(r, e)
  BY PublishRecords
<1>2. /\ n \in Nat /\ \E T : history' \in Seq(T)
      /\ DOMAIN history = 1..n /\ DOMAIN history' = 1..(n + 1)
      /\ history'[n + 1] = r /\ \A i \in 1..n : history'[i] = history[i]
  BY <1>1, RecordedAt DEF HubInv
<1> HIDE DEF n
<1>3. /\ windowStart' = IF Rolled THEN now ELSE windowStart
      /\ windowCount' = CountNow + (IF Passes(e) THEN 1 ELSE 0)
      /\ hubHeld' = HeldNow + (IF Passes(e) THEN 0 ELSE 1)
      /\ toldHub' = toldHub + Reported /\ now' = now /\ toldOf' = toldOf
  BY Zenon DEF Publish, Emit
<1>4. r.at = now /\ (r.passed <=> Passes(e))
  BY <1>1 DEF Recorded
<1>5. /\ CountNow \in 0..Ceiling /\ HeldNow \in Nat /\ toldHub' + HeldNow = toldHub + hubHeld
      /\ toldHub' \in Nat
      /\ Passes(e) => CountNow < Ceiling
  BY <1>3, HubAssumption DEF HubInv, CountNow, HeldNow, Reported, Passes, Room
<1>6. /\ windowStart' \in Nat /\ windowStart' <= now /\ windowStart <= windowStart'
      /\ Window > 0 => now < windowStart' + Window
  BY <1>3, HubAssumption DEF HubInv, Rolled
<1>7. windowCount' \in 0..Ceiling /\ hubHeld' \in Nat
  <2>1. CASE Passes(e)
    BY <1>3, <1>5, <2>1, HubAssumption
  <2>2. CASE ~Passes(e)
    BY <1>3, <1>5, <2>2, HubAssumption
  <2> QED
    BY <2>1, <2>2
<1>8. \A i \in DOMAIN history' :
        /\ history'[i].at \in Nat /\ history'[i].at <= now'
        /\ Window > 0 => history'[i].at < windowStart' + Window
  <2> SUFFICES ASSUME NEW i \in 1..(n + 1)
               PROVE  /\ history'[i].at \in Nat /\ history'[i].at <= now
                      /\ Window > 0 => history'[i].at < windowStart' + Window
    BY <1>2, <1>3
  <2>1. CASE i = n + 1
    BY <1>2, <1>4, <1>6, <2>1 DEF HubInv
  <2>2. CASE i \in 1..n
    <3>1. /\ history[i].at \in Nat /\ history[i].at <= now
          /\ Window > 0 => history[i].at < windowStart + Window
      BY <1>2, <2>2 DEF HubInv
    <3>2. history'[i] = history[i] /\ windowStart \in Nat
      BY <1>2, <2>2 DEF HubInv
    <3> QED
      BY <1>6, <3>1, <3>2, HubAssumption
  <2> QED
    BY <1>2, <2>1, <2>2
<1>9. Cardinality(PassedNow') = windowCount'
  <2> DEFINE P == {i \in 1..n : history[i].passed /\ history[i].at >= windowStart'}
  <2>1. PassedNow' = IF Passes(e) THEN P \union {n + 1} ELSE P
    BY <1>2, <1>4, <1>6 DEF PassedNow
  <2>2. Cardinality(P) = CountNow
    <3>1. CASE Rolled
      <4>1. P = {}
        BY <1>2, <1>3, <3>1, HubAssumption DEF HubInv, Rolled
      <4> QED
        BY <3>1, <4>1, FS_EmptySet DEF CountNow
    <3>2. CASE ~Rolled
      <4>1. P = PassedNow
        BY <1>2, <1>3, <3>2 DEF PassedNow
      <4> QED
        BY <3>2, <4>1 DEF CountNow, HubInv
    <3> QED
      BY <3>1, <3>2
  <2> HIDE DEF P
  <2>3. P \in SUBSET (1..n)
    BY DEF P
  <2>4. Cardinality(P \union {n + 1}) = Cardinality(P) + 1
    BY <1>2, <2>3, OneMore
  <2> QED
    BY <1>3, <1>5, <2>1, <2>2, <2>4
<1>10. Cardinality(Refused') = toldHub' + hubHeld'
  <2>1. Refused' = IF Passes(e) THEN Refused ELSE Refused \union {n + 1}
    BY <1>2, <1>4 DEF Refused
  <2>2. Refused \in SUBSET (1..n)
    BY <1>2 DEF Refused
  <2>3. Cardinality(Refused \union {n + 1}) = Cardinality(Refused) + 1
    BY <1>2, <2>2, OneMore
  <2>4. Cardinality(Refused) = toldHub' + HeldNow /\ HeldNow \in Nat /\ toldHub' \in Nat
    BY <1>5 DEF HubInv
  <2>5. CASE Passes(e)
    BY <1>3, <2>1, <2>4, <2>5
  <2>6. CASE ~Passes(e)
    BY <1>3, <2>1, <2>3, <2>4, <2>6
  <2> QED
    BY <2>5, <2>6
<1>11. /\ held' = [h \in Hooks |-> held[h] + (IF h \in r.held THEN 1 ELSE 0)]
  <2>1. CASE Reaches("webhooks", e)
    <3>1. r.held = HeldBack(e)
      BY <1>1, <2>1 DEF Recorded
    <3>2. Dispatch(e, Len(history) + 1)
      BY <2>1 DEF Publish
    <3> QED
      BY <3>1, <3>2 DEF Dispatch
  <2>2. CASE ~Reaches("webhooks", e)
    <3>1. r.held = {} /\ held' = held
      BY <1>1, <2>2 DEF Recorded, Publish, webVars
    <3> QED
      BY <3>1 DEF HubInv
  <2> QED
    BY <2>1, <2>2
<1>12. ASSUME NEW h \in Hooks PROVE Cardinality(RefusedBy(h)') = toldOf'[h] + held'[h]
  <2>1. RefusedBy(h)' = IF h \in r.held THEN RefusedBy(h) \union {n + 1} ELSE RefusedBy(h)
    BY <1>2 DEF RefusedBy
  <2>2. RefusedBy(h) \in SUBSET (1..n)
    BY <1>2 DEF RefusedBy
  <2>3. Cardinality(RefusedBy(h) \union {n + 1}) = Cardinality(RefusedBy(h)) + 1
    BY <1>2, <2>2, OneMore
  <2>4. Cardinality(RefusedBy(h)) = toldOf[h] + held[h] /\ toldOf[h] \in Nat /\ held[h] \in Nat
    BY DEF HubInv
  <2>5. held'[h] = held[h] + (IF h \in r.held THEN 1 ELSE 0)
    BY <1>11
  <2> QED
    BY <1>3, <2>1, <2>3, <2>4, <2>5
<1>13. held' \in [Hooks -> Nat]
  BY <1>11 DEF HubInv
<1>14. \E S : history' \in Seq(S)
  BY <1>2
<1>15. now' \in Nat /\ windowStart' <= now' /\ toldOf' \in [Hooks -> Nat]
  BY <1>3, <1>6 DEF HubInv
<1> QED
  BY <1>5, <1>6, <1>7, <1>8, <1>9, <1>10, <1>12, <1>13, <1>14, <1>15, Zenon DEF HubInv

LEMMA HubNext == HubInv /\ [Next]_vars => HubInv'
<1> SUFFICES ASSUME HubInv, [Next]_vars PROVE HubInv'
  OBVIOUS
<1>1. ASSUME UNCHANGED <<history, windowStart, windowCount, hubHeld, toldHub, toldOf, held>>,
             now' \in Nat, now' >= now
      PROVE  HubInv'
  BY <1>1 DEF HubInv, PassedNow, Refused, RefusedBy
<1>2. ASSUME NEW e, Publish(e) PROVE HubInv'
  BY <1>2, HubPublishes
<1>3. CASE WebStep
  <2>1. UNCHANGED <<history, windowStart, windowCount, hubHeld, toldHub, now>>
    BY <1>3 DEF WebStep, hubVars
  <2>2. CASE Delivering
    <3>1. UNCHANGED <<held, toldOf>>
      BY <2>2 DEF Delivering, Answered, Fails, Retries
    <3> QED
      BY <1>1, <2>1, <3>1 DEF HubInv
  <2>3. CASE Summarising
    <3>1. PICK g \in Hooks : SummaryFires(g) /\ toldOf' = [toldOf EXCEPT ![g] = @ + held[g]]
      BY <2>3 DEF Summarising
    <3>2. held' = [held EXCEPT ![g] = 0]
      BY <3>1 DEF SummaryFires, HeldAfterSummary
    <3>3. /\ held' \in [Hooks -> Nat] /\ toldOf' \in [Hooks -> Nat]
          /\ \A h \in Hooks : toldOf'[h] + held'[h] = toldOf[h] + held[h]
      BY <3>1, <3>2 DEF HubInv
    <3>4. \A h : RefusedBy(h)' = RefusedBy(h)
      BY <2>1 DEF RefusedBy
    <3> QED
      BY <2>1, <3>3, <3>4 DEF HubInv, PassedNow, Refused
  <2> QED
    BY <1>3, <2>2, <2>3 DEF WebStep
<1>4. CASE CollectorStep \/ Close \/ UNCHANGED vars
  <2>1. UNCHANGED <<history, windowStart, windowCount, hubHeld, toldHub, toldOf, held, now>>
    BY <1>4 DEF CollectorStep, Close, CloseHub, Detach, vars, hubVars, webVars
  <2> QED
    BY <1>1, <2>1 DEF HubInv
<1>5. CASE TimePasses
  <2>1. UNCHANGED <<history, windowStart, windowCount, hubHeld, toldHub, toldOf, held>> /\ now' = now + 1
    BY <1>5 DEF TimePasses, Tick, hubVars, webVars
  <2> QED
    BY <1>1, <2>1 DEF HubInv
<1> QED
  BY <1>2, <1>3, <1>4, <1>5 DEF Next

LEMMA HubInitially == Init => HubInv
<1> SUFFICES ASSUME Init PROVE HubInv
  OBVIOUS
<1>1. /\ now = 0 /\ history = <<>> /\ windowStart = 0 /\ windowCount = 0 /\ hubHeld = 0 /\ toldHub = 0
      /\ toldOf = [h \in Hooks |-> 0] /\ held = [h \in Hooks |-> 0]
  BY DEF Init, HubInit, WebInit
<1>2. history \in Seq({}) /\ DOMAIN history = {}
  BY <1>1
<1>3. PassedNow = {} /\ Refused = {} /\ \A h : RefusedBy(h) = {}
  BY <1>2 DEF PassedNow, Refused, RefusedBy
<1> QED
  BY <1>1, <1>2, <1>3, FS_EmptySet, HubAssumption DEF HubInv

\* What the hub refused is what its reports said and what it still counts, and
\* so for each hook, whatever windows rolled and timers fired in between.
THEOREM NothingHeldBackInSilence == Spec => []HeldBackIsCounted
<1>1. HubInv => HeldBackIsCounted
  BY DEF HubInv, HeldBackIsCounted, Refused, RefusedBy
<1> QED
  BY <1>1, HubInitially, HubNext, PTL DEF Spec

(* ------------------------------- the caps -------------------------------- *)

Later(t, times) == {j \in DOMAIN times : times[j] >= t}

StartsFrom(t, h) ==
  {i \in DOMAIN history : /\ history[i].at >= t /\ h \in history[i].started
                          /\ Incident(history[i].event)}

AllStartsFrom(t) ==
  {start \in (DOMAIN history) \X Hooks :
     history[start[1]].at >= t /\ start[2] \in history[start[1]].started}

\* From every time its window still covers, a cap remembers at least as many
\* sends as there were starts; and it never remembers more than it allows.
CapInv ==
  /\ \A i \in DOMAIN history : history[i].started \subseteq Hooks
  /\ \A h \in Hooks : inFlight[h] <= InFlightOf[h]
  /\ \A h \in Hooks : sends[h] \in Seq(Nat)
  /\ sends = [h \in Hooks |-> sends[h]]
  /\ \A h \in Hooks : Throttled(h) =>
       /\ Len(sends[h]) <= ThrottleOf[h].max
       /\ \A t \in 0..now : t + ThrottleOf[h].window >= now =>
            Cardinality(StartsFrom(t, h)) <= Cardinality(Later(t, sends[h]))
  /\ globalSends \in Seq(Nat)
  /\ GlobalMax > 0 =>
       /\ Len(globalSends) <= GlobalMax
       /\ \A t \in 0..now : t + Minute >= now =>
            Cardinality(AllStartsFrom(t)) <= Cardinality(Later(t, globalSends))

LEMMA LaterCounts ==
  ASSUME NEW times \in Seq(Nat), NEW t \in Nat
  PROVE  /\ Later(t, times) \in SUBSET (1..Len(times))
         /\ IsFiniteSet(Later(t, times)) /\ Cardinality(Later(t, times)) \in Nat
         /\ Cardinality(Later(t, times)) <= Len(times)
<1>1. Len(times) \in Nat /\ Later(t, times) \in SUBSET (1..Len(times))
  BY DEF Later
<1>2. IsFiniteSet(1..Len(times)) /\ Cardinality(1..Len(times)) = Len(times)
  BY <1>1, Positions
<1> QED
  BY <1>1, <1>2, FS_Subset, FS_CardinalityType

(* What a cap forgets is out of its window. *)
LEMMA WithinKeeps ==
  ASSUME now \in Nat, NEW times \in Seq(Nat), NEW span \in Nat
  PROVE  /\ Within(times, span) \in Seq(Nat)
         /\ Len(Within(times, span)) <= Len(times)
         /\ \A t \in Nat : t + span >= now =>
              Cardinality(Later(t, Within(times, span))) = Cardinality(Later(t, times))
<1> DEFINE kept == {i \in DOMAIN times : times[i] + span >= now}
           o == Within(times, span)
           n == Len(times)
<1>1. o \in Seq(Nat) /\ \E g : Picks(g, o, times, kept, n)
  <2>1. o = Keeping(times, kept)
    BY DEF Within
  <2> HIDE DEF kept, o
  <2> QED
    BY <2>1, KeepingPicks
<1>2. n \in Nat /\ Len(o) \in Nat /\ kept \cap (1..n) = kept
  BY <1>1
<1>3. PICK g : Picks(g, o, times, kept, n)
  BY <1>1
<1> HIDE DEF o
<1>4. /\ g \in [1..Len(o) -> kept]
      /\ \A i \in 1..Len(o) : o[i] = times[g[i]]
      /\ \A i, j \in 1..Len(o) : i < j => g[i] < g[j]
      /\ \A k \in kept : \E i \in 1..Len(o) : g[i] = k
  BY <1>2, <1>3 DEF Picks
<1>5. \A k \in kept : k \in 1..n /\ times[k] \in Nat
  OBVIOUS
<1>6. \A k \in 1..n : times[k] + span >= now => k \in kept
  OBVIOUS
<1> HIDE DEF kept, n
<1>7. \A i, j \in 1..Len(o) : g[i] = g[j] => i = j
  <2> SUFFICES ASSUME NEW i \in 1..Len(o), NEW j \in 1..Len(o), g[i] = g[j] PROVE i = j
    OBVIOUS
  <2>1. g[i] \in Nat /\ g[j] \in Nat
    BY <1>2, <1>4, <1>5
  <2> QED
    BY <1>2, <1>4, <2>1
<1>8. Len(o) <= n
  <2>1. IsFiniteSet(1..n) /\ Cardinality(1..n) = n /\ IsFiniteSet(1..Len(o)) /\ Cardinality(1..Len(o)) = Len(o)
    BY <1>2, Positions
  <2>2. g \in Injection(1..Len(o), 1..n)
    BY <1>4, <1>5, <1>7 DEF Injection, IsInjective
  <2>3. Cardinality(1..Len(o)) <= Cardinality(1..n)
    BY <2>1, <2>2, FS_Injection
  <2> QED
    BY <2>1, <2>3
<1>9. ASSUME NEW t \in Nat, t + span >= now
      PROVE  Cardinality(Later(t, o)) = Cardinality(Later(t, times))
  <2> DEFINE f == [i \in Later(t, o) |-> g[i]]
             S == Later(t, o)
             T == Later(t, times)
  <2>1. S \in SUBSET (1..Len(o)) /\ IsFiniteSet(S)
    BY <1>1, LaterCounts
  <2>2. \A i \in 1..Len(o) : i \in S <=> o[i] >= t
    BY <1>1 DEF Later
  <2>3. \A k \in 1..n : k \in T <=> times[k] >= t
    BY DEF Later, n
  <2>4. T \subseteq 1..n
    BY DEF Later, n
  <2> HIDE DEF S, T
  <2>5. \A i \in S : f[i] = g[i] /\ g[i] \in T
    BY <1>4, <1>5, <2>1, <2>2, <2>3 DEF S
  <2>6. \A k \in T : \E i \in S : f[i] = k
    <3> SUFFICES ASSUME NEW k \in T PROVE \E i \in S : f[i] = k
      OBVIOUS
    <3>1. k \in 1..n /\ times[k] \in Nat /\ times[k] >= t
      BY <1>2, <2>3, <2>4 DEF n
    <3>2. k \in kept
      BY <1>2, <1>6, <1>9, <3>1
    <3>3. PICK i \in 1..Len(o) : g[i] = k
      BY <1>4, <3>2
    <3>4. i \in S
      BY <1>4, <2>2, <3>1, <3>3
    <3> QED
      BY <2>5, <3>3, <3>4
  <2>7. f \in [S -> T]
    BY <2>5 DEF S
  <2>8. \A i, j \in S : f[i] = f[j] => i = j
    BY <1>7, <2>1, <2>5
  <2> HIDE DEF f
  <2>9. f \in Bijection(S, T)
    BY <2>6, <2>7, <2>8 DEF Bijection, Injection, IsInjective, Surjection
  <2>10. Cardinality(T) = Cardinality(S)
    BY <2>1, <2>9, FS_Bijection DEF ExistsBijection
  <2> QED
    BY <2>10 DEF S, T
<1> QED
  BY <1>1, <1>8, <1>9 DEF o, n

(* Sends remembered now are later than any time up to now. *)
LEMMA LaterGrows ==
  ASSUME now \in Nat, NEW times \in Seq(Nat), NEW k \in Nat, NEW t \in 0..now
  PROVE  LET more == times \o [i \in 1..k |-> now]
         IN  /\ more \in Seq(Nat) /\ Len(more) = Len(times) + k
             /\ Cardinality(Later(t, more)) = Cardinality(Later(t, times)) + k
<1> DEFINE n == Len(times)
           again == [i \in 1..k |-> now]
           more == times \o again
           new == (n + 1)..(n + k)
<1>1. n \in Nat /\ again \in Seq(Nat) /\ Len(again) = k
  OBVIOUS
<1>2. /\ more \in Seq(Nat) /\ Len(more) = n + k
      /\ \A i \in 1..n : more[i] = times[i]
      /\ \A i \in new : more[i] = now
  <2>1. \A i \in 1..k : again[i] = now
    OBVIOUS
  <2> HIDE DEF again
  <2>2. /\ more \in Seq(Nat) /\ Len(more) = n + k
        /\ \A i \in 1..(n + k) : more[i] = IF i <= n THEN times[i] ELSE again[i - n]
    BY <1>1, ConcatProperties
  <2> HIDE DEF more, n
  <2> QED
    BY <1>1, <2>1, <2>2
<1>3. Later(t, more) = Later(t, times) \union new
  <2>1. DOMAIN more = 1..(n + k) /\ DOMAIN times = 1..n
    BY <1>2
  <2> HIDE DEF more, n, again
  <2> QED
    BY <1>1, <1>2, <2>1 DEF Later
<1>4. Later(t, times) \cap new = {} /\ IsFiniteSet(Later(t, times)) /\ Cardinality(Later(t, times)) \in Nat
  BY LaterCounts
<1>5. IsFiniteSet(new) /\ Cardinality(new) = k
  <2> HIDE DEF n
  <2> QED
    BY <1>1, FS_Interval
<1> HIDE DEF new, more
<1>6. Cardinality(Later(t, times) \union new) = Cardinality(Later(t, times)) + Cardinality(new) - Cardinality({})
  BY <1>4, <1>5, FS_Union
<1>7. Cardinality({}) = 0
  BY FS_EmptySet
<1>8. Cardinality(Later(t, more)) = Cardinality(Later(t, times)) + k
  BY <1>3, <1>4, <1>5, <1>6, <1>7
<1> QED
  BY <1>2, <1>8 DEF more

(* Asked in turn, no more hooks are admitted than there was room for. *)
LEMMA AdmittedFit ==
  ASSUME NEW A \in SUBSET Nat, IsFiniteSet(A), NEW room \in Nat
  PROVE  LET S == {h \in A : Before(h, A) < room}
         IN  IsFiniteSet(S) /\ Cardinality(S) \in Nat /\ Cardinality(S) <= room
<1> DEFINE S == {h \in A : Before(h, A) < room}
<1>1. IsFiniteSet(S) /\ Cardinality(S) \in Nat
  BY FS_Subset, FS_CardinalityType
<1>2. CASE S = {}
  BY <1>2, FS_EmptySet
<1>3. CASE S # {}
  <2>1. PICK m \in S : \A k \in S : k <= m
    <3>1. S \in SUBSET Nat
      OBVIOUS
    <3> HIDE DEF S
    <3> QED
      BY <1>1, <1>3, <3>1, Greatest
  <2> DEFINE B == {g \in A : g < m}
  <2>2. S \ {m} \in SUBSET B
    <3> SUFFICES ASSUME NEW k \in S, k # m PROVE k \in B
      OBVIOUS
    <3>1. k <= m /\ k \in Nat /\ m \in Nat /\ k \in A
      BY <2>1
    <3> QED
      BY <3>1
  <2>3. IsFiniteSet(B) /\ Cardinality(B) \in Nat
    BY FS_Subset, FS_CardinalityType
  <2>4. Cardinality(B) < room
    BY <2>1 DEF Before
  <2> HIDE DEF S, B
  <2>5. Cardinality(S \ {m}) <= Cardinality(B) /\ Cardinality(S \ {m}) = Cardinality(S) - 1
    BY <1>1, <2>1, <2>2, <2>3, FS_Subset, FS_RemoveElement
  <2>6. Cardinality(S) <= room
    BY <1>1, <2>3, <2>4, <2>5
  <2> QED
    BY <1>1, <2>6 DEF S
<1> QED
  BY <1>1, <1>2, <1>3

(* Starts under the number of a new event. *)
LEMMA StartsAt ==
  ASSUME NEW S, history \in Seq(S), NEW r, NEW e, Recorded(r, e), r.started \subseteq Hooks,
         NEW t \in Nat, t <= now, now \in Nat
  PROVE  /\ \A h : /\ IsFiniteSet(StartsFrom(t, h)) /\ Cardinality(StartsFrom(t, h)) \in Nat
                   /\ Cardinality(StartsFrom(t, h)') =
                        Cardinality(StartsFrom(t, h)) + (IF h \in r.started /\ Incident(e) THEN 1 ELSE 0)
         /\ IsFiniteSet(r.started)
         /\ Cardinality(AllStartsFrom(t)') = Cardinality(AllStartsFrom(t)) + Cardinality(r.started)
<1> DEFINE n == Len(history)
           new == {n + 1} \X r.started
<1>1. /\ n \in Nat
      /\ DOMAIN history = 1..n /\ DOMAIN history' = 1..(n + 1)
      /\ history'[n + 1] = r /\ \A i \in 1..n : history'[i] = history[i]
  BY RecordedAt
<1> HIDE DEF n
<1>2. r.event = e /\ r.at = now
  BY DEF Recorded
<1>3. ASSUME NEW h
      PROVE  /\ IsFiniteSet(StartsFrom(t, h)) /\ Cardinality(StartsFrom(t, h)) \in Nat
             /\ Cardinality(StartsFrom(t, h)') =
                  Cardinality(StartsFrom(t, h)) + (IF h \in r.started /\ Incident(e) THEN 1 ELSE 0)
  <2> DEFINE P == StartsFrom(t, h)
  <2>1. P \in SUBSET (1..n)
    BY <1>1 DEF StartsFrom
  <2>2. P' = IF h \in r.started /\ Incident(e) THEN P \union {n + 1} ELSE P
    BY <1>1, <1>2 DEF StartsFrom
  <2> HIDE DEF P
  <2>3. /\ IsFiniteSet(P) /\ Cardinality(P) \in Nat
        /\ Cardinality(P \union {n + 1}) = Cardinality(P) + 1
    BY <1>1, <2>1, OneMore
  <2>4. Cardinality(P') = Cardinality(P) + (IF h \in r.started /\ Incident(e) THEN 1 ELSE 0)
    BY <2>2, <2>3
  <2> QED
    BY <2>3, <2>4 DEF P
<1>4. IsFiniteSet(Hooks)
  BY WebhookAssumption
<1>5. IsFiniteSet(r.started) /\ Cardinality(r.started) \in Nat
  BY <1>4, FS_Subset, FS_CardinalityType
<1>6. AllStartsFrom(t)' = AllStartsFrom(t) \union new
  <2>1. \A s : s \in AllStartsFrom(t)' <=> s \in AllStartsFrom(t) \union new
    <3>1. ASSUME NEW i, NEW h
          PROVE  <<i, h>> \in AllStartsFrom(t)' <=> <<i, h>> \in AllStartsFrom(t) \union new
      <4>1. <<i, h>> \in AllStartsFrom(t)' <=>
              i \in 1..(n + 1) /\ h \in Hooks /\ history'[i].at >= t /\ h \in history'[i].started
        BY <1>1 DEF AllStartsFrom
      <4>2. <<i, h>> \in AllStartsFrom(t) <=>
              i \in 1..n /\ h \in Hooks /\ history[i].at >= t /\ h \in history[i].started
        BY <1>1 DEF AllStartsFrom
      <4>3. <<i, h>> \in new <=> i = n + 1 /\ h \in r.started
        OBVIOUS
      <4>4. CASE i = n + 1
        BY <1>1, <1>2, <4>1, <4>2, <4>3, <4>4
      <4>5. CASE i # n + 1
        <5>1. i \in 1..(n + 1) <=> i \in 1..n
          BY <1>1, <4>5
        <5> QED
          BY <1>1, <4>1, <4>2, <4>3, <4>5, <5>1
      <4> QED
        BY <4>4, <4>5
    <3>2. \A s \in AllStartsFrom(t)' : \E i, h : s = <<i, h>>
      BY DEF AllStartsFrom
    <3>3. \A s \in AllStartsFrom(t) \union new : \E i, h : s = <<i, h>>
      BY DEF AllStartsFrom
    <3> QED
      BY <3>1, <3>2, <3>3
  <2> QED
    BY <2>1
<1>7. IsFiniteSet(AllStartsFrom(t)) /\ Cardinality(AllStartsFrom(t)) \in Nat
  <2>1. IsFiniteSet(1..n)
    BY <1>1, Positions
  <2>2. IsFiniteSet((1..n) \X Hooks)
    BY <1>4, <2>1, FS_Product
  <2>3. AllStartsFrom(t) \in SUBSET ((1..n) \X Hooks)
    BY <1>1 DEF AllStartsFrom
  <2> QED
    BY <2>2, <2>3, FS_Subset, FS_CardinalityType
<1>8. IsFiniteSet(new) /\ Cardinality(new) = Cardinality(r.started)
  <2>1. IsFiniteSet({n + 1}) /\ Cardinality({n + 1}) = 1
    BY FS_Singleton
  <2>2. IsFiniteSet(new) /\ Cardinality(new) = Cardinality({n + 1}) * Cardinality(r.started)
    BY <1>5, <2>1, FS_Product
  <2>3. Cardinality({n + 1}) * Cardinality(r.started) = Cardinality(r.started)
    BY <1>5, <2>1
  <2> QED
    BY <2>2, <2>3
<1>9. AllStartsFrom(t) \cap new = {}
  BY <1>1 DEF AllStartsFrom
<1> HIDE DEF new
<1>10. Cardinality(AllStartsFrom(t) \union new) =
         Cardinality(AllStartsFrom(t)) + Cardinality(new) - Cardinality(AllStartsFrom(t) \cap new)
  BY <1>7, <1>8, FS_Union
<1>11. Cardinality(AllStartsFrom(t) \cap new) = 0
  BY <1>9, FS_EmptySet
<1>12. Cardinality(AllStartsFrom(t)') = Cardinality(AllStartsFrom(t)) + Cardinality(r.started)
  BY <1>5, <1>6, <1>7, <1>8, <1>10, <1>11
<1> QED
  BY <1>3, <1>5, <1>12

LEMMA AskingType ==
  ASSUME NEW e
  PROVE  /\ Started(e) \subseteq Asking(e) /\ Asking(e) \subseteq Free(e) /\ Free(e) \subseteq Hooks
         /\ IsFiniteSet(Asking(e)) /\ Asking(e) \in SUBSET Nat
<1>1. Started(e) \subseteq Asking(e) /\ Asking(e) \subseteq Free(e) /\ Free(e) \subseteq Hooks
  BY DEF Started, Asking, Free
<1> QED
  BY <1>1, WebhookAssumption, FS_Subset

(* What a throttled hook remembers after a dispatch. *)
LEMMA ThrottleKeeps ==
  ASSUME HubInv, CapInv, NEW r, NEW e, Recorded(r, e), r.started \subseteq Hooks,
         r.started = {} \/ r.started = Started(e),
         NEW h \in Hooks, Throttled(h),
         \/ sends'[h] = sends[h] /\ r.started = {}
         \/ Dispatch(e, Len(history) + 1)
  PROVE  /\ sends'[h] \in Seq(Nat) /\ Len(sends'[h]) <= ThrottleOf[h].max
         /\ \A t \in 0..now : t + ThrottleOf[h].window >= now =>
              Cardinality(StartsFrom(t, h)') <= Cardinality(Later(t, sends'[h]))
<1> DEFINE w == ThrottleOf[h].window
           max == ThrottleOf[h].max
           fresh == Within(sends[h], w)
           one == IF h \in r.started /\ Incident(e) THEN 1 ELSE 0
<1>1. w \in Nat /\ max \in Nat
  BY WebhookAssumption
<1>2. /\ sends[h] \in Seq(Nat) /\ Len(sends[h]) <= max /\ now \in Nat
      /\ \A t \in 0..now : t + w >= now =>
           Cardinality(StartsFrom(t, h)) <= Cardinality(Later(t, sends[h]))
  BY DEF CapInv, HubInv
<1>3. /\ fresh \in Seq(Nat) /\ Len(fresh) <= Len(sends[h])
      /\ \A t \in Nat : t + w >= now =>
           Cardinality(Later(t, fresh)) = Cardinality(Later(t, sends[h]))
  BY <1>1, <1>2, WithinKeeps
<1>4. PICK S : history \in Seq(S)
  BY DEF HubInv
<1>5. \A t \in 0..now : /\ Cardinality(StartsFrom(t, h)') = Cardinality(StartsFrom(t, h)) + one
                        /\ Cardinality(StartsFrom(t, h)) \in Nat
  BY <1>2, <1>4, StartsAt
<1>6. CASE /\ sends'[h] = Append(fresh, now)
           /\ Len(fresh) < max
  <2>1. /\ Append(fresh, now) \in Seq(Nat) /\ Len(Append(fresh, now)) <= max
    BY <1>1, <1>2, <1>3, <1>6
  <2>2. Append(fresh, now) = fresh \o [i \in 1..1 |-> now]
    BY <1>2, <1>3
  <2>3. ASSUME NEW t \in 0..now, t + w >= now
        PROVE  Cardinality(StartsFrom(t, h)') <= Cardinality(Later(t, sends'[h]))
    <3>1. Cardinality(Later(t, Append(fresh, now))) = Cardinality(Later(t, fresh)) + 1
      <4>1. 1 \in Nat
        OBVIOUS
      <4> HIDE DEF fresh
      <4>2. Cardinality(Later(t, fresh \o [i \in 1..1 |-> now])) = Cardinality(Later(t, fresh)) + 1
        BY <1>2, <1>3, <4>1, LaterGrows
      <4> QED
        BY <2>2, <4>2
    <3>2. Cardinality(Later(t, fresh)) = Cardinality(Later(t, sends[h]))
      BY <1>3, <2>3
    <3>3. Cardinality(Later(t, sends[h])) \in Nat
      BY <1>2, LaterCounts
    <3>4. one <= 1 /\ one \in Nat
      OBVIOUS
    <3> HIDE DEF one
    <3> QED
      BY <1>2, <1>5, <1>6, <2>3, <3>1, <3>2, <3>3, <3>4
  <2> QED
    BY <1>6, <2>1, <2>3
<1>7. CASE /\ sends'[h] = fresh \/ sends'[h] = sends[h]
           /\ one = 0
  <2>1. Len(fresh) \in Nat /\ Len(sends[h]) \in Nat
    BY <1>2, <1>3
  <2>2. sends'[h] \in Seq(Nat) /\ Len(sends'[h]) <= max
    BY <1>1, <1>2, <1>3, <1>7, <2>1
  <2>3. ASSUME NEW t \in 0..now, t + w >= now
        PROVE  Cardinality(StartsFrom(t, h)') <= Cardinality(Later(t, sends'[h]))
    <3>1. Cardinality(Later(t, fresh)) = Cardinality(Later(t, sends[h]))
      BY <1>3, <2>3
    <3>2. Cardinality(StartsFrom(t, h)') = Cardinality(StartsFrom(t, h))
      BY <1>5, <1>7
    <3> QED
      BY <1>2, <1>7, <2>3, <3>1, <3>2
  <2> QED
    BY <2>2, <2>3
<1>8. CASE sends'[h] = sends[h] /\ r.started = {}
  BY <1>7, <1>8
<1>9. CASE Dispatch(e, Len(history) + 1)
  <2>1. sends'[h] = IF e.type = "anomaly" \/ h \notin Free(e) \/ RepeatsHere(h, e.ip) THEN sends[h]
                    ELSE IF Remembers(h, e) THEN Append(fresh, now) ELSE fresh
    BY <1>9, Zenon DEF Dispatch
  <2>2. Remembers(h, e) => Len(fresh) < max
    BY <1>1, <1>3 DEF Remembers, Asking, ShouldSend, Throttles
  <2>3. h \in r.started /\ Incident(e) => Remembers(h, e) /\ h \in Free(e) /\ ~RepeatsHere(h, e.ip) /\ e.type # "anomaly"
    BY AskingType DEF Remembers, Incident, Asking, ShouldSend
  <2> HIDE DEF fresh
  <2> QED
    BY <1>6, <1>7, <2>1, <2>2, <2>3
<1> QED
  BY <1>8, <1>9

(* What all hooks together remember after a dispatch. *)
LEMMA GlobalKeeps ==
  ASSUME HubInv, CapInv, NEW r, NEW e, Recorded(r, e), r.started \subseteq Hooks,
         GlobalMax > 0,
         \/ globalSends' = globalSends /\ r.started = {}
         \/ Dispatch(e, Len(history) + 1) /\ r.started = Started(e)
  PROVE  /\ globalSends' \in Seq(Nat) /\ Len(globalSends') <= GlobalMax
         /\ \A t \in 0..now : t + Minute >= now =>
              Cardinality(AllStartsFrom(t)') <= Cardinality(Later(t, globalSends'))
<1> DEFINE fresh == Within(globalSends, Minute)
           k == Cardinality(r.started)
<1>1. GlobalMax \in Nat /\ Minute \in Nat
  BY WebhookAssumption
<1>2. /\ globalSends \in Seq(Nat) /\ Len(globalSends) <= GlobalMax /\ now \in Nat
      /\ \A t \in 0..now : t + Minute >= now =>
           Cardinality(AllStartsFrom(t)) <= Cardinality(Later(t, globalSends))
  BY DEF CapInv, HubInv
<1>3. /\ fresh \in Seq(Nat) /\ Len(fresh) <= Len(globalSends)
      /\ \A t \in Nat : t + Minute >= now =>
           Cardinality(Later(t, fresh)) = Cardinality(Later(t, globalSends))
  BY <1>1, <1>2, WithinKeeps
<1>4. PICK S : history \in Seq(S)
  BY DEF HubInv
<1>5. \A t \in 0..now : Cardinality(AllStartsFrom(t)') = Cardinality(AllStartsFrom(t)) + k
  BY <1>2, <1>4, StartsAt
<1>6. CASE globalSends' = globalSends /\ r.started = {}
  <2>1. k = 0
    BY <1>6, FS_EmptySet
  <2>2. ASSUME NEW t \in 0..now, t + Minute >= now
        PROVE  Cardinality(AllStartsFrom(t)') <= Cardinality(Later(t, globalSends'))
    <3>1. Cardinality(AllStartsFrom(t)) \in Nat
      <4>1. IsFiniteSet((DOMAIN history) \X Hooks)
        BY <1>4, Positions, LenProperties, WebhookAssumption, FS_Product
      <4>2. AllStartsFrom(t) \in SUBSET ((DOMAIN history) \X Hooks)
        BY DEF AllStartsFrom
      <4> QED
        BY <4>1, <4>2, FS_Subset, FS_CardinalityType
    <3>2. Cardinality(AllStartsFrom(t)') = Cardinality(AllStartsFrom(t))
      BY <1>5, <2>1, <3>1
    <3> QED
      BY <1>2, <1>6, <2>2, <3>2
  <2> QED
    BY <1>2, <1>6, <2>2
<1>7. CASE Dispatch(e, Len(history) + 1) /\ r.started = Started(e)
  <2>1. CASE Asking(e) = {}
    <3>1. r.started = {} /\ globalSends' = globalSends
      BY <1>7, <2>1, AskingType DEF Dispatch
    <3> QED
      BY <1>6, <3>1
  <2>2. CASE Asking(e) # {}
    <3> DEFINE again == [i \in 1..k |-> now]
               room == GlobalMax - Len(fresh)
    <3>1. globalSends' = fresh \o again
      <4>1. GlobalMax # 0 /\ k = Cardinality(Started(e))
        BY <1>1, <1>7
      <4>2. globalSends' = Within(globalSends, Minute) \o [i \in 1..Cardinality(Started(e)) |-> now]
        BY <1>7, <2>2, <4>1, Zenon DEF Dispatch
      <4> QED
        BY <4>1, <4>2, Zenon
    <3>2. Len(fresh) \in Nat /\ Len(globalSends) \in Nat
      BY <1>2, <1>3
    <3>3. room \in Nat
      BY <1>1, <1>2, <1>3, <3>2
    <3>4. Started(e) = {h \in Asking(e) : Before(h, Asking(e)) < room}
      <4>1. ASSUME NEW h \in Asking(e)
            PROVE  Admits(h, Asking(e)) <=> Before(h, Asking(e)) < room
        <5>1. IsFiniteSet({g \in Asking(e) : g < h})
          BY AskingType, FS_Subset
        <5>2. Before(h, Asking(e)) \in Nat
          BY <5>1, FS_CardinalityType DEF Before
        <5>3. Admits(h, Asking(e)) <=> Len(fresh) + Before(h, Asking(e)) < GlobalMax
          BY <1>1 DEF Admits
        <5> QED
          BY <1>1, <3>2, <5>2, <5>3
      <4> QED
        BY <4>1 DEF Started
    <3>5. k \in Nat /\ k <= room
      <4> HIDE DEF room
      <4> QED
        BY <1>7, <3>3, <3>4, AskingType, AdmittedFit
    <3> HIDE DEF k, fresh
    <3>6. /\ fresh \o again \in Seq(Nat) /\ Len(fresh \o again) = Len(fresh) + k
          /\ \A t \in 0..now : Cardinality(Later(t, fresh \o again)) = Cardinality(Later(t, fresh)) + k
      <4>1. 0 \in 0..now
        BY <1>2
      <4> QED
        BY <1>2, <1>3, <3>5, <4>1, LaterGrows
    <3>7. Len(globalSends') <= GlobalMax
      BY <1>1, <3>1, <3>2, <3>5, <3>6
    <3> HIDE DEF again
    <3>8. ASSUME NEW t \in 0..now, t + Minute >= now
          PROVE  Cardinality(AllStartsFrom(t)') <= Cardinality(Later(t, globalSends'))
      <4>1. Cardinality(AllStartsFrom(t)') = Cardinality(AllStartsFrom(t)) + k
        BY <1>5
      <4>2. Cardinality(AllStartsFrom(t)) <= Cardinality(Later(t, globalSends))
        BY <1>2, <3>8
      <4>3. Cardinality(Later(t, fresh)) = Cardinality(Later(t, globalSends))
        BY <1>3, <3>8
      <4>4. Cardinality(Later(t, globalSends')) = Cardinality(Later(t, fresh)) + k
        BY <3>1, <3>6
      <4>5. Cardinality(AllStartsFrom(t)) \in Nat
        <5>1. IsFiniteSet((DOMAIN history) \X Hooks)
          BY <1>4, Positions, LenProperties, WebhookAssumption, FS_Product
        <5>2. AllStartsFrom(t) \in SUBSET ((DOMAIN history) \X Hooks)
          BY DEF AllStartsFrom
        <5> QED
          BY <5>1, <5>2, FS_Subset, FS_CardinalityType
      <4>6. Cardinality(Later(t, globalSends)) \in Nat
        BY <1>2, LaterCounts
      <4> QED
        BY <3>5, <4>1, <4>2, <4>3, <4>4, <4>5, <4>6
    <3> QED
      BY <3>1, <3>6, <3>7, <3>8
  <2> QED
    BY <2>1, <2>2
<1> QED
  BY <1>6, <1>7

(* The starts on record are those a hook's slots, its throttle and the       *)
(* minute had room for.                                                      *)
LEMMA CapPublishes ==
  ASSUME WebInv, HubInv, CapInv, NEW e, Publish(e)
  PROVE  CapInv'
<1>1. PICK r : Recorded(r, e)
  BY PublishRecords
<1>2. PICK S : history \in Seq(S)
  BY DEF HubInv
<1>3. /\ DOMAIN history' = 1..(Len(history) + 1) /\ DOMAIN history = 1..Len(history)
      /\ history'[Len(history) + 1] = r
      /\ \A i \in 1..Len(history) : history'[i] = history[i]
      /\ Len(history) \in Nat
  BY <1>1, <1>2, RecordedAt
<1>4. now' = now
  BY DEF Publish
<1>5. CASE Reaches("webhooks", e)
  <2>1. Dispatch(e, Len(history) + 1) /\ r.started = Started(e)
    BY <1>1, <1>5 DEF Publish, Recorded
  <2>2. r.started \subseteq Hooks
    BY <2>1, AskingType
  <2>3. \A i \in DOMAIN history' : history'[i].started \subseteq Hooks
    <3> SUFFICES ASSUME NEW i \in 1..(Len(history) + 1) PROVE history'[i].started \subseteq Hooks
      BY <1>3
    <3>1. CASE i \in 1..Len(history)
      BY <1>3, <3>1 DEF CapInv
    <3> QED
      BY <1>3, <2>2, <3>1
  <2>4. ASSUME NEW h \in Hooks PROVE inFlight'[h] <= InFlightOf[h]
    <3>1. inFlight[h] \in Nat /\ InFlightOf[h] \in Nat /\ inFlight[h] <= InFlightOf[h]
      BY WebhookAssumption DEF WebInv, SlotsInv, CapInv
    <3>2. inFlight'[h] = inFlight[h] + (IF h \in Started(e) /\ RetriesOf[h] > 0 THEN 1 ELSE 0)
      BY <2>1 DEF Dispatch
    <3>3. h \in Started(e) => inFlight[h] < InFlightOf[h]
      BY <3>1, AskingType DEF Free, Busy
    <3> QED
      BY <3>1, <3>2, <3>3
  <2>5. ASSUME NEW h \in Hooks, ~Throttled(h) PROVE sends'[h] \in Seq(Nat)
    BY <2>1, <2>5 DEF Dispatch, CapInv
  <2>6. sends' = [h \in Hooks |-> sends'[h]]
    BY <2>1 DEF Dispatch
  <2>7. ASSUME NEW h \in Hooks, Throttled(h)
        PROVE  /\ sends'[h] \in Seq(Nat) /\ Len(sends'[h]) <= ThrottleOf[h].max
               /\ \A t \in 0..now : t + ThrottleOf[h].window >= now =>
                    Cardinality(StartsFrom(t, h)') <= Cardinality(Later(t, sends'[h]))
    BY <1>1, <2>1, <2>2, <2>7, ThrottleKeeps
  <2>8. GlobalMax > 0 =>
          /\ globalSends' \in Seq(Nat) /\ Len(globalSends') <= GlobalMax
          /\ \A t \in 0..now : t + Minute >= now =>
               Cardinality(AllStartsFrom(t)') <= Cardinality(Later(t, globalSends'))
    BY <1>1, <2>1, <2>2, GlobalKeeps
  <2>9. globalSends' \in Seq(Nat)
    <3>1. CASE GlobalMax > 0
      BY <2>8, <3>1
    <3>2. CASE ~(GlobalMax > 0)
      <4>1. GlobalMax = 0
        BY <3>2, WebhookAssumption
      <4> QED
        BY <2>1, <4>1 DEF Dispatch, CapInv
    <3> QED
      BY <3>1, <3>2
  <2> QED
    BY <1>4, <2>3, <2>4, <2>5, <2>6, <2>7, <2>8, <2>9 DEF CapInv, Later, Throttled
<1>6. CASE ~Reaches("webhooks", e)
  <2>1. UNCHANGED webVars /\ r.started = {}
    BY <1>1, <1>6 DEF Publish, Recorded
  <2>2. UNCHANGED <<inFlight, sends, globalSends>>
    BY <2>1 DEF webVars
  <2>3. \A i \in DOMAIN history' : history'[i].started \subseteq Hooks
    <3> SUFFICES ASSUME NEW i \in 1..(Len(history) + 1) PROVE history'[i].started \subseteq Hooks
      BY <1>3
    <3>1. CASE i \in 1..Len(history)
      BY <1>3, <3>1 DEF CapInv
    <3> QED
      BY <1>3, <2>1, <3>1
  <2>4. ASSUME NEW h \in Hooks, Throttled(h)
        PROVE  /\ sends'[h] \in Seq(Nat) /\ Len(sends'[h]) <= ThrottleOf[h].max
               /\ \A t \in 0..now : t + ThrottleOf[h].window >= now =>
                    Cardinality(StartsFrom(t, h)') <= Cardinality(Later(t, sends'[h]))
    BY <1>1, <2>1, <2>2, <2>4, ThrottleKeeps
  <2>5. GlobalMax > 0 =>
          /\ globalSends' \in Seq(Nat) /\ Len(globalSends') <= GlobalMax
          /\ \A t \in 0..now : t + Minute >= now =>
               Cardinality(AllStartsFrom(t)') <= Cardinality(Later(t, globalSends'))
    BY <1>1, <2>1, <2>2, GlobalKeeps
  <2> QED
    BY <1>4, <2>2, <2>3, <2>4, <2>5 DEF CapInv, Later, Throttled
<1> QED
  BY <1>5, <1>6

LEMMA CapNext == WebInv /\ HubInv /\ CapInv /\ [Next]_vars => CapInv'
<1> SUFFICES ASSUME WebInv, HubInv, CapInv, [Next]_vars PROVE CapInv'
  OBVIOUS
<1>1. ASSUME NEW e, Publish(e) PROVE CapInv'
  BY <1>1, CapPublishes
<1>2. ASSUME UNCHANGED <<now, history, sends, globalSends>>,
             \A h \in Hooks : inFlight'[h] <= InFlightOf[h]
      PROVE  CapInv'
  BY <1>2 DEF CapInv, StartsFrom, AllStartsFrom, Later, Throttled
<1>3. CASE WebStep
  <2>1. UNCHANGED <<now, history>>
    BY <1>3 DEF WebStep
  <2>2. CASE Summarising
    <3>1. UNCHANGED <<sends, globalSends, inFlight>>
      BY <2>2 DEF Summarising, SummaryFires
    <3> QED
      BY <1>2, <2>1, <3>1 DEF CapInv
  <2>3. CASE Delivering
    <3>1. PICK p \in posts : Answered(p) \/ Fails(p) \/ Retries(p)
      BY <2>3 DEF Delivering
    <3>2. UNCHANGED <<sends, globalSends>>
      BY <3>1 DEF Answered, Fails, Retries
    <3>3. inFlight' = Freed(p) \/ inFlight' = inFlight
      BY <3>1 DEF Answered, Fails, Retries, Ends
    <3>4. ASSUME NEW h \in Hooks PROVE inFlight'[h] <= InFlightOf[h]
      <4>1. inFlight[h] \in Nat /\ InFlightOf[h] \in Nat /\ inFlight[h] <= InFlightOf[h] /\ DOMAIN inFlight = Hooks
        BY WebhookAssumption DEF WebInv, SlotsInv, CapInv
      <4>2. inFlight'[h] = inFlight[h] \/ inFlight'[h] = inFlight[h] - 1
        BY <3>3, <4>1 DEF Freed
      <4> QED
        BY <4>1, <4>2
    <3> QED
      BY <1>2, <2>1, <3>2, <3>4
  <2> QED
    BY <1>3, <2>2, <2>3 DEF WebStep
<1>4. CASE CollectorStep \/ Close \/ UNCHANGED vars
  <2>1. UNCHANGED <<now, history, sends, globalSends, inFlight>>
    BY <1>4 DEF CollectorStep, Close, Detach, vars, webVars
  <2> QED
    BY <1>2, <2>1 DEF CapInv
<1>5. CASE TimePasses
  <2>1. UNCHANGED <<history, sends, globalSends, inFlight>> /\ now' = now + 1 /\ now \in Nat
    BY <1>5 DEF TimePasses, Tick, webVars, HubInv
  <2>2. \A t : /\ \A h : StartsFrom(t, h)' = StartsFrom(t, h)
               /\ AllStartsFrom(t)' = AllStartsFrom(t)
    BY <2>1 DEF StartsFrom, AllStartsFrom
  <2>3. ASSUME NEW h
        PROVE  Cardinality(StartsFrom(now + 1, h)) = 0 /\ Cardinality(AllStartsFrom(now + 1)) = 0
    <3>1. StartsFrom(now + 1, h) = {} /\ AllStartsFrom(now + 1) = {}
      BY <2>1 DEF StartsFrom, AllStartsFrom, HubInv
    <3> QED
      BY <3>1, FS_EmptySet
  <2>4. ASSUME NEW h \in Hooks, Throttled(h), NEW t \in 0..(now + 1), t + ThrottleOf[h].window >= now + 1
        PROVE  Cardinality(StartsFrom(t, h)) <= Cardinality(Later(t, sends[h]))
    <3>1. Cardinality(Later(t, sends[h])) \in Nat
      BY LaterCounts DEF CapInv
    <3>2. CASE t = now + 1
      BY <2>3, <3>1, <3>2
    <3>3. CASE t # now + 1
      <4>1. t \in 0..now /\ t + ThrottleOf[h].window >= now
        BY <2>1, <2>4, <3>3, WebhookAssumption
      <4> QED
        BY <2>4, <4>1 DEF CapInv
    <3> QED
      BY <3>2, <3>3
  <2>5. ASSUME GlobalMax > 0, NEW t \in 0..(now + 1), t + Minute >= now + 1
        PROVE  Cardinality(AllStartsFrom(t)) <= Cardinality(Later(t, globalSends))
    <3>1. Cardinality(Later(t, globalSends)) \in Nat
      BY LaterCounts DEF CapInv
    <3>2. CASE t = now + 1
      BY <2>3, <3>1, <3>2
    <3>3. CASE t # now + 1
      <4>1. t \in 0..now /\ t + Minute >= now
        BY <2>1, <2>5, <3>3, WebhookAssumption
      <4> QED
        BY <2>5, <4>1 DEF CapInv
    <3> QED
      BY <3>2, <3>3
  <2> QED
    BY <2>1, <2>2, <2>4, <2>5 DEF CapInv, Later, Throttled
<1> QED
  BY <1>1, <1>3, <1>4, <1>5 DEF Next

LEMMA CapInitially == Init => CapInv
<1> SUFFICES ASSUME Init PROVE CapInv
  OBVIOUS
<1>1. /\ now = 0 /\ history = <<>> /\ globalSends = <<>>
      /\ sends = [h \in Hooks |-> <<>>] /\ inFlight = [h \in Hooks |-> 0]
  BY DEF Init, WebInit
<1>2. \A t, h : StartsFrom(t, h) = {} /\ AllStartsFrom(t) = {} /\ Later(t, <<>>) = {}
  BY <1>1 DEF StartsFrom, AllStartsFrom, Later
<1>3. \A t, h : /\ Cardinality(StartsFrom(t, h)) = 0 /\ Cardinality(AllStartsFrom(t)) = 0
                /\ Cardinality(Later(t, <<>>)) = 0
  BY <1>2, FS_EmptySet
<1>4. /\ <<>> \in Seq(Nat) /\ Len(<<>>) = 0 /\ DOMAIN history = {}
      /\ GlobalMax \in Nat /\ \A h \in Hooks : InFlightOf[h] \in Nat /\ ThrottleOf[h].max \in Nat
  BY <1>1, WebhookAssumption
<1>5. \A h \in Hooks : sends[h] = <<>> /\ inFlight[h] = 0
  BY <1>1
<1>6. sends = [h \in Hooks |-> sends[h]]
  BY <1>1
<1> QED
  BY <1>1, <1>3, <1>4, <1>5, <1>6 DEF CapInv

LEMMA CapsFollow == WebInv /\ HubInv /\ CapInv => CapsHold
<1> SUFFICES ASSUME WebInv, HubInv, CapInv PROVE CapsHold
  OBVIOUS
<1>1. Cardinality({i \in DOMAIN history : history[i].passed /\ history[i].at >= windowStart}) <= Ceiling
  BY HubAssumption DEF HubInv, PassedNow
<1>2. PICK S : history \in Seq(S)
  BY DEF HubInv
<1>3. now \in Nat /\ \A i \in DOMAIN history : history[i].at \in Nat
  BY DEF HubInv
<1>4. ASSUME NEW span \in Nat
      PROVE  \E t \in 0..now : /\ t + span >= now
                               /\ \A at \in Nat : at + span >= now <=> at >= t
  <2>1. CASE span >= now
    <3>1. 0 \in 0..now /\ 0 + span >= now /\ \A at \in Nat : at + span >= now <=> at >= 0
      BY <1>3, <2>1
    <3> QED
      BY <3>1
  <2>2. CASE ~(span >= now)
    <3>1. now - span \in 0..now /\ (now - span) + span >= now
          /\ \A at \in Nat : at + span >= now <=> at >= now - span
      BY <1>3, <2>2
    <3> QED
      BY <3>1
  <2> QED
    BY <2>1, <2>2
<1>5. ASSUME NEW h \in Hooks, Throttled(h)
      PROVE  Cardinality({i \in StartsWithin(ThrottleOf[h].window, h) : Incident(history[i].event)})
               <= ThrottleOf[h].max
  <2>1. ThrottleOf[h].window \in Nat /\ ThrottleOf[h].max \in Nat
    BY WebhookAssumption
  <2>2. PICK t \in 0..now : /\ t + ThrottleOf[h].window >= now
                            /\ \A at \in Nat : at + ThrottleOf[h].window >= now <=> at >= t
    BY <1>4, <2>1
  <2>3. {i \in StartsWithin(ThrottleOf[h].window, h) : Incident(history[i].event)} = StartsFrom(t, h)
    BY <1>3, <2>2 DEF StartsWithin, StartsFrom
  <2>4. Cardinality(StartsFrom(t, h)) <= Cardinality(Later(t, sends[h]))
    BY <1>5, <2>2 DEF CapInv
  <2>5. /\ Cardinality(Later(t, sends[h])) \in Nat /\ Cardinality(Later(t, sends[h])) <= Len(sends[h])
        /\ Len(sends[h]) <= ThrottleOf[h].max /\ Len(sends[h]) \in Nat
    BY <1>5, LaterCounts DEF CapInv
  <2>6. Cardinality(StartsFrom(t, h)) \in Nat
    <3>1. IsFiniteSet(DOMAIN history)
      BY <1>2, Positions, LenProperties
    <3>2. StartsFrom(t, h) \in SUBSET DOMAIN history
      BY DEF StartsFrom
    <3> QED
      BY <3>1, <3>2, FS_Subset, FS_CardinalityType
  <2>7. \A x, y, z, m \in Nat : x <= y /\ y <= z /\ z <= m => x <= m
    OBVIOUS
  <2>8. Cardinality(StartsFrom(t, h)) <= ThrottleOf[h].max
    BY <2>1, <2>4, <2>5, <2>6, <2>7, Zenon
  <2> QED
    BY <2>3, <2>8
<1>6. ASSUME NEW h \in Hooks PROVE Cardinality(Taking(h)) <= InFlightOf[h]
  BY DEF WebInv, SlotsInv, SlotsAreDeliveries, CapInv
<1>7. ASSUME GlobalMax > 0
      PROVE  Cardinality({start \in (DOMAIN history) \X Hooks : start[1] \in StartsWithin(Minute, start[2])})
               <= GlobalMax
  <2>1. Minute \in Nat /\ GlobalMax \in Nat
    BY WebhookAssumption
  <2>2. PICK t \in 0..now : /\ t + Minute >= now
                            /\ \A at \in Nat : at + Minute >= now <=> at >= t
    BY <1>4, <2>1
  <2>3. {start \in (DOMAIN history) \X Hooks : start[1] \in StartsWithin(Minute, start[2])} = AllStartsFrom(t)
    BY <1>3, <2>2 DEF StartsWithin, AllStartsFrom
  <2>4. Cardinality(AllStartsFrom(t)) <= Cardinality(Later(t, globalSends))
    BY <1>7, <2>2 DEF CapInv
  <2>5. /\ Cardinality(Later(t, globalSends)) \in Nat /\ Cardinality(Later(t, globalSends)) <= Len(globalSends)
        /\ Len(globalSends) <= GlobalMax /\ Len(globalSends) \in Nat
    BY <1>7, LaterCounts DEF CapInv
  <2>6. Cardinality(AllStartsFrom(t)) \in Nat
    <3>1. IsFiniteSet((DOMAIN history) \X Hooks)
      BY <1>2, Positions, LenProperties, WebhookAssumption, FS_Product
    <3>2. AllStartsFrom(t) \in SUBSET ((DOMAIN history) \X Hooks)
      BY DEF AllStartsFrom
    <3> QED
      BY <3>1, <3>2, FS_Subset, FS_CardinalityType
  <2>7. \A x, y, z, m \in Nat : x <= y /\ y <= z /\ z <= m => x <= m
    OBVIOUS
  <2>8. Cardinality(AllStartsFrom(t)) <= GlobalMax
    BY <2>1, <2>4, <2>5, <2>6, <2>7, Zenon
  <2> QED
    BY <2>3, <2>8
<1> QED
  BY <1>1, <1>5, <1>6, <1>7 DEF CapsHold

\* For any hooks, caps, windows and traffic: the hub lets at most its ceiling
\* through in a window, and no hook, and not all of them together, start more
\* deliveries than their throttle, slots and minute allow.
THEOREM EveryCapHolds == Spec => []CapsHold
<1>1. Init => WebInv /\ HubInv /\ CapInv
  BY WebInitially, HubInitially, CapInitially
<1>2. WebInv /\ HubInv /\ CapInv /\ [Next]_vars => (WebInv /\ HubInv /\ CapInv)'
  BY WebStepKeeps, HubNext, CapNext
<1> QED
  BY <1>1, <1>2, CapsFollow, PTL DEF Spec

(* ------------------------------- repeats --------------------------------- *)

\* An event the hub let through, and a hook's alert on it, are remembered for
\* as long as their window lasts, or as many others were seen since.
RepeatInv ==
  /\ Table(seen)
  /\ recent = [h \in Hooks |-> recent[h]]
  /\ \A h \in Hooks : Table(recent[h])
  /\ \A i \in DOMAIN history : Incident(history[i].event) =>
       /\ history[i].passed /\ Window > 0 /\ history[i].at + Window > now =>
            Sheltered(seen, Key(history[i].event), history[i].at + Window, KeysBetween(i, Len(history) + 1), Capacity)
       /\ \A h \in Hooks : h \in history[i].started /\ DedupeOf[h] > 0 /\ history[i].at + DedupeOf[h] > now =>
            Sheltered(recent[h], history[i].event.ip, history[i].at + DedupeOf[h],
                    AddressesBetween(i, Len(history) + 1), HookCapacity)
  /\ RepeatsCollapse

LEMMA BetweenFinite ==
  ASSUME NEW S, history \in Seq(S), NEW i \in DOMAIN history, NEW j \in 1..(Len(history) + 1)
  PROVE  IsFiniteSet(KeysBetween(i, j)) /\ IsFiniteSet(AddressesBetween(i, j))
<1> DEFINE P == {k \in (i + 1)..(j - 1) : Incident(history[k].event)}
           f == [k \in P |-> Key(history[k].event)]
           g == [k \in P |-> history[k].event.ip]
<1>1. IsFiniteSet(P)
  <2>1. i + 1 \in Int /\ j - 1 \in Int
    BY LenProperties
  <2>2. IsFiniteSet((i + 1)..(j - 1))
    BY <2>1, FS_Interval
  <2>3. P \subseteq (i + 1)..(j - 1)
    OBVIOUS
  <2> QED
    BY <2>2, <2>3, FS_Subset
<1>2. /\ KeysBetween(i, j) \subseteq {f[k] : k \in P}
      /\ AddressesBetween(i, j) \subseteq {g[k] : k \in P}
  BY DEF KeysBetween, AddressesBetween
<1>3. DOMAIN f = P /\ DOMAIN g = P
  OBVIOUS
<1> HIDE DEF P, f, g
<1>4. IsFiniteSet({f[k] : k \in P}) /\ IsFiniteSet({g[k] : k \in P})
  BY <1>1, <1>3, ImageFinite
<1> QED
  BY <1>2, <1>4, FS_Subset

(* What lies between two events stays; a further one adds to what has come   *)
(* since.                                                                    *)
LEMMA BetweenGrows ==
  ASSUME NEW S, history \in Seq(S), NEW r, NEW e, Recorded(r, e), NEW n, n = Len(history), NEW i \in 1..n
  PROVE  /\ \A j \in 1..(n + 1) : /\ KeysBetween(i, j)' = KeysBetween(i, j)
                                 /\ AddressesBetween(i, j)' = AddressesBetween(i, j)
         /\ KeysBetween(i, n + 2)' =
              KeysBetween(i, n + 1) \union (IF Incident(e) THEN {Key(e)} \ {Key(history[i].event)} ELSE {})
         /\ AddressesBetween(i, n + 2)' =
              AddressesBetween(i, n + 1) \union (IF Incident(e) THEN {e.ip} \ {history[i].event.ip} ELSE {})
<1>1. /\ n \in Nat /\ DOMAIN history = 1..n /\ DOMAIN history' = 1..(n + 1)
      /\ history'[n + 1] = r /\ \A k \in 1..n : history'[k] = history[k]
  BY RecordedAt
<1>2. r.event = e
  BY DEF Recorded
<1>3. ASSUME NEW j \in 1..(n + 1)
      PROVE  KeysBetween(i, j)' = KeysBetween(i, j) /\ AddressesBetween(i, j)' = AddressesBetween(i, j)
  <2>1. \A k \in (i + 1)..(j - 1) : history'[k] = history[k]
    BY <1>1
  <2>2. history'[i] = history[i]
    BY <1>1
  <2>3. {k \in (i + 1)..(j - 1) : Incident(history'[k].event)} = {k \in (i + 1)..(j - 1) : Incident(history[k].event)}
    BY <2>1
  <2> QED
    BY <2>1, <2>2, <2>3 DEF KeysBetween, AddressesBetween
<1> DEFINE P == {k \in (i + 1)..n : Incident(history[k].event)}
           Q == {k \in (i + 1)..(n + 1) : Incident(history'[k].event)}
<1>4. Q = P \union (IF Incident(e) THEN {n + 1} ELSE {})
  <2>1. i \in 1..n
    OBVIOUS
  <2>2. \A k \in (i + 1)..n : history'[k] = history[k] /\ k # n + 1
    BY <1>1, <2>1
  <2>3. \A k : k \in (i + 1)..(n + 1) <=> k \in (i + 1)..n \/ k = n + 1
    BY <1>1, <2>1
  <2> QED
    BY <1>1, <1>2, <2>2, <2>3
<1>5. \A k \in P : history'[k] = history[k]
  BY <1>1
<1>6. history'[i] = history[i] /\ n + 2 - 1 = n + 1 /\ n + 1 - 1 = n
  BY <1>1
<1>7. /\ KeysBetween(i, n + 2)' = {Key(history'[k].event) : k \in Q} \ {Key(history[i].event)}
      /\ KeysBetween(i, n + 1) = {Key(history[k].event) : k \in P} \ {Key(history[i].event)}
      /\ AddressesBetween(i, n + 2)' = {history'[k].event.ip : k \in Q} \ {history[i].event.ip}
      /\ AddressesBetween(i, n + 1) = {history[k].event.ip : k \in P} \ {history[i].event.ip}
  BY <1>6 DEF KeysBetween, AddressesBetween
<1> HIDE DEF P, Q
<1>8. /\ {Key(history'[k].event) : k \in Q} =
           {Key(history[k].event) : k \in P} \union (IF Incident(e) THEN {Key(e)} ELSE {})
      /\ {history'[k].event.ip : k \in Q} =
           {history[k].event.ip : k \in P} \union (IF Incident(e) THEN {e.ip} ELSE {})
  <2>1. CASE Incident(e)
    BY <1>1, <1>2, <1>4, <1>5, <2>1
  <2>2. CASE ~Incident(e)
    BY <1>4, <1>5, <2>2
  <2> QED
    BY <2>1, <2>2
<1>9. /\ KeysBetween(i, n + 2)' =
           KeysBetween(i, n + 1) \union (IF Incident(e) THEN {Key(e)} \ {Key(history[i].event)} ELSE {})
      /\ AddressesBetween(i, n + 2)' =
           AddressesBetween(i, n + 1) \union (IF Incident(e) THEN {e.ip} \ {history[i].event.ip} ELSE {})
  BY <1>7, <1>8
<1> QED
  BY <1>3, <1>9

(* What the hub's table guarded it guards still, its own key included. *)
LEMMA HubGuards ==
  ASSUME HubInv, Table(seen), NEW e, Publish(e)
  PROVE  /\ Table(seen')
         /\ Window > 0 /\ Incident(e) /\ Passes(e) =>
              ~Holds(seen, Key(e), now) /\ Retained(seen', Key(e), now + Window, {})
         /\ \A key, B, C : \A until \in Nat :
              (/\ Window > 0 /\ until > now /\ until <= now + Window
               /\ IsFiniteSet(B) /\ IsFiniteSet(C) /\ B \subseteq C
               /\ Incident(e) /\ Key(e) # key => Key(e) \in C
               /\ Sheltered(seen, key, until, B, Capacity))
                => Sheltered(seen', key, until, C, Capacity)
<1>1. now \in Nat /\ Window \in Nat /\ Capacity \in Nat \ {0}
  BY HubAssumption DEF HubInv
<1>2. seen' = IF ~Deduplicates(e) THEN seen
              ELSE IF Repeats(e) THEN Used(seen, Key(e), now)
              ELSE Put(seen, Key(e), TRUE, Window, Capacity, now)
  BY Zenon DEF Publish, Emit
<1>3. CASE ~Deduplicates(e)
  <2>1. seen' = seen /\ (Window > 0 => ~Incident(e))
    BY <1>2, <1>3 DEF Deduplicates
  <2>2. ASSUME NEW key, NEW B, NEW C, NEW until \in Nat, IsFiniteSet(C), B \subseteq C,
               Sheltered(seen, key, until, B, Capacity)
        PROVE  Sheltered(seen', key, until, C, Capacity)
    BY <1>1, <2>1, <2>2, GuardedMore
  <2> QED
    BY <2>1, <2>2, Zenon
<1>4. CASE Deduplicates(e) /\ Repeats(e)
  <2>1. Incident(e) /\ ~Passes(e) /\ Holds(seen, Key(e), now)
    BY <1>4 DEF Deduplicates, Repeats, Passes
  <2>2. seen' = Used(seen, Key(e), now)
    BY <1>2, <1>4
  <2>3. Table(seen')
    BY <1>1, <2>1, <2>2, UsedTable
  <2>4. ASSUME NEW key, NEW B, NEW C, NEW until \in Nat,
               Window > 0, until > now, until <= now + Window, IsFiniteSet(B), IsFiniteSet(C), B \subseteq C,
               Key(e) # key => Key(e) \in C,
               Sheltered(seen, key, until, B, Capacity)
        PROVE  Sheltered(seen', key, until, C, Capacity)
    <3>1. Window \in Nat \ {0}
      BY <1>1, <2>4
    <3> QED
      BY <1>1, <2>1, <2>2, <2>4, <3>1, GuardKept
  <2> QED
    BY <2>1, <2>3, <2>4, Zenon
<1>5. CASE Deduplicates(e) /\ ~Repeats(e)
  <2>1. Incident(e) /\ Window \in Nat \ {0} /\ ~Holds(seen, Key(e), now)
    BY <1>1, <1>5 DEF Deduplicates, Repeats
  <2>2. seen' = Put(seen, Key(e), TRUE, Window, Capacity, now)
    BY <1>2, <1>5
  <2>3. Table(seen') /\ Retained(seen', Key(e), now + Window, {})
    BY <1>1, <2>1, <2>2, PutTable
  <2>4. ASSUME NEW key, NEW B, NEW C, NEW until \in Nat,
               Window > 0, until > now, until <= now + Window, IsFiniteSet(B), IsFiniteSet(C), B \subseteq C,
               Key(e) # key => Key(e) \in C,
               Sheltered(seen, key, until, B, Capacity)
        PROVE  Sheltered(seen', key, until, C, Capacity)
    BY <1>1, <2>1, <2>2, <2>4, GuardKept
  <2> QED
    BY <2>1, <2>3, <2>4, Zenon
<1> QED
  BY <1>3, <1>4, <1>5

(* So does a hook's table of addresses. *)
LEMMA HookGuards ==
  ASSUME HubInv, NEW h \in Hooks, Table(recent[h]), recent = [g \in Hooks |-> recent[g]], NEW e, Publish(e)
  PROVE  /\ Table(recent'[h])
         /\ Reaches("webhooks", e) /\ DedupeOf[h] > 0 /\ Incident(e) /\ h \in Started(e) =>
              ~Holds(recent[h], e.ip, now) /\ Retained(recent'[h], e.ip, now + DedupeOf[h], {})
         /\ \A key, B, C : \A until \in Nat :
              (/\ DedupeOf[h] > 0 /\ until > now /\ until <= now + DedupeOf[h]
               /\ IsFiniteSet(B) /\ IsFiniteSet(C) /\ B \subseteq C
               /\ Incident(e) /\ e.ip # key => e.ip \in C
               /\ Sheltered(recent[h], key, until, B, HookCapacity))
                => Sheltered(recent'[h], key, until, C, HookCapacity)
<1>1. now \in Nat /\ DedupeOf[h] \in Nat /\ HookCapacity \in Nat \ {0}
  BY WebhookAssumption DEF HubInv
<1>2. CASE Reaches("webhooks", e) /\ Remembers(h, e) /\ DedupeOf[h] > 0
  <2>1. recent'[h] = Put(recent[h], e.ip, now, DedupeOf[h], HookCapacity, now)
    BY <1>2 DEF Publish, Dispatch
  <2>2. Incident(e)
    BY <1>2 DEF Reaches, Takes, Remembers
  <2>3. ~Holds(recent[h], e.ip, now)
    BY <1>2 DEF Remembers, Asking, ShouldSend, RepeatsHere
  <2>4. DedupeOf[h] \in Nat \ {0}
    BY <1>1, <1>2
  <2>5. Table(recent'[h]) /\ Retained(recent'[h], e.ip, now + DedupeOf[h], {})
    <3> DEFINE put(v) == Put(recent[h], e.ip, v, DedupeOf[h], HookCapacity, now)
    <3>1. \A v : Table(put(v)) /\ Retained(put(v), e.ip, now + DedupeOf[h], {})
      BY <1>1, <2>4, PutTable
    <3>2. Table(put(now)) /\ Retained(put(now), e.ip, now + DedupeOf[h], {})
      BY <3>1
    <3> QED
      BY <2>1, <3>2
  <2>6. ASSUME NEW key, NEW B, NEW C, NEW until \in Nat,
               until > now, until <= now + DedupeOf[h], IsFiniteSet(B), IsFiniteSet(C), B \subseteq C,
               e.ip # key => e.ip \in C,
               Sheltered(recent[h], key, until, B, HookCapacity)
        PROVE  Sheltered(recent'[h], key, until, C, HookCapacity)
    BY <1>1, <2>1, <2>4, <2>6, GuardKept
  <2> QED
    BY <2>2, <2>3, <2>5, <2>6, Zenon
<1>3. CASE ~(Reaches("webhooks", e) /\ Remembers(h, e) /\ DedupeOf[h] > 0)
  <2>1. recent'[h] = recent[h]
    <3>1. CASE Reaches("webhooks", e)
      BY <1>3, <3>1 DEF Publish, Dispatch
    <3>2. CASE ~Reaches("webhooks", e)
      BY <3>2 DEF Publish, webVars
    <3> QED
      BY <3>1, <3>2
  <2>2. ~(Reaches("webhooks", e) /\ DedupeOf[h] > 0 /\ Incident(e) /\ h \in Started(e))
    BY <1>3 DEF Remembers, Started, Incident
  <2>3. ASSUME NEW key, NEW B, NEW C, NEW until \in Nat, IsFiniteSet(C), B \subseteq C,
               Sheltered(recent[h], key, until, B, HookCapacity)
        PROVE  Sheltered(recent'[h], key, until, C, HookCapacity)
    BY <1>1, <2>1, <2>3, GuardedMore
  <2> QED
    BY <2>1, <2>2, <2>3, Zenon
<1> QED
  BY <1>2, <1>3

LEMMA RepeatPublishes == ASSUME HubInv, RepeatInv, NEW e, Publish(e) PROVE RepeatInv'
<1>1. PICK r : Recorded(r, e)
  BY PublishRecords
<1>2. PICK n : n = Len(history)
  OBVIOUS
<1>3. PICK S : history \in Seq(S)
  BY DEF HubInv
<1>4. /\ n \in Nat /\ DOMAIN history = 1..n /\ DOMAIN history' = 1..(n + 1) /\ Len(history') = n + 1
      /\ history'[n + 1] = r /\ \A i \in 1..n : history'[i] = history[i]
  <2>1. PICK T : history' \in Seq(T)
    BY <1>1, <1>3, RecordedAt
  <2>2. /\ n \in Nat /\ DOMAIN history = 1..n /\ DOMAIN history' = 1..(n + 1)
        /\ history'[n + 1] = r /\ \A i \in 1..n : history'[i] = history[i]
    BY <1>1, <1>2, <1>3, RecordedAt
  <2>3. Len(history') \in Nat /\ DOMAIN history' = 1..Len(history')
    BY <2>1, LenProperties
  <2>4. \A m \in Nat : 1..m = 1..(n + 1) => m = n + 1
    <3> SUFFICES ASSUME NEW m \in Nat, 1..m = 1..(n + 1) PROVE m = n + 1
      OBVIOUS
    <3>1. n + 1 \in 1..m /\ m \in 0..(n + 1)
      <4>1. n + 1 \in 1..(n + 1)
        BY <2>2
      <4>2. m = 0 \/ m \in 1..m
        OBVIOUS
      <4> QED
        BY <2>2, <4>1, <4>2
    <3> QED
      BY <2>2, <3>1
  <2>5. Len(history') = n + 1
    BY <2>2, <2>3, <2>4
  <2> QED
    BY <2>2, <2>5
<1>5. /\ now \in Nat /\ now' = now /\ Window \in Nat /\ Capacity \in Nat \ {0} /\ HookCapacity \in Nat \ {0}
      /\ \A h \in Hooks : DedupeOf[h] \in Nat
      /\ \A i \in 1..n : history[i].at \in Nat /\ history[i].at <= now
  BY <1>4, HubAssumption, WebhookAssumption DEF HubInv, Publish
<1>6. /\ r.event = e /\ r.at = now /\ (r.passed <=> Passes(e))
      /\ \A h : h \in r.started => Reaches("webhooks", e) /\ h \in Started(e)
  BY <1>1 DEF Recorded
<1>7. /\ Table(seen) /\ recent = [h \in Hooks |-> recent[h]]
      /\ \A h \in Hooks : Table(recent[h])
  BY DEF RepeatInv
<1>8. /\ \A i \in 1..n : \A j \in 1..(n + 1) :
           /\ KeysBetween(i, j)' = KeysBetween(i, j) /\ IsFiniteSet(KeysBetween(i, j))
           /\ AddressesBetween(i, j)' = AddressesBetween(i, j) /\ IsFiniteSet(AddressesBetween(i, j))
      /\ \A i \in 1..n :
           /\ KeysBetween(i, n + 2)' =
                KeysBetween(i, n + 1) \union (IF Incident(e) THEN {Key(e)} \ {Key(history[i].event)} ELSE {})
           /\ AddressesBetween(i, n + 2)' =
                AddressesBetween(i, n + 1) \union (IF Incident(e) THEN {e.ip} \ {history[i].event.ip} ELSE {})
  <2>1. ASSUME NEW i \in 1..n, NEW j \in 1..(n + 1)
        PROVE  IsFiniteSet(KeysBetween(i, j)) /\ IsFiniteSet(AddressesBetween(i, j))
    BY <1>2, <1>3, <1>4, BetweenFinite
  <2>2. ASSUME NEW i \in 1..n
        PROVE  /\ \A j \in 1..(n + 1) : /\ KeysBetween(i, j)' = KeysBetween(i, j)
                                       /\ AddressesBetween(i, j)' = AddressesBetween(i, j)
               /\ KeysBetween(i, n + 2)' =
                    KeysBetween(i, n + 1) \union (IF Incident(e) THEN {Key(e)} \ {Key(history[i].event)} ELSE {})
               /\ AddressesBetween(i, n + 2)' =
                    AddressesBetween(i, n + 1) \union (IF Incident(e) THEN {e.ip} \ {history[i].event.ip} ELSE {})
    BY <1>1, <1>2, <1>3, BetweenGrows
  <2> QED
    BY <2>1, <2>2
\* Finite, with what the event adds.
<1>9. ASSUME NEW i \in 1..n
      PROVE  /\ IsFiniteSet(KeysBetween(i, n + 2)') /\ KeysBetween(i, n + 1) \subseteq KeysBetween(i, n + 2)'
             /\ Incident(e) /\ Key(e) # Key(history[i].event) => Key(e) \in KeysBetween(i, n + 2)'
             /\ IsFiniteSet(AddressesBetween(i, n + 2)')
             /\ AddressesBetween(i, n + 1) \subseteq AddressesBetween(i, n + 2)'
             /\ Incident(e) /\ e.ip # history[i].event.ip => e.ip \in AddressesBetween(i, n + 2)'
  <2>1. n + 1 \in 1..(n + 1)
    BY <1>4
  <2>2. \A D : IsFiniteSet(D) => \A x, y : IsFiniteSet(D \union ({x} \ {y})) /\ IsFiniteSet(D \union {})
    <3> SUFFICES ASSUME NEW D, IsFiniteSet(D), NEW x, NEW y
                 PROVE  IsFiniteSet(D \union ({x} \ {y})) /\ IsFiniteSet(D \union {})
      OBVIOUS
    <3>1. IsFiniteSet(D \union {x})
      BY FS_AddElement
    <3>2. D \union ({x} \ {y}) \subseteq D \union {x} /\ D \union {} = D
      OBVIOUS
    <3> QED
      BY <3>1, <3>2, FS_Subset
  <2>3. IsFiniteSet(KeysBetween(i, n + 2)')
    <3>1. IsFiniteSet(KeysBetween(i, n + 1))
      BY <1>8, <2>1
    <3>2. CASE Incident(e)
      <4>1. KeysBetween(i, n + 2)' = KeysBetween(i, n + 1) \union ({Key(e)} \ {Key(history[i].event)})
        BY <1>8, <3>2
      <4>2. IsFiniteSet(KeysBetween(i, n + 1) \union ({Key(e)} \ {Key(history[i].event)}))
        BY <2>2, <3>1
      <4> QED
        BY <4>1, <4>2, Zenon
    <3>3. CASE ~Incident(e)
      BY <1>8, <2>2, <3>1, <3>3
    <3> QED
      BY <3>2, <3>3
  <2>4. IsFiniteSet(AddressesBetween(i, n + 2)')
    <3>1. IsFiniteSet(AddressesBetween(i, n + 1))
      BY <1>8, <2>1
    <3>2. CASE Incident(e)
      <4>1. AddressesBetween(i, n + 2)' = AddressesBetween(i, n + 1) \union ({e.ip} \ {history[i].event.ip})
        BY <1>8, <3>2
      <4>2. IsFiniteSet(AddressesBetween(i, n + 1) \union ({e.ip} \ {history[i].event.ip}))
        BY <2>2, <3>1
      <4> QED
        BY <4>1, <4>2, Zenon
    <3>3. CASE ~Incident(e)
      BY <1>8, <2>2, <3>1, <3>3
    <3> QED
      BY <3>2, <3>3
  <2> QED
    BY <1>8, <2>3, <2>4
<1>10. Table(seen') /\ \A h \in Hooks : Table(recent'[h])
  BY <1>7, HubGuards, HookGuards
<1>11. recent' = [h \in Hooks |-> recent'[h]]
  <2>1. CASE Reaches("webhooks", e)
    BY <2>1 DEF Publish, Dispatch
  <2>2. CASE ~Reaches("webhooks", e)
    BY <1>7, <2>2 DEF Publish, webVars
  <2> QED
    BY <2>1, <2>2
<1> DEFINE HubGuard(i) == history'[i].passed /\ Window > 0 /\ history'[i].at + Window > now' =>
             Sheltered(seen', Key(history'[i].event), history'[i].at + Window, KeysBetween(i, n + 2)', Capacity)
           HookGuard(i, h) == h \in history'[i].started /\ DedupeOf[h] > 0 /\ history'[i].at + DedupeOf[h] > now' =>
             Sheltered(recent'[h], history'[i].event.ip, history'[i].at + DedupeOf[h],
                     AddressesBetween(i, n + 2)', HookCapacity)
<1>12. ASSUME NEW i \in 1..n, Incident(history[i].event) PROVE HubGuard(i)
  <2> SUFFICES ASSUME history[i].passed, Window > 0, history[i].at + Window > now
               PROVE  Sheltered(seen', Key(history[i].event), history[i].at + Window, KeysBetween(i, n + 2)', Capacity)
    BY <1>4, <1>5
  <2>1. Sheltered(seen, Key(history[i].event), history[i].at + Window, KeysBetween(i, n + 1), Capacity)
    BY <1>2, <1>4, <1>12 DEF RepeatInv
  <2>2. /\ history[i].at + Window \in Nat /\ history[i].at + Window <= now + Window
        /\ n + 1 \in 1..(n + 1)
    BY <1>4, <1>5
  <2> QED
    BY <1>7, <1>8, <1>9, <2>1, <2>2, HubGuards
<1>13. ASSUME NEW i \in 1..n, Incident(history[i].event), NEW h \in Hooks PROVE HookGuard(i, h)
  <2> SUFFICES ASSUME h \in history[i].started, DedupeOf[h] > 0, history[i].at + DedupeOf[h] > now
               PROVE  Sheltered(recent'[h], history[i].event.ip, history[i].at + DedupeOf[h],
                              AddressesBetween(i, n + 2)', HookCapacity)
    BY <1>4, <1>5
  <2>1. Sheltered(recent[h], history[i].event.ip, history[i].at + DedupeOf[h], AddressesBetween(i, n + 1), HookCapacity)
    BY <1>2, <1>4, <1>13 DEF RepeatInv
  <2>2. /\ history[i].at + DedupeOf[h] \in Nat /\ history[i].at + DedupeOf[h] <= now + DedupeOf[h]
        /\ n + 1 \in 1..(n + 1)
    BY <1>4, <1>5
  <2> QED
    BY <1>7, <1>8, <1>9, <2>1, <2>2, HookGuards
<1>14. ASSUME Incident(e) PROVE HubGuard(n + 1) /\ \A h \in Hooks : HookGuard(n + 1, h)
  <2>1. /\ history'[n + 1].event = e /\ history'[n + 1].at = now
        /\ history'[n + 1].passed <=> Passes(e)
        /\ \A h : h \in history'[n + 1].started => Reaches("webhooks", e) /\ h \in Started(e)
    BY <1>4, <1>6
  <2>2. HubGuard(n + 1)
    <3>1. \A B : Retained(seen', Key(e), now + Window, {}) => Sheltered(seen', Key(e), now + Window, B, Capacity)
      <4>1. now + Window \in Nat
        BY <1>5
      <4> QED
        BY <1>10, <4>1, Weaker DEF Sheltered
    <3> QED
      BY <1>7, <1>14, <2>1, <3>1, HubGuards
  <2>3. ASSUME NEW h \in Hooks PROVE HookGuard(n + 1, h)
    <3>1. \A B : Retained(recent'[h], e.ip, now + DedupeOf[h], {})
                   => Sheltered(recent'[h], e.ip, now + DedupeOf[h], B, HookCapacity)
      <4>1. now + DedupeOf[h] \in Nat
        BY <1>5
      <4> QED
        BY <1>10, <4>1, Weaker DEF Sheltered
    <3> QED
      BY <1>7, <1>14, <2>1, <3>1, HookGuards
  <2> QED
    BY <2>2, <2>3
<1>15. RepeatsCollapse'
  <2> SUFFICES ASSUME NEW i \in 1..(n + 1), NEW j \in 1..(n + 1), i < j, Incident(history'[i].event)
               PROVE  /\ (/\ Key(history'[i].event) = Key(history'[j].event)
                          /\ history'[i].passed /\ history'[j].passed
                          /\ history'[j].at - history'[i].at < Window)
                           => Cardinality(KeysBetween(i, j)') >= Capacity
                      /\ \A h \in history'[i].started \intersect history'[j].started :
                           (/\ Incident(history'[j].event)
                            /\ history'[i].event.ip = history'[j].event.ip
                            /\ history'[j].at - history'[i].at < DedupeOf[h])
                             => Cardinality(AddressesBetween(i, j)') >= HookCapacity
    BY <1>4 DEF RepeatsCollapse
  <2>1. i \in 1..n /\ history'[i] = history[i]
    BY <1>4
  <2>2. KeysBetween(i, j)' = KeysBetween(i, j) /\ AddressesBetween(i, j)' = AddressesBetween(i, j)
    BY <1>8, <2>1
  <2>3. CASE j \in 1..n
    BY <1>4, <2>1, <2>2, <2>3 DEF RepeatInv, RepeatsCollapse
  <2>4. CASE j = n + 1
    <3>1. /\ history'[j].event = e /\ history'[j].at = now
          /\ history'[j].passed <=> Passes(e)
          /\ \A h : h \in history'[j].started => Reaches("webhooks", e) /\ h \in Started(e)
      BY <1>4, <1>6, <2>4
    <3>2. ASSUME Key(history[i].event) = Key(e), history[i].passed, Passes(e), now - history[i].at < Window
          PROVE  Cardinality(KeysBetween(i, j)) >= Capacity
      <4>1. Incident(e)
        BY <2>1, <3>2 DEF Key, Incident
      <4>2. Window > 0 /\ history[i].at + Window > now /\ history[i].at + Window \in Nat
        BY <1>5, <2>1, <3>2
      <4>3. Sheltered(seen, Key(e), history[i].at + Window, KeysBetween(i, j), Capacity)
        BY <1>2, <1>4, <2>1, <2>4, <3>2, <4>2 DEF RepeatInv
      <4>4. ~Holds(seen, Key(e), now)
        BY <1>7, <3>2, <4>1, <4>2, HubGuards
      <4> QED
        BY <1>5, <1>7, <4>2, <4>3, <4>4, GuardHolds
    <3>3. ASSUME NEW h \in history[i].started, h \in history'[j].started, Incident(e),
                 history[i].event.ip = e.ip, now - history[i].at < DedupeOf[h]
          PROVE  Cardinality(AddressesBetween(i, j)) >= HookCapacity
      <4>1. h \in Hooks /\ Reaches("webhooks", e) /\ h \in Started(e)
        BY <3>1, <3>3 DEF Started, Asking, Free
      <4>2. DedupeOf[h] > 0 /\ history[i].at + DedupeOf[h] > now /\ history[i].at + DedupeOf[h] \in Nat
        BY <1>5, <2>1, <3>3, <4>1
      <4>3. Sheltered(recent[h], e.ip, history[i].at + DedupeOf[h], AddressesBetween(i, j), HookCapacity)
        BY <1>2, <1>4, <2>1, <2>4, <3>3, <4>1, <4>2 DEF RepeatInv
      <4>4. ~Holds(recent[h], e.ip, now)
        BY <1>7, <3>3, <4>1, <4>2, HookGuards
      <4> QED
        BY <1>5, <1>7, <4>1, <4>2, <4>3, <4>4, GuardHolds
    <3> QED
      BY <2>1, <2>2, <3>1, <3>2, <3>3
  <2> QED
    BY <1>4, <2>3, <2>4
<1>16. ASSUME NEW i \in 1..(n + 1), Incident(history'[i].event)
       PROVE  HubGuard(i) /\ \A h \in Hooks : HookGuard(i, h)
  <2>1. CASE i \in 1..n
    <3>1. Incident(history[i].event)
      BY <1>4, <1>16, <2>1
    <3> QED
      BY <1>12, <1>13, <2>1, <3>1
  <2>2. CASE i = n + 1
    <3>1. Incident(e)
      BY <1>4, <1>6, <1>16, <2>2
    <3>2. HubGuard(n + 1) /\ \A h \in Hooks : HookGuard(n + 1, h)
      BY <1>14, <3>1
    <3> HIDE DEF HubGuard, HookGuard
    <3> QED
      BY <2>2, <3>2
  <2> QED
    BY <1>4, <2>1, <2>2
<1>17. n + 2 = Len(history') + 1
  BY <1>4
<1> QED
  BY <1>4, <1>10, <1>11, <1>15, <1>16, <1>17 DEF RepeatInv

LEMMA RepeatNext == HubInv /\ RepeatInv /\ [Next]_vars => RepeatInv'
<1> SUFFICES ASSUME HubInv, RepeatInv, [Next]_vars PROVE RepeatInv'
  OBVIOUS
<1>1. ASSUME NEW e, Publish(e) PROVE RepeatInv'
  BY <1>1, RepeatPublishes
<1>2. ASSUME UNCHANGED <<history, seen, recent>>, now' \in Nat, now' >= now
      PROVE  RepeatInv'
  <2>1. /\ \A i, j : KeysBetween(i, j)' = KeysBetween(i, j) /\ AddressesBetween(i, j)' = AddressesBetween(i, j)
        /\ Len(history') = Len(history)
    BY <1>2 DEF KeysBetween, AddressesBetween
  <2>2. RepeatsCollapse'
    BY <1>2, <2>1 DEF RepeatInv, RepeatsCollapse
  <2>3. /\ now \in Nat /\ Window \in Nat /\ \A h \in Hooks : DedupeOf[h] \in Nat
        /\ \A i \in DOMAIN history : history[i].at \in Nat
    BY HubAssumption, WebhookAssumption DEF HubInv
  <2>4. ASSUME NEW i \in DOMAIN history, NEW span \in Nat, history[i].at + span > now'
        PROVE  history[i].at + span > now
    BY <1>2, <2>3, <2>4
  <2>5. Table(seen') /\ recent' = [h \in Hooks |-> recent'[h]] /\ \A h \in Hooks : Table(recent'[h])
    BY <1>2 DEF RepeatInv
  <2>6. ASSUME NEW i \in DOMAIN history, Incident(history[i].event), history[i].passed, Window > 0,
               history[i].at + Window > now'
        PROVE  Sheltered(seen, Key(history[i].event), history[i].at + Window, KeysBetween(i, Len(history) + 1), Capacity)
    BY <2>3, <2>4, <2>6 DEF RepeatInv
  <2>7. ASSUME NEW i \in DOMAIN history, Incident(history[i].event), NEW h \in Hooks, h \in history[i].started,
               DedupeOf[h] > 0, history[i].at + DedupeOf[h] > now'
        PROVE  Sheltered(recent[h], history[i].event.ip, history[i].at + DedupeOf[h],
                       AddressesBetween(i, Len(history) + 1), HookCapacity)
    BY <2>3, <2>4, <2>7 DEF RepeatInv
  <2> QED
    BY <1>2, <2>1, <2>2, <2>5, <2>6, <2>7 DEF RepeatInv
<1>3. CASE WebStep
  <2>1. UNCHANGED <<now, history, seen>>
    BY <1>3 DEF WebStep, hubVars
  <2>2. recent' = recent
    BY <1>3 DEF WebStep, Delivering, Summarising, Answered, Fails, Retries, SummaryFires
  <2> QED
    BY <1>2, <2>1, <2>2 DEF HubInv
<1>4. CASE CollectorStep \/ Close \/ UNCHANGED vars
  <2>1. UNCHANGED <<now, history, seen, recent>>
    BY <1>4 DEF CollectorStep, Close, CloseHub, Detach, vars, hubVars, webVars
  <2> QED
    BY <1>2, <2>1 DEF HubInv
<1>5. CASE TimePasses
  <2>1. UNCHANGED <<history, seen, recent>> /\ now' = now + 1
    BY <1>5 DEF TimePasses, Tick, hubVars, webVars
  <2> QED
    BY <1>2, <2>1 DEF HubInv
<1> QED
  BY <1>1, <1>3, <1>4, <1>5 DEF Next

LEMMA RepeatInitially == Init => RepeatInv
<1> SUFFICES ASSUME Init PROVE RepeatInv
  OBVIOUS
<1>1. seen = <<>> /\ recent = [h \in Hooks |-> <<>>] /\ history = <<>>
  BY DEF Init, HubInit, WebInit
<1>2. Table(<<>>)
  BY DEF Table
<1>3. DOMAIN history = {}
  BY <1>1
<1>4. \A h \in Hooks : recent[h] = <<>>
  BY <1>1
<1>5. recent = [h \in Hooks |-> recent[h]]
  BY <1>1
<1> QED
  BY <1>1, <1>2, <1>3, <1>4, <1>5 DEF RepeatInv, RepeatsCollapse

\* For any window, ceiling, capacity, hooks and traffic: a repeat gets past the
\* hub, or past a hook, within its window only after as many other keys as the
\* table remembers.
THEOREM RepeatsAreCollapsed == Spec => []RepeatsCollapse
<1>1. Init => HubInv /\ RepeatInv
  BY HubInitially, RepeatInitially
<1>2. HubInv /\ RepeatInv /\ [Next]_vars => (HubInv /\ RepeatInv)'
  BY HubNext, RepeatNext
<1>3. RepeatInv => RepeatsCollapse
  BY DEF RepeatInv
<1> QED
  BY <1>1, <1>2, <1>3, PTL DEF Spec

============================================================================
