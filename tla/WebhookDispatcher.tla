------------------------- MODULE WebhookDispatcher -------------------------
(* WebhookDispatcher (src/src/management/webhooks.ts): one POST per incident *)
(* and hook, each hook bounded by its own dedupe window, throttle and        *)
(* in-flight cap and all of them by a global cap; what a hook holds back is  *)
(* counted and reported by a timer.  The dispatch loop is synchronous, the   *)
(* deliveries it starts are not.                                             *)
EXTENDS Clock, TtlLru, FiniteSetsExt

CONSTANTS Hooks,         \* the hooks by number, in the order they are configured
          DedupeOf,      \* dedupeWindowSeconds, 0 is off
          ThrottleOf,    \* [window, max], max 0 is off
          InFlightOf,    \* maxInFlight
          RetriesOf,     \* maxRetries: attempts made
          LowToo,        \* hooks whose minScore lets a low score through
          AnomaliesToo,  \* hooks that take anomalies
          GlobalMax,     \* globalMaxPerMinute, 0 is unlimited
          Minute, MinSummary, HookCapacity,
          NoTimer

ASSUME WebhookAssumption ==
  /\ Hooks \subseteq Nat /\ IsFiniteSet(Hooks)
  /\ DedupeOf \in [Hooks -> Nat] /\ ThrottleOf \in [Hooks -> [window : Nat, max : Nat]]
  /\ InFlightOf \in [Hooks -> Nat \ {0}] /\ RetriesOf \in [Hooks -> Nat]
  /\ LowToo \subseteq Hooks /\ AnomaliesToo \subseteq Hooks
  /\ GlobalMax \in Nat /\ Minute \in Nat /\ MinSummary \in Nat \ {0}
  /\ HookCapacity \in Nat \ {0} /\ NoTimer \notin Nat

VARIABLES recent,       \* per hook: recentByIp
          sends,        \* per hook: sends, the times in the throttle window
          inFlight,     \* per hook: deliveries in flight
          held,         \* per hook: suppressed
          due,          \* per hook: when summaryTimer fires, or NoTimer
          globalSends,  \* times of the starts the global cap counts
          posts         \* the deliveries under way

webVars == <<recent, sends, inFlight, held, due, globalSends, posts>>

WebInit ==
  /\ recent = [h \in Hooks |-> <<>>] /\ sends = [h \in Hooks |-> <<>>]
  /\ inFlight = [h \in Hooks |-> 0] /\ held = [h \in Hooks |-> 0]
  /\ due = [h \in Hooks |-> NoTimer]
  /\ globalSends = <<>> /\ posts = {}

(* ------------------------------- mutants ------------------------------- *)

\* An entry is dead one reading early.
RepeatsHereShort(h, ip) == DedupeOf[h] > 0 /\ Holds(recent[h], ip, now + 1)

\* The second thing held back sets the timer.
TimersLate(heldBack) ==
  [h \in Hooks |-> IF h \in heldBack /\ held[h] > 0 /\ due[h] = NoTimer THEN now + MinSummary ELSE due[h]]

\* The summary forgets to clear its count.
HeldAfterSummaryKept(h) == held

\* A retry counts as the same attempt.
NextAttemptSame(p) == p.attempt

(* ------------------------- what a hook lets through ---------------------- *)

\* minScore and the anomalies opt-out: not for this hook, and not counted.
For(h, e) == IF e.type = "anomaly" THEN h \in AnomaliesToo ELSE e.high \/ h \in LowToo

Busy(h) == inFlight[h] >= InFlightOf[h]

RepeatsHere(h, ip) == DedupeOf[h] > 0 /\ Holds(recent[h], ip, now)

Within(times, span) == Keeping(times, {i \in DOMAIN times : times[i] + span >= now})

Throttled(h) == ThrottleOf[h].max > 0

Throttles(h) == Throttled(h) /\ Len(Within(sends[h], ThrottleOf[h].window)) >= ThrottleOf[h].max

\* shouldSend(): dedupe and throttle, for incidents only.
ShouldSend(h, e) == e.type = "anomaly" \/ (~RepeatsHere(h, e.ip) /\ ~Throttles(h))

Free(e) == {h \in Hooks : For(h, e) /\ ~Busy(h)}

Asking(e) == {h \in Free(e) : ShouldSend(h, e)}

\* allowGlobal(), asked by the hooks in turn until the minute is full.
Before(h, hooks) == Cardinality({g \in hooks : g < h})

Admits(h, hooks) == GlobalMax = 0 \/ Len(Within(globalSends, Minute)) + Before(h, hooks) < GlobalMax

Started(e) == {h \in Asking(e) : Admits(h, Asking(e))}

HeldBack(e) == {h \in Hooks : For(h, e)} \ Started(e)

(* ------------------------------- dispatching ----------------------------- *)

SummaryAfter(h) == Max({MinSummary, DedupeOf[h], ThrottleOf[h].window})

\* suppress(): the first one held back sets the timer.
Timers(heldBack) ==
  [h \in Hooks |-> IF h \in heldBack /\ due[h] = NoTimer THEN now + SummaryAfter(h) ELSE due[h]]

\* A delivery by what it carries, <<"alert", n>> or <<"summary", time>>.  A hook
\* with no attempts to make posts nothing and reports nothing.
Posts(hooks, what) ==
  {[hook |-> h, what |-> what, attempt |-> 1, phase |-> "sent"] :
     h \in {g \in hooks : RetriesOf[g] > 0}}

\* Summaries are posted outside the in-flight cap.
Counted(p) == p.what[1] = "alert"

\* shouldSend() records the send before the global cap is asked.
Remembers(h, e) == e.type # "anomaly" /\ h \in Asking(e)

\* dispatch() and announce(): the loop over the hooks.
Dispatch(e, no) ==
  /\ recent' = [h \in Hooks |->
       IF Remembers(h, e) /\ DedupeOf[h] > 0
       THEN Put(recent[h], e.ip, now, DedupeOf[h], HookCapacity, now) ELSE recent[h]]
  /\ sends' = [h \in Hooks |->
       IF ~Throttled(h) \/ e.type = "anomaly" \/ h \notin Free(e) \/ RepeatsHere(h, e.ip) THEN sends[h]
       ELSE LET fresh == Within(sends[h], ThrottleOf[h].window)
            IN  IF Remembers(h, e) THEN Append(fresh, now) ELSE fresh]
  /\ globalSends' = IF GlobalMax = 0 \/ Asking(e) = {} THEN globalSends
                    ELSE Within(globalSends, Minute) \o [i \in 1..Cardinality(Started(e)) |-> now]
  /\ inFlight' = [h \in Hooks |-> inFlight[h] + (IF h \in Started(e) /\ RetriesOf[h] > 0 THEN 1 ELSE 0)]
  /\ posts' = posts \union Posts(Started(e), <<"alert", no>>)
  /\ held' = [h \in Hooks |-> held[h] + (IF h \in HeldBack(e) THEN 1 ELSE 0)]
  /\ due' = Timers(HeldBack(e))

(* ------------------------------- delivering ------------------------------ *)

Freed(p) == IF Counted(p) THEN [inFlight EXCEPT ![p.hook] = @ - 1] ELSE inFlight

\* The delivery is over: its slot is freed.
Ends(p) ==
  /\ posts' = posts \ {p}
  /\ inFlight' = Freed(p)

\* Accepted, or refused for good.
Answered(p) ==
  /\ p.phase = "sent"
  /\ Ends(p)
  /\ UNCHANGED <<recent, sends, held, due, globalSends>>

TriesAgain(p) == p.attempt < RetriesOf[p.hook]

\* No answer within the deadline, or one worth a retry.
Fails(p) ==
  /\ p.phase = "sent"
  /\ IF TriesAgain(p)
     THEN posts' = (posts \ {p}) \union {[p EXCEPT !.phase = "backoff"]} /\ UNCHANGED inFlight
     ELSE Ends(p)
  /\ UNCHANGED <<recent, sends, held, due, globalSends>>

NextAttempt(p) == p.attempt + 1

Retries(p) ==
  /\ p.phase = "backoff"
  /\ posts' = (posts \ {p}) \union {[p EXCEPT !.phase = "sent", !.attempt = NextAttempt(p)]}
  /\ UNCHANGED <<recent, sends, inFlight, held, due, globalSends>>

HeldAfterSummary(h) == [held EXCEPT ![h] = 0]

SummaryFires(h) ==
  /\ due[h] # NoTimer /\ now >= due[h]
  /\ due' = [due EXCEPT ![h] = NoTimer]
  /\ held' = HeldAfterSummary(h)
  /\ posts' = IF held[h] = 0 THEN posts ELSE posts \union Posts({h}, <<"summary", now>>)
  /\ UNCHANGED <<recent, sends, inFlight, globalSends>>

\* detach(): the timers go; deliveries under way go on.
Detach ==
  /\ due' = [h \in Hooks |-> NoTimer]
  /\ UNCHANGED <<recent, sends, inFlight, held, globalSends, posts>>
============================================================================
