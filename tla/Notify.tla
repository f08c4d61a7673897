------------------------------- MODULE Notify -------------------------------
(* How incidents leave the process (src/src/notify, wired in service.ts):    *)
(* publish() runs the hub and every sink it lets the event through to in one *)
(* synchronous call; deliveries, sockets and timers go on by themselves.     *)
(* Sinks are the webhook dispatcher and the syslog transport, the two the    *)
(* service adds.                                                             *)
EXTENDS NotificationHub, WebhookDispatcher, SyslogSink

CONSTANTS Deployments,  \* the sets of sinks a deployment may have configured
          Traffic,      \* per deployment: the events published
          MaxEvents,    \* bound: events published
          LastPublish   \* bound: the time of the last one

ASSUME NotifyAssumption ==
  /\ Deployments \subseteq SUBSET {"webhooks", "syslog"}
  /\ DOMAIN Traffic = Deployments
  /\ MaxEvents \in Nat /\ LastPublish \in Nat

VARIABLES attached,  \* the sinks of this deployment
          history,   \* ghost: what became of each event the hub was given
          toldHub,   \* ghost: events the hub reported as held back
          toldOf     \* ghost: per hook, events its summaries reported

vars == <<now, hubVars, webVars, syslogVars, attached, history, toldHub, toldOf>>

Init ==
  /\ now = 0
  /\ HubInit /\ WebInit /\ SyslogInit
  /\ attached \in Deployments
  /\ history = <<>> /\ toldHub = 0
  /\ toldOf = [h \in Hooks |-> 0]

\* Which sinks do anything with an event; neither takes the "error" event the
\* hub's own report is.
Takes(sink, e) == IF sink = "syslog" THEN Incident(e) ELSE Incident(e) \/ e.type = "anomaly"

Reaches(sink, e) == sink \in attached /\ Passes(e) /\ Takes(sink, e)

\* publish(), announce() and reportError().
Publish(e) ==
  /\ hubOpen /\ e \in Wanted
  /\ Len(history) < MaxEvents /\ now <= LastPublish
  /\ Emit(e)
  /\ IF Reaches("webhooks", e) THEN Dispatch(e, Len(history) + 1) ELSE UNCHANGED webVars
  /\ IF Reaches("syslog", e) THEN Send ELSE UNCHANGED syslogVars
  /\ history' = Append(history,
       [event |-> e, at |-> now, passed |-> Passes(e),
        started |-> IF Reaches("webhooks", e) THEN Started(e) ELSE {},
        held    |-> IF Reaches("webhooks", e) THEN HeldBack(e) ELSE {}])
  /\ toldHub' = toldHub + Reported
  /\ UNCHANGED <<now, attached, toldOf>>

Delivering ==
  /\ \E p \in posts : Answered(p) \/ Fails(p) \/ Retries(p)
  /\ UNCHANGED toldOf

Summarising ==
  \E h \in Hooks : SummaryFires(h) /\ toldOf' = [toldOf EXCEPT ![h] = @ + held[h]]

WebStep ==
  /\ Delivering \/ Summarising
  /\ UNCHANGED <<now, hubVars, syslogVars, attached, history, toldHub>>

CollectorStep ==
  /\ "syslog" \in attached
  /\ Progress \/ Trouble
  /\ UNCHANGED <<now, hubVars, webVars, attached, history, toldHub, toldOf>>

\* close(): every sink in turn.
Close ==
  /\ CloseHub
  /\ IF "webhooks" \in attached THEN Detach ELSE UNCHANGED webVars
  /\ IF "syslog" \in attached THEN CloseSink ELSE UNCHANGED syslogVars
  /\ UNCHANGED <<now, attached, history, toldHub, toldOf>>

TimePasses == Tick /\ UNCHANGED <<hubVars, webVars, syslogVars, attached, history, toldHub, toldOf>>

Next ==
  \/ \E e \in Traffic[attached] : Publish(e)
  \/ WebStep
  \/ CollectorStep
  \/ Close
  \/ TimePasses

Spec == Init /\ [][Next]_vars

\* Time passes; an attempt is answered or aborted by its deadline and timers
\* fire; sockets raise their events and the service starts the sink.
Fairness ==
  /\ WF_vars(TimePasses)
  /\ WF_vars(WebStep)
  /\ WF_vars(CollectorStep /\ Progress)

FairSpec == Spec /\ Fairness

(* ------------------------------ properties ------------------------------ *)

TypeOK ==
  /\ now \in Nat
  /\ \A i \in DOMAIN seen : seen[i].until \in Nat
  /\ windowStart \in Nat /\ windowCount \in Nat /\ hubHeld \in Nat /\ hubOpen \in BOOLEAN
  /\ sends \in [Hooks -> Seq(Nat)] /\ globalSends \in Seq(Nat)
  /\ inFlight \in [Hooks -> Nat] /\ held \in [Hooks -> Nat]
  /\ due \in [Hooks -> Nat \union {NoTimer}]
  /\ \A p \in posts : p.hook \in Hooks /\ p.attempt \in 1..RetriesOf[p.hook] /\ p.phase \in {"sent", "backoff"}
  /\ tcp \in Sockets \union {NoSocket} /\ sock \in [Sockets -> SocketStates]
  /\ ready \in BOOLEAN /\ stalled \in BOOLEAN /\ reconnect \in BOOLEAN /\ outage \in BOOLEAN
  /\ sinkClosed \in BOOLEAN /\ started \in BOOLEAN /\ faults \in Nat
  /\ attached \in SUBSET {"webhooks", "syslog"}

\* The other keys the hub saw, and the other addresses a hook saw, between two
\* events: the table may forget a key only for that many others.
KeysBetween(i, j) == {Key(history[k].event) : k \in {k \in (i + 1)..(j - 1) : Incident(history[k].event)}}
                       \ {Key(history[i].event)}

AddressesBetween(i, j) == {history[k].event.ip : k \in {k \in (i + 1)..(j - 1) : Incident(history[k].event)}}
                            \ {history[i].event.ip}

\* Repeats collapse: the hub lets an incident through twice within a window,
\* and a hook alerts twice on one address within its own, only if the bounded
\* table had to forget it for as many others as it remembers.
RepeatsCollapse ==
  \A i, j \in DOMAIN history :
    i < j /\ Incident(history[i].event) =>
      /\ (/\ Key(history[i].event) = Key(history[j].event)
          /\ history[i].passed /\ history[j].passed
          /\ history[j].at - history[i].at < Window)
           => Cardinality(KeysBetween(i, j)) >= Capacity
      /\ \A h \in history[i].started \intersect history[j].started :
           (/\ Incident(history[j].event)
            /\ history[i].event.ip = history[j].event.ip
            /\ history[j].at - history[i].at < DedupeOf[h])
             => Cardinality(AddressesBetween(i, j)) >= HookCapacity

\* The deliveries that hold a slot of a hook.
Taking(h) == {p \in posts : p.hook = h /\ Counted(p)}

StartsWithin(span, h) ==
  {i \in DOMAIN history : history[i].at + span >= now /\ h \in history[i].started}

\* Every cap holds whatever the order of answers, retries and windows: the
\* hub's ceiling within its window, each hook's throttle and in-flight cap, and
\* the cap all hooks share.
CapsHold ==
  /\ Cardinality({i \in DOMAIN history : history[i].passed /\ history[i].at >= windowStart}) <= Ceiling
  /\ \A h \in Hooks :
       /\ Throttled(h) => Cardinality({i \in StartsWithin(ThrottleOf[h].window, h) :
                                         Incident(history[i].event)}) <= ThrottleOf[h].max
       /\ Cardinality(Taking(h)) <= InFlightOf[h]
  /\ GlobalMax > 0 =>
       Cardinality({start \in (DOMAIN history) \X Hooks : start[1] \in StartsWithin(Minute, start[2])}) <= GlobalMax

\* Nothing is held back in silence: what the hub and each hook refused is what
\* they have reported so far and what they still count.
HeldBackIsCounted ==
  /\ Cardinality({i \in DOMAIN history : ~history[i].passed}) = toldHub + hubHeld
  /\ \A h \in Hooks : Cardinality({i \in DOMAIN history : h \in history[i].held}) = toldOf[h] + held[h]

\* A hook that holds something back has a timer that will say so.
SummaryIsComing == hubOpen => \A h \in Hooks : held[h] > 0 => due[h] # NoTimer

\* A hook's slots are those of the deliveries under way, so none is leaked by
\* an error path and the hook never falls silent for good.
SlotsAreDeliveries ==
  \A h \in Hooks : inFlight[h] = Cardinality(Taking(h))

\* Every delivery ends, and what a hook held back is reported unless the hub is
\* closed first.
AlertsSettle ==
  /\ posts # {} ~> posts = {}
  /\ \A h \in Hooks : held[h] > 0 ~> (held[h] = 0 \/ ~hubOpen)

============================================================================
