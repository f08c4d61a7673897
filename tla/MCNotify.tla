----------------------------- MODULE MCNotify -----------------------------
(* Small instances of Notify.                                                *)
EXTENDS Notify

CONSTANTS a, b

Hit(ip, answer, high) == [type |-> "hit", ip |-> ip, answer |-> answer, high |-> high]
Anomaly == [type |-> "anomaly", ip |-> a, answer |-> "none", high |-> FALSE]

\* Two addresses, one of them scoring high, and an anomaly; a collector tells
\* incidents from nothing, so it gets the incidents only.
AllEvents == {Hit(a, "decoy", TRUE), Hit(b, "decoy", FALSE), Anomaly}

SyslogOnly == {{"syslog"}}
EachAlone == {{"webhooks"}, {"syslog"}}
Incidents == [d \in SyslogOnly |-> AllEvents \ {Anomaly}]
Alone == [d \in EachAlone |-> IF d \in SyslogOnly THEN Incidents[d] ELSE AllEvents]

ThreeSockets == 1..3

\* The first hook dedupes and takes one delivery at a time; the second is
\* throttled, takes high scores only, and does not retry.
TwoHooks == {1, 2}
Dedupes == <<2, 0>>
Throttling == <<[window |-> 0, max |-> 0], [window |-> 2, max |-> 1]>>
Slots == <<1, 2>>
Attempts == <<2, 1>>
First == {1}
============================================================================
