-------------------------- MODULE NotificationHub --------------------------
(* The bounds NotificationHub (src/src/notify/hub.ts) puts between incidents *)
(* and the sinks: repeats within a window collapse, a ceiling holds for all  *)
(* addresses together, and what was held back is reported when the window    *)
(* rolls, which only the next event makes it do.                             *)
EXTENDS Clock, TtlLru, FiniteSets

CONSTANTS Window,    \* dedupeWindowMs, 0 is off
          Ceiling,   \* maxPerWindow
          Capacity,  \* addresses remembered
          Wanted     \* the events the filter lets through

ASSUME HubAssumption == Window \in Nat /\ Ceiling \in Nat \ {0} /\ Capacity \in Nat \ {0}

\* An event as the hub and the webhooks tell it apart: `answer` stands for the
\* response and the rule, `high` for a score over a hook's minimum.
Incident(e) == e.type \in {"hit", "downgrade"}

Key(e) == <<e.type, e.ip, e.answer>>

VARIABLES seen,         \* dedupe: the keys remembered
          windowStart,
          windowCount,
          hubHeld,      \* suppressed
          hubOpen       \* subscribed, with its sinks

hubVars == <<seen, windowStart, windowCount, hubHeld, hubOpen>>

HubInit ==
  /\ seen = <<>> /\ windowStart = now /\ windowCount = 0
  /\ hubHeld = 0 /\ hubOpen = TRUE

(* ------------------------------- mutants ------------------------------- *)

\* The ceiling lets one more through.
RoomLate(count) == count <= Ceiling

(* -------------------------------- the hub -------------------------------- *)

\* shouldDeliver(): the window rolls when an event finds it over.
Rolled == Window > 0 /\ now - windowStart >= Window

CountNow == IF Rolled THEN 0 ELSE windowCount

HeldNow == IF Rolled THEN 0 ELSE hubHeld

\* What summarise() reports to the sinks ahead of the event, 0 for no report.
Reported == hubHeld - HeldNow

Deduplicates(e) == Window > 0 /\ Incident(e)

Repeats(e) == Deduplicates(e) /\ Holds(seen, Key(e), now)

Room(count) == count < Ceiling

Passes(e) == e \in Wanted /\ ~Repeats(e) /\ Room(CountNow)

\* emit(): filtered and bounded first.  The key is remembered before the ceiling
\* is looked at.
Emit(e) ==
  /\ IF hubOpen /\ e \in Wanted
     THEN /\ windowStart' = IF Rolled THEN now ELSE windowStart
          /\ seen' = IF ~Deduplicates(e) THEN seen
                     ELSE IF Repeats(e) THEN Used(seen, Key(e), now)
                     ELSE Put(seen, Key(e), TRUE, Window, Capacity, now)
          /\ windowCount' = CountNow + (IF Passes(e) THEN 1 ELSE 0)
          /\ hubHeld' = HeldNow + (IF Passes(e) THEN 0 ELSE 1)
     ELSE UNCHANGED <<windowStart, seen, windowCount, hubHeld>>
  /\ UNCHANGED hubOpen

CloseHub == hubOpen /\ hubOpen' = FALSE /\ UNCHANGED <<seen, windowStart, windowCount, hubHeld>>
============================================================================
