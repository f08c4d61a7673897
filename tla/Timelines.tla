----------------------------- MODULE Timelines -----------------------------
(* What happened when, counted in buckets, as values: the ring and the      *)
(* campaigns of audit.ts, its checks, and the minutes of                    *)
(* dashboard/counts.ts. A share or a rate is compared by multiplying out.   *)
EXTENDS TtlLru, Integers, FiniteSets, SequencesExt

CONSTANTS
  MinMs, MaxBuckets,                \* the finest bucket, and the most a ring holds
  WindowOption, BaselineOption,     \* TrafficAuditOptions
  MinSamples, Cooldown, CampaignMinIps,
  MaxCampaignPaths, MaxIpsPerPath,
  Minute, MinRate, MinBlocks, MinFailures,  \* what the shipped checks ask for at least
  Retain, MaxMinutes                \* FeedCountsOptions, and the ceiling

AtLeast(floor, n) == IF n < floor THEN floor ELSE n

\* Math.ceil and Math.round of a quotient of naturals.
Ceil(n, d)  == (n + d - 1) \div d
Round(n, d) == (2 * n + d) \div (2 * d)

----------------------------------------------------------------------------
(* The ring: whole buckets, a window's worth, a baseline's and one more. *)

AskedWindow   == AtLeast(MinMs, WindowOption)
AskedBaseline == AtLeast(AskedWindow, BaselineOption)

BucketMs ==
  LET fine == AtLeast(MinMs, Round(AskedWindow, 10))
  IN  IF Ceil(AskedWindow + AskedBaseline, fine) + 1 > MaxBuckets
      THEN Ceil(AskedWindow + AskedBaseline, MaxBuckets - 1) ELSE fine

WindowMs   == Ceil(AskedWindow, BucketMs) * BucketMs
BaselineMs == Ceil(AskedBaseline, BucketMs) * BucketMs
Slots      == 0 .. (WindowMs + BaselineMs) \div BucketMs

Measures  == {"requests", "flagged", "blocks", "downgrades", "failures"}
NoBucket  == [at |-> -1, of |-> [m \in Measures |-> 0]]
EmptyRing == [s \in Slots |-> NoBucket]

Start(at) == (at \div BucketMs) * BucketMs
SlotOf(at) == (at \div BucketMs) % Cardinality(Slots)

\* (Mutant.) A slot that is another stretch's is counted on.
BucketReused(ring, at) == [ring[SlotOf(at)] EXCEPT !.at = Start(at)]

\* bucketFor(): the ring has come round when the slot is another stretch's.
BucketFor(ring, at) ==
  IF ring[SlotOf(at)].at = Start(at) THEN ring[SlotOf(at)] ELSE [NoBucket EXCEPT !.at = Start(at)]

One(b) == IF b THEN 1 ELSE 0

Contribution(r) ==
  [requests |-> 1, flagged |-> One(r.flagged), blocks |-> One(r.blocked), downgrades |-> One(r.downgraded),
   failures |-> r.failures]

Counted(ring, r) ==
  LET bucket == BucketFor(ring, r.at)
  IN  [ring EXCEPT ![SlotOf(r.at)] =
         [bucket EXCEPT !.of = [m \in Measures |-> bucket.of[m] + Contribution(r)[m]]]]

\* The window ends at the far edge of the bucket being filled.
WindowEnd(at)   == Start(at) + BucketMs
WindowStart(at) == WindowEnd(at) - WindowMs

Aggregate(ring, from, to) ==
  [m \in Measures |-> FoldSet(LAMBDA s, n : n + ring[s].of[m], 0, {s \in Slots : ring[s].at >= from /\ ring[s].at < to})]

WindowOf(ring, at)   == Aggregate(ring, WindowStart(at), WindowEnd(at))
BaselineOf(ring, at) == Aggregate(ring, WindowStart(at) - BaselineMs, WindowStart(at))

----------------------------------------------------------------------------
(* DEFAULT_AUDIT_CHECKS: a window w against a baseline b. *)

\* a of m is at least k times b of n, or there was none of it.
Times(k, a, m, b, n) == b = 0 \/ n = 0 \/ a * n >= k * b * m

FlaggedShareSpike(w, b) ==
  4 * w.flagged >= w.requests /\ w.flagged > 0 /\ Times(2, w.flagged, w.requests, b.flagged, b.requests)

TrafficSpike(w, b) ==
  /\ b.requests > 0 /\ w.requests * BaselineMs >= 3 * b.requests * WindowMs
  /\ w.requests * Minute >= MinRate * WindowMs

ShareSpike(m, w, b) ==
  w[m] >= MinBlocks /\ 20 * w[m] >= w.requests /\ Times(3, w[m], w.requests, b[m], b.requests)

DetectorFailures(w, b) == 100 * w.failures >= w.requests /\ w.failures >= MinFailures

Speaking(w, b) ==
  IF w.requests < MinSamples THEN {}
  ELSE {check \in {"flagged-share-spike", "traffic-spike", "block-spike", "downgrade-spike", "detector-failures"} :
          CASE check = "flagged-share-spike" -> FlaggedShareSpike(w, b)
            [] check = "traffic-spike"       -> TrafficSpike(w, b)
            [] check = "block-spike"         -> ShareSpike("blocks", w, b)
            [] check = "downgrade-spike"     -> ShareSpike("downgrades", w, b)
            [] check = "detector-failures"   -> DetectorFailures(w, b)}

----------------------------------------------------------------------------
(* Campaigns: per probed path when it was first seen, and each address last. *)

Probed(campaigns, r, clock) ==
  LET span == WindowMs + BaselineMs
      held == GetOrCreate(campaigns, r.path, [first |-> r.at, ips |-> <<>>], span, MaxCampaignPaths, clock)
      was  == Entry(held, r.path).value
      ips  == IF r.ip \in DOMAIN was.ips \/ Cardinality(DOMAIN was.ips) < MaxIpsPerPath
              THEN (r.ip :> r.at) @@ was.ips ELSE was.ips
  IN  Put(held, r.path, [was EXCEPT !.ips = ips], span, MaxCampaignPaths, clock)

\* record(): a flagged request is a probe, unless the check is off.
Probes(campaigns, r, clock) ==
  IF r.flagged /\ CampaignMinIps > 0 THEN Probed(campaigns, r, clock) ELSE campaigns

\* Paths first probed within the window, by enough addresses in it.
Campaigns(campaigns, at) ==
  LET since == at - WindowMs
  IN  IF CampaignMinIps = 0 THEN {}
      ELSE {e.key : e \in {x \in ToSet(Live(campaigns, at)) :
              /\ x.value.first >= since
              /\ Cardinality({ip \in DOMAIN x.value.ips : x.value.ips[ip] >= since}) >= CampaignMinIps}}

\* evaluate(): what is out of its cooldown speaks, and cools.
Cooling(fired, key, at) == key \in DOMAIN fired /\ at - fired[key] < Cooldown

Fired(ring, campaigns, fired, at) ==
  {key \in Speaking(WindowOf(ring, at), BaselineOf(ring, at)) \cup Campaigns(campaigns, at) : ~Cooling(fired, key, at)}

PrunedCooldowns(fired, at) ==
  IF Cardinality(DOMAIN fired) <= MaxCampaignPaths THEN fired
  ELSE [key \in {k \in DOMAIN fired : at - fired[k] < Cooldown} |-> fired[key]]

AfterFiring(fired, keys, at) == PrunedCooldowns([key \in keys |-> at] @@ fired, at)

----------------------------------------------------------------------------
(* FeedCounts: one bucket for each minute that saw a hit, oldest first. *)

MinuteOf(at) == (at \div Minute) * Minute

\* The ceiling is applied to what is appended only.
Appended(minutes, bucket) ==
  LET grown == Append(minutes, bucket) IN SubSeq(grown, 1 + AtLeast(MaxMinutes, Len(grown)) - MaxMinutes, Len(grown))

RecordedAt(minutes, at) ==
  LET minute == MinuteOf(at)
      bucket == [at |-> minute, total |-> 1]
      before == {i \in DOMAIN minutes : minutes[i].at < minute}
  IN  CASE \E i \in DOMAIN minutes : minutes[i].at = minute ->
             [i \in DOMAIN minutes |-> IF minutes[i].at = minute THEN [minutes[i] EXCEPT !.total = @ + 1] ELSE minutes[i]]
        [] \A i \in DOMAIN minutes : minutes[i].at < minute -> Appended(minutes, bucket)
        [] OTHER -> InsertAt(minutes, Cardinality(before) + 1, bucket)

PrunedMinutes(minutes, at) ==
  IF Retain = 0 THEN minutes ELSE SelectSeq(minutes, LAMBDA b : b.at + Minute > at - Retain)

CountIn(minutes, from, to) ==
  FoldSeq(LAMBDA b, n : n + b.total, 0, SelectSeq(minutes, LAMBDA b : b.at + Minute > from /\ b.at <= to))
============================================================================
