------------------------------ MODULE Windows ------------------------------
(* What the engine remembers from one request to the next, as values: the   *)
(* registries of state.ts and the profile of site/index.ts, each a TtlLru,   *)
(* and the detectors that count over them. A path, an address, a fingerprint *)
(* and a marker are names.                                                   *)
EXTENDS TtlLru, FiniteSets, SequencesExt

CONSTANTS
  Window, MaxTrackedIps, MaxEvents,       \* activityWindowMs and the caps of IpTracker
  FingerprintWindow, MaxFingerprints, MaxIpsPerFingerprint,
  SiteTtl, MaxPaths, MaxWalkers,          \* SiteProfileOptions
  MinObservations, MinServedPaths,        \* before the profile is believed
  Span,                                   \* the detectors' own window
  Threshold                               \* how many of a kind it takes in it

----------------------------------------------------------------------------
(* IpTracker: the requests of one address, oldest first. *)

Fresh(events, from) == SelectSeq(events, LAMBDA e : e.at >= from)

From(at, ms) == IF at > ms THEN at - ms ELSE 0

\* prune(): looks no further when the first is fresh.
Pruned(events, at) ==
  IF events # <<>> /\ events[1].at >= From(at, Window) THEN events ELSE Fresh(events, From(at, Window))

Newest(seq, n) == IF Len(seq) > n THEN SubSeq(seq, Len(seq) - n + 1, Len(seq)) ELSE seq

Recorded(events, event) == Newest(Pruned(Append(events, event), event.at), MaxEvents)

\* Distinct paths, but for those the application may have served.
UniquePaths(events) == {e.path : e \in {x \in ToSet(events) : x.status # "passed"}}

\* confirmPath(): the newest passed request for the path was a probe.
Confirmed(events, path) ==
  LET passed == {i \in DOMAIN events : events[i].status = "passed" /\ events[i].path = path}
  IN  IF passed = {} THEN events
      ELSE [events EXCEPT ![CHOOSE i \in passed : \A j \in passed : j <= i].status = "seen"]

----------------------------------------------------------------------------
(* FingerprintRegistry: per fingerprint (or marker) the addresses it was used *)
(* from, in the order of a Map: one seen again keeps its place.               *)

SeenFrom(ips, ip, at) ==
  LET known == {i \in DOMAIN ips : ips[i].ip = ip}
      room  == IF known = {} /\ Len(ips) >= MaxIpsPerFingerprint THEN Tail(ips) ELSE ips
  IN  IF known # {} THEN [i \in DOMAIN ips |-> IF i \in known THEN [ip |-> ip, at |-> at] ELSE ips[i]]
                    ELSE Append(room, [ip |-> ip, at |-> at])

\* getOrCreate() and then set(): what is used keeps its value, and its lifetime restarts.
Renewed(table, key, value, ttl, capacity, at) ==
  Put(GetOrCreate(table, key, value, ttl, capacity, at), key, Peek(table, key, value, at), ttl, capacity, at)

RecordPrint(prints, key, ip, at, clock) ==
  Mutated(Renewed(prints, key, <<>>, FingerprintWindow, MaxFingerprints, clock), key,
          SeenFrom(Peek(prints, key, <<>>, clock), ip, at))

\* freshIps(): what is older than the window asked for is forgotten for good.
Since(ms, at) == From(at, IF ms < FingerprintWindow THEN ms ELSE FingerprintWindow)

FreshIps(prints, key, at, clock) ==
  {e.ip : e \in ToSet(Fresh(Peek(prints, key, <<>>, clock), Since(Span, at)))}

ReadPrint(prints, key, at, clock) ==
  LET fresh == Fresh(Peek(prints, key, <<>>, clock), Since(Span, at))
      used  == Used(prints, key, clock)
  IN  IF ~Holds(prints, key, clock) THEN used
      ELSE IF fresh = <<>> THEN Without(used, key) ELSE Mutated(used, key, fresh)

----------------------------------------------------------------------------
(* SiteProfile: what the application answered, path by path. *)

NoStat    == [served |-> FALSE, walkers |-> {}]
NoProfile == [paths |-> <<>>, observations |-> 0, served |-> 0]

\* record(): the lifetime of a path is that of its first outcome.
Learned(site, path, ip, outcome, at) ==
  LET held == GetOrCreate(site.paths, path, NoStat, SiteTtl, MaxPaths, at)
      stat == Entry(held, path).value
      next == CASE outcome = "served" -> [served |-> TRUE, walkers |-> {}]
                [] outcome = "missed" /\ ~stat.served /\ Cardinality(stat.walkers) < MaxWalkers ->
                     [stat EXCEPT !.walkers = @ \cup {ip}]
                [] OTHER -> stat
  IN  [paths        |-> Mutated(held, path, next),
       observations |-> site.observations + 1,
       served       |-> site.served + IF next.served /\ ~stat.served THEN 1 ELSE 0]

IsServed(site, path, at) == Peek(site.paths, path, NoStat, at).served
Walkers(site, path, at)  == Peek(site.paths, path, NoStat, at).walkers
IsWarm(site)             == site.observations >= MinObservations /\ site.served >= MinServedPaths

----------------------------------------------------------------------------
(* The detectors. What they read is a request (its address, path, time, fingerprint *)
(* and the marker it was verified to carry) and the events of its tracker.    *)

RateSpike(req, events) ==
  ~req.crawler /\ Len(Fresh(events, From(req.at, Span))) >= Threshold

PathBruteforce(req, events) ==
  ~req.crawler /\ Cardinality(UniquePaths(Fresh(events, From(req.at, Span)))) >= Threshold

CredentialBruteforce(req, events) ==
  req.submits /\ Len(SelectSeq(Fresh(events, From(req.at, Span)), LAMBDA e : e.path = req.path)) >= Threshold

\* An address counts only when it attacked before, this one included.
RepeatActor(req, seen) == req.ip \in seen /\ Cardinality(seen) >= Threshold

\* A verified marker says it is the same client: this address counts.
MarkerDrift(req, seen) == req.marker /\ Cardinality(seen \cup {req.ip}) >= Threshold

PathNovelty(req, events, site, clock) ==
  /\ IsWarm(site) /\ ~req.crawler /\ ~IsServed(site, req.path, clock)
  /\ \/ Cardinality({e.path : e \in {x \in ToSet(Fresh(events, From(req.at, Span))) :
                                       ~IsServed(site, x.path, clock)}}) >= Threshold
     \/ Cardinality(Walkers(site, req.path, clock)) >= Threshold
============================================================================
