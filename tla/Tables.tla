------------------------------- MODULE Tables -------------------------------
(***************************************************************************)
(* What the honeypot remembers about traffic, and what it concludes from it: *)
(*                                                                         *)
(*   requests  core.ts and adapters/node.ts over the registries of Windows:  *)
(*             an evaluation keeps the tracker it was given, and is answered *)
(*             by the honeypot or finished by the application later;         *)
(*   ports     the port-scan sentinel, which reports when a connection ends; *)
(*   audit     the traffic audit and the feed's counts, both told of a       *)
(*             request when it is settled, at the time it arrived;           *)
(*   blocks    the blocklists and the enforcer, told of the same blocks;     *)
(*   claims    the verification of crawlers, over DNS that answers late or   *)
(*             not at all, and over ranges that are refreshed;               *)
(*   labels    the names that recorded hits are given.                      *)
(*                                                                         *)
(* The six share no state but the clock: a behaviour follows one of them.   *)
(***************************************************************************)
EXTENDS Clock, Windows, Timelines, Blocking, Names

CONSTANTS
  Parts,                   \* which of the six a run looks at
  Ips, NotIps,             \* addresses, and what is in place of one
  Actors, Paths, Ports,
  Baits,                   \* paths that some stateless detector flags
  Logins,                  \* paths requests are submitted to
  Crawlers,                \* addresses DNS has confirmed as a crawler's
  Retention,               \* PortScanSentinelOptions.retentionMs
  Outcomes,                \* what an answer of the application can be taken for
  Patience,                \* how long an evaluation takes at most
  Spans,                   \* how long a block may be asked for
  Interval,                \* TrafficAuditOptions.intervalMs
  MaxClaims,               \* bound of the model
  MaxVisits, MaxAsks,      \* bounds of the model
  Soon                     \* where all but the audit's ring come to an end

ASSUME SpansAssumption == Spans \subseteq Nat

VARIABLES
  part,
  heap,       \* the events of every tracker made
  registry,   \* ActivityRegistry: the tracker of an address
  prints,     \* FingerprintRegistry, markers included
  site,
  visits,     \* every request so far
  marked,     \* actors the honeypot has given a marker
  seen,       \* the sentinel's table: the set of an address
  sets,       \* the ports of every set made
  touches,    \* every connection so far
  pending,    \* requests the audit has not been told of
  settled,    \* the bag of what it was told
  ring, campaigns, fired,
  minutes,
  memory, redis,            \* the in-process list, and Redis
  limit,
  asks,       \* every block asked for
  claims,     \* every request that says it is a crawler
  resolver,   \* cachingResolver(), with every query it made
  lists,      \* CrawlerRanges: the list of an id
  hostnames,  \* ActorLabels: the reverse names of an address
  lookups,    \* every reverse lookup so far
  named       \* every hit that was recorded, with its label

requestVars == <<heap, registry, prints, site, visits, marked>>
portVars    == <<seen, sets, touches>>
auditVars   == <<pending, settled, ring, campaigns, fired, minutes>>
blockVars   == <<memory, redis, limit, asks>>
claimVars   == <<claims, resolver, lists>>
labelVars   == <<hostnames, lookups, named>>
nameVars    == <<claimVars, labelVars>>
vars        == <<part, now, requestVars, portVars, auditVars, blockVars, nameVars>>

Init ==
  /\ part \in Parts /\ now = 0
  /\ heap = <<>> /\ registry = <<>> /\ prints = <<>> /\ site = NoProfile /\ visits = <<>> /\ marked = {}
  /\ seen = <<>> /\ sets = <<>> /\ touches = <<>>
  /\ pending = {} /\ settled = EmptyBag /\ ring = EmptyRing /\ campaigns = <<>> /\ fired = <<>>
  /\ minutes = <<>>
  /\ memory = <<>> /\ redis = <<>> /\ limit = FreshLimit /\ asks = <<>>
  /\ claims = <<>> /\ resolver = NoQueries /\ lists = <<>>
  /\ hostnames = <<>> /\ lookups = <<>> /\ named = <<>>

-----------------------------------------------------------------------------
(* Requests. *)

\* evaluate() begins: the address's tracker, made when there is none, hears of the request.
Arrive(actor, ip, path) ==
  /\ part = "requests" /\ Len(visits) < MaxVisits
  /\ LET known == Holds(registry, ip, now)
         id    == IF known THEN Entry(registry, ip).value ELSE Len(heap) + 1
         was   == IF known THEN heap[id] ELSE <<>>
         new   == Recorded(was, [path |-> path, status |-> "passed", at |-> now])
     IN  /\ registry' = GetOrCreate(registry, ip, id, Window, MaxTrackedIps, now)
         /\ heap' = IF known THEN [heap EXCEPT ![id] = new] ELSE Append(heap, new)
         /\ visits' = Append(visits, [actor |-> actor, ip |-> ip, path |-> path, at |-> now, tracker |-> id,
                                      marker |-> actor \in marked, stage |-> "new", flagged |-> FALSE,
                                      missed |-> FALSE, served |-> FALSE])
  /\ UNCHANGED <<part, now, prints, site, marked, portVars, auditVars, blockVars, nameVars>>

Fingerprint(v) == visits[v].actor
MarkerKey(v)   == "marker:" \o visits[v].actor

Request(v) ==
  [ip |-> visits[v].ip, path |-> visits[v].path, at |-> visits[v].at, marker |-> visits[v].marker,
   crawler |-> visits[v].ip \in Crawlers, submits |-> visits[v].path \in Logins]

\* What the detectors that look back say of a request.
Verdict(v) ==
  LET events == Pruned(heap[visits[v].tracker], visits[v].at)
  IN  {d \in {"rate-spike", "path-bruteforce", "credential-bruteforce", "path-novelty", "repeat-actor", "marker-drift"} :
         CASE d = "rate-spike"            -> RateSpike(Request(v), events)
           [] d = "path-bruteforce"       -> PathBruteforce(Request(v), events)
           [] d = "credential-bruteforce" -> CredentialBruteforce(Request(v), events)
           [] d = "path-novelty"          -> PathNovelty(Request(v), events, site, now)
           [] d = "repeat-actor"          -> RepeatActor(Request(v), FreshIps(prints, Fingerprint(v), visits[v].at, now))
           [] d = "marker-drift"          -> MarkerDrift(Request(v), FreshIps(prints, MarkerKey(v), visits[v].at, now))}

\* The registry is written after it was read, and only by a request that was flagged.
PrintsAfter(v, flagged) ==
  LET read  == ReadPrint(ReadPrint(prints, Fingerprint(v), visits[v].at, now), MarkerKey(v), visits[v].at, now)
      first == IF flagged THEN RecordPrint(read, Fingerprint(v), visits[v].ip, visits[v].at, now) ELSE read
  IN  IF flagged /\ visits[v].marker THEN RecordPrint(first, MarkerKey(v), visits[v].ip, visits[v].at, now) ELSE first

\* The detectors have run: what they read is of now, the time they ask about is the arrival's.
Inspect(v) ==
  /\ visits[v].stage = "new"
  /\ LET flagged == visits[v].path \in Baits \/ Verdict(v) # {}
     IN  /\ visits' = [visits EXCEPT ![v].stage = IF flagged THEN "flagged" ELSE "passed",
                                     ![v].flagged = flagged]
         /\ prints' = PrintsAfter(v, flagged)
  /\ heap' = [heap EXCEPT ![visits[v].tracker] = Pruned(@, visits[v].at)]
  /\ UNCHANGED <<part, now, registry, site, marked, portVars, auditVars, blockVars, nameVars>>

\* The honeypot answers: a probe, a miss, and from now on a marked client.
Answer(v) ==
  /\ visits[v].stage = "flagged"
  /\ heap' = [heap EXCEPT ![visits[v].tracker] = Confirmed(@, visits[v].path)]
  /\ site' = Learned(site, visits[v].path, visits[v].ip, "missed", now)
  /\ marked' = marked \cup {visits[v].actor}
  /\ visits' = [visits EXCEPT ![v].stage = "over", ![v].missed = TRUE]
  /\ UNCHANGED <<part, now, registry, prints, portVars, auditVars, blockVars, nameVars>>

\* The application has answered what it was handed, flagged and passed or not flagged.
Finish(v, outcome) ==
  /\ visits[v].stage \in {"flagged", "passed"}
  /\ heap' = IF outcome = "missed" THEN [heap EXCEPT ![visits[v].tracker] = Confirmed(@, visits[v].path)] ELSE heap
  /\ site' = Learned(site, visits[v].path, visits[v].ip, outcome, now)
  /\ visits' = [visits EXCEPT ![v].stage = "over", ![v].missed = (outcome = "missed"), ![v].served = (outcome = "served")]
  /\ UNCHANGED <<part, now, registry, prints, marked, portVars, auditVars, blockVars, nameVars>>

-----------------------------------------------------------------------------
(* The port-scan sentinel. *)

\* A connection is given the set of its address, with its own port in it.
Touch(ip, port) ==
  /\ part = "ports" /\ Len(touches) < MaxVisits
  /\ LET id == Peek(seen, ip, Len(sets) + 1, now)
     IN  /\ seen' = Renewed(seen, ip, id, Retention, MaxTrackedIps, now)
         /\ sets' = IF id > Len(sets) THEN Append(sets, {port}) ELSE [sets EXCEPT ![id] = @ \cup {port}]
         /\ touches' = Append(touches, [ip |-> ip, port |-> port, at |-> now, set |-> id, open |-> TRUE, scan |-> FALSE])
  /\ UNCHANGED <<part, now, requestVars, auditVars, blockVars, nameVars>>

\* The report at its end reads that set, which later connections have gone on filling.
Report(t) ==
  /\ touches[t].open
  /\ touches' = [touches EXCEPT ![t].open = FALSE, ![t].scan = Cardinality(sets[touches[t].set]) >= Threshold]
  /\ UNCHANGED <<part, now, seen, sets, requestVars, auditVars, blockVars, nameVars>>

-----------------------------------------------------------------------------
(* The audit, and the counts of the dashboard's feed. *)

Kinds ==
  {[flagged |-> FALSE, blocked |-> FALSE, downgraded |-> FALSE, failures |-> 1],
   [flagged |-> TRUE, blocked |-> TRUE, downgraded |-> FALSE, failures |-> 0],
   [flagged |-> TRUE, blocked |-> FALSE, downgraded |-> TRUE, failures |-> 0]}

Begin(ip, path) ==
  /\ part = "audit" /\ BagCardinality(settled) + Cardinality(pending) < MaxVisits
  /\ pending' = pending \cup {[at |-> now, ip |-> ip, path |-> path]}
  /\ UNCHANGED <<part, now, settled, ring, campaigns, fired, minutes, requestVars, portVars, blockVars, nameVars>>

\* settle(): the audit is told with the time of arrival, and a hit is counted with it.
Settle(p, kind) ==
  LET r == p @@ kind
  IN  /\ pending' = pending \ {p}
      /\ settled' = settled (+) SetToBag({r})
      /\ ring' = Counted(ring, r)
      /\ campaigns' = Probes(campaigns, r, now)
      /\ minutes' = IF r.flagged THEN RecordedAt(minutes, r.at) ELSE minutes
      /\ UNCHANGED <<part, now, fired, requestVars, portVars, blockVars, nameVars>>

\* evaluate(), on its timer.
Evaluate ==
  /\ part = "audit" /\ settled # EmptyBag /\ now % Interval = 0
  /\ fired' = AfterFiring(fired, Fired(ring, campaigns, fired, now), now)
  /\ UNCHANGED <<part, now, pending, settled, ring, campaigns, minutes, requestVars, portVars, blockVars, nameVars>>

\* snapshot() forgets what is older than the retention.
ReadCounts ==
  /\ part = "audit" /\ minutes # <<>>
  /\ minutes' = PrunedMinutes(minutes, now)
  /\ UNCHANGED <<part, now, pending, settled, ring, campaigns, fired, requestVars, portVars, blockVars, nameVars>>

-----------------------------------------------------------------------------
(* Blocks. *)

\* The engine blocks: both backends are told here, and the enforcer after either.
Block(ip, span) ==
  /\ part = "blocks" /\ Len(asks) < MaxAsks
  /\ memory' \in MemoryBlock(memory, ip, now + span, now)
  /\ redis' = RedisBlock(redis, ip, now + span, now)
  /\ limit' = IF ip \in NotIps THEN limit ELSE Asked(limit, now)
  /\ asks' = Append(asks, [ip |-> ip, until |-> now + span, at |-> now,
                           enforced |-> Enforces(limit, ip \notin NotIps, now)])
  /\ UNCHANGED <<part, now, requestVars, portVars, auditVars, nameVars>>

\* The door asks, and the list forgets a block that has ended.
Ask(ip) ==
  /\ part = "blocks"
  /\ memory' = Looked(memory, ip, now)
  /\ UNCHANGED <<part, now, redis, limit, asks, requestVars, portVars, auditVars, nameVars>>

-----------------------------------------------------------------------------
(* Claims. *)

Agents == {<<"googlebot">>, <<"like", "googlebot", "gptbot">>}
Proper == <<"crawl", "googlebot", "com">>
Lookalike == <<"googlebot", "com", "evil", "net">>

\* What may be answered for a key, by a resolver that asks for addresses of both families.
NoAddress == {Failed("ENODATA"), Failed("ETIMEDOUT")}
AnswersTo(key) ==
  IF key.of = "names"
  THEN {Failed("ENOTFOUND"), Failed("ETIMEDOUT"), Said(<<Lookalike>>), Said(<<Lookalike, Proper>>)}
  ELSE {ResolveAddresses(v4, v6) : v4 \in NoAddress \cup {Said({ip}) : ip \in Ips}, v6 \in NoAddress}

Covering(ip, bits) == [family |-> 4, bits |-> bits, covers |-> {ip}]
Junk == [family |-> 0, bits |-> 0, covers |-> {}]
Page(entries) == [https |-> TRUE, status |-> 200, declared |-> 1, size |-> 1, form |-> "lines", entries |-> entries]
\* What a publisher may serve: a list, one with junk in it, and what is none.
PagesFor(ip) ==
  {Page(<<Junk, Covering(ip, 32)>>), Page(<<Covering(ip, 24), Covering(ip, 7)>>), Page(<<Junk>>), Page(<<>>),
   [Page(<<Covering(ip, 24)>>) EXCEPT !.size = MaxBytes + 1], [Page(<<Covering(ip, 24)>>) EXCEPT !.form = "no prefixes"],
   [Page(<<Covering(ip, 24)>>) EXCEPT !.status = 404]}

\* A request whose agent may claim to be a crawler's.
SayWho(ip, agent) ==
  /\ part = "claims" /\ Len(claims) < MaxClaims
  /\ LET new == [ip |-> ip, agent |-> agent, at |-> now, wait |-> 0, outcome |-> Unsettled]
         s   == Inspected([resolver |-> resolver, claims |-> Append(claims, new)], Len(claims) + 1, lists, now)
     IN  resolver' = s.resolver /\ claims' = s.claims
  /\ UNCHANGED <<part, now, lists, labelVars, requestVars, portVars, auditVars, blockVars>>

DnsAnswers(q, answer) ==
  /\ resolver.queries[q].answer = <<>>
  /\ LET s == AllHear([resolver |-> resolver, claims |-> claims], q, answer, now)
     IN  resolver' = s.resolver /\ claims' = s.claims
  /\ UNCHANGED <<part, now, lists, labelVars, requestVars, portVars, auditVars, blockVars>>

\* The lists are fetched together, every Interval; a round that changes nothing is no step.
RefreshRanges(id, page) ==
  /\ part = "claims" /\ now % Interval = 0 /\ DOMAIN lists \subseteq {id}
  /\ lists' = RefreshCrawlerRanges(lists, id :> page)
  /\ UNCHANGED <<part, now, claims, resolver, labelVars, requestVars, portVars, auditVars, blockVars>>

(* Labels. *)

InFlight == {lookups[l].ip : l \in {k \in DOMAIN lookups : lookups[k].told < 0}}

\* A hit is recorded, labelled with what is known, and its address looked up for the next.
RecordHit(ip, agent) ==
  /\ part = "labels" /\ Len(named) < MaxVisits
  /\ LET subject == [ip |-> ip, agent |-> agent]
         hosts   == Peek(hostnames, ip, <<>>, now)
     IN  /\ named' = Append(named, [ip |-> ip, agent |-> agent, at |-> now, label |-> LabelFor(subject, hosts)])
         /\ lookups' = IF Primes(subject, hosts, hostnames, InFlight, now)
                       THEN Append(lookups, [ip |-> ip, at |-> now, told |-> -1, hosts |-> <<>>]) ELSE lookups
         /\ hostnames' = Used(hostnames, ip, now)
  /\ UNCHANGED <<part, now, claimVars, requestVars, portVars, auditVars, blockVars>>

\* A failure is remembered as no name at all.
NamesArrive(l, hosts) ==
  /\ lookups[l].told < 0
  /\ lookups' = [lookups EXCEPT ![l].told = now, ![l].hosts = hosts]
  /\ hostnames' = Put(hostnames, lookups[l].ip, hosts, LabelTtl, MaxNamed, now)
  /\ UNCHANGED <<part, now, named, claimVars, requestVars, portVars, auditVars, blockVars>>

-----------------------------------------------------------------------------
Overdue ==
  \/ \E v \in DOMAIN visits : visits[v].stage = "new" /\ now - visits[v].at >= Patience
  \/ \E p \in pending : now - p.at >= Patience

\* When a behaviour starts tells nothing apart but the place in a bucket, nor does when it
\* ends (a bound).
NothingToFollow ==
  \/ part = "requests" /\ (visits = <<>> \/ (Len(visits) = MaxVisits /\ \A v \in DOMAIN visits : visits[v].stage # "new"))
  \/ part = "claims" /\ (claims = <<>> \/ now > DnsTtl \/ (Len(claims) = MaxClaims /\ \A c \in DOMAIN claims : claims[c].outcome # Unsettled))
  \/ part = "labels" /\ (named = <<>> \/ Len(named) = MaxVisits)
  \/ part = "audit" /\ pending = {} /\ settled = EmptyBag /\ now >= BucketMs - 1

TimePasses ==
  /\ ~Overdue /\ ~NothingToFollow
  /\ part = "audit" \/ now < Soon
  /\ Tick
  /\ resolver' = Released(resolver, now')
  /\ UNCHANGED <<part, claims, lists, labelVars, requestVars, portVars, auditVars, blockVars>>

Next ==
  \/ \E actor \in Actors, ip \in Ips, path \in Paths : Arrive(actor, ip, path)
  \/ \E v \in DOMAIN visits : Inspect(v) \/ Answer(v) \/ \E outcome \in Outcomes : Finish(v, outcome)
  \/ \E ip \in Ips, port \in Ports : Touch(ip, port)
  \/ \E t \in DOMAIN touches : Report(t)
  \/ \E ip \in Ips, path \in Paths : Begin(ip, path)
  \/ \E p \in pending, kind \in Kinds : Settle(p, kind)
  \/ Evaluate \/ ReadCounts
  \/ \E ip \in Ips \cup NotIps, span \in Spans : Block(ip, span)
  \/ \E ip \in Ips : Ask(ip)
  \/ \E ip \in Ips, agent \in Agents : SayWho(ip, agent)
  \/ \E q \in DOMAIN resolver.queries : \E answer \in AnswersTo(resolver.queries[q].key) : DnsAnswers(q, answer)
  \/ \E id \in {"googlebot", "gptbot"}, ip \in Ips : \E page \in PagesFor(ip) : RefreshRanges(id, page)
  \/ \E ip \in Ips, agent \in {<<"curl">>, <<"firefox">>} : RecordHit(ip, agent)
  \/ \E l \in DOMAIN lookups, hosts \in {<<>>, <<Proper>>, <<<<"monitor", "net">>>>} : NamesArrive(l, hosts)
  \/ TimePasses

Spec == Init /\ [][Next]_vars

-----------------------------------------------------------------------------
\* Whether as many other addresses came between two entries of a log as a table has room for.
Crowded(log, i, j) == Cardinality({log[k].ip : k \in i + 1 .. j - 1} \ {log[i].ip}) >= MaxTrackedIps

\* The requests at which the tracker of each may have been made, by what came of its address:
\* the last one's, unless that was made a window ago; and anew if others may have pushed it out.
Births ==
  LET at[v \in DOMAIN visits] ==
        LET before == {u \in 1 .. v - 1 : visits[u].ip = visits[v].ip}
        IN  IF before = {} THEN {v}
            ELSE {IF visits[v].at < visits[b].at + Window THEN b ELSE v : b \in at[Max(before)]}
                   \cup (IF Crowded(visits, Max(before), v) THEN {v} ELSE {})
  IN  at

\* The requests of v's address at most ms before it, and those of them that must be remembered.
Within(v, ms) == {u \in DOMAIN visits : visits[u].ip = visits[v].ip /\ visits[u].at + ms >= visits[v].at}
Remembered(v) == Within(v, Span) \cap (Max(Births[v]) .. v)

\* The addresses flagged from, of requests that are Same, at most ms before v's arrival.
FlaggedFrom(v, ms, Same(_)) == {visits[u].ip : u \in {x \in DOMAIN visits :
                                  visits[x].flagged /\ Same(x) /\ visits[x].at + ms >= visits[v].at}}

PathsOf(us)     == {visits[u].path : u \in us}
MissedPaths(us) == PathsOf({u \in us : visits[u].missed})
SamePath(v, us) == {u \in us : visits[u].path = visits[v].path}

\* A verdict can be read off the requests that were made. A volume detector speaks only of an
\* address that made enough of them, of paths that were missed and not of pages that were
\* served; and it does speak of one that has, unless the table forgot: a tracker lasts a window
\* from the request it was made at, however steady the traffic (state.ts:167), and goes when as
\* many other addresses came in between as there is room for. An address is called a repeat
\* actor only when it was flagged before, with enough others, under the same client, and always
\* when that was so recent that an inspection out of turn forgets none of it (state.ts,
\* repeat-actor.ts:52-76, marker-drift.ts:46-52).
VerdictIsTrue(v) ==
  LET verdict == Verdict(v)
      ofClient(ms) == FlaggedFrom(v, ms, LAMBDA u : visits[u].actor = visits[v].actor)
      ofMarker(ms) == FlaggedFrom(v, ms, LAMBDA u : visits[u].marker /\ visits[u].actor = visits[v].actor)
      sure    == Span - 2 * Patience
      volume  == visits[v].ip \notin Crawlers
      login   == visits[v].path \in Logins
  IN  /\ "rate-spike" \in verdict => volume /\ Cardinality(Within(v, Span)) >= Threshold
      /\ volume /\ Cardinality(Remembered(v)) >= Threshold => "rate-spike" \in verdict
      /\ "credential-bruteforce" \in verdict => login /\ Cardinality(SamePath(v, Within(v, Span))) >= Threshold
      /\ login /\ Cardinality(SamePath(v, Remembered(v))) >= Threshold => "credential-bruteforce" \in verdict
      /\ "path-bruteforce" \in verdict => volume /\ Cardinality(MissedPaths(Within(v, Window))) >= Threshold
      /\ volume /\ Cardinality(MissedPaths(Remembered(v))) >= Threshold => "path-bruteforce" \in verdict
      /\ "path-novelty" \in verdict =>
           \/ Cardinality(PathsOf(Within(v, Span))) >= Threshold
           \/ Cardinality({visits[u].ip : u \in {x \in SamePath(v, DOMAIN visits) : visits[x].missed}}) >= Threshold
      /\ "repeat-actor" \in verdict => visits[v].ip \in ofClient(Span) /\ Cardinality(ofClient(Span)) >= Threshold
      /\ visits[v].ip \in ofClient(sure) /\ Cardinality(ofClient(sure)) >= Threshold => "repeat-actor" \in verdict
      /\ "marker-drift" \in verdict => visits[v].marker /\ Cardinality(ofMarker(Span) \cup {visits[v].ip}) >= Threshold
      /\ visits[v].marker /\ Cardinality(ofMarker(sure) \cup {visits[v].ip}) >= Threshold => "marker-drift" \in verdict

\* Whether what is known of an address was kept from one connection of it to the next.
Kept(i, j) == touches[j].at - touches[i].at < Retention /\ ~Crowded(touches, i, j)

\* A connection is reported as part of a scan exactly when its address touched enough ports by
\* then, in one run of connections of which each came within the retention of the one before,
\* and before as many other addresses as there is room for (detectors/port-scan.ts:83-90).
ReportIsTrue(t) ==
  LET ofIp  == {u \in DOMAIN touches : touches[u].ip = touches[t].ip}
      run   == {u \in ofIp : \A i, j \in ofIp \cap ((u .. t) \cup (t .. u)) :
                               i < j /\ ofIp \cap (i + 1 .. j - 1) = {} => Kept(i, j)}
  IN  touches'[t].scan <=> Cardinality({touches[u].port : u \in run}) >= Threshold

\* What DNS has said about a key and may still be told to a request that came at the time.
SaidOf(key, at) ==
  {q.answer[1] : q \in {p \in ToSet(resolver'.queries) :
     p.key = key /\ p.answer # <<>> /\ p.at + Max({Lifetime(p.answer[1]), InFlightTtl}) > at}}

\* A crawler is confirmed by its own ranges or by DNS both ways, and denied only by an answer:
\* a lookup that failed says nothing (detectors/crawler-verification.ts:73-83).
ClaimIsTrue(c) ==
  LET claim   == claims'[c]
      crawler == Claimed(claim.agent)
      known   == {id \in DOMAIN lists : crawler # <<>> /\ id \in crawler[1].rangeIds}
      listed  == \E id \in known : IpAllows(lists[id], claim.ip)
      names   == SaidOf([of |-> "names", what |-> claim.ip], claim.at)
      proper(a) == IF a.ok THEN Candidates(a.value, crawler[1].domains) ELSE <<>>
      hosts   == UNION {SaidOf([of |-> "addresses", what |-> proper(a)[1]], claim.at) : a \in {b \in names : proper(b) # <<>>}}
      denies(a, n) == IsDefinitiveAbsence(a) \/ (a.ok /\ n)
  IN  IF claim.outcome.status = "verified" THEN listed \/ \E a \in hosts : a.ok /\ claim.ip \in a.value
      ELSE IF claim.outcome.cause = "outside-published-ranges" THEN known # {} /\ ~listed /\ crawler[1].domains = {}
      ELSE IF Forged(claim.outcome)
        THEN \/ \E a \in names : denies(a, proper(a) = <<>>)
             \/ \E a \in hosts : denies(a, a.ok /\ claim.ip \notin a.value)
      ELSE IF claim.outcome.status = "indeterminate"
        THEN \/ crawler = <<>> \/ (crawler[1].domains = {} /\ known = {})
             \/ (\E a \in names : ~a.ok /\ ~IsDefinitiveAbsence(a)) \/ \E a \in hosts : ~a.ok /\ ~IsDefinitiveAbsence(a)
      ELSE claim.outcome.cause = "no-ptr" /\ ~MissingPtrIsForgery

\* One lookup serves everybody who asks in time, unless an older one of its key that was let go
\* of has answered since (internal/dns.ts:244); and nobody waits for an answer that was given.
LookupsAreShared ==
  LET asked == resolver'.queries
  IN  /\ \A i, j \in DOMAIN asked :
           i < j /\ j > Len(resolver.queries) /\ asked[i].key = asked[j].key /\ asked[i].answer = <<>> =>
             \/ asked[i].at + InFlightTtl =< asked[j].at
             \/ \E k \in 1 .. i - 1 : asked[k].key = asked[i].key /\ asked[k].answer # <<>>
      /\ \A c \in DOMAIN claims' : claims'[c].outcome = Unsettled => asked[claims'[c].wait].answer = <<>>

\* A hit is labelled by a reverse name only when a lookup has found it, not too long ago, and
\* is once the name is the last that was found; an address is not looked up while a lookup of
\* it runs or its answer, good or bad, is remembered (labels.ts:206-221).
LabelIsTrue(n) ==
  LET hit     == named'[n]
      told    == {l \in DOMAIN lookups : lookups[l].ip = hit.ip /\ lookups[l].told >= 0 /\ lookups[l].told + LabelTtl > now}
      last(l) == \A k \in DOMAIN lookups : k # l => lookups[k].told < lookups[l].told
      calls(l, word) == \E host \in ToSet(lookups[l].hosts) : Contains(host, word)
      crawler == hit.label # <<>> /\ hit.label[1].name = "crawler"
  IN  /\ crawler => \E l \in told : calls(l, "googlebot")
      /\ \A l \in told : last(l) => (crawler <=> calls(l, "googlebot"))
      /\ ~crawler => (hit.label # <<>> <=> Contains(hit.agent, "curl"))
      /\ hit.label # <<>> /\ hit.label[1].name = "monitor" => \E l \in told : calls(l, "monitor")
      /\ Len(lookups') > Len(lookups) =>
           /\ hit.ip \notin InFlight
           /\ \A l \in told : \E k \in DOMAIN lookups : lookups[k].ip # hit.ip /\ lookups[k].told >= lookups[l].told

\* Whatever the honeypot concludes about a client is true of everything it was shown, in
\* whatever order that came: the verdict of an inspection, the report of a scan, the claim of
\* a crawler, the label of a hit; and no list of ranges in force covers more than a crawler's.
VerdictsFollowHistory ==
  [][/\ \A v \in DOMAIN visits : visits[v].stage = "new" /\ visits'[v].stage # "new" => VerdictIsTrue(v)
     /\ \A t \in DOMAIN touches : touches[t].open /\ ~touches'[t].open => ReportIsTrue(t)
     /\ \A c \in DOMAIN claims' :
          claims'[c].outcome # Unsettled /\ (c \in DOMAIN claims => claims[c].outcome = Unsettled) => ClaimIsTrue(c)
     /\ LookupsAreShared
     /\ \A id \in DOMAIN lists' : lists'[id] # <<>> /\ \A e \in ToSet(lists'[id]) : e.bits >= MinPrefix(e.family)
     /\ \A n \in DOMAIN named' \ DOMAIN named : LabelIsTrue(n)]_vars

\* What was settled of the stretch, and how much of it there is.
Told(from, to) == [r \in {x \in DOMAIN settled : x.at >= from /\ x.at < to} |-> settled[r]]

OfWhich(told, Is(_)) == BagCardinality([r \in {x \in DOMAIN told : Is(x)} |-> told[r]])

Tally(told) ==
  [requests   |-> BagCardinality(told),
   flagged    |-> OfWhich(told, LAMBDA r : r.flagged),
   blocks     |-> OfWhich(told, LAMBDA r : r.blocked),
   downgrades |-> OfWhich(told, LAMBDA r : r.downgraded),
   failures   |-> OfWhich(told, LAMBDA r : r.failures = 1)]

\* The window and the baseline are what was settled in them, however late it was settled and
\* however often the ring has come round (audit.ts:401); so is what the feed has counted of the
\* time it still speaks for (dashboard/counts.ts). A path announced as a campaign was probed
\* from enough addresses, and by none before the window but for one settled late; and nothing
\* is announced twice within a cooldown.
TimelinesFollowHistory ==
  /\ [](/\ WindowOf(ring, now) = Tally(Told(WindowStart(now), WindowEnd(now)))
        /\ BaselineOf(ring, now) = Tally(Told(WindowStart(now) - BaselineMs, WindowStart(now)))
        /\ CountIn(PrunedMinutes(minutes, now), MinuteOf(now - Minute), now) =
             OfWhich(Told(MinuteOf(now - Minute) - Minute + 1, now + 1), LAMBDA r : r.flagged))
  /\ [][\A key \in {k \in DOMAIN fired' : k \notin DOMAIN fired \/ fired'[k] # fired[k]} :
           /\ key \in Paths =>
                LET probes == {r \in DOMAIN settled : r.flagged /\ r.path = key}
                IN  /\ Cardinality({r.ip : r \in {x \in probes : x.at >= now - WindowMs}}) >= CampaignMinIps
                    /\ \A r \in probes : r.at >= now - WindowMs - Patience \/ r.at <= now - WindowMs - BaselineMs
           /\ key \in DOMAIN fired => now - fired[key] >= Cooldown]_vars

\* A block lasts as long as the longest that was asked for (blocklist.ts:11), unless the list is
\* full and it is one of those that end soonest; in Redis, as long as the last. What an enforcer
\* is handed is an address, at its rate.
BlocksHold ==
  [][/\ \A ip \in DOMAIN memory : memory[ip] > now' =>
          \/ ip \in DOMAIN memory' /\ memory'[ip] >= memory[ip]
          \/ /\ ActiveBlocks(memory, now) >= MaxBlocked
             /\ \A other \in DOMAIN memory \cap DOMAIN memory' : memory[other] >= memory[ip]
     /\ Len(asks') > Len(asks) =>
          LET ask == asks'[Len(asks')]
          IN  /\ ask.until > now => ask.ip \in DOMAIN memory' /\ memory'[ask.ip] >= ask.until
              /\ ask.until > now => redis'[ask.ip] = ask.until
              /\ ask.enforced => ask.ip \notin NotIps
              /\ Cardinality({i \in DOMAIN asks' : asks'[i].enforced /\ asks'[i].at > now - RateWindow}) <= 2 * PerWindow
              /\ ~ask.enforced /\ ask.ip \notin NotIps =>
                   \E i \in DOMAIN asks : asks[i].enforced /\ asks[i].at > now - RateWindow]_vars

-----------------------------------------------------------------------------
\* Addresses are interchangeable in a run in which none is a crawler's.
Symmetry == Permutations(Ips)
=============================================================================
