------------------------------ MODULE Analytics ------------------------------
(***************************************************************************)
(* What the recorded hits are turned into: the memory store's reads        *)
(* (stores/memory.ts, stores/query.ts), the management API's summaries and *)
(* counters (management/rest.ts, management/metrics.ts) and the page's     *)
(* statistics (dashboard/client/analysis.ts, query.ts).                    *)
(*                                                                         *)
(* A hit is a record [id, at, ip, print, found, certain, shadow, score,    *)
(* total, answer, refused]: found maps the detectors that fired to their   *)
(* points, shadow is the set that fired in shadow, refused says the proof  *)
(* guard took a block back.  A list of hits is oldest first; a tally is a  *)
(* bag.  at and every duration are in tenths of a second.                  *)
(***************************************************************************)
EXTENDS Integers, SequencesExt, FiniteSetsExt, Bags

CONSTANTS MaxHits,      \* bound: hits a memory store keeps
          MaxList,      \* bound: the ceiling of a listing, 1000 in the code
          PageCap,      \* bound: CORPUS_LIMIT
          MaxTracked,   \* bound: MAX_TRACKED_IPS
          BucketSizes,  \* the ladder of chart steps
          Columns,      \* bound: how many steps a chart aims for, 48 in the code
          MaxBuckets    \* bound: MAX_BUCKETS, 400 in the code

ASSUME AnalyticsAssumption ==
  /\ {MaxHits, MaxList, PageCap, MaxTracked, Columns, MaxBuckets} \subseteq Nat \ {0}
  /\ BucketSizes \subseteq Nat \ {0} /\ BucketSizes # {}

NoPrint == "no fingerprint"
Anything == "any"

IdsOf(list) == {h.id : h \in ToSet(list)}
IpsOf(list) == {h.ip : h \in ToSet(list)}
FiredBy(h) == DOMAIN h.found
SumOf(list, V(_)) == FoldLeft(LAMBDA n, h : n + V(h), 0, list)
TallyOf(list, Keys(_)) == FoldLeft(LAMBDA b, h : b (+) SetToBag(Keys(h)), EmptyBag, list)
Within(low, n, high) == Max({low, Min({n, high})})

\* A stable sort, one insertion at a time: h goes before whatever it does not Follow.
Placed(list, h, Follows(_, _)) ==
  InsertAt(list, Max({0} \cup {i \in DOMAIN list : ~Follows(list[i], h)}) + 1, h)
SortedBy(list, Follows(_, _)) == FoldLeft(LAMBDA s, h : Placed(s, h, Follows), <<>>, list)
Later(x, y) == x.at > y.at
Chronological(list) == SortedBy(list, Later)
Numbers(list, V(_)) == SortSeq([i \in DOMAIN list |-> V(list[i])], LAMBDA x, y : x < y)

-----------------------------------------------------------------------------
(* Stores.  A query is [ip, print, detector, since, limit], Anything and 0 when   *)
(* it says nothing.                                                          *)
Everything == [ip |-> Anything, print |-> Anything, detector |-> Anything, since |-> 0, limit |-> MaxHits]

MatchesQuery(h, q) ==
  /\ q.ip \in {Anything, h.ip}
  /\ q.print \in {Anything, h.print}
  /\ q.detector \in {Anything} \cup FiredBy(h)
  /\ h.at >= q.since

TakeLatest(list, n) == IF Len(list) =< n THEN list ELSE SubSeq(list, Len(list) - n + 1, Len(list))

ApplyQuery(list, q) == TakeLatest(SelectSeq(list, LAMBDA h : MatchesQuery(h, q)), q.limit)

\* record(): the ring keeps the newest.
Kept(list, h) == TakeLatest(Append(list, h), MaxHits)

\* query(): newest first, and no further than the limit.
Walked(list, q) ==
  FoldRight(LAMBDA h, found : IF Len(found) < q.limit /\ MatchesQuery(h, q) THEN <<h>> \o found ELSE found,
            list, <<>>)

-----------------------------------------------------------------------------
(* The management API. *)
DefaultList == 100
AskedLimit(asked) == Within(1, IF asked \in Int THEN asked ELSE DefaultList, MaxList)

ListIncidents(list, q, asked) ==
  SortedBy(Walked(list, [q EXCEPT !.limit = AskedLimit(asked)]), LAMBDA x, y : x.at < y.at)

GetIncident(list, id) == SelectSeq(list, LAMBDA h : h.id = id)

Digest(list) ==
  [incidents |-> Len(list), score |-> SumOf(list, LAMBDA h : h.score),
   detectors |-> UNION {FiredBy(h) : h \in ToSet(list)}, responses |-> {h.answer : h \in ToSet(list)},
   first |-> Min({h.at : h \in ToSet(list)}), last |-> Max({h.at : h \in ToSet(list)})]

From(list, ip) == SelectSeq(list, LAMBDA h : h.ip = ip)
ByAddress(list) == [ip \in IpsOf(list) |-> Digest(From(list, ip))]

ComputeStats(list) ==
  [total |-> Len(list), uniqueIps |-> Cardinality(IpsOf(list)),
   byDetector |-> TallyOf(list, FiredBy), byResponse |-> TallyOf(list, LAMBDA h : {h.answer}),
   top |-> Max({0} \cup {d.score : d \in Range(ByAddress(list))})]

ComputeIoc(list, minScore) ==
  LET rows == ByAddress(list) IN [ip \in {i \in DOMAIN rows : rows[i].score >= minScore} |-> rows[ip]]

\* A session is one address's story in order; last activity first among sessions.
Session(list, ip) ==
  LET hits == Chronological(Walked(list, [Everything EXCEPT !.ip = ip]))
  IN  [digest |-> Digest(hits), timeline |-> hits]
ComputeSessions(list) == [ip \in IpsOf(list) |-> Session(list, ip)]

ComputeActors(list) ==
  LET marked == SelectSeq(list, LAMBDA h : h.print # NoPrint)
      of(p)  == SelectSeq(marked, LAMBDA h : h.print = p)
  IN  [p \in {h.print : h \in ToSet(marked)} |-> [ips |-> IpsOf(of(p)), digest |-> Digest(of(p))]]

-----------------------------------------------------------------------------
(* Counters, kept as incidents are published and never read from the store. *)
ScoreBuckets == <<5, 10, 15, 20, 30, 40, 60, 100>>
SlotFor(v) == Min({Len(ScoreBuckets) + 1} \cup {i \in DOMAIN ScoreBuckets : v =< ScoreBuckets[i]})
Observe(h, v) == [slots |-> h.slots (+) SetToBag({SlotFor(v)}), count |-> h.count + 1,
                  total |-> h.total + v, max |-> Max({h.max, v})]
Snapshot(h) == [i \in 1 .. Len(ScoreBuckets) + 1 |-> MapThenSumSet(LAMBDA j : CopiesIn(j, h.slots), 1 .. i)]

NoCounters ==
  [total |-> 0, downgrades |-> 0, proven |-> 0, byDetector |-> EmptyBag, byResponse |-> EmptyBag,
   shadow |-> EmptyBag, scores |-> [slots |-> EmptyBag, count |-> 0, total |-> 0, max |-> 0], peaks |-> <<>>]

\* The highest total of an address; the address seen first goes to make room for a new one.
Remembered(peaks, h) ==
  IF \E i \in DOMAIN peaks : peaks[i].ip = h.ip
  THEN [i \in DOMAIN peaks |-> IF peaks[i].ip = h.ip THEN [peaks[i] EXCEPT !.best = Max({@, h.total})] ELSE peaks[i]]
  ELSE TakeLatest(Append(peaks, [ip |-> h.ip, best |-> h.total]), MaxTracked)

One(b) == IF b THEN 1 ELSE 0
Counted(c, h) ==
  [total |-> c.total + 1, downgrades |-> c.downgrades + One(h.refused), proven |-> c.proven + One(h.certain),
   byDetector |-> c.byDetector (+) SetToBag(FiredBy(h)), byResponse |-> c.byResponse (+) SetToBag({h.answer}),
   shadow |-> c.shadow (+) SetToBag(h.shadow), scores |-> Observe(c.scores, h.total), peaks |-> Remembered(c.peaks, h)]

TopScore(c) == Max({0} \cup {p.best : p \in ToSet(c.peaks)})

\* The samples of an exposition, [name, label, value]; the page reads those without a label back.
Histogram(name, h) ==
  {[name |-> name, label |-> "le", value |-> Snapshot(h)], [name |-> name \o "_count", label |-> "", value |-> h.count],
   [name |-> name \o "_sum", label |-> "", value |-> h.total]}
Exposition(c, exempted) ==
  {[name |-> "incidents_total", label |-> "", value |-> c.total],
   [name |-> "unique_ips", label |-> "", value |-> Len(c.peaks)],
   [name |-> "incidents_by_detector", label |-> "detector", value |-> c.byDetector],
   [name |-> "incidents_by_response", label |-> "response", value |-> c.byResponse],
   [name |-> "top_offender_score", label |-> "", value |-> TopScore(c)],
   [name |-> "downgrades_total", label |-> "", value |-> c.downgrades],
   [name |-> "proven_total", label |-> "", value |-> c.proven],
   [name |-> "bypassed_total", label |-> "reason", value |-> exempted]}
  \cup {[name |-> "shadow_firings_total", label |-> "detector", value |-> s] : s \in {c.shadow} \ {EmptyBag}}
  \cup Histogram("score", c.scores)
ParseMetrics(samples) == {[name |-> s.name, value |-> s.value] : s \in {x \in samples : x.label = ""}}

\* /metrics straight from a store, for callers without counters.
StoreExposition(list) ==
  LET s == ComputeStats(list)
  IN  {[name |-> "incidents_total", label |-> "", value |-> s.total],
       [name |-> "unique_ips", label |-> "", value |-> s.uniqueIps],
       [name |-> "incidents_by_detector", label |-> "detector", value |-> s.byDetector],
       [name |-> "incidents_by_response", label |-> "response", value |-> s.byResponse],
       [name |-> "top_offender_score", label |-> "", value |-> s.top]}

-----------------------------------------------------------------------------
(* The page: what it asks for, how a live incident joins the list. *)
IncidentQuery(asked) == IF asked > 0 THEN Min({asked, 1000}) ELSE 100
\* (Mutant.) A live incident goes last, whenever it happened.
MergeIncidentLast(list, h, cap) ==
  IF h.id \in IdsOf(list) THEN list ELSE TakeLatest(Append(list, h), cap)
MergeIncident(list, h, cap) ==
  IF h.id \in IdsOf(list) THEN list ELSE TakeLatest(Placed(list, h, Later), cap)

DecoyResponses == {"decoy-content", "fake-data", "fake-success", "redirect"}
CostResponses == {"tarpit", "drip-feed", "large-payload", "gzip-bomb", "chaos", "rate-limit"}
Captures == {"ssh-capture", "smtp-capture", "ftp-capture", "telnet-capture"}
Rung(r) == IF r = "block" THEN 3 ELSE IF r \in CostResponses THEN 2 ELSE IF r \in DecoyResponses THEN 1 ELSE 0
ResponseClasses == <<"decoy", "time cost", "block", "protocol capture", "silent 404">>
ClassOf(r) ==
  CASE r \in DecoyResponses -> "decoy" [] r \in CostResponses -> "time cost" [] r = "block" -> "block"
    [] r \in Captures -> "protocol capture" [] OTHER -> "silent 404"
ResponseClassEntries(byResponse) ==
  LET of(c) == MapThenSumSet(LAMBDA r : CopiesIn(r, byResponse), {r \in BagToSet(byResponse) : ClassOf(r) = c})
  IN  SelectSeq([i \in DOMAIN ResponseClasses |-> [class |-> ResponseClasses[i], n |-> of(ResponseClasses[i])]],
                LAMBDA e : e.n > 0)

MatchesFilter(h, f) ==
  /\ f.detector \in {Anything} \cup FiredBy(h) /\ f.ip \in {Anything, h.ip} /\ f.outcome \in {Anything, ClassOf(h.answer)}

\* Percentile p per cent of an ascending list, in hundredths.
Percentile(sorted, p) ==
  LET at == (Len(sorted) - 1) * Within(0, p, 100)
      lo == at \div 100 + 1
      hi == IF at % 100 = 0 THEN lo ELSE lo + 1
  IN  sorted[lo] * 100 + (sorted[hi] - sorted[lo]) * (at % 100)

ProtoOf(h) == IF "ssh-auth" \in FiredBy(h) THEN "ssh" ELSE "http"
ScopeIncidents(list, range, proto) ==
  LET scoped == SelectSeq(Chronological(list), LAMBDA h : proto \in {Anything, ProtoOf(h)})
  IN  IF range = 0 \/ scoped = <<>> THEN scoped ELSE SelectSeq(scoped, LAMBDA h : Last(scoped).at - h.at =< range)

ChooseBucket(span) == Min({Max(BucketSizes)} \cup {s \in BucketSizes : span =< Columns * s})

\* One pass over the hits: each bucket counts its own and the addresses seen so far.
BucketsOf(list, size) ==
  LET start  == (list[1].at \div size) * size
      count  == Max({1, (Last(list).at - start) \div size + 1})
      blank  == [n |-> 0, score |-> 0, ips |-> {}, cumIps |-> 0, blocked |-> 0]
      empty  == [i \in 1 .. Min({count, MaxBuckets}) |-> blank]
      slot(h) == Within(1, (h.at - start) \div size + 1, Len(empty))
      fill(s, h) ==
        LET seen == s.seen \cup {h.ip}
        IN  [seen |-> seen,
             rows |-> [s.rows EXCEPT ![slot(h)] = [n |-> @.n + 1, score |-> @.score + h.score, ips |-> @.ips \cup {h.ip},
                                                   cumIps |-> Cardinality(seen), blocked |-> @.blocked + One(h.answer = "block")]]]
      rows   == FoldLeft(fill, [seen |-> {}, rows |-> empty], list).rows
      lulled(r, i) == IF i > 1 /\ r[i].n = 0 THEN [r EXCEPT ![i].cumIps = r[i - 1].cumIps] ELSE r
  IN  FoldLeft(lulled, rows, [i \in DOMAIN rows |-> i])

Pairs(h) == {p \in SUBSET FiredBy(h) : Cardinality(p) = 2}
GapsOf(list) ==
  LET hits(ip) == From(list, ip)
      gaps(ip) == [i \in 1 .. Len(hits(ip)) - 1 |-> hits(ip)[i + 1].at - hits(ip)[i].at]
  IN  SortSeq(FoldSet(LAMBDA ip, s : s \o gaps(ip), <<>>, IpsOf(list)), LAMBDA x, y : x < y)

\* The statistics of a list that is not empty.
Analyze(input) ==
  LET list == Chronological(input)
      span == Last(list).at - list[1].at
      size == ChooseBucket(Max({span, 1}))
      rows == BucketsOf(list, size)
      best(ip) == Max({h.total : h \in ToSet(From(list, ip))})
      rung(ip) == Max({Rung(h.answer) : h \in ToSet(From(list, ip))})
      digests  == ByAddress(list)
  IN  [n |-> Len(list), byDetector |-> TallyOf(list, FiredBy), cooc |-> TallyOf(list, Pairs),
       byResponse |-> TallyOf(list, LAMBDA h : {h.answer}), byProto |-> TallyOf(list, LAMBDA h : {ProtoOf(h)}),
       scores |-> Numbers(list, LAMBDA h : h.score), gaps |-> GapsOf(list),
       ips |-> [ip \in IpsOf(list) |-> [digest |-> digests[ip], peak |-> best(ip), rung |-> rung(ip)]],
       actors |-> ComputeActors(list), buckets |-> rows, size |-> size, span |-> span, first |-> list[1].at,
       multi |-> Len(SelectSeq(list, LAMBDA h : Cardinality(FiredBy(h)) > 1)),
       peak |-> Min({i \in DOMAIN rows : \A j \in DOMAIN rows : rows[j].n =< rows[i].n})]

PeakPerMinute(a) == (a.buckets[a.peak].n * 600) \div a.size

CadenceEdges == <<0, 1, 5, 10, 50, 300, 1200>>
\* The coefficient of variation is compared by its square: n * squares - total^2 over total^2.
Cadence(gaps) ==
  LET n      == Len(gaps)
      total  == SumOf(gaps, LAMBDA g : g)
      spread == n * SumOf(gaps, LAMBDA g : g * g) - total * total
      edge(i, g) == g >= CadenceEdges[i] /\ (i < Len(CadenceEdges) => g < CadenceEdges[i + 1])
  IN  [median |-> Percentile(gaps, 50), p10 |-> Percentile(gaps, 10), p90 |-> Percentile(gaps, 90),
       counts |-> [i \in DOMAIN CadenceEdges |-> Len(SelectSeq(gaps, LAMBDA g : edge(i, g)))],
       verdict |-> IF 4 * spread < total * total \/ total = 0 THEN "machine-regular"
                   ELSE IF 25 * spread < 36 * total * total THEN "mixed" ELSE "irregular"]

\* Ten equal bins up to a round number; steps below are those of the 1, 2, 5 ladder.
NiceSteps == {1, 2, 5, 10, 20, 50}
NiceMax(v) == LET step == Min({s \in NiceSteps : v =< 4 * s}) IN step * ((v + step - 1) \div step)
Bins(sorted) ==
  LET max == NiceMax(Max({1, Last(sorted)}))
  IN  [i \in 1 .. 10 |-> Len(SelectSeq(sorted, LAMBDA s : Within(1, (s * 10) \div max + 1, 10) = i))]

Cooccurrence(a, x, y) == IF x = y THEN CopiesIn(x, a.byDetector) ELSE CopiesIn({x, y}, a.cooc)
Funnel(a) == [level \in 1 .. 4 |-> Cardinality({ip \in DOMAIN a.ips : a.ips[ip].rung >= level - 1})]
Slots(a, hits, n) ==
  LET at(h) == Within(1, ((h.at - a.first) * n) \div Max({1, a.span}) + 1, n)
  IN  [i \in 1 .. n |-> Len(SelectSeq(hits, LAMBDA h : at(h) = i))]
StrongestResponse(responses) == {r \in responses : \A q \in responses : Rung(q) =< Rung(r)}
=============================================================================
