-------------------------------- MODULE Names --------------------------------
(* Who an address belongs to, as values: DNS behind its cache                *)
(* (internal/dns.ts), the verification of crawlers                           *)
(* (detectors/crawler-verification.ts) and the ranges they publish           *)
(* (crawler-ranges.ts), and the labels of known actors (labels.ts). A host   *)
(* name is the sequence of its labels, a User-Agent that of its words.      *)
EXTENDS TtlLru, Integers, SequencesExt, FiniteSetsExt, TLC

CONSTANTS
  DnsTtl, ErrorTtl, InFlightTtl, MaxCached,  \* CachingResolverOptions
  MissingPtrIsForgery,                       \* treatMissingPtrAsForgery
  LabelTtl, MaxNamed                         \* ActorLabelsOptions

Said(value)  == [ok |-> TRUE, value |-> value]
Failed(code) == [ok |-> FALSE, code |-> code]

\* A failure that says there is no such name, and not that nobody answered.
DefinitiveAbsence == {"ENOTFOUND", "ENODATA", "NXDOMAIN"}
IsDefinitiveAbsence(answer) == ~answer.ok /\ answer.code \in DefinitiveAbsence

\* Both families are asked; a failure that says nothing is told unless the other had addresses.
ResolveAddresses(v4, v6) ==
  LET found  == UNION {a.value : a \in {b \in {v4, v6} : b.ok}}
      unsure == {a \in {v4, v6} : ~a.ok /\ ~IsDefinitiveAbsence(a)}
  IN  IF found # {} \/ unsure = {} THEN Said(found) ELSE CHOOSE a \in unsure : TRUE

IsUnderDomain(host, domain) == IsSuffix(domain, host)

-----------------------------------------------------------------------------
(* cachingResolver(): a resolver is its cache, the query each key shares, and *)
(* every query it made. An answer lives from when its query began.            *)
NoQueries == [cache |-> <<>>, inFlight |-> <<>>, queries |-> <<>>]

Lookup(r, key, at) ==
  LET hit   == Holds(r.cache, key, at) /\ Entry(r.cache, key).value.until > at
      read  == [r EXCEPT !.cache = Used(@, key, at)]
      fresh == Len(r.queries) + 1
  IN  IF hit THEN [resolver |-> read, wait |-> 0, answer |-> Entry(r.cache, key).value.answer]
      ELSE IF key \in DOMAIN r.inFlight THEN [resolver |-> read, wait |-> r.inFlight[key]]
      ELSE [wait |-> fresh,
            resolver |-> [read EXCEPT !.inFlight = (key :> fresh) @@ @,
                                      !.queries = Append(@, [key |-> key, at |-> at, answer |-> <<>>])]]

Lifetime(answer) == IF answer.ok \/ IsDefinitiveAbsence(answer) THEN DnsTtl ELSE ErrorTtl

\* (Mutant.) A failure is remembered without its code.
AnsweredWithoutCode(r, q, answer, at) ==
  LET query == r.queries[q]
      kept  == IF answer.ok THEN answer ELSE Failed("ENOTFOUND")
  IN  [cache    |-> Put(r.cache, query.key, [answer |-> kept, until |-> query.at + Lifetime(answer)],
                        Max({DnsTtl, ErrorTtl}), MaxCached, at),
       inFlight |-> [key \in DOMAIN r.inFlight \ {query.key} |-> r.inFlight[key]],
       queries  |-> [r.queries EXCEPT ![q].answer = <<answer>>]]

\* Whatever query the key shares by now, it is no longer shared.
Answered(r, q, answer, at) ==
  LET query == r.queries[q]
  IN  [cache    |-> Put(r.cache, query.key, [answer |-> answer, until |-> query.at + Lifetime(answer)],
                        Max({DnsTtl, ErrorTtl}), MaxCached, at),
       inFlight |-> [key \in DOMAIN r.inFlight \ {query.key} |-> r.inFlight[key]],
       queries  |-> [r.queries EXCEPT ![q].answer = <<answer>>]]

\* The timers that stop a query from being shared for longer.
Released(r, at) ==
  [r EXCEPT !.inFlight = [key \in {k \in DOMAIN @ : r.queries[@[k]].at + InFlightTtl > at} |-> @[key]]]

-----------------------------------------------------------------------------
(* forwardConfirmedReverseDns(), one answer at a time. *)
Outcome(status, cause) == [status |-> status, cause |-> cause]
Unsettled     == Outcome("open", "")
Verified      == Outcome("verified", "")
Indeterminate == Outcome("indeterminate", "")
Contradicted(cause) == Outcome("contradicted", cause)

Candidates(names, domains) == SelectSeq(names, LAMBDA n : \E d \in domains : IsUnderDomain(n, d))

AfterReverse(answer, domains) ==
  IF ~answer.ok THEN IF IsDefinitiveAbsence(answer) THEN Contradicted("no-ptr") ELSE Indeterminate
  ELSE IF answer.value = <<>> THEN Contradicted("no-ptr")
  ELSE IF Candidates(answer.value, domains) = <<>> THEN Contradicted("wrong-domain")
  ELSE Unsettled

AfterForward(answer, ip) ==
  IF ~answer.ok THEN IF IsDefinitiveAbsence(answer) THEN Contradicted("no-forward-record") ELSE Indeterminate
  ELSE IF answer.value = {} THEN Contradicted("no-forward-record")
  ELSE IF ip \notin answer.value THEN Contradicted("address-mismatch")
  ELSE Verified

-----------------------------------------------------------------------------
(* Published ranges. An entry that is an address or a prefix has a family,    *)
(* the bits of its prefix, and the addresses it covers.                       *)
MaxPrefixes == 3       \* bound: 10 000 in the code
MaxBytes    == 4096    \* in kilobytes
MinPrefix(family) == IF family = 4 THEN 8 ELSE 19
Width(family)     == IF family = 4 THEN 32 ELSE 128

\* The entries that parse, or nothing when the list is refused whole.
ValidateRanges(list) ==
  LET parsed == SelectSeq(list, LAMBDA e : e.family # 0 /\ e.bits \in 0 .. Width(e.family))
  IN  IF \/ Len(list) \notin 1 .. MaxPrefixes \/ parsed = <<>>
         \/ \E e \in ToSet(parsed) : e.bits < MinPrefix(e.family)
      THEN <<>> ELSE <<parsed>>

\* A list is refused for what it says of its size before it is read, and for its size as it is.
ReadCapped(page) == page.declared =< MaxBytes /\ page.size =< MaxBytes
ExtractPrefixes(page) == IF page.form = "no prefixes" THEN <<>> ELSE <<page.entries>>

FetchCrawlerRanges(page) ==
  IF page.https /\ page.status = 200 /\ ReadCapped(page) /\ ExtractPrefixes(page) # <<>>
  THEN ValidateRanges(ExtractPrefixes(page)[1]) ELSE <<>>

\* refreshCrawlerRanges(): what arrived intact replaces, the rest stays.
RefreshCrawlerRanges(lists, pages) ==
  LET updated == {id \in DOMAIN pages : FetchCrawlerRanges(pages[id]) # <<>>}
  IN  [id \in updated |-> FetchCrawlerRanges(pages[id])[1]] @@ lists

\* IpAllowlist: an entry that does not parse matches nothing.
IpAllows(list, ip) == \E e \in ToSet(list) : ip \in e.covers

-----------------------------------------------------------------------------
VerifiableCrawlers ==
  <<[id |-> "googlebot", tokens |-> {"googlebot"}, domains |-> {<<"googlebot", "com">>}, rangeIds |-> {"googlebot", "google-special"}],
    [id |-> "gptbot", tokens |-> {"gptbot"}, domains |-> {}, rangeIds |-> {"gptbot"}]>>

\* A client that says it is like another does not claim to be it.
ClaimsToken(agent, token) == \E i \in DOMAIN agent : agent[i] = token /\ (i > 1 => agent[i - 1] # "like")
Claimed(agent) == SelectSeq(VerifiableCrawlers, LAMBDA c : \E t \in c.tokens : ClaimsToken(agent, t))

\* What published ranges settle before DNS is asked.
ByRanges(crawler, ip, lists) ==
  LET answers == {IpAllows(lists[id], ip) : id \in crawler.rangeIds \cap DOMAIN lists}
  IN  CASE TRUE \in answers                         -> Verified
        [] TRUE \notin answers /\ crawler.domains # {} -> Unsettled
        [] answers = {FALSE} /\ crawler.domains = {}   -> Contradicted("outside-published-ranges")
        [] OTHER                                    -> Indeterminate

\* Whether the detector reports the claim as forged, which is proof.
Forged(outcome) == outcome.status = "contradicted" /\ (outcome.cause = "no-ptr" => MissingPtrIsForgery)

(* The claims under way: s has the resolver and the claims, each with the query it waits for. *)
Concluded(s, c, outcome) == [s EXCEPT !.claims[c].outcome = outcome, !.claims[c].wait = 0]

AskForward(s, c, name, at) ==
  LET l == Lookup(s.resolver, [of |-> "addresses", what |-> name], at)
      t == [s EXCEPT !.resolver = l.resolver, !.claims[c].wait = l.wait]
  IN  IF l.wait = 0 THEN Concluded(t, c, AfterForward(l.answer, s.claims[c].ip)) ELSE t

Reversed(s, c, answer, at) ==
  LET domains == Claimed(s.claims[c].agent)[1].domains
      outcome == AfterReverse(answer, domains)
  IN  IF outcome = Unsettled THEN AskForward(s, c, Candidates(answer.value, domains)[1], at) ELSE Concluded(s, c, outcome)

AskReverse(s, c, at) ==
  LET l == Lookup(s.resolver, [of |-> "names", what |-> s.claims[c].ip], at)
      t == [s EXCEPT !.resolver = l.resolver, !.claims[c].wait = l.wait]
  IN  IF l.wait = 0 THEN Reversed(t, c, l.answer, at) ELSE t

\* inspect(), as far as it goes without waiting.
Inspected(s, c, lists, at) ==
  LET crawlers == Claimed(s.claims[c].agent)
      decided  == ByRanges(crawlers[1], s.claims[c].ip, lists)
  IN  IF crawlers = <<>> THEN Concluded(s, c, Indeterminate)
      ELSE IF decided = Unsettled THEN AskReverse(s, c, at) ELSE Concluded(s, c, decided)

\* Everybody who shares a query hears its answer, in the order they asked.
AllHear(s, q, answer, at) ==
  LET key     == s.resolver.queries[q].key
      resume(t, c) == IF key.of = "names" THEN Reversed(t, c, answer, at) ELSE Concluded(t, c, AfterForward(answer, t.claims[c].ip))
      waiting == SelectSeq([c \in DOMAIN s.claims |-> c], LAMBDA c : s.claims[c].wait = q)
  IN  FoldLeft(resume, [s EXCEPT !.resolver = Answered(@, q, answer, at)], waiting)

-----------------------------------------------------------------------------
(* Labels. A match says what must hold of the address, the agent and the      *)
(* reverse name; a name is looked up in the background, once at a time.       *)
Labels == <<[name |-> "crawler", hidden |-> TRUE, match |-> [hostname |-> "googlebot"]],
            [name |-> "monitor", hidden |-> FALSE, match |-> [userAgent |-> "curl", hostname |-> "monitor"]],
            [name |-> "scanner", hidden |-> FALSE, match |-> [userAgent |-> "curl"]]>>
Specific == <<"ip", "asn", "org", "userAgent", "hostname">>

\* Every configured field has to hold, and the most specific is the one reported.
MatchOf(match, subject, hosts) ==
  LET holds(f) == CASE f = "ip" -> subject.ip \in match.ip
                    [] f \in {"asn", "org"} -> f \in DOMAIN subject /\ subject[f] = match[f]
                    [] f = "userAgent" -> Contains(subject.agent, match.userAgent)
                    [] f = "hostname" -> \E n \in ToSet(hosts) : Contains(n, match.hostname)
  IN  IF \A f \in DOMAIN match : holds(f)
      THEN SelectSeq(Specific, LAMBDA f : f \in DOMAIN match)[1] ELSE "nothing"

\* The places of the labels that are tried, the last of which matched unless none did.
Tried(subject, hosts) ==
  {i \in DOMAIN Labels : \A j \in 1 .. i - 1 : MatchOf(Labels[j].match, subject, hosts) = "nothing"}
LabelFor(subject, hosts) ==
  LET label == Labels[Max(Tried(subject, hosts))]
      on    == MatchOf(label.match, subject, hosts)
  IN  IF on = "nothing" THEN <<>> ELSE <<[name |-> label.name, on |-> on, hidden |-> label.hidden]>>

\* prime(): whether an address is looked up now.
Primes(subject, hosts, hostnames, asked, at) ==
  /\ \E i \in Tried(subject, hosts) : "hostname" \in DOMAIN Labels[i].match
  /\ subject.ip \notin asked
  /\ ~Holds(hostnames, subject.ip, at)
=============================================================================
