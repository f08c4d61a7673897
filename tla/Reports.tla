------------------------------- MODULE Reports -------------------------------
(***************************************************************************)
(* One story, told many ways.  Requests reach the honeypot over one of     *)
(* four front ends (core.ts resolveIp, exempt, ignores, evaluate), their   *)
(* hits are recorded, counted and published, and everything that reports   *)
(* on them reads a different trace of the same traffic: the store, the     *)
(* counters, the dashboard's page (Analytics), the policy preview          *)
(* (dashboard/preview.ts), the access log replay (replay.ts), the          *)
(* explanation of a pasted request (explain.ts), the corpus runner and its *)
(* baseline (corpus/runner.ts, compare.ts), the wire replay                *)
(* (scripts/simulate.ts) and the nginx edge (scripts/generate-nginx.ts).   *)
(***************************************************************************)
EXTENDS Analytics, ResponsePolicy

CONSTANTS Ips,        \* clients
          MaxTraffic, \* bound: requests and captures, at most Len(Instants)
          TarpitAt,   \* the ladder's thresholds, lowered so that they are met
          BlockAt

Instants == <<4, 9, 190>>  \* bound: when the first, second, third begins

ASSUME ReportsAssumption == MaxTraffic \in 1 .. Len(Instants) /\ TarpitAt \in Nat /\ BlockAt \in Nat

-----------------------------------------------------------------------------
(* Whose address a request is given.  Proxies are our own; a header is the   *)
(* list of its entries, and what is no address is dropped from it.           *)
Proxies == {"cdn", "proxy"}
ProxyConfig == [bare   |-> [trust |-> FALSE, trusted |-> {}, hops |-> 1],
                hops   |-> [trust |-> TRUE, trusted |-> {}, hops |-> 2],
                listed |-> [trust |-> TRUE, trusted |-> Proxies, hops |-> 1],
                edge   |-> [trust |-> TRUE, trusted |-> {}, hops |-> 1]]
Fronts == DOMAIN ProxyConfig

\* What resolveProxy() would refuse to start with.
ValidProxy(cfg) == cfg.hops \in Nat \ {0} /\ cfg.trusted \subseteq Ips \cup Proxies
ASSUME ProxiesAreValid == \A f \in Fronts : ValidProxy(ProxyConfig[f])

CanonicalAddresses == Ips \cup Proxies

ResolveIp(cfg, peer, header) ==
  LET chain   == SelectSeq(header, LAMBDA e : e \in CanonicalAddresses)
      foreign == {i \in DOMAIN chain : chain[i] \notin cfg.trusted}
      index   == Len(chain) - cfg.hops + 1
  IN  IF ~cfg.trust \/ chain = <<>> THEN peer
      ELSE IF cfg.trusted # {}
           THEN IF peer \notin cfg.trusted \/ foreign = {} THEN peer ELSE chain[Max(foreign)]
      ELSE IF index < 1 THEN peer ELSE chain[index]

\* How a client reaches each front, with what it wrote itself in the header.
Written == {<<>>, <<"junk">>, <<"proxy">>} \cup {<<ip>> : ip \in Ips}
RoutesOf(f, ip, written) ==
  CASE f = "bare"   -> {[peer |-> ip, header |-> written]}
    [] f = "hops"   -> {[peer |-> "proxy", header |-> written \o <<ip, "cdn">>]}
    [] f = "listed" -> {[peer |-> "proxy", header |-> written \o <<ip, "cdn">>], [peer |-> ip, header |-> written]}
    [] f = "edge"   -> {[peer |-> "proxy", header |-> <<ip>>]}

Seen(f, origin) ==
  {ResolveIp(ProxyConfig[f], route.peer, route.header) :
     route \in UNION {RoutesOf(f, origin, written) : written \in Written}}

-----------------------------------------------------------------------------
(* Requests, as far as four detectors look at them.  A path is a stem and    *)
(* what follows it; fields is a form body, <<>> for none.                    *)
Stem(s) == [stem |-> s, rest |-> ""]
Request(agent, accepts, path, fields) ==
  [agent |-> agent, accepts |-> accepts, path |-> path, fields |-> fields, token |-> FALSE]
Login == [username |-> "payload", password |-> "a password"]
Kinds ==
  [browse  |-> Request("chrome", TRUE, Stem("page"), <<>>),
   tool    |-> Request("sqlmap", TRUE, [stem |-> "phpunit", rest |-> "/x"], <<>>),
   guess   |-> Request("curl", TRUE, Stem("wp-login"), <<>>),
   spoof   |-> Request("chrome", FALSE, [stem |-> "admin", rest |-> "/"], <<>>),
   form    |-> Request("chrome", TRUE, Stem("wp-login"), Login),
   body    |-> Request("chrome", TRUE, Stem("page"), Login),
   noagent |-> Request("", TRUE, Stem("page"), <<>>),
   health  |-> Request("curl", TRUE, Stem("healthz"), <<>>),
   partner |-> [Request("curl", TRUE, Stem("page"), <<>>) EXCEPT !.token = TRUE]]
\* bound: which kinds each front end is tried with.
KindsAt == [bare |-> {"tool", "partner"}, listed |-> {"noagent", "form", "body"}, hops |-> {"guess", "spoof", "health"},
            edge |-> {"browse", "tool", "form"}]
HasBody(r) == r.fields # <<>>

\* normalizePath(): a trailing slash is not part of the path a detector sees.
Normalized(path) == IF path.rest = "/" THEN [path EXCEPT !.rest = ""] ELSE path

Decoys == {[stem |-> "phpunit", match |-> "prefix", points |-> 10, ask |-> "not-found"],
           [stem |-> "wp-login", match |-> "exact", points |-> 5, ask |-> "decoy-content"],
           [stem |-> "admin", match |-> "pattern", points |-> 4, ask |-> "decoy-content"]}
UnderPrefix(rest) == rest \in {"", "/", "/x", ".x"}
DecoyMatches(decoy, path) ==
  path.stem = decoy.stem /\ (IF decoy.match = "prefix" THEN UnderPrefix(path.rest) ELSE path.rest = "")

Finding(id, points, certain, ask) == {[id |-> id, points |-> points, certain |-> certain, ask |-> ask]}
AttackTools == {"sqlmap"}
ScriptingClients == {"curl"}

\* What the pass can see: the body or not, all the headers or a log line's.
ScannerSignature(r, sees) ==
  IF r.agent = "" THEN IF sees.partial THEN {} ELSE Finding("scanner-signature", 3, FALSE, NoAction)
  ELSE IF r.agent \in AttackTools \cup ScriptingClients
       THEN Finding("scanner-signature", 6, r.agent \in AttackTools, NoAction) ELSE {}
ClientAnomaly(r, sees) ==
  IF r.agent = "chrome" /\ ~r.accepts /\ ~sees.partial THEN Finding("client-anomaly", 4, FALSE, NoAction) ELSE {}
DecoyPath(r) ==
  UNION {Finding("decoy-path", d.points, FALSE, d.ask) : d \in {e \in Decoys : DecoyMatches(e, Normalized(r.path))}}
PayloadInjection(r, sees) ==
  IF sees.body /\ HasBody(r) THEN Finding("payload-injection", 10, FALSE, NoAction) ELSE {}

Detectors == {"scanner-signature", "client-anomaly", "decoy-path", "payload-injection"}
Shadowed == {"client-anomaly"}
AllFindings(r, sees) == IF r.token THEN {} ELSE ScannerSignature(r, sees) \cup ClientAnomaly(r, sees) \cup DecoyPath(r) \cup PayloadInjection(r, sees)
Findings(r, sees) == {f \in AllFindings(r, sees) : f.id \notin Shadowed}

Headers == [body |-> FALSE, partial |-> FALSE]
Whole == [body |-> TRUE, partial |-> FALSE]
LogLine == [body |-> FALSE, partial |-> TRUE]

\* computeFingerprint(): the family of the client; its header order goes with it.
UaClass(agent) ==
  CASE agent = "" -> "none" [] agent = "curl" -> "tool:curl" [] agent = "sqlmap" -> "bot" [] agent = "chrome" -> "browser:chrome"

\* Noisy-OR over the certainty of each finding, in millionths.
Weight(f) == IF f.certain THEN 100 ELSE IF f.points >= 9 THEN 80 ELSE IF f.points >= 6 THEN 50 ELSE 25
SuspicionCeiling == 950000
Confidence(found) ==
  IF \E f \in found : Weight(f) = 100 THEN 1000000
  ELSE Min({SuspicionCeiling, 1000000 - FoldSet(LAMBDA f, doubt : (doubt * (100 - Weight(f))) \div 100, 1000000, found)})

Policy(rules) == [rules |-> rules, blockAt |-> BlockAt, tarpitAt |-> TarpitAt]
Answers == {"block", "tarpit", "not-found", "decoy-content"}
Decision(rules, ctx) == CHOOSE a \in Answers : Decides(Policy(rules), ctx, a)
\* The proof guard: what an unproven block becomes.
Guarded(wanted, certain, proof) == IF wanted = "block" /\ proof /\ ~certain THEN "tarpit" ELSE wanted

\* What was found, weighed: the first finding by points is the one whose wish is heard.
Evidence(found, raised) ==
  LET points == [d \in {f.id : f \in found} |-> (CHOOSE f \in found : f.id = d).points]
  IN  [found |-> points, shadow |-> {f.id : f \in raised \ found}, certain |-> \E f \in found : f.certain,
       score |-> CombinedScore(DOMAIN points, points, [d \in DOMAIN points |-> d]), confidence |-> Confidence(found),
       ask |-> (CHOOSE f \in found : Leads(f.id, DOMAIN points, points)).ask]

Context(e, total) == [total |-> total, score |-> e.score, certain |-> e.certain, fired |-> DOMAIN e.found, ask |-> e.ask]
Answered(hit, wanted, proof) ==
  LET answer == Guarded(wanted, hit.certain, proof) IN hit @@ [answer |-> answer, refused |-> answer # wanted]
Ruled(stamp, e, total, proof) == Answered(stamp @@ e @@ [total |-> total], Decision(<<>>, Context(e, total)), proof)
Totalled(stamp, e, prior, proof) == Ruled(stamp, e, prior + e.score, proof)

\* One committing evaluation that found something.
Judged(id, ip, at, r, sees, prior, proof) ==
  Totalled([id |-> id, at |-> at, ip |-> ip, print |-> UaClass(r.agent), fields |-> r.fields,
            quoted |-> IF sees.body THEN Range(r.fields) ELSE {}],
           Evidence(Findings(r, sees), AllFindings(r, sees)), prior, proof)

\* What a protocol honeypot publishes: nothing was decided, the login was captured.
Captured(id, ip, at, prior) ==
  [id |-> id, at |-> at, ip |-> ip, print |-> NoPrint, found |-> [d \in {"ssh-auth"} |-> 3], certain |-> FALSE,
   shadow |-> {}, score |-> 3, total |-> prior + 3, ask |-> NoAction, answer |-> "ssh-capture", refused |-> FALSE,
   confidence |-> 250000, fields |-> <<>>, quoted |-> {}]

-----------------------------------------------------------------------------
(* redactIncident(): the copy a sink is sent. *)
\* Secrets are longer than MIN_SCRUB_LENGTH here.
SecretNames == {"password", "token", "cookie"}
Redacted == "[redacted]"
RedactIncident(h) ==
  LET secret  == DOMAIN h.fields \cap SecretNames
      removed == {h.fields[n] : n \in secret}
  IN  [h EXCEPT !.fields = [n \in DOMAIN @ |-> IF n \in secret THEN Redacted ELSE @[n]],
                !.quoted = {IF v \in removed THEN Redacted ELSE v : v \in @}]

-----------------------------------------------------------------------------
(* The edge: what the generated nginx configuration sends to the honeypot.   *)
(* A location sees the path with its trailing slash.                         *)
DecoyLocation(decoy, path) ==
  /\ path.stem = decoy.stem
  /\ CASE decoy.match = "prefix" -> UnderPrefix(path.rest)
       [] decoy.match = "exact" -> path.rest \in {"", "/"}
       [] decoy.match = "pattern" -> path.rest = ""
BadAgent(r) == r.agent \in AttackTools \cup ScriptingClients
Diverted(r) == BadAgent(r) \/ \E d \in Decoys : DecoyLocation(d, r.path)

-----------------------------------------------------------------------------
(* The policy preview.  A draft is a list of rules as posted: one that       *)
(* cannot be read is refused as a whole, and fields left out match anything. *)
MaxRules == 2  \* bound: MAX_RULES, 100 in the code
RuleRefused(draft, i) ==
  \/ ~({"id", "respondWith"} \subseteq DOMAIN draft[i])
  \/ \E j \in 1 .. i - 1 : draft[j].id = draft[i].id
ParseRules(draft) ==
  LET rule(d) == [respondWith |-> d.respondWith, fallback |-> "not-found", minTotal |-> 0, minScore |-> 0,
                  certain |-> BOOLEAN, fired |-> IF "match" \in DOMAIN d THEN d.match ELSE {}]
  IN  IF Len(draft) > MaxRules \/ \E i \in DOMAIN draft : RuleRefused(draft, i) THEN <<>>
      ELSE <<[i \in DOMAIN draft |-> rule(draft[i])]>>

PreviewPolicy(list, rules, proof) ==
  LET now(h)    == Guarded(Decision(rules, Context(h, h.total)), h.certain, proof)
      consulted == SelectSeq(list, LAMBDA h : FiredBy(h) # {})
      changed   == SelectSeq(consulted, LAMBDA h : now(h) # h.answer)
  IN  [total |-> Len(consulted), skipped |-> Len(list) - Len(consulted), unchanged |-> Len(consulted) - Len(changed),
       changed |-> [i \in DOMAIN changed |-> [id |-> changed[i].id, was |-> changed[i].answer, now |-> now(changed[i])]]]

-----------------------------------------------------------------------------
(* The access log of the requests, and its replay.  A log line names the     *)
(* address, the agent and the path, and nothing else of the request.         *)
ParseLogLine(line) ==
  IF line.form # "combined" THEN <<>>
  ELSE <<[line.request EXCEPT !.accepts = FALSE, !.fields = <<>>, !.token = FALSE]>>

NoSource == [requests |-> 0, flagged |-> 0, best |-> 0]
NothingReplayed ==
  [lines |-> 0, parsed |-> 0, skipped |-> 0, hits |-> <<>>, byDetector |-> EmptyBag, byResponse |-> EmptyBag, downgraded |-> 0,
   scores |-> [ip \in CanonicalAddresses |-> 0], sources |-> [ip \in CanonicalAddresses |-> NoSource]]

ReplayFlagged(s, h) ==
  [s EXCEPT !.hits = Append(@, h), !.scores[h.ip] = h.total, !.byDetector = @ (+) SetToBag(FiredBy(h)),
            !.byResponse = @ (+) SetToBag({h.answer}), !.downgraded = @ + One(h.refused),
            !.sources[h.ip].flagged = @ + 1, !.sources[h.ip].best = Max({@, h.total})]
ReplayRequest(s, line, r) ==
  LET read == [s EXCEPT !.parsed = @ + 1, !.sources[line.ip].requests = @ + 1]
  IN  IF Findings(r, LogLine) = {} THEN read
      ELSE ReplayFlagged(read, Judged(line.id, line.ip, line.at, r, LogLine, s.scores[line.ip], TRUE))
ReplayLine(s, line) ==
  LET parsed == ParseLogLine(line)
      some   == [s EXCEPT !.lines = @ + 1]
  IN  IF line.form = "blank" THEN s
      ELSE IF parsed = <<>> THEN [some EXCEPT !.skipped = @ + 1] ELSE ReplayRequest(some, line, parsed[1])
ReplayLog(lines) == FoldLeft(ReplayLine, NothingReplayed, lines)
TopSources(s) == {ip \in DOMAIN s.sources : s.sources[ip].flagged > 0}

-----------------------------------------------------------------------------
(* Explaining a pasted request: a curl command, a request line with headers,  *)
(* a block of headers, or a User-Agent alone.  A header is a name and a value. *)
Pasted(form, r) ==
  [form |-> form, path |-> r.path, fields |-> r.fields,
   headers |-> (IF r.agent = "" THEN <<>> ELSE <<<<"user-agent", r.agent>>>>)
               \o (IF r.accepts THEN <<<<"accept-language", "en">>>> ELSE <<>>) \o <<<<"", "a line without a name">>>>]

\* addHeader(): a line without a name is dropped, a repeated one joined. curl has an agent of
\* its own, and an agent pasted alone is read with what a browser sends beside it.
HeadersOf(text) ==
  LET named  == SelectSeq(text.headers, LAMBDA h : h[1] # "")
      add(headers, h) == IF h[1] \in DOMAIN headers THEN [headers EXCEPT ![h[1]] = @ \o ", " \o h[2]]
                                                    ELSE headers @@ (h[1] :> h[2])
      given  == FoldLeft(add, <<>>, named)
  IN  CASE text.form = "curl" -> given @@ ("user-agent" :> "curl")
        [] text.form = "agent" -> given @@ ("accept-language" :> "en")
        [] OTHER -> given

\* No target comes with a block of headers, and no body with an agent. Nothing pasted is refused.
ParseRequest(text) ==
  LET headers == HeadersOf(text)
  IN  Request(IF "user-agent" \in DOMAIN headers THEN headers["user-agent"] ELSE "",
              "accept-language" \in DOMAIN headers,
              IF text.form \in {"curl", "request"} THEN text.path ELSE Stem(""),
              IF text.form = "agent" THEN <<>> ELSE text.fields)

\* A dry run on an engine that has seen nothing else, and without the proof guard.
ExplainRequest(r) ==
  IF Findings(r, Whole) = {} THEN <<>>
  ELSE <<Judged(0, "localhost", 0, r, Whole, 0, FALSE)>>

-----------------------------------------------------------------------------
(* The corpus: cases of requests, run on an engine of their own each, in     *)
(* process or over the wire.  A case names what must fire and who sends it.  *)
AddressFor(case, from) == <<198, 18 + case \div 256, case % 256, (from % 254) + 1>>

\* An evaluation as the chosen front end would make it: a body is read once something fired.
EvaluateRequest(t, prior, middleware) ==
  LET r == Kinds[t.kind]
  IN  IF Findings(r, IF middleware /\ HasBody(r) THEN Headers ELSE Whole) = {} THEN <<>>
      ELSE <<Judged(t.id, t.ip, Instants[t.id], r, IF HasBody(r) THEN Whole ELSE Headers, prior, middleware)>>

Ran(s, h) == [total |-> IF h = <<>> THEN s.total ELSE h[1].total, hits |-> s.hits \o h,
              last |-> IF h = <<>> THEN "" ELSE h[1].answer]
CaseResult(case, ran, fired) ==
  LET certain  == \E h \in ToSet(ran.hits) : h.certain
      blocking == \E h \in ToSet(ran.hits) : h.answer = "block" \/ h.refused
      wrongly  == CASE case.audience = "human" -> fired # {} /\ ~case.knownCost
                    [] case.audience = "benign-bot" -> certain \/ blocking \/ fired \cap case.never # {}
                    [] OTHER -> FALSE
  IN  [id |-> case.id, hits |-> ran.hits, fired |-> fired, last |-> ran.last, falsePositive |-> wrongly,
       failed |-> wrongly \/ ~(case.expect \subseteq fired) \/ fired \cap case.never # {} \/ certain \notin case.certain]
RunCase(case, middleware) ==
  LET send(s, t) == Ran(s, EvaluateRequest(t, s.total, middleware))
      result(ran) == CaseResult(case, ran, UNION {FiredBy(h) : h \in ToSet(ran.hits)})
  IN  result(FoldLeft(send, [total |-> 0, hits |-> <<>>, last |-> ""], case.requests))

\* A case that needs what the engine was not given is skipped.
Scorecard(results, skipped) ==
  [results |-> results, skipped |-> skipped, total |-> Cardinality(results),
   passed |-> Cardinality({r \in results : ~r.failed}), failed |-> Cardinality({r \in results : r.failed}),
   coverage |-> [d \in Detectors |-> Cardinality({r \in results : d \in r.fired})],
   unexercised |-> {d \in Detectors : \A r \in results : d \notin r.fired}]
RunCorpus(cases, provides, middleware) ==
  LET runs(c) == c.requires \subseteq provides
  IN  Scorecard({RunCase(c, middleware) : c \in {c \in cases : runs(c)}}, {c \in cases : ~runs(c)})

IsServed(result) == result.last = ""
BaselineOf(card) == {[id |-> r.id, served |-> IsServed(r), action |-> r.last, passed |-> ~r.failed] : r \in card.results}
CompareToBaseline(baseline, now) ==
  LET both == {p \in baseline \X now : p[1].id = p[2].id}
      lost(p) == p[1].served /\ ~p[2].served
      won(p)  == ~p[1].served /\ p[2].served
      ids(set) == {p[2].id : p \in set}
  IN  [regressions  |-> ids({p \in both : lost(p) \/ (~won(p) /\ p[1].passed /\ ~p[2].passed)}),
       improvements |-> ids({p \in both : won(p) \/ (~lost(p) /\ ~p[1].passed /\ p[2].passed)}),
       missing |-> {b.id : b \in baseline} \ {n.id : n \in now}, added |-> {n.id : n \in now} \ {b.id : b \in baseline}]

\* Over the wire the verdict is read back from the management API, address by address.
FiredFrom(list, ips) ==
  UNION {UNION {FiredBy(h) : h \in ToSet(ListIncidents(list, [Everything EXCEPT !.ip = ip], 1000))} : ip \in ips}
WireSkips(case) == \/ ~(case.requires \subseteq {"honeytoken", "trap"})
                   \/ \E t, u \in ToSet(case.requests) : Instants[u.id] - Instants[t.id] > 50
WireVerdict(case, fired) == IF case.audience = "human" THEN fired = {} ELSE case.expect \subseteq fired
-----------------------------------------------------------------------------
VARIABLES front,     \* the front end requests come through
          traffic,   \* ghost: every request and capture, in order of arrival
          pending,   \* evaluations under way
          stored,    \* the memory store's hits
          scores,    \* its totals
          counters,  \* IncidentCounters
          exempted,  \* the engine's bypass counts
          blocked,   \* the blocklist
          history,   \* ghost: every hit recorded, in order
          feed,      \* incidents on their way to the page
          page       \* the page's corpus

engineVars == <<stored, scores, counters, blocked, history>>
pageVars == <<feed, page>>
vars == <<front, traffic, pending, exempted, engineVars, pageVars>>

Sent == Len(traffic)
Now == IF Sent = 0 THEN 0 ELSE Instants[Sent]
Middleware == front # "edge"

Init ==
  /\ front \in Fronts
  /\ traffic = <<>> /\ pending = {} /\ stored = <<>> /\ history = <<>> /\ feed = <<>> /\ page = <<>>
  /\ scores = [ip \in CanonicalAddresses |-> 0] /\ counters = NoCounters /\ exempted = EmptyBag /\ blocked = {}

\* A request of a kind arrives from origin, is given address ip and meets outcome.
Arriving(origin, kind, ip, outcome) ==
  /\ Sent < MaxTraffic
  /\ traffic' = Append(traffic, [id |-> Sent + 1, origin |-> origin, ip |-> ip, kind |-> kind, outcome |-> outcome,
                                 alone |-> \A p \in pending : p.ip # ip])
  /\ UNCHANGED <<front, engineVars, pageVars>>

Reaches(r) == Middleware \/ Diverted(r)
Ignored(r) == r.path.stem = "healthz"
Heard(r) == Reaches(r) /\ ~Ignored(r) /\ ~r.token

\* ignores() and exempt(): counted, and nothing else happens.
Exempt(origin, kind, ip) ==
  LET r == Kinds[kind]
  IN  /\ Reaches(r) /\ (Ignored(r) \/ r.token)
      /\ exempted' = exempted (+) SetToBag({IF Ignored(r) THEN "ignored-path" ELSE "service-token"})
      /\ Arriving(origin, kind, ip, "exempt")
      /\ UNCHANGED pending

\* isBlocked(): answered at the door, before any detector runs.
Refuse(origin, kind, ip) ==
  /\ Heard(Kinds[kind]) /\ ip \in blocked
  /\ Arriving(origin, kind, ip, "refused")
  /\ UNCHANGED <<pending, exempted>>

\* Nothing found on the first pass, or never sent to the honeypot.
PassThrough(origin, kind, ip) ==
  LET r == Kinds[kind]
  IN  /\ \/ ~Reaches(r)
         \/ Heard(r) /\ ip \notin blocked /\ Findings(r, Headers) = {} /\ (Middleware \/ ~HasBody(r))
      /\ Arriving(origin, kind, ip, IF Reaches(r) THEN "clean" ELSE "application")
      /\ UNCHANGED <<pending, exempted>>

\* Decided at once; a request with a body is decided when the body has been read.
Flag(origin, kind, ip) ==
  LET r == Kinds[kind]
  IN  /\ Heard(r) /\ ip \notin blocked
      /\ Findings(r, Headers) # {} \/ (~Middleware /\ HasBody(r))
      /\ Arriving(origin, kind, ip, "flagged")
      /\ pending' = pending \cup
           {[id |-> Sent + 1, ip |-> ip, kind |-> kind,
             hit |-> IF HasBody(r) THEN <<>>
                     ELSE <<Judged(Sent + 1, ip, Instants[Sent + 1], r, Headers, scores[ip], Middleware)>>]}
      /\ UNCHANGED exempted

\* A login attempt on a protocol honeypot of the service, published through the same engine.
Capture(ip) ==
  /\ Sent < MaxTraffic /\ ~Middleware
  /\ traffic' = Append(traffic, [id |-> Sent + 1, origin |-> ip, ip |-> ip, kind |-> "ssh", outcome |-> "captured",
                                 alone |-> \A p \in pending : p.ip # ip])
  /\ pending' = pending \cup {[id |-> Sent + 1, ip |-> ip, kind |-> "ssh",
                               hit |-> <<Captured(Sent + 1, ip, Instants[Sent + 1], scores[ip])>>]}
  /\ UNCHANGED <<front, exempted, engineVars, pageVars>>

\* The pass that sees the body, with the score and the time of its own moment.
ReadBody(p) ==
  /\ p.hit = <<>>
  /\ pending' = (pending \ {p}) \cup
       {[p EXCEPT !.hit = <<Judged(p.id, p.ip, Now, Kinds[p.kind], Whole, scores[p.ip], Middleware)>>]}
  /\ UNCHANGED <<front, traffic, exempted, engineVars, pageVars>>

\* Recorded, counted, published, and answered.
Finish(p) ==
  /\ p.hit # <<>>
  /\ LET h == p.hit[1]
     IN  /\ stored' = Kept(stored, h) /\ history' = Append(history, h)
         /\ scores' = [scores EXCEPT ![h.ip] = @ + h.score]
         /\ counters' = Counted(counters, h)
         /\ feed' = Append(feed, h)
         /\ blocked' = IF h.answer = "block" THEN blocked \cup {h.ip} ELSE blocked
  /\ pending' = pending \ {p}
  /\ UNCHANGED <<front, traffic, exempted, page>>

Hear ==
  /\ feed # <<>>
  /\ page' = MergeIncident(page, Head(feed), PageCap)
  /\ feed' = Tail(feed)
  /\ UNCHANGED <<front, traffic, pending, exempted, engineVars>>

\* A reload of the page, which may find incidents that are still in the feed.
Reload ==
  /\ feed # <<>>
  /\ page' = Chronological(ListIncidents(stored, Everything, IncidentQuery(PageCap)))
  /\ UNCHANGED <<front, traffic, pending, exempted, engineVars, feed>>

Next ==
  \/ \E origin \in Ips, kind \in KindsAt[front] : \E ip \in Seen(front, origin) :
       Exempt(origin, kind, ip) \/ Refuse(origin, kind, ip) \/ PassThrough(origin, kind, ip) \/ Flag(origin, kind, ip)
  \/ \E ip \in Ips : Capture(ip)
  \/ \E p \in pending : ReadBody(p) \/ Finish(p)
  \/ Hear \/ Reload

Spec == Init /\ [][Next]_vars

-----------------------------------------------------------------------------
(* What the reports must agree on.  history is everything there was to tell. *)
HitsOf(ip) == From(history, ip)
Bare(list) == [i \in DOMAIN list |-> [list[i] EXCEPT !.at = 0]]

\* An address whose every request was judged, one after the other.
Calm(ip) == \A t \in ToSet(traffic) : t.ip = ip => t.alone /\ t.outcome \in {"clean", "flagged"}

RequestsOf(ip) == SelectSeq(traffic, LAMBDA t : t.ip = ip /\ t.kind # "ssh")
Calls(ip) == {Kinds[t.kind] : t \in ToSet(RequestsOf(ip))}
Patron(ip) ==
  IF \E r \in Calls(ip) : BadAgent(r) THEN "hostile" ELSE IF \E r \in Calls(ip) : r.agent = "" THEN "benign-bot" ELSE "human"
CaseOf(ip) ==
  [id |-> ip, requests |-> RequestsOf(ip), audience |-> Patron(ip), knownCost |-> FALSE,
   requires |-> IF \E r \in Calls(ip) : r.token THEN {"service-token"} ELSE {},
   expect |-> UNION {FiredBy(h) : h \in ToSet(HitsOf(ip))}, never |-> {},
   certain |-> {\E h \in ToSet(HitsOf(ip)) : h.certain}]
Cases == {CaseOf(ip) : ip \in {t.ip : t \in ToSet(traffic)} \cap Ips}

AccessLog ==
  <<[form |-> "blank"], [form |-> "garbage"]>> \o
  [i \in DOMAIN SelectSeq(traffic, LAMBDA t : t.kind # "ssh") |->
     LET t == SelectSeq(traffic, LAMBDA u : u.kind # "ssh")[i]
     IN  [form |-> "combined", id |-> t.id, ip |-> t.ip, at |-> Instants[t.id], request |-> Kinds[t.kind]]]

\* A log line holds all that was judged of this address.
Loggable(ip) == \A r \in Calls(ip) : ~HasBody(r) /\ r.agent # "" /\ r.accepts

Queries == {Everything, [Everything EXCEPT !.limit = 1], [Everything EXCEPT !.detector = "decoy-path", !.limit = 1],
            [Everything EXCEPT !.since = 5], [Everything EXCEPT !.print = "tool:curl"]}
           \cup {[Everything EXCEPT !.ip = ip] : ip \in Ips}

StoreTells ==
  /\ stored = TakeLatest(history, MaxHits)
  /\ \A q \in Queries : Walked(stored, q) = ApplyQuery(stored, q)
  /\ \A h \in ToSet(stored) : GetIncident(stored, h.id) = <<h>>
  /\ \A ip \in Ips : scores[ip] = SumOf(HitsOf(ip), LAMBDA h : h.score)

CountersTell ==
  /\ counters.total = Len(history) /\ counters.byDetector = TallyOf(history, FiredBy)
  /\ counters.byResponse = TallyOf(history, LAMBDA h : {h.answer})
  /\ BagCardinality(counters.byResponse) = Snapshot(counters.scores)[Len(ScoreBuckets) + 1]
  /\ \A i \in DOMAIN ScoreBuckets :
       Snapshot(counters.scores)[i] = Len(SelectSeq(history, LAMBDA h : h.total =< ScoreBuckets[i]))
  /\ TopScore(counters) =< Max({0} \cup {h.total : h \in ToSet(history)})
  /\ [name |-> "incidents_total", value |-> Len(history)] \in ParseMetrics(Exposition(counters, exempted))
  /\ Len(history) =< MaxHits /\ MaxTracked >= Cardinality(IpsOf(history)) =>
       {s \in StoreExposition(stored) : s.name # "top_offender_score"} \subseteq Exposition(counters, exempted)
  /\ BagCardinality(exempted) = Len(SelectSeq(traffic, LAMBDA t : t.outcome = "exempt"))

\* A block needs proof where people are served, and whoever is refused was blocked for it.
JudgementsHold ==
  /\ \A t \in ToSet(traffic) : t.ip = t.origin
  /\ \A h \in ToSet(history) : /\ h.certain <=> h.confidence > SuspicionCeiling
                               /\ h.answer = "block" /\ Middleware => h.certain
  /\ \A t \in ToSet(traffic) : t.outcome = "refused" => "block" \in {h.answer : h \in ToSet(HitsOf(t.ip))}

RedactionHolds ==
  \A h \in ToSet(history) :
    LET copy    == RedactIncident(h)
        secrets == {h.fields[n] : n \in DOMAIN h.fields \cap SecretNames}
    IN  /\ secrets \cap (Range(copy.fields) \cup copy.quoted) = {}
        /\ \A n \in DOMAIN h.fields \ SecretNames : copy.fields[n] = h.fields[n]
        /\ h.quoted \ secrets \subseteq copy.quoted

\* Once it has heard all, the page shows the latest: what came late may tie at the cap.
PageTells ==
  /\ \A i, j \in DOMAIN page : i < j => page[i].at =< page[j].at /\ page[i].id # page[j].id
  /\ feed = <<>> /\ Len(history) =< PageCap => ToSet(page) = ToSet(history)
  /\ feed = <<>> /\ (\A i \in 2 .. Len(history) : history[i - 1].at < history[i].at) => page = TakeLatest(history, PageCap)

AnalysisAddsUp(list, a) ==
  LET n     == Len(list)
      rows  == a.buckets
      total(seq) == SumOf(seq, LAMBDA v : v)
      bag(b) == BagCardinality(b)
  IN  /\ a.n = n /\ SumOf(rows, LAMBDA r : r.n) = n
      /\ Last(rows).cumIps = Cardinality(IpsOf(list)) /\ \A i \in 2 .. Len(rows) : rows[i - 1].cumIps =< rows[i].cumIps
      /\ Len(a.gaps) = n - Cardinality(IpsOf(list)) /\ \A i \in DOMAIN a.gaps : a.gaps[i] >= 0
      /\ \A i \in 1 .. 3 : Funnel(a)[i + 1] =< Funnel(a)[i]
      /\ Funnel(a)[1] = Cardinality(IpsOf(list)) /\ Funnel(a)[4] = Cardinality({h.ip : h \in {g \in ToSet(list) : g.answer = "block"}})
      /\ SumOf(ResponseClassEntries(a.byResponse), LAMBDA e : e.n) = n /\ total(Bins(a.scores)) = n
      /\ \A e \in ToSet(ResponseClassEntries(a.byResponse)) :
           Len(SelectSeq(list, LAMBDA h : MatchesFilter(h, [detector |-> Anything, ip |-> Anything, outcome |-> e.class]))) = e.n
      /\ total(Slots(a, list, Columns)) = n
      /\ a.scores # <<>> => Percentile(a.scores, 10) =< Percentile(a.scores, 50) /\ Percentile(a.scores, 50) =< Percentile(a.scores, 90)
      /\ a.gaps # <<>> => total(Cadence(a.gaps).counts) = Len(a.gaps)
      /\ \A d, e \in Detectors : Cooccurrence(a, d, e) =< Cooccurrence(a, d, d)
      /\ PeakPerMinute(a) * a.size =< 600 * n
      /\ bag(a.byProto) = n /\ Len(ScopeIncidents(list, 0, "ssh")) + Len(ScopeIncidents(list, 0, "http")) = n
      /\ Last(Chronological(list)) \in ToSet(ScopeIncidents(list, 1, Anything))

\* The API's summaries and the page's statistics, of the same hits.
SummariesAgree(list, a, stats, sessions) ==
  /\ stats.byDetector = a.byDetector /\ stats.byResponse = a.byResponse /\ stats.uniqueIps = Cardinality(DOMAIN a.ips)
  /\ ComputeIoc(list, 0) = [ip \in DOMAIN a.ips |-> a.ips[ip].digest] /\ DOMAIN ComputeIoc(list, stats.top + 1) = {}
  /\ DOMAIN sessions = DOMAIN a.ips
  /\ \A ip \in DOMAIN sessions : /\ sessions[ip].digest = a.ips[ip].digest /\ a.ips[ip].digest.score =< stats.top
                                 /\ ToSet(sessions[ip].timeline) = ToSet(From(list, ip))
                                 /\ Max({Rung(q) : q \in StrongestResponse(sessions[ip].digest.responses)}) = a.ips[ip].rung
  /\ a.actors = ComputeActors(list) /\ \A p \in DOMAIN a.actors : a.actors[p].ips \subseteq IpsOf(list)

Block(match) == [id |-> "draft", respondWith |-> "block", match |-> match]
PreviewTells ==
  LET captures == {h.id : h \in {g \in ToSet(history) : g.answer \in Captures}}
      unproven == {h.id : h \in {g \in ToSet(history) : g.answer = "block" /\ ~g.certain}}
      changed(p) == {c.id : c \in ToSet(p.changed)}
      asIs     == PreviewPolicy(history, ParseRules(<<>>)[1], Middleware)
      shown    == PreviewPolicy(history, ParseRules(<<>>)[1], TRUE)
      severe   == PreviewPolicy(history, ParseRules(<<Block({})>>)[1], TRUE)
  IN  /\ changed(asIs) = captures /\ changed(shown) = captures \cup unproven
      /\ \A h \in ToSet(history) : h.id \notin changed(severe) => h.certain \/ h.answer = "tarpit"
      /\ \A c \in ToSet(severe.changed) : c.now = "block" => \E h \in ToSet(history) : h.id = c.id /\ h.certain
      /\ ParseRules(<<Block({}), Block({})>>) = <<>>

ReplayTells ==
  LET s == ReplayLog(AccessLog)
  IN  /\ s.lines = s.parsed + s.skipped /\ s.skipped = 1 /\ s.parsed = Len(AccessLog) - 2
      /\ BagCardinality(s.byResponse) = Len(s.hits) /\ "block" \in BagToSet(s.byResponse) => \E h \in ToSet(s.hits) : h.certain
      /\ \A ip \in Ips : Middleware /\ Calm(ip) /\ Loggable(ip) => From(s.hits, ip) = HitsOf(ip)
      /\ \A ip \in TopSources(s) : s.sources[ip].best = SumOf(From(s.hits, ip), LAMBDA h : h.score)
      /\ s.byDetector = TallyOf(s.hits, FiredBy) /\ s.downgraded = Len(SelectSeq(s.hits, LAMBDA h : h.refused))

\* A first hit is explained as it was judged, whichever way its request is pasted, except that
\* curl is never without an agent; and an agent alone is never blamed for what was not pasted.
ExplainTells ==
  LET told(form, r) == ExplainRequest(ParseRequest(Pasted(form, r)))
      verdict(hits) == IF hits = <<>> THEN <<>> ELSE <<hits[1].found, hits[1].shadow, hits[1].answer, hits[1].confidence>>
  IN  /\ \A h \in ToSet(history) : h.total = h.score /\ h.print # NoPrint =>
           LET r == Kinds[traffic[h.id].kind]
           IN  \A form \in {"request"} \cup (IF r.agent = "" THEN {} ELSE {"curl"}) : verdict(told(form, r)) = verdict(<<h>>)
      /\ \A k \in {j \in DOMAIN Kinds : Kinds[j].agent # ""} :
           /\ \A hit \in ToSet(told("agent", Kinds[k])) : DOMAIN hit.found = {"scanner-signature"} /\ hit.shadow = {}
           /\ \A hit \in ToSet(told("block", Kinds[k])) : "decoy-path" \notin DOMAIN hit.found

BodyOnly(ip) == \E r \in Calls(ip) : HasBody(r) /\ Findings(r, Headers) = {}
SameStory(own, cases) ==
  /\ own.total = own.passed + own.failed /\ Cardinality(cases) = own.total + Cardinality(own.skipped)
  /\ \A r \in own.results : Calm(r.id) => Bare(r.hits) = Bare(HitsOf(r.id)) /\ (r.failed <=> r.falsePositive)
SwitchTells(served, alone) ==
  LET itself   == CompareToBaseline(BaselineOf(served), BaselineOf(served))
      switched == CompareToBaseline(BaselineOf(served), BaselineOf(alone))
      ids(set) == {r.id : r \in set}
  IN  /\ itself.regressions \cup itself.improvements \cup itself.missing \cup itself.added = {}
      /\ \A ip \in switched.regressions : BodyOnly(ip) \/ ip \in ids({r \in served.results : ~r.failed})
      /\ ids({r \in served.results : IsServed(r)}) \cap ids({r \in alone.results : ~IsServed(r)}) \subseteq {ip \in Ips : BodyOnly(ip)}
WireTells(cases) ==
  Len(history) =< MaxHits =>
    \A c \in cases : ~WireSkips(c) => WireVerdict([c EXCEPT !.audience = "hostile"], FiredFrom(stored, {c.id}))
CorpusTells ==
  /\ SameStory(RunCorpus(Cases, {}, Middleware), Cases) /\ WireTells(Cases)
  /\ SwitchTells(RunCorpus(Cases, {}, TRUE), RunCorpus(Cases, {}, FALSE))

AddressesStayApart ==
  \A i \in {0, 1, 255, 256, 257}, j \in {0, 1, 255, 256, 257} : \A from \in {0, 1, 253} : AddressFor(i, from) = AddressFor(j, from) => i = j

\* The edge sends on what a detector would catch in the path or the agent, and nothing else.
EdgeDiverts ==
  \A k \in DOMAIN Kinds : LET caught == {f.id : f \in AllFindings(Kinds[k], LogLine)}
                          IN  ~Kinds[k].token /\ Kinds[k].path.rest # "/" => (Diverted(Kinds[k]) <=> caught # {})

\* The long reports are read when all is recorded and heard: nothing before that changes what they read.
Settled == pending = {} /\ feed = <<>>

\* Everything told of the traffic agrees with what happened to it, whatever order
\* requests are judged in, hits recorded and incidents heard (core.ts evaluate()
\* and its readers in rest.ts, metrics.ts, analysis.ts, preview.ts, replay.ts,
\* explain.ts, runner.ts, compare.ts, redact.ts and generate-nginx.ts).
OneStory ==
  /\ StoreTells /\ CountersTell /\ JudgementsHold /\ RedactionHolds /\ PageTells /\ EdgeDiverts /\ AddressesStayApart
  /\ Settled /\ history # <<>> => AnalysisAddsUp(history, Analyze(history)) /\ PreviewTells
  /\ Settled /\ stored # <<>> => SummariesAgree(stored, Analyze(stored), ComputeStats(stored), ComputeSessions(stored))
  /\ Settled => ReplayTells /\ CorpusTells /\ ExplainTells

Symmetry == Permutations(Ips)
=============================================================================
