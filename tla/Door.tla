-------------------------------- MODULE Door --------------------------------
(***************************************************************************)
(* Who is let in, as values: what a dashboard is started with and to whom it *)
(* then answers what (dashboard/server.ts), and the two counts of failed     *)
(* attempts, the dashboard's and the management API's (management/server.ts). *)
(*                                                                         *)
(* A path is the sequence of its segments. What an answer says is a set of    *)
(* the facts it can carry.                                                  *)
(***************************************************************************)
EXTENDS TtlLru, FiniteSets, SequencesExt

CONSTANTS
  MaxAttempts, Lockout, MaxLockout, MaxThrottled,  \* authThrottle, MAX_THROTTLED
  AuthWindow, AuthFailures, MaxGuessers            \* AUTH_WINDOW_MS, AUTH_MAX_FAILURES, 10 000

ASSUME DoorAssumption ==
  /\ {MaxAttempts, Lockout, MaxThrottled, AuthWindow, AuthFailures, MaxGuessers} \subseteq Nat \ {0}
  /\ MaxLockout \in Nat /\ MaxLockout >= Lockout

-----------------------------------------------------------------------------
(* createAuthThrottle(). The lifetime of a record is its forgetting rule.     *)

NoRecord == [failures |-> 0, until |-> 0]

\* (Mutant.) The lockout does not grow.
PenaltyFlat(failures) == Lockout

\* The lockout, doubled as often.
Doubled(times) ==
  LET grown[n \in 0..times] == IF n = 0 THEN Lockout ELSE 2 * grown[n - 1] IN grown[times]

Penalty(failures) ==
  LET grown == Doubled(failures - MaxAttempts) IN IF grown < MaxLockout THEN grown ELSE MaxLockout

\* check().
LockedUntil(table, peer, at) == Peek(table, peer, NoRecord, at).until
Locked(table, peer, at)      == LockedUntil(table, peer, at) > at

\* failed().
Struck(table, peer, at) ==
  LET was == Peek(table, peer, NoRecord, at)
      n   == was.failures + 1
      is  == [failures |-> n, until |-> IF n >= MaxAttempts THEN at + Penalty(n) ELSE was.until]
  IN  Put(Used(table, peer, at), peer, is, 2 * MaxLockout, MaxThrottled, at)

\* succeeded().
Forgiven(table, peer) == Without(table, peer)

-----------------------------------------------------------------------------
(* The management API: the times at which an address has failed.             *)

RecentAuthFailures(times, at) == Keeping(times, {i \in DOMAIN times : at - times[i] < AuthWindow})

TooManyAuthFailures(times, at) == Len(RecentAuthFailures(times, at)) >= AuthFailures

\* recordAuthFailure(), with the sweep that bounds the map.
RecordAuthFailure(guesses, peer, at) ==
  LET noted == [guesses EXCEPT ![peer] = Append(RecentAuthFailures(@, at), at)]
      known == {p \in DOMAIN noted : noted[p] # <<>>}
      aged  == {p \in known : at - Last(noted[p]) >= AuthWindow}
  IN  IF Cardinality(known) <= MaxGuessers THEN noted
      ELSE [p \in DOMAIN noted |-> IF p \in aged THEN <<>> ELSE noted[p]]

-----------------------------------------------------------------------------
(* What a dashboard is started with. `bind` is "loopback", "public", or       *)
(* "mounted" on a server of the caller's.                                     *)

Refusals == {"unauthorized", "not-found", "close", "redirect", "redirect-nowhere"}
\* validateAuth().
Authenticates(auth) == IF auth = "unset" THEN "open" ELSE auth

ValidAuth(auth, bind) ==
  /\ auth = "unset" => bind = "loopback"
  /\ auth \notin {"no-password", "short-token", "not-a-function"}

\* validateRefusal(): a browser prompts for a password only when a 401 asks for it.
ValidRefusal(refusal, auth) ==
  refusal # "redirect-nowhere" /\ ~(refusal \in {"not-found", "close"} /\ auth = "basic")

\* resolveControls().
Grantable(controls, auth) == "editPolicy" \in controls => auth # "open"

\* buildDashboard(), up to where it may throw.
Starts(o) ==
  /\ ValidAuth(o.auth, o.bind)
  /\ LET auth == Authenticates(o.auth)
     IN  ValidRefusal(o.refusal, auth) /\ Grantable(o.controls, auth)
  /\ "garbled" \notin o.clients

\* resolveAllowedHosts() and resolveMountedHosts(): the names it answers to, or any.
AnyHost  == {"*"}
Loopback == {"localhost", "127.0.0.1", "[::1]", "::1"}
AllowedHosts(bind, extra) ==
  IF "*" \in extra THEN AnyHost
  ELSE IF bind = "loopback" THEN Loopback \cup extra
  ELSE IF extra = {} THEN AnyHost ELSE extra

-----------------------------------------------------------------------------
(* route(): what is asked before anybody is let in, in this order.            *)

Unsafe == {"POST", "PUT", "PATCH", "DELETE"}

\* isSameOrigin(): Sec-Fetch-Site when there is one, Origin otherwise.
SameOrigin(r) ==
  IF r.site # "none-sent" THEN r.site \in {"same-origin", "none"}
  ELSE r.origin = "none-sent" \/ r.origin = r.host

\* The first objection; "" is none.
Objection(o, r, locked) ==
  LET hosts == AllowedHosts(o.bind, o.hosts)
  IN  IF o.clients # {} /\ r.peer \notin o.clients THEN "client"
      ELSE IF locked THEN "locked"
      ELSE IF hosts # AnyHost /\ r.host \notin hosts THEN "host"
      ELSE IF r.method \in Unsafe /\ ~SameOrigin(r) THEN "cross-site"
      ELSE ""

\* refuse(): under concealment every refusal has the same answer.
Refuse(o, objection) ==
  CASE o.refusal = "unauthorized" -> [client |-> 403, locked |-> 429, host |-> 421,
                                      origin |-> 403, viewer |-> 401][IF objection = "cross-site" THEN "origin" ELSE objection]
    [] o.refusal = "close"        -> 0
    [] o.refusal = "not-found"    -> 404
    [] o.refusal = "redirect"     -> 302

\* routeOf(): the path within the mount. Nowhere is no such path.
Nowhere == <<"nowhere">>
RouteOf(path, base, mounted) ==
  IF IsPrefix(base, path) THEN SubSeq(path, Len(base) + 1, Len(path))
  ELSE IF mounted THEN path ELSE Nowhere

-----------------------------------------------------------------------------
(* route(), once somebody is let in. The section an endpoint belongs to, or    *)
(* those of which one is enough, and the facts it would tell.                 *)

OneOf ==
  [filters |-> {"incidents"}, events |-> {"incidents", "overview"}, counts |-> {"incidents", "overview", "statistics"},
   notices |-> {"overview"}, incidents |-> {"incidents", "overview", "statistics"}, incident |-> {"incidents"},
   stats |-> {"overview", "statistics"}, sessions |-> {"sessions"}, actors |-> {"actors"},
   ioc |-> {"intel"}, metrics |-> {"intel"}]

Open == {"page", "bootstrap"}

\* The control an endpoint needs.
Power == [test |-> "testRequest", preview |-> "previewPolicy", apply |-> "editPolicy"]

\* shape(): what is told of an incident.
Shape(o) ==
  {"requests"} \cup (IF "incidents" \notin o.sections THEN {}
                     ELSE {"captured"} \cup IF o.credentials THEN {} ELSE {"credentials"})
               \cup (IF o.mask THEN {} ELSE {"addresses"})

Masked(o, facts) == IF o.mask THEN facts ELSE facts \cup {"addresses"}

Tells(o, endpoint) ==
  CASE endpoint \in {"events", "incidents", "incident"} -> Shape(o)
    [] endpoint = "preview"  -> Shape(o) \ {"captured", "credentials"}
    [] endpoint = "stats"    -> Masked(o, {"totals"})
    [] endpoint = "sessions" -> Masked(o, {"sessions"})
    [] endpoint = "actors"   -> Masked(o, {"actors"})
    [] endpoint = "ioc"      -> Masked(o, {"indicators"})
    [] endpoint = "metrics"  -> {"indicators"}
    [] endpoint = "counts"   -> {"totals"}
    [] endpoint = "notices"  -> {"notices"}
    [] endpoint = "filters"  -> {"filters"}
    [] endpoint = "test"     -> {"trial"}
    [] OTHER                 -> {}

Says(status, facts) == [status |-> status, says |-> facts, applies |-> FALSE]
Declines(status)    == Says(status, {})

Endpoint(path) == IF path = <<>> THEN "page" ELSE Head(path)

\* /api/filters.
AnswerFilters(o, r) ==
  IF "incidents" \notin o.sections THEN Declines(404)
  ELSE IF r.method \notin {"GET", "HEAD", "POST"} THEN Declines(405)
  ELSE IF r.method = "POST" /\ r.payload # "good" THEN Declines(400)
  ELSE Says(200, Tells(o, "filters"))

\* /api/test, /api/policy/preview, /api/policy/apply.
AnswerControl(o, r, endpoint) ==
  IF r.payload = "garbled" THEN Declines(400)
  ELSE IF Power[endpoint] \notin o.controls THEN Declines(404)
  ELSE IF endpoint = "test" /\ ~o.engine THEN Declines(404)
  ELSE IF r.payload # "good" THEN Declines(400)
  ELSE IF endpoint = "apply" THEN IF o.engine THEN [Says(200, {}) EXCEPT !.applies = TRUE] ELSE Declines(404)
  ELSE IF endpoint = "preview" /\ ~r.reached THEN Declines(500)
  ELSE Says(200, Tells(o, endpoint))

\* A source that cannot answer is a 502; these do not wait for it.
Immediate == {"events", "counts", "notices"}
AnswerRead(o, r, endpoint) ==
  IF endpoint \notin DOMAIN OneOf THEN Declines(404)
  ELSE IF OneOf[endpoint] \cap o.sections = {} THEN Declines(404)
  ELSE IF endpoint = "notices" /\ ~o.engine THEN Declines(404)
  ELSE IF endpoint \notin Immediate /\ ~r.reached THEN Declines(502)
  ELSE IF endpoint \notin Immediate /\ ~r.found THEN Declines(404)
  ELSE Says(200, Tells(o, endpoint))

Answer(o, r) ==
  LET path     == RouteOf(r.path, o.base, o.bind = "mounted")
      endpoint == Endpoint(path)
  IN  IF path = Nowhere THEN Declines(404)
      ELSE IF endpoint = "filters" THEN AnswerFilters(o, r)
      ELSE IF r.method = "POST" /\ endpoint \in DOMAIN Power THEN AnswerControl(o, r, endpoint)
      ELSE IF r.method \notin {"GET", "HEAD"} THEN Declines(405)
      ELSE IF endpoint \in Open THEN Says(200, {})
      ELSE AnswerRead(o, r, endpoint)

\* The whole of route(), for a request that would be let in or not.
Routed(o, r, locked, viewer) ==
  LET objection == Objection(o, r, locked)
  IN  IF objection # "" THEN Declines(Refuse(o, objection))
      ELSE IF ~viewer THEN Declines(Refuse(o, "viewer"))
      ELSE Answer(o, r)
=============================================================================
