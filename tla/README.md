# Hackerpot, specified

TLA+ models of Hackerpot (the TypeScript sources under `src/src/`), the TLC
configurations that check them on small instances, and proofs for every value of
the constants. Paths below are relative to `src/src/` unless they start with
`docs/`.

1. [The system](#1-the-system) — components, state, interactions, what is hard
2. [The modules](#2-the-modules) — which module models which code, and how
3. [The runs](#3-the-runs) — what each one asks, its bounds, what it shows
4. [Fairness](#4-fairness)
5. [Disagreements found](#5-disagreements-found)
6. [The proofs](#6-the-proofs)
7. [Only model-checked, not modelled](#7-only-model-checked-not-modelled)
8. [The plan](#8-the-plan)

## 1. The system

Hackerpot sits in front of a web application (or alone on a port), recognises
hostile requests, answers those itself and passes the rest on. It is one Node
process: code between two `await`s is atomic, and everything interleaves there.

| Component | State | Operations | Correct when |
|---|---|---|---|
| Evaluation engine (`core.ts`) | detectors, shadow set, actions, policy, allowlist, counters; all replaceable while a pass is suspended | `evaluate`, `reconfigure` | each request is counted, recorded and announced once, whatever is replaced meanwhile; a block rests on proof |
| Response policy (`policy/rules.ts`) | none | rules, ladder, combined score | first match wins, one family counts once |
| Node middleware and form guard (`adapters/node.ts`) | per request: stage, result of its pass | two passes over a request with a body, `next()`, dispatch | the application gets a request at most once and never one that was answered; every request settles |
| Standalone server (`adapters/server.ts`) | the same, one pass | `handle` | every request is answered; charges are neither lost nor doubled |
| Other adapters (`adapters/fetch.ts`, `koa.ts`, `fastify.ts`) | a shim response raced with the middleware's promise | `evaluate`, the hooks | the caller gets one response while it is there |
| Actions (`actions/`) | slots of held responses | `execute` | slots come back; a block reaches the blocklist |
| Activity registries (`state.ts`, `site/index.ts`) | per-address windows, clients, paths, in bounded, expiring tables | `for`, `record`, the detectors that read them | a verdict is true of the requests that were made |
| Blocklists, enforcers (`blocklist.ts`, `firewall.ts`) | address to expiry | `block`, `isBlocked`, mirror | a block is never shortened, a full list sheds the least |
| Identity (`internal/dns.ts`, `detectors/crawler-verification.ts`, `crawler-ranges.ts`, `labels.ts`) | cached answers, shared queries, installed ranges, resolved names | lookup, refresh, inspect, label | nobody is denied because a lookup failed |
| Traffic audit and counts (`audit.ts`, `dashboard/counts.ts`) | ring of buckets, cooldowns, campaigns, minutes | `record`, `evaluate`, `snapshot` | a window counts what fell in it |
| File store (`stores/file.ts`, `archive.ts`, `scores.ts`) | write queue, live segment, archives, checkpoint, ledger | `record`, drain, rotate, replay | scores are those of the lines on disk, across crashes; every caller is answered |
| Other stores (`stores/`) | a client of a service, or memory | `record`, `scoreFor`, `list`, `query` | the store contract |
| Notification (`notify/`, `management/webhooks.ts`) | dedupe tables, windows, slots, suppressed counts, a socket and its timer | `publish`, `dispatch`, `send`, `close`, socket events | repeats collapse, caps hold, nothing is held back in silence, always a way back |
| Protocol honeypots (`protocols/`) | slots; per session: login state, attempts, transcript, mail | listen, score gate, the dialogue's lines, timers, `close`, `report` | slots come back, evidence is reported once and not mixed |
| Service (`service.ts`, `cli.ts`, `config/reload.ts`, `intel/ingest.ts`) | everything above, wired; the running configuration; pollers | start, SIGHUP, poll, shutdown | a reload applies what it reports; a feed spares who is exempt; a signal ends it |
| Configuration (`config/`) | none | read, override, build | what is accepted can be built |
| Management, dashboard (`management/`, `dashboard/`) | viewers, lag counters, attempts, saved filters; a page with its lists | REST, live feed, sign-in, reload, search | a viewer knows what it missed; a door that is locked is locked |
| Reports (`management/rest.ts`, `metrics.ts`, `dashboard/preview.ts`, `client/analysis.ts`, `replay.ts`, `explain.ts`, `corpus/`, `scripts/`) | counters | summaries, statistics, preview, replay, corpus | they tell the same story of the same traffic |

How they interact: a request enters an adapter, which asks the blocklist, runs
`evaluate()` once or twice (the second time with the body) and dispatches the
action the engine looked up. `evaluate()` writes the address's tracker, runs the
detectors (which read the registries, DNS and the ranges), reads the score of the
address from the store, asks the policy, records the hit, and announces it; the
service's `onHit` publishes it to the hub, which fans out synchronously to
webhooks and syslog, and to the viewers. What came of the request is told to the
trackers, the site profile, the audit and the counts when it settles. SIGHUP
calls `reconfigure()` between any two of these steps.

What is hard here, and what the properties are for (`hazards` in `PROJECT.json`
lists each at its line): configuration replaced between the awaits of a pass; one
request evaluated up to four times that must count once; concurrent requests of
one address around a read-then-record; failures at any await, before or after a
response began; entries of bounded tables that are dropped while somebody holds
them; what is told late, with the time it happened; two queues kept aligned by
counting only; a crash between rename and checkpoint; socket events and DNS
answers that arrive after what asked for them was replaced; caps in three layers
with windows that roll at different moments; buffers that drop and must say how
much; reloads that answer with the past; closes that fail.

## 2. The modules

| Module | Models | Notes |
|---|---|---|
| `ResponsePolicy` | `policy/rules.ts`, `combinedScore` of `core.ts` | pure operators; a rule's bounds on method, path and address select contexts like its bounds on the score and are left out |
| `Evaluation` | `core.ts` `evaluate`, `reconfigure`; `dispatch` of `adapters/node.ts`; the actions as seen by it | one action per stretch between two awaits; extended by the front ends |
| `Middleware` | `adapters/node.ts` | `createMiddleware` and `trapFormGuard` |
| `FrontDoor` | — | what the middleware promises the application, abstractly |
| `Standalone` | `adapters/server.ts` | one pass, body first, no proof guard |
| `ScoreLedger`, `FileStore` | `stores/scores.ts`; `stores/file.ts`, `archive.ts` | a ledger is a sequence, least recently updated first; a line is the hit it carries, a byte is a line |
| `Clock`, `TtlLru` | `internal/clock.ts`; `internal/lru.ts` | one clock for every window; a table is a sequence, least recently used first |
| `Windows`, `Timelines`, `Blocking`, `Names` | `state.ts`, `site/index.ts` and the six detectors that look back; `audit.ts` and `counts.ts`; `blocklist.ts` and `firewall.ts`; DNS, crawlers, ranges and labels | pure: a table and an operation to a table |
| `Tables` | how the engine, the sentinel, the audit and the feed use them | requests, connections, settlements, blocks, claims and hits, each over time |
| `NotificationHub`, `WebhookDispatcher`, `SyslogSink`, `Notify` | `notify/hub.ts`; `management/webhooks.ts`; the TCP transport of `notify/syslog.ts`; the three as `service.ts` wires them | one `publish()` is one step |
| `Slots` | — | what a cap on connections promises, abstractly |
| `Dialogue` | the dialogues of `protocols/*/honeypot.ts` | pure: a session and a line to a session, what is reported and what is asked of the socket |
| `Sessions` | the rest of `protocols/*/honeypot.ts` | slots, gate, data events, timers, `close()`, reports |
| `ConfigSchema`, `Configuration`, `Build` | `config/schema.ts` and `reader.ts`; `load.ts` and `env.ts`; `build.ts` and `reload.ts` | pure: a file and an environment to a configuration or a refusal, and to what is built of it |
| `IntelFeed` | `intel/ingest.ts` | a fetch with its redirects as a value |
| `Service` | `cli.ts`, `service.ts` | the process from its command line to its exit code |
| `Connections`, `Door`, `Page` | held responses, adapters and viewers; `dashboard/server.ts` and the counts of failed attempts; `dashboard/client/` and the saved filters | pure |
| `Console` | those over time | held responses, the remote source, a feed with its page, two doors, filters |
| `Analytics` | `stores/memory.ts`, `query.ts`, `management/rest.ts`, `metrics.ts`, `dashboard/client/analysis.ts`, `query.ts` | pure: a list of hits to what is said of it |
| `Reports` | front ends of `core.ts`, redaction, preview, replay, explanation, corpus, wire replay, nginx edge | one history, told many ways |
| `MC*` | — | small instances |
| `FrontEndProofs`, `FileStoreProofs`, `NotifyProofs`, `ServiceProofs`, `SessionsProofs`, `ConsoleProofs`, `TablesProofs` | — | theorems: of `Middleware` and `Standalone`, and of the modules of the other names |
| `DataTheorems` | — | lemmas they share: induction over sets and sequences, folds and filters, the bounded table |

**Evaluation and its front ends.** A request is suspended at a *stage*, named for
what it awaits; `pass[r]` holds the locals of the `evaluate()` call in progress,
read before the await and used after it, exactly those the code holds. The live
configuration (`config`) is read when the code reads it: the exemption at the
start, `shadowed` per detector, the policy in `Decide`, the action map in
`Announce`, after the store was awaited. A detector stands for the one finding it
may report; a windowed one may fire in one pass and not in the other. `tally`
counts each once-per-request effect. A call that may fail does so when it is in
`Faults`.

**Tables.** Six parts that share only the clock: a behaviour follows one. A
request keeps the tracker it was handed, whatever becomes of the table (`heap`
holds every tracker made, `registry` the ones still found); it is inspected
later, with the arrival's time, and finished later again. The audit and the
counts are told when a request settles, at most `Patience` after it began. A
claim waits for a query; the resolver's `queries` keep what each was asked and
told, so that a verdict can be compared with everything DNS has said. A host name
is the sequence of its labels and a User-Agent that of its words, which is what
"on label boundaries" and "introduced by *like*" need. The verdicts themselves
are checked against ghosts (`visits`, `touches`, `settled`, `asks`, `lookups`)
that never forget.

**FileStore.** Each `await` of `drain()` and `rotate()` is a phase; appends, close
and crash come at any of them. `settled` is what became of each `record()`
promise. `written` is a ghost (every line ever written) and `intact` a ghost that
turns false at the first of the *lapses*, moments after which the code itself no
longer claims the ledger is that of the disk: the buffer overflowed while a batch
was in flight, a batch failed to be written, the checkpoint of a roll was not
saved (a failure, or a crash right there), or a line cut short by a crash
swallowed the next one. The properties hold until a lapse.

**Notify.** `history` is a ghost of what became of each event given to the hub;
`toldHub` and `toldOf` count what was reported as held back. In `SyslogSink` a
destroyed socket is `doomed` until its `close` event, which tears down whatever
socket is held by then, as the listener does. The event loop runs the close
callbacks of a turn before a timer of a later turn, so the reconnect timer does
not fire while a socket is doomed. Delays are abstracted: a reconnect or retry
timer may fire at any time after it was set, a summary timer when its time has
come. The hub's filter is the set `Wanted`. A hook with `maxRetries` 0, which the
schema allows, makes no attempt at all and holds no slot.

**Sessions.** The four honeypots are the same listener around different
dialogues, so `setting` chooses one at the start. A data event carries a few lines
and is one step, as the handler runs it. The ghost `did` counts what every line
sent submits, whether or not the handler reads it: `Meant` is the dialogue gone
through to the last line. What a handler leaves behind the line at which it hung
up waits in `buffer` (FTP) or is added to the ghost `lost`. `socket` is the
connection as the code leaves it, `gone` the set whose close event was emitted;
while the gate waits the socket may come to any end, and listeners are attached
after it regardless. A socket that was ended still delivers data, and the next
write to it destroys it. ssh2's `end()` says goodbye and waits for the peer, hence
`Dropped`. A line is one of the kinds a handler tells apart; every report scores 1
and scores do not expire. The connections that are not allowlisted share one
address, since only the score gate relates them. In the SMTP dialogue what was said
is the number of the exchange it was said in, so that a report shows whether its
parts belong together.

**Configuration.** A table of a file maps keys to raw values (what TOML says the
type is, and the value); a field is an accessor, a default and what an
enumeration admits. A reader throws at the first key it cannot accept; here a
table is read in full and the keys it would throw at are a set. A ConfigError is
`Refused`; what the builders throw at is modelled apart, because a file the
schema accepted is expected to build (`ServiceSurvivesReload`). Arrays of
strings are sets; messages are left out.

**Service.** A configuration is named by the file it was read from: `booted` is
what the listeners run with, `engine` what the engine was last given, `running`
what the code calls the configuration in force. The start binds listener after
listener, a SIGHUP may come between two, every poller is a chain of ticks that
may be fetching when it is stopped, and shutdown is a list of closes that share
one `try`. `named` is a ghost: the sections an operator was told need a restart.

**Console.** Six parts that share only the clock. A stream is what was written and
not read, what was dropped and what was skipped; what is written stands for as many
incidents as its frames say (`Worth`). `heard` and `lost` are ghosts of what a
reader knows of and of what was never sent to it, `raced` of what happened while
a reload was under way, `unmatched` of what a search let out, `kept` of the
filters somebody saved. The page is the record of what `client/` holds: its
stream, its lists, its reloads with what each was answered.

**Reports.** Requests of nine kinds reach one of four front ends (bare, behind
two hops, behind listed proxies, behind the nginx edge), with forwarding headers
of their own; hits are judged at the time their last byte was read, recorded in
any order, and heard by a page later. `history` is the ghost every report is
compared with; `Analytics` holds what they compute. A hit keeps its points by
detector, not its text.

## 3. The runs

Every property of a passing run has a mutant: a plausible bug in a mapped
definition that makes the property fail under the run's own bounds.

| Run | Question | Bounds, and why they are enough |
|---|---|---|
| `Middleware_reload` | Is a request counted, committed and reported once, and blocked only on proof, while the configuration is reloaded? Does the middleware implement `FrontDoor`? | Two requests of one address (two are what an interleaving needs), five configurations that differ in one part each, three detectors whose scores cross the thresholds only together, one windowed, one proof, one needing the body. No faults. |
| `Middleware_live` | Does every request settle, whatever fails? | One request, all eight kinds of fault, a form behind the guard, five configurations. Faults do not spread between requests except through shared state that the previous run covers. |
| `Standalone_shared` | Are charges and blocks explained by records when requests overlap? | Two requests, one address, five configurations, three kinds of fault. |
| `Stores_faults` | Is the ledger that of the disk, across every failure, crash and one restart? | Four hits of three addresses with scores 1, 2, 4, 8 (any sum names its hits), a buffer and a segment of one line and a ledger of two, so overflow, roll and eviction all happen; one archive kept. |
| `Notify_flood` | Do the caps hold, is what is held back counted and reported, do slots, sockets and the connection recover? | Three events of two addresses or an anomaly by time 2, a window of 1, a ceiling of 2, tables of one entry (so forgetting happens), two hooks with different bounds, a global cap of 2, three sockets, two collector faults. A deployment has webhooks or syslog; the hub treats each sink by itself, so nothing is lost by not having both. Clock up to 4, which lets every timer set by time 2 fire. |
| `Sessions_slots` | Do slots come back, is evidence reported once and unmixed, and does the listener implement `Slots`, whatever clients, timers, the store and `close()` do? | One setting per behaviour, chosen at the start: each dialogue alone with 5 (FTP) to 7 lines in events of up to two (caps of 2 attempts, 2 commands and 6 lines: attempts and commands are exceeded, and lines in Telnet and SMTP; two SMTP messages, of RCPT, DATA and a dot each, fit in 6 lines; credentials are left behind a QUIT and a last refusal); three silent connections for two slots, with the gate and without; two connections of one address with a store that fails at every await. Connections share only the slots and the store, so three and two suffice. |
| `Service_reload` | Is what is in force what is said to be, do feeds spare the exempt, does a signal end it, from any of thirteen files? | `MaxEdits` 2 (a section can change and change back), `MaxChains` 2 chains of ticks alive at once, so a stopped poller overlaps its successor; two peers, one redirecting; one attacker. The files of `MCService` differ in one section each, so that every kind of change and refusal happens; the environments `clients` and `proxies` are each started with one file only. |
| `Console_watch` | Does a viewer know what it missed, do doors lock, are filters kept, do waits end? | `Horizon` 5; `Soon` 2, where all but the door ends, and `LagLimit` 0, so that a viewer can be ended for its lag by then. One slot, two responses asked for; two streams of one viewer, three incidents through a buffer of two; four attempts of two peers with a table of one; two browsers, two names. `MaxClicks`, `MaxWatches`, `MaxEdits` and `MaxBreaks` bound what people do and what breaks: in the feed one or the other, not both. |
| `Tables_history` | Is every verdict, count, block, claim and label true of the whole history? | Three requests, connections, settlements, blocks or hits, two claims (`MaxVisits`, `MaxAsks`, `MaxClaims`) of two addresses and one actor, over tables of one or two entries, so that eviction and expiry happen; `Span` 3 with a `Patience` of 1, so a verdict asked late differs from one in time; the ring of the audit comes round within `Horizon` 6, the other parts end at `Soon` 4, claims at `DnsTtl`. Ranges are refreshed every `Interval`, one list per behaviour; only answers for IPv4 addresses vary, since both families are treated alike; DNS may never answer. Time stands still once there is nothing left to follow. Addresses are symmetric. |
| `Reports` | Do all the reports agree with what happened? | Two clients, `MaxTraffic` 3 at `Instants` chosen so that the gap is below and above a bucket; thresholds of the ladder at 15 and 30, which two and three hits reach; a memory store of two, a page of two and a counter of one address, so each is exceeded; charts of two steps. Each front end is tried with the kinds of request that concern it (`KindsAt`). The longer reports are read when everything is recorded and heard. |
| `Find_PictureHole`, `Find_FlushSkipped` | Does the code do what its comment says? | The bounds of the run next to it (`Find_PictureHole` with the charts' list only). Each stops at a counterexample. |

What the properties say is in the comment above each; the ones that took thought:

- `ImplementsFrontDoor`: every step of the two-pass middleware, reloads
  included, is a step of the six-action `FrontDoor` or invisible to it.
- `BlockedOnlyOnProof`: no accumulation of guesses, no swapped policy and no
  fallback ever puts an address on the blocklist that nothing was proven about.
- `CountedOnce`: exempted, audited or refused, never two of them and never none.
- `ChargedOnce`: the read of the prior score is stale by design (the hit's total
  may be low); the ledger must not be.
- `RestartKeepsScores`: a crash at *this very* moment, then replay, rebuilds the
  ledger, its eviction order included.
- `RepeatsCollapse`: an alert repeats within a window only if the bounded table
  was made to forget it by as many others as it can hold.
- `HeldBackIsCounted`, `SummaryIsComing`, `AlertsSettle`: what is held back is
  counted once, a timer exists that reports it, and it fires.
- `AlwaysAWayBack`, `Reconnects`: late `close` events may kill a healthy
  connection, but never strand the sink, and never reopen a closed one.
- `EvidenceIsTold`: against every line the client sent, not against those the
  handler read or its own counters: pipelined lines, lines after `end()`, and
  lines after the caps included. What is not reported is exactly what stands
  behind a line at which the handler hung up, and only FTP (until more data
  comes) and Telnet (for good) leave any; section 5 lists it.
- `MailsStayApart`: one session object serves every mail and credential of a
  connection.
- `ImplementsSlots`: no path through the gate and the early returns loses a slot,
  which would show as a connection turned away while a slot is free.
- `ReloadIsHonest`: engine and poller are made of what the service calls running,
  and a listener that runs with other settings has been named.
- `FeedSparesAllowlisted`: an address that is exempt when a feed is *applied* is
  not blocked by it, whichever poller began the fetch.
- `NothingGoesMissingUntold`: the number of incidents since a viewer came is what
  it heard, what is on its way, and what it is owed a count of; and a page that is
  up to date lacks only what a reload raced with, what is hidden and what was
  searched out.
- `DoorsHold`: attempts that were let by before a lock are decided after it.
- `VerdictsFollowHistory`: what a detector says of an address against all the
  requests of that address, whichever tracker heard them. It may speak only of one
  that made enough, and must speak of one that did, with two slacks that are stated
  in terms of the history: a tracker is forgotten a window after the request it was
  made at, however steady the traffic, or when as many other addresses as there is
  room for came between two requests (`Births`); and an inspection out of turn asks
  with an old time (`Span` less twice `Patience`, for repeat actors). A scan is
  reported exactly when one run of connections touched enough ports, a run ending
  where the retention passed or as many others came between. A claim is denied only
  by an answer, never by a lookup that failed, however long it was shared or
  remembered. One lookup serves everybody who asks in time.
- `TimelinesFollowHistory`: window and baseline against a bag of everything
  settled, with the ring reused in between.
- `BlocksHold`: the in-process list against the longest block asked for, Redis
  against the last.
- `OneStory`: the exceptions it makes are real ones: a page may differ after a
  reload when a late, older incident or one of the same instant meets the cap; a
  `$`-anchored pattern does not match a trailing slash at the edge; a payload that
  is only in the body of an otherwise unflagged request is found standalone only.

Deadlock is not checked where the system really stops (a closed store, hub,
listener or process) or the bounds stop it (`Tables`, `Console`, `Reports`); in
the front-end runs it is, with an explicit `Quiet` step once every request is
done.

## 4. Fairness

- Front ends: weak fairness of each request's steps after it has arrived.
  Detectors run under a deadline (`core.ts` runs each through a timeout), and the
  stores, the body reader (`internal/http.ts` settles on end, error and abort),
  the actions and the host settle. Nothing is assumed of arrivals, reloads or
  expiry.
- `FileStore`: weak fairness of the drain's steps: Node settles every file
  operation. Nothing is assumed of recording, closing, crashing or restarting.
- `Notify`: time passes; a delivery attempt is answered or aborted by
  `AbortSignal.timeout`, and timers fire; sockets raise their events. Traffic,
  close, and what the collector does are free; the number of collector faults is
  bounded, which is what "once the collector stops failing" means in `Reconnects`.
- `Sessions`: a connection's lifetime timer fires and a destroyed socket emits
  `close`. Nothing is assumed of clients or of the store, whose answer the gate
  may await for ever.
- `Service`: a close that has begun ends, one way or the other (`CloseNext`).
  Startup, fetches, edits and signals may happen or not.
- `Console`: one condition per kind of work, over all the connections together,
  which assumes less than one each: an action is executed and its timer fires; a
  link opens, or its end is heard, and a retry fires; the page's requests are
  answered and applied. People, breaks, a client that reads or leaves are free.
- `Tables` and `Reports` state safety only.

## 5. Disagreements found

Two are runs that TLC must find violated, and rows of `findings`:

- `Find_PictureHole`: an incident the feed delivers after a reload was answered
  and before it is applied is taken out of the page again, and nothing says so
  (`dashboard/client/index.ts:200`; `client/stream.ts:19` says the page never
  quietly shows a picture with a hole in it).
- `Find_FlushSkipped`: when the management listener could not be bound, its
  `close()` rejects at SIGTERM, the rest of the shared `try` is skipped, and the
  process exits 0 with hits unwritten (`service.ts:507` against `build.ts:331`).

The others were met while modelling; the modules do what the code does, and the
properties make the exception where they touch it.

*Engine and front ends.*
A rule that passes a request *because of what its body holds* is applied after
the honeypot read the body (`adapters/node.ts:178`; `actions/pass.ts:12` says a
passed request is never body-read). `next()` called from the catch block may
throw out of the middleware (`adapters/node.ts:111` against `:87`) or the form
guard (`:320`); neither rejection is modelled. `createMiddleware` refuses an
`unprovenBlockFallback` of "block" (`:76`), `trapFormGuard` does not (`:266-270`):
what is checked and proved of blocks and proof is about a guard mounted with the
options of its middleware. A request the
middleware recorded and passed is recorded again by the form guard
(`adapters/node.ts:306` against `core.ts:42`), which also dispatches a committed
request whose second pass found nothing (`:306-312`). A shadowed finding may be
reported by both passes (`core.ts:594`, `node.ts:189`). The action that runs may
not be the one the hit names, when a reload drops it while the store is awaited
(`types.ts:41`); the total a hit carries may be less than the ledger's when
requests overlap (`types.ts:39`). `evaluate()` of `adapters/fetch.ts` never
resolves when the action returned without committing because the client had gone.

*Registries, blocks, DNS.*
`for()` reads through `getOrCreate`, so a tracker's lifetime is not refreshed by
use (`state.ts:167`): it is dropped with requests in it that are still within the
window, where the comment says it then "holds nothing any detector can read"
(`state.ts:148`). Nor is a path's refreshed (`site/index.ts:51`, `:59`). The site
profile's count of served paths is too high, since nothing calls its `prune()`. In
Redis a later, shorter block shortens an earlier one (`blocklist.ts:174` against `:11`).
Counts told late add buckets without applying the ceiling
(`dashboard/counts.ts:97` says it is applied wherever one is added). When a
query's sharing has been released, its late answer removes the newer query of the
key from the shared ones and overwrites a newer cached answer
(`internal/dns.ts:257`, `:264`); an answer's lifetime is counted from when its
query began.

*File store and notification.*
On overflow during a write, the store drops the score of a line that is being
written (`file.ts:77` against `:56-58`). The hub's report of what it suppressed is
an `error` event, which neither sink the service adds acts on (`hub.ts:228`
against `docs/operations/alert-sinks.md:83`). An incident the hub's ceiling
refuses still mutes its key for the window (`hub.ts:217` before `:220`), and one
the global webhook cap refuses still counts as sent for its hook
(`webhooks.ts:162`); with `dedupeWindowMs` 0 the hub's window never rolls and the
ceiling is one for life (`hub.ts:198`); `detach()` drops suppressed counts
(`webhooks.ts:129`). A message sent while a reconnect is pending dials at once,
so under traffic the backoff does not hold (`syslog.ts:268` against `:322-323`).
The Redis store's `limit=N` counts damaged records among the newest before it
drops them.

*Protocol honeypots.*
The score gate awaits a store read that nothing catches; a rejecting store ends
the process (`ssh/honeypot.ts:133` and its siblings against
`docs/design/decisions.md:224`). A `keyboard-interactive` attempt counts as an
attempt but returns before the cap is checked (`ssh/honeypot.ts:165-171`), and an
FTP `PASS` repeated after acceptance is never capped (`ftp/honeypot.ts:292`).
Credentials and commands pipelined behind the line at which the honeypot hangs up
are not reported: FTP returns with the rest in its buffer, where only a further
data event finds it (`ftp/honeypot.ts:298-299`, `:305-308`, `:326-330`), and
Telnet throws the rest of the segment away (`telnet/honeypot.ts:266`). A client
that sends `QUIT` and `PASS` in one segment is therefore reported as one that left
"without offering a credential" (`docs/protocols/ftp.md:23`); `EvidenceIsTold`
counts these lines apart. FTP and Telnet handle one more data event after their
`end()`, and SMTP goes on with the lines after `QUIT`; commands run over SSH after the transcript was emitted are
reported singly but are in no transcript (`ssh/honeypot.ts:269`); the SSH lifetime
timer and `close()` only ask the client to go (`:93`, `:128`); a connection that
closes while the gate waits is never reported as a scan (`ftp/honeypot.ts:343` is
attached too late).

*Service and configuration.*
After a reload `running` is the new file although restart-only sections were not
applied (`service.ts:568`). A SIGHUP during startup starts the new poller, and
startup's `poller?.start()` then starts a second chain of ticks; one after the
timers stage of shutdown starts a new poller. Syslog is started after the
listeners though the comment says before (`service.ts:602`). A bind failure leaves
a half-started process alive. Environment overrides are not checked for clashing
ports or addresses that do not parse (`config/env.ts:31`); `SCAN_PORTS` allows 0;
`DASHBOARD_ALLOWED_CLIENTS` is validated only when the dashboard starts, after
other listeners are bound. A preset's rules and `fallback_action` may name an
action that is disabled. Toggling `published_ranges` by a reload applies in part.
`webhooks`, `actors` and `markers` are in neither list of `config/reload.ts`, so a
change of theirs is ignored without a word. The feed's credential is compared with
the origin of the hop before, not the first.

*Dashboard and management.*
The remote source can hold two sockets for a while and lose one
(`dashboard/source.ts:146-149`), ignores the server's `lagged` frame, and misses
what happens while it reconnects. What was dropped or skipped is told only with a
later frame. "Neither can over-count" (`client/incidents.ts:800`) holds unless a
count was answered before the frame of an incident it already includes arrives.
The API answers newest first (`client/incidents.ts:139` says oldest). Incidents
heard while a search is typed stay missing when it is cleared
(`client/incidents.ts:814`). The server allows a saved query of 8192 characters,
the page one of 512 (`saved-filters.ts:28`, `query.ts:112`); the dashboard asks
for up to 5000 incidents, the API gives 1000. A save after a restart of a listener
without a file replaces the copy a browser kept (`client/saved.ts:21`).

*Reports.*
A policy preview against a source that is down answers 500, not 502
(`dashboard/server.ts:389` is outside the `try`); it counts protocol captures as
consulted (`preview.ts:46-52` against `:84-132`) and always uses the shipped ladder
and proof guard; an explanation is evaluated without that guard (`explain.ts:228`), so it
may name a block where a middleware would fall back. `by` of an applied policy is
always "dashboard". A `$`-anchored decoy misses a trailing slash at the edge and `method` is ignored
(`scripts/generate-nginx.ts:385`); hackerpot does not read the leftmost forwarded
value as `:484` says, but the `hops`-th from the right. A payload only in the body
of an otherwise unflagged request is caught standalone only (`corpus/runner.ts:46`
says both catch the same). Redaction that scrubs a shorter secret first can leave
the tail of a longer one that contains it. The replay flags requests that a
service token exempted.

## 6. The proofs

All proofs are for every value of the constants under the named assumptions of
the modules, which TLC evaluates in every run. Every safety invariant of the front
ends, the store, the notification path, the honeypots and the console is proved,
those of the service but one, and of the tables what concerns blocks. Section 7
says what is not, and why.

**`DataTheorems`.** What a loop computes is a fold, and a fact about it needs
induction over data. The theorems of the library that do this take an operator as
a parameter, which no prover here can instantiate; these take the property as a
set and the step as a function instead. `Least` is `WFMin` for a set of naturals;
`UpTo` and `SubsetInduction` follow. `FoldExists` and `IterateExists` build the
function that a `FoldSet`, or a number of steps, stands for, and `SumTakesAny` says
that a sum does not depend on the order its terms are taken in. `KeepingPicks` says
what a filter of a list keeps: an increasing choice of its places, every kept place
among them; `KeepingCounts` is how many. On these rest the lemmas for each
operation of the bounded table (`EvictedTable`, `WithoutTable`, `PutTable`,
`UsedTable`), each of which states what becomes of *every* entry. Two theorems
depend on when a table may forget: `Sheltered` says that a key is either still in
the table, with only so many others behind it, or at least `capacity` others were
put there since, and `GuardKept` that every operation keeps it so.

**`FrontEndProofs`.** Of `Evaluation` first, for each part of a pass (`StartPass`,
`Inspect`, `Decide`, `Record`, `Announce`): what it preserves of the types of the
locals, and exactly which effects of `tally` it adds. Both front ends cite them;
what `Standalone` has in common with `Middleware` by name is `Server...` there.

Of `Middleware`, `TypeCorrect` is inductive as stated because `TypeOK`
contains `LocalsOK`, what a suspended pass needs to resume. The one fact about a
fold it needs, that a combined score is natural, is `ScoreAssumption`.
`OnlyProofBlocks` strengthens `BlockedOnlyOnProof` to `ProofInv`: a pass that
holds the action `block`, committed or on its way to the blocklist, belongs to a
proven address. `AnswersAreReported` strengthens to `ReportInv`: a committing pass
past the store has been tallied. `EveryRequestCountedOnce` says of every stage whether the request has been counted
by then (`Counting`): never while its passes are undecided or deferred outside the
guard, once from the store on, and, without faults, once when the application has
it. `OnePassCommits` rests on `Committing`: a request enters the window with its
first pass only, and reaches the store and the listeners only from a pass that is
not followed by another; it assumes no guarded form, whose evaluation of a passed
request commits again (section 5).
`ImplementsDoor`: initial states map to initial states, and each action to a step
of `FrontDoor` or a stutter; it assumes the proof guard on and no guarded form,
whose route answers requests the front door already handed over.

Of `Standalone`, `BlocksAreExplained` follows a block from the record that
names it: `Explained(r)` holds of a request at every stage up to the action.
`NoChargeIsLostOrDoubled` adds to `ChargedOnce` that a request has no incident
before its pass reaches the store (`ChargeInv`); the sum of an address's incidents
then grows by exactly the recorded one (`HitSumAdds`, from `SumTakesAny`), however
stale the score it was decided on.

**`FileStoreProofs`.** `TypeCorrect` first. `QueuesMirror` rests on `QueueInv`,
which aligns the store's queue with batch and buffer through every phase and says
when `intact` allows it to break; `WritesCommitTheirBatch` is its consequence at
the moment of a write. For `LedgerDurable` and `RestartRebuilds`, `AddAllSteps`
turns the fold over the lines of a file into the ledgers in between, from which
`AddAllConcat` (a file read in two parts) and `AddAllCut` follow; `Ledgers` are
the lists a ledger can be (no address twice, no more than its capacity), and
`SeedRestores` says that a checkpoint, seeded into an empty ledger, is that
ledger, order of eviction included. `LedgerInv` says that before a lapse the
ledger is that of all lines ever written, and so is what checkpoint and live
segment replay to, except between the rename and the checkpoint of a roll, when
the ledger alone holds the scores and the segment is empty.

**`NotifyProofs`.** `SocketInv` is `SocketOwned` and `AlwaysAWayBack` together,
with the facts that a closed sink holds no timer and that a held socket is usable;
every event of any socket preserves it, which proves `OneSocket` and `WayBack`.
`WebInv` types the deliveries, says that no two of one hook carry the same alert
(an event's number is new when it starts) and counts slots as the cardinality of
the deliveries that take one; from it `NoSlotLeaks` and `SummaryComes`. `HubInv`
ties each counter to the positions of the history it stands for, which gives
`NothingHeldBackInSilence`. For `EveryCapHolds`, `CapInv` says that, from
every time its window still covers, a cap remembers at least as many sends as
there were starts, and never more than it allows; the caps on any window follow. For `RepeatsAreCollapsed` the table that remembers a key may be
made to forget it: the invariant is `Sheltered`, of every key that was sent.

**`ServiceProofs`.** `OrderlyEndFlushes`: the store is the last thing any
configuration closes, so a process that ended with hits unwritten has failed at a
close. `ListsSpareAllowlisted`: what a fetch installs is filtered by the list in
force when it is applied (`IngestSpares`). `StoppedPollersAreSilent`: a chain is
known by its number (`ChainInv`), and every step leaves a stopped one no more
peers to ask than it had, whatever was started after it (`Later`). `ReloadsAreHonest`: a plan names every table that differs
(`PlanIs`, `ListenersAreCompared`), and files alike in what the engine is made of
make the same engine (`SameSectionsSameEngine`), so that `NamedOK` is kept by each
reload. `FilesAssumption` says that files a run starts from and edits to are files.

**`SessionsProofs`.** `SlotInv` adds to `SlotsAreHeld` that a connection that has
not arrived has no socket and no close event to come. Admitting adds one holder,
a close event removes it, turning away and everything else leave the holders as
they are: this gives `NoSlotIsLost`, and, step by step, `CapIsKept`, the
refinement of `Slots`. Nothing in it depends on the dialogue. `CloseIsFinal` needs
only that no step revives a socket.

`NoEvidenceIsLost` and `MailsAreKeptApart` do depend on it, line by line. `Tally`
says how many reports of each kind there are, `Apart` what mails share; `Tells`
and `Keeps` are what the reports of one line add to them, whatever was reported
before, so that each line of each dialogue is looked at once. `FtpInv`,
`TelnetInv`, `SshInv` and `SmtpInv` relate the session object to what was reported
and to what the client did: the attempts counted are not enough, since a session
stops counting where a client does not stop sending. `HandledTurns` unfolds a data
event into its lines and `HandledKeeps` carries the invariant through them, lines
after the socket was ended included; with it goes `Stands`: what was handled and
what the lines left over would submit (`MeantTurns`, `MeantFollows`) are together
everything that was sent, and lines are left over only by a handler that hung up
(`Leaving`). `TalkInv` holds it while a connection may
talk, and `Evidence` for ever once it has `Parted`; between them is the close
event, which reports the scan and the transcript. `NoHitRunsAhead` generalises to
`HitInv`: a total that was read claims at most the score and the report's own
point, and once it is recorded at most the score, which only grows.

**`ConsoleProofs`.** Three theorems, each of a part of `Console`; every other
action leaves a part as it was (`Elsewhere`, `Aside`).

`SavedFiltersAreKept`: `FilterInv` types the lists (no name twice, no more than
`MaxSaved`) and says what a browser that is handing its copy back still has to
send (`HandingOver`: the end of its copy, newest last), what the listener has
received of it if nobody else wrote meanwhile (`Restored`), and that a listener
with a file lists everything that was saved and neither deleted nor pushed out.
The property alone is not inductive: that the copy is restored *in order* needs to
know at every step which part of it is there.

`TheDoorsHold`: the two doors count differently. The management API keeps times of
failures, and `KeysInv` says that from every time the window still covers it has
noted as many as there were. The dashboard keeps a record per address in a bounded
table, which eviction and expiry may drop. `ThrottleInv` says what an entry may
say (`Record`: no fewer failures than must be remembered, no more than there were,
and the lockout that many earn) and when there must be one (`Minded`, with
`Sheltered`: while twice the longest lockout has not passed since the last failure,
unless as many other addresses as there is room for have failed since).
`PenaltyGrows` closes the gap between the two counts: more failures never earn less.

`NothingGoesMissing`: `ShownInv` is `FeedInv` for the dashboard's streams and page
and `LinksInv` for the viewers of the management API. `StreamOK` and `LinkOK` are
the counting: what has happened since a viewer came is what it heard, what its
frames stand for, and what was dropped and skipped. The page is harder, because the
property speaks only of a page that has caught up, while a page is nearly always
waiting for something. `Whole` says of each incident a list should show why it may
be absent now (`Covered`): it is hidden, or was searched out, or was lost and told,
or a reload that is under way or owed will answer it, or raced with it, or a stream
still carries it, or carries word of it, or has ended, which is a reason to reload.
A page that has caught up has none of the last three, and the property is left.

**`TablesProofs`.** `BlocksAreHeld`. That a block is not shortened, and is shed
only from a full list by what ends later, is a fact of the operators
(`EvictionsShed`, `BlockIsKept`), whatever the list. The rate is a fact of the
history: a window of the enforcer's limiter is fixed while the property bounds
every stretch of its length, so `RateInv` must remember the window before the
current one, and bound what was let through in it too (`RateIsBounded`: no stretch
touches three windows).

## 7. Only model-checked, not modelled

Only model-checked:

- Liveness (`EveryRequestSettles`, `EveryRequestAnswered`, `RecordSettles`,
  `AlertsSettle`, `Reconnects`, `SlotsReturn`, `SignalEnds`, `WaitsEnd`), which is
  out of the prover's reach.
- `VerdictsFollowHistory`, `TimelinesFollowHistory` and `OneStory`: each compares
  tables, rings or summaries with folds over a whole history. Their modules compute
  with operators that take operators (`SelectSeq`, `FoldLeft` with a LAMBDA), whose
  theorems are induction with an operator parameter, and build tables with `:>` and
  `@@`, for which the provers have no facts.
- `ServiceSurvivesReload`: that what the schema accepts can be built is a fact
  about each key of the schema, and keys are found by putting strings together
  (`"detectors." \o id`, `ToString`), which no prover here can reason about. TLC
  evaluates it for every file of the run.
- The type invariant of `Sessions`, which is not listed in a run: the proofs use
  the parts of it that they need.

Not modelled: what a pattern of a detector recognises (a pure function of one
request, covered by the corpus); rendering and formats, of terminals, pages and
messages; what an answering action writes; shell words, URLs and TOML syntax;
address arithmetic and token comparison; alert rules; the UDP transport (no
connection state); clients of services that are not in the repository; the
browser element. `components` in `PROJECT.json` gives the reason for each.

## 8. The plan

Done: every layer is modelled and checked, and the safety invariants are proved
with the exceptions of section 7. What would carry it further:

1. `Names`: that a claim is denied only by an answer needs no history, only
   lemmas about `AfterReverse`, `AfterForward` and `ByRanges` for every set of
   ranges; with a table of verdicts built by a function constructor in place of
   `:>` and `@@`, they would give the second half of `VerdictsFollowHistory`.
2. `Timelines`: the accounting of a ring that comes round, as `RateInv` does it
   for two windows.
3. `Configuration` with keys that are pairs (a table and a key) in place of joined
   strings: `ServiceSurvivesReload` would become a finite case per kind of key.

The runs share their budget of states by composing components that do not
interact as alternatives chosen at the start, one run per layer.
