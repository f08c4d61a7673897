---------------------------- MODULE Connections ----------------------------
(***************************************************************************)
(* What the honeypot does to the connections it keeps open, as values:      *)
(*                                                                         *)
(*   held responses   actions/tarpit.ts, drip-feed.ts and large-payload.ts, *)
(*                    on a Node response or behind adapters/fetch.ts, koa.ts  *)
(*                    and fastify.ts;                                       *)
(*   viewers          of the management API's live feed (management/server.ts) *)
(*                    and of the dashboard's (dashboard/server.ts);         *)
(*   the remote source  dashboard/source.ts, itself such a viewer.          *)
(*                                                                         *)
(* A connection's buffer is the sequence of what was written and not read.   *)
(***************************************************************************)
EXTENDS Naturals, Sequences, FiniteSets, SequencesExt

CONSTANTS
  MaxConcurrent,      \* slots of one action
  Pieces,             \* bound: ticks of a drip-feed, chunks of a large payload
  Throttled,          \* LargePayloadOptions.throttleMs > 0
  Ceiling, Stall,     \* WS_MAX_BUFFERED_BYTES, WS_STALL_MS
  Buffer,             \* what a response takes before write() says no
  LagLimit, LagDrops, \* LAG_LIMIT_MS, LAG_DROP_LIMIT
  PerSecond           \* maxEventsPerSecond; 0 is no limit

ASSUME ConnectionsAssumption ==
  /\ {MaxConcurrent, Pieces, Buffer} \subseteq Nat \ {0} /\ Throttled \in BOOLEAN
  /\ {Ceiling, Stall, LagLimit, LagDrops, PerSecond} \subseteq Nat

Never   == 0
Actions == {"tarpit", "drip-feed", "large-payload"}

-----------------------------------------------------------------------------
(* Held responses. One is at "deciding" while its request is evaluated, then *)
(* waits "sleeping" or "draining", until its action's promise settles.       *)

Asked(action, host) ==
  [action |-> action, host |-> host, client |-> "here", heard |-> FALSE, at |-> "deciding",
   left |-> Pieces, sent |-> FALSE, ended |-> FALSE, told |-> "nothing"]

\* fetch.ts: the Response is there as soon as headers are committed.
Committed(h) ==
  [h EXCEPT !.sent = TRUE, !.told = IF h.host = "fetch" THEN "given" ELSE @]

\* koa.ts and fastify.ts take their hands off the response when the action is over.
Settled(h) ==
  [h EXCEPT !.at = "over", !.told = IF h.host \in {"koa", "fastify"} THEN "left" ELSE @]

Ended(h) == Settled([Committed(h) EXCEPT !.ended = TRUE])

\* The end of a loop or a wait: the response is ended unless the client was heard to go.
Finished(h) == IF h.heard THEN Settled(h) ELSE Ended(h)

\* large-payload, from one wait to the next. A socket that is gone says no to every write; one
\* that is full after some chunk may be so after the last.
Streams(h) ==
  IF h.left = 0 \/ h.heard THEN {Finished(h)}
  ELSE IF h.client = "gone" THEN {[Committed(h) EXCEPT !.left = @ - 1, !.at = "draining"]}
  ELSE {[Committed(h) EXCEPT !.left = @ - n, !.at = "draining"] : n \in 1..h.left}
       \cup IF Throttled THEN {[Committed(h) EXCEPT !.left = @ - 1, !.at = "sleeping"]}
                         ELSE {Finished([Committed(h) EXCEPT !.left = 0])}

\* drip-feed, from one tick to the next, until its deadline.
Drips(h) ==
  IF h.left = 0 \/ h.heard THEN Finished(h) ELSE [Committed(h) EXCEPT !.left = @ - 1, !.at = "sleeping"]

\* (Mutant.) The client is not looked for before the action subscribes to its going.
BeginsUnlooked(h, active) ==
  IF active >= MaxConcurrent THEN {Ended(h)}
  ELSE CASE h.action = "tarpit"        -> {[h EXCEPT !.at = "sleeping"]}
         [] h.action = "drip-feed"     -> {Drips(h)}
         [] h.action = "large-payload" -> Streams(h)

\* execute(), up to its first wait.
Begins(h, active) ==
  IF h.client = "gone" THEN {Settled(h)}
  ELSE IF active >= MaxConcurrent THEN {Ended(h)}
  ELSE CASE h.action = "tarpit"        -> {[h EXCEPT !.at = "sleeping"]}
         [] h.action = "drip-feed"     -> {Drips(h)}
         [] h.action = "large-payload" -> Streams(h)

\* The middleware passes the request on, or its failure; the host's own handler is next.
Passes(h) == {[h EXCEPT !.at = "over", !.told = told] : told \in {"passed", "thrown"}}

\* A timer fires.
Wakes(h) ==
  CASE h.action = "tarpit"        -> {Ended(h)}
    [] h.action = "drip-feed"     -> {Drips(h)}
    [] h.action = "large-payload" -> Streams(h)

\* `close`: it ends a tarpit's wait and a wait for `drain`; the others find out when they wake.
Closes(h) ==
  LET gone == [h EXCEPT !.client = "gone", !.heard = h.at # "deciding"]
  IN  IF h.at = "draining" \/ (h.at = "sleeping" /\ h.action = "tarpit") THEN Settled(gone) ELSE gone

Waiting(h) == h.at \in {"sleeping", "draining"}

-----------------------------------------------------------------------------
(* Viewers. A frame is an incident by its number, or how many were left out.  *)

Frame(kind, n) == [kind |-> kind, n |-> n]

\* onWsConnection(): past a ceiling incidents are dropped, and past a time over it the viewer.
Joined(n) == [open |-> TRUE, buffered |-> <<>>, dropped |-> 0, stalled |-> Never, from |-> n]

WsFed(w, n, at) ==
  LET since == IF w.stalled = Never THEN at ELSE w.stalled
  IN  CASE ~w.open -> w
        [] w.open /\ Len(w.buffered) > Ceiling ->
             [w EXCEPT !.dropped = @ + 1, !.stalled = since, !.open = at - since < Stall]
        [] OTHER ->
             [w EXCEPT !.stalled = Never, !.dropped = 0,
                       !.buffered = @ \o (IF w.dropped > 0 THEN <<Frame("lagged", w.dropped)>> ELSE <<>>)
                                      \o <<Frame("incident", n)>>]

\* openStream(): the stream of a viewer of the dashboard, greeted.
Opened(n, at) ==
  [open |-> TRUE, pipe |-> <<Frame("hello", n)>>, lagging |-> FALSE, since |-> Never, dropped |-> 0,
   window |-> at, count |-> 0, skipped |-> 0, from |-> n, client |-> "here"]

\* (Mutant.) What a lagging viewer misses is forgotten.
WrittenUncounted(s, frame, droppable, at) ==
  IF s.lagging /\ droppable THEN s
  ELSE LET pipe == Append(s.pipe, frame)
       IN  IF Len(pipe) < Buffer \/ s.lagging THEN [s EXCEPT !.pipe = pipe]
           ELSE [s EXCEPT !.pipe = pipe, !.lagging = TRUE, !.since = at]

\* writeFrame().
Written(s, frame, droppable, at) ==
  IF s.lagging /\ droppable THEN [s EXCEPT !.dropped = @ + 1]
  ELSE LET pipe == Append(s.pipe, frame)
       IN  IF Len(pipe) < Buffer \/ s.lagging THEN [s EXCEPT !.pipe = pipe]
           ELSE [s EXCEPT !.pipe = pipe, !.lagging = TRUE, !.since = at]

\* The window of a viewer's rate begins again, and it is told what the last one left out.
NewWindow(s, at) ==
  IF PerSecond = 0 \/ at = s.window THEN s
  ELSE LET told == IF s.skipped > 0 THEN Written(s, Frame("skipped", s.skipped), FALSE, at) ELSE s
       IN  [told EXCEPT !.window = at, !.count = 0, !.skipped = 0]

\* What a stream makes of one incident: too far behind, it is ended instead.
Fed(s, n, at) ==
  IF ~s.open THEN s
  ELSE IF s.lagging /\ (at - s.since > LagLimit \/ s.dropped > LagDrops) THEN [s EXCEPT !.open = FALSE]
  ELSE LET w == NewWindow(s, at)
       IN  IF PerSecond > 0 /\ w.count >= PerSecond THEN [w EXCEPT !.skipped = @ + 1]
           ELSE Written([w EXCEPT !.count = @ + (IF PerSecond > 0 THEN 1 ELSE 0)], Frame("incident", n), TRUE, at)

\* A frame is read; `drain` comes when the last has been.
Read(s) ==
  LET rest == [s EXCEPT !.pipe = Tail(@)]
  IN  IF rest.pipe # <<>> \/ ~rest.lagging THEN rest
      ELSE [rest EXCEPT !.lagging = FALSE, !.dropped = 0,
                        !.pipe = IF rest.dropped > 0 THEN <<Frame("lagged", rest.dropped)>> ELSE <<>>]

\* How many incidents a frame stands for, and a buffer of them.
Worth(frame) ==
  CASE frame.kind = "hello"    -> 0
    [] frame.kind = "incident" -> 1
    [] OTHER                   -> frame.n

Stands(frames) ==
  LET upTo[n \in 0..Len(frames)] == IF n = 0 THEN 0 ELSE upTo[n - 1] + Worth(frames[n])
  IN  upTo[Len(frames)]
=============================================================================
