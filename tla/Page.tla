-------------------------------- MODULE Page --------------------------------
(***************************************************************************)
(* The dashboard's page as a value (src/src/dashboard/client/): the feed it  *)
(* follows (stream.ts), what it holds and reloads (index.ts, incidents.ts,   *)
(* query.ts), and the saved filters it shares with the listener (saved.ts).  *)
(* Incidents are numbers in the order they happened.                         *)
(***************************************************************************)
EXTENDS TtlLru, FiniteSets, SequencesExt, FiniteSetsExt

CONSTANTS
  Lists,         \* what a reload asks for: "all" for the charts, "rows" for the table
  Corpus, Rows,  \* how many incidents are asked for: CORPUS_LIMIT, the table's limit
  Matching,      \* the incidents that what is typed into the search lets through
  MaxSaved       \* MAX_SAVED filters

ASSUME PageAssumption == Lists \subseteq {"all", "rows"} /\ {Corpus, Rows, MaxSaved} \subseteq Nat \ {0} /\ Matching \subseteq Nat

Limit(list) == IF list = "all" THEN Corpus ELSE Rows

Newest(list, most) ==
  {n \in list : Cardinality({m \in list : m > n}) < most}

Idle        == [at |-> "idle", has |-> {}]
Wanted      == [at |-> "asked", has |-> {}]
Broken      == [at |-> "failed", has |-> {}]
Served(has) == [at |-> "answered", has |-> has]

-----------------------------------------------------------------------------
(* Loading. refresh() runs one pass at a time and remembers that another was  *)
(* asked for; a pass is over when every read of it has been applied.          *)

\* As it is drawn first: nothing held, the feed to be live, no search typed.
Blank ==
  [live |-> TRUE, wanted |-> FALSE, source |-> "none", retry |-> FALSE, asking |-> FALSE, interrupted |-> FALSE,
   status |-> "off", all |-> {}, rows |-> {}, dropped |-> 0, skipped |-> 0,
   acknowledged |-> 0, failed |-> {}, searching |-> FALSE,
   loading |-> FALSE, again |-> FALSE, reads |-> [list \in Lists |-> Idle]]

Loads(p) == [p EXCEPT !.loading = TRUE, !.again = FALSE, !.reads = [list \in Lists |-> Wanted]]

Refreshes(p) == IF p.loading THEN [p EXCEPT !.again = TRUE] ELSE Loads(p)

\* A list replaces the one held; a failed read is shown, and leaves what was held.
Applies(p, list) ==
  LET read == p.reads[list]
      done == [p EXCEPT !.reads[list] = Idle,
                        !.failed = IF read.at = "failed" THEN @ \cup {list} ELSE @ \ {list}]
  IN  CASE read.at = "failed" -> done
        [] read.at = "answered" /\ list = "all"    -> [done EXCEPT !.all = read.has]
        [] read.at = "answered" /\ list = "rows"   -> [done EXCEPT !.rows = read.has]

PassEnds(p) == IF p.again THEN Loads(p) ELSE [p EXCEPT !.loading = FALSE]

\* mergeIncident() and prependIncident(): the table takes what the search lets through.
Ingests(p, n) ==
  LET shown == ~p.searching \/ n \in Matching
  IN  [p EXCEPT !.all = Newest(@ \cup {n}, Corpus),
                !.rows = IF shown THEN Newest(@ \cup {n}, Rows) ELSE @]

-----------------------------------------------------------------------------
(* The feed. `source` is the EventSource: none, connecting, or open.          *)

Opens(p) == [p EXCEPT !.source = "connecting", !.status = "connecting"]

Connects(p) ==
  LET wanting == [p EXCEPT !.wanted = TRUE]
  IN  IF p.source # "none" \/ p.retry THEN wanting ELSE Opens(wanting)

\* hello: what was missed while the feed was interrupted is loaded.
HearsHello(p) ==
  LET live == [p EXCEPT !.failed = @ \ {"events"}, !.status = "live", !.interrupted = FALSE]
  IN  IF p.interrupted THEN Refreshes(live) ELSE live

Hears(p, frame) ==
  CASE frame.kind = "hello"    -> HearsHello(p)
    [] frame.kind = "incident" -> Ingests(p, frame.n)
    [] frame.kind = "lagged"   -> [p EXCEPT !.dropped = @ + frame.n]
    [] frame.kind = "skipped"  -> [p EXCEPT !.skipped = @ + frame.n]

\* The connection broke: the browser connects again by itself.
Breaks(p) == [p EXCEPT !.source = "connecting", !.interrupted = TRUE, !.status = "connecting"]

\* The answer was no event stream: closed for good, so a timer opens it again, and one request
\* is made to learn why.
IsRefused(p) ==
  [p EXCEPT !.source = "none", !.interrupted = TRUE, !.status = "down", !.retry = TRUE, !.asking = TRUE]

Retries(p) == LET due == [p EXCEPT !.retry = FALSE] IN IF p.wanted THEN Opens(due) ELSE due

Suspends(p) ==
  [p EXCEPT !.wanted = FALSE, !.retry = FALSE, !.source = "none", !.status = "paused",
            !.interrupted = @ \/ p.source # "none"]

\* The Pause and Resume button.
Toggles(p) == IF p.live THEN Suspends([p EXCEPT !.live = FALSE]) ELSE Refreshes(Connects([p EXCEPT !.live = TRUE]))

\* The notice of an incomplete feed: shown until as much has been acknowledged.
NoticeShown(p) == p.dropped + p.skipped > p.acknowledged
Dismisses(p)   == [p EXCEPT !.acknowledged = p.dropped + p.skipped]
Reloads(p)     == Refreshes(Dismisses(p))

-----------------------------------------------------------------------------
(* Saved filters, newest first. A filter is its name.                         *)

Others(list, name)  == Keeping(list, {i \in DOMAIN list : list[i] # name})
Kept(list)          == SubSeq(list, 1, IF Len(list) < MaxSaved THEN Len(list) ELSE MaxSaved)
Saves(list, name)   == Kept(<<name>> \o Others(list, name))

\* (Mutant.) Handed back in the order it is listed.
HandBackNewest(list, mirror) == IF list = <<>> THEN mirror ELSE <<>>

\* What a browser hands back to a listener that came up empty, oldest first.
HandBack(list, mirror) == IF list = <<>> THEN Reverse(mirror) ELSE <<>>
=============================================================================
