------------------------------ MODULE Console ------------------------------
(***************************************************************************)
(* What happens on the connections the honeypot keeps open, and what the     *)
(* people watching it are shown:                                           *)
(*                                                                         *)
(*   held     responses held open by an action while clients come and go;    *)
(*   remote   the dashboard's source that follows another honeypot's         *)
(*            management API, and the viewer it is there;                   *)
(*   feed     the dashboard's live feed and a page that follows it, breaks    *)
(*            off, reloads, searches and is paused;                         *)
(*   door     attempts to get in to the dashboard,                          *)
(*   keys     and to the management API;                                    *)
(*   filters  the saved filters a listener shares with its browsers.         *)
(*                                                                         *)
(* They share no state but the clock: a behaviour follows one of them.    *)
(***************************************************************************)
EXTENDS Clock, Connections, Page, Door

CONSTANTS
  Parts,
  Hosts, MaxAsks,                \* what serves a response that is held; bound
  MaxIncidents, Muted,           \* how many happen, and those of hidden actors
  MaxClients, MaxStreams,        \* viewers at a time; bound on streams not yet forgotten
  Soon,                          \* where all but the door comes to an end
  MaxClicks, MaxWatches, MaxEdits, MaxBreaks,  \* bounds on what people do and on what goes wrong
  Peers, MaxTries,               \* who tries to get in; bound
  Browsers, Names                \* who saves filters, under which names

ASSUME ConsoleAssumption == IsFiniteSet(Names)

VARIABLES
  part, moves, breaks,
  happened,                   \* incidents so far
  held,                       \* the responses asked for
  links, remote,              \* the connections of the remote source, and the source
  streams, subscribed,        \* the dashboard's viewers
  page, at,                   \* a page, and the stream it reads
  heard,                      \* how many incidents a stream's reader knows happened
  lost, raced, unmatched,     \* not sent; while a read was under way; not searched for
  throttle, guesses,          \* what the dashboard and the management API remember of attempts
  inside, tries,              \* attempts being looked at, and every one decided, in order
  saved, file,                \* the listener's filters, and the file it keeps them in
  browsers,                   \* each with its copy and what it is waiting for
  kept                        \* saved, and neither deleted nor said to be kept in memory only

remoteVars == <<links, remote>>
feedVars   == <<streams, subscribed, page, at, heard, lost, raced, unmatched>>
doorVars   == <<throttle, guesses, inside, tries>>
filterVars == <<saved, file, browsers, kept>>
vars       == <<now, part, moves, breaks, happened, held, remoteVars, feedVars, doorVars, filterVars>>

NoEdit    == [at |-> "none", list |-> <<>>]
NoRefresh == [at |-> "none", list |-> <<>>, todo |-> <<>>, copy |-> <<>>, alone |-> FALSE]

\* Filters may have been saved before, and be known everywhere.
Init ==
  /\ part \in Parts /\ now = 1 /\ moves = 0 /\ breaks = 0 /\ happened = 0
  /\ held = <<>>
  /\ links = <<>> /\ remote = [socket |-> 0, retry |-> FALSE, listeners |-> 0, closed |-> FALSE]
  /\ streams = <<>> /\ subscribed = FALSE
  /\ page = Connects(Refreshes(Blank)) /\ at = 0
  /\ heard = [i \in 1..MaxStreams |-> 0] /\ lost = {} /\ raced = [list \in Lists |-> {}] /\ unmatched = {}
  /\ throttle = <<>> /\ guesses = [p \in Peers |-> <<>>] /\ inside = [p \in Peers |-> 0] /\ tries = <<>>
  /\ \E has \in BOOLEAN, names \in {{}, Names} :
       /\ part # "filters" => ~has /\ names = {}
       /\ saved = Kept(SetToSeq(names)) /\ file = [has |-> has, list |-> IF has THEN saved ELSE <<>>]
       /\ browsers = [b \in Browsers |-> [copy |-> saved, edit |-> NoEdit, refresh |-> NoRefresh]]
       /\ kept = ToSet(saved)

\* What a person does, and what goes wrong, each a bounded number of times; in the feed, which
\* has the most to do by itself, one or the other.
MaxMoves == CASE part = "feed" -> MaxClicks [] part = "remote" -> MaxWatches [] OTHER -> MaxEdits

Moved  == moves < MaxMoves /\ (part = "feed" => breaks = 0) /\ moves' = moves + 1 /\ UNCHANGED <<now, part, breaks, happened>>
Broke  == breaks < MaxBreaks /\ (part = "feed" => moves = 0) /\ breaks' = breaks + 1 /\ UNCHANGED <<now, part, moves, happened>>
Steady == UNCHANGED <<now, part, moves, breaks, happened>>

-----------------------------------------------------------------------------
(* Held responses. *)

OnlyHeld == UNCHANGED <<remoteVars, feedVars, doorVars, filterVars>>

Taken(action) == Cardinality({i \in DOMAIN held : held[i].action = action /\ Waiting(held[i])})

Turns(i, outcomes) == (\E h \in outcomes : held' = [held EXCEPT ![i] = h]) /\ Steady /\ OnlyHeld

\* A request is evaluated for which an action will be chosen.
Ask(action, host) ==
  /\ part = "held" /\ Len(held) < MaxAsks
  /\ held' = Append(held, Asked(action, host))
  /\ Steady /\ OnlyHeld

Execute(i) == held[i].at = "deciding" /\ Turns(i, Begins(held[i], Taken(held[i].action)))
PassOn(i)  == held[i].at = "deciding" /\ Turns(i, Passes(held[i]))
Wake(i)    == held[i].at = "sleeping" /\ Turns(i, Wakes(held[i]))
Drain(i)   == held[i].at = "draining" /\ held[i].client = "here" /\ Turns(i, Streams(held[i]))
Leave(i)   == held[i].at # "over" /\ held[i].client = "here" /\ Turns(i, {Closes(held[i])})

HeldNext ==
  \/ \E action \in Actions, host \in Hosts : Ask(action, host)
  \/ \E i \in DOMAIN held : Execute(i) \/ PassOn(i) \/ Wake(i) \/ Drain(i) \/ Leave(i)

-----------------------------------------------------------------------------
(* The remote source. A link is "connecting", "open", "closing" while its end  *)
(* has not been heard, or "closed"; the server's viewer of it may end first.   *)

OnlyRemote == UNCHANGED <<held, feedVars, doorVars, filterVars>>

\* connect(): one WebSocket, and only while somebody listens.
Dialled(r) ==
  IF r.closed \/ r.socket # 0 \/ r.listeners = 0 THEN remote' = r /\ UNCHANGED links
  ELSE /\ links' = Append(links, [state |-> "connecting", viewer |-> Joined(happened), heard |-> 0])
       /\ remote' = [r EXCEPT !.socket = Len(links) + 1]

\* disconnect(): the end of the link is heard later.
HungUp(r) ==
  /\ links' = IF r.socket = 0 THEN links
              ELSE [links EXCEPT ![r.socket].state = "closing", ![r.socket].viewer.open = FALSE]
  /\ remote' = [r EXCEPT !.retry = FALSE, !.socket = 0]

Watch ==
  /\ part = "remote" /\ Moved /\ OnlyRemote
  /\ Dialled([remote EXCEPT !.listeners = @ + IF remote.closed THEN 0 ELSE 1])

Unwatch ==
  /\ part = "remote" /\ remote.listeners > 0 /\ Moved /\ OnlyRemote
  /\ LET r == [remote EXCEPT !.listeners = @ - 1]
     IN  IF r.listeners = 0 THEN HungUp(r) ELSE remote' = r /\ UNCHANGED links

CloseSource ==
  /\ part = "remote" /\ Moved /\ OnlyRemote
  /\ HungUp([remote EXCEPT !.closed = TRUE, !.listeners = 0])

OpenLink(i) ==
  /\ links[i].state = "connecting"
  /\ links' = [links EXCEPT ![i].state = "open", ![i].viewer = Joined(happened)]
  /\ Steady /\ OnlyRemote /\ UNCHANGED remote

\* A connection that cannot be made, breaks, or is ended by the server for having stalled.
BreakLink(i) ==
  /\ links[i].state \in {"connecting", "open"} /\ OnlyRemote /\ UNCHANGED remote
  /\ links[i].viewer.open => Broke
  /\ ~links[i].viewer.open => Steady
  /\ links' = [links EXCEPT ![i].state = "closing", ![i].viewer.open = FALSE]

\* The `close` of a link clears the socket, whichever it is, and is followed by a retry.
HearEnd(i) ==
  /\ links[i].state = "closing" /\ Steady /\ OnlyRemote
  /\ links' = [links EXCEPT ![i].state = "closed"]
  /\ remote' = [remote EXCEPT !.socket = 0, !.retry = @ \/ (~remote.closed /\ remote.listeners > 0)]

Redial == remote.retry /\ Dialled([remote EXCEPT !.retry = FALSE]) /\ Steady /\ OnlyRemote

ReadLink(i) ==
  /\ links[i].state = "open" /\ links[i].viewer.buffered # <<>> /\ Steady /\ OnlyRemote /\ UNCHANGED remote
  /\ LET frame == Head(links[i].viewer.buffered)
     IN  links' = [links EXCEPT ![i].viewer.buffered = Tail(@),
                                ![i].heard = @ + Worth(frame)]

\* An incident is published to the management API's viewers.
Announce ==
  /\ part = "remote" /\ happened < MaxIncidents
  /\ happened' = happened + 1
  /\ links' = [i \in DOMAIN links |->
                 IF links[i].state = "open" THEN [links[i] EXCEPT !.viewer = WsFed(@, happened + 1, now)] ELSE links[i]]
  /\ UNCHANGED <<now, part, moves, breaks, remote>> /\ OnlyRemote

RemoteNext ==
  \/ Watch \/ Unwatch \/ CloseSource \/ Redial \/ Announce
  \/ \E i \in DOMAIN links : OpenLink(i) \/ BreakLink(i) \/ HearEnd(i) \/ ReadLink(i)

-----------------------------------------------------------------------------
(* The feed. The streams are those not forgotten: one that was ended for having *)
(* fallen behind is no viewer any more, but what it was sent is still read.      *)

OnlyFeed == UNCHANGED <<held, remoteVars, doorVars, filterVars>>

Viewers == {i \in DOMAIN streams : streams[i].open}
Spare   == (1..MaxStreams) \ DOMAIN streams
Come(i, s) == [j \in DOMAIN streams \cup {i} |-> IF j = i THEN s ELSE streams[j]]
Gone(i)    == [j \in DOMAIN streams \ {i} |-> streams[j]]

\* An incident is recorded and published: sent to every viewer unless it is muted.
Happen ==
  /\ part = "feed" /\ happened < MaxIncidents
  /\ happened' = happened + 1
  /\ LET n    == happened + 1
         sent == subscribed /\ n \notin Muted
     IN  /\ streams' = IF sent THEN [i \in DOMAIN streams |-> Fed(streams[i], n, now)] ELSE streams
         /\ lost' = IF sent /\ \E i \in Viewers : streams'[i].open /\ Frame("incident", n) \notin ToSet(streams'[i].pipe)
                    THEN lost \cup {n} ELSE lost
         /\ raced' = [list \in Lists |->
                        IF page.reads[list].at = "answered" \/ (at = 0 /\ ~page.interrupted)
                        THEN raced[list] \cup {n} ELSE raced[list]]
  /\ UNCHANGED <<now, part, moves, breaks, subscribed, page, at, heard, unmatched>> /\ OnlyFeed

\* The page's request for the feed arrives: a stream, or 503 when there are enough viewers.
Request ==
  /\ part = "feed" /\ page.source = "connecting"
  /\ IF Cardinality(Viewers) >= MaxClients
     THEN page' = IsRefused(page) /\ UNCHANGED <<streams, subscribed, at, heard>>
     ELSE \E i \in Spare :
            /\ \A j \in Spare : i <= j
            /\ streams' = Come(i, Opened(happened, now))
            /\ subscribed' = TRUE /\ at' = i /\ heard' = [heard EXCEPT ![i] = 0]
            /\ page' = [page EXCEPT !.source = "open"]
  /\ Steady /\ OnlyFeed /\ UNCHANGED <<lost, raced, unmatched>>

\* The request that asks why: a viewer for as long as its headers take.
Diagnose ==
  /\ part = "feed" /\ page.asking
  /\ IF Cardinality(Viewers) >= MaxClients
     THEN page' = [page EXCEPT !.asking = FALSE, !.failed = @ \cup {"events"}] /\ UNCHANGED <<streams, subscribed, heard>>
     ELSE \E i \in Spare :
            /\ \A j \in Spare : i <= j
            /\ streams' = Come(i, [Opened(happened, now) EXCEPT !.client = "aborted"])
            /\ subscribed' = TRUE /\ heard' = [heard EXCEPT ![i] = 0]
            /\ page' = [page EXCEPT !.asking = FALSE]
  /\ Steady /\ OnlyFeed /\ UNCHANGED <<at, lost, raced, unmatched>>

\* `close` of a request: its stream is forgotten, and the subscription with the last.
Forget(i) ==
  /\ part = "feed" /\ streams[i].client # "here"
  /\ streams' = Gone(i) /\ subscribed' = (subscribed /\ Viewers \ {i} # {})
  /\ Steady /\ OnlyFeed /\ UNCHANGED <<page, at, heard, lost, raced, unmatched>>

Cut(i, p) ==
  /\ streams' = [streams EXCEPT ![i].client = "gone"] /\ at' = 0 /\ page' = p
  /\ OnlyFeed /\ UNCHANGED <<subscribed, heard, lost, raced, unmatched>>

\* The connection breaks, before the server knows; or it ends, all of it read.
Break == part = "feed" /\ at # 0 /\ Broke /\ Cut(at, Breaks(page))
End   == part = "feed" /\ at # 0 /\ ~streams[at].open /\ streams[at].pipe = <<>> /\ Steady /\ Cut(at, Breaks(page))

Hear ==
  /\ part = "feed" /\ at # 0 /\ streams[at].pipe # <<>>
  /\ LET frame == Head(streams[at].pipe)
     IN  /\ page' = Hears(page, frame)
         /\ heard' = [heard EXCEPT ![at] = @ + Worth(frame)]
         /\ unmatched' = IF frame.kind = "incident" /\ page.searching /\ frame.n \notin Matching
                         THEN unmatched \cup {frame.n} ELSE unmatched
  /\ streams' = [streams EXCEPT ![at] = Read(@)]
  /\ Steady /\ OnlyFeed /\ UNCHANGED <<subscribed, at, lost, raced>>

OnlyPage == OnlyFeed /\ UNCHANGED <<streams, subscribed, at, heard, lost, raced, unmatched>>

\* A timer of a second or more: what the refused page asked meanwhile has long been answered.
Retry ==
  /\ part = "feed" /\ page.retry /\ ~page.asking /\ \A i \in DOMAIN streams : streams[i].client # "aborted"
  /\ page' = Retries(page) /\ Steady /\ OnlyPage

\* A read is answered from the store, or cannot be.
Serve(list) ==
  /\ part = "feed" /\ page.reads[list].at = "asked" /\ OnlyPage
  /\ \/ /\ page' = [page EXCEPT !.reads[list] =
                      Served(Newest(1..happened, Limit(list)))]
        /\ Steady
     \/ page' = [page EXCEPT !.reads[list] = Broken] /\ Broke

Apply(list) ==
  part = "feed" /\ page.reads[list].at \in {"answered", "failed"} /\ page' = Applies(page, list) /\ Steady /\ OnlyPage

FinishPass ==
  /\ part = "feed" /\ page.loading /\ \A list \in Lists : page.reads[list] = Idle
  /\ page' = PassEnds(page) /\ Steady /\ OnlyPage

Pause ==
  /\ part = "feed" /\ Moved
  /\ IF page.live /\ at # 0 THEN Cut(at, Toggles(page)) ELSE page' = Toggles(page) /\ OnlyPage

Search  == part = "feed" /\ Moved /\ page' = [page EXCEPT !.searching = ~@] /\ OnlyPage
Dismiss == part = "feed" /\ NoticeShown(page) /\ Moved /\ page' \in {Dismisses(page), Reloads(page)} /\ OnlyPage

FeedNext ==
  \/ Happen \/ Request \/ Diagnose \/ Break \/ End \/ Hear \/ Retry \/ FinishPass
  \/ Pause \/ Search \/ Dismiss
  \/ \E i \in DOMAIN streams : Forget(i)
  \/ \E list \in Lists : Serve(list) \/ Apply(list)

-----------------------------------------------------------------------------
(* The door. A credential is looked at over an await: attempts that were not    *)
(* turned away by then are decided whatever happens meanwhile.                  *)

OnlyDoor == UNCHANGED <<held, remoteVars, feedVars, filterVars>>

Try(door, peer, ok) == [door |-> door, who |-> peer, at |-> now, ok |-> ok]

Busy == FoldFunction(LAMBDA n, sum : n + sum, 0, inside)

Knock(p) ==
  /\ part = "door" /\ Len(tries) + Busy < MaxTries /\ ~Locked(throttle, p, now)
  /\ inside' = [inside EXCEPT ![p] = @ + 1]
  /\ Steady /\ OnlyDoor /\ UNCHANGED <<throttle, guesses, tries>>

Decide(p, ok) ==
  /\ inside[p] > 0
  /\ throttle' = IF ok THEN Forgiven(throttle, p) ELSE Struck(throttle, p, now)
  /\ inside' = [inside EXCEPT ![p] = @ - 1] /\ tries' = Append(tries, Try("dashboard", p, ok))
  /\ Steady /\ OnlyDoor /\ UNCHANGED guesses

\* handleHttp() and handleUpgrade(): a key is looked at when the request arrives.
Present(p, ok) ==
  /\ part = "keys" /\ Len(tries) < MaxTries /\ ~TooManyAuthFailures(guesses[p], now)
  /\ guesses' = IF ok THEN [guesses EXCEPT ![p] = RecentAuthFailures(@, now)] ELSE RecordAuthFailure(guesses, p, now)
  /\ tries' = Append(tries, Try("management", p, ok))
  /\ Steady /\ OnlyDoor /\ UNCHANGED <<throttle, inside>>

DoorNext ==
  \E p \in Peers : Knock(p) \/ \E ok \in BOOLEAN : Decide(p, ok) \/ Present(p, ok)

-----------------------------------------------------------------------------
(* Saved filters. An answer carries the list as it was when it was given.       *)

OnlyFilters == UNCHANGED <<held, remoteVars, feedVars, doorVars>>

\* persist(): the list is written whole, or stays in memory when that fails.
Persists(list) ==
  /\ saved' = list
  /\ file' = IF file.has THEN [file EXCEPT !.list = list] ELSE file

Unwritten(list) == file.has /\ saved' = list /\ UNCHANGED file

\* A full list pushes its oldest out.
Pushed == IF Len(saved') = MaxSaved THEN kept \cap ToSet(saved') ELSE kept

\* Another hand in the list: nobody hands it back alone any more.
Contested == [b \in Browsers |-> [browsers[b] EXCEPT !.refresh.alone = FALSE]]

SaveFilter(b, name) ==
  /\ part = "filters" /\ browsers[b].edit = NoEdit /\ Moved /\ OnlyFilters
  /\ Persists(Saves(saved, name))
  /\ browsers' = [Contested EXCEPT ![b].edit = [at |-> "answered", list |-> saved']]
  /\ kept' = Pushed \cup {name}

DeleteFilter(b, name) ==
  /\ part = "filters" /\ browsers[b].edit = NoEdit /\ Moved /\ OnlyFilters
  /\ LET left == Others(saved, name)
     IN  IF Len(left) = Len(saved) THEN UNCHANGED <<saved, file>> ELSE Persists(left)
  /\ browsers' = [Contested EXCEPT ![b].edit = [at |-> "answered", list |-> saved']]
  /\ kept' = kept \ {name}

\* A save that could not be written: the answer is the same.
SaveUnwritten(b, name) ==
  /\ part = "filters" /\ browsers[b].edit = NoEdit /\ Broke /\ OnlyFilters
  /\ Unwritten(Saves(saved, name))
  /\ browsers' = [Contested EXCEPT ![b].edit = [at |-> "answered", list |-> saved']]
  /\ kept' = Pushed \cup {name}

\* A save or a deletion whose answer does not come: the copy changes, the list may have.
FailEdit(b, copy, list) ==
  /\ part = "filters" /\ browsers[b].edit = NoEdit /\ Broke /\ OnlyFilters
  /\ \/ UNCHANGED <<saved, file, kept>> /\ browsers' = [browsers EXCEPT ![b].copy = copy]
     \/ /\ Persists(list)
        /\ kept' = kept \cap ToSet(list) /\ browsers' = [Contested EXCEPT ![b].copy = copy]

LearnEdit(b) ==
  /\ browsers[b].edit # NoEdit /\ Steady /\ OnlyFilters
  /\ browsers' = [browsers EXCEPT ![b].copy = browsers[b].edit.list, ![b].edit = NoEdit]
  /\ UNCHANGED <<saved, file, kept>>

\* refreshSavedFilters(), when a page is opened: what the last one waited for is forgotten.
OpenPage(b) ==
  /\ part = "filters" /\ Moved /\ OnlyFilters
  /\ browsers' = [browsers EXCEPT ![b].edit = NoEdit,
                                  ![b].refresh = [NoRefresh EXCEPT !.at = "asked", !.copy = browsers[b].copy]]
  /\ UNCHANGED <<saved, file, kept>>

\* The listener's list is read: one that is empty is handed the browser's copy.
FetchList(b) ==
  /\ browsers[b].refresh.at = "asked" /\ Steady /\ OnlyFilters
  /\ browsers' = [browsers EXCEPT ![b].refresh = [@ EXCEPT !.at = "handing", !.list = saved, !.alone = saved = <<>>,
                                                          !.todo = HandBack(saved, browsers[b].refresh.copy)]]
  /\ UNCHANGED <<saved, file, kept>>

HandOne(b) ==
  LET r == browsers[b].refresh
  IN  /\ r.at = "handing" /\ r.todo # <<>> /\ Steady /\ OnlyFilters
      /\ Persists(Saves(saved, Head(r.todo)))
      /\ browsers' = [Contested EXCEPT ![b].refresh = [r EXCEPT !.todo = Tail(@), !.list = saved']]
      /\ kept' = Pushed

\* One that is not taken is passed over.
FailHandOne(b) ==
  LET r == browsers[b].refresh
  IN  /\ r.at = "handing" /\ r.todo # <<>> /\ Broke /\ OnlyFilters
      /\ browsers' = [browsers EXCEPT ![b].refresh = [r EXCEPT !.todo = Tail(@), !.alone = FALSE]]
      /\ UNCHANGED <<saved, file, kept>>

LearnList(b) ==
  LET r == browsers[b].refresh
  IN  /\ r.at = "handing" /\ r.todo = <<>> /\ Steady /\ OnlyFilters
      /\ browsers' = [browsers EXCEPT ![b].copy = r.list, ![b].refresh = NoRefresh]
      /\ UNCHANGED <<saved, file, kept>>

\* The listener's process starts again, with what its file holds.
Restart ==
  /\ part = "filters" /\ Moved /\ OnlyFilters
  /\ saved' = file.list /\ browsers' = Contested
  /\ kept' = IF file.has /\ file.list # saved THEN kept \cap ToSet(file.list) ELSE kept
  /\ UNCHANGED file

FiltersNext ==
  \/ Restart
  \/ \E b \in Browsers :
       \/ LearnEdit(b) \/ OpenPage(b) \/ FetchList(b) \/ HandOne(b) \/ FailHandOne(b) \/ LearnList(b)
       \/ \E name \in Names : \/ SaveFilter(b, name) \/ DeleteFilter(b, name) \/ SaveUnwritten(b, name)
                              \/ FailEdit(b, Saves(browsers[b].copy, name), Saves(saved, name))
                              \/ FailEdit(b, Others(browsers[b].copy, name), Others(saved, name))

-----------------------------------------------------------------------------
Advance ==
  /\ Tick /\ part \in {"remote", "feed", "door", "keys"} /\ (part \in {"remote", "feed"} => now < Soon)
  /\ UNCHANGED <<part, moves, breaks, happened, held, remoteVars, feedVars, doorVars, filterVars>>

Next == HeldNext \/ RemoteNext \/ FeedNext \/ DoorNext \/ FiltersNext \/ Advance

(* Timers fire, events of a connection are told, and a request that was made is *)
(* answered. Nobody has to read, to leave, or to come back. What is fair on one   *)
(* connection is stated together, which assumes less than each step by itself.    *)
Fairness ==
  /\ WF_vars(\E i \in DOMAIN held : Execute(i) \/ Wake(i))
  /\ WF_vars(Redial \/ \E i \in DOMAIN links : OpenLink(i) \/ HearEnd(i) \/ (~links[i].viewer.open /\ BreakLink(i)))
  /\ WF_vars(Request \/ Diagnose \/ Retry \/ Hear \/ End)
  /\ WF_vars(\E i \in DOMAIN streams : Forget(i))
  /\ WF_vars(FinishPass \/ \E list \in Lists : Serve(list) \/ Apply(list))

Spec == Init /\ [][Next]_vars /\ Fairness

-----------------------------------------------------------------------------
(* Properties. *)

\* What a stream owes its reader: what it was sent since it was opened.
Owed(i) == {n \in streams[i].from + 1..happened : n \notin Muted}

\* The page is as up to date as its feed can make it, and shows nothing that failed.
CaughtUp ==
  /\ page.live /\ page.status = "live" /\ at # 0 /\ ~page.loading /\ page.failed = {}
  /\ streams[at].open /\ streams[at].pipe = <<>> /\ streams[at].dropped + streams[at].skipped = 0

Told == page.dropped + page.skipped > 0

Missing(list) == Newest(1..happened, Limit(list)) \ IF list = "all" THEN page.all ELSE page.rows

\* Nothing goes missing untold. A viewer, of the dashboard (dashboard/server.ts writeFrame) or of
\* the management API (management/server.ts onWsConnection), has been sent, is being sent, or is
\* owed the number of, every incident since it came, through full buffers and ended windows; and
\* a page whose feed is live, and has shown nothing dropped, lacks nothing that happened but
\* what was recorded between the answer to a reload and its being applied, or before its first
\* stream was open (dashboard/client/index.ts), what is hidden, and what was searched out.
NothingGoesMissingUntold ==
  /\ \A i \in Viewers :
       Cardinality(Owed(i)) = heard[i] + Stands(streams[i].pipe) + streams[i].dropped + streams[i].skipped
  /\ \A i \in DOMAIN links :
       links[i].state = "open" /\ links[i].viewer.open =>
         happened - links[i].viewer.from =
           links[i].heard + Stands(links[i].viewer.buffered) + links[i].viewer.dropped
  /\ part = "feed" /\ CaughtUp =>
       \A list \in Lists : \A n \in Missing(list) :
         \/ n \in raced[list] \cup Muted
         \/ n \in lost /\ Told
         \/ list = "rows" /\ n \in unmatched

\* stream.ts:22, "The page never quietly shows a picture with a hole in it": a page up to date that
\* has told of nothing dropped lacks none of the newest incidents that are not hidden.
NoQuietHole == part = "feed" /\ CaughtUp /\ ~Told => Missing("all") \subseteq Muted

\* The failed attempts of an address at a door that count: those after its last success.
Failures(door, p) ==
  {i \in DOMAIN tries : /\ tries[i].door = door /\ tries[i].who = p /\ ~tries[i].ok
                        /\ \A j \in i + 1..Len(tries) : tries[j].door = door /\ tries[j].who = p => ~tries[j].ok}

\* Others that failed between two attempts: as many as are remembered push an address out.
Between(i, j) == {tries[k].who : k \in {k \in i + 1..j - 1 : tries[k].door = "dashboard" /\ ~tries[k].ok}}

\* The failure after one of them that counts; and whether the first must still be remembered then.
NextFailure(p, i) ==
  LET later == {j \in Failures("dashboard", p) : j > i} IN IF later = {} THEN Len(tries) + 1 ELSE Min(later)

Linked(p, i) ==
  LET j == NextFailure(p, i)
  IN  /\ Cardinality(Between(i, j)) < MaxThrottled
      /\ j <= Len(tries) => tries[j].at - tries[i].at < 2 * MaxLockout

\* Those of them that must still be remembered when the last came.
Remembered(p) ==
  LET all == Failures("dashboard", p) IN {i \in all : \A j \in all : j >= i => Linked(p, j)}

Due(failures) == Min({MaxLockout, Doubled(failures - MaxAttempts)})

\* The deployments and requests the endpoints are looked at for.
Deployments ==
  [bind : {"loopback", "mounted"}, base : {<<>>}, hosts : {{}}, clients : {{}}, auth : {"unset", "open", "token"},
   refusal : Refusals, sections : SUBSET {"incidents", "overview", "intel"}, controls : SUBSET {"previewPolicy", "editPolicy"},
   credentials : BOOLEAN, mask : BOOLEAN, engine : {TRUE}]
Visits ==
  [path : {<<e>> : e \in DOMAIN OneOf \cup DOMAIN Power} \cup {<<>>}, method : {"GET", "POST"}, payload : {"good"},
   peer : {"someone"}, host : {"localhost", "elsewhere"}, site : {"none-sent", "cross-site"}, origin : {"none-sent"},
   found : {TRUE}, reached : {TRUE}]

\* What a section, a redaction or a control withholds is in no answer.
Withheld ==
  \A o \in Deployments : Starts(o) =>
    /\ \A r \in Visits :
         LET given == Routed(o, r, FALSE, TRUE)
         IN  /\ "captured" \in given.says => "incidents" \in o.sections
             /\ "credentials" \in given.says => ~o.credentials
             /\ "addresses" \in given.says => ~o.mask
             /\ o.sections = {} => given.says \subseteq {"requests", "addresses"}
             /\ given.applies => "editPolicy" \in o.controls /\ Authenticates(o.auth) # "open" /\ r.method = "POST"
    /\ o.refusal # "unauthorized" =>
         Cardinality({Routed(o, x[1], x[2], FALSE) : x \in Visits \X BOOLEAN}) = 1

\* The doors hold. An address that has failed too often at the dashboard
\* (dashboard/server.ts createAuthThrottle) is locked for a time that doubles with every failure
\* that followed, however many attempts were already being looked at, and nobody is locked
\* who has not failed that often; at the management API (recordAuthFailure) the failures of a
\* window are counted exactly; and what a deployment withholds is in no answer.
DoorsHold ==
  part \in {"door", "keys"} =>
    /\ Withheld
    /\ \A p \in Peers :
         LET all == Failures("dashboard", p)
             n   == Cardinality(Remembered(p))
         IN  /\ n >= MaxAttempts /\ now < tries[Max(all)].at + Due(n) => Locked(throttle, p, now)
             /\ Locked(throttle, p, now) => Cardinality(all) >= MaxAttempts /\ now < tries[Max(all)].at + MaxLockout
             /\ TooManyAuthFailures(guesses[p], now) <=>
                  Cardinality({i \in DOMAIN tries : /\ tries[i].door = "management" /\ tries[i].who = p
                                                    /\ ~tries[i].ok /\ now - tries[i].at < AuthWindow}) >= AuthFailures

\* Saved filters are kept (dashboard/saved-filters.ts, client/saved.ts). What somebody saved and
\* nobody deleted is listed by a listener that has a file, over restarts and whatever stale
\* copies browsers hold, unless newer ones have pushed it out; and a browser alone in
\* handing its copy to a listener that came up empty restores it as it was, the newest first.
FiltersKept ==
  part = "filters" =>
    /\ file.has => kept \subseteq ToSet(saved)
    /\ \A b \in Browsers :
         LET r == browsers[b].refresh
         IN  r.at = "handing" /\ r.alone => saved = SubSeq(r.copy, Len(r.todo) + 1, Len(r.copy))

\* Every wait comes to an end. A held response whose client has gone gives its slot back, and
\* fetch() gets its Response while the client is there (actions/*.ts, adapters/fetch.ts); a page
\* that wants the feed has it again after every break and refusal, and a reload ends
\* (client/stream.ts, client/index.ts); the remote source has a link again while anybody listens
\* (dashboard/source.ts).
WaitsEnd ==
  /\ \A i \in 1..MaxAsks :
       /\ (i \in DOMAIN held /\ held[i].client = "gone") ~> (i \in DOMAIN held /\ ~Waiting(held[i]))
       /\ (i \in DOMAIN held /\ held[i].host = "fetch") ~>
            (i \in DOMAIN held /\ (held[i].told # "nothing" \/ held[i].client = "gone"))
  /\ (part = "feed" /\ page.live) ~> (page.status = "live" \/ ~page.live)
  /\ (part = "feed" /\ page.loading) ~> ~page.loading
  /\ (part = "remote" /\ remote.listeners > 0) ~>
       (remote.listeners = 0 \/ \E i \in DOMAIN links : links[i].state = "open")
=============================================================================
