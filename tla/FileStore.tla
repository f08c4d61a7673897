---- MODULE FileStore ----
(* The file-backed hit store: FileStore (src/src/stores/file.ts) over        *)
(* RotatingJsonlWriter (src/src/stores/archive.ts).  Appends are queued and  *)
(* written in batches by one drain at a time; the live segment rolls into an *)
(* archive when it is full, and the score ledger is checkpointed right after *)
(* a roll so that "checkpoint + live segment" rebuilds it at the next start. *)
(*                                                                           *)
(* Every await of drain() and rotate() is a place where the process may be   *)
(* elsewhere, so each is a phase of the drain; the code between two awaits   *)
(* is one action.  A line is the hit it carries and a byte is a line.        *)
EXTENDS ScoreLedger, FiniteSets

CONSTANTS MaxPending,   \* maxPendingLines: lines the buffer holds
          MaxLines,     \* maxBytes: lines that fill the live segment, 0 never rolls
          MaxArchives,  \* archives kept, 0 keeps them all
          AgePruned,    \* maxArchiveAgeMs is set, so old archives may go too
          Faults,       \* what may fail: see FaultKinds
          MaxRestarts,  \* bound: restarts explored
          Cut, Garbage  \* what carries no hit: a line a crash cut short, and the
                        \* unparsable line the next append makes of it

FaultKinds == {"open", "write", "close", "rename", "reopen", "checkpoint",
               "compress", "crash", "torn"}

ASSUME StoreAssumption ==
  /\ MaxPending \in Nat \ {0} /\ MaxLines \in Nat /\ MaxArchives \in Nat
  /\ Hits \subseteq Nat /\ Cut \notin Hits /\ Garbage \notin Hits /\ Cut # Garbage
  /\ AgePruned \in BOOLEAN /\ Faults \subseteq FaultKinds /\ MaxRestarts \in Nat

VARIABLES up,          \* the process runs
          phase,       \* where the drain is
          pending,     \* writer: lines queued, not yet taken by a drain
          batch,       \* drain: the lines being written
          inFlight,    \* store: scores waiting to be moved into the ledger
          settled,     \* what became of each record() call
          closed,      \* writer: close() was called
          handle,      \* writer: the live segment is open
          liveBytes,   \* writer: how full it believes the live segment is
          ledger,      \* store: scores in memory
          live,        \* disk: lines of the live segment
          archives,    \* disk: rolled segments, newest first
          checkpoint,  \* disk: the ledger saved at the last roll
          restarts,    \* restarts so far
          written,     \* ghost: every line ever written, in order
          intact       \* ghost: none of the lapses below has happened

vars == <<up, phase, pending, batch, inFlight, settled, closed, handle, liveBytes,
          ledger, live, archives, checkpoint, restarts, written, intact>>

Phases == {"idle", "opening", "writing", "closing", "reopening", "compressing", "ending"}

Outcomes == {"idle", "waiting", "written", "dropped", "failed", "refused", "lost"}

Lines == Hits \union {Cut, Garbage}

(* ------------------------------- mutants ------------------------------- *)

\* replay() reads the live segment only.
ReplayedLive == AddAll(<<>>, live)
\* The finally of schedule() starts no drain for what was queued meanwhile.
ReschedulesNever == FALSE
\* commitScores leaves the committed scores in its queue.
RemainingAll(count) == inFlight
\* commitScores takes the newest scores instead of the oldest.
CommittedLast(count) == SubSeq(inFlight, Len(inFlight) - count + 1, Len(inFlight))
(* ----------------------------------------------------------------------- *)

\* replay(): the checkpoint first, then every line of the live segment that
\* parses.
Replayed == AddAll(Seed(<<>>, checkpoint), live)

\* The ledger a store would hold that had never lost or misplaced a line.
History == AddAll(<<>>, written)

Init ==
  /\ up = TRUE /\ phase = "idle" /\ closed = FALSE /\ handle = FALSE
  /\ pending = <<>> /\ batch = <<>> /\ inFlight = <<>>
  /\ settled = [h \in Hits |-> "idle"]
  /\ liveBytes = 0 /\ ledger = <<>>
  /\ live = <<>> /\ archives = <<>> /\ checkpoint = <<>>
  /\ restarts = 0 /\ written = <<>> /\ intact = TRUE

disk == <<live, archives, checkpoint>>

(* ------------------------------ the drain ------------------------------ *)

\* drain() takes what is queued as its next batch; with the handle open the
\* write starts at once.
Take(queue, open) ==
  /\ batch' = queue /\ pending' = <<>>
  /\ phase' = IF open THEN "writing" ELSE "opening"

\* The while loop of drain(): another batch, or out.
Continue(open) ==
  IF Len(pending) > 0 THEN Take(pending, open)
  ELSE phase' = "ending" /\ batch' = <<>> /\ UNCHANGED pending

\* The .finally of schedule(): a new drain for what was queued meanwhile,
\* unless the writer was closed.
Reschedules == Len(pending) > 0 /\ ~closed

DrainEnds ==
  /\ up /\ phase = "ending"
  /\ IF Reschedules THEN Take(pending, handle)
     ELSE phase' = "idle" /\ UNCHANGED <<pending, batch>>
  /\ UNCHANGED <<up, inFlight, settled, closed, handle, liveBytes, ledger, disk,
                 restarts, written, intact>>

\* Hits are recorded in the order of their numbers.
IsNext(h) == settled[h] = "idle" /\ \A g \in Hits : g < h => settled[g] # "idle"

\* append(): at the cap the oldest queued line goes, and onDrop drops the head
\* of the store's own queue.  While a batch is being written that head belongs
\* to the batch, so the two queues no longer match: a lapse.
Full == Len(pending) >= MaxPending
Queued(h) == Append(IF Full THEN Tail(pending) ELSE pending, h)
Mirrored(h) == LET q == Append(inFlight, h) IN IF Full THEN Tail(q) ELSE q

Record(h) ==
  /\ up /\ ~closed /\ IsNext(h)
  /\ inFlight' = Mirrored(h)
  /\ settled' = [settled EXCEPT ![h] = "waiting",
                                ![IF Full THEN Head(pending) ELSE h] =
                                   IF Full THEN "dropped" ELSE "waiting"]
  /\ intact' = (intact /\ ~(Full /\ Len(batch) > 0))
  /\ IF phase = "idle" THEN Take(Queued(h), handle)
     ELSE pending' = Queued(h) /\ UNCHANGED <<batch, phase>>
  /\ UNCHANGED <<up, closed, handle, liveBytes, ledger, disk, restarts, written>>

\* record() on a closed writer: the score was queued before append() refused.
RecordRefused(h) ==
  /\ up /\ closed /\ IsNext(h)
  /\ inFlight' = Append(inFlight, h)
  /\ settled' = [settled EXCEPT ![h] = "refused"]
  /\ UNCHANGED <<up, phase, pending, batch, closed, handle, liveBytes, ledger, disk,
                 restarts, written, intact>>

Open ==
  /\ up /\ phase = "opening"
  /\ handle' = TRUE /\ phase' = "writing"
  /\ UNCHANGED <<up, pending, batch, inFlight, settled, closed, liveBytes, ledger,
                 disk, restarts, written, intact>>

EndsCut == Len(live) > 0 /\ Last(live) = Cut

\* What the segment holds after lines are appended: a line cut short by a
\* crash is continued by the first of them.
Appended(lines) ==
  IF EndsCut /\ Len(lines) > 0
  THEN Front(live) \o <<Garbage>> \o Tail(lines)
  ELSE live \o lines

\* commitScores: the oldest `count` queued scores are the batch just written.
Committed(count) == SubSeq(inFlight, 1, count)
Remaining(count) == SubSeq(inFlight, count + 1, Len(inFlight))

Fills == MaxLines > 0 /\ liveBytes' >= MaxLines

Write ==
  /\ up /\ phase = "writing"
  /\ live' = Appended(batch) /\ written' = written \o batch
  /\ liveBytes' = liveBytes + Len(batch)
  /\ ledger' = AddAll(ledger, Committed(Len(batch)))
  /\ inFlight' = Remaining(Len(batch))
  /\ settled' = [h \in Hits |-> IF h \in ToSet(batch) THEN "written" ELSE settled[h]]
  /\ intact' = (intact /\ ~EndsCut)
  /\ IF Fills THEN phase' = "closing" /\ batch' = <<>> /\ UNCHANGED pending
     ELSE Continue(TRUE)
  /\ UNCHANGED <<up, closed, handle, archives, checkpoint, restarts>>

\* open or write rejects: the batch is lost to its callers, and its scores
\* stay at the head of the store's queue: a lapse.
WriteFails ==
  /\ up
  /\ \/ phase = "opening" /\ "open" \in Faults
     \/ phase = "writing" /\ "write" \in Faults
  /\ settled' = [h \in Hits |-> IF h \in ToSet(batch) THEN "failed" ELSE settled[h]]
  /\ batch' = <<>> /\ phase' = "ending" /\ intact' = FALSE
  /\ UNCHANGED <<up, pending, inFlight, closed, handle, liveBytes, ledger, disk,
                 restarts, written>>

(* ------------------------------- rotate -------------------------------- *)

\* Close the segment and rename it away; the new one is not open yet.
Roll ==
  /\ up /\ phase = "closing"
  /\ archives' = <<live>> \o archives /\ live' = <<>>
  /\ handle' = FALSE /\ liveBytes' = 0 /\ phase' = "reopening"
  /\ UNCHANGED <<up, pending, batch, inFlight, settled, closed, ledger, checkpoint,
                 restarts, written, intact>>

\* The close or the rename rejects: the segment stays, believed empty.
RollFails ==
  /\ up /\ phase = "closing"
  /\ \/ "close" \in Faults /\ handle' = handle
     \/ "rename" \in Faults /\ handle' = FALSE
  /\ liveBytes' = 0 /\ Continue(handle')
  /\ UNCHANGED <<up, inFlight, settled, closed, ledger, disk, restarts, written, intact>>

\* Reopen and, while the segment is empty, writeCheckpoint().  A checkpoint
\* that fails is swallowed: what was rolled is lost to the next start, a lapse.
Saved == ledger

Reopen ==
  /\ up /\ phase = "reopening"
  /\ handle' = TRUE /\ phase' = "compressing"
  /\ \/ checkpoint' = Saved /\ intact' = intact
     \/ "checkpoint" \in Faults /\ checkpoint' = checkpoint /\ intact' = FALSE
  /\ UNCHANGED <<up, pending, batch, inFlight, settled, closed, liveBytes, ledger,
                 live, archives, restarts, written>>

\* The new segment cannot be opened: no checkpoint either, a lapse.
ReopenFails ==
  /\ up /\ phase = "reopening" /\ "reopen" \in Faults
  /\ liveBytes' = 0 /\ intact' = FALSE /\ Continue(FALSE)
  /\ UNCHANGED <<up, inFlight, settled, closed, handle, ledger, disk, restarts, written>>

\* prune(): by age, then by number, oldest first.
Kept(young) == SubSeq(archives, 1, IF MaxArchives = 0 \/ young < MaxArchives THEN young
                                   ELSE MaxArchives)

Compress ==
  /\ up /\ phase = "compressing"
  /\ \E young \in 0..Len(archives) :
       /\ ~AgePruned => young = Len(archives)
       /\ archives' = Kept(young)
  /\ Continue(handle)
  /\ UNCHANGED <<up, inFlight, settled, closed, handle, liveBytes, ledger, live,
                 checkpoint, restarts, written, intact>>

CompressFails ==
  /\ up /\ phase = "compressing" /\ "compress" \in Faults
  /\ liveBytes' = 0 /\ Continue(handle)
  /\ UNCHANGED <<up, inFlight, settled, closed, handle, ledger, disk, restarts,
                 written, intact>>

(* ---------------------- close, crash and restart ----------------------- *)

Close ==
  /\ up /\ ~closed /\ closed' = TRUE
  /\ UNCHANGED <<up, phase, pending, batch, inFlight, settled, handle, liveBytes,
                 ledger, disk, restarts, written, intact>>

\* close() awaited the drain and lets go of the file.
Release ==
  /\ up /\ closed /\ phase = "idle" /\ handle /\ handle' = FALSE
  /\ UNCHANGED <<up, phase, pending, batch, inFlight, settled, closed, liveBytes,
                 ledger, disk, restarts, written, intact>>

\* What a crash during a write may leave: some of the lines, the last of them
\* possibly cut short.
Torn(count) == /\ "torn" \in Faults /\ count < Len(batch)
               /\ live' = IF count = 0 /\ EndsCut THEN live
                          ELSE Appended(SubSeq(batch, 1, count)) \o <<Cut>>

\* The process ends: at rest after close(), or anywhere.  Before the
\* checkpoint of a roll is saved, that is a lapse.
Stop ==
  /\ up
  /\ "crash" \in Faults \/ (closed /\ phase = "idle" /\ ~handle)
  /\ up' = FALSE /\ phase' = "idle" /\ handle' = FALSE
  /\ pending' = <<>> /\ batch' = <<>> /\ inFlight' = <<>> /\ ledger' = <<>>
  /\ settled' = [h \in Hits |-> IF settled[h] = "waiting" THEN "lost" ELSE settled[h]]
  /\ \E count \in 0..(IF phase = "writing" THEN Len(batch) ELSE 0) :
       /\ live' = Appended(SubSeq(batch, 1, count)) \/ Torn(count)
       /\ written' = written \o SubSeq(batch, 1, count)
       /\ intact' = (intact /\ phase # "reopening"
                            /\ ~(count > 0 /\ EndsCut))
  /\ UNCHANGED <<closed, liveBytes, archives, checkpoint, restarts>>

\* The constructor: replay(), and a writer that sizes the file it finds.
Restart ==
  /\ ~up /\ restarts < MaxRestarts /\ restarts' = restarts + 1
  /\ up' = TRUE /\ closed' = FALSE
  /\ ledger' = Replayed /\ liveBytes' = Len(live)
  /\ UNCHANGED <<phase, pending, batch, inFlight, settled, handle, disk, written, intact>>

Next ==
  \/ \E h \in Hits : Record(h) \/ RecordRefused(h)
  \/ Open \/ Write \/ WriteFails \/ DrainEnds
  \/ Roll \/ RollFails \/ Reopen \/ ReopenFails \/ Compress \/ CompressFails
  \/ Close \/ Release \/ Stop \/ Restart

Spec == Init /\ [][Next]_vars

\* Node settles every file operation it started and runs every continuation.
DrainSteps == \/ Open \/ Write \/ WriteFails \/ DrainEnds \/ Roll \/ RollFails
              \/ Reopen \/ ReopenFails \/ Compress \/ CompressFails

FairSpec == Spec /\ WF_vars(DrainSteps)

(* ----------------------------- properties ------------------------------ *)

\* Every variable has its type, the writer's buffer never passes its cap, and
\* a batch is held exactly while it is being written.
TypeOK ==
  /\ up \in BOOLEAN /\ closed \in BOOLEAN /\ handle \in BOOLEAN /\ intact \in BOOLEAN
  /\ phase \in Phases
  /\ pending \in Seq(Hits) /\ batch \in Seq(Hits) /\ inFlight \in Seq(Hits)
  /\ Len(pending) <= MaxPending
  /\ (Len(batch) > 0) <=> (phase \in {"opening", "writing"})
  /\ settled \in [Hits -> Outcomes]
  /\ live \in Seq(Lines) /\ archives \in Seq(Seq(Lines)) /\ written \in Seq(Hits)
  /\ liveBytes \in Nat /\ restarts \in 0..MaxRestarts

\* Until a lapse, the store's queue of scores starts with the lines of the
\* writer: the batch being written, then what is queued (file.ts:55-60).
Mirrors ==
  up /\ intact =>
    /\ Len(batch) + Len(pending) <= Len(inFlight)
    /\ \A i \in 1..(Len(batch) + Len(pending)) : inFlight[i] = (batch \o pending)[i]

\* Until a lapse, the scores a finished write will commit are those of the
\* lines it wrote: commitScores counts and never compares (file.ts:224-227).
CommitsTheBatch ==
  up /\ intact /\ phase = "writing" => Committed(Len(batch)) = batch

\* Until a lapse, the scores in memory are those of the lines on disk, in the
\* order they were written, across rolls, restarts and evictions: scoreFor
\* never runs ahead of the evidence and never behind it.
LedgerIsDurable == up /\ intact => ledger = History

\* Until a lapse, a start at any moment rebuilds the very ledger that was
\* there, recency included; between the rename and the checkpoint of a roll
\* it would not (replay, file.ts:154-191).
RestartKeepsScores == intact /\ phase # "reopening" => Replayed = History

\* Whoever awaits record() is answered, unless the writer is closed under it:
\* a drain that ended, well or badly, is followed by another.
RecordSettles ==
  \A h \in Hits : settled[h] = "waiting" ~> (settled[h] # "waiting" \/ closed)

====
