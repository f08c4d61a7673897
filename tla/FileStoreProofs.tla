---- MODULE FileStoreProofs ----
(* What FileStore guarantees for every number of hits, every cap and every   *)
(* combination of faults.                                                    *)
EXTENDS FileStore, DataTheorems

LEMMA AppendedType ==
  ASSUME live \in Seq(Lines), NEW lines \in Seq(Hits)
  PROVE  Appended(lines) \in Seq(Lines)
<1>1. lines \in Seq(Lines)
  BY DEF Lines
<1>2. CASE EndsCut /\ Len(lines) > 0
  <2>1. Front(live) \in Seq(Lines)
    BY <1>2, SubSeqProperties, ElementOfSeq, LenProperties DEF Front, EndsCut
  <2>2. <<Garbage>> \in Seq(Lines)
    BY DEF Lines
  <2>3. Tail(lines) \in Seq(Lines)
    BY <1>1, <1>2
  <2> QED
    BY <1>2, <2>1, <2>2, <2>3 DEF Appended
<1>3. CASE ~(EndsCut /\ Len(lines) > 0)
  BY <1>1, <1>3 DEF Appended
<1> QED
  BY <1>2, <1>3

LEMMA Empty ==
  /\ <<>> \in Seq(Hits) /\ <<>> \in Seq(Lines) /\ <<>> \in Seq(Seq(Lines))
  /\ Len(<<>>) = 0
BY EmptySeq

LEMMA PartType ==
  ASSUME NEW S, NEW s \in Seq(S), NEW count \in 0..Len(s)
  PROVE  SubSeq(s, 1, count) \in Seq(S)
BY SubSeqProperties, ElementOfSeq

\* A variable keeps its type in every step of every behaviour, whatever fails:
\* in particular the buffer never passes its cap and a batch is never left over.
THEOREM TypeCorrect == Spec => []TypeOK
<1>1. Init => TypeOK
  <2> SUFFICES ASSUME Init PROVE TypeOK
    OBVIOUS
  <2>1. settled \in [Hits -> Outcomes]
    BY DEF Init, Outcomes
  <2>2. /\ Len(pending) <= MaxPending /\ restarts \in 0..MaxRestarts /\ liveBytes \in Nat
        /\ (Len(batch) > 0) <=> (phase \in {"opening", "writing"})
    BY StoreAssumption, Empty DEF Init
  <2>3. /\ pending \in Seq(Hits) /\ batch \in Seq(Hits) /\ inFlight \in Seq(Hits)
        /\ live \in Seq(Lines) /\ archives \in Seq(Seq(Lines)) /\ written \in Seq(Hits)
    BY Empty DEF Init
  <2> QED
    BY <2>1, <2>2, <2>3 DEF Init, TypeOK, Phases
<1>2. TypeOK /\ [Next]_vars => TypeOK'
  <2> SUFFICES ASSUME TypeOK, [Next]_vars PROVE TypeOK'
    OBVIOUS
  <2> USE StoreAssumption
  <2>1. ASSUME NEW h \in Hits, Record(h) PROVE TypeOK'
    <3>1. Queued(h) \in Seq(Hits) /\ Len(Queued(h)) > 0 /\ Len(Queued(h)) <= MaxPending
      <4>1. CASE Full
        <5>1. pending # <<>>
          BY <4>1, Empty DEF Full, TypeOK
        <5>2. Tail(pending) \in Seq(Hits) /\ Len(Tail(pending)) = Len(pending) - 1
          BY <5>1, HeadTailProperties DEF TypeOK
        <5> QED
          BY <4>1, <5>2 DEF Queued, TypeOK
      <4>2. CASE ~Full
        BY <4>2 DEF Queued, Full, TypeOK
      <4> QED
        BY <4>1, <4>2
    <3>2. inFlight' \in Seq(Hits)
      <4>1. Append(inFlight, h) \in Seq(Hits) /\ Append(inFlight, h) # <<>>
        <5>1. inFlight \in Seq(Hits)
          BY DEF TypeOK
        <5> QED
          BY <5>1, AppendProperties
      <4> QED
        BY <2>1, <4>1, HeadTailProperties DEF Record, Mirrored
    <3>3. settled' \in [Hits -> Outcomes]
      BY <2>1 DEF Record, TypeOK, Outcomes
    <3>4. /\ pending' \in Seq(Hits) /\ batch' \in Seq(Hits)
          /\ Len(pending') <= MaxPending /\ phase' \in Phases
          /\ (Len(batch') > 0) <=> (phase' \in {"opening", "writing"})
      BY <2>1, <3>1, Empty DEF Record, Take, TypeOK, Phases
    <3> QED
      BY <2>1, <3>2, <3>3, <3>4 DEF Record, TypeOK, disk
  <2>2. ASSUME NEW h \in Hits, RecordRefused(h) PROVE TypeOK'
    BY <2>2 DEF RecordRefused, TypeOK, disk, Outcomes
  <2>3. CASE Open
    BY <2>3 DEF Open, TypeOK, disk, Phases
  <2>4. ASSUME NEW open \in BOOLEAN, Continue(open)
        PROVE  /\ pending' \in Seq(Hits) /\ batch' \in Seq(Hits)
               /\ Len(pending') <= MaxPending /\ phase' \in Phases
               /\ (Len(batch') > 0) <=> (phase' \in {"opening", "writing"})
    <3>1. CASE Len(pending) > 0
      BY <2>4, <3>1, Empty DEF Continue, Take, TypeOK, Phases
    <3>2. CASE ~(Len(pending) > 0)
      BY <2>4, <3>2, Empty DEF Continue, TypeOK, Phases
    <3> QED
      BY <3>1, <3>2
  <2>5. CASE Write
    <3>1. live' \in Seq(Lines)
      BY <2>5, AppendedType DEF Write, TypeOK
    <3>2. written' \in Seq(Hits) /\ liveBytes' \in Nat /\ intact' \in BOOLEAN
      BY <2>5 DEF Write, TypeOK
    <3>3. settled' \in [Hits -> Outcomes]
      BY <2>5 DEF Write, TypeOK, Outcomes
    <3>4. inFlight' \in Seq(Hits)
      BY <2>5, SubSeqProperties, ElementOfSeq DEF Write, Remaining, TypeOK
    <3>5. /\ pending' \in Seq(Hits) /\ batch' \in Seq(Hits)
          /\ Len(pending') <= MaxPending /\ phase' \in Phases
          /\ (Len(batch') > 0) <=> (phase' \in {"opening", "writing"})
      <4>1. CASE Fills
        BY <2>5, <4>1, Empty DEF Write, TypeOK, Phases
      <4>2. CASE ~Fills
        BY <2>5, <4>2, <2>4 DEF Write
      <4> QED
        BY <4>1, <4>2
    <3> QED
      BY <2>5, <3>1, <3>2, <3>3, <3>4, <3>5 DEF Write, TypeOK
  <2>6. CASE WriteFails
    <3>1. settled' \in [Hits -> Outcomes]
      BY <2>6 DEF WriteFails, TypeOK, Outcomes
    <3>2. batch' \in Seq(Hits) /\ ~(Len(batch') > 0) /\ phase' = "ending"
      BY <2>6, Empty DEF WriteFails
    <3> QED
      BY <2>6, <3>1, <3>2 DEF WriteFails, TypeOK, disk, Phases
  <2>7. CASE DrainEnds
    BY <2>7, Empty DEF DrainEnds, Reschedules, Take, TypeOK, disk, Phases
  <2>8. CASE Roll
    <3>1. live' \in Seq(Lines) /\ archives' \in Seq(Seq(Lines))
      BY <2>8, Empty DEF Roll, TypeOK
    <3> QED
      BY <2>8, <3>1 DEF Roll, TypeOK, Phases
  <2>9. CASE RollFails
    <3>1. handle' \in BOOLEAN
      BY <2>9 DEF RollFails, TypeOK
    <3> QED
      BY <2>9, <3>1, <2>4 DEF RollFails, TypeOK, disk
  <2>10. CASE Reopen
    BY <2>10 DEF Reopen, TypeOK, disk, Phases
  <2>11. CASE ReopenFails
    BY <2>11, <2>4 DEF ReopenFails, TypeOK, disk
  <2>12. CASE Compress
    <3>1. archives' \in Seq(Seq(Lines))
      <4>1. PICK young \in 0..Len(archives) : archives' = Kept(young)
        BY <2>12 DEF Compress
      <4>2. (IF MaxArchives = 0 \/ young < MaxArchives THEN young ELSE MaxArchives)
            \in 0..Len(archives)
        BY <4>1, LenProperties DEF TypeOK
      <4> QED
        BY <4>1, <4>2, PartType DEF Kept, TypeOK
    <3> QED
      BY <2>12, <3>1, <2>4 DEF Compress, TypeOK, disk
  <2>13. CASE CompressFails
    BY <2>13, <2>4 DEF CompressFails, TypeOK, disk
  <2>14. CASE Close
    BY <2>14 DEF Close, TypeOK, disk
  <2>15. CASE Release
    BY <2>15 DEF Release, TypeOK, disk
  <2>16. CASE Stop
    <3>1. PICK count \in 0..(IF phase = "writing" THEN Len(batch) ELSE 0) :
            /\ live' = Appended(SubSeq(batch, 1, count)) \/ Torn(count)
            /\ written' = written \o SubSeq(batch, 1, count)
            /\ intact' = (intact /\ phase # "reopening" /\ ~(count > 0 /\ EndsCut))
      BY <2>16 DEF Stop
    <3>2. SubSeq(batch, 1, count) \in Seq(Hits)
      BY PartType DEF TypeOK
    <3>3. Appended(SubSeq(batch, 1, count)) \in Seq(Lines)
      BY <3>2, AppendedType DEF TypeOK
    <3>4. live' \in Seq(Lines)
      <4>1. <<Cut>> \in Seq(Lines)
        BY DEF Lines
      <4>2. Appended(SubSeq(batch, 1, count)) \o <<Cut>> \in Seq(Lines)
        BY <3>3, <4>1, ConcatProperties
      <4> QED
        BY <3>1, <3>3, <4>2 DEF Torn, TypeOK
    <3>5. written' \in Seq(Hits) /\ intact' \in BOOLEAN
      BY <3>1, <3>2 DEF TypeOK
    <3>6. settled' \in [Hits -> Outcomes]
      BY <2>16 DEF Stop, TypeOK, Outcomes
    <3>7. /\ pending' \in Seq(Hits) /\ batch' \in Seq(Hits) /\ inFlight' \in Seq(Hits)
          /\ Len(pending') <= MaxPending /\ ~(Len(batch') > 0) /\ phase' = "idle"
      BY <2>16, Empty DEF Stop
    <3> QED
      BY <2>16, <3>4, <3>5, <3>6, <3>7 DEF Stop, TypeOK, Phases
  <2>17. CASE Restart
    <3>1. liveBytes' \in Nat
      BY <2>17, LenProperties DEF Restart, TypeOK
    <3>2. restarts' \in 0..MaxRestarts
      BY <2>17 DEF Restart, TypeOK
    <3> QED
      BY <2>17, <3>1, <3>2 DEF Restart, TypeOK, disk
  <2>18. CASE UNCHANGED vars
    BY <2>18 DEF vars, TypeOK
  <2> QED
    BY <2>1, <2>2, <2>3, <2>5, <2>6, <2>7, <2>8, <2>9, <2>10, <2>11, <2>12, <2>13,
       <2>14, <2>15, <2>16, <2>17, <2>18 DEF Next
<1> QED
  BY <1>1, <1>2, PTL DEF Spec

(* ------------------------ the two queues agree ------------------------- *)

\* Mirrors is not inductive as it stands: appending to both queues keeps them
\* aligned only if the store's has nothing behind, which holds until the writer
\* is closed; and a restart starts from what a stopped process leaves.
Aligned(f, b, q) ==
  /\ Len(b) + Len(q) <= Len(f)
  /\ \A i \in 1..(Len(b) + Len(q)) : f[i] = (b \o q)[i]

QueueInv ==
  /\ up /\ intact => /\ Aligned(inFlight, batch, pending)
                     /\ ~closed => Len(inFlight) = Len(batch) + Len(pending)
  /\ ~up => Len(inFlight) = 0 /\ Len(batch) = 0 /\ Len(pending) = 0

LEMMA MirrorsIsAligned == Mirrors <=> (up /\ intact => Aligned(inFlight, batch, pending))
BY DEF Mirrors, Aligned

\* The whole queue moved into the batch, or not: the lines it has are the same.
LEMMA Moved ==
  ASSUME pending \in Seq(Hits),
         \/ batch' = pending /\ pending' = <<>>
         \/ batch' = <<>> /\ pending' = pending
  PROVE  batch' \o pending' = pending /\ Len(batch') + Len(pending') = Len(pending)
BY ConcatEmptySeq, Empty

LEMMA ContinueMoves ==
  ASSUME pending \in Seq(Hits), NEW open, Continue(open)
  PROVE  \/ batch' = pending /\ pending' = <<>>
         \/ batch' = <<>> /\ pending' = pending
BY DEF Continue, Take

\* With no batch out, taking one leaves the queues aligned.
LEMMA ContinueKeeps ==
  ASSUME TypeOK, QueueInv, Len(batch) = 0, UNCHANGED <<up, closed, inFlight>>,
         intact' => intact,
         up,
         \/ batch' = pending /\ pending' = <<>>
         \/ batch' = <<>> /\ pending' = pending
  PROVE  QueueInv'
<1>1. batch' \o pending' = pending /\ Len(batch') + Len(pending') = Len(pending)
  BY Moved DEF TypeOK
<1>2. batch \o pending = pending
  BY EmptySeq, ConcatEmptySeq DEF TypeOK
<1>3. intact' => Aligned(inFlight', batch', pending')
  BY <1>1, <1>2 DEF Aligned, QueueInv
<1> QED
  BY <1>1, <1>3 DEF QueueInv

\* Appending a line to both queues, dropping the oldest of each when the buffer
\* is full and no batch is out, keeps them aligned.
LEMMA RecordKeeps ==
  ASSUME TypeOK, NEW h \in Hits, ~Full \/ Len(batch) = 0,
         Aligned(inFlight, batch, pending),
         Len(inFlight) = Len(batch) + Len(pending)
  PROVE  /\ Queued(h) \in Seq(Hits)
         /\ Aligned(Mirrored(h), batch, Queued(h))
         /\ Len(Mirrored(h)) = Len(batch) + Len(Queued(h))
<1> DEFINE q == Append(inFlight, h)
<1>1. /\ q \in Seq(Hits) /\ Len(q) = Len(inFlight) + 1
      /\ q[Len(inFlight) + 1] = h
      /\ \A i \in 1..Len(inFlight) : q[i] = inFlight[i]
  <2>1. inFlight \in Seq(Hits)
    BY DEF TypeOK
  <2> QED
    BY <2>1, AppendProperties, LenProperties
<1>2. CASE ~Full
  <2>1. Queued(h) = Append(pending, h) /\ Mirrored(h) = q
    BY <1>2 DEF Queued, Mirrored
  <2>2. /\ Queued(h) \in Seq(Hits) /\ Len(Queued(h)) = Len(pending) + 1
        /\ Queued(h)[Len(pending) + 1] = h
        /\ \A i \in 1..Len(pending) : Queued(h)[i] = pending[i]
    BY <2>1, AppendProperties DEF TypeOK
  <2>3. ASSUME NEW i \in 1..(Len(batch) + Len(Queued(h)))
        PROVE  q[i] = (batch \o Queued(h))[i]
    <3>1. (batch \o Queued(h))[i] = IF i <= Len(batch) THEN batch[i]
                                    ELSE Queued(h)[i - Len(batch)]
      BY <2>2, ConcatProperties DEF TypeOK
    <3>2. CASE i <= Len(inFlight)
      <4>1. (batch \o pending)[i] = IF i <= Len(batch) THEN batch[i]
                                    ELSE pending[i - Len(batch)]
        BY <3>2, ConcatProperties DEF TypeOK
      <4>2. inFlight[i] = (batch \o pending)[i] /\ q[i] = inFlight[i]
        BY <3>2, <1>1 DEF Aligned
      <4>3. ~(i <= Len(batch)) => Queued(h)[i - Len(batch)] = pending[i - Len(batch)]
        <5>1. i \in Nat /\ Len(batch) \in Nat /\ Len(pending) \in Nat
          BY LenProperties DEF TypeOK
        <5> QED
          BY <3>2, <2>2, <5>1
      <4> QED
        BY <3>1, <4>1, <4>2, <4>3
    <3>3. CASE i = Len(inFlight) + 1
      BY <3>1, <3>3, <1>1, <2>2 DEF TypeOK
    <3>4. i \in 1..(Len(inFlight) + 1)
      BY <2>2
    <3>5. Len(inFlight) \in Nat
      BY DEF TypeOK
    <3> QED
      BY <3>2, <3>3, <3>4, <3>5
  <2> QED
    BY <2>1, <2>2, <2>3, <1>1 DEF Aligned, TypeOK
<1>3. CASE Full
  <2>1. Len(batch) = 0 /\ batch = <<>> /\ Len(pending) > 0
    BY <1>3, EmptySeq, StoreAssumption DEF Full, TypeOK
  <2>2. /\ Tail(pending) \in Seq(Hits) /\ Len(Tail(pending)) = Len(pending) - 1
        /\ \A i \in 1..Len(Tail(pending)) : Tail(pending)[i] = pending[i + 1]
    BY <2>1, HeadTailProperties, Empty DEF TypeOK
  <2>3. Queued(h) = Append(Tail(pending), h) /\ Mirrored(h) = Tail(q)
    BY <1>3 DEF Queued, Mirrored
  <2>4. /\ Queued(h) \in Seq(Hits) /\ Len(Queued(h)) = Len(pending)
        /\ Queued(h)[Len(pending)] = h
        /\ \A i \in 1..(Len(pending) - 1) : Queued(h)[i] = pending[i + 1]
    BY <2>1, <2>2, <2>3, AppendProperties DEF TypeOK
  <2>5. /\ Len(Tail(q)) = Len(inFlight)
        /\ \A i \in 1..Len(inFlight) : Tail(q)[i] = q[i + 1]
    <3>1. Len(inFlight) \in Nat /\ Len(q) = Len(inFlight) + 1 /\ q # <<>>
      <4>1. Len(inFlight) \in Nat
        BY DEF TypeOK
      <4> HIDE DEF q
      <4> QED
        BY <1>1, <4>1, Empty
    <3>2. Len(Tail(q)) = Len(q) - 1 /\ \A i \in 1..Len(Tail(q)) : Tail(q)[i] = q[i + 1]
      BY <1>1, <3>1, HeadTailProperties
    <3> HIDE DEF q
    <3> QED
      BY <3>1, <3>2
  <2>6. batch \o pending = pending /\ batch \o Queued(h) = Queued(h)
    BY <2>1, <2>4, ConcatEmptySeq DEF TypeOK
  <2>7. Len(inFlight) = Len(pending)
    BY <2>1 DEF TypeOK
  <2>8. ASSUME NEW i \in 1..Len(pending) PROVE Tail(q)[i] = Queued(h)[i]
    <3>1. CASE i < Len(pending)
      <4>1. Tail(q)[i] = inFlight[i + 1]
        BY <3>1, <2>5, <2>7, <1>1 DEF TypeOK
      <4>2. inFlight[i + 1] = pending[i + 1]
        BY <3>1, <2>1, <2>6 DEF Aligned, TypeOK
      <4> QED
        BY <3>1, <4>1, <4>2, <2>4 DEF TypeOK
    <3>2. CASE i = Len(pending)
      BY <3>2, <2>4, <2>5, <2>7, <1>1 DEF TypeOK
    <3> QED
      BY <3>1, <3>2 DEF TypeOK
  <2> QED
    BY <2>1, <2>3, <2>4, <2>5, <2>6, <2>7, <2>8 DEF Aligned, TypeOK
<1> QED
  BY <1>2, <1>3

\* Committing a batch leaves the store's queue aligned with what is queued.
LEMMA WriteKeeps ==
  ASSUME TypeOK, Aligned(inFlight, batch, pending)
  PROVE  /\ Remaining(Len(batch)) \in Seq(Hits)
         /\ Len(Remaining(Len(batch))) = Len(inFlight) - Len(batch)
         /\ \A i \in 1..Len(pending) : Remaining(Len(batch))[i] = pending[i]
         /\ Committed(Len(batch)) = batch
<1>1. Len(batch) \in Nat /\ Len(inFlight) \in Nat /\ Len(pending) \in Nat
  BY DEF TypeOK
<1>2. \A i \in 1..Len(inFlight) : inFlight[i] \in Hits
  BY ElementOfSeq DEF TypeOK
<1>3. /\ Remaining(Len(batch)) \in Seq(Hits)
      /\ Len(Remaining(Len(batch))) = Len(inFlight) - Len(batch)
      /\ \A i \in 1..(Len(inFlight) - Len(batch)) :
           Remaining(Len(batch))[i] = inFlight[Len(batch) + i]
  <2> DEFINE m == Len(batch) + 1
             n == Len(inFlight)
  <2>1. m \in Int /\ n \in Int /\ \A i \in m..n : inFlight[i] \in Hits
    BY <1>1, <1>2
  <2>2. /\ SubSeq(inFlight, m, n) \in Seq(Hits)
        /\ Len(SubSeq(inFlight, m, n)) = IF m <= n THEN n - m + 1 ELSE 0
        /\ \A i \in 1..(n - m + 1) : SubSeq(inFlight, m, n)[i] = inFlight[m + i - 1]
    BY <2>1, SubSeqProperties
  <2> QED
    BY <1>1, <2>2 DEF Remaining, Aligned
<1>4. \A i \in 1..(Len(batch) + Len(pending)) :
        (batch \o pending)[i] = IF i <= Len(batch) THEN batch[i] ELSE pending[i - Len(batch)]
  BY ConcatProperties DEF TypeOK
<1>5. \A i \in 1..Len(pending) : Remaining(Len(batch))[i] = pending[i]
  <2> TAKE i \in 1..Len(pending)
  <2>1. Remaining(Len(batch))[i] = inFlight[Len(batch) + i]
    BY <1>1, <1>3 DEF Aligned
  <2>2. inFlight[Len(batch) + i] = (batch \o pending)[Len(batch) + i]
    BY <1>1 DEF Aligned
  <2>3. (batch \o pending)[Len(batch) + i] = pending[i]
    BY <1>1, <1>4
  <2> QED
    BY <2>1, <2>2, <2>3
<1>6. Committed(Len(batch)) = batch
  <2>1. /\ Committed(Len(batch)) \in Seq(Hits)
        /\ Len(Committed(Len(batch))) = Len(batch)
        /\ \A i \in 1..Len(batch) : Committed(Len(batch))[i] = inFlight[i]
    <3>1. 1 \in Int /\ Len(batch) \in Int /\ \A i \in 1..Len(batch) : inFlight[i] \in Hits
      BY <1>1, <1>2 DEF Aligned
    <3>2. /\ SubSeq(inFlight, 1, Len(batch)) \in Seq(Hits)
          /\ Len(SubSeq(inFlight, 1, Len(batch))) =
               IF 1 <= Len(batch) THEN Len(batch) - 1 + 1 ELSE 0
          /\ \A i \in 1..(Len(batch) - 1 + 1) :
               SubSeq(inFlight, 1, Len(batch))[i] = inFlight[1 + i - 1]
      BY <3>1, SubSeqProperties
    <3> QED
      BY <1>1, <3>2 DEF Committed
  <2>2. \A i \in 1..Len(batch) : inFlight[i] = batch[i]
    BY <1>1, <1>4 DEF Aligned
  <2> QED
    BY <2>1, <2>2, SeqEqual DEF TypeOK
<1> QED
  BY <1>3, <1>5, <1>6

LEMMA QueueInduction == TypeOK /\ QueueInv /\ [Next]_vars => QueueInv'
<1> SUFFICES ASSUME TypeOK, QueueInv, [Next]_vars PROVE QueueInv'
  OBVIOUS
<1> DEFINE Idle == Len(batch) = 0
<1>a. phase \notin {"opening", "writing"} => Idle
  BY DEF TypeOK
<1>1. ASSUME NEW h \in Hits, Record(h) PROVE QueueInv'
  <2> SUFFICES ASSUME intact' PROVE /\ Aligned(inFlight', batch', pending')
                                    /\ Len(inFlight') = Len(batch') + Len(pending')
    BY <1>1 DEF Record, QueueInv
  <2>1. up /\ ~closed /\ intact /\ (~Full \/ Idle)
    BY <1>1 DEF Record, TypeOK
  <2>2. /\ Queued(h) \in Seq(Hits)
        /\ Aligned(Mirrored(h), batch, Queued(h))
        /\ Len(Mirrored(h)) = Len(batch) + Len(Queued(h))
    BY <2>1, RecordKeeps DEF QueueInv
  <2>3. CASE phase = "idle"
    <3>1. batch = <<>> /\ batch' = Queued(h) /\ pending' = <<>> /\ inFlight' = Mirrored(h)
      BY <1>1, <1>a, <2>3, EmptySeq DEF Record, Take, TypeOK
    <3>2. batch \o Queued(h) = Queued(h) /\ batch' \o pending' = Queued(h)
      BY <3>1, <2>2, ConcatEmptySeq
    <3>3. Len(batch) = 0 /\ Len(pending') = 0
      BY <3>1, Empty
    <3> QED
      BY <2>2, <3>1, <3>2, <3>3, LenProperties DEF Aligned
  <2>4. CASE phase # "idle"
    BY <1>1, <2>2, <2>4 DEF Record
  <2> QED
    BY <2>3, <2>4
<1>2. ASSUME NEW h \in Hits, RecordRefused(h) PROVE QueueInv'
  <2>1. /\ Len(inFlight') = Len(inFlight) + 1
        /\ \A i \in 1..Len(inFlight) : inFlight'[i] = inFlight[i]
    BY <1>2, AppendProperties DEF RecordRefused, TypeOK
  <2>2. UNCHANGED <<up, intact, closed, batch, pending>> /\ up /\ closed
    BY <1>2 DEF RecordRefused
  <2>3. Aligned(inFlight, batch, pending) => Aligned(inFlight', batch', pending')
    BY <2>1, <2>2, LenProperties DEF Aligned, TypeOK
  <2> QED
    BY <2>2, <2>3 DEF QueueInv
<1>3. CASE Open
  BY <1>3 DEF Open, QueueInv, Aligned
<1>4. CASE Write
  <2>1. /\ \/ batch' = pending /\ pending' = <<>>
           \/ batch' = <<>> /\ pending' = pending
        /\ inFlight' = Remaining(Len(batch))
        /\ up /\ up' /\ closed' = closed /\ (intact' => intact)
    BY <1>4 DEF Write, Continue, Take, TypeOK
  <2>2. batch' \o pending' = pending /\ Len(batch') + Len(pending') = Len(pending)
    BY <2>1, Moved DEF TypeOK
  <2> SUFFICES ASSUME intact'
               PROVE  /\ Aligned(inFlight', batch', pending')
                      /\ ~closed => Len(inFlight') = Len(batch') + Len(pending')
    BY <2>1 DEF QueueInv
  <2>3. /\ Aligned(inFlight, batch, pending)
        /\ ~closed => Len(inFlight) = Len(batch) + Len(pending)
    BY <2>1 DEF QueueInv
  <2>4. /\ Len(inFlight') = Len(inFlight) - Len(batch)
        /\ \A i \in 1..Len(pending) : inFlight'[i] = pending[i]
    BY <2>1, <2>3, WriteKeeps
  <2>5. Len(batch) \in Nat /\ Len(inFlight) \in Nat /\ Len(pending) \in Nat
    BY DEF TypeOK
  <2>6. Len(batch') + Len(pending') <= Len(inFlight')
    BY <2>2, <2>3, <2>4, <2>5 DEF Aligned
  <2>7. \A i \in 1..(Len(batch') + Len(pending')) : inFlight'[i] = (batch' \o pending')[i]
    BY <2>2, <2>4
  <2>8. ~closed => Len(inFlight') = Len(batch') + Len(pending')
    <3>1. ~closed => Len(inFlight') = Len(pending)
      BY <2>3, <2>4, <2>5
    <3> QED
      BY <2>2, <3>1
  <2> QED
    BY <2>6, <2>7, <2>8 DEF Aligned
<1>5. CASE WriteFails
  BY <1>5 DEF WriteFails, QueueInv
<1>6. CASE DrainEnds
  <2>1. \/ batch' = pending /\ pending' = <<>>
        \/ UNCHANGED <<batch, pending>>
    BY <1>6 DEF DrainEnds, Take
  <2>2. CASE batch' = pending /\ pending' = <<>>
    BY <1>6, <1>a, <2>2, ContinueKeeps DEF DrainEnds
  <2>3. CASE UNCHANGED <<batch, pending>>
    BY <1>6, <2>3 DEF DrainEnds, QueueInv, Aligned
  <2> QED
    BY <2>1, <2>2, <2>3
<1>7. CASE Roll
  BY <1>7 DEF Roll, QueueInv, Aligned
<1>8. CASE RollFails
  BY <1>8, <1>a, ContinueMoves, ContinueKeeps DEF RollFails, TypeOK
<1>9. CASE Reopen
  BY <1>9 DEF Reopen, QueueInv, Aligned
<1>10. CASE ReopenFails
  BY <1>10, <1>a, ContinueMoves, ContinueKeeps DEF ReopenFails, TypeOK
<1>11. CASE Compress
  BY <1>11, <1>a, ContinueMoves, ContinueKeeps DEF Compress, TypeOK
<1>12. CASE CompressFails
  BY <1>12, <1>a, ContinueMoves, ContinueKeeps DEF CompressFails, TypeOK
<1>13. CASE Close
  BY <1>13 DEF Close, QueueInv, Aligned
<1>14. CASE Release
  BY <1>14 DEF Release, QueueInv, Aligned
<1>15. CASE Stop
  BY <1>15, Empty DEF Stop, QueueInv
<1>16. CASE Restart
  <2>1. Len(inFlight) = 0 /\ Len(batch) = 0 /\ Len(pending) = 0
    BY <1>16 DEF Restart, QueueInv
  <2> QED
    BY <1>16, <2>1 DEF Restart, QueueInv, Aligned
<1>17. CASE UNCHANGED vars
  BY <1>17 DEF vars, QueueInv, Aligned
<1> QED
  BY <1>1, <1>2, <1>3, <1>4, <1>5, <1>6, <1>7, <1>8, <1>9, <1>10, <1>11, <1>12,
     <1>13, <1>14, <1>15, <1>16, <1>17 DEF Next

LEMMA QueueCorrect == Spec => []QueueInv
<1>1. Init => QueueInv
  BY Empty DEF Init, QueueInv, Aligned
<1> QED
  BY <1>1, QueueInduction, TypeCorrect, PTL DEF Spec

\* Until a lapse, the scores waiting in the store are those of the lines the
\* writer holds, in the same order, whatever is appended, dropped or rolled.
THEOREM QueuesMirror == Spec => []Mirrors
<1>1. QueueInv => Mirrors
  BY MirrorsIsAligned DEF QueueInv
<1> QED
  BY <1>1, QueueCorrect, PTL

\* Until a lapse, a write credits exactly the lines it wrote: no score reaches
\* the ledger for a line that is not on disk, or for the wrong source.
THEOREM WritesCommitTheirBatch == Spec => []CommitsTheBatch
<1>1. TypeOK /\ QueueInv => CommitsTheBatch
  BY WriteKeeps DEF QueueInv, CommitsTheBatch
<1> QED
  BY <1>1, TypeCorrect, QueueCorrect, PTL

(* ------------------------- ledgers and replays ------------------------- *)

LEMMA TotalType ==
  ASSUME NEW l \in Seq(Entries), NEW ip
  PROVE  Total(l, ip) \in Int
<1> DEFINE known == {e \in ToSet(l) : e.ip = ip}
<1>1. \A e \in ToSet(l) : e \in Entries
  BY ElementOfSeq DEF ToSet
<1>2. \A e \in Entries : e.total \in Int
  BY DEF Entries
<1>3. known # {} => (CHOOSE e \in known : TRUE) \in known
  OBVIOUS
<1>4. known # {} => (CHOOSE e \in known : TRUE).total \in Int
  BY <1>1, <1>2, <1>3
<1> QED
  BY <1>4 DEF Total

LEMMA WithoutType ==
  ASSUME NEW l \in Seq(Entries), NEW ip
  PROVE  WithoutSource(l, ip) \in Seq(Entries) /\ Len(WithoutSource(l, ip)) <= Len(l)
<1> DEFINE at == {i \in DOMAIN l : l[i].ip = ip}
           k == CHOOSE i \in at : TRUE
<1>1. CASE at = {}
  BY <1>1 DEF WithoutSource
<1>2. CASE at # {}
  <2>1. k \in 1..Len(l)
    BY <1>2
  <2>2. WithoutSource(l, ip) = SubSeq(l, 1, k - 1) \o SubSeq(l, k + 1, Len(l))
    BY <1>2 DEF WithoutSource, RemoveAt
  <2> HIDE DEF k
  <2>3. \A i \in 1..Len(l) : l[i] \in Entries
    BY ElementOfSeq
  <2>4. SubSeq(l, 1, k - 1) \in Seq(Entries) /\ Len(SubSeq(l, 1, k - 1)) = k - 1
    BY <2>1, <2>3, SubSeqProperties
  <2>5. /\ SubSeq(l, k + 1, Len(l)) \in Seq(Entries)
        /\ Len(SubSeq(l, k + 1, Len(l))) = Len(l) - k
    BY <2>1, <2>3, SubSeqProperties
  <2> DEFINE front == SubSeq(l, 1, k - 1)
             back == SubSeq(l, k + 1, Len(l))
  <2>6. front \in Seq(Entries) /\ back \in Seq(Entries) /\ WithoutSource(l, ip) = front \o back
        /\ Len(front) = k - 1 /\ Len(back) = Len(l) - k
    BY <2>2, <2>4, <2>5
  <2> HIDE DEF front, back
  <2>7. front \o back \in Seq(Entries) /\ Len(front \o back) = Len(front) + Len(back)
    BY <2>6, ConcatProperties
  <2> QED
    BY <2>1, <2>6, <2>7
<1> QED
  BY <1>1, <1>2

LEMMA EvictedType ==
  ASSUME NEW l \in Seq(Entries)
  PROVE  Thinned(l) \in Seq(Entries) /\ Len(Thinned(l)) < MaxScoreEntries
<1> USE LedgerAssumption
<1>1. CASE Len(l) < MaxScoreEntries
  BY <1>1 DEF Thinned
<1>2. CASE ~(Len(l) < MaxScoreEntries)
  <2> DEFINE m == Len(l) - MaxScoreEntries + 2
  <2>1. m \in Int /\ Len(l) \in Int /\ \A i \in m..Len(l) : l[i] \in Entries
    BY <1>2, ElementOfSeq
  <2>2. /\ SubSeq(l, m, Len(l)) \in Seq(Entries)
        /\ Len(SubSeq(l, m, Len(l))) = IF m <= Len(l) THEN Len(l) - m + 1 ELSE 0
    BY <2>1, SubSeqProperties
  <2> QED
    BY <1>2, <2>2 DEF Thinned
<1> QED
  BY <1>1, <1>2

LEMMA AddType ==
  ASSUME NEW l \in Seq(Entries), NEW e \in Entries
  PROVE  Add(l, e.ip, e.total) \in Seq(Entries)
<1>1. Thinned(WithoutSource(l, e.ip)) \in Seq(Entries)
  BY WithoutType, EvictedType
<1>2. [ip |-> e.ip, total |-> Total(l, e.ip) + e.total] \in Entries
  BY TotalType DEF Entries
<1> QED
  BY <1>1, <1>2, AppendProperties DEF Add

LEMMA AddLineType ==
  ASSUME NEW l \in Seq(Entries), NEW line
  PROVE  AddLine(l, line) \in Seq(Entries)
<1>1. CASE line \in Hits
  <2> DEFINE e == [ip |-> SourceOf[line], total |-> PointsOf[line]]
  <2>1. e \in Entries /\ e.ip = SourceOf[line] /\ e.total = PointsOf[line]
    BY <1>1, LedgerAssumption DEF Entries
  <2> HIDE DEF e
  <2> QED
    BY <1>1, <2>1, AddType DEF AddLine
<1> QED
  BY <1>1 DEF AddLine

\* Steps(f, l, lines): f[i] is the ledger l once i of the lines are credited.
Steps(f, l, lines) ==
  /\ f[0] = l
  /\ \A i \in 1..Len(lines) : f[i] = AddLine(f[i - 1], lines[i])

LEMMA AddAllSteps ==
  ASSUME NEW l \in Seq(Entries), NEW S, NEW lines \in Seq(S)
  PROVE  \E f \in [0..Len(lines) -> Seq(Entries)] :
           Steps(f, l, lines) /\ f[Len(lines)] = AddAll(l, lines)
<1> DEFINE n == Len(lines)
           F == [a \in Seq(Entries) |-> [i \in 1..n |-> AddLine(a, lines[i])]]
           Is(h) == h = [i \in 0..n |-> IF i = 0 THEN l ELSE AddLine(h[i - 1], lines[i])]
           f == CHOOSE h : Is(h)
<1>1. n \in Nat
  OBVIOUS
<1>2. F \in [Seq(Entries) -> [1..n -> Seq(Entries)]]
  BY AddLineType
<1>3. \A a \in Seq(Entries) : \A i \in 1..n : F[a][i] = AddLine(a, lines[i])
  OBVIOUS
<1> HIDE DEF F
<1>4. PICK g \in [0..n -> Seq(Entries)] : Iterates(g, n, l, F)
  BY <1>1, <1>2, IterateExists
<1>5. g = [i \in 0..n |-> IF i = 0 THEN l ELSE F[g[i - 1]][i]]
  BY <1>4 DEF Iterates
<1>6. \A i \in 0..n : i # 0 => F[g[i - 1]][i] = AddLine(g[i - 1], lines[i])
  <2> SUFFICES ASSUME NEW i \in 0..n, i # 0 PROVE F[g[i - 1]][i] = AddLine(g[i - 1], lines[i])
    OBVIOUS
  <2>1. i \in 1..n /\ i - 1 \in 0..n
    BY <1>1
  <2>2. g[i - 1] \in Seq(Entries)
    BY <2>1
  <2> QED
    BY <1>3, <2>1, <2>2
<1>7. Is(g)
  BY <1>5, <1>6
<1>8. Is(f)
  BY <1>7
<1>9. AddAll(l, lines) = f[n]
  BY DEF AddAll
<1> HIDE DEF f
<1>10. \A i \in 0..n : f[i] = IF i = 0 THEN l ELSE AddLine(f[i - 1], lines[i])
  BY <1>8
<1>11. f = [i \in 0..n |-> f[i]]
  BY <1>8
<1>12. Steps(f, l, lines)
  BY <1>1, <1>10 DEF Steps
<1>13. \A i \in 0..n : f[i] \in Seq(Entries)
  <2> DEFINE T == {i \in 0..n : f[i] \in Seq(Entries)}
  <2>1. 0 \in T
    BY <1>10
  <2>2. ASSUME NEW k \in 0..(n - 1), k \in T PROVE k + 1 \in T
    <3>1. f[k + 1] = AddLine(f[k], lines[k + 1])
      BY <1>10
    <3> QED
      BY <2>2, <3>1, AddLineType
  <2> HIDE DEF T
  <2>3. 0..n \subseteq T
    BY <1>1, <2>1, <2>2, UpTo
  <2> QED
    BY <2>3 DEF T
<1>14. f \in [0..n -> Seq(Entries)]
  BY <1>11, <1>13
<1> QED
  BY <1>9, <1>12, <1>14

\* Whatever credits the lines one by one arrives at AddAll.
LEMMA AddAllIs ==
  ASSUME NEW l \in Seq(Entries), NEW S, NEW lines \in Seq(S), NEW g, Steps(g, l, lines)
  PROVE  g[Len(lines)] = AddAll(l, lines)
<1> DEFINE n == Len(lines)
<1>1. PICK f \in [0..n -> Seq(Entries)] :
        Steps(f, l, lines) /\ f[n] = AddAll(l, lines)
  BY AddAllSteps
<1> DEFINE T == {i \in 0..n : g[i] = f[i]}
<1>2. n \in Nat
  OBVIOUS
<1>3. 0 \in T
  BY <1>1 DEF Steps
<1>4. ASSUME NEW k \in 0..(n - 1), k \in T PROVE k + 1 \in T
  BY <1>1, <1>4 DEF Steps
<1> HIDE DEF n, T
<1>5. 0..n \subseteq T
  BY <1>2, <1>3, <1>4, UpTo
<1> QED
  BY <1>1, <1>2, <1>5 DEF n, T

LEMMA AddAllNone ==
  ASSUME NEW l \in Seq(Entries)
  PROVE  AddAll(l, <<>>) = l
<1> DEFINE g == [i \in {0} |-> l]
<1>1. Steps(g, l, <<>>) /\ g[Len(<<>>)] = l /\ <<>> \in Seq({})
  BY EmptySeq DEF Steps
<1> HIDE DEF g
<1> QED
  BY <1>1, AddAllIs

LEMMA AddAllType ==
  ASSUME NEW l \in Seq(Entries), NEW S, NEW lines \in Seq(S)
  PROVE  AddAll(l, lines) \in Seq(Entries)
BY AddAllSteps

\* Crediting more lines goes on from where the earlier ones arrived.
LEMMA AddAllConcat ==
  ASSUME NEW l \in Seq(Entries), NEW S, NEW s \in Seq(S), NEW t \in Seq(S)
  PROVE  AddAll(l, s \o t) = AddAll(AddAll(l, s), t)
<1> DEFINE st == s \o t
<1>1. /\ st \in Seq(S) /\ Len(st) = Len(s) + Len(t) /\ Len(s) \in Nat /\ Len(t) \in Nat
      /\ \A i \in 1..Len(s) : st[i] = s[i]
      /\ \A i \in 1..Len(t) : st[Len(s) + i] = t[i]
  BY ConcatProperties
<1> HIDE DEF st
<1>2. PICK f : Steps(f, l, st) /\ f[Len(st)] = AddAll(l, st)
  BY <1>1, AddAllSteps
<1>3. Steps(f, l, s)
  BY <1>1, <1>2 DEF Steps
<1>4. f[Len(s)] = AddAll(l, s)
  BY <1>3, AddAllIs
<1> DEFINE g == [i \in 0..Len(t) |-> f[Len(s) + i]]
<1>5. Steps(g, AddAll(l, s), t)
  <2>1. g[0] = AddAll(l, s)
    BY <1>1, <1>4
  <2>2. ASSUME NEW i \in 1..Len(t) PROVE g[i] = AddLine(g[i - 1], t[i])
    <3>1. f[Len(s) + i] = AddLine(f[Len(s) + i - 1], st[Len(s) + i])
      BY <1>1, <1>2 DEF Steps
    <3>2. g[i] = f[Len(s) + i] /\ g[i - 1] = f[Len(s) + i - 1]
      BY <1>1
    <3> QED
      BY <1>1, <3>1, <3>2
  <2> QED
    BY <2>1, <2>2 DEF Steps
<1>6. g[Len(t)] = AddAll(AddAll(l, s), t)
  <2> HIDE DEF g
  <2> QED
    BY <1>5, AddAllIs, AddAllType
<1>7. g[Len(t)] = f[Len(st)]
  BY <1>1
<1> QED
  BY <1>2, <1>6, <1>7 DEF st

\* A line cut short is passed over by the next replay.
LEMMA AddAllCut ==
  ASSUME NEW l \in Seq(Entries)
  PROVE  AddAll(l, <<Cut>>) = l
<1> DEFINE g == [i \in 0..1 |-> l]
<1>1. Steps(g, l, <<Cut>>) /\ g[Len(<<Cut>>)] = l /\ <<Cut>> \in Seq({Cut})
  BY StoreAssumption DEF Steps, AddLine
<1> HIDE DEF g
<1> QED
  BY <1>1, AddAllIs

(* -------------------------- ledgers and seeds -------------------------- *)

\* What a bounded Map of scores can hold: a source at most once, and no more
\* sources than the cap.
Ledgers ==
  {l \in Seq(Entries) :
     /\ Len(l) <= MaxScoreEntries
     /\ \A i, j \in 1..Len(l) : l[i].ip = l[j].ip => i = j}

LEMMA WithoutKeeps ==
  ASSUME NEW l \in Ledgers, NEW ip
  PROVE  /\ WithoutSource(l, ip) \in Ledgers
         /\ \A i \in 1..Len(WithoutSource(l, ip)) : WithoutSource(l, ip)[i].ip # ip
<1> DEFINE at == {i \in DOMAIN l : l[i].ip = ip}
           k == CHOOSE i \in at : TRUE
           w == WithoutSource(l, ip)
<1>0. l \in Seq(Entries) /\ Len(l) \in Nat /\ DOMAIN l = 1..Len(l)
  BY DEF Ledgers
<1>1. CASE at = {}
  BY <1>0, <1>1 DEF WithoutSource
<1>2. CASE at # {}
  <2>1. k \in 1..Len(l) /\ l[k].ip = ip
    BY <1>0, <1>2
  <2>2. w = SubSeq(l, 1, k - 1) \o SubSeq(l, k + 1, Len(l))
    BY <1>2 DEF WithoutSource, RemoveAt
  <2> HIDE DEF k
  <2>3. \A i \in 1..Len(l) : l[i] \in Entries
    BY <1>0, ElementOfSeq
  <2> DEFINE front == SubSeq(l, 1, k - 1)
             back == SubSeq(l, k + 1, Len(l))
  <2>4. /\ front \in Seq(Entries) /\ Len(front) = k - 1
        /\ \A i \in 1..(k - 1) : front[i] = l[i]
    BY <1>0, <2>1, <2>3, SubSeqProperties
  <2>5. /\ back \in Seq(Entries) /\ Len(back) = Len(l) - k
        /\ \A i \in 1..(Len(l) - k) : back[i] = l[i + k]
    <3> DEFINE m == k + 1
               n == Len(l)
    <3>0. m \in Int /\ n \in Int /\ \A i \in m..n : l[i] \in Entries
      BY <1>0, <2>1, <2>3
    <3>1. back = SubSeq(l, m, n)
      OBVIOUS
    <3> HIDE DEF m, n, back
    <3>2. /\ back \in Seq(Entries)
          /\ Len(back) = IF m <= n THEN n - m + 1 ELSE 0
          /\ \A i \in 1..(n - m + 1) : back[i] = l[m + i - 1]
      BY <3>0, <3>1, SubSeqProperties
    <3>3. m = k + 1 /\ n = Len(l)
      BY DEF m, n
    <3>4. ASSUME NEW i \in 1..(Len(l) - k) PROVE back[i] = l[i + k]
      <4>1. i \in 1..(n - m + 1) /\ m + i - 1 = i + k
        BY <1>0, <2>1, <3>3
      <4> QED
        BY <3>2, <4>1
    <3>5. Len(back) = Len(l) - k
      BY <1>0, <2>1, <3>2, <3>3
    <3> QED
      BY <3>2, <3>4, <3>5
  <2>6. w = front \o back
    BY <2>2
  <2> HIDE DEF front, back, w
  <2>7. /\ w \in Seq(Entries) /\ Len(w) = Len(l) - 1
        /\ \A i \in 1..(Len(l) - 1) : w[i] = IF i < k THEN l[i] ELSE l[i + 1]
    <3>1. /\ w \in Seq(Entries) /\ Len(w) = Len(front) + Len(back)
          /\ \A i \in 1..(Len(front) + Len(back)) :
               w[i] = IF i <= Len(front) THEN front[i] ELSE back[i - Len(front)]
      BY <2>4, <2>5, <2>6, ConcatProperties
    <3>2. Len(w) = Len(l) - 1
      BY <1>0, <2>1, <2>4, <2>5, <3>1
    <3>3. ASSUME NEW i \in 1..(Len(l) - 1) PROVE w[i] = IF i < k THEN l[i] ELSE l[i + 1]
      <4>1. w[i] = IF i <= k - 1 THEN front[i] ELSE back[i - (k - 1)]
        BY <1>0, <2>1, <2>4, <2>5, <3>1
      <4>2. CASE i < k
        BY <1>0, <2>1, <2>4, <4>1, <4>2
      <4>3. CASE ~(i < k)
        <5>1. i - (k - 1) \in 1..(Len(l) - k) /\ (i - (k - 1)) + k = i + 1
          BY <1>0, <2>1, <4>3
        <5>2. back[i - (k - 1)] = l[i + 1]
          BY <2>5, <5>1
        <5> QED
          BY <1>0, <2>1, <4>1, <4>3, <5>2
      <4> QED
        BY <4>2, <4>3
    <3> QED
      BY <3>1, <3>2, <3>3
  <2>8. \A i, j \in 1..Len(l) : l[i].ip = l[j].ip => i = j
    BY DEF Ledgers
  <2>9. Len(w) <= MaxScoreEntries
    BY <1>0, <2>7, LedgerAssumption DEF Ledgers
  <2>10. \A i \in 1..Len(w) : w[i].ip # ip
    BY <1>0, <2>1, <2>7, <2>8
  <2>11. \A i, j \in 1..Len(w) : w[i].ip = w[j].ip => i = j
    <3> SUFFICES ASSUME NEW i \in 1..Len(w), NEW j \in 1..Len(w), w[i].ip = w[j].ip
                 PROVE  i = j
      OBVIOUS
    <3> DEFINE a == IF i < k THEN i ELSE i + 1
               b == IF j < k THEN j ELSE j + 1
    <3>1. a \in 1..Len(l) /\ b \in 1..Len(l) /\ (a = b => i = j)
      BY <1>0, <2>1, <2>7
    <3>2. w[i] = l[a] /\ w[j] = l[b]
      BY <1>0, <2>7
    <3> HIDE DEF a, b
    <3> QED
      BY <2>8, <3>1, <3>2
  <2> QED
    BY <2>7, <2>9, <2>10, <2>11 DEF w, Ledgers
<1> QED
  BY <1>1, <1>2

LEMMA EvictedKeeps ==
  ASSUME NEW l \in Ledgers
  PROVE  /\ Thinned(l) \in Ledgers /\ Len(Thinned(l)) < MaxScoreEntries
         /\ \A i \in 1..Len(Thinned(l)) : \E j \in 1..Len(l) : Thinned(l)[i] = l[j]
<1> USE LedgerAssumption
<1>0. l \in Seq(Entries) /\ Len(l) \in Nat /\ \A i \in 1..Len(l) : l[i] \in Entries
  BY ElementOfSeq DEF Ledgers
<1>1. CASE Len(l) < MaxScoreEntries
  BY <1>0, <1>1 DEF Thinned
<1>2. CASE ~(Len(l) < MaxScoreEntries)
  <2> DEFINE d == Len(l) - MaxScoreEntries + 1
             e == Thinned(l)
  <2>1. e = SubSeq(l, d + 1, Len(l)) /\ d \in Nat /\ d >= 1 /\ d <= Len(l)
    <3>1. Len(l) - MaxScoreEntries + 2 = d + 1
      BY <1>0
    <3>2. Len(l) <= MaxScoreEntries
      BY DEF Ledgers
    <3> QED
      BY <1>0, <1>2, <3>1, <3>2 DEF Thinned
  <2>2. d = 1 /\ Len(l) = MaxScoreEntries
    BY <1>0, <1>2 DEF Ledgers
  <2>3. \A i \in (d + 1)..Len(l) : l[i] \in Entries
    BY <1>0, <2>1
  <2> HIDE DEF d, e
  <2>4. /\ e \in Seq(Entries) /\ Len(e) = Len(l) - 1
        /\ \A i \in 1..(Len(l) - 1) : e[i] = l[i + 1]
    <3>1. /\ e \in Seq(Entries)
          /\ Len(e) = IF d + 1 <= Len(l) THEN Len(l) - (d + 1) + 1 ELSE 0
          /\ \A i \in 1..(Len(l) - (d + 1) + 1) : e[i] = l[(d + 1) + i - 1]
      BY <1>0, <2>1, <2>3, SubSeqProperties
    <3>2. \A i \in 1..(Len(l) - 1) : (d + 1) + i - 1 = i + 1
      BY <1>0, <2>2
    <3> QED
      BY <1>0, <2>1, <2>2, <3>1, <3>2
  <2>5. \A i, j \in 1..Len(l) : l[i].ip = l[j].ip => i = j
    BY DEF Ledgers
  <2>6. \A i, j \in 1..Len(e) : e[i].ip = e[j].ip => i = j
    <3> SUFFICES ASSUME NEW i \in 1..Len(e), NEW j \in 1..Len(e), e[i].ip = e[j].ip
                 PROVE  i = j
      OBVIOUS
    <3>1. i + 1 \in 1..Len(l) /\ j + 1 \in 1..Len(l)
      BY <1>0, <2>4
    <3>2. l[i + 1].ip = l[j + 1].ip
      BY <2>4
    <3>3. i + 1 = j + 1
      BY <2>5, <3>1, <3>2
    <3> QED
      BY <3>3
  <2>7. \A i \in 1..Len(e) : \E j \in 1..Len(l) : e[i] = l[j]
    <3> SUFFICES ASSUME NEW i \in 1..Len(e) PROVE \E j \in 1..Len(l) : e[i] = l[j]
      OBVIOUS
    <3>1. i + 1 \in 1..Len(l) /\ e[i] = l[i + 1]
      BY <1>0, <2>4
    <3> QED
      BY <3>1
  <2>8. Len(e) < MaxScoreEntries /\ Len(e) <= MaxScoreEntries
    BY <1>0, <2>2, <2>4
  <2> QED
    BY <2>4, <2>6, <2>7, <2>8 DEF e, Ledgers
<1> QED
  BY <1>1, <1>2

\* An entry of a source that has none goes last.
LEMMA AppendKeeps ==
  ASSUME NEW l \in Ledgers, Len(l) < MaxScoreEntries, NEW e \in Entries,
         \A i \in 1..Len(l) : l[i].ip # e.ip
  PROVE  Append(l, e) \in Ledgers
<1> DEFINE a == Append(l, e)
<1>0. l \in Seq(Entries) /\ Len(l) \in Nat
  BY DEF Ledgers
<1>1. /\ a \in Seq(Entries) /\ Len(a) = Len(l) + 1 /\ a[Len(l) + 1] = e
      /\ \A i \in 1..Len(l) : a[i] = l[i]
  BY <1>0, AppendProperties
<1> HIDE DEF a
<1>2. \A i, j \in 1..Len(l) : l[i].ip = l[j].ip => i = j
  BY DEF Ledgers
<1>3. \A i, j \in 1..Len(a) : a[i].ip = a[j].ip => i = j
  BY <1>0, <1>1, <1>2
<1>4. Len(a) <= MaxScoreEntries
  BY <1>0, <1>1, LedgerAssumption
<1> QED
  BY <1>1, <1>3, <1>4 DEF a, Ledgers

LEMMA AddKeeps ==
  ASSUME NEW l \in Ledgers, NEW e \in Entries
  PROVE  Add(l, e.ip, e.total) \in Ledgers
<1> DEFINE w == WithoutSource(l, e.ip)
           v == Thinned(w)
           n == [ip |-> e.ip, total |-> Total(l, e.ip) + e.total]
<1>1. w \in Ledgers /\ \A i \in 1..Len(w) : w[i].ip # e.ip
  BY WithoutKeeps
<1>2. l \in Seq(Entries)
  BY DEF Ledgers
<1>3. n \in Entries /\ n.ip = e.ip
  BY <1>2, TotalType DEF Entries
<1>4. Add(l, e.ip, e.total) = Append(v, n)
  BY DEF Add
<1> HIDE DEF w, n
<1>5. /\ v \in Ledgers /\ Len(v) < MaxScoreEntries
      /\ \A i \in 1..Len(v) : \E j \in 1..Len(w) : v[i] = w[j]
  BY <1>1, EvictedKeeps
<1>6. \A i \in 1..Len(v) : v[i].ip # n.ip
  BY <1>1, <1>3, <1>5
<1> HIDE DEF v
<1> QED
  BY <1>3, <1>4, <1>5, <1>6, AppendKeeps

LEMMA AddAllKeeps ==
  ASSUME NEW l \in Ledgers, NEW S, NEW lines \in Seq(S)
  PROVE  AddAll(l, lines) \in Ledgers
<1> DEFINE n == Len(lines)
<1>0. n \in Nat /\ l \in Seq(Entries)
  BY DEF Ledgers
<1>1. PICK f : Steps(f, l, lines) /\ f[n] = AddAll(l, lines)
  BY <1>0, AddAllSteps
<1> DEFINE T == {i \in 0..n : f[i] \in Ledgers}
<1>2. 0 \in T
  BY <1>0, <1>1 DEF Steps
<1>3. ASSUME NEW k \in 0..(n - 1), k \in T PROVE k + 1 \in T
  <2>1. f[k + 1] = AddLine(f[k], lines[k + 1])
    BY <1>0, <1>1 DEF Steps
  <2>2. ASSUME NEW line \in Hits PROVE Add(f[k], SourceOf[line], PointsOf[line]) \in Ledgers
    <3> DEFINE e == [ip |-> SourceOf[line], total |-> PointsOf[line]]
    <3>1. e \in Entries /\ e.ip = SourceOf[line] /\ e.total = PointsOf[line]
      BY LedgerAssumption DEF Entries
    <3>2. f[k] \in Ledgers
      BY <1>3
    <3> HIDE DEF e
    <3> QED
      BY <3>1, <3>2, AddKeeps
  <2> QED
    BY <1>0, <1>3, <2>1, <2>2 DEF AddLine
<1> HIDE DEF n, T
<1>4. 0..n \subseteq T
  BY <1>0, <1>2, <1>3, UpTo
<1> QED
  BY <1>0, <1>1, <1>4 DEF n, T

\* Seeding an empty ledger with a saved one gives the saved one back, in the
\* same order of recency: nothing is evicted and nothing added twice.
LEMMA SeedRestores ==
  ASSUME NEW l \in Ledgers
  PROVE  Seed(<<>>, l) = l
<1> DEFINE n == Len(l)
           Is(h) == h = [i \in 0..n |-> IF i = 0 THEN <<>>
                                         ELSE Add(h[i - 1], l[i].ip, l[i].total)]
           f == CHOOSE h : Is(h)
           g == [i \in 0..n |-> SubSeq(l, 1, i)]
<1>0. n \in Nat /\ l \in Seq(Entries) /\ \A i \in 1..n : l[i] \in Entries
  BY ElementOfSeq DEF Ledgers
<1>1. ASSUME NEW i \in 0..n
      PROVE  /\ SubSeq(l, 1, i) \in Seq(Entries) /\ Len(SubSeq(l, 1, i)) = i
             /\ \A j \in 1..i : SubSeq(l, 1, i)[j] = l[j]
  <2>1. \A j \in 1..i : l[j] \in Entries
    BY <1>0
  <2> QED
    BY <1>0, <2>1, SubSeqProperties
<1>2. ASSUME NEW i \in 1..n
      PROVE  Add(SubSeq(l, 1, i - 1), l[i].ip, l[i].total) = SubSeq(l, 1, i)
  <2> DEFINE p == SubSeq(l, 1, i - 1)
  <2>1. /\ p \in Seq(Entries) /\ Len(p) = i - 1 /\ \A j \in 1..(i - 1) : p[j] = l[j]
    BY <1>0, <1>1
  <2>2. \A j \in 1..n : l[j].ip = l[i].ip => i = j
    BY <1>0 DEF Ledgers
  <2>3. n <= MaxScoreEntries /\ MaxScoreEntries \in Nat
    BY LedgerAssumption DEF Ledgers
  <2> HIDE DEF p, n
  <2>4. \A j \in DOMAIN p : p[j].ip # l[i].ip
    BY <1>0, <2>1, <2>2
  <2>5. WithoutSource(p, l[i].ip) = p
    BY <2>4 DEF WithoutSource
  <2>6. Thinned(p) = p
    BY <1>0, <2>1, <2>3 DEF Thinned
  <2>7. Total(p, l[i].ip) = 0
    <3>1. {e \in ToSet(p) : e.ip = l[i].ip} = {}
      BY <2>4 DEF ToSet
    <3> QED
      BY <3>1 DEF Total
  <2>8. [ip |-> l[i].ip, total |-> 0 + l[i].total] = l[i]
    <3>1. l[i] \in Entries
      BY <1>0
    <3> QED
      BY <3>1 DEF Entries
  <2>9. Add(p, l[i].ip, l[i].total) = Append(p, l[i])
    BY <2>5, <2>6, <2>7, <2>8, Zenon DEF Add
  <2>10. Append(p, l[i]) = SubSeq(l, 1, i)
    <3> DEFINE s == SubSeq(l, 1, i)
               a == Append(p, l[i])
    <3>1. s \in Seq(Entries) /\ Len(s) = i /\ \A j \in 1..i : s[j] = l[j]
      BY <1>0, <1>1 DEF n
    <3>2. /\ a \in Seq(Entries) /\ Len(a) = i /\ a[i] = l[i]
          /\ \A j \in 1..(i - 1) : a[j] = l[j]
      BY <1>0, <2>1, AppendProperties
    <3> HIDE DEF s, a
    <3>3. \A j \in 1..i : a[j] = s[j]
      BY <1>0, <3>1, <3>2
    <3>4. a = s
      BY <3>1, <3>2, <3>3, SeqEqual
    <3> QED
      BY <3>4 DEF a, s
  <2> QED
    BY <2>9, <2>10 DEF p
<1>3. SubSeq(l, 1, 0) = <<>>
  BY <1>0, <1>1, EmptySeq
<1>4. Is(g)
  <2>1. ASSUME NEW i \in 0..n, i # 0
        PROVE  g[i] = Add(g[i - 1], l[i].ip, l[i].total)
    <3>1. i \in 1..n /\ i - 1 \in 0..n
      BY <1>0, <2>1
    <3>2. g[i] = SubSeq(l, 1, i) /\ g[i - 1] = SubSeq(l, 1, i - 1)
      BY <3>1
    <3> QED
      BY <1>2, <3>1, <3>2
  <2>2. g[0] = <<>>
    BY <1>0, <1>3
  <2>3. g = [i \in 0..n |-> g[i]]
    OBVIOUS
  <2> HIDE DEF g
  <2> QED
    BY <2>1, <2>2, <2>3
<1>5. Is(f)
  <2> HIDE DEF g
  <2> QED
    BY <1>4
<1>6. Seed(<<>>, l) = f[n]
  BY DEF Seed
<1> HIDE DEF f
<1> DEFINE T == {i \in 0..n : f[i] = g[i]}
<1>7. 0 \in T
  BY <1>0, <1>3, <1>5
<1>8. ASSUME NEW k \in 0..(n - 1), k \in T PROVE k + 1 \in T
  <2>1. k + 1 \in 1..n /\ (k + 1) - 1 = k
    BY <1>0
  <2>2. f[k + 1] = Add(f[k], l[k + 1].ip, l[k + 1].total)
    BY <1>0, <1>5, <2>1
  <2>3. f[k] = SubSeq(l, 1, k)
    BY <1>0, <1>8
  <2>4. f[k + 1] = SubSeq(l, 1, k + 1)
    BY <1>2, <2>1, <2>2, <2>3
  <2>5. k + 1 \in 0..n /\ g[k + 1] = SubSeq(l, 1, k + 1)
    BY <1>0, <2>1
  <2> QED
    BY <2>4, <2>5
<1>9. n \in T
  <2> HIDE DEF T, n
  <2>1. 0..n \subseteq T
    BY <1>0, <1>7, <1>8, UpTo
  <2> QED
    BY <1>0, <2>1
<1>10. SubSeq(l, 1, n) = l
  <2> DEFINE s == SubSeq(l, 1, n)
  <2>1. s \in Seq(Entries) /\ Len(s) = Len(l) /\ \A j \in 1..Len(l) : s[j] = l[j]
    BY <1>0, <1>1
  <2> HIDE DEF s
  <2>2. s = l
    BY <1>0, <2>1, SeqEqual
  <2> QED
    BY <2>2 DEF s
<1> QED
  BY <1>0, <1>6, <1>9, <1>10

(* --------------------- the ledger and its rebuilding ------------------- *)

\* Neither property is inductive alone: a start credits what it finds on disk,
\* so the ledger is durable only if every replay is exact, and the checkpoint
\* saves the ledger, so a replay is exact only if the ledger was. Between the
\* rename and the checkpoint of a roll the ledger alone holds the scores, and
\* the segment is empty: that is what makes the checkpoint exact.
LedgerInv ==
  /\ ledger \in Ledgers /\ checkpoint \in Ledgers
  /\ ~up => phase = "idle"
  /\ intact => /\ up => ledger = History
               /\ phase # "reopening" => Replayed = History
               /\ phase = "reopening" => live = <<>>

LEMMA ReplayedIs ==
  ASSUME checkpoint \in Ledgers
  PROVE  Replayed = AddAll(checkpoint, live)
BY SeedRestores DEF Replayed

LEMMA NoneKept == <<>> \in Ledgers
BY EmptySeq, LedgerAssumption DEF Ledgers

\* Crediting the lines written so far and then more is crediting them all.
LEMMA HistoryGrows ==
  ASSUME NEW w \in Seq(Hits), NEW s \in Seq(Hits)
  PROVE  AddAll(<<>>, w \o s) = AddAll(AddAll(<<>>, w), s)
<1>1. <<>> \in Seq(Entries)
  BY EmptySeq
<1>2. \A l \in Seq(Entries) : \A a, b \in Seq(Hits) : AddAll(l, a \o b) = AddAll(AddAll(l, a), b)
  <2> SUFFICES ASSUME NEW l \in Seq(Entries), NEW a \in Seq(Hits), NEW b \in Seq(Hits)
               PROVE  AddAll(l, a \o b) = AddAll(AddAll(l, a), b)
    OBVIOUS
  <2> DEFINE one == AddAll(l, a \o b)
             two == AddAll(AddAll(l, a), b)
  <2>1. one = two
    BY AddAllConcat
  <2> QED
    BY <2>1
<1> QED
  BY <1>1, <1>2

\* A segment that grew by some lines replays to their ledger, and a line cut
\* short at its end changes nothing.
LEMMA ReplayGrows ==
  ASSUME NEW c \in Ledgers, NEW s \in Seq(Lines), NEW t \in Seq(Hits)
  PROVE  /\ AddAll(c, s \o t) = AddAll(AddAll(c, s), t)
         /\ AddAll(c, (s \o t) \o <<Cut>>) = AddAll(AddAll(c, s), t)
<1>1. t \in Seq(Lines) /\ <<Cut>> \in Seq(Lines) /\ s \o t \in Seq(Lines)
  <2>1. t \in Seq(Lines) /\ <<Cut>> \in Seq(Lines)
    BY DEF Lines
  <2> QED
    BY <2>1, ConcatProperties
<1>2. c \in Seq(Entries)
  BY DEF Ledgers
<1>3. AddAll(c, s \o t) = AddAll(AddAll(c, s), t)
  BY <1>1, <1>2, AddAllConcat
<1> DEFINE a == AddAll(c, s \o t)
<1>4. a \in Seq(Entries)
  BY <1>1, <1>2, AddAllType
<1>5. AddAll(c, (s \o t) \o <<Cut>>) = AddAll(a, <<Cut>>)
  <2> DEFINE st == s \o t
             cut == <<Cut>>
  <2>1. st \in Seq(Lines) /\ cut \in Seq(Lines)
    BY <1>1
  <2> HIDE DEF st, cut
  <2>2. AddAll(c, st \o cut) = AddAll(AddAll(c, st), cut)
    BY <1>2, <2>1, AddAllConcat
  <2> QED
    BY <2>2 DEF st, cut
<1>6. AddAll(a, <<Cut>>) = a
  <2> HIDE DEF a
  <2> QED
    BY <1>4, AddAllCut
<1> QED
  BY <1>3, <1>5, <1>6

\* A step that touches neither memory nor disk, nor leaves a roll half done.
LEMMA LedgerFrame ==
  ASSUME LedgerInv, UNCHANGED <<ledger, checkpoint, live, written, up>>,
         up, intact' => intact, phase # "reopening", phase' # "reopening"
  PROVE  LedgerInv'
BY DEF LedgerInv, Replayed, History

LEMMA LedgerInduction == TypeOK /\ QueueInv /\ LedgerInv /\ [Next]_vars => LedgerInv'
<1> SUFFICES ASSUME TypeOK, QueueInv, LedgerInv, [Next]_vars PROVE LedgerInv'
  OBVIOUS
<1>0. /\ live \in Seq(Lines) /\ written \in Seq(Hits) /\ batch \in Seq(Hits)
      /\ ledger \in Ledgers /\ checkpoint \in Ledgers
  BY DEF TypeOK, LedgerInv
<1>a. ASSUME NEW open, Continue(open) PROVE phase' # "reopening"
  BY <1>a DEF Continue, Take
<1>1. ASSUME NEW h \in Hits, Record(h) PROVE LedgerInv'
  <2>1. CASE phase = "idle"
    <3>1. phase' # "reopening"
      BY <1>1, <2>1 DEF Record, Take
    <3> QED
      BY <1>1, <2>1, <3>1, LedgerFrame DEF Record, disk
  <2>2. CASE phase # "idle"
    BY <1>1, <2>2 DEF Record, disk, LedgerInv, Replayed, History
  <2> QED
    BY <2>1, <2>2
<1>2. ASSUME NEW h \in Hits, RecordRefused(h) PROVE LedgerInv'
  BY <1>2 DEF RecordRefused, disk, LedgerInv, Replayed, History
<1>3. CASE Open
  BY <1>3, LedgerFrame DEF Open, disk
<1>4. CASE Write
  <2>1. phase # "reopening" /\ phase' # "reopening" /\ up /\ up'
    BY <1>4, <1>a DEF Write
  <2>2. /\ ledger' = AddAll(ledger, Committed(Len(batch))) /\ written' = written \o batch
        /\ live' = Appended(batch) /\ checkpoint' = checkpoint
        /\ intact' = (intact /\ ~EndsCut)
    BY <1>4 DEF Write
  <2>3. ledger' \in Ledgers
    <3> DEFINE S == {inFlight[i] : i \in 1..Len(batch)}
    <3>1. Committed(Len(batch)) \in Seq(S)
      <4>1. Len(batch) \in Int /\ \A i \in 1..Len(batch) : inFlight[i] \in S
        BY <1>0
      <4> HIDE DEF S
      <4> QED
        BY <4>1, SubSeqProperties DEF Committed
    <3> HIDE DEF S
    <3> QED
      BY <1>0, <2>2, <3>1, AddAllKeeps
  <2>4. ASSUME intact' PROVE ledger' = History' /\ Replayed' = History'
    <3>1. intact /\ ~EndsCut /\ ledger = History /\ Replayed = History
      BY <2>1, <2>2, <2>4 DEF LedgerInv
    <3>2. Committed(Len(batch)) = batch
      BY <2>1, <3>1, WriteKeeps DEF QueueInv
    <3>3. History' = AddAll(History, batch)
      BY <1>0, <2>2, HistoryGrows DEF History
    <3>4. live' = live \o batch
      BY <2>2, <3>1 DEF Appended
    <3>5. Replayed' = AddAll(Replayed, batch)
      <4>1. Replayed = AddAll(checkpoint, live)
        BY <1>0, ReplayedIs
      <4>2. Replayed' = AddAll(checkpoint, live \o batch)
        BY <1>0, <2>2, <3>4, SeedRestores DEF Replayed
      <4> QED
        BY <1>0, <4>1, <4>2, ReplayGrows
    <3> QED
      BY <2>2, <3>1, <3>2, <3>3, <3>5
  <2> QED
    BY <1>0, <2>1, <2>2, <2>3, <2>4 DEF LedgerInv
<1>5. CASE WriteFails
  BY <1>5 DEF WriteFails, disk, LedgerInv
<1>6. CASE DrainEnds
  <2>1. phase' # "reopening" /\ phase # "reopening"
    BY <1>6 DEF DrainEnds, Take
  <2> QED
    BY <1>6, <2>1, LedgerFrame DEF DrainEnds, disk
<1>7. CASE Roll
  BY <1>7 DEF Roll, LedgerInv, History
<1>8. CASE RollFails
  <2>1. phase' # "reopening" /\ phase # "reopening"
    BY <1>8, <1>a DEF RollFails
  <2> QED
    BY <1>8, <2>1, LedgerFrame DEF RollFails, disk
<1>9. CASE Reopen
  <2>1. UNCHANGED <<up, ledger, live, written>> /\ up /\ phase' = "compressing"
    BY <1>9 DEF Reopen
  <2>2. checkpoint' \in Ledgers /\ ledger' \in Ledgers
    BY <1>0, <1>9, <2>1 DEF Reopen, Saved
  <2>3. ASSUME intact' PROVE ledger' = History' /\ Replayed' = History'
    <3>1. intact /\ checkpoint' = ledger /\ phase = "reopening"
      BY <1>9, <2>3 DEF Reopen, Saved
    <3>2. ledger = History /\ live = <<>>
      BY <2>1, <3>1 DEF LedgerInv
    <3>3. Replayed' = AddAll(ledger, <<>>)
      BY <1>0, <2>1, <3>1, <3>2, SeedRestores DEF Replayed
    <3>4. ledger \in Seq(Entries)
      BY <1>0 DEF Ledgers
    <3> QED
      BY <2>1, <3>2, <3>3, <3>4, AddAllNone DEF History
  <2> QED
    BY <2>1, <2>2, <2>3 DEF LedgerInv
<1>10. CASE ReopenFails
  <2>1. phase' # "reopening"
    BY <1>10, <1>a DEF ReopenFails
  <2> QED
    BY <1>10, <2>1 DEF ReopenFails, disk, LedgerInv
<1>11. CASE Compress
  <2>1. phase' # "reopening" /\ phase # "reopening"
    BY <1>11, <1>a DEF Compress
  <2> QED
    BY <1>11, <2>1, LedgerFrame DEF Compress
<1>12. CASE CompressFails
  <2>1. phase' # "reopening" /\ phase # "reopening"
    BY <1>12, <1>a DEF CompressFails
  <2> QED
    BY <1>12, <2>1, LedgerFrame DEF CompressFails, disk
<1>13. CASE Close
  BY <1>13 DEF Close, disk, LedgerInv, Replayed, History
<1>14. CASE Release
  BY <1>14 DEF Release, disk, LedgerInv, Replayed, History
<1>15. CASE Stop
  <2>1. /\ ~up' /\ phase' = "idle" /\ ledger' = <<>> /\ checkpoint' = checkpoint
    BY <1>15 DEF Stop
  <2>2. PICK count \in 0..(IF phase = "writing" THEN Len(batch) ELSE 0) :
          /\ live' = Appended(SubSeq(batch, 1, count)) \/ Torn(count)
          /\ written' = written \o SubSeq(batch, 1, count)
          /\ intact' = (intact /\ phase # "reopening" /\ ~(count > 0 /\ EndsCut))
    BY <1>15 DEF Stop
  <2> DEFINE part == SubSeq(batch, 1, count)
  <2>3. part \in Seq(Hits) /\ Len(part) = count /\ count \in Nat
    <3>1. count \in 0..Len(batch)
      BY <1>0
    <3>2. \A i \in 1..count : batch[i] \in Hits
      BY <1>0, <3>1, ElementOfSeq
    <3> QED
      BY <3>1, <3>2, SubSeqProperties
  <2>4. ASSUME intact' PROVE Replayed' = History'
    <3>1. intact /\ phase # "reopening" /\ ~(count > 0 /\ EndsCut) /\ Replayed = History
      BY <2>2, <2>4 DEF LedgerInv
    <3>2. Appended(part) = live \o part
      BY <2>3, <3>1 DEF Appended
    <3>3. \/ live' = live \o part
          \/ live' = (live \o part) \o <<Cut>>
          \/ live' = live /\ count = 0
      BY <2>2, <3>2 DEF Torn
    <3>4. Replayed = AddAll(checkpoint, live) /\ Replayed' = AddAll(checkpoint, live')
      BY <1>0, <2>1, SeedRestores DEF Replayed
    <3>5. History' = AddAll(History, part)
      BY <1>0, <2>2, <2>3, HistoryGrows DEF History
    <3>6. CASE live' = live /\ count = 0
      <4>1. part = <<>>
        BY <2>3, <3>6, EmptySeq
      <4>2. written' = written
        BY <1>0, <2>2, <4>1, ConcatEmptySeq
      <4> QED
        BY <3>1, <3>4, <3>6, <4>2 DEF History
    <3>7. CASE \/ live' = live \o part
               \/ live' = (live \o part) \o <<Cut>>
      <4>1. AddAll(checkpoint, live') = AddAll(AddAll(checkpoint, live), part)
        <5> HIDE DEF part
        <5>1. checkpoint \in Ledgers /\ live \in Seq(Lines) /\ part \in Seq(Hits)
          BY <1>0, <2>3
        <5>2. /\ AddAll(checkpoint, live \o part) = AddAll(AddAll(checkpoint, live), part)
              /\ AddAll(checkpoint, (live \o part) \o <<Cut>>) = AddAll(AddAll(checkpoint, live), part)
          BY <5>1, ReplayGrows, Zenon
        <5> QED
          BY <3>7, <5>2, Zenon
      <4> QED
        BY <3>1, <3>4, <3>5, <4>1
    <3> QED
      BY <3>3, <3>6, <3>7
  <2> QED
    BY <1>0, <2>1, <2>4, NoneKept DEF LedgerInv
<1>16. CASE Restart
  <2>1. /\ ~up /\ up' /\ ledger' = Replayed
        /\ UNCHANGED <<phase, live, checkpoint, written, intact>>
    BY <1>16 DEF Restart, disk
  <2>2. phase = "idle"
    BY <2>1 DEF LedgerInv
  <2>3. Replayed \in Ledgers
    BY <1>0, ReplayedIs, AddAllKeeps
  <2>4. Replayed' = Replayed /\ History' = History
    BY <2>1 DEF Replayed, History
  <2> QED
    BY <1>0, <2>1, <2>2, <2>3, <2>4 DEF LedgerInv
<1>17. CASE UNCHANGED vars
  BY <1>17 DEF vars, LedgerInv, Replayed, History
<1> QED
  BY <1>1, <1>2, <1>3, <1>4, <1>5, <1>6, <1>7, <1>8, <1>9, <1>10, <1>11, <1>12,
     <1>13, <1>14, <1>15, <1>16, <1>17 DEF Next

LEMMA LedgerCorrect == Spec => []LedgerInv
<1>1. Init => LedgerInv
  <2> SUFFICES ASSUME Init PROVE LedgerInv
    OBVIOUS
  <2>1. ledger \in Ledgers /\ checkpoint \in Ledgers /\ up /\ phase = "idle"
    BY NoneKept DEF Init
  <2>2. History = <<>>
    <3>1. <<>> \in Seq(Entries)
      BY EmptySeq
    <3> QED
      BY <3>1, AddAllNone DEF Init, History
  <2>3. Replayed = History
    BY <2>1, ReplayedIs DEF Init, History
  <2> QED
    BY <2>1, <2>2, <2>3 DEF Init, LedgerInv
<1> QED
  BY <1>1, LedgerInduction, TypeCorrect, QueueCorrect, PTL DEF Spec

\* Until a lapse, the scores in memory are those of the lines on disk, for any
\* number of hits and sources, any cap, any mix of faults and any number of
\* restarts: the score that crosses the block threshold is never ahead of the
\* evidence and never behind it.
THEOREM LedgerDurable == Spec => []LedgerIsDurable
<1>1. LedgerInv => LedgerIsDurable
  BY DEF LedgerInv, LedgerIsDurable
<1> QED
  BY <1>1, LedgerCorrect, PTL

\* Until a lapse, whenever the process stops the next start rebuilds exactly
\* the ledger of what was written, evictions and recency included, except
\* between the rename and the checkpoint of a roll.
THEOREM RestartRebuilds == Spec => []RestartKeepsScores
<1>1. LedgerInv => RestartKeepsScores
  BY DEF LedgerInv, RestartKeepsScores
<1> QED
  BY <1>1, LedgerCorrect, PTL
====
