---- MODULE ScoreLedger ----
(* Per-source cumulative scores, bounded (src/src/stores/scores.ts).         *)
(* The code keeps a Map, which iterates in insertion order; add() deletes    *)
(* before it sets, so the order is that of the latest update.  A ledger here *)
(* is therefore a sequence of [ip, total], least recently updated first.     *)
EXTENDS Integers, Sequences, SequencesExt

CONSTANTS Hits,            \* hits, numbered in the order they are recorded
          SourceOf,        \* the address a hit came from
          PointsOf,        \* the suspicion score it carries
          MaxScoreEntries  \* how many sources a ledger remembers

ASSUME LedgerAssumption ==
  MaxScoreEntries \in Nat \ {0} /\ PointsOf \in [Hits -> Int]

\* What a ledger remembers of a source.
Entries == [ip : {SourceOf[h] : h \in Hits}, total : Int]

\* ScoreLedger.get: a source nobody remembers has scored nothing.
Total(ledger, ip) ==
  LET known == {e \in ToSet(ledger) : e.ip = ip}
  IN  IF known = {} THEN 0 ELSE (CHOOSE e \in known : TRUE).total

\* ScoreLedger.evict: the first keys of the Map go until there is room.
Thinned(ledger) ==
  IF Len(ledger) < MaxScoreEntries THEN ledger
  ELSE SubSeq(ledger, Len(ledger) - MaxScoreEntries + 2, Len(ledger))

\* Map.delete: an address has at most one entry.
WithoutSource(ledger, ip) ==
  LET at == {i \in DOMAIN ledger : ledger[i].ip = ip}
  IN  IF at = {} THEN ledger ELSE RemoveAt(ledger, CHOOSE i \in at : TRUE)

\* ScoreLedger.add
Add(ledger, ip, points) ==
  Append(Thinned(WithoutSource(ledger, ip)), [ip |-> ip, total |-> Total(ledger, ip) + points])

\* The score of a line counts; a line that carries no hit does not parse.
AddLine(ledger, line) ==
  IF line \in Hits THEN Add(ledger, SourceOf[line], PointsOf[line]) ELSE ledger

\* Lines credited one after the other, from the first.
AddAll(ledger, lines) ==
  LET after[n \in 0..Len(lines)] ==
        IF n = 0 THEN ledger ELSE AddLine(after[n - 1], lines[n])
  IN  after[Len(lines)]

\* ScoreLedger.seed, on the entries of a checkpoint in the order they were saved.
Seed(ledger, saved) ==
  LET after[n \in 0..Len(saved)] ==
        IF n = 0 THEN ledger ELSE Add(after[n - 1], saved[n].ip, saved[n].total)
  IN  after[Len(saved)]
====
