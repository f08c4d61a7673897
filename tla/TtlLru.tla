------------------------------- MODULE TtlLru -------------------------------
(* TtlLru (src/src/internal/lru.ts) as values: a table is the sequence of    *)
(* its entries, least recently used first, each with the time it expires.    *)
EXTENDS Naturals, Sequences

\* How many entries an insert looks at for dead ones.
Sweep == 32

Holds(table, key, at) == \E i \in DOMAIN table : table[i].key = key /\ table[i].until > at

Entry(table, key) == table[CHOOSE i \in DOMAIN table : table[i].key = key]

\* What a filter leaves of a sequence: the members at the positions kept.
Keeping(s, kept) ==
  LET upTo[n \in 0..Len(s)] ==
        IF n = 0 THEN <<>> ELSE IF n \in kept THEN Append(upTo[n - 1], s[n]) ELSE upTo[n - 1]
  IN  upTo[Len(s)]

Without(table, key) == Keeping(table, {i \in DOMAIN table : table[i].key # key})

\* get(): a hit moves to the end with the lifetime it had, a dead entry goes.
Used(table, key, at) ==
  IF Holds(table, key, at) THEN Append(Without(table, key), Entry(table, key))
                           ELSE Without(table, key)

Swept(table, at) ==
  LET seen == IF Len(table) < Sweep THEN Len(table) ELSE Sweep
  IN  Keeping(table, {i \in DOMAIN table : i <= seen => table[i].until > at})

\* evict(): dead entries near the front go first, then the least recently used.
Evicted(table, capacity, at) ==
  LET swept == Swept(table, at)
      over  == IF Len(swept) > capacity THEN Len(swept) - capacity ELSE 0
  IN  SubSeq(swept, over + 1, Len(swept))

\* set(): replaces, at the end, and makes room.
Put(table, key, value, ttl, capacity, at) ==
  LET grown == Append(Without(table, key), [key |-> key, value |-> value, until |-> at + ttl])
  IN  IF Len(grown) > capacity THEN Evicted(grown, capacity, at) ELSE grown

\* getOrCreate(): a hit keeps the lifetime it had; only a miss is stored anew.
GetOrCreate(table, key, value, ttl, capacity, at) ==
  IF Holds(table, key, at) THEN Used(table, key, at) ELSE Put(table, key, value, ttl, capacity, at)

\* The value under a key, or what stands for none: peek().
Peek(table, key, none, at) == IF Holds(table, key, at) THEN Entry(table, key).value ELSE none

\* A value changed in place: neither its lifetime nor its rank moves.
Mutated(table, key, value) ==
  [i \in DOMAIN table |-> IF table[i].key = key THEN [table[i] EXCEPT !.value = value] ELSE table[i]]

\* entriesLive(), and what prune() leaves.
Live(table, at) == Keeping(table, {i \in DOMAIN table : table[i].until > at})
=============================================================================
