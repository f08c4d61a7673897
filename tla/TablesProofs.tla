----------------------------- MODULE TablesProofs -----------------------------
(* A block lasts, and an enforcer is handed addresses at its rate: of the part *)
(* of Tables that blocks, for every size of the list, every rate and every     *)
(* span. The lemmas say what the operators of Blocking do to a list and to a   *)
(* window.                                                                     *)
EXTENDS Tables, FiniteSetTheorems, SequenceTheorems, TLAPS

-----------------------------------------------------------------------------
(* The list.                                                                 *)

ListOK(list) == IsFiniteSet(DOMAIN list) /\ \A ip \in DOMAIN list : list[ip] \in Nat

\* What a full list sheds is what ends soonest, and only what ends later is kept.
Sheds(list, rest, at) ==
  /\ DOMAIN rest \subseteq DOMAIN list
  /\ \A ip \in DOMAIN rest : rest[ip] = list[ip]
  /\ \A ip \in DOMAIN list \ DOMAIN rest :
       list[ip] > at =>
         /\ ActiveBlocks(list, at) >= MaxBlocked
         /\ \A other \in DOMAIN rest : list[other] >= list[ip]

LEMMA EvictionsShed ==
  ASSUME NEW list, ListOK(list), NEW at \in Nat, NEW rest \in Evictions(list, at)
  PROVE  Sheds(list, rest, at)
<1> DEFINE alive == {x \in DOMAIN list : list[x] > at}
           live  == [ip \in alive |-> list[ip]]
<1>1. alive \subseteq DOMAIN list /\ DOMAIN live = alive /\ \A ip \in alive : live[ip] = list[ip]
  OBVIOUS
<1>2. ActiveBlocks(list, at) = Cardinality(alive) /\ Cardinality(alive) \in Nat
  BY <1>1, FS_Subset, FS_CardinalityType DEF ActiveBlocks, ListOK
<1>3. CASE Cardinality(alive) < MaxBlocked
  <2>1. rest = live
    BY <1>3 DEF Evictions
  <2> QED
    BY <2>1, <1>1 DEF Sheds
<1>4. CASE ~(Cardinality(alive) < MaxBlocked)
  <2>1. PICK kept \in SUBSET alive :
          /\ rest = [ip \in kept |-> live[ip]]
          /\ \A out \in alive \ kept : \A ip \in kept : live[out] <= live[ip]
    BY <1>4 DEF Evictions
  <2>2. Cardinality(alive) >= MaxBlocked
    BY <1>2, <1>4, BlockingAssumption
  <2>3. \A ip \in alive : live[ip] = list[ip] /\ list[ip] \in Nat
    BY <1>1 DEF ListOK
  <2>4. DOMAIN rest = kept /\ \A ip \in kept : rest[ip] = list[ip]
    BY <2>1, <2>3
  <2>5. \A ip \in DOMAIN list \ kept : list[ip] > at => ip \in alive \ kept
    OBVIOUS
  <2>6. \A out \in alive \ kept : \A ip \in kept : list[ip] >= list[out]
    BY <2>1, <2>3
  <2> QED
    BY <2>2, <2>4, <2>5, <2>6, <1>1, <1>2 DEF Sheds
<1> QED
  BY <1>3, <1>4

LEMMA BlockIsKept ==
  ASSUME NEW list, ListOK(list), NEW ip, NEW until \in Nat, NEW at \in Nat,
         NEW next \in MemoryBlock(list, ip, until, at)
  PROVE  /\ ListOK(next)
         /\ ip \in DOMAIN next /\ next[ip] >= until
         /\ \A x \in DOMAIN list : list[x] > at =>
              \/ x \in DOMAIN next /\ next[x] >= list[x]
              \/ /\ ActiveBlocks(list, at) >= MaxBlocked
                 /\ \A other \in DOMAIN list \cap DOMAIN next : list[other] >= list[x]
<1>1. PICK rest \in RoomFor(list, ip, at) :
        next = Set(rest, ip, Longer(IF ip \in DOMAIN rest THEN rest[ip] ELSE 0, until))
  BY DEF MemoryBlock
<1> DEFINE old == IF ip \in DOMAIN rest THEN rest[ip] ELSE 0
<1>2. /\ Sheds(list, rest, at)
      /\ rest # list => ip \notin DOMAIN list
  <2>1. CASE rest = list
    BY <2>1 DEF Sheds
  <2>2. CASE rest # list
    <3>1. ip \notin DOMAIN list /\ rest \in Evictions(list, at)
      BY <1>1, <2>2 DEF RoomFor
    <3> QED
      BY <3>1, EvictionsShed
  <2> QED
    BY <2>1, <2>2
<1>3. DOMAIN rest \subseteq DOMAIN list /\ \A x \in DOMAIN rest : rest[x] = list[x] /\ rest[x] \in Nat
  BY <1>2 DEF Sheds, ListOK
<1>4. old \in Nat /\ (ip \in DOMAIN rest => old = list[ip])
  BY <1>3
<1>5. Longer(old, until) \in Nat /\ Longer(old, until) >= until /\ Longer(old, until) >= old
  BY <1>4 DEF Longer
<1>6. /\ DOMAIN next = DOMAIN rest \cup {ip}
      /\ next[ip] = Longer(old, until)
      /\ \A x \in DOMAIN rest \ {ip} : next[x] = list[x]
  BY <1>1, <1>3 DEF Set
<1>7. ListOK(next)
  <2>1. IsFiniteSet(DOMAIN rest)
    BY <1>3, FS_Subset DEF ListOK
  <2>2. IsFiniteSet(DOMAIN next)
    BY <2>1, <1>6, FS_AddElement
  <2> QED
    BY <2>2, <1>3, <1>5, <1>6 DEF ListOK
<1>8. ASSUME NEW x \in DOMAIN list, list[x] > at
      PROVE  \/ x \in DOMAIN next /\ next[x] >= list[x]
             \/ /\ ActiveBlocks(list, at) >= MaxBlocked
                /\ \A other \in DOMAIN list \cap DOMAIN next : list[other] >= list[x]
  <2>1. list[x] \in Nat
    BY DEF ListOK
  <2>2. CASE x \in DOMAIN rest
    BY <2>1, <2>2, <1>3, <1>4, <1>5, <1>6
  <2>3. CASE x \notin DOMAIN rest
    <3>1. /\ ActiveBlocks(list, at) >= MaxBlocked
          /\ \A other \in DOMAIN rest : list[other] >= list[x]
      BY <1>2, <1>8, <2>3 DEF Sheds
    <3>2. ip \notin DOMAIN list
      BY <1>2, <2>3
    <3> QED
      BY <3>1, <3>2, <1>6
  <2> QED
    BY <2>2, <2>3
<1> QED
  BY <1>5, <1>6, <1>7, <1>8

-----------------------------------------------------------------------------
(* The rate.                                                                 *)

AskRecord == [ip : Ips \cup NotIps, until : Nat, at : Nat, enforced : BOOLEAN]

EnforcedFrom(a, t) == {i \in DOMAIN a : a[i].enforced /\ a[i].at >= t}
EnforcedBefore(a, t) == {i \in DOMAIN a : a[i].enforced /\ a[i].at >= t - RateWindow /\ a[i].at < t}

\* A window has counted what was enforced in it, all of it before its end, and the one before
\* it let no more through than a window may.
RateInv(l, a, at) ==
  /\ l \in [from : Nat, count : Nat] /\ l.from <= at /\ l.count <= PerWindow
  /\ a \in Seq(AskRecord)
  /\ \A i \in DOMAIN a : a[i].at <= at /\ (a[i].enforced => a[i].at < l.from + RateWindow)
  /\ Cardinality(EnforcedFrom(a, l.from)) = l.count
  /\ Cardinality(EnforcedBefore(a, l.from)) <= PerWindow

LEMMA AsksAreNumbered ==
  ASSUME NEW a \in Seq(AskRecord)
  PROVE  /\ Len(a) \in Nat /\ DOMAIN a = 1 .. Len(a)
         /\ \A i \in DOMAIN a : a[i] \in AskRecord /\ a[i].at \in Nat
<1>1. Len(a) \in Nat /\ DOMAIN a = 1 .. Len(a) /\ \A i \in DOMAIN a : a[i] \in AskRecord
  OBVIOUS
<1>2. \A r \in AskRecord : r.at \in Nat
  BY DEF AskRecord
<1> QED
  BY <1>1, <1>2

LEMMA AsksFinite ==
  ASSUME NEW a \in Seq(AskRecord), NEW S \in SUBSET DOMAIN a
  PROVE  IsFiniteSet(S) /\ Cardinality(S) \in Nat
<1>1. Len(a) \in Nat /\ DOMAIN a = 1 .. Len(a)
  BY AsksAreNumbered
<1>2. IsFiniteSet(1 .. Len(a))
  BY <1>1, FS_Interval
<1>3. IsFiniteSet(S)
  BY <1>1, <1>2, FS_Subset
<1> QED
  BY <1>3, FS_CardinalityType

LEMMA RollKeeps ==
  ASSUME NEW l, NEW a, NEW at \in Nat, RateInv(l, a, at)
  PROVE  RateInv(Rolls(l, at), a, at) /\ at < Rolls(l, at).from + RateWindow
<1>0. /\ l \in [from : Nat, count : Nat] /\ l.from <= at /\ l.count <= PerWindow
      /\ a \in Seq(AskRecord)
      /\ \A i \in DOMAIN a : a[i].at <= at /\ (a[i].enforced => a[i].at < l.from + RateWindow)
      /\ Cardinality(EnforcedFrom(a, l.from)) = l.count
      /\ Cardinality(EnforcedBefore(a, l.from)) <= PerWindow
  BY DEF RateInv
<1>t. /\ RateWindow \in Nat /\ RateWindow > 0 /\ PerWindow \in Nat
      /\ \A i \in DOMAIN a : a[i].at \in Nat
  BY <1>0, BlockingAssumption, AsksAreNumbered
<1>1. CASE at - l.from >= RateWindow
  <2> DEFINE r == [from |-> at, count |-> 0]
  <2>1. Rolls(l, at) = r
    BY <1>1 DEF Rolls
  <2>2. r \in [from : Nat, count : Nat] /\ r.from = at /\ r.count = 0
    OBVIOUS
  <2>3. EnforcedFrom(a, at) = {}
    BY <1>0, <1>1, <1>t DEF EnforcedFrom
  <2>4. EnforcedBefore(a, at) \subseteq EnforcedFrom(a, l.from)
    BY <1>0, <1>1, <1>t DEF EnforcedFrom, EnforcedBefore
  <2>5. IsFiniteSet(EnforcedFrom(a, l.from)) /\ Cardinality(EnforcedFrom(a, l.from)) \in Nat
    BY <1>0, AsksFinite DEF EnforcedFrom
  <2>6. Cardinality(EnforcedBefore(a, at)) <= PerWindow
    <3>1. /\ Cardinality(EnforcedBefore(a, at)) <= Cardinality(EnforcedFrom(a, l.from))
          /\ Cardinality(EnforcedBefore(a, at)) \in Nat
      BY <2>4, <2>5, FS_Subset, FS_CardinalityType
    <3> QED
      BY <3>1, <2>5, <1>0, <1>t
  <2>7. Cardinality(EnforcedFrom(a, at)) = 0
    BY <2>3, FS_EmptySet
  <2>8. \A i \in DOMAIN a : a[i].at <= at /\ (a[i].enforced => a[i].at < at + RateWindow)
    BY <1>0, <1>t
  <2> HIDE DEF r
  <2>9. RateInv(r, a, at)
    BY <2>2, <2>6, <2>7, <2>8, <1>0, <1>t DEF RateInv
  <2> QED
    BY <2>1, <2>2, <2>9, <1>t
<1>2. CASE ~(at - l.from >= RateWindow)
  BY <1>2, <1>0, <1>t DEF Rolls
<1> QED
  BY <1>1, <1>2

\* An ask that is enforced is counted.
LEMMA EnforcedKeeps ==
  ASSUME NEW l, NEW a, NEW at \in Nat, RateInv(l, a, at), at < l.from + RateWindow,
         l.count < PerWindow, NEW ask \in AskRecord, ask.at = at, ask.enforced
  PROVE  RateInv([l EXCEPT !.count = @ + 1], Append(a, ask), at)
<1>0. /\ l \in [from : Nat, count : Nat] /\ l.from <= at /\ l.count <= PerWindow
      /\ a \in Seq(AskRecord)
      /\ \A i \in DOMAIN a : a[i].at <= at /\ (a[i].enforced => a[i].at < l.from + RateWindow)
      /\ Cardinality(EnforcedFrom(a, l.from)) = l.count
      /\ Cardinality(EnforcedBefore(a, l.from)) <= PerWindow
  BY DEF RateInv
<1> DEFINE r == [l EXCEPT !.count = @ + 1]
           b == Append(a, ask)
           new == Len(a) + 1
<1>t. RateWindow \in Nat /\ PerWindow \in Nat /\ Len(a) \in Nat
  BY <1>0, BlockingAssumption
<1>1. r \in [from : Nat, count : Nat] /\ r.from = l.from /\ r.count = l.count + 1
  BY <1>0
<1>2. /\ b \in Seq(AskRecord) /\ DOMAIN b = DOMAIN a \cup {new} /\ new \notin DOMAIN a
      /\ b[new] = ask /\ \A i \in DOMAIN a : b[i] = a[i]
  BY <1>0
<1> HIDE DEF r, b, new
<1>3. \A i \in DOMAIN b : b[i].at <= at /\ (b[i].enforced => b[i].at < r.from + RateWindow)
  BY <1>0, <1>1, <1>2
<1>4. EnforcedFrom(b, r.from) = EnforcedFrom(a, l.from) \cup {new} /\ new \notin EnforcedFrom(a, l.from)
  BY <1>0, <1>1, <1>2 DEF EnforcedFrom
<1>5. Cardinality(EnforcedFrom(b, r.from)) = l.count + 1
  <2>1. IsFiniteSet(EnforcedFrom(a, l.from))
    BY <1>0, AsksFinite DEF EnforcedFrom
  <2> QED
    BY <2>1, <1>4, <1>0, FS_AddElement
<1>6. EnforcedBefore(b, r.from) = EnforcedBefore(a, l.from)
  BY <1>0, <1>1, <1>2 DEF EnforcedBefore
<1>7. RateInv(r, b, at)
  BY <1>0, <1>1, <1>2, <1>3, <1>5, <1>6, <1>t DEF RateInv
<1> QED
  BY <1>7 DEF r, b

\* One that is not leaves the window as it was.
LEMMA DroppedKeeps ==
  ASSUME NEW l, NEW a, NEW at \in Nat, RateInv(l, a, at), NEW ask \in AskRecord, ask.at = at, ~ask.enforced
  PROVE  RateInv(l, Append(a, ask), at)
<1>0. /\ l \in [from : Nat, count : Nat] /\ l.from <= at /\ l.count <= PerWindow
      /\ a \in Seq(AskRecord)
      /\ \A i \in DOMAIN a : a[i].at <= at /\ (a[i].enforced => a[i].at < l.from + RateWindow)
      /\ Cardinality(EnforcedFrom(a, l.from)) = l.count
      /\ Cardinality(EnforcedBefore(a, l.from)) <= PerWindow
  BY DEF RateInv
<1> DEFINE b == Append(a, ask)
           new == Len(a) + 1
<1>2. /\ b \in Seq(AskRecord) /\ DOMAIN b = DOMAIN a \cup {new} /\ new \notin DOMAIN a
      /\ b[new] = ask /\ \A i \in DOMAIN a : b[i] = a[i]
  BY <1>0
<1> HIDE DEF b, new
<1>3. \A i \in DOMAIN b : b[i].at <= at /\ (b[i].enforced => b[i].at < l.from + RateWindow)
  BY <1>0, <1>2
<1>4. EnforcedFrom(b, l.from) = EnforcedFrom(a, l.from) /\ EnforcedBefore(b, l.from) = EnforcedBefore(a, l.from)
  BY <1>0, <1>2 DEF EnforcedFrom, EnforcedBefore
<1>5. RateInv(l, b, at)
  BY <1>0, <1>2, <1>3, <1>4 DEF RateInv
<1> QED
  BY <1>5 DEF b

\* However the windows fall, no stretch of one window's length has more than two of them.
LEMMA RateIsBounded ==
  ASSUME NEW l, NEW a, NEW at \in Nat, RateInv(l, a, at)
  PROVE  Cardinality({i \in DOMAIN a : a[i].enforced /\ a[i].at > at - RateWindow}) <= 2 * PerWindow
<1>0. /\ l \in [from : Nat, count : Nat] /\ l.from <= at /\ l.count <= PerWindow
      /\ a \in Seq(AskRecord)
      /\ Cardinality(EnforcedFrom(a, l.from)) = l.count
      /\ Cardinality(EnforcedBefore(a, l.from)) <= PerWindow
  BY DEF RateInv
<1> DEFINE recent == {i \in DOMAIN a : a[i].enforced /\ a[i].at > at - RateWindow}
           cur    == EnforcedFrom(a, l.from)
           prev   == EnforcedBefore(a, l.from)
<1>1. RateWindow \in Nat /\ PerWindow \in Nat /\ \A i \in DOMAIN a : a[i].at \in Nat
  BY <1>0, BlockingAssumption, AsksAreNumbered
<1>2. recent \subseteq cur \cup prev
  BY <1>0, <1>1 DEF EnforcedFrom, EnforcedBefore
<1>3. cur \in SUBSET DOMAIN a /\ prev \in SUBSET DOMAIN a
  BY DEF EnforcedFrom, EnforcedBefore
<1> HIDE DEF recent, cur, prev
<1>4. /\ IsFiniteSet(cur) /\ Cardinality(cur) \in Nat
      /\ IsFiniteSet(prev) /\ Cardinality(prev) \in Nat
  BY <1>0, <1>3, AsksFinite
<1>5. IsFiniteSet(cur \cup prev) /\ IsFiniteSet(cur \cap prev)
  BY <1>4, FS_Union, FS_Intersection
<1>6. /\ Cardinality(cur \cup prev) = Cardinality(cur) + Cardinality(prev) - Cardinality(cur \cap prev)
      /\ Cardinality(cur \cap prev) \in Nat
  BY <1>4, <1>5, FS_Union, FS_CardinalityType
<1>7. Cardinality(recent) <= Cardinality(cur \cup prev) /\ Cardinality(recent) \in Nat
  BY <1>2, <1>5, FS_Subset, FS_CardinalityType
<1>8. Cardinality(cur) <= PerWindow /\ Cardinality(prev) <= PerWindow
  BY <1>0 DEF cur, prev
<1>9. Cardinality(recent) <= 2 * PerWindow
  BY <1>1, <1>4, <1>6, <1>7, <1>8
<1> QED
  BY <1>9 DEF recent

\* An ask is dropped only while the window it falls in has let something through.
LEMMA DroppedForARate ==
  ASSUME NEW l, NEW a, NEW at \in Nat, RateInv(l, a, at), ~Allows(l, at)
  PROVE  \E i \in DOMAIN a : a[i].enforced /\ a[i].at > at - RateWindow
<1> DEFINE r == Rolls(l, at)
<1>1. RateInv(r, a, at) /\ at < r.from + RateWindow
  BY RollKeeps
<1>2. ~(r.count < PerWindow)
  BY DEF Allows
<1> HIDE DEF r
<1>3. /\ r \in [from : Nat, count : Nat] /\ a \in Seq(AskRecord) /\ r.from <= at
      /\ Cardinality(EnforcedFrom(a, r.from)) = r.count
  BY <1>1 DEF RateInv
<1>4. RateWindow \in Nat /\ PerWindow \in Nat /\ PerWindow > 0 /\ \A i \in DOMAIN a : a[i].at \in Nat
  BY <1>3, BlockingAssumption, AsksAreNumbered
<1>5. r.count # 0
  BY <1>2, <1>3, <1>4
<1>6. EnforcedFrom(a, r.from) # {}
  BY <1>3, <1>5, FS_EmptySet
<1>7. PICK i \in DOMAIN a : a[i].enforced /\ a[i].at >= r.from
  BY <1>6 DEF EnforcedFrom
<1> QED
  BY <1>1, <1>3, <1>4, <1>7

-----------------------------------------------------------------------------
(* The part that blocks.                                                     *)

\* The inductive invariant: the list is a list, and the rate is what RateInv says of the asks.
BlockInv == now \in Nat /\ ListOK(memory) /\ RateInv(limit, asks, now)

\* What BlocksHold says of a step.
BlockStep ==
  /\ \A ip \in DOMAIN memory : memory[ip] > now' =>
       \/ ip \in DOMAIN memory' /\ memory'[ip] >= memory[ip]
       \/ /\ ActiveBlocks(memory, now) >= MaxBlocked
          /\ \A other \in DOMAIN memory \cap DOMAIN memory' : memory[other] >= memory[ip]
  /\ Len(asks') > Len(asks) =>
       LET ask == asks'[Len(asks')]
       IN  /\ ask.until > now => ask.ip \in DOMAIN memory' /\ memory'[ask.ip] >= ask.until
           /\ ask.until > now => redis'[ask.ip] = ask.until
           /\ ask.enforced => ask.ip \notin NotIps
           /\ Cardinality({i \in DOMAIN asks' : asks'[i].enforced /\ asks'[i].at > now - RateWindow}) <= 2 * PerWindow
           /\ ~ask.enforced /\ ask.ip \notin NotIps =>
                \E i \in DOMAIN asks : asks[i].enforced /\ asks[i].at > now - RateWindow

LEMMA BlockKeeps ==
  ASSUME BlockInv, NEW ip \in Ips \cup NotIps, NEW span \in Spans, Block(ip, span)
  PROVE  BlockInv' /\ BlockStep
<1> DEFINE until == now + span
           passed == Enforces(limit, ip \notin NotIps, now)
           ask == [ip |-> ip, until |-> until, at |-> now, enforced |-> passed]
<1>1. /\ memory' \in MemoryBlock(memory, ip, until, now)
      /\ redis' = RedisBlock(redis, ip, until, now)
      /\ limit' = IF ip \in NotIps THEN limit ELSE Asked(limit, now)
      /\ asks' = Append(asks, ask)
      /\ now' = now
  BY DEF Block
<1>2. now \in Nat /\ ListOK(memory) /\ RateInv(limit, asks, now) /\ asks \in Seq(AskRecord)
  BY DEF BlockInv, RateInv
<1>3. until \in Nat
  BY <1>2, SpansAssumption
<1>4. passed \in BOOLEAN /\ (passed <=> ip \notin NotIps /\ Allows(limit, now))
  BY DEF Enforces, Allows
<1>5. ask \in AskRecord
  BY <1>2, <1>3, <1>4 DEF AskRecord
<1>6. ask.ip = ip /\ ask.until = until /\ ask.at = now /\ ask.enforced = passed
  OBVIOUS
<1>7. Len(asks') = Len(asks) + 1 /\ asks'[Len(asks')] = ask /\ Len(asks) \in Nat
  BY <1>1, <1>2, <1>5
<1> HIDE DEF until, passed, ask
<1>8. /\ ListOK(memory')
      /\ ip \in DOMAIN memory' /\ memory'[ip] >= until
      /\ \A x \in DOMAIN memory : memory[x] > now =>
           \/ x \in DOMAIN memory' /\ memory'[x] >= memory[x]
           \/ /\ ActiveBlocks(memory, now) >= MaxBlocked
              /\ \A other \in DOMAIN memory \cap DOMAIN memory' : memory[other] >= memory[x]
  BY <1>1, <1>2, <1>3, BlockIsKept
<1>9. RateInv(limit', asks', now)
  <2>1. CASE ip \in NotIps
    BY <2>1, <1>1, <1>2, <1>4, <1>5, <1>6, DroppedKeeps
  <2>2. CASE ip \notin NotIps /\ Allows(limit, now)
    <3> DEFINE r == Rolls(limit, now)
    <3>1. RateInv(r, asks, now) /\ now < r.from + RateWindow
      BY <1>2, RollKeeps
    <3>2. limit' = [r EXCEPT !.count = @ + 1] /\ r.count < PerWindow
      BY <2>2, <1>1 DEF Asked, Allows
    <3> HIDE DEF r
    <3>3. RateInv([r EXCEPT !.count = @ + 1], Append(asks, ask), now)
      BY <3>1, <3>2, <2>2, <1>2, <1>4, <1>5, <1>6, EnforcedKeeps
    <3> QED
      BY <3>2, <3>3, <1>1
  <2>3. CASE ip \notin NotIps /\ ~Allows(limit, now)
    <3>1. RateInv(Rolls(limit, now), asks, now)
      BY <1>2, RollKeeps
    <3>2. limit' = Rolls(limit, now)
      BY <2>3, <1>1 DEF Asked
    <3>3. RateInv(Rolls(limit, now), Append(asks, ask), now)
      BY <3>1, <2>3, <1>2, <1>4, <1>5, <1>6, DroppedKeeps
    <3> QED
      BY <3>2, <3>3, <1>1
  <2> QED
    BY <2>1, <2>2, <2>3
<1>10. until > now => redis'[ip] = until
  BY <1>1, <1>2, <1>3 DEF RedisBlock, Set
<1>11. Cardinality({i \in DOMAIN asks' : asks'[i].enforced /\ asks'[i].at > now - RateWindow}) <= 2 * PerWindow
  BY <1>9, <1>2, RateIsBounded
<1>12. ~passed /\ ip \notin NotIps => \E i \in DOMAIN asks : asks[i].enforced /\ asks[i].at > now - RateWindow
  BY <1>2, <1>4, DroppedForARate
<1>13. BlockInv'
  BY <1>1, <1>2, <1>8, <1>9 DEF BlockInv
<1>14. BlockStep
  BY <1>1, <1>4, <1>6, <1>7, <1>8, <1>10, <1>11, <1>12 DEF BlockStep
<1> QED
  BY <1>13, <1>14

\* The door asks, and what has ended goes.
LEMMA AskKeeps ==
  ASSUME BlockInv, NEW ip \in Ips, Ask(ip)
  PROVE  BlockInv' /\ BlockStep
<1>1. memory' = Looked(memory, ip, now) /\ UNCHANGED <<now, limit, asks>>
  BY DEF Ask
<1>2. now \in Nat /\ ListOK(memory) /\ RateInv(limit, asks, now) /\ Len(asks) \in Nat
  BY DEF BlockInv, RateInv
<1>3. /\ DOMAIN memory' \subseteq DOMAIN memory
      /\ \A x \in DOMAIN memory' : memory'[x] = memory[x]
      /\ \A x \in DOMAIN memory : memory[x] > now => x \in DOMAIN memory'
  <2>1. \A x \in DOMAIN memory : memory[x] \in Nat
    BY <1>2 DEF ListOK
  <2> QED
    BY <1>1, <1>2, <2>1 DEF Looked
<1>4. ListOK(memory')
  BY <1>2, <1>3, FS_Subset DEF ListOK
<1>5. BlockStep
  BY <1>1, <1>2, <1>3 DEF BlockStep, ListOK
<1> QED
  BY <1>1, <1>2, <1>4, <1>5 DEF BlockInv

\* Time passes, at most to the horizon.
LEMMA TimeKeeps ==
  ASSUME BlockInv, now' \in Nat, now <= now', UNCHANGED blockVars
  PROVE  BlockInv' /\ BlockStep
<1>1. now \in Nat /\ ListOK(memory) /\ RateInv(limit, asks, now)
  BY DEF BlockInv
<1>2. UNCHANGED <<memory, limit, asks>>
  BY DEF blockVars
<1>3. RateInv(limit, asks, now')
  <2>1. /\ limit \in [from : Nat, count : Nat] /\ limit.from <= now /\ asks \in Seq(AskRecord)
        /\ \A i \in DOMAIN asks : asks[i].at <= now
    BY <1>1 DEF RateInv
  <2>2. limit.from <= now' /\ \A i \in DOMAIN asks : asks[i].at <= now'
    BY <2>1, <1>1, AsksAreNumbered
  <2> QED
    BY <2>2, <1>1 DEF RateInv
<1>4. BlockStep
  BY <1>1, <1>2 DEF BlockStep, ListOK, RateInv
<1> QED
  BY <1>1, <1>2, <1>3, <1>4 DEF BlockInv

LEMMA BlockStepKeeps == BlockInv /\ [Next]_vars => BlockInv' /\ BlockStep
<1> SUFFICES ASSUME BlockInv, [Next]_vars
             PROVE  BlockInv' /\ BlockStep
  OBVIOUS
<1> DEFINE Still == now' = now /\ UNCHANGED blockVars
<1>0. now \in Nat
  BY DEF BlockInv
<1>1. ASSUME Still PROVE BlockInv' /\ BlockStep
  BY <1>0, <1>1, TimeKeeps
<1>2. ASSUME NEW actor \in Actors, NEW ip \in Ips, NEW path \in Paths, Arrive(actor, ip, path) PROVE Still
  BY <1>2 DEF Arrive
<1>3. ASSUME NEW v \in DOMAIN visits, Inspect(v) PROVE Still
  BY <1>3 DEF Inspect
<1>4. ASSUME NEW v \in DOMAIN visits, Answer(v) PROVE Still
  BY <1>4 DEF Answer
<1>5. ASSUME NEW v \in DOMAIN visits, NEW outcome \in Outcomes, Finish(v, outcome) PROVE Still
  BY <1>5 DEF Finish
<1>6. ASSUME NEW ip \in Ips, NEW port \in Ports, Touch(ip, port) PROVE Still
  BY <1>6 DEF Touch
<1>7. ASSUME NEW t \in DOMAIN touches, Report(t) PROVE Still
  BY <1>7 DEF Report
<1>8. ASSUME NEW ip \in Ips, NEW path \in Paths, Begin(ip, path) PROVE Still
  BY <1>8 DEF Begin
<1>9. ASSUME NEW p \in pending, NEW kind \in Kinds, Settle(p, kind) PROVE Still
  BY <1>9 DEF Settle
<1>10. ASSUME Evaluate \/ ReadCounts PROVE Still
  BY <1>10 DEF Evaluate, ReadCounts
<1>11. ASSUME NEW ip \in Ips \cup NotIps, NEW span \in Spans, Block(ip, span) PROVE BlockInv' /\ BlockStep
  BY <1>11, BlockKeeps
<1>12. ASSUME NEW ip \in Ips, Ask(ip) PROVE BlockInv' /\ BlockStep
  BY <1>12, AskKeeps
<1>13. ASSUME NEW ip \in Ips, NEW agent \in Agents, SayWho(ip, agent) PROVE Still
  BY <1>13 DEF SayWho
<1>14. ASSUME NEW q \in DOMAIN resolver.queries, NEW answer \in AnswersTo(resolver.queries[q].key), DnsAnswers(q, answer)
       PROVE  Still
  BY <1>14 DEF DnsAnswers
<1>15. ASSUME NEW id \in {"googlebot", "gptbot"}, NEW ip \in Ips, NEW page \in PagesFor(ip), RefreshRanges(id, page)
       PROVE  Still
  BY <1>15 DEF RefreshRanges
<1>16. ASSUME NEW ip \in Ips, NEW agent \in {<<"curl">>, <<"firefox">>}, RecordHit(ip, agent) PROVE Still
  BY <1>16 DEF RecordHit
<1>17. ASSUME NEW l \in DOMAIN lookups, NEW hosts \in {<<>>, <<Proper>>, <<<<"monitor", "net">>>>}, NamesArrive(l, hosts)
       PROVE  Still
  BY <1>17 DEF NamesArrive
<1>18. ASSUME TimePasses PROVE BlockInv' /\ BlockStep
  <2>1. now' = now + 1 /\ UNCHANGED blockVars
    BY <1>18 DEF TimePasses, Tick
  <2>2. now' \in Nat /\ now <= now'
    BY <2>1, <1>0
  <2> QED
    BY <2>1, <2>2, TimeKeeps
<1>19. ASSUME UNCHANGED vars PROVE Still
  BY <1>19 DEF vars
<1> HIDE DEF Still
<1> QED
  BY ZenonT(60), <1>1, <1>2, <1>3, <1>4, <1>5, <1>6, <1>7, <1>8, <1>9, <1>10, <1>11, <1>12, <1>13, <1>14, <1>15, <1>16,
     <1>17, <1>18, <1>19 DEF Next

LEMMA BlockInit == Init => BlockInv
<1> SUFFICES ASSUME Init PROVE BlockInv
  OBVIOUS
<1>1. now = 0 /\ memory = <<>> /\ limit = [from |-> 0, count |-> 0] /\ asks = <<>>
  BY DEF Init, FreshLimit
<1>2. ListOK(memory)
  BY <1>1, FS_EmptySet DEF ListOK
<1>3. EnforcedFrom(asks, 0) = {} /\ EnforcedBefore(asks, 0) = {}
  BY <1>1 DEF EnforcedFrom, EnforcedBefore
<1>4. Cardinality({}) = 0
  BY FS_EmptySet
<1>5. asks \in Seq(AskRecord) /\ DOMAIN asks = {}
  BY <1>1
<1>6. limit \in [from : Nat, count : Nat] /\ limit.from = 0 /\ limit.count = 0
  BY <1>1
<1>7. Cardinality(EnforcedFrom(asks, limit.from)) = 0 /\ Cardinality(EnforcedBefore(asks, limit.from)) = 0
  BY <1>3, <1>4, <1>6
<1>8. PerWindow \in Nat
  BY BlockingAssumption
<1>9. RateInv(limit, asks, now)
  BY <1>1, <1>5, <1>6, <1>7, <1>8 DEF RateInv
<1> QED
  BY <1>1, <1>2, <1>9 DEF BlockInv

\* A block is never shortened by a later, shorter one, and is shed only from a full list, among
\* those that end soonest (blocklist.ts:39, :64); what is asked for is in force in both lists; and
\* no stretch of time as long as a window hands an enforcer more than two windows may
\* (firewall.ts:63), however the windows fall.
THEOREM BlocksAreHeld == Spec => BlocksHold
<1>1. BlockInv /\ [Next]_vars => [BlockStep]_vars
  BY BlockStepKeeps
<1> QED
  BY BlockInit, BlockStepKeeps, <1>1, PTL DEF Spec, BlocksHold, BlockStep
=============================================================================
