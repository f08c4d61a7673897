---------------------------- MODULE ConsoleProofs ----------------------------
(***************************************************************************)
(* What Console guarantees for every number of viewers, incidents, attempts, *)
(* browsers and filters, and every bound on them: the saved filters, the     *)
(* doors, and what viewers and a page are shown.                            *)
(***************************************************************************)
EXTENDS Console, DataTheorems

(* ---------------------------- lists of filters --------------------------- *)

Distinct(list) == \A i, j \in DOMAIN list : list[i] = list[j] => i = j

SavedLists == {list \in Seq(Names) : Distinct(list) /\ Len(list) <= MaxSaved}

\* Everything of a sequence is where it was when all of it is kept.
LEMMA KeepingAll ==
  ASSUME NEW A, NEW s \in Seq(A), NEW picked, 1..Len(s) \subseteq picked
  PROVE  Keeping(s, picked) = s
<1> DEFINE n == Len(s)
           o == Keeping(s, picked)
           m == Len(o)
<1>1. o \in Seq(A) /\ \E g : Picks(g, o, s, picked, n)
  BY KeepingPicks
<1>2. PICK g : Picks(g, o, s, picked, n)
  BY <1>1
<1>3. n \in Nat /\ m \in Nat /\ picked \cap (1..n) = 1..n
  BY <1>1, LenProperties
<1>4. /\ g \in [1..m -> 1..n]
      /\ \A i \in 1..m : o[i] = s[g[i]]
      /\ \A i, j \in 1..m : i < j => g[i] < g[j]
      /\ \A k \in 1..n : \E i \in 1..m : g[i] = k
  BY <1>2, <1>3 DEF Picks
<1> HIDE DEF n, o, m
<1> DEFINE T == {k \in 0..m : \A i \in 1..k : g[i] = i}
<1>5. 0 \in T
  BY <1>3
<1>6. ASSUME NEW k \in 0..(m - 1), k \in T PROVE k + 1 \in T
  <2>1. k + 1 \in 1..m /\ g[k + 1] \in 1..n
    BY <1>3, <1>4
  <2>2. \A i \in 1..k : i \in 1..m /\ g[i] = i
    BY <1>3, <1>6
  <2>3. k < g[k + 1]
    <3>1. CASE k = 0
      BY <2>1, <3>1
    <3>2. CASE k # 0
      <4>1. k \in 1..m /\ k < k + 1 /\ g[k] = k
        BY <2>2, <3>2
      <4> QED
        BY <1>4, <2>1, <4>1
    <3> QED
      BY <3>1, <3>2
  <2>4. k + 1 \in 1..n
    BY <1>3, <2>1, <2>3
  <2>5. PICK i \in 1..m : g[i] = k + 1
    BY <1>4, <2>4
  <2>6. i \notin 1..k
    BY <2>2, <2>5
  <2>7. k + 1 < i => g[k + 1] < k + 1
    BY <1>4, <2>1, <2>5
  <2>8. i = k + 1
    BY <2>1, <2>3, <2>6, <2>7
  <2>9. \A j \in 1..(k + 1) : j \in 1..k \/ j = k + 1
    OBVIOUS
  <2> QED
    BY <2>1, <2>2, <2>5, <2>8, <2>9
<1> HIDE DEF T
<1>7. 0..m \subseteq T
  BY <1>3, <1>5, <1>6, UpTo
<1>8. \A i \in 1..m : g[i] = i
  <2>1. m \in 0..m
    BY <1>3
  <2> QED
    BY <1>7, <2>1 DEF T
<1>9. m = n
  <2>1. n # 0 => \E i \in 1..m : i = n
    BY <1>3, <1>4, <1>8
  <2>2. m # 0 => m \in 1..n
    <3>1. m # 0 => m \in 1..m
      BY <1>3
    <3> QED
      BY <1>4, <1>8, <3>1
  <2> QED
    BY <1>3, <2>1, <2>2
<1>10. \A i \in 1..n : o[i] = s[i]
  BY <1>4, <1>8, <1>9
<1> QED
  BY <1>1, <1>9, <1>10, SeqEqual DEF n, o, m

\* Without a name, a list has all the others, in their order.
LEMMA OthersAre ==
  ASSUME NEW list \in Seq(Names), NEW name
  PROVE  /\ Others(list, name) \in Seq(Names)
         /\ ToSet(Others(list, name)) = ToSet(list) \ {name}
         /\ Distinct(list) => Distinct(Others(list, name)) /\ Len(Others(list, name)) <= Len(list)
         /\ name \notin ToSet(list) => Others(list, name) = list
<1> DEFINE picked == {i \in DOMAIN list : list[i] # name}
           o == Others(list, name)
           n == Len(list)
           m == Len(o)
<1>1. o = Keeping(list, picked)
  BY DEF Others
<1>2. n \in Nat /\ DOMAIN list = 1..n
  OBVIOUS
<1>3. \A i : i \in picked <=> i \in 1..n /\ list[i] # name
  BY <1>2
<1> HIDE DEF picked, o
<1>4. o \in Seq(Names) /\ \E g : Picks(g, o, list, picked, n)
  BY <1>1, KeepingPicks
<1>5. PICK g : Picks(g, o, list, picked, n)
  BY <1>4
<1>6. m \in Nat /\ DOMAIN o = 1..m
  BY <1>4
<1> HIDE DEF n, m
<1>7. /\ g \in [1..m -> picked \cap (1..n)]
      /\ \A i \in 1..m : o[i] = list[g[i]]
      /\ \A i, j \in 1..m : i < j => g[i] < g[j]
      /\ \A k \in picked \cap (1..n) : \E i \in 1..m : g[i] = k
  BY <1>5 DEF Picks, m
<1>8. ToSet(o) = ToSet(list) \ {name}
  <2>1. ASSUME NEW x \in ToSet(o) PROVE x \in ToSet(list) \ {name}
    <3>1. PICK i \in 1..m : o[i] = x
      BY <1>6, <2>1 DEF ToSet
    <3> QED
      BY <1>2, <1>3, <1>7, <3>1 DEF ToSet
  <2>2. ASSUME NEW x \in ToSet(list) \ {name} PROVE x \in ToSet(o)
    <3>1. PICK k \in 1..n : list[k] = x
      BY <1>2, <2>2 DEF ToSet
    <3>2. k \in picked \cap (1..n)
      BY <1>3, <2>2, <3>1
    <3>3. PICK i \in 1..m : g[i] = k
      BY <1>7, <3>2
    <3> QED
      BY <1>6, <1>7, <3>1, <3>3 DEF ToSet
  <2> QED
    BY <2>1, <2>2
<1>a. \A i, j \in 1..m : g[i] = g[j] => i = j
  <2> SUFFICES ASSUME NEW i \in 1..m, NEW j \in 1..m, g[i] = g[j] PROVE i = j
    OBVIOUS
  <2>1. g[i] \in Nat /\ g[j] \in Nat /\ (i < j => g[i] < g[j]) /\ (j < i => g[j] < g[i])
    BY <1>7
  <2> QED
    BY <2>1
<1>9. Distinct(list) => Distinct(o)
  <2> SUFFICES ASSUME Distinct(list), NEW i \in 1..m, NEW j \in 1..m, o[i] = o[j] PROVE i = j
    BY <1>6 DEF Distinct
  <2>1. g[i] \in 1..n /\ g[j] \in 1..n /\ list[g[i]] = list[g[j]]
    BY <1>7
  <2>2. g[i] = g[j]
    BY <1>2, <2>1 DEF Distinct
  <2> QED
    BY <1>a, <2>2
<1>10. m <= n
  <2>1. m = 0 \/ m \in 1..m
    BY <1>6
  <2>2. IsFiniteSet(1..n) /\ Cardinality(1..n) = n /\ IsFiniteSet(1..m) /\ Cardinality(1..m) = m
    BY <1>2, <1>6, Positions
  <2>3. g \in Injection(1..m, 1..n)
    <3>1. g \in [1..m -> 1..n]
      BY <1>7
    <3> QED
      BY <1>a, <3>1 DEF Injection, IsInjective
  <2> QED
    BY <2>2, <2>3, FS_Injection
<1>11. name \notin ToSet(list) => o = list
  <2> SUFFICES ASSUME name \notin ToSet(list) PROVE o = list
    OBVIOUS
  <2>1. 1..n \subseteq picked
    BY <1>2, <1>3 DEF ToSet
  <2> QED
    BY <1>1, <2>1, KeepingAll DEF n
<1> QED
  BY <1>4, <1>8, <1>9, <1>10, <1>11 DEF o, n, m

\* The newest of a list, as many as are picked.
LEMMA KeptAre ==
  ASSUME NEW list \in Seq(Names)
  PROVE  /\ Kept(list) \in Seq(Names) /\ Len(Kept(list)) <= MaxSaved
         /\ Distinct(list) => Distinct(Kept(list))
         /\ Len(list) <= MaxSaved => Kept(list) = list
         /\ Len(Kept(list)) # MaxSaved => Kept(list) = list
         /\ list # <<>> => list[1] \in ToSet(Kept(list))
<1> DEFINE m == IF Len(list) < MaxSaved THEN Len(list) ELSE MaxSaved
           s == SubSeq(list, 1, m)
<1>1. Kept(list) = s
  BY DEF Kept
<1>2. MaxSaved \in Nat \ {0} /\ Len(list) \in Nat
  BY PageAssumption
<1>3. m \in 0..Len(list) /\ m <= MaxSaved /\ (m = Len(list) \/ m = MaxSaved)
  BY <1>2
<1> HIDE DEF m
<1>4. s \in Seq(Names) /\ Len(s) = m /\ \A i \in 1..m : s[i] = list[i]
  BY <1>2, <1>3
<1>5. m = Len(list) => s = list
  BY <1>4, SeqEqual
<1>6. Distinct(list) => Distinct(s)
  BY <1>2, <1>3, <1>4 DEF Distinct
<1> HIDE DEF s
<1>7. ASSUME list # <<>> PROVE list[1] \in ToSet(s)
  <2>1. 1 \in 1..m
    BY <1>2, <1>3, <1>7
  <2>2. 1 \in DOMAIN s /\ s[1] = list[1]
    BY <1>4, <2>1
  <2> QED
    BY <2>2 DEF ToSet
<1>8. Len(list) <= MaxSaved => m = Len(list)
  BY <1>2 DEF m
<1> QED
  BY <1>1, <1>2, <1>3, <1>4, <1>5, <1>6, <1>7, <1>8

\* A list with a filter saved to it: that one first, the oldest pushed out when it is full.
LEMMA SavesAre ==
  ASSUME NEW list \in SavedLists, NEW name \in Names
  PROVE  /\ Saves(list, name) \in SavedLists
         /\ name \in ToSet(Saves(list, name))
         /\ Len(Saves(list, name)) # MaxSaved => ToSet(list) \subseteq ToSet(Saves(list, name))
         /\ name \notin ToSet(list) /\ Len(list) < MaxSaved => Saves(list, name) = <<name>> \o list
<1> DEFINE o == Others(list, name)
           w == <<name>> \o o
           s == Kept(w)
<1>1. Saves(list, name) = s /\ list \in Seq(Names) /\ Distinct(list) /\ Len(list) <= MaxSaved
  BY DEF Saves, SavedLists
<1>2. /\ o \in Seq(Names) /\ ToSet(o) = ToSet(list) \ {name} /\ Distinct(o)
      /\ name \notin ToSet(list) => o = list
  BY <1>1, OthersAre
<1> HIDE DEF o
<1>3. /\ w \in Seq(Names) /\ Len(w) = Len(o) + 1 /\ w[1] = name /\ Len(o) \in Nat
      /\ \A i \in 1..Len(o) : w[i + 1] = o[i]
  BY <1>2
<1> HIDE DEF w
<1>4. \A i \in 1..Len(w) : i # 1 => i - 1 \in 1..Len(o) /\ w[i] = o[i - 1]
  <2> SUFFICES ASSUME NEW i \in 1..Len(w), i # 1 PROVE i - 1 \in 1..Len(o) /\ w[i] = o[i - 1]
    OBVIOUS
  <2>1. i - 1 \in 1..Len(o) /\ (i - 1) + 1 = i
    BY <1>3
  <2> QED
    BY <1>3, <2>1
<1>5. Distinct(w)
  <2> SUFFICES ASSUME NEW i \in 1..Len(w), NEW j \in 1..Len(w), w[i] = w[j] PROVE i = j
    BY <1>3 DEF Distinct
  <2>1. \A k \in 1..Len(w) : k # 1 => w[k] # name
    <3> SUFFICES ASSUME NEW k \in 1..Len(w), k # 1 PROVE w[k] # name
      OBVIOUS
    <3>1. k - 1 \in DOMAIN o /\ w[k] = o[k - 1]
      BY <1>2, <1>4
    <3>2. w[k] \in ToSet(o)
      BY <3>1 DEF ToSet
    <3> QED
      BY <1>2, <3>2
  <2>2. CASE i = 1 \/ j = 1
    BY <1>3, <2>1, <2>2
  <2>3. CASE i # 1 /\ j # 1
    <3>1. i - 1 = j - 1
      BY <1>2, <1>4, <2>3 DEF Distinct
    <3> QED
      BY <3>1
  <2> QED
    BY <2>2, <2>3
<1>6. ToSet(list) \subseteq ToSet(w)
  <2> SUFFICES ASSUME NEW x \in ToSet(list) PROVE x \in ToSet(w)
    OBVIOUS
  <2>1. CASE x = name
    <3>1. 1 \in DOMAIN w
      BY <1>3
    <3> QED
      BY <1>3, <2>1, <3>1 DEF ToSet
  <2>2. CASE x # name
    <3>1. PICK i \in DOMAIN o : o[i] = x
      BY <1>2, <2>2 DEF ToSet
    <3>2. i \in 1..Len(o) /\ i + 1 \in DOMAIN w
      BY <1>2, <1>3, <3>1
    <3> QED
      BY <1>3, <3>1, <3>2 DEF ToSet
  <2> QED
    BY <2>1, <2>2
<1>7. /\ s \in Seq(Names) /\ Len(s) <= MaxSaved /\ Distinct(s)
      /\ Len(w) <= MaxSaved => s = w
      /\ Len(s) # MaxSaved => s = w
      /\ w # <<>> => w[1] \in ToSet(s)
  BY <1>3, <1>5, KeptAre
<1>8. w # <<>>
  BY <1>3
<1>9. ASSUME name \notin ToSet(list), Len(list) < MaxSaved PROVE s = <<name>> \o list
  <2>1. o = list /\ Len(w) <= MaxSaved
    BY <1>1, <1>2, <1>3, <1>9, PageAssumption
  <2> QED
    BY <1>7, <2>1 DEF w
<1> HIDE DEF s
<1> QED
  BY <1>1, <1>3, <1>6, <1>7, <1>8, <1>9 DEF SavedLists

(* ----------------------------- saved filters ----------------------------- *)

Edits     == [at : {"none", "answered"}, list : SavedLists]
Refreshed == [at : {"none", "asked", "handing"}, list : SavedLists, todo : Seq(Names),
              copy : SavedLists, alone : BOOLEAN]
Browser   == [copy : SavedLists, edit : Edits, refresh : Refreshed]

\* What is still to be handed over is the oldest of the copy, the oldest first.
HandingOver(r) ==
  /\ Len(r.todo) <= Len(r.copy)
  /\ \A i \in DOMAIN r.todo : r.todo[i] = r.copy[Len(r.todo) + 1 - i]

\* Alone in handing its copy over, a browser has restored what it handed over.
Restored(r, list) ==
  r.at = "handing" /\ r.alone => list = SubSeq(r.copy, Len(r.todo) + 1, Len(r.copy))

FilterInv ==
  /\ saved \in SavedLists /\ file \in [has : BOOLEAN, list : SavedLists]
  /\ browsers \in [Browsers -> Browser]
  /\ \A b \in Browsers : HandingOver(browsers[b].refresh) /\ Restored(browsers[b].refresh, saved)
  /\ file.has => kept \subseteq ToSet(saved)

LEMMA EmptyLists ==
  /\ <<>> \in SavedLists /\ NoEdit \in Edits /\ NoRefresh \in Refreshed
  /\ HandingOver(NoRefresh) /\ NoRefresh.at = "none"
<1>1. <<>> \in Seq(Names) /\ Len(<<>>) = 0 /\ Distinct(<<>>) /\ MaxSaved \in Nat
  BY PageAssumption DEF Distinct
<1>2. <<>> \in SavedLists
  BY <1>1 DEF SavedLists
<1>3. HandingOver(NoRefresh)
  BY DEF HandingOver, NoRefresh
<1> QED
  BY <1>1, <1>2, <1>3 DEF NoEdit, Edits, NoRefresh, Refreshed

LEMMA BrowserParts ==
  ASSUME NEW w \in Browser
  PROVE  /\ \A e \in Edits : [w EXCEPT !.edit = e] \in Browser /\ [w EXCEPT !.edit = e].refresh = w.refresh
         /\ \A r \in Refreshed : [w EXCEPT !.refresh = r] \in Browser /\ [w EXCEPT !.refresh = r].refresh = r
         /\ \A c \in SavedLists : [w EXCEPT !.copy = c] \in Browser /\ [w EXCEPT !.copy = c].refresh = w.refresh
         /\ w.copy \in SavedLists /\ w.edit \in Edits /\ w.refresh \in Refreshed
BY DEF Browser

LEMMA RefreshParts ==
  ASSUME NEW r \in Refreshed
  PROVE  /\ r.list \in SavedLists /\ r.copy \in SavedLists /\ r.todo \in Seq(Names)
         /\ [r EXCEPT !.alone = FALSE] \in Refreshed
         /\ [r EXCEPT !.alone = FALSE].todo = r.todo /\ [r EXCEPT !.alone = FALSE].copy = r.copy
         /\ ~[r EXCEPT !.alone = FALSE].alone
BY DEF Refreshed

\* With another hand in the list, nobody hands it back alone.
LEMMA ContestedKeeps ==
  ASSUME FilterInv
  PROVE  /\ Contested \in [Browsers -> Browser]
         /\ \A b \in Browsers : /\ HandingOver(Contested[b].refresh)
                                /\ \A list : Restored(Contested[b].refresh, list)
<1> SUFFICES ASSUME NEW b \in Browsers
             PROVE  /\ Contested[b] \in Browser /\ HandingOver(Contested[b].refresh)
                    /\ \A list : Restored(Contested[b].refresh, list)
  BY DEF Contested
<1> DEFINE w == browsers[b]
           r == [w.refresh EXCEPT !.alone = FALSE]
<1>1. w \in Browser /\ HandingOver(w.refresh)
  BY DEF FilterInv
<1>2. Contested[b] = [w EXCEPT !.refresh = r]
  BY <1>1 DEF Contested, Browser
<1>3. w.refresh \in Refreshed
  BY <1>1, BrowserParts
<1>4. r \in Refreshed /\ ~r.alone /\ r.todo = w.refresh.todo /\ r.copy = w.refresh.copy
  BY <1>3, RefreshParts
<1> HIDE DEF w, r
<1>5. Contested[b] \in Browser /\ Contested[b].refresh = r
  BY <1>1, <1>2, <1>4, BrowserParts
<1>6. HandingOver(r)
  BY <1>1, <1>4 DEF HandingOver
<1> QED
  BY <1>4, <1>5, <1>6 DEF Restored

\* An edit of the list that everybody hears of: what it may do to the invariant.
LEMMA EditKeeps ==
  ASSUME FilterInv, NEW list \in SavedLists, saved' = list,
         file' \in [has : BOOLEAN, list : SavedLists], file'.has = file.has,
         file.has => kept' \subseteq ToSet(list),
         NEW b \in Browsers,
         \/ \E e \in Edits : browsers' = [Contested EXCEPT ![b].edit = e]
         \/ \E c \in SavedLists : browsers' = [Contested EXCEPT ![b].copy = c]
         \/ browsers' = Contested
  PROVE  FilterInv'
<1>1. /\ Contested \in [Browsers -> Browser]
      /\ \A x \in Browsers : HandingOver(Contested[x].refresh) /\ Restored(Contested[x].refresh, list)
  BY ContestedKeeps
<1> DEFINE w == Contested[b]
<1>2. w \in Browser
  BY <1>1
<1>3. \E v \in Browser : browsers' = [Contested EXCEPT ![b] = v] /\ v.refresh = w.refresh
  <2>1. CASE \E e \in Edits : browsers' = [Contested EXCEPT ![b].edit = e]
    <3>1. PICK e \in Edits : browsers' = [Contested EXCEPT ![b].edit = e]
      BY <2>1
    <3>2. [w EXCEPT !.edit = e] \in Browser /\ [w EXCEPT !.edit = e].refresh = w.refresh
      BY <1>2, BrowserParts
    <3>3. browsers' = [Contested EXCEPT ![b] = [w EXCEPT !.edit = e]]
      BY <3>1
    <3> QED
      BY <3>2, <3>3
  <2>2. CASE \E c \in SavedLists : browsers' = [Contested EXCEPT ![b].copy = c]
    <3>1. PICK c \in SavedLists : browsers' = [Contested EXCEPT ![b].copy = c]
      BY <2>2
    <3>2. [w EXCEPT !.copy = c] \in Browser /\ [w EXCEPT !.copy = c].refresh = w.refresh
      BY <1>2, BrowserParts
    <3>3. browsers' = [Contested EXCEPT ![b] = [w EXCEPT !.copy = c]]
      BY <3>1
    <3> QED
      BY <3>2, <3>3
  <2>3. CASE browsers' = Contested
    BY <1>1, <1>2, <2>3
  <2> QED
    BY <2>1, <2>2, <2>3
<1>4. PICK v \in Browser : browsers' = [Contested EXCEPT ![b] = v] /\ v.refresh = w.refresh
  BY <1>3
<1>5. /\ browsers' \in [Browsers -> Browser]
      /\ \A x \in Browsers : browsers'[x].refresh = Contested[x].refresh
  BY <1>1, <1>4
<1> QED
  BY <1>1, <1>5 DEF FilterInv

\* A browser's own step, which leaves the list alone.
LEMMA OwnStepKeeps ==
  ASSUME FilterInv, UNCHANGED <<saved, file, kept>>, NEW b \in Browsers, NEW v \in Browser,
         browsers' = [browsers EXCEPT ![b] = v], HandingOver(v.refresh), Restored(v.refresh, saved)
  PROVE  FilterInv'
BY DEF FilterInv

LEMMA Persisted ==
  ASSUME FilterInv, NEW list \in SavedLists, Persists(list)
  PROVE  /\ saved' = list /\ file' \in [has : BOOLEAN, list : SavedLists] /\ file'.has = file.has
BY DEF FilterInv, Persists

\* What was kept is still listed when a filter is saved, or was pushed out.
LEMMA PushedKeeps ==
  ASSUME FilterInv, NEW name \in Names, saved' = Saves(saved, name)
  PROVE  saved' \in SavedLists /\ (file.has => Pushed \cup {name} \subseteq ToSet(saved'))
<1>1. /\ saved' \in SavedLists /\ name \in ToSet(saved')
      /\ Len(saved') # MaxSaved => ToSet(saved) \subseteq ToSet(saved')
  BY SavesAre DEF FilterInv
<1>2. ASSUME file.has PROVE Pushed \subseteq ToSet(saved')
  <2>1. kept \subseteq ToSet(saved)
    BY <1>2 DEF FilterInv
  <2>2. CASE Len(saved') = MaxSaved
    BY <2>2 DEF Pushed
  <2>3. CASE Len(saved') # MaxSaved
    BY <1>1, <2>1, <2>3 DEF Pushed
  <2> QED
    BY <2>2, <2>3
<1> QED
  BY <1>1, <1>2

LEMMA SaveFilterKeeps ==
  ASSUME FilterInv, NEW b \in Browsers, NEW name \in Names, SaveFilter(b, name) \/ SaveUnwritten(b, name)
  PROVE  FilterInv'
<1> DEFINE e == [at |-> "answered", list |-> saved']
<1>1. /\ saved' = Saves(saved, name)
      /\ browsers' = [Contested EXCEPT ![b].edit = e] /\ kept' = Pushed \cup {name}
  BY DEF SaveFilter, SaveUnwritten, Persists, Unwritten
<1>2. saved' \in SavedLists /\ (file.has => kept' \subseteq ToSet(saved'))
  BY <1>1, PushedKeeps
<1>3. file' \in [has : BOOLEAN, list : SavedLists] /\ file'.has = file.has
  <2>1. CASE SaveFilter(b, name)
    <3>1. Persists(saved')
      BY <1>1, <2>1 DEF SaveFilter
    <3> QED
      BY <1>2, <3>1, Persisted
  <2>2. CASE SaveUnwritten(b, name)
    BY <2>2 DEF SaveUnwritten, Unwritten, FilterInv
  <2> QED
    BY <2>1, <2>2
<1>4. e \in Edits
  BY <1>2 DEF Edits
<1> HIDE DEF e
<1> QED
  BY <1>1, <1>2, <1>3, <1>4, EditKeeps

LEMMA DeleteFilterKeeps ==
  ASSUME FilterInv, NEW b \in Browsers, NEW name \in Names, DeleteFilter(b, name)
  PROVE  FilterInv'
<1> DEFINE left == Others(saved, name)
           e == [at |-> "answered", list |-> saved']
<1>1. /\ IF Len(left) = Len(saved) THEN UNCHANGED <<saved, file>> ELSE Persists(left)
      /\ browsers' = [Contested EXCEPT ![b].edit = e] /\ kept' = kept \ {name}
  BY DEF DeleteFilter
<1>2. saved \in Seq(Names) /\ Distinct(saved) /\ Len(saved) \in Nat /\ Len(saved) <= MaxSaved /\ MaxSaved \in Nat
  BY PageAssumption DEF FilterInv, SavedLists
<1>3. left \in SavedLists /\ ToSet(left) = ToSet(saved) \ {name}
  <2>1. /\ left \in Seq(Names) /\ ToSet(left) = ToSet(saved) \ {name}
        /\ Distinct(left) /\ Len(left) <= Len(saved)
    BY <1>2, OthersAre
  <2> HIDE DEF left
  <2>2. Len(left) <= MaxSaved
    BY <1>2, <2>1
  <2> QED
    BY <2>1, <2>2 DEF SavedLists
<1> HIDE DEF left
<1>4. /\ saved' \in SavedLists /\ ToSet(saved) \ {name} \subseteq ToSet(saved')
      /\ file' \in [has : BOOLEAN, list : SavedLists] /\ file'.has = file.has
  <2>1. CASE UNCHANGED <<saved, file>>
    BY <2>1 DEF FilterInv
  <2>2. CASE Persists(left)
    BY <1>3, <2>2, Persisted
  <2> QED
    BY <1>1, <2>1, <2>2
<1>5. file.has => kept' \subseteq ToSet(saved')
  BY <1>1, <1>4 DEF FilterInv
<1>6. e \in Edits
  BY <1>4 DEF Edits
<1> HIDE DEF e
<1> QED
  BY <1>1, <1>4, <1>5, <1>6, EditKeeps

LEMMA FailEditKeeps ==
  ASSUME FilterInv, NEW b \in Browsers, NEW copy \in SavedLists, NEW list \in SavedLists,
         FailEdit(b, copy, list)
  PROVE  FilterInv'
<1>1. CASE UNCHANGED <<saved, file, kept>> /\ browsers' = [browsers EXCEPT ![b].copy = copy]
  <2> DEFINE w == browsers[b]
             v == [w EXCEPT !.copy = copy]
  <2>1. w \in Browser /\ HandingOver(w.refresh) /\ Restored(w.refresh, saved)
    BY DEF FilterInv
  <2>2. v \in Browser /\ v.refresh = w.refresh
    BY <2>1, BrowserParts
  <2>3. browsers' = [browsers EXCEPT ![b] = v]
    BY <1>1
  <2> HIDE DEF w, v
  <2> QED
    BY <1>1, <2>1, <2>2, <2>3, OwnStepKeeps
<1>2. CASE /\ Persists(list)
           /\ kept' = kept \cap ToSet(list) /\ browsers' = [Contested EXCEPT ![b].copy = copy]
  <2>1. saved' = list /\ file' \in [has : BOOLEAN, list : SavedLists] /\ file'.has = file.has
    BY <1>2, Persisted
  <2> QED
    BY <1>2, <2>1, EditKeeps
<1> QED
  BY <1>1, <1>2 DEF FailEdit

LEMMA PageListsKeep ==
  ASSUME FilterInv, NEW b \in Browsers, LearnEdit(b) \/ OpenPage(b) \/ FetchList(b) \/ LearnList(b) \/ FailHandOne(b)
  PROVE  FilterInv'
<1> DEFINE w == browsers[b]
           r == w.refresh
<1>1. /\ w \in Browser /\ HandingOver(r) /\ Restored(r, saved) /\ saved \in SavedLists
      /\ w.copy \in SavedLists /\ w.edit \in Edits /\ r \in Refreshed
  <2>1. w \in Browser
    BY DEF FilterInv
  <2> QED
    BY <2>1, BrowserParts DEF FilterInv
<1>2. SUFFICES \E v \in Browser : /\ browsers' = [browsers EXCEPT ![b] = v]
                                  /\ HandingOver(v.refresh) /\ Restored(v.refresh, saved)
  <2>1. UNCHANGED <<saved, file, kept>>
    BY DEF LearnEdit, OpenPage, FetchList, LearnList, FailHandOne
  <2> HIDE DEF w
  <2> QED
    BY <2>1, OwnStepKeeps, Zenon
<1>3. CASE LearnEdit(b)
  <2> DEFINE c == [w EXCEPT !.copy = w.edit.list]
             v == [c EXCEPT !.edit = NoEdit]
  <2>1. w.edit.list \in SavedLists
    BY <1>1 DEF Edits
  <2>2. c \in Browser /\ c.refresh = r
    BY <1>1, <2>1, BrowserParts
  <2>3. v \in Browser /\ v.refresh = r
    BY <2>2, BrowserParts, EmptyLists
  <2>4. browsers' = [browsers EXCEPT ![b] = v]
    BY <1>3 DEF LearnEdit
  <2> HIDE DEF v, w
  <2> QED
    BY <1>1, <2>3, <2>4
<1>4. CASE OpenPage(b)
  <2> DEFINE n == [NoRefresh EXCEPT !.at = "asked", !.copy = w.copy]
             e == [w EXCEPT !.edit = NoEdit]
             v == [e EXCEPT !.refresh = n]
  <2>1. n \in Refreshed /\ n.at = "asked" /\ HandingOver(n)
    <3>1. n \in Refreshed /\ n.todo = <<>> /\ n.at = "asked" /\ n.copy = w.copy
      BY <1>1, EmptyLists DEF NoRefresh, Refreshed
    <3>2. Len(w.copy) \in Nat /\ Len(<<>>) = 0
      BY <1>1 DEF SavedLists
    <3> HIDE DEF n, w
    <3> QED
      BY <3>1, <3>2 DEF HandingOver
  <2>2. e \in Browser
    BY <1>1, BrowserParts, EmptyLists
  <2>3. browsers' = [browsers EXCEPT ![b] = v]
    BY <1>4 DEF OpenPage
  <2> HIDE DEF n, e
  <2>4. v \in Browser /\ v.refresh = n
    BY <2>1, <2>2, BrowserParts
  <2> HIDE DEF v
  <2> QED
    BY <2>1, <2>3, <2>4 DEF Restored
<1>5. CASE FetchList(b)
  <2> DEFINE n == [r EXCEPT !.at = "handing", !.list = saved, !.alone = saved = <<>>, !.todo = HandBack(saved, r.copy)]
             v == [w EXCEPT !.refresh = n]
             L == Len(r.copy)
  <2>1. browsers' = [browsers EXCEPT ![b] = v]
    BY <1>5 DEF FetchList
  <2>2. r.copy \in SavedLists /\ r.copy \in Seq(Names) /\ L \in Nat
    BY <1>1 DEF Refreshed, SavedLists
  <2>3. HandBack(saved, r.copy) \in Seq(Names) /\ Len(HandBack(saved, r.copy)) <= L
        /\ (saved = <<>> => Len(HandBack(saved, r.copy)) = L)
        /\ \A i \in DOMAIN HandBack(saved, r.copy) :
             HandBack(saved, r.copy)[i] = r.copy[Len(HandBack(saved, r.copy)) + 1 - i]
    <3>1. CASE saved = <<>>
      <4> DEFINE back == [i \in 1..L |-> r.copy[(L - i) + 1]]
      <4>1. HandBack(saved, r.copy) = back
        BY <3>1 DEF HandBack, Reverse
      <4>2. \A i \in 1..L : (L - i) + 1 \in 1..L /\ (L - i) + 1 = L + 1 - i
        BY <2>2
      <4>3. back \in [1..L -> Names]
        BY <2>2, <4>2
      <4>4. back \in Seq(Names) /\ Len(back) = L /\ DOMAIN back = 1..L
        BY <2>2, <4>3
      <4>5. \A i \in 1..L : back[i] = r.copy[L + 1 - i]
        BY <4>2
      <4> HIDE DEF back, L
      <4> QED
        BY <2>2, <4>1, <4>4, <4>5
    <3>2. CASE saved # <<>>
      <4>1. HandBack(saved, r.copy) = <<>>
        BY <3>2 DEF HandBack
      <4> QED
        BY <2>2, <3>2, <4>1
    <3> QED
      BY <3>1, <3>2
  <2>4. /\ n \in Refreshed /\ n.todo = HandBack(saved, r.copy) /\ n.copy = r.copy
        /\ n.alone = (saved = <<>>)
    BY <1>1, <2>3 DEF Refreshed
  <2> HIDE DEF n, w
  <2>5. HandingOver(n)
    BY <2>3, <2>4 DEF HandingOver
  <2>6. Restored(n, saved)
    <3> SUFFICES ASSUME saved = <<>> PROVE saved = SubSeq(r.copy, L + 1, L)
      BY <2>3, <2>4 DEF Restored
    <3>1. L \in Int /\ L + 1 \in Int /\ L < L + 1
      BY <2>2
    <3> QED
      BY <3>1, SubSeqEmpty
  <2> HIDE DEF r
  <2>7. v \in Browser /\ v.refresh = n
    BY <1>1, <2>4, BrowserParts
  <2> HIDE DEF v
  <2> QED
    BY <2>1, <2>5, <2>6, <2>7
<1>6. CASE LearnList(b)
  <2> DEFINE c == [w EXCEPT !.copy = r.list]
             v == [c EXCEPT !.refresh = NoRefresh]
  <2>1. browsers' = [browsers EXCEPT ![b] = v]
    BY <1>6 DEF LearnList
  <2>2. r.list \in SavedLists
    BY <1>1, RefreshParts
  <2> HIDE DEF r
  <2>3. c \in Browser
    BY <1>1, <2>2, BrowserParts
  <2> HIDE DEF c
  <2>4. v \in Browser /\ v.refresh = NoRefresh
    BY <2>3, BrowserParts, EmptyLists
  <2> HIDE DEF v
  <2> QED
    BY <2>1, <2>4, EmptyLists DEF Restored
<1>7. CASE FailHandOne(b)
  <2> DEFINE n == [r EXCEPT !.todo = Tail(r.todo), !.alone = FALSE]
             v == [w EXCEPT !.refresh = n]
  <2>1. browsers' = [browsers EXCEPT ![b] = v] /\ r.todo # <<>>
    BY <1>7 DEF FailHandOne
  <2>2. /\ r.todo \in Seq(Names) /\ r.copy \in Seq(Names) /\ Tail(r.todo) \in Seq(Names)
        /\ Len(Tail(r.todo)) = Len(r.todo) - 1 /\ Len(r.todo) \in Nat \ {0} /\ Len(r.copy) \in Nat
        /\ \A i \in 1..(Len(r.todo) - 1) : Tail(r.todo)[i] = r.todo[i + 1]
    BY <1>1, <2>1 DEF Refreshed, SavedLists
  <2>3. n \in Refreshed /\ n.todo = Tail(r.todo) /\ n.copy = r.copy /\ ~n.alone
    BY <1>1, <2>2 DEF Refreshed
  <2> HIDE DEF n, w
  <2>4. HandingOver(n)
    <3> DEFINE m == Len(r.todo)
    <3>1. m <= Len(r.copy) /\ \A i \in 1..m : r.todo[i] = r.copy[m + 1 - i]
      BY <1>1, <2>2 DEF HandingOver
    <3>2. m \in Nat \ {0} /\ DOMAIN n.todo = 1..(m - 1) /\ Len(n.todo) = m - 1
      BY <2>2, <2>3
    <3>3. \A i \in 1..(m - 1) : n.todo[i] = r.todo[i + 1]
      BY <2>2, <2>3
    <3> HIDE DEF m, r
    <3>4. ASSUME NEW i \in 1..(m - 1)
          PROVE  n.todo[i] = n.copy[(m - 1) + 1 - i]
      <4>1. i + 1 \in 1..m /\ m + 1 - (i + 1) = (m - 1) + 1 - i
        BY <3>2
      <4> QED
        BY <2>3, <3>1, <3>3, <4>1
    <3>5. m - 1 <= Len(n.copy)
      BY <2>2, <2>3, <3>1, <3>2
    <3> QED
      BY <3>2, <3>4, <3>5 DEF HandingOver
  <2> HIDE DEF r
  <2>5. v \in Browser /\ v.refresh = n
    BY <1>1, <2>3, BrowserParts
  <2> HIDE DEF v
  <2> QED
    BY <2>1, <2>3, <2>4, <2>5 DEF Restored
<1> QED
  BY <1>3, <1>4, <1>5, <1>6, <1>7

\* One more of the copy is handed over.
LEMMA HandOneKeeps ==
  ASSUME FilterInv, NEW b \in Browsers, HandOne(b)
  PROVE  FilterInv'
<1> DEFINE r == browsers[b].refresh
           m == Len(r.todo)
           L == Len(r.copy)
           h == Head(r.todo)
           n == [r EXCEPT !.todo = Tail(r.todo), !.list = saved']
           c == Contested[b]
           v == [c EXCEPT !.refresh = n]
<1>1. /\ r \in Refreshed /\ HandingOver(r) /\ Restored(r, saved)
      /\ saved \in SavedLists /\ b \in DOMAIN browsers
  <2>1. browsers[b] \in Browser
    BY DEF FilterInv
  <2> QED
    BY <2>1, BrowserParts DEF FilterInv
<1>2. /\ r.at = "handing" /\ r.todo # <<>> /\ Persists(Saves(saved, h)) /\ kept' = Pushed
      /\ browsers' = [Contested EXCEPT ![b] = v]
  BY DEF HandOne
<1>3. /\ r.todo \in Seq(Names) /\ r.copy \in Seq(Names) /\ Distinct(r.copy) /\ L <= MaxSaved
      /\ MaxSaved \in Nat /\ m \in Nat \ {0} /\ L \in Nat
      /\ Tail(r.todo) \in Seq(Names) /\ Len(Tail(r.todo)) = m - 1 /\ h = r.todo[1] /\ h \in Names
      /\ \A i \in 1..(m - 1) : Tail(r.todo)[i] = r.todo[i + 1]
  BY <1>1, <1>2, PageAssumption DEF Refreshed, SavedLists
<1>4. /\ m <= L /\ \A i \in 1..m : r.todo[i] = r.copy[m + 1 - i]
  <2>1. DOMAIN r.todo = 1..m
    BY <1>3
  <2> QED
    BY <1>1, <2>1 DEF HandingOver
<1>5. /\ saved' \in SavedLists /\ (file.has => kept' \subseteq ToSet(saved'))
      /\ saved' = Saves(saved, h)
      /\ file' \in [has : BOOLEAN, list : SavedLists] /\ file'.has = file.has
  <2>1. Saves(saved, h) \in SavedLists
    BY <1>1, <1>3, SavesAre
  <2>2. saved' = Saves(saved, h) /\ file' \in [has : BOOLEAN, list : SavedLists] /\ file'.has = file.has
    BY <1>2, <2>1, Persisted
  <2> QED
    BY <1>2, <1>3, <2>1, <2>2, PushedKeeps
<1>6. n \in Refreshed /\ n.todo = Tail(r.todo) /\ n.copy = r.copy /\ n.alone = r.alone /\ n.at = "handing"
  BY <1>1, <1>2, <1>3, <1>5 DEF Refreshed
<1> HIDE DEF r, m, L, h, n
<1>7. HandingOver(n)
  <2>1. DOMAIN n.todo = 1..(m - 1) /\ Len(n.todo) = m - 1 /\ m - 1 <= Len(n.copy)
    BY <1>3, <1>4, <1>6 DEF L
  <2>2. ASSUME NEW i \in 1..(m - 1) PROVE n.todo[i] = n.copy[(m - 1) + 1 - i]
    <3>1. i + 1 \in 1..m /\ m + 1 - (i + 1) = (m - 1) + 1 - i
      BY <1>3
    <3> QED
      BY <1>3, <1>4, <1>6, <3>1
  <2> QED
    BY <2>1, <2>2 DEF HandingOver
<1>8. Restored(n, saved')
  <2> SUFFICES ASSUME r.alone PROVE saved' = SubSeq(r.copy, (m - 1) + 1, L)
    BY <1>3, <1>6 DEF Restored, L
  <2>1. saved = SubSeq(r.copy, m + 1, L)
    BY <1>1, <1>2 DEF Restored, m, L
  <2>2. h = r.copy[m] /\ m \in 1..L
    BY <1>3, <1>4
  <2>3. /\ Len(saved) = L - m /\ DOMAIN saved = 1..(L - m)
        /\ \A i \in 1..(L - m) : m + i \in 1..L /\ saved[i] = r.copy[m + i]
    <3>1. \A i \in (m + 1)..L : r.copy[i] \in Names
      BY <1>3 DEF L
    <3>2. /\ Len(saved) = IF m + 1 <= L THEN L - (m + 1) + 1 ELSE 0
          /\ \A i \in 1..(L - (m + 1) + 1) : saved[i] = r.copy[(m + 1) + i - 1]
          /\ saved \in Seq(Names)
      BY <1>3, <2>1, <3>1, SubSeqProperties
    <3>3. L - (m + 1) + 1 = L - m /\ Len(saved) = L - m
      BY <1>3, <1>4, <3>2
    <3>4. \A i \in 1..(L - m) : m + i \in 1..L /\ (m + 1) + i - 1 = m + i
      BY <1>3, <1>4
    <3> QED
      BY <3>2, <3>3, <3>4
  <2>4. h \notin ToSet(saved)
    <3> SUFFICES ASSUME NEW i \in 1..(L - m), saved[i] = h PROVE FALSE
      BY <2>3 DEF ToSet
    <3>1. r.copy[m + i] = r.copy[m] /\ m + i \in 1..L
      BY <2>2, <2>3
    <3>2. DOMAIN r.copy = 1..L
      BY <1>3 DEF L
    <3>3. m + i = m
      BY <1>3, <2>2, <3>1, <3>2 DEF Distinct
    <3> QED
      BY <1>3, <3>3
  <2>5. Len(saved) < MaxSaved
    BY <1>3, <2>3
  <2>6. saved' = <<h>> \o saved
    BY <1>1, <1>3, <1>5, <2>4, <2>5, SavesAre
  <2>7. SubSeq(r.copy, m, L) = <<r.copy[m]>> \o SubSeq(r.copy, m + 1, L)
    <3>1. m \in 1..Len(r.copy) /\ L \in m..Len(r.copy)
      BY <1>3, <1>4 DEF L
    <3> QED
      BY <1>3, <3>1, SubSeqRecursiveFirst
  <2>8. (m - 1) + 1 = m
    BY <1>3
  <2> QED
    BY <2>1, <2>2, <2>6, <2>7, <2>8
<1>9. /\ Contested \in [Browsers -> Browser]
      /\ \A x \in Browsers : HandingOver(Contested[x].refresh) /\ Restored(Contested[x].refresh, saved')
  BY ContestedKeeps
<1>10. v \in Browser /\ v.refresh = n
  <2>1. c \in Browser
    BY <1>9
  <2> HIDE DEF c
  <2> QED
    BY <1>6, <2>1, BrowserParts
<1> HIDE DEF v
<1>11. /\ browsers' \in [Browsers -> Browser]
       /\ \A x \in Browsers : HandingOver(browsers'[x].refresh) /\ Restored(browsers'[x].refresh, saved')
  BY <1>2, <1>7, <1>8, <1>9, <1>10
<1> QED
  BY <1>5, <1>11 DEF FilterInv

\* A listener that starts again with its file lists what the file holds.
LEMMA RestartKeeps == ASSUME FilterInv, Restart, NEW b \in Browsers PROVE FilterInv'
<1>1. /\ saved' = file.list /\ browsers' = Contested /\ file' = file
      /\ kept' = IF file.has /\ file.list # saved THEN kept \cap ToSet(file.list) ELSE kept
  BY DEF Restart
<1>2. saved' \in SavedLists /\ file' \in [has : BOOLEAN, list : SavedLists]
  BY <1>1 DEF FilterInv
<1>3. file.has => kept' \subseteq ToSet(saved')
  BY <1>1 DEF FilterInv
<1> QED
  BY <1>1, <1>2, <1>3, EditKeeps

LEMMA SameFilters == FilterInv /\ UNCHANGED filterVars => FilterInv'
BY DEF FilterInv, filterVars

LEMMA FiltersNextKeeps == ASSUME FilterInv, FiltersNext PROVE FilterInv'
<1>1. CASE Restart
  <2>1. CASE Browsers = {}
    <3>1. /\ saved' = file.list /\ browsers' = Contested /\ file' = file
          /\ kept' = IF file.has /\ file.list # saved THEN kept \cap ToSet(file.list) ELSE kept
      BY <1>1 DEF Restart
    <3>2. browsers' \in [Browsers -> Browser]
      BY <3>1, ContestedKeeps
    <3> QED
      BY <2>1, <3>1, <3>2 DEF FilterInv
  <2>2. CASE Browsers # {}
    BY <1>1, <2>2, RestartKeeps
  <2> QED
    BY <2>1, <2>2
<1>2. ASSUME NEW b \in Browsers,
             LearnEdit(b) \/ OpenPage(b) \/ FetchList(b) \/ HandOne(b) \/ FailHandOne(b) \/ LearnList(b)
      PROVE  FilterInv'
  BY <1>2, PageListsKeep, HandOneKeeps
<1>3. ASSUME NEW b \in Browsers, NEW name \in Names,
             \/ SaveFilter(b, name) \/ DeleteFilter(b, name) \/ SaveUnwritten(b, name)
             \/ FailEdit(b, Saves(browsers[b].copy, name), Saves(saved, name))
             \/ FailEdit(b, Others(browsers[b].copy, name), Others(saved, name))
      PROVE  FilterInv'
  <2>1. browsers[b].copy \in SavedLists /\ saved \in SavedLists
    <3>1. browsers[b] \in Browser
      BY DEF FilterInv
    <3> QED
      BY <3>1, BrowserParts DEF FilterInv
  <2>2. \A list \in SavedLists : Saves(list, name) \in SavedLists /\ Others(list, name) \in SavedLists
    <3> SUFFICES ASSUME NEW list \in SavedLists
                 PROVE  Saves(list, name) \in SavedLists /\ Others(list, name) \in SavedLists
      OBVIOUS
    <3>1. list \in Seq(Names) /\ Distinct(list) /\ Len(list) \in Nat /\ Len(list) <= MaxSaved /\ MaxSaved \in Nat
      BY PageAssumption DEF SavedLists
    <3>2. Others(list, name) \in Seq(Names) /\ Distinct(Others(list, name)) /\ Len(Others(list, name)) <= Len(list)
      BY <3>1, OthersAre
    <3>3. Len(Others(list, name)) \in Nat
      BY <3>2
    <3>4. Len(Others(list, name)) <= MaxSaved
      BY <3>1, <3>2, <3>3
    <3> QED
      BY <3>2, <3>4, SavesAre DEF SavedLists
  <2> QED
    BY <1>3, <2>1, <2>2, SaveFilterKeeps, DeleteFilterKeeps, FailEditKeeps
<1> QED
  BY <1>1, <1>2, <1>3, Zenon DEF FiltersNext

LEMMA FilterInvNext == FilterInv /\ [Next]_vars => FilterInv'
<1> SUFFICES ASSUME FilterInv, [Next]_vars PROVE FilterInv'
  OBVIOUS
<1>1. CASE FiltersNext
  BY <1>1, FiltersNextKeeps
<1>2. CASE HeldNext \/ RemoteNext \/ FeedNext \/ DoorNext \/ Advance \/ UNCHANGED vars
  <2>1. UNCHANGED filterVars
    <3>1. CASE HeldNext
      BY <3>1, Zenon DEF HeldNext, Ask, Execute, PassOn, Wake, Drain, Leave, Turns, OnlyHeld
    <3>2. CASE RemoteNext
      BY <3>2, Zenon DEF RemoteNext, Watch, Unwatch, CloseSource, Redial, Announce, OpenLink, BreakLink, HearEnd,
                  ReadLink, OnlyRemote
    <3>3. CASE FeedNext
      BY <3>3, Zenon DEF FeedNext, Happen, Request, Diagnose, Break, End, Hear, Retry, FinishPass, Pause, Search,
                  Dismiss, Forget, Serve, Apply, Cut, OnlyPage, OnlyFeed
    <3>4. CASE DoorNext
      BY <3>4, Zenon DEF DoorNext, Knock, Decide, Present, OnlyDoor
    <3>5. CASE Advance \/ UNCHANGED vars
      BY <3>5, Zenon DEF Advance, vars
    <3> QED
      BY <1>2, <3>1, <3>2, <3>3, <3>4, <3>5
  <2> QED
    BY <2>1, SameFilters
<1> QED
  BY <1>1, <1>2 DEF Next

LEMMA FilterInitially == Init => FilterInv
<1> SUFFICES ASSUME Init PROVE FilterInv
  OBVIOUS
<1>1. PICK has \in BOOLEAN, names \in {{}, Names} :
        /\ saved = Kept(SetToSeq(names)) /\ file = [has |-> has, list |-> IF has THEN saved ELSE <<>>]
        /\ browsers = [b \in Browsers |-> [copy |-> saved, edit |-> NoEdit, refresh |-> NoRefresh]]
        /\ kept = ToSet(saved)
  BY Zenon DEF Init
<1> DEFINE f == SetToSeq(names)
           k == Cardinality(names)
<1>2. IsFiniteSet(names) /\ names \subseteq Names
  BY ConsoleAssumption, FS_EmptySet
<1>3. k \in Nat
  BY <1>2, FS_CardinalityType
<1>4. f \in [1..k -> names] /\ IsInjective(f)
  <2>1. PICK g : g \in Bijection(1..k, names)
    BY <1>2, FS_CardinalityType DEF ExistsBijection
  <2>2. g \in [1..k -> names] /\ IsInjective(g)
    BY <2>1 DEF Bijection, Injection
  <2> QED
    BY <2>2 DEF SetToSeq
<1> HIDE DEF f, k
<1>5. f \in Seq(Names) /\ Distinct(f)
  <2>1. f \in [1..k -> Names]
    BY <1>2, <1>4
  <2>2. f \in Seq(Names)
    BY <1>3, <2>1
  <2> QED
    BY <1>4, <2>2 DEF Distinct, IsInjective
<1>6. saved \in SavedLists
  BY <1>1, <1>5, KeptAre DEF SavedLists, f
<1>7. file \in [has : BOOLEAN, list : SavedLists]
  BY <1>1, <1>6, EmptyLists
<1>8. [copy |-> saved, edit |-> NoEdit, refresh |-> NoRefresh] \in Browser
  BY <1>6, EmptyLists DEF Browser
<1>9. /\ browsers \in [Browsers -> Browser]
      /\ \A b \in Browsers : browsers[b].refresh = NoRefresh
  BY <1>1, <1>8
<1> QED
  BY <1>1, <1>6, <1>7, <1>9, EmptyLists DEF FilterInv, Restored

(* Saved filters are kept: what somebody saved and nobody deleted is listed    *)
(* by a listener that has a file until newer ones push it out, over restarts    *)
(* and stale copies, and a browser alone in handing its copy back restores it   *)
(* as it was (FiltersKept), for any number of browsers and any bound.           *)
THEOREM SavedFiltersAreKept == Spec => []FiltersKept
<1>1. FilterInv => FiltersKept
  BY DEF FilterInv, FiltersKept, Restored
<1> QED
  BY <1>1, FilterInitially, FilterInvNext, PTL DEF Spec

(* ------------------------------- the doors ------------------------------- *)

(* What an answer may say, given the sections, the redactions and the controls. *)
Discreet(o, r, given) ==
  /\ "captured" \in given.says => "incidents" \in o.sections
  /\ "credentials" \in given.says => ~o.credentials
  /\ "addresses" \in given.says => ~o.mask
  /\ o.sections = {} => given.says \subseteq {"requests", "addresses"}
  /\ given.applies => "editPolicy" \in o.controls /\ Authenticates(o.auth) # "open" /\ r.method = "POST"

LEMMA DeclinesTell == \A status : Declines(status).says = {} /\ ~Declines(status).applies
BY DEF Declines, Says

LEMMA DeclinesDiscreetly == ASSUME NEW o, NEW r, NEW status PROVE Discreet(o, r, Declines(status))
<1>1. Declines(status).says = {} /\ Declines(status).applies = FALSE
  BY DeclinesTell
<1> DEFINE given == Declines(status)
<1> HIDE DEF given
<1>2. given.says = {} /\ given.applies = FALSE
  BY <1>1 DEF given
<1>3. Discreet(o, r, given)
  BY <1>2 DEF Discreet
<1> QED
  BY <1>3 DEF given

LEMMA SaysDiscreetly ==
  ASSUME NEW o, NEW r, NEW status, NEW facts,
         "captured" \in facts => "incidents" \in o.sections,
         "credentials" \in facts => ~o.credentials,
         "addresses" \in facts => ~o.mask,
         o.sections = {} => facts \subseteq {"requests", "addresses"}
  PROVE  Discreet(o, r, Says(status, facts))
<1>1. Says(status, facts).says = facts /\ Says(status, facts).applies = FALSE
  BY DEF Says
<1> DEFINE given == Says(status, facts)
<1> HIDE DEF given
<1>2. given.says = facts /\ given.applies = FALSE
  BY <1>1 DEF given
<1>3. Discreet(o, r, given)
  BY <1>2 DEF Discreet
<1> QED
  BY <1>3 DEF given

LEMMA ShapeDiscreet ==
  ASSUME NEW o
  PROVE  /\ "captured" \in Shape(o) => "incidents" \in o.sections
         /\ "credentials" \in Shape(o) => ~o.credentials /\ "incidents" \in o.sections
         /\ "addresses" \in Shape(o) => ~o.mask
         /\ "incidents" \notin o.sections => Shape(o) \subseteq {"requests", "addresses"}
         /\ Shape(o) \ {"captured", "credentials"} \subseteq {"requests", "addresses"}
BY DEF Shape

LEMMA TellsDiscreet ==
  ASSUME NEW o, NEW e \in DOMAIN OneOf, OneOf[e] \cap o.sections # {}, NEW r, NEW status
  PROVE  Discreet(o, r, Says(status, Tells(o, e)))
<1>1. e \in {"filters", "events", "counts", "notices", "incidents", "incident", "stats", "sessions", "actors", "ioc", "metrics"}
  BY DEF OneOf
<1>2. CASE e \in {"events", "incidents", "incident"}
  <2>1. Tells(o, e) = Shape(o)
    BY <1>2 DEF Tells
  <2>2. o.sections # {}
    OBVIOUS
  <2> QED
    BY <2>1, <2>2, ShapeDiscreet, SaysDiscreetly
<1>3. CASE e \in {"stats", "sessions", "actors", "ioc"}
  <2>1. PICK fact \in {"totals", "sessions", "actors", "indicators"} : Tells(o, e) = Masked(o, {fact})
    BY <1>3 DEF Tells
  <2>2. o.sections # {}
    OBVIOUS
  <2>3. /\ "captured" \notin Masked(o, {fact}) /\ "credentials" \notin Masked(o, {fact})
        /\ "addresses" \in Masked(o, {fact}) => ~o.mask
    BY DEF Masked
  <2> QED
    BY <2>1, <2>2, <2>3, SaysDiscreetly
<1>4. CASE e \in {"filters", "counts", "notices", "metrics"}
  <2>1. Tells(o, e) \in {{"indicators"}, {"totals"}, {"notices"}, {"filters"}}
    BY <1>4 DEF Tells
  <2>2. o.sections # {}
    OBVIOUS
  <2>3. "captured" \notin Tells(o, e) /\ "credentials" \notin Tells(o, e) /\ "addresses" \notin Tells(o, e)
    BY <2>1
  <2> QED
    BY <2>2, <2>3, SaysDiscreetly
<1> QED
  BY <1>1, <1>2, <1>3, <1>4

LEMMA AnswersDiscreetly ==
  ASSUME NEW o \in Deployments, Starts(o), NEW r, NEW e
  PROVE  /\ Discreet(o, r, AnswerFilters(o, r))
         /\ e \in DOMAIN Power /\ r.method = "POST" => Discreet(o, r, AnswerControl(o, r, e))
         /\ Discreet(o, r, AnswerRead(o, r, e))
<1>1. Discreet(o, r, AnswerFilters(o, r))
  <2>1. \/ AnswerFilters(o, r) \in {Declines(404), Declines(405), Declines(400)}
        \/ "incidents" \in o.sections /\ AnswerFilters(o, r) = Says(200, Tells(o, "filters"))
    BY SMT DEF AnswerFilters
  <2>2. "filters" \in DOMAIN OneOf /\ ("incidents" \in o.sections => OneOf["filters"] \cap o.sections # {})
    BY DEF OneOf
  <2> QED
    BY <2>1, <2>2, DeclinesDiscreetly, TellsDiscreet
<1>2. ASSUME e \in DOMAIN Power, r.method = "POST" PROVE Discreet(o, r, AnswerControl(o, r, e))
  <2>1. e \in {"test", "preview", "apply"} /\ o.controls \subseteq {"previewPolicy", "editPolicy"}
    BY <1>2 DEF Power, Deployments
  <2>2. \/ AnswerControl(o, r, e) \in {Declines(400), Declines(404), Declines(500)}
        \/ /\ Power[e] \in o.controls /\ e = "apply"
           /\ AnswerControl(o, r, e) = [Says(200, {}) EXCEPT !.applies = TRUE]
        \/ /\ Power[e] \in o.controls /\ e # "apply"
           /\ AnswerControl(o, r, e) = Says(200, Tells(o, e))
    BY SMT DEF AnswerControl
  <2>3. CASE e = "apply" /\ Power[e] \in o.controls /\ AnswerControl(o, r, e) = [Says(200, {}) EXCEPT !.applies = TRUE]
    <3>1. "editPolicy" \in o.controls /\ Authenticates(o.auth) # "open"
      BY <2>3 DEF Power, Starts, Grantable
    <3> DEFINE given == AnswerControl(o, r, e)
    <3>2. given.says = {} /\ given.applies = TRUE
      BY <2>3 DEF Says
    <3> HIDE DEF given
    <3>3. Discreet(o, r, given)
      BY <1>2, <3>1, <3>2 DEF Discreet
    <3> QED
      BY <3>3 DEF given
  <2>4. CASE e # "apply" /\ Power[e] \in o.controls /\ AnswerControl(o, r, e) = Says(200, Tells(o, e))
    <3>1. e = "preview"
      BY <2>1, <2>4 DEF Power
    <3>2. Tells(o, e) = Shape(o) \ {"captured", "credentials"}
      BY <3>1 DEF Tells
    <3>3. Tells(o, e) \subseteq {"requests", "addresses"} /\ ("addresses" \in Tells(o, e) => ~o.mask)
      BY <3>2, ShapeDiscreet
    <3>4. "captured" \notin Tells(o, e) /\ "credentials" \notin Tells(o, e)
      BY <3>2
    <3> QED
      BY <2>4, <3>3, <3>4, SaysDiscreetly
  <2> QED
    BY <2>2, <2>3, <2>4, DeclinesDiscreetly
<1>3. Discreet(o, r, AnswerRead(o, r, e))
  <2>1. \/ \E status : AnswerRead(o, r, e) = Declines(status)
        \/ e \in DOMAIN OneOf /\ OneOf[e] \cap o.sections # {} /\ AnswerRead(o, r, e) = Says(200, Tells(o, e))
    BY SMT DEF AnswerRead
  <2> QED
    BY <2>1, DeclinesDiscreetly, TellsDiscreet
<1> QED
  BY <1>1, <1>2, <1>3

LEMMA RoutedDiscreetly ==
  ASSUME NEW o \in Deployments, Starts(o), NEW r, NEW locked, NEW viewer
  PROVE  Discreet(o, r, Routed(o, r, locked, viewer))
<1>1. \/ Routed(o, r, locked, viewer) \in {Declines(Refuse(o, Objection(o, r, locked))), Declines(Refuse(o, "viewer"))}
      \/ Routed(o, r, locked, viewer) = Answer(o, r)
  BY SMT DEF Routed
<1>2. \E e : \/ \E status : Answer(o, r) = Declines(status)
             \/ Answer(o, r) = AnswerFilters(o, r)
             \/ r.method = "POST" /\ e \in DOMAIN Power /\ Answer(o, r) = AnswerControl(o, r, e)
             \/ Answer(o, r) = Says(200, {})
             \/ Answer(o, r) = AnswerRead(o, r, e)
  BY SMT DEF Answer
<1>3. Discreet(o, r, Says(200, {}))
  BY SaysDiscreetly
<1> QED
  BY <1>1, <1>2, <1>3, AnswersDiscreetly, DeclinesDiscreetly

(* Under concealment whoever is not let in is told the same. *)
LEMMA RefusedAlike ==
  ASSUME NEW o \in Deployments, Starts(o), o.refusal # "unauthorized"
  PROVE  Cardinality({Routed(o, x[1], x[2], FALSE) : x \in Visits \X BOOLEAN}) = 1
<1>1. o.refusal \in {"not-found", "close", "redirect"}
  BY DEF Deployments, Refusals, Starts, ValidRefusal
<1>2. PICK status : \A objection : Refuse(o, objection) = status
  BY <1>1 DEF Refuse
<1>3. \A r, locked : Routed(o, r, locked, FALSE) = Declines(status)
  <2>1. \A r, locked : \/ Routed(o, r, locked, FALSE) = Declines(Refuse(o, Objection(o, r, locked)))
                       \/ Routed(o, r, locked, FALSE) = Declines(Refuse(o, "viewer"))
    BY Zenon DEF Routed
  <2>2. Refuse(o, "viewer") = status /\ \A objection : Refuse(o, objection) = status
    BY <1>2, Zenon
  <2> QED
    BY <2>1, <2>2, Zenon
<1>4. [path |-> <<>>, method |-> "GET", payload |-> "good", peer |-> "someone", host |-> "localhost",
       site |-> "none-sent", origin |-> "none-sent", found |-> TRUE, reached |-> TRUE] \in Visits
  BY DEF Visits
<1>5. {Routed(o, x[1], x[2], FALSE) : x \in Visits \X BOOLEAN} = {Declines(status)}
  <2> HIDE DEF Visits
  <2> DEFINE said == {Routed(o, x[1], x[2], FALSE) : x \in Visits \X BOOLEAN}
  <2>1. ASSUME NEW x \in said PROVE x = Declines(status)
    BY <1>3, <2>1, Zenon
  <2>2. PICK r : r \in Visits
    BY <1>4, Zenon
  <2>3. <<r, FALSE>> \in Visits \X BOOLEAN
    BY <2>2
  <2>4. Routed(o, <<r, FALSE>>[1], <<r, FALSE>>[2], FALSE) \in said
    BY <2>3, Zenon
  <2>5. Declines(status) \in said
    BY <1>3, <2>4
  <2> HIDE DEF said
  <2>6. said = {Declines(status)}
    BY <2>1, <2>5
  <2> QED
    BY <2>6, Zenon DEF said
<1> QED
  BY <1>5, FS_Singleton, Zenon

LEMMA WithheldAlways == Withheld
<1>1. ASSUME NEW o \in Deployments, Starts(o), NEW r \in Visits
      PROVE  Discreet(o, r, Routed(o, r, FALSE, TRUE))
  BY <1>1, RoutedDiscreetly
<1>2. ASSUME NEW o \in Deployments, Starts(o), o.refusal # "unauthorized"
      PROVE  Cardinality({Routed(o, x[1], x[2], FALSE) : x \in Visits \X BOOLEAN}) = 1
  BY <1>2, RefusedAlike, Zenon
<1> QED
  BY <1>1, <1>2, Zenon DEF Withheld, Discreet

(* ---------------------------- the management API -------------------------- *)

Tried == [door : {"dashboard", "management"}, who : Peers, at : Nat, ok : BOOLEAN]

\* One more attempt was decided.
Adds(t) == t \in Tried /\ t.at = now /\ tries' = Append(tries, t) /\ now' = now

From(u)         == {x \in Nat : x >= u}
Since(u, times) == Places(times, From(u))
FailedAt(p, u)  == {i \in DOMAIN tries : /\ tries[i].door = "management" /\ tries[i].who = p
                                         /\ ~tries[i].ok /\ tries[i].at >= u}

Ascending(times) == \A i, j \in DOMAIN times : i < j => times[i] <= times[j]

\* Times that were noted, in order, and none from the future.
Noted(times) == times \in Seq(Nat) /\ Ascending(times) /\ \A i \in DOMAIN times : times[i] <= now

TriesInv ==
  /\ now \in Nat /\ tries \in Seq(Tried)
  /\ \A i \in DOMAIN tries : tries[i].at <= now

\* From every time the window still covers, as many failures are noted as there were.
KeysInv ==
  /\ TriesInv
  /\ guesses = [p \in Peers |-> guesses[p]]
  /\ \A p \in Peers :
       /\ Noted(guesses[p])
       /\ \A u \in Nat : now < u + AuthWindow => Cardinality(Since(u, guesses[p])) = Cardinality(FailedAt(p, u))

LEMMA SinceFinite ==
  ASSUME NEW times \in Seq(Nat), NEW u
  PROVE  /\ Since(u, times) \in SUBSET (1..Len(times))
         /\ IsFiniteSet(Since(u, times)) /\ Cardinality(Since(u, times)) \in Nat
<1>1. Len(times) \in Nat /\ Since(u, times) \in SUBSET (1..Len(times))
  BY DEF Since, Places
<1>2. IsFiniteSet(1..Len(times))
  BY <1>1, Positions
<1> QED
  BY <1>1, <1>2, FS_Subset, FS_CardinalityType

(* What is no longer recent is out of the window. *)
LEMMA RecentKeeps ==
  ASSUME now \in Nat, NEW times, Noted(times)
  PROVE  LET recent == RecentAuthFailures(times, now)
         IN  /\ Noted(recent)
             /\ \A u \in Nat : now < u + AuthWindow => Cardinality(Since(u, recent)) = Cardinality(Since(u, times))
             /\ \A u \in Nat : u = (IF now < AuthWindow THEN 0 ELSE now - AuthWindow + 1) =>
                                 Len(recent) = Cardinality(Since(u, times))
<1> DEFINE young == {i \in DOMAIN times : now - times[i] < AuthWindow}
           o == RecentAuthFailures(times, now)
           n == Len(times)
<1>1. o = Keeping(times, young)
  BY DEF RecentAuthFailures
<1>2. times \in Seq(Nat) /\ n \in Nat /\ DOMAIN times = 1..n /\ AuthWindow \in Nat \ {0}
  BY DoorAssumption DEF Noted
<1>3. \A k \in 1..n : times[k] \in Nat /\ (k \in young <=> now - times[k] < AuthWindow)
  BY <1>2
<1>4. young \subseteq 1..n
  BY <1>2
<1> HIDE DEF young
<1>5. o \in Seq(Nat) /\ \E g : Picks(g, o, times, young, n)
  BY <1>1, <1>2, KeepingPicks
<1>6. \A V : Cardinality(Places(o, V)) = Cardinality(KeptPlaces(times, young, V))
  BY <1>1, <1>2, KeepingCounts
<1> HIDE DEF o, n
<1>7. Len(o) \in Nat /\ DOMAIN o = 1..Len(o)
  BY <1>5
<1>8. Noted(o)
  <2>1. PICK g : Picks(g, o, times, young, n)
    BY <1>5
  <2>2. /\ \A i \in 1..Len(o) : g[i] \in 1..n /\ o[i] = times[g[i]]
        /\ \A i, j \in 1..Len(o) : i < j => g[i] < g[j]
    BY <2>1 DEF Picks
  <2>3. Ascending(o)
    <3> SUFFICES ASSUME NEW i \in 1..Len(o), NEW j \in 1..Len(o), i < j PROVE o[i] <= o[j]
      BY <1>7 DEF Ascending
    <3> QED
      BY <1>2, <2>2 DEF Noted, Ascending
  <2>4. \A i \in DOMAIN o : o[i] <= now
    BY <1>2, <1>7, <2>2 DEF Noted
  <2> QED
    BY <1>5, <2>3, <2>4 DEF Noted
<1>9. ASSUME NEW u \in Nat, now < u + AuthWindow
      PROVE  Cardinality(Since(u, o)) = Cardinality(Since(u, times))
  <2>1. \A k \in 1..n : times[k] \in From(u) => k \in young
    BY <1>2, <1>3, <1>9 DEF From
  <2>2. KeptPlaces(times, young, From(u)) = Since(u, times)
    BY <1>2, <2>1 DEF Since, KeptPlaces, Places
  <2> QED
    BY <1>6, <2>2 DEF Since
<1>10. ASSUME NEW u \in Nat, u = (IF now < AuthWindow THEN 0 ELSE now - AuthWindow + 1)
       PROVE  Len(o) = Cardinality(Since(u, times))
  <2>1. Places(o, Nat) = 1..Len(o)
    BY <1>5, <1>7 DEF Places
  <2>2. \A k \in 1..n : k \in young <=> times[k] \in From(u)
    BY <1>2, <1>3, <1>10 DEF From
  <2>3. KeptPlaces(times, young, Nat) = Since(u, times)
    BY <1>2, <1>3, <2>2 DEF Since, KeptPlaces, Places
  <2>4. Cardinality(1..Len(o)) = Len(o)
    BY <1>7, Positions
  <2> QED
    BY <1>6, <2>1, <2>3, <2>4
<1> QED
  BY <1>8, <1>9, <1>10 DEF o

(* A failure noted now counts for every time up to now. *)
LEMMA SinceGrows ==
  ASSUME now \in Nat, NEW times, Noted(times), NEW u \in Nat
  PROVE  LET more == Append(times, now)
         IN  /\ Noted(more) /\ more # <<>>
             /\ Cardinality(Since(u, more)) = Cardinality(Since(u, times)) + (IF now >= u THEN 1 ELSE 0)
<1> DEFINE n == Len(times)
           more == Append(times, now)
<1>1. times \in Seq(Nat) /\ n \in Nat /\ DOMAIN times = 1..n
  BY DEF Noted
<1>2. /\ more \in Seq(Nat) /\ Len(more) = n + 1 /\ more[n + 1] = now
      /\ \A i \in 1..n : more[i] = times[i]
  BY <1>1, AppendProperties
<1>3. DOMAIN more = 1..(n + 1) /\ more # <<>>
  BY <1>1, <1>2
<1> HIDE DEF more, n
<1>4. \A i \in 1..n : times[i] \in Nat /\ times[i] <= now
  BY <1>1 DEF Noted
<1>5. Noted(more)
  <2>1. Ascending(more)
    <3> SUFFICES ASSUME NEW i \in 1..(n + 1), NEW j \in 1..(n + 1), i < j PROVE more[i] <= more[j]
      BY <1>3 DEF Ascending
    <3>1. i \in 1..n
      BY <1>1
    <3>2. CASE j = n + 1
      BY <1>2, <1>4, <3>1, <3>2
    <3>3. CASE j \in 1..n
      BY <1>1, <1>2, <3>1, <3>3 DEF Noted, Ascending
    <3> QED
      BY <1>1, <3>2, <3>3
  <2>2. \A i \in 1..(n + 1) : more[i] <= now
    <3> SUFFICES ASSUME NEW i \in 1..(n + 1) PROVE more[i] <= now
      OBVIOUS
    <3>1. CASE i = n + 1
      BY <1>2, <3>1
    <3>2. CASE i \in 1..n
      BY <1>2, <1>4, <3>2
    <3> QED
      BY <1>1, <3>1, <3>2
  <2> QED
    BY <1>2, <1>3, <2>1, <2>2 DEF Noted
<1>6. IsFiniteSet(Since(u, times)) /\ Cardinality(Since(u, times)) \in Nat /\ n + 1 \notin Since(u, times)
  <2>1. Since(u, times) \in SUBSET (1..n) /\ IsFiniteSet(Since(u, times)) /\ Cardinality(Since(u, times)) \in Nat
    BY <1>1, SinceFinite DEF n
  <2> QED
    BY <1>1, <2>1
<1>7. Since(u, more) = Since(u, times) \union (IF now >= u THEN {n + 1} ELSE {})
  <2>1. \A i : i \in 1..(n + 1) <=> i \in 1..n \/ i = n + 1
    BY <1>1
  <2>2. now \in From(u) <=> now >= u
    BY DEF From
  <2> QED
    BY <1>1, <1>2, <1>3, <2>1, <2>2 DEF Since, Places
<1>8. Cardinality(Since(u, more)) = Cardinality(Since(u, times)) + (IF now >= u THEN 1 ELSE 0)
  <2>1. CASE now >= u
    BY <1>6, <1>7, <2>1, FS_AddElement
  <2>2. CASE ~(now >= u)
    BY <1>6, <1>7, <2>2
  <2> QED
    BY <2>1, <2>2
<1> QED
  BY <1>3, <1>5, <1>8 DEF more

LEMMA AddsAt ==
  ASSUME TriesInv, NEW t, Adds(t)
  PROVE  /\ Len(tries) \in Nat /\ DOMAIN tries = 1..Len(tries) /\ DOMAIN tries' = 1..(Len(tries) + 1)
         /\ Len(tries') = Len(tries) + 1
         /\ tries'[Len(tries) + 1] = t /\ \A i \in 1..Len(tries) : tries'[i] = tries[i]
         /\ \A i \in 1..Len(tries) : tries[i] \in Tried
         /\ TriesInv'
<1>1. tries \in Seq(Tried) /\ t \in Tried /\ tries' = Append(tries, t) /\ now' = now /\ t.at = now /\ now \in Nat
  BY DEF Adds, TriesInv
<1>2. Len(tries) \in Nat /\ DOMAIN tries = 1..Len(tries) /\ \A i \in 1..Len(tries) : tries[i] \in Tried
  BY <1>1
<1>3. /\ tries' \in Seq(Tried) /\ Len(tries') = Len(tries) + 1 /\ tries'[Len(tries) + 1] = t
      /\ \A i \in 1..Len(tries) : tries'[i] = tries[i]
  BY <1>1, AppendProperties
<1>4. DOMAIN tries' = 1..(Len(tries) + 1)
  BY <1>3
<1>5. TriesInv'
  <2>1. ASSUME NEW i \in 1..(Len(tries) + 1) PROVE tries'[i].at <= now
    <3>1. CASE i = Len(tries) + 1
      BY <1>1, <1>3, <3>1
    <3>2. CASE i \in 1..Len(tries)
      BY <1>2, <1>3, <3>2 DEF TriesInv
    <3> QED
      BY <1>2, <3>1, <3>2
  <2> QED
    BY <1>1, <1>3, <1>4, <2>1 DEF TriesInv
<1> QED
  BY <1>2, <1>3, <1>4, <1>5

(* A further attempt counts if it failed, for its address. *)
LEMMA FailedGrows ==
  ASSUME TriesInv, NEW t, Adds(t), NEW p, NEW u
  PROVE  /\ IsFiniteSet(FailedAt(p, u)) /\ Cardinality(FailedAt(p, u)) \in Nat
         /\ Cardinality(FailedAt(p, u)') =
              Cardinality(FailedAt(p, u)) + (IF t.door = "management" /\ t.who = p /\ ~t.ok /\ t.at >= u THEN 1 ELSE 0)
<1> DEFINE n == Len(tries)
           counts == t.door = "management" /\ t.who = p /\ ~t.ok /\ t.at >= u
<1>1. /\ n \in Nat /\ DOMAIN tries = 1..n /\ DOMAIN tries' = 1..(n + 1)
      /\ tries'[n + 1] = t /\ \A i \in 1..n : tries'[i] = tries[i]
  BY AddsAt
<1> HIDE DEF n
<1>2. FailedAt(p, u) \in SUBSET (1..n)
  BY <1>1 DEF FailedAt
<1>3. IsFiniteSet(FailedAt(p, u)) /\ Cardinality(FailedAt(p, u)) \in Nat /\ n + 1 \notin FailedAt(p, u)
  BY <1>1, <1>2, Positions, FS_Subset, FS_CardinalityType
<1>4. FailedAt(p, u)' = FailedAt(p, u) \union (IF counts THEN {n + 1} ELSE {})
  <2>1. \A i : i \in 1..(n + 1) <=> i \in 1..n \/ i = n + 1
    BY <1>1
  <2> QED
    BY <1>1, <2>1 DEF FailedAt
<1>5. CASE counts
  BY <1>3, <1>4, <1>5, FS_AddElement
<1>6. CASE ~counts
  <2>1. FailedAt(p, u)' = FailedAt(p, u)
    BY <1>4, <1>6
  <2> QED
    BY <1>3, <1>6, <2>1
<1> QED
  BY <1>3, <1>5, <1>6

(* What the sweep empties is out of the window. *)
LEMMA AgedCounts ==
  ASSUME now \in Nat, NEW times, Noted(times), times # <<>>, now - Last(times) >= AuthWindow,
         NEW u \in Nat, now < u + AuthWindow
  PROVE  Cardinality(Since(u, times)) = 0 /\ Cardinality(Since(u, <<>>)) = 0
<1>1. times \in Seq(Nat) /\ Len(times) \in Nat /\ DOMAIN times = 1..Len(times) /\ AuthWindow \in Nat
  BY DoorAssumption DEF Noted
<1>2. Len(times) \in 1..Len(times) /\ Last(times) = times[Len(times)]
  <2>1. Len(times) # 0
    BY <1>1, EmptySeq
  <2> QED
    BY <1>1, <2>1 DEF Last
<1>3. ASSUME NEW i \in 1..Len(times) PROVE times[i] \notin From(u)
  <2>1. times[i] <= Last(times) /\ times[i] \in Nat /\ Last(times) \in Nat
    <3>1. CASE i = Len(times)
      BY <1>1, <1>2, <3>1
    <3>2. CASE i # Len(times)
      <4>1. i \in DOMAIN times /\ Len(times) \in DOMAIN times /\ i < Len(times)
        <5> DEFINE n == Len(times)
        <5>1. n \in Nat /\ DOMAIN times = 1..n /\ i \in 1..n /\ i # n
          BY <1>1, <3>2
        <5> HIDE DEF n
        <5>2. n \in 1..n /\ i < n
          BY <5>1
        <5> QED
          BY <5>1, <5>2 DEF n
      <4>2. times[i] <= times[Len(times)]
        BY <4>1, Zenon DEF Noted, Ascending
      <4> QED
        BY <1>1, <1>2, <4>1, <4>2
    <3> QED
      BY <3>1, <3>2
  <2> QED
    BY <1>1, <2>1 DEF From
<1>4. Since(u, times) = {} /\ Since(u, <<>>) = {}
  BY <1>1, <1>3 DEF Since, Places
<1> QED
  BY <1>4, FS_EmptySet

LEMMA PresentKeeps == ASSUME KeysInv, NEW p \in Peers, NEW ok \in BOOLEAN, Present(p, ok) PROVE KeysInv'
<1> DEFINE t == Try("management", p, ok)
           recent == RecentAuthFailures(guesses[p], now)
           noted == [guesses EXCEPT ![p] = Append(recent, now)]
<1>1. /\ TriesInv /\ now \in Nat
      /\ guesses = [q \in Peers |-> guesses[q]]
      /\ \A q \in Peers : /\ Noted(guesses[q])
                          /\ \A u \in Nat : now < u + AuthWindow => Cardinality(Since(u, guesses[q])) = Cardinality(FailedAt(q, u))
  BY DEF KeysInv, TriesInv
<1>2. /\ tries' = Append(tries, t) /\ now' = now
      /\ guesses' = IF ok THEN [guesses EXCEPT ![p] = recent] ELSE RecordAuthFailure(guesses, p, now)
  BY DEF Present, Steady
<1>3. t \in Tried /\ t.door = "management" /\ t.who = p /\ t.at = now /\ t.ok = ok
  BY <1>1 DEF Tried, Try
<1>4. Adds(t)
  BY <1>2, <1>3 DEF Adds
<1> HIDE DEF t
<1>5. TriesInv'
  BY <1>1, <1>4, AddsAt
<1>6. \A q \in Peers, u \in Nat :
        Cardinality(FailedAt(q, u)') = Cardinality(FailedAt(q, u)) + (IF q = p /\ ~ok /\ now >= u THEN 1 ELSE 0)
  BY <1>1, <1>3, <1>4, FailedGrows
<1>7. \A q \in Peers, u \in Nat : Cardinality(FailedAt(q, u)) \in Nat
  BY <1>1, <1>4, FailedGrows
<1>8. /\ Noted(recent)
      /\ \A u \in Nat : now < u + AuthWindow => Cardinality(Since(u, recent)) = Cardinality(FailedAt(p, u))
  BY <1>1, RecentKeeps
<1> HIDE DEF recent
<1>9. /\ Noted(Append(recent, now))
      /\ \A u \in Nat : now < u + AuthWindow =>
           Cardinality(Since(u, Append(recent, now))) = Cardinality(FailedAt(p, u)) + (IF now >= u THEN 1 ELSE 0)
  BY <1>1, <1>8, SinceGrows
<1>10. CASE ok
  <2>1. guesses' = [guesses EXCEPT ![p] = recent]
    BY <1>2, <1>10
  <2>2. guesses' = [q \in Peers |-> guesses'[q]]
    BY <1>1, <2>1
  <2>3. guesses'[p] = recent /\ \A q \in Peers \ {p} : guesses'[q] = guesses[q]
    BY <1>1, <2>1
  <2>4. ASSUME NEW q \in Peers
        PROVE  /\ Noted(guesses[q])'
               /\ \A u \in Nat : now < u + AuthWindow => Cardinality(Since(u, guesses'[q])) = Cardinality(FailedAt(q, u)')
    <3>1. Noted(guesses'[q]) /\ \A u \in Nat : now < u + AuthWindow => Cardinality(Since(u, guesses'[q])) = Cardinality(FailedAt(q, u))
      BY <1>1, <1>8, <2>3
    <3>2. \A u \in Nat : Cardinality(FailedAt(q, u)') = Cardinality(FailedAt(q, u))
      BY <1>6, <1>7, <1>10
    <3> QED
      BY <1>2, <3>1, <3>2 DEF Noted
  <2> QED
    BY <1>2, <1>5, <2>2, <2>4 DEF KeysInv, Since
<1>11. CASE ~ok
  <2> DEFINE known == {q \in DOMAIN noted : noted[q] # <<>>}
             aged == {q \in known : now - Last(noted[q]) >= AuthWindow}
  <2>1. guesses' = IF Cardinality(known) <= MaxGuessers THEN noted
                   ELSE [q \in DOMAIN noted |-> IF q \in aged THEN <<>> ELSE noted[q]]
    BY <1>2, <1>11 DEF RecordAuthFailure, recent
  <2>2. DOMAIN noted = Peers /\ noted[p] = Append(recent, now) /\ \A q \in Peers \ {p} : noted[q] = guesses[q]
    BY <1>1
  <2>3. \A q \in aged : q \in Peers /\ noted[q] # <<>> /\ now - Last(noted[q]) >= AuthWindow
    BY <2>2
  <2>4. noted = [q \in Peers |-> noted[q]]
    BY <1>1
  <2> HIDE DEF noted, aged, known
  <2>5. /\ guesses' = [q \in Peers |-> guesses'[q]]
        /\ \A q \in Peers : guesses'[q] = noted[q] \/ (q \in aged /\ guesses'[q] = <<>>)
    BY <2>1, <2>2, <2>4
  <2>6. ASSUME NEW q \in Peers
        PROVE  /\ Noted(noted[q])
               /\ \A u \in Nat : now < u + AuthWindow => Cardinality(Since(u, noted[q])) = Cardinality(FailedAt(q, u)')
    <3>1. CASE q = p
      BY <1>6, <1>9, <1>11, <2>2, <3>1
    <3>2. CASE q # p
      <4>1. \A u \in Nat : Cardinality(FailedAt(q, u)') = Cardinality(FailedAt(q, u))
        BY <1>6, <1>7, <3>2
      <4> QED
        BY <1>1, <2>2, <3>2, <4>1
    <3> QED
      BY <3>1, <3>2
  <2>7. ASSUME NEW q \in Peers
        PROVE  /\ Noted(guesses[q])'
               /\ \A u \in Nat : now < u + AuthWindow => Cardinality(Since(u, guesses'[q])) = Cardinality(FailedAt(q, u)')
    <3>1. CASE guesses'[q] = noted[q]
      BY <1>2, <2>6, <3>1 DEF Noted
    <3>2. CASE q \in aged /\ guesses'[q] = <<>>
      <4>1. Noted(<<>>)
        BY DEF Noted, Ascending
      <4>2. \A u \in Nat : now < u + AuthWindow => Cardinality(Since(u, noted[q])) = 0 /\ Cardinality(Since(u, <<>>)) = 0
        BY <1>1, <2>3, <2>6, <3>2, AgedCounts
      <4> QED
        BY <1>2, <2>6, <3>2, <4>1, <4>2 DEF Noted
    <3> QED
      BY <2>5, <3>1, <3>2
  <2> QED
    BY <1>2, <1>5, <2>5, <2>7 DEF KeysInv, Since
<1> QED
  BY <1>10, <1>11

LEMMA DecideKeepsKeys == ASSUME KeysInv, NEW p \in Peers, NEW ok \in BOOLEAN, Decide(p, ok) PROVE KeysInv'
<1> DEFINE t == Try("dashboard", p, ok)
<1>1. TriesInv /\ now \in Nat
  BY DEF KeysInv, TriesInv
<1>2. tries' = Append(tries, t) /\ now' = now /\ guesses' = guesses
  BY DEF Decide, Steady
<1>3. t \in Tried /\ t.door = "dashboard" /\ t.at = now
  BY <1>1 DEF Tried, Try
<1>4. Adds(t)
  BY <1>2, <1>3 DEF Adds
<1> HIDE DEF t
<1>5. TriesInv'
  BY <1>1, <1>4, AddsAt
<1>6. \A q \in Peers, u \in Nat : Cardinality(FailedAt(q, u)') = Cardinality(FailedAt(q, u))
  <2> SUFFICES ASSUME NEW q \in Peers, NEW u \in Nat PROVE Cardinality(FailedAt(q, u)') = Cardinality(FailedAt(q, u))
    OBVIOUS
  <2>1. /\ Cardinality(FailedAt(q, u)) \in Nat
        /\ Cardinality(FailedAt(q, u)') =
             Cardinality(FailedAt(q, u)) + (IF t.door = "management" /\ t.who = q /\ ~t.ok /\ t.at >= u THEN 1 ELSE 0)
    BY <1>1, <1>4, FailedGrows
  <2> QED
    BY <1>3, <2>1
<1>7. ASSUME NEW q \in Peers
      PROVE  /\ Noted(guesses[q])'
             /\ \A u \in Nat : now' < u + AuthWindow => Cardinality(Since(u, guesses'[q])) = Cardinality(FailedAt(q, u)')
  BY <1>2, <1>6 DEF KeysInv, Noted
<1>8. guesses' = [q \in Peers |-> guesses'[q]]
  BY <1>2 DEF KeysInv
<1> QED
  BY <1>5, <1>7, <1>8 DEF KeysInv, Since

\* Nothing else comes to the doors; only the clock goes on.
Elsewhere == UNCHANGED <<throttle, guesses, tries>> /\ (now' = now \/ now' = now + 1)

\* A step of the saved filters is one of its own, whoever takes it.
LEMMA FiltersMove == FiltersNext => OnlyFilters /\ (Moved \/ Broke \/ Steady)
<1> SUFFICES ASSUME FiltersNext PROVE OnlyFilters /\ (Moved \/ Broke \/ Steady)
  OBVIOUS
<1>1. CASE Restart
  BY <1>1, Zenon DEF Restart
<1>2. ASSUME NEW b \in Browsers, LearnEdit(b) \/ OpenPage(b) \/ FetchList(b) PROVE OnlyFilters /\ (Moved \/ Broke \/ Steady)
  BY <1>2, Zenon DEF LearnEdit, OpenPage, FetchList
<1>3. ASSUME NEW b \in Browsers, HandOne(b) \/ FailHandOne(b) \/ LearnList(b) PROVE OnlyFilters /\ (Moved \/ Broke \/ Steady)
  BY <1>3, Zenon DEF HandOne, FailHandOne, LearnList
<1>4. ASSUME NEW b \in Browsers, NEW name \in Names, SaveFilter(b, name) \/ DeleteFilter(b, name) \/ SaveUnwritten(b, name)
      PROVE  OnlyFilters /\ (Moved \/ Broke \/ Steady)
  BY <1>4, Zenon DEF SaveFilter, DeleteFilter, SaveUnwritten
<1>5. ASSUME NEW b, NEW copy, NEW list, FailEdit(b, copy, list) PROVE OnlyFilters /\ (Moved \/ Broke \/ Steady)
  BY <1>5, Zenon DEF FailEdit
<1> QED
  BY <1>1, <1>2, <1>3, <1>4, <1>5, Zenon DEF FiltersNext

LEMMA DoorsAct ==
  [Next]_vars => \/ Elsewhere
                 \/ \E p \in Peers, ok \in BOOLEAN : Decide(p, ok) \/ Present(p, ok)
<1> SUFFICES ASSUME [Next]_vars
             PROVE  Elsewhere \/ \E p \in Peers, ok \in BOOLEAN : Decide(p, ok) \/ Present(p, ok)
  OBVIOUS
<1>1. CASE HeldNext
  BY <1>1, Zenon DEF HeldNext, Ask, Execute, PassOn, Wake, Drain, Leave, Turns, OnlyHeld, doorVars, Steady, Elsewhere
<1>2. CASE RemoteNext
  BY <1>2, Zenon DEF RemoteNext, Watch, Unwatch, CloseSource, Redial, Announce, OpenLink, BreakLink, HearEnd,
              ReadLink, OnlyRemote, doorVars, Moved, Broke, Steady, Elsewhere
<1>3. CASE FeedNext
  BY <1>3, Zenon DEF FeedNext, Happen, Request, Diagnose, Break, End, Hear, Retry, FinishPass, Pause, Search,
              Dismiss, Forget, Serve, Apply, Cut, OnlyPage, OnlyFeed, doorVars, Moved, Broke, Steady, Elsewhere
<1>4. CASE FiltersNext
  <2>1. OnlyFilters /\ (Moved \/ Broke \/ Steady)
    BY <1>4, FiltersMove, Zenon
  <2> QED
    BY <2>1, Zenon DEF OnlyFilters, doorVars, Moved, Broke, Steady, Elsewhere
<1>5. CASE DoorNext
  BY <1>5, Zenon DEF DoorNext, Knock, Steady, Elsewhere
<1>6. CASE Advance \/ UNCHANGED vars
  BY <1>6, Zenon DEF Advance, Tick, doorVars, vars, Elsewhere
<1> QED
  BY <1>1, <1>2, <1>3, <1>4, <1>5, <1>6, Zenon DEF Next

LEMMA KeysInvNext == KeysInv /\ [Next]_vars => KeysInv'
<1> SUFFICES ASSUME KeysInv, [Next]_vars PROVE KeysInv'
  OBVIOUS
<1>1. CASE Elsewhere
  <2>1. /\ guesses' = guesses /\ tries' = tries /\ now' \in Nat /\ now <= now' /\ now \in Nat
    BY <1>1 DEF Elsewhere, KeysInv, TriesInv
  <2>2. TriesInv'
    <3>1. \A i \in DOMAIN tries : tries[i].at \in Nat /\ tries[i].at <= now
      <4>1. \A i \in DOMAIN tries : tries[i] \in Tried
        BY DEF KeysInv, TriesInv
      <4> QED
        BY <4>1 DEF KeysInv, TriesInv, Tried
    <3>2. \A i \in DOMAIN tries : tries[i].at <= now'
      BY <2>1, <3>1
    <3> QED
      BY <2>1, <3>2 DEF KeysInv, TriesInv
  <2>3. ASSUME NEW q \in Peers
        PROVE  /\ Noted(guesses[q])'
               /\ \A u \in Nat : now' < u + AuthWindow => Cardinality(Since(u, guesses'[q])) = Cardinality(FailedAt(q, u)')
    <3>1. Noted(guesses[q]) /\ \A u \in Nat : now < u + AuthWindow => Cardinality(Since(u, guesses[q])) = Cardinality(FailedAt(q, u))
      BY DEF KeysInv
    <3>2. \A i \in DOMAIN guesses[q] : guesses[q][i] \in Nat /\ guesses[q][i] <= now
      BY <3>1 DEF Noted
    <3>3. \A i \in DOMAIN guesses[q] : guesses[q][i] <= now'
      BY <2>1, <3>2
    <3>4. \A u \in Nat : now' < u + AuthWindow => now < u + AuthWindow
      BY <2>1, DoorAssumption
    <3>5. \A u \in Nat : FailedAt(q, u)' = FailedAt(q, u)
      BY <2>1 DEF FailedAt
    <3> QED
      BY <2>1, <3>1, <3>3, <3>4, <3>5 DEF Noted
  <2>4. guesses' = [q \in Peers |-> guesses'[q]]
    BY <2>1 DEF KeysInv
  <2> QED
    BY <2>2, <2>3, <2>4 DEF KeysInv, Since
<1>2. ASSUME NEW p \in Peers, NEW ok \in BOOLEAN, Decide(p, ok) \/ Present(p, ok) PROVE KeysInv'
  BY <1>2, DecideKeepsKeys, PresentKeeps
<1> QED
  BY <1>1, <1>2, DoorsAct, Zenon

LEMMA KeysInitially == Init => KeysInv
<1> SUFFICES ASSUME Init PROVE KeysInv
  OBVIOUS
<1>1. now = 1 /\ guesses = [p \in Peers |-> <<>>] /\ tries = <<>>
  BY DEF Init
<1>2. Noted(<<>>)
  BY DEF Noted, Ascending
<1>3. \A p, u : Since(u, <<>>) = {} /\ FailedAt(p, u) = {}
  BY <1>1 DEF Since, Places, FailedAt
<1>4. TriesInv
  BY <1>1 DEF TriesInv
<1> QED
  BY <1>1, <1>2, <1>3, <1>4 DEF KeysInv

(* The failures of a window are counted exactly. *)
LEMMA KeysHold ==
  ASSUME KeysInv, NEW p \in Peers
  PROVE  TooManyAuthFailures(guesses[p], now) <=>
           Cardinality({i \in DOMAIN tries : /\ tries[i].door = "management" /\ tries[i].who = p
                                             /\ ~tries[i].ok /\ now - tries[i].at < AuthWindow}) >= AuthFailures
<1> DEFINE u == IF now < AuthWindow THEN 0 ELSE now - AuthWindow + 1
           failed == {i \in DOMAIN tries : /\ tries[i].door = "management" /\ tries[i].who = p
                                           /\ ~tries[i].ok /\ now - tries[i].at < AuthWindow}
<1>1. now \in Nat /\ AuthWindow \in Nat \ {0}
  BY DoorAssumption DEF KeysInv, TriesInv
<1>2. u \in Nat /\ now < u + AuthWindow
  BY <1>1
<1>3. \A i \in DOMAIN tries : tries[i].at \in Nat
  <2>1. \A i \in DOMAIN tries : tries[i] \in Tried
    BY DEF KeysInv, TriesInv
  <2> QED
    BY <2>1 DEF Tried
<1>4. failed = FailedAt(p, u)
  <2>1. \A i \in DOMAIN tries : now - tries[i].at < AuthWindow <=> tries[i].at >= u
    BY <1>1, <1>3
  <2> HIDE DEF u
  <2> QED
    BY <2>1 DEF FailedAt
<1>5. Noted(guesses[p]) /\ Cardinality(Since(u, guesses[p])) = Cardinality(FailedAt(p, u))
  BY <1>2 DEF KeysInv
<1>6. u = IF now < AuthWindow THEN 0 ELSE now - AuthWindow + 1
  OBVIOUS
<1> HIDE DEF u, failed
<1>7. Len(RecentAuthFailures(guesses[p], now)) = Cardinality(Since(u, guesses[p]))
  BY <1>1, <1>2, <1>5, <1>6, RecentKeeps
<1> QED
  BY <1>4, <1>5, <1>7 DEF TooManyAuthFailures, failed

(* ------------------------------ the dashboard ----------------------------- *)

(* The lockout doubles. *)
LEMMA DoublingExists ==
  ASSUME NEW n \in Nat, NEW g, g = [i \in 0..n |-> IF i = 0 THEN Lockout ELSE 2 * g[i - 1]]
  PROVE  /\ \A i \in 0..n : g[i] \in Nat
         /\ g[0] = Lockout /\ \A i \in 0..(n - 1) : g[i + 1] = 2 * g[i]
<1>1. Lockout \in Nat
  BY DoorAssumption
<1>2. \A i \in 0..n : g[i] = IF i = 0 THEN Lockout ELSE 2 * g[i - 1]
  OBVIOUS
<1> DEFINE S == {i \in 0..n : g[i] \in Nat}
<1>3. 0 \in S
  BY <1>1, <1>2
<1>4. ASSUME NEW k \in 0..(n - 1), k \in S PROVE k + 1 \in S
  BY <1>2, <1>4
<1> HIDE DEF S
<1>5. 0..n \subseteq S
  BY <1>3, <1>4, UpTo
<1>6. \A i \in 0..n : g[i] \in Nat
  BY <1>5 DEF S
<1>7. ASSUME NEW i \in 0..(n - 1) PROVE g[i + 1] = 2 * g[i]
  <2>1. i + 1 \in 0..n /\ i + 1 # 0 /\ (i + 1) - 1 = i
    OBVIOUS
  <2> QED
    BY <1>2, <2>1
<1> QED
  BY <1>2, <1>6, <1>7

LEMMA DoubledIs ==
  ASSUME NEW n \in Nat
  PROVE  \E g : /\ g = [i \in 0..n |-> IF i = 0 THEN Lockout ELSE 2 * g[i - 1]]
                /\ Doubled(n) = g[n]
<1> DEFINE F == [a \in Nat |-> [i \in 1..n |-> 2 * a]]
           Is(h) == h = [i \in 0..n |-> IF i = 0 THEN Lockout ELSE 2 * h[i - 1]]
<1>1. Lockout \in Nat
  BY DoorAssumption
<1>2. F \in [Nat -> [1..n -> Nat]] /\ \A a \in Nat, i \in 1..n : F[a][i] = 2 * a
  OBVIOUS
<1> HIDE DEF F
<1>3. PICK h \in [0..n -> Nat] : Iterates(h, n, Lockout, F)
  BY <1>1, <1>2, IterateExists
<1>4. \A i \in 0..n : i # 0 => F[h[i - 1]][i] = 2 * h[i - 1]
  <2> SUFFICES ASSUME NEW i \in 0..n, i # 0 PROVE F[h[i - 1]][i] = 2 * h[i - 1]
    OBVIOUS
  <2>1. i \in 1..n /\ i - 1 \in 0..n
    OBVIOUS
  <2>2. h[i - 1] \in Nat
    BY <2>1
  <2> QED
    BY <1>2, <2>1, <2>2
<1>5. Is(h)
  BY <1>3, <1>4 DEF Iterates
<1> DEFINE f == CHOOSE x : Is(x)
<1>6. Is(f)
  BY <1>5
<1>7. Doubled(n) = f[n]
  BY DEF Doubled
<1> HIDE DEF f
<1> QED
  BY <1>6, <1>7

LEMMA DoubledGrows ==
  /\ Doubled(0) = Lockout
  /\ \A n \in Nat : Doubled(n) \in Nat /\ Doubled(n + 1) = 2 * Doubled(n)
<1>1. \A n \in Nat : Doubled(n) \in Nat
  <2> SUFFICES ASSUME NEW n \in Nat PROVE Doubled(n) \in Nat
    OBVIOUS
  <2>1. PICK g : g = [i \in 0..n |-> IF i = 0 THEN Lockout ELSE 2 * g[i - 1]] /\ Doubled(n) = g[n]
    BY DoubledIs
  <2>2. \A i \in 0..n : g[i] \in Nat
    BY <2>1, DoublingExists
  <2> QED
    BY <2>1, <2>2
<1>2. Doubled(0) = Lockout
  <2>1. 0 \in Nat
    OBVIOUS
  <2>2. PICK g : g = [i \in 0..0 |-> IF i = 0 THEN Lockout ELSE 2 * g[i - 1]] /\ Doubled(0) = g[0]
    BY <2>1, DoubledIs
  <2> QED
    BY <2>1, <2>2, DoublingExists
<1>3. ASSUME NEW n \in Nat PROVE Doubled(n + 1) = 2 * Doubled(n)
  <2>1. n + 1 \in Nat
    OBVIOUS
  <2>2. PICK g : g = [i \in 0..n |-> IF i = 0 THEN Lockout ELSE 2 * g[i - 1]] /\ Doubled(n) = g[n]
    BY DoubledIs
  <2>3. PICK h : h = [i \in 0..(n + 1) |-> IF i = 0 THEN Lockout ELSE 2 * h[i - 1]] /\ Doubled(n + 1) = h[n + 1]
    BY <2>1, DoubledIs
  <2>4. g[0] = Lockout /\ \A i \in 0..(n - 1) : g[i + 1] = 2 * g[i]
    BY <2>2, DoublingExists
  <2>5. h[0] = Lockout /\ \A i \in 0..n : h[i + 1] = 2 * h[i]
    BY <2>1, <2>3, DoublingExists
  <2> DEFINE S == {i \in 0..n : g[i] = h[i]}
  <2>6. 0 \in S
    BY <2>4, <2>5
  <2>7. ASSUME NEW k \in 0..(n - 1), k \in S PROVE k + 1 \in S
    BY <2>4, <2>5, <2>7
  <2> HIDE DEF S
  <2>8. 0..n \subseteq S
    BY <2>6, <2>7, UpTo
  <2>9. g[n] = h[n]
    BY <2>8 DEF S
  <2> QED
    BY <2>2, <2>3, <2>5, <2>9
<1> QED
  BY <1>1, <1>2, <1>3

LEMMA DoubledMonotone ==
  ASSUME NEW k \in Nat, NEW n \in Nat, k <= n
  PROVE  Doubled(k) <= Doubled(n)
<1> DEFINE S == {i \in 0..(n - k) : Doubled(k) <= Doubled(k + i)}
<1>1. n - k \in Nat /\ Doubled(k) \in Nat
  BY DoubledGrows
<1>2. 0 \in S
  BY <1>1
<1>3. ASSUME NEW i \in 0..((n - k) - 1), i \in S PROVE i + 1 \in S
  <2>1. k + i \in Nat /\ (k + i) + 1 = k + (i + 1) /\ i + 1 \in 0..(n - k)
    BY <1>1
  <2>2. Doubled(k + (i + 1)) = 2 * Doubled(k + i) /\ Doubled(k + i) \in Nat
    BY <2>1, DoubledGrows
  <2> QED
    BY <1>1, <1>3, <2>1, <2>2
<1> HIDE DEF S
<1>4. 0..(n - k) \subseteq S
  BY <1>1, <1>2, <1>3, UpTo
<1>5. n - k \in S /\ k + (n - k) = n
  BY <1>1, <1>4
<1> QED
  BY <1>5 DEF S

(* The penalty grows with every failure, up to its bound. *)
LEMMA PenaltyGrows ==
  ASSUME NEW n \in Nat, n >= MaxAttempts
  PROVE  /\ Penalty(n) \in Nat /\ Penalty(n) <= MaxLockout /\ Due(n) = Penalty(n)
         /\ \A k \in Nat : k >= MaxAttempts /\ k <= n => Penalty(k) <= Penalty(n)
<1>1. MaxAttempts \in Nat /\ MaxLockout \in Nat
  BY DoorAssumption
<1> DEFINE d == n - MaxAttempts
           grown == Doubled(d)
<1>2. d \in Nat /\ grown \in Nat
  BY <1>1, DoubledGrows
<1>3. Penalty(n) = IF grown < MaxLockout THEN grown ELSE MaxLockout
  BY DEF Penalty
<1>4. Due(n) = Min({MaxLockout, grown})
  BY DEF Due
<1>5. ASSUME NEW k \in Nat, k >= MaxAttempts, k <= n PROVE Penalty(k) <= Penalty(n)
  <2>1. k - MaxAttempts \in Nat /\ k - MaxAttempts <= d
    BY <1>1, <1>5
  <2>2. Doubled(k - MaxAttempts) <= grown /\ Doubled(k - MaxAttempts) \in Nat
    BY <1>2, <2>1, DoubledMonotone, DoubledGrows
  <2>3. Penalty(k) = IF Doubled(k - MaxAttempts) < MaxLockout THEN Doubled(k - MaxAttempts) ELSE MaxLockout
    BY DEF Penalty
  <2> HIDE DEF grown, d
  <2> QED
    BY <1>1, <1>2, <1>3, <2>2, <2>3
<1> HIDE DEF grown, d
<1>6. Min({MaxLockout, grown}) \in {MaxLockout, grown} /\ \A x \in {MaxLockout, grown} : Min({MaxLockout, grown}) <= x
  BY <1>1, <1>2, MinIs
<1> QED
  BY <1>1, <1>2, <1>3, <1>4, <1>5, <1>6

Knocked(p) == Failures("dashboard", p)

\* An attempt at the dashboard by p, or one that failed there.
Theirs(t, p) == t.door = "dashboard" /\ t.who = p
Strikes(t)   == t.door = "dashboard" /\ ~t.ok

LEMMA KnockedIs ==
  ASSUME TriesInv, NEW p
  PROVE  /\ Knocked(p) \in SUBSET (1..Len(tries)) /\ Knocked(p) \in SUBSET Nat
         /\ IsFiniteSet(Knocked(p)) /\ Cardinality(Knocked(p)) \in Nat
         /\ Knocked(p) # {} => /\ Max(Knocked(p)) \in Knocked(p) /\ Max(Knocked(p)) \in 1..Len(tries)
                               /\ \A i \in Knocked(p) : i <= Max(Knocked(p))
         /\ Remembered(p) \in SUBSET Knocked(p) /\ IsFiniteSet(Remembered(p)) /\ Cardinality(Remembered(p)) \in Nat
<1>1. tries \in Seq(Tried) /\ Len(tries) \in Nat /\ DOMAIN tries = 1..Len(tries)
  BY DEF TriesInv
<1>2. Knocked(p) \in SUBSET (1..Len(tries))
  BY <1>1 DEF Knocked, Failures
<1>3. Knocked(p) \in SUBSET Nat /\ IsFiniteSet(Knocked(p)) /\ Cardinality(Knocked(p)) \in Nat
  BY <1>1, <1>2, Positions, FS_Subset, FS_CardinalityType
<1>4. Knocked(p) # {} => Max(Knocked(p)) \in Knocked(p) /\ \A i \in Knocked(p) : i <= Max(Knocked(p))
  BY <1>3, MaxIs
<1>5. Remembered(p) \in SUBSET Knocked(p)
  BY DEF Remembered, Knocked
<1>6. IsFiniteSet(Remembered(p)) /\ Cardinality(Remembered(p)) \in Nat
  BY <1>3, <1>5, FS_Subset, FS_CardinalityType
<1> QED
  BY <1>2, <1>3, <1>4, <1>5, <1>6

(* A further attempt is a failure of its address, forgives it, or is nothing  *)
(* to it.                                                                   *)
LEMMA KnockedGrows ==
  ASSUME TriesInv, NEW t, Adds(t), NEW p
  PROVE  Knocked(p)' = IF ~Theirs(t, p) THEN Knocked(p) ELSE IF t.ok THEN {} ELSE Knocked(p) \union {Len(tries) + 1}
<1> DEFINE n == Len(tries)
<1>1. /\ n \in Nat /\ DOMAIN tries = 1..n /\ DOMAIN tries' = 1..(n + 1) /\ Len(tries') = n + 1
      /\ tries'[n + 1] = t /\ \A i \in 1..n : tries'[i] = tries[i]
  BY AddsAt
<1> HIDE DEF n
<1>2. Knocked(p) = {i \in 1..n : /\ tries[i].door = "dashboard" /\ tries[i].who = p /\ ~tries[i].ok
                                /\ \A j \in (i + 1)..n : tries[j].door = "dashboard" /\ tries[j].who = p => ~tries[j].ok}
  BY <1>1 DEF Knocked, Failures, n
<1>3. Knocked(p)' = {i \in 1..(n + 1) :
                       /\ tries'[i].door = "dashboard" /\ tries'[i].who = p /\ ~tries'[i].ok
                       /\ \A j \in (i + 1)..(n + 1) : tries'[j].door = "dashboard" /\ tries'[j].who = p => ~tries'[j].ok}
  BY <1>1 DEF Knocked, Failures, n
<1>4. \A i \in 1..n : \A j : j \in (i + 1)..(n + 1) <=> j \in (i + 1)..n \/ j = n + 1
  BY <1>1
<1>5. \A i \in 1..n : i \in Knocked(p)' <=> i \in Knocked(p) /\ (Theirs(t, p) => ~t.ok)
  <2> SUFFICES ASSUME NEW i \in 1..n PROVE i \in Knocked(p)' <=> i \in Knocked(p) /\ (Theirs(t, p) => ~t.ok)
    OBVIOUS
  <2>1. tries'[i] = tries[i] /\ i \in 1..(n + 1)
    BY <1>1
  <2>2. \A j \in (i + 1)..n : tries'[j] = tries[j]
    BY <1>1
  <2> QED
    BY <1>1, <1>2, <1>3, <1>4, <2>1, <2>2 DEF Theirs
<1>6. n + 1 \in Knocked(p)' <=> Theirs(t, p) /\ ~t.ok
  <2>1. (n + 1 + 1)..(n + 1) = {} /\ n + 1 \in 1..(n + 1)
    BY <1>1
  <2> QED
    BY <1>1, <1>3, <2>1 DEF Theirs
<1>7. Knocked(p) \subseteq 1..n /\ Knocked(p)' \subseteq 1..(n + 1)
  BY <1>2, <1>3
<1>8. \A i : i \in 1..(n + 1) <=> i \in 1..n \/ i = n + 1
  BY <1>1
<1>9. CASE ~Theirs(t, p)
  BY <1>5, <1>6, <1>7, <1>8, <1>9
<1>10. CASE Theirs(t, p) /\ t.ok
  BY <1>5, <1>6, <1>7, <1>8, <1>10
<1>11. CASE Theirs(t, p) /\ ~t.ok
  <2>1. Knocked(p)' = Knocked(p) \union {n + 1}
    BY <1>5, <1>6, <1>7, <1>8, <1>11
  <2> QED
    BY <1>11, <2>1 DEF n
<1> QED
  BY <1>9, <1>10, <1>11

LEMMA BetweenFinite ==
  ASSUME TriesInv, NEW i \in 1..Len(tries), NEW j \in 1..(Len(tries) + 1)
  PROVE  IsFiniteSet(Between(i, j))
<1> DEFINE P == {k \in (i + 1)..(j - 1) : tries[k].door = "dashboard" /\ ~tries[k].ok}
           f == [k \in P |-> tries[k].who]
<1>1. Len(tries) \in Nat
  BY DEF TriesInv
<1>2. IsFiniteSet((i + 1)..(j - 1))
  BY <1>1, FS_Interval
<1>3. IsFiniteSet(P)
  BY <1>2, FS_Subset
<1>4. Between(i, j) = {f[k] : k \in P}
  BY DEF Between
<1>5. DOMAIN f = P
  OBVIOUS
<1> HIDE DEF P, f
<1> QED
  BY <1>3, <1>4, <1>5, ImageFinite

LEMMA BetweenIs ==
  ASSUME TriesInv, NEW t, Adds(t), NEW i \in 1..Len(tries)
  PROVE  /\ \A j \in 1..(Len(tries) + 1) : /\ Between(i, j)' = Between(i, j) /\ IsFiniteSet(Between(i, j))
                                          /\ Cardinality(Between(i, j)) \in Nat
         /\ Between(i, Len(tries) + 1)' = Between(i, Len(tries) + 1) \union (IF Strikes(t) THEN {t.who} ELSE {})
         /\ IsFiniteSet(Between(i, Len(tries) + 1)')
         /\ Cardinality(Between(i, Len(tries) + 1)) <= Cardinality(Between(i, Len(tries) + 1)')
<1> DEFINE n == Len(tries)
<1>1. /\ n \in Nat /\ n' = n + 1 /\ DOMAIN tries' = 1..(n + 1)
      /\ tries'[n + 1] = t /\ \A k \in 1..n : tries'[k] = tries[k]
  BY AddsAt
<1>2. ASSUME NEW j \in 1..(n + 1)
      PROVE  /\ Between(i, j)' = Between(i, j) /\ IsFiniteSet(Between(i, j))
             /\ Cardinality(Between(i, j)) \in Nat
  <2>1. \A k \in (i + 1)..(j - 1) : tries'[k] = tries[k]
    <3> HIDE DEF n
    <3>1. \A k \in (i + 1)..(j - 1) : k \in 1..n
      BY <1>1
    <3> QED
      BY <1>1, <3>1
  <2>2. Between(i, j)' = Between(i, j)
    BY <2>1 DEF Between
  <2>3. IsFiniteSet(Between(i, j))
    BY BetweenFinite
  <2> QED
    BY <2>2, <2>3, FS_CardinalityType
<1>3. Between(i, n + 1)' = Between(i, n + 1) \union (IF Strikes(t) THEN {t.who} ELSE {})
  <2> DEFINE P == {k \in (i + 1)..n : tries[k].door = "dashboard" /\ ~tries[k].ok}
             Q == {k \in (i + 1)..(n + 1) : tries'[k].door = "dashboard" /\ ~tries'[k].ok}
  <2>1. \A k \in (i + 1)..n : tries'[k] = tries[k]
    BY <1>1
  <2>2. \A k : k \in (i + 1)..(n + 1) <=> k \in (i + 1)..n \/ k = n + 1
    BY <1>1
  <2>3. Q = P \union (IF Strikes(t) THEN {n + 1} ELSE {})
    BY <1>1, <2>1, <2>2 DEF Strikes
  <2>4. n' + 1 - 1 = n + 1 /\ n + 1 - 1 = n
    BY <1>1
  <2>5. Between(i, n + 1) = {tries[k].who : k \in P}
    BY <2>4 DEF Between
  <2>9. Between(i, n + 1)' = {tries'[k].who : k \in Q}
    BY <2>4 DEF Between
  <2>6. \A k \in P : tries'[k] = tries[k]
    BY <2>1
  <2> HIDE DEF P, Q
  <2>7. CASE Strikes(t)
    BY <1>1, <2>3, <2>5, <2>6, <2>7, <2>9
  <2>8. CASE ~Strikes(t)
    BY <1>1, <2>3, <2>5, <2>6, <2>8, <2>9
  <2> QED
    BY <2>7, <2>8
<1>4. n + 1 \in 1..(n + 1)
  BY <1>1
<1>5. IsFiniteSet(Between(i, n + 1))
  BY <1>2, <1>4
<1>6. IsFiniteSet(Between(i, n + 1)')
  BY <1>3, <1>5, FS_AddElement
<1>7. Cardinality(Between(i, n + 1)) <= Cardinality(Between(i, n + 1)')
  <2>1. Between(i, n + 1) \in SUBSET (Between(i, n + 1)')
    BY <1>3
  <2> HIDE DEF n
  <2> QED
    BY <1>6, <2>1, FS_Subset
<1> QED
  BY <1>2, <1>3, <1>6, <1>7

LEMMA NextFailureIs ==
  ASSUME TriesInv, NEW p, NEW i \in Knocked(p)
  PROVE  \/ NextFailure(p, i) = Len(tries) + 1 /\ \A j \in Knocked(p) : j <= i
         \/ /\ NextFailure(p, i) \in Knocked(p) /\ NextFailure(p, i) > i
            /\ \A j \in Knocked(p) : j > i => NextFailure(p, i) <= j
<1> DEFINE later == {j \in Knocked(p) : j > i}
<1>1. later \in SUBSET Nat /\ i \in Nat /\ Knocked(p) \in SUBSET Nat
  BY KnockedIs
<1>2. NextFailure(p, i) = IF later = {} THEN Len(tries) + 1 ELSE Min(later)
  BY DEF NextFailure, Knocked
<1>3. CASE later = {}
  BY <1>1, <1>2, <1>3
<1>4. CASE later # {}
  <2>1. \A j \in later : j \in Knocked(p) /\ j > i
    OBVIOUS
  <2>2. \A j \in Knocked(p) : j > i => j \in later
    OBVIOUS
  <2> HIDE DEF later
  <2>3. Min(later) \in later /\ \A k \in later : Min(later) <= k
    BY <1>1, <1>4, MinIs
  <2> QED
    BY <1>2, <1>4, <2>1, <2>2, <2>3
<1> QED
  BY <1>3, <1>4

(* The next failure stays the next, unless there was none. *)
LEMMA NextFailureStays ==
  ASSUME TriesInv, NEW t, Adds(t), NEW p, Knocked(p)' = Knocked(p) \/ Knocked(p)' = Knocked(p) \union {Len(tries) + 1},
         NEW i \in Knocked(p)
  PROVE  \/ NextFailure(p, i)' = NextFailure(p, i) /\ NextFailure(p, i) \in Knocked(p) /\ NextFailure(p, i) > i
         \/ /\ NextFailure(p, i) = Len(tries) + 1 /\ \A j \in Knocked(p) : j <= i
            /\ NextFailure(p, i)' = IF Knocked(p)' = Knocked(p) THEN Len(tries) + 2 ELSE Len(tries) + 1
<1> DEFINE n == Len(tries)
<1>1. /\ n \in Nat /\ Len(tries') = n + 1 /\ TriesInv' /\ Knocked(p) \in SUBSET (1..n)
  BY AddsAt, KnockedIs
<1>2. i \in Knocked(p)' /\ i \in 1..n
  BY <1>1
<1>3. \/ NextFailure(p, i) = n + 1 /\ \A j \in Knocked(p) : j <= i
      \/ /\ NextFailure(p, i) \in Knocked(p) /\ NextFailure(p, i) > i
         /\ \A j \in Knocked(p) : j > i => NextFailure(p, i) <= j
  BY NextFailureIs
<1>4. \/ NextFailure(p, i)' = n + 2 /\ \A j \in Knocked(p)' : j <= i
      \/ /\ NextFailure(p, i)' \in Knocked(p)' /\ NextFailure(p, i)' > i
         /\ \A j \in Knocked(p)' : j > i => NextFailure(p, i)' <= j
  <2> DEFINE later == {j \in Knocked(p)' : j > i}
  <2>1. later \in SUBSET Nat
    BY <1>1
  <2>2. NextFailure(p, i)' = IF later = {} THEN n + 2 ELSE Min(later)
    BY <1>1 DEF NextFailure, Knocked
  <2>3. \A j \in later : j \in Knocked(p)' /\ j > i
    OBVIOUS
  <2>4. \A j \in Knocked(p)' : j \in Nat /\ (j > i => j \in later)
    BY <1>1
  <2>5. CASE later = {}
    BY <1>2, <2>2, <2>4, <2>5
  <2>6. CASE later # {}
    <3> HIDE DEF later
    <3>1. Min(later) \in later /\ \A k \in later : Min(later) <= k
      BY <2>1, <2>6, MinIs
    <3> QED
      BY <2>2, <2>3, <2>4, <2>6, <3>1
  <2> QED
    BY <2>5, <2>6
<1>5. CASE NextFailure(p, i) = n + 1 /\ \A j \in Knocked(p) : j <= i
  <2>1. CASE Knocked(p)' = Knocked(p)
    <3>1. NextFailure(p, i)' = n + 2
      BY <1>1, <1>2, <1>4, <1>5, <2>1
    <3> QED
      BY <1>5, <2>1, <3>1
  <2>2. CASE Knocked(p)' # Knocked(p)
    <3>1. Knocked(p)' = Knocked(p) \union {n + 1}
      BY <2>2
    <3>2. NextFailure(p, i)' = n + 1
      BY <1>1, <1>2, <1>4, <1>5, <3>1
    <3> QED
      BY <1>5, <2>2, <3>2
  <2> QED
    BY <2>1, <2>2
<1>6. CASE /\ NextFailure(p, i) \in Knocked(p) /\ NextFailure(p, i) > i
           /\ \A j \in Knocked(p) : j > i => NextFailure(p, i) <= j
  <2>1. NextFailure(p, i) \in i..n
    BY <1>1, <1>2, <1>6
  <2>2. NextFailure(p, i) \in Knocked(p)'
    BY <1>6
  <2>3. NextFailure(p, i)' \in Knocked(p)' /\ NextFailure(p, i)' > i /\ NextFailure(p, i)' <= NextFailure(p, i)
    BY <1>1, <1>2, <1>4, <1>6, <2>2
  <2>4. NextFailure(p, i)' \in Knocked(p)
    BY <1>1, <2>1, <2>3
  <2>5. NextFailure(p, i)' = NextFailure(p, i)
    BY <1>1, <1>6, <2>1, <2>3, <2>4
  <2> QED
    BY <1>6, <2>5
<1> QED
  BY <1>3, <1>5, <1>6

(* A failure that is not remembered any more will not be. *)
LEMMA LinkedAdd ==
  ASSUME TriesInv, NEW t, Adds(t), NEW p, Knocked(p)' = Knocked(p) \/ Knocked(p)' = Knocked(p) \union {Len(tries) + 1},
         NEW i \in Knocked(p), Linked(p, i)'
  PROVE  /\ Linked(p, i)
         /\ (Knocked(p)' # Knocked(p) /\ \A j \in Knocked(p) : j <= i) =>
              Cardinality(Between(i, Len(tries) + 1)) < MaxThrottled /\ t.at - tries[i].at < 2 * MaxLockout
<1> DEFINE n == Len(tries)
           next == NextFailure(p, i)
<1>1. /\ n \in Nat /\ Len(tries') = n + 1 /\ Knocked(p) \in SUBSET (1..n) /\ MaxThrottled \in Nat
      /\ tries'[n + 1] = t /\ \A k \in 1..n : tries'[k] = tries[k]
  BY AddsAt, KnockedIs, DoorAssumption
<1>2. i \in 1..n
  BY <1>1
<1>3. \/ next' = next /\ next \in Knocked(p) /\ next > i
      \/ /\ next = n + 1 /\ \A j \in Knocked(p) : j <= i
         /\ next' = IF Knocked(p)' = Knocked(p) THEN n + 2 ELSE n + 1
  BY NextFailureStays
<1>4. /\ \A j \in 1..(n + 1) : Between(i, j)' = Between(i, j) /\ Cardinality(Between(i, j)) \in Nat
      /\ IsFiniteSet(Between(i, n + 1)') /\ Cardinality(Between(i, n + 1)) <= Cardinality(Between(i, n + 1)')
  BY <1>2, BetweenIs
<1>5. Linked(p, i) <=> Cardinality(Between(i, next)) < MaxThrottled /\ (next <= n => tries[next].at - tries[i].at < 2 * MaxLockout)
  BY DEF Linked
<1>6. \A j : j = next' =>
        /\ Cardinality(Between(i, j)') < MaxThrottled
        /\ j <= n + 1 => tries'[j].at - tries'[i].at < 2 * MaxLockout
  BY <1>1 DEF Linked, Between
<1>7. \A j : j = n + 2 => Between(i, j)' = Between(i, n + 1)'
  BY <1>1 DEF Between
<1>8. CASE next' = next /\ next \in Knocked(p) /\ next > i
  <2>1. next \in 1..n /\ next \in 1..(n + 1) /\ next <= n + 1 /\ next <= n
    BY <1>1, <1>8
  <2>2. /\ Cardinality(Between(i, next)) < MaxThrottled
        /\ tries[next].at - tries[i].at < 2 * MaxLockout
    <3> DEFINE c == next
    <3>1. c = next'
      BY <1>8
    <3>2. c = next
      OBVIOUS
    <3> HIDE DEF c, next
    <3> QED
      BY <1>1, <1>2, <1>4, <1>6, <2>1, <3>1, <3>2
  <2>3. ~ \A j \in Knocked(p) : j <= i
    BY <1>1, <1>2, <1>8
  <2> HIDE DEF next
  <2> QED
    BY <1>5, <2>2, <2>3
<1>9. CASE /\ next = n + 1 /\ \A j \in Knocked(p) : j <= i
           /\ next' = IF Knocked(p)' = Knocked(p) THEN n + 2 ELSE n + 1
  <2> HIDE DEF next
  <2>1. CASE Knocked(p)' = Knocked(p)
    <3>1. \A j : j = n + 2 => Cardinality(Between(i, j)') < MaxThrottled
      BY <1>6, <1>9, <2>1
    <3>2. Cardinality(Between(i, n + 1)') < MaxThrottled
      BY <1>7, <3>1
    <3>3. Cardinality(Between(i, n + 1)) < MaxThrottled
      <4>1. Cardinality(Between(i, n + 1)') \in Nat /\ Cardinality(Between(i, n + 1)) \in Nat
        <5>1. n + 1 \in 1..(n + 1)
          BY <1>1
        <5> QED
          BY <1>4, <5>1, FS_CardinalityType
      <4> QED
        BY <1>1, <1>4, <3>2, <4>1
    <3>4. ~(next <= n)
      BY <1>1, <1>9
    <3> QED
      BY <1>5, <1>9, <2>1, <3>3, <3>4
  <2>2. CASE Knocked(p)' # Knocked(p)
    <3>1. n + 1 \in 1..(n + 1) /\ ~(next <= n)
      BY <1>1, <1>9
    <3>2. Cardinality(Between(i, n + 1)) < MaxThrottled /\ t.at - tries[i].at < 2 * MaxLockout
      <4> DEFINE c == n + 1
      <4>1. c = next' /\ c \in 1..(n + 1) /\ c <= n + 1 /\ tries'[c] = t /\ tries'[i] = tries[i]
        BY <1>1, <1>2, <1>9, <2>2
      <4>2. Cardinality(Between(i, c)) < MaxThrottled /\ tries'[c].at - tries'[i].at < 2 * MaxLockout
        <5> HIDE DEF c
        <5> QED
          BY <1>4, <1>6, <4>1
      <4> QED
        BY <4>1, <4>2
    <3> QED
      BY <1>5, <1>9, <3>1, <3>2
  <2> QED
    BY <2>1, <2>2
<1> QED
  BY <1>3, <1>8, <1>9

\* A further failure still finds its predecessor remembered.
Fresh(p, i) == Cardinality(Between(i, Len(tries) + 1)) < MaxThrottled /\ now - tries[i].at < 2 * MaxLockout

(* Nothing that was forgotten comes back; and a failure that comes when the    *)
(* last before it is forgotten is the first again.                           *)
LEMMA RememberedAdd ==
  ASSUME TriesInv, NEW t, Adds(t), NEW p
  PROVE  /\ Knocked(p)' = Knocked(p) => Remembered(p)' \subseteq Remembered(p)
         /\ Knocked(p)' = Knocked(p) \union {Len(tries) + 1} =>
              /\ Remembered(p)' \subseteq Remembered(p) \union {Len(tries) + 1}
              /\ \/ Remembered(p)' \subseteq {Len(tries) + 1}
                 \/ Knocked(p) # {} /\ Fresh(p, Max(Knocked(p)))
<1> DEFINE n == Len(tries)
<1>1. n \in Nat /\ Knocked(p) \in SUBSET (1..n) /\ t.at = now
  BY AddsAt, KnockedIs DEF Adds
<1>2. \A i : i \in Remembered(p) <=> i \in Knocked(p) /\ \A j \in Knocked(p) : j >= i => Linked(p, j)
  BY DEF Remembered, Knocked
<1>3. \A i : i \in Remembered(p)' <=> i \in Knocked(p)' /\ \A j \in Knocked(p)' : j >= i => Linked(p, j)'
  BY DEF Remembered, Knocked
<1>4. ASSUME Knocked(p)' = Knocked(p)
      PROVE  Remembered(p)' \subseteq Remembered(p)
  <2>1. \A j \in Knocked(p) : Linked(p, j)' => Linked(p, j)
    BY <1>4, LinkedAdd
  <2> QED
    BY <1>2, <1>3, <1>4, <2>1
<1>5. ASSUME Knocked(p)' = Knocked(p) \union {n + 1}
      PROVE  /\ Remembered(p)' \subseteq Remembered(p) \union {n + 1}
             /\ \/ Remembered(p)' \subseteq {n + 1}
                \/ Knocked(p) # {} /\ Fresh(p, Max(Knocked(p)))
  <2>1. \A j \in Knocked(p) : Linked(p, j)' => Linked(p, j)
    BY <1>5, LinkedAdd
  <2>2. Remembered(p)' \subseteq Remembered(p) \union {n + 1}
    BY <1>2, <1>3, <1>5, <2>1
  <2>3. ASSUME NEW i \in Remembered(p)', i # n + 1
        PROVE  Knocked(p) # {} /\ Fresh(p, Max(Knocked(p)))
    <3>0. PICK m : m = Max(Knocked(p))
      OBVIOUS
    <3>1. i \in Knocked(p) /\ \A j \in Knocked(p)' : j >= i => Linked(p, j)'
      BY <1>3, <1>5, <2>3
    <3>2. m \in Knocked(p) /\ \A j \in Knocked(p) : j <= m
      BY <3>0, <3>1, KnockedIs
    <3>3. Linked(p, m)' /\ Knocked(p)' # Knocked(p)
      <4>1. m \in 1..n /\ i \in 1..n /\ i <= m /\ n + 1 \notin 1..n
        BY <1>1, <3>1, <3>2
      <4> QED
        BY <1>1, <1>5, <3>1, <3>2, <4>1
    <3>4. Cardinality(Between(m, n + 1)) < MaxThrottled /\ t.at - tries[m].at < 2 * MaxLockout
      BY <1>5, <3>2, <3>3, LinkedAdd
    <3> QED
      BY <1>1, <3>0, <3>1, <3>4 DEF Fresh
  <2> QED
    BY <2>2, <2>3
<1> QED
  BY <1>4, <1>5

\* When the last failure of p came, and who failed since.
LastAt(p)    == tries[Max(Knocked(p))].at
Strangers(p) == Between(Max(Knocked(p)), Len(tries) + 1)

LEMMA LastIs ==
  ASSUME TriesInv, NEW p, Knocked(p) # {}
  PROVE  LastAt(p) \in Nat /\ LastAt(p) <= now
<1>1. Max(Knocked(p)) \in DOMAIN tries /\ \A i \in DOMAIN tries : tries[i] \in Tried /\ tries[i].at <= now
  BY KnockedIs DEF TriesInv
<1> QED
  BY <1>1 DEF LastAt, Tried

LEMMA LastStays ==
  ASSUME TriesInv, NEW t, Adds(t), NEW p, Knocked(p) # {}, Knocked(p)' = Knocked(p)
  PROVE  /\ LastAt(p)' = LastAt(p)
         /\ Strangers(p)' = Strangers(p) \union (IF Strikes(t) THEN {t.who} ELSE {})
         /\ IsFiniteSet(Strangers(p)) /\ IsFiniteSet(Strangers(p)')
<1>1. PICK m : m = Max(Knocked(p))
  OBVIOUS
<1>2. m \in 1..Len(tries) /\ Max(Knocked(p))' = m
  BY <1>1, KnockedIs
<1>3. LastAt(p)' = LastAt(p)
  BY <1>1, <1>2, AddsAt DEF LastAt
<1>4. Strangers(p) = Between(m, Len(tries) + 1)
  BY <1>1 DEF Strangers
<1>5. Strangers(p)' = Between(m, Len(tries) + 1)'
  BY <1>2 DEF Strangers, Between
<1>6. Len(tries) + 1 \in 1..(Len(tries) + 1)
  BY AddsAt
<1>7. /\ Between(m, Len(tries) + 1)' = Between(m, Len(tries) + 1) \union (IF Strikes(t) THEN {t.who} ELSE {})
      /\ IsFiniteSet(Between(m, Len(tries) + 1)) /\ IsFiniteSet(Between(m, Len(tries) + 1)')
  BY <1>2, <1>6, BetweenIs
<1> QED
  BY <1>3, <1>4, <1>5, <1>7

LEMMA LastComes ==
  ASSUME TriesInv, NEW t, Adds(t), NEW p, Knocked(p)' = Knocked(p) \union {Len(tries) + 1}
  PROVE  /\ Knocked(p)' # {} /\ LastAt(p)' = now
         /\ Cardinality(Knocked(p)') = Cardinality(Knocked(p)) + 1
<1> DEFINE n == Len(tries)
<1>1. n \in Nat /\ Knocked(p) \in SUBSET (1..n) /\ IsFiniteSet(Knocked(p)) /\ tries'[n + 1] = t /\ t.at = now
  BY AddsAt, KnockedIs DEF Adds
<1>2. TriesInv'
  BY AddsAt
<1>3. n + 1 \notin Knocked(p)
  BY <1>1
<1>4. Knocked(p)' \in SUBSET Nat /\ IsFiniteSet(Knocked(p)') /\ Knocked(p)' # {}
  BY <1>1, FS_AddElement
<1>5. PICK S : S = Knocked(p)'
  OBVIOUS
<1>6. Max(S) \in S /\ \A i \in S : i <= Max(S)
  BY <1>4, <1>5, MaxIs
<1>7. Max(S) = n + 1
  <2>1. n + 1 \in S /\ \A i \in S : i \in Nat /\ i <= n + 1
    BY <1>1, <1>5
  <2> QED
    BY <1>1, <1>6, <2>1
<1>8. LastAt(p)' = now
  BY <1>1, <1>5, <1>7 DEF LastAt
<1>9. Cardinality(Knocked(p)') = Cardinality(Knocked(p)) + 1
  BY <1>1, <1>3, FS_AddElement
<1> QED
  BY <1>4, <1>8, <1>9

(* failed(): the record of an address is put in anew, and only by as many     *)
(* others as the table has room for is anybody forgotten.                    *)
LEMMA StruckTable ==
  ASSUME now \in Nat, NEW T, Table(T), NEW q
  PROVE  /\ Table(Struck(T, q, now)) /\ Retained(Struck(T, q, now), q, now + 2 * MaxLockout, {})
         /\ \A p, B : \A until \in Nat :
              p # q /\ until > now /\ IsFiniteSet(B) /\ Sheltered(T, p, until, B, MaxThrottled)
                => Sheltered(Struck(T, q, now), p, until, B \union {q}, MaxThrottled)
<1> DEFINE W == Used(T, q, now)
           was == Peek(T, q, NoRecord, now)
           is == [failures |-> was.failures + 1,
                  until |-> IF was.failures + 1 >= MaxAttempts THEN now + Penalty(was.failures + 1) ELSE was.until]
           U == Struck(T, q, now)
<1>1. 2 * MaxLockout \in Nat \ {0} /\ MaxThrottled \in Nat \ {0}
  BY DoorAssumption
<1>2. U = Put(W, q, is, 2 * MaxLockout, MaxThrottled, now)
  BY DEF Struck
<1>3. /\ Table(W)
      /\ \A p, until, B : p # q /\ Retained(T, p, until, B) => Retained(W, p, until, B \union {q})
  <2>1. CASE Holds(T, q, now)
    BY <2>1, UsedTable
  <2>2. CASE ~Holds(T, q, now)
    <3>1. W = Without(T, q)
      BY <2>2 DEF Used
    <3> HIDE DEF W
    <3>2. /\ Table(W)
          /\ \A p, until, B : p # q /\ Retained(T, p, until, B) => Retained(W, p, until, B)
      BY <3>1, WithoutTable
    <3>3. \A p, until, B : Retained(W, p, until, B) => Retained(W, p, until, B \union {q})
      BY DEF Retained
    <3> QED
      BY <3>2, <3>3
  <2> QED
    BY <2>1, <2>2
<1> HIDE DEF W, is
<1>4. /\ Table(U) /\ Retained(U, q, now + 2 * MaxLockout, {})
      /\ \A p, B : \A until \in Nat :
           p # q /\ until > now /\ IsFiniteSet(B) /\ Retained(W, p, until, B)
             => Sheltered(U, p, until, B \union {q}, MaxThrottled)
  <2> DEFINE ttl == 2 * MaxLockout
  <2>1. ttl \in Nat \ {0} /\ U = Put(W, q, is, ttl, MaxThrottled, now) /\ Table(W)
    BY <1>1, <1>2, <1>3
  <2> HIDE DEF ttl, U
  <2>2. /\ Table(Put(W, q, is, ttl, MaxThrottled, now))
        /\ Retained(Put(W, q, is, ttl, MaxThrottled, now), q, now + ttl, {})
        /\ \A p, B : \A until \in Nat :
             p # q /\ until > now /\ IsFiniteSet(B) /\ Retained(W, p, until, B)
               => Sheltered(Put(W, q, is, ttl, MaxThrottled, now), p, until, B \union {q}, MaxThrottled)
    BY <1>1, <2>1, PutTable
  <2> QED
    BY <2>1, <2>2 DEF ttl
<1> HIDE DEF U
<1>5. ASSUME NEW p, NEW B, NEW until \in Nat,
             p # q, until > now, IsFiniteSet(B), Sheltered(T, p, until, B, MaxThrottled)
      PROVE  Sheltered(U, p, until, B \union {q}, MaxThrottled)
  <2>1. IsFiniteSet(B \union {q}) /\ (B \union {q}) \union {q} = B \union {q} /\ B \subseteq B \union {q}
    BY <1>5, FS_AddElement
  <2>2. CASE Retained(T, p, until, B)
    <3>1. Retained(W, p, until, B \union {q})
      BY <1>3, <1>5, <2>2
    <3>2. Sheltered(U, p, until, (B \union {q}) \union {q}, MaxThrottled)
      BY <1>4, <1>5, <2>1, <3>1
    <3> QED
      BY <2>1, <3>2
  <2>3. CASE Cardinality(B) >= MaxThrottled
    <3>1. Cardinality(B) \in Nat /\ Cardinality(B \union {q}) \in Nat /\ Cardinality(B) <= Cardinality(B \union {q})
      BY <1>5, <2>1, FS_Subset, FS_CardinalityType
    <3> QED
      BY <1>1, <2>3, <3>1 DEF Sheltered
  <2> QED
    BY <1>5, <2>2, <2>3 DEF Sheltered
<1> QED
  BY <1>4, <1>5 DEF U

LEMMA StruckFrom ==
  ASSUME now \in Nat, NEW T, Table(T), NEW q
  PROVE  \A i \in DOMAIN Struck(T, q, now) :
           \/ LET was == Peek(T, q, NoRecord, now)
                  e   == Struck(T, q, now)[i]
              IN  /\ e.key = q
                  /\ e.value = [failures |-> was.failures + 1,
                                until |-> IF was.failures + 1 >= MaxAttempts THEN now + Penalty(was.failures + 1) ELSE was.until]
           \/ \E k \in DOMAIN T : T[k].key # q /\ Struck(T, q, now)[i] = T[k]
<1> DEFINE W == Used(T, q, now)
           was == Peek(T, q, NoRecord, now)
           is == [failures |-> was.failures + 1,
                  until |-> IF was.failures + 1 >= MaxAttempts THEN now + Penalty(was.failures + 1) ELSE was.until]
           U == Struck(T, q, now)
<1>1. 2 * MaxLockout \in Nat \ {0} /\ MaxThrottled \in Nat \ {0}
  BY DoorAssumption
<1>2. U = Put(W, q, is, 2 * MaxLockout, MaxThrottled, now)
  BY DEF Struck
<1>3. Table(W)
  <2>1. CASE Holds(T, q, now)
    BY <2>1, UsedTable
  <2>2. CASE ~Holds(T, q, now)
    BY <2>2, WithoutTable DEF Used
  <2> QED
    BY <2>1, <2>2
<1>4. \A i \in DOMAIN W : \E k \in DOMAIN T : W[i] = T[k]
  BY UsedFrom
<1> HIDE DEF W, is
<1>5. \A i \in DOMAIN U : \/ U[i] = [key |-> q, value |-> is, until |-> now + 2 * MaxLockout]
                          \/ \E k \in DOMAIN W : W[k].key # q /\ U[i] = W[k]
  BY <1>1, <1>2, <1>3, PutFrom
<1> HIDE DEF U
<1>6. ASSUME NEW i \in DOMAIN U
      PROVE  \/ U[i].key = q /\ U[i].value = is
             \/ \E k \in DOMAIN T : T[k].key # q /\ U[i] = T[k]
  BY <1>4, <1>5
<1> QED
  BY <1>6 DEF U, is

\* What the throttle has on record for p: no fewer failures than must be remembered, no more than
\* there were, and the lockout they earn.
Record(p, v) ==
  /\ Knocked(p) # {} /\ v.failures \in Nat /\ v.failures >= 1
  /\ Cardinality(Remembered(p)) <= v.failures /\ v.failures <= Cardinality(Knocked(p))
  /\ v.until = IF v.failures >= MaxAttempts THEN LastAt(p) + Penalty(v.failures) ELSE 0

\* Its record is kept unless as many others as there is room for have failed since.
Minded(p) ==
  Knocked(p) # {} /\ now < LastAt(p) + 2 * MaxLockout
    => Sheltered(throttle, p, LastAt(p) + 2 * MaxLockout, Strangers(p), MaxThrottled)

ThrottleInv ==
  /\ TriesInv /\ Table(throttle)
  /\ \A i \in DOMAIN throttle : Record(throttle[i].key, throttle[i].value)
  /\ \A p \in Peers : Minded(p)

(* An attempt that is neither a failure of p nor its success leaves what is on *)
(* record for p true.                                                       *)
LEMMA RecordStays ==
  ASSUME TriesInv, NEW t, Adds(t), NEW p, Knocked(p)' = Knocked(p), NEW v, Record(p, v)
  PROVE  Record(p, v)'
<1>1. Knocked(p) # {} /\ LastAt(p)' = LastAt(p)
  BY LastStays DEF Record
<1>2. Remembered(p)' \subseteq Remembered(p)
  BY RememberedAdd
<1>3. Cardinality(Remembered(p)') <= Cardinality(Remembered(p)) /\ Cardinality(Remembered(p)') \in Nat /\ Cardinality(Remembered(p)) \in Nat
  <2>1. IsFiniteSet(Remembered(p))
    BY KnockedIs
  <2> QED
    BY <1>2, <2>1, FS_Subset, FS_CardinalityType
<1>4. Cardinality(Knocked(p)') = Cardinality(Knocked(p))
  OBVIOUS
<1>5. Penalty(v.failures)' = Penalty(v.failures)
  BY DEF Penalty, Doubled
<1> QED
  BY <1>1, <1>3, <1>4, <1>5 DEF Record

LEMMA DashStrike == ASSUME ThrottleInv, NEW q \in Peers, Decide(q, FALSE) PROVE ThrottleInv'
<1> DEFINE t == Try("dashboard", q, FALSE)
           n == Len(tries)
           was == Peek(throttle, q, NoRecord, now)
<1>1. now \in Nat /\ TriesInv /\ Table(throttle)
  BY DEF ThrottleInv, TriesInv
<1>2. tries' = Append(tries, t) /\ now' = now /\ throttle' = Struck(throttle, q, now)
  BY DEF Decide, Steady
<1>3. t \in Tried /\ t.door = "dashboard" /\ t.who = q /\ t.at = now /\ ~t.ok
  BY <1>1 DEF Tried, Try
<1>4. Adds(t)
  BY <1>2, <1>3 DEF Adds
<1> HIDE DEF t
<1>5. TriesInv' /\ tries'[n + 1] = t /\ n \in Nat
  BY <1>1, <1>4, AddsAt
<1>6. /\ Table(throttle') /\ Retained(throttle', q, now + 2 * MaxLockout, {})
      /\ \A p, B : \A until \in Nat :
           p # q /\ until > now /\ IsFiniteSet(B) /\ Sheltered(throttle, p, until, B, MaxThrottled)
             => Sheltered(throttle', p, until, B \union {q}, MaxThrottled)
  BY <1>1, <1>2, StruckTable
<1>7. \A p : Knocked(p)' = IF p = q THEN Knocked(p) \union {n + 1} ELSE Knocked(p)
  BY <1>1, <1>3, <1>4, KnockedGrows DEF Theirs
<1>8. /\ Knocked(q)' = Knocked(q) \union {n + 1} /\ Knocked(q)' # {} /\ LastAt(q)' = now
      /\ Cardinality(Knocked(q)') = Cardinality(Knocked(q)) + 1
  BY <1>1, <1>4, <1>7, LastComes
<1>9. \A i \in DOMAIN throttle' :
        \/ /\ throttle'[i].key = q
           /\ throttle'[i].value = [failures |-> was.failures + 1,
                                    until |-> IF was.failures + 1 >= MaxAttempts THEN now + Penalty(was.failures + 1) ELSE was.until]
        \/ \E k \in DOMAIN throttle : throttle[k].key # q /\ throttle'[i] = throttle[k]
  BY <1>1, <1>2, StruckFrom
<1>10. /\ was.failures \in Nat /\ was.failures <= Cardinality(Knocked(q))
       /\ Cardinality(Remembered(q)') <= was.failures + 1
       /\ was.failures + 1 < MaxAttempts => was.until = 0
  <2>1. /\ IsFiniteSet(Remembered(q)) /\ Cardinality(Remembered(q)) \in Nat /\ Cardinality(Knocked(q)) \in Nat
        /\ MaxAttempts \in Nat /\ MaxThrottled \in Nat /\ MaxLockout \in Nat \ {0}
    BY <1>1, KnockedIs, DoorAssumption
  <2>2. /\ Remembered(q)' \subseteq Remembered(q) \union {n + 1}
        /\ Remembered(q)' \subseteq {n + 1} \/ (Knocked(q) # {} /\ Fresh(q, Max(Knocked(q))))
    BY <1>1, <1>4, <1>8, RememberedAdd
  <2>3. CASE Holds(throttle, q, now)
    <3>1. PICK k \in DOMAIN throttle : throttle[k].key = q /\ was = throttle[k].value
      BY <1>1, <2>3, PeekIs
    <3>2. Record(q, was)
      BY <3>1 DEF ThrottleInv
    <3>3. Cardinality(Remembered(q)') <= Cardinality(Remembered(q)) + 1 /\ Cardinality(Remembered(q)') \in Nat
      <4>1. /\ IsFiniteSet(Remembered(q) \union {n + 1})
            /\ Cardinality(Remembered(q) \union {n + 1}) = IF n + 1 \in Remembered(q) THEN Cardinality(Remembered(q)) ELSE Cardinality(Remembered(q)) + 1
        BY <2>1, FS_AddElement
      <4>2. Cardinality(Remembered(q)') <= Cardinality(Remembered(q) \union {n + 1}) /\ Cardinality(Remembered(q)') \in Nat
        BY <2>2, <4>1, FS_Subset, FS_CardinalityType
      <4> QED
        BY <2>1, <4>1, <4>2
    <3> QED
      BY <2>1, <3>2, <3>3 DEF Record
  <2>4. CASE ~Holds(throttle, q, now)
    <3>1. was = NoRecord
      BY <2>4 DEF Peek
    <3>2. Remembered(q)' \subseteq {n + 1}
      <4> SUFFICES ASSUME Knocked(q) # {}, Fresh(q, Max(Knocked(q))) PROVE FALSE
        BY <2>2
      <4>1. LastAt(q) \in Nat
        BY <1>1, LastIs
      <4>2. Cardinality(Strangers(q)) < MaxThrottled /\ now < LastAt(q) + 2 * MaxLockout
        BY <1>1, <2>1, <4>1 DEF Fresh, Strangers, LastAt
      <4>3. Sheltered(throttle, q, LastAt(q) + 2 * MaxLockout, Strangers(q), MaxThrottled)
        BY <4>2 DEF ThrottleInv, Minded
      <4>4. Cardinality(Strangers(q)) >= MaxThrottled
        <5> DEFINE u == LastAt(q) + 2 * MaxLockout
        <5>1. u \in Nat /\ u > now
          BY <1>1, <2>1, <4>1, <4>2
        <5> HIDE DEF u
        <5>2. Sheltered(throttle, q, u, Strangers(q), MaxThrottled)
          BY <4>3 DEF u
        <5> QED
          BY <1>1, <2>4, <5>1, <5>2, GuardHolds
      <4>5. PICK m : m = Max(Knocked(q))
        OBVIOUS
      <4>6. m \in 1..n /\ n + 1 \in 1..(n + 1)
        BY <1>1, <1>5, <4>5, KnockedIs
      <4>7. Cardinality(Strangers(q)) \in Nat
        BY <1>1, <1>4, <4>5, <4>6, BetweenIs DEF Strangers
      <4> QED
        BY <2>1, <4>2, <4>4, <4>7
    <3>3. Cardinality(Remembered(q)') <= 1
      <4>1. IsFiniteSet({n + 1}) /\ Cardinality({n + 1}) = 1
        BY FS_Singleton
      <4>2. Cardinality(Remembered(q)') <= Cardinality({n + 1})
        BY <3>2, <4>1, FS_Subset
      <4> QED
        BY <4>1, <4>2
    <3> QED
      BY <2>1, <3>1, <3>3 DEF NoRecord
  <2> QED
    BY <2>3, <2>4
<1> HIDE DEF was
<1>11. ASSUME NEW i \in DOMAIN throttle' PROVE Record(throttle[i].key, throttle[i].value)'
  <2>1. CASE /\ throttle'[i].key = q
             /\ throttle'[i].value = [failures |-> was.failures + 1,
                                      until |-> IF was.failures + 1 >= MaxAttempts THEN now + Penalty(was.failures + 1) ELSE was.until]
    <3> DEFINE f == was.failures + 1
    <3>1. PICK v : v = throttle'[i].value
      OBVIOUS
    <3>2. v.failures = f /\ v.until = IF f >= MaxAttempts THEN now + Penalty(f) ELSE was.until
      BY <2>1, <3>1
    <3>3. f \in Nat /\ f >= 1 /\ f <= Cardinality(Knocked(q)) + 1 /\ Cardinality(Remembered(q)') <= f
      <4>1. Cardinality(Knocked(q)) \in Nat
        BY <1>1, KnockedIs
      <4> QED
        BY <1>10, <4>1
    <3>4. v.until = IF f >= MaxAttempts THEN LastAt(q)' + Penalty(f) ELSE 0
      <4>1. MaxAttempts \in Nat
        BY DoorAssumption
      <4> QED
        BY <1>8, <1>10, <3>2, <3>3, <4>1
    <3>5. \A k : Penalty(k)' = Penalty(k)
      BY DEF Penalty, Doubled
    <3>6. Record(q, v)'
      <4> HIDE DEF f
      <4> QED
        BY <1>8, <3>2, <3>3, <3>4, <3>5 DEF Record
    <3> QED
      BY <2>1, <3>1, <3>6 DEF Record
  <2>2. CASE \E k \in DOMAIN throttle : throttle[k].key # q /\ throttle'[i] = throttle[k]
    <3>1. PICK k \in DOMAIN throttle : throttle[k].key # q /\ throttle'[i] = throttle[k]
      BY <2>2
    <3>2. PICK p, v : p = throttle[k].key /\ v = throttle[k].value
      OBVIOUS
    <3>3. Record(p, v) /\ Knocked(p)' = Knocked(p)
      BY <1>7, <3>1, <3>2 DEF ThrottleInv
    <3>4. Record(p, v)'
      BY <1>1, <1>4, <3>3, RecordStays
    <3> QED
      BY <3>1, <3>2, <3>4 DEF Record
  <2> QED
    BY <1>9, <2>1, <2>2
<1>12. ASSUME NEW p \in Peers PROVE Minded(p)'
  <2>0. 2 * MaxLockout \in Nat
    BY DoorAssumption
  <2>1. CASE p = q
    <3>1. Retained(throttle', q, now + 2 * MaxLockout, Strangers(q)')
      BY <1>6 DEF Retained
    <3> QED
      BY <1>2, <1>8, <2>1, <3>1 DEF Minded, Sheltered
  <2>2. CASE p # q
    <3> SUFFICES ASSUME Knocked(p)' # {}, now < LastAt(p)' + 2 * MaxLockout
                 PROVE  Sheltered(throttle', p, LastAt(p)' + 2 * MaxLockout, Strangers(p)', MaxThrottled)
      BY <1>2 DEF Minded
    <3>1. Knocked(p)' = Knocked(p)
      BY <1>7, <2>2
    <3>2. LastAt(p)' = LastAt(p) /\ Strangers(p)' = Strangers(p) \union {q} /\ IsFiniteSet(Strangers(p)) /\ LastAt(p) \in Nat
      BY <1>1, <1>3, <1>4, <3>1, LastStays, LastIs DEF Strikes
    <3> DEFINE u == LastAt(p) + 2 * MaxLockout
    <3>3. u \in Nat /\ u > now /\ LastAt(p)' + 2 * MaxLockout = u
      BY <1>1, <2>0, <3>2
    <3>4. Sheltered(throttle, p, u, Strangers(p), MaxThrottled)
      BY <3>1, <3>2 DEF ThrottleInv, Minded
    <3> HIDE DEF u
    <3>5. Sheltered(throttle', p, u, Strangers(p) \union {q}, MaxThrottled)
      BY <1>6, <2>2, <3>2, <3>3, <3>4
    <3> QED
      BY <3>2, <3>3, <3>5
  <2> QED
    BY <2>1, <2>2
<1> QED
  BY <1>5, <1>6, <1>11, <1>12 DEF ThrottleInv

LEMMA DashForgive == ASSUME ThrottleInv, NEW q \in Peers, Decide(q, TRUE) PROVE ThrottleInv'
<1> DEFINE t == Try("dashboard", q, TRUE)
<1>1. now \in Nat /\ TriesInv /\ Table(throttle)
  BY DEF ThrottleInv, TriesInv
<1>2. tries' = Append(tries, t) /\ now' = now /\ throttle' = Without(throttle, q)
  BY DEF Decide, Steady, Forgiven
<1>3. t \in Tried /\ t.door = "dashboard" /\ t.who = q /\ t.at = now /\ t.ok
  BY <1>1 DEF Tried, Try
<1>4. Adds(t)
  BY <1>2, <1>3 DEF Adds
<1> HIDE DEF t
<1>5. TriesInv'
  BY <1>1, <1>4, AddsAt
<1>6. /\ Table(throttle')
      /\ \A p, until, B : p # q /\ Retained(throttle, p, until, B) => Retained(throttle', p, until, B)
  BY <1>1, <1>2, WithoutTable
<1>7. \A i \in DOMAIN throttle' : \E k \in DOMAIN throttle : throttle[k].key # q /\ throttle'[i] = throttle[k]
  BY <1>1, <1>2, WithoutFrom
<1>8. \A p : Knocked(p)' = IF p = q THEN {} ELSE Knocked(p)
  BY <1>1, <1>3, <1>4, KnockedGrows DEF Theirs
<1>9. ASSUME NEW i \in DOMAIN throttle' PROVE Record(throttle[i].key, throttle[i].value)'
  <2>1. PICK k \in DOMAIN throttle : throttle[k].key # q /\ throttle'[i] = throttle[k]
    BY <1>7
  <2>2. PICK p, v : p = throttle[k].key /\ v = throttle[k].value
    OBVIOUS
  <2>3. Record(p, v) /\ Knocked(p)' = Knocked(p)
    BY <1>8, <2>1, <2>2 DEF ThrottleInv
  <2>4. Record(p, v)'
    BY <1>1, <1>4, <2>3, RecordStays
  <2> QED
    BY <2>1, <2>2, <2>4 DEF Record
<1>10. ASSUME NEW p \in Peers PROVE Minded(p)'
  <2> SUFFICES ASSUME Knocked(p)' # {}, now < LastAt(p)' + 2 * MaxLockout
               PROVE  Sheltered(throttle', p, LastAt(p)' + 2 * MaxLockout, Strangers(p)', MaxThrottled)
    BY <1>2 DEF Minded
  <2>1. p # q /\ Knocked(p)' = Knocked(p)
    BY <1>8
  <2>2. LastAt(p)' = LastAt(p) /\ Strangers(p)' = Strangers(p)
    <3>1. Knocked(p) # {} /\ ~Strikes(t)
      BY <1>3, <2>1 DEF Strikes
    <3>2. LastAt(p)' = LastAt(p) /\ Strangers(p)' = Strangers(p) \union (IF Strikes(t) THEN {t.who} ELSE {})
      BY <1>1, <1>4, <2>1, <3>1, LastStays
    <3> QED
      BY <3>1, <3>2
  <2>3. Sheltered(throttle, p, LastAt(p) + 2 * MaxLockout, Strangers(p), MaxThrottled)
    BY <2>1, <2>2 DEF ThrottleInv, Minded
  <2> QED
    BY <1>6, <2>1, <2>2, <2>3 DEF Sheltered
<1> QED
  BY <1>5, <1>6, <1>9, <1>10 DEF ThrottleInv

LEMMA PresentKeepsThrottle == ASSUME ThrottleInv, NEW q \in Peers, NEW ok \in BOOLEAN, Present(q, ok) PROVE ThrottleInv'
<1> DEFINE t == Try("management", q, ok)
<1>1. now \in Nat /\ TriesInv /\ Table(throttle)
  BY DEF ThrottleInv, TriesInv
<1>2. tries' = Append(tries, t) /\ now' = now /\ throttle' = throttle
  BY DEF Present, Steady
<1>3. t \in Tried /\ t.door = "management" /\ t.at = now
  BY <1>1 DEF Tried, Try
<1>4. Adds(t)
  BY <1>2, <1>3 DEF Adds
<1> HIDE DEF t
<1>5. TriesInv'
  BY <1>1, <1>4, AddsAt
<1>6. \A p : Knocked(p)' = Knocked(p)
  BY <1>1, <1>3, <1>4, KnockedGrows DEF Theirs
<1>7. ASSUME NEW i \in DOMAIN throttle' PROVE Record(throttle[i].key, throttle[i].value)'
  <2>1. PICK p, v : p = throttle[i].key /\ v = throttle[i].value
    OBVIOUS
  <2>2. Record(p, v)
    BY <1>2, <2>1 DEF ThrottleInv
  <2>3. Record(p, v)'
    BY <1>1, <1>4, <1>6, <2>2, RecordStays
  <2> QED
    BY <1>2, <2>1, <2>3 DEF Record
<1>8. ASSUME NEW p \in Peers PROVE Minded(p)'
  <2> SUFFICES ASSUME Knocked(p)' # {}, now < LastAt(p)' + 2 * MaxLockout
               PROVE  Sheltered(throttle', p, LastAt(p)' + 2 * MaxLockout, Strangers(p)', MaxThrottled)
    BY <1>2 DEF Minded
  <2>1. Knocked(p)' = Knocked(p)
    BY <1>6
  <2>2. LastAt(p)' = LastAt(p) /\ Strangers(p)' = Strangers(p)
    <3>1. Knocked(p) # {} /\ ~Strikes(t)
      BY <1>3, <2>1 DEF Strikes
    <3>2. LastAt(p)' = LastAt(p) /\ Strangers(p)' = Strangers(p) \union (IF Strikes(t) THEN {t.who} ELSE {})
      BY <1>1, <1>4, <2>1, <3>1, LastStays
    <3> QED
      BY <3>1, <3>2
  <2> QED
    BY <1>2, <2>1, <2>2 DEF ThrottleInv, Minded
<1>9. Table(throttle')
  BY <1>1, <1>2
<1> QED
  BY <1>5, <1>7, <1>8, <1>9 DEF ThrottleInv

LEMMA ThrottleInvNext == ThrottleInv /\ [Next]_vars => ThrottleInv'
<1> SUFFICES ASSUME ThrottleInv, [Next]_vars PROVE ThrottleInv'
  OBVIOUS
<1>1. CASE Elsewhere
  <2>1. /\ throttle' = throttle /\ tries' = tries /\ now' \in Nat /\ now <= now' /\ now \in Nat /\ TriesInv
    BY <1>1 DEF Elsewhere, ThrottleInv, TriesInv
  <2>2. TriesInv'
    <3>1. \A i \in DOMAIN tries : tries[i].at \in Nat /\ tries[i].at <= now
      <4>1. \A i \in DOMAIN tries : tries[i] \in Tried
        BY <2>1 DEF TriesInv
      <4> QED
        BY <2>1, <4>1 DEF TriesInv, Tried
    <3>2. \A i \in DOMAIN tries : tries[i].at <= now'
      BY <2>1, <3>1
    <3> QED
      BY <2>1, <3>2 DEF TriesInv
  <2>3. \A p : /\ Knocked(p)' = Knocked(p) /\ Remembered(p)' = Remembered(p)
               /\ LastAt(p)' = LastAt(p) /\ Strangers(p)' = Strangers(p)
    BY <2>1 DEF Knocked, Failures, Remembered, Linked, NextFailure, Between, LastAt, Strangers
  <2>4. \A p, v : Record(p, v)' <=> Record(p, v)
    BY <2>3 DEF Record, Penalty, Doubled
  <2>5. \A i \in DOMAIN throttle : Record(throttle[i].key, throttle[i].value)'
    <3> SUFFICES ASSUME NEW i \in DOMAIN throttle PROVE Record(throttle[i].key, throttle[i].value)'
      OBVIOUS
    <3>1. PICK p, v : p = throttle[i].key /\ v = throttle[i].value
      OBVIOUS
    <3>2. Record(p, v)'
      BY <2>4, <3>1 DEF ThrottleInv
    <3> QED
      BY <2>1, <3>1, <3>2 DEF Record
  <2>6. ASSUME NEW p \in Peers PROVE Minded(p)'
    <3>1. Knocked(p) # {} => LastAt(p) \in Nat
      BY <2>1, LastIs
    <3>2. 2 * MaxLockout \in Nat
      BY DoorAssumption
    <3>3. Knocked(p) # {} /\ now' < LastAt(p) + 2 * MaxLockout => now < LastAt(p) + 2 * MaxLockout
      BY <2>1, <3>1, <3>2
    <3> QED
      BY <2>1, <2>3, <3>3 DEF ThrottleInv, Minded
  <2>7. Table(throttle')
    BY <2>1 DEF ThrottleInv
  <2> QED
    BY <2>1, <2>2, <2>5, <2>6, <2>7 DEF ThrottleInv
<1>2. ASSUME NEW p \in Peers, NEW ok \in BOOLEAN, Decide(p, ok) PROVE ThrottleInv'
  <2>1. CASE ok = TRUE
    BY <1>2, <2>1, DashForgive
  <2>2. CASE ok = FALSE
    BY <1>2, <2>2, DashStrike
  <2> QED
    BY <2>1, <2>2
<1>3. ASSUME NEW p \in Peers, NEW ok \in BOOLEAN, Present(p, ok) PROVE ThrottleInv'
  BY <1>3, PresentKeepsThrottle
<1> QED
  BY <1>1, <1>2, <1>3, DoorsAct, Zenon

LEMMA ThrottleInitially == Init => ThrottleInv
<1> SUFFICES ASSUME Init PROVE ThrottleInv
  OBVIOUS
<1>1. now = 1 /\ throttle = <<>> /\ tries = <<>>
  BY DEF Init
<1>2. \A p : Knocked(p) = {}
  BY <1>1 DEF Knocked, Failures
<1>3. Table(<<>>)
  <2>1. <<>> \in Seq({})
    OBVIOUS
  <2> QED
    BY <2>1 DEF Table
<1>4. TriesInv
  BY <1>1 DEF TriesInv
<1> QED
  BY <1>1, <1>2, <1>3, <1>4 DEF ThrottleInv, Minded

(* Who has failed too often is locked, for as long as it has earned; and       *)
(* nobody else is.                                                          *)
LEMMA ThrottleHolds ==
  ASSUME ThrottleInv, NEW p \in Peers
  PROVE  /\ Cardinality(Remembered(p)) >= MaxAttempts /\ now < LastAt(p) + Due(Cardinality(Remembered(p)))
              => Locked(throttle, p, now)
         /\ Locked(throttle, p, now) => Cardinality(Knocked(p)) >= MaxAttempts /\ now < LastAt(p) + MaxLockout
<1>1. now \in Nat /\ TriesInv /\ Table(throttle) /\ Minded(p)
  BY DEF ThrottleInv, TriesInv
<1>2. MaxAttempts \in Nat \ {0} /\ MaxThrottled \in Nat /\ MaxLockout \in Nat \ {0}
  BY DoorAssumption
<1>3. /\ Cardinality(Remembered(p)) \in Nat /\ Cardinality(Knocked(p)) \in Nat
      /\ Remembered(p) \in SUBSET Knocked(p) /\ Knocked(p) \in SUBSET (1..Len(tries)) /\ Len(tries) \in Nat
  BY <1>1, KnockedIs DEF TriesInv
<1>4. ASSUME Holds(throttle, p, now)
      PROVE  \E v : Record(p, v) /\ LockedUntil(throttle, p, now) = v.until
  <2>1. PICK k \in DOMAIN throttle : throttle[k].key = p /\ Peek(throttle, p, NoRecord, now) = throttle[k].value
    BY <1>1, <1>4, PeekIs
  <2> QED
    BY <2>1 DEF ThrottleInv, LockedUntil
<1>5. ASSUME Cardinality(Remembered(p)) >= MaxAttempts, now < LastAt(p) + Due(Cardinality(Remembered(p)))
      PROVE  Locked(throttle, p, now)
  <2> DEFINE n == Cardinality(Remembered(p))
  <2>1. Penalty(n) \in Nat /\ Penalty(n) <= MaxLockout /\ Due(n) = Penalty(n)
    <3> HIDE DEF n
    <3>1. n \in Nat /\ n >= MaxAttempts
      BY <1>3, <1>5 DEF n
    <3> QED
      BY <3>1, PenaltyGrows
  <2>2. PICK i : i \in Remembered(p)
    <3>1. Remembered(p) # {}
      BY <1>2, <1>5, FS_EmptySet
    <3> QED
      BY <3>1
  <2>3. PICK m : m = Max(Knocked(p))
    OBVIOUS
  <2>4. m \in Knocked(p) /\ (\A j \in Knocked(p) : j <= m) /\ i \in Knocked(p) /\ Knocked(p) # {}
    BY <1>1, <1>3, <2>2, <2>3, KnockedIs
  <2>5. Linked(p, m)
    <3>1. m \in Nat /\ i \in Nat /\ m >= i
      BY <1>3, <2>4
    <3> QED
      BY <2>2, <2>4, <3>1 DEF Remembered, Knocked
  <2>6. NextFailure(p, m) = Len(tries) + 1
    <3>1. \/ NextFailure(p, m) = Len(tries) + 1
          \/ NextFailure(p, m) \in Knocked(p) /\ NextFailure(p, m) > m
      BY <1>1, <2>4, NextFailureIs
    <3>2. ASSUME NextFailure(p, m) \in Knocked(p), NextFailure(p, m) > m PROVE FALSE
      <4>1. NextFailure(p, m) \in Nat /\ m \in Nat /\ NextFailure(p, m) <= m
        BY <1>3, <2>4, <3>2
      <4> QED
        BY <3>2, <4>1
    <3> QED
      BY <3>1, <3>2
  <2>7. Cardinality(Strangers(p)) < MaxThrottled
    BY <2>3, <2>5, <2>6 DEF Linked, Strangers
  <2>8. LastAt(p) \in Nat
    BY <1>1, <2>4, LastIs
  <2>9. now < LastAt(p) + Penalty(n) /\ now < LastAt(p) + 2 * MaxLockout
    BY <1>1, <1>2, <1>5, <2>1, <2>8
  <2>10. Holds(throttle, p, now)
    <3> SUFFICES ASSUME ~Holds(throttle, p, now) PROVE FALSE
      OBVIOUS
    <3> DEFINE u == LastAt(p) + 2 * MaxLockout
    <3>1. u \in Nat /\ u > now
      BY <1>1, <1>2, <2>8, <2>9
    <3>2. Sheltered(throttle, p, u, Strangers(p), MaxThrottled)
      BY <1>1, <2>4, <2>9 DEF Minded
    <3> HIDE DEF u
    <3>3. Cardinality(Strangers(p)) >= MaxThrottled
      BY <1>1, <3>1, <3>2, GuardHolds
    <3>4. Cardinality(Strangers(p)) \in Nat
      <4>1. IsFiniteSet(Strangers(p))
        <5>1. m \in 1..Len(tries) /\ Len(tries) + 1 \in 1..(Len(tries) + 1)
          BY <1>3, <2>4
        <5> QED
          BY <1>1, <2>3, <5>1, BetweenFinite DEF Strangers
      <4> QED
        BY <4>1, FS_CardinalityType
    <3> QED
      BY <1>2, <2>7, <3>3, <3>4
  <2>11. PICK v : Record(p, v) /\ LockedUntil(throttle, p, now) = v.until
    BY <1>4, <2>10
  <2>12. v.failures \in Nat /\ v.failures >= n /\ v.failures >= MaxAttempts /\ n \in Nat /\ n >= MaxAttempts
    BY <1>2, <1>3, <1>5, <2>11 DEF Record
  <2> HIDE DEF n
  <2>13. Penalty(n) <= Penalty(v.failures) /\ Penalty(v.failures) \in Nat
    BY <2>12, PenaltyGrows
  <2>14. v.until = LastAt(p) + Penalty(v.failures)
    BY <2>11, <2>12 DEF Record
  <2> QED
    BY <1>1, <2>1, <2>8, <2>9, <2>11, <2>13, <2>14 DEF Locked
<1>6. ASSUME Locked(throttle, p, now)
      PROVE  Cardinality(Knocked(p)) >= MaxAttempts /\ now < LastAt(p) + MaxLockout
  <2>1. LockedUntil(throttle, p, now) > now
    BY <1>6 DEF Locked
  <2>2. Holds(throttle, p, now)
    <3> SUFFICES ASSUME ~Holds(throttle, p, now) PROVE FALSE
      OBVIOUS
    <3>1. LockedUntil(throttle, p, now) = 0
      BY DEF LockedUntil, Peek, NoRecord
    <3> QED
      BY <1>1, <2>1, <3>1
  <2>3. PICK v : Record(p, v) /\ LockedUntil(throttle, p, now) = v.until
    BY <1>4, <2>2
  <2>4. v.failures \in Nat /\ v.failures <= Cardinality(Knocked(p)) /\ Knocked(p) # {}
    BY <2>3 DEF Record
  <2>5. v.failures >= MaxAttempts /\ v.until = LastAt(p) + Penalty(v.failures)
    <3>1. v.until = IF v.failures >= MaxAttempts THEN LastAt(p) + Penalty(v.failures) ELSE 0
      BY <2>3 DEF Record
    <3> QED
      BY <1>1, <2>1, <2>3, <3>1
  <2>6. Penalty(v.failures) \in Nat /\ Penalty(v.failures) <= MaxLockout
    BY <2>4, <2>5, PenaltyGrows
  <2>7. LastAt(p) \in Nat
    BY <1>1, <2>4, LastIs
  <2> QED
    BY <1>1, <1>2, <1>3, <2>1, <2>3, <2>4, <2>5, <2>6, <2>7
<1> QED
  BY <1>5, <1>6

(* DoorsHold: whatever order attempts are decided in, however many were under   *)
(* way when an address was locked, and whoever pushed its record out, the        *)
(* lockout is what its failures earn, no more and no less.                     *)
THEOREM TheDoorsHold == Spec => []DoorsHold
<1>1. Init => KeysInv /\ ThrottleInv
  BY KeysInitially, ThrottleInitially
<1>2. (KeysInv /\ ThrottleInv) /\ [Next]_vars => (KeysInv /\ ThrottleInv)'
  BY KeysInvNext, ThrottleInvNext
<1>3. KeysInv /\ ThrottleInv => DoorsHold
  <2> SUFFICES ASSUME KeysInv, ThrottleInv PROVE DoorsHold
    OBVIOUS
  <2>1. Withheld
    BY WithheldAlways
  <2>2. ASSUME NEW p \in Peers
        PROVE  LET all == Failures("dashboard", p)
                   n   == Cardinality(Remembered(p))
               IN  /\ n >= MaxAttempts /\ now < tries[Max(all)].at + Due(n) => Locked(throttle, p, now)
                   /\ Locked(throttle, p, now) => Cardinality(all) >= MaxAttempts /\ now < tries[Max(all)].at + MaxLockout
                   /\ TooManyAuthFailures(guesses[p], now) <=>
                        Cardinality({i \in DOMAIN tries : /\ tries[i].door = "management" /\ tries[i].who = p
                                                          /\ ~tries[i].ok /\ now - tries[i].at < AuthWindow}) >= AuthFailures
    <3>1. Failures("dashboard", p) = Knocked(p) /\ tries[Max(Knocked(p))].at = LastAt(p)
      BY DEF Knocked, LastAt
    <3> QED
      BY <3>1, ThrottleHolds, KeysHold
  <2> QED
    BY <2>1, <2>2 DEF DoorsHold
<1> QED
  BY <1>1, <1>2, <1>3, PTL DEF Spec

(* ------------------------------- the viewers ------------------------------ *)

Frames == [kind : {"hello", "incident", "lagged", "skipped"}, n : Nat]

LEMMA WorthIs ==
  /\ \A f \in Frames : Worth(f) \in Nat
  /\ \A n : Worth(Frame("hello", n)) = 0 /\ Worth(Frame("incident", n)) = 1
            /\ Worth(Frame("lagged", n)) = n /\ Worth(Frame("skipped", n)) = n
<1>1. \A f \in Frames : Worth(f) \in Nat
  BY DEF Worth, Frames
<1> QED
  BY <1>1 DEF Worth, Frame

(* What a buffer stands for is a running sum. *)
LEMMA StandsIs ==
  ASSUME NEW s \in Seq(Frames)
  PROVE  \E g \in [0..Len(s) -> Nat] :
           g[0] = 0 /\ (\A i \in 1..Len(s) : g[i] = g[i - 1] + Worth(s[i])) /\ Stands(s) = g[Len(s)]
<1> DEFINE n == Len(s)
           F == [a \in Nat |-> [i \in 1..n |-> a + Worth(s[i])]]
           Is(h) == h = [i \in 0..n |-> IF i = 0 THEN 0 ELSE h[i - 1] + Worth(s[i])]
<1>1. n \in Nat /\ \A i \in 1..n : Worth(s[i]) \in Nat
  BY WorthIs
<1>2. F \in [Nat -> [1..n -> Nat]] /\ \A a \in Nat, i \in 1..n : F[a][i] = a + Worth(s[i])
  BY <1>1
<1> HIDE DEF F
<1>3. PICK h \in [0..n -> Nat] : Iterates(h, n, 0, F)
  BY <1>1, <1>2, IterateExists
<1>4. \A i \in 0..n : i # 0 => F[h[i - 1]][i] = h[i - 1] + Worth(s[i])
  <2> SUFFICES ASSUME NEW i \in 0..n, i # 0 PROVE F[h[i - 1]][i] = h[i - 1] + Worth(s[i])
    OBVIOUS
  <2>1. i \in 1..n /\ i - 1 \in 0..n
    BY <1>1
  <2>2. h[i - 1] \in Nat
    BY <2>1
  <2> QED
    BY <1>2, <2>1, <2>2
<1>5. Is(h)
  BY <1>3, <1>4 DEF Iterates
<1> DEFINE f == CHOOSE x : Is(x)
<1>6. Is(f)
  BY <1>5
<1>7. Stands(s) = f[n]
  BY DEF Stands
<1> HIDE DEF f
<1>8. \A i \in 0..n : f[i] = IF i = 0 THEN 0 ELSE f[i - 1] + Worth(s[i])
  BY <1>6
<1> DEFINE S == {i \in 0..n : f[i] \in Nat}
<1>9. 0 \in S
  BY <1>1, <1>8
<1>10. ASSUME NEW k \in 0..(n - 1), k \in S PROVE k + 1 \in S
  <2>1. k + 1 \in 0..n /\ k + 1 # 0 /\ (k + 1) - 1 = k /\ k + 1 \in 1..n
    BY <1>1
  <2>2. f[k + 1] = f[k] + Worth(s[k + 1])
    BY <1>8, <2>1
  <2> QED
    BY <1>1, <1>10, <2>1, <2>2
<1> HIDE DEF S
<1>11. 0..n \subseteq S
  BY <1>1, <1>9, <1>10, UpTo
<1>12. f \in [0..n -> Nat]
  <2>1. \A i \in 0..n : f[i] \in Nat
    BY <1>11 DEF S
  <2> QED
    BY <1>6, <2>1
<1>13. f[0] = 0 /\ \A i \in 1..n : f[i] = f[i - 1] + Worth(s[i])
  BY <1>1, <1>8
<1> QED
  BY <1>7, <1>12, <1>13

LEMMA StandsFor ==
  ASSUME NEW s \in Seq(Frames)
  PROVE  /\ Stands(s) \in Nat
         /\ s = <<>> => Stands(s) = 0
<1>1. PICK g \in [0..Len(s) -> Nat] : g[0] = 0 /\ Stands(s) = g[Len(s)]
  BY StandsIs
<1> QED
  BY <1>1

LEMMA StandsNone == <<>> \in Seq(Frames) /\ Stands(<<>>) = 0
<1>1. <<>> \in Seq(Frames)
  OBVIOUS
<1>2. PICK s \in Seq(Frames) : s = <<>>
  BY <1>1
<1> QED
  BY <1>1, <1>2, StandsFor

LEMMA StandsMore ==
  ASSUME NEW s \in Seq(Frames), NEW f \in Frames
  PROVE  /\ Append(s, f) \in Seq(Frames)
         /\ Stands(Append(s, f)) = Stands(s) + Worth(f)
<1> DEFINE n == Len(s)
           more == Append(s, f)
<1>1. /\ n \in Nat /\ more \in Seq(Frames) /\ Len(more) = n + 1 /\ more[n + 1] = f
      /\ \A i \in 1..n : more[i] = s[i]
  BY AppendProperties
<1> HIDE DEF more
<1>2. PICK g \in [0..n -> Nat] : g[0] = 0 /\ (\A i \in 1..n : g[i] = g[i - 1] + Worth(s[i])) /\ Stands(s) = g[n]
  BY StandsIs
<1>3. PICK h \in [0..(n + 1) -> Nat] :
        h[0] = 0 /\ (\A i \in 1..(n + 1) : h[i] = h[i - 1] + Worth(more[i])) /\ Stands(more) = h[n + 1]
  BY <1>1, StandsIs
<1> HIDE DEF n
<1> DEFINE S == {i \in 0..n : g[i] = h[i]}
<1>4. 0 \in S
  BY <1>1, <1>2, <1>3
<1>5. ASSUME NEW k \in 0..(n - 1), k \in S PROVE k + 1 \in S
  <2>1. k + 1 \in 1..n /\ k + 1 \in 1..(n + 1) /\ (k + 1) - 1 = k /\ k + 1 \in 0..n
    BY <1>1
  <2>2. g[k + 1] = g[k] + Worth(s[k + 1]) /\ h[k + 1] = h[k] + Worth(more[k + 1])
    BY <1>2, <1>3, <2>1
  <2> QED
    BY <1>1, <1>5, <2>1, <2>2
<1> HIDE DEF S
<1>6. 0..n \subseteq S
  BY <1>1, <1>4, <1>5, UpTo
<1>7. g[n] = h[n] /\ n + 1 \in 1..(n + 1) /\ (n + 1) - 1 = n
  BY <1>1, <1>6 DEF S
<1>8. h[n + 1] = h[n] + Worth(f)
  BY <1>1, <1>3, <1>7
<1> QED
  BY <1>1, <1>2, <1>3, <1>7, <1>8 DEF more

LEMMA StandsLess ==
  ASSUME NEW s \in Seq(Frames), s # <<>>
  PROVE  /\ Head(s) \in Frames /\ Tail(s) \in Seq(Frames)
         /\ Stands(s) = Worth(Head(s)) + Stands(Tail(s))
         /\ Worth(Head(s)) \in Nat /\ Stands(Tail(s)) \in Nat
<1> DEFINE n == Len(s)
           rest == Tail(s)
<1>1. /\ n \in Nat \ {0} /\ Head(s) = s[1] /\ rest \in Seq(Frames) /\ Len(rest) = n - 1
      /\ \A i \in 1..(n - 1) : rest[i] = s[i + 1]
  BY HeadTailProperties, EmptySeq
<1>2. s[1] \in Frames
  BY <1>1
<1> HIDE DEF rest
<1>3. PICK g \in [0..n -> Nat] : g[0] = 0 /\ (\A i \in 1..n : g[i] = g[i - 1] + Worth(s[i])) /\ Stands(s) = g[n]
  BY StandsIs
<1>4. PICK h \in [0..(n - 1) -> Nat] :
        h[0] = 0 /\ (\A i \in 1..(n - 1) : h[i] = h[i - 1] + Worth(rest[i])) /\ Stands(rest) = h[n - 1]
  BY <1>1, StandsIs
<1> HIDE DEF n
<1>5. Worth(s[1]) \in Nat
  BY <1>2, WorthIs
<1> DEFINE S == {i \in 0..(n - 1) : g[i + 1] = Worth(s[1]) + h[i]}
<1>6. 0 \in S
  <2>1. 1 \in 1..n /\ 0 \in 0..(n - 1)
    BY <1>1
  <2>2. g[1] = g[0] + Worth(s[1])
    BY <1>3, <2>1
  <2> QED
    BY <1>3, <1>4, <1>5, <2>1, <2>2
<1>7. ASSUME NEW k \in 0..((n - 1) - 1), k \in S PROVE k + 1 \in S
  <2>1. k + 1 \in 1..(n - 1) /\ k + 1 \in 0..(n - 1) /\ (k + 1) - 1 = k /\ (k + 1) + 1 \in 1..n /\ ((k + 1) + 1) - 1 = k + 1
    BY <1>1
  <2>2. h[k + 1] = h[k] + Worth(rest[k + 1]) /\ g[(k + 1) + 1] = g[k + 1] + Worth(s[(k + 1) + 1])
    BY <1>3, <1>4, <2>1
  <2>3. rest[k + 1] = s[(k + 1) + 1] /\ g[k + 1] = Worth(s[1]) + h[k] /\ Worth(rest[k + 1]) \in Nat /\ h[k] \in Nat
    <3>1. k \in 0..(n - 1)
      BY <1>1
    <3>2. Len(rest) = n - 1 /\ rest \in Seq(Frames) /\ k + 1 \in 1..(n - 1)
      BY <1>1, <2>1
    <3>3. rest[k + 1] \in Frames
      BY <3>2
    <3> QED
      BY <1>1, <1>7, <2>1, <3>1, <3>3, WorthIs
  <2> QED
    BY <1>5, <2>1, <2>2, <2>3
<1> HIDE DEF S
<1>8. 0..(n - 1) \subseteq S
  <2>1. n - 1 \in Nat
    BY <1>1
  <2> QED
    BY <1>6, <1>7, <2>1, UpTo
<1>9. g[(n - 1) + 1] = Worth(s[1]) + h[n - 1] /\ (n - 1) + 1 = n /\ n - 1 \in 0..(n - 1)
  BY <1>1, <1>8 DEF S
<1> QED
  BY <1>1, <1>2, <1>3, <1>4, <1>5, <1>9 DEF rest

StreamRecords ==
  [open : BOOLEAN, pipe : Seq(Frames), lagging : BOOLEAN, since : Nat, dropped : Nat, window : Nat, count : Nat,
   skipped : Nat, from : Nat, client : {"here", "gone", "aborted"}]

\* What a stream still owes its reader.
Pending(s) == Stands(s.pipe) + s.dropped + s.skipped

\* It is to tell of something left out; it carries an incident.
Telling(s)    == s.dropped + s.skipped > 0 \/ \E k \in DOMAIN s.pipe : s.pipe[k].kind \in {"lagged", "skipped"} /\ s.pipe[k].n > 0
Carries(s, n) == \E k \in DOMAIN s.pipe : s.pipe[k] = Frame("incident", n)

\* w is s after more was written.
Longer(s, w) == \A k \in DOMAIN s.pipe : k \in DOMAIN w.pipe /\ w.pipe[k] = s.pipe[k]
Unlike(s, w, n) == \A k \in DOMAIN w.pipe : w.pipe[k].kind = "incident" => w.pipe[k].n = n \/ (k \in DOMAIN s.pipe /\ w.pipe[k] = s.pipe[k])

LEMMA FrameIs == \A n \in Nat : {Frame("hello", n), Frame("incident", n), Frame("lagged", n), Frame("skipped", n)} \subseteq Frames
  BY DEF Frame, Frames

LEMMA AppendedIs ==
  ASSUME NEW s \in Seq(Frames), NEW f \in Frames
  PROVE  /\ Append(s, f) \in Seq(Frames) /\ Stands(Append(s, f)) = Stands(s) + Worth(f)
         /\ \A k \in DOMAIN s : k \in DOMAIN Append(s, f) /\ Append(s, f)[k] = s[k]
         /\ \A k \in DOMAIN Append(s, f) : k \in DOMAIN s \/ Append(s, f)[k] = f
         /\ \E k \in DOMAIN Append(s, f) : Append(s, f)[k] = f
<1> DEFINE n == Len(s)
           more == Append(s, f)
<1>1. /\ n \in Nat /\ more \in Seq(Frames) /\ Len(more) = n + 1 /\ more[n + 1] = f
      /\ \A i \in 1..n : more[i] = s[i]
  BY AppendProperties
<1>2. DOMAIN s = 1..n /\ DOMAIN more = 1..(n + 1)
  BY <1>1
<1>3. Stands(more) = Stands(s) + Worth(f)
  BY StandsMore
<1> HIDE DEF more, n
<1>4. \A k \in 1..n : k \in 1..(n + 1)
  BY <1>1
<1>5. \A k \in 1..(n + 1) : k \in 1..n \/ k = n + 1
  BY <1>1
<1>6. n + 1 \in 1..(n + 1)
  BY <1>1
<1> QED
  BY <1>1, <1>2, <1>3, <1>4, <1>5, <1>6 DEF more

\* w is s with a frame written, or counted as dropped.
Writes(s, w, frame, droppable) ==
  /\ w \in StreamRecords /\ w.open = s.open /\ w.from = s.from /\ w.client = s.client /\ w.skipped = s.skipped
  /\ Longer(s, w) /\ (\A k \in DOMAIN w.pipe : w.pipe[k] = frame \/ (k \in DOMAIN s.pipe /\ w.pipe[k] = s.pipe[k]))
  /\ \/ /\ droppable /\ w.dropped = s.dropped + 1 /\ w.pipe = s.pipe
     \/ /\ w.dropped = s.dropped /\ Stands(w.pipe) = Stands(s.pipe) + Worth(frame)
        /\ \E k \in DOMAIN w.pipe : w.pipe[k] = frame

LEMMA WrittenIs ==
  ASSUME NEW s \in StreamRecords, NEW frame \in Frames, NEW droppable \in BOOLEAN, NEW time \in Nat
  PROVE  Writes(s, Written(s, frame, droppable, time), frame, droppable)
<1> DEFINE pipe == Append(s.pipe, frame)
           w == Written(s, frame, droppable, time)
<1>0. s.pipe \in Seq(Frames)
  BY DEF StreamRecords
<1>1. CASE s.lagging /\ droppable
  <2>1. w = [s EXCEPT !.dropped = @ + 1]
    BY <1>1 DEF Written
  <2> HIDE DEF w
  <2>2. /\ w \in StreamRecords /\ w.open = s.open /\ w.from = s.from /\ w.client = s.client /\ w.skipped = s.skipped
        /\ w.dropped = s.dropped + 1 /\ w.pipe = s.pipe
    BY <2>1 DEF StreamRecords
  <2>3. Writes(s, w, frame, droppable)
    BY <1>1, <2>2 DEF Writes, Longer
  <2> QED
    BY <2>3 DEF w
<1>2. CASE ~(s.lagging /\ droppable)
  <2>1. w = [s EXCEPT !.pipe = pipe] \/ w = [s EXCEPT !.pipe = pipe, !.lagging = TRUE, !.since = time]
    BY <1>2 DEF Written
  <2>2. /\ pipe \in Seq(Frames) /\ Stands(pipe) = Stands(s.pipe) + Worth(frame)
        /\ \A k \in DOMAIN s.pipe : k \in DOMAIN pipe /\ pipe[k] = s.pipe[k]
        /\ \A k \in DOMAIN pipe : k \in DOMAIN s.pipe \/ pipe[k] = frame
        /\ \E k \in DOMAIN pipe : pipe[k] = frame
    BY <1>0, AppendedIs
  <2> HIDE DEF w, pipe
  <2>3. /\ w \in StreamRecords /\ w.open = s.open /\ w.from = s.from /\ w.client = s.client /\ w.skipped = s.skipped
        /\ w.dropped = s.dropped /\ w.pipe = pipe
    <3>1. pipe \in Seq(Frames)
      BY <2>2
    <3>2. CASE w = [s EXCEPT !.pipe = pipe]
      BY <3>1, <3>2 DEF StreamRecords
    <3>3. CASE w = [s EXCEPT !.pipe = pipe, !.lagging = TRUE, !.since = time]
      BY <3>1, <3>3 DEF StreamRecords
    <3> QED
      BY <2>1, <3>2, <3>3
  <2>4. Writes(s, w, frame, droppable)
    BY <2>2, <2>3 DEF Writes, Longer
  <2> QED
    BY <2>4 DEF w
<1> QED
  BY <1>1, <1>2

\* What becomes of a stream that was open when an incident was published.
FedRight(s, w, n) ==
  /\ w \in StreamRecords /\ w.from = s.from /\ w.client = s.client
  /\ Longer(s, w) /\ Unlike(s, w, n)
  /\ w.open => /\ Pending(w) = Pending(s) + 1
               /\ Carries(w, n) \/ w.dropped + w.skipped > 0
               /\ Telling(s) => Telling(w)

LEMMA FedIs ==
  ASSUME NEW s \in StreamRecords, s.open, NEW n \in Nat, NEW time \in Nat
  PROVE  FedRight(s, Fed(s, n, time), n)
<1> DEFINE w == NewWindow(s, time)
           one == [w EXCEPT !.count = @ + (IF PerSecond > 0 THEN 1 ELSE 0)]
           z == Fed(s, n, time)
           told == Written(s, Frame("skipped", s.skipped), FALSE, time)
<1>0. /\ PerSecond \in Nat
      /\ s.pipe \in Seq(Frames) /\ s.dropped \in Nat /\ s.skipped \in Nat /\ Stands(s.pipe) \in Nat
      /\ Frame("skipped", s.skipped) \in Frames /\ Frame("incident", n) \in Frames
  BY ConnectionsAssumption, StandsFor, FrameIs DEF StreamRecords
<1>1. CASE s.lagging /\ (time - s.since > LagLimit \/ s.dropped > LagDrops)
  <2>1. z = [s EXCEPT !.open = FALSE]
    BY <1>1 DEF Fed
  <2> HIDE DEF z
  <2>2. z \in StreamRecords /\ z.from = s.from /\ z.client = s.client /\ z.pipe = s.pipe /\ ~z.open
    BY <2>1 DEF StreamRecords
  <2>3. FedRight(s, z, n)
    BY <2>2 DEF FedRight, Longer, Unlike
  <2> QED
    BY <2>3 DEF z
<1>2. CASE ~(s.lagging /\ (time - s.since > LagLimit \/ s.dropped > LagDrops))
  <2>1. z = IF PerSecond > 0 /\ w.count >= PerSecond THEN [w EXCEPT !.skipped = @ + 1]
            ELSE Written(one, Frame("incident", n), TRUE, time)
    BY <1>2 DEF Fed
  <2>2. /\ w \in StreamRecords /\ w.open /\ w.from = s.from /\ w.client = s.client
        /\ Longer(s, w) /\ Pending(w) = Pending(s) /\ (Telling(s) => Telling(w))
        /\ \A k \in DOMAIN w.pipe : w.pipe[k].kind = "incident" => k \in DOMAIN s.pipe /\ w.pipe[k] = s.pipe[k]
    <3>1. CASE w = s
      BY <3>1 DEF Longer
    <3>2. CASE s.skipped = 0 /\ w = [s EXCEPT !.window = time, !.count = 0, !.skipped = 0]
      <4> HIDE DEF w
      <4>1. /\ w \in StreamRecords /\ w.open /\ w.from = s.from /\ w.client = s.client
            /\ w.pipe = s.pipe /\ w.dropped = s.dropped /\ w.skipped = s.skipped
        BY <3>2 DEF StreamRecords
      <4> QED
        BY <4>1 DEF Longer, Pending, Telling
    <3>3. CASE s.skipped > 0 /\ w = [told EXCEPT !.window = time, !.count = 0, !.skipped = 0]
      <4> DEFINE f == Frame("skipped", s.skipped)
      <4>1. Writes(s, told, f, FALSE)
        BY <1>0, WrittenIs
      <4>2. f.kind = "skipped" /\ f.n = s.skipped /\ Worth(f) = s.skipped
        BY WorthIs DEF Frame
      <4> HIDE DEF w, told, f
      <4>3. /\ told \in StreamRecords /\ told.open /\ told.from = s.from /\ told.client = s.client
            /\ Longer(s, told) /\ (\A k \in DOMAIN told.pipe : told.pipe[k] = f \/ (k \in DOMAIN s.pipe /\ told.pipe[k] = s.pipe[k]))
            /\ told.dropped = s.dropped /\ Stands(told.pipe) = Stands(s.pipe) + s.skipped
            /\ \E k \in DOMAIN told.pipe : told.pipe[k] = f
        BY <4>1, <4>2 DEF Writes
      <4>4. /\ w \in StreamRecords /\ w.open /\ w.from = s.from /\ w.client = s.client
            /\ w.pipe = told.pipe /\ w.dropped = told.dropped /\ w.skipped = 0
        BY <3>3, <4>3 DEF StreamRecords
      <4>5. Longer(s, w) /\ \A k \in DOMAIN w.pipe : w.pipe[k].kind = "incident" => k \in DOMAIN s.pipe /\ w.pipe[k] = s.pipe[k]
        BY <4>2, <4>3, <4>4 DEF Longer
      <4>6. Pending(w) = Pending(s)
        BY <1>0, <4>3, <4>4 DEF Pending
      <4>7. Telling(w)
        BY <3>3, <4>2, <4>3, <4>4 DEF Telling
      <4> QED
        BY <4>4, <4>5, <4>6, <4>7
    <3>4. \/ w = s
          \/ s.skipped = 0 /\ w = [s EXCEPT !.window = time, !.count = 0, !.skipped = 0]
          \/ s.skipped > 0 /\ w = [told EXCEPT !.window = time, !.count = 0, !.skipped = 0]
      <4>1. CASE PerSecond = 0 \/ time = s.window
        BY <4>1 DEF NewWindow
      <4>2. CASE ~(PerSecond = 0 \/ time = s.window)
        <5>1. w = [(IF s.skipped > 0 THEN told ELSE s) EXCEPT !.window = time, !.count = 0, !.skipped = 0]
          BY <4>2 DEF NewWindow
        <5> HIDE DEF w, told
        <5>2. s.skipped = 0 \/ s.skipped > 0
          BY <1>0
        <5>3. CASE s.skipped > 0
          BY <5>1, <5>3
        <5>4. CASE s.skipped = 0
          <6>1. ~(s.skipped > 0)
            BY <5>4
          <6> QED
            BY <5>1, <5>4, <6>1
        <5> QED
          BY <5>2, <5>3, <5>4
      <4> QED
        BY <4>1, <4>2
    <3> QED
      BY <3>1, <3>2, <3>3, <3>4
  <2> HIDE DEF w
  <2>3. w.pipe \in Seq(Frames) /\ w.dropped \in Nat /\ w.skipped \in Nat /\ w.count \in Nat /\ Stands(w.pipe) \in Nat
    BY <2>2, StandsFor DEF StreamRecords
  <2>4. CASE z = [w EXCEPT !.skipped = @ + 1]
    <3> HIDE DEF z
    <3>0. w \in StreamRecords /\ w.open /\ w.from = s.from /\ w.client = s.client /\ w.skipped + 1 \in Nat
      BY <2>2, <2>3
    <3>1. /\ z \in StreamRecords /\ z.open /\ z.from = s.from /\ z.client = s.client
          /\ z.pipe = w.pipe /\ z.dropped = w.dropped /\ z.skipped = w.skipped + 1
      BY <2>4, <3>0 DEF StreamRecords
    <3>2. Pending(z) = Pending(s) + 1
      BY <2>2, <2>3, <3>1 DEF Pending
    <3>3. z.dropped + z.skipped > 0
      BY <2>3, <3>1
    <3>4. Longer(s, z) /\ Unlike(s, z, n)
      BY <2>2, <3>1 DEF Longer, Unlike
    <3>5. Telling(z)
      BY <3>3 DEF Telling
    <3>6. FedRight(s, z, n)
      BY <3>1, <3>2, <3>3, <3>4, <3>5 DEF FedRight
    <3> QED
      BY <3>6 DEF z
  <2>5. CASE z = Written(one, Frame("incident", n), TRUE, time)
    <3> DEFINE f == Frame("incident", n)
    <3>1. /\ one \in StreamRecords /\ one.open /\ one.from = s.from /\ one.client = s.client
          /\ one.pipe = w.pipe /\ one.dropped = w.dropped /\ one.skipped = w.skipped
      <4>1. w.count + (IF PerSecond > 0 THEN 1 ELSE 0) \in Nat
        BY <2>3
      <4> QED
        BY <2>2, <4>1 DEF StreamRecords
    <3> HIDE DEF z, one
    <3>2. Writes(one, z, f, TRUE)
      BY <1>0, <2>5, <3>1, WrittenIs
    <3>3. f.kind = "incident" /\ f.n = n /\ Worth(f) = 1 /\ f = Frame("incident", n)
      BY WorthIs DEF Frame
    <3> HIDE DEF f
    <3>4. /\ z \in StreamRecords /\ z.open /\ z.from = s.from /\ z.client = s.client /\ z.skipped = w.skipped
          /\ \A k \in DOMAIN w.pipe : k \in DOMAIN z.pipe /\ z.pipe[k] = w.pipe[k]
          /\ \A k \in DOMAIN z.pipe : z.pipe[k] = f \/ (k \in DOMAIN w.pipe /\ z.pipe[k] = w.pipe[k])
          /\ \/ z.dropped = w.dropped + 1 /\ z.pipe = w.pipe
             \/ /\ z.dropped = w.dropped /\ Stands(z.pipe) = Stands(w.pipe) + 1
                /\ \E k \in DOMAIN z.pipe : z.pipe[k] = f
      BY <3>1, <3>2, <3>3 DEF Writes, Longer
    <3>5. Longer(s, z)
      BY <2>2, <3>4 DEF Longer
    <3>6. Unlike(s, z, n)
      BY <2>2, <3>3, <3>4 DEF Unlike
    <3>7. Pending(z) = Pending(s) + 1
      BY <2>2, <2>3, <3>4 DEF Pending
    <3>8. Carries(z, n) \/ z.dropped + z.skipped > 0
      BY <2>3, <3>3, <3>4 DEF Carries
    <3>9. Telling(w) => Telling(z)
      <4>1. w.dropped + w.skipped > 0 => z.dropped + z.skipped > 0
        BY <2>3, <3>4
      <4> QED
        BY <3>4, <4>1 DEF Telling
    <3>10. FedRight(s, z, n)
      BY <2>2, <3>4, <3>5, <3>6, <3>7, <3>8, <3>9 DEF FedRight
    <3> QED
      BY <3>10 DEF z
  <2> QED
    BY <2>1, <2>4, <2>5
<1> QED
  BY <1>1, <1>2

\* What becomes of a stream of which a frame is read.
ReadRight(s, r) ==
  /\ r \in StreamRecords /\ r.open = s.open /\ r.from = s.from /\ r.client = s.client
  /\ Head(s.pipe) \in Frames /\ Pending(s) = Worth(Head(s.pipe)) + Pending(r)
  /\ \A n : Carries(s, n) => Head(s.pipe) = Frame("incident", n) \/ Carries(r, n)
  /\ Telling(s) => Telling(r) \/ (Head(s.pipe).kind \in {"lagged", "skipped"} /\ Head(s.pipe).n > 0)
  /\ \A k \in DOMAIN r.pipe : r.pipe[k].kind = "incident" => \E j \in DOMAIN s.pipe : r.pipe[k] = s.pipe[j]
  /\ \E j \in DOMAIN s.pipe : Head(s.pipe) = s.pipe[j]

LEMMA ReadIs ==
  ASSUME NEW s \in StreamRecords, s.pipe # <<>>
  PROVE  ReadRight(s, Read(s))
<1> DEFINE p == s.pipe
           h == Head(p)
           tl == Tail(p)
           rest == [s EXCEPT !.pipe = tl]
           r == Read(s)
<1>1. /\ p \in Seq(Frames) /\ h \in Frames /\ tl \in Seq(Frames) /\ Stands(p) = Worth(h) + Stands(tl)
      /\ Worth(h) \in Nat /\ Stands(tl) \in Nat
      /\ s.dropped \in Nat /\ s.skipped \in Nat /\ s.lagging \in BOOLEAN
  BY StandsLess DEF StreamRecords
<1>2. /\ Len(p) \in Nat \ {0} /\ DOMAIN p = 1..Len(p) /\ h = p[1] /\ Len(tl) = Len(p) - 1 /\ DOMAIN tl = 1..(Len(p) - 1)
      /\ \A i \in 1..(Len(p) - 1) : tl[i] = p[i + 1]
  BY <1>1, HeadTailProperties, EmptySeq
<1> HIDE DEF h, tl
<1>3. /\ 1 \in DOMAIN p
      /\ \A k \in DOMAIN p : k = 1 \/ (k - 1 \in DOMAIN tl /\ tl[k - 1] = p[k])
      /\ \A k \in DOMAIN tl : k + 1 \in DOMAIN p /\ tl[k] = p[k + 1]
  <2> DEFINE n == Len(p)
  <2> HIDE DEF n
  <2>1. /\ n \in Nat \ {0} /\ DOMAIN p = 1..n /\ DOMAIN tl = 1..(n - 1) /\ \A i \in 1..(n - 1) : tl[i] = p[i + 1]
    BY <1>2 DEF n
  <2>2. \A k \in 1..n : k = 1 \/ (k - 1 \in 1..(n - 1) /\ (k - 1) + 1 = k)
    BY <2>1
  <2>3. \A k \in 1..(n - 1) : k + 1 \in 1..n
    BY <2>1
  <2> QED
    BY <2>1, <2>2, <2>3
<1>4. /\ rest \in StreamRecords /\ rest.open = s.open /\ rest.from = s.from /\ rest.client = s.client
      /\ rest.pipe = tl /\ rest.dropped = s.dropped /\ rest.skipped = s.skipped /\ rest.lagging = s.lagging
  BY <1>1 DEF StreamRecords
<1>5. \A n : Carries(s, n) => h = Frame("incident", n) \/ \E k \in DOMAIN tl : tl[k] = Frame("incident", n)
  BY <1>2, <1>3 DEF Carries
<1>6. CASE tl # <<>> \/ ~s.lagging
  <2>1. r = rest
    BY <1>4, <1>6 DEF Read, tl
  <2> HIDE DEF rest, r
  <2>2. Pending(s) = Worth(h) + Pending(r)
    BY <1>1, <1>4, <2>1 DEF Pending
  <2>3. \A n : Carries(s, n) => h = Frame("incident", n) \/ Carries(r, n)
    BY <1>4, <1>5, <2>1 DEF Carries
  <2>4. Telling(s) => Telling(r) \/ (h.kind \in {"lagged", "skipped"} /\ h.n > 0)
    BY <1>2, <1>3, <1>4, <2>1 DEF Telling
  <2>5. ReadRight(s, r)
    BY <1>1, <1>2, <1>3, <1>4, <2>1, <2>2, <2>3, <2>4 DEF ReadRight, h
  <2> QED
    BY <2>5 DEF r
<1>7. CASE tl = <<>> /\ s.lagging
  <2> DEFINE f == Frame("lagged", s.dropped)
             q == IF s.dropped > 0 THEN <<f>> ELSE <<>>
  <2>1. r = [rest EXCEPT !.lagging = FALSE, !.dropped = 0, !.pipe = q]
    BY <1>4, <1>7 DEF Read, tl
  <2>2. f \in Frames /\ f.kind = "lagged" /\ f.n = s.dropped /\ Worth(f) = s.dropped
    BY <1>1, FrameIs, WorthIs DEF Frame
  <2> HIDE DEF rest, r, f
  <2>3. /\ q \in Seq(Frames) /\ Stands(q) = s.dropped
        /\ s.dropped > 0 => 1 \in DOMAIN q /\ q[1] = f
        /\ \A k \in DOMAIN q : q[k] = f
    <3>1. <<>> \in Seq(Frames) /\ Stands(<<>>) = 0
      BY StandsNone
    <3>2. CASE s.dropped > 0
      <4>1. Append(<<>>, f) = <<f>>
        OBVIOUS
      <4>2. <<f>> \in Seq(Frames) /\ Stands(<<f>>) = Stands(<<>>) + Worth(f)
        BY <2>2, <3>1, <4>1, StandsMore
      <4>3. 1 \in DOMAIN <<f>> /\ <<f>>[1] = f /\ \A k \in DOMAIN <<f>> : <<f>>[k] = f
        OBVIOUS
      <4> QED
        BY <1>1, <2>2, <3>1, <3>2, <4>2, <4>3
    <3>3. CASE ~(s.dropped > 0)
      BY <1>1, <3>1, <3>3
    <3> QED
      BY <3>2, <3>3
  <2> HIDE DEF q
  <2>4. /\ r \in StreamRecords /\ r.open = s.open /\ r.from = s.from /\ r.client = s.client
        /\ r.pipe = q /\ r.dropped = 0 /\ r.skipped = s.skipped
    BY <1>4, <2>1, <2>3 DEF StreamRecords
  <2>5. Stands(tl) = 0 /\ DOMAIN tl = {}
    BY <1>7, StandsNone
  <2>6. Pending(s) = Worth(h) + Pending(r)
    BY <1>1, <2>3, <2>4, <2>5 DEF Pending
  <2>7. \A n : Carries(s, n) => h = Frame("incident", n) \/ Carries(r, n)
    BY <1>5, <2>5
  <2>8. Telling(s) => Telling(r) \/ (h.kind \in {"lagged", "skipped"} /\ h.n > 0)
    <3>1. CASE s.dropped > 0
      <4>1. 1 \in DOMAIN r.pipe /\ r.pipe[1].kind = "lagged" /\ r.pipe[1].n > 0
        BY <2>2, <2>3, <2>4, <3>1
      <4> QED
        BY <4>1 DEF Telling
    <3>2. CASE s.skipped > 0
      BY <1>1, <2>4, <3>2 DEF Telling
    <3>3. CASE ~(s.dropped > 0) /\ ~(s.skipped > 0)
      BY <1>1, <1>2, <1>3, <2>5, <3>3 DEF Telling
    <3> QED
      BY <3>1, <3>2, <3>3
  <2>9. \A k \in DOMAIN r.pipe : r.pipe[k].kind # "incident"
    BY <2>2, <2>3, <2>4
  <2>10. ReadRight(s, r)
    BY <1>1, <1>2, <1>3, <2>4, <2>6, <2>7, <2>8, <2>9 DEF ReadRight, h
  <2> QED
    BY <2>10 DEF r
<1> QED
  BY <1>1, <1>6, <1>7

LinkViewers == [open : BOOLEAN, buffered : Seq(Frames), dropped : Nat, stalled : Nat, from : Nat]

\* A viewer of the management API is sent an incident, or ended.
WsFedRight(w, v) ==
  /\ v \in LinkViewers /\ v.from = w.from
  /\ w.open /\ v.open => Stands(v.buffered) + v.dropped = Stands(w.buffered) + w.dropped + 1

LEMMA WsFedIs ==
  ASSUME NEW w \in LinkViewers, NEW n \in Nat, NEW time \in Nat
  PROVE  WsFedRight(w, WsFed(w, n, time)) /\ (~w.open => WsFed(w, n, time) = w)
<1> DEFINE since == IF w.stalled = Never THEN time ELSE w.stalled
           v == WsFed(w, n, time)
           f == Frame("incident", n)
           g == Frame("lagged", w.dropped)
           more == w.buffered \o (IF w.dropped > 0 THEN <<g>> ELSE <<>>) \o <<f>>
<1>1. /\ w.buffered \in Seq(Frames) /\ w.dropped \in Nat /\ since \in Nat /\ Stands(w.buffered) \in Nat
      /\ f \in Frames /\ g \in Frames /\ Worth(f) = 1 /\ Worth(g) = w.dropped
  BY StandsFor, FrameIs, WorthIs DEF LinkViewers
<1>2. CASE ~w.open
  <2>1. v = w
    BY <1>2 DEF WsFed
  <2> QED
    BY <1>2, <2>1 DEF WsFedRight
<1>3. CASE w.open /\ Len(w.buffered) > Ceiling
  <2>1. v = [w EXCEPT !.dropped = @ + 1, !.stalled = since, !.open = time - since < Stall]
    BY <1>3 DEF WsFed
  <2> HIDE DEF v, since
  <2>0. PICK b \in BOOLEAN : v = [w EXCEPT !.dropped = @ + 1, !.stalled = since, !.open = b]
    <3> DEFINE short == time - since < Stall
    <3>1. short \in BOOLEAN
      BY DEF short
    <3>2. v = [w EXCEPT !.dropped = @ + 1, !.stalled = since, !.open = short]
      BY <2>1
    <3> HIDE DEF short
    <3> QED
      BY <3>1, <3>2, Zenon
  <2>9. w.dropped + 1 \in Nat /\ w \in LinkViewers
    BY <1>1
  <2>2. v \in LinkViewers /\ v.from = w.from /\ v.buffered = w.buffered /\ v.dropped = w.dropped + 1
    BY <1>1, <2>0, <2>9 DEF LinkViewers
  <2>3. WsFedRight(w, v)
    BY <1>1, <2>2 DEF WsFedRight
  <2> QED
    BY <1>3, <2>3 DEF v
<1>4. CASE w.open /\ ~(Len(w.buffered) > Ceiling)
  <2>1. v = [w EXCEPT !.stalled = Never, !.dropped = 0, !.buffered = more]
    BY <1>4 DEF WsFed
  <2>2. more \in Seq(Frames) /\ Stands(more) = Stands(w.buffered) + w.dropped + 1
    <3> HIDE DEF f, g, v
    <3>1. CASE w.dropped > 0
      <4>1. /\ Append(w.buffered, g) \in Seq(Frames) /\ Stands(Append(w.buffered, g)) = Stands(w.buffered) + w.dropped
        BY <1>1, StandsMore
      <4>2. /\ Append(Append(w.buffered, g), f) \in Seq(Frames)
            /\ Stands(Append(Append(w.buffered, g), f)) = Stands(w.buffered) + w.dropped + 1
        BY <1>1, <4>1, StandsMore
      <4>3. \A s \in Seq(Frames) : \A x \in Frames : s \o <<x>> = Append(s, x)
        OBVIOUS
      <4>4. w.buffered \o <<g>> = Append(w.buffered, g) /\ Append(w.buffered, g) \o <<f>> = Append(Append(w.buffered, g), f)
        BY <1>1, <4>1, <4>3
      <4> QED
        BY <3>1, <4>2, <4>4
    <3>2. CASE ~(w.dropped > 0)
      <4>1. w.buffered \o <<>> = w.buffered
        BY <1>1
      <4>2. \A s \in Seq(Frames) : \A x \in Frames : s \o <<x>> = Append(s, x)
        OBVIOUS
      <4>3. more = Append(w.buffered, f) /\ w.dropped = 0
        <5>1. (IF w.dropped > 0 THEN <<g>> ELSE <<>>) = <<>>
          BY <3>2
        <5>2. more = (w.buffered \o <<>>) \o <<f>>
          BY <5>1
        <5>3. w.buffered \o <<f>> = Append(w.buffered, f)
          BY <1>1, <4>2
        <5>4. w.dropped = 0
          BY <1>1, <3>2
        <5> HIDE DEF more
        <5> QED
          BY <4>1, <5>2, <5>3, <5>4, Zenon
      <4> QED
        <5>1. Append(w.buffered, f) \in Seq(Frames) /\ Stands(Append(w.buffered, f)) = Stands(w.buffered) + Worth(f)
          BY <1>1, StandsMore
        <5> HIDE DEF more
        <5> QED
          BY <1>1, <4>3, <5>1
    <3> QED
      BY <3>1, <3>2
  <2> HIDE DEF v, more
  <2>3. v \in LinkViewers /\ v.from = w.from /\ v.buffered = more /\ v.dropped = 0
    BY <1>1, <2>1, <2>2 DEF LinkViewers, Never
  <2>4. WsFedRight(w, v)
    BY <1>1, <2>2, <2>3 DEF WsFedRight
  <2> QED
    BY <1>4, <2>4 DEF v
<1> QED
  BY <1>1, <1>2, <1>3, <1>4 DEF LinkViewers

(* --------------------------------- the page ------------------------------- *)

Reads == [at : {"idle", "asked", "answered", "failed"}, has : SUBSET Nat]

Pages ==
  [live : BOOLEAN, wanted : BOOLEAN, source : {"none", "connecting", "open"}, retry : BOOLEAN, asking : BOOLEAN,
   interrupted : BOOLEAN, status : {"off", "connecting", "live", "down", "paused"},
   all : SUBSET Nat, rows : SUBSET Nat, dropped : Nat, skipped : Nat, acknowledged : Nat,
   failed : SUBSET {"all", "rows", "events"}, searching : BOOLEAN, loading : BOOLEAN, again : BOOLEAN,
   reads : [Lists -> Reads]]

\* A list is under way, or will be asked for again.
Reloading(p, list) == p.interrupted \/ p.again \/ list \in p.failed \/ p.reads[list].at # "idle"

PageOK(p) ==
  /\ p \in Pages
  /\ p.again => p.loading
  /\ \A list \in Lists : p.reads[list].at # "idle" => p.loading
  /\ p.status = "live" => ~p.interrupted
  /\ p.retry => p.source = "none"

ToldBy(p) == p.dropped + p.skipped > 0

\* What the page does of itself loses nothing it holds, was told, or is to load.
Keeps(p, q) ==
  /\ PageOK(q) /\ q.all = p.all /\ q.rows = p.rows /\ q.dropped = p.dropped /\ q.skipped = p.skipped
  /\ \A list \in Lists : /\ Reloading(p, list) => Reloading(q, list)
                         /\ q.reads[list].at = "answered" => q.reads[list] = p.reads[list]

LEMMA ListsAre == \A list \in Lists : list = "all" \/ list = "rows"
  BY PageAssumption

LEMMA LoadsKeeps ==
  ASSUME NEW p, PageOK(p), \A list \in Lists : p.reads[list].at = "idle"
  PROVE  Keeps(p, Loads(p)) /\ (\A list \in Lists : Reloading(Loads(p), list)) /\ Loads(p).source = p.source
<1> DEFINE q == Loads(p)
<1>1. p \in Pages
  BY DEF PageOK
<1>2. q = [p EXCEPT !.loading = TRUE, !.again = FALSE, !.reads = [list \in Lists |-> Wanted]]
  BY DEF Loads
<1>3. [list \in Lists |-> Wanted] \in [Lists -> Reads] /\ Wanted.at = "asked"
  BY DEF Wanted, Reads
<1> DEFINE reads == [list \in Lists |-> Wanted]
<1>4. \A list \in Lists : reads[list].at = "asked"
  BY <1>3
<1> HIDE DEF q, reads
<1>5. /\ q \in Pages /\ q.loading /\ ~q.again /\ q.reads = reads /\ q.interrupted = p.interrupted
      /\ q.status = p.status /\ q.retry = p.retry /\ q.source = p.source /\ q.failed = p.failed
      /\ q.all = p.all /\ q.rows = p.rows /\ q.dropped = p.dropped /\ q.skipped = p.skipped
  BY <1>1, <1>2, <1>3 DEF Pages, reads
<1>6. \A list \in Lists : q.reads[list].at = "asked"
  BY <1>4, <1>5
<1>7. PageOK(q)
  BY <1>5 DEF PageOK
<1>8. \A list \in Lists : Reloading(q, list) /\ q.reads[list].at # "answered"
  BY <1>6 DEF Reloading
<1> QED
  BY <1>5, <1>7, <1>8 DEF Keeps, q

LEMMA KeepsWell ==
  ASSUME NEW p, NEW q, PageOK(p), q \in Pages, q.all = p.all, q.rows = p.rows, q.dropped = p.dropped, q.skipped = p.skipped,
         q.reads = p.reads, q.loading = p.loading, p.again => q.again, q.again => q.loading,
         p.interrupted => q.interrupted, p.failed \intersect {"all", "rows"} \subseteq q.failed,
         q.status = "live" => ~q.interrupted, q.retry => q.source = "none"
  PROVE  Keeps(p, q)
<1>1. PageOK(q)
  BY DEF PageOK
<1>2. \A list \in Lists : Reloading(p, list) => Reloading(q, list)
  BY ListsAre DEF Reloading
<1> QED
  BY <1>1, <1>2 DEF Keeps

LEMMA RefreshesKeeps ==
  ASSUME NEW p, PageOK(p)
  PROVE  Keeps(p, Refreshes(p)) /\ (\A list \in Lists : Reloading(Refreshes(p), list)) /\ Refreshes(p).source = p.source
<1> DEFINE q == Refreshes(p)
<1>1. CASE ~p.loading
  <2>1. q = Loads(p) /\ \A list \in Lists : p.reads[list].at = "idle"
    BY <1>1 DEF Refreshes, PageOK
  <2> QED
    BY <2>1, LoadsKeeps
<1>2. CASE p.loading
  <2>1. q = [p EXCEPT !.again = TRUE]
    BY <1>2 DEF Refreshes
  <2>2. p \in Pages /\ (p.status = "live" => ~p.interrupted) /\ (p.retry => p.source = "none")
    BY DEF PageOK
  <2> HIDE DEF q
  <2>3. /\ q \in Pages /\ q.all = p.all /\ q.rows = p.rows /\ q.dropped = p.dropped /\ q.skipped = p.skipped
        /\ q.reads = p.reads /\ q.loading = p.loading /\ q.again /\ q.interrupted = p.interrupted /\ q.failed = p.failed
        /\ q.status = p.status /\ q.retry = p.retry /\ q.source = p.source
    BY <2>1, <2>2 DEF Pages
  <2>4. Keeps(p, q)
    BY <1>2, <2>2, <2>3, KeepsWell
  <2>5. \A list \in Lists : Reloading(q, list)
    BY <2>3 DEF Reloading
  <2> QED
    BY <2>3, <2>4, <2>5 DEF q
<1>3. p.loading \in BOOLEAN
  BY DEF PageOK, Pages
<1> QED
  BY <1>1, <1>2, <1>3

LEMMA KeepsThrough ==
  ASSUME NEW p, NEW q, NEW r, Keeps(p, q), Keeps(q, r)
  PROVE  Keeps(p, r)
BY DEF Keeps

(* The feed is opened; the button; what breaks it off. *)
LEMMA ConnectsKeeps ==
  ASSUME NEW p, PageOK(p)
  PROVE  Keeps(p, Connects(p)) /\ (p.source = "open" => Connects(p).source = "open")
<1> DEFINE q == Connects(p)
<1>1. p \in Pages /\ (p.status = "live" => ~p.interrupted) /\ (p.retry => p.source = "none") /\ (p.again => p.loading)
  BY DEF PageOK
<1>2. \/ q = [p EXCEPT !.wanted = TRUE]
      \/ p.source = "none" /\ ~p.retry /\ q = [p EXCEPT !.wanted = TRUE, !.source = "connecting", !.status = "connecting"]
  BY <1>1 DEF Connects, Opens, Pages
<1> HIDE DEF q
<1>3. /\ q \in Pages /\ q.all = p.all /\ q.rows = p.rows /\ q.dropped = p.dropped /\ q.skipped = p.skipped
      /\ q.reads = p.reads /\ q.loading = p.loading /\ q.again = p.again /\ q.interrupted = p.interrupted /\ q.failed = p.failed
      /\ q.retry = p.retry
      /\ \/ q.status = p.status /\ q.source = p.source
         \/ q.status = "connecting" /\ ~p.retry /\ p.source = "none"
  <2>1. CASE q = [p EXCEPT !.wanted = TRUE]
    BY <1>1, <2>1 DEF Pages
  <2>2. CASE p.source = "none" /\ ~p.retry /\ q = [p EXCEPT !.wanted = TRUE, !.source = "connecting", !.status = "connecting"]
    BY <1>1, <2>2 DEF Pages
  <2> QED
    BY <1>2, <2>1, <2>2
<1>4. Keeps(p, q)
  BY <1>1, <1>3, KeepsWell
<1> QED
  BY <1>3, <1>4 DEF q

LEMMA TogglesKeeps ==
  ASSUME NEW p, PageOK(p)
  PROVE  /\ Keeps(p, Toggles(p))
         /\ p.live /\ p.source = "open" => Toggles(p).interrupted
         /\ ~p.live /\ p.source = "open" => Toggles(p).source = "open"
<1> DEFINE q == Toggles(p)
<1>1. p \in Pages /\ (p.status = "live" => ~p.interrupted) /\ (p.retry => p.source = "none") /\ (p.again => p.loading)
  BY DEF PageOK
<1>2. CASE p.live
  <2>1. q = [p EXCEPT !.live = FALSE, !.wanted = FALSE, !.retry = FALSE, !.source = "none", !.status = "paused",
                      !.interrupted = p.interrupted \/ p.source # "none"]
    BY <1>1, <1>2 DEF Toggles, Suspends, Pages
  <2>2. (p.interrupted \/ p.source # "none") \in BOOLEAN
    BY <1>1 DEF Pages
  <2> HIDE DEF q
  <2>3. /\ q \in Pages /\ q.all = p.all /\ q.rows = p.rows /\ q.dropped = p.dropped /\ q.skipped = p.skipped
        /\ q.reads = p.reads /\ q.loading = p.loading /\ q.again = p.again /\ q.failed = p.failed
        /\ q.status = "paused" /\ ~q.retry /\ q.source = "none"
        /\ q.interrupted = (p.interrupted \/ p.source # "none")
    BY <1>1, <2>1, <2>2 DEF Pages
  <2>4. Keeps(p, q)
    BY <1>1, <2>3, KeepsWell
  <2> QED
    BY <1>2, <2>3, <2>4 DEF q
<1>3. CASE ~p.live
  <2> DEFINE u == [p EXCEPT !.live = TRUE]
  <2>1. q = Refreshes(Connects(u))
    BY <1>3 DEF Toggles
  <2>2. /\ u \in Pages /\ u.all = p.all /\ u.rows = p.rows /\ u.dropped = p.dropped /\ u.skipped = p.skipped
        /\ u.reads = p.reads /\ u.loading = p.loading /\ u.again = p.again /\ u.failed = p.failed
        /\ u.status = p.status /\ u.retry = p.retry /\ u.source = p.source /\ u.interrupted = p.interrupted
    BY <1>1 DEF Pages
  <2> HIDE DEF q, u
  <2>3. Keeps(p, u)
    BY <1>1, <2>2, KeepsWell
  <2>4. PageOK(u)
    BY <2>3 DEF Keeps
  <2>5. Keeps(u, Connects(u)) /\ (p.source = "open" => Connects(u).source = "open")
    BY <2>2, <2>4, ConnectsKeeps
  <2>6. PageOK(Connects(u))
    BY <2>5 DEF Keeps
  <2>7. Keeps(Connects(u), q) /\ q.source = Connects(u).source
    BY <2>1, <2>6, RefreshesKeeps
  <2>8. Keeps(p, q)
    BY <2>3, <2>5, <2>7, KeepsThrough
  <2> QED
    BY <1>3, <2>5, <2>7, <2>8 DEF q
<1> QED
  BY <1>1, <1>2, <1>3 DEF Pages

Held(p, list) == IF list = "all" THEN p.all ELSE p.rows

(* The newest of more are among the newest; and none of them is ever put out. *)
LEMMA NewestIs ==
  ASSUME NEW h \in Nat, NEW most \in Nat
  PROVE  /\ Newest(1..h, most) \subseteq 1..h
         /\ \A n \in Newest(1..(h + 1), most) : n = h + 1 \/ n \in Newest(1..h, most)
         /\ \A S \in SUBSET (1..h) : \A n \in Newest(1..h, most) : n \in S => n \in Newest(S, most)
<1>1. Newest(1..h, most) \subseteq 1..h
  BY DEF Newest
<1>2. ASSUME NEW S \in SUBSET (1..(h + 1)), NEW T \in SUBSET S, NEW n \in T, n \in Newest(S, most)
      PROVE  n \in Newest(T, most)
  <2> DEFINE A == {m \in S : m > n}
             B == {m \in T : m > n}
  <2>1. IsFiniteSet(1..(h + 1))
    BY FS_Interval
  <2>2. IsFiniteSet(A)
    <3>1. A \subseteq 1..(h + 1)
      OBVIOUS
    <3> QED
      BY <2>1, <3>1, FS_Subset
  <2>3. B \subseteq A
    OBVIOUS
  <2>4. Cardinality(B) \in Nat /\ Cardinality(A) \in Nat /\ Cardinality(B) <= Cardinality(A)
    BY <2>2, <2>3, FS_Subset, FS_CardinalityType
  <2>5. Cardinality(A) < most
    BY <1>2 DEF Newest
  <2>6. Cardinality(B) < most
    BY <2>4, <2>5
  <2> QED
    BY <2>6 DEF Newest
<1>3. \A n \in Newest(1..(h + 1), most) : n \in 1..(h + 1)
  BY DEF Newest
<1>4. \A n \in 1..(h + 1) : n = h + 1 \/ n \in 1..h
  OBVIOUS
<1>5. 1..h \in SUBSET (1..(h + 1)) /\ 1..(h + 1) \in SUBSET (1..(h + 1)) /\ 1..h \in SUBSET (1..(h + 1))
  OBVIOUS
<1>6. \A n \in Newest(1..(h + 1), most) : n = h + 1 \/ n \in Newest(1..h, most)
  BY <1>2, <1>3, <1>4, <1>5
<1>7. \A S \in SUBSET (1..h) : \A n \in Newest(1..h, most) : n \in S => n \in Newest(S, most)
  BY <1>1, <1>2, <1>5
<1> QED
  BY <1>1, <1>6, <1>7

LEMMA LimitIs == \A list \in Lists : Limit(list) \in Nat
  BY PageAssumption DEF Limit

(* What breaks the feed off makes everything due to be loaded. *)
LEMMA BreaksKeeps ==
  ASSUME NEW p, PageOK(p), p.source = "open"
  PROVE  Keeps(p, Breaks(p)) /\ Breaks(p).interrupted
<1> DEFINE q == Breaks(p)
<1>1. p \in Pages /\ (p.again => p.loading) /\ ~p.retry
  BY DEF PageOK, Pages
<1>2. q = [p EXCEPT !.source = "connecting", !.interrupted = TRUE, !.status = "connecting"]
  BY DEF Breaks
<1> HIDE DEF q
<1>3. /\ q \in Pages /\ q.all = p.all /\ q.rows = p.rows /\ q.dropped = p.dropped /\ q.skipped = p.skipped
      /\ q.reads = p.reads /\ q.loading = p.loading /\ q.again = p.again /\ q.interrupted /\ q.failed = p.failed
      /\ q.status = "connecting" /\ ~q.retry
  BY <1>1, <1>2 DEF Pages
<1>4. Keeps(p, q)
  BY <1>1, <1>3, KeepsWell
<1> QED
  BY <1>3, <1>4 DEF q

LEMMA IsRefusedKeeps ==
  ASSUME NEW p, PageOK(p)
  PROVE  Keeps(p, IsRefused(p)) /\ IsRefused(p).interrupted
<1> DEFINE q == IsRefused(p)
<1>1. p \in Pages /\ (p.again => p.loading)
  BY DEF PageOK
<1>2. q = [p EXCEPT !.source = "none", !.interrupted = TRUE, !.status = "down", !.retry = TRUE, !.asking = TRUE]
  BY DEF IsRefused
<1> HIDE DEF q
<1>3. /\ q \in Pages /\ q.all = p.all /\ q.rows = p.rows /\ q.dropped = p.dropped /\ q.skipped = p.skipped
      /\ q.reads = p.reads /\ q.loading = p.loading /\ q.again = p.again /\ q.interrupted /\ q.failed = p.failed
      /\ q.status = "down" /\ q.source = "none"
  BY <1>1, <1>2 DEF Pages
<1>4. Keeps(p, q)
  BY <1>1, <1>3, KeepsWell
<1> QED
  BY <1>3, <1>4 DEF q

LEMMA RetriesKeeps ==
  ASSUME NEW p, PageOK(p), p.retry
  PROVE  Keeps(p, Retries(p)) /\ p.source = "none"
<1> DEFINE q == Retries(p)
<1>1. p \in Pages /\ (p.again => p.loading) /\ p.source = "none" /\ (p.status = "live" => ~p.interrupted)
  BY DEF PageOK
<1>2. \/ q = [p EXCEPT !.retry = FALSE]
      \/ q = [p EXCEPT !.retry = FALSE, !.source = "connecting", !.status = "connecting"]
  BY <1>1 DEF Retries, Opens, Pages
<1> HIDE DEF q
<1>3. /\ q \in Pages /\ q.all = p.all /\ q.rows = p.rows /\ q.dropped = p.dropped /\ q.skipped = p.skipped
      /\ q.reads = p.reads /\ q.loading = p.loading /\ q.again = p.again /\ q.interrupted = p.interrupted /\ q.failed = p.failed
      /\ (q.status = p.status \/ q.status = "connecting") /\ ~q.retry
  <2>1. CASE q = [p EXCEPT !.retry = FALSE]
    BY <1>1, <2>1 DEF Pages
  <2>2. CASE q = [p EXCEPT !.retry = FALSE, !.source = "connecting", !.status = "connecting"]
    BY <1>1, <2>2 DEF Pages
  <2> QED
    BY <1>2, <2>1, <2>2
<1>4. Keeps(p, q)
  BY <1>1, <1>3, KeepsWell
<1> QED
  BY <1>1, <1>4 DEF q

LEMMA PassEndsKeeps ==
  ASSUME NEW p, PageOK(p), \A list \in Lists : p.reads[list] = Idle
  PROVE  Keeps(p, PassEnds(p)) /\ PassEnds(p).source = p.source
<1> DEFINE q == PassEnds(p)
<1>0. \A list \in Lists : p.reads[list].at = "idle"
  BY DEF Idle
<1>1. CASE p.again
  <2>1. q = Loads(p)
    BY <1>1 DEF PassEnds
  <2> QED
    BY <1>0, <2>1, LoadsKeeps
<1>2. CASE ~p.again
  <2>1. q = [p EXCEPT !.loading = FALSE]
    BY <1>2 DEF PassEnds
  <2>2. p \in Pages /\ (p.retry => p.source = "none") /\ (p.status = "live" => ~p.interrupted)
    BY DEF PageOK
  <2> HIDE DEF q
  <2>3. /\ q \in Pages /\ q.all = p.all /\ q.rows = p.rows /\ q.dropped = p.dropped /\ q.skipped = p.skipped
        /\ q.reads = p.reads /\ ~q.loading /\ q.again = p.again /\ q.interrupted = p.interrupted /\ q.failed = p.failed
        /\ q.status = p.status /\ q.retry = p.retry /\ q.source = p.source
    BY <2>1, <2>2 DEF Pages
  <2>4. PageOK(q)
    BY <1>0, <1>2, <2>2, <2>3 DEF PageOK
  <2>5. Keeps(p, q)
    BY <2>3, <2>4 DEF Keeps, Reloading
  <2> QED
    BY <2>3, <2>5 DEF q
<1> QED
  BY <1>1, <1>2

(* A single field that no reload hangs on. *)
LEMMA DetailsKeep ==
  ASSUME NEW p, PageOK(p), NEW b \in BOOLEAN, NEW n \in Nat
  PROVE  /\ Keeps(p, [p EXCEPT !.searching = b]) /\ [p EXCEPT !.searching = b].source = p.source
         /\ Keeps(p, [p EXCEPT !.acknowledged = n]) /\ [p EXCEPT !.acknowledged = n].source = p.source
         /\ Keeps(p, [p EXCEPT !.asking = FALSE]) /\ [p EXCEPT !.asking = FALSE].source = p.source
         /\ Keeps(p, [p EXCEPT !.asking = FALSE, !.failed = p.failed \cup {"events"}])
         /\ [p EXCEPT !.asking = FALSE, !.failed = p.failed \cup {"events"}].source = p.source
         /\ p.source # "none" => Keeps(p, [p EXCEPT !.source = "open"]) /\ [p EXCEPT !.source = "open"].source = "open"
<1>1. p \in Pages /\ (p.again => p.loading) /\ (p.status = "live" => ~p.interrupted) /\ (p.retry => p.source = "none")
  BY DEF PageOK
<1>2. ASSUME NEW q, q \in {[p EXCEPT !.searching = b], [p EXCEPT !.acknowledged = n], [p EXCEPT !.asking = FALSE],
                           [p EXCEPT !.asking = FALSE, !.failed = p.failed \cup {"events"}]}
      PROVE  Keeps(p, q) /\ q.source = p.source
  <2>1. /\ q \in Pages /\ q.all = p.all /\ q.rows = p.rows /\ q.dropped = p.dropped /\ q.skipped = p.skipped
        /\ q.reads = p.reads /\ q.loading = p.loading /\ q.again = p.again /\ q.interrupted = p.interrupted
        /\ (q.failed = p.failed \/ q.failed = p.failed \cup {"events"})
        /\ q.status = p.status /\ q.retry = p.retry /\ q.source = p.source
    <3>1. CASE q = [p EXCEPT !.searching = b]
      BY <1>1, <3>1 DEF Pages
    <3>2. CASE q = [p EXCEPT !.acknowledged = n]
      BY <1>1, <3>2 DEF Pages
    <3>3. CASE q = [p EXCEPT !.asking = FALSE]
      BY <1>1, <3>3 DEF Pages
    <3>4. CASE q = [p EXCEPT !.asking = FALSE, !.failed = p.failed \cup {"events"}]
      <4>1. p.failed \cup {"events"} \in SUBSET {"all", "rows", "events"}
        BY <1>1 DEF Pages
      <4> DEFINE failed == p.failed \cup {"events"}
      <4> HIDE DEF failed
      <4>2. /\ q \in Pages /\ q.all = p.all /\ q.rows = p.rows /\ q.dropped = p.dropped /\ q.skipped = p.skipped
            /\ q.reads = p.reads /\ q.loading = p.loading /\ q.again = p.again /\ q.interrupted = p.interrupted
            /\ q.failed = failed
            /\ q.status = p.status /\ q.retry = p.retry /\ q.source = p.source
        <5>1. failed \in SUBSET {"all", "rows", "events"} /\ q = [p EXCEPT !.asking = FALSE, !.failed = failed]
          BY <3>4, <4>1 DEF failed
        <5> QED
          BY <1>1, <5>1 DEF Pages
      <4> QED
        BY <4>2 DEF failed
    <3> QED
      BY <1>2, <3>1, <3>2, <3>3, <3>4
  <2> QED
    BY <1>1, <2>1, KeepsWell
<1>3. ASSUME p.source # "none", NEW q, q = [p EXCEPT !.source = "open"]
      PROVE  Keeps(p, q) /\ q.source = "open"
  <2>1. /\ q \in Pages /\ q.all = p.all /\ q.rows = p.rows /\ q.dropped = p.dropped /\ q.skipped = p.skipped
        /\ q.reads = p.reads /\ q.loading = p.loading /\ q.again = p.again /\ q.interrupted = p.interrupted
        /\ p.failed = q.failed
        /\ q.status = p.status /\ q.retry = p.retry /\ q.source = "open"
    BY <1>1, <1>3 DEF Pages
  <2>2. ~q.retry
    BY <1>1, <1>3, <2>1
  <2> QED
    BY <1>1, <2>1, <2>2, KeepsWell
<1> QED
  BY <1>2, <1>3

(* The notice is dismissed, with or without a reload. *)
LEMMA NoticeKeeps ==
  ASSUME NEW p, PageOK(p)
  PROVE  /\ Keeps(p, Dismisses(p)) /\ Dismisses(p).source = p.source
         /\ Keeps(p, Reloads(p)) /\ Reloads(p).source = p.source
<1> DEFINE d == Dismisses(p)
<1>1. p.dropped + p.skipped \in Nat
  BY DEF PageOK, Pages
<1>2. Keeps(p, d) /\ d.source = p.source
  <2> DEFINE sum == p.dropped + p.skipped
  <2> HIDE DEF sum
  <2>1. sum \in Nat
    BY <1>1 DEF sum
  <2>2. Keeps(p, [p EXCEPT !.acknowledged = sum]) /\ [p EXCEPT !.acknowledged = sum].source = p.source
    <3>1. TRUE \in BOOLEAN
      OBVIOUS
    <3> QED
      BY <2>1, <3>1, DetailsKeep, Zenon
  <2> QED
    BY <2>2 DEF Dismisses, sum
<1> HIDE DEF d
<1>3. PageOK(d)
  BY <1>2 DEF Keeps
<1>4. Keeps(d, Refreshes(d)) /\ Refreshes(d).source = d.source
  BY <1>3, RefreshesKeeps
<1>5. Keeps(p, Refreshes(d))
  BY <1>2, <1>4, KeepsThrough
<1> QED
  BY <1>2, <1>4, <1>5 DEF Reloads, d

LEMMA HelloKeeps ==
  ASSUME NEW p, PageOK(p)
  PROVE  Keeps(p, HearsHello(p)) /\ HearsHello(p).source = p.source
<1> DEFINE u == [p EXCEPT !.failed = p.failed \ {"events"}, !.status = "live", !.interrupted = FALSE]
           q == HearsHello(p)
<1>1. p \in Pages /\ (p.again => p.loading) /\ (p.retry => p.source = "none")
  BY DEF PageOK
<1>2. q = IF p.interrupted THEN Refreshes(u) ELSE u
  BY DEF HearsHello
<1> DEFINE failed == p.failed \ {"events"}
<1>3. failed \in SUBSET {"all", "rows", "events"} /\ p.failed \cap {"all", "rows"} \subseteq failed
  BY <1>1 DEF Pages
<1>4. u = [p EXCEPT !.failed = failed, !.status = "live", !.interrupted = FALSE]
  OBVIOUS
<1> HIDE DEF q, u, failed
<1>5. /\ u \in Pages /\ u.all = p.all /\ u.rows = p.rows /\ u.dropped = p.dropped /\ u.skipped = p.skipped
      /\ u.reads = p.reads /\ u.loading = p.loading /\ u.again = p.again /\ ~u.interrupted
      /\ u.failed = failed /\ u.status = "live" /\ u.retry = p.retry /\ u.source = p.source
  BY <1>1, <1>3, <1>4 DEF Pages
<1>6. PageOK(u)
  BY <1>1, <1>5 DEF PageOK
<1>7. CASE p.interrupted
  <2>1. q = Refreshes(u)
    BY <1>2, <1>7
  <2>2. Keeps(u, q) /\ (\A list \in Lists : Reloading(q, list)) /\ q.source = u.source
    BY <1>6, <2>1, RefreshesKeeps
  <2>3. Keeps(p, q)
    BY <1>5, <2>2 DEF Keeps
  <2> QED
    BY <1>5, <2>2, <2>3 DEF q
<1>8. CASE ~p.interrupted
  <2>1. q = u
    BY <1>2, <1>8
  <2>2. Keeps(p, u)
    <3>1. \A list \in Lists : Reloading(p, list) => Reloading(u, list)
      BY <1>3, <1>5, <1>8, ListsAre DEF Reloading
    <3> QED
      BY <1>5, <1>6, <3>1 DEF Keeps
  <2> QED
    BY <1>5, <2>1, <2>2 DEF q
<1> QED
  BY <1>7, <1>8

\* The page was told of as many more.
Counts(p, q, frame) ==
  /\ PageOK(q) /\ q.all = p.all /\ q.rows = p.rows /\ q.reads = p.reads /\ q.source = p.source
  /\ \A list \in Lists : Reloading(p, list) => Reloading(q, list)
  /\ (ToldBy(p) \/ frame.n > 0) => ToldBy(q)

LEMMA CountsIs ==
  ASSUME NEW p, PageOK(p), NEW frame \in Frames, frame.kind \in {"lagged", "skipped"}
  PROVE  Counts(p, Hears(p, frame), frame)
<1> DEFINE q == Hears(p, frame)
<1>1. p \in Pages /\ frame.n \in Nat /\ p.dropped \in Nat /\ p.skipped \in Nat /\ p.dropped + frame.n \in Nat /\ p.skipped + frame.n \in Nat
  BY DEF PageOK, Pages, Frames
<1>2. q = [p EXCEPT !.dropped = p.dropped + frame.n] \/ q = [p EXCEPT !.skipped = p.skipped + frame.n]
  BY DEF Hears
<1> HIDE DEF q
<1>3. CASE q = [p EXCEPT !.dropped = p.dropped + frame.n]
  <2>1. /\ q \in Pages /\ q.all = p.all /\ q.rows = p.rows /\ q.dropped = p.dropped + frame.n /\ q.skipped = p.skipped
        /\ q.reads = p.reads /\ q.loading = p.loading /\ q.again = p.again /\ q.interrupted = p.interrupted
        /\ q.failed = p.failed /\ q.status = p.status /\ q.retry = p.retry /\ q.source = p.source
    BY <1>1, <1>3 DEF Pages
  <2>2. PageOK(q)
    BY <2>1 DEF PageOK
  <2>3. Counts(p, q, frame)
    BY <1>1, <2>1, <2>2 DEF Counts, Reloading, ToldBy
  <2> QED
    BY <2>3 DEF q
<1>4. CASE q = [p EXCEPT !.skipped = p.skipped + frame.n]
  <2>1. /\ q \in Pages /\ q.all = p.all /\ q.rows = p.rows /\ q.dropped = p.dropped /\ q.skipped = p.skipped + frame.n
        /\ q.reads = p.reads /\ q.loading = p.loading /\ q.again = p.again /\ q.interrupted = p.interrupted
        /\ q.failed = p.failed /\ q.status = p.status /\ q.retry = p.retry /\ q.source = p.source
    BY <1>1, <1>4 DEF Pages
  <2>2. PageOK(q)
    BY <2>1 DEF PageOK
  <2>3. Counts(p, q, frame)
    BY <1>1, <2>1, <2>2 DEF Counts, Reloading, ToldBy
  <2> QED
    BY <2>3 DEF q
<1> QED
  BY <1>2, <1>3, <1>4

\* The page took an incident up: nothing held is put out but by newer ones.
Takes(p, q, n) ==
  /\ PageOK(q) /\ q.reads = p.reads /\ q.source = p.source
  /\ \A list \in Lists : Reloading(p, list) => Reloading(q, list)
  /\ q.dropped = p.dropped /\ q.skipped = p.skipped
  /\ \A list \in Lists : \/ Held(q, list) = Newest(Held(p, list) \cup {n}, Limit(list))
                         \/ list = "rows" /\ p.searching /\ n \notin Matching /\ Held(q, list) = Held(p, list)

LEMMA TakesIs ==
  ASSUME NEW p, PageOK(p), NEW frame \in Frames, frame.kind = "incident"
  PROVE  Takes(p, Hears(p, frame), frame.n)
<1> DEFINE n == frame.n
           shown == ~p.searching \/ n \in Matching
           all == Newest(p.all \cup {n}, Corpus)
           rows == IF shown THEN Newest(p.rows \cup {n}, Rows) ELSE p.rows
           q == Hears(p, frame)
<1>1. p \in Pages /\ n \in Nat /\ p.all \in SUBSET Nat /\ p.rows \in SUBSET Nat
  BY DEF PageOK, Pages, Frames
<1>2. q = [p EXCEPT !.all = all, !.rows = rows]
  BY DEF Hears, Ingests
<1>3. all \in SUBSET Nat /\ rows \in SUBSET Nat
  BY <1>1 DEF Newest
<1> HIDE DEF q, all, rows, n
<1>4. /\ q \in Pages /\ q.all = all /\ q.rows = rows /\ q.dropped = p.dropped /\ q.skipped = p.skipped
      /\ q.reads = p.reads /\ q.loading = p.loading /\ q.again = p.again /\ q.interrupted = p.interrupted
      /\ q.failed = p.failed /\ q.status = p.status /\ q.retry = p.retry /\ q.source = p.source
  BY <1>1, <1>2, <1>3 DEF Pages
<1>5. PageOK(q)
  BY <1>4 DEF PageOK
<1>6. ASSUME NEW list \in Lists
      PROVE  \/ Held(q, list) = Newest(Held(p, list) \cup {n}, Limit(list))
             \/ list = "rows" /\ p.searching /\ n \notin Matching /\ Held(q, list) = Held(p, list)
  <2>1. CASE list = "all"
    BY <1>4, <2>1 DEF Held, Limit, all
  <2>2. CASE list # "all"
    <3>1. list = "rows" /\ Held(q, list) = rows /\ Held(p, list) = p.rows /\ Limit(list) = Rows
      BY <1>4, <2>2, ListsAre DEF Held, Limit
    <3>2. CASE shown
      BY <3>1, <3>2 DEF rows
    <3>3. CASE ~shown
      BY <3>1, <3>3 DEF rows
    <3> QED
      BY <3>2, <3>3
  <2> QED
    BY <2>1, <2>2
<1>7. Takes(p, q, n)
  BY <1>4, <1>5, <1>6 DEF Takes, Reloading
<1> QED
  BY <1>7 DEF q, n

(* A read is answered, or cannot be. *)
LEMMA ReadsAsked ==
  ASSUME NEW p, PageOK(p), NEW list \in Lists, p.reads[list].at = "asked", NEW read \in Reads, read.at # "idle"
  PROVE  LET q == [p EXCEPT !.reads[list] = read]
         IN  /\ PageOK(q) /\ q.all = p.all /\ q.rows = p.rows /\ q.dropped = p.dropped /\ q.skipped = p.skipped
             /\ q.source = p.source /\ q.reads[list] = read
             /\ \A l \in Lists : (Reloading(p, l) => Reloading(q, l)) /\ (l # list => q.reads[l] = p.reads[l])
<1> DEFINE q == [p EXCEPT !.reads[list] = read]
           reads == [p.reads EXCEPT ![list] = read]
<1>1. p \in Pages /\ p.reads \in [Lists -> Reads]
  BY DEF PageOK, Pages
<1>2. q = [p EXCEPT !.reads = reads]
  OBVIOUS
<1>3. reads \in [Lists -> Reads] /\ reads[list] = read /\ \A l \in Lists : l # list => reads[l] = p.reads[l]
  BY <1>1
<1> HIDE DEF q, reads
<1>4. /\ q \in Pages /\ q.all = p.all /\ q.rows = p.rows /\ q.dropped = p.dropped /\ q.skipped = p.skipped
      /\ q.reads = reads /\ q.loading = p.loading /\ q.again = p.again /\ q.interrupted = p.interrupted
      /\ q.failed = p.failed /\ q.status = p.status /\ q.retry = p.retry /\ q.source = p.source
  BY <1>1, <1>2, <1>3 DEF Pages
<1>5. \A l \in Lists : q.reads[l].at # "idle" => p.reads[l].at # "idle"
  BY <1>3, <1>4
<1>6. PageOK(q)
  BY <1>4, <1>5 DEF PageOK
<1>7. \A l \in Lists : Reloading(p, l) => Reloading(q, l)
  BY <1>3, <1>4 DEF Reloading
<1>8. /\ PageOK(q) /\ q.all = p.all /\ q.rows = p.rows /\ q.dropped = p.dropped /\ q.skipped = p.skipped
      /\ q.source = p.source /\ q.reads[list] = read
      /\ \A l \in Lists : (Reloading(p, l) => Reloading(q, l)) /\ (l # list => q.reads[l] = p.reads[l])
  BY <1>3, <1>4, <1>6, <1>7
<1> QED
  BY <1>8 DEF q

\* What a read brought is there, or its failure is.
Applied(p, q, list) ==
  /\ PageOK(q) /\ q.dropped = p.dropped /\ q.skipped = p.skipped /\ q.source = p.source
  /\ q.reads[list].at = "idle"
  /\ \A l \in Lists : l # list => /\ q.reads[l] = p.reads[l] /\ Held(q, l) = Held(p, l)
                                  /\ Reloading(p, l) => Reloading(q, l)
  /\ \/ p.reads[list].at = "answered" /\ Held(q, list) = p.reads[list].has
     \/ p.reads[list].at = "failed" /\ Held(q, list) = Held(p, list) /\ Reloading(q, list)

LEMMA AppliedIs ==
  ASSUME NEW p, PageOK(p), NEW list \in Lists, p.reads[list].at \in {"answered", "failed"}
  PROVE  Applied(p, Applies(p, list), list)
<1> DEFINE read == p.reads[list]
           failed == IF read.at = "failed" THEN p.failed \cup {list} ELSE p.failed \ {list}
           reads == [p.reads EXCEPT ![list] = Idle]
           done == [p EXCEPT !.reads = reads, !.failed = failed]
           q == Applies(p, list)
<1>1. p \in Pages /\ p.reads \in [Lists -> Reads] /\ p.failed \in SUBSET {"all", "rows", "events"} /\ read \in Reads
  BY DEF PageOK, Pages
<1>2. Idle \in Reads /\ Idle.at = "idle"
  BY DEF Idle, Reads
<1>3. /\ reads \in [Lists -> Reads] /\ reads[list].at = "idle" /\ \A l \in Lists : l # list => reads[l] = p.reads[l]
  BY <1>1, <1>2
<1>4. /\ failed \in SUBSET {"all", "rows", "events"} /\ \A l \in Lists : l # list => (l \in failed <=> l \in p.failed)
      /\ read.at = "failed" => list \in failed
  BY <1>1, ListsAre
<1>5. read.has \in SUBSET Nat
  BY <1>1 DEF Reads
<1>6. \/ read.at = "failed" /\ q = done
      \/ read.at = "answered" /\ list = "all" /\ q = [done EXCEPT !.all = read.has]
      \/ read.at = "answered" /\ list = "rows" /\ q = [done EXCEPT !.rows = read.has]
  BY ListsAre DEF Applies
<1> HIDE DEF q, reads, failed, read
<1>7. /\ done \in Pages /\ done.all = p.all /\ done.rows = p.rows /\ done.dropped = p.dropped /\ done.skipped = p.skipped
      /\ done.reads = reads /\ done.loading = p.loading /\ done.again = p.again /\ done.interrupted = p.interrupted
      /\ done.failed = failed /\ done.status = p.status /\ done.retry = p.retry /\ done.source = p.source
  BY <1>1, <1>3, <1>4 DEF Pages
<1> HIDE DEF done
<1>8. /\ q \in Pages /\ q.dropped = p.dropped /\ q.skipped = p.skipped
      /\ q.reads = reads /\ q.loading = p.loading /\ q.again = p.again /\ q.interrupted = p.interrupted
      /\ q.failed = failed /\ q.status = p.status /\ q.retry = p.retry /\ q.source = p.source
      /\ \/ read.at = "failed" /\ q.all = p.all /\ q.rows = p.rows
         \/ read.at = "answered" /\ list = "all" /\ q.all = read.has /\ q.rows = p.rows
         \/ read.at = "answered" /\ list = "rows" /\ q.rows = read.has /\ q.all = p.all
  <2>1. CASE read.at = "failed" /\ q = done
    BY <1>7, <2>1
  <2>2. CASE read.at = "answered" /\ list = "all" /\ q = [done EXCEPT !.all = read.has]
    BY <1>5, <1>7, <2>2 DEF Pages
  <2>3. CASE read.at = "answered" /\ list = "rows" /\ q = [done EXCEPT !.rows = read.has]
    BY <1>5, <1>7, <2>3 DEF Pages
  <2> QED
    BY <1>6, <2>1, <2>2, <2>3
<1>9. \A l \in Lists : q.reads[l].at # "idle" => p.reads[l].at # "idle"
  BY <1>3, <1>8
<1>10. PageOK(q)
  BY <1>8, <1>9 DEF PageOK
<1>11. \A l \in Lists : l # list => (Reloading(p, l) => Reloading(q, l)) /\ q.reads[l] = p.reads[l]
  BY <1>3, <1>4, <1>8 DEF Reloading
<1>12. \A l \in Lists : l # list => Held(q, l) = Held(p, l)
  BY <1>8, ListsAre DEF Held
<1>13. \/ p.reads[list].at = "answered" /\ Held(q, list) = p.reads[list].has
       \/ p.reads[list].at = "failed" /\ Held(q, list) = Held(p, list) /\ Reloading(q, list)
  BY <1>4, <1>8 DEF Held, Reloading, read
<1>14. Applied(p, q, list)
  BY <1>3, <1>8, <1>10, <1>11, <1>12, <1>13 DEF Applied
<1> QED
  BY <1>14 DEF q

\* A stream still has an incident to bring, or news of it, or is to break.
Brings(s, n, ls) == ~s.open \/ Carries(s, n) \/ (n \in ls /\ Telling(s))

\* Why the page lacks nothing, for now: what a list holds, what excuses it, and what is to come.
Covered(p, a, ss, ls, ra, un, list, n) ==
  \/ n \in Held(p, list) \/ n \in ra[list] \/ n \in Muted
  \/ list = "rows" /\ n \in un
  \/ n \in ls /\ ToldBy(p)
  \/ Reloading(p, list)
  \/ a # 0 /\ Brings(ss[a], n, ls)

Answers(has, h, ra, list) == has \subseteq 1..h /\ Newest(1..h, Limit(list)) \subseteq has \cup ra[list]

Whole(p, a, ss, h, ls, ra, un) ==
  /\ PageOK(p)
  /\ a # 0 => a \in DOMAIN ss /\ p.source = "open" /\ ss[a].client = "here"
  /\ \A list \in Lists :
       /\ Held(p, list) \subseteq 1..h
       /\ \A n \in Newest(1..h, Limit(list)) : Covered(p, a, ss, ls, ra, un, list, n)
       /\ p.reads[list].at = "answered" => Answers(p.reads[list].has, h, ra, list)

(* The page moves by itself, and goes on reading, or is to load everything. *)
LEMMA StaysWhole ==
  ASSUME NEW p, NEW a, NEW ss, NEW h, NEW ls, NEW ra, NEW un, Whole(p, a, ss, h, ls, ra, un),
         NEW q, Keeps(p, q), NEW b, NEW tt,
         a = 0 \/ (b = a /\ tt[a] = ss[a]) \/ (\A list \in Lists : Reloading(q, list)),
         b # 0 => b \in DOMAIN tt /\ q.source = "open" /\ tt[b].client = "here"
  PROVE  Whole(q, b, tt, h, ls, ra, un)
<1>1. PageOK(q) /\ \A list \in Lists : Held(q, list) = Held(p, list)
  BY DEF Keeps, Held
<1>2. ASSUME NEW list \in Lists, NEW n \in Newest(1..h, Limit(list))
      PROVE  Covered(q, b, tt, ls, ra, un, list, n)
  <2>1. CASE Reloading(q, list)
    BY <2>1 DEF Covered
  <2>2. CASE ~Reloading(q, list)
    <3>1. Covered(p, a, ss, ls, ra, un, list, n)
      BY DEF Whole
    <3>2. ~Reloading(p, list) /\ (ToldBy(p) => ToldBy(q))
      BY <2>2 DEF Keeps, ToldBy
    <3>3. a = 0 \/ (b = a /\ tt[a] = ss[a])
      BY <2>2
    <3> QED
      BY <1>1, <3>1, <3>2, <3>3 DEF Covered
  <2> QED
    BY <2>1, <2>2
<1>3. \A list \in Lists : q.reads[list].at = "answered" => Answers(q.reads[list].has, h, ra, list)
  BY DEF Keeps, Whole
<1>4. \A list \in Lists : Held(q, list) \subseteq 1..h
  BY <1>1 DEF Whole
<1> QED
  BY <1>1, <1>2, <1>3, <1>4 DEF Whole

(* A frame is heard. *)
LEMMA HearsWhole ==
  ASSUME NEW p, NEW a, NEW ss, NEW h \in Nat, NEW ls, NEW ra, NEW un, Whole(p, a, ss, h, ls, ra, un), a # 0,
         ss[a] \in StreamRecords, ss[a].pipe # <<>>,
         Head(ss[a].pipe).kind = "incident" => Head(ss[a].pipe).n \in 1..h,
         NEW tt, a \in DOMAIN tt, tt[a] = Read(ss[a]),
         NEW vn, vn = IF Head(ss[a].pipe).kind = "incident" /\ p.searching /\ Head(ss[a].pipe).n \notin Matching
                      THEN un \cup {Head(ss[a].pipe).n} ELSE un
  PROVE  Whole(Hears(p, Head(ss[a].pipe)), a, tt, h, ls, ra, vn)
<1> DEFINE s == ss[a]
           r == tt[a]
           f == Head(s.pipe)
           q == Hears(p, f)
<1>1. ReadRight(s, r)
  BY ReadIs
<1>2. /\ f \in Frames /\ r.open = s.open /\ r.client = s.client
      /\ \A n : Carries(s, n) => f = Frame("incident", n) \/ Carries(r, n)
      /\ Telling(s) => Telling(r) \/ (f.kind \in {"lagged", "skipped"} /\ f.n > 0)
  BY <1>1 DEF ReadRight
<1>3. f.kind \in {"hello", "incident", "lagged", "skipped"} /\ f.n \in Nat
  BY <1>2 DEF Frames
<1>4. PageOK(p) /\ p.source = "open" /\ s.client = "here"
  BY DEF Whole
<1>5. \A n : Carries(s, n) => (f.kind = "incident" /\ f.n = n) \/ Carries(r, n)
  <2> HIDE DEF s, r, f
  <2>1. \A n : Frame("incident", n).kind = "incident" /\ Frame("incident", n).n = n
    BY DEF Frame
  <2> QED
    BY <1>2, <2>1
<1>6. un \subseteq vn
  OBVIOUS
<1>7. \A list \in Lists : \A n \in Newest(1..h, Limit(list)) :
        \/ n \in Held(p, list) \/ n \in ra[list] \/ n \in Muted
        \/ list = "rows" /\ n \in un
        \/ n \in ls /\ ToldBy(p)
        \/ Reloading(p, list)
        \/ Brings(s, n, ls)
  BY DEF Whole, Covered
<1>8. \A n : Brings(s, n, ls) => \/ Brings(r, n, ls) \/ (f.kind = "incident" /\ f.n = n)
                                 \/ (n \in ls /\ f.kind \in {"lagged", "skipped"} /\ f.n > 0)
  BY <1>2, <1>5 DEF Brings
<1>9. \A list \in Lists : /\ Held(p, list) \subseteq 1..h
                          /\ p.reads[list].at = "answered" => Answers(p.reads[list].has, h, ra, list)
  BY DEF Whole
<1>10. f.kind = "incident" => f.n \in 1..h
  OBVIOUS
<1>11. f.kind = "incident" /\ p.searching /\ f.n \notin Matching => f.n \in vn
  OBVIOUS
<1> HIDE DEF s, r, f
<1>12. CASE f.kind = "hello"
  <2>1. q = HearsHello(p)
    BY <1>12 DEF Hears
  <2>2. Keeps(p, q) /\ q.source = "open"
    BY <1>4, <2>1, HelloKeeps
  <2> HIDE DEF q
  <2>3. \A list \in Lists : /\ Held(q, list) = Held(p, list) /\ (Reloading(p, list) => Reloading(q, list))
                            /\ q.reads[list].at = "answered" => q.reads[list] = p.reads[list]
    BY <2>2 DEF Keeps, Held
  <2>4. PageOK(q) /\ (ToldBy(p) => ToldBy(q))
    BY <2>2 DEF Keeps, ToldBy
  <2>5. \A list \in Lists : \A n \in Newest(1..h, Limit(list)) : Covered(q, a, tt, ls, ra, vn, list, n)
    BY <1>6, <1>7, <1>8, <1>12, <2>3, <2>4 DEF Covered, r
  <2>6. Whole(q, a, tt, h, ls, ra, vn)
    BY <1>2, <1>4, <1>9, <2>2, <2>3, <2>4, <2>5 DEF Whole, r
  <2> QED
    BY <2>6 DEF q, f, s
<1>13. CASE f.kind \in {"lagged", "skipped"}
  <2>1. Counts(p, q, f)
    BY <1>2, <1>4, <1>13, CountsIs
  <2> HIDE DEF q
  <2>3. \A list \in Lists : /\ Held(q, list) = Held(p, list) /\ (Reloading(p, list) => Reloading(q, list))
                            /\ q.reads[list] = p.reads[list]
    BY <2>1 DEF Counts, Held
  <2>4. PageOK(q) /\ (ToldBy(p) \/ f.n > 0 => ToldBy(q)) /\ q.source = p.source
    BY <2>1 DEF Counts
  <2>5. \A list \in Lists : \A n \in Newest(1..h, Limit(list)) : Covered(q, a, tt, ls, ra, vn, list, n)
    BY <1>6, <1>7, <1>8, <1>13, <2>3, <2>4 DEF Covered, r
  <2>6. Whole(q, a, tt, h, ls, ra, vn)
    BY <1>2, <1>4, <1>9, <2>3, <2>4, <2>5 DEF Whole, r
  <2> QED
    BY <2>6 DEF q, f, s
<1>14. CASE f.kind = "incident"
  <2> DEFINE m == f.n
  <2>1. Takes(p, q, m)
    BY <1>2, <1>4, <1>14, TakesIs
  <2>2. m \in 1..h
    BY <1>10, <1>14
  <2>9. p.searching /\ m \notin Matching => m \in vn
    BY <1>11, <1>14
  <2>10. \A n : Brings(s, n, ls) => Brings(r, n, ls) \/ m = n
    BY <1>8, <1>14
  <2> HIDE DEF q, m
  <2>3. /\ PageOK(q) /\ (ToldBy(p) => ToldBy(q)) /\ q.source = p.source
        /\ \A list \in Lists : (Reloading(p, list) => Reloading(q, list)) /\ q.reads[list] = p.reads[list]
    BY <2>1 DEF Takes, ToldBy
  <2>4. ASSUME NEW list \in Lists
        PROVE  /\ Held(q, list) \subseteq 1..h
               /\ \A n \in Newest(1..h, Limit(list)) : n \in Held(p, list) \/ n = m =>
                    n \in Held(q, list) \/ (list = "rows" /\ n \in vn)
    <3>1. CASE Held(q, list) = Newest(Held(p, list) \cup {m}, Limit(list))
      <4> DEFINE S == Held(p, list) \cup {m}
      <4>1. S \in SUBSET (1..h) /\ Limit(list) \in Nat
        BY <1>9, <2>2, LimitIs
      <4>2. Held(q, list) \subseteq S
        BY <3>1 DEF Newest
      <4> HIDE DEF S
      <4>3. \A n \in Newest(1..h, Limit(list)) : n \in S => n \in Newest(S, Limit(list))
        BY <4>1, NewestIs
      <4> QED
        BY <3>1, <4>1, <4>2, <4>3 DEF S
    <3>2. CASE list = "rows" /\ p.searching /\ m \notin Matching /\ Held(q, list) = Held(p, list)
      BY <1>9, <2>9, <3>2
    <3> QED
      BY <2>1, <3>1, <3>2 DEF Takes
  <2>5. ASSUME NEW list \in Lists, NEW n \in Newest(1..h, Limit(list))
        PROVE  Covered(q, a, tt, ls, ra, vn, list, n)
    <3>1. \/ n \in Held(p, list) \/ n = m
          \/ n \in ra[list] \/ n \in Muted \/ (list = "rows" /\ n \in un) \/ (n \in ls /\ ToldBy(p))
          \/ Reloading(p, list) \/ Brings(r, n, ls)
      BY <1>7, <2>10
    <3>2. n \in Held(p, list) \/ n = m => n \in Held(q, list) \/ (list = "rows" /\ n \in vn)
      BY <2>4
    <3>3. a # 0 /\ r = tt[a]
      BY DEF r
    <3> QED
      BY <1>6, <2>3, <3>1, <3>2, <3>3 DEF Covered
  <2>6. Whole(q, a, tt, h, ls, ra, vn)
    BY <1>2, <1>4, <1>9, <2>3, <2>4, <2>5 DEF Whole, r
  <2> QED
    BY <2>6 DEF q, f, s
<1> QED
  BY <1>3, <1>12, <1>13, <1>14

(* A read is answered from what was recorded. *)
LEMMA ServesWhole ==
  ASSUME NEW p, NEW a, NEW ss, NEW h \in Nat, NEW ls, NEW ra, NEW un, Whole(p, a, ss, h, ls, ra, un),
         NEW list \in Lists, p.reads[list].at = "asked",
         NEW read, read \in {Served(Newest(1..h, Limit(list))), Broken}
  PROVE  Whole([p EXCEPT !.reads[list] = read], a, ss, h, ls, ra, un)
<1> DEFINE q == [p EXCEPT !.reads[list] = read]
<1>1. Newest(1..h, Limit(list)) \subseteq 1..h
  BY NewestIs, LimitIs
<1>2. /\ read \in Reads /\ read.at # "idle"
      /\ read.at = "answered" => Answers(read.has, h, ra, list)
  <2>1. CASE read = Served(Newest(1..h, Limit(list)))
    BY <1>1, <2>1 DEF Served, Reads, Answers
  <2>2. CASE read = Broken
    BY <2>2 DEF Broken, Reads
  <2> QED
    BY <2>1, <2>2
<1>3. PageOK(p)
  BY DEF Whole
<1>4. /\ PageOK(q) /\ q.all = p.all /\ q.rows = p.rows /\ q.dropped = p.dropped /\ q.skipped = p.skipped
      /\ q.source = p.source /\ q.reads[list] = read
      /\ \A l \in Lists : (Reloading(p, l) => Reloading(q, l)) /\ (l # list => q.reads[l] = p.reads[l])
  BY <1>2, <1>3, ReadsAsked
<1> HIDE DEF q
<1>5. \A l \in Lists : Held(q, l) = Held(p, l)
  BY <1>4 DEF Held
<1>6. \A l \in Lists : \A n \in Newest(1..h, Limit(l)) : Covered(q, a, ss, ls, ra, un, l, n)
  <2>1. ToldBy(p) => ToldBy(q)
    BY <1>4 DEF ToldBy
  <2>2. \A l \in Lists : \A n \in Newest(1..h, Limit(l)) : Covered(p, a, ss, ls, ra, un, l, n)
    BY DEF Whole
  <2> QED
    BY <1>4, <1>5, <2>1, <2>2 DEF Covered
<1>7. \A l \in Lists : q.reads[l].at = "answered" => Answers(q.reads[l].has, h, ra, l)
  BY <1>2, <1>4 DEF Whole
<1>8. Whole(q, a, ss, h, ls, ra, un)
  BY <1>4, <1>5, <1>6, <1>7 DEF Whole
<1> QED
  BY <1>8 DEF q

LEMMA AppliesWhole ==
  ASSUME NEW p, NEW a, NEW ss, NEW h \in Nat, NEW ls, NEW ra, NEW un, Whole(p, a, ss, h, ls, ra, un),
         NEW list \in Lists, p.reads[list].at \in {"answered", "failed"}
  PROVE  Whole(Applies(p, list), a, ss, h, ls, ra, un)
<1> DEFINE q == Applies(p, list)
<1>1. PageOK(p)
  BY DEF Whole
<1>2. Applied(p, q, list)
  BY <1>1, AppliedIs
<1> HIDE DEF q
<1>3. PageOK(q) /\ (ToldBy(p) => ToldBy(q)) /\ q.source = p.source
  BY <1>2 DEF Applied, ToldBy
<1>4. ASSUME NEW l \in Lists
      PROVE  /\ Held(q, l) \subseteq 1..h
             /\ \A n \in Newest(1..h, Limit(l)) : Covered(q, a, ss, ls, ra, un, l, n)
             /\ q.reads[l].at = "answered" => Answers(q.reads[l].has, h, ra, l)
  <2>1. CASE l # list
    <3>1. q.reads[l] = p.reads[l] /\ Held(q, l) = Held(p, l) /\ (Reloading(p, l) => Reloading(q, l))
      BY <1>2, <2>1 DEF Applied
    <3>2. /\ Held(p, l) \subseteq 1..h
          /\ \A n \in Newest(1..h, Limit(l)) : Covered(p, a, ss, ls, ra, un, l, n)
          /\ p.reads[l].at = "answered" => Answers(p.reads[l].has, h, ra, l)
      BY DEF Whole
    <3> QED
      BY <1>3, <3>1, <3>2 DEF Covered
  <2>2. CASE l = list /\ p.reads[list].at = "answered" /\ Held(q, list) = p.reads[list].has
    <3>1. Answers(p.reads[list].has, h, ra, list) /\ q.reads[list].at = "idle"
      BY <1>2, <2>2 DEF Whole, Applied
    <3> QED
      BY <2>2, <3>1 DEF Answers, Covered
  <2>3. CASE l = list /\ Held(q, list) = Held(p, list) /\ Reloading(q, list)
    <3>1. q.reads[list].at = "idle" /\ Held(p, list) \subseteq 1..h
      BY <1>2 DEF Whole, Applied
    <3> QED
      BY <2>3, <3>1 DEF Covered
  <2> QED
    BY <1>2, <2>1, <2>2, <2>3 DEF Applied
<1>5. Whole(q, a, ss, h, ls, ra, un)
  BY <1>3, <1>4 DEF Whole
<1> QED
  BY <1>5 DEF q

(* An incident happens. *)
LEMMA HappensWhole ==
  ASSUME NEW p, NEW a, NEW ss, NEW h \in Nat, NEW ls, NEW ra, NEW un, Whole(p, a, ss, h, ls, ra, un),
         NEW tt, NEW ks, NEW qa, ls \subseteq ks,
         a # 0 => a \in DOMAIN tt /\ tt[a].client = "here",
         \A list \in Lists : ra[list] \subseteq qa[list],
         \A list \in Lists : p.reads[list].at = "answered" \/ (a = 0 /\ ~p.interrupted) => h + 1 \in qa[list],
         a # 0 => \A n : Brings(ss[a], n, ls) => Brings(tt[a], n, ks),
         a # 0 => h + 1 \in Muted \/ Brings(tt[a], h + 1, ks)
  PROVE  Whole(p, a, tt, h + 1, ks, qa, un)
<1>1. PageOK(p)
  BY DEF Whole
<1>2. ASSUME NEW list \in Lists
      PROVE  /\ Held(p, list) \subseteq 1..(h + 1)
             /\ \A n \in Newest(1..(h + 1), Limit(list)) : Covered(p, a, tt, ks, qa, un, list, n)
             /\ p.reads[list].at = "answered" => Answers(p.reads[list].has, h + 1, qa, list)
  <2>1. \A n \in Newest(1..(h + 1), Limit(list)) : n = h + 1 \/ n \in Newest(1..h, Limit(list))
    BY LimitIs, NewestIs
  <2>2. 1..h \subseteq 1..(h + 1)
    OBVIOUS
  <2>3. Covered(p, a, tt, ks, qa, un, list, h + 1)
    <3>1. CASE a = 0
      BY <3>1 DEF Covered, Reloading
    <3>2. CASE a # 0
      BY <3>2 DEF Covered
    <3> QED
      BY <3>1, <3>2
  <2>4. \A n \in Newest(1..h, Limit(list)) : Covered(p, a, tt, ks, qa, un, list, n)
    BY DEF Whole, Covered
  <2>5. p.reads[list].at = "answered" => Answers(p.reads[list].has, h + 1, qa, list)
    <3>1. CASE p.reads[list].at = "answered"
      <4>1. Answers(p.reads[list].has, h, ra, list)
        BY <3>1 DEF Whole
      <4>2. h + 1 \in qa[list] /\ ra[list] \subseteq qa[list]
        BY <3>1
      <4> QED
        BY <2>1, <2>2, <4>1, <4>2 DEF Answers
    <3> QED
      BY <3>1
  <2>6. Held(p, list) \subseteq 1..(h + 1)
    BY <2>2 DEF Whole
  <2> QED
    BY <2>1, <2>3, <2>4, <2>5, <2>6
<1>3. a # 0 => a \in DOMAIN tt /\ p.source = "open" /\ tt[a].client = "here"
  BY DEF Whole
<1> QED
  BY <1>1, <1>2, <1>3 DEF Whole

OwedBy(from, h) == {n \in from + 1..h : n \notin Muted}

\* A stream is a viewer that is told, or on its way out.
StreamOK(s, h, count) ==
  /\ s \in StreamRecords /\ s.from <= h
  /\ \A k \in DOMAIN s.pipe : s.pipe[k].kind = "incident" => s.pipe[k].n \in 1..h
  /\ s.open => Cardinality(OwedBy(s.from, h)) = count + Pending(s)

LEMMA OwedIs ==
  ASSUME NEW from \in Nat, NEW h \in Nat, from <= h
  PROVE  /\ Cardinality(OwedBy(from, h)) \in Nat /\ Cardinality(OwedBy(h, h)) = 0
         /\ h + 1 \in Muted => OwedBy(from, h + 1) = OwedBy(from, h)
         /\ h + 1 \notin Muted => Cardinality(OwedBy(from, h + 1)) = Cardinality(OwedBy(from, h)) + 1
<1>1. IsFiniteSet(OwedBy(from, h))
  <2>1. IsFiniteSet(from + 1..h) /\ OwedBy(from, h) \subseteq from + 1..h
    BY FS_Interval DEF OwedBy
  <2> QED
    BY <2>1, FS_Subset
<1>2. OwedBy(h, h) = {}
  <2>1. \A n \in h + 1..h : FALSE
    OBVIOUS
  <2> QED
    BY <2>1 DEF OwedBy
<1>3. \A n : n \in from + 1..h + 1 <=> n \in from + 1..h \/ n = h + 1
  OBVIOUS
<1>4. h + 1 \in Muted => OwedBy(from, h + 1) = OwedBy(from, h)
  BY <1>3 DEF OwedBy
<1>5. h + 1 \notin Muted => OwedBy(from, h + 1) = OwedBy(from, h) \cup {h + 1} /\ h + 1 \notin OwedBy(from, h)
  <2>1. h + 1 \notin from + 1..h
    OBVIOUS
  <2> QED
    BY <1>3, <2>1 DEF OwedBy
<1>6. h + 1 \notin Muted => Cardinality(OwedBy(from, h + 1)) = Cardinality(OwedBy(from, h)) + 1
  BY <1>1, <1>5, FS_AddElement
<1> QED
  BY <1>1, <1>2, <1>4, <1>6, FS_CardinalityType, FS_EmptySet

LEMMA OpenedIs ==
  ASSUME NEW h \in Nat, NEW time \in Nat
  PROVE  /\ StreamOK(Opened(h, time), h, 0) /\ Opened(h, time).client = "here"
         /\ StreamOK([Opened(h, time) EXCEPT !.client = "aborted"], h, 0)
<1> DEFINE f == Frame("hello", h)
           pipe == <<f>>
           o == Opened(h, time)
<1>1. f \in Frames /\ f.kind = "hello" /\ Worth(f) = 0
  BY FrameIs, WorthIs DEF Frame
<1> HIDE DEF f
<1>2. pipe \in Seq(Frames) /\ Stands(pipe) = 0 /\ \A k \in DOMAIN pipe : pipe[k] = f
  <2>1. <<f>> = Append(<<>>, f)
    OBVIOUS
  <2>2. Append(<<>>, f) \in Seq(Frames) /\ Stands(Append(<<>>, f)) = 0 + 0
    BY <1>1, StandsNone, StandsMore
  <2> QED
    BY <2>1, <2>2
<1>3. o = [open |-> TRUE, pipe |-> pipe, lagging |-> FALSE, since |-> Never, dropped |-> 0,
           window |-> time, count |-> 0, skipped |-> 0, from |-> h, client |-> "here"]
  BY DEF Opened, f
<1> HIDE DEF o, pipe
<1>4. /\ o \in StreamRecords /\ o.from = h /\ o.pipe = pipe /\ o.open /\ o.dropped = 0 /\ o.skipped = 0 /\ o.client = "here"
  BY <1>2, <1>3 DEF StreamRecords, Never
<1>5. ASSUME NEW s, s \in StreamRecords, s.from = h, s.pipe = pipe, s.dropped = 0, s.skipped = 0
      PROVE  StreamOK(s, h, 0)
  <2>1. Pending(s) = 0
    BY <1>2, <1>5 DEF Pending
  <2>2. Cardinality(OwedBy(h, h)) = 0
    BY OwedIs
  <2>3. \A k \in DOMAIN s.pipe : s.pipe[k].kind # "incident"
    BY <1>1, <1>2, <1>5
  <2> QED
    BY <1>5, <2>1, <2>2, <2>3 DEF StreamOK
<1>6. StreamOK(o, h, 0)
  BY <1>4, <1>5
<1>7. StreamOK([o EXCEPT !.client = "aborted"], h, 0)
  <2> DEFINE s == [o EXCEPT !.client = "aborted"]
  <2>1. s \in StreamRecords /\ s.from = h /\ s.pipe = pipe /\ s.dropped = 0 /\ s.skipped = 0
    BY <1>4 DEF StreamRecords
  <2> HIDE DEF s
  <2>2. StreamOK(s, h, 0)
    BY <1>5, <2>1
  <2> QED
    BY <2>2 DEF s
<1> QED
  BY <1>4, <1>6, <1>7 DEF o

LEMMA GoneIs ==
  ASSUME NEW s, NEW h, NEW c, StreamOK(s, h, c)
  PROVE  StreamOK([s EXCEPT !.client = "gone"], h, c) /\ [s EXCEPT !.client = "gone"].open = s.open
<1> DEFINE r == [s EXCEPT !.client = "gone"]
<1>1. s \in StreamRecords
  BY DEF StreamOK
<1>2. /\ r \in StreamRecords /\ r.open = s.open /\ r.from = s.from /\ r.pipe = s.pipe
      /\ r.dropped = s.dropped /\ r.skipped = s.skipped
  BY <1>1 DEF StreamRecords
<1> HIDE DEF r
<1>3. StreamOK(r, h, c) /\ r.open = s.open
  BY <1>2 DEF StreamOK, Pending
<1> QED
  BY <1>3 DEF r

(* One more incident: sent, or not to be. *)
LEMMA OlderIs ==
  ASSUME NEW s, NEW h \in Nat, NEW c, StreamOK(s, h, c), h + 1 \in Muted \/ ~s.open
  PROVE  StreamOK(s, h + 1, c)
<1>1. s.from \in Nat /\ s.from <= h
  BY DEF StreamOK, StreamRecords
<1>2. s.from <= h + 1 /\ 1..h \subseteq 1..(h + 1)
  BY <1>1
<1>3. s.open => OwedBy(s.from, h + 1) = OwedBy(s.from, h)
  BY <1>1, OwedIs
<1> QED
  BY <1>2, <1>3 DEF StreamOK

LEMMA FedOK ==
  ASSUME NEW s, NEW h \in Nat, NEW c \in Nat, StreamOK(s, h, c), h + 1 \notin Muted, NEW time \in Nat
  PROVE  /\ StreamOK(Fed(s, h + 1, time), h + 1, c)
         /\ Fed(s, h + 1, time).client = s.client
         /\ Fed(s, h + 1, time).open => s.open
<1> DEFINE w == Fed(s, h + 1, time)
<1>1. s \in StreamRecords /\ s.from \in Nat /\ s.from <= h /\ h + 1 \in Nat /\ s.open \in BOOLEAN
  BY DEF StreamOK, StreamRecords
<1>2. CASE ~s.open
  <2>1. w = s
    BY <1>2 DEF Fed
  <2> QED
    BY <1>2, <2>1, OlderIs
<1>3. CASE s.open
  <2>1. FedRight(s, w, h + 1)
    BY <1>1, <1>3, FedIs
  <2> HIDE DEF w
  <2>2. /\ w \in StreamRecords /\ w.from = s.from /\ w.client = s.client
        /\ \A k \in DOMAIN w.pipe : w.pipe[k].kind = "incident" => w.pipe[k].n = h + 1 \/ (k \in DOMAIN s.pipe /\ w.pipe[k] = s.pipe[k])
        /\ w.open => Pending(w) = Pending(s) + 1
    BY <2>1 DEF FedRight, Unlike
  <2>3. \A k \in DOMAIN s.pipe : s.pipe[k].kind = "incident" => s.pipe[k].n \in 1..h
    BY DEF StreamOK
  <2>4. 1..h \subseteq 1..(h + 1) /\ h + 1 \in 1..(h + 1) /\ s.from <= h + 1
    BY <1>1
  <2>5. \A k \in DOMAIN w.pipe : w.pipe[k].kind = "incident" => w.pipe[k].n \in 1..(h + 1)
    BY <2>2, <2>3, <2>4
  <2>6. w.open => Cardinality(OwedBy(w.from, h + 1)) = c + Pending(w)
    <3>1. Cardinality(OwedBy(s.from, h + 1)) = Cardinality(OwedBy(s.from, h)) + 1
      BY <1>1, OwedIs
    <3>2. Cardinality(OwedBy(s.from, h)) = c + Pending(s)
      BY <1>3 DEF StreamOK
    <3>3. Pending(s) \in Nat
      BY <1>1, StandsFor DEF Pending, StreamRecords
    <3> QED
      BY <2>2, <3>1, <3>2, <3>3
  <2>7. StreamOK(w, h + 1, c)
    BY <2>2, <2>4, <2>5, <2>6 DEF StreamOK
  <2> QED
    BY <1>3, <2>2, <2>7 DEF w
<1> QED
  BY <1>1, <1>2, <1>3

LEMMA FedBrings ==
  ASSUME NEW s, NEW h \in Nat, NEW c \in Nat, StreamOK(s, h, c), NEW time \in Nat, NEW ls, NEW ks, ls \subseteq ks
  PROVE  LET w == Fed(s, h + 1, time)
         IN  /\ \A n : Brings(s, n, ls) => Brings(w, n, ks)
             /\ (w.open /\ ~Carries(w, h + 1) => h + 1 \in ks) => Brings(w, h + 1, ks)
<1> DEFINE w == Fed(s, h + 1, time)
<1>1. s \in StreamRecords /\ h + 1 \in Nat /\ s.open \in BOOLEAN
  BY DEF StreamOK, StreamRecords
<1>2. CASE ~s.open
  <2>1. w = s
    BY <1>2 DEF Fed
  <2> QED
    BY <1>2, <2>1 DEF Brings
<1>3. CASE s.open
  <2>1. FedRight(s, w, h + 1)
    BY <1>1, <1>3, FedIs
  <2> HIDE DEF w
  <2>2. /\ \A k \in DOMAIN s.pipe : k \in DOMAIN w.pipe /\ w.pipe[k] = s.pipe[k]
        /\ w.open => (Carries(w, h + 1) \/ w.dropped + w.skipped > 0) /\ (Telling(s) => Telling(w))
    BY <2>1 DEF FedRight, Longer
  <2>3. \A n : Carries(s, n) => Carries(w, n)
    BY <2>2 DEF Carries
  <2>4. \A n : Brings(s, n, ls) => Brings(w, n, ks)
    BY <1>3, <2>2, <2>3 DEF Brings
  <2>5. (w.open /\ ~Carries(w, h + 1) => h + 1 \in ks) => Brings(w, h + 1, ks)
    BY <2>2 DEF Brings, Telling
  <2> QED
    BY <2>4, <2>5 DEF w
<1> QED
  BY <1>1, <1>2, <1>3

LEMMA ReadOK ==
  ASSUME NEW s, NEW h \in Nat, NEW c \in Nat, StreamOK(s, h, c), s.pipe # <<>>
  PROVE  /\ StreamOK(Read(s), h, c + Worth(Head(s.pipe))) /\ Read(s).client = s.client /\ Read(s).open = s.open
         /\ c + Worth(Head(s.pipe)) \in Nat
         /\ Head(s.pipe).kind = "incident" => Head(s.pipe).n \in 1..h
<1> DEFINE r == Read(s)
           f == Head(s.pipe)
<1>1. s \in StreamRecords
  BY DEF StreamOK
<1>2. ReadRight(s, r)
  BY <1>1, ReadIs
<1> HIDE DEF r
<1>3. /\ r \in StreamRecords /\ r.open = s.open /\ r.from = s.from /\ r.client = s.client
      /\ Pending(s) = Worth(f) + Pending(r)
      /\ \A k \in DOMAIN r.pipe : r.pipe[k].kind = "incident" => \E j \in DOMAIN s.pipe : r.pipe[k] = s.pipe[j]
      /\ \E j \in DOMAIN s.pipe : f = s.pipe[j]
      /\ f \in Frames
  BY <1>2 DEF ReadRight
<1> HIDE DEF f
<1>4. Worth(f) \in Nat /\ Pending(r) \in Nat
  BY <1>3, WorthIs, StandsFor DEF Pending, StreamRecords
<1>5. \A k \in DOMAIN s.pipe : s.pipe[k].kind = "incident" => s.pipe[k].n \in 1..h
  BY DEF StreamOK
<1>6. s.open => Cardinality(OwedBy(s.from, h)) = c + Pending(s)
  BY DEF StreamOK
<1>7. s.from <= h
  BY DEF StreamOK
<1>8. r.open => Cardinality(OwedBy(r.from, h)) = (c + Worth(f)) + Pending(r)
  BY <1>3, <1>4, <1>6
<1>9. \A k \in DOMAIN r.pipe : r.pipe[k].kind = "incident" => r.pipe[k].n \in 1..h
  BY <1>3, <1>5
<1>10. StreamOK(r, h, c + Worth(f))
  BY <1>3, <1>7, <1>8, <1>9 DEF StreamOK
<1>11. f.kind = "incident" => f.n \in 1..h
  BY <1>3, <1>5
<1> QED
  BY <1>3, <1>4, <1>10, <1>11 DEF r, f

\* The streams not forgotten, of which those open are viewers.
StreamsOK(ss, h, hd, sub) ==
  /\ ss = [i \in DOMAIN ss |-> ss[i]] /\ DOMAIN ss \subseteq 1..MaxStreams
  /\ hd \in [1..MaxStreams -> Nat]
  /\ \A i \in DOMAIN ss : StreamOK(ss[i], h, hd[i]) /\ (ss[i].open => sub)

FeedInv ==
  /\ happened \in Nat /\ now \in Nat
  /\ part # "feed" => streams = <<>>
  /\ StreamsOK(streams, happened, heard, subscribed)
  /\ part = "feed" => Whole(page, at, streams, happened, lost, raced, unmatched)

(* A stream more; one less; one that is another way. *)
Comes(ss, i, s, tt) ==
  /\ i \in 1..MaxStreams /\ i \notin DOMAIN ss
  /\ DOMAIN tt = DOMAIN ss \cup {i} /\ tt = [x \in DOMAIN tt |-> tt[x]] /\ tt[i] = s
  /\ \A j \in DOMAIN ss : tt[j] = ss[j]

LEMMA ComesIs ==
  ASSUME NEW ss, NEW i \in (1..MaxStreams) \ DOMAIN ss, NEW s
  PROVE  Comes(ss, i, s, [j \in DOMAIN ss \cup {i} |-> IF j = i THEN s ELSE ss[j]])
BY DEF Comes

LEMMA AnotherStream ==
  ASSUME NEW ss, NEW h, NEW hd, NEW sub, StreamsOK(ss, h, hd, sub), NEW i, NEW s, StreamOK(s, h, 0),
         NEW tt, Comes(ss, i, s, tt)
  PROVE  StreamsOK(tt, h, [hd EXCEPT ![i] = 0], TRUE)
<1> DEFINE hh == [hd EXCEPT ![i] = 0]
<1>1. /\ DOMAIN tt = DOMAIN ss \cup {i} /\ tt = [x \in DOMAIN tt |-> tt[x]] /\ tt[i] = s
      /\ \A j \in DOMAIN ss : tt[j] = ss[j]
  BY DEF Comes
<1>2. hh \in [1..MaxStreams -> Nat] /\ hh[i] = 0 /\ \A j \in DOMAIN ss : hh[j] = hd[j]
  BY DEF StreamsOK, Comes
<1> HIDE DEF hh
<1>3. \A j \in DOMAIN tt : StreamOK(tt[j], h, hh[j])
  BY <1>1, <1>2 DEF StreamsOK
<1>4. DOMAIN tt \subseteq 1..MaxStreams
  BY <1>1 DEF StreamsOK, Comes
<1>5. StreamsOK(tt, h, hh, TRUE)
  BY <1>1, <1>2, <1>3, <1>4 DEF StreamsOK
<1> QED
  BY <1>5 DEF hh

LEMMA OneStreamLess ==
  ASSUME NEW ss, NEW h, NEW hd, NEW sub, StreamsOK(ss, h, hd, sub), NEW i, NEW left,
         \A j \in DOMAIN ss \ {i} : ss[j].open => left
  PROVE  LET tt == [j \in DOMAIN ss \ {i} |-> ss[j]]
         IN  /\ StreamsOK(tt, h, hd, sub /\ left)
             /\ \A j \in DOMAIN ss : j # i => j \in DOMAIN tt /\ tt[j] = ss[j]
<1> DEFINE tt == [j \in DOMAIN ss \ {i} |-> ss[j]]
<1>1. DOMAIN tt = DOMAIN ss \ {i} /\ tt = [x \in DOMAIN tt |-> tt[x]] /\ \A j \in DOMAIN tt : tt[j] = ss[j]
  OBVIOUS
<1> HIDE DEF tt
<1>2. \A j \in DOMAIN tt : StreamOK(tt[j], h, hd[j]) /\ (tt[j].open => sub /\ left)
  BY <1>1 DEF StreamsOK
<1>3. StreamsOK(tt, h, hd, sub /\ left)
  BY <1>1, <1>2 DEF StreamsOK
<1> QED
  BY <1>1, <1>3 DEF tt

LEMMA StreamChanged ==
  ASSUME NEW ss, NEW h, NEW hd, NEW sub, StreamsOK(ss, h, hd, sub), NEW i \in DOMAIN ss,
         NEW s, NEW c \in Nat, StreamOK(s, h, c), s.open => ss[i].open
  PROVE  /\ StreamsOK([ss EXCEPT ![i] = s], h, [hd EXCEPT ![i] = c], sub)
         /\ i \in DOMAIN [ss EXCEPT ![i] = s] /\ [ss EXCEPT ![i] = s][i] = s
<1> DEFINE tt == [ss EXCEPT ![i] = s]
           hh == [hd EXCEPT ![i] = c]
<1>0. ss = [j \in DOMAIN ss |-> ss[j]] /\ hd \in [1..MaxStreams -> Nat] /\ DOMAIN ss \subseteq 1..MaxStreams
  BY DEF StreamsOK
<1>1. DOMAIN tt = DOMAIN ss /\ tt = [x \in DOMAIN tt |-> tt[x]] /\ tt[i] = s /\ \A j \in DOMAIN ss : j # i => tt[j] = ss[j]
  BY <1>0
<1>2. hh \in [1..MaxStreams -> Nat] /\ hh[i] = c /\ \A j \in DOMAIN ss : j # i => hh[j] = hd[j]
  BY <1>0
<1> HIDE DEF tt, hh
<1>3. \A j \in DOMAIN tt : StreamOK(tt[j], h, hh[j]) /\ (tt[j].open => sub)
  BY <1>1, <1>2 DEF StreamsOK
<1>4. StreamsOK(tt, h, hh, sub)
  BY <1>0, <1>1, <1>2, <1>3 DEF StreamsOK
<1> QED
  BY <1>1, <1>4 DEF tt, hh

(* ----------------------------- the steps of the feed ---------------------- *)

LEMMA RequestFeeds == ASSUME FeedInv, Request PROVE FeedInv'
<1>1. /\ part = "feed" /\ page.source = "connecting"
      /\ happened' = happened /\ now' = now /\ part' = part /\ lost' = lost /\ raced' = raced /\ unmatched' = unmatched
  BY DEF Request, Steady
<1>2. /\ Whole(page, at, streams, happened, lost, raced, unmatched) /\ StreamsOK(streams, happened, heard, subscribed)
      /\ happened \in Nat /\ now \in Nat
  BY <1>1 DEF FeedInv
<1>3. PageOK(page) /\ at = 0
  BY <1>1, <1>2 DEF Whole
<1>4. CASE page' = IsRefused(page) /\ streams' = streams /\ subscribed' = subscribed /\ at' = at /\ heard' = heard
  <2>1. Keeps(page, IsRefused(page))
    BY <1>3, IsRefusedKeeps
  <2>2. Whole(IsRefused(page), at, streams, happened, lost, raced, unmatched)
    BY <1>2, <1>3, <2>1, StaysWhole
  <2> QED
    BY <1>1, <1>2, <1>4, <2>2 DEF FeedInv
<1>5. CASE \E i \in Spare : /\ streams' = Come(i, Opened(happened, now))
                            /\ subscribed' = TRUE /\ at' = i /\ heard' = [heard EXCEPT ![i] = 0]
                            /\ page' = [page EXCEPT !.source = "open"]
  <2>1. PICK i \in Spare : /\ streams' = Come(i, Opened(happened, now))
                           /\ subscribed' = TRUE /\ at' = i /\ heard' = [heard EXCEPT ![i] = 0]
                           /\ page' = [page EXCEPT !.source = "open"]
    BY <1>5
  <2>2. i \in (1..MaxStreams) \ DOMAIN streams
    BY DEF Spare
  <2> DEFINE o == Opened(happened, now)
             tt == [j \in DOMAIN streams \cup {i} |-> IF j = i THEN o ELSE streams[j]]
             q == [page EXCEPT !.source = "open"]
  <2>3. StreamOK(o, happened, 0) /\ o.client = "here"
    BY <1>2, OpenedIs
  <2> HIDE DEF o
  <2>8. Comes(streams, i, o, tt)
    BY <2>2, ComesIs
  <2> HIDE DEF tt
  <2>4. StreamsOK(tt, happened, [heard EXCEPT ![i] = 0], TRUE) /\ i \in DOMAIN tt /\ tt[i] = o
    BY <1>2, <2>3, <2>8, AnotherStream DEF Comes
  <2>5. Keeps(page, q) /\ q.source = "open"
    <3>1. 0 \in Nat /\ TRUE \in BOOLEAN /\ page.source # "none"
      BY <1>1
    <3> QED
      BY <1>3, <3>1, DetailsKeep, Zenon
  <2> HIDE DEF q
  <2>6. Whole(q, i, tt, happened, lost, raced, unmatched)
    BY <1>2, <1>3, <2>3, <2>4, <2>5, StaysWhole
  <2>7. streams' = tt /\ page' = q /\ at' = i /\ subscribed' = TRUE /\ heard' = [heard EXCEPT ![i] = 0]
    BY <2>1 DEF tt, q, o, Come
  <2> QED
    BY <1>1, <1>2, <2>4, <2>6, <2>7 DEF FeedInv
<1> QED
  BY <1>4, <1>5 DEF Request

LEMMA DiagnoseFeeds == ASSUME FeedInv, Diagnose PROVE FeedInv'
<1>1. /\ part = "feed"
      /\ happened' = happened /\ now' = now /\ part' = part /\ at' = at /\ lost' = lost /\ raced' = raced /\ unmatched' = unmatched
  BY DEF Diagnose, Steady
<1>2. /\ Whole(page, at, streams, happened, lost, raced, unmatched) /\ StreamsOK(streams, happened, heard, subscribed)
      /\ happened \in Nat /\ now \in Nat
  BY <1>1 DEF FeedInv
<1>3. /\ PageOK(page) /\ (at # 0 => at \in DOMAIN streams /\ page.source = "open" /\ streams[at].client = "here")
      /\ 0 \in Nat /\ TRUE \in BOOLEAN
  BY <1>2 DEF Whole
<1>4. CASE page' = [page EXCEPT !.asking = FALSE, !.failed = @ \cup {"events"}] /\ streams' = streams /\ subscribed' = subscribed /\ heard' = heard
  <2> DEFINE q == [page EXCEPT !.asking = FALSE, !.failed = page.failed \cup {"events"}]
  <2>1. Keeps(page, q) /\ q.source = page.source
    BY <1>3, DetailsKeep, Zenon
  <2>0. page' = q
    BY <1>4
  <2> HIDE DEF q
  <2>2. Whole(q, at, streams, happened, lost, raced, unmatched)
    BY <1>2, <1>3, <2>1, StaysWhole
  <2> QED
    BY <1>1, <1>2, <1>4, <2>0, <2>2 DEF FeedInv
<1>5. CASE \E i \in Spare : /\ streams' = Come(i, [Opened(happened, now) EXCEPT !.client = "aborted"])
                            /\ subscribed' = TRUE /\ heard' = [heard EXCEPT ![i] = 0]
                            /\ page' = [page EXCEPT !.asking = FALSE]
  <2>1. PICK i \in Spare : /\ streams' = Come(i, [Opened(happened, now) EXCEPT !.client = "aborted"])
                           /\ subscribed' = TRUE /\ heard' = [heard EXCEPT ![i] = 0]
                           /\ page' = [page EXCEPT !.asking = FALSE]
    BY <1>5
  <2>2. i \in (1..MaxStreams) \ DOMAIN streams
    BY DEF Spare
  <2> DEFINE o == [Opened(happened, now) EXCEPT !.client = "aborted"]
             tt == [j \in DOMAIN streams \cup {i} |-> IF j = i THEN o ELSE streams[j]]
             q == [page EXCEPT !.asking = FALSE]
  <2>3. StreamOK(o, happened, 0)
    BY <1>2, OpenedIs
  <2> HIDE DEF o
  <2>8. Comes(streams, i, o, tt)
    BY <2>2, ComesIs
  <2> HIDE DEF tt
  <2>4. StreamsOK(tt, happened, [heard EXCEPT ![i] = 0], TRUE) /\ \A j \in DOMAIN streams : j \in DOMAIN tt /\ tt[j] = streams[j]
    BY <1>2, <2>3, <2>8, AnotherStream DEF Comes
  <2>5. Keeps(page, q) /\ q.source = page.source
    BY <1>3, DetailsKeep, Zenon
  <2> HIDE DEF q
  <2>6. Whole(q, at, tt, happened, lost, raced, unmatched)
    <3>1. at # 0 => at \in DOMAIN tt /\ q.source = "open" /\ tt[at].client = "here" /\ tt[at] = streams[at]
      BY <1>3, <2>4, <2>5
    <3>2. at = 0 \/ (at = at /\ tt[at] = streams[at]) \/ (\A list \in Lists : Reloading(q, list))
      BY <3>1
    <3> QED
      BY <1>2, <2>5, <3>1, <3>2, StaysWhole
  <2>7. streams' = tt /\ page' = q /\ subscribed' = TRUE /\ heard' = [heard EXCEPT ![i] = 0]
    BY <2>1 DEF tt, q, o, Come
  <2> QED
    BY <1>1, <1>2, <2>4, <2>6, <2>7 DEF FeedInv
<1> QED
  BY <1>4, <1>5 DEF Diagnose

LEMMA ForgetFeeds == ASSUME FeedInv, NEW i \in DOMAIN streams, Forget(i) PROVE FeedInv'
<1>1. /\ part = "feed" /\ streams[i].client # "here"
      /\ streams' = Gone(i) /\ subscribed' = (subscribed /\ Viewers \ {i} # {})
      /\ happened' = happened /\ now' = now /\ part' = part /\ lost' = lost /\ raced' = raced /\ unmatched' = unmatched
      /\ page' = page /\ at' = at /\ heard' = heard
  BY DEF Forget, Steady
<1>2. /\ Whole(page, at, streams, happened, lost, raced, unmatched) /\ StreamsOK(streams, happened, heard, subscribed)
      /\ happened \in Nat /\ now \in Nat
  BY <1>1 DEF FeedInv
<1> DEFINE left == Viewers \ {i} # {}
           tt == [j \in DOMAIN streams \ {i} |-> streams[j]]
<1>3. \A j \in DOMAIN streams \ {i} : streams[j].open => left
  BY DEF Viewers
<1>0. streams' = tt /\ subscribed' = (subscribed /\ left)
  BY <1>1 DEF Gone
<1> HIDE DEF left
<1>4. /\ StreamsOK(tt, happened, heard, subscribed /\ left)
      /\ \A j \in DOMAIN streams : j # i => j \in DOMAIN tt /\ tt[j] = streams[j]
  BY <1>2, <1>3, OneStreamLess
<1> HIDE DEF tt
<1>5. at # 0 => at \in DOMAIN tt /\ page.source = "open" /\ tt[at].client = "here" /\ tt[at] = streams[at]
  BY <1>1, <1>2, <1>4 DEF Whole
<1>6. Keeps(page, page)
  BY <1>2 DEF Whole, Keeps
<1>7. Whole(page, at, tt, happened, lost, raced, unmatched)
  <2>1. at = 0 \/ (at = at /\ tt[at] = streams[at]) \/ (\A list \in Lists : Reloading(page, list))
    BY <1>5
  <2> QED
    BY <1>2, <1>5, <1>6, <2>1, StaysWhole
<1> QED
  BY <1>0, <1>1, <1>2, <1>4, <1>7 DEF FeedInv

(* A stream breaks off, and the page is to load everything. *)
LEMMA CutFeeds ==
  ASSUME FeedInv, part = "feed", at # 0, NEW p, Cut(at, p), Keeps(page, p), p.interrupted,
         happened' = happened, now' = now, part' = part
  PROVE  FeedInv'
<1>1. /\ streams' = [streams EXCEPT ![at].client = "gone"] /\ at' = 0 /\ page' = p
      /\ subscribed' = subscribed /\ heard' = heard /\ lost' = lost /\ raced' = raced /\ unmatched' = unmatched
  BY DEF Cut
<1>2. /\ Whole(page, at, streams, happened, lost, raced, unmatched) /\ StreamsOK(streams, happened, heard, subscribed)
      /\ happened \in Nat /\ now \in Nat
  BY DEF FeedInv
<1>3. at \in DOMAIN streams
  BY <1>2 DEF Whole
<1> DEFINE s == [streams[at] EXCEPT !.client = "gone"]
           tt == [streams EXCEPT ![at] = s]
<1>4. streams' = tt
  BY <1>1
<1>5. StreamOK(streams[at], happened, heard[at]) /\ heard[at] \in Nat /\ heard = [heard EXCEPT ![at] = heard[at]]
  BY <1>2, <1>3 DEF StreamsOK
<1>6. StreamOK(s, happened, heard[at]) /\ s.open = streams[at].open
  BY <1>5, GoneIs
<1> HIDE DEF s
<1>7. StreamsOK(tt, happened, [heard EXCEPT ![at] = heard[at]], subscribed)
  BY <1>2, <1>3, <1>5, <1>6, StreamChanged
<1>8. StreamsOK(tt, happened, heard, subscribed)
  BY <1>5, <1>7
<1> HIDE DEF tt
<1>9. Whole(p, 0, tt, happened, lost, raced, unmatched)
  <2>1. \A list \in Lists : Reloading(p, list)
    BY DEF Reloading
  <2> QED
    BY <1>2, <2>1, StaysWhole
<1> QED
  BY <1>1, <1>2, <1>4, <1>8, <1>9 DEF FeedInv

(* The page moves, and the streams do not. *)
LEMMA PageMoves ==
  ASSUME FeedInv, part = "feed", NEW q, page' = q, OnlyPage, happened' = happened, now' = now, part' = part,
         Whole(q, at, streams, happened, lost, raced, unmatched)
  PROVE  FeedInv'
<1>1. /\ streams' = streams /\ subscribed' = subscribed /\ at' = at /\ heard' = heard
      /\ lost' = lost /\ raced' = raced /\ unmatched' = unmatched
  BY DEF OnlyPage
<1> QED
  BY <1>1 DEF FeedInv

LEMMA PageKeeps ==
  ASSUME FeedInv, part = "feed", NEW q, page' = q, OnlyPage, happened' = happened, now' = now, part' = part,
         Keeps(page, q), at # 0 => q.source = "open"
  PROVE  FeedInv'
<1>1. Whole(page, at, streams, happened, lost, raced, unmatched)
  BY DEF FeedInv
<1>2. at # 0 => at \in DOMAIN streams /\ streams[at].client = "here"
  BY <1>1 DEF Whole
<1>3. at = 0 \/ (at = at /\ streams[at] = streams[at]) \/ (\A list \in Lists : Reloading(q, list))
  OBVIOUS
<1>4. Whole(q, at, streams, happened, lost, raced, unmatched)
  BY <1>1, <1>2, <1>3, StaysWhole
<1> QED
  BY <1>4, PageMoves

LEMMA PageFeeds ==
  ASSUME FeedInv, Break \/ End \/ Retry \/ FinishPass \/ Pause \/ Search \/ Dismiss
  PROVE  FeedInv'
<1>1. part = "feed" /\ happened' = happened /\ now' = now /\ part' = part
  BY Zenon DEF Break, End, Retry, FinishPass, Pause, Search, Dismiss, Steady, Moved, Broke
<1>2. Whole(page, at, streams, happened, lost, raced, unmatched)
  BY <1>1 DEF FeedInv
<1>3. PageOK(page) /\ (at # 0 => page.source = "open")
  BY <1>2 DEF Whole
<1>4. CASE Break \/ End
  <2>1. at # 0 /\ Cut(at, Breaks(page))
    BY <1>4 DEF Break, End
  <2>2. Keeps(page, Breaks(page)) /\ Breaks(page).interrupted
    BY <1>3, <2>1, BreaksKeeps
  <2> QED
    BY <1>1, <2>1, <2>2, CutFeeds
<1>5. CASE Retry
  <2>1. page.retry /\ page' = Retries(page) /\ OnlyPage
    BY <1>5 DEF Retry
  <2>2. Keeps(page, Retries(page)) /\ page.source = "none"
    BY <1>3, <2>1, RetriesKeeps
  <2>3. at = 0
    BY <1>3, <2>2
  <2> QED
    BY <1>1, <2>1, <2>2, <2>3, PageKeeps
<1>6. CASE FinishPass
  <2>1. (\A list \in Lists : page.reads[list] = Idle) /\ page' = PassEnds(page) /\ OnlyPage
    BY <1>6 DEF FinishPass
  <2>2. Keeps(page, PassEnds(page)) /\ PassEnds(page).source = page.source
    BY <1>3, <2>1, PassEndsKeeps
  <2> QED
    BY <1>1, <1>3, <2>1, <2>2, PageKeeps
<1>7. CASE Pause
  <2>1. /\ Keeps(page, Toggles(page))
        /\ page.live /\ page.source = "open" => Toggles(page).interrupted
        /\ ~page.live /\ page.source = "open" => Toggles(page).source = "open"
    BY <1>3, TogglesKeeps
  <2>2. CASE page.live /\ at # 0
    <3>1. Cut(at, Toggles(page))
      BY <1>7, <2>2 DEF Pause
    <3> QED
      BY <1>1, <1>3, <2>1, <2>2, <3>1, CutFeeds
  <2>3. CASE ~(page.live /\ at # 0)
    <3>1. page' = Toggles(page) /\ OnlyPage
      BY <1>7, <2>3 DEF Pause
    <3> QED
      BY <1>1, <1>3, <2>1, <2>3, <3>1, PageKeeps
  <2> QED
    BY <2>2, <2>3
<1>8. CASE Search
  <2>1. page' = [page EXCEPT !.searching = ~@] /\ OnlyPage
    BY <1>8 DEF Search
  <2>2. page.searching \in BOOLEAN
    BY <1>3 DEF PageOK, Pages
  <2>3. PICK b \in BOOLEAN : page' = [page EXCEPT !.searching = b]
    <3> DEFINE c == ~page.searching
    <3>1. c \in BOOLEAN /\ page' = [page EXCEPT !.searching = c]
      BY <2>1
    <3> HIDE DEF c
    <3> QED
      BY <3>1, Zenon
  <2> DEFINE q == [page EXCEPT !.searching = b]
  <2>4. Keeps(page, q) /\ q.source = page.source
    <3>1. 0 \in Nat
      OBVIOUS
    <3> QED
      BY <1>3, <3>1, DetailsKeep, Zenon
  <2>5. page' = q
    BY <2>3
  <2> HIDE DEF q
  <2> QED
    BY <1>1, <1>3, <2>1, <2>4, <2>5, PageKeeps
<1>9. CASE Dismiss
  <2>1. page' \in {Dismisses(page), Reloads(page)} /\ OnlyPage
    BY <1>9 DEF Dismiss
  <2>2. /\ Keeps(page, Dismisses(page)) /\ Dismisses(page).source = page.source
        /\ Keeps(page, Reloads(page)) /\ Reloads(page).source = page.source
    BY <1>3, NoticeKeeps
  <2>3. CASE page' = Dismisses(page)
    BY <1>1, <1>3, <2>1, <2>2, <2>3, PageKeeps
  <2>4. CASE page' = Reloads(page)
    BY <1>1, <1>3, <2>1, <2>2, <2>4, PageKeeps
  <2> QED
    BY <2>1, <2>3, <2>4
<1> QED
  BY <1>4, <1>5, <1>6, <1>7, <1>8, <1>9

LEMMA ReadsFeed == ASSUME FeedInv, NEW list \in Lists, Serve(list) \/ Apply(list) PROVE FeedInv'
<1>1. part = "feed" /\ happened' = happened /\ now' = now /\ part' = part /\ OnlyPage
  BY Zenon DEF Serve, Apply, Steady, Broke
<1>2. Whole(page, at, streams, happened, lost, raced, unmatched) /\ happened \in Nat
  BY <1>1 DEF FeedInv
<1>3. CASE Serve(list)
  <2>1. page.reads[list].at = "asked"
    BY <1>3 DEF Serve
  <2>2. PICK read \in {Served(Newest(1..happened, Limit(list))), Broken} : page' = [page EXCEPT !.reads[list] = read]
    BY <1>3 DEF Serve
  <2>3. Whole([page EXCEPT !.reads[list] = read], at, streams, happened, lost, raced, unmatched)
    BY <1>2, <2>1, ServesWhole
  <2> QED
    BY <1>1, <2>2, <2>3, PageMoves
<1>4. CASE Apply(list)
  <2>1. page.reads[list].at \in {"answered", "failed"} /\ page' = Applies(page, list)
    BY <1>4 DEF Apply
  <2>2. Whole(Applies(page, list), at, streams, happened, lost, raced, unmatched)
    BY <1>2, <2>1, AppliesWhole
  <2> QED
    BY <1>1, <2>1, <2>2, PageMoves
<1> QED
  BY <1>3, <1>4

LEMMA HearFeeds == ASSUME FeedInv, Hear PROVE FeedInv'
<1> DEFINE s == streams[at]
           f == Head(s.pipe)
           c == heard[at] + Worth(f)
           tt == [streams EXCEPT ![at] = Read(s)]
           vn == IF f.kind = "incident" /\ page.searching /\ f.n \notin Matching THEN unmatched \cup {f.n} ELSE unmatched
<1>1. /\ part = "feed" /\ at # 0 /\ s.pipe # <<>>
      /\ page' = Hears(page, f) /\ heard' = [heard EXCEPT ![at] = c] /\ unmatched' = vn /\ streams' = tt
      /\ happened' = happened /\ now' = now /\ part' = part /\ subscribed' = subscribed /\ at' = at /\ lost' = lost /\ raced' = raced
  BY DEF Hear, Steady
<1>2. /\ Whole(page, at, streams, happened, lost, raced, unmatched) /\ StreamsOK(streams, happened, heard, subscribed)
      /\ happened \in Nat /\ now \in Nat
  BY <1>1 DEF FeedInv
<1>3. at \in DOMAIN streams
  BY <1>1, <1>2 DEF Whole
<1>4. StreamOK(s, happened, heard[at]) /\ heard[at] \in Nat /\ s \in StreamRecords
  BY <1>2, <1>3 DEF StreamsOK, StreamOK
<1>5. /\ StreamOK(Read(s), happened, c) /\ Read(s).client = s.client /\ Read(s).open = s.open
      /\ c \in Nat /\ (f.kind = "incident" => f.n \in 1..happened)
  BY <1>1, <1>2, <1>4, ReadOK
<1>6. /\ StreamsOK(tt, happened, [heard EXCEPT ![at] = c], subscribed)
      /\ at \in DOMAIN tt /\ tt[at] = Read(s)
  <2> HIDE DEF c, f
  <2> QED
    BY <1>2, <1>3, <1>5, StreamChanged
<1>7. Whole(Hears(page, f), at, tt, happened, lost, raced, vn)
  <2>1. vn = IF f.kind = "incident" /\ page.searching /\ f.n \notin Matching THEN unmatched \cup {f.n} ELSE unmatched
    OBVIOUS
  <2> HIDE DEF tt, vn, c
  <2> QED
    BY <1>1, <1>2, <1>4, <1>5, <1>6, <2>1, HearsWhole
<1> HIDE DEF tt, vn, c, f
<1> QED
  BY <1>1, <1>2, <1>6, <1>7 DEF FeedInv

LEMMA HappenFeeds == ASSUME FeedInv, Happen PROVE FeedInv'
<1> DEFINE n == happened + 1
           sent == subscribed /\ n \notin Muted
           tt == IF sent THEN [i \in DOMAIN streams |-> Fed(streams[i], n, now)] ELSE streams
           ks == IF sent /\ \E i \in Viewers : tt[i].open /\ Frame("incident", n) \notin ToSet(tt[i].pipe)
                 THEN lost \cup {n} ELSE lost
           qa == [list \in Lists |-> IF page.reads[list].at = "answered" \/ (at = 0 /\ ~page.interrupted)
                                     THEN raced[list] \cup {n} ELSE raced[list]]
<1>1. /\ part = "feed" /\ happened' = n /\ streams' = tt /\ raced' = qa
      /\ now' = now /\ part' = part /\ subscribed' = subscribed /\ page' = page /\ at' = at /\ heard' = heard /\ unmatched' = unmatched
  BY DEF Happen
<1>2. lost' = ks
  <2>1. lost' = IF sent /\ \E i \in Viewers : streams'[i].open /\ Frame("incident", n) \notin ToSet(streams'[i].pipe)
                THEN lost \cup {n} ELSE lost
    BY DEF Happen
  <2> QED
    BY <1>1, <2>1
<1>3. /\ Whole(page, at, streams, happened, lost, raced, unmatched) /\ StreamsOK(streams, happened, heard, subscribed)
      /\ happened \in Nat /\ now \in Nat
  BY <1>1 DEF FeedInv
<1>4. /\ DOMAIN tt = DOMAIN streams /\ tt = [i \in DOMAIN tt |-> tt[i]]
      /\ sent => \A i \in DOMAIN streams : tt[i] = Fed(streams[i], n, now)
      /\ ~sent => tt = streams
  BY <1>3 DEF StreamsOK
<1>5. n \notin Muted /\ ~sent => \A i \in DOMAIN streams : ~streams[i].open
  BY <1>3 DEF StreamsOK
<1>6. sent => n \notin Muted
  OBVIOUS
<1>7. lost \subseteq ks
  OBVIOUS
<1>8. ASSUME sent, NEW i \in DOMAIN streams, streams[i].open, tt[i].open, ~Carries(tt[i], n) PROVE n \in ks
  <2>1. i \in Viewers
    BY <1>8 DEF Viewers
  <2>2. Frame("incident", n) \notin ToSet(tt[i].pipe)
    BY <1>8 DEF Carries, ToSet
  <2> HIDE DEF sent, tt
  <2>3. \E j \in Viewers : tt[j].open /\ Frame("incident", n) \notin ToSet(tt[j].pipe)
    BY <1>8, <2>1, <2>2
  <2> QED
    BY <1>8, <2>3
<1>9. /\ \A list \in Lists : raced[list] \subseteq qa[list]
      /\ \A list \in Lists : page.reads[list].at = "answered" \/ (at = 0 /\ ~page.interrupted) => n \in qa[list]
  OBVIOUS
<1> HIDE DEF sent, tt, ks, qa
<1>10. ASSUME NEW i \in DOMAIN tt
       PROVE  /\ StreamOK(tt[i], n, heard[i]) /\ (tt[i].open => subscribed) /\ tt[i].client = streams[i].client
              /\ \A m : Brings(streams[i], m, lost) => Brings(tt[i], m, ks)
              /\ n \in Muted \/ Brings(tt[i], n, ks)
  <2>1. i \in DOMAIN streams
    BY <1>4
  <2>2. StreamOK(streams[i], happened, heard[i]) /\ (streams[i].open => subscribed) /\ heard[i] \in Nat
    BY <1>3, <2>1 DEF StreamsOK
  <2>3. CASE sent
    <3>1. tt[i] = Fed(streams[i], n, now) /\ n \notin Muted
      BY <1>4, <1>6, <2>1, <2>3
    <3>2. StreamOK(tt[i], n, heard[i]) /\ tt[i].client = streams[i].client /\ (tt[i].open => streams[i].open)
      BY <1>3, <2>2, <3>1, FedOK
    <3>3. tt[i].open /\ ~Carries(tt[i], n) => n \in ks
      BY <1>8, <2>1, <2>3, <3>2
    <3>4. /\ \A m : Brings(streams[i], m, lost) => Brings(tt[i], m, ks)
          /\ (tt[i].open /\ ~Carries(tt[i], n) => n \in ks) => Brings(tt[i], n, ks)
      BY <1>3, <1>7, <2>2, <3>1, FedBrings
    <3> QED
      BY <2>2, <3>2, <3>3, <3>4
  <2>4. CASE ~sent
    <3>1. tt[i] = streams[i] /\ (n \in Muted \/ ~streams[i].open)
      BY <1>4, <1>5, <2>1, <2>4
    <3>2. StreamOK(tt[i], n, heard[i])
      BY <1>3, <2>2, <3>1, OlderIs
    <3> QED
      BY <1>7, <2>2, <3>1, <3>2 DEF Brings
  <2> QED
    BY <2>3, <2>4
<1>11. StreamsOK(tt, n, heard, subscribed)
  BY <1>3, <1>4, <1>10 DEF StreamsOK
<1>12. Whole(page, at, tt, n, ks, qa, unmatched)
  <2>1. at # 0 => at \in DOMAIN tt /\ streams[at].client = "here"
    BY <1>3, <1>4 DEF Whole
  <2>2. at # 0 => tt[at].client = "here"
    BY <1>10, <2>1
  <2>3. at # 0 => \A m : Brings(streams[at], m, lost) => Brings(tt[at], m, ks)
    BY <1>10, <2>1
  <2>4. at # 0 => n \in Muted \/ Brings(tt[at], n, ks)
    BY <1>10, <2>1
  <2> QED
    BY <1>3, <1>7, <1>9, <2>1, <2>2, <2>3, <2>4, HappensWhole
<1>13. n \in Nat
  BY <1>3
<1> HIDE DEF n
<1> QED
  BY <1>1, <1>2, <1>3, <1>11, <1>12, <1>13 DEF FeedInv

LEMMA FeedNextFeeds == FeedInv /\ FeedNext => FeedInv'
<1> SUFFICES ASSUME FeedInv, FeedNext PROVE FeedInv'
  OBVIOUS
<1>1. CASE Happen \/ Request \/ Diagnose \/ Hear
  BY <1>1, HappenFeeds, RequestFeeds, DiagnoseFeeds, HearFeeds
<1>2. CASE Break \/ End \/ Retry \/ FinishPass \/ Pause \/ Search \/ Dismiss
  BY <1>2, PageFeeds
<1>3. ASSUME NEW i \in DOMAIN streams, Forget(i) PROVE FeedInv'
  BY <1>3, ForgetFeeds
<1>4. ASSUME NEW list \in Lists, Serve(list) \/ Apply(list) PROVE FeedInv'
  BY <1>4, ReadsFeed
<1> QED
  BY <1>1, <1>2, <1>3, <1>4, Zenon DEF FeedNext

(* ------------------- the viewers of the management API -------------------- *)

LinkRecords == [state : {"connecting", "open", "closing", "closed"}, viewer : LinkViewers, heard : Nat]

\* A viewer was sent, is being sent, or is owed the number of, everything since it came.
LinkOK(l, h) ==
  /\ l \in LinkRecords /\ l.viewer.from <= h
  /\ l.state = "connecting" => l.heard = 0
  /\ l.state = "open" /\ l.viewer.open => h - l.viewer.from = l.heard + Stands(l.viewer.buffered) + l.viewer.dropped

LinksInv ==
  /\ part # "remote" => links = <<>> /\ ~remote.retry
  /\ links \in Seq(LinkRecords)
  /\ \A i \in DOMAIN links : LinkOK(links[i], happened)

LEMMA LinkChanged ==
  ASSUME LinksInv, part = "remote", part' = part, happened' = happened, NEW i, NEW l,
         i \in DOMAIN links => LinkOK(l, happened), links' = [links EXCEPT ![i] = l]
  PROVE  LinksInv'
<1>1. links \in Seq(LinkRecords) /\ \A j \in DOMAIN links : LinkOK(links[j], happened)
  BY DEF LinksInv
<1>2. CASE i \in DOMAIN links
  <2>1. l \in LinkRecords
    BY <1>2 DEF LinkOK
  <2>2. links' \in Seq(LinkRecords) /\ DOMAIN links' = DOMAIN links
    BY <1>1, <1>2, <2>1
  <2>3. \A j \in DOMAIN links : links'[j] = IF j = i THEN l ELSE links[j]
    BY <1>1
  <2>4. \A j \in DOMAIN links' : LinkOK(links'[j], happened)
    BY <1>1, <1>2, <2>2, <2>3
  <2> QED
    BY <2>2, <2>4 DEF LinksInv
<1>3. CASE i \notin DOMAIN links
  <2>1. links' = links
    <3>1. links = [j \in 1..Len(links) |-> links[j]] /\ DOMAIN links = 1..Len(links)
      BY <1>1
    <3> QED
      BY <1>3, <3>1
  <2> QED
    BY <1>1, <2>1 DEF LinksInv
<1> QED
  BY <1>2, <1>3

LEMMA JoinedIs ==
  ASSUME NEW h \in Nat
  PROVE  /\ Joined(h) \in LinkViewers /\ Joined(h).from = h
         /\ Stands(Joined(h).buffered) + Joined(h).dropped = 0 /\ Joined(h).buffered = <<>>
BY StandsNone DEF Joined, LinkViewers, Never

LEMMA DialledLinks ==
  ASSUME LinksInv, happened \in Nat, part = "remote", part' = part, happened' = happened, NEW r, Dialled(r)
  PROVE  LinksInv'
<1> DEFINE l == [state |-> "connecting", viewer |-> Joined(happened), heard |-> 0]
<1>1. links' = links \/ links' = Append(links, l)
  BY DEF Dialled
<1>2. LinkOK(l, happened)
  <2>1. Joined(happened) \in LinkViewers /\ Joined(happened).from = happened
    BY JoinedIs
  <2>2. l \in LinkRecords /\ l.viewer = Joined(happened) /\ l.state = "connecting" /\ l.heard = 0
    BY <2>1 DEF LinkRecords
  <2> HIDE DEF l
  <2> QED
    BY <2>1, <2>2 DEF LinkOK
<1> HIDE DEF l
<1>3. CASE links' = links
  BY <1>3 DEF LinksInv
<1>4. CASE links' = Append(links, l)
  <2>1. links \in Seq(LinkRecords) /\ l \in LinkRecords /\ \A j \in DOMAIN links : LinkOK(links[j], happened)
    BY <1>2 DEF LinksInv, LinkOK
  <2>2. links' \in Seq(LinkRecords) /\ \A j \in DOMAIN links' : links'[j] = l \/ (j \in DOMAIN links /\ links'[j] = links[j])
    BY <1>4, <2>1
  <2> QED
    BY <1>2, <2>1, <2>2 DEF LinksInv
<1> QED
  BY <1>1, <1>3, <1>4

\* A link as it ends.
Ending(l) == [l EXCEPT !.state = "closing", !.viewer.open = FALSE]

LEMMA EndingOK ==
  ASSUME NEW l, NEW h, LinkOK(l, h)
  PROVE  LinkOK(Ending(l), h)
<1> DEFINE v == [l.viewer EXCEPT !.open = FALSE]
           e == Ending(l)
<1>1. l \in LinkRecords /\ l.viewer \in LinkViewers
  BY DEF LinkOK, LinkRecords
<1>2. v \in LinkViewers /\ v.from = l.viewer.from
  BY <1>1 DEF LinkViewers
<1>3. e = [l EXCEPT !.state = "closing", !.viewer = v]
  BY <1>1 DEF Ending, LinkRecords
<1> HIDE DEF v, e
<1>4. e \in LinkRecords /\ e.state = "closing" /\ e.viewer = v
  BY <1>1, <1>2, <1>3 DEF LinkRecords
<1>5. LinkOK(e, h)
  BY <1>2, <1>4 DEF LinkOK
<1> QED
  BY <1>5 DEF e

LEMMA EndsLink ==
  ASSUME LinksInv, part = "remote", part' = part, happened' = happened, NEW i,
         links' = [links EXCEPT ![i].state = "closing", ![i].viewer.open = FALSE]
  PROVE  LinksInv'
<1>1. links \in Seq(LinkRecords) /\ \A j \in DOMAIN links : LinkOK(links[j], happened)
  BY DEF LinksInv
<1>2. links' = [links EXCEPT ![i] = Ending(links[i])]
  <2>1. DOMAIN links = 1..Len(links) /\ links = [j \in 1..Len(links) |-> links[j]]
    BY <1>1
  <2> QED
    BY <2>1 DEF Ending
<1>3. i \in DOMAIN links => LinkOK(Ending(links[i]), happened)
  BY <1>1, EndingOK
<1> QED
  BY <1>2, <1>3, LinkChanged

LEMMA HungUpLinks ==
  ASSUME LinksInv, part = "remote", part' = part, happened' = happened, NEW r, HungUp(r)
  PROVE  LinksInv'
<1>1. CASE r.socket = 0
  <2>1. links' = links
    BY <1>1 DEF HungUp
  <2> QED
    BY <2>1 DEF LinksInv
<1>2. CASE r.socket # 0
  <2>1. links' = [links EXCEPT ![r.socket].state = "closing", ![r.socket].viewer.open = FALSE]
    BY <1>2 DEF HungUp
  <2> QED
    BY <2>1, EndsLink
<1> QED
  BY <1>1, <1>2

LEMMA LinkSteps ==
  ASSUME LinksInv, happened \in Nat, part = "remote", part' = part, happened' = happened, NEW i \in DOMAIN links,
         OpenLink(i) \/ BreakLink(i) \/ HearEnd(i) \/ ReadLink(i)
  PROVE  LinksInv'
<1> DEFINE l == links[i]
<1>1. LinkOK(l, happened) /\ l \in LinkRecords /\ l.viewer \in LinkViewers /\ l.heard \in Nat
  BY DEF LinksInv, LinkOK, LinkRecords
<1>2. CASE OpenLink(i)
  <2> DEFINE j == Joined(happened)
             m == [l EXCEPT !.state = "open", !.viewer = j]
  <2>1. l.state = "connecting" /\ links' = [links EXCEPT ![i] = m]
    BY <1>2 DEF OpenLink
  <2>2. j \in LinkViewers /\ j.from = happened /\ Stands(j.buffered) + j.dropped = 0 /\ j.buffered \in Seq(Frames) /\ j.dropped \in Nat
    BY JoinedIs DEF LinkViewers
  <2> HIDE DEF j
  <2>3. m \in LinkRecords /\ m.viewer = j /\ m.state = "open" /\ m.heard = l.heard
    BY <1>1, <2>2 DEF LinkRecords
  <2>4. l.heard = 0 /\ Stands(j.buffered) \in Nat
    BY <1>1, <2>1, <2>2, StandsFor DEF LinkOK
  <2> HIDE DEF m, l
  <2>5. LinkOK(m, happened)
    <3>1. happened - j.from = m.heard + Stands(j.buffered) + j.dropped
      BY <2>2, <2>3, <2>4
    <3> QED
      BY <2>2, <2>3, <3>1 DEF LinkOK
  <2> QED
    BY <2>1, <2>5, LinkChanged
<1>3. CASE BreakLink(i)
  <2>1. links' = [links EXCEPT ![i].state = "closing", ![i].viewer.open = FALSE]
    BY <1>3 DEF BreakLink
  <2> QED
    BY <2>1, EndsLink
<1>4. CASE HearEnd(i)
  <2> DEFINE m == [l EXCEPT !.state = "closed"]
  <2>1. links' = [links EXCEPT ![i] = m]
    BY <1>4 DEF HearEnd
  <2>2. m \in LinkRecords /\ m.viewer = l.viewer /\ m.state = "closed"
    BY <1>1 DEF LinkRecords
  <2> HIDE DEF m, l
  <2>3. LinkOK(m, happened)
    BY <1>1, <2>2 DEF LinkOK
  <2> QED
    BY <2>1, <2>3, LinkChanged
<1>5. CASE ReadLink(i)
  <2> DEFINE b == l.viewer.buffered
             v == [l.viewer EXCEPT !.buffered = Tail(b)]
             c == l.heard + Worth(Head(b))
             m == [l EXCEPT !.viewer = v, !.heard = c]
  <2>1. b # <<>> /\ links' = [links EXCEPT ![i].viewer.buffered = Tail(@), ![i].heard = @ + Worth(Head(b))]
    BY <1>5 DEF ReadLink
  <2>2. links' = [links EXCEPT ![i] = m]
    <3>1. DOMAIN links = 1..Len(links)
      BY DEF LinksInv
    <3>2. [links[i] EXCEPT !.viewer.buffered = Tail(@), !.heard = @ + Worth(Head(b))] = m
      BY <1>1 DEF LinkRecords
    <3> QED
      BY <2>1, <3>1, <3>2
  <2>3. b \in Seq(Frames) /\ l.viewer.dropped \in Nat
    BY <1>1 DEF LinkViewers
  <2>4. /\ Tail(b) \in Seq(Frames) /\ Stands(b) = Worth(Head(b)) + Stands(Tail(b)) /\ Worth(Head(b)) \in Nat /\ Stands(Tail(b)) \in Nat
    BY <2>1, <2>3, StandsLess
  <2>5. v \in LinkViewers /\ v.from = l.viewer.from /\ v.buffered = Tail(b) /\ v.dropped = l.viewer.dropped /\ v.open = l.viewer.open
    BY <1>1, <2>4 DEF LinkViewers
  <2> HIDE DEF v
  <2>6. c \in Nat
    BY <1>1, <2>4
  <2>7. m \in LinkRecords /\ m.viewer = v /\ m.heard = c /\ m.state = l.state
    BY <1>1, <2>5, <2>6 DEF LinkRecords
  <2>8. l.state = "open"
    BY <1>5 DEF ReadLink
  <2> HIDE DEF m
  <2>9. LinkOK(m, happened)
    <3>1. m.viewer.open => happened - v.from = c + Stands(v.buffered) + v.dropped
      <4>1. l.viewer.open => happened - l.viewer.from = l.heard + Stands(b) + l.viewer.dropped
        BY <1>1, <2>8 DEF LinkOK
      <4> QED
        BY <1>1, <2>3, <2>4, <2>5, <2>7, <4>1
    <3> QED
      BY <1>1, <2>5, <2>7, <2>8, <3>1 DEF LinkOK
  <2> QED
    BY <2>2, <2>9, LinkChanged
<1> QED
  BY <1>2, <1>3, <1>4, <1>5

LEMMA AnnounceLinks == ASSUME LinksInv, happened \in Nat, now \in Nat, Announce PROVE LinksInv'
<1> DEFINE n == happened + 1
           fed(l) == [l EXCEPT !.viewer = WsFed(@, n, now)]
<1>1. /\ part = "remote" /\ part' = part /\ happened' = n
      /\ links' = [i \in DOMAIN links |-> IF links[i].state = "open" THEN fed(links[i]) ELSE links[i]]
  BY DEF Announce
<1>2. links \in Seq(LinkRecords) /\ \A i \in DOMAIN links : LinkOK(links[i], happened)
  BY DEF LinksInv
<1>3. ASSUME NEW l, LinkOK(l, happened), l.state # "open" PROVE LinkOK(l, n)
  <2>1. l.viewer.from \in Nat /\ l.viewer.from <= happened
    BY <1>3 DEF LinkOK, LinkRecords, LinkViewers
  <2>2. l.viewer.from <= n
    BY <2>1
  <2> QED
    BY <1>3, <2>2 DEF LinkOK
<1>4. ASSUME NEW l, LinkOK(l, happened), l.state = "open" PROVE LinkOK(fed(l), n)
  <2> DEFINE w == l.viewer
             v == WsFed(w, n, now)
             m == fed(l)
  <2>1. l \in LinkRecords /\ w \in LinkViewers /\ l.heard \in Nat /\ w.from \in Nat /\ w.from <= happened /\ n \in Nat
    BY <1>4 DEF LinkOK, LinkRecords, LinkViewers
  <2>2. WsFedRight(w, v) /\ (~w.open => v = w)
    BY <2>1, WsFedIs
  <2>3. m = [l EXCEPT !.viewer = v]
    OBVIOUS
  <2>0. w.open => happened - w.from = l.heard + Stands(w.buffered) + w.dropped
    BY <1>4 DEF LinkOK
  <2> HIDE DEF v, m, n
  <2>4. v \in LinkViewers /\ v.from = w.from /\ (w.open /\ v.open => Stands(v.buffered) + v.dropped = Stands(w.buffered) + w.dropped + 1)
    BY <2>2 DEF WsFedRight
  <2>5. m \in LinkRecords /\ m.viewer = v /\ m.heard = l.heard /\ m.state = "open"
    BY <1>4, <2>1, <2>3, <2>4 DEF LinkRecords
  <2>6. v.open => w.open
    BY <2>1, <2>2 DEF LinkViewers
  <2>7. /\ w.buffered \in Seq(Frames) /\ v.buffered \in Seq(Frames) /\ w.dropped \in Nat /\ v.dropped \in Nat
    BY <2>1, <2>4 DEF LinkViewers
  <2>8. Stands(w.buffered) \in Nat /\ Stands(v.buffered) \in Nat
    BY <2>7, StandsFor
  <2>9. v.open => n - v.from = m.heard + Stands(v.buffered) + v.dropped
    <3> SUFFICES ASSUME v.open PROVE n - v.from = m.heard + Stands(v.buffered) + v.dropped
      OBVIOUS
    <3>1. /\ happened - w.from = l.heard + Stands(w.buffered) + w.dropped
          /\ Stands(v.buffered) + v.dropped = Stands(w.buffered) + w.dropped + 1
      BY <2>0, <2>4, <2>6
    <3>2. n - w.from = l.heard + Stands(v.buffered) + v.dropped
      <4> DEFINE a == Stands(w.buffered)
                 b == w.dropped
                 c == Stands(v.buffered)
                 d == v.dropped
                 f == w.from
                 k == l.heard
      <4>1. a \in Nat /\ b \in Nat /\ c \in Nat /\ d \in Nat /\ f \in Nat /\ k \in Nat
        BY <2>1, <2>7, <2>8
      <4>2. happened - f = k + a + b /\ c + d = a + b + 1
        BY <3>1
      <4> HIDE DEF a, b, c, d, f, k
      <4>3. (happened + 1) - f = k + c + d
        BY <4>1, <4>2
      <4> QED
        BY <4>3 DEF n, c, d, f, k
    <3> QED
      BY <2>4, <2>5, <3>2
  <2>10. v.from <= n
    BY <2>1, <2>4 DEF n
  <2>11. LinkOK(m, n)
    BY <2>5, <2>9, <2>10 DEF LinkOK
  <2> QED
    BY <2>11 DEF m
<1> HIDE DEF fed
<1>5. \A i \in DOMAIN links : LinkOK(IF links[i].state = "open" THEN fed(links[i]) ELSE links[i], n)
  BY <1>2, <1>3, <1>4
<1>6. /\ DOMAIN links' = DOMAIN links /\ DOMAIN links = 1..Len(links) /\ Len(links) \in Nat
      /\ \A i \in DOMAIN links : LinkOK(links'[i], n)
  BY <1>1, <1>2, <1>5
<1>7. links' \in Seq(LinkRecords)
  <2>1. \A i \in 1..Len(links) : links'[i] \in LinkRecords
    BY <1>6 DEF LinkOK
  <2>2. links' \in [1..Len(links) -> LinkRecords]
    BY <1>1, <1>6, <2>1
  <2> QED
    BY <1>6, <2>2
<1> QED
  BY <1>1, <1>6, <1>7 DEF LinksInv

(* Nothing else touches what viewers and the page are shown. *)
Aside == UNCHANGED <<part, happened, remoteVars, feedVars>> /\ (now' = now \/ now' = now + 1)

LEMMA ViewersAct == [Next]_vars => Aside \/ RemoteNext \/ FeedNext
<1> SUFFICES ASSUME [Next]_vars PROVE Aside \/ RemoteNext \/ FeedNext
  OBVIOUS
<1>1. CASE HeldNext
  BY <1>1, Zenon DEF HeldNext, Ask, Execute, PassOn, Wake, Drain, Leave, Turns, OnlyHeld, Steady, Aside
<1>2. CASE DoorNext
  BY <1>2, Zenon DEF DoorNext, Knock, Decide, Present, OnlyDoor, Steady, Aside
<1>3. CASE FiltersNext
  <2>1. OnlyFilters /\ (Moved \/ Broke \/ Steady)
    BY <1>3, FiltersMove, Zenon
  <2> QED
    BY <2>1, Zenon DEF OnlyFilters, Moved, Broke, Steady, Aside
<1>4. CASE Advance \/ UNCHANGED vars
  BY <1>4, Zenon DEF Advance, Tick, vars, Aside
<1> QED
  BY <1>1, <1>2, <1>3, <1>4, Zenon DEF Next

ShownInv == FeedInv /\ LinksInv

LEMMA AsideShows == ASSUME ShownInv, Aside PROVE ShownInv'
<1>1. /\ part' = part /\ happened' = happened /\ links' = links /\ remote' = remote
      /\ streams' = streams /\ subscribed' = subscribed /\ page' = page /\ at' = at /\ heard' = heard
      /\ lost' = lost /\ raced' = raced /\ unmatched' = unmatched
  BY DEF Aside, remoteVars, feedVars
<1>2. now' \in Nat
  BY DEF ShownInv, FeedInv, Aside
<1>3. FeedInv'
  BY <1>1, <1>2 DEF ShownInv, FeedInv
<1>4. LinksInv'
  BY <1>1 DEF ShownInv, LinksInv
<1> QED
  BY <1>3, <1>4 DEF ShownInv

LEMMA FeedShows == ASSUME ShownInv, FeedNext PROVE ShownInv'
<1>1. part = "feed" /\ part' = part /\ links' = links /\ remote' = remote
  <2>1. OnlyFeed
    BY Zenon DEF FeedNext, Happen, Request, Diagnose, Break, End, Hear, Retry, FinishPass, Pause, Search,
                Dismiss, Forget, Serve, Apply, Cut, OnlyPage
  <2>2. part = "feed" /\ part' = part
    BY Zenon DEF FeedNext, Happen, Request, Diagnose, Break, End, Hear, Retry, FinishPass, Pause, Search,
                Dismiss, Forget, Serve, Apply, Moved, Broke, Steady
  <2> QED
    BY <2>1, <2>2 DEF OnlyFeed, remoteVars
<1>2. FeedInv'
  BY FeedNextFeeds DEF ShownInv
<1>3. links = <<>> /\ ~remote.retry /\ links \in Seq(LinkRecords)
  BY <1>1 DEF ShownInv, LinksInv
<1>4. LinksInv'
  BY <1>1, <1>3 DEF LinksInv
<1> QED
  BY <1>2, <1>4 DEF ShownInv

LEMMA RemoteShows == ASSUME ShownInv, RemoteNext PROVE ShownInv'
<1>1. LinksInv /\ FeedInv /\ happened \in Nat /\ now \in Nat
  BY DEF ShownInv, FeedInv
<1>2. part = "remote"
  <2>1. CASE Redial
    BY <1>1, <2>1 DEF Redial, LinksInv
  <2>2. ASSUME NEW i \in DOMAIN links PROVE part = "remote"
    BY <1>1, <2>2 DEF LinksInv
  <2> QED
    BY <2>1, <2>2, Zenon DEF RemoteNext, Watch, Unwatch, CloseSource, Announce
<1>3. OnlyRemote /\ part' = part /\ now' = now
  BY Zenon DEF RemoteNext, Watch, Unwatch, CloseSource, Redial, Announce, OpenLink, BreakLink, HearEnd, ReadLink,
              Moved, Broke, Steady
<1>4. FeedInv'
  <2>1. streams = <<>> /\ streams' = streams /\ subscribed' = subscribed /\ heard' = heard
    BY <1>1, <1>2, <1>3 DEF FeedInv, OnlyRemote, feedVars
  <2>2. happened' = happened \/ happened' = happened + 1
    BY Zenon DEF RemoteNext, Watch, Unwatch, CloseSource, Redial, Announce, OpenLink, BreakLink, HearEnd, ReadLink,
                Moved, Broke, Steady
  <2>3. happened' \in Nat
    BY <1>1, <2>2
  <2>4. StreamsOK(streams', happened', heard', subscribed')
    BY <1>1, <2>1 DEF FeedInv, StreamsOK
  <2> QED
    BY <1>1, <1>2, <1>3, <2>1, <2>3, <2>4 DEF FeedInv
<1>5. CASE Announce
  <2>1. LinksInv'
    BY <1>1, <1>5, AnnounceLinks
  <2> QED
    BY <1>4, <2>1 DEF ShownInv
<1>6. CASE Watch \/ Unwatch \/ CloseSource \/ Redial
  <2>1. happened' = happened
    BY <1>6, Zenon DEF Watch, Unwatch, CloseSource, Redial, Moved, Steady
  <2>2. \/ \E r : Dialled(r)
        \/ \E r : HungUp(r)
        \/ links' = links
    <3>1. CASE Watch
      BY <3>1, Zenon DEF Watch
    <3>2. CASE Unwatch
      BY <3>2, Zenon DEF Unwatch
    <3>3. CASE CloseSource
      BY <3>3, Zenon DEF CloseSource
    <3>4. CASE Redial
      BY <3>4, Zenon DEF Redial
    <3> QED
      BY <1>6, <3>1, <3>2, <3>3, <3>4
  <2>3. LinksInv'
    <3>1. ASSUME NEW r, Dialled(r) PROVE LinksInv'
      BY <1>1, <1>2, <1>3, <2>1, <3>1, DialledLinks
    <3>2. ASSUME NEW r, HungUp(r) PROVE LinksInv'
      BY <1>1, <1>2, <1>3, <2>1, <3>2, HungUpLinks
    <3>3. CASE links' = links
      BY <1>1, <1>2, <1>3, <2>1, <3>3 DEF LinksInv
    <3> QED
      BY <2>2, <3>1, <3>2, <3>3
  <2> QED
    BY <1>4, <2>3 DEF ShownInv
<1>7. ASSUME NEW i \in DOMAIN links, OpenLink(i) \/ BreakLink(i) \/ HearEnd(i) \/ ReadLink(i) PROVE ShownInv'
  <2>1. happened' = happened
    BY <1>7, Zenon DEF OpenLink, BreakLink, HearEnd, ReadLink, Broke, Steady
  <2>2. LinksInv'
    BY <1>1, <1>2, <1>3, <1>7, <2>1, LinkSteps
  <2> QED
    BY <1>4, <2>2 DEF ShownInv
<1> QED
  BY <1>5, <1>6, <1>7, Zenon DEF RemoteNext

LEMMA BlankIs == PageOK(Blank) /\ Blank.all = {} /\ Blank.rows = {} /\ \A list \in Lists : Blank.reads[list].at = "idle"
<1> DEFINE reads == [list \in Lists |-> Idle]
<1>1. reads \in [Lists -> Reads] /\ \A list \in Lists : reads[list].at = "idle"
  BY DEF Idle, Reads
<1> HIDE DEF reads
<1>2. /\ Blank \in Pages /\ Blank.all = {} /\ Blank.rows = {} /\ Blank.reads = reads
      /\ Blank.status = "off" /\ ~Blank.retry /\ ~Blank.again
  BY <1>1 DEF Blank, Pages, reads
<1> QED
  BY <1>1, <1>2 DEF PageOK

LEMMA ShownInitially == Init => ShownInv
<1> SUFFICES ASSUME Init PROVE ShownInv
  OBVIOUS
<1>1. /\ now = 1 /\ happened = 0 /\ links = <<>> /\ remote = [socket |-> 0, retry |-> FALSE, listeners |-> 0, closed |-> FALSE]
      /\ streams = <<>> /\ subscribed = FALSE /\ page = Connects(Refreshes(Blank)) /\ at = 0
      /\ heard = [i \in 1..MaxStreams |-> 0]
  BY DEF Init
<1>2. LinksInv
  BY <1>1 DEF LinksInv
<1>3. StreamsOK(streams, happened, heard, subscribed)
  BY <1>1 DEF StreamsOK
<1>4. Keeps(Blank, page)
  <2>1. Keeps(Blank, Refreshes(Blank))
    BY BlankIs, RefreshesKeeps
  <2>2. PageOK(Refreshes(Blank))
    BY <2>1 DEF Keeps
  <2>3. Keeps(Refreshes(Blank), page)
    BY <1>1, <2>2, ConnectsKeeps
  <2> QED
    BY <2>1, <2>3, KeepsThrough
<1>5. PageOK(page) /\ \A list \in Lists : Held(page, list) = {} /\ page.reads[list].at # "answered"
  BY <1>4, BlankIs DEF Keeps, Held
<1>6. \A list \in Lists : Newest(1..happened, Limit(list)) = {}
  BY <1>1 DEF Newest
<1>7. Whole(page, at, streams, happened, lost, raced, unmatched)
  BY <1>1, <1>5, <1>6 DEF Whole
<1>8. happened \in Nat /\ now \in Nat
  BY <1>1
<1>9. FeedInv
  BY <1>1, <1>3, <1>7, <1>8 DEF FeedInv
<1> QED
  BY <1>2, <1>9 DEF ShownInv

LEMMA ShownHolds == ShownInv => NothingGoesMissingUntold
<1> SUFFICES ASSUME ShownInv PROVE NothingGoesMissingUntold
  OBVIOUS
<1>1. ASSUME NEW i \in Viewers
      PROVE  Cardinality(Owed(i)) = heard[i] + Stands(streams[i].pipe) + streams[i].dropped + streams[i].skipped
  <2>1. StreamOK(streams[i], happened, heard[i]) /\ streams[i].open /\ heard[i] \in Nat
    BY DEF Viewers, ShownInv, FeedInv, StreamsOK
  <2>2. Owed(i) = OwedBy(streams[i].from, happened)
    BY DEF Owed, OwedBy
  <2>3. Stands(streams[i].pipe) \in Nat /\ streams[i].dropped \in Nat /\ streams[i].skipped \in Nat
    BY <2>1, StandsFor DEF StreamOK, StreamRecords
  <2>4. Cardinality(Owed(i)) = heard[i] + (Stands(streams[i].pipe) + streams[i].dropped + streams[i].skipped)
    BY <2>1, <2>2 DEF StreamOK, Pending
  <2> QED
    BY <2>1, <2>3, <2>4
<1>2. ASSUME NEW i \in DOMAIN links, links[i].state = "open", links[i].viewer.open
      PROVE  happened - links[i].viewer.from =
               links[i].heard + Stands(links[i].viewer.buffered) + links[i].viewer.dropped
  BY <1>2 DEF ShownInv, LinksInv, LinkOK
<1>3. ASSUME part = "feed", CaughtUp, NEW list \in Lists, NEW n \in Missing(list)
      PROVE  \/ n \in raced[list] \cup Muted
             \/ n \in lost /\ Told
             \/ list = "rows" /\ n \in unmatched
  <2>1. Whole(page, at, streams, happened, lost, raced, unmatched) /\ StreamsOK(streams, happened, heard, subscribed)
    BY <1>3 DEF ShownInv, FeedInv
  <2>2. n \in Newest(1..happened, Limit(list)) /\ n \notin Held(page, list)
    BY DEF Missing, Held
  <2>3. Covered(page, at, streams, lost, raced, unmatched, list, n)
    BY <2>1, <2>2 DEF Whole
  <2>4. ~Reloading(page, list)
    <3>1. PageOK(page) /\ page.status = "live" /\ ~page.loading /\ page.failed = {}
      BY <1>3, <2>1 DEF Whole, CaughtUp
    <3> QED
      BY <3>1 DEF PageOK, Reloading
  <2>5. ~Brings(streams[at], n, lost)
    <3>1. streams[at].open /\ streams[at].pipe = <<>> /\ streams[at].dropped + streams[at].skipped = 0
      BY <1>3 DEF CaughtUp
    <3>2. DOMAIN streams[at].pipe = {}
      BY <3>1
    <3> QED
      BY <3>1, <3>2 DEF Brings, Carries, Telling
  <2> QED
    BY <2>2, <2>3, <2>4, <2>5 DEF Covered, Told, ToldBy
<1> QED
  BY <1>1, <1>2, <1>3 DEF NothingGoesMissingUntold

(* Nothing goes missing untold: of every incident since it came a viewer, of    *)
(* the dashboard (dashboard/server.ts) or of the management API                 *)
(* (management/server.ts), was sent it, is being sent it, or is owed the number  *)
(* of what was left out; and a page whose feed is live lacks nothing that its    *)
(* reloads and its frames could have told it (NothingGoesMissingUntold), for     *)
(* any number of viewers, of incidents, and every bound on buffers and rates.    *)
THEOREM NothingGoesMissing == Spec => []NothingGoesMissingUntold
<1>1. Init => ShownInv
  BY ShownInitially
<1>2. ShownInv /\ [Next]_vars => ShownInv'
  BY ViewersAct, AsideShows, RemoteShows, FeedShows
<1>3. ShownInv => NothingGoesMissingUntold
  BY ShownHolds
<1> QED
  BY <1>1, <1>2, <1>3, PTL DEF Spec
=============================================================================
