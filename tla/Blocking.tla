------------------------------ MODULE Blocking ------------------------------
(* Which addresses are blocked until when, as values: the lists of           *)
(* blocklist.ts and what firewall.ts makes of a block. A list is a function  *)
(* from addresses to the time their block ends.                              *)
EXTENDS Naturals, FiniteSets

CONSTANTS
  MaxBlocked,     \* MemoryBlocklistOptions.maxEntries
  PerWindow, RateWindow   \* the rate limit of an enforcer

\* The list clamps its size, and the schema refuses a rate of none (blocklist.ts:35, schema.ts).
ASSUME BlockingAssumption ==
  MaxBlocked \in Nat \ {0} /\ PerWindow \in Nat \ {0} /\ RateWindow \in Nat \ {0}

Longer(a, b) == IF a < b THEN b ELSE a

\* evict(): the expired first; of the live, those that end soonest.
Evictions(list, at) ==
  LET live == [ip \in {x \in DOMAIN list : list[x] > at} |-> list[ip]]
  IN  IF Cardinality(DOMAIN live) < MaxBlocked THEN {live}
      ELSE {[ip \in kept |-> live[ip]] : kept \in
             {k \in SUBSET DOMAIN live : /\ Cardinality(k) = MaxBlocked - 1
                                        /\ \A out \in DOMAIN live \ k : \A ip \in k : live[out] <= live[ip]}}

\* The entry of an address set to a time.
Set(list, ip, until) == [x \in DOMAIN list \cup {ip} |-> IF x = ip THEN until ELSE list[x]]

\* What is left of a list when an address is to be entered.
RoomFor(list, ip, at) ==
  IF ip \notin DOMAIN list /\ Cardinality(DOMAIN list) >= MaxBlocked THEN Evictions(list, at) ELSE {list}

\* (Mutant.) A later block replaces the one before it.
MemoryReplaced(list, ip, until, at) == {Set(rest, ip, until) : rest \in RoomFor(list, ip, at)}

\* MemoryBlocklist.block(). Which of those that end together is shed is left open.
MemoryBlock(list, ip, until, at) ==
  {Set(rest, ip, Longer(IF ip \in DOMAIN rest THEN rest[ip] ELSE 0, until)) : rest \in RoomFor(list, ip, at)}

InForce(list, ip, at) == ip \in DOMAIN list /\ list[ip] > at

\* MemoryBlocklist.isBlocked() forgets a block that has ended; Redis does by itself.
Looked(list, ip, at) ==
  IF ip \in DOMAIN list /\ list[ip] <= at THEN [x \in DOMAIN list \ {ip} |-> list[x]] ELSE list

ActiveBlocks(list, at) == Cardinality({ip \in DOMAIN list : list[ip] > at})

\* RedisBlocklist.block(): SET with PX, whatever was left of the block before.
RedisBlock(list, ip, until, at) == IF until <= at THEN list ELSE Set(list, ip, until)

-----------------------------------------------------------------------------
(* rateLimiter(): a window starts with the first action after the last ended. *)

FreshLimit == [from |-> 0, count |-> 0]

Rolls(limit, at) == IF at - limit.from >= RateWindow THEN [from |-> at, count |-> 0] ELSE limit

Allows(limit, at) == Rolls(limit, at).count < PerWindow

Asked(limit, at) ==
  IF Allows(limit, at) THEN [Rolls(limit, at) EXCEPT !.count = @ + 1] ELSE Rolls(limit, at)

\* EnforcingBlocklist and the enforcers: an address, within the rate.
Enforces(limit, isAddress, at) == isAddress /\ Allows(limit, at)
=============================================================================
