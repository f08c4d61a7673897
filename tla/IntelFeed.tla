------------------------------ MODULE IntelFeed ------------------------------
(***************************************************************************)
(* Reading a peer's feed of addresses and applying it (intel/ingest.ts).     *)
(*                                                                         *)
(* A URL is [scheme, host]. An answer is what a peer says to one request:   *)
(* a redirect, an error, or a list of lines, each an address, a comment or  *)
(* something else. A peer's script is the sequence of its answers, one for  *)
(* each hop. Which hop carries the API key is not modelled.                 *)
(***************************************************************************)
EXTENDS Integers, Sequences, FiniteSets

CONSTANTS Addresses,        \* texts that are addresses
          LoopbackHosts,
          MaxRedirects,
          MaxLines          \* lines that fit in the bytes read of a reply

Redirect(url) == [kind |-> "redirect", to |-> url, lines |-> <<>>]
Listing(lines) == [kind |-> "list", to |-> [scheme |-> "", host |-> ""], lines |-> lines]
NoAnswer == [kind |-> "error", to |-> [scheme |-> "", host |-> ""], lines |-> <<>>]

\* assertFeedUrlAllowed(): https, or plaintext to this host; asked of every hop.
FeedUrlAllowed(url) == url.scheme = "https" \/ url.host \in LoopbackHosts

\* The redirects a script begins with.
Hops(script) ==
  LET stops == {i \in DOMAIN script : script[i].kind # "redirect"}
  IN  IF stops = {} THEN Len(script) ELSE (CHOOSE i \in stops : \A j \in stops : i =< j) - 1

\* parseIps(): the lines that are addresses, in order, repeats and all.
ParseIps(lines) == SelectSeq(lines, LAMBDA line : line \in Addresses)

ReadCapped(lines) == SubSeq(lines, 1, IF Len(lines) < MaxLines THEN Len(lines) ELSE MaxLines)

\* What a fetch makes of a script: a list of addresses, or a failure.
Fetched(script, url) ==
  LET hops == Hops(script)
  IN  IF   /\ FeedUrlAllowed(url)
           /\ \A i \in 1 .. hops : FeedUrlAllowed(script[i].to)
           /\ hops =< MaxRedirects /\ hops < Len(script)
           /\ script[hops + 1].kind = "list"
      THEN [ok |-> TRUE, ips |-> ParseIps(ReadCapped(script[hops + 1].lines))]
      ELSE [ok |-> FALSE, ips |-> <<>>]

\* applyIocEntries(): each address once, none that is allowlisted, no more than the cap.
Eligible(ips, allowlist) ==
  {i \in DOMAIN ips : ips[i] \in Addresses \ allowlist /\ \A j \in 1 .. i - 1 : ips[j] # ips[i]}

ApplyIocEntries(ips, allowlist, maxEntries) ==
  LET eligible == Eligible(ips, allowlist)
  IN  {ips[i] : i \in {k \in eligible : Cardinality({j \in eligible : j < k}) < maxEntries}}
=============================================================================
