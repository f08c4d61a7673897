----------------------------- MODULE MCSessions -----------------------------
(* Small instances of Sessions.                                              *)
EXTENDS Sessions

CONSTANTS c1, c2, c3

ThreeConns == {c1, c2, c3}

Setting(protocol, interactive, store, drop, faults, conns, patience) ==
  [protocol |-> protocol, interactive |-> interactive, store |-> store, drop |-> drop,
   faults |-> faults, conns |-> conns, patience |-> patience]

\* One client and its dialogue, without a store.
Dialogues ==
  {Setting("ftp", i, FALSE, 0, {}, {c1}, 5) : i \in BOOLEAN}
    \cup {Setting("telnet", i, FALSE, 0, {}, {c1}, 7) : i \in BOOLEAN}
    \cup {Setting("ssh", i, FALSE, 0, {}, {c1}, 6) : i \in BOOLEAN}
    \cup {Setting("smtp", FALSE, FALSE, 0, {}, {c1}, 7)}

\* Connections that say nothing, for two slots, with the gate and without.
Floods ==
  {Setting("telnet", FALSE, TRUE, 1, {}, ThreeConns, 0),
   Setting("ssh", FALSE, FALSE, 0, {}, ThreeConns, 0)}

Faults == {"onIncident", "record", "onHit", "gate"}

\* Two connections of an address around the gate and the store.
Stores ==
  {Setting("telnet", FALSE, TRUE, 1, Faults, {c1, c2}, 2), Setting("ssh", FALSE, TRUE, 1, Faults, {c1, c2}, 1)}

All == Dialogues \cup Floods \cup Stores
=============================================================================
