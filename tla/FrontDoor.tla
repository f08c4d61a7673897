------------------------------ MODULE FrontDoor ------------------------------
(***************************************************************************)
(* What the honeypot promises the application it sits in front of, with no  *)
(* passes, no detectors and no configuration: every request gets one        *)
(* verdict that never changes; an address is blocked only once something of *)
(* it was proven, and only a blocked address is refused; and the honeypot   *)
(* answers only requests it has reported.                                   *)
(***************************************************************************)
CONSTANTS Requests, Ips, IpOf

VARIABLES verdict, reported, proven, blocked

vars == <<verdict, reported, proven, blocked>>

Init ==
  /\ verdict  = [r \in Requests |-> "none"]
  /\ reported = {}
  /\ proven   = {}
  /\ blocked  = {}

Prove(r) ==
  /\ proven' = proven \cup {IpOf[r]}
  /\ UNCHANGED <<verdict, reported, blocked>>

Report(r) ==
  /\ verdict[r] = "none"
  /\ reported' = reported \cup {r}
  /\ UNCHANGED <<verdict, proven, blocked>>

Refuse(r) ==
  /\ verdict[r] = "none"
  /\ IpOf[r] \in blocked
  /\ verdict' = [verdict EXCEPT ![r] = "refused"]
  /\ UNCHANGED <<reported, proven, blocked>>

\* next(), or next(err).
Pass(r) ==
  /\ verdict[r] = "none"
  /\ \E v \in {"app", "error"} : verdict' = [verdict EXCEPT ![r] = v]
  /\ UNCHANGED <<reported, proven, blocked>>

Answer(r) ==
  /\ verdict[r] = "none"
  /\ r \in reported
  /\ verdict' = [verdict EXCEPT ![r] = "honeypot"]
  /\ \/ UNCHANGED blocked
     \/ IpOf[r] \in proven /\ blocked' = blocked \cup {IpOf[r]}
  /\ UNCHANGED <<reported, proven>>

Expire(ip) ==
  /\ blocked' = blocked \ {ip}
  /\ UNCHANGED <<verdict, reported, proven>>

Next ==
  \/ \E r \in Requests : Prove(r) \/ Report(r) \/ Refuse(r) \/ Pass(r) \/ Answer(r)
  \/ \E ip \in Ips : Expire(ip)

Spec == Init /\ [][Next]_vars
=============================================================================
