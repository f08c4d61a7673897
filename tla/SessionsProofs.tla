--------------------------- MODULE SessionsProofs ---------------------------
(***************************************************************************)
(* The protocol honeypots, for any connections, any settings, any limits and *)
(* any lines: the slots they hold, what each of the four dialogues tells, and *)
(* the hits that follow.                                                     *)
(***************************************************************************)
EXTENDS Sessions, DataTheorems

----------------------------------------------------------------------------
(* The slots. *)

\* What a slot count needs: a connection that has not arrived has neither a
\* socket nor a close event to come.
SlotInv ==
  /\ slots \in Nat
  /\ stage \in [Conns -> Stages]
  /\ DOMAIN socket = Conns
  /\ gone \subseteq Conns
  /\ \A c \in Conns : stage[c] = "none" => socket[c] = "none" /\ c \notin gone
  /\ SlotsAreHeld

(* The slots held can be counted. *)
LEMMA HoldersAreFinite == IsFiniteSet(Holders)
BY SessionsAssumption, FS_Subset DEF Holders

\* No connection holds a slot at the start.
LEMMA SlotInit == Init => SlotInv
<1> SUFFICES ASSUME Init PROVE SlotInv
  OBVIOUS
<1>1. Holders = {}
  BY DEF Init, Holders, HasSlot
<1>2. Cardinality(Holders) = 0
  BY <1>1, FS_EmptySet
<1> QED
  BY <1>2, SessionsAssumption DEF Init, SlotInv, SlotsAreHeld, Stages

(* Admitting a connection takes one slot. *)
LEMMA AdmitTakes ==
  ASSUME SlotInv, NEW c \in Conns, Admit(c)
  PROVE  /\ SlotInv'
         /\ c \notin Holders /\ Holders' = Holders \cup {c} /\ Refused' = Refused
<1>1. stage' = [stage EXCEPT ![c] = stage'[c]] /\ stage'[c] \in {"gate", "greeted"}
  BY DEF Admit, SlotInv
<1>2. c \notin gone /\ stage[c] = "none" /\ gone' = gone
  BY DEF Admit, Arrives, SlotInv
<1>3. c \notin Holders /\ Holders' = Holders \cup {c}
  BY <1>1, <1>2 DEF Holders, HasSlot, SlotInv
<1>4. Refused' = Refused
  BY <1>1, <1>2 DEF Refused, SlotInv
<1>5. Cardinality(Holders') = Cardinality(Holders) + 1
  BY <1>3, HoldersAreFinite, FS_AddElement
<1>6. SlotsAreHeld' /\ slots' \in Nat
  BY <1>5, SessionsAssumption DEF SlotsAreHeld, Admit, SlotInv
<1> QED
  BY <1>1, <1>2, <1>3, <1>4, <1>6 DEF SlotInv, Admit, Stages

(* Its close event gives one back, if it took one. *)
LEMMA ClosesGives ==
  ASSUME SlotInv, NEW c \in Conns, Closes(c)
  PROVE  /\ SlotInv' /\ Refused' = Refused
         /\ Holders' = Holders \ {c}
<1>1. gone' = gone \cup {c} /\ stage' = stage /\ socket' = socket
  BY DEF Closes
<1>2. Holders' = Holders \ {c} /\ Refused' = Refused
  BY <1>1 DEF Holders, HasSlot, Refused
<1>3. IsFiniteSet(Holders) /\ Cardinality(Holders) \in Nat
  BY HoldersAreFinite, FS_CardinalityType
<1>4. SlotsAreHeld' /\ slots' \in Nat
  <2>1. CASE HasSlot(c)
    <3>1. c \in Holders /\ slots' = slots - 1
      BY <2>1 DEF Holders, Closes, One
    <3>2. Cardinality(Holders') = Cardinality(Holders) - 1
      BY <3>1, <1>2, <1>3, FS_RemoveElement
    <3>3. Cardinality(Holders') \in Nat
      BY <1>2, <1>3, FS_RemoveElement, FS_CardinalityType
    <3> QED
      BY <3>1, <3>2, <3>3, SessionsAssumption DEF SlotsAreHeld, SlotInv
  <2>2. CASE ~HasSlot(c)
    <3>1. c \notin Holders /\ slots' = slots
      BY <2>2 DEF Holders, Closes, One, SlotInv
    <3> QED
      BY <3>1, <1>2 DEF SlotsAreHeld, SlotInv
  <2> QED
    BY <2>1, <2>2
<1>5. stage[c] # "none"
  BY DEF Closes, SlotInv
<1> QED
  BY <1>1, <1>2, <1>4, <1>5 DEF SlotInv

(* Turning a connection away takes no slot. *)
LEMMA RefuseLeaves ==
  ASSUME SlotInv, NEW c \in Conns, Refuse(c)
  PROVE  /\ SlotInv' /\ Holders' = Holders /\ c \notin Holders
         /\ Refused' = Refused \cup {c}
<1>1. stage' = [stage EXCEPT ![c] = "refused"] /\ gone' = gone /\ slots' = slots
  BY DEF Refuse
<1>2. stage[c] = "none" /\ stage \in [Conns -> Stages]
  BY DEF Refuse, Arrives, SlotInv
<1>3. Holders' = Holders /\ c \notin Holders
  BY <1>1, <1>2 DEF Holders, HasSlot
<1>4. Refused' = Refused \cup {c}
  BY <1>1, <1>2 DEF Refused
<1> QED
  BY <1>1, <1>2, <1>3, <1>4 DEF SlotInv, SlotsAreHeld, Refuse, Stages

(* Every other step leaves slots to whom they belong. *)
LEMMA OthersLeave ==
  ASSUME SlotInv, [Next]_vars,
         ~ \E c \in Conns : Admit(c) \/ Closes(c) \/ Refuse(c)
  PROVE  SlotInv' /\ Holders' = Holders /\ Refused' = Refused
<1>1. ASSUME NEW c \in Conns, Exempt(c)
      PROVE  SlotInv' /\ Holders' = Holders /\ Refused' = Refused
  <2>1. stage[c] = "none" /\ stage' = [stage EXCEPT ![c] = "exempt"] /\ gone' = gone
        /\ stage \in [Conns -> Stages]
    BY <1>1 DEF Exempt, Arrives, SlotInv
  <2>2. Holders' = Holders /\ Refused' = Refused
    BY <2>1 DEF Holders, HasSlot, Refused
  <2> QED
    BY <1>1, <2>1, <2>2 DEF Exempt, SlotInv, SlotsAreHeld, Stages
<1>2. ASSUME NEW c \in Conns, GateAnswers(c)
      PROVE  SlotInv' /\ Holders' = Holders /\ Refused' = Refused
  <2>1. /\ stage[c] = "gate" /\ gone' = gone /\ stage \in [Conns -> Stages]
        /\ stage' = [stage EXCEPT ![c] = stage'[c]]
        /\ stage'[c] \in {"dropped", "missed", "greeted"}
    BY <1>2 DEF GateAnswers, SlotInv
  <2>2. Holders' = Holders
    BY <2>1 DEF Holders, HasSlot
  <2>3. Refused' = Refused
    BY <2>1 DEF Refused
  <2> QED
    BY <1>2, <2>1, <2>2, <2>3 DEF GateAnswers, SlotInv, SlotsAreHeld, Stages
<1>3. ASSUME UNCHANGED <<slots, stage, gone>>, DOMAIN socket' = Conns,
             \A c \in Conns : stage[c] = "none" => socket'[c] = socket[c]
      PROVE  SlotInv' /\ Holders' = Holders /\ Refused' = Refused
  BY <1>3 DEF SlotInv, SlotsAreHeld, Holders, HasSlot, Refused
<1>4. ASSUME NEW c \in Conns, Data(c) \/ PeerCloses(c) \/ Expire(c)
      PROVE  SlotInv' /\ Holders' = Holders /\ Refused' = Refused
  <2>1. UNCHANGED <<slots, stage, gone>> /\ stage[c] # "none"
    BY <1>4 DEF Data, PeerCloses, Expire, Flowing, SlotInv
  <2>2. PICK v : socket' = [socket EXCEPT ![c] = v]
    <3>1. CASE Data(c)
      BY <3>1 DEF Data
    <3>2. CASE PeerCloses(c) \/ Expire(c)
      BY <3>2 DEF PeerCloses, Expire
    <3> QED
      BY <1>4, <3>1, <3>2
  <2> QED
    BY <2>1, <2>2, <1>3 DEF SlotInv
<1>5. ASSUME Close PROVE SlotInv' /\ Holders' = Holders /\ Refused' = Refused
  <2>1. /\ UNCHANGED <<slots, stage, gone>>
        /\ socket' = [c \in Conns |-> IF Flowing(c) THEN Dropped ELSE socket[c]]
    BY <1>5 DEF Close
  <2>2. \A c \in Conns : stage[c] = "none" => ~Flowing(c)
    BY DEF Flowing, SlotInv
  <2> QED
    BY <2>1, <2>2, <1>3
<1>6. ASSUME UNCHANGED <<slots, stage, gone, socket>>
      PROVE  SlotInv' /\ Holders' = Holders /\ Refused' = Refused
  BY <1>3, <1>6 DEF SlotInv
<1>7. ASSUME NEW c \in Conns, GateReads(c) \/ GateFails(c)
      PROVE  UNCHANGED <<slots, stage, gone, socket>>
  BY <1>7 DEF GateReads, GateFails
<1>8. ASSUME NEW j \in DOMAIN jobs, JobStep(j)
      PROVE  UNCHANGED <<slots, stage, gone, socket>>
  BY <1>8 DEF JobStep, JobReads, JobRecords, JobPublishes, JobFails
<1>9. ASSUME Closed \/ UNCHANGED vars
      PROVE  UNCHANGED <<slots, stage, gone, socket>>
  BY <1>9 DEF Closed, vars
<1> QED
  BY <1>1, <1>2, <1>4, <1>5, <1>6, <1>7, <1>8, <1>9 DEF Next

\* No step of the listener loses or doubles a slot.
LEMMA SlotNext == SlotInv /\ [Next]_vars => SlotInv'
<1> SUFFICES ASSUME SlotInv, [Next]_vars PROVE SlotInv'
  OBVIOUS
<1> QED
  BY AdmitTakes, ClosesGives, RefuseLeaves, OthersLeave

(* On every path through the gate, the caps and close(), a connection that   *)
(* took a slot gives it back with its close event and only then: the number   *)
(* in activeConnections is that of the connections that hold one.             *)
THEOREM NoSlotIsLost == Spec => []SlotsAreHeld
<1>1. SlotInv => SlotsAreHeld
  BY DEF SlotInv
<1> QED
  BY <1>1, SlotInit, SlotNext, PTL DEF Spec

(* The listener is a cap in the sense of Slots: it never holds more than      *)
(* MaxConnections and turns nobody away while one of them is free.            *)
THEOREM CapIsKept == Spec => ImplementsSlots
<1>1. Init => SlotsSpec!Init
  BY DEF Init, SlotsSpec!Init, Holders, HasSlot, Refused
<1>2. SlotInv /\ [Next]_vars => [SlotsSpec!Next]_<<Holders, Refused>>
  <2> SUFFICES ASSUME SlotInv, [Next]_vars
               PROVE  [SlotsSpec!Next]_<<Holders, Refused>>
    OBVIOUS
  <2>0. slots = Cardinality(Holders)
    BY DEF SlotInv, SlotsAreHeld
  <2>1. ASSUME NEW c \in Conns, Admit(c)
        PROVE  SlotsSpec!Acquire(c)
    <3>1. c \notin Holders /\ Holders' = Holders \cup {c} /\ Refused' = Refused
      BY <2>1, AdmitTakes
    <3>2. Cardinality(Holders) < MaxConnections
      BY <2>0, <2>1 DEF Admit
    <3> QED
      BY <3>1, <3>2 DEF SlotsSpec!Acquire, SlotsSpec!Cardinality, Cardinality
  <2>2. ASSUME NEW c \in Conns, Refuse(c)
        PROVE  SlotsSpec!TurnAway(c)
    <3>1. c \notin Holders /\ Holders' = Holders /\ Refused' = Refused \cup {c}
      BY <2>2, RefuseLeaves
    <3>2. Cardinality(Holders) >= MaxConnections
      BY <2>0, <2>2 DEF Refuse
    <3> QED
      BY <3>1, <3>2 DEF SlotsSpec!TurnAway, SlotsSpec!Cardinality, Cardinality
  <2>3. ASSUME NEW c \in Conns, Closes(c)
        PROVE  SlotsSpec!Release(c) \/ UNCHANGED <<Holders, Refused>>
    <3>1. Holders' = Holders \ {c} /\ Refused' = Refused
      BY <2>3, ClosesGives
    <3> QED
      BY <3>1 DEF SlotsSpec!Release
  <2> QED
    BY <2>1, <2>2, <2>3, OthersLeave DEF SlotsSpec!Next
<1> QED
  BY <1>1, <1>2, SlotInit, SlotNext, PTL DEF Spec, ImplementsSlots, SlotsSpec!Spec, SlotsSpec!vars

(* After close() no connection of a TCP honeypot is live again, whatever       *)
(* answers, data and timers were still to come.                                *)
THEOREM CloseIsFinal == Spec => []NobodyHoldsClose
<1>1. Init => NobodyHoldsClose
  BY DEF Init, NobodyHoldsClose
<1>2. SlotInv /\ NobodyHoldsClose /\ [Next]_vars => NobodyHoldsClose'
  <2> SUFFICES ASSUME SlotInv, NobodyHoldsClose, [Next]_vars PROVE NobodyHoldsClose'
    OBVIOUS
  <2>0. setting' = setting
    BY DEF Next, vars, Exempt, Refuse, Admit, GateReads, GateAnswers, GateFails, Data,
           PeerCloses, Expire, Closes, JobStep, JobReads, JobRecords, JobPublishes, JobFails,
           Close, Closed
  <2>1. ASSUME NEW c \in Conns, Exempt(c) \/ Refuse(c) \/ Admit(c)
        PROVE  listener' = "listening"
    BY <2>1 DEF Exempt, Refuse, Admit, Arrives
  <2>2. ASSUME NEW c \in Conns, Data(c) \/ PeerCloses(c) \/ Expire(c)
        PROVE  NobodyHoldsClose'
    <3>1. Flowing(c) /\ listener' = listener
      BY <2>2 DEF Data, PeerCloses, Expire
    <3> QED
      BY <2>0, <3>1 DEF NobodyHoldsClose, Ssh
  <2>3. ASSUME NEW c \in Conns, GateAnswers(c)
        PROVE  NobodyHoldsClose'
    <3>1. /\ listener' = listener
          /\ socket' = socket \/ socket' = [socket EXCEPT ![c] = IF Flowing(c) THEN Dropped ELSE @]
      BY <2>3 DEF GateAnswers
    <3> QED
      BY <2>0, <3>1 DEF NobodyHoldsClose, Flowing, Dropped, Ssh, SlotInv
  <2>4. CASE Close
    BY <2>0, <2>4 DEF Close, NobodyHoldsClose, Flowing, Dropped, Ssh
  <2>5. ASSUME UNCHANGED socket, listener' = listener \/ listener # "listening"
        PROVE  NobodyHoldsClose'
    BY <2>0, <2>5 DEF NobodyHoldsClose, Flowing, Ssh
  <2>6. ASSUME NEW c \in Conns, GateReads(c) \/ GateFails(c) \/ Closes(c)
        PROVE  UNCHANGED <<socket, listener>>
    BY <2>6 DEF GateReads, GateFails, Closes
  <2>7. ASSUME NEW j \in DOMAIN jobs, JobStep(j)
        PROVE  UNCHANGED <<socket, listener>>
    BY <2>7 DEF JobStep, JobReads, JobRecords, JobPublishes, JobFails
  <2>8. CASE Closed \/ UNCHANGED vars
    BY <2>5, <2>8 DEF Closed, vars
  <2> QED
    BY <2>1, <2>2, <2>3, <2>4, <2>5, <2>6, <2>7, <2>8 DEF Next, NobodyHoldsClose
<1> QED
  BY <1>1, <1>2, SlotInit, SlotNext, PTL DEF Spec

----------------------------------------------------------------------------
(* What was told. *)

Findings == Credentials \cup Commands \cup Transcripts \cup Scans \cup Mails \cup {"ftp-traversal", "ftp-bounce"}

Incidents == [finding : Findings, carries : Nat \cup SUBSET Nat]

Of(t, findings) == {i \in DOMAIN t : t[i].finding \in findings}

\* How many reports there are of each kind; the n-th command is told as such.
Tally(t, credentials, commands, transcripts, scans) ==
  /\ t \in Seq(Incidents)
  /\ Cardinality(Of(t, Credentials)) = credentials
  /\ Cardinality(Of(t, Commands)) = commands
  /\ Cardinality(Of(t, Transcripts)) = transcripts
  /\ Cardinality(Of(t, Scans)) = scans
  /\ \A i \in Of(t, Commands) : t[i].carries = Cardinality({k \in Of(t, Commands) : k <= i})

\* A mail report carries parts of one exchange; no message reported so far has
\* a part of the mail at hand, or of another.
Apart(t, mail) ==
  /\ \A i \in Of(t, Mails) : Cardinality(t[i].carries) <= 1
  /\ \A i \in Of(t, {"smtp-spam"}) : \A part \in t[i].carries : part \in Nat /\ part < mail
  /\ \A i, j \in Of(t, {"smtp-spam"}) : i # j => t[i].carries \cap t[j].carries = {}

\* One more report, and the places of the reports of one kind.
LEMMA OfAppend ==
  ASSUME NEW t \in Seq(Incidents), NEW x \in Incidents, NEW F
  PROVE  /\ Append(t, x) \in Seq(Incidents)
         /\ Of(t, F) \in SUBSET (1..Len(t)) /\ Len(t) \in Nat
         /\ Of(Append(t, x), F) = IF x.finding \in F THEN Of(t, F) \cup {Len(t) + 1} ELSE Of(t, F)
         /\ Append(t, x)[Len(t) + 1] = x
         /\ \A i \in 1..Len(t) : Append(t, x)[i] = t[i]
         /\ Cardinality(Of(t, F)) \in Nat
         /\ Cardinality(Of(Append(t, x), F)) = Cardinality(Of(t, F)) + One(x.finding \in F)
<1> DEFINE n == Len(t)
           a == Append(t, x)
<1>1. /\ n \in Nat /\ DOMAIN t = 1..n /\ a \in Seq(Incidents) /\ DOMAIN a = 1..(n + 1)
      /\ a[n + 1] = x /\ \A i \in 1..n : a[i] = t[i]
  BY AppendProperties, LenProperties
<1> HIDE DEF n, a
<1>2. Of(t, F) \in SUBSET (1..n)
  BY <1>1 DEF Of
<1>3. Of(a, F) = IF x.finding \in F THEN Of(t, F) \cup {n + 1} ELSE Of(t, F)
  BY <1>1 DEF Of
<1>4. IsFiniteSet(Of(t, F)) /\ Cardinality(Of(t, F)) \in Nat
  <2>1. IsFiniteSet(1..n)
    BY <1>1, FS_Interval
  <2> QED
    BY <1>2, <2>1, FS_Subset, FS_CardinalityType
<1>5. n + 1 \notin Of(t, F)
  BY <1>1, <1>2
<1>6. Cardinality(Of(t, F) \cup {n + 1}) = Cardinality(Of(t, F)) + 1
  BY <1>4, <1>5, FS_AddElement
<1>7. Cardinality(Of(a, F)) = Cardinality(Of(t, F)) + One(x.finding \in F)
  BY <1>3, <1>4, <1>6 DEF One
<1> QED
  BY <1>1, <1>2, <1>3, <1>4, <1>7 DEF n, a

\* One more report adds itself to the tally; a command carries its number.
LEMMA TallyAppend ==
  ASSUME NEW t, NEW a, NEW b, NEW c, NEW d, Tally(t, a, b, c, d),
         NEW x \in Incidents, x.finding \in Commands => x.carries = b + 1
  PROVE  Tally(Append(t, x), a + One(x.finding \in Credentials), b + One(x.finding \in Commands),
               c + One(x.finding \in Transcripts), d + One(x.finding \in Scans))
<1> DEFINE u == Append(t, x)
           n == Len(t)
           P == Of(t, Commands)
           Q == Of(u, Commands)
<1>1. t \in Seq(Incidents)
  BY DEF Tally
<1>2. /\ u \in Seq(Incidents)
      /\ Cardinality(Of(u, Credentials)) = a + One(x.finding \in Credentials)
      /\ Cardinality(Q) = b + One(x.finding \in Commands)
      /\ Cardinality(Of(u, Transcripts)) = c + One(x.finding \in Transcripts)
      /\ Cardinality(Of(u, Scans)) = d + One(x.finding \in Scans)
  BY <1>1, OfAppend DEF Tally
<1>3. /\ P \in SUBSET (1..n) /\ n \in Nat
      /\ Q = IF x.finding \in Commands THEN P \cup {n + 1} ELSE P
      /\ u[n + 1] = x /\ \A i \in 1..n : u[i] = t[i]
  BY <1>1, OfAppend
<1>4. Cardinality(P) = b /\ \A i \in P : t[i].carries = Cardinality({k \in P : k <= i})
  BY DEF Tally
<1> HIDE DEF P, Q, u, n
<1>5. ASSUME NEW i \in Q PROVE u[i].carries = Cardinality({k \in Q : k <= i})
  <2>1. CASE i \in P
    <3>1. {k \in Q : k <= i} = {k \in P : k <= i}
      BY <1>3, <2>1
    <3>2. u[i] = t[i]
      BY <1>3, <2>1
    <3> QED
      BY <1>4, <2>1, <3>1, <3>2
  <2>2. CASE i \notin P
    <3>1. i = n + 1 /\ x.finding \in Commands
      BY <1>3, <2>2
    <3>2. {k \in Q : k <= i} = Q
      <4>1. \A k \in 1..n : k <= n + 1
        BY <1>3
      <4>2. \A k \in Q : k \in 1..n \/ k = n + 1
        BY <1>3
      <4>3. \A k \in Q : k <= n + 1
        BY <1>3, <4>1, <4>2
      <4> QED
        BY <3>1, <4>3
    <3>3. Cardinality(Q) = b + 1
      BY <1>2, <3>1 DEF One
    <3> QED
      BY <1>3, <3>1, <3>2, <3>3
  <2> QED
    BY <2>1, <2>2
<1> QED
  BY <1>2, <1>5 DEF Tally, u, Q

(* Nothing but what mail reports share is of interest in them. *)
LEMMA ApartAppend ==
  ASSUME NEW t \in Seq(Incidents), NEW mail \in Nat, Apart(t, mail), NEW x \in Incidents, NEW next \in Nat,
         x.finding \in Mails => Cardinality(x.carries) <= 1,
         x.finding = "smtp-spam" => x.carries \subseteq {mail} /\ mail < next,
         mail <= next
  PROVE  Apart(Append(t, x), next)
<1> DEFINE u == Append(t, x)
           n == Len(t)
           S == Of(t, {"smtp-spam"})
<1>1. /\ u[n + 1] = x /\ n \in Nat /\ \A i \in 1..n : u[i] = t[i]
      /\ Of(t, Mails) \in SUBSET (1..n)
      /\ Of(u, Mails) = IF x.finding \in Mails THEN Of(t, Mails) \cup {n + 1} ELSE Of(t, Mails)
  BY OfAppend
<1>2. /\ S \in SUBSET (1..n)
      /\ Of(u, {"smtp-spam"}) = IF x.finding \in {"smtp-spam"} THEN S \cup {n + 1} ELSE S
  <2> DEFINE spam == {"smtp-spam"}
  <2> HIDE DEF spam
  <2>1. /\ Of(t, spam) \in SUBSET (1..n)
        /\ Of(u, spam) = IF x.finding \in spam THEN Of(t, spam) \cup {n + 1} ELSE Of(t, spam)
    BY OfAppend
  <2> QED
    BY <2>1 DEF spam
<1>3. /\ \A i \in Of(t, Mails) : Cardinality(t[i].carries) <= 1
      /\ \A i \in S : \A part \in t[i].carries : part \in Nat /\ part < mail
      /\ \A i, j \in S : i # j => t[i].carries \cap t[j].carries = {}
  BY DEF Apart
<1> HIDE DEF u, n, S
<1>4. \A i \in Of(u, Mails) : Cardinality(u[i].carries) <= 1
  <2> SUFFICES ASSUME NEW i \in Of(u, Mails) PROVE Cardinality(u[i].carries) <= 1
    OBVIOUS
  <2>1. CASE i \in Of(t, Mails)
    BY <1>1, <1>3, <2>1
  <2>2. CASE i \notin Of(t, Mails)
    BY <1>1, <2>2
  <2> QED
    BY <2>1, <2>2
<1>5. CASE x.finding # "smtp-spam"
  <2>1. Of(u, {"smtp-spam"}) = S /\ \A i \in S : u[i] = t[i]
    BY <1>1, <1>2, <1>5
  <2>2. \A i \in S : \A part \in t[i].carries : part \in Nat /\ part < next
    BY <1>3
  <2> QED
    BY <1>3, <1>4, <2>1, <2>2 DEF Apart, u
<1>6. CASE x.finding = "smtp-spam"
  <2>1. Of(u, {"smtp-spam"}) = S \cup {n + 1} /\ \A i \in S : u[i] = t[i] /\ i # n + 1
    BY <1>1, <1>2, <1>6
  <2>2. \A i \in S \cup {n + 1} : \A part \in u[i].carries : part \in Nat /\ part < next
    BY <1>1, <1>3, <1>6, <2>1
  <2>3. \A i \in S : u[i].carries \cap x.carries = {}
    <3> SUFFICES ASSUME NEW i \in S, NEW part \in u[i].carries, part \in x.carries PROVE FALSE
      OBVIOUS
    <3>1. part < mail /\ part = mail
      BY <1>3, <1>6, <2>1
    <3> QED
      BY <3>1
  <2>4. \A i, j \in S \cup {n + 1} : i # j => u[i].carries \cap u[j].carries = {}
    BY <1>1, <1>3, <2>1, <2>3
  <2> QED
    BY <1>4, <2>1, <2>2, <2>4 DEF Apart, u
<1> QED
  BY <1>5, <1>6

\* What reports add to a tally of n commands.
Tells(reports, n, credentials, commands, transcripts, scans) ==
  /\ reports \in Seq(Incidents)
  /\ credentials \in Nat /\ commands \in Nat /\ transcripts \in Nat /\ scans \in Nat
  /\ \A t : \A a, c, d \in Nat :
       Tally(t, a, n, c, d) => Tally(t \o reports, a + credentials, n + commands, c + transcripts, d + scans)

\* They leave what mails share as it was when the next one starts.
Keeps(reports, mail, next) == \A t \in Seq(Incidents) : Apart(t, mail) => Apart(t \o reports, next)

\* No report adds nothing.
LEMMA TellsNothing ==
  ASSUME NEW n \in Nat, NEW mail \in Nat
  PROVE  Tells(<<>>, n, 0, 0, 0, 0) /\ Keeps(<<>>, mail, mail)
<1>1. <<>> \in Seq(Incidents) /\ \A t \in Seq(Incidents) : t \o <<>> = t
  BY ConcatEmptySeq, EmptySeq
<1>2. \A t : \A a, c, d \in Nat : Tally(t, a, n, c, d) => Tally(t \o <<>>, a + 0, n + 0, c + 0, d + 0)
  <2> SUFFICES ASSUME NEW t, NEW a \in Nat, NEW c \in Nat, NEW d \in Nat, Tally(t, a, n, c, d)
               PROVE  Tally(t \o <<>>, a + 0, n + 0, c + 0, d + 0)
    OBVIOUS
  <2>1. t \o <<>> = t
    BY <1>1 DEF Tally
  <2>2. a + 0 = a /\ n + 0 = n /\ c + 0 = c /\ d + 0 = d
    OBVIOUS
  <2> QED
    BY <2>1, <2>2
<1> QED
  BY <1>1, <1>2 DEF Tells, Keeps

\* One report adds itself.
LEMMA TellsOne ==
  ASSUME NEW n \in Nat, NEW x \in Incidents, x.finding \in Commands => x.carries = n + 1
  PROVE  Tells(<<x>>, n, One(x.finding \in Credentials), One(x.finding \in Commands),
               One(x.finding \in Transcripts), One(x.finding \in Scans))
<1>1. <<x>> \in Seq(Incidents) /\ \A t \in Seq(Incidents) : t \o <<x>> = Append(t, x)
  BY AppendIsConcat
<1>2. ASSUME NEW t, NEW a \in Nat, NEW c \in Nat, NEW d \in Nat, Tally(t, a, n, c, d)
      PROVE  Tally(t \o <<x>>, a + One(x.finding \in Credentials), n + One(x.finding \in Commands),
                   c + One(x.finding \in Transcripts), d + One(x.finding \in Scans))
  <2>1. t \o <<x>> = Append(t, x)
    BY <1>1, <1>2 DEF Tally
  <2> QED
    BY <1>2, <2>1, TallyAppend
<1>3. \A p : One(p) \in Nat
  BY DEF One
<1> QED
  BY <1>1, <1>2, <1>3 DEF Tells

\* Two runs of reports add what each adds.
LEMMA TellsBoth ==
  ASSUME NEW n \in Nat, NEW u, NEW a, NEW b, NEW c, NEW d, Tells(u, n, a, b, c, d),
         NEW v, NEW e, NEW f, NEW g, NEW h, Tells(v, n + b, e, f, g, h)
  PROVE  Tells(u \o v, n, a + e, b + f, c + g, d + h)
<1>1. /\ u \in Seq(Incidents) /\ v \in Seq(Incidents) /\ a \in Nat /\ b \in Nat /\ c \in Nat /\ d \in Nat
      /\ e \in Nat /\ f \in Nat /\ g \in Nat /\ h \in Nat
  BY DEF Tells
<1>2. u \o v \in Seq(Incidents) /\ \A t \in Seq(Incidents) : t \o (u \o v) = (t \o u) \o v
  <2>1. u \o v \in Seq(Incidents)
    BY <1>1, ConcatProperties
  <2>2. \A t \in Seq(Incidents) : t \o (u \o v) = (t \o u) \o v
    <3> SUFFICES ASSUME NEW t \in Seq(Incidents) PROVE t \o (u \o v) = (t \o u) \o v
      OBVIOUS
    <3>1. (t \o u) \o v = t \o (u \o v)
      <4>1. u \in Seq(Incidents) /\ v \in Seq(Incidents)
        BY <1>1
      <4> QED
        BY <4>1, ConcatAssociative
    <3> QED
      BY <3>1
  <2> QED
    BY <2>1, <2>2
<1>3. ASSUME NEW t, NEW i \in Nat, NEW j \in Nat, NEW k \in Nat, Tally(t, i, n, j, k)
      PROVE  Tally(t \o (u \o v), i + (a + e), n + (b + f), j + (c + g), k + (d + h))
  <2>1. Tally(t \o u, i + a, n + b, j + c, k + d)
    BY <1>3 DEF Tells
  <2>2. i + a \in Nat /\ j + c \in Nat /\ k + d \in Nat
    BY <1>1
  <2>3. Tally((t \o u) \o v, (i + a) + e, (n + b) + f, (j + c) + g, (k + d) + h)
    BY <2>1, <2>2 DEF Tells
  <2>4. /\ (i + a) + e = i + (a + e) /\ (n + b) + f = n + (b + f)
        /\ (j + c) + g = j + (c + g) /\ (k + d) + h = k + (d + h)
    BY <1>1
  <2>5. t \o (u \o v) = (t \o u) \o v
    BY <1>2, <1>3 DEF Tally
  <2> QED
    BY <2>3, <2>4, <2>5, Zenon
<1> QED
  BY <1>1, <1>2, <1>3 DEF Tells

\* A transcript and a scan are told together.
LEMMA TellsTraces ==
  ASSUME NEW n \in Nat, NEW u, NEW c, Tells(u, n, 0, 0, c, 0), NEW v, NEW h, Tells(v, n, 0, 0, 0, h)
  PROVE  Tells(u \o v, n, 0, 0, c, h)
<1>1. c \in Nat /\ h \in Nat
  BY DEF Tells
<1>2. 0 + 0 = 0 /\ c + 0 = c /\ 0 + h = h /\ n + 0 = n
  BY <1>1
<1>3. Tells(v, n + 0, 0, 0, 0, h)
  BY <1>2
<1>4. Tells(u \o v, n, 0 + 0, 0 + 0, c + 0, 0 + h)
  BY <1>3, TellsBoth, Zenon
<1> QED
  BY <1>2, <1>4

\* A report of parts of the mail at hand keeps mails apart.
LEMMA KeepsOne ==
  ASSUME NEW mail \in Nat, NEW next \in Nat, NEW x \in Incidents,
         x.finding \in Mails => Cardinality(x.carries) <= 1,
         x.finding = "smtp-spam" => x.carries \subseteq {mail} /\ mail < next,
         mail <= next
  PROVE  Keeps(<<x>>, mail, next)
<1> SUFFICES ASSUME NEW t \in Seq(Incidents), Apart(t, mail) PROVE Apart(t \o <<x>>, next)
  BY DEF Keeps
<1>1. t \o <<x>> = Append(t, x)
  BY AppendIsConcat
<1> QED
  BY <1>1, ApartAppend

\* Two runs of reports that keep mails apart keep them apart together.
LEMMA KeepsBoth ==
  ASSUME NEW u \in Seq(Incidents), NEW v \in Seq(Incidents), NEW mail, Keeps(u, mail, mail), Keeps(v, mail, mail)
  PROVE  Keeps(u \o v, mail, mail)
<1>1. \A t \in Seq(Incidents) : t \o u \in Seq(Incidents) /\ t \o (u \o v) = (t \o u) \o v
  BY ConcatProperties, ConcatAssociative
<1> QED
  BY <1>1 DEF Keeps

----------------------------------------------------------------------------
(* The dialogues. *)

Capped(n) == IF n < MaxCommands THEN n ELSE MaxCommands

Counts == [offered : Nat, credentials : Nat, commands : Nat]

\* What the client tried and ran, after a line.
Did(d, s, line) == Plus(d, Submits(s, line))

\* Incident() makes an incident of its finding.
LEMMA IncidentType ==
  ASSUME NEW f \in Findings, NEW c \in Nat \cup SUBSET Nat
  PROVE  Incident(f, c) \in Incidents /\ Incident(f, c).finding = f /\ Incident(f, c).carries = c
BY DEF Incident, Incidents

\* A report of one finding that is not a mail's.
LEMMA TellsFinding ==
  ASSUME NEW f \in Findings \ Mails, NEW n \in Nat, NEW c \in Nat, f \in Commands => c = n + 1
  PROVE  /\ Tells(<<Incident(f, c)>>, n, One(f \in Credentials), One(f \in Commands),
                  One(f \in Transcripts), One(f \in Scans))
         /\ Keeps(<<Incident(f, c)>>, 0, 0)
<1>1. Incident(f, c) \in Incidents /\ Incident(f, c).finding = f /\ Incident(f, c).carries = c
  BY IncidentType
<1>2. f # "smtp-spam" /\ f \notin Mails
  BY DEF Mails
<1> DEFINE x == Incident(f, c)
<1> HIDE DEF x
<1>3. /\ x \in Incidents /\ x.finding = f /\ x.carries = c
  BY <1>1 DEF x
<1>4. Tells(<<x>>, n, One(f \in Credentials), One(f \in Commands), One(f \in Transcripts), One(f \in Scans))
  BY <1>3, TellsOne
<1>5. Keeps(<<x>>, 0, 0)
  BY <1>2, <1>3, KeepsOne
<1> QED
  BY <1>4, <1>5 DEF x

\* Every finding is of one kind at most.
LEMMA Kinds ==
  /\ \A f \in {"ftp-auth-bruteforce", "ftp-anonymous-login", "telnet-auth-bruteforce", "ssh-auth-bruteforce",
               "ssh-publickey-probe"} :
       /\ f \in Findings \ Mails /\ f \notin Commands
       /\ One(f \in Credentials) = 1 /\ One(f \in Commands) = 0 /\ One(f \in Transcripts) = 0 /\ One(f \in Scans) = 0
  /\ \A f \in Commands :
       /\ f \in Findings \ Mails
       /\ One(f \in Credentials) = 0 /\ One(f \in Commands) = 1 /\ One(f \in Transcripts) = 0 /\ One(f \in Scans) = 0
  /\ \A f \in Transcripts :
       /\ f \in Findings \ Mails /\ f \notin Commands
       /\ One(f \in Credentials) = 0 /\ One(f \in Commands) = 0 /\ One(f \in Transcripts) = 1 /\ One(f \in Scans) = 0
  /\ \A f \in Scans :
       /\ f \in Findings \ Mails /\ f \notin Commands
       /\ One(f \in Credentials) = 0 /\ One(f \in Commands) = 0 /\ One(f \in Transcripts) = 0 /\ One(f \in Scans) = 1
  /\ \A f \in {"ftp-traversal", "ftp-bounce"} :
       /\ f \in Findings \ Mails /\ f \notin Commands
       /\ One(f \in Credentials) = 0 /\ One(f \in Commands) = 0 /\ One(f \in Transcripts) = 0 /\ One(f \in Scans) = 0
BY DEF One, Findings, Mails, Credentials, Commands, Transcripts, Scans

FtpSessions == [lines : Nat, anonymous : BOOLEAN, attempts : Nat, credentialSeen : BOOLEAN,
                loggedIn : BOOLEAN, commands : Nat]

FtpInv(s, t, d) ==
  /\ s \in FtpSessions /\ d \in Counts
  /\ s.commands = Capped(d.commands)
  /\ s.credentialSeen <=> d.offered > 0
  /\ Tally(t, d.credentials, s.commands, 0, 0) /\ Apart(t, 0)

\* What a line of the FTP dialogue comes to.
LEMMA FtpLineTells ==
  ASSUME setting.protocol = "ftp", NEW s \in FtpSessions, NEW line \in FtpLines, NEW interactive \in BOOLEAN
  PROVE  LET r == FtpLine(s, line, interactive)
             offers == Offers(s, line)
             more == One(Runs(s, line) /\ s.commands < MaxCommands)
         IN  /\ r.session \in FtpSessions
             /\ r.session.credentialSeen <=> s.credentialSeen \/ offers
             /\ r.session.commands = s.commands + more
             /\ Tells(r.told, s.commands, One(offers), more, 0, 0) /\ Keeps(r.told, 0, 0)
<1> DEFINE r == FtpLine(s, line, interactive)
           t == [s EXCEPT !.lines = @ + 1]
           offers == Offers(s, line)
           runs == Runs(s, line) /\ s.commands < MaxCommands
<1>1. /\ t \in FtpSessions /\ t.lines = s.lines + 1
      /\ t.anonymous = s.anonymous /\ t.attempts = s.attempts /\ t.credentialSeen = s.credentialSeen
      /\ t.loggedIn = s.loggedIn /\ t.commands = s.commands
  BY DEF FtpSessions
<1>2. /\ offers <=> s.lines < MaxLines /\ line = "PASS"
      /\ runs <=> s.lines < MaxLines /\ s.loggedIn /\ line \in {"CWD", "RETR"} /\ s.commands < MaxCommands
  BY DEF Offers, Runs
<1>3. s.lines \in Nat /\ MaxLines \in Nat /\ s.commands \in Nat /\ s.attempts \in Nat /\ MaxCommands \in Nat
  BY DialogueAssumption DEF FtpSessions
<1> HIDE DEF t, offers, runs
<1>4. \A x, y, z : /\ Reply(x, y, z).session = x /\ Reply(x, y, z).told = y
  BY DEF Reply
<1> DEFINE goal(u, reports) ==
             /\ u \in FtpSessions
             /\ u.credentialSeen <=> s.credentialSeen \/ offers
             /\ u.commands = s.commands + One(runs)
             /\ Tells(reports, s.commands, One(offers), One(runs), 0, 0) /\ Keeps(reports, 0, 0)
<1>5. ASSUME ~offers, ~runs, NEW u \in FtpSessions, u.credentialSeen = s.credentialSeen, u.commands = s.commands
      PROVE  goal(u, <<>>)
  <2>1. One(offers) = 0 /\ One(runs) = 0 /\ 0 \in Nat
    BY <1>5 DEF One
  <2>2. Tells(<<>>, s.commands, 0, 0, 0, 0) /\ Keeps(<<>>, 0, 0)
    BY <1>3, <2>1, TellsNothing
  <2> QED
    BY <1>3, <1>5, <2>1, <2>2
<1>6. CASE t.lines > MaxLines
  <2>1. ~(t.lines <= MaxLines)
    BY <1>1, <1>3, <1>6
  <2>2. r = Reply(t, <<>>, "destroyed")
    BY <1>6, <2>1 DEF FtpLine, t
  <2>3. ~offers /\ ~runs
    BY <1>1, <1>2, <1>3, <1>6
  <2>4. goal(t, <<>>)
    BY <1>1, <1>5, <2>3
  <2> HIDE DEF r
  <2>5. r.session = t /\ r.told = <<>>
    BY <1>4, <2>2
  <2> QED
    BY <2>4, <2>5 DEF r, offers, runs
<1>7. CASE t.lines <= MaxLines
  <2>0. ~(t.lines > MaxLines) /\ s.lines < MaxLines
    BY <1>1, <1>3, <1>7
  <2>1. CASE line \in {"USER", "USER anonymous"}
    <3> DEFINE u == [t EXCEPT !.anonymous = (line = "USER anonymous")]
    <3>1. r = Reply(u, <<>>, "open")
      BY <1>7, <2>0, <2>1 DEF FtpLine, t, Says
    <3>2. ~offers /\ ~runs
      BY <1>2, <2>1
    <3>3. \A p \in BOOLEAN : /\ [t EXCEPT !.anonymous = p] \in FtpSessions
                            /\ [t EXCEPT !.anonymous = p].credentialSeen = t.credentialSeen
                            /\ [t EXCEPT !.anonymous = p].commands = t.commands
      BY <1>1 DEF FtpSessions
    <3>4. u \in FtpSessions /\ u.credentialSeen = t.credentialSeen /\ u.commands = t.commands
      BY <3>3
    <3> HIDE DEF u, r
    <3>5. goal(u, <<>>)
      BY <1>1, <1>5, <3>2, <3>4
    <3>6. r.session = u /\ r.told = <<>>
      BY <1>4, <3>1
    <3> QED
      BY <3>5, <3>6 DEF r, offers, runs
  <2>2. CASE line = "PASS"
    <3> DEFINE v == [t EXCEPT !.credentialSeen = TRUE, !.attempts = @ + 1]
               in == [v EXCEPT !.loggedIn = TRUE]
               f == IF t.anonymous THEN "ftp-anonymous-login" ELSE "ftp-auth-bruteforce"
               told0 == <<Incident(f, t.commands)>>
               ending == IF v.attempts >= MaxAttempts THEN "ended" ELSE "open"
    <3>1. v \in FtpSessions /\ v.credentialSeen = TRUE /\ v.commands = t.commands
      <4>1. \A p \in BOOLEAN : \A n \in Nat :
              /\ [t EXCEPT !.credentialSeen = p, !.attempts = n] \in FtpSessions
              /\ [t EXCEPT !.credentialSeen = p, !.attempts = n].credentialSeen = p
              /\ [t EXCEPT !.credentialSeen = p, !.attempts = n].commands = t.commands
        BY <1>1 DEF FtpSessions
      <4>2. TRUE \in BOOLEAN /\ t.attempts + 1 \in Nat
        BY <1>1, <1>3
      <4> QED
        BY <4>1, <4>2, Zenon
    <3>2. in \in FtpSessions /\ in.credentialSeen = TRUE /\ in.commands = t.commands
      <4>1. \A w \in FtpSessions : \A q \in BOOLEAN :
              /\ [w EXCEPT !.loggedIn = q] \in FtpSessions
              /\ [w EXCEPT !.loggedIn = q].credentialSeen = w.credentialSeen
              /\ [w EXCEPT !.loggedIn = q].commands = w.commands
        BY DEF FtpSessions
      <4>2. TRUE \in BOOLEAN
        OBVIOUS
      <4> HIDE DEF v
      <4> QED
        BY <3>1, <4>1, <4>2, Zenon
    <3>3. (r.session = v \/ r.session = in) /\ r.told = told0
      <4>1. r = FtpPass(t, interactive)
        BY <1>7, <2>0, <2>2 DEF FtpLine, t
      <4> HIDE DEF r
      <4>2. \/ r = Reply(in, told0, "open")
            \/ r = Reply(v, told0, ending)
        BY <4>1, Zenon DEF FtpPass
      <4> HIDE DEF in, v, told0, ending
      <4>3. CASE r = Reply(in, told0, "open")
        BY <1>4, <4>3
      <4>4. CASE r = Reply(v, told0, ending)
        BY <1>4, <4>4
      <4> QED
        BY <4>2, <4>3, <4>4
    <3> HIDE DEF r
    <3>4. offers /\ ~runs
      BY <1>2, <2>0, <2>2
    <3>5. Tells(told0, t.commands, 1, 0, 0, 0) /\ Keeps(told0, 0, 0)
      <4>1. f \in {"ftp-anonymous-login", "ftp-auth-bruteforce"}
        OBVIOUS
      <4> HIDE DEF f
      <4> QED
        BY <1>1, <1>3, <4>1, Kinds, TellsFinding
    <3>6. One(offers) = 1 /\ One(runs) = 0
      BY <3>4 DEF One
    <3> HIDE DEF in, v, told0
    <3>7. goal(r.session, told0)
      <4>1. /\ r.session \in FtpSessions /\ r.session.credentialSeen = TRUE
            /\ r.session.commands = t.commands
        BY <3>1, <3>2, <3>3, Zenon
      <4>2. r.session.commands = s.commands + One(runs)
        BY <1>1, <1>3, <3>6, <4>1
      <4>3. Tells(told0, s.commands, One(offers), One(runs), 0, 0)
        BY <1>1, <3>5, <3>6
      <4> QED
        BY <3>4, <3>5, <4>1, <4>2, <4>3
    <3> QED
      BY <3>3, <3>7 DEF r, offers, runs
  <2>3. CASE line = "QUIT"
    <3>1. r = Reply(t, <<>>, "ended")
      BY <1>7, <2>0, <2>3 DEF FtpLine, t
    <3>2. ~offers /\ ~runs
      BY <1>2, <2>3
    <3>3. goal(t, <<>>)
      BY <1>1, <1>5, <3>2
    <3> HIDE DEF r
    <3>4. r.session = t /\ r.told = <<>>
      BY <1>4, <3>1
    <3> QED
      BY <3>3, <3>4 DEF r, offers, runs
  <2>4. CASE line \in {"NOOP", "PWD", "CWD", "RETR", "PORT"}
    <3> DEFINE captured == t.loggedIn /\ line \in {"CWD", "RETR"} /\ Captures(t)
               u == [t EXCEPT !.commands = IF captured THEN @ + 1 ELSE @]
               one == FtpInspects(t, line)
               two == IF captured THEN <<Incident("ftp-command", u.commands)>> ELSE <<>>
    <3>1. r = FtpCommand(t, line)
      BY <1>7, <2>0, <2>4 DEF FtpLine, t
    <3>2. r.session = u /\ r.told = one \o two
      <4> HIDE DEF r
      <4> DEFINE ending == IF u.loggedIn /\ ~Captures(u) THEN "ended" ELSE "open"
      <4>1. r = Reply(u, one \o two, ending)
        BY <3>1, Zenon DEF FtpCommand
      <4> HIDE DEF u, one, two, ending
      <4> QED
        BY <4>1 DEF Reply
    <3>3. ~offers /\ (captured <=> runs)
      BY <1>1, <1>2, <2>0, <2>4 DEF Captures
    <3>4. /\ u \in FtpSessions /\ u.credentialSeen = s.credentialSeen
          /\ u.commands = s.commands + One(runs)
      <4>1. \A n \in Nat : /\ [t EXCEPT !.commands = n] \in FtpSessions
                          /\ [t EXCEPT !.commands = n].credentialSeen = t.credentialSeen
                          /\ [t EXCEPT !.commands = n].commands = n
        BY <1>1 DEF FtpSessions
      <4>2. u = [t EXCEPT !.commands = t.commands + One(runs)]
        BY <1>1, <1>3, <3>3 DEF One
      <4>3. t.commands + One(runs) \in Nat
        BY <1>1, <1>3 DEF One
      <4> HIDE DEF u
      <4> QED
        BY <1>1, <4>1, <4>2, <4>3
    <3>5. Tells(one, s.commands, 0, 0, 0, 0) /\ Keeps(one, 0, 0)
      <4>1. CASE line = "RETR"
        <5>1. one = <<Incident("ftp-traversal", t.commands)>>
          BY <4>1 DEF FtpInspects
        <5> QED
          BY <1>1, <1>3, <5>1, Kinds, TellsFinding
      <4>2. CASE line = "PORT"
        <5>1. one = <<Incident("ftp-bounce", t.commands)>>
          BY <4>2 DEF FtpInspects
        <5> QED
          BY <1>1, <1>3, <5>1, Kinds, TellsFinding
      <4>3. CASE line \notin {"RETR", "PORT"}
        <5>1. one = <<>>
          BY <4>3 DEF FtpInspects
        <5>2. Tells(<<>>, s.commands, 0, 0, 0, 0) /\ Keeps(<<>>, 0, 0)
          <6>1. 0 \in Nat
            OBVIOUS
          <6> QED
            BY <1>3, <6>1, TellsNothing
        <5> QED
          BY <5>1, <5>2
      <4> QED
        BY <4>1, <4>2, <4>3
    <3>6. Tells(two, s.commands, 0, One(runs), 0, 0) /\ Keeps(two, 0, 0)
      <4>1. CASE runs
        <5>1. two = <<Incident("ftp-command", u.commands)>> /\ u.commands = s.commands + 1 /\ One(runs) = 1
          BY <3>3, <3>4, <4>1 DEF One
        <5>2. "ftp-command" \in Commands /\ u.commands \in Nat
          BY <1>3, <5>1 DEF Commands
        <5> HIDE DEF u, two
        <5> QED
          BY <1>3, <5>1, <5>2, Kinds, TellsFinding
      <4>2. CASE ~runs
        <5>1. two = <<>> /\ One(runs) = 0 /\ 0 \in Nat
          BY <3>3, <4>2 DEF One
        <5> QED
          BY <1>3, <5>1, TellsNothing
      <4> QED
        BY <4>1, <4>2
    <3> HIDE DEF one, two, u
    <3>7. Tells(one \o two, s.commands, 0, One(runs), 0, 0) /\ Keeps(one \o two, 0, 0)
      <4>1. s.commands + 0 = s.commands /\ 0 + One(runs) = One(runs) /\ 0 + 0 = 0 /\ One(runs) \in Nat
        BY <1>3 DEF One
      <4>2. one \in Seq(Incidents) /\ two \in Seq(Incidents)
        BY <3>5, <3>6 DEF Tells
      <4>3. Tells(two, s.commands + 0, 0, One(runs), 0, 0)
        BY <3>6, <4>1
      <4>4. Tells(one \o two, s.commands, 0 + 0, 0 + One(runs), 0 + 0, 0 + 0)
        BY <1>3, <3>5, <4>3, TellsBoth, Zenon
      <4>5. Keeps(one \o two, 0, 0)
        BY <3>5, <3>6, <4>2, KeepsBoth
      <4> QED
        BY <4>1, <4>4, <4>5
    <3>8. One(offers) = 0
      BY <3>3 DEF One
    <3> HIDE DEF r
    <3> QED
      BY <3>2, <3>3, <3>4, <3>7, <3>8 DEF r, offers, runs
  <2> QED
    BY <2>1, <2>2, <2>3, <2>4 DEF FtpLines
<1> QED
  BY <1>1, <1>3, <1>6, <1>7

\* The totals after a line, from what the line added.
LEMMA CountsFollow ==
  ASSUME NEW d \in Counts, NEW s, NEW line, NEW n, n = Capped(d.commands)
  PROVE  /\ n \in Nat /\ Did(d, s, line) \in Counts
         /\ Did(d, s, line).offered > 0 <=> d.offered > 0 \/ Offers(s, line)
         /\ Did(d, s, line).credentials = d.credentials + One(Offers(s, line) /\ line # "keyboard-interactive")
         /\ Capped(Did(d, s, line).commands) = n + One(Runs(s, line) /\ n < MaxCommands)
<1>1. MaxCommands \in Nat /\ MaxCommands > 0
  BY DialogueAssumption
<1>2. d.offered \in Nat /\ d.credentials \in Nat /\ d.commands \in Nat
  BY DEF Counts
<1>3. \A p : One(p) \in Nat /\ (p => One(p) = 1) /\ (~p => One(p) = 0)
  BY DEF One
<1> DEFINE o == One(Offers(s, line))
           k == One(Offers(s, line) /\ line # "keyboard-interactive")
           m == One(Runs(s, line))
           e == Did(d, s, line)
<1>4. o \in Nat /\ k \in Nat /\ m \in Nat /\ (o > 0 <=> Offers(s, line))
  BY <1>3
<1>5. /\ e.offered = d.offered + o /\ e.credentials = d.credentials + k /\ e.commands = d.commands + m
      /\ e = [offered |-> d.offered + o, credentials |-> d.credentials + k, commands |-> d.commands + m]
  BY DEF Did, Plus, Submits
<1> HIDE DEF o, k, e
<1>6. e \in Counts
  BY <1>2, <1>4, <1>5 DEF Counts
<1>7. e.offered > 0 <=> d.offered > 0 \/ Offers(s, line)
  BY <1>2, <1>4, <1>5
<1>8. n \in Nat
  BY <1>1, <1>2 DEF Capped
<1>9. Capped(e.commands) = n + One(Runs(s, line) /\ n < MaxCommands)
  <2>1. CASE Runs(s, line)
    <3>1. e.commands = d.commands + 1
      BY <1>3, <1>5, <2>1
    <3>2. CASE n < MaxCommands
      <4>1. One(Runs(s, line) /\ n < MaxCommands) = 1
        BY <2>1, <3>2 DEF One
      <4> QED
        BY <1>1, <1>2, <3>1, <3>2, <4>1 DEF Capped
    <3>3. CASE ~(n < MaxCommands)
      <4>1. One(Runs(s, line) /\ n < MaxCommands) = 0
        BY <3>3 DEF One
      <4> QED
        BY <1>1, <1>2, <3>1, <3>3, <4>1 DEF Capped
    <3> QED
      BY <3>2, <3>3
  <2>2. CASE ~Runs(s, line)
    <3>1. One(Runs(s, line) /\ n < MaxCommands) = 0
      BY <2>2 DEF One
    <3>2. m = 0
      BY <2>2 DEF One
    <3> HIDE DEF m
    <3>3. e.commands = d.commands
      BY <1>2, <1>5, <3>2
    <3> QED
      BY <1>8, <3>1, <3>3
  <2> QED
    BY <2>1, <2>2
<1> QED
  BY <1>5, <1>6, <1>7, <1>8, <1>9 DEF e, k

\* A line of the FTP dialogue keeps its invariant.
LEMMA FtpStep ==
  ASSUME setting.protocol = "ftp", NEW s, NEW t, NEW d, FtpInv(s, t, d), NEW line \in FtpLines,
         NEW interactive \in BOOLEAN
  PROVE  LET r == FtpLine(s, line, interactive)
         IN  r.told \in Seq(Incidents) /\ FtpInv(r.session, t \o r.told, Did(d, s, line))
<1> DEFINE r == FtpLine(s, line, interactive)
           offers == Offers(s, line)
           more == One(Runs(s, line) /\ s.commands < MaxCommands)
           e == Did(d, s, line)
<1>1. /\ s \in FtpSessions /\ d \in Counts
      /\ s.commands = Capped(d.commands)
      /\ s.credentialSeen <=> d.offered > 0
      /\ Tally(t, d.credentials, s.commands, 0, 0) /\ Apart(t, 0)
  BY DEF FtpInv
<1>2. /\ r.session \in FtpSessions
      /\ r.session.credentialSeen <=> s.credentialSeen \/ offers
      /\ r.session.commands = s.commands + more
      /\ Tells(r.told, s.commands, One(offers), more, 0, 0) /\ Keeps(r.told, 0, 0)
  BY <1>1, FtpLineTells
<1> HIDE DEF r
<1>3. /\ e \in Counts
      /\ e.offered > 0 <=> d.offered > 0 \/ offers
      /\ e.credentials = d.credentials + One(offers /\ line # "keyboard-interactive")
      /\ Capped(e.commands) = s.commands + more
  BY <1>1, CountsFollow
<1>4. One(offers /\ line # "keyboard-interactive") = One(offers)
  BY DEF FtpLines, One
<1> HIDE DEF e, offers, more
<1>5. d.credentials \in Nat /\ 0 \in Nat /\ 0 + 0 = 0 /\ t \in Seq(Incidents)
  BY <1>1 DEF Counts, Tally
<1>6. Tally(t \o r.told, d.credentials + One(offers), s.commands + more, 0 + 0, 0 + 0)
  BY <1>1, <1>2, <1>5 DEF Tells
<1>7. Apart(t \o r.told, 0) /\ r.told \in Seq(Incidents)
  BY <1>1, <1>2, <1>5 DEF Tells, Keeps
<1>8. Tally(t \o r.told, e.credentials, r.session.commands, 0, 0)
  BY <1>2, <1>3, <1>4, <1>5, <1>6
<1>9. FtpInv(r.session, t \o r.told, e)
  BY <1>1, <1>2, <1>3, <1>7, <1>8 DEF FtpInv
<1> QED
  BY <1>7, <1>9 DEF r, e

(* A report of one kind, made on a condition. *)
LEMMA TellsIf ==
  ASSUME NEW p \in BOOLEAN, NEW f \in Findings \ Mails, NEW n \in Nat, NEW c \in Nat,
         p /\ f \in Commands => c = n + 1,
         NEW a, NEW b, NEW d, NEW e, a = One(p /\ f \in Credentials), b = One(p /\ f \in Commands),
         d = One(p /\ f \in Transcripts), e = One(p /\ f \in Scans)
  PROVE  /\ Tells(IF p THEN <<Incident(f, c)>> ELSE <<>>, n, a, b, d, e)
         /\ Keeps(IF p THEN <<Incident(f, c)>> ELSE <<>>, 0, 0)
<1>1. CASE p
  <2>1. /\ Tells(<<Incident(f, c)>>, n, One(f \in Credentials), One(f \in Commands),
                 One(f \in Transcripts), One(f \in Scans))
        /\ Keeps(<<Incident(f, c)>>, 0, 0)
    BY <1>1, TellsFinding
  <2>2. \A q : One(p /\ q) = One(q)
    BY <1>1 DEF One
  <2> QED
    BY <1>1, <2>1, <2>2
<1>2. CASE ~p
  <2>1. 0 \in Nat /\ \A q : One(p /\ q) = 0
    BY <1>2 DEF One
  <2>2. Tells(<<>>, n, 0, 0, 0, 0) /\ Keeps(<<>>, 0, 0)
    BY <2>1, TellsNothing
  <2> QED
    BY <1>2, <2>1, <2>2
<1> QED
  BY <1>1, <1>2

\* One report on a condition, for each kind of finding.
LEMMA TellsWhen ==
  ASSUME NEW p \in BOOLEAN, NEW n \in Nat
  PROVE  /\ \A f \in Credentials \ Mails :
              LET u == IF p THEN <<Incident(f, n)>> ELSE <<>>
              IN  Tells(u, n, One(p), 0, 0, 0) /\ Keeps(u, 0, 0)
         /\ \A f \in Commands :
              LET u == IF p THEN <<Incident(f, n + 1)>> ELSE <<>>
              IN  Tells(u, n, 0, One(p), 0, 0) /\ Keeps(u, 0, 0)
         /\ \A f \in Transcripts :
              LET u == IF p THEN <<Incident(f, n)>> ELSE <<>>
              IN  Tells(u, n, 0, 0, One(p), 0) /\ Keeps(u, 0, 0)
         /\ \A f \in Scans :
              LET u == IF p THEN <<Incident(f, n)>> ELSE <<>>
              IN  Tells(u, n, 0, 0, 0, One(p)) /\ Keeps(u, 0, 0)
<1>1. /\ \A f \in Credentials \ Mails :
           f \in Findings \ Mails /\ f \notin Commands /\ f \notin Transcripts /\ f \notin Scans
      /\ \A f \in Commands : f \in Findings \ Mails /\ f \notin Credentials /\ f \notin Transcripts /\ f \notin Scans
      /\ \A f \in Transcripts : f \in Findings \ Mails /\ f \notin Credentials /\ f \notin Commands /\ f \notin Scans
      /\ \A f \in Scans : f \in Findings \ Mails /\ f \notin Credentials /\ f \notin Commands /\ f \notin Transcripts
  BY DEF Findings, Mails, Credentials, Commands, Transcripts, Scans
<1>2. n + 1 \in Nat /\ \A q : (q => One(p /\ q) = One(p)) /\ (~q => One(p /\ q) = 0)
  BY DEF One
<1>3. ASSUME NEW f \in Credentials \ Mails
      PROVE  LET u == IF p THEN <<Incident(f, n)>> ELSE <<>> IN Tells(u, n, One(p), 0, 0, 0) /\ Keeps(u, 0, 0)
  <2>1. /\ One(p) = One(p /\ f \in Credentials) /\ 0 = One(p /\ f \in Commands)
        /\ 0 = One(p /\ f \in Transcripts) /\ 0 = One(p /\ f \in Scans)
    BY <1>1, <1>2
  <2> QED
    BY <1>1, <2>1, TellsIf
<1>4. ASSUME NEW f \in Commands
      PROVE  LET u == IF p THEN <<Incident(f, n + 1)>> ELSE <<>> IN Tells(u, n, 0, One(p), 0, 0) /\ Keeps(u, 0, 0)
  <2>1. /\ 0 = One(p /\ f \in Credentials) /\ One(p) = One(p /\ f \in Commands)
        /\ 0 = One(p /\ f \in Transcripts) /\ 0 = One(p /\ f \in Scans)
    BY <1>1, <1>2
  <2> QED
    BY <1>1, <1>2, <2>1, TellsIf
<1>5. ASSUME NEW f \in Transcripts
      PROVE  LET u == IF p THEN <<Incident(f, n)>> ELSE <<>> IN Tells(u, n, 0, 0, One(p), 0) /\ Keeps(u, 0, 0)
  <2>1. /\ 0 = One(p /\ f \in Credentials) /\ 0 = One(p /\ f \in Commands)
        /\ One(p) = One(p /\ f \in Transcripts) /\ 0 = One(p /\ f \in Scans)
    BY <1>1, <1>2
  <2> QED
    BY <1>1, <2>1, TellsIf
<1>6. ASSUME NEW f \in Scans
      PROVE  LET u == IF p THEN <<Incident(f, n)>> ELSE <<>> IN Tells(u, n, 0, 0, 0, One(p)) /\ Keeps(u, 0, 0)
  <2>1. /\ 0 = One(p /\ f \in Credentials) /\ 0 = One(p /\ f \in Commands)
        /\ 0 = One(p /\ f \in Transcripts) /\ One(p) = One(p /\ f \in Scans)
    BY <1>1, <1>2
  <2> QED
    BY <1>1, <2>1, TellsIf
<1> QED
  BY <1>3, <1>4, <1>5, <1>6

\* What the client did, and what was reported, after a line.
Follows(s, line, d, t, reports, traces, next) ==
  LET e == Did(d, s, line)
  IN  /\ e \in Counts /\ reports \in Seq(Incidents) /\ t \o reports \in Seq(Incidents)
      /\ e.offered > 0 <=> d.offered > 0 \/ Offers(s, line)
      /\ Tally(t \o reports, e.credentials, Capped(e.commands), traces, 0)
      /\ Apart(t \o reports, next)

(* What a line's reports do to the tally, in every dialogue.                  *)
LEMMA LineFollows ==
  ASSUME NEW s, NEW line, NEW d \in Counts, NEW n, n = Capped(d.commands), NEW t, NEW z \in Nat, NEW mail, NEW next,
         Tally(t, d.credentials, n, z, 0), Apart(t, mail), NEW reports, NEW x,
         Tells(reports, n, One(Offers(s, line) /\ line # "keyboard-interactive"),
               One(Runs(s, line) /\ n < MaxCommands), x, 0),
         Keeps(reports, mail, next)
  PROVE  Follows(s, line, d, t, reports, z + x, next)
<1> DEFINE e == Did(d, s, line)
           k == One(Offers(s, line) /\ line # "keyboard-interactive")
           m == One(Runs(s, line) /\ n < MaxCommands)
<1>1. /\ n \in Nat /\ e \in Counts
      /\ e.offered > 0 <=> d.offered > 0 \/ Offers(s, line)
      /\ e.credentials = d.credentials + k
      /\ Capped(e.commands) = n + m
  BY CountsFollow
<1> HIDE DEF e, k, m
<1>2. d.credentials \in Nat /\ 0 \in Nat /\ 0 + 0 = 0
  BY DEF Counts
<1>3. Tells(reports, n, k, m, x, 0)
  BY DEF k, m
<1>4. Tally(t \o reports, d.credentials + k, n + m, z + x, 0 + 0)
  BY <1>2, <1>3 DEF Tells
<1>5. Tally(t \o reports, e.credentials, Capped(e.commands), z + x, 0)
  BY <1>1, <1>2, <1>4
<1>6. reports \in Seq(Incidents) /\ t \in Seq(Incidents) /\ t \o reports \in Seq(Incidents)
  BY <1>3, <1>5 DEF Tells, Tally
<1>7. Apart(t \o reports, next)
  BY <1>6 DEF Keeps
<1> QED
  BY <1>1, <1>5, <1>6, <1>7 DEF e, Follows

\* What the reports of a connection come to: every credential, every command up
\* to the cap and at most one transcript; once it has ended, one trace.
Evidence(t, d, ended) ==
  \E x, y \in Nat :
    /\ Tally(t, d.credentials, Capped(d.commands), x, y) /\ x <= 1
    /\ ended /\ setting.protocol # "smtp" =>
         /\ y = One(d.offered = 0)
         /\ setting.protocol # "ftp" => (x = 0 <=> Capped(d.commands) = 0)

\* The close of an FTP connection tells of a scan if nothing else did.
LEMMA FtpEnd ==
  ASSUME setting.protocol = "ftp", NEW s, NEW t, NEW d, FtpInv(s, t, d)
  PROVE  /\ Evidence(t, d, FALSE) /\ Apart(t, 0)
         /\ FtpCloses(s) \in Seq(Incidents)
         /\ Evidence(t \o FtpCloses(s), d, TRUE) /\ Apart(t \o FtpCloses(s), 0)
<1> DEFINE u == FtpCloses(s)
           p == ~s.credentialSeen
<1>1. /\ s \in FtpSessions /\ d \in Counts
      /\ s.commands = Capped(d.commands)
      /\ s.credentialSeen <=> d.offered > 0
      /\ Tally(t, d.credentials, s.commands, 0, 0) /\ Apart(t, 0)
  BY DEF FtpInv
<1>2. /\ s.commands \in Nat /\ d.offered \in Nat /\ d.credentials \in Nat /\ t \in Seq(Incidents)
      /\ 0 \in Nat /\ 0 + 0 = 0 /\ 0 <= 1
  BY <1>1 DEF FtpSessions, Counts, Tally
<1>3. Evidence(t, d, FALSE)
  BY <1>1, <1>2 DEF Evidence
<1>4. u = IF p THEN <<Incident("ftp-scan", s.commands)>> ELSE <<>>
  BY DEF FtpCloses
<1>5. p \in BOOLEAN /\ "ftp-scan" \in Scans
  BY DEF Scans
<1>6. p <=> d.offered = 0
  BY <1>1, <1>2
<1> HIDE DEF u, p
<1>7. Tells(u, s.commands, 0, 0, 0, One(p)) /\ Keeps(u, 0, 0)
  BY <1>2, <1>4, <1>5, TellsWhen
<1>8. One(p) \in Nat /\ One(p) = One(d.offered = 0)
  BY <1>6 DEF One
<1>9. Tally(t \o u, d.credentials + 0, s.commands + 0, 0 + 0, 0 + One(p))
  BY <1>1, <1>2, <1>7 DEF Tells
<1>10. d.credentials + 0 = d.credentials /\ s.commands + 0 = s.commands /\ 0 + One(p) = One(p)
  BY <1>2, <1>8
<1>11. Tally(t \o u, d.credentials, Capped(d.commands), 0, One(p))
  BY <1>1, <1>2, <1>9, <1>10
<1>12. Evidence(t \o u, d, TRUE)
  BY <1>2, <1>8, <1>11 DEF Evidence
<1>13. u \in Seq(Incidents) /\ Apart(t \o u, 0)
  BY <1>1, <1>2, <1>7 DEF Tells, Keeps
<1> QED
  BY <1>1, <1>3, <1>12, <1>13 DEF u

----------------------------------------------------------------------------
(* Telnet. *)

TelnetSessions == [lines : Nat, mode : {"login", "password", "shell"}, attempts : Nat, credentialSeen : BOOLEAN,
                   commands : Nat, emitted : BOOLEAN]

\* A shell is behind a credential; a transcript is of some commands.
TelnetSane(s) ==
  /\ s \in TelnetSessions
  /\ s.mode = "shell" => s.credentialSeen
  /\ s.commands > 0 => s.credentialSeen
  /\ s.emitted => s.commands > 0

TelnetInv(s, t, d) ==
  /\ TelnetSane(s) /\ d \in Counts
  /\ s.commands = Capped(d.commands)
  /\ s.credentialSeen <=> d.offered > 0
  /\ Tally(t, d.credentials, s.commands, One(s.emitted), 0) /\ Apart(t, 0)

\* The transcript, if there is one to report.
LEMMA TelnetTranscriptTells ==
  ASSUME NEW s \in TelnetSessions
  PROVE  LET p == s.commands # 0 /\ ~s.emitted
         IN  /\ Tells(TelnetTranscript(s), s.commands, 0, 0, One(p), 0) /\ Keeps(TelnetTranscript(s), 0, 0)
             /\ One(s.emitted \/ s.commands # 0) = One(s.emitted) + One(p)
<1> DEFINE p == s.commands # 0 /\ ~s.emitted
<1>1. s.commands \in Nat
  BY DEF TelnetSessions
<1>2. TelnetTranscript(s) = IF p THEN <<Incident("telnet-session", s.commands)>> ELSE <<>>
  BY DEF TelnetTranscript
<1>3. One(s.emitted \/ s.commands # 0) = One(s.emitted) + One(p)
  BY DEF One
<1>4. p \in BOOLEAN /\ "telnet-session" \in Transcripts
  BY DEF Transcripts
<1> HIDE DEF p
<1>5. Tells(TelnetTranscript(s), s.commands, 0, 0, One(p), 0) /\ Keeps(TelnetTranscript(s), 0, 0)
  BY <1>1, <1>2, <1>4, TellsWhen
<1> QED
  BY <1>3, <1>5 DEF p

\* What a line of the Telnet dialogue comes to.
LEMMA TelnetLineTells ==
  ASSUME setting.protocol = "telnet", NEW s, TelnetSane(s), NEW line \in TelnetLines, NEW interactive \in BOOLEAN
  PROVE  LET r == TelnetLine(s, line, interactive)
             offers == Offers(s, line)
             more == One(Runs(s, line) /\ s.commands < MaxCommands)
         IN  /\ TelnetSane(r.session)
             /\ r.session.credentialSeen <=> s.credentialSeen \/ offers
             /\ r.session.commands = s.commands + more
             /\ \E x \in Nat : /\ Tells(r.told, s.commands, One(offers), more, x, 0) /\ Keeps(r.told, 0, 0)
                              /\ One(r.session.emitted) = One(s.emitted) + x
<1> DEFINE r == TelnetLine(s, line, interactive)
           t == [s EXCEPT !.lines = @ + 1]
           offers == Offers(s, line)
           runs == Runs(s, line) /\ s.commands < MaxCommands
<1>1. /\ t \in TelnetSessions /\ t.lines = s.lines + 1 /\ t.mode = s.mode /\ t.attempts = s.attempts
      /\ t.credentialSeen = s.credentialSeen /\ t.commands = s.commands /\ t.emitted = s.emitted
  BY DEF TelnetSessions, TelnetSane
<1>2. /\ offers <=> s.lines < MaxLines /\ s.mode = "password"
      /\ runs <=> s.lines < MaxLines /\ s.mode = "shell" /\ line # "" /\ s.commands < MaxCommands
  BY DEF Offers, Runs
<1>3. /\ s \in TelnetSessions
      /\ s.lines \in Nat /\ MaxLines \in Nat /\ s.commands \in Nat /\ s.attempts \in Nat /\ MaxCommands \in Nat
      /\ s.mode \in {"login", "password", "shell"} /\ s.credentialSeen \in BOOLEAN /\ s.emitted \in BOOLEAN
  BY DialogueAssumption DEF TelnetSessions, TelnetSane
<1>4. /\ s.mode = "shell" => s.credentialSeen
      /\ s.commands > 0 => s.credentialSeen
      /\ s.emitted => s.commands > 0
  BY DEF TelnetSane
<1> HIDE DEF t, offers, runs
<1>5. \A x, y, z : Reply(x, y, z).session = x /\ Reply(x, y, z).told = y
  BY DEF Reply
<1>6. One(s.emitted) \in Nat /\ 0 \in Nat /\ One(s.emitted) + 0 = One(s.emitted) /\ s.commands + 0 = s.commands
      /\ \A q : One(q) \in Nat /\ (q => One(q) = 1) /\ (~q => One(q) = 0)
  BY <1>3 DEF One
<1> DEFINE goal(u, reports, x) ==
             /\ TelnetSane(u)
             /\ u.credentialSeen <=> s.credentialSeen \/ offers
             /\ u.commands = s.commands + One(runs)
             /\ Tells(reports, s.commands, One(offers), One(runs), x, 0) /\ Keeps(reports, 0, 0)
             /\ One(u.emitted) = One(s.emitted) + x
<1>7. ASSUME ~offers, ~runs, NEW u \in TelnetSessions, u.credentialSeen = s.credentialSeen, u.commands = s.commands,
             u.emitted = s.emitted, u.mode = "shell" => s.mode = "shell"
      PROVE  goal(u, <<>>, 0)
  <2>1. One(offers) = 0 /\ One(runs) = 0
    BY <1>7 DEF One
  <2>2. Tells(<<>>, s.commands, 0, 0, 0, 0) /\ Keeps(<<>>, 0, 0)
    BY <1>3, <1>6, TellsNothing
  <2>3. TelnetSane(u)
    BY <1>4, <1>7 DEF TelnetSane
  <2> QED
    BY <1>6, <1>7, <2>1, <2>2, <2>3
<1>8. \A m \in {"login", "password", "shell"} :
        LET u == [t EXCEPT !.mode = m]
        IN  /\ u \in TelnetSessions /\ u.mode = m /\ u.credentialSeen = t.credentialSeen
            /\ u.commands = t.commands /\ u.emitted = t.emitted
  BY <1>1 DEF TelnetSessions
<1>9. SUFFICES \E u, reports : r.session = u /\ r.told = reports /\ \E x \in Nat : goal(u, reports, x)
  <2> HIDE DEF r
  <2>1. ASSUME NEW u, NEW reports, r.session = u, r.told = reports, NEW x \in Nat, goal(u, reports, x)
        PROVE  goal(r.session, r.told, x)
    BY <2>1
  <2> QED
    BY <2>1 DEF offers, runs, r
<1>10. CASE t.lines > MaxLines
  <2>1. ~(t.lines <= MaxLines)
    BY <1>1, <1>3, <1>10
  <2>2. r = Reply(t, <<>>, "destroyed")
    BY <1>10, <2>1 DEF TelnetLine, t
  <2>3. ~(s.lines < MaxLines)
    BY <1>1, <1>3, <1>10
  <2>5. ~offers /\ ~runs
    BY <1>2, <2>3
  <2> HIDE DEF r
  <2>4. goal(t, <<>>, 0)
    BY <1>1, <1>7, <2>5
  <2> QED
    BY <1>5, <1>6, <2>2, <2>4
<1>11. CASE t.lines <= MaxLines
  <2>0. ~(t.lines > MaxLines) /\ s.lines < MaxLines
    BY <1>1, <1>3, <1>11
  <2>1. CASE s.mode = "login"
    <3> DEFINE m == IF line = "" THEN "login" ELSE "password"
    <3>1. r = Reply([t EXCEPT !.mode = m], <<>>, "open")
      BY <1>11, <2>0, <2>1 DEF TelnetLine, TelnetLogin, Says, t
    <3>2. ~offers /\ ~runs
      BY <1>2, <2>1
    <3>3. m \in {"login", "password", "shell"} /\ m # "shell"
      OBVIOUS
    <3> DEFINE u == [t EXCEPT !.mode = m]
    <3> HIDE DEF m, r
    <3>4. /\ u \in TelnetSessions /\ u.mode = m /\ u.credentialSeen = t.credentialSeen
          /\ u.commands = t.commands /\ u.emitted = t.emitted
      BY <1>8, <3>3
    <3> HIDE DEF u
    <3>5. goal(u, <<>>, 0)
      BY <1>1, <1>7, <3>2, <3>3, <3>4
    <3>6. r = Reply(u, <<>>, "open")
      BY <3>1 DEF u
    <3> QED
      BY <1>5, <1>6, <3>5, <3>6
  <2>2. CASE s.mode = "password"
    <3> DEFINE v == [t EXCEPT !.credentialSeen = TRUE, !.attempts = @ + 1]
               reports == <<Incident("telnet-auth-bruteforce", t.commands)>>
    <3>1. r = TelnetPassword(t, interactive)
      BY <1>11, <2>0, <2>2 DEF TelnetLine, t
    <3>2. /\ v \in TelnetSessions /\ v.credentialSeen = TRUE /\ v.commands = t.commands
          /\ v.emitted = t.emitted /\ v.mode = t.mode
      <4>1. \A p \in BOOLEAN : \A n \in Nat :
              LET u == [t EXCEPT !.credentialSeen = p, !.attempts = n]
              IN  /\ u \in TelnetSessions /\ u.credentialSeen = p /\ u.commands = t.commands
                  /\ u.emitted = t.emitted /\ u.mode = t.mode
        BY <1>1 DEF TelnetSessions
      <4>2. TRUE \in BOOLEAN /\ t.attempts + 1 \in Nat
        BY <1>1, <1>3
      <4> QED
        BY <4>1, <4>2, Zenon
    <3>3. \A u \in {v, [v EXCEPT !.mode = "shell"], [v EXCEPT !.mode = "login"]} :
            /\ u \in TelnetSessions /\ u.credentialSeen = TRUE /\ u.commands = t.commands /\ u.emitted = t.emitted
      <4> HIDE DEF v
      <4>1. \A w \in TelnetSessions : \A m \in {"login", "password", "shell"} :
              LET u == [w EXCEPT !.mode = m]
              IN  /\ u \in TelnetSessions /\ u.credentialSeen = w.credentialSeen
                  /\ u.commands = w.commands /\ u.emitted = w.emitted
        BY DEF TelnetSessions
      <4>2. "shell" \in {"login", "password", "shell"} /\ "login" \in {"login", "password", "shell"}
        OBVIOUS
      <4>3. ASSUME NEW m \in {"login", "password", "shell"}
            PROVE  LET u == [v EXCEPT !.mode = m]
                   IN  u \in TelnetSessions /\ u.credentialSeen = TRUE /\ u.commands = t.commands /\ u.emitted = t.emitted
        <5> DEFINE u == [v EXCEPT !.mode = m]
        <5>1. /\ u \in TelnetSessions /\ u.credentialSeen = v.credentialSeen
              /\ u.commands = v.commands /\ u.emitted = v.emitted
          BY <3>2, <4>1, Zenon
        <5> HIDE DEF u
        <5>2. u \in TelnetSessions /\ u.credentialSeen = TRUE /\ u.commands = t.commands /\ u.emitted = t.emitted
          BY <3>2, <5>1
        <5> QED
          BY <5>2 DEF u
      <4> QED
        BY <3>2, <4>2, <4>3, Zenon
    <3>4. \E u \in {v, [v EXCEPT !.mode = "shell"], [v EXCEPT !.mode = "login"]} :
            r.session = u /\ r.told = reports
      <4> DEFINE in == [v EXCEPT !.mode = "shell"]
                 out == [v EXCEPT !.mode = "login"]
      <4>1. CASE interactive /\ v.attempts >= AcceptOn
        <5>1. r = Reply(in, reports, "open")
          BY <3>1, <4>1 DEF TelnetPassword
        <5> HIDE DEF r, v, in, reports
        <5> QED
          BY <1>5, <5>1 DEF in
      <4>2. CASE ~(interactive /\ v.attempts >= AcceptOn) /\ v.attempts >= MaxAttempts
        <5>1. r = Reply(v, reports, "ended")
          BY <3>1, <4>2 DEF TelnetPassword
        <5> HIDE DEF r, v, reports
        <5> QED
          BY <1>5, <5>1
      <4>3. CASE ~(interactive /\ v.attempts >= AcceptOn) /\ ~(v.attempts >= MaxAttempts)
        <5>1. r = Reply(out, reports, "open")
          BY <3>1, <4>3 DEF TelnetPassword
        <5> HIDE DEF r, v, out, reports
        <5> QED
          BY <1>5, <5>1 DEF out
      <4> QED
        BY <4>1, <4>2, <4>3
    <3>5. offers /\ ~runs /\ One(offers) = 1 /\ One(runs) = 0
      BY <1>2, <2>0, <2>2 DEF One
    <3>6. Tells(reports, s.commands, 1, 0, 0, 0) /\ Keeps(reports, 0, 0)
      BY <1>1, <1>3, Kinds, TellsFinding
    <3> HIDE DEF r, v, reports
    <3>7. PICK u \in {v, [v EXCEPT !.mode = "shell"], [v EXCEPT !.mode = "login"]} :
            r.session = u /\ r.told = reports
      BY <3>4
    <3>8. u \in TelnetSessions /\ u.credentialSeen = TRUE /\ u.commands = t.commands /\ u.emitted = t.emitted
      BY <3>3, <3>7
    <3>9. TelnetSane(u)
      BY <1>1, <1>4, <3>8 DEF TelnetSane
    <3>10. goal(u, reports, 0)
      BY <1>1, <1>6, <3>5, <3>6, <3>8, <3>9
    <3> QED
      BY <1>6, <3>7, <3>10
  <2>3. CASE s.mode = "shell"
    <3> DEFINE captured == line # "" /\ Captures(t)
               w == [t EXCEPT !.commands = IF captured THEN @ + 1 ELSE @]
               one == IF captured THEN <<Incident("telnet-command", w.commands)>> ELSE <<>>
               two == TelnetTranscript(w)
               p == w.commands # 0 /\ ~w.emitted
    <3>1. r = TelnetShell(t, line)
      BY <1>11, <2>0, <2>3 DEF TelnetLine, t
    <3>2. ~offers /\ (captured <=> runs) /\ One(offers) = 0
      BY <1>1, <1>2, <2>0, <2>3 DEF Captures, One
    <3>3. /\ w \in TelnetSessions /\ w.credentialSeen = s.credentialSeen /\ w.emitted = s.emitted
          /\ w.commands = s.commands + One(runs) /\ w.mode = s.mode
      <4>1. \A n \in Nat : LET u == [t EXCEPT !.commands = n]
                           IN  /\ u \in TelnetSessions /\ u.credentialSeen = t.credentialSeen
                               /\ u.emitted = t.emitted /\ u.commands = n /\ u.mode = t.mode
        BY <1>1 DEF TelnetSessions
      <4>2. w = [t EXCEPT !.commands = t.commands + One(runs)]
        <5> HIDE DEF captured
        <5>1. CASE runs
          <6>1. w = [t EXCEPT !.commands = t.commands + 1] /\ One(runs) = 1
            BY <3>2, <5>1 DEF One
          <6> QED
            BY <6>1
        <5>2. CASE ~runs
          <6>1. w = [t EXCEPT !.commands = t.commands] /\ One(runs) = 0 /\ t.commands + 0 = t.commands
            BY <1>1, <1>3, <3>2, <5>2 DEF One
          <6> QED
            BY <6>1
        <5> QED
          BY <5>1, <5>2
      <4>3. t.commands + One(runs) \in Nat
        BY <1>1, <1>3 DEF One
      <4> HIDE DEF w
      <4> QED
        BY <1>1, <4>1, <4>2, <4>3
    <3>4. Tells(one, s.commands, 0, One(runs), 0, 0) /\ Keeps(one, 0, 0)
      <4>1. one = IF runs THEN <<Incident("telnet-command", s.commands + 1)>> ELSE <<>>
        <5> HIDE DEF captured, w
        <5>1. CASE runs
          <6>1. one = <<Incident("telnet-command", w.commands)>> /\ One(runs) = 1
            BY <3>2, <5>1 DEF One
          <6> QED
            BY <3>3, <5>1, <6>1
        <5>2. CASE ~runs
          BY <3>2, <5>2
        <5> QED
          BY <5>1, <5>2
      <4>2. runs \in BOOLEAN /\ "telnet-command" \in Commands
        BY DEF runs, Commands
      <4> HIDE DEF one
      <4> QED
        BY <1>3, <4>1, <4>2, TellsWhen
    <3>5. TelnetSane(w) /\ s.credentialSeen
      <4> HIDE DEF w
      <4>1. s.credentialSeen
        BY <1>4, <2>3
      <4>2. One(runs) \in Nat
        BY <1>6
      <4>3. w.emitted => w.commands > 0
        BY <1>3, <1>4, <3>3, <4>2
      <4> QED
        BY <3>3, <4>1, <4>3 DEF TelnetSane
    <3>6. /\ Tells(two, w.commands, 0, 0, One(p), 0) /\ Keeps(two, 0, 0)
          /\ One(w.emitted \/ w.commands # 0) = One(w.emitted) + One(p)
      <4> HIDE DEF w
      <4> QED
        BY <3>3, TelnetTranscriptTells
    <3>7. CASE line = "exit" \/ ~Captures(w)
      <4> DEFINE u == TelnetEmitted(w)
      <4>1. r = Reply(u, one \o two, "ended")
        BY <3>1, <3>7 DEF TelnetShell
      <4>2. /\ u \in TelnetSessions /\ u.credentialSeen = w.credentialSeen /\ u.mode = w.mode
            /\ u.commands = w.commands /\ u.emitted = (w.emitted \/ w.commands # 0)
        <5>1. \A q \in BOOLEAN : LET y == [w EXCEPT !.emitted = q]
                                IN  /\ y \in TelnetSessions /\ y.credentialSeen = w.credentialSeen
                                    /\ y.mode = w.mode /\ y.commands = w.commands /\ y.emitted = q
          BY <3>3 DEF TelnetSessions
        <5>2. (w.emitted \/ w.commands # 0) \in BOOLEAN
          OBVIOUS
        <5> HIDE DEF w
        <5> QED
          BY <5>1, <5>2, Zenon DEF TelnetEmitted
      <4> HIDE DEF w, r, one, two, u, p
      <4>3. TelnetSane(u)
        <5>1. w.commands \in Nat
          BY <1>3, <1>6, <3>3
        <5>2. u.emitted => u.commands > 0
          <6>1. u.emitted => w.emitted \/ w.commands # 0
            BY <4>2
          <6>2. w.emitted => w.commands > 0
            BY <3>5 DEF TelnetSane
          <6> QED
            BY <4>2, <5>1, <6>1, <6>2
        <5> QED
          BY <3>5, <4>2, <5>2 DEF TelnetSane
      <4>4. One(u.emitted) = One(s.emitted) + One(p)
        <5>1. One(u.emitted) = One(w.emitted \/ w.commands # 0)
          BY <4>2
        <5> QED
          BY <3>3, <3>6, <5>1
      <4>5. Tells(one \o two, s.commands, 0, One(runs), One(p), 0) /\ Keeps(one \o two, 0, 0)
        <5>1. /\ 0 + 0 = 0 /\ One(runs) + 0 = One(runs) /\ 0 + One(p) = One(p) /\ One(p) \in Nat
          BY <1>6
        <5>2. one \in Seq(Incidents) /\ two \in Seq(Incidents)
          BY <3>4, <3>6 DEF Tells
        <5>3. Tells(two, s.commands + One(runs), 0, 0, One(p), 0)
          BY <3>3, <3>6
        <5>4. Tells(one \o two, s.commands, 0 + 0, One(runs) + 0, 0 + One(p), 0 + 0)
          BY <1>3, <3>4, <5>3, TellsBoth, Zenon
        <5>5. Keeps(one \o two, 0, 0)
          BY <3>4, <3>6, <5>2, KeepsBoth
        <5> QED
          BY <5>1, <5>4, <5>5
      <4>6. goal(u, one \o two, One(p))
        BY <3>2, <3>3, <4>2, <4>3, <4>4, <4>5
      <4>7. One(p) \in Nat
        BY <1>6
      <4> HIDE DEF goal
      <4> QED
        BY <1>5, <4>1, <4>6, <4>7
    <3>8. CASE ~(line = "exit" \/ ~Captures(w))
      <4>1. r = Reply(w, one, "open")
        BY <3>1, <3>8 DEF TelnetShell
      <4> HIDE DEF w, r, one, p
      <4>2. goal(w, one, 0)
        BY <1>6, <3>2, <3>3, <3>4, <3>5
      <4> HIDE DEF goal
      <4> QED
        BY <1>5, <1>6, <4>1, <4>2
    <3> QED
      BY <3>7, <3>8
  <2> QED
    BY <1>3, <2>1, <2>2, <2>3
<1> QED
  BY <1>1, <1>3, <1>10, <1>11

\* A line of the Telnet dialogue keeps its invariant.
LEMMA TelnetStep ==
  ASSUME setting.protocol = "telnet", NEW s, NEW t, NEW d, TelnetInv(s, t, d), NEW line \in TelnetLines,
         NEW interactive \in BOOLEAN
  PROVE  LET r == TelnetLine(s, line, interactive)
         IN  r.told \in Seq(Incidents) /\ TelnetInv(r.session, t \o r.told, Did(d, s, line))
<1> DEFINE r == TelnetLine(s, line, interactive)
           k == One(Offers(s, line) /\ line # "keyboard-interactive")
           e == Did(d, s, line)
<1>1. /\ TelnetSane(s) /\ d \in Counts
      /\ s.commands = Capped(d.commands)
      /\ s.credentialSeen <=> d.offered > 0
      /\ Tally(t, d.credentials, s.commands, One(s.emitted), 0) /\ Apart(t, 0)
  BY DEF TelnetInv
<1>2. /\ TelnetSane(r.session)
      /\ r.session.credentialSeen <=> s.credentialSeen \/ Offers(s, line)
      /\ r.session.commands = s.commands + One(Runs(s, line) /\ s.commands < MaxCommands)
      /\ \E x \in Nat : /\ Tells(r.told, s.commands, One(Offers(s, line)),
                                  One(Runs(s, line) /\ s.commands < MaxCommands), x, 0)
                       /\ Keeps(r.told, 0, 0)
                       /\ One(r.session.emitted) = One(s.emitted) + x
  BY <1>1, TelnetLineTells
<1> HIDE DEF r
<1>3. k = One(Offers(s, line))
  BY DEF TelnetLines, One
<1>4. PICK x \in Nat : /\ Tells(r.told, s.commands, k, One(Runs(s, line) /\ s.commands < MaxCommands), x, 0)
                      /\ Keeps(r.told, 0, 0)
                      /\ One(r.session.emitted) = One(s.emitted) + x
  BY <1>2, <1>3
<1>5. One(s.emitted) \in Nat
  BY DEF One
<1>6. /\ e \in Counts /\ r.told \in Seq(Incidents)
      /\ e.offered > 0 <=> d.offered > 0 \/ Offers(s, line)
      /\ Tally(t \o r.told, e.credentials, Capped(e.commands), One(s.emitted) + x, 0)
      /\ Apart(t \o r.told, 0)
  <2>1. Tally(t, d.credentials, s.commands, One(s.emitted), 0) /\ Apart(t, 0) /\ d \in Counts
    BY <1>1
  <2>2. s.commands = Capped(d.commands)
    BY <1>1
  <2>3. Follows(s, line, d, t, r.told, One(s.emitted) + x, 0)
    BY <1>4, <1>5, <2>1, <2>2, LineFollows, Zenon
  <2> QED
    BY <2>3 DEF Follows
<1>7. Capped(e.commands) = r.session.commands
  BY <1>1, <1>2, CountsFollow
<1> HIDE DEF e
<1>8. TelnetInv(r.session, t \o r.told, e)
  BY <1>1, <1>2, <1>4, <1>6, <1>7 DEF TelnetInv
<1> QED
  BY <1>6, <1>8 DEF r, e

\* The close of a Telnet connection tells its transcript, or of a scan.
LEMMA TelnetEnd ==
  ASSUME setting.protocol = "telnet", NEW s, NEW t, NEW d, TelnetInv(s, t, d)
  PROVE  /\ Evidence(t, d, FALSE) /\ Apart(t, 0)
         /\ TelnetCloses(s) \in Seq(Incidents)
         /\ Evidence(t \o TelnetCloses(s), d, TRUE) /\ Apart(t \o TelnetCloses(s), 0)
<1> DEFINE u == TelnetCloses(s)
           p == s.commands # 0 /\ ~s.emitted
<1>1. /\ TelnetSane(s) /\ d \in Counts
      /\ s.commands = Capped(d.commands)
      /\ s.credentialSeen <=> d.offered > 0
      /\ Tally(t, d.credentials, s.commands, One(s.emitted), 0) /\ Apart(t, 0)
  BY DEF TelnetInv
<1>2. /\ s \in TelnetSessions /\ s.commands \in Nat /\ d.offered \in Nat /\ d.credentials \in Nat
      /\ s.commands > 0 => s.credentialSeen
      /\ s.emitted => s.commands > 0
      /\ t \in Seq(Incidents)
  BY <1>1 DEF TelnetSane, TelnetSessions, Counts, Tally
<1>3. One(s.emitted) \in Nat /\ One(s.emitted) <= 1 /\ 0 \in Nat /\ 0 + 0 = 0
  BY DEF One
<1>4. Evidence(t, d, FALSE)
  BY <1>1, <1>3 DEF Evidence
<1>5. CASE s.credentialSeen
  <2>1. u = TelnetTranscript(s)
    BY <1>5 DEF TelnetCloses
  <2>2. /\ Tells(u, s.commands, 0, 0, One(p), 0) /\ Keeps(u, 0, 0)
        /\ One(s.emitted \/ s.commands # 0) = One(s.emitted) + One(p)
    BY <1>2, <2>1, TelnetTranscriptTells
  <2> HIDE DEF u
  <2>3. /\ d.credentials + 0 = d.credentials /\ s.commands + 0 = s.commands
        /\ One(s.emitted) + One(p) = One(s.commands # 0)
        /\ One(s.commands # 0) \in Nat /\ One(s.commands # 0) <= 1 /\ (One(s.commands # 0) = 0 <=> s.commands = 0)
    <3>1. (s.emitted \/ s.commands # 0) <=> s.commands # 0
      BY <1>2
    <3>2. One(s.emitted \/ s.commands # 0) = One(s.commands # 0)
      BY <3>1 DEF One
    <3>3. One(s.commands # 0) \in Nat /\ One(s.commands # 0) <= 1 /\ (One(s.commands # 0) = 0 <=> s.commands = 0)
      BY DEF One
    <3> QED
      BY <1>2, <2>2, <3>2, <3>3
  <2>4. Tally(t \o u, d.credentials + 0, s.commands + 0, One(s.emitted) + One(p), 0 + 0)
    BY <1>1, <1>2, <1>3, <2>2 DEF Tells
  <2>5. Tally(t \o u, d.credentials, Capped(d.commands), One(s.commands # 0), 0)
    BY <1>1, <1>3, <2>3, <2>4
  <2>6. 0 = One(d.offered = 0)
    BY <1>1, <1>2, <1>5 DEF One
  <2>7. Evidence(t \o u, d, TRUE)
    BY <1>1, <1>3, <2>3, <2>5, <2>6 DEF Evidence
  <2>8. u \in Seq(Incidents) /\ Apart(t \o u, 0)
    BY <1>1, <1>2, <2>2 DEF Tells, Keeps
  <2> QED
    BY <1>1, <1>4, <2>7, <2>8 DEF u
<1>6. CASE ~s.credentialSeen
  <2>1. u = <<Incident("telnet-scan", s.commands)>>
    BY <1>6 DEF TelnetCloses
  <2>2. Tells(u, s.commands, 0, 0, 0, 1) /\ Keeps(u, 0, 0)
    <3>1. "telnet-scan" \in Scans
      BY DEF Scans
    <3> QED
      BY <1>2, <2>1, <3>1, Kinds, TellsFinding
  <2> HIDE DEF u
  <2>3. s.commands = 0 /\ One(s.emitted) = 0 /\ 0 + 1 = 1 /\ d.credentials + 0 = d.credentials
    BY <1>2, <1>6 DEF One
  <2>4. Tally(t \o u, d.credentials + 0, s.commands + 0, One(s.emitted) + 0, 0 + 1)
    BY <1>1, <1>2, <1>3, <2>2 DEF Tells
  <2>5. Tally(t \o u, d.credentials, Capped(d.commands), 0, 1)
    BY <1>1, <1>3, <2>3, <2>4
  <2>6. 1 = One(d.offered = 0) /\ 1 \in Nat /\ 0 <= 1
    BY <1>1, <1>2, <1>6 DEF One
  <2>7. Evidence(t \o u, d, TRUE)
    BY <1>1, <1>3, <2>3, <2>5, <2>6 DEF Evidence
  <2>8. u \in Seq(Incidents) /\ Apart(t \o u, 0)
    BY <1>1, <1>2, <2>2 DEF Tells, Keeps
  <2> QED
    BY <1>1, <1>4, <2>7, <2>8 DEF u
<1> QED
  BY <1>5, <1>6

----------------------------------------------------------------------------
(* SSH. *)

SshSessions == [mode : {"auth", "ready"}, attempts : Nat, credentialSeen : BOOLEAN, shell : BOOLEAN,
                commands : Nat, emitted : BOOLEAN]

\* A shell is behind a credential; what was run and not reported is in a shell
\* that is still there.
SshSane(s) ==
  /\ s \in SshSessions
  /\ s.mode = "ready" => s.credentialSeen
  /\ s.shell => s.mode = "ready"
  /\ s.commands > 0 => s.credentialSeen /\ (s.emitted \/ s.shell)
  /\ s.emitted => s.commands > 0

SshInv(s, t, d) ==
  /\ SshSane(s) /\ d \in Counts
  /\ s.commands = Capped(d.commands)
  /\ s.credentialSeen <=> d.offered > 0
  /\ Tally(t, d.credentials, s.commands, One(s.emitted), 0) /\ Apart(t, 0)

\* The transcript, if there is one to report.
LEMMA SshTranscriptTells ==
  ASSUME NEW s \in SshSessions
  PROVE  LET p == s.commands # 0 /\ ~s.emitted
         IN  /\ Tells(SshTranscript(s), s.commands, 0, 0, One(p), 0) /\ Keeps(SshTranscript(s), 0, 0)
             /\ One(s.emitted \/ s.commands # 0) = One(s.emitted) + One(p)
<1> DEFINE p == s.commands # 0 /\ ~s.emitted
<1>1. s.commands \in Nat
  BY DEF SshSessions
<1>2. SshTranscript(s) = IF p THEN <<Incident("ssh-shell-session", s.commands)>> ELSE <<>>
  BY DEF SshTranscript
<1>3. One(s.emitted \/ s.commands # 0) = One(s.emitted) + One(p)
  BY DEF One
<1>4. p \in BOOLEAN /\ "ssh-shell-session" \in Transcripts
  BY DEF Transcripts
<1> HIDE DEF p
<1>5. Tells(SshTranscript(s), s.commands, 0, 0, One(p), 0) /\ Keeps(SshTranscript(s), 0, 0)
  BY <1>1, <1>2, <1>4, TellsWhen
<1> QED
  BY <1>3, <1>5 DEF p

\* The session with its transcript reported.
LEMMA SshEmittedIs ==
  ASSUME NEW s \in SshSessions
  PROVE  LET u == SshEmitted(s)
         IN  /\ u \in SshSessions /\ u.mode = s.mode /\ u.credentialSeen = s.credentialSeen /\ u.shell = s.shell
             /\ u.commands = s.commands /\ u.emitted = (s.emitted \/ s.commands # 0)
<1>1. \A q \in BOOLEAN :
        LET u == [s EXCEPT !.emitted = q]
        IN  /\ u \in SshSessions /\ u.mode = s.mode /\ u.credentialSeen = s.credentialSeen /\ u.shell = s.shell
            /\ u.commands = s.commands /\ u.emitted = q
  BY DEF SshSessions
<1>2. (s.emitted \/ s.commands # 0) \in BOOLEAN
  OBVIOUS
<1> QED
  BY <1>1, <1>2, Zenon DEF SshEmitted

\* What a session becomes, what it reports and what it says of its client.
SshGoal(s, line, u, reports, x) ==
  /\ SshSane(u)
  /\ u.credentialSeen <=> s.credentialSeen \/ Offers(s, line)
  /\ u.commands = s.commands + One(Runs(s, line) /\ s.commands < MaxCommands)
  /\ x \in Nat
  /\ Tells(reports, s.commands, One(Offers(s, line) /\ line # "keyboard-interactive"),
           One(Runs(s, line) /\ s.commands < MaxCommands), x, 0)
  /\ Keeps(reports, 0, 0)
  /\ One(u.emitted) = One(s.emitted) + x

\* A credential is offered.
LEMMA SshAuthenticationTells ==
  ASSUME setting.protocol = "ssh", NEW s, SshSane(s), s.mode = "auth",
         NEW line \in {"none", "password", "publickey", "keyboard-interactive"}, NEW interactive \in BOOLEAN
  PROVE  LET r == SshAuthentication(s, line, interactive)
         IN  \E x : SshGoal(s, line, r.session, r.told, x)
<1> DEFINE r == SshAuthentication(s, line, interactive)
           t == [s EXCEPT !.credentialSeen = TRUE, !.attempts = @ + 1]
           in == [t EXCEPT !.mode = "ready"]
           runs == Runs(s, line) /\ s.commands < MaxCommands
           offers == Offers(s, line)
           submits == Offers(s, line) /\ line # "keyboard-interactive"
<1>1. /\ s \in SshSessions /\ s.commands \in Nat /\ s.attempts \in Nat /\ ~s.shell
      /\ s.commands > 0 => s.credentialSeen /\ s.emitted
      /\ s.emitted => s.commands > 0
      /\ One(s.emitted) \in Nat /\ 0 \in Nat /\ One(s.emitted) + 0 = One(s.emitted) /\ s.commands + 0 = s.commands
  BY DEF SshSane, SshSessions, One
<1>2. /\ offers <=> line # "none"
      /\ submits <=> line \in {"password", "publickey"}
      /\ ~runs
  BY DEF Offers, Runs
<1>3. \A x, y, z : Reply(x, y, z).session = x /\ Reply(x, y, z).told = y
  BY DEF Reply
<1>4. /\ t \in SshSessions /\ t.credentialSeen = TRUE /\ t.commands = s.commands /\ t.emitted = s.emitted
      /\ t.mode = s.mode /\ t.shell = s.shell
  <2>1. \A p \in BOOLEAN : \A n \in Nat :
          LET u == [s EXCEPT !.credentialSeen = p, !.attempts = n]
          IN  /\ u \in SshSessions /\ u.credentialSeen = p /\ u.commands = s.commands
              /\ u.emitted = s.emitted /\ u.mode = s.mode /\ u.shell = s.shell
    BY <1>1 DEF SshSessions
  <2>2. TRUE \in BOOLEAN /\ s.attempts + 1 \in Nat
    BY <1>1
  <2> QED
    BY <2>1, <2>2, Zenon
<1>5. /\ in \in SshSessions /\ in.credentialSeen = TRUE /\ in.commands = s.commands /\ in.emitted = s.emitted
      /\ in.shell = s.shell
  <2> HIDE DEF t
  <2>1. \A w \in SshSessions : \A m \in {"auth", "ready"} :
          LET u == [w EXCEPT !.mode = m]
          IN  /\ u \in SshSessions /\ u.credentialSeen = w.credentialSeen /\ u.commands = w.commands
              /\ u.emitted = w.emitted /\ u.shell = w.shell
    BY DEF SshSessions
  <2>2. "ready" \in {"auth", "ready"}
    OBVIOUS
  <2> QED
    BY <1>4, <2>1, <2>2, Zenon
<1> HIDE DEF t, in
<1>6. \A u \in {t, in} : SshSane(u) /\ u.credentialSeen = TRUE /\ u.commands = s.commands /\ u.emitted = s.emitted
  <2>1. SshSane(t)
    BY <1>1, <1>4 DEF SshSane
  <2>2. SshSane(in)
    BY <1>1, <1>5 DEF SshSane
  <2> QED
    BY <1>4, <1>5, <2>1, <2>2
<1>7. Tells(<<>>, s.commands, 0, 0, 0, 0) /\ Keeps(<<>>, 0, 0)
  BY <1>1, TellsNothing
<1> HIDE DEF runs, offers, submits
<1>8. One(runs) = 0
  BY <1>2 DEF One
<1> DEFINE goal(u, reports) ==
             /\ SshSane(u)
             /\ u.credentialSeen <=> s.credentialSeen \/ offers
             /\ u.commands = s.commands + One(runs)
             /\ Tells(reports, s.commands, One(submits), One(runs), 0, 0)
             /\ Keeps(reports, 0, 0)
             /\ One(u.emitted) = One(s.emitted) + 0
<1>9. SUFFICES \E u, reports : r.session = u /\ r.told = reports /\ goal(u, reports)
  <2> HIDE DEF r
  <2>1. ASSUME NEW u, NEW reports, r.session = u, r.told = reports, goal(u, reports)
        PROVE  SshGoal(s, line, r.session, r.told, 0)
    BY <1>1, <2>1 DEF SshGoal, offers, runs, submits
  <2> QED
    BY <2>1 DEF r
<1>10. CASE line = "none"
  <2>1. r = Reply(s, <<>>, "open")
    BY <1>10 DEF SshAuthentication, Says
  <2> HIDE DEF r
  <2>2. One(submits) = 0 /\ ~offers
    BY <1>2, <1>10 DEF One
  <2>3. goal(s, <<>>)
    BY <1>1, <1>7, <1>8, <2>2
  <2> QED
    BY <1>3, <2>1, <2>3
<1>11. CASE line = "keyboard-interactive"
  <2>1. r = Reply(t, <<>>, "open")
    BY <1>11 DEF SshAuthentication, Says, t
  <2> HIDE DEF r
  <2>2. One(submits) = 0 /\ offers
    BY <1>2, <1>11 DEF One
  <2>3. goal(t, <<>>)
    BY <1>1, <1>6, <1>7, <1>8, <2>2
  <2> QED
    BY <1>3, <2>1, <2>3
<1>12. CASE line \in {"password", "publickey"}
  <2> DEFINE f == IF line = "password" THEN "ssh-auth-bruteforce" ELSE "ssh-publickey-probe"
             reports == <<Incident(f, s.commands)>>
             ending == IF t.attempts >= MaxAttempts THEN "ended" ELSE "open"
             accepted == line = "password" /\ interactive /\ t.attempts >= AcceptOn
  <2>1. r = IF accepted THEN Reply(in, reports, "open") ELSE Reply(t, reports, ending)
    <3>1. CASE line = "password"
      BY <1>12, <3>1 DEF SshAuthentication, t, in
    <3>2. CASE line = "publickey"
      BY <1>12, <3>2 DEF SshAuthentication, t, in
    <3> QED
      BY <1>12, <3>1, <3>2
  <2>2. Tells(reports, s.commands, 1, 0, 0, 0) /\ Keeps(reports, 0, 0)
    <3>1. f \in {"ssh-auth-bruteforce", "ssh-publickey-probe"}
      OBVIOUS
    <3> HIDE DEF f
    <3> QED
      BY <1>1, <3>1, Kinds, TellsFinding
  <2>3. One(submits) = 1 /\ offers
    BY <1>2, <1>12 DEF One
  <2> HIDE DEF r, reports, ending, accepted
  <2>4. goal(in, reports) /\ goal(t, reports)
    BY <1>1, <1>6, <1>8, <2>2, <2>3
  <2>5. CASE accepted
    BY <1>3, <2>1, <2>4, <2>5
  <2>6. CASE ~accepted
    BY <1>3, <2>1, <2>4, <2>6
  <2> QED
    BY <2>5, <2>6
<1> QED
  BY <1>10, <1>11, <1>12

\* Something happens in a channel.
LEMMA SshChannelTells ==
  ASSUME setting.protocol = "ssh", NEW s, SshSane(s), s.mode = "ready",
         NEW line \in {"exec", "shell", "command", "exit", "close"},
         line \in {"command", "exit", "close"} => s.shell
  PROVE  LET r == SshChannel(s, line)
         IN  \E x : SshGoal(s, line, r.session, r.told, x)
<1> DEFINE r == SshChannel(s, line)
           captured == Captures(s)
           w == [s EXCEPT !.commands = IF captured THEN @ + 1 ELSE @]
           one == IF captured THEN <<Incident("ssh-shell-command", w.commands)>> ELSE <<>>
           runs == Runs(s, line) /\ s.commands < MaxCommands
           offers == Offers(s, line)
           submits == Offers(s, line) /\ line # "keyboard-interactive"
           p(y) == y.commands # 0 /\ ~y.emitted
<1>1. /\ s \in SshSessions /\ s.commands \in Nat /\ s.credentialSeen
      /\ s.commands > 0 => s.emitted \/ s.shell
      /\ s.emitted => s.commands > 0
      /\ One(s.emitted) \in Nat /\ 0 \in Nat /\ One(s.emitted) + 0 = One(s.emitted) /\ s.commands + 0 = s.commands
      /\ MaxCommands \in Nat
  BY DialogueAssumption DEF SshSane, SshSessions, One
<1>2. /\ ~offers /\ ~submits /\ One(submits) = 0
      /\ runs <=> line \in {"command", "exit", "exec"} /\ captured
  BY DEF Offers, Runs, Captures, One
<1>3. /\ \A x, y, z : Reply(x, y, z).session = x /\ Reply(x, y, z).told = y
      /\ \A q : One(q) \in Nat /\ (q => One(q) = 1) /\ (~q => One(q) = 0)
  BY DEF Reply, One
<1> HIDE DEF runs, offers, submits
<1> DEFINE goal(u, reports, x) ==
             /\ SshSane(u)
             /\ u.credentialSeen
             /\ u.commands = s.commands + One(runs)
             /\ x \in Nat
             /\ Tells(reports, s.commands, 0, One(runs), x, 0)
             /\ Keeps(reports, 0, 0)
             /\ One(u.emitted) = One(s.emitted) + x
<1>4. SUFFICES \E u, reports, x : r.session = u /\ r.told = reports /\ goal(u, reports, x)
  <2> HIDE DEF r
  <2>1. ASSUME NEW u, NEW reports, NEW x, r.session = u, r.told = reports, goal(u, reports, x)
        PROVE  SshGoal(s, line, r.session, r.told, x)
    BY <1>1, <1>2, <2>1 DEF SshGoal, offers, runs, submits
  <2> QED
    BY <2>1 DEF r
<1>5. \A q \in BOOLEAN : \A y \in SshSessions :
        LET u == [y EXCEPT !.shell = q]
        IN  /\ u \in SshSessions /\ u.mode = y.mode /\ u.credentialSeen = y.credentialSeen
            /\ u.commands = y.commands /\ u.emitted = y.emitted /\ u.shell = q
  BY DEF SshSessions
<1>6. CASE line = "shell"
  <2> DEFINE u == [s EXCEPT !.shell = TRUE]
  <2>1. r = Reply(u, <<>>, "open")
    BY <1>6 DEF SshChannel, Says
  <2>2. /\ u \in SshSessions /\ u.mode = s.mode /\ u.credentialSeen = s.credentialSeen
        /\ u.commands = s.commands /\ u.emitted = s.emitted
    <3>1. TRUE \in BOOLEAN
      OBVIOUS
    <3> QED
      BY <1>1, <1>5, <3>1, Zenon
  <2>3. u.shell = TRUE
    <3>1. TRUE \in BOOLEAN
      OBVIOUS
    <3> QED
      BY <1>1, <1>5, <3>1, Zenon
  <2> HIDE DEF u, r
  <2>4. SshSane(u)
    BY <1>1, <2>2, <2>3 DEF SshSane
  <2>5. Tells(<<>>, s.commands, 0, 0, 0, 0) /\ Keeps(<<>>, 0, 0) /\ One(runs) = 0
    BY <1>1, <1>2, <1>3, <1>6, TellsNothing
  <2>6. goal(u, <<>>, 0)
    BY <1>1, <2>2, <2>4, <2>5
  <2> QED
    BY <1>3, <2>1, <2>6
<1>7. /\ w \in SshSessions /\ w.mode = s.mode /\ w.credentialSeen = s.credentialSeen /\ w.shell = s.shell
      /\ w.emitted = s.emitted /\ w.commands = s.commands + One(captured)
  <2>1. \A n \in Nat : LET u == [s EXCEPT !.commands = n]
                       IN  /\ u \in SshSessions /\ u.mode = s.mode /\ u.credentialSeen = s.credentialSeen
                           /\ u.shell = s.shell /\ u.emitted = s.emitted /\ u.commands = n
    BY <1>1 DEF SshSessions
  <2> HIDE DEF captured
  <2>2. w = [s EXCEPT !.commands = s.commands + One(captured)]
    <3>1. CASE captured
      BY <1>3, <3>1
    <3>2. CASE ~captured
      BY <1>1, <1>3, <3>2
    <3> QED
      BY <3>1, <3>2
  <2>3. s.commands + One(captured) \in Nat
    BY <1>1, <1>3
  <2> HIDE DEF w
  <2> QED
    BY <2>1, <2>2, <2>3
<1>9. Tells(one, s.commands, 0, One(captured), 0, 0) /\ Keeps(one, 0, 0)
  <2>1. captured \in BOOLEAN /\ "ssh-shell-command" \in Commands
    BY DEF Captures, Commands
  <2> HIDE DEF captured, w
  <2>2. one = IF captured THEN <<Incident("ssh-shell-command", s.commands + 1)>> ELSE <<>>
    BY <1>3, <1>7
  <2> HIDE DEF one
  <2> QED
    BY <1>1, <2>1, <2>2, TellsWhen
\* With the transcript of y reported.
<1>10. ASSUME NEW y \in SshSessions, y.mode = s.mode, y.credentialSeen = s.credentialSeen, y.shell = s.shell,
              y.emitted = s.emitted, y.commands = s.commands + One(runs),
              NEW before, Tells(before, s.commands, 0, One(runs), 0, 0), Keeps(before, 0, 0)
       PROVE  \A shell \in BOOLEAN :
                /\ goal([SshEmitted(y) EXCEPT !.shell = shell], before \o SshTranscript(y), One(p(y)))
                /\ goal(SshEmitted(y), before \o SshTranscript(y), One(p(y)))
                /\ before \o SshTranscript(y) \in Seq(Incidents) /\ SshTranscript(y) \in Seq(Incidents)
  <2> DEFINE e == SshEmitted(y)
             two == SshTranscript(y)
             n == One(p(y))
  <2>1. /\ Tells(two, y.commands, 0, 0, n, 0) /\ Keeps(two, 0, 0)
        /\ One(y.emitted \/ y.commands # 0) = One(y.emitted) + n
    BY <1>10, SshTranscriptTells
  <2>2. /\ e \in SshSessions /\ e.mode = y.mode /\ e.credentialSeen = y.credentialSeen /\ e.shell = y.shell
        /\ e.commands = y.commands /\ e.emitted = (y.emitted \/ y.commands # 0)
    BY <1>10, SshEmittedIs
  <2>3. n \in Nat /\ One(runs) \in Nat
    BY <1>3
  <2> HIDE DEF e, two, n, p
  <2>4. Tells(before \o two, s.commands, 0, One(runs), n, 0) /\ Keeps(before \o two, 0, 0)
    <3>1. /\ 0 + 0 = 0 /\ One(runs) + 0 = One(runs) /\ 0 + n = n
      BY <2>3
    <3>2. before \in Seq(Incidents) /\ two \in Seq(Incidents)
      BY <1>10, <2>1 DEF Tells
    <3>3. Tells(two, s.commands + One(runs), 0, 0, n, 0)
      BY <1>10, <2>1
    <3>4. Tells(before \o two, s.commands, 0 + 0, One(runs) + 0, 0 + n, 0 + 0)
      BY <1>1, <1>10, <3>3, TellsBoth, Zenon
    <3>5. Keeps(before \o two, 0, 0)
      BY <1>10, <2>1, <3>2, KeepsBoth
    <3> QED
      BY <3>1, <3>4, <3>5
  <2>5. One(e.emitted) = One(s.emitted) + n
    BY <1>10, <2>1, <2>2
  <2>6. /\ e.commands \in Nat /\ e.mode = "ready" /\ e.credentialSeen
        /\ e.emitted <=> e.commands > 0
    <3>1. e.commands \in Nat /\ e.mode = "ready" /\ e.credentialSeen /\ e.commands = s.commands + One(runs)
      BY <1>1, <1>10, <2>2, <2>3
    <3>2. e.emitted <=> s.emitted \/ e.commands # 0
      BY <1>10, <2>2
    <3> QED
      BY <1>1, <2>3, <3>1, <3>2
  <2>7. ASSUME NEW shell \in BOOLEAN
        PROVE  /\ SshSane([e EXCEPT !.shell = shell])
               /\ LET u == [e EXCEPT !.shell = shell]
                  IN  u.credentialSeen = e.credentialSeen /\ u.commands = e.commands /\ u.emitted = e.emitted
    <3> DEFINE u == [e EXCEPT !.shell = shell]
    <3>1. /\ u \in SshSessions /\ u.mode = e.mode /\ u.credentialSeen = e.credentialSeen
          /\ u.commands = e.commands /\ u.emitted = e.emitted
      BY <1>5, <2>2
    <3> HIDE DEF u
    <3>2. SshSane(u)
      BY <2>6, <3>1 DEF SshSane
    <3> QED
      BY <3>1, <3>2 DEF u
  <2>8. SshSane(e)
    BY <2>2, <2>6 DEF SshSane
  <2>9. before \o two \in Seq(Incidents) /\ two \in Seq(Incidents)
    BY <2>1, <2>4 DEF Tells
  <2>10. e.commands = s.commands + One(runs) /\ e.credentialSeen
    BY <1>10, <2>2, <2>6
  <2>11. goal(e, before \o two, n)
    BY <2>3, <2>4, <2>5, <2>8, <2>10
  <2>12. ASSUME NEW shell \in BOOLEAN PROVE goal([e EXCEPT !.shell = shell], before \o two, n)
    BY <2>3, <2>4, <2>5, <2>7, <2>10
  <2> QED
    BY <2>9, <2>11, <2>12 DEF e, two, n
<1>11. CASE line = "close"
  <2> DEFINE two == SshTranscript(s)
             u == [SshEmitted(s) EXCEPT !.shell = FALSE]
  <2>1. r = Reply(u, two, "open")
    BY <1>11 DEF SshChannel
  <2>2. One(runs) = 0 /\ s.commands = s.commands + One(runs)
    BY <1>1, <1>2, <1>3, <1>11
  <2>3. Tells(<<>>, s.commands, 0, One(runs), 0, 0) /\ Keeps(<<>>, 0, 0)
    BY <1>1, <2>2, TellsNothing
  <2>4. FALSE \in BOOLEAN
    OBVIOUS
  <2> HIDE DEF r, goal, p
  <2>5. goal(u, <<>> \o two, One(p(s))) /\ two \in Seq(Incidents)
    BY <1>1, <1>10, <2>2, <2>3, <2>4, Zenon
  <2> HIDE DEF u, two
  <2>6. <<>> \o two = two
    BY <2>5, ConcatEmptySeq
  <2> QED
    BY <1>3, <2>1, <2>5, <2>6
<1>12. CASE line \in {"exit", "exec"}
  <2> DEFINE two == SshTranscript(w)
             u == SshEmitted(w)
  <2>1. r = Reply(u, one \o two, "open")
    BY <1>12 DEF SshChannel, SshCaptures
  <2>2. One(runs) = One(captured)
    BY <1>2, <1>12 DEF One
  <2> HIDE DEF r, goal, p, w, one, captured
  <2>3. goal(u, one \o two, One(p(w)))
    <3>1. Tells(one, s.commands, 0, One(runs), 0, 0)
      BY <1>9, <2>2
    <3>2. w.commands = s.commands + One(runs)
      BY <1>7, <2>2
    <3>3. TRUE \in BOOLEAN
      OBVIOUS
    <3> QED
      BY <1>7, <1>9, <1>10, <3>1, <3>2, <3>3, Zenon
  <2> HIDE DEF u, two
  <2> QED
    BY <1>3, <2>1, <2>3
<1>13. CASE line = "command"
  <2>1. r = Reply(w, one, "open")
    BY <1>13 DEF SshChannel, SshCaptures
  <2>2. One(runs) = One(captured) /\ s.shell
    BY <1>2, <1>13 DEF One
  <2> HIDE DEF r, w, one, captured
  <2>3. SshSane(w)
    <3>1. One(captured) \in Nat
      BY <1>3
    <3> QED
      BY <1>1, <1>7, <2>2, <3>1 DEF SshSane
  <2>4. goal(w, one, 0)
    BY <1>1, <1>7, <1>9, <2>2, <2>3
  <2> HIDE DEF goal
  <2> QED
    BY <1>3, <2>1, <2>4
<1> QED
  BY <1>6, <1>11, <1>12, <1>13

\* An event of the SSH dialogue keeps its invariant.
LEMMA SshStep ==
  ASSUME setting.protocol = "ssh", NEW s, NEW t, NEW d, SshInv(s, t, d), NEW line \in SshLines(s),
         NEW interactive \in BOOLEAN
  PROVE  LET r == SshLine(s, line, interactive)
         IN  r.told \in Seq(Incidents) /\ SshInv(r.session, t \o r.told, Did(d, s, line))
<1> DEFINE r == SshLine(s, line, interactive)
           k == One(Offers(s, line) /\ line # "keyboard-interactive")
           m == One(Runs(s, line) /\ s.commands < MaxCommands)
           e == Did(d, s, line)
<1>1. /\ SshSane(s) /\ d \in Counts
      /\ s.commands = Capped(d.commands)
      /\ s.credentialSeen <=> d.offered > 0
      /\ Tally(t, d.credentials, s.commands, One(s.emitted), 0) /\ Apart(t, 0)
  BY DEF SshInv
<1>2. \E x : SshGoal(s, line, r.session, r.told, x)
  <2>1. CASE s.mode = "auth"
    <3>1. r = SshAuthentication(s, line, interactive)
      BY <2>1 DEF SshLine
    <3>2. line \in {"none", "password", "publickey", "keyboard-interactive"}
      BY <2>1 DEF SshLines
    <3> HIDE DEF r
    <3> QED
      BY <1>1, <2>1, <3>1, <3>2, SshAuthenticationTells
  <2>2. CASE s.mode = "ready"
    <3>1. r = SshChannel(s, line)
      BY <2>2 DEF SshLine
    <3>2. line \in {"exec", "shell", "command", "exit", "close"} /\ (line \in {"command", "exit", "close"} => s.shell)
      BY <2>2 DEF SshLines
    <3> HIDE DEF r
    <3> QED
      BY <1>1, <2>2, <3>1, <3>2, SshChannelTells
  <2> QED
    BY <1>1, <2>1, <2>2 DEF SshSane, SshSessions
<1> HIDE DEF r
<1>3. PICK x : SshGoal(s, line, r.session, r.told, x)
  BY <1>2
<1>4. /\ SshSane(r.session)
      /\ r.session.credentialSeen <=> s.credentialSeen \/ Offers(s, line)
      /\ r.session.commands = s.commands + m
      /\ x \in Nat
      /\ Tells(r.told, s.commands, k, m, x, 0) /\ Keeps(r.told, 0, 0)
      /\ One(r.session.emitted) = One(s.emitted) + x
  BY <1>3 DEF SshGoal
<1>5. One(s.emitted) \in Nat
  BY DEF One
<1>6. /\ e \in Counts /\ r.told \in Seq(Incidents)
      /\ e.offered > 0 <=> d.offered > 0 \/ Offers(s, line)
      /\ Tally(t \o r.told, e.credentials, Capped(e.commands), One(s.emitted) + x, 0)
      /\ Apart(t \o r.told, 0)
  <2>1. Tally(t, d.credentials, s.commands, One(s.emitted), 0) /\ Apart(t, 0) /\ d \in Counts
    BY <1>1
  <2>2. s.commands = Capped(d.commands) /\ x \in Nat
    BY <1>1, <1>4
  <2>3. /\ Tells(r.told, s.commands, One(Offers(s, line) /\ line # "keyboard-interactive"),
                 One(Runs(s, line) /\ s.commands < MaxCommands), x, 0)
        /\ Keeps(r.told, 0, 0)
    BY <1>4 DEF k, m
  <2>4. Follows(s, line, d, t, r.told, One(s.emitted) + x, 0)
    BY <1>5, <2>1, <2>2, <2>3, LineFollows, Zenon
  <2> QED
    BY <2>4 DEF Follows
<1>7. Capped(e.commands) = r.session.commands
  BY <1>1, <1>4, CountsFollow
<1> HIDE DEF e
<1>8. SshInv(r.session, t \o r.told, e)
  BY <1>1, <1>4, <1>6, <1>7 DEF SshInv
<1> QED
  BY <1>6, <1>8 DEF r, e

\* The close of an SSH connection ends its shell and tells of a scan if need be.
LEMMA SshEnd ==
  ASSUME setting.protocol = "ssh", NEW s, NEW t, NEW d, SshInv(s, t, d)
  PROVE  /\ Evidence(t, d, FALSE) /\ Apart(t, 0)
         /\ SshCloses(s) \in Seq(Incidents)
         /\ Evidence(t \o SshCloses(s), d, TRUE) /\ Apart(t \o SshCloses(s), 0)
<1> DEFINE u == SshCloses(s)
           p == s.commands # 0 /\ ~s.emitted
           q == ~s.credentialSeen
           one == IF s.shell THEN SshTranscript(s) ELSE <<>>
           two == IF q THEN <<Incident("ssh-scan", s.commands)>> ELSE <<>>
<1>1. /\ SshSane(s) /\ d \in Counts
      /\ s.commands = Capped(d.commands)
      /\ s.credentialSeen <=> d.offered > 0
      /\ Tally(t, d.credentials, s.commands, One(s.emitted), 0) /\ Apart(t, 0)
  BY DEF SshInv
<1>2. /\ s \in SshSessions /\ s.commands \in Nat /\ d.offered \in Nat /\ d.credentials \in Nat
      /\ s.commands > 0 => s.credentialSeen /\ (s.emitted \/ s.shell)
      /\ s.emitted => s.commands > 0
      /\ t \in Seq(Incidents)
  BY <1>1 DEF SshSane, SshSessions, Counts, Tally
<1>3. /\ One(s.emitted) \in Nat /\ One(s.emitted) <= 1 /\ 0 \in Nat /\ 0 + 0 = 0
      /\ \A z : One(z) \in Nat /\ One(z) <= 1 /\ (One(z) = 0 <=> ~z)
  BY DEF One
<1>4. Evidence(t, d, FALSE)
  BY <1>1, <1>3 DEF Evidence
<1>5. u = one \o two
  BY DEF SshCloses
<1>6. /\ Tells(one, s.commands, 0, 0, One(p), 0) /\ Keeps(one, 0, 0)
      /\ One(s.emitted \/ s.commands # 0) = One(s.emitted) + One(p)
  <2>1. /\ Tells(SshTranscript(s), s.commands, 0, 0, One(p), 0) /\ Keeps(SshTranscript(s), 0, 0)
        /\ One(s.emitted \/ s.commands # 0) = One(s.emitted) + One(p)
    BY <1>2, SshTranscriptTells
  <2>2. CASE s.shell
    BY <2>1, <2>2
  <2>3. CASE ~s.shell
    <3>1. ~p
      BY <1>2, <2>3
    <3>2. SshTranscript(s) = <<>>
      BY <3>1 DEF SshTranscript
    <3> QED
      BY <2>1, <2>3, <3>2
  <2> QED
    BY <2>2, <2>3
<1>7. Tells(two, s.commands, 0, 0, 0, One(q)) /\ Keeps(two, 0, 0)
  <2>1. q \in BOOLEAN /\ "ssh-scan" \in Scans
    BY DEF Scans
  <2> HIDE DEF q
  <2> QED
    BY <1>2, <2>1, TellsWhen
<1>8. One(s.emitted \/ s.commands # 0) = One(s.commands # 0)
  <2>1. (s.emitted \/ s.commands # 0) <=> s.commands # 0
    BY <1>2
  <2> QED
    BY <2>1 DEF One
<1>9. q <=> d.offered = 0
  BY <1>1, <1>2
<1>10. One(q) = One(d.offered = 0)
  BY <1>9 DEF One
<1> HIDE DEF u, one, two, p, q
<1>11. Tells(u, s.commands, 0, 0, One(p), One(q)) /\ Keeps(u, 0, 0)
  <2>1. 0 + 0 = 0 /\ One(p) + 0 = One(p) /\ 0 + One(q) = One(q) /\ s.commands + 0 = s.commands
    BY <1>2, <1>3
  <2>2. one \in Seq(Incidents) /\ two \in Seq(Incidents)
    BY <1>6, <1>7 DEF Tells
  <2>3. Tells(two, s.commands + 0, 0, 0, 0, One(q))
    BY <1>7, <2>1
  <2>4. Tells(one \o two, s.commands, 0 + 0, 0 + 0, One(p) + 0, 0 + One(q))
    BY <1>2, <1>6, <1>7, <2>1, TellsTraces
  <2>5. Keeps(one \o two, 0, 0)
    BY <1>6, <1>7, <2>2, KeepsBoth
  <2> QED
    BY <1>5, <2>1, <2>4, <2>5
<1>12. Tally(t \o u, d.credentials + 0, s.commands + 0, One(s.emitted) + One(p), 0 + One(q))
  BY <1>1, <1>2, <1>3, <1>11 DEF Tells
<1>13. Tally(t \o u, d.credentials, Capped(d.commands), One(s.commands # 0), One(d.offered = 0))
  <2>1. d.credentials + 0 = d.credentials /\ s.commands + 0 = s.commands /\ 0 + One(q) = One(d.offered = 0)
    BY <1>2, <1>3, <1>10
  <2> QED
    BY <1>1, <1>6, <1>8, <1>12, <2>1
<1>14. Evidence(t \o u, d, TRUE)
  <2>1. One(s.commands # 0) = 0 <=> Capped(d.commands) = 0
    BY <1>1, <1>3
  <2> QED
    BY <1>3, <1>13, <2>1 DEF Evidence
<1>15. u \in Seq(Incidents) /\ Apart(t \o u, 0)
  BY <1>1, <1>2, <1>11 DEF Tells, Keeps
<1> QED
  BY <1>1, <1>4, <1>14, <1>15 DEF u

----------------------------------------------------------------------------
(* SMTP. *)

SmtpSessions == [lines : Nat, mode : {"commands", "auth-user", "auth-pass", "data"}, commands : Nat, from : Nat,
                 fromLocal : BOOLEAN, rcptTo : SUBSET Nat, message : SUBSET Nat, user : Nat, exchange : Nat,
                 mail : Nat]

\* What is held of a mail is of the mail at hand, a text only while it is sent;
\* the user whose password is awaited is of the exchange at hand.
SmtpSane(s) ==
  /\ s \in SmtpSessions
  /\ s.mail > 0 /\ s.from \in {Nothing, s.mail} /\ s.rcptTo \subseteq {s.mail} /\ s.message \subseteq {s.mail}
  /\ s.mode # "data" => s.message = {}
  /\ s.mode = "auth-pass" => s.user = s.exchange

SmtpInv(s, t, d) ==
  /\ SmtpSane(s) /\ d \in Counts /\ d.commands = 0
  /\ Tally(t, d.credentials, 0, 0, 0) /\ Apart(t, s.mail)

\* The next mail starts apart from those before it.
LEMMA KeepsNothing ==
  ASSUME NEW mail \in Nat, NEW next \in Nat, mail <= next
  PROVE  Tells(<<>>, 0, 0, 0, 0, 0) /\ Keeps(<<>>, mail, next)
<1>1. 0 \in Nat
  OBVIOUS
<1>2. Tells(<<>>, 0, 0, 0, 0, 0)
  BY <1>1, TellsNothing
<1>3. ASSUME NEW t \in Seq(Incidents), Apart(t, mail) PROVE Apart(t \o <<>>, next)
  <2>1. t \o <<>> = t
    BY ConcatEmptySeq
  <2>2. \A i \in Of(t, {"smtp-spam"}) : \A part \in t[i].carries : part \in Nat /\ part < next
    BY <1>3 DEF Apart
  <2> QED
    BY <1>3, <2>1, <2>2 DEF Apart
<1> QED
  BY <1>2, <1>3 DEF Keeps

\* A report of an SMTP finding.
LEMMA TellsMail ==
  ASSUME NEW f \in Mails, NEW mail \in Nat, NEW next \in Nat, mail <= next,
         NEW part \in Nat, NEW c, c \subseteq {part},
         f = "smtp-spam" => part = mail /\ mail < next
  PROVE  /\ Tells(<<Incident(f, c)>>, 0, One(f = "smtp-auth-bruteforce"), 0, 0, 0)
         /\ Keeps(<<Incident(f, c)>>, mail, next)
<1> DEFINE x == Incident(f, c)
<1>1. c \in Nat \cup SUBSET Nat /\ f \in Findings
  <2>1. c \in SUBSET Nat
    OBVIOUS
  <2>2. f \in Findings
    BY DEF Findings
  <2> QED
    BY <2>1, <2>2
<1>2. x \in Incidents /\ x.finding = f /\ x.carries = c
  BY <1>1, IncidentType
<1>3. Cardinality(c) <= 1
  <2>1. c = {} \/ c = {part}
    BY Zenon
  <2>2. Cardinality({}) = 0 /\ Cardinality({part}) = 1
    BY FS_EmptySet, FS_Singleton
  <2>3. Cardinality(c) = 0 \/ Cardinality(c) = 1
    BY <2>1, <2>2, Zenon
  <2> QED
    BY <2>3
<1>4. /\ f \notin Commands /\ f \notin Transcripts /\ f \notin Scans
      /\ f \in Credentials <=> f = "smtp-auth-bruteforce"
  BY DEF Mails, Credentials, Commands, Transcripts, Scans
<1>5. One(f \in Credentials) = One(f = "smtp-auth-bruteforce")
  BY <1>4 DEF One
<1>6. One(f \in Commands) = 0 /\ One(f \in Transcripts) = 0 /\ One(f \in Scans) = 0 /\ 0 \in Nat
  BY <1>4 DEF One
<1> HIDE DEF x
<1>7. Tells(<<x>>, 0, One(x.finding \in Credentials), One(x.finding \in Commands),
            One(x.finding \in Transcripts), One(x.finding \in Scans))
  <2>1. x.finding \in Commands => x.carries = 0 + 1
    BY <1>2, <1>4
  <2> QED
    BY <1>2, <1>6, <2>1, TellsOne
<1>8. Keeps(<<x>>, mail, next)
  <2>1. x.finding \in Mails => Cardinality(x.carries) <= 1
    BY <1>2, <1>3
  <2>2. x.finding = "smtp-spam" => x.carries \subseteq {mail} /\ mail < next
    BY <1>2
  <2> QED
    BY <1>2, <2>1, <2>2, KeepsOne
<1> QED
  BY <1>2, <1>5, <1>6, <1>7, <1>8 DEF x

\* What a line of the SMTP dialogue comes to.
SmtpGoal(s, line, u, reports) ==
  /\ SmtpSane(u)
  /\ Tells(reports, 0, One(Offers(s, line)), 0, 0, 0) /\ Keeps(reports, s.mail, u.mail)

\* resetTransaction() forgets the mail at hand.
LEMMA SmtpNextMailIs ==
  ASSUME NEW s \in SmtpSessions
  PROVE  LET u == SmtpNextMail(s)
             v == [SmtpNextMail(s) EXCEPT !.mode = "commands"]
         IN  /\ u \in SmtpSessions /\ u.mail = s.mail + 1 /\ u.from = Nothing /\ u.rcptTo = {} /\ u.message = {}
             /\ u.mode = s.mode /\ u.user = s.user /\ u.exchange = s.exchange
             /\ v \in SmtpSessions /\ v.mail = s.mail + 1 /\ v.from = Nothing /\ v.rcptTo = {} /\ v.message = {}
             /\ v.mode = "commands"
<1> DEFINE u == SmtpNextMail(s)
<1>1. /\ u \in SmtpSessions /\ u.mail = s.mail + 1 /\ u.from = Nothing /\ u.rcptTo = {} /\ u.message = {}
      /\ u.mode = s.mode /\ u.user = s.user /\ u.exchange = s.exchange
  <2> DEFINE w(x, none, n) == [s EXCEPT !.from = x, !.rcptTo = none, !.message = none, !.mail = n]
  <2>1. \A x \in Nat : \A none \in SUBSET Nat : \A n \in Nat :
          /\ w(x, none, n) \in SmtpSessions /\ w(x, none, n).mail = n /\ w(x, none, n).from = x
          /\ w(x, none, n).rcptTo = none /\ w(x, none, n).message = none /\ w(x, none, n).mode = s.mode
          /\ w(x, none, n).user = s.user /\ w(x, none, n).exchange = s.exchange
    <3> TAKE x \in Nat
    <3> TAKE none \in SUBSET Nat
    <3> TAKE n \in Nat
    <3> QED
      BY DEF SmtpSessions
  <2>2. Nothing \in Nat /\ {} \in SUBSET Nat /\ s.mail + 1 \in Nat
    BY DEF SmtpSessions, Nothing
  <2>3. u = w(Nothing, {}, s.mail + 1)
    BY Zenon DEF SmtpNextMail
  <2> HIDE DEF u, w
  <2> QED
    BY <2>1, <2>2, <2>3
<1> HIDE DEF u
<1> DEFINE v == [u EXCEPT !.mode = "commands"]
<1>2. /\ v \in SmtpSessions /\ v.mail = u.mail /\ v.from = u.from /\ v.rcptTo = u.rcptTo /\ v.message = u.message
      /\ v.mode = "commands"
  BY <1>1 DEF SmtpSessions
<1> QED
  BY <1>1, <1>2 DEF u

\* What is held of a mail is of one mail.
LEMMA MailContextIs ==
  ASSUME NEW s \in SmtpSessions, s.from \in {Nothing, s.mail}, s.rcptTo \subseteq {s.mail},
         s.message \subseteq {s.mail}
  PROVE  MailContext(s) \subseteq {s.mail} /\ s.mail \in Nat
BY DEF MailContext, SmtpSessions

\* What a line of the SMTP dialogue comes to.
LEMMA SmtpLineTells ==
  ASSUME setting.protocol = "smtp", NEW s, SmtpSane(s), NEW line \in SmtpLines
  PROVE  LET r == SmtpLine(s, line)
         IN  SmtpGoal(s, line, r.session, r.told)
<1> DEFINE r == SmtpLine(s, line)
           t == [s EXCEPT !.lines = @ + 1]
           offers == Offers(s, line)
<1>1. /\ s \in SmtpSessions /\ s.lines \in Nat /\ MaxLines \in Nat /\ s.mail \in Nat /\ s.exchange \in Nat
      /\ s.mode \in {"commands", "auth-user", "auth-pass", "data"}
  BY DialogueAssumption DEF SmtpSane, SmtpSessions
<1>2. /\ t \in SmtpSessions /\ t.lines = s.lines + 1 /\ t.mode = s.mode /\ t.from = s.from /\ t.rcptTo = s.rcptTo
      /\ t.message = s.message /\ t.user = s.user /\ t.exchange = s.exchange /\ t.mail = s.mail
  BY <1>1 DEF SmtpSessions
<1>3. offers <=> /\ s.lines < MaxLines
                 /\ s.mode = "auth-pass" \/ (s.mode = "commands" /\ line = "AUTH PLAIN token")
  BY DEF Offers
<1> HIDE DEF t, offers
<1>4. /\ SmtpSane(t)
      /\ t.mail \in Nat /\ t.mail > 0 /\ t.from \in {Nothing, t.mail} /\ t.rcptTo \subseteq {t.mail}
      /\ t.message \subseteq {t.mail} /\ t.exchange \in Nat
      /\ t.mode # "data" => t.message = {}
      /\ t.mode = "auth-pass" => t.user = t.exchange
  BY <1>1, <1>2 DEF SmtpSane
<1>5. \A x, y, z : Reply(x, y, z).session = x /\ Reply(x, y, z).told = y
  BY DEF Reply
<1> DEFINE goal(u, reports) ==
             /\ SmtpSane(u)
             /\ Tells(reports, 0, One(offers), 0, 0, 0) /\ Keeps(reports, t.mail, u.mail)
<1>6. SUFFICES \E u, reports, z : r = Reply(u, reports, z) /\ goal(u, reports)
  <2> HIDE DEF r
  <2>1. ASSUME NEW u, NEW reports, NEW z, r = Reply(u, reports, z), goal(u, reports)
        PROVE  SmtpGoal(s, line, r.session, r.told)
    <3>1. r.session = u /\ r.told = reports
      BY <1>5, <2>1
    <3> QED
      BY <1>2, <2>1, <3>1 DEF SmtpGoal, offers
  <2> QED
    BY <2>1 DEF r
\* Nothing is reported.
<1>7. ASSUME ~offers, NEW u, SmtpSane(u), u.mail = t.mail \/ u.mail = t.mail + 1, NEW z, r = Reply(u, <<>>, z)
      PROVE  \E v, reports, y : r = Reply(v, reports, y) /\ goal(v, reports)
  <2> HIDE DEF r
  <2>1. One(offers) = 0
    BY <1>7 DEF One
  <2>2. Tells(<<>>, 0, 0, 0, 0, 0) /\ Keeps(<<>>, t.mail, u.mail)
    BY <1>4, <1>7, KeepsNothing
  <2>3. goal(u, <<>>)
    BY <1>7, <2>1, <2>2
  <2> QED
    BY <1>7, <2>3
\* One finding is reported of parts of one exchange.
<1>8. ASSUME NEW f \in Mails, f = "smtp-auth-bruteforce" <=> offers, NEW c, NEW part \in Nat, c \subseteq {part},
             NEW u, SmtpSane(u), u.mail = t.mail \/ u.mail = t.mail + 1,
             f = "smtp-spam" => part = t.mail /\ u.mail = t.mail + 1,
             NEW z, r = Reply(u, <<Incident(f, c)>>, z)
      PROVE  \E v, reports, y : r = Reply(v, reports, y) /\ goal(v, reports)
  <2> HIDE DEF r
  <2>1. One(offers) = One(f = "smtp-auth-bruteforce")
    BY <1>8 DEF One
  <2>2. u.mail \in Nat /\ t.mail <= u.mail /\ (f = "smtp-spam" => part = t.mail /\ t.mail < u.mail)
    BY <1>4, <1>8
  <2>3. /\ Tells(<<Incident(f, c)>>, 0, One(f = "smtp-auth-bruteforce"), 0, 0, 0)
        /\ Keeps(<<Incident(f, c)>>, t.mail, u.mail)
    BY <1>4, <1>8, <2>2, TellsMail
  <2>4. goal(u, <<Incident(f, c)>>)
    BY <1>8, <2>1, <2>3
  <2> QED
    BY <1>8, <2>4
<1>9. /\ "smtp-spam" \in Mails /\ "smtp-open-relay" \in Mails /\ "smtp-user-enumeration" \in Mails
      /\ "smtp-auth-bruteforce" \in Mails
  BY DEF Mails
<1> HIDE DEF goal
<1>10. CASE t.lines > MaxLines
  <2>1. ~(t.lines <= MaxLines) /\ ~(s.lines < MaxLines)
    BY <1>1, <1>2, <1>10
  <2>2. r = Reply(t, <<>>, "destroyed")
    BY <1>10, <2>1 DEF SmtpLine, t
  <2>3. ~offers
    BY <1>3, <2>1
  <2> QED
    BY <1>4, <1>7, <2>2, <2>3
<1>11. CASE t.lines <= MaxLines
  <2>0. ~(t.lines > MaxLines) /\ s.lines < MaxLines
    BY <1>1, <1>2, <1>11
  <2>1. CASE s.mode = "data"
    <3>1. r = SmtpData(t, line)
      BY <1>11, <2>0, <2>1 DEF SmtpLine, t
    <3>2. ~offers
      BY <1>3, <2>1
    <3>3. CASE line = "."
      <4> DEFINE u == [SmtpNextMail(t) EXCEPT !.mode = "commands"]
      <4>1. r = Reply(u, <<Incident("smtp-spam", MailContext(t))>>, "open")
        BY <3>1, <3>3 DEF SmtpData
      <4>2. /\ u \in SmtpSessions /\ u.mail = t.mail + 1 /\ u.from = Nothing /\ u.rcptTo = {} /\ u.message = {}
            /\ u.mode = "commands"
        BY <1>2, SmtpNextMailIs
      <4>3. MailContext(t) \subseteq {t.mail}
        BY <1>2, <1>4, MailContextIs
      <4> HIDE DEF u, r
      <4>4. SmtpSane(u)
        BY <1>4, <4>2 DEF SmtpSane
      <4>5. "smtp-spam" # "smtp-auth-bruteforce"
        OBVIOUS
      <4> QED
        BY <1>4, <1>8, <1>9, <3>2, <4>1, <4>2, <4>3, <4>4, <4>5
    <3>4. CASE line # "."
      <4> DEFINE u == [t EXCEPT !.message = @ \cup {t.mail}]
      <4>1. r = Reply(u, <<>>, "open")
        BY <3>1, <3>4 DEF SmtpData, Says
      <4>2. SmtpSane(u) /\ u.mail = t.mail
        BY <1>2, <1>4, <2>1 DEF SmtpSane, SmtpSessions
      <4> HIDE DEF u, r
      <4> QED
        BY <1>7, <3>2, <4>1, <4>2
    <3> QED
      BY <3>3, <3>4
  <2>2. CASE s.mode = "auth-user"
    <3> DEFINE u == [t EXCEPT !.user = t.exchange, !.mode = "auth-pass"]
    <3>1. r = Reply(u, <<>>, "open")
      BY <1>11, <2>0, <2>2 DEF SmtpLine, SmtpUser, Says, t
    <3>2. SmtpSane(u) /\ u.mail = t.mail
      BY <1>2, <1>4, <2>2 DEF SmtpSane, SmtpSessions
    <3>3. ~offers
      BY <1>3, <2>2
    <3> HIDE DEF u, r
    <3> QED
      BY <1>7, <3>1, <3>2, <3>3
  \* The password of a user named in this exchange.
  <2>3. ASSUME NEW v, SmtpSane(v), v.mail = t.mail, v.user = v.exchange, v.mode # "data", r = SmtpPass(v), offers
        PROVE  \E w, reports, y : r = Reply(w, reports, y) /\ goal(w, reports)
    <3> DEFINE u == [v EXCEPT !.mode = "commands", !.exchange = @ + 1]
    <3>1. r = Reply(u, <<Incident("smtp-auth-bruteforce", {v.user, v.exchange})>>, "open")
      BY <2>3 DEF SmtpPass
    <3>2. SmtpSane(u) /\ u.mail = t.mail /\ v.exchange \in Nat
      <4>1. /\ v \in SmtpSessions /\ v.exchange \in Nat /\ v.mail > 0 /\ v.from \in {Nothing, v.mail}
            /\ v.rcptTo \subseteq {v.mail} /\ v.message = {}
        BY <2>3 DEF SmtpSane, SmtpSessions
      <4>2. /\ u \in SmtpSessions /\ u.mail = v.mail /\ u.from = v.from /\ u.rcptTo = v.rcptTo
            /\ u.message = v.message /\ u.mode = "commands"
        <5> DEFINE w(n) == [v EXCEPT !.mode = "commands", !.exchange = n]
        <5>1. ASSUME NEW n \in Nat
              PROVE  /\ w(n) \in SmtpSessions /\ w(n).mail = v.mail /\ w(n).from = v.from /\ w(n).rcptTo = v.rcptTo
                     /\ w(n).message = v.message /\ w(n).mode = "commands"
          BY <4>1 DEF SmtpSessions
        <5>2. u = w(v.exchange + 1) /\ v.exchange + 1 \in Nat
          BY <4>1
        <5> HIDE DEF u, w
        <5> QED
          BY <5>1, <5>2
      <4> HIDE DEF u
      <4> QED
        BY <2>3, <4>1, <4>2 DEF SmtpSane
    <3>3. {v.user, v.exchange} \subseteq {v.exchange}
      BY <2>3
    <3> HIDE DEF u, r
    <3>4. "smtp-auth-bruteforce" # "smtp-spam"
      OBVIOUS
    <3> QED
      BY <1>8, <1>9, <2>3, <3>1, <3>2, <3>3, <3>4
  <2>4. CASE s.mode = "auth-pass"
    <3>1. r = SmtpPass(t)
      BY <1>11, <2>0, <2>4 DEF SmtpLine, t
    <3>2. offers
      BY <1>3, <2>0, <2>4
    <3>3. t.user = t.exchange /\ t.mode # "data"
      BY <1>2, <1>4, <2>4
    <3> HIDE DEF r
    <3> QED
      BY <1>4, <2>3, <3>1, <3>2, <3>3
  <2>5. CASE s.mode = "commands"
    <3>1. r = SmtpCommand(t, line)
      BY <1>11, <2>0, <2>5 DEF SmtpLine, t
    <3>2. t.mode = "commands" /\ t.message = {}
      BY <1>2, <1>4, <2>5
    <3>3. CASE line = "AUTH"
      <4> DEFINE u == [t EXCEPT !.mode = "auth-user"]
      <4>1. r = Reply(u, <<>>, "open")
        BY <3>1, <3>3 DEF SmtpCommand, Says
      <4>2. SmtpSane(u) /\ u.mail = t.mail
        BY <1>2, <1>4, <3>2 DEF SmtpSane, SmtpSessions
      <4>3. ~offers
        BY <1>3, <2>5, <3>3
      <4> HIDE DEF u, r
      <4> QED
        BY <1>7, <4>1, <4>2, <4>3
    <3>4. CASE line = "AUTH PLAIN token"
      <4> DEFINE v == [t EXCEPT !.user = t.exchange]
      <4>1. r = SmtpPass(v)
        BY <3>1, <3>4 DEF SmtpCommand
      <4>2. SmtpSane(v) /\ v.mail = t.mail /\ v.user = v.exchange /\ v.mode # "data"
        BY <1>2, <1>4, <3>2 DEF SmtpSane, SmtpSessions
      <4>3. offers
        BY <1>3, <2>0, <2>5, <3>4
      <4> HIDE DEF v, r
      <4> QED
        BY <2>3, <4>1, <4>2, <4>3
    <3>5. CASE line \in {"MAIL", "MAIL local"}
      <4> DEFINE local == line = "MAIL local"
                 w(n, q, none) == [t EXCEPT !.mail = n, !.from = n, !.fromLocal = q, !.rcptTo = none]
                 u == w(t.mail + 1, local, {})
      <4>1. r = Reply(u, <<>>, "open")
        BY <3>1, <3>5, Zenon DEF SmtpCommand, Says
      <4>2. \A n \in Nat : \A q \in BOOLEAN : \A none \in SUBSET Nat :
              /\ w(n, q, none) \in SmtpSessions /\ w(n, q, none).mail = n /\ w(n, q, none).from = n
              /\ w(n, q, none).rcptTo = none /\ w(n, q, none).message = t.message /\ w(n, q, none).mode = t.mode
        <5> TAKE n \in Nat
        <5> TAKE q \in BOOLEAN
        <5> TAKE none \in SUBSET Nat
        <5> QED
          BY <1>2 DEF SmtpSessions
      <4>3. t.mail + 1 \in Nat /\ local \in BOOLEAN /\ {} \in SUBSET Nat
        BY <1>4
      <4> HIDE DEF w, local
      <4>4. /\ u \in SmtpSessions /\ u.mail = t.mail + 1 /\ u.from = u.mail /\ u.rcptTo = {}
            /\ u.message = {} /\ u.mode = "commands"
        BY <3>2, <4>2, <4>3
      <4>5. ~offers
        BY <1>3, <2>5, <3>5
      <4> HIDE DEF u, r
      <4>6. SmtpSane(u)
        BY <1>4, <4>4 DEF SmtpSane
      <4> QED
        BY <1>7, <4>1, <4>4, <4>5, <4>6
    <3>6. CASE line \in {"RCPT", "RCPT local"}
      <4> DEFINE u == [t EXCEPT !.rcptTo = @ \cup {t.mail}]
                 relays == SmtpRelays(t, line)
                 reports == IF relays THEN <<Incident("smtp-open-relay", MailContext(u))>> ELSE <<>>
      <4>1. r = Reply(u, reports, "open")
        <5>1. r = SmtpRcpt(t, line)
          BY <3>1, <3>6 DEF SmtpCommand
        <5> QED
          BY <5>1, Zenon DEF SmtpRcpt
      <4>2. SmtpSane(u) /\ u.mail = t.mail
        BY <1>2, <1>4, <3>2 DEF SmtpSane, SmtpSessions
      <4>3. ~offers
        BY <1>3, <2>5, <3>6
      <4> HIDE DEF u, r, relays
      <4>4. MailContext(u) \subseteq {t.mail}
        BY <4>2, MailContextIs DEF SmtpSane
      <4>5. CASE relays
        <5>1. r = Reply(u, <<Incident("smtp-open-relay", MailContext(u))>>, "open")
          BY <4>1, <4>5
        <5>2. "smtp-open-relay" # "smtp-auth-bruteforce" /\ "smtp-open-relay" # "smtp-spam"
          OBVIOUS
        <5> QED
          BY <1>4, <1>8, <1>9, <4>2, <4>3, <4>4, <5>1, <5>2
      <4>6. CASE ~relays
        <5>1. r = Reply(u, <<>>, "open")
          BY <4>1, <4>6
        <5> QED
          BY <1>7, <4>2, <4>3, <5>1
      <4> QED
        BY <4>5, <4>6
    <3>7. CASE line = "DATA"
      <4> DEFINE m == IF t.rcptTo = {} THEN "commands" ELSE "data"
                 u == [t EXCEPT !.mode = m]
      <4>1. r = Reply(u, <<>>, "open")
        BY <3>1, <3>7 DEF SmtpCommand, Says
      <4>2. m \in {"commands", "data"}
        OBVIOUS
      <4> HIDE DEF m
      <4>3. SmtpSane(u) /\ u.mail = t.mail
        BY <1>2, <1>4, <3>2, <4>2 DEF SmtpSane, SmtpSessions
      <4>4. ~offers
        BY <1>3, <2>5, <3>7
      <4> HIDE DEF u, r
      <4> QED
        BY <1>7, <4>1, <4>3, <4>4
    <3>8. CASE line = "VRFY"
      <4>1. r = Reply(t, <<Incident("smtp-user-enumeration", MailContext(t))>>, "open")
        BY <3>1, <3>8 DEF SmtpCommand
      <4>2. ~offers
        BY <1>3, <2>5, <3>8
      <4>3. MailContext(t) \subseteq {t.mail}
        BY <1>2, <1>4, MailContextIs
      <4>4. "smtp-user-enumeration" # "smtp-auth-bruteforce" /\ "smtp-user-enumeration" # "smtp-spam"
        OBVIOUS
      <4> HIDE DEF r
      <4> QED
        BY <1>4, <1>8, <1>9, <4>1, <4>2, <4>3, <4>4
    <3>9. CASE line = "RSET"
      <4> DEFINE u == SmtpNextMail(t)
      <4>1. r = Reply(u, <<>>, "open")
        BY <3>1, <3>9 DEF SmtpCommand, Says
      <4>2. ~offers
        BY <1>3, <2>5, <3>9
      <4>3. /\ u \in SmtpSessions /\ u.mail = t.mail + 1 /\ u.from = Nothing /\ u.rcptTo = {} /\ u.message = {}
            /\ u.mode = t.mode
        BY <1>2, SmtpNextMailIs
      <4> HIDE DEF u, r
      <4>4. SmtpSane(u)
        BY <1>4, <3>2, <4>3 DEF SmtpSane
      <4> QED
        BY <1>7, <4>1, <4>2, <4>3, <4>4
    <3>10. CASE line \in {"QUIT", ".", "NOOP"}
      <4>1. r = Reply(t, <<>>, "ended") \/ r = Reply(t, <<>>, "open")
        BY <3>1, <3>10 DEF SmtpCommand, Says
      <4>2. ~offers
        BY <1>3, <2>5, <3>10
      <4> HIDE DEF r
      <4> QED
        BY <1>4, <1>7, <4>1, <4>2
    <3> QED
      BY <3>3, <3>4, <3>5, <3>6, <3>7, <3>8, <3>9, <3>10 DEF SmtpLines
  <2> QED
    BY <1>1, <2>1, <2>2, <2>4, <2>5
<1> QED
  BY <1>1, <1>2, <1>10, <1>11

\* A line of the SMTP dialogue keeps its invariant.
LEMMA SmtpStep ==
  ASSUME setting.protocol = "smtp", NEW s, NEW t, NEW d, SmtpInv(s, t, d), NEW line \in SmtpLines
  PROVE  LET r == SmtpLine(s, line)
         IN  r.told \in Seq(Incidents) /\ SmtpInv(r.session, t \o r.told, Did(d, s, line))
<1> DEFINE r == SmtpLine(s, line)
           e == Did(d, s, line)
<1>1. /\ SmtpSane(s) /\ d \in Counts /\ d.commands = 0 /\ d.credentials \in Nat
      /\ Tally(t, d.credentials, 0, 0, 0) /\ Apart(t, s.mail)
  BY DEF SmtpInv, Counts
<1>2. SmtpSane(r.session) /\ Tells(r.told, 0, One(Offers(s, line)), 0, 0, 0) /\ Keeps(r.told, s.mail, r.session.mail)
  <2>1. SmtpGoal(s, line, r.session, r.told)
    BY <1>1, SmtpLineTells
  <2> QED
    BY <2>1 DEF SmtpGoal
<1> HIDE DEF r
<1>3. ~Runs(s, line) /\ line # "keyboard-interactive"
  BY DEF Runs, SmtpLines
<1>4. /\ One(Offers(s, line) /\ line # "keyboard-interactive") = One(Offers(s, line))
      /\ One(Runs(s, line) /\ 0 < MaxCommands) = 0 /\ One(Runs(s, line)) = 0
  BY <1>3 DEF One
<1>5. Capped(0) = 0
  BY DialogueAssumption DEF Capped
<1>6. /\ e \in Counts /\ r.told \in Seq(Incidents)
      /\ Tally(t \o r.told, e.credentials, Capped(e.commands), 0 + 0, 0)
      /\ Apart(t \o r.told, r.session.mail)
  <2>1. Tally(t, d.credentials, 0, 0, 0) /\ Apart(t, s.mail) /\ d \in Counts /\ 0 = Capped(d.commands) /\ 0 \in Nat
    BY <1>1, <1>5
  <2>2. /\ Tells(r.told, 0, One(Offers(s, line) /\ line # "keyboard-interactive"),
                 One(Runs(s, line) /\ 0 < MaxCommands), 0, 0)
        /\ Keeps(r.told, s.mail, r.session.mail)
    BY <1>2, <1>4
  <2>3. Follows(s, line, d, t, r.told, 0 + 0, r.session.mail)
    BY <2>1, <2>2, LineFollows
  <2> QED
    BY <2>3 DEF Follows
<1>7. e.commands = 0
  BY <1>1, <1>4 DEF Did, Plus, Submits, Counts
<1> HIDE DEF e
<1>8. SmtpInv(r.session, t \o r.told, e)
  BY <1>2, <1>5, <1>6, <1>7 DEF SmtpInv
<1> QED
  BY <1>6, <1>8 DEF r, e

\* The close of an SMTP connection tells nothing more.
LEMMA SmtpEnd ==
  ASSUME setting.protocol = "smtp", NEW s, NEW t, NEW d, SmtpInv(s, t, d)
  PROVE  Evidence(t, d, TRUE) /\ Apart(t, s.mail) /\ t \o <<>> = t
<1>1. d.commands = 0 /\ Tally(t, d.credentials, 0, 0, 0) /\ Apart(t, s.mail)
  BY DEF SmtpInv
<1>2. Capped(d.commands) = 0 /\ 0 \in Nat /\ 0 <= 1
  BY <1>1, DialogueAssumption DEF Capped
<1>3. Evidence(t, d, TRUE)
  BY <1>1, <1>2 DEF Evidence
<1>4. t \o <<>> = t
  BY <1>1, ConcatEmptySeq DEF Tally
<1> QED
  BY <1>1, <1>3, <1>4

----------------------------------------------------------------------------
(* A data event. *)

\* What the dialogue of the setting keeps.
SessionInv(s, t, d) ==
  /\ setting.protocol = "ftp" => FtpInv(s, t, d)
  /\ setting.protocol = "telnet" => TelnetInv(s, t, d)
  /\ setting.protocol = "ssh" => SshInv(s, t, d)
  /\ setting.protocol = "smtp" => SmtpInv(s, t, d)

\* A line keeps the invariant of the dialogue it belongs to.
LEMMA LineKeeps ==
  ASSUME setting.protocol \in Protocols, setting.interactive \in BOOLEAN, NEW s, NEW t, NEW d, SessionInv(s, t, d),
         NEW line \in Inputs(s)
  PROVE  LET r == Line(s, line)
         IN  r.told \in Seq(Incidents) /\ SessionInv(r.session, t \o r.told, Did(d, s, line))
<1> DEFINE r == Line(s, line)
<1> SUFFICES r.told \in Seq(Incidents) /\ SessionInv(r.session, t \o r.told, Did(d, s, line))
  OBVIOUS
<1>1. CASE setting.protocol = "ftp"
  <2>1. r = FtpLine(s, line, setting.interactive) /\ line \in FtpLines /\ FtpInv(s, t, d)
    BY <1>1 DEF Line, Inputs, SessionInv
  <2> HIDE DEF r
  <2>2. r.told \in Seq(Incidents) /\ FtpInv(r.session, t \o r.told, Did(d, s, line))
    BY <1>1, <2>1, FtpStep
  <2> QED
    BY <1>1, <2>2 DEF SessionInv
<1>2. CASE setting.protocol = "telnet"
  <2>1. r = TelnetLine(s, line, setting.interactive) /\ line \in TelnetLines /\ TelnetInv(s, t, d)
    BY <1>2 DEF Line, Inputs, SessionInv
  <2> HIDE DEF r
  <2>2. r.told \in Seq(Incidents) /\ TelnetInv(r.session, t \o r.told, Did(d, s, line))
    BY <1>2, <2>1, TelnetStep
  <2> QED
    BY <1>2, <2>2 DEF SessionInv
<1>3. CASE setting.protocol = "ssh"
  <2>1. r = SshLine(s, line, setting.interactive) /\ line \in SshLines(s) /\ SshInv(s, t, d)
    BY <1>3 DEF Line, Inputs, SessionInv
  <2> HIDE DEF r
  <2>2. r.told \in Seq(Incidents) /\ SshInv(r.session, t \o r.told, Did(d, s, line))
    BY <1>3, <2>1, SshStep
  <2> QED
    BY <1>3, <2>2 DEF SessionInv
<1>4. CASE setting.protocol = "smtp"
  <2>1. r = SmtpLine(s, line) /\ line \in SmtpLines /\ SmtpInv(s, t, d)
    BY <1>4 DEF Line, Inputs, SessionInv
  <2> HIDE DEF r
  <2>2. r.told \in Seq(Incidents) /\ SmtpInv(r.session, t \o r.told, Did(d, s, line))
    BY <1>4, <2>1, SmtpStep
  <2> QED
    BY <1>4, <2>2 DEF SessionInv
<1> QED
  BY <1>1, <1>2, <1>3, <1>4 DEF Protocols

\* What it comes to before the connection has ended, and what its end adds.
LEMMA SessionEnds ==
  ASSUME setting.protocol \in Protocols, NEW s, NEW t, NEW d, SessionInv(s, t, d)
  PROVE  /\ t \in Seq(Incidents) /\ Closing(s) \in Seq(Incidents)
         /\ Evidence(t, d, FALSE) /\ \E mail \in Nat : Apart(t, mail)
         /\ Evidence(t \o Closing(s), d, TRUE) /\ \E mail \in Nat : Apart(t \o Closing(s), mail)
<1>1. CASE setting.protocol = "ftp"
  <2>1. Closing(s) = FtpCloses(s) /\ FtpInv(s, t, d) /\ t \in Seq(Incidents) /\ 0 \in Nat
    BY <1>1 DEF Closing, SessionInv, FtpInv, Tally
  <2> QED
    BY <1>1, <2>1, FtpEnd
<1>2. CASE setting.protocol = "telnet"
  <2>1. Closing(s) = TelnetCloses(s) /\ TelnetInv(s, t, d) /\ t \in Seq(Incidents) /\ 0 \in Nat
    BY <1>2 DEF Closing, SessionInv, TelnetInv, Tally
  <2> QED
    BY <1>2, <2>1, TelnetEnd
<1>3. CASE setting.protocol = "ssh"
  <2>1. Closing(s) = SshCloses(s) /\ SshInv(s, t, d) /\ t \in Seq(Incidents) /\ 0 \in Nat
    BY <1>3 DEF Closing, SessionInv, SshInv, Tally
  <2> QED
    BY <1>3, <2>1, SshEnd
<1>4. CASE setting.protocol = "smtp"
  <2>1. Closing(s) = <<>> /\ SmtpInv(s, t, d) /\ t \in Seq(Incidents) /\ s.mail \in Nat
    BY <1>4 DEF Closing, SessionInv, SmtpInv, Tally, SmtpSane, SmtpSessions
  <2>2. Evidence(t, d, TRUE) /\ Apart(t, s.mail) /\ t \o <<>> = t
    BY <1>4, <2>1, SmtpEnd
  <2>3. Evidence(t, d, FALSE)
    BY <2>2 DEF Evidence
  <2>4. <<>> \in Seq(Incidents)
    BY EmptySeq
  <2> QED
    BY <2>1, <2>2, <2>3, <2>4
<1> QED
  BY <1>1, <1>2, <1>3, <1>4 DEF Protocols

\* What the invariant says of the types.
LEMMA SessionType ==
  ASSUME setting.protocol \in Protocols, NEW s, NEW t, NEW d, SessionInv(s, t, d)
  PROVE  d \in Counts /\ t \in Seq(Incidents)
BY DEF SessionInv, Protocols, FtpInv, TelnetInv, SshInv, SmtpInv, Tally

\* Nothing is added by nothing, and what is added is counted.
LEMMA PlusIs ==
  /\ Nil \in Counts
  /\ \A d, e \in Counts : Plus(d, e) \in Counts
  /\ \A d \in Counts : Plus(d, Nil) = d /\ Plus(Nil, d) = d
  /\ \A d, e, g \in Counts : Plus(Plus(d, e), g) = Plus(d, Plus(e, g))
  /\ \A d, e \in Counts : Plus(d, e) = Plus(e, d)
BY DEF Nil, Plus, Counts

\* The order of three sums does not matter.
LEMMA PlusTwice ==
  ASSUME NEW d \in Counts, NEW e \in Counts, NEW g \in Counts
  PROVE  Plus(Plus(d, e), g) = Plus(d, Plus(e, g))
BY PlusIs

\* What a line submits is counted.
LEMMA SubmitsIs ==
  ASSUME NEW s, NEW line
  PROVE  Submits(s, line) \in Counts
BY DEF Submits, One, Counts

\* The lines of a connection, heard one after the other.
LEMMA MeantTurns ==
  ASSUME NEW s, NEW lines, Len(lines) \in Nat
  PROVE  \E f : /\ \A n \in 0..Len(lines) :
                     f[n] = IF n = 0 THEN [session |-> s, did |-> Nil] ELSE Hears(f[n - 1], lines[n])
                /\ Meant(s, lines) = f[Len(lines)]
<1> DEFINE n == Len(lines)
           a == [session |-> s, did |-> Nil]
           Is(h) == h = [i \in 0..n |-> IF i = 0 THEN a ELSE Hears(h[i - 1], lines[i])]
           upTo(g, k) == \A i \in 0..k : g[i] = IF i = 0 THEN a ELSE Hears(g[i - 1], lines[i])
           S == {k \in 0..n : \E g : upTo(g, k)}
           f == CHOOSE h : Is(h)
<1> HIDE DEF a
<1>1. n \in Nat
  OBVIOUS
<1>2. 0 \in S
  <2> DEFINE g == [i \in 0..0 |-> a]
  <2>1. upTo(g, 0)
    OBVIOUS
  <2> HIDE DEF g, upTo
  <2> QED
    BY <1>1, <2>1
<1>3. ASSUME NEW k \in 0..(n - 1), k \in S PROVE k + 1 \in S
  <2>1. PICK g : upTo(g, k)
    BY <1>3
  <2> DEFINE next == [i \in 0..(k + 1) |-> IF i <= k THEN g[i] ELSE Hears(g[k], lines[k + 1])]
  <2>2. ASSUME NEW i \in 0..(k + 1) PROVE next[i] = IF i = 0 THEN a ELSE Hears(next[i - 1], lines[i])
    <3>1. k \in Nat /\ i \in Nat
      BY <1>1
    <3>2. CASE i = 0
      BY <2>1, <3>1, <3>2
    <3>3. CASE i # 0 /\ i <= k
      <4>1. i \in 0..k /\ i - 1 \in 0..(k + 1) /\ i - 1 <= k
        BY <3>1, <3>3
      <4>2. next[i] = g[i] /\ next[i - 1] = g[i - 1]
        BY <3>3, <4>1
      <4>3. g[i] = Hears(g[i - 1], lines[i])
        BY <2>1, <3>3, <4>1
      <4> HIDE DEF next
      <4> QED
        BY <3>3, <4>2, <4>3
    <3>4. CASE i = k + 1
      <4>1. k \in 0..(k + 1) /\ i # 0 /\ ~ i <= k /\ i - 1 = k
        BY <3>1, <3>4
      <4>2. next[i] = Hears(g[k], lines[k + 1]) /\ next[k] = g[k]
        BY <3>1, <4>1
      <4> HIDE DEF next
      <4> QED
        BY <3>4, <4>1, <4>2
    <3> QED
      BY <3>1, <3>2, <3>3, <3>4
  <2> HIDE DEF next
  <2>3. upTo(next, k + 1)
    BY <2>2
  <2>4. k + 1 \in 0..n
    BY <1>1
  <2> HIDE DEF upTo
  <2> QED
    BY <2>3, <2>4
<1> HIDE DEF S
<1>4. n \in S
  <2> HIDE DEF n
  <2>1. 0..n \subseteq S
    BY <1>1, <1>2, <1>3, UpTo
  <2> QED
    BY <1>1, <2>1
<1>5. PICK g : upTo(g, n)
  BY <1>4 DEF S
<1>6. Is([i \in 0..n |-> g[i]])
  <2> DEFINE h == [i \in 0..n |-> g[i]]
  <2>1. \A i \in 0..n : h[i] = IF i = 0 THEN a ELSE Hears(h[i - 1], lines[i])
    <3> SUFFICES ASSUME NEW i \in 0..n PROVE h[i] = IF i = 0 THEN a ELSE Hears(h[i - 1], lines[i])
      OBVIOUS
    <3>1. i # 0 => i - 1 \in 0..n
      BY <1>1
    <3> QED
      BY <1>5, <3>1
  <2>2. h = [i \in 0..n |-> h[i]]
    OBVIOUS
  <2> HIDE DEF h
  <2>3. Is(h)
    BY <2>1, <2>2
  <2> QED
    BY <2>3 DEF h
<1>7. Is(f)
  BY <1>6
<1>8. Meant(s, lines) = f[n]
  BY DEF Meant, a
<1> HIDE DEF f
<1>9. \A i \in 0..n : f[i] = IF i = 0 THEN a ELSE Hears(f[i - 1], lines[i])
  BY <1>7
<1> QED
  BY <1>8, <1>9 DEF a

\* Lines are heard from where the lines before them were.
LEMMA MeantFollows ==
  ASSUME NEW s, NEW L, NEW a \in Seq(L), NEW b \in Seq(L)
  PROVE  LET w == Meant(s, a)
             v == Meant(w.session, b)
         IN  /\ w.did \in Counts /\ v.did \in Counts
             /\ Meant(s, a \o b).session = v.session
             /\ Meant(s, a \o b).did = Plus(w.did, v.did)
<1> DEFINE m == Len(a)
           n == Len(b)
           w == Meant(s, a)
           v == Meant(w.session, b)
<1>1. /\ m \in Nat /\ n \in Nat /\ a \o b \in Seq(L) /\ Len(a \o b) = m + n
      /\ \A i \in 1..m : (a \o b)[i] = a[i]
      /\ \A i \in 1..n : (a \o b)[m + i] = b[i]
  <2>1. /\ m \in Nat /\ n \in Nat /\ a \o b \in Seq(L) /\ Len(a \o b) = m + n
        /\ \A i \in 1..Len(a \o b) : (a \o b)[i] = IF i <= Len(a) THEN a[i] ELSE b[i - Len(a)]
    BY LenProperties, ConcatProperties
  <2> DEFINE ab == a \o b
  <2> HIDE DEF ab, m, n
  <2>2. /\ m \in Nat /\ n \in Nat /\ Len(ab) = m + n
        /\ \A i \in 1..Len(ab) : ab[i] = IF i <= m THEN a[i] ELSE b[i - m]
    BY <2>1 DEF ab, m, n
  <2>3. \A i \in 1..m : i \in 1..Len(ab) /\ i <= m
    BY <2>2
  <2>4. \A i \in 1..n : m + i \in 1..Len(ab) /\ ~ m + i <= m /\ (m + i) - m = i
    BY <2>2
  <2> QED
    BY <2>1, <2>2, <2>3, <2>4 DEF ab
<1>2. PICK f : /\ \A i \in 0..m : f[i] = IF i = 0 THEN [session |-> s, did |-> Nil] ELSE Hears(f[i - 1], a[i])
               /\ w = f[m]
  BY <1>1, MeantTurns, Zenon
<1>3. PICK g : /\ \A i \in 0..n : g[i] = IF i = 0 THEN [session |-> w.session, did |-> Nil] ELSE Hears(g[i - 1], b[i])
               /\ v = g[n]
  BY <1>1, MeantTurns, Zenon
<1> DEFINE ab == a \o b
<1> HIDE DEF ab, m, n, w, v
<1>4. PICK h : /\ \A i \in 0..(m + n) : h[i] = IF i = 0 THEN [session |-> s, did |-> Nil] ELSE Hears(h[i - 1], ab[i])
               /\ Meant(s, ab) = h[m + n]
  <2>1. Len(ab) = m + n /\ Len(ab) \in Nat
    BY <1>1 DEF ab
  <2>2. PICK h : /\ \A i \in 0..Len(ab) : h[i] = IF i = 0 THEN [session |-> s, did |-> Nil] ELSE Hears(h[i - 1], ab[i])
                 /\ Meant(s, ab) = h[Len(ab)]
    BY <2>1, MeantTurns, Zenon
  <2> QED
    BY <2>1, <2>2
<1> DEFINE S == {i \in 0..m : h[i] = f[i] /\ f[i].did \in Counts}
<1>5. 0 \in S
  <2>1. f[0] = [session |-> s, did |-> Nil] /\ h[0] = [session |-> s, did |-> Nil]
    <3>1. 0 \in 0..m /\ 0 \in 0..(m + n)
      BY <1>1
    <3> QED
      BY <1>2, <1>4, <3>1
  <2> QED
    BY <1>1, <2>1, PlusIs
<1>6. ASSUME NEW k \in 0..(m - 1), k \in S PROVE k + 1 \in S
  <2>1. k + 1 \in 1..m /\ k + 1 \in 0..m /\ k + 1 \in 0..(m + n) /\ k + 1 # 0 /\ (k + 1) - 1 = k
    BY <1>1
  <2>2. f[k + 1] = Hears(f[k], a[k + 1]) /\ h[k + 1] = Hears(h[k], a[k + 1])
    BY <1>1, <1>2, <1>4, <2>1 DEF ab
  <2>3. h[k] = f[k] /\ f[k].did \in Counts
    BY <1>6
  <2>4. f[k + 1].did = Plus(f[k].did, Submits(f[k].session, a[k + 1]))
    BY <2>2 DEF Hears
  <2>5. f[k + 1].did \in Counts
    BY <2>3, <2>4, PlusIs, SubmitsIs
  <2> QED
    BY <2>1, <2>2, <2>3, <2>5
<1> HIDE DEF S
<1>7. h[m] = w /\ w.did \in Counts
  <2>1. 0..m \subseteq S
    BY <1>1, <1>5, <1>6, UpTo
  <2>2. m \in S
    BY <1>1, <2>1
  <2> QED
    BY <1>2, <2>2 DEF S
<1> DEFINE T == {i \in 0..n : /\ g[i].did \in Counts
                              /\ h[m + i].session = g[i].session /\ h[m + i].did = Plus(w.did, g[i].did)}
<1>8. 0 \in T
  <2>1. g[0] = [session |-> w.session, did |-> Nil] /\ m + 0 = m /\ 0 \in 0..n
    BY <1>1, <1>3
  <2> QED
    BY <1>7, <2>1, PlusIs
<1>9. ASSUME NEW k \in 0..(n - 1), k \in T PROVE k + 1 \in T
  <2>1. /\ k + 1 \in 1..n /\ k + 1 \in 0..n /\ k + 1 # 0 /\ (k + 1) - 1 = k
        /\ m + (k + 1) \in 0..(m + n) /\ m + (k + 1) # 0 /\ (m + (k + 1)) - 1 = m + k
    BY <1>1
  <2> DEFINE line == b[k + 1]
  <2>2. ab[m + (k + 1)] = line
    BY <1>1, <2>1 DEF ab
  <2>3. g[k + 1] = Hears(g[k], line)
    BY <1>3, <2>1
  <2>4. h[m + (k + 1)] = Hears(h[m + k], line)
    BY <1>4, <2>1, <2>2
  <2> HIDE DEF line
  <2>5. g[k].did \in Counts /\ h[m + k].session = g[k].session /\ h[m + k].did = Plus(w.did, g[k].did)
    BY <1>9
  <2> DEFINE e == Submits(g[k].session, line)
  <2>6. e \in Counts
    BY SubmitsIs
  <2>7. /\ g[k + 1].session = Line(g[k].session, line).session /\ g[k + 1].did = Plus(g[k].did, e)
        /\ h[m + (k + 1)].session = g[k + 1].session
        /\ h[m + (k + 1)].did = Plus(Plus(w.did, g[k].did), e)
    BY <2>3, <2>4, <2>5 DEF Hears
  <2> HIDE DEF e
  <2>8. g[k + 1].did \in Counts /\ Plus(Plus(w.did, g[k].did), e) = Plus(w.did, g[k + 1].did)
    BY <1>7, <2>5, <2>6, <2>7, PlusIs
  <2> QED
    BY <2>1, <2>7, <2>8
<1> HIDE DEF T
<1>10. n \in T
  <2>1. 0..n \subseteq T
    BY <1>1, <1>8, <1>9, UpTo
  <2> QED
    BY <1>1, <2>1
<1>11. v.did \in Counts /\ Meant(s, ab).session = v.session /\ Meant(s, ab).did = Plus(w.did, v.did)
  BY <1>3, <1>4, <1>10 DEF T
<1> QED
  BY <1>7, <1>11 DEF ab, w, v

\* No line means nothing.
LEMMA MeantNothing ==
  ASSUME NEW s
  PROVE  Meant(s, <<>>) = [session |-> s, did |-> Nil]
<1> DEFINE lines == <<>>
<1>1. Len(lines) = 0
  OBVIOUS
<1> HIDE DEF lines
<1>2. PICK f : /\ \A n \in 0..Len(lines) :
                    f[n] = IF n = 0 THEN [session |-> s, did |-> Nil] ELSE Hears(f[n - 1], lines[n])
               /\ Meant(s, lines) = f[Len(lines)]
  <2>1. Len(lines) \in Nat
    BY <1>1
  <2> QED
    BY <2>1, MeantTurns, Zenon
<1>3. 0 \in 0..Len(lines)
  BY <1>1
<1> QED
  BY <1>1, <1>2, <1>3 DEF lines

\* One line is heard once.
LEMMA MeantOne ==
  ASSUME NEW s, NEW line
  PROVE  Meant(s, <<line>>) = Hears([session |-> s, did |-> Nil], line)
<1> DEFINE lines == <<line>>
<1>1. Len(lines) = 1 /\ lines[1] = line
  OBVIOUS
<1> HIDE DEF lines
<1>2. PICK f : /\ \A n \in 0..Len(lines) :
                    f[n] = IF n = 0 THEN [session |-> s, did |-> Nil] ELSE Hears(f[n - 1], lines[n])
               /\ Meant(s, lines) = f[Len(lines)]
  <2>1. Len(lines) \in Nat
    BY <1>1
  <2> QED
    BY <2>1, MeantTurns, Zenon
<1>3. 0 \in 0..1 /\ 1 \in 0..1 /\ 1 # 0 /\ 1 - 1 = 0
  OBVIOUS
<1>4. f[0] = [session |-> s, did |-> Nil] /\ f[1] = Hears(f[0], line)
  BY <1>1, <1>2, <1>3
<1> QED
  BY <1>1, <1>2, <1>4 DEF lines

\* One line more is heard after the others.
LEMMA MeantMore ==
  ASSUME NEW s, NEW L, NEW lines \in Seq(L), NEW line \in L
  PROVE  LET w == Meant(s, lines)
             v == Meant(s, Append(lines, line))
         IN  /\ w.did \in Counts
             /\ v.session = Line(w.session, line).session
             /\ v.did = Plus(w.did, Submits(w.session, line))
<1> DEFINE w == Meant(s, lines)
           x == <<line>>
<1>1. x \in Seq(L) /\ Append(lines, line) = lines \o x
  OBVIOUS
<1>2. Meant(w.session, x) = Hears([session |-> w.session, did |-> Nil], line)
  BY MeantOne
<1> HIDE DEF w, x
<1>3. /\ w.did \in Counts
      /\ Meant(s, lines \o x).session = Meant(w.session, x).session
      /\ Meant(s, lines \o x).did = Plus(w.did, Meant(w.session, x).did)
  BY <1>1, MeantFollows DEF w
<1>4. /\ Meant(w.session, x).session = Line(w.session, line).session
      /\ Meant(w.session, x).did = Plus(Nil, Submits(w.session, line))
  BY <1>2 DEF Hears
<1>5. Meant(w.session, x).did = Submits(w.session, line)
  BY <1>4, PlusIs, SubmitsIs
<1> QED
  BY <1>1, <1>3, <1>4, <1>5 DEF w

\* Past the cap on lines an SMTP client submits nothing.
LEMMA MeantPastCap ==
  ASSUME setting.protocol = "smtp", NEW s, "lines" \in DOMAIN s, s.lines \in Nat, s.lines > MaxLines,
         NEW L, NEW lines \in Seq(L)
  PROVE  Meant(s, lines).did = Nil
<1> DEFINE n == Len(lines)
<1>1. n \in Nat /\ MaxLines \in Nat
  BY LenProperties, DialogueAssumption
<1>2. PICK f : /\ \A i \in 0..n : f[i] = IF i = 0 THEN [session |-> s, did |-> Nil] ELSE Hears(f[i - 1], lines[i])
               /\ Meant(s, lines) = f[n]
  BY <1>1, MeantTurns, Zenon
<1> HIDE DEF n
<1> DEFINE past(u) == "lines" \in DOMAIN u /\ u.lines \in Nat /\ u.lines > MaxLines
           S == {i \in 0..n : f[i].did = Nil /\ past(f[i].session)}
<1>3. 0 \in S
  BY <1>1, <1>2
<1>4. ASSUME NEW u, past(u), NEW line
      PROVE  past(Line(u, line).session) /\ Submits(u, line) = Nil
  <2> DEFINE t == [u EXCEPT !.lines = @ + 1]
  <2>1. "lines" \in DOMAIN t /\ t.lines = u.lines + 1
    BY <1>4
  <2>2. t.lines \in Nat /\ t.lines > MaxLines
    BY <1>1, <1>4, <2>1
  <2>3. Line(u, line).session = t
    <3>1. Line(u, line) = SmtpLine(u, line)
      BY DEF Line
    <3>2. t.lines > MaxLines /\ ~ t.lines <= MaxLines
      BY <1>1, <2>2
    <3>3. SmtpLine(u, line) = Reply(t, <<>>, "destroyed")
      BY <3>2 DEF SmtpLine
    <3> QED
      BY <3>1, <3>3 DEF Reply
  <2>4. ~Offers(u, line) /\ ~Runs(u, line)
    <3>1. ~ u.lines < MaxLines
      BY <1>1, <1>4
    <3> QED
      BY <3>1 DEF Offers, Runs
  <2>5. Submits(u, line) = Nil
    BY <2>4 DEF Submits, Nil, One
  <2> QED
    BY <2>1, <2>2, <2>3, <2>5
<1> HIDE DEF past
<1>5. ASSUME NEW k \in 0..(n - 1), k \in S PROVE k + 1 \in S
  <2>1. k + 1 \in 0..n /\ k + 1 # 0 /\ (k + 1) - 1 = k
    BY <1>1
  <2>2. f[k + 1] = Hears(f[k], lines[k + 1])
    BY <1>2, <2>1
  <2>3. f[k].did = Nil /\ past(f[k].session)
    BY <1>5
  <2>4. past(Line(f[k].session, lines[k + 1]).session) /\ Submits(f[k].session, lines[k + 1]) = Nil
    BY <1>4, <2>3
  <2>5. Plus(Nil, Nil) = Nil
    BY PlusIs
  <2>6. f[k + 1].did = Nil /\ past(f[k + 1].session)
    BY <2>2, <2>3, <2>4, <2>5 DEF Hears
  <2> QED
    BY <2>1, <2>6
<1> HIDE DEF S
<1>6. 0..n \subseteq S
  BY <1>1, <1>3, <1>5, UpTo
<1>7. n \in S
  BY <1>1, <1>6
<1> QED
  BY <1>2, <1>7 DEF S

\* What lines mean depends on the setting alone.
LEMMA MeantSame ==
  ASSUME setting' = setting
  PROVE  \A c : Meant(session[c], buffer[c])' = Meant(session'[c], buffer'[c])
BY DEF Meant, Hears, Line, Submits, Offers, Runs

\* What is handed from line to line.
TurnFields == {"session", "told", "socket", "left", "rest"}

\* What Handle() does to each part of a turn.
LEMMA HandleIs ==
  ASSUME NEW a, a = [x \in TurnFields |-> a[x]], NEW line
  PROVE  LET b == Handle(a, line)
             r == Line(a.session, line)
         IN  /\ b = [x \in TurnFields |-> b[x]]
             /\ a.left => /\ b.session = a.session /\ b.told = a.told /\ b.socket = a.socket /\ b.left = a.left
                          /\ b.rest = Append(a.rest, line)
             /\ ~a.left => /\ b.session = r.session /\ b.told = a.told \o r.told
                           /\ b.socket = Sent(a.socket, r) /\ b.left = Leaves(b.socket, r) /\ b.rest = a.rest
<1> DEFINE b == Handle(a, line)
           r == Line(a.session, line)
           after == Sent(a.socket, r)
           leaves == Leaves(after, r)
<1>1. /\ "session" \in TurnFields /\ "told" \in TurnFields /\ "socket" \in TurnFields /\ "left" \in TurnFields
      /\ "rest" \in TurnFields
  BY DEF TurnFields
<1>2. CASE a.left
  <2>1. b = [a EXCEPT !.rest = Append(a.rest, line)]
    BY <1>2 DEF Handle
  <2> HIDE DEF b
  <2>2. /\ b = [x \in TurnFields |-> b[x]] /\ b.session = a.session /\ b.told = a.told /\ b.socket = a.socket
        /\ b.left = a.left /\ b.rest = Append(a.rest, line)
    BY <1>1, <2>1
  <2> QED
    BY <1>2, <2>2 DEF b
<1>3. CASE ~a.left
  <2>1. b = [a EXCEPT !.session = r.session, !.told = @ \o r.told, !.socket = after, !.left = leaves]
    BY <1>3, Zenon DEF Handle
  <2> HIDE DEF b, r, after, leaves
  <2>2. /\ b = [x \in TurnFields |-> b[x]] /\ b.session = r.session /\ b.told = a.told \o r.told /\ b.rest = a.rest
        /\ b.socket = after /\ b.left = leaves
    BY <1>1, <2>1
  <2>3. b.socket = Sent(a.socket, r) /\ b.left = Leaves(b.socket, r)
    BY <2>2 DEF after, leaves
  <2> QED
    BY <1>3, <2>2, <2>3 DEF b, r
<1> QED
  BY <1>2, <1>3

\* The turns of the lines of a data event, one after the other.
LEMMA HandledTurns ==
  ASSUME NEW a, NEW lines, Len(lines) \in Nat
  PROVE  \E f : /\ \A n \in 0..Len(lines) : f[n] = IF n = 0 THEN a ELSE Handle(f[n - 1], lines[n])
                /\ Handled(a, lines) = f[Len(lines)]
<1> DEFINE n == Len(lines)
           Is(h) == h = [i \in 0..n |-> IF i = 0 THEN a ELSE Handle(h[i - 1], lines[i])]
           upTo(g, k) == \A i \in 0..k : g[i] = IF i = 0 THEN a ELSE Handle(g[i - 1], lines[i])
           S == {k \in 0..n : \E g : upTo(g, k)}
           f == CHOOSE h : Is(h)
<1>1. n \in Nat
  OBVIOUS
<1>2. 0 \in S
  <2> DEFINE g == [i \in 0..0 |-> a]
  <2>1. upTo(g, 0)
    OBVIOUS
  <2> HIDE DEF g, upTo
  <2> QED
    BY <1>1, <2>1
<1>3. ASSUME NEW k \in 0..(n - 1), k \in S PROVE k + 1 \in S
  <2>1. PICK g : upTo(g, k)
    BY <1>3
  <2> DEFINE next == [i \in 0..(k + 1) |-> IF i <= k THEN g[i] ELSE Handle(g[k], lines[k + 1])]
  <2>2. ASSUME NEW i \in 0..(k + 1) PROVE next[i] = IF i = 0 THEN a ELSE Handle(next[i - 1], lines[i])
    <3>1. k \in Nat /\ i \in Nat
      BY <1>1
    <3>2. CASE i = 0
      BY <2>1, <3>1, <3>2
    <3>3. CASE i # 0 /\ i <= k
      <4>1. i \in 0..k /\ i - 1 \in 0..(k + 1) /\ i - 1 <= k
        BY <3>1, <3>3
      <4>2. next[i] = g[i] /\ next[i - 1] = g[i - 1]
        BY <3>3, <4>1
      <4>3. g[i] = Handle(g[i - 1], lines[i])
        BY <2>1, <3>3, <4>1
      <4> HIDE DEF next
      <4> QED
        BY <3>3, <4>2, <4>3
    <3>4. CASE i = k + 1
      <4>1. k \in 0..(k + 1) /\ i # 0 /\ ~ i <= k /\ i - 1 = k
        BY <3>1, <3>4
      <4>2. next[i] = Handle(g[k], lines[k + 1]) /\ next[k] = g[k]
        BY <3>1, <4>1
      <4> HIDE DEF next
      <4> QED
        BY <3>4, <4>1, <4>2
    <3> QED
      BY <3>1, <3>2, <3>3, <3>4
  <2> HIDE DEF next
  <2>3. upTo(next, k + 1)
    BY <2>2
  <2>4. k + 1 \in 0..n
    BY <1>1
  <2> HIDE DEF upTo
  <2> QED
    BY <2>3, <2>4
<1> HIDE DEF S
<1>4. n \in S
  <2> HIDE DEF n
  <2>1. 0..n \subseteq S
    BY <1>1, <1>2, <1>3, UpTo
  <2> QED
    BY <1>1, <2>1
<1>5. PICK g : upTo(g, n)
  BY <1>4 DEF S
<1>6. Is([i \in 0..n |-> g[i]])
  <2> DEFINE h == [i \in 0..n |-> g[i]]
  <2>1. \A i \in 0..n : h[i] = IF i = 0 THEN a ELSE Handle(h[i - 1], lines[i])
    <3> SUFFICES ASSUME NEW i \in 0..n PROVE h[i] = IF i = 0 THEN a ELSE Handle(h[i - 1], lines[i])
      OBVIOUS
    <3>1. i # 0 => i - 1 \in 0..n
      BY <1>1
    <3> QED
      BY <1>5, <3>1
  <2>2. h = [i \in 0..n |-> h[i]]
    OBVIOUS
  <2> HIDE DEF h
  <2>3. Is(h)
    BY <2>1, <2>2
  <2> QED
    BY <2>3 DEF h
<1>7. Is(f)
  BY <1>6
<1>8. Handled(a, lines) = f[n]
  BY DEF Handled
<1> HIDE DEF f
<1>9. \A i \in 0..n : f[i] = IF i = 0 THEN a ELSE Handle(f[i - 1], lines[i])
  BY <1>7
<1> QED
  BY <1>8, <1>9

\* The loop is left only once the handler hung up, and a socket hung up stays so.
LEMMA LeavesHungUp ==
  ASSUME NEW now, NEW r
  PROVE  /\ now # "open" => Sent(now, r) # "open"
         /\ Leaves(Sent(now, r), r) => Sent(now, r) # "open"
<1>1. now # "open" => Sent(now, r) # "open"
  BY DEF Sent
<1>2. now = "open" => Sent(now, r) = r.socket
  BY DEF Sent
<1>3. Leaves(Sent(now, r), r) => Sent(now, r) # "open" \/ r.socket # "open"
  BY DEF Leaves
<1> QED
  BY <1>1, <1>2, <1>3

\* SMTP leaves it only at the cap on lines.
LEMMA SmtpLeaves ==
  ASSUME setting.protocol = "smtp", NEW s \in SmtpSessions, NEW line \in SmtpLines, NEW now,
         Leaves(now, SmtpLine(s, line))
  PROVE  LET u == SmtpLine(s, line).session
         IN  "lines" \in DOMAIN u /\ u.lines \in Nat /\ u.lines > MaxLines
<1> DEFINE t == [s EXCEPT !.lines = @ + 1]
<1>1. /\ "lines" \in DOMAIN t /\ t.lines = s.lines + 1 /\ t.lines \in Nat /\ MaxLines \in Nat
      /\ t \in SmtpSessions
  BY DialogueAssumption DEF SmtpSessions
<1>2. SmtpLine(s, line).socket = "destroyed"
  BY DEF Leaves
<1> HIDE DEF t
<1>3. CASE t.lines > MaxLines
  <2>1. SmtpLine(s, line) = Reply(t, <<>>, "destroyed")
    BY <1>1, <1>3 DEF SmtpLine, t
  <2> QED
    BY <1>1, <1>3, <2>1 DEF Reply
<1>4. CASE ~(t.lines > MaxLines)
  <2>1. \/ SmtpLine(s, line) = SmtpData(t, line) \/ SmtpLine(s, line) = SmtpUser(t)
        \/ SmtpLine(s, line) = SmtpPass(t) \/ SmtpLine(s, line) = SmtpCommand(t, line)
    BY <1>4 DEF SmtpLine, t
  <2>2. SmtpData(t, line).socket # "destroyed" /\ SmtpUser(t).socket # "destroyed"
    BY DEF SmtpData, SmtpUser, Says, Reply
  <2>3. \A u : SmtpPass(u).socket # "destroyed" /\ SmtpRcpt(u, line).socket # "destroyed"
    BY DEF SmtpPass, SmtpRcpt, Reply
  <2>4. SmtpCommand(t, line).socket # "destroyed"
    BY <2>3 DEF SmtpCommand, Says, Reply
  <2> QED
    BY <1>2, <2>1, <2>2, <2>3, <2>4
<1> QED
  BY <1>3, <1>4

\* A turn at which a client that has reported t, of d submitted, stands: lines
\* are left only behind one at which the handler hung up.
Turn(a, t, d) ==
  /\ a = [x \in TurnFields |-> a[x]]
  /\ a.told \in Seq(Incidents) /\ SessionInv(a.session, t \o a.told, d)
  /\ ~a.left => a.rest = <<>>
  /\ a.left => /\ a.socket # "open"
               /\ setting.protocol = "smtp" =>
                    "lines" \in DOMAIN a.session /\ a.session.lines \in Nat /\ a.session.lines > MaxLines

\* A turn stays one when a line is handled, or left.
LEMMA HandleKeeps ==
  ASSUME setting.protocol \in Protocols, setting.interactive \in BOOLEAN, NEW t \in Seq(Incidents), NEW a, NEW d,
         Turn(a, t, d), NEW line \in Inputs(a.session)
  PROVE  LET b == Handle(a, line)
         IN  /\ a.left => Turn(b, t, d) /\ b.session = a.session /\ b.rest = Append(a.rest, line)
             /\ ~a.left => /\ Turn(b, t, Did(d, a.session, line)) /\ b.session = Line(a.session, line).session
                           /\ b.rest = <<>>
             /\ a.socket # "open" => b.socket # "open"
<1> DEFINE b == Handle(a, line)
           r == Line(a.session, line)
           e == Did(d, a.session, line)
<1>1. /\ a = [x \in TurnFields |-> a[x]] /\ a.told \in Seq(Incidents)
      /\ SessionInv(a.session, t \o a.told, d)
      /\ ~a.left => a.rest = <<>>
      /\ a.left => a.socket # "open"
  BY DEF Turn
<1>2. /\ b = [x \in TurnFields |-> b[x]]
      /\ a.left => /\ b.session = a.session /\ b.told = a.told /\ b.socket = a.socket /\ b.left = a.left
                   /\ b.rest = Append(a.rest, line)
      /\ ~a.left => /\ b.session = r.session /\ b.told = a.told \o r.told
                    /\ b.socket = Sent(a.socket, r) /\ b.left = Leaves(b.socket, r) /\ b.rest = a.rest
  BY <1>1, HandleIs, Zenon
<1>3. r.told \in Seq(Incidents) /\ SessionInv(r.session, (t \o a.told) \o r.told, e)
  BY <1>1, LineKeeps
<1>4. setting.protocol = "smtp" /\ ~a.left /\ b.left =>
        "lines" \in DOMAIN r.session /\ r.session.lines \in Nat /\ r.session.lines > MaxLines
  <2> SUFFICES ASSUME setting.protocol = "smtp", Leaves(b.socket, r)
               PROVE  "lines" \in DOMAIN r.session /\ r.session.lines \in Nat /\ r.session.lines > MaxLines
    BY <1>2
  <2>1. r = SmtpLine(a.session, line) /\ line \in SmtpLines
    BY DEF Line, Inputs
  <2>2. a.session \in SmtpSessions
    BY <1>1 DEF SessionInv, SmtpInv, SmtpSane
  <2> HIDE DEF r, b
  <2> QED
    BY <2>1, <2>2, SmtpLeaves
<1> HIDE DEF b, r, e
<1>5. (t \o a.told) \o r.told = t \o (a.told \o r.told) /\ a.told \o r.told \in Seq(Incidents)
  <2>1. \A u, v \in Seq(Incidents) : (t \o u) \o v = t \o (u \o v) /\ u \o v \in Seq(Incidents)
    BY ConcatAssociative, ConcatProperties
  <2>2. a.told \in Seq(Incidents) /\ r.told \in Seq(Incidents)
    BY <1>1, <1>3
  <2> QED
    BY <2>1, <2>2, Zenon
<1>6. /\ a.socket # "open" => Sent(a.socket, r) # "open"
      /\ Leaves(Sent(a.socket, r), r) => Sent(a.socket, r) # "open"
  BY LeavesHungUp, Zenon
<1>7. CASE a.left
  <2>1. b.left /\ b.socket # "open"
    BY <1>1, <1>2, <1>7
  <2>2. Turn(b, t, d)
    BY <1>1, <1>2, <1>7, <2>1 DEF Turn
  <2> QED
    BY <1>2, <1>7, <2>1, <2>2 DEF b
<1>8. CASE ~a.left
  <2>1. b.told \in Seq(Incidents) /\ SessionInv(b.session, t \o b.told, e)
    BY <1>2, <1>3, <1>5, <1>8, Zenon
  <2>2. b.rest = <<>>
    BY <1>1, <1>2, <1>8
  <2>3. b.left => b.socket # "open"
    BY <1>2, <1>6, <1>8, Zenon
  <2>4. Turn(b, t, e)
    BY <1>2, <1>4, <1>8, <2>1, <2>2, <2>3 DEF Turn
  <2>5. a.socket # "open" => b.socket # "open"
    BY <1>2, <1>6, <1>8, Zenon
  <2> QED
    BY <1>2, <1>8, <2>2, <2>4, <2>5 DEF b, r, e
<1> QED
  BY <1>7, <1>8

\* What a data event comes to: of all that its lines submit, e was handled and
\* the lines that are left submit the rest.
Handles(a, t, d, lines, at) ==
  \E e \in Counts :
    /\ Turn(at, t, e)
    /\ Plus(d, Meant(a.session, lines).did) = Plus(e, Meant(at.session, at.rest).did)
    /\ a.socket # "open" => at.socket # "open"

\* The lines of a data event, where what may be said does not change with it.
LEMMA HandledKeeps ==
  ASSUME setting.protocol \in Protocols, setting.interactive \in BOOLEAN, NEW t \in Seq(Incidents), NEW a, NEW d,
         Turn(a, t, d), ~a.left, NEW L, \A s : Inputs(s) = L, NEW lines \in Seq(L)
  PROVE  Handles(a, t, d, lines, Handled(a, lines)) /\ Handled(a, lines).rest \in Seq(L)
<1> DEFINE n == Len(lines)
<1>1. n \in Nat /\ \A i \in 1..n : lines[i] \in L
  BY LenProperties, ElementOfSeq
<1>2. PICK f : /\ \A i \in 0..n : f[i] = IF i = 0 THEN a ELSE Handle(f[i - 1], lines[i])
               /\ Handled(a, lines) = f[n]
  BY <1>1, HandledTurns, Zenon
<1>3. PICK g : /\ \A i \in 0..n : g[i] = IF i = 0 THEN [session |-> a.session, did |-> Nil]
                                         ELSE Hears(g[i - 1], lines[i])
               /\ Meant(a.session, lines) = g[n]
  BY <1>1, MeantTurns, Zenon
<1>4. d \in Counts /\ a.rest = <<>>
  BY SessionType DEF Turn
<1> HIDE DEF n
<1> DEFINE stands(i, e) ==
             /\ e \in Counts /\ Turn(f[i], t, e) /\ f[i].rest \in Seq(L) /\ g[i].did \in Counts
             /\ g[i].session = Meant(f[i].session, f[i].rest).session
             /\ Plus(d, g[i].did) = Plus(e, Meant(f[i].session, f[i].rest).did)
             /\ a.socket # "open" => f[i].socket # "open"
           S == {i \in 0..n : \E e : stands(i, e)}
<1>5. 0 \in S
  <2>1. f[0] = a /\ g[0] = [session |-> a.session, did |-> Nil] /\ <<>> \in Seq(L)
    BY <1>1, <1>2, <1>3, EmptySeq
  <2>2. Meant(a.session, <<>>) = [session |-> a.session, did |-> Nil]
    BY MeantNothing
  <2>3. stands(0, d)
    <3>1. f[0].session = a.session /\ f[0].rest = <<>> /\ g[0].session = a.session /\ g[0].did = Nil
      BY <1>4, <2>1
    <3>2. Meant(f[0].session, f[0].rest).session = a.session /\ Meant(f[0].session, f[0].rest).did = Nil
      BY <2>2, <3>1
    <3>3. Nil \in Counts
      BY PlusIs
    <3> QED
      BY <1>4, <2>1, <3>1, <3>2, <3>3
  <2> HIDE DEF stands
  <2> QED
    BY <1>1, <2>3
<1>6. ASSUME NEW k \in 0..(n - 1), k \in S PROVE k + 1 \in S
  <2>1. k + 1 \in 1..n /\ k + 1 \in 0..n /\ k + 1 # 0 /\ (k + 1) - 1 = k
    BY <1>1
  <2>2. f[k + 1] = Handle(f[k], lines[k + 1]) /\ g[k + 1] = Hears(g[k], lines[k + 1])
    BY <1>2, <1>3, <2>1
  <2>3. PICK e : stands(k, e)
    BY <1>6
  <2> DEFINE c == f[k]
             b == f[k + 1]
             line == lines[k + 1]
             w == Meant(c.session, c.rest)
             more == Submits(g[k].session, line)
  <2>4. /\ Turn(c, t, e) /\ e \in Counts /\ c.rest \in Seq(L) /\ g[k].did \in Counts
        /\ g[k].session = w.session /\ Plus(d, g[k].did) = Plus(e, w.did)
        /\ a.socket # "open" => c.socket # "open"
    BY <2>3
  <2>5. /\ b = Handle(c, line) /\ g[k + 1].session = Line(g[k].session, line).session
        /\ g[k + 1].did = Plus(g[k].did, more) /\ line \in Inputs(c.session) /\ line \in L
    BY <1>1, <2>1, <2>2 DEF Hears
  <2> HIDE DEF c, b, line, w, stands
  <2>6. /\ c.left => Turn(b, t, e) /\ b.session = c.session /\ b.rest = Append(c.rest, line)
        /\ ~c.left => Turn(b, t, Did(e, c.session, line)) /\ b.session = Line(c.session, line).session /\ b.rest = <<>>
        /\ c.socket # "open" => b.socket # "open"
    <3> DEFINE h == Handle(c, line)
    <3>1. /\ c.left => Turn(h, t, e) /\ h.session = c.session /\ h.rest = Append(c.rest, line)
          /\ ~c.left => Turn(h, t, Did(e, c.session, line)) /\ h.session = Line(c.session, line).session /\ h.rest = <<>>
          /\ c.socket # "open" => h.socket # "open"
      BY <2>4, <2>5, HandleKeeps
    <3>2. b = h
      BY <2>5
    <3> HIDE DEF h
    <3> QED
      BY <3>1, <3>2
  <2>7. more \in Counts
    BY SubmitsIs
  <2> HIDE DEF more
  <2>8. g[k + 1].did \in Counts
    <3>1. g[k].did \in Counts /\ g[k + 1].did = Plus(g[k].did, more)
      BY <2>4, <2>5
    <3> QED
      BY <2>7, <3>1, PlusIs
  <2>9. w.did \in Counts
    BY <2>4, <2>5, MeantMore DEF w
  <2>10. Plus(d, g[k + 1].did) = Plus(Plus(e, w.did), more)
    <3>1. d \in Counts /\ g[k].did \in Counts /\ g[k + 1].did = Plus(g[k].did, more)
      BY <1>4, <2>4, <2>5
    <3>2. Plus(d, g[k + 1].did) = Plus(Plus(d, g[k].did), more)
      BY <2>7, <3>1, PlusTwice
    <3> QED
      BY <2>4, <3>2
  <2>11. CASE c.left
    <3> DEFINE v == Meant(c.session, Append(c.rest, line))
    <3>1. v.session = Line(w.session, line).session /\ v.did = Plus(w.did, Submits(w.session, line))
      BY <2>4, <2>5, MeantMore DEF w
    <3>2. b.rest \in Seq(L) /\ Meant(b.session, b.rest) = v
      BY <2>4, <2>5, <2>6, <2>11, AppendProperties
    <3> HIDE DEF v, w
    <3>3. v.did = Plus(w.did, more)
      BY <2>4, <3>1 DEF more
    <3>4. Plus(Plus(e, w.did), more) = Plus(e, v.did)
      <4>1. e \in Counts
        BY <2>4
      <4> QED
        BY <2>7, <2>9, <3>3, <4>1, PlusTwice
    <3>5. stands(k + 1, e)
      BY <2>4, <2>5, <2>6, <2>8, <2>10, <2>11, <3>1, <3>2, <3>4 DEF b, stands
    <3> QED
      BY <2>1, <3>5
  <2>12. CASE ~c.left
    <3>1. c.rest = <<>>
      BY <2>4, <2>12 DEF Turn
    <3>2. w = [session |-> c.session, did |-> Nil]
      BY <3>1, MeantNothing DEF w
    <3>3. Did(e, c.session, line) = Plus(e, more)
      BY <2>4, <3>2 DEF Did, more
    <3>4. Meant(b.session, b.rest) = [session |-> b.session, did |-> Nil] /\ b.rest \in Seq(L)
      BY <2>6, <2>12, MeantNothing, EmptySeq
    <3>5. Plus(Plus(e, w.did), more) = Plus(Plus(e, more), Nil) /\ Plus(e, more) \in Counts
      BY <2>4, <2>7, <3>2, PlusIs
    <3>6. g[k + 1].session = b.session
      BY <2>4, <2>5, <2>6, <2>12, <3>2
    <3> HIDE DEF w
    <3>7. stands(k + 1, Plus(e, more))
      BY <2>4, <2>6, <2>8, <2>10, <2>12, <3>3, <3>4, <3>5, <3>6 DEF b, stands
    <3> QED
      BY <2>1, <3>7
  <2> QED
    BY <2>11, <2>12
<1> HIDE DEF S
<1>7. 0..n \subseteq S
  BY <1>1, <1>5, <1>6, UpTo
<1>8. n \in S
  BY <1>1, <1>7
<1>9. PICK e : stands(n, e)
  BY <1>8 DEF S
<1> QED
  BY <1>2, <1>3, <1>9 DEF Handles

\* The one event ssh2 raises at a time.
LEMMA HandledOnce ==
  ASSUME setting.protocol \in Protocols, setting.interactive \in BOOLEAN, NEW t \in Seq(Incidents), NEW a, NEW d,
         Turn(a, t, d), ~a.left, NEW line \in Inputs(a.session)
  PROVE  Handles(a, t, d, <<line>>, Handled(a, <<line>>)) /\ Handled(a, <<line>>).rest = <<>>
<1>1. Len(<<line>>) = 1 /\ <<line>>[1] = line
  OBVIOUS
<1> DEFINE lines == <<line>>
<1> HIDE DEF lines
<1>2. Len(lines) = 1 /\ lines[1] = line
  BY <1>1 DEF lines
<1>3. PICK f : /\ \A i \in 0..Len(lines) : f[i] = IF i = 0 THEN a ELSE Handle(f[i - 1], lines[i])
               /\ Handled(a, lines) = f[Len(lines)]
  <2>1. Len(lines) \in Nat
    BY <1>2
  <2> QED
    BY <2>1, HandledTurns, Zenon
<1>4. f[0] = a /\ f[1] = Handle(f[0], line)
  <2>1. 0 \in 0..1 /\ 1 \in 0..1 /\ 1 # 0 /\ 1 - 1 = 0
    OBVIOUS
  <2> QED
    BY <1>2, <1>3, <2>1
<1> DEFINE b == Handle(a, line)
           e == Did(d, a.session, line)
           more == Submits(a.session, line)
<1>5. Handled(a, lines) = b
  BY <1>2, <1>3, <1>4
<1>6. Turn(b, t, e) /\ b.rest = <<>> /\ (a.socket # "open" => b.socket # "open")
  BY HandleKeeps
<1>7. Meant(a.session, lines).did = Plus(Nil, more)
  <2>1. Meant(a.session, lines) = Hears([session |-> a.session, did |-> Nil], line)
    BY MeantOne DEF lines
  <2> QED
    BY <2>1 DEF Hears
<1>8. Meant(b.session, b.rest).did = Nil
  BY <1>6, MeantNothing
<1>9. d \in Counts /\ more \in Counts /\ e = Plus(d, more)
  BY SessionType, SubmitsIs DEF Turn, Did
<1> HIDE DEF b, e, more
<1>10. e \in Counts /\ Plus(d, Plus(Nil, more)) = Plus(e, Nil)
  BY <1>9, PlusIs
<1> QED
  BY <1>5, <1>6, <1>7, <1>8, <1>10 DEF Handles, lines

----------------------------------------------------------------------------
(* The talk of a connection. *)

\* Greeted, and gone.
Parted(c) == c \in gone /\ stage[c] = "greeted"

\* What the lines a connection left submit: those thrown away, those waiting.
Left(c) == Plus(lost[c], Meant(session[c], buffer[c]).did)

\* Of all a connection submitted, d was handled: while it may still talk it
\* keeps what its dialogue keeps, and what it has come to when it parted stays.
Stands(c, d) ==
  /\ did[c] = Plus(d, Left(c))
  /\ Parted(c) => Evidence(told[c], d, TRUE) /\ \E mail \in Nat : Apart(told[c], mail)
  /\ ~Parted(c) => SessionInv(session[c], told[c], d)

\* Lines are left only by a handler that hung up, and thrown away only by Telnet.
Leaving(c) ==
  /\ buffer[c] \in Seq(FtpLines) /\ (setting.protocol # "ftp" => buffer[c] = <<>>)
  /\ lost[c] \in Counts /\ (lost[c] # Nil => setting.protocol = "telnet")
  /\ buffer[c] # <<>> \/ lost[c] # Nil => socket[c] # "open" /\ stage[c] # "none"

TalkInv ==
  /\ setting \in Settings
  /\ DOMAIN session = Conns /\ DOMAIN told = Conns /\ DOMAIN did = Conns /\ DOMAIN buffer = Conns
  /\ DOMAIN lost = Conns /\ DOMAIN socket = Conns
  /\ gone \subseteq {c \in Conns : socket[c] = "destroyed"}
  /\ \A c \in Conns : told[c] \in Seq(Incidents) /\ Leaving(c) /\ \E d \in Counts : Stands(c, d)

\* A setting names a protocol.
LEMMA SettingIs ==
  ASSUME setting \in Settings
  PROVE  setting.protocol \in Protocols /\ setting.interactive \in BOOLEAN
BY SessionsAssumption DEF SettingType

\* Nothing told is of no kind and of no mail.
LEMMA NothingTold == Tally(<<>>, 0, 0, 0, 0) /\ \A mail \in Nat : Apart(<<>>, mail)
<1>1. \A F : Of(<<>>, F) = {}
  BY DEF Of
<1>2. Cardinality({}) = 0
  BY FS_EmptySet
<1>3. <<>> \in Seq(Incidents)
  BY EmptySeq
<1> QED
  BY <1>1, <1>2, <1>3 DEF Tally, Apart

\* A connection that has not arrived has said nothing.
LEMMA TalkInit == Init => TalkInv
<1> SUFFICES ASSUME Init PROVE TalkInv
  OBVIOUS
<1> DEFINE d == Nil
<1>1. /\ d \in Counts /\ d.offered = 0 /\ d.credentials = 0 /\ d.commands = 0
  BY DEF Counts, Nil
<1> HIDE DEF d
<1>2. Capped(0) = 0 /\ 0 \in Nat /\ One(FALSE) = 0
  BY DialogueAssumption DEF Capped, One
<1>3. Tally(<<>>, 0, 0, 0, 0) /\ Apart(<<>>, 0) /\ Apart(<<>>, 1)
  BY NothingTold
<1>4. FtpInv(FtpNew, <<>>, d)
  <2>1. FtpNew \in FtpSessions /\ FtpNew.commands = 0 /\ FtpNew.credentialSeen = FALSE
    BY DEF FtpNew, FtpSessions
  <2> QED
    BY <1>1, <1>2, <1>3, <2>1 DEF FtpInv
<1>5. TelnetInv(TelnetNew, <<>>, d)
  <2>1. /\ TelnetNew \in TelnetSessions /\ TelnetNew.commands = 0 /\ TelnetNew.credentialSeen = FALSE
        /\ TelnetNew.emitted = FALSE /\ TelnetNew.mode = "login"
    BY DEF TelnetNew, TelnetSessions
  <2>2. One(TelnetNew.emitted) = 0
    BY <2>1 DEF One
  <2> DEFINE s == TelnetNew
  <2> HIDE DEF s
  <2>3. TelnetInv(s, <<>>, d)
    BY <1>1, <1>2, <1>3, <2>1, <2>2 DEF TelnetInv, TelnetSane, s
  <2> QED
    BY <2>3 DEF s
<1>6. SshInv(SshNew, <<>>, d)
  <2>1. /\ SshNew \in SshSessions /\ SshNew.commands = 0 /\ SshNew.credentialSeen = FALSE
        /\ SshNew.emitted = FALSE /\ SshNew.mode = "auth" /\ SshNew.shell = FALSE
    BY DEF SshNew, SshSessions
  <2>2. One(SshNew.emitted) = 0
    BY <2>1 DEF One
  <2> DEFINE s == SshNew
  <2> HIDE DEF s
  <2>3. SshInv(s, <<>>, d)
    BY <1>1, <1>2, <1>3, <2>1, <2>2 DEF SshInv, SshSane, s
  <2> QED
    BY <2>3 DEF s
<1>7. SmtpInv(SmtpNew, <<>>, d)
  <2>1. /\ SmtpNew \in SmtpSessions /\ SmtpNew.mail = 1 /\ SmtpNew.from = Nothing /\ SmtpNew.rcptTo = {}
        /\ SmtpNew.message = {} /\ SmtpNew.mode = "commands"
    BY DEF SmtpNew, SmtpSessions, Nothing
  <2> QED
    BY <1>1, <1>3, <2>1 DEF SmtpInv, SmtpSane
<1>8. SessionInv(NewSession, <<>>, d)
  BY <1>4, <1>5, <1>6, <1>7 DEF SessionInv, NewSession
<1>9. \A c \in Conns : ~Parted(c)
  BY DEF Init, Parted
<1>10. <<>> \in Seq(Incidents) /\ <<>> \in Seq(FtpLines)
  BY EmptySeq
<1>11. /\ \A c \in Conns : /\ session[c] = NewSession /\ told[c] = <<>> /\ did[c] = Nil /\ lost[c] = Nil
                           /\ buffer[c] = <<>>
       /\ setting \in Settings /\ gone = {}
       /\ DOMAIN session = Conns /\ DOMAIN told = Conns /\ DOMAIN did = Conns /\ DOMAIN buffer = Conns
       /\ DOMAIN lost = Conns /\ DOMAIN socket = Conns
  BY DEF Init
<1>12. ASSUME NEW c \in Conns
       PROVE  told[c] \in Seq(Incidents) /\ Leaving(c) /\ \E e \in Counts : Stands(c, e)
  <2>1. Meant(session[c], buffer[c]).did = Nil
    BY <1>11, MeantNothing
  <2>2. did[c] = Plus(Nil, Left(c))
    BY <1>11, <2>1, PlusIs DEF Left
  <2>3. SessionInv(session[c], told[c], Nil)
    BY <1>8, <1>11 DEF d
  <2>4. Stands(c, Nil)
    BY <1>9, <2>2, <2>3 DEF Stands
  <2>5. Leaving(c)
    BY <1>10, <1>11, PlusIs DEF Leaving
  <2> QED
    BY <1>10, <1>11, <2>4, <2>5, PlusIs
<1> QED
  BY <1>11, <1>12 DEF TalkInv

\* Where nothing is said and nobody turned back, nothing of it changes.
LEMMA TalkStays ==
  ASSUME TalkInv, UNCHANGED <<setting, talk, gone>>, DOMAIN socket' = Conns,
         gone \subseteq {c \in Conns : socket'[c] = "destroyed"},
         \A c \in gone : stage'[c] = "greeted" <=> stage[c] = "greeted",
         \A c \in Conns : socket[c] # "open" /\ stage[c] # "none" => socket'[c] # "open" /\ stage'[c] # "none"
  PROVE  TalkInv'
<1>1. /\ session' = session /\ told' = told /\ did' = did /\ buffer' = buffer /\ lost' = lost
      /\ gone' = gone /\ setting' = setting
  BY DEF talk
<1>2. \A c \in Conns : Parted(c)' <=> Parted(c)
  BY <1>1 DEF Parted
<1>3. \A c, d : Evidence(told[c], d, TRUE)' <=> Evidence(told[c], d, TRUE)
  BY <1>1 DEF Evidence
<1>4. \A c, d : SessionInv(session[c], told[c], d)' <=> SessionInv(session[c], told[c], d)
  BY <1>1 DEF SessionInv
<1>5. \A c : Left(c)' = Left(c)
  BY <1>1, MeantSame DEF Left
<1>6. ASSUME NEW c \in Conns, NEW d, Stands(c, d) PROVE Stands(c, d)'
  <2>1. (did[c] = Plus(d, Left(c)))'
    BY <1>1, <1>5, <1>6 DEF Stands
  <2> QED
    BY <1>1, <1>2, <1>3, <1>4, <1>6, <2>1 DEF Stands
<1>7. ASSUME NEW c \in Conns PROVE Leaving(c)'
  BY <1>1 DEF TalkInv, Leaving
<1> QED
  BY <1>1, <1>6, <1>7 DEF TalkInv

\* A chunk is a sequence of lines.
LEMMA ChunkIsSeq ==
  ASSUME NEW n \in Nat, NEW L, NEW s \in [1..n -> L]
  PROVE  s \in Seq(L)
OBVIOUS

\* A data event.
LEMMA DataTells ==
  ASSUME TalkInv, NEW c \in Conns, Data(c)
  PROVE  TalkInv' /\ \E u \in Seq(Incidents) : Reports(c, u)
<1>0. setting.protocol \in Protocols /\ setting.interactive \in BOOLEAN
  BY SettingIs DEF TalkInv
<1>1. PICK chunk \in Chunks(c) :
        /\ did' = [did EXCEPT ![c] = Plus(@, Meant(Meant(session[c], buffer[c]).session, chunk).did)]
        /\ LET at == Handled([session |-> session[c], told |-> <<>>, socket |-> socket[c],
                              left |-> FALSE, rest |-> <<>>],
                             buffer[c] \o chunk)
           IN  /\ session' = [session EXCEPT ![c] = at.session]
               /\ socket' = [socket EXCEPT ![c] = at.socket]
               /\ buffer' = [buffer EXCEPT ![c] = IF setting.protocol = "ftp" THEN at.rest ELSE <<>>]
               /\ lost' = [lost EXCEPT ![c] = IF setting.protocol = "ftp" THEN @
                                              ELSE Plus(@, Meant(at.session, at.rest).did)]
               /\ Reports(c, at.told)
  BY DEF Data
<1> DEFINE first == [session |-> session[c], told |-> <<>>, socket |-> socket[c],
                     left |-> FALSE, rest |-> <<>>]
           lines == buffer[c] \o chunk
           at == Handled(first, lines)
           waited == Meant(session[c], buffer[c])
           new == Meant(waited.session, chunk).did
           left == Meant(at.session, at.rest).did
<1>2. /\ session' = [session EXCEPT ![c] = at.session]
      /\ socket' = [socket EXCEPT ![c] = at.socket]
      /\ buffer' = [buffer EXCEPT ![c] = IF setting.protocol = "ftp" THEN at.rest ELSE <<>>]
      /\ did' = [did EXCEPT ![c] = Plus(did[c], new)]
      /\ lost' = [lost EXCEPT ![c] = IF setting.protocol = "ftp" THEN lost[c] ELSE Plus(lost[c], left)]
      /\ Reports(c, at.told)
  BY <1>1
<1>3. c \notin gone /\ setting' = setting /\ gone' = gone /\ stage' = stage /\ stage[c] = "greeted"
  BY DEF Data, Flowing, TalkInv
<1>4. /\ ~Parted(c) /\ told[c] \in Seq(Incidents) /\ Leaving(c)
      /\ buffer[c] \in Seq(FtpLines) /\ (setting.protocol # "ftp" => buffer[c] = <<>>)
  BY <1>3 DEF Parted, TalkInv, Leaving
<1>4a. PICK d \in Counts : Stands(c, d)
  BY DEF TalkInv
<1>4b. did[c] = Plus(d, Plus(lost[c], waited.did)) /\ SessionInv(session[c], told[c], d)
  BY <1>4, <1>4a DEF Stands, Left
<1>5. Turn(first, told[c], d) /\ ~first.left /\ first.session = session[c] /\ first.socket = socket[c]
  <2>1. /\ first = [x \in TurnFields |-> first[x]] /\ first.session = session[c] /\ first.told = <<>>
        /\ first.rest = <<>> /\ first.socket = socket[c] /\ first.left = FALSE
    BY DEF TurnFields
  <2>2. told[c] \o <<>> = told[c] /\ <<>> \in Seq(Incidents)
    BY <1>4, ConcatEmptySeq, EmptySeq
  <2> HIDE DEF first
  <2> QED
    BY <1>4b, <2>1, <2>2 DEF Turn
<1> HIDE DEF first
<1>6. /\ Handles(first, told[c], d, lines, at) /\ waited.did \in Counts /\ new \in Counts
      /\ Meant(session[c], lines).did = Plus(waited.did, new)
      /\ \E L : at.rest \in Seq(L) /\ (setting.protocol = "ftp" => L = FtpLines)
                /\ (setting.protocol = "ssh" => at.rest = <<>>)
  <2>1. CASE setting.protocol = "ssh"
    <3>1. PICK n \in 1..1 : chunk \in [1..n -> Inputs(session[c])]
      BY <2>1 DEF Chunks, Ssh
    <3>2. n = 1
      BY <3>1
    <3>3. chunk \in [1..1 -> Inputs(session[c])]
      BY <3>1, <3>2
    <3> DEFINE line == chunk[1]
               L == Inputs(session[c])
    <3>4. line \in Inputs(session[c]) /\ chunk = <<line>>
      BY <3>3
    <3>5. lines = <<line>> /\ chunk \in Seq(L) /\ buffer[c] = <<>>
      <4>0. chunk \in [1..n -> L] /\ n \in Nat
        BY <3>1, <3>2
      <4> HIDE DEF L
      <4>1. chunk \in Seq(L)
        BY <4>0, ChunkIsSeq, Zenon
      <4>2. buffer[c] = <<>>
        BY <1>4, <2>1
      <4> QED
        BY <3>4, <4>1, <4>2, ConcatEmptySeq
    <3> HIDE DEF line, lines, at, waited, new, L
    <3>6. Handles(first, told[c], d, <<line>>, Handled(first, <<line>>)) /\ Handled(first, <<line>>).rest = <<>>
      BY <1>0, <1>4, <1>5, <3>4, HandledOnce
    <3>7. Handles(first, told[c], d, lines, at) /\ at.rest = <<>>
      BY <3>5, <3>6 DEF at
    <3>8. waited.did \in Counts /\ new \in Counts /\ Meant(session[c], lines).did = Plus(waited.did, new)
      <4>1. <<>> \in Seq(L) /\ buffer[c] \in Seq(L)
        BY <3>5, EmptySeq
      <4> DEFINE v == Meant(waited.session, chunk)
      <4>2. chunk \in Seq(L)
        BY <3>5
      <4>3. /\ waited.did \in Counts /\ v.did \in Counts
            /\ Meant(session[c], buffer[c] \o chunk).did = Plus(waited.did, v.did)
        BY <4>1, <4>2, MeantFollows DEF waited
      <4> HIDE DEF v
      <4> QED
        BY <4>3 DEF lines, new, v
    <3>9. at.rest \in Seq(FtpLines)
      BY <3>7, EmptySeq
    <3> QED
      BY <2>1, <3>7, <3>8, <3>9
  <2>2. CASE setting.protocol # "ssh"
    <3> DEFINE L == Inputs(session[c])
    <3>1. \A s : Inputs(s) = L
      BY <1>0, <2>2 DEF Inputs, Protocols
    <3>2. setting.protocol = "ftp" => L = FtpLines
      BY DEF Inputs
    <3> HIDE DEF L
    <3>3. PICK n \in 1..ChunkLines : chunk \in [1..n -> L]
      BY <2>2 DEF Chunks, Ssh, L
    <3>4. n \in Nat
      BY <3>3
    <3>5. chunk \in Seq(L)
      BY <3>3, <3>4, ChunkIsSeq, Zenon
    <3>6. buffer[c] \in Seq(L)
      BY <1>4, <3>2, EmptySeq
    <3>7. lines \in Seq(L)
      BY <3>5, <3>6, ConcatProperties
    <3>8. waited.did \in Counts /\ new \in Counts /\ Meant(session[c], lines).did = Plus(waited.did, new)
      BY <3>5, <3>6, MeantFollows
    <3> HIDE DEF lines, waited, new
    <3>9. Handles(first, told[c], d, lines, Handled(first, lines)) /\ Handled(first, lines).rest \in Seq(L)
      BY <1>0, <1>4, <1>5, <3>1, <3>7, HandledKeeps
    <3>10. Handles(first, told[c], d, lines, at) /\ at.rest \in Seq(L)
      BY <3>9
    <3> HIDE DEF at
    <3> QED
      BY <2>2, <3>2, <3>8, <3>10
  <2> QED
    BY <2>1, <2>2
<1>6a. PICK e \in Counts :
         /\ Turn(at, told[c], e) /\ Plus(d, Meant(session[c], lines).did) = Plus(e, left)
         /\ socket[c] # "open" => at.socket # "open"
  BY <1>5, <1>6 DEF Handles
<1> HIDE DEF at, lines, waited, new
<1>7. /\ at.told \in Seq(Incidents) /\ SessionInv(at.session, told[c] \o at.told, e)
      /\ ~at.left => at.rest = <<>>
      /\ at.left => at.socket # "open"
  BY <1>6a DEF Turn
<1>7a. /\ setting.protocol = "ftp" => at.rest \in Seq(FtpLines)
       /\ at.rest # <<>> => at.socket # "open"
  BY <1>6, <1>7
<1>7b. left \in Counts /\ (left # Nil => at.rest # <<>> /\ setting.protocol \in {"ftp", "telnet"})
  <2>1. PICK L : at.rest \in Seq(L) /\ (setting.protocol = "ssh" => at.rest = <<>>)
    BY <1>6
  <2>2. left \in Counts
    <3>1. <<>> \in Seq(L)
      BY EmptySeq
    <3> QED
      BY <2>1, <3>1, MeantFollows
  <2>3. at.rest = <<>> => left = Nil
    BY MeantNothing
  <2>4. ASSUME setting.protocol = "smtp", at.rest # <<>> PROVE left = Nil
    <3> DEFINE s == at.session
    <3>1. "lines" \in DOMAIN s /\ s.lines \in Nat /\ s.lines > MaxLines
      BY <1>6a, <1>7, <2>4 DEF Turn
    <3> HIDE DEF s
    <3>2. Meant(s, at.rest).did = Nil
      BY <2>1, <2>4, <3>1, MeantPastCap
    <3> QED
      BY <3>2 DEF s
  <2> HIDE DEF left
  <2> QED
    BY <1>0, <2>1, <2>2, <2>3, <2>4 DEF Protocols
<1>8. told' = [told EXCEPT ![c] = told[c] \o at.told]
  BY <1>2 DEF Reports
<1>9. TalkInv'
  <2>1. /\ DOMAIN session' = Conns /\ DOMAIN told' = Conns /\ DOMAIN did' = Conns /\ DOMAIN buffer' = Conns
        /\ DOMAIN lost' = Conns /\ DOMAIN socket' = Conns
    BY <1>2, <1>8 DEF TalkInv
  <2>2. gone' \subseteq {x \in Conns : socket'[x] = "destroyed"}
    BY <1>2, <1>3 DEF TalkInv
  <2>3. \A x \in Conns : Parted(x)' <=> Parted(x)
    BY <1>3 DEF Parted
  <2>4. ASSUME NEW x \in Conns, x # c
        PROVE  /\ session'[x] = session[x] /\ told'[x] = told[x] /\ did'[x] = did[x] /\ buffer'[x] = buffer[x]
               /\ lost'[x] = lost[x] /\ socket'[x] = socket[x]
    BY <1>2, <1>8, <2>4 DEF TalkInv
  <2>5. /\ session'[c] = at.session /\ told'[c] = told[c] \o at.told /\ did'[c] = Plus(did[c], new)
        /\ buffer'[c] = IF setting.protocol = "ftp" THEN at.rest ELSE <<>>
        /\ lost'[c] = IF setting.protocol = "ftp" THEN lost[c] ELSE Plus(lost[c], left)
        /\ socket'[c] = at.socket
    BY <1>2, <1>8 DEF TalkInv
  <2>6. ASSUME NEW x \in Conns, x # c
        PROVE  told'[x] \in Seq(Incidents) /\ Leaving(x)' /\ \E b \in Counts : Stands(x, b)'
    <3>1. told[x] \in Seq(Incidents) /\ Leaving(x)
      BY DEF TalkInv
    <3>2. PICK b \in Counts : Stands(x, b)
      BY DEF TalkInv
    <3>3. Evidence(told[x], b, TRUE)' <=> Evidence(told[x], b, TRUE)
      BY <1>3, <2>4, <2>6 DEF Evidence
    <3>4. SessionInv(session[x], told[x], b)' <=> SessionInv(session[x], told[x], b)
      BY <1>3, <2>4, <2>6 DEF SessionInv
    <3>5. Left(x)' = Left(x)
      BY <1>3, <2>4, <2>6, MeantSame DEF Left
    <3>6. Stands(x, b)'
      BY <2>3, <2>4, <2>6, <3>2, <3>3, <3>4, <3>5 DEF Stands
    <3>7. Leaving(x)'
      BY <1>3, <2>4, <2>6, <3>1 DEF Leaving
    <3> QED
      BY <2>4, <2>6, <3>1, <3>6, <3>7
  <2>7. told'[c] \in Seq(Incidents) /\ Leaving(c)' /\ \E b \in Counts : Stands(c, b)'
    <3>1. told'[c] \in Seq(Incidents)
      BY <1>4, <1>7, <2>5, ConcatProperties
    <3>2. SessionInv(session[c], told[c], e)'
      BY <1>3, <1>7, <2>5 DEF SessionInv
    <3>3. <<>> \in Seq(FtpLines)
      BY EmptySeq
    <3>4. Leaving(c)'
      <4>1. buffer'[c] \in Seq(FtpLines) /\ (setting'.protocol # "ftp" => buffer'[c] = <<>>)
        BY <1>3, <1>7a, <2>5, <3>3
      <4>2. lost[c] \in Counts /\ (lost[c] # Nil => setting.protocol = "telnet")
            /\ (buffer[c] # <<>> \/ lost[c] # Nil => socket[c] # "open")
        BY <1>4 DEF Leaving
      <4>3. lost'[c] \in Counts /\ (lost'[c] # Nil => setting'.protocol = "telnet")
        <5>1. CASE setting.protocol = "ftp"
          BY <1>3, <2>5, <4>2, <5>1
        <5>2. CASE setting.protocol # "ftp"
          <6>1. lost'[c] = Plus(lost[c], left) /\ lost'[c] \in Counts
            BY <1>7b, <2>5, <4>2, <5>2, PlusIs
          <6>2. lost[c] = Nil /\ left = Nil => lost'[c] = Nil
            BY <6>1, PlusIs
          <6> HIDE DEF left
          <6> QED
            BY <1>3, <1>7b, <4>2, <5>2, <6>1, <6>2
        <5> QED
          BY <5>1, <5>2
      <4>4. buffer'[c] # <<>> => socket'[c] # "open"
        BY <1>7a, <2>5
      <4>5. lost'[c] # Nil => socket'[c] # "open"
        <5>1. lost'[c] # Nil => lost[c] # Nil \/ left # Nil
          BY <2>5, PlusIs
        <5> HIDE DEF left
        <5> QED
          BY <1>6a, <1>7a, <1>7b, <2>5, <4>2, <5>1
      <4>6. stage'[c] # "none"
        BY <1>3
      <4> QED
        BY <4>1, <4>3, <4>4, <4>5, <4>6 DEF Leaving
    <3>5. (did[c] = Plus(e, Left(c)))'
      <4>1. lost[c] \in Counts /\ did[c] = Plus(d, Plus(lost[c], waited.did))
        BY <1>4, <1>4b DEF Leaving
      <4>2. Plus(d, Plus(waited.did, new)) = Plus(e, left)
        BY <1>6, <1>6a
      <4> HIDE DEF left
      <4>3. Plus(did[c], new) = Plus(e, Plus(lost[c], left))
        <5>1. \A p, q, u, v, l, w \in Counts :
                Plus(p, Plus(u, v)) = Plus(q, w) => Plus(Plus(p, Plus(l, u)), v) = Plus(q, Plus(l, w))
          BY SMTT(60) DEF Plus, Counts
        <5> QED
          BY <1>6, <1>7b, <4>1, <4>2, <5>1
      <4>4. Left(c)' = Plus(lost[c], left)
        <5>1. CASE setting.protocol = "ftp"
          <6>1. lost'[c] = lost[c] /\ buffer'[c] = at.rest /\ session'[c] = at.session
            BY <2>5, <5>1
          <6>2. Meant(session[c], buffer[c])' = Meant(at.session, at.rest)
            BY <1>3, <6>1, MeantSame
          <6> QED
            BY <6>1, <6>2 DEF Left, left
        <5>2. CASE setting.protocol # "ftp"
          <6>1. lost'[c] = Plus(lost[c], left) /\ buffer'[c] = <<>> /\ lost'[c] \in Counts
            <7>1. lost'[c] = Plus(lost[c], left) /\ buffer'[c] = <<>>
              BY <2>5, <5>2
            <7>2. Plus(lost[c], left) \in Counts
              BY <1>7b, <4>1, PlusIs
            <7> QED
              BY <7>1, <7>2
          <6>2. Meant(session[c], buffer[c])'.did = Nil
            <7>1. Meant(session'[c], <<>>).did = Nil
              BY MeantNothing
            <7>2. Meant(session[c], buffer[c])' = Meant(session'[c], <<>>)
              BY <1>3, <6>1, MeantSame
            <7> QED
              BY <7>1, <7>2
          <6> QED
            BY <6>1, <6>2, PlusIs DEF Left
        <5> QED
          BY <5>1, <5>2
      <4> QED
        BY <2>5, <4>3, <4>4
    <3>6. ~Parted(c)'
      BY <1>4, <2>3
    <3>7. Stands(c, e)'
      BY <3>2, <3>5, <3>6 DEF Stands
    <3> QED
      BY <3>1, <3>4, <3>7
  <2>8. setting' \in Settings
    BY <1>3 DEF TalkInv
  <2> QED
    BY <2>1, <2>2, <2>6, <2>7, <2>8 DEF TalkInv
<1> QED
  BY <1>2, <1>7, <1>9

\* The close event of a connection.
LEMMA ClosesTells ==
  ASSUME TalkInv, NEW c \in Conns, Closes(c)
  PROVE  TalkInv' /\ \E u \in Seq(Incidents) : Reports(c, u)
<1>0. setting.protocol \in Protocols /\ setting.interactive \in BOOLEAN
  BY SettingIs DEF TalkInv
<1> DEFINE u == IF stage[c] = "greeted" THEN Closing(session[c]) ELSE <<>>
<1>1. /\ c \notin gone /\ socket[c] = "destroyed" /\ gone' = gone \cup {c} /\ setting' = setting /\ stage' = stage
      /\ session' = session /\ buffer' = buffer /\ did' = did /\ lost' = lost /\ socket' = socket
      /\ Reports(c, u)
  BY DEF Closes
<1>2. PICK d \in Counts : Stands(c, d)
  BY DEF TalkInv
<1>2a. SessionInv(session[c], told[c], d)
  BY <1>1, <1>2 DEF Parted, Stands
<1>3. /\ told[c] \in Seq(Incidents) /\ Closing(session[c]) \in Seq(Incidents) /\ <<>> \in Seq(Incidents)
      /\ Evidence(told[c] \o Closing(session[c]), d, TRUE)
      /\ \E mail \in Nat : Apart(told[c] \o Closing(session[c]), mail)
      /\ told[c] \o <<>> = told[c]
  <2>1. <<>> \in Seq(Incidents)
    BY EmptySeq
  <2>2. /\ told[c] \in Seq(Incidents) /\ Closing(session[c]) \in Seq(Incidents)
        /\ Evidence(told[c] \o Closing(session[c]), d, TRUE)
        /\ \E mail \in Nat : Apart(told[c] \o Closing(session[c]), mail)
    BY <1>0, <1>2a, SessionEnds, Zenon
  <2> QED
    BY <2>1, <2>2, ConcatEmptySeq
<1>4. u \in Seq(Incidents)
  BY <1>3
<1>5. told' = [told EXCEPT ![c] = told[c] \o u]
  BY <1>1 DEF Reports
<1>6. told'[c] = told[c] \o u /\ DOMAIN told' = Conns /\ \A x \in Conns : x # c => told'[x] = told[x]
  BY <1>5 DEF TalkInv
<1>7. \A x : Left(x)' = Left(x)
  BY <1>1, MeantSame DEF Left
<1>8. \A x \in Conns : Leaving(x)'
  BY <1>1 DEF TalkInv, Leaving
<1>9. TalkInv'
  <2>1. ASSUME NEW x \in Conns, x # c
        PROVE  told'[x] \in Seq(Incidents) /\ \E b \in Counts : Stands(x, b)'
    <3>1. told[x] \in Seq(Incidents)
      BY DEF TalkInv
    <3>2. PICK b \in Counts : Stands(x, b)
      BY DEF TalkInv
    <3>3. Evidence(told[x], b, TRUE)' <=> Evidence(told[x], b, TRUE)
      BY <1>1, <1>6, <2>1 DEF Evidence
    <3>4. SessionInv(session[x], told[x], b)' <=> SessionInv(session[x], told[x], b)
      BY <1>1, <1>6, <2>1 DEF SessionInv
    <3>5. Parted(x)' <=> Parted(x)
      BY <1>1, <2>1 DEF Parted
    <3>6. Stands(x, b)'
      BY <1>1, <1>6, <1>7, <2>1, <3>2, <3>3, <3>4, <3>5 DEF Stands
    <3> QED
      BY <1>6, <2>1, <3>1, <3>6
  <2>2. told'[c] \in Seq(Incidents)
    BY <1>3, <1>4, <1>6, ConcatProperties
  <2>3. (did[c] = Plus(d, Left(c)))'
    BY <1>1, <1>2, <1>7 DEF Stands
  <2>4. CASE stage[c] = "greeted"
    <3>1. Parted(c)' /\ u = Closing(session[c])
      BY <1>1, <2>4 DEF Parted
    <3>2. told'[c] = told[c] \o Closing(session[c])
      BY <1>1, <1>6, <3>1
    <3>3. Evidence(told[c], d, TRUE)'
      BY <1>1, <1>3, <3>2 DEF Evidence
    <3>4. \E mail \in Nat : Apart(told'[c], mail)
      BY <1>3, <3>2
    <3>5. Stands(c, d)'
      BY <2>3, <3>1, <3>3, <3>4 DEF Stands
    <3> QED
      BY <1>1, <1>6, <1>8, <2>1, <2>2, <3>5 DEF TalkInv
  <2>5. CASE stage[c] # "greeted"
    <3>1. ~Parted(c)' /\ u = <<>>
      BY <1>1, <2>5 DEF Parted
    <3>2. told'[c] = told[c]
      BY <1>3, <1>6, <3>1
    <3>3. SessionInv(session[c], told[c], d)'
      BY <1>1, <1>2a, <3>2 DEF SessionInv
    <3>4. Stands(c, d)'
      BY <2>3, <3>1, <3>3 DEF Stands
    <3> QED
      BY <1>1, <1>6, <1>8, <2>1, <2>2, <3>4 DEF TalkInv
  <2> QED
    BY <2>4, <2>5
<1> QED
  BY <1>1, <1>4, <1>9

\* Every other step of the listener reports nothing.
LEMMA OthersAreQuiet ==
  ASSUME SlotInv, TalkInv, [Next]_vars, ~ \E c \in Conns : Data(c) \/ Closes(c)
  PROVE  TalkInv' /\ UNCHANGED <<setting, talk>>
<1> DEFINE hungUp(x) == socket[x] # "open" /\ stage[x] # "none" => socket'[x] # "open" /\ stage'[x] # "none"
           quiet == /\ UNCHANGED <<setting, talk, gone>> /\ DOMAIN socket' = Conns
                    /\ gone \subseteq {c \in Conns : socket'[c] = "destroyed"}
                    /\ \A c \in gone : stage'[c] = "greeted" <=> stage[c] = "greeted"
                    /\ \A c \in Conns : hungUp(c)
<1>0. gone \subseteq {c \in Conns : socket[c] = "destroyed"} /\ DOMAIN socket = Conns /\ Dropped # "open"
  BY DEF SlotInv, TalkInv, Dropped
<1>1. ASSUME NEW c \in Conns, Exempt(c) \/ Refuse(c) \/ Admit(c) PROVE quiet
  <2>1. c \notin gone /\ stage[c] = "none"
    BY <1>1 DEF Exempt, Refuse, Admit, Arrives, SlotInv
  <2>2. UNCHANGED <<setting, talk, gone>> /\ DOMAIN socket' = Conns
    BY <1>0, <1>1 DEF Exempt, Refuse, Admit
  <2>3. \A x \in Conns : x # c => socket'[x] = socket[x] /\ stage'[x] = stage[x]
    BY <1>0, <1>1 DEF Exempt, Refuse, Admit, SlotInv
  <2> QED
    BY <1>0, <2>1, <2>2, <2>3
<1>2. ASSUME NEW c \in Conns, GateAnswers(c) PROVE quiet
  <2>1. UNCHANGED <<setting, talk, gone>> /\ DOMAIN socket' = Conns
    BY <1>0, <1>2 DEF GateAnswers
  <2>2. \A x \in Conns : x # c => socket'[x] = socket[x] /\ stage'[x] = stage[x]
    BY <1>0, <1>2 DEF GateAnswers, SlotInv
  <2>3. c \in gone => socket'[c] = "destroyed" /\ stage'[c] # "greeted" /\ stage[c] # "greeted"
    BY <1>0, <1>2 DEF GateAnswers, SlotInv, Flowing
  <2>4. hungUp(c)
    <3>1. stage'[c] # "none"
      BY <1>2 DEF GateAnswers, SlotInv
    <3>2. socket'[c] \in {socket[c], Dropped}
      BY <1>0, <1>2 DEF GateAnswers
    <3> QED
      BY <1>0, <3>1, <3>2
  <2> QED
    BY <1>0, <2>1, <2>2, <2>3, <2>4
<1>3. ASSUME NEW c \in Conns, PeerCloses(c) \/ Expire(c) PROVE quiet
  <2>1. UNCHANGED <<setting, talk, gone>> /\ stage' = stage /\ DOMAIN socket' = Conns
    BY <1>0, <1>3 DEF PeerCloses, Expire
  <2>2. c \notin gone /\ \A x \in Conns : x # c => socket'[x] = socket[x]
    BY <1>0, <1>3 DEF PeerCloses, Expire, Flowing
  <2>3. socket'[c] \in {"destroyed", Dropped}
    BY <1>0, <1>3 DEF PeerCloses, Expire
  <2> QED
    BY <1>0, <2>1, <2>2, <2>3
<1>4. ASSUME NEW c \in Conns, GateReads(c) \/ GateFails(c) PROVE quiet
  BY <1>0, <1>4 DEF GateReads, GateFails
<1>5. ASSUME NEW j \in DOMAIN jobs, JobStep(j) PROVE quiet
  BY <1>0, <1>5 DEF JobStep, JobReads, JobRecords, JobPublishes, JobFails
<1>6. ASSUME Close PROVE quiet
  <2>1. /\ UNCHANGED <<setting, talk, gone>> /\ stage' = stage
        /\ socket' = [c \in Conns |-> IF Flowing(c) THEN Dropped ELSE socket[c]]
    BY <1>6 DEF Close
  <2>2. \A c \in gone : ~Flowing(c)
    BY <1>0 DEF Flowing
  <2> QED
    BY <1>0, <2>1, <2>2
<1>7. ASSUME Closed \/ UNCHANGED vars PROVE quiet
  BY <1>0, <1>7 DEF Closed, vars
<1>8. quiet
  BY <1>1, <1>2, <1>3, <1>4, <1>5, <1>6, <1>7 DEF Next
<1> QED
  BY <1>8, TalkStays

\* Every step of the listener keeps what the dialogues keep.
LEMMA TalkNext == SlotInv /\ TalkInv /\ [Next]_vars => TalkInv'
BY DataTells, ClosesTells, OthersAreQuiet

\* What the invariant says of one connection.
LEMMA TalkIs ==
  ASSUME TalkInv, NEW c \in Conns
  PROVE  /\ told[c] \in Seq(Incidents) /\ \E mail \in Nat : Apart(told[c], mail)
         /\ Leaving(c) /\ Left(c) \in Counts
         /\ \E d \in Counts, ended \in BOOLEAN :
              did[c] = Plus(d, Left(c)) /\ Evidence(told[c], d, ended) /\ (Parted(c) => ended)
<1>0. setting.protocol \in Protocols /\ told[c] \in Seq(Incidents) /\ Leaving(c)
  BY SettingIs DEF TalkInv
<1>1. Left(c) \in Counts
  <2>1. buffer[c] \in Seq(FtpLines) /\ <<>> \in Seq(FtpLines) /\ lost[c] \in Counts
    BY <1>0, EmptySeq DEF Leaving
  <2>2. Meant(session[c], buffer[c]).did \in Counts
    BY <2>1, MeantFollows
  <2> QED
    BY <2>1, <2>2, PlusIs DEF Left
<1>2. PICK d \in Counts : Stands(c, d)
  BY DEF TalkInv
<1>3. CASE Parted(c)
  <2>1. /\ did[c] = Plus(d, Left(c)) /\ Evidence(told[c], d, TRUE) /\ TRUE \in BOOLEAN
        /\ \E mail \in Nat : Apart(told[c], mail)
    BY <1>2, <1>3 DEF Stands
  <2> QED
    BY <1>0, <1>1, <2>1
<1>4. CASE ~Parted(c)
  <2>1. SessionInv(session[c], told[c], d) /\ did[c] = Plus(d, Left(c))
    BY <1>2, <1>4 DEF Stands
  <2>2. Evidence(told[c], d, FALSE) /\ FALSE \in BOOLEAN /\ \E mail \in Nat : Apart(told[c], mail)
    BY <1>0, <2>1, SessionEnds, Zenon
  <2> QED
    BY <1>0, <1>1, <1>4, <2>1, <2>2
<1> QED
  BY <1>3, <1>4

\* Of everything a client sent, however it pipelines it, repeats it or sends it
\* after it was told to go, every credential is told once and every command up to
\* the cap in its order, but for what stands behind a line at which the handler
\* hung up, which waits (FTP) or is thrown away (Telnet); and a connection that
\* closed leaves one trace.
THEOREM NoEvidenceIsLost == Spec => []EvidenceIsTold
<1>1. TalkInv => EvidenceIsTold
  <2> SUFFICES ASSUME TalkInv, NEW c \in Conns
               PROVE  LET commands == Told(c, Commands)
                          unread == Plus(lost[c], Meant(session[c], buffer[c]).did)
                          ran == did[c].commands - unread.commands
                      IN  /\ buffer[c] # <<>> \/ lost[c] # Nil => socket[c] # "open"
                          /\ lost[c] # Nil => setting.protocol = "telnet"
                          /\ Cardinality(Told(c, Credentials)) = did[c].credentials - unread.credentials
                          /\ Cardinality(commands) = IF ran < MaxCommands THEN ran ELSE MaxCommands
                          /\ \A i \in commands : told[c][i].carries = Cardinality({k \in commands : k <= i})
                          /\ Cardinality(Told(c, Transcripts)) <= 1
                          /\ stage[c] = "greeted" /\ c \in gone /\ setting.protocol # "smtp" =>
                               /\ Cardinality(Told(c, Scans)) = One(did[c].offered = unread.offered)
                               /\ setting.protocol # "ftp" => (Told(c, Transcripts) # {} <=> commands # {})
    BY DEF EvidenceIsTold
  <2> DEFINE unread == Plus(lost[c], Meant(session[c], buffer[c]).did)
  <2>1. \A F : Told(c, F) = Of(told[c], F)
    BY DEF Told, Of
  <2>2. PICK d \in Counts, ended \in BOOLEAN :
          did[c] = Plus(d, Left(c)) /\ Evidence(told[c], d, ended) /\ (Parted(c) => ended)
    BY TalkIs
  <2>2a. unread = Left(c)
    BY DEF Left
  <2> HIDE DEF unread
  <2>2b. /\ did[c].credentials - unread.credentials = d.credentials
         /\ did[c].commands - unread.commands = d.commands
         /\ did[c].offered = unread.offered <=> d.offered = 0
    <3>1. unread \in Counts
      BY <2>2a, TalkIs
    <3>2. /\ did[c].credentials = d.credentials + unread.credentials
          /\ did[c].commands = d.commands + unread.commands
          /\ did[c].offered = d.offered + unread.offered
      BY <2>2, <2>2a DEF Plus
    <3> QED
      BY <3>1, <3>2 DEF Counts
  <2>2c. One(did[c].offered = unread.offered) = One(d.offered = 0)
    BY <2>2b DEF One
  <2>3. PICK x, y \in Nat :
          /\ Tally(told[c], d.credentials, Capped(d.commands), x, y) /\ x <= 1
          /\ ended /\ setting.protocol # "smtp" =>
               /\ y = One(d.offered = 0)
               /\ setting.protocol # "ftp" => (x = 0 <=> Capped(d.commands) = 0)
    BY <2>2 DEF Evidence
  <2>4. \A F : IsFiniteSet(Of(told[c], F)) /\ (Cardinality(Of(told[c], F)) = 0 <=> Of(told[c], F) = {})
    <3>1. told[c] \in Seq(Incidents)
      BY TalkIs
    <3>2. Len(told[c]) \in Nat /\ DOMAIN told[c] = 1..Len(told[c])
      BY <3>1, LenProperties
    <3>3. IsFiniteSet(1..Len(told[c]))
      BY <3>2, FS_Interval
    <3>4. \A F : Of(told[c], F) \subseteq 1..Len(told[c])
      BY <3>2 DEF Of
    <3> QED
      BY <3>3, <3>4, FS_Subset, FS_EmptySet
  <2>5. /\ Cardinality(Told(c, Credentials)) = did[c].credentials - unread.credentials
        /\ Cardinality(Told(c, Commands)) = Capped(d.commands)
        /\ Cardinality(Told(c, Transcripts)) = x /\ Cardinality(Told(c, Scans)) = y
        /\ \A i \in Told(c, Commands) : told[c][i].carries = Cardinality({k \in Told(c, Commands) : k <= i})
    BY <2>1, <2>2b, <2>3 DEF Tally
  <2>6. ASSUME stage[c] = "greeted", c \in gone, setting.protocol # "smtp"
        PROVE  /\ Cardinality(Told(c, Scans)) = One(did[c].offered = unread.offered)
               /\ setting.protocol # "ftp" => (Told(c, Transcripts) # {} <=> Told(c, Commands) # {})
    <3>1. ended
      BY <2>2, <2>6 DEF Parted
    <3>2. y = One(d.offered = 0) /\ (setting.protocol # "ftp" => (x = 0 <=> Capped(d.commands) = 0))
      BY <2>3, <2>6, <3>1
    <3>3. /\ Told(c, Transcripts) # {} <=> x # 0
          /\ Told(c, Commands) # {} <=> Capped(d.commands) # 0
      BY <2>1, <2>4, <2>5
    <3> QED
      BY <2>2c, <2>5, <3>2, <3>3
  <2>7. /\ buffer[c] # <<>> \/ lost[c] # Nil => socket[c] # "open"
        /\ lost[c] # Nil => setting.protocol = "telnet"
    BY TalkIs DEF Leaving
  <2>8. LET ran == did[c].commands - unread.commands
        IN  Cardinality(Told(c, Commands)) = IF ran < MaxCommands THEN ran ELSE MaxCommands
    BY <2>2b, <2>5 DEF Capped
  <2>9. Cardinality(Told(c, Transcripts)) <= 1
    BY <2>3, <2>5
  <2> QED
    BY <2>5, <2>6, <2>7, <2>8, <2>9 DEF unread
<1> QED
  BY <1>1, SlotInit, SlotNext, TalkInit, TalkNext, PTL DEF Spec

\* No two mails share a part, and no report mixes two exchanges: the recipients,
\* the text and the user of one never outlive it.
THEOREM MailsAreKeptApart == Spec => []MailsStayApart
<1>1. TalkInv => MailsStayApart
  <2> SUFFICES ASSUME TalkInv, NEW c \in Conns
               PROVE  /\ \A i \in Told(c, Mails) : Cardinality(told[c][i].carries) <= 1
                      /\ \A i, j \in Told(c, {"smtp-spam"}) :
                           i # j => told[c][i].carries \cap told[c][j].carries = {}
    BY DEF MailsStayApart
  <2>1. \A F : Told(c, F) = Of(told[c], F)
    BY DEF Told, Of
  <2>2. PICK mail \in Nat : Apart(told[c], mail)
    BY TalkIs
  <2> QED
    BY <2>1, <2>2 DEF Apart
<1> QED
  BY <1>1, SlotInit, SlotNext, TalkInit, TalkNext, PTL DEF Spec

----------------------------------------------------------------------------
(* The reports. *)

Jobs == [at : JobStages, total : Nat]

\* The reports whose record the store holds.
Recorded == {j \in DOMAIN jobs : jobs[j].at \in {"recorded", "published", "unheard"}}

\* A report that has the score knows of all but its own record.
HitInv ==
  /\ jobs \in Seq(Jobs) /\ score \in Nat
  /\ score = Cardinality(Recorded)
  /\ \A j \in DOMAIN jobs : /\ jobs[j].at = "scored" => jobs[j].total <= score + 1
                            /\ j \in Recorded => jobs[j].total <= score

\* No report is under way at the start.
LEMMA HitInit == Init => HitInv
<1> SUFFICES ASSUME Init PROVE HitInv
  OBVIOUS
<1>1. jobs = <<>> /\ score = 0
  BY DEF Init
<1>2. Recorded = {} /\ Cardinality({}) = 0
  BY <1>1, FS_EmptySet DEF Recorded
<1>3. <<>> \in Seq(Jobs)
  BY EmptySeq
<1> QED
  BY <1>1, <1>2, <1>3 DEF HitInv

\* The reports under way can be counted.
LEMMA RecordedIsFinite ==
  ASSUME HitInv
  PROVE  /\ IsFiniteSet(Recorded) /\ Len(jobs) \in Nat /\ DOMAIN jobs = 1..Len(jobs)
         /\ \A j \in DOMAIN jobs : jobs[j] \in Jobs
<1>1. Len(jobs) \in Nat /\ DOMAIN jobs = 1..Len(jobs) /\ \A j \in DOMAIN jobs : jobs[j] \in Jobs
  BY LenProperties, ElementOfSeq DEF HitInv
<1>2. IsFiniteSet(1..Len(jobs))
  BY <1>1, FS_Interval
<1>3. Recorded \subseteq 1..Len(jobs)
  BY <1>1 DEF Recorded
<1> QED
  BY <1>1, <1>2, <1>3, FS_Subset

\* New reports start at the beginning.
LEMMA ReportsStart ==
  ASSUME HitInv, NEW c, NEW u \in Seq(Incidents), Reports(c, u), score' = score, setting' = setting
  PROVE  HitInv'
<1> DEFINE new == [at |-> "incident", total |-> 0]
           more == [i \in DOMAIN u |-> new]
<1>1. jobs' = jobs \/ jobs' = jobs \o more
  BY DEF Reports
<1>2. CASE jobs' = jobs
  <2>1. Recorded' = Recorded
    BY <1>2 DEF Recorded
  <2> QED
    BY <1>2, <2>1 DEF HitInv
<1>3. CASE jobs' = jobs \o more
  <2>1. new \in Jobs /\ new.at = "incident"
    BY DEF Jobs, JobStages
  <2>2. Len(u) \in Nat /\ DOMAIN u = 1..Len(u)
    BY LenProperties
  <2> HIDE DEF new
  <2>3. more \in Seq(Jobs) /\ Len(more) = Len(u) /\ \A i \in 1..Len(u) : more[i] = new
    BY <2>1, <2>2
  <2> HIDE DEF more
  <2>4. jobs \in Seq(Jobs) /\ Len(jobs) \in Nat /\ DOMAIN jobs = 1..Len(jobs)
    BY RecordedIsFinite DEF HitInv
  <2>5. /\ jobs' \in Seq(Jobs) /\ Len(jobs') = Len(jobs) + Len(u)
        /\ \A i \in 1..(Len(jobs) + Len(u)) :
             jobs'[i] = IF i <= Len(jobs) THEN jobs[i] ELSE more[i - Len(jobs)]
    <3>1. \A r, q \in Seq(Jobs) :
            /\ r \o q \in Seq(Jobs) /\ Len(r \o q) = Len(r) + Len(q)
            /\ \A i \in 1..(Len(r) + Len(q)) : (r \o q)[i] = IF i <= Len(r) THEN r[i] ELSE q[i - Len(r)]
      BY ConcatProperties
    <3>2. /\ jobs \o more \in Seq(Jobs) /\ Len(jobs \o more) = Len(jobs) + Len(more)
          /\ \A i \in 1..(Len(jobs) + Len(more)) :
               (jobs \o more)[i] = IF i <= Len(jobs) THEN jobs[i] ELSE more[i - Len(jobs)]
      BY <2>3, <2>4, <3>1, Zenon
    <3> QED
      BY <1>3, <2>3, <3>2
  <2>6. /\ DOMAIN jobs' = 1..(Len(jobs) + Len(u))
        /\ \A i \in DOMAIN jobs' : \/ i \in DOMAIN jobs /\ jobs'[i] = jobs[i]
                                   \/ i \notin DOMAIN jobs /\ jobs'[i] = new
        /\ DOMAIN jobs \subseteq DOMAIN jobs'
    <3>1. DOMAIN jobs' = 1..(Len(jobs) + Len(u))
      BY <2>5, LenProperties
    <3> DEFINE n == Len(jobs)
               m == Len(u)
    <3>2. n \in Nat /\ m \in Nat /\ DOMAIN jobs = 1..n /\ DOMAIN jobs' = 1..(n + m)
      BY <2>2, <2>4, <3>1
    <3>3. /\ \A i \in 1..m : more[i] = new
          /\ \A i \in 1..(n + m) : jobs'[i] = IF i <= n THEN jobs[i] ELSE more[i - n]
      BY <2>3, <2>5
    <3> HIDE DEF n, m
    <3>4. ASSUME NEW i \in 1..(n + m)
          PROVE  (i \in 1..n /\ jobs'[i] = jobs[i]) \/ (i \notin 1..n /\ jobs'[i] = new)
      <4>0. jobs'[i] = IF i <= n THEN jobs[i] ELSE more[i - n]
        BY <3>3
      <4>1. CASE i <= n
        <5>1. i \in 1..n
          BY <3>2, <4>1
        <5>2. jobs'[i] = jobs[i]
          BY <4>0, <4>1, Zenon
        <5> QED
          BY <5>1, <5>2
      <4>2. CASE ~ i <= n
        <5>1. i - n \in 1..m /\ i \notin 1..n
          BY <3>2, <4>2
        <5> QED
          BY <3>3, <4>0, <4>2, <5>1
      <4> QED
        BY <4>1, <4>2
    <3>5. 1..n \subseteq 1..(n + m)
      BY <3>2
    <3> QED
      BY <3>2, <3>4, <3>5 DEF n, m
  <2>7. Recorded' = Recorded
    BY <2>1, <2>6 DEF Recorded
  <2>8. \A j \in DOMAIN jobs' : /\ jobs'[j].at = "scored" => jobs'[j].total <= score + 1
                                /\ j \in Recorded => jobs'[j].total <= score
    BY <2>1, <2>6 DEF HitInv, Recorded
  <2> QED
    BY <2>5, <2>7, <2>8 DEF HitInv
<1> QED
  BY <1>1, <1>2, <1>3

\* A step of one report: it moves on, with the total it has or a new one.
LEMMA ReportMoves ==
  ASSUME HitInv, NEW j \in DOMAIN jobs, NEW step \in JobStages, NEW total \in Nat,
         jobs' = [jobs EXCEPT ![j] = [at |-> step, total |-> total]]
  PROVE  /\ jobs' \in Seq(Jobs) /\ DOMAIN jobs' = DOMAIN jobs
         /\ jobs'[j].at = step /\ jobs'[j].total = total
         /\ \A i \in DOMAIN jobs : i # j => jobs'[i] = jobs[i]
         /\ Recorded' = IF step \in {"recorded", "published", "unheard"} THEN Recorded \cup {j} ELSE Recorded \ {j}
<1> DEFINE x == [at |-> step, total |-> total]
<1>1. x \in Jobs /\ x.at = step /\ x.total = total
  BY DEF Jobs
<1> HIDE DEF x
<1>2. jobs' = [jobs EXCEPT ![j] = x] /\ jobs \in Seq(Jobs) /\ Len(jobs) \in Nat /\ DOMAIN jobs = 1..Len(jobs)
  BY RecordedIsFinite DEF HitInv, x
<1>3. jobs' \in Seq(Jobs)
  BY <1>1, <1>2, ExceptSeq
<1>4. DOMAIN jobs' = DOMAIN jobs /\ jobs'[j] = x /\ \A i \in DOMAIN jobs : i # j => jobs'[i] = jobs[i]
  BY <1>2
<1>5. Recorded' = IF step \in {"recorded", "published", "unheard"} THEN Recorded \cup {j} ELSE Recorded \ {j}
  BY <1>1, <1>4 DEF Recorded
<1> QED
  BY <1>1, <1>3, <1>4, <1>5

\* A report that moves on keeps its total.
LEMMA StageMoves ==
  ASSUME HitInv, NEW j \in DOMAIN jobs, NEW step
  PROVE  [jobs EXCEPT ![j].at = step] = [jobs EXCEPT ![j] = [at |-> step, total |-> jobs[j].total]]
<1>1. jobs[j] \in Jobs
  BY RecordedIsFinite
<1>2. [jobs[j] EXCEPT !.at = step] = [at |-> step, total |-> jobs[j].total]
  BY <1>1 DEF Jobs
<1> QED
  BY <1>2, Zenon

\* Every step of a report keeps the score ahead of the totals.
LEMMA JobKeeps ==
  ASSUME HitInv, NEW j \in DOMAIN jobs, JobStep(j)
  PROVE  HitInv'
<1>1. /\ jobs \in Seq(Jobs) /\ score \in Nat /\ score = Cardinality(Recorded) /\ jobs[j] \in Jobs
      /\ IsFiniteSet(Recorded)
  BY RecordedIsFinite DEF HitInv
<1>2. /\ jobs[j].at \in JobStages /\ jobs[j].total \in Nat
      /\ jobs[j] = [at |-> jobs[j].at, total |-> jobs[j].total]
      /\ \A i \in DOMAIN jobs : jobs[i].total \in Nat
  BY <1>1, RecordedIsFinite DEF Jobs
<1>3. /\ jobs[j].at = "scored" => jobs[j].total <= score + 1
      /\ j \in Recorded => jobs[j].total <= score
      /\ \A i \in DOMAIN jobs : /\ jobs[i].at = "scored" => jobs[i].total <= score + 1
                                /\ i \in Recorded => jobs[i].total <= score
  BY DEF HitInv
<1>4. j \in Recorded <=> jobs[j].at \in {"recorded", "published", "unheard"}
  BY DEF Recorded
<1>5. CASE JobReads(j)
  <2>1. /\ jobs[j].at = "incident" /\ score' = score
        /\ jobs' = [jobs EXCEPT ![j] = [at |-> "scored", total |-> score + 1]]
    <3> DEFINE n == score + 1
               y == [jobs EXCEPT ![j].at = "scored"]
    <3>1. jobs[j].at = "incident" /\ score' = score /\ jobs' = [y EXCEPT ![j].total = n]
      BY <1>5 DEF JobReads, At
    <3>2. y = [jobs EXCEPT ![j] = [at |-> "scored", total |-> jobs[j].total]]
      BY StageMoves, Zenon
    <3>3. y[j] = [at |-> "scored", total |-> jobs[j].total] /\ DOMAIN y = DOMAIN jobs
      BY <3>2
    <3> DEFINE z == [at |-> "scored", total |-> n]
    <3>4. [y[j] EXCEPT !.total = n] = z
      <4> HIDE DEF y, n
      <4>1. \A t : [[at |-> "scored", total |-> t] EXCEPT !.total = n] = [at |-> "scored", total |-> n]
        OBVIOUS
      <4> QED
        BY <3>3, <4>1
    <3>5. jobs' = [y EXCEPT ![j] = z]
      BY <3>1, <3>4, Zenon
    <3> HIDE DEF y, z, n
    <3>6. [y EXCEPT ![j] = z] = [jobs EXCEPT ![j] = z]
      BY <3>2
    <3> QED
      BY <3>1, <3>5, <3>6 DEF z, n
  <2>2. "scored" \in JobStages /\ score + 1 \in Nat
    BY <1>1 DEF JobStages
  <2>3. /\ jobs' \in Seq(Jobs) /\ DOMAIN jobs' = DOMAIN jobs
        /\ jobs'[j].at = "scored" /\ jobs'[j].total = score + 1
        /\ \A i \in DOMAIN jobs : i # j => jobs'[i] = jobs[i]
        /\ Recorded' = Recorded \ {j}
    BY <2>1, <2>2, ReportMoves
  <2>4. Recorded' = Recorded
    BY <1>4, <2>1, <2>3
  <2>5. j \notin Recorded
    BY <1>4, <2>1
  <2>6. \A i \in DOMAIN jobs' : /\ jobs'[i].at = "scored" => jobs'[i].total <= score' + 1
                                /\ i \in Recorded' => jobs'[i].total <= score'
    BY <1>1, <1>2, <1>3, <2>1, <2>3, <2>4, <2>5
  <2> QED
    BY <1>1, <2>1, <2>3, <2>4, <2>6 DEF HitInv
<1>6. CASE JobRecords(j)
  <2>1. /\ jobs[j].at = "scored" /\ score' = score + 1
        /\ jobs' = [jobs EXCEPT ![j] = [at |-> "recorded", total |-> jobs[j].total]]
    BY <1>6, StageMoves, Zenon DEF JobRecords, At
  <2>2. "recorded" \in JobStages
    BY DEF JobStages
  <2>3. /\ jobs' \in Seq(Jobs) /\ DOMAIN jobs' = DOMAIN jobs
        /\ jobs'[j].at = "recorded" /\ jobs'[j].total = jobs[j].total
        /\ \A i \in DOMAIN jobs : i # j => jobs'[i] = jobs[i]
        /\ Recorded' = Recorded \cup {j}
    BY <1>2, <2>1, <2>2, ReportMoves
  <2>4. j \notin Recorded
    BY <1>4, <2>1
  <2>5. Cardinality(Recorded') = score + 1
    BY <1>1, <2>3, <2>4, FS_AddElement
  <2>6. \A i \in DOMAIN jobs' : /\ jobs'[i].at = "scored" => jobs'[i].total <= score' + 1
                                /\ i \in Recorded' => jobs'[i].total <= score'
    BY <1>1, <1>2, <1>3, <2>1, <2>3
  <2> QED
    BY <1>1, <2>1, <2>3, <2>5, <2>6 DEF HitInv
\* The record of the report is what it was.
<1>7. ASSUME NEW step \in JobStages, step # "scored", score' = score,
             jobs' = [jobs EXCEPT ![j] = [at |-> step, total |-> jobs[j].total]],
             step \in {"recorded", "published", "unheard"} <=> j \in Recorded
      PROVE  HitInv'
  <2>1. /\ jobs' \in Seq(Jobs) /\ DOMAIN jobs' = DOMAIN jobs
        /\ jobs'[j].at = step /\ jobs'[j].total = jobs[j].total
        /\ \A i \in DOMAIN jobs : i # j => jobs'[i] = jobs[i]
        /\ Recorded' = IF step \in {"recorded", "published", "unheard"} THEN Recorded \cup {j} ELSE Recorded \ {j}
    BY <1>2, <1>7, ReportMoves
  <2>2. Recorded' = Recorded
    BY <1>7, <2>1
  <2> QED
    BY <1>1, <1>3, <1>7, <2>1, <2>2 DEF HitInv
<1>8. CASE JobPublishes(j)
  <2>1. /\ jobs[j].at = "recorded" /\ score' = score
        /\ jobs' = [jobs EXCEPT ![j] = [at |-> "published", total |-> jobs[j].total]]
    BY <1>8, StageMoves, Zenon DEF JobPublishes, At
  <2> QED
    BY <1>4, <1>7, <2>1 DEF JobStages
<1>9. CASE JobFails(j)
  <2> DEFINE step == IF jobs[j].at = "recorded" THEN "unheard" ELSE "failed"
  <2>1. /\ jobs[j].at \in {"incident", "scored", "recorded"} /\ score' = score
        /\ jobs' = [jobs EXCEPT ![j] = [at |-> step, total |-> jobs[j].total]]
    BY <1>9, StageMoves, Zenon DEF JobFails, At
  <2>2. /\ step \in JobStages /\ step # "scored"
        /\ step \in {"recorded", "published", "unheard"} <=> jobs[j].at = "recorded"
    BY DEF JobStages
  <2> HIDE DEF step
  <2>3. step \in {"recorded", "published", "unheard"} <=> j \in Recorded
    BY <1>4, <2>1, <2>2
  <2> QED
    BY <1>7, <2>1, <2>2, <2>3
<1> QED
  BY <1>5, <1>6, <1>8, <1>9 DEF JobStep

\* Every step of the listener keeps the score ahead of the totals.
LEMMA HitNext == SlotInv /\ TalkInv /\ HitInv /\ [Next]_vars => HitInv'
<1> SUFFICES ASSUME TalkInv, HitInv, [Next]_vars PROVE HitInv'
  OBVIOUS
<1>1. ASSUME NEW c \in Conns, Data(c) \/ Closes(c) PROVE HitInv'
  <2>1. \E u \in Seq(Incidents) : Reports(c, u)
    BY <1>1, DataTells, ClosesTells
  <2>2. score' = score /\ setting' = setting
    BY <1>1 DEF Data, Closes
  <2> QED
    BY <2>1, <2>2, ReportsStart
<1>2. ASSUME NEW j \in DOMAIN jobs, JobStep(j) PROVE HitInv'
  BY <1>2, JobKeeps
<1>3. ASSUME UNCHANGED reporting PROVE HitInv'
  BY <1>3 DEF HitInv, Recorded, reporting
<1>4. ASSUME NEW c \in Conns, \/ Exempt(c) \/ Refuse(c) \/ Admit(c) \/ GateReads(c) \/ GateAnswers(c) \/ GateFails(c)
                              \/ PeerCloses(c) \/ Expire(c)
      PROVE  UNCHANGED reporting
  BY <1>4 DEF Exempt, Refuse, Admit, GateReads, GateAnswers, GateFails, PeerCloses, Expire
<1>5. ASSUME Close \/ Closed \/ UNCHANGED vars PROVE UNCHANGED reporting
  BY <1>5 DEF Close, Closed, vars
<1> QED
  BY <1>1, <1>2, <1>3, <1>4, <1>5 DEF Next

\* However many reports of an address overlap, no hit is published before its
\* record, or with a total beyond the score the store holds.
THEOREM NoHitRunsAhead == Spec => []HitsFollowRecords
<1>1. HitInv => HitsFollowRecords
  <2> SUFFICES ASSUME HitInv PROVE HitsFollowRecords
    OBVIOUS
  <2>1. \A j \in DOMAIN jobs : jobs[j].at = "published" => j \in Recorded
    BY DEF Recorded
  <2> QED
    BY <2>1 DEF HitInv, HitsFollowRecords, Recorded
<1> QED
  BY <1>1, SlotInit, SlotNext, TalkInit, TalkNext, HitInit, HitNext, PTL DEF Spec
=============================================================================
