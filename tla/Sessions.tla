------------------------------ MODULE Sessions ------------------------------
(***************************************************************************)
(* A protocol honeypot (src/src/protocols/): the listener, the slots of its  *)
(* connections, the score gate that is awaited before any listener is        *)
(* attached, the dialogue, and the reports each finding makes on its way to   *)
(* the store.  The four honeypots share this shape and differ in the          *)
(* dialogue; `setting` says which of them runs and how it is configured.      *)
(* The connections that are not allowlisted come from one address.            *)
(***************************************************************************)
EXTENDS Dialogue, FiniteSets

CONSTANTS Conns,           \* connections
          Settings,        \* the configurations to start from
          MaxConnections,
          ChunkLines,      \* bound: lines in one data event
          Unread           \* the gate has no score yet

Protocols == {"ftp", "telnet", "ssh", "smtp"}

\* interactive; whether incidents go to a store; dropAboveScore, 0 is off; the
\* calls that may fail; the connections that arrive and the lines each may say.
SettingType ==
  [protocol : Protocols, interactive : BOOLEAN, store : BOOLEAN, drop : Nat,
   faults : SUBSET {"onIncident", "scoreFor", "record", "onHit", "gate"},
   conns : SUBSET Conns, patience : Nat]

ASSUME SessionsAssumption ==
  /\ IsFiniteSet(Conns) /\ MaxConnections \in Nat /\ ChunkLines \in Nat
  /\ Settings \subseteq SettingType /\ Unread \notin Nat

VARIABLES setting,
          up,        \* the process runs
          listener,  \* "listening", "closing", "closed"
          slots,     \* activeConnections
          socket,    \* per connection: none, open, ended by us, destroyed
          gone,      \* the connections whose close event was emitted
          stage,     \* per connection: where handleConnection() is, or how it ended
          seen,      \* per connection: the score its gate read
          session,   \* per connection: the locals of its dialogue
          buffer,    \* per connection: lines received and not handled
          told,      \* per connection: the incidents reported, in order
          did,       \* ghost, per connection: what the lines it sent submit
          lost,      \* ghost, per connection: what those thrown away submitted
          said,      \* ghost, per connection: lines sent
          jobs,      \* the reports under way to the store
          score      \* ghost: the score the store holds of the address

talk == <<session, buffer, told, did, lost, said>>
reporting == <<jobs, score>>
vars == <<setting, up, listener, slots, socket, gone, stage, seen, talk, reporting>>

Ssh == setting.protocol = "ssh"

NewSession ==
  CASE setting.protocol = "ftp"    -> FtpNew
    [] setting.protocol = "telnet" -> TelnetNew
    [] setting.protocol = "ssh"    -> SshNew
    [] OTHER -> SmtpNew

Inputs(s) ==
  CASE setting.protocol = "ftp"    -> FtpLines
    [] setting.protocol = "telnet" -> TelnetLines
    [] setting.protocol = "ssh"    -> SshLines(s)
    [] OTHER -> SmtpLines

Line(s, line) ==
  CASE setting.protocol = "ftp"    -> FtpLine(s, line, setting.interactive)
    [] setting.protocol = "telnet" -> TelnetLine(s, line, setting.interactive)
    [] setting.protocol = "ssh"    -> SshLine(s, line, setting.interactive)
    [] OTHER -> SmtpLine(s, line)

Closing(s) ==
  CASE setting.protocol = "ftp"    -> FtpCloses(s)
    [] setting.protocol = "telnet" -> TelnetCloses(s)
    [] setting.protocol = "ssh"    -> SshCloses(s)
    [] OTHER -> <<>>

\* Ghosts: the credentials offered, those that can be reported, the commands.
Nil == [offered |-> 0, credentials |-> 0, commands |-> 0]

Init ==
  /\ setting \in Settings
  /\ up = TRUE /\ listener = "listening" /\ slots = 0 /\ score = 0 /\ jobs = <<>>
  /\ gone = {}
  /\ socket = [c \in Conns |-> "none"] /\ stage = [c \in Conns |-> "none"]
  /\ seen = [c \in Conns |-> Unread] /\ session = [c \in Conns |-> NewSession]
  /\ buffer = [c \in Conns |-> <<>>] /\ told = [c \in Conns |-> <<>>]
  /\ did = [c \in Conns |-> Nil] /\ lost = [c \in Conns |-> Nil]
  /\ said = [c \in Conns |-> 0]

----------------------------------------------------------------------------
(* Connections. *)

\* What dropping a connection does to its socket: ssh2's end() says goodbye and
\* leaves it to the peer to close.
Dropped == IF Ssh THEN "ended" ELSE "destroyed"

Flowing(c) == socket[c] \in {"open", "ended"}

Arrives(c) == up /\ listener = "listening" /\ c \in setting.conns /\ stage[c] = "none"

\* An allowlisted source, before anything is counted.
Exempt(c) ==
  /\ Arrives(c)
  /\ socket' = [socket EXCEPT ![c] = Dropped] /\ stage' = [stage EXCEPT ![c] = "exempt"]
  /\ UNCHANGED <<setting, gone, up, listener, slots, seen, talk, reporting>>

Refuse(c) ==
  /\ Arrives(c) /\ slots >= MaxConnections
  /\ socket' = [socket EXCEPT ![c] = Dropped] /\ stage' = [stage EXCEPT ![c] = "refused"]
  /\ UNCHANGED <<setting, gone, up, listener, slots, seen, talk, reporting>>

\* Takes the slot; asks for the score if the gate is on.
Admit(c) ==
  /\ Arrives(c) /\ slots < MaxConnections
  /\ slots' = slots + 1
  /\ socket' = [socket EXCEPT ![c] = "open"]
  /\ stage' = [stage EXCEPT ![c] = IF setting.store /\ setting.drop > 0 THEN "gate" ELSE "greeted"]
  /\ UNCHANGED <<setting, gone, up, listener, seen, talk, reporting>>

GateReads(c) ==
  /\ up /\ stage[c] = "gate" /\ seen[c] = Unread
  /\ seen' = [seen EXCEPT ![c] = score]
  /\ UNCHANGED <<setting, gone, up, listener, slots, socket, stage, talk, reporting>>

\* The listeners are attached only now, whatever became of the socket.
GateAnswers(c) ==
  /\ up /\ stage[c] = "gate" /\ seen[c] # Unread
  /\ IF seen[c] >= setting.drop
     THEN /\ stage' = [stage EXCEPT ![c] = "dropped"]
          /\ socket' = [socket EXCEPT ![c] = IF Flowing(c) THEN Dropped ELSE @]
     ELSE /\ stage' = [stage EXCEPT ![c] = IF c \in gone THEN "missed" ELSE "greeted"]
          /\ UNCHANGED socket
  /\ UNCHANGED <<setting, gone, up, listener, slots, seen, talk, reporting>>

\* Nothing catches what handleConnection() rejects with: Node ends the process.
GateFails(c) ==
  /\ up /\ "gate" \in setting.faults /\ stage[c] = "gate"
  /\ up' = FALSE
  /\ UNCHANGED <<setting, gone, listener, slots, socket, stage, seen, talk, reporting>>

\* report(): the incident is built and onIncident called at once; with a store
\* the rest follows.
Reports(c, incidents) ==
  /\ told' = [told EXCEPT ![c] = @ \o incidents]
  /\ jobs' = IF setting.store
             THEN jobs \o [i \in DOMAIN incidents |-> [at |-> "incident", total |-> 0]]
             ELSE jobs

----------------------------------------------------------------------------
(* The dialogue. *)

\* Ghosts: what a line submits to the dialogue it is said in.
Offers(s, line) ==
  CASE setting.protocol = "ftp"    -> s.lines < MaxLines /\ line = "PASS"
    [] setting.protocol = "telnet" -> s.lines < MaxLines /\ s.mode = "password"
    [] setting.protocol = "ssh"    -> s.mode = "auth" /\ line # "none"
    [] OTHER -> /\ s.lines < MaxLines
                /\ s.mode = "auth-pass" \/ (s.mode = "commands" /\ line = "AUTH PLAIN token")

Runs(s, line) ==
  CASE setting.protocol = "ftp"    -> s.lines < MaxLines /\ s.loggedIn /\ line \in {"CWD", "RETR"}
    [] setting.protocol = "telnet" -> s.lines < MaxLines /\ s.mode = "shell" /\ line # ""
    [] setting.protocol = "ssh"    -> s.mode = "ready" /\ line \in {"command", "exit", "exec"}
    [] OTHER -> FALSE

One(fact) == IF fact THEN 1 ELSE 0

Submits(s, line) ==
  [offered     |-> One(Offers(s, line)),
   credentials |-> One(Offers(s, line) /\ line # "keyboard-interactive"),
   commands    |-> One(Runs(s, line))]

Plus(d, e) ==
  [offered     |-> d.offered + e.offered,
   credentials |-> d.credentials + e.credentials,
   commands    |-> d.commands + e.commands]

\* Ghost: the session after these lines and what they submit, were the dialogue
\* to go on through every one of them.
Hears(at, line) ==
  [session |-> Line(at.session, line).session, did |-> Plus(at.did, Submits(at.session, line))]

Meant(s, lines) ==
  LET after[n \in 0..Len(lines)] ==
        IF n = 0 THEN [session |-> s, did |-> Nil] ELSE Hears(after[n - 1], lines[n])
  IN  after[Len(lines)]

\* Every line is answered, and a write after our own end() destroys a net.Socket.
Sent(socketNow, reply) ==
  CASE socketNow = "open" -> reply.socket
    [] socketNow # "open" /\ Ssh -> socketNow
    [] OTHER -> "destroyed"

\* Mutant: it is left after a line that was reported.
LeavesOnReport(socketNow, reply) == reply.told # <<>>

\* Whether the loop over the lines of a data event is left after this one.
Leaves(socketNow, reply) ==
  CASE setting.protocol = "ftp"    -> reply.socket # "open"
    [] setting.protocol = "telnet" -> socketNow # "open"
    [] OTHER -> reply.socket = "destroyed"

Handle(at, line) ==
  LET reply == Line(at.session, line)
      after == Sent(at.socket, reply)
  IN  IF at.left THEN [at EXCEPT !.rest = Append(@, line)]
      ELSE [at EXCEPT !.session = reply.session, !.told = @ \o reply.told,
                      !.socket = after, !.left = Leaves(after, reply)]

\* The lines of a data event, one after the other.
Handled(at, lines) ==
  LET after[n \in 0..Len(lines)] == IF n = 0 THEN at ELSE Handle(after[n - 1], lines[n])
  IN  after[Len(lines)]

\* The lines a data event brings: ssh2 raises one event at a time.
Chunks(c) ==
  UNION {[1..n -> Inputs(session[c])] : n \in 1..(IF Ssh THEN 1 ELSE ChunkLines)}

\* What FTP leaves in its buffer is handled with the next event; the others
\* throw away what they leave.
Data(c) ==
  /\ up /\ stage[c] = "greeted" /\ Flowing(c)
  /\ \E chunk \in Chunks(c) :
       /\ said[c] + Len(chunk) <= setting.patience
       /\ said' = [said EXCEPT ![c] = @ + Len(chunk)]
       /\ did' = [did EXCEPT ![c] = Plus(@, Meant(Meant(session[c], buffer[c]).session, chunk).did)]
       /\ LET at == Handled([session |-> session[c], told |-> <<>>, socket |-> socket[c],
                             left |-> FALSE, rest |-> <<>>],
                            buffer[c] \o chunk)
          IN  /\ session' = [session EXCEPT ![c] = at.session]
              /\ socket' = [socket EXCEPT ![c] = at.socket]
              /\ buffer' = [buffer EXCEPT ![c] = IF setting.protocol = "ftp" THEN at.rest ELSE <<>>]
              /\ lost' = [lost EXCEPT ![c] = IF setting.protocol = "ftp" THEN @
                                            ELSE Plus(@, Meant(at.session, at.rest).did)]
              /\ Reports(c, at.told)
  /\ UNCHANGED <<setting, gone, up, listener, slots, stage, seen, score>>

----------------------------------------------------------------------------
(* The end of a connection, and of the listener. *)

PeerCloses(c) ==
  /\ up /\ Flowing(c)
  /\ socket' = [socket EXCEPT ![c] = "destroyed"]
  /\ UNCHANGED <<setting, gone, up, listener, slots, stage, seen, talk, reporting>>

\* Mutant: the lifetime timer ends the connection and leaves it to the client.
ExpirePolitely(c) ==
  /\ up /\ Flowing(c) /\ stage[c] \in {"gate", "greeted", "dropped"}
  /\ socket' = [socket EXCEPT ![c] = "ended"]
  /\ UNCHANGED <<setting, gone, up, listener, slots, stage, seen, talk, reporting>>

\* The lifetime timer, the idle timer or a line too long.
Expire(c) ==
  /\ up /\ Flowing(c) /\ stage[c] \in {"gate", "greeted", "dropped"}
  /\ socket' = [socket EXCEPT ![c] = Dropped]
  /\ UNCHANGED <<setting, gone, up, listener, slots, stage, seen, talk, reporting>>

HasSlot(c) == stage[c] \in {"gate", "greeted", "dropped", "missed"} /\ c \notin gone

\* Mutant: it is attached after the gate.
ClosesAfterGate(c) ==
  /\ up /\ socket[c] = "destroyed" /\ c \notin gone
  /\ gone' = gone \cup {c}
  /\ slots' = slots - One(HasSlot(c) /\ stage[c] # "gate")
  /\ Reports(c, IF stage[c] = "greeted" THEN Closing(session[c]) ELSE <<>>)
  /\ UNCHANGED <<setting, up, listener, socket, stage, seen, session, buffer, did, lost, said, score>>

\* The close event: its listeners give the slot back and report who left.
Closes(c) ==
  /\ up /\ socket[c] = "destroyed" /\ c \notin gone
  /\ gone' = gone \cup {c}
  /\ slots' = slots - One(HasSlot(c))
  /\ Reports(c, IF stage[c] = "greeted" THEN Closing(session[c]) ELSE <<>>)
  /\ UNCHANGED <<setting, up, listener, socket, stage, seen, session, buffer, did, lost, said, score>>

\* Mutant: connections are registered once they pass the gate.
CloseGreeted ==
  /\ up /\ listener = "listening"
  /\ listener' = "closing"
  /\ socket' = [c \in Conns |-> IF Flowing(c) /\ stage[c] # "gate" THEN Dropped ELSE socket[c]]
  /\ UNCHANGED <<setting, gone, up, slots, stage, seen, talk, reporting>>

\* close(): the sockets are dropped, not waited for.
Close ==
  /\ up /\ listener = "listening"
  /\ listener' = "closing"
  /\ socket' = [c \in Conns |-> IF Flowing(c) THEN Dropped ELSE socket[c]]
  /\ UNCHANGED <<setting, gone, up, slots, stage, seen, talk, reporting>>

\* server.close() calls back once no connection is left.
Closed ==
  /\ up /\ listener = "closing" /\ \A c \in Conns : socket[c] = "none" \/ c \in gone
  /\ listener' = "closed"
  /\ UNCHANGED <<setting, gone, up, slots, socket, stage, seen, talk, reporting>>

----------------------------------------------------------------------------
(* Reports: each waits for onIncident, the score, the record and onHit in turn. *)

At(j, steps) == up /\ j \in DOMAIN jobs /\ jobs[j].at \in steps

JobReads(j) ==
  /\ At(j, {"incident"})
  /\ jobs' = [jobs EXCEPT ![j].at = "scored", ![j].total = score + 1]
  /\ UNCHANGED <<setting, gone, up, listener, slots, socket, stage, seen, talk, score>>

JobRecords(j) ==
  /\ At(j, {"scored"})
  /\ jobs' = [jobs EXCEPT ![j].at = "recorded"]
  /\ score' = score + 1
  /\ UNCHANGED <<setting, gone, up, listener, slots, socket, stage, seen, talk>>

\* Mutant: the hit is published without waiting for its record.
JobPublishesEarly(j) ==
  /\ At(j, {"scored", "recorded"})
  /\ jobs' = [jobs EXCEPT ![j].at = "published"]
  /\ UNCHANGED <<setting, gone, up, listener, slots, socket, stage, seen, talk, score>>

JobPublishes(j) ==
  /\ At(j, {"recorded"})
  /\ jobs' = [jobs EXCEPT ![j].at = "published"]
  /\ UNCHANGED <<setting, gone, up, listener, slots, socket, stage, seen, talk, score>>

\* A rejection ends the report there, in onError; after the record, only the
\* hit is unheard.
JobFails(j) ==
  /\ \/ At(j, {"incident"}) /\ setting.faults \cap {"onIncident", "scoreFor"} # {}
     \/ At(j, {"scored"}) /\ "record" \in setting.faults
     \/ At(j, {"recorded"}) /\ "onHit" \in setting.faults
  /\ jobs' = [jobs EXCEPT ![j].at = IF @ = "recorded" THEN "unheard" ELSE "failed"]
  /\ UNCHANGED <<setting, gone, up, listener, slots, socket, stage, seen, talk, score>>

JobStep(j) == JobReads(j) \/ JobRecords(j) \/ JobPublishes(j) \/ JobFails(j)

Next ==
  \/ \E c \in Conns : \/ Exempt(c) \/ Refuse(c) \/ Admit(c)
                      \/ GateReads(c) \/ GateAnswers(c) \/ GateFails(c)
                      \/ Data(c) \/ PeerCloses(c) \/ Expire(c) \/ Closes(c)
  \/ \E j \in DOMAIN jobs : JobStep(j)
  \/ Close \/ Closed

Spec == Init /\ [][Next]_vars

\* The lifetime timer of a connection fires and a destroyed socket emits its
\* close. Nothing is assumed of the clients, of the store, or of close().
Fairness == \A c \in Conns : WF_vars(Expire(c)) /\ WF_vars(Closes(c))

FairSpec == Spec /\ Fairness

----------------------------------------------------------------------------
(* Properties. *)

SocketStates == {"none", "open", "ended", "destroyed"}
Stages == {"none", "exempt", "refused", "gate", "dropped", "missed", "greeted"}
JobStages == {"incident", "scored", "recorded", "published", "failed", "unheard"}

\* Every variable has the type the code gives it, and a connection that has
\* not arrived has no state.
TypeOK ==
  /\ setting \in Settings /\ up \in BOOLEAN
  /\ listener \in {"listening", "closing", "closed"}
  /\ slots \in Nat /\ score \in Nat
  /\ gone \subseteq {c \in Conns : socket[c] = "destroyed"}
  /\ socket \in [Conns -> SocketStates] /\ stage \in [Conns -> Stages]
  /\ seen \in [Conns -> Nat \cup {Unread}] /\ said \in [Conns -> Nat]
  /\ DOMAIN session = Conns /\ DOMAIN told = Conns
  /\ DOMAIN buffer = Conns /\ DOMAIN did = Conns /\ DOMAIN lost = Conns
  /\ jobs \in Seq([at : JobStages, total : Nat])
  /\ \A c \in Conns : socket[c] = "none" <=> stage[c] = "none"

Holders == {c \in Conns : HasSlot(c)}

\* activeConnections is the number of connections that took a slot and have not
\* closed, on every path through the gate, the caps and close(), and is within
\* the cap: no path gives a slot back twice or never.
SlotsAreHeld == slots = Cardinality(Holders) /\ slots <= MaxConnections

\* The listener keeps the promise of a cap on connections: nobody is turned
\* away while a slot is free.
Refused == {c \in Conns : stage[c] = "refused"}
SlotsSpec == INSTANCE Slots WITH
  Users <- Conns, Limit <- MaxConnections, holders <- Holders, turnedAway <- Refused
ImplementsSlots == SlotsSpec!Spec

\* The places of a connection's reports that tell of one of the findings.
Told(c, findings) == {i \in DOMAIN told[c] : told[c][i].finding \in findings}

Credentials == {"ftp-auth-bruteforce", "ftp-anonymous-login", "telnet-auth-bruteforce",
                "ssh-auth-bruteforce", "ssh-publickey-probe", "smtp-auth-bruteforce"}
Commands    == {"ftp-command", "telnet-command", "ssh-shell-command"}
Transcripts == {"telnet-session", "ssh-shell-session"}
Scans       == {"ftp-scan", "telnet-scan", "ssh-scan"}

\* Of everything a client sent, up to the cap on lines, each credential is
\* reported once and each command up to the cap, in order, however the lines are
\* split into data events and whether or not the client was told to go. Lines go
\* unreported only behind one at which the handler hung up: FTP keeps them for
\* the next data event, Telnet throws them away, and nobody else has any. A
\* greeted connection leaves one trace when it closes: a scan exactly when it
\* offered no credential but in such lines, and one transcript exactly when a
\* command was captured.
EvidenceIsTold ==
  \A c \in Conns :
    LET commands == Told(c, Commands)
        unread == Plus(lost[c], Meant(session[c], buffer[c]).did)
        ran == did[c].commands - unread.commands
    IN  /\ buffer[c] # <<>> \/ lost[c] # Nil => socket[c] # "open"
        /\ lost[c] # Nil => setting.protocol = "telnet"
        /\ Cardinality(Told(c, Credentials)) = did[c].credentials - unread.credentials
        /\ Cardinality(commands) = IF ran < MaxCommands THEN ran ELSE MaxCommands
        /\ \A i \in commands : told[c][i].carries = Cardinality({k \in commands : k <= i})
        /\ Cardinality(Told(c, Transcripts)) <= 1
        /\ stage[c] = "greeted" /\ c \in gone /\ setting.protocol # "smtp" =>
             /\ Cardinality(Told(c, Scans)) = One(did[c].offered = unread.offered)
             /\ setting.protocol # "ftp" => (Told(c, Transcripts) # {} <=> commands # {})

Mails == {"smtp-spam", "smtp-open-relay", "smtp-user-enumeration", "smtp-auth-bruteforce"}

\* What an SMTP report carries was said in one exchange: a sender, recipients
\* and a body of one mail, the two halves of one credential. No two messages
\* share a part.
MailsStayApart ==
  \A c \in Conns :
    /\ \A i \in Told(c, Mails) : Cardinality(told[c][i].carries) <= 1
    /\ \A i, j \in Told(c, {"smtp-spam"}) : i # j => told[c][i].carries \cap told[c][j].carries = {}

\* A hit is published only once it is recorded, and its total never exceeds
\* the score the store then holds, however many reports of the address overlap.
HitsFollowRecords ==
  /\ \A j \in DOMAIN jobs : jobs[j].at = "published" => jobs[j].total <= score
  /\ score = Cardinality({j \in DOMAIN jobs : jobs[j].at \in {"recorded", "published", "unheard"}})

\* A slot comes back, whatever the client does: the lifetime timer destroys a
\* connection that does not end. (Not for SSH, whose timer only asks.)
SlotsReturn ==
  \A c \in Conns : c \in Holders /\ up /\ ~Ssh ~> c \notin Holders \/ ~up

\* Once close() was called no client can hold it up, wherever its connection
\* was, the gate included. (Not for SSH, whose close() only asks.)
NobodyHoldsClose == listener # "listening" /\ ~Ssh => \A c \in Conns : ~Flowing(c)
=============================================================================
