------------------------------ MODULE Dialogue ------------------------------
(* The dialogues of the four protocol honeypots (src/src/protocols/): what   *)
(* they share, their limits and what handling one line of the client comes   *)
(* to, and then each of them.                                                *)
EXTENDS Naturals, Sequences

CONSTANTS MaxAttempts,  \* maxAuthAttempts
          AcceptOn,     \* acceptOnAttempt
          MaxCommands,  \* maxCommands
          MaxLines      \* MAX_LINES of one connection

ASSUME DialogueAssumption ==
  /\ MaxAttempts \in Nat \ {0} /\ AcceptOn \in 1..MaxAttempts
  /\ MaxCommands \in Nat \ {0} /\ MaxLines \in Nat

\* A finding, and what of the session its report carries: the number of
\* commands in the transcript, or the parts of a mail exchange.
Incident(finding, carries) == [finding |-> finding, carries |-> carries]

\* The session after a line, the findings reported, and what the handler asks
\* of the socket: to stay "open", to be "ended", or "destroyed".
Reply(session, told, socket) == [session |-> session, told |-> told, socket |-> socket]

Says(session) == Reply(session, <<>>, "open")

\* The commands captured stop at the cap.
Captures(session) == session.commands < MaxCommands

----------------------------------------------------------------------------
(* The dialogue of FtpHoneypot (src/src/protocols/ftp/honeypot.ts) by lines. *)

FtpNew == [lines |-> 0, anonymous |-> FALSE, attempts |-> 0, credentialSeen |-> FALSE,
           loggedIn |-> FALSE, commands |-> 0]

\* One of each kind the handler tells apart: NOOP for what needs no login, PWD
\* for what needs one and is not captured, CWD for what is, RETR for a path
\* that escapes the tree, PORT for an address that is not the client's.
FtpLines == {"USER", "USER anonymous", "PASS", "QUIT", "NOOP", "PWD", "CWD", "RETR", "PORT"}

FtpPass(s, interactive) ==
  LET t == [s EXCEPT !.credentialSeen = TRUE, !.attempts = @ + 1]
      told == <<Incident(IF s.anonymous THEN "ftp-anonymous-login" ELSE "ftp-auth-bruteforce",
                         s.commands)>>
  IN  IF interactive /\ t.attempts >= AcceptOn
      THEN Reply([t EXCEPT !.loggedIn = TRUE], told, "open")
      ELSE Reply(t, told, IF t.attempts >= MaxAttempts THEN "ended" ELSE "open")

\* inspect(): before the login gate.
FtpInspects(s, line) ==
  CASE line = "RETR" -> <<Incident("ftp-traversal", s.commands)>>
    [] line = "PORT" -> <<Incident("ftp-bounce", s.commands)>>
    [] OTHER -> <<>>

FtpCommand(s, line) ==
  LET captured == s.loggedIn /\ line \in {"CWD", "RETR"} /\ Captures(s)
      t == [s EXCEPT !.commands = IF captured THEN @ + 1 ELSE @]
  IN  Reply(t,
            FtpInspects(s, line)
              \o IF captured THEN <<Incident("ftp-command", t.commands)>> ELSE <<>>,
            IF t.loggedIn /\ ~Captures(t) THEN "ended" ELSE "open")

FtpLine(s, line, interactive) ==
  LET t == [s EXCEPT !.lines = @ + 1]
  IN  CASE t.lines > MaxLines -> Reply(t, <<>>, "destroyed")
        [] t.lines <= MaxLines /\ line \in {"USER", "USER anonymous"} ->
             Says([t EXCEPT !.anonymous = (line = "USER anonymous")])
        [] t.lines <= MaxLines /\ line = "PASS" -> FtpPass(t, interactive)
        [] t.lines <= MaxLines /\ line = "QUIT" -> Reply(t, <<>>, "ended")
        [] OTHER -> FtpCommand(t, line)

\* What the close of the connection reports.
FtpCloses(s) == IF s.credentialSeen THEN <<>> ELSE <<Incident("ftp-scan", s.commands)>>

----------------------------------------------------------------------------
(* The dialogue of TelnetHoneypot (src/src/protocols/telnet/honeypot.ts) by  *)
(* submitted lines.                                                          *)

TelnetNew == [lines |-> 0, mode |-> "login", attempts |-> 0, credentialSeen |-> FALSE,
              commands |-> 0, emitted |-> FALSE]

TelnetLines == {"text", "", "exit"}

TelnetLogin(s, line) ==
  Says([s EXCEPT !.mode = IF line = "" THEN "login" ELSE "password"])

TelnetPassword(s, interactive) ==
  LET t == [s EXCEPT !.credentialSeen = TRUE, !.attempts = @ + 1]
      told == <<Incident("telnet-auth-bruteforce", s.commands)>>
  IN  CASE interactive /\ t.attempts >= AcceptOn ->
             Reply([t EXCEPT !.mode = "shell"], told, "open")
        [] ~(interactive /\ t.attempts >= AcceptOn) /\ t.attempts >= MaxAttempts ->
             Reply(t, told, "ended")
        [] OTHER -> Reply([t EXCEPT !.mode = "login"], told, "open")

\* emitSession(): once, and never an empty transcript.
TelnetTranscript(s) ==
  IF s.commands = 0 \/ s.emitted THEN <<>> ELSE <<Incident("telnet-session", s.commands)>>

TelnetEmitted(s) == [s EXCEPT !.emitted = @ \/ s.commands # 0]

TelnetShell(s, line) ==
  LET captured == line # "" /\ Captures(s)
      t == [s EXCEPT !.commands = IF captured THEN @ + 1 ELSE @]
      told == IF captured THEN <<Incident("telnet-command", t.commands)>> ELSE <<>>
  IN  IF line = "exit" \/ ~Captures(t)
      THEN Reply(TelnetEmitted(t), told \o TelnetTranscript(t), "ended")
      ELSE Reply(t, told, "open")

TelnetLine(s, line, interactive) ==
  LET t == [s EXCEPT !.lines = @ + 1]
  IN  CASE t.lines > MaxLines -> Reply(t, <<>>, "destroyed")
        [] t.lines <= MaxLines /\ s.mode = "login" -> TelnetLogin(t, line)
        [] t.lines <= MaxLines /\ s.mode = "password" -> TelnetPassword(t, interactive)
        [] OTHER -> TelnetShell(t, line)

TelnetCloses(s) ==
  IF s.credentialSeen THEN TelnetTranscript(s) ELSE <<Incident("telnet-scan", s.commands)>>

----------------------------------------------------------------------------
(* The dialogue of SshHoneypot (src/src/protocols/ssh/honeypot.ts) by the    *)
(* events of its ssh2 connection; the transport is the library's.            *)

\* transcript is shared by every channel of the connection.
SshNew == [mode |-> "auth", attempts |-> 0, credentialSeen |-> FALSE,
           shell |-> FALSE, commands |-> 0, emitted |-> FALSE]

SshLines(s) ==
  IF s.mode = "auth" THEN {"none", "password", "publickey", "keyboard-interactive"}
  ELSE {"exec"} \cup IF s.shell THEN {"command", "exit", "close"} ELSE {"shell"}

SshTranscript(s) ==
  IF s.commands = 0 \/ s.emitted THEN <<>> ELSE <<Incident("ssh-shell-session", s.commands)>>

SshEmitted(s) == [s EXCEPT !.emitted = @ \/ s.commands # 0]

SshAuthentication(s, method, interactive) ==
  LET t == [s EXCEPT !.credentialSeen = TRUE, !.attempts = @ + 1]
      told == CASE method = "password"  -> <<Incident("ssh-auth-bruteforce", s.commands)>>
                [] method = "publickey" -> <<Incident("ssh-publickey-probe", s.commands)>>
                [] OTHER -> <<>>
  IN  CASE method = "none" -> Says(s)
        [] method = "keyboard-interactive" -> Says(t)
        [] method = "password" /\ interactive /\ t.attempts >= AcceptOn ->
             Reply([t EXCEPT !.mode = "ready"], told, "open")
        [] OTHER -> Reply(t, told, IF t.attempts >= MaxAttempts THEN "ended" ELSE "open")

\* capture(), then emitSession() where the handler calls it.
SshCaptures(s, emits) ==
  LET t == [s EXCEPT !.commands = IF Captures(s) THEN @ + 1 ELSE @]
      told == IF Captures(s) THEN <<Incident("ssh-shell-command", t.commands)>> ELSE <<>>
  IN  IF emits THEN Reply(SshEmitted(t), told \o SshTranscript(t), "open")
      ELSE Reply(t, told, "open")

SshChannel(s, event) ==
  CASE event = "shell"   -> Says([s EXCEPT !.shell = TRUE])
    [] event = "command" -> SshCaptures(s, FALSE)
    [] event = "close"   -> Reply([SshEmitted(s) EXCEPT !.shell = FALSE], SshTranscript(s), "open")
    [] OTHER -> SshCaptures(s, TRUE)

SshLine(s, event, interactive) ==
  IF s.mode = "auth" THEN SshAuthentication(s, event, interactive) ELSE SshChannel(s, event)

\* An open shell's stream closes with its connection.
SshCloses(s) ==
  (IF s.shell THEN SshTranscript(s) ELSE <<>>)
    \o IF s.credentialSeen THEN <<>> ELSE <<Incident("ssh-scan", s.commands)>>

----------------------------------------------------------------------------
(* The dialogue of SmtpHoneypot (src/src/protocols/smtp/honeypot.ts) by      *)
(* lines.  What a session holds of what the client said is the number of the *)
(* exchange it was said in: exchange counts the AUTH commands and mail the   *)
(* transactions, which MAIL, RSET and a delivered message end.               *)

Nothing == 0  \* undefined; the first exchange is 1

SmtpNew == [lines |-> 0, mode |-> "commands", commands |-> 0,
            from |-> Nothing, fromLocal |-> FALSE, rcptTo |-> {}, message |-> {},
            user |-> Nothing, exchange |-> 1, mail |-> 1]

\* MAIL and RCPT with an external domain, or with a local one (or none); NOOP
\* for what changes nothing, and for a line of text where one is expected.
SmtpLines == {"AUTH", "AUTH PLAIN token", "MAIL", "MAIL local", "RCPT", "RCPT local",
              "DATA", ".", "VRFY", "RSET", "NOOP", "QUIT"}

\* The session context of a report: of the mail, or of the credentials.
MailContext(s) == (s.rcptTo \cup s.message \cup {s.from}) \ {Nothing}

\* Mutant: the recipients of a delivered message stay.
SmtpNextMailKeepsRecipients(s) == [s EXCEPT !.from = Nothing, !.message = {}, !.mail = @ + 1]

SmtpNextMail(s) == [s EXCEPT !.from = Nothing, !.rcptTo = {}, !.message = {}, !.mail = @ + 1]

SmtpData(s, line) ==
  IF line = "."
  THEN Reply([SmtpNextMail(s) EXCEPT !.mode = "commands"],
             <<Incident("smtp-spam", MailContext(s))>>, "open")
  ELSE Says([s EXCEPT !.message = @ \cup {s.mail}])

SmtpUser(s) == Says([s EXCEPT !.user = s.exchange, !.mode = "auth-pass"])

SmtpPass(s) ==
  Reply([s EXCEPT !.mode = "commands", !.exchange = @ + 1],
        <<Incident("smtp-auth-bruteforce", {s.user, s.exchange})>>, "open")

SmtpRelays(s, line) == line = "RCPT" /\ (s.from = Nothing \/ ~s.fromLocal)

SmtpRcpt(s, line) ==
  LET t == [s EXCEPT !.rcptTo = @ \cup {s.mail}]
  IN  Reply(t, IF SmtpRelays(s, line) THEN <<Incident("smtp-open-relay", MailContext(t))>> ELSE <<>>,
            "open")

SmtpCommand(s, line) ==
  CASE line = "AUTH" -> Says([s EXCEPT !.mode = "auth-user"])
    [] line = "AUTH PLAIN token" -> SmtpPass([s EXCEPT !.user = s.exchange])
    [] line \in {"MAIL", "MAIL local"} ->
         Says([s EXCEPT !.mail = @ + 1, !.from = s.mail + 1, !.fromLocal = (line = "MAIL local"),
                        !.rcptTo = {}])
    [] line \in {"RCPT", "RCPT local"} -> SmtpRcpt(s, line)
    [] line = "DATA" -> Says([s EXCEPT !.mode = IF s.rcptTo = {} THEN "commands" ELSE "data"])
    [] line = "VRFY" -> Reply(s, <<Incident("smtp-user-enumeration", MailContext(s))>>, "open")
    [] line = "RSET" -> Says(SmtpNextMail(s))
    [] line = "QUIT" -> Reply(s, <<>>, "ended")
    [] OTHER -> Says(s)

SmtpLine(s, line) ==
  LET t == [s EXCEPT !.lines = @ + 1]
  IN  CASE t.lines > MaxLines -> Reply(t, <<>>, "destroyed")
        [] t.lines <= MaxLines /\ s.mode = "data" -> SmtpData(t, line)
        [] t.lines <= MaxLines /\ s.mode = "auth-user" -> SmtpUser(t)
        [] t.lines <= MaxLines /\ s.mode = "auth-pass" -> SmtpPass(t)
        [] OTHER -> SmtpCommand(t, line)
=============================================================================
