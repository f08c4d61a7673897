---------------------------- MODULE SyslogSink ----------------------------
(* The TCP transport of SyslogSink (src/src/notify/syslog.ts).  The sink     *)
(* keeps one socket and one reconnect timer; the socket's events arrive      *)
(* later than what caused them.  A destroyed socket still owes its 'close'   *)
(* event, and the listener tears down whatever socket the sink holds when    *)
(* that event comes, which by then may be another one.                       *)
(* UDP keeps no connection state and is left out.                            *)
EXTENDS Naturals

CONSTANTS Sockets,    \* bound: sockets alive or owing a 'close' event at once
          MaxFaults,  \* bound: connections the collector refuses or loses
          NoSocket

ASSUME SyslogAssumption == NoSocket \notin Sockets /\ MaxFaults \in Nat

VARIABLES tcp,         \* the socket the sink holds, or NoSocket
          sock,        \* state of each socket
          ready,       \* tcpReady
          stalled,     \* the held socket has more than maxQueuedBytes unflushed
          reconnect,   \* a reconnect timer is set
          outage,      \* outageReported
          sinkClosed,  \* close() was called
          started,     \* the service called start()
          faults       \* faults so far

syslogVars == <<tcp, sock, ready, stalled, reconnect, outage, sinkClosed, started, faults>>

\* "doomed" is destroyed and "ended" was ended by the collector: the 'close'
\* event of both is still to come.
SocketStates == {"none", "dialling", "open", "ended", "doomed"}

Usable(s) == sock[s] \in {"dialling", "open", "ended"}

SyslogInit ==
  /\ tcp = NoSocket
  /\ sock = [s \in Sockets |-> "none"]
  /\ ready = FALSE /\ stalled = FALSE /\ reconnect = FALSE
  /\ outage = FALSE /\ sinkClosed = FALSE
  /\ started = FALSE /\ faults = 0

(* ------------------------------- mutants ------------------------------- *)

\* A closed sink schedules a reconnect too.
RearmedAlways == TRUE

\* Only a socket that is ready counts as lost.
RearmedReady == ~sinkClosed /\ ready

(* ---------------------------- the connection ---------------------------- *)

Spare == CHOOSE s \in Sockets : sock[s] = "none"

\* connectTcp(): dials when the sink is open and holds no socket.
Dial ==
  IF ~sinkClosed /\ tcp = NoSocket
  THEN /\ \E s \in Sockets : sock[s] = "none"
       /\ tcp' = Spare
       /\ sock' = [sock EXCEPT ![Spare] = "dialling"]
  ELSE UNCHANGED <<tcp, sock>>

\* The held socket destroyed, where `after` is what an event made of the sockets.
Doomed(after) ==
  IF tcp # NoSocket /\ after[tcp] # "none" THEN [after EXCEPT ![tcp] = "doomed"] ELSE after

Rearmed == ~sinkClosed

\* teardownTcp(): lets go of the held socket and schedules a reconnect unless
\* one is scheduled.
Teardown(after) ==
  /\ tcp' = NoSocket
  /\ sock' = Doomed(after)
  /\ ready' = FALSE /\ stalled' = FALSE
  /\ reconnect' = (reconnect \/ Rearmed)
  /\ UNCHANGED <<outage, sinkClosed, started>>

\* start(): the service dials once its listeners are up.
StartSink ==
  /\ ~started /\ ~sinkClosed
  /\ started' = TRUE
  /\ Dial
  /\ UNCHANGED <<ready, stalled, reconnect, outage, sinkClosed, faults>>

\* send(): dials if nothing is held, then writes if the socket is ready and
\* draining; else the message is dropped, and the first of an outage reported.
Send ==
  IF sinkClosed THEN UNCHANGED syslogVars
  ELSE /\ Dial
       /\ outage' = (outage \/ ~ready \/ stalled)
       /\ UNCHANGED <<ready, stalled, reconnect, sinkClosed, started, faults>>

Connects(s) ==
  /\ sock[s] = "dialling"
  /\ sock' = [sock EXCEPT ![s] = "open"]
  /\ ready' = TRUE /\ outage' = FALSE
  /\ UNCHANGED <<tcp, stalled, reconnect, sinkClosed, started, faults>>

\* An 'error' event: the runtime has destroyed the socket, 'close' follows.
Errors(s) ==
  /\ Usable(s) /\ faults < MaxFaults
  /\ faults' = faults + 1
  /\ Teardown([sock EXCEPT ![s] = "doomed"])

\* The collector ends the connection; writes still go out until 'close'.
HangsUp(s) ==
  /\ sock[s] = "open" /\ faults < MaxFaults
  /\ faults' = faults + 1
  /\ sock' = [sock EXCEPT ![s] = "ended"]
  /\ UNCHANGED <<tcp, ready, stalled, reconnect, outage, sinkClosed, started>>

\* A 'close' event, of the held socket or of one destroyed before.
Closes(s) ==
  /\ sock[s] \in {"ended", "doomed"}
  /\ Teardown([sock EXCEPT ![s] = "none"])
  /\ UNCHANGED faults

\* The collector stops reading, or reads on.
Stalls ==
  /\ ready
  /\ stalled' = ~stalled
  /\ UNCHANGED <<tcp, sock, ready, reconnect, outage, sinkClosed, started, faults>>

\* The event loop runs the 'close' events of a turn before any timer.
TimerFires ==
  /\ reconnect /\ \A s \in Sockets : sock[s] # "doomed"
  /\ reconnect' = FALSE
  /\ Dial
  /\ UNCHANGED <<ready, stalled, outage, sinkClosed, started, faults>>

CloseSink ==
  /\ sinkClosed' = TRUE
  /\ tcp' = NoSocket
  /\ sock' = Doomed(sock)
  /\ ready' = FALSE /\ stalled' = FALSE /\ reconnect' = FALSE
  /\ UNCHANGED <<outage, started, faults>>

\* What the service and the event loop owe the sink, and what the collector
\* may do to it.
Progress ==
  \/ StartSink
  \/ TimerFires
  \/ \E s \in Sockets : Connects(s) \/ Closes(s)

Trouble ==
  \/ Stalls
  \/ \E s \in Sockets : Errors(s) \/ HangsUp(s)

(* ------------------------------ properties ------------------------------ *)

\* No event handler ever leaks a socket or leaves the sink believing in a dead
\* one: the held socket is the only usable one, and tcpReady is true exactly
\* when it has connected, whatever 'close' events are still to come.
SocketOwned ==
  /\ \A s \in Sockets : Usable(s) <=> s = tcp
  /\ ready <=> (tcp # NoSocket /\ sock[tcp] \in {"open", "ended"})

\* Once started the sink always has a way back to the collector: a socket, or
\* a timer that will dial one.  Once closed it holds neither, so no late event
\* reopens the transport.
AlwaysAWayBack ==
  IF sinkClosed THEN tcp = NoSocket /\ ~reconnect
                ELSE started => tcp # NoSocket \/ reconnect

\* A collector that comes back is found again: once the collector stops
\* failing, the sink is connected in the end, or closed.
Reconnects == started ~> (ready \/ sinkClosed)
==========================================================================
