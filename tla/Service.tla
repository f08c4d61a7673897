------------------------------- MODULE Service -------------------------------
(***************************************************************************)
(* The process that runs the honeypot (service.ts, cli.ts): it reads its     *)
(* file, builds its parts, binds its listeners one after the other, re-reads *)
(* the file on SIGHUP, polls its peers' feeds, and closes on a signal.       *)
(*                                                                         *)
(* A configuration is named by the file it was read from: `booted` is the    *)
(* one the process was built from, `engine` the one whose reconfigurable     *)
(* parts the engine runs, `running` what service.ts calls the configuration  *)
(* in force. A poller is the intel table it was made from; each of its       *)
(* chains of ticks is fetching the feeds in `todo`, or armed.                *)
(***************************************************************************)
EXTENDS Build, IntelFeed

CONSTANTS Files,            \* names of what may be on disk at the path looked for
          Text,             \* file |-> its text
          Envs, EnvOf,      \* names of environments, and the environments
          Starts,           \* environments and files a process is started with
          Argvs,            \* command lines
          Typos,            \* flags the service does not know
          Edits,            \* files an operator writes while the process runs
          UrlOf,            \* feed |-> the URL it is
          Scripts,          \* feed |-> what its peer may answer a fetch with
          Attackers,        \* addresses that attack
          Readable,         \* key files that can be read
          MaxChains, MaxEdits   \* chains of ticks at once, and edits: bounds of the model

-----------------------------------------------------------------------------
(* What a command line selects (cli.ts, parseArgs()): the mode a process     *)
(* runs in, or a refusal. A command line is a sequence of words; one that    *)
(* begins with a hyphen is a member of Flags or of Typos.                    *)
Valued == {"--config", "-c", "--replay", "--url", "--method", "--ip"}
Bare   == {"--print-config", "--check", "--json", "--help", "-h"}
Flags  == Valued \cup Bare \cup {"--explain", "--version", "-v"}

Hyphened(word) == word \in Flags \cup Typos

ServiceCommands == [serve |-> <<>>, check |-> <<"--check">>, config |-> <<"--print-config">>,
                    replay |-> <<"--replay">>, explain |-> <<"--explain">>]

\* The places read as flags: the first, and each that is not the value of the one before.
IsFlag[words \in Seq(STRING), i \in Nat] ==
  i = 1 \/ ~(IsFlag[words, i - 1] /\ words[i - 1] \in Valued \cup {"--explain"} /\ ~Hyphened(words[i]))

\* A flag that takes a value takes the next word, which is no flag; --explain need not.
Understood(words, i) ==
  \/ words[i] \in Bare \cup {"--explain"}
  \/ words[i] \in Valued /\ i < Len(words) /\ ~Hyphened(words[i + 1])

\* The modes in the order runService tries them.
Modes == <<<<"--help", "help">>, <<"-h", "help">>, <<"--print-config", "config">>, <<"--check", "check">>,
           <<"--explain", "explain">>, <<"--replay", "replay">>>>

ParseArgs(words) ==
  LET flags == {i \in DOMAIN words : IsFlag[words, i]}
      asked == SelectSeq(Modes, LAMBDA m : \E i \in flags : words[i] = m[1])
  IN  IF \E i \in flags : ~Understood(words, i) THEN "refused"
      ELSE IF asked = <<>> THEN "serve" ELSE Head(asked)[2]

\* main(): the first word is a command of its own, one of the service's, or a flag of it.
Mode(words) ==
  LET first   == IF words = <<>> THEN "--" ELSE words[1]
      service == IF first \in DOMAIN ServiceCommands THEN ServiceCommands[first] \o Tail(words) ELSE words
  IN  CASE first \in {"--version", "-v", "help"}           -> "help"
        [] first \in {"dashboard", "detectors", "robots"}  -> first
        [] first \in DOMAIN ServiceCommands \cup {"--"}    -> ParseArgs(service)
        [] Hyphened(first) /\ first \notin {"--version", "-v"} -> ParseArgs(service)
        [] OTHER                                           -> "unknown"

-----------------------------------------------------------------------------
ASSUME FilesAssumption == Starts \subseteq Envs \X Files /\ Edits \subseteq Files

VARIABLES
  env, disk, edits,
  phase,          \* "off", "starting", "up", "stuck" after a bind that failed, "gone"
  booted, engine, running,
  named,          \* the sections a SIGHUP has named as needing a restart
  toBind,         \* listeners not yet bound; the first is being bound
  bound, failed,  \* listeners bound, and those that could not be
  poller,         \* [file, stopped], or NoPoller
  chains,
  feed, local,    \* addresses on the blocklist's feed child, and on the blocklist proper
  firewall,       \* addresses handed to the enforcer
  accused,        \* addresses the engine has blocked on its own evidence
  buffered,       \* there are hits the file store has not written
  shutting,       \* the parts still to close, in order
  signalled,      \* a signal to end has come
  exit            \* "no", an exit code, or "crash"

config   == <<booted, engine, running>>
net      == <<toBind, bound, failed>>
polling  == <<poller, chains>>
lists    == <<feed, local, firewall, accused>>
ending   == <<shutting, signalled, exit>>
vars     == <<env, disk, edits, phase, config, named, net, polling, lists, buffered, ending>>

NoPoller == [file |-> "", stopped |-> TRUE]

-----------------------------------------------------------------------------
(* Every file, read under every environment, once.                           *)

Disk(file) == IF Text[file] = Missing THEN <<>> ELSE Head(SearchPaths) :> Text[file]

Loaded == [e \in Envs |-> [file \in Files |-> LoadConfig(Disk(file), Missing, EnvOf[e])]]

Config(file) == Loaded[env][file]

\* What reloading each file that is accepted over each such file comes to.
Plan ==
  LET Accepted(read)   == {file \in Files : read[file] # Refused}
      Over(read, file) == [next \in Accepted(read) |-> PlanReload(read[file], read[next])]
      Between(loaded)  == [e \in Envs |-> [file \in Accepted(loaded[e]) |-> Over(loaded[e], file)]]
  IN  Between(Loaded)

\* What each would make of the engine and of the poller.
Parts ==
  LET Made(c) == IF c = Refused THEN <<>> ELSE <<EngineParts(c), Select(c, "intel")>>
  IN  [e \in Envs |-> [file \in Files |-> Made(Loaded[e][file])]]

Allowlisted == Config(engine)["allowlist"].ips

Alive == phase \in {"starting", "up", "stuck"}

Fetching(chain) == chain.todo # {}

-----------------------------------------------------------------------------
Init ==
  /\ \E start \in Starts : env = start[1] /\ disk = start[2]
  /\ edits = 0 /\ phase = "off"
  /\ booted = "" /\ engine = "" /\ running = ""
  /\ named = {}
  /\ toBind = <<>> /\ bound = {} /\ failed = {}
  /\ poller = NoPoller /\ chains = {}
  /\ feed = {} /\ local = {} /\ firewall = {} /\ accused = {}
  /\ buffered = FALSE
  /\ shutting = <<>> /\ signalled = FALSE /\ exit = "no"

\* A command that ends by itself, and the codes it may end with.
Code(mode, c) ==
  CASE mode = "help"    -> {"0"}
    [] mode = "unknown" -> {"1"}
    [] mode = "refused" -> {"2"}
    [] mode \notin {"help", "unknown", "refused"} /\ c = Refused -> {"2"}
    [] mode = "check" /\ c # Refused     -> {"0", "1"}
    [] mode = "explain" /\ c # Refused   -> {"0", "2"}
    [] mode = "dashboard" /\ c # Refused -> IF DashboardSourceThrows(c, "", "") THEN {"2"} ELSE {"0", "1"}
    [] mode = "serve" /\ c # Refused     -> IF BlocklistThrows(c) \/ HostKeysUnreadable(c, Readable) THEN {"2"} ELSE {"1"}
    [] OTHER -> {"0"}

Serves(mode, c) == mode = "serve" /\ c # Refused /\ ~BuildThrows(c) /\ ~HostKeysUnreadable(c, Readable)

RunOneShot(mode, c) ==
  /\ phase = "off"
  /\ ~Serves(mode, c)
  /\ phase' = "gone"
  /\ exit' \in Code(mode, c)
  /\ UNCHANGED <<env, disk, edits, config, named, net, polling, lists, buffered, shutting, signalled>>

RunService(mode, c) ==
  /\ phase = "off"
  /\ Serves(mode, c)
  /\ phase' = "starting"
  /\ booted' = disk /\ engine' = disk /\ running' = disk
  /\ toBind' = BuildListeners(c)
  /\ poller' = IF c["intel"].enabled THEN [file |-> disk, stopped |-> FALSE] ELSE NoPoller
  /\ UNCHANGED <<env, disk, edits, named, bound, failed, chains, lists, buffered, ending>>

Runs(mode, c) == RunOneShot(mode, c) \/ RunService(mode, c)

-----------------------------------------------------------------------------
(* The poller.                                                               *)

Feeds(file) == Config(file)["intel"].feeds

FreeIds == (1 .. MaxChains) \ {chain.id : chain \in chains}

\* start() of poller p, made from c: a chain whose first tick begins at once, or ends as p was stopped.
Started(p, rest, c) ==
  IF p.stopped THEN rest
  ELSE rest \cup {[id |-> CHOOSE id \in FreeIds : TRUE, file |-> p.file, stopped |-> FALSE, todo |-> c["intel"].feeds]}

\* stop(): the chains of the poller in place see it before their next request.
Stopped(all) == {[chain EXCEPT !.stopped = TRUE] : chain \in all}

\* (Mutant.) A poller that was stopped schedules its next tick.
OnwardRegardless(chain, left) == (chains \ {chain}) \cup {[chain EXCEPT !.todo = left]}

\* What a chain does once a feed is dealt with: the next feed, or the timer, or nothing.
Onward(chain, left) ==
  (chains \ {chain}) \cup (IF chain.stopped THEN {} ELSE {[chain EXCEPT !.todo = left]})

Ingest(ips) ==
  LET target == BuildBlocklist(Config(booted))
  IN  IF target.ingest = "local"
      THEN /\ local' = local \cup ips
           /\ firewall' = IF target.enforced THEN firewall \cup ips ELSE firewall
           /\ UNCHANGED feed
      ELSE /\ feed' = feed \cup ips
           /\ UNCHANGED <<local, firewall>>

\* (Mutant.) The allowlist is the one the poller was made with.
FetchEndsCaptured(chain, source, script) ==
  /\ Alive /\ Fetching(chain) /\ source \in chain.todo
  /\ LET cap == Config(chain.file)["intel"].max_entries
     IN  Ingest(ApplyIocEntries(Fetched(script, UrlOf[source]).ips, Config(chain.file)["allowlist"].ips, cap))
  /\ chains' = Onward(chain, chain.todo \ {source})
  /\ UNCHANGED <<env, disk, edits, phase, config, named, net, poller, accused, buffered, ending>>

\* A fetch ends, one way or the other; what it listed is applied under the allowlist of now.
FetchEnds(chain, source, script) ==
  /\ Alive /\ Fetching(chain) /\ source \in chain.todo
  /\ LET fetched == Fetched(script, UrlOf[source])
         cap     == Config(chain.file)["intel"].max_entries
     IN  Ingest(ApplyIocEntries(fetched.ips, Allowlisted, cap))
  /\ chains' = Onward(chain, chain.todo \ {source})
  /\ UNCHANGED <<env, disk, edits, phase, config, named, net, poller, accused, buffered, ending>>

TimerFires(chain) ==
  /\ Alive /\ ~Fetching(chain)
  /\ chains' = Onward(chain, Feeds(chain.file))
  /\ UNCHANGED <<env, disk, edits, phase, config, named, net, poller, lists, buffered, ending>>

-----------------------------------------------------------------------------
(* Startup, after the configuration is built.                                *)

BindEnds ==
  /\ phase = "starting" /\ toBind # <<>>
  /\ ~(Head(toBind) = "dashboard" /\ DashboardThrows(Config(booted)))
  /\ bound' = bound \cup {Head(toBind)}
  /\ toBind' = Tail(toBind)
  /\ IF Tail(toBind) # <<>> THEN UNCHANGED <<phase, chains>>
     ELSE /\ phase' = "up"
          /\ FreeIds # {}
          /\ chains' = Started(poller, chains, Config(poller.file))
  /\ UNCHANGED <<env, disk, edits, config, named, failed, poller, lists, buffered, ending>>

\* The rejection reaches the entry point, which sets the exit code; what is bound stays.
BindFails ==
  /\ phase = "starting" /\ toBind # <<>>
  /\ failed' = failed \cup {Head(toBind)}
  /\ toBind' = <<>>
  /\ phase' = "stuck"
  /\ UNCHANGED <<env, disk, edits, config, named, bound, polling, lists, buffered, ending>>

\* Nothing is left to wait for: the process ends with the code that was set.
RunsDry ==
  /\ phase = "stuck" /\ bound = {} /\ shutting = <<>> /\ ~\E chain \in chains : Fetching(chain)
  /\ phase' = "gone" /\ exit' = "1"
  /\ UNCHANGED <<env, disk, edits, config, named, net, polling, lists, buffered, shutting, signalled>>

-----------------------------------------------------------------------------
(* Traffic, as far as it matters here.                                       *)

\* The engine blocks an attacker it does not exempt, and records the hit.
Attack(ip, c) ==
  /\ Alive /\ bound # {} /\ ip \notin Allowlisted
  /\ local' = local \cup {ip} /\ accused' = accused \cup {ip}
  /\ firewall' = IF BuildBlocklist(c).enforced THEN firewall \cup {ip} ELSE firewall
  /\ buffered' = (buffered \/ c["store.file"].enabled)
  /\ UNCHANGED <<env, disk, edits, phase, config, named, net, polling, feed, ending>>

Flush ==
  /\ Alive /\ buffered
  /\ buffered' = FALSE
  /\ UNCHANGED <<env, disk, edits, phase, config, named, net, polling, lists, ending>>

-----------------------------------------------------------------------------
(* The operator.                                                             *)

Edit(file) ==
  /\ Alive /\ disk # file /\ edits < MaxEdits
  /\ disk' = file /\ edits' = edits + 1
  /\ UNCHANGED <<env, phase, config, named, net, polling, lists, buffered, ending>>

ReloadFails(c) ==
  /\ Alive /\ c = Refused
  /\ UNCHANGED vars

ReloadPlan == Plan[env][running][disk]

\* Both are logged, and nothing else.
ReloadChangesNothing(c, plan) ==
  /\ Alive /\ c # Refused
  /\ Unchanged(plan)
  /\ UNCHANGED vars

\* A builder that throws does so out of a signal handler, and ends the process.
ReloadThrows(c, plan) == plan.applied # {} /\ (DetectorsThrow(c) \/ PolicyThrows(c))

Reload(c, plan) ==
  /\ Alive /\ c # Refused
  /\ ~Unchanged(plan)
  /\ IF ReloadThrows(c, plan) THEN phase' = "gone" /\ exit' = "crash" ELSE UNCHANGED <<phase, exit>>
  /\ named' = named \cup plan.requiresRestart
  /\ engine' = IF plan.applied # {} THEN disk ELSE engine
  /\ running' = disk
  /\ IF "intel" \in plan.applied /\ poller # NoPoller
     THEN /\ FreeIds # {}
          /\ poller' = [file |-> disk, stopped |-> FALSE]
          /\ chains' = Started(poller', Stopped(chains), c)
     ELSE UNCHANGED polling
  /\ UNCHANGED <<env, disk, edits, booted, net, lists, buffered, shutting, signalled>>

Reloads(c, plan) == ReloadFails(c) \/ ReloadChangesNothing(c, plan) \/ Reload(c, plan)

-----------------------------------------------------------------------------
(* Shutdown.                                                                 *)

\* (Mutant.) A signal during startup finds nothing to close.
ClosesOnceUp == IF phase = "up" THEN <<"server", "notify", "store">> ELSE <<>>

\* The parts this process has, in the order they are closed.
IfOn(part) == IF Listens(Config(booted), part) THEN <<part>> ELSE <<>>

Closes ==
  <<"server">> \o IfOn("port-scan") \o <<"timers">> \o IfOn("smtp") \o IfOn("ssh") \o IfOn("ftp")
  \o IfOn("telnet") \o IfOn("management") \o IfOn("dashboard") \o <<"notify", "store">>

Signal ==
  /\ Alive /\ ~signalled
  /\ signalled' = TRUE
  /\ shutting' = Closes
  /\ UNCHANGED <<env, disk, edits, phase, config, named, net, polling, lists, buffered, exit>>

BeingBound(part) == toBind # <<>> /\ Head(toBind) = part

\* (Mutant.) Any close may reject.
RejectsAny(part) == BOOLEAN

\* Every other listener forgets a server that failed to bind; management keeps it, and
\* closing a server that does not listen rejects.
Rejects(part) ==
  IF part = "management" /\ part \in failed THEN {TRUE}
  ELSE IF part \in {"server", "management"} /\ BeingBound(part) THEN BOOLEAN
  ELSE {FALSE}

\* The closes share one try: after one that rejects the process exits without the rest.
CloseNext ==
  /\ Alive /\ signalled /\ shutting # <<>>
  /\ LET part == Head(shutting) IN
     \E rejected \in Rejects(part) :
       /\ shutting' = IF rejected THEN <<>> ELSE Tail(shutting)
       /\ bound' = IF rejected THEN bound ELSE bound \ {part}
       /\ buffered' = (buffered /\ (rejected \/ part # "store"))
       /\ IF part = "timers" /\ poller # NoPoller
          THEN poller' = [poller EXCEPT !.stopped = TRUE] /\ chains' = Stopped(chains)
          ELSE UNCHANGED polling
       /\ IF shutting' = <<>> THEN phase' = "gone" /\ exit' = "0" ELSE UNCHANGED <<phase, exit>>
  /\ UNCHANGED <<env, disk, edits, config, named, toBind, failed, lists, signalled>>

-----------------------------------------------------------------------------
Polls ==
  \E chain \in chains :
    \/ \E source \in chain.todo : \E script \in Scripts[source] : FetchEnds(chain, source, script)
    \/ TimerFires(chain)

Next ==
  \/ \E argv \in Argvs : Runs(Mode(argv), Config(disk))
  \/ BindEnds \/ BindFails \/ RunsDry
  \/ Polls
  \/ \E ip \in Attackers : Attack(ip, Config(booted))
  \/ Flush
  \/ \E file \in Edits : Edit(file)
  \/ Reloads(Config(disk), ReloadPlan)
  \/ Signal \/ CloseNext

Spec == Init /\ [][Next]_vars

\* A close that has begun ends, one way or the other: the rest may happen or not.
FairSpec == Spec /\ WF_vars(CloseNext)

-----------------------------------------------------------------------------
TypeOK ==
  /\ env \in Envs /\ disk \in Files
  /\ phase \in {"off", "starting", "up", "stuck", "gone"}
  /\ {booted, engine, running} \subseteq Files \cup {""}
  /\ named \subseteq RestartRequired
  /\ bound \cup failed \subseteq {ListenerOrder[i] : i \in DOMAIN ListenerOrder}
  /\ poller.file \in Files \cup {""}
  /\ \A chain \in chains : chain.id \in 1 .. MaxChains /\ chain.todo \subseteq DOMAIN Scripts
  /\ feed \cup local \cup firewall \cup accused \subseteq Addresses \cup Attackers
  /\ exit \in {"no", "0", "1", "2", "crash"}

\* A reload does what it can and says what it cannot: the engine and the poller are made of
\* the configuration the service calls the running one, however they came to it, and a
\* listener that runs with other settings than that has been named to the operator
\* (service.ts:546-576).
ReloadIsHonest ==
  LET InForce(parts) ==
        /\ parts[engine][1] = parts[running][1]
        /\ poller # NoPoller => parts[poller.file][2] = parts[running][2]
      Named(now, then) == \A i \in DOMAIN ListenerOrder :
                            now[ListenerOrder[i]] # then[ListenerOrder[i]] => ListenerOrder[i] \in named
  IN  Alive => InForce(Parts[env]) /\ Named(Config(running), Config(booted))

\* No file takes a running process down: what the schema accepts, the builders accept
\* (service.ts:526 "A bad config must never take the honeypot down").
ServiceSurvivesReload == exit # "crash"

\* A feed never blocks an address that is exempt when it is applied, whichever poller's
\* fetch it is and however long ago it was begun (service.ts:196-201, ingest.ts:197).
FeedSparesAllowlisted ==
  [][\A ip \in feed' \cup local' : ip \in (feed' \ feed) \cup (local' \ local) => ip \notin Allowlisted]_vars

\* A stopped poller asks nothing more: the fetch under way ends, and is its last.
StoppedAsksNothing ==
  [][\A chain \in chains : chain.stopped =>
       \A next \in chains' : next.id = chain.id => next.todo \subseteq chain.todo /\ next.file = chain.file]_vars

\* An orderly end writes what is buffered, unless the management listener did not come up.
FlushedUnlessUnbound ==
  exit = "0" /\ signalled /\ buffered => "management" \in failed \/ toBind # <<>>

\* A signal ends the process, whatever state startup is in and whatever fails to close.
SignalEnds == signalled ~> phase = "gone"

-----------------------------------------------------------------------------
\* build.ts:331: "Flush buffered hits before the process exits". A process that ends on a
\* signal has written what it recorded.
ExitFlushes == exit = "0" /\ signalled => ~buffered
=============================================================================
