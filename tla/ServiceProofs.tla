----------------------------- MODULE ServiceProofs -----------------------------
(***************************************************************************)
(* Theorems about Service for every set of files, environments, command     *)
(* lines, feeds and attackers.                                              *)
(***************************************************************************)
EXTENDS Service, SequenceTheorems, TLAPS

-----------------------------------------------------------------------------
(* What makes FlushedUnlessUnbound inductive: whatever listeners a process     *)
(* has, the store is the last thing it closes, and a process that has ended    *)
(* does nothing more.                                                          *)
PartNames ==
  {"server", "port-scan", "timers", "smtp", "ssh", "ftp", "telnet", "management", "dashboard",
   "notify", "store"}

StoreLast(parts) ==
  parts \in Seq(PartNames) /\ (parts # <<>> => parts[Len(parts)] = "store")

FlushInv ==
  /\ phase = "off" => ~signalled
  /\ exit # "no" => phase = "gone"
  /\ StoreLast(shutting)
  /\ FlushedUnlessUnbound

LEMMA Singleton == ASSUME NEW S, NEW x \in S PROVE <<x>> \in Seq(S) /\ Len(<<x>>) = 1
OBVIOUS

LEMMA ClosesStoreLast == StoreLast(Closes)
<1> DEFINE end == <<"notify", "store">>
           Some == Seq(PartNames)
<1>1. ASSUME NEW part \in PartNames PROVE IfOn(part) \in Some
  <2>1. <<part>> \in Some /\ <<>> \in Some
    BY Singleton, EmptySeq
  <2> QED
    BY <2>1, Zenon DEF IfOn
<1>2. /\ \A part \in {"port-scan", "smtp", "ssh", "ftp", "telnet", "management", "dashboard"} :
           part \in PartNames
      /\ "server" \in PartNames /\ "timers" \in PartNames
      /\ "notify" \in PartNames /\ "store" \in PartNames
  BY DEF PartNames
<1>3. <<"server">> \in Some /\ <<"timers">> \in Some
  BY <1>2, Singleton
<1>4. end \in Some /\ Len(end) = 2 /\ end[2] = "store"
  BY <1>2
<1>5. \A s, t \in Some : s \o t \in Some
  BY ConcatProperties
<1> HIDE DEF end, Some
<1>6. PICK front \in Some : Closes = front \o end
  BY <1>1, <1>2, <1>3, <1>5 DEF Closes, end
<1>7. /\ front \o end \in Seq(PartNames) /\ Len(front \o end) = Len(front) + 2
      /\ (front \o end)[Len(front) + 2] = "store"
  <2>1. front \in Seq(PartNames) /\ Len(front) \in Nat
    BY DEF Some
  <2> QED
    BY <1>4, <2>1, ConcatProperties DEF Some
<1> QED
  BY <1>6, <1>7 DEF StoreLast

LEMMA FlushInvNext == FlushInv /\ [Next]_vars => FlushInv'
<1> SUFFICES ASSUME FlushInv, [Next]_vars PROVE FlushInv'
  OBVIOUS
<1> USE DEF FlushInv, FlushedUnlessUnbound, Alive, net, lists, polling, config, ending
<1>1. ASSUME NEW mode, NEW c, Runs(mode, c) PROVE FlushInv'
  BY <1>1 DEF Runs, RunOneShot, RunService
<1>2. CASE BindEnds \/ BindFails \/ RunsDry
  BY <1>2 DEF BindEnds, BindFails, RunsDry
<1>3. CASE Polls
  BY <1>3 DEF Polls, FetchEnds, TimerFires
<1>4. ASSUME NEW ip, Attack(ip, Config(booted)) PROVE FlushInv'
  BY <1>4 DEF Attack
<1>5. CASE Flush
  BY <1>5 DEF Flush
<1>6. ASSUME NEW file, Edit(file) PROVE FlushInv'
  BY <1>6 DEF Edit
<1>7. CASE Reloads(Config(disk), ReloadPlan)
  BY <1>7 DEF Reloads, ReloadFails, ReloadChangesNothing, Reload, vars
<1>8. CASE Signal
  BY <1>8, ClosesStoreLast DEF Signal
<1>9. CASE CloseNext
  <2> DEFINE part == Head(shutting)
  <2>1. PICK rejected \in Rejects(part) :
          /\ shutting' = IF rejected THEN <<>> ELSE Tail(shutting)
          /\ buffered' = (buffered /\ (rejected \/ part # "store"))
          /\ IF shutting' = <<>> THEN phase' = "gone" /\ exit' = "0" ELSE UNCHANGED <<phase, exit>>
    BY <1>9 DEF CloseNext
  <2>2. /\ phase \in {"starting", "up", "stuck"} /\ signalled /\ shutting # <<>>
        /\ UNCHANGED <<toBind, failed, signalled>>
    BY <1>9 DEF CloseNext
  <2>3. rejected => "management" \in failed \/ toBind # <<>>
    BY <2>1 DEF Rejects, BeingBound
  <2>4. Tail(shutting) = <<>> => part = "store"
    <3>1. shutting \in Seq(PartNames) /\ shutting # <<>> /\ shutting[Len(shutting)] = "store"
      BY <2>2 DEF StoreLast
    <3>2. Tail(shutting) = <<>> => Len(shutting) = 1
      <4>1. Len(Tail(shutting)) = Len(shutting) - 1 /\ Len(shutting) \in Nat
        BY <3>1, HeadTailProperties
      <4>2. ASSUME Tail(shutting) = <<>> PROVE Len(Tail(shutting)) = 0
        BY <4>2, EmptySeq
      <4> QED
        BY <4>1, <4>2
    <3>3. part = shutting[1]
      BY <3>1
    <3> HIDE DEF part
    <3> QED
      BY <3>1, <3>2, <3>3
  <2>5. StoreLast(<<>>) /\ StoreLast(Tail(shutting))
    BY <2>2 DEF StoreLast
  <2> QED
    BY <2>1, <2>2, <2>3, <2>4, <2>5
<1>10. CASE UNCHANGED vars
  BY <1>10 DEF vars
<1> QED
  BY <1>1, <1>2, <1>3, <1>4, <1>5, <1>6, <1>7, <1>8, <1>9, <1>10 DEF Next

(* An orderly end writes what is buffered (cli.ts 235-252, build.ts 331): the  *)
(* store is closed last, and a close before it rejects only for the management *)
(* listener that did not come up or for one that is still being bound.         *)
THEOREM OrderlyEndFlushes == Spec => []FlushedUnlessUnbound
<1>1. Init => FlushInv
  <2>1. StoreLast(<<>>)
    BY DEF StoreLast
  <2> QED
    BY <2>1 DEF Init, FlushInv, FlushedUnlessUnbound
<1>2. FlushInv => FlushedUnlessUnbound
  BY DEF FlushInv
<1> QED
  BY <1>1, <1>2, FlushInvNext, PTL DEF Spec

-----------------------------------------------------------------------------
(* A feed contributes addresses, none of them allowlisted.                     *)
LEMMA FeedIsFiltered ==
  ASSUME NEW ips, NEW allowlist, NEW cap, NEW ip \in ApplyIocEntries(ips, allowlist, cap)
  PROVE  ip \in Addresses \ allowlist
BY DEF ApplyIocEntries, Eligible

LEMMA IngestSpares ==
  ASSUME NEW ips, ips \cap Allowlisted = {}, Ingest(ips)
  PROVE  \A ip \in (feed' \ feed) \cup (local' \ local) : ip \notin Allowlisted
<1>1. (feed' \ feed) \cup (local' \ local) \subseteq ips
  BY Zenon DEF Ingest
<1> QED
  BY <1>1

(* What a feed lists is applied under the allowlist of the moment it is        *)
(* applied (service.ts 196-201, ingest.ts 197): neither a feed nor an attack   *)
(* ever puts an address on a list that is exempt then.                         *)
THEOREM ListsSpareAllowlisted == Spec => FeedSparesAllowlisted
<1> DEFINE Spares == \A ip \in feed' \cup local' :
                       ip \in (feed' \ feed) \cup (local' \ local) => ip \notin Allowlisted
<1>1. ASSUME [Next]_vars PROVE Spares
  <2> USE DEF lists, polling, net, config, ending
  <2>1. ASSUME NEW mode, NEW c, Runs(mode, c) PROVE Spares
    BY <2>1 DEF Runs, RunOneShot, RunService
  <2>2. CASE BindEnds \/ BindFails \/ RunsDry
    BY <2>2 DEF BindEnds, BindFails, RunsDry
  <2>3. ASSUME NEW chain, NEW source, NEW script, FetchEnds(chain, source, script) PROVE Spares
    <3>1. PICK ips, cap : Ingest(ApplyIocEntries(ips, Allowlisted, cap))
      BY <2>3, Zenon DEF FetchEnds
    <3> QED
      BY <3>1, FeedIsFiltered, IngestSpares
  <2>4. ASSUME NEW chain, TimerFires(chain) PROVE Spares
    BY <2>4 DEF TimerFires
  <2>5. ASSUME NEW ip, Attack(ip, Config(booted)) PROVE Spares
    BY <2>5 DEF Attack
  <2>6. CASE Flush
    BY <2>6 DEF Flush
  <2>7. ASSUME NEW file, Edit(file) PROVE Spares
    BY <2>7 DEF Edit
  <2>8. CASE Reloads(Config(disk), ReloadPlan)
    BY <2>8 DEF Reloads, ReloadFails, ReloadChangesNothing, Reload, vars
  <2>9. CASE Signal \/ CloseNext
    BY <2>9 DEF Signal, CloseNext
  <2>10. CASE UNCHANGED vars
    BY <2>10 DEF vars
  <2> QED
    BY <1>1, <2>1, <2>2, <2>3, <2>4, <2>5, <2>6, <2>7, <2>8, <2>9, <2>10 DEF Next, Polls
<1>2. [Next]_vars => [Spares]_vars
  BY <1>1
<1> QED
  BY <1>2, PTL DEF Spec, FeedSparesAllowlisted

-----------------------------------------------------------------------------
(* What makes StoppedAsksNothing inductive: a chain of ticks is known by its   *)
(* id, and a new one never takes the id of one that still runs.                *)
IsChain(c) == c = [id |-> c.id, file |-> c.file, stopped |-> c.stopped, todo |-> c.todo]

ChainInv ==
  /\ \A c \in chains : IsChain(c)
  /\ \A c, d \in chains : c.id = d.id => c = d

\* What a step may do to the chains: later ones come of earlier ones, or are new.
Later(next) ==
  \A c \in chains : c.stopped =>
    \A d \in next : d.id = c.id => d.todo \subseteq c.todo /\ d.file = c.file

LEMMA OnwardKeeps ==
  ASSUME ChainInv, NEW chain \in chains, NEW left,
         chain.stopped => left \subseteq chain.todo,
         chains' = Onward(chain, left)
  PROVE  ChainInv' /\ Later(chains')
<1> DEFINE next == [id |-> chain.id, file |-> chain.file, stopped |-> chain.stopped, todo |-> left]
<1>1. [chain EXCEPT !.todo = left] = next
  BY DEF ChainInv, IsChain
<1>2. \A d \in chains' : (d \in chains /\ d # chain) \/ d = next
  BY <1>1 DEF Onward
<1>3. IsChain(next) /\ next.id = chain.id /\ next.file = chain.file /\ next.todo = left
  BY DEF IsChain
<1> HIDE DEF next
<1> QED
  BY <1>2, <1>3 DEF ChainInv, Later

\* stop() changes nothing of a chain but the flag it looks at.
LEMMA StoppedChains ==
  ASSUME ChainInv, NEW d \in Stopped(chains)
  PROVE  /\ IsChain(d)
         /\ \E c \in chains : d = [id |-> c.id, file |-> c.file, stopped |-> TRUE, todo |-> c.todo]
<1>1. PICK c \in chains : d = [c EXCEPT !.stopped = TRUE]
  BY DEF Stopped
<1>2. d = [id |-> c.id, file |-> c.file, stopped |-> TRUE, todo |-> c.todo]
  <2>1. PICK i, f, s, t : c = [id |-> i, file |-> f, stopped |-> s, todo |-> t]
    BY DEF ChainInv, IsChain
  <2>2. c.id = i /\ c.file = f /\ c.todo = t
    BY <2>1
  <2>3. \A x : [[id |-> i, file |-> f, stopped |-> s, todo |-> t] EXCEPT !.stopped = x]
                = [id |-> i, file |-> f, stopped |-> x, todo |-> t]
    OBVIOUS
  <2> QED
    BY <1>1, <2>1, <2>2, <2>3, Zenon
<1> QED
  BY <1>2 DEF IsChain

LEMMA StoppedKeeps ==
  ASSUME ChainInv
  PROVE  /\ \A d \in Stopped(chains) : IsChain(d)
         /\ \A d, e \in Stopped(chains) : d.id = e.id => d = e
         /\ Later(Stopped(chains))
         /\ {d.id : d \in Stopped(chains)} = {c.id : c \in chains}
<1>1. ASSUME NEW d \in Stopped(chains)
      PROVE  \E c \in chains : /\ d = [id |-> c.id, file |-> c.file, stopped |-> TRUE, todo |-> c.todo]
                               /\ d.id = c.id /\ d.file = c.file /\ d.todo = c.todo
  BY StoppedChains
<1>2. ASSUME NEW c \in chains PROVE \E d \in Stopped(chains) : d.id = c.id
  <2>1. [c EXCEPT !.stopped = TRUE].id = c.id
    BY DEF ChainInv, IsChain
  <2> QED
    BY <2>1 DEF Stopped
<1>3. ASSUME NEW d \in Stopped(chains), NEW e \in Stopped(chains), d.id = e.id PROVE d = e
  <2>1. PICK c \in chains : /\ d = [id |-> c.id, file |-> c.file, stopped |-> TRUE, todo |-> c.todo]
                            /\ d.id = c.id
    BY <1>1
  <2>2. PICK b \in chains : /\ e = [id |-> b.id, file |-> b.file, stopped |-> TRUE, todo |-> b.todo]
                            /\ e.id = b.id
    BY <1>1
  <2>3. b = c
    BY <1>3, <2>1, <2>2 DEF ChainInv
  <2> QED
    BY <2>1, <2>2, <2>3
<1>4. Later(Stopped(chains))
  BY <1>1 DEF ChainInv, Later
<1>5. {d.id : d \in Stopped(chains)} = {c.id : c \in chains}
  BY <1>1, <1>2
<1> QED
  BY <1>3, <1>4, <1>5, StoppedChains

\* start() adds at most one chain, under an id that none of the others has.
LEMMA StartedKeeps ==
  ASSUME ChainInv, FreeIds # {}, NEW p, NEW c, NEW rest,
         \A d \in rest : IsChain(d), \A d, e \in rest : d.id = e.id => d = e,
         {d.id : d \in rest} = {b.id : b \in chains}, Later(rest),
         chains' = Started(p, rest, c)
  PROVE  ChainInv' /\ Later(chains')
<1>1. CASE p.stopped
  BY <1>1 DEF Started, ChainInv
<1>2. CASE ~p.stopped
  <2> DEFINE fresh == CHOOSE id \in FreeIds : TRUE
             new == [id |-> fresh, file |-> p.file, stopped |-> FALSE, todo |-> c["intel"].feeds]
  <2>1. fresh \in FreeIds
    OBVIOUS
  <2>2. new.id = fresh /\ IsChain(new)
    BY DEF IsChain
  <2>3. \A d \in rest : d.id # fresh
    BY <2>1 DEF FreeIds
  <2>4. \A b \in chains : b.id # fresh
    BY <2>1 DEF FreeIds
  <2>5. chains' = rest \cup {new}
    BY <1>2 DEF Started
  <2> HIDE DEF fresh, new
  <2> QED
    BY <2>2, <2>3, <2>4, <2>5 DEF ChainInv, Later
<1> QED
  BY <1>1, <1>2

LEMMA ChainInvNext == ChainInv /\ [Next]_vars => ChainInv' /\ Later(chains')
<1> SUFFICES ASSUME ChainInv, [Next]_vars PROVE ChainInv' /\ Later(chains')
  OBVIOUS
<1> USE DEF polling
<1>1. CASE UNCHANGED chains
  BY <1>1 DEF ChainInv, Later
<1>2. CASE BindEnds
  <2>1. CASE Tail(toBind) # <<>>
    BY <1>1, <1>2, <2>1 DEF BindEnds
  <2>2. CASE Tail(toBind) = <<>>
    <3>1. FreeIds # {} /\ chains' = Started(poller, chains, Config(poller.file))
      BY <1>2, <2>2 DEF BindEnds
    <3>2. Later(chains)
      BY DEF ChainInv, Later
    <3> QED
      BY <3>1, <3>2, StartedKeeps DEF ChainInv
  <2> QED
    BY <2>1, <2>2
<1>3. ASSUME NEW chain \in chains, NEW source, NEW script, FetchEnds(chain, source, script)
      PROVE  ChainInv' /\ Later(chains')
  <2>1. chains' = Onward(chain, chain.todo \ {source})
    BY <1>3 DEF FetchEnds
  <2> QED
    BY <2>1, OnwardKeeps
<1>4. ASSUME NEW chain \in chains, TimerFires(chain) PROVE ChainInv' /\ Later(chains')
  <2>1. chains' = Onward(chain, Feeds(chain.file))
    BY <1>4 DEF TimerFires
  <2>2. CASE chain.stopped
    <3>1. chains' = Onward(chain, chain.todo)
      BY <2>1, <2>2 DEF Onward
    <3> QED
      BY <3>1, OnwardKeeps
  <2>3. CASE ~chain.stopped
    BY <2>1, <2>3, OnwardKeeps
  <2> QED
    BY <2>2, <2>3
<1>5. ASSUME NEW c, NEW plan, Reload(c, plan) PROVE ChainInv' /\ Later(chains')
  <2>1. CASE FreeIds # {} /\ \E p : chains' = Started(p, Stopped(chains), c)
    BY <2>1, StoppedKeeps, StartedKeeps
  <2> QED
    BY <1>1, <1>5, <2>1, Zenon DEF Reload
<1>6. CASE CloseNext
  <2>1. CASE chains' = Stopped(chains)
    BY <2>1, StoppedKeeps DEF ChainInv
  <2> QED
    BY <1>1, <1>6, <2>1 DEF CloseNext
<1> QED
  BY <1>1, <1>2, <1>3, <1>4, <1>5, <1>6
  DEF Next, Runs, RunOneShot, RunService, BindFails, RunsDry, Polls, Attack, Flush, Edit,
      Reloads, ReloadFails, ReloadChangesNothing, Signal, vars

(* A stopped poller asks nothing more (ingest.ts 276-310): whether a reload or *)
(* a shutdown stopped it, the fetch under way ends and is its last, however    *)
(* many pollers have followed it.                                              *)
THEOREM StoppedPollersAreSilent == Spec => StoppedAsksNothing
<1> DEFINE Silent == \A chain \in chains : chain.stopped =>
                       \A next \in chains' : next.id = chain.id =>
                         next.todo \subseteq chain.todo /\ next.file = chain.file
<1>1. Init => ChainInv
  BY DEF Init, ChainInv
<1>2. ChainInv /\ [Next]_vars => [Silent]_vars
  BY ChainInvNext DEF Later
<1>3. ChainInv /\ [Next]_vars => ChainInv'
  BY ChainInvNext
<1> QED
  BY <1>1, <1>2, <1>3, PTL DEF Spec, StoppedAsksNothing

-----------------------------------------------------------------------------
(* The tables that hold every file read, planned and built are what they are   *)
(* tables of.                                                                  *)
LEMMA PlanIs ==
  ASSUME env \in Envs, NEW old \in Files, NEW next \in Files,
         Config(old) # Refused, Config(next) # Refused
  PROVE  Plan[env][old][next] = PlanReload(Config(old), Config(next))
<1> DEFINE accepted(e) == {file \in Files : Loaded[e][file] # Refused}
           over(e, file) == [to \in accepted(e) |-> PlanReload(Loaded[e][file], Loaded[e][to])]
<1>1. old \in accepted(env) /\ next \in accepted(env)
  BY DEF Config
<1>2. Plan = [e \in Envs |-> [file \in accepted(e) |-> over(e, file)]]
  BY DEF Plan
<1>3. Plan[env][old] = over(env, old)
  BY <1>1, <1>2
<1> QED
  BY <1>1, <1>3 DEF Config

LEMMA PartsAre ==
  ASSUME env \in Envs, NEW file \in Files, Config(file) # Refused
  PROVE  /\ Parts[env][file][1] = EngineParts(Config(file))
         /\ Parts[env][file][2] = Select(Config(file), "intel")
<1>1. Parts[env][file] = <<EngineParts(Config(file)), Select(Config(file), "intel")>>
  BY DEF Parts, Config
<1> QED
  BY <1>1

(* What a reload cannot tell apart, the engine cannot either: it is built of   *)
(* the sections a reload compares, and of no others.                           *)
LEMMA SameSectionsSameEngine ==
  ASSUME NEW old, NEW next, Changed(old, next, Reloadable) = {}
  PROVE  /\ EngineParts(old) = EngineParts(next)
         /\ Select(old, "intel") = Select(next, "intel")
<1>1. \A key \in Reloadable : Select(old, key) = Select(next, key)
  BY DEF Changed
<1>2. /\ Select(old, "detectors") = Select(next, "detectors")
      /\ Select(old, "responses") = Select(next, "responses")
      /\ Select(old, "policy") = Select(next, "policy")
      /\ Select(old, "allowlist") = Select(next, "allowlist")
      /\ Select(old, "service_tokens") = Select(next, "service_tokens")
      /\ Select(old, "engine.shadow_detectors") = Select(next, "engine.shadow_detectors")
      /\ Select(old, "intel") = Select(next, "intel")
  BY <1>1 DEF Reloadable
<1> QED
  BY <1>2, Zenon DEF EngineParts

\* A listener's table is compared as one of those that need a restart.
LEMMA ListenersAreCompared ==
  ASSUME NEW old, NEW next, NEW i \in DOMAIN ListenerOrder,
         old[ListenerOrder[i]] # next[ListenerOrder[i]]
  PROVE  ListenerOrder[i] \in Changed(old, next, RestartRequired)
<1> DEFINE name == ListenerOrder[i]
<1>1. name \in {"server", "port-scan", "smtp", "ssh", "ftp", "telnet", "management", "dashboard"}
  BY DEF ListenerOrder
<1>2. name \in RestartRequired
  BY <1>1 DEF RestartRequired
<1>3. \A c : Select(c, name) = Only(c, {name})
  <2> HIDE DEF name
  <2> QED
    BY <1>1 DEF Select
<1>4. \A c : Only(c, {name})[name] = c[name]
  BY DEF Only
<1>5. Select(old, name) # Select(next, name)
  BY <1>3, <1>4
<1> QED
  BY <1>2, <1>5 DEF Changed

(* What makes ReloadIsHonest inductive: every file a running process was ever   *)
(* built or reloaded from is one that was accepted, so that its table is there  *)
(* to compare.                                                                 *)
Accepted(file) == file \in Files /\ Config(file) # Refused

NamedOK ==
  \A i \in DOMAIN ListenerOrder :
    Config(running)[ListenerOrder[i]] # Config(booted)[ListenerOrder[i]] => ListenerOrder[i] \in named

HonestInv ==
  /\ env \in Envs /\ disk \in Files
  /\ Alive =>
       /\ Accepted(booted) /\ Accepted(engine) /\ Accepted(running)
       /\ EngineParts(Config(engine)) = EngineParts(Config(running))
       /\ poller # NoPoller =>
            /\ Accepted(poller.file)
            /\ Select(Config(poller.file), "intel") = Select(Config(running), "intel")
       /\ poller = [file |-> poller.file, stopped |-> poller.stopped]
       /\ NamedOK

LEMMA HonestInvHonest == HonestInv => ReloadIsHonest
<1> SUFFICES ASSUME HonestInv, Alive PROVE ReloadIsHonest
  BY DEF ReloadIsHonest
<1>1. Accepted(engine) /\ Accepted(running) /\ (poller # NoPoller => Accepted(poller.file))
  BY DEF HonestInv
<1>2. Parts[env][engine][1] = Parts[env][running][1]
  BY <1>1, PartsAre DEF HonestInv, Accepted
<1>3. poller # NoPoller => Parts[env][poller.file][2] = Parts[env][running][2]
  BY <1>1, PartsAre DEF HonestInv, Accepted
<1> QED
  BY <1>2, <1>3 DEF HonestInv, NamedOK, ReloadIsHonest

(* A step that leaves every file named where it is. *)
LEMMA SameFiles ==
  ASSUME HonestInv, UNCHANGED <<env, booted, engine, running, named, poller>>,
         disk' \in Files, Alive' => Alive
  PROVE  HonestInv'
<1>1. \A file : Config(file)' = Config(file)
  BY DEF Config
<1> QED
  BY <1>1 DEF HonestInv, Accepted, NamedOK

LEMMA ReloadKeeps ==
  ASSUME HonestInv, Reload(Config(disk), ReloadPlan)
  PROVE  HonestInv'
<1> DEFINE now == Config(disk)
           old == Config(running)
           applied == Changed(old, now, Reloadable)
<1>1. /\ env \in Envs /\ Accepted(disk) /\ Accepted(running) /\ Accepted(booted) /\ Accepted(engine)
      /\ running' = disk /\ UNCHANGED <<env, disk, booted>>
  BY DEF Reload, HonestInv, Accepted, Alive
<1>2. ReloadPlan.applied = applied /\ ReloadPlan.requiresRestart = Changed(old, now, RestartRequired)
  <2>1. ReloadPlan = PlanReload(old, now)
    BY <1>1, PlanIs DEF ReloadPlan, Accepted
  <2> QED
    BY <2>1 DEF PlanReload
<1>3. \A file : Config(file)' = Config(file)
  BY <1>1 DEF Config
<1>4. Accepted(engine)' /\ EngineParts(Config(engine))' = EngineParts(Config(running))'
  <2>1. CASE applied # {}
    <3>1. engine' = disk
      BY <1>2, <2>1 DEF Reload
    <3> QED
      BY <1>1, <1>3, <3>1 DEF Accepted
  <2>2. CASE applied = {}
    <3>1. engine' = engine
      BY <1>2, <2>2 DEF Reload
    <3>2. EngineParts(now) = EngineParts(old)
      BY <2>2, SameSectionsSameEngine
    <3>3. EngineParts(Config(engine)) = EngineParts(old)
      BY DEF HonestInv, Reload
    <3> QED
      BY <1>1, <1>3, <3>1, <3>2, <3>3 DEF Accepted
  <2> QED
    BY <2>1, <2>2
<1>5. /\ poller' = [file |-> poller'.file, stopped |-> poller'.stopped]
      /\ poller' # NoPoller =>
           /\ Accepted(poller.file)'
           /\ Select(Config(poller.file), "intel")' = Select(Config(running), "intel")'
  <2>1. CASE "intel" \in applied /\ poller # NoPoller
    <3>1. poller' = [file |-> disk, stopped |-> FALSE]
      BY <1>2, <2>1 DEF Reload
    <3>2. poller'.file = disk
      BY <3>1
    <3> QED
      BY <1>1, <1>3, <3>1, <3>2 DEF Accepted
  <2>2. CASE poller = NoPoller
    <3>1. poller' = poller
      BY <1>2, <2>2 DEF Reload, polling
    <3> QED
      BY <2>2, <3>1 DEF NoPoller
  <2>3. CASE "intel" \notin applied /\ poller # NoPoller
    <3>1. poller' = poller
      BY <1>2, <2>3 DEF Reload, polling
    <3>2. Select(now, "intel") = Select(old, "intel")
      BY <2>3 DEF Changed, Reloadable
    <3> QED
      BY <1>1, <1>3, <2>3, <3>1, <3>2 DEF HonestInv, Reload, Accepted
  <2> QED
    BY <2>1, <2>2, <2>3
<1>6. NamedOK'
  <2> SUFFICES ASSUME NEW i \in DOMAIN ListenerOrder,
                      Config(disk)[ListenerOrder[i]] # Config(booted)[ListenerOrder[i]]
               PROVE  ListenerOrder[i] \in named'
    BY <1>1, <1>3 DEF NamedOK
  <2>1. named' = named \cup Changed(old, now, RestartRequired)
    BY <1>2 DEF Reload
  <2>2. CASE old[ListenerOrder[i]] = now[ListenerOrder[i]]
    BY <2>1, <2>2 DEF HonestInv, NamedOK, Reload
  <2>3. CASE old[ListenerOrder[i]] # now[ListenerOrder[i]]
    BY <2>1, <2>3, ListenersAreCompared
  <2> QED
    BY <2>2, <2>3
<1> QED
  BY <1>1, <1>3, <1>4, <1>5, <1>6 DEF HonestInv, Accepted

LEMMA HonestInvNext == HonestInv /\ [Next]_vars => HonestInv'
<1> SUFFICES ASSUME HonestInv, [Next]_vars PROVE HonestInv'
  OBVIOUS
<1> USE DEF lists, polling, net, config, ending
<1>1. ASSUME NEW mode, Runs(mode, Config(disk)) PROVE HonestInv'
  <2>1. CASE RunOneShot(mode, Config(disk))
    BY <2>1 DEF RunOneShot, HonestInv, Alive
  <2>2. CASE RunService(mode, Config(disk))
    <3>1. /\ Accepted(disk) /\ UNCHANGED <<env, disk, named>>
          /\ booted' = disk /\ engine' = disk /\ running' = disk
          /\ poller' = [file |-> disk, stopped |-> FALSE] \/ poller' = NoPoller
      BY <2>2 DEF RunService, Serves, HonestInv, Accepted
    <3>2. \A file : Config(file)' = Config(file)
      BY <3>1 DEF Config
    <3>3. /\ poller' = [file |-> poller'.file, stopped |-> poller'.stopped]
          /\ poller' # NoPoller => poller'.file = disk
      <4>1. \A f, s, p : p = [file |-> f, stopped |-> s] =>
                          p = [file |-> p.file, stopped |-> p.stopped] /\ p.file = f
        OBVIOUS
      <4> QED
        BY <3>1, <4>1, Zenon DEF NoPoller
    <3> QED
      BY <3>1, <3>2, <3>3 DEF HonestInv, Accepted, NamedOK
  <2> QED
    BY <1>1, <2>1, <2>2 DEF Runs
<1>2. CASE BindEnds \/ BindFails \/ RunsDry
  BY <1>2, SameFiles DEF BindEnds, BindFails, RunsDry, Alive, HonestInv
<1>3. CASE Polls
  BY <1>3, SameFiles DEF Polls, FetchEnds, TimerFires, Alive, HonestInv
<1>4. ASSUME NEW ip, Attack(ip, Config(booted)) PROVE HonestInv'
  BY <1>4, SameFiles DEF Attack, Alive, HonestInv
<1>5. CASE Flush
  BY <1>5, SameFiles DEF Flush, Alive, HonestInv
<1>6. ASSUME NEW file \in Edits, Edit(file) PROVE HonestInv'
  BY <1>6, SameFiles, FilesAssumption DEF Edit, Alive, HonestInv
<1>7. CASE UNCHANGED vars
  BY <1>7, SameFiles DEF vars, Alive, HonestInv
<1>8. CASE Reloads(Config(disk), ReloadPlan)
  BY <1>7, <1>8, ReloadKeeps DEF Reloads, ReloadFails, ReloadChangesNothing
<1>9. CASE Signal
  BY <1>9, SameFiles DEF Signal, Alive, HonestInv
<1>10. CASE CloseNext
  <2>1. CASE UNCHANGED poller
    BY <1>10, <2>1, SameFiles DEF CloseNext, Alive, HonestInv
  <2>2. CASE poller # NoPoller /\ poller' = [poller EXCEPT !.stopped = TRUE]
    <3>1. UNCHANGED <<env, disk, booted, engine, running, named>> /\ Alive
      BY <1>10 DEF CloseNext
    <3>2. \A file : Config(file)' = Config(file)
      BY <3>1 DEF Config
    <3>3. PICK f, s : poller = [file |-> f, stopped |-> s]
      BY <3>1 DEF HonestInv
    <3>4. \A x : [[file |-> f, stopped |-> s] EXCEPT !.stopped = x] = [file |-> f, stopped |-> x]
      OBVIOUS
    <3>5. /\ poller'.file = poller.file
          /\ poller' = [file |-> poller'.file, stopped |-> poller'.stopped]
      BY <2>2, <3>3, <3>4
    <3> QED
      BY <2>2, <3>1, <3>2, <3>5 DEF HonestInv, Accepted, NamedOK
  <2> QED
    BY <1>10, <2>1, <2>2, Zenon DEF CloseNext
<1> QED
  BY <1>1, <1>2, <1>3, <1>4, <1>5, <1>6, <1>7, <1>8, <1>9, <1>10 DEF Next

(* A reload does what it can and says what it cannot (service.ts 546-576): the  *)
(* engine and the poller are made of the configuration the service calls the    *)
(* running one, after any number of reloads that each applied only what had     *)
(* changed, and every listener that runs with other settings has been named.    *)
THEOREM ReloadsAreHonest == Spec => []ReloadIsHonest
<1>1. Init => HonestInv
  BY FilesAssumption DEF Init, HonestInv, Alive
<1> QED
  BY <1>1, HonestInvNext, HonestInvHonest, PTL DEF Spec
=============================================================================
