---------------------------- MODULE Configuration ----------------------------
(***************************************************************************)
(* From a file and an environment to the configuration a process runs: the  *)
(* whole file (config/schema.ts parseConfig), the variables that override   *)
(* it (config/env.ts), where it is looked for (config/load.ts), and what is *)
(* built from it (config/build.ts).                                         *)
(*                                                                         *)
(* A file is a function from table names to tables, Garbled when it is not  *)
(* TOML, Missing when it does not exist; an environment is a function from  *)
(* the variables that are set to their values. A configuration is a         *)
(* function from table names to the values of their keys; Refused stands    *)
(* for a ConfigError.                                                       *)
(***************************************************************************)
EXTENDS ConfigSchema

CONSTANTS Garbled, Missing, Refused

RootKeys == [webhooks |-> Tables, actors |-> Tables]

Prefixed(prefix, keys) ==
  [name \in {prefix \o id : id \in DOMAIN keys} |->
     keys[CHOOSE id \in DOMAIN keys : prefix \o id = name]]

Keys ==
  "" :> RootKeys @@ "server" :> ServerKeys @@ "logging" :> LoggingKeys @@ "engine" :> EngineKeys
  @@ "policy" :> PolicyKeys @@ "markers" :> MarkersKeys @@ "store.memory" :> MemoryKeys @@ "store.file" :> FileKeys
  @@ "store.redis" :> RedisKeys @@ "store.elastic" :> ElasticKeys @@ "blocklist" :> BlocklistKeys
  @@ "blocklist.enforcer" :> EnforcerKeys @@ "intel" :> IntelKeys @@ "allowlist" :> AllowlistKeys
  @@ "audit" :> AuditKeys @@ "service-tokens" :> TokensKeys @@ "port-scan" :> PortScanKeys
  @@ "smtp" :> SmtpKeys @@ "ssh" :> SshKeys @@ "ftp" :> FtpKeys @@ "telnet" :> TelnetKeys @@ "syslog" :> SyslogKeys
  @@ "management" :> ManagementKeys @@ "dashboard" :> DashboardKeys
  @@ "detectors.decoy-path" :> DecoyPathKeys @@ "detectors.honeytoken" :> HoneytokenKeys
  @@ Prefixed("detectors.", DetectorKeys @@ BehaviourKeys) @@ Prefixed("responses.", ResponseKeys)

\* child(): a hyphenated name may be written with underscores, and the hyphens win.
Alias == "service-tokens" :> "service_tokens" @@ "port-scan" :> "port_scan"

Written(file, name) ==
  CASE name \in DOMAIN file -> name
    [] name \notin DOMAIN file /\ name \in DOMAIN Alias /\ Alias[name] \in DOMAIN file -> Alias[name]
    [] OTHER -> name

Table(file, name) == IF Written(file, name) \in DOMAIN file THEN file[Written(file, name)] ELSE <<>>

\* A section is on when the file says so, or else when it says what it needs.
OnByDefault(name, c) ==
  CASE name = "port-scan"            -> c.ports # {}
    [] name = "store.file"           -> c.path # ""
    [] name = "store.redis"          -> c.url # ""
    [] name = "store.elastic"        -> c.node # ""
    [] name = "blocklist.enforcer"   -> c.command # "" \/ c.webhook # ""
    [] name = "intel"                -> c.feeds # {}
    [] name = "markers"              -> c.secret # ""
    [] name = "syslog"               -> c.host # ""
    [] name = "management"           -> c.api_keys # {}
    [] name = "detectors.honeytoken" -> Len(c.tokens) > 0

Resolved(name, c) ==
  IF "enabled" \in DOMAIN c /\ c.enabled = Unset THEN [c EXCEPT !.enabled = OnByDefault(name, c)] ELSE c

Values(file) ==
  LET Each(keys) == [name \in DOMAIN keys |-> Resolved(name, Read(Table(file, name), keys[name]))]
  IN  Each(Keys)

-----------------------------------------------------------------------------
(* What is refused of a file.                                                *)

\* (Mutant.) A table whose values have their types is accepted.
TypesSuffice(name, t, c) == {}

OwnRefusals(name, t, c) ==
  CASE name = "server" -> ServerRefuses(t, c)      [] name = "engine" -> EngineRefuses(c)
    [] name = "policy" -> PolicyRefuses(c)         [] name = "markers" -> MarkersRefuses(c)
    [] name = "audit" -> AuditRefuses(c)           [] name = "service-tokens" -> TokensRefuses(c)
    [] name = "allowlist" -> AllowlistRefuses(c)   [] name = "intel" -> IntelRefuses(c)
    [] name = "store.memory" -> MemoryRefuses(c)   [] name = "store.file" -> FileRefuses(c)
    [] name = "store.redis" -> RedisRefuses(c)     [] name = "store.elastic" -> ElasticRefuses(c)
    [] name = "blocklist.enforcer" -> EnforcerRefuses(t, c)
    [] name = "port-scan" -> PortScanRefuses(c)    [] name = "smtp" -> SmtpRefuses(c)
    [] name = "ssh" -> SshRefuses(c)               [] name = "ftp" -> FtpRefuses(c)
    [] name = "telnet" -> TelnetRefuses(c)         [] name = "syslog" -> SyslogRefuses(c)
    [] name = "management" -> ManagementRefuses(c) [] name = "dashboard" -> DashboardRefuses(c)
    [] name = "" -> WebhooksRefuse(c.webhooks)
    [] name = "detectors.decoy-path" -> DecoyPathRefuses(c)
    [] name = "detectors.honeytoken" -> HoneytokenRefuses(c)
    [] name \in DOMAIN Prefixed("detectors.", DetectorKeys @@ BehaviourKeys) ->
         DetectorRefuses(CHOOSE id \in Detectors : "detectors." \o id = name, c)
    [] name \in DOMAIN Prefixed("responses.", ResponseKeys) ->
         ResponseRefuses(CHOOSE id \in Responses : "responses." \o id = name, c)
    [] OTHER -> {}

ActorsRefuse(actors) ==
  LET read == [i \in DOMAIN actors |-> Read(actors[i], ActorKeys)]
  IN  UNION {Wrong(actors[i], ActorKeys) \cup ActorRefuses(actors[i], read[i]) : i \in DOMAIN actors}
      \cup When(~Distinct([i \in DOMAIN actors |-> read[i].name]), "actors")

\* A rule answers with an action that is there and on, or with the detector's.
UnservableRule(values, rule) ==
  /\ rule.respond_with # "@detector"
  /\ \/ rule.respond_with \notin Responses
     \/ ~values["responses." \o rule.respond_with].enabled

Rules(values) == [i \in DOMAIN values["policy"].rules |-> Read(values["policy"].rules[i], RuleKeys)]

\* Every port a listener of this configuration claims, with the listener.
Claims(values) ==
  {<<values["server"].port, "server">>}
  \cup {<<port, "port-scan">> : port \in IF values["port-scan"].enabled THEN values["port-scan"].ports ELSE {}}
  \cup {<<values[name].port, name>> :
          name \in {n \in {"smtp", "ssh", "ftp", "telnet", "management", "dashboard"} : values[n].enabled}}

Clash(claims) == \E one, other \in claims : one # other /\ one[1] = other[1]

CrossRefusals(values) ==
  When(values["blocklist"].backend = "redis" /\ ~values["store.redis"].enabled, "backend")
  \cup ActorsRefuse(values[""].actors)
  \cup When(~(values["engine"].shadow_detectors \subseteq Detectors), "shadow_detectors")
  \cup When(\E i \in DOMAIN Rules(values) : UnservableRule(values, Rules(values)[i]), "policy.rules")
  \cup When(Clash(Claims(values)), "port")

UnknownTables(file, known) == DOMAIN file \ {Written(file, name) : name \in known}

Earliest(first, second, third) == IF first # {} THEN first ELSE IF second # {} THEN second ELSE third

\* Well-typed values are checked; a file that is mistyped is refused for that.
Refusals(file, values) ==
  Earliest({name \in DOMAIN values : Wrong(Table(file, name), Keys[name]) # {}} \cup UnknownTables(file, DOMAIN values),
           {name \in DOMAIN values : OwnRefusals(name, Table(file, name), values[name]) # {}},
           CrossRefusals(values))

ParseConfig(file) ==
  LET Judged(values) == IF Refusals(file, values) # {} THEN Refused ELSE values
  IN  Judged(Values(file))
=============================================================================
