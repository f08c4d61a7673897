-------------------------------- MODULE Build --------------------------------
(***************************************************************************)
(* From a file on disk to the objects a process runs on: where the file is  *)
(* looked for (config/load.ts), the environment that overrides it           *)
(* (config/env.ts), what is built from it (config/build.ts), and what of a  *)
(* new one a running process can take over (config/reload.ts).              *)
(*                                                                         *)
(* An environment is a function from the variables that are set to non-     *)
(* blank texts to raw values; a text read as a list is the set of its       *)
(* entries. A disk is a function from the paths that exist to files.        *)
(***************************************************************************)
EXTENDS Configuration, SequencesExt

-----------------------------------------------------------------------------
(* The environment.                                                          *)

Override(table, key, kind) == [table |-> table, key |-> key, kind |-> kind]

Overrides ==
  "PORT" :> Override("server", "port", "port")
  @@ "HOST" :> Override("server", "host", "string")
  @@ "TRUST_PROXY" :> Override("server", "trust_proxy", "boolean")
  @@ "TRUSTED_PROXIES" :> Override("server", "trusted_proxies", "list")
  @@ "PROXY_HOPS" :> Override("server", "proxy_hops", "integer")
  @@ "LOG_FORMAT" :> Override("logging", "format", "format")
  @@ "SCAN_PORTS" :> Override("port-scan", "ports", "ports")
  @@ "SCAN_BANNER" :> Override("port-scan", "banner", "string")
  @@ "HIT_LOG" :> Override("store.file", "path", "string")
  @@ "REDIS_URL" :> Override("store.redis", "url", "string")
  @@ "REDIS_SCORE_TTL" :> Override("store.redis", "score_ttl_seconds", "integer")
  @@ "REDIS_MAX_HITS" :> Override("store.redis", "max_hits", "integer")
  @@ "MANAGEMENT_API_KEYS" :> Override("management", "api_keys", "list")
  @@ "MANAGEMENT_HOST" :> Override("management", "host", "string")
  @@ "MANAGEMENT_PORT" :> Override("management", "port", "port")
  @@ "DASHBOARD_ENABLED" :> Override("dashboard", "enabled", "boolean")
  @@ "DASHBOARD_HOST" :> Override("dashboard", "host", "string")
  @@ "DASHBOARD_PORT" :> Override("dashboard", "port", "port")
  @@ "DASHBOARD_ALLOWED_HOSTS" :> Override("dashboard", "allowed_hosts", "list")
  @@ "DASHBOARD_ALLOWED_CLIENTS" :> Override("dashboard", "allowed_clients", "list")
  @@ "DASHBOARD_MANAGEMENT_URL" :> Override("dashboard", "management_url", "string")
  @@ "DASHBOARD_MANAGEMENT_API_KEY" :> Override("dashboard", "management_api_key", "string")

\* asInteger, asPort, asBoolean: what a text must be to be read as one.
Legible(kind, raw) ==
  CASE kind = "boolean" -> raw.type = "boolean"
    [] kind = "integer" -> raw.type = "number" /\ raw.value >= 0
    [] kind = "port"    -> raw.type = "number" /\ raw.value \in 0 .. 65535
    [] kind = "ports"   -> raw.type = "integers" /\ raw.value \subseteq 0 .. 65535
    [] kind = "format"  -> raw.value \in {"json", "text"}
    [] OTHER            -> TRUE

Overridden(c, environ) ==
  FoldSet(LAMBDA v, sofar : [sofar EXCEPT ![Overrides[v].table][Overrides[v].key] = environ[v].value],
          c, DOMAIN environ \cap DOMAIN Overrides)

\* A variable that names what a part needs turns the part on, or off when it names nothing.
Switched(c, environ) ==
  LET set(v) == v \in DOMAIN environ
      tokens == IF set("HONEYTOKENS") THEN environ["HONEYTOKENS"].value ELSE {}
  IN  [c EXCEPT !["port-scan"].enabled = IF set("SCAN_PORTS") THEN c["port-scan"].ports # {} ELSE @,
                !["store.file"].enabled = set("HIT_LOG") \/ @,
                !["store.redis"].enabled = set("REDIS_URL") \/ @,
                !["management"].enabled = IF set("MANAGEMENT_API_KEYS") THEN c["management"].api_keys # {} ELSE @,
                !["detectors.honeytoken"] =
                   IF ~set("HONEYTOKENS") THEN @
                   ELSE [@ EXCEPT !.enabled = tokens # {},
                                  !.tokens = SetToSeq({[value |-> Raw("string", t)] : t \in tokens})]]

\* A token is taken before a user name; basic auth needs a password, and a name from somewhere.
DashboardUser(c, environ) ==
  CASE "DASHBOARD_USERNAME" \in DOMAIN environ -> environ["DASHBOARD_USERNAME"].value
    [] "DASHBOARD_USERNAME" \notin DOMAIN environ /\ AuthKind(c["dashboard"]) = "basic" -> c["dashboard"].username
    [] OTHER -> ""

WantsBasic(environ) ==
  "DASHBOARD_TOKEN" \notin DOMAIN environ /\ {"DASHBOARD_USERNAME", "DASHBOARD_PASSWORD"} \cap DOMAIN environ # {}

Authenticated(c, environ) ==
  CASE "DASHBOARD_TOKEN" \in DOMAIN environ ->
         [c EXCEPT !["dashboard"].auth = "token", !["dashboard"].token = environ["DASHBOARD_TOKEN"].value]
    [] WantsBasic(environ) /\ "DASHBOARD_PASSWORD" \in DOMAIN environ ->
         [c EXCEPT !["dashboard"].auth = "basic", !["dashboard"].username = DashboardUser(c, environ),
                   !["dashboard"].password = environ["DASHBOARD_PASSWORD"].value]
    [] OTHER -> c

EnvRefusals(c, environ, applied) ==
  LET proxy == {"TRUSTED_PROXIES", "PROXY_HOPS"} \cap DOMAIN environ
  IN  {v \in DOMAIN environ \cap DOMAIN Overrides : ~Legible(Overrides[v].kind, environ[v])}
      \cup (IF applied["server"].trust_proxy THEN {} ELSE proxy)
      \cup When(Given(applied["server"].proxy_hops) /\ applied["server"].proxy_hops < 1, "PROXY_HOPS")
      \cup When(applied["management"].enabled /\ applied["management"].api_keys = {}, "MANAGEMENT_API_KEYS")
      \cup When("DASHBOARD_TOKEN" \in DOMAIN environ /\ TooShort(environ["DASHBOARD_TOKEN"].value), "DASHBOARD_TOKEN")
      \cup When(WantsBasic(environ) /\ ("DASHBOARD_PASSWORD" \notin DOMAIN environ \/ DashboardUser(c, environ) = ""),
                "DASHBOARD_USERNAME")
      \cup When(ListenerRefuses(applied["dashboard"]) # {}, "DASHBOARD_HOST")

ApplyEnv(c, environ) ==
  LET Judged(applied) == IF EnvRefusals(c, environ, applied) # {} THEN Refused ELSE applied
  IN  IF {v \in DOMAIN environ \cap DOMAIN Overrides : ~Legible(Overrides[v].kind, environ[v])} # {} THEN Refused
      ELSE Judged(Authenticated(Switched(Overridden(c, environ), environ), environ))

-----------------------------------------------------------------------------
(* Where the file is.                                                        *)

SearchPaths == <<"hackerpot.toml", "hackerpot.config.toml", "config/hackerpot.toml", "/etc/hackerpot/hackerpot.toml">>

Found(paths) == SelectSeq(SearchPaths, LAMBDA path : path \in DOMAIN paths)

ParseText(text) == IF text = Garbled THEN Refused ELSE ParseConfig(text)

\* A file somebody named must exist; with none named and none found there are the defaults.
Chosen(paths, chosen) ==
  CASE chosen # Missing /\ chosen \in DOMAIN paths    -> paths[chosen]
    [] chosen # Missing /\ chosen \notin DOMAIN paths -> Garbled
    [] chosen = Missing /\ Found(paths) # <<>>       -> paths[Head(Found(paths))]
    [] OTHER                                       -> <<>>

LoadFile(paths, chosen) == ParseText(Chosen(paths, chosen))

LoadConfig(paths, chosen, environ) ==
  LET Under(c) == IF c = Refused THEN Refused ELSE ApplyEnv(c, environ)
  IN  Under(LoadFile(paths, chosen))

-----------------------------------------------------------------------------
(* What the engine is built from.                                            *)

DetectorOrder ==
  <<"crawler-verification", "trap", "decoy-path", "payload-injection", "ssrf-probe", "nosql-injection",
    "prototype-pollution", "insecure-deserialization", "graphql-abuse", "jwt-weakness", "crlf-injection", "web-shell",
    "header-anomaly", "header-integrity", "target-integrity", "host-header-injection", "sensitive-file",
    "open-redirect", "suspicious-method", "credential-bruteforce", "path-bruteforce", "path-novelty", "marker-drift",
    "scanner-signature", "client-anomaly", "rate-spike", "repeat-actor", "honeytoken">>

Built(c, id) == c["detectors." \o id].enabled /\ (id = "honeytoken" => Len(c["detectors.honeytoken"].tokens) > 0)

BuildDetectors(c) == SelectSeq(DetectorOrder, LAMBDA id : Built(c, id))

\* The decoys of the file, then the shipped ones it keeps; the first with an id wins.
BuildDecoys(c) ==
  LET d == c["detectors.decoy-path"]
  IN  [custom |-> d.decoys, builtin |-> IF d.replace_defaults THEN {} ELSE BuiltinDecoys \ d.disabled]

BuildResponseActions(c) == {id \in Responses : c["responses." \o id].enabled}

Preset(name) ==
  CASE name = "observe"     -> <<"observe-everything">>
    [] name = "protect-app" -> <<"proof-block", "decoy-bait", "exploit-tarpit", "persistent-tarpit", "everything-else">>
    [] name = "standalone"  -> <<"confirmed-block", "proof-block", "detector-choice">>
    [] OTHER                -> <<>>

\* The rules of the file first; one of a preset's with the id of one of them is left out.
BuildPolicy(c) ==
  LET own == RuleIds(Rules(c))
  IN  own \o SelectSeq(Preset(c["policy"].preset), LAMBDA id : \A i \in DOMAIN own : own[i] # id)

\* rulePolicy() throws on a rule without an id and on two with one.
PolicyThrows(c) == ~Distinct(BuildPolicy(c)) \/ \E i \in DOMAIN BuildPolicy(c) : BuildPolicy(c)[i] = ""

\* trapDetector() throws on a relative path.
DetectorsThrow(c) == Built(c, "trap") /\ c["detectors.trap"].paths \cap NoSlash # {}

Stores == <<"store.redis", "store.elastic", "store.file">>

BuildStore(c) ==
  LET on == SelectSeq(Stores, LAMBDA name : c[name].enabled)
  IN  IF on = <<>> THEN <<"store.memory">> ELSE on

\* Where feeds write: nowhere, the blocklist itself when enforced, else a child of its own.
BuildBlocklist(c) ==
  [enforced |-> c["blocklist.enforcer"].enabled,
   ingest   |-> CASE ~c["intel"].enabled                        -> "none"
                  [] c["intel"].enabled /\ c["intel"].enforce    -> "local"
                  [] c["intel"].enabled /\ ~c["intel"].enforce   -> "feed"]

BlocklistThrows(c) == c["blocklist"].backend = "redis" /\ "store.redis" \notin {BuildStore(c)[i] : i \in DOMAIN BuildStore(c)}

\* resolveProxy(): addresses that are none, or none at all.
ProxyThrows(c) ==
  \/ /\ Given(c["server"].trusted_proxies)
     /\ c["server"].trusted_proxies = {} \/ c["server"].trusted_proxies \cap (BadAddresses \cup Unmatchable) # {}
  \/ Given(c["server"].proxy_hops) /\ c["server"].proxy_hops < 1
  \/ c["server"].forwarded_header = ""

BuildThrows(c) == DetectorsThrow(c) \/ PolicyThrows(c) \/ BlocklistThrows(c) \/ ProxyThrows(c)

-----------------------------------------------------------------------------
(* The listeners, in the order they are bound.                               *)

ListenerOrder == <<"server", "port-scan", "smtp", "ssh", "ftp", "telnet", "management", "dashboard">>

Listens(c, name) ==
  CASE name = "server"    -> TRUE
    [] name = "port-scan" -> c[name].enabled /\ c[name].ports # {}
    [] OTHER              -> c[name].enabled

BuildListeners(c) == SelectSeq(ListenerOrder, LAMBDA name : Listens(c, name))

\* An SSH host key that cannot be read is only found when the listener is built.
HostKeysUnreadable(c, readable) == c["ssh"].enabled /\ ~(c["ssh"].host_key_files \subseteq readable)

\* The dashboard checks its clients when it starts, after every other listener is bound.
DashboardThrows(c) == c["dashboard"].allowed_clients \cap BadAddresses # {}

\* `hackerpot dashboard` reads a management API: the one named, or this file's own.
DashboardSource(c, url, key) ==
  [url |-> CASE url # "" -> url
             [] url = "" /\ c["dashboard"].management_url # "" -> c["dashboard"].management_url
             [] url = "" /\ c["dashboard"].management_url = "" /\ c["management"].enabled -> "own"
             [] OTHER -> "",
   key |-> key # "" \/ c["dashboard"].management_api_key # "" \/ c["management"].api_keys # {}]

DashboardSourceThrows(c, url, key) == DashboardSource(c, url, key).url = "" \/ ~DashboardSource(c, url, key).key

-----------------------------------------------------------------------------
(* Reload.                                                                   *)

Only(c, names) == [name \in names |-> c[name]]

Part(c, table, keys) == [key \in keys |-> c[table][key]]

DetectorTables == {"detectors." \o id : id \in Detectors}
ResponseTables == {"responses." \o id : id \in Responses}
IntelLive == DOMAIN IntelKeys \ {"enabled", "enforce"}
Ranges == {"published_ranges", "ranges_refresh_hours"}

RestartRequired ==
  {"server", "store", "blocklist", "engine.activity_window_ms", "engine.fingerprint_window_ms",
   "engine.detector_timeout_ms", "engine.ignore_paths", "port-scan", "smtp", "ssh", "ftp", "telnet", "syslog",
   "management", "dashboard", "intel.enabled", "intel.enforce", "audit", "published_ranges"}

\* (Mutant.) The tokens of the services are forgotten.
ReloadableButTokens == {"detectors", "engine.shadow_detectors", "responses", "policy", "allowlist", "intel", "logging"}

Reloadable ==
  {"detectors", "engine.shadow_detectors", "responses", "policy", "allowlist", "intel", "logging", "service_tokens"}

Select(c, key) ==
  CASE key = "store"     -> Only(c, {"store.memory", "store.file", "store.redis", "store.elastic"})
    [] key = "blocklist" -> Only(c, {"blocklist", "blocklist.enforcer"})
    [] key = "engine.activity_window_ms"    -> Part(c, "engine", {"activity_window_ms"})
    [] key = "engine.fingerprint_window_ms" -> Part(c, "engine", {"fingerprint_window_ms"})
    [] key = "engine.detector_timeout_ms"   -> Part(c, "engine", {"detector_timeout_ms"})
    [] key = "engine.ignore_paths"          -> Part(c, "engine", {"ignore_paths", "ignore_path_patterns"})
    [] key = "engine.shadow_detectors"      -> Part(c, "engine", {"shadow_detectors"})
    [] key = "intel.enabled"    -> Part(c, "intel", {"enabled"})
    [] key = "intel.enforce"    -> Part(c, "intel", {"enforce"})
    [] key = "published_ranges" -> Part(c, "detectors.crawler-verification", Ranges)
    [] key = "detectors" -> Only(c, DetectorTables)
    [] key = "responses" -> Only(c, ResponseTables)
    [] key = "intel"     -> Part(c, "intel", IntelLive)
    [] key = "service_tokens" -> Only(c, {"service-tokens"})
    [] OTHER -> Only(c, {key})

\* What the engine is made of, and remade of by a reload: builders that read sections.
EngineParts(c) ==
  LET d == Select(c, "detectors")
      r == Select(c, "responses")
      p == Select(c, "policy")
  IN  [detectors |-> [i \in DOMAIN BuildDetectors(d) |-> d["detectors." \o BuildDetectors(d)[i]]],
       decoys    |-> BuildDecoys(d),
       actions   |-> [id \in BuildResponseActions(r) |-> r["responses." \o id]],
       policy    |-> <<BuildPolicy(p), p>>,
       allowlist |-> Select(c, "allowlist"),
       tokens    |-> Select(c, "service_tokens"),
       shadow    |-> Select(c, "engine.shadow_detectors")]

Changed(old, next, keys) == {key \in keys : Select(old, key) # Select(next, key)}

PlanReload(old, next) ==
  [applied         |-> Changed(old, next, Reloadable),
   requiresRestart |-> Changed(old, next, RestartRequired)]

Unchanged(plan) == plan.applied = {} /\ plan.requiresRestart = {}
=============================================================================
