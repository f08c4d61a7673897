---------------------------- MODULE ConfigSchema ----------------------------
(***************************************************************************)
(* What a hackerpot.toml may say (config/schema.ts): for each table the     *)
(* keys it may hold, with their types and defaults, and what is refused of  *)
(* a table whose every value is well typed. Tables are named by their path, *)
(* "store.file"; "" is the root, which holds two arrays of tables. Shares   *)
(* (a confidence, garbage_chance) are in per cent. An id or address list is *)
(* the set of its entries: a repeated entry is not told apart.              *)
(*                                                                         *)
(* XRefuses(c) takes a table as read, XRefuses(t, c) also the table as      *)
(* written, where it matters that a key was written at all.                 *)
(*                                                                         *)
(* Reading one table of a configuration file (config/reader.ts).            *)
(*                                                                         *)
(* A raw table is a function from the keys an operator wrote to raw values  *)
(* [type, value]: what TOML says the value is, and the value. An array of   *)
(* strings or of integers is the set of its entries, an array of tables the *)
(* sequence of them. A field is [kind, default, of]: the accessor the       *)
(* schema reads the key with, what it is without it, and the values an      *)
(* enumeration admits. Unset is a key with no default that nobody wrote.    *)
(*                                                                         *)
(* A reader throws at the first key it cannot accept; here a table is read  *)
(* in full and the keys it would throw at are a set, refused when not {}.   *)
(***************************************************************************)
EXTENDS Integers, Sequences, FiniteSets, TLC

CONSTANTS Unset,            \* stands for undefined
          BadPatterns,      \* texts that are no regular expression
          BadAddresses      \* texts that are neither an address nor a range

Raw(type, value) == [type |-> type, value |-> value]

Field(kind, default) == [kind |-> kind, default |-> default, of |-> {}]
Opt(kind)   == Field(kind, Unset)
Str(d)      == Field("string", d)
Enum(s, d)  == [kind |-> "enum", default |-> d, of |-> s]
Int_(d)     == Field("integer", d)
Port(d)     == Field("port", d)
Bool(d)     == Field("boolean", d)
Strs(d)     == Field("strings", d)
Ips         == Field("ips", {})
StrTable    == Field("stringTable", <<>>)
Tables      == Field("tables", <<>>)

Given(x) == x # Unset

When(condition, key) == IF condition THEN {key} ELSE {}

-----------------------------------------------------------------------------
(* The type a raw value must have, and then what it must be.                 *)

TypeOf(kind) ==
  CASE kind \in {"string", "enum", "regexp"}         -> "string"
    [] kind \in {"number", "integer", "port"}        -> "number"
    [] kind = "boolean"                              -> "boolean"
    [] kind \in {"strings", "regexps", "ips"}        -> "strings"
    [] kind \in {"integers", "ports"}                -> "integers"
    [] kind = "stringTable"                          -> "stringTable"
    [] kind = "tables"                               -> "tables"

InRange(field, value) ==
  CASE field.kind = "enum"    -> value \in field.of
    [] field.kind = "integer" -> value >= 0
    [] field.kind = "port"    -> value \in 0 .. 65535
    [] field.kind = "ports"   -> value \subseteq 1 .. 65535
    [] field.kind = "regexp"  -> value \notin BadPatterns
    [] field.kind = "regexps" -> value \cap BadPatterns = {}
    [] field.kind = "ips"     -> value \cap BadAddresses = {}
    [] OTHER                  -> TRUE

\* One number, or a pair whose first is not above its second.
IsRange(raw) ==
  \/ raw.type = "number"
  \/ raw.type = "pair" /\ raw.value[1] =< raw.value[2]

Fits(field, raw) ==
  IF field.kind = "range" THEN IsRange(raw)
  ELSE raw.type = TypeOf(field.kind) /\ InRange(field, raw.value)

Mistyped(table, fields) ==
  {key \in DOMAIN table \cap DOMAIN fields : ~Fits(fields[key], table[key])}

\* done(): a key nobody read is a typo, and a typo is refused.
Unknown(table, fields) == DOMAIN table \ DOMAIN fields

Wrong(table, fields) == Mistyped(table, fields) \cup Unknown(table, fields)

Read(table, fields) ==
  [key \in DOMAIN fields |->
     IF key \in DOMAIN table \ Mistyped(table, fields) THEN table[key].value ELSE fields[key].default]

-----------------------------------------------------------------------------
(* The tables. *)

CONSTANTS BuiltinDecoys,        \* ids of defaultDecoyPaths
          Unmatchable,          \* ranges of a legal shape that IpAllowlist matches nothing with
          MaxEvents,            \* DEFAULT_MAX_EVENTS of the activity registry
          MaxIpsPerFingerprint

Loopback == {"127.0.0.1", "::1", "localhost"}
NotHttp(url) == url \in {"ftp://peer", "peer"}

-----------------------------------------------------------------------------
(* The service itself.                                                       *)

ServerKeys ==
  [host |-> Str("0.0.0.0"), port |-> Port(4004), trust_proxy |-> Bool(FALSE),
   trusted_proxies |-> Opt("ips"), proxy_hops |-> Opt("integer"), forwarded_header |-> Opt("string")]

ServerRefuses(t, c) ==
  LET proxy == {"trusted_proxies", "proxy_hops", "forwarded_header"}
  IN  When(   /\ Given(c.trusted_proxies)
              /\ c.trusted_proxies = {} \/ c.trusted_proxies \cap Unmatchable # {}, "trusted_proxies")
      \cup When(Given(c.proxy_hops) /\ c.proxy_hops < 1, "proxy_hops")
      \cup When(c.forwarded_header = "", "forwarded_header")
      \cup (IF c.trust_proxy THEN {} ELSE DOMAIN t \cap proxy)

LoggingKeys ==
  [format |-> Enum({"json", "text"}, "json"), startup |-> Bool(TRUE),
   include_headers |-> Bool(FALSE), include_body |-> Bool(FALSE)]

EngineKeys ==
  [activity_window_ms |-> Int_(60000), fingerprint_window_ms |-> Int_(3600000),
   detector_timeout_ms |-> Int_(2000), shadow_detectors |-> Strs({}),
   ignore_paths |-> Strs({}), ignore_path_patterns |-> Field("regexps", {})]

\* Paths are texts; the ones in NoSlash do not begin with one.
NoSlash == {"trap", "health"}

EngineRefuses(c) == When(c.ignore_paths \cap NoSlash # {}, "ignore_paths")

AuditKeys ==
  [enabled |-> Bool(TRUE), window_seconds |-> Int_(300), baseline_seconds |-> Int_(3600),
   interval_seconds |-> Int_(60), min_samples |-> Int_(50), cooldown_seconds |-> Int_(900),
   campaign_min_ips |-> Int_(10)]

AuditRefuses(c) ==
  When(c.window_seconds < 1, "window_seconds")
  \cup When(c.baseline_seconds < c.window_seconds, "baseline_seconds")
  \cup When(c.interval_seconds < 1, "interval_seconds")

TokensKeys == [header |-> Str("x-hackerpot-token"), tokens |-> StrTable]

TokensRefuses(c) ==
  When(c.header \in {"", "a b"}, "header")
  \cup When(\E name \in DOMAIN c.tokens : c.tokens[name] = "", "tokens")

MarkersKeys ==
  [enabled |-> Opt("boolean"), secret |-> Str(""), name |-> Str("__hp"), max_age_seconds |-> Int_(86400),
   secure |-> Bool(TRUE), same_site |-> Enum({"Lax", "Strict", "None"}, "Lax")]

MarkersRefuses(c) == When(c.enabled /\ c.secret = "", "secret")

AllowlistKeys == [ips |-> Ips]

AllowlistRefuses(c) == When(c.ips \cap Unmatchable # {}, "ips")

-----------------------------------------------------------------------------
(* Policy rules and actor labels.                                            *)

RuleKeys ==
  [id |-> Opt("string"), respond_with |-> Opt("string"), fallback_action |-> Opt("string"),
   reason |-> Opt("string"), detector |-> Strs({}), certain |-> Opt("boolean"),
   min_score |-> Opt("number"), max_score |-> Opt("number"),
   min_confidence |-> Opt("number"), max_confidence |-> Opt("number"),
   min_total_score |-> Opt("number"), max_total_score |-> Opt("number"),
   path_prefix |-> Strs({}), path_pattern |-> Field("regexps", {}),
   method |-> Strs({}), ip |-> Ips]

NotAShare(x) == Given(x) /\ x \notin 0 .. 100

RuleRefuses(r) ==
  When(r.id = "", "id") \cup When(~Given(r.respond_with), "respond_with")
  \cup When(NotAShare(r.min_confidence), "min_confidence")
  \cup When(NotAShare(r.max_confidence), "max_confidence")

PresetNames == {"observe", "protect-app", "standalone"}

PolicyKeys ==
  [block_threshold |-> Int_(40), tarpit_threshold |-> Int_(15),
   preset |-> [kind |-> "enum", default |-> Unset, of |-> PresetNames], rules |-> Tables]

\* A rule nobody named is named for its place.
RuleId(rules, i) == IF Given(rules[i].id) THEN rules[i].id ELSE "rule-" \o ToString(i)

Distinct(seq) == \A i, j \in DOMAIN seq : seq[i] = seq[j] => i = j

RuleIds(rules) == [i \in DOMAIN rules |-> RuleId(rules, i)]

PolicyRefuses(c) ==
  LET rules == [i \in DOMAIN c.rules |-> Read(c.rules[i], RuleKeys)]
  IN  UNION {Wrong(c.rules[i], RuleKeys) \cup RuleRefuses(rules[i]) : i \in DOMAIN rules}
      \cup When(~Distinct(RuleIds(rules)), "rules")
      \cup When(c.tarpit_threshold > c.block_threshold, "tarpit_threshold")

ActorKeys ==
  [name |-> Opt("string"), ip |-> Ips, asn |-> Field("integers", {}), org |-> Opt("regexp"),
   user_agent |-> Opt("regexp"), hostname |-> Opt("regexp"), note |-> Opt("string"),
   hide_from_feed |-> Opt("boolean")]

ActorRefuses(t, a) ==
  When(a.name \in {Unset, ""}, "name")
  \cup When(DOMAIN t \cap {"ip", "asn", "org", "user_agent", "hostname"} = {}, "match")

-----------------------------------------------------------------------------
(* Stores, blocklist and intel feeds.                                        *)

MemoryKeys == [max_hits |-> Int_(10000), max_score_entries |-> Int_(100000)]

MemoryRefuses(c) ==
  When(c.max_hits = 0, "max_hits") \cup When(c.max_score_entries = 0, "max_score_entries")

FileKeys ==
  [enabled |-> Opt("boolean"), path |-> Str(""), load_on_start |-> Bool(TRUE),
   max_bytes |-> Int_(134217728), max_archives |-> Int_(10), max_archive_age_seconds |-> Int_(0),
   compress_archives |-> Bool(TRUE), max_score_entries |-> Int_(100000)]

FileRefuses(c) ==
  When(c.enabled /\ c.path = "", "path")
  \cup When(c.enabled /\ c.max_bytes = 0 /\ c.max_archives > 0, "max_bytes")
  \cup When(c.enabled /\ c.max_score_entries = 0, "max_score_entries")

RedisKeys ==
  [enabled |-> Opt("boolean"), url |-> Str(""), key_prefix |-> Str("hackerpot:"),
   score_ttl_seconds |-> Int_(0), max_hits |-> Int_(10000), max_retries_per_request |-> Int_(3),
   command_timeout_ms |-> Int_(5000)]

RedisRefuses(c) == When(c.enabled /\ c.url = "", "url")

ElasticKeys ==
  [enabled |-> Opt("boolean"), node |-> Str(""), index |-> Str("hackerpot-hits"), api_key |-> Str(""),
   username |-> Str(""), password |-> Str(""), max_hits |-> Int_(1000), refresh |-> Bool(FALSE),
   timeout_ms |-> Int_(10000)]

ElasticRefuses(c) ==
  IF ~c.enabled THEN {}
  ELSE When(c.node = "" \/ NotHttp(c.node), "node")
       \cup When((c.username = "") # (c.password = ""), "username")

EnforcerKeys ==
  [enabled |-> Opt("boolean"), command |-> Str(""), args |-> Strs({}), timeout_ms |-> Int_(5000),
   max_per_window |-> Int_(0), window_ms |-> Int_(1000), webhook |-> Str(""), secret |-> Str(""),
   headers |-> StrTable]

EnforcerRefuses(t, c) ==
  (IF ~c.enabled THEN {}
   ELSE When((c.command = "") = (c.webhook = ""), "command")
        \cup When(NotHttp(c.webhook), "webhook")
        \cup When(c.command # "" /\ "{ip}" \notin c.args, "args"))
  \cup When(c.args # {} /\ c.command = "", "args")
  \cup {key \in DOMAIN t \cap {"max_per_window", "window_ms"} : c[key] = 0}

BlocklistKeys ==
  [backend |-> Enum({"memory", "redis"}, "memory"), key_prefix |-> Str("hackerpot:block:"),
   max_entries |-> Int_(100000)]

IntelKeys ==
  [enabled |-> Opt("boolean"), feeds |-> Strs({}), refresh_seconds |-> Int_(300), min_score |-> Int_(0),
   api_key |-> Str(""), ttl_seconds |-> Int_(3600), max_entries |-> Int_(10000), enforce |-> Bool(FALSE)]

\* A feed is https, or plaintext to this host.
BadFeed(url) == NotHttp(url) \/ url = "http://peer"

IntelRefuses(c) ==
  IF ~c.enabled THEN {}
  ELSE When(c.feeds = {} \/ \E url \in c.feeds : BadFeed(url), "feeds")
       \cup When(c.refresh_seconds < 30, "refresh_seconds")
       \cup When(c.ttl_seconds = 0, "ttl_seconds")
       \cup When(c.max_entries = 0, "max_entries")

-----------------------------------------------------------------------------
(* Detectors: each has a switch, a score and a response besides its own keys. *)

Toggle(on, own) ==
  own @@ [enabled |-> on, score |-> Opt("integer"), respond_with |-> Opt("string")]

On == Bool(TRUE)
Off == Bool(FALSE)
Inspects == [inspect_body |-> Opt("boolean"), inspect_headers |-> Opt("strings")]

DetectorKeys ==
  "crawler-verification" :> Toggle(Off, [treat_missing_ptr_as_forgery |-> Opt("boolean"),
                              ranges_refresh_hours |-> Int_(12), published_ranges |-> Bool(FALSE)])
  @@ "trap" :> Toggle(Off, [paths |-> Strs({}), form_fields |-> Opt("strings"), header_name |-> Opt("string")])
  @@ "payload-injection" :> Toggle(On, Inspects)
  @@ "ssrf-probe" :> Toggle(On, Inspects)
  @@ "nosql-injection" :> Toggle(On, [inspect_body |-> Opt("boolean")])
  @@ "prototype-pollution" :> Toggle(On, [inspect_body |-> Opt("boolean")])
  @@ "insecure-deserialization" :> Toggle(On, Inspects)
  @@ "graphql-abuse" :> Toggle(On, [max_depth |-> Opt("integer"), inspect_body |-> Opt("boolean")])
  @@ "jwt-weakness" :> Toggle(On, [inspect_headers |-> Opt("strings")])
  @@ "crlf-injection" :> Toggle(On, [inspect_headers |-> Opt("strings")])
  @@ "web-shell" :> Toggle(On, [patterns |-> Opt("regexps")])
  @@ "open-redirect" :> Toggle(On, [params |-> Opt("strings"), trusted_hosts |-> Opt("strings")])
  @@ "header-anomaly" :> Toggle(On, [flag_missing_host |-> Opt("boolean")])
  @@ "header-integrity" :> Toggle(On, [duplicate_score |-> Opt("integer")])
  @@ "target-integrity" :> Toggle(On, [weak_score |-> Opt("integer")])
  @@ "host-header-injection" :> Toggle(On, [expected_hosts |-> Strs({})])

BehaviourKeys ==
  LET window == [window_ms |-> Opt("integer")] IN
  "sensitive-file" :> Toggle(On, [patterns |-> Opt("regexps")])
  @@ "suspicious-method" :> Toggle(On, [methods |-> Opt("strings")])
  @@ "credential-bruteforce" :> Toggle(On, window @@ [auth_paths |-> Opt("regexp"), attempt_threshold |-> Opt("integer")])
  @@ "path-bruteforce" :> Toggle(On, window @@ [unique_path_threshold |-> Opt("integer")])
  @@ "scanner-signature" :> Toggle(On, [extra_patterns |-> Opt("regexps"), flag_missing_user_agent |-> Opt("boolean")])
  @@ "client-anomaly" :> Toggle(On, [required_browser_headers |-> Opt("strings")])
  @@ "marker-drift" :> Toggle(Off, window @@ [distinct_ip_threshold |-> Opt("integer")])
  @@ "path-novelty" :> Toggle(Off, window @@ [unseen_path_threshold |-> Opt("integer"), walker_threshold |-> Opt("integer"),
                              min_observations |-> Opt("integer"), min_served_paths |-> Opt("integer")])
  @@ "repeat-actor" :> Toggle(On, window @@ [distinct_ip_threshold |-> Opt("integer")])
  @@ "rate-spike" :> Toggle(On, window @@ [request_threshold |-> Opt("integer")])

\* capped(): a threshold its registry can never reach would never fire.
Capped(value, cap) == Given(value) /\ value > cap

DetectorRefuses(id, c) ==
  CASE id = "crawler-verification"  -> When(c.ranges_refresh_hours < 1, "ranges_refresh_hours")
    [] id = "trap"                  -> When(c.paths \cap NoSlash # {}, "paths")
    [] id = "host-header-injection" -> When(c.expected_hosts \cap {"", "example.com:8443"} # {}, "expected_hosts")
    [] id = "credential-bruteforce" -> When(Capped(c.attempt_threshold, MaxEvents), "attempt_threshold")
    [] id = "path-bruteforce"       -> When(Capped(c.unique_path_threshold, MaxEvents), "unique_path_threshold")
    [] id \in {"marker-drift", "repeat-actor"} ->
         When(Capped(c.distinct_ip_threshold, MaxIpsPerFingerprint), "distinct_ip_threshold")
    [] OTHER -> {}

DecoyKeys ==
  [id |-> Opt("string"), description |-> Opt("string"), path |-> Opt("string"), pattern |-> Opt("regexp"),
   score |-> Int_(5), method |-> Opt("string"), respond_with |-> Opt("string")]

\* A decoy is reached by a path or a pattern, not both.
DecoyRefuses(d) ==
  When(~Given(d.id), "id") \cup When(Given(d.path) = Given(d.pattern), "path")

DecoyPathKeys ==
  [enabled |-> Bool(TRUE), replace_defaults |-> Bool(FALSE), disabled |-> Strs({}), decoys |-> Tables]

DecoyPathRefuses(c) ==
  UNION {Wrong(d, DecoyKeys) \cup DecoyRefuses(Read(d, DecoyKeys)) : d \in {c.decoys[i] : i \in DOMAIN c.decoys}}
  \cup When(~(c.disabled \subseteq BuiltinDecoys), "disabled")

\* Tokens are strings or tables of a value and a label; both are written as tables.
TokenKeys == [value |-> Opt("string"), label |-> Opt("string")]

HoneytokenKeys == Toggle(Opt("boolean"), [tokens |-> Tables])

HoneytokenRefuses(c) ==
  UNION {Wrong(t, TokenKeys) \cup When(~Given(Read(t, TokenKeys).value), "value") :
           t \in {c.tokens[i] : i \in DOMAIN c.tokens}}

Detectors == DOMAIN DetectorKeys \cup DOMAIN BehaviourKeys \cup {"decoy-path", "honeytoken"}

-----------------------------------------------------------------------------
(* Response actions.                                                         *)

ResponseKeys ==
  LET Action(own) == own @@ [enabled |-> Bool(TRUE)]
      held        == [max_concurrent |-> Opt("integer")]
      answer      == [status |-> Opt("integer"), body |-> Opt("string")]
  IN  "block" :> Action(answer @@ [duration_ms |-> Opt("integer"), send_retry_after |-> Opt("boolean")])
      @@ "tarpit" :> Action(answer @@ held @@ [delay_ms |-> Opt("range"), escalate |-> Opt("boolean")])
      @@ "drip-feed" :> Action(held @@ [chunk_bytes |-> Opt("integer"), interval_ms |-> Opt("integer"),
                                        max_duration_ms |-> Opt("integer"), status |-> Opt("integer")])
      @@ "large-payload" :> Action(held @@ [total_bytes |-> Opt("integer"), chunk_bytes |-> Opt("integer"),
                                            throttle_ms |-> Opt("integer"), content_type |-> Opt("string")])
      @@ "fake-success" :> Action(answer @@ [content_type |-> Opt("string"), set_session_cookie |-> Opt("boolean")])
      @@ "fake-data" :> Action([names |-> Opt("strings"), domain |-> Opt("string"), rows |-> Opt("integer")])
      @@ "gzip-bomb" :> Action([decompressed_bytes |-> Opt("integer"), content_type |-> Opt("string")])
      @@ "chaos" :> Action([statuses |-> Opt("integers"), garbage_chance |-> Opt("number"), max_garbage_bytes |-> Opt("integer")])
      @@ "rate-limit" :> Action(answer @@ [retry_after_seconds |-> Opt("integer")])
      @@ "pass" :> Action(<<>>) @@ "decoy-content" :> Action(<<>>)
      @@ "not-found" :> Action(<<>>) @@ "redirect" :> Action(<<>>)

Responses == DOMAIN ResponseKeys

MaxGzipBombBytes == 268435456

ResponseRefuses(id, c) ==
  CASE id = "large-payload" -> When(Given(c.chunk_bytes) /\ c.chunk_bytes < 1, "chunk_bytes")
    [] id = "gzip-bomb"     -> When(Given(c.decompressed_bytes) /\ c.decompressed_bytes > MaxGzipBombBytes, "decompressed_bytes")
    [] id = "chaos"         -> When(NotAShare(c.garbage_chance), "garbage_chance")
                               \cup When(Given(c.max_garbage_bytes) /\ c.max_garbage_bytes < 64, "max_garbage_bytes")
                               \cup When(c.statuses = {}, "statuses")
    [] OTHER -> {}

-----------------------------------------------------------------------------
(* The tables that open a port or send evidence out. *)

PortScanKeys ==
  [enabled |-> Opt("boolean"), ports |-> Field("ports", {}), host |-> Str("0.0.0.0"), scan_threshold |-> Int_(2),
   banner |-> Str("SSH-2.0-OpenSSH_8.4"), max_tracked_ips |-> Int_(10000), retention_ms |-> Int_(3600000)]

PortScanRefuses(c) ==
  When(c.max_tracked_ips = 0, "max_tracked_ips") \cup When(c.retention_ms = 0, "retention_ms")

\* What every protocol honeypot is told, and what those with a shell are.
Protocol(port, banner) ==
  [enabled |-> Bool(FALSE), port |-> Port(port), host |-> Str("0.0.0.0"), banner |-> Str(banner),
   drop_above_score |-> Int_(0), max_connections |-> Int_(256), max_session_ms |-> Int_(120000)]

Shell(attempts, length) ==
  [max_auth_attempts |-> Int_(attempts), interactive |-> Bool(FALSE), accept_on_attempt |-> Int_(1),
   max_commands |-> Int_(100), max_command_length |-> Int_(length)]

SmtpKeys ==
  Protocol(2525, "Postfix")
  @@ [hostname |-> Str("mail"), local_domains |-> Strs({}), capture_body |-> Bool(TRUE), max_body_chars |-> Int_(2000)]

SshKeys ==
  [key \in DOMAIN Protocol(2222, "") \ {"banner"} |-> Protocol(2222, "")[key]]
  @@ Shell(6, 4096)
  @@ [ident |-> Str("OpenSSH_8.4"), host_keys |-> Strs({}), host_key_files |-> Strs({}), shell_hostname |-> Str("srv01")]

FtpKeys == Protocol(2121, "(vsFTPd 3.0.3)") @@ Shell(6, 512)

TelnetKeys == Protocol(2323, "Ubuntu 22.04.3 LTS") @@ Shell(3, 4096) @@ [hostname |-> Str("srv01")]

SmtpRefuses(c) ==
  When(c.enabled /\ c.port = 0, "port") \cup When(c.max_session_ms = 0, "max_session_ms")
  \cup When(c.capture_body /\ c.max_body_chars = 0, "max_body_chars")

\* An interactive shell is entered before the attempts run out, and takes commands.
ShellRefuses(c) ==
  IF ~c.interactive THEN {}
  ELSE When(c.accept_on_attempt \notin 1 .. c.max_auth_attempts, "accept_on_attempt")
       \cup When(c.max_commands = 0, "max_commands")

SshRefuses(c) ==
  When(c.max_session_ms = 0, "max_session_ms") \cup When(c.max_auth_attempts = 0, "max_auth_attempts")
  \cup ShellRefuses(c) \cup When(c.interactive /\ c.max_command_length = 0, "max_command_length")

FtpRefuses(c) ==
  When(c.enabled /\ c.port = 0, "port") \cup When(c.max_auth_attempts = 0, "max_auth_attempts")
  \cup When(c.max_session_ms = 0, "max_session_ms") \cup When(c.max_command_length = 0, "max_command_length")
  \cup ShellRefuses(c)

TelnetRefuses(c) ==
  When(c.enabled /\ c.port = 0, "port") \cup When(c.max_auth_attempts = 0, "max_auth_attempts")
  \cup When(c.max_command_length = 0, "max_command_length") \cup When(c.max_session_ms = 0, "max_session_ms")
  \cup ShellRefuses(c)

-----------------------------------------------------------------------------
(* Where evidence goes.                                                      *)

SyslogKeys ==
  [enabled |-> Opt("boolean"), host |-> Str(""), port |-> Port(514), protocol |-> Enum({"udp", "tcp"}, "udp"),
   format |-> Enum({"cef", "json", "text"}, "cef"), facility |-> Int_(13), severity |-> Int_(4),
   hostname |-> Str("hackerpot"), min_score |-> Int_(0), max_bytes |-> Int_(1024),
   include_body |-> Bool(FALSE), redact |-> Bool(TRUE), mask_ip |-> Bool(FALSE)]

SyslogRefuses(c) ==
  When(c.enabled /\ c.host = "", "host") \cup When(c.enabled /\ c.port = 0, "port")
  \cup When(c.facility > 23, "facility") \cup When(c.severity > 7, "severity") \cup When(c.max_bytes < 480, "max_bytes")

WebhookKeys ==
  [url |-> Opt("string"), format |-> Enum({"hackerpot", "slack", "discord"}, "hackerpot"), secret |-> Opt("string"),
   headers |-> StrTable, max_retries |-> Opt("integer"), min_score |-> Opt("integer"),
   dedupe_window_seconds |-> Opt("integer"), omit_body |-> Opt("boolean"), redact |-> Opt("boolean"),
   mask_ip |-> Opt("boolean"), anomalies |-> Opt("boolean"), throttle_window_seconds |-> Opt("integer"),
   max_per_window |-> Opt("integer"), max_in_flight |-> Opt("integer"), timeout_ms |-> Opt("integer")]

WebhookRefuses(w) ==
  When(~Given(w.url) \/ NotHttp(w.url), "url")
  \cup When(Given(w.throttle_window_seconds) # Given(w.max_per_window), "throttle_window_seconds")
  \cup {key \in {"throttle_window_seconds", "max_per_window", "max_in_flight", "timeout_ms"} : w[key] = 0}

WebhooksRefuse(webhooks) ==
  UNION {Wrong(w, WebhookKeys) \cup WebhookRefuses(Read(w, WebhookKeys)) : w \in {webhooks[i] : i \in DOMAIN webhooks}}

ManagementKeys ==
  [enabled |-> Opt("boolean"), host |-> Str("127.0.0.1"), port |-> Port(9500), api_keys |-> Strs({}),
   websocket |-> Bool(TRUE), webhooks |-> Tables, webhook_global_max_per_minute |-> Int_(0)]

ManagementRefuses(c) == When(c.enabled /\ c.api_keys = {}, "api_keys") \cup WebhooksRefuse(c.webhooks)

-----------------------------------------------------------------------------
(* The dashboard.                                                            *)

DashboardSections == {"overview", "incidents", "statistics", "sessions", "actors", "intel"}

DashboardKeys ==
  [enabled |-> Bool(FALSE), host |-> Str("127.0.0.1"), port |-> Port(9501), base_path |-> Str("/"),
   title |-> Str("hackerpot"), instance |-> Str(""), username |-> Str(""), password |-> Str(""), token |-> Str(""),
   auth |-> Enum({"default", "basic", "token", "none"}, "default"),
   refusal |-> Enum({"unauthorized", "not-found", "close"}, "unauthorized"),
   allowed_hosts |-> Strs({}), allowed_clients |-> Ips, redact_credentials |-> Bool(TRUE), mask_ip |-> Bool(FALSE),
   hide |-> Strs({}), management_url |-> Str(""), management_api_key |-> Str("")]

\* Under "default" the credentials written decide: a token before a user name.
AuthKind(c) ==
  IF c.auth # "default" THEN c.auth
  ELSE IF c.token # "" THEN "token"
  ELSE IF c.username # "" \/ c.password # "" THEN "basic"
  ELSE "default"

TooShort(token) == token \in {"", "short"}

\* What must hold of the listener whoever set it, the file or the environment.
ListenerRefuses(c) ==
  When(c.enabled /\ c.host \notin Loopback /\ AuthKind(c) = "default", "auth")
  \cup When(AuthKind(c) = "basic" /\ c.refusal # "unauthorized", "refusal")

DashboardRefuses(c) ==
  When(AuthKind(c) = "token" /\ TooShort(c.token), "token")
  \cup When(AuthKind(c) = "basic" /\ (c.username = "" \/ c.password = ""), "username")
  \cup When(~(c.hide \subseteq DashboardSections), "hide")
  \cup ListenerRefuses(c)
=============================================================================
