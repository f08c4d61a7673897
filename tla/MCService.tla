------------------------------ MODULE MCService ------------------------------
(* An instance of Service for TLC: files an operator may have or write.       *)
EXTENDS Service

S(x) == Raw("string", x)
N(x) == Raw("number", x)
B(x) == Raw("boolean", x)
L(x) == Raw("strings", x)

Base ==
  "intel" :> [feeds |-> L({"https://a"}), max_entries |-> N(1)]
  @@ "allowlist" :> [ips |-> L({"10.0.0.9"})]
  @@ "store.file" :> [path |-> S("hits.jsonl")]
  @@ "blocklist.enforcer" :> [command |-> S("nft"), args |-> L({"{ip}"})]
  @@ "management" :> [api_keys |-> L({"key"})]

With(file, name, table) == name :> table @@ file

Trap(path) == With(Base, "detectors.trap", [enabled |-> B(TRUE), paths |-> L({path})])

\* What an operator writes over it while it runs.
LiveFiles ==
  "base"      :> Base
  @@ "exempt" :> With(Trap("/trap"), "allowlist", [ips |-> L({"10.0.0.9", "10.0.0.1"})])
  @@ "feeds"  :> With(Base, "intel", [feeds |-> L({"http://localhost"}), max_entries |-> N(2)])
  @@ "moved"  :> With(With(Base, "server", [port |-> N(5000)]),
                      "service_tokens", [tokens |-> Raw("stringTable", <<>>), header |-> S("x-t")])
  @@ "badtrap" :> Trap("trap")

\* What it is started with besides.
StartFiles ==
  LiveFiles
  @@ "enforce" :> With(With(Base, "intel", [feeds |-> L({"https://a", "http://localhost"}), enforce |-> B(TRUE)]),
                       "policy", [preset |-> S("standalone"),
                                  rules |-> Raw("tables", <<[id |-> S("proof-block"), respond_with |-> S("tarpit")]>>)])
  @@ "page"    :> With(Base, "dashboard", [enabled |-> B(TRUE)])
  @@ "typo"    :> With(Base, "intel", [feed |-> L({"https://a"})])
  @@ "twins"   :> With(Base, "policy", [rules |-> Raw("tables", <<[id |-> S("r"), respond_with |-> S("block")],
                                                                [id |-> S("r"), respond_with |-> S("tarpit")]>>)])
  @@ "clash"   :> With(Base, "smtp", [enabled |-> B(TRUE), port |-> N(4004)])
  @@ "keyless" :> With(Base, "ssh", [enabled |-> B(TRUE), host_key_files |-> L({"gone"})])
  @@ "garbled" :> Garbled
  @@ "none"    :> Missing

FileNames == DOMAIN StartFiles
EditNames == DOMAIN LiveFiles

EnvTable ==
  "plain" :> <<>>
  @@ "clients" :> [DASHBOARD_ALLOWED_CLIENTS |-> Raw("strings", {"nowhere"})]
  @@ "proxies" :> [TRUSTED_PROXIES |-> Raw("strings", {"nowhere"})]
EnvNames == DOMAIN EnvTable

EveryStart == ({"plain"} \X FileNames) \cup {<<"clients", "page">>, <<"proxies", "base">>}

CommandLines == {<<>>, <<"serve", "--config", "hackerpot.toml">>, <<"check">>, <<"replay">>, <<"dashboard">>,
                 <<"--help">>, <<"explain", "--json">>, <<"nonsense">>}

Url(scheme, host) == [scheme |-> scheme, host |-> host]
Urls == "https://a" :> Url("https", "a") @@ "http://localhost" :> Url("http", "localhost")

Peers ==
  "https://a" :> {<<Listing(<<"10.0.0.1", "# peer", "10.0.0.1", "10.0.0.2">>)>>,
                  <<Redirect(Url("https", "b")), Listing(<<"10.0.0.9", "10.0.0.2">>)>>,
                  <<Redirect(Url("http", "b")), Listing(<<"10.0.0.2">>)>>, <<NoAnswer>>}
  @@ "http://localhost" :> {<<Listing(<<"10.0.0.1">>)>>, <<NoAnswer>>}
=============================================================================
