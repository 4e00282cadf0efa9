------------------------------- MODULE Config -------------------------------
(***************************************************************************)
(* From the command line to a configuration (src/cli.rs, src/config/mod.rs,*)
(* the configuration errors of src/error.rs).  A TOML table is a function  *)
(* from keys to values; the keys the model leaves out have no effect on    *)
(* what is modelled.                                                       *)
(***************************************************************************)
EXTENDS Interpolate, Durations, FiniteSets

Absent == <<>>      \* an Option<String> that is None; blank ones count as None

-----------------------------------------------------------------------------
\* Cli::command and Cli::config_path.
command(cli) == IF cli.stdio \/ cli.command = "none" THEN "stdio" ELSE cli.command

config_path(cli, files, dirs) ==
  CASE cli.config # "none" -> cli.config
    [] cli.config = "none" /\ files["local"].kind # "absent" -> "local"
    [] OTHER -> IF dirs.xdg THEN "xdg" ELSE IF dirs.home THEN "home" ELSE "local"

-----------------------------------------------------------------------------
\* The tables: the keys serde requires and its values for those left out.
ServerConfig  == [required |-> {}, default |-> [auth_token |-> Absent]]
Limits        == [required |-> {},
                  default |-> [default_tool_timeout |-> 30000, max_tool_timeout |-> 300000,
                               max_concurrent_calls |-> 16, max_concurrent_spawns |-> 1]]
ProxyConfig   == [required |-> {"name", "url"},
                  default |-> [bearer |-> Absent, timeout |-> 30000, enabled |-> TRUE]]
SidecarConfig == [required |-> {"name", "command"},
                  default |-> [startup_timeout |-> 20000, enabled |-> TRUE]]
\* The crate ssh-mcp owns this one; `auth` is its has_auth_method().
SshServerConfig == [required |-> {"name", "host", "user"},
                    default |-> [whitelist |-> {}, blacklist |-> {}, fingerprint |-> Absent,
                                 auth |-> FALSE]]

TextKeys     == {"auth_token", "name", "url", "bearer", "command", "host", "user",
                 "fingerprint"}
DurationKeys == {"default_tool_timeout", "max_tool_timeout", "timeout", "startup_timeout"}
CountKeys    == {"max_concurrent_calls", "max_concurrent_spawns"}

TextsIn(table)     == DOMAIN table \cap TextKeys
DurationsIn(table) == DOMAIN table \cap DurationKeys
CountsIn(table)    == DOMAIN table \cap CountKeys

\* expand_toml: string values only.
Unresolved(table, env) == \E k \in TextsIn(table) : ~expand(table[k], env).ok

ExpandTable(table, env) ==
  [k \in DOMAIN table |-> IF k \in TextsIn(table) THEN expand(table[k], env).text ELSE table[k]]

\* deny_unknown_fields, the required keys, HumanDuration::deserialize and the
\* fields of type usize.
Fits(table, type) == /\ type.required \subseteq DOMAIN table
                     /\ DOMAIN table \subseteq type.required \cup DOMAIN type.default
                     /\ \A k \in DurationsIn(table) : Parses(table[k])
                     /\ \A k \in CountsIn(table) : table[k] \in Nat

Deserialized(table, type) ==
  [k \in DOMAIN table \cup DOMAIN type.default |->
     CASE k \in DurationsIn(table)               -> parse(table[k])
       [] k \in DOMAIN table \ DurationsIn(table) -> table[k]
       [] OTHER                                  -> type.default[k]]

-----------------------------------------------------------------------------
Defaults == [server |-> ServerConfig.default, limits |-> Limits.default,
             proxies |-> <<>>, sidecars |-> <<>>, ssh |-> <<>>]

\* The tables of a document with their types.
Tables(file) ==
  <<[table |-> file.server, type |-> ServerConfig], [table |-> file.limits, type |-> Limits]>>
  \o [i \in DOMAIN file.proxies |-> [table |-> file.proxies[i], type |-> ProxyConfig]]
  \o [i \in DOMAIN file.sidecars |-> [table |-> file.sidecars[i], type |-> SidecarConfig]]
  \o [i \in DOMAIN file.ssh |-> [table |-> file.ssh[i], type |-> SshServerConfig]]

ConfigOf(file, env) ==
  LET Read(table, type) == Deserialized(ExpandTable(table, env), type) IN
  [server   |-> Read(file.server, ServerConfig),
   limits   |-> Read(file.limits, Limits),
   proxies  |-> [i \in DOMAIN file.proxies |-> Read(file.proxies[i], ProxyConfig)],
   sidecars |-> [i \in DOMAIN file.sidecars |-> Read(file.sidecars[i], SidecarConfig)],
   ssh      |-> [i \in DOMAIN file.ssh |-> Read(file.ssh[i], SshServerConfig)]]

\* validate(): the names of all backends, disabled ones too.
NamesOf(config) == [i \in DOMAIN config.proxies |-> config.proxies[i].name]
                   \o [i \in DOMAIN config.sidecars |-> config.sidecars[i].name]

Mutant_EachTheirOwn(config) ==
  /\ \A n \in ToSet(NamesOf(config)) : trim(n) # <<>>
  /\ IsInjective([i \in DOMAIN config.proxies |-> config.proxies[i].name])
  /\ IsInjective([i \in DOMAIN config.sidecars |-> config.sidecars[i].name])
NamesAreDistinct(config) == /\ \A n \in ToSet(NamesOf(config)) : trim(n) # <<>>
                            /\ IsInjective(NamesOf(config))

Mutant_AnyNumber(limits) == limits.default_tool_timeout <= limits.max_tool_timeout
LimitsAreUsable(limits) ==
  /\ limits.max_concurrent_calls # 0
  /\ limits.max_concurrent_spawns # 0
  /\ limits.default_tool_timeout <= limits.max_tool_timeout

\* Regex::new, and the characters of a base64 digest.
Compiles(pattern)  == pattern # "unparseable"
Digest(fingerprint) ==
  LET raw == trim(fingerprint) IN
  IF raw # <<>> /\ Head(raw) = "SHA256:" THEN Tail(raw) ELSE raw

PlausiblePin(fingerprint) ==
  trim(fingerprint) # <<>> =>
    Digest(fingerprint) # <<>> /\ "notBase64" \notin ToSet(Digest(fingerprint))

validate_ssh(config) ==
  /\ IsInjective([i \in DOMAIN config.ssh |-> config.ssh[i].name])
  /\ \A s \in ToSet(config.ssh) :
       /\ trim(s.name) # <<>> /\ trim(s.host) # <<>> /\ trim(s.user) # <<>>
       /\ \A pattern \in s.whitelist \cup s.blacklist : Compiles(pattern)
       /\ PlausiblePin(s.fingerprint)
       /\ s.auth

validate(config) ==
  /\ LimitsAreUsable(config.limits)
  /\ NamesAreDistinct(config)
  /\ \A i \in DOMAIN config.proxies :
       config.proxies[i].url # <<>> /\ Head(config.proxies[i].url) \in {"http://", "https://"}
  /\ \A i \in DOMAIN config.sidecars : trim(config.sidecars[i].command) # <<>>
  /\ validate_ssh(config)

\* Config::load_or_default: a configuration, or the error that is reported.
Loaded(config) == [ok |-> TRUE, config |-> config]
Refused(error) == [ok |-> FALSE, error |-> error]

load_or_default(file, env) ==
  CASE file.kind = "absent"     -> Loaded(Defaults)
    [] file.kind = "unreadable" -> Refused("Read")
    [] file.kind = "notToml"    -> Refused("Parse")
    [] file.kind = "toml" ->
         LET tables == Tables(file) IN
         IF \E i \in DOMAIN tables : Unresolved(tables[i].table, env)
           THEN Refused("MissingEnv")
         ELSE IF \E i \in DOMAIN tables : ~Fits(tables[i].table, tables[i].type)
           THEN Refused("Parse")
         ELSE IF ~validate(ConfigOf(file, env))
           THEN Refused("Invalid")
         ELSE Loaded(ConfigOf(file, env))

\* ServerConfig::auth_token: blank counts as absent.
auth_token(config) == trim(config.server.auth_token)

Enabled(tables) ==
  LET kept[i \in 0 .. Len(tables)] ==
        CASE i = 0                         -> <<>>
          [] i # 0 /\ tables[i].enabled    -> Append(kept[i - 1], tables[i])
          [] OTHER                         -> kept[i - 1]
  IN  kept[Len(tables)]
=============================================================================
