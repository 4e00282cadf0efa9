------------------------------- MODULE Gateway -------------------------------
(***************************************************************************)
(* The process from its command line to its end (src/main.rs), with the    *)
(* HTTP transport (src/server/http.rs) and requests that reach the native  *)
(* backend (src/backend/native.rs) or the first enabled proxy.  Of the     *)
(* router only what a request sees is here: who owns its tool after the    *)
(* last sweep, and the permits.  How sweeps are shared is in Router, what  *)
(* the stdio transport does in Stdio.                                      *)
(***************************************************************************)
EXTENDS Config, Dispatch, Proxy

CONSTANTS Requests,     \* the HTTP requests
          Sweeper,      \* the user of the proxy that lists its tools
          Worlds,       \* what the process may find: command line, files, clients
          MaxSweeps     \* bound: how many sweeps there are

ASSUME UsersAssumption == Sweeper \notin Requests /\ Users = Requests \cup {Sweeper}
ASSUME RequestsAssumption == IsFiniteSet(Requests)
\* warm_up() sweeps once.
ASSUME MaxSweepsAssumption == MaxSweeps \in Nat \ {0}

\* What axum rejects a body with; a message without params has no version in them;
\* an argument that is unsigned is one.
ASSUME MessagesAssumption ==
  \A world \in Worlds, r \in Requests : \A m \in world.asks[r] :
    /\ m.http \in {200, 400, 413, 415, 422}
    /\ m.params \/ m.version = None
    /\ \A key \in {"timeout", "timeout_ms"} : U64(m.arguments, key) => m.arguments[key] \in Nat

\* The file a process reads is there or not, and its lists of tables are lists.
ASSUME FilesAssumption ==
  \A world \in Worlds :
    LET file == world.files[config_path(world.cli, world.files, world.dirs)] IN
    /\ file.kind \in {"absent", "unreadable", "notToml", "toml"}
    /\ file.kind = "toml" =>
         \A tables \in {file.proxies, file.sidecars, file.ssh} :
           Len(tables) \in Nat /\ DOMAIN tables = 1 .. Len(tables)

\* Its token was written from the pieces that are given for it.
ASSUME PiecesAssumption ==
  \A world \in Worlds :
    LET path   == config_path(world.cli, world.files, world.dirs)
        file   == world.files[path]
        pieces == world.pieces[path]
    IN  /\ Clear(pieces)
        /\ IF file.kind = "toml" /\ "auth_token" \in DOMAIN file.server
             THEN file.server.auth_token = WrittenText(pieces)
             ELSE pieces = <<>>

VARIABLES
  given,      \* the world, which does not change
  phase,      \* how far the process is
  config,     \* the configuration, or Defaults before it is loaded
  exit,       \* the error main() reports, "success", or "none" while it runs
  failing,    \* the backends (by index) whose listing failed in the last sweep
  sweeping,   \* a sweep is going on
  sweeps,     \* how many there have been
  permits,    \* what is left of call_permits
  pc,         \* where each request is
  msg,        \* what each request says
  passed,     \* what a backend has got of it: arguments and deadline
  reply       \* the HTTP status and the body a client has got

process == <<phase, config, exit>>
table   == <<failing, sweeping, sweeps>>
request == <<pc, msg, passed, reply>>
vars    == <<given, process, table, permits, request, proxy>>

Phases == {"start", "loaded", "warming", "warm", "serving", "stdio", "stopping", "exited"}
\* A request in the hands of its handler, and one that the server still has.
Handled == {"permit", "native", "proxy", "status"}
InHand  == {"reading", "writing"} \cup Handled

Silence == [http |-> 0, body |-> NoReply]
Nothing == [arguments |-> <<>>, ms |-> 0]
NoMessage == [auth |-> Absent]

GTypeOK ==
  /\ PInv
  /\ phase \in Phases
  /\ failing \subseteq Nat /\ sweeping \in BOOLEAN /\ sweeps \in 0 .. MaxSweeps
  /\ permits \in 0 .. config.limits.max_concurrent_calls
  /\ pc \in [Requests -> {"idle", "over", "gone"} \cup InHand]

Init ==
  /\ ProxyInit
  /\ given \in Worlds
  /\ phase = "start" /\ config = Defaults /\ exit = "none"
  /\ failing = {} /\ sweeping = FALSE /\ sweeps = 0
  /\ permits = 0
  /\ pc = [r \in Requests |-> "idle"]
  /\ msg = [r \in Requests |-> NoMessage]
  /\ passed = [r \in Requests |-> Nothing]
  /\ reply = [r \in Requests |-> Silence]

-----------------------------------------------------------------------------
(* Start-up.                                                               *)

File == given.files[config_path(given.cli, given.files, given.dirs)]

Exit(why) == phase' = "exited" /\ exit' = why

Load ==
  /\ phase = "start"
  /\ \E loaded \in {load_or_default(File, given.env)} :
     IF loaded.ok THEN phase' = "loaded" /\ config' = loaded.config /\ UNCHANGED exit
                  ELSE Exit(loaded.error) /\ UNCHANGED config
  /\ UNCHANGED <<given, table, permits, request, proxy>>

\* `check` validates once more and prints.
Check ==
  /\ phase = "loaded" /\ command(given.cli) = "check"
  /\ Exit(IF validate(config) THEN "success" ELSE "Invalid")
  /\ UNCHANGED <<given, config, table, permits, request, proxy>>

\* serve_http(): the token it will ask for, and whether it goes on without.
Mutant_Waived == IF given.cli.allow THEN Absent ELSE auth_token(config)
Token == auth_token(config)

MayServe == Token # Absent \/ given.cli.allow

RefuseToServe ==
  /\ phase = "loaded" /\ command(given.cli) = "serve"
  /\ ~MayServe
  /\ Exit("UnauthenticatedHttp")
  /\ UNCHANGED <<given, config, table, permits, request, proxy>>

\* Router::build: native, the enabled sidecars, the enabled proxies.
Names == <<<<"native">>>>
         \o [i \in DOMAIN Enabled(config.sidecars) |-> Enabled(config.sidecars)[i].name]
         \o [i \in DOMAIN Enabled(config.proxies) |-> Enabled(config.proxies)[i].name]

HasProxy == Enabled(config.proxies) # <<>>
TheProxy == Len(Enabled(config.sidecars)) + 2

\* ProxyBackend::new: a bearer that is no header value is an error.
BuildsProxies ==
  \A p \in ToSet(Enabled(config.proxies)) : "newline" \notin ToSet(trim(p.bearer))

Sweep ==
  /\ sweeping' = TRUE /\ sweeps' = sweeps + 1
  /\ IF HasProxy THEN Send(Sweeper) ELSE UNCHANGED proxy
  /\ UNCHANGED failing

Mutant_Warmed == Exit("Invalid") /\ Sweep /\ UNCHANGED permits
GiveUp == Exit("Invalid") /\ UNCHANGED <<table, permits, proxy>>

\* build(): the router, and warm_up() with its sweep.
Build ==
  /\ phase = "loaded" /\ command(given.cli) # "check"
  /\ command(given.cli) = "serve" => MayServe
  /\ IF BuildsProxies
       THEN /\ phase' = "warming" /\ UNCHANGED exit
            /\ permits' = config.limits.max_concurrent_calls
            /\ Sweep
       ELSE GiveUp
  /\ UNCHANGED <<given, config, request>>

\* Every listing has ended, failed or run into discovery_timeout.
ProxyFails == CASE ~HasProxy -> {{}}
                [] HasProxy /\ at[Sweeper] = "back" /\ got[Sweeper] = "ok" -> {{}, {TheProxy}}
                [] OTHER -> {{TheProxy}}

EndSweep ==
  /\ sweeping /\ at[Sweeper] \in {"off", "back"}
  /\ sweeping' = FALSE
  /\ \E others \in SUBSET ((2 .. Len(Names)) \ {TheProxy}), own \in ProxyFails :
       failing' = others \cup own
  /\ phase' = IF phase = "warming" THEN "warm" ELSE phase
  /\ IF at[Sweeper] = "back" THEN Leave(Sweeper) ELSE UNCHANGED proxy
  /\ UNCHANGED <<given, config, exit, sweeps, permits, request>>

\* discovery_timeout
CutSweep == phase # "exited" /\ Drop(Sweeper) /\ UNCHANGED <<given, process, table, permits, request>>

\* `tools` prints the list and ends; the others start their transport.
StartTransport ==
  /\ phase = "warm"
  /\ \/ command(given.cli) = "tools" /\ Exit("success")
     \/ command(given.cli) = "stdio" /\ phase' = "stdio" /\ UNCHANGED exit
     \/ command(given.cli) = "serve" /\ phase' = "serving" /\ UNCHANGED exit
     \/ command(given.cli) = "serve" /\ Exit("Bind")
  /\ UNCHANGED <<given, config, table, permits, request, proxy>>

EndOfStdio ==
  /\ phase = "stdio"
  /\ \E why \in {"success", "Io"} : Exit(why)
  /\ UNCHANGED <<given, config, table, permits, request, proxy>>

\* ctrl_c: no new requests, and the process ends when the server has none left.
Interrupt ==
  /\ phase = "serving"
  /\ phase' = "stopping"
  /\ UNCHANGED <<given, config, exit, table, permits, request, proxy>>

Shutdown ==
  /\ phase = "stopping"
  /\ ~sweeping /\ \A r \in Requests : pc[r] \notin InHand
  /\ Exit("success")
  /\ UNCHANGED <<given, config, table, permits, request, proxy>>

-----------------------------------------------------------------------------
(* Requests.                                                               *)

authorize(m) ==
  Token # Absent => trim(IF m.bearer THEN m.auth ELSE <<>>) = Token

Respond(r, http, body) ==
  /\ reply' = [reply EXCEPT ![r] = [http |-> http, body |-> body]]
  /\ pc' = [pc EXCEPT ![r] = "writing"]

\* handle_rpc, router.handle: what needs no backend is answered in one go.
Answer(m) ==
  CASE ~authorize(m) -> [http |-> 401, body |-> RpcError(None, Code.Unauthorized)]
    [] authorize(m) /\ m.http # 200 ->
         [http |-> m.http, body |-> RpcError(None, Code.ParseError)]
    [] authorize(m) /\ m.http = 200 /\ is_notification(m) -> [http |-> 202, body |-> NoReply]
    [] OTHER -> [http |-> 200, body |-> AtOnce(m)]

TakenOn(m)      == authorize(m) /\ m.http = 200 /\ ~is_notification(m)
NeedsBackend(m) == TakenOn(m) /\ CallsTool(m)
ListsTools(m)   == TakenOn(m) /\ m.method = "tools/list"

\* The table has expired, or does not have a tool, and a request sweeps again.
Resweep ==
  /\ ~sweeping /\ sweeps < MaxSweeps
  /\ \E r \in Requests : \/ pc[r] \in {"permit", "status"}
                         \/ pc[r] = "reading" /\ \E m \in given.asks[r] : ListsTools(m)
  /\ Sweep
  /\ UNCHANGED <<given, process, permits, request>>

\* Its head has arrived; nothing limits how long the Json extractor waits for
\* the body, nor hyper for the client to read the response.
Accept(r) ==
  /\ phase = "serving" /\ pc[r] = "idle" /\ given.asks[r] # {}
  /\ pc' = [pc EXCEPT ![r] = "reading"]
  /\ UNCHANGED <<given, process, table, permits, msg, passed, reply, proxy>>

Arrives(r, m) ==
  /\ pc[r] = "reading"
  /\ m \in given.asks[r]
  /\ msg' = [msg EXCEPT ![r] = m]
  /\ UNCHANGED <<given, process, table, permits, passed>>

AnswerAtOnce(r) == \E m \in given.asks[r] :
  /\ Arrives(r, m)
  /\ ~NeedsBackend(m)
  /\ Respond(r, Answer(m).http, Answer(m).body)
  /\ UNCHANGED proxy

BeginStatus(r) == \E m \in given.asks[r] :
  /\ Arrives(r, m)
  /\ NeedsBackend(m) /\ m.name = "omni_status"
  /\ pc' = [pc EXCEPT ![r] = "status"] /\ UNCHANGED reply
  /\ IF HasProxy THEN Ask(r) ELSE UNCHANGED proxy

BeginCall(r) == \E m \in given.asks[r] :
  /\ Arrives(r, m)
  /\ NeedsBackend(m) /\ m.name # "omni_status"
  /\ pc' = [pc EXCEPT ![r] = "permit"] /\ UNCHANGED <<reply, proxy>>

Deliver(r) ==
  /\ pc[r] = "writing"
  /\ pc' = [pc EXCEPT ![r] = "over"]
  /\ UNCHANGED <<given, process, table, permits, msg, passed, reply, proxy>>

\* status_report()
Report(r) ==
  /\ pc[r] = "status"
  /\ IF HasProxy THEN at[r] = "told" /\ Leave(r) ELSE UNCHANGED proxy
  /\ Respond(r, 200, ReplyTo(msg[r], "ok"))
  /\ UNCHANGED <<given, process, table, permits, msg, passed>>

\* invoke(): the SSH tools exist only if a server is configured.
NativeTools == {"grep_search"} \cup (IF config.ssh = <<>> THEN {} ELSE {"ssh_execute"})
OnProxy(name) == HasProxy /\ TheProxy \notin failing /\ name = "search"

Admitted(r) == pc[r] = "permit" /\ permits > 0

\* ProxyConfig.timeout bounds every exchange with the proxy.
OwnTimeout == Enabled(config.proxies)[1].timeout

Passed(m, place) ==
  LET ms == deadline(m.arguments, config.limits) * 1000 IN
  IF place = "proxy"
    THEN [arguments |-> Forwarded(m.arguments, given.schema),
          ms        |-> IF OwnTimeout < ms THEN OwnTimeout ELSE ms]
    ELSE [arguments |-> m.arguments, ms |-> ms]

Take(r, place) ==
  /\ permits' = permits - 1
  /\ pc' = [pc EXCEPT ![r] = place]
  /\ passed' = [passed EXCEPT ![r] = Passed(msg[r], place)]
  /\ UNCHANGED <<given, process, table, msg, reply>>

CallNative(r) ==
  Admitted(r) /\ msg[r].name \in NativeTools /\ Take(r, "native") /\ UNCHANGED proxy
CallProxy(r) ==
  Admitted(r) /\ OnProxy(msg[r].name) /\ Take(r, "proxy") /\ Send(r)

\* A permit is held while another sweep looks for the tool in vain; the sweep
\* that finds it after all is a Resweep, and CallProxy follows it.
NotFound(r) ==
  /\ Admitted(r)
  /\ msg[r].name \notin NativeTools /\ ~OnProxy(msg[r].name)
  /\ Respond(r, 200, ReplyTo(msg[r], "NotFound"))
  /\ UNCHANGED <<given, process, table, permits, msg, passed, proxy>>

\* A tool of the binary returns, fails, or is cut off by its deadline; a proxy's
\* result may have no such form.
NativeOutcomes == {"ok", "complaint", "InvalidArguments", "NotFound", "Denied",
                   "Timeout", "Failed"}
ProxyOutcomes(outcome) == IF outcome = "ok" THEN {"ok", "complaint", "Failed"} ELSE {outcome}

Return(r, outcomes) ==
  /\ \E outcome \in outcomes : Respond(r, 200, ReplyTo(msg[r], outcome))
  /\ permits' = permits + 1
  /\ UNCHANGED <<given, process, table, msg, passed>>

NativeReturns(r) == pc[r] = "native" /\ Return(r, NativeOutcomes) /\ UNCHANGED proxy

ProxyReturns(r) ==
  /\ pc[r] = "proxy" /\ at[r] = "back"
  /\ Return(r, ProxyOutcomes(got[r]))
  /\ Leave(r)

\* The client is gone: the handler is dropped, with the permit it has.
Mutant_Always(r) == 1
Held(r) == IF pc[r] \in {"native", "proxy"} THEN 1 ELSE 0

HangUp(r) ==
  /\ pc[r] \in InHand
  /\ permits' = permits + Held(r)
  /\ pc' = [pc EXCEPT ![r] = "gone"]
  /\ IF at[r] = "off" THEN UNCHANGED proxy ELSE Drop(r) \/ Leave(r)
  /\ UNCHANGED <<given, process, table, msg, passed, reply>>

\* The exchanges themselves: what the server sends, and the rest.
Exchange == phase # "exited" /\ UNCHANGED <<given, process, table, permits, request>>
Served(u)  == Exchange /\ \E sent \in Replies : Interpret(u, sent)
Proceed(u) == Exchange /\ ProxyStep(u)

-----------------------------------------------------------------------------
StartUp == Load \/ Check \/ RefuseToServe \/ Build \/ StartTransport
Started(r) == AnswerAtOnce(r) \/ BeginStatus(r) \/ BeginCall(r)
Own(r)  == \/ Report(r) \/ CallNative(r) \/ CallProxy(r) \/ NotFound(r)
           \/ NativeReturns(r) \/ ProxyReturns(r)

Next == \/ StartUp \/ EndSweep \/ Resweep \/ CutSweep \/ EndOfStdio \/ Interrupt \/ Shutdown
        \/ \E r \in Requests : \/ Accept(r) \/ Started(r) \/ Own(r)
                               \/ Deliver(r) \/ HangUp(r)
        \/ \E u \in Users : Served(u) \/ Proceed(u)

Spec == Init /\ [][Next]_vars

\* Nobody need send a request or the rest of one, read a response, interrupt or
\* hang up, and the remote server need not answer: the timeouts of the calls and
\* of the sweep make up for that.
FairSpec == /\ Spec
            /\ WF_vars(EndSweep) /\ WF_vars(Shutdown)
            /\ \A r \in Requests : WF_vars(Own(r))
            /\ \A u \in Users : WF_vars(Proceed(u))
-----------------------------------------------------------------------------
(* Properties.                                                             *)

\* The token as whoever wrote the file means it: its pieces, in this world's
\* environment (interpolate.rs: "$$ is an escape", "an unset variable with no
\* default is an error").
Pieces     == given.pieces[config_path(given.cli, given.files, given.dirs)]
MeantToken == trim(MeantText(Pieces, given.env))

\* A request gets past 401 only with the token that was meant, or if none was
\* meant and the operator waived it (main.rs: "unless the operator says so
\* explicitly"); --allow-unauthenticated does not undo a configured token.
Answered == {"writing", "over"}
LetIn(r) == pc[r] \in Handled \/ (pc[r] \in Answered /\ reply[r].http # 401)
HandledIsAuthorised ==
  \A r \in Requests : LetIn(r) =>
    IF MeantToken = Absent THEN given.cli.allow
    ELSE msg[r].bearer /\ trim(msg[r].auth) = MeantToken

\* What runs is what the file says: no placeholder is resolved to something
\* else or to nothing, an environment value is not scanned in its turn, and a
\* duration has its exact length or is refused (config/duration.rs).
LoadedAsWritten ==
  phase # "start" /\ exit \notin {"Read", "Parse", "MissingEnv", "Invalid"}
    /\ File.kind = "toml" =>
      /\ \A i \in DOMAIN Pieces : ~Undefined(Pieces[i], given.env)
      /\ config.server.auth_token = MeantText(Pieces, given.env)
      /\ \A k \in DurationsIn(File.limits) :
           config.limits[k] = File.limits[k].number * Factor[File.limits[k].unit]

\* A start that is refused, and `check`, touch no backend: the configuration
\* and the token are settled before a sweep spawns or contacts anything.
Refusals == {"Read", "Parse", "MissingEnv", "Invalid", "UnauthenticatedHttp"}
RefusalTouchesNothing ==
  exit \in Refusals \/ (phase = "exited" /\ command(given.cli) = "check") => sweeps = 0

\* omni_status finds the failure of a backend by its name.  Every backend that
\* failed is shown so, and no configured one with another's failure; the native
\* one, which cannot fail, is shown with that of a backend that is called
\* "native" too, a name validate() does not reserve.
Blamed == {b \in DOMAIN Names : \E f \in failing : Names[f] = Names[b]}
BlameIsRight ==
  /\ failing \subseteq Blamed
  /\ \A b \in Blamed \ failing : b = 1 /\ \E f \in failing : Names[f] = <<"native">>

\* A call may take what its client asked for, to the second, within limits: it
\* is cut shorter only by max_tool_timeout, which counts as a second at least,
\* or by the timeout of the proxy it is for; and it never outlasts either.
Asked(m) == CASE U64(m.arguments, "timeout")    -> m.arguments["timeout"] * 1000
              [] ~U64(m.arguments, "timeout") /\ U64(m.arguments, "timeout_ms") ->
                   m.arguments["timeout_ms"]
              [] OTHER -> as_secs(config.limits.default_tool_timeout) * 1000
DeadlineIsKept ==
  \A r \in Requests : pc[r] \in {"native", "proxy"} =>
    LET ms    == passed[r].ms
        limit == Max({1000, config.limits.max_tool_timeout})
        own   == IF pc[r] = "proxy" THEN OwnTimeout ELSE limit
    IN  /\ ms <= limit /\ ms <= own
        /\ ms >= 1000 \/ ms = own
        /\ ms >= Asked(msg[r]) \/ ms + 1000 > limit \/ ms = own
        /\ ms < Asked(msg[r]) + 1000 \/ ms = 1000

\* A client that sends only arguments it is shown has them passed on exactly
\* as far as the backend's own schema declares them (strip_injected_timeout:
\* never "forwarded to a backend whose schema validation would reject" it).
OnlyDeclaredArguments ==
  \A r \in Requests :
    pc[r] = "proxy" /\ DOMAIN msg[r].arguments \subseteq Augmented(given.schema) =>
      DOMAIN passed[r].arguments = DOMAIN msg[r].arguments \cap given.schema.properties

\* A notification, which has no id, is silent and reaches no backend; whatever
\* else a handler takes on is answered under its own id, and a tool's failure,
\* unlike a wrong argument or name, as a result ("it is a result the model
\* should see").  What a null id gets is the question of NullIdIsAnswered.
RepliesAreProper ==
  \A r \in Requests : pc[r] \in Answered /\ reply[r].http \in {200, 202} =>
    LET m == msg[r]  body == reply[r].body IN
    /\ m.id = None => reply[r] = [http |-> 202, body |-> NoReply]
    /\ reply[r].http = 202 => m.id \in {None, "null"}
    /\ m.id \notin {None, "null"} => body.id = m.id
    /\ CallsTool(m) /\ body.body = "error" =>
         body.code \in {Code.InvalidParams, Code.MethodNotFound}
    /\ m.method = "initialize" /\ m.version \in ToSet(SUPPORTED) /\ body.body = "result" =>
         body.version = m.version

\* jsonrpc.rs, null_id_is_preserved_rather_than_dropped: "some clients send it
\* for real requests. We treat it as an id so a reply is produced."
NullIdIsAnswered ==
  \A r \in Requests :
    pc[r] \in Answered /\ reply[r].http \in {200, 202} /\ msg[r].id = "null" =>
      reply[r].body # NoReply

\* Every request a handler has taken on is answered, unless its client leaves,
\* though the proxy may stay silent and calls compete for permits.
RequestsEnd == \A r \in Requests : pc[r] \in Handled ~> pc[r] \in Answered \cup {"gone"}

\* Ctrl-C ends the process without cutting off a request in hand: the deadlines
\* of its calls see to it, but only the client can end a body or a response that
\* is still on its way.
ClientsKeepUp == \A r \in Requests : []<>(pc[r] \notin {"reading", "writing"})
ShutdownEnds  == ClientsKeepUp => (phase = "stopping" ~> phase = "exited")
=============================================================================
