------------------------------ MODULE MCGateway ------------------------------
(* Instances of Gateway for TLC.  Most worlds differ from a plain one in a   *)
(* single respect and are only checked, so that they end at once; those that *)
(* serve differ in what matters to requests.                                 *)
EXTENDS Gateway

CONSTANTS r1, r2, sweeper

TwoRequests == {r1, r2}
Everyone    == {r1, r2, sweeper}

-----------------------------------------------------------------------------
\* Texts of tokens.  A is set to something that looks like a placeholder, E is empty, U
\* is not set.
A == <<"A">>
E == <<"E">>
U == <<"U">>
AllSymbols == {Sign, Brace, Close, Else, "A", "E", "U", "secret"} \cup Blanks
Env == (A :> <<"$", "{", "U", "}">>) @@ (E :> <<>>)

Atoms == {Word("secret"), Word("}"), Word(" "), Dollar,
          Var(A), Var(E), Var(U), Var(<<" ", "A", " ">>), VarOr(U, <<"secret">>),
          VarOr(U, <<>>), VarOr(A, <<"secret">>), VarOr(U, <<"$">>)}
Odd   == {<<Word("$")>>, <<Word("$"), Word("secret"), Var(A)>>,
          <<Var(A), Word("$"), Word("{"), Word("secret")>>,
          <<Dollar, Word("{"), Word("A"), Word("}")>>}
PieceSeqs == SeqOf(Atoms, 2) \cup Odd
Secret == <<Word("secret")>>

-----------------------------------------------------------------------------
\* Files.
Named(name) == <<name>>
ProxyTable(name) == [name |-> Named(name), url |-> <<"http://", "host">>]
SidecarTable(name) == [name |-> Named(name), command |-> <<"run">>]
SshTable == [name |-> Named("box"), host |-> <<"host">>, user |-> <<"me">>,
             blacklist |-> {"rm"}, fingerprint |-> <<"SHA256:", "abc">>, auth |-> TRUE]

NoFile == [kind |-> "absent"]
Toml(pieces, limits, proxies, sidecars, ssh) ==
  [kind |-> "toml", server |-> [auth_token |-> WrittenText(pieces)], limits |-> limits,
   proxies |-> proxies, sidecars |-> sidecars, ssh |-> ssh]
One     == <<ProxyTable("p")>>
Two     == <<SidecarTable("s")>>
NoLimit == [max_concurrent_calls |-> 1]

Plain == Toml(Secret, NoLimit, One, Two, <<>>)

Lengths == {Duration(n, u) : n \in {NoDigits, 0, 1, 6, 9, 30000001},
                             u \in DOMAIN Factor \cup {"fortnight"}}

OddFiles ==
  {NoFile, [kind |-> "unreadable"], [kind |-> "notToml"]}
  \cup {[Plain EXCEPT !.limits = [max_tool_timeout |-> d, default_tool_timeout |-> Duration(0, "s")]] :
          d \in Lengths}
  \cup {[Plain EXCEPT !.limits = [max_concurrent_spawns |-> 0]],
        [Plain EXCEPT !.limits = [max_concurrent_calls |-> -1]],
        [Plain EXCEPT !.limits = [default_tool_timeout |-> Duration(6, "m")]],
        [Plain EXCEPT !.limits = [unknown |-> 0]],
        [Plain EXCEPT !.server = [name |-> Named("x")]]}
  \cup {[Plain EXCEPT !.proxies = <<p>>] : p \in
          {[name |-> Named("p")], [ProxyTable("p") EXCEPT !.name = <<" ">>],
           [ProxyTable("p") EXCEPT !.url = <<"ftp://">>], ProxyTable("p") @@ [enabled |-> FALSE],
           ProxyTable("p") @@ [bearer |-> <<"a", "newline", "b">>],
           ProxyTable("p") @@ [bearer |-> <<"newline">>]}}
  \cup {[Plain EXCEPT !.sidecars = <<[SidecarTable("s") EXCEPT !.command = <<" ">>]>>],
        [Plain EXCEPT !.proxies = <<ProxyTable("p"), ProxyTable("p")>>]}
  \cup {[Plain EXCEPT !.ssh = t] : t \in
          {<<SshTable>>, <<SshTable, SshTable>>, <<[SshTable EXCEPT !.auth = FALSE]>>,
           <<[SshTable EXCEPT !.user = <<>>]>>, <<[SshTable EXCEPT !.blacklist = {"unparseable"}]>>,
           <<[SshTable EXCEPT !.fingerprint = <<"SHA256:">>]>>,
           <<[SshTable EXCEPT !.fingerprint = <<"notBase64">>]>>,
           <<[SshTable EXCEPT !.fingerprint = <<" ">>]>>}}

\* Their token, if they have one, is the plain one.
TokenOf(file) ==
  IF file.kind = "toml" /\ "auth_token" \in DOMAIN file.server THEN Secret ELSE <<>>

-----------------------------------------------------------------------------
\* Messages.
Args(keys, n) == [k \in keys |-> n]
Message(id, method, name, arguments) ==
  [bearer |-> TRUE, auth |-> <<"secret">>, http |-> 200, id |-> id, method |-> method,
   version |-> None, params |-> TRUE, name |-> name, arguments |-> arguments]

Search   == Message("7", "tools/call", "search", Args({}, 0))
AskStatus == Message("8", "tools/call", "omni_status", Args({}, 0))
Grep     == Message("9", "tools/call", "grep_search", Args({}, 0))

WithTimes == {Message("7", "tools/call", "search", a) :
                a \in {Args({k}, n) : k \in {"timeout", "timeout_ms"}, n \in {NotU64, 0, 1500}}
                      \cup {Args({"q", "timeout", "timeout_ms"}, 2), ("timeout" :> NotU64) @@ ("timeout_ms" :> 2500)}}

OddMessages ==
  {Grep, [Grep EXCEPT !.id = "null"], [Grep EXCEPT !.id = None], [Grep EXCEPT !.params = FALSE],
   [Grep EXCEPT !.name = None], [Grep EXCEPT !.name = "nonesuch"], [Grep EXCEPT !.name = "ssh_execute"],
   [Grep EXCEPT !.method = "tools/list"], [Grep EXCEPT !.method = "ping"],
   [Grep EXCEPT !.method = "nonesuch"], [Grep EXCEPT !.http = 413], [Grep EXCEPT !.http = 400],
   [Grep EXCEPT !.bearer = FALSE], [Grep EXCEPT !.auth = <<"wrong">>], [Grep EXCEPT !.auth = <<>>],
   [Grep EXCEPT !.auth = <<"secret", " ">>]}
  \cup {[Grep EXCEPT !.method = "initialize", !.version = v] :
          v \in {None, "2024-11-05", "1999-01-01"}}

Schemas == {[object |-> FALSE, properties |-> {}], [object |-> TRUE, properties |-> {"q"}],
            [object |-> TRUE, properties |-> {"q", "timeout"}],
            [object |-> TRUE, properties |-> {"q", "timeout_ms"}]}
PlainSchema == [object |-> TRUE, properties |-> {"q"}]

-----------------------------------------------------------------------------
\* Worlds.
Cli(cmd, allow) == [config |-> "none", stdio |-> FALSE, command |-> cmd, allow |-> allow]

World(cli, file, pieces, asks, schema) ==
  [cli |-> cli, dirs |-> [xdg |-> TRUE, home |-> TRUE], env |-> Env,
   files  |-> [p \in {"given", "local", "xdg", "home"} |-> IF p = "local" THEN file ELSE NoFile],
   pieces |-> [p \in {"given", "local", "xdg", "home"} |-> IF p = "local" THEN pieces ELSE <<>>],
   asks   |-> asks, schema |-> schema]

NoAsks == [r \in TwoRequests |-> {}]
Asks(odd, plain) == [r \in TwoRequests |-> IF r = r1 THEN odd ELSE plain]

Base == World(Cli("check", FALSE), Plain, Secret, NoAsks, PlainSchema)

Checked ==
  {World(Cli("check", FALSE), Toml(ps, NoLimit, One, Two, <<>>), ps, NoAsks, PlainSchema) :
     ps \in PieceSeqs}
  \cup {[Base EXCEPT !.files["local"] = f, !.pieces["local"] = TokenOf(f), !.cli.command = c] :
          f \in OddFiles, c \in {"check", "tools"}}
  \cup {[Base EXCEPT !.files = [p \in DOMAIN @ |-> IF p \in some THEN Plain ELSE NoFile],
                     !.pieces = [p \in DOMAIN @ |-> IF p \in some THEN Secret ELSE <<>>],
                     !.dirs = [xdg |-> x, home |-> h], !.cli.config = c] :
          some \in SUBSET {"given", "local", "xdg", "home"}, x \in BOOLEAN, h \in BOOLEAN,
          c \in {"none", "given"}}
  \cup {[Base EXCEPT !.cli.command = c, !.cli.stdio = s] : c \in {"none", "serve"}, s \in BOOLEAN}

Serves(file, pieces, allow, asks, schema) == World(Cli("serve", allow), file, pieces, asks, schema)

Serving ==
  \* every text of the token, and who gets in by it
  {Serves(Toml(ps, NoLimit, <<>>, <<>>, <<>>), ps, allow, Asks(OddMessages, {}), PlainSchema) :
     ps \in {Secret, <<>>, <<Var(A)>>, <<VarOr(U, <<" ">>)>>, <<Word("secret"), Word("newline")>>},
     allow \in BOOLEAN}
  \* the call's deadline, with small limits and with a quick proxy that takes the
  \* native backend's name
  \cup {Serves(Toml(Secret, limits, ps, <<>>, <<SshTable>>), Secret, FALSE,
               Asks(WithTimes, {}), PlainSchema) :
          limits \in {NoLimit, [max_tool_timeout |-> Duration(1500, "ms"),
                                default_tool_timeout |-> Duration(0, "s")]},
          ps \in {One, <<ProxyTable("native") @@ [timeout |-> Duration(1200, "ms")]>>}}
  \* the tool's schema
  \cup {Serves(Toml(Secret, NoLimit, One, <<>>, <<>>), Secret, FALSE,
               Asks({[Search EXCEPT !.arguments = Args(keys, 1)] :
                       keys \in {{"q", "timeout"}, {"timeout_ms"}}}, {}),
               schema) : schema \in Schemas}
  \* calls, sweeps and reports that meet at one proxy; a limit of no calls
  \cup {Serves(Toml(Secret, [max_concurrent_calls |-> n], ps, Two, <<>>), Secret, FALSE,
               Asks({Search, AskStatus}, {Search}), PlainSchema) :
          n \in {0, 1}, ps \in {One, <<ProxyTable("p"), ProxyTable("s")>>}}

AllWorlds == Checked \cup Serving

\* Clients that send null for an id.
Nulls == {[m EXCEPT !.id = "null"] : m \in {Grep, Search, [Grep EXCEPT !.method = "ping"]}}
NullWorlds == {Serves(Plain, Secret, FALSE, Asks(Nulls, {}), PlainSchema)}
=============================================================================
