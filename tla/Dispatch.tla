------------------------------ MODULE Dispatch ------------------------------
(***************************************************************************)
(* What Router::handle makes of one JSON-RPC message (src/router/mod.rs),  *)
(* with the envelopes and error codes it uses (src/protocol, src/error.rs) *)
(* and the timeout argument it adds to schemas (src/router/routes.rs).     *)
(***************************************************************************)
EXTENDS Integers, Sequences, SequencesExt

None == "none"      \* an Option that is None

\* A message: [id, method, version, params, name, arguments].  `arguments` maps
\* keys to values, of which only unsigned integers matter: another value is
NotU64 == -1

Code == [ParseError |-> -32700, MethodNotFound |-> -32601, InvalidParams |-> -32602,
         InternalError |-> -32603, Timeout |-> -32000, Unauthorized |-> -32001]

Success(id, version)   == [id |-> id, body |-> "result", code |-> 0, failed |-> FALSE,
                           version |-> version]
FailedResult(id)       == [Success(id, None) EXCEPT !.failed = TRUE]
RpcError(id, code)     == [Success(id, None) EXCEPT !.body = "error", !.code = code]
NoReply                == [Success(None, None) EXCEPT !.body = "none"]

-----------------------------------------------------------------------------
\* serde reads a null into an Option as None.
Decoded(id) == IF id = "null" THEN None ELSE id

is_notification(msg) == Decoded(msg.id) = None

\* Newest first.
SUPPORTED == <<"2025-06-18", "2025-03-26", "2024-11-05">>

negotiate(requested) == CASE requested = None -> Last(SUPPORTED)
                          [] requested \in ToSet(SUPPORTED) -> requested
                          [] OTHER -> Head(SUPPORTED)

\* The methods answered at once, and what a tools/call without a tool gets.
Constant == {"prompts/list", "resources/list", "resources/templates/list",
             "ping", "logging/setLevel"}

CallsTool(msg) == msg.method = "tools/call" /\ msg.params /\ msg.name # None

AtOnce(msg) ==
  LET id == Decoded(msg.id) IN
  CASE msg.method = "initialize" ->
         Success(id, negotiate(IF msg.params THEN msg.version ELSE None))
    [] msg.method \in Constant \cup {"tools/list"} -> Success(id, None)
    [] msg.method = "tools/call" -> RpcError(id, Code.InvalidParams)
    [] OTHER -> RpcError(id, Code.MethodNotFound)

\* ToolError::rpc_code.
rpc_code == [InvalidArguments |-> Code.InvalidParams, NotFound |-> Code.MethodNotFound,
             Timeout |-> Code.Timeout, Failed |-> Code.InternalError,
             Unavailable |-> Code.InternalError, Denied |-> Code.InternalError]

\* tools_call(): a tool that fails is a result, not a transport error.  An
\* outcome is "ok", "complaint" (a result with isError) or a ToolError.
Mutant_OnlyFailed == {"Failed"}
ResultErrors == {"Failed", "Unavailable", "Denied", "Timeout"}

ReplyTo(msg, outcome) ==
  LET id == Decoded(msg.id) IN
  CASE outcome = "ok" -> Success(id, None)
    [] outcome \in ResultErrors \cup {"complaint"} -> FailedResult(id)
    [] OTHER -> RpcError(id, rpc_code[outcome])

-----------------------------------------------------------------------------
Between(low, x, high) == IF x < low THEN low ELSE IF x > high THEN high ELSE x

U64(arguments, key) == key \in DOMAIN arguments /\ arguments[key] # NotU64

\* Router::deadline, in seconds.
div_ceil(n, d) == (n + d - 1) \div d
Mutant_Floor(n, d) == n \div d
Rounded(n, d) == div_ceil(n, d)

deadline(arguments, limits) ==
  LET seconds == CASE U64(arguments, "timeout") -> arguments["timeout"]
                   [] U64(arguments, "timeout_ms") /\ ~U64(arguments, "timeout") ->
                        Rounded(arguments["timeout_ms"], 1000)
                   [] OTHER -> limits.default_tool_timeout \div 1000
      most == limits.max_tool_timeout \div 1000
  IN  Between(1, seconds, IF most < 1 THEN 1 ELSE most)

-----------------------------------------------------------------------------
\* A schema: whether it is an object whose properties are one, and their names.
Augmentable(schema) ==
  schema.object /\ schema.properties \cap {"timeout", "timeout_ms"} = {}

\* ensure_timeout_property: what the client is shown.
Augmented(schema) == IF Augmentable(schema) THEN schema.properties \cup {"timeout"}
                     ELSE schema.properties

\* strip_injected_timeout
Mutant_StripAlways(schema) == TRUE
Strips(schema) == Augmentable(schema)

Forwarded(arguments, schema) ==
  [k \in DOMAIN arguments \ (IF Strips(schema) THEN {"timeout"} ELSE {}) |-> arguments[k]]
=============================================================================
