---------------------------- MODULE GatewayProofs ----------------------------
(***************************************************************************)
(* What the process guarantees for any configuration, clients and bounds:  *)
(* it uses its proxy as Proxy allows, refuses to start before it touches a *)
(* backend, and keeps every deadline it computes within the limits.        *)
(***************************************************************************)
EXTENDS Gateway, ProxyProofs, InterpolateProofs, FiniteSetTheorems

(***************************************************************************)
(* Every step of the process is one of the proxy, or leaves it alone.      *)
(***************************************************************************)
LEMMA AProxyStep ==
  ASSUME NEW u \in Users,
         \/ Send(u) \/ Ask(u) \/ Drop(u) \/ Leave(u) \/ ProxyStep(u)
         \/ \E reply_ \in Replies : Interpret(u, reply_)
  PROVE  ProxyNext
BY DEF ProxyNext

LEMMA StartUpStep ==
  ASSUME StartUp \/ EndSweep \/ Resweep \/ CutSweep \/ EndOfStdio \/ Interrupt \/ Shutdown
  PROVE  [ProxyNext]_proxy
<1>0. Sweeper \in Users
  BY UsersAssumption
<1>1. CASE Load \/ Check \/ RefuseToServe \/ StartTransport
  BY <1>1 DEF Load, Check, RefuseToServe, StartTransport
<1>2. CASE EndOfStdio \/ Interrupt \/ Shutdown
  BY <1>2 DEF EndOfStdio, Interrupt, Shutdown
<1>3. CASE Build \/ Resweep
  <2>1. Send(Sweeper) \/ UNCHANGED proxy
    BY <1>3 DEF Build, Resweep, Sweep, GiveUp
  <2> QED
    BY <2>1, <1>0, AProxyStep
<1>4. CASE EndSweep \/ CutSweep
  <2>1. Leave(Sweeper) \/ Drop(Sweeper) \/ UNCHANGED proxy
    BY <1>4 DEF EndSweep, CutSweep
  <2> QED
    BY <2>1, <1>0, AProxyStep
<1> QED
  BY <1>1, <1>2, <1>3, <1>4 DEF StartUp

Acts(r) == Accept(r) \/ Started(r) \/ Own(r) \/ Deliver(r) \/ HangUp(r)

LEMMA RequestStep ==
  ASSUME NEW r \in Requests, Acts(r)
  PROVE  [ProxyNext]_proxy
<1>0. r \in Users
  BY UsersAssumption
<1>1. CASE Accept(r) \/ AnswerAtOnce(r) \/ BeginCall(r) \/ Deliver(r)
  BY <1>1 DEF Accept, AnswerAtOnce, BeginCall, Deliver
<1>2. CASE CallNative(r) \/ NotFound(r) \/ NativeReturns(r)
  BY <1>2 DEF CallNative, NotFound, NativeReturns
<1>3. CASE BeginStatus(r) \/ CallProxy(r)
  <2>1. Ask(r) \/ Send(r) \/ UNCHANGED proxy
    BY <1>3 DEF BeginStatus, CallProxy
  <2> QED
    BY <2>1, <1>0, AProxyStep
<1>4. CASE Report(r) \/ ProxyReturns(r) \/ HangUp(r)
  <2>1. Drop(r) \/ Leave(r) \/ UNCHANGED proxy
    BY <1>4 DEF Report, ProxyReturns, HangUp
  <2> QED
    BY <2>1, <1>0, AProxyStep
<1> QED
  BY <1>1, <1>2, <1>3, <1>4 DEF Acts, Started, Own

LEMMA ExchangeStep ==
  ASSUME NEW u \in Users, Served(u) \/ Proceed(u)
  PROVE  ProxyNext
BY AProxyStep DEF Served, Proceed

\* The process uses its proxy backend only in the ways Proxy describes, so
\* what is proved of the proxy for any users holds in it.
THEOREM ImplementsProxy == Spec => ProxySpec
<1>1. Init => ProxyInit
  BY DEF Init
<1>2. [Next]_vars => [ProxyNext]_proxy
  <2>1. CASE Next
    BY <2>1, StartUpStep, RequestStep, ExchangeStep DEF Next, Acts
  <2>2. CASE UNCHANGED vars
    BY <2>2 DEF vars
  <2> QED
    BY <2>1, <2>2
<1> QED
  BY <1>1, <1>2, PTL DEF Spec, ProxySpec

\* omni_status never reports a proxy as it was before the report began, while
\* calls, sweeps, timeouts and hang-ups write the fields it reads.
THEOREM StatusIsCurrent == Spec => []ReportIsCurrent
BY ImplementsProxy, ReportsAreCurrent, PTL

-----------------------------------------------------------------------------
(***************************************************************************)
(* Calls.  A request keeps its message, and what a backend was passed.     *)
(***************************************************************************)
\* A request's step leaves the process and the table alone.
LEMMA ActsAside ==
  ASSUME NEW r \in Requests, Acts(r)
  PROVE  /\ UNCHANGED <<given, process, table>>
         /\ phase = "serving" \/ pc[r] \in InHand
<1> USE DEF InHand, Handled
<1>1. CASE Accept(r) \/ Deliver(r) \/ HangUp(r)
  BY <1>1 DEF Accept, Deliver, HangUp
<1>2. CASE Started(r)
  BY <1>2 DEF Started, AnswerAtOnce, BeginStatus, BeginCall, Arrives
<1>3. CASE Report(r) \/ NotFound(r) \/ NativeReturns(r) \/ ProxyReturns(r)
  BY <1>3 DEF Report, NotFound, Admitted, NativeReturns, ProxyReturns, Return
<1>4. CASE CallNative(r) \/ CallProxy(r)
  BY <1>4 DEF CallNative, CallProxy, Admitted, Take
<1> QED
  BY <1>1, <1>2, <1>3, <1>4 DEF Acts, Own

CallInv ==
  /\ given \in Worlds
  /\ pc \in [Requests -> {"idle", "over", "gone"} \cup InHand]
  /\ DOMAIN msg = Requests /\ DOMAIN passed = Requests /\ DOMAIN reply = Requests
  /\ \A r \in Requests :
       /\ pc[r] \in Handled => CallsTool(msg[r]) /\ ~is_notification(msg[r])
       /\ pc[r] = "proxy" => passed[r].arguments = Forwarded(msg[r].arguments, given.schema)

LEMMA CallInvInit == Init => CallInv
BY DEF Init, CallInv, Handled

\* What a step that leaves the messages and their places alone keeps.
LEMMA AsideKeeps ==
  ASSUME CallInv, UNCHANGED <<given, pc, msg, passed, reply>>
  PROVE  CallInv'
BY DEF CallInv

LEMMA BeginKeeps ==
  ASSUME CallInv, NEW r \in Requests, Started(r)
  PROVE  CallInv'
<1> USE DEF CallInv, InHand, Handled
<1>1. PICK m \in given.asks[r] : Arrives(r, m)
                                 /\ \/ ~NeedsBackend(m) /\ Respond(r, Answer(m).http, Answer(m).body)
                                    \/ /\ NeedsBackend(m) /\ UNCHANGED reply
                                       /\ \/ pc' = [pc EXCEPT ![r] = "status"]
                                          \/ pc' = [pc EXCEPT ![r] = "permit"]
  BY DEF Started, AnswerAtOnce, BeginStatus, BeginCall
<1>2. msg' = [msg EXCEPT ![r] = m] /\ given' = given /\ passed' = passed
  BY <1>1 DEF Arrives
<1>3. CASE Respond(r, Answer(m).http, Answer(m).body)
  BY <1>2, <1>3 DEF Respond
<1>4. CASE NeedsBackend(m) /\ UNCHANGED reply
           /\ (pc' = [pc EXCEPT ![r] = "status"] \/ pc' = [pc EXCEPT ![r] = "permit"])
  BY <1>2, <1>4 DEF NeedsBackend, TakenOn
<1> QED
  BY <1>1, <1>3, <1>4

LEMMA OwnKeeps ==
  ASSUME CallInv, NEW r \in Requests, Accept(r) \/ Own(r) \/ Deliver(r) \/ HangUp(r)
  PROVE  CallInv'
<1> USE DEF CallInv, InHand, Handled
<1>1. CASE CallNative(r) \/ CallProxy(r)
  <2>1. PICK place \in {"native", "proxy"} : Take(r, place)
    BY <1>1 DEF CallNative, CallProxy
  <2>2. pc[r] = "permit"
    BY <1>1 DEF CallNative, CallProxy, Admitted
  <2>3. /\ pc' = [pc EXCEPT ![r] = place] /\ UNCHANGED <<given, msg, reply>>
        /\ passed' = [passed EXCEPT ![r] = passed'[r]]
        /\ place = "proxy" => passed'[r].arguments = Forwarded(msg[r].arguments, given.schema)
    BY <2>1 DEF Take, Passed
  <2> QED
    BY <2>2, <2>3
<1>2. CASE Report(r) \/ NotFound(r) \/ NativeReturns(r) \/ ProxyReturns(r)
  <2>1. /\ pc' = [pc EXCEPT ![r] = "writing"] /\ UNCHANGED <<given, msg, passed>>
        /\ \E said : reply' = [reply EXCEPT ![r] = said]
    BY <1>2 DEF Report, NotFound, NativeReturns, ProxyReturns, Return, Respond
  <2> QED
    BY <2>1
<1>3. CASE Accept(r) \/ Deliver(r) \/ HangUp(r)
  BY <1>3 DEF Accept, Deliver, HangUp
<1> QED
  BY <1>1, <1>2, <1>3 DEF Own

LEMMA RestKeeps ==
  ASSUME StartUp \/ EndSweep \/ Resweep \/ CutSweep \/ EndOfStdio \/ Interrupt \/ Shutdown
           \/ \E u \in Users : Served(u) \/ Proceed(u)
  PROVE  UNCHANGED <<given, pc, msg, passed, reply>>
<1> USE DEF request
<1>1. CASE StartUp
  BY <1>1 DEF StartUp, Load, Check, RefuseToServe, Build, StartTransport
<1>2. CASE EndSweep \/ Resweep \/ CutSweep \/ EndOfStdio \/ Interrupt \/ Shutdown
  BY <1>2 DEF EndSweep, Resweep, CutSweep, EndOfStdio, Interrupt, Shutdown
<1>3. CASE \E u \in Users : Served(u) \/ Proceed(u)
  BY <1>3 DEF Served, Proceed, Exchange
<1> QED
  BY <1>1, <1>2, <1>3

\* A step that is none of a request's own leaves the requests alone.
LEMMA Steps ==
  ASSUME [Next]_vars
  PROVE  \/ \E r \in Requests : Acts(r)
         \/ UNCHANGED <<given, pc, msg, passed, reply>>
<1>1. CASE Next
  BY <1>1, RestKeeps DEF Next, Acts
<1>2. CASE UNCHANGED vars
  BY <1>2 DEF vars, request
<1> QED
  BY <1>1, <1>2

LEMMA CallsKept == Spec => []CallInv
<1>1. CallInv /\ [Next]_vars => CallInv'
  BY Steps, BeginKeeps, OwnKeeps, AsideKeeps DEF Acts
<1> QED
  BY CallInvInit, <1>1, PTL DEF Spec

\* While a request is in hand, the process serves or waits for it to end.
Attended == \A r \in Requests : pc[r] \in InHand => phase \in {"serving", "stopping"}

LEMMA AttendedKept == Spec => []Attended
<1>1. Init => Attended
  BY DEF Init, Attended, InHand, Handled
<1>2. CallInv /\ Attended /\ [Next]_vars => Attended'
  <2> SUFFICES ASSUME CallInv, Attended, [Next]_vars
               PROVE  Attended'
    OBVIOUS
  <2>1. ASSUME NEW r \in Requests, Acts(r) PROVE Attended'
    <3>1. phase \in {"serving", "stopping"} /\ phase' = phase
      BY <2>1, ActsAside DEF Attended, process
    <3> QED
      BY <3>1 DEF Attended
  <2>2. CASE StartUp \/ EndOfStdio \/ Shutdown
    <3>1. \A r \in Requests : pc[r] \notin InHand
      BY <2>2 DEF StartUp, Load, Check, RefuseToServe, Build, StartTransport, EndOfStdio, Shutdown,
                  Attended
    <3>2. pc' = pc
      BY <2>2, RestKeeps
    <3> QED
      BY <3>1, <3>2 DEF Attended
  <2>3. CASE \/ EndSweep \/ Resweep \/ CutSweep \/ Interrupt
             \/ \E u \in Users : Served(u) \/ Proceed(u)
    <3>1. pc' = pc
      BY <2>3, RestKeeps
    <3>2. phase' = phase \/ phase = "warming" \/ phase' = "stopping"
      BY <2>3 DEF EndSweep, Resweep, CutSweep, Interrupt, Served, Proceed, Exchange, process
    <3> QED
      BY <3>1, <3>2 DEF Attended
  <2>4. CASE UNCHANGED vars
    BY <2>4 DEF vars, request, process, Attended
  <2> QED
    BY <2>1, <2>2, <2>3, <2>4 DEF Next, Acts
<1> QED
  BY CallsKept, <1>1, <1>2, PTL DEF Spec

\* What is stripped is what was injected.
LEMMA StrippedIsInjected ==
  ASSUME NEW arguments, NEW schema, DOMAIN arguments \subseteq Augmented(schema)
  PROVE  DOMAIN Forwarded(arguments, schema) = DOMAIN arguments \cap schema.properties
<1>1. CASE Augmentable(schema)
  <2>1. DOMAIN Forwarded(arguments, schema) = DOMAIN arguments \ {"timeout"}
    BY <1>1 DEF Forwarded, Strips
  <2>2. "timeout" \notin schema.properties
    BY <1>1 DEF Augmentable
  <2> QED
    BY <1>1, <2>1, <2>2 DEF Augmented
<1>2. CASE ~Augmentable(schema)
  <2>1. DOMAIN Forwarded(arguments, schema) = DOMAIN arguments
    BY <1>2 DEF Forwarded, Strips
  <2> QED
    BY <1>2, <2>1 DEF Augmented
<1> QED
  BY <1>1, <1>2

\* Whatever the tool's schema, a client that keeps to the schema it is shown has
\* exactly the declared part of its arguments passed on to the proxy.
THEOREM OnlyDeclaredPassed == Spec => []OnlyDeclaredArguments
<1>1. CallInv => OnlyDeclaredArguments
  BY StrippedIsInjected DEF CallInv, OnlyDeclaredArguments
<1> QED
  BY CallsKept, <1>1, PTL

-----------------------------------------------------------------------------
(***************************************************************************)
(* Refusals.  No sweep has begun while the process is still starting, and  *)
(* `check` never comes further.                                            *)
(***************************************************************************)
Checks == command(given.cli) = "check"

StartInv ==
  /\ phase \in {"start", "loaded"} => sweeps = 0
  /\ phase # "exited" => exit = "none"
  /\ Checks => phase \in {"start", "loaded", "exited"} /\ sweeps = 0
  /\ exit \in Refusals => sweeps = 0

LEMMA StartInvInit == Init => StartInv
BY DEF Init, StartInv, Refusals, Checks

LEMMA StartUpKeeps ==
  ASSUME StartInv, StartUp
  PROVE  StartInv'
<1> USE DEF StartInv, Checks, Exit, Refusals
<1>1. CASE Load
  BY <1>1 DEF Load, table
<1>2. CASE Check
  BY <1>2 DEF Check, table
<1>3. CASE RefuseToServe
  BY <1>3 DEF RefuseToServe, table
<1>4. CASE Build
  BY <1>4 DEF Build, GiveUp, Sweep, table
<1>5. CASE StartTransport
  BY <1>5 DEF StartTransport, table
<1> QED
  BY <1>1, <1>2, <1>3, <1>4, <1>5 DEF StartUp

LEMMA OthersKeep ==
  ASSUME StartInv, Attended,
         EndSweep \/ Resweep \/ CutSweep \/ EndOfStdio \/ Interrupt \/ Shutdown
  PROVE  StartInv'
<1> USE DEF StartInv, Checks, Exit, Refusals
<1>1. CASE EndSweep
  BY <1>1 DEF EndSweep
<1>2. CASE Resweep
  <2>1. phase \in {"serving", "stopping"}
    BY <1>2 DEF Resweep, Attended, InHand, Handled
  <2> QED
    BY <1>2, <2>1 DEF Resweep, Sweep, process
<1>3. CASE CutSweep
  BY <1>3 DEF CutSweep, process, table
<1>4. CASE EndOfStdio
  BY <1>4 DEF EndOfStdio, table
<1>5. CASE Interrupt
  BY <1>5 DEF Interrupt, table
<1>6. CASE Shutdown
  BY <1>6 DEF Shutdown, table
<1> QED
  BY <1>1, <1>2, <1>3, <1>4, <1>5, <1>6

\* Requests and exchanges do not touch what StartInv is about.
LEMMA RequestsKeep ==
  ASSUME StartInv, (\E r \in Requests : Acts(r)) \/ \E u \in Users : Served(u) \/ Proceed(u)
  PROVE  StartInv'
<1>1. UNCHANGED <<given, process, table>>
  BY ActsAside DEF Served, Proceed, Exchange
<1> QED
  BY <1>1 DEF StartInv, Checks, process, table

LEMMA StartKept == Spec => []StartInv
<1>1. StartInv /\ Attended /\ [Next]_vars => StartInv'
  <2> SUFFICES ASSUME StartInv, Attended, [Next]_vars
               PROVE  StartInv'
    OBVIOUS
  <2>1. CASE Next
    BY <2>1, StartUpKeeps, OthersKeep, RequestsKeep DEF Next, Acts
  <2>2. CASE UNCHANGED vars
    BY <2>2 DEF vars, StartInv, Checks, process, table
  <2> QED
    BY <2>1, <2>2
<1> QED
  BY StartInvInit, AttendedKept, <1>1, PTL DEF Spec

\* A start that is refused, for the file, the environment, the token or a
\* backend that cannot be built, has contacted no backend; nor has `check`.
THEOREM RefusalsAreEarly == Spec => []RefusalTouchesNothing
<1>1. StartInv => RefusalTouchesNothing
  BY DEF StartInv, RefusalTouchesNothing, Checks
<1> QED
  BY StartKept, <1>1, PTL

-----------------------------------------------------------------------------
(***************************************************************************)
(* Replies.                                                                *)
(***************************************************************************)
\* What RepliesAreProper asks of one reply.
Proper(m, answer) ==
  answer.http \in {200, 202} =>
    /\ m.id = None => answer = [http |-> 202, body |-> NoReply]
    /\ answer.http = 202 => m.id \in {None, "null"}
    /\ m.id \notin {None, "null"} => answer.body.id = m.id
    /\ CallsTool(m) /\ answer.body.body = "error" =>
         answer.body.code \in {Code.InvalidParams, Code.MethodNotFound}
    /\ m.method = "initialize" /\ m.version \in ToSet(SUPPORTED) /\ answer.body.body = "result" =>
         answer.body.version = m.version

AllProper == \A r \in Requests : pc[r] \in Answered => Proper(msg[r], reply[r])

LEMMA NotifiesIff ==
  ASSUME NEW m
  PROVE  is_notification(m) <=> m.id \in {None, "null"}
BY DEF is_notification, Decoded, None

\* What a call's outcome is answered with.
Outcomes == NativeOutcomes \cup Errors

LEMMA OutcomeIsProper ==
  ASSUME NEW m, CallsTool(m), ~is_notification(m), NEW outcome \in Outcomes
  PROVE  Proper(m, [http |-> 200, body |-> ReplyTo(m, outcome)])
<1> DEFINE body == ReplyTo(m, outcome)
<1>1. m.id \notin {None, "null"} /\ Decoded(m.id) = m.id /\ m.method = "tools/call"
  BY NotifiesIff DEF CallsTool, Decoded
<1>2. \/ body = Success(m.id, None) \/ body = FailedResult(m.id)
      \/ body = RpcError(m.id, rpc_code["InvalidArguments"])
      \/ body = RpcError(m.id, rpc_code["NotFound"])
  BY <1>1 DEF ReplyTo, Outcomes, NativeOutcomes, Errors, ResultErrors
<1>3. /\ body.id = m.id
      /\ body.body = "error" => body.code \in {Code.InvalidParams, Code.MethodNotFound}
  <2> HIDE DEF body
  <2>1. CASE body = Success(m.id, None) \/ body = FailedResult(m.id)
    BY <2>1 DEF Success, FailedResult
  <2>2. CASE body = RpcError(m.id, rpc_code["InvalidArguments"])
    <3>1. rpc_code["InvalidArguments"] = Code.InvalidParams
      BY DEF rpc_code
    <3> QED
      BY <2>2, <3>1 DEF Success, RpcError
  <2>3. CASE body = RpcError(m.id, rpc_code["NotFound"])
    <3>1. rpc_code["NotFound"] = Code.MethodNotFound
      BY DEF rpc_code
    <3> QED
      BY <2>3, <3>1 DEF Success, RpcError
  <2> QED
    BY <1>2, <2>1, <2>2, <2>3
<1> QED
  BY <1>1, <1>3 DEF Proper

LEMMA AnswerIsProper ==
  ASSUME NEW m, m.http \in {200, 400, 413, 415, 422}, m.params \/ m.version = None,
         ~NeedsBackend(m)
  PROVE  Proper(m, [http |-> Answer(m).http, body |-> Answer(m).body])
<1>1. CASE ~authorize(m)
  BY <1>1 DEF Answer, Proper
<1>2. CASE authorize(m) /\ m.http # 200
  BY <1>2 DEF Answer, Proper
<1>3. CASE authorize(m) /\ m.http = 200 /\ is_notification(m)
  <2>1. Answer(m) = [http |-> 202, body |-> NoReply]
    BY <1>3 DEF Answer
  <2>2. NoReply.body = "none"
    BY DEF NoReply, Success
  <2> QED
    BY <1>3, <2>1, <2>2, NotifiesIff DEF Proper
<1>4. CASE authorize(m) /\ m.http = 200 /\ ~is_notification(m)
  <2>1. Answer(m) = [http |-> 200, body |-> AtOnce(m)]
    BY <1>4 DEF Answer
  <2>2. ~CallsTool(m) /\ m.id \notin {None, "null"} /\ Decoded(m.id) = m.id
    BY <1>4, NotifiesIff DEF NeedsBackend, TakenOn, Decoded
  <2>3. AtOnce(m).id = m.id
    BY <2>2 DEF AtOnce, Success, RpcError
  <2>4. ASSUME m.method = "initialize", m.version \in ToSet(SUPPORTED)
        PROVE  AtOnce(m).version = m.version
    <3>1. m.version # None
      BY <2>4 DEF ToSet, SUPPORTED, None
    <3>2. AtOnce(m) = Success(m.id, negotiate(m.version))
      <4>1. (IF m.params THEN m.version ELSE None) = m.version
        BY <3>1
      <4>2. AtOnce(m) = Success(Decoded(m.id), negotiate(IF m.params THEN m.version ELSE None))
        BY <2>4 DEF AtOnce, Constant
      <4> QED
        BY <2>2, <4>1, <4>2
    <3>3. negotiate(m.version) = m.version
      BY <2>4, <3>1 DEF negotiate
    <3> QED
      BY <3>2, <3>3 DEF Success
  <2> QED
    BY <2>1, <2>2, <2>3, <2>4 DEF Proper
<1> QED
  BY <1>1, <1>2, <1>3, <1>4

LEMMA RepliesKept ==
  ASSUME CallInv, PInv, AllProper, [Next]_vars
  PROVE  AllProper'
<1> USE DEF AllProper, Answered
<1>1. ASSUME NEW r \in Requests, AnswerAtOnce(r)
      PROVE  AllProper'
  <2>1. PICK m \in given.asks[r] : /\ Arrives(r, m) /\ ~NeedsBackend(m)
                                   /\ Respond(r, Answer(m).http, Answer(m).body)
    BY <1>1 DEF AnswerAtOnce
  <2>2. Proper(m, [http |-> Answer(m).http, body |-> Answer(m).body])
    BY <2>1, AnswerIsProper, MessagesAssumption DEF CallInv
  <2> QED
    BY <2>1, <2>2 DEF CallInv, Arrives, Respond
<1>2. ASSUME NEW r \in Requests, Report(r) \/ NotFound(r) \/ NativeReturns(r) \/ ProxyReturns(r)
      PROVE  AllProper'
  <2>1. PICK outcome \in Outcomes :
          Respond(r, 200, ReplyTo(msg[r], outcome)) /\ UNCHANGED msg
    <3>1. CASE Report(r) \/ NotFound(r)
      BY <3>1 DEF Report, NotFound, Outcomes, NativeOutcomes
    <3>2. CASE NativeReturns(r)
      BY <3>2 DEF NativeReturns, Return, Outcomes
    <3>3. CASE ProxyReturns(r)
      <4>1. got[r] \in {"ok"} \cup Errors
        BY <3>3, UsersAssumption DEF ProxyReturns, PInv, OutcomesAreKnown
      <4>2. ProxyOutcomes(got[r]) \subseteq Outcomes
        BY <4>1 DEF ProxyOutcomes, Outcomes, NativeOutcomes, Errors
      <4> QED
        BY <3>3, <4>2 DEF ProxyReturns, Return
    <3> QED
      BY <1>2, <3>1, <3>2, <3>3
  <2>2. pc[r] \in Handled
    BY <1>2 DEF Report, NotFound, NativeReturns, ProxyReturns, Admitted, Handled
  <2>3. Proper(msg[r], [http |-> 200, body |-> ReplyTo(msg[r], outcome)])
    BY <2>2, OutcomeIsProper DEF CallInv
  <2> QED
    BY <2>1, <2>3 DEF CallInv, Respond
<1>3. ASSUME NEW r \in Requests,
             \/ Accept(r) \/ BeginStatus(r) \/ BeginCall(r) \/ CallNative(r) \/ CallProxy(r)
             \/ HangUp(r)
      PROVE  AllProper'
  <2>1. /\ UNCHANGED reply
        /\ \E place \in {"reading", "status", "permit", "native", "proxy", "gone"} :
             pc' = [pc EXCEPT ![r] = place]
        /\ \A q \in Requests \ {r} : msg'[q] = msg[q]
    BY <1>3 DEF Accept, BeginStatus, BeginCall, CallNative, CallProxy, HangUp, Arrives, Take, CallInv
  <2> QED
    BY <2>1 DEF CallInv
<1>4. ASSUME NEW r \in Requests, Deliver(r)
      PROVE  AllProper'
  BY <1>4 DEF Deliver, CallInv
<1>5. CASE UNCHANGED <<given, pc, msg, passed, reply>>
  BY <1>5
<1> QED
  BY <1>1, <1>2, <1>3, <1>4, <1>5, Steps DEF Acts, Started, Own

\* For any configuration, any messages and any behaviour of the proxy: every
\* reply bears its request's id, notifications get none, and a tool's failure
\* never becomes a transport error.
THEOREM AllRepliesProper == Spec => []RepliesAreProper
<1>1. Init => AllProper
  BY DEF Init, AllProper, Answered
<1>2. AllProper => RepliesAreProper
  BY DEF AllProper, Proper, RepliesAreProper
<1>3. Spec => []PInv
  BY ImplementsProxy, Invariance, PTL
<1> QED
  BY CallsKept, RepliesKept, <1>1, <1>2, <1>3, PTL DEF Spec

-----------------------------------------------------------------------------
(***************************************************************************)
(* The token.                                                              *)
(***************************************************************************)
Admits(r) == MayServe /\ authorize(msg[r])

TokenInv ==
  /\ phase \in {"start", "loaded"} => \A r \in Requests : pc[r] = "idle"
  /\ phase \in {"warming", "warm"} /\ command(given.cli) = "serve" => MayServe
  /\ phase \in {"serving", "stopping"} => MayServe
  /\ \A r \in Requests : LetIn(r) => Admits(r)

\* Neither the token nor who was admitted by it changes once it is loaded.
LEMMA AdmitsStay ==
  ASSUME UNCHANGED <<given, config, pc, msg, reply>>
  PROVE  /\ MayServe' = MayServe
         /\ \A r \in Requests : LetIn(r)' = LetIn(r) /\ Admits(r)' = Admits(r)
BY DEF MayServe, Token, LetIn, Admits, authorize

LEMMA ProcessKeepsToken ==
  ASSUME TokenInv,
         StartUp \/ EndSweep \/ Resweep \/ CutSweep \/ EndOfStdio \/ Interrupt \/ Shutdown
           \/ (\E u \in Users : Served(u) \/ Proceed(u)) \/ UNCHANGED vars
  PROVE  TokenInv'
<1>1. CASE Load
  <2>1. \A r \in Requests : pc'[r] = "idle"
    BY <1>1 DEF Load, TokenInv, request
  <2>2. \A r \in Requests : ~LetIn(r)'
    BY <2>1 DEF LetIn, Handled, Answered
  <2>3. phase' \in {"loaded", "exited"}
    BY <1>1 DEF Load, Exit
  <2> QED
    BY <2>1, <2>2, <2>3 DEF TokenInv
<1>2. CASE Build
  <2>1. UNCHANGED <<given, config, pc, msg, reply>>
    BY <1>2 DEF Build, request
  <2>2. phase' \in {"warming", "exited"} /\ (command(given.cli) = "serve" => MayServe)
    BY <1>2 DEF Build, GiveUp, Exit
  <2> QED
    BY <2>1, <2>2, AdmitsStay DEF TokenInv
<1>3. CASE \/ Check \/ RefuseToServe \/ StartTransport \/ EndSweep \/ Resweep \/ CutSweep
           \/ EndOfStdio \/ Interrupt \/ Shutdown \/ UNCHANGED vars
           \/ \E u \in Users : Served(u) \/ Proceed(u)
  <2>1. UNCHANGED <<given, config, pc, msg, reply>>
    BY <1>3 DEF Check, RefuseToServe, StartTransport, EndSweep, Resweep, CutSweep, EndOfStdio,
                Interrupt, Shutdown, vars, Served, Proceed, Exchange, process, request
  <2>2. \/ phase' = phase \/ phase' \in {"exited", "stdio"}
        \/ phase = "serving" /\ phase' = "stopping"
        \/ phase = "warming" /\ phase' = "warm"
        \/ phase = "warm" /\ command(given.cli) = "serve" /\ phase' = "serving"
    BY <1>3 DEF Check, RefuseToServe, StartTransport, EndSweep, Resweep, CutSweep, EndOfStdio,
                Interrupt, Shutdown, vars, Served, Proceed, Exchange, process, Exit
  <2> QED
    BY <2>1, <2>2, AdmitsStay DEF TokenInv
<1> QED
  BY <1>1, <1>2, <1>3 DEF StartUp

LEMMA RequestsKeepToken ==
  ASSUME CallInv, Attended, TokenInv, NEW r \in Requests, Acts(r)
  PROVE  TokenInv'
<1>1. UNCHANGED <<given, phase, config>> /\ phase \in {"serving", "stopping"}
  BY ActsAside DEF Attended, process
<1>2. /\ MayServe' = MayServe
      /\ \A q \in Requests \ {r} :
           pc'[q] = pc[q] /\ msg'[q] = msg[q] /\ reply'[q] = reply[q]
  BY <1>1 DEF CallInv, MayServe, Token, Acts, Accept, Started, AnswerAtOnce, BeginStatus, BeginCall,
         Arrives, Own, Report, CallNative, CallProxy, Take, NotFound, NativeReturns, ProxyReturns,
         Return, Deliver, HangUp, Respond
<1>3. \A q \in Requests \ {r} : LetIn(q)' = LetIn(q) /\ Admits(q)' = Admits(q)
  BY <1>1, <1>2 DEF LetIn, Admits, authorize, Token
<1>4. CASE Started(r)
  <2>1. PICK m \in given.asks[r] : Arrives(r, m)
          /\ \/ ~NeedsBackend(m) /\ Respond(r, Answer(m).http, Answer(m).body)
             \/ NeedsBackend(m)
    BY <1>4 DEF Started, AnswerAtOnce, BeginStatus, BeginCall
  <2>2. msg'[r] = m
    BY <2>1 DEF Arrives, CallInv
  <2>3. LetIn(r)' => authorize(m)
    <3>1. CASE NeedsBackend(m)
      BY <3>1 DEF NeedsBackend, TakenOn
    <3>2. CASE ~authorize(m) /\ Respond(r, Answer(m).http, Answer(m).body)
      <4>1. Answer(m).http = 401
        BY <3>2 DEF Answer
      <4>2. pc'[r] = "writing" /\ reply'[r].http = 401
        BY <3>2, <4>1 DEF Respond, CallInv
      <4> QED
        BY <4>2 DEF LetIn, Handled
    <3> QED
      BY <2>1, <3>1, <3>2
  <2>4. LetIn(r)' => Admits(r)'
    BY <1>1, <1>2, <2>2, <2>3 DEF Admits, authorize, Token, TokenInv
  <2> QED
    BY <1>1, <1>2, <1>3, <2>2, <2>4 DEF TokenInv
<1>5. CASE Own(r)
  <2>1. msg' = msg /\ pc[r] \in Handled
    BY <1>5 DEF Own, Report, CallNative, CallProxy, Take, NotFound, NativeReturns, ProxyReturns,
                Return, Admitted, Handled
  <2>2. Admits(r)'
    BY <1>1, <1>2, <2>1 DEF TokenInv, LetIn, Admits, authorize, Token
  <2> QED
    BY <1>1, <1>2, <1>3, <2>2 DEF TokenInv
<1>6. CASE Accept(r) \/ Deliver(r) \/ HangUp(r)
  <2>1. msg' = msg /\ reply' = reply /\ (LetIn(r)' => LetIn(r))
    BY <1>6 DEF Accept, Deliver, HangUp, LetIn, Handled, Answered, CallInv
  <2>2. LetIn(r)' => Admits(r)'
    BY <1>1, <1>2, <2>1 DEF TokenInv, Admits, authorize, Token
  <2> QED
    BY <1>1, <1>2, <1>3, <2>2 DEF TokenInv
<1> QED
  BY <1>4, <1>5, <1>6 DEF Acts

LEMMA TokenKept == Spec => []TokenInv
<1>1. Init => TokenInv
  BY DEF Init, TokenInv, LetIn, Handled, Answered
<1>2. CallInv /\ Attended /\ TokenInv /\ [Next]_vars => TokenInv'
  BY ProcessKeepsToken, RequestsKeepToken DEF Next, Acts
<1> QED
  BY CallsKept, AttendedKept, <1>1, <1>2, PTL DEF Spec

-----------------------------------------------------------------------------
(***************************************************************************)
(* Router::deadline.                                                       *)
(***************************************************************************)
\* Whatever a call asks for, its deadline is a whole number of seconds and at
\* most the configured maximum if that is a second or more; a maximum below one
\* second is exceeded: the deadline is then one second.
THEOREM DeadlineIsWithinLimits ==
  ASSUME NEW arguments, NEW limits,
         \A k \in {"timeout", "timeout_ms"} : U64(arguments, k) => arguments[k] \in Nat,
         limits.max_tool_timeout \in Nat, limits.default_tool_timeout \in Nat
  PROVE  /\ deadline(arguments, limits) \in Nat \ {0}
         /\ limits.max_tool_timeout >= 1000 =>
              deadline(arguments, limits) * 1000 <= limits.max_tool_timeout
         /\ limits.max_tool_timeout < 1000 => deadline(arguments, limits) = 1
<1> DEFINE seconds == CASE U64(arguments, "timeout") -> arguments["timeout"]
                        [] U64(arguments, "timeout_ms") /\ ~U64(arguments, "timeout") ->
                             Rounded(arguments["timeout_ms"], 1000)
                        [] OTHER -> limits.default_tool_timeout \div 1000
           most == limits.max_tool_timeout \div 1000
<1>1. seconds \in Nat
  <2>1. \A n \in Nat : Rounded(n, 1000) \in Nat
    BY DEF Rounded, div_ceil
  <2>2. limits.default_tool_timeout \div 1000 \in Nat
    OBVIOUS
  <2> QED
    BY <2>1, <2>2
<1>2. /\ most \in Nat /\ most * 1000 <= limits.max_tool_timeout
      /\ limits.max_tool_timeout >= 1000 => most >= 1
      /\ limits.max_tool_timeout < 1000 => most = 0
  OBVIOUS
<1>3. deadline(arguments, limits) = Between(1, seconds, IF most < 1 THEN 1 ELSE most)
  BY DEF deadline
<1> HIDE DEF seconds, most
<1> QED
  BY <1>1, <1>2, <1>3 DEF Between

-----------------------------------------------------------------------------
(***************************************************************************)
(* Deadlines.  Whatever the file says, its limits are numbers once it is   *)
(* loaded, and they stay what they are while requests are in hand.         *)
(***************************************************************************)
Usable(limits) == limits.max_tool_timeout \in Nat /\ limits.default_tool_timeout \in Nat

\* A duration that parses is a number of milliseconds.
LEMMA ParsedIsNatural ==
  ASSUME NEW d, Parses(d)
  PROVE  parse(d) \in Nat
<1>1. d.number \in Nat /\ Factor[d.unit] \in Nat /\ MaxU64 + 1 \in Nat \ {0}
  BY MaxU64Assumption DEF Parses, IsU64, Factor
<1>2. d.number * Factor[d.unit] \in Nat
  BY <1>1
<1> HIDE DEF Factor
<1> QED
  BY <1>1, <1>2 DEF parse

\* A duration of a table that fits its type parses or is left out.
LEMMA DurationIsNatural ==
  ASSUME NEW table_, NEW env, NEW type, Fits(table_, type), NEW k \in DurationKeys,
         k \in DOMAIN type.default, type.default[k] \in Nat
  PROVE  Deserialized(ExpandTable(table_, env), type)[k] \in Nat
<1> DEFINE found == ExpandTable(table_, env)
           read == Deserialized(found, type)
<1>1. k \notin TextKeys
  BY DEF DurationKeys, TextKeys
<1>2. DOMAIN found = DOMAIN table_
  BY DEF ExpandTable
<1>3. CASE k \in DOMAIN table_
  <2>1. found[k] = table_[k]
    BY <1>1, <1>3 DEF ExpandTable, TextsIn
  <2>2. Parses(table_[k]) /\ k \in DurationsIn(found)
    BY <1>2, <1>3 DEF Fits, DurationsIn
  <2>3. read[k] = parse(found[k])
    BY <1>2, <1>3, <2>2 DEF Deserialized
  <2> QED
    BY <2>1, <2>2, <2>3, ParsedIsNatural
<1>4. CASE k \notin DOMAIN table_
  <2>1. read[k] = type.default[k]
    BY <1>2, <1>4 DEF Deserialized, DurationsIn
  <2> QED
    BY <2>1
<1> QED
  BY <1>3, <1>4

LEMMA ReadIsUsable ==
  ASSUME NEW file, NEW env, Fits(file.limits, Limits)
  PROVE  Usable(ConfigOf(file, env).limits)
<1>1. ASSUME NEW k \in {"max_tool_timeout", "default_tool_timeout"}
      PROVE  ConfigOf(file, env).limits[k] \in Nat
  <2>1. k \in DurationKeys /\ k \in DOMAIN Limits.default /\ Limits.default[k] \in Nat
    BY DEF DurationKeys, Limits
  <2>2. Deserialized(ExpandTable(file.limits, env), Limits)[k] \in Nat
    BY <2>1, DurationIsNatural
  <2> QED
    BY <2>2 DEF ConfigOf
<1> QED
  BY <1>1 DEF Usable

LEMMA ProxyIsTimed ==
  ASSUME NEW file, NEW env, NEW i \in DOMAIN file.proxies, Fits(file.proxies[i], ProxyConfig)
  PROVE  ConfigOf(file, env).proxies[i].timeout \in Nat
<1>1. /\ "timeout" \in DurationKeys /\ "timeout" \in DOMAIN ProxyConfig.default
      /\ ProxyConfig.default["timeout"] \in Nat
  BY DEF DurationKeys, ProxyConfig
<1>2. Deserialized(ExpandTable(file.proxies[i], env), ProxyConfig)["timeout"] \in Nat
  BY <1>1, DurationIsNatural
<1> QED
  BY <1>2 DEF ConfigOf

LEMMA TypedIsSeq ==
  ASSUME NEW tables, NEW type, NEW S,
         Len(tables) \in Nat, DOMAIN tables = 1 .. Len(tables),
         \A i \in DOMAIN tables : [table |-> tables[i], type |-> type] \in S
  PROVE  [i \in DOMAIN tables |-> [table |-> tables[i], type |-> type]] \in Seq(S)
<1> DEFINE n == Len(tables)
<1>1. n \in Nat /\ DOMAIN tables = 1 .. n
  OBVIOUS
<1> HIDE DEF n
<1>2. [i \in 1 .. n |-> [table |-> tables[i], type |-> type]] \in [1 .. n -> S]
  BY <1>1
<1> QED
  BY <1>1, <1>2

LEMMA FirstTables ==
  ASSUME NEW file,
         \A tables \in {file.proxies, file.sidecars, file.ssh} :
           Len(tables) \in Nat /\ DOMAIN tables = 1 .. Len(tables)
  PROVE  /\ {1, 2} \subseteq DOMAIN Tables(file)
         /\ Tables(file)[1] = [table |-> file.server, type |-> ServerConfig]
         /\ Tables(file)[2] = [table |-> file.limits, type |-> Limits]
         /\ \A i \in DOMAIN file.proxies :
              /\ 2 + i \in DOMAIN Tables(file)
              /\ Tables(file)[2 + i] = [table |-> file.proxies[i], type |-> ProxyConfig]
<1> DEFINE first == <<[table |-> file.server, type |-> ServerConfig],
                      [table |-> file.limits, type |-> Limits]>>
           Typed(tables, type) == [i \in DOMAIN tables |-> [table |-> tables[i], type |-> type]]
           proxies == Typed(file.proxies, ProxyConfig)
           sidecars == Typed(file.sidecars, SidecarConfig)
           ssh == Typed(file.ssh, SshServerConfig)
           Kept(s) == /\ {1, 2} \subseteq DOMAIN s
                      /\ s[1] = [table |-> file.server, type |-> ServerConfig]
                      /\ s[2] = [table |-> file.limits, type |-> Limits]
           Next_(s) == \A i \in DOMAIN proxies : 2 + i \in DOMAIN s /\ s[2 + i] = proxies[i]
           Typings == UNION {Range(first), Range(proxies), Range(sidecars), Range(ssh)}
<1>1. ASSUME NEW s \in Seq(Typings), NEW t \in Seq(Typings), Kept(s)
      PROVE  s \o t \in Seq(Typings) /\ Kept(s \o t)
  <2>1. 1 \in 1 .. Len(s) /\ 2 \in 1 .. Len(s) /\ Len(s) \in Nat /\ Len(t) \in Nat
    BY <1>1
  <2> HIDE DEF Typings
  <2> QED
    BY <1>1, <2>1
<1>2. first \in Seq(Typings) /\ Kept(first) /\ Len(first) = 2
  <2>1. \A i \in {1, 2} : first[i] \in Typings
    BY DEF Range
  <2> HIDE DEF Typings
  <2> QED
    BY <2>1
<1>3. proxies \in Seq(Typings) /\ sidecars \in Seq(Typings) /\ ssh \in Seq(Typings)
  <2>1. /\ \A i \in DOMAIN proxies : proxies[i] \in Typings
        /\ \A i \in DOMAIN sidecars : sidecars[i] \in Typings
        /\ \A i \in DOMAIN ssh : ssh[i] \in Typings
    BY DEF Range
  <2> HIDE DEF Typings
  <2>2. proxies \in Seq(Typings)
    BY <2>1, TypedIsSeq
  <2>3. sidecars \in Seq(Typings)
    BY <2>1, TypedIsSeq
  <2>4. ssh \in Seq(Typings)
    BY <2>1, TypedIsSeq
  <2> QED
    BY <2>2, <2>3, <2>4
<1>4. Tables(file) = ((first \o proxies) \o sidecars) \o ssh
  BY DEF Tables
<1>5. /\ DOMAIN proxies = DOMAIN file.proxies
      /\ \A i \in DOMAIN proxies : proxies[i] = [table |-> file.proxies[i], type |-> ProxyConfig]
  OBVIOUS
<1> HIDE DEF first, proxies, sidecars, ssh, Typings, Kept
<1>6. Kept(((first \o proxies) \o sidecars) \o ssh)
  BY <1>1, <1>2, <1>3
<1>7. ASSUME NEW s \in Seq(Typings), NEW t \in Seq(Typings), Next_(s)
      PROVE  s \o t \in Seq(Typings) /\ Next_(s \o t)
  <2>1. /\ Len(s) \in Nat /\ Len(t) \in Nat /\ DOMAIN s = 1 .. Len(s)
        /\ s \o t \in Seq(Typings) /\ Len(s \o t) = Len(s) + Len(t)
        /\ DOMAIN (s \o t) = 1 .. Len(s \o t)
        /\ \A i \in 1 .. Len(s) : (s \o t)[i] = s[i]
    OBVIOUS
  <2>2. \A i \in 1 .. Len(s) : i \in 1 .. Len(s \o t)
    BY <2>1
  <2> QED
    BY <1>7, <2>1, <2>2
<1>8. first \o proxies \in Seq(Typings) /\ Next_(first \o proxies)
  <2>1. OneAfterOther(Typings, first, proxies, first \o proxies)
    BY <1>2, <1>3, Concat
  <2>2. DOMAIN proxies = 1 .. Len(proxies) /\ Len(proxies) \in Nat
    BY <1>3
  <2> QED
    BY <1>2, <2>1, <2>2 DEF OneAfterOther
<1>9. Next_(((first \o proxies) \o sidecars) \o ssh)
  <2> HIDE DEF Next_
  <2> QED
    BY <1>3, <1>7, <1>8
<1> QED
  BY <1>4, <1>5, <1>6, <1>9 DEF Kept

\* Its limits are numbers, and so is the timeout of every proxy.
Timed(cfg) == /\ Usable(cfg.limits)
              /\ \A i \in DOMAIN cfg.proxies : cfg.proxies[i].timeout \in Nat

LEMMA DefaultsAreTimed == Timed(Defaults)
<1>1. Defaults.proxies = <<>> /\ DOMAIN <<>> = {}
  BY DEF Defaults
<1>2. Usable(Defaults.limits)
  BY DEF Defaults, Limits, Usable
<1> QED
  BY <1>1, <1>2 DEF Timed

LEMMA LoadedIsTimed ==
  ASSUME given \in Worlds, load_or_default(File, given.env).ok
  PROVE  Timed(load_or_default(File, given.env).config)
<1>1. File.kind \in {"absent", "unreadable", "notToml", "toml"}
  BY FilesAssumption DEF File
<1>2. CASE File.kind = "absent"
  <2>1. load_or_default(File, given.env).config = Defaults
    BY <1>2 DEF load_or_default, Loaded
  <2> QED
    BY <2>1, DefaultsAreTimed
<1>3. CASE File.kind \in {"unreadable", "notToml"}
  BY <1>3 DEF load_or_default, Refused
<1>4. CASE File.kind = "toml"
  <2> DEFINE c == ConfigOf(File, given.env)
  <2>1. /\ 2 \in DOMAIN Tables(File)
        /\ Tables(File)[2] = [table |-> File.limits, type |-> Limits]
        /\ \A i \in DOMAIN File.proxies :
             /\ 2 + i \in DOMAIN Tables(File)
             /\ Tables(File)[2 + i] = [table |-> File.proxies[i], type |-> ProxyConfig]
    BY <1>4, FirstTables, FilesAssumption DEF File
  <2>2. /\ load_or_default(File, given.env) = Loaded(c)
        /\ \A i \in DOMAIN Tables(File) : Fits(Tables(File)[i].table, Tables(File)[i].type)
    BY <1>4 DEF load_or_default, Refused
  <2>3. Usable(c.limits)
    <3>1. Fits(File.limits, Limits)
      BY <2>1, <2>2
    <3> QED
      BY <3>1, ReadIsUsable
  <2>4. ASSUME NEW i \in DOMAIN c.proxies
        PROVE  c.proxies[i].timeout \in Nat
    <3>1. i \in DOMAIN File.proxies
      BY DEF ConfigOf
    <3>2. Fits(File.proxies[i], ProxyConfig)
      <4>1. 2 + i \in DOMAIN Tables(File)
            /\ Tables(File)[2 + i] = [table |-> File.proxies[i], type |-> ProxyConfig]
        BY <2>1, <3>1
      <4>2. Fits(Tables(File)[2 + i].table, Tables(File)[2 + i].type)
        BY <2>2, <4>1
      <4> QED
        BY <4>1, <4>2
    <3> QED
      BY <3>1, <3>2, ProxyIsTimed
  <2> HIDE DEF c
  <2> QED
    BY <2>2, <2>3, <2>4 DEF Loaded, Timed
<1> QED
  BY <1>1, <1>2, <1>3, <1>4

Numbered(arguments) ==
  \A key \in {"timeout", "timeout_ms"} : U64(arguments, key) => arguments[key] \in Nat

DeadlineInv ==
  /\ Timed(config)
  /\ \A r \in Requests :
       /\ pc[r] \in Handled => Numbered(msg[r].arguments)
       /\ pc[r] \in {"native", "proxy"} => passed[r].ms = Passed(msg[r], pc[r]).ms
       /\ pc[r] = "proxy" => HasProxy

\* A call's message and deadline stay as they are, as do the limits.
LEMMA PassedStays ==
  UNCHANGED <<given, config>> =>
    /\ HasProxy' = HasProxy
    /\ \A m, place : Passed(m, place)' = Passed(m, place)
BY DEF HasProxy, Passed, OwnTimeout

LEMMA RequestsKeepDeadlines ==
  ASSUME CallInv, DeadlineInv, NEW r \in Requests, Acts(r)
  PROVE  DeadlineInv'
<1>0. /\ UNCHANGED <<given, config>> /\ HasProxy' = HasProxy
      /\ \A m, place : Passed(m, place)' = Passed(m, place)
      /\ Timed(config)'
  BY ActsAside, PassedStays DEF process, DeadlineInv, Timed, Usable
<1> USE DEF CallInv, DeadlineInv, Handled
<1>1. CASE Started(r)
  <2>1. PICK m \in given.asks[r] : Arrives(r, m)
    BY <1>1 DEF Started, AnswerAtOnce, BeginStatus, BeginCall
  <2>2. \E place \in {"writing", "status", "permit"} : pc' = [pc EXCEPT ![r] = place]
    BY <1>1 DEF Started, AnswerAtOnce, BeginStatus, BeginCall, Respond
  <2>3. msg' = [msg EXCEPT ![r] = m] /\ passed' = passed
    BY <2>1 DEF Arrives
  <2>4. Numbered(m.arguments)
    BY MessagesAssumption DEF Numbered
  <2> QED
    BY <1>0, <2>2, <2>3, <2>4
<1>2. CASE CallNative(r) \/ CallProxy(r)
  <2>1. PICK place \in {"native", "proxy"} : Take(r, place) /\ (place = "proxy" => HasProxy)
    BY <1>2 DEF CallNative, CallProxy, OnProxy
  <2>2. pc[r] = "permit"
    BY <1>2 DEF CallNative, CallProxy, Admitted
  <2>3. /\ pc' = [pc EXCEPT ![r] = place] /\ msg' = msg
        /\ passed' = [passed EXCEPT ![r] = Passed(msg[r], place)]
    BY <2>1 DEF Take
  <2> QED
    BY <1>0, <2>1, <2>2, <2>3
<1>3. CASE \/ Report(r) \/ NotFound(r) \/ NativeReturns(r) \/ ProxyReturns(r)
           \/ Accept(r) \/ Deliver(r) \/ HangUp(r)
  <2>1. /\ \E place \in {"reading", "writing", "over", "gone"} : pc' = [pc EXCEPT ![r] = place]
        /\ UNCHANGED <<msg, passed>>
    BY <1>3 DEF Report, NotFound, NativeReturns, ProxyReturns, Return, Respond, Accept, Deliver,
                HangUp
  <2> QED
    BY <1>0, <2>1
<1> QED
  BY <1>1, <1>2, <1>3 DEF Acts, Own

LEMMA RestKeepsDeadlines ==
  ASSUME CallInv, TokenInv, DeadlineInv, UNCHANGED <<given, pc, msg, passed, reply>>,
         Load \/ UNCHANGED config
  PROVE  DeadlineInv'
<1>1. CASE UNCHANGED config
  <2>1. /\ HasProxy' = HasProxy /\ Timed(config)' = Timed(config)
        /\ \A m, place : Passed(m, place)' = Passed(m, place)
    BY <1>1, PassedStays DEF Timed, Usable
  <2> QED
    BY <2>1 DEF DeadlineInv
<1>2. CASE Load
  <2>1. \A r \in Requests : pc'[r] = "idle"
    BY <1>2 DEF Load, TokenInv
  <2>2. Timed(config')
    BY <1>2, LoadedIsTimed DEF Load, CallInv, DeadlineInv
  <2>3. Timed(config)'
    BY <2>2 DEF Timed, Usable
  <2> QED
    BY <2>1, <2>3 DEF DeadlineInv, Handled
<1> QED
  BY <1>1, <1>2

LEMMA ConfigStays ==
  ASSUME StartUp \/ EndSweep \/ Resweep \/ CutSweep \/ EndOfStdio \/ Interrupt \/ Shutdown
           \/ \E u \in Users : Served(u) \/ Proceed(u)
  PROVE  Load \/ UNCHANGED config
<1> USE DEF process
<1>1. CASE StartUp
  BY <1>1 DEF StartUp, Check, RefuseToServe, Build, StartTransport
<1>2. CASE EndSweep \/ Resweep \/ CutSweep \/ EndOfStdio \/ Interrupt \/ Shutdown
  BY <1>2 DEF EndSweep, Resweep, CutSweep, EndOfStdio, Interrupt, Shutdown
<1>3. CASE \E u \in Users : Served(u) \/ Proceed(u)
  BY <1>3 DEF Served, Proceed, Exchange
<1> QED
  BY <1>1, <1>2, <1>3

LEMMA DeadlinesKept == Spec => []DeadlineInv
<1>1. Init => DeadlineInv
  BY DefaultsAreTimed DEF Init, DeadlineInv, Handled
<1>2. CallInv /\ TokenInv /\ DeadlineInv /\ [Next]_vars => DeadlineInv'
  <2> SUFFICES ASSUME CallInv, TokenInv, DeadlineInv, [Next]_vars
               PROVE  DeadlineInv'
    OBVIOUS
  <2>1. CASE \E r \in Requests : Acts(r)
    BY <2>1, RequestsKeepDeadlines
  <2>2. CASE \/ StartUp \/ EndSweep \/ Resweep \/ CutSweep \/ EndOfStdio \/ Interrupt \/ Shutdown
             \/ \E u \in Users : Served(u) \/ Proceed(u)
    BY <2>2, RestKeeps, ConfigStays, RestKeepsDeadlines
  <2>3. CASE UNCHANGED vars
    BY <2>3, RestKeepsDeadlines DEF vars, request, process
  <2> QED
    BY <2>1, <2>2, <2>3 DEF Next, Acts
<1> QED
  BY CallsKept, TokenKept, <1>1, <1>2, PTL DEF Spec

LEMMA MaxOfTwo ==
  ASSUME NEW a \in Nat, NEW b \in Nat
  PROVE  Max({a, b}) = IF a >= b THEN a ELSE b
<1>1. \E x \in {a, b} : \A y \in {a, b} : x >= y
  OBVIOUS
<1>2. Max({a, b}) \in {a, b} /\ \A y \in {a, b} : Max({a, b}) >= y
  BY <1>1 DEF Max
<1> QED
  BY <1>2

\* The seconds a call asks for are what Asked says, rounded up.
LEMMA SecondsAsked ==
  ASSUME NEW m, Numbered(m.arguments), Usable(config.limits)
  PROVE  \E seconds \in Nat :
           /\ Asked(m) \in Nat
           /\ Asked(m) <= seconds * 1000 /\ seconds * 1000 < Asked(m) + 1000
           /\ deadline(m.arguments, config.limits) =
                LET most == config.limits.max_tool_timeout \div 1000
                IN  Between(1, seconds, IF most < 1 THEN 1 ELSE most)
<1> USE DEF deadline, Asked, as_secs, Numbered, Usable
<1>1. CASE U64(m.arguments, "timeout")
  <2>1. m.arguments["timeout"] \in Nat
    BY <1>1
  <2> QED
    BY <1>1, <2>1
<1>2. CASE ~U64(m.arguments, "timeout") /\ U64(m.arguments, "timeout_ms")
  <2> DEFINE ms == m.arguments["timeout_ms"]
  <2>1. ms \in Nat
    BY <1>2
  <2>2. /\ Rounded(ms, 1000) \in Nat
        /\ ms <= Rounded(ms, 1000) * 1000 /\ Rounded(ms, 1000) * 1000 < ms + 1000
    BY <2>1 DEF Rounded, div_ceil
  <2>3. Asked(m) = ms
    BY <1>2
  <2> QED
    BY <1>2, <2>1, <2>2, <2>3
<1>3. CASE ~U64(m.arguments, "timeout") /\ ~U64(m.arguments, "timeout_ms")
  <2> DEFINE seconds == config.limits.default_tool_timeout \div 1000
  <2>1. seconds \in Nat /\ Asked(m) = seconds * 1000
    BY <1>3
  <2>2. deadline(m.arguments, config.limits) =
          LET most == config.limits.max_tool_timeout \div 1000
          IN  Between(1, seconds, IF most < 1 THEN 1 ELSE most)
    BY <1>3
  <2> HIDE DEF seconds
  <2> QED
    BY <2>1, <2>2
<1> QED
  BY <1>1, <1>2, <1>3

-----------------------------------------------------------------------------
(***************************************************************************)
(* The enabled tables: a selection in order.                               *)
(***************************************************************************)
\* The tables e are some of the first k of t, one after the other.
Picked(S, t, e, k) ==
  /\ e \in Seq(S)
  /\ \E m \in [1 .. Len(e) -> 1 .. k] :
       /\ \A i \in 1 .. Len(e) : e[i] = t[m[i]]
       /\ \A i, j \in 1 .. Len(e) : i < j => m[i] < m[j]

Selecting(kept, tables, n) ==
  kept = [i \in 0 .. n |->
            CASE i = 0                      -> <<>>
              [] i # 0 /\ tables[i].enabled -> Append(kept[i - 1], tables[i])
              [] OTHER                      -> kept[i - 1]]

LEMMA EnabledSteps ==
  ASSUME NEW tables, Len(tables) \in Nat
  PROVE  \E kept : /\ Selecting(kept, tables, Len(tables))
                   /\ Enabled(tables) = kept[Len(tables)]
<1> DEFINE N == Len(tables)
           T == {k \in Nat : \E g : Selecting(g, tables, k)}
           R == CHOOSE f : f = [i \in 0 .. N |->
                  CASE i = 0                      -> <<>>
                    [] i # 0 /\ tables[i].enabled -> Append(f[i - 1], tables[i])
                    [] OTHER                      -> f[i - 1]]
<1>1. 0 \in T
  <2>1. Selecting([i \in 0 .. 0 |-> <<>>], tables, 0)
    BY DEF Selecting
  <2> QED
    BY <2>1
<1>2. ASSUME NEW k \in Nat, k \in T PROVE k + 1 \in T
  <2>1. PICK g : Selecting(g, tables, k)
    BY <1>2
  <2> DEFINE last == IF tables[k + 1].enabled THEN Append(g[k], tables[k + 1]) ELSE g[k]
             h == [i \in 0 .. k + 1 |-> IF i = k + 1 THEN last ELSE g[i]]
             After(i) == CASE i = 0                      -> <<>>
                           [] i # 0 /\ tables[i].enabled -> Append(h[i - 1], tables[i])
                           [] OTHER                      -> h[i - 1]
  <2>2. ASSUME NEW i \in 0 .. k + 1 PROVE h[i] = After(i)
    <3>1. CASE i = k + 1
      <4>1. h[i - 1] = g[k] /\ h[i] = last /\ i # 0
        BY <3>1
      <4> QED
        BY <3>1, <4>1
    <3>2. CASE i = 0
      BY <3>2, <2>1 DEF Selecting
    <3>3. CASE i # 0 /\ i # k + 1
      <4>1. i \in 0 .. k /\ i - 1 \in 0 .. k /\ i - 1 \in 0 .. k + 1 /\ i - 1 # k + 1
        BY <3>3
      <4>2. h[i] = g[i] /\ h[i - 1] = g[i - 1]
        BY <4>1, <3>3
      <4> HIDE DEF h
      <4>3. g[i] = CASE i = 0                      -> <<>>
                     [] i # 0 /\ tables[i].enabled -> Append(g[i - 1], tables[i])
                     [] OTHER                      -> g[i - 1]
        BY <4>1, <3>3, <2>1 DEF Selecting
      <4> QED
        BY <4>2, <4>3, <3>3
    <3> QED
      BY <3>1, <3>2, <3>3
  <2>3. h = [i \in 0 .. k + 1 |-> h[i]]
    OBVIOUS
  <2> HIDE DEF h
  <2>4. Selecting(h, tables, k + 1)
    BY <2>2, <2>3 DEF Selecting
  <2> QED
    BY <2>4
<1>3. \E f : Selecting(f, tables, N)
  BY <1>1, <1>2, Upwards
<1>4. Selecting(R, tables, N)
  BY <1>3 DEF Selecting
<1>5. Enabled(tables) = R[N]
  BY DEF Enabled
<1> HIDE DEF R
<1> QED
  BY <1>4, <1>5

LEMMA PickOne ==
  ASSUME NEW S, NEW t \in Seq(S), NEW k \in Nat, k < Len(t), NEW e, Picked(S, t, e, k)
  PROVE  Picked(S, t, Append(e, t[k + 1]), k + 1)
<1> DEFINE f == Append(e, t[k + 1])
<1>1. PICK m \in [1 .. Len(e) -> 1 .. k] :
              /\ \A i \in 1 .. Len(e) : e[i] = t[m[i]]
              /\ \A i, j \in 1 .. Len(e) : i < j => m[i] < m[j]
  BY DEF Picked
<1>2. e \in Seq(S) /\ k + 1 \in 1 .. Len(t) /\ t[k + 1] \in S
  BY DEF Picked
<1>3. /\ Len(e) \in Nat /\ Len(f) = Len(e) + 1 /\ f \in Seq(S)
      /\ f[Len(f)] = t[k + 1] /\ \A i \in 1 .. Len(e) : f[i] = e[i]
  BY <1>2
<1> HIDE DEF f
<1>4. ASSUME NEW i \in 1 .. Len(f), i # Len(f)
      PROVE  i \in 1 .. Len(e) /\ m[i] \in 1 .. k
  <2>1. Len(e) \in Nat /\ Len(f) = Len(e) + 1
    BY <1>3
  <2>2. i \in 1 .. Len(e)
    BY <1>4, <2>1
  <2> QED
    BY <2>2
<1> DEFINE w == [i \in 1 .. Len(f) |-> IF i = Len(f) THEN k + 1 ELSE m[i]]
<1>5. w \in [1 .. Len(f) -> 1 .. k + 1]
  BY <1>3, <1>4
<1>6. \A i \in 1 .. Len(f) : f[i] = t[w[i]]
  BY <1>1, <1>3, <1>4
<1>7. ASSUME NEW i \in 1 .. Len(f), NEW j \in 1 .. Len(f), i < j PROVE w[i] < w[j]
  <2>1. i # Len(f) /\ i \in 1 .. Len(e) /\ w[i] = m[i] /\ m[i] \in 1 .. k
    BY <1>3, <1>4, <1>7
  <2>2. CASE j = Len(f)
    BY <2>1, <2>2
  <2>3. CASE j # Len(f)
    BY <1>1, <1>4, <1>7, <2>1, <2>3
  <2> QED
    BY <2>2, <2>3
<1> HIDE DEF w
<1>8. Picked(S, t, f, k + 1)
  BY <1>3, <1>5, <1>6, <1>7 DEF Picked
<1> QED
  BY <1>8 DEF f

\* What router and backends are built of are some of the configured tables, in
\* their order and none of them twice.
LEMMA EnabledPicks ==
  ASSUME NEW S, NEW t \in Seq(S)
  PROVE  Picked(S, t, Enabled(t), Len(t))
<1> DEFINE N == Len(t)
<1>0. N \in Nat
  OBVIOUS
<1>1. PICK kept : Selecting(kept, t, N) /\ Enabled(t) = kept[N]
  BY EnabledSteps
<1> HIDE DEF N
<1> DEFINE T == {k \in 0 .. N : Picked(S, t, kept[k], k)}
<1>2. 0 \in T
  <2>1. kept[0] = <<>>
    BY <1>0, <1>1 DEF Selecting
  <2>2. <<>> \in Seq(S) /\ 1 .. Len(<<>>) = {}
    OBVIOUS
  <2>3. Picked(S, t, <<>>, 0)
    <3>1. [i \in {} |-> 0] \in [{} -> 1 .. 0]
      OBVIOUS
    <3> QED
      BY <2>2, <3>1, Zenon DEF Picked
  <2> QED
    BY <1>0, <2>1, <2>3
<1>3. ASSUME NEW k \in 0 .. N, k \in T, k < N PROVE k + 1 \in T
  <2>1. k \in Nat /\ k < Len(t) /\ k + 1 \in 0 .. N /\ k + 1 # 0 /\ (k + 1) - 1 = k
    BY <1>3, <1>0 DEF N
  <2>2. Picked(S, t, kept[k], k)
    BY <1>3
  <2>3. CASE t[k + 1].enabled
    <3>1. kept[k + 1] = Append(kept[k], t[k + 1])
      BY <1>1, <2>1, <2>3 DEF Selecting
    <3> QED
      BY <2>1, <2>2, <3>1, PickOne
  <2>4. CASE ~t[k + 1].enabled
    <3>1. kept[k + 1] = kept[k]
      BY <1>1, <2>1, <2>4 DEF Selecting
    <3>2. PICK m \in [1 .. Len(kept[k]) -> 1 .. k] :
              /\ \A i \in 1 .. Len(kept[k]) : kept[k][i] = t[m[i]]
              /\ \A i, j \in 1 .. Len(kept[k]) : i < j => m[i] < m[j]
      BY <2>2 DEF Picked
    <3>3. m \in [1 .. Len(kept[k]) -> 1 .. k + 1]
      BY <2>1
    <3>4. Picked(S, t, kept[k], k + 1)
      BY <2>2, <3>2, <3>3 DEF Picked
    <3> QED
      BY <2>1, <3>1, <3>4
  <2> QED
    BY <2>3, <2>4
<1>4. 0 .. N \subseteq T
  <2> HIDE DEF T
  <2> QED
    BY <1>0, <1>2, <1>3, UpTo
<1> QED
  BY <1>0, <1>1, <1>4 DEF N

-----------------------------------------------------------------------------
(***************************************************************************)
(* What is loaded: how many calls are allowed, and who the backends are.   *)
(***************************************************************************)
Sound(cfg) ==
  /\ cfg.limits.max_concurrent_calls \in Nat
  /\ cfg.proxies \in Seq(Range(cfg.proxies)) /\ cfg.sidecars \in Seq(Range(cfg.sidecars))
  /\ IsInjective(NamesOf(cfg))

LEMMA DefaultsAreSound == Sound(Defaults)
<1>1. /\ Defaults.limits.max_concurrent_calls = 16
      /\ Defaults.proxies = <<>> /\ Defaults.sidecars = <<>>
  BY DEF Defaults, Limits
<1>2. \A i \in DOMAIN <<>> : FALSE
  OBVIOUS
<1>3. [i \in DOMAIN <<>> |-> <<>>[i].name] = <<>>
  BY <1>2
<1>4. NamesOf(Defaults) = <<>>
  BY <1>1, <1>3 DEF NamesOf
<1>5. <<>> \in Seq(Range(<<>>))
  OBVIOUS
<1> QED
  BY <1>1, <1>2, <1>4, <1>5 DEF Sound, IsInjective

LEMMA CountIsNatural ==
  ASSUME NEW file, NEW env, Fits(file.limits, Limits)
  PROVE  ConfigOf(file, env).limits.max_concurrent_calls \in Nat
<1> DEFINE k == "max_concurrent_calls"
           found == ExpandTable(file.limits, env)
           read == Deserialized(found, Limits)
<1>1. k \in CountKeys /\ k \notin DurationKeys /\ k \notin TextKeys
  BY DEF CountKeys, DurationKeys, TextKeys
<1>2. k \in DOMAIN Limits.default /\ Limits.default[k] \in Nat
  BY DEF Limits
<1>3. DOMAIN found = DOMAIN file.limits
  BY DEF ExpandTable
<1>4. CASE k \in DOMAIN file.limits
  <2>1. found[k] = file.limits[k]
    BY <1>1, <1>4 DEF ExpandTable, TextsIn
  <2>2. file.limits[k] \in Nat
    BY <1>1, <1>4 DEF Fits, CountsIn
  <2>3. read[k] = found[k]
    BY <1>1, <1>3, <1>4 DEF Deserialized, DurationsIn
  <2> QED
    BY <2>1, <2>2, <2>3 DEF ConfigOf
<1>5. CASE k \notin DOMAIN file.limits
  <2>1. read[k] = Limits.default[k]
    BY <1>2, <1>3, <1>5 DEF Deserialized, DurationsIn
  <2> QED
    BY <1>2, <2>1 DEF ConfigOf
<1> QED
  BY <1>4, <1>5

LEMMA ReadIsSeq ==
  ASSUME NEW tables, Len(tables) \in Nat, DOMAIN tables = 1 .. Len(tables), NEW env, NEW type
  PROVE  LET s == [i \in DOMAIN tables |-> Deserialized(ExpandTable(tables[i], env), type)]
         IN  s \in Seq(Range(s))
<1> DEFINE n == Len(tables)
           s == [i \in DOMAIN tables |-> Deserialized(ExpandTable(tables[i], env), type)]
<1>1. n \in Nat /\ DOMAIN s = 1 .. n
  OBVIOUS
<1>2. s \in [1 .. n -> Range(s)]
  BY DEF Range
<1> HIDE DEF n, s
<1>3. s \in Seq(Range(s))
  BY <1>1, <1>2
<1> QED
  BY <1>3 DEF s

LEMMA LoadedIsSound ==
  ASSUME given \in Worlds, load_or_default(File, given.env).ok
  PROVE  Sound(load_or_default(File, given.env).config)
<1>1. File.kind \in {"absent", "unreadable", "notToml", "toml"}
  BY FilesAssumption DEF File
<1>2. CASE File.kind = "absent"
  <2>1. load_or_default(File, given.env).config = Defaults
    BY <1>2 DEF load_or_default, Loaded
  <2> QED
    BY <2>1, DefaultsAreSound
<1>3. CASE File.kind \in {"unreadable", "notToml"}
  BY <1>3 DEF load_or_default, Refused
<1>4. CASE File.kind = "toml"
  <2> DEFINE c == ConfigOf(File, given.env)
  <2>1. /\ 2 \in DOMAIN Tables(File)
        /\ Tables(File)[2] = [table |-> File.limits, type |-> Limits]
    BY <1>4, FirstTables, FilesAssumption DEF File
  <2>2. /\ load_or_default(File, given.env) = Loaded(c)
        /\ \A i \in DOMAIN Tables(File) : Fits(Tables(File)[i].table, Tables(File)[i].type)
        /\ validate(c)
    BY <1>4 DEF load_or_default, Refused
  <2>3. c.limits.max_concurrent_calls \in Nat
    BY <2>1, <2>2, CountIsNatural
  <2>4. \A tables \in {File.proxies, File.sidecars} :
          Len(tables) \in Nat /\ DOMAIN tables = 1 .. Len(tables)
    BY <1>4, FilesAssumption DEF File
  <2>5. c.proxies \in Seq(Range(c.proxies)) /\ c.sidecars \in Seq(Range(c.sidecars))
    BY <2>4, ReadIsSeq DEF ConfigOf
  <2>6. IsInjective(NamesOf(c))
    BY <2>2 DEF validate, NamesAreDistinct
  <2> HIDE DEF c
  <2>7. Sound(c)
    BY <2>3, <2>5, <2>6 DEF Sound
  <2> QED
    BY <2>2, <2>7 DEF Loaded
<1> QED
  BY <1>1, <1>2, <1>3, <1>4

LEMMA NamesInOrder ==
  ASSUME NEW S, NEW s \in Seq(S), NEW X, \A i \in DOMAIN s : s[i].name \in X
  PROVE  /\ [i \in DOMAIN s |-> s[i].name] \in Seq(X)
         /\ Len([i \in DOMAIN s |-> s[i].name]) = Len(s)
<1> DEFINE n == Len(s)
           f == [i \in DOMAIN s |-> s[i].name]
<1>1. n \in Nat /\ DOMAIN s = 1 .. n
  OBVIOUS
<1>2. f \in [1 .. n -> X] /\ DOMAIN f = 1 .. n
  BY <1>1
<1> HIDE DEF n, f
<1>3. f \in Seq(X) /\ Len(f) = n
  BY <1>1, <1>2
<1> QED
  BY <1>3 DEF n, f

\* The names the sidecars and proxies of the router have, one for each: since
\* validate() has found all configured ones distinct, so are those in use.
LEMMA NamesAreApart ==
  ASSUME Sound(config)
  PROVE  /\ Len(Names) \in Nat /\ DOMAIN Names = 1 .. Len(Names)
         /\ TheProxy \in Nat /\ TheProxy >= 2 /\ (HasProxy => TheProxy <= Len(Names))
         /\ Names[1] = <<"native">>
         /\ \A b, f \in 2 .. Len(Names) : Names[b] = Names[f] => b = f
<1> DEFINE p == config.proxies
           s == config.sidecars
           P == Range(p)
           S == Range(s)
           ep == Enabled(p)
           es == Enabled(s)
           X == {t.name : t \in P \cup S} \cup {<<"native">>}
           Named_(q) == [i \in DOMAIN q |-> q[i].name]
<1>1. p \in Seq(P) /\ s \in Seq(S) /\ IsInjective(NamesOf(config))
  BY DEF Sound
<1>2. Picked(P, p, ep, Len(p)) /\ Picked(S, s, es, Len(s))
  BY <1>1, EnabledPicks
<1>3. ep \in Seq(P) /\ es \in Seq(S)
  BY <1>2 DEF Picked
<1>4. PICK mp \in [1 .. Len(ep) -> 1 .. Len(p)] :
         /\ \A i \in 1 .. Len(ep) : ep[i] = p[mp[i]]
         /\ \A i, j \in 1 .. Len(ep) : i < j => mp[i] < mp[j]
  BY <1>2 DEF Picked
<1>5. PICK ms \in [1 .. Len(es) -> 1 .. Len(s)] :
         /\ \A i \in 1 .. Len(es) : es[i] = s[ms[i]]
         /\ \A i, j \in 1 .. Len(es) : i < j => ms[i] < ms[j]
  BY <1>2 DEF Picked
<1>6. (\A t \in P \cup S : t.name \in X) /\ <<"native">> \in X
  OBVIOUS
<1>7. NamesOf(config) = Named_(p) \o Named_(s)
  BY DEF NamesOf
<1>8. Names = (<<<<"native">>>> \o Named_(es)) \o Named_(ep)
  BY DEF Names
<1>9. TheProxy = Len(es) + 2 /\ (HasProxy <=> ep # <<>>)
  BY DEF TheProxy, HasProxy
<1> HIDE DEF p, s, P, S, ep, es, X
<1> DEFINE np == Named_(p)
           ns == Named_(s)
           nep == Named_(ep)
           nes == Named_(es)
<1>10. /\ np \in Seq(X) /\ Len(np) = Len(p) /\ ns \in Seq(X) /\ Len(ns) = Len(s)
       /\ nep \in Seq(X) /\ Len(nep) = Len(ep) /\ nes \in Seq(X) /\ Len(nes) = Len(es)
  <2>1. \A i \in DOMAIN p : p[i].name \in X
    BY <1>1, <1>6
  <2>2. \A i \in DOMAIN s : s[i].name \in X
    BY <1>1, <1>6
  <2>3. \A i \in DOMAIN ep : ep[i].name \in X
    BY <1>3, <1>6
  <2>4. \A i \in DOMAIN es : es[i].name \in X
    BY <1>3, <1>6
  <2> QED
    BY <1>1, <1>3, <2>1, <2>2, <2>3, <2>4, NamesInOrder
<1>11. /\ Len(p) \in Nat /\ Len(s) \in Nat /\ Len(ep) \in Nat /\ Len(es) \in Nat
       /\ DOMAIN p = 1 .. Len(p) /\ DOMAIN s = 1 .. Len(s)
       /\ DOMAIN ep = 1 .. Len(ep) /\ DOMAIN es = 1 .. Len(es)
  BY <1>1, <1>3
<1>12. /\ \A i \in 1 .. Len(p) : np[i] = p[i].name
       /\ \A i \in 1 .. Len(s) : ns[i] = s[i].name
       /\ \A i \in 1 .. Len(ep) : nep[i] = p[mp[i]].name
       /\ \A i \in 1 .. Len(es) : nes[i] = s[ms[i]].name
  BY <1>4, <1>5, <1>11
<1> HIDE DEF np, ns, nep, nes, Named_
<1> DEFINE all == np \o ns
           head == <<<<"native">>>>
           used == (head \o nes) \o nep
<1>13. /\ Len(all) = Len(p) + Len(s) /\ DOMAIN all = 1 .. Len(all)
       /\ \A i \in 1 .. Len(p) : all[i] = np[i]
       /\ \A i \in 1 .. Len(s) : all[Len(p) + i] = ns[i]
  <2>1. OneAfterOther(X, np, ns, all)
    BY <1>10, Concat
  <2> HIDE DEF all
  <2> QED
    BY <1>10, <2>1 DEF OneAfterOther
<1>14. head \in Seq(X) /\ Len(head) = 1 /\ head[1] = <<"native">>
  BY <1>6
<1>15. /\ (head \o nes) \in Seq(X) /\ Len(head \o nes) = 1 + Len(es)
       /\ (head \o nes)[1] = <<"native">>
       /\ \A i \in 1 .. Len(es) : (head \o nes)[1 + i] = nes[i]
  <2> HIDE DEF head
  <2>1. OneAfterOther(X, head, nes, head \o nes)
    BY <1>10, <1>14, Concat
  <2> QED
    BY <1>10, <1>14, <2>1 DEF OneAfterOther
<1> DEFINE front == head \o nes
<1> HIDE DEF front
<1>16. /\ Len(used) = 1 + Len(es) + Len(ep) /\ DOMAIN used = 1 .. Len(used)
       /\ used[1] = <<"native">>
       /\ \A i \in 1 .. Len(es) : used[1 + i] = nes[i]
       /\ \A i \in 1 .. Len(ep) : used[1 + Len(es) + i] = nep[i]
  <2>1. used = front \o nep
    BY DEF front
  <2>2. /\ front \in Seq(X) /\ Len(front) = 1 + Len(es) /\ front[1] = <<"native">>
        /\ \A i \in 1 .. Len(es) : front[1 + i] = nes[i]
    BY <1>15 DEF front
  <2> HIDE DEF used
  <2>3. OneAfterOther(X, front, nep, used)
    BY <1>10, <2>1, <2>2, Concat
  <2>4. 1 \in 1 .. Len(front) /\ \A i \in 1 .. Len(es) : 1 + i \in 1 .. Len(front)
    BY <1>11, <2>2
  <2> QED
    BY <1>10, <1>11, <2>2, <2>3, <2>4 DEF OneAfterOther
<1>17. NamesOf(config) = all /\ Names = used
  BY <1>7, <1>8 DEF np, ns, nep, nes
<1> HIDE DEF all, used
<1> DEFINE q(b) == IF b <= 1 + Len(es) THEN Len(p) + ms[b - 1] ELSE mp[b - 1 - Len(es)]
<1>18. ASSUME NEW b \in 2 .. Len(used)
       PROVE  q(b) \in DOMAIN all /\ all[q(b)] = used[b]
  <2>1. CASE b <= 1 + Len(es)
    <3>1. b - 1 \in 1 .. Len(es) /\ 1 + (b - 1) = b
      BY <1>11, <1>16, <2>1
    <3>2. ms[b - 1] \in 1 .. Len(s) /\ used[b] = nes[b - 1]
      BY <3>1, <1>16
    <3>3. used[b] = ns[ms[b - 1]]
      BY <3>1, <3>2, <1>12
    <3> QED
      BY <2>1, <3>2, <3>3, <1>11, <1>13
  <2>2. CASE ~(b <= 1 + Len(es))
    <3>1. b - 1 - Len(es) \in 1 .. Len(ep) /\ 1 + Len(es) + (b - 1 - Len(es)) = b
      BY <1>11, <1>16, <2>2
    <3>2. mp[b - 1 - Len(es)] \in 1 .. Len(p) /\ used[b] = nep[b - 1 - Len(es)]
      BY <3>1, <1>16
    <3>3. used[b] = np[mp[b - 1 - Len(es)]]
      BY <3>1, <3>2, <1>12
    <3> QED
      BY <2>2, <3>2, <3>3, <1>11, <1>13
  <2> QED
    BY <2>1, <2>2
<1>19. ASSUME NEW b \in 2 .. Len(used), NEW f \in 2 .. Len(used), b < f PROVE q(b) # q(f)
  <2>1. CASE f <= 1 + Len(es)
    <3>1. b - 1 \in 1 .. Len(es) /\ f - 1 \in 1 .. Len(es) /\ b - 1 < f - 1
      BY <1>11, <1>16, <1>19, <2>1
    <3>2. ms[b - 1] \in 1 .. Len(s) /\ ms[f - 1] \in 1 .. Len(s)
      BY <3>1
    <3>3. ms[b - 1] < ms[f - 1]
      BY <3>1, <1>5
    <3> QED
      BY <2>1, <3>2, <3>3, <1>11, <1>19
  <2>2. CASE b <= 1 + Len(es) /\ ~(f <= 1 + Len(es))
    <3>1. b - 1 \in 1 .. Len(es) /\ f - 1 - Len(es) \in 1 .. Len(ep)
      BY <1>11, <1>16, <2>2
    <3>2. ms[b - 1] \in 1 .. Len(s) /\ mp[f - 1 - Len(es)] \in 1 .. Len(p)
      BY <3>1
    <3> QED
      BY <2>2, <3>2, <1>11
  <2>3. CASE ~(b <= 1 + Len(es)) /\ ~(f <= 1 + Len(es))
    <3>1. /\ b - 1 - Len(es) \in 1 .. Len(ep) /\ f - 1 - Len(es) \in 1 .. Len(ep)
          /\ b - 1 - Len(es) < f - 1 - Len(es)
      BY <1>11, <1>16, <1>19, <2>3
    <3>2. mp[b - 1 - Len(es)] \in 1 .. Len(p) /\ mp[f - 1 - Len(es)] \in 1 .. Len(p)
      BY <3>1
    <3>3. mp[b - 1 - Len(es)] < mp[f - 1 - Len(es)]
      BY <3>1, <1>4
    <3> QED
      BY <2>3, <3>2, <3>3, <1>11
  <2> QED
    BY <2>1, <2>2, <2>3, <1>11, <1>16, <1>19
<1> HIDE DEF q
<1>20. \A b, f \in 2 .. Len(used) : used[b] = used[f] => b = f
  <2>1. SUFFICES ASSUME NEW b \in 2 .. Len(used), NEW f \in 2 .. Len(used),
                        used[b] = used[f], b # f
                 PROVE  FALSE
    OBVIOUS
  <2>2. q(b) = q(f)
    BY <1>1, <1>17, <1>18, <2>1 DEF IsInjective
  <2>3. b < f \/ f < b
    BY <2>1, <1>11, <1>16
  <2> QED
    BY <2>2, <2>3, <1>19
<1>21. ep # <<>> => Len(ep) >= 1
  BY <1>3
<1> QED
  BY <1>9, <1>11, <1>16, <1>17, <1>20, <1>21

-----------------------------------------------------------------------------
(***************************************************************************)
(* Permits, sweeps and the backends that fail.                             *)
(***************************************************************************)
InCalls == {r \in Requests : pc[r] \in {"native", "proxy"}}

PermitsAddUp ==
  /\ permits \in Nat
  /\ permits + Cardinality(InCalls) \in {0, config.limits.max_concurrent_calls}

ProcessInv ==
  /\ Sound(config)
  /\ phase \in Phases /\ sweeping \in BOOLEAN /\ sweeps \in 0 .. MaxSweeps
  /\ phase = "start" => ~sweeping /\ failing = {}
  /\ phase \in {"start", "loaded"} => permits = 0
  /\ failing \subseteq 2 .. Len(Names)

LEMMA CallsAreCounted ==
  IsFiniteSet(InCalls) /\ Cardinality(InCalls) \in Nat
<1>1. InCalls \subseteq Requests
  BY DEF InCalls
<1>2. IsFiniteSet(InCalls)
  BY <1>1, RequestsAssumption, FS_Subset, Zenon
<1> QED
  BY <1>2, FS_CardinalityType, Zenon

LEMMA CountUp ==
  ASSUME NEW S, IsFiniteSet(S), NEW x, x \notin S
  PROVE  Cardinality(S \cup {x}) = Cardinality(S) + 1
BY FS_AddElement, Zenon

LEMMA CountDown ==
  ASSUME NEW S, IsFiniteSet(S), NEW x, x \in S
  PROVE  Cardinality(S) = Cardinality(S \ {x}) + 1 /\ Cardinality(S \ {x}) \in Nat
<1>1. IsFiniteSet(S \ {x}) /\ x \notin S \ {x} /\ (S \ {x}) \cup {x} = S
  <2>1. IsFiniteSet(S \ {x})
    BY FS_Difference, Zenon
  <2> QED
    BY <2>1
<1>2. Cardinality(S \ {x}) \in Nat
  BY <1>1, FS_CardinalityType, Zenon
<1>3. Cardinality((S \ {x}) \cup {x}) = Cardinality(S \ {x}) + 1
  BY <1>1, CountUp
<1> QED
  BY <1>1, <1>2, <1>3

\* A request's step changes the permits and the calls by opposite amounts.
LEMMA RequestsKeepPermits ==
  ASSUME CallInv, PermitsAddUp, NEW r \in Requests, Acts(r)
  PROVE  PermitsAddUp'
<1> USE DEF CallInv, PermitsAddUp
<1>0. config' = config
  BY ActsAside DEF process
<1>1. IsFiniteSet(InCalls) /\ Cardinality(InCalls) \in Nat
  BY CallsAreCounted
<1>2. CASE CallNative(r) \/ CallProxy(r)
  <2>1. /\ pc[r] = "permit" /\ permits > 0 /\ permits' = permits - 1
        /\ \E place \in {"native", "proxy"} : pc' = [pc EXCEPT ![r] = place]
    BY <1>2 DEF CallNative, CallProxy, Admitted, Take
  <2>2. InCalls' = InCalls \cup {r} /\ r \notin InCalls
    BY <2>1 DEF InCalls
  <2>3. Cardinality(InCalls') = Cardinality(InCalls) + 1
    BY <1>1, <2>2, CountUp
  <2> QED
    BY <1>0, <1>1, <2>1, <2>3
<1>3. CASE NativeReturns(r) \/ ProxyReturns(r) \/ (HangUp(r) /\ pc[r] \in {"native", "proxy"})
  <2>1. /\ pc[r] \in {"native", "proxy"} /\ permits' = permits + 1
        /\ \E place \in {"writing", "gone"} : pc' = [pc EXCEPT ![r] = place]
    BY <1>3 DEF NativeReturns, ProxyReturns, Return, Respond, HangUp, Held
  <2>2. InCalls' = InCalls \ {r} /\ r \in InCalls
    BY <2>1 DEF InCalls
  <2>3. Cardinality(InCalls) = Cardinality(InCalls') + 1 /\ Cardinality(InCalls') \in Nat
    BY <1>1, <2>2, CountDown
  <2> QED
    BY <1>0, <1>1, <2>1, <2>3
<1>4. CASE \/ Accept(r) \/ Started(r) \/ Report(r) \/ NotFound(r) \/ Deliver(r)
           \/ (HangUp(r) /\ pc[r] \notin {"native", "proxy"})
  <2>1. permits' = permits
    BY <1>4 DEF Accept, Started, AnswerAtOnce, BeginStatus, BeginCall, Arrives, Report, NotFound,
                Deliver, HangUp, Held
  <2>2. /\ pc[r] \notin {"native", "proxy"}
        /\ \E place \in {"reading", "writing", "over", "gone", "status", "permit"} :
             pc' = [pc EXCEPT ![r] = place]
    BY <1>4 DEF Accept, Started, AnswerAtOnce, BeginStatus, BeginCall, Arrives, Report, NotFound,
                Admitted, Deliver, HangUp, Respond
  <2>3. InCalls' = InCalls
    BY <2>2 DEF InCalls
  <2> QED
    BY <1>0, <2>1, <2>3
<1> QED
  BY <1>2, <1>3, <1>4 DEF Acts, Own

LEMMA RestKeepsPermits ==
  ASSUME TokenInv, ProcessInv, PermitsAddUp, UNCHANGED pc,
         \/ StartUp \/ EndSweep \/ Resweep \/ CutSweep \/ EndOfStdio \/ Interrupt \/ Shutdown
         \/ \E u \in Users : Served(u) \/ Proceed(u)
  PROVE  PermitsAddUp'
<1>0. InCalls' = InCalls
  BY DEF InCalls
<1>1. CASE Load \/ Build
  <2>1. InCalls = {}
    BY <1>1 DEF TokenInv, InCalls, Load, Build
  <2>2. permits = 0 /\ Cardinality(InCalls) = 0
    BY <1>1, <2>1, FS_EmptySet DEF ProcessInv, Load, Build
  <2>3. CASE Load
    <3>1. permits' = permits
      BY <2>3 DEF Load
    <3> QED
      BY <1>0, <2>2, <3>1 DEF PermitsAddUp
  <2>4. CASE Build
    <3>1. config' = config /\ (permits' = permits \/ permits' = config.limits.max_concurrent_calls)
      BY <2>4 DEF Build, GiveUp
    <3>2. config.limits.max_concurrent_calls \in Nat
      BY DEF ProcessInv, Sound
    <3> QED
      BY <1>0, <2>2, <3>1, <3>2 DEF PermitsAddUp
  <2> QED
    BY <1>1, <2>3, <2>4
<1>2. CASE \/ Check \/ RefuseToServe \/ StartTransport \/ EndSweep \/ Resweep \/ CutSweep
           \/ EndOfStdio \/ Interrupt \/ Shutdown \/ \E u \in Users : Served(u) \/ Proceed(u)
  <2>1. UNCHANGED <<config, permits>>
    BY <1>2 DEF Check, RefuseToServe, StartTransport, EndSweep, Resweep, CutSweep, EndOfStdio,
                Interrupt, Shutdown, Served, Proceed, Exchange, process
  <2> QED
    BY <1>0, <2>1 DEF PermitsAddUp
<1> QED
  BY <1>1, <1>2 DEF StartUp

LEMMA NamesStay == UNCHANGED config => UNCHANGED <<Names, TheProxy, HasProxy>>
BY DEF Names, TheProxy, HasProxy

LEMMA LoadKeepsProcess ==
  ASSUME CallInv, ProcessInv, Load
  PROVE  ProcessInv'
<1> DEFINE loaded == load_or_default(File, given.env)
<1>1. /\ UNCHANGED <<failing, sweeping, sweeps, permits>> /\ phase = "start"
      /\ phase' \in {"loaded", "exited"}
      /\ config' = config \/ (loaded.ok /\ config' = loaded.config)
  BY DEF Load, Exit, table
<1>2. Sound(config')
  BY <1>1, LoadedIsSound DEF CallInv, ProcessInv
<1>3. Sound(config)'
  BY <1>2 DEF Sound, NamesOf
<1> HIDE DEF loaded
<1>4. failing' = {}
  BY <1>1 DEF ProcessInv
<1> QED
  BY <1>1, <1>3, <1>4 DEF ProcessInv, Phases

LEMMA SweepsKeepProcess ==
  ASSUME StartInv, Attended, ProcessInv, Build \/ EndSweep \/ Resweep
  PROVE  ProcessInv'
<1> USE MaxSweepsAssumption
<1>0. config' = config
  BY DEF Build, EndSweep, Resweep, process
<1>1. Sound(config)' /\ Names' = Names
  BY <1>0, NamesStay DEF ProcessInv, Sound, NamesOf
<1>2. CASE Build
  <2>1. /\ phase' \in {"warming", "exited"} /\ failing' = failing /\ sweeps = 0
        /\ \/ sweeping' = TRUE /\ sweeps' = sweeps + 1
           \/ sweeping' = sweeping /\ sweeps' = sweeps
    BY <1>2 DEF Build, Sweep, GiveUp, Exit, StartInv, table
  <2>2. sweeps' \in 0 .. MaxSweeps
    BY <2>1
  <2> QED
    BY <1>1, <1>2, <2>1, <2>2 DEF ProcessInv, Phases
<1>3. CASE Resweep
  <2>1. /\ phase' \in {"serving", "stopping"} /\ failing' = failing /\ sweeping' = TRUE
        /\ sweeps' = sweeps + 1 /\ sweeps < MaxSweeps
    BY <1>3 DEF Resweep, Sweep, process, Attended, InHand, Handled
  <2>2. sweeps' \in 0 .. MaxSweeps
    BY <2>1 DEF ProcessInv
  <2> QED
    BY <1>1, <2>1, <2>2 DEF ProcessInv, Phases
<1>4. CASE EndSweep
  <2>1. PICK others \in SUBSET ((2 .. Len(Names)) \ {TheProxy}), own \in ProxyFails :
          failing' = others \cup own
    BY <1>4 DEF EndSweep
  <2>2. own \subseteq 2 .. Len(Names)
    <3>1. TheProxy \in Nat /\ TheProxy >= 2 /\ (HasProxy => TheProxy <= Len(Names))
          /\ Len(Names) \in Nat
      BY NamesAreApart DEF ProcessInv
    <3>2. own = {} \/ (HasProxy /\ own = {TheProxy})
      <4>1. CASE ~HasProxy
        BY <4>1 DEF ProxyFails
      <4>2. CASE HasProxy
        <5>1. CASE at[Sweeper] = "back" /\ got[Sweeper] = "ok"
          BY <4>2, <5>1 DEF ProxyFails
        <5>2. CASE ~(at[Sweeper] = "back" /\ got[Sweeper] = "ok")
          BY <4>2, <5>2 DEF ProxyFails
        <5> QED
          BY <4>2, <5>1, <5>2
      <4> QED
        BY <4>1, <4>2
    <3> QED
      BY <3>1, <3>2
  <2>3. failing' \subseteq 2 .. Len(Names)
    BY <2>1, <2>2
  <2>4. /\ sweeping' = FALSE /\ sweeps' = sweeps /\ permits' = permits
        /\ phase # "start" /\ (phase' = phase \/ phase' = "warm")
    BY <1>4 DEF EndSweep, ProcessInv
  <2> QED
    BY <1>1, <2>3, <2>4 DEF ProcessInv, Phases
<1> QED
  BY <1>2, <1>3, <1>4

LEMMA RestKeepsProcess ==
  ASSUME ProcessInv,
         \/ Check \/ RefuseToServe \/ StartTransport \/ CutSweep \/ EndOfStdio \/ Interrupt
         \/ Shutdown \/ (\E u \in Users : Served(u) \/ Proceed(u)) \/ UNCHANGED vars
  PROVE  ProcessInv'
<1>1. UNCHANGED <<config, failing, sweeping, sweeps, permits>>
  BY DEF Check, RefuseToServe, StartTransport, CutSweep, EndOfStdio, Interrupt, Shutdown,
         Served, Proceed, Exchange, process, table, vars
<1>2. phase' = phase \/ phase' \in {"exited", "stdio", "serving", "stopping"}
  BY DEF Check, RefuseToServe, StartTransport, CutSweep, EndOfStdio, Interrupt, Shutdown,
         Served, Proceed, Exchange, process, vars, Exit
<1>3. Sound(config)' /\ Names' = Names
  BY <1>1, NamesStay DEF ProcessInv, Sound, NamesOf
<1> QED
  BY <1>1, <1>2, <1>3 DEF ProcessInv, Phases

LEMMA ActsKeepProcess ==
  ASSUME Attended, ProcessInv, NEW r \in Requests, Acts(r)
  PROVE  ProcessInv'
<1>1. UNCHANGED <<config, phase, failing, sweeping, sweeps>> /\ phase \in {"serving", "stopping"}
  BY ActsAside DEF Attended, process, table
<1>2. Sound(config)' /\ Names' = Names
  BY <1>1, NamesStay DEF ProcessInv, Sound, NamesOf
<1> QED
  BY <1>1, <1>2 DEF ProcessInv

LEMMA ProcessKept == Spec => [](ProcessInv /\ PermitsAddUp)
<1>1. Init => ProcessInv /\ PermitsAddUp
  <2> SUFFICES ASSUME Init PROVE ProcessInv /\ PermitsAddUp
    OBVIOUS
  <2>1. InCalls = {} /\ Cardinality(InCalls) = 0
    BY FS_EmptySet DEF Init, InCalls
  <2>2. Sound(config)
    BY DefaultsAreSound DEF Init
  <2>3. PermitsAddUp
    BY <2>1 DEF Init, PermitsAddUp
  <2>4. failing \subseteq 2 .. Len(Names) /\ 0 \in 0 .. MaxSweeps
    BY MaxSweepsAssumption DEF Init
  <2>5. ProcessInv
    BY <2>2, <2>4 DEF Init, ProcessInv, Phases
  <2> QED
    BY <2>3, <2>5
<1>2. StartInv /\ CallInv /\ Attended /\ TokenInv /\ ProcessInv /\ PermitsAddUp /\ [Next]_vars
        => ProcessInv' /\ PermitsAddUp'
  <2> SUFFICES ASSUME StartInv, CallInv, Attended, TokenInv, ProcessInv, PermitsAddUp, [Next]_vars
               PROVE  ProcessInv' /\ PermitsAddUp'
    OBVIOUS
  <2>1. CASE \E r \in Requests : Acts(r)
    BY <2>1, RequestsKeepPermits, ActsKeepProcess
  <2>2. CASE \/ StartUp \/ EndSweep \/ Resweep \/ CutSweep \/ EndOfStdio \/ Interrupt \/ Shutdown
             \/ \E u \in Users : Served(u) \/ Proceed(u)
    <3>1. PermitsAddUp'
      BY <2>2, RestKeeps, RestKeepsPermits
    <3>2. ProcessInv'
      BY <2>2, LoadKeepsProcess, SweepsKeepProcess, RestKeepsProcess DEF StartUp
    <3> QED
      BY <3>1, <3>2
  <2>3. CASE UNCHANGED vars
    <3>1. UNCHANGED <<pc, config, permits>>
      BY <2>3 DEF vars, request, process
    <3>2. PermitsAddUp'
      BY <3>1 DEF PermitsAddUp, InCalls
    <3> QED
      BY <2>3, <3>2, RestKeepsProcess
  <2> QED
    BY <2>1, <2>2, <2>3 DEF Next, Acts
<1> QED
  BY StartKept, CallsKept, AttendedKept, TokenKept, <1>1, <1>2, PTL DEF Spec

\* The permits never run over or under the limit that was loaded, whoever hangs
\* up, and each variable keeps its type.
THEOREM GatewayIsTyped == Spec => []GTypeOK
<1>1. PInv /\ CallInv /\ ProcessInv /\ PermitsAddUp => GTypeOK
  <2> SUFFICES ASSUME PInv, CallInv, ProcessInv, PermitsAddUp
               PROVE  GTypeOK
    OBVIOUS
  <2>1. config.limits.max_concurrent_calls \in Nat /\ Cardinality(InCalls) \in Nat
    BY CallsAreCounted DEF ProcessInv, Sound
  <2>2. permits \in 0 .. config.limits.max_concurrent_calls
    <3>1. permits \in Nat
      BY DEF PermitsAddUp
    <3>2. \/ permits + Cardinality(InCalls) = 0
          \/ permits + Cardinality(InCalls) = config.limits.max_concurrent_calls
      BY DEF PermitsAddUp
    <3>3. ASSUME NEW p \in Nat, NEW n \in Nat, NEW m \in Nat, p + n = 0 \/ p + n = m
          PROVE  p \in 0 .. m
      BY <3>3
    <3> QED
      BY <2>1, <3>1, <3>2, <3>3, Zenon
  <2>3. failing \subseteq Nat
    BY DEF ProcessInv
  <2> QED
    BY <2>2, <2>3 DEF GTypeOK, CallInv, ProcessInv
<1> QED
  BY <1>1, ImplementsProxy, Invariance, CallsKept, ProcessKept, PTL

\* Because validate() lets no two backends have one name, a failure that
\* omni_status finds by name is that of the configured backend it shows, whatever
\* is configured, enabled and failing; the only other backend it can be shown for
\* is the native one, when the failing backend has taken its name.
THEOREM BlameIsFair == Spec => []BlameIsRight
<1>1. ProcessInv => BlameIsRight
  <2> SUFFICES ASSUME ProcessInv
               PROVE  BlameIsRight
    OBVIOUS
  <2>1. /\ Len(Names) \in Nat /\ DOMAIN Names = 1 .. Len(Names) /\ Names[1] = <<"native">>
        /\ \A b, f \in 2 .. Len(Names) : Names[b] = Names[f] => b = f
    BY NamesAreApart DEF ProcessInv
  <2>2. failing \subseteq 2 .. Len(Names)
    BY DEF ProcessInv
  <2>3. ASSUME NEW b \in Blamed \ failing
        PROVE  b = 1 /\ \E f \in failing : Names[f] = <<"native">>
    <3>1. PICK f \in failing : Names[f] = Names[b]
      BY DEF Blamed
    <3>2. b \notin 2 .. Len(Names)
      BY <2>1, <2>2, <3>1
    <3>3. b = 1
      BY <2>1, <3>2 DEF Blamed
    <3> QED
      BY <2>1, <3>1, <3>3
  <2>4. failing \subseteq Blamed
    BY <2>1, <2>2 DEF Blamed
  <2> QED
    BY <2>3, <2>4 DEF BlameIsRight
<1> QED
  BY <1>1, ProcessKept, PTL

\* The proxy that is used is one of those that were loaded.
LEMMA OwnTimeoutIsNatural ==
  ASSUME Sound(config), Timed(config), HasProxy
  PROVE  OwnTimeout \in Nat
<1> DEFINE p == config.proxies
           e == Enabled(p)
<1>1. Picked(Range(p), p, e, Len(p)) /\ p \in Seq(Range(p))
  BY EnabledPicks DEF Sound
<1>2. PICK m \in [1 .. Len(e) -> 1 .. Len(p)] : \A i \in 1 .. Len(e) : e[i] = p[m[i]]
  BY <1>1 DEF Picked
<1>3. e # <<>> /\ OwnTimeout = e[1].timeout /\ \A i \in DOMAIN p : p[i].timeout \in Nat
  BY DEF HasProxy, OwnTimeout, Timed
<1>4. e \in Seq(Range(p))
  BY <1>1 DEF Picked
<1> HIDE DEF e, p
<1>5. 1 \in 1 .. Len(e) /\ DOMAIN p = 1 .. Len(p)
  BY <1>1, <1>3, <1>4
<1> QED
  BY <1>2, <1>3, <1>5

\* A call's deadline is never shorter than asked unless the limit or the proxy's
\* own timeout is, and never beyond either, for any file, any arguments and any
\* moment of arrival.
THEOREM DeadlinesAreKept == Spec => []DeadlineIsKept
<1>1. ProcessInv /\ DeadlineInv => DeadlineIsKept
  <2> SUFFICES ASSUME ProcessInv, DeadlineInv,
                      NEW r \in Requests, pc[r] \in {"native", "proxy"}
               PROVE  LET ms    == passed[r].ms
                          limit == Max({1000, config.limits.max_tool_timeout})
                          own   == IF pc[r] = "proxy" THEN OwnTimeout ELSE limit
                      IN  /\ ms <= limit /\ ms <= own
                          /\ ms >= 1000 \/ ms = own
                          /\ ms >= Asked(msg[r]) \/ ms + 1000 > limit \/ ms = own
                          /\ ms < Asked(msg[r]) + 1000 \/ ms = 1000
    BY DEF DeadlineIsKept
  <2> DEFINE top == config.limits.max_tool_timeout
             limit == Max({1000, top})
             asked == Asked(msg[r])
             d == deadline(msg[r].arguments, config.limits) * 1000
  <2>1. Numbered(msg[r].arguments) /\ Timed(config) /\ Usable(config.limits)
    BY DEF DeadlineInv, Handled, Timed
  <2>2. top \in Nat /\ limit = IF 1000 >= top THEN 1000 ELSE top
    BY <2>1, MaxOfTwo DEF Usable
  <2>3. /\ asked \in Nat /\ d \in Nat /\ d <= limit /\ d >= 1000
        /\ d >= asked \/ d + 1000 > limit
        /\ d < asked + 1000 \/ d = 1000
    <3>1. PICK seconds \in Nat :
            /\ asked \in Nat /\ asked <= seconds * 1000 /\ seconds * 1000 < asked + 1000
            /\ deadline(msg[r].arguments, config.limits) =
                 LET most == top \div 1000
                 IN  Between(1, seconds, IF most < 1 THEN 1 ELSE most)
      BY <2>1, SecondsAsked
    <3> DEFINE most == top \div 1000
    <3>2. d = Between(1, seconds, IF most < 1 THEN 1 ELSE most) * 1000
      BY <3>1
    <3>3. most \in Nat /\ most * 1000 <= top /\ top < most * 1000 + 1000
      BY <2>2
    <3> HIDE DEF top, asked, limit, d, most
    <3> QED
      BY <2>2, <3>1, <3>2, <3>3 DEF Between
  <2>4. CASE pc[r] = "native"
    <3>1. passed[r].ms = d
      BY <2>4 DEF DeadlineInv, Passed
    <3> HIDE DEF limit, asked, d
    <3> QED
      BY <2>2, <2>3, <2>4, <3>1 DEF limit, asked
  <2>5. CASE pc[r] = "proxy"
    <3>1. OwnTimeout \in Nat
      BY <2>1, <2>5, OwnTimeoutIsNatural DEF ProcessInv, DeadlineInv
    <3>2. passed[r].ms = IF OwnTimeout < d THEN OwnTimeout ELSE d
      BY <2>5 DEF DeadlineInv, Passed
    <3> HIDE DEF limit, asked, d
    <3> QED
      BY <2>2, <2>3, <2>5, <3>1, <3>2 DEF limit, asked
  <2> QED
    BY <2>4, <2>5
<1> QED
  BY ProcessKept, DeadlinesKept, <1>1, PTL

-----------------------------------------------------------------------------
(***************************************************************************)
(* The file.  What the process runs with is what the file says, by the     *)
(* scanner of placeholders and the exact durations.                        *)
(***************************************************************************)
\* A duration that parses does not wrap.
LEMMA ParsesExactly ==
  ASSUME NEW d, Parses(d)
  PROVE  parse(d) = d.number * Factor[d.unit]
<1>1. d.number \in Nat /\ d.unit \in DOMAIN Factor /\ d.number <= MaxU64 \div Factor[d.unit]
  BY MaxU64Assumption DEF Parses, IsU64
<1>2. Factor[d.unit] \in {1, 1000, 60000, 3600000}
  BY <1>1 DEF Factor
<1> DEFINE n == d.number
           f == Factor[d.unit]
<1>3. n \in Nat /\ f \in {1, 1000, 60000, 3600000} /\ n <= MaxU64 \div f
  BY <1>1, <1>2
<1>4. parse(d) = (n * f) % (MaxU64 + 1)
  BY DEF parse
<1> HIDE DEF n, f
<1>5. n * f \in Nat /\ n * f <= MaxU64
  <2>1. CASE f = 1
    BY <1>3, <2>1, MaxU64Assumption
  <2>2. CASE f = 1000
    BY <1>3, <2>2, MaxU64Assumption
  <2>3. CASE f = 60000
    BY <1>3, <2>3, MaxU64Assumption
  <2>4. CASE f = 3600000
    BY <1>3, <2>4, MaxU64Assumption
  <2> QED
    BY <1>3, <2>1, <2>2, <2>3, <2>4
<1>6. (n * f) % (MaxU64 + 1) = n * f
  <2> DEFINE m == n * f
  <2>1. m \in Nat /\ m < MaxU64 + 1 /\ MaxU64 + 1 \in Nat \ {0}
    BY <1>5, MaxU64Assumption
  <2> HIDE DEF m
  <2>2. m % (MaxU64 + 1) = m
    BY <2>1
  <2> QED
    BY <2>2 DEF m
<1> QED
  BY <1>4, <1>6 DEF n, f

LEMMA TokenIsRead ==
  ASSUME NEW keys, NEW env, NEW pieces, Clear(pieces), ~Unresolved(keys, env),
         IF "auth_token" \in DOMAIN keys
           THEN keys["auth_token"] = WrittenText(pieces) ELSE pieces = <<>>
  PROVE  /\ \A i \in DOMAIN pieces : ~Undefined(pieces[i], env)
         /\ Deserialized(ExpandTable(keys, env), ServerConfig).auth_token = MeantText(pieces, env)
<1> DEFINE k == "auth_token"
           found == ExpandTable(keys, env)
           read == Deserialized(found, ServerConfig)
<1>1. k \in TextKeys /\ k \notin DurationKeys
  BY DEF TextKeys, DurationKeys
<1>2. DOMAIN found = DOMAIN keys
  BY DEF ExpandTable
<1>3. k \in DOMAIN ServerConfig.default /\ ServerConfig.default[k] = <<>>
  BY DEF ServerConfig, Absent
<1>4. CASE k \in DOMAIN keys
  <2>1. expand(keys[k], env).ok
    BY <1>1, <1>4 DEF Unresolved, TextsIn
  <2>2. keys[k] = WrittenText(pieces)
    BY <1>4
  <2>3. /\ \A i \in DOMAIN pieces : ~Undefined(pieces[i], env)
        /\ expand(keys[k], env) = Expanded(MeantText(pieces, env))
    BY <2>1, <2>2, ExpandsAsMeant
  <2>4. found[k] = MeantText(pieces, env)
    BY <1>1, <1>4, <2>3 DEF ExpandTable, TextsIn, Expanded
  <2>5. read[k] = found[k]
    BY <1>1, <1>2, <1>4 DEF Deserialized, DurationsIn
  <2> QED
    BY <2>3, <2>4, <2>5
<1>5. CASE k \notin DOMAIN keys
  <2>1. pieces = <<>> /\ DOMAIN pieces = {} /\ Len(pieces) = 0
    BY <1>5
  <2>2. MeantText(pieces, env) = <<>>
    BY <2>1, NothingIsMeant
  <2>3. read[k] = <<>>
    BY <1>2, <1>3, <1>5 DEF Deserialized, DurationsIn
  <2> QED
    BY <2>1, <2>2, <2>3
<1> QED
  BY <1>4, <1>5

LEMMA DurationIsRead ==
  ASSUME NEW file, NEW env, Fits(file.limits, Limits), NEW k \in DurationsIn(file.limits)
  PROVE  ConfigOf(file, env).limits[k] = file.limits[k].number * Factor[file.limits[k].unit]
<1> DEFINE found == ExpandTable(file.limits, env)
<1>1. k \in DOMAIN file.limits /\ k \in DurationKeys /\ k \notin TextKeys
  BY DEF DurationsIn, DurationKeys, TextKeys
<1>2. DOMAIN found = DOMAIN file.limits /\ found[k] = file.limits[k]
  BY <1>1 DEF ExpandTable, TextsIn
<1>3. Parses(file.limits[k])
  BY DEF Fits
<1>4. Deserialized(found, Limits)[k] = parse(found[k])
  BY <1>1, <1>2 DEF Deserialized, DurationsIn
<1> QED
  BY <1>2, <1>3, <1>4, ParsesExactly DEF ConfigOf

\* What is loaded, as the file has it.
AsWritten(c) ==
  /\ c.server.auth_token = MeantText(Pieces, given.env)
  /\ File.kind = "toml" =>
       /\ \A i \in DOMAIN Pieces : ~Undefined(Pieces[i], given.env)
       /\ \A k \in DurationsIn(File.limits) :
            c.limits[k] = File.limits[k].number * Factor[File.limits[k].unit]

LEMMA LoadedIsAsWritten ==
  ASSUME given \in Worlds, load_or_default(File, given.env).ok
  PROVE  AsWritten(load_or_default(File, given.env).config)
<1>1. File.kind \in {"absent", "unreadable", "notToml", "toml"}
  BY FilesAssumption DEF File
<1>2. /\ Clear(Pieces)
      /\ IF File.kind = "toml" /\ "auth_token" \in DOMAIN File.server
           THEN File.server.auth_token = WrittenText(Pieces)
           ELSE Pieces = <<>>
  BY PiecesAssumption DEF Pieces, File
<1>3. CASE File.kind = "absent"
  <2>1. load_or_default(File, given.env).config = Defaults
    BY <1>3 DEF load_or_default, Loaded
  <2>2. Pieces = <<>> /\ Len(Pieces) = 0
    BY <1>2, <1>3
  <2>3. MeantText(Pieces, given.env) = <<>>
    BY <2>2, NothingIsMeant
  <2> QED
    BY <1>3, <2>1, <2>3 DEF AsWritten, Defaults, ServerConfig, Absent
<1>4. CASE File.kind \in {"unreadable", "notToml"}
  BY <1>4 DEF load_or_default, Refused
<1>5. CASE File.kind = "toml"
  <2>1. /\ {1, 2} \subseteq DOMAIN Tables(File)
        /\ Tables(File)[1] = [table |-> File.server, type |-> ServerConfig]
        /\ Tables(File)[2] = [table |-> File.limits, type |-> Limits]
    BY <1>5, FirstTables, FilesAssumption DEF File
  <2>2. /\ load_or_default(File, given.env) = Loaded(ConfigOf(File, given.env))
        /\ \A i \in DOMAIN Tables(File) :
             /\ ~Unresolved(Tables(File)[i].table, given.env)
             /\ Fits(Tables(File)[i].table, Tables(File)[i].type)
    BY <1>5 DEF load_or_default, Refused
  <2>3. ~Unresolved(File.server, given.env) /\ Fits(File.limits, Limits)
    BY <2>1, <2>2
  <2>4. /\ \A i \in DOMAIN Pieces : ~Undefined(Pieces[i], given.env)
        /\ ConfigOf(File, given.env).server.auth_token = MeantText(Pieces, given.env)
    BY <1>2, <1>5, <2>3, TokenIsRead DEF ConfigOf
  <2>5. \A k \in DurationsIn(File.limits) :
          ConfigOf(File, given.env).limits[k] = File.limits[k].number * Factor[File.limits[k].unit]
    BY <2>3, DurationIsRead
  <2> QED
    BY <2>2, <2>4, <2>5 DEF AsWritten, Loaded
<1> QED
  BY <1>1, <1>3, <1>4, <1>5

LoadErrors == {"Read", "Parse", "MissingEnv", "Invalid"}

\* A configuration that does not load, or whose router cannot be built, ends the
\* process before any request; any other that is in force is as written.
LoadInv ==
  /\ given \in Worlds
  /\ exit \in LoadErrors =>
       phase = "exited" /\ \A r \in Requests : pc[r] = "idle"
  /\ phase # "start" /\ exit \notin LoadErrors => AsWritten(config)

LEMMA AsWrittenStays == UNCHANGED <<given, config>> => AsWritten(config)' = AsWritten(config)
BY DEF AsWritten, Pieces, File

LEMMA LoadInvInit == Init => LoadInv
BY DEF Init, LoadInv, LoadErrors

LEMMA StartUpKeepsLoad ==
  ASSUME LoadInv, TokenInv, Load \/ Check \/ Build
  PROVE  LoadInv'
<1>1. phase # "exited" /\ \A r \in Requests : pc[r] = "idle"
  BY DEF Load, Check, Build, TokenInv
<1>2. UNCHANGED <<given, pc>> /\ exit \notin LoadErrors
  BY <1>1 DEF Load, Check, Build, LoadInv, request
<1>3. CASE Load
  <2> DEFINE loaded == load_or_default(File, given.env)
  <2>1. CASE loaded.ok
    <3>1. phase' = "loaded" /\ config' = loaded.config /\ exit' = exit
      BY <1>3, <2>1 DEF Load
    <3>2. AsWritten(loaded.config)
      BY <2>1, LoadedIsAsWritten DEF LoadInv
    <3>3. AsWritten(config)'
      BY <1>2, <3>1, <3>2 DEF AsWritten, Pieces, File
    <3> QED
      BY <1>2, <3>1, <3>3 DEF LoadInv
  <2>2. CASE ~loaded.ok
    <3>1. phase' = "exited" /\ exit' = loaded.error
      BY <1>3, <2>2 DEF Load, Exit
    <3>2. File.kind \in {"absent", "unreadable", "notToml", "toml"}
      BY FilesAssumption DEF File, LoadInv
    <3>3. loaded.error \in LoadErrors
      BY <2>2, <3>2 DEF load_or_default, Refused, Loaded, LoadErrors
    <3> QED
      BY <1>1, <1>2, <3>1, <3>3 DEF LoadInv
  <2> QED
    BY <2>1, <2>2
<1>4. CASE Check \/ Build
  <2>1. UNCHANGED config /\ phase = "loaded" /\ phase' # "start"
        /\ (exit' = exit \/ phase' = "exited")
    BY <1>4 DEF Check, Build, GiveUp, Exit
  <2>2. AsWritten(config)'
    BY <1>2, <2>1, AsWrittenStays DEF LoadInv
  <2> QED
    BY <1>1, <1>2, <2>1, <2>2 DEF LoadInv
<1> QED
  BY <1>3, <1>4

LEMMA RestKeepsLoad ==
  ASSUME LoadInv, RefuseToServe \/ StartTransport \/ EndSweep \/ Resweep \/ CutSweep \/ EndOfStdio
                    \/ Interrupt \/ Shutdown \/ (\E u \in Users : Served(u) \/ Proceed(u))
                    \/ UNCHANGED vars
  PROVE  LoadInv'
<1>1. UNCHANGED <<given, config, pc>>
  BY DEF RefuseToServe, StartTransport, EndSweep, Resweep, CutSweep, EndOfStdio, Interrupt, Shutdown,
         vars, Served, Proceed, Exchange, process, request
<1>2. /\ phase = "start" => phase' = "start"
      /\ \/ exit' = exit /\ (phase = "exited" => phase' = "exited")
         \/ phase # "exited" /\ exit' \in {"success", "UnauthenticatedHttp", "Bind", "Io"}
  BY DEF RefuseToServe, StartTransport, EndSweep, Resweep, CutSweep, EndOfStdio, Interrupt, Shutdown,
         vars, Served, Proceed, Exchange, process, Exit
<1>3. phase # "start" /\ exit \notin LoadErrors => AsWritten(config)'
  BY <1>1, AsWrittenStays DEF LoadInv
<1>4. exit \in LoadErrors => phase = "exited"
  BY DEF LoadInv
<1>5. CASE exit' = exit /\ (phase = "exited" => phase' = "exited")
  BY <1>1, <1>2, <1>3, <1>5 DEF LoadInv
<1>6. CASE phase # "exited" /\ exit' \in {"success", "UnauthenticatedHttp", "Bind", "Io"}
  BY <1>1, <1>2, <1>3, <1>4, <1>6 DEF LoadInv, LoadErrors
<1> QED
  BY <1>2, <1>5, <1>6

LEMMA RequestsKeepLoad ==
  ASSUME LoadInv, NEW r \in Requests, Acts(r)
  PROVE  LoadInv'
<1>1. UNCHANGED <<given, process>>
  BY ActsAside
<1>2. phase = "serving" \/ pc[r] \in InHand
  BY ActsAside
<1>3. exit \notin LoadErrors
  BY <1>2 DEF LoadInv, InHand, Handled
<1>4. AsWritten(config)' = AsWritten(config)
  BY <1>1, AsWrittenStays DEF process
<1> QED
  BY <1>1, <1>3, <1>4 DEF LoadInv, process

LEMMA LoadKept == Spec => []LoadInv
<1>1. LoadInv /\ TokenInv /\ [Next]_vars => LoadInv'
  BY StartUpKeepsLoad, RestKeepsLoad, RequestsKeepLoad DEF Next, StartUp, Acts
<1> QED
  BY LoadInvInit, TokenKept, <1>1, PTL DEF Spec

\* The configuration that is in force is what the file says: every placeholder
\* is resolved as it was meant, and every duration has its exact length.
THEOREM ConfigIsAsWritten == Spec => []LoadedAsWritten
<1>1. LoadInv => LoadedAsWritten
  BY DEF LoadInv, LoadErrors, AsWritten, LoadedAsWritten
<1> QED
  BY LoadKept, <1>1, PTL

\* No request is handled without the token that whoever wrote the file meant, and
\* none at all if none was meant and the operator has not waived it.
THEOREM TokenIsAsked == Spec => []HandledIsAuthorised
<1>1. LoadInv /\ TokenInv => HandledIsAuthorised
  <2> SUFFICES ASSUME LoadInv, TokenInv, NEW r \in Requests, LetIn(r)
               PROVE  IF MeantToken = Absent THEN given.cli.allow
                      ELSE msg[r].bearer /\ trim(msg[r].auth) = MeantToken
    BY DEF HandledIsAuthorised
  <2>1. pc[r] # "idle"
    BY DEF LetIn, Handled, Answered
  <2>2. phase # "start" /\ exit \notin LoadErrors
    BY <2>1 DEF TokenInv, LoadInv
  <2>3. Token = MeantToken
    BY <2>2 DEF LoadInv, AsWritten, Token, auth_token, MeantToken
  <2>4. trim(<<>>) = <<>>
    BY DEF trim
  <2>5. MayServe /\ authorize(msg[r])
    BY DEF TokenInv, Admits
  <2> QED
    BY <2>3, <2>4, <2>5 DEF MayServe, authorize, Absent
<1> QED
  BY LoadKept, TokenKept, <1>1, PTL
=============================================================================
