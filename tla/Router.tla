------------------------------- MODULE Router -------------------------------
(***************************************************************************)
(* The router (src/router/mod.rs): requests that share a routing table,    *)
(* the lock that serialises the sweeps which rebuild it, and the permits   *)
(* that bound the calls.  What a backend answers is left open: a listing   *)
(* it may give, or a failure.  discover() waits for every backend, so the  *)
(* order in which they answer is not visible.                              *)
(***************************************************************************)
EXTENDS Routes

CONSTANTS Requests,     \* the requests clients make
          NoRequest,    \* stands for "no request"
          Asks,         \* what a request may ask: [kind, name]
          Answers,      \* what each backend may answer to tools/list
          Sidecars,     \* the backends that are sidecars
          MaxCalls,     \* limits.max_concurrent_calls
          MaxExpiries   \* bound: how often the table may pass its TTL

Native == 1
Kinds  == {"list", "call", "status"}

ASSUME NoRequestAssumption == NoRequest \notin Requests
ASSUME RequestsAssumption == IsFiniteSet(Requests)
\* Config::validate refuses zero.
ASSUME MaxCallsAssumption == MaxCalls \in Nat \ {0}
ASSUME MaxExpiriesAssumption == MaxExpiries \in Nat
ASSUME AsksAssumption == \A a \in Asks : a.kind \in Kinds
\* Router::build makes the native backend first, and it lists the same tools
\* every time.
ASSUME NativeAssumption ==
  /\ Native \in Backends
  /\ \A l \in Answers[Native] : Answers[Native] = {l} /\ l # Failed
\* A listing is a Vec of tools.
ASSUME AnswersAssumption ==
  \A b \in Backends : \A l \in Answers[b] : l = Failed \/ IsListing(l)

VARIABLES
  pc,           \* where each request is
  ask,          \* what each request asks
  retried,      \* the request has refreshed the table for its unknown tool
  routed,       \* where a call went: the backend, whether the timeout was
                \* stripped, and whether the backend listed the name it got
  table,        \* Router.routes: {} before the first sweep, then {the table}
  results,      \* the answers the table was built from
  expired,      \* the table's TTL has passed since it was built
  sweeper,      \* the holder of discovery_lock
  discoveries,  \* Router.discoveries
  permits,      \* what is left of call_permits
  expiries, forced, abandoned,  \* counters: TTLs passed, refreshes, sweeps cut off
  startedFor    \* the kinds of request that made a sweep contact a sidecar

vars == <<pc, ask, retried, routed, table, results, expired, sweeper, discoveries,
          permits, expiries, forced, abandoned, startedFor>>

Sweeping == {"sweep", "resweep"}
Working  == {"fresh", "lock", "lookup", "calling", "relock"} \cup Sweeping
PC       == {"idle", "permit", "over"} \cup Working

TypeOK ==
  /\ pc \in [Requests -> PC]
  /\ ask \in [Requests -> Asks]
  /\ retried \in [Requests -> BOOLEAN]
  /\ expired \in BOOLEAN
  /\ sweeper \in Requests \cup {NoRequest}
  /\ discoveries \in Nat
  /\ permits \in 0 .. MaxCalls
  /\ expiries \in 0 .. MaxExpiries /\ forced \in Nat /\ abandoned \in Nat
  /\ startedFor \subseteq Kinds

Nowhere == [backend |-> 0, strip |-> FALSE, known |-> TRUE]

Init ==
  /\ pc = [r \in Requests |-> "idle"]
  /\ ask \in [Requests -> Asks]
  /\ retried = [r \in Requests |-> FALSE]
  /\ routed = [r \in Requests |-> Nowhere]
  /\ table = {} /\ results = {}
  /\ expired = FALSE
  /\ sweeper = NoRequest
  /\ discoveries = 0
  /\ permits = MaxCalls
  /\ expiries = 0 /\ forced = 0 /\ abandoned = 0
  /\ startedFor = {}

-----------------------------------------------------------------------------
Goto(r, label) == pc' = [pc EXCEPT ![r] = label]
Kind(r) == ask[r].kind

routes   == <<table, results>>
counters == <<expiries, forced, abandoned>>

\* A call asks for a permit; a listing and omni_status need none.
Mutant_AllTakePermits == {"list", "call", "status"}
Permitted == {"call"}

Arrive(r) ==
  /\ pc[r] = "idle"
  /\ Goto(r, IF Kind(r) \in Permitted THEN "permit" ELSE "fresh")
  /\ UNCHANGED <<ask, retried, routed, routes, expired, sweeper, discoveries,
                 permits, counters, startedFor>>

TakePermit(r) ==
  /\ pc[r] = "permit"
  /\ permits > 0
  /\ permits' = permits - 1
  /\ Goto(r, "fresh")
  /\ UNCHANGED <<ask, retried, routed, routes, expired, sweeper, discoveries,
                 counters, startedFor>>

\* There is no table or it is past its TTL.
Mutant_PresentOnly == table # {} /\ expired
is_stale == table = {} \/ expired

\* ensure_fresh(), before the lock.
CheckFresh(r) ==
  /\ pc[r] = "fresh"
  /\ Goto(r, IF is_stale THEN "lock" ELSE "lookup")
  /\ UNCHANGED <<ask, retried, routed, routes, expired, sweeper, discoveries,
                 permits, counters, startedFor>>

\* discovery_lock can be taken.
Mutant_NoDiscoveryLock == TRUE
LockFree == sweeper = NoRequest

\* ensure_fresh() has the lock and looks again: another request has swept ...
Mutant_NoRecheck == FALSE
SweptMeanwhile == ~is_stale

UseOthers(r) ==
  /\ pc[r] = "lock"
  /\ LockFree
  /\ SweptMeanwhile
  /\ Goto(r, "lookup")
  /\ UNCHANGED <<ask, retried, routed, routes, expired, sweeper, discoveries,
                 permits, counters, startedFor>>

\* A sweep contacts every backend, and that starts the sidecars.
BeginSweep(r) ==
  /\ LockFree
  /\ sweeper' = r
  /\ discoveries' = discoveries + 1
  /\ startedFor' = startedFor \cup IF Sidecars = {} THEN {} ELSE {Kind(r)}
  /\ UNCHANGED <<ask, retried, routed, routes, expired, permits, expiries, abandoned>>

\* ... or nobody has.
Sweep(r) ==
  /\ pc[r] = "lock"
  /\ ~SweptMeanwhile
  /\ BeginSweep(r)
  /\ Goto(r, "sweep")
  /\ UNCHANGED forced

\* refresh() sweeps without looking.
Refresh(r) ==
  /\ pc[r] = "relock"
  /\ BeginSweep(r)
  /\ Goto(r, "resweep")
  /\ forced' = forced + 1

\* Every backend has answered or run into discovery_timeout: the new table
\* replaces the old one.
Possible == {f \in [Backends -> UNION {Answers[b] : b \in Backends}] :
               \A b \in Backends : f[b] \in Answers[b]}

Replace ==
  /\ \E found \in Possible : results' = {found} /\ table' = {Assemble(found)}
  /\ expired' = FALSE

Write(r) ==
  /\ pc[r] \in Sweeping
  /\ Replace
  /\ sweeper' = NoRequest
  /\ Goto(r, IF pc[r] = "sweep" THEN "lookup" ELSE "fresh")
  /\ UNCHANGED <<ask, retried, routed, discoveries, permits, counters, startedFor>>

\* main() awaits warm_up() before it serves; the crate's tests do without.
WarmUp ==
  /\ discoveries = 0
  /\ \A r \in Requests : pc[r] = "idle"
  /\ discoveries' = discoveries + 1
  /\ Replace
  /\ UNCHANGED <<pc, ask, retried, routed, sweeper, permits, counters, startedFor>>

\* list_tools() and status_report() read the table.
ReadTable(r) ==
  /\ pc[r] = "lookup"
  /\ Kind(r) \in {"list", "status"}
  /\ Goto(r, "over")
  /\ UNCHANGED <<ask, retried, routed, routes, expired, sweeper, discoveries,
                 permits, counters, startedFor>>

Owned(name) == {t \in table : name \in DOMAIN t.owners}

\* invoke() has found the owner.
Mutant_Unprefixed(b, name) == name
LocalName(b, name) == strip_prefix(Prefix[b], name)

Dispatch(r) ==
  /\ pc[r] = "lookup"
  /\ Kind(r) = "call"
  /\ \E t \in Owned(ask[r].name), found \in results :
       LET b == t.owners[ask[r].name] IN
       routed' = [routed EXCEPT ![r] =
         [backend |-> b, strip |-> ask[r].name \in t.augmented,
          known |-> \E i \in DOMAIN found[b] :
                      found[b][i].name = LocalName(b, ask[r].name)]]
  /\ Goto(r, "calling")
  /\ UNCHANGED <<ask, retried, routes, expired, sweeper, discoveries, permits,
                 counters, startedFor>>

\* Nobody owns the tool: it may have appeared since the last sweep.
Retry(r) ==
  /\ pc[r] = "lookup"
  /\ Kind(r) = "call"
  /\ Owned(ask[r].name) = {}
  /\ ~retried[r]
  /\ retried' = [retried EXCEPT ![r] = TRUE]
  /\ Goto(r, "relock")
  /\ UNCHANGED <<ask, routed, routes, expired, sweeper, discoveries, permits,
                 counters, startedFor>>

\* The end of invoke() drops the permit, if the request has one.
HasPermit(r) == Kind(r) \in Permitted /\ pc[r] \in Working
Mutant_KeepPermit(r) == 0
Returned(r) == IF HasPermit(r) THEN 1 ELSE 0

NotFound(r) ==
  /\ pc[r] = "lookup"
  /\ Kind(r) = "call"
  /\ Owned(ask[r].name) = {}
  /\ retried[r]
  /\ permits' = permits + Returned(r)
  /\ Goto(r, "over")
  /\ UNCHANGED <<ask, retried, routed, routes, expired, sweeper, discoveries,
                 counters, startedFor>>

\* The backend's call has ended, by its answer, an error or its deadline.
Return(r) ==
  /\ pc[r] = "calling"
  /\ permits' = permits + Returned(r)
  /\ routed' = [routed EXCEPT ![r] = Nowhere]
  /\ Goto(r, "over")
  /\ UNCHANGED <<ask, retried, routes, expired, sweeper, discoveries,
                 counters, startedFor>>

\* The HTTP client has hung up and the handler is dropped, with its permit,
\* its lock and its sweep.
Cancel(r) ==
  /\ pc[r] \notin {"idle", "over"}
  /\ permits' = permits + Returned(r)
  /\ sweeper' = IF sweeper = r THEN NoRequest ELSE sweeper
  /\ abandoned' = IF sweeper = r THEN abandoned + 1 ELSE abandoned
  /\ routed' = [routed EXCEPT ![r] = Nowhere]
  /\ Goto(r, "over")
  /\ UNCHANGED <<ask, retried, routes, expired, discoveries, expiries, forced,
                 startedFor>>

\* discovery_ttl has passed since the table was built.
Expire ==
  /\ ~is_stale
  /\ expiries < MaxExpiries
  /\ expired' = TRUE
  /\ expiries' = expiries + 1
  /\ UNCHANGED <<pc, ask, retried, routed, routes, sweeper, discoveries, permits,
                 forced, abandoned, startedFor>>

\* What the gateway does by itself; discovery_timeout bounds a sweep.
Step(r) == \/ TakePermit(r) \/ CheckFresh(r) \/ UseOthers(r) \/ Sweep(r)
           \/ Refresh(r) \/ Write(r) \/ ReadTable(r) \/ Dispatch(r) \/ Retry(r)
           \/ NotFound(r)

Next == \/ \E r \in Requests : Arrive(r) \/ Step(r) \/ Return(r) \/ Cancel(r)
        \/ WarmUp \/ Expire

Spec == Init /\ [][Next]_vars

\* Tokio's locks and semaphores are fair.  A call need not end.
FairSpec == Spec /\ \A r \in Requests : WF_vars(Step(r))

-----------------------------------------------------------------------------
(* Properties.                                                             *)

\* Requests that find the table stale together cause one sweep: there is one
\* for each passing of the TTL, one to begin with, and those that refresh() or
\* a hang-up accounts for (ensure_fresh and the tests on coalescing).
Coalesced == discoveries <= 1 + expiries + forced + abandoned

\* The table is the one its answers define: the first backend that lists a
\* name owns it, whoever else lists it, and failures hide nobody else's tools.
TableIsRight ==
  /\ table = {} <=> results = {}
  /\ \A t \in table, found \in results : IsTableOf(t, found)

\* A native tool is never served by another backend (Router::build).
NativeWins ==
  \A r \in Requests :
    /\ pc[r] = "calling"
    /\ \E l \in Answers[Native] : \E i \in DOMAIN l :
         Advertised(Native, l[i]) = ask[r].name
    => routed[r].backend = Native

\* As many calls run as permits are out, whoever is cancelled and wherever.
Running == {r \in Requests : HasPermit(r)}
CallsAreBounded == permits + Cardinality(Running) = MaxCalls

\* The table that list_tools() and omni_status read is there: an empty list
\* never stands for "not yet discovered".
ReadersFindTable == \A r \in Requests : pc[r] = "lookup" => table # {}

\* Listings and omni_status are answered even if every permit is held by a
\* call that never ends.
ReadersAreServed ==
  \A r \in Requests :
    Kind(r) \in {"list", "status"} /\ pc[r] # "idle" ~> pc[r] = "over"

\* The backend that gets the call has a tool of the name it is called by
\* (doc of Backend::call).
CalledByLocalName ==
  \A r \in Requests : routed[r].known

\* The inductive invariants.  The one behind Coalesced, CallsAreBounded and
\* ReadersFindTable: who sweeps holds the lock, a sweep that ensure_fresh()
\* began has been paid for by the expiry that made the table stale, and once
\* ensure_fresh() returns there is a table.
LockIsHeld ==
  /\ sweeper # NoRequest => pc[sweeper] \in Sweeping
  /\ \A r \in Requests : pc[r] \in Sweeping => sweeper = r

OnlyCallsWait == \A r \in Requests : pc[r] = "permit" => Kind(r) \in Permitted

Owing == is_stale /\ (sweeper = NoRequest \/ pc[sweeper] = "resweep")

SweepsArePaid ==
  discoveries + (IF Owing THEN 1 ELSE 0) <= 1 + expiries + forced + abandoned

SweepInv == /\ TypeOK /\ LockIsHeld /\ OnlyCallsWait
            /\ SweepsArePaid /\ CallsAreBounded /\ ReadersFindTable

\* The one behind TableIsRight and NativeWins: the table is made of answers
\* that the backends can give.
RouteIsTyped ==
  routed \in [Requests -> [backend : {0} \cup Backends, strip : BOOLEAN, known : BOOLEAN]]

TableInv == /\ RouteIsTyped /\ results \subseteq Possible
            /\ TableIsRight /\ NativeWins

RInv == SweepInv /\ TableInv

\* omni_status starts no sidecar (router/tests.rs, router/status.rs).
StatusStartsNothing == "status" \notin startedFor
=============================================================================
