# A TLA+ model of omni-mcp

omni-mcp is a gateway: MCP clients reach it over stdio or HTTP, and it serves
them the tools of a *native* backend, of *sidecars* (child processes it spawns
and speaks JSON-RPC with over pipes) and of *proxies* (remote MCP servers). What
is hard in it is concurrency: many requests share one child's pipes, one slot
per sidecar, one routing table and a few semaphores, and any of them may be
dropped at any `await` by a deadline or by a client that hangs up.

Paths below are relative to the repository (`src/backend/sidecar.rs` and so on).

## Inventory

| Component | State | Operations | Interacts with | Hard because | Correct if |
|---|---|---|---|---|---|
| **Sidecar connection** (`Connection`, `request`, `write_line`, `read_responses`, `fail_all` in `backend/sidecar.rs`) | `stdin` and its lock, `pending` (id to oneshot sender), `next_id`, `alive` | send a request, deliver a response, tear down | the child over two pipes; its callers over oneshot channels | replies out of order and late, deadlines that drop a writer in mid-line, the child exiting between any two steps | a call gets its own answer or an error, soon after the child is gone; nothing but a deadline leaves anything behind |
| **Sidecar supervisor** (`SidecarBackend`: `connect`, `spawn`, `initialize`, `status`) | `connection` (the slot) and its lock, `spawn_permits` shared by all sidecars, `last_error` | connect, spawn, restart, record errors | the connection; the router's sweeps and calls; the OS | cancellation in the middle of a start, callers that find the sidecar dead at once, hanging children | one live process per sidecar, no permit or lock lost, every connect ends |
| **Router** (`router/mod.rs`) | `routes`, `discovery_lock`, `discoveries`, `call_permits` | list, call, status, refresh, warm up | all backends, both transports | expiry noticed by many at once, hang-ups during a sweep, permits held by calls that hang | one sweep per expiry, table as the answers define it, permits conserved, listings served |
| **Routing table** (`router/routes.rs`, `apply_prefix`/`strip_prefix` in `backend/mod.rs`) | none: a pure construction | discover, absorb, strip the timeout | the router | duplicate names, prefixes, partial failure | first backend wins, failures hide nobody else, names map back |
| **Status report** (`router/status.rs`) | none | report | router, `status()` of each backend | reads states that change meanwhile | starts nothing, does not hide a working backend |
| **stdio server** (`server/stdio.rs`) | the outbox, the set of handlers in flight | read, spawn, answer, drain | router | back pressure, order, end of input, failing writer | every request answered once, none lost on end of input |
| **HTTP server** (`server/http.rs`) | the token | authorize, handle, shut down | router | handlers dropped when the client hangs up, shutdown with calls in hand | no request served without the token, shutdown ends |
| **Proxy backend** (`backend/proxy.rs`) | `last_error`, `contacted`, `next_id` | rpc, record, status | remote servers | concurrent outcomes in two mutexes, SSE bodies, dropped exchanges | status is one that held while it was read |
| **Native backend** (`backend/native.rs`, `backend/native/`) | none shared | list, call | files, processes, network | I/O | deadline kept, failures classified |
| **Protocol** (`protocol/`) | none | classify, negotiate, split a response | everything | optional fields, null ids | each request answered under its id, notifications not |
| **Configuration** (`config/`) | none | load, interpolate, validate | start-up | scanner, overflow, many fields | what runs is what the file says, or nothing runs |
| **CLI, main, errors** (`cli.rs`, `main.rs`, `error.rs`) | none | choose file and command, refuse, build, warm up, serve | everything | order of start-up | a refused start has touched nothing; the table is warm before a client is served |

## Modules

| Module | What it is |
|---|---|
| `RpcSession` | What a connection promises: calls are opened, served, answered or failed; an answer is only given to an open call that was served; a closed session opens nothing but the call it was made for, which comes first. |
| `SidecarConnection` | One connection in detail. Implements `RpcSession`. |
| `MCSidecarConnection` | Its instances for TLC. |
| `SidecarConnectionProofs` | Its theorems. |
| `SidecarSupervisor`, `MCSidecarSupervisor`, `SidecarSupervisorProofs` | Slots, permits, starts and restarts of any number of sidecars. |
| `Routes` | The routing table and the prefixes, as operators, beside a definition of the table without an order of construction. |
| `Router`, `MCRouter`, `RouterProofs` | Requests, sweeps, expiry and permits; EXTENDS `Routes`. |
| `Induction` | Induction over the naturals in the form the proofs use it. |
| `SidecarSweeps`, `MCSidecarSweeps` | The three timers and the spawn permits when sweeps start sidecars, with a clock. |
| `Stdio`, `StdioProofs` | The stdio transport: reader, handlers, channel, writer. |
| `Interpolate`, `InterpolateProofs`, `Durations`, `Config` | Pure: placeholders, durations, and from the command line to a configuration or an error. `Interpolate` ends with a definition of what a text means by the pieces it was written from, without a scanner. |
| `Dispatch` | Pure: what `Router::handle` makes of one message; deadlines; the injected `timeout`. |
| `Proxy`, `ProxyProofs` | A proxy backend: exchanges, `record()`, `status()`. |
| `Gateway`, `MCGateway`, `GatewayProofs` | The process from its command line to its end; composes `Config`, `Dispatch` and `Proxy` (EXTENDS) with the HTTP transport and the native backend. Implements `Proxy`. |

### SidecarConnection

`connect()` hands a connection out in two ways, and `HandOut` is both: to the
call that published it, without another look at `alive` (`Fresh`,
`sidecar.rs:121-123`), so that a child which dies right after `initialize` gives
that call a dead connection; and to every later call only while it is alive
(`sidecar.rs:86-89`).

A call's `pc` is its place in `request()`: `Start` (connect handed the
connection out, the id is drawn), `Register` (the sender is inserted),
`LockStdin`, `WriteLine` or `WriteFails`, then `Receive` or `SenderDropped`; a
failed write goes through `RemoveAndMarkDead` and `Clear`, the two halves of
`fail_all()` with the await between them. `Deadline` may strike at each await
and leaves what the dropped future leaves: the entry in `pending`, and a line
cut short on stdin if the write had begun (`torn`; the next line written is
glued to it and the child cannot read it). The reader is `Read`, `ReaderBreaks`
and `ReaderClears`. `HashMap::insert` and `remove` drop the sender they replace,
and a dropped sender is seen as the absence of the call's entry. A `Response` is
any message with a numeric id, because its other fields are optional: `IsResponse`
holds of a request of the child's too. The child is external and does as it
likes: it reads whole lines, answers in any order, prints members of `Extras`,
closes its pipes or exits (`Faults`).

Not in the module: the order of lines on a pipe (`frames` and `stdout` are sets,
so every order is covered), the content of messages, and the moment in which the
reader's upgraded reference keeps a dropped connection alive.

### SidecarSupervisor

A task is one call of `connect()` and its use of the connection. `owner` is the
lock of each sidecar's slot, `slot` the published connection, named by the task
that made it; `holds` is a task's reference. `Reuse`, `Refuse` and `Claim` are
what `connect()` finds under the lock; `Spawn`, `SpawnError`, `Initialized`,
`StartFails`, `Record` and `Publish` follow the code from await to await.
`KillDropped` is `kill_on_drop`: a process whose connection nobody refers to is
killed in the same step. `Cancel` drops the future at any await, with its guard,
permit and connection. `MarkDead` is `fail_all()` as the supervisor sees it.

### Router and Routes

A request lists, calls or asks for the status. `CheckFresh`, `UseOthers` and
`Sweep` are `ensure_fresh()`, before and after the lock; `Refresh` is the forced
sweep for an unknown tool, `WarmUp` the one that `main()` awaits before a
transport serves (the router also works without it, as the crate's tests use
it). `Write` ends a sweep: `join_all` waits for every backend, so which answered
first is not visible, and each answer is a listing or `Failed`. `Cancel` is a
handler dropped by a client that hangs up. In `Routes`, names and prefixes are
sequences, `Enter` is one turn of the loop in `absorb`, and `IsTableOf` says what
the table should be: the least backend that lists a name owns it through its
first tool of that name. A schema is reduced to whether `ensure_timeout_property`
leaves it alone.

### SidecarSweeps

Time is in ticks and passes (`Tick`) only when nothing else is due. A sweep asks
every sidecar at once; those not connected queue for a spawn permit in their
configured order, `Spawn` starts a process, which answers after `StartTime` or
never (`Hanging`). `EndSweep` is `join_all` with `discovery_timeout` around each
listing: it drops what is queued and what is starting, and the children die.
Sweeps that overlap (two unknown tools at once) are not in the module, nor are
calls; a call reaches a sidecar only once a sweep has listed it.

### Stdio

A line is its number and its kind; `handler[n]` is the task of the `JoinSet`
that handles it, `outbox` the bounded channel, `writing` what the writer has
taken from it. `Send` waits for a place, or gives the answer up when the
receiver is gone. `BadBytes` is `next_line()?` failing: `serve()` returns, the
set is dropped and each task stops at its next await (`Abort`). `WriteFails`
ends the writer and closes the channel. `Exit` is the end of `main()`, after
which nothing runs: the runtime drops the writer and the channel, so that a
session that bad bytes cut short (`CutShort`) takes the answers still there with
it (`Unwritten`); after a drain there are none. What `router.handle()` does is left open.

### Interpolate, Durations, Config

A text is a sequence of `Symbols` (the marks `$`, `{`, `}` and `:-`, blanks, words), a
duration a number and a unit, a TOML table a function. `expand` is the scanner of
`interpolate.rs` as a recursive function of the position: its loop writes to
the end of `out`, so what the input from a position on becomes depends on that
position alone. The second half of the module is the reference it is compared
with: a text is written from *pieces* (a word, an escaped dollar, a variable,
a variable with a default), each of which has a meaning in an environment;
`Clear` says that the pieces mean what they seem to (a name has no brace in it,
a lone `$` is not followed by what would make it something else). `Parses` is the
checked multiplication of `duration.rs`, `parse` the product modulo `MaxU64 + 1`;
`Fits` refuses a negative count, as serde does for `usize`. `load_or_default` gives a configuration or the
first of `Read`, `Parse`, `MissingEnv` and `Invalid` that applies, in the code's
order. Keys that no model reads (host, port, origins, prefixes, arguments,
`[tools]`) are left out, and a TOML error and an unknown key are both `Parse`, as
in the code. `SshServerConfig` belongs to the crate `ssh-mcp` and is external.

### Dispatch

`AtOnce`, `CallsTool` and `ReplyTo` split `Router::handle` at its awaits: what is
answered without a backend, what becomes a call, and how an outcome is answered.
`Decoded` is serde's reading of a null id. `deadline`, `Augmented` and
`Forwarded` are the three functions of their names in `router/`.

### Proxy

`at[u]` is where a user's exchange or reading of the status is. `Interpret` is
the reply or reqwest's timeout, `RecordFirst` and `RecordSecond` the two locks of
`record()`, `ReadError` and `ReadContacted` those of `status()`. `Drop` is a
dropped future, which may have recorded nothing, or only the contact. `Leave`
takes the outcome away. `seen` is a history variable: what `status()` would have
said at each moment since a reader began.

### Gateway

`Load`, `Check`, `RefuseToServe`, `Build` and `StartTransport` are `main.rs` from
top to bottom; `Build` includes the sweep of `warm_up()`, which `EndSweep` ends.
A request is the server's from its head on (`Accept`): its body may take for
ever to come (`reading`), because the extractor waits for it without a timeout.
Once it is there, the request is answered in one step if it needs no backend
(`AnswerAtOnce`), else it waits for a permit (`BeginCall`) or reads the status
(`BeginStatus`). An answered request is the server's still, until the client has
read the response (`writing`, `Deliver`). `Passed` is what a backend gets: the
arguments, and the time the call has, which for a proxy is the lesser of the
call's deadline and the proxy's own timeout. `Resweep` is another sweep, by a
listing or by a request in hand, also after Ctrl-C. `HangUp` drops a handler
with its permit and its exchange, `Interrupt` and `Shutdown` are the graceful
shutdown. `given` is the world the process finds: command line,
files with the pieces their tokens were written from, environment, what
clients send, the schema of the proxy's tool. Of the
table only the failures are kept (which backend's listing failed); how requests
share sweeps is in `Router`, and sidecars' listings simply fail or do not. One
proxy is modelled in detail, the first enabled one; others only fail to list.

## Runs

| Run | Shows | Bounds and why they are enough |
|---|---|---|
| `connection_safety` | `IInv`, `OwnAnswer`, `LeakOnlyOnTimeout`, `OneSpoiltPerTimeout`, `AliveWhileChildServes` (a connection is given up only for a closed pipe, an exit or a line that is not UTF-8) against a child that does everything | three calls (one torn, one behind it, one in step again), each kind of extra line once, every fault; calls are symmetric |
| `connection_exit` | `NoWaiterAfterTeardown`, `ImplementsSession`, `ExitWakesCallers`, `RepliesArrive` | two calls; the child may exit or close stdin and prints no bad bytes, the cases the code's comments speak of |
| `supervisor` | `SInv`, `SpawnsAreBounded`, `OneLiveProcess`, `ErrorMeansNoConnection`, `ReplaceOnlyDead`, `ConnectEnds` | two sidecars, of which one restarts, share one permit; three tasks, so that two can compete for a slot while the third holds the permit |
| `router` | `RInv`, `Coalesced`, `TableIsRight`, `NativeWins`, `CallsAreBounded`, `ReadersFindTable`, `ReadersAreServed` | three backends whose names collide in both ways (native against proxy, prefixed against proxy), each but the native may fail; three requests, one permit, one expiry (`MaxExpiries`); a status request takes the path of a listing and is in `router_status` |
| `stdio` | `IInv`, `AnsweredOnce`, `NothingLost`, `RequestsAreAnswered`, `DrainEnds` | four lines of all five kinds and a channel of one place: one answer being written, one in the channel, one waiting for the place, and the reader with its parse error behind them |
| `gateway` | `GTypeOK` (with `PInv`), `HandledIsAuthorised`, `LoadedAsWritten`, `RefusalTouchesNothing`, `BlameIsRight`, `ReportIsCurrent`, `DeadlineIsKept`, `OnlyDeclaredArguments`, `RepliesAreProper`, `RequestsEnd`, `ShutdownEnds` | `Worlds` has texts of up to two pieces of twelve (set, unset, empty, default, blanks, a value that looks like a placeholder) and four odd ones; a file with each kind of fault and each duration at its boundary, with `MaxU64` small enough for its overflow; every choice of file, directory and command; and serving worlds for tokens, deadlines and schemas, for limits of 1.5 s and 0 s and a proxy called *native* with a timeout of 1.2 s, and for two requests that meet at the proxy with one permit and a second sweep (`MaxSweeps`); a limit of no calls is refused. Messages with a null id are in `null_id` |

Runs that end in a violation, each of one statement the repository makes:

| Run | Statement | What the code does |
|---|---|---|
| `connection_server_request` | the comment in `read_responses`: server-initiated requests are skipped | a request with a numeric id in use ends the call of that id with an error |
| `connection_late_waiter` | the comment of `fail_all`: every in-flight caller is woken | a call that inserts its sender after the clear waits out its deadline if the child closed stdout and keeps stdin open |
| `router_local_name` | the comment of `Backend::call`: the tool is named by its backend-local name | a local name that begins with the prefix is advertised as it is and called without the prefix |
| `null_id` | the test `null_id_is_preserved_rather_than_dropped` in `protocol/jsonrpc.rs`, whose comment says that a null id is treated as an id "so a reply is produced" | a message with a null id is a notification: no tool runs and the reply is 202 without a body |
| `hanging_sidecar` | the head of `backend/sidecar.rs`, which counts "one hanging sidecar froze every other backend" among the defects it has addressed | with one spawn permit (the default) a sidecar that hangs and is asked first has the permit for the whole of every sweep, since `discovery_timeout` drops all starts long before `startup_timeout` ends the hanging one; with two permits the property holds |
| `router_status` | the head of `router/status.rs` and the test `omni_status_does_not_start_lazy_sidecars` | a missing or expired table is swept first, which starts sidecars |

`CHECK_DEADLOCK FALSE` stands in every configuration but `hanging_sidecar`: the requests of an
instance are finitely many, and when all are over nothing is left to do.

In the same way the runs `gateway` and `stdio` may stop: a refused start has
ended, and a client need not send anything.

## Fairness

- `SidecarConnection`: weak fairness of each step of a call and of the reader.
  They are tokio tasks; the mutexes are held over finitely many steps, except
  the one of stdin, whose holder may block in `WriteLine` as long as the child
  does not read: that action gets no fairness, nor does `Deadline`, nor anything
  the child does.
- `SidecarSupervisor`: weak fairness of the steps of `connect()`. Tokio's mutex
  and semaphore queue their waiters, and `startup_timeout` always fires, so
  `StartFails` is fair while `Initialized` is not: a child need not answer.
  Weak fairness suffices for tasks that wait because the instance has finitely
  many tasks, each of which gets the lock once.
- `Router`: weak fairness of the gateway's own steps, `Write` among them because
  `discovery_timeout` bounds every listing. A dispatched call (`Return`) need
  not ever end.
- `Stdio`: weak fairness of the reader, of the writer and of each handler, whose
  `handle()` returns because every call has a deadline. The client need not send
  a line or close stdin, and stdout may break.
- `Gateway`: weak fairness of what the process does by itself with a request, of
  the end of a sweep and of the last step of the shutdown, and of `Proceed`, in
  which `TimeOut` is reqwest's timeout, so that the server need not answer.
  Nothing bounds how long a body takes to come or a response to be read, so the
  steps after `reading` and `writing` have no fairness: a request is promised an
  end once its handler has it (`RequestsEnd`), and the shutdown only if clients
  keep up (`ClientsKeepUp`, the premise of `ShutdownEnds`).
  Permits are granted in turn: with finitely many requests weak fairness is
  enough.
- `SidecarSweeps`: clients keep asking for the tools (`BeginSweep`), timers fire.

## Proofs

TLC checks instances; the theorems hold for all values of the constants under
the assumptions that the modules name (`NoCall` is no call, limits are positive
as `Config::validate` demands, `Requests` is finite).

- `SidecarConnectionProofs`. `IInv` strengthens `OwnAnswer` and
  `LeakOnlyOnTimeout`: ids are drawn once (`IdsAreUnique`); frames, entries,
  replies and mail name a call by the id it drew (`IdsAreTrue`); who writes holds
  the lock (`WriterHoldsLock`); a line is written once (`WrittenOnce`), so that no
  second reply exists; a reply on its way was served (`RepliesAreServed`); an
  awaited call keeps its entry until it has mail or the map was cleared
  (`EntryUntilMail`). Init and every action keep it (`Invariance`). From it
  follow `TypeCorrectness`, `NoCrossTalk`, `OnlyTimeoutsLeak`, `GivenUpOnlyForCause`, the conditional `TeardownIsComplete`, whose hypotheses (only
  UTF-8, and stdout closed by nothing but an exit) exclude what the violating run shows, and `Implementation`: every step is
  a step of `RpcSession` or stutters, the hand-out of a fresh connection that
  has died meanwhile among them. `SpoiltInv` counts the part
  of a line that ends stdin as a line already spoilt, which makes
  `OneSpoiltPerTimeout` inductive (`WritesAreFramed`).
- `SidecarSupervisorProofs`. `SInv`: a slot's lock is owned by exactly the task
  that is between `Claim` and the end of its start, and the slot is empty all
  that time (`LockIsOwned`); an unpublished connection is known to its spawner
  alone (`ReferencesAreTrue`); a live process is in its slot or in the hands of
  that spawner (`LiveIsCurrent`), hence `SingleLiveProcess`. `SpawnBound` counts:
  each action changes the set of starting processes and the permits by
  opposite amounts. `ErrorsAreCurrent` and `OnlyDeadReplaced` follow.
- `RouterProofs`. `RInv` is two invariants. `SweepInv`: who sweeps holds the
  lock (`LockIsHeld`); a table that is stale and not being swept is a debt of one
  sweep, paid for by the expiry, or the hang-up, that caused it
  (`SweepsArePaid`), which gives `SweepsCoalesce`; `CallBound` counts permits as
  above; `TableIsThere`. `TableInv`: the table is the one the last answers define.
  It rests on `TableIsBuilt`, which says for any answers that the two nested loops
  of `discover()` and `absorb` give what `IsTableOf` asks for: the table after
  each turn is known in closed form (the first backend, and in it the first
  tool, of each name so far), and the turns are counted with the induction
  of `Induction`. `TableIsAsAnswered` and `NativeToolsWin` follow. `CalledAsListed`
  is the other side of the violating run `router_local_name`: if no local name begins with
  its backend's prefix (`PlainNames`), every call names a tool as its backend
  lists it, even when the table is swept between its resolution and its end.
- `StdioProofs`. `IInv`: who still owes an answer keeps the channel open
  (`SendersAreOpen`), the tasks are those of the lines that have one
  (`TasksMatchLines`), and each answer handed over is in exactly one of channel,
  writer and client. Counting occurrences in the channel (`Occurrences`) takes
  lemmas on `Append` and `Tail`. `OneAnswerEach` and `NoAnswerIsLost` follow, for
  every depth of the channel and any number of lines; the latter bounds what a
  session cut short loses by the length of the channel and the line at the writer.
- `ProxyProofs`. `PInv`: an error is never noted before the contact
  (`ContactComesFirst`), and a reader's history includes what it is about to
  find (`ReadersKeepUp`). Were the two writes of `record()` swapped, a reader
  could say *ready* or *idle* for a state that never was. `ReportsAreCurrent`.
- `GatewayProofs`. Every step of the gateway is a step of `Proxy` or leaves it
  alone (`ImplementsProxy`), so that `StatusIsCurrent` is inherited;
  `RefusalsAreEarly` from an invariant on `phase`, `exit` and `sweeps`;
  `DeadlineIsWithinLimits` for all arguments and all limits (a second at least;
  at most the maximum if that is a second or more, else exactly a second).
  `Attended`: while a request is in hand the process serves or waits for it to
  end, so that a sweep of its own comes after no refusal. Per request,
  `CallInv` says what a call has sent on and `AllProper` what it has answered,
  which give `OnlyDeclaredPassed` and `AllRepliesProper` under
  `MessagesAssumption` (with which codes a body is rejected, that a message without params has no
  version, and that an unsigned argument is a natural number). `DeadlinesAreKept`
  rests on `LoadedIsTimed`: whatever file is loaded, its limits and the timeout of
  every proxy are numbers (a duration parses or the load is refused;
  `OwnTimeoutIsNatural` for the proxy in force), given that the file's lists of tables
  are lists (`FilesAssumption`). `GatewayIsTyped` counts permits against the
  requests that hold one (`PermitsAddUp`); `BlameIsFair` adds that the names of whatever `validate` lets
  through are distinct from each other. They need not differ from the native
  backend's, so it is the one backend that may be shown with another's failure, and
  only if a failing one is called *native*.
- `InterpolateProofs` and, on top of it, the end of `GatewayProofs`.
  `ExpandsAsMeant`: for any clear pieces and any environment, the scanner makes
  of the written text what its pieces mean, or fails if one of them is an unset
  variable. Induction goes from the last piece to the first, over
  the positions at which pieces begin; each kind of piece has a lemma for what
  the scanner finds there (`WordIsRead` and its like), and `LookupVar` and
  `LookupVarOr` say what stands between the braces. `EveryTextHasPieces` shows
  that clear pieces exist for every text, so nothing is left out.
  `PiecesAssumption` says which pieces a file's token was written
  from; by `EveryTextHasPieces` it excludes no text. From these, `ConfigIsAsWritten`
  (`LoadedAsWritten`), and with `TokenInv`, which keeps the token in force
  from the loaded file to the comparison, `TokenIsAsked`
  (`HandledIsAuthorised`), for every file, environment, command line and request.
- `Induction`. The library's theorems take the predicate as an operator, which
  the provers cannot instantiate; here a *set* of numbers takes its place
  (`Upwards`, `UpTo`, `DownFrom`), from the well-foundedness of `<`. A recursive function
  is then reasoned about by the set of numbers at which its value is as claimed.

Every invariant and every action property that a passing run checks is thus
the statement of a theorem, and of the violating runs' statements two are proved
under the condition that the run breaks (`TeardownIsComplete`, `CalledAsListed`). Only model-checked: the liveness properties
(`ExitWakesCallers`, `RepliesArrive`, `ConnectEnds`, `ReadersAreServed`,
`RequestsAreAnswered`, `DrainEnds`, `RequestsEnd`, `ShutdownEnds`), which rest on
fairness, hence on ENABLED, which the prover does not expand.

What the theorems are about is the models. That a text is a sequence of symbols
with `:-` as one of them, that a TOML table is a function, and what is under *Not
modelled*, are decisions no theorem covers.

## Not modelled

- The native tools, which are crates of their own, and the `[tools]` policy they
  are built from: `assemble()` hands it on unread.
- Logging, printing, TLS, CORS, `/health`, the limit of a body's size (a body
  that is rejected is modelled), the wording of errors: I/O, formatting or a
  library's.
- The environment and the arguments a child gets.
- The tool counts of `omni_status` (`owns()` in `router/status.rs`).
- Time as a quantity, except in `SidecarSweeps` and in the computed deadlines:
  elsewhere a deadline is a step that may come at any await, so that *whether* a
  wait is covered by a deadline is in the models and *how long* it takes is not.

## Observations

Noted while modelling, beside the statements that the violating runs refute:

- Every call of an unknown tool forces a sweep that is not shared with others
  (`router/mod.rs:167`).
- The waits for a permit, a slot and a sweep are outside a call's deadline
  (`router/mod.rs:157`, `backend/sidecar.rs:333`).
- `lazy` has no effect: the sweep of `warm_up()` starts every enabled sidecar
  (`config/mod.rs:258-261` says otherwise); `tools.allow_ssh` and `enabled_ssh()`
  are never consulted, so disabled SSH servers are offered.
- `check` accepts a configuration that `build()` then refuses (a proxy's bearer or
  header that is no header value).
- A proxy whose listing is cut off by `discovery_timeout` records nothing, and a
  malformed tool list is recorded as a success: its status stays *idle* or
  *ready* while it fails.
- A notification after the answer in an SSE body parses as a response with
  neither result nor error, and fails the call (`backend/proxy.rs:156`).
- `CHANNEL_DEPTH` bounds the answers that wait, not, as its comment says, the
  requests that are parsed and not answered (`server/stdio.rs:19-20`).
- A maximum deadline below one second becomes one second (`router/mod.rs:255`),
  where the repository's README (lines 64-65) and the comment at `router/mod.rs:243-244` speak of
  clamping to the configured maximum; `DeadlineIsKept` and `DeadlineIsWithinLimits`
  state what the code does.
- A proxy cuts a call at its own `timeout`, 30 s by default, whatever the caller
  asked for within the limits (`backend/proxy.rs:187-188`).
- A line on a sidecar's stdout that is not UTF-8 tears down the connection of a
  child that still serves (`backend/sidecar.rs:256`), although the comment below it
  (lines 267-270) skips diagnostic noise to keep the stream in sync; it is the
  third cause that `AliveWhileChildServes` admits.
- A line on the gateway's own stdin that is not UTF-8 ends the session
  (`server/stdio.rs:48`): requests in flight are dropped, and up to 65 answers
  that were given already (64 in the channel and the one being written).
- `validate()` does not reserve the name *native* (`config/mod.rs:323-333`). A
  proxy or sidecar of that name that fails makes `omni_status` show its failure
  for the native backend too (`router/status.rs:49`); `BlameIsRight` says so.
- A client that stalls in the middle of its body, or does not read its response,
  keeps graceful shutdown waiting (`server/http.rs:71`, `:143`), for as long as
  it likes.

## Plan

What could come next, in this order:

1. `Router`, `SidecarSupervisor` and `SidecarConnection` composed, in place of the
   open answers each now allows its neighbour: a call through the router is
   served at most once.
2. A clock in `Router`: how long a call waits outside its deadline.
3. The tool counts of the status report, with prefixes that begin alike.
4. More proofs: what a call has been given in `Router` against the abstract promise of
   a permit (taken once, given back once); what `SidecarSweeps` starts when there are
   more permits than hanging sidecars; the `OnlyReplies` of a child that sends no
   requests.
