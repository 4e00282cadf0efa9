---------------------------- MODULE SidecarSweeps ----------------------------
(***************************************************************************)
(* How the three timers and the spawn permits meet when sweeps start       *)
(* sidecars: discovery_timeout around each listing (Routes::discover),     *)
(* startup_timeout around each start and the queue for permits             *)
(* (SidecarBackend::connect).  Time is in ticks; what takes no time on     *)
(* that scale is one step.  Locks and errors are SidecarSupervisor's.      *)
(***************************************************************************)
EXTENDS Naturals, Sequences, SequencesExt, FiniteSets

CONSTANTS Sidecars,           \* the enabled sidecars
          Hanging,            \* those among them that never answer initialize
          StartTime,          \* how long the others take to answer it
          StartupTimeout,     \* startup_timeout of each sidecar
          DiscoveryTimeout,   \* limits.discovery_timeout
          MaxSpawns           \* limits.max_concurrent_spawns

VARIABLES
  order,      \* the sidecars as they are configured, which does not change
  queue,      \* those whose connect() waits for a spawn permit, first come first
  age,        \* for each process in its startup, how old it is
  connected,  \* the sidecars that have answered, which a sweep lists at once
  elapsed,    \* how long the sweep has lasted
  sweeping

vars == <<order, queue, age, connected, elapsed, sweeping>>

Init ==
  /\ order \in SetToSeqs(Sidecars)
  /\ queue = <<>> /\ age = <<>> /\ connected = {}
  /\ elapsed = 0 /\ sweeping = FALSE

\* discover(): every backend is asked, in its order.
BeginSweep ==
  /\ ~sweeping
  /\ sweeping' = TRUE /\ elapsed' = 0
  /\ queue' = SelectSeq(order, LAMBDA s : s \notin connected)
  /\ UNCHANGED <<order, age, connected>>

Starting == DOMAIN age
MaySpawn == queue # <<>> /\ Cardinality(Starting) < MaxSpawns

\* connect() gets its permit; spawn() starts the process.
Spawn ==
  /\ MaySpawn
  /\ queue' = Tail(queue)
  /\ age' = [s \in Starting \cup {Head(queue)} |-> IF s \in Starting THEN age[s] ELSE 0]
  /\ UNCHANGED <<order, connected, elapsed, sweeping>>

Forget(s) == age' = [t \in Starting \ {s} |-> age[t]]

Answered(s) == s \notin Hanging /\ age[s] >= StartTime

Started(s) ==
  /\ s \in Starting /\ Answered(s)
  /\ Forget(s)
  /\ connected' = connected \cup {s}
  /\ UNCHANGED <<order, queue, elapsed, sweeping>>

StartupTimesOut(s) ==
  /\ s \in Starting /\ ~Answered(s) /\ age[s] >= StartupTimeout
  /\ Forget(s)
  /\ UNCHANGED <<order, queue, connected, elapsed, sweeping>>

\* Every listing has ended, or the timeout around it has: the futures are
\* dropped, those in the queue and those in spawn(), whose children die.
EndSweep ==
  /\ sweeping
  /\ elapsed = DiscoveryTimeout \/ (queue = <<>> /\ Starting = {})
  /\ sweeping' = FALSE
  /\ queue' = <<>> /\ age' = <<>>
  /\ UNCHANGED <<order, connected, elapsed>>

\* Time passes when nothing else is due.
Due == \/ MaySpawn \/ elapsed = DiscoveryTimeout
       \/ \E s \in Starting : Answered(s) \/ age[s] >= StartupTimeout

Tick ==
  /\ sweeping /\ Starting # {} /\ ~Due
  /\ elapsed' = elapsed + 1
  /\ age' = [s \in Starting |-> age[s] + 1]
  /\ UNCHANGED <<order, queue, connected, sweeping>>

Next == BeginSweep \/ Spawn \/ EndSweep \/ Tick
        \/ \E s \in Sidecars : Started(s) \/ StartupTimesOut(s)

\* Clients keep asking for the tools, and every timer fires.
FairSpec == Init /\ [][Next]_vars
            /\ WF_vars(BeginSweep) /\ WF_vars(Spawn) /\ WF_vars(Tick) /\ WF_vars(EndSweep)
            /\ \A s \in Sidecars : WF_vars(Started(s)) /\ WF_vars(StartupTimesOut(s))
-----------------------------------------------------------------------------
\* A sidecar that starts well within its timeout is listed sooner or later,
\* whatever another does (sidecar.rs:11, of the code it replaced: "one hanging
\* sidecar froze every other backend").
HangingFreezesNobody ==
  StartTime <= StartupTimeout => \A s \in Sidecars \ Hanging : <>(s \in connected)
=============================================================================
