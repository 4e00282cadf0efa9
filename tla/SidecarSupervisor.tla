------------------------- MODULE SidecarSupervisor -------------------------
(***************************************************************************)
(* How sidecar processes come and go (SidecarBackend::connect and spawn in *)
(* src/backend/sidecar.rs): one slot per sidecar behind a lock, a pool of  *)
(* spawn permits shared by all sidecars, and processes that are killed     *)
(* when the last holder of their connection lets go.                       *)
(*                                                                         *)
(* A task is one use of a sidecar: connect(), then a request over the      *)
(* connection.  A task spawns at most one process, so a connection and its *)
(* process bear the name of the task that spawned them.  What goes on      *)
(* inside a connection is SidecarConnection's matter.                      *)
(***************************************************************************)
EXTENDS Naturals, FiniteSets

CONSTANTS Sidecars,   \* the configured sidecars
          Restart,    \* those with restart_on_failure
          Tasks,      \* the calls and tool listings that use a sidecar
          NoTask,     \* stands for "no task" and "no connection"
          MaxSpawns   \* limits.max_concurrent_spawns

ASSUME RestartAssumption == Restart \subseteq Sidecars
ASSUME NoTaskAssumption == NoTask \notin Tasks
\* Config::validate refuses zero.
ASSUME MaxSpawnsAssumption == MaxSpawns \in Nat \ {0}

VARIABLES
  pc,         \* where each task is
  target,     \* the sidecar each task uses
  holds,      \* the connection each task has a reference to
  slot,       \* SidecarBackend.connection
  owner,      \* the task that holds the lock of a slot
  lastError,  \* whether SidecarBackend.last_error is set
  permits,    \* what is left of spawn_permits
  process,    \* the process each task spawned
  alive       \* Connection.alive of the connection each task created

vars == <<pc, target, holds, slot, owner, lastError, permits, process, alive>>

Connecting == {"slot", "permit", "spawning", "recording", "publishing"}
PC         == {"idle", "using", "over"} \cup Connecting

TypeOK ==
  /\ pc \in [Tasks -> PC]
  /\ target \in [Tasks -> Sidecars]
  /\ holds \in [Tasks -> Tasks \cup {NoTask}]
  /\ slot \in [Sidecars -> Tasks \cup {NoTask}]
  /\ owner \in [Sidecars -> Tasks \cup {NoTask}]
  /\ lastError \in [Sidecars -> BOOLEAN]
  /\ permits \in 0 .. MaxSpawns
  /\ process \in [Tasks -> {"none", "running", "exited", "killed"}]
  /\ alive \in [Tasks -> BOOLEAN]

Init ==
  /\ pc = [t \in Tasks |-> "idle"]
  /\ target \in [Tasks -> Sidecars]
  /\ holds = [t \in Tasks |-> NoTask]
  /\ slot = [s \in Sidecars |-> NoTask]
  /\ owner = [s \in Sidecars |-> NoTask]
  /\ lastError = [s \in Sidecars |-> FALSE]
  /\ permits = MaxSpawns
  /\ process = [t \in Tasks |-> "none"]
  /\ alive = [t \in Tasks |-> FALSE]

-----------------------------------------------------------------------------
Goto(t, label) == pc' = [pc EXCEPT ![t] = label]

\* A connection lives while a slot or a task refers to it; kill_on_drop ends
\* the process with it.
Held(k) == \/ \E s \in Sidecars : slot[s] = k
           \/ \E t \in Tasks : holds[t] = k

KillDropped ==
  process' = [k \in Tasks |-> IF process[k] = "running" /\ ~Held(k)'
                                THEN "killed" ELSE process[k]]

LetGo(t)      == holds' = [holds EXCEPT ![t] = NoTask]
Mutant_NoLock(t) == UNCHANGED owner
LockSlot(t)   == owner' = [owner EXCEPT ![target[t]] = t]
UnlockSlot(t) == owner' = [s \in Sidecars |-> IF owner[s] = t THEN NoTask ELSE owner[s]]

Begin(t) ==
  /\ pc[t] = "idle"
  /\ Goto(t, "slot")
  /\ UNCHANGED <<target, holds, slot, owner, lastError, permits, process, alive>>

\* The task gets the lock of its slot.
EntersSlot(t) == pc[t] = "slot" /\ owner[target[t]] = NoTask

\* There is a live connection: the task takes a reference and unlocks.
Reuse(t) ==
  /\ EntersSlot(t)
  /\ slot[target[t]] # NoTask
  /\ alive[slot[target[t]]]
  /\ holds' = [holds EXCEPT ![t] = slot[target[t]]]
  /\ Goto(t, "using")
  /\ UNCHANGED <<target, slot, owner, lastError, permits, process, alive>>

\* There is a dead one, and the sidecar may not be restarted.
Refuse(t) ==
  /\ EntersSlot(t)
  /\ slot[target[t]] # NoTask
  /\ ~alive[slot[target[t]]]
  /\ target[t] \notin Restart
  /\ Goto(t, "over")
  /\ UNCHANGED <<target, holds, slot, owner, lastError, permits, process, alive>>

\* There is none, or a dead one that is dropped: the task keeps the lock
\* until a new connection is published or has failed.
Mutant_ClaimLive(t) == slot[target[t]] # NoTask => target[t] \in Restart
Mutant_AlwaysRestart(t) == slot[target[t]] # NoTask => ~alive[slot[target[t]]]
MayClaim(t) ==
  slot[target[t]] # NoTask => ~alive[slot[target[t]]] /\ target[t] \in Restart

Claim(t) ==
  /\ EntersSlot(t)
  /\ MayClaim(t)
  /\ slot' = [slot EXCEPT ![target[t]] = NoTask]
  /\ LockSlot(t)
  /\ Goto(t, "permit")
  /\ UNCHANGED <<target, holds, lastError, permits, alive>>
  /\ KillDropped

\* A permit is taken, and the process starts before the next await.
Spawn(t) ==
  /\ pc[t] = "permit"
  /\ permits > 0
  /\ permits' = permits - 1
  /\ process' = [process EXCEPT ![t] = "running"]
  /\ alive' = [alive EXCEPT ![t] = TRUE]
  /\ holds' = [holds EXCEPT ![t] = t]
  /\ Goto(t, "spawning")
  /\ UNCHANGED <<target, slot, owner, lastError>>

\* The command cannot be started; the permit goes back at once.
SpawnError(t) ==
  /\ pc[t] = "permit"
  /\ permits > 0
  /\ Goto(t, "recording")
  /\ UNCHANGED <<target, holds, slot, owner, lastError, permits, process, alive>>

\* The child has answered initialize and taken the notification.
Initialized(t) ==
  /\ pc[t] = "spawning"
  /\ process[t] = "running"
  /\ permits' = permits + 1
  /\ Goto(t, "publishing")
  /\ UNCHANGED <<target, holds, slot, owner, lastError, process, alive>>

\* The handshake failed, or startup_timeout has passed: spawn() is dropped
\* with the connection it made.
Mutant_Untimed(t) == process[t] # "running"
MayFail(t) == process[t] \in {"running", "exited"}

StartFails(t) ==
  /\ pc[t] = "spawning"
  /\ MayFail(t)
  /\ permits' = permits + 1
  /\ LetGo(t)
  /\ Goto(t, "recording")
  /\ UNCHANGED <<target, slot, owner, lastError, alive>>
  /\ KillDropped

\* The error is stored while the slot is still locked.
Record(t) ==
  /\ pc[t] = "recording"
  /\ lastError' = [lastError EXCEPT ![target[t]] = TRUE]
  /\ UnlockSlot(t)
  /\ Goto(t, "over")
  /\ UNCHANGED <<target, holds, slot, permits, process, alive>>

\* The error is cleared and the slot filled, with no await in between.
Mutant_KeepError(t) == UNCHANGED lastError
ClearError(t) == lastError' = [lastError EXCEPT ![target[t]] = FALSE]

Publish(t) ==
  /\ pc[t] = "publishing"
  /\ ClearError(t)
  /\ slot' = [slot EXCEPT ![target[t]] = t]
  /\ UnlockSlot(t)
  /\ Goto(t, "using")
  /\ UNCHANGED <<target, holds, permits, process, alive>>

\* request() has ended, by its answer, an error or its deadline.
Finish(t) ==
  /\ pc[t] = "using"
  /\ LetGo(t)
  /\ Goto(t, "over")
  /\ UNCHANGED <<target, slot, owner, lastError, permits, alive>>
  /\ KillDropped

\* The future is dropped at an await: the sweep's discovery_timeout passed, or
\* the HTTP client hung up.  Guards, permit and connection are dropped with it.
Mutant_Lost(t) == permits
Returned(t) == IF pc[t] = "spawning" THEN permits + 1 ELSE permits
Cancel(t) ==
  /\ pc[t] \in Connecting \cup {"using"}
  /\ UnlockSlot(t)
  /\ permits' = Returned(t)
  /\ LetGo(t)
  /\ Goto(t, "over")
  /\ UNCHANGED <<target, slot, lastError, alive>>
  /\ KillDropped

-----------------------------------------------------------------------------
Exit(k) ==
  /\ process[k] = "running"
  /\ process' = [process EXCEPT ![k] = "exited"]
  /\ UNCHANGED <<pc, target, holds, slot, owner, lastError, permits, alive>>

\* fail_all(): stdout ended, was unreadable, or a write failed.  The process
\* may still run.
MarkDead(k) ==
  /\ alive[k]
  /\ Held(k)
  /\ alive' = [alive EXCEPT ![k] = FALSE]
  /\ UNCHANGED <<pc, target, holds, slot, owner, lastError, permits, process>>

Connect(t) == \/ Reuse(t) \/ Refuse(t) \/ Claim(t) \/ Spawn(t) \/ SpawnError(t)
              \/ StartFails(t) \/ Record(t) \/ Publish(t)

Next == \E t \in Tasks : \/ Begin(t) \/ Connect(t) \/ Initialized(t)
                         \/ Finish(t) \/ Cancel(t) \/ Exit(t) \/ MarkDead(t)

Spec == Init /\ [][Next]_vars

\* Tokio's locks and semaphores are fair, and startup_timeout fires.  Nothing
\* is assumed of the children: initialize may never be answered.
FairSpec == Spec /\ \A t \in Tasks : WF_vars(Connect(t))

-----------------------------------------------------------------------------
(* Properties.                                                             *)

Starting == {t \in Tasks : pc[t] = "spawning"}

\* No more processes than permits are in their startup at a time, and no
\* cancelled or failed start keeps its permit (header of sidecar.rs, Limits).
SpawnsAreBounded == Cardinality(Starting) + permits = MaxSpawns

\* A sidecar has at most one process with a live connection, however many
\* tasks find it dead at once and whenever they are cancelled.
OneLiveProcess ==
  \A j, k \in Tasks :
    /\ target[j] = target[k]
    /\ process[j] = "running" /\ alive[j]
    /\ process[k] = "running" /\ alive[k]
    => j = k

\* status() looks at last_error first: an error is only there while the
\* sidecar has no connection, so it never hides a working one.
ErrorMeansNoConnection ==
  \A s \in Sidecars : lastError[s] => slot[s] = NoTask

\* The inductive invariant: who has a slot's lock, who refers to a connection,
\* and where a live process can be.
Locking == {"permit", "spawning", "recording", "publishing"}
Fresh   == {"spawning", "publishing"}

LockIsOwned ==
  /\ \A t \in Tasks, s \in Sidecars :
       owner[s] = t <=> pc[t] \in Locking /\ target[t] = s
  /\ \A t \in Tasks : pc[t] \in Locking => slot[target[t]] = NoTask

\* A connection that is not published yet is known to its spawner alone.
ReferencesAreTrue ==
  /\ \A t \in Tasks : pc[t] \in Fresh => holds[t] = t
  /\ \A t, k \in Tasks :
       holds[t] = k /\ t # k => pc[k] \notin Fresh \cup {"idle", "slot", "permit"}
  /\ \A t \in Tasks : holds[t] # NoTask => pc[t] \in Fresh \cup {"using"}
  /\ \A s \in Sidecars, k \in Tasks : slot[s] = k =>
       target[k] = s /\ pc[k] \notin Fresh \cup {"idle", "slot", "permit"}

LiveIsCurrent ==
  /\ \A k \in Tasks : process[k] = "running" => Held(k)
  /\ \A k \in Tasks : process[k] = "running" /\ alive[k] =>
       slot[target[k]] = k \/ pc[k] \in Fresh

SInv == /\ TypeOK
        /\ LockIsOwned
        /\ ReferencesAreTrue
        /\ LiveIsCurrent
        /\ ErrorMeansNoConnection
        /\ IsFiniteSet(Starting)
        /\ SpawnsAreBounded

\* A published connection is only taken out of its slot when it is dead and
\* the sidecar may be restarted.
ReplaceOnlyDead ==
  [][\A s \in Sidecars :
       slot[s] # NoTask /\ slot'[s] # slot[s] => ~alive[slot[s]] /\ s \in Restart]_vars

\* Every connect() comes to an end although children may hang in initialize
\* and all sidecars share the permits (header of sidecar.rs, item 2).
ConnectEnds ==
  \A t \in Tasks : pc[t] = "slot" ~> pc[t] \in {"using", "over"}
=============================================================================
