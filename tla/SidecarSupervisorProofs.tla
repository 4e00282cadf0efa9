---------------------- MODULE SidecarSupervisorProofs ----------------------
(***************************************************************************)
(* Theorems about SidecarSupervisor for any set of sidecars, any tasks and *)
(* any limit on spawns.                                                    *)
(***************************************************************************)
EXTENDS SidecarSupervisor, FiniteSetTheorems, TLAPS

(***************************************************************************)
(* Permits and processes in their startup always add up to the limit.      *)
(***************************************************************************)
LEMMA StepSpawns ==
  ASSUME SInv, NEW t \in Tasks,
         \/ Begin(t) \/ Connect(t) \/ Initialized(t)
         \/ Finish(t) \/ Cancel(t) \/ Exit(t) \/ MarkDead(t)
  PROVE  /\ IsFiniteSet(Starting)' /\ SpawnsAreBounded'
         /\ permits' \in 0 .. MaxSpawns
<1> USE MaxSpawnsAssumption DEF SInv, TypeOK, Goto, SpawnsAreBounded
<1>1. Cardinality(Starting) \in Nat
  BY FS_CardinalityType
<1>2. CASE Spawn(t)
  <2>1. Starting' = Starting \cup {t} /\ t \notin Starting
    BY <1>2 DEF Spawn, Starting
  <2>2. /\ IsFiniteSet(Starting)'
        /\ Cardinality(Starting)' = Cardinality(Starting) + 1
    BY <2>1, FS_AddElement
  <2>3. permits' = permits - 1 /\ permits > 0
    BY <1>2 DEF Spawn
  <2> QED BY <1>1, <2>2, <2>3
<1>3. CASE \/ Initialized(t) \/ StartFails(t)
           \/ Cancel(t) /\ pc[t] = "spawning"
  <2>1. Starting' = Starting \ {t} /\ t \in Starting
    BY <1>3 DEF Initialized, StartFails, Cancel, Starting
  <2>2. /\ IsFiniteSet(Starting)'
        /\ Cardinality(Starting)' = Cardinality(Starting) - 1
    BY <2>1, FS_RemoveElement
  <2>3. permits' = permits + 1
    BY <1>3 DEF Initialized, StartFails, Cancel, Returned
  <2>4. Cardinality(Starting)' \in Nat
    BY <2>2, FS_CardinalityType
  <2> QED BY <1>1, <2>2, <2>3, <2>4
<1>4. CASE \/ Begin(t) \/ Reuse(t) \/ Refuse(t) \/ Claim(t) \/ SpawnError(t)
           \/ Record(t) \/ Publish(t) \/ Finish(t) \/ Exit(t) \/ MarkDead(t)
           \/ Cancel(t) /\ pc[t] # "spawning"
  <2>1. Starting' = Starting /\ permits' = permits
    BY <1>4 DEF Begin, Reuse, Refuse, Claim, EntersSlot, SpawnError, Record,
                Publish, Finish, Exit, MarkDead, Cancel, Returned, Starting
  <2> QED BY <2>1
<1> QED BY <1>2, <1>3, <1>4 DEF Connect

(***************************************************************************)
(* Every action keeps the inductive invariant.                             *)
(***************************************************************************)
LEMMA InitSInv == Init => SInv
<1> SUFFICES ASSUME Init PROVE SInv
  OBVIOUS
<1>1. Starting = {} /\ IsFiniteSet(Starting) /\ Cardinality(Starting) = 0
  BY FS_EmptySet DEF Init, Starting
<1> QED
  BY <1>1, NoTaskAssumption, MaxSpawnsAssumption
     DEF Init, SInv, TypeOK, PC, LockIsOwned, Locking, ReferencesAreTrue, Fresh,
         LiveIsCurrent, ErrorMeansNoConnection, SpawnsAreBounded

LEMMA StepSInv == SInv /\ [Next]_vars => SInv'
<1> SUFFICES ASSUME SInv, [Next]_vars PROVE SInv'
  OBVIOUS
<1> USE NoTaskAssumption DEF SInv, TypeOK, Goto
<1> DEFINE Bounds == /\ IsFiniteSet(Starting) /\ SpawnsAreBounded
                     /\ permits \in 0 .. MaxSpawns
<1>1. ASSUME NEW t \in Tasks, Begin(t) PROVE SInv'
  <2>1. Bounds'
    BY <1>1, StepSpawns DEF Connect
  <2>2. TypeOK'
    BY <1>1, <2>1 DEF Begin, PC, Connecting
  <2>3. /\ LockIsOwned' /\ ReferencesAreTrue'
        /\ LiveIsCurrent' /\ ErrorMeansNoConnection'
    BY <1>1 DEF Begin, LockIsOwned, Locking, ReferencesAreTrue, Fresh,
       LiveIsCurrent, Held, ErrorMeansNoConnection
  <2> QED BY <2>1, <2>2, <2>3
<1>2. ASSUME NEW t \in Tasks, Reuse(t) PROVE SInv'
  <2>1. Bounds'
    BY <1>2, StepSpawns DEF Connect
  <2>2. TypeOK'
    BY <1>2, <2>1 DEF Reuse, EntersSlot, PC, Connecting
  <2>3. LockIsOwned'
    BY <1>2 DEF Reuse, EntersSlot, LockIsOwned, Locking
  <2>4. ReferencesAreTrue'
    BY <1>2 DEF Reuse, EntersSlot, ReferencesAreTrue, Fresh
  <2>5. LiveIsCurrent'
    BY <1>2 DEF Reuse, EntersSlot, LiveIsCurrent, ReferencesAreTrue,
       LockIsOwned, Locking, Fresh, Held
  <2>6. ErrorMeansNoConnection'
    BY <1>2 DEF Reuse, EntersSlot, ErrorMeansNoConnection, LockIsOwned,
       Locking
  <2> QED BY <2>1, <2>2, <2>3, <2>4, <2>5, <2>6
<1>3. ASSUME NEW t \in Tasks, Refuse(t) PROVE SInv'
  <2>1. Bounds'
    BY <1>3, StepSpawns DEF Connect
  <2>2. TypeOK'
    BY <1>3, <2>1 DEF Refuse, EntersSlot, PC, Connecting
  <2>3. /\ LockIsOwned' /\ ReferencesAreTrue'
        /\ LiveIsCurrent' /\ ErrorMeansNoConnection'
    BY <1>3 DEF Refuse, EntersSlot, LockIsOwned, Locking, ReferencesAreTrue,
       Fresh, LiveIsCurrent, Held, ErrorMeansNoConnection
  <2> QED BY <2>1, <2>2, <2>3
<1>4. ASSUME NEW t \in Tasks, Claim(t) PROVE SInv'
  <2>1. Bounds'
    BY <1>4, StepSpawns DEF Connect
  <2>2. TypeOK'
    BY <1>4, <2>1 DEF Claim, MayClaim, LockSlot, EntersSlot, KillDropped, PC,
       Connecting
  <2>3. LockIsOwned'
    BY <1>4 DEF Claim, MayClaim, LockSlot, EntersSlot, KillDropped,
       LockIsOwned, Locking
  <2>4. ReferencesAreTrue'
    BY <1>4 DEF Claim, MayClaim, LockSlot, EntersSlot, KillDropped,
       ReferencesAreTrue, Fresh
  <2>5. LiveIsCurrent'
    BY <1>4 DEF Claim, MayClaim, LockSlot, EntersSlot, KillDropped,
       LiveIsCurrent, ReferencesAreTrue, LockIsOwned, Locking, Fresh, Held
  <2>6. ErrorMeansNoConnection'
    BY <1>4 DEF Claim, MayClaim, LockSlot, EntersSlot, KillDropped,
       ErrorMeansNoConnection, LockIsOwned, Locking
  <2> QED BY <2>1, <2>2, <2>3, <2>4, <2>5, <2>6
<1>5. ASSUME NEW t \in Tasks, Spawn(t) PROVE SInv'
  <2>1. Bounds'
    BY <1>5, StepSpawns DEF Connect
  <2>2. TypeOK'
    BY <1>5, <2>1 DEF Spawn, PC, Connecting
  <2>3. LockIsOwned'
    BY <1>5 DEF Spawn, LockIsOwned, Locking
  <2>4. ReferencesAreTrue'
    BY <1>5 DEF Spawn, ReferencesAreTrue, Fresh
  <2>5. LiveIsCurrent'
    BY <1>5 DEF Spawn, LiveIsCurrent, ReferencesAreTrue, LockIsOwned, Locking,
       Fresh, Held
  <2>6. ErrorMeansNoConnection'
    BY <1>5 DEF Spawn, ErrorMeansNoConnection, LockIsOwned, Locking
  <2> QED BY <2>1, <2>2, <2>3, <2>4, <2>5, <2>6
<1>6. ASSUME NEW t \in Tasks, SpawnError(t) PROVE SInv'
  <2>1. Bounds'
    BY <1>6, StepSpawns DEF Connect
  <2>2. TypeOK'
    BY <1>6, <2>1 DEF SpawnError, PC, Connecting
  <2>3. /\ LockIsOwned' /\ ReferencesAreTrue'
        /\ LiveIsCurrent' /\ ErrorMeansNoConnection'
    BY <1>6 DEF SpawnError, LockIsOwned, Locking, ReferencesAreTrue, Fresh,
       LiveIsCurrent, Held, ErrorMeansNoConnection
  <2> QED BY <2>1, <2>2, <2>3
<1>7. ASSUME NEW t \in Tasks, Initialized(t) PROVE SInv'
  <2>1. Bounds'
    BY <1>7, StepSpawns DEF Connect
  <2>2. TypeOK'
    BY <1>7, <2>1 DEF Initialized, PC, Connecting
  <2>3. /\ LockIsOwned' /\ ReferencesAreTrue'
        /\ LiveIsCurrent' /\ ErrorMeansNoConnection'
    BY <1>7 DEF Initialized, LockIsOwned, Locking, ReferencesAreTrue, Fresh,
       LiveIsCurrent, Held, ErrorMeansNoConnection
  <2> QED BY <2>1, <2>2, <2>3
<1>8. ASSUME NEW t \in Tasks, StartFails(t) PROVE SInv'
  <2>1. Bounds'
    BY <1>8, StepSpawns DEF Connect
  <2>2. TypeOK'
    BY <1>8, <2>1 DEF StartFails, LetGo, KillDropped, PC, Connecting
  <2>3. LockIsOwned'
    BY <1>8 DEF StartFails, LetGo, KillDropped, LockIsOwned, Locking
  <2>4. ReferencesAreTrue'
    BY <1>8 DEF StartFails, LetGo, KillDropped, ReferencesAreTrue, Fresh
  <2>5. LiveIsCurrent'
    BY <1>8 DEF StartFails, LetGo, KillDropped, LiveIsCurrent,
       ReferencesAreTrue, LockIsOwned, Locking, Fresh, Held
  <2>6. ErrorMeansNoConnection'
    BY <1>8 DEF StartFails, LetGo, KillDropped, ErrorMeansNoConnection,
       LockIsOwned, Locking
  <2> QED BY <2>1, <2>2, <2>3, <2>4, <2>5, <2>6
<1>9. ASSUME NEW t \in Tasks, Record(t) PROVE SInv'
  <2>1. Bounds'
    BY <1>9, StepSpawns DEF Connect
  <2>2. TypeOK'
    BY <1>9, <2>1 DEF Record, UnlockSlot, PC, Connecting
  <2>3. /\ LockIsOwned' /\ ReferencesAreTrue'
        /\ LiveIsCurrent' /\ ErrorMeansNoConnection'
    BY <1>9 DEF Record, UnlockSlot, LockIsOwned, Locking, ReferencesAreTrue,
       Fresh, LiveIsCurrent, Held, ErrorMeansNoConnection
  <2> QED BY <2>1, <2>2, <2>3
<1>10. ASSUME NEW t \in Tasks, Publish(t) PROVE SInv'
  <2>1. Bounds'
    BY <1>10, StepSpawns DEF Connect
  <2>2. TypeOK'
    BY <1>10, <2>1 DEF Publish, ClearError, UnlockSlot, PC, Connecting
  <2>3. LockIsOwned'
    BY <1>10 DEF Publish, ClearError, UnlockSlot, LockIsOwned, Locking
  <2>4. ReferencesAreTrue'
    BY <1>10 DEF Publish, ClearError, UnlockSlot, ReferencesAreTrue, Fresh,
       LockIsOwned, Locking
  <2>5. LiveIsCurrent'
    BY <1>10 DEF Publish, ClearError, UnlockSlot, LiveIsCurrent,
       ReferencesAreTrue, LockIsOwned, Locking, Fresh, Held
  <2>6. ErrorMeansNoConnection'
    BY <1>10 DEF Publish, ClearError, UnlockSlot, ErrorMeansNoConnection,
       LockIsOwned, Locking
  <2> QED BY <2>1, <2>2, <2>3, <2>4, <2>5, <2>6
<1>11. ASSUME NEW t \in Tasks, Finish(t) PROVE SInv'
  <2>1. Bounds'
    BY <1>11, StepSpawns DEF Connect
  <2>2. TypeOK'
    BY <1>11, <2>1 DEF Finish, LetGo, KillDropped, PC, Connecting
  <2>3. LockIsOwned'
    BY <1>11 DEF Finish, LetGo, KillDropped, LockIsOwned, Locking
  <2>4. ReferencesAreTrue'
    BY <1>11 DEF Finish, LetGo, KillDropped, ReferencesAreTrue, Fresh
  <2>5. LiveIsCurrent'
    BY <1>11 DEF Finish, LetGo, KillDropped, LiveIsCurrent, ReferencesAreTrue,
       LockIsOwned, Locking, Fresh, Held
  <2>6. ErrorMeansNoConnection'
    BY <1>11 DEF Finish, LetGo, KillDropped, ErrorMeansNoConnection,
       LockIsOwned, Locking
  <2> QED BY <2>1, <2>2, <2>3, <2>4, <2>5, <2>6
<1>12. ASSUME NEW t \in Tasks, Cancel(t) PROVE SInv'
  <2>1. Bounds'
    BY <1>12, StepSpawns DEF Connect
  <2>2. TypeOK'
    BY <1>12, <2>1 DEF Cancel, Returned, UnlockSlot, LetGo, KillDropped, PC,
       Connecting
  <2>3. LockIsOwned'
    BY <1>12 DEF Cancel, Returned, UnlockSlot, LetGo, KillDropped,
       LockIsOwned, Locking
  <2>4. ReferencesAreTrue'
    BY <1>12 DEF Cancel, Returned, UnlockSlot, LetGo, KillDropped,
       ReferencesAreTrue, Fresh
  <2>5. LiveIsCurrent'
    BY <1>12 DEF Cancel, Returned, UnlockSlot, LetGo, KillDropped,
       LiveIsCurrent, ReferencesAreTrue, LockIsOwned, Locking, Fresh, Held
  <2>6. ErrorMeansNoConnection'
    BY <1>12 DEF Cancel, Returned, UnlockSlot, LetGo, KillDropped,
       ErrorMeansNoConnection, LockIsOwned, Locking
  <2> QED BY <2>1, <2>2, <2>3, <2>4, <2>5, <2>6
<1>13. ASSUME NEW t \in Tasks, Exit(t) PROVE SInv'
  <2>1. Bounds'
    BY <1>13, StepSpawns DEF Connect
  <2>2. TypeOK'
    BY <1>13, <2>1 DEF Exit, PC, Connecting
  <2>3. /\ LockIsOwned' /\ ReferencesAreTrue'
        /\ LiveIsCurrent' /\ ErrorMeansNoConnection'
    BY <1>13 DEF Exit, LockIsOwned, Locking, ReferencesAreTrue, Fresh,
       LiveIsCurrent, Held, ErrorMeansNoConnection
  <2> QED BY <2>1, <2>2, <2>3
<1>14. ASSUME NEW t \in Tasks, MarkDead(t) PROVE SInv'
  <2>1. Bounds'
    BY <1>14, StepSpawns DEF Connect
  <2>2. TypeOK'
    BY <1>14, <2>1 DEF MarkDead, PC, Connecting
  <2>3. /\ LockIsOwned' /\ ReferencesAreTrue'
        /\ LiveIsCurrent' /\ ErrorMeansNoConnection'
    BY <1>14 DEF MarkDead, LockIsOwned, Locking, ReferencesAreTrue, Fresh,
       LiveIsCurrent, Held, ErrorMeansNoConnection
  <2> QED BY <2>1, <2>2, <2>3
<1>15. CASE UNCHANGED vars
  BY <1>15 DEF vars, LockIsOwned, Locking, ReferencesAreTrue, Fresh,
     LiveIsCurrent, Held, ErrorMeansNoConnection, SpawnsAreBounded, Starting
<1> QED
  BY <1>1, <1>2, <1>3, <1>4, <1>5, <1>6, <1>7, <1>8, <1>9, <1>10, <1>11,
     <1>12, <1>13, <1>14, <1>15 DEF Next, Connect

(***************************************************************************)
(* What follows from the invariant.                                        *)
(***************************************************************************)
LEMMA SInvImpliesOneLive == SInv => OneLiveProcess
<1> SUFFICES ASSUME SInv, NEW j \in Tasks, NEW k \in Tasks, target[j] = target[k],
                    process[j] = "running", alive[j],
                    process[k] = "running", alive[k]
             PROVE  j = k
  BY DEF OneLiveProcess
<1> USE DEF SInv, TypeOK
<1>1. /\ slot[target[j]] = j \/ pc[j] \in Fresh
      /\ slot[target[k]] = k \/ pc[k] \in Fresh
  BY DEF LiveIsCurrent
<1>2. \A t \in Tasks : pc[t] \in Fresh =>
        owner[target[t]] = t /\ slot[target[t]] = NoTask
  BY DEF LockIsOwned, Locking, Fresh
<1> QED BY <1>1, <1>2, NoTaskAssumption

THEOREM Invariance == Spec => []SInv
  BY InitSInv, StepSInv, PTL DEF Spec

\* The types of the slots, locks, permits and connections; in particular the
\* permits never exceed the configured limit.
THEOREM TypeCorrectness == Spec => []TypeOK
  BY Invariance, PTL DEF SInv

\* At no time do more processes start than max_concurrent_spawns allows, and
\* no permit is lost, whichever starts fail, hang or are cancelled.
THEOREM SpawnBound == Spec => []SpawnsAreBounded
  BY Invariance, PTL DEF SInv

\* However many callers find a sidecar dead at once, it gets one successor.
THEOREM SingleLiveProcess == Spec => []OneLiveProcess
  BY Invariance, SInvImpliesOneLive, PTL

\* A stored start-up error never stands beside a connection.
THEOREM ErrorsAreCurrent == Spec => []ErrorMeansNoConnection
  BY Invariance, PTL DEF SInv

\* connect() never takes a live connection out of its slot, and never
\* replaces one of a sidecar without restart_on_failure.
THEOREM OnlyDeadReplaced == Spec => ReplaceOnlyDead
<1>1. ASSUME SInv, [Next]_vars
      PROVE  [\A s \in Sidecars : slot[s] # NoTask /\ slot'[s] # slot[s]
                => ~alive[slot[s]] /\ s \in Restart]_vars
  <2> USE DEF SInv, TypeOK
  <2>1. ASSUME NEW t \in Tasks, Claim(t), NEW s \in Sidecars,
               slot[s] # NoTask, slot'[s] # slot[s]
        PROVE  ~alive[slot[s]] /\ s \in Restart
    BY <2>1 DEF Claim, MayClaim
  <2>2. ASSUME NEW t \in Tasks, Publish(t), NEW s \in Sidecars, slot[s] # NoTask
        PROVE  slot'[s] = slot[s]
    <3>1. slot[target[t]] = NoTask
      BY <1>1, <2>2 DEF Publish, LockIsOwned, Locking
    <3> QED BY <1>1, <2>2, <3>1 DEF Publish
  <2>3. ASSUME NEW t \in Tasks,
               \/ Begin(t) \/ Reuse(t) \/ Refuse(t) \/ Spawn(t) \/ SpawnError(t)
               \/ Initialized(t) \/ StartFails(t) \/ Record(t) \/ Finish(t)
               \/ Cancel(t) \/ Exit(t) \/ MarkDead(t)
        PROVE  slot' = slot
    BY <2>3 DEF Begin, Reuse, Refuse, Spawn, SpawnError, Initialized, StartFails,
                Record, Finish, Cancel, Exit, MarkDead
  <2> QED BY <1>1, <2>1, <2>2, <2>3 DEF Next, Connect
<1> QED BY <1>1, Invariance, PTL DEF Spec, ReplaceOnlyDead
=============================================================================
