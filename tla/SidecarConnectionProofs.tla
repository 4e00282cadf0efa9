---------------------- MODULE SidecarConnectionProofs ----------------------
(***************************************************************************)
(* Theorems about SidecarConnection for any set of calls, any extra lines  *)
(* the child prints and any of its faults.                                 *)
(***************************************************************************)
EXTENDS SidecarConnection, FiniteSetTheorems, TLAPS

(***************************************************************************)
(* Every action keeps the types.                                           *)
(***************************************************************************)
LEMMA InitTypeOK == Init => TypeOK
<1> SUFFICES ASSUME Init PROVE TypeOK
  OBVIOUS
<1>1. pc \in [Calls -> PC] /\ id \in [Calls -> Nat] /\ nextId \in Nat
  BY DEF Init, PC
<1>2. mail \in [Calls -> Message \cup {NoMessage}]
  BY DEF Init
<1> QED BY <1>1, <1>2 DEF Init, TypeOK

LEMMA MessageOfExtra == \A m \in Extras : m \in Message
  BY ExtrasAssumption

LEMMA StepTypeOK == TypeOK /\ [Next]_vars => TypeOK'
<1> SUFFICES ASSUME TypeOK, [Next]_vars PROVE TypeOK'
  OBVIOUS
<1> USE DEF TypeOK, gateway, pipes, child, Goto
<1>1. CASE UNCHANGED vars
  BY <1>1 DEF vars
<1>2. ASSUME NEW c \in Calls, Start(c) PROVE TypeOK'
  BY <1>2 DEF Start, HandOut, Successor, PC, Awaiting
<1>3. ASSUME NEW c \in Calls, Register(c) PROVE TypeOK'
  <2>1. pending' \subseteq Entry
    BY <1>3 DEF Register, Insert, Entry
  <2> QED BY <1>3, <2>1 DEF Register, PC, Awaiting
<1>4. ASSUME NEW c \in Calls, LockStdin(c) PROVE TypeOK'
  BY <1>4 DEF LockStdin, StdinFree, PC, Awaiting
<1>5. ASSUME NEW c \in Calls, WriteLine(c) PROVE TypeOK'
  <2>1. ASSUME NEW b \in BOOLEAN
        PROVE  [id |-> id[c], call |-> c, readable |-> b] \in Frame
    BY DEF Frame
  <2>2. frames' \subseteq Frame
    <3>1. (~torn) \in BOOLEAN
      OBVIOUS
    <3> QED BY <1>5, <2>1, <3>1 DEF WriteLine
  <2> QED BY <1>5, <2>2 DEF WriteLine, Ended, PC, Awaiting
<1>6. ASSUME NEW c \in Calls, WriteFails(c) PROVE TypeOK'
  BY <1>6 DEF WriteFails, PC, Awaiting
<1>7. ASSUME NEW c \in Calls, RemoveAndMarkDead(c) PROVE TypeOK'
  BY <1>7 DEF RemoveAndMarkDead, Remove, PC, Awaiting
<1>8. ASSUME NEW c \in Calls, Clear(c) PROVE TypeOK'
  BY <1>8 DEF Clear, Dropped, PC, Over
<1>9. ASSUME NEW c \in Calls, Receive(c) PROVE TypeOK'
  BY <1>9 DEF Receive, HasMail, PC, Over
<1>10. ASSUME NEW c \in Calls, SenderDropped(c) PROVE TypeOK'
  BY <1>10 DEF SenderDropped, Remove, PC, Over
<1>11. ASSUME NEW c \in Calls, Deadline(c) PROVE TypeOK'
  BY <1>11 DEF Deadline, PC, Over
<1>12. CASE Read
  <2>1. PICK m \in stdout : Read!2!(m)
    BY <1>12 DEF Read
  <2>2. pending' \subseteq Entry
    BY <2>1 DEF Remaining, Addressed
  <2>3. mail' \in [Calls -> Message \cup {NoMessage}]
    BY <2>1
  <2> QED BY <1>12, <2>1, <2>2, <2>3 DEF Read
<1>13. CASE ReaderBreaks
  BY <1>13 DEF ReaderBreaks, Unreadable
<1>14. CASE ReaderClears
  BY <1>14 DEF ReaderClears, Dropped
<1>15. CASE TakeFrame
  BY <1>15 DEF TakeFrame, Frame
<1>16. CASE Reply
  <2>1. PICK f \in working :
          /\ working' = working \ {f}
          /\ stdout' = stdout \cup {[kind |-> "reply", id |-> f.id, for |-> f.call]}
    BY <1>16 DEF Reply
  <2>2. [kind |-> "reply", id |-> f.id, for |-> f.call] \in Message
    BY DEF Frame, Message
  <2> QED BY <1>16, <2>1, <2>2 DEF Reply
<1>17. CASE PrintExtra
  BY <1>17, MessageOfExtra DEF PrintExtra
<1>18. CASE Exit \/ CloseStdin \/ CloseStdout
  BY <1>18 DEF Exit, CloseStdin, CloseStdout
<1> QED
  BY <1>1, <1>2, <1>3, <1>4, <1>5, <1>6, <1>7, <1>8, <1>9, <1>10, <1>11, <1>12,
     <1>13, <1>14, <1>15, <1>16, <1>17, <1>18 DEF Next, Step, Reader, Child

(***************************************************************************)
(* Every action keeps the inductive invariant.  OwnAnswer alone is not     *)
(* inductive: Read may only deliver by id because ids are drawn once and   *)
(* every entry, line and reply carries the id of the call it names.        *)
(***************************************************************************)
LEMMA InitIInv == Init => IInv
<1> SUFFICES ASSUME Init PROVE IInv
  OBVIOUS
<1>1. TypeOK
  BY InitTypeOK
<1>2. IdsAreUnique /\ WriterHoldsLock
  BY NoCallAssumption DEF Init, IdsAreUnique, WriterHoldsLock
<1>3. /\ IdsAreTrue /\ WrittenOnce /\ RepliesAreServed
      /\ OwnAnswer /\ EntryUntilMail /\ LeakOnlyOnTimeout
  BY DEF Init, IdsAreTrue, WrittenOnce, RepliesAreServed, OwnAnswer, NoMessage,
         EntryUntilMail, Registered, LeakOnlyOnTimeout
<1> QED BY <1>1, <1>2, <1>3 DEF IInv

LEMMA StepIInv == IInv /\ [Next]_vars => IInv'
<1> SUFFICES ASSUME IInv, [Next]_vars PROVE IInv'
  OBVIOUS
<1>1. TypeOK /\ TypeOK'
  BY StepTypeOK DEF IInv
<1> USE DEF gateway, pipes, child, Goto, TypeOK
<1>2. ASSUME NEW c \in Calls, Start(c) PROVE IInv'
  <2>1. IdsAreUnique'
    BY <1>1, <1>2 DEF IInv, Start, HandOut, Successor, IdsAreUnique
  <2>2. IdsAreTrue'
    BY <1>1, <1>2 DEF IInv, Start, HandOut, Successor, IdsAreTrue, IdsAreUnique, Entry,
       Frame, Message
  <2>3. WriterHoldsLock'
    BY <1>1, <1>2 DEF IInv, Start, HandOut, Successor, WriterHoldsLock
  <2>4. WrittenOnce'
    BY <1>1, <1>2 DEF IInv, Start, HandOut, Successor, WrittenOnce, Frame
  <2>5. EntryUntilMail'
    BY <1>1, <1>2 DEF IInv, Start, HandOut, Successor, EntryUntilMail, Registered,
       Entry
  <2>6. LeakOnlyOnTimeout'
    BY <1>1, <1>2 DEF IInv, Start, HandOut, Successor, LeakOnlyOnTimeout, Entry,
       Awaiting
  <2>7. RepliesAreServed' /\ OwnAnswer'
    BY <1>2 DEF IInv, Start, HandOut, Successor, RepliesAreServed, OwnAnswer
  <2> QED BY <1>1, <2>1, <2>2, <2>3, <2>4, <2>5, <2>6, <2>7 DEF IInv
<1>3. ASSUME NEW c \in Calls, Register(c) PROVE IInv'
  <2>1. IdsAreUnique'
    BY <1>1, <1>3 DEF IInv, Register, Insert, IdsAreUnique
  <2>2. IdsAreTrue'
    BY <1>1, <1>3 DEF IInv, Register, Insert, IdsAreTrue, IdsAreUnique, Entry,
       Frame, Message
  <2>3. WriterHoldsLock'
    BY <1>1, <1>3 DEF IInv, Register, Insert, WriterHoldsLock
  <2>4. WrittenOnce'
    BY <1>1, <1>3 DEF IInv, Register, Insert, WrittenOnce, Frame
  <2>5. EntryUntilMail'
    BY <1>1, <1>3 DEF IInv, Register, Insert, EntryUntilMail, Registered,
       Entry
  <2>6. LeakOnlyOnTimeout'
    BY <1>1, <1>3 DEF IInv, Register, Insert, LeakOnlyOnTimeout, Entry,
       Awaiting
  <2>7. RepliesAreServed' /\ OwnAnswer'
    BY <1>3 DEF IInv, Register, Insert, RepliesAreServed, OwnAnswer
  <2> QED BY <1>1, <2>1, <2>2, <2>3, <2>4, <2>5, <2>6, <2>7 DEF IInv
<1>4. ASSUME NEW c \in Calls, LockStdin(c) PROVE IInv'
  <2>1. IdsAreUnique'
    BY <1>1, <1>4 DEF IInv, LockStdin, StdinFree, IdsAreUnique
  <2>2. WriterHoldsLock'
    BY <1>1, <1>4, NoCallAssumption DEF IInv, LockStdin, StdinFree, WriterHoldsLock
  <2>3. WrittenOnce'
    BY <1>1, <1>4 DEF IInv, LockStdin, StdinFree, WrittenOnce, Frame
  <2>4. EntryUntilMail'
    BY <1>1, <1>4 DEF IInv, LockStdin, StdinFree, EntryUntilMail, Registered, Entry
  <2>5. LeakOnlyOnTimeout'
    BY <1>1, <1>4 DEF IInv, LockStdin, StdinFree, LeakOnlyOnTimeout, Entry, Awaiting
  <2>6. IdsAreTrue' /\ RepliesAreServed' /\ OwnAnswer'
    BY <1>4 DEF IInv, LockStdin, StdinFree, IdsAreTrue, RepliesAreServed, OwnAnswer
  <2> QED BY <1>1, <2>1, <2>2, <2>3, <2>4, <2>5, <2>6 DEF IInv
<1>5. ASSUME NEW c \in Calls, WriteLine(c) PROVE IInv'
  <2>1. IdsAreUnique'
    BY <1>1, <1>5 DEF IInv, WriteLine, Ended, IdsAreUnique
  <2>2. IdsAreTrue'
    BY <1>1, <1>5 DEF IInv, WriteLine, Ended, IdsAreTrue, IdsAreUnique, Entry,
       Frame, Message
  <2>3. WriterHoldsLock'
    BY <1>1, <1>5, NoCallAssumption DEF IInv, WriteLine, Ended,
       WriterHoldsLock
  <2>4. WrittenOnce'
    BY <1>1, <1>5 DEF IInv, WriteLine, Ended, WrittenOnce, Frame
  <2>5. EntryUntilMail'
    BY <1>1, <1>5 DEF IInv, WriteLine, Ended, EntryUntilMail, Registered,
       Entry
  <2>6. LeakOnlyOnTimeout'
    BY <1>1, <1>5 DEF IInv, WriteLine, Ended, LeakOnlyOnTimeout, Entry,
       Awaiting
  <2>7. RepliesAreServed' /\ OwnAnswer'
    BY <1>5 DEF IInv, WriteLine, Ended, RepliesAreServed, OwnAnswer
  <2> QED BY <1>1, <2>1, <2>2, <2>3, <2>4, <2>5, <2>6, <2>7 DEF IInv
<1>6. ASSUME NEW c \in Calls, WriteFails(c) PROVE IInv'
  <2>1. IdsAreUnique'
    BY <1>1, <1>6 DEF IInv, WriteFails, IdsAreUnique
  <2>2. WriterHoldsLock'
    BY <1>1, <1>6, NoCallAssumption DEF IInv, WriteFails, WriterHoldsLock
  <2>3. WrittenOnce'
    BY <1>1, <1>6 DEF IInv, WriteFails, WrittenOnce, Frame
  <2>4. EntryUntilMail'
    BY <1>1, <1>6 DEF IInv, WriteFails, EntryUntilMail, Registered, Entry
  <2>5. LeakOnlyOnTimeout'
    BY <1>1, <1>6 DEF IInv, WriteFails, LeakOnlyOnTimeout, Entry, Awaiting
  <2>6. IdsAreTrue' /\ RepliesAreServed' /\ OwnAnswer'
    BY <1>6 DEF IInv, WriteFails, IdsAreTrue, RepliesAreServed, OwnAnswer
  <2> QED BY <1>1, <2>1, <2>2, <2>3, <2>4, <2>5, <2>6 DEF IInv
<1>7. ASSUME NEW c \in Calls, RemoveAndMarkDead(c) PROVE IInv'
  <2>1. IdsAreUnique'
    BY <1>1, <1>7 DEF IInv, RemoveAndMarkDead, Remove, IdsAreUnique
  <2>2. IdsAreTrue'
    BY <1>1, <1>7 DEF IInv, RemoveAndMarkDead, Remove, IdsAreTrue,
       IdsAreUnique, Entry, Frame, Message
  <2>3. WriterHoldsLock'
    BY <1>1, <1>7 DEF IInv, RemoveAndMarkDead, Remove, WriterHoldsLock
  <2>4. WrittenOnce'
    BY <1>1, <1>7 DEF IInv, RemoveAndMarkDead, Remove, WrittenOnce, Frame
  <2>5. EntryUntilMail'
    BY <1>1, <1>7 DEF IInv, RemoveAndMarkDead, Remove, EntryUntilMail,
       Registered, Entry
  <2>6. LeakOnlyOnTimeout'
    BY <1>1, <1>7 DEF IInv, RemoveAndMarkDead, Remove, LeakOnlyOnTimeout,
       Entry, Awaiting, IdsAreTrue
  <2>7. RepliesAreServed' /\ OwnAnswer'
    BY <1>7 DEF IInv, RemoveAndMarkDead, Remove, RepliesAreServed, OwnAnswer
  <2> QED BY <1>1, <2>1, <2>2, <2>3, <2>4, <2>5, <2>6, <2>7 DEF IInv
<1>8. ASSUME NEW c \in Calls, Clear(c) PROVE IInv'
  <2>1. IdsAreUnique'
    BY <1>1, <1>8 DEF IInv, Clear, Dropped, IdsAreUnique
  <2>2. IdsAreTrue'
    BY <1>1, <1>8 DEF IInv, Clear, Dropped, IdsAreTrue, IdsAreUnique, Entry,
       Frame, Message
  <2>3. WriterHoldsLock'
    BY <1>1, <1>8 DEF IInv, Clear, Dropped, WriterHoldsLock
  <2>4. WrittenOnce'
    BY <1>1, <1>8 DEF IInv, Clear, Dropped, WrittenOnce, Frame
  <2>5. EntryUntilMail'
    BY <1>1, <1>8 DEF IInv, Clear, Dropped, EntryUntilMail, Registered, Entry
  <2>6. LeakOnlyOnTimeout'
    BY <1>1, <1>8 DEF IInv, Clear, Dropped, LeakOnlyOnTimeout, Entry, Awaiting
  <2>7. RepliesAreServed' /\ OwnAnswer'
    BY <1>8 DEF IInv, Clear, Dropped, RepliesAreServed, OwnAnswer
  <2> QED BY <1>1, <2>1, <2>2, <2>3, <2>4, <2>5, <2>6, <2>7 DEF IInv
<1>9. ASSUME NEW c \in Calls, Receive(c) PROVE IInv'
  <2>1. IdsAreUnique'
    BY <1>1, <1>9 DEF IInv, Receive, HasMail, IdsAreUnique
  <2>2. WriterHoldsLock'
    BY <1>1, <1>9 DEF IInv, Receive, HasMail, WriterHoldsLock
  <2>3. WrittenOnce'
    BY <1>1, <1>9 DEF IInv, Receive, HasMail, WrittenOnce, Frame
  <2>4. EntryUntilMail'
    BY <1>1, <1>9 DEF IInv, Receive, HasMail, EntryUntilMail, Registered, Entry
  <2>5. LeakOnlyOnTimeout'
    BY <1>1, <1>9 DEF IInv, Receive, HasMail, LeakOnlyOnTimeout, Entry, Awaiting,
       EntryUntilMail, Registered
  <2>6. IdsAreTrue' /\ RepliesAreServed' /\ OwnAnswer'
    BY <1>9 DEF IInv, Receive, HasMail, IdsAreTrue, RepliesAreServed, OwnAnswer
  <2> QED BY <1>1, <2>1, <2>2, <2>3, <2>4, <2>5, <2>6 DEF IInv
<1>10. ASSUME NEW c \in Calls, SenderDropped(c) PROVE IInv'
  <2>1. IdsAreUnique'
    BY <1>1, <1>10 DEF IInv, SenderDropped, Remove, IdsAreUnique
  <2>2. IdsAreTrue'
    BY <1>1, <1>10 DEF IInv, SenderDropped, Remove, IdsAreTrue, IdsAreUnique,
       Entry, Frame, Message
  <2>3. WriterHoldsLock'
    BY <1>1, <1>10 DEF IInv, SenderDropped, Remove, WriterHoldsLock
  <2>4. WrittenOnce'
    BY <1>1, <1>10 DEF IInv, SenderDropped, Remove, WrittenOnce, Frame
  <2>5. EntryUntilMail'
    BY <1>1, <1>10 DEF IInv, SenderDropped, Remove, EntryUntilMail,
       Registered, Entry
  <2>6. LeakOnlyOnTimeout'
    BY <1>1, <1>10 DEF IInv, SenderDropped, Remove, LeakOnlyOnTimeout, Entry,
       Awaiting, Registered
  <2>7. RepliesAreServed' /\ OwnAnswer'
    BY <1>10 DEF IInv, SenderDropped, Remove, RepliesAreServed, OwnAnswer
  <2> QED BY <1>1, <2>1, <2>2, <2>3, <2>4, <2>5, <2>6, <2>7 DEF IInv
<1>11. ASSUME NEW c \in Calls, Deadline(c) PROVE IInv'
  <2>1. IdsAreUnique'
    BY <1>1, <1>11 DEF IInv, Deadline, IdsAreUnique, Awaiting
  <2>2. WriterHoldsLock'
    BY <1>1, <1>11, NoCallAssumption DEF IInv, Deadline, WriterHoldsLock
  <2>3. WrittenOnce'
    BY <1>1, <1>11 DEF IInv, Deadline, WrittenOnce, Frame, Awaiting
  <2>4. EntryUntilMail'
    BY <1>1, <1>11 DEF IInv, Deadline, EntryUntilMail, Registered, Entry
  <2>5. LeakOnlyOnTimeout'
    BY <1>1, <1>11 DEF IInv, Deadline, LeakOnlyOnTimeout, Entry, Awaiting
  <2>6. IdsAreTrue' /\ RepliesAreServed' /\ OwnAnswer'
    BY <1>11 DEF IInv, Deadline, IdsAreTrue, RepliesAreServed, OwnAnswer
  <2> QED BY <1>1, <2>1, <2>2, <2>3, <2>4, <2>5, <2>6 DEF IInv
<1>12. CASE Read
  <2>1. PICK m \in stdout : Read!2!(m)
    BY <1>12 DEF Read
  <2>2. IdsAreTrue' /\ LeakOnlyOnTimeout' /\ RepliesAreServed'
    BY <2>1, <1>12 DEF IInv, Read, Remaining, Addressed, IdsAreTrue,
                       LeakOnlyOnTimeout, RepliesAreServed
  <2>3. \A c \in Calls : mail'[c] # mail[c] =>
          /\ mail'[c] = m
          /\ pending' = pending \ Addressed(m)
          /\ \E e \in pending : e.id = m.id /\ e.call = c
    BY <2>1 DEF Remaining, Addressed
  <2>4. OwnAnswer'
    <3> SUFFICES ASSUME NEW c \in Calls, mail'[c].kind = "reply"
                 PROVE  mail'[c].for = c /\ c \in served
      BY <1>12 DEF OwnAnswer, Read
    <3>1. CASE mail'[c] = mail[c]
      BY <3>1 DEF IInv, OwnAnswer
    <3>2. CASE mail'[c] # mail[c]
      <4>1. PICK e \in pending : e.id = m.id /\ e.call = c
        BY <2>3, <3>2
      <4>2. m.for \in Calls /\ m.id = id[m.for] /\ m.id # 0 /\ m.for \in served
        BY <2>3, <3>2 DEF IInv, IdsAreTrue, RepliesAreServed
      <4>3. id[c] = m.id
        BY <4>1 DEF IInv, IdsAreTrue
      <4>4. m.for = c
        BY <4>2, <4>3 DEF IInv, IdsAreUnique
      <4> QED BY <2>3, <3>2, <4>2, <4>4
    <3> QED BY <3>1, <3>2
  <2>5. EntryUntilMail'
    <3>1. ASSUME NEW c \in Calls, mail'[c] # NoMessage PROVE ~Registered(c)'
      <4>1. CASE mail'[c] = mail[c]
        BY <2>1, <3>1, <4>1 DEF Remaining, IInv, EntryUntilMail, Registered
      <4>2. CASE mail'[c] # mail[c]
        <5>1. \A e \in pending : e.call = c => e.id = m.id
          BY <2>3, <4>2 DEF IInv, IdsAreTrue
        <5> QED BY <2>3, <4>2, <5>1 DEF Registered, Addressed
      <4> QED BY <4>1, <4>2
    <3>2. ASSUME NEW c \in Calls, pc[c] \in {"idle", "numbered"}
          PROVE  mail'[c] = NoMessage /\ ~Registered(c)'
      BY <2>1, <2>3, <3>2 DEF Remaining, IInv, EntryUntilMail, Registered
    <3> QED BY <1>12, <3>1, <3>2 DEF EntryUntilMail, Read
  <2>6. IdsAreUnique' /\ WriterHoldsLock' /\ WrittenOnce'
    BY <1>12 DEF IInv, Read, IdsAreUnique, WriterHoldsLock, WrittenOnce
  <2> QED BY <1>1, <2>2, <2>4, <2>5, <2>6 DEF IInv
<1>13. CASE ReaderBreaks
  <2>1. IdsAreTrue'
    BY <1>1, <1>13 DEF IInv, ReaderBreaks, Unreadable, IdsAreTrue, IdsAreUnique, Entry,
       Frame, Message
  <2>2. RepliesAreServed'
    BY <1>1, <1>13 DEF IInv, ReaderBreaks, Unreadable, RepliesAreServed, Frame, Message
  <2>3. IdsAreUnique' /\ WriterHoldsLock' /\ WrittenOnce' /\ OwnAnswer' /\
     EntryUntilMail' /\ LeakOnlyOnTimeout'
    BY <1>13 DEF IInv, ReaderBreaks, Unreadable, IdsAreUnique, WriterHoldsLock,
       WrittenOnce, OwnAnswer, EntryUntilMail, LeakOnlyOnTimeout, Registered
  <2> QED BY <1>1, <2>1, <2>2, <2>3 DEF IInv
<1>14. CASE ReaderClears
  <2>1. IdsAreTrue'
    BY <1>1, <1>14 DEF IInv, ReaderClears, Dropped, IdsAreTrue, IdsAreUnique,
       Entry, Frame, Message
  <2>2. EntryUntilMail'
    BY <1>1, <1>14 DEF IInv, ReaderClears, Dropped, EntryUntilMail,
       Registered, Entry
  <2>3. LeakOnlyOnTimeout'
    BY <1>1, <1>14 DEF IInv, ReaderClears, Dropped, LeakOnlyOnTimeout, Entry,
       Awaiting
  <2>4. IdsAreUnique' /\ WriterHoldsLock' /\ WrittenOnce' /\ RepliesAreServed'
     /\ OwnAnswer'
    BY <1>14 DEF IInv, ReaderClears, Dropped, IdsAreUnique, WriterHoldsLock,
       WrittenOnce, RepliesAreServed, OwnAnswer
  <2> QED BY <1>1, <2>1, <2>2, <2>3, <2>4 DEF IInv
<1>15. CASE TakeFrame
  <2>1. IdsAreTrue'
    BY <1>1, <1>15 DEF IInv, TakeFrame, IdsAreTrue, IdsAreUnique, Entry,
       Frame, Message
  <2>2. WrittenOnce'
    BY <1>1, <1>15 DEF IInv, TakeFrame, WrittenOnce, Frame
  <2>3. RepliesAreServed'
    BY <1>1, <1>15 DEF IInv, TakeFrame, RepliesAreServed, Frame, Message
  <2>4. OwnAnswer'
    BY <1>1, <1>15 DEF IInv, TakeFrame, OwnAnswer, NoMessage
  <2>5. IdsAreUnique' /\ WriterHoldsLock' /\ EntryUntilMail' /\
     LeakOnlyOnTimeout'
    BY <1>15 DEF IInv, TakeFrame, IdsAreUnique, WriterHoldsLock,
       EntryUntilMail, LeakOnlyOnTimeout, Registered
  <2> QED BY <1>1, <2>1, <2>2, <2>3, <2>4, <2>5 DEF IInv
<1>16. CASE Reply
  <2>1. IdsAreTrue'
    BY <1>1, <1>16 DEF IInv, Reply, IdsAreTrue, IdsAreUnique, Entry, Frame,
       Message
  <2>2. WrittenOnce'
    BY <1>1, <1>16 DEF IInv, Reply, WrittenOnce, Frame
  <2>3. RepliesAreServed'
    BY <1>1, <1>16 DEF IInv, Reply, RepliesAreServed, Frame, Message
  <2>4. IdsAreUnique' /\ WriterHoldsLock' /\ OwnAnswer' /\ EntryUntilMail' /\
     LeakOnlyOnTimeout'
    BY <1>16 DEF IInv, Reply, IdsAreUnique, WriterHoldsLock, OwnAnswer,
       EntryUntilMail, LeakOnlyOnTimeout, Registered
  <2> QED BY <1>1, <2>1, <2>2, <2>3, <2>4 DEF IInv
<1>17. CASE PrintExtra
  <2>1. IdsAreTrue'
    BY <1>1, <1>17, ExtrasAssumption DEF IInv, PrintExtra, IdsAreTrue,
       IdsAreUnique, Entry, Frame, Message
  <2>2. RepliesAreServed'
    BY <1>1, <1>17, ExtrasAssumption DEF IInv, PrintExtra, RepliesAreServed,
       Frame, Message
  <2>3. IdsAreUnique' /\ WriterHoldsLock' /\ WrittenOnce' /\ OwnAnswer' /\
     EntryUntilMail' /\ LeakOnlyOnTimeout'
    BY <1>17 DEF IInv, PrintExtra, IdsAreUnique, WriterHoldsLock, WrittenOnce,
       OwnAnswer, EntryUntilMail, LeakOnlyOnTimeout, Registered
  <2> QED BY <1>1, <2>1, <2>2, <2>3 DEF IInv
<1>18. CASE Exit \/ CloseStdin \/ CloseStdout
  <2>1. IdsAreTrue'
    BY <1>1, <1>18 DEF IInv, Exit, CloseStdin, CloseStdout, IdsAreTrue,
       IdsAreUnique, Entry, Frame, Message
  <2>2. WrittenOnce'
    BY <1>1, <1>18 DEF IInv, Exit, CloseStdin, CloseStdout, WrittenOnce, Frame
  <2>3. RepliesAreServed'
    BY <1>1, <1>18 DEF IInv, Exit, CloseStdin, CloseStdout, RepliesAreServed,
       Frame, Message
  <2>4. IdsAreUnique' /\ WriterHoldsLock' /\ OwnAnswer' /\ EntryUntilMail' /\
     LeakOnlyOnTimeout'
    BY <1>18 DEF IInv, Exit, CloseStdin, CloseStdout, IdsAreUnique,
       WriterHoldsLock, OwnAnswer, EntryUntilMail, LeakOnlyOnTimeout,
       Registered
  <2> QED BY <1>1, <2>1, <2>2, <2>3, <2>4 DEF IInv
<1>19. CASE UNCHANGED vars
  BY <1>1, <1>19 DEF vars, IInv, Registered, IdsAreUnique, IdsAreTrue,
     WriterHoldsLock, WrittenOnce, RepliesAreServed, OwnAnswer,
     EntryUntilMail, LeakOnlyOnTimeout
<1> QED
  BY <1>2, <1>3, <1>4, <1>5, <1>6, <1>7, <1>8, <1>9, <1>10, <1>11, <1>12,
     <1>13, <1>14, <1>15, <1>16, <1>17, <1>18, <1>19 DEF Next, Step, Reader,
     Child

(***************************************************************************)
(* The types and the inductive invariant hold throughout.                  *)
(***************************************************************************)
THEOREM Invariance == Spec => []IInv
  BY InitIInv, StepIInv, PTL DEF Spec

\* Every variable keeps its type, whatever the child does and whichever
\* awaits the deadlines cut (the fields of Connection and request()).
THEOREM TypeCorrectness == Spec => []TypeOK
  BY Invariance, PTL DEF IInv

\* No call ever receives the answer of another one: the defect the module
\* header of sidecar.rs names first, for any number of calls, any order of
\* the replies and any deadlines.
THEOREM NoCrossTalk == Spec => []OwnAnswer
  BY Invariance, PTL DEF IInv

\* Whoever leaves request() other than by its deadline has no entry left in
\* the pending map.
THEOREM OnlyTimeoutsLeak == Spec => []LeakOnlyOnTimeout
  BY Invariance, PTL DEF IInv

(***************************************************************************)
(* A child is given up only when it has let go of a pipe or has printed    *)
(* malformed bytes; if it does not do the latter, and never closes stdout  *)
(* alone, nobody is left waiting after the reader has stopped.             *)
(***************************************************************************)
NoGarbage == \A m \in Extras : m.kind # "garbled"

Garbled == \E m \in printed : m.kind = "garbled"

GivenUpInv ==
  /\ \A m \in stdout : m.kind = "garbled" => m \in printed
  /\ reader # "reading" => ~childOut \/ Garbled
  /\ \A c \in Calls : pc[c] = "removing" => ~childIn
  /\ AliveWhileChildServes

TeardownInv == /\ ~childOut => ~childIn
               /\ NoWaiterAfterTeardown

LEMMA StepGivenUp ==
  ASSUME TypeOK, GivenUpInv, [Next]_vars PROVE GivenUpInv'
<1> USE DEF GivenUpInv, Garbled, AliveWhileChildServes, TypeOK, gateway, pipes, child, Goto
<1>1. ASSUME NEW c \in Calls, Start(c) \/ Step(c) \/ WriteLine(c) \/ Deadline(c)
      PROVE  GivenUpInv'
  BY <1>1 DEF Start, HandOut, Step, Register, LockStdin, StdinFree, WriteLine, WriteFails,
              RemoveAndMarkDead, Clear, Receive, HasMail, SenderDropped, Deadline
<1>2. CASE Reader
  BY <1>2 DEF Reader, Read, Remaining, ReaderBreaks, Unreadable, ReaderClears
<1>3. CASE Child
  <2>1. printed \subseteq printed'
    BY <1>3 DEF Child, TakeFrame, Reply, PrintExtra, Exit, CloseStdin, CloseStdout
  <2>2. \A m \in stdout' : m.kind = "garbled" => m \in printed'
    BY <1>3 DEF Child, TakeFrame, Reply, PrintExtra, Exit, CloseStdin, CloseStdout
  <2> QED BY <1>3, <2>1, <2>2 DEF Child, TakeFrame, Reply, PrintExtra, Exit,
                                 CloseStdin, CloseStdout
<1>4. CASE UNCHANGED vars
  BY <1>4 DEF vars
<1> QED BY <1>1, <1>2, <1>3, <1>4 DEF Next

LEMMA StepTeardown ==
  ASSUME NoGarbage, "closeStdout" \notin Faults, TypeOK, GivenUpInv, TeardownInv, [Next]_vars
  PROVE  TeardownInv'
<1>0. reader # "reading" => ~childOut
  BY DEF TypeOK, GivenUpInv, NoGarbage, Garbled
<1> USE <1>0 DEF TeardownInv, NoWaiterAfterTeardown, TypeOK, gateway, pipes,
            child, Goto, Registered
<1>1. ASSUME NEW c \in Calls, Start(c) \/ Register(c) \/ LockStdin(c) \/ WriteFails(c)
      PROVE  TeardownInv'
  BY <1>1 DEF Start, HandOut, Register, Insert, LockStdin, StdinFree, WriteFails
<1>2. ASSUME NEW c \in Calls, WriteLine(c) PROVE TeardownInv'
  <2>1. childIn /\ reader = "reading" /\ reader' = "reading" /\ childOut'
    BY <1>2 DEF WriteLine
  <2> QED BY <2>1
<1>3. ASSUME NEW c \in Calls,
             \/ RemoveAndMarkDead(c) \/ Clear(c) \/ Receive(c)
             \/ SenderDropped(c) \/ Deadline(c)
      PROVE  TeardownInv'
  BY <1>3 DEF RemoveAndMarkDead, Remove, Clear, Dropped, Receive, HasMail, SenderDropped,
              Deadline
<1>4. CASE Reader
  BY <1>4 DEF Reader, Read, Remaining, ReaderBreaks, Unreadable, ReaderClears, Dropped
<1>5. CASE Child
  BY <1>5 DEF Child, TakeFrame, Reply, PrintExtra, Exit, CloseStdin, CloseStdout
<1>6. CASE UNCHANGED vars
  BY <1>6 DEF vars
<1> QED BY <1>1, <1>2, <1>3, <1>4, <1>5, <1>6 DEF Next, Step

\* A connection is given up only for a child that has closed a pipe, exited or
\* printed bytes that are no UTF-8, whatever else it prints (read_responses).
THEOREM GivenUpOnlyForCause == Spec => []AliveWhileChildServes
<1>1. Init => GivenUpInv
  BY DEF Init, GivenUpInv, AliveWhileChildServes
<1>2. TypeOK /\ GivenUpInv /\ [Next]_vars => GivenUpInv'
  BY StepGivenUp
<1>3. GivenUpInv => AliveWhileChildServes
  BY DEF GivenUpInv
<1> QED BY <1>1, <1>2, <1>3, TypeCorrectness, PTL DEF Spec

\* fail_all() leaves no waiter behind when the child exits, although calls
\* register without looking at `alive` again: their write fails.
THEOREM TeardownIsComplete ==
  ASSUME NoGarbage, "closeStdout" \notin Faults
  PROVE  Spec => []NoWaiterAfterTeardown
<1>1. Init => GivenUpInv /\ TeardownInv
  BY DEF Init, GivenUpInv, AliveWhileChildServes, TeardownInv,
         NoWaiterAfterTeardown
<1>2. TypeOK /\ GivenUpInv /\ [Next]_vars => GivenUpInv'
  BY StepGivenUp
<1>3. TypeOK /\ GivenUpInv /\ TeardownInv /\ [Next]_vars => TeardownInv'
  BY StepTeardown
<1>4. TeardownInv => NoWaiterAfterTeardown
  BY DEF TeardownInv
<1> QED BY <1>1, <1>2, <1>3, <1>4, TypeCorrectness, PTL DEF Spec

(***************************************************************************)
(* The connection implements the abstract session.                         *)
(***************************************************************************)
LEMMA InitSession == Init => Session!Init
  BY DEF Init, Session!Init, Status

LEMMA StepSession ==
  ASSUME IInv, [Next]_vars PROVE [Session!Next]_(Session!vars)
<1> USE DEF gateway, pipes, child, Goto, IInv, TypeOK
<1> DEFINE st == [c \in Calls |-> Status(c)]
<1>1. ASSUME UNCHANGED pc PROVE st' = st
  BY <1>1 DEF Status
<1>2. ASSUME NEW c \in Calls, Start(c) PROVE Session!Open(c)
  <2>1. st' = [st EXCEPT ![c] = "open"]
    BY <1>2 DEF Start, HandOut, Status, Awaiting
  <2>2. st[c] = "new" /\ UNCHANGED <<served, alive>>
    BY <1>2 DEF Start, Status
  <2>3. alive \/ \A d \in Calls : st[d] = "new"
    BY <1>2 DEF Start, HandOut, Fresh, Status
  <2> QED BY <2>1, <2>2, <2>3 DEF Session!Open
<1>3. ASSUME NEW c \in Calls,
             Register(c) \/ LockStdin(c) \/ WriteLine(c) \/ WriteFails(c)
      PROVE  UNCHANGED Session!vars
  <2>1. st' = st
    BY <1>3 DEF Register, LockStdin, StdinFree, WriteLine, WriteFails, Status, Awaiting
  <2>2. UNCHANGED <<served, alive>>
    BY <1>3 DEF Register, LockStdin, StdinFree, WriteLine, WriteFails
  <2> QED BY <2>1, <2>2 DEF Session!vars
<1>4. ASSUME NEW c \in Calls, RemoveAndMarkDead(c) PROVE Session!Close
  <2>1. st' = st
    BY <1>4 DEF RemoveAndMarkDead, Status, Awaiting
  <2>2. alive' = FALSE /\ UNCHANGED served
    BY <1>4 DEF RemoveAndMarkDead
  <2> QED BY <2>1, <2>2 DEF Session!Close
<1>5. ASSUME NEW c \in Calls, Clear(c) \/ SenderDropped(c) \/ Deadline(c)
      PROVE  Session!Fail(c)
  <2>1. st' = [st EXCEPT ![c] = "failed"]
    BY <1>5 DEF Clear, SenderDropped, Deadline, Status, Awaiting
  <2>2. st[c] = "open" /\ UNCHANGED <<served, alive>>
    BY <1>5 DEF Clear, SenderDropped, Deadline, Status, Awaiting
  <2> QED BY <2>1, <2>2 DEF Session!Fail
<1>6. ASSUME NEW c \in Calls, Receive(c) PROVE Session!Answer(c) \/ Session!Fail(c)
  <2>1. st[c] = "open" /\ UNCHANGED <<served, alive>>
    BY <1>6 DEF Receive, HasMail, Status, Awaiting
  <2>2. CASE mail[c].kind = "reply"
    <3>1. st' = [st EXCEPT ![c] = "answered"]
      BY <1>6, <2>2 DEF Receive, HasMail, Status, Awaiting
    <3>2. c \in served
      BY <2>2 DEF OwnAnswer
    <3> QED BY <2>1, <3>1, <3>2 DEF Session!Answer
  <2>3. CASE mail[c].kind # "reply"
    <3>1. st' = [st EXCEPT ![c] = "failed"]
      BY <1>6, <2>3 DEF Receive, HasMail, Status, Awaiting
    <3> QED BY <2>1, <3>1 DEF Session!Fail
  <2> QED BY <2>2, <2>3
<1>7. CASE Reader
  <2>1. st' = st /\ UNCHANGED served /\ alive' \in {alive, FALSE}
    BY <1>7, <1>1 DEF Reader, Read, Remaining, ReaderBreaks, Unreadable, ReaderClears
  <2> QED BY <2>1 DEF Session!Next, Session!Close, Session!vars
<1>8. CASE TakeFrame
  <2>1. PICK f \in frames : TakeFrame!2!(f)
    BY <1>8 DEF TakeFrame
  <2>2. st' = st /\ UNCHANGED alive
    BY <1>8, <1>1 DEF TakeFrame
  <2>3. CASE f.readable
    <3>1. f.call \in Calls /\ f.call \notin served /\ pc[f.call] # "idle"
      BY DEF WrittenOnce, Frame
    <3>2. st[f.call] # "new"
      BY <3>1 DEF Status
    <3>3. served' = served \cup {f.call}
      BY <2>1, <2>3
    <3>4. Session!Serve(f.call)
      BY <2>2, <3>1, <3>2, <3>3 DEF Session!Serve
    <3> QED BY <3>1, <3>4 DEF Session!Next
  <2>4. CASE ~f.readable
    BY <2>1, <2>2, <2>4 DEF Session!vars
  <2> QED BY <2>3, <2>4
<1>9. CASE Reply \/ PrintExtra \/ Exit \/ CloseStdin \/ CloseStdout
  <2>1. st' = st /\ UNCHANGED <<served, alive>>
    BY <1>9, <1>1 DEF Reply, PrintExtra, Exit, CloseStdin, CloseStdout
  <2> QED BY <2>1 DEF Session!vars
<1>10. CASE UNCHANGED vars
  BY <1>10, <1>1 DEF vars, Session!vars
<1> QED
  BY <1>2, <1>3, <1>4, <1>5, <1>6, <1>7, <1>8, <1>9, <1>10
     DEF Next, Step, Child, Session!Next

\* A call is opened only while the connection is up, except for the call that
\* made it, executed at most once, and answered only by its own execution.
THEOREM Implementation == Spec => ImplementsSession
  BY InitSession, StepSession, Invariance, PTL
     DEF Spec, ImplementsSession, Session!Spec

(***************************************************************************)
(* Truncated writes.  OneSpoiltPerTimeout is not inductive: a part of a    *)
(* line that still ends stdin will spoil a line that is not yet written,   *)
(* so it counts as one already.                                            *)
(***************************************************************************)
Unread   == {f \in frames : ~f.readable}
TimedOut == {c \in Calls : pc[c] = "timedOut"}
Partial  == IF torn THEN 1 ELSE 0

SpoiltInv ==
  /\ IsFiniteSet(spoilt) /\ IsFiniteSet(Unread) /\ IsFiniteSet(TimedOut)
  /\ Cardinality(spoilt) + Cardinality(Unread) + Partial <= Cardinality(TimedOut)

LEMMA AtMostOneMore ==
  ASSUME NEW S, NEW x, IsFiniteSet(S)
  PROVE  /\ IsFiniteSet(S \cup {x})
         /\ Cardinality(S \cup {x}) \in Nat
         /\ Cardinality(S \cup {x}) <= Cardinality(S) + 1
<1>1. /\ IsFiniteSet(S \cup {x})
      /\ Cardinality(S \cup {x}) = IF x \in S THEN Cardinality(S) ELSE Cardinality(S) + 1
  BY FS_AddElement, Zenon
<1>2. Cardinality(S) \in Nat
  BY FS_CardinalityType, Zenon
<1> QED
  BY <1>1, <1>2

LEMMA InitSpoilt == Init => SpoiltInv
<1> SUFFICES ASSUME Init PROVE SpoiltInv
  OBVIOUS
<1>1. spoilt = {} /\ Unread = {} /\ TimedOut = {} /\ Partial = 0
  BY DEF Init, Unread, TimedOut, Partial
<1> QED
  BY <1>1, FS_EmptySet DEF SpoiltInv

\* A deadline pays for the part of a line it may leave behind.
LEMMA DeadlinePays ==
  ASSUME TypeOK, SpoiltInv, NEW c \in Calls, Deadline(c)
  PROVE  SpoiltInv'
<1>1. c \notin TimedOut /\ TimedOut' = TimedOut \cup {c}
  BY DEF TypeOK, Deadline, Goto, Awaiting, TimedOut
<1>2. IsFiniteSet(TimedOut') /\ Cardinality(TimedOut') = Cardinality(TimedOut) + 1
  <2>1. IsFiniteSet(TimedOut) /\ c \notin TimedOut /\ TimedOut' = TimedOut \cup {c}
    BY <1>1 DEF SpoiltInv
  <2> QED
    BY <2>1, FS_AddElement, Zenon
<1>3. spoilt' = spoilt /\ Unread' = Unread
  BY DEF Deadline, child, Unread
<1>4. Partial \in {0, 1} /\ Partial' \in {0, 1}
  BY DEF Partial
<1>5. /\ Cardinality(spoilt) \in Nat /\ Cardinality(Unread) \in Nat
      /\ Cardinality(TimedOut) \in Nat
  BY FS_CardinalityType DEF SpoiltInv
<1> QED
  BY <1>2, <1>3, <1>4, <1>5 DEF SpoiltInv

\* The newline of the next line ends the part, which spoils that line only.
LEMMA NewlineEndsIt ==
  ASSUME TypeOK, SpoiltInv, NEW c \in Calls, WriteLine(c)
  PROVE  SpoiltInv'
<1> DEFINE line == [id |-> id[c], call |-> c, readable |-> ~torn]
<1>1. TimedOut' = TimedOut /\ spoilt' = spoilt
  BY DEF TypeOK, WriteLine, Goto, TimedOut, child
<1>2. /\ frames' = frames \cup {line} /\ ~torn' /\ torn \in BOOLEAN
      /\ line.readable <=> ~torn
  BY DEF WriteLine, Ended, TypeOK
<1> HIDE DEF line
<1>3. Partial' = 0
  BY <1>2 DEF Partial
<1>4. /\ Cardinality(spoilt) \in Nat /\ Cardinality(Unread) \in Nat
      /\ Cardinality(TimedOut) \in Nat
  BY FS_CardinalityType DEF SpoiltInv
<1>5. CASE torn
  <2>1. Unread' = Unread \cup {line}
    BY <1>2, <1>5 DEF Unread
  <2>2. Partial = 1
    BY <1>5 DEF Partial
  <2>3. IsFiniteSet(Unread)
    BY DEF SpoiltInv
  <2>4. /\ IsFiniteSet(Unread') /\ Cardinality(Unread') \in Nat
        /\ Cardinality(Unread') <= Cardinality(Unread) + 1
    BY <2>1, <2>3, AtMostOneMore, Zenon
  <2> QED
    BY <1>1, <1>3, <1>4, <2>2, <2>4 DEF SpoiltInv
<1>6. CASE ~torn
  <2>1. Unread' = Unread /\ Partial = 0
    BY <1>2, <1>6 DEF Unread, Partial
  <2> QED
    BY <1>1, <1>3, <2>1 DEF SpoiltInv
<1> QED
  BY <1>2, <1>5, <1>6

\* The child reads on behind a line it could not read.
LEMMA TakingSpoilsOne ==
  ASSUME TypeOK, SpoiltInv, TakeFrame
  PROVE  SpoiltInv'
<1>1. PICK f \in frames : TakeFrame!2!(f)
  BY DEF TakeFrame
<1>2. TimedOut' = TimedOut /\ Partial' = Partial
  BY DEF TakeFrame, gateway, TimedOut, Partial
<1>3. /\ Cardinality(spoilt) \in Nat /\ Cardinality(Unread) \in Nat
      /\ Cardinality(TimedOut) \in Nat
  BY FS_CardinalityType DEF SpoiltInv
<1>4. CASE f.readable
  <2>1. Unread' = Unread /\ spoilt' = spoilt
    BY <1>1, <1>4 DEF Unread
  <2> QED
    BY <1>2, <2>1 DEF SpoiltInv
<1>5. CASE ~f.readable
  <2>1. f \in Unread /\ Unread' = Unread \ {f} /\ spoilt' = spoilt \cup {f.call}
    BY <1>1, <1>5 DEF Unread
  <2>2. IsFiniteSet(Unread') /\ Cardinality(Unread') = Cardinality(Unread) - 1
    <3>1. IsFiniteSet(Unread) /\ f \in Unread /\ Unread' = Unread \ {f}
      BY <2>1 DEF SpoiltInv
    <3> QED
      BY <3>1, FS_RemoveElement, Zenon
  <2>3. /\ IsFiniteSet(spoilt') /\ Cardinality(spoilt') \in Nat
        /\ Cardinality(spoilt') <= Cardinality(spoilt) + 1
    <3>1. IsFiniteSet(spoilt)
      BY DEF SpoiltInv
    <3>2. spoilt' = spoilt \cup {f.call}
      BY <2>1
    <3> QED
      BY <3>1, <3>2, AtMostOneMore, Zenon
  <2>4. Partial \in {0, 1}
    BY DEF Partial
  <2> QED
    BY <1>2, <1>3, <2>2, <2>3, <2>4 DEF SpoiltInv
<1> QED
  BY <1>4, <1>5

\* Lines that are lost with the child's stdin spoil nothing.
LEMMA LosingLinesSpoilsNone ==
  ASSUME SpoiltInv, frames' = {}, UNCHANGED <<pc, torn, spoilt>>
  PROVE  SpoiltInv'
<1>1. Unread' = {} /\ TimedOut' = TimedOut /\ Partial' = Partial /\ Partial \in {0, 1}
  BY DEF Unread, TimedOut, Partial
<1>2. /\ Cardinality(spoilt) \in Nat /\ Cardinality(Unread) \in Nat
      /\ Cardinality(TimedOut) \in Nat
  BY FS_CardinalityType DEF SpoiltInv
<1> QED
  BY <1>1, <1>2, FS_EmptySet DEF SpoiltInv

LEMMA StepSpoilt == TypeOK /\ SpoiltInv /\ [Next]_vars => SpoiltInv'
<1> SUFFICES ASSUME TypeOK, SpoiltInv, [Next]_vars PROVE SpoiltInv'
  OBVIOUS
<1> DEFINE Aside == TimedOut' = TimedOut /\ UNCHANGED <<torn, frames, spoilt>>
<1>1. ASSUME Aside PROVE SpoiltInv'
  <2>1. Unread' = Unread /\ Partial' = Partial
    BY <1>1 DEF Unread, Partial
  <2> QED
    BY <1>1, <2>1 DEF SpoiltInv
<1>2. ASSUME NEW c \in Calls, Start(c) \/ Step(c) PROVE Aside
  <2>1. /\ pc[c] # "timedOut" /\ UNCHANGED <<pipes, child>>
        /\ \E label : label # "timedOut" /\ Goto(c, label)
    BY <1>2 DEF Start, Step, Register, LockStdin, WriteFails, RemoveAndMarkDead, Clear,
                Receive, SenderDropped
  <2> QED
    BY <2>1 DEF TypeOK, Goto, TimedOut, pipes, child
<1>3. ASSUME Reader PROVE Aside
  BY <1>3 DEF Reader, Read, ReaderBreaks, ReaderClears, TimedOut, pipes, child
<1>4. ASSUME Reply \/ PrintExtra \/ CloseStdout PROVE Aside
  BY <1>4 DEF Reply, PrintExtra, CloseStdout, TimedOut, pipes, gateway
<1>5. ASSUME Exit \/ CloseStdin PROVE SpoiltInv'
  BY <1>5, LosingLinesSpoilsNone DEF Exit, CloseStdin, gateway
<1>6. ASSUME UNCHANGED vars PROVE Aside
  BY <1>6 DEF vars, gateway, pipes, child, TimedOut
<1> QED
  BY <1>1, <1>2, <1>3, <1>4, <1>5, <1>6, DeadlinePays, NewlineEndsIt, TakingSpoilsOne
     DEF Next, Child

\* However many calls time out in the midst of their writes, each of them costs
\* at most one other call its line, since write_line ends every line with a newline.
THEOREM WritesAreFramed == Spec => []OneSpoiltPerTimeout
<1>1. SpoiltInv => OneSpoiltPerTimeout
  <2> SUFFICES ASSUME SpoiltInv PROVE OneSpoiltPerTimeout
    OBVIOUS
  <2>1. /\ Cardinality(spoilt) \in Nat /\ Cardinality(Unread) \in Nat
        /\ Cardinality(TimedOut) \in Nat /\ Partial \in {0, 1}
    BY FS_CardinalityType DEF SpoiltInv, Partial
  <2> QED
    BY <2>1 DEF SpoiltInv, OneSpoiltPerTimeout, Unread, TimedOut
<1>2. IInv => TypeOK
  BY DEF IInv
<1> QED
  BY Invariance, InitSpoilt, StepSpoilt, <1>1, <1>2, PTL DEF Spec
=============================================================================
