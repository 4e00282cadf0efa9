----------------------------- MODULE ProxyProofs -----------------------------
(***************************************************************************)
(* What status() reports of a proxy is current, however many exchanges and *)
(* readers there are and wherever they are dropped.                        *)
(***************************************************************************)
EXTENDS Proxy, TLAPS

\* The words status() has, for the values the two fields take.
LEMMA ShownIsAWord ==
  ASSUME NEW errors \in {{}} \cup {{e} : e \in Errors}, NEW been \in BOOLEAN
  PROVE  Shown(errors, been) \in Words
<1>1. CASE errors = {}
  BY <1>1 DEF Shown, Words
<1>2. CASE \E e \in Errors : errors = {e}
  <2>1. PICK e \in Errors : errors = {e}
    BY <1>2
  <2>2. (CHOOSE x \in errors : TRUE) = e
    BY <2>1
  <2> QED
    BY <2>1, <2>2 DEF Shown, Words
<1> QED
  BY <1>1, <1>2

\* What interpret() makes of any reply is an outcome record() knows.
LEMMA OutcomeOfReply ==
  ASSUME NEW reply \in Replies
  PROVE  interpret(reply) \in {"ok"} \cup Errors
<1>1. reply.kind \in {"unreachable", "status", "cut", "body"}
  BY DEF Replies
<1> QED
  BY <1>1 DEF interpret, Errors

LEMMA OutcomeOfTimeOut == interpret([kind |-> "unreachable"]) \in {"ok"} \cup Errors
BY DEF interpret, Errors

LEMMA Initially == ProxyInit => PInv
BY DEF ProxyInit, PInv, ProxyTypeOK, ContactComesFirst, OutcomesAreKnown, ReadersKeepUp,
       ReportIsCurrent, Words, Resting

-----------------------------------------------------------------------------
\* A user who only moves, with what it has got, leaves the fields alone.
LEMMA InterpretKeeps ==
  ASSUME PInv, NEW u \in Users, NEW reply,
         interpret(reply) \in {"ok"} \cup Errors, Interpret(u, reply)
  PROVE  PInv'
BY DEF PInv, ProxyTypeOK, ContactComesFirst, OutcomesAreKnown, ReadersKeepUp,
       ReportIsCurrent, Interpret, Move, Resting, AwaitsProxy, Words

LEMMA LeavingKeeps ==
  ASSUME PInv, NEW u \in Users, Send(u) \/ Drop(u) \/ Leave(u)
  PROVE  PInv'
BY DEF PInv, ProxyTypeOK, ContactComesFirst, OutcomesAreKnown, ReadersKeepUp,
       ReportIsCurrent, Send, Drop, Leave, Move, Resting, AwaitsProxy

LEMMA AskKeeps ==
  ASSUME PInv, NEW u \in Users, Ask(u)
  PROVE  PInv'
<1> USE DEF Ask, Move, Resting, AwaitsProxy
<1>1. Shown(last_error, contacted) \in Words
  BY ShownIsAWord DEF PInv, ProxyTypeOK
<1>2. ProxyTypeOK'
  BY <1>1 DEF PInv, ProxyTypeOK
<1>3. ContactComesFirst' /\ OutcomesAreKnown'
  BY DEF PInv, ProxyTypeOK, ContactComesFirst, OutcomesAreKnown
<1>4. ReadersKeepUp'
  BY DEF PInv, ProxyTypeOK, ReadersKeepUp
<1>5. ReportIsCurrent'
  BY DEF PInv, ProxyTypeOK, ReportIsCurrent
<1> QED
  BY <1>2, <1>3, <1>4, <1>5 DEF PInv

\* The two reads of status().
LEMMA ReadKeeps ==
  ASSUME PInv, NEW u \in Users, ReadError(u) \/ ReadContacted(u)
  PROVE  PInv'
<1> USE DEF ReadError, ReadContacted, Move, Resting, AwaitsProxy
<1>1. Shown(last_error, contacted) \in Words /\ Shown({}, contacted) \in Words
  BY ShownIsAWord DEF PInv, ProxyTypeOK
<1>2. ProxyTypeOK'
  BY <1>1 DEF PInv, ProxyTypeOK
<1>3. ContactComesFirst' /\ OutcomesAreKnown'
  BY DEF PInv, ProxyTypeOK, ContactComesFirst, OutcomesAreKnown
<1>4. ReadersKeepUp'
  BY DEF PInv, ProxyTypeOK, ReadersKeepUp, Shown
<1>5. ReportIsCurrent'
  BY DEF PInv, ProxyTypeOK, ReadersKeepUp, ReportIsCurrent
<1> QED
  BY <1>2, <1>3, <1>4, <1>5 DEF PInv

-----------------------------------------------------------------------------
\* record() and its first write: the contact.
LEMMA RecordFirstKeeps ==
  ASSUME PInv, NEW u \in Users, RecordFirst(u)
  PROVE  PInv'
<1> USE DEF RecordFirst, Write, Fields, Move, Reading
<1>1. contacted' = TRUE /\ last_error' = last_error /\ got' = got
  OBVIOUS
<1>2. Shown(last_error', contacted') \in Words
  BY <1>1, ShownIsAWord DEF PInv, ProxyTypeOK
<1>3. ProxyTypeOK'
  BY <1>1, <1>2 DEF PInv, ProxyTypeOK, AwaitsProxy
<1>4. ContactComesFirst' /\ OutcomesAreKnown'
  BY <1>1 DEF PInv, ProxyTypeOK, ContactComesFirst, OutcomesAreKnown
<1>5. ASSUME NEW r \in Users
      PROVE  /\ (at[r] = "asking")' => Shown(last_error', contacted') \in seen'[r]
             /\ (at[r] = "asked")' => Shown({}, contacted') \in seen'[r]
  <2>1. CASE last_error = {}
    BY <1>1, <2>1 DEF PInv, ProxyTypeOK
  <2>2. CASE last_error # {}
    BY <1>1, <2>2 DEF PInv, ProxyTypeOK, ContactComesFirst, ReadersKeepUp
  <2> QED
    BY <2>1, <2>2
<1>6. ReportIsCurrent'
  BY <1>1 DEF PInv, ProxyTypeOK, ReportIsCurrent
<1> QED
  BY <1>3, <1>4, <1>5, <1>6 DEF PInv, ReadersKeepUp

\* Its second write: the error, set or cleared.
LEMMA RecordSecondKeeps ==
  ASSUME PInv, NEW u \in Users, RecordSecond(u)
  PROVE  PInv'
<1> USE DEF RecordSecond, Write, Fields, Move, Reading
<1>1. contacted = TRUE /\ contacted' = TRUE /\ got' = got
  BY DEF PInv, ContactComesFirst
<1>2. last_error' \in {{}} \cup {{e} : e \in Errors}
  BY DEF PInv, OutcomesAreKnown, Noted
<1>3. Shown(last_error', contacted') \in Words
  BY <1>1, <1>2, ShownIsAWord
<1>4. ProxyTypeOK'
  BY <1>1, <1>2, <1>3 DEF PInv, ProxyTypeOK, Resting
<1>5. ContactComesFirst' /\ OutcomesAreKnown'
  BY <1>1 DEF PInv, ProxyTypeOK, ContactComesFirst, OutcomesAreKnown
<1>6. ReadersKeepUp'
  BY <1>1 DEF PInv, ProxyTypeOK, ReadersKeepUp
<1>7. ReportIsCurrent'
  BY <1>1 DEF PInv, ProxyTypeOK, ReportIsCurrent
<1> QED
  BY <1>4, <1>5, <1>6, <1>7 DEF PInv

-----------------------------------------------------------------------------
\* The inductive invariant of any number of exchanges and reports.
THEOREM Invariance == ProxySpec => []PInv
<1>1. ASSUME PInv, [ProxyNext]_proxy
      PROVE  PInv'
  <2>1. CASE ProxyNext
    <3>1. PICK u \in Users : \/ Send(u) \/ Ask(u) \/ Drop(u) \/ Leave(u) \/ ProxyStep(u)
                             \/ \E reply \in Replies : Interpret(u, reply)
      BY <2>1 DEF ProxyNext
    <3>2. CASE Send(u) \/ Drop(u) \/ Leave(u)
      BY <1>1, <3>2, LeavingKeeps
    <3>3. CASE Ask(u)
      BY <1>1, <3>3, AskKeeps
    <3>4. CASE ReadError(u) \/ ReadContacted(u)
      BY <1>1, <3>4, ReadKeeps
    <3>5. CASE RecordFirst(u)
      BY <1>1, <3>5, RecordFirstKeeps
    <3>6. CASE RecordSecond(u)
      BY <1>1, <3>6, RecordSecondKeeps
    <3>7. CASE TimeOut(u)
      BY <1>1, <3>7, InterpretKeeps, OutcomeOfTimeOut DEF TimeOut
    <3>8. CASE \E reply \in Replies : Interpret(u, reply)
      BY <1>1, <3>8, InterpretKeeps, OutcomeOfReply
    <3> QED
      BY <3>1, <3>2, <3>3, <3>4, <3>5, <3>6, <3>7, <3>8 DEF ProxyStep
  <2>2. CASE UNCHANGED proxy
    BY <1>1, <2>2 DEF proxy, PInv, ProxyTypeOK, ContactComesFirst, OutcomesAreKnown,
       ReadersKeepUp, ReportIsCurrent, Shown
  <2> QED
    BY <1>1, <2>1, <2>2
<1> QED
  BY Initially, <1>1, PTL DEF ProxySpec

\* A report is never older than the reader: it names a state the proxy was in
\* while status() ran, although record() and status() lock field by field.
THEOREM ReportsAreCurrent == ProxySpec => []ReportIsCurrent
<1>1. PInv => ReportIsCurrent
  BY DEF PInv
<1> QED
  BY Invariance, <1>1, PTL
=============================================================================
