----------------------------- MODULE StdioProofs -----------------------------
(***************************************************************************)
(* Every answer of the stdio transport reaches the client exactly once,    *)
(* for any number of lines and any depth of the channel.                   *)
(***************************************************************************)
EXTENDS Stdio, FiniteSetTheorems, TLAPS

(***************************************************************************)
(* How often a number occurs in the channel.                               *)
(***************************************************************************)
Places(s, n) == {i \in DOMAIN s : s[i] = n}

LEMMA PlacesAreFinite ==
  ASSUME NEW s \in Seq(Numbers), NEW n
  PROVE  IsFiniteSet(Places(s, n)) /\ Cardinality(Places(s, n)) \in Nat
<1>1. IsFiniteSet(1 .. Len(s))
  BY FS_Interval
<1>2. Places(s, n) \in SUBSET (1 .. Len(s))
  BY DEF Places
<1>3. IsFiniteSet(Places(s, n))
  BY <1>1, <1>2, FS_Subset
<1> QED
  BY <1>3, FS_CardinalityType

LEMMA OccurrencesType ==
  ASSUME NEW s \in Seq(Numbers), NEW n
  PROVE  Occurrences(s, n) \in Nat
BY PlacesAreFinite DEF Occurrences, Places

LEMMA OccurrencesEmpty ==
  ASSUME NEW n
  PROVE  Occurrences(<<>>, n) = 0
<1>1. {i \in DOMAIN <<>> : <<>>[i] = n} = {}
  OBVIOUS
<1> QED
  BY <1>1, FS_EmptySet DEF Occurrences

LEMMA OccurrencesAppend ==
  ASSUME NEW s \in Seq(Numbers), NEW m \in Numbers, NEW n
  PROVE  Occurrences(Append(s, m), n) = Occurrences(s, n) + (IF m = n THEN 1 ELSE 0)
<1>1. IsFiniteSet(Places(s, n)) /\ Cardinality(Places(s, n)) \in Nat
  BY PlacesAreFinite
<1>2. CASE m = n
  <2>1. Places(Append(s, m), n) = Places(s, n) \cup {Len(s) + 1}
    BY <1>2 DEF Places
  <2>2. Len(s) + 1 \notin Places(s, n)
    BY DEF Places
  <2>3. Cardinality(Places(Append(s, m), n)) = Cardinality(Places(s, n)) + 1
    BY <1>1, <2>1, <2>2, FS_AddElement
  <2> QED
    BY <1>2, <2>3 DEF Occurrences, Places
<1>3. CASE m # n
  <2>1. Places(Append(s, m), n) = Places(s, n)
    BY <1>3 DEF Places
  <2> QED
    <3>1. Occurrences(Append(s, m), n) = Occurrences(s, n)
      BY <2>1 DEF Occurrences, Places
    <3> QED
      BY <3>1, <1>3, OccurrencesType
<1> QED
  BY <1>2, <1>3

LEMMA OccurrencesTail ==
  ASSUME NEW s \in Seq(Numbers), s # <<>>, NEW n
  PROVE  Occurrences(s, n) = Occurrences(Tail(s), n) + (IF Head(s) = n THEN 1 ELSE 0)
<1> DEFINE Later == {i \in 2 .. Len(s) : s[i] = n}
           shift == [i \in Places(Tail(s), n) |-> i + 1]
<1>0. Tail(s) \in Seq(Numbers) /\ Len(s) \in Nat /\ Len(s) > 0
  OBVIOUS
<1>1. IsFiniteSet(Places(Tail(s), n)) /\ Cardinality(Places(Tail(s), n)) \in Nat
  BY <1>0, PlacesAreFinite
<1>2. shift \in Bijection(Places(Tail(s), n), Later)
  <2>1. \A i \in Places(Tail(s), n) : i \in Nat /\ i + 1 \in Later
    BY DEF Places
  <2>2. \A j \in Later : j - 1 \in Places(Tail(s), n) /\ (j - 1) + 1 = j
    BY DEF Places
  <2>3. shift \in Injection(Places(Tail(s), n), Later)
    BY <2>1 DEF Injection, IsInjective
  <2>4. shift \in Surjection(Places(Tail(s), n), Later)
    BY <2>1, <2>2 DEF Surjection
  <2> QED
    BY <2>3, <2>4 DEF Bijection
<1>3. IsFiniteSet(Later) /\ Cardinality(Later) = Cardinality(Places(Tail(s), n))
  BY <1>1, <1>2, FS_Bijection DEF ExistsBijection
<1>4. CASE Head(s) = n
  <2>1. Places(s, n) = Later \cup {1} /\ 1 \notin Later
    BY <1>0, <1>4 DEF Places
  <2> QED
    BY <1>1, <1>3, <1>4, <2>1, FS_AddElement DEF Occurrences, Places
<1>5. CASE Head(s) # n
  <2>1. Places(s, n) = Later
    BY <1>0, <1>5 DEF Places
  <2> QED
    <3>1. Occurrences(s, n) = Cardinality(Later)
      BY <2>1 DEF Occurrences, Places
    <3>2. Occurrences(Tail(s), n) = Cardinality(Later)
      BY <1>3 DEF Occurrences, Places
    <3> HIDE DEF Later, shift
    <3> QED
      BY <1>1, <1>3, <1>5, <3>1, <3>2
<1> QED
  BY <1>4, <1>5

LEMMA QueuedType ==
  ASSUME TypeOK, NEW n \in Numbers
  PROVE  Queued(n) \in Nat
BY OccurrencesType DEF TypeOK, Queued

\* As many answers wait as channel and writer hold.
LEMMA FewWait ==
  ASSUME NEW s \in Seq(Numbers), NEW w, NEW S,
         \A n \in S : n = w \/ \E i \in DOMAIN s : s[i] = n
  PROVE  Cardinality(S) \in Nat /\ Cardinality(S) <= Len(s) + 1
<1> DEFINE R == {s[i] : i \in 1 .. Len(s)}
<1>0. Len(s) \in Nat
  OBVIOUS
<1>1. IsFiniteSet(1 .. Len(s)) /\ Cardinality(1 .. Len(s)) = Len(s)
  BY <1>0, FS_Interval
<1>2. IsFiniteSet(R) /\ Cardinality(R) <= Len(s)
  <2>1. s \in Surjection(1 .. Len(s), R)
    BY DEF Surjection
  <2>2. IsFiniteSet(R) /\ Cardinality(R) <= Cardinality(1 .. Len(s))
    BY <1>1, <2>1, FS_Surjection, Zenon
  <2> QED
    BY <1>1, <2>2
<1> HIDE DEF R
<1>3. /\ IsFiniteSet(R \cup {w})
      /\ Cardinality(R \cup {w}) = IF w \in R THEN Cardinality(R) ELSE Cardinality(R) + 1
  BY <1>2, FS_AddElement, Zenon
<1>4. S \in SUBSET (R \cup {w})
  BY DEF R
<1>5. IsFiniteSet(S) /\ Cardinality(S) <= Cardinality(R \cup {w})
  BY <1>3, <1>4, FS_Subset
<1>6. Cardinality(S) \in Nat /\ Cardinality(R) \in Nat /\ Cardinality(R \cup {w}) \in Nat
  BY <1>2, <1>3, <1>5, FS_CardinalityType
<1> QED
  BY <1>0, <1>2, <1>3, <1>5, <1>6

LEMMA OccursSomewhere ==
  ASSUME NEW s \in Seq(Numbers), NEW n, Occurrences(s, n) # 0
  PROVE  \E i \in DOMAIN s : s[i] = n
<1> SUFFICES ASSUME \A i \in DOMAIN s : s[i] # n PROVE Occurrences(s, n) = 0
  OBVIOUS
<1>1. {i \in DOMAIN s : s[i] = n} = {}
  OBVIOUS
<1> QED
  BY <1>1, FS_EmptySet DEF Occurrences

LEMMA FewUnwritten ==
  ASSUME TypeOK',
         \A n \in Numbers : HandedOver(n)' => answers'[n] + Queued(n)' = 1
  PROVE  Cardinality(Unwritten') <= ChannelDepth + 1
<1>1. outbox' \in Seq(Numbers) /\ Len(outbox') <= ChannelDepth
  BY DEF TypeOK
<1>2. ASSUME NEW n \in Unwritten'
      PROVE  n = writing' \/ \E i \in DOMAIN outbox' : outbox'[i] = n
  <2>1. n \in Numbers /\ HandedOver(n)' /\ answers'[n] = 0
    BY <1>2 DEF Unwritten
  <2>2. Queued(n)' = 1 \/ Queued(n)' # 0
    <3>1. Queued(n)' \in Nat
      <4>1. Occurrences(outbox', n) \in Nat
        BY <1>1, OccurrencesType
      <4> QED
        BY <4>1 DEF Queued, Occurrences
    <3> QED
      BY <2>1, <3>1
  <2>3. CASE n # writing'
    <3>1. Occurrences(outbox', n) # 0
      <4>1. Queued(n)' = Occurrences(outbox', n) + (IF writing' = n THEN 1 ELSE 0)
        BY DEF Queued, Occurrences
      <4>2. answers'[n] + Queued(n)' = 1
        BY <2>1
      <4> QED
        BY <2>1, <2>3, <4>1, <4>2
    <3> QED
      BY <1>1, <3>1, OccursSomewhere
  <2> QED
    BY <2>3
<1>3. Cardinality(Unwritten') \in Nat /\ Cardinality(Unwritten') <= Len(outbox') + 1
  BY <1>1, <1>2, FewWait
<1> QED
  BY <1>1, <1>3, DepthAssumption

-----------------------------------------------------------------------------
(***************************************************************************)
(* The reader.                                                             *)
(***************************************************************************)
LEMMA InitiallyIInv == Init => IInv
<1> SUFFICES ASSUME Init PROVE IInv
  OBVIOUS
<1> USE DepthAssumption, LinesAssumption DEF Init
<1>1. TypeOK
  BY DEF TypeOK, ReaderStates, HandlerStates
<1>2. SendersAreOpen /\ TasksMatchLines
  BY DEF SendersAreOpen, TasksMatchLines, InFlight, Numbers
<1>3. \A n \in Numbers : Queued(n) = 0 /\ ~HandedOver(n) /\ ~Asks(n)
  BY OccurrencesEmpty DEF Queued, HandedOver, Asks, Numbers
<1>4. AnsweredOnce
  BY <1>3 DEF AnsweredOnce
<1>5. Cardinality(Unwritten) = 0
  <2>1. Unwritten = {}
    BY <1>3 DEF Unwritten
  <2> QED
    BY <2>1, FS_EmptySet
<1>6. NothingLost
  BY <1>3, <1>5 DEF NothingLost
<1> QED
  BY <1>1, <1>2, <1>4, <1>6 DEF IInv

\* What is known after a step that neither answers nor hands anything over.
LEMMA TallyKept ==
  ASSUME IInv, TypeOK', UNCHANGED <<outbox, writing, answers>>,
         \A n \in Numbers : HandedOver(n)' <=> HandedOver(n),
         writer' # "broken" => writer # "broken",
         reader # "exited", reader' \notin {"done", "exited"}
  PROVE  AnsweredOnce' /\ NothingLost'
<1>1. \A n \in Numbers : Queued(n)' = Queued(n)
  BY DEF Queued, Occurrences
<1>2. AnsweredOnce'
  BY <1>1 DEF IInv, AnsweredOnce
<1>3. ASSUME writer' # "broken"
      PROVE  \A n \in Numbers : HandedOver(n)' => answers'[n] + Queued(n)' = 1
  BY <1>1, <1>3 DEF IInv, NothingLost
<1> QED
  BY <1>2, <1>3, FewUnwritten DEF NothingLost

LEMMA ReadKeeps ==
  ASSUME IInv, Skip \/ Spawn \/ Malformed \/ BadBytes
  PROVE  IInv'
<1> USE LinesAssumption DEF IInv, Kinds
<1>1. PICK k \in Kinds : /\ reader = "reading" /\ Len(lines) < MaxLines
                         /\ lines' = Append(lines, k)
                         /\ UNCHANGED <<outbox, writing, writer, answers>>
                         /\ reader' = IF k = "malformed" THEN "replying"
                                      ELSE IF k = "notUtf8" THEN "failed" ELSE reader
                         /\ handler' = IF k \in {"request", "notification"}
                              THEN [handler EXCEPT ![Len(lines) + 1] = "running"]
                              ELSE handler
  <2>1. CASE Skip
    BY <2>1 DEF Skip, ReadLine
  <2>2. CASE Spawn
    BY <2>2 DEF Spawn, ReadLine
  <2>3. CASE Malformed
    BY <2>3 DEF Malformed, ReadLine, Salvaged
  <2>4. CASE BadBytes
    BY <2>4 DEF BadBytes, ReadLine
  <2> QED
    BY <2>1, <2>2, <2>3, <2>4
<1>2. /\ Len(lines) \in Nat /\ Len(lines') = Len(lines) + 1
      /\ lines' \in Seq(Kinds)
      /\ lines'[Len(lines) + 1] = k
      /\ \A i \in 1 .. Len(lines) : lines'[i] = lines[i]
      /\ Len(lines) + 1 \in Numbers
  BY <1>1 DEF TypeOK, Numbers
<1>3. TypeOK'
  BY <1>1, <1>2 DEF TypeOK, ReaderStates, HandlerStates
<1>4. SendersAreOpen'
  BY <1>1 DEF SendersAreOpen
<1>5. TasksMatchLines'
  <2>1. (reader = "replying" => Last > 0 /\ lines[Last] = "malformed")'
    BY <1>1, <1>2 DEF Last
  <2>3. (reader = "failed" => CutShort)'
    <3> SUFFICES ASSUME reader' = "failed" PROVE CutShort'
      OBVIOUS
    <3>1. k = "notUtf8"
      BY <1>1
    <3>2. Len(lines') \in DOMAIN lines' /\ lines'[Len(lines')] = "notUtf8"
      BY <1>2, <3>1
    <3> QED
      BY <3>2 DEF CutShort
  <2>2. ASSUME NEW n \in Numbers
        PROVE  /\ n > Len(lines') => handler'[n] = "none"
               /\ n <= Len(lines') =>
                    (handler'[n] = "none" <=> lines'[n] \notin {"request", "notification"})
               /\ handler'[n] \in {"sending", "unsent"} => lines'[n] = "request"
               /\ handler'[n] \in {"aborted", "unsent"} => reader' \in {"failed", "exited"}
    <3>0. handler \in [Numbers -> HandlerStates]
      BY DEF TypeOK
    <3>1. CASE n = Len(lines) + 1
      BY <1>1, <1>2, <3>0, <3>1 DEF TasksMatchLines, Numbers
    <3>2. CASE n # Len(lines) + 1
      <4>1. handler'[n] = handler[n]
        BY <1>1, <3>0, <3>2
      <4>2. n <= Len(lines) => lines'[n] = lines[n]
        BY <1>2 DEF Numbers
      <4>3. n > Len(lines) <=> n > Len(lines')
        BY <1>2, <3>2 DEF Numbers
      <4>4. n \in Nat
        BY DEF Numbers
      <4>5. /\ n > Len(lines) => handler[n] = "none"
            /\ n <= Len(lines) =>
                 (handler[n] = "none" <=> lines[n] \notin {"request", "notification"})
            /\ handler[n] \in {"sending", "unsent"} => lines[n] = "request"
            /\ handler[n] \notin {"aborted", "unsent"}
        BY <1>1 DEF TasksMatchLines
      <4>6. n > Len(lines) \/ n <= Len(lines)
        BY <1>2, <4>4
      <4>7. CASE n > Len(lines)
        BY <1>2, <4>1, <4>3, <4>4, <4>5, <4>7
      <4>8. CASE n <= Len(lines)
        BY <1>2, <4>1, <4>2, <4>3, <4>4, <4>5, <4>8
      <4> QED
        BY <4>6, <4>7, <4>8
    <3> QED
      BY <3>1, <3>2
  <2> QED
    BY <2>1, <2>2, <2>3 DEF TasksMatchLines
<1>6. ASSUME NEW n \in Numbers
      PROVE  HandedOver(n)' <=> HandedOver(n)
  <2>0. handler \in [Numbers -> HandlerStates] /\ n \in Nat
    BY DEF TypeOK, Numbers
  <2>1. CASE n = Len(lines) + 1
    <3>1. ~HandedOver(n)
      BY <1>2, <2>1 DEF HandedOver, Asks
    <3>2. lines'[n] = k /\ n = Len(lines')
      BY <1>2, <2>1
    <3>3. handler'[n] # "over"
      <4>1. handler[n] = "none"
        BY <1>2, <2>0, <2>1 DEF TasksMatchLines
      <4> QED
        BY <1>1, <2>0, <2>1, <4>1
    <3>4. k = "malformed" => reader' = "replying"
      BY <1>1
    <3> QED
      BY <3>1, <3>2, <3>3, <3>4 DEF HandedOver, Asks, Last
  <2>2. CASE n # Len(lines) + 1
    <3>1. handler'[n] = handler[n]
      BY <1>1, <2>0, <2>2
    <3>2. n <= Len(lines) => lines'[n] = lines[n]
      BY <1>2 DEF Numbers
    <3>3. n <= Len(lines) <=> n <= Len(lines')
      BY <1>2, <2>2, <2>0
    <3> QED
      BY <1>1, <1>2, <2>0, <2>2, <3>1, <3>2, <3>3 DEF HandedOver, Asks, Last
  <2> QED
    BY <2>1, <2>2
<1>7. AnsweredOnce' /\ NothingLost'
  BY <1>1, <1>3, <1>6, TallyKept
<1> QED
  BY <1>3, <1>4, <1>5, <1>7

LEMMA ReaderMovesKeep ==
  ASSUME IInv, EndOfInput \/ CloseOutbox
  PROVE  IInv'
<1> USE DEF EndOfInput, CloseOutbox
<1>1. /\ UNCHANGED <<lines, handler, outbox, writing, writer, answers>>
      /\ reader' \in {"draining", "closing"}
      /\ reader \notin {"replying", "exited"}
  BY DEF ReaderStates
<1>2. TypeOK'
  BY <1>1 DEF IInv, TypeOK, ReaderStates
<1>3. SendersAreOpen'
  BY DEF IInv, SendersAreOpen, InFlight, Drained
<1>4. TasksMatchLines'
  BY DEF IInv, TasksMatchLines, Last, CutShort
<1>5. \A n \in Numbers : HandedOver(n)' <=> HandedOver(n)
  BY <1>1 DEF HandedOver, Asks, Last
<1> QED
  BY <1>1, <1>2, <1>3, <1>4, <1>5, TallyKept DEF IInv

\* The process ends.  If the input had ended nothing was left to write; what a
\* session cut short takes with it was in the channel and at the writer.
LEMMA ExitKeeps ==
  ASSUME IInv, Exit
  PROVE  IInv'
<1>1. /\ UNCHANGED <<lines, handler, writer>>
      /\ reader \in {"done", "failed"} /\ reader' = "exited"
      /\ outbox' = <<>> /\ writing' = 0
  BY DEF Exit
<1>2. ASSUME NEW n \in Numbers
      PROVE  /\ answers'[n] \in Nat /\ Queued(n)' = 0
             /\ answers[n] <= answers'[n] /\ answers'[n] <= answers[n] + Queued(n)
  <2>1. Queued(n)' = 0
    BY <1>1, OccurrencesEmpty DEF Queued, Occurrences, Numbers
  <2>2. answers \in [Numbers -> Nat] /\ Occurrences(outbox, n) \in Nat
    BY OccurrencesType DEF IInv, TypeOK
  <2>3. answers'[n] = answers[n] \/ (writing = n /\ answers'[n] = answers[n] + 1)
    BY <2>2 DEF Exit
  <2> QED
    BY <2>1, <2>2, <2>3 DEF Queued
<1>3. TypeOK'
  <2>1. answers' \in [Numbers -> Nat]
    BY DEF Exit, IInv, TypeOK
  <2> QED
    BY <1>1, <2>1, DepthAssumption DEF IInv, TypeOK, ReaderStates
<1>4. SendersAreOpen'
  BY <1>1 DEF IInv, SendersAreOpen, InFlight
<1>5. TasksMatchLines'
  BY <1>1 DEF IInv, TasksMatchLines, Last, CutShort
<1>6. \A n \in Numbers : HandedOver(n)' <=> HandedOver(n)
  BY <1>1 DEF HandedOver, Asks, Last
<1>7. AnsweredOnce'
  <2> SUFFICES ASSUME NEW n \in Numbers
               PROVE  answers'[n] + Queued(n)' <= IF HandedOver(n)' THEN 1 ELSE 0
    BY DEF AnsweredOnce
  <2>1. answers[n] + Queued(n) <= IF HandedOver(n) THEN 1 ELSE 0
    BY DEF IInv, AnsweredOnce
  <2>2. answers[n] \in Nat /\ Queued(n) \in Nat
    BY QueuedType DEF IInv, TypeOK
  <2> QED
    BY <1>2, <1>6, <2>1, <2>2
<1>8. NothingLost'
  <2> SUFFICES ASSUME writer # "broken"
               PROVE  /\ ~CutShort' => \A n \in Numbers : Asks(n)' => answers'[n] = 1
                      /\ Cardinality(Unwritten') <= ChannelDepth + 1
    BY <1>1 DEF NothingLost
  <2>1. ASSUME ~CutShort', NEW n \in Numbers, Asks(n)'
        PROVE  answers'[n] = 1
    <3>1. reader = "done" /\ Asks(n)
      BY <1>1, <2>1 DEF IInv, TasksMatchLines, CutShort, Asks
    <3>2. answers[n] = 1 /\ writing = 0
      BY <3>1 DEF IInv, NothingLost, SendersAreOpen
    <3> QED
      BY <3>2 DEF Exit
  <2>2. Cardinality(Unwritten) <= ChannelDepth + 1
    BY DEF IInv, NothingLost
  <2>3. Unwritten' \in SUBSET Unwritten
    <3> SUFFICES ASSUME NEW n \in Numbers, HandedOver(n)', answers'[n] = 0
                 PROVE  HandedOver(n) /\ answers[n] = 0
      BY DEF Unwritten
    <3>1. answers[n] \in Nat
      BY DEF IInv, TypeOK
    <3> QED
      BY <1>2, <1>6, <3>1
  <2>4. IsFiniteSet(Unwritten)
    <3>1. IsFiniteSet(Numbers)
      BY LinesAssumption, FS_Interval DEF Numbers
    <3>2. Unwritten \in SUBSET Numbers
      BY DEF Unwritten
    <3> QED
      BY <3>1, <3>2, FS_Subset
  <2>5. Cardinality(Unwritten') <= Cardinality(Unwritten)
        /\ Cardinality(Unwritten') \in Nat /\ Cardinality(Unwritten) \in Nat
    BY <2>3, <2>4, FS_Subset, FS_CardinalityType
  <2> QED
    BY <2>1, <2>2, <2>5, DepthAssumption
<1> QED
  BY <1>3, <1>4, <1>5, <1>7, <1>8 DEF IInv

\* The session returns: every line that asks has been handed over, and what
\* has been handed over is with the client.
LEMMA JoinWriterKeeps ==
  ASSUME IInv, JoinWriter
  PROVE  IInv'
<1> USE DEF JoinWriter, IInv
<1>1. TypeOK'
  BY DEF TypeOK, ReaderStates
<1>2. SendersAreOpen'
  BY DEF SendersAreOpen, InFlight
<1>3. TasksMatchLines'
  BY DEF TasksMatchLines, Last, CutShort
<1>4. \A n \in Numbers : HandedOver(n)' <=> HandedOver(n)
  BY DEF HandedOver, Asks, Last
<1>5. \A n \in Numbers : Queued(n)' = Queued(n)
  BY DEF Queued, Occurrences
<1>6. \A n \in Numbers : Asks(n) => HandedOver(n)
  <2> SUFFICES ASSUME NEW n \in Numbers, Asks(n), lines[n] = "request"
               PROVE  handler[n] = "over"
    BY DEF HandedOver, Asks
  <2>1. handler[n] # "none" /\ handler[n] \notin {"aborted", "unsent"}
    BY DEF Asks, TasksMatchLines
  <2>2. handler[n] \notin {"running", "sending"}
    BY DEF SendersAreOpen, InFlight
  <2>3. handler[n] \in HandlerStates
    BY DEF TypeOK
  <2> QED
    BY <2>1, <2>2, <2>3 DEF HandlerStates
<1>7. \A n \in Numbers : Queued(n) = 0
  BY OccurrencesEmpty DEF SendersAreOpen, Queued, Numbers
<1>8. AnsweredOnce'
  BY <1>4, <1>5 DEF AnsweredOnce
<1>9. NothingLost'
  <2>1. ASSUME writer # "broken", NEW n \in Numbers, HandedOver(n)
        PROVE  answers[n] + Queued(n) = 1
    BY <2>1 DEF NothingLost
  <2>2. ASSUME writer # "broken", NEW n \in Numbers, Asks(n)
        PROVE  answers[n] = 1
    BY <1>6, <1>7, <2>1, <2>2 DEF TypeOK
  <2>3. ASSUME writer' # "broken"
        PROVE  \A n \in Numbers : HandedOver(n)' => answers'[n] + Queued(n)' = 1
    BY <1>4, <1>5, <2>1, <2>3
  <2> QED
    BY <1>1, <2>2, <2>3, FewUnwritten DEF NothingLost, Asks
<1> QED
  BY <1>1, <1>2, <1>3, <1>8, <1>9

-----------------------------------------------------------------------------
(***************************************************************************)
(* An answer is handed over: a handler's, or the reader's parse error.     *)
(***************************************************************************)
LEMMA SendPuts ==
  ASSUME TypeOK, SendersAreOpen, NEW m \in Numbers, Send(m),
         UNCHANGED <<writing, writer, answers>>
  PROVE  /\ outbox' \in Seq(Numbers) /\ Len(outbox') <= ChannelDepth
         /\ writer # "open" => outbox' = <<>>
         /\ \A n \in Numbers : Queued(n)' =
              Queued(n) + (IF writer = "open" /\ n = m THEN 1 ELSE 0)
<1>1. CASE writer = "open"
  <2>1. outbox' = Append(outbox, m) /\ Len(outbox) < ChannelDepth
    BY <1>1 DEF Send
  <2>2. outbox' \in Seq(Numbers) /\ Len(outbox') <= ChannelDepth
    BY <2>1, DepthAssumption DEF TypeOK
  <2>3. ASSUME NEW n \in Numbers
        PROVE  Queued(n)' = Queued(n) + (IF n = m THEN 1 ELSE 0)
    <3>1. Occurrences(outbox', n) = Occurrences(outbox, n) + (IF m = n THEN 1 ELSE 0)
      BY <2>1, OccurrencesAppend DEF TypeOK
    <3>2. Occurrences(outbox, n) \in Nat
      BY OccurrencesType DEF TypeOK
    <3>3. Queued(n)' = Occurrences(outbox', n) + (IF writing = n THEN 1 ELSE 0)
      BY DEF Queued, Occurrences
    <3> QED
      BY <3>1, <3>2, <3>3 DEF Queued
  <2> QED
    BY <1>1, <2>2, <2>3
<1>2. CASE writer # "open"
  <2>1. outbox' = outbox /\ outbox = <<>>
    BY <1>2 DEF Send, SendersAreOpen
  <2>2. \A n \in Numbers : Queued(n)' = Queued(n) /\ Queued(n) \in Nat
    BY <2>1, QueuedType DEF Queued, Occurrences
  <2> QED
    BY <1>2, <2>1, <2>2 DEF TypeOK
<1> QED
  BY <1>1, <1>2

\* What the tally becomes when m is handed over.  A writer that finished
\* would have seen m's sender closed.
LEMMA TallyGrows ==
  ASSUME IInv, NEW m \in Numbers, Send(m), UNCHANGED <<writing, writer, answers>>,
         ~HandedOver(m), HandedOver(m)', writer # "finished",
         reader # "exited", reader' \notin {"done", "exited"}, TypeOK',
         \A n \in Numbers \ {m} : HandedOver(n)' <=> HandedOver(n)
  PROVE  AnsweredOnce' /\ NothingLost'
<1>1. \A n \in Numbers : /\ Queued(n) \in Nat /\ answers[n] \in Nat
                         /\ answers'[n] = answers[n]
                         /\ Queued(n)' = Queued(n) + (IF writer = "open" /\ n = m THEN 1 ELSE 0)
  BY QueuedType, SendPuts DEF IInv, TypeOK
<1>2. answers[m] = 0 /\ Queued(m) = 0
  BY <1>1 DEF IInv, AnsweredOnce
<1>3. writer = "open" \/ writer = "broken"
  BY DEF IInv, TypeOK
<1>4. ASSUME NEW n \in Numbers
      PROVE  /\ answers'[n] + Queued(n)' <= IF HandedOver(n)' THEN 1 ELSE 0
             /\ writer # "broken" /\ HandedOver(n)' => answers'[n] + Queued(n)' = 1
  <2>1. CASE n = m
    BY <1>1, <1>2, <1>3, <2>1
  <2>2. CASE n # m
    <3>1. Queued(n)' = Queued(n) /\ answers'[n] = answers[n] /\ (HandedOver(n)' <=> HandedOver(n))
      BY <1>1, <2>2
    <3> QED
      BY <3>1 DEF IInv, AnsweredOnce, NothingLost
  <2> QED
    BY <2>1, <2>2
<1> QED
  BY <1>4, FewUnwritten DEF AnsweredOnce, NothingLost

LEMMA SendAnswerKeeps ==
  ASSUME IInv, NEW m \in Numbers, SendAnswer(m)
  PROVE  IInv'
<1> USE DEF SendAnswer
<1>1. outbox' \in Seq(Numbers) /\ Len(outbox') <= ChannelDepth
      /\ (writer # "open" => outbox' = <<>>)
  BY SendPuts DEF IInv
<1>2. handler' = [handler EXCEPT ![m] = "over"] /\ handler \in [Numbers -> HandlerStates]
      /\ handler[m] = "sending"
  BY DEF IInv, TypeOK
<1>3. TypeOK'
  BY <1>1, <1>2 DEF IInv, TypeOK, HandlerStates
<1>4. m \in InFlight
  BY <1>2 DEF InFlight
<1>5. SendersAreOpen'
  BY <1>1, <1>4 DEF IInv, SendersAreOpen
<1>6. m <= Len(lines) /\ lines[m] = "request"
  <2>1. Len(lines) \in Nat /\ m \in Nat
    BY DEF IInv, TypeOK, Numbers
  <2>2. handler[m] # "none" /\ lines[m] = "request"
    BY <1>2 DEF IInv, TasksMatchLines
  <2> QED
    BY <2>1, <2>2 DEF IInv, TasksMatchLines
<1>7. TasksMatchLines'
  BY <1>2, <1>6 DEF IInv, TasksMatchLines, Last, Numbers, CutShort
<1>8. ~HandedOver(m) /\ HandedOver(m)'
  BY <1>2, <1>6 DEF HandedOver, Asks, Last
<1>9. \A n \in Numbers \ {m} : HandedOver(n)' <=> HandedOver(n)
  BY <1>2 DEF HandedOver, Asks, Last
<1>10. writer # "finished" /\ reader # "exited" /\ reader' \notin {"done", "exited"}
  BY <1>4 DEF IInv, SendersAreOpen
<1>11. AnsweredOnce' /\ NothingLost'
  BY <1>3, <1>8, <1>9, <1>10, TallyGrows
<1> QED
  BY <1>3, <1>5, <1>7, <1>11 DEF IInv

LEMMA SendParseErrorKeeps ==
  ASSUME IInv, SendParseError
  PROVE  IInv'
<1> USE DEF SendParseError
<1>1. Last \in Numbers /\ lines[Last] = "malformed" /\ Last = Len(lines) /\ reader = "replying"
  BY LinesAssumption DEF IInv, TypeOK, TasksMatchLines, Last, Numbers
<1>2. outbox' \in Seq(Numbers) /\ Len(outbox') <= ChannelDepth
      /\ (writer # "open" => outbox' = <<>>)
  BY <1>1, SendPuts DEF IInv
<1>3. TypeOK'
  BY <1>2 DEF IInv, TypeOK, ReaderStates
<1>4. SendersAreOpen'
  BY <1>1, <1>2 DEF IInv, SendersAreOpen
<1>5. TasksMatchLines'
  BY <1>1 DEF IInv, TasksMatchLines, Last, CutShort
<1>6. ~HandedOver(Last)
  <2>1. handler[Last] # "over"
    BY <1>1 DEF IInv, TasksMatchLines, Last, Numbers
  <2> QED
    BY <1>1, <2>1 DEF HandedOver
<1>7. Last' = Last /\ Asks(Last)
  BY <1>1 DEF Asks, Last, Numbers
<1>8. ASSUME NEW n \in Numbers
      PROVE  HandedOver(n)' <=> Asks(n) /\ (handler[n] = "over" \/ lines[n] = "malformed")
  BY DEF HandedOver, Asks
<1>9. \A n \in Numbers \ {Last} : HandedOver(n)' <=> HandedOver(n)
  BY <1>8 DEF HandedOver
<1>10. \A n \in Numbers : n = Last => HandedOver(n)'
  BY <1>1, <1>7, <1>8
<1>11. writer # "finished" /\ reader # "exited" /\ reader' \notin {"done", "exited"}
  BY <1>1 DEF IInv, SendersAreOpen
<1>12. AnsweredOnce' /\ NothingLost'
  <2>1. PICK m \in Numbers : m = Last
    BY <1>1
  <2>2. ~HandedOver(m) /\ HandedOver(m)' /\ Send(m)
    BY <2>1, <1>6, <1>10
  <2>3. \A n \in Numbers \ {m} : HandedOver(n)' <=> HandedOver(n)
    BY <2>1, <1>9
  <2>4. UNCHANGED <<writing, writer, answers>>
    OBVIOUS
  <2> HIDE DEF SendParseError
  <2> QED
    BY <2>2, <2>3, <2>4, <1>3, <1>11, TallyGrows
<1> QED
  BY <1>3, <1>4, <1>5, <1>12 DEF IInv

-----------------------------------------------------------------------------
(***************************************************************************)
(* The handlers and the writer.                                            *)
(***************************************************************************)
LEMMA HandlerMovesKeep ==
  ASSUME IInv, NEW m \in Numbers, Return(m) \/ Abort(m)
  PROVE  IInv'
<1>1. PICK h \in {"sending", "over", "aborted", "unsent"} :
        /\ handler' = [handler EXCEPT ![m] = h]
        /\ handler[m] \in {"running", "sending"}
        /\ h = "sending" => handler[m] = "running" /\ lines[m] = "request"
        /\ h = "over" => handler[m] = "running" /\ lines[m] # "request"
        /\ h = "unsent" => handler[m] = "sending"
        /\ h \in {"aborted", "unsent"} => reader = "failed"
  <2>0. handler \in [Numbers -> HandlerStates]
    BY DEF IInv, TypeOK
  <2>1. CASE Return(m)
    BY <2>1 DEF Return, AfterHandle
  <2>2. CASE Abort(m)
    BY <2>0, <2>2 DEF Abort, InFlight
  <2> QED
    BY <2>1, <2>2
<1>2. UNCHANGED <<lines, reader, outbox, writing, writer, answers>>
  BY DEF Return, Abort
<1>3. handler \in [Numbers -> HandlerStates] /\ Len(lines) \in Nat /\ m \in Nat
  BY DEF IInv, TypeOK, Numbers
<1>4. TypeOK'
  BY <1>1, <1>2 DEF IInv, TypeOK, HandlerStates
<1>5. m \in InFlight
  BY <1>1 DEF InFlight
<1>6. SendersAreOpen'
  <2>1. reader \notin {"closing", "done"} /\ writer # "finished"
    BY <1>5 DEF IInv, SendersAreOpen
  <2> QED
    BY <1>2, <2>1 DEF IInv, SendersAreOpen
<1>7. m <= Len(lines) /\ lines[m] \in {"request", "notification"}
  <2>1. handler[m] # "none" /\ (m > Len(lines) => handler[m] = "none")
    BY <1>1 DEF IInv, TasksMatchLines
  <2>2. m <= Len(lines)
    BY <1>3, <2>1
  <2> QED
    BY <2>1, <2>2 DEF IInv, TasksMatchLines
<1>8. TasksMatchLines'
  <2>1. (reader = "replying" => Last > 0 /\ lines[Last] = "malformed")'
    BY <1>2 DEF IInv, TasksMatchLines, Last
  <2>2. ASSUME NEW n \in Numbers
        PROVE  /\ n > Len(lines) => handler'[n] = "none"
               /\ n <= Len(lines) =>
                    (handler'[n] = "none" <=> lines[n] \notin {"request", "notification"})
               /\ handler'[n] \in {"sending", "unsent"} => lines[n] = "request"
               /\ handler'[n] \in {"aborted", "unsent"} => reader \in {"failed", "exited"}
    <3>1. CASE n = m
      <4>1. handler'[n] = h
        BY <1>1, <1>3, <3>1
      <4>2. ~(n > Len(lines))
        BY <1>3, <1>7, <3>1
      <4>3. h \in {"sending", "unsent"} => lines[m] = "request"
        BY <1>1 DEF IInv, TasksMatchLines
      <4> QED
        BY <1>1, <1>7, <3>1, <4>1, <4>2, <4>3
    <3>2. CASE n # m
      <4>1. handler'[n] = handler[n]
        BY <1>1, <1>3, <3>2
      <4> QED
        BY <4>1 DEF IInv, TasksMatchLines
    <3> QED
      BY <3>1, <3>2
  <2>3. (reader = "failed" => CutShort)'
    BY <1>2 DEF IInv, TasksMatchLines, CutShort
  <2> QED
    BY <1>2, <2>1, <2>2, <2>3 DEF TasksMatchLines
<1>9. ASSUME NEW n \in Numbers
      PROVE  HandedOver(n)' <=> HandedOver(n)
  <2>1. CASE n = m
    <3>1. handler'[n] = h /\ handler[n] # "over" /\ lines[n] # "malformed"
      BY <1>1, <1>3, <1>7, <2>1
    <3>2. h = "over" => ~Asks(n)
      BY <1>1, <1>7, <2>1 DEF Asks
    <3> QED
      BY <1>2, <3>1, <3>2 DEF HandedOver, Asks
  <2>2. CASE n # m
    <3>1. handler'[n] = handler[n]
      BY <1>1, <1>3, <2>2
    <3> QED
      BY <1>2, <3>1 DEF HandedOver, Asks, Last
  <2> QED
    BY <2>1, <2>2
<1>10. AnsweredOnce' /\ NothingLost'
  <2>1. reader # "exited" /\ reader' \notin {"done", "exited"}
    <3>1. reader # "exited"
      BY DEF Return, Abort
    <3> QED
      BY <1>2, <1>5, <3>1 DEF IInv, SendersAreOpen
  <2> QED
    BY <1>2, <1>4, <1>9, <2>1, TallyKept
<1> QED
  BY <1>4, <1>6, <1>8, <1>10 DEF IInv

\* The writer only moves an answer on: what is with the client and what is
\* still to be written always add up to the same.
LEMMA WriterMovesKeep ==
  ASSUME IInv, Receive \/ Write
  PROVE  IInv'
<1>1. UNCHANGED <<lines, reader, handler, writer>> /\ writer = "open" /\ reader # "exited"
  BY DEF Receive, Write, IInv, SendersAreOpen
<1>2. ASSUME NEW n \in Numbers
      PROVE  /\ answers'[n] + Queued(n)' = answers[n] + Queued(n)
             /\ answers'[n] \in Nat
  <2>0. answers \in [Numbers -> Nat] /\ outbox \in Seq(Numbers)
        /\ Occurrences(outbox, n) \in Nat
    BY OccurrencesType DEF IInv, TypeOK
  <2>1. Queued(n)' = Occurrences(outbox', n) + (IF writing' = n THEN 1 ELSE 0)
    BY DEF Queued, Occurrences
  <2>2. CASE Receive
    <3>1. outbox # <<>> /\ outbox' = Tail(outbox) /\ writing' = Head(outbox)
          /\ writing = 0 /\ answers' = answers
      BY <2>2 DEF Receive
    <3>2. Occurrences(outbox, n) =
            Occurrences(Tail(outbox), n) + (IF Head(outbox) = n THEN 1 ELSE 0)
      BY <2>0, <3>1, OccurrencesTail
    <3>3. Tail(outbox) \in Seq(Numbers)
      BY <2>0, <3>1
    <3>4. Occurrences(Tail(outbox), n) \in Nat
      BY <3>3, OccurrencesType
    <3>5. n # 0
      BY DEF Numbers
    <3> QED
      BY <3>4, <3>5, <2>0, <2>1, <3>1, <3>2, <3>3 DEF Queued
  <2>3. CASE Write
    <3>1. outbox' = outbox /\ writing' = 0 /\ writing # 0
          /\ answers' = [answers EXCEPT ![writing] = @ + 1]
      BY <2>3 DEF Write
    <3>2. n # 0 /\ n \in Nat
      BY DEF Numbers
    <3>3. answers'[n] = answers[n] + (IF writing = n THEN 1 ELSE 0)
      BY <2>0, <3>1
    <3> QED
      BY <2>0, <2>1, <3>1, <3>2, <3>3 DEF Queued
  <2> QED
    BY <2>2, <2>3
<1>3. TypeOK'
  <2>1. outbox' \in Seq(Numbers) /\ Len(outbox') <= ChannelDepth
    <3>1. outbox \in Seq(Numbers) /\ Len(outbox) <= ChannelDepth
      BY DEF IInv, TypeOK
    <3>2. CASE Receive
      <4>1. outbox' = Tail(outbox) /\ outbox # <<>>
        BY <3>2 DEF Receive
      <4>2. Tail(outbox) \in Seq(Numbers) /\ Len(Tail(outbox)) = Len(outbox) - 1
        BY <3>1, <4>1
      <4>3. Len(outbox) \in Nat
        BY <3>1
      <4> QED
        BY <3>1, <4>1, <4>2, <4>3, DepthAssumption
    <3>3. CASE Write
      BY <3>1, <3>3 DEF Write
    <3> QED
      BY <3>2, <3>3
  <2>2. writing' \in {0} \cup Numbers
    BY DEF IInv, TypeOK, Receive, Write
  <2>3. answers' \in [Numbers -> Nat]
    BY DEF IInv, TypeOK, Receive, Write
  <2> QED
    BY <1>1, <2>1, <2>2, <2>3 DEF IInv, TypeOK
<1>4. SendersAreOpen' /\ TasksMatchLines'
  BY <1>1 DEF IInv, SendersAreOpen, TasksMatchLines, InFlight, Last, CutShort
<1>5. \A n \in Numbers : HandedOver(n)' <=> HandedOver(n)
  BY <1>1 DEF HandedOver, Asks, Last
<1>6. AnsweredOnce'
  BY <1>2, <1>5 DEF IInv, AnsweredOnce
<1>7. NothingLost'
  <2>1. reader' \notin {"done", "exited"}
    BY <1>1 DEF IInv, SendersAreOpen
  <2>2. ASSUME writer' # "broken", NEW n \in Numbers, HandedOver(n)'
        PROVE  answers'[n] + Queued(n)' = 1
    BY <1>1, <1>2, <1>5, <2>2 DEF IInv, NothingLost
  <2> QED
    BY <1>3, <2>1, <2>2, FewUnwritten DEF NothingLost
<1> QED
  BY <1>3, <1>4, <1>6, <1>7 DEF IInv

\* Only a broken stdout loses what is in the channel.
LEMMA WriterEndsKeep ==
  ASSUME IInv, WriteFails \/ FinishWriter
  PROVE  IInv'
<1>1. /\ UNCHANGED <<lines, reader, handler, answers>>
      /\ writing' = 0 /\ outbox' = <<>>
      /\ writer' \in {"broken", "finished"}
  BY DEF WriteFails, FinishWriter, AllReceived
<1>2. TypeOK'
  BY <1>1, DepthAssumption DEF IInv, TypeOK
<1>3. SendersAreOpen'
  <2>1. writer' = "finished" =>
          InFlight = {} /\ reader \notin {"reading", "replying", "draining"}
    BY DEF WriteFails, FinishWriter, AllReceived
  <2> QED
    BY <1>1, <2>1 DEF IInv, SendersAreOpen, InFlight
<1>4. TasksMatchLines'
  BY <1>1 DEF IInv, TasksMatchLines, Last, CutShort
<1>5. \A n \in Numbers : HandedOver(n)' <=> HandedOver(n)
  BY <1>1 DEF HandedOver, Asks, Last
<1>6. \A n \in Numbers : Queued(n) \in Nat /\ Queued(n)' = 0 /\ answers[n] \in Nat
  <2>1. \A n \in Numbers : Queued(n)' = 0
    BY <1>1, OccurrencesEmpty DEF Queued, Occurrences, Numbers
  <2> QED
    BY <2>1, QueuedType DEF IInv, TypeOK
<1>7. AnsweredOnce'
  BY <1>1, <1>5, <1>6 DEF IInv, AnsweredOnce
<1>8. NothingLost'
  <2>1. CASE WriteFails
    BY <2>1 DEF WriteFails, NothingLost
  <2>2. CASE FinishWriter
    <3>1. writer = "open" /\ writing = 0 /\ outbox = <<>>
          /\ reader \notin {"done", "exited"}
      BY <2>2 DEF FinishWriter, AllReceived
    <3>2. \A n \in Numbers : Queued(n) = 0
      BY <3>1, OccurrencesEmpty DEF Queued, Numbers
    <3>3. \A n \in Numbers : HandedOver(n)' => answers'[n] + Queued(n)' = 1
      BY <1>1, <1>5, <1>6, <3>1, <3>2 DEF IInv, NothingLost
    <3> QED
      BY <1>1, <1>2, <3>1, <3>3, FewUnwritten DEF NothingLost
  <2> QED
    BY <2>1, <2>2
<1> QED
  BY <1>2, <1>3, <1>4, <1>7, <1>8 DEF IInv

-----------------------------------------------------------------------------
\* The inductive invariant, for any number of lines and depth of the channel.
THEOREM Invariance == Spec => []IInv
<1>1. ASSUME IInv, [Next]_vars
      PROVE  IInv'
  <2>1. CASE Client
    BY <1>1, <2>1, ReadKeeps, ReaderMovesKeep DEF Client
  <2>2. CASE Reader
    BY <1>1, <2>2, SendParseErrorKeeps, ReaderMovesKeep, JoinWriterKeeps DEF Reader
  <2>3. CASE Writer \/ WriteFails
    BY <1>1, <2>3, WriterMovesKeep, WriterEndsKeep DEF Writer
  <2>4. CASE Exit
    BY <1>1, <2>4, ExitKeeps
  <2>5. CASE \E n \in Numbers : Handler(n) \/ Abort(n)
    BY <1>1, <2>5, HandlerMovesKeep, SendAnswerKeeps DEF Handler
  <2>6. CASE UNCHANGED vars
    <3> USE <1>1, <2>6 DEF IInv, vars
    <3>1. TypeOK'
      BY DEF TypeOK
    <3>2. SendersAreOpen' /\ TasksMatchLines'
      BY DEF SendersAreOpen, TasksMatchLines, InFlight, Last, CutShort
    <3>3. \A n \in Numbers : /\ HandedOver(n)' <=> HandedOver(n)
                             /\ Asks(n)' <=> Asks(n)
                             /\ Queued(n)' = Queued(n)
      BY DEF HandedOver, Asks, Last, Queued, Occurrences
    <3>4. UNCHANGED <<lines, reader, writing, writer, answers>>
      OBVIOUS
    <3>5. AnsweredOnce'
      <4>1. AnsweredOnce
        OBVIOUS
      <4> QED
        BY ONLY <3>3, <3>4, <4>1 DEF AnsweredOnce
    <3>6. NothingLost'
      <4>1. NothingLost
        OBVIOUS
      <4> QED
        BY ONLY <3>3, <3>4, <4>1 DEF NothingLost, Unwritten, CutShort
    <3> QED
      BY <3>1, <3>2, <3>5, <3>6
  <2> QED
    BY <1>1, <2>1, <2>2, <2>3, <2>4, <2>5, <2>6 DEF Next
<1> QED
  BY InitiallyIInv, <1>1, PTL DEF Spec

\* No request or malformed request is answered twice, nothing else at all,
\* in whatever order the handlers end.
THEOREM OneAnswerEach == Spec => []AnsweredOnce
<1>1. IInv => AnsweredOnce
  BY DEF IInv
<1> QED
  BY Invariance, <1>1, PTL

\* While stdout works and the process runs no answer is lost; the session whose
\* input has ended has answered everything when the process ends, and one that
\* is cut short loses at most what channel and writer hold.
THEOREM NoAnswerIsLost == Spec => []NothingLost
<1>1. IInv => NothingLost
  BY DEF IInv
<1> QED
  BY Invariance, <1>1, PTL
=============================================================================
