-------------------------- MODULE InterpolateProofs --------------------------
(***************************************************************************)
(* The scanner of placeholders gives every text the meaning it was written *)
(* with (src/config/interpolate.rs).  The pieces of a text are taken from  *)
(* the last to the first: wherever the scanner comes to the beginning of a *)
(* piece it reads exactly this piece, and goes on where the next begins.   *)
(***************************************************************************)
EXTENDS Interpolate, Induction

LEMMA MarksDiffer ==
  /\ Sign # Brace /\ Sign # Close /\ Sign # Else
  /\ Brace # Close /\ Brace # Else /\ Close # Else
BY Zenon DEF Sign, Brace, Close, Else

LEMMA MarksAreSymbols == {Sign, Brace, Close, Else} \subseteq Symbols
BY SymbolsAssumption, Zenon

\* The sequence c is a with b after it.
OneAfterOther(X, a, b, c) ==
  /\ c \in Seq(X) /\ Len(c) = Len(a) + Len(b)
  /\ DOMAIN c = 1 .. Len(a) + Len(b)
  /\ \A i \in 1 .. Len(a) : c[i] = a[i]
  /\ \A i \in 1 .. Len(b) : c[Len(a) + i] = b[i]

LEMMA Concat ==
  ASSUME NEW X, NEW a \in Seq(X), NEW b \in Seq(X)
  PROVE  OneAfterOther(X, a, b, a \o b)
<1>1. a \o b \in Seq(X) /\ Len(a \o b) = Len(a) + Len(b)
  OBVIOUS
<1>2. DOMAIN (a \o b) = 1 .. Len(a) + Len(b)
  BY <1>1
<1>3. ASSUME NEW i \in 1 .. Len(a) PROVE (a \o b)[i] = a[i]
  OBVIOUS
<1>4. ASSUME NEW i \in 1 .. Len(b) PROVE (a \o b)[Len(a) + i] = b[i]
  <2>1. i \in Nat /\ Len(a) \in Nat /\ Len(a) + i \in 1 .. Len(a) + Len(b)
        /\ ~(Len(a) + i <= Len(a)) /\ (Len(a) + i) - Len(a) = i
    OBVIOUS
  <2> QED
    BY <2>1
<1> QED
  BY <1>1, <1>2, <1>3, <1>4 DEF OneAfterOther

-----------------------------------------------------------------------------
(***************************************************************************)
(* Joined, and the loop of expand(), as recursions from the end.           *)
(***************************************************************************)
Joining(from, texts, low) ==
  from = [i \in low .. Len(texts) + 1 |->
            IF i = Len(texts) + 1 THEN <<>> ELSE texts[i] \o from[i + 1]]

LEMMA JoinedSteps ==
  ASSUME NEW texts, Len(texts) \in Nat
  PROVE  Joining(Joined(texts), texts, 1)
<1> DEFINE n == Len(texts)
           T == {k \in 0 .. n : \E g : Joining(g, texts, k + 1)}
           R == CHOOSE f : f = [i \in 1 .. n + 1 |->
                  IF i = n + 1 THEN <<>> ELSE texts[i] \o f[i + 1]]
<1>1. n \in T
  <2>1. Joining([i \in n + 1 .. n + 1 |-> <<>>], texts, n + 1)
    BY DEF Joining
  <2> QED
    BY <2>1
<1>2. ASSUME NEW k \in 0 .. n, k \in T /\ k > 0 PROVE k - 1 \in T
  <2>1. PICK g : Joining(g, texts, k + 1)
    BY <1>2
  <2> DEFINE first == texts[k] \o g[k + 1]
             h == [i \in k .. n + 1 |-> IF i = k THEN first ELSE g[i]]
  <2> HIDE DEF first
  <2>2. k \in 1 .. n /\ \A i \in k + 1 .. n + 1 : i # k /\ i \in k .. n + 1
    BY <1>2
  <2>3. h[k] = first /\ \A i \in k + 1 .. n + 1 : h[i] = g[i]
    BY <2>2
  <2>4. h = [i \in k .. n + 1 |-> h[i]]
    OBVIOUS
  <2> HIDE DEF h
  <2>5. ASSUME NEW i \in k .. n + 1
        PROVE  h[i] = IF i = n + 1 THEN <<>> ELSE texts[i] \o h[i + 1]
    <3>1. CASE i = k
      <4>1. k + 1 \in k + 1 .. n + 1 /\ k # n + 1
        BY <2>2
      <4> QED
        BY <3>1, <2>3, <4>1 DEF first
    <3>2. CASE i # k
      <4>1. i \in k + 1 .. n + 1 /\ (i # n + 1 => i + 1 \in k + 1 .. n + 1)
        BY <2>2, <3>2
      <4>2. g[i] = IF i = n + 1 THEN <<>> ELSE texts[i] \o g[i + 1]
        BY <4>1, <2>1 DEF Joining
      <4> QED
        BY <2>3, <4>1, <4>2
    <3> QED
      BY <3>1, <3>2
  <2>6. Joining(h, texts, k)
    BY <2>4, <2>5 DEF Joining
  <2>7. (k - 1) + 1 = k /\ k - 1 \in 0 .. n
    BY <2>2
  <2> QED
    BY <2>6, <2>7
<1> HIDE DEF T
<1>3. 0 .. n \subseteq T
  BY <1>1, <1>2, DownFrom
<1>4. 0 \in T /\ 0 + 1 = 1
  BY <1>3
<1> USE DEF T
<1>5. \E f : Joining(f, texts, 1)
  BY <1>4
<1>6. Joining(R, texts, 1)
  BY <1>5 DEF Joining
<1>7. Joined(texts) = R
  BY DEF Joined
<1> HIDE DEF R
<1> QED
  BY <1>6, <1>7

\* What expand() makes of the input from i on, given what it makes of the rest.
ReadAt(f, input, env, i) ==
  CASE i > Len(input)    -> Expanded(<<>>)
    [] Escapes(input, i) -> Followed(Expanded(<<Sign>>), f[i + 2])
    [] Opens(input, i)   ->
         Followed(Placeholder(SubSeq(input, i + 2, Min(Ends(input, i + 2)) - 1), env),
                  f[Min(Ends(input, i + 2)) + 1])
    [] OTHER             -> Followed(Expanded(<<input[i]>>), f[i + 1])

Reads(f, input, env, low) ==
  f = [i \in low .. Len(input) + 1 |-> ReadAt(f, input, env, i)]

LEMMA FirstEnd ==
  ASSUME NEW input \in Seq(Symbols), NEW i \in Nat, Ends(input, i) # {}
  PROVE  LET end == Min(Ends(input, i)) IN
         /\ end \in i .. Len(input) /\ input[end] = Close
         /\ \A j \in i .. Len(input) : input[j] = Close => end <= j
<1>1. \A e \in Ends(input, i) : e \in Nat
  BY DEF Ends
<1>2. \E e \in Ends(input, i) : \A j \in Ends(input, i) : e <= j
  BY <1>1, Least
<1>3. /\ Min(Ends(input, i)) \in Ends(input, i)
      /\ \A j \in Ends(input, i) : Min(Ends(input, i)) <= j
  BY <1>2 DEF Min
<1> QED
  BY <1>3 DEF Ends

\* The scanner only looks ahead.
LEMMA ReadingLooksAhead ==
  ASSUME NEW input \in Seq(Symbols), NEW env, NEW f, NEW g,
         NEW i \in 1 .. Len(input) + 1,
         \A j \in i + 1 .. Len(input) + 1 : f[j] = g[j]
  PROVE  ReadAt(f, input, env, i) = ReadAt(g, input, env, i)
<1>1. CASE i > Len(input)
  <2>1. ~Escapes(input, i) /\ ~Opens(input, i)
    BY <1>1 DEF Escapes, Opens, Is
  <2> QED
    BY <1>1, <2>1 DEF ReadAt
<1>2. CASE Escapes(input, i)
  <2>1. f[i + 2] = g[i + 2]
    BY <1>2 DEF Escapes, Is
  <2>2. ~(i > Len(input)) /\ ~Opens(input, i)
    BY <1>2, MarksDiffer DEF Escapes, Opens, Is
  <2> QED
    BY <1>2, <2>1, <2>2 DEF ReadAt
<1>3. CASE Opens(input, i)
  <2> DEFINE end == Min(Ends(input, i + 2))
  <2>1. end \in i + 2 .. Len(input)
    <3>1. i + 2 \in Nat /\ Ends(input, i + 2) # {}
      BY <1>3 DEF Opens
    <3> QED
      BY <3>1, FirstEnd
  <2>2. f[end + 1] = g[end + 1]
    BY <2>1
  <2>3. ~(i > Len(input)) /\ ~Escapes(input, i)
    <3>1. i <= Len(input) /\ input[i + 1] = Brace
      BY <1>3 DEF Opens, Is
    <3> QED
      BY <3>1, MarksDiffer DEF Escapes, Is
  <2> QED
    BY <1>3, <2>2, <2>3 DEF ReadAt
<1>4. CASE ~(i > Len(input)) /\ ~Escapes(input, i) /\ ~Opens(input, i)
  <2>1. f[i + 1] = g[i + 1]
    BY <1>4
  <2> QED
    BY <1>4, <2>1 DEF ReadAt
<1> QED
  BY <1>1, <1>2, <1>3, <1>4

LEMMA ExpandSteps ==
  ASSUME NEW input \in Seq(Symbols), NEW env
  PROVE  \E reads : Reads(reads, input, env, 1) /\ expand(input, env) = reads[1]
<1> DEFINE n == Len(input)
           T == {k \in 0 .. n : \E g : Reads(g, input, env, k + 1)}
           R == CHOOSE f : f = [i \in 1 .. n + 1 |->
                  CASE i > n               -> Expanded(<<>>)
                    [] Escapes(input, i) -> Followed(Expanded(<<Sign>>), f[i + 2])
                    [] Opens(input, i)   ->
                         Followed(Placeholder(SubSeq(input, i + 2, Min(Ends(input, i + 2)) - 1), env),
                                  f[Min(Ends(input, i + 2)) + 1])
                    [] OTHER             -> Followed(Expanded(<<input[i]>>), f[i + 1])]
<1>1. n \in T
  <2> DEFINE g == [i \in n + 1 .. n + 1 |-> Expanded(<<>>)]
  <2>1. \A i \in n + 1 .. n + 1 : ReadAt(g, input, env, i) = Expanded(<<>>)
    <3>1. \A i \in n + 1 .. n + 1 : i > n /\ ~Escapes(input, i) /\ ~Opens(input, i)
      BY DEF Escapes, Opens, Is
    <3> QED
      BY <3>1 DEF ReadAt
  <2>2. Reads(g, input, env, n + 1)
    BY <2>1 DEF Reads
  <2> QED
    BY <2>2
<1>2. ASSUME NEW k \in 0 .. n, k \in T /\ k > 0 PROVE k - 1 \in T
  <2>1. PICK g : Reads(g, input, env, k + 1)
    BY <1>2
  <2> DEFINE first == ReadAt(g, input, env, k)
             h == [i \in k .. n + 1 |-> IF i = k THEN first ELSE g[i]]
  <2> HIDE DEF first
  <2>2. k \in 1 .. n /\ \A i \in k + 1 .. n + 1 : i # k /\ i \in k .. n + 1
    BY <1>2
  <2>3. h[k] = first /\ \A i \in k + 1 .. n + 1 : h[i] = g[i]
    BY <2>2
  <2>4. h = [i \in k .. n + 1 |-> h[i]]
    OBVIOUS
  <2> HIDE DEF h
  <2>5. \A i \in k + 1 .. n + 1 : g[i] = ReadAt(g, input, env, i)
    BY <2>1 DEF Reads
  <2>6. ASSUME NEW i \in k .. n + 1 PROVE h[i] = ReadAt(h, input, env, i)
    <3>1. i \in 1 .. n + 1 /\ \A j \in i + 1 .. n + 1 : h[j] = g[j]
      BY <2>2, <2>3
    <3>2. ReadAt(h, input, env, i) = ReadAt(g, input, env, i)
      BY <3>1, ReadingLooksAhead
    <3>3. i = k \/ i \in k + 1 .. n + 1
      BY <2>2
    <3> QED
      BY <2>3, <2>5, <3>2, <3>3 DEF first
  <2>7. Reads(h, input, env, k)
    BY <2>4, <2>6 DEF Reads
  <2>8. (k - 1) + 1 = k /\ k - 1 \in 0 .. n
    BY <2>2
  <2> QED
    BY <2>7, <2>8
<1> HIDE DEF T
<1>3. 0 .. n \subseteq T
  BY <1>1, <1>2, DownFrom
<1>4. 0 \in T /\ 0 + 1 = 1
  BY <1>3
<1> USE DEF T
<1>5. \E f : Reads(f, input, env, 1)
  BY <1>4
<1>6. Reads(R, input, env, 1)
  BY <1>5 DEF Reads, ReadAt
<1>7. expand(input, env) = R[1]
  BY DEF expand
<1> HIDE DEF R
<1> QED
  BY <1>6, <1>7

-----------------------------------------------------------------------------
(***************************************************************************)
(* One placeholder.                                                        *)
(***************************************************************************)
\* What stands between the braces of a placeholder, and what it comes to.
Value(piece, env) == IF Undefined(piece, env) THEN MissingEnv(trim(piece.name))
                                              ELSE Expanded(Meaning(piece, env))

\* A name, ":-" and a default, one after the other.
LEMMA BodyInOrder ==
  ASSUME NEW a \in Seq(Symbols), NEW b \in Seq(Symbols)
  PROVE  LET body == a \o <<Else>> \o b IN
         /\ Len(a) \in Nat /\ Len(b) \in Nat
         /\ body \in Seq(Symbols) /\ Len(body) = Len(a) + 1 + Len(b)
         /\ \A k \in 1 .. Len(a) : body[k] = a[k]
         /\ body[Len(a) + 1] = Else
         /\ \A k \in 1 .. Len(b) : body[Len(a) + 1 + k] = b[k]
<1> DEFINE body == a \o <<Else>> \o b
<1>1. <<Else>> \in Seq(Symbols) /\ Len(<<Else>>) = 1 /\ <<Else>>[1] = Else
  BY MarksAreSymbols
<1>2. OneAfterOther(Symbols, a, <<Else>>, a \o <<Else>>)
  BY <1>1, Concat
<1>3. OneAfterOther(Symbols, a \o <<Else>>, b, body)
  BY <1>2, Concat DEF OneAfterOther
<1> QED
  BY <1>1, <1>2, <1>3 DEF OneAfterOther

\* Without ":-" all of the body is the name.
LEMMA LookupVar ==
  ASSUME NEW name \in Seq(Symbols), Lacks(name, {Close, Else}), NEW env
  PROVE  Lookup(name, env) = IF trim(name) \in DOMAIN env THEN Expanded(env[trim(name)])
                                                          ELSE MissingEnv(trim(name))
<1>1. SelectInSeq(name, LAMBDA s : s = Else) = 0
  <2>1. {i \in 1 .. Len(name) : name[i] = Else} = {}
    BY DEF Lacks
  <2> QED
    BY <2>1 DEF SelectInSeq
<1> QED
  BY <1>1 DEF Lookup

\* The first ":-" parts the name from the default, whatever the default holds.
LEMMA LookupVarOr ==
  ASSUME NEW name \in Seq(Symbols), Lacks(name, {Close, Else}), NEW text \in Seq(Symbols), NEW env
  PROVE  Lookup(name \o <<Else>> \o text, env) =
           IF trim(name) \in DOMAIN env THEN Expanded(env[trim(name)]) ELSE Expanded(text)
<1> DEFINE body == name \o <<Else>> \o text
           cut == Len(name) + 1
<1>1. /\ body \in Seq(Symbols) /\ Len(body) = cut + Len(text)
      /\ body[cut] = Else
      /\ \A i \in 1 .. Len(name) : body[i] = name[i]
      /\ \A i \in 1 .. Len(text) : body[cut + i] = text[i]
  BY BodyInOrder
<1> HIDE DEF body
<1>2. SelectInSeq(body, LAMBDA s : s = Else) = cut
  <2> DEFINE I == {i \in 1 .. Len(body) : body[i] = Else}
  <2>1. cut \in I
    BY <1>1
  <2>2. ASSUME NEW i \in I PROVE i >= cut
    <3>1. i \in 1 .. Len(body) /\ body[i] = Else
      OBVIOUS
    <3>2. CASE i \in 1 .. Len(name)
      BY <1>1, <3>1, <3>2 DEF Lacks
    <3>3. CASE i \notin 1 .. Len(name)
      BY <3>1, <3>3
    <3> QED
      BY <3>2, <3>3
  <2>3. Min(I) = cut
    <3>1. \A m \in I : (\A j \in I : m <= j) => m = cut
      BY <2>1, <2>2
    <3>2. \A j \in I : cut <= j
      BY <2>2
    <3> HIDE DEF I
    <3> QED
      BY <2>1, <3>1, <3>2 DEF Min
  <2> QED
    BY <2>1, <2>3 DEF SelectInSeq
<1>3. SubSeq(body, 1, cut - 1) = name
  BY <1>1
<1>4. SubSeq(body, cut + 1, Len(body)) = text
  BY <1>1
<1>5. cut # 0
  OBVIOUS
<1> HIDE DEF cut
<1>6. Lookup(body, env) = IF trim(name) \in DOMAIN env THEN Expanded(env[trim(name)])
                                                       ELSE Expanded(text)
  BY <1>2, <1>3, <1>4, <1>5 DEF Lookup
<1> QED
  BY <1>6 DEF body

-----------------------------------------------------------------------------
(***************************************************************************)
(* One piece.                                                              *)
(***************************************************************************)
\* From position p on the input is the text.
Stands(input, p, text) ==
  /\ p \in 1 .. Len(input) + 1
  /\ Len(input) + 1 = p + Len(text)
  /\ \A k \in 1 .. Len(text) : input[p + k - 1] = text[k]

\* After a text comes the one that was written after it.
LEMMA StandsAfter ==
  ASSUME NEW input \in Seq(Symbols), NEW p, NEW a \in Seq(Symbols), NEW b \in Seq(Symbols),
         Stands(input, p, a \o b)
  PROVE  /\ \A k \in 1 .. Len(a) : input[p + k - 1] = a[k] /\ p + k - 1 \in 1 .. Len(input)
         /\ Stands(input, p + Len(a), b)
<1> DEFINE c == a \o b
<1>1. OneAfterOther(Symbols, a, b, c)
  BY Concat
<1>2. /\ p \in 1 .. Len(input) + 1 /\ Len(input) + 1 = p + Len(a) + Len(b)
      /\ Len(a) \in Nat /\ Len(b) \in Nat /\ Len(input) \in Nat
      /\ \A k \in 1 .. Len(a) + Len(b) : input[p + k - 1] = c[k]
  BY <1>1 DEF Stands, OneAfterOther
<1>3. /\ \A k \in 1 .. Len(a) : c[k] = a[k]
      /\ \A k \in 1 .. Len(b) : c[Len(a) + k] = b[k]
  BY <1>1 DEF OneAfterOther
<1> HIDE DEF c
<1>4. ASSUME NEW k \in 1 .. Len(a)
      PROVE  input[p + k - 1] = a[k] /\ p + k - 1 \in 1 .. Len(input)
  <2>1. k \in 1 .. Len(a) + Len(b) /\ p + k - 1 \in 1 .. Len(input)
    BY <1>2
  <2> QED
    BY <1>2, <1>3, <2>1
<1>5. ASSUME NEW k \in 1 .. Len(b) PROVE input[(p + Len(a)) + k - 1] = b[k]
  <2>1. Len(a) + k \in 1 .. Len(a) + Len(b) /\ p + (Len(a) + k) - 1 = (p + Len(a)) + k - 1
    BY <1>2
  <2> QED
    BY <1>2, <1>3, <2>1
<1>6. p + Len(a) \in 1 .. Len(input) + 1 /\ Len(input) + 1 = (p + Len(a)) + Len(b)
  BY <1>2
<1> QED
  BY <1>4, <1>5, <1>6 DEF Stands

\* The scanner takes a piece at p for what it is, and goes on behind it.
PieceRead(input, env, p, piece, rest, reads) ==
  \E q : /\ Stands(input, q, rest)
         /\ ReadAt(reads, input, env, p) = Followed(Value(piece, env), reads[q])

\* A symbol by itself is read as itself.
LEMMA WordIsRead ==
  ASSUME NEW input \in Seq(Symbols), NEW env, NEW p, NEW rest \in Seq(Symbols), NEW piece,
         piece.kind = "word", ClearPiece(piece, rest),
         Stands(input, p, Written(piece) \o rest), NEW reads
  PROVE  PieceRead(input, env, p, piece, rest, reads)
<1> DEFINE s == piece.symbol
<1>1. /\ s \in Symbols /\ (s = Sign => Alone(rest)) /\ Written(piece) = <<s>>
      /\ Value(piece, env) = Expanded(<<s>>)
  BY DEF ClearPiece, Written, Value, Undefined, Meaning
<1>2. Stands(input, p, <<s>> \o rest)
  BY <1>1, Zenon
<1> HIDE DEF s
<1>3. <<s>> \in Seq(Symbols) /\ Len(<<s>>) = 1 /\ <<s>>[1] = s
  BY <1>1
<1>4. p + 1 - 1 = p /\ p \in 1 .. Len(input) /\ input[p] = s /\ Stands(input, p + 1, rest)
  <2>1. p \in Nat /\ p + 1 - 1 = p
    BY DEF Stands
  <2>2. /\ \A k \in 1 .. Len(<<s>>) : input[p + k - 1] = <<s>>[k] /\ p + k - 1 \in 1 .. Len(input)
        /\ Stands(input, p + Len(<<s>>), rest)
    BY <1>3, <1>2, StandsAfter, Zenon
  <2>3. 1 \in 1 .. Len(<<s>>)
    BY <1>3
  <2> QED
    BY <1>3, <2>1, <2>2, <2>3
<1>5. /\ Len(rest) \in Nat /\ Len(input) = p + Len(rest)
      /\ \A k \in 1 .. Len(rest) : input[p + k] = rest[k]
  <2>1. /\ Len(input) + 1 = (p + 1) + Len(rest)
        /\ \A k \in 1 .. Len(rest) : input[(p + 1) + k - 1] = rest[k]
    BY <1>4 DEF Stands
  <2>2. \A k \in 1 .. Len(rest) : (p + 1) + k - 1 = p + k
    BY <1>4
  <2> QED
    BY <1>4, <2>1, <2>2
<1>6. ~Escapes(input, p)
  <2> SUFFICES ASSUME Escapes(input, p) PROVE FALSE
    OBVIOUS
  <2>1. s = Sign /\ p + 1 <= Len(input) /\ input[p + 1] = Sign
    BY <1>4 DEF Escapes, Is
  <2>2. rest # <<>> /\ rest[1] = Sign
    BY <1>4, <1>5, <2>1
  <2> QED
    BY <1>1, <2>1, <2>2 DEF Alone
<1>7. ~Opens(input, p)
  <2> SUFFICES ASSUME Opens(input, p) PROVE FALSE
    OBVIOUS
  <2>1. s = Sign /\ p + 1 <= Len(input) /\ input[p + 1] = Brace /\ Ends(input, p + 2) # {}
    BY <1>4 DEF Opens, Is
  <2>2. rest # <<>> /\ rest[1] = Brace
    BY <1>4, <1>5, <2>1
  <2>3. PICK j \in p + 2 .. Len(input) : input[j] = Close
    BY <2>1 DEF Ends
  <2>4. j - p \in 2 .. Len(rest) /\ p + (j - p) = j
    BY <1>4, <1>5
  <2>5. rest[j - p] = Close
    BY <1>5, <2>3, <2>4
  <2> QED
    BY <1>1, <2>1, <2>2, <2>4, <2>5 DEF Alone
<1>8. ReadAt(reads, input, env, p) = Followed(Value(piece, env), reads[p + 1])
  BY <1>1, <1>4, <1>6, <1>7 DEF ReadAt
<1> QED
  BY <1>4, <1>8 DEF PieceRead

\* "$$" is read as "$".
LEMMA DollarIsRead ==
  ASSUME NEW input \in Seq(Symbols), NEW env, NEW p, NEW rest \in Seq(Symbols), NEW piece,
         piece.kind = "dollar", Stands(input, p, Written(piece) \o rest), NEW reads
  PROVE  PieceRead(input, env, p, piece, rest, reads)
<1>1. Written(piece) = <<Sign, Sign>> /\ Value(piece, env) = Expanded(<<Sign>>)
  BY DEF Written, Value, Undefined, Meaning
<1>2. Stands(input, p, <<Sign, Sign>> \o rest)
  BY <1>1, Zenon
<1> DEFINE w == <<Sign, Sign>>
<1>3. w \in Seq(Symbols) /\ Len(w) = 2 /\ w[1] = Sign /\ w[2] = Sign
  BY MarksAreSymbols
<1>4. p \in Nat /\ p + 1 - 1 = p /\ p + 2 - 1 = p + 1
  BY DEF Stands
<1>5. /\ \A k \in 1 .. Len(w) : input[p + k - 1] = w[k] /\ p + k - 1 \in 1 .. Len(input)
      /\ Stands(input, p + Len(w), rest)
  BY <1>3, <1>2, StandsAfter, Zenon
<1> HIDE DEF w
<1>6. 1 \in 1 .. Len(w) /\ 2 \in 1 .. Len(w)
  BY <1>3
<1>7. /\ p \in 1 .. Len(input) /\ input[p] = Sign
      /\ p + 1 \in 1 .. Len(input) /\ input[p + 1] = Sign
      /\ Stands(input, p + 2, rest)
  BY <1>3, <1>4, <1>5, <1>6
<1>8. Escapes(input, p) /\ ~(p > Len(input))
  BY <1>7 DEF Escapes, Is
<1>9. ~Opens(input, p)
  BY <1>7, MarksDiffer DEF Opens, Is
<1>10. ReadAt(reads, input, env, p) = Followed(Value(piece, env), reads[p + 2])
  BY <1>1, <1>8, <1>9 DEF ReadAt
<1> QED
  BY <1>7, <1>10 DEF PieceRead

IsLookedUp(piece, env) ==
  /\ piece.kind \in {"var", "varOr"}
  /\ Body(piece) \in Seq(Symbols) /\ Lacks(Body(piece), {Close})
  /\ Placeholder(Body(piece), env) = Value(piece, env)

\* A placeholder whose body has no "}" in it is read as its body says.
LEMMA PlaceholderIsRead ==
  ASSUME NEW input \in Seq(Symbols), NEW env, NEW p, NEW rest \in Seq(Symbols), NEW piece,
         IsLookedUp(piece, env), Stands(input, p, Written(piece) \o rest), NEW reads
  PROVE  PieceRead(input, env, p, piece, rest, reads)
<1> DEFINE body == Body(piece)
<1>1. body \in Seq(Symbols) /\ Lacks(body, {Close}) /\ Placeholder(body, env) = Value(piece, env)
  BY DEF IsLookedUp
<1>2. Written(piece) = <<Sign, Brace>> \o body \o <<Close>>
  BY DEF Written, IsLookedUp
<1>3. Stands(input, p, (<<Sign, Brace>> \o body \o <<Close>>) \o rest)
  BY <1>2, Zenon
<1> HIDE DEF body
<1> DEFINE open == <<Sign, Brace>>
           front == open \o body
           w == front \o <<Close>>
           n == Len(body)
           end == p + 2 + n
<1>4. /\ open \in Seq(Symbols) /\ Len(open) = 2 /\ open[1] = Sign /\ open[2] = Brace
      /\ <<Close>> \in Seq(Symbols) /\ Len(<<Close>>) = 1 /\ <<Close>>[1] = Close
  BY MarksAreSymbols
<1> HIDE DEF open
<1>5. OneAfterOther(Symbols, open, body, front)
  BY <1>4, <1>1, Concat
<1> HIDE DEF front
<1>6. OneAfterOther(Symbols, front, <<Close>>, w)
  BY <1>4, <1>5, Concat DEF OneAfterOther
<1>7. /\ w \in Seq(Symbols) /\ Len(w) = n + 3 /\ n \in Nat
      /\ w[1] = Sign /\ w[2] = Brace /\ w[n + 3] = Close
      /\ \A k \in 1 .. n : w[2 + k] = body[k]
  BY <1>4, <1>5, <1>6 DEF OneAfterOther
<1>8. /\ \A k \in 1 .. Len(w) : input[p + k - 1] = w[k] /\ p + k - 1 \in 1 .. Len(input)
      /\ Stands(input, p + Len(w), rest)
  BY <1>7, <1>3, StandsAfter, Zenon DEF w, front, open
<1>9. p \in Nat \ {0} /\ Len(input) \in Nat
  BY DEF Stands
<1> HIDE DEF w
<1>10. /\ p \in 1 .. Len(input) /\ input[p] = Sign
      /\ p + 1 \in 1 .. Len(input) /\ input[p + 1] = Brace
      /\ end \in 1 .. Len(input) /\ input[end] = Close
  <2>1. 1 \in 1 .. Len(w) /\ 2 \in 1 .. Len(w) /\ n + 3 \in 1 .. Len(w)
    BY <1>7
  <2>2. p + 1 - 1 = p /\ p + 2 - 1 = p + 1 /\ p + (n + 3) - 1 = end
    BY <1>7, <1>9
  <2> QED
    BY <1>7, <1>8, <2>1, <2>2
<1>11. \A k \in 1 .. n : input[p + 1 + k] = body[k]
  <2> SUFFICES ASSUME NEW k \in 1 .. n PROVE input[p + 1 + k] = body[k]
    OBVIOUS
  <2>1. 2 + k \in 1 .. Len(w) /\ p + (2 + k) - 1 = p + 1 + k
    BY <1>7, <1>9
  <2> QED
    BY <1>7, <1>8, <2>1
<1>12. Escapes(input, p) = FALSE /\ Opens(input, p) /\ ~(p > Len(input))
  <2>1. end \in Ends(input, p + 2)
    BY <1>7, <1>9, <1>10 DEF Ends
  <2> QED
    BY <1>10, <2>1, MarksDiffer DEF Escapes, Opens, Is
<1>13. Min(Ends(input, p + 2)) = end
  <2> DEFINE first == Min(Ends(input, p + 2))
  <2>1. p + 2 \in Nat /\ Ends(input, p + 2) # {}
    BY <1>9, <1>12 DEF Opens
  <2>2. /\ first \in p + 2 .. Len(input) /\ input[first] = Close
        /\ \A j \in p + 2 .. Len(input) : input[j] = Close => first <= j
    BY <2>1, FirstEnd
  <2> HIDE DEF first
  <2>3. first <= end
    BY <1>7, <1>9, <1>10, <2>2
  <2>4. ASSUME first < end PROVE FALSE
    <3>1. first - p - 1 \in 1 .. n /\ p + 1 + (first - p - 1) = first
      BY <1>7, <1>9, <2>2, <2>4
    <3>2. body[first - p - 1] = Close
      BY <1>11, <2>2, <3>1
    <3> QED
      BY <1>1, <3>1, <3>2 DEF Lacks
  <2>5. first = end
    BY <1>9, <1>10, <2>2, <2>3, <2>4
  <2> QED
    BY <2>5 DEF first
<1>14. SubSeq(input, p + 2, end - 1) = body
  <2> DEFINE cut == SubSeq(input, p + 2, end - 1)
  <2>1. cut \in Seq(Symbols) /\ Len(cut) = n /\ \A k \in 1 .. n : cut[k] = input[p + 2 + k - 1]
    BY <1>7, <1>9, <1>10
  <2>2. \A k \in 1 .. n : p + 2 + k - 1 = p + 1 + k
    BY <1>7, <1>9
  <2> HIDE DEF cut
  <2>3. body \in Seq(Symbols) /\ Len(body) = n /\ \A k \in 1 .. n : cut[k] = body[k]
    BY <1>1, <1>11, <2>1, <2>2
  <2>4. cut = body
    BY <2>1, <2>3
  <2> QED
    BY <2>4 DEF cut
<1>15. end + 1 = p + Len(w)
  BY <1>7, <1>9
<1>16. ReadAt(reads, input, env, p) =
         Followed(Placeholder(SubSeq(input, p + 2, Min(Ends(input, p + 2)) - 1), env),
                  reads[Min(Ends(input, p + 2)) + 1])
  BY <1>12 DEF ReadAt
<1> HIDE DEF end
<1>17. ReadAt(reads, input, env, p) = Followed(Value(piece, env), reads[p + Len(w)])
  BY <1>1, <1>13, <1>14, <1>15, <1>16
<1> QED
  BY <1>8, <1>17 DEF PieceRead

-----------------------------------------------------------------------------
(***************************************************************************)
(* All pieces.                                                             *)
(***************************************************************************)
LEMMA WrittenIsText ==
  ASSUME NEW piece, NEW rest, piece.kind \in Kinds, ClearPiece(piece, rest)
  PROVE  Written(piece) \in Seq(Symbols)
<1>1. CASE piece.kind = "word"
  BY <1>1 DEF ClearPiece, Written
<1>2. CASE piece.kind = "dollar"
  BY <1>2, MarksAreSymbols DEF Written
<1>3. CASE piece.kind = "var"
  BY <1>3, MarksAreSymbols DEF ClearPiece, Written, Body
<1>4. CASE piece.kind = "varOr"
  <2>1. /\ piece.name \in Seq(Symbols) /\ piece.text \in Seq(Symbols)
        /\ <<Sign, Brace>> \in Seq(Symbols) /\ <<Else>> \in Seq(Symbols)
        /\ <<Close>> \in Seq(Symbols)
    BY <1>4, MarksAreSymbols DEF ClearPiece
  <2>2. Body(piece) \in Seq(Symbols)
    BY <1>4, <2>1 DEF Body
  <2> QED
    BY <1>4, <2>1, <2>2 DEF Written
<1> QED
  BY <1>1, <1>2, <1>3, <1>4 DEF Kinds

LEMMA PieceIsRead ==
  ASSUME NEW input \in Seq(Symbols), NEW env, NEW p, NEW rest \in Seq(Symbols), NEW piece,
         piece.kind \in Kinds, ClearPiece(piece, rest),
         Stands(input, p, Written(piece) \o rest), NEW reads
  PROVE  PieceRead(input, env, p, piece, rest, reads)
<1>1. CASE piece.kind = "word"
  BY <1>1, WordIsRead
<1>2. CASE piece.kind = "dollar"
  BY <1>2, DollarIsRead
<1>3. CASE piece.kind = "var"
  <2>1. Body(piece) = piece.name
    BY <1>3 DEF Body
  <2>2. piece.name \in Seq(Symbols) /\ Lacks(piece.name, {Close, Else})
    BY <1>3 DEF ClearPiece
  <2>3. Lacks(piece.name, {Close})
    BY <2>2 DEF Lacks
  <2>4. Placeholder(piece.name, env) = Value(piece, env)
    BY <1>3, <2>2, LookupVar DEF Placeholder, Value, Undefined, Meaning
  <2>5. /\ Body(piece) \in Seq(Symbols) /\ Lacks(Body(piece), {Close})
        /\ Placeholder(Body(piece), env) = Value(piece, env)
    BY <2>1, <2>2, <2>3, <2>4, Zenon
  <2>6. IsLookedUp(piece, env)
    BY <1>3, <2>5 DEF IsLookedUp
  <2> QED
    BY <2>6, PlaceholderIsRead
<1>4. CASE piece.kind = "varOr"
  <2> DEFINE body == piece.name \o <<Else>> \o piece.text
  <2>1. Body(piece) = body
    BY <1>4 DEF Body
  <2>2. /\ piece.name \in Seq(Symbols) /\ Lacks(piece.name, {Close, Else})
        /\ piece.text \in Seq(Symbols) /\ Lacks(piece.text, {Close})
    BY <1>4 DEF ClearPiece
  <2>3. body \in Seq(Symbols) /\ Lacks(body, {Close})
    <3> DEFINE a == piece.name
               b == piece.text
    <3>1. /\ Len(body) = Len(a) + 1 + Len(b) /\ body \in Seq(Symbols)
          /\ \A k \in 1 .. Len(a) : body[k] = a[k]
          /\ body[Len(a) + 1] = Else
          /\ \A k \in 1 .. Len(b) : body[Len(a) + 1 + k] = b[k]
      BY <2>2, BodyInOrder
    <3>2. Len(a) \in Nat /\ Len(b) \in Nat /\ Lacks(a, {Close}) /\ Lacks(b, {Close})
      <4>1. Lacks(a, {Close})
        <5>1. Lacks(a, {Close, Else})
          BY <2>2
        <5> QED
          BY <5>1 DEF Lacks
      <4>2. Len(a) \in Nat /\ Len(b) \in Nat
        BY <2>2
      <4> QED
        BY <2>2, <4>1, <4>2
    <3> HIDE DEF body, a, b
    <3>3. ASSUME NEW k \in 1 .. Len(body) PROVE body[k] # Close
      <4>1. CASE k <= Len(a)
        BY <3>1, <3>2, <4>1 DEF Lacks
      <4>2. CASE k = Len(a) + 1
        BY <3>1, <4>2, MarksDiffer
      <4>3. CASE k > Len(a) + 1
        <5>1. k - Len(a) - 1 \in 1 .. Len(b) /\ Len(a) + 1 + (k - Len(a) - 1) = k
          BY <3>1, <3>2, <4>3
        <5> QED
          BY <3>1, <3>2, <5>1 DEF Lacks
      <4> QED
        BY <3>2, <4>1, <4>2, <4>3
    <3> QED
      BY <3>1, <3>3 DEF Lacks
  <2>4. Placeholder(body, env) = Value(piece, env)
    BY <1>4, <2>2, LookupVarOr DEF Placeholder, Value, Undefined, Meaning
  <2> HIDE DEF body
  <2>5. /\ Body(piece) \in Seq(Symbols) /\ Lacks(Body(piece), {Close})
        /\ Placeholder(Body(piece), env) = Value(piece, env)
    BY <2>1, <2>3, <2>4, Zenon
  <2>6. IsLookedUp(piece, env)
    BY <1>4, <2>5 DEF IsLookedUp
  <2> QED
    BY <2>6, PlaceholderIsRead
<1> QED
  BY <1>1, <1>2, <1>3, <1>4 DEF Kinds

\* What the pieces from the i-th on come to.
AsMeant(read, pieces, env, i) ==
  IF \E j \in i .. Len(pieces) : Undefined(pieces[j], env)
    THEN ~read.ok
    ELSE read = Expanded(MeantFrom(pieces, env)[i])

LEMMA OneMorePiece ==
  ASSUME NEW pieces, Len(pieces) \in Nat, NEW env, NEW i \in 1 .. Len(pieces), NEW rest,
         AsMeant(rest, pieces, env, i + 1),
         MeantFrom(pieces, env)[i] = Meaning(pieces[i], env) \o MeantFrom(pieces, env)[i + 1]
  PROVE  AsMeant(Followed(Value(pieces[i], env), rest), pieces, env, i)
<1> DEFINE U(j) == Undefined(pieces[j], env)
           Late == \E j \in i + 1 .. Len(pieces) : U(j)
           read == Followed(Value(pieces[i], env), rest)
<1>1. (\E j \in i .. Len(pieces) : U(j)) <=> U(i) \/ Late
  <2> HIDE DEF U
  <2>1. \A j \in i .. Len(pieces) : j = i \/ j \in i + 1 .. Len(pieces)
    OBVIOUS
  <2>2. i \in i .. Len(pieces) /\ \A j \in i + 1 .. Len(pieces) : j \in i .. Len(pieces)
    OBVIOUS
  <2> QED
    BY <2>1, <2>2
<1>2. Late => ~rest.ok
  BY DEF AsMeant
<1>3. ~Late => rest = Expanded(MeantFrom(pieces, env)[i + 1])
  BY DEF AsMeant
<1> HIDE DEF Late
<1>4. CASE U(i)
  <2>1. ~Value(pieces[i], env).ok
    BY <1>4 DEF Value, MissingEnv
  <2>2. ~read.ok
    BY <2>1 DEF Followed
  <2> QED
    BY <1>1, <1>4, <2>2 DEF AsMeant
<1>5. CASE ~U(i)
  <2>1. /\ Value(pieces[i], env).ok
        /\ Value(pieces[i], env).text = Meaning(pieces[i], env)
    BY <1>5 DEF Value, Expanded
  <2>2. CASE Late
    <3>1. ~read.ok
      BY <1>2, <2>1, <2>2 DEF Followed
    <3> QED
      BY <1>1, <2>2, <3>1 DEF AsMeant
  <2>3. CASE ~Late
    <3>1. rest.ok /\ rest.text = MeantFrom(pieces, env)[i + 1]
      BY <1>3, <2>3 DEF Expanded
    <3>2. read = Expanded(MeantFrom(pieces, env)[i])
      BY <2>1, <3>1 DEF Followed
    <3> QED
      BY <1>1, <1>5, <2>3, <3>2 DEF AsMeant
  <2> QED
    BY <2>2, <2>3
<1> QED
  BY <1>4, <1>5

\* A sequence that is given by its elements has as many as it is given.
LEMMA LengthOf ==
  ASSUME NEW n \in Nat, NEW f, f = [i \in 1 .. n |-> f[i]]
  PROVE  Len(f) = n
<1> DEFINE X == {f[i] : i \in 1 .. n}
<1>1. \A i \in 1 .. n : f[i] \in X
  OBVIOUS
<1> HIDE DEF X
<1>2. f \in [1 .. n -> X]
  BY <1>1
<1>3. f \in Seq(X)
  BY <1>2
<1> QED
  BY <1>2, <1>3

\* The texts of the pieces from i on are the text of the i-th and those from
\* i + 1 on; likewise what they mean.
LEMMA TextsInOrder ==
  ASSUME NEW n \in Nat, NEW texts, texts = [i \in 1 .. n |-> texts[i]]
  PROVE  /\ Joined(texts)[n + 1] = <<>>
         /\ \A i \in 1 .. n : Joined(texts)[i] = texts[i] \o Joined(texts)[i + 1]
<1>1. Len(texts) = n
  BY LengthOf
<1>2. Joining(Joined(texts), texts, 1)
  BY <1>1, JoinedSteps
<1> DEFINE from == Joined(texts)
<1> HIDE DEF from
<1>3. from = [i \in 1 .. n + 1 |-> IF i = n + 1 THEN <<>> ELSE texts[i] \o from[i + 1]]
  BY <1>1, <1>2 DEF Joining, from
<1>4. n + 1 \in 1 .. n + 1 /\ \A i \in 1 .. n : i \in 1 .. n + 1 /\ i # n + 1
  OBVIOUS
<1>5. from[n + 1] = <<>> /\ \A i \in 1 .. n : from[i] = texts[i] \o from[i + 1]
  BY <1>3, <1>4
<1> QED
  BY <1>5 DEF from

LEMMA PiecesInOrder ==
  ASSUME NEW pieces, Len(pieces) \in Nat, NEW env
  PROVE  LET n == Len(pieces) IN
         /\ WrittenFrom(pieces)[n + 1] = <<>> /\ MeantFrom(pieces, env)[n + 1] = <<>>
         /\ \A i \in 1 .. n :
              /\ WrittenFrom(pieces)[i] = Written(pieces[i]) \o WrittenFrom(pieces)[i + 1]
              /\ MeantFrom(pieces, env)[i] =
                   Meaning(pieces[i], env) \o MeantFrom(pieces, env)[i + 1]
<1> DEFINE n == Len(pieces)
           W == [i \in 1 .. n |-> Written(pieces[i])]
           M == [i \in 1 .. n |-> Meaning(pieces[i], env)]
<1>1. W = [i \in 1 .. n |-> W[i]] /\ M = [i \in 1 .. n |-> M[i]]
  OBVIOUS
<1>2. \A i \in 1 .. n : W[i] = Written(pieces[i]) /\ M[i] = Meaning(pieces[i], env)
  OBVIOUS
<1>3. WrittenFrom(pieces) = Joined(W) /\ MeantFrom(pieces, env) = Joined(M)
  BY DEF WrittenFrom, MeantFrom
<1> HIDE DEF W, M
<1>4. /\ Joined(W)[n + 1] = <<>> /\ \A i \in 1 .. n : Joined(W)[i] = W[i] \o Joined(W)[i + 1]
      /\ Joined(M)[n + 1] = <<>> /\ \A i \in 1 .. n : Joined(M)[i] = M[i] \o Joined(M)[i + 1]
  BY <1>1, TextsInOrder, Zenon
<1> QED
  BY <1>2, <1>3, <1>4

LEMMA NothingIsMeant ==
  ASSUME NEW env
  PROVE  MeantText(<<>>, env) = <<>>
<1>1. Len(<<>>) \in Nat /\ Len(<<>>) + 1 = 1
  OBVIOUS
<1>2. MeantFrom(<<>>, env)[Len(<<>>) + 1] = <<>>
  BY <1>1, PiecesInOrder
<1> QED
  BY <1>1, <1>2 DEF MeantText

LEMMA TextsAreTyped ==
  ASSUME NEW pieces, Clear(pieces)
  PROVE  \A i \in 1 .. Len(pieces) + 1 : WrittenFrom(pieces)[i] \in Seq(Symbols)
<1> DEFINE n == Len(pieces)
           from == WrittenFrom(pieces)
           T == {k \in 0 .. n : from[k + 1] \in Seq(Symbols)}
<1>1. n \in Nat
  BY DEF Clear
<1>2. from[n + 1] = <<>> /\ \A i \in 1 .. n : from[i] = Written(pieces[i]) \o from[i + 1]
  BY <1>1, PiecesInOrder
<1>3. \A i \in 1 .. n : Written(pieces[i]) \in Seq(Symbols)
  BY WrittenIsText DEF Clear
<1> HIDE DEF n, from
<1>4. n \in T
  <2>1. n \in 0 .. n /\ from[n + 1] = <<>>
    BY <1>1, <1>2
  <2>2. <<>> \in Seq(Symbols)
    OBVIOUS
  <2> QED
    BY <2>1, <2>2
<1>5. ASSUME NEW k \in 0 .. n, k \in T /\ k > 0 PROVE k - 1 \in T
  <2>1. k \in 1 .. n /\ k - 1 \in 0 .. n /\ (k - 1) + 1 = k
    BY <1>1, <1>5
  <2>2. from[k] = Written(pieces[k]) \o from[k + 1] /\ Written(pieces[k]) \in Seq(Symbols)
    BY <1>2, <1>3, <2>1
  <2>3. from[k + 1] \in Seq(Symbols)
    BY <1>5
  <2>4. from[k] \in Seq(Symbols)
    BY <2>2, <2>3
  <2> QED
    BY <2>1, <2>4
<1> HIDE DEF T
<1>6. 0 .. n \subseteq T
  BY <1>1, <1>4, <1>5, DownFrom
<1>7. ASSUME NEW i \in 1 .. n + 1 PROVE from[i] \in Seq(Symbols)
  <2>1. i - 1 \in 0 .. n /\ (i - 1) + 1 = i
    BY <1>1
  <2> QED
    BY <1>6, <2>1 DEF T
<1> QED
  BY <1>7 DEF n, from

\* Whatever pieces a text was written from, the scanner finds them: it fails if
\* one of them is a variable without a value or default, and otherwise gives
\* what they mean one after the other, values and defaults as they stand.
THEOREM ExpandsAsMeant ==
  ASSUME NEW pieces, Clear(pieces), NEW env
  PROVE  LET read == expand(WrittenText(pieces), env) IN
         IF \E i \in DOMAIN pieces : Undefined(pieces[i], env)
           THEN ~read.ok
           ELSE read = Expanded(MeantText(pieces, env))
<1> DEFINE n == Len(pieces)
           from == WrittenFrom(pieces)
           input == from[1]
<1>1. n \in Nat /\ DOMAIN pieces = 1 .. n
  BY DEF Clear
<1>2. \A i \in 1 .. n + 1 : from[i] \in Seq(Symbols)
  BY TextsAreTyped
<1>3. /\ from[n + 1] = <<>> /\ MeantFrom(pieces, env)[n + 1] = <<>>
      /\ \A i \in 1 .. n :
           /\ from[i] = Written(pieces[i]) \o from[i + 1]
           /\ MeantFrom(pieces, env)[i] = Meaning(pieces[i], env) \o MeantFrom(pieces, env)[i + 1]
  BY <1>1, PiecesInOrder
<1>4. \A i \in 1 .. n : pieces[i].kind \in Kinds /\ ClearPiece(pieces[i], from[i + 1])
  BY DEF Clear
<1> HIDE DEF from
<1>5. input \in Seq(Symbols)
  BY <1>1, <1>2
<1>6. PICK reads : Reads(reads, input, env, 1) /\ expand(input, env) = reads[1]
  BY <1>5, ExpandSteps
<1> HIDE DEF input
<1>7. \A p \in 1 .. Len(input) + 1 : reads[p] = ReadAt(reads, input, env, p)
  BY <1>6 DEF Reads
<1> DEFINE T == {k \in 0 .. n : \A p : Stands(input, p, from[k + 1]) =>
                                        AsMeant(reads[p], pieces, env, k + 1)}
<1>8. n \in T
  <2> SUFFICES ASSUME NEW p, Stands(input, p, <<>>)
               PROVE  AsMeant(reads[p], pieces, env, n + 1)
    BY <1>1, <1>3
  <2>1. p \in 1 .. Len(input) + 1 /\ p > Len(input)
    BY <1>5 DEF Stands
  <2>2. ReadAt(reads, input, env, p) = Expanded(<<>>)
    <3>1. ~Escapes(input, p) /\ ~Opens(input, p)
      BY <1>5, <2>1 DEF Escapes, Opens, Is
    <3> QED
      BY <2>1, <3>1 DEF ReadAt
  <2>3. reads[p] = Expanded(MeantFrom(pieces, env)[n + 1])
    BY <1>3, <1>7, <2>1, <2>2
  <2>4. ~ \E j \in n + 1 .. n : Undefined(pieces[j], env)
    BY <1>1
  <2> QED
    BY <2>3, <2>4 DEF AsMeant
<1>9. ASSUME NEW k \in 0 .. n, k \in T /\ k > 0 PROVE k - 1 \in T
  <2>1. k \in 1 .. n /\ k - 1 \in 0 .. n /\ (k - 1) + 1 = k /\ k + 1 \in 1 .. n + 1
    BY <1>1, <1>9
  <2> SUFFICES ASSUME NEW p, Stands(input, p, from[k])
               PROVE  AsMeant(reads[p], pieces, env, k)
    BY <2>1
  <2>2. from[k] = Written(pieces[k]) \o from[k + 1] /\ from[k + 1] \in Seq(Symbols)
    BY <1>2, <1>3, <2>1
  <2>3. Stands(input, p, Written(pieces[k]) \o from[k + 1])
    BY <2>2, Zenon
  <2>4. PieceRead(input, env, p, pieces[k], from[k + 1], reads)
    BY <1>4, <1>5, <2>1, <2>2, <2>3, PieceIsRead
  <2>5. PICK q : /\ Stands(input, q, from[k + 1])
                 /\ ReadAt(reads, input, env, p) = Followed(Value(pieces[k], env), reads[q])
    BY <2>4 DEF PieceRead
  <2>6. AsMeant(reads[q], pieces, env, k + 1)
    BY <1>9, <2>5
  <2>7. p \in 1 .. Len(input) + 1
    BY DEF Stands
  <2>8. reads[p] = Followed(Value(pieces[k], env), reads[q])
    BY <1>7, <2>5, <2>7
  <2>9. AsMeant(Followed(Value(pieces[k], env), reads[q]), pieces, env, k)
    BY <1>1, <1>3, <2>1, <2>6, OneMorePiece
  <2> QED
    BY <2>8, <2>9
<1> HIDE DEF T
<1>10. 0 .. n \subseteq T
  BY <1>1, <1>8, <1>9, DownFrom
<1>11. 0 \in T /\ 0 + 1 = 1
  BY <1>1, <1>10
<1>12. Stands(input, 1, from[1])
  <2>1. Len(input) \in Nat
    BY <1>5
  <2> QED
    BY <2>1 DEF Stands, input
<1>13. AsMeant(reads[1], pieces, env, 1)
  BY <1>11, <1>12 DEF T
<1>14. WrittenText(pieces) = input /\ MeantText(pieces, env) = MeantFrom(pieces, env)[1]
  BY DEF WrittenText, MeantText, input, from
<1> QED
  BY <1>1, <1>6, <1>13, <1>14 DEF AsMeant

-----------------------------------------------------------------------------
(***************************************************************************)
(* There are such pieces for every text.                                   *)
(***************************************************************************)
HasPieces(text) == \E pieces : Clear(pieces) /\ WrittenText(pieces) = text

LEMMA NoPieces == HasPieces(<<>>)
<1>1. Len(<<>>) = 0 /\ DOMAIN <<>> = {} /\ 1 .. 0 = {} /\ Len(<<>>) + 1 = 1
  OBVIOUS
<1>2. Clear(<<>>)
  BY <1>1 DEF Clear
<1>3. WrittenFrom(<<>>)[Len(<<>>) + 1] = <<>>
  BY <1>1, PiecesInOrder
<1> QED
  BY <1>1, <1>2, <1>3 DEF HasPieces, WrittenText

\* A piece before others.
LEMMA PieceBefore ==
  ASSUME NEW pieces, Clear(pieces), NEW piece, piece.kind \in Kinds,
         ClearPiece(piece, WrittenText(pieces))
  PROVE  HasPieces(Written(piece) \o WrittenText(pieces))
<1> DEFINE n == Len(pieces)
           all == [i \in 1 .. n + 1 |-> IF i = 1 THEN piece ELSE pieces[i - 1]]
           old == WrittenFrom(pieces)
           new == WrittenFrom(all)
           T == {k \in 0 .. n : new[k + 2] = old[k + 1]}
<1>1. n \in Nat /\ n + 1 \in Nat
  BY DEF Clear
<1>2. all[1] = piece /\ \A i \in 1 .. n : all[i + 1] = pieces[i]
  BY <1>1
<1>3. all = [i \in 1 .. n + 1 |-> all[i]] /\ DOMAIN all = 1 .. n + 1
  OBVIOUS
<1> HIDE DEF all
<1>4. Len(all) = n + 1
  BY <1>1, <1>3, LengthOf
<1>5. old[n + 1] = <<>> /\ \A i \in 1 .. n : old[i] = Written(pieces[i]) \o old[i + 1]
  BY <1>1, PiecesInOrder
<1>6. new[n + 2] = <<>> /\ \A i \in 1 .. n + 1 : new[i] = Written(all[i]) \o new[i + 1]
  <2>1. Len(all) \in Nat /\ Len(all) + 1 = n + 2
    BY <1>1, <1>4
  <2>2. /\ new[Len(all) + 1] = <<>>
        /\ \A i \in 1 .. Len(all) : new[i] = Written(all[i]) \o new[i + 1]
    BY <2>1, PiecesInOrder
  <2> QED
    BY <1>4, <2>1, <2>2
<1> HIDE DEF n, old, new
<1>7. n \in T
  BY <1>1, <1>5, <1>6
<1>8. ASSUME NEW k \in 0 .. n, k \in T /\ k > 0 PROVE k - 1 \in T
  <2>1. /\ k \in 1 .. n /\ k - 1 \in 0 .. n /\ k + 1 \in 1 .. n + 1
        /\ (k - 1) + 2 = k + 1 /\ (k - 1) + 1 = k /\ (k + 1) + 1 = k + 2
    BY <1>1, <1>8
  <2>2. new[k + 1] = Written(all[k + 1]) \o new[k + 2]
    BY <1>6, <2>1
  <2>3. old[k] = Written(pieces[k]) \o old[k + 1]
    BY <1>5, <2>1
  <2>4. all[k + 1] = pieces[k] /\ new[k + 2] = old[k + 1]
    BY <1>2, <1>8, <2>1
  <2>5. new[k + 1] = old[k]
    BY <2>2, <2>3, <2>4
  <2> QED
    BY <2>1, <2>5
<1> HIDE DEF T
<1>9. 0 .. n \subseteq T
  BY <1>1, <1>7, <1>8, DownFrom
<1>10. \A i \in 1 .. n + 1 : new[i + 1] = old[i]
  <2> SUFFICES ASSUME NEW i \in 1 .. n + 1 PROVE new[i + 1] = old[i]
    OBVIOUS
  <2>1. i - 1 \in 0 .. n /\ (i - 1) + 2 = i + 1 /\ (i - 1) + 1 = i
    BY <1>1
  <2> QED
    BY <1>9, <2>1 DEF T
<1>11. WrittenText(pieces) = old[1] /\ WrittenText(all) = new[1]
  BY DEF WrittenText, old, new
<1>12. WrittenText(all) = Written(piece) \o WrittenText(pieces)
  <2>1. 1 \in 1 .. n + 1 /\ 1 + 1 = 2
    BY <1>1
  <2>2. new[1] = Written(all[1]) \o new[2] /\ new[2] = old[1]
    BY <1>6, <1>10, <2>1
  <2> QED
    BY <1>2, <1>11, <2>2
<1>13. Clear(all)
  <2>1. ASSUME NEW i \in 1 .. n + 1
        PROVE  all[i].kind \in Kinds /\ ClearPiece(all[i], new[i + 1])
    <3>1. CASE i = 1
      BY <1>1, <1>2, <1>10, <1>11, <3>1
    <3>2. CASE i # 1
      <4>1. i - 1 \in 1 .. n /\ (i - 1) + 1 = i
        BY <1>1, <3>2
      <4>2. all[i] = pieces[i - 1] /\ new[i + 1] = old[i]
        BY <1>2, <1>10, <4>1
      <4>3. pieces[i - 1].kind \in Kinds /\ ClearPiece(pieces[i - 1], old[i])
        BY <4>1 DEF Clear, n, old
      <4> QED
        BY <4>2, <4>3
    <3> QED
      BY <3>1, <3>2
  <2> QED
    BY <1>1, <1>3, <1>4, <2>1 DEF Clear, new
<1> QED
  BY <1>12, <1>13 DEF HasPieces

\* A text falls into what is before a position, the symbol there, and the rest.
LEMMA SplitAt ==
  ASSUME NEW t \in Seq(Symbols), NEW k \in 1 .. Len(t)
  PROVE  LET a == SubSeq(t, 1, k - 1)  b == SubSeq(t, k + 1, Len(t)) IN
         /\ a \in Seq(Symbols) /\ Len(a) = k - 1 /\ \A i \in 1 .. k - 1 : a[i] = t[i]
         /\ b \in Seq(Symbols) /\ Len(b) = Len(t) - k
         /\ t = a \o <<t[k]>> \o b
<1> DEFINE a == SubSeq(t, 1, k - 1)
           b == SubSeq(t, k + 1, Len(t))
           m == <<t[k]>>
           am == a \o m
           all == am \o b
<1>1. /\ a \in Seq(Symbols) /\ Len(a) = k - 1 /\ \A i \in 1 .. k - 1 : a[i] = t[i]
      /\ b \in Seq(Symbols) /\ Len(b) = Len(t) - k
      /\ \A i \in 1 .. Len(t) - k : b[i] = t[k + i]
  OBVIOUS
<1>2. m \in Seq(Symbols) /\ Len(m) = 1 /\ m[1] = t[k]
  OBVIOUS
<1> HIDE DEF a, b, m
<1>3. OneAfterOther(Symbols, a, m, am)
  BY <1>1, <1>2, Concat
<1>4. OneAfterOther(Symbols, am, b, all)
  <2>1. am \in Seq(Symbols)
    BY <1>3 DEF OneAfterOther
  <2> HIDE DEF am
  <2> QED
    BY <1>1, <2>1, Concat
<1>5. /\ all \in Seq(Symbols) /\ Len(all) = Len(t) /\ Len(am) = k
      /\ \A i \in 1 .. k - 1 : all[i] = a[i]
      /\ all[k] = m[1]
      /\ \A i \in 1 .. Len(t) - k : all[k + i] = b[i]
  BY <1>1, <1>2, <1>3, <1>4 DEF OneAfterOther
<1> HIDE DEF am, all
<1>6. ASSUME NEW i \in 1 .. Len(t) PROVE all[i] = t[i]
  <2>1. CASE i < k
    BY <1>1, <1>5, <2>1
  <2>2. CASE i = k
    BY <1>2, <1>5, <2>2
  <2>3. CASE i > k
    <3>1. i - k \in 1 .. Len(t) - k /\ k + (i - k) = i
      BY <2>3
    <3>2. all[k + (i - k)] = b[i - k] /\ b[i - k] = t[k + (i - k)]
      BY <1>1, <1>5, <3>1
    <3> QED
      BY <3>1, <3>2
  <2> QED
    BY <2>1, <2>2, <2>3
<1>7. all = t
  BY <1>5, <1>6
<1> QED
  BY <1>1, <1>7 DEF a, b, m, am, all

\* The first two symbols, and the rest.
LEMMA SplitAfterTwo ==
  ASSUME NEW t \in Seq(Symbols), Len(t) >= 2
  PROVE  LET b == SubSeq(t, 3, Len(t)) IN
         /\ b \in Seq(Symbols) /\ Len(b) = Len(t) - 2
         /\ \A i \in 1 .. Len(b) : b[i] = t[i + 2]
         /\ t = <<t[1], t[2]>> \o b
<1> DEFINE a == <<t[1], t[2]>>
           b == SubSeq(t, 3, Len(t))
           all == a \o b
<1>1. /\ a \in Seq(Symbols) /\ Len(a) = 2 /\ a[1] = t[1] /\ a[2] = t[2]
      /\ b \in Seq(Symbols) /\ Len(b) = Len(t) - 2
      /\ \A i \in 1 .. Len(b) : b[i] = t[i + 2]
  <2>1. Len(t) \in Nat /\ 1 \in 1 .. Len(t) /\ 2 \in 1 .. Len(t)
    OBVIOUS
  <2>2. a \in Seq(Symbols) /\ Len(a) = 2 /\ a[1] = t[1] /\ a[2] = t[2]
    BY <2>1
  <2>3. b \in Seq(Symbols) /\ Len(b) = Len(t) - 2
    <3>1. /\ SubSeq(t, 2 + 1, Len(t)) \in Seq(Symbols)
          /\ Len(SubSeq(t, 2 + 1, Len(t))) = Len(t) - 2
      BY <2>1, SplitAt
    <3> QED
      BY <3>1, 2 + 1 = 3
  <2>4. \A i \in 1 .. Len(t) - 2 : b[i] = t[i + 2]
    BY <2>1
  <2> QED
    BY <2>2, <2>3, <2>4
<1> HIDE DEF a, b
<1>2. OneAfterOther(Symbols, a, b, all)
  BY <1>1, Concat
<1>3. /\ all \in Seq(Symbols) /\ Len(all) = Len(t)
      /\ all[1] = t[1] /\ all[2] = t[2]
      /\ \A i \in 1 .. Len(b) : all[2 + i] = b[i]
  BY <1>1, <1>2 DEF OneAfterOther
<1> HIDE DEF all
<1>4. ASSUME NEW i \in 1 .. Len(t) PROVE all[i] = t[i]
  <2>1. CASE i \in {1, 2}
    BY <1>3, <2>1
  <2>2. CASE i \notin {1, 2}
    <3>1. i - 2 \in 1 .. Len(b) /\ 2 + (i - 2) = i /\ (i - 2) + 2 = i
      BY <1>1, <2>2
    <3>2. all[2 + (i - 2)] = b[i - 2] /\ b[i - 2] = t[(i - 2) + 2]
      BY <1>1, <1>3, <3>1
    <3> QED
      BY <3>1, <3>2
  <2> QED
    BY <2>1, <2>2
<1>5. all = t
  BY <1>3, <1>4
<1> QED
  BY <1>1, <1>5 DEF a, b, all

\* What a text begins with.
Begins(t) ==
  \E piece, rest : /\ rest \in Seq(Symbols) /\ Len(rest) < Len(t)
                   /\ piece.kind \in Kinds /\ ClearPiece(piece, rest)
                   /\ t = Written(piece) \o rest

LEMMA BeginsWithWord ==
  ASSUME NEW t \in Seq(Symbols), t # <<>>, t[1] = Sign => Alone(Tail(t))
  PROVE  Begins(t)
<1> DEFINE rest == Tail(t)
           piece == Word(t[1])
<1>1. /\ rest \in Seq(Symbols) /\ Len(rest) < Len(t) /\ t[1] \in Symbols
      /\ t = <<t[1]>> \o rest
  OBVIOUS
<1>2. piece.kind = "word" /\ piece.symbol = t[1]
  BY DEF Word
<1>3. piece.kind \in Kinds /\ ClearPiece(piece, rest) /\ Written(piece) = <<t[1]>>
  BY <1>1, <1>2 DEF Kinds, ClearPiece, Written
<1> HIDE DEF piece, rest
<1>4. t = Written(piece) \o rest
  BY <1>1, <1>3, Zenon
<1> QED
  BY <1>1, <1>3, <1>4, Zenon DEF Begins

LEMMA BeginsWithDollar ==
  ASSUME NEW t \in Seq(Symbols), Len(t) >= 2, t[1] = Sign, t[2] = Sign
  PROVE  Begins(t)
<1> DEFINE rest == SubSeq(t, 3, Len(t))
<1>1. /\ rest \in Seq(Symbols) /\ Len(rest) < Len(t)
      /\ t = <<Sign, Sign>> \o rest
  BY SplitAfterTwo
<1>2. Dollar.kind = "dollar"
  BY DEF Dollar
<1>3. Dollar.kind \in Kinds /\ ClearPiece(Dollar, rest) /\ Written(Dollar) = <<Sign, Sign>>
  BY <1>2 DEF Kinds, ClearPiece, Written
<1> HIDE DEF rest
<1>4. t = Written(Dollar) \o rest
  BY <1>1, <1>3, Zenon
<1> QED
  BY <1>1, <1>3, <1>4, Zenon DEF Begins

\* A text without "}" is the body of a placeholder.
LEMMA BodyHasPiece ==
  ASSUME NEW body \in Seq(Symbols), Lacks(body, {Close}), NEW rest
  PROVE  \E piece : /\ piece.kind \in {"var", "varOr"} /\ ClearPiece(piece, rest)
                    /\ Body(piece) = body
<1> DEFINE I == {i \in 1 .. Len(body) : body[i] = Else}
<1>1. CASE I = {}
  <2>1. Lacks(body, {Close, Else})
    BY <1>1 DEF Lacks
  <2>2. Var(body).kind = "var" /\ Var(body).name = body
    BY DEF Var
  <2>3. ClearPiece(Var(body), rest) /\ Body(Var(body)) = body
    BY <2>1, <2>2 DEF ClearPiece, Body
  <2> QED
    BY <2>2, <2>3
<1>2. CASE I # {}
  <2>1. PICK c \in I : \A i \in I : c <= i
    <3>1. I \in SUBSET Nat
      OBVIOUS
    <3> QED
      BY <1>2, <3>1, Least
  <2> DEFINE name == SubSeq(body, 1, c - 1)
             text == SubSeq(body, c + 1, Len(body))
             piece == VarOr(name, text)
  <2>2. c \in 1 .. Len(body) /\ body[c] = Else
    OBVIOUS
  <2>3. /\ name \in Seq(Symbols) /\ Len(name) = c - 1 /\ \A i \in 1 .. c - 1 : name[i] = body[i]
        /\ text \in Seq(Symbols) /\ Len(text) = Len(body) - c
        /\ body = name \o <<Else>> \o text
    BY <2>2, SplitAt
  <2>4. \A i \in 1 .. Len(text) : text[i] = body[c + i]
    BY <2>2
  <2>5. piece.kind = "varOr" /\ piece.name = name /\ piece.text = text
    BY DEF VarOr
  <2> HIDE DEF name, text, piece
  <2>6. Lacks(name, {Close, Else})
    <3> SUFFICES ASSUME NEW i \in 1 .. Len(name) PROVE name[i] # Close /\ name[i] # Else
      BY DEF Lacks
    <3>1. i \in 1 .. c - 1 /\ i \in 1 .. Len(body) /\ ~(c <= i)
      BY <2>2, <2>3
    <3>2. body[i] # Else
      BY <2>1, <3>1
    <3> QED
      BY <2>3, <3>1, <3>2 DEF Lacks
  <2>7. Lacks(text, {Close})
    <3> SUFFICES ASSUME NEW i \in 1 .. Len(text) PROVE text[i] # Close
      BY DEF Lacks
    <3>1. c + i \in 1 .. Len(body)
      BY <2>2, <2>3
    <3> QED
      BY <2>4, <3>1 DEF Lacks
  <2>8. ClearPiece(piece, rest)
    BY <2>3, <2>5, <2>6, <2>7 DEF ClearPiece
  <2>9. Body(piece) = body
    BY <2>3, <2>5 DEF Body
  <2> QED
    BY <2>5, <2>8, <2>9
<1> QED
  BY <1>1, <1>2

LEMMA BeginsWithPlaceholder ==
  ASSUME NEW t \in Seq(Symbols), Len(t) >= 2, t[1] = Sign, t[2] = Brace, Ends(t, 3) # {}
  PROVE  Begins(t)
<1> DEFINE k == Min(Ends(t, 3))
           front == SubSeq(t, 1, k - 1)
           body == SubSeq(front, 3, Len(front))
           rest == SubSeq(t, k + 1, Len(t))
<1>1. /\ k \in 3 .. Len(t) /\ t[k] = Close
      /\ \A j \in 3 .. Len(t) : t[j] = Close => k <= j
  BY FirstEnd
<1> HIDE DEF k
<1>2. /\ front \in Seq(Symbols) /\ Len(front) = k - 1 /\ \A i \in 1 .. k - 1 : front[i] = t[i]
      /\ rest \in Seq(Symbols) /\ Len(rest) = Len(t) - k
      /\ t = front \o <<Close>> \o rest
  <2>1. k \in 1 .. Len(t)
    BY <1>1
  <2> QED
    BY <1>1, <2>1, SplitAt
<1> HIDE DEF front, rest
<1>3. front[1] = Sign /\ front[2] = Brace /\ Len(front) >= 2
  BY <1>1, <1>2
<1>4. /\ body \in Seq(Symbols) /\ Len(body) = Len(front) - 2
      /\ \A i \in 1 .. Len(body) : body[i] = front[i + 2]
      /\ front = <<Sign, Brace>> \o body
  BY <1>2, <1>3, SplitAfterTwo
<1> HIDE DEF body
<1>5. Lacks(body, {Close})
  <2> SUFFICES ASSUME NEW i \in 1 .. Len(body) PROVE body[i] # Close
    BY DEF Lacks
  <2>1. i + 2 \in 1 .. k - 1 /\ i + 2 \in 3 .. Len(t) /\ ~(k <= i + 2)
    BY <1>1, <1>2, <1>4
  <2> QED
    BY <1>1, <1>2, <1>4, <2>1
<1>6. PICK piece : /\ piece.kind \in {"var", "varOr"} /\ ClearPiece(piece, rest)
                   /\ Body(piece) = body
  BY <1>4, <1>5, BodyHasPiece
<1>7. Written(piece) = front \o <<Close>>
  BY <1>4, <1>6 DEF Written
<1>8. t = Written(piece) \o rest
  BY <1>2, <1>7, Zenon
<1>9. piece.kind \in Kinds /\ Len(rest) < Len(t)
  BY <1>1, <1>2, <1>6 DEF Kinds
<1> QED
  BY <1>2, <1>6, <1>8, <1>9, Zenon DEF Begins

LEMMA EveryTextBegins ==
  ASSUME NEW t \in Seq(Symbols), t # <<>>
  PROVE  Begins(t)
<1> DEFINE tail == Tail(t)
<1>1. CASE t[1] = Sign => Alone(tail)
  BY <1>1, BeginsWithWord
<1>2. CASE t[1] = Sign /\ ~Alone(tail)
  <2>1. /\ Len(t) \in Nat /\ Len(tail) = Len(t) - 1 /\ tail \in Seq(Symbols)
        /\ \A i \in 1 .. Len(tail) : tail[i] = t[i + 1]
    OBVIOUS
  <2> HIDE DEF tail
  <2>2. tail # <<>> /\ Len(t) >= 2 /\ tail[1] = t[2]
    BY <1>2, <2>1 DEF Alone
  <2>3. CASE t[2] = Sign
    BY <1>2, <2>2, <2>3, BeginsWithDollar
  <2>4. CASE t[2] # Sign
    <3>1. PICK j \in 2 .. Len(tail) : tail[1] = Brace /\ tail[j] = Close
      BY <1>2, <2>2, <2>4 DEF Alone
    <3>2. j + 1 \in 3 .. Len(t) /\ t[j + 1] = Close
      BY <2>1, <3>1
    <3>3. Ends(t, 3) # {}
      BY <3>2 DEF Ends
    <3> QED
      BY <1>2, <2>2, <3>1, <3>3, BeginsWithPlaceholder
  <2> QED
    BY <2>3, <2>4
<1> QED
  BY <1>1, <1>2

\* Every text whatsoever was written from some pieces: what ExpandsAsMeant says
\* of a text that was, it says of all that can stand in a file.
THEOREM EveryTextHasPieces == \A text \in Seq(Symbols) : HasPieces(text)
<1> DEFINE T == {m \in Nat : \A t \in Seq(Symbols) : Len(t) <= m => HasPieces(t)}
<1>1. 0 \in T
  <2> SUFFICES ASSUME NEW t \in Seq(Symbols), Len(t) <= 0 PROVE HasPieces(t)
    OBVIOUS
  <2>1. t = <<>>
    OBVIOUS
  <2> QED
    BY <2>1, NoPieces
<1>2. ASSUME NEW m \in Nat, m \in T PROVE m + 1 \in T
  <2> SUFFICES ASSUME NEW t \in Seq(Symbols), Len(t) <= m + 1 PROVE HasPieces(t)
    OBVIOUS
  <2>1. CASE t = <<>>
    BY <2>1, NoPieces
  <2>2. CASE t # <<>>
    <3>1. PICK piece, rest : /\ rest \in Seq(Symbols) /\ Len(rest) < Len(t)
                             /\ piece.kind \in Kinds /\ ClearPiece(piece, rest)
                             /\ t = Written(piece) \o rest
      BY <2>2, EveryTextBegins DEF Begins
    <3>2. Len(rest) <= m
      BY <3>1
    <3>3. PICK pieces : Clear(pieces) /\ WrittenText(pieces) = rest
      BY <1>2, <3>1, <3>2 DEF HasPieces
    <3>4. HasPieces(Written(piece) \o WrittenText(pieces))
      BY <3>1, <3>3, PieceBefore
    <3> QED
      BY <3>1, <3>3, <3>4, Zenon
  <2> QED
    BY <2>1, <2>2
<1> HIDE DEF T
<1>3. Nat \subseteq T
  BY <1>1, <1>2, Upwards
<1> SUFFICES ASSUME NEW text \in Seq(Symbols) PROVE HasPieces(text)
  OBVIOUS
<1>4. Len(text) \in T /\ Len(text) <= Len(text)
  BY <1>3
<1> QED
  BY <1>4 DEF T
=============================================================================
