---------------------------- MODULE RouterProofs ----------------------------
(***************************************************************************)
(* Theorems about Router for any backends and prefixes, any answers, any   *)
(* finite set of requests and any number of permits.                       *)
(***************************************************************************)
EXTENDS Router, Induction, FiniteSetTheorems, TLAPS

(***************************************************************************)
(* The table.  A table is made one tool at a time, so that what holds of   *)
(* it holds by induction over the listing, and over the backends.          *)
(***************************************************************************)
Shaped(t) == t = [owners |-> t.owners, augmented |-> t.augmented, failures |-> t.failures]

\* What one tool of backend b, advertised as n, makes of the table t.
Entering(t, u, b, n, tool) ==
  /\ Shaped(u) /\ u.failures = t.failures
  /\ n \in DOMAIN t.owners => u = t
  /\ n \notin DOMAIN t.owners =>
       /\ u.owners = [x \in DOMAIN t.owners \cup {n} |->
                        IF x = n THEN b ELSE t.owners[x]]
       /\ u.augmented = IF tool.fixed THEN t.augmented ELSE t.augmented \cup {n}

LEMMA Entered ==
  ASSUME NEW t, Shaped(t), NEW b, NEW tool
  PROVE  Entering(t, Enter(t, b, tool), b, Advertised(b, tool), tool)
<1>1. CASE Advertised(b, tool) \in DOMAIN t.owners
  BY <1>1 DEF Enter, Claimed, Entering
<1>2. CASE Advertised(b, tool) \notin DOMAIN t.owners
  BY <1>2 DEF Enter, Claimed, Shaped, Entering
<1> QED
  BY <1>1, <1>2

\* The loop of absorb() as a recursion over the length of the listing.
Looping(after, t, b, tools, k) ==
  after = [i \in 0 .. k |->
             IF i = 0 THEN t ELSE Enter(after[i - 1], b, tools[i])]

LEMMA AbsorbSteps ==
  ASSUME NEW t, NEW b, NEW tools, Len(tools) \in Nat
  PROVE  \E after : /\ Looping(after, t, b, tools, Len(tools))
                    /\ absorb(t, b, tools) = after[Len(tools)]
<1> DEFINE T == {k \in Nat : \E g : g = [i \in 0 .. k |->
                    IF i = 0 THEN t ELSE Enter(g[i - 1], b, tools[i])]}
           R == CHOOSE f : f = [i \in 0 .. Len(tools) |->
                    IF i = 0 THEN t ELSE Enter(f[i - 1], b, tools[i])]
<1>1. 0 \in T
  <2>1. [i \in 0 .. 0 |-> t] = [i \in 0 .. 0 |->
           IF i = 0 THEN t ELSE Enter([j \in 0 .. 0 |-> t][i - 1], b, tools[i])]
    OBVIOUS
  <2> QED
    BY <2>1
<1>2. ASSUME NEW k \in Nat, k \in T PROVE k + 1 \in T
  <2>1. PICK g : g = [i \in 0 .. k |->
                    IF i = 0 THEN t ELSE Enter(g[i - 1], b, tools[i])]
    BY <1>2
  <2> DEFINE h == [i \in 0 .. k + 1 |-> IF i = k + 1 THEN Enter(g[k], b, tools[k + 1])
                                        ELSE g[i]]
  <2>2. ASSUME NEW i \in 0 .. k + 1
        PROVE  h[i] = IF i = 0 THEN t ELSE Enter(h[i - 1], b, tools[i])
    <3>1. CASE i = k + 1
      BY <3>1
    <3>2. CASE i = 0
      BY <3>2, <2>1
    <3>3. CASE i # 0 /\ i # k + 1
      <4>1. i \in 0 .. k /\ i - 1 \in 0 .. k /\ i - 1 \in 0 .. k + 1 /\ i - 1 # k + 1
        BY <3>3
      <4>2. h[i] = g[i] /\ h[i - 1] = g[i - 1]
        BY <4>1, <3>3
      <4> HIDE DEF h
      <4>3. g[i] = Enter(g[i - 1], b, tools[i])
        BY <4>1, <3>3, <2>1
      <4> QED
        BY <4>2, <4>3, <3>3
    <3> QED
      BY <3>1, <3>2, <3>3
  <2>3. h = [i \in 0 .. k + 1 |-> h[i]]
    OBVIOUS
  <2> HIDE DEF h
  <2>4. h = [i \in 0 .. k + 1 |->
               IF i = 0 THEN t ELSE Enter(h[i - 1], b, tools[i])]
    BY <2>2, <2>3
  <2> QED
    BY <2>4
<1>3. \E f : f = [i \in 0 .. Len(tools) |->
                    IF i = 0 THEN t ELSE Enter(f[i - 1], b, tools[i])]
  <2>1. Nat \subseteq T
    BY <1>1, <1>2, Upwards
  <2> QED
    BY <2>1
<1>4. R = [i \in 0 .. Len(tools) |->
                    IF i = 0 THEN t ELSE Enter(R[i - 1], b, tools[i])]
  BY <1>3
<1>5. absorb(t, b, tools) = R[Len(tools)]
  BY DEF absorb
<1> HIDE DEF R
<1>6. Looping(R, t, b, tools, Len(tools))
  BY <1>4 DEF Looping
<1> QED
  BY <1>5, <1>6
\* Tool i of a listing is the first of the first k that are advertised as n.
FirstWithin(b, tools, k, n, i) ==
  /\ i \in 1 .. k /\ Advertised(b, tools[i]) = n
  /\ \A j \in 1 .. k : Advertised(b, tools[j]) = n => i <= j

\* What the table t has become after the first k tools of backend b.
Absorbed(t, u, b, tools, k) ==
  /\ Shaped(u)
  /\ u.failures = t.failures
  /\ DOMAIN u.owners = DOMAIN t.owners \cup {Advertised(b, tools[i]) : i \in 1 .. k}
  /\ u.augmented \subseteq DOMAIN u.owners
  /\ \A n \in DOMAIN t.owners :
       u.owners[n] = t.owners[n] /\ (n \in u.augmented <=> n \in t.augmented)
  /\ \A n \in DOMAIN u.owners \ DOMAIN t.owners :
       /\ u.owners[n] = b
       /\ \E i \in 1 .. k : FirstWithin(b, tools, k, n, i)
                            /\ (n \in u.augmented <=> ~tools[i].fixed)

LEMMA AbsorbOne ==
  ASSUME NEW t, NEW u, NEW b, NEW tools, NEW k \in Nat,
         tools[k + 1].fixed \in BOOLEAN, Absorbed(t, u, b, tools, k)
  PROVE  Absorbed(t, Enter(u, b, tools[k + 1]), b, tools, k + 1)
<1> DEFINE m == Advertised(b, tools[k + 1])
           v == Enter(u, b, tools[k + 1])
<1>0. Shaped(u)
  BY DEF Absorbed
<1>1. Entering(u, v, b, m, tools[k + 1])
  BY <1>0, Entered
<1>2. {Advertised(b, tools[i]) : i \in 1 .. (k + 1)}
        = {Advertised(b, tools[i]) : i \in 1 .. k} \cup {m}
  OBVIOUS
<1>3. ASSUME NEW n, NEW i, n # m, FirstWithin(b, tools, k, n, i)
      PROVE  FirstWithin(b, tools, k + 1, n, i)
  BY <1>3 DEF FirstWithin
<1>4. ASSUME NEW n, NEW i, FirstWithin(b, tools, k, n, i)
      PROVE  FirstWithin(b, tools, k + 1, n, i)
  BY <1>4 DEF FirstWithin
<1>5. m \notin DOMAIN u.owners => FirstWithin(b, tools, k + 1, m, k + 1)
  BY DEF FirstWithin, Absorbed
<1> HIDE DEF m, v
<1>6. CASE m \in DOMAIN u.owners
  <2>1. DOMAIN u.owners = DOMAIN t.owners \cup {Advertised(b, tools[i]) : i \in 1 .. (k + 1)}
    BY <1>6, <1>2 DEF Absorbed
  <2>2. Absorbed(t, v, b, tools, k + 1)
    BY <1>6, <1>1, <2>1, <1>4 DEF Absorbed, Entering
  <2> QED
    BY <2>2 DEF v
<1>7. CASE m \notin DOMAIN u.owners
  <2>1. DOMAIN v.owners = DOMAIN u.owners \cup {m}
    BY <1>7, <1>1 DEF Entering
  <2>2. v.augmented \subseteq DOMAIN v.owners
    BY <2>1, <1>7, <1>1 DEF Absorbed, Entering
  <2>3. ASSUME NEW n \in DOMAIN u.owners
        PROVE  v.owners[n] = u.owners[n] /\ (n \in v.augmented <=> n \in u.augmented)
    BY <2>1, <1>7, <1>1 DEF Entering
  <2>4. v.owners[m] = b /\ (m \in v.augmented <=> ~tools[k + 1].fixed)
    BY <2>1, <1>7, <1>1 DEF Absorbed, Entering
  <2>5. DOMAIN v.owners = DOMAIN t.owners \cup {Advertised(b, tools[i]) : i \in 1 .. (k + 1)}
    BY <2>1, <1>2 DEF Absorbed
  <2>6. ASSUME NEW n \in DOMAIN v.owners \ DOMAIN t.owners
        PROVE  /\ v.owners[n] = b
               /\ \E i \in 1 .. (k + 1) : FirstWithin(b, tools, k + 1, n, i)
                            /\ (n \in v.augmented <=> ~tools[i].fixed)
    <3>1. CASE n = m
      BY <3>1, <2>4, <1>5, <1>7
    <3>2. CASE n # m
      <4>1. n \in DOMAIN u.owners \ DOMAIN t.owners
        BY <3>2, <2>1
      <4>2. PICK i \in 1 .. k : FirstWithin(b, tools, k, n, i)
                            /\ (n \in u.augmented <=> ~tools[i].fixed)
        BY <4>1 DEF Absorbed
      <4>3. u.owners[n] = b
        BY <4>1 DEF Absorbed
      <4> QED
        BY <4>1, <4>2, <4>3, <2>3, <1>4
    <3> QED
      BY <3>1, <3>2
  <2>7. ASSUME NEW n \in DOMAIN t.owners
        PROVE  v.owners[n] = t.owners[n] /\ (n \in v.augmented <=> n \in t.augmented)
    BY <2>3 DEF Absorbed
  <2>8. Absorbed(t, v, b, tools, k + 1)
    BY <1>1, <2>2, <2>5, <2>6, <2>7 DEF Absorbed, Entering
  <2> QED
    BY <2>8 DEF v
<1> QED
  BY <1>6, <1>7

LEMMA AbsorbAll ==
  ASSUME NEW t, Shaped(t), t.augmented \subseteq DOMAIN t.owners, NEW b,
         NEW tools, IsListing(tools)
  PROVE  Absorbed(t, absorb(t, b, tools), b, tools, Len(tools))
<1>0. Len(tools) \in Nat /\ DOMAIN tools = 1 .. Len(tools)
  BY DEF IsListing
<1>1. PICK after : /\ Looping(after, t, b, tools, Len(tools))
                   /\ absorb(t, b, tools) = after[Len(tools)]
  BY <1>0, AbsorbSteps
<1> DEFINE T == {k \in 0 .. Len(tools) : Absorbed(t, after[k], b, tools, k)}
<1>2. 0 \in T
  <2>1. after[0] = t
    BY <1>0, <1>1 DEF Looping
  <2> QED
    BY <2>1, <1>0 DEF Absorbed
<1>3. ASSUME NEW k \in 0 .. Len(tools), k \in T, k < Len(tools) PROVE k + 1 \in T
  <2>1. k \in Nat /\ k + 1 \in 0 .. Len(tools) /\ k + 1 \in DOMAIN tools
        /\ k + 1 # 0 /\ (k + 1) - 1 = k
    BY <1>3, <1>0
  <2>2. after[k + 1] = Enter(after[k], b, tools[k + 1])
    BY <1>1, <2>1 DEF Looping
  <2>3. tools[k + 1].fixed \in BOOLEAN
    BY <2>1 DEF IsListing
  <2>4. Absorbed(t, after[k], b, tools, k)
    BY <1>3
  <2>5. Absorbed(t, Enter(after[k], b, tools[k + 1]), b, tools, k + 1)
    BY <2>1, <2>3, <2>4, AbsorbOne
  <2> QED
    BY <2>1, <2>2, <2>5
<1>4. 0 .. Len(tools) \subseteq T
  <2> HIDE DEF T
  <2> QED
    BY <1>0, <1>2, <1>3, UpTo
<1>5. Len(tools) \in T
  BY <1>4, <1>0
<1> QED
  BY <1>1, <1>5
\* The loop of discover() over the answers, in the order of the backends.
Turn(u, b, res) ==
  IF res[b] = Failed THEN [u EXCEPT !.failures = @ \cup {b}]
                     ELSE absorb(u, b, res[b])

Turning(after, res, k) ==
  after = [b \in 0 .. k |-> IF b = 0 THEN EmptyTable ELSE Turn(after[b - 1], b, res)]

LEMMA AssembleSteps ==
  ASSUME NEW res
  PROVE  \E after : /\ Turning(after, res, Cardinality(Backends))
                    /\ Assemble(res) = after[Cardinality(Backends)]
<1> DEFINE N == Cardinality(Backends)
           T == {k \in Nat : \E g : Turning(g, res, k)}
           Raw(f) == f = [b \in 0 .. N |->
                    CASE b = 0 -> EmptyTable
                      [] b # 0 /\ res[b] = Failed -> [f[b - 1] EXCEPT !.failures = @ \cup {b}]
                      [] OTHER -> absorb(f[b - 1], b, res[b])]
           R == CHOOSE f : Raw(f)
<1>0. N \in Nat
  BY BackendsAssumption, FS_CardinalityType
<1>1. 0 \in T
  <2>1. Turning([b \in 0 .. 0 |-> EmptyTable], res, 0)
    BY DEF Turning
  <2> QED
    BY <2>1
<1>2. ASSUME NEW k \in Nat, k \in T PROVE k + 1 \in T
  <2>1. PICK g : Turning(g, res, k)
    BY <1>2
  <2> DEFINE h == [b \in 0 .. k + 1 |-> IF b = k + 1 THEN Turn(g[k], b, res) ELSE g[b]]
  <2>2. ASSUME NEW b \in 0 .. k + 1
        PROVE  h[b] = IF b = 0 THEN EmptyTable ELSE Turn(h[b - 1], b, res)
    <3>1. CASE b = k + 1
      BY <3>1
    <3>2. CASE b = 0
      BY <3>2, <2>1 DEF Turning
    <3>3. CASE b # 0 /\ b # k + 1
      <4>1. b \in 0 .. k /\ b - 1 \in 0 .. k /\ b - 1 \in 0 .. k + 1 /\ b - 1 # k + 1
        BY <3>3
      <4>2. h[b] = g[b] /\ h[b - 1] = g[b - 1]
        BY <4>1, <3>3
      <4> HIDE DEF h
      <4>3. g[b] = Turn(g[b - 1], b, res)
        BY <4>1, <3>3, <2>1 DEF Turning
      <4> QED
        BY <4>2, <4>3, <3>3
    <3> QED
      BY <3>1, <3>2, <3>3
  <2>3. h = [b \in 0 .. k + 1 |-> h[b]]
    OBVIOUS
  <2> HIDE DEF h
  <2>4. Turning(h, res, k + 1)
    BY <2>2, <2>3 DEF Turning
  <2> QED
    BY <2>4
<1>3. \E f : Raw(f)
  <2>1. Nat \subseteq T
    BY <1>1, <1>2, Upwards
  <2>2. PICK f : Turning(f, res, N)
    BY <2>1, <1>0
  <2>3. Raw(f)
    BY <2>2 DEF Turning, Turn
  <2> QED
    BY <2>3
<1>4. Raw(R)
  <2> HIDE DEF Raw
  <2> QED
    BY <1>3
<1>5. Assemble(res) = R[N]
  BY DEF Assemble
<1> HIDE DEF R
<1>6. Turning(R, res, N)
  BY <1>4 DEF Turning, Turn
<1> QED
  BY <1>5, <1>6

\* Backend b has answered with a tool advertised as n.
Lists(res, b, n) ==
  res[b] # Failed /\ \E i \in DOMAIN res[b] : Advertised(b, res[b][i]) = n

\* The table u has n from backend b, as it must after the first k answers.
Owns(u, res, k, n, b) ==
  /\ b \in 1 .. k /\ Lists(res, b, n)
  /\ \A x \in 1 .. k : Lists(res, x, n) => b <= x
  /\ \E i \in 1 .. Len(res[b]) :
       FirstWithin(b, res[b], Len(res[b]), n, i) /\ (n \in u.augmented <=> ~res[b][i].fixed)

Assembled(u, res, k) ==
  /\ Shaped(u)
  /\ u.failures = {b \in 1 .. k : res[b] = Failed}
  /\ u.augmented \subseteq DOMAIN u.owners
  /\ \A n : n \in DOMAIN u.owners <=> \E b \in 1 .. k : Lists(res, b, n)
  /\ \A n \in DOMAIN u.owners : Owns(u, res, k, n, u.owners[n])

LEMMA AssembleOne ==
  ASSUME NEW u, NEW res, NEW k \in Nat, Assembled(u, res, k),
         res[k + 1] # Failed => IsListing(res[k + 1])
  PROVE  Assembled(Turn(u, k + 1, res), res, k + 1)
<1>1. CASE res[k + 1] = Failed
  <2> DEFINE v == [u EXCEPT !.failures = @ \cup {k + 1}]
  <2>1. v = [owners |-> u.owners, augmented |-> u.augmented,
             failures |-> u.failures \cup {k + 1}]
    <3>1. Shaped(u)
      BY DEF Assembled
    <3>2. ASSUME NEW x, NEW y, NEW z, u = [owners |-> x, augmented |-> y, failures |-> z]
          PROVE  v = [owners |-> x, augmented |-> y, failures |-> z \cup {k + 1}]
      BY <3>2
    <3> QED
      BY <3>1, <3>2, Zenon DEF Shaped
  <2>2. Shaped(v) /\ v.owners = u.owners /\ v.augmented = u.augmented
        /\ v.failures = u.failures \cup {k + 1}
    <3> HIDE DEF v
    <3> QED
      BY <2>1 DEF Shaped
  <2> HIDE DEF v
  <2>3. \A n : ~Lists(res, k + 1, n)
    BY <1>1 DEF Lists
  <2>4. \A n : (\E b \in 1 .. k + 1 : Lists(res, b, n)) <=> (\E b \in 1 .. k : Lists(res, b, n))
    BY <2>3
  <2>5. ASSUME NEW n, NEW b, Owns(u, res, k, n, b) PROVE Owns(v, res, k + 1, n, b)
    BY <2>2, <2>3, <2>5 DEF Owns
  <2>6. v.failures = {b \in 1 .. k + 1 : res[b] = Failed}
    BY <2>2, <1>1 DEF Assembled
  <2>7. Assembled(v, res, k + 1)
    BY <2>2, <2>4, <2>5, <2>6 DEF Assembled
  <2> QED
    BY <2>7, <1>1 DEF Turn, v
<1>2. CASE res[k + 1] # Failed
  <2> DEFINE c == k + 1
             tools == res[k + 1]
             v == absorb(u, c, tools)
  <2>1. Absorbed(u, v, c, tools, Len(tools))
    BY <1>2, AbsorbAll DEF Assembled
  <2>2. Len(tools) \in Nat /\ DOMAIN tools = 1 .. Len(tools)
    BY <1>2 DEF IsListing
  <2>3. v = Turn(u, k + 1, res)
    BY <1>2 DEF Turn
  <2>4. c \in Nat /\ c \in 1 .. k + 1 /\ c = k + 1 /\ tools = res[c] /\ res[c] # Failed
    BY <1>2
  <2> HIDE DEF v, c, tools
  <2>5. \A n : Lists(res, c, n) <=> n \in {Advertised(c, tools[i]) : i \in 1 .. Len(tools)}
    BY <2>2, <2>4 DEF Lists
  <2>6. \A n : n \in DOMAIN v.owners <=> n \in DOMAIN u.owners \/ Lists(res, c, n)
    BY <2>1, <2>5 DEF Absorbed
  <2>7. \A n : n \in DOMAIN v.owners <=> \E b \in 1 .. k + 1 : Lists(res, b, n)
    BY <2>6, <2>4 DEF Assembled
  <2>8. v.failures = {b \in 1 .. k + 1 : res[b] = Failed}
    BY <2>1, <2>4 DEF Absorbed, Assembled
  <2>9. ASSUME NEW n \in DOMAIN u.owners PROVE Owns(v, res, k + 1, n, v.owners[n])
    <3>1. v.owners[n] = u.owners[n] /\ (n \in v.augmented <=> n \in u.augmented)
      BY <2>1 DEF Absorbed
    <3>2. Owns(u, res, k, n, u.owners[n])
      BY DEF Assembled
    <3>3. u.owners[n] \in 1 .. k /\ u.owners[n] <= c
      BY <3>2, <2>4 DEF Owns
    <3> QED
      BY <3>1, <3>2, <3>3, <2>4 DEF Owns
  <2>10. ASSUME NEW n \in DOMAIN v.owners \ DOMAIN u.owners
         PROVE  Owns(v, res, k + 1, n, v.owners[n])
    <3>1. v.owners[n] = c
      BY <2>1 DEF Absorbed
    <3>2. PICK i \in 1 .. Len(tools) : FirstWithin(c, tools, Len(tools), n, i)
                            /\ (n \in v.augmented <=> ~tools[i].fixed)
      BY <2>1 DEF Absorbed
    <3>3. Lists(res, c, n) /\ \A b \in 1 .. k : ~Lists(res, b, n)
      BY <2>6 DEF Assembled
    <3> QED
      BY <3>1, <3>2, <3>3, <2>4 DEF Owns
  <2>11. Assembled(v, res, k + 1)
    BY <2>1, <2>7, <2>8, <2>9, <2>10 DEF Absorbed, Assembled
  <2> QED
    BY <2>11, <2>3
<1> QED
  BY <1>1, <1>2

LEMMA AssembleAll ==
  ASSUME NEW res, \A b \in Backends : res[b] # Failed => IsListing(res[b])
  PROVE  Assembled(Assemble(res), res, Cardinality(Backends))
<1> DEFINE N == Cardinality(Backends)
<1>0. N \in Nat /\ Backends = 1 .. N
  BY BackendsAssumption, FS_CardinalityType
<1>1. PICK after : Turning(after, res, N) /\ Assemble(res) = after[N]
  BY AssembleSteps
<1> HIDE DEF N
<1> DEFINE T == {k \in 0 .. N : Assembled(after[k], res, k)}
<1>2. 0 \in T
  <2>1. after[0] = EmptyTable
    BY <1>0, <1>1 DEF Turning
  <2> QED
    BY <2>1, <1>0 DEF Assembled, EmptyTable, Shaped
<1>3. ASSUME NEW k \in 0 .. N, k \in T, k < N PROVE k + 1 \in T
  <2>1. k \in Nat /\ k + 1 \in 0 .. N /\ k + 1 \in Backends
        /\ k + 1 # 0 /\ (k + 1) - 1 = k
    BY <1>3, <1>0
  <2>2. after[k + 1] = Turn(after[k], k + 1, res)
    BY <1>1, <2>1 DEF Turning
  <2>3. Assembled(after[k], res, k)
    BY <1>3
  <2>4. Assembled(Turn(after[k], k + 1, res), res, k + 1)
    BY <2>1, <2>3, AssembleOne
  <2> QED
    BY <2>1, <2>2, <2>4
<1>4. 0 .. N \subseteq T
  <2> HIDE DEF T
  <2> QED
    BY <1>0, <1>2, <1>3, UpTo
<1> QED
  BY <1>0, <1>1, <1>4 DEF N

\* Whatever the backends answer, the loops build the table that the answers
\* define (routes.rs, discover and absorb).
THEOREM TableIsBuilt ==
  ASSUME NEW res, \A b \in Backends : res[b] # Failed => IsListing(res[b])
  PROVE  IsTableOf(Assemble(res), res)
<1> DEFINE N == Cardinality(Backends)
           t == Assemble(res)
<1>0. N \in Nat /\ Backends = 1 .. N
  BY BackendsAssumption, FS_CardinalityType
<1>1. Assembled(t, res, N)
  BY AssembleAll
<1> HIDE DEF N, t
<1>2. \A n : n \in Names(res) <=> \E b \in Backends : Lists(res, b, n)
  BY DEF Names, Lists
<1>3. \A n, b : b \in Listers(res, n) <=> b \in Backends /\ Lists(res, b, n)
  BY DEF Listers, Lists
<1>4. DOMAIN t.owners = Names(res)
  BY <1>0, <1>1, <1>2 DEF Assembled
<1>5. ASSUME NEW n \in Names(res)
      PROVE  /\ t.owners[n] = FirstOf(res, n)
             /\ n \in t.augmented
                  <=> ~FirstTool(res[FirstOf(res, n)], FirstOf(res, n), n).fixed
  <2> DEFINE b == t.owners[n]
  <2>1. Owns(t, res, N, n, b)
    BY <1>1, <1>4 DEF Assembled
  <2> HIDE DEF b
  <2>2. b \in Listers(res, n) /\ \A x \in Listers(res, n) : b <= x
    BY <2>1, <1>0, <1>3 DEF Owns
  <2>3. Listers(res, n) \subseteq Nat
    BY <1>0, <1>3
  <2>4. FirstOf(res, n) = b
    BY <2>2, <2>3 DEF FirstOf
  <2>5. PICK i \in 1 .. Len(res[b]) :
           FirstWithin(b, res[b], Len(res[b]), n, i) /\ (n \in t.augmented <=> ~res[b][i].fixed)
    BY <2>1 DEF Owns
  <2>6. Len(res[b]) \in Nat /\ DOMAIN res[b] = 1 .. Len(res[b])
    BY <2>1, <1>0 DEF Owns, Lists, IsListing
  <2>7. FirstTool(res[b], b, n) = res[b][i]
    BY <2>5, <2>6 DEF FirstTool, FirstWithin
  <2> QED
    BY <2>4, <2>5, <2>7 DEF b
<1>6. t.failures = {b \in Backends : res[b] = Failed}
  BY <1>0, <1>1 DEF Assembled
<1>7. IsTableOf(t, res)
  BY <1>4, <1>5, <1>6 DEF IsTableOf
<1> QED
  BY <1>7 DEF t

(***************************************************************************)
(* The requests.                                                           *)
(***************************************************************************)
LEMMA RunningIsFinite ==
  IsFiniteSet(Running) /\ Cardinality(Running) \in Nat
BY RequestsAssumption, FS_Subset, FS_CardinalityType DEF Running

(***************************************************************************)
(* Permits and the requests that hold one always add up to the limit.      *)
(***************************************************************************)
LEMMA StepCalls ==
  ASSUME TypeOK, OnlyCallsWait, CallsAreBounded, NEW r \in Requests,
         Arrive(r) \/ Step(r) \/ Return(r) \/ Cancel(r)
  PROVE  CallsAreBounded' /\ permits' \in 0 .. MaxCalls
<1> USE MaxCallsAssumption DEF TypeOK, Goto, CallsAreBounded, Kind
<1>1. Cardinality(Running) \in Nat /\ IsFiniteSet(Running)
  BY RunningIsFinite
<1>2. CASE TakePermit(r)
  <2>1. Running' = Running \cup {r} /\ r \notin Running
    BY <1>2 DEF TakePermit, OnlyCallsWait, Running, HasPermit, Working,
       Sweeping
  <2>2. Cardinality(Running') = Cardinality(Running) + 1
    BY <1>1, <2>1, FS_AddElement
  <2>3. permits' = permits - 1 /\ permits > 0
    BY <1>2 DEF TakePermit
  <2> QED BY <1>1, <2>2, <2>3
<1>3. CASE (NotFound(r) \/ Return(r) \/ Cancel(r)) /\ HasPermit(r)
  <2>1. Running' = Running \ {r} /\ r \in Running
    BY <1>3 DEF NotFound, Return, Cancel, Running, HasPermit, Working, Sweeping
  <2>2. Cardinality(Running') = Cardinality(Running) - 1
    BY <1>1, <2>1, FS_RemoveElement
  <2>3. Cardinality(Running') \in Nat
    BY <1>1, <2>1, FS_RemoveElement, FS_CardinalityType
  <2>4. permits' = permits + 1
    BY <1>3 DEF NotFound, Return, Cancel, Returned
  <2> QED BY <1>1, <2>2, <2>3, <2>4
<1>4. CASE (NotFound(r) \/ Return(r) \/ Cancel(r)) /\ ~HasPermit(r)
  <2>1. Running' = Running
    BY <1>4 DEF NotFound, Return, Cancel, Running, HasPermit, Working, Sweeping
  <2>2. permits' = permits
    BY <1>4 DEF NotFound, Return, Cancel, Returned
  <2> QED BY <2>1, <2>2
<1>5. CASE \/ Arrive(r) \/ CheckFresh(r) \/ UseOthers(r) \/ Sweep(r) \/ Refresh(r)
           \/ Write(r) \/ ReadTable(r) \/ Dispatch(r) \/ Retry(r)
  <2>1. Running' = Running
    BY <1>5 DEF Arrive, CheckFresh, UseOthers, Sweep, Refresh, BeginSweep,
       LockFree,
       Write,
                ReadTable, Dispatch, Retry, Running, HasPermit, Working, Sweeping,
                Permitted
  <2>2. permits' = permits
    BY <1>5 DEF Arrive, CheckFresh, UseOthers, Sweep, Refresh, BeginSweep,
       LockFree,
       Write,
                ReadTable, Dispatch, Retry
  <2> QED BY <2>1, <2>2
<1> QED BY <1>2, <1>3, <1>4, <1>5 DEF Step

(***************************************************************************)
(* Every action keeps the inductive invariant.                             *)
(***************************************************************************)
LEMMA InitSweepInv == Init => SweepInv
<1> SUFFICES ASSUME Init PROVE SweepInv
  OBVIOUS
<1>1. Running = {} /\ Cardinality(Running) = 0
  BY FS_EmptySet DEF Init, Running, HasPermit, Working, Sweeping
<1> USE NoRequestAssumption, MaxCallsAssumption, MaxExpiriesAssumption DEF Init
<1>2. TypeOK
  <2>1. pc \in [Requests -> PC]
    BY DEF PC
  <2>2. /\ MaxCalls \in 0 .. MaxCalls /\ 0 \in 0 .. MaxExpiries
        /\ startedFor \subseteq Kinds
    OBVIOUS
  <2> QED BY <2>1, <2>2 DEF TypeOK
<1>3. LockIsHeld /\ OnlyCallsWait /\ ReadersFindTable
  BY DEF LockIsHeld, Sweeping, OnlyCallsWait, ReadersFindTable
<1>4. SweepsArePaid
  BY DEF SweepsArePaid, Owing
<1>5. CallsAreBounded
  BY <1>1 DEF CallsAreBounded
<1> QED BY <1>2, <1>3, <1>4, <1>5 DEF SweepInv

LEMMA StepSweepInv == SweepInv /\ [Next]_vars => SweepInv'
<1> SUFFICES ASSUME SweepInv, [Next]_vars PROVE SweepInv'
  OBVIOUS
<1> USE NoRequestAssumption, AsksAssumption, MaxExpiriesAssumption DEF SweepInv, Goto, routes, counters
<1>0. ASSUME NEW r \in Requests, Arrive(r) \/ Step(r) \/ Return(r) \/ Cancel(r)
      PROVE  CallsAreBounded' /\ permits' \in 0 .. MaxCalls
  BY <1>0, StepCalls
<1>1. ASSUME NEW r \in Requests, Arrive(r) PROVE SweepInv'
  <2>1. CallsAreBounded' /\ permits' \in 0 .. MaxCalls
    BY <1>0, <1>1 DEF Step
  <2>2. TypeOK'
    BY <1>1, <2>1 DEF Arrive, TypeOK, PC, Working, Sweeping, Kind, Kinds
  <2>3. LockIsHeld'
    BY <1>1 DEF Arrive, TypeOK, LockIsHeld, Sweeping
  <2>4. OnlyCallsWait'
    BY <1>1 DEF Arrive, TypeOK, OnlyCallsWait, Kind
  <2>5. SweepsArePaid'
    BY <1>1 DEF Arrive, TypeOK, LockIsHeld, Sweeping, SweepsArePaid, Owing,
       is_stale
  <2>6. ReadersFindTable'
    BY <1>1 DEF Arrive, TypeOK, ReadersFindTable, is_stale
  <2> QED BY <2>1, <2>2, <2>3, <2>4, <2>5, <2>6
<1>2. ASSUME NEW r \in Requests, TakePermit(r) PROVE SweepInv'
  <2>1. CallsAreBounded' /\ permits' \in 0 .. MaxCalls
    BY <1>0, <1>2 DEF Step
  <2>2. TypeOK'
    BY <1>2, <2>1 DEF TakePermit, TypeOK, PC, Working, Sweeping, Kind, Kinds
  <2>3. LockIsHeld'
    BY <1>2 DEF TakePermit, TypeOK, LockIsHeld, Sweeping
  <2>4. OnlyCallsWait'
    BY <1>2 DEF TakePermit, TypeOK, OnlyCallsWait, Kind
  <2>5. SweepsArePaid'
    BY <1>2 DEF TakePermit, TypeOK, LockIsHeld, Sweeping, SweepsArePaid, Owing,
       is_stale
  <2>6. ReadersFindTable'
    BY <1>2 DEF TakePermit, TypeOK, ReadersFindTable, is_stale
  <2> QED BY <2>1, <2>2, <2>3, <2>4, <2>5, <2>6
<1>3. ASSUME NEW r \in Requests, CheckFresh(r) PROVE SweepInv'
  <2>1. CallsAreBounded' /\ permits' \in 0 .. MaxCalls
    BY <1>0, <1>3 DEF Step
  <2>2. TypeOK'
    BY <1>3, <2>1 DEF CheckFresh, TypeOK, PC, Working, Sweeping, Kind, Kinds,
       is_stale
  <2>3. LockIsHeld'
    BY <1>3 DEF CheckFresh, TypeOK, LockIsHeld, Sweeping, is_stale
  <2>4. OnlyCallsWait'
    BY <1>3 DEF CheckFresh, TypeOK, OnlyCallsWait, Kind, is_stale
  <2>5. SweepsArePaid'
    BY <1>3 DEF CheckFresh, TypeOK, LockIsHeld, Sweeping, SweepsArePaid, Owing,
       is_stale
  <2>6. ReadersFindTable'
    BY <1>3 DEF CheckFresh, TypeOK, ReadersFindTable, is_stale
  <2> QED BY <2>1, <2>2, <2>3, <2>4, <2>5, <2>6
<1>4. ASSUME NEW r \in Requests, UseOthers(r) PROVE SweepInv'
  <2>1. CallsAreBounded' /\ permits' \in 0 .. MaxCalls
    BY <1>0, <1>4 DEF Step
  <2>2. TypeOK'
    BY <1>4, <2>1 DEF UseOthers, LockFree, TypeOK, PC, Working, Sweeping, Kind,
       Kinds,
       SweptMeanwhile, is_stale
  <2>3. LockIsHeld'
    BY <1>4 DEF UseOthers, LockFree, TypeOK, LockIsHeld, Sweeping,
       SweptMeanwhile,
       is_stale
  <2>4. OnlyCallsWait'
    BY <1>4 DEF UseOthers, LockFree, TypeOK, OnlyCallsWait, Kind,
       SweptMeanwhile,
       is_stale
  <2>5. SweepsArePaid'
    BY <1>4 DEF UseOthers, LockFree, TypeOK, LockIsHeld, Sweeping,
       SweepsArePaid, Owing,
       is_stale, SweptMeanwhile
  <2>6. ReadersFindTable'
    BY <1>4 DEF UseOthers, LockFree, TypeOK, ReadersFindTable, is_stale,
       SweptMeanwhile
  <2> QED BY <2>1, <2>2, <2>3, <2>4, <2>5, <2>6
<1>5. ASSUME NEW r \in Requests, Sweep(r) PROVE SweepInv'
  <2>1. CallsAreBounded' /\ permits' \in 0 .. MaxCalls
    BY <1>0, <1>5 DEF Step
  <2>2. TypeOK'
    <3>1. Kind(r) \in Kinds
      BY DEF TypeOK, Kind
    <3>2. startedFor' \subseteq Kinds
      BY <1>5, <3>1 DEF Sweep, BeginSweep, LockFree, TypeOK
    <3> QED BY <1>5, <2>1, <3>2 DEF Sweep, BeginSweep, LockFree, TypeOK, PC,
       Working, Sweeping
  <2>3. LockIsHeld'
    BY <1>5 DEF Sweep, TypeOK, LockIsHeld, Sweeping, SweptMeanwhile,
       BeginSweep, LockFree, is_stale
  <2>4. OnlyCallsWait'
    BY <1>5 DEF Sweep, TypeOK, OnlyCallsWait, Kind, SweptMeanwhile, BeginSweep,
       LockFree,
       is_stale
  <2>5. SweepsArePaid'
    BY <1>5 DEF Sweep, TypeOK, LockIsHeld, Sweeping, SweepsArePaid, Owing,
       is_stale, SweptMeanwhile, BeginSweep, LockFree
  <2>6. ReadersFindTable'
    BY <1>5 DEF Sweep, TypeOK, ReadersFindTable, is_stale, SweptMeanwhile,
       BeginSweep, LockFree
  <2> QED BY <2>1, <2>2, <2>3, <2>4, <2>5, <2>6
<1>6. ASSUME NEW r \in Requests, Refresh(r) PROVE SweepInv'
  <2>1. CallsAreBounded' /\ permits' \in 0 .. MaxCalls
    BY <1>0, <1>6 DEF Step
  <2>2. TypeOK'
    <3>1. Kind(r) \in Kinds
      BY DEF TypeOK, Kind
    <3>2. startedFor' \subseteq Kinds
      BY <1>6, <3>1 DEF Refresh, BeginSweep, LockFree, TypeOK
    <3> QED BY <1>6, <2>1, <3>2 DEF Refresh, BeginSweep, LockFree, TypeOK, PC,
       Working, Sweeping
  <2>3. LockIsHeld'
    BY <1>6 DEF Refresh, TypeOK, LockIsHeld, Sweeping, BeginSweep, LockFree
  <2>4. OnlyCallsWait'
    BY <1>6 DEF Refresh, TypeOK, OnlyCallsWait, Kind, BeginSweep, LockFree
  <2>5. SweepsArePaid'
    BY <1>6 DEF Refresh, TypeOK, LockIsHeld, Sweeping, SweepsArePaid, Owing,
       is_stale, BeginSweep, LockFree
  <2>6. ReadersFindTable'
    BY <1>6 DEF Refresh, TypeOK, ReadersFindTable, is_stale, BeginSweep,
       LockFree
  <2> QED BY <2>1, <2>2, <2>3, <2>4, <2>5, <2>6
<1>7. ASSUME NEW r \in Requests, Write(r) PROVE SweepInv'
  <2>1. CallsAreBounded' /\ permits' \in 0 .. MaxCalls
    BY <1>0, <1>7 DEF Step
  <2>2. TypeOK'
    BY <1>7, <2>1 DEF Write, Replace, TypeOK, PC, Working, Sweeping, Kind, Kinds
  <2>3. LockIsHeld'
    BY <1>7 DEF Write, Replace, TypeOK, LockIsHeld, Sweeping
  <2>4. OnlyCallsWait'
    BY <1>7 DEF Write, Replace, TypeOK, OnlyCallsWait, Kind
  <2>5. SweepsArePaid'
    BY <1>7 DEF Write, Replace, TypeOK, LockIsHeld, Sweeping, SweepsArePaid, Owing,
       is_stale
  <2>6. ReadersFindTable'
    BY <1>7 DEF Write, Replace, TypeOK, ReadersFindTable, is_stale
  <2> QED BY <2>1, <2>2, <2>3, <2>4, <2>5, <2>6
<1>8. ASSUME NEW r \in Requests, ReadTable(r) PROVE SweepInv'
  <2>1. CallsAreBounded' /\ permits' \in 0 .. MaxCalls
    BY <1>0, <1>8 DEF Step
  <2>2. TypeOK'
    BY <1>8, <2>1 DEF ReadTable, TypeOK, PC, Working, Sweeping, Kind, Kinds
  <2>3. LockIsHeld'
    BY <1>8 DEF ReadTable, TypeOK, LockIsHeld, Sweeping
  <2>4. OnlyCallsWait'
    BY <1>8 DEF ReadTable, TypeOK, OnlyCallsWait, Kind
  <2>5. SweepsArePaid'
    BY <1>8 DEF ReadTable, TypeOK, LockIsHeld, Sweeping, SweepsArePaid, Owing,
       is_stale
  <2>6. ReadersFindTable'
    BY <1>8 DEF ReadTable, TypeOK, ReadersFindTable, is_stale
  <2> QED BY <2>1, <2>2, <2>3, <2>4, <2>5, <2>6
<1>9. ASSUME NEW r \in Requests, Dispatch(r) PROVE SweepInv'
  <2>1. CallsAreBounded' /\ permits' \in 0 .. MaxCalls
    BY <1>0, <1>9 DEF Step
  <2>2. TypeOK'
    BY <1>9, <2>1 DEF Dispatch, TypeOK, PC, Working, Sweeping, Kind, Kinds
  <2>3. LockIsHeld'
    BY <1>9 DEF Dispatch, TypeOK, LockIsHeld, Sweeping
  <2>4. OnlyCallsWait'
    BY <1>9 DEF Dispatch, TypeOK, OnlyCallsWait, Kind
  <2>5. SweepsArePaid'
    BY <1>9 DEF Dispatch, TypeOK, LockIsHeld, Sweeping, SweepsArePaid, Owing,
       is_stale
  <2>6. ReadersFindTable'
    BY <1>9 DEF Dispatch, TypeOK, ReadersFindTable, is_stale
  <2> QED BY <2>1, <2>2, <2>3, <2>4, <2>5, <2>6
<1>10. ASSUME NEW r \in Requests, Retry(r) PROVE SweepInv'
  <2>1. CallsAreBounded' /\ permits' \in 0 .. MaxCalls
    BY <1>0, <1>10 DEF Step
  <2>2. TypeOK'
    BY <1>10, <2>1 DEF Retry, TypeOK, PC, Working, Sweeping, Kind, Kinds
  <2>3. LockIsHeld'
    BY <1>10 DEF Retry, TypeOK, LockIsHeld, Sweeping
  <2>4. OnlyCallsWait'
    BY <1>10 DEF Retry, TypeOK, OnlyCallsWait, Kind
  <2>5. SweepsArePaid'
    BY <1>10 DEF Retry, TypeOK, LockIsHeld, Sweeping, SweepsArePaid, Owing,
       is_stale
  <2>6. ReadersFindTable'
    BY <1>10 DEF Retry, TypeOK, ReadersFindTable, is_stale
  <2> QED BY <2>1, <2>2, <2>3, <2>4, <2>5, <2>6
<1>11. ASSUME NEW r \in Requests, NotFound(r) PROVE SweepInv'
  <2>1. CallsAreBounded' /\ permits' \in 0 .. MaxCalls
    BY <1>0, <1>11 DEF Step
  <2>2. TypeOK'
    BY <1>11, <2>1 DEF NotFound, TypeOK, PC, Working, Sweeping, Kind, Kinds,
       Returned
  <2>3. LockIsHeld'
    BY <1>11 DEF NotFound, TypeOK, LockIsHeld, Sweeping, Returned
  <2>4. OnlyCallsWait'
    BY <1>11 DEF NotFound, TypeOK, OnlyCallsWait, Kind, Returned
  <2>5. SweepsArePaid'
    BY <1>11 DEF NotFound, TypeOK, LockIsHeld, Sweeping, SweepsArePaid, Owing,
       is_stale, Returned
  <2>6. ReadersFindTable'
    BY <1>11 DEF NotFound, TypeOK, ReadersFindTable, is_stale, Returned
  <2> QED BY <2>1, <2>2, <2>3, <2>4, <2>5, <2>6
<1>12. ASSUME NEW r \in Requests, Return(r) PROVE SweepInv'
  <2>1. CallsAreBounded' /\ permits' \in 0 .. MaxCalls
    BY <1>0, <1>12 DEF Step
  <2>2. TypeOK'
    BY <1>12, <2>1 DEF Return, TypeOK, PC, Working, Sweeping, Kind, Kinds,
       Returned
  <2>3. LockIsHeld'
    BY <1>12 DEF Return, TypeOK, LockIsHeld, Sweeping, Returned
  <2>4. OnlyCallsWait'
    BY <1>12 DEF Return, TypeOK, OnlyCallsWait, Kind, Returned
  <2>5. SweepsArePaid'
    BY <1>12 DEF Return, TypeOK, LockIsHeld, Sweeping, SweepsArePaid, Owing,
       is_stale, Returned
  <2>6. ReadersFindTable'
    BY <1>12 DEF Return, TypeOK, ReadersFindTable, is_stale, Returned
  <2> QED BY <2>1, <2>2, <2>3, <2>4, <2>5, <2>6
<1>13. ASSUME NEW r \in Requests, Cancel(r) PROVE SweepInv'
  <2>1. CallsAreBounded' /\ permits' \in 0 .. MaxCalls
    BY <1>0, <1>13 DEF Step
  <2>2. TypeOK'
    BY <1>13, <2>1 DEF Cancel, TypeOK, PC, Working, Sweeping, Kind, Kinds,
       Returned
  <2>3. LockIsHeld'
    BY <1>13 DEF Cancel, TypeOK, LockIsHeld, Sweeping, Returned
  <2>4. OnlyCallsWait'
    BY <1>13 DEF Cancel, TypeOK, OnlyCallsWait, Kind, Returned
  <2>5. SweepsArePaid'
    BY <1>13 DEF Cancel, TypeOK, LockIsHeld, Sweeping, SweepsArePaid, Owing,
       is_stale, Returned
  <2>6. ReadersFindTable'
    BY <1>13 DEF Cancel, TypeOK, ReadersFindTable, is_stale, Returned
  <2> QED BY <2>1, <2>2, <2>3, <2>4, <2>5, <2>6
<1>14. CASE WarmUp
  <2>1. CallsAreBounded'
    BY <1>14 DEF WarmUp, CallsAreBounded, Running, HasPermit, Kind
  <2>2. TypeOK'
    <3>1. expired' \in BOOLEAN
      BY <1>14 DEF WarmUp, Replace
    <3>2. discoveries' \in Nat
      BY <1>14 DEF WarmUp, TypeOK
    <3> QED BY <1>14, <3>1, <3>2 DEF WarmUp, TypeOK
  <2>3. LockIsHeld' /\ OnlyCallsWait' /\ ReadersFindTable'
    BY <1>14 DEF WarmUp, Replace, LockIsHeld, OnlyCallsWait, Kind,
       ReadersFindTable
  <2>4. SweepsArePaid'
    <3>1. ~is_stale'
      BY <1>14 DEF WarmUp, Replace, is_stale
    <3>2. discoveries' = 1 /\ UNCHANGED counters
      BY <1>14 DEF WarmUp
    <3> QED BY <3>1, <3>2 DEF TypeOK, SweepsArePaid, Owing
  <2> QED BY <2>1, <2>2, <2>3, <2>4
<1>15. CASE Expire
  <2>1. CallsAreBounded' /\ TypeOK'
    BY <1>15 DEF Expire, CallsAreBounded, Running, HasPermit, Kind, TypeOK
  <2>2. LockIsHeld' /\ OnlyCallsWait' /\ ReadersFindTable'
    BY <1>15 DEF Expire, LockIsHeld, OnlyCallsWait, Kind, ReadersFindTable
  <2>3. SweepsArePaid'
    BY <1>15 DEF Expire, TypeOK, SweepsArePaid, Owing, is_stale
  <2> QED BY <2>1, <2>2, <2>3
<1>16. CASE UNCHANGED vars
  BY <1>16 DEF vars, TypeOK, LockIsHeld, OnlyCallsWait, SweepsArePaid, Owing,
     is_stale,
     CallsAreBounded, Running, HasPermit, Kind, ReadersFindTable
<1> QED
  BY <1>1, <1>2, <1>3, <1>4, <1>5, <1>6, <1>7, <1>8, <1>9, <1>10, <1>11, <1>12,
     <1>13, <1>14, <1>15, <1>16 DEF Next, Step

LEMMA SweepInvariance == Spec => []SweepInv
  BY InitSweepInv, StepSweepInv, PTL DEF Spec

\* However many requests find the table stale at once, one of them sweeps.
THEOREM SweepsCoalesce == Spec => []Coalesced
<1>1. SweepInv => Coalesced
  BY DEF SweepInv, TypeOK, SweepsArePaid, Coalesced
<1> QED BY <1>1, SweepInvariance, PTL

\* No call permit is lost or made up, wherever a request ends or is dropped,
\* so at most max_concurrent_calls calls run.
THEOREM CallBound == Spec => []CallsAreBounded
  BY SweepInvariance, PTL DEF SweepInv

\* Whoever ensure_fresh() lets through finds a table.
THEOREM TableIsThere == Spec => []ReadersFindTable
  BY SweepInvariance, PTL DEF SweepInv

(***************************************************************************)
(* The table in place is the one its answers define, and a call of a name  *)
(* that the native backend lists goes there.                               *)
(***************************************************************************)
LEMMA FoundIsListed ==
  ASSUME NEW found \in Possible
  PROVE  /\ \A b \in Backends : found[b] \in Answers[b]
         /\ \A b \in Backends : found[b] # Failed => IsListing(found[b])
         /\ IsTableOf(Assemble(found), found)
<1>1. \A b \in Backends : found[b] \in Answers[b]
  BY DEF Possible
<1>2. \A b \in Backends : found[b] # Failed => IsListing(found[b])
  BY <1>1, AnswersAssumption
<1> QED
  BY <1>1, <1>2, TableIsBuilt

\* The owner of a name is the least backend that lists it.
LEMMA OwnerIsLeast ==
  ASSUME NEW found \in Possible, NEW t, IsTableOf(t, found), NEW n \in DOMAIN t.owners
  PROVE  /\ t.owners[n] \in Listers(found, n)
         /\ \A x \in Listers(found, n) : t.owners[n] <= x
<1>1. Listers(found, n) \in SUBSET Nat
  BY BackendsAssumption, FS_CardinalityType DEF Listers
<1>2. Listers(found, n) # {}
  BY DEF IsTableOf, Names, Listers
<1>3. \E b \in Listers(found, n) : \A x \in Listers(found, n) : b <= x
  BY <1>1, <1>2, Least
<1>4. t.owners[n] = FirstOf(found, n)
  BY DEF IsTableOf
<1> QED
  BY <1>3, <1>4 DEF FirstOf

LEMMA NativeIsFirst ==
  ASSUME NEW found \in Possible, NEW t, IsTableOf(t, found), NEW n \in DOMAIN t.owners,
         \E l \in Answers[Native] : \E i \in DOMAIN l : Advertised(Native, l[i]) = n
  PROVE  t.owners[n] = Native
<1>1. PICK l \in Answers[Native] : \E i \in DOMAIN l : Advertised(Native, l[i]) = n
  OBVIOUS
<1>2. found[Native] = l /\ l # Failed
  BY <1>1, NativeAssumption, FoundIsListed
<1>3. Native \in Listers(found, n)
  BY <1>1, <1>2, NativeAssumption DEF Listers
<1>4. t.owners[n] \in Backends /\ t.owners[n] <= Native
  BY <1>3, OwnerIsLeast DEF Listers
<1>5. Cardinality(Backends) \in Nat
  BY BackendsAssumption, FS_CardinalityType
<1> QED
  BY <1>4, <1>5, BackendsAssumption DEF Native

LEMMA NowhereIsTyped ==
  Nowhere \in [backend : {0} \cup Backends, strip : BOOLEAN, known : BOOLEAN]
BY DEF Nowhere

LEMMA InitTableInv == Init => TableInv
<1> SUFFICES ASSUME Init PROVE TableInv
  OBVIOUS
<1>1. RouteIsTyped
  BY NowhereIsTyped DEF Init, RouteIsTyped
<1> QED
  BY <1>1 DEF Init, TableInv, TableIsRight, NativeWins

LEMMA ReplaceTable ==
  ASSUME Replace PROVE results' \subseteq Possible /\ TableIsRight'
<1>1. PICK found \in Possible : results' = {found} /\ table' = {Assemble(found)}
  BY DEF Replace
<1>2. IsTableOf(Assemble(found), found)
  BY FoundIsListed
<1> QED
  BY <1>1, <1>2 DEF TableIsRight

LEMMA StepTableInv == TypeOK /\ TableInv /\ [Next]_vars => TableInv'
<1> SUFFICES ASSUME TypeOK, TableInv, [Next]_vars PROVE TableInv'
  OBVIOUS
<1> USE DEF TableInv, Goto
<1>1. ASSUME NEW r \in Requests, Dispatch(r) PROVE TableInv'
  <2>1. results' \subseteq Possible /\ TableIsRight'
    BY <1>1 DEF Dispatch, routes, TableIsRight
  <2>2. PICK t \in Owned(ask[r].name), found \in results :
          routed' = [routed EXCEPT ![r] =
            [backend |-> t.owners[ask[r].name], strip |-> ask[r].name \in t.augmented,
             known |-> \E i \in DOMAIN found[t.owners[ask[r].name]] :
                         found[t.owners[ask[r].name]][i].name
                           = LocalName(t.owners[ask[r].name], ask[r].name)]]
    BY <1>1 DEF Dispatch
  <2> DEFINE n == ask[r].name
             b == t.owners[n]
  <2>3. t \in table /\ n \in DOMAIN t.owners /\ found \in Possible /\ IsTableOf(t, found)
    BY <2>2 DEF Owned, TableIsRight
  <2>4. b \in Backends
    BY <2>3, OwnerIsLeast DEF Listers
  <2>5. RouteIsTyped'
    BY <2>2, <2>4 DEF RouteIsTyped
  <2>6. routed'[r].backend = b /\ \A x \in Requests \ {r} : routed'[x] = routed[x]
    BY <2>2 DEF RouteIsTyped
  <2> HIDE DEF b
  <2>7. (\E l \in Answers[Native] : \E i \in DOMAIN l : Advertised(Native, l[i]) = n)
           => b = Native
    BY <2>3, NativeIsFirst DEF b
  <2>8. ask' = ask /\ \A x \in Requests \ {r} : pc'[x] = pc[x]
    BY <1>1 DEF Dispatch, TypeOK
  <2>9. NativeWins'
    BY <2>6, <2>7, <2>8 DEF NativeWins
  <2> QED
    BY <2>1, <2>5, <2>9
<1>2. ASSUME NEW r \in Requests, Write(r) PROVE TableInv'
  <2>1. results' \subseteq Possible /\ TableIsRight'
    BY <1>2, ReplaceTable DEF Write
  <2>2. RouteIsTyped' /\ NativeWins'
    BY <1>2 DEF Write, TypeOK, RouteIsTyped, NativeWins
  <2> QED
    BY <2>1, <2>2
<1>3. CASE WarmUp
  <2>1. results' \subseteq Possible /\ TableIsRight'
    BY <1>3, ReplaceTable DEF WarmUp
  <2>2. RouteIsTyped' /\ NativeWins'
    BY <1>3 DEF WarmUp, RouteIsTyped, NativeWins
  <2> QED
    BY <2>1, <2>2
<1>4. ASSUME NEW r \in Requests, Return(r) \/ Cancel(r) PROVE TableInv'
  <2>1. results' \subseteq Possible /\ TableIsRight'
    BY <1>4 DEF Return, Cancel, routes, TableIsRight
  <2>2. RouteIsTyped'
    <3>1. routed' = [routed EXCEPT ![r] = Nowhere]
      BY <1>4 DEF Return, Cancel
    <3> QED
      BY <3>1, NowhereIsTyped DEF RouteIsTyped
  <2>3. ask' = ask /\ pc'[r] = "over" /\ \A x \in Requests \ {r} :
                        pc'[x] = pc[x] /\ routed'[x] = routed[x]
    BY <1>4 DEF Return, Cancel, TypeOK, RouteIsTyped
  <2>4. NativeWins'
    BY <2>3 DEF NativeWins
  <2> QED
    BY <2>1, <2>2, <2>4
<1>5. ASSUME NEW r \in Requests,
             \/ Arrive(r) \/ TakePermit(r) \/ CheckFresh(r) \/ UseOthers(r) \/ Sweep(r)
             \/ Refresh(r) \/ ReadTable(r) \/ Retry(r) \/ NotFound(r)
      PROVE  TableInv'
  <2>1. UNCHANGED <<ask, routed, table, results>>
    BY <1>5 DEF Arrive, TakePermit, CheckFresh, UseOthers, Sweep, Refresh, BeginSweep,
       ReadTable, Retry, NotFound, routes
  <2>2. pc'[r] # "calling" /\ \A x \in Requests \ {r} : pc'[x] = pc[x]
    BY <1>5 DEF Arrive, TakePermit, CheckFresh, UseOthers, Sweep, Refresh,
       ReadTable, Retry, NotFound, TypeOK
  <2>3. RouteIsTyped' /\ results' \subseteq Possible /\ TableIsRight'
    BY <2>1 DEF RouteIsTyped, TableIsRight
  <2>4. NativeWins'
    BY <2>1, <2>2 DEF NativeWins
  <2> QED
    BY <2>3, <2>4
<1>6. CASE Expire \/ UNCHANGED vars
  <2>1. UNCHANGED <<pc, ask, routed, table, results>>
    BY <1>6 DEF Expire, vars, routes
  <2> QED
    BY <2>1 DEF RouteIsTyped, TableIsRight, NativeWins
<1> QED
  BY <1>1, <1>2, <1>3, <1>4, <1>5, <1>6 DEF Next, Step

\* The two inductive invariants together.
THEOREM Invariance == Spec => []RInv
<1>1. Init => RInv
  BY InitSweepInv, InitTableInv DEF RInv
<1>2. RInv /\ [Next]_vars => RInv'
  BY StepSweepInv, StepTableInv DEF RInv, SweepInv
<1> QED
  BY <1>1, <1>2, PTL DEF Spec

\* However requests, sweeps, expiries and hang-ups interleave, the table in
\* place is the one that the answers it was built from define, for any number
\* of backends, any listings and any prefixes.
THEOREM TableIsAsAnswered == Spec => []TableIsRight
  BY Invariance, PTL DEF RInv, TableInv

\* No backend takes a name from the native one: Router::build makes it first.
THEOREM NativeToolsWin == Spec => []NativeWins
  BY Invariance, PTL DEF RInv, TableInv

(***************************************************************************)
(* Names map back.                                                         *)
(***************************************************************************)
\* Names and prefixes are sequences of parts, and no listed name begins with
\* the prefix its backend is given: the case that router_local_name is about
\* left out.
PlainNames(Parts) ==
  \A b \in Backends :
    /\ Prefix[b] \in Seq(Parts)
    /\ \A l \in Answers[b] : l # Failed =>
         \A i \in DOMAIN l : /\ l[i].name \in Seq(Parts)
                             /\ Prefix[b] # <<>> => ~IsPrefix(Prefix[b], l[i].name)

\* What apply_prefix puts in front, strip_prefix takes away.
LEMMA PrefixMapsBack ==
  ASSUME NEW Parts, NEW p \in Seq(Parts), NEW s \in Seq(Parts),
         p # <<>> => ~IsPrefix(p, s)
  PROVE  strip_prefix(p, apply_prefix(p, s)) = s
<1>1. CASE p = <<>>
  BY <1>1 DEF strip_prefix, apply_prefix
<1>2. CASE p # <<>>
  <2>1. apply_prefix(p, s) = p \o s
    BY <1>2 DEF apply_prefix
  <2>2. SubSeq(p, 1, Len(p)) = SubSeq(p \o s, 1, Len(p))
    OBVIOUS
  <2>3. IsPrefix(p, p \o s)
    BY <2>2 DEF IsPrefix
  <2>4. SubSeq(p \o s, Len(p) + 1, Len(p \o s)) = s
    OBVIOUS
  <2> QED
    BY <1>2, <2>1, <2>3, <2>4 DEF strip_prefix
<1> QED
  BY <1>1, <1>2

AllKnown == RouteIsTyped /\ CalledByLocalName

LEMMA StepAllKnown ==
  ASSUME NEW Parts, PlainNames(Parts)
  PROVE  TableInv /\ AllKnown /\ [Next]_vars => AllKnown'
<1> SUFFICES ASSUME TableInv, AllKnown, [Next]_vars PROVE AllKnown'
  OBVIOUS
<1> USE DEF AllKnown
<1>1. ASSUME NEW r \in Requests, Dispatch(r) PROVE AllKnown'
  <2>1. PICK t \in Owned(ask[r].name), found \in results :
          routed' = [routed EXCEPT ![r] =
            [backend |-> t.owners[ask[r].name], strip |-> ask[r].name \in t.augmented,
             known |-> \E i \in DOMAIN found[t.owners[ask[r].name]] :
                         found[t.owners[ask[r].name]][i].name
                           = LocalName(t.owners[ask[r].name], ask[r].name)]]
    BY <1>1 DEF Dispatch
  <2> DEFINE n == ask[r].name
             b == t.owners[n]
  <2>2. t \in table /\ n \in DOMAIN t.owners /\ found \in Possible /\ IsTableOf(t, found)
    BY <2>1 DEF Owned, TableInv, TableIsRight
  <2>3. b \in Listers(found, n)
    BY <2>2, OwnerIsLeast
  <2>4. RouteIsTyped'
    BY <2>1, <2>3 DEF Listers, RouteIsTyped
  <2>5. routed'[r].known = (\E i \in DOMAIN found[b] : found[b][i].name = LocalName(b, n))
        /\ \A x \in Requests \ {r} : routed'[x] = routed[x]
    BY <2>1 DEF RouteIsTyped
  <2> HIDE DEF b
  <2>6. PICK i \in DOMAIN found[b] : Advertised(b, found[b][i]) = n
    BY <2>3 DEF Listers
  <2>7. b \in Backends /\ found[b] # Failed /\ found[b] \in Answers[b]
    BY <2>2, <2>3, FoundIsListed DEF Listers
  <2>8. LocalName(b, n) = found[b][i].name
    BY <2>6, <2>7, PrefixMapsBack DEF PlainNames, LocalName, Advertised
  <2> QED
    BY <2>4, <2>5, <2>8 DEF CalledByLocalName
<1>2. ASSUME NEW r \in Requests, Return(r) \/ Cancel(r) PROVE AllKnown'
  <2>1. routed' = [routed EXCEPT ![r] = Nowhere]
    BY <1>2 DEF Return, Cancel
  <2>2. RouteIsTyped'
    BY <2>1, NowhereIsTyped DEF RouteIsTyped
  <2>3. routed'[r].known /\ \A x \in Requests \ {r} : routed'[x] = routed[x]
    BY <2>1 DEF RouteIsTyped, Nowhere
  <2> QED
    BY <2>2, <2>3 DEF CalledByLocalName
<1>3. ASSUME NEW r \in Requests,
             \/ Arrive(r) \/ TakePermit(r) \/ CheckFresh(r) \/ UseOthers(r) \/ Sweep(r)
             \/ Refresh(r) \/ Write(r) \/ ReadTable(r) \/ Retry(r) \/ NotFound(r)
      PROVE  AllKnown'
  <2>1. UNCHANGED routed
    BY <1>3 DEF Arrive, TakePermit, CheckFresh, UseOthers, Sweep, Refresh, BeginSweep,
       Write, ReadTable, Retry, NotFound
  <2> QED
    BY <2>1 DEF RouteIsTyped, CalledByLocalName
<1>4. CASE WarmUp \/ Expire \/ UNCHANGED vars
  BY <1>4 DEF WarmUp, Expire, vars, RouteIsTyped, CalledByLocalName
<1> QED
  BY <1>1, <1>2, <1>3, <1>4 DEF Next, Step

\* The converse of the run router_local_name: where no listed name begins with
\* its backend's prefix, every call reaches a backend that has listed the name
\* it is called by, whatever sweeps come in between.
THEOREM CalledAsListed ==
  ASSUME NEW Parts, PlainNames(Parts)
  PROVE  Spec => []CalledByLocalName
<1>1. Init => AllKnown
  BY NowhereIsTyped DEF Init, AllKnown, RouteIsTyped, CalledByLocalName, Nowhere
<1>2. TableInv /\ AllKnown /\ [Next]_vars => AllKnown'
  BY StepAllKnown
<1>3. Spec => []TableInv
  BY Invariance, PTL DEF RInv
<1>4. AllKnown => CalledByLocalName
  BY DEF AllKnown
<1> QED
  BY <1>1, <1>2, <1>3, <1>4, PTL DEF Spec
=============================================================================
