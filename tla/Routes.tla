------------------------------- MODULE Routes -------------------------------
(***************************************************************************)
(* The routing table (src/router/routes.rs) and the tool names it is keyed *)
(* by (apply_prefix and strip_prefix in src/backend/mod.rs), as pure       *)
(* operators.  Backends are numbered in the order Router::build makes      *)
(* them.  A name is a sequence of parts, and a prefix one too, so that     *)
(* "starts with" is IsPrefix.                                              *)
(***************************************************************************)
EXTENDS Naturals, Sequences, SequencesExt, FiniteSets

CONSTANTS Backends,   \* 1 .. n, the native backend first
          Prefix,     \* the prefix of each backend; empty if it has none
          Failed      \* stands for a listing that failed or timed out

ASSUME BackendsAssumption ==
  IsFiniteSet(Backends) /\ Backends = 1 .. Cardinality(Backends)

\* A tool as its backend lists it: its local name, and whether its schema is
\* left alone (it has a timeout of its own, or is no object).
Tool(name, fixed) == [name |-> name, fixed |-> fixed]

IsListing(l) == /\ Len(l) \in Nat /\ DOMAIN l = 1 .. Len(l)
                /\ \A i \in DOMAIN l : l[i].fixed \in BOOLEAN

apply_prefix(prefix, name) ==
  IF prefix # <<>> /\ ~IsPrefix(prefix, name) THEN prefix \o name ELSE name

strip_prefix(prefix, name) ==
  IF prefix # <<>> /\ IsPrefix(prefix, name)
    THEN SubSeq(name, Len(prefix) + 1, Len(name)) ELSE name

Advertised(b, tool) == apply_prefix(Prefix[b], tool.name)

-----------------------------------------------------------------------------
\* The table the code builds: for each advertised name the backend that owns
\* it, the names whose schema got a timeout, the backends that failed.
EmptyTable == [owners |-> <<>>, augmented |-> {}, failures |-> {}]

\* One tool of Routes::absorb: the first to claim a name keeps it.
Mutant_Overwrite(table, n) == FALSE
Claimed(table, n) == n \in DOMAIN table.owners

Enter(table, b, tool) ==
  LET n == Advertised(b, tool) IN
  IF Claimed(table, n) THEN table
  ELSE [owners    |-> [m \in DOMAIN table.owners \cup {n} |->
                        IF m = n THEN b ELSE table.owners[m]],
        augmented |-> IF tool.fixed THEN table.augmented ELSE table.augmented \cup {n},
        failures  |-> table.failures]

absorb(table, b, tools) ==
  LET after[i \in 0 .. Len(tools)] ==
        IF i = 0 THEN table ELSE Enter(after[i - 1], b, tools[i])
  IN  after[Len(tools)]

\* Routes::discover after join_all: the results in the order of the backends.
Assemble(results) ==
  LET after[b \in 0 .. Cardinality(Backends)] ==
        CASE b = 0 -> EmptyTable
          [] b # 0 /\ results[b] = Failed -> [after[b - 1] EXCEPT !.failures = @ \cup {b}]
          [] OTHER -> absorb(after[b - 1], b, results[b])
  IN  after[Cardinality(Backends)]

-----------------------------------------------------------------------------
\* What the table should be, without an order of construction.
Listers(results, n) ==
  {b \in Backends : /\ results[b] # Failed
                    /\ \E i \in DOMAIN results[b] : Advertised(b, results[b][i]) = n}

Names(results) ==
  UNION {{Advertised(b, results[b][i]) : i \in DOMAIN results[b]} :
           b \in {x \in Backends : results[x] # Failed}}

\* The least backend that lists the name, and its first tool of that name.
FirstOf(results, n) == CHOOSE b \in Listers(results, n) :
                         \A x \in Listers(results, n) : b <= x

FirstTool(list, b, n) ==
  list[CHOOSE i \in DOMAIN list :
         /\ Advertised(b, list[i]) = n
         /\ \A j \in DOMAIN list : Advertised(b, list[j]) = n => i <= j]

IsTableOf(table, results) ==
  /\ DOMAIN table.owners = Names(results)
  /\ table.failures = {b \in Backends : results[b] = Failed}
  /\ \A n \in Names(results) :
       LET b == FirstOf(results, n) IN
         /\ table.owners[n] = b
         /\ n \in table.augmented <=> ~FirstTool(results[b], b, n).fixed
=============================================================================
