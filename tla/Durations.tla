------------------------------ MODULE Durations ------------------------------
(***************************************************************************)
(* Durations in the configuration (src/config/duration.rs): an integer and *)
(* a unit, in milliseconds once parsed.                                    *)
(***************************************************************************)
EXTENDS Integers

CONSTANT MaxU64     \* u64::MAX; TLC takes a smaller one

ASSUME MaxU64Assumption == MaxU64 \in Nat

NoDigits == -1      \* the number of a text that does not begin with a digit
Duration(number, unit) == [number |-> number, unit |-> unit]

Factor == [ms |-> 1, s |-> 1000, bare |-> 1000, m |-> 60000, h |-> 3600000]

IsU64(n) == n \in 0 .. MaxU64

\* str::parse::<u64> and checked_mul: an unchecked product would wrap.
Mutant_Wraps(d) == d.unit \in DOMAIN Factor /\ IsU64(d.number)
Parses(d) == /\ d.unit \in DOMAIN Factor
             /\ IsU64(d.number)
             /\ d.number <= MaxU64 \div Factor[d.unit]

parse(d) == (d.number * Factor[d.unit]) % (MaxU64 + 1)

as_secs(millis) == millis \div 1000
=============================================================================
