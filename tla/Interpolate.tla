----------------------------- MODULE Interpolate -----------------------------
(***************************************************************************)
(* Placeholders in the configuration (src/config/interpolate.rs).  A text  *)
(* is a sequence of symbols: the marks, blanks and words.                  *)
(***************************************************************************)
EXTENDS Naturals, Sequences, SequencesExt

CONSTANT Symbols    \* what the texts of configuration files are made of

Sign   == "$"
Brace  == "{"
Close  == "}"
Else   == ":-"
Blanks == {" ", "newline"}

ASSUME SymbolsAssumption == {Sign, Brace, Close, Else} \cup Blanks \subseteq Symbols

\* str::trim
trim(text) ==
  LET solid == {i \in DOMAIN text : text[i] \notin Blanks}
  IN  IF solid = {} THEN <<>> ELSE SubSeq(text, Min(solid), Max(solid))

Expanded(text)  == [ok |-> TRUE, text |-> text]
MissingEnv(var) == [ok |-> FALSE, var |-> var]

\* A placeholder, given what stands between its braces: VAR or VAR:-default.
Lookup(body, env) ==
  LET cut  == SelectInSeq(body, LAMBDA s : s = Else)
      name == trim(IF cut = 0 THEN body ELSE SubSeq(body, 1, cut - 1))
  IN  CASE name \in DOMAIN env -> Expanded(env[name])
        [] name \notin DOMAIN env /\ cut # 0 ->
             Expanded(SubSeq(body, cut + 1, Len(body)))
        [] OTHER -> MissingEnv(name)

\* A value with placeholders in it would be expanded in its turn.
Mutant_Blank(body, env) ==
  LET found == Lookup(body, env) IN IF found.ok THEN found ELSE Expanded(<<>>)
Placeholder(body, env) == Lookup(body, env)

\* What begins at position i: "$$", or "${" with a "}" after it.
Is(input, i, symbol) == i <= Len(input) /\ input[i] = symbol
Ends(input, i)    == {j \in i .. Len(input) : input[j] = Close}
Escapes(input, i) == Is(input, i, Sign) /\ Is(input, i + 1, Sign)
Opens(input, i)   == Is(input, i, Sign) /\ Is(input, i + 1, Brace) /\ Ends(input, i + 2) # {}

\* What out becomes by a part and by what follows; the first error counts.
Followed(part, rest) == CASE ~part.ok            -> part
                          [] part.ok /\ ~rest.ok -> rest
                          [] OTHER               -> Expanded(part.text \o rest.text)

\* expand(): reads[i] is what the input from position i on becomes.
expand(input, env) ==
  LET reads[i \in 1 .. Len(input) + 1] ==
        CASE i > Len(input)    -> Expanded(<<>>)
          [] Escapes(input, i) -> Followed(Expanded(<<Sign>>), reads[i + 2])
          [] Opens(input, i)   ->
               Followed(Placeholder(SubSeq(input, i + 2, Min(Ends(input, i + 2)) - 1), env),
                        reads[Min(Ends(input, i + 2)) + 1])
          [] OTHER             -> Followed(Expanded(<<input[i]>>), reads[i + 1])
  IN  reads[1]

-----------------------------------------------------------------------------
(* What a text means by the pieces it was written from, without a scanner. *)

Word(symbol)      == [kind |-> "word", symbol |-> symbol]
Dollar            == [kind |-> "dollar"]
Var(name)         == [kind |-> "var", name |-> name]
VarOr(name, text) == [kind |-> "varOr", name |-> name, text |-> text]

Body(piece) ==
  IF piece.kind = "var" THEN piece.name ELSE piece.name \o <<Else>> \o piece.text

Written(piece) ==
  CASE piece.kind = "word"   -> <<piece.symbol>>
    [] piece.kind = "dollar" -> <<Sign, Sign>>
    [] piece.kind \in {"var", "varOr"} -> <<Sign, Brace>> \o Body(piece) \o <<Close>>

Meaning(piece, env) ==
  CASE piece.kind = "word"   -> <<piece.symbol>>
    [] piece.kind = "dollar" -> <<Sign>>
    [] piece.kind \in {"var", "varOr"} ->
         IF trim(piece.name) \in DOMAIN env THEN env[trim(piece.name)] ELSE piece.text

Undefined(piece, env) == piece.kind = "var" /\ trim(piece.name) \notin DOMAIN env

\* The texts from the i-th on, one after the other.
Joined(texts) ==
  LET from[i \in 1 .. Len(texts) + 1] ==
        IF i = Len(texts) + 1 THEN <<>> ELSE texts[i] \o from[i + 1]
  IN  from

WrittenFrom(pieces)    == Joined([i \in 1 .. Len(pieces) |-> Written(pieces[i])])
MeantFrom(pieces, env) == Joined([i \in 1 .. Len(pieces) |-> Meaning(pieces[i], env)])

WrittenText(pieces)    == WrittenFrom(pieces)[1]
MeantText(pieces, env) == MeantFrom(pieces, env)[1]

\* The pieces say what they seem to: a name ends where it ends, and a "$" by
\* itself is not taken with what comes after it.
Lacks(text, symbols) == \A k \in 1 .. Len(text) : text[k] \notin symbols
Alone(rest) == rest # <<>> => /\ rest[1] # Sign
                              /\ rest[1] = Brace => \A k \in 2 .. Len(rest) : rest[k] # Close

ClearPiece(piece, rest) ==
  CASE piece.kind = "word"   -> piece.symbol \in Symbols /\ (piece.symbol = Sign => Alone(rest))
    [] piece.kind = "dollar" -> TRUE
    [] piece.kind = "var"    -> piece.name \in Seq(Symbols) /\ Lacks(piece.name, {Close, Else})
    [] piece.kind = "varOr"  -> /\ piece.name \in Seq(Symbols) /\ Lacks(piece.name, {Close, Else})
                                /\ piece.text \in Seq(Symbols) /\ Lacks(piece.text, {Close})

Kinds == {"word", "dollar", "var", "varOr"}
Clear(pieces) == /\ Len(pieces) \in Nat /\ DOMAIN pieces = 1 .. Len(pieces)
                 /\ \A i \in 1 .. Len(pieces) :
                      /\ pieces[i].kind \in Kinds
                      /\ ClearPiece(pieces[i], WrittenFrom(pieces)[i + 1])
=============================================================================
