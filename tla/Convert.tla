------------------------------ MODULE Convert ------------------------------
(***************************************************************************)
(* What becomes of a value between a core client and a column of a         *)
(* PostgreSQL table: core/go PgInsert, protoFieldsToRow, the column,       *)
(* rowToProtoFields, core/go PgQuery.  A value is a pair of its kind and   *)
(* an integer: the number it is or, for a string, the number it spells, or *)
(* Word or NilText, which spell none.  Booleans, which no step changes,    *)
(* nested values and bytes, which PgInsert never sends, are left out.      *)
(***************************************************************************)
EXTENDS Integers

CONSTANT Mantissa  \* the bits of a double: 53 in the code

ASSUME MantissaAssumption == Mantissa \in Nat \ {0}

Word == -1
NilText == -2   \* "<nil>"
Lost == <<"lost", 0>>

\* float64(n) for naturals of at most one bit more than a double holds: rounded to
\* the neighbour whose last bit is zero.
Double(n) ==
  IF n <= 2 ^ Mantissa \/ n % 2 = 0 THEN n ELSE IF (n \div 2) % 2 = 0 THEN n - 1 ELSE n + 1

\* Mutant of Pack: an int64 becomes a double like an int.
PackNumbers(v) ==
  CASE v[1] = "string" -> <<"StringValue", v[2]>>
    [] v[1] \in {"int", "int64", "float64"} -> <<"NumberValue", Double(v[2])>>
    [] v[1] = "nil" -> <<"StringValue", NilText>>

\* PgInsert.  What has no case of its own becomes the text that %v gives: the digits
\* of an int64, and "<nil>".
Pack(v) ==
  CASE v[1] = "string" -> <<"StringValue", v[2]>>
    [] v[1] \in {"int", "float64"} -> <<"NumberValue", Double(v[2])>>
    [] v[1] = "int64" -> <<"StringValue", v[2]>>
    [] v[1] = "nil" -> <<"StringValue", NilText>>

fromProtoValue(p) ==
  CASE p[1] = "NumberValue" -> <<"float64", p[2]>>
    [] p[1] = "StringValue" -> <<"string", p[2]>>
    [] OTHER -> <<"nil", 0>>

\* The database reads every parameter from its text: a bigint column needs digits.
Fits(column, v) == column = "text" \/ v[2] >= 0
Stored(column, v) == IF column = "text" THEN <<"string", v[2]>> ELSE <<"int64", v[2]>>

toProtoValue(v) ==
  CASE v[1] = "int64" -> <<"NumberValue", Double(v[2])>>
    [] v[1] = "string" -> <<"StringValue", v[2]>>
    [] OTHER -> <<"NullValue", 0>>

\* PgQuery: a field that is neither string, number nor boolean is left out.
Unpack(p) ==
  CASE p[1] = "NumberValue" -> <<"float64", p[2]>>
    [] p[1] = "StringValue" -> <<"string", p[2]>>
    [] OTHER -> Lost
=============================================================================
