-------------------------------- MODULE Keys --------------------------------
(***************************************************************************)
(* Values and keys as bytes: types.Value, EncodeKey, DecodeKey and what    *)
(* they call in types/schema.go.                                           *)
(*                                                                         *)
(* A value carries its type and, as in Go, both payloads. Strings are      *)
(* sequences of bytes. A byte is a digit below Base, which keeps the four  *)
(* bytes the encoding treats specially (00, 01, 02 and ff) and a few       *)
(* letters. An integer has IntWidth bytes, eight in the code. The four     *)
(* bytes of a prefix are one leading symbol: they are as long in every key *)
(* and compare as a number.                                                *)
(***************************************************************************)
EXTENDS Integers, Sequences, SequencesExt

CONSTANTS Base,      \* 256 in the code
          IntWidth,  \* 8 in the code
          Half       \* integers wrap at -Half and Half: 2^63 in the code

\* Base to the power of i.
Power[i \in 0 .. IntWidth] == IF i = 0 THEN 1 ELSE Base * Power[i - 1]

ASSUME WidthAssumption ==
  /\ Base \in Nat /\ Base > 3
  /\ IntWidth \in Nat \ {0}
  /\ Half \in Nat
  /\ 2 * Half = Power[IntWidth]

Value(t, n, s) == [t |-> t, n |-> n, s |-> s]
Str(s) == Value("bytes", 0, s)
I64(n) == Value("int", n, << >>)

\* bytes.Compare and strings.Compare, as "a comes before b".
Before(a, b) ==
  \E i \in 1 .. Len(b) :
    /\ i <= Len(a) + 1
    /\ \A j \in 1 .. i - 1 : a[j] = b[j]
    /\ i = Len(a) + 1 \/ a[i] < b[i]

FF == Base - 1
MinInt == -Half
MaxInt == Half - 1

Escape(b) == IF b = 0 THEN <<1, 1>> ELSE IF b = 1 THEN <<1, 2>> ELSE <<b>>

SerializeBytes(s) == FlattenSeq([i \in DOMAIN s |-> Escape(s[i])])

\* One byte more: 01 makes the next byte read one less.
ReadByte(r, b) ==
  IF b = 1 /\ ~r.escape THEN [out |-> r.out, escape |-> TRUE]
  ELSE [out |-> Append(r.out, IF r.escape THEN b - 1 ELSE b), escape |-> FALSE]

DeserializeBytes(e) ==
  LET read[i \in 0 .. Len(e)] ==
        IF i = 0 THEN [out |-> << >>, escape |-> FALSE] ELSE ReadByte(read[i - 1], e[i])
  IN  read[Len(e)].out

\* n shifted right by up to IntWidth bytes.
Shifted(n) ==
  LET shifted[i \in 0 .. IntWidth] == IF i = 0 THEN n ELSE shifted[i - 1] \div Base
  IN  shifted

\* The bytes of n, the most significant first.
BigEndian(n) == [i \in 1 .. IntWidth |-> Shifted(n)[IntWidth - i] % Base]

\* A plausible slip in SerializeInt: the sign bit is not flipped.
SerializeIntRaw(n) == BigEndian(n % (2 * Half))

\* Flipping the sign bit adds Half. MinInt is refused by a panic.
SerializeInt(n) == BigEndian(n + Half)

DeserializeInt(e) ==
  LET upto[i \in 0 .. IntWidth] == IF i = 0 THEN 0 ELSE upto[i - 1] * Base + e[i]
  IN  upto[IntWidth] - Half

SerializeValue(v) == IF v.t = "int" THEN SerializeInt(v.n) ELSE Append(SerializeBytes(v.s), 0)

EncodeKey(prefix, vals) ==
  <<prefix>> \o FlattenSeq([i \in DOMAIN vals |-> SerializeValue(vals[i])])

\* EncodeKey panics on a value that is neither and on the smallest integer.
Encodable(vals) ==
  \A i \in DOMAIN vals : vals[i].t \in {"int", "bytes"} /\ ~(vals[i].t = "int" /\ vals[i].n = MinInt)

\* Where a value of a type that begins at i ends, its delimiter included.
Ends(e, i, type) ==
  IF type = "int" THEN i + IntWidth - 1
  ELSE CHOOSE j \in i .. Len(e) : e[j] = 0 /\ \A h \in i .. j - 1 : e[h] # 0

Deserialize(e, type) ==
  IF type = "int" THEN I64(DeserializeInt(e))
  ELSE Str(DeserializeBytes(SubSeq(e, 1, Len(e) - 1)))

\* The values of the types in turn, after the prefix.
Decode(key, types) ==
  LET last[j \in 0 .. Len(types)] == IF j = 0 THEN 1 ELSE Ends(key, last[j - 1] + 1, types[j])
  IN  [j \in DOMAIN types |-> Deserialize(SubSeq(key, last[j - 1] + 1, last[j]), types[j])]
=============================================================================
