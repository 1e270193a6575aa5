---------------------------- MODULE ScalarCodec -----------------------------
(***************************************************************************)
(* The string codec of scalar values (src/internal/engine/engine_bind.go,  *)
(* lines 257-296: ScalarString and ScalarFromString), with the strconv and *)
(* time conversions they call modelled by what they do.                    *)
(*                                                                         *)
(* A string is a sequence of one-character strings.  A Go value is a       *)
(* record: rt its dynamic type's name, i its integer payload (an int, a    *)
(* float64 in tenths, a time.Time in nanoseconds since the epoch), s its   *)
(* string payload and b its bool payload; unused fields keep defaults.     *)
(* Floats are abstracted to multiples of 0.1, whose shortest decimal form  *)
(* has at most one fractional digit.                                       *)
(***************************************************************************)
EXTENDS PrimitiveType, Sequences, FiniteSets

V(rt, i, s, b) == [rt |-> rt, i |-> i, s |-> s, b |-> b]

NilValue == V("nil", 0, <<>>, FALSE)

DigitChar == <<"0", "1", "2", "3", "4", "5", "6", "7", "8", "9">>

IsDigit(c) == \E d \in 1..10 : DigitChar[d] = c

DigitVal(c) == CHOOSE d \in 0..9 : DigitChar[d + 1] = c

\* The decimal digits of a natural number, most significant first.
Digits[m \in Nat] ==
  IF m < 10 THEN <<DigitChar[m + 1]>>
  ELSE Digits[m \div 10] \o <<DigitChar[(m % 10) + 1]>>

\* The number a sequence of decimal digits denotes, read left to right.
DecimalValue(ds) ==
  LET val[j \in 0..Len(ds)] ==
        IF j = 0 THEN 0 ELSE 10 * val[j - 1] + DigitVal(ds[j])
  IN  val[Len(ds)]

AbsInt(n) == IF n < 0 THEN -n ELSE n

\* An optional leading sign, as strconv's integer and float parsers read it.
SignSplit(s) ==
  IF s # <<>> /\ s[1] \in {"+", "-"}
    THEN [neg |-> s[1] = "-", body |-> Tail(s)]
    ELSE [neg |-> FALSE, body |-> s]

AllDigits(s) == \A j \in 1..Len(s) : IsDigit(s[j])

\* strconv.Itoa and strconv.FormatInt(_, 10).
Itoa(n) == IF n < 0 THEN <<"-">> \o Digits[-n] ELSE Digits[n]

\* strconv.Atoi and strconv.ParseInt(_, 10, 64): a sign, then at least one
\* decimal digit and nothing else.
Atoi(s) ==
  LET p == SignSplit(s) IN
  IF p.body # <<>> /\ AllDigits(p.body)
    THEN [ok |-> TRUE,
          n |-> IF p.neg THEN -DecimalValue(p.body) ELSE DecimalValue(p.body)]
    ELSE [ok |-> FALSE, n |-> 0]

\* Mutant: FormatFloat(v, 'f', 0, 64), rounding half to even to an integer.
FormatFloatPrec0(k) ==
  LET q == k \div 10
      r == k % 10
      n == IF r < 5 \/ (r = 5 /\ q % 2 = 0) THEN q ELSE q + 1
  IN  IF k < 0 /\ n = 0 THEN <<"-", "0">> ELSE Itoa(n)

\* strconv.FormatFloat(v, 'f', -1, 64) of k tenths: the shortest decimal.
FormatFloat(k) ==
  LET a == AbsInt(k) IN
  (IF k < 0 THEN <<"-">> ELSE <<>>)
    \o Digits[a \div 10]
    \o (IF a % 10 = 0 THEN <<>> ELSE <<".", DigitChar[(a % 10) + 1]>>)

\* strconv.ParseFloat(_, 64) on decimal strings with at most one
\* fractional digit: a sign, digits, an optional point and digits, at least
\* one digit in all.
ParseFloat(s) ==
  LET p    == SignSplit(s)
      dots == {j \in 1..Len(p.body) : p.body[j] = "."}
      dot  == IF dots = {} THEN Len(p.body) + 1 ELSE CHOOSE j \in dots : TRUE
      ip   == SubSeq(p.body, 1, dot - 1)
      fp   == SubSeq(p.body, dot + 1, Len(p.body))
      t    == 10 * DecimalValue(ip) + IF fp = <<>> THEN 0 ELSE DigitVal(fp[1])
  IN  IF /\ Cardinality(dots) <= 1
         /\ AllDigits(ip) /\ AllDigits(fp)
         /\ ip \o fp # <<>>
        THEN [ok |-> TRUE, n |-> IF p.neg THEN -t ELSE t]
        ELSE [ok |-> FALSE, n |-> 0]

\* strconv.FormatBool and strconv.ParseBool.
FormatBool(b) == IF b THEN <<"t", "r", "u", "e">> ELSE <<"f", "a", "l", "s", "e">>

TrueStrings == {<<"1">>, <<"t">>, <<"T">>, <<"T", "R", "U", "E">>,
                <<"t", "r", "u", "e">>, <<"T", "r", "u", "e">>}

FalseStrings == {<<"0">>, <<"f">>, <<"F">>, <<"F", "A", "L", "S", "E">>,
                 <<"f", "a", "l", "s", "e">>, <<"F", "a", "l", "s", "e">>}

\* Mutant: UnixMicro dividing the nanoseconds toward zero.
UnixMicroTowardZero(ns) == IF ns < 0 THEN -((-ns) \div 1000) ELSE ns \div 1000

\* time.Time.UnixMicro: unixSec*1e6 + nsec/1e3 with 0 <= nsec < 1e9, the
\* floor of the nanoseconds over 1000.
UnixMicro(ns) == ns \div 1000

\* time.UnixMicro(m): the instant m microseconds after the epoch.
TimeUnixMicro(m) == m * 1000

-----------------------------------------------------------------------------
(***************************************************************************)
(* ScalarString: a string for the five Go types of scalar values, a panic  *)
(* ("unreachable") for any other dynamic type.                             *)
(***************************************************************************)
Encoded(str) == [panic |-> FALSE, str |-> str]

ScalarString(v) ==
  CASE v.rt = "string"    -> Encoded(v.s)
    [] v.rt = "int"       -> Encoded(Itoa(v.i))
    [] v.rt = "float64"   -> Encoded(FormatFloat(v.i))
    [] v.rt = "bool"      -> Encoded(FormatBool(v.b))
    [] v.rt = "time.Time" -> Encoded(Itoa(UnixMicro(v.i)))
    [] OTHER              -> [panic |-> TRUE, str |-> <<>>]

(***************************************************************************)
(* ScalarFromString: an error for a list tag; otherwise the parse of the   *)
(* tag's type, whose error is returned; a panic ("unreachable") for the    *)
(* scalar tag Unknown.                                                     *)
(***************************************************************************)
Ok(v) == [kind |-> "ok", val |-> v]

Failed == [kind |-> "err", val |-> NilValue]

Panicked == [kind |-> "panic", val |-> NilValue]

\* Mutant: the Integer case parsed with strconv.ParseInt, giving an int64.
DecodeIntegerParseInt(s) ==
  LET r == Atoi(s) IN IF r.ok THEN Ok(V("int64", r.n, <<>>, FALSE)) ELSE Failed

\* return strconv.Atoi(val)
DecodeInteger(s) ==
  LET r == Atoi(s) IN IF r.ok THEN Ok(V("int", r.n, <<>>, FALSE)) ELSE Failed

DecodeFloat(s) ==
  LET r == ParseFloat(s) IN IF r.ok THEN Ok(V("float64", r.n, <<>>, FALSE)) ELSE Failed

DecodeBool(s) ==
  IF s \in TrueStrings \cup FalseStrings
    THEN Ok(V("bool", 0, <<>>, s \in TrueStrings))
    ELSE Failed

DecodeTimestamp(s) ==
  LET r == Atoi(s)
  IN  IF r.ok THEN Ok(V("time.Time", TimeUnixMicro(r.n), <<>>, FALSE))
      ELSE Failed

ScalarFromString(val, scalar) ==
  IF ~Scalar(scalar) THEN Failed
  ELSE CASE scalar = PrimitiveTypeString    -> Ok(V("string", 0, val, FALSE))
         [] scalar = PrimitiveTypeInteger   -> DecodeInteger(val)
         [] scalar = PrimitiveTypeFloat     -> DecodeFloat(val)
         [] scalar = PrimitiveTypeBoolean   -> DecodeBool(val)
         [] scalar = PrimitiveTypeTimestamp -> DecodeTimestamp(val)
         [] OTHER                           -> Panicked

=============================================================================
