-------------------------------- MODULE Codec --------------------------------
(***************************************************************************)
(* ScalarString and ScalarFromString applied one call at a time to every   *)
(* input of a bounded domain: each state holds one call, its arguments and *)
(* its result.  The properties relate the two functions to each other and  *)
(* to StringToPrimitiveType, through which the engine names value types.   *)
(***************************************************************************)
EXTENDS ScalarCodec

\* Payloads: signs, zero, one and two or three digits, sub-microsecond and
\* negative (pre-1970) instants.
Ints  == {-105, -10, -1, 0, 7, 10, 105}
Tenths == {-15, -5, 0, 5, 10, 105}
Nanos == {-1500, -1000, -1, 0, 1, 999, 1000, 1500}
Texts == {<<>>, <<"a">>, <<"-", "1">>, <<"t", "r", "u", "e">>}

ScalarValues ==
  {V("string", 0, t, FALSE) : t \in Texts}
  \cup {V("int", n, <<>>, FALSE) : n \in Ints}
  \cup {V("float64", k, <<>>, FALSE) : k \in Tenths}
  \cup {V("bool", 0, <<>>, b) : b \in BOOLEAN}
  \cup {V("time.Time", ns, <<>>, FALSE) : ns \in Nanos}

\* Values of other dynamic types: sized numbers, which StringToPrimitiveType
\* calls Integer and Float, an int64, a slice and nil.
OtherValues ==
  {V(rt, 7, <<>>, FALSE) : rt \in {"int32", "float32", "int64", "[]int"}}
  \cup {NilValue}

Values == ScalarValues \cup OtherValues

\* The encodings of every value, and malformed or non-canonical strings.
Strings ==
  {ScalarString(v).str : v \in ScalarValues}
  \cup {<<>>, <<"-">>, <<"+", "7">>, <<"0", "7">>, <<"1", ".">>,
        <<".", "5">>, <<".">>, <<"1", ".", ".", "5">>, <<"x">>, <<"T">>}

VARIABLES op, in, out

vars == <<op, in, out>>

\* in: the value or the string and tag of the call; out: its result.
Call(v, s, t) == [val |-> v, str |-> s, tag |-> t]

Result(k, v, s) == [kind |-> k, val |-> v, str |-> s]

Init ==
  /\ op = "none"
  /\ in = Call(NilValue, <<>>, PrimitiveTypeUnknown)
  /\ out = Result("none", NilValue, <<>>)

EncodeOp ==
  \E v \in Values :
    LET r == ScalarString(v) IN
    /\ op' = "ScalarString"
    /\ in' = Call(v, <<>>, PrimitiveTypeUnknown)
    /\ out' = Result(IF r.panic THEN "panic" ELSE "ok", NilValue, r.str)

DecodeOp ==
  \E s \in Strings, t \in PrimitiveTypes :
    LET r == ScalarFromString(s, t) IN
    /\ op' = "ScalarFromString"
    /\ in' = Call(NilValue, s, t)
    /\ out' = Result(r.kind, r.val, <<>>)

Next == EncodeOp \/ DecodeOp

Spec == Init /\ [][Next]_vars

-----------------------------------------------------------------------------
\* The tag the engine gives a value: StringToPrimitiveType of its type name.
TagOf(v) == StringToPrimitiveType(v.rt)

(***************************************************************************)
(* The round-trip law (spec section 8): ScalarFromString(ScalarString(v),  *)
(* t) is v again, without error, for every value of every supported scalar *)
(* tag t, timestamps at microsecond precision.  It ties strconv's Itoa,    *)
(* FormatFloat and FormatBool in ScalarString to Atoi, ParseFloat and      *)
(* ParseBool in ScalarFromString.                                          *)
(***************************************************************************)
ScalarRoundTrip ==
  (/\ op = "ScalarString"
   /\ out.kind = "ok"
   /\ in.val.rt = "time.Time" => in.val.i % 1000 = 0)
  => ScalarFromString(out.str, TagOf(in.val)) = Ok(in.val)

(***************************************************************************)
(* A timestamp encoded and decoded again is the instant truncated down to  *)
(* its microsecond: never later than the original and less than one       *)
(* microsecond earlier, before 1970 as well as after (UnixMicro at line    *)
(* 268 and time.UnixMicro at line 292).                                    *)
(***************************************************************************)
TimestampTruncatesDown ==
  (op = "ScalarString" /\ in.val.rt = "time.Time")
  => LET d == ScalarFromString(out.str, PrimitiveTypeTimestamp).val.i
     IN  d <= in.val.i /\ in.val.i < d + 1000

(***************************************************************************)
(* A value ScalarFromString returns for tag t is detected as t again: its  *)
(* Go type is one StringToPrimitiveType maps to t, so that TypeDetect and  *)
(* the codec agree on decoded values.                                      *)
(***************************************************************************)
DecodedTypeDetected ==
  (op = "ScalarFromString" /\ out.kind = "ok") => TagOf(out.val) = in.tag

(***************************************************************************)
(* ScalarString accepts every value whose type the engine calls a known    *)
(* scalar (spec section 3: only non-scalar values are a contract           *)
(* violation, and that is an error, not a panic).                          *)
(***************************************************************************)
ScalarStringTotal ==
  (/\ op = "ScalarString"
   /\ Scalar(TagOf(in.val))
   /\ TagOf(in.val) # PrimitiveTypeUnknown)
  => out.kind = "ok"

(***************************************************************************)
(* ScalarFromString never panics: a tag it cannot decode to is refused    *)
(* with an error (spec section 3: InvalidArgument), for every scalar tag   *)
(* that Scalar() accepts, Unknown included.                                *)
(***************************************************************************)
FromStringTotal == op = "ScalarFromString" => out.kind # "panic"

=============================================================================
