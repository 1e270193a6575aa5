----------------------------- MODULE CodecProofs -----------------------------
(***************************************************************************)
(* Facts about ScalarString and ScalarFromString that hold for every       *)
(* value, not only the bounded ones the Codec runs enumerate.  The integer *)
(* and float cases rest on the digit lemmas of DigitsProofs; the codec    *)
(* run's invariants follow from the inductive invariant EncodeConsistent.  *)
(***************************************************************************)
EXTENDS Codec, DigitsProofs, TLAPS

(***************************************************************************)
(* UnixMicro followed by time.UnixMicro (lines 268 and 292) truncates an   *)
(* instant down to its microsecond, for every int64 of nanoseconds, before *)
(* 1970 included: the decoded instant is never later and less than 1000 ns *)
(* earlier, and it is the instant itself exactly when that is a whole      *)
(* microsecond.                                                            *)
(***************************************************************************)
THEOREM TimestampTruncation ==
  \A ns \in Int :
    LET d == TimeUnixMicro(UnixMicro(ns)) IN
    /\ d <= ns
    /\ ns < d + 1000
    /\ (d = ns) <=> (ns % 1000 = 0)
PROOF
  <1> SUFFICES ASSUME NEW ns \in Int
               PROVE  LET d == TimeUnixMicro(UnixMicro(ns)) IN
                      /\ d <= ns
                      /\ ns < d + 1000
                      /\ (d = ns) <=> (ns % 1000 = 0)
    OBVIOUS
  <1>1. ns = 1000 * (ns \div 1000) + (ns % 1000) /\ (ns % 1000) \in 0..999
    BY SMT
  <1>2. QED BY <1>1 DEF TimeUnixMicro, UnixMicro

(***************************************************************************)
(* The round-trip law for Boolean and String values: ScalarFromString      *)
(* gives back every bool that FormatBool encoded and every string          *)
(* ScalarString passed through, under the tag StringToPrimitiveType gives  *)
(* the value's Go type.                                                    *)
(***************************************************************************)
THEOREM BoolRoundTrip ==
  \A b \in BOOLEAN :
    LET v == V("bool", 0, <<>>, b) IN
    ScalarFromString(ScalarString(v).str, StringToPrimitiveType(v.rt)) = Ok(v)
PROOF
  <1> SUFFICES ASSUME NEW b \in BOOLEAN
               PROVE  LET v == V("bool", 0, <<>>, b) IN
                      ScalarFromString(ScalarString(v).str,
                                       StringToPrimitiveType(v.rt)) = Ok(v)
    OBVIOUS
  <1>1. StringToPrimitiveType("bool") = PrimitiveTypeBoolean
    BY DEF StringToPrimitiveType, ToLower, PrimitiveTypeBoolean,
           PrimitiveTypeString, PrimitiveTypeInteger, PrimitiveTypeFloat,
           PrimitiveTypeTimestamp, PrimitiveTypeStringList,
           PrimitiveTypeIntegerList, PrimitiveTypeFloatList,
           PrimitiveTypeBooleanList, PrimitiveTypeTimestampList,
           PrimitiveTypeUnknown
  <1>2. ScalarString(V("bool", 0, <<>>, b)).str = FormatBool(b)
    BY DEF ScalarString, V, Encoded
  <1>3. DecodeBool(FormatBool(b)) = Ok(V("bool", 0, <<>>, b))
    <2>1. CASE b
      BY <2>1 DEF DecodeBool, FormatBool, TrueStrings, FalseStrings
    <2>2. CASE ~b
      BY <2>2 DEF DecodeBool, FormatBool, TrueStrings, FalseStrings
    <2>3. QED BY <2>1, <2>2
  <1>4. ScalarFromString(FormatBool(b), PrimitiveTypeBoolean)
          = DecodeBool(FormatBool(b))
    BY DEF ScalarFromString, Scalar, ListTypes, PrimitiveTypeBoolean,
           PrimitiveTypeString, PrimitiveTypeInteger, PrimitiveTypeFloat,
           PrimitiveTypeTimestamp
  <1>5. QED BY <1>1, <1>2, <1>3, <1>4 DEF V

\* ScalarString passes a string through and ScalarFromString gives it back.
THEOREM StringRoundTrip ==
  \A s :
    LET v == V("string", 0, s, FALSE) IN
    ScalarFromString(ScalarString(v).str, StringToPrimitiveType(v.rt)) = Ok(v)
PROOF
  <1> SUFFICES ASSUME NEW s
               PROVE  LET v == V("string", 0, s, FALSE) IN
                      ScalarFromString(ScalarString(v).str,
                                       StringToPrimitiveType(v.rt)) = Ok(v)
    OBVIOUS
  <1>1. StringToPrimitiveType("string") = PrimitiveTypeString
    BY DEF StringToPrimitiveType, ToLower, PrimitiveTypeString
  <1>2. ScalarString(V("string", 0, s, FALSE)).str = s
    BY DEF ScalarString, V, Encoded
  <1>3. ScalarFromString(s, PrimitiveTypeString) = Ok(V("string", 0, s, FALSE))
    BY DEF ScalarFromString, Scalar, ListTypes, PrimitiveTypeString,
           PrimitiveTypeInteger, PrimitiveTypeFloat, PrimitiveTypeBoolean,
           PrimitiveTypeTimestamp
  <1>4. QED BY <1>1, <1>2, <1>3 DEF V

(***************************************************************************)
(* ScalarFromString refuses every list tag with an error (spec section 3)  *)
(* and panics for Unknown, a tag Scalar() accepts, whatever the string:    *)
(* the finding of the from_string_total run holds for every input.         *)
(***************************************************************************)
THEOREM FromStringTagOutcomes ==
  \A s \in Seq(STRING) :
    /\ \A t \in ListTypes : ScalarFromString(s, t) = Failed
    /\ ScalarFromString(s, PrimitiveTypeUnknown) = Panicked
PROOF
  <1> SUFFICES ASSUME NEW s \in Seq(STRING)
               PROVE  /\ \A t \in ListTypes : ScalarFromString(s, t) = Failed
                      /\ ScalarFromString(s, PrimitiveTypeUnknown) = Panicked
    OBVIOUS
  <1>1. \A t \in ListTypes : ScalarFromString(s, t) = Failed
    BY DEF ScalarFromString, Scalar
  <1>2. ScalarFromString(s, PrimitiveTypeUnknown) = Panicked
    BY DEF ScalarFromString, Scalar, ListTypes, PrimitiveTypeUnknown,
           PrimitiveTypeString, PrimitiveTypeInteger, PrimitiveTypeFloat,
           PrimitiveTypeBoolean, PrimitiveTypeTimestamp
  <1>3. QED BY <1>1, <1>2


(***************************************************************************)
(* Every value ScalarFromString returns without error, for any string and *)
(* any tag, has a Go type that StringToPrimitiveType names as that tag:    *)
(* Atoi gives an int, ParseFloat a float64, ParseBool a bool, ParseInt     *)
(* through time.UnixMicro a time.Time (lines 276-296).                     *)
(***************************************************************************)
LEMMA DecodeKeepsTag ==
  ASSUME NEW s, NEW t \in PrimitiveTypes,
         ScalarFromString(s, t).kind = "ok"
  PROVE  TagOf(ScalarFromString(s, t).val) = t
PROOF
  <1> USE DEF PrimitiveTypeUnknown, PrimitiveTypeString, PrimitiveTypeInteger,
              PrimitiveTypeFloat, PrimitiveTypeBoolean, PrimitiveTypeTimestamp
  <1>1. Scalar(t)
    BY DEF ScalarFromString, Failed
  <1>2. t \in 0..5
    BY <1>1 DEF Scalar, ListTypes, PrimitiveTypes
  <1>3. CASE t = PrimitiveTypeUnknown
    BY <1>3 DEF ScalarFromString, Scalar, ListTypes, Panicked
  <1>4. CASE t = PrimitiveTypeString
    BY <1>4 DEF ScalarFromString, Scalar, ListTypes, Ok, V, TagOf,
                StringToPrimitiveType, ToLower
  <1>5. CASE t = PrimitiveTypeInteger
    BY <1>5 DEF ScalarFromString, Scalar, ListTypes, DecodeInteger, Ok, V,
                Failed, TagOf, StringToPrimitiveType, ToLower
  <1>6. CASE t = PrimitiveTypeFloat
    BY <1>6 DEF ScalarFromString, Scalar, ListTypes, DecodeFloat, Ok, V,
                Failed, TagOf, StringToPrimitiveType, ToLower
  <1>7. CASE t = PrimitiveTypeBoolean
    BY <1>7 DEF ScalarFromString, Scalar, ListTypes, DecodeBool, Ok, V,
                Failed, TagOf, StringToPrimitiveType, ToLower
  <1>8. CASE t = PrimitiveTypeTimestamp
    BY <1>8 DEF ScalarFromString, Scalar, ListTypes, DecodeTimestamp, Ok, V,
                Failed, TagOf, StringToPrimitiveType, ToLower
  <1>9. QED BY <1>2, <1>3, <1>4, <1>5, <1>6, <1>7, <1>8

(***************************************************************************)
(* The codec run's invariant DecodedTypeDetected, for every string and     *)
(* tag rather than the bounded ones the run enumerates: a value decoded    *)
(* for tag t is detected as t again.  Each call replaces the last one, so  *)
(* the invariant is inductive as it stands and DecodeKeepsTag carries the  *)
(* step.                                                                   *)
(***************************************************************************)
THEOREM DecodedTypeDetectedInvariant == Spec => []DecodedTypeDetected
PROOF
  <1>1. Init => DecodedTypeDetected
    BY DEF Init, DecodedTypeDetected
  <1>2. DecodedTypeDetected /\ [Next]_vars => DecodedTypeDetected'
    <2> SUFFICES ASSUME DecodedTypeDetected, [Next]_vars
                 PROVE  DecodedTypeDetected'
      OBVIOUS
    <2>1. CASE EncodeOp
      BY <2>1 DEF EncodeOp, DecodedTypeDetected
    <2>2. CASE DecodeOp
      <3>1. PICK s \in Strings, t \in PrimitiveTypes :
              LET r == ScalarFromString(s, t) IN
              /\ op' = "ScalarFromString"
              /\ in' = Call(NilValue, s, t)
              /\ out' = Result(r.kind, r.val, <<>>)
        BY <2>2 DEF DecodeOp
      <3>2. in'.tag = t /\ out'.kind = ScalarFromString(s, t).kind
            /\ out'.val = ScalarFromString(s, t).val
        BY <3>1 DEF Call, Result
      <3>3. ScalarFromString(s, t).kind = "ok"
              => TagOf(ScalarFromString(s, t).val) = t
        BY DecodeKeepsTag
      <3>4. QED BY <3>2, <3>3 DEF DecodedTypeDetected, TagOf
    <2>3. CASE UNCHANGED vars
      BY <2>3 DEF vars, DecodedTypeDetected, TagOf
    <2>4. QED BY <2>1, <2>2, <2>3 DEF Next
  <1>3. QED BY <1>1, <1>2, PTL DEF Spec


-----------------------------------------------------------------------------
(***************************************************************************)
(* The round-trip law for every value of the five scalar Go types, not     *)
(* only the bounded ones the Codec run enumerates.                         *)
(***************************************************************************)
IsGoScalar(v) ==
  \/ \E t : v = V("string", 0, t, FALSE)
  \/ \E n \in Int : v = V("int", n, <<>>, FALSE)
  \/ \E k \in Int : v = V("float64", k, <<>>, FALSE)
  \/ \E b \in BOOLEAN : v = V("bool", 0, <<>>, b)
  \/ \E ns \in Int : v = V("time.Time", ns, <<>>, FALSE)

\* The tags StringToPrimitiveType gives the five scalar type names.
LEMMA ScalarTags ==
  /\ TagOf(V("int", 0, <<>>, FALSE)) = PrimitiveTypeInteger
  /\ StringToPrimitiveType("int") = PrimitiveTypeInteger
  /\ StringToPrimitiveType("float64") = PrimitiveTypeFloat
  /\ StringToPrimitiveType("time.Time") = PrimitiveTypeTimestamp
PROOF
  BY DEF TagOf, V, StringToPrimitiveType, ToLower, PrimitiveTypeString,
         PrimitiveTypeInteger, PrimitiveTypeFloat, PrimitiveTypeBoolean,
         PrimitiveTypeTimestamp

\* ScalarFromString under a scalar tag but Unknown calls that tag's parser.
LEMMA FromStringDispatch ==
  ASSUME NEW s
  PROVE  /\ ScalarFromString(s, PrimitiveTypeInteger) = DecodeInteger(s)
         /\ ScalarFromString(s, PrimitiveTypeFloat) = DecodeFloat(s)
         /\ ScalarFromString(s, PrimitiveTypeTimestamp) = DecodeTimestamp(s)
PROOF
  BY DEF ScalarFromString, Scalar, ListTypes, PrimitiveTypeString,
         PrimitiveTypeInteger, PrimitiveTypeFloat, PrimitiveTypeBoolean,
         PrimitiveTypeTimestamp

(***************************************************************************)
(* strconv.Atoi reads back what strconv.Itoa writes (lines 267 and 278),  *)
(* for every int.                                                          *)
(***************************************************************************)
THEOREM IntRoundTrip ==
  \A n \in Int :
    LET v == V("int", n, <<>>, FALSE) IN
    ScalarFromString(ScalarString(v).str, StringToPrimitiveType(v.rt)) = Ok(v)
PROOF
  <1> SUFFICES ASSUME NEW n \in Int
               PROVE  ScalarFromString(Itoa(n), PrimitiveTypeInteger)
                        = Ok(V("int", n, <<>>, FALSE))
    BY ScalarTags DEF ScalarString, V, Encoded
  <1>1. Atoi(Itoa(n)) = [ok |-> TRUE, n |-> n] BY AtoiItoa
  <1>2. DecodeInteger(Itoa(n)) = Ok(V("int", n, <<>>, FALSE))
    BY <1>1 DEF DecodeInteger
  <1>3. QED BY <1>2, FromStringDispatch

(***************************************************************************)
(* strconv.ParseFloat reads back what strconv.FormatFloat writes (lines    *)
(* 266 and 281), for every float64 of one decimal in the model.            *)
(***************************************************************************)
THEOREM FloatRoundTrip ==
  \A k \in Int :
    LET v == V("float64", k, <<>>, FALSE) IN
    ScalarFromString(ScalarString(v).str, StringToPrimitiveType(v.rt)) = Ok(v)
PROOF
  <1> SUFFICES ASSUME NEW k \in Int
               PROVE  ScalarFromString(FormatFloat(k), PrimitiveTypeFloat)
                        = Ok(V("float64", k, <<>>, FALSE))
    BY ScalarTags DEF ScalarString, V, Encoded
  <1>1. ParseFloat(FormatFloat(k)) = [ok |-> TRUE, n |-> k] BY ParseFormatFloat
  <1>2. DecodeFloat(FormatFloat(k)) = Ok(V("float64", k, <<>>, FALSE))
    BY <1>1 DEF DecodeFloat
  <1>3. QED BY <1>2, FromStringDispatch

(***************************************************************************)
(* A time.Time encoded by ScalarString (line 268) and decoded under the    *)
(* Timestamp tag (line 292) is the instant at the microsecond UnixMicro    *)
(* truncates it to, for every instant.                                     *)
(***************************************************************************)
LEMMA TimestampDecode ==
  ASSUME NEW ns \in Int
  PROVE  ScalarFromString(ScalarString(V("time.Time", ns, <<>>, FALSE)).str,
                          PrimitiveTypeTimestamp)
           = Ok(V("time.Time", TimeUnixMicro(UnixMicro(ns)), <<>>, FALSE))
PROOF
  <1>1. UnixMicro(ns) \in Int BY DEF UnixMicro
  <1>2. ScalarString(V("time.Time", ns, <<>>, FALSE)).str = Itoa(UnixMicro(ns))
    BY DEF ScalarString, V, Encoded
  <1>3. Atoi(Itoa(UnixMicro(ns))) = [ok |-> TRUE, n |-> UnixMicro(ns)]
    BY <1>1, AtoiItoa
  <1>4. DecodeTimestamp(Itoa(UnixMicro(ns)))
          = Ok(V("time.Time", TimeUnixMicro(UnixMicro(ns)), <<>>, FALSE))
    BY <1>3 DEF DecodeTimestamp
  <1>5. QED BY <1>2, <1>4, FromStringDispatch


(***************************************************************************)
(* The inductive invariant behind the codec's encode properties: after a   *)
(* ScalarString call, out holds the string and the outcome ScalarString    *)
(* gave for the value in in.  Each call overwrites all three variables,    *)
(* so this holds after every step, and it carries what ScalarRoundTrip and *)
(* TimestampTruncatesDown need to know of the last encode.                 *)
(***************************************************************************)
EncodeConsistent ==
  op = "ScalarString" =>
    /\ in.val \in Values
    /\ out.str = ScalarString(in.val).str
    /\ out.kind = IF ScalarString(in.val).panic THEN "panic" ELSE "ok"


(***************************************************************************)
(* The round-trip law (spec section 8) for every value of the five scalar  *)
(* Go types: ScalarFromString, under the tag StringToPrimitiveType gives   *)
(* the value's type, returns the value ScalarString encoded, timestamps at *)
(* whole microseconds.                                                     *)
(***************************************************************************)
THEOREM RoundTripLaw ==
  \A v :
    IsGoScalar(v) /\ (v.rt = "time.Time" => v.i % 1000 = 0)
      => ScalarFromString(ScalarString(v).str, TagOf(v)) = Ok(v)
PROOF
  <1> SUFFICES ASSUME NEW v, IsGoScalar(v),
                      v.rt = "time.Time" => v.i % 1000 = 0
               PROVE  ScalarFromString(ScalarString(v).str, TagOf(v)) = Ok(v)
    OBVIOUS
  <1>1. CASE \E t : v = V("string", 0, t, FALSE)
    BY <1>1, StringRoundTrip DEF TagOf
  <1>2. CASE \E n \in Int : v = V("int", n, <<>>, FALSE)
    BY <1>2, IntRoundTrip DEF TagOf
  <1>3. CASE \E k \in Int : v = V("float64", k, <<>>, FALSE)
    BY <1>3, FloatRoundTrip DEF TagOf
  <1>4. CASE \E b \in BOOLEAN : v = V("bool", 0, <<>>, b)
    BY <1>4, BoolRoundTrip DEF TagOf
  <1>5. CASE \E ns \in Int : v = V("time.Time", ns, <<>>, FALSE)
    <2>1. PICK ns \in Int : v = V("time.Time", ns, <<>>, FALSE) BY <1>5
    <2>2. ns % 1000 = 0 BY <2>1 DEF V
    <2>3. TimeUnixMicro(UnixMicro(ns)) = ns BY <2>2, TimestampTruncation
    <2>4. TagOf(v) = PrimitiveTypeTimestamp BY <2>1, ScalarTags DEF TagOf, V
    <2>5. QED BY <2>1, <2>3, <2>4, TimestampDecode
  <1>6. \/ \E t : v = V("string", 0, t, FALSE)
        \/ \E n \in Int : v = V("int", n, <<>>, FALSE)
        \/ \E k \in Int : v = V("float64", k, <<>>, FALSE)
        \/ \E b \in BOOLEAN : v = V("bool", 0, <<>>, b)
        \/ \E ns \in Int : v = V("time.Time", ns, <<>>, FALSE)
    BY DEF IsGoScalar
  <1>7. QED BY <1>1, <1>2, <1>3, <1>4, <1>5, <1>6

\* Every value the Codec run encodes is a Go scalar or makes ScalarString
\* panic, and its time.Time values carry an int of nanoseconds.
LEMMA ValuesCases ==
  ASSUME NEW v \in Values
  PROVE  /\ IsGoScalar(v) \/ ScalarString(v).panic
         /\ v.rt = "time.Time" => \E ns \in Int : v = V("time.Time", ns, <<>>, FALSE)
PROOF
  <1>1. CASE v \in ScalarValues
    <2>1. Ints \subseteq Int /\ Tenths \subseteq Int /\ Nanos \subseteq Int
      BY DEF Ints, Tenths, Nanos
    <2>2. \/ \E t \in Texts : v = V("string", 0, t, FALSE)
          \/ \E n \in Ints : v = V("int", n, <<>>, FALSE)
          \/ \E k \in Tenths : v = V("float64", k, <<>>, FALSE)
          \/ \E b \in BOOLEAN : v = V("bool", 0, <<>>, b)
          \/ \E ns \in Nanos : v = V("time.Time", ns, <<>>, FALSE)
      BY <1>1, Zenon DEF ScalarValues
    <2>3. IsGoScalar(v) BY <2>1, <2>2, Zenon DEF IsGoScalar
    <2>4. v.rt = "time.Time" => \E ns \in Nanos : v = V("time.Time", ns, <<>>, FALSE)
      BY <2>2 DEF V
    <2>5. QED BY <2>1, <2>3, <2>4
  <1>2. CASE v \in OtherValues
    BY <1>2 DEF OtherValues, ScalarString, V, NilValue
  <1>3. QED BY <1>1, <1>2 DEF Values

\* Each call overwrites op, in and out, so EncodeConsistent holds in every
\* reachable state.
THEOREM EncodeConsistentInvariant == Spec => []EncodeConsistent
PROOF
  <1>1. Init => EncodeConsistent
    BY DEF Init, EncodeConsistent
  <1>2. EncodeConsistent /\ [Next]_vars => EncodeConsistent'
    <2> SUFFICES ASSUME EncodeConsistent, [Next]_vars
                 PROVE  EncodeConsistent'
      OBVIOUS
    <2>1. CASE EncodeOp
      BY <2>1 DEF EncodeOp, EncodeConsistent, Call, Result
    <2>2. CASE DecodeOp
      BY <2>2 DEF DecodeOp, EncodeConsistent
    <2>3. CASE UNCHANGED vars
      BY <2>3 DEF vars, EncodeConsistent
    <2>4. QED BY <2>1, <2>2, <2>3 DEF Next
  <1>3. QED BY <1>1, <1>2, PTL DEF Spec

(***************************************************************************)
(* The Codec run's invariant ScalarRoundTrip for every Go scalar: the last *)
(* value encoded without a panic decodes, under its own tag, to itself.   *)
(***************************************************************************)
THEOREM ScalarRoundTripInvariant == Spec => []ScalarRoundTrip
PROOF
  <1>1. EncodeConsistent => ScalarRoundTrip
    <2> SUFFICES ASSUME EncodeConsistent, op = "ScalarString", out.kind = "ok",
                        in.val.rt = "time.Time" => in.val.i % 1000 = 0
                 PROVE  ScalarFromString(out.str, TagOf(in.val)) = Ok(in.val)
      BY DEF ScalarRoundTrip
    <2>1. in.val \in Values /\ ~ScalarString(in.val).panic
          /\ out.str = ScalarString(in.val).str
      BY DEF EncodeConsistent
    <2>2. IsGoScalar(in.val) BY <2>1, ValuesCases
    <2>3. QED BY <2>1, <2>2, RoundTripLaw
  <1>2. QED BY <1>1, EncodeConsistentInvariant, PTL

(***************************************************************************)
(* The Codec run's invariant TimestampTruncatesDown for every instant: the *)
(* last time.Time encoded decodes to no later than itself and less than a  *)
(* microsecond earlier.                                                    *)
(***************************************************************************)
THEOREM TimestampTruncatesDownInvariant == Spec => []TimestampTruncatesDown
PROOF
  <1>1. EncodeConsistent => TimestampTruncatesDown
    <2> SUFFICES ASSUME EncodeConsistent, op = "ScalarString",
                        in.val.rt = "time.Time"
                 PROVE  LET d == ScalarFromString(out.str, PrimitiveTypeTimestamp).val.i
                        IN  d <= in.val.i /\ in.val.i < d + 1000
      BY DEF TimestampTruncatesDown
    <2>1. in.val \in Values /\ out.str = ScalarString(in.val).str
      BY DEF EncodeConsistent
    <2>2. PICK ns \in Int : in.val = V("time.Time", ns, <<>>, FALSE)
      BY <2>1, ValuesCases
    <2>3. ScalarFromString(out.str, PrimitiveTypeTimestamp).val.i
            = TimeUnixMicro(UnixMicro(ns))
      <3>1. out.str = ScalarString(V("time.Time", ns, <<>>, FALSE)).str
        BY <2>1, <2>2
      <3>2. ScalarFromString(out.str, PrimitiveTypeTimestamp)
              = Ok(V("time.Time", TimeUnixMicro(UnixMicro(ns)), <<>>, FALSE))
        BY <3>1, TimestampDecode
      <3>3. QED BY <3>2 DEF Ok, V
    <2>4. in.val.i = ns BY <2>2 DEF V
    <2>5. QED BY <2>3, <2>4, TimestampTruncation
  <1>2. QED BY <1>1, EncodeConsistentInvariant, PTL

=============================================================================
