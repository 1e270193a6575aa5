---------------------------- MODULE ValueProofs -----------------------------
(***************************************************************************)
(* Proofs about the zero values of PrimitiveType.Interface (module         *)
(* ValueTypes), for every tag.  The name of a slice type is made by string *)
(* concatenation ("[]" \o T), which the provers do not evaluate: what      *)
(* StringToPrimitiveType makes of such a name stays with the type_system   *)
(* run, and the list tags are reduced here to their singular tag.          *)
(***************************************************************************)
EXTENDS ValueTypes, TLAPS

(***************************************************************************)
(* The zero value Interface() returns for a scalar tag (lines 241-253: "", *)
(* 0, float64(0), false, time.Time{}, and the PrimitiveType itself for     *)
(* Unknown) is neither a []any nor nil, so TypeDetect detects it by its    *)
(* type name, and that name is parsed back to the same tag.  For a list    *)
(* tag the zero value is the empty slice of the singular tag's zero value  *)
(* type (line 239), whose zero value is detected as the singular tag.      *)
(***************************************************************************)
THEOREM ZeroValueDetectedByName ==
  /\ \A pt \in PrimitiveTypes \ ListTypes :
        /\ Interface(pt).rt \notin {AnySlice, NilRT}
        /\ DetectByName(Interface(pt)) = pt
  /\ \A pt \in ListTypes :
        /\ Interface(pt)
             = Slice(SliceOfRT(Interface(Singular(pt)).rt), <<>>)
        /\ DetectByName(Interface(Singular(pt))) = Singular(pt)
PROOF
  <1> USE DEF PrimitiveTypeUnknown, PrimitiveTypeString, PrimitiveTypeInteger,
              PrimitiveTypeFloat, PrimitiveTypeBoolean, PrimitiveTypeTimestamp,
              PrimitiveTypeStringList, PrimitiveTypeIntegerList,
              PrimitiveTypeFloatList, PrimitiveTypeBooleanList,
              PrimitiveTypeTimestampList
  <1>1. ASSUME NEW pt \in PrimitiveTypes \ ListTypes
        PROVE  /\ Interface(pt).rt \notin {AnySlice, NilRT}
               /\ DetectByName(Interface(pt)) = pt
    <2>1. Interface(pt) = ScalarZero(pt)
      BY DEF Interface, Scalar
    <2>2. pt \in 0..5
      BY DEF PrimitiveTypes, ListTypes
    <2>3. /\ ScalarZero(pt).rt \notin {AnySlice, NilRT}
          /\ DetectByName(ScalarZero(pt)) = pt
      BY <2>2 DEF ScalarZero, Scalar0, AnySlice, NilRT, DetectByName,
                  StringToPrimitiveType, ToLower
    <2>4. QED BY <2>1, <2>3
  <1>2. ASSUME NEW pt \in ListTypes
        PROVE  /\ Interface(pt)
                    = Slice(SliceOfRT(Interface(Singular(pt)).rt), <<>>)
               /\ DetectByName(Interface(Singular(pt))) = Singular(pt)
    <2>1. Singular(pt) \in PrimitiveTypes \ ListTypes
      BY DEF ListTypes, PrimitiveTypes, Singular
    <2>2. Interface(Singular(pt)) = ScalarZero(Singular(pt))
      BY <2>1 DEF Interface, Scalar
    <2>3. Interface(pt) = Slice(SliceOfRT(ScalarZero(Singular(pt)).rt), <<>>)
      BY DEF Interface, Scalar, ListTypes
    <2>4. QED BY <1>1, <2>1, <2>2, <2>3
  <1>3. QED BY <1>1, <1>2
=============================================================================
