--------------------------- MODULE PrimitiveType ----------------------------
(***************************************************************************)
(* The closed enumeration of primitive types and its total functions      *)
(* (src/internal/engine/engine_bind.go, lines 127-236: type PrimitiveType, *)
(* StringToPrimitiveType, Scalar, Singular, Plural, String).  A tag is the *)
(* int of the Go iota constant.                                            *)
(***************************************************************************)
EXTENDS Integers, TLAPS

PrimitiveTypeUnknown       == 0
PrimitiveTypeString        == 1
PrimitiveTypeInteger       == 2
PrimitiveTypeFloat         == 3
PrimitiveTypeBoolean       == 4
PrimitiveTypeTimestamp     == 5
PrimitiveTypeStringList    == 6
PrimitiveTypeIntegerList   == 7
PrimitiveTypeFloatList     == 8
PrimitiveTypeBooleanList   == 9
PrimitiveTypeTimestampList == 10

PrimitiveTypes == 0..10

ListTypes == 6..10

(***************************************************************************)
(* strings.ToLower over the mixed-case names that reach                    *)
(* StringToPrimitiveType in this model (reflect type names and descriptor  *)
(* spellings); every other name the model uses is already lower case.     *)
(***************************************************************************)
ToLower(s) ==
  CASE s = "time.Time"         -> "time.time"
    [] s = "[]time.Time"       -> "[]time.time"
    [] s = "api.PrimitiveType" -> "api.primitivetype"
    [] s = "Int32"             -> "int32"
    [] s = "[]DateTime"        -> "[]datetime"
    [] OTHER                   -> s

StringToPrimitiveType(s) ==
  LET n == ToLower(s) IN
  CASE n \in {"string", "text"} -> PrimitiveTypeString
    [] n \in {"integer", "int", "int32"} -> PrimitiveTypeInteger
    [] n \in {"float", "double", "float32", "float64"} -> PrimitiveTypeFloat
    [] n \in {"time", "datetime", "timestamp", "time.time",
              "datetime.datetime"} -> PrimitiveTypeTimestamp
    [] n \in {"bool", "boolean"} -> PrimitiveTypeBoolean
    [] n \in {"[]string", "[]text"} -> PrimitiveTypeStringList
    [] n \in {"[]integer", "[]int", "[]int64", "[]int32"} ->
         PrimitiveTypeIntegerList
    [] n \in {"[]float", "[]double", "[]float32", "[]float64"} ->
         PrimitiveTypeFloatList
    [] n \in {"[]bool", "[]boolean"} -> PrimitiveTypeBooleanList
    [] n \in {"[]time", "[]datetime", "[]timestamp", "[]time.time"} ->
         PrimitiveTypeTimestampList
    [] OTHER -> PrimitiveTypeUnknown

Scalar(pt) == pt \notin ListTypes

Singular(pt) ==
  CASE pt = PrimitiveTypeStringList    -> PrimitiveTypeString
    [] pt = PrimitiveTypeIntegerList   -> PrimitiveTypeInteger
    [] pt = PrimitiveTypeFloatList     -> PrimitiveTypeFloat
    [] pt = PrimitiveTypeBooleanList   -> PrimitiveTypeBoolean
    [] pt = PrimitiveTypeTimestampList -> PrimitiveTypeTimestamp
    [] OTHER                           -> pt

\* Mutant: Plural as iota arithmetic, without the switch's default case.
PluralByOffset(pt) == pt + 5

Plural(pt) ==
  CASE pt = PrimitiveTypeString    -> PrimitiveTypeStringList
    [] pt = PrimitiveTypeInteger   -> PrimitiveTypeIntegerList
    [] pt = PrimitiveTypeFloat     -> PrimitiveTypeFloatList
    [] pt = PrimitiveTypeBoolean   -> PrimitiveTypeBooleanList
    [] pt = PrimitiveTypeTimestamp -> PrimitiveTypeTimestampList
    [] OTHER                       -> pt

\* PrimitiveType.String()
TypeName(pt) ==
  CASE pt = PrimitiveTypeString        -> "string"
    [] pt = PrimitiveTypeInteger       -> "int"
    [] pt = PrimitiveTypeFloat         -> "float"
    [] pt = PrimitiveTypeBoolean       -> "bool"
    [] pt = PrimitiveTypeTimestamp     -> "timestamp"
    [] pt = PrimitiveTypeStringList    -> "[]string"
    [] pt = PrimitiveTypeIntegerList   -> "[]int"
    [] pt = PrimitiveTypeFloatList     -> "[]]float"
    [] pt = PrimitiveTypeBooleanList   -> "[]bool"
    [] pt = PrimitiveTypeTimestampList -> "[]timestamp"
    [] OTHER                           -> "(unknown)"

-----------------------------------------------------------------------------
(***************************************************************************)
(* Singular and Plural are inverse bijections between the scalar tags      *)
(* other than Unknown and the list tags, and Unknown is a fixed point of   *)
(* both (spec section 8): the Scalar/Singular/Plural switches of           *)
(* PrimitiveType agree with each other for every tag.                      *)
(***************************************************************************)
THEOREM SingularPluralInverse ==
  /\ \A t \in PrimitiveTypes \ ListTypes :
        t # PrimitiveTypeUnknown =>
          /\ Plural(t) \in ListTypes
          /\ Singular(Plural(t)) = t
  /\ \A t \in ListTypes :
        /\ Scalar(Singular(t))
        /\ Singular(t) # PrimitiveTypeUnknown
        /\ Plural(Singular(t)) = t
  /\ Singular(PrimitiveTypeUnknown) = PrimitiveTypeUnknown
  /\ Plural(PrimitiveTypeUnknown) = PrimitiveTypeUnknown
PROOF
  <1>1. \A t \in PrimitiveTypes \ ListTypes :
          t # PrimitiveTypeUnknown =>
            /\ Plural(t) \in ListTypes
            /\ Singular(Plural(t)) = t
    BY DEF PrimitiveTypes, ListTypes, Plural, Singular,
           PrimitiveTypeUnknown, PrimitiveTypeString, PrimitiveTypeInteger,
           PrimitiveTypeFloat, PrimitiveTypeBoolean, PrimitiveTypeTimestamp,
           PrimitiveTypeStringList, PrimitiveTypeIntegerList,
           PrimitiveTypeFloatList, PrimitiveTypeBooleanList,
           PrimitiveTypeTimestampList
  <1>2. \A t \in ListTypes :
          /\ Scalar(Singular(t))
          /\ Singular(t) # PrimitiveTypeUnknown
          /\ Plural(Singular(t)) = t
    BY DEF ListTypes, Scalar, Plural, Singular,
           PrimitiveTypeUnknown, PrimitiveTypeString, PrimitiveTypeInteger,
           PrimitiveTypeFloat, PrimitiveTypeBoolean, PrimitiveTypeTimestamp,
           PrimitiveTypeStringList, PrimitiveTypeIntegerList,
           PrimitiveTypeFloatList, PrimitiveTypeBooleanList,
           PrimitiveTypeTimestampList
  <1>3. Singular(PrimitiveTypeUnknown) = PrimitiveTypeUnknown
        /\ Plural(PrimitiveTypeUnknown) = PrimitiveTypeUnknown
    BY DEF Plural, Singular,
           PrimitiveTypeUnknown, PrimitiveTypeString, PrimitiveTypeInteger,
           PrimitiveTypeFloat, PrimitiveTypeBoolean, PrimitiveTypeTimestamp,
           PrimitiveTypeStringList, PrimitiveTypeIntegerList,
           PrimitiveTypeFloatList, PrimitiveTypeBooleanList,
           PrimitiveTypeTimestampList
  <1>4. QED BY <1>1, <1>2, <1>3


(***************************************************************************)
(* String() and StringToPrimitiveType, two hand-written tables, are        *)
(* inverse on every tag but FloatList: the name String() gives it,         *)
(* "[]]float" (line 228), is parsed as Unknown, so that a FloatList        *)
(* written out by name and read back becomes Unknown.  This is the         *)
(* type_name_roundtrip run's violation, and that run's only one, for every *)
(* tag.                                                                    *)
(***************************************************************************)
THEOREM TypeNameParsesBack ==
  /\ \A pt \in PrimitiveTypes \ {PrimitiveTypeFloatList} :
        StringToPrimitiveType(TypeName(pt)) = pt
  /\ StringToPrimitiveType(TypeName(PrimitiveTypeFloatList))
       = PrimitiveTypeUnknown
PROOF
  <1> USE DEF PrimitiveTypeUnknown, PrimitiveTypeString, PrimitiveTypeInteger,
              PrimitiveTypeFloat, PrimitiveTypeBoolean, PrimitiveTypeTimestamp,
              PrimitiveTypeStringList, PrimitiveTypeIntegerList,
              PrimitiveTypeFloatList, PrimitiveTypeBooleanList,
              PrimitiveTypeTimestampList
  <1>1. \A pt \in PrimitiveTypes \ {PrimitiveTypeFloatList} :
          StringToPrimitiveType(TypeName(pt)) = pt
    BY DEF PrimitiveTypes, TypeName, StringToPrimitiveType, ToLower
  <1>2. StringToPrimitiveType(TypeName(PrimitiveTypeFloatList))
          = PrimitiveTypeUnknown
    BY DEF TypeName, StringToPrimitiveType, ToLower
  <1>3. QED BY <1>1, <1>2
=============================================================================
