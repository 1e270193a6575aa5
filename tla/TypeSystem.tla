----------------------------- MODULE TypeSystem -----------------------------
(***************************************************************************)
(* The primitive type system's operations applied one at a time to every   *)
(* input of a bounded domain: each state is one call, its argument and its *)
(* result, so that the invariants below compare the code's functions with *)
(* each other and with the spec's reference definitions.                   *)
(***************************************************************************)
EXTENDS Values, SequencesExt

\* Go types whose reflect names the inputs carry.
ScalarRTs == {"string", "int", "int32", "int64", "float64", "float32",
              "bool", "time.Time"}

Scalars == {Scalar0(r) : r \in ScalarRTs}

\* []any of up to two scalars or nils.
FlatLists == {Slice(AnySlice, s) : s \in BoundedSeq(Scalars \cup {Nil}, 2)}

\* []any of one or two []any values, each empty or holding one scalar.
NestedLists ==
  {Slice(AnySlice, s) :
     s \in BoundedSeq({Slice(AnySlice, e) :
                         e \in BoundedSeq({Scalar0("int"),
                                           Scalar0("string")}, 1)}, 2)}

\* Typed slices []T, empty or holding one T.
TypedSlices ==
  UNION {{Slice(SliceOfRT(r), <<>>), Slice(SliceOfRT(r), <<Scalar0(r)>>)} :
           r \in ScalarRTs}

Inputs == Scalars \cup {Nil} \cup FlatLists \cup NestedLists \cup TypedSlices

\* Names given to StringToPrimitiveType: aliases, mixed case, unknown ones.
Names == {"int32", "Int32", "[]DateTime", "json", "int64", "[]int64",
          "float", "[]float", "time.Time"}
         \cup {TypeName(t) : t \in PrimitiveTypes}

(***************************************************************************)
(* op is the function called; in holds its argument (a value, a tag or a   *)
(* name) and out its result (a tag, a value or a name), the other fields   *)
(* of each record keeping their defaults.                                  *)
(***************************************************************************)
VARIABLES op, in, out

vars == <<op, in, out>>

Args(v, t, s) == [val |-> v, tag |-> t, name |-> s]

\* A value-shaped record standing for a panic, so that in.val and out.val
\* always hold records.
PanicValue == Scalar0("panic")

AsValue(r) == IF r = Panic THEN PanicValue ELSE r

Init ==
  /\ op = "none"
  /\ in = Args(Nil, PrimitiveTypeUnknown, "")
  /\ out = Args(Nil, PrimitiveTypeUnknown, "")

DetectOp ==
  \E v \in Inputs :
    /\ op' = "TypeDetect"
    /\ in' = Args(v, PrimitiveTypeUnknown, "")
    /\ out' = Args(Nil, TypeDetect(v), "")

NormalizeOp ==
  \E v \in Inputs :
    /\ op' = "NormalizeAny"
    /\ in' = Args(v, PrimitiveTypeUnknown, "")
    /\ out' = Args(AsValue(NormalizeAny(v)), PrimitiveTypeUnknown, "")

InterfaceOp ==
  \E t \in PrimitiveTypes :
    /\ op' = "Interface"
    /\ in' = Args(Nil, t, "")
    /\ out' = Args(Interface(t), PrimitiveTypeUnknown, "")

StringOp ==
  \E t \in PrimitiveTypes :
    /\ op' = "String"
    /\ in' = Args(Nil, t, "")
    /\ out' = Args(Nil, PrimitiveTypeUnknown, TypeName(t))

ParseOp ==
  \E n \in Names :
    /\ op' = "StringToPrimitiveType"
    /\ in' = Args(Nil, PrimitiveTypeUnknown, n)
    /\ out' = Args(Nil, StringToPrimitiveType(n), "")

Next == DetectOp \/ NormalizeOp \/ InterfaceOp \/ StringOp \/ ParseOp

Spec == Init /\ [][Next]_vars

-----------------------------------------------------------------------------
\* Tags stay within the enumeration: every tag a function returns is one of
\* the iota constants (or a panic).
TypeOK ==
  /\ op \in {"none", "TypeDetect", "NormalizeAny", "Interface", "String",
            "StringToPrimitiveType"}
  /\ in.tag \in PrimitiveTypes
  /\ out.tag \in PrimitiveTypes \cup {Panic}

(***************************************************************************)
(* The zero value Interface() makes for a tag is detected by TypeDetect as *)
(* that tag again, for every tag including the lists and Unknown: the two  *)
(* switches (Go type chosen for a zero value, reflect name parsed back by  *)
(* the alias table) agree.                                                 *)
(***************************************************************************)
ZeroValueDetected == op = "Interface" => TypeDetect(out.val) = in.tag

(***************************************************************************)
(* Reference for TypeDetect on a non-empty []any of scalars (spec 4.1):    *)
(* when every element shares one concrete type the result is the plural   *)
(* of that type's tag, and any list of two differing concrete types is     *)
(* Unknown, never silently coerced to its first element's type.            *)
(***************************************************************************)
DetectRef(s) ==
  IF \E r \in ScalarRTs : \A i \in 1..Len(s) : s[i].rt = r
    THEN Plural(StringToPrimitiveType(s[1].rt))
    ELSE PrimitiveTypeUnknown

DetectMatchesReference ==
  (/\ op = "TypeDetect"
   /\ in.val.rt = AnySlice
   /\ in.val.elems # <<>>
   /\ \A i \in 1..Len(in.val.elems) : in.val.elems[i] \in Scalars)
  => out.tag = DetectRef(in.val.elems)

(***************************************************************************)
(* TypeDetect is total: it returns a tag (Unknown when nothing can be      *)
(* detected) for every input, the empty list included (spec 3: an empty    *)
(* list has no detectable tag), rather than panicking.                     *)
(***************************************************************************)
TypeDetectTotal == op = "TypeDetect" => out.tag # Panic

(***************************************************************************)
(* A value detected as a list tag is homogeneous: every element is         *)
(* detected as the tag's singular type (spec 3 and 4.1).                   *)
(***************************************************************************)
DetectedListsHomogeneous ==
  (op = "TypeDetect" /\ out.tag # Panic /\ out.tag \in ListTypes)
  => \A i \in 1..Len(in.val.elems) :
       TypeDetect(in.val.elems[i]) = Singular(out.tag)

(***************************************************************************)
(* NormalizeAny of a list of non-nil values whose types disagree fails     *)
(* with an error (spec 4.1: TypeMismatch) instead of panicking.            *)
(***************************************************************************)
NormalizeTotal ==
  (op = "NormalizeAny" /\ \A i \in 1..Len(in.val.elems) : in.val.elems[i] # Nil)
  => out.val # PanicValue

(***************************************************************************)
(* The name String() gives a tag is parsed back to the same tag by         *)
(* StringToPrimitiveType, for every tag but Unknown.                       *)
(***************************************************************************)
TypeNameRoundTrip ==
  (op = "String" /\ in.tag # PrimitiveTypeUnknown)
  => StringToPrimitiveType(out.name) = in.tag

=============================================================================
