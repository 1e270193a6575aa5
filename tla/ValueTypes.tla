----------------------------- MODULE ValueTypes -----------------------------
(***************************************************************************)
(* Go dynamic values crossing the engine's `any` boundary, and the         *)
(* reflection-based functions over them that do not recurse              *)
(* (src/internal/engine/engine_bind.go, lines 237-255, 309 and 312-326:    *)
(* PrimitiveType.Interface, TypeDetect's detection by type name,          *)
(* NormalizeAny).  TypeDetect itself recurses and is in module Values.     *)
(*                                                                         *)
(* A value is a record: rt is what reflect.TypeOf(v).String() returns      *)
(* ("nil" for the untyped nil, whose reflect.Type is nil), x the payload   *)
(* of a scalar (its content is never inspected by these functions) and    *)
(* elems the elements of a slice.  A panic of the Go code is the result    *)
(* Panic.                                                                  *)
(***************************************************************************)
EXTENDS PrimitiveType, Sequences, FiniteSets

CONSTANT Panic   \* the outcome of a Go panic

ASSUME PanicAssumption == Panic \notin PrimitiveTypes

AnySlice == "[]interface {}"

NilRT == "nil"

Scalar0(rt) == [rt |-> rt, x |-> 0, elems |-> <<>>]

Slice(rt, s) == [rt |-> rt, x |-> 0, elems |-> s]

Nil == Scalar0(NilRT)

\* reflect.SliceOf(T).String()
SliceOfRT(rt) == "[]" \o rt

(***************************************************************************)
(* PrimitiveType.Interface(): the zero value of a tag.  A list tag gives   *)
(* an empty slice of the singular tag's zero value's type; Unknown gives   *)
(* the PrimitiveType value itself.                                         *)
(***************************************************************************)
\* Mutant: Interface() returning the untyped constant 0 (an int) for Float.
ScalarZeroFloatAsInt(pt) ==
  CASE pt = PrimitiveTypeString    -> Scalar0("string")
    [] pt = PrimitiveTypeInteger   -> Scalar0("int")
    [] pt = PrimitiveTypeFloat     -> Scalar0("int")
    [] pt = PrimitiveTypeBoolean   -> Scalar0("bool")
    [] pt = PrimitiveTypeTimestamp -> Scalar0("time.Time")
    [] OTHER -> [rt |-> "api.PrimitiveType", x |-> pt, elems |-> <<>>]

ScalarZero(pt) ==
  CASE pt = PrimitiveTypeString    -> Scalar0("string")
    [] pt = PrimitiveTypeInteger   -> Scalar0("int")
    [] pt = PrimitiveTypeFloat     -> Scalar0("float64")
    [] pt = PrimitiveTypeBoolean   -> Scalar0("bool")
    [] pt = PrimitiveTypeTimestamp -> Scalar0("time.Time")
    [] OTHER -> [rt |-> "api.PrimitiveType", x |-> pt, elems |-> <<>>]

Interface(pt) ==
  IF ~Scalar(pt)
    THEN Slice(SliceOfRT(ScalarZero(Singular(pt)).rt), <<>>)
    ELSE ScalarZero(pt)

(***************************************************************************)
(* TypeDetect of a value that is not a []any: the tag of its reflect type  *)
(* name; the nil interface has a nil reflect.Type, whose String() panics.  *)
(***************************************************************************)
DetectByName(t) ==
  IF t.rt = NilRT THEN Panic ELSE StringToPrimitiveType(t.rt)

(***************************************************************************)
(* NormalizeAny.  An empty []any gives (nil, nil).  Otherwise a slice of   *)
(* the first element's type is made and every element is Set into it:     *)
(* reflect.SliceOf(nil) panics when the first element is nil, and Set      *)
(* panics on an element whose type is not the slice's element type.  Any  *)
(* other value is returned as it is.                                       *)
(***************************************************************************)
NormalizeAny(t) ==
  IF t.rt = AnySlice
    THEN IF t.elems = <<>> THEN Nil
         ELSE IF t.elems[1].rt = NilRT THEN Panic
         ELSE IF \E i \in 1..Len(t.elems) : t.elems[i].rt # t.elems[1].rt
           THEN Panic
         ELSE Slice(SliceOfRT(t.elems[1].rt), t.elems)
  ELSE t

=============================================================================
