------------------------------- MODULE Values -------------------------------
(***************************************************************************)
(* TypeDetect (src/internal/engine/engine_bind.go, lines 298-310), which   *)
(* recurses into the first element of a []any, over the values of module  *)
(* ValueTypes.                                                             *)
(***************************************************************************)
EXTENDS ValueTypes

(***************************************************************************)
(* TypeDetect.  For a []any every element's dynamic type is compared with  *)
(* the first one's; the first element is then read whether or not the     *)
(* slice is empty (an index out of range for an empty slice), and its tag  *)
(* is made plural.  Any other value is detected by its reflect type name  *)
(* (DetectByName).                                                        *)
(***************************************************************************)
\* Mutant: TypeDetect without the loop comparing element types.
RECURSIVE TypeDetectFirstOnly(_)
TypeDetectFirstOnly(t) ==
  IF t.rt = AnySlice
    THEN IF t.elems = <<>>
           THEN Panic
         ELSE LET d == TypeDetectFirstOnly(t.elems[1])
              IN IF d = Panic THEN Panic ELSE Plural(d)
  ELSE DetectByName(t)

RECURSIVE TypeDetect(_)
TypeDetect(t) ==
  IF t.rt = AnySlice
    THEN IF \E i \in 1..Len(t.elems) : t.elems[i].rt # t.elems[1].rt
           THEN PrimitiveTypeUnknown
         ELSE IF t.elems = <<>>
           THEN Panic
         ELSE LET d == TypeDetect(t.elems[1])
              IN IF d = Panic THEN Panic ELSE Plural(d)
  ELSE DetectByName(t)

=============================================================================
