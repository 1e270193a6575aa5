---------------------------- MODULE DigitsProofs ----------------------------
(***************************************************************************)
(* Lemmas about the decimal conversions of module ScalarCodec (strconv's   *)
(* Itoa, Atoi, FormatFloat and ParseFloat), for every integer.  Digits and *)
(* the digit value are recursive functions: their recursion equations are *)
(* obtained from WFInductiveDef, and induction over the naturals is done  *)
(* by taking a least counterexample (LeastCounterexample, from WFMin).    *)
(***************************************************************************)
EXTENDS ScalarCodec, WellFoundedInduction, FiniteSetTheorems,
        SequenceTheorems, TLAPS

\* The characters of a decimal digit.
DigitSet == {DigitChar[d] : d \in 1..10}

\* A non-empty set of naturals has a least element.
LEMMA LeastCounterexample ==
  ASSUME NEW T \in SUBSET Nat, T # {}
  PROVE  \E x \in T : \A y \in T : ~(y < x)
PROOF
  <1>1. PICK x \in T : \A y \in T : ~(<<y, x>> \in OpToRel(<, Nat))
    BY NatLessThanWellFounded, WFMin
  <1>2. QED BY <1>1 DEF OpToRel

\* DigitVal reads back the digit DigitChar encodes.
LEMMA DigitValChar ==
  ASSUME NEW d \in 0..9
  PROVE  /\ DigitVal(DigitChar[d + 1]) = d
         /\ DigitChar[d + 1] \in DigitSet
         /\ DigitChar[d + 1] \notin {"+", "-", "."}
PROOF
  <1>1. \A e \in 0..9 : DigitChar[e + 1] = DigitChar[d + 1] <=> e = d
    BY DEF DigitChar
  <1>2. DigitVal(DigitChar[d + 1]) = d
    BY <1>1 DEF DigitVal
  <1>3. QED BY <1>2 DEF DigitSet, DigitChar

\* Every digit character has the value of some digit.
LEMMA DigitSetChar ==
  ASSUME NEW c \in DigitSet
  PROVE  \E d \in 0..9 : c = DigitChar[d + 1]
PROOF
  <1>1. PICK e \in 1..10 : c = DigitChar[e] BY DEF DigitSet
  <1>2. e - 1 \in 0..9 /\ c = DigitChar[(e - 1) + 1] BY <1>1
  <1>3. QED BY <1>2

-----------------------------------------------------------------------------
\* The body of the recursive function Digits.
DigitsDef(g, m) ==
  IF m < 10 THEN <<DigitChar[m + 1]>>
  ELSE g[m \div 10] \o <<DigitChar[(m % 10) + 1]>>

LEMMA DigitsEq == \A m \in Nat : Digits[m] = DigitsDef(Digits, m)
PROOF
  <1>1. WFDefOn(OpToRel(<, Nat), Nat, DigitsDef)
    <2> SUFFICES ASSUME NEW g, NEW h, NEW n \in Nat,
                        \A i \in SetLessThan(n, OpToRel(<, Nat), Nat) :
                          g[i] = h[i]
                 PROVE  DigitsDef(g, n) = DigitsDef(h, n)
      BY DEF WFDefOn
    <2>1. CASE n < 10 BY <2>1 DEF DigitsDef
    <2>2. CASE ~(n < 10)
      <3>1. n \div 10 \in SetLessThan(n, OpToRel(<, Nat), Nat)
        BY <2>2 DEF SetLessThan, OpToRel
      <3>2. QED BY <3>1 DEF DigitsDef
    <2>3. QED BY <2>1, <2>2
  <1>2. OpDefinesFcn(Digits, Nat, DigitsDef)
    BY DEF OpDefinesFcn, Digits, DigitsDef
  <1>3. WFInductiveDefines(Digits, Nat, DigitsDef)
    BY <1>1, <1>2, NatLessThanWellFounded, WFInductiveDef
  <1>4. QED BY <1>3 DEF WFInductiveDefines

-----------------------------------------------------------------------------
\* The body of the digit value's recursive function val over 0..Len(ds).
ValDef(ds, g, j) == IF j = 0 THEN 0 ELSE 10 * g[j - 1] + DigitVal(ds[j])

PrefixVal(ds) == CHOOSE g : g = [j \in 0..Len(ds) |-> ValDef(ds, g, j)]

LEMMA DecimalValueIsPrefixVal ==
  ASSUME NEW ds
  PROVE  DecimalValue(ds) = PrefixVal(ds)[Len(ds)]
PROOF BY DEF DecimalValue, PrefixVal, ValDef

LEMMA PrefixValEq ==
  ASSUME NEW ds, Len(ds) \in Nat
  PROVE  \A j \in 0..Len(ds) : PrefixVal(ds)[j] = ValDef(ds, PrefixVal(ds), j)
PROOF
  <1> DEFINE Def(g, j) == ValDef(ds, g, j)
             S == 0..Len(ds)
             R == OpToRel(<, Nat)
  <1>1. IsWellFoundedOn(R, S)
    <2>1. S \in SUBSET Nat OBVIOUS
    <2>2. QED BY <2>1, NatLessThanWellFounded, IsWellFoundedOnSubset, Zenon
  <1>2. WFDefOn(R, S, Def)
    <2> SUFFICES ASSUME NEW g, NEW h, NEW n \in S,
                        \A i \in SetLessThan(n, R, S) : g[i] = h[i]
                 PROVE  Def(g, n) = Def(h, n)
      BY DEF WFDefOn
    <2>1. CASE n = 0 BY <2>1 DEF ValDef
    <2>2. CASE n # 0
      <3>1. n - 1 \in SetLessThan(n, R, S)
        BY <2>2 DEF SetLessThan, OpToRel
      <3>2. QED BY <3>1 DEF ValDef
    <2>3. QED BY <2>1, <2>2
  <1>3. OpDefinesFcn(PrefixVal(ds), S, Def)
    BY DEF OpDefinesFcn, PrefixVal
  <1>4. WFInductiveDefines(PrefixVal(ds), S, Def)
    BY <1>1, <1>2, <1>3, WFInductiveDef
  <1>5. QED BY <1>4 DEF WFInductiveDefines


LEMMA DecimalValueEmpty == DecimalValue(<<>>) = 0
PROOF
  <1>1. PrefixVal(<<>>)[0] = ValDef(<<>>, PrefixVal(<<>>), 0)
    BY PrefixValEq
  <1>2. QED BY <1>1, DecimalValueIsPrefixVal DEF ValDef

(***************************************************************************)
(* Reading one more digit multiplies the value read so far by ten and adds *)
(* the digit: the value of a prefix does not depend on what follows it.    *)
(***************************************************************************)
LEMMA DecimalValueAppend ==
  ASSUME NEW X, NEW ds \in Seq(X), NEW c \in X
  PROVE  DecimalValue(ds \o <<c>>) = 10 * DecimalValue(ds) + DigitVal(c)
PROOF
  <1> DEFINE es == ds \o <<c>>
             L  == Len(ds)
             f  == PrefixVal(ds)
             F  == PrefixVal(es)
  <1>1. /\ L \in Nat
        /\ Len(es) = L + 1
        /\ \A j \in 1..L : es[j] = ds[j]
        /\ es[L + 1] = c
    OBVIOUS
  <1>2. \A j \in 0..L : f[j] = ValDef(ds, f, j)
    BY <1>1, PrefixValEq
  <1>3. \A j \in 0..(L + 1) : F[j] = ValDef(es, F, j)
    <2>1. Len(es) \in Nat BY <1>1
    <2>2. \A j \in 0..Len(es) : F[j] = ValDef(es, F, j)
      BY <2>1, PrefixValEq
    <2>3. QED BY <2>2, <1>1
  <1>4. \A j \in 0..L : F[j] = f[j]
    <2> DEFINE T == {j \in 0..L : F[j] # f[j]}
    <2>1. SUFFICES ASSUME T # {} PROVE FALSE
      OBVIOUS
    <2>2. PICK x \in T : \A y \in T : ~(y < x)
      <3>1. T \in SUBSET Nat BY <1>1
      <3>2. QED BY <2>1, <3>1, LeastCounterexample
    <2>3. CASE x = 0
      BY <2>2, <2>3, <1>1, <1>2, <1>3 DEF ValDef
    <2>4. CASE x # 0
      <3>1. x - 1 \in 0..L /\ x - 1 \notin T
        BY <1>1, <2>2, <2>4
      <3>2. F[x - 1] = f[x - 1]
        BY <3>1
      <3>3. F[x] = 10 * F[x - 1] + DigitVal(es[x])
        BY <1>1, <1>3, <2>2, <2>4 DEF ValDef
      <3>4. f[x] = 10 * f[x - 1] + DigitVal(ds[x])
        BY <1>2, <2>2, <2>4 DEF ValDef
      <3>5. es[x] = ds[x]
        BY <1>1, <2>2, <2>4
      <3>6. QED BY <2>2, <3>2, <3>3, <3>4, <3>5
    <2>5. QED BY <2>3, <2>4
  <1>5. F[L + 1] = 10 * F[L] + DigitVal(c)
    BY <1>1, <1>3 DEF ValDef
  <1>6. DecimalValue(es) = F[L + 1] /\ DecimalValue(ds) = f[L]
    BY <1>1, DecimalValueIsPrefixVal
  <1>7. QED BY <1>1, <1>4, <1>5, <1>6


(***************************************************************************)
(* Digits[m] is a non-empty string of decimal digits whose value is m.     *)
(***************************************************************************)
DigitsSound(m) ==
  /\ Digits[m] \in Seq(DigitSet)
  /\ Digits[m] # <<>>
  /\ DecimalValue(Digits[m]) = m

LEMMA DigitsValue == \A m \in Nat : DigitsSound(m)
PROOF
  <1> DEFINE T == {m \in Nat : ~DigitsSound(m)}
  <1>1. SUFFICES ASSUME T # {} PROVE FALSE
    OBVIOUS
  <1>2. PICK x \in T : \A y \in T : ~(y < x)
    BY <1>1, LeastCounterexample
  <1>3. CASE x < 10
    <2> DEFINE c == DigitChar[x + 1]
    <2>1. x \in 0..9 BY <1>2, <1>3
    <2>2. Digits[x] = <<c>>
      <3>1. Digits[x] = DigitsDef(Digits, x) BY <2>1, DigitsEq
      <3>2. QED BY <2>1, <3>1 DEF DigitsDef
    <2>3. c \in DigitSet /\ DigitVal(c) = x
      BY <2>1, DigitValChar
    <2>4. <<>> \in Seq(DigitSet) /\ <<>> \o <<c>> = <<c>>
      OBVIOUS
    <2>5. DecimalValue(<<>> \o <<c>>) = 10 * DecimalValue(<<>>) + DigitVal(c)
      BY <2>3, <2>4, DecimalValueAppend
    <2>6. DecimalValue(Digits[x]) = x
      BY <2>2, <2>3, <2>4, <2>5, DecimalValueEmpty
    <2>7. Digits[x] \in Seq(DigitSet) /\ Digits[x] # <<>>
      BY <2>2, <2>3
    <2>8. QED BY <1>2, <2>6, <2>7 DEF DigitsSound
  <1>4. CASE ~(x < 10)
    <2> DEFINE q == x \div 10
               r == x % 10
    <2>1. q \in Nat /\ q < x /\ r \in 0..9 /\ x = 10 * q + r
      BY <1>2, <1>4
    <2>2. DigitsSound(q)
      BY <1>2, <2>1
    <2>3. Digits[x] = Digits[q] \o <<DigitChar[r + 1]>>
      BY <1>2, <1>4, DigitsEq DEF DigitsDef
    <2>4. DigitChar[r + 1] \in DigitSet /\ DigitVal(DigitChar[r + 1]) = r
      BY <2>1, DigitValChar
    <2>5. DecimalValue(Digits[x]) = x
      BY <2>1, <2>2, <2>3, <2>4, DecimalValueAppend DEF DigitsSound
    <2>6. Digits[x] \in Seq(DigitSet) /\ Digits[x] # <<>>
      BY <2>2, <2>3, <2>4 DEF DigitsSound
    <2>7. QED BY <1>2, <2>5, <2>6 DEF DigitsSound
  <1>5. QED BY <1>3, <1>4


\* A string of digit characters passes AllDigits and holds no sign or point.
LEMMA DigitStringChars ==
  ASSUME NEW D \in Seq(DigitSet)
  PROVE  /\ AllDigits(D)
         /\ \A j \in 1..Len(D) : D[j] \notin {"+", "-", "."}
PROOF
  <1>1. ASSUME NEW j \in 1..Len(D)
        PROVE  IsDigit(D[j]) /\ D[j] \notin {"+", "-", "."}
    <2>1. PICK d \in 0..9 : D[j] = DigitChar[d + 1]
      BY DigitSetChar
    <2>2. QED BY <2>1, DigitValChar DEF IsDigit
  <1>2. QED BY <1>1 DEF AllDigits

(***************************************************************************)
(* strconv.Atoi reads back what strconv.Itoa writes, for every integer:    *)
(* the sign, then the digits of the absolute value.                        *)
(***************************************************************************)
THEOREM AtoiItoa ==
  \A n \in Int : Atoi(Itoa(n)) = [ok |-> TRUE, n |-> n]
PROOF
  <1> SUFFICES ASSUME NEW n \in Int
               PROVE  Atoi(Itoa(n)) = [ok |-> TRUE, n |-> n]
    OBVIOUS
  <1>1. CASE n >= 0
    <2> DEFINE D == Digits[n]
    <2>1. DigitsSound(n) BY <1>1, DigitsValue
    <2>2. AllDigits(D) /\ D[1] \notin {"+", "-"}
      BY <2>1, DigitStringChars DEF DigitsSound
    <2>3. SignSplit(D) = [neg |-> FALSE, body |-> D]
      BY <2>1, <2>2 DEF SignSplit, DigitsSound
    <2>4. Itoa(n) = D BY <1>1 DEF Itoa
    <2>5. D # <<>> /\ DecimalValue(D) = n BY <2>1 DEF DigitsSound
    <2>6. Atoi(D) = [ok |-> TRUE, n |-> n]
      <3>1. SignSplit(D).body = D /\ SignSplit(D).neg = FALSE BY <2>3
      <3>2. SignSplit(D).body # <<>> /\ AllDigits(SignSplit(D).body)
        BY <2>2, <2>5, <3>1
      <3>3. DecimalValue(SignSplit(D).body) = n BY <2>5, <3>1
      <3>4. QED BY <3>1, <3>2, <3>3 DEF Atoi
    <2>7. QED BY <2>4, <2>6
  <1>2. CASE n < 0
    <2> DEFINE D == Digits[-n]
    <2>1. DigitsSound(-n) BY <1>2, DigitsValue
    <2>2. AllDigits(D)
      BY <2>1, DigitStringChars DEF DigitsSound
    <2>3. LET s == <<"-">> \o D IN s # <<>> /\ s[1] = "-" /\ Tail(s) = D
      BY <2>1 DEF DigitsSound
    <2>4. SignSplit(<<"-">> \o D) = [neg |-> TRUE, body |-> D]
      BY <2>3 DEF SignSplit
    <2>5. Itoa(n) = <<"-">> \o D BY <1>2 DEF Itoa
    <2>6. D # <<>> /\ DecimalValue(D) = -n BY <2>1 DEF DigitsSound
    <2>7. Atoi(<<"-">> \o D) = [ok |-> TRUE, n |-> n]
      <3> DEFINE p == SignSplit(<<"-">> \o D)
      <3>1. p.body = D /\ p.neg = TRUE BY <2>4
      <3>2. p.body # <<>> /\ AllDigits(p.body)
        BY <2>2, <2>6, <3>1
      <3>3. -DecimalValue(p.body) = n BY <2>6, <3>1
      <3>4. QED BY <3>1, <3>2, <3>3 DEF Atoi
    <2>8. QED BY <2>5, <2>7
  <1>3. QED BY <1>1, <1>2


\* A one-element slice of a sequence is that element.
LEMMA SubSeqSingle ==
  ASSUME NEW S, NEW X \in Seq(S), NEW k \in 1..Len(X)
  PROVE  SubSeq(X, k, k) = <<X[k]>>
PROOF
  <1>1. /\ SubSeq(X, k, k) \in Seq(S)
        /\ Len(SubSeq(X, k, k)) = 1
        /\ SubSeq(X, k, k)[1] = X[k]
    BY SubSeqProperties
  <1>2. <<X[k]>> \in Seq(S) /\ Len(<<X[k]>>) = 1 /\ <<X[k]>>[1] = X[k]
    OBVIOUS
  <1>3. \A i \in 1..1 : SubSeq(X, k, k)[i] = <<X[k]>>[i] BY <1>1, <1>2
  <1>4. QED BY <1>1, <1>2, <1>3, SeqEqual, Zenon

(***************************************************************************)
(* The digits FormatFloat writes after the sign: the integer part, then a  *)
(* point and the tenths digit unless that digit is zero.                   *)
(***************************************************************************)
FloatBody(a) ==
  Digits[a \div 10]
    \o (IF a % 10 = 0 THEN <<>> ELSE <<".", DigitChar[(a % 10) + 1]>>)

\* ParseFloat reads a body of digits, without a sign, as its tenths.
LEMMA ParseFloatBody ==
  ASSUME NEW a \in Nat, NEW neg \in BOOLEAN, NEW s,
         SignSplit(s) = [neg |-> neg, body |-> FloatBody(a)]
  PROVE  ParseFloat(s) = [ok |-> TRUE, n |-> IF neg THEN -a ELSE a]
PROOF
  <1> DEFINE q == a \div 10
             r == a % 10
             D == Digits[q]
             L == Len(D)
             B == FloatBody(a)
             dots == {j \in 1..Len(B) : B[j] = "."}
             dot  == IF dots = {} THEN Len(B) + 1 ELSE CHOOSE j \in dots : TRUE
             ip   == SubSeq(B, 1, dot - 1)
             fp   == SubSeq(B, dot + 1, Len(B))
             t    == 10 * DecimalValue(ip) + IF fp = <<>> THEN 0 ELSE DigitVal(fp[1])
  <1>1. q \in Nat /\ r \in 0..9 /\ a = 10 * q + r
    OBVIOUS
  <1>2. DigitsSound(q) BY <1>1, DigitsValue
  <1>3. /\ D \in Seq(DigitSet) /\ D # <<>> /\ DecimalValue(D) = q
        /\ L \in Nat
        /\ AllDigits(D) /\ \A j \in 1..L : D[j] # "."
    BY <1>2, DigitStringChars DEF DigitsSound
  <1>4. SignSplit(s).body = B /\ SignSplit(s).neg = neg
    OBVIOUS
  <1>5. SUFFICES /\ Cardinality(dots) <= 1
                 /\ AllDigits(ip) /\ AllDigits(fp)
                 /\ ip \o fp # <<>>
                 /\ t = a
    BY <1>4, Zenon DEF ParseFloat
  <1> HIDE DEF q, r, D, L, B, dots, dot, ip, fp, t
  <1>6. AllDigits(<<>>) BY DEF AllDigits
  <1>7. t = 10 * DecimalValue(ip) + IF fp = <<>> THEN 0 ELSE DigitVal(fp[1])
    BY DEF t
  <1>8. CASE r = 0
    <2>1. B = D BY <1>8 DEF FloatBody, B, D, q, r
    <2>2. dots = {} BY <1>3, <2>1 DEF dots, L
    <2>3. dot = L + 1 BY <2>1, <2>2 DEF dot, L
    <2>4. ip = D BY <1>3, <2>1, <2>3 DEF ip, L
    <2>5. fp = <<>> BY <1>3, <2>1, <2>3 DEF fp, L
    <2>6. Cardinality(dots) <= 1 BY <2>2, FS_EmptySet
    <2>7. t = 10 * q
      <3>1. DecimalValue(ip) = q BY <1>3, <2>4
      <3>2. (IF fp = <<>> THEN 0 ELSE DigitVal(fp[1])) = 0 BY <2>5
      <3>3. QED BY <1>1, <1>7, <3>1, <3>2
    <2>8. t = a BY <1>1, <1>8, <2>7
    <2>9. QED BY <1>3, <1>6, <2>4, <2>5, <2>6, <2>8
  <1>9. CASE r # 0
    <2> DEFINE c == DigitChar[r + 1]
    <2>1. c \in DigitSet /\ DigitVal(c) = r /\ c # "."
      BY <1>1, DigitValChar
    <2>2. B = D \o <<".", c>> BY <1>9 DEF FloatBody, B, D, q, r
    <2>3. /\ Len(B) = L + 2
          /\ \A j \in 1..L : B[j] = D[j]
          /\ B[L + 1] = "." /\ B[L + 2] = c
      BY <1>3, <2>2 DEF L
    <2>4. dots = {L + 1} BY <1>3, <2>1, <2>3 DEF dots
    <2>5. dot = L + 1 BY <2>4 DEF dot
    <2>6. ip = D BY <1>3, <2>2, <2>3, <2>5 DEF ip, L
    <2>7. fp = <<c>>
      <3>1. fp = SubSeq(B, L + 2, L + 2) BY <1>3, <2>3, <2>5 DEF fp
      <3>2. SubSeq(B, L + 2, L + 2) = <<B[L + 2]>>
        <4>1. D \in Seq(DigitSet \cup {"."}) BY <1>3
        <4>2. <<".", c>> \in Seq(DigitSet \cup {"."}) BY <2>1
        <4>3. B \in Seq(DigitSet \cup {"."}) BY <2>2, <4>1, <4>2
        <4>4. L + 2 \in 1..Len(B) BY <1>3, <2>3
        <4>5. QED BY <4>3, <4>4, SubSeqSingle
      <3>3. QED BY <2>3, <3>1, <3>2
    <2>8. Cardinality(dots) <= 1 BY <2>4, FS_Singleton
    <2>9. AllDigits(fp)
      <3>1. <<c>> \in Seq(DigitSet) BY <2>1
      <3>2. QED BY <2>7, <3>1, DigitStringChars
    <2>10. t = 10 * q + r BY <1>3, <1>7, <2>1, <2>6, <2>7
    <2>11. t = a BY <1>1, <2>10
    <2>12. ip \o fp # <<>> BY <1>3, <2>6, <2>7
    <2>13. QED BY <1>3, <2>6, <2>8, <2>9, <2>11, <2>12
  <1>10. QED BY <1>8, <1>9


(***************************************************************************)
(* strconv.ParseFloat reads back what strconv.FormatFloat(_, 'f', -1, 64)  *)
(* writes, for every float the model represents as a count of tenths: the *)
(* decoder of a float column recovers the value the encoder was given.    *)
(***************************************************************************)
THEOREM ParseFormatFloat ==
  \A k \in Int : ParseFloat(FormatFloat(k)) = [ok |-> TRUE, n |-> k]
PROOF
  <1> SUFFICES ASSUME NEW k \in Int
               PROVE  ParseFloat(FormatFloat(k)) = [ok |-> TRUE, n |-> k]
    OBVIOUS
  <1> DEFINE a == AbsInt(k)
             D == Digits[a \div 10]
             F == IF a % 10 = 0 THEN <<>> ELSE <<".", DigitChar[(a % 10) + 1]>>
             B == FloatBody(a)
             E == DigitSet \cup {".", "-"}
  <1>1. a \in Nat /\ (k < 0 => a = -k) /\ (k >= 0 => a = k) BY DEF AbsInt
  <1>2. DigitsSound(a \div 10) BY <1>1, DigitsValue
  <1>3. FormatFloat(k) = (IF k < 0 THEN <<"-">> ELSE <<>>) \o D \o F
    BY DEF FormatFloat
  <1>4. B = D \o F BY DEF FloatBody
  <1> HIDE DEF a, D, F, B
  <1>5. D \in Seq(DigitSet) /\ D # <<>> /\ D[1] \notin {"+", "-"}
    BY <1>2, DigitStringChars DEF DigitsSound, D
  <1>6. D \in Seq(E) BY <1>5 DEF E
  <1>7. F \in Seq(E)
    <2>1. CASE a % 10 = 0 BY <2>1 DEF F
    <2>2. CASE a % 10 # 0
      <3>1. DigitChar[(a % 10) + 1] \in DigitSet BY <1>1, DigitValChar
      <3>2. QED BY <2>2, <3>1 DEF F, E
    <2>3. QED BY <2>1, <2>2
  <1>8. B \in Seq(E) /\ B # <<>> /\ B[1] \notin {"+", "-"}
    <2>1. B \in Seq(E) BY <1>4, <1>6, <1>7
    <2>2. Len(B) = Len(D) + Len(F) /\ B[1] = D[1] BY <1>4, <1>5, <1>6, <1>7
    <2>3. QED BY <1>5, <2>1, <2>2
  <1>9. CASE k < 0
    <2>1. FormatFloat(k) = <<"-">> \o B
      <3>1. <<"-">> \in Seq(E) BY DEF E
      <3>2. (<<"-">> \o D) \o F = <<"-">> \o (D \o F)
        BY <1>6, <1>7, <3>1, ConcatAssociative
      <3>3. QED BY <1>3, <1>4, <1>9, <3>2
    <2>2. SignSplit(<<"-">> \o B) = [neg |-> TRUE, body |-> FloatBody(a)]
      <3>1. LET s == <<"-">> \o B IN s # <<>> /\ s[1] = "-" /\ Tail(s) = B
        BY <1>8
      <3>2. SignSplit(<<"-">> \o B) = [neg |-> TRUE, body |-> B]
        BY <3>1 DEF SignSplit
      <3>3. QED BY <3>2 DEF B
    <2>3. ParseFloat(<<"-">> \o B) = [ok |-> TRUE, n |-> -a]
      BY <1>1, <2>2, ParseFloatBody
    <2>4. -a = k BY <1>1, <1>9
    <2>5. QED BY <2>1, <2>3, <2>4
  <1>10. CASE k >= 0
    <2>1. FormatFloat(k) = B
      <3>1. <<>> \o D = D BY <1>6, ConcatEmptySeq
      <3>2. (IF k < 0 THEN <<"-">> ELSE <<>>) = <<>> BY <1>10
      <3>3. FormatFloat(k) = (<<>> \o D) \o F BY <1>3, <3>2
      <3>4. QED BY <1>4, <3>1, <3>3
    <2>2. SignSplit(B) = [neg |-> FALSE, body |-> FloatBody(a)]
      <3>1. SignSplit(B) = [neg |-> FALSE, body |-> B] BY <1>8 DEF SignSplit
      <3>2. QED BY <3>1 DEF B
    <2>3. ParseFloat(B) = [ok |-> TRUE, n |-> a]
      BY <1>1, <2>2, ParseFloatBody
    <2>4. a = k BY <1>1, <1>10
    <2>5. QED BY <2>1, <2>3, <2>4
  <1>11. QED BY <1>9, <1>10


=============================================================================
