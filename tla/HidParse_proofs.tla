--------------------------- MODULE HidParse_proofs ---------------------------
(***************************************************************************)
(* HidParseTouchLayout is safe for every descriptor and every              *)
(* wMaxInputLength the driver accepts, finds the layout the descriptor     *)
(* declares, and TouchPoll takes the fields of that layout from a report.  *)
(***************************************************************************)
EXTENDS HidDescriptor, SequenceTheorems, WellFoundedInduction, TLAPS

-----------------------------------------------------------------------------
(* Numbers.                                                                *)

(* A set of natural numbers that is not empty has a least element.         *)
LEMMA LeastElement ==
  ASSUME NEW S, S \subseteq Nat, S # {}
  PROVE  /\ (CHOOSE n \in S : \A m \in S : n <= m) \in S
         /\ \A m \in S : (CHOOSE n \in S : \A k \in S : n <= k) <= m
<1>1. PICK n \in S : \A m \in S : ~ (<<m, n>> \in OpToRel(<, Nat))
  BY NatLessThanWellFounded, WFMin
<1>2. \A m \in S : <<m, n>> \in Nat \X Nat => ~ (m < n)
  BY <1>1, Zenon DEF OpToRel
<1>3. ASSUME NEW m \in S PROVE n <= m
  <2>1. m \in Nat /\ n \in Nat
    OBVIOUS
  <2>2. ~ (m < n)
    BY <1>2, <2>1
  <2> QED BY <2>1, <2>2
<1> QED BY <1>3

(* What holds at 0 and is passed on at every step holds everywhere.        *)
LEMMA StepByStep ==
  ASSUME NEW n \in Nat, NEW Good, 0 \in Good,
         \A i \in 1..n : i - 1 \in Good => i \in Good
  PROVE  \A i \in 0..n : i \in Good
<1> DEFINE Bad == {k \in 0..n : k \notin Good}
<1>1. SUFFICES ASSUME Bad # {}
               PROVE  FALSE
  OBVIOUS
<1>2. PICK k \in Bad : \A m \in Bad : k <= m
  <2>1. Bad \subseteq Nat
    OBVIOUS
  <2> HIDE DEF Bad
  <2> QED
    BY <1>1, <2>1, LeastElement
<1>3. k # 0 /\ k \in 1..n /\ k - 1 \in 0..n
  BY <1>2
<1>4. k - 1 \notin Bad
  BY <1>2, <1>3
<1> QED
  BY <1>2, <1>3, <1>4

(* A set of positions that is not empty has a greatest one.                *)
LEMMA GreatestElement ==
  ASSUME NEW n \in Nat, NEW S, S \subseteq 1..n, S # {}
  PROVE  /\ (CHOOSE i \in S : \A j \in S : j <= i) \in S
         /\ \A j \in S : j <= (CHOOSE i \in S : \A k \in S : k <= i)
<1> DEFINE R == {n - i : i \in S}
<1>1. R \subseteq Nat /\ R # {}
  <2>1. \A i \in S : i \in 1..n
    OBVIOUS
  <2>2. \A i \in S : n - i \in Nat
    BY <2>1
  <2> QED BY <2>2
<1>2. PICK d \in R : \A e \in R : d <= e
  <2> HIDE DEF R
  <2> QED BY <1>1, LeastElement
<1>3. PICK i \in S : d = n - i
  BY <1>2
<1>4. ASSUME NEW j \in S PROVE j <= i
  <2>1. n - j \in R
    OBVIOUS
  <2>2. n - i <= n - j
    BY <1>2, <1>3, <2>1
  <2> QED BY <2>2
<1> QED BY <1>4

(* The recursive functions of Pow2 and Total exist. *)
LEMMA Pow2Exists ==
  ASSUME NEW n \in Nat
  PROVE  \E f : f = [k \in 0..n |-> IF k = 0 THEN 1 ELSE 2 * f[k - 1]]
<1> DEFINE Is(f, m) == f = [k \in 0..m |-> IF k = 0 THEN 1 ELSE 2 * f[k - 1]]
           Good == {m \in Nat : \E f : Is(f, m)}
<1>1. 0 \in Good
  <2>1. Is([k \in 0..0 |-> 1], 0)
    OBVIOUS
  <2> QED BY <2>1
<1>2. ASSUME NEW m \in 1..n, m - 1 \in Good PROVE m \in Good
  <2>1. PICK f : Is(f, m - 1)
    BY <1>2
  <2> DEFINE h == [k \in 0..m |-> IF k = m THEN 2 * f[m - 1] ELSE f[k]]
  <2>2. h[m] = 2 * f[m - 1] /\ \A k \in 0..(m - 1) : h[k] = f[k]
    OBVIOUS
  <2>3. ASSUME NEW k \in 0..m PROVE h[k] = IF k = 0 THEN 1 ELSE 2 * h[k - 1]
    <3>1. \A j \in 0..(m - 1) : f[j] = IF j = 0 THEN 1 ELSE 2 * f[j - 1]
      BY <2>1
    <3> HIDE DEF h, Is
    <3>2. CASE k = m
      <4>1. k # 0 /\ k - 1 \in 0..(m - 1)
        BY <3>2
      <4> QED BY <2>2, <3>2, <4>1
    <3>3. CASE k # m
      <4>1. k \in 0..(m - 1) /\ (k # 0 => k - 1 \in 0..(m - 1))
        BY <3>3
      <4> QED BY <2>2, <3>1, <4>1
    <3> QED BY <3>2, <3>3
  <2>4. Is(h, m)
    <3>1. h = [k \in 0..m |-> h[k]]
      OBVIOUS
    <3> HIDE DEF h
    <3> QED BY <2>3, <3>1
  <2>5. m \in Nat
    OBVIOUS
  <2> HIDE DEF Is
  <2> QED BY <2>4, <2>5
<1> HIDE DEF Good
<1>3. n \in Good
  <2>1. \A i \in 0..n : i \in Good
    BY <1>1, <1>2, StepByStep
  <2> QED BY <2>1
<1> QED BY <1>3 DEF Good

LEMMA TotalExists ==
  ASSUME NEW d, NEW n \in Nat
  PROVE  \E f : f = [k \in 0..n |-> IF k = 0 THEN 0 ELSE f[k - 1] + d[k]]
<1> DEFINE Is(f, m) == f = [k \in 0..m |-> IF k = 0 THEN 0 ELSE f[k - 1] + d[k]]
           Good == {m \in Nat : \E f : Is(f, m)}
<1>1. 0 \in Good
  <2>1. Is([k \in 0..0 |-> 0], 0)
    OBVIOUS
  <2> QED BY <2>1
<1>2. ASSUME NEW m \in 1..n, m - 1 \in Good PROVE m \in Good
  <2>1. PICK f : Is(f, m - 1)
    BY <1>2
  <2> DEFINE h == [k \in 0..m |-> IF k = m THEN f[m - 1] + d[m] ELSE f[k]]
  <2>2. h[m] = f[m - 1] + d[m] /\ \A k \in 0..(m - 1) : h[k] = f[k]
    OBVIOUS
  <2>3. ASSUME NEW k \in 0..m PROVE h[k] = IF k = 0 THEN 0 ELSE h[k - 1] + d[k]
    <3>1. \A j \in 0..(m - 1) : f[j] = IF j = 0 THEN 0 ELSE f[j - 1] + d[j]
      BY <2>1
    <3> HIDE DEF h, Is
    <3>2. CASE k = m
      <4>1. k # 0 /\ k - 1 \in 0..(m - 1)
        BY <3>2
      <4> QED BY <2>2, <3>2, <4>1
    <3>3. CASE k # m
      <4>1. k \in 0..(m - 1) /\ (k # 0 => k - 1 \in 0..(m - 1))
        BY <3>3
      <4> QED BY <2>2, <3>1, <4>1
    <3> QED BY <3>2, <3>3
  <2>4. Is(h, m)
    <3>1. h = [k \in 0..m |-> h[k]]
      OBVIOUS
    <3> HIDE DEF h
    <3> QED BY <2>3, <3>1
  <2>5. m \in Nat
    OBVIOUS
  <2> HIDE DEF Is
  <2> QED BY <2>4, <2>5
<1> HIDE DEF Good
<1>3. n \in Good
  <2>1. \A i \in 0..n : i \in Good
    BY <1>1, <1>2, StepByStep
  <2> QED BY <2>1
<1> QED BY <1>3 DEF Good

LEMMA Pow2Rule ==
  /\ Pow2(0) = 1
  /\ \A n \in Nat : Pow2(n) \in Nat /\ Pow2(n) > 0 /\ Pow2(n + 1) = 2 * Pow2(n)
<1> DEFINE Is(f, n) == f = [k \in 0..n |-> IF k = 0 THEN 1 ELSE 2 * f[k - 1]]
           P(n) == CHOOSE f : Is(f, n)
<1>1. \A n : Pow2(n) = P(n)[n]
  BY DEF Pow2
<1>2. \A n \in Nat : Is(P(n), n)
  BY Pow2Exists
<1> HIDE DEF P
<1>3. ASSUME NEW n \in Nat PROVE P(n)[0] = 1 /\ \A k \in 1..n : P(n)[k] = 2 * P(n)[k - 1]
  <2>1. \A k \in 0..n : P(n)[k] = IF k = 0 THEN 1 ELSE 2 * P(n)[k - 1]
    BY <1>2
  <2> HIDE DEF Is
  <2> QED BY <2>1
<1> HIDE DEF Is
<1>4. ASSUME NEW n \in Nat PROVE \A k \in 0..n : P(n)[k] \in Nat /\ P(n)[k] > 0
  <2> DEFINE Good == {k \in 0..n : P(n)[k] \in Nat /\ P(n)[k] > 0}
  <2>1. 0 \in Good
    BY <1>3
  <2>2. ASSUME NEW i \in 1..n, i - 1 \in Good PROVE i \in Good
    <3>1. P(n)[i] = 2 * P(n)[i - 1]
      BY <1>3
    <3> QED BY <2>2, <3>1
  <2> HIDE DEF Good
  <2>3. \A i \in 0..n : i \in Good
    BY <2>1, <2>2, StepByStep
  <2> QED BY <2>3 DEF Good
<1>5. ASSUME NEW n \in Nat PROVE P(n + 1)[n] = P(n)[n]
  <2> DEFINE Good == {k \in 0..n : P(n + 1)[k] = P(n)[k]}
  <2>1. 0 \in Good
    BY <1>3
  <2>2. ASSUME NEW i \in 1..n, i - 1 \in Good PROVE i \in Good
    <3>1. P(n)[i] = 2 * P(n)[i - 1] /\ P(n + 1)[i] = 2 * P(n + 1)[i - 1]
      BY <1>3
    <3> QED BY <2>2, <3>1
  <2> HIDE DEF Good
  <2>3. \A i \in 0..n : i \in Good
    BY <2>1, <2>2, StepByStep
  <2>4. n \in Good
    BY <2>3
  <2> QED BY <2>4 DEF Good
<1>6. Pow2(0) = 1
  BY <1>1, <1>3
<1>7. ASSUME NEW n \in Nat PROVE Pow2(n) \in Nat /\ Pow2(n) > 0 /\ Pow2(n + 1) = 2 * Pow2(n)
  <2>1. P(n + 1)[n + 1] = 2 * P(n + 1)[n]
    <3>1. n + 1 \in Nat /\ n + 1 \in 1..(n + 1) /\ (n + 1) - 1 = n
      OBVIOUS
    <3> QED BY <1>3, <3>1
  <2>2. P(n)[n] \in Nat /\ P(n)[n] > 0
    BY <1>4
  <2> QED BY <1>1, <1>5, <2>1, <2>2
<1> QED BY <1>6, <1>7

(* A total is the one before it and the last of its numbers. *)
LEMMA TotalRule ==
  ASSUME NEW d
  PROVE  Total(d, 0) = 0 /\ \A n \in Nat : Total(d, n + 1) = Total(d, n) + d[n + 1]
<1> DEFINE Is(f, n) == f = [k \in 0..n |-> IF k = 0 THEN 0 ELSE f[k - 1] + d[k]]
           P(n) == CHOOSE f : Is(f, n)
<1>1. \A n : Total(d, n) = P(n)[n]
  BY DEF Total
<1>2. \A n \in Nat : Is(P(n), n)
  BY TotalExists
<1> HIDE DEF P
<1>3. ASSUME NEW n \in Nat PROVE P(n)[0] = 0 /\ \A k \in 1..n : P(n)[k] = P(n)[k - 1] + d[k]
  <2>1. \A k \in 0..n : P(n)[k] = IF k = 0 THEN 0 ELSE P(n)[k - 1] + d[k]
    BY <1>2
  <2> HIDE DEF Is
  <2> QED BY <2>1
<1> HIDE DEF Is
<1>4. ASSUME NEW n \in Nat PROVE P(n + 1)[n] = P(n)[n]
  <2> DEFINE Good == {k \in 0..n : P(n + 1)[k] = P(n)[k]}
  <2>1. 0 \in Good
    BY <1>3
  <2>2. ASSUME NEW i \in 1..n, i - 1 \in Good PROVE i \in Good
    <3>1. P(n)[i] = P(n)[i - 1] + d[i] /\ P(n + 1)[i] = P(n + 1)[i - 1] + d[i]
      BY <1>3
    <3> QED BY <2>2, <3>1
  <2> HIDE DEF Good
  <2>3. \A i \in 0..n : i \in Good
    BY <2>1, <2>2, StepByStep
  <2>4. n \in Good
    BY <2>3
  <2> QED BY <2>4 DEF Good
<1>5. ASSUME NEW n \in Nat PROVE Total(d, n + 1) = Total(d, n) + d[n + 1]
  <2>1. P(n + 1)[n + 1] = P(n + 1)[n] + d[n + 1]
    <3>1. n + 1 \in Nat /\ n + 1 \in 1..(n + 1) /\ (n + 1) - 1 = n
      OBVIOUS
    <3> QED BY <1>3, <3>1
  <2> QED BY <1>1, <1>4, <2>1
<1> QED BY <1>1, <1>3, <1>5

(* The total of integers is one, that of natural numbers too. *)
LEMMA TotalType ==
  ASSUME NEW d, NEW n \in Nat, \A i \in 1..n : d[i] \in Int
  PROVE  Total(d, n) \in Int /\ ((\A i \in 1..n : d[i] >= 0) => Total(d, n) >= 0)
<1> DEFINE Good == {k \in 0..n : /\ Total(d, k) \in Int
                                 /\ (\A i \in 1..n : d[i] >= 0) => Total(d, k) >= 0}
<1>1. 0 \in Good
  BY TotalRule
<1>2. ASSUME NEW i \in 1..n, i - 1 \in Good PROVE i \in Good
  <2>1. i - 1 \in Nat /\ (i - 1) + 1 = i
    OBVIOUS
  <2>2. Total(d, i) = Total(d, i - 1) + d[i]
    BY <2>1, TotalRule
  <2> QED BY <1>2, <2>2
<1> HIDE DEF Good
<1>3. \A i \in 0..n : i \in Good
  BY <1>1, <1>2, StepByStep
<1>4. n \in Good
  BY <1>3
<1> QED BY <1>4 DEF Good

(* Equal numbers have equal totals. *)
LEMMA TotalSame ==
  ASSUME NEW d, NEW e, NEW n \in Nat, \A i \in 1..n : d[i] = e[i]
  PROVE  Total(d, n) = Total(e, n)
<1> DEFINE Good == {k \in 0..n : Total(d, k) = Total(e, k)}
<1>1. 0 \in Good
  BY TotalRule
<1>2. ASSUME NEW i \in 1..n, i - 1 \in Good PROVE i \in Good
  <2>1. i - 1 \in Nat /\ (i - 1) + 1 = i
    OBVIOUS
  <2>2. Total(d, i) = Total(d, i - 1) + d[i] /\ Total(e, i) = Total(e, i - 1) + e[i]
    BY <2>1, TotalRule
  <2> QED BY <1>2, <2>2
<1> HIDE DEF Good
<1>3. \A i \in 0..n : i \in Good
  BY <1>1, <1>2, StepByStep
<1>4. n \in Good
  BY <1>3
<1> QED BY <1>4 DEF Good

(* A count bounded by a quotient bounds the product: the multiplication the *)
(* guard of the Input item protects.                                       *)
LEMMA BoundedProduct ==
  ASSUME NEW m \in Nat, NEW s \in Nat, NEW c \in Nat, s > 0, c <= m \div s
  PROVE  s * c <= m
<1> DEFINE q == m \div s
<1>1. q \in Nat /\ s * q <= m
  BY SMT
<1>2. c <= q
  OBVIOUS
<1> HIDE DEF q
<1>3. s * c <= s * q
  <2>1. PICK d \in Nat : q = c + d
    <3>1. q - c \in Nat /\ q = c + (q - c)
      BY <1>1, <1>2
    <3> QED BY <3>1
  <2>2. s * q = s * c + s * d
    BY <2>1
  <2>3. s * d \in Nat /\ s * c \in Nat
    BY <2>1
  <2> QED BY <2>2, <2>3
<1>4. s * c \in Nat /\ s * q \in Nat
  BY <1>1
<1> QED BY <1>1, <1>3, <1>4

(* The k-th of c fields of s bits ends within them all. *)
LEMMA FieldEnd ==
  ASSUME NEW s \in Nat, NEW c \in Nat, NEW k \in 0..(c - 1)
  PROVE  k * s \in Nat /\ k * s + s <= s * c
<1>1. PICK d \in Nat : c = k + 1 + d
  <2>1. c - (k + 1) \in Nat /\ c = k + 1 + (c - (k + 1))
    OBVIOUS
  <2> QED BY <2>1
<1>2. s * c = k * s + s + s * d
  BY <1>1
<1>3. k * s \in Nat /\ s * d \in Nat
  BY <1>1
<1> QED BY <1>2, <1>3

(* The constants fit in 32 bits.                                           *)
LEMMA Magnitudes ==
  /\ MaxReportBits \in Nat /\ MaxReportBits >= 8
  /\ Modulus \in Nat /\ Modulus > MaxReportBits /\ PageUnit \in Nat
  BY WidthAssumption, LengthAssumption DEF MaxReportBits, Modulus, PageUnit

(* The inductive invariant of the parser by itself.                        *)
Inv == TypeOK /\ OffsetsBounded
-----------------------------------------------------------------------------
(* The entry an Input item works on.                                       *)
LEMMA RidTaken ==
  ASSUME Inv, HasRid
  PROVE  /\ WithRid \in Seq(RidStates) /\ Len(WithRid) <= MaxReportIds
         /\ RidIndex \in DOMAIN WithRid /\ Rid \in RidStates
         /\ \A i \in DOMAIN WithRid : RidFits(WithRid[i])
<1>1. rids \in Seq(RidStates) /\ Len(rids) <= MaxReportIds /\ g.id \in Nat
      /\ \A i \in DOMAIN rids : RidFits(rids[i])
  BY DEF Inv, TypeOK, OffsetsBounded, Globals
<1>2. CASE Known(g.id)
  <2>1. WithRid = rids
    BY <1>2 DEF WithRid
  <2>2. RidIndex \in DOMAIN WithRid
    BY <1>2, <2>1 DEF Known, RidIndex
  <2> QED BY <1>1, <2>1, <2>2 DEF Rid
<1>3. CASE ~Known(g.id)
  <2> DEFINE new == NewRid(g.id)
  <2>1. WithRid = Append(rids, new) /\ Len(rids) < MaxReportIds
    BY <1>3 DEF WithRid, HasRid
  <2>2. new \in RidStates
    BY <1>1 DEF NewRid, RidStates, Field, Absent
  <2>3. RidFits(new)
    BY Magnitudes DEF NewRid, RidFits, FieldFits, Absent
  <2>4. new.id = g.id
    BY DEF NewRid
  <2> HIDE DEF new
  <2>5. /\ WithRid \in Seq(RidStates) /\ Len(WithRid) = Len(rids) + 1
        /\ WithRid[Len(rids) + 1] = new
        /\ \A i \in 1..Len(rids) : WithRid[i] = rids[i]
    BY <1>1, <2>1, <2>2
  <2>6. Len(rids) + 1 \in DOMAIN WithRid
    BY <1>1, <2>5
  <2>7. RidIndex \in DOMAIN WithRid
    BY <2>4, <2>5, <2>6 DEF RidIndex
  <2>8. \A i \in DOMAIN WithRid : RidFits(WithRid[i])
    BY <1>1, <2>3, <2>5
  <2> QED BY <1>1, <2>1, <2>5, <2>7, <2>8, LimitsAssumption DEF Rid
<1> QED BY <1>2, <1>3

(* The guard keeps product and sums from wrapping.                         *)
LEMMA NoWrap ==
  ASSUME Inv, HasRid, Fits
  PROVE  /\ ItemBits = g.size * g.count /\ ItemBits \in Nat
         /\ Rid.bits + ItemBits \in 0..MaxReportBits
         /\ \A k \in 0..(g.count - 1) :
              /\ Off(k) = Rid.bits + k * g.size /\ Off(k) \in Nat
              /\ Off(k) + g.size <= Rid.bits + ItemBits
<1> DEFINE s == g.size
           c == g.count
           m == MaxReportBits
           bits == Rid.bits
<1>1. s \in Nat /\ c \in Nat /\ bits \in Nat
  BY RidTaken DEF Inv, TypeOK, Globals, RidStates
<1>2. m \in Nat /\ Modulus \in Nat /\ m < Modulus
  BY Magnitudes
<1>3. s > 0 /\ c <= m \div s /\ bits <= m - ItemBits
  BY DEF Fits
<1>4. ItemBits = (s * c) % Modulus
  BY DEF ItemBits
<1>5. \A k : Off(k) = (bits + k * s) % Modulus
  BY DEF Off
<1> HIDE DEF s, c, m, bits
<1>6. s * c \in Nat /\ s * c <= m
  BY <1>1, <1>2, <1>3, BoundedProduct
<1>7. ItemBits = s * c
  BY <1>2, <1>4, <1>6
<1>8. bits + s * c <= m
  BY <1>1, <1>2, <1>3, <1>6, <1>7
<1>9. ASSUME NEW k \in 0..(c - 1)
      PROVE  Off(k) = bits + k * s /\ Off(k) \in Nat /\ Off(k) + s <= bits + s * c
  <2>1. k * s \in Nat /\ k * s + s <= s * c
    BY <1>1, FieldEnd
  <2> DEFINE ks == k * s
             sc == s * c
  <2>2. bits + ks \in Nat /\ bits + ks < Modulus /\ bits + ks + s <= bits + sc
    <3> HIDE DEF ks, sc
    <3> QED BY <1>1, <1>2, <1>3, <1>6, <1>8, <2>1 DEF ks, sc
  <2> QED BY <1>2, <1>5, <2>2
<1> QED BY <1>1, <1>2, <1>6, <1>7, <1>8, <1>9 DEF s, c, m, bits

(* The logical maximum is a natural number however it was signed.           *)
LEMMA LogicalMaxType ==
  ASSUME TypeOK PROVE ResolveLogicalMax \in Nat
  BY DEF TypeOK, Globals, ResolveLogicalMax

(* A field that is located lies within what the report has grown to.       *)
LEMMA LocatedFits ==
  ASSUME Inv, HasRid, Fits, NEW f \in Field, FieldFits(f, Rid.bits), NEW u
  PROVE  /\ Located(f, u) \in Field
         /\ FieldFits(Located(f, u), Rid.bits + ItemBits)
<1> DEFINE ks == {k \in 0..(g.count - 1) : UsageOf(k) = u}
           first == CHOOSE k \in ks : \A j \in ks : k <= j
<1>1. g.size \in Nat /\ g.count \in Nat /\ g.size > 0 /\ Rid.bits \in Nat
  BY RidTaken DEF Inv, TypeOK, Globals, RidStates, Fits
<1>2. CASE f.off >= 0 \/ ks = {}
  <2>1. Located(f, u) = f
    BY <1>2 DEF Located
  <2>2. f.off \in Int /\ f.bits \in Nat
    BY DEF Field
  <2> QED BY <1>1, <2>1, <2>2, NoWrap DEF FieldFits
<1>3. CASE ~(f.off >= 0 \/ ks = {})
  <2>1. first \in ks
    <3>1. ks \subseteq Nat /\ ks # {}
      BY <1>1, <1>3
    <3> HIDE DEF ks
    <3> QED BY <3>1, LeastElement
  <2>2. Located(f, u) = [off |-> Off(first), bits |-> g.size, max |-> ResolveLogicalMax]
    BY <1>3 DEF Located
  <2>3. first \in 0..(g.count - 1)
    BY <2>1
  <2> HIDE DEF first, ks
  <2>4. Off(first) \in Nat /\ Off(first) + g.size <= Rid.bits + ItemBits
    BY <2>3, NoWrap
  <2> QED BY <1>1, <2>2, <2>4, LogicalMaxType DEF Field, FieldFits, Inv
<1> QED BY <1>2, <1>3
-----------------------------------------------------------------------------
(* The steps.                                                              *)

(* Reading an item changes neither the result nor what the report was.     *)
LEMMA ConsumeTypes ==
  ASSUME TypeOK, todo # <<>>, Consume
  PROVE  /\ todo' \in Seq(Items) /\ read' \in Seq(Items) /\ Item \in Items
         /\ status' = status /\ layout' = layout /\ left' = left
         /\ report' = report
<1>1. todo \in Seq(Items) /\ read \in Seq(Items) /\ todo # <<>>
  BY DEF TypeOK
<1>2. Item \in Items /\ Tail(todo) \in Seq(Items)
  BY <1>1 DEF Item
<1> QED BY <1>1, <1>2 DEF Consume, result, poll

(* The local items are well typed after a main item has cleared them.      *)
LEMMA ClearLocalsTypes ==
  ASSUME TypeOK, ClearLocals
  PROVE  loc' \in Locals /\ Len(loc'.usages) <= MaxLocalUsages
<1>1. loc \in Locals /\ <<>> \in Seq(Nat) /\ Len(<<>>) = 0
  BY DEF TypeOK
<1>2. loc' = [loc EXCEPT !.usages = <<>>, !.haveMin = FALSE, !.haveMax = FALSE]
  BY DEF ClearLocals
<1>3. loc' \in Locals /\ loc'.usages = <<>>
  BY <1>1, <1>2 DEF Locals
<1> QED BY <1>1, <1>3, LimitsAssumption

(* The items that touch no report state leave every bound as it is.        *)
LEMMA RidsUntouched ==
  ASSUME OffsetsBounded, UNCHANGED <<rids, status, layout>>, status # "SUCCESS"
  PROVE  OffsetsBounded'
  BY DEF OffsetsBounded, RidFits, FieldFits

(* An Input item puts a report state within the bounds in its place.       *)
LEMMA RidReplaced ==
  ASSUME Inv, HasRid, NEW r, r \in RidStates, RidFits(r),
         rids' = [WithRid EXCEPT ![RidIndex] = r]
  PROVE  /\ rids' \in Seq(RidStates) /\ Len(rids') <= MaxReportIds
         /\ \A i \in DOMAIN rids' : RidFits(rids'[i])
<1>1. /\ WithRid \in Seq(RidStates) /\ Len(WithRid) <= MaxReportIds
      /\ RidIndex \in DOMAIN WithRid
      /\ \A i \in DOMAIN WithRid : RidFits(WithRid[i])
  BY RidTaken
<1>2. /\ rids' \in Seq(RidStates) /\ Len(rids') = Len(WithRid)
      /\ DOMAIN rids' = DOMAIN WithRid
      /\ \A i \in DOMAIN rids' : rids'[i] = r \/ rids'[i] = WithRid[i]
  BY <1>1
<1> QED BY <1>1, <1>2

(* A global item changes no report state.                                  *)
LEMMA GlobalItemStep == ASSUME Inv, GlobalItem PROVE Inv'
<1>1. /\ todo' \in Seq(Items) /\ read' \in Seq(Items) /\ Item \in Items
      /\ status = "PARSING" /\ UNCHANGED <<result, left, report, stack, loc, anyId, rids>>
  BY ConsumeTypes DEF GlobalItem, Next1, Inv, result
<1>2. Signed(Item) \in Int
  BY <1>1, WidthAssumption DEF Signed, Items
<1>3. g' \in Globals
  BY <1>1, <1>2 DEF GlobalItem, Globals, Items, Inv, TypeOK
<1>4. TypeOK'
  BY <1>1, <1>3 DEF TypeOK, Inv, result
<1> QED BY <1>1, <1>4, RidsUntouched DEF Inv, result

(* A report ID changes which report the next Input item belongs to, no more. *)
LEMMA ReportIdItemStep == ASSUME Inv, ReportIdItem PROVE Inv'
<1>1. /\ todo' \in Seq(Items) /\ read' \in Seq(Items) /\ Item \in Items
      /\ status = "PARSING" /\ UNCHANGED <<result, left, report, stack, loc, rids>>
  BY ConsumeTypes DEF ReportIdItem, Next1, Inv, result
<1>2. Item.raw % 256 \in Nat
  BY <1>1 DEF Items
<1>3. g' \in Globals /\ anyId' \in BOOLEAN
  <2>1. g \in Globals /\ g' = [g EXCEPT !.id = Item.raw % 256] /\ anyId' = TRUE
    BY DEF ReportIdItem, Inv, TypeOK
  <2> QED BY <1>2, <2>1 DEF Globals
<1>4. TypeOK'
  BY <1>1, <1>3 DEF TypeOK, Inv, result
<1> QED BY <1>1, <1>4, RidsUntouched DEF Inv, result

(* Push stays within the stack.                                            *)
LEMMA PushStep == ASSUME Inv, Push PROVE Inv'
<1>1. /\ todo' \in Seq(Items) /\ read' \in Seq(Items)
      /\ status = "PARSING" /\ UNCHANGED <<result, left, report, g, loc, anyId, rids>>
  BY ConsumeTypes DEF Push, Next1, Inv, result
<1>2. stack' \in Seq(Globals) /\ Len(stack') <= StackMax
  BY LimitsAssumption DEF Push, Inv, TypeOK
<1>3. TypeOK'
  BY <1>1, <1>2 DEF TypeOK, Inv, result
<1> QED BY <1>1, <1>3, RidsUntouched DEF Inv, result

(* Pop restores globals that were well typed when they were pushed.        *)
LEMMA PopStep == ASSUME Inv, Pop PROVE Inv'
<1>1. /\ todo' \in Seq(Items) /\ read' \in Seq(Items)
      /\ status = "PARSING" /\ UNCHANGED <<result, left, report, loc, anyId, rids>>
  BY ConsumeTypes DEF Pop, Next1, Inv, result
<1>2. stack \in Seq(Globals) /\ Len(stack) <= StackMax /\ g \in Globals
  BY DEF Inv, TypeOK
<1>3. g' \in Globals /\ stack' \in Seq(Globals) /\ Len(stack') <= StackMax
  <2>1. CASE stack = <<>>
    BY <1>2, <2>1 DEF Pop
  <2>2. CASE stack # <<>>
    <3>1. Len(stack) \in Nat \ {0} /\ stack[Len(stack)] \in Globals
      BY <1>2, <2>2
    <3>2. /\ SubSeq(stack, 1, Len(stack) - 1) \in Seq(Globals)
          /\ Len(SubSeq(stack, 1, Len(stack) - 1)) = Len(stack) - 1
      <4> DEFINE n == Len(stack) - 1
      <4>1. 1 \in Int /\ n \in Int /\ n >= 0 /\ \A i \in 1..n : stack[i] \in Globals
        BY <1>2, <3>1
      <4> HIDE DEF n
      <4>2. /\ SubSeq(stack, 1, n) \in Seq(Globals)
            /\ Len(SubSeq(stack, 1, n)) = IF 1 <= n THEN n - 1 + 1 ELSE 0
        BY <4>1, SubSeqProperties
      <4>3. n = Len(stack) - 1
        BY DEF n
      <4> QED BY <4>1, <4>2, <4>3
    <3>3. g' = stack[Len(stack)] /\ stack' = SubSeq(stack, 1, Len(stack) - 1)
      BY <2>2 DEF Pop
    <3> QED BY <1>2, <3>1, <3>2, <3>3, LimitsAssumption
  <2> QED BY <2>1, <2>2
<1>4. TypeOK'
  BY <1>1, <1>3 DEF TypeOK, Inv, result
<1> QED BY <1>1, <1>4, RidsUntouched DEF Inv, result

(* A usage is kept while there is room, a usage bound replaces the last.   *)
LEMMA LocalItemStep == ASSUME Inv, LocalItem PROVE Inv'
<1>1. /\ todo' \in Seq(Items) /\ read' \in Seq(Items) /\ Item \in Items
      /\ status = "PARSING" /\ UNCHANGED <<result, left, report, g, stack, anyId, rids>>
  BY ConsumeTypes DEF LocalItem, Next1, Inv, result
<1>2. FullUsage(Item) \in Nat
  <2>1. g.page \in Nat /\ Item.raw \in Nat
    BY <1>1 DEF Inv, TypeOK, Globals, Items
  <2>2. g.page * PageUnit + Item.raw \in Nat /\ Modulus \in Nat /\ Modulus > 0
    BY <2>1, Magnitudes
  <2> QED BY <2>1, <2>2 DEF FullUsage
<1>3. loc' \in Locals /\ Len(loc'.usages) <= MaxLocalUsages
  <2> DEFINE u == FullUsage(Item)
  <2>1. loc \in Locals /\ loc.usages \in Seq(Nat) /\ Len(loc.usages) <= MaxLocalUsages
    BY DEF Inv, TypeOK, Locals
  <2>2. \/ loc' = loc
        \/ /\ Len(loc.usages) < MaxLocalUsages
           /\ loc' = [loc EXCEPT !.usages = Append(loc.usages, u)]
        \/ loc' = [loc EXCEPT !.min = u, !.haveMin = TRUE]
        \/ loc' = [loc EXCEPT !.max = u, !.haveMax = TRUE]
    BY DEF LocalItem
  <2>3. u \in Nat
    BY <1>2
  <2> HIDE DEF u
  <2>4. /\ Append(loc.usages, u) \in Seq(Nat)
        /\ Len(Append(loc.usages, u)) = Len(loc.usages) + 1
    BY <2>1, <2>3
  <2> DEFINE grown == Append(loc.usages, u)
  <2> HIDE DEF grown
  <2>5. \/ loc' = loc
        \/ /\ Len(grown) <= MaxLocalUsages /\ grown \in Seq(Nat)
           /\ loc' = [loc EXCEPT !.usages = grown]
        \/ loc' = [loc EXCEPT !.min = u, !.haveMin = TRUE]
        \/ loc' = [loc EXCEPT !.max = u, !.haveMax = TRUE]
    BY <2>1, <2>2, <2>4, LimitsAssumption DEF grown
  <2> QED BY <2>1, <2>3, <2>5 DEF Locals
<1>4. TypeOK'
  BY <1>1, <1>3 DEF TypeOK, Inv, result
<1> QED BY <1>1, <1>4, RidsUntouched DEF Inv, result

(* Main items that are not Input clear the locals only.                    *)
LEMMA OtherMainStep == ASSUME Inv, OtherMain PROVE Inv'
<1>1. /\ todo' \in Seq(Items) /\ read' \in Seq(Items)
      /\ status = "PARSING" /\ UNCHANGED <<result, left, report, g, stack, anyId, rids>>
  BY ConsumeTypes DEF OtherMain, Next1, Inv, result
<1>2. loc' \in Locals /\ Len(loc'.usages) <= MaxLocalUsages
  BY ClearLocalsTypes DEF OtherMain, Inv
<1>3. TypeOK'
  BY <1>1, <1>2 DEF TypeOK, Inv, result
<1> QED BY <1>1, <1>3, RidsUntouched DEF Inv, result

(* An Input item for which no entry is free changes no report state.       *)
LEMMA InputIgnoredStep == ASSUME Inv, InputIgnored PROVE Inv'
<1>1. /\ todo' \in Seq(Items) /\ read' \in Seq(Items)
      /\ status = "PARSING" /\ UNCHANGED <<result, left, report, g, stack, anyId, rids>>
  BY ConsumeTypes DEF InputIgnored, Next1, Inv, result
<1>2. loc' \in Locals /\ Len(loc'.usages) <= MaxLocalUsages
  BY ClearLocalsTypes DEF InputIgnored, Inv
<1>3. TypeOK'
  BY <1>1, <1>2 DEF TypeOK, Inv, result
<1> QED BY <1>1, <1>3, RidsUntouched DEF Inv, result

(* An Input item that keeps the report states in bounds keeps everything.  *)
LEMMA InputKeeps ==
  ASSUME Inv, Next1("input"), Consume, ClearLocals, UNCHANGED <<g, stack, anyId>>,
         rids' \in Seq(RidStates), Len(rids') <= MaxReportIds,
         \A i \in DOMAIN rids' : RidFits(rids'[i])
  PROVE  Inv'
<1>1. /\ todo' \in Seq(Items) /\ read' \in Seq(Items)
      /\ status = "PARSING" /\ UNCHANGED <<result, left, report>>
  BY ConsumeTypes DEF Next1, Inv, result
<1>2. loc' \in Locals /\ Len(loc'.usages) <= MaxLocalUsages
  BY ClearLocalsTypes DEF Inv
<1>3. TypeOK'
  BY <1>1, <1>2 DEF TypeOK, Inv, result
<1>4. OffsetsBounded'
  BY <1>1 DEF OffsetsBounded, result, RidFits, FieldFits
<1> QED BY <1>3, <1>4 DEF Inv

(* An Input item that does not fit leaves positions and fields alone.      *)
LEMMA InputSkippedStep == ASSUME Inv, InputSkipped PROVE Inv'
<1> DEFINE r == [Rid EXCEPT !.overflowed = TRUE]
<1>1. r \in RidStates /\ RidFits(r)
  <2>1. Rid \in RidStates /\ RidFits(Rid)
    BY RidTaken DEF InputSkipped, Rid
  <2> QED BY <2>1 DEF RidStates, RidFits
<1>2. rids' = [WithRid EXCEPT ![RidIndex] = r]
  BY RidTaken DEF InputSkipped, Rid
<1> HIDE DEF r
<1>3. /\ rids' \in Seq(RidStates) /\ Len(rids') <= MaxReportIds
      /\ \A i \in DOMAIN rids' : RidFits(rids'[i])
  BY <1>1, <1>2, RidReplaced DEF InputSkipped
<1> QED BY <1>3, InputKeeps DEF InputSkipped

(* An Input item that fits extends its report to at most the longest one.  *)
LEMMA InputFieldsStep == ASSUME Inv, InputFields PROVE Inv'
<1> DEFINE bits == Rid.bits + ItemBits
           r == [Rid EXCEPT !.tip = Located(@, Tip), !.x = Located(@, X),
                            !.y = Located(@, Y), !.bits = (@ + ItemBits) % Modulus]
<1>1. Rid \in RidStates /\ RidFits(Rid) /\ HasRid /\ Fits
  BY RidTaken DEF InputFields, Rid
<1>2. bits \in Nat /\ bits <= MaxReportBits /\ bits % Modulus = bits
  BY <1>1, NoWrap, Magnitudes
<1>3. ASSUME NEW f \in {Rid.tip, Rid.x, Rid.y}, NEW u
      PROVE  Located(f, u) \in Field /\ FieldFits(Located(f, u), bits)
  BY <1>1, LocatedFits DEF RidStates, RidFits
<1>4. r \in RidStates /\ r.bits = bits /\ r.tip = Located(Rid.tip, Tip)
      /\ r.x = Located(Rid.x, X) /\ r.y = Located(Rid.y, Y)
  BY <1>1, <1>2, <1>3 DEF RidStates
<1>5. rids' = [WithRid EXCEPT ![RidIndex] = r]
  BY DEF InputFields
<1> HIDE DEF r, bits
<1>6. RidFits(r)
  BY <1>2, <1>3, <1>4 DEF RidFits
<1>7. /\ rids' \in Seq(RidStates) /\ Len(rids') <= MaxReportIds
      /\ \A i \in DOMAIN rids' : RidFits(rids'[i])
  BY <1>1, <1>4, <1>5, <1>6, RidReplaced
<1> QED BY <1>7, InputKeeps DEF InputFields

(* The layout chosen was found usable, so its fields end in the payload.   *)
LEMMA FinishStep == ASSUME Inv, Finish PROVE Inv'
<1> DEFINE usable == {i \in DOMAIN rids : Usable(rids[i])}
           first == CHOOSE i \in usable : \A j \in usable : i <= j
           r == rids[first]
<1>1. /\ UNCHANGED <<g, stack, loc, anyId, rids, todo, left, report, read>>
      /\ rids \in Seq(RidStates) /\ anyId \in BOOLEAN
  BY DEF Finish, parser, poll, Inv, TypeOK
<1>2. CASE usable = {}
  BY <1>1, <1>2 DEF Finish, Inv, TypeOK, OffsetsBounded, RidFits, FieldFits
<1>3. CASE usable # {}
  <2>1. first \in usable
    <3>1. usable \subseteq Nat
      BY <1>1
    <3> QED BY <1>3, <3>1, LeastElement
  <2>2. r \in RidStates /\ RidFits(r) /\ Usable(r)
    BY <1>1, <2>1 DEF Inv, OffsetsBounded
  <2>3. status' = "SUCCESS"
        /\ layout' = [hasId |-> anyId, id |-> r.id, tip |-> r.tip, x |-> r.x, y |-> r.y]
    BY <1>3 DEF Finish
  <2> HIDE DEF first, usable, r
  <2>4. layout' \in Layouts
    BY <1>1, <2>2, <2>3 DEF Layouts, RidStates
  <2>5. PayloadBits' = PayloadBits /\ PayloadBits \in Nat
    BY <1>1, Magnitudes DEF PayloadBits
  <2>6. ASSUME NEW f \in {r.tip, r.x, r.y} PROVE FieldFits(f, PayloadBits)
    <3>1. f \in Field /\ FieldFits(f, r.bits) /\ r.bits \in Nat /\ r.bits <= PayloadBits
      BY <2>2 DEF RidStates, RidFits, Usable
    <3> QED BY <2>5, <3>1 DEF Field, FieldFits
  <2>7. OffsetsBounded'
    BY <1>1, <2>3, <2>5, <2>6 DEF Inv, OffsetsBounded, RidFits, FieldFits
  <2> QED BY <1>1, <2>3, <2>4, <2>7 DEF Inv, TypeOK
<1> QED BY <1>2, <1>3

(* Reading a report changes neither layout nor report states.              *)
LEMMA TouchReportStep == ASSUME Inv, TouchReport PROVE Inv'
<1>1. UNCHANGED <<g, stack, loc, anyId, rids, status, layout, todo, left, read>>
  BY DEF TouchReport, parser, result
<1>2. report' \in Reports
  BY DEF TouchReport
<1> QED BY <1>1, <1>2 DEF Inv, TypeOK, OffsetsBounded, PayloadBits, RidFits, FieldFits

(* More of the descriptor arrives.                                         *)
LEMMA ReceiveStep == ASSUME Inv, Receive PROVE Inv'
<1>1. UNCHANGED <<g, stack, loc, anyId, rids, status, layout, report, read>>
  BY DEF Receive, parser, result, poll
<1>2. todo' \in Seq(Items) /\ left' \in 0..MaxFragments
  BY FragmentsAssumption, LimitsAssumption DEF Receive, Inv, TypeOK
<1> QED BY <1>1, <1>2 DEF Inv, TypeOK, OffsetsBounded, PayloadBits, RidFits, FieldFits
-----------------------------------------------------------------------------
(* The invariant holds before the first item.                              *)
LEMMA InitInv == Init => Inv
<1> SUFFICES ASSUME Init PROVE Inv
  OBVIOUS
<1>1. rids = <<>> /\ stack = <<>> /\ todo = <<>> /\ read = <<>> /\ status = "PARSING"
      /\ anyId = FALSE /\ left = MaxFragments /\ report = NoReport
  BY DEF Init
<1>2. g \in Globals
  BY DEF Init, NoGlobals, Globals
<1>3. loc \in Locals /\ Len(loc.usages) <= MaxLocalUsages
  BY LimitsAssumption DEF Init, NoLocals, Locals
<1>4. layout \in Layouts
  BY DEF Init, NoLayout, Layouts, Absent, Field
<1>5. /\ stack \in Seq(Globals) /\ Len(stack) <= StackMax
      /\ rids \in Seq(RidStates) /\ Len(rids) <= MaxReportIds
      /\ todo \in Seq(Items) /\ read \in Seq(Items)
  BY <1>1, LimitsAssumption
<1>6. /\ left \in 0..MaxFragments /\ anyId \in BOOLEAN
      /\ status \in {"PARSING", "SUCCESS", "NOT_FOUND"} /\ report = NoReport
  <2>1. left = MaxFragments /\ MaxFragments \in Nat
    BY LimitsAssumption DEF Init
  <2>2. anyId \in BOOLEAN
    BY DEF Init
  <2>3. status = "PARSING" /\ report = NoReport
    BY DEF Init
  <2> QED BY <2>1, <2>2, <2>3
<1>7. TypeOK
  BY <1>2, <1>3, <1>4, <1>5, <1>6 DEF TypeOK
<1>8. OffsetsBounded
  BY <1>1 DEF OffsetsBounded
<1> QED BY <1>7, <1>8 DEF Inv

(* Every step keeps the invariant.                                         *)
LEMMA NextInv == Inv /\ [Next]_vars => Inv'
<1> SUFFICES ASSUME Inv, [Next]_vars PROVE Inv'
  OBVIOUS
<1>1. CASE Receive
  BY <1>1, ReceiveStep
<1>2. CASE GlobalItem
  BY <1>2, GlobalItemStep
<1>3. CASE ReportIdItem
  BY <1>3, ReportIdItemStep
<1>4. CASE Push
  BY <1>4, PushStep
<1>5. CASE Pop
  BY <1>5, PopStep
<1>6. CASE LocalItem
  BY <1>6, LocalItemStep
<1>7. CASE OtherItem
  <2>1. /\ todo' \in Seq(Items) /\ read' \in Seq(Items) /\ status = "PARSING"
        /\ UNCHANGED <<parser, result, left, report>>
    BY <1>7, ConsumeTypes DEF OtherItem, Next1, Inv, result
  <2> QED BY <2>1, RidsUntouched DEF Inv, TypeOK, parser, result
<1>8. CASE OtherMain
  BY <1>8, OtherMainStep
<1>9. CASE InputIgnored
  BY <1>9, InputIgnoredStep
<1>10. CASE InputSkipped
  BY <1>10, InputSkippedStep
<1>11. CASE InputFields
  BY <1>11, InputFieldsStep
<1>12. CASE Finish
  BY <1>12, FinishStep
<1>13. CASE TouchReport
  BY <1>13, TouchReportStep
<1>14. CASE UNCHANGED vars
  BY <1>14 DEF vars, parser, result, poll, Inv, TypeOK, OffsetsBounded,
     PayloadBits, RidFits, FieldFits
<1> QED
  BY <1>1, <1>2, <1>3, <1>4, <1>5, <1>6, <1>7, <1>8, <1>9, <1>10, <1>11, <1>12,
     <1>13, <1>14 DEF Next, Finished

(* Types, whatever the descriptor says.                                    *)
THEOREM HidParseTypes == Spec => []TypeOK
<1>1. Inv => TypeOK
  BY DEF Inv
<1> QED BY <1>1, InitInv, NextInv, PTL DEF Spec

(* For every wMaxInputLength I2cHidReadDescriptor lets through and every   *)
(* descriptor: products and positions do not wrap, fields do not overlap   *)
(* the end of the report, and the layout handed to TouchPoll lies within   *)
(* the payload.                                                            *)
THEOREM HidParseOffsets == Spec => []OffsetsBounded
<1>1. Inv => OffsetsBounded
  BY DEF Inv
<1> QED BY <1>1, InitInv, NextInv, PTL DEF Spec

-----------------------------------------------------------------------------
(* The bits of a report, and the number it is.                             *)

LEMMA DivMod ==
  ASSUME NEW a \in Int, NEW b \in Int, b > 0,
         NEW q \in Int, NEW r \in Int, q = a \div b, r = a % b
  PROVE  a = b * q + r
  BY SMT

LEMMA DivRule ==
  ASSUME NEW a \in Nat, NEW b \in Nat, b > 0
  PROVE  a \div b \in Nat /\ a % b \in 0..(b - 1) /\ a = b * (a \div b) + (a % b)
<1>1. a \div b \in Nat
  BY SMT
<1>2. a % b \in 0..(b - 1)
  BY SMT
<1>3. a \in Int /\ b \in Int /\ a \div b \in Int /\ a % b \in Int
  BY <1>1, <1>2
<1>4. a = b * (a \div b) + (a % b)
  <2> DEFINE q == a \div b
             r == a % b
  <2>1. q \in Int /\ r \in Int /\ q = a \div b /\ r = a % b
    BY <1>3
  <2> HIDE DEF q, r
  <2>2. a = b * q + r
    BY <1>3, <2>1, DivMod
  <2> QED
    BY <2>2 DEF q, r
<1> QED BY <1>1, <1>2, <1>4

(* Quotient and remainder are what they add up to. *)
LEMMA DivUnique ==
  ASSUME NEW q \in Nat, NEW b \in Nat, NEW r \in Nat, r < b
  PROVE  (b * q + r) \div b = q /\ (b * q + r) % b = r
<1> DEFINE a == b * q + r
<1>1. a \in Nat /\ b > 0
  <2>1. b * q \in Nat
    OBVIOUS
  <2> QED BY <2>1
<1> DEFINE u == a \div b
           v == a % b
<1>2. u \in Nat /\ v \in 0..(b - 1) /\ a = b * u + v
  <2> HIDE DEF a
  <2> QED BY <1>1, DivRule
<1> HIDE DEF u, v
<1>3. b * q + r = b * u + v
  BY <1>2
<1>4. u = q
  <2>1. CASE u < q
    <3>1. PICK d \in Nat : q = u + 1 + d
      <4>1. q - u - 1 \in Nat /\ q = u + 1 + (q - u - 1)
        BY <1>2, <2>1
      <4> QED BY <4>1
    <3>2. b * q = b * u + b + b * d /\ b * d \in Nat /\ b * u \in Nat
      BY <1>2, <3>1
    <3> QED BY <1>2, <1>3, <3>2
  <2>2. CASE q < u
    <3>1. PICK d \in Nat : u = q + 1 + d
      <4>1. u - q - 1 \in Nat /\ u = q + 1 + (u - q - 1)
        BY <1>2, <2>2
      <4> QED BY <4>1
    <3>2. b * u = b * q + b + b * d /\ b * d \in Nat /\ b * q \in Nat
      BY <1>2, <3>1
    <3> QED BY <1>2, <1>3, <3>2
  <2> QED BY <1>2, <2>1, <2>2
<1>5. v = r
  <2>1. b * q \in Nat
    OBVIOUS
  <2> QED BY <1>2, <1>3, <1>4, <2>1
<1> QED BY <1>4, <1>5 DEF u, v

LEMMA Pow2Sum ==
  ASSUME NEW m \in Nat, NEW n \in Nat
  PROVE  Pow2(m + n) = Pow2(m) * Pow2(n)
<1> DEFINE Good == {k \in 0..n : Pow2(m + k) = Pow2(m) * Pow2(k)}
<1>1. 0 \in Good
  BY Pow2Rule
<1>2. ASSUME NEW i \in 1..n, i - 1 \in Good PROVE i \in Good
  <2> DEFINE j == i - 1
  <2>1. j \in Nat /\ i = j + 1 /\ m + i = (m + j) + 1 /\ m + j \in Nat
    OBVIOUS
  <2>2. Pow2(m + j) = Pow2(m) * Pow2(j)
    BY <1>2
  <2> HIDE DEF j
  <2>3. Pow2(i) = 2 * Pow2(j) /\ Pow2(m + i) = 2 * Pow2(m + j)
    BY <2>1, Pow2Rule
  <2>4. Pow2(m) \in Nat /\ Pow2(j) \in Nat
    BY <2>1, Pow2Rule
  <2>5. 2 * (Pow2(m) * Pow2(j)) = Pow2(m) * (2 * Pow2(j))
    BY <2>4
  <2> QED BY <2>2, <2>3, <2>5
<1> HIDE DEF Good
<1>3. \A i \in 0..n : i \in Good
  BY <1>1, <1>2, StepByStep
<1>4. n \in Good
  BY <1>3
<1> QED BY <1>4 DEF Good

LEMMA Pow2Values == Pow2(1) = 2 /\ Pow2(8) = 256
<1>1. /\ Pow2(0 + 1) = 2 * Pow2(0) /\ Pow2(1 + 1) = 2 * Pow2(1) /\ Pow2(2 + 1) = 2 * Pow2(2)
      /\ Pow2(3 + 1) = 2 * Pow2(3) /\ Pow2(4 + 1) = 2 * Pow2(4) /\ Pow2(5 + 1) = 2 * Pow2(5)
      /\ Pow2(6 + 1) = 2 * Pow2(6) /\ Pow2(7 + 1) = 2 * Pow2(7)
  BY Pow2Rule
<1>2. /\ 0 + 1 = 1 /\ 1 + 1 = 2 /\ 2 + 1 = 3 /\ 3 + 1 = 4 /\ 4 + 1 = 5 /\ 5 + 1 = 6
      /\ 6 + 1 = 7 /\ 7 + 1 = 8
  OBVIOUS
<1> QED BY <1>1, <1>2, Pow2Rule

(* Shifting by m and then by n is shifting by m + n. *)
LEMMA ShiftTwice ==
  ASSUME NEW a \in Nat, NEW m \in Nat, NEW n \in Nat
  PROVE  (a \div Pow2(m)) \div Pow2(n) = a \div Pow2(m + n)
<1> DEFINE s == Pow2(m)
           t == Pow2(n)
<1>1. s \in Nat /\ t \in Nat /\ s > 0 /\ t > 0 /\ Pow2(m + n) = s * t
  BY Pow2Rule, Pow2Sum
<1> HIDE DEF s, t
<1> DEFINE q == a \div s
           r == a % s
<1>2. q \in Nat /\ r \in 0..(s - 1) /\ a = s * q + r
  BY <1>1, DivRule
<1> HIDE DEF q, r
<1> DEFINE u == q \div t
           v == q % t
<1>3. u \in Nat /\ v \in 0..(t - 1) /\ q = t * u + v
  BY <1>1, <1>2, DivRule
<1> HIDE DEF u, v
<1>4. a = (s * t) * u + (s * v + r)
  <2>1. s * (t * u + v) = (s * t) * u + s * v
    BY <1>1, <1>3
  <2>2. s * q = (s * t) * u + s * v
    BY <1>3, <2>1
  <2>3. s * q \in Nat /\ (s * t) * u \in Nat /\ s * v \in Nat
    BY <1>1, <1>2, <1>3
  <2> QED BY <1>2, <2>2, <2>3
<1>5. s * v + r \in Nat /\ s * v + r < s * t /\ s * t \in Nat
  <2>1. PICK d \in Nat : t = v + 1 + d
    <3>1. t - v - 1 \in Nat /\ t = v + 1 + (t - v - 1)
      BY <1>1, <1>3
    <3> QED BY <3>1
  <2>2. s * t = s * v + s + s * d /\ s * d \in Nat /\ s * v \in Nat
    BY <1>1, <1>3, <2>1
  <2> DEFINE st == s * t
             sv == s * v
             sd == s * d
  <2> HIDE DEF st, sv, sd
  <2>3. sv + r \in Nat /\ sv + r < st /\ st \in Nat
    BY <1>1, <1>2, <2>2 DEF st, sv, sd
  <2> QED BY <2>3 DEF st, sv
<1>6. ((s * t) * u + (s * v + r)) \div (s * t) = u
  BY <1>3, <1>5, DivUnique
<1>7. a \div (s * t) = u
  BY <1>4, <1>6
<1> QED BY <1>1, <1>7 DEF u, q, s, t

(* One more bit of a number. *)
LEMMA OneMoreBit ==
  ASSUME NEW a \in Nat, NEW n \in Nat
  PROVE  a % Pow2(n + 1) = (a % Pow2(n)) + ((a \div Pow2(n)) % 2) * Pow2(n)
<1> DEFINE s == Pow2(n)
<1>1. s \in Nat /\ s > 0 /\ Pow2(n + 1) = 2 * s
  BY Pow2Rule
<1> HIDE DEF s
<1> DEFINE q == a \div s
           r == a % s
<1>2. q \in Nat /\ r \in 0..(s - 1) /\ a = s * q + r
  BY <1>1, DivRule
<1> HIDE DEF q, r
<1> DEFINE u == q \div 2
           e == q % 2
<1>3. u \in Nat /\ e \in 0..1 /\ q = 2 * u + e
  BY <1>2, DivRule
<1> HIDE DEF u, e
<1>4. a = (2 * s) * u + (e * s + r)
  <2>1. s * (2 * u + e) = (2 * s) * u + e * s
    BY <1>1, <1>3
  <2>2. s * q = (2 * s) * u + e * s
    BY <1>3, <2>1
  <2>3. s * q \in Nat /\ (2 * s) * u \in Nat /\ e * s \in Nat
    BY <1>1, <1>2, <1>3
  <2> QED BY <1>2, <2>2, <2>3
<1>5. e * s + r \in Nat /\ e * s + r < 2 * s /\ 2 * s \in Nat
  <2>1. e * s \in {0, s}
    BY <1>1, <1>3
  <2> QED BY <1>1, <1>2, <2>1
<1>6. ((2 * s) * u + (e * s + r)) % (2 * s) = e * s + r
  BY <1>3, <1>5, DivUnique
<1>7. a % (2 * s) = e * s + r
  BY <1>4, <1>6
<1>8. e * s \in Int
  BY <1>1, <1>3
<1>9. e * s + r = r + e * s
  BY <1>2, <1>8
<1> QED BY <1>1, <1>7, <1>9 DEF e, q, r, s
(* The number the first n bytes of p are, the first the least significant. *)
Number(p, n) == Total([j \in 1..n |-> p[j] * Pow2(8 * (j - 1))], n)

LEMMA NumberRule ==
  ASSUME NEW p, NEW n \in Nat, \A j \in 1..n : p[j] \in 0..255
  PROVE  /\ Number(p, 0) = 0
         /\ \A k \in 0..(n - 1) :
              Number(p, k + 1) = Number(p, k) + p[k + 1] * Pow2(8 * k)
         /\ \A k \in 0..n : Number(p, k) \in Nat /\ Number(p, k) < Pow2(8 * k)
<1> DEFINE d(k) == [j \in 1..k |-> p[j] * Pow2(8 * (j - 1))]
<1>1. \A k : Number(p, k) = Total(d(k), k)
  BY DEF Number
<1>2. \A k \in Nat : \A j \in 1..k : d(k)[j] = p[j] * Pow2(8 * (j - 1))
  OBVIOUS
<1>3. \A k \in Nat : Total(d(k + 1), k) = Total(d(k), k)
  <2>1. SUFFICES ASSUME NEW k \in Nat PROVE Total(d(k + 1), k) = Total(d(k), k)
    OBVIOUS
  <2>2. k + 1 \in Nat /\ \A j \in 1..k : j \in 1..(k + 1)
    OBVIOUS
  <2>3. \A j \in 1..k : d(k + 1)[j] = d(k)[j]
    BY <1>2, <2>2
  <2> HIDE DEF d
  <2> QED BY <2>3, TotalSame
<1> HIDE DEF d
<1>4. Number(p, 0) = 0
  BY <1>1, TotalRule
<1>5. \A k \in Nat : Number(p, k + 1) = Number(p, k) + p[k + 1] * Pow2(8 * k)
  <2>1. SUFFICES ASSUME NEW k \in Nat
                 PROVE  Number(p, k + 1) = Number(p, k) + p[k + 1] * Pow2(8 * k)
    OBVIOUS
  <2>2. k + 1 \in Nat /\ k + 1 \in 1..(k + 1) /\ 8 * ((k + 1) - 1) = 8 * k
    OBVIOUS
  <2>3. d(k + 1)[k + 1] = p[k + 1] * Pow2(8 * k)
    BY <1>2, <2>2
  <2>4. Total(d(k + 1), k + 1) = Total(d(k + 1), k) + d(k + 1)[k + 1]
    BY TotalRule
  <2> QED BY <1>1, <1>3, <2>3, <2>4
<1> DEFINE Good == {k \in 0..n : Number(p, k) \in Nat /\ Number(p, k) < Pow2(8 * k)}
<1>6. 0 \in Good
  <2>1. 8 * 0 = 0
    OBVIOUS
  <2>2. Pow2(8 * 0) = 1
    BY <2>1, Pow2Rule
  <2> QED BY <1>4, <2>2
<1>7. ASSUME NEW i \in 1..n, i - 1 \in Good PROVE i \in Good
  <2> DEFINE j == i - 1
             s == Pow2(8 * j)
             a == Number(p, j)
             v == p[i]
  <2>1. j \in Nat /\ i = j + 1 /\ 8 * j \in Nat /\ 8 * i = 8 * j + 8
    OBVIOUS
  <2>2. s \in Nat /\ Pow2(8 * i) = s * 256
    <3>1. s \in Nat /\ Pow2(8 * i) = Pow2(8 * j + 8) /\ 8 \in Nat
      BY <2>1, Pow2Rule
    <3> QED BY <2>1, <3>1, Pow2Sum, Pow2Values
  <2>3. a \in Nat /\ a < s /\ v \in 0..255
    BY <1>7
  <2>4. Number(p, i) = a + v * s
    BY <1>5, <2>1
  <2> HIDE DEF a, s, v
  <2>5. v * s \in Nat /\ v * s <= 255 * s
    <3>1. PICK e \in Nat : 255 = v + e
      <4>1. 255 - v \in Nat /\ 255 = v + (255 - v)
        BY <2>3
      <4> QED BY <4>1
    <3>2. 255 * s = v * s + e * s /\ e * s \in Nat /\ v * s \in Nat
      <4>1. (v + e) * s = v * s + e * s
        BY <2>2, <2>3
      <4> QED BY <2>2, <2>3, <3>1, <4>1
    <3> QED BY <3>2
  <2> QED BY <2>2, <2>3, <2>4, <2>5
<1> HIDE DEF Good
<1>8. \A k \in 0..n : k \in Good
  BY <1>6, <1>7, StepByStep
<1>9. \A k \in 0..n : Number(p, k) \in Nat /\ Number(p, k) < Pow2(8 * k)
  BY <1>8 DEF Good
<1> QED BY <1>4, <1>5, <1>9

(* A byte in its place: below it a remainder, above it a multiple of 256.  *)
LEMMA ByteInNumber ==
  ASSUME NEW p, NEW n \in Nat, \A j \in 1..n : p[j] \in 0..255, NEW q \in 0..(n - 1)
  PROVE  \E h \in Nat : Number(p, n) \div Pow2(8 * q) = 256 * h + p[q + 1]
<1> DEFINE s == Pow2(8 * q)
           low == Number(p, q)
           v == p[q + 1]
           Is(k, h) == Number(p, k) = s * (256 * h + v) + low
           Good == {i \in 0..(n - 1 - q) : \E h \in Nat : Is(q + 1 + i, h)}
<1>1. /\ s \in Nat /\ low \in Nat /\ low < s /\ v \in 0..255 /\ s > 0
      /\ \A k \in 0..(n - 1) : Number(p, k + 1) = Number(p, k) + p[k + 1] * Pow2(8 * k)
  <2>1. q \in 0..n /\ q + 1 \in 1..n /\ 8 * q \in Nat
    OBVIOUS
  <2>2. s \in Nat /\ s > 0
    BY <2>1, Pow2Rule
  <2> QED BY <2>1, <2>2, NumberRule
<1>2. 0 \in Good
  <2>1. Number(p, q + 1) = low + v * s
    BY <1>1
  <2>2. s * (256 * 0 + v) = v * s
    BY <1>1
  <2>3. Is(q + 1 + 0, 0)
    BY <1>1, <2>1, <2>2
  <2>4. 0 \in 0..(n - 1 - q)
    OBVIOUS
  <2> QED BY <2>3, <2>4
<1>3. ASSUME NEW i \in 1..(n - 1 - q), i - 1 \in Good PROVE i \in Good
  <2> DEFINE k == q + i
             j == i - 1
             t == Pow2(8 * j)
             w == p[k + 1]
  <2>1. /\ k \in 0..(n - 1) /\ k = q + 1 + j /\ q + 1 + i = k + 1 /\ j \in Nat
        /\ 8 * k = 8 * q + (8 + 8 * j) /\ 8 * q \in Nat /\ 8 * j \in Nat
        /\ 8 + 8 * j \in Nat /\ 8 \in Nat
    OBVIOUS
  <2>2. PICK h \in Nat : Is(k, h)
    BY <1>3, <2>1
  <2>3. Pow2(8 * k) = s * (256 * t)
    BY <2>1, Pow2Sum, Pow2Values
  <2>4. Number(p, k + 1) = Number(p, k) + w * Pow2(8 * k)
    BY <1>1, <2>1
  <2>5. t \in Nat /\ w \in Nat
    <3>1. k + 1 \in 1..n
      BY <2>1
    <3>2. w \in 0..255
      BY <3>1
    <3>3. w \in Nat
      BY <3>2
    <3> HIDE DEF w, j, k
    <3> QED BY <2>1, <3>3, Pow2Rule
  <2> HIDE DEF k, j, s, t, w, low, v
  <2>6. w * (s * (256 * t)) = s * (256 * (w * t))
    BY <1>1, <2>5
  <2>7. h + w * t \in Nat
    BY <2>5
  <2>8. s * (256 * (h + w * t) + v) = s * (256 * h + v) + s * (256 * (w * t))
    BY <1>1, <2>5
  <2>9. s * (256 * h + v) \in Nat /\ s * (256 * (w * t)) \in Nat
    BY <1>1, <2>5
  <2>10. Is(k + 1, h + w * t)
    BY <1>1, <2>2, <2>3, <2>4, <2>6, <2>8, <2>9
  <2> HIDE DEF Is
  <2> QED BY <2>1, <2>7, <2>10
<1> HIDE DEF Good
<1>4. n - 1 - q \in Nat /\ q + 1 + (n - 1 - q) = n
  OBVIOUS
<1>5. n - 1 - q \in Good
  <2>1. \A i \in 0..(n - 1 - q) : i \in Good
    BY <1>2, <1>3, <1>4, StepByStep
  <2> QED BY <1>4, <2>1
<1>6. PICK h \in Nat : Is(n, h)
  BY <1>4, <1>5 DEF Good
<1> HIDE DEF s, low, v
<1>7. 256 * h + v \in Nat
  BY <1>1
<1>8. (s * (256 * h + v) + low) \div s = 256 * h + v
  BY <1>1, <1>7, DivUnique
<1> QED BY <1>6, <1>8 DEF s, v

(* A bit of the number is that bit of the byte it lies in. *)
LEMMA BitInNumber ==
  ASSUME NEW p, NEW n \in Nat, \A j \in 1..n : p[j] \in 0..255, NEW m \in Nat
  PROVE  Bit(p, n, m) = (Number(p, n) \div Pow2(m)) % 2
<1> DEFINE q == m \div 8
           r == m % 8
           a == Number(p, n)
<1>1. q \in Nat /\ r \in 0..7 /\ m = 8 * q + r
  BY DivRule
<1>2. a \in Nat /\ a < Pow2(8 * n)
  <2>1. n \in 0..n
    OBVIOUS
  <2> QED BY <2>1, NumberRule
<1>3. Bit(p, n, m) = IF q >= n THEN 0 ELSE (p[q + 1] \div Pow2(r)) % 2
  BY DEF Bit
<1> HIDE DEF q, r, a
<1>4. CASE q >= n
  <2>1. PICK d \in Nat : m = 8 * n + d
    <3>1. m - 8 * n \in Nat /\ m = 8 * n + (m - 8 * n)
      BY <1>1, <1>4
    <3> QED BY <3>1
  <2>2. a \div Pow2(8 * n) = 0
    <3>1. Pow2(8 * n) \in Nat /\ Pow2(8 * n) * 0 + a = a
      BY <1>2, Pow2Rule
    <3> QED BY <1>2, <3>1, DivUnique
  <2>3. 8 * n \in Nat
    OBVIOUS
  <2>4. a \div Pow2(m) = 0 \div Pow2(d)
    BY <1>2, <2>1, <2>2, <2>3, ShiftTwice
  <2>5. 0 \div Pow2(d) = 0
    <3>1. Pow2(d) \in Nat /\ Pow2(d) > 0
      BY Pow2Rule
    <3>2. Pow2(d) * 0 + 0 = 0
      BY <3>1
    <3> QED BY <3>1, <3>2, DivUnique
  <2> QED BY <1>3, <1>4, <2>4, <2>5 DEF a
<1>5. CASE ~(q >= n)
  <2> DEFINE v == p[q + 1]
             s == Pow2(r)
             t == Pow2(7 - r)
  <2>1. q \in 0..(n - 1) /\ q + 1 \in 1..n
    BY <1>1, <1>5
  <2>2. PICK h \in Nat : a \div Pow2(8 * q) = 256 * h + v
    BY <2>1, ByteInNumber DEF a
  <2>3. v \in 0..255 /\ 8 * q \in Nat /\ r \in Nat /\ 7 - r \in Nat
    BY <1>1, <2>1
  <2>4. a \div Pow2(m) = (256 * h + v) \div s
    BY <1>1, <1>2, <2>2, <2>3, ShiftTwice
  <2>5. s \in Nat /\ s > 0 /\ t \in Nat /\ 256 = s * (2 * t)
    <3>1. r + ((7 - r) + 1) = 8 /\ (7 - r) + 1 \in Nat
      BY <2>3
    <3>2. Pow2((7 - r) + 1) = 2 * t
      BY <2>3, Pow2Rule
    <3>3. Pow2(r + ((7 - r) + 1)) = s * Pow2((7 - r) + 1)
      BY <2>3, <3>1, Pow2Sum
    <3> QED BY <2>3, <3>1, <3>2, <3>3, Pow2Rule, Pow2Values
  <2> HIDE DEF v, s, t
  <2> DEFINE u == v \div s
             w == v % s
  <2>6. u \in Nat /\ w \in 0..(s - 1) /\ v = s * u + w
    BY <2>3, <2>5, DivRule
  <2> HIDE DEF u, w
  <2>7. 256 * h + v = s * (2 * (t * h) + u) + w
    <3>1. 256 * h = s * (2 * (t * h))
      <4>1. (s * (2 * t)) * h = s * (2 * (t * h))
        BY <2>5
      <4> QED BY <2>5, <4>1
    <3>2. s * (2 * (t * h) + u) = s * (2 * (t * h)) + s * u
      BY <2>5, <2>6
    <3>3. s * (2 * (t * h)) \in Nat /\ s * u \in Nat
      BY <2>5, <2>6
    <3> QED BY <2>6, <3>1, <3>2, <3>3
  <2>8. (256 * h + v) \div s = 2 * (t * h) + u
    <3>1. 2 * (t * h) + u \in Nat
      BY <2>5, <2>6
    <3> QED BY <2>5, <2>6, <2>7, <3>1, DivUnique
  <2>9. (2 * (t * h) + u) % 2 = u % 2
    <3> DEFINE x == u \div 2
               e == u % 2
               th == t * h
    <3>1. x \in Nat /\ e \in 0..1 /\ u = 2 * x + e /\ th \in Nat
      BY <2>5, <2>6, DivRule
    <3> HIDE DEF x, e, th
    <3>2. 2 * th + u = 2 * (th + x) + e /\ th + x \in Nat /\ e \in Nat /\ e < 2
      BY <3>1
    <3>3. (2 * (th + x) + e) % 2 = e
      BY <3>2, DivUnique
    <3> QED BY <3>2, <3>3 DEF e, th
  <2> QED BY <1>3, <1>5, <2>4, <2>8, <2>9 DEF a, u, v, s
<1> QED BY <1>4, <1>5

(* HidExtractBits takes the quotient and remainder by powers of two. *)
LEMMA ExtractIs ==
  ASSUME NEW p, NEW n \in Nat, \A j \in 1..n : p[j] \in 0..255,
         NEW off \in Nat, NEW count \in Nat
  PROVE  HidExtractBits(p, n, off, count) =
           (Number(p, n) \div Pow2(off)) % Pow2(Lesser(count, WordBits))
<1> DEFINE c == Lesser(count, WordBits)
           a == Number(p, n)
           b == a \div Pow2(off)
           d == [i \in 1..c |-> Bit(p, n, off + i - 1) * Pow2(i - 1)]
           Good == {k \in 0..c : Total(d, k) = b % Pow2(k)}
<1>1. c \in Nat /\ HidExtractBits(p, n, off, count) = Total(d, c)
  BY LimitsAssumption DEF HidExtractBits, Lesser
<1>2. a \in Nat
  BY NumberRule
<1>3. b \in Nat
  BY <1>2, DivRule, Pow2Rule
<1>4. \A i \in 1..c : d[i] = Bit(p, n, off + i - 1) * Pow2(i - 1)
  BY <1>1
<1> HIDE DEF a, c, d
<1>5. 0 \in Good
  <2>1. b % 1 = 0
    BY <1>3, DivRule
  <2> QED BY <1>1, <2>1, TotalRule, Pow2Rule
<1>6. ASSUME NEW i \in 1..c, i - 1 \in Good PROVE i \in Good
  <2> DEFINE j == i - 1
  <2>1. j \in Nat /\ i = j + 1 /\ off + i - 1 = off + j /\ off + j \in Nat
    OBVIOUS
  <2>2. Total(d, i) = Total(d, j) + d[i]
    BY <2>1, TotalRule
  <2>3. Bit(p, n, off + j) = (a \div Pow2(off + j)) % 2
    BY <2>1, BitInNumber DEF a
  <2>4. a \div Pow2(off + j) = b \div Pow2(j)
    BY <1>2, <2>1, ShiftTwice
  <2>5. d[i] = ((b \div Pow2(j)) % 2) * Pow2(j)
    BY <1>4, <2>1, <2>3, <2>4
  <2>6. b % Pow2(j + 1) = (b % Pow2(j)) + ((b \div Pow2(j)) % 2) * Pow2(j)
    BY <1>3, <2>1, OneMoreBit
  <2>7. Total(d, j) = b % Pow2(j)
    BY <1>6
  <2> HIDE DEF b, j
  <2> QED BY <2>1, <2>2, <2>5, <2>6, <2>7
<1> HIDE DEF Good
<1>7. \A k \in 0..c : k \in Good
  BY <1>1, <1>5, <1>6, StepByStep
<1>8. c \in Good
  BY <1>1, <1>7
<1> QED BY <1>1, <1>8 DEF Good, a, c

(* The fields TouchPoll takes. *)
Placed ==
  status = "SUCCESS" => \A f \in {layout.tip, layout.x, layout.y} : f.off \in Nat

(* The payload read as one number. *)
LEMMA PayloadIs ==
  ASSUME NEW rep \in Reports, rep.len >= 3, rep.len <= MaxInputLength,
         NEW skip, skip = IF layout.hasId THEN 1 ELSE 0
  PROVE  LET p == SubSeq(rep.data, 1 + skip, MaxInputLength - 2)
             n == rep.len - 2 - skip
         IN  /\ n \in Nat /\ \A j \in 1..n : p[j] \in 0..255
             /\ PayloadValue(rep) = Number(p, n)
<1> DEFINE last == MaxInputLength - 2
           p == SubSeq(rep.data, 1 + skip, last)
           n == rep.len - 2 - skip
           d == [i \in 1..(rep.len - 2) |->
                   IF i < skip + 1 THEN 0 ELSE rep.data[i] * Pow2(8 * (i - (skip + 1)))]
           e == [j \in 1..n |-> p[j] * Pow2(8 * (j - 1))]
<1>1. last \in Nat \ {0} /\ skip \in {0, 1} /\ rep.len \in Nat /\ MaxInputLength \in Nat
  BY LengthAssumption, ReportsAssumption
<1>2. n \in Nat /\ n + skip <= last /\ n + skip = rep.len - 2
  BY <1>1
<1>3. \A i \in 1..last : rep.data[i] \in 0..255
  <2>1. rep.data \in [1..last -> 0..255]
    BY ReportsAssumption
  <2> HIDE DEF last
  <2> QED BY <2>1
<1>4. \A j \in 1..n : p[j] = rep.data[j + skip]
  <2>1. rep.data \in Seq(0..255) /\ Len(rep.data) = last
    <3>1. rep.data \in [1..last -> 0..255]
      BY ReportsAssumption
    <3> HIDE DEF last
    <3> QED BY <1>1, <3>1
  <2>2. \A j \in 1..n : j \in 1..(last - skip)
    BY <1>1, <1>2
  <2> HIDE DEF n, last
  <2> QED BY <1>1, <2>1, <2>2
<1>5. \A j \in 1..n : p[j] \in 0..255
  <2>1. \A j \in 1..n : j + skip \in 1..last
    BY <1>1, <1>2
  <2> HIDE DEF p, n, last
  <2> QED BY <1>3, <1>4, <2>1
<1>6. PayloadValue(rep) = Total(d, n + skip)
  <2>1. (IF layout.hasId THEN 2 ELSE 1) = skip + 1
    OBVIOUS
  <2> QED BY <1>2, <2>1 DEF PayloadValue
<1>7. /\ \A i \in 1..skip : d[i] = 0
      /\ \A j \in 1..n : d[j + skip] = p[j] * Pow2(8 * (j - 1))
  <2>1. \A i \in 1..(rep.len - 2) :
          d[i] = IF i < skip + 1 THEN 0 ELSE rep.data[i] * Pow2(8 * (i - (skip + 1)))
    OBVIOUS
  <2>2. \A i \in 1..skip : i \in 1..(rep.len - 2) /\ i < skip + 1
    BY <1>1, <1>2
  <2>3. \A j \in 1..n : /\ j + skip \in 1..(rep.len - 2) /\ ~(j + skip < skip + 1)
                        /\ j + skip - (skip + 1) = j - 1
    BY <1>1, <1>2
  <2> HIDE DEF d, p, n
  <2> QED BY <1>4, <2>1, <2>2, <2>3
<1>8. Number(p, n) = Total(e, n)
  BY DEF Number
<1>9. \A j \in 1..n : e[j] = p[j] * Pow2(8 * (j - 1))
  OBVIOUS
<1> HIDE DEF d, e, p, n
<1>10. Total(d, skip) = 0
  <2>1. CASE skip = 0
    BY <2>1, TotalRule
  <2>2. CASE skip = 1
    <3>1. Total(d, 0 + 1) = Total(d, 0) + d[0 + 1]
      BY TotalRule
    <3>2. d[1] = 0
      BY <1>7, <2>2
    <3> QED BY <2>2, <3>1, <3>2, TotalRule
  <2> QED BY <1>1, <2>1, <2>2
<1> DEFINE Good == {k \in 0..n : Total(d, k + skip) = Total(e, k)}
<1>11. 0 \in Good
  <2>1. 0 + skip = skip
    BY <1>1
  <2> QED BY <1>2, <1>10, <2>1, TotalRule
<1>12. ASSUME NEW i \in 1..n, i - 1 \in Good PROVE i \in Good
  <2> DEFINE j == i - 1
  <2>1. j \in Nat /\ i = j + 1 /\ i + skip = (j + skip) + 1 /\ j + skip \in Nat
    BY <1>1, <1>2
  <2>2. Total(d, i + skip) = Total(d, j + skip) + d[i + skip]
    BY <2>1, TotalRule
  <2>3. Total(e, i) = Total(e, j) + e[i]
    BY <2>1, TotalRule
  <2>4. d[i + skip] = e[i]
    BY <1>7, <1>9
  <2> QED BY <1>12, <2>2, <2>3, <2>4
<1> HIDE DEF Good
<1>13. \A i \in 0..n : i \in Good
  BY <1>2, <1>11, <1>12, StepByStep
<1>14. n \in Good
  BY <1>2, <1>13
<1>15. PayloadValue(rep) = Number(p, n)
  BY <1>6, <1>8, <1>14 DEF Good
<1> QED BY <1>2, <1>5, <1>15 DEF p, n

(* What TouchPoll takes is what the bits of the report say. *)
Expected(rep) ==
  [tip |-> FieldValue(rep, layout.tip, 1) = 1,
   x |-> Lesser(FieldValue(rep, layout.x, layout.x.bits), Limit(layout.x)),
   y |-> Lesser(FieldValue(rep, layout.y, layout.y.bits), Limit(layout.y))]

LEMMA TouchIsExpected ==
  ASSUME layout \in Layouts, Placed, status = "SUCCESS", NEW rep \in Reports, Accepted(rep)
  PROVE  TouchOf(rep) = Expected(rep)
<1> DEFINE skip == IF layout.hasId THEN 1 ELSE 0
           p == SubSeq(rep.data, 1 + skip, MaxInputLength - 2)
           n == rep.len - 2 - skip
<1>1. n \in Nat /\ (\A j \in 1..n : p[j] \in 0..255) /\ PayloadValue(rep) = Number(p, n)
  <2>1. rep.len >= 3 /\ rep.len <= MaxInputLength
    BY DEF Accepted
  <2> QED BY <2>1, PayloadIs
<1>2. \A f \in {layout.tip, layout.x, layout.y} : f.off \in Nat /\ f.bits \in Nat
  BY DEF Placed, Layouts, Field
<1> HIDE DEF p, n
<1>3. ASSUME NEW f, f.off \in Nat, NEW count \in Nat
      PROVE  HidExtractBits(p, n, f.off, count) = FieldValue(rep, f, count)
  <2>1. HidExtractBits(p, n, f.off, count)
          = (Number(p, n) \div Pow2(f.off)) % Pow2(Lesser(count, WordBits))
    BY <1>1, <1>3, ExtractIs
  <2> QED BY <1>1, <2>1 DEF FieldValue
<1>4. /\ HidExtractBits(p, n, layout.tip.off, 1) = FieldValue(rep, layout.tip, 1)
      /\ HidExtractBits(p, n, layout.x.off, layout.x.bits) = FieldValue(rep, layout.x, layout.x.bits)
      /\ HidExtractBits(p, n, layout.y.off, layout.y.bits) = FieldValue(rep, layout.y, layout.y.bits)
  BY <1>2, <1>3
<1>5. FieldValue(rep, layout.tip, 1) \in {0, 1}
  <2> DEFINE b == PayloadValue(rep) \div Pow2(layout.tip.off)
  <2>1. Number(p, n) \in Nat
    <3>1. n \in 0..n
      BY <1>1
    <3> QED BY <1>1, <3>1, NumberRule
  <2>2. b \in Nat
    BY <1>1, <1>2, <2>1, DivRule, Pow2Rule
  <2> HIDE DEF b
  <2>3. Lesser(1, WordBits) \in {0, 1}
    BY LimitsAssumption DEF Lesser
  <2>4. Pow2(Lesser(1, WordBits)) \in {1, 2}
    BY <2>3, Pow2Rule, Pow2Values
  <2>5. b % 1 \in 0..0 /\ b % 2 \in 0..1
    BY <2>2, DivRule
  <2>6. FieldValue(rep, layout.tip, 1) = b % Pow2(Lesser(1, WordBits))
    BY DEF FieldValue, b
  <2> QED BY <2>4, <2>5, <2>6
<1>6. TouchOf(rep) =
        [tip |-> HidExtractBits(p, n, layout.tip.off, 1) # 0,
         x |-> Lesser(HidExtractBits(p, n, layout.x.off, layout.x.bits), Limit(layout.x)),
         y |-> Lesser(HidExtractBits(p, n, layout.y.off, layout.y.bits), Limit(layout.y))]
  BY DEF TouchOf, p, n
<1>7. (HidExtractBits(p, n, layout.tip.off, 1) # 0) = (FieldValue(rep, layout.tip, 1) = 1)
  BY <1>4, <1>5
<1> QED BY <1>4, <1>6, <1>7 DEF Expected

-----------------------------------------------------------------------------
(* The bytes behind a report.                                              *)

LEMMA BitInside ==
  ASSUME NEW d1, NEW d2, NEW len \in Int, NEW n \in Nat,
         \A i \in 1..len : d1[i] = d2[i]
  PROVE  Bit(d1, len, n) = Bit(d2, len, n)
<1>1. n \div 8 \in Nat
  BY SMT
<1>2. CASE n \div 8 >= len
  BY <1>2 DEF Bit
<1>3. CASE ~(n \div 8 >= len)
  <2>1. (n \div 8) + 1 \in 1..len
    BY <1>1, <1>3
  <2>2. d1[(n \div 8) + 1] = d2[(n \div 8) + 1]
    BY <2>1
  <2> QED
    BY <2>2, Zenon DEF Bit
<1> QED
  BY <1>2, <1>3

LEMMA ExtractInside ==
  ASSUME NEW d1, NEW d2, NEW len \in Int, NEW off \in Nat, NEW count,
         \A i \in 1..len : d1[i] = d2[i]
  PROVE  HidExtractBits(d1, len, off, count) = HidExtractBits(d2, len, off, count)
<1> DEFINE c == Lesser(count, WordBits)
           bits(d) == [n \in 1..c |-> Bit(d, len, off + n - 1) * Pow2(n - 1)]
<1>1. ASSUME NEW n \in 1..c
      PROVE  Bit(d1, len, off + n - 1) = Bit(d2, len, off + n - 1)
  <2>1. off + n - 1 \in Nat
    OBVIOUS
  <2> QED
    BY <2>1, BitInside
<1>2. bits(d1) = bits(d2)
  BY <1>1
<1>3. \A d : HidExtractBits(d, len, off, count) = Total(bits(d), c)
  BY DEF HidExtractBits
<1> HIDE DEF bits
<1> QED
  BY <1>2, <1>3

LEMMA PlacedStep ==
  ASSUME Inv, Placed, [Next]_vars
  PROVE  Placed'
<1>1. CASE Finish
  <2> DEFINE usable == {i \in DOMAIN rids : Usable(rids[i])}
             first == CHOOSE i \in usable : \A j \in usable : i <= j
  <2>1. SUFFICES ASSUME status' = "SUCCESS" PROVE Placed'
    BY DEF Placed
  <2>2. /\ usable # {}
        /\ layout' = [hasId |-> anyId, id |-> rids[first].id, tip |-> rids[first].tip,
                      x |-> rids[first].x, y |-> rids[first].y]
    BY <1>1, <2>1 DEF Finish
  <2>3. rids \in Seq(RidStates)
    BY DEF Inv, TypeOK
  <2>4. first \in usable
    <3>1. usable \subseteq Nat
      BY <2>3
    <3> HIDE DEF usable
    <3> QED
      BY <2>2, <3>1, LeastElement
  <2>5. rids[first] \in RidStates /\ Usable(rids[first])
    BY <2>3, <2>4
  <2> HIDE DEF first, usable
  <2>6. \A f \in {rids[first].tip, rids[first].x, rids[first].y} : f \in Field /\ f.off >= 0
    BY <2>5 DEF RidStates, Usable, Inside
  <2> QED
    BY <2>2, <2>6 DEF Placed, Field
<1>2. CASE UNCHANGED result
  BY <1>2 DEF Placed, result
<1>3. CASE TouchReport
  BY <1>2, <1>3 DEF TouchReport
<1>4. [Next]_vars => Finish \/ UNCHANGED result
  BY DEF Next, Finished, Receive, GlobalItem, ReportIdItem, Push, Pop, LocalItem, OtherItem,
     OtherMain, InputIgnored, InputSkipped, InputFields, TouchReport, Consume, vars
<1> QED
  BY <1>1, <1>2, <1>4

(* InputBuf is read into again and again: two buffers that agree on the    *)
(* report give the same touch, whatever older reports have left behind it. *)
Buffers == [1..(MaxInputLength - 2) -> 0..255]
StaleBytesIgnored ==
  status = "SUCCESS" =>
    \A len \in Nat : \A d1, d2 \in Buffers :
      (\A i \in DOMAIN d1 : i <= len - 2 => d1[i] = d2[i]) =>
        TouchOf([len |-> len, data |-> d1]) = TouchOf([len |-> len, data |-> d2])

LEMMA TouchInside ==
  ASSUME TypeOK, Placed
  PROVE  StaleBytesIgnored
<1>1. SUFFICES ASSUME status = "SUCCESS", NEW len \in Nat,
                      NEW d1 \in Buffers, NEW d2 \in Buffers,
                      \A i \in DOMAIN d1 : i <= len - 2 => d1[i] = d2[i]
               PROVE  TouchOf([len |-> len, data |-> d1]) = TouchOf([len |-> len, data |-> d2])
  BY DEF StaleBytesIgnored
<1> DEFINE r1 == [len |-> len, data |-> d1]
           r2 == [len |-> len, data |-> d2]
           skip == IF layout.hasId THEN 1 ELSE 0
           last == MaxInputLength - 2
           p1 == SubSeq(d1, 1 + skip, last)
           p2 == SubSeq(d2, 1 + skip, last)
<1>2. last \in Nat \ {0} /\ skip \in {0, 1} /\ MaxInputLength \in Nat
  BY LengthAssumption
<1>3. Accepted(r1) <=> Accepted(r2)
  <2>1. len >= 3 => d1[1] = d2[1]
    BY <1>1, <1>2 DEF Buffers
  <2> QED
    BY <2>1 DEF Accepted
<1>4. CASE ~Accepted(r1)
  BY <1>3, <1>4 DEF TouchOf
<1>5. CASE Accepted(r1)
  <2>1. len \in 3..MaxInputLength
    BY <1>2, <1>5 DEF Accepted
  <2>2. \A i \in 1..(len - 2 - skip) : p1[i] = p2[i]
    <3>1. SUFFICES ASSUME NEW i \in 1..(len - 2 - skip) PROVE p1[i] = p2[i]
      OBVIOUS
    <3>2. d1 \in Seq(0..255) /\ d2 \in Seq(0..255) /\ Len(d1) = last /\ Len(d2) = last
      <4>1. d1 \in [1..last -> 0..255] /\ d2 \in [1..last -> 0..255]
        BY DEF Buffers
      <4> HIDE DEF last
      <4> QED
        BY <1>2, <4>1
    <3>3. i + skip \in 1..last /\ i + skip <= len - 2 /\ i \in 1..(last - skip)
      BY <1>2, <2>1
    <3>4. d1[i + skip] = d2[i + skip]
      BY <1>1, <3>3 DEF Buffers
    <3>5. p1[i] = d1[i + skip] /\ p2[i] = d2[i + skip]
      BY <1>2, <3>2, <3>3
    <3> HIDE DEF p1, p2, skip
    <3> QED
      BY <3>4, <3>5
  <2>3. len - 2 - skip \in Int
    BY <1>2
  <2>4. \A f \in {layout.tip, layout.x, layout.y} : f.off \in Nat
    BY <1>1 DEF Placed
  <2> DEFINE end == len - 2 - skip
  <2> HIDE DEF p1, p2, skip, last, end
  <2>5. \A f \in {layout.tip, layout.x, layout.y} : \A n :
          HidExtractBits(p1, end, f.off, n) = HidExtractBits(p2, end, f.off, n)
    <3>1. end \in Int /\ \A i \in 1..end : p1[i] = p2[i]
      BY <2>2, <2>3 DEF end
    <3>2. ASSUME NEW f \in {layout.tip, layout.x, layout.y}, NEW n
          PROVE  HidExtractBits(p1, end, f.off, n) = HidExtractBits(p2, end, f.off, n)
      <4>1. f.off \in Nat
        BY <2>4
      <4> QED
        BY <3>1, <4>1, ExtractInside
    <3> QED
      BY <3>2
  <2> USE DEF p1, p2, skip, last, end
  <2> QED
    BY <1>3, <1>5, <2>5 DEF TouchOf
<1> QED
  BY <1>4, <1>5

(* What TouchPoll takes from a report never depends on what the buffer     *)
(* holds behind it, for any descriptor, layout and length.                 *)
THEOREM NoStaleBytes == Spec => []StaleBytesIgnored
<1>1. Init => Placed
  BY DEF Init, Placed
<1>2. Inv /\ Placed /\ [Next]_vars => Placed'
  BY PlacedStep
<1>3. Inv /\ Placed => StaleBytesIgnored
  BY TouchInside DEF Inv
<1> QED
  BY <1>1, <1>2, <1>3, InitInv, NextInv, PTL DEF Spec

-----------------------------------------------------------------------------
(* A touch is the report it was taken from.                                *)

TouchTaken == report # NoReport => status = "SUCCESS" /\ report \in Reports /\ touch = TouchOf(report)

LEMMA TouchTakenStep ==
  ASSUME Inv, TouchTaken, [Next]_vars
  PROVE  TouchTaken'
<1>1. CASE TouchReport
  <2>1. PICK rep \in Reports : report' = rep /\ touch' = TouchOf(rep)
    BY <1>1 DEF TouchReport
  <2>2. status = "SUCCESS" /\ status' = status /\ layout' = layout
    BY <1>1 DEF TouchReport, result
  <2>3. TouchOf(report)' = TouchOf(rep)
    BY <2>1, <2>2 DEF TouchOf, Accepted
  <2> QED
    BY <2>1, <2>2, <2>3 DEF TouchTaken
<1>2. CASE UNCHANGED <<status, layout, touch, report>>
  BY <1>2 DEF TouchTaken, TouchOf, Accepted
<1>3. CASE status = "PARSING" /\ UNCHANGED <<touch, report>>
  BY <1>3 DEF TouchTaken
<1>4. TouchReport \/ UNCHANGED <<status, layout, touch, report>>
      \/ (status = "PARSING" /\ UNCHANGED <<touch, report>>)
  BY DEF Next, Finished, Receive, GlobalItem, ReportIdItem, Push, Pop, LocalItem, OtherItem,
     OtherMain, InputIgnored, InputSkipped, InputFields, Finish, Consume, vars, result, poll
<1> QED
  BY <1>1, <1>2, <1>3, <1>4

(* TouchPoll takes the bits the layout names of the report it has read, as *)
(* numbers and within the logical range, whatever layout and report are;   *)
(* what is no touch report of that layout it drops.                        *)
THEOREM FieldsAlwaysExtracted == Spec => []FieldsExtracted
<1>1. Init => Placed /\ TouchTaken
  BY DEF Init, Placed, TouchTaken
<1>2. Inv /\ Placed /\ TouchTaken /\ [Next]_vars => Placed' /\ TouchTaken'
  BY PlacedStep, TouchTakenStep
<1>3. Inv /\ Placed /\ TouchTaken => FieldsExtracted
  <2>1. SUFFICES ASSUME Inv, Placed, TouchTaken, report # NoReport
                 PROVE  FieldsExtracted
    BY DEF FieldsExtracted
  <2>2. status = "SUCCESS" /\ report \in Reports /\ touch = TouchOf(report)
    BY <2>1 DEF TouchTaken
  <2>3. layout \in Layouts
    BY <2>1 DEF Inv, TypeOK
  <2>4. report.len \in Nat /\ MaxInputLength \in Nat
    BY <2>2, ReportsAssumption, LengthAssumption
  <2>5. Accepted(report) <=> ~(report.len \notin 3..MaxInputLength
                               \/ (layout.hasId /\ report.data[1] # layout.id))
    BY <2>4 DEF Accepted
  <2>6. CASE ~Accepted(report)
    BY <2>2, <2>5, <2>6 DEF FieldsExtracted, TouchOf
  <2>7. CASE Accepted(report)
    <3>1. touch = Expected(report)
      BY <2>1, <2>2, <2>3, <2>7, TouchIsExpected
    <3> QED
      BY <2>5, <2>7, <3>1 DEF FieldsExtracted, Expected
  <2> QED
    BY <2>6, <2>7
<1> QED
  BY <1>1, <1>2, <1>3, InitInv, NextInv, PTL DEF Spec

-----------------------------------------------------------------------------
(* Counting positions.                                                     *)

(* A count grows by one at every position of the set it counts. *)
LEMMA CountRule ==
  ASSUME NEW S
  PROVE  /\ Count(S, 0) = 0
         /\ \A n \in Nat : Count(S, n + 1) = Count(S, n) + (IF n + 1 \in S THEN 1 ELSE 0)
<1> DEFINE d == [i \in Nat |-> IF i \in S THEN 1 ELSE 0]
<1>1. ASSUME NEW n \in Nat PROVE Count(S, n) = Total(d, n)
  <2> DEFINE e == [i \in 1..n |-> IF i \in S THEN 1 ELSE 0]
  <2>1. \A i \in 1..n : e[i] = d[i]
    OBVIOUS
  <2>2. Count(S, n) = Total(e, n)
    BY DEF Count
  <2> HIDE DEF d, e
  <2> QED
    BY <2>1, <2>2, TotalSame
<1>2. \A n \in Nat : d[n + 1] = IF n + 1 \in S THEN 1 ELSE 0
  OBVIOUS
<1> HIDE DEF d
<1> QED
  BY <1>1, <1>2, TotalRule

(* A count is a natural number.                                            *)
LEMMA CountType ==
  ASSUME NEW S, NEW n \in Nat
  PROVE  Count(S, n) \in Nat
<1> DEFINE Good == {k \in 0..n : Count(S, k) \in Nat}
<1>1. 0 \in Good
  BY CountRule
<1>2. ASSUME NEW i \in 1..n, i - 1 \in Good PROVE i \in Good
  <2>1. i - 1 \in Nat /\ (i - 1) + 1 = i
    OBVIOUS
  <2>2. Count(S, i) = Count(S, i - 1) + (IF i \in S THEN 1 ELSE 0)
    BY <2>1, CountRule
  <2> QED BY <1>2, <2>2
<1> HIDE DEF Good
<1>3. \A i \in 0..n : i \in Good
  BY <1>1, <1>2, StepByStep
<1>4. n \in Good
  BY <1>3
<1> QED BY <1>4 DEF Good

(* A later count is no smaller, and larger when a member is counted.       *)
LEMMA CountGrows ==
  ASSUME NEW S, NEW m \in Nat, NEW n \in Nat, m <= n
  PROVE  Count(S, m) <= Count(S, n) /\ (m < n /\ n \in S => Count(S, m) < Count(S, n))
<1> DEFINE Good == {k \in 0..n : m <= k => /\ Count(S, m) <= Count(S, k)
                                           /\ m < k /\ k \in S => Count(S, m) < Count(S, k)}
<1>1. 0 \in Good
  <2>1. Count(S, m) \in Nat
    BY CountType
  <2>2. m <= 0 => m = 0
    OBVIOUS
  <2> QED BY <2>1, <2>2
<1>2. ASSUME NEW i \in 1..n, i - 1 \in Good PROVE i \in Good
  <2>1. i - 1 \in Nat /\ (i - 1) + 1 = i
    OBVIOUS
  <2>2. Count(S, i) = Count(S, i - 1) + (IF i \in S THEN 1 ELSE 0)
    BY <2>1, CountRule
  <2>3. Count(S, m) \in Nat /\ Count(S, i - 1) \in Nat
    BY <2>1, CountType
  <2>4. m <= i => m = i \/ m <= i - 1
    OBVIOUS
  <2>5. m <= i - 1 => Count(S, m) <= Count(S, i - 1)
    BY <1>2
  <2>6. m = i => Count(S, m) <= Count(S, i) /\ ~ (m < i)
    BY <2>3
  <2>7. m <= i - 1 => /\ Count(S, m) <= Count(S, i)
                      /\ i \in S => Count(S, m) < Count(S, i)
    BY <2>2, <2>3, <2>5
  <2> QED BY <2>4, <2>6, <2>7
<1> HIDE DEF Good
<1>3. \A i \in 0..n : i \in Good
  BY <1>1, <1>2, StepByStep
<1>4. n \in Good
  BY <1>3
<1> QED BY <1>4 DEF Good

(* What a count does not reach does not matter to it. *)
LEMMA CountSame ==
  ASSUME NEW S, NEW T, NEW n \in Nat, \A i \in 1..n : i \in S <=> i \in T
  PROVE  Count(S, n) = Count(T, n)
<1> DEFINE Good == {k \in 0..n : Count(S, k) = Count(T, k)}
<1>1. 0 \in Good
  BY CountRule
<1>2. ASSUME NEW i \in 1..n, i - 1 \in Good PROVE i \in Good
  <2>1. i - 1 \in Nat /\ (i - 1) + 1 = i
    OBVIOUS
  <2>2. /\ Count(S, i) = Count(S, i - 1) + (IF i \in S THEN 1 ELSE 0)
        /\ Count(T, i) = Count(T, i - 1) + (IF i \in T THEN 1 ELSE 0)
    BY <2>1, CountRule
  <2> QED BY <1>2, <2>2
<1> HIDE DEF Good
<1>3. \A i \in 0..n : i \in Good
  BY <1>1, <1>2, StepByStep
<1>4. n \in Good
  BY <1>3
<1> QED BY <1>4 DEF Good

(* A count of nothing is zero, one of something is not. *)
LEMMA CountZero ==
  ASSUME NEW S, NEW n \in Nat, S \subseteq 1..n
  PROVE  S = {} <=> Count(S, n) = 0
<1>1. CASE S = {}
  <2> DEFINE Good == {k \in 0..n : Count(S, k) = 0}
  <2>1. 0 \in Good
    BY CountRule
  <2>2. ASSUME NEW i \in 1..n, i - 1 \in Good PROVE i \in Good
    <3>1. i - 1 \in Nat /\ (i - 1) + 1 = i
      OBVIOUS
    <3>2. Count(S, i) = Count(S, i - 1) + (IF i \in S THEN 1 ELSE 0)
      BY <3>1, CountRule
    <3> QED BY <1>1, <2>2, <3>2
  <2> HIDE DEF Good
  <2>3. \A i \in 0..n : i \in Good
    BY <2>1, <2>2, StepByStep
  <2>4. n \in Good
    BY <2>3
  <2> QED BY <1>1, <2>4 DEF Good
<1>2. CASE S # {}
  <2>1. PICK i \in S : i \in 1..n
    BY <1>2
  <2>2. i \in Nat /\ i - 1 \in Nat /\ i <= n /\ i - 1 <= i /\ i - 1 < i
    BY <2>1
  <2>3. Count(S, i - 1) < Count(S, i) /\ Count(S, i) <= Count(S, n)
    BY <2>1, <2>2, CountGrows
  <2>4. Count(S, i - 1) \in Nat /\ Count(S, i) \in Nat /\ Count(S, n) \in Nat
    BY <2>2, CountType
  <2> QED BY <1>2, <2>3, <2>4
<1> QED BY <1>1, <1>2

-----------------------------------------------------------------------------
(* What the parser holds, said of the items it has read.                   *)

(* The items read so far, and what the descriptor holds in force after n.  *)
Now == Len(read)
GlobalsAt(n) ==
  [page |-> Global("page", n), min |-> SignedGlobal("min", n), max |-> SignedGlobal("max", n),
   maxRaw |-> Global("max", n), size |-> Global("size", n), count |-> Global("count", n),
   id |-> ReportOf(n)]

(* The stack holds, for the Push items nothing has balanced yet, what was  *)
(* in force at each; the last of them is the one the next Pop undoes.      *)
Open(p) == \A j \in p..Now : Nested(p, j) > 0
Saved(pos) ==
  /\ \A d \in DOMAIN stack :
       /\ pos[d] \in Tagged("push") /\ Open(pos[d])
       /\ Nested(pos[d], Now) = Len(stack) - d + 1
       /\ stack[d] = GlobalsAt(pos[d])
  /\ \A p \in Tagged("push") : Open(p) => \E d \in DOMAIN stack : p = pos[d]
StackFollows == \E pos \in [DOMAIN stack -> Nat] : Saved(pos)
GlobalsFollow == g = GlobalsAt(Now)

(* The locals are those of the main item that comes next.                  *)
BoundFollows(have, value, t) ==
  LET own == Own(t, Now + 1)
  IN  (have <=> own # {}) /\ (own # {} => value = Declared(Last(own)))
UsagesFollow ==
  LET own == Own("usage", Now + 1)
  IN  /\ Len(loc.usages) = Lesser(Count(own, Now), MaxLocalUsages)
      /\ \A i \in own : Count(own, i) <= MaxLocalUsages =>
           Count(own, i) \in DOMAIN loc.usages /\ loc.usages[Count(own, i)] = Declared(i)
      /\ \A r \in DOMAIN loc.usages : \E i \in own : Count(own, i) = r
LocalsFollow ==
  /\ BoundFollows(loc.haveMin, loc.min, "usageMin")
  /\ BoundFollows(loc.haveMax, loc.max, "usageMax")
  /\ UsagesFollow

(* An entry of Rids[] knows its report up to here, or that it is useless.  *)
Spot(a) == [off |-> StartOf(a[1]) + a[2] * Global("size", a[1]),
            bits |-> Global("size", a[1]), max |-> LogicalMaxAt(a[1])]
Earlier(a, b) == a[1] < b[1] \/ (a[1] = b[1] /\ a[2] <= b[2])
FieldFollows(f, id, u) ==
  \/ Places(id, u) = {} /\ f = Absent
  \/ \E a \in Places(id, u) : (\A b \in Places(id, u) : Earlier(a, b)) /\ f = Spot(a)
RidFollows(r) ==
  IF r.overflowed
  THEN (\E n \in InputsOf(r.id) : SizeOf(n) = 0) \/ BitsOf(r.id, Now) > MaxReportBits
  ELSE /\ r.bits = BitsOf(r.id, Now)
       /\ \A n \in InputsOf(r.id) : SizeOf(n) > 0
       /\ FieldFollows(r.tip, r.id, Tip)
       /\ FieldFollows(r.x, r.id, X)
       /\ FieldFollows(r.y, r.id, Y)

(* Rids[] holds the first reports, in the order they begin.                *)
RidsAreTracked ==
  /\ Len(rids) = Lesser(Count(Beginnings, Now), MaxReportIds)
  /\ \A n \in Tracked : /\ Count(Beginnings, n) \in DOMAIN rids
                        /\ rids[Count(Beginnings, n)].id = ReportOf(n)
  /\ \A r \in DOMAIN rids : \E n \in Tracked : Count(Beginnings, n) = r
RidsFollow == \A r \in {rids[i] : i \in DOMAIN rids} : RidFollows(r)

Follows ==
  /\ StackFollows /\ GlobalsFollow /\ LocalsFollow /\ RidsAreTracked /\ RidsFollow
  /\ anyId <=> Tagged("id") # {}
Followed == status = "PARSING" /\ NestingFits => Follows

(* One more item is read, at n + 1.                                        *)
Reads(it, n) ==
  read \in Seq(Items) /\ it \in Items /\ read' = Append(read, it) /\ n = Now

(* Reading an item leaves those before it as they were.                    *)
LEMMA Reading ==
  ASSUME NEW it, NEW n, Reads(it, n)
  PROVE  /\ n \in Nat /\ Now' = n + 1
         /\ DOMAIN read = 1..n /\ DOMAIN read' = 1..(n + 1)
         /\ \A i \in 1..n : read'[i] = read[i] /\ read[i] \in Items
         /\ read'[n + 1] = it
         /\ \A i : i \in 1..(n + 1) <=> (i \in 1..n \/ i = n + 1)
         /\ n + 1 \notin 1..n
         /\ it \in Items /\ n = Now
<1> USE DEF Reads
<1>1. n \in Nat /\ Now' = n + 1
  BY AppendProperties, LenProperties DEF Now
<1>2. /\ DOMAIN read = 1..n /\ DOMAIN read' = 1..(n + 1)
      /\ \A i \in 1..n : read'[i] = read[i] /\ read[i] \in Items
      /\ read'[n + 1] = it
  BY AppendProperties, LenProperties DEF Now
<1>3. \A i : i \in 1..(n + 1) <=> (i \in 1..n \/ i = n + 1)
  BY <1>1
<1>4. n + 1 \notin 1..n
  BY <1>1
<1> QED
  BY <1>1, <1>2, <1>3, <1>4

(* An item joins those of its tag, and no others.                          *)
LEMMA TaggedGrows ==
  ASSUME NEW it, NEW n, Reads(it, n), NEW t
  PROVE  /\ Tagged(t) \subseteq 1..n
         /\ Tagged(t)' = Tagged(t) \cup (IF it.tag = t THEN {n + 1} ELSE {})
  BY Reading DEF Tagged

(* The nesting up to an item is that of the items up to it: one more after *)
(* a Push, one less after a Pop.                                           *)
LEMMA SurplusGrows ==
  ASSUME NEW it, NEW n, Reads(it, n)
  PROVE  /\ \A j \in Nat : Surplus(j) \in Int
         /\ \A j \in 0..n : Surplus(j)' = Surplus(j)
         /\ Surplus(n + 1)' = Surplus(n) + (CASE it.tag = "push" -> 1
                                              [] it.tag = "pop" -> -1
                                              [] OTHER -> 0)
<1>1. n \in Nat
  BY Reading
<1>2. ASSUME NEW j \in Nat PROVE Surplus(j) \in Int
  BY CountType DEF Surplus
<1>3. ASSUME NEW j \in 0..n, NEW t PROVE Count(Tagged(t)', j) = Count(Tagged(t), j)
  <2>1. \A i \in 1..j : i \in Tagged(t)' <=> i \in Tagged(t)
    BY <1>1, TaggedGrows
  <2>2. j \in Nat
    BY <1>1
  <2> QED
    BY <2>1, <2>2, CountSame
<1>4. ASSUME NEW t
      PROVE  Count(Tagged(t)', n + 1) = Count(Tagged(t), n) + (IF it.tag = t THEN 1 ELSE 0)
  <2>1. Count(Tagged(t)', n + 1) = Count(Tagged(t)', n) + (IF n + 1 \in Tagged(t)' THEN 1 ELSE 0)
    BY <1>1, CountRule
  <2>2. Count(Tagged(t)', n) = Count(Tagged(t), n)
    BY <1>1, <1>3
  <2>3. n + 1 \in Tagged(t)' <=> it.tag = t
    BY Reading, TaggedGrows
  <2> QED BY <2>1, <2>2, <2>3
<1>5. \A j \in 0..n : Surplus(j)' = Surplus(j)
  BY <1>3 DEF Surplus, Count
<1>6. Surplus(n + 1)' = Count(Tagged("push")', n + 1) - Count(Tagged("pop")', n + 1)
  BY DEF Surplus, Count
<1>7. Surplus(n) = Count(Tagged("push"), n) - Count(Tagged("pop"), n)
  BY DEF Surplus
<1>8. Count(Tagged("push"), n) \in Nat /\ Count(Tagged("pop"), n) \in Nat
  BY <1>1, CountType
<1>9. Surplus(n + 1)' = Surplus(n) + (IF it.tag = "push" THEN 1 ELSE 0)
                                   - (IF it.tag = "pop" THEN 1 ELSE 0)
  <2> DEFINE a == Count(Tagged("push"), n)
             b == Count(Tagged("pop"), n)
             c == Count(Tagged("push")', n + 1)
             d == Count(Tagged("pop")', n + 1)
  <2>1. c = a + (IF it.tag = "push" THEN 1 ELSE 0) /\ d = b + (IF it.tag = "pop" THEN 1 ELSE 0)
    BY <1>4
  <2>2. Surplus(n + 1)' = c - d /\ Surplus(n) = a - b /\ a \in Nat /\ b \in Nat
    BY <1>6, <1>7, <1>8
  <2> HIDE DEF a, b, c, d
  <2> QED BY <2>1, <2>2
<1>10. Surplus(n) \in Int
  BY <1>1, <1>2
<1> QED
  BY <1>2, <1>5, <1>9, <1>10

LEMMA NestedGrows ==
  ASSUME NEW it, NEW n, Reads(it, n),
         NEW p \in 1..(n + 1)
  PROVE  /\ \A j \in Nat : Nested(p, j) \in Int
         /\ \A j \in 0..n : Nested(p, j)' = Nested(p, j)
         /\ it.tag = "push" => Nested(p, n + 1)' = Nested(p, n) + 1
         /\ it.tag = "pop" => Nested(p, n + 1)' = Nested(p, n) - 1
         /\ it.tag # "push" /\ it.tag # "pop" => Nested(p, n + 1)' = Nested(p, n)
<1>1. n \in Nat /\ p - 1 \in 0..n /\ p - 1 \in Nat
  BY Reading
<1>2. Surplus(p - 1)' = Surplus(p - 1) /\ Surplus(p - 1) \in Int
  BY <1>1, SurplusGrows
<1>3. \A j \in Nat : Nested(p, j) \in Int
  BY <1>2, SurplusGrows DEF Nested
<1>4. \A j \in 0..n : Nested(p, j)' = Nested(p, j)
  BY <1>2, SurplusGrows DEF Nested
<1>5. Nested(p, n + 1)' = Surplus(n + 1)' - Surplus(p - 1)' /\ Nested(p, n) = Surplus(n) - Surplus(p - 1)
  BY DEF Nested
<1>6. Surplus(n) \in Int
  BY <1>1, SurplusGrows
<1>7. Surplus(n + 1)' = Surplus(n) + (CASE it.tag = "push" -> 1 [] it.tag = "pop" -> -1 [] OTHER -> 0)
  BY SurplusGrows
<1>8. Nested(p, n + 1)' = Nested(p, n) + (CASE it.tag = "push" -> 1 [] it.tag = "pop" -> -1 [] OTHER -> 0)
  BY <1>2, <1>5, <1>6, <1>7
<1>9. Nested(p, n) \in Int
  BY <1>1, <1>3
<1>10. it.tag = "push" => Nested(p, n + 1)' = Nested(p, n) + 1
  BY <1>8
<1>11. it.tag = "pop" => Nested(p, n + 1)' = Nested(p, n) - 1
  BY <1>8, <1>9
<1>12. it.tag # "push" /\ it.tag # "pop" => Nested(p, n + 1)' = Nested(p, n)
  BY <1>8, <1>9
<1> QED
  BY <1>3, <1>4, <1>10, <1>11, <1>12

(* Nesting that fits in the stack fitted before the item.                  *)
LEMMA NestingShrinks ==
  ASSUME NEW it, NEW n, Reads(it, n), NestingFits'
  PROVE  NestingFits
<1>1. n \in Nat /\ DOMAIN read = 1..n /\ (DOMAIN read)' = 1..(n + 1)
  BY Reading
<1>2. ASSUME NEW j \in 1..n, NEW i \in 1..j PROVE Nested(i, j) <= StackMax
  <2>1. j \in 1..(n + 1) /\ j \in 0..n /\ i \in 1..(n + 1)
    BY <1>1
  <2>2. Nested(i, j)' <= StackMax
    BY <1>1, <2>1 DEF NestingFits
  <2>3. Nested(i, j)' = Nested(i, j)
    BY <2>1, NestedGrows
  <2> QED BY <2>2, <2>3
<1> QED BY <1>1, <1>2 DEF NestingFits

-----------------------------------------------------------------------------
(* Scopes, and the globals in force.                                       *)

(* The scopes there were stay; a Pop closes those of the open Push items   *)
(* that are one item deep.                                                 *)
LEMMA ScopesGrow ==
  ASSUME NEW it, NEW n, Reads(it, n)
  PROVE  /\ Scopes \subseteq Scopes'
         /\ \A s \in Scopes : s[1] \in 1..n /\ s[2] \in 1..n /\ s[1] < s[2]
         /\ \A s \in Scopes' \ Scopes :
              /\ it.tag = "pop" /\ s[2] = n + 1
              /\ s[1] \in Tagged("push") /\ Open(s[1]) /\ Nested(s[1], n) = 1
         /\ \A p \in Tagged("push") : it.tag = "pop" /\ Open(p) /\ Nested(p, n) = 1
              => <<p, n + 1>> \in Scopes'
<1>1. n \in Nat /\ n = Now
  BY Reading
<1>2. /\ Tagged("push") \subseteq 1..n /\ Tagged("pop") \subseteq 1..n
      /\ Tagged("push")' = Tagged("push") \cup (IF it.tag = "push" THEN {n + 1} ELSE {})
      /\ Tagged("pop")' = Tagged("pop") \cup (IF it.tag = "pop" THEN {n + 1} ELSE {})
  BY TaggedGrows
<1>3. ASSUME NEW s \in Scopes
      PROVE  s[1] \in 1..n /\ s[2] \in 1..n /\ s[1] < s[2] /\ s \in Scopes'
  <2>1. /\ s \in Tagged("push") \X Tagged("pop") /\ s[1] < s[2] /\ Nested(s[1], s[2]) = 0
        /\ \A i \in s[1]..(s[2] - 1) : Nested(s[1], i) > 0
    BY DEF Scopes
  <2>2. s[1] \in 1..n /\ s[2] \in 1..n
    BY <1>2, <2>1
  <2>3. s \in Tagged("push")' \X Tagged("pop")'
    BY <1>2, <2>1
  <2>4. \A j \in 0..n : Nested(s[1], j)' = Nested(s[1], j)
    BY <1>1, <2>2, NestedGrows
  <2>5. \A i \in s[1]..(s[2] - 1) : i \in 0..n
    BY <1>1, <2>2
  <2>6. Nested(s[1], s[2])' = 0 /\ \A i \in s[1]..(s[2] - 1) : Nested(s[1], i)' > 0
    BY <1>1, <2>1, <2>2, <2>4, <2>5
  <2> QED
    BY <2>1, <2>2, <2>3, <2>6 DEF Scopes
<1>4. ASSUME NEW s \in Scopes' \ Scopes
      PROVE  /\ it.tag = "pop" /\ s[2] = n + 1
             /\ s[1] \in Tagged("push") /\ Open(s[1]) /\ Nested(s[1], n) = 1
  <2>1. /\ s \in Tagged("push")' \X Tagged("pop")' /\ s[1] < s[2] /\ Nested(s[1], s[2])' = 0
        /\ \A i \in s[1]..(s[2] - 1) : Nested(s[1], i)' > 0
    BY <1>4 DEF Scopes
  <2>2. s[1] \in 1..(n + 1) /\ s[2] \in 1..(n + 1)
    BY <1>1, <1>2, <2>1
  <2>3. s[1] \in 1..n /\ s[1] \in Tagged("push")
    BY <1>1, <1>2, <2>1, <2>2
  <2>4. \A j \in 0..n : Nested(s[1], j)' = Nested(s[1], j)
    BY <1>1, <2>2, NestedGrows
  <2>5. CASE s[2] # n + 1
    <3>1. s[2] \in 1..n /\ s[2] \in Tagged("pop")
      BY <1>1, <1>2, <2>1, <2>2, <2>5
    <3>2. \A i \in s[1]..(s[2] - 1) : i \in 0..n
      BY <1>1, <2>3, <3>1
    <3>3. Nested(s[1], s[2]) = 0 /\ \A i \in s[1]..(s[2] - 1) : Nested(s[1], i) > 0
      BY <1>1, <2>1, <2>4, <3>1, <3>2
    <3>4. s \in Scopes
      BY <2>1, <2>3, <3>1, <3>3 DEF Scopes
    <3> QED BY <3>4
  <2>6. CASE s[2] = n + 1
    <3>1. it.tag = "pop"
      BY <1>1, <1>2, <2>1, <2>6
    <3>2. \A i \in s[1]..n : Nested(s[1], i) > 0
      BY <1>1, <2>1, <2>3, <2>4, <2>6
    <3>3. Nested(s[1], n + 1)' = Nested(s[1], n) - 1 /\ Nested(s[1], n) \in Int
      BY <1>1, <2>2, <3>1, NestedGrows
    <3>4. Nested(s[1], n + 1)' = 0
      BY <2>1, <2>6
    <3>5. Nested(s[1], n) = 1
      BY <3>3, <3>4
    <3>6. Open(s[1])
      <4>1. Now = n
        BY Reading
      <4> QED BY <3>2, <4>1 DEF Open
    <3> QED BY <2>3, <2>6, <3>1, <3>5, <3>6
  <2> QED BY <2>5, <2>6
<1>5. ASSUME NEW p \in Tagged("push"), it.tag = "pop", Open(p), Nested(p, n) = 1
      PROVE  <<p, n + 1>> \in Scopes'
  <2>1. p \in 1..n /\ p \in 1..(n + 1)
    BY <1>1, <1>2
  <2>2. \A j \in 0..n : Nested(p, j)' = Nested(p, j)
    BY <2>1, NestedGrows
  <2>3. Nested(p, n + 1)' = 0
    <3>1. Nested(p, n + 1)' = Nested(p, n) - 1
      BY <1>5, <2>1, NestedGrows
    <3> QED BY <1>5, <3>1
  <2>4. \A i \in p..n : Nested(p, i)' > 0
    BY <1>1, <1>5, <2>1, <2>2 DEF Open
  <2>5. p \in Tagged("push")' /\ n + 1 \in Tagged("pop")'
    BY <1>2, <1>5
  <2>6. (n + 1) - 1 = n /\ p < n + 1
    BY <1>1, <2>1
  <2> DEFINE s == <<p, n + 1>>
  <2>7. s \in Tagged("push")' \X Tagged("pop")' /\ s[1] = p /\ s[2] = n + 1
    BY <2>5
  <2> HIDE DEF s
  <2>8. \A i \in s[1]..(s[2] - 1) : Nested(s[1], i)' > 0
    BY <2>4, <2>6, <2>7
  <2>9. s \in Scopes'
    BY <2>3, <2>6, <2>7, <2>8 DEF Scopes
  <2> QED BY <2>9 DEF s
<1> QED
  BY <1>3, <1>4, <1>5

(* What was in force at an item stays what was in force there.             *)
LEMMA SetterStays ==
  ASSUME NEW it, NEW n, Reads(it, n),
         NEW m \in 0..n, NEW t
  PROVE  Setter(t, m)' = Setter(t, m) /\ Setter(t, m) \subseteq 1..m
<1>1. n \in Nat
  BY Reading
<1>2. /\ Tagged(t) \subseteq 1..n
      /\ Tagged(t)' = Tagged(t) \cup (IF it.tag = t THEN {n + 1} ELSE {})
  BY TaggedGrows
<1>3. \A i \in Tagged(t)' : i <= m => i \in Tagged(t)
  BY <1>1, <1>2
<1>4. \A s : s \in Scopes' /\ s[2] <= m <=> s \in Scopes /\ s[2] <= m
  <2>1. \A s \in Scopes' \ Scopes : ~ (s[2] <= m)
    BY <1>1, ScopesGrow
  <2> QED BY <2>1, ScopesGrow
<1>5. Setter(t, m) \subseteq 1..m
  BY <1>1, <1>2 DEF Setter
<1>6. Setter(t, m)' = {i \in Tagged(t)' : /\ i <= m
                         /\ ~ \E s \in Scopes' : s[1] < i /\ i < s[2] /\ s[2] <= m}
  BY DEF Setter
<1>7. \A i : i \in Setter(t, m)' <=> i \in Setter(t, m)
  BY <1>2, <1>3, <1>4, <1>6 DEF Setter
<1> QED BY <1>5, <1>7

(* What was in force after an earlier item is not changed by a later one.  *)
LEMMA GlobalStays ==
  ASSUME NEW it, NEW n, Reads(it, n),
         NEW m \in 0..n, NEW t
  PROVE  /\ Global(t, m)' = Global(t, m) /\ Global(t, m) \in Nat
         /\ SignedGlobal(t, m)' = SignedGlobal(t, m) /\ SignedGlobal(t, m) \in Int
<1> DEFINE S == Setter(t, m)
           last == CHOOSE i \in S : \A j \in S : j <= i
<1>1. n \in Nat /\ m \in Nat
  BY Reading
<1>2. Setter(t, m)' = S /\ S \subseteq 1..m
  BY SetterStays
<1>3. /\ Global(t, m) = IF S = {} THEN 0 ELSE read[last].raw
      /\ SignedGlobal(t, m) = IF S = {} THEN 0 ELSE Signed(read[last])
  BY DEF Global, SignedGlobal, Last
<1>4. /\ Global(t, m)' = IF S = {} THEN 0 ELSE read'[last].raw
      /\ SignedGlobal(t, m)' = IF S = {} THEN 0 ELSE Signed(read'[last])
  BY <1>2 DEF Global, SignedGlobal, Last, Signed
<1>5. ASSUME S # {} PROVE last \in 1..n
  <2>1. last \in S
    <3> HIDE DEF S
    <3> QED BY <1>1, <1>2, <1>5, GreatestElement
  <2> QED BY <1>1, <1>2, <2>1
<1> HIDE DEF S, last
<1>6. S # {} => read'[last] = read[last] /\ read[last] \in Items
  BY <1>5, Reading
<1>7. \A i \in Items : i.raw \in Nat /\ Signed(i) \in Int
  BY WidthAssumption DEF Items, Signed
<1>8. CASE S = {}
  BY <1>3, <1>4, <1>8
<1>9. CASE S # {}
  <2>1. read'[last] = read[last] /\ read[last].raw \in Nat /\ Signed(read[last]) \in Int
    BY <1>6, <1>7, <1>9
  <2>2. Signed(read'[last]) = Signed(read[last])
    BY <2>1
  <2> QED BY <1>3, <1>4, <1>9, <2>1, <2>2
<1> QED BY <1>8, <1>9

(* All of what was in force after an earlier item stays.                   *)
LEMMA RecordStays ==
  ASSUME NEW it, NEW n, Reads(it, n),
         NEW m \in 0..n
  PROVE  /\ GlobalsAt(m)' = GlobalsAt(m) /\ GlobalsAt(m) \in Globals
         /\ ReportOf(m)' = ReportOf(m) /\ ReportOf(m) \in Nat
         /\ SizeOf(m)' = SizeOf(m) /\ SizeOf(m) \in Nat
         /\ LogicalMaxAt(m)' = LogicalMaxAt(m)
<1>1. \A t : /\ Global(t, m)' = Global(t, m) /\ Global(t, m) \in Nat
             /\ SignedGlobal(t, m)' = SignedGlobal(t, m) /\ SignedGlobal(t, m) \in Int
  BY GlobalStays
<1>2. ReportOf(m)' = ReportOf(m)
  BY <1>1 DEF ReportOf
<1>3. ReportOf(m) \in Nat
  <2>1. Global("id", m) \in Nat
    BY <1>1
  <2> QED BY <2>1 DEF ReportOf
<1>4. SizeOf(m)' = SizeOf(m)
  BY <1>1 DEF SizeOf
<1>5. SizeOf(m) \in Nat
  <2>1. Global("size", m) \in Nat /\ Global("count", m) \in Nat
    BY <1>1
  <2> QED BY <2>1 DEF SizeOf
<1>6. LogicalMaxAt(m)' = LogicalMaxAt(m)
  BY <1>1 DEF LogicalMaxAt
<1>7. GlobalsAt(m)' = GlobalsAt(m)
  BY <1>1, <1>2 DEF GlobalsAt
<1>8. GlobalsAt(m) \in Globals
  BY <1>1, <1>3 DEF GlobalsAt, Globals
<1> QED
  BY <1>2, <1>3, <1>4, <1>5, <1>6, <1>7, <1>8

(* An item that is no Pop undoes nothing. *)
LEMMA SetterNext ==
  ASSUME NEW it, NEW n, Reads(it, n),
         it.tag # "pop", NEW t
  PROVE  Setter(t, n + 1)' = Setter(t, n) \cup (IF it.tag = t THEN {n + 1} ELSE {})
<1>1. n \in Nat
  BY Reading
<1>2. /\ Tagged(t) \subseteq 1..n
      /\ Tagged(t)' = Tagged(t) \cup (IF it.tag = t THEN {n + 1} ELSE {})
  BY TaggedGrows
<1>3. Scopes' = Scopes /\ \A s \in Scopes : s[2] \in 1..n
  BY ScopesGrow
<1>4. Setter(t, n + 1)' = {i \in Tagged(t)' : /\ i <= n + 1
                             /\ ~ \E s \in Scopes : s[1] < i /\ i < s[2] /\ s[2] <= n + 1}
  BY <1>3 DEF Setter
<1>5. ASSUME NEW i PROVE i \in Setter(t, n + 1)' <=> i \in Setter(t, n) \/ (i = n + 1 /\ it.tag = t)
  <2>1. CASE i = n + 1
    <3>1. i \notin Setter(t, n)
      BY <1>1, <2>1 DEF Setter
    <3>2. \A s \in Scopes : ~ (i < s[2])
      BY <1>1, <1>3, <2>1
    <3> QED BY <1>1, <1>2, <1>4, <2>1, <3>1, <3>2
  <2>2. CASE i # n + 1
    <3>1. i \in Tagged(t)' <=> i \in Tagged(t)
      BY <1>2, <2>2
    <3>2. i \in Tagged(t) => i <= n /\ i <= n + 1
      BY <1>1, <1>2
    <3>3. \A s \in Scopes : s[2] <= n /\ s[2] <= n + 1
      BY <1>1, <1>3
    <3> QED BY <1>4, <2>2, <3>1, <3>2, <3>3 DEF Setter
  <2> QED BY <2>1, <2>2
<1> QED BY <1>5

(* A Pop that balances a Push puts back what was in force there.           *)
LEMMA SetterPopped ==
  ASSUME NEW it, NEW n, Reads(it, n),
         it.tag = "pop", NEW p \in Tagged("push"), Open(p), Nested(p, n) = 1,
         \A q \in Tagged("push") : Open(q) /\ Nested(q, n) = 1 => q = p,
         NEW t, t # "push", t # "pop"
  PROVE  p \in 1..n /\ Setter(t, n + 1)' = Setter(t, p)
<1>1. n \in Nat /\ n = Now
  BY Reading
<1>2. /\ Tagged(t) \subseteq 1..n /\ Tagged(t)' = Tagged(t)
      /\ Tagged("push") \subseteq 1..n
  <2>1. Tagged(t)' = Tagged(t) \cup (IF it.tag = t THEN {n + 1} ELSE {})
    BY TaggedGrows
  <2>2. Tagged(t) \subseteq 1..n /\ Tagged("push") \subseteq 1..n
    BY TaggedGrows
  <2> QED BY <2>1, <2>2
<1>3. p \in 1..n /\ p \notin Tagged(t)
  BY <1>2 DEF Tagged
<1>4. /\ Scopes \subseteq Scopes' /\ <<p, n + 1>> \in Scopes'
      /\ \A s \in Scopes : s[1] \in 1..n /\ s[2] \in 1..n
      /\ \A s \in Scopes' \ Scopes : s[1] = p /\ s[2] = n + 1
  BY ScopesGrow
<1>5. ASSUME NEW s \in Scopes, s[1] < p, p < s[2]
      PROVE  FALSE
  <2>1. /\ Nested(s[1], s[2]) = 0 /\ \A i \in s[1]..(s[2] - 1) : Nested(s[1], i) > 0
    BY DEF Scopes
  <2>2. s[1] \in 1..n /\ s[2] \in 1..n
    BY <1>4
  <2>3. p - 1 \in s[1]..(s[2] - 1) /\ s[2] \in p..n
    BY <1>1, <1>3, <1>5, <2>2
  <2>4. Nested(s[1], p - 1) > 0 /\ Nested(p, s[2]) > 0
    BY <2>1, <2>3, <1>1 DEF Open
  <2>5. Surplus(s[2]) - Surplus(s[1] - 1) = 0 /\ Surplus(p - 1) - Surplus(s[1] - 1) > 0
        /\ Surplus(s[2]) - Surplus(p - 1) > 0
    BY <2>1, <2>4 DEF Nested
  <2>6. Surplus(s[2]) \in Int /\ Surplus(p - 1) \in Int /\ Surplus(s[1] - 1) \in Int
    <3>1. s[2] \in Nat /\ p - 1 \in Nat /\ s[1] - 1 \in Nat
      BY <1>1, <1>3, <2>2
    <3> QED BY <3>1, SurplusGrows
  <2> QED BY <2>5, <2>6
<1>6. Setter(t, n + 1)' = {i \in Tagged(t) : /\ i <= n + 1
                             /\ ~ \E s \in Scopes' : s[1] < i /\ i < s[2] /\ s[2] <= n + 1}
  BY <1>2 DEF Setter
<1>7. ASSUME NEW i \in Setter(t, n + 1)' PROVE i \in Setter(t, p)
  <2>1. i \in Tagged(t) /\ i \in 1..n /\ ~ \E s \in Scopes' : s[1] < i /\ i < s[2] /\ s[2] <= n + 1
    BY <1>2, <1>6
  <2>2. i <= p
    <3> DEFINE s == <<p, n + 1>>
    <3>1. s \in Scopes' /\ s[1] = p /\ s[2] = n + 1
      BY <1>4
    <3> HIDE DEF s
    <3>2. ~ (p < i)
      BY <1>1, <2>1, <3>1
    <3> QED BY <1>1, <1>3, <2>1, <3>2
  <2>3. ~ \E s \in Scopes : s[1] < i /\ i < s[2] /\ s[2] <= p
    <3>1. \A s \in Scopes : s \in Scopes' /\ s[2] <= n + 1
      BY <1>1, <1>4
    <3> QED BY <2>1, <3>1
  <2> QED BY <2>1, <2>2, <2>3 DEF Setter
<1>8. ASSUME NEW i \in Setter(t, p) PROVE i \in Setter(t, n + 1)'
  <2>1. i \in Tagged(t) /\ i <= p /\ ~ \E s \in Scopes : s[1] < i /\ i < s[2] /\ s[2] <= p
    BY DEF Setter
  <2>2. i \in 1..n /\ i < p /\ i <= n + 1
    BY <1>1, <1>2, <1>3, <2>1
  <2>3. ASSUME NEW s \in Scopes', s[1] < i, i < s[2] PROVE FALSE
    <3>1. CASE s \in Scopes
      <4>1. s[1] \in 1..n /\ s[2] \in 1..n /\ s[1] < p
        BY <1>3, <1>4, <2>2, <2>3, <3>1
      <4>2. ~ (s[2] <= p)
        BY <2>1, <2>3, <3>1
      <4>3. p < s[2]
        BY <1>3, <4>1, <4>2
      <4> QED BY <1>5, <3>1, <4>1, <4>3
    <3>2. CASE s \notin Scopes
      <4>1. s[1] = p
        BY <1>4, <3>2
      <4> QED BY <1>3, <2>2, <2>3, <4>1
    <3> QED BY <3>1, <3>2
  <2> QED BY <1>6, <2>1, <2>2, <2>3
<1> QED BY <1>3, <1>7, <1>8

(* A Pop with nothing to balance does nothing. *)
LEMMA SetterUnpopped ==
  ASSUME NEW it, NEW n, Reads(it, n),
         it.tag = "pop", ~ \E q \in Tagged("push") : Open(q) /\ Nested(q, n) = 1,
         NEW t, t # "pop"
  PROVE  Setter(t, n + 1)' = Setter(t, n)
<1>1. n \in Nat
  BY Reading
<1>2. Tagged(t) \subseteq 1..n /\ Tagged(t)' = Tagged(t)
  <2>1. Tagged(t)' = Tagged(t) \cup (IF it.tag = t THEN {n + 1} ELSE {})
    BY TaggedGrows
  <2>2. Tagged(t) \subseteq 1..n
    BY TaggedGrows
  <2> QED BY <2>1, <2>2
<1>3. Scopes' = Scopes /\ \A s \in Scopes : s[2] \in 1..n
  BY ScopesGrow
<1>4. Setter(t, n + 1)' = {i \in Tagged(t) : /\ i <= n + 1
                             /\ ~ \E s \in Scopes : s[1] < i /\ i < s[2] /\ s[2] <= n + 1}
  BY <1>2, <1>3 DEF Setter
<1>5. \A i \in Tagged(t) : i <= n /\ i <= n + 1
  BY <1>1, <1>2
<1>6. \A s \in Scopes : s[2] <= n /\ s[2] <= n + 1
  BY <1>1, <1>3
<1> QED BY <1>4, <1>5, <1>6 DEF Setter

(* The same setters say the same of a global. *)
LEMMA GlobalAgain ==
  ASSUME NEW it, NEW n, Reads(it, n),
         NEW m \in 0..n, NEW t, Setter(t, n + 1)' = Setter(t, m)
  PROVE  Global(t, n + 1)' = Global(t, m) /\ SignedGlobal(t, n + 1)' = SignedGlobal(t, m)
<1>1. Setter(t, m)' = Setter(t, m)
  BY SetterStays
<1>2. Global(t, n + 1)' = Global(t, m)' /\ SignedGlobal(t, n + 1)' = SignedGlobal(t, m)'
  <2> DEFINE of(S) == IF S = {} THEN 0 ELSE read'[CHOOSE i \in S : \A j \in S : j <= i].raw
             signed(S) == IF S = {} THEN 0
                          ELSE Signed(read'[CHOOSE i \in S : \A j \in S : j <= i])
  <2>1. Global(t, n + 1)' = of(Setter(t, n + 1)') /\ Global(t, m)' = of(Setter(t, m)')
    BY DEF Global, Last
  <2>2. SignedGlobal(t, n + 1)' = signed(Setter(t, n + 1)')
        /\ SignedGlobal(t, m)' = signed(Setter(t, m)')
    BY DEF SignedGlobal, Last, Signed
  <2>3. Setter(t, n + 1)' = Setter(t, m)'
    BY <1>1
  <2> HIDE DEF of, signed
  <2> QED BY <2>1, <2>2, <2>3
<1> QED BY <1>2, GlobalStays

(* An item that is no Pop sets the global it is tagged with.               *)
LEMMA GlobalNext ==
  ASSUME NEW it, NEW n, Reads(it, n),
         it.tag # "pop", NEW t
  PROVE  /\ Global(t, n + 1)' = IF it.tag = t THEN it.raw ELSE Global(t, n)
         /\ SignedGlobal(t, n + 1)' = IF it.tag = t THEN Signed(it) ELSE SignedGlobal(t, n)
<1>1. n \in Nat /\ n \in 0..n /\ read'[n + 1] = it
  BY Reading
<1>2. CASE it.tag # t
  <2>1. Setter(t, n + 1)' = Setter(t, n) \cup (IF it.tag = t THEN {n + 1} ELSE {})
    BY SetterNext
  <2>2. Setter(t, n + 1)' = Setter(t, n)
    BY <1>2, <2>1
  <2> QED BY <1>1, <1>2, <2>2, GlobalAgain
<1>3. CASE it.tag = t
  <2> DEFINE S == Setter(t, n + 1)'
             last == CHOOSE i \in S : \A j \in S : j <= i
  <2>1. S = Setter(t, n) \cup {n + 1} /\ Setter(t, n) \subseteq 1..n
    BY <1>1, <1>3, SetterNext, SetterStays
  <2>2. S \subseteq 1..(n + 1) /\ S # {} /\ n + 1 \in S /\ n + 1 \in Nat
    BY <1>1, <2>1
  <2>3. last = n + 1
    <3>1. last \in S /\ n + 1 <= last
      <4> HIDE DEF S
      <4> QED BY <2>2, GreatestElement
    <3> QED BY <1>1, <2>2, <3>1
  <2>4. /\ Global(t, n + 1)' = IF S = {} THEN 0 ELSE read'[last].raw
        /\ SignedGlobal(t, n + 1)' = IF S = {} THEN 0 ELSE Signed(read'[last])
    BY DEF Global, SignedGlobal, Last, Signed
  <2> HIDE DEF S, last
  <2> QED BY <1>1, <1>3, <2>2, <2>3, <2>4
<1> QED BY <1>2, <1>3

-----------------------------------------------------------------------------
(* The stack.                                                              *)

(* The Push items nothing has balanced yet, after one more item.           *)
LEMMA OpenNext ==
  ASSUME NEW it, NEW n, Reads(it, n)
  PROVE  /\ \A p \in 1..n : Open(p)' <=> Open(p) /\ Nested(p, n + 1)' > 0
         /\ Open(n + 1)' <=> Nested(n + 1, n + 1)' > 0
<1>1. n \in Nat /\ Now' = n + 1 /\ n = Now
  BY Reading
<1>2. ASSUME NEW p \in 1..n PROVE Open(p)' <=> Open(p) /\ Nested(p, n + 1)' > 0
  <2>1. \A j \in p..n : Nested(p, j)' = Nested(p, j)
    <3>1. p \in 1..(n + 1) /\ \A j \in p..n : j \in 0..n
      BY <1>1
    <3> QED BY <3>1, NestedGrows
  <2>2. \A j : j \in p..(n + 1) <=> j \in p..n \/ j = n + 1
    BY <1>1
  <2>3. Open(p)' <=> \A j \in p..(n + 1) : Nested(p, j)' > 0
    BY <1>1 DEF Open
  <2>4. Open(p) <=> \A j \in p..n : Nested(p, j) > 0
    BY <1>1 DEF Open
  <2> QED BY <2>1, <2>2, <2>3, <2>4
<1>3. Open(n + 1)' <=> Nested(n + 1, n + 1)' > 0
  <2>1. \A j : j \in (n + 1)..(n + 1) <=> j = n + 1
    BY <1>1
  <2>2. Open(n + 1)' <=> \A j \in (n + 1)..(n + 1) : Nested(n + 1, j)' > 0
    BY <1>1 DEF Open
  <2> QED BY <2>1, <2>2
<1> QED BY <1>2, <1>3

(* The stack and the globals follow the scopes.                            *)
LEMMA StackStays ==
  ASSUME NEW it, NEW n, Reads(it, n),
         stack \in Seq(Globals), it.tag # "push", it.tag # "pop", StackFollows, stack' = stack
  PROVE  StackFollows'
<1>1. n \in Nat /\ Now' = n + 1 /\ n = Now
  BY Reading
<1>2. PICK pos \in [DOMAIN stack -> Nat] : Saved(pos)
  BY DEF StackFollows
<1>3. \A p : p \in Tagged("push") => p \in 1..n
  BY <1>1, TaggedGrows
<1>4. Tagged("push")' = Tagged("push")
  <2>1. Tagged("push")' = Tagged("push") \cup (IF it.tag = "push" THEN {n + 1} ELSE {})
    BY <1>1, TaggedGrows
  <2> QED BY <2>1
<1>5. ASSUME NEW p \in 1..n PROVE Nested(p, n + 1)' = Nested(p, n) /\ Nested(p, n) \in Int
  <2>1. p \in 1..(n + 1)
    BY <1>1
  <2>2. Nested(p, n + 1)' = Nested(p, n) /\ Nested(p, n) \in Int
    BY <1>1, <2>1, NestedGrows
  <2> QED BY <2>2
<1>6. ASSUME NEW p \in 1..n PROVE Open(p)' <=> Open(p)
  <2>1. Open(p) => Nested(p, n) > 0
    BY <1>1 DEF Open
  <2> QED BY <1>1, <1>5, <2>1, OpenNext
<1>7. ASSUME NEW d \in DOMAIN stack
      PROVE  /\ pos[d] \in Tagged("push")' /\ Open(pos[d])'
             /\ Nested(pos[d], n + 1)' = Len(stack) - d + 1
             /\ stack[d] = GlobalsAt(pos[d])'
  <2>1. /\ pos[d] \in Tagged("push") /\ Open(pos[d])
        /\ Nested(pos[d], n) = Len(stack) - d + 1
        /\ stack[d] = GlobalsAt(pos[d])
    BY <1>1, <1>2 DEF Saved
  <2>2. pos[d] \in 1..n /\ pos[d] \in 0..n
    BY <1>1, <1>3, <2>1
  <2>3. GlobalsAt(pos[d])' = GlobalsAt(pos[d])
    BY <1>1, <2>2, RecordStays
  <2> QED BY <1>4, <1>5, <1>6, <2>1, <2>2, <2>3
<1>8. \A p \in Tagged("push")' : Open(p)' => \E d \in DOMAIN stack : p = pos[d]
  BY <1>2, <1>3, <1>4, <1>6 DEF Saved
<1>9. Saved(pos)'
  BY <1>1, <1>7, <1>8 DEF Saved
<1> QED
  BY <1>9 DEF StackFollows

(* A Push saves what is in force, and there is room for it.                *)
LEMMA StackPushed ==
  ASSUME NEW it, NEW n, Reads(it, n),
         stack \in Seq(Globals), it.tag = "push", NestingFits',
         StackFollows, GlobalsFollow
  PROVE  /\ Len(stack) < StackMax
         /\ stack' = Append(stack, g) => StackFollows'
<1>1. n \in Nat /\ Now' = n + 1 /\ n = Now /\ DOMAIN read' = 1..(n + 1)
  BY Reading
<1>2. PICK m \in Nat : DOMAIN stack = 1..m /\ m = Len(stack)
  OBVIOUS
<1>3. PICK pos \in [1..m -> Nat] : Saved(pos)
  BY <1>2 DEF StackFollows
<1>4. \A p : p \in Tagged("push") => p \in 1..n
  BY <1>1, TaggedGrows
<1>5. Tagged("push")' = Tagged("push") \cup {n + 1}
  <2>1. Tagged("push")' = Tagged("push") \cup (IF it.tag = "push" THEN {n + 1} ELSE {})
    BY <1>1, TaggedGrows
  <2> QED BY <2>1
<1>6. ASSUME NEW p \in 1..n PROVE Nested(p, n + 1)' = Nested(p, n) + 1 /\ Nested(p, n) \in Int
  <2>1. p \in 1..(n + 1)
    BY <1>1
  <2> QED BY <1>1, <2>1, NestedGrows
<1>7. ASSUME NEW p \in 1..n PROVE Open(p)' <=> Open(p)
  <2>1. Open(p) => Nested(p, n) > 0
    BY <1>1 DEF Open
  <2> QED BY <1>1, <1>6, <2>1, OpenNext
<1>8. Nested(n + 1, n + 1)' = 1 /\ Open(n + 1)'
  <2>1. Nested(n + 1, n + 1)' = Nested(n + 1, n) + 1
    <3>1. n + 1 \in 1..(n + 1)
      BY <1>1
    <3> QED BY <1>1, <3>1, NestedGrows
  <2>2. Nested(n + 1, n) = 0
    <3>1. Surplus(n) \in Int /\ (n + 1) - 1 = n
      BY <1>1, SurplusGrows
    <3> QED BY <3>1 DEF Nested
  <2>3. Nested(n + 1, n + 1)' = 1
    BY <2>1, <2>2
  <2>4. Open(n + 1)' <=> Nested(n + 1, n + 1)' > 0
    BY <1>1, OpenNext
  <2> QED BY <2>3, <2>4
<1>9. ASSUME NEW d \in 1..m
      PROVE  /\ pos[d] \in 1..n /\ pos[d] \in Tagged("push")' /\ Open(pos[d])'
             /\ Nested(pos[d], n + 1)' = (m + 1) - d + 1
             /\ stack[d] = GlobalsAt(pos[d])'
  <2>1. /\ pos[d] \in Tagged("push") /\ Open(pos[d])
        /\ Nested(pos[d], n) = m - d + 1
        /\ stack[d] = GlobalsAt(pos[d])
    BY <1>1, <1>2, <1>3 DEF Saved
  <2>2. pos[d] \in 1..n /\ pos[d] \in 0..n
    BY <1>1, <1>4, <2>1
  <2>3. GlobalsAt(pos[d])' = GlobalsAt(pos[d])
    BY <1>1, <2>2, RecordStays
  <2>4. Nested(pos[d], n + 1)' = (m - d + 1) + 1
    BY <1>6, <2>1, <2>2
  <2>5. (m - d + 1) + 1 = (m + 1) - d + 1
    BY <1>2
  <2> QED BY <1>5, <1>7, <2>1, <2>2, <2>3, <2>4, <2>5
<1>10. m < StackMax
  <2>1. \A j \in 1..(n + 1) : \A i \in 1..j : Nested(i, j)' <= StackMax
    BY <1>1 DEF NestingFits
  <2>2. \A i \in 1..(n + 1) : Nested(i, n + 1)' <= StackMax
    BY <1>1, <2>1
  <2>3. CASE m = 0
    <3>1. n + 1 \in 1..(n + 1)
      BY <1>1
    <3>2. Nested(n + 1, n + 1)' <= StackMax
      BY <2>2, <3>1
    <3> QED BY <1>8, <2>3, <3>2, LimitsAssumption
  <2>4. CASE m # 0
    <3>1. 1 \in 1..m
      BY <1>2, <2>4
    <3>2. pos[1] \in 1..(n + 1) /\ Nested(pos[1], n + 1)' = (m + 1) - 1 + 1
      BY <1>1, <1>9, <3>1
    <3> QED BY <1>2, <2>2, <3>2, LimitsAssumption
  <2> QED BY <2>3, <2>4
<1>11. ASSUME stack' = Append(stack, g) PROVE StackFollows'
  <2> DEFINE new == [d \in 1..(m + 1) |-> IF d = m + 1 THEN n + 1 ELSE pos[d]]
  <2>1. /\ Len(stack') = m + 1 /\ DOMAIN stack' = 1..(m + 1)
        /\ \A d \in 1..m : stack'[d] = stack[d]
        /\ stack'[m + 1] = g
    <3>1. g \in Globals
      <4>1. n \in 0..n
        BY <1>1
      <4> QED BY <1>1, <4>1, RecordStays DEF GlobalsFollow
    <3> QED BY <1>2, <1>11, <3>1, AppendProperties
  <2>2. new \in [1..(m + 1) -> Nat] /\ new[m + 1] = n + 1 /\ \A d \in 1..m : new[d] = pos[d]
    BY <1>1, <1>2
  <2> HIDE DEF new
  <2>3. \A d : d \in 1..(m + 1) <=> d \in 1..m \/ d = m + 1
    BY <1>2
  <2>4. g = GlobalsAt(n + 1)'
    <3>1. \A t : t # "push" => /\ Global(t, n + 1)' = Global(t, n)
                              /\ SignedGlobal(t, n + 1)' = SignedGlobal(t, n)
      <4>1. it.tag # "pop"
        OBVIOUS
      <4> QED BY <1>1, <4>1, GlobalNext
    <3>2. GlobalsAt(n + 1)' = GlobalsAt(n)
      BY <3>1 DEF GlobalsAt, ReportOf
    <3> QED BY <1>1, <3>2 DEF GlobalsFollow
  <2>5. ASSUME NEW d \in 1..(m + 1)
        PROVE  /\ new[d] \in Tagged("push")' /\ Open(new[d])'
               /\ Nested(new[d], n + 1)' = (m + 1) - d + 1
               /\ stack'[d] = GlobalsAt(new[d])'
    <3>1. CASE d \in 1..m
      BY <1>9, <2>1, <2>2, <3>1
    <3>2. CASE d = m + 1
      <4>1. (m + 1) - d + 1 = 1
        BY <1>2, <3>2
      <4> QED BY <1>5, <1>8, <2>1, <2>2, <2>4, <3>2, <4>1
    <3> QED BY <2>3, <3>1, <3>2
  <2>6. ASSUME NEW p \in Tagged("push")', Open(p)' PROVE \E d \in 1..(m + 1) : p = new[d]
    <3>1. CASE p = n + 1
      BY <2>2, <2>3, <3>1
    <3>2. CASE p # n + 1
      <4>1. p \in Tagged("push") /\ p \in 1..n
        BY <1>4, <1>5, <3>2
      <4>2. PICK d \in 1..m : p = pos[d]
        BY <1>2, <1>3, <1>7, <2>6, <4>1 DEF Saved
      <4> QED BY <2>2, <2>3, <4>2
    <3> QED BY <3>1, <3>2
  <2>7. Saved(new)'
    BY <1>1, <2>1, <2>5, <2>6 DEF Saved
  <2> QED BY <2>1, <2>2, <2>7 DEF StackFollows
<1> QED BY <1>2, <1>10, <1>11

(* A Pop brings back what was in force at the Push it undoes; one without  *)
(* a Push changes nothing.                                                 *)
LEMMA StackPopped ==
  ASSUME NEW it, NEW n, Reads(it, n), stack \in Seq(Globals), it.tag = "pop",
         StackFollows, GlobalsFollow
  PROVE  /\ stack = <<>> => /\ g = GlobalsAt(n + 1)'
                            /\ stack' = stack => StackFollows'
         /\ stack # <<>> => /\ stack[Len(stack)] = GlobalsAt(n + 1)'
                            /\ stack' = SubSeq(stack, 1, Len(stack) - 1) => StackFollows'
<1>1. n \in Nat /\ Now' = n + 1 /\ n = Now
  BY Reading
<1>2. PICK m \in Nat : DOMAIN stack = 1..m /\ m = Len(stack)
  OBVIOUS
<1>3. PICK pos \in [1..m -> Nat] : Saved(pos)
  BY <1>2 DEF StackFollows
<1>4. \A p : p \in Tagged("push") => p \in 1..n
  BY TaggedGrows
<1>5. Tagged("push")' = Tagged("push")
  <2>1. Tagged("push")' = Tagged("push") \cup (IF it.tag = "push" THEN {n + 1} ELSE {})
    BY TaggedGrows
  <2> QED BY <2>1
<1>6. ASSUME NEW p \in 1..n PROVE Nested(p, n + 1)' = Nested(p, n) - 1 /\ Nested(p, n) \in Int
  <2>1. p \in 1..(n + 1)
    BY <1>1
  <2> QED BY <1>1, <2>1, NestedGrows
<1>7. ASSUME NEW p \in 1..n PROVE Open(p)' <=> Open(p) /\ Nested(p, n) > 1
  <2>1. Open(p)' <=> Open(p) /\ Nested(p, n + 1)' > 0
    BY OpenNext
  <2> QED BY <1>6, <2>1
<1>8. ASSUME NEW d \in 1..m
      PROVE  /\ pos[d] \in 1..n /\ pos[d] \in Tagged("push") /\ Open(pos[d])
             /\ Nested(pos[d], n) = m - d + 1
             /\ stack[d] = GlobalsAt(pos[d])
  BY <1>1, <1>2, <1>3, <1>4 DEF Saved
<1>9. ASSUME NEW p \in Tagged("push"), Open(p)
      PROVE  \E d \in 1..m : p = pos[d]
  BY <1>2, <1>3, <1>9 DEF Saved
<1>10. ASSUME m = 0 PROVE g = GlobalsAt(n + 1)'
  <2>1. ~ \E q \in Tagged("push") : Open(q) /\ Nested(q, n) = 1
    BY <1>9, <1>10
  <2>2. ASSUME NEW t, t # "pop"
        PROVE  Global(t, n + 1)' = Global(t, n) /\ SignedGlobal(t, n + 1)' = SignedGlobal(t, n)
    <3>1. Setter(t, n + 1)' = Setter(t, n)
      BY <2>1, <2>2, SetterUnpopped
    <3>2. n \in 0..n
      BY <1>1
    <3> QED BY <3>1, <3>2, GlobalAgain
  <2>3. GlobalsAt(n + 1)' = GlobalsAt(n)
    BY <2>2 DEF GlobalsAt, ReportOf
  <2> QED BY <1>1, <2>3 DEF GlobalsFollow
<1>11. ASSUME m # 0 PROVE stack[m] = GlobalsAt(n + 1)'
  <2>1. m \in 1..m
    BY <1>11
  <2>2. PICK p : p = pos[m]
    OBVIOUS
  <2>3. /\ p \in 1..n /\ p \in Tagged("push") /\ Open(p) /\ Nested(p, n) = 1
        /\ stack[m] = GlobalsAt(p)
    <3>1. m - m + 1 = 1
      OBVIOUS
    <3> QED BY <1>8, <2>1, <2>2, <3>1
  <2>4. ASSUME NEW q \in Tagged("push"), Open(q), Nested(q, n) = 1 PROVE q = p
    <3>1. PICK d \in 1..m : q = pos[d]
      BY <1>9, <2>4
    <3>2. m - d + 1 = 1
      BY <1>8, <2>4, <3>1
    <3>3. d = m
      BY <3>2
    <3> QED BY <2>2, <3>1, <3>3
  <2>5. ASSUME NEW t, t # "pop", t # "push"
        PROVE  Global(t, n + 1)' = Global(t, p) /\ SignedGlobal(t, n + 1)' = SignedGlobal(t, p)
    <3>1. Setter(t, n + 1)' = Setter(t, p)
      BY <2>3, <2>4, <2>5, SetterPopped
    <3>2. p \in 0..n
      BY <1>1, <2>3
    <3> QED BY <3>1, <3>2, GlobalAgain
  <2>6. GlobalsAt(n + 1)' = GlobalsAt(p)
    BY <2>5 DEF GlobalsAt, ReportOf
  <2> QED BY <2>3, <2>6
<1>12. ASSUME NEW k \in Nat, k <= m, m <= k + 1, m > 0 => k = m - 1,
              DOMAIN stack' = 1..k, Len(stack') = k, \A d \in 1..k : stack'[d] = stack[d]
       PROVE  StackFollows'
  <2> DEFINE new == [d \in 1..k |-> pos[d]]
  <2>1. new \in [1..k -> Nat] /\ \A d \in 1..k : new[d] = pos[d] /\ d \in 1..m
    BY <1>12
  <2> HIDE DEF new
  <2>2. ASSUME NEW d \in 1..k
        PROVE  /\ new[d] \in Tagged("push")' /\ Open(new[d])'
               /\ Nested(new[d], n + 1)' = k - d + 1
               /\ stack'[d] = GlobalsAt(new[d])'
    <3>1. PICK p : p = new[d]
      OBVIOUS
    <3>2. /\ p \in 1..n /\ p \in Tagged("push") /\ Open(p)
          /\ Nested(p, n) = m - d + 1 /\ stack[d] = GlobalsAt(p)
      BY <1>8, <2>1, <3>1
    <3>3. m = k + 1 /\ d <= k
      BY <1>12
    <3>4. Nested(p, n + 1)' = k - d + 1 /\ Open(p)'
      <4>1. m - d + 1 = (k - d + 1) + 1 /\ k - d + 1 > 0
        BY <3>3
      <4> QED BY <1>6, <1>7, <3>2, <4>1
    <3>5. GlobalsAt(p)' = GlobalsAt(p)
      <4>1. p \in 0..n
        BY <1>1, <3>2
      <4> QED BY <4>1, RecordStays
    <3> QED BY <1>5, <1>12, <3>1, <3>2, <3>4, <3>5
  <2>3. ASSUME NEW p \in Tagged("push")', Open(p)' PROVE \E d \in 1..k : p = new[d]
    <3>1. p \in Tagged("push") /\ p \in 1..n
      BY <1>4, <1>5
    <3>2. Open(p) /\ Nested(p, n) > 1
      BY <1>7, <2>3, <3>1
    <3>3. PICK d \in 1..m : p = pos[d]
      BY <1>9, <3>1, <3>2
    <3>4. m - d + 1 > 1
      BY <1>8, <3>2, <3>3
    <3>5. d \in 1..k
      BY <1>12, <3>4
    <3> QED BY <2>1, <3>3, <3>5
  <2>4. Saved(new)'
    BY <1>1, <1>12, <2>2, <2>3 DEF Saved
  <2> QED BY <1>12, <2>1, <2>4 DEF StackFollows
<1>13. CASE stack = <<>>
  <2>1. m = 0
    BY <1>2, <1>13
  <2>2. stack' = stack => DOMAIN stack' = 1..m /\ Len(stack') = m /\ \A d \in 1..m : stack'[d] = stack[d]
    BY <1>2
  <2>3. stack' = stack => StackFollows'
    BY <1>12, <2>1, <2>2
  <2> QED BY <1>10, <1>13, <2>1, <2>3
<1>14. CASE stack # <<>>
  <2>1. m # 0
    BY <1>2, <1>14
  <2>2. m - 1 \in Nat /\ m - 1 <= m /\ m <= (m - 1) + 1
    BY <2>1
  <2>3. ASSUME stack' = SubSeq(stack, 1, m - 1) PROVE StackFollows'
    <3>1. DOMAIN stack' = 1..(m - 1) /\ Len(stack') = m - 1 /\ \A d \in 1..(m - 1) : stack'[d] = stack[d]
      BY <1>2, <2>2, <2>3, SubSeqProperties
    <3> QED BY <1>12, <2>2, <3>1
  <2> QED BY <1>2, <1>11, <1>14, <2>1, <2>3
<1> QED BY <1>13, <1>14

(* What is in force after an item that is no Pop. *)
LEMMA GlobalsNext ==
  ASSUME NEW it, NEW n, Reads(it, n), it.tag # "pop", GlobalsFollow
  PROVE  /\ g \in Globals
         /\ GlobalsAt(n + 1)' =
              [page |-> IF it.tag = "page" THEN it.raw ELSE g.page,
               min |-> IF it.tag = "min" THEN Signed(it) ELSE g.min,
               max |-> IF it.tag = "max" THEN Signed(it) ELSE g.max,
               maxRaw |-> IF it.tag = "max" THEN it.raw ELSE g.maxRaw,
               size |-> IF it.tag = "size" THEN it.raw ELSE g.size,
               count |-> IF it.tag = "count" THEN it.raw ELSE g.count,
               id |-> IF it.tag = "id" THEN it.raw % 256 ELSE g.id]
<1>1. n \in Nat /\ n = Now /\ n \in 0..n
  BY Reading
<1>2. \A t : /\ Global(t, n + 1)' = IF it.tag = t THEN it.raw ELSE Global(t, n)
             /\ SignedGlobal(t, n + 1)' = IF it.tag = t THEN Signed(it) ELSE SignedGlobal(t, n)
  BY GlobalNext
<1>3. g = GlobalsAt(n) /\ g \in Globals
  BY <1>1, RecordStays DEF GlobalsFollow
<1>4. /\ g.page = Global("page", n) /\ g.min = SignedGlobal("min", n)
      /\ g.max = SignedGlobal("max", n) /\ g.maxRaw = Global("max", n)
      /\ g.size = Global("size", n) /\ g.count = Global("count", n)
      /\ g.id = Global("id", n) % 256
  BY <1>3 DEF GlobalsAt, ReportOf
<1>5. GlobalsAt(n + 1)' =
        [page |-> Global("page", n + 1)', min |-> SignedGlobal("min", n + 1)',
         max |-> SignedGlobal("max", n + 1)', maxRaw |-> Global("max", n + 1)',
         size |-> Global("size", n + 1)', count |-> Global("count", n + 1)',
         id |-> Global("id", n + 1)' % 256]
  BY DEF GlobalsAt, ReportOf
<1>6. Global("id", n + 1)' % 256 = IF it.tag = "id" THEN it.raw % 256 ELSE g.id
  BY <1>2, <1>4
<1> QED BY <1>2, <1>3, <1>4, <1>5, <1>6

-----------------------------------------------------------------------------
(* The locals.                                                             *)

(* Every rank up to the count is some member's.                            *)
LEMMA CountReached ==
  ASSUME NEW S, NEW n \in Nat, NEW r \in 1..Count(S, n)
  PROVE  \E i \in S : i \in 1..n /\ Count(S, i) = r
<1> DEFINE Good == {k \in 0..n : r <= Count(S, k) => \E i \in S : i \in 1..n /\ Count(S, i) = r}
<1>1. 0 \in Good
  BY CountRule
<1>2. ASSUME NEW i \in 1..n, i - 1 \in Good PROVE i \in Good
  <2>1. i - 1 \in Nat /\ (i - 1) + 1 = i /\ i \in Nat
    OBVIOUS
  <2>2. Count(S, i) = Count(S, i - 1) + (IF i \in S THEN 1 ELSE 0)
    BY <2>1, CountRule
  <2>3. Count(S, i - 1) \in Nat /\ Count(S, i) \in Nat /\ Count(S, n) \in Nat
    BY <2>1, CountType
  <2>4. CASE r <= Count(S, i - 1)
    BY <1>2, <2>4
  <2>5. CASE ~ (r <= Count(S, i - 1)) /\ r <= Count(S, i)
    <3>1. i \in S /\ Count(S, i) = r
      BY <2>2, <2>3, <2>5
    <3> QED BY <3>1
  <2>6. CASE ~ (r <= Count(S, i))
    BY <2>6
  <2> QED BY <2>4, <2>5, <2>6
<1> HIDE DEF Good
<1>3. \A i \in 0..n : i \in Good
  BY <1>1, <1>2, StepByStep
<1>4. n \in Good
  BY <1>3
<1>5. Count(S, n) \in Nat
  BY CountType
<1> QED BY <1>4, <1>5 DEF Good

(* The locals of a main item are settled when it comes; it leaves none to  *)
(* the next.                                                               *)
LEMMA OwnStays ==
  ASSUME NEW it, NEW n, Reads(it, n), NEW j \in 0..(n + 1), NEW t
  PROVE  Own(t, j)' = Own(t, j) /\ Own(t, j) \subseteq 1..n /\ \A i \in Own(t, j) : i < j
<1>1. n \in Nat /\ n = Now
  BY Reading
<1>2. /\ Tagged(t) \subseteq 1..n /\ Tagged("input") \subseteq 1..n /\ Tagged("main") \subseteq 1..n
      /\ Tagged(t)' = Tagged(t) \cup (IF it.tag = t THEN {n + 1} ELSE {})
      /\ Tagged("input")' = Tagged("input") \cup (IF it.tag = "input" THEN {n + 1} ELSE {})
      /\ Tagged("main")' = Tagged("main") \cup (IF it.tag = "main" THEN {n + 1} ELSE {})
  BY TaggedGrows
<1> DEFINE Main == Inputs \cup Tagged("main")
<1>3. \A m : m < j => (m \in Main' <=> m \in Main)
  BY <1>1, <1>2 DEF Inputs
<1>4. \A i : i < j => (i \in Tagged(t)' <=> i \in Tagged(t))
  BY <1>1, <1>2
<1>5. Own(t, j)' = {i \in Tagged(t)' : i < j /\ ~ \E m \in Main' : i < m /\ m < j}
  BY DEF Own
<1>6. Own(t, j) = {i \in Tagged(t) : i < j /\ ~ \E m \in Main : i < m /\ m < j}
  BY DEF Own
<1> HIDE DEF Main
<1>7. \A i : i \in Own(t, j)' <=> i \in Own(t, j)
  BY <1>3, <1>4, <1>5, <1>6
<1> QED BY <1>2, <1>6, <1>7

LEMMA OwnNext ==
  ASSUME NEW it, NEW n, Reads(it, n), NEW t
  PROVE  /\ it.tag \in {"input", "main"} => Own(t, n + 2)' \subseteq {n + 1} /\
                                            (it.tag # t => Own(t, n + 2)' = {})
         /\ it.tag \notin {"input", "main"} =>
              Own(t, n + 2)' = Own(t, n + 1) \cup (IF it.tag = t THEN {n + 1} ELSE {})
<1>1. n \in Nat /\ n = Now
  BY Reading
<1>2. /\ Tagged(t) \subseteq 1..n /\ Tagged("input") \subseteq 1..n /\ Tagged("main") \subseteq 1..n
      /\ Tagged(t)' = Tagged(t) \cup (IF it.tag = t THEN {n + 1} ELSE {})
      /\ Tagged("input")' = Tagged("input") \cup (IF it.tag = "input" THEN {n + 1} ELSE {})
      /\ Tagged("main")' = Tagged("main") \cup (IF it.tag = "main" THEN {n + 1} ELSE {})
  BY TaggedGrows
<1> DEFINE Main == Inputs \cup Tagged("main")
<1>3. Main' = Main \cup (IF it.tag \in {"input", "main"} THEN {n + 1} ELSE {}) /\ Main \subseteq 1..n
  BY <1>2 DEF Inputs
<1>4. Own(t, n + 2)' = {i \in Tagged(t)' : i < n + 2 /\ ~ \E m \in Main' : i < m /\ m < n + 2}
  BY DEF Own
<1>5. Own(t, n + 1) = {i \in Tagged(t) : i < n + 1 /\ ~ \E m \in Main : i < m /\ m < n + 1}
  BY DEF Own
<1> HIDE DEF Main
<1>6. CASE it.tag \in {"input", "main"}
  <2>1. n + 1 \in Main' /\ n + 1 < n + 2
    BY <1>1, <1>3, <1>6
  <2>2. \A i \in Tagged(t) : i < n + 1
    BY <1>1, <1>2
  <2>3. \A i \in Own(t, n + 2)' : i = n + 1 /\ it.tag = t
    BY <1>2, <1>4, <2>1, <2>2
  <2> QED BY <1>6, <2>3
<1>7. CASE it.tag \notin {"input", "main"}
  <2>1. Main' = Main
    BY <1>3, <1>7
  <2>2. \A m \in Main : m < n + 1 /\ m < n + 2 /\ ~ (n + 1 < m)
    BY <1>1, <1>3
  <2>3. \A i \in Tagged(t) : i < n + 1 /\ i < n + 2
    BY <1>1, <1>2
  <2>4. \A i : i \in Own(t, n + 2)' <=> i \in Own(t, n + 1) \/ (i = n + 1 /\ it.tag = t)
    <3>1. n + 1 < n + 2
      BY <1>1
    <3> QED BY <1>2, <1>4, <1>5, <2>1, <2>2, <2>3, <3>1
  <2> QED BY <1>7, <2>4
<1> QED BY <1>6, <1>7

(* A usage takes its page from where it is declared.                       *)
LEMMA DeclaredStays ==
  ASSUME NEW it, NEW n, Reads(it, n), NEW i \in 1..n
  PROVE  Declared(i)' = Declared(i)
<1>1. read'[i] = read[i] /\ i \in 0..n
  BY Reading
<1>2. Global("page", i)' = Global("page", i)
  BY <1>1, GlobalStays
<1> QED BY <1>1, <1>2 DEF Declared

LEMMA DeclaredNext ==
  ASSUME NEW it, NEW n, Reads(it, n), it.tag # "pop", it.tag # "page", GlobalsFollow
  PROVE  Declared(n + 1)' = FullUsage(it)
<1>1. read'[n + 1] = it /\ n = Now
  BY Reading
<1>2. Global("page", n + 1)' = Global("page", n)
  <2>1. Global("page", n + 1)' = IF it.tag = "page" THEN it.raw ELSE Global("page", n)
    BY GlobalNext
  <2> QED BY <2>1
<1>3. g.page = Global("page", n)
  BY <1>1 DEF GlobalsFollow, GlobalsAt
<1>4. Declared(n + 1)' = IF it.bytes = 4 THEN it.raw ELSE (Global("page", n + 1)' * PageUnit + it.raw) % Modulus
  BY <1>1 DEF Declared, PageUnit, Modulus
<1> QED BY <1>2, <1>3, <1>4 DEF FullUsage

(* The last of some positions.                                             *)
LEMMA LastMember ==
  ASSUME NEW n \in Nat, NEW S, S \subseteq 1..n
  PROVE  /\ S # {} => Last(S) \in S
         /\ Last(S \cup {n + 1}) = n + 1
<1>1. ASSUME S # {} PROVE Last(S) \in S
  BY <1>1, GreatestElement DEF Last
<1>2. Last(S \cup {n + 1}) = n + 1
  <2> DEFINE R == S \cup {n + 1}
             last == CHOOSE i \in R : \A j \in R : j <= i
  <2>1. R \subseteq 1..(n + 1) /\ R # {} /\ n + 1 \in Nat /\ n + 1 \in R
    OBVIOUS
  <2>2. last \in R /\ n + 1 <= last
    <3> HIDE DEF R
    <3> QED BY <2>1, GreatestElement
  <2>3. last = n + 1
    <3> HIDE DEF R, last
    <3> QED BY <2>1, <2>2
  <2> QED BY <2>3 DEF Last
<1> QED BY <1>1, <1>2

(* A bound of a usage range: kept, set or cleared.                         *)
LEMMA BoundStays ==
  ASSUME NEW it, NEW n, Reads(it, n), NEW t, it.tag # t, it.tag \notin {"input", "main"},
         NEW have, NEW value, BoundFollows(have, value, t)
  PROVE  BoundFollows(have, value, t)'
<1>1. n \in Nat /\ n = Now /\ Now' = n + 1 /\ (n + 1) + 1 = n + 2
  BY Reading
<1>2. PICK own : own = Own(t, n + 1)
  OBVIOUS
<1>3. own \subseteq 1..n
  <2>1. n + 1 \in 0..(n + 1)
    BY <1>1
  <2> QED BY <1>2, <2>1, OwnStays
<1>4. Own(t, n + 2)' = own
  <2>1. Own(t, n + 2)' = Own(t, n + 1) \cup (IF it.tag = t THEN {n + 1} ELSE {})
    BY OwnNext
  <2> QED BY <1>2, <2>1
<1>5. (have <=> own # {}) /\ (own # {} => value = Declared(Last(own)))
  BY <1>1, <1>2 DEF BoundFollows
<1>6. PICK last : last = Last(own)
  OBVIOUS
<1>7. own # {} => Declared(last)' = Declared(last)
  BY <1>1, <1>3, <1>6, LastMember, DeclaredStays
<1>8. Own(t, Now + 1)' = own
  BY <1>1, <1>4 DEF Own
<1> QED BY <1>5, <1>6, <1>7, <1>8 DEF BoundFollows

LEMMA BoundSet ==
  ASSUME NEW it, NEW n, Reads(it, n), it.tag \notin {"input", "main", "pop", "page"}, GlobalsFollow,
         NEW value, value = FullUsage(it)
  PROVE  BoundFollows(TRUE, value, it.tag)'
<1> DEFINE t == it.tag
<1>1. n \in Nat /\ n = Now /\ Now' = n + 1 /\ (n + 1) + 1 = n + 2
  BY Reading
<1>2. PICK own : own = Own(t, n + 1)
  OBVIOUS
<1>3. own \subseteq 1..n
  <2>1. n + 1 \in 0..(n + 1)
    BY <1>1
  <2> QED BY <1>2, <2>1, OwnStays
<1>4. Own(t, Now + 1)' = own \cup {n + 1}
  <2>1. Own(t, n + 2)' = own \cup {n + 1}
    <3> HIDE DEF t
    <3>1. Own(t, n + 2)' = Own(t, n + 1) \cup (IF it.tag = t THEN {n + 1} ELSE {})
      BY OwnNext
    <3> QED BY <1>2, <3>1 DEF t
  <2> QED BY <1>1, <2>1 DEF Own
<1>5. Last(own \cup {n + 1}) = n + 1
  BY <1>1, <1>3, LastMember
<1>6. Declared(n + 1)' = FullUsage(it)
  BY DeclaredNext
<1> QED BY <1>4, <1>5, <1>6 DEF BoundFollows

LEMMA BoundCleared ==
  ASSUME NEW it, NEW n, Reads(it, n), it.tag \in {"input", "main"},
         NEW t, t \notin {"input", "main"}, NEW value
  PROVE  BoundFollows(FALSE, value, t)'
<1>1. n \in Nat /\ Now' = n + 1 /\ (n + 1) + 1 = n + 2
  BY Reading
<1>2. Own(t, Now + 1)' = {}
  <2>1. Own(t, n + 2)' = {}
    BY OwnNext
  <2> QED BY <1>1, <2>1 DEF Own
<1> QED BY <1>2 DEF BoundFollows

(* The list of usages: kept, extended or cleared.                          *)
LEMMA UsagesStay ==
  ASSUME NEW it, NEW n, Reads(it, n), it.tag \notin {"usage", "input", "main"},
         loc'.usages = loc.usages, UsagesFollow
  PROVE  UsagesFollow'
<1>1. n \in Nat /\ n = Now /\ Now' = n + 1 /\ (n + 1) + 1 = n + 2
  BY Reading
<1>2. PICK own : own = Own("usage", n + 1)
  OBVIOUS
<1>3. own \subseteq 1..n
  <2>1. n + 1 \in 0..(n + 1)
    BY <1>1
  <2> QED BY <1>2, <2>1, OwnStays
<1>4. Own("usage", Now + 1)' = own
  <2>1. Own("usage", n + 2)' = own
    <3>1. Own("usage", n + 2)' = Own("usage", n + 1) \cup (IF it.tag = "usage" THEN {n + 1} ELSE {})
      BY OwnNext
    <3> QED BY <1>2, <3>1
  <2> QED BY <1>1, <2>1 DEF Own
<1>5. Count(own, n + 1) = Count(own, n)
  <2>1. Count(own, n + 1) = Count(own, n) + (IF n + 1 \in own THEN 1 ELSE 0) /\ Count(own, n) \in Nat
    BY <1>1, CountRule, CountType
  <2>2. n + 1 \notin own
    BY <1>1, <1>3
  <2> QED BY <2>1, <2>2
<1>6. \A i \in own : Declared(i)' = Declared(i)
  BY <1>3, DeclaredStays
<1> DEFINE us == loc.usages
<1>7. /\ Len(us) = Lesser(Count(own, n), MaxLocalUsages)
      /\ \A i \in own : Count(own, i) <= MaxLocalUsages =>
           Count(own, i) \in DOMAIN us /\ us[Count(own, i)] = Declared(i)
      /\ \A r \in DOMAIN us : \E i \in own : Count(own, i) = r
  BY <1>1, <1>2 DEF UsagesFollow
<1>8. /\ Count(Own("usage", Now + 1), Now)' = Count(own, n)
      /\ \A i : Count(Own("usage", Now + 1)', i) = Count(own, i)
  <2>1. Count(Own("usage", Now + 1), Now)' = Count(own, n + 1)
    BY <1>1, <1>4 DEF Count
  <2> QED BY <1>4, <1>5, <2>1
<1> QED BY <1>1, <1>4, <1>5, <1>6, <1>7, <1>8 DEF UsagesFollow

(* A usage is added to the list while there is room.                       *)
LEMMA UsagesAdded ==
  ASSUME NEW it, NEW n, Reads(it, n), it.tag = "usage", GlobalsFollow, loc \in Locals,
         loc'.usages = IF Len(loc.usages) < MaxLocalUsages
                       THEN Append(loc.usages, FullUsage(it)) ELSE loc.usages,
         UsagesFollow
  PROVE  UsagesFollow'
<1>1. n \in Nat /\ n = Now /\ Now' = n + 1 /\ (n + 1) + 1 = n + 2 /\ MaxLocalUsages \in Nat
  BY Reading, LimitsAssumption
<1>2. PICK own : own = Own("usage", n + 1)
  OBVIOUS
<1>3. own \subseteq 1..n /\ n + 1 \notin own
  <2>1. n + 1 \in 0..(n + 1)
    BY <1>1
  <2>2. own \subseteq 1..n
    BY <1>2, <2>1, OwnStays
  <2> QED BY <1>1, <2>2
<1>4. Own("usage", Now + 1)' = own \cup {n + 1}
  <2>1. Own("usage", n + 2)' = own \cup {n + 1}
    <3>1. Own("usage", n + 2)' = Own("usage", n + 1) \cup (IF it.tag = "usage" THEN {n + 1} ELSE {})
      BY OwnNext
    <3> QED BY <1>2, <3>1
  <2> QED BY <1>1, <2>1 DEF Own
<1> DEFINE more == own \cup {n + 1}
           us == loc.usages
           vs == loc'.usages
           c == Count(own, n)
<1>5. c \in Nat
  BY <1>1, CountType
<1>6. \A i \in own : Count(more, i) = Count(own, i) /\ Count(own, i) \in Nat /\ Count(own, i) <= c
  <2> SUFFICES ASSUME NEW i \in own
               PROVE  Count(more, i) = Count(own, i) /\ Count(own, i) \in Nat /\ Count(own, i) <= c
    OBVIOUS
  <2>1. i \in Nat /\ i <= n /\ i \in 1..n
    BY <1>1, <1>3
  <2>2. \A k \in 1..i : k \in more <=> k \in own
    BY <1>1, <2>1
  <2>3. Count(more, i) = Count(own, i)
    <3> HIDE DEF more
    <3> QED BY <2>1, <2>2, CountSame
  <2> QED BY <1>1, <2>1, <2>3, CountType, CountGrows
<1>7. Count(more, n + 1) = c + 1
  <2>1. Count(more, n) = Count(own, n)
    <3>1. \A k \in 1..n : k \in more <=> k \in own
      BY <1>1
    <3> HIDE DEF more
    <3> QED BY <1>1, <3>1, CountSame
  <2>2. Count(more, n + 1) = Count(more, n) + (IF n + 1 \in more THEN 1 ELSE 0)
    BY <1>1, CountRule
  <2>3. n + 1 \in more
    OBVIOUS
  <2> HIDE DEF more
  <2> QED BY <2>1, <2>2, <2>3
<1>8. (\A i \in own : Declared(i)' = Declared(i)) /\ Declared(n + 1)' = FullUsage(it)
  BY <1>3, DeclaredStays, DeclaredNext
<1>9. /\ Len(us) = Lesser(c, MaxLocalUsages)
      /\ \A i \in own : Count(own, i) <= MaxLocalUsages =>
           Count(own, i) \in DOMAIN us /\ us[Count(own, i)] = Declared(i)
      /\ \A r \in DOMAIN us : \E i \in own : Count(own, i) = r
  BY <1>1, <1>2 DEF UsagesFollow
<1>10. us \in Seq(Nat) /\ DOMAIN us = 1..Len(us) /\ Len(us) \in Nat
  BY DEF Locals
<1>11. SUFFICES /\ Len(vs) = Lesser(c + 1, MaxLocalUsages)
                /\ \A i \in more : Count(more, i) <= MaxLocalUsages =>
                     Count(more, i) \in DOMAIN vs /\ vs[Count(more, i)] = Declared(i)'
                /\ \A r \in DOMAIN vs : \E i \in more : Count(more, i) = r
  <2>1. /\ Count(Own("usage", Now + 1), Now)' = Count(more, n + 1)
        /\ Own("usage", Now + 1)' = more
        /\ \A i : Count(Own("usage", Now + 1)', i) = Count(more, i)
    BY <1>1, <1>4 DEF Count
  <2> HIDE DEF more, c
  <2> QED BY <1>7, <2>1 DEF UsagesFollow
<1>12. \A i : i \in more <=> i \in own \/ i = n + 1
  OBVIOUS
<1> HIDE DEF more, c, us
<1>13. CASE Len(us) < MaxLocalUsages
  <2>1. Len(us) = c
    BY <1>1, <1>5, <1>9, <1>13 DEF Lesser
  <2>2. vs = Append(us, FullUsage(it))
    BY <1>13 DEF us
  <2>3. FullUsage(it) \in Nat
    <3>1. it \in Items /\ n \in 0..n
      BY <1>1, Reading
    <3>2. it.raw \in Nat
      BY <3>1 DEF Items
    <3>3. g.page \in Nat
      BY <1>1, <3>1, RecordStays DEF GlobalsFollow, Globals
    <3>4. PageUnit \in Nat /\ Modulus \in Nat \ {0}
      BY WidthAssumption DEF PageUnit, Modulus
    <3>5. g.page * PageUnit \in Nat
      BY <3>3, <3>4
    <3>6. g.page * PageUnit + it.raw \in Nat
      BY <3>2, <3>5
    <3>7. (g.page * PageUnit + it.raw) % Modulus \in Nat
      <4> DEFINE a == g.page * PageUnit + it.raw
      <4> HIDE DEF a
      <4>1. a \in Nat
        BY <3>6 DEF a
      <4>2. a % Modulus \in Nat
        BY <3>4, <4>1
      <4> QED BY <4>2 DEF a
    <3> QED BY <3>2, <3>7 DEF FullUsage
  <2> HIDE DEF vs
  <2>4. Len(vs) = c + 1 /\ DOMAIN vs = 1..(c + 1) /\ vs[c + 1] = FullUsage(it)
        /\ \A r \in 1..c : vs[r] = us[r]
    BY <1>10, <2>1, <2>2, <2>3, AppendProperties
  <2>5. \A r : r \in 1..(c + 1) <=> r \in 1..c \/ r = c + 1
    BY <1>5
  <2>6. ASSUME NEW i \in more, Count(more, i) <= MaxLocalUsages
        PROVE  Count(more, i) \in DOMAIN vs /\ vs[Count(more, i)] = Declared(i)'
    <3>1. CASE i \in own
      BY <1>6, <1>8, <1>9, <1>10, <2>1, <2>4, <2>5, <2>6, <3>1
    <3>2. CASE i = n + 1
      BY <1>7, <1>8, <2>4, <2>5, <3>2
    <3> QED BY <1>12, <3>1, <3>2
  <2>7. ASSUME NEW r \in DOMAIN vs PROVE \E i \in more : Count(more, i) = r
    <3>1. CASE r \in 1..c
      BY <1>6, <1>9, <1>10, <1>12, <2>1, <3>1
    <3>2. CASE r = c + 1
      BY <1>7, <1>12, <3>2
    <3> QED BY <2>4, <2>5, <3>1, <3>2
  <2>8. Lesser(c + 1, MaxLocalUsages) = c + 1
    BY <1>1, <1>5, <1>13, <2>1 DEF Lesser
  <2> QED BY <2>4, <2>6, <2>7, <2>8
<1>14. CASE ~ (Len(us) < MaxLocalUsages)
  <2>1. Len(us) = MaxLocalUsages /\ c >= MaxLocalUsages
    BY <1>1, <1>5, <1>9, <1>14 DEF Lesser
  <2>2. vs = us
    BY <1>14 DEF us
  <2> HIDE DEF vs
  <2>3. Lesser(c + 1, MaxLocalUsages) = MaxLocalUsages
    BY <1>1, <1>5, <2>1 DEF Lesser
  <2>4. ASSUME NEW i \in more, Count(more, i) <= MaxLocalUsages
        PROVE  Count(more, i) \in DOMAIN vs /\ vs[Count(more, i)] = Declared(i)'
    <3>1. CASE i \in own
      BY <1>6, <1>8, <1>9, <2>2, <2>4, <3>1
    <3>2. CASE i = n + 1
      BY <1>1, <1>5, <1>7, <2>1, <2>4, <3>2
    <3> QED BY <1>12, <3>1, <3>2
  <2>5. \A r \in DOMAIN vs : \E i \in more : Count(more, i) = r
    BY <1>6, <1>9, <1>12, <2>2
  <2> QED BY <2>1, <2>2, <2>3, <2>4, <2>5
<1> QED BY <1>13, <1>14

(* A main item clears the list.                                            *)
LEMMA UsagesCleared ==
  ASSUME NEW it, NEW n, Reads(it, n), it.tag \in {"input", "main"}, loc'.usages = <<>>
  PROVE  UsagesFollow'
<1>1. n \in Nat /\ Now' = n + 1 /\ (n + 1) + 1 = n + 2 /\ n + 1 \in Nat /\ MaxLocalUsages \in Nat
  BY Reading, LimitsAssumption
<1>2. Own("usage", Now + 1)' = {}
  <2>1. Own("usage", n + 2)' = {}
    BY OwnNext
  <2> QED BY <1>1, <2>1 DEF Own
<1>3. Count(Own("usage", Now + 1), Now)' = 0
  <2>1. Count(Own("usage", Now + 1), Now)' = Count({}, n + 1)
    BY <1>1, <1>2 DEF Count
  <2>2. Count({}, n + 1) = 0
    BY <1>1, CountZero
  <2> QED BY <2>1, <2>2
<1>4. Lesser(0, MaxLocalUsages) = 0 /\ Len(<<>>) = 0 /\ DOMAIN <<>> = {}
  BY <1>1 DEF Lesser
<1> QED BY <1>2, <1>3, <1>4 DEF UsagesFollow

(* The usages of a main item are settled before it comes.                  *)
LEMMA UsageStays ==
  ASSUME NEW it, NEW n, Reads(it, n), NEW m \in 1..(n + 1), NEW k \in Nat
  PROVE  UsageAt(m, k)' = UsageAt(m, k)
<1>1. n \in Nat /\ m \in Nat /\ m \in 0..(n + 1) /\ MaxLocalUsages \in Nat \ {0}
  BY Reading, LimitsAssumption
<1>2. ASSUME NEW t PROVE Own(t, m)' = Own(t, m) /\ Own(t, m) \subseteq 1..n
  BY <1>1, OwnStays
<1>3. \A i \in 1..n : Declared(i)' = Declared(i)
  BY DeclaredStays
<1>4. PICK mins : mins = Own("usageMin", m)
  OBVIOUS
<1>5. PICK maxs : maxs = Own("usageMax", m)
  OBVIOUS
<1>6. PICK own : own = Own("usage", m)
  OBVIOUS
<1> DEFINE pick(S) == CHOOSE i \in S : Count(S, i) = Lesser(k + 1, Lesser(Count(S, m), MaxLocalUsages))
<1>7. /\ mins # {} => Last(mins) \in 1..n
      /\ maxs # {} => Last(maxs) \in 1..n
  BY <1>1, <1>2, <1>4, <1>5, LastMember
<1>8. ASSUME own # {} PROVE pick(own) \in 1..n
  <2> DEFINE rank == Lesser(k + 1, Lesser(Count(own, m), MaxLocalUsages))
  <2>1. own \subseteq 1..m
    <3>1. own \subseteq 1..n /\ \A i \in own : i < m
      BY <1>1, <1>6, OwnStays
    <3> QED BY <1>1, <3>1
  <2>2. Count(own, m) \in Nat /\ Count(own, m) # 0
    BY <1>1, <1>8, <2>1, CountZero, CountType
  <2>3. rank \in 1..Count(own, m)
    BY <1>1, <2>2 DEF Lesser
  <2>4. \E i \in own : Count(own, i) = rank
    <3> HIDE DEF rank
    <3> QED BY <1>1, <2>3, CountReached
  <2>5. pick(own) \in own
    BY <2>4
  <2> QED BY <1>2, <1>6, <2>5
<1>9. UsageAt(m, k) = IF Own("usageMin", m) # {} /\ Own("usageMax", m) # {}
                      THEN Lesser((Declared(Last(Own("usageMin", m))) + k) % Modulus,
                                  Declared(Last(Own("usageMax", m))))
                      ELSE IF Own("usage", m) = {} THEN NoUsage
                      ELSE Declared(pick(Own("usage", m)))
  BY DEF UsageAt
<1>10. UsageAt(m, k)' = IF Own("usageMin", m)' # {} /\ Own("usageMax", m)' # {}
                        THEN Lesser((Declared(Last(Own("usageMin", m)))' + k) % Modulus,
                                    Declared(Last(Own("usageMax", m)))')
                        ELSE IF Own("usage", m)' = {} THEN NoUsage
                        ELSE Declared(pick(Own("usage", m)))'
  BY DEF UsageAt, Modulus, NoUsage, Lesser
<1> HIDE DEF pick
<1>11. UsageAt(m, k)' = IF mins # {} /\ maxs # {}
                        THEN Lesser((Declared(Last(mins))' + k) % Modulus, Declared(Last(maxs))')
                        ELSE IF own = {} THEN NoUsage ELSE Declared(pick(own))'
  BY <1>2, <1>4, <1>5, <1>6, <1>10
<1>12. UsageAt(m, k) = IF mins # {} /\ maxs # {}
                       THEN Lesser((Declared(Last(mins)) + k) % Modulus, Declared(Last(maxs)))
                       ELSE IF own = {} THEN NoUsage ELSE Declared(pick(own))
  BY <1>4, <1>5, <1>6, <1>9
<1> QED
  BY <1>3, <1>7, <1>8, <1>11, <1>12

(* The usage of a field is that of the locals the parser holds.            *)
LEMMA UsageFollows ==
  ASSUME read \in Seq(Items), loc \in Locals, LocalsFollow, NEW k \in Nat
  PROVE  UsageAt(Now + 1, k) = UsageOf(k)
<1>1. PICK n \in Nat : n = Now
  BY LenProperties DEF Now
<1>2. MaxLocalUsages \in Nat \ {0}
  BY LimitsAssumption
<1>3. PICK mins : mins = Own("usageMin", n + 1)
  OBVIOUS
<1>4. PICK maxs : maxs = Own("usageMax", n + 1)
  OBVIOUS
<1>5. PICK own : own = Own("usage", n + 1)
  OBVIOUS
<1>6. own \subseteq 1..n
  <2>1. \A i \in DOMAIN read : i \in 1..n
    BY <1>1 DEF Now
  <2> QED BY <1>5, <2>1 DEF Own, Tagged
<1>7. /\ loc.haveMin <=> mins # {}
      /\ mins # {} => loc.min = Declared(Last(mins))
      /\ loc.haveMax <=> maxs # {}
      /\ maxs # {} => loc.max = Declared(Last(maxs))
  BY <1>1, <1>3, <1>4 DEF LocalsFollow, BoundFollows
<1> DEFINE us == loc.usages
           c == Count(own, n)
           rank == Lesser(k + 1, Lesser(c, MaxLocalUsages))
           ranked == CHOOSE i \in own : Count(own, i) = rank
<1>8. /\ Len(us) = Lesser(c, MaxLocalUsages)
      /\ \A i \in own : Count(own, i) <= MaxLocalUsages =>
           Count(own, i) \in DOMAIN us /\ us[Count(own, i)] = Declared(i)
      /\ \A r \in DOMAIN us : \E i \in own : Count(own, i) = r
  BY <1>1, <1>5 DEF LocalsFollow, UsagesFollow
<1>9. us \in Seq(Nat) /\ DOMAIN us = 1..Len(us) /\ Len(us) \in Nat
  BY DEF Locals
<1>10. c \in Nat /\ (own = {} <=> c = 0)
  BY <1>1, <1>6, CountType, CountZero
<1>11. Count(own, n + 1) = c
  <2>1. Count(own, n + 1) = Count(own, n) + (IF n + 1 \in own THEN 1 ELSE 0)
    BY <1>1, CountRule
  <2>2. n + 1 \notin own
    BY <1>1, <1>6
  <2> QED BY <1>10, <2>1, <2>2
<1>12. UsageAt(n + 1, k) = IF mins # {} /\ maxs # {}
                           THEN Lesser((Declared(Last(mins)) + k) % Modulus, Declared(Last(maxs)))
                           ELSE IF own = {} THEN NoUsage ELSE Declared(ranked)
  <2> DEFINE pick(S) == CHOOSE i \in S : Count(S, i) = Lesser(k + 1, Lesser(Count(S, n + 1), MaxLocalUsages))
  <2>1. UsageAt(n + 1, k) = IF Own("usageMin", n + 1) # {} /\ Own("usageMax", n + 1) # {}
                            THEN Lesser((Declared(Last(Own("usageMin", n + 1))) + k) % Modulus,
                                        Declared(Last(Own("usageMax", n + 1))))
                            ELSE IF Own("usage", n + 1) = {} THEN NoUsage
                            ELSE Declared(pick(Own("usage", n + 1)))
    BY DEF UsageAt
  <2>2. pick(own) = ranked
    BY <1>11
  <2> HIDE DEF pick, ranked
  <2> QED BY <1>3, <1>4, <1>5, <2>1, <2>2
<1>13. CASE own # {}
  <2>1. rank = Lesser(k + 1, Len(us)) /\ rank \in DOMAIN us /\ rank <= MaxLocalUsages /\ us # <<>>
    BY <1>2, <1>8, <1>9, <1>10, <1>13 DEF Lesser
  <2>2. \E i \in own : Count(own, i) = rank
    BY <1>8, <2>1
  <2>3. ranked \in own /\ Count(own, ranked) = rank
    <3> HIDE DEF rank
    <3> QED BY <2>2
  <2>4. Declared(ranked) = us[rank]
    <3> HIDE DEF rank, ranked, us
    <3> QED BY <1>8, <2>1, <2>3
  <2>5. Declared(ranked) = us[Lesser(k + 1, Len(us))]
    BY <2>1, <2>4
  <2> HIDE DEF rank, ranked
  <2> QED BY <1>1, <1>7, <1>12, <1>13, <2>1, <2>5 DEF UsageOf
<1>14. CASE own = {}
  <2>1. us = <<>>
    BY <1>2, <1>8, <1>9, <1>10, <1>14 DEF Lesser
  <2> HIDE DEF ranked
  <2> QED BY <1>1, <1>7, <1>12, <1>14, <2>1 DEF UsageOf
<1> QED BY <1>13, <1>14

-----------------------------------------------------------------------------
(* Bits, places and fields of a report.                                    *)

(* The sizes and identifiers of a descriptor are natural numbers.          *)
LEMMA Naturals ==
  ASSUME read \in Seq(Items), NEW m
  PROVE  ReportOf(m) \in Nat /\ SizeOf(m) \in Nat /\ \A t : Global(t, m) \in Nat
<1>1. ASSUME NEW t PROVE Global(t, m) \in Nat
  <2>1. PICK n \in Nat : DOMAIN read = 1..n /\ \A i \in 1..n : read[i].raw \in Nat
    <3>1. Len(read) \in Nat /\ DOMAIN read = 1..Len(read) /\ \A i \in 1..Len(read) : read[i] \in Items
      BY LenProperties, ElementOfSeq
    <3>2. \A x \in Items : x.raw \in Nat
      BY DEF Items
    <3> QED BY <3>1, <3>2
  <2>2. PICK S : S = Setter(t, m)
    OBVIOUS
  <2>3. S \subseteq 1..n
    BY <2>1, <2>2 DEF Setter, Tagged
  <2>4. S # {} => Last(S) \in 1..n
    BY <2>1, <2>3, LastMember
  <2>5. Global(t, m) = IF S = {} THEN 0 ELSE read[Last(S)].raw
    BY <2>2 DEF Global
  <2> QED BY <2>1, <2>4, <2>5
<1>2. Global("id", m) \in Nat /\ Global("size", m) \in Nat /\ Global("count", m) \in Nat
  BY <1>1
<1>3. ReportOf(m) \in Nat
  BY <1>2 DEF ReportOf
<1>4. SizeOf(m) \in Nat
  BY <1>2 DEF SizeOf
<1> QED BY <1>1, <1>3, <1>4

(* The bits of a report, Input item by Input item.                         *)
LEMMA BitsRule ==
  ASSUME read \in Seq(Items), NEW id
  PROVE  /\ BitsOf(id, 0) = 0
         /\ \A n \in Nat : /\ BitsOf(id, n) \in Nat
                           /\ BitsOf(id, n + 1) = BitsOf(id, n) + (IF n + 1 \in InputsOf(id) THEN SizeOf(n + 1) ELSE 0)
<1> DEFINE d == [m \in Nat |-> IF m \in InputsOf(id) THEN SizeOf(m) ELSE 0]
<1>1. ASSUME NEW n \in Nat PROVE BitsOf(id, n) = Total(d, n)
  <2> DEFINE e == [m \in 1..n |-> IF m \in InputsOf(id) THEN SizeOf(m) ELSE 0]
  <2>1. \A m \in 1..n : e[m] = d[m]
    OBVIOUS
  <2>2. BitsOf(id, n) = Total(e, n)
    BY DEF BitsOf
  <2> HIDE DEF d, e
  <2> QED BY <2>1, <2>2, TotalSame
<1>2. \A m \in Nat : d[m] \in Nat
  BY Naturals
<1>3. \A n \in Nat : d[n + 1] = IF n + 1 \in InputsOf(id) THEN SizeOf(n + 1) ELSE 0
  OBVIOUS
<1> HIDE DEF d
<1>4. ASSUME NEW n \in Nat PROVE Total(d, n) \in Nat
  <2>1. \A i \in 1..n : d[i] \in Int /\ d[i] >= 0
    BY <1>2
  <2>2. Total(d, n) \in Int /\ Total(d, n) >= 0
    BY <2>1, TotalType
  <2> QED BY <2>2
<1>5. Total(d, 0) = 0 /\ \A n \in Nat : Total(d, n + 1) = Total(d, n) + d[n + 1]
  BY TotalRule
<1>6. BitsOf(id, 0) = 0
  BY <1>1, <1>5
<1>7. ASSUME NEW n \in Nat
      PROVE  /\ BitsOf(id, n) \in Nat
             /\ BitsOf(id, n + 1) = BitsOf(id, n) + (IF n + 1 \in InputsOf(id) THEN SizeOf(n + 1) ELSE 0)
  <2>1. n + 1 \in Nat
    OBVIOUS
  <2>2. BitsOf(id, n + 1) = Total(d, n + 1) /\ BitsOf(id, n) = Total(d, n)
    BY <1>1, <2>1
  <2> QED BY <1>3, <1>4, <1>5, <2>2
<1> QED BY <1>6, <1>7

(* A report without Input items has no bits.                               *)
LEMMA BitsNone ==
  ASSUME read \in Seq(Items), NEW id, InputsOf(id) = {}, NEW n \in Nat
  PROVE  BitsOf(id, n) = 0
<1> DEFINE Good == {k \in 0..n : BitsOf(id, k) = 0}
<1>1. 0 \in Good
  BY BitsRule
<1>2. ASSUME NEW i \in 1..n, i - 1 \in Good PROVE i \in Good
  <2>1. i - 1 \in Nat /\ (i - 1) + 1 = i
    OBVIOUS
  <2>2. BitsOf(id, i) = BitsOf(id, i - 1) + (IF i \in InputsOf(id) THEN SizeOf(i) ELSE 0)
    BY <2>1, BitsRule
  <2> QED BY <1>2, <2>2
<1> HIDE DEF Good
<1>3. \A i \in 0..n : i \in Good
  BY <1>1, <1>2, StepByStep
<1>4. n \in Good
  BY <1>3
<1> QED BY <1>4 DEF Good

(* The Input items of a report.                                            *)
LEMMA InputsNext ==
  ASSUME NEW it, NEW n, Reads(it, n), GlobalsFollow, NEW id
  PROVE  /\ Inputs \subseteq 1..n /\ InputsOf(id) \subseteq 1..n /\ InputsOf(id) \subseteq Inputs
         /\ Inputs' = Inputs \cup (IF it.tag = "input" THEN {n + 1} ELSE {})
         /\ it.tag = "input" => ReportOf(n + 1)' = g.id
         /\ InputsOf(id)' = InputsOf(id) \cup (IF it.tag = "input" /\ g.id = id THEN {n + 1} ELSE {})
<1>1. n \in Nat /\ n = Now
  BY Reading
<1>2. Inputs \subseteq 1..n /\ Inputs' = Inputs \cup (IF it.tag = "input" THEN {n + 1} ELSE {})
  BY TaggedGrows DEF Inputs
<1>3. ASSUME it.tag = "input" PROVE ReportOf(n + 1)' = g.id
  <2>1. it.tag # "pop" /\ it.tag # "id"
    BY <1>3
  <2>2. Global("id", n + 1)' = Global("id", n)
    <3>1. Global("id", n + 1)' = IF it.tag = "id" THEN it.raw ELSE Global("id", n)
      BY <2>1, GlobalNext
    <3> QED BY <2>1, <3>1
  <2>3. g.id = Global("id", n) % 256
    BY <1>1 DEF GlobalsFollow, GlobalsAt, ReportOf
  <2> QED BY <2>2, <2>3 DEF ReportOf
<1>4. \A m \in 1..n : ReportOf(m)' = ReportOf(m)
  <2>1. \A m \in 1..n : m \in 0..n
    BY <1>1
  <2> QED BY <2>1, RecordStays
<1>5. InputsOf(id) \subseteq 1..n /\ InputsOf(id) \subseteq Inputs
  BY <1>2 DEF InputsOf
<1>6. InputsOf(id)' = {m \in Inputs' : ReportOf(m)' = id}
  BY DEF InputsOf
<1>7. InputsOf(id) = {m \in Inputs : ReportOf(m) = id}
  BY DEF InputsOf
<1>8. n + 1 \notin Inputs
  BY <1>1, <1>2
<1>9. \A m : m \in InputsOf(id)' <=> m \in InputsOf(id) \/ (m = n + 1 /\ it.tag = "input" /\ g.id = id)
  <2>1. CASE it.tag = "input"
    BY <1>2, <1>3, <1>4, <1>6, <1>7, <1>8, <2>1
  <2>2. CASE it.tag # "input"
    BY <1>2, <1>4, <1>6, <1>7, <2>2
  <2> QED BY <2>1, <2>2
<1> QED BY <1>2, <1>3, <1>5, <1>9

(* What an Input item adds to the bits of its report.                      *)
LEMMA SizeNext ==
  ASSUME NEW it, NEW n, Reads(it, n), GlobalsFollow, it.tag = "input"
  PROVE  SizeOf(n + 1)' = g.size * g.count
<1>1. it.tag # "pop" /\ it.tag # "size" /\ it.tag # "count" /\ n = Now
  BY Reading
<1>2. Global("size", n + 1)' = Global("size", n) /\ Global("count", n + 1)' = Global("count", n)
  <2>1. \A t : Global(t, n + 1)' = IF it.tag = t THEN it.raw ELSE Global(t, n)
    BY <1>1, GlobalNext
  <2> QED BY <1>1, <2>1
<1>3. g.size = Global("size", n) /\ g.count = Global("count", n)
  BY <1>1 DEF GlobalsFollow, GlobalsAt
<1> QED BY <1>2, <1>3 DEF SizeOf

(* The bits of a report after one more item.                               *)
LEMMA BitsNext ==
  ASSUME NEW it, NEW n, Reads(it, n), GlobalsFollow, NEW id
  PROVE  /\ \A j \in 0..n : BitsOf(id, j)' = BitsOf(id, j) /\ BitsOf(id, j) \in Nat
         /\ BitsOf(id, n + 1)' = BitsOf(id, n) + (IF it.tag = "input" /\ g.id = id
                                                  THEN g.size * g.count ELSE 0)
<1>1. /\ n \in Nat /\ n = Now /\ read \in Seq(Items) /\ it \in Items
      /\ read' \in Seq(Items)
  <2>1. read \in Seq(Items) /\ it \in Items /\ read' = Append(read, it)
    BY DEF Reads
  <2>2. read' \in Seq(Items)
    BY <2>1, AppendProperties
  <2> QED BY <2>1, <2>2, Reading
<1>2. ASSUME NEW j \in 0..n PROVE BitsOf(id, j)' = BitsOf(id, j)
  <2> DEFINE d == [m \in 1..j |-> IF m \in InputsOf(id) THEN SizeOf(m) ELSE 0]
             e == [m \in 1..j |-> IF m \in InputsOf(id)' THEN SizeOf(m)' ELSE 0]
  <2>1. \A m \in 1..j : m \in 0..n /\ m # n + 1
    BY <1>1
  <2>2. \A m \in 1..j : d[m] = e[m]
    BY <2>1, InputsNext, RecordStays
  <2>3. BitsOf(id, j) = Total(d, j) /\ BitsOf(id, j)' = Total(e, j) /\ j \in Nat
    BY <1>1 DEF BitsOf, Total
  <2> HIDE DEF d, e
  <2> QED BY <2>2, <2>3, TotalSame
<1>3. ASSUME NEW j \in 0..n PROVE BitsOf(id, j) \in Nat
  <2>1. j \in Nat
    BY <1>1
  <2> QED BY <1>1, <2>1, BitsRule
<1>4. BitsOf(id, n + 1)' = BitsOf(id, n)' + (IF n + 1 \in InputsOf(id)' THEN SizeOf(n + 1)' ELSE 0)
  <2> DEFINE d == [m \in Nat |-> IF m \in InputsOf(id)' THEN SizeOf(m)' ELSE 0]
  <2>1. ASSUME NEW j \in Nat PROVE BitsOf(id, j)' = Total(d, j)
    <3> DEFINE e == [m \in 1..j |-> IF m \in InputsOf(id)' THEN SizeOf(m)' ELSE 0]
    <3>1. \A m \in 1..j : e[m] = d[m]
      OBVIOUS
    <3>2. BitsOf(id, j)' = Total(e, j)
      BY DEF BitsOf, Total
    <3> HIDE DEF d, e
    <3> QED BY <3>1, <3>2, TotalSame
  <2>2. d[n + 1] = IF n + 1 \in InputsOf(id)' THEN SizeOf(n + 1)' ELSE 0
    BY <1>1
  <2> HIDE DEF d
  <2>3. Total(d, n + 1) = Total(d, n) + d[n + 1]
    BY <1>1, TotalRule
  <2>4. BitsOf(id, n + 1)' = Total(d, n + 1) /\ BitsOf(id, n)' = Total(d, n)
    BY <1>1, <2>1
  <2> QED BY <2>2, <2>3, <2>4
<1>5. n + 1 \in InputsOf(id)' <=> it.tag = "input" /\ g.id = id
  <2>1. n + 1 \notin InputsOf(id)
    BY <1>1, InputsNext
  <2> QED BY <2>1, InputsNext
<1>6. it.tag = "input" => SizeOf(n + 1)' = g.size * g.count
  BY SizeNext
<1>7. n \in 0..n
  BY <1>1
<1> QED BY <1>2, <1>3, <1>4, <1>5, <1>6, <1>7

(* The places of a usage: an Input item can only add to those before it.   *)
LEMMA PlacesNext ==
  ASSUME NEW it, NEW n, Reads(it, n), GlobalsFollow, LocalsFollow, loc \in Locals, NEW id, NEW u
  PROVE  /\ \A a \in Places(id, u) : a[1] \in 1..n /\ a[2] \in Nat /\ a = <<a[1], a[2]>>
         /\ ~ (it.tag = "input" /\ g.id = id) => Places(id, u)' = Places(id, u)
         /\ it.tag = "input" /\ g.id = id =>
              Places(id, u)' = Places(id, u) \cup {<<n + 1, k>> : k \in {j \in 0..(g.count - 1) : UsageOf(j) = u}}
<1>1. n \in Nat /\ n = Now /\ read \in Seq(Items)
  BY Reading DEF Reads
<1>2. \A a : a \in Places(id, u) <=>
        \E m \in InputsOf(id) : \E k \in 0..(Global("count", m) - 1) : UsageAt(m, k) = u /\ a = <<m, k>>
  BY DEF Places
<1>3. \A a : a \in Places(id, u)' <=>
        \E m \in InputsOf(id)' : \E k \in 0..(Global("count", m)' - 1) : UsageAt(m, k)' = u /\ a = <<m, k>>
  BY DEF Places
<1>4. \A m \in 1..n : Global("count", m)' = Global("count", m) /\ Global("count", m) \in Nat
  <2>1. \A m \in 1..n : m \in 0..n
    BY <1>1
  <2> QED BY <2>1, GlobalStays
<1>5. \A m \in 1..n : \A k \in Nat : UsageAt(m, k)' = UsageAt(m, k)
  <2>1. \A m \in 1..n : m \in 1..(n + 1)
    BY <1>1
  <2> QED BY <2>1, UsageStays
<1>6. InputsOf(id) \subseteq 1..n
  BY InputsNext
<1>7. \A m \in 1..n : \A k \in 0..(Global("count", m) - 1) : k \in Nat
  BY <1>4
<1>8. ASSUME NEW a PROVE a \in Places(id, u) <=>
        \E m \in InputsOf(id) : \E k \in 0..(Global("count", m)' - 1) : UsageAt(m, k)' = u /\ a = <<m, k>>
  <2>1. ASSUME NEW m \in InputsOf(id), NEW k \in 0..(Global("count", m) - 1)
        PROVE  UsageAt(m, k)' = UsageAt(m, k)
    BY <1>5, <1>6, <1>7
  <2>2. \A m \in InputsOf(id) : 0..(Global("count", m)' - 1) = 0..(Global("count", m) - 1)
    BY <1>4, <1>6
  <2> QED BY <1>2, <2>1, <2>2
<1>9. \A a \in Places(id, u) : a[1] \in 1..n /\ a[2] \in Nat /\ a = <<a[1], a[2]>>
  BY <1>2, <1>6, <1>7
<1>10. CASE ~ (it.tag = "input" /\ g.id = id)
  <2>1. InputsOf(id)' = InputsOf(id)
    <3>1. InputsOf(id)' = InputsOf(id) \cup (IF it.tag = "input" /\ g.id = id THEN {n + 1} ELSE {})
      BY InputsNext
    <3> QED BY <1>10, <3>1
  <2>2. \A a : a \in Places(id, u)' <=> a \in Places(id, u)
    BY <1>3, <1>8, <2>1
  <2> QED BY <1>9, <1>10, <2>2
<1>11. CASE it.tag = "input" /\ g.id = id
  <2>1. InputsOf(id)' = InputsOf(id) \cup {n + 1}
    <3>1. InputsOf(id)' = InputsOf(id) \cup (IF it.tag = "input" /\ g.id = id THEN {n + 1} ELSE {})
      BY InputsNext
    <3> QED BY <1>11, <3>1
  <2>2. Global("count", n + 1)' = g.count
    <3>1. it.tag # "pop" /\ it.tag # "count"
      BY <1>11
    <3>2. Global("count", n + 1)' = IF it.tag = "count" THEN it.raw ELSE Global("count", n)
      BY <3>1, GlobalNext
    <3>3. g.count = Global("count", n)
      BY <1>1 DEF GlobalsFollow, GlobalsAt
    <3> QED BY <3>1, <3>2, <3>3
  <2>3. g.count \in Nat
    <3>1. g.count = Global("count", n)
      BY <1>1 DEF GlobalsFollow, GlobalsAt
    <3> QED BY <1>1, <3>1, Naturals
  <2>4. \A k \in 0..(g.count - 1) : UsageAt(n + 1, k)' = UsageOf(k)
    <3>1. ASSUME NEW k \in 0..(g.count - 1) PROVE UsageAt(n + 1, k)' = UsageOf(k)
      <4>1. k \in Nat /\ n + 1 \in 1..(n + 1)
        BY <1>1, <2>3
      <4>2. UsageAt(n + 1, k)' = UsageAt(n + 1, k)
        BY <4>1, UsageStays
      <4>3. UsageAt(n + 1, k) = UsageOf(k)
        BY <1>1, <4>1, UsageFollows
      <4> QED BY <4>2, <4>3
    <3> QED BY <3>1
  <2>5. ASSUME NEW a
        PROVE  (\E k \in 0..(Global("count", n + 1)' - 1) : UsageAt(n + 1, k)' = u /\ a = <<n + 1, k>>)
               <=> a \in {<<n + 1, k>> : k \in {j \in 0..(g.count - 1) : UsageOf(j) = u}}
    BY <2>2, <2>4
  <2>6. \A a : a \in Places(id, u)' <=> a \in Places(id, u)
                  \/ a \in {<<n + 1, k>> : k \in {j \in 0..(g.count - 1) : UsageOf(j) = u}}
    BY <1>3, <1>8, <2>1, <2>5
  <2> QED BY <1>9, <1>11, <2>6
<1> QED BY <1>10, <1>11

(* Where a place is, and what an Input item finds there.                   *)
LEMMA SpotStays ==
  ASSUME NEW it, NEW n, Reads(it, n), GlobalsFollow, NEW a, a[1] \in 1..n
  PROVE  Spot(a)' = Spot(a)
<1>1. n \in Nat /\ a[1] \in 0..n /\ a[1] - 1 \in 0..n
  BY Reading
<1>2. PICK m : m = a[1]
  OBVIOUS
<1>3. ReportOf(m)' = ReportOf(m) /\ LogicalMaxAt(m)' = LogicalMaxAt(m)
  BY <1>1, <1>2, RecordStays
<1>4. Global("size", m)' = Global("size", m)
  BY <1>1, <1>2, GlobalStays
<1>5. StartOf(m)' = StartOf(m)
  <2>1. PICK id : id = ReportOf(m)
    OBVIOUS
  <2>2. BitsOf(id, m - 1)' = BitsOf(id, m - 1)
    BY <1>1, <1>2, BitsNext
  <2>3. StartOf(m)' = BitsOf(id, m - 1)' /\ StartOf(m) = BitsOf(id, m - 1)
    BY <1>3, <2>1 DEF StartOf
  <2> QED BY <2>2, <2>3
<1> QED BY <1>2, <1>3, <1>4, <1>5 DEF Spot

LEMMA SpotNext ==
  ASSUME NEW it, NEW n, Reads(it, n), GlobalsFollow, it.tag = "input", NEW k
  PROVE  Spot(<<n + 1, k>>)' = [off |-> BitsOf(g.id, n) + k * g.size,
                                bits |-> g.size, max |-> ResolveLogicalMax]
<1>1. n \in Nat /\ n = Now /\ read \in Seq(Items) /\ n \in 0..n /\ (n + 1) - 1 = n
  BY Reading DEF Reads
<1>2. it.tag \notin {"pop", "page", "min", "max", "size", "count", "id"}
  OBVIOUS
<1>3. \A t \in {"min", "max", "size"} :
        Global(t, n + 1)' = Global(t, n) /\ SignedGlobal(t, n + 1)' = SignedGlobal(t, n)
  <2>1. \A t : /\ Global(t, n + 1)' = IF it.tag = t THEN it.raw ELSE Global(t, n)
               /\ SignedGlobal(t, n + 1)' = IF it.tag = t THEN Signed(it) ELSE SignedGlobal(t, n)
    BY <1>2, GlobalNext
  <2> QED BY <1>2, <2>1
<1>4. /\ g.size = Global("size", n) /\ g.maxRaw = Global("max", n)
      /\ g.min = SignedGlobal("min", n) /\ g.max = SignedGlobal("max", n)
  BY <1>1 DEF GlobalsFollow, GlobalsAt
<1>5. g.min \in Int /\ g.max \in Int
  BY <1>1, <1>4, GlobalStays
<1>6. LogicalMaxAt(n + 1)' = ResolveLogicalMax
  <2>1. LogicalMaxAt(n + 1)' = IF g.max < 0 THEN IF g.min >= 0 THEN g.maxRaw ELSE 0 ELSE g.max
    BY <1>3, <1>4 DEF LogicalMaxAt
  <2> QED BY <1>5, <2>1 DEF ResolveLogicalMax
<1>7. StartOf(n + 1)' = BitsOf(g.id, n)
  <2>1. PICK id : id = g.id
    OBVIOUS
  <2>2. ReportOf(n + 1)' = id
    BY <2>1, InputsNext
  <2>3. StartOf(n + 1)' = BitsOf(id, n)'
    BY <1>1, <2>2 DEF StartOf
  <2>4. BitsOf(id, n)' = BitsOf(id, n)
    BY <1>1, BitsNext
  <2> QED BY <2>1, <2>3, <2>4
<1>8. PICK a : a = <<n + 1, k>>
  OBVIOUS
<1>9. a[1] = n + 1 /\ a[2] = k
  BY <1>8
<1>10. Spot(a)' = [off |-> StartOf(n + 1)' + k * Global("size", n + 1)',
                   bits |-> Global("size", n + 1)', max |-> LogicalMaxAt(n + 1)']
  BY <1>9 DEF Spot
<1> QED BY <1>3, <1>4, <1>6, <1>7, <1>8, <1>10

(* A field known so far stays where it is until its usage comes up.        *)
LEMMA FieldStays ==
  ASSUME NEW it, NEW n, Reads(it, n), GlobalsFollow, LocalsFollow, loc \in Locals,
         NEW id, NEW u, ~ (it.tag = "input" /\ g.id = id), NEW f, FieldFollows(f, id, u)
  PROVE  FieldFollows(f, id, u)'
<1>1. Places(id, u)' = Places(id, u) /\ \A a \in Places(id, u) : a[1] \in 1..n
  BY PlacesNext
<1>2. \A a \in Places(id, u) : Spot(a)' = Spot(a)
  BY <1>1, SpotStays
<1>3. CASE Places(id, u) = {} /\ f = Absent
  BY <1>1, <1>3 DEF FieldFollows, Absent
<1>4. CASE ~ (Places(id, u) = {} /\ f = Absent)
  <2>1. PICK a \in Places(id, u) : (\A b \in Places(id, u) : Earlier(a, b)) /\ f = Spot(a)
    BY <1>4 DEF FieldFollows
  <2>2. f = Spot(a)' /\ \A b \in Places(id, u)' : Earlier(a, b)
    BY <1>1, <1>2, <2>1
  <2> QED BY <1>1, <2>1, <2>2 DEF FieldFollows, Earlier
<1> QED BY <1>3, <1>4

(* An item that fits locates its usages where the descriptor has them.     *)
LEMMA FieldNext ==
  ASSUME NEW it, NEW n, Reads(it, n), GlobalsFollow, LocalsFollow, Inv, it.tag = "input",
         HasRid, Fits, Rid.bits = BitsOf(g.id, n),
         NEW id, id = g.id, NEW u, NEW f, FieldFollows(f, id, u), NEW h, h = Located(f, u)
  PROVE  FieldFollows(h, id, u)'
<1> DEFINE ks == {k \in 0..(g.count - 1) : UsageOf(k) = u}
<1>1. /\ n \in Nat /\ n = Now /\ read \in Seq(Items) /\ loc \in Locals
      /\ g.count \in Nat /\ g.size \in Nat
  BY Reading DEF Reads, Inv, TypeOK, Globals
<1>2. PICK new : new = ks
  OBVIOUS
<1>3. /\ Places(id, u)' = Places(id, u) \cup {<<n + 1, k>> : k \in new}
      /\ \A a \in Places(id, u) : a[1] \in 1..n /\ a[2] \in Nat
  BY <1>1, <1>2, PlacesNext
<1>4. h = IF f.off >= 0 \/ new = {} THEN f
          ELSE [off |-> Off(CHOOSE k \in new : \A j \in new : k <= j),
                bits |-> g.size, max |-> ResolveLogicalMax]
  BY <1>2 DEF Located
<1>5. new \subseteq Nat /\ new \subseteq 0..(g.count - 1)
  BY <1>1, <1>2
<1> HIDE DEF ks
<1>6. CASE Places(id, u) # {}
  <2>1. PICK a \in Places(id, u) : (\A b \in Places(id, u) : Earlier(a, b)) /\ f = Spot(a)
    BY <1>6 DEF FieldFollows
  <2>2. f.off >= 0
    <3>1. StartOf(a[1]) \in Nat /\ Global("size", a[1]) \in Nat
      <4>1. a[1] - 1 \in Nat
        BY <1>3
      <4> QED BY <1>1, <4>1, BitsRule, Naturals DEF StartOf
    <3>2. a[2] * Global("size", a[1]) \in Nat
      BY <1>3, <3>1
    <3>3. StartOf(a[1]) + a[2] * Global("size", a[1]) >= 0
      BY <3>1, <3>2
    <3> QED BY <2>1, <3>3 DEF Spot
  <2>3. h = f
    BY <1>4, <2>2
  <2>4. Spot(a)' = Spot(a)
    BY <1>3, SpotStays
  <2>5. \A b \in Places(id, u)' : Earlier(a, b)
    <3>1. ASSUME NEW k \in new PROVE Earlier(a, <<n + 1, k>>)
      <4>1. a[1] < n + 1
        BY <1>1, <1>3
      <4> QED BY <4>1 DEF Earlier
    <3> QED BY <1>3, <2>1, <3>1
  <2> QED BY <1>3, <2>1, <2>3, <2>4, <2>5 DEF FieldFollows, Earlier
<1>7. CASE Places(id, u) = {}
  <2>1. f = Absent /\ ~ (f.off >= 0)
    BY <1>7 DEF FieldFollows, Absent
  <2>2. CASE new = {}
    <3>1. Places(id, u)' = {} /\ h = Absent
      BY <1>3, <1>4, <1>7, <2>1, <2>2
    <3> QED BY <3>1 DEF FieldFollows, Absent
  <2>3. CASE new # {}
    <3>1. PICK k : k = CHOOSE low \in new : \A j \in new : low <= j
      OBVIOUS
    <3>2. k \in new /\ \A j \in new : k <= j
      BY <1>5, <2>3, <3>1, LeastElement
    <3>3. h = [off |-> Off(k), bits |-> g.size, max |-> ResolveLogicalMax]
      BY <1>4, <2>1, <2>3, <3>1
    <3>4. Off(k) = BitsOf(g.id, n) + k * g.size
      BY <1>5, <3>2, NoWrap
    <3>5. h = Spot(<<n + 1, k>>)'
      BY <3>3, <3>4, SpotNext
    <3>6. <<n + 1, k>> \in Places(id, u)'
      BY <1>3, <3>2
    <3>7. \A b \in Places(id, u)' : Earlier(<<n + 1, k>>, b)
      <4>1. ASSUME NEW j \in new PROVE Earlier(<<n + 1, k>>, <<n + 1, j>>)
        BY <3>2 DEF Earlier
      <4> QED BY <1>3, <1>7, <4>1
    <3> QED BY <3>5, <3>6, <3>7 DEF FieldFollows, Earlier
  <2> QED BY <2>2, <2>3
<1> QED BY <1>6, <1>7

(* A report another Input item belongs to, or none, is as it was.          *)
LEMMA RidStays ==
  ASSUME NEW it, NEW n, Reads(it, n), GlobalsFollow, LocalsFollow, loc \in Locals,
         NEW r, ~ (it.tag = "input" /\ g.id = r.id), RidFollows(r)
  PROVE  RidFollows(r)'
<1>1. n \in Nat /\ n = Now /\ Now' = n + 1
  BY Reading
<1>2. PICK id : id = r.id
  OBVIOUS
<1>3. InputsOf(id)' = InputsOf(id) /\ InputsOf(id) \subseteq 1..n
  <2>1. InputsOf(id)' = InputsOf(id) \cup (IF it.tag = "input" /\ g.id = id THEN {n + 1} ELSE {})
    BY InputsNext
  <2>2. InputsOf(id) \subseteq 1..n
    BY InputsNext
  <2> QED BY <1>2, <2>1, <2>2
<1>4. BitsOf(id, Now)' = BitsOf(id, n)
  <2>1. BitsOf(id, n + 1)' = BitsOf(id, n) + (IF it.tag = "input" /\ g.id = id THEN g.size * g.count ELSE 0)
    BY BitsNext
  <2>2. BitsOf(id, n) \in Nat
    <3>1. n \in 0..n
      BY <1>1
    <3> QED BY <3>1, BitsNext
  <2>3. BitsOf(id, n + 1)' = BitsOf(id, n)
    BY <1>2, <2>1, <2>2
  <2> QED BY <1>1, <2>3
<1>5. \A m \in InputsOf(id) : SizeOf(m)' = SizeOf(m)
  <2>1. \A m \in InputsOf(id) : m \in 0..n
    BY <1>1, <1>3
  <2> QED BY <2>1, RecordStays
<1>6. CASE r.overflowed
  BY <1>1, <1>2, <1>3, <1>4, <1>5, <1>6 DEF RidFollows, MaxReportBits
<1>7. CASE ~ r.overflowed
  <2>1. /\ r.bits = BitsOf(id, n)
        /\ \A m \in InputsOf(id) : SizeOf(m) > 0
        /\ FieldFollows(r.tip, id, Tip) /\ FieldFollows(r.x, id, X) /\ FieldFollows(r.y, id, Y)
    BY <1>1, <1>2, <1>7 DEF RidFollows
  <2>2. FieldFollows(r.tip, id, Tip)' /\ FieldFollows(r.x, id, X)' /\ FieldFollows(r.y, id, Y)'
    BY <1>2, <2>1, FieldStays
  <2> QED BY <1>2, <1>3, <1>4, <1>5, <1>7, <2>1, <2>2 DEF RidFollows
<1> QED BY <1>6, <1>7

-----------------------------------------------------------------------------
(* The entries of Rids[].                                                  *)

(* A report that has not begun is known to be empty.                       *)
LEMMA RidBegins ==
  ASSUME read \in Seq(Items), NEW id, InputsOf(id) = {}
  PROVE  RidFollows(NewRid(id))
<1>1. Now \in Nat
  BY LenProperties DEF Now
<1>2. BitsOf(id, Now) = 0
  BY <1>1, BitsNone
<1>3. \A u : Places(id, u) = {}
  BY DEF Places
<1>4. \A u : FieldFollows(Absent, id, u)
  BY <1>3 DEF FieldFollows
<1> QED BY <1>2, <1>4 DEF RidFollows, NewRid

(* The bits an Input item adds to its report.                              *)
LEMMA InputAdds ==
  ASSUME NEW it, NEW n, Reads(it, n), GlobalsFollow, it.tag = "input", NEW id, id = g.id
  PROVE  /\ n \in Nat /\ n = Now /\ Now' = n + 1 /\ g.size \in Nat /\ g.count \in Nat
         /\ InputsOf(id)' = InputsOf(id) \cup {n + 1}
         /\ SizeOf(n + 1)' = g.size * g.count /\ g.size * g.count \in Nat
         /\ \A m \in InputsOf(id) : SizeOf(m)' = SizeOf(m)
         /\ BitsOf(id, n + 1)' = BitsOf(id, n) + g.size * g.count
         /\ BitsOf(id, n) \in Nat
<1>1. n \in Nat /\ n = Now /\ Now' = n + 1 /\ n \in 0..n
  BY Reading
<1>2. g.size \in Nat /\ g.count \in Nat
  BY <1>1, RecordStays DEF GlobalsFollow, Globals
<1>3. g.size * g.count \in Nat
  BY <1>2
<1>4. InputsOf(id)' = InputsOf(id) \cup {n + 1} /\ InputsOf(id) \subseteq 1..n
  <2>1. InputsOf(id)' = InputsOf(id) \cup (IF it.tag = "input" /\ g.id = id THEN {n + 1} ELSE {})
    BY InputsNext
  <2>2. InputsOf(id) \subseteq 1..n
    BY InputsNext
  <2> QED BY <2>1, <2>2
<1>5. \A m \in InputsOf(id) : SizeOf(m)' = SizeOf(m)
  <2>1. \A m \in InputsOf(id) : m \in 0..n
    BY <1>1, <1>4
  <2> QED BY <2>1, RecordStays
<1>6. BitsOf(id, n + 1)' = BitsOf(id, n) + g.size * g.count
  <2>1. BitsOf(id, n + 1)' = BitsOf(id, n) + (IF it.tag = "input" /\ g.id = id THEN g.size * g.count ELSE 0)
    BY BitsNext
  <2> QED BY <2>1
<1>7. BitsOf(id, n) \in Nat
  BY <1>1, BitsNext
<1> QED BY <1>1, <1>2, <1>3, <1>4, <1>5, <1>6, <1>7, SizeNext

(* What Fits refuses is empty, or more than the longest report has room    *)
(* for.                                                                    *)
LEMMA NotFitting ==
  ASSUME NEW s \in Nat, NEW c \in Nat, NEW bits \in Nat, NEW max \in Nat,
         ~ (s > 0 /\ c > 0 /\ s <= max /\ c <= max \div s /\ bits <= max - s * c)
  PROVE  s * c = 0 \/ bits + s * c > max
<1>1. s * c \in Nat
  OBVIOUS
<1>2. CASE s = 0 \/ c = 0
  BY <1>2
<1>3. CASE s > 0 /\ c > 0 /\ ~ (s <= max)
  <2>1. PICK d \in Nat : c = d + 1
    <3>1. c - 1 \in Nat /\ c = (c - 1) + 1
      BY <1>3
    <3> QED BY <3>1
  <2>2. s * c = s * d + s /\ s * d \in Nat
    BY <2>1
  <2> QED BY <1>1, <1>3, <2>2
<1>4. CASE s > 0 /\ c > 0 /\ ~ (c <= max \div s)
  <2>1. max \div s \in Nat /\ max % s \in 0..(s - 1) /\ max = s * (max \div s) + (max % s)
    BY <1>4, DivRule
  <2> DEFINE q == max \div s
             r == max % s
  <2> HIDE DEF q, r
  <2>2. q \in Nat /\ r \in 0..(s - 1) /\ max = s * q + r
    BY <2>1 DEF q, r
  <2>3. PICK d \in Nat : c = q + 1 + d
    <3>1. ~ (c <= q)
      BY <1>4 DEF q
    <3>2. c - q - 1 \in Nat /\ c = q + 1 + (c - q - 1)
      BY <2>2, <3>1
    <3> QED BY <3>2
  <2>4. s * c = s * q + s + s * d /\ s * d \in Nat /\ s * q \in Nat
    BY <2>2, <2>3
  <2> QED BY <1>1, <2>2, <2>4
<1>5. CASE s > 0 /\ c > 0 /\ ~ (bits <= max - s * c)
  BY <1>1, <1>5
<1> QED BY <1>2, <1>3, <1>4, <1>5

(* An item the parser refuses is one no report of that length can hold.    *)
LEMMA FitsMeans ==
  ASSUME g.size \in Nat, g.count \in Nat, Rid.bits \in Nat, ~ Fits
  PROVE  g.size * g.count = 0 \/ Rid.bits + g.size * g.count > MaxReportBits
<1> DEFINE s == g.size
           c == g.count
           bits == Rid.bits
           max == MaxReportBits
<1>1. s \in Nat /\ c \in Nat /\ bits \in Nat /\ max \in Nat /\ max < Modulus /\ Modulus \in Nat
  BY Magnitudes
<1>2. s > 0 /\ c <= max \div s => ItemBits = s * c
  <2>1. SUFFICES ASSUME s > 0, c <= max \div s
                 PROVE  ItemBits = s * c
    OBVIOUS
  <2>2. ItemBits = (s * c) % Modulus
    BY DEF ItemBits
  <2> HIDE DEF s, c, max
  <2>3. s * c <= max /\ s * c \in Nat
    BY <1>1, <2>1, BoundedProduct
  <2> DEFINE p == s * c
  <2>4. p \in Nat /\ p < Modulus
    <3> HIDE DEF p
    <3> QED BY <1>1, <2>3 DEF p
  <2> QED BY <1>1, <2>2, <2>4
<1>3. ~ (s > 0 /\ c > 0 /\ s <= max /\ c <= max \div s /\ bits <= max - ItemBits)
  BY DEF Fits
<1> HIDE DEF s, c, bits, max
<1>4. ~ (s > 0 /\ c > 0 /\ s <= max /\ c <= max \div s /\ bits <= max - s * c)
  BY <1>2, <1>3
<1>5. s * c = 0 \/ bits + s * c > max
  BY <1>1, <1>4, NotFitting
<1> QED BY <1>5 DEF s, c, bits, max

(* An item that is skipped makes its report useless, and it is.            *)
LEMMA RidSkipped ==
  ASSUME NEW it, NEW n, Reads(it, n), GlobalsFollow, Inv, it.tag = "input",
         HasRid, ~ Fits, Rid.id = g.id, RidFollows(Rid),
         NEW q, q = [Rid EXCEPT !.overflowed = TRUE]
  PROVE  RidFollows(q)'
<1>1. PICK id : id = g.id
  OBVIOUS
<1>2. Rid \in RidStates
  BY RidTaken
<1>3. q.id = id /\ q.overflowed
  BY <1>1, <1>2 DEF RidStates
<1>4. /\ n \in Nat /\ n = Now /\ Now' = n + 1 /\ g.size \in Nat /\ g.count \in Nat
      /\ InputsOf(id)' = InputsOf(id) \cup {n + 1}
      /\ SizeOf(n + 1)' = g.size * g.count /\ g.size * g.count \in Nat
      /\ \A m \in InputsOf(id) : SizeOf(m)' = SizeOf(m)
      /\ BitsOf(id, n + 1)' = BitsOf(id, n) + g.size * g.count
      /\ BitsOf(id, n) \in Nat
  BY <1>1, InputAdds
<1>5. BitsOf(id, Now)' = BitsOf(id, n) + g.size * g.count
  BY <1>4
<1> DEFINE more == g.size * g.count
<1> HIDE DEF more
<1>6. (\E m \in InputsOf(id)' : SizeOf(m)' = 0) \/ BitsOf(id, n) + more > MaxReportBits
  <2>1. CASE Rid.overflowed
    <3>1. (\E m \in InputsOf(id) : SizeOf(m) = 0) \/ BitsOf(id, n) > MaxReportBits
      BY <1>1, <1>4, <2>1 DEF RidFollows
    <3>2. more \in Nat /\ MaxReportBits \in Nat
      BY <1>4, Magnitudes DEF more
    <3> QED BY <1>4, <3>1, <3>2
  <2>2. CASE ~ Rid.overflowed
    <3>1. Rid.bits = BitsOf(id, n)
      BY <1>1, <1>4, <2>2 DEF RidFollows
    <3>2. more = 0 \/ Rid.bits + more > MaxReportBits
      BY <1>4, <3>1, FitsMeans DEF more
    <3>3. SizeOf(n + 1)' = more /\ n + 1 \in InputsOf(id)'
      BY <1>4 DEF more
    <3> QED BY <3>1, <3>2, <3>3
  <2> QED BY <2>1, <2>2
<1> QED BY <1>3, <1>5, <1>6 DEF RidFollows, MaxReportBits, more

(* An item that fits extends its report by its fields.                     *)
LEMMA RidExtended ==
  ASSUME NEW it, NEW n, Reads(it, n), GlobalsFollow, LocalsFollow, Inv, it.tag = "input",
         HasRid, Fits, Rid.id = g.id, RidFollows(Rid),
         NEW q, q = [Rid EXCEPT !.tip = Located(@, Tip), !.x = Located(@, X),
                                !.y = Located(@, Y), !.bits = (@ + ItemBits) % Modulus]
  PROVE  RidFollows(q)'
<1>1. PICK id : id = g.id
  OBVIOUS
<1>2. Rid \in RidStates /\ loc \in Locals
  BY RidTaken DEF Inv, TypeOK
<1>3. /\ q.id = id /\ q.overflowed = Rid.overflowed
      /\ q.tip = Located(Rid.tip, Tip) /\ q.x = Located(Rid.x, X) /\ q.y = Located(Rid.y, Y)
      /\ q.bits = (Rid.bits + ItemBits) % Modulus
  BY <1>1, <1>2 DEF RidStates
<1>4. /\ n \in Nat /\ n = Now /\ Now' = n + 1 /\ g.size \in Nat /\ g.count \in Nat
      /\ InputsOf(id)' = InputsOf(id) \cup {n + 1}
      /\ SizeOf(n + 1)' = g.size * g.count /\ g.size * g.count \in Nat
      /\ \A m \in InputsOf(id) : SizeOf(m)' = SizeOf(m)
      /\ BitsOf(id, n + 1)' = BitsOf(id, n) + g.size * g.count
      /\ BitsOf(id, n) \in Nat
  BY <1>1, InputAdds
<1>5. BitsOf(id, Now)' = BitsOf(id, n) + g.size * g.count
  BY <1>4
<1> DEFINE more == g.size * g.count
<1>6. ItemBits = more /\ more \in Nat /\ Rid.bits + more \in 0..MaxReportBits
  BY NoWrap
<1>7. more > 0
  <2>1. g.size > 0 /\ g.count > 0
    BY DEF Fits
  <2>2. PICK d \in Nat : g.count = d + 1
    <3>1. g.count - 1 \in Nat /\ g.count = (g.count - 1) + 1
      BY <1>4, <2>1
    <3> QED BY <3>1
  <2>3. g.size * g.count = g.size * d + g.size /\ g.size * d \in Nat
    BY <1>4, <2>2
  <2> QED BY <1>4, <2>1, <2>3
<1> HIDE DEF more
<1>8. CASE Rid.overflowed
  <2>1. (\E m \in InputsOf(id) : SizeOf(m) = 0) \/ BitsOf(id, n) > MaxReportBits
    BY <1>1, <1>4, <1>8 DEF RidFollows
  <2>2. (\E m \in InputsOf(id)' : SizeOf(m)' = 0) \/ BitsOf(id, n) + more > MaxReportBits
    BY <1>4, <1>6, <2>1, Magnitudes
  <2> QED BY <1>3, <1>5, <1>8, <2>2 DEF RidFollows, MaxReportBits, more
<1>9. CASE ~ Rid.overflowed
  <2>1. /\ Rid.bits = BitsOf(id, n)
        /\ \A m \in InputsOf(id) : SizeOf(m) > 0
        /\ FieldFollows(Rid.tip, id, Tip) /\ FieldFollows(Rid.x, id, X) /\ FieldFollows(Rid.y, id, Y)
    BY <1>1, <1>4, <1>9 DEF RidFollows
  <2>2. q.bits = BitsOf(id, n) + more
    <3>1. Rid.bits + more < Modulus /\ Rid.bits + more \in Nat /\ Modulus \in Nat
      BY <1>6, Magnitudes
    <3> QED BY <1>3, <1>6, <2>1, <3>1
  <2>3. ASSUME NEW u, NEW f, FieldFollows(f, id, u), NEW h, h = Located(f, u)
        PROVE  FieldFollows(h, id, u)'
    BY <1>1, <2>1, <2>3, FieldNext
  <2>4. FieldFollows(q.tip, id, Tip)' /\ FieldFollows(q.x, id, X)' /\ FieldFollows(q.y, id, Y)'
    <3>1. PICK a, b, c : a = Rid.tip /\ b = Rid.x /\ c = Rid.y
      OBVIOUS
    <3> QED BY <1>3, <2>1, <2>3, <3>1
  <2>5. \A m \in InputsOf(id)' : SizeOf(m)' > 0
    BY <1>4, <1>7, <2>1 DEF more
  <2> QED BY <1>3, <1>5, <1>9, <2>2, <2>4, <2>5 DEF RidFollows, more
<1> QED BY <1>8, <1>9

(* The Input items that begin a report.                                    *)
LEMMA BeginningsNext ==
  ASSUME NEW it, NEW n, Reads(it, n), GlobalsFollow
  PROVE  /\ Beginnings \subseteq 1..n
         /\ Beginnings' = Beginnings \cup (IF it.tag = "input" /\ InputsOf(g.id) = {} THEN {n + 1} ELSE {})
         /\ it.tag = "input" => ReportOf(n + 1)' = g.id
         /\ \A m \in Beginnings : ReportOf(m)' = ReportOf(m)
<1>1. n \in Nat /\ n = Now
  BY Reading
<1>2. Inputs \subseteq 1..n /\ Inputs' = Inputs \cup (IF it.tag = "input" THEN {n + 1} ELSE {})
  BY InputsNext
<1>3. it.tag = "input" => ReportOf(n + 1)' = g.id
  BY InputsNext
<1>4. \A m \in 1..n : ReportOf(m)' = ReportOf(m)
  <2>1. \A m \in 1..n : m \in 0..n
    BY <1>1
  <2> QED BY <2>1, RecordStays
<1>5. ASSUME NEW id
      PROVE  InputsOf(id) \subseteq 1..n /\
             InputsOf(id)' = InputsOf(id) \cup (IF it.tag = "input" /\ g.id = id THEN {n + 1} ELSE {})
  BY InputsNext
<1>6. Beginnings \subseteq 1..n
  BY <1>2 DEF Beginnings
<1>7. ASSUME NEW m \in 1..n PROVE m \in Beginnings' <=> m \in Beginnings
  <2>1. PICK id : id = ReportOf(m)
    OBVIOUS
  <2>2. m \in Beginnings' <=> m \in Inputs' /\ \A k \in InputsOf(id)' : m <= k
    BY <1>4, <2>1 DEF Beginnings
  <2>3. m \in Beginnings <=> m \in Inputs /\ \A k \in InputsOf(id) : m <= k
    BY <2>1 DEF Beginnings
  <2>4. m \in Inputs' <=> m \in Inputs
    BY <1>1, <1>2
  <2>5. m <= n + 1
    BY <1>1
  <2>6. (\A k \in InputsOf(id)' : m <= k) <=> (\A k \in InputsOf(id) : m <= k)
    BY <1>5, <2>5
  <2> QED BY <2>2, <2>3, <2>4, <2>6
<1>8. n + 1 \in Beginnings' <=> it.tag = "input" /\ InputsOf(g.id) = {}
  <2>1. n + 1 \in Inputs' <=> it.tag = "input"
    BY <1>1, <1>2
  <2>2. CASE it.tag # "input"
    BY <2>1, <2>2 DEF Beginnings
  <2>3. CASE it.tag = "input"
    <3>1. PICK id : id = g.id
      OBVIOUS
    <3>2. n + 1 \in Beginnings' <=> \A k \in InputsOf(id)' : n + 1 <= k
      BY <1>3, <2>1, <2>3, <3>1 DEF Beginnings
    <3>3. InputsOf(id)' = InputsOf(id) \cup {n + 1} /\ InputsOf(id) \subseteq 1..n
      <4>1. InputsOf(id)' = InputsOf(id) \cup (IF it.tag = "input" /\ g.id = id THEN {n + 1} ELSE {})
        BY <1>5
      <4> QED BY <1>5, <2>3, <3>1, <4>1
    <3>4. \A k \in InputsOf(id) : ~ (n + 1 <= k)
      BY <1>1, <3>3
    <3>5. (\A k \in InputsOf(id)' : n + 1 <= k) <=> InputsOf(id) = {}
      BY <1>1, <3>3, <3>4
    <3> QED BY <2>3, <3>1, <3>2, <3>5
  <2> QED BY <2>2, <2>3
<1>9. \A m : m \in Beginnings' => m \in 1..n \/ m = n + 1
  BY <1>1, <1>2 DEF Beginnings
<1>10. n + 1 \notin Beginnings
  BY <1>1, <1>6
<1>11. \A m : m \in Beginnings' <=> m \in Beginnings \/ (m = n + 1 /\ it.tag = "input" /\ InputsOf(g.id) = {})
  BY <1>6, <1>7, <1>8, <1>9
<1> QED BY <1>3, <1>4, <1>6, <1>11

(* Every entry is for another report, and a report without an entry has    *)
(* not begun while there is room for more.                                 *)
LEMMA RidsDistinct ==
  ASSUME read \in Seq(Items), RidsAreTracked, NEW i \in DOMAIN rids, NEW j \in DOMAIN rids,
         rids[i].id = rids[j].id
  PROVE  i = j
<1>1. PICK m \in Tracked : Count(Beginnings, m) = i
  BY DEF RidsAreTracked
<1>2. PICK k \in Tracked : Count(Beginnings, k) = j
  BY DEF RidsAreTracked
<1>3. ReportOf(m) = rids[i].id /\ ReportOf(k) = rids[j].id
  BY <1>1, <1>2 DEF RidsAreTracked
<1>4. m \in Inputs /\ k \in Inputs /\ m \in Beginnings /\ k \in Beginnings
  BY DEF Tracked, Beginnings
<1>5. m \in InputsOf(ReportOf(k)) /\ k \in InputsOf(ReportOf(m))
  BY <1>3, <1>4 DEF InputsOf
<1>6. m <= k /\ k <= m
  BY <1>4, <1>5 DEF Beginnings
<1>7. m \in Nat /\ k \in Nat
  BY <1>4 DEF Inputs, Tagged
<1> QED BY <1>1, <1>2, <1>6, <1>7

LEMMA KnownMeans ==
  ASSUME read \in Seq(Items), rids \in Seq(RidStates), RidsAreTracked, NEW id
  PROVE  /\ Known(id) => InputsOf(id) # {}
         /\ ~ Known(id) /\ Len(rids) < MaxReportIds => InputsOf(id) = {}
<1>1. ASSUME Known(id) PROVE InputsOf(id) # {}
  <2>1. PICK i \in DOMAIN rids : rids[i].id = id
    BY <1>1 DEF Known
  <2>2. PICK m \in Tracked : Count(Beginnings, m) = i
    BY DEF RidsAreTracked
  <2>3. ReportOf(m) = id /\ m \in Inputs
    BY <2>1, <2>2 DEF RidsAreTracked, Tracked, Beginnings
  <2> QED BY <2>3 DEF InputsOf
<1>2. ASSUME ~ Known(id), Len(rids) < MaxReportIds, InputsOf(id) # {} PROVE FALSE
  <2>1. PICK n \in Nat : n = Now /\ DOMAIN read = 1..n
    BY LenProperties DEF Now
  <2>2. InputsOf(id) \subseteq 1..n /\ InputsOf(id) \subseteq Nat
    BY <2>1 DEF InputsOf, Inputs, Tagged
  <2>3. PICK m \in InputsOf(id) : \A k \in InputsOf(id) : m <= k
    BY <1>2, <2>2, LeastElement
  <2>4. m \in Beginnings /\ ReportOf(m) = id
    BY <2>3 DEF Beginnings, InputsOf
  <2>5. m \in Nat /\ m <= n
    BY <2>1, <2>2
  <2>6. Count(Beginnings, m) <= Count(Beginnings, n)
    BY <2>1, <2>5, CountGrows
  <2>7. Count(Beginnings, m) \in Nat /\ Count(Beginnings, n) \in Nat
    BY <2>1, <2>5, CountType
  <2>8. Len(rids) = Lesser(Count(Beginnings, n), MaxReportIds)
    BY <2>1 DEF RidsAreTracked
  <2>9. Count(Beginnings, n) <= MaxReportIds
    BY <1>2, <2>7, <2>8, LimitsAssumption DEF Lesser
  <2>10. m \in Tracked
    BY <2>4, <2>6, <2>7, <2>9, LimitsAssumption DEF Tracked
  <2> QED BY <1>2, <2>4, <2>10 DEF RidsAreTracked, Known
<1> QED BY <1>1, <1>2

(* No report begins: the entries keep their reports.                       *)
LEMMA TrackedStays ==
  ASSUME NEW it, NEW n, Reads(it, n), GlobalsFollow, RidsAreTracked,
         ~ (it.tag = "input" /\ InputsOf(g.id) = {}),
         Len(rids') = Len(rids), DOMAIN rids' = DOMAIN rids,
         \A i \in DOMAIN rids : rids'[i].id = rids[i].id
  PROVE  RidsAreTracked'
<1>1. n \in Nat /\ n = Now /\ Now' = n + 1
  BY Reading
<1>2. PICK B : B = Beginnings
  OBVIOUS
<1>3. Beginnings' = B /\ B \subseteq 1..n /\ \A m \in B : ReportOf(m)' = ReportOf(m)
  <2>1. Beginnings' = Beginnings \cup (IF it.tag = "input" /\ InputsOf(g.id) = {} THEN {n + 1} ELSE {})
    BY BeginningsNext
  <2>2. Beginnings \subseteq 1..n /\ \A m \in Beginnings : ReportOf(m)' = ReportOf(m)
    BY BeginningsNext
  <2> QED BY <1>2, <2>1, <2>2
<1>4. \A m : Count(Beginnings, m)' = Count(B, m)
  BY <1>3 DEF Count
<1>5. Count(B, n + 1) = Count(B, n)
  <2>1. Count(B, n + 1) = Count(B, n) + (IF n + 1 \in B THEN 1 ELSE 0) /\ Count(B, n) \in Nat
    BY <1>1, CountRule, CountType
  <2>2. n + 1 \notin B
    BY <1>1, <1>3
  <2> QED BY <2>1, <2>2
<1>6. Tracked' = Tracked /\ Tracked \subseteq B
  BY <1>2, <1>3, <1>4 DEF Tracked
<1>7. /\ Len(rids) = Lesser(Count(B, n), MaxReportIds)
      /\ \A m \in Tracked : Count(B, m) \in DOMAIN rids /\ rids[Count(B, m)].id = ReportOf(m)
      /\ \A r \in DOMAIN rids : \E m \in Tracked : Count(B, m) = r
  BY <1>1, <1>2 DEF RidsAreTracked
<1>8. Count(Beginnings, Now)' = Count(B, n)
  <2>1. Count(Beginnings, Now)' = Count(B, n + 1)
    BY <1>1, <1>3 DEF Count
  <2> QED BY <1>5, <2>1
<1> QED BY <1>3, <1>4, <1>6, <1>7, <1>8 DEF RidsAreTracked

(* A report begins: it is tracked while there is room for it.              *)
LEMMA TrackedNext ==
  ASSUME NEW it, NEW n, Reads(it, n), GlobalsFollow, it.tag = "input", InputsOf(g.id) = {}
  PROVE  /\ Count(Beginnings, n) \in Nat
         /\ Count(Beginnings, n + 1)' = Count(Beginnings, n) + 1
         /\ \A m \in Tracked : /\ Count(Beginnings, m)' = Count(Beginnings, m)
                               /\ ReportOf(m)' = ReportOf(m)
         /\ Tracked' = Tracked \cup (IF Count(Beginnings, n) < MaxReportIds THEN {n + 1} ELSE {})
         /\ ReportOf(n + 1)' = g.id
<1>1. n \in Nat
  BY Reading
<1>2. PICK B : B = Beginnings
  OBVIOUS
<1>3. PICK C : C = B \cup {n + 1}
  OBVIOUS
<1>4. /\ B \subseteq 1..n /\ Beginnings' = C /\ ReportOf(n + 1)' = g.id
      /\ \A m \in B : ReportOf(m)' = ReportOf(m)
  <2>1. Beginnings' = Beginnings \cup (IF it.tag = "input" /\ InputsOf(g.id) = {} THEN {n + 1} ELSE {})
    BY BeginningsNext
  <2>2. /\ Beginnings \subseteq 1..n /\ (it.tag = "input" => ReportOf(n + 1)' = g.id)
        /\ \A m \in Beginnings : ReportOf(m)' = ReportOf(m)
    BY BeginningsNext
  <2> QED BY <1>2, <1>3, <2>1, <2>2
<1>5. \A m : Count(Beginnings, m)' = Count(C, m)
  BY <1>4 DEF Count
<1>6. \A m \in 0..n : Count(C, m) = Count(B, m)
  <2>1. SUFFICES ASSUME NEW m \in 0..n PROVE Count(C, m) = Count(B, m)
    OBVIOUS
  <2>2. m \in Nat /\ \A i \in 1..m : i \in C <=> i \in B
    BY <1>1, <1>3
  <2> QED BY <2>2, CountSame
<1>7. Count(B, n) \in Nat /\ Count(C, n + 1) = Count(B, n) + 1
  <2>1. Count(C, n + 1) = Count(C, n) + (IF n + 1 \in C THEN 1 ELSE 0)
    BY <1>1, CountRule
  <2>2. Count(B, n) \in Nat /\ Count(C, n) = Count(B, n) /\ n + 1 \in C
    BY <1>1, <1>3, <1>6, CountType
  <2> QED BY <2>1, <2>2
<1>8. Tracked = {m \in B : Count(B, m) <= MaxReportIds}
  BY <1>2 DEF Tracked
<1>9. Tracked' = {m \in C : Count(C, m) <= MaxReportIds}
  BY <1>4, <1>5 DEF Tracked
<1>10. \A m \in B : Count(C, m) = Count(B, m)
  <2>1. \A m \in B : m \in 0..n
    BY <1>1, <1>4
  <2> QED BY <1>6, <2>1
<1>11. Count(C, n + 1) <= MaxReportIds <=> Count(B, n) < MaxReportIds
  BY <1>7, LimitsAssumption
<1>12. Tracked' = Tracked \cup (IF Count(B, n) < MaxReportIds THEN {n + 1} ELSE {})
  BY <1>3, <1>8, <1>9, <1>10, <1>11
<1>13. \A m \in Tracked : m \in B
  BY <1>8
<1> QED BY <1>2, <1>4, <1>5, <1>7, <1>10, <1>12, <1>13

(* With every entry taken, a further report is not followed.               *)
LEMMA TrackedFull ==
  ASSUME NEW it, NEW n, Reads(it, n), GlobalsFollow, RidsAreTracked, rids \in Seq(RidStates),
         it.tag = "input", ~ (Len(rids) < MaxReportIds), rids' = rids
  PROVE  RidsAreTracked'
<1>1. n \in Nat /\ n = Now /\ Now' = n + 1
  BY Reading
<1>2. CASE InputsOf(g.id) # {}
  BY <1>2, TrackedStays
<1>3. CASE InputsOf(g.id) = {}
  <2>1. PICK c : c = Count(Beginnings, n)
    OBVIOUS
  <2>2. /\ c \in Nat /\ Count(Beginnings, n + 1)' = c + 1
        /\ \A m \in Tracked : Count(Beginnings, m)' = Count(Beginnings, m) /\ ReportOf(m)' = ReportOf(m)
    BY <1>3, <2>1, TrackedNext
  <2>3. Tracked' = Tracked \cup (IF c < MaxReportIds THEN {n + 1} ELSE {})
    BY <1>3, <2>1, TrackedNext
  <2>4. Len(rids) = Lesser(c, MaxReportIds) /\ Len(rids) \in Nat
    BY <1>1, <2>1, LenProperties DEF RidsAreTracked
  <2>5. ~ (c < MaxReportIds) /\ Len(rids) = Lesser(c + 1, MaxReportIds)
    BY <2>2, <2>4, LimitsAssumption DEF Lesser
  <2>6. Tracked' = Tracked
    BY <2>3, <2>5
  <2>7. Count(Beginnings, Now)' = c + 1
    <3>1. Count(Beginnings, Now)' = Count(Beginnings, n + 1)'
      BY <1>1 DEF Count
    <3> QED BY <2>2, <3>1
  <2>8. /\ \A m \in Tracked : Count(Beginnings, m) \in DOMAIN rids /\ rids[Count(Beginnings, m)].id = ReportOf(m)
        /\ \A r \in DOMAIN rids : \E m \in Tracked : Count(Beginnings, m) = r
    BY DEF RidsAreTracked
  <2> QED BY <2>2, <2>5, <2>6, <2>7, <2>8 DEF RidsAreTracked
<1> QED BY <1>2, <1>3

(* A free entry goes to the report that begins.                            *)
LEMMA TrackedAdded ==
  ASSUME NEW it, NEW n, Reads(it, n), GlobalsFollow, RidsAreTracked,
         NEW l \in Nat, l = Len(rids), DOMAIN rids = 1..l, l < MaxReportIds,
         it.tag = "input", InputsOf(g.id) = {},
         Len(rids') = l + 1, DOMAIN rids' = 1..(l + 1),
         \A i \in 1..l : rids'[i].id = rids[i].id, rids'[l + 1].id = g.id
  PROVE  RidsAreTracked'
<1>1. n \in Nat /\ n = Now /\ Now' = n + 1
  BY Reading
<1>2. PICK c : c = Count(Beginnings, n)
  OBVIOUS
<1>3. /\ c \in Nat /\ Count(Beginnings, n + 1)' = c + 1 /\ ReportOf(n + 1)' = g.id
      /\ \A m \in Tracked : Count(Beginnings, m)' = Count(Beginnings, m) /\ ReportOf(m)' = ReportOf(m)
  BY <1>2, TrackedNext
<1>4. Tracked' = Tracked \cup (IF c < MaxReportIds THEN {n + 1} ELSE {})
  BY <1>2, TrackedNext
<1>5. l = Lesser(c, MaxReportIds)
  BY <1>1, <1>2 DEF RidsAreTracked
<1>6. c = l /\ l + 1 = Lesser(c + 1, MaxReportIds)
  BY <1>3, <1>5, LimitsAssumption DEF Lesser
<1>7. Tracked' = Tracked \cup {n + 1}
  BY <1>4, <1>6
<1>8. Count(Beginnings, Now)' = c + 1
  <2>1. Count(Beginnings, Now)' = Count(Beginnings, n + 1)'
    BY <1>1 DEF Count
  <2> QED BY <1>3, <2>1
<1>9. /\ \A m \in Tracked : Count(Beginnings, m) \in 1..l /\ rids[Count(Beginnings, m)].id = ReportOf(m)
      /\ \A r \in 1..l : \E m \in Tracked : Count(Beginnings, m) = r
  BY DEF RidsAreTracked
<1>10. \A m \in Tracked' : /\ Count(Beginnings, m)' \in DOMAIN rids'
                           /\ rids'[Count(Beginnings, m)'].id = ReportOf(m)'
  <2>1. SUFFICES ASSUME NEW m \in Tracked'
                 PROVE  Count(Beginnings, m)' \in DOMAIN rids' /\ rids'[Count(Beginnings, m)'].id = ReportOf(m)'
    OBVIOUS
  <2>2. CASE m \in Tracked
    BY <1>3, <1>9, <2>2
  <2>3. CASE m = n + 1
    BY <1>3, <1>6, <2>3
  <2> QED BY <1>7, <2>1, <2>2, <2>3
<1>11. \A r \in DOMAIN rids' : \E m \in Tracked' : Count(Beginnings, m)' = r
  <2>1. SUFFICES ASSUME NEW r \in 1..(l + 1)
                 PROVE  \E m \in Tracked' : Count(Beginnings, m)' = r
    OBVIOUS
  <2>2. CASE r \in 1..l
    BY <1>3, <1>7, <1>9, <2>2
  <2>3. CASE r = l + 1
    BY <1>3, <1>6, <1>7, <2>3
  <2> QED BY <2>1, <2>2, <2>3
<1> QED BY <1>6, <1>8, <1>10, <1>11 DEF RidsAreTracked

(* The entry an Input item works on is that of its report, a new one when  *)
(* the report begins.                                                      *)
LEMMA EntryTaken ==
  ASSUME Inv, HasRid
  PROVE  /\ RidIndex \in DOMAIN WithRid /\ WithRid[RidIndex].id = g.id
         /\ ~ Known(g.id) => RidIndex = Len(rids) + 1 /\ Rid = NewRid(g.id)
<1>1. rids \in Seq(RidStates) /\ Len(rids) \in Nat /\ DOMAIN rids = 1..Len(rids)
  BY LenProperties DEF Inv, TypeOK
<1>2. CASE Known(g.id)
  <2>1. \E i \in DOMAIN WithRid : WithRid[i].id = g.id
    BY <1>2 DEF WithRid, Known
  <2> QED BY <1>2, <2>1 DEF RidIndex
<1>3. CASE ~ Known(g.id)
  <2>1. WithRid = Append(rids, NewRid(g.id))
    BY <1>3 DEF WithRid
  <2>2. PICK l \in Nat : l = Len(rids) /\ DOMAIN rids = 1..l
    BY <1>1
  <2>3. /\ DOMAIN WithRid = 1..(l + 1) /\ WithRid[l + 1] = NewRid(g.id)
        /\ \A i \in 1..l : WithRid[i] = rids[i]
    BY <1>1, <2>1, <2>2, AppendProperties
  <2>4. NewRid(g.id).id = g.id
    BY DEF NewRid
  <2>5. \A i \in 1..l : WithRid[i].id # g.id
    BY <1>3, <2>2, <2>3 DEF Known
  <2>6. l + 1 \in DOMAIN WithRid /\ WithRid[l + 1].id = g.id
    BY <2>3, <2>4
  <2>7. \A i \in DOMAIN WithRid : WithRid[i].id = g.id => i = l + 1
    BY <2>3, <2>5
  <2>8. RidIndex = l + 1
    BY <2>6, <2>7 DEF RidIndex
  <2> QED BY <2>2, <2>3, <2>6, <2>8 DEF Rid
<1> QED BY <1>2, <1>3

(* It follows the descriptor as it was before the item.                    *)
LEMMA EntryFollows ==
  ASSUME Inv, HasRid, RidsAreTracked, RidsFollow
  PROVE  Rid.id = g.id /\ RidFollows(Rid)
<1>1. RidIndex \in DOMAIN WithRid /\ Rid.id = g.id
  BY EntryTaken DEF Rid
<1>2. CASE Known(g.id)
  <2>1. Rid = rids[RidIndex] /\ RidIndex \in DOMAIN rids
    BY <1>1, <1>2 DEF Rid, WithRid
  <2> QED BY <1>1, <2>1 DEF RidsFollow
<1>3. CASE ~ Known(g.id)
  <2>1. read \in Seq(Items) /\ rids \in Seq(RidStates) /\ Len(rids) < MaxReportIds
    BY <1>3 DEF Inv, TypeOK, HasRid
  <2>2. PICK id : id = g.id
    OBVIOUS
  <2>3. InputsOf(id) = {}
    BY <1>3, <2>1, <2>2, KnownMeans
  <2> QED BY <1>1, <1>3, <2>1, <2>2, <2>3, EntryTaken, RidBegins
<1> QED BY <1>2, <1>3

(* It is put back, and the others stay as they were.                       *)
LEMMA EntryReplaced ==
  ASSUME NEW it, NEW n, Reads(it, n), GlobalsFollow, LocalsFollow, Inv, RidsAreTracked, RidsFollow,
         it.tag = "input", HasRid, NEW q \in RidStates, q.id = g.id, RidFollows(q)',
         rids' = [WithRid EXCEPT ![RidIndex] = q]
  PROVE  RidsAreTracked' /\ RidsFollow'
<1>1. /\ rids \in Seq(RidStates) /\ Len(rids) \in Nat /\ DOMAIN rids = 1..Len(rids)
      /\ read \in Seq(Items) /\ loc \in Locals
  BY LenProperties DEF Inv, TypeOK
<1>2. PICK l \in Nat : l = Len(rids) /\ DOMAIN rids = 1..l
  BY <1>1
<1>3. WithRid \in Seq(RidStates) /\ RidIndex \in DOMAIN WithRid
  BY RidTaken
<1>4. PICK e : e = RidIndex
  OBVIOUS
<1>5. /\ rids' \in Seq(RidStates) /\ Len(rids') = Len(WithRid) /\ DOMAIN rids' = DOMAIN WithRid
      /\ rids'[e] = q /\ \A i \in DOMAIN WithRid : i # e => rids'[i] = WithRid[i]
  BY <1>3, <1>4, ExceptSeq
<1>6. q \in RidStates /\ q.id = g.id
  OBVIOUS
<1>7. /\ \A i \in DOMAIN WithRid : i # e => i \in 1..l /\ WithRid[i] = rids[i] /\ rids[i].id # g.id
      /\ RidsAreTracked'
  <2>1. CASE Known(g.id)
    <3>1. WithRid = rids /\ rids[e].id = g.id /\ e \in DOMAIN rids
      BY <1>4, <2>1, EntryTaken DEF WithRid
    <3>2. \A i \in DOMAIN rids : rids[i].id = g.id => i = e
      BY <1>1, <3>1, RidsDistinct
    <3>3. PICK id : id = g.id
      OBVIOUS
    <3>4. InputsOf(id) # {}
      BY <1>1, <2>1, <3>3, KnownMeans
    <3>5. InputsOf(g.id) # {}
      BY <3>3, <3>4
    <3>6. \A i \in DOMAIN rids : rids'[i].id = rids[i].id
      BY <1>5, <3>1
    <3>7. RidsAreTracked'
      BY <1>5, <3>1, <3>5, <3>6, TrackedStays
    <3> QED BY <1>2, <3>1, <3>2, <3>7
  <2>2. CASE ~ Known(g.id)
    <3>1. WithRid = Append(rids, NewRid(g.id)) /\ l < MaxReportIds /\ e = l + 1
      BY <1>2, <1>4, <2>2, EntryTaken DEF WithRid, HasRid
    <3>2. DOMAIN WithRid = 1..(l + 1) /\ Len(WithRid) = l + 1 /\ \A i \in 1..l : WithRid[i] = rids[i]
      BY <1>1, <1>2, <3>1, AppendProperties
    <3>3. \A i \in 1..l : rids[i].id # g.id
      BY <1>2, <2>2 DEF Known
    <3>4. PICK id : id = g.id
      OBVIOUS
    <3>5. InputsOf(id) = {}
      BY <1>1, <1>2, <2>2, <3>1, <3>4, KnownMeans
    <3>6. InputsOf(g.id) = {}
      BY <3>4, <3>5
    <3>7. /\ Len(rids') = l + 1 /\ DOMAIN rids' = 1..(l + 1)
          /\ \A i \in 1..l : rids'[i].id = rids[i].id /\ rids'[l + 1].id = g.id
      BY <1>5, <1>6, <3>1, <3>2
    <3>8. rids'[l + 1].id = g.id
      BY <1>5, <1>6, <3>1
    <3>9. RidsAreTracked'
      BY <1>2, <3>1, <3>6, <3>7, <3>8, TrackedAdded
    <3>10. \A i \in 1..(l + 1) : i # l + 1 => i \in 1..l
      OBVIOUS
    <3> QED BY <3>1, <3>2, <3>3, <3>9, <3>10
  <2> QED BY <2>1, <2>2
<1>8. ASSUME NEW i \in DOMAIN rids', NEW r, r = rids'[i]
      PROVE  RidFollows(r)'
  <2>1. CASE i = e
    BY <1>5, <1>8, <2>1
  <2>2. CASE i # e
    <3>1. i \in DOMAIN rids /\ r = rids[i] /\ r.id # g.id
      BY <1>2, <1>5, <1>7, <1>8, <2>2
    <3>2. RidFollows(r)
      BY <3>1 DEF RidsFollow
    <3> QED BY <1>1, <3>1, <3>2, RidStays
  <2> QED BY <2>1, <2>2
<1>9. RidsFollow'
  BY <1>8 DEF RidsFollow
<1> QED BY <1>7, <1>9

(* What an item that only concerns other parts leaves as it was.           *)
LEMMA GlobalsKept ==
  ASSUME NEW it, NEW n, Reads(it, n), GlobalsFollow, g' = g,
         it.tag \notin {"page", "min", "max", "size", "count", "id", "pop"}
  PROVE  GlobalsFollow'
<1>1. Now' = n + 1
  BY Reading
<1>2. g \in Globals /\
      GlobalsAt(n + 1)' =
        [page |-> IF it.tag = "page" THEN it.raw ELSE g.page,
         min |-> IF it.tag = "min" THEN Signed(it) ELSE g.min,
         max |-> IF it.tag = "max" THEN Signed(it) ELSE g.max,
         maxRaw |-> IF it.tag = "max" THEN it.raw ELSE g.maxRaw,
         size |-> IF it.tag = "size" THEN it.raw ELSE g.size,
         count |-> IF it.tag = "count" THEN it.raw ELSE g.count,
         id |-> IF it.tag = "id" THEN it.raw % 256 ELSE g.id]
  BY GlobalsNext
<1>3. GlobalsAt(n + 1)' = [page |-> g.page, min |-> g.min, max |-> g.max, maxRaw |-> g.maxRaw,
                           size |-> g.size, count |-> g.count, id |-> g.id]
  BY <1>2
<1>4. GlobalsAt(n + 1)' = g
  BY <1>2, <1>3 DEF Globals
<1>5. GlobalsAt(Now)' = GlobalsAt(n + 1)'
  BY <1>1 DEF GlobalsAt, Global, SignedGlobal, ReportOf, Setter
<1> QED BY <1>4, <1>5 DEF GlobalsFollow

(* ... the locals,                                                         *)
LEMMA LocalsKept ==
  ASSUME NEW it, NEW n, Reads(it, n), LocalsFollow, loc' = loc,
         it.tag \notin {"usage", "usageMin", "usageMax", "input", "main"}
  PROVE  LocalsFollow'
<1>1. PICK a, b, c, d : a = loc.haveMin /\ b = loc.min /\ c = loc.haveMax /\ d = loc.max
  OBVIOUS
<1>2. BoundFollows(a, b, "usageMin") /\ BoundFollows(c, d, "usageMax") /\ UsagesFollow
  BY <1>1 DEF LocalsFollow
<1>3. BoundFollows(a, b, "usageMin")' /\ BoundFollows(c, d, "usageMax")'
  BY <1>2, BoundStays
<1>4. UsagesFollow'
  BY <1>2, UsagesStay
<1>5. a = loc.haveMin' /\ b = loc.min' /\ c = loc.haveMax' /\ d = loc.max'
  BY <1>1
<1> QED BY <1>3, <1>4, <1>5 DEF LocalsFollow, BoundFollows

(* ... and what a main item does to them,                                  *)
LEMMA LocalsCleared ==
  ASSUME NEW it, NEW n, Reads(it, n), loc \in Locals, ClearLocals, it.tag \in {"input", "main"}
  PROVE  LocalsFollow'
<1>1. PICK b, d : b = loc.min /\ d = loc.max
  OBVIOUS
<1>2. loc' = [loc EXCEPT !.usages = <<>>, !.haveMin = FALSE, !.haveMax = FALSE]
  BY DEF ClearLocals
<1>3. /\ loc'.haveMin = FALSE /\ loc'.min = b /\ loc'.haveMax = FALSE /\ loc'.max = d
      /\ loc'.usages = <<>>
  BY <1>1, <1>2 DEF Locals
<1>4. BoundFollows(FALSE, b, "usageMin")' /\ BoundFollows(FALSE, d, "usageMax")'
  BY BoundCleared
<1>5. UsagesFollow'
  BY <1>3, UsagesCleared
<1> QED BY <1>3, <1>4, <1>5 DEF LocalsFollow, BoundFollows

(* ... the entries,                                                        *)
LEMMA RidsKept ==
  ASSUME NEW it, NEW n, Reads(it, n), GlobalsFollow, LocalsFollow, loc \in Locals,
         rids \in Seq(RidStates), RidsAreTracked, RidsFollow, rids' = rids, it.tag # "input"
  PROVE  RidsAreTracked' /\ RidsFollow'
<1>1. RidsAreTracked'
  BY TrackedStays
<1>2. ASSUME NEW r \in {rids[i] : i \in DOMAIN rids} PROVE RidFollows(r)'
  BY <1>2, RidStays DEF RidsFollow
<1>3. RidsFollow'
  BY <1>2 DEF RidsFollow
<1> QED BY <1>1, <1>3

(* ... and whether reports carry IDs.                                      *)
LEMMA IdsNext ==
  ASSUME NEW it, NEW n, Reads(it, n), anyId <=> Tagged("id") # {},
         anyId' <=> (anyId \/ it.tag = "id")
  PROVE  anyId' <=> Tagged("id")' # {}
<1>1. Tagged("id")' = Tagged("id") \cup (IF it.tag = "id" THEN {n + 1} ELSE {})
  BY TaggedGrows
<1> QED BY <1>1

(* An action that reads an item is entitled to the step lemmas.            *)
LEMMA ItemRead ==
  ASSUME Inv, NEW tag, Next1(tag), Consume, Followed, NestingFits'
  PROVE  /\ \E it, n : Reads(it, n) /\ it = Item /\ it.tag = tag
         /\ Follows /\ loc \in Locals /\ rids \in Seq(RidStates) /\ stack \in Seq(Globals)
<1>1. Item \in Items /\ read \in Seq(Items) /\ read' = Append(read, Item) /\ Item.tag = tag
  BY ConsumeTypes DEF Inv, TypeOK, Next1, Consume
<1>2. PICK it, n : it = Item /\ n = Now
  OBVIOUS
<1>3. Reads(it, n)
  BY <1>1, <1>2 DEF Reads
<1>4. NestingFits
  BY <1>3, NestingShrinks
<1> QED BY <1>1, <1>2, <1>3, <1>4 DEF Followed, Next1, Inv, TypeOK

-----------------------------------------------------------------------------
(* The actions.                                                            *)

(* One item after the other, what the parser holds stays true to them.     *)
LEMMA GlobalItemFollows ==
  ASSUME Inv, Followed, GlobalItem PROVE Followed'
<1>1. SUFFICES ASSUME NestingFits' PROVE Follows'
  BY DEF Followed
<1>2. PICK tag \in {"page", "min", "max", "size", "count"} : Next1(tag)
  BY DEF GlobalItem
<1>3. Consume /\ UNCHANGED <<stack, loc, anyId, rids>>
  BY DEF GlobalItem
<1>4. PICK it, n : Reads(it, n) /\ it = Item /\ it.tag = tag
  BY <1>1, <1>2, <1>3, ItemRead
<1>5. Follows /\ loc \in Locals /\ rids \in Seq(RidStates) /\ stack \in Seq(Globals)
  BY <1>1, <1>2, <1>3, ItemRead
<1>6. n \in Nat /\ Now' = n + 1
  BY <1>4, Reading
<1>7. GlobalsFollow'
  <2>1. g \in Globals /\
        GlobalsAt(n + 1)' =
          [page |-> IF it.tag = "page" THEN it.raw ELSE g.page,
           min |-> IF it.tag = "min" THEN Signed(it) ELSE g.min,
           max |-> IF it.tag = "max" THEN Signed(it) ELSE g.max,
           maxRaw |-> IF it.tag = "max" THEN it.raw ELSE g.maxRaw,
           size |-> IF it.tag = "size" THEN it.raw ELSE g.size,
           count |-> IF it.tag = "count" THEN it.raw ELSE g.count,
           id |-> IF it.tag = "id" THEN it.raw % 256 ELSE g.id]
    BY <1>2, <1>4, <1>5, GlobalsNext DEF Follows
  <2>2. /\ it.tag = "page" => g' = [g EXCEPT !.page = it.raw]
        /\ it.tag = "min" => g' = [g EXCEPT !.min = Signed(it)]
        /\ it.tag = "max" => g' = [g EXCEPT !.max = Signed(it), !.maxRaw = it.raw]
        /\ it.tag = "size" => g' = [g EXCEPT !.size = it.raw]
        /\ it.tag = "count" => g' = [g EXCEPT !.count = it.raw]
    BY <1>4 DEF GlobalItem, Next1
  <2>3. g' = GlobalsAt(n + 1)'
    BY <1>2, <1>4, <2>1, <2>2 DEF Globals
  <2>4. GlobalsAt(Now)' = GlobalsAt(n + 1)'
    BY <1>6 DEF GlobalsAt, Global, SignedGlobal, ReportOf, Setter
  <2> QED BY <2>3, <2>4 DEF GlobalsFollow
<1>8. StackFollows'
  BY <1>2, <1>3, <1>4, <1>5, StackStays DEF Follows
<1>9. LocalsFollow'
  BY <1>2, <1>3, <1>4, <1>5, LocalsKept DEF Follows
<1>10. RidsAreTracked' /\ RidsFollow'
  BY <1>2, <1>3, <1>4, <1>5, RidsKept DEF Follows
<1>11. anyId' <=> Tagged("id")' # {}
  BY <1>2, <1>3, <1>4, <1>5, IdsNext DEF Follows
<1> QED BY <1>7, <1>8, <1>9, <1>10, <1>11 DEF Follows

(* A Report ID.                                                            *)
LEMMA ReportIdItemFollows ==
  ASSUME Inv, Followed, ReportIdItem PROVE Followed'
<1>1. SUFFICES ASSUME NestingFits' PROVE Follows'
  BY DEF Followed
<1>2. Next1("id") /\ Consume /\ UNCHANGED <<stack, loc, rids>> /\ anyId' = TRUE
  BY DEF ReportIdItem
<1>3. PICK it, n : Reads(it, n) /\ it = Item /\ it.tag = "id"
  BY <1>1, <1>2, ItemRead
<1>4. Follows /\ loc \in Locals /\ rids \in Seq(RidStates) /\ stack \in Seq(Globals)
  BY <1>1, <1>2, ItemRead
<1>5. n \in Nat /\ Now' = n + 1
  BY <1>3, Reading
<1>6. GlobalsFollow'
  <2>1. g \in Globals /\
        GlobalsAt(n + 1)' =
          [page |-> IF it.tag = "page" THEN it.raw ELSE g.page,
           min |-> IF it.tag = "min" THEN Signed(it) ELSE g.min,
           max |-> IF it.tag = "max" THEN Signed(it) ELSE g.max,
           maxRaw |-> IF it.tag = "max" THEN it.raw ELSE g.maxRaw,
           size |-> IF it.tag = "size" THEN it.raw ELSE g.size,
           count |-> IF it.tag = "count" THEN it.raw ELSE g.count,
           id |-> IF it.tag = "id" THEN it.raw % 256 ELSE g.id]
    BY <1>3, <1>4, GlobalsNext DEF Follows
  <2>2. g' = [g EXCEPT !.id = it.raw % 256]
    BY <1>3 DEF ReportIdItem
  <2>3. g' = GlobalsAt(n + 1)'
    BY <1>3, <2>1, <2>2 DEF Globals
  <2>4. GlobalsAt(Now)' = GlobalsAt(n + 1)'
    BY <1>5 DEF GlobalsAt, Global, SignedGlobal, ReportOf, Setter
  <2> QED BY <2>3, <2>4 DEF GlobalsFollow
<1>7. StackFollows'
  BY <1>2, <1>3, <1>4, StackStays DEF Follows
<1>8. LocalsFollow'
  BY <1>2, <1>3, <1>4, LocalsKept DEF Follows
<1>9. RidsAreTracked' /\ RidsFollow'
  BY <1>2, <1>3, <1>4, RidsKept DEF Follows
<1>10. anyId' <=> Tagged("id")' # {}
  BY <1>2, <1>3, <1>4, IdsNext DEF Follows
<1> QED BY <1>6, <1>7, <1>8, <1>9, <1>10 DEF Follows

(* A Push.                                                                 *)
LEMMA PushFollows ==
  ASSUME Inv, Followed, Push PROVE Followed'
<1>1. SUFFICES ASSUME NestingFits' PROVE Follows'
  BY DEF Followed
<1>2. /\ Next1("push") /\ Consume /\ UNCHANGED <<g, loc, anyId, rids>>
      /\ stack' = IF Len(stack) < StackMax THEN Append(stack, g) ELSE stack
  BY DEF Push
<1>3. PICK it, n : Reads(it, n) /\ it = Item /\ it.tag = "push"
  BY <1>1, <1>2, ItemRead
<1>4. Follows /\ loc \in Locals /\ rids \in Seq(RidStates) /\ stack \in Seq(Globals)
  BY <1>1, <1>2, ItemRead
<1>5. StackFollows'
  <2>1. Len(stack) < StackMax /\ (stack' = Append(stack, g) => StackFollows')
    BY <1>1, <1>3, <1>4, StackPushed DEF Follows
  <2> QED BY <1>2, <2>1
<1>6. GlobalsFollow'
  BY <1>2, <1>3, <1>4, GlobalsKept DEF Follows
<1>7. LocalsFollow'
  BY <1>2, <1>3, <1>4, LocalsKept DEF Follows
<1>8. RidsAreTracked' /\ RidsFollow'
  BY <1>2, <1>3, <1>4, RidsKept DEF Follows
<1>9. anyId' <=> Tagged("id")' # {}
  BY <1>2, <1>3, <1>4, IdsNext DEF Follows
<1> QED BY <1>5, <1>6, <1>7, <1>8, <1>9 DEF Follows

(* A Pop.                                                                  *)
LEMMA PopFollows ==
  ASSUME Inv, Followed, Pop PROVE Followed'
<1>1. SUFFICES ASSUME NestingFits' PROVE Follows'
  BY DEF Followed
<1>2. /\ Next1("pop") /\ Consume /\ UNCHANGED <<loc, anyId, rids>>
      /\ IF stack = <<>> THEN UNCHANGED <<g, stack>>
         ELSE g' = stack[Len(stack)] /\ stack' = SubSeq(stack, 1, Len(stack) - 1)
  BY DEF Pop
<1>3. PICK it, n : Reads(it, n) /\ it = Item /\ it.tag = "pop"
  BY <1>1, <1>2, ItemRead
<1>4. Follows /\ loc \in Locals /\ rids \in Seq(RidStates) /\ stack \in Seq(Globals)
  BY <1>1, <1>2, ItemRead
<1>5. n \in Nat /\ Now' = n + 1
  BY <1>3, Reading
<1>6. StackFollows' /\ g' = GlobalsAt(n + 1)'
  <2>1. /\ stack = <<>> => /\ g = GlobalsAt(n + 1)'
                           /\ stack' = stack => StackFollows'
        /\ stack # <<>> => /\ stack[Len(stack)] = GlobalsAt(n + 1)'
                           /\ stack' = SubSeq(stack, 1, Len(stack) - 1) => StackFollows'
    BY <1>3, <1>4, StackPopped DEF Follows
  <2> QED BY <1>2, <2>1
<1>7. GlobalsFollow'
  <2>1. GlobalsAt(Now)' = GlobalsAt(n + 1)'
    BY <1>5 DEF GlobalsAt, Global, SignedGlobal, ReportOf, Setter
  <2> QED BY <1>6, <2>1 DEF GlobalsFollow
<1>8. LocalsFollow'
  BY <1>2, <1>3, <1>4, LocalsKept DEF Follows
<1>9. RidsAreTracked' /\ RidsFollow'
  BY <1>2, <1>3, <1>4, RidsKept DEF Follows
<1>10. anyId' <=> Tagged("id")' # {}
  BY <1>2, <1>3, <1>4, IdsNext DEF Follows
<1> QED BY <1>6, <1>7, <1>8, <1>9, <1>10 DEF Follows

(* A Usage, a Usage Minimum or a Usage Maximum.                            *)
LEMMA LocalItemFollows ==
  ASSUME Inv, Followed, LocalItem PROVE Followed'
<1>1. SUFFICES ASSUME NestingFits' PROVE Follows'
  BY DEF Followed
<1>2. PICK tag \in {"usage", "usageMin", "usageMax"} : Next1(tag)
  BY DEF LocalItem
<1>3. Consume /\ UNCHANGED <<g, stack, anyId, rids>>
  BY DEF LocalItem
<1>4. PICK it, n : Reads(it, n) /\ it = Item /\ it.tag = tag
  BY <1>1, <1>2, <1>3, ItemRead
<1>5. Follows /\ loc \in Locals /\ rids \in Seq(RidStates) /\ stack \in Seq(Globals)
  BY <1>1, <1>2, <1>3, ItemRead
<1>6. PICK a, b, c, d, v : /\ a = loc.haveMin /\ b = loc.min /\ c = loc.haveMax /\ d = loc.max
                           /\ v = FullUsage(it)
  OBVIOUS
<1>7. /\ BoundFollows(a, b, "usageMin") /\ BoundFollows(c, d, "usageMax") /\ UsagesFollow
      /\ GlobalsFollow
  BY <1>5, <1>6 DEF Follows, LocalsFollow
<1>8. /\ tag = "usage" => loc' = IF Len(loc.usages) < MaxLocalUsages
                                 THEN [loc EXCEPT !.usages = Append(@, v)] ELSE loc
      /\ tag = "usageMin" => loc' = [loc EXCEPT !.min = v, !.haveMin = TRUE]
      /\ tag = "usageMax" => loc' = [loc EXCEPT !.max = v, !.haveMax = TRUE]
  BY <1>4, <1>6 DEF LocalItem, Next1
<1>9. LocalsFollow'
  <2>1. CASE tag = "usage"
    <3>1. BoundFollows(a, b, "usageMin")' /\ BoundFollows(c, d, "usageMax")'
      BY <1>4, <1>7, <2>1, BoundStays
    <3>2. loc'.usages = (IF Len(loc.usages) < MaxLocalUsages THEN Append(loc.usages, v) ELSE loc.usages)
      BY <1>5, <1>8, <2>1 DEF Locals
    <3>3. loc'.usages = (IF Len(loc.usages) < MaxLocalUsages
                         THEN Append(loc.usages, FullUsage(it)) ELSE loc.usages)
      BY <1>6, <3>2
    <3>4. UsagesFollow'
      BY <1>4, <1>5, <1>7, <2>1, <3>3, UsagesAdded
    <3>5. a = loc.haveMin' /\ b = loc.min' /\ c = loc.haveMax' /\ d = loc.max'
      BY <1>5, <1>6, <1>8, <2>1 DEF Locals
    <3> QED BY <3>1, <3>4, <3>5 DEF LocalsFollow, BoundFollows
  <2>2. CASE tag = "usageMin"
    <3>1. BoundFollows(c, d, "usageMax")'
      BY <1>4, <1>7, <2>2, BoundStays
    <3>2. BoundFollows(TRUE, v, it.tag)'
      BY <1>4, <1>6, <1>7, <2>2, BoundSet
    <3>3. BoundFollows(TRUE, v, "usageMin")'
      BY <1>4, <2>2, <3>2
    <3>4. UsagesFollow' /\ loc.haveMin' = TRUE /\ v = loc.min' /\ c = loc.haveMax' /\ d = loc.max'
      <4>1. /\ loc'.usages = loc.usages
            /\ loc.haveMin' = TRUE /\ v = loc.min' /\ c = loc.haveMax' /\ d = loc.max'
        BY <1>5, <1>6, <1>8, <2>2 DEF Locals
      <4> QED BY <1>4, <1>7, <2>2, <4>1, UsagesStay
    <3> QED BY <3>1, <3>3, <3>4 DEF LocalsFollow, BoundFollows
  <2>3. CASE tag = "usageMax"
    <3>1. BoundFollows(a, b, "usageMin")'
      BY <1>4, <1>7, <2>3, BoundStays
    <3>2. BoundFollows(TRUE, v, it.tag)'
      BY <1>4, <1>6, <1>7, <2>3, BoundSet
    <3>3. BoundFollows(TRUE, v, "usageMax")'
      BY <1>4, <2>3, <3>2
    <3>4. UsagesFollow' /\ loc.haveMax' = TRUE /\ v = loc.max' /\ a = loc.haveMin' /\ b = loc.min'
      <4>1. /\ loc'.usages = loc.usages
            /\ loc.haveMax' = TRUE /\ v = loc.max' /\ a = loc.haveMin' /\ b = loc.min'
        BY <1>5, <1>6, <1>8, <2>3 DEF Locals
      <4> QED BY <1>4, <1>7, <2>3, <4>1, UsagesStay
    <3> QED BY <3>1, <3>3, <3>4 DEF LocalsFollow, BoundFollows
  <2> QED BY <1>2, <2>1, <2>2, <2>3
<1>10. StackFollows'
  BY <1>2, <1>3, <1>4, <1>5, StackStays DEF Follows
<1>11. GlobalsFollow'
  BY <1>2, <1>3, <1>4, <1>7, GlobalsKept
<1>12. RidsAreTracked' /\ RidsFollow'
  BY <1>2, <1>3, <1>4, <1>5, RidsKept DEF Follows
<1>13. anyId' <=> Tagged("id")' # {}
  BY <1>2, <1>3, <1>4, <1>5, IdsNext DEF Follows
<1> QED BY <1>9, <1>10, <1>11, <1>12, <1>13 DEF Follows

(* An item the parser has no use for.                                      *)
LEMMA OtherItemFollows ==
  ASSUME Inv, Followed, OtherItem PROVE Followed'
<1>1. SUFFICES ASSUME NestingFits' PROVE Follows'
  BY DEF Followed
<1>2. Next1("other") /\ Consume /\ UNCHANGED <<g, stack, loc, anyId, rids>>
  BY DEF OtherItem, parser
<1>3. PICK it, n : Reads(it, n) /\ it = Item /\ it.tag = "other"
  BY <1>1, <1>2, ItemRead
<1>4. Follows /\ loc \in Locals /\ rids \in Seq(RidStates) /\ stack \in Seq(Globals)
  BY <1>1, <1>2, ItemRead
<1>5. StackFollows'
  BY <1>2, <1>3, <1>4, StackStays DEF Follows
<1>6. GlobalsFollow'
  BY <1>2, <1>3, <1>4, GlobalsKept DEF Follows
<1>7. LocalsFollow'
  BY <1>2, <1>3, <1>4, LocalsKept DEF Follows
<1>8. RidsAreTracked' /\ RidsFollow'
  BY <1>2, <1>3, <1>4, RidsKept DEF Follows
<1>9. anyId' <=> Tagged("id")' # {}
  BY <1>2, <1>3, <1>4, IdsNext DEF Follows
<1> QED BY <1>5, <1>6, <1>7, <1>8, <1>9 DEF Follows

(* A main item that is not an Input.                                       *)
LEMMA OtherMainFollows ==
  ASSUME Inv, Followed, OtherMain PROVE Followed'
<1>1. SUFFICES ASSUME NestingFits' PROVE Follows'
  BY DEF Followed
<1>2. Next1("main") /\ ClearLocals /\ Consume /\ UNCHANGED <<g, stack, anyId, rids>>
  BY DEF OtherMain
<1>3. PICK it, n : Reads(it, n) /\ it = Item /\ it.tag = "main"
  BY <1>1, <1>2, ItemRead
<1>4. Follows /\ loc \in Locals /\ rids \in Seq(RidStates) /\ stack \in Seq(Globals)
  BY <1>1, <1>2, ItemRead
<1>5. StackFollows'
  BY <1>2, <1>3, <1>4, StackStays DEF Follows
<1>6. GlobalsFollow'
  BY <1>2, <1>3, <1>4, GlobalsKept DEF Follows
<1>7. LocalsFollow'
  BY <1>2, <1>3, <1>4, LocalsCleared
<1>8. RidsAreTracked' /\ RidsFollow'
  BY <1>2, <1>3, <1>4, RidsKept DEF Follows
<1>9. anyId' <=> Tagged("id")' # {}
  BY <1>2, <1>3, <1>4, IdsNext DEF Follows
<1> QED BY <1>5, <1>6, <1>7, <1>8, <1>9 DEF Follows

(* An Input item, when the entries it leaves follow the descriptor.        *)
LEMMA InputFollows ==
  ASSUME Inv, Followed, NestingFits', Next1("input"), ClearLocals, Consume,
         UNCHANGED <<g, stack, anyId>>, RidsAreTracked', RidsFollow'
  PROVE  Follows'
<1>1. PICK it, n : Reads(it, n) /\ it = Item /\ it.tag = "input"
  BY ItemRead
<1>2. Follows /\ loc \in Locals /\ rids \in Seq(RidStates) /\ stack \in Seq(Globals)
  BY ItemRead
<1>3. StackFollows'
  BY <1>1, <1>2, StackStays DEF Follows
<1>4. GlobalsFollow'
  BY <1>1, <1>2, GlobalsKept DEF Follows
<1>5. LocalsFollow'
  BY <1>1, <1>2, LocalsCleared
<1>6. anyId' <=> Tagged("id")' # {}
  BY <1>1, <1>2, IdsNext DEF Follows
<1> QED BY <1>3, <1>4, <1>5, <1>6 DEF Follows

(* An Input item no entry is left for.                                     *)
LEMMA InputIgnoredFollows ==
  ASSUME Inv, Followed, InputIgnored PROVE Followed'
<1>1. SUFFICES ASSUME NestingFits' PROVE Follows'
  BY DEF Followed
<1>2. /\ Next1("input") /\ ~ HasRid
      /\ ClearLocals /\ Consume /\ UNCHANGED <<g, stack, anyId, rids>>
  BY DEF InputIgnored
<1>3. PICK it, n : Reads(it, n) /\ it = Item /\ it.tag = "input"
  BY <1>1, <1>2, ItemRead
<1>4. Follows /\ loc \in Locals /\ rids \in Seq(RidStates)
  BY <1>1, <1>2, ItemRead
<1>5. RidsAreTracked'
  BY <1>2, <1>3, <1>4, TrackedFull DEF Follows, HasRid
<1>6. ASSUME NEW r \in {rids[i] : i \in DOMAIN rids} PROVE RidFollows(r)'
  <2>1. g.id # r.id /\ RidFollows(r)
    BY <1>2, <1>4, <1>6 DEF HasRid, Known, Follows, RidsFollow
  <2> QED BY <1>3, <1>4, <2>1, RidStays DEF Follows
<1>7. RidsFollow'
  BY <1>2, <1>6 DEF RidsFollow
<1> QED BY <1>1, <1>2, <1>5, <1>7, InputFollows

(* An Input item that does not fit.                                        *)
LEMMA InputSkippedFollows ==
  ASSUME Inv, Followed, InputSkipped PROVE Followed'
<1>1. SUFFICES ASSUME NestingFits' PROVE Follows'
  BY DEF Followed
<1>2. /\ Next1("input") /\ HasRid /\ ~ Fits
      /\ ClearLocals /\ Consume /\ UNCHANGED <<g, stack, anyId>>
  BY DEF InputSkipped
<1>3. PICK it, n : Reads(it, n) /\ it = Item /\ it.tag = "input"
  BY <1>1, <1>2, ItemRead
<1>4. GlobalsFollow /\ LocalsFollow /\ RidsAreTracked /\ RidsFollow
  BY <1>1, <1>2, ItemRead DEF Follows
<1>5. Rid.id = g.id /\ RidFollows(Rid) /\ Rid \in RidStates
  BY <1>2, <1>4, EntryFollows, RidTaken
<1>6. PICK q : q = [Rid EXCEPT !.overflowed = TRUE]
  OBVIOUS
<1>7. RidFollows(q)'
  BY <1>2, <1>3, <1>4, <1>5, <1>6, RidSkipped
<1>8. q \in RidStates /\ q.id = g.id
  BY <1>5, <1>6 DEF RidStates
<1>9. rids' = [WithRid EXCEPT ![RidIndex] = q]
  BY <1>2, <1>6, RidTaken DEF InputSkipped, Rid
<1>10. RidsAreTracked' /\ RidsFollow'
  BY <1>2, <1>3, <1>4, <1>7, <1>8, <1>9, EntryReplaced
<1> QED BY <1>1, <1>2, <1>10, InputFollows

(* An Input item that fits.                                                *)
LEMMA InputFieldsFollows ==
  ASSUME Inv, Followed, InputFields PROVE Followed'
<1>1. SUFFICES ASSUME NestingFits' PROVE Follows'
  BY DEF Followed
<1>2. /\ Next1("input") /\ HasRid /\ Fits
      /\ ClearLocals /\ Consume /\ UNCHANGED <<g, stack, anyId>>
  BY DEF InputFields
<1>3. PICK it, n : Reads(it, n) /\ it = Item /\ it.tag = "input"
  BY <1>1, <1>2, ItemRead
<1>4. GlobalsFollow /\ LocalsFollow /\ RidsAreTracked /\ RidsFollow
  BY <1>1, <1>2, ItemRead DEF Follows
<1>5. Rid.id = g.id /\ RidFollows(Rid) /\ Rid \in RidStates
  BY <1>2, <1>4, EntryFollows, RidTaken
<1>6. PICK q : q = [Rid EXCEPT !.tip = Located(@, Tip), !.x = Located(@, X),
                               !.y = Located(@, Y), !.bits = (@ + ItemBits) % Modulus]
  OBVIOUS
<1>7. RidFollows(q)'
  BY <1>2, <1>3, <1>4, <1>5, <1>6, RidExtended
<1>8. q \in RidStates /\ q.id = g.id
  <2>1. /\ q.id = Rid.id /\ DOMAIN q = DOMAIN Rid /\ q.overflowed = Rid.overflowed
        /\ q = [id |-> Rid.id, bits |-> (Rid.bits + ItemBits) % Modulus, tip |-> Located(Rid.tip, Tip),
                x |-> Located(Rid.x, X), y |-> Located(Rid.y, Y), overflowed |-> Rid.overflowed]
    BY <1>5, <1>6 DEF RidStates
  <2>2. ItemBits \in Nat /\ Rid.bits \in Nat /\ Rid.bits + ItemBits \in Nat /\ Modulus \in Nat /\ Modulus > 0
    BY <1>2, <1>5, NoWrap, Magnitudes DEF RidStates
  <2>3. (Rid.bits + ItemBits) % Modulus \in Nat
    BY <2>2
  <2>4. RidFits(Rid)
    BY <1>2, RidTaken DEF Rid
  <2>5. Located(Rid.tip, Tip) \in Field /\ Located(Rid.x, X) \in Field /\ Located(Rid.y, Y) \in Field
    BY <1>2, <1>5, <2>4, LocatedFits DEF RidStates, RidFits
  <2> QED BY <1>5, <2>1, <2>3, <2>5 DEF RidStates
<1>9. rids' = [WithRid EXCEPT ![RidIndex] = q]
  BY <1>2, <1>6 DEF InputFields
<1>10. RidsAreTracked' /\ RidsFollow'
  BY <1>2, <1>3, <1>4, <1>7, <1>8, <1>9, EntryReplaced
<1> QED BY <1>1, <1>2, <1>10, InputFollows

(* What the descriptor declares depends on the items read alone.           *)
LEMMA ItemsStay ==
  ASSUME read' = read
  PROVE  /\ Now' = Now /\ Inputs' = Inputs /\ Beginnings' = Beginnings /\ Tracked' = Tracked
         /\ \A t : Tagged(t)' = Tagged(t)
         /\ NestingFits' <=> NestingFits
         /\ \A p, n : Nested(p, n)' = Nested(p, n)
         /\ \A t, n : Global(t, n)' = Global(t, n) /\ Own(t, n)' = Own(t, n)
         /\ \A n : /\ GlobalsAt(n)' = GlobalsAt(n) /\ LogicalMaxAt(n)' = LogicalMaxAt(n)
                   /\ ReportOf(n)' = ReportOf(n) /\ SizeOf(n)' = SizeOf(n)
                   /\ Declared(n)' = Declared(n) /\ StartOf(n)' = StartOf(n)
         /\ \A n, k : UsageAt(n, k)' = UsageAt(n, k)
         /\ \A id : InputsOf(id)' = InputsOf(id)
         /\ \A id, n : BitsOf(id, n)' = BitsOf(id, n)
         /\ \A id, u : Places(id, u)' = Places(id, u)
<1>1. Now' = Now /\ Inputs' = Inputs /\ \A t : Tagged(t)' = Tagged(t)
  BY DEF Now, Inputs, Tagged
<1>2. \A p, n : Nested(p, n)' = Nested(p, n)
  BY DEF Nested, Surplus, Count, Tagged
<1>3. NestingFits' <=> NestingFits
  BY <1>2 DEF NestingFits
<1>4. Scopes' = Scopes
  BY <1>1, <1>2 DEF Scopes
<1>5. \A t, n : Setter(t, n)' = Setter(t, n)
  BY <1>1, <1>4 DEF Setter
<1>6. ASSUME NEW t, NEW n
      PROVE  Global(t, n)' = Global(t, n) /\ SignedGlobal(t, n)' = SignedGlobal(t, n)
  BY <1>5 DEF Global, SignedGlobal
<1>7. \A t, n : Own(t, n)' = Own(t, n)
  BY <1>1 DEF Own
<1>8. \A n : ReportOf(n)' = ReportOf(n) /\ SizeOf(n)' = SizeOf(n) /\ LogicalMaxAt(n)' = LogicalMaxAt(n)
  BY <1>6 DEF ReportOf, SizeOf, LogicalMaxAt
<1>9. \A n : GlobalsAt(n)' = GlobalsAt(n)
  BY <1>6, <1>8 DEF GlobalsAt
<1>10. \A n : Declared(n)' = Declared(n)
  BY <1>6 DEF Declared
<1>11. \A id : InputsOf(id)' = InputsOf(id)
  BY <1>1, <1>8 DEF InputsOf
<1>12. \A id, n : BitsOf(id, n)' = BitsOf(id, n)
  BY <1>8, <1>11 DEF BitsOf
<1>13. ASSUME NEW n PROVE StartOf(n)' = StartOf(n)
  <2>1. PICK id, m : id = ReportOf(n) /\ m = n - 1
    OBVIOUS
  <2>2. BitsOf(id, m)' = BitsOf(id, m)
    BY <1>12
  <2> QED BY <1>8, <2>1, <2>2 DEF StartOf
<1>14. ASSUME NEW n, NEW k PROVE UsageAt(n, k)' = UsageAt(n, k)
  <2>1. PICK a, b : a = Last(Own("usageMin", n)) /\ b = Last(Own("usageMax", n))
    OBVIOUS
  <2>2. a = Last(Own("usageMin", n))' /\ b = Last(Own("usageMax", n))'
    BY <1>7, <2>1 DEF Last
  <2>3. PICK own : own = Own("usage", n)
    OBVIOUS
  <2>4. own = Own("usage", n)'
    BY <1>7, <2>3
  <2>5. PICK i : i = CHOOSE j \in own : Count(own, j) = Lesser(k + 1, Lesser(Count(own, n), MaxLocalUsages))
    OBVIOUS
  <2>6. Declared(a)' = Declared(a) /\ Declared(b)' = Declared(b) /\ Declared(i)' = Declared(i)
    BY <1>10
  <2> QED BY <1>7, <2>1, <2>2, <2>3, <2>4, <2>5, <2>6 DEF UsageAt
<1>15. \A id, u : Places(id, u)' = Places(id, u)
  BY <1>6, <1>11, <1>14 DEF Places
<1>16. Beginnings' = Beginnings
  <2>1. ASSUME NEW n PROVE InputsOf(ReportOf(n))' = InputsOf(ReportOf(n))
    <3>1. PICK id : id = ReportOf(n)
      OBVIOUS
    <3> QED BY <1>8, <1>11, <3>1
  <2> QED BY <1>1, <2>1 DEF Beginnings
<1>17. Tracked' = Tracked
  BY <1>16 DEF Tracked, Count
<1> QED BY <1>1, <1>2, <1>3, <1>6, <1>7, <1>8, <1>9, <1>10, <1>11, <1>12, <1>13, <1>14, <1>15,
           <1>16, <1>17

(* Nothing is read and nothing changes: the panel sends more, or rests.    *)
LEMMA FollowedStays ==
  ASSUME Followed, UNCHANGED <<g, stack, loc, anyId, rids, status, read>> PROVE Followed'
<1>1. SUFFICES ASSUME status = "PARSING", NestingFits, Follows
               PROVE  Follows'
  BY ItemsStay DEF Followed
<1>2. StackFollows'
  <2>1. PICK pos \in [DOMAIN stack -> Nat] : Saved(pos)
    BY <1>1 DEF Follows, StackFollows
  <2>2. \A p : Open(p)' <=> Open(p)
    BY ItemsStay DEF Open
  <2>3. Saved(pos)'
    <3>1. PICK n : n = Now
      OBVIOUS
    <3>2. n = Now'
      BY <3>1, ItemsStay
    <3>3. \A d : Nested(pos[d], n)' = Nested(pos[d], n) /\ GlobalsAt(pos[d])' = GlobalsAt(pos[d])
      BY ItemsStay
    <3>4. Tagged("push")' = Tagged("push")
      BY ItemsStay
    <3> QED BY <2>1, <2>2, <3>1, <3>2, <3>3, <3>4 DEF Saved
  <2> QED BY <2>1, <2>3 DEF StackFollows
<1>3. GlobalsFollow'
  <2>1. PICK n : n = Now
    OBVIOUS
  <2>2. n = Now' /\ GlobalsAt(n)' = GlobalsAt(n)
    BY <2>1, ItemsStay
  <2> QED BY <1>1, <2>1, <2>2 DEF Follows, GlobalsFollow
<1>4. LocalsFollow'
  <2>1. PICK n : n = Now
    OBVIOUS
  <2>2. n = Now' /\ \A t : Own(t, n + 1)' = Own(t, n + 1)
    BY <2>1, ItemsStay
  <2>3. \A i : Declared(i)' = Declared(i)
    BY ItemsStay
  <2>4. PICK a, b : a = Last(Own("usageMin", n + 1)) /\ b = Last(Own("usageMax", n + 1))
    OBVIOUS
  <2>5. /\ a = Last(Own("usageMin", n + 1))' /\ b = Last(Own("usageMax", n + 1))'
        /\ Declared(a)' = Declared(a) /\ Declared(b)' = Declared(b)
    BY <2>2, <2>3, <2>4 DEF Last
  <2>6. /\ BoundFollows(loc.haveMin, loc.min, "usageMin")
        /\ BoundFollows(loc.haveMax, loc.max, "usageMax") /\ UsagesFollow
    BY <1>1 DEF Follows, LocalsFollow
  <2>7. BoundFollows(loc.haveMin, loc.min, "usageMin")' /\ BoundFollows(loc.haveMax, loc.max, "usageMax")'
    BY <2>1, <2>2, <2>4, <2>5, <2>6 DEF BoundFollows
  <2>8. UsagesFollow'
    <3>1. PICK own : own = Own("usage", n + 1)
      OBVIOUS
    <3>2. own = Own("usage", n + 1)' /\ loc' = loc
      BY <2>2, <3>1
    <3>3. /\ Len(loc.usages) = Lesser(Count(own, n), MaxLocalUsages)
          /\ \A i \in own : Count(own, i) <= MaxLocalUsages =>
               Count(own, i) \in DOMAIN loc.usages /\ loc.usages[Count(own, i)] = Declared(i)
          /\ \A r \in DOMAIN loc.usages : \E i \in own : Count(own, i) = r
      BY <2>1, <2>6, <3>1 DEF UsagesFollow
    <3>4. /\ Len(loc'.usages) = Lesser(Count(own, n), MaxLocalUsages)
          /\ \A i \in own : Count(own, i) <= MaxLocalUsages =>
               Count(own, i) \in DOMAIN loc'.usages /\ loc'.usages[Count(own, i)] = Declared(i)'
          /\ \A r \in DOMAIN loc'.usages : \E i \in own : Count(own, i) = r
      BY <2>3, <3>2, <3>3
    <3> QED BY <2>2, <3>2, <3>4 DEF UsagesFollow
  <2> QED BY <2>7, <2>8 DEF LocalsFollow
<1>5. RidsAreTracked'
  BY <1>1, ItemsStay DEF Follows, RidsAreTracked, Count
<1>6. ASSUME NEW r \in {rids[i] : i \in DOMAIN rids} PROVE RidFollows(r)'
  <2>1. RidFollows(r)
    BY <1>1, <1>6 DEF Follows, RidsFollow
  <2>2. PICK id, n : id = r.id /\ n = Now
    OBVIOUS
  <2>3. /\ n = Now' /\ InputsOf(id)' = InputsOf(id) /\ BitsOf(id, n)' = BitsOf(id, n)
        /\ \A m : SizeOf(m)' = SizeOf(m)
    BY <2>2, ItemsStay
  <2>4. ASSUME NEW f, NEW u, FieldFollows(f, id, u) PROVE FieldFollows(f, id, u)'
    <3>1. Places(id, u)' = Places(id, u)
      BY ItemsStay
    <3>2. ASSUME NEW a PROVE Spot(a)' = Spot(a)
      <4>1. PICK m : m = a[1]
        OBVIOUS
      <4>2. /\ StartOf(m)' = StartOf(m) /\ Global("size", m)' = Global("size", m)
            /\ LogicalMaxAt(m)' = LogicalMaxAt(m)
        BY ItemsStay
      <4> QED BY <4>1, <4>2 DEF Spot
    <3> QED BY <2>4, <3>1, <3>2 DEF FieldFollows
  <2>5. BitsOf(id, Now)' = BitsOf(id, n)
    BY <2>3
  <2> QED BY <2>1, <2>2, <2>3, <2>4, <2>5 DEF RidFollows, MaxReportBits
<1>7. RidsFollow'
  BY <1>6 DEF RidsFollow
<1>8. anyId' <=> Tagged("id")' # {}
  BY <1>1, ItemsStay DEF Follows
<1> QED BY <1>2, <1>3, <1>4, <1>5, <1>7, <1>8 DEF Follows

(* Before the first item there is nothing to follow.                       *)
LEMMA InitFollows == Init => Followed
<1> SUFFICES ASSUME Init PROVE Follows
  BY DEF Followed
<1>1. /\ g = NoGlobals /\ stack = <<>> /\ loc = NoLocals /\ anyId = FALSE /\ rids = <<>>
      /\ read = <<>>
  BY DEF Init
<1>2. Now = 0 /\ \A t : Tagged(t) = {}
  BY <1>1 DEF Now, Tagged
<1>3. StackFollows
  <2>1. Saved([d \in DOMAIN stack |-> 0])
    BY <1>1, <1>2 DEF Saved
  <2> QED BY <2>1 DEF StackFollows
<1>4. GlobalsFollow
  <2>1. \A t, n : Setter(t, n) = {}
    BY <1>2 DEF Setter
  <2>2. \A t, n : Global(t, n) = 0 /\ SignedGlobal(t, n) = 0
    BY <2>1 DEF Global, SignedGlobal
  <2>3. 0 % 256 = 0
    OBVIOUS
  <2> QED BY <1>1, <2>2, <2>3 DEF GlobalsFollow, GlobalsAt, ReportOf, NoGlobals
<1>5. LocalsFollow
  <2>1. \A t, n : Own(t, n) = {}
    BY <1>2 DEF Own
  <2>2. \A S : Count(S, 0) = 0
    BY CountRule
  <2>3. loc.haveMin = FALSE /\ loc.haveMax = FALSE /\ loc.usages = <<>> /\ Len(<<>>) = 0 /\ DOMAIN <<>> = {}
    BY <1>1 DEF NoLocals
  <2>4. UsagesFollow
    BY <1>2, <2>1, <2>2, <2>3, LimitsAssumption DEF UsagesFollow, Lesser
  <2> QED BY <2>1, <2>3, <2>4 DEF LocalsFollow, BoundFollows
<1>6. RidsAreTracked /\ RidsFollow
  <2>1. Beginnings = {} /\ Tracked = {}
    BY <1>2 DEF Tracked, Beginnings, Inputs
  <2>2. Count(Beginnings, Now) = 0
    BY <1>2, CountRule
  <2>3. DOMAIN rids = {} /\ Len(rids) = 0
    BY <1>1
  <2> QED BY <2>1, <2>2, <2>3, LimitsAssumption DEF RidsAreTracked, RidsFollow, Lesser
<1> QED BY <1>1, <1>2, <1>3, <1>4, <1>5, <1>6 DEF Follows

(* Every step keeps what the parser holds true to what it has read.        *)
LEMMA NextFollows == Inv /\ Followed /\ [Next]_vars => Followed'
<1> SUFFICES ASSUME Inv, Followed, [Next]_vars PROVE Followed'
  OBVIOUS
<1>1. CASE Receive
  BY <1>1, FollowedStays DEF Receive, parser, result
<1>2. CASE GlobalItem
  BY <1>2, GlobalItemFollows
<1>3. CASE ReportIdItem
  BY <1>3, ReportIdItemFollows
<1>4. CASE Push
  BY <1>4, PushFollows
<1>5. CASE Pop
  BY <1>5, PopFollows
<1>6. CASE LocalItem
  BY <1>6, LocalItemFollows
<1>7. CASE OtherItem
  BY <1>7, OtherItemFollows
<1>8. CASE OtherMain
  BY <1>8, OtherMainFollows
<1>9. CASE InputIgnored
  BY <1>9, InputIgnoredFollows
<1>10. CASE InputSkipped
  BY <1>10, InputSkippedFollows
<1>11. CASE InputFields
  BY <1>11, InputFieldsFollows
<1>12. CASE Finish
  <2>1. status' # "PARSING"
    BY <1>12 DEF Finish
  <2> QED BY <2>1 DEF Followed
<1>13. CASE TouchReport
  <2>1. status' # "PARSING"
    BY <1>13 DEF TouchReport, result
  <2> QED BY <2>1 DEF Followed
<1>14. CASE UNCHANGED vars
  BY <1>14, FollowedStays DEF vars, parser, result
<1>15. CASE Finished
  BY <1>14, <1>15 DEF Finished
<1> QED BY <1>1, <1>2, <1>3, <1>4, <1>5, <1>6, <1>7, <1>8, <1>9, <1>10, <1>11, <1>12, <1>13,
           <1>14, <1>15 DEF Next

-----------------------------------------------------------------------------
(* The layout.                                                             *)

(* The first field of a usage is where its entry says.                     *)
LEMMA FieldDeclared ==
  ASSUME read \in Seq(Items), NEW f, NEW id, NEW u, FieldFollows(f, id, u)
  PROVE  /\ f.off >= 0 <=> Places(id, u) # {}
         /\ Places(id, u) # {} => f = DeclaredField(id, u)
<1>1. CASE Places(id, u) = {}
  BY <1>1 DEF FieldFollows, Absent
<1>2. CASE Places(id, u) # {}
  <2>1. PICK a \in Places(id, u) : (\A b \in Places(id, u) : Earlier(a, b)) /\ f = Spot(a)
    BY <1>2 DEF FieldFollows
  <2>2. \A b \in Places(id, u) : b[1] \in Nat /\ b[2] \in Nat /\ b = <<b[1], b[2]>>
    <3>1. SUFFICES ASSUME NEW n \in InputsOf(id), NEW k \in 0..(Global("count", n) - 1)
                   PROVE  n \in Nat /\ k \in Nat
      BY DEF Places
    <3>2. n \in DOMAIN read /\ DOMAIN read = 1..Len(read) /\ Len(read) \in Nat
      BY LenProperties DEF InputsOf, Inputs, Tagged
    <3> QED BY <3>2
  <2>3. \A b \in Places(id, u) : (\A c \in Places(id, u) : Earlier(b, c)) => b = a
    BY <2>1, <2>2 DEF Earlier
  <2>4. FirstPlace(id, u) = a
    BY <2>1, <2>3 DEF FirstPlace, Earlier
  <2>5. f = DeclaredField(id, u)
    BY <2>1, <2>4 DEF DeclaredField, Spot
  <2>6. StartOf(a[1]) \in Nat
    <3>1. PICK b, n : b = ReportOf(a[1]) /\ n = a[1] - 1
      OBVIOUS
    <3>2. a[1] \in Nat /\ a[1] > 0
      <4>1. a[1] \in InputsOf(id)
        BY <2>1 DEF Places
      <4>2. a[1] \in DOMAIN read /\ DOMAIN read = 1..Len(read) /\ Len(read) \in Nat
        BY <4>1, LenProperties DEF InputsOf, Inputs, Tagged
      <4> QED BY <4>2
    <3>3. n \in Nat
      BY <3>1, <3>2
    <3>4. BitsOf(b, n) \in Nat
      BY <3>3, BitsRule
    <3> QED BY <3>1, <3>4 DEF StartOf
  <2>7. Global("size", a[1]) \in Nat /\ a[2] \in Nat
    BY <2>1, <2>2, Naturals
  <2>8. a[2] * Global("size", a[1]) \in Nat
    BY <2>7
  <2>9. f.off \in Nat
    <3>1. f.off = StartOf(a[1]) + a[2] * Global("size", a[1])
      BY <2>1 DEF Spot
    <3> QED BY <2>6, <2>8, <3>1
  <2> QED BY <1>2, <2>5, <2>9
<1> QED BY <1>1, <1>2

(* An entry is usable exactly when the report it follows is.               *)
LEMMA UsableMeans ==
  ASSUME read \in Seq(Items), NEW r \in RidStates, RidFits(r), RidFollows(r)
  PROVE  /\ Usable(r) <=> UsableReport(r.id)
         /\ Usable(r) => /\ r.tip = DeclaredField(r.id, Tip)
                         /\ r.x = DeclaredField(r.id, X) /\ r.y = DeclaredField(r.id, Y)
<1>1. PayloadBits \in Int /\ PayloadBits <= MaxReportBits /\ MaxReportBits \in Nat
  BY Magnitudes DEF PayloadBits
<1>2. PICK id, n : id = r.id /\ n = Now
  OBVIOUS
<1>3. n \in Nat /\ n = Len(read)
  BY <1>2, LenProperties DEF Now
<1>4. BitsOf(id, n) \in Nat
  BY <1>3, BitsRule
<1>5. \A m \in InputsOf(id) : SizeOf(m) \in Nat
  BY Naturals
<1>6. CASE r.overflowed
  <2>1. (\E m \in InputsOf(id) : SizeOf(m) = 0) \/ BitsOf(id, n) > MaxReportBits
    BY <1>2, <1>6 DEF RidFollows
  <2>2. ~ Usable(r)
    BY <1>6 DEF Usable
  <2>3. ~ ((\A m \in InputsOf(id) : SizeOf(m) > 0) /\ BitsOf(id, n) <= PayloadBits)
    BY <1>1, <1>4, <1>5, <2>1
  <2> QED BY <1>2, <1>3, <2>2, <2>3 DEF UsableReport
<1>7. CASE ~ r.overflowed
  <2>1. /\ r.bits = BitsOf(id, n) /\ \A m \in InputsOf(id) : SizeOf(m) > 0
        /\ FieldFollows(r.tip, id, Tip) /\ FieldFollows(r.x, id, X) /\ FieldFollows(r.y, id, Y)
    BY <1>2, <1>7 DEF RidFollows
  <2>2. r.tip.off >= 0 <=> Places(id, Tip) # {}
    BY <2>1, FieldDeclared
  <2>3. r.x.off >= 0 <=> Places(id, X) # {}
    BY <2>1, FieldDeclared
  <2>4. r.y.off >= 0 <=> Places(id, Y) # {}
    BY <2>1, FieldDeclared
  <2>5. /\ Places(id, Tip) # {} => r.tip = DeclaredField(id, Tip)
        /\ Places(id, X) # {} => r.x = DeclaredField(id, X)
        /\ Places(id, Y) # {} => r.y = DeclaredField(id, Y)
    BY <2>1, FieldDeclared
  <2>6. r.bits \in Nat /\ r.tip \in Field /\ r.x \in Field /\ r.y \in Field
    BY DEF RidStates
  <2>7. ASSUME NEW f \in Field, FieldFits(f, r.bits), f.off >= 0, r.bits <= PayloadBits
        PROVE  f.off < PayloadBits /\ Inside(f)
    <3>1. f.off \in Nat /\ f.bits \in Nat
      BY <2>7 DEF Field
    <3>2. PICK p \in Int, b \in Nat, off \in Nat, bits \in Nat :
            p = PayloadBits /\ b = r.bits /\ off = f.off /\ bits = f.bits
      BY <1>1, <2>6, <3>1
    <3>3. b <= p /\ bits > 0 /\ off + bits <= b
      BY <2>7, <3>2 DEF FieldFits
    <3>4. off < p /\ bits <= p /\ off <= p - bits
      BY <3>2, <3>3
    <3> QED BY <2>7, <3>2, <3>4 DEF Inside
  <2>8. FieldFits(r.tip, r.bits) /\ FieldFits(r.x, r.bits) /\ FieldFits(r.y, r.bits)
    BY DEF RidFits
  <2>9. Usable(r) <=> r.bits <= PayloadBits /\ r.tip.off >= 0 /\ r.x.off >= 0 /\ r.y.off >= 0
    BY <1>7, <2>6, <2>7, <2>8 DEF Usable, Inside
  <2>10. UsableReport(id) <=> r.bits <= PayloadBits /\ r.tip.off >= 0 /\ r.x.off >= 0 /\ r.y.off >= 0
    BY <1>3, <2>1, <2>2, <2>3, <2>4 DEF UsableReport
  <2> QED BY <1>2, <2>2, <2>3, <2>4, <2>5, <2>9, <2>10
<1> QED BY <1>6, <1>7

(* The first usable entry is that of the first usable report.              *)
LEMMA FirstUsable ==
  ASSUME read \in Seq(Items), rids \in Seq(RidStates), RidsAreTracked, RidsFollow,
         \A i \in DOMAIN rids : RidFits(rids[i]),
         NEW U, U = {i \in DOMAIN rids : Usable(rids[i])},
         NEW S, S = {n \in Tracked : UsableReport(ReportOf(n))}
  PROVE  /\ U = {} <=> S = {}
         /\ U # {} => /\ (CHOOSE i \in U : \A j \in U : i <= j) \in U
                      /\ rids[CHOOSE i \in U : \A j \in U : i <= j].id = ReportOf(First(S))
<1>1. PICK R : R = [m \in Tracked |-> Count(Beginnings, m)]
  OBVIOUS
<1>2. PICK l \in Nat : DOMAIN rids = 1..l
  BY LenProperties
<1>3. PICK n \in Nat : Tracked \subseteq 1..n /\ Tracked \subseteq Beginnings
  <2>1. Len(read) \in Nat /\ DOMAIN read = 1..Len(read)
    BY LenProperties
  <2> QED BY <2>1 DEF Tracked, Beginnings, Inputs, Tagged
<1>4. /\ \A m \in Tracked : R[m] \in 1..l /\ rids[R[m]].id = ReportOf(m)
      /\ \A i \in 1..l : \E m \in Tracked : R[m] = i
  BY <1>1, <1>2 DEF RidsAreTracked
<1>5. \A i \in 1..l : Usable(rids[i]) <=> UsableReport(rids[i].id)
  <2>1. SUFFICES ASSUME NEW i \in 1..l PROVE Usable(rids[i]) <=> UsableReport(rids[i].id)
    OBVIOUS
  <2>2. PICK r : r = rids[i]
    OBVIOUS
  <2>3. r \in RidStates /\ RidFits(r) /\ RidFollows(r)
    BY <1>2, <2>2 DEF RidsFollow
  <2> QED BY <2>2, <2>3, UsableMeans
<1>6. \A m \in Tracked : m \in S <=> R[m] \in U
  BY <1>2, <1>4, <1>5
<1>7. \A j \in Tracked, m \in Tracked : j <= m => R[j] <= R[m]
  <2>1. SUFFICES ASSUME NEW j \in Tracked, NEW m \in Tracked, j <= m PROVE R[j] <= R[m]
    OBVIOUS
  <2>2. j \in Nat /\ m \in Nat
    BY <1>3
  <2> QED BY <1>1, <2>1, <2>2, CountGrows
<1>8. U = {} <=> S = {}
  BY <1>2, <1>4, <1>6
<1>9. ASSUME U # {}
      PROVE  /\ (CHOOSE i \in U : \A j \in U : i <= j) \in U
             /\ rids[CHOOSE i \in U : \A j \in U : i <= j].id = ReportOf(First(S))
  <2>1. PICK e : e = (CHOOSE i \in U : \A j \in U : i <= j)
    OBVIOUS
  <2>2. PICK m : m = First(S)
    OBVIOUS
  <2>3. U \subseteq Nat /\ S \subseteq Nat /\ S # {} /\ U \subseteq 1..l /\ S \subseteq Tracked
    <3>1. U \subseteq 1..l /\ S \subseteq Tracked /\ S # {}
      BY <1>2, <1>8, <1>9
    <3>2. \A i \in 1..l : i \in Nat
      OBVIOUS
    <3>3. \A i \in 1..n : i \in Nat
      OBVIOUS
    <3> QED BY <1>3, <3>1, <3>2, <3>3
  <2>4. e \in U /\ \A j \in U : e <= j
    BY <1>9, <2>1, <2>3, LeastElement
  <2>5. m \in S /\ \A k \in S : m <= k
    BY <2>2, <2>3, LeastElement DEF First
  <2>6. PICK k \in Tracked : R[k] = e
    BY <1>4, <2>3, <2>4
  <2>7. k \in S /\ m <= k
    BY <1>6, <2>4, <2>5, <2>6
  <2>8. R[m] <= e /\ e <= R[m]
    BY <1>6, <1>7, <2>3, <2>4, <2>5, <2>6, <2>7
  <2>9. R[m] \in Nat /\ e \in Nat
    BY <1>4, <2>3, <2>4, <2>5
  <2>10. R[m] = e
    BY <2>8, <2>9
  <2>11. rids[e].id = ReportOf(m)
    BY <1>4, <2>3, <2>5, <2>10
  <2> QED BY <2>1, <2>2, <2>4, <2>11
<1> QED BY <1>8, <1>9

(* A verdict st and a layout lay are what the items read declare.          *)
Declares(st, lay) ==
  NestingFits =>
    LET usable == {n \in Tracked : UsableReport(ReportOf(n))} IN
      IF usable = {} THEN st = "NOT_FOUND"
      ELSE LET id == ReportOf(First(usable))
           IN  /\ st = "SUCCESS"
               /\ lay = [hasId |-> Tagged("id") # {}, id |-> id,
                         tip |-> DeclaredField(id, Tip),
                         x |-> DeclaredField(id, X), y |-> DeclaredField(id, Y)]

(* The verdict is about what was read, and stands while nothing more is.   *)
LEMMA DeclaresStays ==
  ASSUME NEW st, NEW lay, Declares(st, lay), read' = read, anyId' = anyId
  PROVE  Declares(st, lay)'
<1>1. (NestingFits' <=> NestingFits) /\ Tracked' = Tracked /\ Tagged("id")' = Tagged("id")
  BY ItemsStay
<1>2. \A n : ReportOf(n)' = ReportOf(n)
  BY ItemsStay
<1>3. ASSUME NEW id PROVE UsableReport(id)' <=> UsableReport(id)
  <2>1. PICK n : n = Len(read)
    OBVIOUS
  <2>2. /\ InputsOf(id)' = InputsOf(id) /\ BitsOf(id, n)' = BitsOf(id, n)
        /\ \A m : SizeOf(m)' = SizeOf(m)
        /\ \A u : Places(id, u)' = Places(id, u)
    BY ItemsStay
  <2>3. n = Len(read') /\ PayloadBits' = PayloadBits
    BY <2>1 DEF PayloadBits, MaxReportBits
  <2> QED BY <2>1, <2>2, <2>3 DEF UsableReport
<1>4. ASSUME NEW id, NEW u PROVE DeclaredField(id, u)' = DeclaredField(id, u)
  <2>1. FirstPlace(id, u)' = FirstPlace(id, u)
    BY ItemsStay DEF FirstPlace
  <2>2. PICK a, m : a = FirstPlace(id, u) /\ m = a[1]
    OBVIOUS
  <2>3. /\ StartOf(m)' = StartOf(m) /\ Global("size", m)' = Global("size", m)
        /\ LogicalMaxAt(m)' = LogicalMaxAt(m)
    BY ItemsStay
  <2> QED BY <2>1, <2>2, <2>3 DEF DeclaredField
<1>5. PICK S : S = {n \in Tracked : UsableReport(ReportOf(n))}
  OBVIOUS
<1>6. {n \in Tracked : UsableReport(ReportOf(n))}' = S
  <2>1. ASSUME NEW n PROVE UsableReport(ReportOf(n))' <=> UsableReport(ReportOf(n))
    <3>1. PICK id : id = ReportOf(n)
      OBVIOUS
    <3> QED BY <1>2, <1>3, <3>1
  <2> QED BY <1>1, <1>5, <2>1
<1>7. PICK id : id = ReportOf(First(S))
  OBVIOUS
<1>8. id = ReportOf(First(S))'
  BY <1>2, <1>7
<1> QED BY <1>1, <1>4, <1>5, <1>6, <1>7, <1>8 DEF Declares

(* The end of the descriptor.                                              *)
LEMMA FinishDeclares ==
  ASSUME Inv, Followed, Finish
  PROVE  LayoutIsDeclared'
<1>1. PICK st, lay : st = status' /\ lay = layout'
  OBVIOUS
<1>2. read' = read /\ anyId' = anyId /\ status = "PARSING"
  BY DEF Finish, parser
<1>3. Declares(st, lay)
  <2>1. SUFFICES ASSUME NestingFits PROVE Declares(st, lay)
    BY DEF Declares
  <2>2. Follows
    BY <1>2, <2>1 DEF Followed
  <2>3. PICK U : U = {i \in DOMAIN rids : Usable(rids[i])}
    OBVIOUS
  <2>4. PICK S : S = {n \in Tracked : UsableReport(ReportOf(n))}
    OBVIOUS
  <2>5. /\ read \in Seq(Items) /\ rids \in Seq(RidStates) /\ anyId \in BOOLEAN
        /\ \A i \in DOMAIN rids : RidFits(rids[i])
    BY DEF Inv, TypeOK, OffsetsBounded
  <2>6. PICK i : i = (CHOOSE h \in U : \A j \in U : h <= j)
    OBVIOUS
  <2>7. /\ U = {} <=> S = {}
        /\ U # {} => i \in U /\ rids[i].id = ReportOf(First(S))
    BY <2>2, <2>3, <2>4, <2>5, <2>6, FirstUsable DEF Follows
  <2>8. /\ U = {} => st = "NOT_FOUND"
        /\ U # {} => /\ st = "SUCCESS"
                     /\ lay = [hasId |-> anyId, id |-> rids[i].id, tip |-> rids[i].tip,
                               x |-> rids[i].x, y |-> rids[i].y]
    BY <1>1, <2>3, <2>6 DEF Finish
  <2>9. CASE U = {}
    BY <2>4, <2>7, <2>8, <2>9 DEF Declares
  <2>10. CASE U # {}
    <3>1. PICK r, id : r = rids[i] /\ id = ReportOf(First(S))
      OBVIOUS
    <3>2. r \in RidStates /\ RidFits(r) /\ RidFollows(r) /\ Usable(r) /\ r.id = id
      BY <2>2, <2>3, <2>5, <2>7, <2>10, <3>1 DEF Follows, RidsFollow
    <3>3. r.tip = DeclaredField(id, Tip) /\ r.x = DeclaredField(id, X) /\ r.y = DeclaredField(id, Y)
      BY <2>5, <3>2, UsableMeans
    <3>4. anyId = (Tagged("id") # {})
      BY <2>2, <2>5 DEF Follows
    <3>5. lay = [hasId |-> Tagged("id") # {}, id |-> id, tip |-> DeclaredField(id, Tip),
                 x |-> DeclaredField(id, X), y |-> DeclaredField(id, Y)]
      BY <2>8, <2>10, <3>1, <3>2, <3>3, <3>4
    <3> QED BY <2>4, <2>7, <2>8, <2>10, <3>1, <3>5 DEF Declares
  <2> QED BY <2>9, <2>10
<1>4. Declares(st, lay)'
  BY <1>2, <1>3, DeclaresStays
<1> QED BY <1>1, <1>4 DEF LayoutIsDeclared, Declares

(* Once the parse is over, nothing changes what the layout is held to.     *)
LEMMA VerdictStays ==
  ASSUME LayoutIsDeclared, status # "PARSING", report = NoReport,
         UNCHANGED <<status, layout, read, anyId>>
  PROVE  LayoutIsDeclared'
<1>1. PICK st, lay : st = status /\ lay = layout
  OBVIOUS
<1>2. Declares(st, lay)
  BY <1>1 DEF LayoutIsDeclared, Declares
<1>3. Declares(st, lay)'
  BY <1>2, DeclaresStays
<1>4. st = status' /\ lay = layout'
  BY <1>1
<1> QED BY <1>3, <1>4 DEF LayoutIsDeclared, Declares

(* Every step keeps the layout the one the descriptor declares.            *)
LEMMA NextDeclares == Inv /\ Followed /\ LayoutIsDeclared /\ [Next]_vars => LayoutIsDeclared'
<1> SUFFICES ASSUME Inv, Followed, LayoutIsDeclared, [Next]_vars PROVE LayoutIsDeclared'
  OBVIOUS
<1>1. CASE Receive \/ GlobalItem \/ ReportIdItem \/ Push \/ Pop \/ LocalItem \/ OtherItem
           \/ OtherMain \/ InputIgnored \/ InputSkipped \/ InputFields
  <2>1. status' = "PARSING"
    BY <1>1 DEF Receive, GlobalItem, ReportIdItem, Push, Pop, LocalItem, OtherItem, OtherMain,
                InputIgnored, InputSkipped, InputFields, Next1, Consume, result
  <2> QED BY <2>1 DEF LayoutIsDeclared
<1>2. CASE Finish
  BY <1>2, FinishDeclares
<1>3. CASE TouchReport
  <2>1. status # "PARSING" /\ report = NoReport /\ UNCHANGED <<status, layout, read, anyId>>
    BY <1>3 DEF TouchReport, result, parser
  <2> QED BY <2>1, VerdictStays
<1>4. CASE UNCHANGED vars
  <2>1. UNCHANGED <<status, layout, read, anyId>> /\ report' = report
    BY <1>4 DEF vars, result, parser, poll
  <2>2. CASE status = "PARSING"
    BY <2>1, <2>2 DEF LayoutIsDeclared
  <2>3. CASE report # NoReport
    BY <2>1, <2>3 DEF LayoutIsDeclared
  <2> QED BY <2>1, <2>2, <2>3, VerdictStays
<1>5. CASE Finished
  BY <1>4, <1>5 DEF Finished
<1> QED BY <1>1, <1>2, <1>3, <1>4, <1>5 DEF Next

(* For every descriptor whose Push items nest no deeper than the stack,    *)
(* whatever its sizes, counts, usages, report IDs and scopes: the layout   *)
(* HidParseTouchLayout hands to TouchPoll is the one the descriptor        *)
(* declares, and there is none only if no report of it can be used.        *)
THEOREM LayoutAlwaysDeclared == Spec => []LayoutIsDeclared
<1>1. Init => LayoutIsDeclared
  BY DEF Init, LayoutIsDeclared
<1> QED BY <1>1, InitInv, NextInv, InitFollows, NextFollows, NextDeclares, PTL DEF Spec
===============================================================================
