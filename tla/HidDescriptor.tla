---------------------------- MODULE HidDescriptor -----------------------------
(***************************************************************************)
(* What a report descriptor declares, defined without a parser: from the   *)
(* items alone, by scopes and counts.  HidParse is checked against it.     *)
(* Sizes, counts and positions are unbounded; a usage has the 32 bits the  *)
(* HID specification gives it.                                             *)
(***************************************************************************)
EXTENDS HidParse

Tagged(tag) == {i \in DOMAIN read : read[i].tag = tag}
First(S) == CHOOSE i \in S : \A j \in S : i <= j
Last(S) == CHOOSE i \in S : \A j \in S : j <= i
Count(S, n) == Total([i \in 1..n |-> IF i \in S THEN 1 ELSE 0], n)

(* The Push items among the first n that are more than the Pop items.      *)
Surplus(n) == Count(Tagged("push"), n) - Count(Tagged("pop"), n)
Nested(from, to) == Surplus(to) - Surplus(from - 1)

(* The Push a Pop undoes is the nearest with balanced items in between.    *)
Scopes ==
  {s \in Tagged("push") \X Tagged("pop") :
     /\ s[1] < s[2] /\ Nested(s[1], s[2]) = 0
     /\ \A i \in s[1]..(s[2] - 1) : Nested(s[1], i) > 0}
NestingFits == \A j \in DOMAIN read : \A i \in 1..j : Nested(i, j) <= StackMax

(* The item that set a global at n: the last one no Pop has undone.        *)
Setter(tag, n) ==
  {i \in Tagged(tag) : /\ i <= n
                       /\ ~ \E s \in Scopes : s[1] < i /\ i < s[2] /\ s[2] <= n}
Global(tag, n) == IF Setter(tag, n) = {} THEN 0 ELSE read[Last(Setter(tag, n))].raw
SignedGlobal(tag, n) ==
  IF Setter(tag, n) = {} THEN 0 ELSE Signed(read[Last(Setter(tag, n))])

Inputs == Tagged("input")
ReportOf(n) == Global("id", n) % 256
InputsOf(id) == {n \in Inputs : ReportOf(n) = id}

(* The Input items that begin a report, and those of the first             *)
(* MaxReportIds reports: only these are looked at.                         *)
Beginnings == {n \in Inputs : \A m \in InputsOf(ReportOf(n)) : n <= m}
Tracked == {n \in Beginnings : Count(Beginnings, n) <= MaxReportIds}

SizeOf(n) == Global("size", n) * Global("count", n)
(* The bits of report id that the first n items declare.                   *)
BitsOf(id, n) ==
  LET mine == InputsOf(id)
  IN  Total([m \in 1..n |-> IF m \in mine THEN SizeOf(m) ELSE 0], n)
StartOf(n) == BitsOf(ReportOf(n), n - 1)

(* The usages declared for the main item at n, each completed by the page  *)
(* in force where it was declared.                                         *)
Own(tag, n) ==
  {i \in Tagged(tag) : i < n /\ ~ \E m \in Inputs \cup Tagged("main") : i < m /\ m < n}
Declared(i) ==
  IF read[i].bytes = 4 THEN read[i].raw
  ELSE (Global("page", i) * PageUnit + read[i].raw) % Modulus
UsageAt(n, k) ==
  IF Own("usageMin", n) # {} /\ Own("usageMax", n) # {}
  THEN Lesser((Declared(Last(Own("usageMin", n))) + k) % Modulus,
              Declared(Last(Own("usageMax", n))))
  ELSE LET own == Own("usage", n)
           rank == Lesser(k + 1, Lesser(Count(own, n), MaxLocalUsages))
       IN  IF own = {} THEN NoUsage
           ELSE Declared(CHOOSE i \in own : Count(own, i) = rank)

(* Where report id has its first field of that usage.                      *)
Places(id, usage) ==
  UNION {{<<n, k>> : k \in {j \in 0..(Global("count", n) - 1) : UsageAt(n, j) = usage}} :
           n \in InputsOf(id)}
FirstPlace(id, usage) ==
  LET all == Places(id, usage) IN
    CHOOSE a \in all : \A b \in all : a[1] < b[1] \/ (a[1] = b[1] /\ a[2] <= b[2])

LogicalMaxAt(n) ==
  IF SignedGlobal("max", n) < 0
  THEN IF SignedGlobal("min", n) >= 0 THEN Global("max", n) ELSE 0
  ELSE SignedGlobal("max", n)

DeclaredField(id, usage) ==
  LET at == FirstPlace(id, usage) IN
    [off |-> StartOf(at[1]) + at[2] * Global("size", at[1]),
     bits |-> Global("size", at[1]), max |-> LogicalMaxAt(at[1])]

(* A report the driver can use: no empty Input item, all of it within the  *)
(* longest report the panel sends, and a tip, an X and a Y.                *)
UsableReport(id) ==
  /\ \A n \in InputsOf(id) : SizeOf(n) > 0
  /\ BitsOf(id, Len(read)) <= PayloadBits
  /\ \A u \in {Tip, X, Y} : Places(id, u) # {}

-----------------------------------------------------------------------------
(* The property.                                                           *)

(* The layout is the one the descriptor declares: that of the first usable *)
(* report, each field where the sizes of the fields before it in the same  *)
(* report put it, whatever Push, Pop, report IDs, stray locals, padding,   *)
(* oversized and empty items surround it; without a usable report, none.   *)
LayoutIsDeclared ==
  (status # "PARSING" /\ report = NoReport /\ NestingFits) =>
    LET usable == {n \in Tracked : UsableReport(ReportOf(n))} IN
      IF usable = {} THEN status = "NOT_FOUND"
      ELSE LET id == ReportOf(First(usable))
           IN  /\ status = "SUCCESS"
               /\ layout = [hasId |-> Tagged("id") # {}, id |-> id,
                            tip |-> DeclaredField(id, Tip),
                            x |-> DeclaredField(id, X), y |-> DeclaredField(id, Y)]
=============================================================================
