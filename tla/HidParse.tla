------------------------------- MODULE HidParse -------------------------------
(***************************************************************************)
(* HidParseTouchLayout, which finds tip, X and Y of the first contact in a *)
(* report descriptor, and the extraction of those fields from the reports  *)
(* TouchPoll reads (HidExtractBits).                                       *)
(*                                                                         *)
(* The descriptor is whatever the panel sends, an item at a time.  An item *)
(* is its tag, its data as an unsigned number and the number of data bytes *)
(* it came in; 32-bit arithmetic wraps.                                    *)
(***************************************************************************)
EXTENDS Integers, Sequences, FiniteSets

CONSTANTS
  Fragments,       \* the item sequences descriptors are put together from
  MaxFragments,    \* bound: fragments in a descriptor
  Width,           \* number of values 0, 1, 2 and 4 bytes of data can have
  MaxInputLength,  \* wMaxInputLength of the HID descriptor
  MaxReportIds, MaxLocalUsages, StackMax,  \* the limits of HidParse.c
  Tip, X, Y,       \* USAGE_TIP_SWITCH, USAGE_X, USAGE_Y
  WordBits,        \* bits HidExtractBits returns at most
  Reports          \* the input reports explored: [len, data]

Tags == {"page", "min", "max", "size", "id", "count", "push", "pop",
         "usage", "usageMin", "usageMax", "input", "main", "other"}
Items == [tag : Tags, raw : Nat, bytes : {0, 1, 2, 4}]

Modulus == Width[4]
PageUnit == Width[2]
MaxReportBits == (MaxInputLength - 2) * 8

ASSUME WidthAssumption == Width \in [{0, 1, 2, 4} -> Nat \ {0}]
ASSUME FragmentsAssumption ==
  \A f \in Fragments : f \in Seq(Items) /\ \A i \in DOMAIN f : f[i].raw < Width[f[i].bytes]
\* I2cHidReadDescriptor lets 3..1024 through, and 32 bits hold that many bits.
ASSUME LengthAssumption ==
  MaxInputLength \in Nat /\ MaxInputLength >= 3 /\ 2 * MaxReportBits <= Modulus
ASSUME LimitsAssumption ==
  /\ MaxReportIds \in Nat \ {0} /\ MaxLocalUsages \in Nat \ {0} /\ StackMax \in Nat
  /\ MaxFragments \in Nat /\ WordBits \in Nat
ASSUME UsagesAssumption ==
  Tip \in Nat /\ X \in Nat /\ Y \in Nat /\ Tip # X /\ Tip # Y /\ X # Y
ASSUME ReportsAssumption ==
  Reports \subseteq [len : Nat, data : [1..(MaxInputLength - 2) -> 0..255]]

VARIABLES
  g, stack,   \* G and Stack[0..Sp-1]
  loc,        \* the local items since the last main item
  anyId,      \* AnyReportId
  rids,       \* Rids[], in the order the entries were taken
  status,     \* what HidParseTouchLayout returned; "PARSING" before
  layout,     \* *Layout, NoLayout before a success
  todo, left, \* rest of the current fragment, fragments that may follow
  touch,      \* the fields TouchPoll took from the last report, or NoTouch
  read,       \* history: the items processed
  report      \* history: the report `touch` was taken from

parser == <<g, stack, loc, anyId, rids>>
result == <<status, layout>>
poll == <<touch, report>>
vars == <<parser, result, todo, left, poll, read>>

NoGlobals == [page |-> 0, min |-> 0, max |-> 0, maxRaw |-> 0, size |-> 0,
              count |-> 0, id |-> 0]
NoLocals == [usages |-> <<>>, min |-> 0, max |-> 0, haveMin |-> FALSE,
             haveMax |-> FALSE]
Field == [off : Nat \cup {-1}, bits : Nat, max : Nat]
Absent == [off |-> -1, bits |-> 0, max |-> 0]
Layouts == [hasId : BOOLEAN, id : Nat, tip : Field, x : Field, y : Field]
NoLayout == [hasId |-> FALSE, id |-> 0, tip |-> Absent, x |-> Absent, y |-> Absent]
NoTouch == [tip |-> FALSE, x |-> -1, y |-> -1]
NoReport == [len |-> 0, data |-> <<>>]

Globals == [page : Nat, min : Int, max : Int, maxRaw : Nat, size : Nat,
            count : Nat, id : Nat]
Locals == [usages : Seq(Nat), min : Nat, max : Nat, haveMin : BOOLEAN,
           haveMax : BOOLEAN]
RidStates == [id : Nat, bits : Nat, tip : Field, x : Field, y : Field,
              overflowed : BOOLEAN]

\* `touch` is left to FieldsExtracted, which says all there is to say of it.
TypeOK ==
  /\ g \in Globals
  /\ stack \in Seq(Globals) /\ Len(stack) <= StackMax
  /\ loc \in Locals /\ Len(loc.usages) <= MaxLocalUsages
  /\ anyId \in BOOLEAN
  /\ rids \in Seq(RidStates) /\ Len(rids) <= MaxReportIds
  /\ status \in {"PARSING", "SUCCESS", "NOT_FOUND"}
  /\ layout \in Layouts
  /\ todo \in Seq(Items) /\ left \in 0..MaxFragments
  /\ read \in Seq(Items)
  /\ report = NoReport \/ report \in Reports

Init ==
  /\ g = NoGlobals /\ stack = <<>> /\ loc = NoLocals /\ anyId = FALSE
  /\ rids = <<>> /\ status = "PARSING" /\ layout = NoLayout
  /\ todo = <<>> /\ left = MaxFragments /\ touch = NoTouch
  /\ read = <<>> /\ report = NoReport

-----------------------------------------------------------------------------
(* Reading items. *)

(* The panel sends some more of its descriptor. *)
Receive ==
  /\ status = "PARSING" /\ todo = <<>> /\ left > 0
  /\ todo' \in Fragments /\ left' = left - 1
  /\ UNCHANGED <<parser, result, poll, read>>

Item == Head(todo)
Next1(tag) == status = "PARSING" /\ todo # <<>> /\ Item.tag = tag
Consume ==
  /\ todo' = Tail(todo) /\ read' = Append(read, Item)
  /\ UNCHANGED <<result, left, poll>>

(* SVal: the data sign-extended from the bytes it came in. *)
Signed(it) == IF it.bytes # 0 /\ 2 * it.raw >= Width[it.bytes]
              THEN it.raw - Width[it.bytes] ELSE it.raw

GlobalItem ==
  /\ \/ Next1("page") /\ g' = [g EXCEPT !.page = Item.raw]
     \/ Next1("min") /\ g' = [g EXCEPT !.min = Signed(Item)]
     \/ Next1("max") /\ g' = [g EXCEPT !.max = Signed(Item), !.maxRaw = Item.raw]
     \/ Next1("size") /\ g' = [g EXCEPT !.size = Item.raw]
     \/ Next1("count") /\ g' = [g EXCEPT !.count = Item.raw]
  /\ Consume /\ UNCHANGED <<stack, loc, anyId, rids>>

(* ReportId and G.ReportId, which are always equal. *)
ReportIdItem ==
  /\ Next1("id") /\ g' = [g EXCEPT !.id = Item.raw % 256] /\ anyId' = TRUE
  /\ Consume /\ UNCHANGED <<stack, loc, rids>>

(* Mutant: the bound of the stack is not tested. *)
PushUnbounded ==
  /\ Next1("push") /\ stack' = Append(stack, g)
  /\ Consume /\ UNCHANGED <<g, loc, anyId, rids>>

Push ==
  /\ Next1("push")
  /\ stack' = IF Len(stack) < StackMax THEN Append(stack, g) ELSE stack
  /\ Consume /\ UNCHANGED <<g, loc, anyId, rids>>

(* Mutant: the report ID is not part of what Pop restores. *)
PopKeepsId ==
  /\ Next1("pop")
  /\ IF stack = <<>> THEN UNCHANGED <<g, stack>>
     ELSE /\ g' = [stack[Len(stack)] EXCEPT !.id = g.id]
          /\ stack' = SubSeq(stack, 1, Len(stack) - 1)
  /\ Consume /\ UNCHANGED <<loc, anyId, rids>>

Pop ==
  /\ Next1("pop")
  /\ IF stack = <<>> THEN UNCHANGED <<g, stack>>
     ELSE g' = stack[Len(stack)] /\ stack' = SubSeq(stack, 1, Len(stack) - 1)
  /\ Consume /\ UNCHANGED <<loc, anyId, rids>>

(* A four-byte usage carries its page; a shorter one takes the current. *)
FullUsage(it) ==
  IF it.bytes = 4 THEN it.raw ELSE (g.page * PageUnit + it.raw) % Modulus

LocalItem ==
  /\ \/ /\ Next1("usage")
        /\ loc' = IF Len(loc.usages) < MaxLocalUsages
                  THEN [loc EXCEPT !.usages = Append(@, FullUsage(Item))] ELSE loc
     \/ Next1("usageMin") /\ loc' = [loc EXCEPT !.min = FullUsage(Item), !.haveMin = TRUE]
     \/ Next1("usageMax") /\ loc' = [loc EXCEPT !.max = FullUsage(Item), !.haveMax = TRUE]
  /\ Consume /\ UNCHANGED <<g, stack, anyId, rids>>

(* Long items, and tags the parser has no use for. *)
OtherItem == Next1("other") /\ Consume /\ UNCHANGED parser

ClearLocals == loc' = [loc EXCEPT !.usages = <<>>, !.haveMin = FALSE, !.haveMax = FALSE]

(* Output, Feature, Collection, End Collection. *)
OtherMain == Next1("main") /\ ClearLocals /\ Consume /\ UNCHANGED <<g, stack, anyId, rids>>

-----------------------------------------------------------------------------
(* The Input item. *)

ResolveLogicalMax ==
  IF g.max < 0 /\ g.min >= 0 THEN g.maxRaw ELSE IF g.max > 0 THEN g.max ELSE 0

Known(id) == \E i \in DOMAIN rids : rids[i].id = id
NewRid(id) == [id |-> id, bits |-> 0, tip |-> Absent, x |-> Absent, y |-> Absent,
               overflowed |-> FALSE]

(* GetRidState takes a free entry for an ID it has not seen. *)
HasRid == Known(g.id) \/ Len(rids) < MaxReportIds
WithRid == IF Known(g.id) THEN rids ELSE Append(rids, NewRid(g.id))
RidIndex == CHOOSE i \in DOMAIN WithRid : WithRid[i].id = g.id
Rid == WithRid[RidIndex]

(* The UINT32 product and sum; Fits is what keeps them from wrapping. *)
ItemBits == (g.size * g.count) % Modulus
Off(k) == (Rid.bits + k * g.size) % Modulus

(* Mutant: the product is compared, after it may have wrapped. *)
FitsWrapped ==
  g.size > 0 /\ g.count > 0 /\ Rid.bits + ItemBits <= MaxReportBits

(* The bound on sizes and counts the panel supplies. *)
Fits ==
  /\ g.size > 0 /\ g.count > 0 /\ g.size <= MaxReportBits
  /\ g.count <= MaxReportBits \div g.size
  /\ Rid.bits <= MaxReportBits - ItemBits

NoUsage == -1
Lesser(m, n) == IF m <= n THEN m ELSE n

(* The usage of the item's k-th field; padding has none. *)
UsageOf(k) ==
  CASE loc.haveMin /\ loc.haveMax -> Lesser((loc.min + k) % Modulus, loc.max)
    [] ~(loc.haveMin /\ loc.haveMax) /\ loc.usages # <<>> ->
         loc.usages[Lesser(k + 1, Len(loc.usages))]
    [] OTHER -> NoUsage

(* The first field of that usage in the report is the one that counts. *)
Located(field, usage) ==
  LET ks == {k \in 0..(g.count - 1) : UsageOf(k) = usage}
  IN  IF field.off >= 0 \/ ks = {} THEN field
      ELSE [off |-> Off(CHOOSE k \in ks : \A j \in ks : k <= j),
            bits |-> g.size, max |-> ResolveLogicalMax]

InputIgnored ==
  /\ Next1("input") /\ ~HasRid
  /\ ClearLocals /\ Consume /\ UNCHANGED <<g, stack, anyId, rids>>

(* The item is skipped, and nothing later in this report is trusted. *)
InputSkipped ==
  /\ Next1("input") /\ HasRid /\ ~Fits
  /\ rids' = [WithRid EXCEPT ![RidIndex].overflowed = TRUE]
  /\ ClearLocals /\ Consume /\ UNCHANGED <<g, stack, anyId>>

InputFields ==
  /\ Next1("input") /\ HasRid /\ Fits
  /\ rids' = [WithRid EXCEPT ![RidIndex] =
                [Rid EXCEPT !.tip = Located(@, Tip), !.x = Located(@, X),
                            !.y = Located(@, Y), !.bits = (@ + ItemBits) % Modulus]]
  /\ ClearLocals /\ Consume /\ UNCHANGED <<g, stack, anyId>>

-----------------------------------------------------------------------------
(* The layout, and the reports read with it. *)

PayloadBits == MaxReportBits - (IF anyId THEN 8 ELSE 0)

Inside(f) == f.off >= 0 /\ f.bits <= PayloadBits /\ f.off <= PayloadBits - f.bits

Usable(r) ==
  /\ ~r.overflowed /\ r.bits <= PayloadBits
  /\ r.tip.off >= 0 /\ r.tip.off < PayloadBits /\ Inside(r.x) /\ Inside(r.y)

(* The descriptor ends after some fragment, or its next item is truncated. *)
Finish ==
  /\ status = "PARSING" /\ todo = <<>>
  /\ LET usable == {i \in DOMAIN rids : Usable(rids[i])}
         r == rids[CHOOSE i \in usable : \A j \in usable : i <= j]
     IN  IF usable = {} THEN status' = "NOT_FOUND" /\ UNCHANGED layout
         ELSE /\ status' = "SUCCESS"
              /\ layout' = [hasId |-> anyId, id |-> r.id, tip |-> r.tip,
                            x |-> r.x, y |-> r.y]
  /\ UNCHANGED <<parser, todo, left, poll, read>>

(* 2^n, and the sum of the first n of the numbers d.                       *)
Pow2(n) == LET pow[k \in 0..n] == IF k = 0 THEN 1 ELSE 2 * pow[k - 1] IN pow[n]
Total(d, n) == LET sum[k \in 0..n] == IF k = 0 THEN 0 ELSE sum[k - 1] + d[k] IN sum[n]

(* Mutant: bytes after the end of the report are looked at. *)
BitPastEnd(data, len, n) == (data[(n \div 8) + 1] \div Pow2(n % 8)) % 2

(* One bit of the payload; what lies beyond the report reads as zero. *)
Bit(data, len, n) ==
  IF n \div 8 >= len THEN 0 ELSE (data[(n \div 8) + 1] \div Pow2(n % 8)) % 2

(* The least significant bit comes first. *)
HidExtractBits(data, len, off, count) ==
  Total([n \in 1..Lesser(count, WordBits) |-> Bit(data, len, off + n - 1) * Pow2(n - 1)],
        Lesser(count, WordBits))

(* A logical maximum of zero is replaced by 0xFFFF after the parse. *)
Limit(f) == IF f.max = 0 THEN PageUnit - 1 ELSE f.max

Accepted(rep) ==
  /\ rep.len >= 3 /\ rep.len <= MaxInputLength
  /\ layout.hasId => rep.data[1] = layout.id

(* What a report says: the payload follows the length and, if there is     *)
(* one, the ID.                                                            *)
TouchOf(rep) ==
  LET skip == IF layout.hasId THEN 1 ELSE 0
      data == SubSeq(rep.data, 1 + skip, MaxInputLength - 2)
      Extract(f, n) == HidExtractBits(data, rep.len - 2 - skip, f.off, n)
  IN  IF ~Accepted(rep) THEN NoTouch
      ELSE [tip |-> Extract(layout.tip, 1) # 0,
            x |-> Lesser(Extract(layout.x, layout.x.bits), Limit(layout.x)),
            y |-> Lesser(Extract(layout.y, layout.y.bits), Limit(layout.y))]

(* TouchPoll, one report. *)
TouchReport ==
  /\ status = "SUCCESS" /\ report = NoReport
  /\ \E rep \in Reports : report' = rep /\ touch' = TouchOf(rep)
  /\ UNCHANGED <<parser, result, todo, left, read>>

(* The descriptor is parsed, and either useless or a report was taken. *)
Finished ==
  /\ status = "NOT_FOUND" \/ (status = "SUCCESS" /\ report # NoReport)
  /\ UNCHANGED vars

Next ==
  \/ Receive \/ GlobalItem \/ ReportIdItem \/ Push \/ Pop \/ LocalItem
  \/ OtherItem \/ OtherMain \/ InputIgnored \/ InputSkipped \/ InputFields
  \/ Finish \/ TouchReport \/ Finished

Spec == Init /\ [][Next]_vars

-----------------------------------------------------------------------------
(* Properties.                                                             *)

(* "keeps the arithmetic guarantees (no overflow, Off < MaxReportBits)":   *)
(* whatever sizes and counts the panel sends, no running position and no   *)
(* recorded field leaves the largest report, and no product has wrapped.   *)
FieldFits(f, bits) == f.off >= 0 => f.bits > 0 /\ f.off + f.bits <= bits
RidFits(r) ==
  r.bits <= MaxReportBits /\ \A f \in {r.tip, r.x, r.y} : FieldFits(f, r.bits)
OffsetsBounded ==
  /\ \A i \in DOMAIN rids : RidFits(rids[i])
  /\ status = "SUCCESS" =>
       \A f \in {layout.tip, layout.x, layout.y} : FieldFits(f, PayloadBits)

(* A touch holds the bits its layout names of the report it came from,     *)
(* never of what the buffer holds behind that report, within the logical   *)
(* range; a report of another kind or of an impossible length is dropped.  *)
PayloadValue(rep) ==
  LET first == IF layout.hasId THEN 2 ELSE 1
  IN  Total([i \in 1..(rep.len - 2) |->
               IF i < first THEN 0 ELSE rep.data[i] * Pow2(8 * (i - first))], rep.len - 2)
FieldValue(rep, f, bits) ==
  (PayloadValue(rep) \div Pow2(f.off)) % Pow2(Lesser(bits, WordBits))
FieldsExtracted ==
  report # NoReport =>
    IF report.len \notin 3..MaxInputLength \/ (layout.hasId /\ report.data[1] # layout.id)
    THEN touch = NoTouch
    ELSE touch = [tip |-> FieldValue(report, layout.tip, 1) = 1,
                  x |-> Lesser(FieldValue(report, layout.x, layout.x.bits), Limit(layout.x)),
                  y |-> Lesser(FieldValue(report, layout.y, layout.y.bits), Limit(layout.y))]
=============================================================================
