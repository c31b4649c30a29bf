------------------------ MODULE SmbiosIdentity_proofs -------------------------
(***************************************************************************)
(* What the driver reads out of the SMBIOS tables, for tables of every     *)
(* length, cut off anywhere.  The walk is a recursive function over the    *)
(* table; the inductions it needs go over a least counterexample.          *)
(***************************************************************************)
EXTENDS SmbiosIdentity, WellFoundedInduction, TLAPS

(* A set of natural numbers that is not empty has a least element. *)
LEMMA LeastIndex ==
  ASSUME NEW S, S \subseteq Nat, S # {}
  PROVE  \E n \in S : \A m \in S : n <= m
<1>1. PICK n \in S : \A m \in S : ~ (<<m, n>> \in OpToRel(<, Nat))
  BY NatLessThanWellFounded, WFMin
<1>2. \A m \in S : <<m, n>> \in Nat \X Nat => ~ (m < n)
  BY <1>1, Zenon DEF OpToRel
<1>3. ASSUME NEW m \in S PROVE n <= m
  <2>1. m \in Nat /\ n \in Nat
    OBVIOUS
  <2>2. ~ (m < n)
    BY <1>2, <2>1
  <2> QED
    BY <2>1, <2>2
<1> QED
  BY <1>3

Start == [dmi |-> NoIdentity, over |-> FALSE]

(* The function that the walk is said to be exists. *)
LEMMA WalkExists ==
  ASSUME NEW table, NEW n \in Nat
  PROVE  \E f : f = [i \in 0..n |-> IF i = 0 THEN Start ELSE Step(table, i, f[i - 1])]
<1> DEFINE Is(f, k) == f = [i \in 0..k |-> IF i = 0 THEN Start ELSE Step(table, i, f[i - 1])]
           Bad == {k \in Nat : ~ \E f : Is(f, k)}
<1>1. SUFFICES ASSUME Bad # {}
               PROVE  FALSE
  OBVIOUS
<1>2. PICK k \in Bad : \A m \in Bad : k <= m
  BY <1>1, LeastIndex
<1>3. CASE k = 0
  <2>1. Is([i \in 0..0 |-> Start], 0)
    OBVIOUS
  <2> QED
    BY <1>2, <1>3, <2>1
<1>4. CASE k # 0
  <2>1. k - 1 \in Nat /\ k - 1 \notin Bad
    BY <1>2, <1>4, SMTT(40)
  <2>2. PICK f : Is(f, k - 1)
    BY <2>1
  <2> DEFINE g == [i \in 0..k |-> IF i = k THEN Step(table, k, f[k - 1]) ELSE f[i]]
  <2>3. \A i \in 0..(k - 1) : g[i] = f[i]
    BY <2>1
  <2>4. ASSUME NEW i \in 0..k
        PROVE  g[i] = IF i = 0 THEN Start ELSE Step(table, i, g[i - 1])
    <3>1. CASE i = k
      <4>1. g[i] = Step(table, k, f[k - 1]) /\ k - 1 \in 0..(k - 1)
        BY <2>1, <3>1
      <4> HIDE DEF g
      <4> QED
        BY <1>4, <2>3, <3>1, <4>1
    <3>2. CASE i # k /\ i # 0
      <4>1. i \in 0..(k - 1) /\ i - 1 \in 0..(k - 1)
        BY <2>1, <3>2
      <4>2. f[i] = Step(table, i, f[i - 1])
        BY <2>2, <3>2, <4>1
      <4> HIDE DEF g
      <4> QED
        BY <2>3, <3>2, <4>1, <4>2
    <3>3. CASE i # k /\ i = 0
      <4>1. i \in 0..(k - 1)
        BY <2>1, <3>3
      <4>2. f[i] = Start
        BY <2>2, <3>3, <4>1
      <4> HIDE DEF g
      <4> QED
        BY <2>3, <3>3, <4>1, <4>2
    <3> QED
      BY <3>1, <3>2, <3>3
  <2>5. Is(g, k)
    <3>1. g = [i \in 0..k |-> g[i]]
      OBVIOUS
    <3> HIDE DEF g
    <3> QED
      BY <2>4, <3>1
  <2> QED
    BY <1>2, <2>5
<1> QED
  BY <1>3, <1>4

LEMMA WalkIs ==
  ASSUME NEW table, Len(table.structures) \in Nat
  PROVE  LET n == Len(table.structures) IN
         /\ Walk(table)[0] = Start
         /\ \A i \in 1..n : Walk(table)[i] = Step(table, i, Walk(table)[i - 1])
<1> DEFINE n == Len(table.structures)
           Is(f) == f = [i \in 0..n |-> IF i = 0 THEN Start ELSE Step(table, i, f[i - 1])]
<1>1. Walk(table) = CHOOSE f : Is(f)
  BY DEF Walk, Start
<1>2. \E f : Is(f)
  BY WalkExists
<1>3. Is(Walk(table))
  BY <1>1, <1>2
<1>4. \A i \in 0..n : Walk(table)[i] = IF i = 0 THEN Start ELSE Step(table, i, Walk(table)[i - 1])
  BY <1>3
<1>5. n \in Nat
  OBVIOUS
<1> HIDE DEF n
<1>6. Walk(table)[0] = Start /\ \A i \in 1..n : Walk(table)[i] = Step(table, i, Walk(table)[i - 1])
  BY <1>4, <1>5
<1> QED
  BY <1>6 DEF n

(* The step of an induction over the structures of a table. *)
LEMMA AlongTable ==
  ASSUME NEW n \in Nat, NEW Good, 0 \in Good,
         \A i \in 1..n : i - 1 \in Good => i \in Good
  PROVE  \A i \in 0..n : i \in Good
<1> DEFINE Bad == {k \in 0..n : k \notin Good}
<1>1. SUFFICES ASSUME Bad # {}
               PROVE  FALSE
  OBVIOUS
<1>2. PICK k \in Bad : \A m \in Bad : k <= m
  <2>1. Bad \subseteq Nat
    OBVIOUS
  <2> HIDE DEF Bad
  <2> QED
    BY <1>1, <2>1, LeastIndex
<1>3. k # 0 /\ k \in 1..n /\ k - 1 \in 0..n
  BY <1>2
<1>4. k - 1 \notin Bad
  BY <1>2, <1>3
<1> QED
  BY <1>2, <1>3, <1>4

-----------------------------------------------------------------------------
(* What the walk has read after i structures. *)

DmiReadings(table) ==
  [product : NamesOf(table, "system") \cup {NoName},
   board : NamesOf(table, "baseboard") \cup {NoName}]
Readings(table) == [dmi : DmiReadings(table), over : BOOLEAN]

LEMMA TableFacts ==
  ASSUME NEW table, IsTable(table)
  PROVE  /\ Len(table.structures) \in Nat
         /\ DOMAIN table.structures = 1..Len(table.structures)
         /\ \A i \in DOMAIN table.structures :
              /\ table.structures[i] \in SmbiosStructure
              /\ table.structures[i].number \in Nat
              /\ table.structures[i].strings \in Seq(Seq(STRING) \ {NoName})
<1>1. table.structures \in Seq(SmbiosStructure)
  BY DEF IsTable
<1>2. /\ Len(table.structures) \in Nat
      /\ DOMAIN table.structures = 1..Len(table.structures)
      /\ \A i \in DOMAIN table.structures : table.structures[i] \in SmbiosStructure
  BY <1>1
<1> QED
  BY <1>2 DEF SmbiosStructure

(* The string that is copied is one of the structure's, unless it is the   *)
(* part that the table's end has left of one.                              *)
LEMMA CopiedIsNamed ==
  ASSUME NEW table, IsTable(table), ~IsCutInName(table), NEW i \in DOMAIN table.structures,
         table.structures[i].number \in DOMAIN StringsOf(table, i)
  PROVE  /\ table.structures[i].number \in DOMAIN table.structures[i].strings
         /\ StringsOf(table, i)[table.structures[i].number]
              = table.structures[i].strings[table.structures[i].number]
<1> DEFINE strings == table.structures[i].strings
           number == table.structures[i].number
           cut == table.cut
<1>1. strings \in Seq(Seq(STRING) \ {NoName}) /\ number \in Nat
  BY TableFacts
<1>2. CASE cut.where = "strings" /\ cut.at = i
  <2>1. StringsOf(table, i) = Remaining(strings, cut)
    BY <1>2 DEF StringsOf
  <2>2. /\ cut.whole \in 0..Len(strings) /\ cut.parts \in Nat
        /\ cut.parts > 0 => cut.whole < Len(strings) /\ number # cut.whole + 1
    BY <1>2 DEF IsTable, IsCutInName
  <2> DEFINE kept == SubSeq(strings, 1, cut.whole)
  <2>3. /\ kept \in Seq(Seq(STRING) \ {NoName}) /\ Len(kept) = cut.whole
        /\ \A k \in 1..cut.whole : kept[k] = strings[k]
    BY <1>1, <2>2, SMTT(40)
  <2>4. CASE cut.parts = 0
    <3>1. StringsOf(table, i) = kept
      BY <2>1, <2>3, <2>4 DEF Remaining
    <3> HIDE DEF kept, strings, number, cut
    <3>2. number \in 1..cut.whole
      BY <2>2, <2>3, <3>1 DEF number
    <3> QED
      BY <1>1, <2>2, <2>3, <3>1, <3>2, SMTT(40) DEF number, strings
  <2>5. CASE cut.parts # 0
    <3> DEFINE last == SubSeq(strings[cut.whole + 1], 1, cut.parts)
    <3>1. StringsOf(table, i) = kept \o <<last>>
      BY <2>1, <2>5 DEF Remaining
    <3> HIDE DEF kept, last
    <3>2. /\ Len(kept \o <<last>>) = cut.whole + 1
          /\ DOMAIN (kept \o <<last>>) = 1..(cut.whole + 1)
          /\ \A k \in 1..cut.whole : (kept \o <<last>>)[k] = kept[k]
      BY <2>2, <2>3
    <3>3. number \in 1..cut.whole
      <4>1. number \in 1..(cut.whole + 1)
        BY <3>1, <3>2
      <4>2. number # cut.whole + 1
        BY <2>2, <2>5
      <4>3. cut.whole \in Nat
        BY <2>2
      <4> HIDE DEF number, cut
      <4> QED
        BY <4>1, <4>2, <4>3
    <3>4. StringsOf(table, i)[number] = strings[number]
      BY <2>3, <3>1, <3>2, <3>3
    <3>5. number \in DOMAIN strings
      <4>1. Len(strings) \in Nat /\ DOMAIN strings = 1..Len(strings) /\ cut.whole \in 0..Len(strings)
        BY <1>1, <2>2
      <4> HIDE DEF number, strings, cut
      <4> QED
        BY <3>3, <4>1
    <3> QED
      BY <3>4, <3>5
  <2> QED
    BY <2>4, <2>5
<1>3. CASE ~(cut.where = "strings" /\ cut.at = i)
  BY <1>3 DEF StringsOf
<1> QED
  BY <1>2, <1>3

LEMMA NamesAreNamed ==
  ASSUME NEW table, IsTable(table), NEW i \in DOMAIN table.structures, NEW type,
         table.structures[i].type = type, table.structures[i].length = "full",
         table.structures[i].number \in DOMAIN table.structures[i].strings
  PROVE  table.structures[i].strings[table.structures[i].number] \in NamesOf(table, type)
BY DEF NamesOf

(* One structure: every name copied out of it is a name of its type. *)
LEMMA StructureIsRead ==
  ASSUME NEW table, IsTable(table), ~IsCutInName(table), NEW i \in DOMAIN table.structures,
         NEW dmi \in DmiReadings(table)
  PROVE  WithStructure(table, i, dmi) \in DmiReadings(table)
<1> DEFINE s == table.structures[i]
           Copied(old) == CopySmbiosString(StringsOf(table, i), s.number, old)
<1>1. ASSUME NEW type, s.type = type, s.length = "full", NEW old \in NamesOf(table, type) \cup {NoName}
      PROVE  Copied(old) \in NamesOf(table, type) \cup {NoName}
  <2>1. CASE s.number \in DOMAIN StringsOf(table, i)
    <3>1. Copied(old) = s.strings[s.number] /\ s.number \in DOMAIN s.strings
      BY <2>1, CopiedIsNamed DEF CopySmbiosString
    <3> QED
      BY <1>1, <3>1, NamesAreNamed
  <2>2. CASE s.number \notin DOMAIN StringsOf(table, i)
    BY <1>1, <2>2 DEF CopySmbiosString
  <2> QED
    BY <2>1, <2>2
<1>2. CASE s.type = "system" /\ s.length = "full"
  <2>1. WithStructure(table, i, dmi) = [dmi EXCEPT !.product = Copied(@)]
    BY <1>2 DEF WithStructure
  <2>2. Copied(dmi.product) \in NamesOf(table, "system") \cup {NoName}
    BY <1>1, <1>2 DEF DmiReadings
  <2> HIDE DEF Copied
  <2> QED
    BY <2>1, <2>2 DEF DmiReadings
<1>3. CASE s.type = "baseboard" /\ s.length = "full"
  <2>1. WithStructure(table, i, dmi) = [dmi EXCEPT !.board = Copied(@)]
    BY <1>3 DEF WithStructure
  <2>2. Copied(dmi.board) \in NamesOf(table, "baseboard") \cup {NoName}
    BY <1>1, <1>3 DEF DmiReadings
  <2> HIDE DEF Copied
  <2> QED
    BY <2>1, <2>2 DEF DmiReadings
<1>4. CASE ~(s.type \in {"system", "baseboard"} /\ s.length = "full")
  <2>1. WithStructure(table, i, dmi) = dmi
    BY <1>4 DEF WithStructure
  <2> QED
    BY <2>1
<1> QED
  BY <1>2, <1>3, <1>4

(* So is every name the walk ends with, wherever the table is cut off. *)
LEMMA WalkReadsNames ==
  ASSUME NEW table, IsTable(table), ~IsCutInName(table)
  PROVE  \A i \in 0..Len(table.structures) : Walk(table)[i] \in Readings(table)
<1> DEFINE n == Len(table.structures)
           Good == {i \in 0..n : Walk(table)[i] \in Readings(table)}
<1>1. n \in Nat /\ DOMAIN table.structures = 1..n
  BY TableFacts
<1>2. 0 \in Good
  <2>1. Start \in Readings(table)
    BY DEF Start, NoIdentity, Readings, DmiReadings
  <2>2. Walk(table)[0] = Start
    BY <1>1, WalkIs
  <2>3. 0 \in 0..n
    BY <1>1
  <2> QED
    BY <2>1, <2>2, <2>3, Zenon
<1>3. ASSUME NEW i \in 1..n, i - 1 \in Good
      PROVE  i \in Good
  <2> DEFINE before == Walk(table)[i - 1]
  <2>1. before \in Readings(table) /\ Walk(table)[i] = Step(table, i, before)
    BY <1>1, <1>3, WalkIs
  <2> HIDE DEF before
  <2>2. CASE before.over \/ Stops(table, i)
    <3>1. Walk(table)[i] = [before EXCEPT !.over = TRUE]
      BY <2>1, <2>2 DEF Step
    <3>2. [before EXCEPT !.over = TRUE] \in Readings(table)
      BY <2>1 DEF Readings
    <3>3. i \in 0..n
      BY <1>1
    <3> QED
      BY <3>1, <3>2, <3>3, Zenon
  <2>3. CASE ~(before.over \/ Stops(table, i))
    <3>1. WithStructure(table, i, before.dmi) \in DmiReadings(table)
      BY <1>1, <2>1, StructureIsRead DEF Readings
    <3>2. IsLast(table, i, WithStructure(table, i, before.dmi)) \in BOOLEAN
      BY Zenon DEF IsLast
    <3>3. Walk(table)[i] \in Readings(table)
      BY <2>1, <2>3, <3>1, <3>2 DEF Step, Readings
    <3>4. i \in 0..n
      BY <1>1
    <3> QED
      BY <3>3, <3>4, Zenon
  <2> QED
    BY <2>2, <2>3
<1> HIDE DEF Good
<1>4. \A i \in 0..n : i \in Good
  BY <1>1, <1>2, <1>3, AlongTable
<1> QED
  BY <1>4 DEF Good

-----------------------------------------------------------------------------
(* Soundness: the walk selects a profile only if the table names it.       *)

LEMMA ReadTableReads ==
  ASSUME NEW table, IsTable(table), ~IsCutInName(table)
  PROVE  ReadTable(table) \in DmiReadings(table)
<1>1. Len(table.structures) \in 0..Len(table.structures)
  BY TableFacts
<1>2. Walk(table)[Len(table.structures)] \in Readings(table)
  BY <1>1, WalkReadsNames
<1> QED
  BY <1>2 DEF ReadTable, Readings

(* However a table is cut off or malformed, except inside the very name it *)
(* holds, the profile pass accepts only profiles that the table names.     *)
THEOREM OnlyNamedAccepted ==
  ASSUME NEW table, IsTable(table), ~IsCutInName(table), NEW profile,
         TouchProfileMatchesIdentity(profile, ReadTable(table))
  PROVE  Names(profile, table)
<1> DEFINE dmi == ReadTable(table)
<1>1. /\ dmi.product \in NamesOf(table, "system") \cup {NoName}
      /\ dmi.board \in NamesOf(table, "baseboard") \cup {NoName}
  BY ReadTableReads DEF DmiReadings
<1> HIDE DEF dmi
<1>2. TouchProfileMatchesIdentity(profile, dmi)
  BY DEF dmi
<1> QED
  BY <1>1, <1>2 DEF TouchProfileMatchesIdentity, Names

-----------------------------------------------------------------------------
(* Completeness: what a whole table names, the walk reads.                 *)

Named(table, j, type) ==
  /\ table.structures[j].type = type /\ table.structures[j].length = "full"
  /\ table.structures[j].number \in DOMAIN table.structures[j].strings
NameAt(table, j) == table.structures[j].strings[table.structures[j].number]

(* The names of the first i structures are all known. *)
Known(table, i, dmi) ==
  \A j \in 1..i : /\ Named(table, j, "system") => dmi.product = NameAt(table, j)
                  /\ Named(table, j, "baseboard") => dmi.board = NameAt(table, j)

LEMMA NamesOfNamed ==
  ASSUME NEW table, NEW type
  PROVE  NamesOf(table, type) = {NameAt(table, j) : j \in {k \in DOMAIN table.structures : Named(table, k, type)}}
BY DEF NamesOf, Named, NameAt

(* One system and one baseboard: what was read is all there is. *)
LEMMA NothingMoreToKnow ==
  ASSUME NEW table, IsTable(table), IsWhole(table), NEW dmi \in DmiReadings(table),
         dmi.product # NoName, dmi.board # NoName
  PROVE  Known(table, Len(table.structures), dmi)
<1>1. DOMAIN table.structures = 1..Len(table.structures)
  BY TableFacts
<1>2. ASSUME NEW type \in {"system", "baseboard"}, NEW x \in NamesOf(table, type),
             NEW j \in DOMAIN table.structures, Named(table, j, type)
      PROVE  x = NameAt(table, j)
  <2>1. PICK k \in DOMAIN table.structures : Named(table, k, type) /\ x = NameAt(table, k)
    BY <1>2, NamesOfNamed
  <2>2. k = j
    BY <1>2, <2>1 DEF IsWhole, Named
  <2> QED
    BY <2>1, <2>2
<1>3. dmi.product \in NamesOf(table, "system") /\ dmi.board \in NamesOf(table, "baseboard")
  BY DEF DmiReadings
<1> QED
  BY <1>1, <1>2, <1>3 DEF Known

LEMMA StructureBecomesKnown ==
  ASSUME NEW table, IsTable(table), IsWhole(table), NEW i \in DOMAIN table.structures,
         NEW dmi \in DmiReadings(table), Known(table, i - 1, dmi)
  PROVE  Known(table, i, WithStructure(table, i, dmi))
<1> DEFINE after == WithStructure(table, i, dmi)
<1>1. StringsOf(table, i) = table.structures[i].strings
  BY DEF IsWhole, StringsOf
<1>2. i \in Nat /\ DOMAIN table.structures = 1..Len(table.structures) /\ Len(table.structures) \in Nat
  BY TableFacts
<1>3. /\ Named(table, i, "system") => after.product = NameAt(table, i)
      /\ Named(table, i, "baseboard") => after.board = NameAt(table, i)
  BY <1>1 DEF Named, NameAt, WithStructure, CopySmbiosString, DmiReadings
<1>4. /\ table.structures[i].type # "system" => after.product = dmi.product
      /\ table.structures[i].type # "baseboard" => after.board = dmi.board
  BY DEF WithStructure, DmiReadings
<1> HIDE DEF after
<1>5. ASSUME NEW j \in 1..i, j # i
      PROVE  /\ Named(table, j, "system") => after.product = NameAt(table, j)
             /\ Named(table, j, "baseboard") => after.board = NameAt(table, j)
  <2>1. j \in 1..(i - 1) /\ j \in DOMAIN table.structures
    BY <1>2, <1>5
  <2>2. \A type \in {"system", "baseboard"} :
          Named(table, j, type) => table.structures[i].type # type
    BY <1>5, <2>1 DEF IsWhole, Named
  <2> QED
    BY <1>4, <2>1, <2>2 DEF Known
<1>6. Known(table, i, after)
  BY <1>3, <1>5 DEF Known
<1> QED
  BY <1>6 DEF after

LEMMA WalkKnows ==
  ASSUME NEW table, IsTable(table), IsWhole(table)
  PROVE  \A i \in 0..Len(table.structures) :
           /\ ~Walk(table)[i].over => Known(table, i, Walk(table)[i].dmi)
           /\ Walk(table)[i].over => Known(table, Len(table.structures), Walk(table)[i].dmi)
<1> DEFINE n == Len(table.structures)
           Knows(i, s) == /\ ~s.over => Known(table, i, s.dmi)
                          /\ s.over => Known(table, n, s.dmi)
           Good == {i \in 0..n : Knows(i, Walk(table)[i])}
<1>1. n \in Nat /\ DOMAIN table.structures = 1..n
  BY TableFacts
<1>2. \A i \in 0..n : Walk(table)[i] \in Readings(table)
  BY WalkReadsNames DEF IsWhole, IsCutInName
<1>3. 0 \in Good
  <2>1. Walk(table)[0] = Start
    BY <1>1, WalkIs
  <2>2. Knows(0, Start)
    BY DEF Start, Known
  <2>3. 0 \in 0..n
    BY <1>1
  <2> HIDE DEF Knows
  <2> QED
    BY <2>1, <2>2, <2>3, Zenon
<1>4. ASSUME NEW i \in 1..n, i - 1 \in Good
      PROVE  i \in Good
  <2> DEFINE before == Walk(table)[i - 1]
             after == Walk(table)[i]
  <2>1. i - 1 \in 0..n /\ i \in 0..n /\ i \in DOMAIN table.structures
    BY <1>1
  <2>2. before \in Readings(table) /\ after \in Readings(table) /\ Knows(i - 1, before)
    BY <1>2, <1>4, <2>1
  <2>3. after = Step(table, i, before)
    BY <1>1, WalkIs
  <2> HIDE DEF before, after
  <2>4. CASE before.over
    <3>1. after = [before EXCEPT !.over = TRUE]
      BY <2>3, <2>4 DEF Step
    <3>2. after.dmi = before.dmi /\ after.over = TRUE
      BY <2>2, <3>1 DEF Readings
    <3>3. Knows(i, after)
      BY <2>2, <2>4, <3>2
    <3> HIDE DEF Knows
    <3> QED
      BY <2>1, <3>3 DEF after
  <2>5. CASE ~before.over /\ Stops(table, i)
    <3>1. after = [before EXCEPT !.over = TRUE]
      BY <2>3, <2>5 DEF Step
    <3>2. after.dmi = before.dmi /\ after.over = TRUE
      BY <2>2, <3>1 DEF Readings
    <3>3. table.structures[i].type = "end" /\ i = n
      BY <2>1, <2>5 DEF Stops, IsWhole
    <3>4. Known(table, i - 1, before.dmi)
      BY <2>2, <2>5
    <3>5. Known(table, n, before.dmi)
      <4>1. \A j \in 1..n : j \in 1..(i - 1) \/ j = n
        BY <1>1, <3>3
      <4>2. ~Named(table, n, "system") /\ ~Named(table, n, "baseboard")
        BY <3>3 DEF Named
      <4> HIDE DEF n
      <4> QED
        BY <3>4, <4>1, <4>2 DEF Known
    <3>6. Knows(i, after)
      BY <3>2, <3>5
    <3> HIDE DEF Knows
    <3> QED
      BY <2>1, <3>6 DEF after
  <2>6. CASE ~before.over /\ ~Stops(table, i)
    <3> DEFINE dmi == WithStructure(table, i, before.dmi)
    <3>1. after = [dmi |-> dmi, over |-> IsLast(table, i, dmi)]
      BY <2>3, <2>6 DEF Step
    <3>2. Known(table, i, dmi)
      BY <2>1, <2>2, <2>6, StructureBecomesKnown DEF Readings
    <3> HIDE DEF dmi
    <3>3. after.dmi = dmi /\ after.over = IsLast(table, i, dmi) /\ dmi \in DmiReadings(table)
      BY <2>2, <3>1 DEF Readings
    <3>4. ASSUME after.over PROVE Known(table, n, dmi)
      <4>1. dmi.product # NoName /\ dmi.board # NoName
        BY <3>3, <3>4 DEF IsLast, IsWhole
      <4> QED
        BY <3>3, <4>1, NothingMoreToKnow
    <3>5. Knows(i, after)
      BY <3>2, <3>3, <3>4
    <3> HIDE DEF Knows
    <3> QED
      BY <2>1, <3>5 DEF after
  <2> QED
    BY <2>4, <2>5, <2>6
<1> HIDE DEF Good
<1>5. \A i \in 0..n : i \in Good
  BY <1>1, <1>3, <1>4, AlongTable
<1> QED
  BY <1>5 DEF Good

LEMMA ReadTableKnows ==
  ASSUME NEW table, IsTable(table), IsWhole(table)
  PROVE  Known(table, Len(table.structures), ReadTable(table))
<1>1. Len(table.structures) \in 0..Len(table.structures)
  BY TableFacts
<1> QED
  BY <1>1, WalkKnows DEF ReadTable

(* A table that is whole selects exactly the profiles it names.            *)
THEOREM WholeTableIsRead ==
  ASSUME NEW table, IsTable(table), IsWhole(table), NEW profile
  PROVE  TouchProfileMatchesIdentity(profile, ReadTable(table)) <=> Names(profile, table)
<1> DEFINE dmi == ReadTable(table)
<1>1. ~IsCutInName(table)
  BY DEF IsWhole, IsCutInName
<1>2. DOMAIN table.structures = 1..Len(table.structures)
  BY TableFacts
<1>3. Known(table, Len(table.structures), dmi)
  BY ReadTableKnows
<1> HIDE DEF dmi
<1>4. /\ \A x \in NamesOf(table, "system") : x = dmi.product
      /\ \A x \in NamesOf(table, "baseboard") : x = dmi.board
  BY <1>2, <1>3, NamesOfNamed DEF Known
<1>5. NoName \notin NamesOf(table, "baseboard")
  <2>1. ASSUME NEW j \in DOMAIN table.structures, Named(table, j, "baseboard")
        PROVE  NameAt(table, j) # NoName
    <3>1. table.structures[j].strings \in Seq(Seq(STRING) \ {NoName})
      BY TableFacts
    <3> QED
      BY <2>1, <3>1 DEF Named, NameAt
  <2> QED
    BY <2>1, NamesOfNamed
<1>6. ASSUME Names(profile, table)
      PROVE  TouchProfileMatchesIdentity(profile, dmi)
  BY <1>4, <1>5, <1>6 DEF Names, TouchProfileMatchesIdentity
<1>7. ASSUME TouchProfileMatchesIdentity(profile, dmi)
      PROVE  Names(profile, table)
  BY <1>1, <1>7, OnlyNamedAccepted DEF dmi
<1> QED
  BY <1>6, <1>7 DEF dmi

-----------------------------------------------------------------------------
(* The configuration table. *)

LEMMA OneEntryPoint ==
  ASSUME NEW entries, AreEntries(entries), NEW kind \in {"smbios3", "smbios"},
         EntryPoints(entries, kind) # {}
  PROVE  \E i \in DOMAIN entries : EntryPoints(entries, kind) = {i} /\ First(EntryPoints(entries, kind)) = i
<1>1. PICK i \in DOMAIN entries : entries[i].kind = kind
  BY DEF EntryPoints
<1>2. i \in Nat
  BY DEF AreEntries
<1>3. EntryPoints(entries, kind) = {i}
  BY <1>1 DEF EntryPoints, AreEntries
<1>4. First({i}) = i
  BY <1>2 DEF First
<1> QED
  BY <1>3, <1>4

(* Either no table, or one, and it is the one that is read. *)
LEMMA OneTable ==
  ASSUME NEW entries, AreEntries(entries)
  PROVE  \/ TablesOf(entries) = {} /\ TouchReadDmiIdentity(entries) = NoIdentity
         \/ \E table : /\ IsTable(table) /\ TablesOf(entries) = {table}
                       /\ TouchReadDmiIdentity(entries) = ReadTable(table)
<1> DEFINE wide == EntryPoints(entries, "smbios3")
           narrow == EntryPoints(entries, "smbios")
<1>1. CASE wide # {}
  <2>1. PICK i \in DOMAIN entries : wide = {i} /\ First(wide) = i
    BY <1>1, OneEntryPoint
  <2>2. TablesOf(entries) = {entries[i].table}
    BY <2>1 DEF TablesOf
  <2>3. TouchReadDmiIdentity(entries) = ReadTable(entries[i].table)
    BY <1>1, <2>1 DEF TouchReadDmiIdentity
  <2>4. IsTable(entries[i].table)
    BY DEF AreEntries
  <2> QED
    BY <2>2, <2>3, <2>4
<1>2. CASE wide = {} /\ narrow # {}
  <2>1. PICK i \in DOMAIN entries : narrow = {i} /\ First(narrow) = i
    BY <1>2, OneEntryPoint
  <2>2. TablesOf(entries) = {entries[i].table}
    BY <1>2, <2>1 DEF TablesOf
  <2>3. TouchReadDmiIdentity(entries) = ReadTable(entries[i].table)
    BY <1>2, <2>1 DEF TouchReadDmiIdentity
  <2>4. IsTable(entries[i].table)
    BY DEF AreEntries
  <2> QED
    BY <2>2, <2>3, <2>4
<1>3. CASE wide = {} /\ narrow = {}
  <2>1. TablesOf(entries) = {}
    BY <1>3 DEF TablesOf
  <2>2. TouchReadDmiIdentity(entries) = NoIdentity
    BY <1>3 DEF TouchReadDmiIdentity
  <2> QED
    BY <2>1, <2>2
<1> QED
  BY <1>1, <1>2, <1>3

(* What the driver reads at its entry point, whatever the firmware's       *)
(* configuration table holds: without an entry point no profile is         *)
(* accepted; a table that is not cut inside its name lets only profiles in *)
(* that it names; a whole one lets all of them in.                         *)
THEOREM IdentityFollowsTables ==
  ASSUME NEW entries, AreEntries(entries), NEW profile
  PROVE  LET tables == TablesOf(entries)
             accepted == TouchProfileMatchesIdentity(profile, TouchReadDmiIdentity(entries))
             named == \E t \in tables : Names(profile, t)
         IN  /\ Legibility(tables) # "misread" => (accepted => named)
             /\ Legibility(tables) = "whole" => (accepted <=> named)
<1> DEFINE tables == TablesOf(entries)
           accepted == TouchProfileMatchesIdentity(profile, TouchReadDmiIdentity(entries))
           named == \E t \in tables : Names(profile, t)
<1>1. CASE tables = {} /\ TouchReadDmiIdentity(entries) = NoIdentity
  <2>1. ~accepted
    BY <1>1 DEF TouchProfileMatchesIdentity, NoIdentity
  <2>2. ~named
    BY <1>1
  <2> QED
    BY <2>1, <2>2
<1>2. ASSUME NEW table, IsTable(table), tables = {table},
             TouchReadDmiIdentity(entries) = ReadTable(table)
      PROVE  /\ Legibility(tables) # "misread" => (accepted => named)
             /\ Legibility(tables) = "whole" => (accepted <=> named)
  <2>1. accepted <=> TouchProfileMatchesIdentity(profile, ReadTable(table))
    BY <1>2
  <2>2. named <=> Names(profile, table)
    BY <1>2
  <2>3. Legibility(tables) = "whole" => IsWhole(table)
    BY <1>2 DEF Legibility
  <2>4. Legibility(tables) # "misread" => ~IsCutInName(table)
    BY <1>2 DEF Legibility, IsWhole, IsCutInName
  <2> HIDE DEF accepted, named, tables
  <2>5. Legibility(tables) # "misread" => (accepted => named)
    BY <1>2, <2>1, <2>2, <2>4, OnlyNamedAccepted
  <2>6. Legibility(tables) = "whole" => (accepted <=> named)
    BY <1>2, <2>1, <2>2, <2>3, WholeTableIsRead
  <2> QED
    BY <2>5, <2>6
<1> QED
  BY <1>1, <1>2, OneTable
=============================================================================
