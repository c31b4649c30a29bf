---------------------------- MODULE SmbiosIdentity ----------------------------
(***************************************************************************)
(* TouchReadDmiIdentity and TouchProfileMatchesIdentity: how the SMBIOS    *)
(* structure table decides which profiles may touch hardware at all.       *)
(*                                                                         *)
(* A name is a sequence of parts, so that one may be the beginning of      *)
(* another; no name in mProfiles is long enough for the 31 characters of   *)
(* mDmiProduct to matter.  A table is its structures and where its size    *)
(* cuts it off: in the formatted area or the string set of a structure     *)
(* ("header", "strings"), or nowhere ("none").                             *)
(***************************************************************************)
EXTENDS Naturals, Sequences, SequencesExt

NoName == <<>>

(* A structure: which of its strings, counted from 1, holds the name, and  *)
(* its string set, where an empty string would be the terminator.          *)
SmbiosStructure ==
  [type : {"system", "baseboard", "other", "end"},
   length : {"full", "short", "malformed"},
   number : Nat, strings : Seq(Seq(STRING) \ {NoName})]

(* It is cut off where it has something.                                   *)
IsTable(table) ==
  /\ table.structures \in Seq(SmbiosStructure)
  /\ table.cut.where \in {"none", "header", "strings"}
  /\ table.cut.where = "strings" =>
       /\ table.cut.at \in DOMAIN table.structures
       /\ LET all == Len(table.structures[table.cut.at].strings)
          IN  /\ table.cut.whole \in 0..all /\ table.cut.parts \in Nat
              /\ table.cut.parts > 0 => table.cut.whole < all

(* A configuration table has one entry for each identifier.                *)
AreEntries(entries) ==
  /\ DOMAIN entries = 1..Len(entries) /\ Len(entries) \in Nat
  /\ \A i \in DOMAIN entries :
       entries[i].kind \in {"smbios3", "smbios", "other"} /\ IsTable(entries[i].table)
  /\ \A i, j \in DOMAIN entries :
       entries[i].kind = entries[j].kind /\ entries[i].kind # "other" => i = j

\* A string set cut off: whole strings, and parts of the next one.
Remaining(strings, cut) ==
  SubSeq(strings, 1, cut.whole) \o
  (IF cut.parts = 0 THEN <<>> ELSE <<SubSeq(strings[cut.whole + 1], 1, cut.parts)>>)

StringsOf(table, i) ==
  IF table.cut.where = "strings" /\ table.cut.at = i
  THEN Remaining(table.structures[i].strings, table.cut)
  ELSE table.structures[i].strings

(* TouchCopySmbiosString: number 0, and one beyond the last string, leave   *)
(* the destination as it is.                                               *)
CopySmbiosString(strings, number, destination) ==
  IF number \in DOMAIN strings THEN strings[number] ELSE destination

(* The structure ends the table, or cannot be trusted. *)
Stops(table, i) ==
  \/ table.structures[i].type = "end"
  \/ table.structures[i].length = "malformed"
  \/ table.cut.where = "header" /\ table.cut.at = i

(* The names after structure i, if the walk reads it. *)
WithStructure(table, i, dmi) ==
  LET s == table.structures[i]
      Copied(old) == CopySmbiosString(StringsOf(table, i), s.number, old)
  IN  CASE s.type = "system" /\ s.length = "full" ->
             [dmi EXCEPT !.product = Copied(@)]
        [] s.type = "baseboard" /\ s.length = "full" ->
             [dmi EXCEPT !.board = Copied(@)]
        [] OTHER -> dmi

(* Mutant: one name is enough. *)
IsLastEither(table, i, dmi) ==
  \/ table.cut.where = "strings" /\ table.cut.at = i
  \/ dmi.product # NoName \/ dmi.board # NoName

(* The walk is over after structure i: its strings have no end, or both    *)
(* names are known.                                                        *)
IsLast(table, i, dmi) ==
  \/ table.cut.where = "strings" /\ table.cut.at = i
  \/ dmi.product # NoName /\ dmi.board # NoName

NoIdentity == [product |-> NoName, board |-> NoName]

(* The walk over the table, structure by structure. *)
Step(table, i, before) ==
  IF before.over \/ Stops(table, i)
  THEN [before EXCEPT !.over = TRUE]
  ELSE LET dmi == WithStructure(table, i, before.dmi)
       IN  [dmi |-> dmi, over |-> IsLast(table, i, dmi)]

Walk(table) ==
  LET walk[i \in 0..Len(table.structures)] ==
        IF i = 0 THEN [dmi |-> NoIdentity, over |-> FALSE] ELSE Step(table, i, walk[i - 1])
  IN  walk

ReadTable(table) == Walk(table)[Len(table.structures)].dmi

(* The configuration table: the first 64-bit entry point wins, else the    *)
(* first 32-bit one; without either the identity stays empty.              *)
EntryPoints(entries, kind) == {i \in DOMAIN entries : entries[i].kind = kind}
First(s) == CHOOSE i \in s : \A j \in s : i <= j
TouchReadDmiIdentity(entries) ==
  LET wide == EntryPoints(entries, "smbios3")
      narrow == EntryPoints(entries, "smbios")
  IN  CASE wide # {} -> ReadTable(entries[First(wide)].table)
        [] wide = {} /\ narrow # {} -> ReadTable(entries[First(narrow)].table)
        [] OTHER -> NoIdentity

(* A profile names an exact product, or else boards by how they begin. *)
TouchProfileMatchesIdentity(profile, dmi) ==
  IF profile.product # NoName
  THEN profile.product = dmi.product
  ELSE dmi.board # NoName /\ \E x \in profile.boards : IsPrefix(x, dmi.board)

-----------------------------------------------------------------------------
(* What the machine says it is, cut off or not: the reading the walk is    *)
(* held against.                                                           *)

NamesOf(table, type) ==
  {table.structures[i].strings[table.structures[i].number] :
     i \in {j \in DOMAIN table.structures :
              /\ table.structures[j].type = type
              /\ table.structures[j].length = "full"
              /\ table.structures[j].number \in DOMAIN table.structures[j].strings}}

Names(profile, table) ==
  IF profile.product # NoName
  THEN profile.product \in NamesOf(table, "system")
  ELSE \E x \in profile.boards, y \in NamesOf(table, "baseboard") : IsPrefix(x, y)

(* Nothing is cut off, everything can be trusted, and there is one system  *)
(* and one baseboard.                                                      *)
IsWhole(table) ==
  /\ table.cut.where = "none"
  /\ \A i, j \in DOMAIN table.structures :
       /\ table.structures[i].length # "malformed"
       /\ table.structures[i].type = "end" => i = Len(table.structures)
       /\ table.structures[i].type \in {"system", "baseboard"}
            /\ table.structures[i].type = table.structures[j].type => i = j

(* The table ends inside the very string it needs. *)
IsCutInName(table) ==
  /\ table.cut.where = "strings" /\ table.cut.parts > 0
  /\ table.structures[table.cut.at].number = table.cut.whole + 1

(* The tables an entry point of the preferred width leads to. *)
TablesOf(entries) ==
  {entries[i].table :
     i \in IF EntryPoints(entries, "smbios3") # {}
           THEN EntryPoints(entries, "smbios3") ELSE EntryPoints(entries, "smbios")}

Legibility(tables) ==
  CASE \A t \in tables : IsWhole(t) -> "whole"
    [] \E t \in tables : IsCutInName(t) -> "misread"
    [] OTHER -> "partly"
=============================================================================
