---------------------------- MODULE MCTouchDetect -----------------------------
(* TLC instances of TouchDetect: one profile of each kind in mProfiles. *)
EXTENDS TouchDetect

MCProfiles == <<
  [product |-> <<"Galileo">>, boards |-> {},
   platform |-> "amd",   base |-> 2, addr |-> 1, reg |-> 1, gpio |-> 85],
  [product |-> NoName, boards |-> {<<"UX8402VV">>},
   platform |-> "intel", base |-> 6, addr |-> 2, reg |-> 2, gpio |-> 0],
  [product |-> NoName, boards |-> {<<"H7607BA">>},
   platform |-> "mtk",   base |-> 7, addr |-> 3, reg |-> 1, gpio |-> 0],
  [product |-> <<"83E1">>, boards |-> {},
   platform |-> "amd",   base |-> 0, addr |-> 0, reg |-> 1, gpio |-> 0] >>

\* SMBIOS tables.  A system names its maker before its product.
Structure(type, number, strings) ==
  [type |-> type, length |-> "full", number |-> number, strings |-> strings]
System(name) == Structure("system", 2, << <<"Maker">>, name >>)
Board(name) == Structure("baseboard", 1, << name >>)
Structures(product, board) ==
  << Structure("other", 1, << <<"Galileo">> >>), System(product), Board(board),
     Structure("end", 0, <<>>) >>
NoCut == [where |-> "none", at |-> 0, whole |-> 0, parts |-> 0]
CutHeader(i) == [where |-> "header", at |-> i, whole |-> 0, parts |-> 0]
CutStrings(i, n, k) == [where |-> "strings", at |-> i, whole |-> n, parts |-> k]
Table(structures, cut) == [structures |-> structures, cut |-> cut]
Whole(product, board) == Table(Structures(product, board), NoCut)
Entries(table) ==
  << [kind |-> "other", table |-> table], [kind |-> "smbios3", table |-> table] >>

\* No identity, each profile alone, and a product name that matches one
\* profile on a board that matches another.
Unknown == <<"Unknown">>
Ux8402 == <<"UX8402VV", "-308">>
OnlyProduct(name) == Entries(Whole(name, Unknown))
OnlyBoard(name) == Entries(Whole(Unknown, name))
Deck == OnlyProduct(<<"Galileo">>)
Zenbook == OnlyBoard(Ux8402)
ProArt == OnlyBoard(<<"H7607BA">>)
LegionGo == OnlyProduct(<<"83E1">>)
DeckProArt == Entries(Whole(<<"Galileo">>, <<"H7607BA">>))
DeckZenbook == Entries(Whole(<<"Galileo">>, Ux8402))
MCIdentities ==
  {OnlyProduct(Unknown), Deck, Zenbook, ProArt, LegionGo, DeckProArt, DeckZenbook}

\* Tables that are cut off, malformed or in another order, and a 32-bit
\* entry point to a table that is cut off before the 64-bit one.
DeckStructures == Structures(<<"Galileo">>, Ux8402)
LongName == Structures(<<"Galileo", "2">>, Ux8402)
Wrong(i, field, value) == [DeckStructures EXCEPT ![i][field] = value]
MCDoubtful ==
  {Entries(Table(DeckStructures, cut)) :
     cut \in {CutHeader(2), CutHeader(3), CutStrings(2, 1, 0), CutStrings(2, 2, 0),
              CutStrings(3, 0, 1)}}
  \cup {Entries(Table(LongName, CutStrings(2, 1, 1)))}
  \cup {Entries(Table(Wrong(i, "length", l), NoCut)) :
          i \in {2, 3}, l \in {"short", "malformed"}}
  \cup {Entries(Table(Wrong(i, "number", n), NoCut)) : i \in {2, 3}, n \in {0, 3}}
  \cup {Entries(Table(Wrong(1, "type", "end"), NoCut)),
        Entries(Table(<<Board(Ux8402), System(<<"Galileo">>)>>, NoCut)),
        << [kind |-> "smbios", table |-> Table(DeckStructures, CutHeader(2))],
           [kind |-> "smbios3", table |-> Table(DeckStructures, NoCut)] >>,
        << [kind |-> "smbios", table |-> Table(DeckStructures, NoCut)] >>,
        << >>}
MCAddrs == <<1, 2>>
MCRegs == <<1, 2>>
\* The profile's own place, an alternate register, an alternate address, a
\* sweep-only controller, and the Intel and MediaTek controllers.
MCPanels == {[base |-> 2, addr |-> 1, reg |-> 1], [base |-> 2, addr |-> 2, reg |-> 2],
             [base |-> 5, addr |-> 1, reg |-> 2],
             [base |-> 6, addr |-> 1, reg |-> 1], [base |-> 7, addr |-> 3, reg |-> 1],
             [base |-> 7, addr |-> 2, reg |-> 2]}

Machines(identities, panels, functions, mayBeSlow, budget) ==
  [entries : identities, panel : panels, lpss : functions, slow : {mayBeSlow},
   faults : {budget}]
\* Healthy machines of every kind, machines with doubtful tables, machines
\* where another PCI function or none sits in the place of the Intel
\* controller, and machines whose bus and tiles fail at one alternate of each.
MCSettings ==
  Machines(MCIdentities, MCPanels, {"ours"}, FALSE, 0) \cup
  Machines(MCDoubtful, {[base |-> 6, addr |-> 1, reg |-> 1]}, {"ours"}, FALSE, 0) \cup
  Machines({Zenbook, DeckZenbook}, {[base |-> 2, addr |-> 2, reg |-> 2]},
           {"other", "none"}, FALSE, 0) \cup
  Machines({DeckProArt, DeckZenbook, LegionGo},
           {[base |-> 2, addr |-> 2, reg |-> 2], [base |-> 7, addr |-> 2, reg |-> 2]},
           {"ours"}, TRUE, 1)
MCSlowSettings == Machines(MCIdentities, MCPanels, {"ours"}, TRUE, 0)
=============================================================================
