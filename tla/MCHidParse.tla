------------------------------ MODULE MCHidParse -------------------------------
(* TLC instance of HidParse.  Numbers are scaled: a byte of item data has  *)
(* two bits (so 32 bits are 8, a usage page has 4), a report byte keeps 8. *)
EXTENDS HidDescriptor

MCWidth == [n \in {0, 1, 2, 4} |-> 2^(2 * n)]
MCTip == 13 * 16 + 2
MCX == 1 * 16 + 3
MCY == 1 * 16 + 4

It(tag, raw, bytes) == [tag |-> tag, raw |-> raw, bytes |-> bytes]
Shape(size, count) == <<It("size", size, 2), It("count", count, 2)>>
Input == It("input", 0, 1)

MCFragments == {
  \* tip, and X and Y, as usages, as a range, and with usages of 4 bytes; a page
  \* wider than its 16 bits, which wraps to that of X and Y
  <<It("page", 13, 2), It("usage", 2, 1)>> \o Shape(1, 1) \o <<Input>>,
  <<It("page", 17, 4), It("usage", 3, 1), It("usage", 4, 2), It("max", 15, 2)>>
     \o Shape(4, 2) \o <<Input>>,
  <<It("usageMin", MCX, 4), It("usageMax", MCY, 4), It("min", 0, 0), It("max", 3, 1)>>
     \o Shape(3, 3) \o <<Input>>,
  <<It("usage", MCTip, 4), It("usage", MCY, 4), It("usage", MCX, 4), It("max", 40, 4)>>
     \o Shape(5, 3) \o <<Input>>,
  \* more usages than are kept
  <<It("usage", 0, 4), It("usage", MCX, 4), It("usage", MCY, 4), It("usage", MCTip, 4)>>
     \o Shape(2, 4) \o <<Input>>,
  \* report IDs, and Push / Pop
  <<It("id", 1, 1)>>, <<It("id", 2, 1), Input>>, <<It("push", 0, 0)>>, <<It("pop", 0, 0)>>,
  \* padding, an empty item, and one whose product wraps to nothing
  Shape(3, 1) \o <<Input>>, <<It("count", 0, 0), Input>>,
  Shape(11, 2) \o <<Input>>, <<It("size", 16, 4), It("count", 16, 4), Input>>,
  \* usages that belong to an Output item, or to nothing yet; a long item
  <<It("page", 13, 2), It("usage", 2, 1), It("main", 0, 1)>>,
  <<It("min", 3, 1), It("usage", MCX, 4), It("usage", MCY, 4), It("other", 0, 2)>> }

Rep(len, a, b, c) == [len |-> len, data |-> <<a, b, c>>]
MCReports == {Rep(5, 2, 181, 94), Rep(4, 1, 255, 255), Rep(3, 203, 255, 255),
              Rep(2, 255, 255, 255), Rep(6, 255, 255, 255)}
===============================================================================
