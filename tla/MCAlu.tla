------------------------------- MODULE MCAlu -------------------------------
(* Bytes of two bits, one halved and one low register, and a program with an
   instruction for each operation and for each way to share a register. *)
EXTENDS Alu, Bitwise

MCAnd(x, y) == x & y
MCOr(x, y) == x | y
MCXor(x, y) == x ^^ y

Ins(op, s, d, e, a, b) == [op |-> op, size |-> s, d |-> d, e |-> e, a |-> a, b |-> b]

\* wide: 1 is halved, 2 is not; byte: 1 and 2 are the halves of 1, 3 is in 2
Computing ==
  { Ins(op, "w", 1, 0, 1, 2) : op \in Binops } \cup
  { Ins(op, "b", 3, 0, 1, 2) : op \in Binops } \cup
  { Ins("sub", "w", 0, 0, 2, 1), Ins("sub", "b", 2, 0, 3, 1), Ins("sub", "w", Priv, 0, 1, 2),
    Ins("add", "w", 2, 0, Priv, 1), Ins("add", "b", 1, 0, 1, 1) }
Pairs ==
  { Ins(op, s, d[1], d[2], d[3], d[4]) :
      op \in {"mul", "div"}, s \in Size, d \in {<<1, 2, 1, 2>>, <<2, 2, 1, 2>>, <<2, 1, 0, 2>>} } \cup
  { Ins("mul", "w", 1, Priv, 1, 2), Ins("mul", "b", 3, 1, 2, 3), Ins("div", "b", 1, 3, 2, 3) }
Loads == { Ins("load", "w", 1, 0, 0, 0), Ins("load", "w", Priv, 0, 0, 0) } \cup
         { Ins("load", "b", n, 0, 0, 0) : n \in 0 .. 3 }

MCInstructions == Computing \cup Pairs \cup Loads \cup [op : Conditions]
=============================================================================
