----------------------------- MODULE AluProofs -----------------------------
(***************************************************************************)
(* Proofs about Alu, for every width of a byte, every register file and    *)
(* every program.                                                          *)
(*                                                                         *)
(*   1. the widths of the two kinds of registers                           *)
(*   2. the registers: what a write leaves to be read                      *)
(*   3. TypeOK is an invariant                                             *)
(*   4. JumpsAgree, from the inductive invariant FlagsTell                 *)
(*   5. WritesAreLocal: what a write leaves alone                          *)
(*   6. ArithmeticIsExact                                                  *)
(***************************************************************************)
EXTENDS Alu, DataFacts, TLAPS

----------------------------------------------------------------------------
(* 1. Widths *)

LEMMA Widths ==
  /\ Size = {"b", "w"}
  /\ M["b"] = 2 * HalfByte /\ M["w"] = M["b"] * M["b"]
  /\ \A s \in Size : /\ M[s] \in Nat \ {0} /\ Bits[s] \in Nat \ {0}
                     /\ \E h \in Nat \ {0} : M[s] = 2 * h
<1>1. Size = {"b", "w"} /\ M["b"] = 2 * HalfByte /\ M["w"] = M["b"] * M["b"]
  BY DEF Size, M
<1>2. M["b"] \in Nat \ {0} /\ \E h \in Nat \ {0} : M["b"] = 2 * h
  BY <1>1, WidthAssumption DEF WidthAssumption
<1>3. M["w"] \in Nat \ {0} /\ \E h \in Nat \ {0} : M["w"] = 2 * h
  <2>1. PICK k \in Nat \ {0} : k = HalfByte
    BY WidthAssumption DEF WidthAssumption
  <2>2. 2 * k * k \in Nat \ {0} /\ M["w"] = 2 * (2 * k * k)
    BY <1>1, <2>1
  <2> QED
    BY <2>2
<1>4. Bits["b"] \in Nat \ {0} /\ Bits["w"] \in Nat \ {0}
  BY WidthAssumption DEF WidthAssumption, Bits
<1> QED
  BY <1>1, <1>2, <1>3, <1>4

LEMMA ShiftAmount ==
  ASSUME NEW s \in Size, NEW y \in Nat
  PROVE  Amount(s, y) \in Nat \ {0}
<1>1. y % Bits[s] \in 0 .. Bits[s] - 1
  <2>1. Bits[s] \in Nat \ {0} /\ y \in Int
    BY Widths
  <2> QED
    BY <2>1, Division
<1>2. Bits[s] \in Nat /\ Bits[s] <= 2 * BITS
  BY Widths, WidthAssumption DEF Bits, WidthAssumption
<1>3. y % Bits[s] \in 0 .. 2 * BITS
  BY <1>1, <1>2, WidthAssumption DEF WidthAssumption
<1> QED
  BY <1>3, WidthAssumption DEF WidthAssumption, Amount

----------------------------------------------------------------------------
(* 2. Registers *)

LEMMA CellTypes ==
  /\ Halved \in Nat /\ Low \in Nat
  /\ \A n \in BReg \ {0} : CellOf(n) \in Cells
  /\ \A n \in BReg : n > 2 * Halved => CellOf(n) + 1 \in Cells
  /\ \A n \in General : LowCell(n) \in Cells /\ HighCell(n) \in Cells
BY InstructionsAssumption
   DEF InstructionsAssumption, CellOf, LowCell, HighCell, BReg, General, Cells

LEMMA ReadType ==
  ASSUME NEW g \in [Cells -> Val("b")], NEW s \in Size, NEW n \in Reg[s]
  PROVE  Read(g, s, n) \in Val(s)
<1>0. 0 \in Val(s) /\ "b" \in Size
  BY Widths DEF Val
<1>1. CASE s = "b"
  <2>1. n \in BReg
    BY <1>1 DEF Reg
  <2> QED
    BY <1>0, <1>1, <2>1, CellTypes DEF Read, ReadByte
<1>2. CASE s = "w"
  <2>1. CASE n \in General
    <3> DEFINE lo == g[LowCell(n)]  hi == g[HighCell(n)]
    <3>1. lo \in 0 .. M["b"] - 1 /\ hi \in 0 .. M["b"] - 1
      BY <2>1, CellTypes DEF Val
    <3> HIDE DEF lo, hi
    <3>2. lo + M["b"] * hi \in 0 .. M["b"] * M["b"] - 1
      <4>1. PICK m \in Nat \ {0} : m = M["b"]
        BY <1>0, Widths
      <4>2. m * hi \in Nat /\ m * hi <= m * (m - 1) /\ m * (m - 1) = m * m - m
        BY <3>1, <4>1
      <4> QED
        BY <3>1, <4>1, <4>2
    <3> QED
      BY <1>2, <2>1, <3>2, Widths DEF Read, ReadWide, Val, lo, hi
  <2>2. CASE n \notin General
    BY <1>0, <1>2, <2>2 DEF Read, ReadWide
  <2> QED
    BY <2>1, <2>2
<1> QED
  BY <1>1, <1>2, Widths

LEMMA WriteType ==
  ASSUME NEW g \in [Cells -> Val("b")], NEW s \in Size, NEW n \in Reg[s], NEW v \in Val(s)
  PROVE  Write(g, s, n, v) \in [Cells -> Val("b")]
<1>0. 0 \in Val("b") /\ M["b"] \in Nat \ {0}
  BY Widths DEF Val
<1>1. CASE s = "b"
  BY <1>0, <1>1 DEF Write, WriteByte
<1>2. CASE s = "w"
  <2>1. v \in Int /\ v \in 0 .. M["b"] * M["b"] - 1
    BY <1>0, <1>2, Widths DEF Val
  <2>2. v % M["b"] \in Val("b") /\ v \div M["b"] \in Val("b")
    BY <1>0, <2>1, Division, QuotientBounded DEF Val
  <2> QED
    BY <1>2, <2>2 DEF Write, WriteWide
<1> QED
  BY <1>1, <1>2, Widths

----------------------------------------------------------------------------
(* 3. Type correctness *)

LEMMA SignedType ==
  ASSUME NEW s \in Size, NEW x \in Val(s)
  PROVE  Signed(s, x) \in Int
BY Widths DEF Signed, Val

LEMMA UnsignedType ==
  ASSUME NEW s \in Size, NEW op \in Binops, NEW x \in Val(s), NEW y \in Val(s)
  PROVE  Unsigned(op, s, x, y).res \in Val(s) /\ Unsigned(op, s, x, y).carry \in BOOLEAN
<1> DEFINE n == M[s]  a == Amount(s, y)
<1>1. n \in Nat \ {0} /\ x \in 0 .. n - 1 /\ y \in 0 .. n - 1
  BY Widths DEF Val
<1>2. a \in Nat \ {0}
  BY <1>1, ShiftAmount
<1>3. \A i \in Int : i % n \in Val(s)
  BY <1>1, Division DEF Val
<1>4. x + y \in Int /\ x - y \in Int
  BY <1>1
<1>5. x * a \in Int
  BY <1>1, <1>2
<1>6. Signed(s, x) \div a \in Int
  BY <1>2, SignedType, Division
<1>7. x \div a \in Val(s)
  <2>1. x \in Nat /\ x \div a \in 0 .. x
    BY <1>1, <1>2, QuotientBelow
  <2> QED
    BY <1>1, <2>1 DEF Val
<1>8. BitAnd(x, y) \in Val(s) /\ BitOr(x, y) \in Val(s) /\ BitXor(x, y) \in Val(s)
  BY BitwiseAssumption DEF BitwiseAssumption
<1> HIDE DEF n, a
<1>9. CASE op \in {"add", "sub"}
  <2>1. (x + y) % n \in Val(s) /\ (x - y) % n \in Val(s)
    BY <1>3, <1>4
  <2>2. (x + y >= n) \in BOOLEAN /\ (x < y) \in BOOLEAN
    OBVIOUS
  <2> QED
    BY <2>1, <2>2, <1>9 DEF Unsigned, n
<1>10. CASE op \in {"and", "or", "xor"}
  BY <1>8, <1>10 DEF Unsigned
<1>11. CASE op \in {"shl", "asr", "lsr"}
  BY <1>3, <1>5, <1>6, <1>7, <1>11 DEF Unsigned, ShiftedLeft, n, a
<1> QED
  BY <1>9, <1>10, <1>11 DEF Binops

\* The fields of an instruction that computes.
LEMMA Operands ==
  ASSUME TypeOK, ins.op \in Binops \cup {"mul", "div", "load"}
  PROVE  /\ ins.size \in Size
         /\ ins.d \in Reg[ins.size] /\ ins.e \in Reg[ins.size]
         /\ ins.a \in Reg[ins.size] /\ ins.b \in Reg[ins.size]
<1>1. ins \in Instructions
  BY DEF TypeOK, Nothing, Binops
<1>2. ~(ins \in [op : Conditions])
  BY DEF Conditions, Binops
<1> QED
  BY <1>1, <1>2, InstructionsAssumption DEF InstructionsAssumption

LEMMA Sources ==
  ASSUME TypeOK, ins.op \in Binops \cup {"mul", "div", "load"}
  PROVE  /\ Read(bytes, ins.size, ins.a) \in Val(ins.size)
         /\ Read(bytes, ins.size, ins.b) \in Val(ins.size)
BY Operands, ReadType DEF TypeOK

LEMMA PairType ==
  ASSUME NEW s \in Size, NEW x \in Val(s), NEW y \in Val(s)
  PROVE  /\ (x * y) \div M[s] \in Val(s) /\ (x * y) % M[s] \in Val(s)
         /\ y # 0 => x \div y \in Val(s) /\ x % y \in Val(s)
<1> DEFINE n == M[s]
<1>1. n \in Nat \ {0} /\ x \in 0 .. n - 1 /\ y \in 0 .. n - 1
  BY Widths DEF Val
<1> HIDE DEF n
<1>2. x * y \in 0 .. n * n - 1
  BY <1>1
<1>3. (x * y) \div n \in 0 .. n - 1
  BY <1>1, <1>2, QuotientBounded
<1>4. (x * y) % n \in 0 .. n - 1
  BY <1>1, <1>2, Division
<1>5. ASSUME y # 0 PROVE x \div y \in 0 .. n - 1 /\ x % y \in 0 .. n - 1
  <2>1. x \in Nat /\ x \in Int /\ y \in Nat \ {0}
    BY <1>1, <1>5
  <2>2. x \div y \in 0 .. x /\ x % y \in 0 .. y - 1
    BY <2>1, QuotientBelow, Division
  <2> QED
    BY <1>1, <2>1, <2>2
<1> QED
  BY <1>3, <1>4, <1>5 DEF Val, n

LEMMA WritePairType ==
  ASSUME TypeOK, ins.op \in {"mul", "div"},
         NEW u \in Val(ins.size), NEW v \in Val(ins.size), WritePair(ins, u, v)
  PROVE  bytes' \in [Cells -> Val("b")] /\ out' \in {"next", "trap"}
<1>1. /\ ins.size \in Size /\ ins.d \in Reg[ins.size] /\ ins.e \in Reg[ins.size]
  BY Operands
<1>2. bytes \in [Cells -> Val("b")]
  BY DEF TypeOK
<1> DEFINE first == Write(bytes, ins.size, ins.d, u)
<1>3. first \in [Cells -> Val("b")]
  BY <1>1, <1>2, WriteType
<1>4. Write(first, ins.size, ins.e, v) \in [Cells -> Val("b")]
  BY <1>1, <1>3, WriteType
<1> QED
  BY <1>2, <1>3, <1>4 DEF WritePair

\* What an instruction may change.
Typed ==
  /\ bytes \in [Cells -> Val("b")] /\ flags \in Flags
  /\ out \in {"next", "jump", "trap", "panic"}
  /\ cmp \in Comparison \cup {None}

LEMMA ExecuteType ==
  ASSUME TypeOK, Execute
  PROVE  Typed'
<1> USE DEF Trap, Typed
<1> DEFINE s == ins.size  x == Read(bytes, s, ins.a)  y == Read(bytes, s, ins.b)
<1>0. ASSUME UNCHANGED <<bytes, flags, cmp>>, out' \in {"next", "jump", "trap", "panic"}
      PROVE  Typed'
  BY <1>0 DEF TypeOK
<1>1. CASE ins.op \in Binops /\ Binop(ins)
  <2>1. s \in Size /\ ins.d \in Reg[s] /\ x \in Val(s) /\ y \in Val(s)
    BY <1>1, Operands, Sources
  <2>2. Unsigned(ins.op, s, x, y).res \in Val(s) /\ Unsigned(ins.op, s, x, y).carry \in BOOLEAN
    BY <1>1, <2>1, UnsignedType
  <2>3. Write(bytes, s, ins.d, Unsigned(ins.op, s, x, y).res) \in [Cells -> Val("b")]
    BY <2>1, <2>2, WriteType DEF TypeOK
  <2>4. SignedOf(ins.op, s, x, y).overflow \in BOOLEAN
    BY DEF SignedOf
  <2>5. BinopFlags(ins.op, s, x, y) \in Flags
    BY <2>2, <2>4 DEF BinopFlags, Flags
  <2>6. Compared(s, x, y) \in Comparison
    BY DEF Compared, Comparison
  <2>7. CASE UNCHANGED <<bytes, flags, cmp>> /\ out' \in {"trap", "panic"}
    BY <1>0, <2>7
  <2>8. CASE /\ flags' = BinopFlags(ins.op, s, x, y)
             /\ cmp' = IF ins.op = "sub" THEN Compared(s, x, y) ELSE None
             /\ \/ bytes' = Write(bytes, s, ins.d, Unsigned(ins.op, s, x, y).res) /\ out' = "next"
                \/ out' = "trap" /\ UNCHANGED bytes
    BY <2>3, <2>5, <2>6, <2>8 DEF TypeOK
  <2> QED
    BY <1>1, <2>7, <2>8 DEF Binop
<1>2. CASE ins.op = "mul" /\ Mul(ins)
  <2>1. s \in Size /\ x \in Val(s) /\ y \in Val(s)
    BY <1>2, Operands, Sources
  <2>2. MulFlags(s, x, y) \in Flags
    BY DEF MulFlags, Flags
  <2>3. CASE SourcesTrap(ins)
    BY <1>0, <1>2, <2>3 DEF Mul
  <2>4. CASE ~SourcesTrap(ins)
    <3>1. /\ flags' = MulFlags(s, x, y) /\ cmp' = None
          /\ WritePair(ins, (x * y) \div M[s], (x * y) % M[s])
      BY <1>2, <2>4 DEF Mul
    <3>2. bytes' \in [Cells -> Val("b")] /\ out' \in {"next", "trap"}
      BY <1>2, <2>1, <3>1, PairType, WritePairType
    <3> QED
      BY <2>2, <3>1, <3>2
  <2> QED
    BY <2>3, <2>4
<1>3. CASE ins.op = "div" /\ Div(ins)
  <2>1. s \in Size /\ x \in Val(s) /\ y \in Val(s)
    BY <1>3, Operands, Sources
  <2>2. CASE SourcesTrap(ins) \/ y = 0
    BY <1>0, <1>3, <2>2 DEF Div
  <2>3. CASE ~(SourcesTrap(ins) \/ y = 0)
    <3>1. UNCHANGED <<flags, cmp>> /\ WritePair(ins, x \div y, x % y)
      BY <1>3, <2>3 DEF Div
    <3>2. bytes' \in [Cells -> Val("b")] /\ out' \in {"next", "trap"}
      BY <1>3, <2>1, <2>3, <3>1, PairType, WritePairType
    <3> QED
      BY <3>1, <3>2 DEF TypeOK
  <2> QED
    BY <2>2, <2>3
<1>4. CASE ins.op = "load" /\ Load(ins)
  <2>1. s \in Size /\ ins.d \in Reg[s]
    BY <1>4, Operands
  <2>2. \A v \in Val(s) : Write(bytes, s, ins.d, v) \in [Cells -> Val("b")]
    BY <2>1, WriteType DEF TypeOK
  <2> QED
    BY <1>0, <1>4, <2>2 DEF Load, TypeOK
<1>5. CASE ins.op \in Conditions /\ Jump(ins)
  BY <1>0, <1>5 DEF Jump
<1> QED
  BY <1>1, <1>2, <1>3, <1>4, <1>5 DEF Execute

LEMMA NextType == TypeOK /\ [Next]_vars => TypeOK'
<1> SUFFICES ASSUME TypeOK, [Next]_vars PROVE TypeOK'
  OBVIOUS
<1>1. CASE \E i \in Instructions : Fetch(i)
  BY <1>1 DEF Fetch, TypeOK
<1>2. CASE Execute
  BY <1>2, ExecuteType DEF Execute, Typed, TypeOK
<1>3. CASE UNCHANGED vars
  BY <1>3 DEF vars, TypeOK
<1> QED
  BY <1>1, <1>2, <1>3 DEF Next

\* Whatever the program computes, a register byte holds a byte.
THEOREM TypeCorrect == Spec => []TypeOK
<1>1. Init => TypeOK
  BY DEF Init, TypeOK, Flags
<1> QED
  BY <1>1, NextType, PTL DEF Spec

----------------------------------------------------------------------------
(* 4. What the conditional jumps decide.  Inductive: the history of the last
   sub and the flags tell the same. *)

FlagsTell ==
  cmp.known =>
    /\ flags.zero <=> cmp.same
    /\ flags.carry <=> cmp.below
    /\ (flags.sign # flags.overflow) <=> cmp.less
    /\ ~(cmp.less /\ cmp.same)

\* A difference that does not fit loses its sign, and only then.
LEMMA SignOfDifference ==
  ASSUME NEW s \in Size, NEW d \in Int, -M[s] < d, d < M[s]
  PROVE  (Wrapped(s, d) < 0 <=> Fits(s, d)) <=> d < 0
<1> DEFINE n == M[s]
<1>1. PICK h \in Nat \ {0} : n = 2 * h
  BY Widths
<1> HIDE DEF n
<1>2. -n < d /\ d < n
  BY DEF n
<1>3. CASE d >= 0
  <2>1. d % n = d
    BY <1>1, <1>2, <1>3, Remainder
  <2> QED
    BY <1>1, <1>2, <1>3, <2>1 DEF Wrapped, Signed, Fits, n
<1>4. CASE d < 0
  <2>1. d \in -n .. -1 /\ n \in Nat \ {0}
    BY <1>1, <1>2, <1>4
  <2>2. d % n = d + n
    BY <2>1, Remainder
  <2> QED
    BY <1>1, <1>2, <1>4, <2>2 DEF Wrapped, Signed, Fits, n
<1> QED
  BY <1>3, <1>4

LEMMA SignedRange ==
  ASSUME NEW s \in Size, NEW x \in Val(s)
  PROVE  /\ Signed(s, x) \in Int
         /\ -M[s] <= 2 * Signed(s, x) /\ 2 * Signed(s, x) < M[s]
BY Widths DEF Signed, Val

LEMMA SubTells ==
  ASSUME NEW s \in Size, NEW x \in Val(s), NEW y \in Val(s)
  PROVE  LET f == BinopFlags("sub", s, x, y)  c == Compared(s, x, y)
         IN  /\ f.zero <=> c.same
             /\ f.carry <=> c.below
             /\ (f.sign # f.overflow) <=> c.less
             /\ ~(c.less /\ c.same)
<1>1. M[s] \in Nat \ {0} /\ x \in 0 .. M[s] - 1 /\ y \in 0 .. M[s] - 1
  BY Widths DEF Val
<1>2. (x - y) % M[s] = 0 <=> x = y
  <2> DEFINE n == M[s]
  <2> HIDE DEF n
  <2>1. ASSUME NEW k \in Nat \ {0}, NEW i \in 0 .. k - 1, NEW j \in 0 .. k - 1
        PROVE  (i - j) % k = 0 <=> i = j
    <3>1. CASE i >= j
      BY <3>1, Remainder
    <3>2. CASE i < j
      <4>1. i - j \in -k .. -1
        BY <3>2
      <4> QED
        BY <3>2, <4>1, Remainder
    <3> QED
      BY <3>1, <3>2
  <2> QED
    BY <1>1, <2>1
<1> DEFINE d == Signed(s, x) - Signed(s, y)
<1>3. (Wrapped(s, d) < 0 <=> Fits(s, d)) <=> d < 0
  <2>1. d \in Int /\ -M[s] < d /\ d < M[s]
    BY <1>1, SignedRange
  <2> QED
    BY <2>1, SignOfDifference
<1>4. d < 0 <=> Signed(s, x) < Signed(s, y)
  BY SignedType
<1>5. Signed(s, x) < Signed(s, y) => x # y
  BY SignedType
<1> DEFINE f == BinopFlags("sub", s, x, y)  c == Compared(s, x, y)
           u == Unsigned("sub", s, x, y)  v == SignedOf("sub", s, x, y)
<1>6. u.res = (x - y) % M[s] /\ (u.carry <=> x < y)
  BY DEF Unsigned
<1>7. v.res = Wrapped(s, d) /\ (v.overflow <=> ~Fits(s, d)) /\ v.overflow \in BOOLEAN
  BY DEF SignedOf, Exactly
<1>8. f = [carry |-> u.carry, overflow |-> v.overflow, sign |-> v.res < 0, zero |-> u.res = 0]
  BY DEF BinopFlags
<1>9. c = [known |-> TRUE, below |-> x < y, same |-> x = y, less |-> Signed(s, x) < Signed(s, y)]
  BY DEF Compared
<1> HIDE DEF f, c, u, v, d
<1>10. (f.carry <=> x < y) /\ (f.zero <=> x = y) /\ (f.sign <=> Wrapped(s, d) < 0)
  BY <1>2, <1>6, <1>7, <1>8
<1>11. (f.overflow <=> ~Fits(s, d)) /\ f.overflow \in BOOLEAN /\ f.sign \in BOOLEAN
  BY <1>7, <1>8
<1>12. (c.below <=> x < y) /\ (c.same <=> x = y) /\ (c.less <=> d < 0)
  BY <1>4, <1>9
<1>13. (f.sign # f.overflow) <=> c.less
  BY <1>3, <1>10, <1>11, <1>12
<1> QED
  BY <1>4, <1>5, <1>10, <1>12, <1>13 DEF f, c

LEMMA NextTells == TypeOK /\ FlagsTell /\ [Next]_vars => FlagsTell'
<1> SUFFICES ASSUME TypeOK, FlagsTell, [Next]_vars PROVE FlagsTell'
  OBVIOUS
<1> USE DEF FlagsTell, Trap
<1>1. CASE UNCHANGED <<flags, cmp>>
  BY <1>1
<1>2. CASE cmp' = None
  BY <1>2 DEF None
<1>3. CASE ins.op \in Binops /\ Binop(ins)
  <2> DEFINE s == ins.size  x == Read(bytes, s, ins.a)  y == Read(bytes, s, ins.b)
  <2>1. CASE UNCHANGED <<flags, cmp>>
    BY <2>1
  <2>2. CASE /\ flags' = BinopFlags(ins.op, s, x, y)
             /\ cmp' = IF ins.op = "sub" THEN Compared(s, x, y) ELSE None
    <3>1. CASE ins.op = "sub"
      <4>1. s \in Size /\ x \in Val(s) /\ y \in Val(s)
        BY <1>3, Operands, Sources
      <4> HIDE DEF s, x, y
      <4>2. flags' = BinopFlags("sub", s, x, y) /\ cmp' = Compared(s, x, y)
        BY <2>2, <3>1
      <4> QED
        BY <4>1, <4>2, SubTells
    <3>2. CASE ins.op # "sub"
      BY <2>2, <3>2, <1>2
    <3> QED
      BY <3>1, <3>2
  <2> QED
    BY <1>3, <2>1, <2>2 DEF Binop
<1>4. CASE Execute
  <2>1. CASE ins.op = "mul" /\ Mul(ins)
    BY <1>1, <1>2, <2>1 DEF Mul
  <2>2. CASE ins.op = "div" /\ Div(ins)
    BY <1>1, <2>2 DEF Div
  <2>3. CASE ins.op = "load" /\ Load(ins)
    BY <1>1, <2>3 DEF Load
  <2>4. CASE ins.op \in Conditions /\ Jump(ins)
    BY <1>1, <2>4 DEF Jump
  <2> QED
    BY <1>3, <1>4, <2>1, <2>2, <2>3, <2>4 DEF Execute
<1>5. CASE (\E i \in Instructions : Fetch(i)) \/ UNCHANGED vars
  BY <1>1, <1>5 DEF Fetch, vars
<1> QED
  BY <1>4, <1>5 DEF Next

LEMMA TellsAgrees == TypeOK /\ FlagsTell => JumpsAgree
<1> SUFFICES ASSUME TypeOK, FlagsTell, cmp.known, NEW j \in Conditions \ {"jo", "jno"}
             PROVE  Taken(j) <=> Meaning(j)
  BY DEF JumpsAgree
<1>1. /\ flags.zero <=> cmp.same
      /\ flags.carry <=> cmp.below
      /\ (flags.sign # flags.overflow) <=> cmp.less
      /\ ~(cmp.less /\ cmp.same)
  BY DEF FlagsTell
<1>2. flags.sign \in BOOLEAN /\ flags.overflow \in BOOLEAN
  BY DEF TypeOK, Flags
<1>3. CASE j \in {"jez", "jnz", "ja", "jae", "jb", "jbe"}
  BY <1>1, <1>3 DEF Taken, Meaning
<1>4. CASE j \in {"jlt", "jle", "jgt", "jge"}
  BY <1>1, <1>2, <1>4 DEF Taken, Meaning
<1> QED
  BY <1>3, <1>4 DEF Conditions

\* After a sub the conditional jumps decide on its operands, as unsigned and as
\* signed numbers of any width, until another instruction sets the flags.
THEOREM JumpsDecideRight == Spec => []JumpsAgree
<1>1. Init => FlagsTell
  BY DEF Init, FlagsTell, None
<1> QED
  BY <1>1, TypeCorrect, NextTells, TellsAgrees, PTL DEF Spec

----------------------------------------------------------------------------
(* 5. What a write leaves alone *)

LEMMA WriteLocal ==
  ASSUME NEW g \in [Cells -> Val("b")], NEW s \in Size, NEW n \in Reg[s], NEW v \in Val(s),
         NEW c \in Cells, Write(g, s, n, v)[c] # g[c]
  PROVE  n # 0 /\ c \in Home(s, n)
<1>1. CASE s = "b"
  <2>1. n \in Nat /\ Halved \in Nat
    BY <1>1, CellTypes DEF Reg, BReg
  <2>2. n > 2 * Halved => n # 0 /\ ~(n <= 2 * Halved)
    BY <2>1
  <2>3. n # 0 /\ (c = CellOf(n) \/ (n > 2 * Halved /\ c = CellOf(n) + 1))
    BY <1>1, <2>2 DEF Write, WriteByte
  <2> QED
    BY <1>1, <2>2, <2>3 DEF Home
<1>2. CASE s = "w"
  <2>1. n \in General /\ c \in {LowCell(n), HighCell(n)}
    BY <1>2 DEF Write, WriteWide
  <2>2. Low \in Nat /\ Halved \in Nat
    BY CellTypes
  <2> QED
    BY <1>2, <2>1, <2>2 DEF General, Home
<1> QED
  BY <1>1, <1>2, Widths

\* A low byte register has its wide register to itself: a byte write clears
\* the high byte, and one to another register does not disturb it.
Cleared(g, n) == n > 2 * Halved => g[CellOf(n) + 1] = 0

LEMMA ByteClears ==
  ASSUME NEW g \in [Cells -> Val("b")], NEW n \in Reg["b"], NEW v \in Val("b")
  PROVE  /\ Cleared(Write(g, "b", n, v), n)
         /\ \A e \in Reg["b"] : Cleared(g, e) => Cleared(Write(g, "b", n, v), e)
<1>1. n \in BReg /\ Halved \in Nat /\ Low \in Nat
  BY CellTypes DEF Reg
<1>2. \A e \in BReg : e > 2 * Halved => CellOf(e) + 1 \in Cells /\ e \in Nat
  BY <1>1, CellTypes DEF BReg
<1>3. \A e \in BReg : e > 2 * Halved /\ CellOf(n) = CellOf(e) + 1 => n = 0
  BY <1>1 DEF CellOf, BReg
<1>4. Write(g, "b", n, v) = WriteByte(g, n, v)
  BY DEF Write
<1>5. n > 2 * Halved => n # 0 /\ CellOf(n) + 1 # CellOf(n)
  BY <1>1 DEF BReg, CellOf
<1>6. Cleared(WriteByte(g, n, v), n)
  BY <1>1, <1>2, <1>5 DEF WriteByte, Cleared
<1>7. ASSUME NEW e \in BReg, Cleared(g, e)
      PROVE  Cleared(WriteByte(g, n, v), e)
  BY <1>2, <1>3, <1>7 DEF WriteByte, Cleared
<1> QED
  BY <1>4, <1>6, <1>7 DEF Reg

LEMMA ClearedView ==
  ASSUME NEW g \in [Cells -> Val("b")], NEW n \in Reg["b"], n > 2 * Halved, Cleared(g, n)
  PROVE  ReadWide(g, n - Halved) = ReadByte(g, n)
<1>1. n \in BReg /\ Halved \in Nat /\ Low \in Nat /\ n # 0
  BY CellTypes DEF Reg, BReg
<1>2. n - Halved \in General /\ LowCell(n - Halved) = CellOf(n)
      /\ HighCell(n - Halved) = CellOf(n) + 1
  BY <1>1 DEF BReg, General, LowCell, HighCell, CellOf
<1>3. g[CellOf(n)] \in Int /\ M["b"] \in Nat
  <2>1. CellOf(n) \in Cells /\ M["b"] \in Nat
    BY <1>1, CellTypes, Widths
  <2> QED
    BY <2>1 DEF Val
<1>4. g[CellOf(n) + 1] = 0
  BY DEF Cleared
<1> QED
  BY <1>1, <1>2, <1>3, <1>4 DEF ReadWide, ReadByte

\* What WritesAreLocal says of an instruction that is not a jump.
Local(i) ==
  /\ \A c \in Cells : bytes'[c] # bytes[c] =>
       \E n \in Targets(i) \ {0} : c \in Home(i.size, n)
  /\ i.size = "b" /\ out' = "next" => \A n \in Targets(i) :
       n > 2 * Halved => ReadWide(bytes', n - Halved) = ReadByte(bytes', n)

LEMMA SingleLocal ==
  ASSUME TypeOK, ins.op \in Binops \cup {"load"},
         NEW v \in Val(ins.size), bytes' = Write(bytes, ins.size, ins.d, v)
  PROVE  Local(ins)
<1>1. ins.size \in Size /\ ins.d \in Reg[ins.size] /\ Targets(ins) = {ins.d}
  BY Operands DEF Targets, Binops
<1>2. bytes \in [Cells -> Val("b")] /\ bytes' \in [Cells -> Val("b")]
  BY <1>1, WriteType DEF TypeOK
<1>3. \A c \in Cells : bytes'[c] # bytes[c] => ins.d # 0 /\ c \in Home(ins.size, ins.d)
  BY <1>1, <1>2, WriteLocal
<1>4. ASSUME ins.size = "b", ins.d > 2 * Halved
      PROVE  ReadWide(bytes', ins.d - Halved) = ReadByte(bytes', ins.d)
  <2>1. Cleared(bytes', ins.d) /\ ins.d \in Reg["b"]
    BY <1>1, <1>2, <1>4, ByteClears
  <2> QED
    BY <1>2, <1>4, <2>1, ClearedView
<1> QED
  BY <1>1, <1>3, <1>4 DEF Local

LEMMA PairLocal ==
  ASSUME TypeOK, ins.op \in {"mul", "div"},
         NEW u \in Val(ins.size), NEW v \in Val(ins.size), WritePair(ins, u, v)
  PROVE  Local(ins)
<1> DEFINE s == ins.size  first == Write(bytes, s, ins.d, u)  last == Write(first, s, ins.e, v)
<1>1. s \in Size /\ ins.d \in Reg[s] /\ ins.e \in Reg[s] /\ Targets(ins) = {ins.d, ins.e}
  BY Operands DEF Targets
<1>2. /\ bytes \in [Cells -> Val("b")] /\ first \in [Cells -> Val("b")]
      /\ last \in [Cells -> Val("b")]
  BY <1>1, WriteType DEF TypeOK
<1>3. \A c \in Cells : first[c] # bytes[c] => ins.d # 0 /\ c \in Home(s, ins.d)
  BY <1>1, <1>2, WriteLocal
<1> HIDE DEF first
<1>4. \A c \in Cells : last[c] # first[c] => ins.e # 0 /\ c \in Home(s, ins.e)
  BY <1>1, <1>2, WriteLocal
<1> HIDE DEF last
<1>5. bytes' \in {bytes, first, last} /\ (out' = "next" => bytes' = last)
  BY DEF WritePair, first, last
<1>6. \A c \in Cells : bytes'[c] # bytes[c] =>
        \E n \in Targets(ins) \ {0} : c \in Home(s, n)
  BY <1>1, <1>3, <1>4, <1>5
<1>7. ASSUME s = "b", out' = "next", NEW n \in Targets(ins), n > 2 * Halved
      PROVE  ReadWide(bytes', n - Halved) = ReadByte(bytes', n)
  <2>1. ins.d \in Reg["b"] /\ ins.e \in Reg["b"] /\ n \in {ins.d, ins.e}
    BY <1>1, <1>7
  <2>2. Cleared(first, ins.d)
    BY <1>2, <1>7, <2>1, ByteClears DEF first
  <2>3. Cleared(last, ins.d) /\ Cleared(last, ins.e)
    BY <1>2, <1>7, <2>1, <2>2, ByteClears DEF last
  <2>4. Cleared(bytes', n) /\ bytes' \in [Cells -> Val("b")]
    BY <1>2, <1>5, <1>7, <2>1, <2>3
  <2> QED
    BY <1>7, <2>1, <2>4, ClearedView
<1> QED
  BY <1>6, <1>7 DEF Local

LEMMA StepLocal ==
  ASSUME TypeOK, Next
  PROVE  IF ins.op \in Conditions \cup {"nothing"} \/ (out' = "trap" /\ ins.op \notin {"mul", "div"})
         THEN UNCHANGED bytes
         ELSE Local(ins)
<1> DEFINE s == ins.size  x == Read(bytes, s, ins.a)  y == Read(bytes, s, ins.b)
<1> USE DEF Trap
<1>0. ASSUME UNCHANGED bytes, out' # "next" PROVE Local(ins)
  BY <1>0 DEF Local
<1>1. CASE \E i \in Instructions : Fetch(i)
  BY <1>1 DEF Fetch, Nothing
<1>2. CASE ins.op \in Binops /\ Binop(ins)
  <2>1. s \in Size /\ x \in Val(s) /\ y \in Val(s)
    BY <1>2, Operands, Sources
  <2>2. Unsigned(ins.op, s, x, y).res \in Val(s)
    BY <1>2, <2>1, UnsignedType
  <2>3. ins.op \notin Conditions \cup {"nothing", "mul", "div"}
    BY <1>2 DEF Binops, Conditions
  <2>4. CASE out' # "next" /\ UNCHANGED bytes
    BY <1>0, <2>3, <2>4
  <2>5. CASE out' = "next" /\ bytes' = Write(bytes, s, ins.d, Unsigned(ins.op, s, x, y).res)
    BY <1>2, <2>2, <2>3, <2>5, SingleLocal
  <2> QED
    BY <1>2, <2>4, <2>5 DEF Binop
<1>3. CASE ins.op = "mul" /\ Mul(ins)
  <2>1. s \in Size /\ x \in Val(s) /\ y \in Val(s)
    BY <1>3, Operands, Sources
  <2>2. CASE SourcesTrap(ins)
    BY <1>0, <1>3, <2>2 DEF Mul, Conditions
  <2>3. CASE ~SourcesTrap(ins)
    <3>1. WritePair(ins, (x * y) \div M[s], (x * y) % M[s])
      BY <1>3, <2>3 DEF Mul
    <3>2. Local(ins)
      BY <1>3, <2>1, <3>1, PairType, PairLocal
    <3> QED
      BY <1>3, <3>2 DEF Conditions
  <2> QED
    BY <2>2, <2>3
<1>4. CASE ins.op = "div" /\ Div(ins)
  <2>1. s \in Size /\ x \in Val(s) /\ y \in Val(s)
    BY <1>4, Operands, Sources
  <2>2. CASE SourcesTrap(ins) \/ y = 0
    BY <1>0, <1>4, <2>2 DEF Div, Conditions
  <2>3. CASE ~(SourcesTrap(ins) \/ y = 0)
    <3>1. WritePair(ins, x \div y, x % y)
      BY <1>4, <2>3 DEF Div
    <3>2. Local(ins)
      BY <1>4, <2>1, <2>3, <3>1, PairType, PairLocal
    <3> QED
      BY <1>4, <3>2 DEF Conditions
  <2> QED
    BY <2>2, <2>3
<1>5. CASE ins.op = "load" /\ Load(ins)
  <2>1. CASE Readable(s, ins.d)
    BY <1>5, <2>1, SingleLocal DEF Load, Conditions
  <2>2. CASE ~Readable(s, ins.d)
    BY <1>5, <2>2 DEF Load, Conditions
  <2> QED
    BY <2>1, <2>2
<1>6. CASE ins.op \in Conditions /\ Jump(ins)
  BY <1>6 DEF Jump
<1> QED
  BY <1>1, <1>2, <1>3, <1>4, <1>5, <1>6 DEF Next, Execute

\* No instruction reaches a register that is not its target, through any view
\* of the register file.
THEOREM RegistersAreSeparate == Spec => WritesAreLocal
<1>1. TypeOK /\ [Next]_vars =>
        [IF ins.op \in Conditions \cup {"nothing"} \/ (out' = "trap" /\ ins.op \notin {"mul", "div"})
         THEN UNCHANGED bytes ELSE Local(ins)]_vars
  BY StepLocal
<1> QED
  BY <1>1, TypeCorrect, PTL DEF Spec, WritesAreLocal, Local

----------------------------------------------------------------------------
(* 6. The exact numbers *)

\* What is written is what is read back.
LEMMA ReadWritten ==
  ASSUME NEW g \in [Cells -> Val("b")], NEW s \in Size, NEW n \in Reg[s], n # 0,
         Readable(s, n), NEW v \in Val(s)
  PROVE  Read(Write(g, s, n, v), s, n) = v
<1>1. CASE s = "b"
  BY <1>1, CellTypes DEF Reg, Read, ReadByte, Write, WriteByte
<1>2. CASE s = "w"
  <2>1. n \in General
    BY <1>2 DEF Reg, WReg, Readable
  <2>2. LowCell(n) \in Cells /\ HighCell(n) \in Cells /\ LowCell(n) # HighCell(n)
    BY <2>1, CellTypes DEF General, LowCell, HighCell
  <2>3. v \in Int /\ M["b"] \in Nat \ {0} /\ "b" \in Size
    BY <1>2, Widths DEF Val
  <2>4. v = M["b"] * (v \div M["b"]) + (v % M["b"])
        /\ v \div M["b"] \in Int /\ v % M["b"] \in Int
    <3>1. \A k \in Nat \ {0} : v = k * (v \div k) + (v % k)
                              /\ v \div k \in Int /\ v % k \in Int
      BY <2>3, Division
    <3> QED
      BY <2>3, <3>1
  <2>5. ReadWide(WriteWide(g, n, v), n) = (v % M["b"]) + M["b"] * (v \div M["b"])
    BY <2>1, <2>2 DEF ReadWide, WriteWide
  <2>6. \A p, q \in Int : p + q = q + p
    OBVIOUS
  <2>7. M["b"] * (v \div M["b"]) \in Int
    BY <2>3, <2>4
  <2> QED
    BY <1>2, <2>4, <2>5, <2>6, <2>7 DEF Read, Write
<1> QED
  BY <1>1, <1>2, Widths

\* Registers without a common cell do not disturb each other.
LEMMA ReadOther ==
  ASSUME NEW g \in [Cells -> Val("b")], NEW i, NEW v, i.size \in Size, Separate(i),
         i.d \in Reg[i.size], i.e \in Reg[i.size]
  PROVE  Read(Write(g, i.size, i.e, v), i.size, i.d) = Read(g, i.size, i.d)
<1> DEFINE d == i.d  e == i.e
<1>0. Halved \in Nat /\ Low \in Nat /\ d # 0 /\ e # 0
  BY CellTypes DEF Separate
<1>1. CASE i.size = "b"
  <2>1. d \in BReg /\ e \in BReg /\ CellOf(d) # CellOf(e) /\ CellOf(d) \in Cells
    BY <1>0, <1>1, CellTypes DEF Separate, Reg
  <2>2. e > 2 * Halved => CellOf(d) # CellOf(e) + 1
    BY <1>0, <2>1 DEF CellOf, BReg
  <2> QED
    BY <1>0, <1>1, <2>1, <2>2 DEF Read, ReadByte, Write, WriteByte
<1>2. CASE i.size = "w"
  <2>1. CASE d \in General
    <3>1. LowCell(d) \in Cells /\ HighCell(d) \in Cells
      BY <2>1, CellTypes
    <3>2. e \in General => {LowCell(d), HighCell(d)} \cap {LowCell(e), HighCell(e)} = {}
      BY <1>0, <1>2, <2>1 DEF Separate, General, LowCell, HighCell
    <3> QED
      BY <1>2, <2>1, <3>1, <3>2 DEF Read, ReadWide, Write, WriteWide
  <2>2. CASE d \notin General
    BY <1>2, <2>2 DEF Read, ReadWide
  <2> QED
    BY <2>1, <2>2
<1> QED
  BY <1>1, <1>2, Widths

\* The sum or difference of the signed numbers is that of the unsigned ones,
\* but for a multiple of the number of values.
LEMMA SameBits ==
  ASSUME NEW s \in Size, NEW op \in {"add", "sub"}, NEW x \in Val(s), NEW y \in Val(s)
  PROVE  /\ Exactly(op, s, x, y) \in Int
         /\ Unsigned(op, s, x, y).res = Exactly(op, s, x, y) % M[s]
<1> DEFINE n == M[s]  e == Exactly(op, s, x, y)  o == IF op = "add" THEN x + y ELSE x - y
<1>1. n \in Nat \ {0} /\ x \in 0 .. n - 1 /\ y \in 0 .. n - 1
  BY Widths DEF Val
<1>2. e \in Int
  BY SignedType DEF Exactly
<1>3. \E k \in -2 .. 2 : o = e + k * n
  <2>1. Signed(s, x) = x \/ Signed(s, x) = x - n
    BY DEF Signed
  <2>2. Signed(s, y) = y \/ Signed(s, y) = y - n
    BY DEF Signed
  <2>3. CASE op = "add"
    <3>0. e = Signed(s, x) + Signed(s, y)
      BY <2>3 DEF Exactly
    <3> HIDE DEF n, e
    <3>1. CASE Signed(s, x) = x /\ Signed(s, y) = y
      BY <1>1, <2>3, <3>0, <3>1
    <3>2. CASE Signed(s, x) = x - n /\ Signed(s, y) = y - n
      BY <1>1, <2>3, <3>0, <3>2
    <3> QED
      BY <1>1, <2>1, <2>2, <2>3, <3>0, <3>1, <3>2
  <2>4. CASE op = "sub"
    <3>0. e = Signed(s, x) - Signed(s, y)
      BY <2>4 DEF Exactly
    <3> HIDE DEF n, e
    <3> QED
      BY <1>1, <2>1, <2>2, <2>4, <3>0
  <2> QED
    BY <2>3, <2>4
<1>4. Unsigned(op, s, x, y).res = o % n
  BY DEF Unsigned
<1> HIDE DEF n, e, o
<1>5. PICK k \in Int : o = e + k * n
  BY <1>3
<1>6. o % n = e % n
  BY <1>1, <1>2, <1>5, Congruence
<1> QED
  BY <1>2, <1>4, <1>6 DEF n, e

LEMMA AddSubExact ==
  ASSUME NEW s \in Size, NEW op \in {"add", "sub"}, NEW x \in Val(s), NEW y \in Val(s)
  PROVE  LET f == BinopFlags(op, s, x, y)  r == Unsigned(op, s, x, y).res
             exact == Exactly(op, s, x, y)
         IN  /\ f.overflow <=> Signed(s, r) # exact
             /\ f.carry <=> r # IF op = "add" THEN x + y ELSE x - y
             /\ f.sign <=> Signed(s, r) < 0
             /\ (r - exact) % M[s] = 0
<1> DEFINE n == M[s]  exact == Exactly(op, s, x, y)  r == Unsigned(op, s, x, y).res
           f == BinopFlags(op, s, x, y)  o == IF op = "add" THEN x + y ELSE x - y
<1>1. n \in Nat \ {0} /\ x \in 0 .. n - 1 /\ y \in 0 .. n - 1
  BY Widths DEF Val
<1>2. exact \in Int /\ r = exact % n
  BY SameBits
<1>3. Wrapped(s, exact) = Signed(s, r)
  BY <1>2 DEF Wrapped
<1>4. f.sign <=> Signed(s, r) < 0
  BY <1>3 DEF BinopFlags, SignedOf
<1>5. f.overflow <=> ~Fits(s, exact)
  BY DEF BinopFlags, SignedOf
<1>6. f.carry <=> r # o
  <2>1. CASE op = "add"
    <3>1. r = (x + y) % n /\ (f.carry <=> x + y >= n)
      BY <2>1 DEF BinopFlags, Unsigned
    <3> HIDE DEF n, r, f
    <3>2. CASE x + y >= n
      <4>1. x + y \in n .. 2 * n - 1 /\ x + y \in Int
        BY <1>1, <3>2
      <4>2. (x + y) % n = x + y - n
        <5>1. PICK t \in Int : t = x + y
          BY <4>1
        <5>2. t % n = t - n
          BY <1>1, <4>1, <5>1, Remainder
        <5> QED
          BY <1>1, <5>1, <5>2
      <4>3. r # x + y
        BY <1>1, <3>1, <4>1, <4>2
      <4> QED
        BY <2>1, <3>1, <3>2, <4>3
    <3>3. CASE ~(x + y >= n)
      <4>1. x + y \in 0 .. n - 1 /\ x + y \in Int
        BY <1>1, <3>3
      <4>2. (x + y) % n = x + y
        BY <1>1, <4>1, Remainder
      <4> QED
        BY <2>1, <3>1, <3>3, <4>2
    <3> QED
      BY <3>2, <3>3
  <2>2. CASE op = "sub"
    <3>1. r = (x - y) % n /\ (f.carry <=> x < y)
      BY <2>2 DEF BinopFlags, Unsigned
    <3> HIDE DEF n, r, f
    <3>2. CASE x < y
      <4>1. x - y \in -n .. -1 /\ x - y \in Int
        BY <1>1, <3>2
      <4>2. (x - y) % n = x - y + n
        BY <1>1, <4>1, Remainder
      <4>3. r # x - y
        BY <1>1, <3>1, <4>1, <4>2
      <4> QED
        BY <2>2, <3>1, <3>2, <4>3
    <3>3. CASE ~(x < y)
      <4>1. x - y \in 0 .. n - 1 /\ x - y \in Int
        BY <1>1, <3>3
      <4>2. (x - y) % n = x - y
        BY <1>1, <4>1, Remainder
      <4> QED
        BY <2>2, <3>1, <3>3, <4>2
    <3> QED
      BY <3>2, <3>3
  <2> QED
    BY <2>1, <2>2
<1>7. (r - exact) % n = 0
  <2> HIDE DEF n, r, exact
  <2> QED
    BY <1>1, <1>2, Congruence
<1>8. Signed(s, r) = exact <=> Fits(s, exact)
  <2>1. PICK h \in Nat \ {0} : n = 2 * h
    BY Widths
  <2>3. exact >= -n /\ exact < n
    <3>1. /\ Signed(s, x) \in Int /\ -n <= 2 * Signed(s, x) /\ 2 * Signed(s, x) < n
          /\ Signed(s, y) \in Int /\ -n <= 2 * Signed(s, y) /\ 2 * Signed(s, y) < n
      BY SignedRange
    <3> HIDE DEF n
    <3> QED
      BY <1>1, <2>1, <3>1 DEF Exactly
  <2> HIDE DEF n, exact, r
  <2>4. CASE exact >= 0
    <3>1. exact \in 0 .. n - 1
      BY <1>1, <1>2, <2>3, <2>4
    <3>2. r = exact
      BY <1>1, <1>2, <3>1, Remainder
    <3> QED
      BY <2>1, <3>1, <3>2 DEF Signed, Fits, n
  <2>5. CASE exact < 0
    <3>1. exact \in -n .. -1
      BY <1>1, <1>2, <2>3, <2>5
    <3>2. r = exact + n
      BY <1>1, <1>2, <3>1, Remainder
    <3> QED
      BY <2>1, <3>1, <3>2 DEF Signed, Fits, n
  <2> QED
    BY <1>2, <2>4, <2>5
<1> QED
  BY <1>4, <1>5, <1>6, <1>7, <1>8

\* The pair of results is read back from the two targets.
LEMMA PairRead ==
  ASSUME TypeOK, ins.op \in {"mul", "div"}, out' = "next",
         NEW u \in Val(ins.size), NEW v \in Val(ins.size), WritePair(ins, u, v)
  PROVE  /\ ins.e # 0 => Read(bytes', ins.size, ins.e) = v
         /\ Separate(ins) => Read(bytes', ins.size, ins.d) = u
<1> DEFINE s == ins.size  first == Write(bytes, s, ins.d, u)
<1>1. s \in Size /\ ins.d \in Reg[s] /\ ins.e \in Reg[s]
  BY Operands
<1>2. bytes \in [Cells -> Val("b")] /\ first \in [Cells -> Val("b")]
  BY <1>1, WriteType DEF TypeOK
<1>3. /\ Readable(s, ins.d) /\ Readable(s, ins.e)
      /\ bytes' = Write(first, s, ins.e, v)
  BY DEF WritePair
<1>4. ins.d # 0 => Read(first, s, ins.d) = u
  BY <1>1, <1>2, <1>3, ReadWritten
<1> HIDE DEF first
<1>5. ins.e # 0 => Read(bytes', s, ins.e) = v
  BY <1>1, <1>2, <1>3, ReadWritten
<1>6. Separate(ins) => Read(bytes', s, ins.d) = Read(first, s, ins.d)
  BY <1>1, <1>2, <1>3, ReadOther
<1> QED
  BY <1>4, <1>5, <1>6 DEF Separate

LEMMA StepExact == TypeOK /\ Next /\ ins # Nothing /\ out' = "next" => Exact(ins)
<1> SUFFICES ASSUME TypeOK, Next, ins # Nothing, out' = "next" PROVE Exact(ins)
  OBVIOUS
<1> DEFINE s == ins.size  x == Read(bytes, s, ins.a)  y == Read(bytes, s, ins.b)
           m == M[s]      r == Read(bytes', s, ins.d) q == Read(bytes', s, ins.e)
<1> USE DEF Trap
<1>0. Execute
  BY DEF Next, Fetch
<1>1. CASE ins.op \in Binops /\ Binop(ins)
  <2>1. s \in Size /\ x \in Val(s) /\ y \in Val(s) /\ ins.d \in Reg[s]
    BY <1>1, Operands, Sources
  <2>2. Unsigned(ins.op, s, x, y).res \in Val(s)
    BY <1>1, <2>1, UnsignedType
  <2>3. /\ flags' = BinopFlags(ins.op, s, x, y) /\ Readable(s, ins.d)
        /\ bytes' = Write(bytes, s, ins.d, Unsigned(ins.op, s, x, y).res)
    BY <1>1 DEF Binop
  <2>4. CASE ins.op \in {"add", "sub"} /\ ins.d # 0
    <3>1. r = Unsigned(ins.op, s, x, y).res
      BY <2>1, <2>2, <2>3, <2>4, ReadWritten DEF TypeOK
    <3> HIDE DEF s, x, y, r
    <3>2. /\ flags'.overflow <=> Signed(s, r) # Exactly(ins.op, s, x, y)
          /\ flags'.carry <=> r # IF ins.op = "add" THEN x + y ELSE x - y
          /\ flags'.sign <=> Signed(s, r) < 0
          /\ (r - Exactly(ins.op, s, x, y)) % M[s] = 0
      BY <2>1, <2>3, <2>4, <3>1, AddSubExact
    <3> QED
      BY <2>4, <3>2 DEF Exact, Conditions, s, x, y, r
  <2>5. CASE ~(ins.op \in {"add", "sub"} /\ ins.d # 0)
    BY <1>1, <2>5 DEF Exact, Conditions, Binops
  <2> QED
    BY <2>4, <2>5
<1>2. CASE ins.op = "mul" /\ Mul(ins)
  <2>1. s \in Size /\ x \in Val(s) /\ y \in Val(s)
    BY <1>2, Operands, Sources
  <2>2. flags' = MulFlags(s, x, y) /\ WritePair(ins, (x * y) \div m, (x * y) % m)
    BY <1>2 DEF Mul
  <2>3. Separate(ins) => r = (x * y) \div m /\ q = (x * y) % m
    BY <1>2, <2>1, <2>2, PairType, PairRead DEF Separate
  <2>4. flags'.carry <=> x * y >= m
    BY <2>2 DEF MulFlags
  <2>5. m \in Nat \ {0} /\ x \in Nat /\ y \in Nat
    BY <2>1, Widths DEF Val
  <2> HIDE DEF s, x, y, m, r, q
  <2>6. Separate(ins) => r * m + q = x * y /\ (flags'.carry <=> r # 0)
    <3> SUFFICES ASSUME Separate(ins) PROVE r * m + q = x * y /\ (flags'.carry <=> r # 0)
      OBVIOUS
    <3>1. x * y \in Nat
      BY <2>5
    <3>2. r \in Int /\ q \in 0 .. m - 1 /\ x * y = m * r + q
      <4>1. \A a \in Nat : /\ a \div m \in Int /\ a % m \in 0 .. m - 1
                          /\ a = m * (a \div m) + (a % m)
        BY <2>5, Division
      <4> QED
        BY <2>3, <3>1, <4>1
    <3>3. r \in Nat
      BY <2>3, <2>5, <3>1, QuotientBelow
    <3>4. r # 0 => m * r >= m
      BY <2>5, <3>3
    <3>5. x * y >= m <=> r # 0
      <4>1. CASE r = 0
        BY <2>5, <3>2, <4>1
      <4>2. CASE r # 0
        <5>1. m * r \in Nat
          BY <2>5, <3>3
        <5> QED
          BY <2>5, <3>2, <3>4, <4>2, <5>1
      <4> QED
        BY <4>1, <4>2
    <3>6. r * m = m * r /\ m * r \in Nat
      BY <2>5, <3>3
    <3> QED
      BY <2>4, <3>2, <3>5, <3>6
  <2> QED
    BY <1>2, <2>6 DEF Exact, Conditions, s, x, y, m, r, q
<1>3. CASE ins.op = "div" /\ Div(ins)
  <2>1. s \in Size /\ x \in Val(s) /\ y \in Val(s)
    BY <1>3, Operands, Sources
  <2>2. y # 0 /\ WritePair(ins, x \div y, x % y)
    BY <1>3 DEF Div
  <2>3. ins.e # 0 => q = x % y
    BY <1>3, <2>1, <2>2, PairType, PairRead
  <2>4. Separate(ins) => ins.e # 0 /\ r = x \div y
    BY <1>3, <2>1, <2>2, PairType, PairRead DEF Separate
  <2>5. x \in Nat /\ x \in Int /\ y \in Nat \ {0}
    BY <2>1, <2>2, Widths DEF Val
  <2> HIDE DEF s, x, y, r, q
  <2>6. Separate(ins) => r * y + q = x /\ q < y
    <3>1. /\ x \div y \in Int /\ x % y \in 0 .. y - 1
          /\ x = y * (x \div y) + (x % y)
      BY <2>5, Division
    <3>2. y * (x \div y) = (x \div y) * y /\ y * (x \div y) \in Int
      BY <2>5, <3>1
    <3> QED
      BY <2>3, <2>4, <2>5, <3>1, <3>2
  <2> QED
    BY <1>3, <2>3, <2>6 DEF Exact, Conditions, s, x, y, r, q
<1>4. CASE ins.op = "load"
  BY <1>4 DEF Exact, Conditions
<1>5. CASE ins.op \in Conditions
  BY <1>5 DEF Exact, Conditions
<1> QED
  BY <1>0, <1>1, <1>2, <1>3, <1>4, <1>5 DEF Execute

\* Targets and flags together hold the exact result of every add, sub, mul and
\* div, whatever registers the operands share and however wide a byte is.
THEOREM ResultsAreExact == Spec => ArithmeticIsExact
BY TypeCorrect, StepExact, PTL DEF Spec, ArithmeticIsExact
=============================================================================
