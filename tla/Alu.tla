-------------------------------- MODULE Alu --------------------------------
(***************************************************************************)
(* The arithmetic of blf4: the general registers with their byte views,    *)
(* the instructions that compute, the four flags they set, and the jumps   *)
(* that read them (src/blf4/isa/handlers.rs, the registers of              *)
(* src/blf4/mod.rs).  The processor is in user mode, so that the registers *)
(* rp and rh (here one, Priv) can be neither read nor written.             *)
(***************************************************************************)
EXTENDS Integers

CONSTANTS
  BITS,            \* bits in a byte, 8 in the code
  HalfByte,        \* 2^(BITS - 1)
  Halved,          \* wide registers with a byte register for either half, 5
  Low,             \* wide registers with one for the low byte only, 5
  OverflowChecks,  \* a build that panics when a shift is too wide
  BitAnd(_, _), BitOr(_, _), BitXor(_, _),
  Instructions     \* the instructions of the program

M == [b |-> 2 * HalfByte, w |-> (2 * HalfByte) * (2 * HalfByte)]
Bits == [b |-> BITS, w |-> 2 * BITS]
Size == DOMAIN M
Val(s) == 0 .. M[s] - 1

\* Halves are powers of two, and so is the number of bits.
WidthAssumption ==
  /\ BITS \in Nat \ {0} /\ HalfByte \in Nat \ {0} /\ 2 * HalfByte = 2 ^ BITS
  /\ \A k \in 0 .. 2 * BITS : 2 ^ k \in Nat \ {0}
  /\ OverflowChecks \in BOOLEAN
ASSUME WidthAssumption

BitwiseAssumption ==
  \A s \in Size : \A x, y \in Val(s) :
    BitAnd(x, y) \in Val(s) /\ BitOr(x, y) \in Val(s) /\ BitXor(x, y) \in Val(s)
ASSUME BitwiseAssumption

----------------------------------------------------------------------------
(* Registers: 0 is r0 or r0b, Priv is rp or rh. *)

Priv == 14
General == 1 .. Halved + Low
WReg == {0, Priv} \cup General
BReg == 0 .. 2 * Halved + Low
Reg == [b |-> BReg, w |-> WReg]

Binops == {"add", "sub", "and", "or", "xor", "shl", "asr", "lsr"}
Conditions == {"jez", "jnz", "jlt", "jle", "jgt", "jge", "jo", "jno", "ja", "jae", "jb", "jbe"}

\* An instruction: what it does, on which width, its targets and its sources.
Instruction ==
  (UNION { [op : Binops \cup {"mul", "div", "load"}, size : {s},
            d : Reg[s], e : Reg[s], a : Reg[s], b : Reg[s]] : s \in Size })
  \cup [op : Conditions]

InstructionsAssumption ==
  /\ Halved \in Nat /\ Low \in Nat /\ Halved + Low < Priv
  /\ \A i \in Instructions :
       \/ i \in [op : Conditions]
       \/ /\ DOMAIN i = {"op", "size", "d", "e", "a", "b"}
          /\ i.op \in Binops \cup {"mul", "div", "load"} /\ i.size \in Size
          /\ {i.d, i.e, i.a, i.b} \subseteq Reg[i.size]
ASSUME InstructionsAssumption

VARIABLES
  bytes,  \* general_purposes
  flags,  \* carry, overflow, sign and zero
  ins,    \* the instruction fetched, or Nothing
  out,    \* what the last instruction did: went on, jumped, trapped, panicked
  cmp     \* history: how the operands compared if a sub has set the flags

vars == <<bytes, flags, ins, out, cmp>>

Nothing == [op |-> "nothing"]

Cells == 0 .. 2 * (Halved + Low) - 1
Flags == [carry : BOOLEAN, overflow : BOOLEAN, sign : BOOLEAN, zero : BOOLEAN]

\* What is known of two operands; a history, not in the code.
None == [known |-> FALSE]
Comparison == [known : {TRUE}, below : BOOLEAN, same : BOOLEAN, less : BOOLEAN]

Init ==
  /\ bytes \in [Cells -> Val("b")]   \* thread_rng
  /\ flags = [carry |-> FALSE, overflow |-> FALSE, sign |-> FALSE, zero |-> FALSE]
  /\ ins = Nothing
  /\ out = "next"
  /\ cmp = None

\* The cell of a byte register: the two halves of the first wide registers
\* follow each other, the others have one for the low half only.
CellOf(n) == IF n <= 2 * Halved THEN n - 1 ELSE 2 * Halved + 2 * (n - 2 * Halved - 1)
LowCell(n) == 2 * (n - 1)
HighCell(n) == LowCell(n) + 1

\* read_br and read_wr
Readable(s, n) == s = "w" => n # Priv
ReadWide(g, n) == IF n \in General THEN g[LowCell(n)] + M["b"] * g[HighCell(n)] ELSE 0
ReadByte(g, n) == IF n = 0 THEN 0 ELSE g[CellOf(n)]
Read(g, s, n) == IF s = "b" THEN ReadByte(g, n) ELSE ReadWide(g, n)

\* write_br: a byte register without a partner clears the high byte.
WriteByteKeeping(g, n, v) ==   \* faulty variant: the high byte is left alone
  [c \in Cells |-> IF n # 0 /\ c = CellOf(n) THEN v ELSE g[c]]
WriteByte(g, n, v) ==
  [c \in Cells |->
     IF n # 0 /\ c = CellOf(n) THEN v
     ELSE IF n > 2 * Halved /\ c = CellOf(n) + 1 THEN 0 ELSE g[c]]

\* write_wr, of a register that may be written
WriteWide(g, n, v) ==
  [c \in Cells |->
     CASE n \in General /\ c = LowCell(n)  -> v % M["b"]
       [] n \in General /\ c = HighCell(n) -> v \div M["b"]
       [] OTHER -> g[c]]
Write(g, s, n, v) == IF s = "b" THEN WriteByte(g, n, v) ELSE WriteWide(g, n, v)

----------------------------------------------------------------------------
(* The operations on numbers of M[s] values *)

Signed(s, x) == IF 2 * x < M[s] THEN x ELSE x - M[s]
Wrapped(s, i) == Signed(s, i % M[s])     \* a signed result that wraps
Fits(s, i) == -M[s] <= 2 * i /\ 2 * i < M[s]

\* A shift that is too wide panics, or uses the low bits of the amount only.
TooWide(op, s, y) == op \in {"shl", "asr", "lsr"} /\ y >= Bits[s]
Amount(s, y) == 2 ^ (y % Bits[s])

ShiftedLeftOut(s, x, y) == x * Amount(s, y)   \* faulty variant: no bit is lost
ShiftedLeft(s, x, y) == (x * Amount(s, y)) % M[s]

\* The first closure of a binop: the result and its carry.
Unsigned(op, s, x, y) ==
  CASE op = "add" -> [res |-> (x + y) % M[s], carry |-> x + y >= M[s]]
    [] op = "sub" -> [res |-> (x - y) % M[s], carry |-> x < y]
    [] op = "and" -> [res |-> BitAnd(x, y), carry |-> FALSE]
    [] op = "or"  -> [res |-> BitOr(x, y), carry |-> FALSE]
    [] op = "xor" -> [res |-> BitXor(x, y), carry |-> FALSE]
    [] op = "shl" -> [res |-> ShiftedLeft(s, x, y), carry |-> FALSE]
    [] op = "asr" -> [res |-> (Signed(s, x) \div Amount(s, y)) % M[s], carry |-> FALSE]
    [] op = "lsr" -> [res |-> x \div Amount(s, y), carry |-> FALSE]

\* The second one, on signed numbers: only its sign and overflow are used.
\* Without a carry its result has the bits of the first.
Exactly(op, s, x, y) == IF op = "add" THEN Signed(s, x) + Signed(s, y)
                                      ELSE Signed(s, x) - Signed(s, y)
SignedOf(op, s, x, y) ==
  IF op \in {"add", "sub"}
  THEN [res |-> Wrapped(s, Exactly(op, s, x, y)), overflow |-> ~Fits(s, Exactly(op, s, x, y))]
  ELSE [res |-> Signed(s, Unsigned(op, s, x, y).res), overflow |-> FALSE]

BinopFlags(op, s, x, y) ==
  [carry    |-> Unsigned(op, s, x, y).carry,
   overflow |-> SignedOf(op, s, x, y).overflow,
   sign     |-> SignedOf(op, s, x, y).res < 0,
   zero     |-> Unsigned(op, s, x, y).res = 0]

MulFlags(s, x, y) ==
  LET lower == (x * y) % M[s]
  IN [carry |-> x * y >= M[s], overflow |-> x * y >= M[s],
      sign |-> Signed(s, lower) < 0, zero |-> lower = 0]

Compared(s, x, y) ==
  [known |-> TRUE, below |-> x < y, same |-> x = y, less |-> Signed(s, x) < Signed(s, y)]

----------------------------------------------------------------------------
(* The instructions *)

Trap == out' = "trap" /\ UNCHANGED <<bytes, flags, cmp>>

\* The sources are read first, and a privileged one traps.
SourcesTrap(i) == ~Readable(i.size, i.a) \/ ~Readable(i.size, i.b)

\* binop_b and binop_w: the flags are set before the target turns out to be
\* privileged.
Binop(i) ==
  LET s == i.size  x == Read(bytes, s, i.a)  y == Read(bytes, s, i.b)
  IN IF SourcesTrap(i) THEN Trap
     ELSE IF OverflowChecks /\ TooWide(i.op, s, y)
     THEN out' = "panic" /\ UNCHANGED <<bytes, flags, cmp>>
     ELSE /\ flags' = BinopFlags(i.op, s, x, y)
          /\ cmp' = IF i.op = "sub" THEN Compared(s, x, y) ELSE None
          /\ IF Readable(s, i.d)
             THEN bytes' = Write(bytes, s, i.d, Unsigned(i.op, s, x, y).res) /\ out' = "next"
             ELSE out' = "trap" /\ UNCHANGED bytes

\* The two results of mul and div go to two registers one after the other; the
\* first is written when the second turns out to be privileged.
WritePairSwapped(i, upper, lower) ==   \* faulty variant: the second register first
  LET first == Write(bytes, i.size, i.d, lower)
  IN IF ~Readable(i.size, i.d) THEN out' = "trap" /\ UNCHANGED bytes
     ELSE IF ~Readable(i.size, i.e) THEN out' = "trap" /\ bytes' = first
     ELSE out' = "next" /\ bytes' = Write(first, i.size, i.e, upper)
WritePair(i, upper, lower) ==
  LET first == Write(bytes, i.size, i.d, upper)
  IN IF ~Readable(i.size, i.d) THEN out' = "trap" /\ UNCHANGED bytes
     ELSE IF ~Readable(i.size, i.e) THEN out' = "trap" /\ bytes' = first
     ELSE out' = "next" /\ bytes' = Write(first, i.size, i.e, lower)

\* mul_b and mul_w
Mul(i) ==
  LET s == i.size  x == Read(bytes, s, i.a)  y == Read(bytes, s, i.b)
  IN IF SourcesTrap(i) THEN Trap
     ELSE /\ flags' = MulFlags(s, x, y)
          /\ cmp' = None
          /\ WritePair(i, (x * y) \div M[s], (x * y) % M[s])

\* div_b and div_w leave the flags alone.
DivFlags(i) ==   \* faulty variant: div tells by its flags that it is exact
  LET s == i.size  x == Read(bytes, s, i.a)  y == Read(bytes, s, i.b)
  IN IF SourcesTrap(i) \/ y = 0 THEN Trap
     ELSE /\ WritePair(i, x \div y, x % y) /\ UNCHANGED cmp
          /\ flags' = [flags EXCEPT !.zero = x % y = 0]
Div(i) ==
  LET s == i.size  x == Read(bytes, s, i.a)  y == Read(bytes, s, i.b)
  IN IF SourcesTrap(i) \/ y = 0 THEN Trap
     ELSE WritePair(i, x \div y, x % y) /\ UNCHANGED <<flags, cmp>>

\* ldi, load and pop put a value of the program, of memory or of the stack
\* into a register.
Load(i) ==
  IF Readable(i.size, i.d)
  THEN \E v \in Val(i.size) :
         bytes' = Write(bytes, i.size, i.d, v) /\ out' = "next" /\ UNCHANGED <<flags, cmp>>
  ELSE Trap

\* The conditions of jez ... jbe.
Taken(j) ==
  CASE j = "jez" -> flags.zero
    [] j = "jnz" -> ~flags.zero
    [] j = "jlt" -> flags.sign # flags.overflow
    [] j = "jle" -> flags.sign # flags.overflow /\ flags.zero
    [] j = "jgt" -> flags.sign = flags.overflow /\ ~flags.zero
    [] j = "jge" -> flags.sign = flags.overflow
    [] j = "jo"  -> flags.overflow
    [] j = "jno" -> ~flags.overflow
    [] j = "ja"  -> ~flags.carry /\ ~flags.zero
    [] j = "jae" -> ~flags.carry
    [] j = "jb"  -> flags.carry
    [] j = "jbe" -> flags.carry \/ flags.zero

\* jif
Jump(i) ==
  /\ out' = IF Taken(i.op) THEN "jump" ELSE "next"
  /\ UNCHANGED <<bytes, flags, cmp>>

\* execute_instruction: an opcode is fetched, from memory that is left open
\* here, and its handler called.
Fetch(i) ==
  /\ ins = Nothing /\ out # "panic"
  /\ ins' = i /\ out' = "next"
  /\ UNCHANGED <<bytes, flags, cmp>>

Execute ==
  /\ ins # Nothing
  /\ ins' = Nothing
  /\ \/ ins.op \in Binops /\ Binop(ins)
     \/ ins.op = "mul" /\ Mul(ins)
     \/ ins.op = "div" /\ Div(ins)
     \/ ins.op = "load" /\ Load(ins)
     \/ ins.op \in Conditions /\ Jump(ins)

Next == Execute \/ \E i \in Instructions : Fetch(i)

Spec == Init /\ [][Next]_vars

----------------------------------------------------------------------------
(* Properties *)

TypeOK ==
  /\ bytes \in [Cells -> Val("b")]
  /\ flags \in Flags
  /\ ins \in Instructions \cup {Nothing}
  /\ out \in {"next", "jump", "trap", "panic"}
  /\ cmp \in Comparison \cup {None}

\* After a sub, and for as long as no other instruction has set the flags
\* (loads, div, jumps, traps may come between), the conditional jumps decide on
\* its operands as signed and as unsigned numbers.  jle is a conjunction in
\* README.md:215 and in the code, so a comparison never makes it jump.
Meaning(j) ==
  CASE j = "jez" -> cmp.same      [] j = "jnz" -> ~cmp.same
    [] j = "jb"  -> cmp.below     [] j = "jae" -> ~cmp.below
    [] j = "jlt" -> cmp.less      [] j = "jge" -> ~cmp.less
    [] j = "ja"  -> ~cmp.below /\ ~cmp.same
    [] j = "jbe" -> cmp.below \/ cmp.same
    [] j = "jgt" -> ~cmp.less /\ ~cmp.same
    [] j = "jle" -> FALSE
JumpsAgree ==
  cmp.known => \A j \in Conditions \ {"jo", "jno"} : Taken(j) <=> Meaning(j)

\* An instruction that is done leaves the exact numbers in its targets, whatever
\* registers they share with its sources: the difference of the result and the
\* sum is seen in the carry for unsigned numbers and in the overflow for signed
\* ones, the two halves of a product, whichever register has the upper one
\* (ProductAsDocumented), and quotient and remainder lose nothing, and a later
\* target that is part of an earlier one wins.
Separate(i) == i.d # 0 /\ i.e # 0 /\
  IF i.size = "w" THEN i.d # i.e ELSE CellOf(i.d) # CellOf(i.e)
Exact(i) ==
  LET s == i.size  x == Read(bytes, s, i.a)  y == Read(bytes, s, i.b)
      m == M[s]    r == Read(bytes', s, i.d)   q == Read(bytes', s, i.e)
      exact == Exactly(i.op, s, x, y)
      Halves(upper, lower) == upper * m + lower = x * y /\ (flags'.carry <=> upper # 0)
  IN CASE i.op \in {"nothing"} \cup Conditions -> TRUE
       [] i.op \in {"add", "sub"} /\ i.d # 0 ->
            /\ flags'.overflow <=> Signed(s, r) # exact
            /\ flags'.carry <=> r # IF i.op = "add" THEN x + y ELSE x - y
            /\ flags'.sign <=> Signed(s, r) < 0
            /\ (r - exact) % m = 0
       [] i.op = "mul" /\ Separate(i) -> Halves(r, q) \/ Halves(q, r)
       [] i.op = "div" /\ Separate(i) -> r * y + q = x /\ q < y
       [] i.op = "div" /\ ~Separate(i) /\ i.e # 0 -> q = x % y
       [] OTHER -> TRUE
ArithmeticIsExact ==
  [][ins # Nothing /\ out' = "next" => Exact(ins)]_vars

\* A product has its upper half in the second register (README.md:248-249: "br2
\* has the upper bytes").  The code writes it to the first.
ProductAsDocumented ==
  [][ins.op = "mul" /\ out' = "next" /\ Separate(ins) =>
       Read(bytes', ins.size, ins.e) * M[ins.size] + Read(bytes', ins.size, ins.d) =
       Read(bytes, ins.size, ins.a) * Read(bytes, ins.size, ins.b)]_vars

\* An instruction reaches no register but its targets, through any of their
\* views: the other half of a halved register stays, the high byte of another
\* one is cleared by a byte and by nothing else; and a trap changes no register
\* unless a pair of results was half written.
Home(s, n) == IF s = "w" THEN {LowCell(n), HighCell(n)}
              ELSE IF n <= 2 * Halved THEN {CellOf(n)} ELSE {CellOf(n), CellOf(n) + 1}
Targets(i) == IF i.op \in {"mul", "div"} THEN {i.d, i.e} ELSE {i.d}
WritesAreLocal ==
  [][IF ins.op \in Conditions \cup {"nothing"} \/ (out' = "trap" /\ ins.op \notin {"mul", "div"})
     THEN UNCHANGED bytes
     ELSE /\ \A c \in Cells : bytes'[c] # bytes[c] =>
               \E n \in Targets(ins) \ {0} : c \in Home(ins.size, n)
          /\ ins.size = "b" /\ out' = "next" => \A n \in Targets(ins) :
               n > 2 * Halved => ReadWide(bytes', n - Halved) = ReadByte(bytes', n)]_vars
=============================================================================
