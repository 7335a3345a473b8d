------------------------------ MODULE Encoding ------------------------------
(***************************************************************************)
(* What an instruction is in four places that have to agree: the table of  *)
(* the documentation (README.md:150-250), the assembler (parse_ins and     *)
(* write_data_operand in src/source/mod.rs), the handlers of the processor *)
(* (src/blf4/isa/handlers.rs) and the disassembler (src/disassemble.rs).   *)
(*                                                                         *)
(* An operand is a record [k, v]: a register "breg" or "wreg" and its      *)
(* number, a number without a suffix, "number", or in hexadecimal, "hex",  *)
(* one with a suffix or a character, "byte" or "wide", or a "label".  An   *)
(* opcode is its mnemonic and its variant, as in <<"store", "bi">>.        *)
(*                                                                         *)
(* Classes of operands: byte and wide registers b and w, byte and wide     *)
(* immediates B and W.                                                     *)
(***************************************************************************)
EXTENDS Integers, Sequences, SequencesExt

Bare   == {"null", "halt", "ctf", "syscall", "reth", "nop"}
Jumps  == {"jez", "jlt", "jle", "jgt", "jge", "jnz", "jo", "jno", "jb", "jae", "ja", "jbe"}
Binary == {"add", "sub", "and", "or", "xor", "shl", "asr", "lsr"}
Alias  == [str |-> "store", jump |-> "jmp", jne |-> "jnz", jc |-> "jb", jnc |-> "jae"]
Canonical(m) == IF m \in DOMAIN Alias THEN Alias[m] ELSE m
Mnemonics == Bare \cup Jumps \cup Binary \cup DOMAIN Alias \cup
  {"push", "pop", "call", "ret", "store", "load", "ldi", "jmp", "mul", "div"}

----------------------------------------------------------------------------
(* Assembling *)

\* DataOperand
Form == [Nothing |-> <<>>, ByteRegister |-> <<"b">>, WideRegister |-> <<"w">>,
  ImmediateByte |-> <<"B">>, ImmediateWide |-> <<"W">>, ByteImm |-> <<"b", "B">>,
  WideImm |-> <<"w", "W">>, WideImmByte |-> <<"w", "W", "b">>, WideImmWide |-> <<"w", "W", "w">>,
  TwoWideOneByte |-> <<"w", "w", "b">>, ByteWideImm |-> <<"b", "w", "W">>,
  TwoWideImm |-> <<"w", "w", "W">>, ByteTwoWide |-> <<"b", "w", "w">>,
  ThreeByte |-> <<"b", "b", "b">>, ThreeWide |-> <<"w", "w", "w">>,
  FourByte |-> <<"b", "b", "b", "b">>, FourWide |-> <<"w", "w", "w", "w">>]
Kind == DOMAIN Form

\* parse_number takes a final b for the suffix of a byte, also when it is the
\* last of two or more hexadecimal digits; what is no byte then is a label.
Read(o) ==
  CASE o.k # "hex"                            -> o
    [] o.k = "hex" /\ o.v % 16 # 11           -> [k |-> "number", v |-> o.v]
    [] o.k = "hex" /\ o.v % 16 = 11 /\ o.v < 4096 -> [k |-> "byte", v |-> o.v \div 16]
    [] OTHER                                  -> [k |-> "label", v |-> "0x..b"]

\* byte, wide, imm_byte and imm_wide: what an operand is taken for, and its
\* value; numbers are truncated, and a label will be at addr.
Taken == [b |-> {"breg"}, w |-> {"wreg"}, B |-> {"number", "byte"},
          W |-> {"number", "wide", "label"}]
Is(class, o) == Read(o).k \in Taken[class]
Value(class, o, addr) ==
  CASE Read(o).k = "label" -> addr
    [] class = "B"         -> Read(o).v % 256
    [] class = "W"         -> Read(o).v % 65536
    [] OTHER               -> Read(o).v

Begins(f, ops, n) == Len(ops) >= n /\ \A i \in 1 .. n : Is(f[i], ops[i])

\* parse_nothing to parse_four_wide: from two operands on, no more are looked at.
Matches(kind, ops) ==
  /\ Begins(Form[kind], ops, Len(Form[kind]))
  /\ Len(Form[kind]) < 2 => Len(ops) = Len(Form[kind])

\* The alternatives of parse_ins, in its order.
Alternatives(m) ==
  CASE m \in Bare -> <<<<"", "Nothing">>>>
    [] m \in {"push", "pop"} -> <<<<"b", "ByteRegister">>, <<"w", "WideRegister">>>>
    [] m \in Jumps \cup {"call"} -> <<<<"", "ImmediateWide">>>>
    [] m = "ret" -> <<<<"", "Nothing">>, <<"", "ImmediateByte">>>>
    [] m = "store" -> <<<<"bi", "WideImmByte">>, <<"wi", "WideImmWide">>,
                        <<"br", "TwoWideOneByte">>, <<"wr", "ThreeWide">>>>
    [] m = "load" -> <<<<"bi", "ByteWideImm">>, <<"wi", "TwoWideImm">>,
                       <<"br", "ByteTwoWide">>, <<"wr", "ThreeWide">>>>
    [] m = "ldi" -> <<<<"b", "ByteImm">>, <<"w", "WideImm">>>>
    [] m = "jmp" -> <<<<"w", "ImmediateWide">>, <<"w", "WideRegister">>>>
    [] m \in Binary -> <<<<"b", "ThreeByte">>, <<"w", "ThreeWide">>>>
    [] m \in {"mul", "div"} -> <<<<"b", "FourByte">>, <<"w", "FourWide">>>>
    [] OTHER -> <<>>

\* The alternatives that the operands are right for; the first one is taken.
Matching(m, ops) ==
  {n \in DOMAIN Alternatives(Canonical(m)) : Matches(Alternatives(Canonical(m))[n][2], ops)}

Accepted(m, ops) ==
  /\ Matching(m, ops) # {}
  /\ Canonical(m) = "jmp" /\ ops[1].k = "wreg" => ops[1].v # 0

\* The opcode and the data operand; jumps are kinds of ldi.
Parse(m, ops, addr) ==
  LET a    == Alternatives(Canonical(m))[Min(Matching(m, ops))]
      name == Canonical(m)
      args == [i \in DOMAIN Form[a[2]] |-> Value(Form[a[2]][i], ops[i], addr)]
      Ins(n, kind, values) == [op |-> <<n, a[1]>>, kind |-> kind, args |-> values]
  IN CASE name = "ret" /\ ops = <<>>       -> Ins("ret", "ImmediateByte", <<0>>)
       [] a[2] = "WideImm"                 -> Ins("ldi", "TwoWideImm", <<args[1], 0, args[2]>>)
       [] name = "jmp" /\ a[2] = "ImmediateWide" -> Ins("ldi", "TwoWideImm", <<0, 1, args[1]>>)
       [] name = "jmp" /\ a[2] = "WideRegister"  -> Ins("ldi", "TwoWideImm", <<args[1], 1, 0>>)
       [] OTHER                            -> Ins(name, a[2], args)

\* The label that parse_ins looks up on its way, also when it gives up later.
LabelIn(m, ops) ==
  LET at == {i \in DOMAIN ops : Read(ops[i]).k = "label" /\
               \E n \in DOMAIN Alternatives(Canonical(m)) :
                 LET f == Form[Alternatives(Canonical(m))[n][2]]
                 IN i <= Len(f) /\ f[i] = "W" /\ Begins(f, ops, i)}
  IN IF at = {} THEN "none" ELSE Read(ops[CHOOSE i \in at : TRUE]).v

\* The values of the classes cs among the operands.
Among(f, values, cs) ==
  FlattenSeq([i \in DOMAIN f |-> IF f[i] \in cs THEN <<values[i]>> ELSE <<>>])

\* Faulty variant of Pack: a single register is in the low nibble.
PackLow(regs) ==
  [n \in 1 .. (Len(regs) + 1) \div 2 |->
     IF 2 * n > Len(regs) THEN regs[2 * n - 1] ELSE 16 * regs[2 * n - 1] + regs[2 * n]]

\* U4::pair
Pack(regs) ==
  [n \in 1 .. (Len(regs) + 1) \div 2 |->
     16 * regs[2 * n - 1] + (IF 2 * n > Len(regs) THEN 0 ELSE regs[2 * n])]

\* write_data_operand: the registers, then the immediate, in little endian.
Encode(p) ==
  LET f == Form[p.kind]
  IN <<p.op>> \o Pack(Among(f, p.args, {"b", "w"})) \o Among(f, p.args, {"B"})
     \o FlattenSeq(LET w == Among(f, p.args, {"W"})
                   IN [n \in DOMAIN w |-> <<w[n] % 256, w[n] \div 256>>])

----------------------------------------------------------------------------
(* Fetching, by the processor and by the disassembler *)

\* The nibbles and the immediate that a handler fetches: 0 must be zero, o is
\* the option of ldi.
Fetches(op) ==
  LET m == op[1]  v == op[2]
  IN CASE m \in Bare -> <<>>
       [] m \in {"push", "pop"} -> <<v, "0">>
       [] m \in Jumps \cup {"call"} -> <<"W">>
       [] m = "ret" -> <<"B">>
       [] op = <<"store", "bi">> -> <<"w", "b", "W">>
       [] op = <<"load", "bi">> -> <<"b", "w", "W">>
       [] op \in {<<"store", "wi">>, <<"load", "wi">>} -> <<"w", "w", "W">>
       [] op = <<"store", "br">> -> <<"w", "w", "b", "0">>
       [] op = <<"load", "br">> -> <<"b", "w", "w", "0">>
       [] op \in {<<"store", "wr">>, <<"load", "wr">>} -> <<"w", "w", "w", "0">>
       [] op = <<"ldi", "b">> -> <<"b", "0", "B">>
       [] op = <<"ldi", "w">> -> <<"w", "o", "W">>
       [] m \in Binary -> <<v, v, v, "0">>
       [] m \in {"mul", "div"} -> <<v, v, v, v>>

\* arg_pair, arg_imm_byte and arg_imm_wide
Fetched(bytes) ==
  LET f == Fetches(bytes[1])
      n == Len(SelectSeq(f, LAMBDA c : c \notin {"B", "W"}))
      Nibble(k) == LET b == bytes[1 + (k + 1) \div 2] IN IF k % 2 = 1 THEN b \div 16 ELSE b % 16
      at == 2 + n \div 2
  IN [k \in DOMAIN f |-> CASE k <= n     -> Nibble(k)
                           [] f[k] = "B" -> bytes[at]
                           [] f[k] = "W" -> bytes[at] + 256 * bytes[at + 1]]

Invalid == [op |-> "invalid", args |-> <<>>]

\* What the processor executes: a mnemonic with its operands, class and value,
\* the registers first.
Executed(bytes) ==
  LET f == Fetches(bytes[1])
      x == Fetched(bytes)
      Do(m, args) == [op |-> m, args |-> args]
      Arg(k) == <<f[k], x[k]>>
      all == SelectSeq([k \in DOMAIN f |-> Arg(k)], LAMBDA a : a[1] # "0")
  IN CASE \E k \in DOMAIN f : f[k] = "0" /\ x[k] # 0 -> Invalid
       [] bytes[1] # <<"ldi", "w">>                  -> Do(bytes[1][1], all)
       [] bytes[1] = <<"ldi", "w">> /\ x[2] = 0      -> Do("ldi", <<Arg(1), Arg(3)>>)
       [] bytes[1] = <<"ldi", "w">> /\ x[2] = 1      ->
            Do("jmp", <<IF x[1] = 0 THEN Arg(3) ELSE Arg(1)>>)
       [] OTHER -> Invalid

\* disassemble_instruction: the line it prints, numbers in hexadecimal, but
\* for that of ret; of mul and div it prints three operands.
Listed(bytes) ==
  LET f == Fetches(bytes[1])
      x == Fetched(bytes)
      m == bytes[1][1]
      Kinds == [b |-> "breg", w |-> "wreg", B |-> IF m = "ret" THEN "number" ELSE "hex", W |-> "hex"]
      Line(n, ks) == [m |-> n, ops |-> [i \in DOMAIN ks |-> [k |-> Kinds[f[ks[i]]], v |-> x[ks[i]]]]]
  IN CASE m \in Bare -> Line(m, <<>>)
       [] m \in {"push", "pop", "ret", "call"} \cup Jumps -> Line(m, <<1>>)
       [] m = "store" /\ f[3] = "W" -> Line(m, <<1, 3, 2>>)
       [] bytes[1] = <<"ldi", "b">> -> Line(m, <<1, 3>>)
       [] bytes[1] = <<"ldi", "w">> /\ x[2] = 0 -> Line("ldi", <<1, 3>>)
       [] bytes[1] = <<"ldi", "w">> /\ x[2] = 1 -> Line("jmp", <<IF x[1] = 0 THEN 3 ELSE 1>>)
       [] bytes[1] = <<"ldi", "w">> -> Line("invalid", <<>>)
       [] OTHER -> Line(m, <<1, 2, 3>>)

----------------------------------------------------------------------------
(* The table of the documentation.  That ret may have no operand is said where
   it is parsed ("either nothing or a byte").  How an operand is written, and so
   what it is, is in no document: it is read as the assembler reads it. *)

\* Instructions of the table that only a supervisor may execute.
Supervisor == {"usr", "vmon", "vmoff", "pstore", "pload"}

Signatures(m) ==
  CASE m \in Bare -> {<<>>}
    [] m \in {"usr", "vmon", "vmoff"} -> {<<>>}
    [] m = "pstore" -> {<<"b", "w", "b">>}
    [] m = "pload" -> {<<"b", "b", "w">>}
    [] m \in {"push", "pop"} -> {<<"b">>, <<"w">>}
    [] m \in Jumps \cup {"call"} -> {<<"W">>}
    [] m = "ret" -> {<<>>, <<"B">>}
    [] m = "store" -> {<<"w", "W", "b">>, <<"w", "W", "w">>, <<"w", "w", "b">>, <<"w", "w", "w">>}
    [] m = "load" -> {<<"b", "w", "W">>, <<"w", "w", "W">>, <<"b", "w", "w">>, <<"w", "w", "w">>}
    [] m = "ldi" -> {<<"b", "B">>, <<"w", "W">>}
    [] m = "jmp" -> {<<"W">>, <<"w">>}
    [] m \in Binary -> {<<"b", "b", "b">>, <<"w", "w", "w">>}
    [] m \in {"mul", "div"} -> {<<"b", "b", "b", "b">>, <<"w", "w", "w", "w">>}
    [] OTHER -> {}

\* The operands are those of a signature, and no more.
Documented(m, ops) ==
  {s \in Signatures(Canonical(m)) : /\ Len(ops) = Len(s) /\ Begins(s, ops, Len(s))
                                    /\ s = <<"w">> /\ Canonical(m) = "jmp" => ops[1].v # 0}

\* Operands stand behind the last of a signature of two or more.
Surplus(m, ops) ==
  \E s \in Signatures(Canonical(m)) : Len(s) \in 2 .. Len(ops) - 1 /\ Begins(s, ops, Len(s))

\* The instruction a line stands for: its registers, then its immediate.
Meaning(m, ops, addr) ==
  LET s == CHOOSE s \in Documented(m, ops) : TRUE
      all == [i \in DOMAIN s |-> <<s[i], Value(s[i], ops[i], addr)>>]
  IN [op   |-> Canonical(m),
      args |-> IF Canonical(m) = "ret" /\ s = <<>> THEN <<<<"B", 0>>>>
               ELSE SelectSeq(all, LAMBDA a : a[1] \in {"b", "w"})
                    \o SelectSeq(all, LAMBDA a : a[1] \in {"B", "W"})]
=============================================================================
