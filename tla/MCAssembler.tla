----------------------------- MODULE MCAssembler -----------------------------
(* Small sources for Assembler. *)
EXTENDS Assembler

Dir(op, n)   == [op |-> op, name |-> n]
In(seg)      == [op |-> "seg", seg |-> seg]
Ins(m, ops)  == [op |-> "ins", m |-> m, ops |-> ops]
Op(k, v)     == [k |-> k, v |-> v]
Halt         == Ins("halt", <<>>)
Lbl          == Op("label", "a")
Raw(n)       == [op |-> "raw", size |-> n, ref |-> "none"]
Wide(n)      == [op |-> "wide", ref |-> n]
Include(f)   == [op |-> "include", file |-> f]

\* An included file that goes to another segment, defines b and refers to a.
Included == <<In("data"), Dir("label", "b"), Raw(3), Ins("call", <<Lbl>>)>>
Files(main) == [main |-> main, inc |-> Included, far |-> <<Dir("Reference", "a")>>]

AnyLine == {In("text"), In("rodata"), Dir("label", "a"), Dir("Global", "a"), Dir("Reference", "a"),
            Ins("ldi", <<Op("wreg", 3), Lbl>>), Halt, Wide("a"),
            [op |-> "entry"], Include("inc"), Include("far")}
OddLine == {[op |-> "bad"], In("bss"), Include("nowhere"), Raw(0), Wide("none"), Dir("label", "b")}

\* Every source of four lines that starts with a segment, and of two that need
\* not.
Short == {Files(<<In("text"), x, y, z>>) : x \in AnyLine, y \in AnyLine, z \in AnyLine}
         \cup {Files(<<x, y>>) : x \in AnyLine \cup OddLine, y \in AnyLine \cup OddLine}

\* The operands of a signature, registers that differ in each place, with an
\* immediate each way it can be written.
Immediates == [b |-> {}, w |-> {},
  B |-> {Op("number", -2), Op("number", 300), Op("byte", 255), Op("hex", 27), Op("hex", 16)},
  W |-> {Op("number", -2), Op("number", 65537), Op("wide", 4660), Op("hex", 48879), Lbl}]
Regs(s, low) ==
  [i \in DOMAIN s |-> IF s[i] = "b" THEN Op("breg", low + i)
                     ELSE IF s[i] = "w" THEN Op("wreg", low + i) ELSE Op("none", 0)]
OperandsOf(s, low) ==
  IF \A i \in DOMAIN s : s[i] \in {"b", "w"} THEN {Regs(s, low)}
  ELSE LET at == CHOOSE i \in DOMAIN s : s[i] \in {"B", "W"}
       IN {[Regs(s, low) EXCEPT ![at] = o] : o \in Immediates[s[at]]}

\* What no signature has, or none of that mnemonic.
Odd == UNION {[1 .. n -> {Op("breg", 0), Op("wreg", 0), Op("hex", 43), Lbl}] : n \in 0 .. 3}

\* An instruction between two labels, and once more behind the segment.
Around(m, ops) == Files(<<In("heap"), Ins(m, ops), [op |-> "entry"], Halt, Include("inc"),
                          Dir("label", "a"), Ins(m, ops), Wide("none")>>)
Lines == {<<m, ops>> : m \in {"ret", "push", "jmp", "ldi", "store", "load", "add", "usr"}, ops \in Odd}
         \cup UNION {{<<m, ops>> : ops \in UNION {OperandsOf(s, low) : s \in Signatures(Canonical(m)),
                                                                     low \in {-1, 3, 11}}} :
                     m \in Mnemonics \cup Supervisor}

MCPrograms == Short \cup {Around(l[1], l[2]) : l \in Lines}
=============================================================================
