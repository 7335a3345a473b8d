---------------------------- MODULE Disassembler ----------------------------
(***************************************************************************)
(* disassemble_instruction (src/disassemble.rs), which tobjdump and tdbg   *)
(* share: how long the instruction at a location is, whether the listing   *)
(* of a block ends with it, how it changes the nesting, and which location *)
(* it refers to.  Executable memory is a function from the locations that  *)
(* may be fetched to the instruction whose opcode is there; an instruction *)
(* is a record [op, w], with the wide operand in w.                        *)
(***************************************************************************)
EXTENDS Integers

CONSTANT W   \* 2^16 in the code

\* Instructions that are alike to the disassembler and to the control of a
\* program are one op: "plain" stands for ctf and nop, "privileged" for usr,
\* vmon, vmoff, pstore and pload, "access" for loads and stores with an offset,
\* "binop" for what computes or loads with three registers, jmpl for jmp rl.
Length == [null |-> 1, halt |-> 1, plain |-> 1, syscall |-> 1, reth |-> 1,
           privileged |-> 1, push |-> 2, pop |-> 2, ret |-> 2, call |-> 3,
           jcc |-> 3, binop |-> 3, access |-> 4, ldi |-> 4, jmp |-> 4, jmpl |-> 4]
Op == DOMAIN Length

HasWide == {"call", "access", "jcc", "ldi", "jmp", "jmpl"}

EndsMore == {"null", "halt", "reth", "ret", "jmp", "jmpl", "privileged", "syscall"}   \* faulty variant
\* The last arm takes the privileged instructions, which have no arm of their
\* own, for data.
EndsBlock == {"null", "halt", "reth", "ret", "jmp", "jmpl", "privileged"}

NestingDifference == [o \in Op |-> CASE o = "call" -> 1 [] o = "ret" -> -1 [] OTHER -> 0]

\* The location counter wraps in a release build.
NextLocation(c, a) == (a + Length[c[a].op]) % W

\* Every byte is fetched, so the first that must not be ends it with a trap.
Fetchable(c, a) ==
  a \in DOMAIN c /\ \A k \in 0 .. Length[c[a].op] - 1 : (a + k) % W \in DOMAIN c
=============================================================================
