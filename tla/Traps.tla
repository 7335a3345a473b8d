------------------------------- MODULE Traps -------------------------------
(***************************************************************************)
(* Traps with a handler of the machine's own, on the real stack: what the  *)
(* trap entry pushes (push_registers in src/blf4/mod.rs), what reth pops   *)
(* (pop_registers) and what a handler may do in between.  There is no      *)
(* emulated kernel.  The module implements Cpu, which leaves memory open.  *)
(*                                                                         *)
(* Memory is an array of words, a stack slot is one word.  Translation is  *)
(* the identity, except for the words of Holes, which are not mapped.      *)
(* frames is a history variable: the traps that a handler is at work on.   *)
(***************************************************************************)
EXTENDS Integers, Sequences, FiniteSets

CONSTANTS
  M,               \* number of words of memory, and of values of a word
  Holes,           \* the addresses that are not mapped in virtual mode
  Start,           \* the initial values of gp, rs and rp
  Loads,           \* the pairs of a register and a word that ldi is used with
  Points,          \* where the program counter goes
  MaxFrames,       \* bound on the traps being handled
  MaxInstructions  \* bound on the instructions

ASSUME TrapsAssumption ==
  /\ M \in Nat /\ M >= 32 /\ Holes \subseteq 0 .. M - 1
  /\ Start \in [{"gp", "rs", "rp"} -> 0 .. M - 1]
  /\ Points \subseteq 0 .. M - 1
  /\ Loads \subseteq {"gp", "rs", "rh"} \X (0 .. M - 1)
  /\ MaxFrames \in Nat /\ MaxInstructions \in Nat

Word == 0 .. M - 1
Reg  == {"gp", "rs", "rp", "rh"}

\* The trap modes that occur here, with the number a handler finds in r1.
TrapCode == [SysCall |-> 5, Halt |-> 10, Level2PageFault |-> 15,
             IllegalOperation |-> 16, IllegalHandlerReturn |-> 31]

VARIABLES
  reg, pc, user, trap, vm, phase, pend,   \* as in Cpu
  mem,     \* the words of memory
  frames,  \* the traps that have entered a handler, the last one first:
           \* what the machine was like, and the words the handler has pushed
  left     \* the instructions left to execute

cpuVars == <<reg, pc, user, trap, vm, phase, pend>>
vars    == <<reg, pc, user, trap, vm, phase, pend, mem, frames, left>>
flags   == <<user, trap, vm>>

Frame == [reg : [Reg -> Word], pc : Word, user : BOOLEAN, vm : BOOLEAN,
          depth : 0 .. MaxInstructions]

TypeOK ==
  /\ reg \in [Reg -> Word] /\ pc \in Word
  /\ user \in BOOLEAN /\ trap \in BOOLEAN /\ vm \in BOOLEAN
  /\ phase \in {"fetch", "handler", "trap", "kernel", "stopped"}
  /\ pend \in DOMAIN TrapCode \cup {"none"}
  /\ mem \in [Word -> Word]
  /\ frames \in Seq(Frame) /\ Len(frames) <= MaxFrames
  /\ left \in 0 .. MaxInstructions

Init ==
  /\ reg = [r \in Reg |-> IF r = "rh" THEN 0 ELSE Start[r]]
  /\ pc \in Points
  /\ user = FALSE /\ trap = FALSE /\ vm = FALSE
  /\ phase = "fetch" /\ pend = "none"
  /\ mem = [a \in Word |-> 0]
  /\ frames = << >>
  /\ left = MaxInstructions

----------------------------------------------------------------------------
(* Words *)

\* Faulty variant of Up: addresses do not wrap.
UpFlat(a, n) == a + n

Up(a, n)   == (a + n) % M
Down(a, n) == (a + M - n) % M

Unmapped(a) == vm /\ a \in Holes

Bit(b, n)   == IF b THEN 2 ^ n ELSE 0
HasBit(w, n) == (w \div (2 ^ n)) % 2 = 1

\* The flags as a word; the trap entry has left user mode and set trap.
FlagsWord == Bit(FALSE, 0) + Bit(TRUE, 1) + Bit(vm, 3)


Done      == phase' = "fetch" /\ pend' = "none"
Raise(tm) == phase' = "trap" /\ pend' = tm

Set(r, w) == reg' = [reg EXCEPT ![r] = w]

Accessible(r) == ~user \/ r \notin {"rp", "rh"}

----------------------------------------------------------------------------
(* The history: a handler that does not leave rs where it found it has given
   up the trap. *)

\* n words more, or -n less, are on the stack.
Moved(n) ==
  frames' =
    IF frames = << >> \/ Head(frames).depth + n < 0 THEN << >>
    ELSE <<[Head(frames) EXCEPT !.depth = @ + n]>> \o Tail(frames)

Entered == <<[reg |-> reg, pc |-> pc, user |-> user, vm |-> vm, depth |-> 0]>>

\* The handler of the last trap is about to return, with a stack in balance.
Balanced == frames # << >> /\ Head(frames).depth = 0

----------------------------------------------------------------------------
(* Instructions *)

FetchOpcode ==
  /\ phase = "fetch" /\ left > 0
  /\ left' = left - 1
  /\ UNCHANGED <<reg, flags, mem, frames>>
  /\ IF Unmapped(pc)
     THEN phase' = "kernel" /\ pend' = "Level2PageFault" /\ pc' = Up(pc, 1)
     ELSE phase' = "handler" /\ pend' = "none" /\ pc' \in Points

\* syscall and halt.
Trapping == (Raise("SysCall") \/ Raise("Halt")) /\ UNCHANGED <<reg, flags, mem, frames>>

Ctf == Done /\ trap' = FALSE /\ UNCHANGED <<reg, user, vm, mem, frames>>

\* usr, vmon, vmoff.
Mode ==
  /\ UNCHANGED <<reg, trap, mem, frames>>
  /\ \/ user /\ Raise("IllegalOperation") /\ UNCHANGED <<user, vm>>
     \/ ~user /\ Done /\ user' = TRUE /\ UNCHANGED vm
     \/ ~user /\ Done /\ vm' \in BOOLEAN /\ UNCHANGED user

\* ldi; one that changes rs gives up the stack the handler was called with.
Load ==
  /\ UNCHANGED <<flags, mem>>
  /\ \E l \in Loads :
       IF Accessible(l[1])
       THEN /\ Done /\ Set(l[1], l[2])
            /\ IF l[1] = "rs" THEN frames' = << >> ELSE UNCHANGED frames
       ELSE Raise("IllegalOperation") /\ UNCHANGED <<reg, frames>>

\* Faulty variant of PushTo: rs points below the last word pushed.
PushToFree(rs) == rs

PushTo(rs) == Down(rs, 1)

\* push: the register is read, rs moves, and the write may trap.
Push ==
  /\ UNCHANGED flags
  /\ \E r \in Reg : LET a == PushTo(reg["rs"]) IN
       IF ~Accessible(r)
       THEN Raise("IllegalOperation") /\ UNCHANGED <<reg, mem, frames>>
       ELSE /\ Set("rs", Down(reg["rs"], 1))
            /\ Moved(1)
            /\ IF Unmapped(a) THEN Raise("Level2PageFault") /\ UNCHANGED mem
               ELSE Done /\ mem' = [mem EXCEPT ![a] = reg[r]]

\* pop: the read may trap; then rs moves, and the register may be out of reach.
Pop ==
  /\ UNCHANGED <<flags, mem>>
  /\ \E r \in Reg : LET a == reg["rs"]  moved == [reg EXCEPT !["rs"] = Up(a, 1)] IN
       IF Unmapped(a) THEN Raise("Level2PageFault") /\ UNCHANGED <<reg, frames>>
       ELSE IF Accessible(r)
       THEN /\ Done /\ reg' = [moved EXCEPT ![r] = mem[a]]
            /\ IF r = "rs" THEN frames' = << >> ELSE Moved(-1)
       ELSE Raise("IllegalOperation") /\ reg' = moved /\ Moved(-1)

----------------------------------------------------------------------------
(* reth and the trap entry *)

\* Faulty variant of SavedStack: rs as it was before the trap.
SavedStackEarly(rs) == rs

\* push_registers comes to rs when the flags and r1 to r10 are pushed.
SavedStack(rs) == Down(rs, 2)

\* What is pushed, in order.
Pushed == <<FlagsWord, reg["gp"], SavedStack(reg["rs"]), reg["rp"], reg["rh"]>>

\* Where pop_registers finds rh, rp, rs, gp and the flags: it goes on from
\* the rs it has popped.
PopAt(n) == LET rs == reg["rs"] IN
  IF n <= 3 THEN Up(rs, n - 1) ELSE Up(mem[Up(rs, 2)], n - 4)

\* The registers after n of the five pops.
Popped(n) ==
  [r \in Reg |->
     CASE r = "rh" -> IF n >= 1 THEN mem[PopAt(1)] ELSE reg["rh"]
       [] r = "rp" -> IF n >= 2 THEN mem[PopAt(2)] ELSE reg["rp"]
       [] r = "gp" -> IF n >= 4 THEN mem[PopAt(4)] ELSE reg["gp"]
       [] r = "rs" -> IF n <= 2 THEN Up(reg["rs"], n) ELSE Up(mem[PopAt(3)], n - 3)]

Return ==
  /\ Done
  /\ reg' = Popped(5)
  /\ user' = HasBit(mem[PopAt(5)], 0)
  /\ trap' = FALSE
  /\ vm' = HasBit(mem[PopAt(5)], 3)
  /\ frames' = IF Balanced THEN Tail(frames) ELSE << >>

\* Faulty variant of FirstTrap: reth pops rh in user mode.
FirstTrapLax == {n \in 1 .. 5 : Unmapped(PopAt(n))}

\* The pops that trap: the read, or in user mode the write of rh.
FirstTrap == {n \in 1 .. 5 : Unmapped(PopAt(n)) \/ (user /\ n = 1)}

Reth ==
  /\ UNCHANGED mem
  /\ IF ~trap THEN Raise("IllegalHandlerReturn") /\ UNCHANGED <<reg, flags, frames>>
     ELSE \/ FirstTrap = {} /\ Return
          \/ \E n \in FirstTrap :
               /\ \A k \in FirstTrap : n <= k
               /\ UNCHANGED flags
               /\ frames' = << >>
               /\ IF Unmapped(PopAt(n))
                  THEN Raise("Level2PageFault") /\ reg' = Popped(n - 1)
                  ELSE /\ Raise("IllegalOperation")
                       /\ Set("rs", Up(reg["rs"], 1))

Handler ==
  /\ phase = "handler"
  /\ UNCHANGED <<pc, left>>
  /\ Trapping \/ Ctf \/ Mode \/ Load \/ Push \/ Pop \/ Reth

\* The words that are written before a push finds no memory.
Written == {n \in 1 .. 5 : \A k \in 1 .. n : ~Unmapped(Down(reg["rs"], k))}

TrapEntry ==
  /\ phase = "trap"
  /\ trap' = TRUE /\ user' = FALSE
  /\ UNCHANGED <<vm, left>>
  /\ IF reg["rh"] = 0
     THEN phase' = "kernel" /\ UNCHANGED <<reg, pc, pend, mem, frames>>
     ELSE LET rs == reg["rs"] IN
          /\ mem' = [a \in Word |-> LET n == Down(rs, a) IN
                                     IF n \in Written THEN Pushed[n] ELSE mem[a]]
          /\ IF Written = 1 .. 5
             THEN /\ Len(frames) < MaxFrames
                  /\ Done
                  /\ pc' = reg["rh"]
                  /\ reg' = [reg EXCEPT !["rs"] = Down(rs, 5), !["gp"] = TrapCode[pend]]
                  /\ frames' = Entered \o frames
             ELSE /\ phase' = "kernel" /\ pend' = "Level2PageFault"
                  /\ Set("rs", Down(rs, Cardinality(Written) + 1))
                  /\ UNCHANGED <<pc, frames>>

\* Without an emulated kernel the machine stops.
Stop == phase = "kernel" /\ phase' = "stopped" /\ UNCHANGED <<reg, pc, flags, pend, mem, frames, left>>

Next == FetchOpcode \/ Handler \/ TrapEntry \/ Stop

Spec == Init /\ [][Next]_vars

----------------------------------------------------------------------------
(* Properties *)

C == INSTANCE Cpu WITH Zero <- 0, PageTable <- 0, errh <- 0, loaded <- FALSE

\* The machine with a stack does what the processor with open memory may do:
\* what is proved of Cpu holds of it.
IsCpu == C!Spec

\* As long as a handler pops no more than it has pushed, what its trap has
\* saved is in memory as it was saved, with nested traps and all; so the
\* handler can read it there.
FramesIntact ==
  \A i \in 1 .. Len(frames) : LET f == frames[i]  at(n) == mem[Down(f.reg["rs"], n)] IN
    /\ at(2) = f.reg["gp"] /\ at(4) = f.reg["rp"] /\ at(5) = f.reg["rh"]
    /\ HasBit(at(1), 3) <=> f.vm

\* A handler returns with reth, with the stack it was called with.
Returns == Balanced /\ Len(frames') < Len(frames) /\ trap /\ ~trap'

\* Then every register is what it was when the trap came, rs too, which
\* pop_registers replaces while it pops; and so is the addressing mode.
RethRestores ==
  [][Returns => reg' = Head(frames).reg /\ vm' = Head(frames).vm]_vars

\* README.md:141, "reth can be used to return from a trap handler, which will
\* pop all registers and continue execution": what was interrupted goes on, at
\* its program counter and in its mode.
RethContinues ==
  [][Returns => pc' = Head(frames).pc /\ user' = Head(frames).user]_vars

=============================================================================
