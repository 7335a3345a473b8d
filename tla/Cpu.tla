-------------------------------- MODULE Cpu --------------------------------
(***************************************************************************)
(* The processor (src/blf4/mod.rs), the instructions that touch its        *)
(* control state (src/blf4/isa/handlers.rs), the loop of the machine       *)
(* (src/machine/mod.rs) and the emulated kernel (EKernel::handle_trap in   *)
(* src/blf4/std_kernel.rs).                                                *)
(*                                                                         *)
(* Memory is left open: a fetch, a read or a write may raise any trap that *)
(* addr_resolve can raise in the current mode, and a popped or loaded word *)
(* may be any word.  What is proved here therefore holds whatever is in    *)
(* memory and however it is mapped.  Arithmetic flags are left out.        *)
(*                                                                         *)
(* One instruction is several steps: the fetch of the opcode, the handler, *)
(* then for an instruction that trapped the trap entry of                  *)
(* execute_instruction, and last the emulated kernel when the error comes  *)
(* out of execute_instruction.                                             *)
(***************************************************************************)
CONSTANTS
  Word,       \* values of a wide register
  Zero,       \* the word 0
  PageTable   \* where load_user_binary puts the level-one page table

ASSUME WordAssumption == Zero \in Word /\ PageTable \in Word

\* gp stands for the registers without a role: r1..r10, rl and rf.
Reg        == {"gp", "rs", "rp", "rh"}
Privileged == {"rp", "rh"}

PageFaults == {"Level1PageFault", "Level2PageFault"}
TrapMode   == PageFaults \cup
  {"Invalid", "SysCall", "ZeroDiv", "Halt", "IllegalOperation", "IllegalRead",
   "IllegalWrite", "IllegalExecute", "IllegalHandlerReturn"}

VARIABLES
  reg,    \* the registers
  pc,     \* the program counter
  user,   \* flags.user_mode
  trap,   \* flags.trap
  vm,     \* flags.virtual_mode
  errh,   \* EKernel::error_handler
  phase,  \* where the instruction is
  pend,   \* the trap being raised, or "none"
  loaded  \* TRUE: load_user_binary has run; FALSE: a bare machine

vars  == <<reg, pc, user, trap, vm, errh, phase, pend, loaded>>
flags == <<user, trap, vm>>

\* "stopped": run_until_abort has returned pend.
Phase == {"fetch", "handler", "trap", "kernel", "stopped"}

TypeOK ==
  /\ reg \in [Reg -> Word] /\ pc \in Word
  /\ user \in BOOLEAN /\ trap \in BOOLEAN /\ vm \in BOOLEAN
  /\ errh \in Word /\ loaded \in BOOLEAN
  /\ phase \in Phase /\ pend \in TrapMode \cup {"none"}
  /\ phase \in {"trap", "kernel", "stopped"} <=> pend # "none"

\* Blf4::new, and what load_user_binary sets; the rest is random.
Init ==
  /\ reg \in [Reg -> Word] /\ reg["rh"] = Zero
  /\ loaded \in BOOLEAN
  /\ loaded => reg["rp"] = PageTable
  /\ pc \in Word
  /\ user = loaded /\ vm = loaded
  /\ trap = FALSE
  /\ errh = Zero
  /\ phase = "fetch" /\ pend = "none"

----------------------------------------------------------------------------
(* Accesses, registers and the end of a handler *)

\* The traps addr_resolve may raise in the current mode.
Faults(illegal) ==
  IF ~vm THEN {}
  ELSE PageFaults \cup {illegal} \cup (IF user THEN {"IllegalOperation"} ELSE {})

\* Faulty variant of Done: the trap stays pending.
DoneStale == phase' = "fetch" /\ pend' = pend

\* The handler returned Ok, or a trap.
Done        == phase' = "fetch" /\ pend' = "none"
Raise(tm)   == phase' = "trap" /\ pend' = tm

\* Faulty variant of Writable: the page table pointer is forgotten.
WritableRp(r) == ~user \/ r # "rh"

\* write_wr: rp and rh are out of reach in user mode.
Writable(r) == ~user \/ r \notin Privileged

\* The registers in S get new values, whatever they are.
Changes(S)  == reg' \in [Reg -> Word] /\ \A r \in Reg \ S : reg'[r] = reg[r]

\* The instruction's own bytes: an operand that cannot be fetched, or one
\* with a nibble that has to be zero.  It comes before any effect.
BadOperand == \E tm \in Faults("IllegalExecute") \cup {"Invalid"} :
                Raise(tm) /\ UNCHANGED reg

\* read_wr of rp or rh in user mode.
BadSource == user /\ Raise("IllegalOperation") /\ UNCHANGED reg

----------------------------------------------------------------------------
(* Fetching the opcode.  The program counter moves on past the instruction,
   or to wherever the last one jumped.  A trap here leaves execute_instruction
   at once: the trap entry is not reached. *)

FetchOpcode ==
  /\ phase = "fetch"
  /\ pc' \in Word
  /\ \/ phase' = "handler" /\ pend' = "none"
     \/ \E tm \in Faults("IllegalExecute") : phase' = "kernel" /\ pend' = tm
  /\ UNCHANGED <<reg, flags, errh, loaded>>

----------------------------------------------------------------------------
(* The handlers.  Each leaves pc and errh alone. *)

Null    == Raise("Invalid") /\ UNCHANGED <<reg, flags>>
Halt    == Raise("Halt") /\ UNCHANGED <<reg, flags>>
SysCall == Raise("SysCall") /\ UNCHANGED <<reg, flags>>

Ctf == Done /\ trap' = FALSE /\ UNCHANGED <<reg, user, vm>>

\* usr, vmon, vmoff.
Mode ==
  /\ UNCHANGED <<reg, trap>>
  /\ \/ user /\ Raise("IllegalOperation") /\ UNCHANGED <<user, vm>>
     \/ ~user /\ Done /\ user' = TRUE /\ UNCHANGED vm
     \/ ~user /\ Done /\ vm' \in BOOLEAN /\ UNCHANGED user

\* pstore and pload: physical memory, in supervisor mode.
Physical ==
  /\ UNCHANGED flags
  /\ \/ user /\ Raise("IllegalOperation") /\ UNCHANGED reg
     \/ ~user /\ BadOperand
     \/ ~user /\ Done /\ Changes({"gp"})

\* ldi, the binary operations, and mul and div, which write two registers and
\* have written the first when the second turns out to be out of reach.
Compute ==
  /\ UNCHANGED flags
  /\ \/ BadOperand \/ BadSource
     \/ Raise("ZeroDiv") /\ UNCHANGED reg
     \/ \E r \in Reg : IF Writable(r) THEN Done /\ Changes({r})
                                      ELSE Raise("IllegalOperation") /\ UNCHANGED reg
     \/ \E r, s \in Reg :
          /\ Writable(r)
          /\ IF Writable(s) THEN Done /\ Changes({r, s})
                            ELSE Raise("IllegalOperation") /\ Changes({r})

\* load; jumps are covered by FetchOpcode, call and ret by Compute (rl, rs).
LoadMem ==
  /\ UNCHANGED flags
  /\ \/ BadOperand \/ BadSource
     \/ \E tm \in Faults("IllegalRead") : Raise(tm) /\ UNCHANGED reg
     \/ \E r \in Reg : IF Writable(r) THEN Done /\ Changes({r})
                                      ELSE Raise("IllegalOperation") /\ UNCHANGED reg

StoreMem ==
  /\ UNCHANGED <<reg, flags>>
  /\ \/ BadOperand \/ BadSource
     \/ \E tm \in Faults("IllegalWrite") : Raise(tm)
     \/ Done

\* push: rs has moved when the write traps.
Push ==
  /\ UNCHANGED flags
  /\ \/ BadOperand \/ BadSource
     \/ /\ Changes({"rs"})
        /\ Done \/ \E tm \in Faults("IllegalWrite") : Raise(tm)

\* pop: rs has moved when the register turns out to be out of reach.
Pop ==
  /\ UNCHANGED flags
  /\ \/ BadOperand
     \/ \E tm \in Faults("IllegalRead") : Raise(tm) /\ UNCHANGED reg
     \/ \E r \in Reg : IF Writable(r) THEN Done /\ Changes({"rs", r})
                                      ELSE Raise("IllegalOperation") /\ Changes({"rs"})

\* Faulty variant of Reth: only the flags are popped, without the registers
\* whose restoring stops a reth in user mode.
RethFlagsFirst ==
  \/ ~trap /\ Raise("IllegalHandlerReturn") /\ UNCHANGED <<reg, flags>>
  \/ trap /\ Done /\ trap' = FALSE /\ user' \in BOOLEAN /\ vm' \in BOOLEAN /\ UNCHANGED reg

\* reth: pop_registers writes the registers one after the other, then the
\* flags, whose user and virtual bits come from the stack.
Reth ==
  \/ ~trap /\ Raise("IllegalHandlerReturn") /\ UNCHANGED <<reg, flags>>
  \/ /\ trap /\ user
     /\ UNCHANGED flags
     /\ \/ \E tm \in Faults("IllegalRead") : Raise(tm) /\ UNCHANGED reg
        \/ Raise("IllegalOperation") /\ Changes({"rs"})
  \/ /\ trap /\ ~user
     /\ \E tm \in Faults("IllegalRead") : Raise(tm)
     /\ Changes(Reg)
     /\ UNCHANGED flags
  \/ /\ trap /\ ~user
     /\ Done
     /\ Changes(Reg)
     /\ user' \in BOOLEAN /\ vm' \in BOOLEAN
     /\ trap' = FALSE

Handler ==
  /\ phase = "handler"
  /\ UNCHANGED <<pc, errh, loaded>>
  /\ \/ Null \/ Halt \/ SysCall \/ Ctf \/ Mode \/ Physical \/ Compute
     \/ LoadMem \/ StoreMem \/ Push \/ Pop \/ Reth

----------------------------------------------------------------------------
(* The trap entry of execute_instruction: with no handler the trap goes to
   the machine.  Otherwise the registers are pushed in supervisor mode; a
   trap of a push goes to the machine too, with rs moved. *)

TrapEntry ==
  /\ phase = "trap"
  /\ trap' = TRUE /\ user' = FALSE
  /\ UNCHANGED <<vm, errh, loaded>>
  /\ \/ /\ reg["rh"] = Zero
        /\ phase' = "kernel"
        /\ UNCHANGED <<reg, pc, pend>>
     \/ /\ reg["rh"] # Zero
        /\ Changes({"rs", "gp"})
        /\ pc' = reg["rh"]
        /\ Done
     \/ /\ reg["rh"] # Zero /\ vm
        /\ Changes({"rs"})
        /\ phase' = "kernel"
        /\ pend' \in PageFaults \cup {"IllegalWrite"}
        /\ UNCHANGED pc

----------------------------------------------------------------------------
(* Machine::execute_once and EKernel::handle_trap *)

Stop == phase' = "stopped" /\ UNCHANGED <<reg, pc, flags, errh, pend>>

\* Faulty variant of Resume: the trap flag is left set.
ResumeInTrap == Done /\ user' = TRUE /\ UNCHANGED <<trap, vm>>

Resume == Done /\ trap' = FALSE /\ user' = TRUE /\ UNCHANGED vm

Kernel ==
  /\ phase = "kernel"
  /\ UNCHANGED loaded
  /\ \/ ~loaded /\ Stop
     \/ /\ loaded /\ pend = "SysCall"
        /\ \/ Stop                                        \* unknown number
           \/ Resume /\ UNCHANGED <<reg, pc, errh>>       \* 0 and 4
           \/ /\ Resume                                   \* 3
              /\ Changes({"gp"})
              /\ UNCHANGED <<pc, errh>>
           \/ Resume /\ errh' \in Word /\ UNCHANGED <<reg, pc>>   \* 15
     \/ loaded /\ pend = "Halt" /\ Stop
     \/ /\ loaded /\ pend \notin {"SysCall", "Halt"}
        /\ IF errh = Zero THEN Stop
           ELSE /\ Resume /\ pc' = errh
                /\ Changes({"gp"})
                /\ UNCHANGED errh

Next == FetchOpcode \/ Handler \/ TrapEntry \/ Kernel

Spec == Init /\ [][Next]_vars

----------------------------------------------------------------------------
(* Properties *)

\* While user mode is on, no step changes where the page table or the trap
\* handler is or turns translation off: not the instructions that check for
\* it, not one that traps half-way, not a reth in user mode.
PrivilegesKept ==
  [][user => /\ reg'["rp"] = reg["rp"] /\ reg'["rh"] = reg["rh"]
             /\ vm' = vm]_vars

\* Supervisor mode is only entered with a trap: with the trap flag set and
\* then either at the trap handler or out of the processor.
EntersSupervisorByTrap ==
  [][user /\ ~user' => /\ phase = "trap" /\ trap'
                       /\ \/ phase' = "kernel"
                          \/ reg["rh"] # Zero /\ pc' = reg["rh"]]_vars

\* Under the emulated kernel every instruction of the program starts and is
\* carried out in user mode, translated by the table the loader built, with no
\* trap handler and outside of a trap, whatever the program has done before.
Sandboxed ==
  loaded /\ phase \in {"fetch", "handler"} =>
    user /\ vm /\ ~trap /\ reg["rh"] = Zero /\ reg["rp"] = PageTable

\* README.md:141, "when a trap is triggered, the program counter will be set
\* to `rh`": an illegal execute trap does not stop a machine with a handler.
\* (The trap entry itself only writes, and cannot raise this one.)
ExecuteTrapsAreHandled ==
  phase = "stopped" /\ pend = "IllegalExecute" => reg["rh"] = Zero

=============================================================================
