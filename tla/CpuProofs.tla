------------------------------ MODULE CpuProofs ------------------------------
(***************************************************************************)
(* Proofs about Cpu, for every set of words, any contents and mapping of   *)
(* memory, with and without the emulated kernel.                           *)
(*                                                                         *)
(*   1. TypeOK is an invariant                                             *)
(*   2. PrivilegesKept and EntersSupervisorByTrap                          *)
(*   3. Sandboxed, from the inductive invariant SandboxInv                 *)
(***************************************************************************)
EXTENDS Cpu, TLAPS

USE DEF flags

----------------------------------------------------------------------------
(* 1. Type correctness *)

LEMMA FaultTypes ==
  ASSUME NEW tm \in TrapMode
  PROVE  Faults(tm) \subseteq TrapMode
BY DEF Faults, TrapMode, PageFaults

\* What a handler leaves behind when it is done or raises a trap.
EndsWell == \/ phase' = "fetch" /\ pend' = "none"
            \/ phase' = "trap" /\ pend' \in TrapMode

LEMMA ChangesType ==
  ASSUME TypeOK, NEW S
  PROVE  /\ Changes(S) => reg' \in [Reg -> Word]
         /\ UNCHANGED reg => reg' \in [Reg -> Word]
BY DEF TypeOK, Changes

LEMMA HandlerType ==
  ASSUME TypeOK, Handler
  PROVE  /\ EndsWell /\ reg' \in [Reg -> Word]
         /\ user' \in BOOLEAN /\ trap' \in BOOLEAN /\ vm' \in BOOLEAN
<1> USE DEF EndsWell, Done, Raise
<1>1. "rs" \in Reg /\ "gp" \in Reg
  BY DEF Reg
<1>2. /\ Faults("IllegalExecute") \subseteq TrapMode
      /\ Faults("IllegalRead") \subseteq TrapMode
      /\ Faults("IllegalWrite") \subseteq TrapMode
  BY FaultTypes DEF TrapMode
<1>3. {"Invalid", "IllegalOperation", "Halt", "SysCall", "ZeroDiv", "IllegalHandlerReturn"}
        \subseteq TrapMode
  BY DEF TrapMode
<1>4. BadOperand \/ BadSource => EndsWell /\ reg' \in [Reg -> Word]
  BY <1>2, <1>3 DEF BadOperand, BadSource, TypeOK
<1>5. CASE Null \/ Halt \/ SysCall \/ Ctf \/ Mode
  BY <1>3, <1>5 DEF Null, Halt, SysCall, Ctf, Mode, TypeOK
<1>6. CASE Physical
  BY <1>1, <1>3, <1>4, <1>6, ChangesType DEF Physical, TypeOK
<1>7. CASE Compute
  BY <1>3, <1>4, <1>7, ChangesType DEF Compute, TypeOK
<1>8. CASE LoadMem
  BY <1>2, <1>3, <1>4, <1>8, ChangesType DEF LoadMem, TypeOK
<1>9. CASE StoreMem
  BY <1>2, <1>3, <1>4, <1>9 DEF StoreMem, TypeOK
<1>10. CASE Push
  BY <1>1, <1>2, <1>3, <1>4, <1>10, ChangesType DEF Push, TypeOK
<1>11. CASE Pop
  BY <1>1, <1>2, <1>3, <1>4, <1>11, ChangesType DEF Pop, TypeOK
<1>12. CASE Reth
  BY <1>1, <1>2, <1>3, <1>12, ChangesType DEF Reth, TypeOK
<1> QED
  BY <1>5, <1>6, <1>7, <1>8, <1>9, <1>10, <1>11, <1>12 DEF Handler

LEMMA NextType == TypeOK /\ [Next]_vars => TypeOK'
<1> SUFFICES ASSUME TypeOK, [Next]_vars PROVE TypeOK'
  OBVIOUS
<1>1. Faults("IllegalExecute") \subseteq TrapMode
  BY FaultTypes DEF TrapMode
<1>2. "rs" \in Reg /\ "gp" \in Reg
  BY DEF Reg
<1>3. \A tm \in TrapMode : tm # "none"
  BY DEF TrapMode, PageFaults
<1>4. CASE FetchOpcode
  BY <1>1, <1>3, <1>4 DEF FetchOpcode, TypeOK, Phase
<1>5. CASE Handler
  <2>1. UNCHANGED <<pc, errh, loaded>>
    BY <1>5 DEF Handler
  <2> QED
    BY <2>1, <1>3, <1>5, HandlerType DEF EndsWell, TypeOK, Phase
<1>6. CASE TrapEntry
  <2>1. reg["rh"] \in Word
    BY DEF TypeOK, Reg
  <2>2. PageFaults \cup {"IllegalWrite"} \subseteq TrapMode
    BY DEF TrapMode
  <2> QED
    BY <2>1, <2>2, <1>2, <1>3, <1>6, ChangesType DEF TrapEntry, Done, TypeOK, Phase
<1>7. CASE Kernel
  BY <1>2, <1>3, <1>7, ChangesType DEF Kernel, Stop, Resume, Done, TypeOK, Phase
<1>8. CASE UNCHANGED vars
  BY <1>8 DEF vars, TypeOK
<1> QED
  BY <1>4, <1>5, <1>6, <1>7, <1>8 DEF Next

\* Every variable keeps its type, and a trap is pending exactly between the
\* moment it is raised and the moment it has been dealt with.
THEOREM TypeCorrect == Spec => []TypeOK
<1>1. Init => TypeOK
  BY WordAssumption DEF Init, TypeOK, Phase
<1> QED
  BY <1>1, NextType, PTL DEF Spec

----------------------------------------------------------------------------
(* 2. Privileges *)

\* In user mode a handler changes neither the privileged registers nor the
\* virtual mode, nor does it leave user mode.
LEMMA UserHandler ==
  ASSUME TypeOK, Handler, user
  PROVE  /\ reg'["rp"] = reg["rp"] /\ reg'["rh"] = reg["rh"]
         /\ vm' = vm /\ user'
<1> USE DEF Done, Raise
<1>1. \A r \in Reg : Writable(r) => r # "rp" /\ r # "rh"
  BY DEF Writable, Privileged
<1>2. ASSUME NEW S, "rp" \notin S, "rh" \notin S, Changes(S)
      PROVE  reg'["rp"] = reg["rp"] /\ reg'["rh"] = reg["rh"]
  BY <1>2 DEF Changes, Reg
<1>4. "rs" \in Reg
  BY DEF Reg
<1>5. BadOperand \/ BadSource => UNCHANGED reg
  BY DEF BadOperand, BadSource
<1>6. CASE Null \/ Halt \/ SysCall \/ Ctf \/ Mode
  BY <1>6 DEF Null, Halt, SysCall, Ctf, Mode
<1>7. CASE Physical
  BY <1>7 DEF Physical
<1>8. CASE Compute
  BY <1>1, <1>2, <1>5, <1>8 DEF Compute
<1>9. CASE LoadMem
  BY <1>1, <1>2, <1>5, <1>9 DEF LoadMem
<1>10. CASE StoreMem
  BY <1>10 DEF StoreMem
<1>11. CASE Push
  BY <1>2, <1>4, <1>5, <1>11 DEF Push
<1>12. CASE Pop
  BY <1>1, <1>2, <1>4, <1>5, <1>12 DEF Pop
<1>13. CASE Reth
  BY <1>2, <1>4, <1>13 DEF Reth
<1> QED
  BY <1>6, <1>7, <1>8, <1>9, <1>10, <1>11, <1>12, <1>13 DEF Handler

LEMMA TrapEntryRegs ==
  ASSUME TypeOK, TrapEntry
  PROVE  reg'["rp"] = reg["rp"] /\ reg'["rh"] = reg["rh"]
BY DEF TrapEntry, Changes, Reg

LEMMA KernelRegs ==
  ASSUME TypeOK, Kernel
  PROVE  reg'["rp"] = reg["rp"] /\ reg'["rh"] = reg["rh"] /\ vm' = vm
BY DEF Kernel, Stop, Resume, Changes, Reg

LEMMA StepKeepsPrivileges ==
  TypeOK /\ [Next]_vars =>
    [user => reg'["rp"] = reg["rp"] /\ reg'["rh"] = reg["rh"] /\ vm' = vm]_vars
<1> SUFFICES ASSUME TypeOK, Next, user
             PROVE  reg'["rp"] = reg["rp"] /\ reg'["rh"] = reg["rh"] /\ vm' = vm
  OBVIOUS
<1>1. CASE FetchOpcode
  BY <1>1 DEF FetchOpcode
<1>2. CASE Handler
  BY <1>2, UserHandler
<1>3. CASE TrapEntry
  BY <1>3, TrapEntryRegs DEF TrapEntry
<1>4. CASE Kernel
  BY <1>4, KernelRegs
<1> QED
  BY <1>1, <1>2, <1>3, <1>4 DEF Next

\* A user program moves neither the page table nor the trap handler and does
\* not switch translation off, with or without a kernel, whatever it executes.
THEOREM UserKeepsPrivileges == Spec => PrivilegesKept
BY TypeCorrect, StepKeepsPrivileges, PTL DEF Spec, PrivilegesKept

LEMMA StepEntersByTrap ==
  TypeOK /\ [Next]_vars =>
    [user /\ ~user' => /\ phase = "trap" /\ trap'
                       /\ \/ phase' = "kernel"
                          \/ reg["rh"] # Zero /\ pc' = reg["rh"]]_vars
<1> SUFFICES ASSUME TypeOK, Next, user, ~user'
             PROVE  /\ phase = "trap" /\ trap'
                    /\ \/ phase' = "kernel"
                       \/ reg["rh"] # Zero /\ pc' = reg["rh"]
  OBVIOUS
<1>1. CASE FetchOpcode
  BY <1>1 DEF FetchOpcode
<1>2. CASE Handler
  BY <1>2, UserHandler
<1>3. CASE TrapEntry
  BY <1>3 DEF TrapEntry
<1>4. CASE Kernel
  BY <1>4 DEF Kernel, Stop, Resume
<1> QED
  BY <1>1, <1>2, <1>3, <1>4 DEF Next

\* The only way from user to supervisor mode is the trap entry.
THEOREM SupervisorOnlyByTrap == Spec => EntersSupervisorByTrap
BY TypeCorrect, StepEntersByTrap, PTL DEF Spec, EntersSupervisorByTrap

----------------------------------------------------------------------------
(* 3. The sandbox of the emulated kernel.  Inductive: what holds between
   instructions, and what of it still holds while a trap is on its way. *)

SandboxInv ==
  loaded =>
    /\ vm /\ reg["rh"] = Zero /\ reg["rp"] = PageTable
    /\ phase \in {"fetch", "handler"} => user /\ ~trap
    /\ phase = "trap" => user

LEMMA InitSandbox == Init => SandboxInv
BY DEF Init, SandboxInv

LEMMA NextSandbox == TypeOK /\ SandboxInv /\ [Next]_vars => SandboxInv'
<1> SUFFICES ASSUME TypeOK, SandboxInv, [Next]_vars, loaded' PROVE SandboxInv'
  BY DEF SandboxInv
<1>0. loaded
  BY DEF Next, FetchOpcode, Handler, TrapEntry, Kernel, vars
<1>1. CASE FetchOpcode
  BY <1>0, <1>1 DEF FetchOpcode, SandboxInv
<1>2. CASE Handler
  <2>1. user /\ ~trap /\ phase = "handler"
    BY <1>0, <1>2 DEF Handler, SandboxInv
  <2>2. /\ reg'["rp"] = reg["rp"] /\ reg'["rh"] = reg["rh"] /\ vm' = vm /\ user'
    BY <1>2, <2>1, UserHandler
  <2>3. ~trap'
    BY <1>2, <2>1 DEF Handler, Null, Halt, SysCall, Ctf, Mode, Physical, Compute,
       LoadMem, StoreMem, Push, Pop, Reth
  <2> QED
    BY <1>0, <2>2, <2>3 DEF SandboxInv
<1>3. CASE TrapEntry
  <2>1. phase' = "kernel"
    BY <1>0, <1>3 DEF TrapEntry, SandboxInv
  <2> QED
    BY <2>1, <1>0, <1>3, TrapEntryRegs DEF TrapEntry, SandboxInv
<1>4. CASE Kernel
  <2>1. phase' = "stopped" \/ (phase' = "fetch" /\ user' /\ ~trap')
    BY <1>4 DEF Kernel, Stop, Resume, Done
  <2> QED
    BY <2>1, <1>0, <1>4, KernelRegs DEF SandboxInv
<1>5. CASE UNCHANGED vars
  BY <1>5 DEF vars, SandboxInv
<1> QED
  BY <1>1, <1>2, <1>3, <1>4, <1>5 DEF Next

\* Under the emulated kernel no instruction is ever executed in supervisor
\* mode, without translation, through another page table or inside a trap.
THEOREM ProgramsAreSandboxed == Spec => []Sandboxed
<1>1. Init => TypeOK /\ SandboxInv
  BY InitSandbox, WordAssumption DEF Init, TypeOK, Phase
<1>2. TypeOK /\ SandboxInv /\ [Next]_vars => (TypeOK /\ SandboxInv)'
  BY NextType, NextSandbox
<1>3. SandboxInv => Sandboxed
  BY DEF SandboxInv, Sandboxed
<1> QED
  BY <1>1, <1>2, <1>3, PTL DEF Spec
=============================================================================
