------------------------------ MODULE Debugger ------------------------------
(***************************************************************************)
(* tdbg (src/bin/tdbg.rs): before every instruction the debugger compares  *)
(* the nesting it has counted with the one it waits for, and prompts when  *)
(* they are the same.  The program it runs is one under the emulated       *)
(* kernel, in user mode, reduced to what decides where it goes: the        *)
(* program counter, rl, the values of rl on the stack, the error handler.  *)
(***************************************************************************)
EXTENDS Disassembler, Sequences, FiniteSets, SequencesExt

CONSTANTS
  Room,     \* values of rl the stack has room for
  MaxDepth  \* bound of the instances: calls without return, returns without call

VARIABLES
  job,      \* the object and the options of the tools
  stage,    \* "disassemble", "prompt", "execute", or how the session has ended
  current,  \* current_nesting
  target,   \* target_nesting
  pc, rl,
  saved,    \* the values of rl on the stack
  handler,  \* error_handler of the kernel
  frames,   \* history: the return locations of the calls that have not returned
  asked,    \* history: the last command, and where it was given
  odd       \* history: what has happened that a listing does not foresee

vars == <<stage, current, target, pc, rl, saved, handler, frames, asked, odd>>
program == <<pc, rl, saved, handler, frames, odd>>

Nothing == [cmd |-> "none", pc |-> 0, frames |-> <<>>]
None == -1

\* -E: the first global symbol of the name, or else the first local one; a name
\* that does not exist changes nothing, and there may be no entry point.
Named(name) == { i \in DOMAIN job.syms : job.syms[i].name = name }
Best(ids) == LET globals == { i \in ids : job.syms[i].global }
                 of == IF globals = {} THEN ids ELSE globals
             IN CHOOSE i \in of : \A k \in of : i <= k
Start == IF Named(job.start) # {} THEN job.syms[Best(Named(job.start))].loc
         ELSE IF job.entry = None THEN 0 ELSE job.entry

Init ==
  /\ stage = "disassemble" /\ current = 0 /\ target = 0
  /\ pc = Start /\ rl = 0 /\ saved = <<>> /\ handler = 0
  /\ frames = <<>> /\ asked = Nothing /\ odd = {}

Ins == job.code[pc]
NextNesting == current + NestingDifference[Ins.op]

\* A trap of the disassembler is unwrapped, handler or not.
Unreadable ==
  /\ stage = "disassemble" /\ ~Fetchable(job.code, pc)
  /\ stage' = "panic"
  /\ UNCHANGED <<job, current, target, asked, program>>

Disassemble ==
  /\ stage = "disassemble" /\ Fetchable(job.code, pc)
  /\ stage' = IF current = target THEN "prompt" ELSE "execute"
  /\ UNCHANGED <<job, current, target, asked, program>>

TargetCurrent(c) == IF c = "stepin" THEN NextNesting ELSE current   \* faulty variant
Target(c) == CASE c = "next" -> current [] c = "stepin" -> NextNesting [] c = "stepout" -> current - 1
Command(c) ==
  /\ stage = "prompt" /\ c \in {"next", "stepin", "stepout"}
  /\ target' = Target(c)
  /\ asked' = [cmd |-> c, pc |-> pc, frames |-> frames]
  /\ stage' = "execute"
  /\ UNCHANGED <<job, current, program>>

\* g moves the program counter and prompts again, at the same nesting.
Goto(a) ==
  /\ stage = "prompt" /\ a \in job.goto
  /\ pc' = a /\ stage' = "disassemble"
  /\ asked' = Nothing /\ odd' = odd \cup {"goto"}
  /\ UNCHANGED <<job, current, target, rl, saved, handler, frames>>

Quit ==
  /\ stage = "prompt" /\ stage' = "quit"
  /\ UNCHANGED <<job, current, target, asked, program>>

\* r unwraps what it reads as well, where nothing may be read.
ReadUnmapped ==
  /\ stage = "prompt" /\ stage' = "panic"
  /\ UNCHANGED <<job, current, target, asked, program>>

----------------------------------------------------------------------------
(* execute_once, of an instruction that has been fetched *)

After == NextLocation(job.code, pc)
Bounded == Len(frames) < MaxDepth /\ current > -MaxDepth
GoesOn ==
  /\ stage = "execute" /\ Bounded
  /\ current' = NextNesting /\ stage' = "disassemble"
  /\ UNCHANGED <<job, target, asked>>

Step ==
  /\ GoesOn /\ Ins.op \in {"plain", "access", "binop", "ldi", "jcc", "syscall"}
  /\ pc' = After
  /\ UNCHANGED <<rl, saved, handler, frames, odd>>

Jump ==
  /\ GoesOn /\ Ins.op \in {"jmp", "jcc"}
  /\ pc' = Ins.w
  /\ UNCHANGED <<rl, saved, handler, frames, odd>>

Call ==
  /\ GoesOn /\ Ins.op = "call"
  /\ rl' = After /\ pc' = Ins.w
  /\ frames' = Append(frames, After)
  /\ UNCHANGED <<saved, handler, odd>>

\* To the one who looks, a return is to where the last call came from.
Return ==
  /\ GoesOn /\ Ins.op = "ret"
  /\ pc' = rl
  /\ frames' = IF frames = <<>> THEN frames ELSE Front(frames)
  /\ odd' = IF frames # <<>> /\ Last(frames) = rl THEN odd ELSE odd \cup {"return"}
  /\ UNCHANGED <<rl, saved, handler>>

\* jmp rl returns too, and nothing counts it.
JumpLink ==
  /\ GoesOn /\ Ins.op = "jmpl"
  /\ pc' = rl /\ odd' = odd \cup {"return"}
  /\ UNCHANGED <<rl, saved, handler, frames>>

SaveLink ==
  /\ GoesOn /\ Ins.op = "push" /\ Len(saved) < Room
  /\ pc' = After /\ saved' = Append(saved, rl)
  /\ UNCHANGED <<rl, handler, frames, odd>>
RestoreLink ==
  /\ GoesOn /\ Ins.op = "pop" /\ saved # <<>>
  /\ pc' = After /\ rl' = Last(saved) /\ saved' = Front(saved)
  /\ UNCHANGED <<handler, frames, odd>>

\* System call 15.
SetHandler ==
  /\ GoesOn /\ Ins.op = "syscall" /\ job.handler # 0
  /\ pc' = After /\ handler' = job.handler
  /\ UNCHANGED <<rl, saved, frames, odd>>

\* What ends in a trap: always, for want of stack, or for what it computes.
MayTrap ==
  \/ Ins.op \in {"null", "halt", "syscall", "reth", "privileged", "access", "binop", "ldi"}
  \/ Ins.op = "push" /\ Len(saved) = Room
  \/ Ins.op = "pop" /\ saved = <<>>
\* The kernel sends it to the error handler, except for a halt and for a system
\* call that ends the program.
Trap ==
  /\ GoesOn /\ MayTrap /\ Ins.op \notin {"halt", "syscall"} /\ handler # 0
  /\ pc' = handler /\ odd' = odd \cup {"handler"}
  /\ UNCHANGED <<rl, saved, handler, frames>>
End ==
  /\ stage = "execute" /\ MayTrap /\ (handler = 0 \/ Ins.op \in {"halt", "syscall"})
  /\ stage' = "ended"
  /\ UNCHANGED <<job, current, target, asked, program>>

Execute ==
  Step \/ Jump \/ Call \/ Return \/ JumpLink \/ SaveLink \/ RestoreLink \/ SetHandler \/ Trap \/ End

Next ==
  \/ Unreadable \/ Disassemble \/ Quit \/ ReadUnmapped \/ Execute
  \/ \E c \in {"next", "stepin", "stepout"} : Command(c)
  \/ \E a \in job.goto : Goto(a)

----------------------------------------------------------------------------
(* Properties *)

\* Where the debugger prompts again is where it was asked to go, as long as the
\* program returns by ret to where it was called from: next on a call comes to
\* the instruction after it, in the same activation and behind any recursion;
\* next on another instruction that is no ret stays in the activation; stepin
\* goes into a call and no further; stepout comes to where the activation was
\* called from.  (next on a ret runs on to the next call of the caller.)
StepsLandRight ==
  stage = "prompt" /\ "return" \notin odd /\ asked # Nothing =>
    LET op == job.code[asked.pc].op
        behind == NextLocation(job.code, asked.pc)
    IN CASE asked.cmd = "next" /\ op = "call" -> pc = behind /\ frames = asked.frames
         [] asked.cmd = "next" /\ op \notin {"call", "ret"} -> frames = asked.frames
         [] asked.cmd = "stepin" /\ op = "call" ->
              pc = job.code[asked.pc].w /\ frames = Append(asked.frames, behind)
         [] asked.cmd = "stepin" /\ op = "ret" -> Append(frames, pc) = asked.frames
         [] asked.cmd = "stepout" -> Append(frames, pc) = asked.frames
         [] OTHER -> TRUE
=============================================================================
