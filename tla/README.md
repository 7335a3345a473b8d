# Verification of telda

telda is a small 16-bit computer in software: an assembler (`tc`), a linker
(`tl`), an emulator of the processor `blf4` with two-level virtual memory, an
emulated kernel that loads object files and answers traps, and tools to look at
object files.  This directory holds TLA+ models of it, TLC runs that check them
on small instances, and proofs, checked by TLAPS, of what holds for every
instance.  All paths below are relative to the repository.

## 1. Inventory

| Part | Source | State | Operations |
|---|---|---|---|
| loader, page allocator | `src/blf4/std_kernel/load_user_binary.rs`, `src/blf4/std_kernel.rs` | `page_bumper`, the two levels of the page table, page contents | `load_user_binary`, `MmapBuilder::map`, `add_segment`, `map_wr_pages`, `allocate_page` |
| address translation | `src/blf4/mod.rs` | page-table flags (dirty) | `addr_resolve`, `read_entry`, `read`, `write`, `fetch` |
| processor control | `src/blf4/mod.rs`, `src/blf4/isa/handlers.rs` | registers, program counter, user/trap/virtual flags | `execute_instruction`, about 60 handlers, `push_registers`, `pop_registers` |
| ALU and jumps | `src/blf4/isa/handlers.rs` | carry, sign, overflow, zero | `binop_b/w`, `mul_*`, `div_*`, `jif` |
| emulated kernel | `src/blf4/std_kernel.rs` | `error_handler`, free list (unused) | `handle_trap` |
| machine | `src/machine/mod.rs` | processor, memory, kernel | `execute_once`, `run_until_abort` |
| memory, I/O ports | `src/mem.rs` | cells made on first use, ROM, ports | `read`, `write` |
| assembler | `src/source/*.rs`, `src/bin/tc.rs` | lines and size per segment, symbol table, errors, emitted bytes, label reads | `process`, `inner_process`, `Symbols::*`, `write_data_operand`, object writing |
| linker | `src/bin/tl.rs` | archived objects left, known globals, layout, symbol and relocation tables, undefined references | `read_archives`, the loops of `main`, `-E`, `-x` |
| file container, object | `src/aalv/*.rs`, `src/aalv/obj/*.rs` | section headers | `read_section`, `write_section`, `read_magic` |
| archives | `src/aalv/savn.rs`, `src/bin/tar.rs` | file position | `next`, packing |
| inspection | `src/disassemble.rs`, `src/bin/tobjdump.rs`, `src/bin/tdbg.rs`, `src/bin/tstrip.rs` | worklist of labels, nesting level | printing, stepping, stripping |

How they meet: `tc` writes objects, `tl` joins them (its output may be its
input again), the loader maps an executable object and starts the processor,
`Machine` alternates between `Cpu::execute_instruction` and
`Kernel::handle_trap`.  Everything is single-threaded.  What is hard to test is
therefore not races but

* *order*: which objects, symbols, lines and includes come first; which stores
  have set which dirty flags before;
* *partial failure*: a trap in the middle of an instruction, of a trap entry or
  of a `reth`; an error in one of several files;
* *boundaries*: mid-page segment ends, the end of the address space, u16
  arithmetic that panics in a debug build and wraps in a release build;
* *long sequences*: system calls, faults, `ctf` and `reth` in any order; an
  archive search that starts over after each inclusion; linking twice;
* *tables and passes that must agree*: sizes counted and bytes written, lengths
  summed and bytes copied, operands parsed, encoded, fetched and listed.

What makes each part correct:

* loader and MMU: a program sees one flat memory with the bytes and permissions
  its object asks for, no frame has two roles, a store changes one byte;
* processor and kernel: user mode cannot reach the page table pointer, the trap
  handler or the translation flag, and leaves only by a trap; under the kernel
  every instruction of a program runs translated and in user mode;
* assembler: labels and relocations stand for the bytes they were written for,
  and an object is written exactly for a source without errors;
* instructions: what the processor executes, and what the disassembler shows,
  is what the line of source said, operand by operand;
* linker: every reference holds the address of what it refers to, failure only
  for the documented reasons, the search is a least closure;
* arithmetic: results are exact numbers, whatever bytes the registers share,
  and a jump after a comparison decides on its operands;
* files: what is read is what was written, or somebody has noticed; a strip
  keeps the program; reading ends whatever a failed writer has left;
* inspection: each label is listed once, with its block, nothing that runs is missing, and a
  step of the debugger ends where its name says.

Each of these hazards is listed with its line and its properties in
`PROJECT.json`.

## 2. Modules

| Module | What it is |
|---|---|
| `UserSpace` | loader, allocator, page tables, and the memory accesses of the loaded program |
| `FlatMemory` | abstract specification: the memory a program is promised |
| `MCUserSpace` | small objects for `UserSpace` |
| `UserSpaceProofs` | proofs about `UserSpace`: types, frames, stores, what the loader promises, and the refinement of `FlatMemory` |
| `Cpu` | processor control state, all handlers, trap entry, machine loop, emulated kernel |
| `Traps` | trap entry and `reth` on the real stack, with a handler of the machine's own; implements `Cpu` |
| `CpuProofs` | proofs about `Cpu` |
| `TrapsProofs` | proofs about `Traps`: the stack, and the refinement of `Cpu` |
| `Alu`, `MCAlu` | arithmetic, flags, byte registers and conditional jumps |
| `AluProofs` | proofs about `Alu` |
| `Encoding` | mnemonics, operands and bytes of an instruction: documented, assembled, fetched, listed |
| `Assembler`, `MCAssembler` | `tc` (with `Encoding`), and its small sources |
| `ObjectFile`, `MCObjectFile` | files: container, object, archive, `tar`, `tstrip` |
| `Disassembler` | the control flow of an instruction, as `tobjdump` and `tdbg` see it |
| `ObjDump`, `Debugger` | `tobjdump -d`, and `tdbg` with the program under it |
| `Inspection`, `MCInspection` | one after the other on the same object, and small programs |
| `InspectionProofs` | proofs about `Inspection`, and so about `ObjDump` and `Debugger` |
| `Linker`, `MCLinker` | `tl`, and its small objects and archives |
| `LinkerProofs` | proofs about `Linker`: types, definitions, layout, search, what is written, and the verdict |
| `AssemblerProofs` | proofs about `Assembler`: types, sizes and segments, labels, relocations |
| `DataFacts` | lemmas on division, induction and `FlattenSeq` that several of the proofs use |

Definitions called "faulty variant" are not used by the models; each is a bug
that the property it is paired with (in `PROJECT.json`) must notice.

### UserSpace

The state is the object, the position of `load_user_binary` (`stage`, `todo`,
`item`), `page_bumper` as a frame number, the level-one table `l1` (frame 0),
the level-two tables `tab` by frame, the bytes `mem` by frame, and the outcome
of the program's last access.  One action per piece of the loader: the start of
a segment (`LoadSegment`), one round of the page loop (`MapPage`: `map` with
both allocations, the copy of the bytes and `step_by`), the end of a segment
and the heap behind it (`EndSegment`, `EndHeap`), the stack (`LoadStack`) and
the switch to user mode (`StartUser`).  Then `Read`, `Write` and `Trap` are one
byte access: `addr_resolve` with the dirty-bit update as it is written,
including the `zip` of two lists of different meaning.  A wide access is two of
them, as in the code.

A byte is named by its origin (byte *i* of the data segment, fresh, stored by
the program), so a misplaced copy shows.  Tables and bytes of a frame are kept
in separate variables; `NoAlias` is what justifies it, and is proved.

`FlatMemory` knows no frames and no tables: a memory that starts with the bytes
of the object, grants only what the object asks for, and is changed by nothing
but granted stores.  `UserSpace` implements it under the mapping `Flat`
(`IsFlatMemory`): `bytes` is what the walk of the tables finds.  `FlatMemory`
lets an access be refused without a reason; see finding 1 for why the code
needs that freedom.  A program is given up (`GiveUp`) only if it does not fit
its memory (`WellFormed`), which is where a build with overflow checks panics.

### Cpu

Registers are `rs`, `rp`, `rh` and one that stands for the general ones.
Memory is left open: an access may raise every trap `addr_resolve` can raise in
the current mode, a loaded word may be any word.  An instruction is the fetch
of its opcode (`FetchOpcode`), its handler (`Handler`, a disjunction of groups
of handlers with the same control effect), for a trap the trap entry
(`TrapEntry`) and the kernel (`Kernel`: `handle_trap` as called by
`execute_once`).  What a handler has changed when it traps half-way is changed:
`push` has moved `rs`, `mul` has written its first register, `reth` has
restored some.

### Traps

`Cpu` says that `reth` may restore anything.  `Traps` has the stack: a word of
memory is a stack slot, and `push_registers` is the sequence `Pushed` (flags,
`r1`..`r10`, `rs` with the value it has by then, `rp`, `rh`; `rl` and `rf` lie
between `rs` and `rp` and are left out).  `pop_registers` is a walk (`PopAt`)
that goes on from the `rs` it has just popped, and may trap at any of its pops
(`FirstTrap`); a push of the trap entry may find no memory (`Written`).
Translation is the identity with holes.  `frames` is a history variable: the
traps a handler is working on, and how many words it has pushed since.  A
handler that pops more, or loads `rs`, has given them up.  `Traps` implements
`Cpu` (`IsCpu`), so that what is proved of `Cpu` is about the real stack too.

### Alu

The general registers are a row of bytes (`bytes`), as in the code: a wide
register is two of them, the byte registers are halves of the first five and low
bytes of the others.  `Execute` is one instruction; the operations are on two
widths and every `overflowing_*` is a pair of an unsigned and a signed result.
`cmp` is a history variable: how the operands of the last `sub` compared, for as
long as its flags stand.  The processor is in user mode, so that reading or
writing `rp` or `rh` traps, in the middle of an instruction too.

### Encoding and Assembler

`Encoding` has no state.  An instruction is in four places that nothing in the
code keeps together: the alternatives of `parse_ins` with the operand forms
(`Alternatives`, `Form`, `Matches`), what `write_data_operand` makes of them
(`Encode`), what the handlers fetch (`Fetches`, `Executed`) and what the
disassembler prints (`Listed`).  `Signatures` is the table of the documentation
with all its mnemonics, those of a supervisor (`Supervisor`) included, and
`Documented` asks for as many operands as the table has; that is what the four
are compared with.  Where `tc` and the table disagree (findings 5 and 6) the
properties of the passing run say so in a precondition: `VerdictIsRight` is
about sources on whose instructions they agree (`Agreed`), `InstructionsSurvive`
about lines the table has a meaning for.  `Read` is `parse_number` with its
suffixes, `Value` the truncations; no document says how a number is spelled, so
both sides of the comparison read it like that.

`Assembler` has one action per directive or kind of line (`Segment`, `Entry`, `Label`,
`Declare`, `Data`, `Bad`, `IncludeFile`, `EndFile`), with the recursion of
`inner_process` as the stack `frames`; then `Resolve` (layout and symbols), one
`EmitLine` per line, and `EndEmit`.  `SizeOf` is the table of
`DataOperand::size`, and is not derived from what `Encode` writes: two tables in
the code, two here.  An emitted byte carries the line it was written for, so
"the label points at its line" is a statement about bytes; the bytes of an
instruction are its own, so `InstructionsSurvive` decodes what tc has written.

### Linker

One action per round of each loop of `tl`: `Include` (one inclusion of
`read_archives`), `LayoutSegment`, `EnterObject`, `AddSymbol`, `Relocate`,
`CopySegments`, `PatchUndefined`, `Finish`, with the ends of the loops, and
`Relink`, a second invocation that takes the output of the first as its first
input.  `ProgramIsRight` compares the output with a definition that knows
nothing of the loops: byte by byte, those of all objects in order, each
reference replaced by the address of its symbol (`Linked`, `Meaning`).  The
objects are those that `tc` wrote, in both invocations (`origin`).

`tc` also writes objects of which not everything means something: the entry
point or a label of a source can stand in front of the first segment or in a
segment without bytes (`src/source/mod.rs:500-508`), and a `.wide label` gets
the wrong place (finding 4).  The model links them as the code does, with the
panics at `src/bin/tl.rs:172` (`EnterObject`) and `src/bin/tl.rs:244`
(`Relocate`).  `Sound` says of an object that its labels are in segments it has
and its relocations at places of their own; `ProgramIsRight`, which needs to
know where a label is, is about programs of sound objects, `VerdictIsRight` in
the runs about all of them.

### ObjectFile

A file is a sequence of bytes; numbers, names and magics are shorter than in the
code, and lengths are written modulo `W`.  The writer is `WriteSection` to the
byte that `Drop` appends, through a buffer that is flushed at any time; each
flush may fail, and the process may be killed.  The reader is the search for the
magic as it is written, then one action per header and per section, with
every `?` and every slice out of bounds.  `tar` and `tstrip` are the same reader
and writer on files that are there already.

### Inspection

A program is a function from the locations that may be fetched to instructions,
which are reduced to their control flow (`Length`, `EndsBlock`, `Continues`).
`ObjDump` has the queue of labels and one action per listed instruction.
`Debugger` has the nesting counter of the command loop, every command that moves
or ends the session, and `execute_once`: calls, returns, jumps, and traps that
go to the error handler.  `Inspection` runs one after the other, which makes
`ListsWhatRuns` a statement about both: what the debugger stops at has been
listed.

## 3. Runs

| Run | Module | Question |
|---|---|---|
| `user_space` | MCUserSpace | Do well-formed objects become the flat memory they ask for, whatever the program then reads, fetches and writes, and does only a malformed one make a build with overflow checks panic? |
| `cpu` | Cpu | On a bare machine with any register content and on one with the kernel: is the privileged state out of reach of user mode, and under the kernel does every instruction run in user mode, translated? |
| `traps` | MCTraps | On the real stack, do nested handlers keep what is saved, does `reth` restore every register, and is each step one that `Cpu` allows? |
| `alu` | MCAlu | Are results exact and flags right, however registers share bytes, and do the jumps after a `sub` decide on its operands? |
| `assembler` | MCAssembler | Do labels, sizes, bytes, relocations and errors agree, and is each instruction executed and listed as it was written? |
| `linker` | MCLinker | Is the linked program the right one, also with archives and after a second invocation, and does `tl` fail only when it should? |
| `object_file` | MCObjectFile | Is what is read what was written, with failures, kills, archives and strips, and does reading end? |
| `inspection` | MCInspection | Does the listing have every block once and end, do steps land where they should, and is all that runs in the listing? |
| `level_one_flags`, `fetch_trap`, `reth_continues`, `linker_panic` | MCUserSpace, Cpu, MCTraps, MCLinker | findings 1 to 4 of section 5 |

Findings 5 to 11 have a configuration each, which is not among the runs of
`PROJECT.json`: `tlc -config AluProduct.cfg MCAlu`, for one, ends with a
counterexample of the property it names.

| Configuration | Module | Property | Finding |
|---|---|---|---|
| `AssemblerSupervisor.cfg` | MCAssembler | `SupervisorAssembles` | 5 |
| `AssemblerSurplus.cfg` | MCAssembler | `SurplusIsError` | 6 |
| `AluProduct.cfg` | MCAlu | `ProductAsDocumented` | 7 |
| `ObjectFileSizes.cfg` | MCObjectFile | `SizesReadBack` | 8 |
| `LinkerEntry.cfg` | MCLinker | `FirstEntryIsUsed` | 9 |
| `LinkerStart.cfg` | MCLinker | `StartSymbolIsDefined` | 10 |
| `LinkerArchive.cfg` | MCLinker | `OnlyReferenced` | 11 |

### Bounds, and why they are enough

* `UserSpace`: pages of 2 bytes, 2 level-one and 3 level-two entries, so six
  pages, 12 addresses, 9 frames.  The objects are chosen so that a segment
  begins and ends in mid-page, spans pages, shares a page with another one with
  other permissions, needs a second level-two table, is empty or of type zero;
  that the heap begins in mid-page or meets the stack; that there is no stack.
  `MaxFrame` is the only cap on a counter; `MemorySuffices` says that it never
  stops the loader.  The real memory has 2^17 frames for at most 512 pages and
  16 tables.
* `Cpu`: three words, so that 0, the page table and another one differ.  The
  state is finite without any bound.  `loaded` says which of the two machines a
  behaviour is about.
* `Traps`: six instructions, enough for a handler to be installed, a trap, a
  push, a trap of the handler and a `reth`; frames of five words that begin at
  address 1, so that the first one wraps and the second one, or a few pushes,
  meet a hole.  32 words, so that every trap code and flag word is a word.
* `Assembler`: every source of a segment directive and three lines out of
  eleven, and of two lines out of seventeen, plus one longer source per mnemonic
  and signature of the documentation, with different registers in each place (0
  to 15 occur) and every spelling of the immediate (negative, too large, with a
  suffix, ending in b, a label), and every sequence of up to three operands of
  four for eight mnemonics; pages of 4 bytes, so that segments need alignment and more than one
  page.  Two files can be included, to depth one and without a cycle.
* `Linker`: every object in which two global symbols are defined, referred to
  or absent, with and without an entry point; one or two of them under each
  option, outputs linked again with a third, and one with two or three archived
  ones.  Two names are enough for a chain of inclusions; alignment 4, segments
  of 5 and 3 bytes, so that the second object's part never starts aligned.
  Besides, objects with an entry point or a label that is in no segment or in
  one without bytes (`StrayEntries`, `StrayLabels`), first and second, and one
  with the relocation of a `.wide label`.  Objects of `tc` and `tl` have no bytes
  in the segments zero and unknown.
* `Alu`: bytes of two bits, so that every pair of operands of either width
  occurs; one register with two byte views and one with one; every operation on
  both widths, and every way two of its registers can share a byte.  `BITS`
  scales everything else.
* `ObjectFile`: numbers of one byte, `W` = 16, so that a section of 16 bytes
  wraps; seven objects, three of them such as only the library can write; a
  prefix that looks like the magic.  Failures and kills are tried where one
  object is written, once with a strip and once for an archive.
* `Inspection`: 32 locations, a stack of the debugged program with room for three
  values (`Room`), sessions nested up to `MaxDepth`; four programs, with recursion, an
  error handler, `jmp rl`, code cut off by the end of a segment, and a memory
  that is executable everywhere, so that a listing wraps around.

`CHECK_DEADLOCK FALSE` is set where the program ends: a halted machine, a
finished `tc` or `tl`, a panic.

### Fairness

* `UserSpace`: `WF(Load)`, which `IsFlatMemory` needs too: the abstract program
  is started or given up in the end.  The loader is a sequential function that is called
  and runs until it returns.  The user program owes nothing.
* `Linker`: `WF(Link)`, `Assembler`: `WF(Next)`; both are sequential programs
  that run on their own.  Nothing makes anybody link again, so `Relink` has no
  fairness.
* `ObjectFile`: `WF(Next)`: a writer or reader runs until it ends.
* `Inspection`: weak fairness of the listing only.  A session of the debugger
  waits for its user.
* `Cpu` has no liveness property: a program may loop, and a program whose error
  handler faults is entered again for ever.

## 4. Proofs

Every theorem is for every value of the constants, under the assumptions that
the modules state and TLC evaluates in each run:

* `SizesAssumption`, `ObjectsAssumption` (`UserSpace`): sizes are positive, a
  page has more than one byte, the memory has a frame for each page and table,
  and objects are records of the right type.  With pages of a single byte (they
  have 128) the last page of memory could never be given to the stack, since the
  end of the range in `map_wr_pages` saturates at `W - 1` and is exclusive.
* `WordAssumption` (`Cpu`), `TrapsAssumption` (`Traps`: at least 32 words, so
  that a trap code is a word).
* `WidthAssumption`, `BitwiseAssumption`, `InstructionsAssumption` (`Alu`): a
  byte has `BITS` bits, at least one; `and`, `or` and `xor` return words of
  their width; operands name registers.
* `AssemblerAssumption` (`Assembler`): a page is smaller than the address space;
  a program has a main file, and each of its files is a list of lines; a `.byte`
  or `.string` has a size and no label; the operands of an instruction are a
  list.
* `LinkerAssumption`, and `JobsAssumption` of `Linker` and of `Inspection`: the
  tables of an object point inside the object, as what `tc` and `tl` write does
  (but see finding 4), and code and symbols are at 16-bit addresses.

Some results need more, and say so in their statement: `StackFits`,
`LayoutFits`, `WellFormed` and `Sound`, explained below.  What is live is beyond the
prover, here and everywhere.

`UserSpaceProofs`
* `TypeCorrect`: TypeOK.  The arithmetic lemmas (`PageOfType`, `VpnType`,
  `PageUnique`, `LoopPage`) put every page the loader maps inside the table.
* `NoFrameHasTwoRoles`: NoAlias.  Two tables or pages in one frame can only be
  excluded together with the fact that every frame in use is below `bumper` and
  every frame at or above it has no entry; with those conjuncts NoAlias is
  inductive relative to TypeOK.  `MapEffect` says what a round of `map` does in
  each of its cases (new table, new page, neither), `WriteEffect` that the
  dirty-bit update never moves a frame number or the present flag, even when it
  writes the wrong flags.
* `ProgramStoresAreLocal`: StoresAreLocal, from NoAlias: different addresses
  are different bytes of memory.
* `FramesSuffice`: MemorySuffices.  The bumper says nothing of how much of the
  table is in use, so the invariant is the count itself (`FramesTaken`): one
  frame for the level-one table, one per table and one per page in use, at most
  `N1 + N1 * N2`.

Objects need *not* be well-formed in these.  In the other two they do: the
object of a program that starts is (`Loaded`), and the abstract memory of an
object whose segments overlap or leave the address space is not defined.
* `LoadsAsAsked`: StartsAsAsked, rights and bytes: every page grants exactly what
  the object asks for, so what asks for anything is mapped, and every address
  of a mapped page holds its byte (`FirstByte`).  `LoadInv` follows the loader inside an object:
  `Placed` (the item under way is a segment, a heap or the stack of the object,
  and how far it is), `RightsKept` (a page has exactly the rights that what is
  loaded so far asks for, and its level-one entry has at least those), and
  `BytesKept` (each byte of a mapped page is the one of the segment that has it,
  or fresh; frames above the bumper are fresh).  `MapPages` and `MapPageBytes`
  are the round of the loop, with a segment that begins or ends in mid-page.
* `SeesFlatMemory`: the safety part of IsFlatMemory.  Until `StartUser` every
  step is a stutter; that step needs all of `LoadInv`, since `FlatMemory` starts
  with the bytes and rights of the object.  After it, an access is one of
  `FlatMemory` by `NoAlias` and by what the walk of both levels grants; what
  is written to the wrong entry (finding 1) leaves the rights in the level-two
  entries alone, so that no more is ever granted than was asked for.

`CpuProofs`
* `TypeCorrect`: TypeOK, with the relation between the phase and the pending
  trap.
* `UserKeepsPrivileges`, `SupervisorOnlyByTrap`: the action properties, from a
  case split over the actions (`UserHandler` for the handlers in user mode).
* `ProgramsAreSandboxed`: Sandboxed only speaks of the beginning of an
  instruction; it is not inductive, because the trap entry leaves user mode in
  between.  `SandboxInv` adds what holds during a trap: `rh` is still 0, so the
  trap entry goes to the kernel and not to a handler, and the table and the
  translation flag are still those of the loader.

`TrapsProofs`
* `TypeCorrect`: TypeOK.  `TypeInv` adds that a frame has no more pushed words
  than instructions were executed, and that the phase of a trap has one pending.
* `ImplementsCpu`: IsCpu, action by action: what `Pushed` and `PopAt` do to the
  stack is one of the things `Cpu` allows.  The theorems about `Cpu` therefore
  hold on the real stack.
* `SavedWordsSurvive` (FramesIntact) and `HandlersReturn` (RethRestores).  That
  the saved words are there is not inductive: a push could reach them.  `Linked`
  says how far `rs` is below each frame, which is the words of all later frames
  and pushes; `Saved` says where the words of a frame are.  They hold if the
  stack cannot go all the way round and meet itself, which is `StackFits`: five
  words for each frame there can be, and one for each instruction, are at most
  the size of the memory.  The program can push as much as it likes in 64 KiB,
  so without such a bound the property is false of the code too.  Where the
  stack begins, and whether it wraps around the end of memory, is left open.

`AluProofs`
* `TypeCorrect`: TypeOK, through both views of the register file.
* `JumpsDecideRight`: JumpsAgree.  The jumps read flags, and not operands, so the
  invariant is `FlagsTell`: zero, carry and "sign differs from overflow" are
  equal, below and less for the operands remembered.  `SignOfDifference` is the
  arithmetic behind it: a difference that does not fit loses its sign, and only
  then.
* `RegistersAreSeparate` (WritesAreLocal), `ResultsAreExact`
  (ArithmeticIsExact): for every width, from lemmas on signed and
  unsigned values and on the two bytes of a word.

`LinkerProofs`
* `TypeCorrect`: TypeOK.  `LinkInv` has besides the types the position in the
  loops: which object, symbol and relocation is next, which symbols have
  their number already, and that the output of one invocation is a well-formed
  input of the next (`OutputIsWellFormed`), so that it holds over `Relink`.
* `DefinitionsAreFinal`: DefinitionsStick, from the same invariant.
* `SegmentsAreDisjoint`: SegmentsDisjoint.  `Placing` orders the segments laid
  out so far by their rank, each at or after the end of the one before;
  `Filling` says that the bytes copied so far are those of the first objects,
  which `Lengths` has counted.  The hypothesis `LayoutFits` is that every segment ends
  below `W` when its turn comes.  It is a hypothesis because `tl` does not check
  it: a build with overflow checks panics, a release build wraps.
* `SearchFindsClosure`: SearchIsClosure.  The table of known globals is all the
  search goes by, so `KnownIs` states what is in it in terms of the objects
  included so far; that everything included is needed by every closed set is the
  other half of `SearchInv`.  Together they bound what is included from both
  sides when no object is wanted any more, in whatever order the archives were
  read: everything that defines what is referred to, and nothing but that and
  the objects that refer to the inputs.  That the latter are included at all is
  against the help of `tl` (finding 11), so the property does not ask for it.
* `PanicsOverAnObject`: `PanicInv`.  Whatever the objects are, sound or not, a
  panic is over one of them: a relocation that is not in its segment, or an
  entry point in a segment that is not there.
* `LinkedProgramIsRight`: ProgramIsRight, with the hypothesis `LayoutFits` as
  above.  It says nothing of a program made from an object that is not sound
  (`Sound`, see section 2); that the output of sound objects is sound, which a
  second invocation needs, is proved and not assumed.  The property is about the end only,
  about `origin`, and about all references at once.  The proof goes by a
  relation that can be stated at every moment: `Joined` says when starts, bytes,
  symbols and relocations are what a sequence of objects comes to.  `ProgramInv`
  says that the output so far is joined from what the loops have been through
  (`SeenSyms`, `SeenRefs`); a byte of a reference whose symbol has been defined
  since it was written may be stale as long as the reference is among those that
  wait to be patched (`ByteJoined`, `Waiting`), which is why the last loop must
  visit every one of them, and why relocations must not overlap.  Symbols are
  the subtle part: a global symbol gets the number of an earlier reference or
  definition of its name (`Filed`), so that numbers stay and only undefined
  entries change (`Kept`).
* For a second invocation `OutputIsSound` gives that the output is an object
  like those of `tc`, and `JoinedReplaced` that joining is transitive: what is
  joined from an output and more objects is joined from the objects of that
  output and the others (`Replaced`), byte by byte and symbol by symbol.  This
  needs that the output defines no name twice, which is what made the first
  invocation succeed.
* `LinkersVerdictIsRight`: VerdictIsRight for sound objects, with that hypothesis
  too, from `FailureInv` in both directions:
  what has failed so far is a name defined twice among the symbols seen, or an
  undefined one among the references patched, and the same for the objects of
  `origin` (`TwiceReplaced`).

`AssemblerProofs`
* `TypesHold`: TypeOK.  `TypeInv` adds that each call of `inner_process` stands at
  the directive that the next one was made for, that a label is in one row of the
  symbol table only, that a line with bytes has the label it looked up, and that
  the lines not yet written are the last of their segment.
* `SegmentsAreDisjoint`: SegmentsDisjoint.  The first pass counts the bytes of a
  line by `SizeOf`, the second writes what `Encode` makes of it: two tables, and
  `WordSize` and the lemmas before it say that they agree for every instruction
  that is accepted.  The invariant is `Counted` (the size of a segment is the
  sum over its lines) and `BytesWritten` (what is written of a segment is what
  its lines up to the next one come to); `Placed` orders the segments laid out
  by their rank.  The hypothesis is `LayoutFits`: the size of a segment and the
  end of a segment, rounded up to a page if another one follows, are below `W`
  when they are computed.  `tc` does not check it; as in the linker, a build
  with overflow checks panics and a release build wraps.  TLC finds it true in
  every state of the `assembler` run.
* `LabelsAreRight`: LabelsPointRight.  A label is in front of a line before
  anybody knows where that line will be, and perhaps before a change of segment,
  an include or the end of a file.  `LinesHandled` says of every line that has
  been gone through where it is in its segment (`InSegment`), and of the labels
  in front of the next one that they have the offset it will get (`Pending`);
  after `Resolve` the same of addresses.
* `RelocationsAreRight`: RelocationsAreOperands.  `ReadsWritten` says that the
  label reads collected so far are those of the lines written, each with its
  position in the segment.  A position is counted from what the operands in
  front of the label occupy, so the proof needs that a label is always taken for
  a wide immediate, whichever alternative of the instruction was tried first
  (`LabelTakesWord`, `AlternativeForms`).  It holds without a `.wide label`
  (`WideLabel`), for which the code is wrong (finding 4).

`InspectionProofs`
* `ListsEachLabelOnce`: EachLabelOnce.  While a block is being printed what
  follows the last instruction is missing from the listing; `Closing` is the
  closure property with that exception (`location`) and with the labels that
  are still in the queue.
* `WhatRunsIsListed`: ListsWhatRuns.  Where a call will come back to must be in
  the listing before it does: `Inside` speaks of all open calls (`frames`), and
  uses the first theorem at every step.
* `StepsEndRight`: StepsLandRight.  `Course` says that the counter of nestings
  is the number of open calls as long as returns match calls, and, while a step
  is under way, which of the calls it waits for (`Awaited`), or that it has
  landed; the property is what is left of it at the prompt.

`DataFacts` has the lemmas that several of them use.  `SetInduction` is
induction over the natural numbers stated for a set in place of a predicate,
which is the form the provers can use (`WFInduction` of the library takes an
operator).  The facts about `FlattenSeq` (`FlattenEmpty`, `FlattenAppend`,
`FlattenType`) come from it; the bytes of a linked segment and the global
symbols of an object are such sequences.

Only model-checked: the liveness part of `IsFlatMemory`; of `Assembler`,
`InstructionsSurvive`, which is about tables that TLC enumerates completely (each
mnemonic with each signature), and `VerdictIsRight`; `ObjectFile`; and what is
live: that a program is loaded or given up, that assembling, linking, reading
and listing end.

## 5. Findings

Each is a property taken from a comment, a type or the README that TLC refutes:
1 to 4 in a run, 5 to 11 with a configuration of their own (section 3).  No
property of a passing run claims what one of these is about.

1. `level_one_flags`: `src/blf4/mod.rs:377` zips both entry addresses with only
   the clean entries, so once the level-one entry is dirty the second page's
   flags are written to the level-one entry, and its own never become dirty.  A
   text page below the same entry loses its execute permission there, and the
   program faults at its next instruction in that page.
2. `fetch_trap`: a trap of the opcode fetch does not go to the handler in `rh`.
3. `reth_continues`: the trap entry saves neither the program counter nor user
   mode, so `reth` restores the registers and stays in the handler.
4. `linker_panic`: `tc` counts the start of the segment twice for a
   `.wide label`; `tl` indexes out of bounds on that object.
5. `SupervisorAssembles`: `usr`, `vmon`, `vmoff`, `pstore` and `pload` are in
   the table of `README.md:183-250` and have handlers, but no mnemonic in
   `parse_ins` (`src/source/mod.rs:770`).
6. `SurplusIsError`: an instruction of two operands or more ignores those
   behind the last (`src/source/mod.rs:1074` drops the result of the test for
   them), which the table and the texts of its errors ("four registers") leave
   no room for.
7. `ProductAsDocumented`: `mul` has its upper half in the first register, and in the
   second by `README.md:248-249`.  `ArithmeticIsExact` therefore takes either.
8. `SizesReadBack`: `StackSize` and `HeapSize` are two fields of an object and have
   one section name, `_heap_size` (`src/aalv/obj/sec_impl.rs:52` and `88`), so
   that a heap size alone comes back as a stack size.  `ReadsBack` is about the
   other objects.
9. `FirstEntryIsUsed`: `tl` looks up the segment of the entry point in the object
   (`src/bin/tl.rs:172`) and panics if `.entry` stood in front of the first
   segment or in one without bytes, which `tc` lets pass.
10. `StartSymbolIsDefined`: `tl -E` accepts a symbol that is only declared, although an
    executable "disallows undefined references" (`src/bin/tl.rs:57`).
    `VerdictIsRight` leaves both answers open for such a symbol.
11. `OnlyReferenced`: an archived object is included also because *it refers to*
    a symbol of the inputs (`src/bin/tl.rs:419`, as the comment above it says,
    against the help at `src/bin/tl.rs:71`).

Seen while translating, and not made a property:

* traps: a trap inside a handler ends with a `reth` that clears the trap flag, so
  that the `reth` of the outer handler traps (`src/blf4/isa/handlers.rs:124`);
* encoding: in `src/blf4/isa/mod.rs:36-38` `ja` is 37 and `jb` is 39, the other
  way round in `README.md:221-223`; a listing has three of the four operands of
  `mul` and `div` (`src/disassemble.rs:252`); numbers that are too large are
  truncated without a warning, and the last digit of `0x1b` is taken for the
  suffix of a byte, so that it is 1 (`src/source/mod.rs:102`);
* tools: `tobjdump` reports success after an error (`src/bin/tobjdump.rs:84`);
  two labels at one address list its block twice;
* where code and documentation are of one mind: the pages of heap and stack are
  mapped dirty from the start (`src/blf4/std_kernel.rs:205`, against
  `README.md:58`); `jle` is a conjunction that is never true after a comparison.

## 6. Not modelled, and abstractions to know of

* Text processing: splitting lines into words, the spelling of registers and of
  numbers but for their suffix, string escapes; command lines, printing (with
  the symbol and relocation tables of `tobjdump`), terminal I/O.  A line of
  source is a record of its parts.  Opcodes are names: every table in `src/`
  uses the same constants.
* The values of words in `Cpu`, which `Alu` has; the arithmetic flags there.
* In `Debugger` the only values on the stack are saved `rl`s, the stack cleanup
  of a `ret` with an operand is left out (its control flow is that of any `ret`),
  and the commands that print change nothing.
* `tl -S`, and the `flags`, `stack_size` and `heap_size` that `tl` drops
  (`src/bin/tl.rs:320`); an output of more than 64 KiB (`src/bin/tl.rs:144`).
* A file that includes itself is followed until the stack is exhausted
  (`src/source/mod.rs:548`): includes have depth one.
* The instructions of `UserSpace`'s program: any sequence of accesses.
* In `Assembler` and `Linker` u16 arithmetic is that of a release build
  (modulo `W`); the instances stay below the limit.
* `free_page` and the free list (no caller), the ROM, physical addressing in
  supervisor mode, other than that it cannot fault.

## 7. Plan

1. Done: loader and MMU with `FlatMemory`; processor and kernel; traps on the
   real stack; arithmetic; instructions, assembler and linker; object files;
   inspection.  Proved: every safety property of the loader, the processor, its
   traps, arithmetic, inspection and the linker, and those of the assembler
   about types, segments, labels and relocations.
2. Proofs next: for `ObjectFile`, type correctness and `PrefixKept` (the bytes
   before the magic stay, if none of them is taken for it); for `Assembler`,
   `InstructionsSurvive` for every operand that `parse_ins` accepts, which needs
   the ranges of the registers as an assumption, and `VerdictIsRight` for
   includes of any depth.
3. A `Toolchain` that links what `Assembler` makes and loads what `Linker`
   makes: today `linker` runs on objects such as `tc` writes them, and `user_space`
   on objects such as `tl` does.
