------------------------------ MODULE Assembler ------------------------------
(***************************************************************************)
(* The assembler tc: process (src/source/mod.rs) goes through the lines of *)
(* the source and of the files it includes, keeping the size of every      *)
(* segment and the symbol table (src/source/symbols.rs); then it places    *)
(* the segments and resolves the symbols; then tc (src/bin/tc.rs) writes   *)
(* the bytes and the relocations.                                          *)
(*                                                                         *)
(* The first pass counts the bytes of a line with DataOperand::size, the   *)
(* last one writes them with write_data_operand: SizeOf and Written.       *)
(*                                                                         *)
(* A byte is <<line, offset, w, v>>, byte offset of what the line stands   *)
(* for; w is the address that a byte of an operand is half of, or Literal; *)
(* v is the byte of an instruction, which Encoding defines.                *)
(***************************************************************************)
EXTENDS Encoding, FiniteSets

CONSTANTS
  PageSize,   \* PAGE_SIZE
  W,          \* size of the address space
  Programs    \* sources: functions from files to their lines, "main" is one

SegType == {"data", "rodata", "text", "heap"}
Rank    == [data |-> 16, rodata |-> 24, text |-> 32, heap |-> 112, unknown |-> 255]
Nowhere == 64255 % W     \* 0xfaff, the location of a symbol that is only referred to
Literal == W
NoLabel == 0
NoAddr  == <<>>

ASSUME AssemblerAssumption ==
  /\ PageSize \in Nat \ {0} /\ W \in Nat /\ PageSize < W
  /\ \A p \in Programs :
       /\ "main" \in DOMAIN p
       /\ \A f \in DOMAIN p :
            /\ DOMAIN p[f] = 1 .. Len(p[f]) /\ Len(p[f]) \in Nat
            /\ \A i \in DOMAIN p[f] :
                 /\ p[f][i].op = "raw" => p[f][i].size \in Nat /\ p[f][i].ref = "none"
                 /\ p[f][i].op = "ins" => /\ Len(p[f][i].ops) \in Nat
                                          /\ DOMAIN p[f][i].ops = 1 .. Len(p[f][i].ops)

VARIABLES
  prog,     \* the source
  stage,    \* "lines", "resolve", "emit", "done" or "failed"
  frames,   \* the calls of inner_process: file, next line, current segment
  dls,      \* the lines of each segment, and their size
  entry,    \* the entry point, <<segment, offset>>
  labels,   \* Symbols::labels
  pos,      \* Symbols::id_to_pos, NoAddr for a label not set
  types,    \* Symbols::symbol_types, with the default for the rest
  errors,   \* TRUE when a line was in error
  start,    \* starts of the segments
  todo,     \* lines not yet written, by segment
  mem,      \* bytes written, by segment
  reads     \* label_reads: label, segment and position

symbols == <<labels, pos, types>>
written == <<todo, mem, reads>>
vars == <<prog, stage, frames, dls, entry, symbols, errors, start, written>>

----------------------------------------------------------------------------
(* The bytes of a line, counted and written *)

\* DataOperand::size.
SizeOf == [Nothing |-> 0, ByteRegister |-> 1, WideRegister |-> 1, ImmediateByte |-> 1,
           ImmediateWide |-> 2, ByteImm |-> 2, WideImm |-> 3, WideImmByte |-> 3,
           WideImmWide |-> 3, TwoWideOneByte |-> 2, ByteWideImm |-> 3, TwoWideImm |-> 3,
           ByteTwoWide |-> 2, ThreeByte |-> 2, ThreeWide |-> 2, FourByte |-> 2, FourWide |-> 2]

\* The kind of the operands of an instruction.
KindOf(l) == Parse(l.m, l.ops, 0).kind

\* Faulty variant of LineSize: the opcode is not counted.
LineSizeNoOpcode(l) ==
  CASE l.op = "ins" -> SizeOf[KindOf(l)] [] l.op = "raw" -> l.size [] l.op = "wide" -> 2

\* The size of an instruction, a .byte or .string, or a .wide.
LineSize(l) ==
  CASE l.op = "ins" -> 1 + SizeOf[KindOf(l)] [] l.op = "raw" -> l.size [] l.op = "wide" -> 2

\* What tc writes for it, with w for the label: the address and the byte of
\* each place.
Bytes(l, w) ==
  CASE l.op = "ins" ->
         LET code == Encode(Parse(l.m, l.ops, w))
             wide == "W" \in ToSet(Form[KindOf(l)])
         IN [x \in DOMAIN code |-> <<IF wide /\ x > Len(code) - 2 THEN w ELSE Literal, code[x]>>]
    [] l.op = "raw"  -> [x \in 1 .. l.size |-> <<Literal, "raw">>]
    [] l.op = "wide" -> [x \in 1 .. 2 |-> <<w, "raw">>]

\* The label a line looks up.
LookedUp(l) == IF l.op = "ins" THEN LabelIn(l.m, l.ops) ELSE l.ref

IsData(l) == l.op \in {"raw", "wide"} \/ (l.op = "ins" /\ Accepted(l.m, l.ops))

----------------------------------------------------------------------------
(* The symbol table *)

\* Faulty variant of Has: the table is not searched.
HasNever(n) == FALSE

Has(n) == \E i \in DOMAIN labels : labels[i] = n
IdOf(n) == CHOOSE i \in DOMAIN labels : labels[i] = n

\* find_id: a new label has no address and is Internal.
Find(n) ==
  IF Has(n) THEN [id |-> IdOf(n), labels |-> labels, pos |-> pos, types |-> types]
  ELSE [id |-> Len(labels) + 1, labels |-> Append(labels, n),
        pos |-> Append(pos, NoAddr), types |-> Append(types, "Internal")]

Refer(n) ==      \* get_label
  /\ labels' = Find(n).labels /\ pos' = Find(n).pos /\ types' = Find(n).types

Declared(old, new) ==      \* set_global and set_reference
  IF new = "Reference" \/ old = "Internal" THEN new ELSE old

----------------------------------------------------------------------------
(* One line of the source *)

Top   == frames[Len(frames)]
Seg   == Top.seg
Line  == prog[Top.file][Top.next]
Here  == <<Top.file, Top.next>>
MoreLines == stage = "lines" /\ frames # <<>> /\ Top.next <= Len(prog[Top.file])

Advance(seg) == frames' = [frames EXCEPT ![Len(frames)] =
                             [file |-> Top.file, next |-> Top.next + 1, seg |-> seg]]

\* Faulty variant of SizeIn: the label stands for the start of the segment.
SizeInNone(seg) == 0

SizeIn(seg) == IF seg \in DOMAIN dls THEN dls[seg].size ELSE 0

\* After a line without an error: nothing may stand outside of a segment.
Outside == "unknown" \in DOMAIN dls

Segment ==
  /\ Line.op = "seg"
  /\ IF Line.seg \in SegType THEN Advance(Line.seg) /\ errors' = (errors \/ Outside)
                             ELSE Advance(Seg) /\ errors' = TRUE
  /\ UNCHANGED <<dls, entry, symbols>>

Entry ==
  /\ Line.op = "entry"
  /\ entry' = IF entry = NoAddr THEN <<Seg, SizeIn(Seg)>> ELSE entry
  /\ errors' = (errors \/ entry # NoAddr \/ Outside)
  /\ Advance(Seg)
  /\ UNCHANGED <<dls, symbols>>

\* set_label: the second definition replaces the first, and is an error.
Label ==
  /\ Line.op = "label"
  /\ LET f == Find(Line.name)
     IN /\ labels' = f.labels /\ types' = f.types
        /\ pos' = [f.pos EXCEPT ![f.id] = <<Seg, SizeIn(Seg)>>]
        /\ errors' = (errors \/ f.pos[f.id] # NoAddr \/ Outside)
  /\ Advance(Seg)
  /\ UNCHANGED <<dls, entry>>

\* .global and .reference
Declare ==
  /\ Line.op \in {"Global", "Reference"}
  /\ LET f == Find(Line.name)
     IN /\ labels' = f.labels /\ pos' = f.pos
        /\ types' = [f.types EXCEPT ![f.id] = Declared(@, Line.op)]
  /\ errors' = (errors \/ Outside)
  /\ Advance(Seg)
  /\ UNCHANGED <<dls, entry>>

\* The label that the line looks up, while its operands are parsed.
LookUp ==
  IF LookedUp(Line) = "none" THEN UNCHANGED symbols ELSE Refer(LookedUp(Line))

\* add_line
Data ==
  /\ IsData(Line)
  /\ LET ref == IF LookedUp(Line) = "none" THEN NoLabel ELSE Find(LookedUp(Line)).id
         old == IF Seg \in DOMAIN dls THEN dls[Seg] ELSE [lines |-> <<>>, size |-> 0]
         new == [lines |-> Append(old.lines, [line |-> Line, at |-> Here, ref |-> ref]),
                 size  |-> (old.size + LineSize(Line)) % W]
     IN dls' = [t \in DOMAIN dls \cup {Seg} |-> IF t = Seg THEN new ELSE dls[t]]
  /\ LookUp
  /\ errors' = (errors \/ Outside')
  /\ Advance(Seg)
  /\ UNCHANGED entry

\* A line that cannot be parsed, an unknown instruction or operands it has not.
Bad ==
  /\ Line.op = "bad" \/ (Line.op = "ins" /\ ~IsData(Line))
  /\ errors' = TRUE
  /\ IF Line.op = "bad" THEN UNCHANGED symbols ELSE LookUp
  /\ Advance(Seg)
  /\ UNCHANGED <<dls, entry>>

\* An included file starts outside of any segment; one that cannot be opened
\* is an error.
IncludeFile ==
  /\ Line.op = "include"
  /\ IF Line.file \in DOMAIN prog
     THEN /\ frames' = Append(frames, [file |-> Line.file, next |-> 1, seg |-> "unknown"])
          /\ UNCHANGED errors
     ELSE Advance(Seg) /\ errors' = TRUE
  /\ UNCHANGED <<dls, entry, symbols>>

\* Faulty variant of Return: the segment of the included file goes on.
ReturnSegment(frame) == [frame EXCEPT !.next = @ + 1, !.seg = Seg]

\* The call that included the file goes on behind the directive, in the
\* segment it was in.
Return(frame) == [frame EXCEPT !.next = @ + 1]

EndFile ==
  /\ stage = "lines" /\ Top.next > Len(prog[Top.file])
  /\ IF Len(frames) > 1
     THEN /\ LET n == Len(frames) - 1
             IN frames' = [SubSeq(frames, 1, n) EXCEPT ![n] = Return(@)]
          /\ errors' = (errors \/ Outside)
          /\ UNCHANGED stage
     ELSE /\ stage' = "resolve"
          /\ UNCHANGED <<frames, errors>>
  /\ UNCHANGED <<prog, dls, entry, symbols, start, written>>

ProcessLine ==
  /\ MoreLines
  /\ Segment \/ Entry \/ Label \/ Declare \/ Data \/ Bad \/ IncludeFile
  /\ UNCHANGED <<prog, stage, start, written>>

----------------------------------------------------------------------------
(* Placing the segments and resolving the symbols *)

AlignEnd(a) == IF a % PageSize = 0 THEN a ELSE a + (PageSize - (a % PageSize))

\* Where the segments start: in order, each aligned after the end of the last.
Starts(segs) ==
  LET At(last)     == AlignEnd(last) % W
      End(t, last) == IF t \in DOMAIN segs THEN (At(last) + segs[t].size) % W ELSE last
      rodata  == End("data", PageSize)
      text    == End("rodata", rodata)
      heap    == End("text", text)
      unknown == End("heap", heap)
      last    == [data |-> PageSize, rodata |-> rodata, text |-> text, heap |-> heap,
                  unknown |-> unknown]
  IN [t \in DOMAIN segs |-> At(last[t])]

\* Declared as a reference but defined; internal and not defined.
SymbolError(i) == \/ pos[i] # NoAddr /\ types[i] = "Reference"
                  \/ pos[i] = NoAddr /\ types[i] = "Internal"

Resolve ==
  /\ stage = "resolve"
  /\ start' = Starts(dls)
  /\ IF errors \/ \E i \in DOMAIN labels : SymbolError(i)
     THEN stage' = "failed" /\ UNCHANGED <<todo, mem>>
     ELSE /\ stage' = "emit"
          /\ todo' = [t \in DOMAIN dls |-> dls[t].lines]
          /\ mem' = [t \in DOMAIN dls |-> <<>>]
  /\ UNCHANGED <<prog, frames, dls, entry, symbols, errors, reads>>

StartOf(t) == IF t \in DOMAIN start THEN start[t] ELSE 0

\* A symbol of the object: one nobody defines is a reference.
SymbolOf(i) ==
  IF pos[i] = NoAddr THEN [name |-> labels[i], global |-> TRUE, seg |-> "unknown", loc |-> Nowhere]
  ELSE [name |-> labels[i], global |-> types[i] = "Global", seg |-> pos[i][1],
        loc |-> (pos[i][2] + StartOf(pos[i][1])) % W]

----------------------------------------------------------------------------
(* Writing the object *)

\* Faulty variant of ReadPosition: the opcode is forgotten.
ReadPositionOpcode(t, l) == Len(mem[t])

\* The position of a label read: behind the opcode and the registers of an
\* instruction; with the start of the segment for a .wide.
ReadPosition(t, l) ==
  IF l.op = "wide" THEN Len(mem[t]) + start[t]
  ELSE Len(mem[t]) + Len(Bytes(l, 0)) - 2

EmitLine ==
  /\ stage = "emit"
  /\ \E t \in DOMAIN todo :
       /\ todo[t] # <<>>
       /\ \A u \in DOMAIN todo : Rank[u] < Rank[t] => todo[u] = <<>>
       /\ LET d == Head(todo[t])
              w == IF d.ref = NoLabel THEN Literal ELSE SymbolOf(d.ref).loc
          IN /\ mem' = [mem EXCEPT ![t] = @ \o
                  [x \in DOMAIN Bytes(d.line, w) |-> <<d.at, x - 1>> \o Bytes(d.line, w)[x]]]
             /\ reads' = IF d.ref = NoLabel THEN reads
                         ELSE Append(reads, [id |-> d.ref, seg |-> t,
                                             position |-> ReadPosition(t, d.line)])
       /\ todo' = [todo EXCEPT ![t] = Tail(@)]
  /\ UNCHANGED <<prog, stage, frames, dls, entry, symbols, errors, start>>

EndEmit ==
  /\ stage = "emit" /\ \A t \in DOMAIN todo : todo[t] = <<>>
  /\ stage' = "done"
  /\ UNCHANGED <<prog, frames, dls, entry, symbols, errors, start, written>>

\* The object: the relocations go by label.
Object ==
  [segs   |-> [t \in DOMAIN mem |-> [start |-> start[t], bytes |-> mem[t]]],
   syms   |-> [i \in DOMAIN labels |-> SymbolOf(i)],
   relocs |-> FlattenSeq([i \in DOMAIN labels |-> FlattenSeq([m \in DOMAIN reads |->
                IF reads[m].id # i THEN <<>>
                ELSE <<[seg |-> reads[m].seg, sym |-> i,
                        loc |-> (start[reads[m].seg] + reads[m].position) % W]>>])]),
   entry  |-> IF entry = NoAddr THEN NoAddr
              ELSE <<entry[1], (entry[2] + StartOf(entry[1])) % W>>]

Init ==
  /\ prog \in Programs
  /\ stage = "lines"
  /\ frames = <<[file |-> "main", next |-> 1, seg |-> "unknown"]>>
  /\ dls = <<>> /\ entry = NoAddr
  /\ labels = <<>> /\ pos = <<>> /\ types = <<>>
  /\ errors = FALSE
  /\ start = <<>> /\ todo = <<>> /\ mem = <<>> /\ reads = <<>>

Next == ProcessLine \/ EndFile \/ Resolve \/ EmitLine \/ EndEmit

\* tc is a sequential program.
Spec == Init /\ [][Next]_vars /\ WF_vars(Next)

TypeOK ==
  /\ stage \in {"lines", "resolve", "emit", "done", "failed"}
  /\ Len(frames) > 0
  /\ \A i \in DOMAIN frames : frames[i].file \in DOMAIN prog
  /\ Len(pos) = Len(labels) /\ Len(types) = Len(labels)
  /\ \A i, m \in DOMAIN labels : labels[i] = labels[m] => i = m
  /\ \A t \in DOMAIN dls : dls[t].size \in 0 .. W - 1
  /\ \A i \in DOMAIN reads : reads[i].id \in DOMAIN labels /\ reads[i].seg \in DOMAIN mem
  /\ errors \in BOOLEAN

----------------------------------------------------------------------------
(* The source, as its author reads it: lines <<file, number>>, and how often
   a file that main includes is gone through. *)

LineAt(x) == prog[x[1]][x[2]]
Visits(f) ==
  IF f = "main" THEN 1
  ELSE Cardinality({i \in DOMAIN prog["main"] :
                      prog["main"][i].op = "include" /\ prog["main"][i].file = f})
Source == UNION {{<<f, i, v>> : i \in DOMAIN prog[f], v \in 1 .. Visits(f)} : f \in DOMAIN prog}

Named(op, n) == {x \in Source : LineAt(x).op = op /\ LineAt(x).name = n}
LabelNames   == {LineAt(x).name : x \in {y \in Source : LineAt(y).op = "label"}}
Used         == {LookedUp(LineAt(x)) : x \in {y \in Source : IsData(LineAt(y))}} \ {"none"}

\* The line stands in no segment of its file.
NoSegment(x) == \A i \in 1 .. x[2] - 1 : prog[x[1]][i].op # "seg"

SourceError ==
  \/ \E x \in Source :
       LET l == LineAt(x)
       IN \/ l.op = "bad"
          \/ l.op = "ins" /\ Documented(l.m, l.ops) = {}
          \/ l.op = "seg" /\ l.seg \notin SegType
          \/ l.op = "include" /\ l.file \notin DOMAIN prog
          \/ IsData(l) /\ NoSegment(x)
  \/ Cardinality({x \in Source : LineAt(x).op = "entry"}) > 1
  \/ \E n \in LabelNames : Cardinality(Named("label", n)) > 1 \/ Named("Reference", n) # {}
  \/ \E n \in Used \ LabelNames : Named("Global", n) \cup Named("Reference", n) = {}

\* The byte of the object at a location.
ByteAt(seg, loc) == Object.segs[seg].bytes[loc - start[seg] + 1]

\* The line right behind line x, if it has bytes.
Behind(x) == {y \in Source : /\ y = [x EXCEPT ![2] = @ + 1]
                             /\ IsData(LineAt(y)) /\ LineSize(LineAt(y)) > 0}

\* The operands written: segment, offset, and the label they stand for.
Operands ==
  UNION {{<<t, p - 1, LookedUp(LineAt(mem[t][p][1]))>> :
            p \in {p \in DOMAIN mem[t] :
                     /\ mem[t][p][3] # Literal
                     /\ p = 1 \/ mem[t][p - 1][3] = Literal \/ mem[t][p - 1][1] # mem[t][p][1]}} :
         t \in DOMAIN mem}

\* The instructions written: line, bytes, and the address of the label.
Instructions ==
  UNION {{[line |-> LineAt(mem[t][p][1]), addr |-> mem[t][p + Len(Bytes(LineAt(mem[t][p][1]), 0)) - 1][3],
           code |-> [i \in DOMAIN Bytes(LineAt(mem[t][p][1]), 0) |-> mem[t][p + i - 1][4]]] :
            p \in {p \in DOMAIN mem[t] : mem[t][p][2] = 0 /\ LineAt(mem[t][p][1]).op = "ins"}} :
         t \in DOMAIN mem}

Relocated == {<<r.seg, r.loc - start[r.seg], labels[r.sym]>> :
                r \in {Object.relocs[i] : i \in DOMAIN Object.relocs}}

----------------------------------------------------------------------------
(* Properties *)

\* A label in front of a line has the address at which that line's bytes were
\* written, and the entry point likewise: what the first pass counted is what
\* the last one wrote, over segments that are left and taken up again and
\* files included in between.
LabelsPointRight ==
  stage = "done" => \A x \in Source : \A y \in Behind(x) :
    /\ LineAt(x).op = "label" =>
         \E i \in DOMAIN labels :
           /\ labels[i] = LineAt(x).name
           /\ SymbolOf(i).seg \in DOMAIN mem
           /\ ByteAt(SymbolOf(i).seg, SymbolOf(i).loc)[1] = <<y[1], y[2]>>
           /\ ByteAt(SymbolOf(i).seg, SymbolOf(i).loc)[2] = 0
    /\ LineAt(x).op = "entry" =>
         ByteAt(Object.entry[1], Object.entry[2])[1] = <<y[1], y[2]>>

\* The segments hold as many bytes as were counted, and none reaches into the
\* next one.
SegmentsDisjoint ==
  stage = "done" => \A t \in DOMAIN mem :
    /\ Len(mem[t]) = dls[t].size
    /\ start[t] >= PageSize /\ start[t] % PageSize = 0
    /\ \A u \in DOMAIN mem : Rank[t] < Rank[u] => start[t] + Len(mem[t]) <= start[u]

\* Without a `.wide label` the relocations are the operands that hold the
\* address of a label, each with its label and at its place.
WideLabel ==
  \E t \in DOMAIN dls : \E k \in DOMAIN dls[t].lines :
    dls[t].lines[k].line.op = "wide" /\ dls[t].lines[k].ref # NoLabel
RelocationsAreOperands == stage = "done" /\ ~WideLabel => Relocated = Operands

\* What the processor executes, where a line was written, is the instruction
\* that the documentation has for the line, if it has one (SurplusIsError); and
\* the line that tobjdump lists there is assembled to the same bytes.  It is not
\* for mul and div, of which the listing has three operands of four, and for an
\* immediate whose last digit is b.
Relistable(do) == /\ do.op \notin {"mul", "div"}
                  /\ \A i \in DOMAIN do.args : do.args[i][1] \in {"B", "W"} => do.args[i][2] % 16 # 11

InstructionsSurvive ==
  stage = "done" => \A x \in Instructions :
    LET do  == Executed(x.code)
        l == Listed(x.code)
    IN /\ Documented(x.line.m, x.line.ops) # {} => do = Meaning(x.line.m, x.line.ops, x.addr)
       /\ Relistable(do) => Accepted(l.m, l.ops) /\ Encode(Parse(l.m, l.ops, 0)) = x.code

\* An instruction on which tc and the documentation agree: SupervisorAssembles
\* and SurplusIsError are about the others.
Agreed(l) == l.op = "ins" => l.m \notin Supervisor /\ ~Surplus(l.m, l.ops)

\* tc writes an object exactly for a source without an error, when they agree on
\* its instructions; an error in an included file, or one that shows only when
\* all lines are known, counts.
VerdictIsRight ==
  stage \in {"done", "failed"} /\ (\A x \in Source : Agreed(LineAt(x))) =>
    (stage = "failed" <=> SourceError)

\* A source of instructions of the table (README.md:183-250) is assembled, those
\* among them that need supervisor mode.  It is not: parse_ins has no usr, vmon,
\* vmoff, pstore and pload.
SupervisorAssembles == stage = "failed" => SourceError

\* Operands that the table and the errors of parse_ins ("four registers", "one
\* register and one immediate") leave no room for are an error.  They are not
\* for an instruction of two operands or more: those behind the last are not
\* looked at.
SurplusIsError ==
  stage = "done" => \A x \in Source :
    LineAt(x).op = "ins" => ~Surplus(LineAt(x).m, LineAt(x).ops)
=============================================================================
