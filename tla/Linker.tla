------------------------------- MODULE Linker -------------------------------
(***************************************************************************)
(* The linker tl (src/bin/tl.rs): the search of the archives, the layout   *)
(* of the segments, the symbols and relocations of one object after the    *)
(* other, the references that were still undefined then, and the entry     *)
(* point.  A linked object can be linked again, with more objects.         *)
(*                                                                         *)
(* Each loop of the linker is an action that does one round of it.         *)
(*                                                                         *)
(* A byte is named by where it came from, <<"byte", object, offset>>, or   *)
(* is half of an address the linker wrote, <<"word", address, half>>.      *)
(* Objects are those tc and tl write: no segment is zero or unknown, but a *)
(* label or the entry point may be, in front of the first segment.         *)
(***************************************************************************)
EXTENDS Integers, Sequences, SequencesExt

CONSTANTS
  Names,      \* names of global symbols
  PageSize,   \* the first segment starts at or after this address (128)
  Alignment,  \* -A
  W,          \* size of the address space (2^16)
  InputBytes, \* bytes of the objects tc has written
  Jobs,       \* invocations of tl
  Relinks     \* invocations that take the output of the first as their first input

SegType == {"data", "rodata", "text", "heap"}
Addr    == 0 .. W - 1
\* The entry point may be in no segment, or at an address given to tl.
EntrySeg == SegType \cup {"unknown", "zero"}

\* The order of the BTreeMaps, by the discriminants of SegmentType.
Rank == [data |-> 16, rodata |-> 24, text |-> 32, heap |-> 112]

\* The location tc gives to a symbol it only refers to, 0xfaff.
Nowhere == 64255 % W

Symbol == [name : Names, global : BOOLEAN, seg : SegType \cup {"unknown"}, loc : Addr]
Reloc  == [seg : SegType, loc : Addr, sym : Nat]
NoEntry == <<>>

\* Half of an address the linker has written.
Half(w, h) == <<"word", w, h>>

Byte    == InputBytes \cup ({"word"} \X Addr \X {0, 1})
Section == [start : Addr, bytes : Seq(Byte)]

SegsOf(o) == DOMAIN o.segs

\* An object of tc or tl: its segments by type, its symbols, its relocations,
\* each in a segment of it and referring to a symbol of it, and
\* <<segment, location>> for its entry point.  Labels and the entry point may
\* be in a segment that the object has no bytes of, and so does not have.
WellFormed(o) ==
  /\ o = [segs |-> o.segs, syms |-> o.syms, relocs |-> o.relocs, entry |-> o.entry]
  /\ SegsOf(o) \subseteq SegType /\ o.segs \in [SegsOf(o) -> Section]
  /\ o.syms \in Seq(Symbol) /\ o.relocs \in Seq(Reloc)
  /\ \A r \in Range(o.relocs) : r.sym \in DOMAIN o.syms /\ r.seg \in SegsOf(o)
  /\ o.entry \in {NoEntry} \cup (EntrySeg \X Addr)

\* An object whose every symbol and relocation means something: a symbol in no
\* segment is a reference, any other one is in a segment of the object; a
\* relocation is not in front of its segment, and no two overlap.  tc writes
\* others as well: of a source with a label in front of the first segment or
\* in one without bytes, and of one with a `.wide label`, the place of which
\* it gets wrong.
Sound(o) ==
  /\ \A s \in Range(o.syms) : IF s.seg = "unknown" THEN s.global /\ s.loc = Nowhere
                                                 ELSE s.seg \in SegsOf(o)
  /\ \A r \in Range(o.relocs) : r.loc >= o.segs[r.seg].start
  /\ \A m, n \in DOMAIN o.relocs :
       m # n /\ o.relocs[m].seg = o.relocs[n].seg => o.relocs[m].loc - o.relocs[n].loc \notin -1 .. 1

Objects(os) == os \in Seq(Range(os)) /\ \A o \in Range(os) : WellFormed(o)

\* An invocation: inputs, archived objects, and the options -e and -E, the
\* latter "none", "0x", or a name.
Job(b) ==
  /\ b = [objs |-> b.objs, lib |-> b.lib, exe |-> b.exe, setEntry |-> b.setEntry]
  /\ Objects(b.objs) /\ Objects(b.lib) /\ b.exe \in BOOLEAN
  /\ b.setEntry \in {"none", "0x"} \cup Names
  /\ b.setEntry # "none" => b.exe

ASSUME LinkerAssumption ==
  /\ PageSize \in Nat \ {0} /\ Alignment \in Nat \ {0} /\ W \in Nat \ {0}
  /\ PageSize < W
  /\ {"none", "0x"} \cap Names = {}

ASSUME JobsAssumption == \A b \in Jobs \cup Relinks : Job(b)

VARIABLES
  job,      \* the invocation
  origin,   \* the objects linked so far that tc wrote, in order
  relinked, \* TRUE in the second invocation
  stage,    \* the loop the linker is in, or its result
  objs,     \* objects to link
  lib,      \* archived objects not included
  known,    \* cur_globals
  k,        \* the object being linked
  j,        \* the round of the current loop
  lengths,  \* bytes of each segment type, over all objects
  start,    \* starts of the segments of the output
  lastEnd,  \* last_end
  out,      \* bytes of the output
  cur,      \* bytes of object k
  ids,      \* file_symbol_to_out_symbol
  syms,     \* symbols_out
  glob,     \* global_symbols
  reloc,    \* reloc_out
  undef,    \* undefined_references
  entry,    \* entry_point
  failure   \* failure

invocation == <<job, origin, relinked>>
search     == <<objs, lib, known>>
layout     == <<lengths, start, lastEnd>>
tables     == <<ids, syms, glob, reloc, undef>>
bytes      == <<out, cur>>
vars == <<invocation, stage, search, k, j, layout, bytes, tables, entry, failure>>

Loops  == {"search", "layout", "object", "symbols", "relocs", "patch"}
Final  == {"done", "failed", "noentry", "panic"}

----------------------------------------------------------------------------
(* Objects *)

StartOf(o, t)  == IF t \in SegsOf(o) THEN o.segs[t].start ELSE 0
\* The bytes of segment t in o.
BytesIn(o, t)  == IF t \in SegsOf(o) THEN o.segs[t].bytes ELSE <<>>
Unknown(s)     == s.seg = "unknown"

\* name_and_defined_if_global, collected: the definedness of name n in o.
Definedness(o, n) ==
  LET named == {i \in DOMAIN o.syms : o.syms[i].global /\ o.syms[i].name = n}
  IN IF named = {} THEN "absent"
     ELSE IF \A i \in named : Unknown(o.syms[i]) THEN "undefined" ELSE "defined"

\* The same over all inputs.
InputGlobals(os) ==
  [n \in Names |->
     LET d == {Definedness(os[i], n) : i \in DOMAIN os}
     IN IF "defined" \in d THEN "defined"
        ELSE IF "undefined" \in d THEN "undefined" ELSE "absent"]

\* copy_from_slice of an address over the two bytes at offset at.
Patch(bs, at, w) == [bs EXCEPT ![at + 1] = Half(w, 0), ![at + 2] = Half(w, 1)]

----------------------------------------------------------------------------
(* The start of tl *)

Init ==
  /\ job \in Jobs
  /\ objs = job.objs /\ lib = job.lib
  /\ origin = <<>> /\ relinked = FALSE
  /\ known = InputGlobals(job.objs)
  /\ stage = "search"
  /\ k = 1 /\ j = 1
  /\ lengths = <<>> /\ start = <<>> /\ lastEnd = PageSize
  /\ out = <<>> /\ cur = <<>>
  /\ ids = <<>> /\ syms = <<>> /\ glob = <<>> /\ reloc = <<>> /\ undef = <<>>
  /\ entry = NoEntry /\ failure = FALSE

----------------------------------------------------------------------------
(* read_archives *)

\* The definedness of a symbol differs between the object and what is known.
Wanted(o) == \E n \in Names : {Definedness(o, n), known[n]} = {"defined", "undefined"}

\* Faulty variant of ExtendUndefineds: the references of an included object
\* are not followed.
ExtendUndefinedsNot(o) == known

ExtendUndefineds(o) ==
  [n \in Names |-> IF known[n] = "absent" /\ Definedness(o, n) = "undefined"
                   THEN "undefined" ELSE known[n]]

Without(os, i) == SubSeq(os, 1, i - 1) \o SubSeq(os, i + 1, Len(os))

Include ==
  /\ stage = "search"
  /\ \E i \in DOMAIN lib :
       /\ Wanted(lib[i]) /\ \A h \in 1 .. i - 1 : ~Wanted(lib[h])
       /\ objs' = Append(objs, lib[i])
       /\ lib' = Without(lib, i)
       /\ known' = ExtendUndefineds(lib[i])
  /\ UNCHANGED <<invocation, stage, k, j, layout, bytes, tables, entry, failure>>

\* The bytes of each segment type over all objects.
Lengths ==
  [t \in UNION {SegsOf(objs[i]) : i \in DOMAIN objs} |->
     Len(FlattenSeq([i \in DOMAIN objs |-> BytesIn(objs[i], t)]))]

\* Faulty variant of SearchOver: the loop ends with the list only.
SearchOverEmpty == lib = <<>>

SearchOver == \A i \in DOMAIN lib : ~Wanted(lib[i])

EndSearch ==
  /\ stage = "search" /\ SearchOver
  /\ stage' = "layout"
  /\ lengths' = Lengths
  /\ origin' = IF relinked THEN origin \o Tail(objs) ELSE objs
  /\ UNCHANGED <<job, relinked, search, k, j, start, lastEnd, bytes, tables, entry, failure>>

----------------------------------------------------------------------------
(* The layout *)

\* Faulty variant of AlignEnd: it aligns downwards.
AlignEndDown(a) == a - (a % Alignment)

AlignEnd(a) == IF a % Alignment = 0 THEN a ELSE a + (Alignment - (a % Alignment))

LayoutSegment ==
  /\ stage = "layout"
  /\ \E t \in DOMAIN lengths \ DOMAIN start :
       /\ \A u \in DOMAIN lengths \ DOMAIN start : Rank[t] <= Rank[u]
       /\ start' = [u \in DOMAIN start \cup {t} |->
                      IF u = t THEN AlignEnd(lastEnd) % W ELSE start[u]]
       /\ out' = [u \in DOMAIN start \cup {t} |-> <<>>]
       /\ lastEnd' = (AlignEnd(lastEnd) + lengths[t]) % W
  /\ UNCHANGED <<invocation, stage, search, k, j, lengths, cur, tables, entry, failure>>

EndLayout ==
  /\ stage = "layout" /\ DOMAIN start = DOMAIN lengths
  /\ stage' = "object"
  /\ UNCHANGED <<invocation, search, k, j, layout, bytes, tables, entry, failure>>

----------------------------------------------------------------------------
(* One object *)

\* Faulty variant of At: the bytes of earlier objects are forgotten.
AtStart(t) == start[t]

\* Where the bytes of object k go in segment t.
At(t) == (start[t] + Len(out[t])) % W

Base(t) == IF t \in DOMAIN start THEN At(t) ELSE 0

\* A location of object k in the output.
Moved(o, t, loc) == (loc - StartOf(o, t) + Base(t)) % W

\* The first entry point is taken; obj.segs[&st] panics if it is in a segment
\* that its object does not have.
TakesEntry == entry = NoEntry /\ objs[k].entry # NoEntry
StrayEntry(o) == o.entry # NoEntry /\ o.entry[1] \notin SegsOf(o)

EnterObject ==
  /\ stage = "object" /\ k <= Len(objs)
  /\ LET o == objs[k]
     IN IF TakesEntry /\ StrayEntry(o)
        THEN stage' = "panic" /\ UNCHANGED <<entry, cur, j, ids>>
        ELSE /\ entry' = IF TakesEntry
                         THEN <<o.entry[1], Moved(o, o.entry[1], o.entry[2])>> ELSE entry
             /\ cur' = [t \in SegsOf(o) |-> o.segs[t].bytes]
             /\ stage' = "symbols" /\ j' = 1 /\ ids' = <<>>
  /\ UNCHANGED <<invocation, search, k, layout, out, syms, glob, reloc, undef, failure>>

\* The symbol in round j of the loop, with its location in the output.
MovedSymbol == LET s == objs[k].syms[j] IN [s EXCEPT !.loc = Moved(objs[k], s.seg, @)]

\* Faulty variant of NextId: the index of the last symbol.
NextIdLast == Len(syms)

NextId == Len(syms) + 1

\* A symbol that gets a place of its own in the output.
NewSymbol(s) ==
  /\ ~s.global \/ s.name \notin DOMAIN glob
  /\ syms' = Append(syms, s)
  /\ ids' = Append(ids, NextId)
  /\ glob' = IF s.global THEN [n \in DOMAIN glob \cup {s.name} |->
                                 IF n = s.name THEN NextId ELSE glob[n]]
                         ELSE glob
  /\ UNCHANGED failure

\* Faulty variants of Merged and Clash: the last definition wins; two
\* definitions are let pass.
MergedLast(s, old) == IF Unknown(s) THEN old ELSE s
ClashNever(s, old) == FALSE

Merged(s, old) == IF ~Unknown(s) /\ Unknown(old) THEN s ELSE old
Clash(s, old)  == ~Unknown(s) /\ ~Unknown(old)

\* A global symbol that an earlier object has as well.
KnownSymbol(s) ==
  /\ s.global /\ s.name \in DOMAIN glob
  /\ LET id == glob[s.name]
     IN /\ syms' = [syms EXCEPT ![id] = Merged(s, @)]
        /\ ids' = Append(ids, id)
        /\ failure' = (failure \/ Clash(s, syms[id]))
  /\ UNCHANGED glob

AddSymbol ==
  /\ stage = "symbols" /\ j <= Len(objs[k].syms)
  /\ NewSymbol(MovedSymbol) \/ KnownSymbol(MovedSymbol)
  /\ j' = j + 1
  /\ UNCHANGED <<invocation, stage, search, k, layout, bytes, reloc, undef, entry>>

EndSymbols ==
  /\ stage = "symbols" /\ j > Len(objs[k].syms)
  /\ stage' = "relocs" /\ j' = 1
  /\ UNCHANGED <<invocation, search, k, layout, bytes, tables, entry, failure>>

OffsetIn(o, r) == (r.loc - StartOf(o, r.seg)) % W

\* Round j of the loop over the relocations; a reference outside of the
\* bytes of its segment is an index out of bounds.
Relocate ==
  /\ stage = "relocs" /\ j <= Len(objs[k].relocs)
  /\ LET o  == objs[k]
         r  == o.relocs[j]
         id == ids[r.sym]
         at == OffsetIn(o, r)
         e  == [seg |-> r.seg, loc |-> (at + At(r.seg)) % W, sym |-> id]
     IN IF at + 2 > Len(cur[r.seg])
        THEN /\ stage' = "panic"
             /\ UNCHANGED <<j, cur, reloc, undef>>
        ELSE /\ cur' = [cur EXCEPT ![r.seg] = Patch(@, at, syms[id].loc)]
             /\ reloc' = Append(reloc, e)
             /\ undef' = IF Unknown(syms[id]) THEN Append(undef, e) ELSE undef
             /\ j' = j + 1
             /\ UNCHANGED stage
  /\ UNCHANGED <<invocation, search, k, layout, out, ids, syms, glob, entry, failure>>

CopySegments ==
  /\ stage = "relocs" /\ j > Len(objs[k].relocs)
  /\ out' = [t \in DOMAIN out |-> IF t \in DOMAIN cur THEN out[t] \o cur[t] ELSE out[t]]
  /\ stage' = "object" /\ k' = k + 1
  /\ UNCHANGED <<invocation, search, j, layout, cur, tables, entry, failure>>

EndObjects ==
  /\ stage = "object" /\ k > Len(objs)
  /\ stage' = "patch" /\ j' = 1
  /\ UNCHANGED <<invocation, search, k, layout, bytes, tables, entry, failure>>

----------------------------------------------------------------------------
(* The references that were undefined, the entry point and the result *)

PatchUndefined ==
  /\ stage = "patch" /\ j <= Len(undef)
  /\ LET r == undef[j]
         s == syms[r.sym]
     IN IF Unknown(s)
        THEN failure' = (failure \/ job.exe) /\ UNCHANGED out
        ELSE /\ out' = [out EXCEPT ![r.seg] = Patch(@, (r.loc - start[r.seg]) % W, s.loc)]
             /\ UNCHANGED failure
  /\ j' = j + 1
  /\ UNCHANGED <<invocation, stage, search, k, layout, cur, tables, entry>>

\* -E: an address, a symbol that some object has, or a failure.
SetEntry ==
  CASE job.setEntry = "none"            -> entry
    [] job.setEntry = "0x"              -> <<"zero", PageSize>>
    [] job.setEntry \in DOMAIN glob     -> LET s == syms[glob[job.setEntry]] IN <<s.seg, s.loc>>
    [] OTHER                            -> <<"unknown", W - 1>>

NoStartSymbol == job.setEntry \in Names \ DOMAIN glob

Finish ==
  /\ stage = "patch" /\ j > Len(undef)
  /\ entry' = SetEntry
  /\ failure' = (failure \/ NoStartSymbol)
  /\ stage' = IF failure' THEN "failed"
              ELSE IF job.exe /\ entry' = NoEntry THEN "noentry" ELSE "done"
  /\ UNCHANGED <<invocation, search, k, j, layout, bytes, tables>>

----------------------------------------------------------------------------
(* Linking the output again *)

Output == [segs   |-> [t \in DOMAIN start |-> [start |-> start[t], bytes |-> out[t]]],
           syms   |-> syms,
           relocs |-> reloc,
           entry  |-> entry]

Relink ==
  /\ stage = "done" /\ ~job.exe /\ ~relinked
  /\ \E b \in Relinks :
       /\ job' = [b EXCEPT !.objs = <<Output>> \o @]
       /\ objs' = job'.objs /\ lib' = b.lib
       /\ known' = InputGlobals(job'.objs)
  /\ relinked' = TRUE
  /\ stage' = "search"
  /\ k' = 1 /\ j' = 1
  /\ lengths' = <<>> /\ start' = <<>> /\ lastEnd' = PageSize
  /\ out' = <<>> /\ cur' = <<>>
  /\ ids' = <<>> /\ syms' = <<>> /\ glob' = <<>> /\ reloc' = <<>> /\ undef' = <<>>
  /\ entry' = NoEntry /\ failure' = FALSE
  /\ UNCHANGED origin

Link == Include \/ EndSearch \/ LayoutSegment \/ EndLayout
        \/ EnterObject \/ AddSymbol \/ EndSymbols \/ Relocate \/ CopySegments
        \/ EndObjects \/ PatchUndefined \/ Finish

Next == Link \/ Relink

\* tl is a sequential program; nobody has to link its output again.
Spec == Init /\ [][Next]_vars /\ WF_vars(Link)

----------------------------------------------------------------------------
TypeOK ==
  /\ Job(job) /\ Objects(objs) /\ Objects(lib)
  /\ stage \in Loops \cup Final
  /\ known \in [Names -> {"absent", "undefined", "defined"}]
  /\ k \in Nat \ {0} /\ j \in Nat \ {0}
  /\ lengths \in [DOMAIN lengths -> Nat] /\ DOMAIN lengths \subseteq SegType
  /\ start \in [DOMAIN start -> Addr] /\ DOMAIN start \subseteq DOMAIN lengths
  /\ lastEnd \in Addr
  /\ out \in [DOMAIN start -> Seq(Byte)] /\ cur \in [DOMAIN cur -> Seq(Byte)]
  /\ syms \in Seq(Symbol) /\ ids \in Seq(DOMAIN syms)
  /\ glob \in [DOMAIN glob -> DOMAIN syms] /\ DOMAIN glob \subseteq Names
  /\ \A n \in DOMAIN glob : syms[glob[n]].global /\ syms[glob[n]].name = n
  /\ reloc \in Seq(Reloc) /\ undef \in Seq(Reloc)
  /\ \A r \in Range(reloc) \cup Range(undef) : r.sym \in DOMAIN syms /\ r.seg \in DOMAIN start
  /\ entry \in {NoEntry} \cup (EntrySeg \X Addr)
  /\ failure \in BOOLEAN

----------------------------------------------------------------------------
(* What a linked program is, from the objects os that are in it: the bytes of
   all objects, in order, and where their symbols are then. *)

\* The offset in output segment t of the bytes of object i.
Before(os, i, t) == Len(FlattenSeq([h \in 1 .. i - 1 |-> BytesIn(os[h], t)]))

\* Where a symbol, or the entry point, of object i is in the output.
Placed(os, i, s) == (start[s.seg] + Before(os, i, s.seg) + (s.loc - StartOf(os[i], s.seg))) % W

\* Symbols and relocations by object and number.
SymsOf(os)    == UNION {{<<i, m>> : m \in DOMAIN os[i].syms} : i \in DOMAIN os}
RefsOf(os)    == UNION {{<<i, m>> : m \in DOMAIN os[i].relocs} : i \in DOMAIN os}
Sym(os, d)    == os[d[1]].syms[d[2]]
Ref(os, d)    == os[d[1]].relocs[d[2]]
Target(os, d) == os[d[1]].syms[Ref(os, d).sym]

Definers(os, n) ==
  {d \in SymsOf(os) : Sym(os, d).global /\ Sym(os, d).name = n /\ ~Unknown(Sym(os, d))}

\* The address that a reference of object i to its symbol s stands for.
Meaning(os, i, s) ==
  IF ~s.global THEN Placed(os, i, s)
  ELSE IF Definers(os, s.name) = {} THEN Nowhere
  ELSE LET d == CHOOSE d \in Definers(os, s.name) : TRUE IN Placed(os, d[1], Sym(os, d))

\* The offset in its segment of the address that relocation d is about.
RefAt(os, d) == Ref(os, d).loc - StartOf(os[d[1]], Ref(os, d).seg)

\* Relocation d is about byte x of segment t of object i.
Over(os, d, i, t, x) == d[1] = i /\ Ref(os, d).seg = t /\ x - RefAt(os, d) \in {1, 2}

\* That byte, in the linked program.
Linked(os, i, t, x) ==
  LET over == {d \in RefsOf(os) : Over(os, d, i, t, x)}
  IN IF over = {} THEN BytesIn(os[i], t)[x]
     ELSE LET d == CHOOSE d \in over : TRUE
          IN Half(Meaning(os, i, Target(os, d)), x - RefAt(os, d) - 1)

\* Nothing defines what relocation d refers to.
Undefined(os, d) == LET s == Target(os, d)
                    IN IF s.global THEN Definers(os, s.name) = {} ELSE Unknown(s)
UndefinedReference(os) == \E d \in RefsOf(os) : Undefined(os, d)

DefinedTwice(os) == \E n \in Names : \E d, e \in Definers(os, n) : d # e

HasEntry(os) == {i \in DOMAIN os : os[i].entry # NoEntry}

FirstEntry(os) ==
  IF HasEntry(os) = {} THEN NoEntry
  ELSE LET i == CHOOSE i \in HasEntry(os) : \A h \in HasEntry(os) : i <= h
       IN <<os[i].entry[1], Placed(os, i, [seg |-> os[i].entry[1], loc |-> os[i].entry[2]])>>

----------------------------------------------------------------------------
(* Properties *)

\* The linked program holds the bytes of every object, in order, and each
\* reference holds the address of what it refers to, whether that came in an
\* earlier or a later object, from an archive, or with a second invocation;
\* without -E it starts where the first object with an entry point says.
ProgramIsRight ==
  stage = "done" /\ (\A i \in DOMAIN origin : Sound(origin[i])) =>
    /\ \A t \in DOMAIN start :
         /\ Len(out[t]) = Before(origin, Len(origin) + 1, t)
         /\ \A i \in DOMAIN origin : \A x \in DOMAIN BytesIn(origin[i], t) :
              out[t][Before(origin, i, t) + x] = Linked(origin, i, t, x)
    /\ job.setEntry = "none" => entry = FirstEntry(origin)

\* No object defines the symbol of -E, and no object has one of the name.
NoStart     == job.setEntry \in Names /\ Definers(origin, job.setEntry) = {}
StartAbsent == job.setEntry \in Names /\ \A i \in DOMAIN origin :
                                           Definedness(origin[i], job.setEntry) = "absent"

\* Linking fails if two objects define a global symbol, an executable has a
\* reference that nothing defines, or no object has the symbol of -E; it fails
\* only for these reasons or because nothing defines the symbol of -E; for want
\* of an entry point only if nobody gave one.  tl panics only over an object
\* with a relocation outside of its segment, or with a stray entry point.
VerdictIsRight ==
  /\ stage \in {"done", "failed", "noentry"} =>
       LET wrong == DefinedTwice(origin) \/ (job.exe /\ UndefinedReference(origin))
       IN /\ wrong \/ StartAbsent => stage = "failed"
          /\ stage = "failed" => wrong \/ NoStart
  /\ stage = "noentry" => job.exe /\ job.setEntry = "none" /\ HasEntry(origin) = {}
  /\ stage = "panic" =>
       \E i \in DOMAIN objs :
         \/ StrayEntry(objs[i])
         \/ \E r \in Range(objs[i].relocs) :
              OffsetIn(objs[i], r) + 2 > Len(objs[i].segs[r.seg].bytes)

\* The segments are aligned, above the first page, and disjoint, and their
\* bytes fill what the layout has reserved: no object's bytes run into the
\* next segment.
SegmentsDisjoint ==
  /\ \A t \in DOMAIN start :
       /\ start[t] % Alignment = 0 /\ start[t] >= PageSize
       /\ Len(out[t]) <= lengths[t]
       /\ \A u \in DOMAIN start : Rank[t] < Rank[u] => start[t] + lengths[t] <= start[u]
  /\ stage \in {"patch", "done", "failed", "noentry"} => \A t \in DOMAIN start : Len(out[t]) = lengths[t]

\* Symbols of the output keep their number and name, and a definition is
\* final: the references already written stay right.
DefinitionsStick ==
  [][(stage \in Loops) => \A i \in DOMAIN syms :
       /\ i \in DOMAIN syms'
       /\ syms'[i].name = syms[i].name /\ syms'[i].global = syms[i].global
       /\ ~Unknown(syms[i]) => syms'[i] = syms[i]]_vars

\* An archived object is needed, with the objects S, if it defines a symbol
\* that no input defines and that the inputs, or one of S, refer to.
Archived == {job.lib[i] : i \in DOMAIN job.lib}
Needed(S, o) ==
  \E n \in Names :
    LET given == InputGlobals(job.objs)[n]
    IN /\ Definedness(o, n) = "defined"
       /\ \/ given = "undefined"
          \/ given = "absent" /\ \E p \in S : Definedness(p, n) = "undefined"
\* It refers to a symbol that the inputs define.
RefersToInput(o) ==
  \E n \in Names : Definedness(o, n) = "undefined" /\ InputGlobals(job.objs)[n] = "defined"
Included == {objs[i] : i \in Len(job.objs) + 1 .. Len(objs)}

\* The search includes every object that is needed with the ones it includes,
\* in whatever order the archives have them, and none that is neither needed
\* nor refers to the inputs: any set that has all of these has all included.
SearchIsClosure ==
  stage = "layout" =>
    /\ \A o \in Archived : Needed(Included, o) => o \in Included
    /\ \A S \in SUBSET Archived :
         (\A o \in Archived : Needed(S, o) \/ RefersToInput(o) => o \in S) => Included \subseteq S

\* tl always comes to a result.
LinkTerminates == <>(stage \in Final)

----------------------------------------------------------------------------
(* What the documentation says, and the code does not do *)

\* README.md:264, tl "combines several object files into one object resolving
\* global symbols (included undefined ones (references))": whatever objects tc
\* has written, tl comes to a result that is not a panic.
LinksWhatTcWrites == stage # "panic"

\* tl.rs:36, without -E "the first entry-point from the given input object
\* files is used": tl does not panic when it comes to use it.
FirstEntryIsUsed == ~(stage = "panic" /\ TakesEntry)

\* tl.rs:57-60, -e "disallows undefined references": an executable does not
\* start at a symbol that no object defines.
StartSymbolIsDefined == stage = "done" => ~NoStart

\* tl.rs:71, -l "using only objects with global symbols refernenced in by the
\* input objects": every included object is needed.
OnlyReferenced ==
  stage = "layout" =>
    \A S \in SUBSET Archived : (\A o \in Archived : Needed(S, o) => o \in S) => Included \subseteq S
=============================================================================
