---------------------------- MODULE LinkerProofs ----------------------------
(***************************************************************************)
(* Proofs about the linker (src/bin/tl.rs), for every alignment, every     *)
(* size of the address space and every set of objects.                     *)
(*                                                                         *)
(*   1 - 5    types, definitions, layout and the search of the archives    *)
(*   6 - 9    when an output is joined from objects (Joined), and what one *)
(*            symbol, relocation or byte more changes of that              *)
(*   10 - 11  what the rounds of the loops compute, in the same terms      *)
(*   12 - 18  ProgramInv, inductive: of sound objects, the output so far   *)
(*            is joined from what the loops have been through, but for the *)
(*            references that wait; the output of a first invocation is    *)
(*            then sound itself                                            *)
(*   19 - 21  an output joined from another one is joined from the objects *)
(*            that one was joined from                                     *)
(*   22 - 23  ProgramIsRight and VerdictIsRight                            *)
(***************************************************************************)
EXTENDS Linker, DataFacts, TLAPS

----------------------------------------------------------------------------
(* 1. The types of what the linker computes *)

\* Half of an address is a byte.
LEMMA HalfType ==
  ASSUME NEW w \in Addr, NEW h \in {0, 1}
  PROVE  Half(w, h) \in Byte
BY DEF Half, Byte

LEMMA WordType ==
  ASSUME NEW x \in Int
  PROVE  x % W \in Addr
<1>1. W \in Nat \ {0}
  BY LinkerAssumption
<1> QED
  BY <1>1, Division DEF Addr

\* A byte in place of another one, or of none.
LEMMA PutType ==
  ASSUME NEW bs \in Seq(Byte), NEW x \in Int, NEW b \in Byte
  PROVE  [bs EXCEPT ![x] = b] \in Seq(Byte) /\ Len([bs EXCEPT ![x] = b]) = Len(bs)
<1>1. CASE x \in 1 .. Len(bs)
  BY <1>1
<1>2. CASE x \notin 1 .. Len(bs)
  <2>1. [bs EXCEPT ![x] = b] = bs
    BY <1>2
  <2> QED
    BY <2>1
<1> QED
  BY <1>1, <1>2

LEMMA PatchType ==
  ASSUME NEW bs \in Seq(Byte), NEW at \in Int, NEW w \in Addr
  PROVE  Patch(bs, at, w) \in Seq(Byte) /\ Len(Patch(bs, at, w)) = Len(bs)
<1> DEFINE one == [bs EXCEPT ![at + 1] = Half(w, 0)]
           two == [one EXCEPT ![at + 2] = Half(w, 1)]
<1>1. Half(w, 0) \in Byte /\ Half(w, 1) \in Byte /\ at + 1 \in Int /\ at + 2 \in Int
  BY HalfType
<1>2. one \in Seq(Byte) /\ Len(one) = Len(bs)
  BY <1>1, PutType
<1> HIDE DEF one
<1>3. two \in Seq(Byte) /\ Len(two) = Len(one)
  BY <1>1, <1>2, PutType
<1>4. Patch(bs, at, w) = two
  BY DEF Patch, one
<1> QED
  BY <1>2, <1>3, <1>4

LEMMA StartType ==
  ASSUME NEW o, WellFormed(o), NEW t
  PROVE  StartOf(o, t) \in Addr
<1>1. 0 \in Addr
  BY LinkerAssumption DEF Addr
<1> QED
  BY <1>1 DEF StartOf, WellFormed, SegsOf, Section

LEMMA BytesType ==
  ASSUME NEW o, WellFormed(o), NEW t
  PROVE  BytesIn(o, t) \in Seq(Byte)
BY DEF BytesIn, WellFormed, SegsOf, Section

\* The segment types of all objects.
AllSegs == UNION {SegsOf(objs[i]) : i \in DOMAIN objs}

\* The bytes that the first n objects have in segment t.
Taken(t, n) == FlattenSeq([i \in 1 .. n |-> BytesIn(objs[i], t)])

LEMMA ObjectsAreWellFormed ==
  ASSUME Objects(objs)
  PROVE  /\ Len(objs) \in Nat /\ DOMAIN objs = 1 .. Len(objs)
         /\ \A i \in 1 .. Len(objs) : WellFormed(objs[i])
BY DEF Objects, Range

LEMMA TakenType ==
  ASSUME Objects(objs), NEW t, NEW n \in 0 .. Len(objs)
  PROVE  Taken(t, n) \in Seq(Byte) /\ Len(Taken(t, n)) \in Nat
<1> DEFINE ss == [i \in 1 .. n |-> BytesIn(objs[i], t)]
<1>1. \A i \in 1 .. n : BytesIn(objs[i], t) \in Seq(Byte)
  BY ObjectsAreWellFormed, BytesType
<1>2. ss \in Seq(Seq(Byte))
  BY <1>1
<1> HIDE DEF ss
<1>3. FlattenSeq(ss) \in Seq(Byte)
  BY <1>2, FlattenType
<1> QED
  BY <1>3 DEF Taken, ss

\* One object more.
LEMMA TakenNext ==
  ASSUME Objects(objs), NEW t, NEW n \in 0 .. Len(objs) - 1
  PROVE  Taken(t, n + 1) = Taken(t, n) \o BytesIn(objs[n + 1], t)
<1> DEFINE ss == [i \in 1 .. n |-> BytesIn(objs[i], t)]
           rr == [i \in 1 .. n + 1 |-> BytesIn(objs[i], t)]
           s  == BytesIn(objs[n + 1], t)
<1>1. \A i \in 1 .. n + 1 : BytesIn(objs[i], t) \in Seq(Byte)
  BY ObjectsAreWellFormed, BytesType
<1>2. ss \in Seq(Seq(Byte)) /\ s \in Seq(Byte)
  BY <1>1
<1>3. rr = Append(ss, s)
  BY <1>1, <1>2
<1> HIDE DEF ss, rr, s
<1>4. FlattenSeq(rr) = FlattenSeq(ss) \o s
  BY <1>2, <1>3, FlattenAppend
<1> QED
  BY <1>4 DEF Taken, ss, rr, s

LEMMA LengthsAre ==
  ASSUME Objects(objs)
  PROVE  /\ AllSegs \subseteq SegType
         /\ Lengths = [t \in AllSegs |-> Len(Taken(t, Len(objs)))]
         /\ Lengths \in [AllSegs -> Nat]
<1>1. AllSegs \subseteq SegType
  BY ObjectsAreWellFormed DEF AllSegs, WellFormed
<1>2. Lengths = [t \in AllSegs |-> Len(Taken(t, Len(objs)))]
  BY ObjectsAreWellFormed DEF Lengths, AllSegs, Taken
<1>3. \A t \in AllSegs : Len(Taken(t, Len(objs))) \in Nat
  BY ObjectsAreWellFormed, TakenType
<1> QED
  BY <1>1, <1>2, <1>3

----------------------------------------------------------------------------
(* 2. Type correctness.  The loops index the tables of the object they are
   in, so types need to know where each loop is (Position). *)

\* TypeOK, by the variables it is about.
InvocationType == Job(job) /\ Objects(objs) /\ Objects(lib)
CounterType    == stage \in Loops \cup Final /\ k \in Nat \ {0} /\ j \in Nat \ {0}
KnownType      == known \in [Names -> {"absent", "undefined", "defined"}]
LayoutType ==
  /\ lengths \in [DOMAIN lengths -> Nat] /\ DOMAIN lengths \subseteq SegType
  /\ start \in [DOMAIN start -> Addr] /\ DOMAIN start \subseteq DOMAIN lengths
  /\ lastEnd \in Addr
BytesTypes == out \in [DOMAIN start -> Seq(Byte)] /\ cur \in [DOMAIN cur -> Seq(Byte)]
SymbolsType ==
  /\ syms \in Seq(Symbol) /\ ids \in Seq(DOMAIN syms)
  /\ glob \in [DOMAIN glob -> DOMAIN syms] /\ DOMAIN glob \subseteq Names
  /\ \A n \in DOMAIN glob : syms[glob[n]].global /\ syms[glob[n]].name = n
RelocsType ==
  /\ reloc \in Seq(Reloc) /\ undef \in Seq(Reloc)
  /\ \A r \in Range(reloc) \cup Range(undef) : r.sym \in DOMAIN syms /\ r.seg \in DOMAIN start
ResultType ==
  /\ entry \in {NoEntry} \cup (EntrySeg \X Addr)
  /\ failure \in BOOLEAN

Types == /\ InvocationType /\ CounterType /\ KnownType /\ LayoutType
         /\ BytesTypes /\ SymbolsType /\ RelocsType /\ ResultType

LEMMA TypesAreTypeOK == Types <=> TypeOK
BY DEF Types, TypeOK, InvocationType, CounterType, KnownType, LayoutType, BytesTypes,
       SymbolsType, RelocsType, ResultType

\* Where the loops are.
AtObject ==
  /\ k \in DOMAIN objs /\ DOMAIN cur = SegsOf(objs[k])
  /\ \A t \in SegsOf(objs[k]) : Len(cur[t]) = Len(objs[k].segs[t].bytes)

Position ==
  /\ stage = "search" => DOMAIN start = {}
  /\ stage # "search" => lengths = Lengths
  /\ stage \notin {"search", "layout"} => DOMAIN start = AllSegs
  /\ stage = "symbols" => AtObject /\ Len(ids) = j - 1 /\ j <= Len(objs[k].syms) + 1
  /\ stage = "relocs" => AtObject /\ Len(ids) = Len(objs[k].syms)
  /\ ~job.exe => entry \in {NoEntry} \cup (SegType \X Addr)

LinkInv == Types /\ Position

LEMMA ObjectsOf ==
  ASSUME NEW S, \A o \in S : WellFormed(o), NEW os \in Seq(S)
  PROVE  Objects(os)
<1>1. Range(os) \subseteq S /\ os \in [1 .. Len(os) -> Range(os)] /\ Len(os) \in Nat
  BY DEF Range
<1>2. os \in Seq(Range(os))
  BY <1>1, SeqDef
<1> QED
  BY <1>1, <1>2 DEF Objects

LEMMA KnownTypes ==
  /\ \A os : InputGlobals(os) \in [Names -> {"absent", "undefined", "defined"}]
  /\ KnownType => \A o : ExtendUndefineds(o) \in [Names -> {"absent", "undefined", "defined"}]
BY DEF InputGlobals, ExtendUndefineds, KnownType

LEMMA InitCorrect ==
  ASSUME Init
  PROVE  LinkInv
<1>1. Job(job)
  BY JobsAssumption DEF Init
<1>2. InvocationType
  BY <1>1 DEF InvocationType, Init, Job
<1>3. CounterType
  BY DEF CounterType, Init, Loops
<1>8. ResultType
  <2>1. entry = NoEntry /\ failure = FALSE
    BY DEF Init
  <2> QED
    BY <2>1 DEF ResultType
<1>4. KnownType
  BY KnownTypes DEF KnownType, Init
<1>5. LayoutType
  <2>1. lengths = <<>> /\ start = <<>> /\ lastEnd = PageSize
    BY DEF Init
  <2>2. PageSize \in Addr
    BY LinkerAssumption DEF Addr
  <2> QED
    BY <2>1, <2>2 DEF LayoutType
<1>6. BytesTypes /\ SymbolsType /\ RelocsType
  <2>1. /\ start = <<>> /\ out = <<>> /\ cur = <<>> /\ syms = <<>> /\ ids = <<>>
        /\ glob = <<>> /\ reloc = <<>> /\ undef = <<>>
    BY DEF Init
  <2> QED
    BY <2>1 DEF BytesTypes, SymbolsType, RelocsType, Range
<1>7. Position
  BY DEF Position, Init
<1> QED
  BY <1>2, <1>3, <1>4, <1>5, <1>6, <1>7, <1>8 DEF LinkInv, Types

LEMMA IncludeCorrect ==
  ASSUME LinkInv, Include
  PROVE  LinkInv'
<1> USE DEF LinkInv, Types
<1>1. PICK i \in DOMAIN lib : /\ objs' = Append(objs, lib[i])
                              /\ lib' = Without(lib, i)
                              /\ known' = ExtendUndefineds(lib[i])
  BY DEF Include
<1>2. /\ UNCHANGED <<invocation, stage, k, j, layout, bytes, tables, entry, failure>>
      /\ stage = "search"
  BY DEF Include
<1>3. InvocationType'
  <2> DEFINE S == Range(objs) \cup Range(lib)
  <2>1. \A o \in S : WellFormed(o)
    BY DEF InvocationType, Objects
  <2>2. objs \in Seq(S) /\ lib \in Seq(S)
    <3>1. objs \in Seq(Range(objs)) /\ lib \in Seq(Range(lib))
      BY DEF InvocationType, Objects
    <3> QED
      BY <3>1, SeqMonotonic
  <2>3. lib[i] \in S
    BY <1>1 DEF Range
  <2> HIDE DEF S
  <2>4. i \in 1 .. Len(lib)
    BY <1>1, <2>2
  <2>5. objs' \in Seq(S) /\ lib' \in Seq(S)
    BY <1>1, <2>2, <2>3, <2>4 DEF Without
  <2>6. Objects(objs)' /\ Objects(lib)'
    BY <2>1, <2>5, ObjectsOf
  <2> QED
    BY <1>2, <2>6 DEF InvocationType, invocation
<1>4. KnownType'
  BY <1>1, KnownTypes DEF KnownType
<1>5. CounterType' /\ LayoutType' /\ BytesTypes' /\ SymbolsType' /\ RelocsType' /\ ResultType'
  BY <1>2 DEF CounterType, LayoutType, BytesTypes, SymbolsType, RelocsType, ResultType,
              layout, bytes, tables
<1>6. Position'
  BY <1>2 DEF Position, layout, invocation
<1> QED
  BY <1>3, <1>4, <1>5, <1>6

LEMMA EndSearchCorrect ==
  ASSUME LinkInv, EndSearch
  PROVE  LinkInv'
<1> USE DEF LinkInv, Types
<1>1. /\ stage = "search" /\ stage' = "layout" /\ lengths' = Lengths
      /\ UNCHANGED <<job, relinked, search, k, j, start, lastEnd, bytes, tables, entry, failure>>
  BY DEF EndSearch
<1>2. InvocationType' /\ KnownType'
  BY <1>1 DEF InvocationType, KnownType, search
<1>3. CounterType'
  BY <1>1 DEF CounterType, Loops
<1>4. LayoutType'
  <2>1. DOMAIN start = {}
    BY <1>1 DEF Position
  <2>2. lengths' \in [AllSegs -> Nat] /\ AllSegs \subseteq SegType
    BY <1>1, LengthsAre DEF InvocationType
  <2> QED
    BY <1>1, <2>1, <2>2 DEF LayoutType
<1>5. BytesTypes' /\ SymbolsType' /\ RelocsType' /\ ResultType'
  BY <1>1 DEF BytesTypes, SymbolsType, RelocsType, ResultType, bytes, tables
<1>6. Position'
  <2>1. Lengths' = Lengths
    BY <1>1 DEF Lengths, search
  <2> QED
    BY <1>1, <2>1 DEF Position, invocation
<1> QED
  BY <1>2, <1>3, <1>4, <1>5, <1>6

LEMMA LayoutSegmentCorrect ==
  ASSUME LinkInv, LayoutSegment
  PROVE  LinkInv'
<1> USE DEF LinkInv, Types
<1>1. PICK t \in DOMAIN lengths \ DOMAIN start :
        /\ start' = [u \in DOMAIN start \cup {t} |->
                       IF u = t THEN AlignEnd(lastEnd) % W ELSE start[u]]
        /\ out' = [u \in DOMAIN start \cup {t} |-> <<>>]
        /\ lastEnd' = (AlignEnd(lastEnd) + lengths[t]) % W
  BY DEF LayoutSegment
<1>2. /\ UNCHANGED <<invocation, stage, search, k, j, lengths, cur, tables, entry, failure>>
      /\ stage = "layout"
  BY DEF LayoutSegment
<1>3. InvocationType' /\ KnownType' /\ CounterType' /\ ResultType' /\ SymbolsType'
  BY <1>2 DEF InvocationType, KnownType, CounterType, ResultType, SymbolsType,
              invocation, search, tables
<1>4. LayoutType'
  <2>1. AlignEnd(lastEnd) \in Int /\ lengths[t] \in Nat
    BY <1>1, LinkerAssumption DEF LayoutType, AlignEnd, Addr
  <2>2. AlignEnd(lastEnd) % W \in Addr /\ (AlignEnd(lastEnd) + lengths[t]) % W \in Addr
    BY <2>1, WordType
  <2> QED
    BY <1>1, <1>2, <2>2 DEF LayoutType
<1>5. BytesTypes'
  BY <1>1, <1>2 DEF BytesTypes
<1>6. RelocsType'
  BY <1>1, <1>2 DEF RelocsType, tables
<1>7. Position'
  BY <1>2 DEF Position, Lengths, search, invocation
<1> QED
  BY <1>3, <1>4, <1>5, <1>6, <1>7

LEMMA EndLayoutCorrect ==
  ASSUME LinkInv, EndLayout
  PROVE  LinkInv'
<1> USE DEF LinkInv, Types
<1>1. /\ stage = "layout" /\ DOMAIN start = DOMAIN lengths /\ stage' = "object"
      /\ UNCHANGED <<invocation, search, k, j, layout, bytes, tables, entry, failure>>
  BY DEF EndLayout
<1>2. InvocationType' /\ KnownType' /\ ResultType' /\ SymbolsType' /\ RelocsType'
  BY <1>1 DEF InvocationType, KnownType, ResultType, SymbolsType, RelocsType,
              invocation, search, tables, layout
<1>3. CounterType'
  BY <1>1 DEF CounterType, Loops
<1>4. LayoutType' /\ BytesTypes'
  BY <1>1 DEF LayoutType, BytesTypes, layout, bytes
<1>5. Position'
  <2>1. lengths = Lengths /\ DOMAIN Lengths = AllSegs
    BY <1>1, LengthsAre DEF Position, InvocationType, invocation
  <2> QED
    BY <1>1, <2>1 DEF Position, Lengths, AllSegs, search, layout, invocation
<1> QED
  BY <1>2, <1>3, <1>4, <1>5

LEMMA MovedType ==
  ASSUME Types, NEW o, WellFormed(o), NEW t, NEW loc \in Addr
  PROVE  Moved(o, t, loc) \in Addr
<1>1. W \in Nat \ {0}
  BY LinkerAssumption
<1>2. StartOf(o, t) \in Addr
  BY StartType
<1>3. Base(t) \in Addr
  <2>1. CASE t \in DOMAIN start
    <3>1. start[t] \in Addr /\ out[t] \in Seq(Byte)
      BY <2>1 DEF Types, LayoutType, BytesTypes
    <3>2. start[t] + Len(out[t]) \in Int
      BY <3>1 DEF Addr
    <3> QED
      BY <2>1, <3>2, WordType DEF Base, At
  <2>2. CASE t \notin DOMAIN start
    BY <1>1, <2>2 DEF Base, Addr
  <2> QED
    BY <2>1, <2>2
<1>4. loc - StartOf(o, t) + Base(t) \in Int
  BY <1>2, <1>3 DEF Addr
<1> QED
  BY <1>4, WordType DEF Moved

LEMMA CurrentIsWellFormed ==
  ASSUME Types, k \in DOMAIN objs
  PROVE  WellFormed(objs[k])
BY DEF Types, InvocationType, Objects, Range

\* What EnterObject does if it does not panic.
LEMMA EntersObject ==
  ASSUME EnterObject, stage' # "panic", NEW o, o = objs[k]
  PROVE  /\ stage = "object" /\ k <= Len(objs)
         /\ entry = NoEntry /\ o.entry # NoEntry => o.entry[1] \in SegsOf(o)
         /\ entry' = IF entry = NoEntry /\ o.entry # NoEntry
                     THEN <<o.entry[1], Moved(o, o.entry[1], o.entry[2])>> ELSE entry
         /\ cur' = [t \in SegsOf(o) |-> o.segs[t].bytes]
         /\ stage' = "symbols" /\ j' = 1 /\ ids' = <<>>
         /\ UNCHANGED <<invocation, search, k, layout, out, syms, glob, reloc, undef, failure>>
<1>1. ~(TakesEntry /\ StrayEntry(objs[k]))
  BY DEF EnterObject
<1> QED
  BY <1>1 DEF EnterObject, TakesEntry, StrayEntry

\* A panic leaves everything as it is.
LEMMA PanicCorrect ==
  ASSUME LinkInv, EnterObject \/ Relocate, stage' = "panic"
  PROVE  /\ LinkInv' /\ stage \in {"object", "relocs"}
         /\ UNCHANGED <<invocation, search, k, j, layout, bytes, tables, entry, failure>>
<1> USE DEF LinkInv, Types
<1>1. /\ stage \in {"object", "relocs"}
      /\ UNCHANGED <<invocation, search, k, j, layout, bytes, tables, entry, failure>>
  BY DEF EnterObject, Relocate, bytes, tables
<1>2. InvocationType' /\ KnownType' /\ ResultType' /\ SymbolsType' /\ RelocsType'
  BY <1>1 DEF InvocationType, KnownType, ResultType, SymbolsType, RelocsType,
              invocation, search, tables, layout
<1>3. CounterType' /\ LayoutType' /\ BytesTypes'
  BY <1>1 DEF CounterType, Final, LayoutType, BytesTypes, layout, bytes
<1>4. Position'
  BY <1>1 DEF Position, Lengths, AllSegs, search, layout, invocation
<1> QED
  BY <1>1, <1>2, <1>3, <1>4

LEMMA EnterObjectCorrect ==
  ASSUME LinkInv, EnterObject, stage' # "panic"
  PROVE  LinkInv'
<1> USE DEF LinkInv, Types
<1> DEFINE o == objs[k]
<1>1. /\ stage = "object" /\ k <= Len(objs)
      /\ entry = NoEntry /\ o.entry # NoEntry => o.entry[1] \in SegsOf(o)
      /\ entry' = IF entry = NoEntry /\ o.entry # NoEntry
                  THEN <<o.entry[1], Moved(o, o.entry[1], o.entry[2])>> ELSE entry
      /\ cur' = [t \in SegsOf(o) |-> o.segs[t].bytes]
      /\ stage' = "symbols" /\ j' = 1 /\ ids' = <<>>
      /\ UNCHANGED <<invocation, search, k, layout, out, syms, glob, reloc, undef, failure>>
  BY EntersObject
<1>2. k \in DOMAIN objs
  BY <1>1, ObjectsAreWellFormed DEF InvocationType, CounterType
<1>3. WellFormed(o)
  BY <1>2, CurrentIsWellFormed
<1>4. InvocationType' /\ KnownType' /\ LayoutType' /\ RelocsType'
  BY <1>1 DEF InvocationType, KnownType, LayoutType, RelocsType, invocation, search, layout
<1>5. CounterType'
  BY <1>1 DEF CounterType, Loops
<1>6. BytesTypes'
  <2>1. \A t \in SegsOf(o) : o.segs[t].bytes \in Seq(Byte)
    BY <1>3 DEF WellFormed, SegsOf, Section
  <2> HIDE DEF o
  <2> QED
    BY <1>1, <2>1 DEF BytesTypes, layout
<1>7. SymbolsType'
  BY <1>1 DEF SymbolsType
<1>8. ResultType'
  <2>1. CASE entry = NoEntry /\ o.entry # NoEntry
    <3>1. o.entry \in EntrySeg \X Addr
      BY <1>3, <2>1 DEF WellFormed
    <3>2. o.entry[1] \in EntrySeg /\ o.entry[2] \in Addr
      BY <3>1
    <3>3. Moved(o, o.entry[1], o.entry[2]) \in Addr
      BY <1>3, <3>2, MovedType
    <3> HIDE DEF o
    <3> QED
      BY <1>1, <2>1, <3>2, <3>3 DEF ResultType
  <2>2. CASE ~(entry = NoEntry /\ o.entry # NoEntry)
    <3>1. entry' = entry
      BY <1>1, <2>2
    <3> QED
      BY <1>1, <3>1 DEF ResultType
  <2> QED
    BY <2>1, <2>2
<1>9. Position'
  <2>1. AtObject'
    BY <1>1, <1>2 DEF AtObject, search, SegsOf
  <2>2. Len(ids') = j' - 1 /\ j' <= Len(objs'[k'].syms) + 1
    BY <1>1, <1>3 DEF search, WellFormed
  <2>3. lengths' = Lengths' /\ DOMAIN start' = AllSegs'
    BY <1>1 DEF Position, Lengths, AllSegs, search, layout
  <2>4. ~job.exe => entry' \in {NoEntry} \cup (SegType \X Addr)
    <3>1. CASE entry = NoEntry /\ o.entry # NoEntry
      <4>1. o.entry[1] \in SegType /\ o.entry[2] \in Addr
        BY <1>1, <1>3, <3>1 DEF WellFormed
      <4>2. Moved(o, o.entry[1], o.entry[2]) \in Addr
        BY <1>3, <4>1, MovedType
      <4> HIDE DEF o
      <4> QED
        BY <1>1, <3>1, <4>1, <4>2
    <3>2. CASE ~(entry = NoEntry /\ o.entry # NoEntry)
      BY <1>1, <3>2 DEF Position
    <3> QED
      BY <3>1, <3>2
  <2> QED
    BY <1>1, <2>1, <2>2, <2>3, <2>4 DEF Position, invocation
<1> QED
  BY <1>4, <1>5, <1>6, <1>7, <1>8, <1>9

\* The symbol of the current round.
LEMMA MovedSymbolType ==
  ASSUME LinkInv, stage = "symbols", j <= Len(objs[k].syms)
  PROVE  MovedSymbol \in Symbol
<1> DEFINE o == objs[k]
           s == o.syms[j]
<1>1. WellFormed(o)
  BY CurrentIsWellFormed DEF LinkInv, Position, AtObject
<1>2. s \in Symbol
  BY <1>1 DEF LinkInv, Types, CounterType, WellFormed
<1>3. Moved(o, s.seg, s.loc) \in Addr
  BY <1>1, <1>2, MovedType DEF LinkInv, Symbol
<1>4. MovedSymbol = [s EXCEPT !.loc = Moved(o, s.seg, s.loc)]
  BY DEF MovedSymbol
<1> HIDE DEF s, o
<1> QED
  BY <1>2, <1>3, <1>4 DEF Symbol

LEMMA NewSymbolTypes ==
  ASSUME SymbolsType, NEW s \in Symbol, NewSymbol(s)
  PROVE  /\ SymbolsType' /\ Len(syms') = Len(syms) + 1
         /\ \A i \in DOMAIN syms : i \in DOMAIN syms' /\ syms'[i] = syms[i]
         /\ Len(ids') = Len(ids) + 1
<1>1. /\ ~s.global \/ s.name \notin DOMAIN glob
      /\ syms' = Append(syms, s) /\ ids' = Append(ids, NextId)
      /\ glob' = IF s.global THEN [n \in DOMAIN glob \cup {s.name} |->
                                     IF n = s.name THEN NextId ELSE glob[n]]
                             ELSE glob
  BY DEF NewSymbol
<1>2. PICK n \in Nat : n = Len(syms)
  BY DEF SymbolsType
<1>3. /\ DOMAIN syms = 1 .. n /\ DOMAIN syms' = 1 .. n + 1 /\ NextId = n + 1
      /\ syms' \in Seq(Symbol) /\ Len(syms') = n + 1
      /\ syms'[n + 1] = s /\ \A i \in 1 .. n : syms'[i] = syms[i]
  BY <1>1, <1>2 DEF SymbolsType, NextId
<1>4. ids' \in Seq(DOMAIN syms') /\ Len(ids') = Len(ids) + 1
  <2>1. ids \in Seq(1 .. n + 1)
    <3>1. 1 .. n \subseteq 1 .. n + 1
      OBVIOUS
    <3> QED
      BY <1>3, <3>1, SeqMonotonic DEF SymbolsType
  <2>2. n + 1 \in 1 .. n + 1
    OBVIOUS
  <2> QED
    BY <1>1, <1>3, <2>1, <2>2
<1>5. glob' \in [DOMAIN glob' -> DOMAIN syms'] /\ DOMAIN glob' \subseteq Names
  <2>1. s.name \in Names /\ n + 1 \in DOMAIN syms' /\ DOMAIN syms \subseteq DOMAIN syms'
    BY <1>3 DEF Symbol
  <2> QED
    BY <1>1, <1>3, <2>1 DEF SymbolsType
<1>6. ASSUME NEW m \in DOMAIN glob' PROVE syms'[glob'[m]].global /\ syms'[glob'[m]].name = m
  <2>1. CASE s.global /\ m = s.name
    BY <1>1, <1>3, <2>1
  <2>2. CASE ~(s.global /\ m = s.name)
    <3>1. m \in DOMAIN glob /\ glob'[m] = glob[m]
      BY <1>1, <1>6, <2>2
    <3>2. glob[m] \in 1 .. n
      BY <1>3, <3>1 DEF SymbolsType
    <3> QED
      BY <1>3, <3>1, <3>2 DEF SymbolsType
  <2> QED
    BY <2>1, <2>2
<1>7. SymbolsType'
  BY <1>3, <1>4, <1>5, <1>6 DEF SymbolsType
<1> QED
  BY <1>2, <1>3, <1>4, <1>7

\* A symbol that is merged with an earlier one keeps its name and, once it is
\* defined, its definition.
LEMMA KnownSymbolTypes ==
  ASSUME SymbolsType, NEW s \in Symbol, KnownSymbol(s)
  PROVE  /\ SymbolsType' /\ DOMAIN syms' = DOMAIN syms
         /\ \A i \in DOMAIN syms : /\ syms'[i].name = syms[i].name
                                   /\ syms'[i].global = syms[i].global
                                   /\ ~Unknown(syms[i]) => syms'[i] = syms[i]
         /\ Len(ids') = Len(ids) + 1
<1> DEFINE id == glob[s.name]
<1>1. /\ s.global /\ s.name \in DOMAIN glob /\ glob' = glob
      /\ syms' = [syms EXCEPT ![id] = Merged(s, syms[id])]
      /\ ids' = Append(ids, id)
  BY DEF KnownSymbol
<1>2. id \in DOMAIN syms /\ syms[id] \in Symbol /\ syms[id].global /\ syms[id].name = s.name
  BY <1>1 DEF SymbolsType
<1>3. /\ Merged(s, syms[id]) \in Symbol
      /\ Merged(s, syms[id]).name = s.name /\ Merged(s, syms[id]).global
      /\ ~Unknown(syms[id]) => Merged(s, syms[id]) = syms[id]
  BY <1>1, <1>2 DEF Merged
<1> HIDE DEF id
<1>4. /\ syms' \in Seq(Symbol) /\ Len(syms') = Len(syms) /\ DOMAIN syms' = DOMAIN syms
      /\ syms'[id] = Merged(s, syms[id])
      /\ \A i \in DOMAIN syms \ {id} : syms'[i] = syms[i]
  BY <1>1, <1>2, <1>3 DEF SymbolsType
<1>5. s.global = TRUE /\ syms[id].global = TRUE /\ Merged(s, syms[id]).global = TRUE
  BY <1>1, <1>2, <1>3 DEF Symbol
<1>6. \A i \in DOMAIN syms : /\ syms'[i].name = syms[i].name
                             /\ syms'[i].global = syms[i].global
                             /\ ~Unknown(syms[i]) => syms'[i] = syms[i]
  <2> TAKE i \in DOMAIN syms
  <2>1. CASE i = id
    BY <1>2, <1>3, <1>4, <1>5, <2>1
  <2>2. CASE i # id
    BY <1>4, <2>2
  <2> QED
    BY <2>1, <2>2
<1>7. ids' \in Seq(DOMAIN syms') /\ Len(ids') = Len(ids) + 1
  BY <1>1, <1>2, <1>4 DEF SymbolsType
<1>8. SymbolsType'
  BY <1>1, <1>4, <1>6, <1>7 DEF SymbolsType
<1> QED
  BY <1>4, <1>6, <1>7, <1>8

\* What both ways to add a symbol have in common.
LEMMA AddSymbolEffect ==
  ASSUME LinkInv, AddSymbol
  PROVE  /\ SymbolsType' /\ Len(ids') = Len(ids) + 1 /\ failure' \in BOOLEAN
         /\ \A i \in DOMAIN syms : /\ i \in DOMAIN syms'
                                   /\ syms'[i].name = syms[i].name
                                   /\ syms'[i].global = syms[i].global
                                   /\ ~Unknown(syms[i]) => syms'[i] = syms[i]
<1>1. SymbolsType /\ failure \in BOOLEAN
  BY DEF LinkInv, Types, ResultType
<1>2. MovedSymbol \in Symbol
  BY MovedSymbolType DEF AddSymbol
<1>3. PICK s \in Symbol : NewSymbol(s) \/ KnownSymbol(s)
  BY <1>2 DEF AddSymbol
<1>4. CASE NewSymbol(s)
  <2>1. failure' = failure
    BY <1>4 DEF NewSymbol
  <2> QED
    BY <1>1, <1>4, <2>1, NewSymbolTypes
<1>5. CASE KnownSymbol(s)
  <2>1. failure' = (failure \/ Clash(s, syms[glob[s.name]]))
    BY <1>5 DEF KnownSymbol
  <2>2. failure' \in BOOLEAN
    BY <1>1, <2>1 DEF Clash
  <2> QED
    BY <1>1, <1>5, <2>2, KnownSymbolTypes
<1> QED
  BY <1>3, <1>4, <1>5

LEMMA AddSymbolCorrect ==
  ASSUME LinkInv, AddSymbol
  PROVE  LinkInv'
<1> USE DEF LinkInv, Types
<1>1. /\ stage = "symbols" /\ j <= Len(objs[k].syms) /\ j' = j + 1
      /\ UNCHANGED <<invocation, stage, search, k, layout, bytes, reloc, undef, entry>>
  BY DEF AddSymbol
<1>2. InvocationType' /\ KnownType' /\ LayoutType' /\ BytesTypes' /\ CounterType'
  BY <1>1 DEF InvocationType, KnownType, LayoutType, BytesTypes, CounterType,
              invocation, search, layout, bytes
<1>3. SymbolsType' /\ ResultType'
  BY <1>1, AddSymbolEffect DEF ResultType
<1>4. RelocsType'
  <2>1. DOMAIN syms \subseteq DOMAIN syms'
    BY AddSymbolEffect
  <2> QED
    BY <1>1, <2>1 DEF RelocsType, layout
<1>5. Position'
  <2>1. AtObject' /\ Len(ids') = j' - 1
    BY <1>1, AddSymbolEffect DEF Position, AtObject, search, bytes, CounterType, SymbolsType, invocation
  <2>2. j' <= Len(objs'[k'].syms) + 1
    <3>1. Len(objs[k].syms) \in Nat
      BY <1>1, CurrentIsWellFormed DEF Position, AtObject, WellFormed
    <3> QED
      BY <1>1, <3>1 DEF search, CounterType
  <2>3. lengths' = Lengths' /\ DOMAIN start' = AllSegs'
    BY <1>1 DEF Position, Lengths, AllSegs, search, layout
  <2> QED
    BY <1>1, <2>1, <2>2, <2>3 DEF Position, invocation
<1> QED
  BY <1>2, <1>3, <1>4, <1>5

LEMMA EndSymbolsCorrect ==
  ASSUME LinkInv, EndSymbols
  PROVE  LinkInv'
<1> USE DEF LinkInv, Types
<1>1. /\ stage = "symbols" /\ j > Len(objs[k].syms) /\ stage' = "relocs" /\ j' = 1
      /\ UNCHANGED <<invocation, search, k, layout, bytes, tables, entry, failure>>
  BY DEF EndSymbols
<1>2. InvocationType' /\ KnownType' /\ LayoutType' /\ BytesTypes' /\ SymbolsType' /\ RelocsType'
  BY <1>1 DEF InvocationType, KnownType, LayoutType, BytesTypes, SymbolsType, RelocsType,
              invocation, search, layout, bytes, tables
<1>3. CounterType' /\ ResultType'
  BY <1>1 DEF CounterType, ResultType, Loops
<1>4. Position'
  <2>1. Len(ids) = Len(objs[k].syms)
    <3>1. Len(objs[k].syms) \in Nat
      BY <1>1, CurrentIsWellFormed DEF Position, AtObject, WellFormed
    <3> QED
      BY <1>1, <3>1 DEF Position, CounterType
  <2>2. AtObject' /\ Len(ids') = Len(objs'[k'].syms)
    BY <1>1, <2>1 DEF Position, AtObject, search, bytes, tables
  <2>3. lengths' = Lengths' /\ DOMAIN start' = AllSegs'
    BY <1>1 DEF Position, Lengths, AllSegs, search, layout
  <2> QED
    BY <1>1, <2>2, <2>3 DEF Position, invocation
<1> QED
  BY <1>2, <1>3, <1>4

LEMMA OneReloc ==
  ASSUME NEW rs \in Seq(Reloc), NEW e \in Reloc
  PROVE  Append(rs, e) \in Seq(Reloc) /\ Range(Append(rs, e)) \subseteq Range(rs) \cup {e}
BY DEF Range

\* What a relocation becomes in the output.
Relocated(o, r) == [seg |-> r.seg, loc |-> (OffsetIn(o, r) + At(r.seg)) % W, sym |-> ids[r.sym]]

LEMMA RelocatedType ==
  ASSUME LinkInv, stage = "relocs", j <= Len(objs[k].relocs), NEW r, r = objs[k].relocs[j]
  PROVE  /\ r.seg \in DOMAIN cur /\ r.seg \in DOMAIN start /\ OffsetIn(objs[k], r) \in Addr
         /\ Relocated(objs[k], r) \in Reloc /\ ids[r.sym] \in DOMAIN syms
         /\ Relocated(objs[k], r).sym \in DOMAIN syms /\ Relocated(objs[k], r).seg \in DOMAIN start
<1> USE DEF LinkInv, Types
<1>1. AtObject /\ WellFormed(objs[k])
  BY CurrentIsWellFormed DEF Position, AtObject
<1>2. r \in Range(objs[k].relocs) /\ r \in Reloc
  BY <1>1 DEF WellFormed, CounterType, Range
<1>3. r.sym \in DOMAIN objs[k].syms /\ r.seg \in SegsOf(objs[k]) /\ r.seg \in SegType
  BY <1>1, <1>2 DEF WellFormed
<1>4. r.seg \in DOMAIN cur /\ r.seg \in DOMAIN start
  <2>1. SegsOf(objs[k]) \subseteq AllSegs
    BY <1>1 DEF AllSegs, AtObject
  <2> QED
    BY <1>1, <1>3, <2>1 DEF AtObject, Position
<1>5. ids[r.sym] \in DOMAIN syms
  <2>1. r.sym \in 1 .. Len(ids)
    BY <1>1, <1>3 DEF Position, WellFormed
  <2> QED
    BY <2>1 DEF SymbolsType
<1>6. OffsetIn(objs[k], r) \in Addr
  <2>1. r.loc \in Int /\ StartOf(objs[k], r.seg) \in Int
    BY <1>1, <1>2, StartType DEF Reloc, Addr
  <2>2. r.loc - StartOf(objs[k], r.seg) \in Int
    BY <2>1
  <2> QED
    BY <2>2, WordType DEF OffsetIn
<1>7. (OffsetIn(objs[k], r) + At(r.seg)) % W \in Addr
  <2>1. start[r.seg] + Len(out[r.seg]) \in Int
    BY <1>4 DEF LayoutType, BytesTypes, Addr
  <2>2. At(r.seg) \in Int
    BY <2>1, WordType DEF At, Addr
  <2>3. OffsetIn(objs[k], r) + At(r.seg) \in Int
    BY <1>6, <2>2 DEF Addr
  <2> QED
    BY <2>3, WordType
<1>8. Relocated(objs[k], r) \in Reloc
  BY <1>3, <1>5, <1>7 DEF Relocated, Reloc, SymbolsType
<1> QED
  BY <1>4, <1>5, <1>6, <1>8 DEF Relocated

LEMMA RelocateCorrect ==
  ASSUME LinkInv, Relocate
  PROVE  LinkInv'
<1> USE DEF LinkInv, Types
<1> DEFINE r  == objs[k].relocs[j]
           at == OffsetIn(objs[k], r)
           e  == Relocated(objs[k], r)
           w  == syms[ids[r.sym]]
<1>1. /\ stage = "relocs" /\ j <= Len(objs[k].relocs)
      /\ UNCHANGED <<invocation, search, k, layout, out, ids, syms, glob, entry, failure>>
  BY DEF Relocate
<1>2. \/ stage' = "panic" /\ UNCHANGED <<j, cur, reloc, undef>>
      \/ /\ cur' = [cur EXCEPT ![r.seg] = Patch(cur[r.seg], at, w.loc)]
         /\ reloc' = Append(reloc, e)
         /\ undef' = IF Unknown(w) THEN Append(undef, e) ELSE undef
         /\ j' = j + 1 /\ stage' = stage
  BY DEF Relocate, Relocated
<1>3. /\ r.seg \in DOMAIN cur /\ at \in Addr /\ e \in Reloc
      /\ e.sym \in DOMAIN syms /\ e.seg \in DOMAIN start /\ w \in Symbol
  BY <1>1, RelocatedType DEF SymbolsType
<1>4. InvocationType' /\ KnownType' /\ LayoutType' /\ SymbolsType' /\ ResultType'
  BY <1>1 DEF InvocationType, KnownType, LayoutType, SymbolsType, ResultType,
              invocation, search, layout
<1> HIDE DEF e, r, at, w
<1>5. CounterType'
  BY <1>1, <1>2 DEF CounterType, Loops, Final
<1>6. /\ cur' \in [DOMAIN cur -> Seq(Byte)] /\ DOMAIN cur' = DOMAIN cur
      /\ \A t \in DOMAIN cur : Len(cur'[t]) = Len(cur[t])
  <2>1. CASE cur' = cur
    BY <2>1 DEF BytesTypes
  <2>2. CASE cur' = [cur EXCEPT ![r.seg] = Patch(cur[r.seg], at, w.loc)]
    <3>1. cur[r.seg] \in Seq(Byte) /\ at \in Int /\ w.loc \in Addr
      BY <1>3 DEF BytesTypes, Addr, Symbol
    <3>2. /\ Patch(cur[r.seg], at, w.loc) \in Seq(Byte)
          /\ Len(Patch(cur[r.seg], at, w.loc)) = Len(cur[r.seg])
      BY <3>1, PatchType
    <3> QED
      BY <1>3, <2>2, <3>2 DEF BytesTypes
  <2> QED
    BY <1>2, <2>1, <2>2
<1>7. BytesTypes'
  BY <1>1, <1>6 DEF BytesTypes, layout
<1>8. RelocsType'
  <2>1. reloc \in Seq(Reloc) /\ undef \in Seq(Reloc)
    BY DEF RelocsType
  <2>2. /\ Append(reloc, e) \in Seq(Reloc) /\ Range(Append(reloc, e)) \subseteq Range(reloc) \cup {e}
        /\ Append(undef, e) \in Seq(Reloc) /\ Range(Append(undef, e)) \subseteq Range(undef) \cup {e}
    BY <1>3, <2>1, OneReloc
  <2>3. reloc' \in Seq(Reloc) /\ Range(reloc') \subseteq Range(reloc) \cup {e}
    <3>1. reloc' = reloc \/ reloc' = Append(reloc, e)
      BY <1>2
    <3> QED
      BY <2>1, <2>2, <3>1
  <2>4. undef' \in Seq(Reloc) /\ Range(undef') \subseteq Range(undef) \cup {e}
    <3>1. undef' = undef \/ undef' = Append(undef, e)
      BY <1>2
    <3> QED
      BY <2>1, <2>2, <3>1
  <2> QED
    BY <1>1, <1>3, <2>3, <2>4 DEF RelocsType, layout
<1>9. Position'
  <2>1. AtObject' /\ Len(ids') = Len(objs'[k'].syms)
    BY <1>1, <1>6 DEF Position, AtObject, search, invocation
  <2>2. lengths' = Lengths' /\ DOMAIN start' = AllSegs'
    BY <1>1 DEF Position, Lengths, AllSegs, search, layout
  <2> QED
    BY <1>1, <1>2, <2>1, <2>2 DEF Position, invocation
<1> QED
  BY <1>4, <1>5, <1>7, <1>8, <1>9

LEMMA CopySegmentsCorrect ==
  ASSUME LinkInv, CopySegments
  PROVE  LinkInv'
<1> USE DEF LinkInv, Types
<1>1. /\ stage = "relocs" /\ stage' = "object" /\ k' = k + 1
      /\ out' = [t \in DOMAIN out |-> IF t \in DOMAIN cur THEN out[t] \o cur[t] ELSE out[t]]
      /\ UNCHANGED <<invocation, search, j, layout, cur, tables, entry, failure>>
  BY DEF CopySegments
<1>2. InvocationType' /\ KnownType' /\ LayoutType' /\ SymbolsType' /\ RelocsType' /\ ResultType'
  BY <1>1 DEF InvocationType, KnownType, LayoutType, SymbolsType, RelocsType, ResultType,
              invocation, search, layout, tables
<1>3. CounterType'
  BY <1>1 DEF CounterType, Loops
<1>4. BytesTypes'
  <2>1. \A t \in DOMAIN start : out[t] \in Seq(Byte)
    BY DEF BytesTypes
  <2>2. \A t \in DOMAIN cur : cur[t] \in Seq(Byte)
    BY DEF BytesTypes
  <2>3. \A t \in DOMAIN start : t \in DOMAIN cur => out[t] \o cur[t] \in Seq(Byte)
    BY <2>1, <2>2
  <2> QED
    BY <1>1, <2>1, <2>3 DEF BytesTypes, layout
<1>5. Position'
  BY <1>1 DEF Position, Lengths, AllSegs, search, layout, invocation
<1> QED
  BY <1>2, <1>3, <1>4, <1>5

LEMMA EndObjectsCorrect ==
  ASSUME LinkInv, EndObjects
  PROVE  LinkInv'
<1> USE DEF LinkInv, Types
<1>1. /\ stage = "object" /\ k > Len(objs) /\ stage' = "patch" /\ j' = 1
      /\ UNCHANGED <<invocation, search, k, layout, bytes, tables, entry, failure>>
  BY DEF EndObjects
<1>2. InvocationType' /\ KnownType' /\ LayoutType' /\ BytesTypes' /\ SymbolsType' /\ RelocsType'
  BY <1>1 DEF InvocationType, KnownType, LayoutType, BytesTypes, SymbolsType, RelocsType,
              invocation, search, layout, bytes, tables
<1>3. CounterType' /\ ResultType'
  BY <1>1 DEF CounterType, ResultType, Loops
<1>4. Position'
  BY <1>1 DEF Position, Lengths, AllSegs, search, layout, invocation
<1> QED
  BY <1>2, <1>3, <1>4

\* Patching a reference that was undefined leaves every length as it is.
LEMMA PatchEffect ==
  ASSUME LinkInv, PatchUndefined
  PROVE  /\ out' \in [DOMAIN start -> Seq(Byte)] /\ failure' \in BOOLEAN
         /\ \A t \in DOMAIN start : Len(out'[t]) = Len(out[t])
<1> USE DEF LinkInv, Types
<1> DEFINE r  == undef[j]
           s  == syms[r.sym]
           at == (r.loc - start[r.seg]) % W
<1>1. /\ j <= Len(undef)
      /\ \/ failure' = (failure \/ job.exe) /\ UNCHANGED out
         \/ /\ out' = [out EXCEPT ![r.seg] = Patch(out[r.seg], at, s.loc)]
            /\ UNCHANGED failure
  BY DEF PatchUndefined
<1>2. failure' \in BOOLEAN
  BY <1>1 DEF ResultType, InvocationType, Job
<1>3. r \in Range(undef) /\ r \in Reloc
  BY <1>1 DEF RelocsType, CounterType, Range
<1>4. r.seg \in DOMAIN start /\ s \in Symbol
  BY <1>3 DEF RelocsType, SymbolsType
<1>5. at \in Int /\ s.loc \in Addr /\ out[r.seg] \in Seq(Byte)
  <2>1. r.loc - start[r.seg] \in Int
    BY <1>3, <1>4 DEF Reloc, Addr, LayoutType
  <2>2. at \in Int
    BY <2>1, WordType DEF Addr
  <2> QED
    BY <1>4, <2>2 DEF Symbol, BytesTypes
<1> HIDE DEF r, s, at
<1>6. /\ Patch(out[r.seg], at, s.loc) \in Seq(Byte)
      /\ Len(Patch(out[r.seg], at, s.loc)) = Len(out[r.seg])
  BY <1>5, PatchType
<1>7. CASE out' = out
  BY <1>2, <1>7 DEF BytesTypes
<1>8. CASE out' = [out EXCEPT ![r.seg] = Patch(out[r.seg], at, s.loc)]
  BY <1>2, <1>4, <1>6, <1>8 DEF BytesTypes
<1> QED
  BY <1>1, <1>7, <1>8

LEMMA PatchUndefinedCorrect ==
  ASSUME LinkInv, PatchUndefined
  PROVE  LinkInv'
<1> USE DEF LinkInv, Types
<1>1. /\ stage = "patch" /\ j' = j + 1
      /\ UNCHANGED <<invocation, stage, search, k, layout, cur, tables, entry>>
  BY DEF PatchUndefined
<1>2. InvocationType' /\ KnownType' /\ LayoutType' /\ SymbolsType' /\ RelocsType' /\ CounterType'
  BY <1>1 DEF InvocationType, KnownType, LayoutType, SymbolsType, RelocsType, CounterType,
              invocation, search, layout, tables
<1>3. BytesTypes' /\ ResultType'
  BY <1>1, PatchEffect DEF BytesTypes, ResultType, layout
<1>4. Position'
  BY <1>1 DEF Position, Lengths, AllSegs, search, layout, invocation
<1> QED
  BY <1>2, <1>3, <1>4

LEMMA FinishCorrect ==
  ASSUME LinkInv, Finish
  PROVE  LinkInv'
<1> USE DEF LinkInv, Types
<1>1. /\ stage = "patch" /\ stage' \in Final /\ entry' = SetEntry
      /\ failure' = (failure \/ NoStartSymbol)
      /\ UNCHANGED <<invocation, search, k, j, layout, bytes, tables>>
  BY DEF Finish, Final
<1>2. InvocationType' /\ KnownType' /\ LayoutType' /\ BytesTypes' /\ SymbolsType' /\ RelocsType'
  BY <1>1 DEF InvocationType, KnownType, LayoutType, BytesTypes, SymbolsType, RelocsType,
              invocation, search, layout, bytes, tables
<1>3. CounterType'
  BY <1>1 DEF CounterType
<1>4. ResultType'
  <2>1. failure' \in BOOLEAN
    BY <1>1 DEF ResultType, NoStartSymbol
  <2>2. PageSize \in Addr /\ W - 1 \in Addr
    BY LinkerAssumption DEF Addr
  <2>3. SetEntry \in {NoEntry} \cup (EntrySeg \X Addr)
    <3>1. "none" \notin DOMAIN glob /\ "0x" \notin DOMAIN glob
      BY LinkerAssumption DEF SymbolsType
    <3>2. CASE job.setEntry = "none"
      <4>1. SetEntry = entry
        BY <3>1, <3>2 DEF SetEntry
      <4> QED
        BY <4>1 DEF ResultType
    <3>3. CASE job.setEntry = "0x"
      <4>1. SetEntry = <<"zero", PageSize>>
        BY <3>1, <3>3 DEF SetEntry
      <4> QED
        BY <2>2, <4>1 DEF EntrySeg
    <3>4. CASE job.setEntry \in DOMAIN glob
      <4>1. syms[glob[job.setEntry]] \in Symbol
        BY <3>4 DEF SymbolsType
      <4>2. \E s \in Symbol : SetEntry = <<s.seg, s.loc>>
        BY <3>1, <3>4, <4>1 DEF SetEntry
      <4> QED
        BY <4>2 DEF Symbol, EntrySeg
    <3>5. CASE job.setEntry \notin {"none", "0x"} \cup DOMAIN glob
      <4>1. SetEntry = <<"unknown", W - 1>>
        BY <3>5 DEF SetEntry
      <4> QED
        BY <2>2, <4>1 DEF EntrySeg
    <3> QED
      BY <3>2, <3>3, <3>4, <3>5
  <2> QED
    BY <1>1, <2>1, <2>3 DEF ResultType
<1>5. Position'
  <2>1. ~job.exe => entry' = entry
    <3>1. SUFFICES ASSUME ~job.exe PROVE entry' = entry
      OBVIOUS
    <3>2. job.setEntry = "none" /\ "none" \notin DOMAIN glob
      BY <3>1, LinkerAssumption DEF InvocationType, Job, SymbolsType
    <3>3. SetEntry = entry
      BY <3>2 DEF SetEntry
    <3> QED
      BY <1>1, <3>3
  <2> QED
    BY <1>1, <2>1 DEF Position, Lengths, AllSegs, search, layout, Final, invocation
<1> QED
  BY <1>2, <1>3, <1>4, <1>5

\* The output of one invocation is an object for the next one.
LEMMA OutputIsWellFormed ==
  ASSUME LinkInv, entry \in {NoEntry} \cup (SegType \X Addr)
  PROVE  WellFormed(Output)
<1> USE DEF LinkInv, Types
<1> DEFINE o == Output
<1>1. /\ o.segs = [t \in DOMAIN start |-> [start |-> start[t], bytes |-> out[t]]]
      /\ o.syms = syms /\ o.relocs = reloc /\ o.entry = entry
      /\ o = [segs |-> o.segs, syms |-> o.syms, relocs |-> o.relocs, entry |-> o.entry]
  BY DEF Output
<1>2. \A t \in DOMAIN start : start[t] \in Addr /\ out[t] \in Seq(Byte)
  BY DEF LayoutType, BytesTypes
<1> HIDE DEF o
<1>3. SegsOf(o) = DOMAIN start /\ DOMAIN start \subseteq SegType
  BY <1>1 DEF SegsOf, LayoutType
<1>4. o.segs \in [SegsOf(o) -> Section]
  BY <1>1, <1>2, <1>3 DEF Section
<1>5. o.syms \in Seq(Symbol) /\ o.relocs \in Seq(Reloc)
  BY <1>1 DEF SymbolsType, RelocsType
<1>6. \A r \in Range(o.relocs) : r.sym \in DOMAIN o.syms /\ r.seg \in SegsOf(o)
  BY <1>1, <1>3 DEF RelocsType
<1>7. WellFormed(o)
  BY <1>1, <1>3, <1>4, <1>5, <1>6 DEF WellFormed, EntrySeg
<1> QED
  BY <1>7 DEF o

LEMMA RelinkCorrect ==
  ASSUME LinkInv, Relink
  PROVE  LinkInv'
<1> USE DEF LinkInv, Types
<1>1. PICK b \in Relinks : /\ job' = [b EXCEPT !.objs = <<Output>> \o @]
                           /\ objs' = job'.objs /\ lib' = b.lib
                           /\ known' = InputGlobals(job'.objs)
  BY DEF Relink
<1>2. /\ ~job.exe /\ stage' = "search" /\ k' = 1 /\ j' = 1
      /\ lengths' = <<>> /\ start' = <<>> /\ lastEnd' = PageSize
      /\ out' = <<>> /\ cur' = <<>> /\ ids' = <<>> /\ syms' = <<>> /\ glob' = <<>>
      /\ reloc' = <<>> /\ undef' = <<>> /\ entry' = NoEntry /\ failure' = FALSE
  BY DEF Relink
<1>3. InvocationType'
  <2>1. Job(b) /\ b = [objs |-> b.objs, lib |-> b.lib, exe |-> b.exe, setEntry |-> b.setEntry]
    BY JobsAssumption DEF Job
  <2>2. /\ job'.objs = <<Output>> \o b.objs /\ job'.lib = b.lib
        /\ job'.exe = b.exe /\ job'.setEntry = b.setEntry
        /\ job' = [objs |-> job'.objs, lib |-> job'.lib, exe |-> job'.exe,
                   setEntry |-> job'.setEntry]
    BY <1>1, <2>1
  <2>3. Objects(<<Output>> \o b.objs)
    <3> DEFINE S == Range(b.objs) \cup {Output}
    <3>1. \A o \in S : WellFormed(o)
      BY <1>2, <2>1, OutputIsWellFormed DEF Position, Job, Objects
    <3>2. b.objs \in Seq(S)
      <4>1. b.objs \in Seq(Range(b.objs))
        BY <2>1 DEF Job, Objects
      <4> QED
        BY <4>1, SeqMonotonic
    <3>3. <<Output>> \in Seq(S)
      OBVIOUS
    <3> HIDE DEF S
    <3>4. <<Output>> \o b.objs \in Seq(S)
      BY <3>2, <3>3
    <3> QED
      BY <3>1, <3>4, ObjectsOf
  <2>4. Job(job')
    BY <2>1, <2>2, <2>3 DEF Job
  <2> QED
    BY <1>1, <2>1, <2>2, <2>3, <2>4 DEF InvocationType, Job
<1>4. CounterType' /\ KnownType'
  BY <1>1, <1>2, KnownTypes DEF CounterType, KnownType, Loops
<1>5. LayoutType'
  <2>1. PageSize \in Addr
    BY LinkerAssumption DEF Addr
  <2> QED
    BY <1>2, <2>1 DEF LayoutType
<1>6. BytesTypes' /\ SymbolsType' /\ RelocsType'
  BY <1>2 DEF BytesTypes, SymbolsType, RelocsType, Range
<1>7. ResultType'
  BY <1>2 DEF ResultType
<1>8. Position'
  BY <1>2 DEF Position
<1> QED
  BY <1>3, <1>4, <1>5, <1>6, <1>7, <1>8

LEMMA LinkInvStep ==
  ASSUME LinkInv, [Next]_vars
  PROVE  LinkInv'
<1>1. CASE UNCHANGED vars
  <2>1. UNCHANGED <<job, objs, lib, known, stage, k, j, lengths, start, lastEnd, out, cur,
                    ids, syms, glob, reloc, undef, entry, failure>>
    BY <1>1 DEF vars, invocation, search, layout, tables, bytes
  <2>2. InvocationType' /\ CounterType' /\ KnownType' /\ LayoutType' /\ BytesTypes'
    BY <2>1 DEF LinkInv, Types, InvocationType, CounterType, KnownType, LayoutType, BytesTypes
  <2>3. SymbolsType' /\ RelocsType' /\ ResultType'
    BY <2>1 DEF LinkInv, Types, SymbolsType, RelocsType, ResultType
  <2>4. Position'
    BY <2>1 DEF LinkInv, Position, AtObject, Lengths, AllSegs
  <2> QED
    BY <2>2, <2>3, <2>4 DEF LinkInv, Types
<1> QED
  BY <1>1, IncludeCorrect, EndSearchCorrect, LayoutSegmentCorrect, EndLayoutCorrect,
     PanicCorrect, EnterObjectCorrect, AddSymbolCorrect, EndSymbolsCorrect, RelocateCorrect,
     CopySegmentsCorrect, EndObjectsCorrect, PatchUndefinedCorrect, FinishCorrect,
     RelinkCorrect DEF Next, Link

LEMMA LinkInvHolds == Spec => []LinkInv
<1>1. Init => LinkInv
  BY InitCorrect
<1>2. LinkInv /\ [Next]_vars => LinkInv'
  BY LinkInvStep
<1> QED
  BY <1>1, <1>2, PTL DEF Spec

\* Every variable of the linker keeps its type, in every loop and over two
\* invocations: each symbol number and each segment that a table names exists,
\* and each global symbol is filed under its own name.
THEOREM TypeCorrect == Spec => []TypeOK
<1>1. LinkInv => TypeOK
  BY TypesAreTypeOK DEF LinkInv
<1> QED
  BY <1>1, LinkInvHolds, PTL

----------------------------------------------------------------------------
(* 3. Definitions *)

\* No step of a loop renumbers a symbol, renames it, or changes a definition:
\* references the linker has written already stay right.
THEOREM DefinitionsAreFinal == Spec => DefinitionsStick
<1> DEFINE Stick ==
      (stage \in Loops) => \A i \in DOMAIN syms :
         /\ i \in DOMAIN syms'
         /\ syms'[i].name = syms[i].name /\ syms'[i].global = syms[i].global
         /\ ~Unknown(syms[i]) => syms'[i] = syms[i]
<1>1. LinkInv /\ [Next]_vars => [Stick]_vars
  <2>1. SUFFICES ASSUME LinkInv, Next, stage \in Loops PROVE Stick
    BY DEF vars
  <2>2. CASE AddSymbol
    BY <2>1, <2>2, AddSymbolEffect
  <2>3. CASE ~AddSymbol
    <3>1. ~Relink
      BY <2>1 DEF Relink, Loops
    <3>2. UNCHANGED syms
      BY <2>1, <2>3, <3>1 DEF Next, Link, Include, EndSearch, LayoutSegment, EndLayout,
         EnterObject, EndSymbols, Relocate, CopySegments, EndObjects, PatchUndefined, Finish,
         tables
    <3> QED
      BY <3>2
  <2> QED
    BY <2>2, <2>3
<1> QED
  BY <1>1, LinkInvHolds, PTL DEF Spec, DefinitionsStick

----------------------------------------------------------------------------
(* 4. The segments.  They are laid out in the order of their types, each at
   or after the end of the one before (Placing), and hold at any time the
   bytes of the objects linked so far (Filling), whose number never exceeds
   what Lengths has counted. *)

\* The layout stays inside the address space.  A build with overflow checks
\* panics where it would not; one without wraps around and puts a segment over
\* another one.
LayoutFits ==
  stage = "layout" =>
    \A t \in DOMAIN lengths \ DOMAIN start :
      (\A u \in DOMAIN lengths \ DOMAIN start : Rank[t] <= Rank[u])
      => AlignEnd(lastEnd) + lengths[t] < W

Placing ==
  /\ lastEnd >= PageSize
  /\ \A t \in DOMAIN start :
       /\ start[t] % Alignment = 0 /\ start[t] >= PageSize
       /\ start[t] + lengths[t] <= lastEnd
       /\ \A u \in DOMAIN start : Rank[t] < Rank[u] => start[t] + lengths[t] <= start[u]
       /\ \A u \in DOMAIN lengths \ DOMAIN start : Rank[t] <= Rank[u]

\* Objects whose bytes are in the output.
Filling ==
  /\ stage \in {"search", "layout"} => k = 1 /\ \A t \in DOMAIN start : Len(out[t]) = 0
  /\ stage \in {"object", "symbols", "relocs"} =>
       k - 1 <= Len(objs) /\ \A t \in DOMAIN start : Len(out[t]) = Len(Taken(t, k - 1))
  /\ stage = "panic" => \A t \in DOMAIN start : Len(out[t]) <= lengths[t]
  /\ stage \in {"patch", "done", "failed", "noentry"} =>
       \A t \in DOMAIN start : Len(out[t]) = lengths[t]

SegmentsInv == Placing /\ Filling

LEMMA AlignEndAligns ==
  ASSUME NEW a \in Nat
  PROVE  AlignEnd(a) \in Nat /\ AlignEnd(a) >= a /\ AlignEnd(a) % Alignment = 0
<1>1. Alignment \in Nat \ {0} /\ a \in Int
  BY LinkerAssumption
<1> DEFINE r == a % Alignment  q == a \div Alignment
<1>2. r \in 0 .. Alignment - 1 /\ q \in Int /\ a = Alignment * q + r
  BY <1>1, Division
<1>3. CASE r = 0
  BY <1>3 DEF AlignEnd
<1>4. CASE r # 0
  <2>1. AlignEnd(a) = a + (Alignment - r)
    BY <1>4 DEF AlignEnd
  <2> HIDE DEF r, q
  <2>2. a + (Alignment - r) = 0 + (q + 1) * Alignment /\ q + 1 \in Int
    BY <1>1, <1>2
  <2>3. (0 + (q + 1) * Alignment) % Alignment = 0 % Alignment
    BY <1>1, <2>2, Congruence
  <2>4. 0 % Alignment = 0
    BY <1>1, Remainder
  <2>5. AlignEnd(a) % Alignment = 0
    BY <2>1, <2>2, <2>3, <2>4
  <2> QED
    BY <1>1, <1>2, <2>1, <2>5
<1> QED
  BY <1>3, <1>4

\* Objects add bytes to a segment and take none away.
LEMMA TakenGrows ==
  ASSUME Objects(objs), NEW t, NEW n \in 0 .. Len(objs)
  PROVE  Len(Taken(t, n)) <= Len(Taken(t, Len(objs)))
<1> DEFINE S == {m \in Nat : n + m <= Len(objs) => Len(Taken(t, n)) <= Len(Taken(t, n + m))}
<1>1. Len(objs) \in Nat
  BY ObjectsAreWellFormed
<1>2. 0 \in S
  BY <1>1, TakenType
<1>3. ASSUME NEW m \in Nat, m \in S PROVE m + 1 \in S
  <2>1. SUFFICES ASSUME n + m + 1 <= Len(objs) PROVE Len(Taken(t, n)) <= Len(Taken(t, n + m + 1))
    BY <1>1
  <2>2. PICK x \in 0 .. Len(objs) - 1 : x = n + m
    BY <1>1, <2>1
  <2>3. Taken(t, x + 1) = Taken(t, x) \o BytesIn(objs[x + 1], t)
    BY <2>2, TakenNext
  <2>4. BytesIn(objs[x + 1], t) \in Seq(Byte) /\ Taken(t, x) \in Seq(Byte)
    BY <1>1, <2>2, TakenType, ObjectsAreWellFormed, BytesType
  <2>5. Len(Taken(t, x)) <= Len(Taken(t, x + 1))
    BY <2>3, <2>4
  <2>6. Len(Taken(t, n)) <= Len(Taken(t, x))
    BY <1>3, <2>1, <2>2
  <2>7. /\ Len(Taken(t, n)) \in Nat /\ Len(Taken(t, x)) \in Nat /\ Len(Taken(t, x + 1)) \in Nat
    BY <1>1, <2>2, TakenType
  <2> QED
    BY <2>2, <2>5, <2>6, <2>7
<1> HIDE DEF S
<1>4. Nat \subseteq S
  BY <1>2, <1>3, SetInduction
<1>5. Len(objs) - n \in S
  BY <1>1, <1>4
<1> QED
  BY <1>1, <1>5 DEF S

LEMMA TakenNone ==
  ASSUME NEW t
  PROVE  Len(Taken(t, 0)) = 0
<1>1. [i \in 1 .. 0 |-> BytesIn(objs[i], t)] = <<>>
  OBVIOUS
<1> QED
  BY <1>1, FlattenEmpty DEF Taken

LEMMA LayoutSegmentPlaces ==
  ASSUME LinkInv, Placing, LayoutFits, LayoutSegment
  PROVE  Placing'
<1> USE DEF LinkInv, Types
<1> DEFINE a == AlignEnd(lastEnd)
<1>1. PICK t \in DOMAIN lengths \ DOMAIN start :
        /\ \A u \in DOMAIN lengths \ DOMAIN start : Rank[t] <= Rank[u]
        /\ start' = [u \in DOMAIN start \cup {t} |-> IF u = t THEN a % W ELSE start[u]]
        /\ lastEnd' = (a + lengths[t]) % W
  BY DEF LayoutSegment
<1>2. stage = "layout" /\ lengths' = lengths
  BY DEF LayoutSegment
<1>3. /\ lastEnd \in Nat /\ W \in Nat \ {0} /\ PageSize \in Nat
      /\ \A u \in DOMAIN lengths : lengths[u] \in Nat
      /\ \A u \in DOMAIN start : start[u] \in Nat /\ u \in DOMAIN lengths
  BY LinkerAssumption DEF LayoutType, Addr
<1>4. /\ a \in Nat /\ a >= lastEnd /\ a % Alignment = 0
      /\ a + lengths[t] < W /\ lengths[t] \in Nat
  BY <1>1, <1>2, <1>3, AlignEndAligns DEF LayoutFits
<1> HIDE DEF a
<1>5. a % W = a /\ (a + lengths[t]) % W = a + lengths[t]
  <2>1. PICK b \in Nat : b = a + lengths[t]
    BY <1>4
  <2>2. W \in Nat \ {0} /\ a \in 0 .. W - 1 /\ b \in 0 .. W - 1
    BY <1>3, <1>4, <2>1
  <2>3. a % W = a /\ b % W = b
    BY <2>2, Remainder
  <2> QED
    BY <2>1, <2>3
<1>6. /\ DOMAIN start' = DOMAIN start \cup {t} /\ start'[t] = a /\ lastEnd' = a + lengths[t]
      /\ \A u \in DOMAIN start : start'[u] = start[u] /\ u # t
  BY <1>1, <1>5
<1>7. lastEnd' >= PageSize
  BY <1>3, <1>4, <1>6 DEF Placing
<1>8. \A u \in DOMAIN lengths : Rank[u] \in Int
  BY DEF LayoutType, Rank, SegType
<1>9. ASSUME NEW u \in DOMAIN start
      PROVE  /\ start'[u] % Alignment = 0 /\ start'[u] >= PageSize
             /\ start'[u] + lengths'[u] <= lastEnd'
             /\ \A v \in DOMAIN start' : Rank[u] < Rank[v] => start'[u] + lengths'[u] <= start'[v]
             /\ \A v \in DOMAIN lengths' \ DOMAIN start' : Rank[u] <= Rank[v]
  <2>1. start[u] \in Nat /\ lengths[u] \in Nat /\ start[u] + lengths[u] <= lastEnd
    BY <1>3, <1>9 DEF Placing
  <2>2. start'[u] + lengths'[u] <= lastEnd' /\ start'[u] + lengths'[u] <= start'[t]
    BY <1>2, <1>3, <1>4, <1>6, <2>1
  <2> QED
    BY <1>2, <1>6, <1>9, <2>2 DEF Placing
<1>10. /\ start'[t] % Alignment = 0 /\ start'[t] >= PageSize
       /\ start'[t] + lengths'[t] <= lastEnd'
       /\ \A v \in DOMAIN lengths' \ DOMAIN start' : Rank[t] <= Rank[v]
  BY <1>1, <1>2, <1>3, <1>4, <1>6 DEF Placing
<1>11. ASSUME NEW v \in DOMAIN start' PROVE ~(Rank[t] < Rank[v])
  <2>1. CASE v = t
    BY <1>1, <1>8, <2>1
  <2>2. CASE v \in DOMAIN start
    <3>1. Rank[v] <= Rank[t] /\ Rank[v] \in Int /\ Rank[t] \in Int
      BY <1>1, <1>3, <1>8, <2>2 DEF Placing
    <3> QED
      BY <3>1
  <2> QED
    BY <1>6, <1>11, <2>1, <2>2
<1> QED
  BY <1>6, <1>7, <1>9, <1>10, <1>11 DEF Placing

LEMMA PlacingStep ==
  ASSUME LinkInv, Placing, LayoutFits, [Next]_vars
  PROVE  Placing'
<1>1. CASE LayoutSegment
  BY <1>1, LayoutSegmentPlaces
<1>2. CASE EndSearch
  <2>1. DOMAIN start = {} /\ UNCHANGED <<start, lastEnd>>
    BY <1>2 DEF EndSearch, LinkInv, Position
  <2> QED
    BY <2>1 DEF Placing
<1>3. CASE Relink
  <2>1. start' = <<>> /\ lastEnd' = PageSize /\ PageSize \in Nat
    BY <1>3, LinkerAssumption DEF Relink
  <2> QED
    BY <2>1 DEF Placing
<1>4. CASE ~LayoutSegment /\ ~EndSearch /\ ~Relink
  <2>1. UNCHANGED layout
    BY <1>4 DEF Next, Link, Include, EndLayout, EnterObject, AddSymbol, EndSymbols, Relocate,
       CopySegments, EndObjects, PatchUndefined, Finish, vars
  <2> QED
    BY <2>1 DEF Placing, layout
<1> QED
  BY <1>1, <1>2, <1>3, <1>4

\* The last object's bytes are in.
LEMMA FilledUp ==
  ASSUME LinkInv, stage = "object", Filling, k > Len(objs)
  PROVE  \A t \in DOMAIN start : Len(out[t]) = lengths[t]
<1>1. Len(objs) \in Nat /\ k - 1 = Len(objs)
  BY ObjectsAreWellFormed DEF Filling, LinkInv, Types, InvocationType, CounterType
<1>2. lengths = Lengths /\ DOMAIN start = AllSegs
  BY DEF LinkInv, Position
<1>3. \A t \in AllSegs : lengths[t] = Len(Taken(t, Len(objs)))
  BY <1>2, LengthsAre DEF LinkInv, Types, InvocationType
<1> QED
  BY <1>1, <1>2, <1>3 DEF Filling

\* Before that they are not more than there is room for.
LEMMA NotOverfilled ==
  ASSUME LinkInv, Filling, NEW t \in DOMAIN start
  PROVE  Len(out[t]) <= lengths[t]
<1> USE DEF LinkInv, Types
<1>1. lengths[t] \in Nat /\ Len(out[t]) \in Nat
  BY DEF LayoutType, BytesTypes
<1>2. CASE stage \in {"object", "symbols", "relocs"}
  <2>1. k - 1 \in 0 .. Len(objs) /\ Len(out[t]) = Len(Taken(t, k - 1))
    BY <1>2, ObjectsAreWellFormed DEF Filling, CounterType, InvocationType
  <2>2. lengths = Lengths /\ DOMAIN start = AllSegs
    BY <1>2 DEF Position
  <2>3. lengths[t] = Len(Taken(t, Len(objs)))
    BY <2>2, LengthsAre DEF InvocationType
  <2> QED
    BY <2>1, <2>3, TakenGrows DEF InvocationType
<1>3. CASE stage \notin {"object", "symbols", "relocs"}
  BY <1>1, <1>3 DEF Filling, CounterType, Loops, Final
<1> QED
  BY <1>2, <1>3

\* Objects that stay the same have the same bytes.
LEMMA TakenUnchanged ==
  ASSUME UNCHANGED <<objs, k>>
  PROVE  \A t : Taken(t, k - 1)' = Taken(t, k - 1)
BY DEF Taken

LEMMA TakenOneMore ==
  ASSUME UNCHANGED objs, k' = k + 1, k \in Nat
  PROVE  \A t : Taken(t, k - 1)' = Taken(t, k)
<1>1. k' - 1 = k
  OBVIOUS
<1> QED
  BY <1>1 DEF Taken

LEMMA CopySegmentsFills ==
  ASSUME LinkInv, Filling, CopySegments
  PROVE  Filling'
<1> USE DEF LinkInv, Types
<1>1. /\ stage = "relocs" /\ stage' = "object" /\ k' = k + 1
      /\ out' = [t \in DOMAIN out |-> IF t \in DOMAIN cur THEN out[t] \o cur[t] ELSE out[t]]
      /\ UNCHANGED objs /\ UNCHANGED start
  BY DEF CopySegments, search, layout
<1>2. /\ k \in 1 .. Len(objs) /\ Len(objs) \in Nat /\ WellFormed(objs[k])
      /\ DOMAIN cur = SegsOf(objs[k])
      /\ \A t \in DOMAIN cur : Len(cur[t]) = Len(objs[k].segs[t].bytes)
  BY <1>1, ObjectsAreWellFormed DEF Position, AtObject, InvocationType
<1>3. PICK n \in 0 .. Len(objs) - 1 : n = k - 1 /\ n + 1 = k
  BY <1>2
<1>4. ASSUME NEW t \in DOMAIN start PROVE Len(out'[t]) = Len(Taken(t, k))
  <2>1. Len(out[t]) = Len(Taken(t, n)) /\ out[t] \in Seq(Byte)
    BY <1>1, <1>3 DEF Filling, BytesTypes
  <2>2. Taken(t, n + 1) = Taken(t, n) \o BytesIn(objs[n + 1], t)
    BY <1>3, TakenNext DEF InvocationType
  <2>3. Taken(t, n) \in Seq(Byte) /\ BytesIn(objs[k], t) \in Seq(Byte)
    BY <1>2, <1>3, TakenType, BytesType DEF InvocationType
  <2>4. Len(Taken(t, k)) = Len(Taken(t, n)) + Len(BytesIn(objs[k], t))
    BY <1>3, <2>2, <2>3
  <2>5. CASE t \in DOMAIN cur
    <3>1. out'[t] = out[t] \o cur[t] /\ cur[t] \in Seq(Byte)
      BY <1>1, <2>5 DEF BytesTypes
    <3>2. Len(cur[t]) = Len(BytesIn(objs[k], t))
      BY <1>2, <2>5 DEF BytesIn
    <3>3. Len(out[t] \o cur[t]) = Len(out[t]) + Len(cur[t])
      BY <2>1, <3>1, ConcatProperties
    <3> QED
      BY <2>1, <2>4, <3>1, <3>2, <3>3
  <2>6. CASE t \notin DOMAIN cur
    <3>1. out'[t] = out[t] /\ BytesIn(objs[k], t) = <<>>
      BY <1>1, <1>2, <2>6 DEF BytesTypes, BytesIn
    <3> QED
      BY <2>1, <2>3, <2>4, <3>1
  <2> QED
    BY <2>5, <2>6
<1>5. k' - 1 = k /\ \A t : Taken(t, k - 1)' = Taken(t, k)
  BY <1>1, <1>2, TakenOneMore
<1>6. k' - 1 <= Len(objs')
  BY <1>1, <1>2
<1> QED
  BY <1>1, <1>4, <1>5, <1>6 DEF Filling

LEMMA FillingStep ==
  ASSUME LinkInv, Filling, [Next]_vars
  PROVE  Filling'
<1> USE DEF LinkInv, Types
<1>1. CASE Include \/ EndSearch
  <2>1. /\ stage = "search" /\ stage' \in {"search", "layout"} /\ UNCHANGED <<k, start, out>>
    BY <1>1 DEF Include, EndSearch, layout, bytes
  <2> QED
    BY <2>1 DEF Filling
<1>2. CASE LayoutSegment
  <2>1. /\ stage = "layout" /\ UNCHANGED <<stage, k>>
        /\ DOMAIN out' = DOMAIN start' /\ \A t \in DOMAIN out' : out'[t] = <<>>
    BY <1>2 DEF LayoutSegment
  <2> QED
    BY <2>1 DEF Filling
<1>3. CASE EndLayout
  <2>1. /\ stage = "layout" /\ stage' = "object" /\ UNCHANGED <<k, objs, start, out>>
    BY <1>3 DEF EndLayout, search, layout, bytes
  <2>2. k - 1 = 0 /\ Len(objs) >= 0
    BY <2>1, ObjectsAreWellFormed DEF Filling, InvocationType
  <2>3. \A t : Taken(t, k - 1)' = Taken(t, k - 1) /\ Len(Taken(t, k - 1)) = 0
    BY <2>1, <2>2, TakenUnchanged, TakenNone
  <2> QED
    BY <2>1, <2>2, <2>3 DEF Filling
<1>4. CASE (EnterObject /\ stage' # "panic") \/ AddSymbol \/ EndSymbols
  <2>1. /\ stage \in {"object", "symbols"} /\ stage' \in {"symbols", "relocs"}
        /\ UNCHANGED <<k, objs, start, out>>
    BY <1>4 DEF EnterObject, AddSymbol, EndSymbols, search, layout, bytes
  <2>2. \A t : Taken(t, k - 1)' = Taken(t, k - 1)
    BY <2>1, TakenUnchanged
  <2> QED
    BY <2>1, <2>2 DEF Filling
<1>5. CASE Relocate \/ (EnterObject /\ stage' = "panic")
  <2>1. /\ stage' = "panic" \/ (stage = "relocs" /\ stage' = "relocs")
        /\ stage \in {"object", "relocs"}
        /\ UNCHANGED <<k, objs, start, lengths, out>>
    BY <1>5 DEF EnterObject, Relocate, search, layout
  <2>2. \A t : Taken(t, k - 1)' = Taken(t, k - 1)
    BY <2>1, TakenUnchanged
  <2>3. \A t \in DOMAIN start : Len(out[t]) <= lengths[t]
    BY NotOverfilled
  <2> QED
    BY <2>1, <2>2, <2>3 DEF Filling
<1>6. CASE CopySegments
  BY <1>6, CopySegmentsFills
<1>7. CASE EndObjects
  <2>1. /\ stage = "object" /\ k > Len(objs) /\ stage' = "patch"
        /\ UNCHANGED <<start, lengths, out>>
    BY <1>7 DEF EndObjects, layout, bytes
  <2>2. \A t \in DOMAIN start : Len(out[t]) = lengths[t]
    BY <2>1, FilledUp
  <2> QED
    BY <2>1, <2>2 DEF Filling
<1>8. CASE PatchUndefined
  <2>1. stage = "patch" /\ UNCHANGED <<stage, start, lengths>>
    BY <1>8 DEF PatchUndefined, layout
  <2>2. \A t \in DOMAIN start : Len(out'[t]) = Len(out[t])
    BY <1>8, PatchEffect
  <2> QED
    BY <2>1, <2>2 DEF Filling
<1>9. CASE Finish
  <2>1. /\ stage = "patch" /\ stage' \in {"failed", "noentry", "done"}
        /\ UNCHANGED <<start, lengths, out>>
    BY <1>9 DEF Finish, layout, bytes
  <2> QED
    BY <2>1 DEF Filling
<1>10. CASE Relink
  <2>1. stage' = "search" /\ k' = 1 /\ start' = <<>>
    BY <1>10 DEF Relink
  <2> QED
    BY <2>1 DEF Filling
<1>11. CASE UNCHANGED vars
  <2>1. UNCHANGED <<stage, k, objs, start, lengths, out>>
    BY <1>11 DEF vars, search, layout, bytes
  <2>2. \A t : Taken(t, k - 1)' = Taken(t, k - 1)
    BY <2>1, TakenUnchanged
  <2> QED
    BY <2>1, <2>2 DEF Filling
<1> QED
  BY <1>1, <1>2, <1>3, <1>4, <1>5, <1>6, <1>7, <1>8, <1>9, <1>10, <1>11 DEF Next, Link

\* Before the layout there is nothing to order or to fill.
LEMMA SegmentsInvStarts == Init => SegmentsInv
<1> SUFFICES ASSUME Init PROVE SegmentsInv
  OBVIOUS
<1>1. start = <<>> /\ lastEnd = PageSize /\ stage = "search" /\ k = 1 /\ PageSize \in Nat
  BY LinkerAssumption DEF Init
<1> QED
  BY <1>1 DEF SegmentsInv, Placing, Filling

\* As long as the layout fits the address space, the segments of the output
\* are aligned, above the first page and disjoint, and the bytes of the objects
\* fill exactly what the layout has reserved for them.
THEOREM SegmentsAreDisjoint == Spec /\ []LayoutFits => []SegmentsDisjoint
<1>1. Init => SegmentsInv
  BY SegmentsInvStarts
<1>2. LinkInv /\ SegmentsInv /\ LayoutFits /\ [Next]_vars => SegmentsInv'
  BY PlacingStep, FillingStep DEF SegmentsInv
<1>3. LinkInv /\ SegmentsInv => SegmentsDisjoint
  BY NotOverfilled DEF SegmentsInv, Placing, Filling, SegmentsDisjoint
<1> QED
  BY <1>1, <1>2, <1>3, LinkInvHolds, PTL DEF Spec

----------------------------------------------------------------------------
(* 5. The search of the archives.  What is known of a name is what the inputs
   say of it, and for a name they do not have, whether an included object
   refers to it (KnownIs). So an object is wanted exactly if the closure needs
   it (WantedIsNeeded), and each one included is in every closed set. *)

\* What the search includes: the objects that are needed with those of S, and
\* those that refer to the inputs.
Needs(S, o) == Needed(S, o) \/ RefersToInput(o)

\* A set of archived objects to which nothing has to be added.
Closed(S) == \A o \in Archived : Needs(S, o) => o \in S

KnownIs ==
  LET given == InputGlobals(job.objs)
  IN known = [n \in Names |->
       IF given[n] = "absent" /\ \E p \in Included : Definedness(p, n) = "undefined"
       THEN "undefined" ELSE given[n]]

SearchInv ==
  /\ Len(job.objs) <= Len(objs)
  /\ Included \cup Range(lib) = Archived
  /\ KnownIs
  /\ \A S \in SUBSET Archived : Closed(S) => Included \subseteq S
  /\ stage = "layout" => SearchOver

LEMMA WantedIsNeeded ==
  ASSUME KnownIs, NEW o
  PROVE  Wanted(o) <=> Needs(Included, o)
<1> DEFINE given == InputGlobals(job.objs)
<1>1. \A n \in Names : /\ given[n] \in {"absent", "undefined", "defined"}
                       /\ Definedness(o, n) \in {"absent", "undefined", "defined"}
  BY DEF InputGlobals, Definedness
<1>2. \A n \in Names :
        known[n] = IF given[n] = "absent" /\ \E p \in Included : Definedness(p, n) = "undefined"
                   THEN "undefined" ELSE given[n]
  BY DEF KnownIs
<1>3. Wanted(o) <=> \E n \in Names : \/ Definedness(o, n) = "defined" /\ known[n] = "undefined"
                                     \/ Definedness(o, n) = "undefined" /\ known[n] = "defined"
  BY DEF Wanted
<1> HIDE DEF given
<1>4. ASSUME NEW n \in Names
      PROVE  /\ known[n] = "undefined" <=>
                  \/ given[n] = "undefined"
                  \/ given[n] = "absent" /\ \E p \in Included : Definedness(p, n) = "undefined"
             /\ known[n] = "defined" <=> given[n] = "defined"
  BY <1>1, <1>2
<1>5. Needs(Included, o) <=>
        \E n \in Names :
          \/ /\ Definedness(o, n) = "defined"
             /\ \/ given[n] = "undefined"
                \/ given[n] = "absent" /\ \E p \in Included : Definedness(p, n) = "undefined"
          \/ Definedness(o, n) = "undefined" /\ given[n] = "defined"
  BY DEF Needs, Needed, RefersToInput, given
<1> QED
  BY <1>3, <1>4, <1>5

LEMMA WithoutOne ==
  ASSUME NEW S, NEW os \in Seq(S), NEW i \in DOMAIN os
  PROVE  Range(os) = Range(Without(os, i)) \cup {os[i]}
<1> DEFINE rest == Without(os, i)
<1>1. Len(os) \in Nat /\ i \in 1 .. Len(os) /\ DOMAIN os = 1 .. Len(os)
  OBVIOUS
<1> DEFINE front == SubSeq(os, 1, i - 1)  back == SubSeq(os, i + 1, Len(os))
<1>a. /\ front \in Seq(S) /\ Len(front) = i - 1
      /\ \A x \in 1 .. i - 1 : front[x] = os[x]
  BY <1>1
<1>b. /\ back \in Seq(S) /\ Len(back) = Len(os) - i
      /\ \A x \in 1 .. Len(os) - i : back[x] = os[i + x]
  BY <1>1
<1> HIDE DEF front, back
<1>2. /\ rest \in Seq(S) /\ Len(rest) = Len(os) - 1
      /\ \A x \in 1 .. Len(os) - 1 : rest[x] = IF x < i THEN os[x] ELSE os[x + 1]
  <2>1. rest = front \o back
    BY DEF Without, front, back
  <2>2. rest \in Seq(S) /\ Len(rest) = Len(os) - 1
    <3>1. front \o back \in Seq(S) /\ Len(front \o back) = Len(front) + Len(back)
      BY <1>a, <1>b, ConcatProperties
    <3> QED
      BY <1>1, <1>a, <1>b, <2>1, <3>1
  <2>3. ASSUME NEW x \in 1 .. Len(os) - 1, x < i PROVE rest[x] = os[x]
    BY <1>1, <1>a, <1>b, <2>1, <2>3
  <2>4. ASSUME NEW x \in 1 .. Len(os) - 1, ~(x < i) PROVE rest[x] = os[x + 1]
    <3> DEFINE y == x - Len(front)
    <3>1. y \in 1 .. Len(os) - i /\ x + 1 = i + y /\ x > Len(front)
      BY <1>1, <1>a, <2>4
    <3>2. x \in 1 .. Len(front) + Len(back)
      BY <1>1, <1>a, <1>b
    <3>3. \A z \in 1 .. Len(front) + Len(back) :
            (front \o back)[z] = IF z <= Len(front) THEN front[z] ELSE back[z - Len(front)]
      BY <1>a, <1>b, ConcatProperties
    <3>4. rest[x] = back[y]
      <4>1. ~(x <= Len(front))
        BY <1>1, <1>a, <2>4
      <4> QED
        BY <2>1, <3>2, <3>3, <4>1
    <3> HIDE DEF y
    <3> QED
      BY <1>b, <3>1, <3>4
  <2> QED
    BY <2>2, <2>3, <2>4
<1> HIDE DEF rest
<1>3. Range(rest) \subseteq Range(os)
  BY <1>1, <1>2 DEF Range
<1>4. ASSUME NEW x \in DOMAIN os, x # i PROVE os[x] \in Range(rest)
  <2>1. CASE x < i
    BY <1>1, <1>2, <2>1 DEF Range
  <2>2. CASE x > i
    <3> DEFINE y == x - 1
    <3>1. y \in 1 .. Len(os) - 1 /\ x = y + 1 /\ ~(y < i)
      BY <1>1, <1>4, <2>2
    <3> HIDE DEF y
    <3>2. rest[y] = os[x] /\ y \in DOMAIN rest
      BY <1>2, <3>1
    <3> QED
      BY <3>2 DEF Range
  <2> QED
    BY <1>1, <1>4, <2>1, <2>2
<1>5. Range(os) \subseteq Range(rest) \cup {os[i]} /\ os[i] \in Range(os)
  BY <1>4 DEF Range
<1> QED
  BY <1>3, <1>5 DEF rest

LEMMA IncludeSearches ==
  ASSUME LinkInv, SearchInv, Include
  PROVE  SearchInv'
<1> USE DEF LinkInv, Types
<1>1. PICK i \in DOMAIN lib : /\ Wanted(lib[i])
                              /\ objs' = Append(objs, lib[i])
                              /\ lib' = Without(lib, i)
                              /\ known' = ExtendUndefineds(lib[i])
  BY DEF Include
<1>2. stage' = "search" /\ job' = job
  BY DEF Include, invocation
<1> DEFINE o == lib[i]
<1>3. /\ Len(objs) \in Nat /\ Len(job.objs) \in Nat /\ Len(job.objs) <= Len(objs)
      /\ objs \in Seq(Range(objs)) /\ lib \in Seq(Range(lib))
  BY DEF InvocationType, Objects, Job, SearchInv
<1>4. Len(objs') = Len(objs) + 1 /\ objs'[Len(objs) + 1] = o
      /\ \A x \in 1 .. Len(objs) : objs'[x] = objs[x]
  BY <1>1, <1>3
<1> HIDE DEF o
<1>5. Included' = Included \cup {o}
  <2>1. \A x \in Len(job.objs) + 1 .. Len(objs) : objs'[x] = objs[x]
    BY <1>3, <1>4
  <2>2. \A x : x \in Len(job.objs) + 1 .. Len(objs) + 1 <=>
               x \in Len(job.objs) + 1 .. Len(objs) \/ x = Len(objs) + 1
    BY <1>3
  <2> QED
    BY <1>2, <1>4, <2>1, <2>2 DEF Included
<1>6. Archived' = Archived /\ \A S : Closed(S)' = Closed(S)
  BY <1>2 DEF Archived, Closed, Needs, Needed, RefersToInput
<1>7. Included' \cup Range(lib)' = Archived' /\ o \in Archived
  <2>1. Range(lib) = Range(lib') \cup {o}
    BY <1>1, <1>3, WithoutOne DEF o
  <2> QED
    BY <1>5, <1>6, <2>1 DEF SearchInv
<1>8. KnownIs'
  <2> DEFINE given == InputGlobals(job.objs)
  <2>1. \A n \in Names :
          known'[n] = IF known[n] = "absent" /\ Definedness(o, n) = "undefined"
                      THEN "undefined" ELSE known[n]
    BY <1>1 DEF ExtendUndefineds, o
  <2>2. \A n \in Names :
          known[n] = IF given[n] = "absent" /\ \E p \in Included : Definedness(p, n) = "undefined"
                     THEN "undefined" ELSE given[n]
    BY DEF SearchInv, KnownIs
  <2>3. \A n \in Names :
          (\E p \in Included' : Definedness(p, n) = "undefined") <=>
             \/ \E p \in Included : Definedness(p, n) = "undefined"
             \/ Definedness(o, n) = "undefined"
    BY <1>5
  <2>4. known' \in [Names -> {"absent", "undefined", "defined"}]
    BY <1>1, KnownTypes DEF KnownType
  <2>5. given' = given
    BY <1>2
  <2> HIDE DEF given
  <2>6. \A n \in Names :
          known'[n] = IF given[n] = "absent" /\ \E p \in Included' : Definedness(p, n) = "undefined"
                      THEN "undefined" ELSE given[n]
    BY <2>1, <2>2, <2>3
  <2>7. known' = [n \in Names |->
          IF given[n] = "absent" /\ \E p \in Included' : Definedness(p, n) = "undefined"
          THEN "undefined" ELSE given[n]]
    BY <2>4, <2>6
  <2> QED
    BY <2>5, <2>7 DEF KnownIs, given
<1>9. ASSUME NEW S \in SUBSET Archived, Closed(S) PROVE Included' \subseteq S
  <2>1. Included \subseteq S
    BY <1>9 DEF SearchInv
  <2>2. Needs(Included, o)
    BY <1>1, WantedIsNeeded DEF SearchInv, o
  <2>3. Needs(S, o)
    BY <2>1, <2>2 DEF Needs, Needed
  <2>4. o \in S
    BY <1>7, <1>9, <2>3 DEF Closed
  <2> QED
    BY <1>5, <2>1, <2>4
<1>10. Len(job'.objs) <= Len(objs')
  BY <1>2, <1>3, <1>4
<1>11. \A S \in SUBSET Archived' : Closed(S)' => Included' \subseteq S
  BY <1>6, <1>9
<1> QED
  BY <1>2, <1>7, <1>8, <1>10, <1>11 DEF SearchInv

SearchStart ==
  /\ objs = job.objs /\ lib = job.lib /\ known = InputGlobals(job.objs)
  /\ stage = "search" /\ Job(job)

LEMMA SearchStarts == SearchStart => SearchInv
<1> SUFFICES ASSUME SearchStart PROVE SearchInv
  OBVIOUS
<1> USE DEF SearchStart
<1>1. Len(objs) \in Nat /\ Included = {}
  <2>1. Len(objs) \in Nat
    BY DEF Job, Objects
  <2> QED
    BY <2>1 DEF Included
<1>2. KnownIs
  <2>1. InputGlobals(job.objs) = [n \in Names |-> InputGlobals(job.objs)[n]]
    BY DEF InputGlobals
  <2> QED
    BY <1>1, <2>1 DEF KnownIs
<1>3. Range(lib) = Archived
  BY DEF Range, Archived
<1> QED
  BY <1>1, <1>2, <1>3 DEF SearchInv

LEMMA SearchStartsAgain == SearchStart' => SearchInv'
BY SearchStarts, PTL

LEMMA SearchInvStep ==
  ASSUME LinkInv, LinkInv', SearchInv, [Next]_vars
  PROVE  SearchInv'
<1>1. CASE Include
  BY <1>1, IncludeSearches
<1>2. CASE EndSearch
  <2>1. SearchOver /\ UNCHANGED <<job, objs, lib, known>>
    BY <1>2 DEF EndSearch, search
  <2>2. SearchOver' /\ Included' = Included /\ Archived' = Archived /\ KnownIs'
    <3>1. SearchOver'
      BY <2>1 DEF SearchOver, Wanted
    <3>2. Included' = Included /\ Archived' = Archived
      BY <2>1 DEF Included, Archived
    <3>3. KnownIs'
      <4>1. KnownIs /\ known' = known /\ job' = job
        BY <2>1 DEF SearchInv
      <4> QED
        BY <3>2, <4>1 DEF KnownIs
    <3> QED
      BY <3>1, <3>2, <3>3
  <2> QED
    BY <2>1, <2>2 DEF SearchInv, Closed, Needs, Needed, RefersToInput
<1>3. CASE Relink
  <2>1. PICK b \in Relinks : /\ job' = [b EXCEPT !.objs = <<Output>> \o @]
                             /\ objs' = job'.objs /\ lib' = b.lib
                             /\ known' = InputGlobals(job'.objs)
    BY <1>3 DEF Relink
  <2>2. stage' = "search" /\ lib' = job'.lib /\ Job(job')
    <3>1. b = [objs |-> b.objs, lib |-> b.lib, exe |-> b.exe, setEntry |-> b.setEntry]
      BY JobsAssumption DEF Job
    <3>2. Job(job)'
      BY DEF LinkInv, Types, InvocationType
    <3> QED
      BY <1>3, <2>1, <3>1, <3>2 DEF Relink
  <2>3. SearchStart'
    BY <2>1, <2>2 DEF SearchStart
  <2> QED
    BY <2>3, SearchStartsAgain
<1>4. CASE ~Include /\ ~EndSearch /\ ~Relink
  <2>1. UNCHANGED <<job, objs, lib, known>> /\ (stage' = "layout" => stage = "layout")
    <3>1. CASE UNCHANGED vars
      BY <3>1 DEF vars, invocation, search
    <3>2. CASE LayoutSegment \/ EndLayout \/ EnterObject \/ AddSymbol \/ EndSymbols
      BY <3>2 DEF LayoutSegment, EndLayout, EnterObject, AddSymbol, EndSymbols, invocation, search
    <3>3. CASE Relocate \/ CopySegments \/ EndObjects \/ PatchUndefined \/ Finish
      BY <3>3 DEF Relocate, CopySegments, EndObjects, PatchUndefined, Finish, invocation, search
    <3> QED
      BY <1>4, <3>1, <3>2, <3>3 DEF Next, Link
  <2>2. SearchOver' = SearchOver /\ Included' = Included /\ Archived' = Archived /\ KnownIs'
    BY <2>1 DEF SearchOver, Wanted, Included, Archived, KnownIs, SearchInv
  <2> QED
    BY <2>1, <2>2 DEF SearchInv, Closed, Needs, Needed, RefersToInput
<1> QED
  BY <1>1, <1>2, <1>3, <1>4

\* Whatever the archives hold, and in whatever order, the search includes every
\* archived object that defines what the inputs or an included object refer to,
\* and besides these only objects that refer to the inputs.
THEOREM SearchFindsClosure == Spec => []SearchIsClosure
<1>1. Init => SearchInv
  BY InitCorrect, SearchStarts DEF SearchStart, Init, LinkInv, Types, InvocationType
<1>2. LinkInv /\ LinkInv' /\ SearchInv /\ [Next]_vars => SearchInv'
  BY SearchInvStep
<1>3. SearchInv => SearchIsClosure
  <2>1. SUFFICES ASSUME SearchInv, stage = "layout"
                 PROVE  \A o \in Archived : Needed(Included, o) => o \in Included
    BY DEF SearchInv, SearchIsClosure, Closed, Needs
  <2>2. SUFFICES ASSUME NEW o \in Archived, Needs(Included, o) PROVE o \in Included
    BY DEF Needs
  <2>3. Wanted(o)
    BY <2>1, <2>2, WantedIsNeeded DEF SearchInv
  <2>4. o \notin Range(lib)
    BY <2>1, <2>3 DEF SearchInv, SearchOver, Range
  <2> QED
    BY <2>1, <2>2, <2>4 DEF SearchInv
<1> QED
  BY <1>1, <1>2, <1>3, LinkInvHolds, PTL DEF Spec

----------------------------------------------------------------------------
(* 6. What the output is, as a relation between its parts (the starts st of
   the segments, their bytes bs, the symbols ys, the relocations rs) and the
   objects os it is made from.  The relation does not mention the state, so
   that it can be used of the output as it grows, of the one that is written,
   and of that one as an input. *)

\* The place of s, a symbol of object i, if the segments start at st.
Put(st, os, i, s) == (st[s.seg] + Before(os, i, s.seg) + (s.loc - StartOf(os[i], s.seg))) % W

\* Objects that mean something.
Good(os) == Objects(os) /\ \A i \in DOMAIN os : Sound(os[i])

\* Symbol d with its place in the output.
There(st, os, d) == [Sym(os, d) EXCEPT !.loc = Put(st, os, d[1], Sym(os, d))]

\* Number a in the table ys of the output is that of symbol d.
IsSym(st, os, ys, d, a) ==
  /\ a \in DOMAIN ys
  /\ IF Sym(os, d).global THEN ys[a].global /\ ys[a].name = Sym(os, d).name
     ELSE ys[a] = There(st, os, d)

\* Symbol d defines the name n.
Defines(os, d, n) == Sym(os, d).global /\ Sym(os, d).name = n /\ ~Unknown(Sym(os, d))

\* The table ys of the output is what the symbols D of the objects come to.
SymsJoined(st, os, ys, D) ==
  /\ \A a \in DOMAIN ys : ~ys[a].global => \E d \in D : ~Sym(os, d).global /\ IsSym(st, os, ys, d, a)
  /\ \A a, b \in DOMAIN ys : ys[a].global /\ ys[b].global /\ ys[a].name = ys[b].name => a = b
  /\ \A a \in DOMAIN ys : ys[a].global => \E d \in D : Sym(os, d).global /\ Sym(os, d).name = ys[a].name
  /\ \A a \in DOMAIN ys : ys[a].global /\ Unknown(ys[a]) =>
       ys[a].loc = Nowhere /\ \A d \in D : ~Defines(os, d, ys[a].name)
  /\ \A a \in DOMAIN ys : ys[a].global /\ ~Unknown(ys[a]) =>
       \E d \in D : /\ Defines(os, d, ys[a].name)
                    /\ ys[a].seg = Sym(os, d).seg /\ ys[a].loc = Put(st, os, d[1], Sym(os, d))
  /\ \A d \in D : \E a \in DOMAIN ys : IsSym(st, os, ys, d, a)

\* The symbol that relocation d refers to.
RefSym(os, d) == <<d[1], Ref(os, d).sym>>

\* Relocation e of the output is what relocation d has become.
IsRef(st, os, ys, d, e) ==
  /\ e.seg = Ref(os, d).seg
  /\ e.loc = st[e.seg] + Before(os, d[1], e.seg) + RefAt(os, d)
  /\ IsSym(st, os, ys, RefSym(os, d), e.sym)

\* The word of relocation d lies in its segment.
Fits(os, d) ==
  RefAt(os, d) >= 0 /\ RefAt(os, d) + 2 <= Len(BytesIn(os[d[1]], Ref(os, d).seg))

\* The relocations rs of the output are those that R have become.
RefsJoined(st, os, ys, rs, R) ==
  /\ \A d \in R : Fits(os, d) /\ \E e \in Range(rs) : IsRef(st, os, ys, d, e)
  /\ \A e \in Range(rs) : \E d \in R : IsRef(st, os, ys, d, e)
  /\ \A m, n \in DOMAIN rs : m # n /\ rs[m].seg = rs[n].seg => rs[m].loc - rs[n].loc \notin -1 .. 1

\* Those that are to be patched when all objects are known.
Waits(ys, rs, us) ==
  /\ Range(us) \subseteq Range(rs)
  /\ \A e \in Range(rs) : Unknown(ys[e.sym]) => e \in Range(us)

\* Byte b is what byte x of segment t of object i has become, or will when the
\* references U are patched.
ByteJoined(st, os, ys, rs, R, U, i, t, x, b) ==
  /\ (\A d \in R : ~Over(os, d, i, t, x)) => b = BytesIn(os[i], t)[x]
  /\ \A d \in R : Over(os, d, i, t, x) =>
       \E e \in Range(rs) :
         /\ IsRef(st, os, ys, d, e)
         /\ \/ b = Half(ys[e.sym].loc, x - RefAt(os, d) - 1)
            \/ e \in U /\ ~Unknown(ys[e.sym])

\* What bs holds of the bytes of object i.
BytesJoined(st, os, ys, rs, R, U, i, bs) ==
  \A t \in SegsOf(os[i]) : \A x \in DOMAIN BytesIn(os[i], t) :
    ByteJoined(st, os, ys, rs, R, U, i, t, x, bs[t][Before(os, i, t) + x])

\* The entry point of the first n objects: that of the first one that has one,
\* and it is not a stray one.
EntryJoined(st, os, en, n) ==
  \/ en = NoEntry /\ \A i \in 1 .. n : os[i].entry = NoEntry
  \/ \E i \in 1 .. n :
       /\ os[i].entry # NoEntry /\ os[i].entry[1] \in SegsOf(os[i])
       /\ \A h \in 1 .. i - 1 : os[h].entry = NoEntry
       /\ en = <<os[i].entry[1],
                 Put(st, os, i, [seg |-> os[i].entry[1], loc |-> os[i].entry[2]])>>

\* The output is the program that os make up.
Joined(st, bs, ys, rs, os) ==
  /\ DOMAIN st = UNION {SegsOf(os[i]) : i \in DOMAIN os}
  /\ \A t \in DOMAIN st : Len(bs[t]) = Before(os, Len(os) + 1, t)
  /\ SymsJoined(st, os, ys, SymsOf(os))
  /\ RefsJoined(st, os, ys, rs, RefsOf(os))
  /\ \A i \in DOMAIN os : BytesJoined(st, os, ys, rs, RefsOf(os), {}, i, bs)

\* An object as the parts of an output, and an object that is linked from os.
StartsOf(o)   == [t \in SegsOf(o) |-> o.segs[t].start]
ContentsOf(o) == [t \in SegsOf(o) |-> o.segs[t].bytes]
IsJoin(o, os) ==
  /\ Joined(StartsOf(o), ContentsOf(o), o.syms, o.relocs, os)
  /\ EntryJoined(StartsOf(o), os, o.entry, Len(os))

\* Two of the symbols D define the same name.
Twice(os, D) == \E n \in Names : \E d, e \in D : d # e /\ Defines(os, d, n) /\ Defines(os, e, n)

----------------------------------------------------------------------------
(* 7. Where the bytes of the objects come to lie *)

\* Where the bytes of the objects are.
LEMMA GoodObjects ==
  ASSUME NEW os, Objects(os)
  PROVE  /\ Len(os) \in Nat /\ DOMAIN os = 1 .. Len(os)
         /\ \A i \in 1 .. Len(os) : WellFormed(os[i])
         /\ \A i \in 1 .. Len(os) : \A t : /\ BytesIn(os[i], t) \in Seq(Byte)
                                           /\ Len(BytesIn(os[i], t)) \in Nat
                                           /\ StartOf(os[i], t) \in Addr
<1>1. /\ Len(os) \in Nat /\ DOMAIN os = 1 .. Len(os)
      /\ \A i \in 1 .. Len(os) : WellFormed(os[i])
  BY DEF Objects, Range
<1>2. ASSUME NEW i \in 1 .. Len(os), NEW t
      PROVE  BytesIn(os[i], t) \in Seq(Byte) /\ StartOf(os[i], t) \in Addr
  BY <1>1, BytesType, StartType
<1> QED
  BY <1>1, <1>2

\* Before the first object there are no bytes, and each one adds its own.
LEMMA BeforeFirst ==
  ASSUME NEW os, NEW t
  PROVE  Before(os, 1, t) = 0
<1>1. [h \in 1 .. 1 - 1 |-> BytesIn(os[h], t)] = <<>>
  OBVIOUS
<1> QED
  BY <1>1, FlattenEmpty DEF Before

\* The number of bytes before an object is a number,
LEMMA BeforeType ==
  ASSUME NEW os, Objects(os), NEW t, NEW i \in 1 .. Len(os) + 1
  PROVE  Before(os, i, t) \in Nat
<1> DEFINE ss == [h \in 1 .. i - 1 |-> BytesIn(os[h], t)]
<1>1. ss \in Seq(Seq(Byte))
  <2>1. PICK n \in Nat : n = i - 1 /\ n <= Len(os)
    BY GoodObjects
  <2>2. \A h \in 1 .. n : BytesIn(os[h], t) \in Seq(Byte)
    BY <2>1, GoodObjects
  <2> QED
    BY <2>1, <2>2
<1> HIDE DEF ss
<1>2. FlattenSeq(ss) \in Seq(Byte)
  BY <1>1, FlattenType
<1> QED
  BY <1>2 DEF Before, ss

\* and the next one has those of this object before it as well.
LEMMA BeforeNext ==
  ASSUME NEW os, Objects(os), NEW t, NEW i \in 1 .. Len(os)
  PROVE  Before(os, i + 1, t) = Before(os, i, t) + Len(BytesIn(os[i], t))
<1> DEFINE ss == [h \in 1 .. i - 1 |-> BytesIn(os[h], t)]
           rr == [h \in 1 .. i + 1 - 1 |-> BytesIn(os[h], t)]
           s  == BytesIn(os[i], t)
<1>1. PICK n \in Nat : n = i - 1 /\ n + 1 = i /\ i + 1 - 1 = n + 1 /\ n + 1 <= Len(os)
  BY GoodObjects
<1>2. \A h \in 1 .. n + 1 : BytesIn(os[h], t) \in Seq(Byte)
  BY <1>1, GoodObjects
<1>3. ss \in Seq(Seq(Byte)) /\ s \in Seq(Byte)
  BY <1>1, <1>2
<1>4. rr = Append(ss, s)
  BY <1>1, <1>2, <1>3
<1> HIDE DEF ss, rr, s
<1>5. FlattenSeq(rr) = FlattenSeq(ss) \o s /\ FlattenSeq(ss) \in Seq(Byte)
  BY <1>3, <1>4, FlattenAppend, FlattenType
<1>6. Len(FlattenSeq(ss) \o s) = Len(FlattenSeq(ss)) + Len(s)
  BY <1>3, <1>5, ConcatProperties
<1> QED
  BY <1>5, <1>6 DEF Before, ss, rr, s

\* The bytes of an object end where, or before, those of a later one begin.
LEMMA BeforeGrows ==
  ASSUME NEW os, Objects(os), NEW t, NEW i \in 1 .. Len(os), NEW h \in i + 1 .. Len(os) + 1
  PROVE  Before(os, i, t) + Len(BytesIn(os[i], t)) <= Before(os, h, t)
<1> DEFINE S == {m \in Nat : i + 1 + m <= Len(os) + 1 =>
                   Before(os, i, t) + Len(BytesIn(os[i], t)) <= Before(os, i + 1 + m, t)}
<1>1. /\ Len(os) \in Nat /\ Before(os, i, t) \in Nat /\ Len(BytesIn(os[i], t)) \in Nat
  BY GoodObjects, BeforeType
<1>2. 0 \in S
  <2>1. i + 1 + 0 = i + 1
    OBVIOUS
  <2> QED
    BY <1>1, <2>1, BeforeNext
<1>3. ASSUME NEW m \in Nat, m \in S PROVE m + 1 \in S
  <2>1. SUFFICES ASSUME i + 1 + (m + 1) <= Len(os) + 1
                 PROVE  Before(os, i, t) + Len(BytesIn(os[i], t)) <= Before(os, i + 1 + (m + 1), t)
    OBVIOUS
  <2>2. PICK x \in 1 .. Len(os) : x = i + 1 + m /\ x + 1 = i + 1 + (m + 1)
    BY <1>1, <2>1
  <2>3. Before(os, x + 1, t) = Before(os, x, t) + Len(BytesIn(os[x], t))
    BY BeforeNext
  <2>4. Before(os, x, t) \in Nat /\ Len(BytesIn(os[x], t)) \in Nat
    BY GoodObjects, BeforeType
  <2>5. Before(os, i, t) + Len(BytesIn(os[i], t)) <= Before(os, x, t)
    BY <1>1, <1>3, <2>1, <2>2
  <2> QED
    BY <1>1, <2>2, <2>3, <2>4, <2>5
<1> HIDE DEF S
<1>4. h - (i + 1) \in S
  BY <1>1, <1>2, <1>3, SetInduction
<1>5. i + 1 + (h - (i + 1)) = h
  BY <1>1
<1> QED
  BY <1>1, <1>4, <1>5 DEF S

\* A place in the output belongs to one byte of one object.
LEMMA PlaceIsUnique ==
  ASSUME NEW os, Objects(os), NEW t, NEW i \in 1 .. Len(os), NEW h \in 1 .. Len(os),
         NEW x \in 1 .. Len(BytesIn(os[i], t)), NEW y \in 1 .. Len(BytesIn(os[h], t)),
         Before(os, i, t) + x = Before(os, h, t) + y
  PROVE  i = h /\ x = y
<1>1. /\ Len(os) \in Nat /\ Before(os, i, t) \in Nat /\ Before(os, h, t) \in Nat
      /\ Len(BytesIn(os[i], t)) \in Nat /\ Len(BytesIn(os[h], t)) \in Nat
  BY GoodObjects, BeforeType
<1>2. ~(i < h)
  <2>1. SUFFICES ASSUME i < h PROVE FALSE
    OBVIOUS
  <2>2. h \in i + 1 .. Len(os) + 1
    BY <1>1, <2>1
  <2>3. Before(os, i, t) + Len(BytesIn(os[i], t)) <= Before(os, h, t)
    BY <2>2, BeforeGrows
  <2> QED
    BY <1>1, <2>3
<1>3. ~(h < i)
  <2>1. SUFFICES ASSUME h < i PROVE FALSE
    OBVIOUS
  <2>2. i \in h + 1 .. Len(os) + 1
    BY <1>1, <2>1
  <2>3. Before(os, h, t) + Len(BytesIn(os[h], t)) <= Before(os, i, t)
    BY <2>2, BeforeGrows
  <2> QED
    BY <1>1, <2>3
<1>4. i = h
  BY <1>1, <1>2, <1>3
<1> QED
  BY <1>1, <1>4

\* Objects that begin alike have their bytes at the same places.
LEMMA BeforeAlike ==
  ASSUME NEW os, NEW ps, NEW i \in Nat \ {0}, NEW t, \A h \in 1 .. i - 1 : os[h] = ps[h]
  PROVE  Before(os, i, t) = Before(ps, i, t)
<1>1. [h \in 1 .. i - 1 |-> BytesIn(os[h], t)] = [h \in 1 .. i - 1 |-> BytesIn(ps[h], t)]
  OBVIOUS
<1> QED
  BY <1>1 DEF Before

\* It is what the loop has counted.
LEMMA TakenIsBefore ==
  ASSUME NEW i \in Nat, NEW t
  PROVE  Len(Taken(t, i)) = Before(objs, i + 1, t)
<1>1. i + 1 - 1 = i
  OBVIOUS
<1> QED
  BY <1>1 DEF Taken, Before

----------------------------------------------------------------------------
(* 8. The symbol table *)

\* Symbols.
LEMMA SymType ==
  ASSUME NEW os, Good(os), NEW d \in SymsOf(os)
  PROVE  /\ d = <<d[1], d[2]>> /\ d[1] \in 1 .. Len(os) /\ d[2] \in DOMAIN os[d[1]].syms
         /\ d[2] \in Nat \ {0}
         /\ Sym(os, d) \in Symbol
         /\ Unknown(Sym(os, d)) => Sym(os, d).global /\ Sym(os, d).loc = Nowhere
         /\ ~Unknown(Sym(os, d)) => Sym(os, d).seg \in SegsOf(os[d[1]]) /\ Sym(os, d).seg \in SegType
<1>1. PICK i \in DOMAIN os : \E m \in DOMAIN os[i].syms : d = <<i, m>>
  BY DEF SymsOf
<1>2. PICK m \in DOMAIN os[i].syms : d = <<i, m>>
  BY <1>1
<1>3. d[1] = i /\ d[2] = m
  BY <1>2
<1>4. i \in 1 .. Len(os) /\ WellFormed(os[i]) /\ Sound(os[i])
  BY GoodObjects DEF Good
<1>5. os[i].syms \in Seq(Symbol) /\ SegsOf(os[i]) \subseteq SegType
  BY <1>4 DEF WellFormed
<1>6. m \in Nat \ {0} /\ os[i].syms[m] \in Symbol /\ os[i].syms[m] \in Range(os[i].syms)
  BY <1>2, <1>5 DEF Range
<1>7. IF os[i].syms[m].seg = "unknown" THEN os[i].syms[m].global /\ os[i].syms[m].loc = Nowhere
                                       ELSE os[i].syms[m].seg \in SegsOf(os[i])
  BY <1>4, <1>6 DEF Sound
<1> QED
  BY <1>2, <1>3, <1>4, <1>5, <1>6, <1>7 DEF Sym, Unknown

\* What the linker makes of symbol d.
Joins(st, os, d) ==
  [Sym(os, d) EXCEPT !.loc = IF Unknown(Sym(os, d)) THEN Nowhere ELSE Put(st, os, d[1], Sym(os, d))]

\* It has its name and scope, and a reference stays one.
LEMMA JoinsIs ==
  ASSUME NEW st, NEW os, Good(os), NEW d \in SymsOf(os), NEW s, s = Joins(st, os, d)
  PROVE  /\ s.name = Sym(os, d).name /\ s.global = Sym(os, d).global /\ s.seg = Sym(os, d).seg
         /\ Unknown(s) = Unknown(Sym(os, d))
         /\ Unknown(s) => s.global /\ s.loc = Nowhere
         /\ ~Unknown(s) => /\ s = There(st, os, d)
                           /\ s.loc = Put(st, os, d[1], Sym(os, d))
<1>1. /\ Sym(os, d) \in Symbol
      /\ Unknown(Sym(os, d)) => Sym(os, d).global
  BY SymType
<1>2. PICK c \in Symbol : c = Sym(os, d)
  BY <1>1
<1>3. PICK p : p = Put(st, os, d[1], Sym(os, d))
  OBVIOUS
<1>4. s = [c EXCEPT !.loc = IF Unknown(c) THEN Nowhere ELSE p]
  BY <1>2, <1>3 DEF Joins
<1>5. s.name = c.name /\ s.global = c.global /\ s.seg = c.seg /\ s.loc = IF Unknown(c) THEN Nowhere ELSE p
  BY <1>4 DEF Symbol
<1>6. Unknown(s) = Unknown(c)
  BY <1>5 DEF Unknown
<1>7. ~Unknown(s) => s = [c EXCEPT !.loc = p]
  BY <1>4, <1>6
<1> QED
  BY <1>1, <1>2, <1>3, <1>5, <1>6, <1>7 DEF There

\* The entries of the table change only from a reference to its definition.
Kept(ys, zs) ==
  \A a \in DOMAIN ys : /\ a \in DOMAIN zs
                       /\ \/ zs[a] = ys[a]
                          \/ /\ Unknown(ys[a]) /\ ~Unknown(zs[a])
                             /\ ys[a].global = TRUE /\ zs[a].global = TRUE
                             /\ zs[a].name = ys[a].name

\* Then a number stays that of its symbol.
LEMMA IsSymKept ==
  ASSUME NEW st, NEW os, NEW ys, NEW zs, Kept(ys, zs), NEW d, NEW a, IsSym(st, os, ys, d, a),
         Good(os), d \in SymsOf(os), ys \in Seq(Symbol)
  PROVE  IsSym(st, os, zs, d, a)
<1>1. a \in DOMAIN ys /\ a \in DOMAIN zs /\ zs[a].global = ys[a].global /\ zs[a].name = ys[a].name
  BY DEF IsSym, Kept
<1>2. CASE Sym(os, d).global
  BY <1>1, <1>2 DEF IsSym
<1>3. CASE ~Sym(os, d).global
  <2>1. ys[a] = There(st, os, d) /\ Sym(os, d) \in Symbol
    BY <1>3, SymType DEF IsSym
  <2>2. ~ys[a].global
    BY <1>3, <2>1 DEF Symbol, There
  <2>3. zs[a] = ys[a]
    BY <1>1, <2>2 DEF Kept
  <2> QED
    BY <1>1, <1>3, <2>1, <2>3 DEF IsSym
<1> QED
  BY <1>2, <1>3

\* The symbol has the number id in the new table zs.
Filed(ys, zs, s, id) ==
  /\ DOMAIN zs = DOMAIN ys \cup {id} /\ \A a \in DOMAIN ys \ {id} : zs[a] = ys[a]
  /\ \/ /\ id \notin DOMAIN ys /\ zs[id] = s
        /\ s.global => \A a \in DOMAIN ys : ~(ys[a].global /\ ys[a].name = s.name)
     \/ /\ id \in DOMAIN ys /\ zs[id] = Merged(s, ys[id])
        /\ s.global /\ ys[id].global /\ ys[id].name = s.name

\* That is such a change.
LEMMA FiledKeeps ==
  ASSUME NEW ys \in Seq(Symbol), NEW zs, NEW s \in Symbol, NEW id, Filed(ys, zs, s, id)
  PROVE  /\ Kept(ys, zs) /\ id \in DOMAIN zs
         /\ zs[id].global = s.global /\ zs[id].name = s.name
         /\ Unknown(zs[id]) => Unknown(s)
<1>1. CASE id \notin DOMAIN ys
  BY <1>1 DEF Filed, Kept
<1>2. CASE id \in DOMAIN ys
  <2>1. /\ zs[id] = Merged(s, ys[id]) /\ DOMAIN zs = DOMAIN ys
        /\ s.global /\ ys[id].global /\ ys[id].name = s.name
    BY <1>2 DEF Filed
  <2>2. PICK y \in Symbol : y = ys[id]
    BY <1>2
  <2>3. zs[id] = IF ~Unknown(s) /\ Unknown(y) THEN s ELSE y
    BY <2>1, <2>2 DEF Merged
  <2>4. s.global = TRUE /\ y.global = TRUE
    BY <2>1, <2>2 DEF Symbol
  <2>5. zs[id].global = TRUE /\ zs[id].name = s.name /\ (~Unknown(y) => zs[id] = y)
    BY <2>1, <2>2, <2>3, <2>4
  <2>6. Unknown(zs[id]) => Unknown(s)
    BY <2>3
  <2>7. ASSUME NEW a \in DOMAIN ys
        PROVE  /\ a \in DOMAIN zs
               /\ \/ zs[a] = ys[a]
                  \/ /\ Unknown(ys[a]) /\ ~Unknown(zs[a])
                     /\ ys[a].global = TRUE /\ zs[a].global = TRUE
                     /\ zs[a].name = ys[a].name
    <3>1. CASE a = id
      BY <2>1, <2>2, <2>3, <2>4, <2>5, <3>1
    <3>2. CASE a # id
      BY <2>1, <3>2 DEF Filed
    <3> QED
      BY <3>1, <3>2
  <2>8. Kept(ys, zs)
    BY <2>7 DEF Kept
  <2>9. zs[id].global = s.global
    BY <2>4, <2>5
  <2> QED
    BY <1>2, <2>1, <2>5, <2>6, <2>8, <2>9
<1> QED
  BY <1>1, <1>2

\* It is the number of the symbol then.
LEMMA FiledIsSym ==
  ASSUME NEW st, NEW os, Good(os), NEW d \in SymsOf(os), NEW ys \in Seq(Symbol), NEW zs,
         NEW s \in Symbol, s = Joins(st, os, d), NEW id, Filed(ys, zs, s, id)
  PROVE  IsSym(st, os, zs, d, id)
<1>1. id \in DOMAIN zs /\ zs[id].global = s.global /\ zs[id].name = s.name
  BY FiledKeeps
<1>2. /\ s.name = Sym(os, d).name /\ s.global = Sym(os, d).global
      /\ Unknown(s) => s.global
      /\ ~Unknown(s) => s = There(st, os, d)
  BY JoinsIs
<1>3. CASE Sym(os, d).global
  <2>1. s.global = TRUE
    BY <1>2, <1>3, SymType DEF Symbol
  <2> QED
    BY <1>1, <1>2, <1>3, <2>1 DEF IsSym
<1>4. CASE ~Sym(os, d).global
  <2>1. ~s.global
    BY <1>2, <1>4
  <2>2. zs[id] = s
    BY <2>1 DEF Filed
  <2> QED
    BY <1>1, <1>2, <1>4, <2>1, <2>2 DEF IsSym
<1> QED
  BY <1>3, <1>4

\* One symbol more, whether it gets a number of its own or that of an earlier
\* reference or definition.
LEMMA SymFiled ==
  ASSUME NEW st, NEW os, Good(os), NEW D \in SUBSET SymsOf(os), NEW d \in SymsOf(os),
         NEW ys \in Seq(Symbol), NEW zs \in Seq(Symbol), SymsJoined(st, os, ys, D),
         NEW s \in Symbol, s = Joins(st, os, d), NEW id, Filed(ys, zs, s, id)
  PROVE  SymsJoined(st, os, zs, D \cup {d})
<1> DEFINE E == D \cup {d}
<1>1. /\ Kept(ys, zs) /\ id \in DOMAIN zs
      /\ zs[id].global = s.global /\ zs[id].name = s.name
      /\ Unknown(zs[id]) => Unknown(s)
  BY FiledKeeps
<1>2. /\ s.name = Sym(os, d).name /\ s.global = Sym(os, d).global /\ s.seg = Sym(os, d).seg
      /\ Unknown(s) = Unknown(Sym(os, d))
      /\ Unknown(s) => s.global /\ s.loc = Nowhere
      /\ ~Unknown(s) => s.loc = Put(st, os, d[1], Sym(os, d))
  BY JoinsIs
<1>3. IsSym(st, os, zs, d, id)
  BY FiledIsSym
<1>4. /\ DOMAIN zs = DOMAIN ys \cup {id} /\ \A a \in DOMAIN ys \ {id} : zs[a] = ys[a]
      /\ id \notin DOMAIN ys =>
           /\ zs[id] = s
           /\ s.global => \A a \in DOMAIN ys : ~(ys[a].global /\ ys[a].name = s.name)
      /\ id \in DOMAIN ys =>
           /\ zs[id] = Merged(s, ys[id]) /\ s.global /\ ys[id].global /\ ys[id].name = s.name
  BY DEF Filed
<1>5. /\ \A a \in DOMAIN ys : ~ys[a].global => \E c \in D : ~Sym(os, c).global /\ IsSym(st, os, ys, c, a)
      /\ \A a, b \in DOMAIN ys : ys[a].global /\ ys[b].global /\ ys[a].name = ys[b].name => a = b
      /\ \A a \in DOMAIN ys : ys[a].global =>
           \E c \in D : Sym(os, c).global /\ Sym(os, c).name = ys[a].name
      /\ \A a \in DOMAIN ys : ys[a].global /\ Unknown(ys[a]) =>
           ys[a].loc = Nowhere /\ \A c \in D : ~Defines(os, c, ys[a].name)
      /\ \A a \in DOMAIN ys : ys[a].global /\ ~Unknown(ys[a]) =>
           \E c \in D : /\ Defines(os, c, ys[a].name)
                        /\ ys[a].seg = Sym(os, c).seg /\ ys[a].loc = Put(st, os, c[1], Sym(os, c))
      /\ \A c \in D : \E a \in DOMAIN ys : IsSym(st, os, ys, c, a)
  BY DEF SymsJoined
<1>6. \A c \in D : \E a \in DOMAIN zs : IsSym(st, os, zs, c, a)
  BY <1>1, <1>4, <1>5, IsSymKept
<1>7. ASSUME NEW c \in D, NEW n, Sym(os, c).global, Sym(os, c).name = n
      PROVE  \E a \in DOMAIN ys : ys[a].global /\ ys[a].name = n
  BY <1>5, <1>7 DEF IsSym
<1>8. ASSUME NEW a \in DOMAIN zs, ~zs[a].global
      PROVE  \E c \in E : ~Sym(os, c).global /\ IsSym(st, os, zs, c, a)
  <2>1. CASE a = id
    BY <1>1, <1>2, <1>3, <1>8, <2>1
  <2>2. CASE a # id
    <3>1. a \in DOMAIN ys /\ ~ys[a].global
      BY <1>4, <1>8, <2>2
    <3>2. PICK c \in D : ~Sym(os, c).global /\ IsSym(st, os, ys, c, a)
      BY <1>5, <3>1
    <3>3. IsSym(st, os, zs, c, a)
      BY <1>1, <3>2, IsSymKept
    <3> QED
      BY <3>2, <3>3
  <2> QED
    BY <2>1, <2>2
<1>9. ASSUME NEW a \in DOMAIN zs, a # id, zs[a].global, s.global, zs[a].name = s.name
      PROVE  FALSE
  BY <1>4, <1>5, <1>9
<1>10. ASSUME NEW a \in DOMAIN zs, NEW b \in DOMAIN zs,
              zs[a].global, zs[b].global, zs[a].name = zs[b].name
       PROVE  a = b
  <2>1. CASE a # id /\ b # id
    <3>1. a \in DOMAIN ys /\ b \in DOMAIN ys /\ zs[a] = ys[a] /\ zs[b] = ys[b]
      BY <1>4, <2>1
    <3> QED
      BY <1>5, <1>10, <3>1
  <2>2. CASE a = id \/ b = id
    BY <1>1, <1>9, <1>10, <2>2
  <2> QED
    BY <2>1, <2>2
<1>11. ASSUME NEW a \in DOMAIN zs, zs[a].global
       PROVE  \E c \in E : Sym(os, c).global /\ Sym(os, c).name = zs[a].name
  <2>1. CASE a = id
    BY <1>1, <1>2, <1>11, <2>1
  <2>2. CASE a # id
    BY <1>4, <1>5, <1>11, <2>2
  <2> QED
    BY <2>1, <2>2
<1>12. ASSUME NEW a \in DOMAIN zs, zs[a].global, Unknown(zs[a])
       PROVE  zs[a].loc = Nowhere /\ \A c \in E : ~Defines(os, c, zs[a].name)
  <2>1. CASE a = id
    <3>1. Unknown(s) /\ Unknown(Sym(os, d)) /\ s.global
      BY <1>1, <1>2, <1>12, <2>1
    <3>2. ~Defines(os, d, zs[a].name)
      BY <3>1 DEF Defines
    <3>3. CASE id \notin DOMAIN ys
      <4>1. zs[a].loc = Nowhere
        BY <1>2, <1>4, <2>1, <3>1, <3>3
      <4>2. \A c \in D : ~Defines(os, c, zs[a].name)
        BY <1>1, <1>4, <1>7, <2>1, <3>1, <3>3 DEF Defines
      <4> QED
        BY <3>2, <4>1, <4>2
    <3>4. CASE id \in DOMAIN ys
      <4>1. zs[a] = ys[id] /\ ys[id].global
        BY <1>4, <2>1, <3>1, <3>4 DEF Merged
      <4> QED
        BY <1>5, <1>12, <3>2, <3>4, <4>1
    <3> QED
      BY <3>3, <3>4
  <2>2. CASE a # id
    <3>1. a \in DOMAIN ys /\ zs[a] = ys[a]
      BY <1>4, <2>2
    <3>2. ~Defines(os, d, zs[a].name)
      BY <1>2, <1>9, <1>12, <2>2 DEF Defines
    <3> QED
      BY <1>5, <1>12, <3>1, <3>2
  <2> QED
    BY <2>1, <2>2
<1>13. ASSUME NEW a \in DOMAIN zs, zs[a].global, ~Unknown(zs[a])
       PROVE  \E c \in E : /\ Defines(os, c, zs[a].name)
                           /\ zs[a].seg = Sym(os, c).seg /\ zs[a].loc = Put(st, os, c[1], Sym(os, c))
  <2>1. CASE a \in DOMAIN ys /\ zs[a] = ys[a]
    BY <1>5, <1>13, <2>1
  <2>2. CASE ~(a \in DOMAIN ys /\ zs[a] = ys[a])
    <3>1. a = id /\ zs[a] = s
      BY <1>4, <2>2 DEF Merged
    <3>2. Defines(os, d, zs[a].name)
      BY <1>2, <1>13, <3>1 DEF Defines
    <3> QED
      BY <1>2, <1>13, <3>1, <3>2
  <2> QED
    BY <2>1, <2>2
<1>14. \A c \in E : \E a \in DOMAIN zs : IsSym(st, os, zs, c, a)
  BY <1>1, <1>3, <1>6
<1> HIDE DEF E
<1>15. SymsJoined(st, os, zs, E)
  BY <1>8, <1>10, <1>11, <1>12, <1>13, <1>14 DEF SymsJoined
<1> QED
  BY <1>15 DEF E

\* The linker fails at a second definition, and only there.
LEMMA TwiceFiled ==
  ASSUME NEW st, NEW os, Good(os), NEW D \in SUBSET SymsOf(os), NEW d \in SymsOf(os) \ D,
         NEW ys \in Seq(Symbol), NEW zs, SymsJoined(st, os, ys, D),
         NEW s \in Symbol, s = Joins(st, os, d), NEW id, Filed(ys, zs, s, id)
  PROVE  Twice(os, D \cup {d}) <=> Twice(os, D) \/ (id \in DOMAIN ys /\ Clash(s, ys[id]))
<1>1. /\ s.name = Sym(os, d).name /\ s.global = Sym(os, d).global
      /\ Unknown(s) = Unknown(Sym(os, d)) /\ s.name \in Names
  BY JoinsIs DEF Symbol
<1> DEFINE Again == \E c \in D : Defines(os, d, s.name) /\ Defines(os, c, s.name)
<1>2. Twice(os, D \cup {d}) <=> Twice(os, D) \/ Again
  <2>1. ASSUME NEW n \in Names, NEW a \in D \cup {d}, NEW c \in D \cup {d}, a # c,
               Defines(os, a, n), Defines(os, c, n)
        PROVE  Twice(os, D) \/ Again
    <3>1. CASE a \in D /\ c \in D
      BY <2>1, <3>1 DEF Twice
    <3>2. CASE a = d \/ c = d
      <4>1. n = s.name
        BY <1>1, <2>1, <3>2 DEF Defines
      <4> QED
        BY <2>1, <3>2, <4>1
    <3> QED
      BY <3>1, <3>2
  <2>2. Twice(os, D) => Twice(os, D \cup {d})
    BY DEF Twice
  <2>3. Again => Twice(os, D \cup {d})
    BY <1>1 DEF Twice
  <2> HIDE DEF Again
  <2> QED
    BY <2>1, <2>2, <2>3 DEF Twice
<1>3. Again <=> id \in DOMAIN ys /\ Clash(s, ys[id])
  <2>1. ASSUME Again PROVE id \in DOMAIN ys /\ Clash(s, ys[id])
    <3>1. PICK c \in D : Defines(os, d, s.name) /\ Defines(os, c, s.name)
      BY <2>1
    <3>2. PICK a \in DOMAIN ys : ys[a].global /\ ys[a].name = s.name
      BY <3>1 DEF Defines, SymsJoined, IsSym
    <3>3. s.global /\ ~Unknown(s)
      BY <1>1, <3>1 DEF Defines
    <3>4. id \in DOMAIN ys /\ ys[id].global /\ ys[id].name = s.name
      BY <3>2, <3>3 DEF Filed
    <3>5. ~Unknown(ys[id])
      BY <3>1, <3>4 DEF SymsJoined
    <3> QED
      BY <3>3, <3>4, <3>5 DEF Clash
  <2>2. ASSUME id \in DOMAIN ys, Clash(s, ys[id]) PROVE Again
    <3>1. /\ ~Unknown(s) /\ ~Unknown(ys[id])
          /\ s.global /\ ys[id].global /\ ys[id].name = s.name
      BY <2>2 DEF Filed, Clash
    <3>2. PICK c \in D : Defines(os, c, s.name)
      BY <2>2, <3>1 DEF SymsJoined
    <3>3. Defines(os, d, s.name)
      BY <1>1, <3>1 DEF Defines
    <3> QED
      BY <3>2, <3>3
  <2> QED
    BY <2>1, <2>2
<1> QED
  BY <1>2, <1>3

----------------------------------------------------------------------------
(* 9. The relocations, and the bytes they change *)

\* Relocations.
LEMMA RefType ==
  ASSUME NEW os, Good(os), NEW d \in RefsOf(os)
  PROVE  /\ d = <<d[1], d[2]>> /\ d[1] \in 1 .. Len(os) /\ d[2] \in DOMAIN os[d[1]].relocs
         /\ d[2] \in Nat \ {0}
         /\ Ref(os, d) \in Reloc /\ Ref(os, d).seg \in SegsOf(os[d[1]]) /\ Ref(os, d).seg \in SegType
         /\ RefSym(os, d) \in SymsOf(os) /\ Target(os, d) = Sym(os, RefSym(os, d))
         /\ RefAt(os, d) \in Nat /\ RefAt(os, d) < W
<1>1. PICK i \in DOMAIN os : \E m \in DOMAIN os[i].relocs : d = <<i, m>>
  BY DEF RefsOf
<1>2. PICK m \in DOMAIN os[i].relocs : d = <<i, m>>
  BY <1>1
<1>3. d[1] = i /\ d[2] = m
  BY <1>2
<1>4. i \in 1 .. Len(os) /\ WellFormed(os[i]) /\ Sound(os[i])
  BY GoodObjects DEF Good
<1>5. os[i].relocs \in Seq(Reloc)
  BY <1>4 DEF WellFormed
<1>6. m \in Nat \ {0} /\ os[i].relocs[m] \in Reloc /\ os[i].relocs[m] \in Range(os[i].relocs)
  BY <1>2, <1>5 DEF Range
<1>7. PICK r \in Reloc : r = os[i].relocs[m]
  BY <1>6
<1>8. r.sym \in DOMAIN os[i].syms /\ r.seg \in SegsOf(os[i]) /\ r.seg \in SegType
  BY <1>4, <1>6, <1>7 DEF WellFormed
<1>9. r.loc >= os[i].segs[r.seg].start
  BY <1>4, <1>6, <1>7 DEF Sound
<1>10. StartOf(os[i], r.seg) = os[i].segs[r.seg].start /\ StartOf(os[i], r.seg) \in Addr
  BY <1>4, <1>8, StartType DEF StartOf
<1>11. r.loc \in Addr /\ r.loc - StartOf(os[i], r.seg) \in Nat /\ r.loc - StartOf(os[i], r.seg) < W
  <2>1. r.loc \in Addr
    BY <1>7 DEF Reloc
  <2> QED
    BY <1>9, <1>10, <2>1, LinkerAssumption DEF Addr
<1>12. <<i, r.sym>> \in SymsOf(os) /\ Target(os, d) = Sym(os, <<i, r.sym>>)
  BY <1>3, <1>7, <1>8 DEF SymsOf, Target, Sym, Ref
<1> QED
  BY <1>2, <1>3, <1>4, <1>6, <1>7, <1>8, <1>11, <1>12 DEF Ref, RefSym, RefAt

\* Two relocations of an object are about different bytes.
LEMMA RefsApart ==
  ASSUME NEW os, Good(os), NEW c \in RefsOf(os), NEW d \in RefsOf(os), c # d, c[1] = d[1],
         Ref(os, c).seg = Ref(os, d).seg
  PROVE  RefAt(os, c) - RefAt(os, d) \notin -1 .. 1
<1>1. /\ c = <<c[1], c[2]>> /\ d = <<d[1], d[2]>>
      /\ c[2] \in DOMAIN os[d[1]].relocs /\ d[2] \in DOMAIN os[d[1]].relocs /\ d[1] \in DOMAIN os
      /\ Ref(os, c) \in Reloc /\ Ref(os, d) \in Reloc
  BY RefType, GoodObjects DEF Good
<1>2. c[2] # d[2]
  BY <1>1
<1>3. Sound(os[d[1]])
  BY <1>1 DEF Good
<1>4. os[d[1]].relocs[c[2]].loc - os[d[1]].relocs[d[2]].loc \notin -1 .. 1
  BY <1>1, <1>2, <1>3 DEF Sound, Ref
<1>5. Ref(os, c).loc - Ref(os, d).loc \notin -1 .. 1
  BY <1>4 DEF Ref
<1>6. PICK a : a = StartOf(os[d[1]], Ref(os, d).seg)
  OBVIOUS
<1>7. a \in Int
  BY <1>1, <1>6, GoodObjects DEF Good, Addr
<1>8. PICK x \in Int, y \in Int : x = Ref(os, c).loc /\ y = Ref(os, d).loc
  BY <1>1 DEF Reloc, Addr
<1>9. (x - a) - (y - a) \notin -1 .. 1
  BY <1>5, <1>7, <1>8
<1>10. RefAt(os, c) = x - a /\ RefAt(os, d) = y - a
  BY <1>6, <1>8 DEF RefAt
<1> QED
  BY <1>9, <1>10

\* So at most one of them changes a byte.
LEMMA OverOne ==
  ASSUME NEW os, Good(os), NEW c \in RefsOf(os), NEW d \in RefsOf(os), NEW i, NEW t, NEW x \in Int,
         Over(os, c, i, t, x), Over(os, d, i, t, x)
  PROVE  c = d
<1>1. c[1] = d[1] /\ Ref(os, c).seg = Ref(os, d).seg
  BY DEF Over
<1>2. PICK p \in Nat, q \in Nat : p = RefAt(os, c) /\ q = RefAt(os, d)
  BY RefType
<1>3. x - p \in {1, 2} /\ x - q \in {1, 2}
  BY <1>2 DEF Over
<1>4. p - q \in -1 .. 1
  BY <1>3
<1> QED
  BY <1>1, <1>2, <1>4, RefsApart

\* A change of the symbol table as Kept allows leaves each relocation what it was,
LEMMA IsRefKept ==
  ASSUME NEW st, NEW os, Good(os), NEW ys \in Seq(Symbol), NEW zs, Kept(ys, zs),
         NEW d \in RefsOf(os), NEW e, IsRef(st, os, ys, d, e)
  PROVE  IsRef(st, os, zs, d, e) /\ e.sym \in DOMAIN ys
<1>1. IsSym(st, os, ys, RefSym(os, d), e.sym) /\ RefSym(os, d) \in SymsOf(os)
  BY RefType DEF IsRef
<1>2. IsSym(st, os, zs, RefSym(os, d), e.sym)
  BY <1>1, IsSymKept
<1> QED
  BY <1>1, <1>2 DEF IsRef, IsSym

\* all of them together,
LEMMA RefsKept ==
  ASSUME NEW st, NEW os, Good(os), NEW ys \in Seq(Symbol), NEW zs, Kept(ys, zs),
         NEW R \in SUBSET RefsOf(os), NEW rs, RefsJoined(st, os, ys, rs, R),
         NEW us, Waits(ys, rs, us)
  PROVE  RefsJoined(st, os, zs, rs, R) /\ Waits(zs, rs, us)
<1>1. /\ \A d \in R : Fits(os, d) /\ \E e \in Range(rs) : IsRef(st, os, ys, d, e)
      /\ \A e \in Range(rs) : \E d \in R : IsRef(st, os, ys, d, e)
      /\ \A m, n \in DOMAIN rs : m # n /\ rs[m].seg = rs[n].seg => rs[m].loc - rs[n].loc \notin -1 .. 1
  BY DEF RefsJoined
<1>2. \A d \in R : \E e \in Range(rs) : IsRef(st, os, zs, d, e)
  BY <1>1, IsRefKept
<1>3. \A e \in Range(rs) : \E d \in R : IsRef(st, os, zs, d, e) /\ e.sym \in DOMAIN ys
  BY <1>1, IsRefKept
<1>4. RefsJoined(st, os, zs, rs, R)
  BY <1>1, <1>2, <1>3 DEF RefsJoined
<1>5. ASSUME NEW e \in Range(rs), Unknown(zs[e.sym]) PROVE e \in Range(us)
  <2>1. e.sym \in DOMAIN ys
    BY <1>3
  <2>2. Unknown(ys[e.sym])
    BY <1>5, <2>1 DEF Kept
  <2> QED
    BY <2>2 DEF Waits
<1> QED
  BY <1>4, <1>5 DEF Waits

\* and what they do to a byte.
LEMMA ByteKept ==
  ASSUME NEW st, NEW os, Good(os), NEW ys \in Seq(Symbol), NEW zs, Kept(ys, zs),
         NEW R \in SUBSET RefsOf(os), NEW rs, NEW us, Waits(ys, rs, us),
         NEW i, NEW t, NEW x, NEW b,
         ByteJoined(st, os, ys, rs, R, Range(us), i, t, x, b)
  PROVE  ByteJoined(st, os, zs, rs, R, Range(us), i, t, x, b)
<1>1. ASSUME NEW d \in R, Over(os, d, i, t, x)
      PROVE  \E e \in Range(rs) :
               /\ IsRef(st, os, zs, d, e)
               /\ \/ b = Half(zs[e.sym].loc, x - RefAt(os, d) - 1)
                  \/ e \in Range(us) /\ ~Unknown(zs[e.sym])
  <2>1. PICK e \in Range(rs) :
          /\ IsRef(st, os, ys, d, e)
          /\ \/ b = Half(ys[e.sym].loc, x - RefAt(os, d) - 1)
             \/ e \in Range(us) /\ ~Unknown(ys[e.sym])
    BY <1>1 DEF ByteJoined
  <2>2. IsRef(st, os, zs, d, e) /\ e.sym \in DOMAIN ys
    BY <2>1, IsRefKept
  <2>3. CASE zs[e.sym] = ys[e.sym]
    BY <2>1, <2>2, <2>3
  <2>4. CASE Unknown(ys[e.sym]) /\ ~Unknown(zs[e.sym])
    <3>1. e \in Range(us)
      BY <2>4 DEF Waits
    <3> QED
      BY <2>2, <2>4, <3>1
  <2> QED
    BY <2>2, <2>3, <2>4 DEF Kept
<1> QED
  BY <1>1 DEF ByteJoined

\* The elements of a longer sequence.
LEMMA RangeAppend ==
  ASSUME NEW S, NEW us \in Seq(S), NEW e
  PROVE  Range(Append(us, e)) = Range(us) \cup {e}
<1>1. PICK l \in Nat : l = Len(us)
  OBVIOUS
<1>2. /\ DOMAIN us = 1 .. l /\ DOMAIN Append(us, e) = 1 .. l + 1 /\ Append(us, e)[l + 1] = e
      /\ \A m \in 1 .. l : Append(us, e)[m] = us[m]
  BY <1>1
<1>3. \A m \in 1 .. l + 1 : Append(us, e)[m] \in Range(us) \cup {e}
  BY <1>2 DEF Range
<1>4. \A m \in 1 .. l : us[m] \in Range(Append(us, e))
  BY <1>2 DEF Range
<1>5. e \in Range(Append(us, e))
  BY <1>2 DEF Range
<1> QED
  BY <1>2, <1>3, <1>4, <1>5 DEF Range

\* One relocation more.
LEMMA RefAdded ==
  ASSUME NEW st, NEW os, Good(os), \A t \in SegType : t \in DOMAIN st => st[t] \in Nat,
         \A i \in 1 .. Len(os) : SegsOf(os[i]) \subseteq DOMAIN st,
         NEW ys, NEW R \in SUBSET RefsOf(os), NEW d \in RefsOf(os) \ R,
         \A c \in R : c[1] <= d[1], Fits(os, d),
         NEW rs \in Seq(Reloc), RefsJoined(st, os, ys, rs, R),
         NEW e \in Reloc, IsRef(st, os, ys, d, e),
         NEW us \in Seq(Reloc), Waits(ys, rs, us),
         NEW vs, vs = IF Unknown(ys[e.sym]) THEN Append(us, e) ELSE us
  PROVE  RefsJoined(st, os, ys, Append(rs, e), R \cup {d}) /\ Waits(ys, Append(rs, e), vs)
<1> DEFINE ts == Append(rs, e)
<1>1. PICK n \in Nat : n = Len(rs)
  OBVIOUS
<1>2. /\ DOMAIN rs = 1 .. n /\ DOMAIN ts = 1 .. n + 1 /\ ts[n + 1] = e
      /\ \A m \in 1 .. n : ts[m] = rs[m]
  BY <1>1
<1>3. Range(ts) = Range(rs) \cup {e}
  BY RangeAppend
<1> HIDE DEF ts
<1>4. ASSUME NEW m \in 1 .. n, rs[m].seg = e.seg
      PROVE  rs[m].loc - e.loc \notin -1 .. 1 /\ e.loc - rs[m].loc \notin -1 .. 1
  <2>1. rs[m] \in Range(rs)
    BY <1>2 DEF Range
  <2>2. PICK c \in R : IsRef(st, os, ys, c, rs[m])
    BY <2>1 DEF RefsJoined
  <2>3. PICK t : t = e.seg
    OBVIOUS
  <2>4. /\ t = Ref(os, d).seg /\ t = Ref(os, c).seg /\ t \in DOMAIN st /\ t \in SegType
        /\ d[1] \in 1 .. Len(os) /\ c[1] \in 1 .. Len(os)
    BY <1>4, <2>2, <2>3, RefType DEF IsRef
  <2>5. PICK p \in Nat, q \in Nat, a \in Nat, u \in Nat, v \in Nat :
             /\ p = RefAt(os, c) /\ q = RefAt(os, d) /\ a = st[t]
             /\ u = Before(os, c[1], t) /\ v = Before(os, d[1], t)
    <3>1. RefAt(os, c) \in Nat /\ RefAt(os, d) \in Nat /\ st[t] \in Nat
      BY <2>4, RefType
    <3>2. Objects(os) /\ c[1] \in 1 .. Len(os) + 1 /\ d[1] \in 1 .. Len(os) + 1
      BY <2>4, GoodObjects DEF Good
    <3>3. Before(os, c[1], t) \in Nat /\ Before(os, d[1], t) \in Nat
      BY <3>2, BeforeType
    <3> QED
      BY <3>1, <3>3
  <2>6. rs[m].loc = a + u + p /\ e.loc = a + v + q
    BY <1>4, <2>2, <2>3, <2>5 DEF IsRef
  <2>7. CASE c[1] = d[1]
    <3>1. p - q \notin -1 .. 1
      BY <2>4, <2>5, <2>7, RefsApart
    <3>2. u = v
      BY <2>5, <2>7
    <3> QED
      BY <2>6, <3>1, <3>2
  <2>8. CASE c[1] < d[1]
    <3>1. d[1] \in c[1] + 1 .. Len(os) + 1 /\ Objects(os)
      BY <2>4, <2>8, GoodObjects DEF Good
    <3>2. u + Len(BytesIn(os[c[1]], t)) <= v
      BY <2>4, <2>5, <3>1, BeforeGrows
    <3>3. p + 2 <= Len(BytesIn(os[c[1]], t))
      BY <2>4, <2>5 DEF RefsJoined, Fits
    <3>4. Len(BytesIn(os[c[1]], t)) \in Nat
      BY <2>4, GoodObjects DEF Good
    <3> QED
      BY <2>6, <3>2, <3>3, <3>4
  <2> QED
    BY <2>2, <2>4, <2>7, <2>8
<1>5. ASSUME NEW m \in DOMAIN ts, NEW l \in DOMAIN ts, m # l, ts[m].seg = ts[l].seg
      PROVE  ts[m].loc - ts[l].loc \notin -1 .. 1
  <2>1. CASE m \in 1 .. n /\ l \in 1 .. n
    BY <1>2, <1>5, <2>1 DEF RefsJoined
  <2>2. CASE m = n + 1
    BY <1>2, <1>4, <1>5, <2>2
  <2>3. CASE l = n + 1
    BY <1>2, <1>4, <1>5, <2>3
  <2> QED
    BY <1>2, <2>1, <2>2, <2>3
<1>6. RefsJoined(st, os, ys, ts, R \cup {d})
  <2>1. \A c \in R \cup {d} : Fits(os, c) /\ \E a \in Range(ts) : IsRef(st, os, ys, c, a)
    BY <1>3 DEF RefsJoined
  <2>2. \A a \in Range(ts) : \E c \in R \cup {d} : IsRef(st, os, ys, c, a)
    BY <1>3 DEF RefsJoined
  <2> QED
    BY <1>5, <2>1, <2>2 DEF RefsJoined
<1>7. Waits(ys, ts, vs)
  <2>1. Range(vs) = IF Unknown(ys[e.sym]) THEN Range(us) \cup {e} ELSE Range(us)
    <3>1. Range(Append(us, e)) = Range(us) \cup {e}
      BY RangeAppend
    <3> QED
      BY <3>1
  <2> QED
    BY <1>3, <2>1 DEF Waits
<1> QED
  BY <1>6, <1>7 DEF ts

\* Bytes that a relocation is not about, and those that it is about.
LEMMA ByteSpared ==
  ASSUME NEW st, NEW os, NEW ys, NEW rs, NEW ts, Range(rs) \subseteq Range(ts),
         NEW R, NEW d, NEW U, NEW V, U \subseteq V,
         NEW i, NEW t, NEW x, NEW b, ByteJoined(st, os, ys, rs, R, U, i, t, x, b),
         ~Over(os, d, i, t, x)
  PROVE  ByteJoined(st, os, ys, ts, R \cup {d}, V, i, t, x, b)
<1>1. ASSUME NEW c \in R \cup {d}, Over(os, c, i, t, x)
      PROVE  \E e \in Range(ts) :
               /\ IsRef(st, os, ys, c, e)
               /\ b = Half(ys[e.sym].loc, x - RefAt(os, c) - 1) \/ (e \in V /\ ~Unknown(ys[e.sym]))
  <2>1. c \in R
    BY <1>1
  <2> QED
    BY <1>1, <2>1 DEF ByteJoined
<1> QED
  BY <1>1 DEF ByteJoined

\* A byte that the new relocation has written is as it should be.
LEMMA ByteWritten ==
  ASSUME NEW st, NEW os, Good(os), NEW ys, NEW ts, NEW R \in SUBSET RefsOf(os), NEW d \in RefsOf(os),
         NEW V, NEW i, NEW t, NEW x \in Int, NEW b, Over(os, d, i, t, x),
         NEW e \in Range(ts), IsRef(st, os, ys, d, e), b = Half(ys[e.sym].loc, x - RefAt(os, d) - 1)
  PROVE  ByteJoined(st, os, ys, ts, R \cup {d}, V, i, t, x, b)
<1>1. ASSUME NEW c \in R \cup {d}, Over(os, c, i, t, x)
      PROVE  \E a \in Range(ts) :
               /\ IsRef(st, os, ys, c, a)
               /\ b = Half(ys[a.sym].loc, x - RefAt(os, c) - 1) \/ (a \in V /\ ~Unknown(ys[a.sym]))
  <2>1. c = d
    BY <1>1, OverOne
  <2> QED
    BY <2>1
<1> QED
  BY <1>1 DEF ByteJoined

\* A reference need not be waited for if it is not about the byte, or stays
\* undefined.
LEMMA ByteAwaits ==
  ASSUME NEW st, NEW os, NEW ys, NEW rs, NEW R, NEW U, NEW V, NEW e, U \subseteq V \cup {e},
         NEW i, NEW t, NEW x, NEW b, ByteJoined(st, os, ys, rs, R, U, i, t, x, b),
         \/ Unknown(ys[e.sym])
         \/ \A d \in R : Over(os, d, i, t, x) => ~IsRef(st, os, ys, d, e)
  PROVE  ByteJoined(st, os, ys, rs, R, V, i, t, x, b)
<1>1. ASSUME NEW c \in R, Over(os, c, i, t, x)
      PROVE  \E a \in Range(rs) :
               /\ IsRef(st, os, ys, c, a)
               /\ b = Half(ys[a.sym].loc, x - RefAt(os, c) - 1) \/ (a \in V /\ ~Unknown(ys[a.sym]))
  <2>1. PICK a \in Range(rs) :
               /\ IsRef(st, os, ys, c, a)
               /\ b = Half(ys[a.sym].loc, x - RefAt(os, c) - 1) \/ (a \in U /\ ~Unknown(ys[a.sym]))
    BY <1>1 DEF ByteJoined
  <2>2. a = e => Unknown(ys[a.sym]) \/ ~IsRef(st, os, ys, c, a)
    BY <1>1
  <2> QED
    BY <2>1, <2>2
<1> QED
  BY <1>1 DEF ByteJoined

\* A word changes two bytes.
LEMMA PatchIs ==
  ASSUME NEW bs \in Seq(Byte), NEW at \in Nat, NEW w, at + 2 <= Len(bs), NEW y \in 1 .. Len(bs)
  PROVE  Patch(bs, at, w)[y] = IF y = at + 1 THEN Half(w, 0)
                               ELSE IF y = at + 2 THEN Half(w, 1) ELSE bs[y]
<1>1. PICK p \in 1 .. Len(bs), q \in 1 .. Len(bs) : p = at + 1 /\ q = at + 2 /\ p # q
  OBVIOUS
<1>2. Patch(bs, at, w) = [[bs EXCEPT ![p] = Half(w, 0)] EXCEPT ![q] = Half(w, 1)]
  BY <1>1 DEF Patch
<1>3. DOMAIN bs = 1 .. Len(bs)
  OBVIOUS
<1> QED
  BY <1>1, <1>2, <1>3

----------------------------------------------------------------------------
(* 10. The places of the object being copied *)

\* The place of the current object.
LEMMA AtIs ==
  ASSUME LinkInv, SegmentsInv, stage \in {"object", "symbols", "relocs"}, k <= Len(objs),
         NEW t \in DOMAIN start
  PROVE  /\ At(t) = start[t] + Before(objs, k, t)
         /\ start[t] \in Nat /\ Before(objs, k, t) \in Nat /\ Len(out[t]) = Before(objs, k, t)
         /\ start[t] + Before(objs, k, t) + Len(BytesIn(objs[k], t)) < W
<1> USE DEF LinkInv, Types
<1>1. /\ Objects(objs) /\ Len(objs) \in Nat /\ k \in 1 .. Len(objs)
      /\ k \in 1 .. Len(objs) + 1 /\ Len(objs) + 1 \in k + 1 .. Len(objs) + 1
      /\ Len(objs) + 1 \in 1 .. Len(objs) + 1
  BY GoodObjects DEF InvocationType, CounterType
<1>2. Before(objs, k, t) \in Nat /\ Before(objs, Len(objs) + 1, t) \in Nat
  BY <1>1, BeforeType
<1>3. Len(out[t]) = Before(objs, k, t)
  <2>1. PICK n \in Nat : n = k - 1 /\ n + 1 = k
    BY <1>1
  <2>2. Len(out[t]) = Len(Taken(t, n))
    BY <2>1 DEF SegmentsInv, Filling
  <2>3. Len(Taken(t, n)) = Before(objs, n + 1, t)
    BY TakenIsBefore
  <2> QED
    BY <2>1, <2>2, <2>3
<1>4. lengths[t] = Before(objs, Len(objs) + 1, t)
  <2>1. lengths = Lengths /\ t \in AllSegs
    BY DEF Position
  <2>2. lengths[t] = Len(Taken(t, Len(objs)))
    BY <1>1, <2>1, LengthsAre
  <2> QED
    BY <1>1, <2>2, TakenIsBefore
<1>5. Before(objs, k, t) + Len(BytesIn(objs[k], t)) <= Before(objs, Len(objs) + 1, t)
  BY <1>1, BeforeGrows
<1>6. /\ start[t] \in Nat /\ lastEnd \in Nat /\ lastEnd < W /\ W \in Nat \ {0}
      /\ start[t] + lengths[t] <= lastEnd
  BY LinkerAssumption DEF SegmentsInv, Placing, LayoutType, Addr
<1>7. Len(BytesIn(objs[k], t)) \in Nat
  BY <1>1, GoodObjects
<1>8. start[t] + Before(objs, k, t) + Len(BytesIn(objs[k], t)) < W
  BY <1>2, <1>4, <1>5, <1>6, <1>7
<1>9. At(t) = start[t] + Before(objs, k, t)
  <2>1. PICK n \in 0 .. W - 1 : n = start[t] + Before(objs, k, t)
    BY <1>2, <1>6, <1>7, <1>8
  <2>2. n % W = n
    BY <1>6, Remainder
  <2> QED
    BY <1>3, <2>1, <2>2 DEF At
<1> QED
  BY <1>2, <1>3, <1>6, <1>8, <1>9

\* A symbol moves with the bytes of its object.
LEMMA MovedIs ==
  ASSUME LinkInv, SegmentsInv, stage \in {"object", "symbols", "relocs"}, k <= Len(objs),
         NEW t \in SegsOf(objs[k]), NEW loc \in Addr
  PROVE  Moved(objs[k], t, loc) = (start[t] + Before(objs, k, t) + (loc - StartOf(objs[k], t))) % W
<1> USE DEF LinkInv, Types
<1>1. k \in DOMAIN objs /\ Objects(objs)
  BY GoodObjects DEF InvocationType, CounterType
<1>2. t \in DOMAIN start
  BY <1>1 DEF Position, AllSegs
<1>3. PICK a \in Nat, b \in Nat, c \in Int, l \in Int :
        a = start[t] /\ b = Before(objs, k, t) /\ c = StartOf(objs[k], t) /\ l = loc /\ At(t) = a + b
  <2>1. start[t] \in Nat /\ Before(objs, k, t) \in Nat /\ At(t) = start[t] + Before(objs, k, t)
    BY <1>2, AtIs
  <2>2. StartOf(objs[k], t) \in Addr
    BY <1>1, GoodObjects
  <2> QED
    BY <2>1, <2>2 DEF Addr
<1>4. Moved(objs[k], t, loc) = (l - c + (a + b)) % W
  BY <1>2, <1>3 DEF Moved, Base
<1>5. l - c + (a + b) = a + b + (l - c)
  OBVIOUS
<1> QED
  BY <1>3, <1>4, <1>5

\* An undefined symbol stays where it is.
LEMMA NowhereMoved ==
  ASSUME LinkInv, NEW o, WellFormed(o)
  PROVE  Moved(o, "unknown", Nowhere) = Nowhere /\ Nowhere \in Addr
<1>1. "unknown" \notin SegsOf(o) /\ "unknown" \notin DOMAIN start
  BY DEF WellFormed, SegType, LinkInv, Types, LayoutType
<1>2. StartOf(o, "unknown") = 0 /\ Base("unknown") = 0
  BY <1>1 DEF StartOf, Base
<1>3. Nowhere \in Addr
  BY WordType DEF Nowhere
<1>4. PICK n \in 0 .. W - 1 : n = Nowhere
  BY <1>3 DEF Addr
<1>5. W \in Nat \ {0}
  BY LinkerAssumption
<1>6. n - 0 + 0 = n /\ n % W = n
  BY <1>5, Remainder
<1> QED
  BY <1>2, <1>3, <1>4, <1>6 DEF Moved

----------------------------------------------------------------------------
(* 11. One symbol *)

\* A symbol of the current object.
LEMMA MovedSymbolIs ==
  ASSUME LinkInv, SegmentsInv, Good(objs), stage = "symbols", j <= Len(objs[k].syms)
  PROVE  /\ <<k, j>> \in SymsOf(objs) /\ MovedSymbol = Joins(start, objs, <<k, j>>)
         /\ MovedSymbol \in Symbol
<1> USE DEF LinkInv, Types
<1> DEFINE o == objs[k]  d == <<k, j>>  s == o.syms[j]
<1>1. k \in DOMAIN objs /\ k \in 1 .. Len(objs) /\ k <= Len(objs) /\ WellFormed(o)
  BY GoodObjects DEF Position, AtObject, InvocationType
<1>2. j \in DOMAIN o.syms
  BY <1>1 DEF WellFormed, CounterType
<1>3. d \in SymsOf(objs) /\ Sym(objs, d) = s /\ d[1] = k
  BY <1>1, <1>2 DEF SymsOf, Sym
<1>4. /\ s \in Symbol
      /\ Unknown(s) => s.global /\ s.loc = Nowhere
      /\ ~Unknown(s) => s.seg \in SegsOf(o)
  BY <1>3, SymType
<1>5. MovedSymbol = [s EXCEPT !.loc = Moved(o, s.seg, s.loc)]
  BY DEF MovedSymbol
<1>6. Moved(o, s.seg, s.loc) = IF Unknown(s) THEN Nowhere ELSE Put(start, objs, k, s)
  <2>1. CASE Unknown(s)
    <3>1. s.seg = "unknown" /\ s.loc = Nowhere
      BY <1>4, <2>1 DEF Unknown
    <3> QED
      BY <1>1, <2>1, <3>1, NowhereMoved
  <2>2. CASE ~Unknown(s)
    <3>1. PICK t \in SegsOf(o), loc \in Addr : t = s.seg /\ loc = s.loc
      BY <1>4, <2>2 DEF Symbol
    <3>2. Moved(o, t, loc) = (start[t] + Before(objs, k, t) + (loc - StartOf(o, t))) % W
      BY <1>1, MovedIs
    <3> QED
      BY <2>2, <3>1, <3>2 DEF Put
  <2> QED
    BY <2>1, <2>2
<1>7. MovedSymbol = Joins(start, objs, d)
  BY <1>3, <1>5, <1>6 DEF Joins
<1>8. MovedSymbol \in Symbol
  BY MovedSymbolType
<1> QED
  BY <1>3, <1>7, <1>8

\* The global symbols of the output are in global_symbols.
GlobInv == \A a \in DOMAIN syms : syms[a].global => syms[a].name \in DOMAIN glob /\ glob[syms[a].name] = a

\* AddSymbol files it under a number.
LEMMA AddSymbolFiles ==
  ASSUME LinkInv, SegmentsInv, Good(objs), GlobInv, AddSymbol
  PROVE  \E id : /\ Filed(syms, syms', MovedSymbol, id)
                 /\ ids' = Append(ids, id)
                 /\ failure' <=> failure \/ (id \in DOMAIN syms /\ Clash(MovedSymbol, syms[id]))
                 /\ GlobInv'
<1> USE DEF LinkInv, Types
<1>1. stage = "symbols" /\ j <= Len(objs[k].syms)
  BY DEF AddSymbol
<1>2. PICK s \in Symbol : s = MovedSymbol
  BY <1>1, MovedSymbolIs
<1>3. syms \in Seq(Symbol) /\ glob \in [DOMAIN glob -> DOMAIN syms]
      /\ \A m \in DOMAIN glob : syms[glob[m]].global /\ syms[glob[m]].name = m
  BY DEF SymbolsType
<1>4. CASE NewSymbol(s)
  <2>1. PICK n \in Nat : n = Len(syms)
    BY <1>3
  <2>2. /\ ~s.global \/ s.name \notin DOMAIN glob
        /\ syms' = Append(syms, s) /\ ids' = Append(ids, n + 1) /\ failure' = failure
        /\ glob' = IF s.global THEN [m \in DOMAIN glob \cup {s.name} |->
                                       IF m = s.name THEN n + 1 ELSE glob[m]]
                               ELSE glob
    BY <1>4, <2>1 DEF NewSymbol, NextId
  <2>3. /\ DOMAIN syms = 1 .. n /\ DOMAIN syms' = 1 .. n + 1 /\ syms'[n + 1] = s
        /\ \A a \in 1 .. n : syms'[a] = syms[a]
    BY <1>3, <2>1, <2>2
  <2>4. s.global => \A a \in DOMAIN syms : ~(syms[a].global /\ syms[a].name = s.name)
    BY <2>2 DEF GlobInv
  <2>5. PICK id \in Nat : id = n + 1
    OBVIOUS
  <2>6. Filed(syms, syms', s, id) /\ id \notin DOMAIN syms
    <3>1. DOMAIN syms' = DOMAIN syms \cup {id} /\ id \notin DOMAIN syms
      BY <2>3, <2>5
    <3>2. \A a \in DOMAIN syms \ {id} : syms'[a] = syms[a]
      BY <2>3, <2>5
    <3>3. syms'[id] = s
      BY <2>3, <2>5
    <3> QED
      BY <2>4, <3>1, <3>2, <3>3 DEF Filed
  <2>7. GlobInv'
    <3>1. ASSUME NEW a \in DOMAIN syms', syms'[a].global
          PROVE  syms'[a].name \in DOMAIN glob' /\ glob'[syms'[a].name] = a
      <4>1. CASE a = n + 1
        BY <2>2, <2>3, <3>1, <4>1
      <4>2. CASE a # n + 1
        <5>1. a \in DOMAIN syms /\ syms'[a] = syms[a]
          BY <2>3, <4>2
        <5>2. syms[a].name \in DOMAIN glob /\ glob[syms[a].name] = a
          BY <3>1, <5>1 DEF GlobInv
        <5> QED
          BY <2>2, <5>1, <5>2
      <4> QED
        BY <4>1, <4>2
    <3> QED
      BY <3>1 DEF GlobInv
  <2> QED
    BY <1>2, <2>2, <2>5, <2>6, <2>7
<1>5. CASE KnownSymbol(s)
  <2>1. PICK id \in DOMAIN syms : id = glob[s.name] /\ s.name \in DOMAIN glob
    BY <1>3, <1>5 DEF KnownSymbol
  <2>2. /\ s.global /\ glob' = glob
        /\ syms' = [syms EXCEPT ![id] = Merged(s, syms[id])]
        /\ ids' = Append(ids, id)
        /\ failure' = (failure \/ Clash(s, syms[id]))
    BY <1>5, <2>1 DEF KnownSymbol
  <2>3. syms[id].global /\ syms[id].name = s.name
    BY <1>3, <2>1
  <2>4. Filed(syms, syms', s, id)
    <3>1. DOMAIN syms' = DOMAIN syms \cup {id} /\ syms'[id] = Merged(s, syms[id])
          /\ \A a \in DOMAIN syms \ {id} : syms'[a] = syms[a]
      BY <1>3, <2>1, <2>2
    <3> QED
      BY <2>1, <2>2, <2>3, <3>1 DEF Filed
  <2>5. GlobInv'
    <3>1. Kept(syms, syms') /\ DOMAIN syms' = DOMAIN syms
      BY <1>3, <2>1, <2>2, <2>4, FiledKeeps
    <3> QED
      BY <2>2, <3>1 DEF GlobInv, Kept
  <2> QED
    BY <1>2, <2>1, <2>2, <2>4, <2>5
<1> QED
  BY <1>2, <1>4, <1>5 DEF AddSymbol

----------------------------------------------------------------------------
(* 12. The inductive invariant, in terms of how far the loops are *)

\* Symbols and relocations the loops have been through.
SeenSyms ==
  {d \in SymsOf(objs) : d[1] < k \/ (d[1] = k /\ (stage = "relocs" \/ (stage = "symbols" /\ d[2] < j)))}
SeenRefs == {d \in RefsOf(objs) : d[1] < k \/ (d[1] = k /\ stage = "relocs" /\ d[2] < j)}

\* References that are still to be patched.
Waiting == {undef[q] : q \in (IF stage = "patch" THEN j ELSE 1) .. Len(undef)}

\* Before the loops nothing is linked.
Fresh == stage \in {"search", "layout"} =>
  /\ k = 1 /\ syms = <<>> /\ glob = <<>> /\ reloc = <<>> /\ undef = <<>>
  /\ entry = NoEntry /\ failure = FALSE

\* The stages of the loops, and of a finished output.
Linking == {"object", "symbols", "relocs", "patch"}
Ended == {"done", "failed", "noentry"}

\* The symbols so far, and the numbers the current object has for its own.
SymsInv == stage \in Linking \cup Ended =>
  /\ SymsJoined(start, objs, syms, SeenSyms) /\ GlobInv
  /\ stage \in {"symbols", "relocs"} =>
       \A m \in DOMAIN ids : IsSym(start, objs, syms, <<k, m>>, ids[m])

\* The relocations so far.
RefsInv == stage \in Linking \cup Ended =>
  /\ RefsJoined(start, objs, syms, reloc, SeenRefs)
  /\ Waits(syms, reloc, undef)

\* The bytes of the objects that are copied, of the one being relocated, and in
\* the end of all.
BytesInv ==
  /\ stage \in Linking =>
       \A i \in DOMAIN objs : i < k => BytesJoined(start, objs, syms, reloc, SeenRefs, Waiting, i, out)
  /\ stage \in {"symbols", "relocs"} =>
       \A t \in SegsOf(objs[k]) : \A x \in DOMAIN BytesIn(objs[k], t) :
         ByteJoined(start, objs, syms, reloc, SeenRefs, Waiting, k, t, x, cur[t][x])
  /\ stage \in Ended =>
       \A i \in DOMAIN objs : BytesJoined(start, objs, syms, reloc, SeenRefs, {}, i, out)

\* The entry point so far.
EntryInv ==
  /\ stage \in Linking => EntryJoined(start, objs, entry, IF stage \in {"symbols", "relocs"} THEN k ELSE k - 1)
  /\ stage \in Ended /\ job.setEntry = "none" => EntryJoined(start, objs, entry, Len(objs))

\* A failure so far is a name defined twice, or one that an executable misses.
FailureInv ==
  /\ stage \in {"object", "symbols", "relocs"} => (failure <=> Twice(objs, SeenSyms))
  /\ stage = "patch" => (failure <=> \/ Twice(objs, SeenSyms)
                                     \/ job.exe /\ \E q \in 1 .. j - 1 : q <= Len(undef) /\ Unknown(syms[undef[q].sym]))
  /\ stage \in Ended =>
       (stage = "failed" <=> \/ Twice(objs, SymsOf(objs))
                             \/ job.exe /\ \E e \in Range(undef) : Unknown(syms[e.sym])
                             \/ job.setEntry \in Names \ DOMAIN glob)
  /\ stage = "noentry" => job.exe /\ job.setEntry = "none" /\ entry = NoEntry
  /\ stage \in {"patch"} \cup Ended => k = Len(objs) + 1

\* Only a relocation behind the end of its segment, or a stray entry point,
\* makes the linker panic.
PanicInv == stage = "panic" =>
  \E i \in DOMAIN objs :
    \/ StrayEntry(objs[i])
    \/ \E r \in Range(objs[i].relocs) : OffsetIn(objs[i], r) + 2 > Len(objs[i].segs[r.seg].bytes)

\* Object o is what good objects os were linked to.
Came(o, os) == Good(os) => Sound(o) /\ IsJoin(o, os) /\ ~Twice(os, SymsOf(os))

\* The first input of a second invocation was linked from some of the objects
\* the properties are about.
OriginInv ==
  /\ Objects(origin)
  /\ ~relinked /\ stage # "search" => origin = objs
  /\ relinked => /\ Len(objs) >= 1
                 /\ stage = "search" => Came(objs[1], origin)
                 /\ stage # "search" =>
                      \E n \in 0 .. Len(origin) :
                        LET os == SubSeq(origin, 1, n)
                        IN origin = os \o Tail(objs) /\ Came(objs[1], os)

\* The other actions go on with the symbols they have,
LEMMA SeenSymsSame ==
  ASSUME LinkInv, Good(objs), stage \in Linking,
         EnterObject \/ EndSymbols \/ Relocate \/ CopySegments \/ EndObjects \/ PatchUndefined \/ Finish,
         stage' # "panic"
  PROVE  SeenSyms' = SeenSyms
<1> USE DEF LinkInv, Types
<1>1. /\ k \in Nat \ {0} /\ j \in Nat \ {0} /\ Len(objs) \in Nat
      /\ \A d \in SymsOf(objs) : /\ d[1] \in 1 .. Len(objs) /\ d[2] \in Nat \ {0}
                                 /\ d[2] <= Len(objs[d[1]].syms) /\ Len(objs[d[1]].syms) \in Nat
  <2>1. ASSUME NEW d \in SymsOf(objs)
        PROVE  /\ d[1] \in 1 .. Len(objs) /\ d[2] \in Nat \ {0}
               /\ d[2] <= Len(objs[d[1]].syms) /\ Len(objs[d[1]].syms) \in Nat
    <3>1. d[1] \in 1 .. Len(objs) /\ d[2] \in DOMAIN objs[d[1]].syms /\ d[2] \in Nat \ {0}
      BY SymType
    <3>2. objs[d[1]].syms \in Seq(Symbol)
      BY <3>1, GoodObjects DEF Good, WellFormed
    <3> QED
      BY <3>1, <3>2
  <2> QED
    BY <2>1, GoodObjects DEF CounterType, Good
<1>2. objs' = objs /\ SymsOf(objs)' = SymsOf(objs)
  BY DEF EnterObject, EndSymbols, Relocate, CopySegments, EndObjects, PatchUndefined, Finish, search
<1>3. ASSUME NEW d \in SymsOf(objs)
      PROVE  (d[1] < k \/ (d[1] = k /\ (stage = "relocs" \/ (stage = "symbols" /\ d[2] < j)))) <=>
             (d[1] < k' \/ (d[1] = k' /\ (stage' = "relocs" \/ (stage' = "symbols" /\ d[2] < j'))))
  <2>1. CASE EnterObject
    BY <1>1, <2>1, EntersObject
  <2>2. CASE EndSymbols
    BY <1>1, <2>2 DEF EndSymbols
  <2>3. CASE Relocate
    BY <1>1, <2>3 DEF Relocate
  <2>4. CASE CopySegments
    BY <1>1, <2>4 DEF CopySegments
  <2>5. CASE EndObjects
    BY <1>1, <2>5 DEF EndObjects
  <2>6. CASE PatchUndefined \/ Finish
    <3>1. stage = "patch" /\ stage' \notin {"relocs", "symbols"} /\ k' = k
      BY <2>6 DEF PatchUndefined, Finish
    <3> QED
      BY <3>1
  <2> QED
    BY <2>1, <2>2, <2>3, <2>4, <2>5, <2>6
<1> QED
  BY <1>2, <1>3 DEF SeenSyms

\* and all but Relocate with the relocations.
LEMMA SeenRefsSame ==
  ASSUME LinkInv, Good(objs), stage \in Linking,
         EnterObject \/ AddSymbol \/ EndSymbols \/ CopySegments \/ EndObjects \/ PatchUndefined \/ Finish,
         stage' # "panic"
  PROVE  SeenRefs' = SeenRefs
<1> USE DEF LinkInv, Types
<1>1. /\ k \in Nat \ {0} /\ j \in Nat \ {0} /\ Len(objs) \in Nat
      /\ \A d \in RefsOf(objs) : /\ d[1] \in 1 .. Len(objs) /\ d[2] \in Nat \ {0}
                                 /\ d[2] <= Len(objs[d[1]].relocs) /\ Len(objs[d[1]].relocs) \in Nat
  <2>1. ASSUME NEW d \in RefsOf(objs)
        PROVE  /\ d[1] \in 1 .. Len(objs) /\ d[2] \in Nat \ {0}
               /\ d[2] <= Len(objs[d[1]].relocs) /\ Len(objs[d[1]].relocs) \in Nat
    <3>1. d[1] \in 1 .. Len(objs) /\ d[2] \in DOMAIN objs[d[1]].relocs /\ d[2] \in Nat \ {0}
      BY RefType
    <3>2. objs[d[1]].relocs \in Seq(Reloc)
      BY <3>1, GoodObjects DEF Good, WellFormed
    <3> QED
      BY <3>1, <3>2
  <2> QED
    BY <2>1, GoodObjects DEF CounterType, Good
<1>2. objs' = objs /\ RefsOf(objs)' = RefsOf(objs)
  BY DEF EnterObject, AddSymbol, EndSymbols, CopySegments, EndObjects, PatchUndefined, Finish, search
<1>3. ASSUME NEW d \in RefsOf(objs)
      PROVE  (d[1] < k \/ (d[1] = k /\ stage = "relocs" /\ d[2] < j)) <=>
             (d[1] < k' \/ (d[1] = k' /\ stage' = "relocs" /\ d[2] < j'))
  <2>1. CASE EnterObject
    BY <1>1, <2>1, EntersObject
  <2>2. CASE AddSymbol
    BY <1>1, <2>2 DEF AddSymbol
  <2>3. CASE EndSymbols
    BY <1>1, <2>3 DEF EndSymbols
  <2>4. CASE CopySegments
    BY <1>1, <2>4 DEF CopySegments
  <2>5. CASE EndObjects
    BY <1>1, <2>5 DEF EndObjects
  <2>6. CASE PatchUndefined \/ Finish
    <3>1. stage = "patch" /\ stage' # "relocs" /\ k' = k
      BY <2>6 DEF PatchUndefined, Finish
    <3> QED
      BY <3>1
  <2> QED
    BY <2>1, <2>2, <2>3, <2>4, <2>5, <2>6
<1> QED
  BY <1>2, <1>3 DEF SeenRefs

\* The rounds of the two loops.
LEMMA SeenSymsNext ==
  ASSUME LinkInv, Good(objs), AddSymbol
  PROVE  SeenSyms' = SeenSyms \cup {<<k, j>>} /\ <<k, j>> \in SymsOf(objs) \ SeenSyms
<1> USE DEF LinkInv, Types
<1>1. stage = "symbols" /\ stage' = "symbols" /\ j <= Len(objs[k].syms) /\ j' = j + 1 /\ k' = k /\ objs' = objs
  BY DEF AddSymbol, search
<1>2. k \in DOMAIN objs /\ j \in DOMAIN objs[k].syms
  BY <1>1, CurrentIsWellFormed DEF Position, AtObject, WellFormed, CounterType
<1>3. <<k, j>> \in SymsOf(objs)
  BY <1>2 DEF SymsOf
<1>4. k \in Nat /\ j \in Nat
  BY DEF CounterType
<1>5. <<k, j>>[1] = k /\ <<k, j>>[2] = j
  OBVIOUS
<1>6. <<k, j>> \notin SeenSyms
  BY <1>1, <1>4, <1>5 DEF SeenSyms
<1>7. ASSUME NEW d \in SymsOf(objs)
      PROVE  (d[1] < k' \/ (d[1] = k' /\ (stage' = "relocs" \/ (stage' = "symbols" /\ d[2] < j')))) <=>
             \/ d[1] < k \/ (d[1] = k /\ (stage = "relocs" \/ (stage = "symbols" /\ d[2] < j)))
             \/ d = <<k, j>>
  <2>1. d = <<d[1], d[2]>> /\ d[2] \in Nat
    BY SymType
  <2>2. d = <<k, j>> <=> d[1] = k /\ d[2] = j
    BY <2>1
  <2> QED
    BY <1>1, <1>4, <2>1, <2>2
<1>8. SymsOf(objs)' = SymsOf(objs)
  BY <1>1
<1> QED
  BY <1>3, <1>6, <1>7, <1>8 DEF SeenSyms

\* A round of the relocations adds one.
LEMMA SeenRefsNext ==
  ASSUME LinkInv, Good(objs), Relocate, stage' # "panic"
  PROVE  /\ SeenRefs' = SeenRefs \cup {<<k, j>>} /\ <<k, j>> \in RefsOf(objs) \ SeenRefs
         /\ \A d \in SeenRefs : d[1] <= k
<1> USE DEF LinkInv, Types
<1>1. /\ stage = "relocs" /\ stage' = "relocs" /\ j <= Len(objs[k].relocs)
      /\ j' = j + 1 /\ k' = k /\ objs' = objs
  BY DEF Relocate, search
<1>2. k \in DOMAIN objs /\ j \in DOMAIN objs[k].relocs
  BY <1>1, CurrentIsWellFormed DEF Position, AtObject, WellFormed, CounterType
<1>3. <<k, j>> \in RefsOf(objs)
  BY <1>2 DEF RefsOf
<1>4. k \in Nat /\ j \in Nat
  BY DEF CounterType
<1>5. <<k, j>>[1] = k /\ <<k, j>>[2] = j
  OBVIOUS
<1>6. <<k, j>> \notin SeenRefs
  BY <1>1, <1>4, <1>5 DEF SeenRefs
<1>7. ASSUME NEW d \in RefsOf(objs)
      PROVE  /\ (d[1] < k' \/ (d[1] = k' /\ stage' = "relocs" /\ d[2] < j')) <=>
                  (d[1] < k \/ (d[1] = k /\ stage = "relocs" /\ d[2] < j) \/ d = <<k, j>>)
             /\ d[1] \in Nat
  <2>1. d = <<d[1], d[2]>> /\ d[2] \in Nat /\ d[1] \in Nat
    BY RefType
  <2>2. d = <<k, j>> <=> d[1] = k /\ d[2] = j
    BY <2>1
  <2> QED
    BY <1>1, <1>4, <2>1, <2>2
<1>8. RefsOf(objs)' = RefsOf(objs)
  BY <1>1
<1>9. \A d \in SeenRefs : d[1] <= k
  BY <1>4, <1>7 DEF SeenRefs
<1> QED
  BY <1>3, <1>6, <1>7, <1>8, <1>9 DEF SeenRefs

----------------------------------------------------------------------------
(* 13. The loop over the symbols *)

\* What AddSymbol does to the tables.
LEMMA AddSymbolJoins ==
  ASSUME LinkInv, SegmentsInv, Good(objs), SymsInv, AddSymbol
  PROVE  /\ SymsInv' /\ Kept(syms, syms')
         /\ FailureInv => (failure' <=> Twice(objs, SeenSyms'))
<1> USE DEF LinkInv, Types
<1> DEFINE d == <<k, j>>
<1>1. /\ stage = "symbols" /\ stage' = "symbols" /\ j <= Len(objs[k].syms) /\ k' = k
      /\ objs' = objs /\ start' = start
  BY DEF AddSymbol, search, layout
<1>2. /\ SymsJoined(start, objs, syms, SeenSyms) /\ GlobInv
      /\ \A m \in DOMAIN ids : IsSym(start, objs, syms, <<k, m>>, ids[m])
  BY <1>1 DEF SymsInv, Linking
<1>3. d \in SymsOf(objs) /\ MovedSymbol = Joins(start, objs, d) /\ MovedSymbol \in Symbol
  BY <1>1, MovedSymbolIs
<1>4. PICK id : /\ Filed(syms, syms', MovedSymbol, id)
                /\ ids' = Append(ids, id)
                /\ failure' <=> failure \/ (id \in DOMAIN syms /\ Clash(MovedSymbol, syms[id]))
                /\ GlobInv'
  BY <1>2, AddSymbolFiles
<1>5. SeenSyms' = SeenSyms \cup {d} /\ d \in SymsOf(objs) \ SeenSyms /\ SeenSyms \in SUBSET SymsOf(objs)
  BY SeenSymsNext DEF SeenSyms
<1>6. syms \in Seq(Symbol) /\ syms' \in Seq(Symbol) /\ Len(ids) = j - 1 /\ ids \in Seq(DOMAIN syms)
      /\ j \in Nat \ {0}
  BY <1>1, AddSymbolEffect DEF SymbolsType, Position, CounterType
<1>7. PICK st, os, ys, zs, D, s :
        /\ st = start /\ os = objs /\ ys = syms /\ zs = syms' /\ D = SeenSyms /\ s = MovedSymbol
  OBVIOUS
<1> HIDE DEF d
<1>8. /\ Good(os) /\ D \in SUBSET SymsOf(os) /\ d \in SymsOf(os) \ D /\ d \in SymsOf(os)
      /\ ys \in Seq(Symbol) /\ zs \in Seq(Symbol) /\ SymsJoined(st, os, ys, D)
      /\ s \in Symbol /\ s = Joins(st, os, d) /\ Filed(ys, zs, s, id)
  BY <1>2, <1>3, <1>4, <1>5, <1>6, <1>7
<1>9. SymsJoined(st, os, zs, D \cup {d})
  BY <1>8, SymFiled
<1>10. Kept(ys, zs) /\ IsSym(st, os, zs, d, id)
  BY <1>8, FiledKeeps, FiledIsSym
<1>11. Twice(os, D \cup {d}) <=> Twice(os, D) \/ (id \in DOMAIN ys /\ Clash(s, ys[id]))
  BY <1>8, TwiceFiled
<1>12. ASSUME NEW m \in DOMAIN ids' PROVE IsSym(start, objs, syms', <<k, m>>, ids'[m])
  <2>1. DOMAIN ids = 1 .. j - 1 /\ DOMAIN ids' = 1 .. j /\ ids'[j] = id
        /\ \A l \in 1 .. j - 1 : ids'[l] = ids[l]
    BY <1>4, <1>6
  <2>2. CASE m = j
    BY <1>7, <1>10, <2>1, <2>2 DEF d
  <2>3. CASE m # j
    <3>1. m \in DOMAIN ids /\ ids'[m] = ids[m]
      BY <1>6, <2>1, <2>3
    <3>2. <<k, m>> \in SymsOf(objs)
      <4>1. k \in DOMAIN objs /\ objs[k].syms \in Seq(Symbol)
        BY <1>1, CurrentIsWellFormed DEF Position, AtObject, WellFormed
      <4>2. m \in 1 .. Len(objs[k].syms)
        BY <1>1, <1>6, <2>1, <3>1, <4>1
      <4>3. m \in DOMAIN objs[k].syms
        BY <4>1, <4>2
      <4> QED
        BY <4>1, <4>3 DEF SymsOf
    <3>3. IsSym(st, os, ys, <<k, m>>, ids[m])
      BY <1>2, <1>7, <3>1
    <3>4. IsSym(st, os, zs, <<k, m>>, ids[m])
      BY <1>7, <1>8, <1>10, <3>2, <3>3, IsSymKept
    <3> QED
      BY <1>7, <3>1, <3>4
  <2> QED
    BY <2>2, <2>3
<1>13. SymsInv'
  <2>1. SymsJoined(start', objs', syms', SeenSyms')
    BY <1>1, <1>5, <1>7, <1>9
  <2>2. \A m \in DOMAIN ids' : IsSym(start', objs', syms', <<k', m>>, ids'[m])
    BY <1>1, <1>12
  <2> QED
    BY <1>4, <2>1, <2>2 DEF SymsInv
<1>14. FailureInv => (failure' <=> Twice(objs, SeenSyms'))
  BY <1>1, <1>4, <1>5, <1>7, <1>11 DEF FailureInv
<1> QED
  BY <1>7, <1>10, <1>13, <1>14

\* Nothing is what no objects come to.
LEMMA NothingJoined ==
  ASSUME NEW st, NEW os
  PROVE  /\ SymsJoined(st, os, <<>>, {}) /\ RefsJoined(st, os, <<>>, <<>>, {}) /\ Waits(<<>>, <<>>, <<>>)
         /\ ~Twice(os, {})
<1>1. DOMAIN <<>> = {} /\ Range(<<>>) = {}
  BY DEF Range
<1> QED
  BY <1>1 DEF SymsJoined, RefsJoined, Waits, Twice

\* That is how the loops begin.
LEMMA EndLayoutJoins ==
  ASSUME LinkInv, Good(objs), Fresh, EndLayout
  PROVE  /\ SeenSyms' = {} /\ SeenRefs' = {} /\ stage' = "object" /\ k' = 1 /\ objs' = objs
         /\ syms' = <<>> /\ reloc' = <<>> /\ undef' = <<>> /\ glob' = <<>> /\ entry' = NoEntry
         /\ failure' = FALSE
<1>1. /\ stage = "layout" /\ stage' = "object" /\ k = 1 /\ k' = k /\ objs' = objs
      /\ syms' = syms /\ reloc' = reloc /\ undef' = undef /\ glob' = glob /\ entry' = entry
      /\ failure' = failure
  BY DEF EndLayout, Fresh, search, tables
<1>2. \A d \in SymsOf(objs) : d[1] \in Nat \ {0}
  BY SymType, GoodObjects DEF Good
<1>3. \A d \in RefsOf(objs) : d[1] \in Nat \ {0}
  BY RefType, GoodObjects DEF Good
<1>4. SymsOf(objs)' = SymsOf(objs) /\ RefsOf(objs)' = RefsOf(objs)
  BY <1>1
<1> QED
  BY <1>1, <1>2, <1>3, <1>4 DEF Fresh, SeenSyms, SeenRefs

\* Steps that leave the tables of symbols as they are.
LEMMA SymsInvStep ==
  ASSUME LinkInv, SegmentsInv, Good(objs), Fresh, SymsInv, [Next]_vars
  PROVE  SymsInv'
<1>1. CASE AddSymbol
  BY <1>1, AddSymbolJoins
<1>2. CASE EndLayout
  <2>1. /\ SeenSyms' = {} /\ stage' = "object" /\ syms' = <<>>
    BY <1>2, EndLayoutJoins
  <2>2. PICK st, os : st = start' /\ os = objs'
    OBVIOUS
  <2>3. SymsJoined(st, os, <<>>, {})
    BY NothingJoined
  <2>4. SymsJoined(start', objs', syms', SeenSyms')
    BY <2>1, <2>2, <2>3
  <2>5. DOMAIN <<>> = {}
    OBVIOUS
  <2>6. GlobInv'
    BY <2>1, <2>5 DEF GlobInv
  <2> QED
    BY <2>1, <2>4, <2>6 DEF SymsInv
<1>3. CASE /\ EnterObject \/ EndSymbols \/ Relocate \/ CopySegments \/ EndObjects
              \/ PatchUndefined \/ Finish
           /\ stage' # "panic"
  <2>1. stage \in Linking
    BY <1>3 DEF Linking, EnterObject, EndSymbols, Relocate, CopySegments, EndObjects, PatchUndefined, Finish
  <2>2. SeenSyms' = SeenSyms
    BY <1>3, <2>1, SeenSymsSame
  <2>3. /\ objs' = objs /\ start' = start /\ syms' = syms /\ glob' = glob
        /\ stage' \in {"symbols", "relocs"} =>
             \/ ids' = <<>>
             \/ ids' = ids /\ k' = k /\ stage \in {"symbols", "relocs"}
    <3>1. CASE EnterObject
      BY <1>3, <3>1, EntersObject DEF search, layout
    <3>2. CASE EndSymbols \/ Relocate \/ CopySegments \/ EndObjects \/ PatchUndefined \/ Finish
      BY <1>3, <3>2 DEF EndSymbols, Relocate, CopySegments, EndObjects, PatchUndefined, Finish,
         search, layout, tables
    <3> QED
      BY <1>3, <3>1, <3>2
  <2>4. SymsJoined(start', objs', syms', SeenSyms') /\ GlobInv'
    BY <2>1, <2>2, <2>3 DEF SymsInv, GlobInv
  <2>5. stage' \in {"symbols", "relocs"} =>
          \A m \in DOMAIN ids' : IsSym(start', objs', syms', <<k', m>>, ids'[m])
    BY <2>1, <2>3 DEF SymsInv
  <2> QED
    BY <2>4, <2>5 DEF SymsInv
<1>4. CASE Include \/ EndSearch \/ LayoutSegment \/ Relink \/ stage' = "panic"
  <2>1. stage' \notin Linking \cup Ended
    BY <1>4 DEF Linking, Ended, Include, EndSearch, LayoutSegment, Relink
  <2> QED
    BY <2>1 DEF SymsInv
<1>5. CASE UNCHANGED vars
  BY <1>5 DEF vars, search, layout, tables, SymsInv, SeenSyms, GlobInv
<1> QED
  BY <1>1, <1>2, <1>3, <1>4, <1>5 DEF Next, Link

----------------------------------------------------------------------------
(* 14. The loop over the relocations *)

\* The relocation of a round: where it is and what it refers to.
LEMMA RelocateIs ==
  ASSUME LinkInv, SegmentsInv, Good(objs), SymsInv, Relocate, stage' # "panic"
  PROVE  \E e \in Reloc, d \in RefsOf(objs) :
           /\ d = <<k, j>> /\ Fits(objs, d) /\ IsRef(start, objs, syms, d, e)
           /\ reloc' = Append(reloc, e)
           /\ undef' = IF Unknown(syms[e.sym]) THEN Append(undef, e) ELSE undef
           /\ cur' = [cur EXCEPT ![e.seg] = Patch(cur[e.seg], RefAt(objs, d), syms[e.sym].loc)]
           /\ e.sym \in DOMAIN syms /\ e.seg \in DOMAIN cur /\ e.seg \in DOMAIN start
<1> USE DEF LinkInv, Types
<1> DEFINE o == objs[k]  r == o.relocs[j]  d == <<k, j>>  e == Relocated(o, r)  id == ids[r.sym]
           at == OffsetIn(o, r)
<1>1. /\ stage = "relocs" /\ j <= Len(o.relocs) /\ ~(at + 2 > Len(cur[r.seg]))
      /\ cur' = [cur EXCEPT ![r.seg] = Patch(cur[r.seg], at, syms[id].loc)]
      /\ reloc' = Append(reloc, e)
      /\ undef' = IF Unknown(syms[id]) THEN Append(undef, e) ELSE undef
  BY DEF Relocate, Relocated
<1>2. d \in RefsOf(objs)
  BY SeenRefsNext
<1>3. d[1] = k /\ d[2] = j /\ Ref(objs, d) = r
  BY DEF Ref
<1>4. /\ k \in 1 .. Len(objs) /\ k <= Len(objs) /\ AtObject /\ r.seg \in SegsOf(o)
      /\ RefSym(objs, d) \in SymsOf(objs) /\ RefAt(objs, d) \in Nat /\ RefAt(objs, d) < W
      /\ r.seg \in SegType
  <2>1. /\ d[1] \in 1 .. Len(objs) /\ Ref(objs, d).seg \in SegsOf(objs[d[1]])
        /\ RefSym(objs, d) \in SymsOf(objs) /\ RefAt(objs, d) \in Nat /\ RefAt(objs, d) < W
        /\ Ref(objs, d).seg \in SegType
    BY <1>2, RefType
  <2> QED
    BY <1>1, <1>3, <2>1, GoodObjects DEF Position, Good
<1>5. /\ r.seg \in DOMAIN cur /\ r.seg \in DOMAIN start
      /\ e \in Reloc /\ id \in DOMAIN syms
  BY <1>1, RelocatedType
<1>6. e.seg = r.seg /\ e.sym = id /\ e.loc = (at + At(r.seg)) % W
  BY DEF Relocated
<1>7. at = RefAt(objs, d)
  <2>1. PICK n \in 0 .. W - 1 : n = RefAt(objs, d)
    BY <1>4, LinkerAssumption
  <2>2. n % W = n
    BY LinkerAssumption, Remainder
  <2>3. at = RefAt(objs, d) % W
    BY <1>3 DEF OffsetIn, RefAt
  <2> QED
    BY <2>1, <2>2, <2>3
<1>8. Len(cur[r.seg]) = Len(BytesIn(o, r.seg))
  BY <1>4 DEF AtObject, BytesIn
<1>9. Fits(objs, d)
  <2>1. Len(BytesIn(o, r.seg)) \in Nat
    BY <1>4, GoodObjects DEF Good
  <2> HIDE DEF o, r, at, d
  <2> QED
    BY <1>1, <1>3, <1>4, <1>7, <1>8, <2>1 DEF Fits, o
<1> HIDE DEF o, r, at, e, id
<1>10. e.loc = start[r.seg] + Before(objs, k, r.seg) + RefAt(objs, d)
  <2>1. /\ At(r.seg) = start[r.seg] + Before(objs, k, r.seg)
        /\ start[r.seg] \in Nat /\ Before(objs, k, r.seg) \in Nat
        /\ start[r.seg] + Before(objs, k, r.seg) + Len(BytesIn(o, r.seg)) < W
    BY <1>1, <1>4, <1>5, AtIs DEF o
  <2>2. RefAt(objs, d) + 2 <= Len(BytesIn(o, r.seg)) /\ Len(BytesIn(o, r.seg)) \in Nat
    BY <1>3, <1>4, <1>9, GoodObjects DEF Fits, o, Good
  <2>3. PICK a \in Nat, b \in Nat, c \in Nat, l \in Nat :
          a = start[r.seg] /\ b = Before(objs, k, r.seg) /\ c = RefAt(objs, d) /\ l = Len(BytesIn(o, r.seg))
    BY <1>4, <2>1, <2>2
  <2>4. c + (a + b) \in 0 .. W - 1 /\ W \in Nat \ {0}
    BY <2>1, <2>2, <2>3, LinkerAssumption
  <2>5. (c + (a + b)) % W = c + (a + b)
    <3>1. PICK n \in 0 .. W - 1 : n = c + (a + b)
      BY <2>4
    <3>2. n % W = n
      BY <2>4, Remainder
    <3> QED
      BY <3>1, <3>2
  <2> QED
    BY <1>6, <1>7, <2>1, <2>3, <2>5
<1>11. IsSym(start, objs, syms, RefSym(objs, d), id)
  <2>1. r.sym \in DOMAIN ids
    <3>1. RefSym(objs, d) = <<k, r.sym>>
      BY <1>3 DEF RefSym
    <3>2. r.sym \in DOMAIN objs[k].syms
      BY <1>4, <3>1, SymType
    <3>3. Len(ids) = Len(objs[k].syms) /\ objs[k].syms \in Seq(Symbol)
      BY <1>1, <1>4, CurrentIsWellFormed, GoodObjects DEF Position, WellFormed, Good
    <3> QED
      BY <3>2, <3>3 DEF SymbolsType
  <2>2. IsSym(start, objs, syms, <<k, r.sym>>, ids[r.sym])
    BY <1>1, <2>1 DEF SymsInv, Linking
  <2> QED
    BY <1>3, <2>2 DEF RefSym, id
<1>12. IsRef(start, objs, syms, d, e)
  BY <1>3, <1>6, <1>10, <1>11 DEF IsRef
<1> QED
  BY <1>1, <1>2, <1>5, <1>6, <1>7, <1>9, <1>12

\* It joins the others.
LEMMA RelocateJoins ==
  ASSUME LinkInv, SegmentsInv, Good(objs), SymsInv, RefsInv, Relocate, stage' # "panic"
  PROVE  RefsJoined(start, objs, syms, reloc', SeenRefs') /\ Waits(syms, reloc', undef')
<1> USE DEF LinkInv, Types
<1>1. PICK e \in Reloc, d \in RefsOf(objs) :
           /\ d = <<k, j>> /\ Fits(objs, d) /\ IsRef(start, objs, syms, d, e)
           /\ reloc' = Append(reloc, e)
           /\ undef' = IF Unknown(syms[e.sym]) THEN Append(undef, e) ELSE undef
  BY RelocateIs
<1>2. /\ SeenRefs' = SeenRefs \cup {d} /\ d \in RefsOf(objs) \ SeenRefs
      /\ \A c \in SeenRefs : c[1] <= d[1]
  BY <1>1, SeenRefsNext
<1>3. PICK st, os, ys, rs, us, vs, R :
        st = start /\ os = objs /\ ys = syms /\ rs = reloc /\ us = undef /\ vs = undef' /\ R = SeenRefs
  OBVIOUS
<1>4. stage = "relocs"
  BY DEF Relocate
<1>5. \A t \in SegType : t \in DOMAIN st => st[t] \in Nat
  BY <1>3 DEF LayoutType, Addr
<1>6. \A i \in 1 .. Len(os) : SegsOf(os[i]) \subseteq DOMAIN st
  BY <1>3, <1>4, GoodObjects DEF Position, AllSegs, Good
<1>7. RefsJoined(st, os, ys, rs, R) /\ Waits(ys, rs, us)
  BY <1>3, <1>4 DEF RefsInv, Linking
<1>8. Good(os) /\ R \in SUBSET RefsOf(os) /\ rs \in Seq(Reloc) /\ us \in Seq(Reloc)
  BY <1>3 DEF SeenRefs, RelocsType
<1>9. RefsJoined(st, os, ys, Append(rs, e), R \cup {d}) /\ Waits(ys, Append(rs, e), vs)
  BY <1>1, <1>2, <1>3, <1>5, <1>6, <1>7, <1>8, RefAdded
<1> QED
  BY <1>1, <1>2, <1>3, <1>9

\* RefsInv is kept by every step.
LEMMA RefsInvStep ==
  ASSUME LinkInv, SegmentsInv, Good(objs), Fresh, SymsInv, RefsInv, [Next]_vars
  PROVE  RefsInv'
<1>1. CASE AddSymbol
  <2>1. stage \in Linking /\ stage' # "panic" /\ UNCHANGED <<start, objs, reloc, undef>>
    BY <1>1 DEF AddSymbol, Linking, search, layout
  <2>2. SeenRefs' = SeenRefs /\ Kept(syms, syms')
    BY <1>1, <2>1, SeenRefsSame, AddSymbolJoins
  <2>3. PICK st, os, ys, zs, rs, us, R :
          st = start /\ os = objs /\ ys = syms /\ zs = syms' /\ rs = reloc /\ us = undef /\ R = SeenRefs
    OBVIOUS
  <2>4. /\ Good(os) /\ R \in SUBSET RefsOf(os) /\ ys \in Seq(Symbol) /\ Kept(ys, zs)
        /\ RefsJoined(st, os, ys, rs, R) /\ Waits(ys, rs, us)
    BY <2>1, <2>2, <2>3 DEF SeenRefs, RefsInv, LinkInv, Types, SymbolsType
  <2>5. RefsJoined(st, os, zs, rs, R) /\ Waits(zs, rs, us)
    BY <2>4, RefsKept
  <2>6. RefsJoined(start', objs', syms', reloc', SeenRefs') /\ Waits(syms', reloc', undef')
    BY <2>1, <2>2, <2>3, <2>5
  <2> QED
    BY <2>6 DEF RefsInv
<1>2. CASE EndLayout
  <2>1. /\ SeenRefs' = {} /\ syms' = <<>> /\ reloc' = <<>> /\ undef' = <<>>
    BY <1>2, EndLayoutJoins
  <2>2. PICK st, os : st = start' /\ os = objs'
    OBVIOUS
  <2>3. RefsJoined(st, os, <<>>, <<>>, {}) /\ Waits(<<>>, <<>>, <<>>)
    BY NothingJoined
  <2>4. RefsJoined(start', objs', syms', reloc', SeenRefs') /\ Waits(syms', reloc', undef')
    BY <2>1, <2>2, <2>3
  <2> QED
    BY <2>4 DEF RefsInv
<1>3. CASE Relocate /\ stage' # "panic"
  <2>1. UNCHANGED <<start, objs, syms>>
    BY <1>3 DEF Relocate, search, layout
  <2>2. RefsJoined(start, objs, syms, reloc', SeenRefs') /\ Waits(syms, reloc', undef')
    BY <1>3, RelocateJoins
  <2>3. RefsJoined(start', objs', syms', reloc', SeenRefs') /\ Waits(syms', reloc', undef')
    BY <2>1, <2>2
  <2> QED
    BY <2>3 DEF RefsInv
<1>4. CASE /\ EnterObject \/ EndSymbols \/ CopySegments \/ EndObjects \/ PatchUndefined \/ Finish
           /\ stage' # "panic"
  <2>1. stage \in Linking
    BY <1>4 DEF Linking, EnterObject, EndSymbols, CopySegments, EndObjects, PatchUndefined, Finish
  <2>2. SeenRefs' = SeenRefs
    BY <1>4, <2>1, SeenRefsSame
  <2>3. UNCHANGED <<start, objs, syms, reloc, undef>>
    <3>1. CASE EnterObject
      BY <1>4, <3>1, EntersObject DEF search, layout
    <3>2. CASE EndSymbols \/ CopySegments \/ EndObjects \/ PatchUndefined \/ Finish
      BY <3>2 DEF EndSymbols, CopySegments, EndObjects, PatchUndefined, Finish, search, layout, tables
    <3> QED
      BY <1>4, <3>1, <3>2
  <2> QED
    BY <2>1, <2>2, <2>3 DEF RefsInv
<1>5. CASE Include \/ EndSearch \/ LayoutSegment \/ Relink \/ stage' = "panic"
  <2>1. stage' \notin Linking \cup Ended
    BY <1>5 DEF Linking, Ended, Include, EndSearch, LayoutSegment, Relink
  <2> QED
    BY <2>1 DEF RefsInv
<1>6. CASE UNCHANGED vars
  BY <1>6 DEF vars, search, layout, tables, RefsInv, SeenRefs
<1> QED
  BY <1>1, <1>2, <1>3, <1>4, <1>5, <1>6 DEF Next, Link

----------------------------------------------------------------------------
(* 15. The bytes *)

\* The bytes.
LEMMA WaitingIs ==
  ASSUME LinkInv, stage # "patch"
  PROVE  Waiting = Range(undef)
<1>1. DOMAIN undef = 1 .. Len(undef)
  BY DEF LinkInv, Types, RelocsType
<1> QED
  BY <1>1 DEF Waiting, Range

\* Bytes that one more relocation has been through.
LEMMA RelocateWrites ==
  ASSUME LinkInv, SegmentsInv, Good(objs), SymsInv, RefsInv, BytesInv, Relocate, stage' # "panic"
  PROVE  /\ \A i \in DOMAIN objs : i < k =>
              BytesJoined(start, objs, syms, reloc', SeenRefs', Range(undef'), i, out)
         /\ \A t \in SegsOf(objs[k]) : \A x \in DOMAIN BytesIn(objs[k], t) :
              ByteJoined(start, objs, syms, reloc', SeenRefs', Range(undef'), k, t, x, cur'[t][x])
<1> USE DEF LinkInv, Types
<1>1. PICK e \in Reloc, d \in RefsOf(objs) :
           /\ d = <<k, j>> /\ Fits(objs, d) /\ IsRef(start, objs, syms, d, e)
           /\ reloc' = Append(reloc, e)
           /\ undef' = IF Unknown(syms[e.sym]) THEN Append(undef, e) ELSE undef
           /\ cur' = [cur EXCEPT ![e.seg] = Patch(cur[e.seg], RefAt(objs, d), syms[e.sym].loc)]
           /\ e.sym \in DOMAIN syms /\ e.seg \in DOMAIN cur /\ e.seg \in DOMAIN start
  BY RelocateIs
<1>2. SeenRefs' = SeenRefs \cup {d} /\ d[1] = k
  BY <1>1, SeenRefsNext
<1>3. stage = "relocs" /\ Waiting = Range(undef)
  BY WaitingIs DEF Relocate
<1>4. PICK st, os, ys, rs, ts, R, U, V :
        /\ st = start /\ os = objs /\ ys = syms /\ rs = reloc /\ ts = reloc' /\ R = SeenRefs
        /\ U = Range(undef) /\ V = Range(undef')
  OBVIOUS
<1>5. /\ Range(rs) \subseteq Range(ts) /\ e \in Range(ts) /\ U \subseteq V
      /\ Good(os) /\ R \in SUBSET RefsOf(os) /\ d \in RefsOf(os)
  <2>1. Range(Append(reloc, e)) = Range(reloc) \cup {e} /\ Range(Append(undef, e)) = Range(undef) \cup {e}
    BY RangeAppend DEF RelocsType
  <2>2. U \subseteq V
    BY <1>1, <1>4, <2>1
  <2>3. ts = Append(reloc, e) /\ rs = reloc
    BY <1>1, <1>4
  <2> QED
    BY <1>4, <2>1, <2>2, <2>3 DEF SeenRefs
<1>6. ASSUME NEW i \in DOMAIN objs, i < k, NEW t \in SegsOf(objs[i]), NEW x \in DOMAIN BytesIn(objs[i], t)
      PROVE  ByteJoined(st, os, ys, ts, R \cup {d}, V, i, t, x, out[t][Before(objs, i, t) + x])
  <2>1. PICK b : b = out[t][Before(objs, i, t) + x]
    OBVIOUS
  <2>2. ByteJoined(st, os, ys, rs, R, U, i, t, x, b)
    BY <1>3, <1>4, <1>6, <2>1 DEF BytesInv, Linking, BytesJoined
  <2>3. i # k
    BY <1>6, GoodObjects DEF Good, CounterType
  <2>4. ~Over(os, d, i, t, x)
    BY <1>2, <2>3 DEF Over
  <2>5. ByteJoined(st, os, ys, ts, R \cup {d}, V, i, t, x, b)
    BY <1>5, <2>2, <2>4, ByteSpared
  <2> QED
    BY <2>1, <2>5
<1>7. ASSUME NEW t \in SegsOf(objs[k]), NEW x \in DOMAIN BytesIn(objs[k], t)
      PROVE  ByteJoined(st, os, ys, ts, R \cup {d}, V, k, t, x, cur'[t][x])
  <2>1. PICK b, c, bs : b = cur[t][x] /\ c = cur'[t][x] /\ bs = cur[t]
    OBVIOUS
  <2>2. ByteJoined(st, os, ys, rs, R, U, k, t, x, b)
    BY <1>3, <1>4, <2>1 DEF BytesInv
  <2>3. /\ bs \in Seq(Byte) /\ Len(bs) = Len(BytesIn(objs[k], t)) /\ x \in 1 .. Len(bs) /\ x \in Int
        /\ t \in DOMAIN cur
    <3>1. k \in DOMAIN objs /\ DOMAIN cur = SegsOf(objs[k]) /\ Len(cur[t]) = Len(objs[k].segs[t].bytes)
      BY <1>3 DEF Position, AtObject
    <3>2. BytesIn(objs[k], t) \in Seq(Byte) /\ BytesIn(objs[k], t) = objs[k].segs[t].bytes
      BY <3>1, GoodObjects DEF Good, BytesIn
    <3> QED
      BY <2>1, <3>1, <3>2 DEF BytesTypes
  <2>4. Ref(os, d).seg = e.seg
    BY <1>1, <1>4 DEF IsRef
  <2>5. PICK at \in Nat : at = RefAt(os, d)
    BY <1>5, RefType
  <2>6. Over(os, d, k, t, x) <=> e.seg = t /\ x - at \in {1, 2}
    BY <1>2, <2>4, <2>5 DEF Over
  <2>7. CASE ~Over(os, d, k, t, x)
    <3>1. c = b
      <4>1. CASE e.seg # t
        BY <1>1, <2>1, <2>3, <4>1
      <4>2. CASE e.seg = t
        <5>1. x # at + 1 /\ x # at + 2
          BY <2>3, <2>6, <2>7, <4>2
        <5>2. at + 2 <= Len(bs)
          BY <1>1, <1>2, <1>4, <2>3, <2>4, <2>5, <4>2 DEF Fits
        <5>3. PICK w : w = syms[e.sym].loc
          OBVIOUS
        <5>4. Patch(bs, at, w)[x] = bs[x]
          BY <2>3, <5>1, <5>2, PatchIs
        <5>5. cur'[t] = Patch(bs, at, w)
          BY <1>1, <1>4, <2>1, <2>5, <4>2, <5>3
        <5> QED
          BY <2>1, <5>4, <5>5
      <4> QED
        BY <4>1, <4>2
    <3>2. ByteJoined(st, os, ys, ts, R \cup {d}, V, k, t, x, b)
      BY <1>5, <2>2, <2>7, ByteSpared
    <3> QED
      BY <2>1, <3>1, <3>2
  <2>8. CASE Over(os, d, k, t, x)
    <3>1. at + 2 <= Len(bs) /\ e.seg = t /\ (x = at + 1 \/ x = at + 2)
      BY <1>1, <1>2, <1>4, <2>3, <2>4, <2>5, <2>6, <2>8 DEF Fits
    <3>2. PICK w : w = syms[e.sym].loc
      OBVIOUS
    <3>3. Patch(bs, at, w)[x] = Half(w, x - at - 1)
      <4>1. Patch(bs, at, w)[x] = IF x = at + 1 THEN Half(w, 0)
                                  ELSE IF x = at + 2 THEN Half(w, 1) ELSE bs[x]
        BY <2>3, <3>1, PatchIs
      <4>2. CASE x = at + 1
        <5>1. x - at - 1 = 0
          BY <4>2
        <5> QED
          BY <4>1, <4>2, <5>1
      <4>3. CASE x = at + 2
        <5>1. x - at - 1 = 1 /\ x # at + 1
          BY <4>3
        <5> QED
          BY <4>1, <4>3, <5>1
      <4> QED
        BY <3>1, <4>2, <4>3
    <3>4. c = Half(ys[e.sym].loc, x - RefAt(os, d) - 1)
      <4>1. cur'[t] = Patch(bs, at, w)
        BY <1>1, <1>4, <2>1, <2>5, <3>1, <3>2
      <4> QED
        BY <1>4, <2>1, <2>5, <3>2, <3>3, <4>1
    <3>5. IsRef(st, os, ys, d, e)
      BY <1>1, <1>4
    <3>6. ByteJoined(st, os, ys, ts, R \cup {d}, V, k, t, x, c)
      BY <1>5, <2>3, <2>8, <3>4, <3>5, ByteWritten
    <3> QED
      BY <2>1, <3>6
  <2> QED
    BY <2>7, <2>8
<1>8. ASSUME NEW i \in DOMAIN objs, i < k
      PROVE  BytesJoined(start, objs, syms, reloc', SeenRefs', Range(undef'), i, out)
  BY <1>2, <1>4, <1>6, <1>8 DEF BytesJoined
<1>9. ASSUME NEW t \in SegsOf(objs[k]), NEW x \in DOMAIN BytesIn(objs[k], t)
      PROVE  ByteJoined(start, objs, syms, reloc', SeenRefs', Range(undef'), k, t, x, cur'[t][x])
  BY <1>2, <1>4, <1>7
<1> QED
  BY <1>8, <1>9

\* A symbol may define what references before it are waiting for.
LEMMA AddSymbolBytes ==
  ASSUME LinkInv, SegmentsInv, Good(objs), SymsInv, RefsInv, BytesInv, AddSymbol
  PROVE  BytesInv'
<1> USE DEF LinkInv, Types
<1>1. /\ stage = "symbols" /\ stage' = "symbols" /\ k' = k
      /\ UNCHANGED <<start, objs, reloc, undef, out, cur>>
  BY DEF AddSymbol, search, layout, bytes
<1>2. /\ Waiting = Range(undef) /\ Waiting' = Range(undef)
      /\ SeenRefs' = SeenRefs /\ Kept(syms, syms')
  <2>1. SeenRefs' = SeenRefs /\ Kept(syms, syms') /\ Waiting = Range(undef)
    BY <1>1, SeenRefsSame, AddSymbolJoins, WaitingIs DEF Linking
  <2>2. Waiting' = Waiting
    BY <1>1 DEF Waiting
  <2> QED
    BY <2>1, <2>2
<1>3. PICK st, os, ys, zs, rs, us, R :
        /\ st = start /\ os = objs /\ ys = syms /\ zs = syms' /\ rs = reloc /\ us = undef /\ R = SeenRefs
  OBVIOUS
<1>4. /\ Good(os) /\ R \in SUBSET RefsOf(os) /\ ys \in Seq(Symbol) /\ Kept(ys, zs) /\ Waits(ys, rs, us)
  BY <1>1, <1>2, <1>3 DEF SeenRefs, SymbolsType, RefsInv, Linking
<1>5. ASSUME NEW i \in DOMAIN objs, i < k, NEW t \in SegsOf(objs[i]), NEW x \in DOMAIN BytesIn(objs[i], t)
      PROVE  ByteJoined(st, os, zs, rs, R, Range(us), i, t, x, out[t][Before(objs, i, t) + x])
  <2>1. PICK b : b = out[t][Before(objs, i, t) + x]
    OBVIOUS
  <2>2. ByteJoined(st, os, ys, rs, R, Range(us), i, t, x, b)
    BY <1>1, <1>2, <1>3, <1>5, <2>1 DEF BytesInv, Linking, BytesJoined
  <2>3. ByteJoined(st, os, zs, rs, R, Range(us), i, t, x, b)
    BY <1>4, <2>2, ByteKept
  <2> QED
    BY <2>1, <2>3
<1>6. ASSUME NEW t \in SegsOf(objs[k]), NEW x \in DOMAIN BytesIn(objs[k], t)
      PROVE  ByteJoined(st, os, zs, rs, R, Range(us), k, t, x, cur[t][x])
  <2>1. PICK b : b = cur[t][x]
    OBVIOUS
  <2>2. ByteJoined(st, os, ys, rs, R, Range(us), k, t, x, b)
    BY <1>1, <1>2, <1>3, <2>1 DEF BytesInv
  <2>3. ByteJoined(st, os, zs, rs, R, Range(us), k, t, x, b)
    BY <1>4, <2>2, ByteKept
  <2> QED
    BY <2>1, <2>3
<1>7. \A i \in DOMAIN objs : i < k => BytesJoined(st, os, zs, rs, R, Range(us), i, out)
  BY <1>3, <1>5 DEF BytesJoined
<1>8. \A i \in DOMAIN objs' : i < k' =>
        BytesJoined(start', objs', syms', reloc', SeenRefs', Waiting', i, out')
  BY <1>1, <1>2, <1>3, <1>7
<1>9. \A t \in SegsOf(objs'[k']) : \A x \in DOMAIN BytesIn(objs'[k'], t) :
        ByteJoined(start', objs', syms', reloc', SeenRefs', Waiting', k', t, x, cur'[t][x])
  BY <1>1, <1>2, <1>3, <1>6
<1> QED
  BY <1>1, <1>8, <1>9 DEF BytesInv, Ended

\* A new object starts with its own bytes, none of them changed.
LEMMA EnterObjectBytes ==
  ASSUME LinkInv, Good(objs), BytesInv, EnterObject, stage' # "panic"
  PROVE  BytesInv'
<1> USE DEF LinkInv, Types
<1>1. /\ stage = "object" /\ stage' = "symbols" /\ k' = k
      /\ cur' = [t \in SegsOf(objs[k]) |-> objs[k].segs[t].bytes]
      /\ UNCHANGED <<start, objs, syms, reloc, undef, out>>
  BY EntersObject DEF search, layout
<1>2. Waiting' = Waiting /\ SeenRefs' = SeenRefs
  BY <1>1, SeenRefsSame DEF Waiting, Linking
<1>3. \A i \in DOMAIN objs' : i < k' =>
        BytesJoined(start', objs', syms', reloc', SeenRefs', Waiting', i, out')
  BY <1>1, <1>2 DEF BytesInv, Linking
<1>4. ASSUME NEW t \in SegsOf(objs[k]), NEW x \in DOMAIN BytesIn(objs[k], t)
      PROVE  ByteJoined(start, objs, syms, reloc, SeenRefs, Waiting, k, t, x, cur'[t][x])
  <2>1. cur'[t] = BytesIn(objs[k], t)
    BY <1>1 DEF BytesIn
  <2>2. ASSUME NEW d \in SeenRefs PROVE ~Over(objs, d, k, t, x)
    <3>1. d[1] < k /\ d[1] \in Nat
      BY <1>1, <2>2, RefType DEF SeenRefs
    <3> QED
      BY <3>1 DEF Over, CounterType
  <2> QED
    BY <2>1, <2>2 DEF ByteJoined
<1>5. \A t \in SegsOf(objs'[k']) : \A x \in DOMAIN BytesIn(objs'[k'], t) :
        ByteJoined(start', objs', syms', reloc', SeenRefs', Waiting', k', t, x, cur'[t][x])
  BY <1>1, <1>2, <1>4
<1> QED
  BY <1>1, <1>3, <1>5 DEF BytesInv, Ended

\* A byte in front of, or in, the second of two sequences.
LEMMA JoinedByte ==
  ASSUME NEW S, NEW bs \in Seq(S), NEW cs \in Seq(S)
  PROVE  /\ \A x \in 1 .. Len(bs) : (bs \o cs)[x] = bs[x]
         /\ \A x \in 1 .. Len(cs) : (bs \o cs)[Len(bs) + x] = cs[x]
<1>1. PICK m \in Nat, n \in Nat : m = Len(bs) /\ n = Len(cs)
  OBVIOUS
<1>2. \A z \in 1 .. m + n : (bs \o cs)[z] = IF z <= m THEN bs[z] ELSE cs[z - m]
  BY <1>1, ConcatProperties
<1>3. ASSUME NEW x \in 1 .. m PROVE (bs \o cs)[x] = bs[x]
  <2>1. x \in 1 .. m + n /\ x <= m
    OBVIOUS
  <2> QED
    BY <1>2, <2>1
<1>4. ASSUME NEW x \in 1 .. n PROVE (bs \o cs)[m + x] = cs[x]
  <2>1. PICK z \in 1 .. m + n : z = m + x /\ ~(z <= m) /\ z - m = x
    OBVIOUS
  <2> QED
    BY <1>2, <2>1
<1> QED
  BY <1>1, <1>3, <1>4

\* The finished object is copied behind the others.
LEMMA CopySegmentsBytes ==
  ASSUME LinkInv, SegmentsInv, Good(objs), BytesInv, CopySegments
  PROVE  BytesInv'
<1> USE DEF LinkInv, Types
<1>1. /\ stage = "relocs" /\ stage' = "object" /\ k' = k + 1
      /\ out' = [t \in DOMAIN out |-> IF t \in DOMAIN cur THEN out[t] \o cur[t] ELSE out[t]]
      /\ UNCHANGED <<start, objs, syms, reloc, undef>>
  BY DEF CopySegments, search, layout, tables
<1>2. Waiting' = Waiting /\ SeenRefs' = SeenRefs
  BY <1>1, SeenRefsSame DEF Waiting, Linking
<1>3. /\ k \in DOMAIN objs /\ k \in 1 .. Len(objs) /\ k <= Len(objs) /\ DOMAIN cur = SegsOf(objs[k])
      /\ Objects(objs) /\ k \in Nat
  BY <1>1, GoodObjects DEF Position, AtObject, Good, CounterType
<1>4. ASSUME NEW t \in DOMAIN start
      PROVE  /\ Len(out[t]) = Before(objs, k, t) /\ out[t] \in Seq(Byte) /\ t \in DOMAIN out
             /\ t \in DOMAIN cur => cur[t] \in Seq(Byte)
  BY <1>1, <1>3, AtIs DEF BytesTypes
<1>5. ASSUME NEW i \in DOMAIN objs, i < k, NEW t \in SegsOf(objs[i]), NEW x \in DOMAIN BytesIn(objs[i], t)
      PROVE  out'[t][Before(objs, i, t) + x] = out[t][Before(objs, i, t) + x]
  <2>1. t \in DOMAIN start
    BY <1>1 DEF Position, AllSegs
  <2>2. Before(objs, i, t) + x \in 1 .. Len(out[t])
    <3>1. i \in 1 .. Len(objs) /\ i \in 1 .. Len(objs) + 1 /\ k \in i + 1 .. Len(objs) + 1
      BY <1>3, <1>5, GoodObjects
    <3>2. Before(objs, i, t) + Len(BytesIn(objs[i], t)) <= Before(objs, k, t)
      BY <1>3, <3>1, BeforeGrows
    <3>3. BytesIn(objs[i], t) \in Seq(Byte) /\ Before(objs, i, t) \in Nat
      BY <1>3, <3>1, GoodObjects, BeforeType
    <3>4. x \in 1 .. Len(BytesIn(objs[i], t)) /\ Len(BytesIn(objs[i], t)) \in Nat
      BY <3>3
    <3>5. Len(out[t]) = Before(objs, k, t) /\ Len(out[t]) \in Nat
      BY <1>4, <2>1
    <3> QED
      BY <3>2, <3>3, <3>4, <3>5
  <2>3. CASE t \in DOMAIN cur
    <3>1. out'[t] = out[t] \o cur[t] /\ out[t] \in Seq(Byte) /\ cur[t] \in Seq(Byte)
      BY <1>1, <1>4, <2>1, <2>3
    <3> QED
      BY <2>2, <3>1, JoinedByte
  <2>4. CASE t \notin DOMAIN cur
    BY <1>1, <1>4, <2>1, <2>4
  <2> QED
    BY <2>3, <2>4
<1>6. ASSUME NEW t \in SegsOf(objs[k]), NEW x \in DOMAIN BytesIn(objs[k], t)
      PROVE  out'[t][Before(objs, k, t) + x] = cur[t][x]
  <2>1. t \in DOMAIN start /\ t \in DOMAIN cur
    BY <1>1, <1>3 DEF Position, AllSegs
  <2>2. out'[t] = out[t] \o cur[t] /\ out[t] \in Seq(Byte) /\ cur[t] \in Seq(Byte)
    BY <1>1, <1>4, <2>1
  <2>3. x \in 1 .. Len(cur[t])
    <3>1. Len(cur[t]) = Len(BytesIn(objs[k], t)) /\ BytesIn(objs[k], t) \in Seq(Byte)
      BY <1>1, <1>3, GoodObjects DEF Position, AtObject, BytesIn
    <3> QED
      BY <3>1
  <2> QED
    BY <1>4, <2>1, <2>2, <2>3, JoinedByte
<1>7. ASSUME NEW i \in DOMAIN objs, i < k + 1
      PROVE  BytesJoined(start, objs, syms, reloc, SeenRefs, Waiting, i, out')
  <2>1. i \in Nat
    BY <1>3, GoodObjects
  <2>2. CASE i < k
    <3>1. BytesJoined(start, objs, syms, reloc, SeenRefs, Waiting, i, out)
      BY <1>1, <2>2 DEF BytesInv, Linking
    <3> QED
      BY <1>5, <2>2, <3>1 DEF BytesJoined
  <2>3. CASE i = k
    <3>1. ASSUME NEW t \in SegsOf(objs[k]), NEW x \in DOMAIN BytesIn(objs[k], t)
          PROVE  ByteJoined(start, objs, syms, reloc, SeenRefs, Waiting, k, t, x,
                            out'[t][Before(objs, k, t) + x])
      <4>1. ByteJoined(start, objs, syms, reloc, SeenRefs, Waiting, k, t, x, cur[t][x])
        BY <1>1 DEF BytesInv
      <4>2. PICK b : b = cur[t][x] /\ b = out'[t][Before(objs, k, t) + x]
        BY <1>6
      <4> QED
        BY <4>1, <4>2
    <3>2. BytesJoined(start, objs, syms, reloc, SeenRefs, Waiting, k, out')
      BY <3>1 DEF BytesJoined
    <3> QED
      BY <2>3, <3>2
  <2> QED
    BY <1>3, <1>7, <2>1, <2>2, <2>3
<1>8. \A i \in DOMAIN objs' : i < k' =>
        BytesJoined(start', objs', syms', reloc', SeenRefs', Waiting', i, out')
  BY <1>1, <1>2, <1>7
<1> QED
  BY <1>1, <1>8 DEF BytesInv, Ended

\* Where relocation r of the output is, and the address that is written there.
LEMMA PatchedAt ==
  ASSUME LinkInv, SegmentsInv, Good(objs), RefsInv, stage = "patch", j <= Len(undef),
         NEW r, r = undef[j]
  PROVE  /\ r \in Range(reloc) /\ r \in Reloc /\ r.seg \in DOMAIN start /\ r.sym \in DOMAIN syms
         /\ \E d \in RefsOf(objs) :
              /\ d \in SeenRefs /\ Fits(objs, d) /\ IsRef(start, objs, syms, d, r)
              /\ (r.loc - start[r.seg]) % W = Before(objs, d[1], r.seg) + RefAt(objs, d)
              /\ Before(objs, d[1], r.seg) + RefAt(objs, d) \in Nat
              /\ Before(objs, d[1], r.seg) + RefAt(objs, d) + 2 <= Len(out[r.seg])
<1> USE DEF LinkInv, Types
<1>1. r \in Range(undef) /\ r \in Reloc
  BY DEF RelocsType, CounterType, Range
<1>2. r.seg \in DOMAIN start /\ r.sym \in DOMAIN syms
  BY <1>1 DEF RelocsType
<1>3. RefsJoined(start, objs, syms, reloc, SeenRefs) /\ Waits(syms, reloc, undef)
  BY DEF RefsInv, Linking
<1>4. r \in Range(reloc)
  BY <1>1, <1>3 DEF Waits
<1>5. PICK d \in SeenRefs : IsRef(start, objs, syms, d, r) /\ Fits(objs, d)
  BY <1>3, <1>4 DEF RefsJoined
<1>6. PICK t : t = r.seg
  OBVIOUS
<1>7. /\ d \in RefsOf(objs) /\ d[1] \in 1 .. Len(objs) /\ RefAt(objs, d) \in Nat
      /\ Ref(objs, d).seg = t /\ r.loc = start[t] + Before(objs, d[1], t) + RefAt(objs, d)
      /\ RefAt(objs, d) + 2 <= Len(BytesIn(objs[d[1]], t))
  <2>1. d \in RefsOf(objs)
    BY DEF SeenRefs
  <2>2. d[1] \in 1 .. Len(objs) /\ RefAt(objs, d) \in Nat
    BY <2>1, RefType
  <2> QED
    BY <1>5, <1>6, <2>1, <2>2 DEF IsRef, Fits
<1>8. Objects(objs) /\ Len(objs) \in Nat
  BY GoodObjects DEF Good
<1>9. /\ d[1] \in 1 .. Len(objs) + 1 /\ Len(objs) + 1 \in d[1] + 1 .. Len(objs) + 1
      /\ Len(objs) + 1 \in 1 .. Len(objs) + 1
  BY <1>7, <1>8
<1>10. PICK b \in Nat, q \in Nat, l \in Nat, m \in Nat, a \in Nat :
         /\ b = Before(objs, d[1], t) /\ q = RefAt(objs, d) /\ l = Len(BytesIn(objs[d[1]], t))
         /\ m = Before(objs, Len(objs) + 1, t) /\ a = start[t]
  <2>1. Before(objs, d[1], t) \in Nat /\ Before(objs, Len(objs) + 1, t) \in Nat
    BY <1>8, <1>9, BeforeType
  <2>2. Len(BytesIn(objs[d[1]], t)) \in Nat
    BY <1>7, <1>8, GoodObjects
  <2>3. start[t] \in Nat
    BY <1>2, <1>6 DEF LayoutType, Addr
  <2> QED
    BY <1>7, <2>1, <2>2, <2>3
<1>11. b + l <= m
  BY <1>7, <1>8, <1>9, <1>10, BeforeGrows
<1>12. Len(out[t]) = m /\ a + m < W
  <2>1. Len(out[t]) = lengths[t] /\ start[t] + lengths[t] <= lastEnd /\ lastEnd \in Addr
    BY <1>2, <1>6 DEF SegmentsInv, Filling, Placing, LayoutType
  <2>2. lengths[t] = Len(Taken(t, Len(objs)))
    BY <1>2, <1>6, <1>8, LengthsAre DEF Position
  <2>3. Len(Taken(t, Len(objs))) = m
    BY <1>8, <1>10, TakenIsBefore
  <2> QED
    BY <1>10, <2>1, <2>2, <2>3, LinkerAssumption DEF Addr
<1>13. q + 2 <= l
  BY <1>7, <1>10
<1>14. (r.loc - start[t]) % W = b + q
  <2>1. PICK n \in 0 .. W - 1 : n = b + q
    BY <1>11, <1>12, <1>13, LinkerAssumption
  <2>2. r.loc = a + b + q
    BY <1>7, <1>10
  <2>3. r.loc - start[t] = n
    BY <1>10, <2>1, <2>2
  <2>4. n % W = n
    BY LinkerAssumption, Remainder
  <2> QED
    BY <2>1, <2>3, <2>4
<1>15. b + q \in Nat /\ b + q + 2 <= Len(out[t])
  BY <1>11, <1>12, <1>13
<1>16. PICK c \in RefsOf(objs) : c = d
  BY <1>7
<1> QED
  BY <1>1, <1>2, <1>4, <1>5, <1>6, <1>10, <1>14, <1>15, <1>16

\* The references that are still waited for, after one round.
LEMMA WaitingNext ==
  ASSUME LinkInv, PatchUndefined
  PROVE  Waiting \subseteq Waiting' \cup {undef[j]} /\ Waiting' \subseteq Waiting
<1>1. stage = "patch" /\ stage' = "patch" /\ j' = j + 1 /\ undef' = undef
  BY DEF PatchUndefined, tables
<1>2. Waiting = {undef[q] : q \in j .. Len(undef)} /\ Waiting' = {undef[q] : q \in j + 1 .. Len(undef)}
  BY <1>1 DEF Waiting
<1>3. j \in Nat /\ Len(undef) \in Nat
  BY DEF LinkInv, Types, CounterType, RelocsType
<1>4. \A q \in j .. Len(undef) : q = j \/ q \in j + 1 .. Len(undef)
  BY <1>3
<1>5. \A q \in j + 1 .. Len(undef) : q \in j .. Len(undef)
  BY <1>3
<1> QED
  BY <1>2, <1>4, <1>5

\* So each round of the patching makes a reference less to wait for.
LEMMA PatchUndefinedBytes ==
  ASSUME LinkInv, SegmentsInv, Good(objs), SymsInv, RefsInv, BytesInv, FailureInv, PatchUndefined
  PROVE  BytesInv'
<1> USE DEF LinkInv, Types
<1>1. /\ stage = "patch" /\ stage' = "patch" /\ k' = k /\ j <= Len(undef)
      /\ UNCHANGED <<start, objs, syms, reloc, undef>>
  BY DEF PatchUndefined, search, layout, tables
<1>2. PICK r : r = undef[j]
  OBVIOUS
<1>3. /\ r \in Range(reloc) /\ r \in Reloc /\ r.seg \in DOMAIN start /\ r.sym \in DOMAIN syms
  BY <1>1, <1>2, PatchedAt
<1>4. PICK d \in RefsOf(objs) :
              /\ d \in SeenRefs /\ Fits(objs, d) /\ IsRef(start, objs, syms, d, r)
              /\ (r.loc - start[r.seg]) % W = Before(objs, d[1], r.seg) + RefAt(objs, d)
              /\ Before(objs, d[1], r.seg) + RefAt(objs, d) \in Nat
              /\ Before(objs, d[1], r.seg) + RefAt(objs, d) + 2 <= Len(out[r.seg])
  BY <1>1, <1>2, PatchedAt
<1>5. SeenRefs' = SeenRefs /\ Waiting \subseteq Waiting' \cup {r} /\ Waiting' \subseteq Waiting
  BY <1>1, <1>2, SeenRefsSame, WaitingNext DEF Linking
<1>6. PICK st, os, ys, rs, R, U, V, at, w, u :
        /\ st = start /\ os = objs /\ ys = syms /\ rs = reloc /\ R = SeenRefs
        /\ U = Waiting /\ V = Waiting' /\ w = syms[r.sym].loc /\ u = r.seg
        /\ at = Before(objs, d[1], r.seg) + RefAt(objs, d)
  OBVIOUS
<1>7. /\ \/ Unknown(syms[r.sym]) /\ out' = out
         \/ ~Unknown(syms[r.sym]) /\ out' = [out EXCEPT ![u] = Patch(out[u], at, w)]
      /\ out[u] \in Seq(Byte) /\ at \in Nat /\ at + 2 <= Len(out[u]) /\ u \in DOMAIN out
  BY <1>1, <1>2, <1>3, <1>4, <1>6 DEF PatchUndefined, BytesTypes
<1>8. ASSUME NEW i \in DOMAIN objs, i < k, NEW t \in SegsOf(objs[i]), NEW x \in DOMAIN BytesIn(objs[i], t)
      PROVE  ByteJoined(st, os, ys, rs, R, V, i, t, x, out'[t][Before(objs, i, t) + x])
  <2>1. PICK b, c, p : /\ p = Before(objs, i, t) + x /\ b = out[t][p] /\ c = out'[t][p]
    OBVIOUS
  <2>2. ByteJoined(st, os, ys, rs, R, U, i, t, x, b)
    BY <1>1, <1>6, <1>8, <2>1 DEF BytesInv, Linking, BytesJoined
  <2>3. U \subseteq V \cup {r}
    BY <1>5, <1>6
  <2>4. CASE Unknown(ys[r.sym])
    <3>1. c = b
      BY <1>6, <1>7, <2>1, <2>4
    <3>2. ByteJoined(st, os, ys, rs, R, V, i, t, x, b)
      BY <2>2, <2>3, <2>4, ByteAwaits
    <3> QED
      BY <2>1, <3>1, <3>2
  <2>5. CASE ~Unknown(ys[r.sym])
    <3>1. out' = [out EXCEPT ![u] = Patch(out[u], at, w)]
      BY <1>6, <1>7, <2>5
    <3>2. /\ i \in 1 .. Len(objs) /\ Objects(objs) /\ x \in 1 .. Len(BytesIn(objs[i], t))
          /\ x \in Nat /\ Before(objs, i, t) \in Nat
      <4>1. Objects(objs) /\ i \in 1 .. Len(objs) /\ i \in 1 .. Len(objs) + 1
        BY <1>8, GoodObjects DEF Good
      <4>2. BytesIn(objs[i], t) \in Seq(Byte) /\ Before(objs, i, t) \in Nat
        BY <4>1, GoodObjects, BeforeType
      <4> QED
        BY <4>1, <4>2
    <3>3. PICK q \in Nat, h \in Nat, m \in Nat :
            q = RefAt(objs, d) /\ h = Before(objs, d[1], u) /\ m = Before(objs, i, t) /\ at = h + q
      <4>1. RefAt(objs, d) \in Nat /\ d[1] \in 1 .. Len(objs)
        BY RefType
      <4>2. d[1] \in 1 .. Len(objs) + 1
        BY <3>2, <4>1, GoodObjects
      <4>3. Before(objs, d[1], u) \in Nat
        BY <3>2, <4>2, BeforeType
      <4> QED
        BY <1>6, <3>2, <4>1, <4>3
    <3>7. p = m + x /\ p \in Nat /\ x \in Nat /\ m \in Nat /\ at \in Nat
      BY <1>7, <2>1, <3>2, <3>3
    <3>4. d[1] \in 1 .. Len(objs) /\ Ref(objs, d).seg = u /\ q + 2 <= Len(BytesIn(objs[d[1]], u))
      BY <1>4, <1>6, <3>3, RefType DEF IsRef, Fits
    <3>5. CASE t = u /\ p - at \in {1, 2}
      <4>0. PICK z \in 1 .. 2 : z = p - at
        BY <3>5
      <4>9. p = at + z
        BY <3>7, <4>0
      <4>10. at = h + q
        BY <3>3
      <4>1. PICK y \in 1 .. Len(BytesIn(objs[d[1]], u)) : y = q + z
        <5>1. PICK l \in Nat : l = Len(BytesIn(objs[d[1]], u))
          BY <3>2, <3>4, GoodObjects
        <5>2. q + 2 <= l
          BY <3>4, <5>1
        <5>3. q + z \in 1 .. l
          BY <5>2
        <5> QED
          BY <5>1, <5>3
      <4>2. m + x = h + y
        BY <3>7, <4>1, <4>9, <4>10
      <4>3. i = d[1] /\ x = y
        <5>1. y \in 1 .. Len(BytesIn(objs[d[1]], t)) /\ Before(objs, i, t) + x = Before(objs, d[1], t) + y
          BY <3>3, <3>5, <4>1, <4>2
        <5> QED
          BY <3>2, <3>4, <5>1, PlaceIsUnique
      <4>4. Over(os, d, i, t, x) /\ x - q = p - at
        <5>1. x - q = z
          BY <4>1, <4>3
        <5> QED
          BY <1>6, <3>3, <3>4, <3>5, <4>0, <4>3, <5>1 DEF Over
      <4>5. c = Half(w, x - q - 1)
        <5>1. out'[t] = Patch(out[u], at, w)
          BY <1>7, <3>1, <3>5
        <5>2. p \in 1 .. Len(out[u])
          <6>1. PICK l \in Nat : l = Len(out[u])
            BY <1>7
          <6> QED
            BY <1>7, <3>7, <4>9, <6>1
        <5>3. Patch(out[u], at, w)[p] = IF p = at + 1 THEN Half(w, 0)
                                        ELSE IF p = at + 2 THEN Half(w, 1) ELSE out[u][p]
          BY <1>7, <5>2, PatchIs
        <5>4. CASE p = at + 1
          <6>1. x - q - 1 = 0
            BY <3>7, <4>4, <5>4
          <6> QED
            BY <2>1, <5>1, <5>3, <5>4, <6>1
        <5>5. CASE p = at + 2
          <6>1. x - q - 1 = 1 /\ p # at + 1
            BY <3>7, <4>4, <5>5
          <6> QED
            BY <2>1, <5>1, <5>3, <5>5, <6>1
        <5> QED
          BY <4>0, <4>9, <5>4, <5>5
      <4>6. /\ Good(os) /\ R \in SUBSET RefsOf(os) /\ d \in RefsOf(os) /\ x \in Int /\ r \in Range(rs)
            /\ IsRef(st, os, ys, d, r) /\ c = Half(ys[r.sym].loc, x - RefAt(os, d) - 1) /\ R = R \cup {d}
        <5>1. Good(os) /\ R \in SUBSET RefsOf(os) /\ d \in RefsOf(os) /\ r \in Range(rs)
          BY <1>3, <1>6 DEF SeenRefs
        <5>2. IsRef(st, os, ys, d, r) /\ d \in R
          BY <1>4, <1>6
        <5>3. c = Half(ys[r.sym].loc, x - RefAt(os, d) - 1)
          BY <1>6, <3>3, <4>5
        <5>4. R = R \cup {d}
          BY <5>2
        <5> QED
          BY <3>7, <5>1, <5>2, <5>3, <5>4
      <4>7. ByteJoined(st, os, ys, rs, R \cup {d}, V, i, t, x, c)
        BY <4>4, <4>6, ByteWritten
      <4> QED
        BY <2>1, <4>6, <4>7
    <3>6. CASE ~(t = u /\ p - at \in {1, 2})
      <4>1. c = b
        <5>1. CASE t # u
          BY <2>1, <3>1, <5>1
        <5>2. CASE t = u
          <6>1. p # at + 1 /\ p # at + 2 /\ p \in Int
            BY <3>3, <3>6, <3>7, <5>2
          <6>2. out'[t] = [[out[u] EXCEPT ![at + 1] = Half(w, 0)] EXCEPT ![at + 2] = Half(w, 1)]
            BY <1>7, <3>1, <5>2 DEF Patch
          <6>3. PICK f, a1, a2 : f = out[u] /\ a1 = at + 1 /\ a2 = at + 2 /\ p # a1 /\ p # a2
            BY <6>1
          <6>4. p \in DOMAIN out[u]
            <7>1. p \in 1 .. Len(out[u])
              <8>1. p \in 1 .. Before(objs, Len(objs) + 1, t)
                <9>1. /\ Len(objs) \in Nat /\ Len(objs) + 1 \in i + 1 .. Len(objs) + 1
                      /\ Len(objs) + 1 \in 1 .. Len(objs) + 1
                  BY <3>2, GoodObjects
                <9>2. /\ Before(objs, i, t) + Len(BytesIn(objs[i], t)) <= Before(objs, Len(objs) + 1, t)
                      /\ Before(objs, Len(objs) + 1, t) \in Nat /\ Len(BytesIn(objs[i], t)) \in Nat
                  BY <3>2, <9>1, BeforeGrows, BeforeType, GoodObjects
                <9> QED
                  BY <2>1, <3>2, <9>2
              <8>2. Len(out[u]) = Before(objs, Len(objs) + 1, t)
                <9>1. Len(out[u]) = lengths[u] /\ u \in AllSegs
                  BY <1>1, <1>3, <1>6 DEF SegmentsInv, Filling, Position
                <9>2. lengths[u] = Len(Taken(u, Len(objs)))
                  BY <1>1, <3>2, <9>1, LengthsAre DEF Position
                <9>3. Len(Taken(u, Len(objs))) = Before(objs, Len(objs) + 1, u)
                  BY <3>2, GoodObjects, TakenIsBefore
                <9> QED
                  BY <5>2, <9>1, <9>2, <9>3
              <8> QED
                BY <8>1, <8>2
            <7> QED
              BY <1>7, <7>1
          <6> QED
            BY <2>1, <5>2, <6>2, <6>3, <6>4
        <5> QED
          BY <5>1, <5>2
      <4>2. ASSUME NEW e \in R, Over(os, e, i, t, x), IsRef(st, os, ys, e, r) PROVE FALSE
        <5>1. e[1] = i /\ Ref(os, e).seg = t /\ t = u /\ x - RefAt(os, e) \in {1, 2}
          BY <1>6, <4>2 DEF Over, IsRef
        <5>2. r.loc = st[u] + Before(os, i, u) + RefAt(os, e) /\ r.loc = st[u] + Before(os, d[1], u) + RefAt(os, d)
          BY <1>4, <1>6, <4>2, <5>1 DEF IsRef
        <5>3. PICK f \in Nat, s \in Nat : f = RefAt(os, e) /\ s = st[u]
          <6>1. RefAt(os, e) \in Nat
            BY <1>6, RefType DEF SeenRefs
          <6> QED
            BY <1>3, <1>6, <6>1 DEF LayoutType, Addr
        <5>4. s + m + f = s + h + q
          BY <1>6, <3>3, <5>1, <5>2, <5>3
        <5>5. p = m + x /\ x - f \in {1, 2}
          BY <3>7, <5>1, <5>3
        <5>6. p - at \in {1, 2}
          <6>1. m + f = h + q
            BY <3>3, <3>7, <5>3, <5>4
          <6>2. p - at = x - f
            BY <3>3, <3>7, <5>3, <5>5, <6>1
          <6> QED
            BY <5>5, <6>2
        <5> QED
          BY <3>6, <5>1, <5>6
      <4>3. ByteJoined(st, os, ys, rs, R, V, i, t, x, b)
        BY <2>2, <2>3, <4>2, ByteAwaits
      <4> QED
        BY <2>1, <4>1, <4>3
    <3> QED
      BY <3>5, <3>6
  <2> QED
    BY <2>4, <2>5
<1>9. \A i \in DOMAIN objs' : i < k' =>
        BytesJoined(start', objs', syms', reloc', SeenRefs', Waiting', i, out')
  BY <1>1, <1>5, <1>6, <1>8 DEF BytesJoined
<1> QED
  BY <1>1, <1>9 DEF BytesInv, Ended

\* BytesInv is kept by every step.
LEMMA BytesInvStep ==
  ASSUME LinkInv, SegmentsInv, Good(objs), Fresh, SymsInv, RefsInv, BytesInv, FailureInv, [Next]_vars
  PROVE  BytesInv'
<1> USE DEF LinkInv, Types
<1>1. CASE AddSymbol
  BY <1>1, AddSymbolBytes
<1>2. CASE EnterObject /\ stage' # "panic"
  BY <1>2, EnterObjectBytes
<1>3. CASE CopySegments
  BY <1>3, CopySegmentsBytes
<1>4. CASE PatchUndefined
  BY <1>4, PatchUndefinedBytes
<1>5. CASE Relocate /\ stage' # "panic"
  <2>1. /\ stage = "relocs" /\ stage' = "relocs" /\ UNCHANGED <<k, start, objs, syms, out>>
    BY <1>5 DEF Relocate, search, layout
  <2>2. /\ \A i \in DOMAIN objs : i < k =>
              BytesJoined(start, objs, syms, reloc', SeenRefs', Range(undef'), i, out)
        /\ \A t \in SegsOf(objs[k]) : \A x \in DOMAIN BytesIn(objs[k], t) :
              ByteJoined(start, objs, syms, reloc', SeenRefs', Range(undef'), k, t, x, cur'[t][x])
    BY <1>5, RelocateWrites
  <2>3. Waiting' = Range(undef')
    <3>1. undef' \in Seq(Reloc)
      BY <1>5, RelocateCorrect DEF RelocsType
    <3>2. DOMAIN undef' = 1 .. Len(undef')
      BY <3>1
    <3> QED
      BY <2>1, <3>2 DEF Waiting, Range
  <2>4. \A i \in DOMAIN objs' : i < k' =>
          BytesJoined(start', objs', syms', reloc', SeenRefs', Waiting', i, out')
    BY <2>1, <2>2, <2>3
  <2>5. \A t \in SegsOf(objs'[k']) : \A x \in DOMAIN BytesIn(objs'[k'], t) :
          ByteJoined(start', objs', syms', reloc', SeenRefs', Waiting', k', t, x, cur'[t][x])
    BY <2>1, <2>2, <2>3
  <2> QED
    BY <2>1, <2>4, <2>5 DEF BytesInv, Ended
<1>6. CASE EndLayout
  <2>1. stage' = "object" /\ k' = 1 /\ objs' = objs
    BY <1>6, EndLayoutJoins
  <2>2. \A i \in DOMAIN objs' : ~(i < k')
    BY <2>1, GoodObjects DEF Good
  <2> QED
    BY <2>1, <2>2 DEF BytesInv, Ended
<1>7. CASE EndSymbols \/ EndObjects
  <2>1. /\ \/ stage = "symbols" /\ stage' = "relocs"
           \/ stage = "object" /\ stage' = "patch" /\ j' = 1
        /\ UNCHANGED <<k, start, objs, syms, reloc, undef, out, cur>>
    BY <1>7 DEF EndSymbols, EndObjects, search, layout, tables, bytes
  <2>2. SeenRefs' = SeenRefs /\ Waiting' = Waiting
    BY <1>7, <2>1, SeenRefsSame DEF Waiting, Linking
  <2>3. \A i \in DOMAIN objs' : i < k' =>
          BytesJoined(start', objs', syms', reloc', SeenRefs', Waiting', i, out')
    BY <2>1, <2>2 DEF BytesInv, Linking
  <2>4. stage' = "relocs" => \A t \in SegsOf(objs'[k']) : \A x \in DOMAIN BytesIn(objs'[k'], t) :
          ByteJoined(start', objs', syms', reloc', SeenRefs', Waiting', k', t, x, cur'[t][x])
    BY <2>1, <2>2 DEF BytesInv
  <2> QED
    BY <2>1, <2>3, <2>4 DEF BytesInv, Ended
<1>8. CASE Finish
  <2>1. /\ stage = "patch" /\ stage' \in Ended /\ j > Len(undef)
        /\ UNCHANGED <<k, start, objs, syms, reloc, undef, out, cur>>
    BY <1>8 DEF Finish, Ended, search, layout, tables, bytes
  <2>2. SeenRefs' = SeenRefs
    <3>1. stage' # "panic"
      BY <2>1 DEF Ended
    <3> QED
      BY <1>8, <2>1, <3>1, SeenRefsSame DEF Linking
  <2>3. Waiting = {}
    <3>1. j \in Nat /\ Len(undef) \in Nat
      BY DEF CounterType, RelocsType
    <3>2. j .. Len(undef) = {}
      BY <2>1, <3>1
    <3> QED
      BY <2>1, <3>2 DEF Waiting
  <2>4. k = Len(objs) + 1 /\ DOMAIN objs = 1 .. Len(objs) /\ Len(objs) \in Nat
    BY <2>1, GoodObjects DEF FailureInv, Good
  <2>5. \A i \in DOMAIN objs : i < k
    BY <2>4
  <2>6. \A i \in DOMAIN objs' : BytesJoined(start', objs', syms', reloc', SeenRefs', {}, i, out')
    BY <2>1, <2>2, <2>3, <2>5 DEF BytesInv, Linking
  <2> QED
    BY <2>1, <2>6 DEF BytesInv, Ended, Linking
<1>9. CASE Include \/ EndSearch \/ LayoutSegment \/ Relink \/ stage' = "panic"
  <2>1. stage' \notin Linking \cup Ended
    BY <1>9 DEF Linking, Ended, Include, EndSearch, LayoutSegment, Relink
  <2>2. stage' \notin {"symbols", "relocs"}
    BY <2>1 DEF Linking
  <2> QED
    BY <2>1, <2>2 DEF BytesInv
<1>10. CASE UNCHANGED vars
  BY <1>10 DEF vars, search, layout, tables, bytes, BytesInv, SeenRefs, Waiting
<1> QED
  BY <1>1, <1>2, <1>3, <1>4, <1>5, <1>6, <1>7, <1>8, <1>9, <1>10 DEF Next, Link

----------------------------------------------------------------------------
(* 16. The entry point and the verdict *)

\* The entry point and the result.
LEMMA EntryInvStep ==
  ASSUME LinkInv, SegmentsInv, Good(objs), Fresh, EntryInv, FailureInv, [Next]_vars
  PROVE  EntryInv'
<1> USE DEF LinkInv, Types
<1>0. Objects(objs) /\ Len(objs) \in Nat /\ DOMAIN objs = 1 .. Len(objs) /\ k \in Nat \ {0}
  BY GoodObjects DEF Good, CounterType
<1>1. CASE EndLayout
  <2>1. stage' = "object" /\ k' = 1 /\ entry' = NoEntry
    BY <1>1, EndLayoutJoins
  <2>2. k' - 1 = 0 /\ 1 .. 0 = {}
    BY <2>1
  <2>3. EntryJoined(start', objs', entry', k' - 1)
    BY <2>1, <2>2 DEF EntryJoined
  <2> QED
    BY <2>1, <2>3 DEF EntryInv, Ended
<1>2. CASE EnterObject /\ stage' # "panic"
  <2>1. /\ stage = "object" /\ stage' = "symbols" /\ k <= Len(objs)
        /\ entry' = IF entry = NoEntry /\ objs[k].entry # NoEntry
                    THEN <<objs[k].entry[1], Moved(objs[k], objs[k].entry[1], objs[k].entry[2])>> ELSE entry
        /\ entry = NoEntry /\ objs[k].entry # NoEntry => objs[k].entry[1] \in SegsOf(objs[k])
        /\ UNCHANGED <<k, start, objs>>
    BY <1>2, EntersObject DEF search, layout
  <2>2. EntryJoined(start, objs, entry, k - 1)
    BY <2>1 DEF EntryInv, Linking
  <2>3. k \in DOMAIN objs /\ WellFormed(objs[k])
    BY <1>0, <2>1, GoodObjects DEF Good
  <2>4. EntryJoined(start, objs, entry', k)
    <3>1. PICK n \in Nat : n = k - 1 /\ k = n + 1
      BY <1>0
    <3>2. \A i \in 1 .. k : i \in 1 .. n \/ i = k
      BY <3>1
    <3>3. \A i \in 1 .. n : i \in 1 .. k
      BY <3>1
    <3>4. 1 .. k - 1 = 1 .. n /\ k \in 1 .. k
      BY <3>1
    <3>5. CASE entry = NoEntry /\ objs[k].entry = NoEntry
      <4>1. entry' = NoEntry
        BY <2>1, <3>5
      <4>2. \A i \in 1 .. n : objs[i].entry = NoEntry
        <5>1. CASE \A i \in 1 .. n : objs[i].entry = NoEntry
          BY <5>1
        <5>2. ASSUME NEW i \in 1 .. n, objs[i].entry # NoEntry,
                     entry = <<objs[i].entry[1],
                               Put(start, objs, i, [seg |-> objs[i].entry[1], loc |-> objs[i].entry[2]])>>
              PROVE  FALSE
          BY <3>5, <5>2 DEF NoEntry
        <5> QED
          BY <2>2, <3>1, <5>1, <5>2 DEF EntryJoined
      <4> QED
        BY <3>2, <3>5, <4>1, <4>2 DEF EntryJoined
    <3>6. CASE entry = NoEntry /\ objs[k].entry # NoEntry
      <4>1. \A i \in 1 .. n : objs[i].entry = NoEntry
        <5>1. ASSUME NEW i \in 1 .. n, objs[i].entry # NoEntry,
                     entry = <<objs[i].entry[1],
                               Put(start, objs, i, [seg |-> objs[i].entry[1], loc |-> objs[i].entry[2]])>>
              PROVE  FALSE
          BY <3>6, <5>1 DEF NoEntry
        <5> QED
          BY <2>2, <3>1, <5>1 DEF EntryJoined
      <4>2. PICK t \in SegsOf(objs[k]), loc \in Addr : t = objs[k].entry[1] /\ loc = objs[k].entry[2]
        BY <2>1, <2>3, <3>6 DEF WellFormed
      <4>3. Moved(objs[k], t, loc) = (start[t] + Before(objs, k, t) + (loc - StartOf(objs[k], t))) % W
        BY <2>1, MovedIs
      <4>4. Put(start, objs, k, [seg |-> t, loc |-> loc]) = Moved(objs[k], t, loc)
        BY <4>3 DEF Put
      <4>5. entry' = <<objs[k].entry[1],
                       Put(start, objs, k, [seg |-> objs[k].entry[1], loc |-> objs[k].entry[2]])>>
        BY <2>1, <3>6, <4>2, <4>4
      <4> QED
        BY <2>1, <3>4, <3>6, <4>1, <4>5 DEF EntryJoined
    <3>7. CASE entry # NoEntry
      <4>1. entry' = entry
        BY <2>1, <3>7
      <4>2. PICK i \in 1 .. n :
              /\ objs[i].entry # NoEntry /\ objs[i].entry[1] \in SegsOf(objs[i])
              /\ \A h \in 1 .. i - 1 : objs[h].entry = NoEntry
              /\ entry = <<objs[i].entry[1],
                           Put(start, objs, i, [seg |-> objs[i].entry[1], loc |-> objs[i].entry[2]])>>
        BY <2>2, <3>1, <3>7 DEF EntryJoined
      <4>3. i \in 1 .. k
        BY <3>3
      <4> QED
        BY <4>1, <4>2, <4>3 DEF EntryJoined
    <3> QED
      BY <3>5, <3>6, <3>7
  <2>5. EntryJoined(start', objs', entry', k')
    BY <2>1, <2>4
  <2> QED
    BY <2>1, <2>5 DEF EntryInv, Ended
<1>3. CASE AddSymbol \/ EndSymbols \/ (Relocate /\ stage' # "panic")
  <2>1. /\ stage \in {"symbols", "relocs"} /\ stage' \in {"symbols", "relocs"}
        /\ UNCHANGED <<k, start, objs, entry>>
    BY <1>3 DEF AddSymbol, EndSymbols, Relocate, search, layout
  <2>2. EntryJoined(start', objs', entry', k')
    BY <2>1 DEF EntryInv, Linking
  <2> QED
    BY <2>1, <2>2 DEF EntryInv, Ended
<1>4. CASE CopySegments
  <2>1. /\ stage = "relocs" /\ stage' = "object" /\ k' = k + 1 /\ UNCHANGED <<start, objs, entry>>
    BY <1>4 DEF CopySegments, search, layout
  <2>2. k' - 1 = k
    BY <1>0, <2>1
  <2>3. EntryJoined(start', objs', entry', k' - 1)
    BY <2>1, <2>2 DEF EntryInv, Linking
  <2> QED
    BY <2>1, <2>3 DEF EntryInv, Ended
<1>5. CASE EndObjects \/ PatchUndefined
  <2>1. /\ stage \in {"object", "patch"} /\ stage' = "patch" /\ UNCHANGED <<k, start, objs, entry>>
    BY <1>5 DEF EndObjects, PatchUndefined, search, layout
  <2>2. EntryJoined(start', objs', entry', k' - 1)
    BY <2>1 DEF EntryInv, Linking
  <2> QED
    BY <2>1, <2>2 DEF EntryInv, Ended
<1>6. CASE Finish
  <2>1. /\ stage = "patch" /\ stage' \in Ended /\ entry' = SetEntry /\ UNCHANGED <<k, start, objs, job>>
    BY <1>6 DEF Finish, Ended, search, layout, invocation
  <2>2. EntryJoined(start, objs, entry, Len(objs))
    <3>1. k - 1 = Len(objs)
      BY <1>0, <2>1 DEF FailureInv
    <3> QED
      BY <2>1, <3>1 DEF EntryInv, Linking
  <2>3. job.setEntry = "none" => entry' = entry
    <3>1. "none" \notin DOMAIN glob
      BY LinkerAssumption DEF SymbolsType
    <3> QED
      BY <2>1, <3>1 DEF SetEntry
  <2>4. job'.setEntry = "none" => EntryJoined(start', objs', entry', Len(objs'))
    BY <2>1, <2>2, <2>3
  <2>5. stage' \notin Linking
    BY <2>1 DEF Ended, Linking
  <2> QED
    BY <2>4, <2>5 DEF EntryInv
<1>7. CASE Include \/ EndSearch \/ LayoutSegment \/ Relink \/ stage' = "panic"
  <2>1. stage' \notin Linking \cup Ended
    BY <1>7 DEF Linking, Ended, Include, EndSearch, LayoutSegment, Relink
  <2> QED
    BY <2>1 DEF EntryInv
<1>8. CASE UNCHANGED vars
  BY <1>8 DEF vars, invocation, search, layout, EntryInv
<1> QED
  BY <1>1, <1>2, <1>3, <1>4, <1>5, <1>6, <1>7, <1>8 DEF Next, Link

\* Fresh is kept by every step.
LEMMA FreshStep ==
  ASSUME Fresh, [Next]_vars
  PROVE  Fresh'
<1>1. CASE Include \/ EndSearch \/ LayoutSegment
  <2>1. /\ stage \in {"search", "layout"}
        /\ UNCHANGED <<k, syms, glob, reloc, undef, entry, failure>>
    BY <1>1 DEF Include, EndSearch, LayoutSegment, tables
  <2> QED
    BY <2>1 DEF Fresh
<1>2. CASE Relink
  BY <1>2 DEF Relink, Fresh
<1>3. CASE EndLayout \/ EnterObject \/ AddSymbol \/ EndSymbols \/ Relocate \/ CopySegments \/ EndObjects
  <2>1. stage' \notin {"search", "layout"}
    BY <1>3 DEF EndLayout, EnterObject, AddSymbol, EndSymbols, Relocate, CopySegments, EndObjects
  <2> QED
    BY <2>1 DEF Fresh
<1>4. CASE PatchUndefined \/ Finish
  <2>1. stage' \notin {"search", "layout"}
    BY <1>4 DEF PatchUndefined, Finish
  <2> QED
    BY <2>1 DEF Fresh
<1>5. CASE UNCHANGED vars
  BY <1>5 DEF vars, tables, Fresh
<1> QED
  BY <1>1, <1>2, <1>3, <1>4, <1>5 DEF Next, Link

\* After the last object the loops have been through everything.
LEMMA AllSeen ==
  ASSUME Good(objs), stage \in {"patch"} \cup Ended, k = Len(objs) + 1
  PROVE  SeenSyms = SymsOf(objs) /\ SeenRefs = RefsOf(objs)
<1>1. Len(objs) \in Nat
  BY GoodObjects DEF Good
<1>2. ASSUME NEW d \in SymsOf(objs) PROVE d[1] < k
  <2>1. d[1] \in 1 .. Len(objs)
    BY SymType
  <2> QED
    BY <1>1, <2>1
<1>3. ASSUME NEW d \in RefsOf(objs) PROVE d[1] < k
  <2>1. d[1] \in 1 .. Len(objs)
    BY RefType
  <2> QED
    BY <1>1, <2>1
<1> QED
  BY <1>2, <1>3 DEF SeenSyms, SeenRefs

\* The result is the one the symbols call for.
LEMMA FinishFails ==
  ASSUME LinkInv, Good(objs), FailureInv, Finish
  PROVE  FailureInv'
<1> USE DEF LinkInv, Types
<1>1. /\ stage = "patch" /\ j > Len(undef) /\ stage' \in Ended /\ k = Len(objs) + 1
      /\ entry' = SetEntry
      /\ failure' = (failure \/ NoStartSymbol)
      /\ stage' = IF failure' THEN "failed"
                  ELSE IF job.exe /\ entry' = NoEntry THEN "noentry" ELSE "done"
      /\ UNCHANGED <<job, objs, k, syms, glob, undef>>
  BY DEF Finish, FailureInv, Ended, invocation, search, tables
<1>2. SeenSyms = SymsOf(objs)
  BY <1>1, AllSeen
<1>3. failure <=> \/ Twice(objs, SymsOf(objs))
                  \/ job.exe /\ \E q \in 1 .. j - 1 : q <= Len(undef) /\ Unknown(syms[undef[q].sym])
  BY <1>1, <1>2 DEF FailureInv
<1>4. (\E q \in 1 .. j - 1 : q <= Len(undef) /\ Unknown(syms[undef[q].sym])) <=>
        \E e \in Range(undef) : Unknown(syms[e.sym])
  <2>1. PICK l \in Nat : l = Len(undef) /\ DOMAIN undef = 1 .. l
    BY DEF RelocsType
  <2>2. j \in Nat
    BY DEF CounterType
  <2>3. \A q \in 1 .. l : q \in 1 .. j - 1 /\ q <= l
    BY <1>1, <2>1, <2>2
  <2>4. \A q \in 1 .. j - 1 : q <= l => q \in 1 .. l
    BY <2>2
  <2>5. Range(undef) = {undef[q] : q \in 1 .. l}
    BY <2>1 DEF Range
  <2> QED
    BY <2>1, <2>3, <2>4, <2>5
<1>5. stage' = "failed" <=>
        \/ Twice(objs, SymsOf(objs))
        \/ job.exe /\ \E e \in Range(undef) : Unknown(syms[e.sym])
        \/ job.setEntry \in Names \ DOMAIN glob
  BY <1>1, <1>3, <1>4 DEF NoStartSymbol
<1>6. stage' = "noentry" => job.exe /\ job.setEntry = "none"
  <2>1. SUFFICES ASSUME stage' = "noentry" PROVE job.exe /\ job.setEntry = "none"
    OBVIOUS
  <2>2. job.exe /\ SetEntry = NoEntry
    BY <1>1, <2>1
  <2>3. "none" \notin DOMAIN glob /\ "0x" \notin DOMAIN glob
    BY LinkerAssumption DEF SymbolsType
  <2>4. ASSUME job.setEntry = "0x" PROVE FALSE
    <3>1. SetEntry = <<"zero", PageSize>>
      BY <2>3, <2>4 DEF SetEntry
    <3> QED
      BY <2>2, <3>1 DEF NoEntry
  <2>5. ASSUME job.setEntry \in DOMAIN glob PROVE FALSE
    <3>1. \E a, b : SetEntry = <<a, b>>
      BY <2>3, <2>5 DEF SetEntry
    <3> QED
      BY <2>2, <3>1 DEF NoEntry
  <2>6. ASSUME job.setEntry \notin {"none", "0x"} \cup DOMAIN glob PROVE FALSE
    <3>1. SetEntry = <<"unknown", W - 1>>
      BY <2>6 DEF SetEntry
    <3> QED
      BY <2>2, <3>1 DEF NoEntry
  <2> QED
    BY <2>2, <2>4, <2>5, <2>6
<1>7. stage' = "noentry" => entry' = NoEntry
  BY <1>1
<1>8. stage' \notin {"object", "symbols", "relocs", "patch"}
  BY <1>1 DEF Ended
<1>9. (stage' = "failed" <=>
        \/ Twice(objs', SymsOf(objs'))
        \/ job'.exe /\ \E e \in Range(undef') : Unknown(syms'[e.sym])
        \/ job'.setEntry \in Names \ DOMAIN glob')
  BY <1>1, <1>5
<1> QED
  BY <1>1, <1>6, <1>7, <1>8, <1>9 DEF FailureInv

\* FailureInv is kept by every step.
LEMMA FailureInvStep ==
  ASSUME LinkInv, SegmentsInv, Good(objs), Fresh, SymsInv, FailureInv, [Next]_vars
  PROVE  FailureInv'
<1> USE DEF LinkInv, Types
<1>1. CASE EndLayout
  <2>1. stage' = "object" /\ SeenSyms' = {} /\ failure' = FALSE
    BY <1>1, EndLayoutJoins
  <2>2. PICK os : os = objs'
    OBVIOUS
  <2>3. ~Twice(os, {})
    BY NothingJoined
  <2>4. ~Twice(objs', SeenSyms')
    BY <2>1, <2>2, <2>3
  <2> QED
    BY <2>1, <2>4 DEF FailureInv, Ended
<1>2. CASE AddSymbol
  <2>1. stage' = "symbols" /\ objs' = objs
    BY <1>2 DEF AddSymbol, search
  <2>2. failure' <=> Twice(objs, SeenSyms')
    BY <1>2, AddSymbolJoins
  <2> QED
    BY <2>1, <2>2 DEF FailureInv, Ended
<1>3. CASE (EnterObject \/ EndSymbols \/ CopySegments \/ Relocate) /\ stage' # "panic"
  <2>1. /\ stage \in {"object", "symbols", "relocs"} /\ stage' \in {"object", "symbols", "relocs"}
        /\ UNCHANGED <<objs, failure>>
    BY <1>3, EntersObject DEF EndSymbols, CopySegments, Relocate, search
  <2>2. SeenSyms' = SeenSyms
    BY <1>3, <2>1, SeenSymsSame DEF Linking
  <2> QED
    BY <2>1, <2>2 DEF FailureInv, Ended
<1>4. CASE EndObjects
  <2>1. /\ stage = "object" /\ stage' = "patch" /\ j' = 1 /\ k > Len(objs)
        /\ UNCHANGED <<objs, k, failure>>
    BY <1>4 DEF EndObjects, search
  <2>2. SeenSyms' = SeenSyms
    BY <1>4, <2>1, SeenSymsSame DEF Linking
  <2>3. k' = Len(objs') + 1
    <3>1. k - 1 <= Len(objs) /\ Len(objs) \in Nat /\ k \in Nat
      BY <2>1, GoodObjects DEF SegmentsInv, Filling, Good, CounterType
    <3> QED
      BY <2>1, <3>1
  <2>4. 1 .. j' - 1 = {}
    BY <2>1
  <2>5. failure' <=> Twice(objs', SeenSyms')
    BY <2>1, <2>2 DEF FailureInv
  <2> QED
    BY <2>1, <2>3, <2>4, <2>5 DEF FailureInv, Ended
<1>5. CASE PatchUndefined
  <2>1. /\ stage = "patch" /\ stage' = "patch" /\ j <= Len(undef) /\ j' = j + 1
        /\ UNCHANGED <<job, objs, k, syms, undef>>
        /\ failure' <=> failure \/ (Unknown(syms[undef[j].sym]) /\ job.exe)
    <3>1. failure \in BOOLEAN /\ job.exe \in BOOLEAN
      BY DEF ResultType, InvocationType, Job
    <3> QED
      BY <1>5, <3>1 DEF PatchUndefined, search, tables, invocation
  <2>2. SeenSyms' = SeenSyms
    BY <1>5, <2>1, SeenSymsSame DEF Linking
  <2>3. PICK n \in Nat : n = j - 1 /\ j = n + 1 /\ j' - 1 = n + 1
    BY <2>1 DEF CounterType
  <2>4. (\E q \in 1 .. n + 1 : q <= Len(undef) /\ Unknown(syms[undef[q].sym])) <=>
          \/ \E q \in 1 .. n : q <= Len(undef) /\ Unknown(syms[undef[q].sym])
          \/ Unknown(syms[undef[j].sym])
    <3>1. \A q \in 1 .. n + 1 : q \in 1 .. n \/ q = j
      BY <2>3
    <3>2. j \in 1 .. n + 1 /\ \A q \in 1 .. n : q \in 1 .. n + 1
      BY <2>3
    <3> QED
      BY <2>1, <3>1, <3>2
  <2>5. failure <=> \/ Twice(objs, SeenSyms)
                    \/ job.exe /\ \E q \in 1 .. n : q <= Len(undef) /\ Unknown(syms[undef[q].sym])
    BY <2>1, <2>3 DEF FailureInv
  <2>6. failure' <=> \/ Twice(objs, SeenSyms)
                     \/ job.exe /\ \E q \in 1 .. n + 1 : q <= Len(undef) /\ Unknown(syms[undef[q].sym])
    BY <2>1, <2>4, <2>5
  <2>7. failure' <=> \/ Twice(objs', SeenSyms')
                     \/ job'.exe /\ \E q \in 1 .. j' - 1 : q <= Len(undef') /\ Unknown(syms'[undef'[q].sym])
    BY <2>1, <2>2, <2>3, <2>6
  <2>8. k' = Len(objs') + 1
    BY <2>1 DEF FailureInv
  <2> QED
    BY <2>1, <2>7, <2>8 DEF FailureInv, Ended
<1>6. CASE Finish
  BY <1>6, FinishFails
<1>7. CASE Include \/ EndSearch \/ LayoutSegment \/ Relink \/ stage' = "panic"
  <2>1. stage' \notin {"object", "symbols", "relocs", "patch"} \cup Ended
    BY <1>7 DEF Ended, Include, EndSearch, LayoutSegment, Relink
  <2> QED
    BY <2>1 DEF FailureInv, Ended
<1>8. CASE UNCHANGED vars
  BY <1>8 DEF vars, invocation, search, tables, FailureInv, SeenSyms
<1> QED
  BY <1>1, <1>2, <1>3, <1>4, <1>5, <1>6, <1>7, <1>8 DEF Next, Link

\* PanicInv is kept by every step.
LEMMA PanicInvStep ==
  ASSUME LinkInv, PanicInv, [Next]_vars
  PROVE  PanicInv'
<1> USE DEF LinkInv, Types
<1>1. CASE Relocate /\ stage' = "panic"
  <2>1. PICK o : o = objs[k]
    OBVIOUS
  <2>2. PICK r : r = o.relocs[j]
    OBVIOUS
  <2>3. /\ stage = "relocs" /\ j <= Len(o.relocs) /\ OffsetIn(o, r) + 2 > Len(cur[r.seg])
        /\ objs' = objs
    BY <1>1, <2>1, <2>2 DEF Relocate, search
  <2>4. k \in DOMAIN objs /\ AtObject
    BY <2>3 DEF Position, AtObject
  <2>5. r \in Range(o.relocs) /\ r.seg \in SegsOf(o)
    <3>1. WellFormed(o)
      BY <2>1, <2>4, CurrentIsWellFormed
    <3>2. o.relocs \in Seq(Reloc)
      BY <3>1 DEF WellFormed
    <3>3. j \in DOMAIN o.relocs
      BY <2>3, <3>2 DEF CounterType
    <3>4. r \in Range(o.relocs)
      BY <2>2, <3>2, <3>3 DEF Range
    <3> QED
      BY <3>1, <3>4 DEF WellFormed
  <2>6. Len(cur[r.seg]) = Len(o.segs[r.seg].bytes)
    BY <2>1, <2>4, <2>5 DEF AtObject
  <2>7. OffsetIn(o, r) + 2 > Len(o.segs[r.seg].bytes)
    BY <2>3, <2>6
  <2> QED
    BY <2>1, <2>3, <2>4, <2>5, <2>7 DEF PanicInv
<1>2. CASE EnterObject /\ stage' = "panic"
  <2>1. StrayEntry(objs[k]) /\ k <= Len(objs) /\ objs' = objs
    BY <1>2 DEF EnterObject, search
  <2>2. k \in DOMAIN objs
    <3>1. Len(objs) \in Nat /\ DOMAIN objs = 1 .. Len(objs)
      BY GoodObjects DEF InvocationType
    <3> QED
      BY <2>1, <3>1 DEF CounterType
  <2> QED
    BY <2>1, <2>2 DEF PanicInv
<1>3. CASE stage' # "panic"
  BY <1>3 DEF PanicInv
<1>4. CASE ~Relocate /\ ~EnterObject /\ stage' = "panic"
  <2>1. UNCHANGED vars
    BY <1>4 DEF Next, Link, Include, EndSearch, LayoutSegment, EndLayout, AddSymbol,
       EndSymbols, CopySegments, EndObjects, PatchUndefined, Finish, Relink
  <2> QED
    BY <2>1 DEF vars, search, PanicInv, OffsetIn, StartOf
<1> QED
  BY <1>1, <1>2, <1>3, <1>4

\* The linker panics over nothing but a relocation that is not within the bytes
\* of its segment and an entry point in a segment that its object has not (the
\* index expressions of tl.rs): for any objects whatever.
THEOREM PanicsOverAnObject == Spec => []PanicInv
<1>1. Init => PanicInv
  BY DEF Init, PanicInv
<1>2. LinkInv /\ PanicInv /\ [Next]_vars => PanicInv'
  BY PanicInvStep
<1> QED
  BY <1>1, <1>2, LinkInvHolds, PTL DEF Spec

----------------------------------------------------------------------------
(* 17. The output, and the output as an object *)

\* The program at the end.
LEMMA JoinedAtEnd ==
  ASSUME LinkInv, SegmentsInv, Good(objs), SymsInv, RefsInv, BytesInv, EntryInv, FailureInv,
         stage \in Ended
  PROVE  /\ Joined(start, out, syms, reloc, objs)
         /\ job.setEntry = "none" => EntryJoined(start, objs, entry, Len(objs))
<1> USE DEF LinkInv, Types
<1>1. SeenSyms = SymsOf(objs) /\ SeenRefs = RefsOf(objs)
  <2>1. k = Len(objs) + 1
    BY DEF FailureInv
  <2> QED
    BY <2>1, AllSeen
<1>2. DOMAIN start = UNION {SegsOf(objs[i]) : i \in DOMAIN objs}
  BY DEF Position, AllSegs, Ended
<1>3. ASSUME NEW t \in DOMAIN start PROVE Len(out[t]) = Before(objs, Len(objs) + 1, t)
  <2>1. Len(out[t]) = lengths[t] /\ lengths = Lengths /\ t \in AllSegs
    BY <1>3 DEF SegmentsInv, Filling, Position, Ended
  <2>2. Objects(objs) /\ Len(objs) \in Nat
    BY GoodObjects DEF Good
  <2>3. lengths[t] = Len(Taken(t, Len(objs)))
    BY <2>1, <2>2, LengthsAre
  <2> QED
    BY <2>1, <2>2, <2>3, TakenIsBefore
<1>4. SymsJoined(start, objs, syms, SymsOf(objs))
  BY <1>1 DEF SymsInv
<1>5. RefsJoined(start, objs, syms, reloc, RefsOf(objs))
  BY <1>1 DEF RefsInv
<1>6. \A i \in DOMAIN objs : BytesJoined(start, objs, syms, reloc, RefsOf(objs), {}, i, out)
  BY <1>1 DEF BytesInv
<1>7. job.setEntry = "none" => EntryJoined(start, objs, entry, Len(objs))
  BY DEF EntryInv
<1> QED
  BY <1>2, <1>3, <1>4, <1>5, <1>6, <1>7 DEF Joined

\* The first of the objects of the second invocation is what the first one has
\* made of its objects.
LEMMA OutputIsJoin ==
  ASSUME LinkInv, SegmentsInv, Good(objs), SymsInv, RefsInv, BytesInv, EntryInv, FailureInv,
         stage = "done", ~job.exe
  PROVE  /\ WellFormed(Output) /\ IsJoin(Output, objs) /\ ~Twice(objs, SymsOf(objs))
         /\ entry \in {NoEntry} \cup (SegType \X Addr)
<1> USE DEF LinkInv, Types
<1>1. /\ Joined(start, out, syms, reloc, objs)
      /\ job.setEntry = "none" => EntryJoined(start, objs, entry, Len(objs))
  BY JoinedAtEnd DEF Ended
<1>2. job.setEntry = "none"
  BY DEF InvocationType, Job
<1>3. /\ Output.segs = [t \in DOMAIN start |-> [start |-> start[t], bytes |-> out[t]]]
      /\ Output.syms = syms /\ Output.relocs = reloc /\ Output.entry = entry
  BY DEF Output
<1>4. SegsOf(Output) = DOMAIN start
  BY <1>3 DEF SegsOf
<1>5. StartsOf(Output) = start
  <2>1. StartsOf(Output) = [t \in DOMAIN start |-> start[t]]
    BY <1>3, <1>4 DEF StartsOf
  <2> QED
    BY <2>1 DEF LayoutType
<1>6. ContentsOf(Output) = out
  <2>1. ContentsOf(Output) = [t \in DOMAIN start |-> out[t]]
    BY <1>3, <1>4 DEF ContentsOf
  <2> QED
    BY <2>1 DEF BytesTypes
<1>7. entry \in {NoEntry} \cup (SegType \X Addr)
  BY DEF Position
<1>8. ~Twice(objs, SymsOf(objs))
  BY DEF FailureInv, Ended
<1> QED
  BY <1>1, <1>2, <1>3, <1>5, <1>6, <1>7, <1>8, OutputIsWellFormed DEF IsJoin

\* What Sound asks of an object, the linker's output has.
LEMMA OutputIsSound ==
  ASSUME LinkInv, SegmentsInv, Good(objs), SymsInv, RefsInv, BytesInv, EntryInv, FailureInv,
         stage = "done", ~job.exe
  PROVE  Sound(Output)
<1> USE DEF LinkInv, Types
<1>1. /\ SymsJoined(start, objs, syms, SymsOf(objs))
      /\ RefsJoined(start, objs, syms, reloc, RefsOf(objs))
      /\ EntryJoined(start, objs, entry, Len(objs))
  <2>1. job.setEntry = "none"
    BY DEF InvocationType, Job
  <2> QED
    BY <2>1, JoinedAtEnd DEF Ended, Joined
<1>2. PICK o : o = Output
  OBVIOUS
<1>3. /\ o.segs = [t \in DOMAIN start |-> [start |-> start[t], bytes |-> out[t]]]
      /\ o.syms = syms /\ o.relocs = reloc /\ o.entry = entry /\ SegsOf(o) = DOMAIN start
      /\ \A t \in DOMAIN start : o.segs[t].start = start[t]
  BY <1>2 DEF Output, SegsOf
<1>4. ASSUME NEW i \in 1 .. Len(objs), NEW t \in SegsOf(objs[i]) PROVE t \in DOMAIN start
  BY GoodObjects DEF Position, AllSegs, Good
<1>5. ASSUME NEW s \in Range(o.syms)
      PROVE  IF s.seg = "unknown" THEN s.global /\ s.loc = Nowhere ELSE s.seg \in SegsOf(o)
  <2>1. PICK a \in DOMAIN syms : s = syms[a]
    BY <1>3, <1>5 DEF Range
  <2>2. CASE ~s.global
    <3>1. PICK d \in SymsOf(objs) : ~Sym(objs, d).global /\ IsSym(start, objs, syms, d, a)
      BY <1>1, <2>1, <2>2 DEF SymsJoined
    <3>2. ~Unknown(Sym(objs, d)) /\ Sym(objs, d) \in Symbol
      BY <3>1, SymType
    <3>3. Sym(objs, d).seg \in SegsOf(objs[d[1]]) /\ d[1] \in 1 .. Len(objs)
      BY <3>2, SymType
    <3>4. s = There(start, objs, d)
      BY <2>1, <3>1 DEF IsSym
    <3>5. s.seg = Sym(objs, d).seg
      BY <3>2, <3>4 DEF There, Symbol
    <3>6. s.seg \in DOMAIN start
      BY <1>4, <3>3, <3>5
    <3>7. s.seg # "unknown"
      BY <3>2, <3>5 DEF Unknown
    <3> QED
      BY <1>3, <3>6, <3>7
  <2>3. CASE s.global /\ Unknown(s)
    <3>1. s.loc = Nowhere
      BY <1>1, <2>1, <2>3 DEF SymsJoined
    <3> QED
      BY <2>3, <3>1 DEF Unknown
  <2>4. CASE s.global /\ ~Unknown(s)
    <3>1. PICK d \in SymsOf(objs) : Defines(objs, d, s.name) /\ s.seg = Sym(objs, d).seg
      BY <1>1, <2>1, <2>4 DEF SymsJoined
    <3>2. Sym(objs, d).seg \in SegsOf(objs[d[1]]) /\ d[1] \in 1 .. Len(objs)
      BY <3>1, SymType DEF Defines
    <3>3. s.seg \in DOMAIN start
      BY <1>4, <3>1, <3>2
    <3> QED
      BY <1>3, <2>4, <3>3 DEF Unknown
  <2> QED
    BY <2>2, <2>3, <2>4
<1>7. ASSUME NEW r \in Range(o.relocs) PROVE r.loc >= o.segs[r.seg].start
  <2>1. r \in Range(reloc) /\ r \in Reloc
    BY <1>3, <1>7 DEF RelocsType, Range
  <2>2. r.seg \in DOMAIN start
    BY <2>1 DEF RelocsType
  <2>3. PICK d \in RefsOf(objs) : IsRef(start, objs, syms, d, r)
    BY <1>1, <2>1 DEF RefsJoined
  <2>4. d[1] \in 1 .. Len(objs) /\ RefAt(objs, d) \in Nat /\ Objects(objs)
    BY RefType DEF Good
  <2>5. Before(objs, d[1], r.seg) \in Nat
    <3>1. d[1] \in 1 .. Len(objs) + 1
      BY <2>4, GoodObjects
    <3> QED
      BY <2>4, <3>1, BeforeType
  <2>6. PICK a \in Nat, b \in Nat, c \in Nat :
          a = start[r.seg] /\ b = Before(objs, d[1], r.seg) /\ c = RefAt(objs, d)
    BY <2>2, <2>4, <2>5 DEF LayoutType, Addr
  <2>7. r.loc = a + b + c
    BY <2>3, <2>6 DEF IsRef
  <2>8. r.loc >= a
    BY <2>7
  <2> QED
    BY <1>3, <2>2, <2>6, <2>8
<1>8. \A m, n \in DOMAIN o.relocs :
        m # n /\ o.relocs[m].seg = o.relocs[n].seg => o.relocs[m].loc - o.relocs[n].loc \notin -1 .. 1
  BY <1>1, <1>3 DEF RefsJoined
<1>9. Sound(o)
  BY <1>5, <1>7, <1>8 DEF Sound
<1> QED
  BY <1>2, <1>9

\* Objects are good one by one,
LEMMA GoodIs ==
  ASSUME NEW os
  PROVE  Good(os) <=> Objects(os) /\ \A o \in Range(os) : Sound(o)
BY DEF Good, Range

\* and so in any sequence.
LEMMA GoodOf ==
  ASSUME NEW S, \A o \in S : WellFormed(o) /\ Sound(o), NEW os \in Seq(S)
  PROVE  Good(os)
<1>1. Objects(os)
  BY ObjectsOf
<1>2. \A i \in DOMAIN os : os[i] \in S
  OBVIOUS
<1> QED
  BY <1>1, <1>2 DEF Good

\* The objects of a list, as a set.
LEMMA GoodMembers ==
  ASSUME NEW os, Good(os)
  PROVE  /\ os \in Seq(Range(os))
         /\ \A o \in Range(os) : WellFormed(o) /\ Sound(o)
BY GoodIs DEF Objects

\* Two sequences one after the other, and the first one gone.
LEMMA GoodAppend ==
  ASSUME NEW os, NEW ps, Good(os), Good(ps)
  PROVE  os # <<>> => Good(os \o ps) /\ Good(Tail(os))
<1> DEFINE S == Range(os) \cup Range(ps)
<1>1. \A o \in S : WellFormed(o) /\ Sound(o)
  BY GoodMembers
<1>2. os \in Seq(S) /\ ps \in Seq(S)
  <2>1. os \in Seq(Range(os)) /\ ps \in Seq(Range(ps))
    BY GoodMembers
  <2> QED
    BY <2>1, SeqMonotonic
<1> HIDE DEF S
<1>3. os \o ps \in Seq(S) /\ (os # <<>> => Tail(os) \in Seq(S))
  BY <1>2
<1> QED
  BY <1>1, <1>3, GoodOf

\* The steps after the search go on with the objects it has found.
LEMMA OtherSteps ==
  ASSUME [Next]_vars, ~Include, ~EndSearch, ~Relink
  PROVE  UNCHANGED <<objs, origin, relinked>> /\ (stage' = "search" <=> stage = "search")
<1>1. CASE UNCHANGED vars
  BY <1>1 DEF vars, search, invocation
<1>2. CASE LayoutSegment \/ EndLayout \/ EnterObject \/ AddSymbol \/ EndSymbols
  BY <1>2 DEF LayoutSegment, EndLayout, EnterObject, AddSymbol, EndSymbols, search, invocation
<1>3. CASE Relocate \/ CopySegments \/ EndObjects \/ PatchUndefined \/ Finish
  BY <1>3 DEF Relocate, CopySegments, EndObjects, PatchUndefined, Finish, search, invocation
<1> QED
  BY <1>1, <1>2, <1>3 DEF Next, Link

\* If the objects the properties are about are good, so are those of the linker.
LEMMA LinkedAreGood ==
  ASSUME LinkInv, OriginInv, stage # "search", Good(origin)
  PROVE  Good(objs)
<1> USE DEF LinkInv, Types
<1>1. CASE ~relinked
  BY <1>1 DEF OriginInv
<1>2. CASE relinked
  <2>1. PICK n \in 0 .. Len(origin) : /\ origin = SubSeq(origin, 1, n) \o Tail(objs)
                                     /\ Came(objs[1], SubSeq(origin, 1, n))
    BY <1>2 DEF OriginInv
  <2>2. Objects(objs) /\ objs # <<>>
    BY <1>2 DEF OriginInv, InvocationType
  <2>3. PICK os, ts, S : os = SubSeq(origin, 1, n) /\ ts = Tail(objs) /\ S = Range(origin)
    OBVIOUS
  <2>4. origin \in Seq(S) /\ \A o \in S : WellFormed(o) /\ Sound(o)
    BY <2>3, GoodMembers
  <2>5. os \in Seq(S) /\ Len(os) \in Nat
    BY <2>3, <2>4
  <2>6. ts \in Seq(Range(objs)) /\ objs \in Seq(Range(objs))
        /\ \A i \in 2 .. Len(objs) : i - 1 \in 1 .. Len(ts) /\ ts[i - 1] = objs[i]
    BY <2>2, <2>3 DEF Objects
  <2>7. Good(os)
    BY <2>4, <2>5, GoodOf
  <2>8. Sound(objs[1])
    BY <2>1, <2>3, <2>7 DEF Came
  <2>9. ASSUME NEW i \in 2 .. Len(objs) PROVE Sound(objs[i])
    <3>1. origin = os \o ts
      BY <2>1, <2>3
    <3>2. i - 1 \in 1 .. Len(ts) /\ ts[i - 1] = objs[i] /\ Len(ts) \in Nat
      BY <2>6, <2>9
    <3>3. Len(os) + (i - 1) \in DOMAIN origin /\ origin[Len(os) + (i - 1)] = ts[i - 1]
      <4>1. PICK U : U = S \cup Range(objs)
        OBVIOUS
      <4>2. os \in Seq(U) /\ ts \in Seq(U)
        BY <2>5, <2>6, <4>1, SeqMonotonic
      <4>3. PICK l \in Nat, m \in Nat, x \in Nat \ {0} :
              l = Len(os) /\ m = Len(ts) /\ x = i - 1 /\ x <= m
        BY <2>5, <3>2
      <4>4. Len(os \o ts) = l + m /\ DOMAIN (os \o ts) = 1 .. l + m /\ (os \o ts)[l + x] = ts[x]
        BY <4>2, <4>3
      <4> QED
        BY <3>1, <4>3, <4>4
    <3>4. origin[Len(os) + (i - 1)] \in S
      BY <2>3, <3>3 DEF Range
    <3> QED
      BY <2>4, <3>2, <3>3, <3>4
  <2>10. \A i \in DOMAIN objs : i = 1 \/ i \in 2 .. Len(objs)
    BY <2>6
  <2> QED
    BY <2>2, <2>8, <2>9, <2>10 DEF Good
<1> QED
  BY <1>1, <1>2

\* Of good objects, the output so far is what the loops have been through.
PartsInv == SymsInv /\ RefsInv /\ BytesInv /\ EntryInv /\ FailureInv

\* OriginInv is kept by every step: what is linked from good objects is one.
LEMMA OriginInvStep ==
  ASSUME LinkInv, LinkInv', SegmentsInv, Good(origin) => PartsInv, OriginInv, [Next]_vars
  PROVE  OriginInv'
<1> USE DEF LinkInv, Types
<1>0. Objects(objs) /\ Objects(origin) /\ objs \in Seq(Range(objs)) /\ origin \in Seq(Range(origin))
  BY DEF InvocationType, OriginInv, Objects
<1>1. CASE Include
  <2>1. PICK i \in DOMAIN lib : objs' = Append(objs, lib[i])
    BY <1>1 DEF Include
  <2>2. stage = "search" /\ stage' = "search" /\ UNCHANGED <<origin, relinked>>
    BY <1>1 DEF Include, invocation
  <2>3. relinked => Len(objs') >= 1 /\ objs'[1] = objs[1]
    <3>1. SUFFICES ASSUME relinked PROVE Len(objs') >= 1 /\ objs'[1] = objs[1]
      OBVIOUS
    <3>2. PICK n \in Nat : n = Len(objs) /\ n >= 1
      BY <1>0, <3>1 DEF OriginInv
    <3>3. Len(objs') = n + 1 /\ \A x \in 1 .. n : objs'[x] = objs[x]
      BY <1>0, <2>1, <3>2
    <3> QED
      BY <3>2, <3>3
  <2>4. relinked' => Came(objs'[1], origin')
    BY <2>2, <2>3 DEF OriginInv
  <2> QED
    BY <1>0, <2>2, <2>3, <2>4 DEF OriginInv
<1>2. CASE EndSearch
  <2>1. /\ stage = "search" /\ stage' = "layout" /\ UNCHANGED <<relinked, objs>>
        /\ origin' = IF relinked THEN origin \o Tail(objs) ELSE objs
    BY <1>2 DEF EndSearch, search
  <2>2. CASE relinked
    <3>1. Came(objs[1], origin) /\ objs # <<>>
      BY <2>1, <2>2 DEF OriginInv
    <3> DEFINE S == Range(origin) \cup Range(objs)
    <3>2. origin \in Seq(S) /\ Tail(objs) \in Seq(S)
      <4>1. origin \in Seq(S) /\ objs \in Seq(S)
        BY <1>0, SeqMonotonic
      <4> HIDE DEF S
      <4> QED
        BY <3>1, <4>1
    <3>3. \A o \in S : WellFormed(o)
      BY <1>0 DEF Objects
    <3> HIDE DEF S
    <3>4. PICK os, ps, n : os = origin /\ ps = origin' /\ n = Len(os) /\ os \in Seq(S) /\ n \in Nat
      BY <3>2
    <3>5. ps = os \o Tail(objs) /\ n \in 0 .. Len(ps) /\ SubSeq(ps, 1, n) = os /\ ps \in Seq(S)
      <4>1. ps = os \o Tail(objs)
        BY <2>1, <2>2, <3>4
      <4>2. PICK m \in Nat : m = Len(Tail(objs))
        BY <3>2
      <4>3. Len(ps) = n + m /\ ps \in Seq(S) /\ \A x \in 1 .. n : ps[x] = os[x]
        <5>1. Len(ps) = n + m /\ ps \in Seq(S)
          BY <3>2, <3>4, <4>1, <4>2, ConcatProperties
        <5> QED
          BY <3>2, <3>4, <4>1, <5>1, JoinedByte
      <4>4. n \in 0 .. Len(ps)
        BY <3>4, <4>2, <4>3
      <4>5. SubSeq(ps, 1, n) \in Seq(S) /\ Len(SubSeq(ps, 1, n)) = n
            /\ \A x \in 1 .. n : SubSeq(ps, 1, n)[x] = ps[x]
        BY <4>3, <4>4
      <4>6. SubSeq(ps, 1, n) = os
        BY <3>4, <4>3, <4>5
      <4> QED
        BY <4>1, <4>3, <4>4, <4>6
    <3>6. \E l \in 0 .. Len(origin') :
            LET qs == SubSeq(origin', 1, l)
            IN origin' = qs \o Tail(objs') /\ Came(objs'[1], qs)
      BY <2>1, <3>1, <3>4, <3>5
    <3>7. Objects(origin')
      BY <3>3, <3>4, <3>5, ObjectsOf
    <3>8. Len(objs') >= 1
      BY <2>1, <2>2 DEF OriginInv
    <3> QED
      BY <2>1, <2>2, <3>6, <3>7, <3>8 DEF OriginInv
  <2>3. CASE ~relinked
    BY <1>0, <2>1, <2>3 DEF OriginInv
  <2> QED
    BY <2>2, <2>3
<1>3. CASE Relink
  <2>1. PICK b \in Relinks : job' = [b EXCEPT !.objs = <<Output>> \o @] /\ objs' = job'.objs
    BY <1>3 DEF Relink
  <2>2. /\ stage = "done" /\ ~job.exe /\ ~relinked /\ relinked' = TRUE /\ stage' = "search"
        /\ origin' = origin
    BY <1>3 DEF Relink
  <2>3. b = [objs |-> b.objs, lib |-> b.lib, exe |-> b.exe, setEntry |-> b.setEntry]
        /\ b.objs \in Seq(Range(b.objs))
    BY JobsAssumption DEF Job, Objects
  <2>4. objs' = <<Output>> \o b.objs
    BY <2>1, <2>3
  <2>5. Len(objs') >= 1 /\ objs'[1] = Output
    BY <2>3, <2>4
  <2>6. origin = objs
    BY <2>2 DEF OriginInv
  <2>7. Came(Output, objs)
    <3>1. SUFFICES ASSUME Good(objs)
                   PROVE  Sound(Output) /\ IsJoin(Output, objs) /\ ~Twice(objs, SymsOf(objs))
      BY DEF Came
    <3>2. SymsInv /\ RefsInv /\ BytesInv /\ EntryInv /\ FailureInv
      BY <2>6, <3>1 DEF PartsInv
    <3> QED
      BY <2>2, <3>1, <3>2, OutputIsJoin, OutputIsSound
  <2>8. Came(objs'[1], origin')
    BY <2>2, <2>5, <2>6, <2>7
  <2> QED
    BY <1>0, <2>2, <2>5, <2>8 DEF OriginInv
<1>4. CASE ~Include /\ ~EndSearch /\ ~Relink
  <2>1. UNCHANGED <<objs, origin, relinked>> /\ (stage' = "search" <=> stage = "search")
    BY <1>4, OtherSteps
  <2> QED
    BY <2>1 DEF OriginInv
<1> QED
  BY <1>1, <1>2, <1>3, <1>4

----------------------------------------------------------------------------
(* 18. The inductive invariant *)

\* The invariant: unless one of the objects has symbols or relocations that
\* mean nothing, the output is what the loops have been through.
ProgramInv == Fresh /\ OriginInv /\ (Good(origin) => PartsInv)

\* It holds at first,
LEMMA ProgramInvStarts == Init => ProgramInv
<1> SUFFICES ASSUME Init PROVE ProgramInv
  OBVIOUS
<1>1. /\ stage = "search" /\ k = 1 /\ syms = <<>> /\ glob = <<>> /\ reloc = <<>> /\ undef = <<>>
      /\ entry = NoEntry /\ failure = FALSE /\ origin = <<>> /\ relinked = FALSE
  BY DEF Init
<1>2. Objects(origin)
  <2>1. origin \in Seq({})
    BY <1>1
  <2> QED
    BY <2>1, ObjectsOf
<1> QED
  BY <1>1, <1>2 DEF ProgramInv, PartsInv, Fresh, SymsInv, RefsInv, BytesInv, EntryInv, FailureInv,
     OriginInv, Linking, Ended

\* says nothing during the search and the layout,
LEMMA PartsInvEmpty ==
  ASSUME stage' \in {"search", "layout"}
  PROVE  PartsInv'
BY DEF PartsInv, SymsInv, RefsInv, BytesInv, EntryInv, FailureInv, Linking, Ended

\* and is kept by every step.
LEMMA ProgramInvStep ==
  ASSUME LinkInv, LinkInv', SegmentsInv, ProgramInv, [Next]_vars
  PROVE  ProgramInv'
<1>1. Fresh'
  BY FreshStep DEF ProgramInv
<1>2. OriginInv'
  BY OriginInvStep DEF ProgramInv
<1>3. ASSUME Good(origin)' PROVE PartsInv'
  <2>1. CASE Include \/ EndSearch \/ Relink
    <3>1. stage' \in {"search", "layout"}
      BY <2>1 DEF Include, EndSearch, Relink
    <3> QED
      BY <3>1, PartsInvEmpty
  <2>2. CASE stage = "search" /\ ~Include /\ ~EndSearch /\ ~Relink
    <3>1. stage' = "search"
      BY <2>2, OtherSteps
    <3> QED
      BY <3>1, PartsInvEmpty
  <2>3. CASE stage # "search" /\ ~Include /\ ~EndSearch /\ ~Relink
    <3>1. Good(origin)
      <4>1. origin' = origin
        BY <2>3, OtherSteps
      <4> QED
        BY <1>3, <4>1
    <3>2. Good(objs)
      BY <2>3, <3>1, LinkedAreGood DEF ProgramInv
    <3>3. Fresh /\ SymsInv /\ RefsInv /\ BytesInv /\ EntryInv /\ FailureInv
      BY <3>1 DEF ProgramInv, PartsInv
    <3>4. SymsInv' /\ RefsInv'
      BY <3>2, <3>3, SymsInvStep, RefsInvStep
    <3>5. BytesInv'
      BY <3>2, <3>3, BytesInvStep
    <3>6. EntryInv' /\ FailureInv'
      BY <3>2, <3>3, EntryInvStep, FailureInvStep
    <3> QED
      BY <3>4, <3>5, <3>6 DEF PartsInv
  <2> QED
    BY <2>1, <2>2, <2>3
<1> QED
  BY <1>1, <1>2, <1>3 DEF ProgramInv

\* As SegmentsAreDisjoint, it needs a layout that fits in the address space.
LEMMA ProgramInvHolds == Spec /\ []LayoutFits => [](LinkInv /\ SegmentsInv /\ ProgramInv)
<1>1. Init => SegmentsInv
  BY SegmentsInvStarts
<1>2. LinkInv /\ SegmentsInv /\ LayoutFits /\ [Next]_vars => SegmentsInv'
  BY PlacingStep, FillingStep DEF SegmentsInv
<1>3. LinkInv /\ LinkInv' /\ SegmentsInv /\ ProgramInv /\ [Next]_vars => ProgramInv'
  BY ProgramInvStep
<1> QED
  BY <1>1, <1>2, <1>3, ProgramInvStarts, LinkInvHolds, PTL DEF Spec

\* Adding to a remainder.
LEMMA RemainderAdded ==
  ASSUME NEW n \in Nat \ {0}, NEW x \in Int, NEW y \in Int
  PROVE  (y + (x % n)) % n = (y + x) % n
<1>1. PICK q \in Int, r \in Int, z \in Int : r = x % n /\ z = n * q /\ x = z + r
  <2>1. x % n \in Int /\ x \div n \in Int /\ x = n * (x \div n) + (x % n)
    BY Division
  <2>2. n * (x \div n) \in Int
    BY <2>1
  <2> QED
    BY <2>1, <2>2
<1>2. y + r = (y + x) + (-q) * n
  <2>1. (-q) * n = -z
    BY <1>1
  <2> QED
    BY <1>1, <2>1
<1>3. ((y + x) + (-q) * n) % n = (y + x) % n
  <2>1. PICK a \in Int, k0 \in Int : a = y + x /\ k0 = -q
    OBVIOUS
  <2>2. (a + k0 * n) % n = a % n
    BY Congruence
  <2> QED
    BY <2>1, <2>2
<1> QED
  BY <1>1, <1>2, <1>3

----------------------------------------------------------------------------
(* 19. Linking twice *)

\* Linking twice.  The objects ps are the objects os with the objects qs that
\* the first of os was linked from in its place: what os are joined to, ps are
\* joined to.
Replaced(qs, os, ps) ==
  /\ Good(qs) /\ Good(os) /\ Good(ps) /\ Len(os) >= 1 /\ IsJoin(os[1], qs)
  /\ Len(ps) = Len(qs) + (Len(os) - 1)
  /\ \A h \in 1 .. Len(qs) : ps[h] = qs[h]
  /\ \A h \in 2 .. Len(os) : ps[Len(qs) + (h - 1)] = os[h]

\* The objects of ps are those of qs and then those of os but the first.
LEMMA ReplacedTypes ==
  ASSUME NEW qs, NEW os, NEW ps, Replaced(qs, os, ps)
  PROVE  /\ Len(qs) \in Nat /\ Len(os) \in Nat \ {0} /\ Len(ps) \in Nat
         /\ DOMAIN qs = 1 .. Len(qs) /\ DOMAIN os = 1 .. Len(os) /\ DOMAIN ps = 1 .. Len(ps)
         /\ 1 \in 1 .. Len(os) /\ 1 \in 1 .. Len(os) + 1
         /\ \A i \in 1 .. Len(qs) : i \in 1 .. Len(ps) /\ ps[i] = qs[i]
         /\ \A i \in Len(qs) + 1 .. Len(ps) :
              i - Len(qs) + 1 \in 2 .. Len(os) /\ ps[i] = os[i - Len(qs) + 1]
         /\ \A h \in 2 .. Len(os) :
              /\ Len(qs) + (h - 1) \in Len(qs) + 1 .. Len(ps)
              /\ Len(qs) + (h - 1) - Len(qs) + 1 = h
              /\ ps[Len(qs) + (h - 1)] = os[h]
<1>1. /\ Len(qs) \in Nat /\ Len(os) \in Nat /\ Len(ps) \in Nat
      /\ DOMAIN qs = 1 .. Len(qs) /\ DOMAIN os = 1 .. Len(os) /\ DOMAIN ps = 1 .. Len(ps)
  BY GoodObjects DEF Replaced, Good
<1>2. PICK n \in Nat, m \in Nat, l \in Nat :
        n = Len(qs) /\ m = Len(os) /\ l = Len(ps) /\ l = n + (m - 1) /\ m >= 1
  BY <1>1 DEF Replaced
<1>3. ASSUME NEW i \in n + 1 .. l PROVE i - n + 1 \in 2 .. m /\ ps[i] = os[i - n + 1]
  <2>1. PICK h \in 2 .. m : h = i - n + 1 /\ n + (h - 1) = i
    BY <1>2
  <2>2. ps[n + (h - 1)] = os[h]
    BY <1>2, <2>1 DEF Replaced
  <2> QED
    BY <2>1, <2>2
<1>4. ASSUME NEW h \in 2 .. m
      PROVE  n + (h - 1) \in n + 1 .. l /\ n + (h - 1) - n + 1 = h /\ ps[n + (h - 1)] = os[h]
  <2>1. ps[n + (h - 1)] = os[h]
    BY <1>2 DEF Replaced
  <2> QED
    BY <1>2, <2>1
<1>5. ASSUME NEW i \in 1 .. n PROVE i \in 1 .. l /\ ps[i] = qs[i]
  BY <1>2 DEF Replaced
<1>6. m \in Nat \ {0} /\ 1 \in 1 .. m /\ 1 \in 1 .. m + 1
  BY <1>2
<1> QED
  BY <1>1, <1>2, <1>3, <1>4, <1>5, <1>6

\* A segment that no object has has no bytes.
LEMMA BeforeNone ==
  ASSUME NEW os, Objects(os), NEW t, \A i \in 1 .. Len(os) : t \notin SegsOf(os[i])
  PROVE  Before(os, Len(os) + 1, t) = 0
<1> DEFINE S == {m \in Nat : m <= Len(os) => Before(os, m + 1, t) = 0}
<1>1. Len(os) \in Nat
  BY GoodObjects
<1>2. 0 \in S
  <2>1. 0 + 1 = 1
    OBVIOUS
  <2> QED
    BY <2>1, BeforeFirst
<1>3. ASSUME NEW m \in Nat, m \in S PROVE m + 1 \in S
  <2>1. SUFFICES ASSUME m + 1 <= Len(os) PROVE Before(os, m + 1 + 1, t) = 0
    OBVIOUS
  <2>2. PICK i \in 1 .. Len(os) : i = m + 1
    BY <1>1, <2>1
  <2>3. Before(os, i, t) = 0
    BY <1>1, <1>3, <2>1, <2>2
  <2>4. Len(BytesIn(os[i], t)) = 0
    BY DEF BytesIn
  <2>5. Before(os, i + 1, t) = Before(os, i, t) + Len(BytesIn(os[i], t))
    BY BeforeNext
  <2> QED
    BY <2>2, <2>3, <2>4, <2>5
<1> HIDE DEF S
<1>4. Len(os) \in S
  BY <1>1, <1>2, <1>3, SetInduction
<1> QED
  BY <1>1, <1>4 DEF S

\* The bytes of the objects are where they are in the linked object.
LEMMA BeforeWithin ==
  ASSUME NEW qs, NEW os, NEW ps, Replaced(qs, os, ps), NEW t, NEW i \in 1 .. Len(qs) + 1
  PROVE  Before(ps, i, t) = Before(qs, i, t)
<1>1. Len(qs) \in Nat
  BY ReplacedTypes
<1>2. i \in Nat \ {0} /\ \A h \in 1 .. i - 1 : h \in 1 .. Len(qs)
  BY <1>1
<1>3. \A h \in 1 .. i - 1 : ps[h] = qs[h]
  BY <1>2, ReplacedTypes
<1> QED
  BY <1>2, <1>3, BeforeAlike

\* The first of os has as many bytes as qs together,
LEMMA FirstReplaced ==
  ASSUME NEW qs, NEW os, NEW ps, Replaced(qs, os, ps), NEW t
  PROVE  Len(BytesIn(os[1], t)) = Before(qs, Len(qs) + 1, t)
<1>1. /\ Objects(qs) /\ Objects(os) /\ Objects(ps) /\ IsJoin(os[1], qs)
      /\ Len(qs) \in Nat /\ Len(os) \in Nat \ {0} /\ Len(ps) \in Nat /\ 1 \in 1 .. Len(os)
      /\ Len(ps) = Len(qs) + (Len(os) - 1)
  BY ReplacedTypes DEF Replaced, Good
<1> DEFINE o == os[1]
<1>2. /\ DOMAIN StartsOf(o) = UNION {SegsOf(qs[i]) : i \in DOMAIN qs}
      /\ \A u \in DOMAIN StartsOf(o) : Len(ContentsOf(o)[u]) = Before(qs, Len(qs) + 1, u)
  BY <1>1 DEF IsJoin, Joined
<1>3. DOMAIN StartsOf(o) = SegsOf(o)
  BY DEF StartsOf
<1>4. CASE t \in SegsOf(o)
  BY <1>2, <1>3, <1>4 DEF ContentsOf, BytesIn
<1>5. CASE t \notin SegsOf(o)
  <2>1. \A i \in 1 .. Len(qs) : t \notin SegsOf(qs[i])
    BY <1>2, <1>3, <1>5, ReplacedTypes
  <2>2. Before(qs, Len(qs) + 1, t) = 0
    BY <1>1, <2>1, BeforeNone
  <2> QED
    BY <1>5, <2>2 DEF BytesIn
<1> QED
  BY <1>4, <1>5

\* so the later ones have as many before them in os as in ps.
LEMMA BeforeReplaced ==
  ASSUME NEW qs, NEW os, NEW ps, Replaced(qs, os, ps), NEW t, NEW h \in 1 .. Len(os)
  PROVE  Before(ps, Len(qs) + h, t) = Before(os, h + 1, t)
<1>1. /\ Objects(qs) /\ Objects(os) /\ Objects(ps) /\ IsJoin(os[1], qs)
      /\ Len(qs) \in Nat /\ Len(os) \in Nat \ {0} /\ Len(ps) \in Nat /\ 1 \in 1 .. Len(os)
      /\ Len(ps) = Len(qs) + (Len(os) - 1)
  BY ReplacedTypes DEF Replaced, Good
<1> DEFINE S == {m \in Nat : 1 + m <= Len(os) =>
                   Before(ps, Len(qs) + (1 + m), t) = Before(os, 1 + m + 1, t)}
<1>2. 0 \in S
  <2>1. Before(os, 1 + 1, t) = Before(os, 1, t) + Len(BytesIn(os[1], t))
    BY <1>1, BeforeNext
  <2>2. Before(os, 1, t) = 0 /\ Len(BytesIn(os[1], t)) \in Nat
    BY <1>1, BeforeFirst, GoodObjects
  <2>3. Len(qs) + 1 \in 1 .. Len(qs) + 1
    BY <1>1
  <2>4. Before(ps, Len(qs) + 1, t) = Before(qs, Len(qs) + 1, t)
    BY <2>3, BeforeWithin
  <2>5. 1 + 0 = 1
    OBVIOUS
  <2> QED
    BY <2>1, <2>2, <2>4, <2>5, FirstReplaced
<1>3. ASSUME NEW m \in Nat, m \in S PROVE m + 1 \in S
  <2>1. SUFFICES ASSUME 1 + (m + 1) <= Len(os)
                 PROVE  Before(ps, Len(qs) + (1 + (m + 1)), t) = Before(os, 1 + (m + 1) + 1, t)
    OBVIOUS
  <2>2. PICK g \in 2 .. Len(os) : g = 1 + m + 1 /\ g = 1 + (m + 1)
    BY <1>1, <2>1
  <2>3. PICK i \in 1 .. Len(ps) : i = Len(qs) + (g - 1) /\ i = Len(qs) + (1 + m) /\ i + 1 = Len(qs) + g
    BY <1>1, <2>2
  <2>4. ps[i] = os[g]
    BY <2>3, ReplacedTypes
  <2>5. Before(ps, i, t) = Before(os, g, t)
    BY <1>1, <1>3, <2>1, <2>2, <2>3
  <2>6. Before(ps, i + 1, t) = Before(ps, i, t) + Len(BytesIn(ps[i], t))
    BY <1>1, BeforeNext
  <2>7. g \in 1 .. Len(os)
    BY <2>2
  <2>8. Before(os, g + 1, t) = Before(os, g, t) + Len(BytesIn(os[g], t))
    BY <1>1, <2>7, BeforeNext
  <2> QED
    BY <2>2, <2>3, <2>4, <2>5, <2>6, <2>8
<1> HIDE DEF S
<1>4. PICK m \in Nat : m = h - 1 /\ 1 + m = h /\ 1 + m <= Len(os)
  BY <1>1
<1>5. m \in S
  BY <1>2, <1>3, SetInduction
<1> QED
  BY <1>4, <1>5 DEF S

\* Objects after the first keep their place.
LEMMA LaterReplaced ==
  ASSUME NEW qs, NEW os, NEW ps, Replaced(qs, os, ps), NEW h \in 2 .. Len(os), NEW i,
         i = Len(qs) + (h - 1)
  PROVE  /\ ps[i] = os[h] /\ i \in 1 .. Len(ps) /\ i > Len(qs)
         /\ \A t : Before(ps, i, t) = Before(os, h, t)
         /\ \A st, s : Put(st, ps, i, s) = Put(st, os, h, s)
<1>1. /\ Len(qs) \in Nat /\ Len(os) \in Nat \ {0} /\ Len(ps) \in Nat
      /\ ps[i] = os[h] /\ i \in Len(qs) + 1 .. Len(ps)
  BY ReplacedTypes
<1>2. PICK g \in 1 .. Len(os) : g = h - 1 /\ g + 1 = h
  BY <1>1
<1>3. ASSUME NEW t PROVE Before(ps, i, t) = Before(os, h, t)
  <2>1. Before(ps, Len(qs) + g, t) = Before(os, g + 1, t)
    BY <1>2, BeforeReplaced
  <2> QED
    BY <1>2, <2>1
<1> QED
  BY <1>1, <1>3 DEF Put

\* Placed twice is placed once.
LEMMA PutReplaced ==
  ASSUME NEW qs, NEW os, NEW ps, Replaced(qs, os, ps), NEW i \in 1 .. Len(qs),
         NEW st, NEW s, s.seg \in SegsOf(qs[i]), s.loc \in Addr, \A t \in DOMAIN st : st[t] \in Nat,
         s.seg \in DOMAIN st,
         NEW u, u.seg = s.seg, u.loc = Put(StartsOf(os[1]), qs, i, s)
  PROVE  Put(st, os, 1, u) = Put(st, ps, i, s)
<1> DEFINE o == os[1]  t == s.seg
<1>1. /\ Len(qs) \in Nat /\ 1 \in 1 .. Len(os) /\ Objects(qs) /\ Objects(os) /\ i \in 1 .. Len(qs) + 1
      /\ ps[i] = qs[i] /\ i \in DOMAIN qs
  BY ReplacedTypes DEF Replaced, Good
<1>2. t \in SegsOf(o)
  <2>1. DOMAIN StartsOf(o) = UNION {SegsOf(qs[h]) : h \in DOMAIN qs}
    BY DEF IsJoin, Joined, Replaced
  <2> QED
    BY <1>1, <2>1 DEF StartsOf
<1>3. StartsOf(o)[t] = StartOf(o, t) /\ StartOf(o, t) \in Addr
  BY <1>1, <1>2, GoodObjects DEF StartsOf, StartOf
<1>4. PICK a \in Int, b \in Int, c \in Int, d \in Int, n \in Nat \ {0} :
        /\ a = StartOf(o, t) /\ b = Before(qs, i, t) /\ c = s.loc - StartOf(qs[i], t) /\ d = st[t]
        /\ n = W
  <2>1. Before(qs, i, t) \in Nat /\ StartOf(qs[i], t) \in Addr
    BY <1>1, BeforeType, GoodObjects
  <2>2. s.loc - StartOf(qs[i], t) \in Int
    BY <2>1 DEF Addr
  <2> QED
    BY <1>3, <2>1, <2>2, LinkerAssumption DEF Addr
<1>5. u.loc = (a + b + c) % n
  BY <1>3, <1>4 DEF Put
<1>6. Before(os, 1, t) = 0 /\ Before(ps, i, t) = b
  <2>1. Before(os, 1, t) = 0
    BY BeforeFirst
  <2>2. Before(ps, i, t) = Before(qs, i, t)
    BY <1>1, BeforeWithin
  <2> QED
    BY <1>4, <2>1, <2>2
<1>7. Put(st, ps, i, s) = (d + b + c) % n
  BY <1>1, <1>4, <1>6 DEF Put
<1>8. Put(st, os, 1, u) = (d + 0 + (u.loc - a)) % n
  BY <1>4, <1>6 DEF Put
<1>9. (d + 0 + (((a + b + c) % n) - a)) % n = (d + b + c) % n
  <2>1. PICK x \in Int, y \in Int : x = a + b + c /\ y = d - a /\ y + x = d + b + c
    OBVIOUS
  <2>0. PICK r \in Int : r = x % n
    <3>1. x % n \in 0 .. n - 1
      BY Division
    <3> QED
      BY <3>1
  <2>2. (y + (x % n)) % n = (y + x) % n
    BY RemainderAdded
  <2>3. d + 0 + (r - a) = y + r
    BY <2>1
  <2> QED
    BY <2>1, <2>0, <2>2, <2>3
<1> QED
  BY <1>5, <1>7, <1>8, <1>9

----------------------------------------------------------------------------
(* 20. The symbols of a program linked twice *)

\* Symbol c of os is what symbol d of ps has become.
Same(qs, os, d, c) ==
  \/ /\ d[1] \in 1 .. Len(qs) /\ c[1] = 1
     /\ IsSym(StartsOf(os[1]), qs, os[1].syms, d, c[2])
  \/ /\ c[1] \in 2 .. Len(os) /\ d = <<Len(qs) + (c[1] - 1), c[2]>>

\* A symbol of ps is one of qs or of the later objects of os,
LEMMA SymReplaced ==
  ASSUME NEW qs, NEW os, NEW ps, Replaced(qs, os, ps), NEW d \in SymsOf(ps)
  PROVE  \/ d[1] \in 1 .. Len(qs) /\ d \in SymsOf(qs) /\ Sym(qs, d) = Sym(ps, d)
         \/ \E c \in SymsOf(os) :
              /\ c[1] \in 2 .. Len(os) /\ d = <<Len(qs) + (c[1] - 1), c[2]>>
              /\ Sym(os, c) = Sym(ps, d)
<1>1. /\ Len(qs) \in Nat /\ Len(ps) \in Nat /\ Len(os) \in Nat
      /\ DOMAIN qs = 1 .. Len(qs) /\ DOMAIN os = 1 .. Len(os)
  BY ReplacedTypes
<1>2. /\ d = <<d[1], d[2]>> /\ d[1] \in 1 .. Len(ps) /\ d[2] \in DOMAIN ps[d[1]].syms
  BY SymType DEF Replaced
<1>3. CASE d[1] \in 1 .. Len(qs)
  <2>1. ps[d[1]] = qs[d[1]]
    BY <1>3, ReplacedTypes
  <2> QED
    BY <1>1, <1>2, <1>3, <2>1 DEF SymsOf, Sym
<1>4. CASE d[1] \notin 1 .. Len(qs)
  <2>1. PICK i \in Len(qs) + 1 .. Len(ps) : i = d[1]
    BY <1>1, <1>2, <1>4
  <2>2. i - Len(qs) + 1 \in 2 .. Len(os) /\ ps[i] = os[i - Len(qs) + 1]
    BY ReplacedTypes
  <2>3. PICK h \in 2 .. Len(os) : h = i - Len(qs) + 1 /\ ps[d[1]] = os[h]
    BY <2>1, <2>2
  <2>4. d[1] = Len(qs) + (h - 1)
    BY <1>1, <2>1, <2>3
  <2>5. h \in DOMAIN os
    BY <1>1, <2>3
  <2>6. <<h, d[2]>> \in SymsOf(os) /\ Sym(os, <<h, d[2]>>) = Sym(ps, d)
    BY <1>2, <2>3, <2>5 DEF SymsOf, Sym
  <2> QED
    BY <1>2, <2>3, <2>4, <2>6
<1> QED
  BY <1>3, <1>4

\* a symbol of os is one of the first or of the later objects,
LEMMA SymReplacing ==
  ASSUME NEW qs, NEW os, NEW ps, Replaced(qs, os, ps), NEW c \in SymsOf(os)
  PROVE  \/ c[1] = 1 /\ c = <<1, c[2]>> /\ c[2] \in DOMAIN os[1].syms /\ Sym(os, c) = os[1].syms[c[2]]
         \/ /\ c[1] \in 2 .. Len(os)
            /\ \E d \in SymsOf(ps) : d = <<Len(qs) + (c[1] - 1), c[2]>> /\ Sym(ps, d) = Sym(os, c)
<1>1. Len(os) \in Nat /\ Len(ps) \in Nat /\ Len(qs) \in Nat /\ DOMAIN ps = 1 .. Len(ps)
  BY ReplacedTypes
<1>2. /\ c = <<c[1], c[2]>> /\ c[1] \in 1 .. Len(os) /\ c[2] \in DOMAIN os[c[1]].syms
  BY SymType DEF Replaced
<1>3. CASE c[1] = 1
  BY <1>2, <1>3 DEF Sym
<1>4. CASE c[1] \in 2 .. Len(os)
  <2>1. PICK i : i = Len(qs) + (c[1] - 1)
    OBVIOUS
  <2>2. ps[i] = os[c[1]] /\ i \in Len(qs) + 1 .. Len(ps)
    <3>1. PICK h \in 2 .. Len(os) : h = c[1]
      BY <1>4
    <3>2. Len(qs) + (h - 1) \in Len(qs) + 1 .. Len(ps) /\ ps[Len(qs) + (h - 1)] = os[h]
      BY ReplacedTypes
    <3>3. i = Len(qs) + (h - 1)
      BY <2>1, <3>1
    <3> QED
      BY <3>1, <3>2, <3>3
  <2>3. i \in DOMAIN ps
    BY <1>1, <2>2
  <2>4. <<i, c[2]>> \in SymsOf(ps) /\ Sym(ps, <<i, c[2]>>) = Sym(os, c)
    BY <1>2, <2>2, <2>3 DEF SymsOf, Sym
  <2> QED
    BY <1>4, <2>1, <2>4
<1> QED
  BY <1>1, <1>2, <1>3, <1>4

\* those of qs are symbols of ps,
LEMMA SymWithin ==
  ASSUME NEW qs, NEW os, NEW ps, Replaced(qs, os, ps), NEW d \in SymsOf(qs)
  PROVE  d \in SymsOf(ps) /\ Sym(ps, d) = Sym(qs, d) /\ d[1] \in 1 .. Len(qs)
<1>1. /\ d = <<d[1], d[2]>> /\ d[1] \in 1 .. Len(qs) /\ d[2] \in DOMAIN qs[d[1]].syms
  BY SymType DEF Replaced
<1>2. d[1] \in DOMAIN ps /\ ps[d[1]] = qs[d[1]]
  BY <1>1, ReplacedTypes
<1> QED
  BY <1>1, <1>2 DEF SymsOf, Sym

\* and those of the first object symbols of os.
LEMMA FirstHasSymbol ==
  ASSUME NEW qs, NEW os, NEW ps, Replaced(qs, os, ps), NEW a \in DOMAIN os[1].syms
  PROVE  <<1, a>> \in SymsOf(os) /\ Sym(os, <<1, a>>) = os[1].syms[a]
<1>1. 1 \in DOMAIN os
  BY ReplacedTypes
<1> QED
  BY <1>1 DEF SymsOf, Sym

\* Every symbol has become one.
LEMMA SymbolBecomes ==
  ASSUME NEW qs, NEW os, NEW ps, Replaced(qs, os, ps), NEW d \in SymsOf(ps)
  PROVE  \E c \in SymsOf(os) : Same(qs, os, d, c)
<1>1. CASE d[1] \in 1 .. Len(qs) /\ d \in SymsOf(qs)
  <2>1. PICK a \in DOMAIN os[1].syms : IsSym(StartsOf(os[1]), qs, os[1].syms, d, a)
    BY <1>1 DEF Replaced, IsJoin, Joined, SymsJoined
  <2>2. <<1, a>> \in SymsOf(os)
    BY FirstHasSymbol
  <2> QED
    BY <1>1, <2>1, <2>2 DEF Same
<1>2. ASSUME NEW c \in SymsOf(os), c[1] \in 2 .. Len(os), d = <<Len(qs) + (c[1] - 1), c[2]>>
      PROVE  Same(qs, os, d, c)
  BY <1>2 DEF Same
<1> QED
  BY <1>1, <1>2, SymReplaced

\* A definition has become a definition.
LEMMA DefinitionBecomes ==
  ASSUME NEW qs, NEW os, NEW ps, Replaced(qs, os, ps), NEW d \in SymsOf(ps), NEW c \in SymsOf(os),
         Same(qs, os, d, c), NEW n, Defines(ps, d, n)
  PROVE  Defines(os, c, n)
<1>0. Len(qs) \in Nat /\ Len(os) \in Nat
  BY ReplacedTypes
<1>1. CASE d[1] \in 1 .. Len(qs) /\ c[1] = 1 /\ IsSym(StartsOf(os[1]), qs, os[1].syms, d, c[2])
  <2>1. d \in SymsOf(qs) /\ Sym(qs, d) = Sym(ps, d)
    <3>1. ASSUME NEW e \in SymsOf(os), e[1] \in 2 .. Len(os), d = <<Len(qs) + (e[1] - 1), e[2]>>
          PROVE  FALSE
      <4>1. d[1] = Len(qs) + (e[1] - 1)
        BY <3>1
      <4> QED
        BY <1>0, <1>1, <3>1, <4>1
    <3> QED
      BY <3>1, SymReplaced
  <2>2. Defines(qs, d, n)
    BY <2>1 DEF Defines
  <2>3. PICK y : y = os[1].syms[c[2]]
    OBVIOUS
  <2>4. c[2] \in DOMAIN os[1].syms /\ y.global /\ y.name = n
    BY <1>1, <2>2, <2>3 DEF IsSym, Defines
  <2>5. ~Unknown(y)
    BY <2>1, <2>2, <2>3, <2>4 DEF Replaced, IsJoin, Joined, SymsJoined
  <2>6. Sym(os, c) = y
    BY <1>1, <2>3 DEF Sym
  <2> QED
    BY <2>4, <2>5, <2>6 DEF Defines
<1>2. CASE c[1] \in 2 .. Len(os) /\ d = <<Len(qs) + (c[1] - 1), c[2]>>
  <2>1. c[1] # 1
    BY <1>2
  <2>2. Sym(ps, d) = Sym(os, c)
    BY <1>2, <2>1, SymReplacing
  <2> QED
    BY <2>2 DEF Defines
<1> QED
  BY <1>1, <1>2 DEF Same

\* A definition has one that became it.
LEMMA DefinitionWas ==
  ASSUME NEW qs, NEW os, NEW ps, Replaced(qs, os, ps), NEW c \in SymsOf(os), NEW n, Defines(os, c, n),
         NEW st, \A t \in DOMAIN st : st[t] \in Nat, \A i \in DOMAIN os : SegsOf(os[i]) \subseteq DOMAIN st
  PROVE  \E d \in SymsOf(ps) : /\ Defines(ps, d, n) /\ Sym(ps, d).seg = Sym(os, c).seg
                               /\ Put(st, ps, d[1], Sym(ps, d)) = Put(st, os, c[1], Sym(os, c))
                               /\ d[1] \in 1 .. Len(qs) => c[1] = 1
                               /\ d[1] \notin 1 .. Len(qs) => d = <<Len(qs) + (c[1] - 1), c[2]>>
<1>0. Len(qs) \in Nat /\ Len(os) \in Nat /\ Good(qs) /\ Good(os) /\ Good(ps) /\ 1 \in DOMAIN os
  BY ReplacedTypes DEF Replaced
<1>1. CASE c[1] = 1 /\ c[2] \in DOMAIN os[1].syms /\ Sym(os, c) = os[1].syms[c[2]]
  <2>1. PICK y : y = os[1].syms[c[2]]
    OBVIOUS
  <2>2. y.global /\ y.name = n /\ ~Unknown(y)
    BY <1>1, <2>1 DEF Defines
  <2>3. PICK d \in SymsOf(qs) :
          Defines(qs, d, n) /\ y.seg = Sym(qs, d).seg /\ y.loc = Put(StartsOf(os[1]), qs, d[1], Sym(qs, d))
    BY <1>1, <2>1, <2>2 DEF Replaced, IsJoin, Joined, SymsJoined
  <2>4. d \in SymsOf(ps) /\ Sym(ps, d) = Sym(qs, d) /\ d[1] \in 1 .. Len(qs)
    BY SymWithin
  <2>5. /\ Sym(qs, d).seg \in SegsOf(qs[d[1]]) /\ Sym(qs, d).loc \in Addr
    <3>1. Sym(qs, d) \in Symbol /\ ~Unknown(Sym(qs, d))
      BY <1>0, <2>3, SymType DEF Defines
    <3>2. Sym(qs, d).seg \in SegsOf(qs[d[1]])
      BY <1>0, <3>1, SymType
    <3> QED
      BY <3>1, <3>2 DEF Symbol
  <2>6. y.seg \in DOMAIN st
    <3>1. y.seg \in SegsOf(os[1])
      BY <1>0, <1>1, <2>1, <2>2, SymType
    <3> QED
      BY <1>0, <3>1
  <2>7. Put(st, os, 1, y) = Put(st, ps, d[1], Sym(qs, d))
    BY <2>3, <2>4, <2>5, <2>6, PutReplaced
  <2>8. Defines(ps, d, n)
    BY <2>3, <2>4 DEF Defines
  <2> QED
    BY <1>1, <2>1, <2>3, <2>4, <2>7, <2>8
<1>2. ASSUME NEW d \in SymsOf(ps), c[1] \in 2 .. Len(os), d = <<Len(qs) + (c[1] - 1), c[2]>>,
             Sym(ps, d) = Sym(os, c)
      PROVE  /\ Defines(ps, d, n) /\ Sym(ps, d).seg = Sym(os, c).seg
             /\ Put(st, ps, d[1], Sym(ps, d)) = Put(st, os, c[1], Sym(os, c))
             /\ d[1] \notin 1 .. Len(qs)
  <2>1. d[1] = Len(qs) + (c[1] - 1) /\ d[1] > Len(qs)
    BY <1>0, <1>2
  <2>2. \A s : Put(st, ps, d[1], s) = Put(st, os, c[1], s)
    <3>1. PICK h \in 2 .. Len(os) : h = c[1]
      BY <1>2
    <3>2. PICK i : i = d[1] /\ i = Len(qs) + (h - 1)
      BY <2>1, <3>1
    <3>3. \A s : Put(st, ps, i, s) = Put(st, os, h, s)
      BY <3>2, LaterReplaced
    <3> QED
      BY <3>1, <3>2, <3>3
  <2>3. d[1] \notin 1 .. Len(qs)
    BY <1>0, <1>2, <2>1
  <2> QED
    BY <1>2, <2>2, <2>3 DEF Defines
<1> QED
  BY <1>1, <1>2, SymReplacing

\* The place of a symbol in the output is that of what it has become.
LEMMA IsSymReplaced ==
  ASSUME NEW qs, NEW os, NEW ps, Replaced(qs, os, ps), NEW d \in SymsOf(ps), NEW c \in SymsOf(os),
         Same(qs, os, d, c),
         NEW st, \A t \in DOMAIN st : st[t] \in Nat, \A i \in DOMAIN os : SegsOf(os[i]) \subseteq DOMAIN st,
         NEW ys, NEW a, IsSym(st, os, ys, c, a)
  PROVE  IsSym(st, ps, ys, d, a)
<1>0. Len(qs) \in Nat /\ Len(os) \in Nat /\ Good(qs) /\ Good(os) /\ Good(ps) /\ 1 \in DOMAIN os
  BY ReplacedTypes DEF Replaced
<1>1. CASE d[1] \in 1 .. Len(qs) /\ c[1] = 1 /\ IsSym(StartsOf(os[1]), qs, os[1].syms, d, c[2])
  <2>1. d \in SymsOf(qs) /\ Sym(qs, d) = Sym(ps, d)
    <3>1. ASSUME NEW e \in SymsOf(os), e[1] \in 2 .. Len(os), d = <<Len(qs) + (e[1] - 1), e[2]>>
          PROVE  FALSE
      <4>1. d[1] = Len(qs) + (e[1] - 1)
        BY <3>1
      <4> QED
        BY <1>0, <1>1, <3>1, <4>1
    <3> QED
      BY <3>1, SymReplaced
  <2>2. PICK y : y = os[1].syms[c[2]]
    OBVIOUS
  <2>3. Sym(os, c) = y
    BY <1>1, <2>2 DEF Sym
  <2>4. CASE Sym(qs, d).global
    <3>1. y.global /\ y.name = Sym(qs, d).name
      BY <1>1, <2>2, <2>4 DEF IsSym
    <3> QED
      BY <2>1, <2>3, <2>4, <3>1 DEF IsSym
  <2>5. CASE ~Sym(qs, d).global
    <3>1. y = There(StartsOf(os[1]), qs, d)
      BY <1>1, <2>2, <2>5 DEF IsSym
    <3>2. PICK s \in Symbol : s = Sym(qs, d)
      BY <1>0, <2>1, SymType
    <3>3. PICK p : p = Put(StartsOf(os[1]), qs, d[1], s)
      OBVIOUS
    <3>4. y = [s EXCEPT !.loc = p]
      BY <3>1, <3>2, <3>3 DEF There
    <3>5. y.global = s.global /\ y.seg = s.seg /\ y.loc = p
      BY <3>4 DEF Symbol
    <3>6. s.seg \in SegsOf(qs[d[1]]) /\ s.loc \in Addr
      <4>1. ~Unknown(s)
        BY <1>0, <2>1, <2>5, <3>2, SymType
      <4>2. s.seg \in SegsOf(qs[d[1]])
        BY <1>0, <2>1, <3>2, <4>1, SymType
      <4> QED
        BY <4>2 DEF Symbol
    <3>7. y.seg \in DOMAIN st
      <4>1. ~y.global
        BY <2>5, <3>2, <3>5
      <4>2. y.seg \in SegsOf(os[1])
        BY <1>0, <1>1, <2>3, <4>1, SymType
      <4> QED
        BY <1>0, <4>2
    <3>8. Put(st, os, 1, y) = Put(st, ps, d[1], s)
      BY <1>1, <3>3, <3>5, <3>6, <3>7, PutReplaced
    <3>9. PICK q : q = Put(st, ps, d[1], s)
      OBVIOUS
    <3>10. There(st, os, c) = [y EXCEPT !.loc = q]
      BY <1>1, <2>3, <3>8, <3>9 DEF There
    <3>11. There(st, ps, d) = [s EXCEPT !.loc = q]
      BY <2>1, <3>2, <3>9 DEF There
    <3>12. [y EXCEPT !.loc = q] = [s EXCEPT !.loc = q]
      BY <3>4 DEF Symbol
    <3>13. ys[a] = There(st, os, c) /\ a \in DOMAIN ys
      BY <2>3, <2>5, <3>2, <3>5 DEF IsSym
    <3> QED
      BY <2>1, <2>5, <3>10, <3>11, <3>12, <3>13 DEF IsSym
  <2> QED
    BY <2>4, <2>5
<1>2. CASE c[1] \in 2 .. Len(os) /\ d = <<Len(qs) + (c[1] - 1), c[2]>>
  <2>1. c[1] # 1
    BY <1>2
  <2>2. Sym(ps, d) = Sym(os, c)
    BY <1>2, <2>1, SymReplacing
  <2>3. \A s : Put(st, ps, d[1], s) = Put(st, os, c[1], s)
    <3>1. PICK h \in 2 .. Len(os) : h = c[1]
      BY <1>2
    <3>2. PICK i : i = d[1] /\ i = Len(qs) + (h - 1)
      BY <1>2, <3>1
    <3>3. \A s : Put(st, ps, i, s) = Put(st, os, h, s)
      BY <3>2, LaterReplaced
    <3> QED
      BY <3>1, <3>2, <3>3
  <2>4. There(st, ps, d) = There(st, os, c)
    BY <2>2, <2>3 DEF There
  <2> QED
    BY <2>2, <2>4 DEF IsSym
<1> QED
  BY <1>1, <1>2 DEF Same

\* The symbol table of os is that of ps.
LEMMA SymsReplaced ==
  ASSUME NEW qs, NEW os, NEW ps, Replaced(qs, os, ps),
         NEW st, \A t \in DOMAIN st : st[t] \in Nat, \A i \in DOMAIN os : SegsOf(os[i]) \subseteq DOMAIN st,
         NEW ys, SymsJoined(st, os, ys, SymsOf(os))
  PROVE  SymsJoined(st, ps, ys, SymsOf(ps))
<1>1. ASSUME NEW a \in DOMAIN ys, ~ys[a].global
      PROVE  \E d \in SymsOf(ps) : ~Sym(ps, d).global /\ IsSym(st, ps, ys, d, a)
  <2>1. PICK c \in SymsOf(os) : ~Sym(os, c).global /\ IsSym(st, os, ys, c, a)
    BY <1>1 DEF SymsJoined
  <2>2. ASSUME c[1] = 1, c[2] \in DOMAIN os[1].syms, Sym(os, c) = os[1].syms[c[2]]
        PROVE  \E d \in SymsOf(ps) : ~Sym(ps, d).global /\ Same(qs, os, d, c)
    <3>1. PICK d \in SymsOf(qs) :
            ~Sym(qs, d).global /\ IsSym(StartsOf(os[1]), qs, os[1].syms, d, c[2])
      BY <2>1, <2>2 DEF Replaced, IsJoin, Joined, SymsJoined
    <3>2. d \in SymsOf(ps) /\ Sym(ps, d) = Sym(qs, d) /\ d[1] \in 1 .. Len(qs)
      BY SymWithin
    <3> QED
      BY <2>2, <3>1, <3>2 DEF Same
  <2>3. ASSUME NEW d \in SymsOf(ps), c[1] \in 2 .. Len(os), d = <<Len(qs) + (c[1] - 1), c[2]>>,
               Sym(ps, d) = Sym(os, c)
        PROVE  ~Sym(ps, d).global /\ Same(qs, os, d, c)
    BY <2>1, <2>3 DEF Same
  <2>4. PICK d \in SymsOf(ps) : ~Sym(ps, d).global /\ Same(qs, os, d, c)
    BY <2>2, <2>3, SymReplacing
  <2>5. IsSym(st, ps, ys, d, a)
    BY <2>1, <2>4, IsSymReplaced
  <2> QED
    BY <2>4, <2>5
<1>2. ASSUME NEW a \in DOMAIN ys, ys[a].global
      PROVE  \E d \in SymsOf(ps) : Sym(ps, d).global /\ Sym(ps, d).name = ys[a].name
  <2>1. PICK c \in SymsOf(os) : Sym(os, c).global /\ Sym(os, c).name = ys[a].name
    BY <1>2 DEF SymsJoined
  <2>2. ASSUME c[2] \in DOMAIN os[1].syms, Sym(os, c) = os[1].syms[c[2]]
        PROVE  \E d \in SymsOf(ps) : Sym(ps, d).global /\ Sym(ps, d).name = ys[a].name
    <3>1. PICK d \in SymsOf(qs) : Sym(qs, d).global /\ Sym(qs, d).name = os[1].syms[c[2]].name
      BY <2>1, <2>2 DEF Replaced, IsJoin, Joined, SymsJoined
    <3> QED
      BY <2>1, <2>2, <3>1, SymWithin
  <2> QED
    BY <2>1, <2>2, SymReplacing
<1>3. ASSUME NEW a \in DOMAIN ys, ys[a].global, Unknown(ys[a])
      PROVE  ys[a].loc = Nowhere /\ \A d \in SymsOf(ps) : ~Defines(ps, d, ys[a].name)
  <2>1. ys[a].loc = Nowhere /\ \A c \in SymsOf(os) : ~Defines(os, c, ys[a].name)
    BY <1>3 DEF SymsJoined
  <2>2. ASSUME NEW d \in SymsOf(ps), Defines(ps, d, ys[a].name) PROVE FALSE
    <3>1. PICK c \in SymsOf(os) : Same(qs, os, d, c)
      BY SymbolBecomes
    <3>2. Defines(os, c, ys[a].name)
      BY <2>2, <3>1, DefinitionBecomes
    <3> QED
      BY <2>1, <3>2
  <2> QED
    BY <2>1, <2>2
<1>4. ASSUME NEW a \in DOMAIN ys, ys[a].global, ~Unknown(ys[a])
      PROVE  \E d \in SymsOf(ps) : /\ Defines(ps, d, ys[a].name)
                                   /\ ys[a].seg = Sym(ps, d).seg
                                   /\ ys[a].loc = Put(st, ps, d[1], Sym(ps, d))
  <2>1. PICK c \in SymsOf(os) : /\ Defines(os, c, ys[a].name) /\ ys[a].seg = Sym(os, c).seg
                                /\ ys[a].loc = Put(st, os, c[1], Sym(os, c))
    BY <1>4 DEF SymsJoined
  <2>2. PICK d \in SymsOf(ps) : /\ Defines(ps, d, ys[a].name) /\ Sym(ps, d).seg = Sym(os, c).seg
                                /\ Put(st, ps, d[1], Sym(ps, d)) = Put(st, os, c[1], Sym(os, c))
    BY <2>1, DefinitionWas
  <2> QED
    BY <2>1, <2>2
<1>5. ASSUME NEW d \in SymsOf(ps) PROVE \E a \in DOMAIN ys : IsSym(st, ps, ys, d, a)
  <2>1. PICK c \in SymsOf(os) : Same(qs, os, d, c)
    BY SymbolBecomes
  <2>2. PICK a \in DOMAIN ys : IsSym(st, os, ys, c, a)
    BY DEF SymsJoined
  <2> QED
    BY <2>1, <2>2, IsSymReplaced
<1>6. \A a, b \in DOMAIN ys : ys[a].global /\ ys[b].global /\ ys[a].name = ys[b].name => a = b
  BY DEF SymsJoined
<1> QED
  BY <1>1, <1>2, <1>3, <1>4, <1>5, <1>6 DEF SymsJoined

\* A symbol is defined twice by ps exactly if it is by os, when qs were linked
\* without complaint.
LEMMA TwiceReplaced ==
  ASSUME NEW qs, NEW os, NEW ps, Replaced(qs, os, ps), ~Twice(qs, SymsOf(qs)),
         NEW st, \A t \in DOMAIN st : st[t] \in Nat, \A i \in DOMAIN os : SegsOf(os[i]) \subseteq DOMAIN st
  PROVE  Twice(os, SymsOf(os)) <=> Twice(ps, SymsOf(ps))
<1>0. Len(qs) \in Nat /\ Len(os) \in Nat /\ Good(os) /\ Good(ps)
  BY ReplacedTypes DEF Replaced
<1>1. ASSUME Twice(os, SymsOf(os)) PROVE Twice(ps, SymsOf(ps))
  <2>1. PICK n \in Names : \E c, e \in SymsOf(os) : c # e /\ Defines(os, c, n) /\ Defines(os, e, n)
    BY <1>1 DEF Twice
  <2>2. PICK c \in SymsOf(os), e \in SymsOf(os) : c # e /\ Defines(os, c, n) /\ Defines(os, e, n)
    BY <2>1
  <2>3. /\ c = <<c[1], c[2]>> /\ c[1] \in 1 .. Len(os) /\ e = <<e[1], e[2]>> /\ e[1] \in 1 .. Len(os)
        /\ c[2] \in DOMAIN os[c[1]].syms /\ e[2] \in DOMAIN os[e[1]].syms
    BY <1>0, SymType
  <2>4. c[1] # 1 \/ e[1] # 1
    <3>1. SUFFICES ASSUME c[1] = 1, e[1] = 1 PROVE FALSE
      OBVIOUS
    <3>2. /\ os[1].syms[c[2]].global /\ os[1].syms[e[2]].global
          /\ os[1].syms[c[2]].name = os[1].syms[e[2]].name
      BY <2>2, <3>1 DEF Defines, Sym
    <3>3. c[2] = e[2]
      BY <2>3, <3>1, <3>2 DEF Replaced, IsJoin, Joined, SymsJoined
    <3> QED
      BY <2>2, <2>3, <3>1, <3>3
  <2>5. PICK d \in SymsOf(ps) : /\ Defines(ps, d, n)
                                /\ d[1] \in 1 .. Len(qs) => c[1] = 1
                                /\ d[1] \notin 1 .. Len(qs) => d = <<Len(qs) + (c[1] - 1), c[2]>>
    BY <2>2, DefinitionWas
  <2>6. PICK f \in SymsOf(ps) : /\ Defines(ps, f, n)
                                /\ f[1] \in 1 .. Len(qs) => e[1] = 1
                                /\ f[1] \notin 1 .. Len(qs) => f = <<Len(qs) + (e[1] - 1), e[2]>>
    BY <2>2, DefinitionWas
  <2>7. d # f
    <3>1. SUFFICES ASSUME d = f PROVE FALSE
      OBVIOUS
    <3>2. d[1] \notin 1 .. Len(qs)
      BY <2>4, <2>5, <2>6, <3>1
    <3>3. Len(qs) + (c[1] - 1) = Len(qs) + (e[1] - 1) /\ c[2] = e[2]
      BY <2>5, <2>6, <3>1, <3>2
    <3>4. c[1] = e[1]
      BY <1>0, <2>3, <3>3
    <3> QED
      BY <2>2, <2>3, <3>3, <3>4
  <2> QED
    BY <2>5, <2>6, <2>7 DEF Twice
<1>2. ASSUME Twice(ps, SymsOf(ps)) PROVE Twice(os, SymsOf(os))
  <2>1. PICK n \in Names : \E d, f \in SymsOf(ps) : d # f /\ Defines(ps, d, n) /\ Defines(ps, f, n)
    BY <1>2 DEF Twice
  <2>2. PICK d \in SymsOf(ps), f \in SymsOf(ps) : d # f /\ Defines(ps, d, n) /\ Defines(ps, f, n)
    BY <2>1
  <2>3. PICK c \in SymsOf(os) : Same(qs, os, d, c)
    BY SymbolBecomes
  <2>4. PICK e \in SymsOf(os) : Same(qs, os, f, e)
    BY SymbolBecomes
  <2>5. Defines(os, c, n) /\ Defines(os, e, n)
    BY <2>2, <2>3, <2>4, DefinitionBecomes
  <2>6. c # e
    <3>1. SUFFICES ASSUME c = e PROVE FALSE
      OBVIOUS
    <3>2. d[1] \in 1 .. Len(qs) /\ f[1] \in 1 .. Len(qs)
      BY <2>2, <2>3, <2>4, <3>1 DEF Same
    <3>3. /\ d \in SymsOf(qs) /\ Sym(qs, d) = Sym(ps, d)
          /\ f \in SymsOf(qs) /\ Sym(qs, f) = Sym(ps, f)
      <4>1. ASSUME NEW b \in SymsOf(os), b[1] \in 2 .. Len(os),
                   d = <<Len(qs) + (b[1] - 1), b[2]>> \/ f = <<Len(qs) + (b[1] - 1), b[2]>>
            PROVE  FALSE
        <5>1. d[1] = Len(qs) + (b[1] - 1) \/ f[1] = Len(qs) + (b[1] - 1)
          BY <4>1
        <5> QED
          BY <1>0, <3>2, <4>1, <5>1
      <4>2. d \in SymsOf(qs) /\ Sym(qs, d) = Sym(ps, d)
        BY <4>1, SymReplaced
      <4>3. f \in SymsOf(qs) /\ Sym(qs, f) = Sym(ps, f)
        BY <4>1, SymReplaced
      <4> QED
        BY <4>2, <4>3
    <3>4. Defines(qs, d, n) /\ Defines(qs, f, n)
      BY <2>2, <3>3 DEF Defines
    <3> QED
      BY <2>2, <3>3, <3>4 DEF Twice
  <2> QED
    BY <2>5, <2>6 DEF Twice
<1> QED
  BY <1>1, <1>2

----------------------------------------------------------------------------
(* 21. Its relocations, bytes and entry point *)

\* Relocation c of os is what relocation d of ps has become.
SameRef(qs, os, d, c) ==
  \/ /\ d[1] \in 1 .. Len(qs) /\ c[1] = 1
     /\ IsRef(StartsOf(os[1]), qs, os[1].syms, d, Ref(os, c))
  \/ /\ c[1] \in 2 .. Len(os) /\ d = <<Len(qs) + (c[1] - 1), c[2]>>

\* A relocation of ps is one of qs or of the later objects of os,
LEMMA RefReplaced ==
  ASSUME NEW qs, NEW os, NEW ps, Replaced(qs, os, ps), NEW d \in RefsOf(ps)
  PROVE  \/ d[1] \in 1 .. Len(qs) /\ d \in RefsOf(qs) /\ Ref(qs, d) = Ref(ps, d)
         \/ \E c \in RefsOf(os) :
              c[1] \in 2 .. Len(os) /\ d = <<Len(qs) + (c[1] - 1), c[2]>>
<1>1. /\ Len(qs) \in Nat /\ Len(ps) \in Nat /\ Len(os) \in Nat
      /\ DOMAIN qs = 1 .. Len(qs) /\ DOMAIN os = 1 .. Len(os)
  BY ReplacedTypes
<1>2. /\ d = <<d[1], d[2]>> /\ d[1] \in 1 .. Len(ps) /\ d[2] \in DOMAIN ps[d[1]].relocs
  BY RefType DEF Replaced
<1>3. CASE d[1] \in 1 .. Len(qs)
  <2>1. ps[d[1]] = qs[d[1]]
    BY <1>3, ReplacedTypes
  <2> QED
    BY <1>1, <1>2, <1>3, <2>1 DEF RefsOf, Ref
<1>4. CASE d[1] \notin 1 .. Len(qs)
  <2>1. PICK i \in Len(qs) + 1 .. Len(ps) : i = d[1]
    BY <1>1, <1>2, <1>4
  <2>2. i - Len(qs) + 1 \in 2 .. Len(os) /\ ps[i] = os[i - Len(qs) + 1]
    BY ReplacedTypes
  <2>3. PICK h \in 2 .. Len(os) : h = i - Len(qs) + 1 /\ ps[d[1]] = os[h]
    BY <2>1, <2>2
  <2>4. d[1] = Len(qs) + (h - 1)
    BY <1>1, <2>1, <2>3
  <2>5. h \in DOMAIN os
    BY <1>1, <2>3
  <2>6. <<h, d[2]>> \in RefsOf(os)
    BY <1>2, <2>3, <2>5 DEF RefsOf
  <2> QED
    BY <1>2, <2>3, <2>4, <2>6
<1> QED
  BY <1>3, <1>4

\* a relocation of os is one of the first or of the later objects,
LEMMA RefReplacing ==
  ASSUME NEW qs, NEW os, NEW ps, Replaced(qs, os, ps), NEW c \in RefsOf(os)
  PROVE  \/ c[1] = 1 /\ Ref(os, c) \in Range(os[1].relocs)
         \/ /\ c[1] \in 2 .. Len(os)
            /\ \E d \in RefsOf(ps) : d = <<Len(qs) + (c[1] - 1), c[2]>> /\ Ref(ps, d) = Ref(os, c)
<1>1. Len(os) \in Nat /\ Len(ps) \in Nat /\ Len(qs) \in Nat /\ DOMAIN ps = 1 .. Len(ps)
  BY ReplacedTypes
<1>2. /\ c = <<c[1], c[2]>> /\ c[1] \in 1 .. Len(os) /\ c[2] \in DOMAIN os[c[1]].relocs
  BY RefType DEF Replaced
<1>3. CASE c[1] = 1
  BY <1>2, <1>3 DEF Ref, Range
<1>4. CASE c[1] \in 2 .. Len(os)
  <2>1. PICK i : i = Len(qs) + (c[1] - 1)
    OBVIOUS
  <2>2. ps[i] = os[c[1]] /\ i \in Len(qs) + 1 .. Len(ps)
    <3>1. PICK h \in 2 .. Len(os) : h = c[1]
      BY <1>4
    <3>2. Len(qs) + (h - 1) \in Len(qs) + 1 .. Len(ps) /\ ps[Len(qs) + (h - 1)] = os[h]
      BY ReplacedTypes
    <3>3. i = Len(qs) + (h - 1)
      BY <2>1, <3>1
    <3> QED
      BY <3>1, <3>2, <3>3
  <2>3. i \in DOMAIN ps
    BY <1>1, <2>2
  <2>4. <<i, c[2]>> \in RefsOf(ps) /\ Ref(ps, <<i, c[2]>>) = Ref(os, c)
    BY <1>2, <2>2, <2>3 DEF RefsOf, Ref
  <2> QED
    BY <1>4, <2>1, <2>4
<1> QED
  BY <1>1, <1>2, <1>3, <1>4

\* and those of qs are relocations of ps.
LEMMA RefWithin ==
  ASSUME NEW qs, NEW os, NEW ps, Replaced(qs, os, ps), NEW d \in RefsOf(qs)
  PROVE  d \in RefsOf(ps) /\ Ref(ps, d) = Ref(qs, d) /\ d[1] \in 1 .. Len(qs)
<1>1. /\ d = <<d[1], d[2]>> /\ d[1] \in 1 .. Len(qs) /\ d[2] \in DOMAIN qs[d[1]].relocs
  BY RefType DEF Replaced
<1>2. d[1] \in DOMAIN ps /\ ps[d[1]] = qs[d[1]]
  BY <1>1, ReplacedTypes
<1> QED
  BY <1>1, <1>2 DEF RefsOf, Ref

\* Every relocation has become one, and every one was one.
LEMMA RefBecomes ==
  ASSUME NEW qs, NEW os, NEW ps, Replaced(qs, os, ps), NEW d \in RefsOf(ps)
  PROVE  \E c \in RefsOf(os) : SameRef(qs, os, d, c)
<1>1. CASE d[1] \in 1 .. Len(qs) /\ d \in RefsOf(qs)
  <2>1. PICK e \in Range(os[1].relocs) : IsRef(StartsOf(os[1]), qs, os[1].syms, d, e)
    BY <1>1 DEF Replaced, IsJoin, Joined, RefsJoined
  <2>2. PICK m \in DOMAIN os[1].relocs : e = os[1].relocs[m]
    BY DEF Range
  <2>3. 1 \in DOMAIN os
    BY ReplacedTypes
  <2>4. <<1, m>> \in RefsOf(os) /\ Ref(os, <<1, m>>) = e
    BY <2>2, <2>3 DEF RefsOf, Ref
  <2> QED
    BY <1>1, <2>1, <2>4 DEF SameRef
<1>2. ASSUME NEW c \in RefsOf(os), c[1] \in 2 .. Len(os), d = <<Len(qs) + (c[1] - 1), c[2]>>
      PROVE  SameRef(qs, os, d, c)
  BY <1>2 DEF SameRef
<1> QED
  BY <1>1, <1>2, RefReplaced

\* Each relocation of os is what one of ps has become.
LEMMA RefWas ==
  ASSUME NEW qs, NEW os, NEW ps, Replaced(qs, os, ps), NEW c \in RefsOf(os)
  PROVE  \E d \in RefsOf(ps) : SameRef(qs, os, d, c)
<1>1. CASE c[1] = 1 /\ Ref(os, c) \in Range(os[1].relocs)
  <2>1. PICK d \in RefsOf(qs) : IsRef(StartsOf(os[1]), qs, os[1].syms, d, Ref(os, c))
    BY <1>1 DEF Replaced, IsJoin, Joined, RefsJoined
  <2> QED
    BY <1>1, <2>1, RefWithin DEF SameRef
<1>2. ASSUME NEW d \in RefsOf(ps), c[1] \in 2 .. Len(os), d = <<Len(qs) + (c[1] - 1), c[2]>>
      PROVE  SameRef(qs, os, d, c)
  BY <1>2 DEF SameRef
<1> QED
  BY <1>1, <1>2, RefReplacing

\* Both are about the same bytes of the output, and the same symbol.
LEMMA SameRefIs ==
  ASSUME NEW qs, NEW os, NEW ps, Replaced(qs, os, ps), NEW d \in RefsOf(ps), NEW c \in RefsOf(os),
         SameRef(qs, os, d, c), NEW t, t = Ref(ps, d).seg
  PROVE  /\ Ref(os, c).seg = t
         /\ Before(os, c[1], t) + RefAt(os, c) = Before(ps, d[1], t) + RefAt(ps, d)
         /\ Same(qs, os, RefSym(ps, d), RefSym(os, c))
         /\ \/ d[1] \in 1 .. Len(qs) /\ c[1] = 1 /\ Fits(ps, d)
            \/ d[1] = Len(qs) + (c[1] - 1) /\ c[1] \in 2 .. Len(os) /\ (Fits(os, c) => Fits(ps, d))
<1>0. /\ Len(qs) \in Nat /\ Len(os) \in Nat /\ Good(qs) /\ Good(os) /\ Good(ps) /\ 1 \in DOMAIN os
      /\ Objects(qs) /\ Objects(os) /\ Objects(ps) /\ 1 \in 1 .. Len(os)
  BY ReplacedTypes DEF Replaced, Good
<1>1. CASE /\ d[1] \in 1 .. Len(qs) /\ c[1] = 1
           /\ IsRef(StartsOf(os[1]), qs, os[1].syms, d, Ref(os, c))
  <2>1. d \in RefsOf(qs) /\ Ref(qs, d) = Ref(ps, d) /\ ps[d[1]] = qs[d[1]]
    <3>1. ASSUME NEW e \in RefsOf(os), e[1] \in 2 .. Len(os), d = <<Len(qs) + (e[1] - 1), e[2]>>
          PROVE  FALSE
      <4>1. d[1] = Len(qs) + (e[1] - 1)
        BY <3>1
      <4> QED
        BY <1>0, <1>1, <3>1, <4>1
    <3>2. ps[d[1]] = qs[d[1]]
      BY <1>1, ReplacedTypes
    <3> QED
      BY <3>1, <3>2, RefReplaced
  <2>2. PICK r : r = Ref(os, c)
    OBVIOUS
  <2>3. /\ r.seg = t
        /\ r.loc = StartsOf(os[1])[t] + Before(qs, d[1], t) + RefAt(qs, d)
        /\ IsSym(StartsOf(os[1]), qs, os[1].syms, RefSym(qs, d), r.sym)
    BY <1>1, <2>1, <2>2 DEF IsRef
  <2>4. RefAt(qs, d) = RefAt(ps, d) /\ RefSym(qs, d) = RefSym(ps, d) /\ RefSym(os, c) = <<1, r.sym>>
        /\ (Fits(qs, d) => Fits(ps, d))
    BY <1>1, <2>1, <2>2 DEF RefAt, RefSym, Fits
  <2>5. t \in SegsOf(os[1])
    BY <1>0, <1>1, <2>2, <2>3, RefType
  <2>6. PICK a \in Int, b \in Int, e \in Int :
          a = StartOf(os[1], t) /\ b = Before(qs, d[1], t) /\ e = RefAt(qs, d)
    <3>1. StartOf(os[1], t) \in Addr
      BY <1>0, GoodObjects
    <3>2. d[1] \in 1 .. Len(qs) + 1
      BY <1>0, <1>1
    <3>3. Before(qs, d[1], t) \in Nat
      BY <1>0, <3>2, BeforeType
    <3>4. RefAt(qs, d) \in Nat
      BY <1>0, <2>1, RefType
    <3> QED
      BY <3>1, <3>3, <3>4 DEF Addr
  <2>7. StartsOf(os[1])[t] = a
    BY <2>5, <2>6 DEF StartsOf, StartOf
  <2>8. RefAt(os, c) = a + b + e - a
    BY <1>1, <2>2, <2>3, <2>6, <2>7 DEF RefAt
  <2>9. Before(os, 1, t) = 0
    BY BeforeFirst
  <2>10. Before(ps, d[1], t) = b
    <3>1. d[1] \in 1 .. Len(qs) + 1
      BY <1>0, <1>1
    <3> QED
      BY <2>6, <3>1, BeforeWithin
  <2>11. Before(os, c[1], t) + RefAt(os, c) = Before(ps, d[1], t) + RefAt(ps, d)
    <3>1. 0 + (a + b + e - a) = b + e
      OBVIOUS
    <3> QED
      BY <1>1, <2>4, <2>6, <2>8, <2>9, <2>10, <3>1
  <2>12. Fits(qs, d)
    BY <2>1 DEF Replaced, IsJoin, Joined, RefsJoined
  <2>13. Same(qs, os, RefSym(ps, d), RefSym(os, c))
    <3>1. RefSym(ps, d)[1] = d[1] /\ RefSym(os, c)[1] = 1 /\ RefSym(os, c)[2] = r.sym
      BY <2>4 DEF RefSym
    <3> QED
      BY <1>1, <2>3, <2>4, <3>1 DEF Same
  <2> QED
    BY <1>1, <2>2, <2>3, <2>4, <2>11, <2>12, <2>13
<1>2. CASE c[1] \in 2 .. Len(os) /\ d = <<Len(qs) + (c[1] - 1), c[2]>>
  <2>1. PICK h \in 2 .. Len(os), i \in Int : h = c[1] /\ i = d[1] /\ i = Len(qs) + (h - 1)
    <3>1. Len(qs) \in Nat
      BY ReplacedTypes
    <3> QED
      BY <1>2, <3>1
  <2>2. ps[i] = os[h] /\ \A v : Before(ps, i, v) = Before(os, h, v)
    BY <2>1, LaterReplaced
  <2>3. Ref(ps, d) = Ref(os, c)
    BY <1>2, <2>1, <2>2 DEF Ref
  <2>4. RefAt(os, c) = RefAt(ps, d) /\ (Fits(os, c) => Fits(ps, d))
    BY <2>1, <2>2, <2>3 DEF RefAt, Fits
  <2>5. RefSym(ps, d) = <<Len(qs) + (h - 1), Ref(os, c).sym>> /\ RefSym(os, c) = <<h, Ref(os, c).sym>>
    BY <2>1, <2>3 DEF RefSym
  <2>6. RefSym(os, c)[1] = h /\ RefSym(os, c)[2] = Ref(os, c).sym
    BY <2>5
  <2>7. Same(qs, os, RefSym(ps, d), RefSym(os, c))
    BY <2>1, <2>5, <2>6 DEF Same
  <2>8. Before(os, c[1], t) + RefAt(os, c) = Before(ps, d[1], t) + RefAt(ps, d)
    BY <2>1, <2>2, <2>4
  <2> QED
    BY <2>1, <2>3, <2>4, <2>7, <2>8
<1> QED
  BY <1>1, <1>2 DEF SameRef

\* What it has become in the output is then what the one of ps has become.
LEMMA IsRefReplaced ==
  ASSUME NEW qs, NEW os, NEW ps, Replaced(qs, os, ps), NEW d \in RefsOf(ps), NEW c \in RefsOf(os),
         SameRef(qs, os, d, c),
         NEW st, \A t \in DOMAIN st : st[t] \in Nat, \A i \in DOMAIN os : SegsOf(os[i]) \subseteq DOMAIN st,
         NEW ys, NEW e, IsRef(st, os, ys, c, e)
  PROVE  IsRef(st, ps, ys, d, e)
<1>1. PICK t : t = Ref(ps, d).seg
  OBVIOUS
<1>2. /\ Ref(os, c).seg = t
      /\ Before(os, c[1], t) + RefAt(os, c) = Before(ps, d[1], t) + RefAt(ps, d)
      /\ Same(qs, os, RefSym(ps, d), RefSym(os, c))
  BY <1>1, SameRefIs
<1>3. e.seg = t /\ e.loc = st[t] + Before(os, c[1], t) + RefAt(os, c)
      /\ IsSym(st, os, ys, RefSym(os, c), e.sym)
  BY <1>2 DEF IsRef
<1>4. /\ RefSym(ps, d) \in SymsOf(ps) /\ RefSym(os, c) \in SymsOf(os)
  BY RefType DEF Replaced
<1>5. IsSym(st, ps, ys, RefSym(ps, d), e.sym)
  BY <1>2, <1>3, <1>4, IsSymReplaced
<1>6. /\ c[1] \in 1 .. Len(os) /\ d[1] \in 1 .. Len(ps) /\ RefAt(os, c) \in Nat /\ RefAt(ps, d) \in Nat
      /\ t \in SegsOf(os[c[1]])
  BY <1>2, RefType DEF Replaced
<1>7. t \in DOMAIN st /\ Objects(os) /\ Objects(ps) /\ c[1] \in 1 .. Len(os) + 1 /\ d[1] \in 1 .. Len(ps) + 1
  BY <1>6, ReplacedTypes DEF Replaced, Good
<1>8. Before(os, c[1], t) \in Nat /\ Before(ps, d[1], t) \in Nat /\ st[t] \in Nat
  BY <1>7, BeforeType
<1>9. st[t] + Before(os, c[1], t) + RefAt(os, c) = st[t] + Before(ps, d[1], t) + RefAt(ps, d)
  <2>1. PICK a \in Nat, b1 \in Nat, b2 \in Nat, r1 \in Nat, r2 \in Nat :
          /\ a = st[t] /\ b1 = Before(os, c[1], t) /\ b2 = Before(ps, d[1], t)
          /\ r1 = RefAt(os, c) /\ r2 = RefAt(ps, d)
    BY <1>6, <1>8
  <2>2. b1 + r1 = b2 + r2
    BY <1>2, <2>1
  <2>3. a + b1 + r1 = a + b2 + r2
    BY <2>2
  <2> QED
    BY <2>1, <2>3
<1> QED
  BY <1>1, <1>3, <1>5, <1>9 DEF IsRef

\* The relocations of os are those of ps.
LEMMA RefsReplaced ==
  ASSUME NEW qs, NEW os, NEW ps, Replaced(qs, os, ps),
         NEW st, \A t \in DOMAIN st : st[t] \in Nat, \A i \in DOMAIN os : SegsOf(os[i]) \subseteq DOMAIN st,
         NEW ys, NEW rs, RefsJoined(st, os, ys, rs, RefsOf(os))
  PROVE  RefsJoined(st, ps, ys, rs, RefsOf(ps))
<1>1. ASSUME NEW d \in RefsOf(ps)
      PROVE  Fits(ps, d) /\ \E e \in Range(rs) : IsRef(st, ps, ys, d, e)
  <2>1. PICK c \in RefsOf(os) : SameRef(qs, os, d, c)
    BY RefBecomes
  <2>2. Fits(os, c)
    BY DEF RefsJoined
  <2>3. PICK e \in Range(rs) : IsRef(st, os, ys, c, e)
    BY DEF RefsJoined
  <2>4. Fits(ps, d)
    BY <2>1, <2>2, SameRefIs
  <2> QED
    BY <2>1, <2>3, <2>4, IsRefReplaced
<1>2. ASSUME NEW e \in Range(rs) PROVE \E d \in RefsOf(ps) : IsRef(st, ps, ys, d, e)
  <2>1. PICK c \in RefsOf(os) : IsRef(st, os, ys, c, e)
    BY DEF RefsJoined
  <2>2. PICK d \in RefsOf(ps) : SameRef(qs, os, d, c)
    BY RefWas
  <2> QED
    BY <2>1, <2>2, IsRefReplaced
<1> QED
  BY <1>1, <1>2 DEF RefsJoined

\* The bytes.
LEMMA OverBecomes ==
  ASSUME NEW qs, NEW os, NEW ps, Replaced(qs, os, ps), NEW d \in RefsOf(ps), NEW c \in RefsOf(os),
         SameRef(qs, os, d, c), NEW i, NEW h, NEW t, NEW x \in Nat, NEW y \in Nat,
         Before(os, h, t) + y = Before(ps, i, t) + x, h \in 1 .. Len(os), i \in 1 .. Len(ps),
         d[1] = i, c[1] = h, Ref(ps, d).seg = t
  PROVE  x - RefAt(ps, d) = y - RefAt(os, c) /\ (Over(ps, d, i, t, x) <=> Over(os, c, h, t, y))
<1>1. Ref(os, c).seg = t /\ Before(os, h, t) + RefAt(os, c) = Before(ps, i, t) + RefAt(ps, d)
  BY SameRefIs
<1>2. /\ RefAt(os, c) \in Nat /\ RefAt(ps, d) \in Nat
      /\ Objects(os) /\ Objects(ps) /\ h \in 1 .. Len(os) + 1 /\ i \in 1 .. Len(ps) + 1
  <2>1. Good(os) /\ Good(ps)
    BY DEF Replaced
  <2>2. RefAt(os, c) \in Nat /\ RefAt(ps, d) \in Nat
    BY <2>1, RefType
  <2>3. Len(os) \in Nat /\ Len(ps) \in Nat
    BY ReplacedTypes
  <2>4. h \in 1 .. Len(os) + 1 /\ i \in 1 .. Len(ps) + 1
    BY <2>3
  <2> QED
    BY <2>1, <2>2, <2>4 DEF Good
<1>3. PICK b1 \in Nat, b2 \in Nat, r1 \in Nat, r2 \in Nat :
        /\ b1 = Before(os, h, t) /\ b2 = Before(ps, i, t) /\ r1 = RefAt(os, c) /\ r2 = RefAt(ps, d)
  BY <1>2, BeforeType
<1>4. b1 + y = b2 + x /\ b1 + r1 = b2 + r2
  BY <1>1, <1>3
<1>5. x - r2 = y - r1
  BY <1>4
<1> QED
  BY <1>1, <1>3, <1>5 DEF Over

\* Nothing is about a byte of qs that nothing was about.
LEMMA OverWas ==
  ASSUME NEW qs, NEW os, NEW ps, Replaced(qs, os, ps), NEW i \in 1 .. Len(qs),
         NEW t, NEW x \in 1 .. Len(BytesIn(qs[i], t)), NEW y \in Nat, y = Before(qs, i, t) + x,
         NEW c \in RefsOf(os), Over(os, c, 1, t, y)
  PROVE  \E d \in RefsOf(ps) : Over(ps, d, i, t, x)
<1>1. PICK d \in RefsOf(ps) : SameRef(qs, os, d, c)
  BY RefWas
<1>0. /\ Len(qs) \in Nat /\ Len(os) \in Nat /\ Good(qs) /\ Good(ps)
      /\ Objects(qs) /\ Objects(os) /\ Objects(ps) /\ i \in 1 .. Len(qs) + 1 /\ x \in Nat /\ i \in 1 .. Len(ps)
      /\ 1 \in 1 .. Len(os)
  BY ReplacedTypes, GoodObjects DEF Replaced, Good
<1>2. PICK u : u = Ref(ps, d).seg
  OBVIOUS
<1>3. /\ Ref(os, c).seg = u
      /\ Before(os, c[1], u) + RefAt(os, c) = Before(ps, d[1], u) + RefAt(ps, d)
      /\ \/ d[1] \in 1 .. Len(qs) /\ c[1] = 1 /\ Fits(ps, d)
         \/ d[1] = Len(qs) + (c[1] - 1) /\ c[1] \in 2 .. Len(os)
  BY <1>1, <1>2, SameRefIs
<1>4. c[1] = 1 /\ u = t /\ y - RefAt(os, c) \in {1, 2}
  BY <1>3 DEF Over
<1>5. d[1] \in 1 .. Len(qs) /\ Fits(ps, d) /\ ps[d[1]] = qs[d[1]] /\ d[1] \in 1 .. Len(qs) + 1
  BY <1>0, <1>3, <1>4, ReplacedTypes
<1>6. PICK b1 \in Nat, b2 \in Nat, r1 \in Nat, r2 \in Nat, z \in {1, 2} :
        /\ b1 = Before(qs, i, t) /\ b2 = Before(qs, d[1], t) /\ r1 = RefAt(os, c) /\ r2 = RefAt(ps, d)
        /\ z = y - r1
  BY <1>0, <1>4, <1>5, BeforeType, RefType DEF Replaced
<1>7. b1 + x - r1 = z /\ r1 = b2 + r2
  <2>1. Before(os, 1, t) = 0
    BY BeforeFirst
  <2>2. Before(ps, d[1], t) = b2
    <3>1. PICK g \in 1 .. Len(qs) + 1 : g = d[1]
      BY <1>5
    <3>2. Before(ps, g, t) = Before(qs, g, t)
      BY BeforeWithin
    <3> QED
      BY <1>6, <3>1, <3>2
  <2>3. 0 + r1 = b2 + r2
    BY <1>3, <1>4, <1>6, <2>1, <2>2
  <2>4. y = b1 + x
    BY <1>6
  <2>5. b1 + x - r1 = z
    BY <1>6, <2>4
  <2>6. r1 = b2 + r2
    <3>1. 0 + r1 = r1
      BY <1>6
    <3> QED
      BY <2>3, <3>1
  <2> QED
    BY <2>5, <2>6
<1>8. PICK w \in Nat : w = r2 + z /\ b1 + x = b2 + w
  BY <1>0, <1>7
<1>9. w \in 1 .. Len(BytesIn(qs[d[1]], t))
  <2>1. PICK l \in Nat : l = Len(BytesIn(qs[d[1]], t))
    BY <1>0, <1>5, GoodObjects
  <2>2. r2 + 2 <= l
    BY <1>2, <1>4, <1>5, <1>6, <2>1 DEF Fits
  <2>3. w \in 1 .. l
    BY <1>8, <2>2
  <2> QED
    BY <2>1, <2>3
<1>10. i = d[1] /\ x = w
  <2>1. PICK g \in 1 .. Len(qs) : g = d[1]
    BY <1>5
  <2>2. w \in 1 .. Len(BytesIn(qs[g], t)) /\ Before(qs, i, t) + x = Before(qs, g, t) + w
    BY <1>6, <1>8, <1>9, <2>1
  <2>3. i = g /\ x = w
    BY <1>0, <2>2, PlaceIsUnique
  <2> QED
    BY <2>1, <2>3
<1>11. x - r2 \in {1, 2}
  BY <1>8, <1>10
<1>12. Over(ps, d, i, t, x)
  BY <1>2, <1>4, <1>6, <1>10, <1>11 DEF Over
<1> QED
  BY <1>12

\* Byte y of segment t of os[h] is what byte x of ps[i] has become.
SameByte(qs, os, ps, h, y, i, x, t) ==
  /\ i \in 1 .. Len(ps) /\ h \in 1 .. Len(os) /\ x \in Nat /\ y \in Nat
  /\ Before(os, h, t) + y = Before(ps, i, t) + x
  /\ \A d \in RefsOf(ps), c \in RefsOf(os) : SameRef(qs, os, d, c) /\ d[1] = i => c[1] = h
  /\ (\E c \in RefsOf(os) : Over(os, c, h, t, y)) => \E d \in RefsOf(ps) : Over(ps, d, i, t, x)
  /\ (\A d \in RefsOf(ps) : ~Over(ps, d, i, t, x)) => BytesIn(os[h], t)[y] = BytesIn(ps[i], t)[x]

\* What that byte has become in the output is what the one of ps has become.
LEMMA ByteReplaced ==
  ASSUME NEW qs, NEW os, NEW ps, Replaced(qs, os, ps),
         NEW st, \A t \in DOMAIN st : st[t] \in Nat, \A i \in DOMAIN os : SegsOf(os[i]) \subseteq DOMAIN st,
         NEW ys, NEW rs, NEW i, NEW h, NEW t, NEW x, NEW y, SameByte(qs, os, ps, h, y, i, x, t), NEW b, ByteJoined(st, os, ys, rs, RefsOf(os), {}, h, t, y, b)
  PROVE  ByteJoined(st, ps, ys, rs, RefsOf(ps), {}, i, t, x, b)
<1>1. ASSUME \A d \in RefsOf(ps) : ~Over(ps, d, i, t, x) PROVE b = BytesIn(ps[i], t)[x]
  <2>1. \A c \in RefsOf(os) : ~Over(os, c, h, t, y)
    BY <1>1 DEF SameByte
  <2>2. b = BytesIn(os[h], t)[y]
    BY <2>1 DEF ByteJoined
  <2> QED
    BY <1>1, <2>2 DEF SameByte
<1>2. ASSUME NEW d \in RefsOf(ps), Over(ps, d, i, t, x)
      PROVE  \E e \in Range(rs) : /\ IsRef(st, ps, ys, d, e)
                                  /\ b = Half(ys[e.sym].loc, x - RefAt(ps, d) - 1)
  <2>1. PICK c \in RefsOf(os) : SameRef(qs, os, d, c)
    BY RefBecomes
  <2>2. d[1] = i /\ Ref(ps, d).seg = t /\ c[1] = h
    BY <1>2, <2>1 DEF Over, SameByte
  <2>3. x - RefAt(ps, d) = y - RefAt(os, c) /\ Over(os, c, h, t, y)
    BY <1>2, <2>1, <2>2, OverBecomes DEF SameByte
  <2>4. PICK e \in Range(rs) : IsRef(st, os, ys, c, e) /\ b = Half(ys[e.sym].loc, y - RefAt(os, c) - 1)
    BY <2>3 DEF ByteJoined
  <2>5. IsRef(st, ps, ys, d, e)
    BY <2>1, <2>4, IsRefReplaced
  <2> QED
    BY <2>3, <2>4, <2>5
<1> QED
  BY <1>1, <1>2 DEF ByteJoined

\* The bytes of os are those of ps.
LEMMA BytesReplaced ==
  ASSUME NEW qs, NEW os, NEW ps, Replaced(qs, os, ps),
         NEW st, \A t \in DOMAIN st : st[t] \in Nat, \A i \in DOMAIN os : SegsOf(os[i]) \subseteq DOMAIN st,
         NEW ys, NEW rs, NEW bs,
         \A h \in DOMAIN os : BytesJoined(st, os, ys, rs, RefsOf(os), {}, h, bs),
         NEW i \in DOMAIN ps
  PROVE  BytesJoined(st, ps, ys, rs, RefsOf(ps), {}, i, bs)
<1>0. /\ Len(qs) \in Nat /\ Len(os) \in Nat /\ Len(ps) \in Nat /\ Good(qs) /\ Good(os) /\ Good(ps)
      /\ Objects(qs) /\ Objects(os) /\ Objects(ps) /\ 1 \in DOMAIN os /\ 1 \in 1 .. Len(os)
      /\ i \in 1 .. Len(ps) /\ DOMAIN os = 1 .. Len(os)
  BY ReplacedTypes DEF Replaced, Good
<1> SUFFICES ASSUME NEW t \in SegsOf(ps[i]), NEW x \in DOMAIN BytesIn(ps[i], t)
             PROVE  ByteJoined(st, ps, ys, rs, RefsOf(ps), {}, i, t, x, bs[t][Before(ps, i, t) + x])
  BY DEF BytesJoined
<1>1. x \in 1 .. Len(BytesIn(ps[i], t)) /\ x \in Nat
  BY <1>0, GoodObjects
<1>2. CASE i \in 1 .. Len(qs)
  <2>1. ps[i] = qs[i] /\ i \in 1 .. Len(qs) + 1
    BY <1>0, <1>2, ReplacedTypes
  <2>2. PICK y \in Nat : y = Before(qs, i, t) + x
    BY <1>0, <1>1, <2>1, BeforeType
  <2>3. Before(os, 1, t) = 0 /\ Before(ps, i, t) = Before(qs, i, t)
    BY <2>1, BeforeFirst, BeforeWithin
  <2>4. Before(os, 1, t) + y = Before(ps, i, t) + x
    BY <2>2, <2>3
  <2>5. t \in SegsOf(os[1])
    <3>1. SegsOf(os[1]) = UNION {SegsOf(qs[h]) : h \in DOMAIN qs}
      BY DEF Replaced, IsJoin, Joined, StartsOf
    <3>2. i \in DOMAIN qs
      BY <1>2, ReplacedTypes
    <3> QED
      BY <2>1, <3>1, <3>2
  <2>6. y \in DOMAIN BytesIn(os[1], t)
    <3>1. Len(qs) + 1 \in i + 1 .. Len(qs) + 1
      BY <1>0, <1>2
    <3>2. Before(qs, i, t) + Len(BytesIn(qs[i], t)) <= Before(qs, Len(qs) + 1, t)
      BY <1>0, <1>2, <3>1, BeforeGrows
    <3>3. Len(BytesIn(os[1], t)) = Before(qs, Len(qs) + 1, t)
      BY FirstReplaced
    <3>4. /\ Before(qs, i, t) \in Nat /\ Len(BytesIn(qs[i], t)) \in Nat /\ Len(BytesIn(os[1], t)) \in Nat
          /\ x \in 1 .. Len(BytesIn(qs[i], t)) /\ BytesIn(os[1], t) \in Seq(Byte)
      BY <1>0, <1>1, <1>2, <2>1, BeforeType, GoodObjects
    <3>5. y \in 1 .. Len(BytesIn(os[1], t))
      BY <2>2, <3>2, <3>3, <3>4
    <3> QED
      BY <3>4, <3>5
  <2>7. ByteJoined(st, os, ys, rs, RefsOf(os), {}, 1, t, y, bs[t][Before(os, 1, t) + y])
    BY <1>0, <2>5, <2>6 DEF BytesJoined
  <2>8. ASSUME NEW d \in RefsOf(ps), NEW c \in RefsOf(os), SameRef(qs, os, d, c), d[1] = i PROVE c[1] = 1
    <3>1. ASSUME c[1] \in 2 .. Len(os), d = <<Len(qs) + (c[1] - 1), c[2]>> PROVE FALSE
      <4>1. i = Len(qs) + (c[1] - 1)
        BY <2>8, <3>1
      <4> QED
        BY <1>0, <1>2, <3>1, <4>1
    <3> QED
      BY <2>8, <3>1 DEF SameRef
  <2>9. (\E c \in RefsOf(os) : Over(os, c, 1, t, y)) => \E d \in RefsOf(ps) : Over(ps, d, i, t, x)
    BY <1>1, <1>2, <2>1, <2>2, OverWas
  <2>10. ASSUME \A d \in RefsOf(ps) : ~Over(ps, d, i, t, x)
         PROVE  BytesIn(os[1], t)[y] = BytesIn(ps[i], t)[x]
    <3>1. i \in DOMAIN qs /\ t \in SegsOf(qs[i]) /\ x \in DOMAIN BytesIn(qs[i], t)
      BY <1>2, <2>1, ReplacedTypes
    <3>2. BytesJoined(StartsOf(os[1]), qs, os[1].syms, os[1].relocs, RefsOf(qs), {}, i, ContentsOf(os[1]))
      BY <3>1 DEF Replaced, IsJoin, Joined
    <3>3. ContentsOf(os[1])[t] = BytesIn(os[1], t)
      BY <2>5 DEF ContentsOf, BytesIn
    <3>4. ByteJoined(StartsOf(os[1]), qs, os[1].syms, os[1].relocs, RefsOf(qs), {}, i, t, x,
                     BytesIn(os[1], t)[y])
      BY <2>2, <3>1, <3>2, <3>3 DEF BytesJoined
    <3>5. ASSUME NEW d \in RefsOf(qs) PROVE ~Over(qs, d, i, t, x)
      <4>1. d \in RefsOf(ps) /\ Ref(ps, d) = Ref(qs, d)
        BY RefWithin
      <4>2. ~Over(ps, d, i, t, x)
        BY <2>10, <4>1
      <4> QED
        BY <2>1, <4>1, <4>2 DEF Over, RefAt
    <3>6. BytesIn(os[1], t)[y] = BytesIn(qs[i], t)[x]
      BY <3>4, <3>5 DEF ByteJoined
    <3> QED
      BY <2>1, <3>6
  <2>11. ByteJoined(st, ps, ys, rs, RefsOf(ps), {}, i, t, x, bs[t][Before(os, 1, t) + y])
    <3>1. SameByte(qs, os, ps, 1, y, i, x, t)
      BY <1>0, <1>1, <2>2, <2>4, <2>8, <2>9, <2>10 DEF SameByte
    <3>2. PICK b : b = bs[t][Before(os, 1, t) + y]
      OBVIOUS
    <3>3. ByteJoined(st, os, ys, rs, RefsOf(os), {}, 1, t, y, b)
      BY <2>7, <3>2
    <3>4. ByteJoined(st, ps, ys, rs, RefsOf(ps), {}, i, t, x, b)
      BY <3>1, <3>3, ByteReplaced
    <3> QED
      BY <3>2, <3>4
  <2> QED
    BY <2>4, <2>11
<1>3. CASE i \notin 1 .. Len(qs)
  <2>1. PICK h \in 2 .. Len(os) : i = Len(qs) + (h - 1)
    <3>1. PICK g \in Len(qs) + 1 .. Len(ps) : g = i
      BY <1>0, <1>3
    <3>2. g - Len(qs) + 1 \in 2 .. Len(os)
      BY ReplacedTypes
    <3>3. PICK h \in 2 .. Len(os) : h = g - Len(qs) + 1
      BY <3>2
    <3>4. i = Len(qs) + (h - 1)
      BY <1>0, <3>1, <3>3
    <3> QED
      BY <3>4
  <2>2. ps[i] = os[h] /\ (\A v : Before(ps, i, v) = Before(os, h, v)) /\ h \in 1 .. Len(os)
    BY <2>1, LaterReplaced
  <2>3. ByteJoined(st, os, ys, rs, RefsOf(os), {}, h, t, x, bs[t][Before(os, h, t) + x])
    BY <1>0, <2>2 DEF BytesJoined
  <2>4. ASSUME NEW d \in RefsOf(ps), NEW c \in RefsOf(os), SameRef(qs, os, d, c), d[1] = i PROVE c[1] = h
    <3>1. CASE c[1] \in 2 .. Len(os) /\ d = <<Len(qs) + (c[1] - 1), c[2]>>
      <4>1. Len(qs) + (c[1] - 1) = Len(qs) + (h - 1)
        BY <2>1, <2>4, <3>1
      <4> QED
        BY <1>0, <2>1, <3>1, <4>1
    <3> QED
      BY <1>3, <2>4, <3>1 DEF SameRef
  <2>5. ASSUME NEW c \in RefsOf(os), Over(os, c, h, t, x) PROVE \E d \in RefsOf(ps) : Over(ps, d, i, t, x)
    <3>1. PICK d \in RefsOf(ps) : SameRef(qs, os, d, c)
      BY RefWas
    <3>2. c[1] = h /\ Ref(os, c).seg = t
      BY <2>5 DEF Over
    <3>3. h # 1
      BY <2>1
    <3>4. d[1] = i
      BY <2>1, <3>1, <3>2, <3>3 DEF SameRef
    <3>5. Ref(ps, d).seg = t
      <4>1. Ref(os, c).seg = Ref(ps, d).seg
        BY <3>1, SameRefIs
      <4> QED
        BY <3>2, <4>1
    <3>6. Before(os, h, t) + x = Before(ps, i, t) + x
      BY <2>2
    <3>7. Over(ps, d, i, t, x)
      BY <1>0, <1>1, <2>2, <2>5, <3>1, <3>2, <3>4, <3>5, <3>6, OverBecomes
    <3> QED
      BY <3>7
  <2>6. ByteJoined(st, ps, ys, rs, RefsOf(ps), {}, i, t, x, bs[t][Before(os, h, t) + x])
    <3>1. Before(os, h, t) + x = Before(ps, i, t) + x
      BY <2>2
    <3>2. SameByte(qs, os, ps, h, x, i, x, t)
      BY <1>0, <1>1, <2>2, <2>4, <2>5, <3>1 DEF SameByte
    <3>3. PICK b : b = bs[t][Before(os, h, t) + x]
      OBVIOUS
    <3>4. ByteJoined(st, os, ys, rs, RefsOf(os), {}, h, t, x, b)
      BY <2>3, <3>3
    <3>5. ByteJoined(st, ps, ys, rs, RefsOf(ps), {}, i, t, x, b)
      BY <3>2, <3>4, ByteReplaced
    <3> QED
      BY <3>3, <3>5
  <2> QED
    BY <2>2, <2>6
<1> QED
  BY <1>2, <1>3

\* The entry point of os is that of ps.
LEMMA EntryReplaced ==
  ASSUME NEW qs, NEW os, NEW ps, Replaced(qs, os, ps),
         NEW st, \A t \in DOMAIN st : st[t] \in Nat, \A i \in DOMAIN os : SegsOf(os[i]) \subseteq DOMAIN st,
         NEW en, EntryJoined(st, os, en, Len(os))
  PROVE  EntryJoined(st, ps, en, Len(ps))
<1>0. /\ Len(qs) \in Nat /\ Len(os) \in Nat /\ Len(ps) \in Nat /\ 1 \in 1 .. Len(os) /\ 1 \in DOMAIN os
      /\ \A h \in 1 .. Len(qs) : h \in 1 .. Len(ps) /\ ps[h] = qs[h]
  BY ReplacedTypes
<1>1. EntryJoined(StartsOf(os[1]), qs, os[1].entry, Len(qs))
  BY DEF Replaced, IsJoin
<1>2. ASSUME os[1].entry = NoEntry PROVE \A h \in 1 .. Len(qs) : ps[h].entry = NoEntry
  <2>1. \A h \in 1 .. Len(qs) : qs[h].entry = NoEntry
    <3>1. ASSUME NEW i \in 1 .. Len(qs), NEW p, os[1].entry = <<qs[i].entry[1], p>> PROVE FALSE
      BY <1>2, <3>1 DEF NoEntry
    <3> QED
      BY <1>1, <3>1 DEF EntryJoined
  <2> QED
    BY <1>0, <2>1
<1>3. ASSUME NEW i \in 1 .. Len(ps), i \notin 1 .. Len(qs)
      PROVE  \E h \in 2 .. Len(os) : i = Len(qs) + (h - 1) /\ ps[i] = os[h]
  <2>1. PICK g \in Len(qs) + 1 .. Len(ps) : g = i
    BY <1>0, <1>3
  <2>2. g - Len(qs) + 1 \in 2 .. Len(os) /\ ps[g] = os[g - Len(qs) + 1]
    BY ReplacedTypes
  <2>3. PICK h \in 2 .. Len(os) : h = g - Len(qs) + 1 /\ ps[g] = os[h]
    BY <2>2
  <2>4. i = Len(qs) + (h - 1)
    BY <1>0, <2>1, <2>3
  <2> QED
    BY <2>1, <2>3, <2>4
<1>4. CASE en = NoEntry /\ \A i \in 1 .. Len(os) : os[i].entry = NoEntry
  <2>1. \A i \in 1 .. Len(ps) : ps[i].entry = NoEntry
    <3>1. ASSUME NEW i \in 1 .. Len(ps), i \in 1 .. Len(qs) PROVE ps[i].entry = NoEntry
      BY <1>0, <1>2, <1>4, <3>1
    <3>2. ASSUME NEW i \in 1 .. Len(ps), i \notin 1 .. Len(qs) PROVE ps[i].entry = NoEntry
      <4>1. PICK h \in 2 .. Len(os) : ps[i] = os[h]
        BY <1>3, <3>2
      <4>2. h \in 1 .. Len(os)
        BY <1>0
      <4> QED
        BY <1>4, <4>1, <4>2
    <3> QED
      BY <3>1, <3>2
  <2> QED
    BY <1>4, <2>1 DEF EntryJoined
<1>5. ASSUME NEW g \in 1 .. Len(os), os[g].entry # NoEntry, os[g].entry[1] \in SegsOf(os[g]),
             \A h \in 1 .. g - 1 : os[h].entry = NoEntry,
             en = <<os[g].entry[1], Put(st, os, g, [seg |-> os[g].entry[1], loc |-> os[g].entry[2]])>>
      PROVE  EntryJoined(st, ps, en, Len(ps))
  <2>1. CASE g = 1
    <3>1. PICK i \in 1 .. Len(qs) :
            /\ qs[i].entry # NoEntry /\ qs[i].entry[1] \in SegsOf(qs[i])
            /\ \A h \in 1 .. i - 1 : qs[h].entry = NoEntry
            /\ os[1].entry = <<qs[i].entry[1], Put(StartsOf(os[1]), qs, i,
                                 [seg |-> qs[i].entry[1], loc |-> qs[i].entry[2]])>>
      BY <1>1, <1>5, <2>1 DEF EntryJoined
    <3>2. i \in 1 .. Len(ps) /\ ps[i] = qs[i] /\ \A h \in 1 .. i - 1 : h \in 1 .. Len(qs)
      BY <1>0
    <3>3. \A h \in 1 .. i - 1 : ps[h].entry = NoEntry
      BY <1>0, <3>1, <3>2
    <3>4. PICK t \in SegType, l \in Addr : qs[i].entry = <<t, l>> /\ t \in SegsOf(qs[i])
      <4>1. WellFormed(qs[i])
        <5>1. i \in 1 .. Len(qs) /\ Objects(qs)
          BY DEF Replaced, Good
        <5> QED
          BY <5>1, GoodObjects
      <4>2. qs[i].entry \in EntrySeg \X Addr /\ SegsOf(qs[i]) \subseteq SegType
        BY <3>1, <4>1 DEF WellFormed
      <4> QED
        BY <3>1, <4>2
    <3>5. PICK s, u : /\ s = [seg |-> t, loc |-> l]
                      /\ u = [seg |-> t, loc |-> Put(StartsOf(os[1]), qs, i, s)]
      OBVIOUS
    <3>6. s.seg = t /\ s.loc = l /\ u.seg = t /\ u.loc = Put(StartsOf(os[1]), qs, i, s)
      BY <3>5
    <3>7. os[1].entry[1] = t /\ [seg |-> os[1].entry[1], loc |-> os[1].entry[2]] = u
      BY <3>1, <3>4, <3>5
    <3>8. t \in DOMAIN st
      <4>1. t \in SegsOf(os[1])
        BY <1>5, <2>1, <3>7
      <4> QED
        BY <1>0, <4>1
    <3>9. Put(st, os, 1, u) = Put(st, ps, i, s)
      BY <3>4, <3>6, <3>8, PutReplaced
    <3>10. en = <<ps[i].entry[1], Put(st, ps, i, [seg |-> ps[i].entry[1], loc |-> ps[i].entry[2]])>>
      BY <1>5, <2>1, <3>2, <3>4, <3>5, <3>7, <3>9
    <3> QED
      BY <3>1, <3>2, <3>3, <3>10 DEF EntryJoined
  <2>2. CASE g # 1
    <3>1. PICK f \in 2 .. Len(os), i \in Int : f = g /\ i = Len(qs) + (f - 1)
      <4>1. Len(qs) \in Nat
        BY ReplacedTypes
      <4>2. g \in 2 .. Len(os) /\ Len(qs) + (g - 1) \in Int
        BY <1>0, <2>2, <4>1
      <4> QED
        BY <4>2
    <3>2. ps[i] = os[g] /\ i \in 1 .. Len(ps) /\ (\A s : Put(st, ps, i, s) = Put(st, os, g, s))
      <4>1. ps[i] = os[f] /\ i \in 1 .. Len(ps) /\ (\A s : Put(st, ps, i, s) = Put(st, os, f, s))
        BY <3>1, LaterReplaced
      <4> QED
        BY <3>1, <4>1
    <3>3. ASSUME NEW h \in 1 .. i - 1 PROVE ps[h].entry = NoEntry
      <4>1. h \in 1 .. Len(ps)
        BY <1>0, <3>2
      <4>2. CASE h \in 1 .. Len(qs)
        <5>1. 1 \in 1 .. g - 1
          BY <1>0, <3>1
        <5> QED
          BY <1>0, <1>2, <1>5, <4>2, <5>1
      <4>3. CASE h \notin 1 .. Len(qs)
        <5>1. PICK e \in 2 .. Len(os) : h = Len(qs) + (e - 1) /\ ps[h] = os[e]
          BY <1>3, <4>1, <4>3
        <5>2. e \in 1 .. g - 1
          <6>1. PICK n \in Nat, j0 \in Nat : n = Len(qs) /\ j0 = h /\ j0 <= n + (f - 1) - 1
            BY <1>0, <3>1, <3>3, <4>1
          <6>2. j0 = n + (e - 1)
            BY <5>1, <6>1
          <6>3. e <= f - 1 /\ e >= 1
            BY <6>1, <6>2
          <6> QED
            BY <1>0, <3>1, <6>3
        <5> QED
          BY <1>5, <5>1, <5>2
      <4> QED
        BY <4>2, <4>3
    <3>4. en = <<ps[i].entry[1], Put(st, ps, i, [seg |-> ps[i].entry[1], loc |-> ps[i].entry[2]])>>
      BY <1>5, <3>2
    <3>5. ps[i].entry # NoEntry /\ ps[i].entry[1] \in SegsOf(ps[i])
      BY <1>5, <3>2
    <3> QED
      BY <3>2, <3>3, <3>4, <3>5 DEF EntryJoined
  <2> QED
    BY <2>1, <2>2
<1> QED
  BY <1>4, <1>5 DEF EntryJoined

\* What os are joined to, ps are joined to.
LEMMA JoinedReplaced ==
  ASSUME NEW qs, NEW os, NEW ps, Replaced(qs, os, ps),
         NEW st, \A t \in DOMAIN st : st[t] \in Nat,
         NEW bs, NEW ys, NEW rs, Joined(st, bs, ys, rs, os)
  PROVE  /\ Joined(st, bs, ys, rs, ps)
         /\ \A i \in DOMAIN os : SegsOf(os[i]) \subseteq DOMAIN st
<1>0. /\ Len(qs) \in Nat /\ Len(os) \in Nat /\ Len(ps) \in Nat /\ Len(os) \in 1 .. Len(os)
      /\ DOMAIN os = 1 .. Len(os) /\ DOMAIN ps = 1 .. Len(ps) /\ DOMAIN qs = 1 .. Len(qs)
      /\ 1 \in DOMAIN os
  BY ReplacedTypes
<1>1. \A i \in DOMAIN os : SegsOf(os[i]) \subseteq DOMAIN st
  BY DEF Joined
<1>2. SymsJoined(st, ps, ys, SymsOf(ps))
  BY <1>1, SymsReplaced DEF Joined
<1>3. RefsJoined(st, ps, ys, rs, RefsOf(ps))
  BY <1>1, RefsReplaced DEF Joined
<1>4. \A i \in DOMAIN ps : BytesJoined(st, ps, ys, rs, RefsOf(ps), {}, i, bs)
  BY <1>1, BytesReplaced DEF Joined
<1>5. DOMAIN st = UNION {SegsOf(ps[i]) : i \in DOMAIN ps}
  <2>1. DOMAIN st = UNION {SegsOf(os[i]) : i \in DOMAIN os}
    BY DEF Joined
  <2>2. SegsOf(os[1]) = UNION {SegsOf(qs[h]) : h \in DOMAIN qs}
    BY DEF Replaced, IsJoin, Joined, StartsOf
  <2>3. ASSUME NEW t \in DOMAIN st PROVE \E i \in DOMAIN ps : t \in SegsOf(ps[i])
    <3>1. PICK h \in DOMAIN os : t \in SegsOf(os[h])
      BY <2>1
    <3>2. CASE h = 1
      <4>1. PICK g \in DOMAIN qs : t \in SegsOf(qs[g])
        BY <2>2, <3>1, <3>2
      <4>2. g \in 1 .. Len(qs)
        BY <1>0
      <4>3. g \in 1 .. Len(ps) /\ ps[g] = qs[g]
        BY <4>2, ReplacedTypes
      <4> QED
        BY <1>0, <4>1, <4>3
    <3>3. CASE h # 1
      <4>1. PICK f \in 2 .. Len(os), i \in Int : f = h /\ i = Len(qs) + (f - 1)
        <5>1. Len(qs) \in Nat
          BY ReplacedTypes
        <5>2. h \in 2 .. Len(os) /\ Len(qs) + (h - 1) \in Int
          BY <1>0, <3>3, <5>1
        <5> QED
          BY <5>2
      <4>2. ps[i] = os[f] /\ i \in 1 .. Len(ps)
        BY <4>1, LaterReplaced
      <4> QED
        BY <1>0, <3>1, <4>1, <4>2
    <3> QED
      BY <3>2, <3>3
  <2>4. ASSUME NEW i \in DOMAIN ps, NEW t \in SegsOf(ps[i]) PROVE t \in DOMAIN st
    <3>1. CASE i \in 1 .. Len(qs)
      <4>1. ps[i] = qs[i]
        BY <3>1, ReplacedTypes
      <4> QED
        BY <1>0, <1>1, <2>2, <2>4, <3>1, <4>1
    <3>2. CASE i \notin 1 .. Len(qs)
      <4>1. PICK g \in Len(qs) + 1 .. Len(ps) : g = i
        BY <1>0, <2>4, <3>2
      <4>2. g - Len(qs) + 1 \in 2 .. Len(os) /\ ps[g] = os[g - Len(qs) + 1]
        BY ReplacedTypes
      <4>3. PICK h \in 2 .. Len(os) : ps[g] = os[h]
        BY <4>2
      <4>4. h \in DOMAIN os
        BY <1>0
      <4> QED
        BY <1>1, <2>4, <4>1, <4>3, <4>4
    <3> QED
      BY <3>1, <3>2
  <2> QED
    BY <2>3, <2>4
<1>6. \A t \in DOMAIN st : Len(bs[t]) = Before(ps, Len(ps) + 1, t)
  <2> SUFFICES ASSUME NEW t \in DOMAIN st PROVE Len(bs[t]) = Before(ps, Len(ps) + 1, t)
    OBVIOUS
  <2>1. Before(ps, Len(qs) + Len(os), t) = Before(os, Len(os) + 1, t)
    BY <1>0, BeforeReplaced
  <2>2. Len(qs) + Len(os) = Len(ps) + 1
    BY <1>0 DEF Replaced
  <2>3. Len(bs[t]) = Before(os, Len(os) + 1, t)
    BY DEF Joined
  <2> QED
    BY <2>1, <2>2, <2>3
<1> QED
  BY <1>1, <1>2, <1>3, <1>4, <1>5, <1>6 DEF Joined

----------------------------------------------------------------------------
(* 22. ProgramIsRight *)

\* The program that the properties are about is the one that is joined.
LEMMA PlacedIsPut == \A os, i, s : Placed(os, i, s) = Put(start, os, i, s)
BY DEF Placed, Put

\* The symbols that define a name.
LEMMA DefinersAre ==
  ASSUME NEW os, NEW n
  PROVE  Definers(os, n) = {d \in SymsOf(os) : Defines(os, d, n)}
BY DEF Definers, Defines

\* What a symbol means is where the table has it,
LEMMA MeaningIs ==
  ASSUME NEW os, Good(os), ~Twice(os, SymsOf(os)), NEW ys, SymsJoined(start, os, ys, SymsOf(os)),
         NEW d \in SymsOf(os), NEW a, IsSym(start, os, ys, d, a)
  PROVE  ys[a].loc = Meaning(os, d[1], Sym(os, d))
<1>1. PICK s \in Symbol : s = Sym(os, d)
  BY SymType
<1>2. CASE ~s.global
  <2>1. ys[a] = There(start, os, d)
    BY <1>1, <1>2 DEF IsSym
  <2>2. PICK p : p = Put(start, os, d[1], s)
    OBVIOUS
  <2>3. ys[a] = [s EXCEPT !.loc = p]
    BY <1>1, <2>1, <2>2 DEF There
  <2>4. ys[a].loc = p
    BY <2>3 DEF Symbol
  <2>5. Meaning(os, d[1], s) = p
    BY <1>2, <2>2, PlacedIsPut DEF Meaning
  <2> QED
    BY <1>1, <2>4, <2>5
<1>3. CASE s.global
  <2>1. a \in DOMAIN ys /\ ys[a].global /\ ys[a].name = s.name
    BY <1>1, <1>3 DEF IsSym
  <2>2. CASE Unknown(ys[a])
    <3>1. ys[a].loc = Nowhere /\ \A e \in SymsOf(os) : ~Defines(os, e, s.name)
      BY <2>1, <2>2 DEF SymsJoined
    <3>2. Definers(os, s.name) = {}
      BY <3>1, DefinersAre
    <3> QED
      BY <1>1, <1>3, <3>1, <3>2 DEF Meaning
  <2>3. CASE ~Unknown(ys[a])
    <3>1. PICK e \in SymsOf(os) :
            Defines(os, e, s.name) /\ ys[a].loc = Put(start, os, e[1], Sym(os, e))
      BY <2>1, <2>3 DEF SymsJoined
    <3>2. PICK n \in Names : n = s.name
      BY DEF Symbol
    <3>3. Definers(os, n) = {e}
      <4>1. ASSUME NEW f \in SymsOf(os), Defines(os, f, n) PROVE f = e
        BY <3>1, <3>2, <4>1 DEF Twice
      <4> QED
        BY <3>1, <3>2, <4>1, DefinersAre
    <3>4. (CHOOSE f \in Definers(os, n) : TRUE) = e
      BY <3>3
    <3>5. Meaning(os, d[1], s) = Placed(os, e[1], Sym(os, e))
      BY <1>3, <3>2, <3>3, <3>4 DEF Meaning
    <3> QED
      BY <1>1, <3>1, <3>5, PlacedIsPut
  <2> QED
    BY <2>2, <2>3
<1> QED
  BY <1>2, <1>3

\* so each byte is what it should be,
LEMMA LinkedIs ==
  ASSUME NEW os, Good(os), ~Twice(os, SymsOf(os)), NEW ys, SymsJoined(start, os, ys, SymsOf(os)),
         NEW rs, NEW i, NEW t, NEW x \in Nat, NEW b,
         ByteJoined(start, os, ys, rs, RefsOf(os), {}, i, t, x, b)
  PROVE  b = Linked(os, i, t, x)
<1>1. PICK over : over = {d \in RefsOf(os) : Over(os, d, i, t, x)}
  OBVIOUS
<1>2. CASE over = {}
  <2>1. b = BytesIn(os[i], t)[x]
    BY <1>1, <1>2 DEF ByteJoined
  <2> QED
    BY <1>1, <1>2, <2>1 DEF Linked
<1>3. CASE over # {}
  <2>1. PICK d \in RefsOf(os) : Over(os, d, i, t, x)
    BY <1>1, <1>3
  <2>2. over = {d}
    <3>1. ASSUME NEW c \in RefsOf(os), Over(os, c, i, t, x) PROVE c = d
      BY <2>1, <3>1, OverOne
    <3> QED
      BY <1>1, <2>1, <3>1
  <2>3. (CHOOSE c \in over : TRUE) = d
    BY <2>2
  <2>4. PICK e \in Range(rs) : IsRef(start, os, ys, d, e) /\ b = Half(ys[e.sym].loc, x - RefAt(os, d) - 1)
    BY <2>1 DEF ByteJoined
  <2>5. IsSym(start, os, ys, RefSym(os, d), e.sym) /\ RefSym(os, d) \in SymsOf(os)
        /\ Target(os, d) = Sym(os, RefSym(os, d))
    BY <2>4, RefType DEF IsRef
  <2>6. RefSym(os, d)[1] = i
    BY <2>1 DEF Over, RefSym
  <2>7. ys[e.sym].loc = Meaning(os, i, Target(os, d))
    BY <2>5, <2>6, MeaningIs
  <2>8. Linked(os, i, t, x) =
          LET c == CHOOSE c \in over : TRUE
          IN Half(Meaning(os, i, Target(os, c)), x - RefAt(os, c) - 1)
    BY <1>1, <1>3, Zenon DEF Linked
  <2>9. Linked(os, i, t, x) = Half(Meaning(os, i, Target(os, d)), x - RefAt(os, d) - 1)
    BY <2>3, <2>8
  <2> QED
    BY <2>4, <2>7, <2>9
<1> QED
  BY <1>2, <1>3

\* and so is the entry point.
LEMMA FirstEntryIs ==
  ASSUME NEW os, Good(os), NEW en, EntryJoined(start, os, en, Len(os))
  PROVE  en = FirstEntry(os) /\ (en = NoEntry => HasEntry(os) = {})
<1>1. Len(os) \in Nat /\ DOMAIN os = 1 .. Len(os)
  BY GoodObjects DEF Good
<1>2. CASE en = NoEntry /\ \A i \in 1 .. Len(os) : os[i].entry = NoEntry
  <2>1. HasEntry(os) = {}
    BY <1>1, <1>2 DEF HasEntry
  <2> QED
    BY <1>2, <2>1 DEF FirstEntry
<1>3. ASSUME NEW i \in 1 .. Len(os), os[i].entry # NoEntry, \A h \in 1 .. i - 1 : os[h].entry = NoEntry,
             en = <<os[i].entry[1], Put(start, os, i, [seg |-> os[i].entry[1], loc |-> os[i].entry[2]])>>
      PROVE  en = FirstEntry(os) /\ en # NoEntry
  <2>1. i \in HasEntry(os) /\ HasEntry(os) \subseteq 1 .. Len(os)
    BY <1>1, <1>3 DEF HasEntry
  <2>2. \A h \in HasEntry(os) : i <= h
    <3>1. ASSUME NEW h \in HasEntry(os), ~(i <= h) PROVE FALSE
      <4>1. h \in 1 .. Len(os) /\ os[h].entry # NoEntry
        BY <2>1 DEF HasEntry
      <4>2. h \in 1 .. i - 1
        BY <1>1, <3>1, <4>1
      <4> QED
        BY <1>3, <4>1, <4>2
    <3> QED
      BY <3>1
  <2>3. ASSUME NEW g \in HasEntry(os), \A h \in HasEntry(os) : g <= h PROVE g = i
    <3>1. g <= i /\ i <= g /\ g \in 1 .. Len(os)
      BY <2>1, <2>2, <2>3
    <3> QED
      BY <1>1, <3>1
  <2>4. PICK g : g = CHOOSE f \in HasEntry(os) : \A h \in HasEntry(os) : f <= h
    OBVIOUS
  <2>5. g = i
    <3>1. g \in HasEntry(os) /\ \A h \in HasEntry(os) : g <= h
      BY <2>1, <2>2, <2>4
    <3> QED
      BY <2>3, <3>1
  <2>6. HasEntry(os) # {}
    BY <2>1
  <2>7. FirstEntry(os) = <<os[g].entry[1], Placed(os, g, [seg |-> os[g].entry[1], loc |-> os[g].entry[2]])>>
    BY <2>4, <2>6 DEF FirstEntry
  <2>8. en = FirstEntry(os)
    BY <1>3, <2>5, <2>7, PlacedIsPut
  <2>9. en # NoEntry
    BY <1>3 DEF NoEntry
  <2> QED
    BY <2>8, <2>9
<1> QED
  BY <1>2, <1>3 DEF EntryJoined

\* Both invocations have joined the objects that tc wrote.
LEMMA OriginReplaced ==
  ASSUME OriginInv, Good(objs), Good(origin), relinked, stage # "search"
  PROVE  \E qs : Replaced(qs, objs, origin) /\ ~Twice(qs, SymsOf(qs))
<1>1. PICK n \in 0 .. Len(origin) :
        origin = SubSeq(origin, 1, n) \o Tail(objs) /\ Came(objs[1], SubSeq(origin, 1, n))
  BY DEF OriginInv
<1>2. PICK qs, rest : qs = SubSeq(origin, 1, n) /\ rest = Tail(objs)
  OBVIOUS
<1>3. Len(objs) >= 1
  BY DEF OriginInv
<1>4. objs \in Seq(Range(objs)) /\ origin \in Seq(Range(origin))
  BY GoodMembers
<1> DEFINE S == Range(origin) \cup Range(objs)
<1>5. objs \in Seq(S) /\ origin \in Seq(S)
  BY <1>4, SeqMonotonic
<1>6. \A o \in S : WellFormed(o) /\ Sound(o)
  BY GoodMembers
<1> HIDE DEF S
<1>7. PICK l \in Nat : l = Len(origin) /\ n \in 0 .. l
  BY <1>5
<1>8. qs \in Seq(S) /\ Len(qs) = n /\ n \in Nat
  BY <1>2, <1>5, <1>7
<1>9. PICK m \in Nat : m = Len(objs) /\ m >= 1
  BY <1>3, <1>5
<1>10. rest \in Seq(S) /\ Len(rest) = m - 1 /\ \A x \in 1 .. m - 1 : rest[x] = objs[x + 1]
  BY <1>2, <1>5, <1>9
<1>11. origin = qs \o rest
  BY <1>1, <1>2
<1>12. Len(origin) = Len(qs) + (Len(objs) - 1)
  <2>1. Len(qs \o rest) = Len(qs) + Len(rest)
    BY <1>8, <1>10, ConcatProperties
  <2> QED
    BY <1>8, <1>9, <1>10, <1>11, <2>1
<1>13. Good(qs)
  BY <1>6, <1>8, GoodOf
<1>14. \A h \in 1 .. Len(qs) : origin[h] = qs[h]
  BY <1>8, <1>10, <1>11, JoinedByte
<1>15. ASSUME NEW h \in 2 .. Len(objs) PROVE origin[Len(qs) + (h - 1)] = objs[h]
  <2>1. PICK x \in 1 .. m - 1 : x = h - 1 /\ x + 1 = h
    BY <1>9
  <2>2. x \in 1 .. Len(rest)
    BY <1>10
  <2>3. origin[Len(qs) + x] = rest[x]
    BY <1>8, <1>10, <1>11, <2>2, JoinedByte
  <2> QED
    BY <1>10, <2>1, <2>3
<1>16. IsJoin(objs[1], qs) /\ ~Twice(qs, SymsOf(qs))
  BY <1>1, <1>2, <1>13 DEF Came
<1>17. Replaced(qs, objs, origin)
  BY <1>3, <1>12, <1>13, <1>14, <1>15, <1>16 DEF Replaced
<1> QED
  BY <1>16, <1>17

\* At the end the output is joined from the objects of the properties.
LEMMA OriginIsJoined ==
  ASSUME LinkInv, SegmentsInv, ProgramInv, Good(origin), stage \in Ended
  PROVE  /\ PartsInv /\ Joined(start, out, syms, reloc, origin)
         /\ job.setEntry = "none" => EntryJoined(start, origin, entry, Len(origin))
         /\ Twice(objs, SymsOf(objs)) <=> Twice(origin, SymsOf(origin))
<1>1. /\ PartsInv /\ OriginInv /\ Good(objs) /\ stage # "search"
      /\ Joined(start, out, syms, reloc, objs)
      /\ job.setEntry = "none" => EntryJoined(start, objs, entry, Len(objs))
  <2>1. PartsInv /\ OriginInv /\ stage # "search"
    BY DEF ProgramInv, Ended
  <2>2. Good(objs)
    BY <2>1, LinkedAreGood
  <2> QED
    BY <2>1, <2>2, JoinedAtEnd DEF PartsInv
<1>2. \A t \in DOMAIN start : start[t] \in Nat
  BY DEF LinkInv, Types, LayoutType, Addr
<1>3. CASE relinked
  <2>1. PICK qs : Replaced(qs, objs, origin) /\ ~Twice(qs, SymsOf(qs))
    BY <1>1, <1>3, OriginReplaced
  <2>2. /\ Joined(start, out, syms, reloc, origin)
        /\ \A i \in DOMAIN objs : SegsOf(objs[i]) \subseteq DOMAIN start
    BY <1>1, <1>2, <2>1, JoinedReplaced
  <2>3. Twice(objs, SymsOf(objs)) <=> Twice(origin, SymsOf(origin))
    BY <1>2, <2>1, <2>2, TwiceReplaced
  <2>4. job.setEntry = "none" => EntryJoined(start, origin, entry, Len(origin))
    BY <1>1, <1>2, <2>1, <2>2, EntryReplaced
  <2> QED
    BY <1>1, <2>2, <2>3, <2>4
<1>4. CASE ~relinked
  <2>1. origin = objs
    BY <1>1, <1>4 DEF OriginInv
  <2> QED
    BY <1>1, <2>1
<1> QED
  BY <1>3, <1>4

\* That is ProgramIsRight.
LEMMA ProgramInvIsRight ==
  ASSUME LinkInv, SegmentsInv, ProgramInv
  PROVE  ProgramIsRight
<1> SUFFICES ASSUME stage = "done", \A i \in DOMAIN origin : Sound(origin[i])
             PROVE  /\ \A t \in DOMAIN start :
                         /\ Len(out[t]) = Before(origin, Len(origin) + 1, t)
                         /\ \A i \in DOMAIN origin : \A x \in DOMAIN BytesIn(origin[i], t) :
                              out[t][Before(origin, i, t) + x] = Linked(origin, i, t, x)
                    /\ job.setEntry = "none" => entry = FirstEntry(origin)
  BY DEF ProgramIsRight
<1>1. /\ Good(origin) /\ Joined(start, out, syms, reloc, origin)
      /\ job.setEntry = "none" => EntryJoined(start, origin, entry, Len(origin))
      /\ ~Twice(origin, SymsOf(origin))
  <2>1. stage \in Ended /\ Good(origin)
    BY DEF Ended, ProgramInv, OriginInv, Good
  <2>2. ~Twice(objs, SymsOf(objs))
    BY <2>1 DEF ProgramInv, PartsInv, FailureInv
  <2> QED
    BY <2>1, <2>2, OriginIsJoined
<1>2. \A t \in DOMAIN start : Len(out[t]) = Before(origin, Len(origin) + 1, t)
  BY <1>1 DEF Joined
<1>3. ASSUME NEW t \in DOMAIN start, NEW i \in DOMAIN origin, NEW x \in DOMAIN BytesIn(origin[i], t)
      PROVE  out[t][Before(origin, i, t) + x] = Linked(origin, i, t, x)
  <2>1. i \in 1 .. Len(origin)
    BY <1>1, GoodObjects DEF Good
  <2>2. BytesIn(origin[i], t) \in Seq(Byte)
    BY <1>1, <2>1, GoodObjects DEF Good
  <2>3. t \in SegsOf(origin[i])
    <3>1. t \notin SegsOf(origin[i]) => BytesIn(origin[i], t) = <<>>
      BY DEF BytesIn
    <3> QED
      BY <1>3, <3>1
  <2>4. x \in Nat
    BY <2>2
  <2>5. PICK b : b = out[t][Before(origin, i, t) + x]
    OBVIOUS
  <2>6. ByteJoined(start, origin, syms, reloc, RefsOf(origin), {}, i, t, x, b)
    BY <1>1, <2>3, <2>5 DEF Joined, BytesJoined
  <2>7. SymsJoined(start, origin, syms, SymsOf(origin))
    BY <1>1 DEF Joined
  <2>8. b = Linked(origin, i, t, x)
    BY <1>1, <2>4, <2>6, <2>7, LinkedIs
  <2> QED
    BY <2>5, <2>8
<1>4. job.setEntry = "none" => entry = FirstEntry(origin)
  BY <1>1, FirstEntryIs
<1> QED
  BY <1>2, <1>3, <1>4

\* Each byte of the linked program is the byte of the object it came from, or
\* half of the address that the reference over it means, and the program starts
\* where its first object with an entry point says, whatever the objects, the
\* archives and the second invocation.
THEOREM LinkedProgramIsRight == Spec /\ []LayoutFits => []ProgramIsRight
<1>1. LinkInv /\ SegmentsInv /\ ProgramInv => ProgramIsRight
  BY ProgramInvIsRight
<1> QED
  BY <1>1, ProgramInvHolds, PTL

----------------------------------------------------------------------------
(* 23. VerdictIsRight *)

\* A reference without a definition is one that still waits.
LEMMA UndefinedIs ==
  ASSUME LinkInv, NEW os, Good(os), Joined(start, out, syms, reloc, os), Waits(syms, reloc, undef)
  PROVE  UndefinedReference(os) <=> \E e \in Range(undef) : Unknown(syms[e.sym])
<1>0. SymsJoined(start, os, syms, SymsOf(os)) /\ RefsJoined(start, os, syms, reloc, RefsOf(os))
  BY DEF Joined
<1>1. (\E e \in Range(undef) : Unknown(syms[e.sym])) <=> \E e \in Range(reloc) : Unknown(syms[e.sym])
  BY DEF Waits
<1>2. ASSUME NEW d \in RefsOf(os), Undefined(os, d)
      PROVE  \E e \in Range(reloc) : Unknown(syms[e.sym])
  <2>1. PICK e \in Range(reloc) : IsRef(start, os, syms, d, e)
    BY <1>0 DEF RefsJoined
  <2>2. PICK c \in SymsOf(os) : c = RefSym(os, d) /\ Target(os, d) = Sym(os, c)
    BY RefType
  <2>3. IsSym(start, os, syms, c, e.sym)
    BY <2>1, <2>2 DEF IsRef
  <2>4. Sym(os, c).global /\ Definers(os, Sym(os, c).name) = {}
    BY <1>2, <2>2, SymType DEF Undefined
  <2>5. e.sym \in DOMAIN syms /\ syms[e.sym].global /\ syms[e.sym].name = Sym(os, c).name
    BY <2>3, <2>4 DEF IsSym
  <2>6. Unknown(syms[e.sym])
    <3>1. SUFFICES ASSUME ~Unknown(syms[e.sym]) PROVE FALSE
      OBVIOUS
    <3>2. \E f \in SymsOf(os) : Defines(os, f, Sym(os, c).name)
      BY <1>0, <2>5, <3>1 DEF SymsJoined
    <3> QED
      BY <2>4, <3>2, DefinersAre
  <2> QED
    BY <2>6
<1>3. ASSUME NEW e \in Range(reloc), Unknown(syms[e.sym])
      PROVE  \E d \in RefsOf(os) : Undefined(os, d)
  <2>1. PICK d \in RefsOf(os) : IsRef(start, os, syms, d, e)
    BY <1>0 DEF RefsJoined
  <2>2. PICK c \in SymsOf(os) : c = RefSym(os, d) /\ Target(os, d) = Sym(os, c)
    BY RefType
  <2>3. IsSym(start, os, syms, c, e.sym) /\ e.sym \in DOMAIN syms
    BY <2>1, <2>2 DEF IsRef, IsSym
  <2>4. PICK s \in Symbol : s = Sym(os, c)
    BY SymType
  <2>5. s.global
    <3>1. SUFFICES ASSUME ~s.global PROVE FALSE
      OBVIOUS
    <3>2. PICK p : p = Put(start, os, c[1], s)
      OBVIOUS
    <3>3. syms[e.sym] = [s EXCEPT !.loc = p]
      BY <2>3, <2>4, <3>1, <3>2 DEF IsSym, There
    <3>4. s.seg = "unknown"
      BY <1>3, <3>3 DEF Symbol, Unknown
    <3> QED
      BY <2>4, <3>1, <3>4, SymType DEF Unknown
  <2>6. syms[e.sym].global /\ syms[e.sym].name = s.name
    BY <2>3, <2>4, <2>5 DEF IsSym
  <2>7. \A f \in SymsOf(os) : ~Defines(os, f, s.name)
    BY <1>0, <1>3, <2>3, <2>6 DEF SymsJoined
  <2>8. Definers(os, s.name) = {}
    BY <2>7, DefinersAre
  <2> QED
    BY <2>2, <2>4, <2>5, <2>8 DEF Undefined
<1> QED
  BY <1>1, <1>2, <1>3 DEF UndefinedReference

\* A name is absent from the table if it is absent from every object.
LEMMA AbsentIs ==
  ASSUME LinkInv, GlobInv, NEW os, Good(os), SymsJoined(start, os, syms, SymsOf(os)), NEW n \in Names
  PROVE  n \notin DOMAIN glob <=> \A i \in DOMAIN os : Definedness(os[i], n) = "absent"
<1> USE DEF LinkInv, Types
<1>1. ASSUME n \in DOMAIN glob PROVE \E i \in DOMAIN os : Definedness(os[i], n) # "absent"
  <2>1. glob[n] \in DOMAIN syms /\ syms[glob[n]].global /\ syms[glob[n]].name = n
    BY <1>1 DEF SymbolsType
  <2>2. PICK d \in SymsOf(os) : Sym(os, d).global /\ Sym(os, d).name = n
    BY <2>1 DEF SymsJoined
  <2>3. d[1] \in DOMAIN os /\ d[2] \in DOMAIN os[d[1]].syms
    BY SymType, GoodObjects DEF Good
  <2>4. PICK i \in DOMAIN os : i = d[1]
    BY <2>3
  <2>5. PICK m \in DOMAIN os[i].syms : m = d[2]
    BY <2>3, <2>4
  <2>6. os[i].syms[m].global /\ os[i].syms[m].name = n
    BY <2>2, <2>4, <2>5 DEF Sym
  <2>7. {l \in DOMAIN os[i].syms : os[i].syms[l].global /\ os[i].syms[l].name = n} # {}
    BY <2>6
  <2>8. Definedness(os[i], n) \in {"undefined", "defined"}
    BY <2>7 DEF Definedness
  <2> QED
    BY <2>8
<1>2. ASSUME NEW i \in DOMAIN os, Definedness(os[i], n) # "absent" PROVE n \in DOMAIN glob
  <2>1. {l \in DOMAIN os[i].syms : os[i].syms[l].global /\ os[i].syms[l].name = n} # {}
    BY <1>2 DEF Definedness
  <2>2. PICK m \in DOMAIN os[i].syms : os[i].syms[m].global /\ os[i].syms[m].name = n
    BY <2>1
  <2>3. PICK d \in SymsOf(os) : d = <<i, m>>
    <3>1. <<i, m>> \in SymsOf(os)
      BY <1>2, <2>2 DEF SymsOf
    <3> QED
      BY <3>1
  <2>4. Sym(os, d).global /\ Sym(os, d).name = n
    BY <2>2, <2>3 DEF Sym
  <2>5. PICK a \in DOMAIN syms : IsSym(start, os, syms, d, a)
    BY DEF SymsJoined
  <2>6. syms[a].global /\ syms[a].name = n
    BY <2>4, <2>5 DEF IsSym
  <2> QED
    BY <2>6 DEF GlobInv
<1> QED
  BY <1>1, <1>2

\* Somebody has the name that a symbol defines.
LEMMA DefinedIsThere ==
  ASSUME GlobInv, NEW os, SymsJoined(start, os, syms, SymsOf(os)), NEW n, Definers(os, n) # {}
  PROVE  n \in DOMAIN glob
<1>1. PICK d \in SymsOf(os) : Defines(os, d, n)
  BY DefinersAre
<1>2. PICK a \in DOMAIN syms : IsSym(start, os, syms, d, a)
  BY DEF SymsJoined
<1>3. syms[a].global /\ syms[a].name = n
  BY <1>1, <1>2 DEF IsSym, Defines
<1> QED
  BY <1>3 DEF GlobInv

\* That is VerdictIsRight.
LEMMA ProgramInvJudges ==
  ASSUME LinkInv, SegmentsInv, ProgramInv, PanicInv, \A i \in DOMAIN origin : Sound(origin[i])
  PROVE  VerdictIsRight
<1>1. ASSUME stage \in Ended
      PROVE  /\ stage = "failed" <=>
                  \/ DefinedTwice(origin)
                  \/ job.exe /\ UndefinedReference(origin)
                  \/ StartAbsent
             /\ StartAbsent => NoStart
             /\ stage = "noentry" => job.exe /\ job.setEntry = "none" /\ HasEntry(origin) = {}
  <2>0. Good(origin)
    BY DEF ProgramInv, OriginInv, Good
  <2>1. /\ PartsInv /\ Joined(start, out, syms, reloc, origin)
        /\ job.setEntry = "none" => EntryJoined(start, origin, entry, Len(origin))
        /\ Twice(objs, SymsOf(objs)) <=> Twice(origin, SymsOf(origin))
    BY <1>1, <2>0, OriginIsJoined
  <2>2. Waits(syms, reloc, undef) /\ GlobInv /\ SymsJoined(start, origin, syms, SymsOf(origin))
    BY <1>1, <2>1 DEF PartsInv, RefsInv, SymsInv, Joined
  <2>3. stage = "failed" <=> \/ Twice(objs, SymsOf(objs))
                             \/ job.exe /\ \E e \in Range(undef) : Unknown(syms[e.sym])
                             \/ job.setEntry \in Names \ DOMAIN glob
    BY <1>1, <2>1 DEF PartsInv, FailureInv
  <2>4. Twice(origin, SymsOf(origin)) <=> DefinedTwice(origin)
    <3>1. ASSUME NEW n \in Names
          PROVE  (\E d, e \in SymsOf(origin) : d # e /\ Defines(origin, d, n) /\ Defines(origin, e, n))
                 <=> \E d, e \in Definers(origin, n) : d # e
      BY DefinersAre
    <3> QED
      BY <3>1 DEF Twice, DefinedTwice
  <2>5. UndefinedReference(origin) <=> \E e \in Range(undef) : Unknown(syms[e.sym])
    BY <2>0, <2>1, <2>2, UndefinedIs
  <2>6. job.setEntry \in Names \ DOMAIN glob <=> StartAbsent
    BY <2>0, <2>1, <2>2, AbsentIs DEF StartAbsent
  <2>7. job.setEntry \in Names \ DOMAIN glob => NoStart
    BY <2>2, DefinedIsThere DEF NoStart
  <2>8. stage = "noentry" => job.exe /\ job.setEntry = "none" /\ HasEntry(origin) = {}
    <3>1. SUFFICES ASSUME stage = "noentry"
                   PROVE  job.exe /\ job.setEntry = "none" /\ HasEntry(origin) = {}
      OBVIOUS
    <3>2. job.exe /\ job.setEntry = "none" /\ entry = NoEntry
      BY <2>1, <3>1 DEF PartsInv, FailureInv
    <3> QED
      BY <2>0, <2>1, <3>2, FirstEntryIs
  <2> QED
    BY <2>3, <2>1, <2>4, <2>5, <2>6, <2>7, <2>8
<1>2. stage \in {"done", "failed", "noentry"} <=> stage \in Ended
  BY DEF Ended
<1>3. stage = "noentry" => stage \in Ended
  BY DEF Ended
<1> QED
  BY <1>1, <1>2, <1>3 DEF VerdictIsRight, PanicInv

\* If no object has a symbol or relocation that means nothing, linking fails,
\* or stops for want of an entry point, exactly for the reasons a linker may
\* have, over both invocations and with the archives; and for any objects tl
\* panics only as PanicsOverAnObject says.
THEOREM LinkersVerdictIsRight ==
  Spec /\ []LayoutFits => []((\A i \in DOMAIN origin : Sound(origin[i])) => VerdictIsRight)
<1>1. LinkInv /\ SegmentsInv /\ ProgramInv /\ PanicInv =>
        ((\A i \in DOMAIN origin : Sound(origin[i])) => VerdictIsRight)
  BY ProgramInvJudges
<1> QED
  BY <1>1, ProgramInvHolds, PanicsOverAnObject, PTL
==============================================================================
