----------------------------- MODULE ObjectFile -----------------------------
(***************************************************************************)
(* Object files on disk: the álvur container with its writer and reader    *)
(* (src/aalv/mod.rs), the sections of an object (src/aalv/obj.rs and       *)
(* obj/sec_impl.rs), archives (src/aalv/savn.rs, src/bin/tar.rs), and      *)
(* tstrip, which rewrites a file in place (src/bin/tstrip.rs).             *)
(* A file is a sequence of bytes.  To keep it short the magics, the names  *)
(* of sections and every 16-bit number are scaled down: a number is one    *)
(* byte, and the length of a section is written modulo W.                  *)
(* Writing may fail, and the process may be killed, at any flush of the    *)
(* buffer.  Options are sequences of at most one element.                  *)
(***************************************************************************)
EXTENDS Integers, Sequences, FiniteSets, SequencesExt, TLC

CONSTANTS
  W,     \* 2^16 in the code
  Jobs   \* what is written, stripped, archived and read

Byte == 0 .. 255
Nul == 0
Space == 32
Underscore == 95
AalvMagic == <<195, 118, 50>>
SavnMagic == <<195, 118, 97, 10>>   \* starts like the other one

SegmentType == {0, 16, 24, 32, 112, 255}

\* One name per kind of section; StackSize and HeapSize have the same.
NAME == [entry |-> <<95, 101>>, flags |-> <<95, 102>>, stack |-> <<95, 104>>,
         heap |-> <<95, 104>>, seg |-> <<95, 115>>, syms |-> <<95, 121>>,
         relocs |-> <<95, 114>>]

\* The sections after the segments, in the order they are written and read.
Fields == <<"entry", "flags", "stack", "heap", "syms", "relocs">>
NoObject == [entry |-> <<>>, flags |-> <<>>, stack |-> <<>>, heap |-> <<>>,
             segs |-> <<>>, syms |-> <<>>, relocs |-> <<>>]

VARIABLES
  job,     \* the objects, the bytes before them, what is done with the files
  stage,   \* what is done next
  obj,     \* the object being written or read
  disk,    \* the file
  cur,     \* where the writer is in the file, or the reader
  buf,     \* what the BufWriter has not written yet
  todo,    \* the sections not yet written
  report,  \* "ok", "error", or "killed" when a writer could report no more
  sealed,  \* history: every byte of every file has reached the disk
  stripped,\* tstrip has been there
  files,   \* the finished files before this one
  secs,    \* the sections whose headers were read and that are not used yet
  window,  \* the bytes of the section being read
  at,      \* file_offset, and file_end
  got      \* the objects read from the file or archive

reader == <<secs, window, at, got>>
fixed == <<job, obj, files, stripped, reader>>   \* while a file is written
vars == <<stage, disk, cur, buf, todo, report, sealed, fixed>>

Init ==
  /\ job \in Jobs
  /\ stage = "create" /\ obj = job.objs[1] /\ disk = job.prefix
  /\ cur = 0 /\ buf = <<>> /\ todo = <<>>
  /\ report = "ok" /\ sealed = TRUE /\ stripped = FALSE /\ files = <<>>
  /\ secs = <<>> /\ window = <<>> /\ got = <<>>
  /\ at = [start |-> Len(job.prefix), end |-> 0]

----------------------------------------------------------------------------
(* The bytes of an object *)

SymbolBytes(s) == (IF s.global THEN <<>> ELSE <<Space>>) \o s.name \o <<Nul, s.stype, s.loc>>
RelocBytes(r) == <<r.stype, r.loc, r.index>>

\* Section::write
Content(o, f) ==
  CASE f = "entry"           -> <<o.entry[1].stype, o.entry[1].loc>>
    [] f = "flags"           -> IF o.flags[1] THEN <<82>> ELSE <<>>
    [] f \in {"stack", "heap"} -> o[f]
    [] f = "syms"            -> FlattenSeq([i \in DOMAIN o.syms |-> SymbolBytes(o.syms[i])])
    [] f = "relocs"          -> FlattenSeq([i \in DOMAIN o.relocs |-> RelocBytes(o.relocs[i])])
Section(o, f) == IF o[f] = <<>> THEN <<>> ELSE <<[name |-> NAME[f], bytes |-> Content(o, f)]>>
Segment(o, t) == [name |-> NAME.seg, bytes |-> <<o.segs[t].off, t>> \o o.segs[t].bytes]

\* write_to_file: the segments, by their type, come between the sizes and the
\* symbols.
Sections(o) ==
  LET part(fs) == FlattenSeq([i \in DOMAIN fs |-> Section(o, fs[i])])
      types == SetToSortSeq(DOMAIN o.segs, <)
  IN part(SubSeq(Fields, 1, 4))
       \o [i \in DOMAIN types |-> Segment(o, types[i])]
       \o part(SubSeq(Fields, 5, 6))

----------------------------------------------------------------------------
(* Writing: AalvWriter on a BufWriter *)

\* The file after the first k bytes of b have been written where the writer is.
Flushed(b, k) ==
  [i \in 1 .. Max({cur + k, Len(disk)}) |->
     IF i \in cur + 1 .. cur + k THEN b[i - cur] ELSE disk[i]]

\* write_aalv_file_with_offset keeps what is before the object, and only that.
KeptNothing == 0   \* faulty variant: the offset is forgotten
Kept == at.start
Create ==
  /\ stage = "create"
  /\ disk' = SubSeq(disk, 1, Kept) /\ cur' = Kept
  /\ buf' = AalvMagic
  /\ todo' = Sections(obj)
  /\ stage' = "section"
  /\ UNCHANGED <<report, sealed, fixed>>

\* write_section: name, a length of zero, and the content go to the buffer;
WriteSection ==
  /\ stage = "section" /\ todo # <<>>
  /\ buf' = buf \o todo[1].name \o <<Nul, 0>> \o todo[1].bytes
  /\ stage' = "back"
  /\ UNCHANGED <<disk, cur, todo, report, sealed, fixed>>

\* the seek back to the length writes the buffer out,
LengthOf(sec) == Len(sec.bytes) % W
SeekBack ==
  /\ stage = "back"
  /\ disk' = Flushed(buf, Len(buf))
  /\ cur' = cur + Len(buf) - Len(todo[1].bytes) - 1
  /\ buf' = <<LengthOf(todo[1])>>
  /\ stage' = "length"
  /\ UNCHANGED <<todo, report, sealed, fixed>>

\* and so does the seek on to the next section.
SeekOn ==
  /\ stage = "length"
  /\ disk' = Flushed(buf, 1)
  /\ cur' = cur + 1 + Len(todo[1].bytes)
  /\ buf' = <<>> /\ todo' = Tail(todo)
  /\ stage' = "section"
  /\ UNCHANGED <<report, sealed, fixed>>

\* Either may fail after some bytes; the others stay in the buffer.
FlushFails ==
  /\ job.faults /\ stage \in {"back", "length"}
  /\ \E k \in 0 .. Len(buf) - 1 :
       /\ disk' = Flushed(buf, k) /\ cur' = cur + k
       /\ buf' = SubSeq(buf, k + 1, Len(buf))
  /\ stage' = "failed"
  /\ UNCHANGED <<todo, report, sealed, fixed>>

\* Drop: the final zero byte goes to the buffer, after a failure too, and what
\* is in the buffer to the file; nobody hears of an error of this last flush.
ReportedNever == report   \* faulty variant
Reported == IF stage = "failed" THEN "error" ELSE report
Drop ==
  /\ stage = "failed" \/ (stage = "section" /\ todo = <<>>)
  /\ LET all == Append(buf, Nul)
     IN \E k \in (IF job.faults THEN 0 .. Len(all) ELSE {Len(all)}) :
          disk' = Flushed(all, k) /\ sealed' = (sealed /\ k = Len(all))
  /\ report' = Reported
  /\ stage' = "written" /\ buf' = <<>> /\ todo' = <<>>
  /\ UNCHANGED <<cur, fixed>>

\* The process is killed; some of the buffer may have been written before.
Kill ==
  /\ job.faults /\ stage \in {"section", "back", "length"}
  /\ \E k \in 0 .. Len(buf) : disk' = Flushed(buf, k)
  /\ report' = "killed"
  /\ stage' = "written" /\ buf' = <<>> /\ todo' = <<>>
  /\ UNCHANGED <<cur, sealed, fixed>>

\* The next object gets a file of its own.
NextFile ==
  /\ stage = "written" /\ Len(files) + 1 < Len(job.objs)
  /\ files' = Append(files, disk) /\ disk' = job.prefix
  /\ obj' = job.objs[Len(files) + 2]
  /\ at' = [at EXCEPT !.start = Len(job.prefix)]
  /\ stage' = "create"
  /\ UNCHANGED <<job, cur, buf, todo, report, sealed, stripped, secs, window, got>>

----------------------------------------------------------------------------
(* Reading: AalvReader, from_aalv_reader, and the iterator of an archive *)

\* A reader is made where the file is read from.
Open(file, pos) ==
  /\ disk' = file /\ cur' = pos
  /\ stage' = "magic" /\ obj' = NoObject /\ secs' = <<>> /\ window' = <<>>
  /\ at' = [start |-> pos, end |-> 0]
  /\ UNCHANGED <<job, buf, todo, report, sealed, stripped>>

AllWritten == stage = "written" /\ Len(files) + 1 = Len(job.objs)
OpenFile == AllWritten /\ ~job.tar /\ Open(disk, 0) /\ got' = <<>> /\ UNCHANGED files

\* tar copies the files one after the other; read_archive skips its magic.
Pack ==
  /\ AllWritten /\ job.tar
  /\ Open(SavnMagic \o FlattenSeq(files) \o disk, Len(SavnMagic))
  /\ got' = <<>> /\ files' = <<>>

untouched == <<job, disk, buf, todo, report, sealed, stripped, files>>   \* while reading
Fail(s) == stage' = s /\ UNCHANGED <<cur, obj, reader, untouched>>

\* read_magic: bytes are skipped up to one that begins the magic, and so are
\* all the bytes compared when the others differ.
StartsMagic == cur < Len(disk) /\ disk[cur + 1] = AalvMagic[1]
EnoughLeft == cur + Len(AalvMagic) <= Len(disk)
NoMagic == stage = "magic" /\ (cur = Len(disk) \/ (StartsMagic /\ ~EnoughLeft)) /\ Fail("error")
SkipByte ==
  /\ stage = "magic" /\ cur < Len(disk) /\ ~StartsMagic
  /\ cur' = cur + 1
  /\ UNCHANGED <<stage, obj, reader, untouched>>
AfterCompareBack == IF SubSeq(disk, cur + 1, cur + Len(AalvMagic)) = AalvMagic
                    THEN cur + Len(AalvMagic) ELSE cur   \* faulty variant: compared again
AfterCompare == cur + Len(AalvMagic)
CompareMagic ==
  /\ stage = "magic" /\ StartsMagic /\ EnoughLeft
  /\ cur' = AfterCompare
  /\ at' = [at EXCEPT !.start = cur]
  /\ stage' = IF SubSeq(disk, cur + 1, cur + Len(AalvMagic)) = AalvMagic THEN "headers" ELSE "magic"
  /\ UNCHANGED <<obj, secs, window, got, untouched>>

\* read_section_headers: names, lengths, and jumps over the contents, which
\* may lead behind the end of the file.
NextNul == SelectInSeq(SubSeq(disk, cur + 1, Len(disk)), LAMBDA b : b = Nul)
BadHeader ==
  /\ stage = "headers"
  /\ NextNul = 0 \/ (NextNul > 1 /\ cur + NextNul = Len(disk))
  /\ Fail("error")
ReadHeader ==
  /\ stage = "headers" /\ NextNul > 1 /\ cur + NextNul < Len(disk)
  /\ LET pos == cur + NextNul + 1
     IN /\ secs' = Append(secs, [name |-> SubSeq(disk, cur + 1, cur + NextNul - 1),
                                 pos |-> pos, size |-> disk[pos]])
        /\ cur' = pos + disk[pos]
  /\ UNCHANGED <<stage, obj, window, at, got, untouched>>
FileEndBehind == cur + NextNul + 1   \* faulty variant
FileEnd == cur + NextNul
EndHeaders ==
  /\ stage = "headers" /\ NextNul = 1
  /\ at' = [at EXCEPT !.end = FileEnd]
  /\ stage' = "seg"
  /\ UNCHANGED <<cur, obj, secs, window, got, untouched>>

\* read_section takes the first section of the name out of the list.
Find(f) == SelectInSeq(secs, LAMBDA s : s.name = NAME[f])
Found(f) == Find(f) # 0
Bytes(f) == LET s == secs[Find(f)] IN SubSeq(disk, s.pos + 1, s.pos + s.size)
Taken(f) == RemoveAt(secs, Find(f))

ReadSegment ==
  /\ stage = "seg" /\ Found("seg")
  /\ LET b == Bytes("seg")
     IN IF Len(b) < 2 \/ b[2] \notin SegmentType \/ b[2] \in DOMAIN obj.segs
        THEN Fail("error")
        ELSE /\ obj' = [obj EXCEPT !.segs =
                          b[2] :> [off |-> b[1], bytes |-> SubSeq(b, 3, Len(b))] @@ @]
             /\ secs' = Taken("seg")
             /\ UNCHANGED <<stage, cur, window, at, got, untouched>>

ListStage == [syms |-> "symbols", relocs |-> "relocations"]

\* One field after the other; symbols and relocations are lists.
After(f) == IF f = "seg" THEN "entry"
            ELSE LET i == CHOOSE j \in DOMAIN Fields : Fields[j] = f
                 IN IF i < Len(Fields) THEN Fields[i + 1] ELSE "rest"
Absent(f) ==
  /\ stage = f /\ ~Found(f)
  /\ stage' = After(f)
  /\ UNCHANGED <<cur, obj, reader, untouched>>
ReadList(f) ==
  /\ f \in {"syms", "relocs"} /\ stage = f /\ Found(f)
  /\ window' = Bytes(f) /\ secs' = Taken(f)
  /\ stage' = ListStage[f]
  /\ UNCHANGED <<cur, obj, at, got, untouched>>
Readable(f, b) ==
  CASE f = "entry"           -> Len(b) >= 2 /\ b[1] \in SegmentType
    [] f = "flags"           -> ToSet(b) \subseteq {82}
    [] f \in {"stack", "heap"} -> Len(b) >= 1
Decoded(f, b) ==
  CASE f = "entry"           -> [stype |-> b[1], loc |-> b[2]]
    [] f = "flags"           -> 82 \in ToSet(b)
    [] f \in {"stack", "heap"} -> b[1]
ReadField(f) ==
  /\ f \in {"entry", "flags", "stack", "heap"} /\ stage = f /\ Found(f)
  /\ IF ~Readable(f, Bytes(f)) THEN Fail("error")
     ELSE /\ obj' = [obj EXCEPT ![f] = <<Decoded(f, Bytes(f))>>]
          /\ secs' = Taken(f)
          /\ stage' = After(f)
          /\ UNCHANGED <<cur, window, at, got, untouched>>

\* A name of no bytes has no first byte to tell a local symbol by.
ReadSymbol ==
  /\ stage = "symbols" /\ window # <<>>
  /\ LET n == SelectInSeq(window, LAMBDA b : b = Nul)
         local == window[1] = Space
     IN IF n = 0 \/ n + 2 > Len(window) \/ window[n + 1] \notin SegmentType THEN Fail("error")
        ELSE IF n = 1 THEN Fail("panic")
        ELSE /\ obj' = [obj EXCEPT !.syms = Append(@,
                          [name |-> SubSeq(window, IF local THEN 2 ELSE 1, n - 1),
                           global |-> ~local, stype |-> window[n + 1], loc |-> window[n + 2]])]
             /\ window' = SubSeq(window, n + 3, Len(window))
             /\ UNCHANGED <<stage, cur, secs, at, got, untouched>>
ReadReloc ==
  /\ stage = "relocations" /\ Len(window) >= 3
  /\ IF window[1] \notin SegmentType THEN Fail("error")
     ELSE /\ obj' = [obj EXCEPT !.relocs = Append(@,
                       [stype |-> window[1], loc |-> window[2], index |-> window[3]])]
          /\ window' = SubSeq(window, 4, Len(window))
          /\ UNCHANGED <<stage, cur, secs, at, got, untouched>>
EndList(f) ==
  /\ stage = ListStage[f]
  /\ IF f = "syms" THEN window = <<>> ELSE Len(window) < 3
  /\ stage' = After(f)
  /\ UNCHANGED <<cur, obj, reader, untouched>>

\* Sections nobody asked for must not look like sections of an object.
Finish ==
  /\ stage = "rest"
  /\ IF \E i \in DOMAIN secs : secs[i].name[1] = Underscore THEN Fail("panic")
     ELSE /\ got' = Append(got, obj) /\ stage' = "loaded"
          /\ UNCHANGED <<cur, obj, secs, window, at, untouched>>

\* The iterator of an archive goes on while there is another byte.
NextMember ==
  /\ stage = "loaded" /\ job.tar /\ at.end < Len(disk)
  /\ Open(disk, at.end) /\ UNCHANGED <<got, files>>
Done ==
  /\ stage = "loaded"
  /\ IF job.tar THEN at.end = Len(disk) ELSE job.strip = "no" \/ stripped
  /\ stage' = "done"
  /\ UNCHANGED <<cur, obj, reader, untouched>>

----------------------------------------------------------------------------
(* tstrip: what was read is written back, without names or without symbols *)

BlankedOut(o) == SelectSeq(o.syms, LAMBDA s : s.global)   \* faulty variant
Blanked(o) == [i \in DOMAIN o.syms |->
  IF o.syms[i].global THEN o.syms[i] ELSE [o.syms[i] EXCEPT !.name = <<>>]]

Strip ==
  /\ stage = "loaded" /\ ~job.tar /\ job.strip # "no" /\ ~stripped
  /\ stripped' = TRUE
  /\ IF job.strip = "all" /\ obj.entry = <<>>
     THEN stage' = "refused" /\ UNCHANGED obj
     ELSE /\ obj' = IF job.strip = "names" THEN [obj EXCEPT !.syms = Blanked(obj)]
                    ELSE [obj EXCEPT !.syms = <<>>, !.relocs = <<>>]
          /\ stage' = "create"
  /\ UNCHANGED <<job, disk, cur, buf, todo, report, sealed, files, reader>>

----------------------------------------------------------------------------

Write == Create \/ WriteSection \/ SeekBack \/ SeekOn \/ FlushFails \/ Drop \/ Kill \/ NextFile

Load ==
  \/ OpenFile \/ Pack
  \/ NoMagic \/ SkipByte \/ CompareMagic
  \/ BadHeader \/ ReadHeader \/ EndHeaders
  \/ ReadSegment \/ ReadSymbol \/ ReadReloc
  \/ \E f \in DOMAIN NAME : Absent(f) \/ ReadList(f) \/ ReadField(f)
  \/ \E f \in {"syms", "relocs"} : EndList(f)
  \/ Finish \/ NextMember \/ Done

Next == Write \/ Load \/ Strip

Spec == Init /\ [][Next]_vars /\ WF_vars(Next)

----------------------------------------------------------------------------
(* Properties *)

TypeOK ==
  /\ disk \in Seq(Byte) /\ buf \in Seq(Byte) /\ window \in Seq(Byte)
  /\ cur \in Nat /\ at \in [start : 0 .. Len(disk), end : Nat]
  /\ stage = "loaded" => at.end <= Len(disk)
  /\ report \in {"ok", "error", "killed"}
  /\ DOMAIN obj.segs \subseteq SegmentType
  /\ \A i \in DOMAIN secs : secs[i].name # <<>> /\ secs[i].pos <= Len(disk)

\* Objects whose sections say what they are: every section shorter than the
\* field for its length, no global symbol that is nameless or looks local.
Legible(o) ==
  /\ \A i \in DOMAIN Sections(o) : Len(Sections(o)[i].bytes) < W
  /\ \A i \in DOMAIN o.syms : o.syms[i].global => o.syms[i].name # <<>> /\ o.syms[i].name[1] # Space

\* And whose sections are told apart: not a heap size alone, which SizesReadBack
\* is about.
Portable(o) == Legible(o) /\ (o.heap # <<>> => o.stack # <<>>)

\* The magic is not overlooked: what comes before it has no byte that could
\* begin it so near to the end that the comparison runs into the magic.
Findable(p) == \A i \in DOMAIN p : p[i] = AalvMagic[1] => i + Len(AalvMagic) - 1 <= Len(p)

Proper == Findable(job.prefix) /\ \A i \in DOMAIN job.objs : Portable(job.objs[i])

\* What is read is what was written, or the reader or the writer has noticed:
\* a file or an archive that was completely written is read without an error,
\* and where the writer has reported none, never as something else.  That is of
\* portable objects; and a last byte that was lost without a report may make two
\* members of an archive into one.
ReadsBack ==
  Proper /\ report = "ok" /\ job.strip = "no" =>
    /\ sealed => stage \notin {"error", "panic"}
    /\ stage = "done" /\ (job.tar => sealed) => got = job.objs

\* A size that was written comes back as that size: stack_size and heap_size are
\* two fields of an object (obj.rs:19-20), each with a type and a section of its
\* own.  A heap size alone does not: both sections are called _heap_size.
SizesReadBack ==
  Findable(job.prefix) /\ Legible(job.objs[1]) /\ ~job.tar /\ report = "ok" /\ stage = "done" =>
    \A i \in DOMAIN got : got[i].stack = job.objs[i].stack /\ got[i].heap = job.objs[i].heap

\* tstrip changes nothing but names and tables: segments, entry point and sizes
\* stay, and without -a each relocation still has the same symbol, which is
\* where it was and, if global, called what it was.
StripKeeps ==
  Proper /\ report = "ok" /\ stripped /\ stage = "done" =>
    LET old == job.objs[1]  new == got[1]
    IN /\ \A f \in {"entry", "flags", "stack", "heap", "segs"} : new[f] = old[f]
       /\ IF job.strip # "names" THEN new.syms = <<>> /\ new.relocs = <<>>
          ELSE /\ new.relocs = old.relocs
               /\ \A i \in DOMAIN new.relocs :
                    LET k == new.relocs[i].index + 1
                    IN /\ k \in DOMAIN new.syms
                       /\ new.syms[k].stype = old.syms[k].stype /\ new.syms[k].loc = old.syms[k].loc
                       /\ old.syms[k].global => new.syms[k] = old.syms[k]
               /\ \A i \in DOMAIN old.syms : old.syms[i].global => old.syms[i] \in ToSet(new.syms)

\* A writer never touches what is before the object, such as the line that
\* makes an executable of it, not even when it fails or is killed.
PrefixKept ==
  stage \notin {"magic", "headers"} /\ ~job.tar =>
    Len(disk) >= Len(job.prefix) /\ SubSeq(disk, 1, Len(job.prefix)) = job.prefix

\* Whatever a writer has left behind, reading it ends.
Final == {"done", "error", "panic", "refused"}
ReadingEnds == <>(stage \in Final)
=============================================================================
