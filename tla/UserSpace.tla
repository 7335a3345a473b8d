----------------------------- MODULE UserSpace -----------------------------
(***************************************************************************)
(* The address space of a telda user program, from the object file to the  *)
(* running program.                                                        *)
(*                                                                         *)
(*   load_user_binary (src/blf4/std_kernel/load_user_binary.rs) maps every *)
(*   segment of the object, then the heap and the stack, through           *)
(*   MmapBuilder::map, which takes pages from EKernel::allocate_page       *)
(*   (src/blf4/std_kernel.rs).                                             *)
(*                                                                         *)
(*   The running program then reaches memory only through                  *)
(*   HandlerContext::addr_resolve (src/blf4/mod.rs), the walk of the two   *)
(*   page-table levels, in user mode.                                      *)
(*                                                                         *)
(* The two levels of the table are kept apart from the bytes of the pages: *)
(* l1 is the table in frame 0 (page_table1), tab[f] is frame f read as a   *)
(* level-two table, mem[f] is frame f read as bytes.  NoAlias is what      *)
(* makes that separation sound.                                            *)
(***************************************************************************)
EXTENDS Integers, Sequences, FiniteSets

CONSTANTS
  PageSize,        \* bytes in a page (128)
  N1,              \* entries of the level-one table (16)
  N2,              \* entries of a level-two table (32)
  MaxFrame,        \* the last page frame the memory has
  Objects,         \* the object files that may be loaded
  OverflowChecks   \* TRUE: a debug build, where u16 arithmetic panics

Flag    == {"P", "R", "W", "X", "D", "U"}
SegType == {"zero", "data", "rodata", "text", "heap", "unknown"}
L1      == 0 .. N1 - 1
L2      == 0 .. N2 - 1
Page    == 0 .. N1 * N2 - 1              \* virtual page numbers
W       == PageSize * (N1 * N2)          \* size of the address space (2^16)
Addr    == 0 .. W - 1
Off     == 0 .. PageSize - 1
Frame   == 0 .. MaxFrame
Access  == {"Read", "Write", "Execute"}
Outcomes == {"ok", "Level1PageFault", "Level2PageFault", "IllegalOperation",
             "IllegalRead", "IllegalWrite", "IllegalExecute"}

Segment == [type : SegType, off : Addr, len : Addr]
Object  == [segs : Seq(Segment), rtext : BOOLEAN, heap : Addr, stack : Addr]

ASSUME SizesAssumption ==
  /\ PageSize \in Nat \ {0, 1}
  /\ N1 \in Nat \ {0}
  /\ N2 \in Nat \ {0}
  /\ MaxFrame \in Nat /\ MaxFrame >= N1 + N1 * N2   \* 2^17 frames, 2^8 of them below HALF_CELL
  /\ OverflowChecks \in BOOLEAN

ASSUME ObjectsAssumption == Objects \subseteq Object

\* A byte is named by where it came from: byte i of a segment of the object,
\* the zero of fresh memory, or a byte the user program stored.
Fresh    == <<"fresh", 0>>
UserByte == <<"user", 0>>
Byte     == (SegType \cup {"fresh", "user"}) \X Addr

Entry   == [flags : SUBSET Flag, ppn : Frame]
NoEntry == [flags |-> {}, ppn |-> 0]

\* The range of pages being mapped: the arguments of a call of add_segment or
\* map_wr_pages together with the position of its loop.
Item == [perm : SUBSET Flag, next : Nat, limit : Addr,
         tag : SegType, off : Addr, len : Addr]

VARIABLES
  obj,      \* the object being loaded and run
  stage,    \* where load_user_binary is; "run" once it has returned
  todo,     \* segments not yet loaded
  item,     \* the range being mapped
  bumper,   \* EKernel::page_bumper, as a frame number
  l1,       \* the level-one page table
  tab,      \* level-two page tables, by frame
  mem,      \* bytes of the pages, by frame
  last      \* the user program's last access and its outcome

vars == <<obj, stage, todo, item, bumper, l1, tab, mem, last>>

\* "overflow" is a panic in u16 arithmetic.
Stage == {"next", "seg", "heap", "stack", "run", "overflow"}

Idle == [acc |-> "Read", addr |-> 0, res |-> "none", val |-> Fresh]

TypeOK ==
  /\ obj \in Objects
  /\ stage \in Stage
  /\ todo \in Seq(Segment)
  /\ item \in Item
  /\ bumper \in 1 .. MaxFrame + 1
  /\ l1 \in [L1 -> Entry]
  /\ tab \in [Frame -> [L2 -> Entry]]
  /\ mem \in [Frame -> [Off -> Byte]]
  /\ last \in [acc : Access, addr : Addr, res : Outcomes \cup {"none"}, val : Byte]

----------------------------------------------------------------------------
(* Addresses and page numbers *)

PageOf(a)    == a \div PageSize
OffOf(a)     == a % PageSize
Vpn1(p)      == p \div N2
Vpn2(p)      == p % N2
AlignEnd(a)  == IF OffOf(a) = 0 THEN PageOf(a) ELSE (PageOf(a) + 1) % (N1 * N2)
Least(x, y)  == IF x < y THEN x ELSE y

----------------------------------------------------------------------------
(* What the loader asks for: one item per call of add_segment or
   map_wr_pages. *)

SegPerm(type, rtext) ==
  CASE type = "data"   -> {"W", "R"}
    [] type = "rodata" -> {"R"}
    [] type = "text"   -> IF rtext THEN {"X", "R"} ELSE {"X"}
    [] type = "heap"   -> {"R", "W"}
    [] OTHER           -> {"X", "W", "R"}

\* offset + bytes.len() wraps in a release build.
SegItem(s, o) ==
  [perm |-> SegPerm(s.type, o.rtext) \cup {"U", "P"},
   next |-> PageOf(s.off), limit |-> (s.off + s.len) % W,
   tag |-> s.type, off |-> s.off, len |-> s.len]

SegOverflows(s) == s.off + s.len >= W

\* Faulty variant of WrItem: the end of the range is not saturated.
WrItemUnsaturated(page, size) ==
  [perm |-> {"U", "D", "W", "R", "P"},
   next |-> page, limit |-> page * PageSize + size,
   tag |-> "zero", off |-> 0, len |-> 0]

\* map_wr_pages(virt, size): fresh pages, with the dirty flag from the start.
WrItem(page, size) ==
  [perm |-> {"U", "D", "W", "R", "P"},
   next |-> page, limit |-> Least(page * PageSize + size, W - 1),
   tag |-> "zero", off |-> 0, len |-> 0]

\* After a heap segment: heap_size - bytes.len() bytes from the first page
\* boundary at or after the offset of the segment.
HeapItem(off, len, o) == WrItem(AlignEnd(off), (o.heap - len) % W)

HeapOverflows(off, len, o) == off + PageSize >= W \/ o.heap < len

StackItem(o) ==
  WrItem(PageOf(W - 1 - (IF o.stack = 0 THEN 0 ELSE o.stack - 1)), o.stack)

NoItem == [perm |-> {}, next |-> 0, limit |-> 0,
           tag |-> "zero", off |-> 0, len |-> 0]

----------------------------------------------------------------------------
(* MmapBuilder::map, for page item.next with the flags item.perm *)

Present(e) == "P" \in e.flags

\* The frame of the level-two table for index i, new when there is none yet.
TableFor(i) == IF Present(l1[i]) THEN l1[i].ppn ELSE bumper

\* Faulty variant of AfterTable: a frame is taken even when the table exists.
AfterTableAlways(i) == bumper + 1

\* The first free frame once that table exists.
AfterTable(i) == IF Present(l1[i]) THEN bumper ELSE bumper + 1

LeafPresent(i, j) == TableFor(i) \in Frame /\ Present(tab[TableFor(i)][j])

\* The frame of the page, new when the page is not mapped yet.
PageFor(i, j) ==
  IF LeafPresent(i, j) THEN tab[TableFor(i)][j].ppn ELSE AfterTable(i)

\* Faulty variant of AfterPage: the frame of the page is not taken.
AfterPageForgotten(i, j) == AfterTable(i)

\* page_bumper after the call.
AfterPage(i, j) ==
  IF LeafPresent(i, j) THEN AfterTable(i) ELSE AfterTable(i) + 1

\* Faulty variant of AddFlags: the flags replace those of an earlier mapping.
AddFlagsReplacing(e, frame) == [flags |-> item.perm, ppn |-> frame]

AddFlags(e, frame) == [flags |-> e.flags \cup item.perm, ppn |-> frame]

\* Faulty variant of CopyPage: every page starts over with the first byte.
CopyPageRestarting(page, old) ==
  LET at == IF page * PageSize < item.off THEN item.off - page * PageSize ELSE 0
      to == Least(PageSize - at, item.len)
  IN [x \in Off |-> IF x >= at /\ x - at < to THEN <<item.tag, x - at>> ELSE old[x]]

\* The bytes of the page that the segment covers, copied over the page.
CopyPage(page, old) ==
  LET vaddr == page * PageSize
      at    == IF vaddr < item.off THEN item.off - vaddr ELSE 0
      from  == IF vaddr < item.off THEN 0 ELSE vaddr - item.off
      to    == IF vaddr < item.off THEN Least(PageSize - at, item.len)
                                   ELSE Least(from + PageSize, item.len)
  IN [x \in Off |-> IF x >= at /\ from + (x - at) < to
                    THEN <<item.tag, from + (x - at)>>
                    ELSE old[x]]

\* The next page of the range (step_by).
Advance(it) == [it EXCEPT !.next = @ + 1]

Looping == /\ stage \in {"seg", "heap", "stack"}
           /\ item.next * PageSize < item.limit

MapPage ==
  LET i == Vpn1(item.next)
      j == Vpn2(item.next)
      t == TableFor(i)
      f == PageFor(i, j)
  IN /\ Looping
     /\ AfterPage(i, j) <= MaxFrame + 1     \* bound; see MemorySuffices
     /\ l1' = [l1 EXCEPT ![i] = AddFlags(@, t)]
     /\ tab' = [tab EXCEPT ![t] = [@ EXCEPT ![j] = AddFlags(tab[t][j], f)]]
     /\ bumper' = AfterPage(i, j)
     /\ mem' = [mem EXCEPT ![f] = CopyPage(item.next, @)]
     /\ item' = Advance(item)
     /\ UNCHANGED <<obj, stage, todo, last>>

----------------------------------------------------------------------------
(* load_user_binary *)

\* The level-one table is the first page allocated: frame 0.
Init ==
  /\ obj \in Objects
  /\ stage = "next"
  /\ todo = obj.segs
  /\ item = NoItem
  /\ bumper = 1
  /\ l1 = [i \in L1 |-> NoEntry]
  /\ tab = [f \in Frame |-> [j \in L2 |-> NoEntry]]
  /\ mem = [f \in Frame |-> [x \in Off |-> Fresh]]
  /\ last = Idle

LoadSegment ==
  /\ stage = "next" /\ todo # <<>>
  /\ todo' = Tail(todo)
  /\ item' = SegItem(Head(todo), obj)
  /\ stage' = IF OverflowChecks /\ SegOverflows(Head(todo)) THEN "overflow" ELSE "seg"
  /\ UNCHANGED <<obj, bumper, l1, tab, mem, last>>

\* The range of the segment is done; a heap segment has its pages to follow.
EndSegment ==
  /\ stage = "seg" /\ ~Looping
  /\ \/ /\ item.tag # "heap"
        /\ stage' = "next"
        /\ item' = NoItem
     \/ /\ item.tag = "heap"
        /\ item' = HeapItem(item.off, item.len, obj)
        /\ stage' = IF OverflowChecks /\ HeapOverflows(item.off, item.len, obj)
                    THEN "overflow" ELSE "heap"
  /\ UNCHANGED <<obj, todo, bumper, l1, tab, mem, last>>

EndHeap ==
  /\ stage = "heap" /\ ~Looping
  /\ stage' = "next"
  /\ item' = NoItem
  /\ UNCHANGED <<obj, todo, bumper, l1, tab, mem, last>>

LoadStack ==
  /\ stage = "next" /\ todo = <<>>
  /\ stage' = "stack"
  /\ item' = StackItem(obj)
  /\ UNCHANGED <<obj, todo, bumper, l1, tab, mem, last>>

\* The stack is mapped: virtual and user mode go on and the program starts.
StartUser ==
  /\ stage = "stack" /\ ~Looping
  /\ stage' = "run"
  /\ item' = NoItem
  /\ UNCHANGED <<obj, todo, bumper, l1, tab, mem, last>>

Load == LoadSegment \/ MapPage \/ EndSegment \/ EndHeap
        \/ LoadStack \/ StartUser

----------------------------------------------------------------------------
(* The user program: HandlerContext::read, fetch and write in user mode, one
   byte at a time. *)

Need(acc) == CASE acc = "Read" -> "R" [] acc = "Write" -> "W" [] acc = "Execute" -> "X"

Illegal(acc) == CASE acc = "Read"    -> "IllegalRead"
                  [] acc = "Write"   -> "IllegalWrite"
                  [] acc = "Execute" -> "IllegalExecute"

\* read_entry in user mode: the trap of the entry, or "ok".
CheckEntry(e, acc) ==
  CASE ~Present(e)          -> "Level2PageFault"
    [] Present(e) /\ "U" \notin e.flags -> "IllegalOperation"
    [] Present(e) /\ "U" \in e.flags /\ Need(acc) \notin e.flags -> Illegal(acc)
    [] OTHER                -> "ok"

Leaf(p) == tab[l1[Vpn1(p)].ppn][Vpn2(p)]

\* Faulty variant of Walk: the level-two entry is only checked for presence.
WalkLevelOne(p, acc) ==
  LET top == CheckEntry(l1[Vpn1(p)], acc)
  IN CASE top = "Level2PageFault" -> "Level1PageFault"
       [] top = "ok"              -> IF Present(Leaf(p)) THEN "ok" ELSE "Level2PageFault"
       [] OTHER                   -> top

\* addr_resolve: the trap of an access to page p, or "ok".
Walk(p, acc) ==
  LET top == CheckEntry(l1[Vpn1(p)], acc)
  IN CASE top = "Level2PageFault" -> "Level1PageFault"
       [] top = "ok"              -> CheckEntry(Leaf(p), acc)
       [] OTHER                   -> top

ByteAt(a) == mem[Leaf(PageOf(a)).ppn][OffOf(a)]

Clean(e) == "D" \notin e.flags
Dirty(e) == [e EXCEPT !.flags = @ \cup {"D"}]

\* The entries a write to page p dirties: the addresses of both entries are
\* zipped with the flag bytes of those that were clean.
DirtyL1(p) ==
  LET top == l1[Vpn1(p)]
  IN CASE Clean(top)                     -> Dirty(top)
       [] ~Clean(top) /\ Clean(Leaf(p))  -> [Dirty(Leaf(p)) EXCEPT !.ppn = top.ppn]
       [] OTHER                          -> top

DirtyLeaf(p) ==
  IF Clean(l1[Vpn1(p)]) /\ Clean(Leaf(p)) THEN Dirty(Leaf(p)) ELSE Leaf(p)

\* An access that traps changes nothing.
Trap(a, acc) ==
  /\ stage = "run"
  /\ Walk(PageOf(a), acc) # "ok"
  /\ last' = [acc |-> acc, addr |-> a, res |-> Walk(PageOf(a), acc), val |-> Fresh]
  /\ UNCHANGED <<obj, stage, todo, item, bumper, l1, tab, mem>>

\* A read or the fetch of an instruction byte.
Read(a, acc) ==
  /\ stage = "run"
  /\ acc # "Write"
  /\ Walk(PageOf(a), acc) = "ok"
  /\ last' = [acc |-> acc, addr |-> a, res |-> "ok", val |-> ByteAt(a)]
  /\ UNCHANGED <<obj, stage, todo, item, bumper, l1, tab, mem>>

Write(a) ==
  LET p == PageOf(a)
  IN /\ stage = "run"
     /\ Walk(p, "Write") = "ok"
     /\ l1' = [l1 EXCEPT ![Vpn1(p)] = DirtyL1(p)]
     /\ tab' = [tab EXCEPT ![l1[Vpn1(p)].ppn] = [@ EXCEPT ![Vpn2(p)] = DirtyLeaf(p)]]
     /\ mem' = [mem EXCEPT ![Leaf(p).ppn] = [@ EXCEPT ![OffOf(a)] = UserByte]]
     /\ last' = [acc |-> "Write", addr |-> a, res |-> "ok", val |-> UserByte]
     /\ UNCHANGED <<obj, stage, todo, item, bumper>>

User == \E a \in Addr : Write(a) \/ \E acc \in Access : Read(a, acc) \/ Trap(a, acc)

Next == Load \/ User

\* load_user_binary is a sequential function: it runs until it returns.  The
\* user program owes nothing.
Spec == Init /\ [][Next]_vars /\ WF_vars(Load)

----------------------------------------------------------------------------
(* What the object file asks for *)

SegEnd(s) == s.off + s.len

\* An object whose segments do not overlap and end inside the address space,
\* and whose heap holds the bytes of its heap segment.
WellFormed(o) ==
  \A k \in DOMAIN o.segs :
    LET s == o.segs[k]
    IN /\ SegEnd(s) < W
       /\ s.type = "heap" => s.off + PageSize < W /\ s.len <= o.heap
       /\ \A m \in DOMAIN o.segs \ {k} :
            SegEnd(s) <= o.segs[m].off \/ SegEnd(o.segs[m]) <= s.off

SegsAt(o, a) == {k \in DOMAIN o.segs : a \in o.segs[k].off .. SegEnd(o.segs[k]) - 1}

\* Byte a of a freshly loaded program.
FirstByte(o, a) ==
  IF SegsAt(o, a) = {} THEN Fresh
  ELSE LET s == o.segs[CHOOSE k \in SegsAt(o, a) : TRUE] IN <<s.type, a - s.off>>

PagesOf(from, to) == {p \in Page : p >= PageOf(from) /\ p * PageSize < to}

\* The permissions of page p: those of every segment that reaches into it, and
\* R and W for the heap that follows the heap segment and for the stack.
Asked(o, p) ==
  LET segs  == {o.segs[k] : k \in DOMAIN o.segs}
      heaps == {s \in segs : s.type = "heap" /\
                  p \in PagesOf(AlignEnd(s.off) * PageSize,
                                AlignEnd(s.off) * PageSize + o.heap - s.len)}
  IN (UNION {SegPerm(s.type, o.rtext) :
               s \in {t \in segs : p \in PagesOf(t.off, SegEnd(t))}})
     \cup (IF heaps # {} \/ (o.stack > 0 /\ p \in PagesOf(W - o.stack, W))
           THEN {"R", "W"} ELSE {})

Loaded == stage = "run" /\ WellFormed(obj)

PageMapped(p) == Present(l1[Vpn1(p)]) /\ Present(Leaf(p))

----------------------------------------------------------------------------
(* Properties *)

\* No frame has two roles: the level-one table (frame 0), the level-two tables
\* and the mapped pages are pairwise different frames below page_bumper, and
\* the frames above it hold no entry.  Otherwise a store of the program could
\* rewrite a page table, or show up at a second address.
Tables == {i \in L1 : Present(l1[i])}
Leaves == {q \in L1 \X L2 : q[1] \in Tables /\ Present(tab[l1[q[1]].ppn][q[2]])}
LeafFrame(q) == tab[l1[q[1]].ppn][q[2]].ppn

NoAlias ==
  /\ \A i \in Tables : l1[i].ppn \in 1 .. bumper - 1
  /\ \A q \in Leaves : LeafFrame(q) \in 1 .. bumper - 1
  /\ \A i, k \in Tables : l1[i].ppn = l1[k].ppn => i = k
  /\ \A q, r \in Leaves : LeafFrame(q) = LeafFrame(r) => q = r
  /\ \A i \in Tables, q \in Leaves : l1[i].ppn # LeafFrame(q)
  /\ \A f \in bumper .. MaxFrame, j \in L2 : tab[f][j] = NoEntry

\* The loader never asks for a frame the memory has not got: what it maps,
\* whatever the object, needs one table per level-one entry and one frame per
\* page of the address space at most.
MemorySuffices ==
  Looping => AfterPage(Vpn1(item.next), Vpn2(item.next)) <= MaxFrame + 1

\* When the program starts, the walk grants each page exactly the permissions
\* the object asks for, both levels together neither lose nor add one, and
\* finds at each address of a mapped page the byte of the segment it is in.
Granted(p) == IF PageMapped(p) THEN l1[Vpn1(p)].flags \cap Leaf(p).flags \cap {"R", "W", "X"}
                               ELSE {}
StartsAsAsked ==
  [][stage # "run" /\ Loaded' =>
       /\ \A p \in Page : Granted(p)' = Asked(obj, p)
       /\ \A a \in Addr : PageMapped(PageOf(a))' => ByteAt(a)' = FirstByte(obj, a)]_vars

\* A step of the running program changes at most the one byte it stores to,
\* and only when the page of that byte is mapped writable; in particular no
\* page is ever mapped elsewhere or unmapped.
StoresAreLocal ==
  [][stage = "run" =>
       \A a \in Addr : PageMapped(PageOf(a)) =>
         /\ PageMapped(PageOf(a))'
         /\ \/ ByteAt(a)' = ByteAt(a)
            \/ /\ last'.acc = "Write" /\ last'.addr = a
               /\ "W" \in Leaf(PageOf(a)).flags]_vars

----------------------------------------------------------------------------
(* What the documentation says of the flags, and the code does not do *)

\* README.md:43-50: a flag of a level-one entry means that a child page has
\* it, so that its absence tells that no child page has it.
LevelOneSummarises ==
  Loaded => \A p \in Page : PageMapped(p) =>
              Leaf(p).flags \cap {"R", "W", "X"} \subseteq l1[Vpn1(p)].flags

----------------------------------------------------------------------------
(* The promise of FlatMemory, read off the object; the flat bytes, read off
   the page tables. *)

AllowedAt(o, a) == {acc \in Access : Need(acc) \in Asked(o, PageOf(a))}

Visible == [a \in Addr |-> IF stage # "run" \/ ~PageMapped(PageOf(a)) THEN Fresh ELSE ByteAt(a)]

Flat == INSTANCE FlatMemory WITH
  Accesses <- Access, None <- Fresh, Stored <- UserByte, Allowed <- AllowedAt,
  Fits <- WellFormed, program <- obj, bytes <- Visible, out <- last,
  state <- CASE stage = "run" -> "running" [] stage = "overflow" -> "refused"
             [] OTHER -> "loading"

\* A well-formed object is loaded in the end, and a loaded program sees a flat
\* memory.
IsFlatMemory == Flat!Spec

============================================================================
