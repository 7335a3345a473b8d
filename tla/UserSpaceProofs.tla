-------------------------- MODULE UserSpaceProofs --------------------------
(***************************************************************************)
(* Proofs about UserSpace, for every page size, table size and object.     *)
(*                                                                         *)
(*   1. arithmetic of addresses, pages and page-table indices              *)
(*   2. TypeOK is an invariant                                             *)
(*   3. NoAlias is an invariant: no frame ever has two roles               *)
(*   4. StoresAreLocal: a step of the program changes one byte at most     *)
(*   5. MemorySuffices, from the count of the frames taken                 *)
(*                                                                         *)
(* and about what it loads, for every well-formed object: the program      *)
(* starts with the permissions and the bytes the object asks for, and what *)
(* it then sees is a flat memory.                                          *)
(*                                                                         *)
(*   6. ranges of pages                                                    *)
(*   7. where the loader is                                                *)
(*   8. the permissions given so far                                       *)
(*   9. the bytes copied so far                                            *)
(*  10. StartsAsAsked                                                      *)
(*  11. every step is one of FlatMemory                                    *)
(***************************************************************************)
EXTENDS UserSpace, FiniteSetTheorems, TLAPS

----------------------------------------------------------------------------
(* 1. Addresses, pages and indices *)

\* The sizes are positive, and so is the address space.
LEMMA Sizes ==
  /\ PageSize \in Nat \ {0} /\ N1 \in Nat \ {0} /\ N2 \in Nat \ {0}
  /\ N1 * N2 \in Nat \ {0} /\ W \in Nat \ {0} /\ MaxFrame \in Nat
<1>1. ASSUME NEW x \in Nat \ {0}, NEW y \in Nat \ {0} PROVE x * y \in Nat \ {0}
  BY SMTT(20)
<1>2. N1 * N2 \in Nat \ {0}
  BY <1>1, SizesAssumption
<1>3. W \in Nat \ {0}
  BY <1>1, <1>2, SizesAssumption DEF W
<1> QED
  BY <1>2, <1>3, SizesAssumption

\* Division with remainder, and the bound it gives on the quotient.
LEMMA DivMod ==
  ASSUME NEW x \in Nat, NEW m \in Nat \ {0}
  PROVE  /\ x \div m \in Nat /\ x % m \in 0 .. m - 1
         /\ x = m * (x \div m) + (x % m)
BY SMTT(20)

LEMMA QuotientBound ==
  ASSUME NEW m \in Nat \ {0}, NEW n \in Nat \ {0}, NEW x \in 0 .. n * m - 1
  PROVE  x \div m \in 0 .. n - 1
<1>0. n * m \in Nat
  BY SMTT(20)
<1>1. x \in Nat /\ x \div m \in Nat /\ x % m \in Nat /\ x = m * (x \div m) + (x % m)
  BY <1>0, DivMod
<1>2. ASSUME x \div m >= n PROVE FALSE
  <2>1. PICK q \in Nat : q = x \div m
    BY <1>1
  <2>2. PICK d \in Nat : q = n + d
    BY <2>1, <1>2
  <2>3. m * q = n * m + m * d /\ m * d \in Nat
    BY <2>2, SMTT(20)
  <2> QED
    BY <2>1, <2>3, <1>0, <1>1
<1> QED
  BY <1>1, <1>2

\* An address lies in one page, at one offset.
LEMMA PageOfType ==
  ASSUME NEW a \in Addr
  PROVE  PageOf(a) \in Page /\ OffOf(a) \in Off
<1>1. PageSize * (N1 * N2) = (N1 * N2) * PageSize
  BY Sizes
<1>2. a \in 0 .. (N1 * N2) * PageSize - 1
  BY <1>1 DEF Addr, W
<1>3. a \div PageSize \in 0 .. (N1 * N2) - 1
  BY <1>2, Sizes, QuotientBound
<1>4. a \in Nat
  BY Sizes DEF Addr
<1> QED
  BY <1>3, <1>4, Sizes, DivMod DEF PageOf, OffOf, Page, Off

LEMMA AddrUnique ==
  ASSUME NEW a \in Addr, NEW b \in Addr, PageOf(a) = PageOf(b), OffOf(a) = OffOf(b)
  PROVE  a = b
<1>1. a \in Nat /\ b \in Nat
  BY Sizes DEF Addr
<1> QED
  BY <1>1, Sizes, DivMod DEF PageOf, OffOf

\* A page has one entry in the level-one table and one in a level-two table.
LEMMA VpnType ==
  ASSUME NEW p \in Page
  PROVE  Vpn1(p) \in L1 /\ Vpn2(p) \in L2
<1>1. p \in Nat
  BY Sizes DEF Page
<1>2. p \div N2 \in 0 .. N1 - 1
  BY Sizes, QuotientBound DEF Page
<1> QED
  BY <1>1, <1>2, Sizes, DivMod DEF Vpn1, Vpn2, L1, L2

LEMMA PageUnique ==
  ASSUME NEW p \in Page, NEW q \in Page, Vpn1(p) = Vpn1(q), Vpn2(p) = Vpn2(q)
  PROVE  p = q
<1>1. p \in Nat /\ q \in Nat
  BY Sizes DEF Page
<1> QED
  BY <1>1, Sizes, DivMod DEF Vpn1, Vpn2

\* The loops of the loader stay inside the address space.
LEMMA LoopPage ==
  ASSUME item \in Item, item.next * PageSize < item.limit
  PROVE  item.next \in Page
<1>1. item.next \in Nat /\ item.limit \in Nat /\ item.limit < W
  BY Sizes DEF Item, Addr
<1>2. ASSUME item.next >= N1 * N2 PROVE FALSE
  <2>1. ASSUME NEW n \in Nat, NEW x \in Nat, x >= n
        PROVE  x * PageSize >= PageSize * n
    BY <2>1, Sizes, SMTT(20)
  <2>3. item.next * PageSize >= W
    BY <2>1, <1>1, <1>2, Sizes DEF W
  <2>4. item.next * PageSize \in Int
    BY <1>1, Sizes
  <2> QED
    BY <2>3, <2>4, <1>1, Sizes
<1> QED
  BY <1>1, <1>2, Sizes DEF Page

----------------------------------------------------------------------------
(* 2. Type correctness *)

LEMMA FlagTypes ==
  ASSUME NEW type \in SegType, NEW rtext \in BOOLEAN
  PROVE  SegPerm(type, rtext) \in SUBSET Flag
BY DEF SegPerm, Flag, SegType

LEMMA SegItemType ==
  ASSUME NEW s \in Segment, NEW o \in Object
  PROVE  SegItem(s, o) \in Item
<1>1. s.type \in SegType /\ s.off \in Addr /\ s.len \in Addr /\ o.rtext \in BOOLEAN
  BY DEF Segment, Object
<1>2. SegPerm(s.type, o.rtext) \cup {"U", "P"} \in SUBSET Flag
  BY <1>1, FlagTypes DEF Flag
<1>3. s.off \in Nat /\ s.len \in Nat
  BY <1>1, Sizes DEF Addr
<1>4. PageOf(s.off) \in Nat
  BY <1>3, Sizes, DivMod DEF PageOf
<1>5. (s.off + s.len) % W \in Addr
  <2>1. s.off + s.len \in Nat
    BY <1>3
  <2> QED
    BY <2>1, Sizes, DivMod DEF Addr
<1> QED
  BY <1>1, <1>2, <1>4, <1>5 DEF SegItem, Item

LEMMA WrItemType ==
  ASSUME NEW page \in Nat, NEW size \in Nat
  PROVE  WrItem(page, size) \in Item
<1>1. page * PageSize + size \in Nat
  BY Sizes
<1>2. Least(page * PageSize + size, W - 1) \in Addr
  BY <1>1, Sizes DEF Least, Addr
<1>3. 0 \in Addr
  BY Sizes DEF Addr
<1> QED
  BY <1>2, <1>3 DEF WrItem, Item, Flag, SegType

LEMMA HeapItemType ==
  ASSUME NEW off \in Addr, NEW len \in Addr, NEW o \in Object
  PROVE  HeapItem(off, len, o) \in Item
<1>1. off \in Nat /\ len \in Int /\ o.heap \in Int
  BY Sizes DEF Addr, Object
<1>2. (o.heap - len) % W \in Nat
  BY <1>1, Sizes
<1>3. AlignEnd(off) \in Nat
  <2>1. PageOf(off) \in Nat
    BY <1>1, Sizes, DivMod DEF PageOf
  <2>2. (PageOf(off) + 1) % (N1 * N2) \in Nat
    BY <2>1, Sizes, DivMod
  <2> QED
    BY <2>1, <2>2 DEF AlignEnd
<1> QED
  BY <1>2, <1>3, WrItemType DEF HeapItem

LEMMA StackItemType ==
  ASSUME NEW o \in Object
  PROVE  StackItem(o) \in Item
<1>1. o.stack \in Nat /\ o.stack < W
  BY Sizes DEF Addr, Object
<1>2. W - 1 - (IF o.stack = 0 THEN 0 ELSE o.stack - 1) \in Nat
  BY <1>1, Sizes
<1>3. PageOf(W - 1 - (IF o.stack = 0 THEN 0 ELSE o.stack - 1)) \in Nat
  BY <1>2, Sizes, DivMod DEF PageOf
<1> QED
  BY <1>1, <1>3, WrItemType DEF StackItem

LEMMA NoItemType == NoItem \in Item
<1>1. 0 \in Addr
  BY Sizes DEF Addr
<1> QED
  BY <1>1 DEF NoItem, Item, SegType

\* The bytes copied into a page are bytes of the segment.
LEMMA CopyPageType ==
  ASSUME item \in Item, NEW page \in Page, NEW old \in [Off -> Byte]
  PROVE  CopyPage(page, old) \in [Off -> Byte]
<1> DEFINE vaddr == page * PageSize
           at    == IF vaddr < item.off THEN item.off - vaddr ELSE 0
           from  == IF vaddr < item.off THEN 0 ELSE vaddr - item.off
           to    == IF vaddr < item.off THEN Least(PageSize - at, item.len)
                                        ELSE Least(from + PageSize, item.len)
<1>1. vaddr \in Nat
  BY Sizes DEF Page
<1>2. item.off \in Nat /\ item.len \in Nat /\ item.len < W /\ item.tag \in SegType
  BY Sizes DEF Item, Addr
<1>3. at \in Nat /\ from \in Nat /\ to \in Int /\ to <= item.len
  BY <1>1, <1>2, Sizes DEF Least
<1>4. ASSUME NEW x \in Off, x >= at, from + (x - at) < to
      PROVE  <<item.tag, from + (x - at)>> \in Byte
  <2>1. x \in Nat
    BY Sizes DEF Off
  <2>2. from + (x - at) \in Addr
    BY <2>1, <1>2, <1>3, <1>4, Sizes DEF Addr
  <2> QED
    BY <2>2, <1>2 DEF Byte
<1> HIDE DEF at, from, to
<1>5. [x \in Off |-> IF x >= at /\ from + (x - at) < to
                     THEN <<item.tag, from + (x - at)>> ELSE old[x]] \in [Off -> Byte]
  BY <1>4
<1> QED
  BY <1>5 DEF CopyPage, at, from, to

\* What MmapBuilder::map is about to do stays inside the memory.
LEMMA MapFrames ==
  ASSUME TypeOK, NEW i \in L1, NEW j \in L2, AfterPage(i, j) <= MaxFrame + 1
  PROVE  /\ TableFor(i) \in Frame /\ PageFor(i, j) \in Frame
         /\ AfterPage(i, j) \in bumper .. MaxFrame + 1
<1>1. /\ bumper \in Nat /\ bumper >= 1 /\ MaxFrame \in Nat
      /\ l1[i].ppn \in Frame
  BY Sizes DEF TypeOK, Entry
<1>2. AfterTable(i) \in {bumper, bumper + 1}
  BY DEF AfterTable
<1>3. AfterPage(i, j) \in {AfterTable(i), AfterTable(i) + 1}
  BY DEF AfterPage
<1>4. AfterPage(i, j) \in bumper .. MaxFrame + 1
  BY <1>1, <1>2, <1>3
<1>5. TableFor(i) \in Frame
  <2>1. CASE Present(l1[i])
    BY <2>1, <1>1 DEF TableFor
  <2>2. CASE ~Present(l1[i])
    <3>1. AfterTable(i) = bumper + 1 /\ TableFor(i) = bumper
      BY <2>2 DEF AfterTable, TableFor
    <3> QED
      BY <3>1, <1>1, <1>3 DEF Frame
  <2> QED
    BY <2>1, <2>2
<1>6. PageFor(i, j) \in Frame
  <2>1. CASE LeafPresent(i, j)
    BY <2>1, <1>5 DEF PageFor, TypeOK, Entry
  <2>2. CASE ~LeafPresent(i, j)
    <3>1. PageFor(i, j) = AfterTable(i) /\ AfterPage(i, j) = AfterTable(i) + 1
      BY <2>2 DEF PageFor, AfterPage
    <3> QED
      BY <3>1, <1>1, <1>2 DEF Frame
  <2> QED
    BY <2>1, <2>2
<1> QED
  BY <1>4, <1>5, <1>6

LEMMA MapPageType == TypeOK /\ MapPage => TypeOK'
<1> SUFFICES ASSUME TypeOK, MapPage PROVE TypeOK'
  OBVIOUS
<1> DEFINE p == item.next
           i == Vpn1(p)
           j == Vpn2(p)
           t == TableFor(i)
           f == PageFor(i, j)
<1>1. item \in Item /\ item.perm \in SUBSET Flag /\ item.next \in Nat
  BY DEF TypeOK, Item
<1>2. p \in Page /\ i \in L1 /\ j \in L2
  BY <1>1, LoopPage, VpnType DEF MapPage, Looping
<1>3. AfterPage(i, j) <= MaxFrame + 1
  BY DEF MapPage
<1> HIDE DEF p, i, j
<1>4. t \in Frame /\ f \in Frame /\ AfterPage(i, j) \in bumper .. MaxFrame + 1
  BY <1>2, <1>3, MapFrames
<1> HIDE DEF t, f
<1>5. /\ l1' = [l1 EXCEPT ![i] = AddFlags(@, t)]
      /\ tab' = [tab EXCEPT ![t] = [@ EXCEPT ![j] = AddFlags(tab[t][j], f)]]
      /\ bumper' = AfterPage(i, j)
      /\ mem' = [mem EXCEPT ![f] = CopyPage(p, @)]
      /\ item' = Advance(item)
      /\ UNCHANGED <<obj, stage, todo, last>>
  BY DEF MapPage, p, i, j, t, f
<1>6. \A e \in Entry, g \in Frame : AddFlags(e, g) \in Entry
  BY <1>1 DEF AddFlags, Entry
<1>7. l1' \in [L1 -> Entry]
  BY <1>2, <1>4, <1>5, <1>6 DEF TypeOK
<1>8. tab' \in [Frame -> [L2 -> Entry]]
  <2> DEFINE row == [tab[t] EXCEPT ![j] = AddFlags(tab[t][j], f)]
  <2>1. row \in [L2 -> Entry]
    BY <1>2, <1>4, <1>6 DEF TypeOK
  <2>2. tab' = [tab EXCEPT ![t] = row]
    BY <1>5
  <2> HIDE DEF row
  <2> QED
    BY <2>1, <2>2, <1>4 DEF TypeOK
<1>9. mem' \in [Frame -> [Off -> Byte]]
  <2>1. CopyPage(p, mem[f]) \in [Off -> Byte]
    BY <1>1, <1>2, <1>4, CopyPageType DEF TypeOK
  <2> QED
    BY <2>1, <1>4, <1>5 DEF TypeOK
<1>10. item' \in Item
  BY <1>1, <1>5 DEF Advance, Item
<1>11. bumper' \in 1 .. MaxFrame + 1
  BY <1>4, <1>5, Sizes DEF TypeOK
<1> QED
  BY <1>5, <1>7, <1>8, <1>9, <1>10, <1>11 DEF TypeOK

\* The entries and the byte a write touches stay entries and bytes.
LEMMA UserByteType == UserByte \in Byte /\ Fresh \in Byte
<1>1. 0 \in Addr
  BY Sizes DEF Addr
<1> QED
  BY <1>1 DEF UserByte, Fresh, Byte

LEMMA DirtyType ==
  ASSUME TypeOK, NEW p \in Page
  PROVE  /\ DirtyL1(p) \in Entry /\ DirtyLeaf(p) \in Entry /\ Leaf(p) \in Entry
         /\ l1[Vpn1(p)].ppn \in Frame /\ Leaf(p).ppn \in Frame
         /\ DirtyL1(p).ppn = l1[Vpn1(p)].ppn /\ DirtyLeaf(p).ppn = Leaf(p).ppn
<1>1. Vpn1(p) \in L1 /\ Vpn2(p) \in L2
  BY VpnType
<1>2. l1[Vpn1(p)] \in Entry /\ l1[Vpn1(p)].ppn \in Frame
  BY <1>1 DEF TypeOK, Entry
<1>3. Leaf(p) \in Entry
  BY <1>1, <1>2 DEF TypeOK, Leaf
<1>4. \A e \in Entry : Dirty(e) \in Entry /\ Dirty(e).ppn = e.ppn
  BY DEF Dirty, Entry, Flag
<1>5. DirtyLeaf(p) \in Entry /\ DirtyLeaf(p).ppn = Leaf(p).ppn
  BY <1>3, <1>4 DEF DirtyLeaf
<1>6. [Dirty(Leaf(p)) EXCEPT !.ppn = l1[Vpn1(p)].ppn] \in Entry
  BY <1>2, <1>3, <1>4 DEF Entry
<1>7. [Dirty(Leaf(p)) EXCEPT !.ppn = l1[Vpn1(p)].ppn].ppn = l1[Vpn1(p)].ppn
  BY <1>3, <1>4 DEF Entry
<1>8. DirtyL1(p) \in Entry /\ DirtyL1(p).ppn = l1[Vpn1(p)].ppn
  BY <1>2, <1>4, <1>6, <1>7 DEF DirtyL1
<1> QED
  BY <1>2, <1>3, <1>5, <1>8 DEF Entry

LEMMA WriteType == ASSUME TypeOK, NEW a \in Addr, Write(a) PROVE TypeOK'
<1> DEFINE p == PageOf(a)
<1>1. p \in Page /\ OffOf(a) \in Off /\ Vpn1(p) \in L1 /\ Vpn2(p) \in L2
  BY PageOfType, VpnType
<1> HIDE DEF p
<1>2. /\ l1' = [l1 EXCEPT ![Vpn1(p)] = DirtyL1(p)]
      /\ tab' = [tab EXCEPT ![l1[Vpn1(p)].ppn] = [@ EXCEPT ![Vpn2(p)] = DirtyLeaf(p)]]
      /\ mem' = [mem EXCEPT ![Leaf(p).ppn] = [@ EXCEPT ![OffOf(a)] = UserByte]]
      /\ last' = [acc |-> "Write", addr |-> a, res |-> "ok", val |-> UserByte]
      /\ UNCHANGED <<obj, stage, todo, item, bumper>>
  BY DEF Write, p
<1>3. /\ DirtyL1(p) \in Entry /\ DirtyLeaf(p) \in Entry
      /\ l1[Vpn1(p)].ppn \in Frame /\ Leaf(p).ppn \in Frame
  BY <1>1, DirtyType
<1>4. l1' \in [L1 -> Entry]
  BY <1>1, <1>2, <1>3 DEF TypeOK
<1>5. tab' \in [Frame -> [L2 -> Entry]]
  BY <1>1, <1>2, <1>3 DEF TypeOK
<1>6. mem' \in [Frame -> [Off -> Byte]]
  BY <1>1, <1>2, <1>3, UserByteType DEF TypeOK
<1>7. last' \in [acc : Access, addr : Addr, res : Outcomes \cup {"none"}, val : Byte]
  BY <1>2, UserByteType DEF Access, Outcomes
<1> QED
  BY <1>2, <1>4, <1>5, <1>6, <1>7 DEF TypeOK

LEMMA ReadType ==
  ASSUME TypeOK, NEW a \in Addr, NEW acc \in Access, Read(a, acc)
  PROVE  TypeOK'
<1>1. PageOf(a) \in Page /\ OffOf(a) \in Off
  BY PageOfType
<1>2. Leaf(PageOf(a)).ppn \in Frame
  BY <1>1, DirtyType
<1>3. ByteAt(a) \in Byte
  BY <1>1, <1>2 DEF ByteAt, TypeOK
<1>4. last' \in [acc : Access, addr : Addr, res : Outcomes \cup {"none"}, val : Byte]
  BY <1>3 DEF Read, Outcomes
<1> QED
  BY <1>4 DEF Read, TypeOK

\* The outcome of a walk is "ok" only if both entries grant the access.
LEMMA WalkOutcome ==
  ASSUME NEW p \in Page, NEW acc \in Access
  PROVE  /\ Walk(p, acc) \in Outcomes
         /\ Walk(p, acc) = "ok" =>
              /\ Present(l1[Vpn1(p)]) /\ Present(Leaf(p))
              /\ Need(acc) \in Leaf(p).flags
<1>1. ASSUME NEW e
      PROVE  /\ CheckEntry(e, acc) \in Outcomes
             /\ CheckEntry(e, acc) = "ok" => Present(e) /\ Need(acc) \in e.flags
  <2>1. CASE ~Present(e)
    BY <2>1, Zenon DEF CheckEntry, Outcomes
  <2>2. CASE Present(e) /\ "U" \notin e.flags
    BY <2>2, Zenon DEF CheckEntry, Outcomes
  <2>3. CASE Present(e) /\ "U" \in e.flags /\ Need(acc) \notin e.flags
    <3>1. CheckEntry(e, acc) = Illegal(acc)
      BY <2>3, Zenon DEF CheckEntry
    <3>2. Illegal(acc) \in {"IllegalRead", "IllegalWrite", "IllegalExecute"}
      BY Zenon DEF Illegal, Access
    <3> QED
      BY <3>1, <3>2, Zenon DEF Outcomes
  <2>4. CASE Present(e) /\ "U" \in e.flags /\ Need(acc) \in e.flags
    <3>1. CheckEntry(e, acc) = "ok"
      BY <2>4, Zenon DEF CheckEntry
    <3> QED
      BY <3>1, <2>4, Zenon DEF Outcomes
  <2> QED
    BY <2>1, <2>2, <2>3, <2>4, Zenon
<1> DEFINE top == CheckEntry(l1[Vpn1(p)], acc)
           low == CheckEntry(Leaf(p), acc)
<1>2. top \in Outcomes /\ low \in Outcomes
  BY <1>1
<1>3. CASE top = "Level2PageFault"
  BY <1>3, Zenon DEF Walk, Outcomes
<1>4. CASE top = "ok"
  <2>1. Walk(p, acc) = low
    BY <1>4, Zenon DEF Walk
  <2> QED
    BY <2>1, <1>1, <1>4, Zenon
<1>5. CASE top # "ok" /\ top # "Level2PageFault"
  <2>1. Walk(p, acc) = top
    BY <1>5, Zenon DEF Walk
  <2> QED
    BY <2>1, <1>2, <1>5, Zenon
<1> QED
  BY <1>3, <1>4, <1>5, Zenon

LEMMA TrapType ==
  ASSUME TypeOK, NEW a \in Addr, NEW acc \in Access, Trap(a, acc)
  PROVE  TypeOK'
<1>1. Walk(PageOf(a), acc) \in Outcomes
  BY PageOfType, WalkOutcome
<1>2. last' \in [acc : Access, addr : Addr, res : Outcomes \cup {"none"}, val : Byte]
  BY <1>1, UserByteType DEF Trap
<1> QED
  BY <1>2 DEF Trap, TypeOK

LEMMA InitType == Init => TypeOK
<1> SUFFICES ASSUME Init PROVE TypeOK
  OBVIOUS
<1>1. obj \in Objects /\ obj \in Object
  BY ObjectsAssumption DEF Init
<1>2. todo \in Seq(Segment)
  BY <1>1 DEF Init, Object
<1>3. NoEntry \in Entry
  BY Sizes DEF NoEntry, Entry, Frame
<1>4. bumper \in 1 .. MaxFrame + 1
  BY Sizes DEF Init
<1>5. Idle \in [acc : Access, addr : Addr, res : Outcomes \cup {"none"}, val : Byte]
  <2>1. 0 \in Addr
    BY Sizes DEF Addr
  <2> QED
    BY <2>1, UserByteType DEF Idle, Access
<1>6. /\ l1 \in [L1 -> Entry]
      /\ tab \in [Frame -> [L2 -> Entry]]
      /\ mem \in [Frame -> [Off -> Byte]]
  BY <1>3, UserByteType DEF Init
<1> QED
  BY <1>1, <1>2, <1>4, <1>5, <1>6, NoItemType DEF Init, TypeOK, Stage

LEMMA LoaderType ==
  TypeOK /\ (LoadSegment \/ EndSegment \/ EndHeap \/ LoadStack \/ StartUser) => TypeOK'
<1> SUFFICES ASSUME TypeOK, LoadSegment \/ EndSegment \/ EndHeap \/ LoadStack \/ StartUser
             PROVE  TypeOK'
  OBVIOUS
<1>1. obj \in Object
  BY ObjectsAssumption DEF TypeOK
<1>2. CASE LoadSegment
  <2>1. Head(todo) \in Segment /\ Tail(todo) \in Seq(Segment)
    BY <1>2 DEF LoadSegment, TypeOK
  <2>2. item' \in Item
    BY <1>1, <1>2, <2>1, SegItemType DEF LoadSegment
  <2> QED
    BY <1>2, <2>1, <2>2 DEF LoadSegment, TypeOK, Stage
<1>3. CASE EndSegment
  <2>1. item.off \in Addr /\ item.len \in Addr
    BY DEF TypeOK, Item
  <2>2. item' \in Item
    BY <1>1, <1>3, <2>1, HeapItemType, NoItemType DEF EndSegment
  <2> QED
    BY <1>3, <2>2 DEF EndSegment, TypeOK, Stage
<1>4. CASE EndHeap
  BY <1>4, NoItemType DEF EndHeap, TypeOK, Stage
<1>5. CASE LoadStack
  BY <1>1, <1>5, StackItemType DEF LoadStack, TypeOK, Stage
<1>6. CASE StartUser
  BY <1>6, NoItemType DEF StartUser, TypeOK, Stage
<1> QED
  BY <1>2, <1>3, <1>4, <1>5, <1>6

LEMMA NextType == TypeOK /\ [Next]_vars => TypeOK'
<1> SUFFICES ASSUME TypeOK, [Next]_vars PROVE TypeOK'
  OBVIOUS
<1>1. CASE Load
  BY <1>1, LoaderType, MapPageType DEF Load
<1>2. CASE User
  BY <1>2, WriteType, ReadType, TrapType DEF User
<1>3. CASE UNCHANGED vars
  BY <1>3 DEF vars, TypeOK
<1> QED
  BY <1>1, <1>2, <1>3 DEF Next

\* Every variable keeps its type, for every choice of the constants: loader
\* loops never leave the address space and no frame number leaves the memory.
THEOREM TypeCorrect == Spec => []TypeOK
<1>1. Init => TypeOK
  BY InitType
<1>2. TypeOK /\ [Next]_vars => TypeOK'
  BY NextType
<1> QED
  BY <1>1, <1>2, PTL DEF Spec

----------------------------------------------------------------------------
(* 3. No frame has two roles.  With TypeOK, NoAlias is inductive. *)

\* The effect of mapping a page on the tables: everything that was mapped stays
\* where it is, and at most one table and one page are new.
LEMMA MapEffect ==
  ASSUME TypeOK, NoAlias, MapPage, NEW i \in L1, NEW j \in L2, NEW t, NEW f,
         i = Vpn1(item.next), j = Vpn2(item.next), t = TableFor(i), f = PageFor(i, j)
  PROVE  /\ t \in Frame /\ f \in Frame
         /\ Tables' \subseteq Tables \cup {i}
         /\ Leaves' \subseteq Leaves \cup {<<i, j>>}
         /\ \A k \in Tables : l1'[k].ppn = l1[k].ppn
         /\ \A q \in Leaves : LeafFrame(q)' = LeafFrame(q)
         /\ l1'[i].ppn = t /\ LeafFrame(<<i, j>>)' = f
         /\ \/ i \in Tables /\ AfterTable(i) = bumper
            \/ i \notin Tables /\ t = bumper /\ AfterTable(i) = bumper + 1
         /\ \/ i \in Tables /\ <<i, j>> \in Leaves /\ bumper' = bumper
            \/ <<i, j>> \notin Leaves /\ f = AfterTable(i) /\ bumper' = f + 1
         /\ \A g \in bumper' .. MaxFrame, m \in L2 : tab'[g][m] = NoEntry
<1>3. AfterPage(i, j) <= MaxFrame + 1
  BY DEF MapPage
<1>4. t \in Frame /\ f \in Frame /\ AfterPage(i, j) \in bumper .. MaxFrame + 1
  BY <1>3, MapFrames
<1>5. /\ l1' = [l1 EXCEPT ![i] = AddFlags(@, t)]
      /\ tab' = [tab EXCEPT ![t] = [@ EXCEPT ![j] = AddFlags(tab[t][j], f)]]
      /\ bumper' = AfterPage(i, j)
  BY DEF MapPage
<1>6. bumper \in Nat /\ bumper >= 1 /\ MaxFrame \in Nat
  BY Sizes DEF TypeOK
<1>7. /\ i \in Tables => t = l1[i].ppn /\ AfterTable(i) = bumper /\ t < bumper
      /\ i \notin Tables => t = bumper /\ AfterTable(i) = bumper + 1
  BY <1>6 DEF Tables, TableFor, AfterTable, NoAlias
<1>8. \A m \in L2 : i \notin Tables => ~Present(tab[t][m])
  <2>1. SUFFICES ASSUME NEW m \in L2, i \notin Tables PROVE tab[t][m] = NoEntry
    BY <2>1 DEF Present, NoEntry
  <2>2. t \in bumper .. MaxFrame
    BY <1>4, <1>6, <1>7, <2>1 DEF Frame
  <2> QED
    BY <2>2 DEF NoAlias
<1>9. LeafPresent(i, j) <=> <<i, j>> \in Leaves
  <2>1. LeafPresent(i, j) <=> Present(tab[t][j])
    BY <1>4 DEF LeafPresent
  <2> QED
    BY <2>1, <1>7, <1>8 DEF Leaves
<1>10. /\ <<i, j>> \in Leaves => f = LeafFrame(<<i, j>>) /\ bumper' = AfterTable(i)
       /\ <<i, j>> \notin Leaves => f = AfterTable(i) /\ bumper' = f + 1
  <2>1. <<i, j>> \in Leaves => i \in Tables
    BY DEF Leaves
  <2> QED
    BY <2>1, <1>5, <1>7, <1>9 DEF PageFor, AfterPage, LeafFrame
<1>11. /\ \A k \in L1 \ {i} : l1'[k] = l1[k]
       /\ l1'[i].ppn = t
  BY <1>5 DEF TypeOK, AddFlags
<1>12. /\ \A g \in Frame \ {t}, m \in L2 : tab'[g][m] = tab[g][m]
       /\ \A m \in L2 \ {j} : tab'[t][m] = tab[t][m]
       /\ tab'[t][j].ppn = f
  BY <1>4, <1>5 DEF TypeOK, AddFlags
<1>13. \A k \in Tables : k \in L1 /\ l1[k].ppn \in Frame /\ (k # i => l1[k].ppn # t)
  <2> SUFFICES ASSUME NEW k \in Tables
               PROVE  k \in L1 /\ l1[k].ppn \in Frame /\ (k # i => l1[k].ppn # t)
    OBVIOUS
  <2>1. k \in L1 /\ l1[k].ppn \in Frame
    BY DEF Tables, TypeOK, Entry
  <2>2. l1[k].ppn \in 1 .. bumper - 1
    BY DEF NoAlias
  <2>3. CASE i \in Tables
    BY <2>1, <2>3, <1>7 DEF NoAlias
  <2>4. CASE i \notin Tables
    BY <2>1, <2>2, <2>4, <1>6, <1>7
  <2> QED
    BY <2>3, <2>4
<1>14. Tables' \subseteq Tables \cup {i}
  BY <1>11 DEF Tables
<1>15. \A k \in Tables : l1'[k].ppn = l1[k].ppn
  BY <1>7, <1>11, <1>13
<1>16. \A q \in Leaves : LeafFrame(q)' = LeafFrame(q)
  <2> SUFFICES ASSUME NEW q \in Leaves PROVE LeafFrame(q)' = LeafFrame(q)
    OBVIOUS
  <2>1. q[1] \in Tables /\ q[2] \in L2 /\ q = <<q[1], q[2]>>
    BY DEF Leaves
  <2>2. CASE q[1] # i
    BY <2>1, <2>2, <1>12, <1>13, <1>15 DEF LeafFrame
  <2>3. CASE q[1] = i /\ q[2] # j
    BY <2>1, <2>3, <1>7, <1>11, <1>12 DEF LeafFrame
  <2>4. CASE q[1] = i /\ q[2] = j
    <3>1. f = LeafFrame(q)
      BY <2>1, <2>4, <1>10
    <3> QED
      BY <3>1, <2>4, <1>11, <1>12 DEF LeafFrame
  <2> QED
    BY <2>2, <2>3, <2>4
<1>17. Leaves' \subseteq Leaves \cup {<<i, j>>}
  <2> SUFFICES ASSUME NEW q \in Leaves', q # <<i, j>> PROVE q \in Leaves
    OBVIOUS
  <2>1. q \in L1 \X L2 /\ q[1] \in Tables' /\ Present(tab'[l1'[q[1]].ppn][q[2]])
    BY DEF Leaves, Present
  <2>2. CASE q[1] # i
    <3>1. q[1] \in Tables
      BY <2>1, <2>2, <1>14
    <3> QED
      BY <3>1, <2>1, <2>2, <1>12, <1>13, <1>15 DEF Leaves
  <2>3. CASE q[1] = i
    <3>1. q[2] # j /\ q[2] \in L2
      BY <2>1, <2>3
    <3>2. Present(tab[t][q[2]])
      BY <3>1, <2>1, <2>3, <1>11, <1>12
    <3>3. i \in Tables
      BY <3>1, <3>2, <1>8
    <3> QED
      BY <3>2, <3>3, <2>1, <2>3, <1>7 DEF Leaves
  <2> QED
    BY <2>2, <2>3
<1>18. LeafFrame(<<i, j>>)' = f
  BY <1>11, <1>12 DEF LeafFrame
<1>19. \A g \in bumper' .. MaxFrame, m \in L2 : tab'[g][m] = NoEntry
  <2> SUFFICES ASSUME NEW g \in bumper' .. MaxFrame, NEW m \in L2
               PROVE  tab'[g][m] = NoEntry
    OBVIOUS
  <2>1. bumper' \in Nat /\ bumper' >= bumper
    BY <1>4, <1>5, <1>6
  <2>2. i \notin Tables => bumper' > bumper
    <3>1. i \notin Tables => <<i, j>> \notin Leaves
      BY DEF Leaves
    <3> QED
      BY <3>1, <1>6, <1>7, <1>10
  <2>3. g \in Frame \ {t} /\ g \in bumper .. MaxFrame
    BY <2>1, <2>2, <1>6, <1>7 DEF Frame
  <2> QED
    BY <2>3, <1>12 DEF NoAlias
<1>20. \/ i \in Tables /\ AfterTable(i) = bumper
       \/ i \notin Tables /\ t = bumper /\ AfterTable(i) = bumper + 1
  BY <1>7
<1>21. \/ i \in Tables /\ <<i, j>> \in Leaves /\ bumper' = bumper
       \/ <<i, j>> \notin Leaves /\ f = AfterTable(i) /\ bumper' = f + 1
  <2>1. <<i, j>> \in Leaves => i \in Tables
    BY DEF Leaves
  <2> QED
    BY <2>1, <1>7, <1>10
<1> QED
  BY <1>4, <1>11, <1>14, <1>15, <1>16, <1>17, <1>18, <1>19, <1>20, <1>21

LEMMA MapPageNoAlias == TypeOK /\ NoAlias /\ MapPage => NoAlias'
<1> SUFFICES ASSUME TypeOK, NoAlias, MapPage PROVE NoAlias'
  OBVIOUS
<1>1. Vpn1(item.next) \in L1 /\ Vpn2(item.next) \in L2
  <2>1. item \in Item
    BY DEF TypeOK
  <2> QED
    BY <2>1, LoopPage, VpnType DEF MapPage, Looping
<1>2. PICK i \in L1 : i = Vpn1(item.next)
  BY <1>1
<1>3. PICK j \in L2 : j = Vpn2(item.next)
  BY <1>1
<1>4. PICK t : t = TableFor(i)
  OBVIOUS
<1>5. PICK f : f = PageFor(i, j)
  OBVIOUS
<1>6. /\ t \in Frame /\ f \in Frame
      /\ Tables' \subseteq Tables \cup {i}
      /\ Leaves' \subseteq Leaves \cup {<<i, j>>}
      /\ \A k \in Tables : l1'[k].ppn = l1[k].ppn
      /\ \A q \in Leaves : LeafFrame(q)' = LeafFrame(q)
      /\ l1'[i].ppn = t /\ LeafFrame(<<i, j>>)' = f
      /\ \/ i \in Tables /\ AfterTable(i) = bumper
         \/ i \notin Tables /\ t = bumper /\ AfterTable(i) = bumper + 1
      /\ \/ i \in Tables /\ <<i, j>> \in Leaves /\ bumper' = bumper
         \/ <<i, j>> \notin Leaves /\ f = AfterTable(i) /\ bumper' = f + 1
      /\ \A g \in bumper' .. MaxFrame, m \in L2 : tab'[g][m] = NoEntry
  BY <1>2, <1>3, <1>4, <1>5, MapEffect
<1>7. bumper \in Nat /\ bumper >= 1 /\ bumper' >= bumper /\ bumper' \in Nat
  BY <1>6 DEF TypeOK
<1>8. i \notin Tables => <<i, j>> \notin Leaves
  BY DEF Leaves
\* Frames in use before are below bumper, the new ones are not, and the table
\* and the page of one call differ.
<1>9. /\ \A k \in Tables : l1[k].ppn \in 1 .. bumper - 1
      /\ \A q \in Leaves : LeafFrame(q) \in 1 .. bumper - 1
      /\ i \notin Tables => t = bumper /\ f = bumper + 1 /\ bumper' = bumper + 2
      /\ i \in Tables /\ <<i, j>> \notin Leaves => f = bumper /\ bumper' = bumper + 1
  <2>1. /\ \A k \in Tables : l1[k].ppn \in 1 .. bumper - 1
        /\ \A q \in Leaves : LeafFrame(q) \in 1 .. bumper - 1
    BY DEF NoAlias
  <2>2. i \notin Tables => t = bumper /\ f = bumper + 1 /\ bumper' = f + 1
    BY <1>6, <1>8
  <2>3. i \in Tables /\ <<i, j>> \notin Leaves => f = bumper /\ bumper' = f + 1
    BY <1>6, <1>7
  <2> QED
    BY <2>1, <2>2, <2>3, <1>7
<1>10. \A k \in Tables' : l1'[k].ppn \in 1 .. bumper' - 1
  BY <1>6, <1>7, <1>9
<1>11. \A q \in Leaves' : LeafFrame(q)' \in 1 .. bumper' - 1
  BY <1>6, <1>7, <1>9
<1>12. \A k, m \in Tables' : l1'[k].ppn = l1'[m].ppn => k = m
  <2> SUFFICES ASSUME NEW k \in Tables', NEW m \in Tables', l1'[k].ppn = l1'[m].ppn
               PROVE  k = m
    OBVIOUS
  <2>1. CASE k \in Tables /\ m \in Tables
    BY <2>1, <1>6 DEF NoAlias
  <2>2. CASE k \notin Tables \/ m \notin Tables
    BY <2>2, <1>6, <1>7, <1>9
  <2> QED
    BY <2>1, <2>2
<1>13. \A q, r \in Leaves' : LeafFrame(q)' = LeafFrame(r)' => q = r
  <2> SUFFICES ASSUME NEW q \in Leaves', NEW r \in Leaves', LeafFrame(q)' = LeafFrame(r)'
               PROVE  q = r
    OBVIOUS
  <2>1. CASE q \in Leaves /\ r \in Leaves
    BY <2>1, <1>6 DEF NoAlias
  <2>2. CASE q \notin Leaves \/ r \notin Leaves
    BY <2>2, <1>6, <1>7, <1>8, <1>9
  <2> QED
    BY <2>1, <2>2
<1>14. \A k \in Tables', q \in Leaves' : l1'[k].ppn # LeafFrame(q)'
  <2> SUFFICES ASSUME NEW k \in Tables', NEW q \in Leaves'
               PROVE  l1'[k].ppn # LeafFrame(q)'
    OBVIOUS
  <2>1. CASE k \in Tables /\ q \in Leaves
    BY <2>1, <1>6 DEF NoAlias
  <2>2. CASE k \in Tables /\ q \notin Leaves
    BY <2>2, <1>6, <1>7, <1>9
  <2>3. CASE k \notin Tables /\ q \in Leaves
    BY <2>3, <1>6, <1>7, <1>9
  <2>4. CASE k \notin Tables /\ q \notin Leaves
    BY <2>4, <1>6, <1>7, <1>8, <1>9
  <2> QED
    BY <2>1, <2>2, <2>3, <2>4
<1> QED
  BY <1>6, <1>10, <1>11, <1>12, <1>13, <1>14 DEF NoAlias

\* A write keeps every entry where it points, and present if it was.
LEMMA WriteEffect ==
  ASSUME TypeOK, NoAlias, NEW a \in Addr, Write(a)
  PROVE  /\ Tables' = Tables /\ Leaves' = Leaves
         /\ \A k \in L1 : l1'[k].ppn = l1[k].ppn
         /\ \A g \in Frame, m \in L2 : tab'[g][m].ppn = tab[g][m].ppn
         /\ \A g \in bumper .. MaxFrame, m \in L2 : tab'[g][m] = tab[g][m]
<1> DEFINE p == PageOf(a)
           t == l1[Vpn1(p)].ppn
<1>1. p \in Page /\ Vpn1(p) \in L1 /\ Vpn2(p) \in L2
  BY PageOfType, VpnType
<1>2. Present(l1[Vpn1(p)]) /\ Present(Leaf(p))
  BY <1>1, WalkOutcome DEF Write, Access
<1> HIDE DEF p
<1>3. /\ l1' = [l1 EXCEPT ![Vpn1(p)] = DirtyL1(p)]
      /\ tab' = [tab EXCEPT ![t] = [@ EXCEPT ![Vpn2(p)] = DirtyLeaf(p)]]
  BY DEF Write, p
<1>4. /\ DirtyL1(p).ppn = t /\ DirtyLeaf(p).ppn = Leaf(p).ppn /\ t \in Frame
      /\ Leaf(p) = tab[t][Vpn2(p)] /\ Leaf(p) \in Entry /\ l1[Vpn1(p)] \in Entry
  BY <1>1, DirtyType DEF Leaf, TypeOK
<1>5. Present(DirtyL1(p)) /\ Present(DirtyLeaf(p))
  <2>1. \A e \in Entry : Present(e) => Present(Dirty(e)) /\ Dirty(e) \in Entry
    BY DEF Present, Dirty, Entry, Flag
  <2>2. Present([Dirty(Leaf(p)) EXCEPT !.ppn = t])
    BY <1>2, <1>4, <2>1 DEF Present, Entry
  <2> QED
    BY <1>2, <1>4, <2>1, <2>2 DEF DirtyL1, DirtyLeaf
<1>6. t \in 1 .. bumper - 1 /\ bumper \in Nat
  BY <1>1, <1>2 DEF NoAlias, Tables, TypeOK
<1> HIDE DEF t
<1>7. \A k \in L1 : l1'[k].ppn = l1[k].ppn /\ (Present(l1'[k]) <=> Present(l1[k]))
  BY <1>1, <1>2, <1>3, <1>4, <1>5 DEF TypeOK, t
<1>8. \A g \in Frame, m \in L2 :
        tab'[g][m].ppn = tab[g][m].ppn /\ (Present(tab'[g][m]) <=> Present(tab[g][m]))
  BY <1>1, <1>2, <1>3, <1>4, <1>5 DEF TypeOK
<1>9. \A g \in bumper .. MaxFrame, m \in L2 : tab'[g][m] = tab[g][m]
  BY <1>1, <1>3, <1>4, <1>6 DEF TypeOK, Frame
<1>10. Tables' = Tables
  BY <1>7 DEF Tables, Present
<1>11. \A k \in L1 : l1[k].ppn \in Frame
  BY DEF TypeOK, Entry
<1>12. \A q \in L1 \X L2 :
         Present(tab'[l1'[q[1]].ppn][q[2]]) <=> Present(tab[l1[q[1]].ppn][q[2]])
  BY <1>7, <1>8, <1>11
<1>13. Leaves' = Leaves
  BY <1>10, <1>12 DEF Leaves, Present
<1> QED
  BY <1>7, <1>8, <1>9, <1>10, <1>13

LEMMA WriteNoAlias == ASSUME TypeOK, NoAlias, NEW a \in Addr, Write(a) PROVE NoAlias'
<1>1. /\ Tables' = Tables /\ Leaves' = Leaves
      /\ \A k \in L1 : l1'[k].ppn = l1[k].ppn
      /\ \A g \in Frame, m \in L2 : tab'[g][m].ppn = tab[g][m].ppn
      /\ \A g \in bumper .. MaxFrame, m \in L2 : tab'[g][m] = tab[g][m]
  BY WriteEffect
<1>2. bumper' = bumper
  BY DEF Write
<1>3. \A k \in L1 : l1[k].ppn \in Frame
  BY DEF TypeOK, Entry
<1>4. \A q \in Leaves : LeafFrame(q)' = LeafFrame(q)
  BY <1>1, <1>3 DEF LeafFrame, Leaves
<1> QED
  BY <1>1, <1>2, <1>4 DEF NoAlias, Tables

LEMMA InitNoAlias == Init => NoAlias
BY DEF Init, NoAlias, Tables, Leaves, Present, NoEntry, Frame

LEMMA NextNoAlias == TypeOK /\ NoAlias /\ [Next]_vars => NoAlias'
<1> SUFFICES ASSUME TypeOK, NoAlias, [Next]_vars PROVE NoAlias'
  OBVIOUS
<1>1. CASE UNCHANGED <<l1, tab, bumper>>
  <2>1. Tables' = Tables /\ Leaves' = Leaves /\ \A q : LeafFrame(q)' = LeafFrame(q)
    BY <1>1 DEF Tables, Leaves, LeafFrame, Present
  <2> QED
    BY <1>1, <2>1 DEF NoAlias
<1>2. CASE MapPage
  BY <1>2, MapPageNoAlias
<1>3. CASE Load /\ ~MapPage
  BY <1>1, <1>3 DEF Load, LoadSegment, EndSegment, EndHeap, LoadStack, StartUser
<1>4. CASE User
  BY <1>1, <1>4, WriteNoAlias DEF User, Read, Trap
<1>5. CASE UNCHANGED vars
  BY <1>1, <1>5 DEF vars
<1> QED
  BY <1>2, <1>3, <1>4, <1>5 DEF Next

\* Page tables and pages never share a frame, for every object that is loaded
\* and whatever the program then does: page_bumper only moves forward, each
\* call of map takes at most two frames, and a write moves no entry.
THEOREM NoFrameHasTwoRoles == Spec => []NoAlias
<1>1. Init => TypeOK /\ NoAlias
  BY InitType, InitNoAlias
<1>2. TypeOK /\ NoAlias /\ [Next]_vars => (TypeOK /\ NoAlias)'
  BY NextType, NextNoAlias
<1> QED
  BY <1>1, <1>2, PTL DEF Spec

----------------------------------------------------------------------------
(* 4. A step of the program changes one byte at most *)

\* The pages of the address space that are mapped are the leaves.
LEMMA MappedIsLeaf ==
  ASSUME NEW p \in Page
  PROVE  /\ PageMapped(p) <=> <<Vpn1(p), Vpn2(p)>> \in Leaves
         /\ Leaf(p).ppn = LeafFrame(<<Vpn1(p), Vpn2(p)>>)
BY VpnType DEF PageMapped, Leaves, Tables, Leaf, LeafFrame

\* A write keeps every page mapped where it was.
LEMMA WriteKeepsPages ==
  ASSUME TypeOK, NoAlias, NEW b \in Addr, Write(b), NEW p \in Page, PageMapped(p)
  PROVE  PageMapped(p)' /\ Leaf(p)'.ppn = Leaf(p).ppn
<1>1. Vpn1(p) \in L1 /\ Vpn2(p) \in L2
  BY VpnType
<1>2. <<Vpn1(p), Vpn2(p)>> \in Leaves'
  BY WriteEffect, MappedIsLeaf
<1>3. /\ l1'[Vpn1(p)].ppn = l1[Vpn1(p)].ppn /\ l1[Vpn1(p)].ppn \in Frame
      /\ tab'[l1[Vpn1(p)].ppn][Vpn2(p)].ppn = tab[l1[Vpn1(p)].ppn][Vpn2(p)].ppn
  BY <1>1, WriteEffect DEF TypeOK, Entry
<1> QED
  BY <1>1, <1>2, <1>3 DEF PageMapped, Leaf, Leaves, Tables, Present

LEMMA WriteIsLocal ==
  ASSUME TypeOK, NoAlias, NEW b \in Addr, Write(b), NEW a \in Addr, PageMapped(PageOf(a))
  PROVE  \/ ByteAt(a)' = ByteAt(a)
         \/ last'.acc = "Write" /\ last'.addr = a /\ "W" \in Leaf(PageOf(a)).flags
<1>1. /\ PageOf(a) \in Page /\ OffOf(a) \in Off
      /\ PageOf(b) \in Page /\ OffOf(b) \in Off
  BY PageOfType
<1>2. Leaf(PageOf(a))'.ppn = Leaf(PageOf(a)).ppn
  BY <1>1, WriteKeepsPages
<1>3. ByteAt(a)' = mem'[Leaf(PageOf(a)).ppn][OffOf(a)]
  BY <1>2 DEF ByteAt
<1>4. mem' = [mem EXCEPT ![Leaf(PageOf(b)).ppn] = [@ EXCEPT ![OffOf(b)] = UserByte]]
  BY DEF Write
<1>5. Leaf(PageOf(a)).ppn \in Frame /\ Leaf(PageOf(b)).ppn \in Frame
  BY <1>1, DirtyType
<1>6. PageMapped(PageOf(b)) /\ "W" \in Leaf(PageOf(b)).flags
  <2>1. Need("Write") = "W"
    BY Zenon DEF Need
  <2> QED
    BY <2>1, <1>1, WalkOutcome DEF Write, PageMapped, Access
<1>7. CASE Leaf(PageOf(a)).ppn # Leaf(PageOf(b)).ppn
  BY <1>3, <1>4, <1>5, <1>7 DEF TypeOK, ByteAt
<1>8. CASE Leaf(PageOf(a)).ppn = Leaf(PageOf(b)).ppn
  <2>1. /\ Vpn1(PageOf(a)) = Vpn1(PageOf(b))
        /\ Vpn2(PageOf(a)) = Vpn2(PageOf(b))
    <3> DEFINE qa == <<Vpn1(PageOf(a)), Vpn2(PageOf(a))>>
               qb == <<Vpn1(PageOf(b)), Vpn2(PageOf(b))>>
    <3>1. /\ qa \in Leaves /\ qb \in Leaves
          /\ LeafFrame(qa) = LeafFrame(qb)
      BY <1>1, <1>6, <1>8, MappedIsLeaf
    <3>2. qa = qb
      BY <3>1 DEF NoAlias
    <3> QED
      BY <3>2
  <2>2. PageOf(a) = PageOf(b)
    BY <2>1, <1>1, PageUnique
  <2>3. CASE OffOf(a) = OffOf(b)
    <3>1. a = b
      BY <2>2, <2>3, AddrUnique
    <3>2. last' = [acc |-> "Write", addr |-> b, res |-> "ok", val |-> UserByte]
      BY DEF Write
    <3> QED
      BY <3>1, <3>2, <1>6
  <2>4. CASE OffOf(a) # OffOf(b)
    BY <2>4, <1>1, <1>3, <1>4, <1>5, <1>8 DEF TypeOK, ByteAt
  <2> QED
    BY <2>3, <2>4
<1> QED
  BY <1>7, <1>8

LEMMA StepIsLocal ==
  ASSUME TypeOK, NoAlias, [Next]_vars, stage = "run",
         NEW a \in Addr, PageMapped(PageOf(a))
  PROVE  /\ PageMapped(PageOf(a))'
         /\ \/ ByteAt(a)' = ByteAt(a)
            \/ /\ last'.acc = "Write" /\ last'.addr = a
               /\ "W" \in Leaf(PageOf(a)).flags
<1>1. CASE UNCHANGED <<l1, tab, mem>>
  BY <1>1 DEF PageMapped, ByteAt, Leaf, Present
<1>2. CASE Load
  BY <1>2 DEF Load, LoadSegment, MapPage, Looping, EndSegment, EndHeap, LoadStack, StartUser
<1>3. CASE \E b \in Addr : Write(b)
  BY <1>3, PageOfType, WriteKeepsPages, WriteIsLocal
<1>4. CASE \E b \in Addr, acc \in Access : Read(b, acc) \/ Trap(b, acc)
  BY <1>1, <1>4 DEF Read, Trap
<1>5. CASE UNCHANGED vars
  BY <1>1, <1>5 DEF vars
<1> QED
  BY <1>2, <1>3, <1>4, <1>5 DEF Next, User

\* A store of the running program changes the byte at its own address and no
\* other, and only in a page mapped writable; read-only data and text stay as
\* they were loaded, and no page is ever mapped elsewhere.
THEOREM ProgramStoresAreLocal == Spec => StoresAreLocal
<1>1. TypeOK /\ NoAlias /\ [Next]_vars =>
        [stage = "run" =>
           \A a \in Addr : PageMapped(PageOf(a)) =>
             /\ PageMapped(PageOf(a))'
             /\ \/ ByteAt(a)' = ByteAt(a)
                \/ /\ last'.acc = "Write" /\ last'.addr = a
                   /\ "W" \in Leaf(PageOf(a)).flags]_vars
  BY StepIsLocal
<1> QED
  BY <1>1, TypeCorrect, NoFrameHasTwoRoles, PTL DEF Spec, StoresAreLocal

-----------------------------------------------------------------------------
(* 5. The loader takes one frame per level-two table and one per page, and   *)
(* never one more; so the memory it needs does not depend on the object.     *)

FramesTaken ==
  /\ stage \in {"seg", "heap", "stack"} => "P" \in item.perm
  /\ bumper = 1 + Cardinality(Tables) + Cardinality(Leaves)

\* There are no more tables and pages than entries in the tables.
LEMMA EntriesBound ==
  ASSUME NEW T \in SUBSET L1, NEW P \in SUBSET (L1 \X L2)
  PROVE  /\ IsFiniteSet(T) /\ IsFiniteSet(P)
         /\ Cardinality(T) \in 0 .. N1 /\ Cardinality(P) \in 0 .. N1 * N2
<1>1. N1 \in Nat \ {0} /\ N2 \in Nat \ {0} /\ N1 * N2 \in Nat
  BY Sizes
<1>2. IsFiniteSet(L1) /\ Cardinality(L1) = N1
  <2>1. 0 \in Int /\ N1 - 1 \in Int /\ ~(0 > N1 - 1)
    BY <1>1
  <2>2. IsFiniteSet(0 .. N1 - 1)
        /\ Cardinality(0 .. N1 - 1) = IF 0 > N1 - 1 THEN 0 ELSE (N1 - 1) - 0 + 1
    BY <2>1, FS_Interval
  <2> QED
    BY <1>1, <2>1, <2>2 DEF L1
<1>3. IsFiniteSet(L2) /\ Cardinality(L2) = N2
  <2>1. 0 \in Int /\ N2 - 1 \in Int /\ ~(0 > N2 - 1)
    BY <1>1
  <2>2. IsFiniteSet(0 .. N2 - 1)
        /\ Cardinality(0 .. N2 - 1) = IF 0 > N2 - 1 THEN 0 ELSE (N2 - 1) - 0 + 1
    BY <2>1, FS_Interval
  <2> QED
    BY <1>1, <2>1, <2>2 DEF L2
<1>4. IsFiniteSet(L1 \X L2) /\ Cardinality(L1 \X L2) = N1 * N2
  BY <1>2, <1>3, FS_Product
<1>5. IsFiniteSet(T) /\ Cardinality(T) <= N1
  BY <1>2, FS_Subset
<1>6. IsFiniteSet(P) /\ Cardinality(P) <= N1 * N2
  BY <1>4, FS_Subset
<1>7. Cardinality(T) \in Nat /\ Cardinality(P) \in Nat
  BY <1>5, <1>6, FS_CardinalityType
<1> QED
  BY <1>1, <1>5, <1>6, <1>7

LEMMA OneMore ==
  ASSUME NEW S, NEW x, IsFiniteSet(S)
  PROVE  Cardinality(S \cup {x}) = Cardinality(S) + (IF x \in S THEN 0 ELSE 1)
<1>1. Cardinality(S \cup {x}) = IF x \in S THEN Cardinality(S) ELSE Cardinality(S) + 1
  BY FS_AddElement
<1>2. Cardinality(S) \in Nat
  BY FS_CardinalityType
<1> QED
  BY <1>1, <1>2

LEMMA TablesAndLeaves == Tables \in SUBSET L1 /\ Leaves \in SUBSET (L1 \X L2)
BY DEF Tables, Leaves

\* A call of map takes a frame for the table it lacks and one for the page.
LEMMA FramesNeeded ==
  ASSUME TypeOK, NoAlias, NEW i \in L1, NEW j \in L2
  PROVE  AfterPage(i, j) = bumper + (IF i \in Tables THEN 0 ELSE 1)
                                  + (IF <<i, j>> \in Leaves THEN 0 ELSE 1)
<1>1. bumper \in Nat /\ MaxFrame \in Nat /\ bumper <= MaxFrame + 1
  BY Sizes DEF TypeOK
<1>2. AfterTable(i) = bumper + (IF i \in Tables THEN 0 ELSE 1)
  BY <1>1 DEF AfterTable, Tables
<1>3. LeafPresent(i, j) <=> <<i, j>> \in Leaves
  <2>1. CASE i \in Tables
    <3>1. TableFor(i) = l1[i].ppn /\ l1[i].ppn \in Frame
      BY <2>1 DEF TableFor, Tables, TypeOK, Entry
    <3> QED
      BY <2>1, <3>1 DEF LeafPresent, Leaves
  <2>2. CASE i \notin Tables
    <3>1. TableFor(i) = bumper
      BY <2>2 DEF TableFor, Tables
    <3>2. bumper \in Frame => tab[bumper][j] = NoEntry
      BY <1>1 DEF NoAlias, Frame
    <3>3. ~LeafPresent(i, j)
      BY <3>1, <3>2 DEF LeafPresent, Present, NoEntry
    <3> QED
      BY <2>2, <3>3 DEF Leaves
  <2> QED
    BY <2>1, <2>2
<1> QED
  BY <1>1, <1>2, <1>3 DEF AfterPage

\* After the call the table and the page are there.
LEMMA MapTakes ==
  ASSUME TypeOK, NoAlias, FramesTaken, MapPage,
         NEW i \in L1, NEW j \in L2, i = Vpn1(item.next), j = Vpn2(item.next)
  PROVE  Tables' = Tables \cup {i} /\ Leaves' = Leaves \cup {<<i, j>>}
<1>0. PICK t : t = TableFor(i)
  OBVIOUS
<1>1. PICK f : f = PageFor(i, j)
  OBVIOUS
<1>2. /\ t \in Frame /\ Tables' \subseteq Tables \cup {i}
      /\ Leaves' \subseteq Leaves \cup {<<i, j>>}
      /\ \A k \in Tables : l1'[k].ppn = l1[k].ppn
      /\ l1'[i].ppn = t
  <2>1. /\ t \in Frame /\ f \in Frame
        /\ Tables' \subseteq Tables \cup {i}
        /\ Leaves' \subseteq Leaves \cup {<<i, j>>}
        /\ \A k \in Tables : l1'[k].ppn = l1[k].ppn
        /\ \A q \in Leaves : LeafFrame(q)' = LeafFrame(q)
        /\ l1'[i].ppn = t /\ LeafFrame(<<i, j>>)' = f
        /\ \/ i \in Tables /\ AfterTable(i) = bumper
           \/ i \notin Tables /\ t = bumper /\ AfterTable(i) = bumper + 1
        /\ \/ i \in Tables /\ <<i, j>> \in Leaves /\ bumper' = bumper
           \/ <<i, j>> \notin Leaves /\ f = AfterTable(i) /\ bumper' = f + 1
        /\ \A g \in bumper' .. MaxFrame, m \in L2 : tab'[g][m] = NoEntry
    BY <1>0, <1>1, MapEffect
  <2> QED
    BY <2>1
<1>3. /\ l1' = [l1 EXCEPT ![i] = AddFlags(@, t)]
      /\ tab' = [tab EXCEPT ![t] = [@ EXCEPT ![j] = AddFlags(tab[t][j], f)]]
      /\ "P" \in item.perm
  BY <1>0, <1>1 DEF MapPage, Looping, FramesTaken
<1>4. /\ l1 \in [L1 -> Entry] /\ tab \in [Frame -> [L2 -> Entry]]
  BY DEF TypeOK
<1>5. \A k \in L1 : Present(l1[k]) \/ k = i => Present(l1'[k])
  BY <1>3, <1>4 DEF Present, AddFlags
<1>6. \A g \in Frame, m \in L2 : Present(tab[g][m]) \/ (g = t /\ m = j) => Present(tab'[g][m])
  BY <1>2, <1>3, <1>4 DEF Present, AddFlags
<1>7. Tables \cup {i} \subseteq Tables'
  BY <1>5 DEF Tables
<1>8. ASSUME NEW q \in Leaves PROVE q \in Leaves'
  <2>1. q \in L1 \X L2 /\ q[1] \in Tables /\ Present(tab[l1[q[1]].ppn][q[2]])
    BY DEF Leaves
  <2>2. q[1] \in L1 /\ q[2] \in L2 /\ l1[q[1]].ppn \in Frame
    BY <1>4, <2>1 DEF Entry
  <2>3. l1'[q[1]].ppn = l1[q[1]].ppn /\ q[1] \in Tables'
    BY <1>2, <1>7, <2>1
  <2>4. Present(tab'[l1'[q[1]].ppn][q[2]])
    BY <1>6, <2>1, <2>2, <2>3
  <2> QED
    BY <2>1, <2>3, <2>4 DEF Leaves, Present
<1>9. <<i, j>> \in Leaves'
  <2>1. i \in Tables' /\ Present(tab'[l1'[i].ppn][j])
    BY <1>2, <1>6, <1>7
  <2> QED
    BY <2>1 DEF Leaves, Present
<1> QED
  BY <1>2, <1>7, <1>8, <1>9

LEMMA LoopIndices ==
  ASSUME TypeOK, Looping
  PROVE  Vpn1(item.next) \in L1 /\ Vpn2(item.next) \in L2
<1>1. item \in Item
  BY DEF TypeOK
<1> QED
  BY <1>1, LoopPage, VpnType DEF Looping

LEMMA InitFrames == Init => FramesTaken
<1> SUFFICES ASSUME Init PROVE FramesTaken
  OBVIOUS
<1>1. Tables = {} /\ Leaves = {}
  BY DEF Init, Tables, Leaves, Present, NoEntry
<1> QED
  BY <1>1, FS_EmptySet DEF Init, FramesTaken

LEMMA NextFrames == TypeOK /\ NoAlias /\ FramesTaken /\ [Next]_vars => FramesTaken'
<1> SUFFICES ASSUME TypeOK, NoAlias, FramesTaken, [Next]_vars PROVE FramesTaken'
  OBVIOUS
<1>1. CASE UNCHANGED <<l1, tab, bumper>> /\ ~MapPage /\ (Load \/ UNCHANGED <<stage, item>>)
  <2>1. Tables' = Tables /\ Leaves' = Leaves /\ bumper' = bumper
    BY <1>1 DEF Tables, Leaves, Present
  <2>2. stage' \in {"seg", "heap", "stack"} => "P" \in item'.perm
    <3>1. CASE UNCHANGED <<stage, item>>
      BY <3>1 DEF FramesTaken
    <3>2. CASE Load
      BY <1>1, <3>2 DEF Load, LoadSegment, EndSegment, EndHeap, LoadStack, StartUser,
                        SegItem, HeapItem, StackItem, WrItem
    <3> QED
      BY <1>1, <3>1, <3>2
  <2> QED
    BY <2>1, <2>2 DEF FramesTaken
<1>2. CASE MapPage
  <2>1. PICK i \in L1, j \in L2 : i = Vpn1(item.next) /\ j = Vpn2(item.next)
    BY <1>2, LoopIndices DEF MapPage
  <2>2. bumper' = AfterPage(i, j) /\ item' = Advance(item) /\ stage' = stage
    BY <1>2, <2>1 DEF MapPage
  <2>3. Tables' = Tables \cup {i} /\ Leaves' = Leaves \cup {<<i, j>>}
    BY <1>2, <2>1, MapTakes
  <2>4. /\ IsFiniteSet(Tables) /\ IsFiniteSet(Leaves)
        /\ Cardinality(Tables) \in Nat /\ Cardinality(Leaves) \in Nat
    BY EntriesBound, TablesAndLeaves
  <2>5. Cardinality(Tables') = Cardinality(Tables) + (IF i \in Tables THEN 0 ELSE 1)
    BY <2>3, <2>4, OneMore
  <2>6. Cardinality(Leaves') = Cardinality(Leaves) + (IF <<i, j>> \in Leaves THEN 0 ELSE 1)
    BY <2>3, <2>4, OneMore
  <2>7. bumper' = bumper + (IF i \in Tables THEN 0 ELSE 1)
                         + (IF <<i, j>> \in Leaves THEN 0 ELSE 1)
    BY <2>2, FramesNeeded
  <2>8. bumper' = 1 + Cardinality(Tables') + Cardinality(Leaves')
    BY <2>4, <2>5, <2>6, <2>7 DEF FramesTaken
  <2>9. item'.perm = item.perm
    BY <2>2 DEF Advance, TypeOK, Item
  <2> QED
    BY <2>2, <2>8, <2>9 DEF FramesTaken
<1>3. CASE User
  <2>1. CASE \E a \in Addr : Write(a)
    <3>1. PICK a \in Addr : Write(a)
      BY <2>1
    <3>2. Tables' = Tables /\ Leaves' = Leaves
      BY <3>1, WriteEffect
    <3> QED
      BY <3>1, <3>2 DEF Write, FramesTaken
  <2>2. CASE UNCHANGED <<l1, tab, bumper, stage, item>>
    <3>1. Tables' = Tables /\ Leaves' = Leaves
      BY <2>2 DEF Tables, Leaves, Present
    <3> QED
      BY <2>2, <3>1 DEF FramesTaken
  <2> QED
    BY <1>3, <2>1, <2>2 DEF User, Read, Trap
<1>4. CASE Load /\ ~MapPage
  BY <1>1, <1>4 DEF Load, LoadSegment, EndSegment, EndHeap, LoadStack, StartUser
<1>5. CASE UNCHANGED vars
  <2>1. Tables' = Tables /\ Leaves' = Leaves
    BY <1>5 DEF vars, Tables, Leaves, Present
  <2> QED
    BY <1>5, <2>1 DEF vars, FramesTaken
<1> QED
  BY <1>2, <1>3, <1>4, <1>5 DEF Next

\* Whatever the object asks for, the memory has the frames the loader takes:
\* allocate_page never runs past the last one, so the bound in MapPage never
\* keeps the loader from going on.
THEOREM FramesSuffice == Spec => []MemorySuffices
<1>1. Init => TypeOK /\ NoAlias /\ FramesTaken
  BY InitType, InitNoAlias, InitFrames
<1>2. TypeOK /\ NoAlias /\ FramesTaken /\ [Next]_vars => (TypeOK /\ NoAlias /\ FramesTaken)'
  BY NextType, NextNoAlias, NextFrames
<1>3. TypeOK /\ NoAlias /\ FramesTaken => MemorySuffices
  <2> SUFFICES ASSUME TypeOK, NoAlias, FramesTaken, Looping
               PROVE  AfterPage(Vpn1(item.next), Vpn2(item.next)) <= MaxFrame + 1
    BY DEF MemorySuffices
  <2>1. PICK i \in L1, j \in L2 : i = Vpn1(item.next) /\ j = Vpn2(item.next)
    BY LoopIndices
  <2>2. /\ Tables \cup {i} \in SUBSET L1 /\ Leaves \cup {<<i, j>>} \in SUBSET (L1 \X L2)
    BY TablesAndLeaves
  <2>3. /\ Cardinality(Tables \cup {i}) \in 0 .. N1
        /\ Cardinality(Leaves \cup {<<i, j>>}) \in 0 .. N1 * N2
    BY <2>2, EntriesBound
  <2>4. /\ IsFiniteSet(Tables) /\ IsFiniteSet(Leaves)
        /\ Cardinality(Tables) \in Nat /\ Cardinality(Leaves) \in Nat
    BY EntriesBound, TablesAndLeaves
  <2>5. Cardinality(Tables \cup {i}) = Cardinality(Tables) + (IF i \in Tables THEN 0 ELSE 1)
    BY <2>4, OneMore
  <2>6. Cardinality(Leaves \cup {<<i, j>>})
          = Cardinality(Leaves) + (IF <<i, j>> \in Leaves THEN 0 ELSE 1)
    BY <2>4, OneMore
  <2>7. AfterPage(i, j) = bumper + (IF i \in Tables THEN 0 ELSE 1)
                                 + (IF <<i, j>> \in Leaves THEN 0 ELSE 1)
    BY FramesNeeded
  <2>8. AfterPage(i, j) = 1 + Cardinality(Tables \cup {i}) + Cardinality(Leaves \cup {<<i, j>>})
    BY <2>4, <2>5, <2>6, <2>7 DEF FramesTaken
  <2>9. N1 * N2 \in Nat /\ N1 \in Nat /\ MaxFrame >= N1 + N1 * N2 /\ MaxFrame \in Nat
    BY Sizes, SizesAssumption
  <2> QED
    BY <2>1, <2>3, <2>8, <2>9
<1> QED
  BY <1>1, <1>2, <1>3, PTL DEF Spec

----------------------------------------------------------------------------
(* 6. Ranges of pages.  Those of SegItem, HeapItem and StackItem are the
   pages the object asks for. *)

LEMMA TimesMonotone ==
  ASSUME NEW x \in Nat, NEW y \in Nat, x <= y
  PROVE  x * PageSize \in Nat /\ x * PageSize <= y * PageSize
<1>1. PICK d \in Nat : y = x + d
  BY SMTT(20)
<1>2. PICK m \in Nat : m = PageSize
  BY Sizes
<1>3. (x + d) * m = x * m + d * m /\ d * m \in Nat /\ x * m \in Nat
  BY SMTT(20)
<1> QED
  BY <1>1, <1>2, <1>3

\* A page of the address space ends inside it.
LEMMA PageFits ==
  ASSUME NEW p \in Page
  PROVE  p \in Nat /\ p * PageSize \in Nat /\ p * PageSize + PageSize <= W
<1>1. p \in Nat /\ p + 1 <= N1 * N2 /\ N1 * N2 \in Nat
  BY Sizes DEF Page
<1>2. (p + 1) * PageSize <= (N1 * N2) * PageSize
  BY <1>1, TimesMonotone
<1>3. (p + 1) * PageSize = p * PageSize + PageSize /\ p * PageSize \in Nat
  BY <1>1, Sizes, SMTT(20)
<1>4. (N1 * N2) * PageSize = W
  BY Sizes DEF W
<1> QED
  BY <1>1, <1>2, <1>3, <1>4

LEMMA PageOfTimes ==
  ASSUME NEW p \in Nat, NEW x \in Off
  PROVE  p * PageSize + x \in Nat /\ PageOf(p * PageSize + x) = p /\ OffOf(p * PageSize + x) = x
<1>0. PICK m \in Nat \ {0} : m = PageSize
  BY Sizes
<1>1. x \in 0 .. m - 1 /\ p * m \in Nat
  BY <1>0 DEF Off
<1> DEFINE a == p * m + x
<1>2. a \in Nat
  BY <1>1
<1>3. a \div m \in Nat /\ a % m \in 0 .. m - 1 /\ a = m * (a \div m) + (a % m)
  BY <1>2, DivMod
<1>4. PICK q \in Nat, r \in 0 .. m - 1 : q = a \div m /\ r = a % m
  BY <1>3
<1>5. p * m + x = m * q + r
  BY <1>3, <1>4
<1>6. ASSUME q < p PROVE FALSE
  <2>1. PICK d \in Nat : p = q + 1 + d
    BY <1>6
  <2>2. (q + 1 + d) * m = m * q + m + d * m /\ d * m \in Nat /\ m * q \in Nat
    BY SMTT(20)
  <2> QED
    BY <1>1, <1>5, <2>1, <2>2
<1>7. ASSUME q > p PROVE FALSE
  <2>1. PICK d \in Nat : q = p + 1 + d
    BY <1>7
  <2>2. m * (p + 1 + d) = p * m + m + d * m /\ d * m \in Nat /\ p * m \in Nat
    BY SMTT(20)
  <2> QED
    BY <1>1, <1>5, <2>1, <2>2
<1>8. q = p
  BY <1>6, <1>7
<1>9. r = x
  BY <1>1, <1>5, <1>8
<1> QED
  BY <1>0, <1>2, <1>4, <1>8, <1>9 DEF PageOf, OffOf

\* An address, its page and its offset.
LEMMA AddrSplit ==
  ASSUME NEW a \in Addr
  PROVE  /\ a \in Nat /\ PageOf(a) \in Page /\ OffOf(a) \in Off
         /\ a = PageOf(a) * PageSize + OffOf(a)
         /\ PageOf(a) * PageSize <= a /\ a < PageOf(a) * PageSize + PageSize
<1>1. a \in Nat /\ PageOf(a) \in Page /\ OffOf(a) \in Off
  BY Sizes, PageOfType DEF Addr
<1>2. a = PageSize * PageOf(a) + OffOf(a)
  BY <1>1, Sizes, DivMod DEF PageOf, OffOf
<1>3. PageOf(a) * PageSize \in Nat /\ PageOf(a) * PageSize = PageSize * PageOf(a)
  BY <1>1, PageFits, Sizes
<1> QED
  BY <1>1, <1>2, <1>3, Sizes DEF Off

\* Every address of a segment is in a page the segment reaches into.
LEMMA PageOfMonotone ==
  ASSUME NEW a \in Addr, NEW b \in Addr, a <= b
  PROVE  PageOf(a) <= PageOf(b)
<1>1. /\ PageOf(a) \in Nat /\ PageOf(b) \in Nat
      /\ PageOf(a) * PageSize <= a /\ b < PageOf(b) * PageSize + PageSize
      /\ a \in Nat /\ b \in Nat
  BY AddrSplit, PageFits
<1>2. ASSUME PageOf(b) < PageOf(a) PROVE FALSE
  <2>1. (PageOf(b) + 1) * PageSize <= PageOf(a) * PageSize
    BY <1>1, <1>2, TimesMonotone
  <2>2. (PageOf(b) + 1) * PageSize = PageOf(b) * PageSize + PageSize
    BY <1>1, Sizes, SMTT(20)
  <2>3. PageOf(b) * PageSize \in Nat /\ PageOf(a) * PageSize \in Nat
    BY <1>1, TimesMonotone
  <2> QED
    BY <1>1, <2>1, <2>2, <2>3, Sizes
<1> QED
  BY <1>1, <1>2

\* The pages from it.next on that begin below it.limit.
Covers(it, p) == it.next <= p /\ p * PageSize < it.limit

LEMMA SegRange ==
  ASSUME NEW s \in Segment, NEW o \in Object, SegEnd(s) < W, NEW p \in Page
  PROVE  p \in PagesOf(s.off, SegEnd(s)) <=> Covers(SegItem(s, o), p)
<1>1. s.off \in Nat /\ s.len \in Nat /\ W \in Nat
  BY Sizes DEF Segment, Addr
<1>2. (s.off + s.len) % W = SegEnd(s)
  <2>1. PICK e \in Nat : e = s.off + s.len
    BY <1>1
  <2>2. e % W = e
    BY <1>1, <2>1, Sizes DEF SegEnd
  <2> QED
    BY <2>1, <2>2 DEF SegEnd
<1>3. PageOf(s.off) \in Nat /\ p \in Nat
  BY <1>1, Sizes, DivMod, PageFits DEF PageOf
<1> QED
  BY <1>2, <1>3 DEF PagesOf, Covers, SegItem

\* The last address is only left out of the limit, never a page: a page has
\* more than one byte.
LEMMA WrRange ==
  ASSUME NEW page \in Nat, NEW size \in Nat, NEW p \in Page
  PROVE  Covers(WrItem(page, size), p) <=> page <= p /\ p * PageSize < page * PageSize + size
<1>1. p * PageSize \in Nat /\ p * PageSize + PageSize <= W /\ PageSize > 1 /\ W \in Nat
      /\ PageSize \in Nat
  BY PageFits, Sizes, SizesAssumption
<1>2. page * PageSize + size \in Nat
  BY Sizes
<1>3. p * PageSize < W - 1
  BY <1>1
<1> QED
  BY <1>1, <1>2, <1>3 DEF Covers, WrItem, Least

LEMMA HeapRange ==
  ASSUME NEW s \in Segment, NEW o \in Object, s.len <= o.heap, NEW p \in Page
  PROVE  p \in PagesOf(AlignEnd(s.off) * PageSize, AlignEnd(s.off) * PageSize + o.heap - s.len)
           <=> Covers(HeapItem(s.off, s.len, o), p)
<1>1. s.off \in Nat /\ s.len \in Nat /\ o.heap \in Nat /\ o.heap < W /\ W \in Nat
  BY Sizes DEF Segment, Object, Addr
<1>2. (o.heap - s.len) % W = o.heap - s.len /\ o.heap - s.len \in Nat
  BY <1>1, Sizes
<1>3. AlignEnd(s.off) \in Nat
  <2>1. PageOf(s.off) \in Nat
    BY <1>1, Sizes, DivMod DEF PageOf
  <2>2. (PageOf(s.off) + 1) % (N1 * N2) \in Nat
    BY <2>1, Sizes, DivMod
  <2> QED
    BY <2>1, <2>2 DEF AlignEnd
<1>4. 0 \in Off
  BY Sizes DEF Off
<1>5. PageOf(AlignEnd(s.off) * PageSize) = AlignEnd(s.off)
  <2>1. AlignEnd(s.off) * PageSize + 0 = AlignEnd(s.off) * PageSize
    BY <1>3, Sizes
  <2> QED
    BY <1>3, <1>4, <2>1, PageOfTimes
<1>6. Covers(HeapItem(s.off, s.len, o), p) <=>
        AlignEnd(s.off) <= p
        /\ p * PageSize < AlignEnd(s.off) * PageSize + (o.heap - s.len)
  BY <1>2, <1>3, WrRange DEF HeapItem
<1>7. AlignEnd(s.off) * PageSize + (o.heap - s.len) = AlignEnd(s.off) * PageSize + o.heap - s.len
  BY <1>1, <1>3, Sizes
<1>8. p >= AlignEnd(s.off) <=> AlignEnd(s.off) <= p
  BY <1>3, PageFits
<1> QED
  BY <1>5, <1>6, <1>7, <1>8 DEF PagesOf

LEMMA StackRange ==
  ASSUME NEW o \in Object, NEW p \in Page
  PROVE  (o.stack > 0 /\ p \in PagesOf(W - o.stack, W)) <=> Covers(StackItem(o), p)
<1>1. o.stack \in Nat /\ o.stack < W /\ W \in Nat
  BY Sizes DEF Object, Addr
<1>2. p \in Nat /\ p * PageSize \in Nat /\ p * PageSize + PageSize <= W
      /\ PageSize > 1 /\ PageSize \in Nat
  BY PageFits, SizesAssumption
<1>3. CASE o.stack = 0
  <2>1. W - 1 \in Addr
    BY <1>1, Sizes DEF Addr
  <2>2. StackItem(o) = WrItem(PageOf(W - 1), 0)
    BY <1>1, <1>3 DEF StackItem
  <2>3. PageOf(W - 1) \in Nat
    BY <2>1, AddrSplit, PageFits
  <2>4. PICK g \in Nat : g = PageOf(W - 1)
    BY <2>3
  <2>5. Covers(StackItem(o), p) <=> g <= p /\ p * PageSize < g * PageSize + 0
    BY <2>2, <2>4, WrRange
  <2>6. ASSUME g <= p PROVE g * PageSize \in Nat /\ g * PageSize <= p * PageSize
    BY <1>2, <2>6, TimesMonotone
  <2> QED
    BY <1>2, <1>3, <2>5, <2>6
<1>4. CASE o.stack > 0
  <2>1. W - o.stack \in Addr
    BY <1>1, <1>4, Sizes DEF Addr
  <2>2. W - 1 - (IF o.stack = 0 THEN 0 ELSE o.stack - 1) = W - o.stack
    BY <1>1, <1>4
  <2>3. StackItem(o) = WrItem(PageOf(W - o.stack), o.stack)
    BY <2>2 DEF StackItem
  <2>4. PICK g \in Nat : g = PageOf(W - o.stack)
    BY <2>1, AddrSplit, PageFits
  <2>5. W - o.stack < g * PageSize + PageSize /\ g * PageSize \in Nat
    BY <2>1, <2>4, AddrSplit, TimesMonotone
  <2>6. p * PageSize < g * PageSize + o.stack
    BY <1>1, <1>2, <2>5
  <2>7. Covers(StackItem(o), p) <=> g <= p
    BY <1>1, <2>3, <2>4, <2>6, WrRange
  <2>8. p \in PagesOf(W - o.stack, W) <=> p >= g
    BY <1>1, <1>2, <2>4 DEF PagesOf
  <2> QED
    BY <1>2, <1>4, <2>7, <2>8
<1> QED
  BY <1>1, <1>3, <1>4

----------------------------------------------------------------------------
(* 7. Where the loader is *)

\* The segments taken from the object, and how many of them are done with.
Taken   == Len(obj.segs) - Len(todo)
Behind  == IF stage \in {"seg", "heap"} THEN Taken - 1 ELSE Taken
Current == obj.segs[Taken]

\* The range being mapped, as it was before its first page.
Began ==
  CASE stage = "seg"   -> SegItem(Current, obj)
    [] stage = "heap"  -> HeapItem(Current.off, Current.len, obj)
    [] stage = "stack" -> StackItem(obj)
    [] OTHER           -> NoItem

\* todo is the rest of the object, and item a position in the range that the
\* stage stands for.
Placed ==
  /\ stage # "overflow"
  /\ Len(todo) <= Len(obj.segs)
  /\ \A k \in 1 .. Len(todo) : todo[k] = obj.segs[Taken + k]
  /\ stage \in {"seg", "heap"} => Taken >= 1
  /\ stage = "heap" => Current.type = "heap"
  /\ stage \in {"stack", "run"} => todo = <<>>
  /\ item = [Began EXCEPT !.next = item.next]
  /\ item.next >= Began.next
  /\ item.next > Began.next => (item.next - 1) * PageSize < item.limit

LEMMA ObjectType == TypeOK => obj \in Object
BY ObjectsAssumption DEF TypeOK

LEMMA CurrentSegment ==
  ASSUME TypeOK, Placed
  PROVE  /\ Taken \in Nat /\ Taken <= Len(obj.segs) /\ Len(obj.segs) \in Nat
         /\ obj.segs \in Seq(Segment)
         /\ stage \in {"seg", "heap"} => Taken \in 1 .. Len(obj.segs) /\ Current \in Segment
<1>1. obj.segs \in Seq(Segment) /\ Len(todo) \in Nat
  BY ObjectType DEF Object, TypeOK
<1>2. Len(obj.segs) \in Nat /\ Len(todo) <= Len(obj.segs)
  BY <1>1 DEF Placed
<1>3. Taken \in Nat /\ Taken <= Len(obj.segs)
  BY <1>1, <1>2 DEF Taken
<1>4. stage \in {"seg", "heap"} => Taken \in 1 .. Len(obj.segs)
  BY <1>2, <1>3 DEF Placed
<1>5. \A k \in 1 .. Len(obj.segs) : obj.segs[k] \in Segment
  BY <1>1
<1> QED
  BY <1>1, <1>2, <1>3, <1>4, <1>5 DEF Current

LEMMA StageCases ==
  /\ stage = "seg"   => Began = SegItem(Current, obj)
  /\ stage = "heap"  => Began = HeapItem(Current.off, Current.len, obj)
  /\ stage = "stack" => Began = StackItem(obj)
  /\ stage \notin {"seg", "heap", "stack"} => Began = NoItem
BY DEF Began

LEMMA BeganType == ASSUME TypeOK, Placed PROVE Began \in Item
<1>1. stage \in {"seg", "heap"} => Current \in Segment
  BY CurrentSegment
<1>2. CASE stage = "seg"
  BY <1>1, <1>2, StageCases, ObjectType, SegItemType
<1>3. CASE stage = "heap"
  <2>1. Current.off \in Addr /\ Current.len \in Addr
    BY <1>1, <1>3 DEF Segment
  <2> QED
    BY <1>3, <2>1, StageCases, ObjectType, HeapItemType
<1>4. CASE stage = "stack"
  BY <1>4, StageCases, ObjectType, StackItemType
<1>5. CASE stage \notin {"seg", "heap", "stack"}
  BY <1>5, StageCases, NoItemType
<1> QED
  BY <1>2, <1>3, <1>4, <1>5

\* Only the position in the range has changed since.
LEMMA SameRange ==
  ASSUME TypeOK, Placed
  PROVE  /\ item.perm = Began.perm /\ item.limit = Began.limit /\ item.tag = Began.tag
         /\ item.off = Began.off /\ item.len = Began.len
         /\ item.next \in Nat /\ Began.next \in Nat /\ item.limit \in Nat
<1>1. Began \in Item /\ item \in Item
  BY BeganType DEF TypeOK
<1>2. item = [Began EXCEPT !.next = item.next]
  BY DEF Placed
<1> QED
  BY <1>1, <1>2, Sizes DEF Item, Addr

\* When the loop ends, it has been over all pages of its range.
LEMMA RangeDone ==
  ASSUME TypeOK, Placed, ~(item.next * PageSize < item.limit), NEW p \in Page
  PROVE  Began.next <= p /\ p < item.next <=> Covers(Began, p)
<1>1. /\ item.next \in Nat /\ Began.next \in Nat /\ item.limit \in Nat
      /\ item.limit = Began.limit
  BY SameRange
<1>2. p \in Nat /\ p * PageSize \in Nat
  BY PageFits
<1>3. ASSUME p < item.next, Began.next <= p PROVE p * PageSize < item.limit
  <2>1. item.next > Began.next
    BY <1>1, <1>2, <1>3
  <2>2. (item.next - 1) * PageSize < item.limit
    BY <2>1 DEF Placed
  <2>3. PICK m \in Nat : m = item.next - 1
    BY <1>1, <2>1
  <2>4. m * PageSize \in Nat /\ p * PageSize <= m * PageSize
    BY <1>1, <1>2, <1>3, <2>3, TimesMonotone
  <2> QED
    BY <1>1, <1>2, <2>2, <2>3, <2>4
<1>4. ASSUME ~(p < item.next) PROVE ~(p * PageSize < item.limit)
  <2>1. item.next * PageSize \in Nat /\ item.next * PageSize <= p * PageSize
    BY <1>1, <1>2, <1>4, TimesMonotone
  <2> QED
    BY <1>1, <1>2, <2>1
<1> QED
  BY <1>1, <1>3, <1>4 DEF Covers

\* A well-formed object never makes the arithmetic of the loader wrap.
LEMMA WellFormedSegment ==
  ASSUME WellFormed(obj), NEW k \in 1 .. Len(obj.segs)
  PROVE  /\ SegEnd(obj.segs[k]) < W
         /\ obj.segs[k].type = "heap" =>
              obj.segs[k].off + PageSize < W /\ obj.segs[k].len <= obj.heap
         /\ \A m \in (1 .. Len(obj.segs)) \ {k} :
              SegEnd(obj.segs[k]) <= obj.segs[m].off \/ SegEnd(obj.segs[m]) <= obj.segs[k].off
BY DEF WellFormed

LEMMA InitPlaced == Init => Placed
<1> SUFFICES ASSUME Init PROVE Placed
  OBVIOUS
<1>1. obj.segs \in Seq(Segment) /\ todo = obj.segs
  BY ObjectsAssumption DEF Init, Object
<1>2. Len(obj.segs) \in Nat
  BY <1>1
<1>3. Taken = 0
  BY <1>1, <1>2 DEF Taken
<1>4. Began = NoItem
  BY StageCases DEF Init
<1>5. item = [Began EXCEPT !.next = item.next] /\ item.next = Began.next /\ item.next = 0
  BY <1>4 DEF Init, NoItem
<1> QED
  BY <1>1, <1>2, <1>3, <1>5 DEF Init, Placed

LEMMA LoadSegmentPlaced ==
  ASSUME TypeOK, WellFormed(obj), Placed, LoadSegment
  PROVE  Placed' /\ Taken' = Taken + 1 /\ stage' = "seg" /\ item' = Began'
         /\ Current' \in Segment /\ Taken + 1 \in 1 .. Len(obj.segs)
<1>1. /\ obj.segs \in Seq(Segment) /\ Taken \in Nat /\ Len(obj.segs) \in Nat
      /\ todo \in Seq(Segment) /\ todo # <<>>
  BY CurrentSegment DEF TypeOK, LoadSegment
<1>2. /\ obj' = obj /\ todo' = Tail(todo) /\ item' = SegItem(Head(todo), obj)
      /\ stage' = IF OverflowChecks /\ SegOverflows(Head(todo)) THEN "overflow" ELSE "seg"
  BY DEF LoadSegment
<1>3. /\ Len(todo) \in Nat /\ Len(todo) >= 1 /\ Len(todo') = Len(todo) - 1 /\ Head(todo) = todo[1]
      /\ \A k \in 1 .. Len(todo') : todo'[k] = todo[k + 1]
  BY <1>1, <1>2
<1>4. Taken' = Taken + 1 /\ Len(todo) <= Len(obj.segs) /\ Taken + 1 \in 1 .. Len(obj.segs)
  BY <1>1, <1>2, <1>3 DEF Taken, Placed
<1>5. Head(todo) = obj.segs[Taken + 1]
  BY <1>1, <1>3 DEF Placed
<1>6. Current' = Head(todo) /\ Current' \in Segment
  BY <1>1, <1>2, <1>4, <1>5 DEF Current
<1>7. ~SegOverflows(Head(todo))
  <2>1. SegEnd(obj.segs[Taken + 1]) < W
    BY <1>4, WellFormedSegment
  <2>2. Head(todo).off \in Nat /\ Head(todo).len \in Nat
    BY <1>6, Sizes DEF Segment, Addr
  <2> QED
    BY <1>5, <2>1, <2>2, Sizes DEF SegOverflows, SegEnd
<1>8. stage' = "seg"
  BY <1>2, <1>7
<1>9. Began' = SegItem(Current', obj)
  BY <1>2, <1>8 DEF Began
<1>10. item' = Began' /\ item' \in Item
  BY <1>2, <1>6, <1>9, ObjectType, SegItemType
<1>11. /\ item' = [Began' EXCEPT !.next = item'.next]
       /\ item'.next \in Nat /\ item'.next >= Began'.next /\ ~(item'.next > Began'.next)
  BY <1>10 DEF Item
<1>12. ASSUME NEW k \in 1 .. Len(todo') PROVE todo'[k] = obj'.segs[Taken' + k]
  <2>1. PICK m \in 1 .. Len(todo) : m = k + 1
    BY <1>3
  <2>2. todo'[k] = todo[m]
    BY <1>3, <2>1
  <2>3. todo[m] = obj.segs[Taken + m]
    BY DEF Placed
  <2>4. Taken + m = Taken' + k
    BY <1>1, <1>3, <1>4, <2>1
  <2> QED
    BY <1>2, <2>2, <2>3, <2>4
<1> QED
  BY <1>1, <1>2, <1>3, <1>4, <1>6, <1>8, <1>10, <1>11, <1>12 DEF Placed

\* The other steps take no segment.
LEMMA StaysPlaced ==
  ASSUME TypeOK, Placed, obj' = obj, todo' = todo, item' \in Item, stage' # "overflow",
         stage' \in {"seg", "heap"} => stage \in {"seg", "heap"},
         stage' = "heap" => Current.type = "heap",
         stage' \in {"stack", "run"} => todo = <<>>,
         item' = [Began' EXCEPT !.next = item'.next], item'.next >= Began'.next,
         item'.next > Began'.next => (item'.next - 1) * PageSize < item'.limit
  PROVE  Placed' /\ Taken' = Taken /\ Current' = Current
<1>1. Taken' = Taken /\ Current' = Current
  BY DEF Taken, Current
<1> QED
  BY <1>1 DEF Placed

LEMMA MapPagePlaced ==
  ASSUME TypeOK, Placed, MapPage
  PROVE  Placed' /\ Taken' = Taken /\ Current' = Current /\ Began' = Began
         /\ item'.next = item.next + 1 /\ item'.perm = item.perm
<1>1. /\ obj' = obj /\ todo' = todo /\ stage' = stage /\ item' = Advance(item)
      /\ stage \in {"seg", "heap", "stack"} /\ item.next * PageSize < item.limit
  BY DEF MapPage, Looping
<1>2. Began' = Began
  BY <1>1 DEF Began, Current, Taken
<1>3. item \in Item /\ Began \in Item
  BY BeganType DEF TypeOK
<1>4. /\ item' \in Item /\ item'.next = item.next + 1 /\ item'.limit = item.limit
      /\ item'.perm = item.perm /\ item.next \in Nat /\ Began.next \in Nat
  BY <1>1, <1>3 DEF Advance, Item
<1>5. item' = [Began' EXCEPT !.next = item'.next]
  <2>1. item = [Began EXCEPT !.next = item.next]
    BY DEF Placed
  <2> QED
    BY <1>1, <1>2, <1>3, <2>1 DEF Advance, Item
<1>6. item'.next >= Began'.next
  BY <1>2, <1>4 DEF Placed
<1>7. (item'.next - 1) * PageSize < item'.limit
  <2>1. item'.next - 1 = item.next
    BY <1>4
  <2> QED
    BY <1>1, <1>4, <2>1
<1> QED
  BY <1>1, <1>2, <1>4, <1>5, <1>6, <1>7, StaysPlaced DEF Placed

LEMMA EndSegmentPlaced ==
  ASSUME TypeOK, WellFormed(obj), Placed, EndSegment
  PROVE  Placed' /\ Taken' = Taken /\ Current' = Current /\ item' = Began'
         /\ \/ Current.type # "heap" /\ stage' = "next"
            \/ Current.type = "heap" /\ stage' = "heap"
<1>1. obj' = obj /\ todo' = todo /\ stage = "seg"
  BY DEF EndSegment
<1>2. /\ Current \in Segment /\ Taken \in 1 .. Len(obj.segs)
      /\ Taken' = Taken /\ Current' = Current
  BY <1>1, CurrentSegment DEF Taken, Current
<1>3. item.tag = Current.type /\ item.off = Current.off /\ item.len = Current.len
  BY <1>1, SameRange, StageCases DEF SegItem
<1>4. CASE item.tag # "heap"
  <2>1. stage' = "next" /\ item' = NoItem
    BY <1>4 DEF EndSegment
  <2>2. Began' = NoItem
    BY <2>1 DEF Began
  <2>3. item' \in Item /\ item' = [Began' EXCEPT !.next = item'.next] /\ item'.next = 0
        /\ item'.next = Began'.next
    BY <2>1, <2>2, NoItemType DEF NoItem
  <2> QED
    BY <1>1, <1>2, <1>3, <1>4, <2>1, <2>2, <2>3, StaysPlaced
<1>5. CASE item.tag = "heap"
  <2>1. item' = HeapItem(Current.off, Current.len, obj)
    BY <1>3, <1>5 DEF EndSegment
  <2>2. ~HeapOverflows(item.off, item.len, obj)
    <3>1. /\ obj.segs[Taken].off + PageSize < W /\ obj.segs[Taken].len <= obj.heap
      BY <1>2, <1>3, <1>5, WellFormedSegment DEF Current
    <3>2. Current.off \in Nat /\ Current.len \in Nat /\ obj.heap \in Nat
      BY <1>2, ObjectType, Sizes DEF Segment, Object, Addr
    <3> QED
      BY <1>3, <3>1, <3>2, Sizes DEF HeapOverflows, Current
  <2>3. stage' = "heap"
    BY <1>5, <2>2 DEF EndSegment
  <2>4. Began' = HeapItem(Current.off, Current.len, obj)
    BY <1>1, <1>2, <2>3 DEF Began
  <2>5. item' \in Item
    BY <1>2, <2>1, ObjectType, HeapItemType DEF Segment
  <2>6. item' = [Began' EXCEPT !.next = item'.next] /\ item'.next \in Nat
        /\ item'.next = Began'.next
    BY <2>1, <2>4, <2>5 DEF Item
  <2> QED
    BY <1>1, <1>2, <1>3, <1>5, <2>1, <2>3, <2>4, <2>5, <2>6, StaysPlaced
<1> QED
  BY <1>4, <1>5

LEMMA EndHeapPlaced ==
  ASSUME TypeOK, Placed, EndHeap
  PROVE  Placed' /\ Taken' = Taken /\ Current' = Current /\ item' = Began'
<1>1. stage' = "next" /\ item' = NoItem /\ obj' = obj /\ todo' = todo
  BY DEF EndHeap
<1>2. Began' = NoItem
  BY <1>1 DEF Began
<1>3. item' \in Item /\ item' = [Began' EXCEPT !.next = item'.next] /\ item'.next = 0
      /\ item'.next = Began'.next
  BY <1>1, <1>2, NoItemType DEF NoItem
<1> QED
  BY <1>1, <1>2, <1>3, StaysPlaced

LEMMA LoadStackPlaced ==
  ASSUME TypeOK, Placed, LoadStack
  PROVE  Placed' /\ Taken' = Taken /\ item' = Began'
<1>1. /\ stage' = "stack" /\ item' = StackItem(obj) /\ obj' = obj /\ todo' = todo
      /\ todo = <<>>
  BY DEF LoadStack
<1>2. Began' = StackItem(obj)
  BY <1>1 DEF Began
<1>3. item' \in Item /\ item' = [Began' EXCEPT !.next = item'.next] /\ item'.next \in Nat
      /\ item'.next = Began'.next
  BY <1>1, <1>2, ObjectType, StackItemType DEF Item
<1> QED
  BY <1>1, <1>2, <1>3, StaysPlaced

LEMMA StartUserPlaced ==
  ASSUME TypeOK, Placed, StartUser
  PROVE  Placed'
<1>1. /\ stage' = "run" /\ item' = NoItem /\ obj' = obj /\ todo' = todo /\ stage = "stack"
  BY DEF StartUser
<1>2. Began' = NoItem /\ todo = <<>>
  BY <1>1 DEF Began, Placed
<1>3. item' \in Item /\ item' = [Began' EXCEPT !.next = item'.next] /\ item'.next = 0
      /\ item'.next = Began'.next
  BY <1>1, <1>2, NoItemType DEF NoItem
<1> QED
  BY <1>1, <1>2, <1>3, StaysPlaced

LEMMA UserPlaced ==
  ASSUME Placed, UNCHANGED <<obj, stage, todo, item>>
  PROVE  Placed' /\ Taken' = Taken /\ Current' = Current /\ Began' = Began /\ Behind' = Behind
<1>1. Taken' = Taken /\ Current' = Current /\ Began' = Began /\ Behind' = Behind
  BY DEF Taken, Current, Began, Behind
<1> QED
  BY <1>1 DEF Placed

----------------------------------------------------------------------------
(* 8. The permissions given so far *)

Rwx == {"R", "W", "X"}

Rights(p) == IF PageMapped(p) THEN Leaf(p).flags \cap Rwx ELSE {}

\* What a segment, the heap behind it and the stack ask for page p.
SegAsks(o, s, p) ==
  IF p \in PagesOf(s.off, SegEnd(s)) THEN SegPerm(s.type, o.rtext) ELSE {}

HeapAsks(o, s, p) ==
  IF /\ s.type = "heap"
     /\ p \in PagesOf(AlignEnd(s.off) * PageSize, AlignEnd(s.off) * PageSize + o.heap - s.len)
  THEN {"R", "W"} ELSE {}

StackAsks(o, p) ==
  IF o.stack > 0 /\ p \in PagesOf(W - o.stack, W) THEN {"R", "W"} ELSE {}

\* What the first n segments ask for page p.
AskedBy(o, n, p) ==
  UNION {SegAsks(o, o.segs[k], p) \cup HeapAsks(o, o.segs[k], p) : k \in 1 .. n}

\* What the range being mapped has asked for page p.
InProgress(p) == IF Began.next <= p /\ p < item.next THEN item.perm \cap Rwx ELSE {}

AskedSoFar(p) ==
  AskedBy(obj, Behind, p) \cup (IF stage = "heap" THEN SegAsks(obj, Current, p) ELSE {})
                          \cup InProgress(p)

\* While a program is loaded, both levels grant what has been asked for; an
\* entry that is not present has no flags left that could show up later.
RightsKept ==
  /\ stage # "run" =>
       /\ \A p \in Page : Rights(p) = AskedSoFar(p)
       /\ \A p \in Page : PageMapped(p) => Leaf(p).flags \subseteq l1[Vpn1(p)].flags
       /\ \A f \in Frame, j \in L2 : ~Present(tab[f][j]) => tab[f][j].flags = {}
  /\ stage = "run" => \A p \in Page : Rights(p) = Asked(obj, p)

LEMMA AskedByNext ==
  ASSUME NEW o, NEW n \in Nat, NEW m, m = n + 1, NEW p
  PROVE  AskedBy(o, m, p) = AskedBy(o, n, p) \cup SegAsks(o, o.segs[m], p)
                                             \cup HeapAsks(o, o.segs[m], p)
<1>1. 1 .. m = (1 .. n) \cup {m}
  OBVIOUS
<1>2. ASSUME NEW x
      PROVE  x \in AskedBy(o, m, p) <=>
               \/ x \in AskedBy(o, n, p)
               \/ x \in SegAsks(o, o.segs[m], p) \/ x \in HeapAsks(o, o.segs[m], p)
  <2>1. x \in AskedBy(o, m, p) <=>
          \E k \in 1 .. m : x \in SegAsks(o, o.segs[k], p) \/ x \in HeapAsks(o, o.segs[k], p)
    BY SMT DEF AskedBy
  <2>2. x \in AskedBy(o, n, p) <=>
          \E k \in 1 .. n : x \in SegAsks(o, o.segs[k], p) \/ x \in HeapAsks(o, o.segs[k], p)
    BY SMT DEF AskedBy
  <2> QED
    BY <1>1, <2>1, <2>2, Zenon
<1> QED
  BY <1>2, Zenon

\* The segments, the heaps and the stack are all that an object asks for.
LEMMA AskedAll ==
  ASSUME NEW o \in Object, NEW p \in Page
  PROVE  Asked(o, p) = AskedBy(o, Len(o.segs), p) \cup StackAsks(o, p)
<1> DEFINE segs  == {o.segs[k] : k \in DOMAIN o.segs}
           Heap(s) == s.type = "heap" /\
                        p \in PagesOf(AlignEnd(s.off) * PageSize,
                                      AlignEnd(s.off) * PageSize + o.heap - s.len)
           heaps == {s \in segs : Heap(s)}
           Stack == o.stack > 0 /\ p \in PagesOf(W - o.stack, W)
           Seg(s) == p \in PagesOf(s.off, SegEnd(s))
<1>1. DOMAIN o.segs = 1 .. Len(o.segs)
  BY DEF Object
<1>2. Asked(o, p) = (UNION {SegPerm(s.type, o.rtext) : s \in {t \in segs : Seg(t)}})
                      \cup (IF heaps # {} \/ Stack THEN {"R", "W"} ELSE {})
  BY DEF Asked
<1>3. /\ \A s : SegAsks(o, s, p) = IF Seg(s) THEN SegPerm(s.type, o.rtext) ELSE {}
      /\ \A s : HeapAsks(o, s, p) = IF Heap(s) THEN {"R", "W"} ELSE {}
      /\ StackAsks(o, p) = IF Stack THEN {"R", "W"} ELSE {}
  BY DEF SegAsks, HeapAsks, StackAsks
<1> HIDE DEF Heap, Seg, Stack
<1>4. UNION {SegPerm(s.type, o.rtext) : s \in {t \in segs : Seg(t)}}
        = UNION {SegAsks(o, o.segs[k], p) : k \in DOMAIN o.segs}
  BY <1>3, Zenon
<1>5. (IF heaps # {} THEN {"R", "W"} ELSE {}) = UNION {HeapAsks(o, o.segs[k], p) : k \in DOMAIN o.segs}
  <2>1. CASE heaps = {}
    <3>1. \A k \in DOMAIN o.segs : ~Heap(o.segs[k])
      BY <2>1, Zenon
    <3> QED
      BY <2>1, <3>1, <1>3, Zenon
  <2>2. CASE heaps # {}
    <3>1. PICK k \in DOMAIN o.segs : Heap(o.segs[k])
      BY <2>2, Zenon
    <3>2. HeapAsks(o, o.segs[k], p) = {"R", "W"}
      BY <3>1, <1>3, Zenon
    <3>3. \A m : HeapAsks(o, o.segs[m], p) \subseteq {"R", "W"}
      BY <1>3, Zenon
    <3> HIDE DEF heaps
    <3> QED
      BY <2>2, <3>2, <3>3, Zenon
  <2> QED
    BY <2>1, <2>2, Zenon
<1>6. AskedBy(o, Len(o.segs), p) = (UNION {SegAsks(o, o.segs[k], p) : k \in DOMAIN o.segs})
                             \cup (UNION {HeapAsks(o, o.segs[k], p) : k \in DOMAIN o.segs})
  <2>1. \A x : x \in AskedBy(o, Len(o.segs), p) <=>
                 \E k \in DOMAIN o.segs : \/ x \in SegAsks(o, o.segs[k], p)
                                          \/ x \in HeapAsks(o, o.segs[k], p)
    BY <1>1, SMT DEF AskedBy
  <2>2. \A x : x \in (UNION {SegAsks(o, o.segs[k], p) : k \in DOMAIN o.segs}) <=>
                 \E k \in DOMAIN o.segs : x \in SegAsks(o, o.segs[k], p)
    BY SMT
  <2>3. \A x : x \in (UNION {HeapAsks(o, o.segs[k], p) : k \in DOMAIN o.segs}) <=>
                 \E k \in DOMAIN o.segs : x \in HeapAsks(o, o.segs[k], p)
    BY SMT
  <2> QED
    BY <2>1, <2>2, <2>3, Zenon
<1> HIDE DEF heaps, segs
<1> QED
  BY <1>2, <1>3, <1>4, <1>5, <1>6

LEMMA SegPermIsRwx ==
  ASSUME NEW type \in SegType, NEW rtext \in BOOLEAN
  PROVE  SegPerm(type, rtext) \subseteq Rwx /\ SegPerm(type, rtext) # {}
BY DEF SegPerm, SegType, Rwx

\* The range of each stage stands for what has been asked: nothing before its
\* first page, everything after its last.
LEMMA NothingYet ==
  ASSUME NEW p \in Page, NEW n \in Nat, Began.next = n, item.next = n
  PROVE  InProgress(p) = {}
BY PageFits DEF InProgress

LEMMA SegDone ==
  ASSUME TypeOK, WellFormed(obj), Placed, stage = "seg",
         ~(item.next * PageSize < item.limit), NEW p \in Page
  PROVE  InProgress(p) = SegAsks(obj, Current, p)
<1>1. Current \in Segment /\ Taken \in 1 .. Len(obj.segs) /\ obj \in Object
  BY CurrentSegment, ObjectType
<1>2. Began = SegItem(Current, obj)
  BY StageCases
<1>3. SegEnd(Current) < W
  BY <1>1, WellFormedSegment DEF Current
<1>4. Began.next <= p /\ p < item.next <=> p \in PagesOf(Current.off, SegEnd(Current))
  BY <1>1, <1>2, <1>3, RangeDone, SegRange
<1>5. item.perm = SegPerm(Current.type, obj.rtext) \cup {"U", "P"}
  BY <1>2, SameRange DEF SegItem
<1>6. SegPerm(Current.type, obj.rtext) \subseteq Rwx
  BY <1>1, SegPermIsRwx DEF Segment, Object
<1>7. item.perm \cap Rwx = SegPerm(Current.type, obj.rtext)
  BY <1>5, <1>6 DEF Rwx
<1> QED
  BY <1>4, <1>7 DEF InProgress, SegAsks

LEMMA HeapDone ==
  ASSUME TypeOK, WellFormed(obj), Placed, stage = "heap",
         ~(item.next * PageSize < item.limit), NEW p \in Page
  PROVE  InProgress(p) = HeapAsks(obj, Current, p)
<1>1. Current \in Segment /\ Taken \in 1 .. Len(obj.segs) /\ obj \in Object
      /\ Current.type = "heap"
  BY CurrentSegment, ObjectType DEF Placed
<1>2. Began = HeapItem(Current.off, Current.len, obj)
  BY StageCases
<1>3. Current.len <= obj.heap
  BY <1>1, WellFormedSegment DEF Current
<1>4. Began.next <= p /\ p < item.next <=>
        p \in PagesOf(AlignEnd(Current.off) * PageSize,
                      AlignEnd(Current.off) * PageSize + obj.heap - Current.len)
  BY <1>1, <1>2, <1>3, RangeDone, HeapRange
<1>5. item.perm \cap Rwx = {"R", "W"}
  BY <1>2, SameRange DEF HeapItem, WrItem, Rwx
<1> QED
  BY <1>1, <1>4, <1>5 DEF InProgress, HeapAsks

LEMMA StackDone ==
  ASSUME TypeOK, Placed, stage = "stack",
         ~(item.next * PageSize < item.limit), NEW p \in Page
  PROVE  InProgress(p) = StackAsks(obj, p)
<1>1. obj \in Object /\ Began = StackItem(obj)
  BY ObjectType, StageCases
<1>2. Began.next <= p /\ p < item.next <=> obj.stack > 0 /\ p \in PagesOf(W - obj.stack, W)
  BY <1>1, RangeDone, StackRange
<1>3. item.perm \cap Rwx = {"R", "W"}
  BY <1>1, SameRange DEF StackItem, WrItem, Rwx
<1> QED
  BY <1>2, <1>3 DEF InProgress, StackAsks

\* A page is mapped if its entries say so, before a step and after it.
LEMMA MappedAfter ==
  ASSUME NEW p \in Page
  PROVE  PageMapped(p)' <=> <<Vpn1(p), Vpn2(p)>> \in Leaves'
BY VpnType DEF PageMapped, Leaves, Tables, Leaf, Present

\* What MmapBuilder::map does to page q, and to no other: the page is mapped,
\* its flags and those of the entry above it are added to; a page that was not
\* mapped gets a frame nobody has used.
LEMMA MapPages ==
  ASSUME TypeOK, NoAlias, FramesTaken, RightsKept, MapPage, NEW q \in Page, q = item.next,
         NEW f, f = PageFor(Vpn1(q), Vpn2(q))
  PROVE  /\ f \in Frame /\ Leaf(q)'.ppn = f
         /\ IF PageMapped(q) THEN f = Leaf(q).ppn ELSE f \in bumper .. MaxFrame /\ f < bumper'
         /\ bumper' >= bumper
         /\ PageMapped(q)'
         /\ Leaf(q)'.flags = (IF PageMapped(q) THEN Leaf(q).flags ELSE {}) \cup item.perm
         /\ \A p \in Page \ {q} :
              /\ PageMapped(p)' <=> PageMapped(p)
              /\ PageMapped(p) => Leaf(p)' = Leaf(p) /\ Leaf(p).ppn # f
         /\ \A k \in L1 : l1[k].flags \subseteq l1'[k].flags
         /\ item.perm \subseteq l1'[Vpn1(q)].flags
         /\ \A g \in Frame, m \in L2 : ~Present(tab'[g][m]) => tab'[g][m].flags = {}
<1>1. Vpn1(q) \in L1 /\ Vpn2(q) \in L2
  BY VpnType
<1>2. PICK i \in L1, j \in L2, t \in {TableFor(k) : k \in L1} : i = Vpn1(q) /\ j = Vpn2(q) /\ t = TableFor(i)
  BY <1>1
<1>3. /\ t \in Frame /\ f \in Frame
      /\ \A k \in Tables : l1'[k].ppn = l1[k].ppn
      /\ l1'[i].ppn = t /\ LeafFrame(<<i, j>>)' = f
      /\ \/ i \in Tables /\ AfterTable(i) = bumper
         \/ i \notin Tables /\ t = bumper /\ AfterTable(i) = bumper + 1
      /\ \/ i \in Tables /\ <<i, j>> \in Leaves /\ bumper' = bumper
         \/ <<i, j>> \notin Leaves /\ f = AfterTable(i) /\ bumper' = f + 1
  <2>1. /\ t \in Frame /\ f \in Frame
        /\ Tables' \subseteq Tables \cup {i}
        /\ Leaves' \subseteq Leaves \cup {<<i, j>>}
        /\ \A k \in Tables : l1'[k].ppn = l1[k].ppn
        /\ \A r \in Leaves : LeafFrame(r)' = LeafFrame(r)
        /\ l1'[i].ppn = t /\ LeafFrame(<<i, j>>)' = f
        /\ \/ i \in Tables /\ AfterTable(i) = bumper
           \/ i \notin Tables /\ t = bumper /\ AfterTable(i) = bumper + 1
        /\ \/ i \in Tables /\ <<i, j>> \in Leaves /\ bumper' = bumper
           \/ <<i, j>> \notin Leaves /\ f = AfterTable(i) /\ bumper' = f + 1
        /\ \A g \in bumper' .. MaxFrame, m \in L2 : tab'[g][m] = NoEntry
    BY <1>2, MapEffect
  <2> QED
    BY <2>1
<1>4. Tables' = Tables \cup {i} /\ Leaves' = Leaves \cup {<<i, j>>}
  BY <1>2, MapTakes
<1>5. /\ l1' = [l1 EXCEPT ![i] = AddFlags(@, t)]
      /\ tab' = [tab EXCEPT ![t] = [@ EXCEPT ![j] = AddFlags(tab[t][j], f)]]
      /\ "P" \in item.perm
      /\ stage # "run"
  BY <1>2 DEF MapPage, Looping, FramesTaken
<1>6. /\ l1 \in [L1 -> Entry] /\ tab \in [Frame -> [L2 -> Entry]]
      /\ bumper \in Nat /\ MaxFrame \in Nat
  BY Sizes DEF TypeOK
<1>7. /\ l1'[i].flags = l1[i].flags \cup item.perm
      /\ \A k \in L1 \ {i} : l1'[k] = l1[k]
  BY <1>5, <1>6 DEF AddFlags
<1>8. /\ tab'[t][j] = AddFlags(tab[t][j], f)
      /\ \A g \in Frame, m \in L2 : g # t \/ m # j => tab'[g][m] = tab[g][m]
  BY <1>3, <1>5, <1>6
<1>9. PageMapped(q) <=> <<i, j>> \in Leaves
  BY <1>2, MappedIsLeaf
\* The page itself.
<1>10. Leaf(q)' = tab'[t][j]
  BY <1>2, <1>3 DEF Leaf
<1>11. Leaf(q)'.ppn = f /\ Leaf(q)'.flags = tab[t][j].flags \cup item.perm
  BY <1>8, <1>10 DEF AddFlags
<1>12. PageMapped(q) => Leaf(q) = tab[t][j] /\ f = Leaf(q).ppn
  <2>1. ASSUME PageMapped(q) PROVE Present(l1[i]) /\ LeafPresent(i, j)
    <3>1. Present(l1[i]) /\ Present(tab[l1[i].ppn][j])
      BY <1>2, <2>1 DEF PageMapped, Leaf
    <3> QED
      BY <3>1, <1>2, <1>3 DEF LeafPresent, TableFor
  <2>2. ASSUME PageMapped(q) PROVE t = l1[i].ppn /\ f = tab[t][j].ppn
    BY <1>2, <2>1, <2>2 DEF TableFor, PageFor
  <2> QED
    BY <1>2, <2>2 DEF Leaf
<1>13. ~PageMapped(q) => tab[t][j].flags = {}
  <2>1. CASE i \in Tables /\ ~PageMapped(q)
    <3>1. t = l1[i].ppn
      BY <1>3, <2>1
    <3>2. ~Present(tab[t][j])
      BY <1>2, <2>1, <3>1 DEF PageMapped, Leaf, Tables
    <3> QED
      BY <1>3, <1>5, <3>2 DEF RightsKept
  <2>2. CASE i \notin Tables
    <3>1. t \in bumper .. MaxFrame
      BY <1>3, <1>6, <2>2 DEF Frame
    <3> QED
      BY <3>1 DEF NoAlias, NoEntry
  <2> QED
    BY <2>1, <2>2
<1>14. IF PageMapped(q) THEN f = Leaf(q).ppn ELSE f \in bumper .. MaxFrame /\ f < bumper'
  <2>1. CASE PageMapped(q)
    BY <2>1, <1>12
  <2>2. CASE ~PageMapped(q)
    <3>1. f \in Nat /\ f >= bumper /\ bumper' = f + 1 /\ f <= MaxFrame
      BY <1>3, <1>6, <1>9, <2>2 DEF Frame
    <3> QED
      BY <3>1, <2>2, <1>6
  <2> QED
    BY <2>1, <2>2
<1>15. bumper' >= bumper
  BY <1>3, <1>6
<1>16. PageMapped(q)'
  BY <1>2, <1>4, MappedAfter
\* The others.
<1>17. ASSUME NEW p \in Page \ {q}
       PROVE  /\ PageMapped(p)' <=> PageMapped(p)
              /\ PageMapped(p) => Leaf(p)' = Leaf(p) /\ Leaf(p).ppn # f
  <2>1. <<Vpn1(p), Vpn2(p)>> # <<i, j>> /\ Vpn1(p) \in L1 /\ Vpn2(p) \in L2
    BY <1>2, PageUnique, VpnType
  <2>2. PageMapped(p)' <=> PageMapped(p)
    BY <1>4, <2>1, MappedAfter, MappedIsLeaf
  <2>3. ASSUME PageMapped(p) PROVE Leaf(p)' = Leaf(p) /\ Leaf(p).ppn # f
    <3>1. <<Vpn1(p), Vpn2(p)>> \in Leaves /\ Leaf(p).ppn = LeafFrame(<<Vpn1(p), Vpn2(p)>>)
          /\ Vpn1(p) \in Tables
      BY <2>1, <2>3, MappedIsLeaf DEF Leaves
    <3>2. PICK g \in Frame : g = l1[Vpn1(p)].ppn
      BY <1>6, <2>1 DEF Entry
    <3>3. l1'[Vpn1(p)].ppn = g
      BY <1>3, <3>1, <3>2
    <3>4. g # t \/ Vpn2(p) # j
      <4>1. CASE i \in Tables
        <5>1. t = l1[i].ppn
          BY <1>3, <4>1
        <5> QED
          BY <2>1, <3>1, <3>2, <4>1, <5>1 DEF NoAlias
      <4>2. CASE i \notin Tables
        <5>1. g \in 1 .. bumper - 1 /\ t = bumper
          BY <1>3, <3>1, <3>2, <4>2 DEF NoAlias
        <5> QED
          BY <1>6, <5>1
      <4> QED
        BY <4>1, <4>2
    <3>5. Leaf(p)' = Leaf(p)
      BY <1>8, <2>1, <3>2, <3>3, <3>4 DEF Leaf
    <3>6. Leaf(p).ppn # f
      <4>1. CASE <<i, j>> \in Leaves
        <5>1. f = LeafFrame(<<i, j>>)
          BY <1>2, <1>9, <1>12, <4>1, MappedIsLeaf
        <5> QED
          BY <2>1, <3>1, <4>1, <5>1 DEF NoAlias
      <4>2. CASE <<i, j>> \notin Leaves
        <5>1. f \in Nat /\ f >= bumper
          BY <1>3, <1>6, <4>2
        <5>2. Leaf(p).ppn \in 1 .. bumper - 1
          BY <3>1 DEF NoAlias
        <5> QED
          BY <1>6, <5>1, <5>2
      <4> QED
        BY <4>1, <4>2
    <3> QED
      BY <3>5, <3>6
  <2> QED
    BY <2>2, <2>3
<1>18. \A k \in L1 : l1[k].flags \subseteq l1'[k].flags
  BY <1>7
<1>19. item.perm \subseteq l1'[Vpn1(q)].flags
  BY <1>2, <1>7
<1>20. ASSUME NEW g \in Frame, NEW m \in L2, ~Present(tab'[g][m])
       PROVE  tab'[g][m].flags = {}
  <2>1. Present(tab'[t][j])
    BY <1>5, <1>8 DEF Present, AddFlags
  <2>2. tab'[g][m] = tab[g][m]
    BY <1>8, <1>20, <2>1
  <2> QED
    BY <1>5, <1>20, <2>2 DEF RightsKept, Present
<1>21. Leaf(q)'.flags = (IF PageMapped(q) THEN Leaf(q).flags ELSE {}) \cup item.perm
  BY <1>11, <1>12, <1>13
<1> QED
  BY <1>3, <1>11, <1>14, <1>15, <1>16, <1>17, <1>18, <1>19, <1>20, <1>21

LEMMA MapPageAsks ==
  ASSUME TypeOK, Placed, MapPage, NEW q \in Page, q = item.next, NEW p \in Page
  PROVE  AskedSoFar(p)' = AskedSoFar(p) \cup (IF p = q THEN item.perm \cap Rwx ELSE {})
<1>1. /\ Taken' = Taken /\ Current' = Current /\ Began' = Began
      /\ item'.next = item.next + 1 /\ item'.perm = item.perm
  BY MapPagePlaced
<1>2. stage' = stage /\ obj' = obj
  BY DEF MapPage
<1>3. Behind' = Behind
  BY <1>1, <1>2 DEF Behind
<1>4. InProgress(p)' = InProgress(p) \cup (IF p = q THEN item.perm \cap Rwx ELSE {})
  <2>1. /\ item.next \in Nat /\ Began.next \in Nat /\ item.next >= Began.next /\ p \in Nat
    BY SameRange, PageFits DEF Placed
  <2> QED
    BY <1>1, <2>1 DEF InProgress
<1>5. AskedSoFar(p)' = AskedBy(obj, Behind, p)
                       \cup (IF stage = "heap" THEN SegAsks(obj, Current, p) ELSE {})
                       \cup InProgress(p)'
  BY <1>1, <1>2, <1>3 DEF AskedSoFar
<1> QED
  BY <1>4, <1>5 DEF AskedSoFar

LEMMA MapPageRights ==
  ASSUME TypeOK, NoAlias, FramesTaken, Placed, RightsKept, MapPage
  PROVE  RightsKept'
<1>1. item.next \in Page
  BY LoopPage DEF TypeOK, MapPage, Looping
<1>2. PICK q \in Page : q = item.next
  BY <1>1
<1>3. /\ PageMapped(q)'
      /\ Leaf(q)'.flags = (IF PageMapped(q) THEN Leaf(q).flags ELSE {}) \cup item.perm
      /\ \A p \in Page \ {q} :
           /\ PageMapped(p)' <=> PageMapped(p)
           /\ PageMapped(p) => Leaf(p)' = Leaf(p)
      /\ \A k \in L1 : l1[k].flags \subseteq l1'[k].flags
      /\ item.perm \subseteq l1'[Vpn1(q)].flags
      /\ \A g \in Frame, m \in L2 : ~Present(tab'[g][m]) => tab'[g][m].flags = {}
  BY <1>2, MapPages
<1>4. stage' # "run" /\ stage # "run"
  BY DEF MapPage, Looping
<1>5. ASSUME NEW p \in Page PROVE Rights(p)' = AskedSoFar(p)'
  <2>1. Rights(p) = AskedSoFar(p)
    BY <1>4 DEF RightsKept
  <2>2. AskedSoFar(p)' = AskedSoFar(p) \cup (IF p = q THEN item.perm \cap Rwx ELSE {})
    BY <1>2, MapPageAsks
  <2>3. CASE p = q
    BY <1>3, <2>1, <2>2, <2>3 DEF Rights
  <2>4. CASE p # q
    <3>1. Rights(p)' = Rights(p)
      BY <1>3, <2>4 DEF Rights
    <3> QED
      BY <2>1, <2>2, <2>4, <3>1
  <2> QED
    BY <2>3, <2>4
<1>6. ASSUME NEW p \in Page, PageMapped(p)' PROVE Leaf(p)'.flags \subseteq l1'[Vpn1(p)].flags
  <2>1. \A r \in Page : PageMapped(r) => Leaf(r).flags \subseteq l1[Vpn1(r)].flags
    BY <1>4 DEF RightsKept
  <2>2. Vpn1(p) \in L1
    BY VpnType
  <2>3. CASE p = q
    BY <1>3, <2>1, <2>2, <2>3
  <2>4. CASE p # q
    BY <1>3, <1>6, <2>1, <2>2, <2>4
  <2> QED
    BY <2>3, <2>4
<1>7. \A g \in Frame, m \in L2 : ~Present(tab[g][m])' => tab'[g][m].flags = {}
  BY <1>3 DEF Present
<1> QED
  BY <1>4, <1>5, <1>6, <1>7 DEF RightsKept

LEMMA SameRights ==
  ASSUME UNCHANGED <<l1, tab>>
  PROVE  \A p : Rights(p)' = Rights(p) /\ (PageMapped(p)' <=> PageMapped(p)) /\ Leaf(p)' = Leaf(p)
BY DEF Rights, PageMapped, Leaf, Present

\* A step between two ranges asks for nothing new.
LEMMA BetweenRights ==
  ASSUME RightsKept, UNCHANGED <<l1, tab>>, stage # "run", stage' # "run",
         \A p \in Page : AskedSoFar(p)' = AskedSoFar(p)
  PROVE  RightsKept'
<1>1. /\ \A p \in Page : Rights(p)' = AskedSoFar(p)'
      /\ \A p \in Page : PageMapped(p)' => Leaf(p)'.flags \subseteq l1'[Vpn1(p)].flags
      /\ \A f \in Frame, j \in L2 : ~Present(tab[f][j])' => tab'[f][j].flags = {}
  BY SameRights DEF RightsKept, Present
<1> QED
  BY <1>1 DEF RightsKept

LEMMA LoadSegmentRights ==
  ASSUME TypeOK, WellFormed(obj), Placed, RightsKept, LoadSegment
  PROVE  RightsKept'
<1>1. /\ Taken' = Taken + 1 /\ stage' = "seg" /\ stage = "next" /\ item' = Began' /\ Taken \in Nat
      /\ obj' = obj
  BY LoadSegmentPlaced, CurrentSegment DEF LoadSegment
<1>2. Behind = Taken /\ Behind' = Taken
  BY <1>1 DEF Behind
<1>3. ASSUME NEW p \in Page PROVE AskedSoFar(p)' = AskedSoFar(p)
  <2>1. InProgress(p)' = {}
    <3>1. item'.next \in Nat
      <4>1. Placed' /\ TypeOK'
        BY LoadSegmentPlaced, LoaderType
      <4> QED
        BY <4>1 DEF TypeOK, Item
    <3>2. ~(Began'.next <= p /\ p < item'.next)
      BY <1>1, <3>1, PageFits
    <3> QED
      BY <3>2 DEF InProgress
  <2>2. InProgress(p) = {}
    <3>1. Began = NoItem /\ item.perm = Began.perm
      BY <1>1, StageCases, SameRange
    <3> QED
      BY <3>1 DEF InProgress, NoItem
  <2> QED
    BY <1>1, <1>2, <2>1, <2>2 DEF AskedSoFar
<1> QED
  BY <1>1, <1>3, BetweenRights DEF LoadSegment

\* Where a range has just been set, nothing of it is asked for yet.
LEMMA Fresher ==
  ASSUME TypeOK', item' = Began', NEW p \in Page
  PROVE  InProgress(p)' = {}
<1>1. item'.next \in Nat
  BY DEF TypeOK, Item
<1>2. ~(Began'.next <= p /\ p < item'.next)
  BY <1>1, PageFits
<1> QED
  BY <1>2 DEF InProgress

LEMMA EndSegmentRights ==
  ASSUME TypeOK, WellFormed(obj), Placed, RightsKept, EndSegment
  PROVE  RightsKept'
<1>1. /\ Taken' = Taken /\ Current' = Current /\ item' = Began'
      /\ \/ Current.type # "heap" /\ stage' = "next"
         \/ Current.type = "heap" /\ stage' = "heap"
      /\ stage = "seg" /\ ~(item.next * PageSize < item.limit) /\ obj' = obj
  BY EndSegmentPlaced DEF EndSegment, Looping
<1>2. Taken \in Nat /\ Taken >= 1
  BY <1>1, CurrentSegment DEF Placed
<1>3. PICK n \in Nat : Taken = n + 1
  BY <1>2
<1>4. Behind = n /\ Behind' = IF stage' = "heap" THEN n ELSE Taken
  BY <1>1, <1>3 DEF Behind
<1>5. ASSUME NEW p \in Page PROVE AskedSoFar(p)' = AskedSoFar(p)
  <2>1. InProgress(p)' = {}
    BY <1>1, LoaderType, Fresher
  <2>2. InProgress(p) = SegAsks(obj, Current, p)
    BY <1>1, SegDone
  <2>3. AskedSoFar(p) = AskedBy(obj, n, p) \cup SegAsks(obj, Current, p)
    BY <1>1, <1>4, <2>2 DEF AskedSoFar
  <2>4. CASE stage' = "heap"
    BY <1>1, <1>4, <2>1, <2>3, <2>4 DEF AskedSoFar
  <2>5. CASE stage' = "next" /\ Current.type # "heap"
    <3>1. AskedBy(obj, Taken, p) = AskedBy(obj, n, p) \cup SegAsks(obj, Current, p)
                                     \cup HeapAsks(obj, Current, p)
      BY <1>3, AskedByNext DEF Current
    <3>2. HeapAsks(obj, Current, p) = {}
      BY <2>5 DEF HeapAsks
    <3>3. AskedSoFar(p)' = AskedBy(obj, Taken, p)
      BY <1>1, <1>4, <2>1, <2>5 DEF AskedSoFar
    <3> QED
      BY <2>3, <3>1, <3>2, <3>3
  <2> QED
    BY <1>1, <2>4, <2>5
<1> QED
  BY <1>1, <1>5, BetweenRights DEF EndSegment

LEMMA EndHeapRights ==
  ASSUME TypeOK, WellFormed(obj), Placed, RightsKept, EndHeap
  PROVE  RightsKept'
<1>1. /\ Taken' = Taken /\ Current' = Current /\ item' = Began' /\ stage' = "next"
      /\ stage = "heap" /\ ~(item.next * PageSize < item.limit) /\ obj' = obj
  BY EndHeapPlaced DEF EndHeap, Looping
<1>2. Taken \in Nat /\ Taken >= 1
  BY <1>1, CurrentSegment DEF Placed
<1>3. PICK n \in Nat : Taken = n + 1
  BY <1>2
<1>4. Behind = n /\ Behind' = Taken
  BY <1>1, <1>3 DEF Behind
<1>5. ASSUME NEW p \in Page PROVE AskedSoFar(p)' = AskedSoFar(p)
  <2>1. InProgress(p)' = {}
    BY <1>1, LoaderType, Fresher
  <2>2. InProgress(p) = HeapAsks(obj, Current, p)
    BY <1>1, HeapDone
  <2>3. AskedBy(obj, Taken, p) = AskedBy(obj, n, p) \cup SegAsks(obj, Current, p)
                                   \cup HeapAsks(obj, Current, p)
    BY <1>3, AskedByNext DEF Current
  <2>4. AskedSoFar(p)' = AskedBy(obj, Taken, p)
    BY <1>1, <1>4, <2>1 DEF AskedSoFar
  <2>5. AskedSoFar(p) = AskedBy(obj, n, p) \cup SegAsks(obj, Current, p)
                                           \cup HeapAsks(obj, Current, p)
    BY <1>1, <1>4, <2>2 DEF AskedSoFar
  <2> QED
    BY <2>3, <2>4, <2>5
<1> QED
  BY <1>1, <1>5, BetweenRights DEF EndHeap

LEMMA LoadStackRights ==
  ASSUME TypeOK, Placed, RightsKept, LoadStack
  PROVE  RightsKept'
<1>1. /\ Taken' = Taken /\ item' = Began' /\ stage' = "stack" /\ stage = "next" /\ obj' = obj
  BY LoadStackPlaced DEF LoadStack
<1>2. Behind = Taken /\ Behind' = Taken
  BY <1>1 DEF Behind
<1>3. ASSUME NEW p \in Page PROVE AskedSoFar(p)' = AskedSoFar(p)
  <2>1. InProgress(p)' = {}
    BY <1>1, LoaderType, Fresher
  <2>2. InProgress(p) = {}
    <3>1. Began = NoItem /\ item.perm = Began.perm
      BY <1>1, StageCases, SameRange
    <3> QED
      BY <3>1 DEF InProgress, NoItem
  <2> QED
    BY <1>1, <1>2, <2>1, <2>2 DEF AskedSoFar
<1> QED
  BY <1>1, <1>3, BetweenRights DEF LoadStack

\* When the stack is done, all has been asked for.
LEMMA AllAsked ==
  ASSUME TypeOK, Placed, stage = "stack", ~(item.next * PageSize < item.limit), NEW p \in Page
  PROVE  AskedSoFar(p) = Asked(obj, p) /\ Behind = Len(obj.segs) /\ Taken = Len(obj.segs)
<1>1. obj \in Object /\ Len(obj.segs) \in Nat
  BY ObjectType, CurrentSegment
<1>2. Taken = Len(obj.segs)
  BY <1>1 DEF Taken, Placed
<1>3. Behind = Len(obj.segs)
  BY <1>2 DEF Behind
<1>4. InProgress(p) = StackAsks(obj, p)
  BY StackDone
<1>5. Asked(obj, p) = AskedBy(obj, Len(obj.segs), p) \cup StackAsks(obj, p)
  BY <1>1, AskedAll
<1> QED
  BY <1>2, <1>3, <1>4, <1>5 DEF AskedSoFar

LEMMA StartUserRights ==
  ASSUME TypeOK, Placed, RightsKept, StartUser
  PROVE  RightsKept'
<1>1. /\ stage' = "run" /\ stage = "stack" /\ obj' = obj /\ UNCHANGED <<l1, tab>>
      /\ ~(item.next * PageSize < item.limit)
  BY DEF StartUser, Looping
<1>2. \A p \in Page : Rights(p)' = Asked(obj', p)
  BY <1>1, SameRights, AllAsked DEF RightsKept
<1> QED
  BY <1>1, <1>2 DEF RightsKept

\* A store adds dirty flags at most, whatever entry it hits.
LEMMA WriteRights ==
  ASSUME TypeOK, NoAlias, NEW a \in Addr, Write(a), NEW p \in Page
  PROVE  Rights(p)' = Rights(p) /\ (PageMapped(p)' <=> PageMapped(p))
<1> DEFINE q == PageOf(a)
           t == l1[Vpn1(q)].ppn
<1>1. q \in Page /\ Vpn1(q) \in L1 /\ Vpn2(q) \in L2 /\ Vpn1(p) \in L1 /\ Vpn2(p) \in L2
  BY PageOfType, VpnType
<1>2. /\ \A k \in L1 : l1'[k].ppn = l1[k].ppn
      /\ Leaves' = Leaves
  BY WriteEffect
<1>3. tab' = [tab EXCEPT ![t] = [@ EXCEPT ![Vpn2(q)] = DirtyLeaf(q)]]
  BY DEF Write
<1>4. t \in Frame /\ DirtyLeaf(q) \in Entry /\ Leaf(q) \in Entry
  BY <1>1, DirtyType
<1>5. DirtyLeaf(q).flags \cap Rwx = tab[t][Vpn2(q)].flags \cap Rwx
  <2>1. Dirty(Leaf(q)).flags \cap Rwx = Leaf(q).flags \cap Rwx
    BY <1>4 DEF Dirty, Entry, Rwx
  <2> QED
    BY <2>1 DEF DirtyLeaf, Leaf
<1> HIDE DEF t, q
<1>6. \A g \in Frame, m \in L2 : tab'[g][m].flags \cap Rwx = tab[g][m].flags \cap Rwx
  BY <1>1, <1>3, <1>4, <1>5 DEF TypeOK
<1>7. l1[Vpn1(p)].ppn \in Frame
  BY <1>1 DEF TypeOK, Entry
<1>8. Leaf(p)'.flags \cap Rwx = Leaf(p).flags \cap Rwx
  BY <1>1, <1>2, <1>6, <1>7 DEF Leaf
<1>9. PageMapped(p)' <=> PageMapped(p)
  BY <1>2, MappedAfter, MappedIsLeaf
<1> QED
  BY <1>8, <1>9 DEF Rights

LEMMA UserRights ==
  ASSUME TypeOK, NoAlias, Placed, RightsKept, User
  PROVE  RightsKept'
<1>1. stage = "run" /\ stage' = "run" /\ obj' = obj
  BY DEF User, Write, Read, Trap
<1>2. \A p \in Page : Rights(p)' = Rights(p)
  <2>1. CASE \E a \in Addr : Write(a)
    BY <2>1, WriteRights
  <2>2. CASE UNCHANGED <<l1, tab>>
    BY <2>2, SameRights
  <2> QED
    BY <2>1, <2>2 DEF User, Read, Trap
<1> QED
  BY <1>1, <1>2 DEF RightsKept

LEMMA InitRights == Init => RightsKept
<1> SUFFICES ASSUME Init PROVE RightsKept
  OBVIOUS
<1>1. stage = "next" /\ \A p \in Page : ~PageMapped(p)
  BY VpnType DEF Init, PageMapped, Present, NoEntry
<1>2. Behind = 0
  <2>1. obj.segs \in Seq(Segment) /\ todo = obj.segs
    BY ObjectsAssumption DEF Init, Object
  <2> QED
    BY <1>1, <2>1 DEF Behind, Taken
<1>3. ASSUME NEW p \in Page PROVE Rights(p) = AskedSoFar(p)
  <2>1. InProgress(p) = {}
    BY DEF Init, NoItem, InProgress
  <2>2. AskedBy(obj, 0, p) = {}
    <3>1. 1 .. 0 = {}
      OBVIOUS
    <3> QED
      BY <3>1, Zenon DEF AskedBy
  <2> QED
    BY <1>1, <1>2, <2>1, <2>2 DEF Rights, AskedSoFar
<1>4. \A f \in Frame, j \in L2 : tab[f][j].flags = {}
  BY DEF Init, NoEntry
<1> QED
  BY <1>1, <1>3, <1>4 DEF RightsKept

----------------------------------------------------------------------------
(* 9. The bytes copied so far *)

\* Byte a is of segment k, and has been copied.
Copied(k, a) ==
  /\ a \in obj.segs[k].off .. SegEnd(obj.segs[k]) - 1
  /\ k = Taken /\ stage = "seg" => PageOf(a) < item.next

BytesKept ==
  stage # "run" =>
    /\ \A f \in bumper .. MaxFrame, x \in Off : mem[f][x] = Fresh
    /\ \A a \in Addr : PageMapped(PageOf(a)) =>
         /\ \A k \in 1 .. Taken : Copied(k, a) =>
              ByteAt(a) = <<obj.segs[k].type, a - obj.segs[k].off>>
         /\ (\A k \in 1 .. Taken : ~Copied(k, a)) => ByteAt(a) = Fresh

\* Copying puts each byte of the segment where it belongs, wherever the
\* segment begins and ends in the page, and leaves the others.
LEMMA CopyPageBytes ==
  ASSUME item \in Item, NEW q \in Page, NEW old \in [Off -> Byte], NEW x \in Off,
         NEW a \in Nat, a = q * PageSize + x
  PROVE  CopyPage(q, old)[x] = IF a \in item.off .. item.off + item.len - 1
                               THEN <<item.tag, a - item.off>> ELSE old[x]
<1> DEFINE vaddr == q * PageSize
           at    == IF vaddr < item.off THEN item.off - vaddr ELSE 0
           from  == IF vaddr < item.off THEN 0 ELSE vaddr - item.off
           to    == IF vaddr < item.off THEN Least(PageSize - at, item.len)
                                        ELSE Least(from + PageSize, item.len)
<1>1. /\ vaddr \in Nat /\ x \in Nat /\ x < PageSize /\ PageSize \in Nat
      /\ item.off \in Nat /\ item.len \in Nat
  BY PageFits, Sizes DEF Off, Item, Addr
<1>2. CopyPage(q, old)[x] = IF x >= at /\ from + (x - at) < to
                            THEN <<item.tag, from + (x - at)>> ELSE old[x]
  BY DEF CopyPage
<1>3. a = vaddr + x
  OBVIOUS
<1> HIDE DEF vaddr
<1>4. CASE vaddr < item.off
  <2>1. at = item.off - vaddr /\ from = 0 /\ to = Least(PageSize - at, item.len)
    BY <1>4
  <2>2. x >= at <=> a >= item.off
    BY <1>1, <1>3, <2>1
  <2>3. from + (x - at) = a - item.off
    BY <1>1, <1>3, <2>1
  <2>4. from + (x - at) < to <=> a - item.off < item.len
    <3>1. x - at < PageSize - at
      BY <1>1, <2>1
    <3> QED
      BY <1>1, <1>3, <2>1, <3>1 DEF Least
  <2> QED
    BY <1>1, <1>2, <1>3, <2>2, <2>3, <2>4
<1>5. CASE ~(vaddr < item.off)
  <2>1. at = 0 /\ from = vaddr - item.off /\ to = Least(from + PageSize, item.len)
    BY <1>5
  <2>2. x >= at /\ a >= item.off /\ from + (x - at) = a - item.off
    BY <1>1, <1>3, <1>5, <2>1
  <2>3. from + (x - at) < to <=> a - item.off < item.len
    BY <1>1, <1>3, <2>1 DEF Least
  <2> QED
    BY <1>1, <1>2, <1>3, <2>2, <2>3
<1> QED
  BY <1>4, <1>5

\* Where a segment has a byte, it asks for the page.
LEMMA ByteAsks ==
  ASSUME NEW o \in Object, NEW k \in 1 .. Len(o.segs), NEW a \in Addr,
         a \in o.segs[k].off .. SegEnd(o.segs[k]) - 1
  PROVE  /\ PageOf(o.segs[k].off) <= PageOf(a)
         /\ PageOf(a) \in PagesOf(o.segs[k].off, SegEnd(o.segs[k]))
         /\ SegAsks(o, o.segs[k], PageOf(a)) # {}
         /\ SegPerm(o.segs[k].type, o.rtext) # {}
         /\ SegPerm(o.segs[k].type, o.rtext) \subseteq Rwx
<1> DEFINE s == o.segs[k]
<1>0. o.segs \in Seq(Segment) /\ o.rtext \in BOOLEAN
  BY DEF Object
<1>1. s \in Segment /\ s.off \in Addr /\ s.len \in Addr /\ s.type \in SegType
      /\ o.rtext \in BOOLEAN
  <2>1. s \in Segment
    BY <1>0
  <2> QED
    BY <1>0, <2>1 DEF Segment
<1>2. SegPerm(s.type, o.rtext) # {} /\ SegPerm(s.type, o.rtext) \subseteq Rwx
  BY <1>1, SegPermIsRwx
<1> HIDE DEF s
<1>3. s.off <= a /\ a < SegEnd(s) /\ s.off \in Nat /\ SegEnd(s) \in Nat
  BY <1>1, Sizes DEF s, SegEnd, Addr
<1>4. /\ PageOf(a) \in Page /\ PageOf(a) * PageSize <= a /\ PageOf(s.off) \in Nat
      /\ PageOf(a) \in Nat /\ PageOf(a) * PageSize \in Nat /\ a \in Nat
  BY <1>1, AddrSplit, PageFits
<1>5. PageOf(s.off) <= PageOf(a)
  BY <1>1, <1>3, PageOfMonotone
<1>6. PageOf(a) \in PagesOf(s.off, SegEnd(s))
  BY <1>3, <1>4, <1>5 DEF PagesOf
<1> QED
  BY <1>2, <1>5, <1>6 DEF SegAsks, s

\* A byte that has been copied is in a page that is mapped.
LEMMA CopiedIsMapped ==
  ASSUME TypeOK, Placed, RightsKept, stage # "run",
         NEW k \in 1 .. Taken, NEW a \in Addr, Copied(k, a)
  PROVE  PageMapped(PageOf(a))
<1> DEFINE p == PageOf(a)
           s == obj.segs[k]
<1>1. /\ obj \in Object /\ Taken \in Nat /\ Taken <= Len(obj.segs) /\ Len(obj.segs) \in Nat
      /\ k \in 1 .. Len(obj.segs) /\ p \in Page
  BY ObjectType, CurrentSegment, PageOfType
<1>2. a \in s.off .. SegEnd(s) - 1
  BY DEF Copied
<1>3. /\ PageOf(s.off) <= p /\ SegAsks(obj, s, p) # {}
      /\ SegPerm(s.type, obj.rtext) # {} /\ SegPerm(s.type, obj.rtext) \subseteq Rwx
  BY <1>1, <1>2, ByteAsks
<1> HIDE DEF p, s
<1>4. AskedSoFar(p) # {}
  <2>1. CASE k \in 1 .. Behind
    <3>1. ASSUME NEW x \in SegAsks(obj, obj.segs[k], p) PROVE x \in AskedBy(obj, Behind, p)
      BY <2>1, <3>1, SMT DEF AskedBy
    <3> QED
      BY <1>3, <3>1 DEF AskedSoFar, s
  <2>2. CASE stage = "heap" /\ k = Taken
    BY <1>3, <2>2 DEF AskedSoFar, s, Current
  <2>3. CASE stage = "seg" /\ k = Taken
    <3>1. Began = SegItem(s, obj) /\ PageOf(a) < item.next
      BY <2>3, StageCases DEF Current, s, Copied
    <3>2. item.perm = SegPerm(s.type, obj.rtext) \cup {"U", "P"} /\ Began.next = PageOf(s.off)
      BY <3>1, SameRange DEF SegItem
    <3>3. InProgress(p) = item.perm \cap Rwx
      BY <1>3, <3>1, <3>2 DEF InProgress, p
    <3> QED
      BY <1>3, <3>2, <3>3 DEF AskedSoFar
  <2>4. k \in 1 .. Behind \/ (k = Taken /\ stage \in {"seg", "heap"})
    BY <1>1 DEF Behind
  <2> QED
    BY <2>1, <2>2, <2>3, <2>4
<1>5. Rights(p) # {}
  BY <1>1, <1>4 DEF RightsKept
<1> QED
  BY <1>5 DEF Rights, p

LEMMA MapPageBytes ==
  ASSUME TypeOK, NoAlias, FramesTaken, WellFormed(obj), Placed, RightsKept, BytesKept, MapPage
  PROVE  BytesKept'
<1>1. item.next \in Page
  BY LoopPage DEF TypeOK, MapPage, Looping
<1>2. PICK q \in Page : q = item.next
  BY <1>1
<1>3. PICK f : f = PageFor(Vpn1(q), Vpn2(q))
  OBVIOUS
<1>4. /\ f \in Frame /\ Leaf(q)'.ppn = f
      /\ IF PageMapped(q) THEN f = Leaf(q).ppn ELSE f \in bumper .. MaxFrame /\ f < bumper'
      /\ bumper' >= bumper
      /\ \A p \in Page \ {q} :
           /\ PageMapped(p)' <=> PageMapped(p)
           /\ PageMapped(p) => Leaf(p)' = Leaf(p) /\ Leaf(p).ppn # f
  BY <1>2, <1>3, MapPages
<1>5. /\ mem' = [mem EXCEPT ![f] = CopyPage(q, @)] /\ obj' = obj /\ stage' = stage
      /\ stage \in {"seg", "heap", "stack"}
  BY <1>2, <1>3 DEF MapPage, Looping
<1>6. /\ Taken' = Taken /\ item'.next = item.next + 1 /\ Began' = Began
      /\ Taken \in Nat /\ item.next \in Nat /\ bumper \in Nat /\ bumper' \in Nat
      /\ Taken <= Len(obj.segs) /\ Len(obj.segs) \in Nat /\ MaxFrame \in Nat
  BY MapPagePlaced, CurrentSegment, SameRange, MapPageType, Sizes DEF TypeOK
<1>7. mem \in [Frame -> [Off -> Byte]] /\ mem[f] \in [Off -> Byte]
  BY <1>4 DEF TypeOK
<1>8. /\ mem'[f] = CopyPage(q, mem[f])
      /\ \A g \in Frame \ {f} : mem'[g] = mem[g]
  BY <1>4, <1>5, <1>7
\* The frames not in use.
<1>9. f < bumper'
  <2>1. CASE PageMapped(q)
    <3>1. f \in 1 .. bumper - 1
      BY <1>4, <2>1, MappedIsLeaf DEF NoAlias
    <3> QED
      BY <1>4, <1>6, <3>1
  <2> QED
    BY <1>4, <2>1
<1>10. ASSUME NEW g \in bumper' .. MaxFrame, NEW x \in Off PROVE mem'[g][x] = Fresh
  <2>1. g \in Frame \ {f} /\ g \in bumper .. MaxFrame
    BY <1>4, <1>6, <1>9 DEF Frame
  <2> QED
    BY <1>5, <1>8, <2>1 DEF BytesKept
\* Pages other than the one mapped.
<1>11. ASSUME NEW a \in Addr, PageOf(a) # q, PageMapped(PageOf(a))'
       PROVE  /\ PageMapped(PageOf(a)) /\ ByteAt(a)' = ByteAt(a)
              /\ \A k \in 1 .. Taken : Copied(k, a)' <=> Copied(k, a)
  <2>1. PageOf(a) \in Page \ {q} /\ PageOf(a) \in Nat
    BY <1>11, AddrSplit, PageFits
  <2>2. PageMapped(PageOf(a)) /\ Leaf(PageOf(a))' = Leaf(PageOf(a)) /\ Leaf(PageOf(a)).ppn # f
        /\ Leaf(PageOf(a)).ppn \in Frame
    BY <1>4, <1>11, <2>1, DirtyType
  <2>3. ByteAt(a)' = ByteAt(a)
    BY <1>8, <2>2 DEF ByteAt
  <2>4. PageOf(a) < item'.next <=> PageOf(a) < item.next
    BY <1>2, <1>6, <1>11, <2>1
  <2>5. \A k \in 1 .. Taken : Copied(k, a)' <=> Copied(k, a)
    BY <1>5, <1>6, <2>4 DEF Copied
  <2> QED
    BY <2>2, <2>3, <2>5
\* The page mapped: what was in its frame, and what is copied over it.
<1>12. ASSUME NEW a \in Addr, PageOf(a) = q
       PROVE  /\ ByteAt(a)' = IF a \in item.off .. item.off + item.len - 1
                              THEN <<item.tag, a - item.off>> ELSE mem[f][OffOf(a)]
              /\ \A k \in 1 .. Taken : Copied(k, a) =>
                   mem[f][OffOf(a)] = <<obj.segs[k].type, a - obj.segs[k].off>>
              /\ (\A k \in 1 .. Taken : ~Copied(k, a)) => mem[f][OffOf(a)] = Fresh
  <2>1. a \in Nat /\ OffOf(a) \in Off /\ a = q * PageSize + OffOf(a)
    BY <1>12, AddrSplit
  <2>2. ByteAt(a)' = CopyPage(q, mem[f])[OffOf(a)]
    BY <1>4, <1>8, <1>12 DEF ByteAt
  <2>3. CopyPage(q, mem[f])[OffOf(a)] = IF a \in item.off .. item.off + item.len - 1
                                        THEN <<item.tag, a - item.off>> ELSE mem[f][OffOf(a)]
    BY <1>7, <2>1, CopyPageBytes DEF TypeOK
  <2>4. CASE PageMapped(q)
    <3>1. mem[f][OffOf(a)] = ByteAt(a)
      BY <1>4, <1>12, <2>4 DEF ByteAt
    <3> QED
      BY <1>5, <1>12, <2>2, <2>3, <2>4, <3>1 DEF BytesKept
  <2>5. CASE ~PageMapped(q)
    <3>1. mem[f][OffOf(a)] = Fresh
      BY <1>4, <1>5, <2>1, <2>5 DEF BytesKept
    <3>2. \A k \in 1 .. Taken : ~Copied(k, a)
      BY <1>5, <1>12, <2>5, CopiedIsMapped
    <3> QED
      BY <2>2, <2>3, <3>1, <3>2
  <2> QED
    BY <2>4, <2>5
<1>13. ASSUME NEW a \in Addr, PageMapped(PageOf(a))'
       PROVE  /\ \A k \in 1 .. Taken : Copied(k, a)' =>
                   ByteAt(a)' = <<obj.segs[k].type, a - obj.segs[k].off>>
              /\ (\A k \in 1 .. Taken : ~Copied(k, a)') => ByteAt(a)' = Fresh
  <2>1. CASE PageOf(a) # q
    BY <1>5, <1>11, <1>13, <2>1 DEF BytesKept
  <2>2. CASE PageOf(a) = q /\ stage # "seg"
    <3>1. \A k \in 1 .. Taken : Copied(k, a)' <=> Copied(k, a)
      BY <1>5, <1>6, <2>2 DEF Copied
    <3>2. item.len = 0 /\ item.off \in Nat
      <4>1. item.len = Began.len
        BY SameRange
      <4>2. Began.len = 0
        BY <1>5, <2>2, StageCases DEF HeapItem, StackItem, WrItem
      <4> QED
        BY <4>1, <4>2, Sizes DEF TypeOK, Item, Addr
    <3>3. a \notin item.off .. item.off + item.len - 1
      BY <3>2
    <3>4. ByteAt(a)' = mem[f][OffOf(a)]
      BY <1>12, <2>2, <3>3
    <3> QED
      BY <1>12, <2>2, <3>1, <3>4
  <2>3. CASE PageOf(a) = q /\ stage = "seg"
    <3>1. Taken \in 1 .. Len(obj.segs) /\ Current \in Segment
      BY <2>3, CurrentSegment
    <3> PICK n \in 1 .. Len(obj.segs) : n = Taken
      BY <3>1
    <3> DEFINE s == obj.segs[n]
    <3>2. item.tag = s.type /\ item.off = s.off /\ item.len = s.len
          /\ SegEnd(s) = s.off + s.len /\ s \in Segment /\ n \in 1 .. Taken
          /\ s.off \in Nat /\ s.len \in Nat
      BY <2>3, <3>1, StageCases, SameRange, Sizes DEF SegItem, SegEnd, Current, Segment, Addr
    <3>3. Copied(n, a)' <=> a \in item.off .. item.off + item.len - 1
      <4>1. PageOf(a) < item'.next
        BY <1>2, <1>6, <2>3
      <4>2. Copied(n, a)' <=> a \in s.off .. SegEnd(s) - 1
        BY <1>5, <4>1 DEF Copied
      <4> QED
        BY <3>2, <4>2
    <3>4. ~Copied(n, a)
      BY <1>2, <1>6, <2>3 DEF Copied
    <3>5. \A k \in 1 .. Taken : k # n => (Copied(k, a)' <=> Copied(k, a))
      BY <1>5, <1>6 DEF Copied
    <3>6. CASE a \in item.off .. item.off + item.len - 1
      <4>1. ByteAt(a)' = <<s.type, a - s.off>>
        BY <1>12, <2>3, <3>2, <3>6
      <4>2. ASSUME NEW k \in 1 .. Taken, k # n, Copied(k, a) PROVE FALSE
        <5>1. k \in 1 .. Len(obj.segs)
          BY <1>6
        <5>2. SegEnd(s) <= obj.segs[k].off \/ SegEnd(obj.segs[k]) <= s.off
          BY <4>2, <5>1, WellFormedSegment
        <5>3. a \in obj.segs[k].off .. SegEnd(obj.segs[k]) - 1
          BY <4>2 DEF Copied
        <5>4. obj.segs[k].off \in Nat /\ SegEnd(obj.segs[k]) \in Nat
          <6>1. obj.segs[k] \in Segment
            BY <5>1, CurrentSegment
          <6> QED
            BY <6>1, Sizes DEF SegEnd, Segment, Addr
        <5>5. a \in s.off .. SegEnd(s) - 1 /\ s.off \in Nat
          BY <3>2, <3>6
        <5>6. SegEnd(s) \in Nat
          BY <3>2, Sizes DEF SegEnd
        <5> QED
          BY <5>2, <5>3, <5>4, <5>5, <5>6
      <4> QED
        BY <3>2, <3>3, <3>5, <3>6, <4>1, <4>2
    <3>7. CASE a \notin item.off .. item.off + item.len - 1
      <4>1. ASSUME NEW k \in 1 .. Taken PROVE Copied(k, a)' <=> Copied(k, a)
        <5>1. CASE k = n
          BY <3>3, <3>4, <3>7, <5>1
        <5> QED
          BY <3>5, <5>1
      <4>2. ByteAt(a)' = mem[f][OffOf(a)]
        BY <1>12, <2>3, <3>7
      <4> QED
        BY <1>12, <2>3, <4>1, <4>2
    <3> QED
      BY <3>6, <3>7
  <2> QED
    BY <1>5, <2>1, <2>2, <2>3
<1> QED
  BY <1>5, <1>6, <1>10, <1>13 DEF BytesKept

\* A step that copies nothing.
LEMMA BetweenBytes ==
  ASSUME BytesKept, UNCHANGED <<obj, bumper, l1, tab, mem>>, stage # "run",
         \A a \in Addr : /\ \A k \in 1 .. Taken' : Copied(k, a)' => k \in 1 .. Taken /\ Copied(k, a)
                         /\ \A k \in 1 .. Taken : Copied(k, a) => k \in 1 .. Taken' /\ Copied(k, a)'
  PROVE  BytesKept'
<1>1. \A a : ByteAt(a)' = ByteAt(a) /\ (PageMapped(PageOf(a))' <=> PageMapped(PageOf(a)))
  BY DEF ByteAt, Leaf, PageMapped, Present
<1>2. \A a \in Addr : PageMapped(PageOf(a)) =>
        /\ \A k \in 1 .. Taken : Copied(k, a) =>
             ByteAt(a) = <<obj.segs[k].type, a - obj.segs[k].off>>
        /\ (\A k \in 1 .. Taken : ~Copied(k, a)) => ByteAt(a) = Fresh
  BY DEF BytesKept
<1>3. \A f \in bumper .. MaxFrame, x \in Off : mem[f][x] = Fresh
  BY DEF BytesKept
<1>4. ASSUME NEW a \in Addr, PageMapped(PageOf(a))'
      PROVE  /\ \A k \in 1 .. Taken' : Copied(k, a)' =>
                  ByteAt(a)' = <<obj.segs[k].type, a - obj.segs[k].off>>
             /\ (\A k \in 1 .. Taken' : ~Copied(k, a)') => ByteAt(a)' = Fresh
  BY <1>1, <1>2, <1>4
<1> QED
  BY <1>3, <1>4 DEF BytesKept

LEMMA LoadSegmentBytes ==
  ASSUME TypeOK, WellFormed(obj), Placed, BytesKept, LoadSegment
  PROVE  BytesKept'
<1>1. /\ Taken' = Taken + 1 /\ stage' = "seg" /\ stage = "next" /\ item' = Began' /\ Taken \in Nat
      /\ obj' = obj /\ Taken + 1 \in 1 .. Len(obj.segs) /\ obj \in Object
  BY LoadSegmentPlaced, CurrentSegment, ObjectType DEF LoadSegment
<1>2. PICK n \in 1 .. Len(obj.segs) : n = Taken + 1
  BY <1>1
<1>3. item'.next = PageOf(obj.segs[n].off)
  BY <1>1, <1>2 DEF Began, Current, SegItem
<1>4. ASSUME NEW a \in Addr PROVE ~Copied(n, a)'
  <2>1. SUFFICES ASSUME a \in obj.segs[n].off .. SegEnd(obj.segs[n]) - 1
                 PROVE  ~(PageOf(a) < item'.next)
    BY <1>1, <1>2 DEF Copied
  <2>2. PageOf(obj.segs[n].off) <= PageOf(a)
    BY <1>1, <2>1, ByteAsks
  <2>3. PageOf(a) \in Nat /\ PageOf(obj.segs[n].off) \in Nat
    <3>1. obj.segs[n] \in Segment
      BY <1>1 DEF Object
    <3>2. obj.segs[n].off \in Addr
      BY <3>1 DEF Segment
    <3> QED
      BY <3>2, AddrSplit, PageFits
  <2> QED
    BY <1>3, <2>2, <2>3
<1>5. \A a \in Addr, k \in 1 .. Taken : Copied(k, a)' <=> Copied(k, a)
  BY <1>1 DEF Copied
<1>6. 1 .. Taken' = (1 .. Taken) \cup {n}
  BY <1>1, <1>2
<1> QED
  BY <1>1, <1>4, <1>5, <1>6, BetweenBytes DEF LoadSegment

LEMMA EndSegmentBytes ==
  ASSUME TypeOK, WellFormed(obj), Placed, BytesKept, EndSegment
  PROVE  BytesKept'
<1>1. /\ Taken' = Taken /\ stage' # "seg" /\ stage = "seg" /\ obj' = obj /\ obj \in Object
      /\ ~(item.next * PageSize < item.limit) /\ Taken \in 1 .. Len(obj.segs)
      /\ Current \in Segment
  BY EndSegmentPlaced, CurrentSegment, ObjectType DEF EndSegment, Looping
<1>2. PICK n \in 1 .. Len(obj.segs) : n = Taken
  BY <1>1
<1>3. ASSUME NEW a \in Addr, a \in obj.segs[n].off .. SegEnd(obj.segs[n]) - 1
      PROVE  PageOf(a) < item.next
  <2>1. PageOf(a) \in PagesOf(obj.segs[n].off, SegEnd(obj.segs[n])) /\ PageOf(a) \in Page
    BY <1>1, <1>3, ByteAsks, PageOfType
  <2>2. Began = SegItem(obj.segs[n], obj) /\ SegEnd(obj.segs[n]) < W /\ obj.segs[n] \in Segment
    BY <1>1, <1>2, StageCases, WellFormedSegment DEF Current
  <2>3. Covers(Began, PageOf(a))
    BY <1>1, <2>1, <2>2, SegRange
  <2> QED
    BY <1>1, <2>1, <2>3, RangeDone DEF Covers
<1>4. \A a \in Addr, k \in 1 .. Taken : Copied(k, a)' <=> Copied(k, a)
  BY <1>1, <1>2, <1>3 DEF Copied
<1> QED
  BY <1>1, <1>4, BetweenBytes DEF EndSegment

LEMMA OtherBytes ==
  ASSUME BytesKept, Placed, EndHeap \/ LoadStack
  PROVE  BytesKept'
<1>1. /\ Taken' = Taken /\ stage' # "seg" /\ stage # "seg" /\ stage # "run"
      /\ UNCHANGED <<obj, bumper, l1, tab, mem>>
  BY DEF EndHeap, LoadStack, Taken
<1>2. \A a \in Addr, k \in 1 .. Taken : Copied(k, a)' <=> Copied(k, a)
  BY <1>1 DEF Copied
<1> QED
  BY <1>1, <1>2, BetweenBytes

LEMMA InitBytes == Init => BytesKept
<1> SUFFICES ASSUME Init PROVE BytesKept
  OBVIOUS
<1>1. \A a \in Addr : ~PageMapped(PageOf(a))
  BY PageOfType, VpnType DEF Init, PageMapped, Present, NoEntry
<1>2. \A f \in bumper .. MaxFrame, x \in Off : mem[f][x] = Fresh
  BY Sizes DEF Init, Frame
<1> QED
  BY <1>1, <1>2 DEF BytesKept

----------------------------------------------------------------------------
(* 10. A well-formed object starts as it asks to *)

\* What holds of a well-formed object while it is loaded and run.
LoadInv == WellFormed(obj) => Placed /\ RightsKept /\ BytesKept

LEMMA NextLoadInv ==
  TypeOK /\ NoAlias /\ FramesTaken /\ LoadInv /\ [Next]_vars => LoadInv'
<1> SUFFICES ASSUME TypeOK, NoAlias, FramesTaken, LoadInv, [Next]_vars PROVE LoadInv'
  OBVIOUS
<1>1. obj' = obj
  BY DEF Next, Load, User, LoadSegment, MapPage, EndSegment, EndHeap, LoadStack, StartUser,
         Write, Read, Trap, vars
<1>2. SUFFICES ASSUME WellFormed(obj) PROVE Placed' /\ RightsKept' /\ BytesKept'
  BY <1>1 DEF LoadInv
<1>3. Placed /\ RightsKept /\ BytesKept
  BY <1>2 DEF LoadInv
<1>4. CASE LoadSegment
  BY <1>2, <1>3, <1>4, LoadSegmentPlaced, LoadSegmentRights, LoadSegmentBytes
<1>5. CASE MapPage
  BY <1>2, <1>3, <1>5, MapPagePlaced, MapPageRights, MapPageBytes
<1>6. CASE EndSegment
  BY <1>2, <1>3, <1>6, EndSegmentPlaced, EndSegmentRights, EndSegmentBytes
<1>7. CASE EndHeap
  BY <1>2, <1>3, <1>7, EndHeapPlaced, EndHeapRights, OtherBytes
<1>8. CASE LoadStack
  BY <1>2, <1>3, <1>8, LoadStackPlaced, LoadStackRights, OtherBytes
<1>9. CASE StartUser
  <2>1. BytesKept'
    BY <1>9 DEF StartUser, BytesKept
  <2> QED
    BY <1>2, <1>3, <1>9, <2>1, StartUserPlaced, StartUserRights
<1>10. CASE User
  <2>1. UNCHANGED <<obj, stage, todo, item>> /\ stage = "run"
    BY <1>10 DEF User, Write, Read, Trap
  <2>2. BytesKept'
    BY <2>1 DEF BytesKept
  <2> QED
    BY <1>3, <1>10, <2>1, <2>2, UserPlaced, UserRights
<1>11. CASE UNCHANGED vars
  <2>1. UNCHANGED <<obj, stage, todo, item, bumper, l1, tab, mem>>
    BY <1>11 DEF vars
  <2>2. Placed' /\ Taken' = Taken /\ Current' = Current /\ Began' = Began /\ Behind' = Behind
    BY <1>3, <2>1, UserPlaced
  <2>3. RightsKept'
    <3>1. \A p \in Page : AskedSoFar(p)' = AskedSoFar(p)
      BY <2>1, <2>2 DEF AskedSoFar, InProgress
    <3>2. CASE stage # "run"
      BY <1>3, <2>1, <3>1, <3>2, BetweenRights
    <3>3. CASE stage = "run"
      BY <1>3, <2>1, <3>3, SameRights DEF RightsKept
    <3> QED
      BY <3>2, <3>3
  <2>4. BytesKept'
    <3>1. \A a \in Addr, k \in 1 .. Taken : Copied(k, a)' <=> Copied(k, a)
      BY <2>1, <2>2 DEF Copied
    <3>2. CASE stage # "run"
      BY <1>3, <2>1, <2>2, <3>1, <3>2, BetweenBytes
    <3>3. CASE stage = "run"
      BY <2>1, <3>3 DEF BytesKept
    <3> QED
      BY <3>2, <3>3
  <2> QED
    BY <2>2, <2>3, <2>4
<1> QED
  BY <1>4, <1>5, <1>6, <1>7, <1>8, <1>9, <1>10, <1>11 DEF Next, Load

\* What the theorems of this module rest on.
LEMMA LoadInvariant == Spec => [](TypeOK /\ NoAlias /\ FramesTaken /\ LoadInv)
<1>1. Init => TypeOK /\ NoAlias /\ FramesTaken /\ LoadInv
  BY InitType, InitNoAlias, InitFrames, InitPlaced, InitRights, InitBytes DEF LoadInv
<1>2. TypeOK /\ NoAlias /\ FramesTaken /\ LoadInv /\ [Next]_vars
        => (TypeOK /\ NoAlias /\ FramesTaken /\ LoadInv)'
  BY NextType, NextNoAlias, NextFrames, NextLoadInv
<1> QED
  BY <1>1, <1>2, PTL DEF Spec

\* Only the end of the loader starts the program.
LEMMA StartIsStartUser ==
  ASSUME [Next]_vars, stage # "run", stage' = "run"
  PROVE  StartUser
BY DEF Next, Load, User, LoadSegment, MapPage, Looping, EndSegment, EndHeap, LoadStack,
       Write, Read, Trap, vars

\* What the walk finds before the first instruction is what the object says.
LEMMA FirstBytes ==
  ASSUME TypeOK, WellFormed(obj), Placed, RightsKept, BytesKept, stage = "stack",
         ~(item.next * PageSize < item.limit), NEW a \in Addr
  PROVE  (IF PageMapped(PageOf(a)) THEN ByteAt(a) ELSE Fresh) = FirstByte(obj, a)
<1>1. obj \in Object /\ obj.segs \in Seq(Segment) /\ DOMAIN obj.segs = 1 .. Len(obj.segs)
      /\ Taken = Len(obj.segs)
  <2>1. PageOf(a) \in Page
    BY PageOfType
  <2> QED
    BY <2>1, ObjectType, AllAsked DEF Object
<1>2. \A k \in 1 .. Taken : Copied(k, a) <=> k \in SegsAt(obj, a)
  BY <1>1 DEF Copied, SegsAt
<1>3. CASE SegsAt(obj, a) = {}
  <2>1. FirstByte(obj, a) = Fresh
    BY <1>3 DEF FirstByte
  <2>2. PageMapped(PageOf(a)) => ByteAt(a) = Fresh
    BY <1>2, <1>3 DEF BytesKept
  <2> QED
    BY <2>1, <2>2
<1>4. CASE SegsAt(obj, a) # {}
  <2>1. PICK k \in SegsAt(obj, a) : k = CHOOSE i \in SegsAt(obj, a) : TRUE
    BY <1>4
  <2>2. k \in SegsAt(obj, a)
    BY <2>1
  <2>3. k \in 1 .. Taken /\ Copied(k, a)
    BY <1>1, <1>2, <2>2 DEF SegsAt
  <2>4. PageMapped(PageOf(a))
    BY <2>3, CopiedIsMapped
  <2>5. ByteAt(a) = <<obj.segs[k].type, a - obj.segs[k].off>>
    BY <2>3, <2>4 DEF BytesKept
  <2>6. FirstByte(obj, a) = <<obj.segs[k].type, a - obj.segs[k].off>>
    BY <1>4, <2>1 DEF FirstByte
  <2> QED
    BY <2>4, <2>5, <2>6
<1> QED
  BY <1>3, <1>4

\* When the program starts, the walk of both levels grants each page the
\* permissions the object asks for, no more and no less, and finds the bytes of
\* the segments and fresh ones around them: whatever segments, heap and stack
\* share a page or a level-one entry, and in whatever order.
THEOREM LoadsAsAsked == Spec => StartsAsAsked
<1>1. TypeOK /\ LoadInv /\ [Next]_vars =>
        [stage # "run" /\ Loaded' =>
           /\ \A p \in Page : Granted(p)' = Asked(obj, p)
           /\ \A a \in Addr : PageMapped(PageOf(a))' => ByteAt(a)' = FirstByte(obj, a)]_vars
  <2> SUFFICES ASSUME TypeOK, LoadInv, [Next]_vars, stage # "run", Loaded'
               PROVE  /\ \A p \in Page : Granted(p)' = Asked(obj, p)
                      /\ \A a \in Addr : PageMapped(PageOf(a))' => ByteAt(a)' = FirstByte(obj, a)
    OBVIOUS
  <2>1. StartUser
    BY StartIsStartUser DEF Loaded
  <2>2. obj' = obj /\ stage = "stack" /\ ~(item.next * PageSize < item.limit)
        /\ UNCHANGED <<l1, tab, mem>>
    BY <2>1 DEF StartUser, Looping
  <2>3. WellFormed(obj) /\ Placed /\ RightsKept /\ BytesKept
    BY <2>2 DEF LoadInv, Loaded
  <2>4. ASSUME NEW p \in Page PROVE Granted(p)' = Asked(obj, p)
    <3>1. Rights(p) = Asked(obj, p)
      BY <2>2, <2>3, AllAsked DEF RightsKept
    <3>2. PageMapped(p) => Leaf(p).flags \subseteq l1[Vpn1(p)].flags
      BY <2>2, <2>3 DEF RightsKept
    <3>3. Granted(p) = Rights(p)
      BY <3>2 DEF Granted, Rights, Rwx
    <3>4. Granted(p)' = Granted(p)
      BY <2>2 DEF Granted, PageMapped, Leaf, Present
    <3> QED
      BY <3>1, <3>3, <3>4
  <2>5. ASSUME NEW a \in Addr, PageMapped(PageOf(a))' PROVE ByteAt(a)' = FirstByte(obj, a)
    <3>1. PageMapped(PageOf(a)) /\ ByteAt(a)' = ByteAt(a)
      BY <2>2, <2>5 DEF PageMapped, Leaf, Present, ByteAt
    <3>2. ByteAt(a) = FirstByte(obj, a)
      BY <2>2, <2>3, <3>1, FirstBytes
    <3> QED
      BY <3>1, <3>2
  <2> QED
    BY <2>4, <2>5
<1> QED
  BY <1>1, LoadInvariant, PTL DEF Spec, StartsAsAsked

----------------------------------------------------------------------------
(* 11. Every step is one of FlatMemory *)

LEMMA StartRefines ==
  ASSUME TypeOK, WellFormed(obj), Placed, RightsKept, BytesKept, StartUser
  PROVE  Flat!Start
<1>1. /\ stage = "stack" /\ stage' = "run" /\ ~(item.next * PageSize < item.limit)
      /\ UNCHANGED <<obj, l1, tab, mem, last>>
  BY DEF StartUser, Looping
<1>2. Visible' = [a \in Addr |-> FirstByte(obj, a)]
  <2>1. ASSUME NEW a \in Addr
        PROVE  (PageMapped(PageOf(a))' <=> PageMapped(PageOf(a))) /\ ByteAt(a)' = ByteAt(a)
    BY <1>1 DEF PageMapped, Leaf, Present, ByteAt
  <2>2. ASSUME NEW a \in Addr
        PROVE  (IF stage' # "run" \/ ~PageMapped(PageOf(a))' THEN Fresh ELSE ByteAt(a)')
                 = FirstByte(obj, a)
    BY <1>1, <2>1, FirstBytes
  <2> QED
    BY <2>2 DEF Visible
<1> QED
  BY <1>1, <1>2 DEF Flat!Start

LEMMA LoadRefines ==
  ASSUME Load, ~StartUser, stage # "overflow", stage' # "overflow"
  PROVE  UNCHANGED Flat!vars
<1>1. stage # "run" /\ stage' # "run" /\ UNCHANGED <<obj, last>>
  BY DEF Load, LoadSegment, MapPage, Looping, EndSegment, EndHeap, LoadStack
<1>2. Visible' = Visible
  BY <1>1 DEF Visible
<1> QED
  BY <1>1, <1>2 DEF Flat!vars

\* A walk that succeeds is allowed.
LEMMA WalkAllowed ==
  ASSUME RightsKept, stage = "run", NEW a \in Addr, NEW acc \in Access,
         Walk(PageOf(a), acc) = "ok"
  PROVE  PageMapped(PageOf(a)) /\ acc \in AllowedAt(obj, a)
<1>1. PageOf(a) \in Page
  BY PageOfType
<1>2. /\ PageMapped(PageOf(a)) /\ Need(acc) \in Leaf(PageOf(a)).flags
  BY <1>1, WalkOutcome DEF PageMapped
<1>3. Need(acc) \in Rwx
  BY Zenon DEF Need, Access, Rwx
<1>4. Need(acc) \in Asked(obj, PageOf(a))
  BY <1>1, <1>2, <1>3 DEF RightsKept, Rights
<1> QED
  BY <1>2, <1>4 DEF AllowedAt

LEMMA ReadRefines ==
  ASSUME RightsKept, NEW a \in Addr, NEW acc \in Access, Read(a, acc)
  PROVE  Flat!Grant(a, acc)
<1>1. /\ stage = "run" /\ acc # "Write" /\ Walk(PageOf(a), acc) = "ok"
      /\ last' = [acc |-> acc, addr |-> a, res |-> "ok", val |-> ByteAt(a)]
      /\ UNCHANGED <<obj, stage, l1, tab, mem>>
  BY DEF Read
<1>2. PageMapped(PageOf(a)) /\ acc \in AllowedAt(obj, a)
  BY <1>1, WalkAllowed
<1>3. Visible' = Visible
  BY <1>1 DEF Visible, PageMapped, Leaf, Present, ByteAt
<1>4. Visible[a] = ByteAt(a)
  BY <1>1, <1>2 DEF Visible
<1> QED
  BY <1>1, <1>2, <1>3, <1>4 DEF Flat!Grant

LEMMA WriteRefines ==
  ASSUME TypeOK, NoAlias, RightsKept, NEW a \in Addr, Write(a)
  PROVE  Flat!Grant(a, "Write")
<1>1. /\ stage = "run" /\ Walk(PageOf(a), "Write") = "ok"
      /\ last' = [acc |-> "Write", addr |-> a, res |-> "ok", val |-> UserByte]
      /\ mem' = [mem EXCEPT ![Leaf(PageOf(a)).ppn] = [@ EXCEPT ![OffOf(a)] = UserByte]]
      /\ UNCHANGED <<obj, stage>>
  BY DEF Write
<1>2. PageMapped(PageOf(a)) /\ "Write" \in AllowedAt(obj, a) /\ "Write" \in Access
  BY <1>1, WalkAllowed DEF Access
<1>3. PageOf(a) \in Page /\ OffOf(a) \in Off
  BY PageOfType
<1>4. ByteAt(a)' = UserByte
  <2>1. Leaf(PageOf(a))'.ppn = Leaf(PageOf(a)).ppn /\ Leaf(PageOf(a)).ppn \in Frame
    BY <1>2, <1>3, WriteKeepsPages, DirtyType
  <2> QED
    BY <1>1, <1>3, <2>1 DEF ByteAt, TypeOK
<1>5. ASSUME NEW b \in Addr
      PROVE  (PageMapped(PageOf(b))' <=> PageMapped(PageOf(b)))
             /\ (b # a /\ PageMapped(PageOf(b)) => ByteAt(b)' = ByteAt(b))
  <2>1. PageMapped(PageOf(b))' <=> PageMapped(PageOf(b))
    BY PageOfType, WriteRights
  <2>2. b # a /\ PageMapped(PageOf(b)) => ByteAt(b)' = ByteAt(b)
    BY <1>1, WriteIsLocal
  <2> QED
    BY <2>1, <2>2
<1>6. ASSUME NEW b \in Addr
      PROVE  (IF stage' # "run" \/ ~PageMapped(PageOf(b))' THEN Fresh ELSE ByteAt(b)')
               = IF b = a THEN UserByte ELSE Visible[b]
  BY <1>1, <1>2, <1>4, <1>5 DEF Visible
<1>7. Visible' = [Visible EXCEPT ![a] = UserByte]
  BY <1>6 DEF Visible
<1>8. Visible'[a] = UserByte
  BY <1>7 DEF Visible
<1> QED
  BY <1>1, <1>2, <1>7, <1>8 DEF Flat!Grant

LEMMA TrapRefines ==
  ASSUME NEW a \in Addr, NEW acc \in Access, Trap(a, acc)
  PROVE  Flat!Refuse(a, acc)
<1>1. /\ stage = "run" /\ Walk(PageOf(a), acc) # "ok"
      /\ last' = [acc |-> acc, addr |-> a, res |-> Walk(PageOf(a), acc), val |-> Fresh]
      /\ UNCHANGED <<obj, stage, l1, tab, mem>>
  BY DEF Trap
<1>2. Visible' = Visible
  BY <1>1 DEF Visible, PageMapped, Leaf, Present, ByteAt
<1> QED
  BY <1>1, <1>2 DEF Flat!Refuse

LEMMA StepRefines ==
  ASSUME TypeOK, NoAlias, FramesTaken, LoadInv, LoadInv', WellFormed(obj), [Next]_vars
  PROVE  [Flat!Next]_(Flat!vars)
<1>1. Placed /\ RightsKept /\ BytesKept /\ stage # "overflow" /\ stage' # "overflow"
  <2>1. obj' = obj
    BY DEF Next, Load, User, LoadSegment, MapPage, EndSegment, EndHeap, LoadStack, StartUser,
           Write, Read, Trap, vars
  <2>2. Placed'
    BY <2>1 DEF LoadInv
  <2> QED
    BY <2>2 DEF LoadInv, Placed
<1>2. CASE StartUser
  BY <1>1, <1>2, StartRefines DEF Flat!Next, Flat!Load
<1>3. CASE Load /\ ~StartUser
  BY <1>1, <1>3, LoadRefines
<1>4. CASE \E a \in Addr : Write(a)
  <2>1. PICK a \in Addr : Write(a)
    BY <1>4
  <2>2. Flat!Grant(a, "Write") /\ "Write" \in Access
    BY <1>1, <2>1, WriteRefines DEF Access
  <2> QED
    BY <2>2 DEF Flat!Next
<1>5. CASE \E a \in Addr, acc \in Access : Read(a, acc) \/ Trap(a, acc)
  <2>1. PICK a \in Addr, acc \in Access : Read(a, acc) \/ Trap(a, acc)
    BY <1>5
  <2>2. Flat!Grant(a, acc) \/ Flat!Refuse(a, acc)
    BY <1>1, <2>1, ReadRefines, TrapRefines
  <2> QED
    BY <2>2 DEF Flat!Next
<1>6. CASE UNCHANGED vars
  <2>1. UNCHANGED <<obj, stage, l1, tab, mem, last>>
    BY <1>6 DEF vars
  <2>2. Visible' = Visible
    BY <2>1 DEF Visible, PageMapped, Leaf, Present, ByteAt
  <2> QED
    BY <2>1, <2>2 DEF Flat!vars
<1> QED
  BY <1>2, <1>3, <1>4, <1>5, <1>6 DEF Next, User

LEMMA InitRefines == Init => Flat!Init
<1> SUFFICES ASSUME Init PROVE Flat!Init
  OBVIOUS
<1>1. stage = "next" /\ last.res = "none"
  BY DEF Init, Idle
<1>2. Visible = [a \in Addr |-> Fresh]
  BY <1>1 DEF Visible
<1> QED
  BY <1>1, <1>2 DEF Flat!Init

LEMMA ObjectStays == [Next]_vars => obj' = obj
BY DEF Next, Load, User, LoadSegment, MapPage, EndSegment, EndHeap, LoadStack, StartUser,
       Write, Read, Trap, vars

\* A program whose object is well-formed sees the flat memory of FlatMemory:
\* it starts with the bytes of the object, is granted an access only where the
\* object asks for it, and what it reads is what it last wrote there, whatever
\* the page tables, the dirty flags and the frames do underneath.
THEOREM SeesFlatMemory ==
  Spec /\ WellFormed(obj) => Flat!Init /\ [][Flat!Next]_(Flat!vars)
<1>1. WellFormed(obj) /\ [Next]_vars => WellFormed(obj)'
  BY ObjectStays
<1>2. Spec /\ WellFormed(obj) => []WellFormed(obj)
  BY <1>1, PTL DEF Spec
<1>3. TypeOK /\ NoAlias /\ FramesTaken /\ LoadInv /\ LoadInv' /\ WellFormed(obj) /\ [Next]_vars
        => [Flat!Next]_(Flat!vars)
  BY StepRefines
<1> QED
  BY <1>2, <1>3, InitRefines, LoadInvariant, PTL DEF Spec
=============================================================================
