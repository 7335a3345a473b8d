---------------------------- MODULE MCUserSpace ----------------------------
(* Small object files for UserSpace. *)
EXTENDS UserSpace

Seg(t, o, n) == [type |-> t, off |-> o, len |-> n]

\* Data over two pages and into the middle of both, text in the same part of
\* the level-one table, a stack in the other part.
DataText == [segs  |-> <<Seg("data", 1, 2), Seg("text", 4, 1)>>,
             rtext |-> FALSE, heap |-> 4, stack |-> 2]

\* Text and read-only data in one page, a heap that begins in mid-page.
SharedPage == [segs  |-> <<Seg("rodata", 2, 1), Seg("text", 3, 2), Seg("heap", 7, 1)>>,
               rtext |-> TRUE, heap |-> 3, stack |-> 1]

\* A zero segment, an empty data segment in mid-page and no stack.
NoStack == [segs  |-> <<Seg("zero", 1, 2), Seg("data", 5, 0), Seg("text", 10, 1)>>,
            rtext |-> FALSE, heap |-> 0, stack |-> 0]

\* The heap meets the stack.
BigHeap == [segs  |-> <<Seg("text", 3, 2), Seg("heap", 8, 0)>>,
            rtext |-> FALSE, heap |-> 3, stack |-> 2]

\* Not well-formed: a segment that ends at the end of the address space, and
\* a heap smaller than the heap segment.
AtTheEnd  == [segs |-> <<Seg("text", 2, 1), Seg("unknown", 8, 4)>>,
              rtext |-> FALSE, heap |-> 4, stack |-> 1]
SmallHeap == [segs |-> <<Seg("text", 2, 1), Seg("heap", 4, 3)>>,
              rtext |-> FALSE, heap |-> 1, stack |-> 1]

MCObjects == {DataText, SharedPage, NoStack, BigHeap, AtTheEnd, SmallHeap}
=============================================================================
