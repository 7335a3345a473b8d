---------------------------- MODULE MCObjectFile ----------------------------
(* Small objects, with what tc and tl write and what only the library can. *)
EXTENDS ObjectFile

Seg(o, b) == [off |-> o, bytes |-> b]
Sym(n, g, t, l) == [name |-> n, global |-> g, stype |-> t, loc |-> l]
Rel(t, l, i) == [stype |-> t, loc |-> l, index |-> i]
a == 97

\* As tc writes it: two segments, a local and a global symbol, a reference.
Compiled == [NoObject EXCEPT
  !.segs = (32 :> Seg(0, <<7, 0, 0>>)) @@ (16 :> Seg(4, <<1>>)),
  !.syms = <<Sym(<<a>>, FALSE, 16, 4), Sym(<<a>>, TRUE, 32, 1)>>,
  !.relocs = <<Rel(32, 1, 0), Rel(16, 4, 1)>>]
\* As tl writes it: an entry point, and a name that looks like a section.
Linked == [NoObject EXCEPT
  !.entry = <<[stype |-> 32, loc |-> 0]>>, !.segs = 32 :> Seg(0, <<195, 118>>),
  !.syms = <<Sym(<<Underscore, a>>, TRUE, 32, 0)>>]
\* Sizes and flags; empty segments of the first and the last type.
Sized == [NoObject EXCEPT !.flags = <<TRUE>>, !.stack = <<3>>, !.heap = <<0>>,
  !.segs = (0 :> Seg(0, <<>>)) @@ (255 :> Seg(9, <<>>))]
Tables == [NoObject EXCEPT !.flags = <<FALSE>>, !.stack = <<2>>, !.heap = <<5>>,
  !.syms = <<Sym(<<>>, FALSE, 0, 0)>>, !.relocs = <<Rel(0, 0, 0)>>]
\* Not portable: a heap size without a stack size, a segment too long for its
\* length, a nameless global symbol, one that looks local.
HeapOnly == [Tables EXCEPT !.stack = <<>>]
Long == [NoObject EXCEPT !.segs = 32 :> Seg(0, <<0, 16, 0, 0, 0, 0, 0, 0, 0, 0, 0, 0, 0, 0>>)]
Nameless == [NoObject EXCEPT !.syms = <<Sym(<<>>, TRUE, 32, 0)>>]
Spaced == [NoObject EXCEPT !.syms = <<Sym(<<Space, a>>, TRUE, 32, 0)>>]

Shebang == <<35, 33, 10>>
Objects == {Compiled, Linked, Sized, Tables, HeapOnly, Long, Nameless, Spaced}

Job(os, p, s, t, f) == [objs |-> os, prefix |-> p, strip |-> s, tar |-> t, faults |-> f]

Faulty == { Job(<<o>>, Shebang, "no", FALSE, TRUE) : o \in Objects } \cup
          { Job(<<Linked>>, Shebang, "names", FALSE, TRUE),
            Job(<<Tables, Linked>>, <<>>, "no", TRUE, TRUE) }
Single == { Job(<<o>>, p, s, FALSE, FALSE) :
              o \in Objects, p \in {<<>>, Shebang, SavnMagic, <<AalvMagic[1]>>},
              s \in {"no", "names", "all", "force"} }
Archives == { Job(<<o, q>>, p, "no", TRUE, FALSE) :
                o \in {Compiled, Tables}, q \in Objects, p \in {<<>>, Shebang} }

MCJobs == Faulty \cup Single \cup Archives
=============================================================================
