---------------------------- MODULE MCInspection ----------------------------
(* Small programs, from location 1 on; what is not an instruction is null. *)
EXTENDS Inspection, TLC

Ins(o, w) == [op |-> o, w |-> w]
Text(last, f) == f @@ [a \in 1 .. last |-> Ins("null", 0)]
Sym(n, g, l) == [name |-> n, global |-> g, loc |-> l]

\* main calls f again and again; f calls itself.
Recursive == Text(21,
  1 :> Ins("call", 9) @@ 4 :> Ins("jcc", 1) @@ 7 :> Ins("syscall", 0) @@ 8 :> Ins("halt", 0) @@
  9 :> Ins("push", 0) @@ 11 :> Ins("jcc", 18) @@ 14 :> Ins("call", 9) @@ 17 :> Ins("plain", 0) @@
  18 :> Ins("pop", 0) @@ 20 :> Ins("ret", 0))
RecursiveSyms == <<Sym("", FALSE, 18), Sym("f", FALSE, 9), Sym("main", TRUE, 1)>>

\* main sets an error handler and calls g, which may fail on its data at 30; the
\* handler jumps back to the end of main.
Handled == Text(24,
  1 :> Ins("ldi", 18) @@ 5 :> Ins("syscall", 0) @@ 6 :> Ins("call", 10) @@ 9 :> Ins("halt", 0) @@
  10 :> Ins("access", 30) @@ 14 :> Ins("binop", 0) @@ 17 :> Ins("ret", 9) @@
  18 :> Ins("ret", 0) @@ 20 :> Ins("jmp", 9))
HandledSyms == <<Sym("g", TRUE, 10), Sym("", FALSE, 9), Sym("h", FALSE, 18), Sym("data", FALSE, 30),
                 Sym("main", FALSE, 1), Sym("main", TRUE, 1)>>

\* f returns by jmp rl; behind it come a privileged instruction, reth, and one
\* that the end of the segment cuts off.
Plain == Text(18,
  1 :> Ins("call", 5) @@ 4 :> Ins("halt", 0) @@ 5 :> Ins("binop", 0) @@ 8 :> Ins("jmpl", 0) @@
  12 :> Ins("privileged", 0) @@ 13 :> Ins("reth", 0) @@ 14 :> Ins("plain", 0) @@
  15 :> Ins("plain", 0) @@ 16 :> Ins("jmp", 1))
PlainSyms == <<Sym("main", TRUE, 1), Sym("f", FALSE, 5), Sym("p", TRUE, 12), Sym("q", TRUE, 15),
               Sym("r", TRUE, 13)>>

\* All of memory is executable, so that the listing comes around.
Everywhere == [a \in 0 .. W - 1 |-> Ins("plain", 0)]

Job(c, s, e, f, b, g, h) ==
  [code |-> c, syms |-> s, entry |-> e, from |-> f, start |-> b, goto |-> g, handler |-> h]

MCJobs ==
  { Job(Recursive, s, e, f, "main", g, 0) :
      s \in {RecursiveSyms, SubSeq(RecursiveSyms, 2, 3)}, e \in {-1, 1},
      f \in {<<>>, <<"f">>, <<"f", "nobody">>}, g \in {{}, {9, 25}} }
  \cup { Job(Handled, HandledSyms, 1, f, b, {}, h) :
      f \in {<<>>, <<"data", "main">>}, b \in {"nobody", "g", "main"}, h \in {0, 18} }
  \cup { Job(Plain, PlainSyms, e, <<>>, b, {15}, 0) : e \in {-1, 12}, b \in {"nobody", "main", "p"} }
  \cup { Job(Everywhere, s, 3, <<>>, "nobody", {}, 0) : s \in {<<>>, <<Sym("a", TRUE, 7)>>} }
=============================================================================
