------------------------------ MODULE MCLinker ------------------------------
(* Small objects for Linker, with the segments, symbols and relocations tc
   gives them. *)
EXTENDS Linker

MCNames == {"f", "g"}

Bytes(tag, n) == [x \in 1 .. n |-> <<"byte", tag, x - 1>>]
Def(n, t, loc) == [name |-> n, global |-> TRUE, seg |-> t, loc |-> loc]
Local(t, loc) == [name |-> "f", global |-> FALSE, seg |-> t, loc |-> loc]
Reference(n)         == [name |-> n, global |-> TRUE, seg |-> "unknown", loc |-> Nowhere]
At4(t, loc, id) == [seg |-> t, loc |-> loc, sym |-> id]
Part(s, tag, n) == [start |-> s, bytes |-> Bytes(tag, n)]

\* The roles of f and g in an object: f is defined in the text at 5, g in the
\* data at 4; a referenced one is an operand in the text.  A local symbol is
\* at the end of the text.
Shape(f, g, ent) ==
  LET tag == <<f, g, ent>>
      text == IF g = "def" THEN 8 ELSE 4        \* start of the text
  IN [segs |-> IF g = "def"
               THEN [data |-> Part(4, <<"d", tag>>, 3), text |-> Part(text, <<"t", tag>>, 5)]
               ELSE [text |-> Part(text, <<"t", tag>>, 5)],
      syms |-> <<Local("text", text + 4)>>
               \o (CASE f = "def" -> <<Def("f", "text", text + 1)>>
                     [] f = "ref" -> <<Reference("f")>> [] OTHER -> <<>>)
               \o (CASE g = "def" -> <<Def("g", "data", 5)>>
                     [] g = "ref" -> <<Reference("g")>> [] OTHER -> <<>>),
      relocs |-> (IF f = "ref" THEN <<At4("text", text, 2)>> ELSE <<>>)
                 \o (IF g = "ref" THEN <<At4("text", text + 2, IF f = "no" THEN 2 ELSE 3)>> ELSE <<>>)
                 \o (IF g = "def" THEN <<At4("data", 4, 1)>> ELSE <<>>),
      entry |-> IF ent THEN <<"text", text + 2>> ELSE NoEntry]

Roles  == {"no", "def", "ref"}
MCInputBytes == {"byte"} \X ({"d", "t"} \X (Roles \X Roles \X BOOLEAN)) \X (0 .. 4)

Shapes == {Shape(f, g, ent) : f \in Roles, g \in Roles, ent \in BOOLEAN}
Plain  == {Shape(f, g, FALSE) : f \in Roles, g \in Roles}

\* tc adds the start of the segment twice to the place of a `.wide label`.
Doubled == [Shape("ref", "no", TRUE) EXCEPT !.relocs[1].loc = 8]

\* A `.reference` that is not used.
Unused == [Shape("no", "no", TRUE) EXCEPT !.syms = Append(@, Reference("f"))]

\* An `.entry`, or a label that is referred to, in front of the first segment
\* or in a segment that stays without bytes.
StrayEntries == {[Shape("no", g, FALSE) EXCEPT !.entry = <<t, 0>>] :
                   g \in {"no", "ref"}, t \in {"unknown", "heap"}}
StrayLabels  == {[Shape("no", "ref", ent) EXCEPT !.syms[2] = Local(t, 0)] :
                   ent \in BOOLEAN, t \in {"unknown", "heap"}}

Options == {<<FALSE, "none">>, <<TRUE, "none">>, <<TRUE, "f">>, <<TRUE, "0x">>}
NewJob(os, ar, op) == [objs |-> os, lib |-> ar, exe |-> op[1], setEntry |-> op[2]]

\* One or two objects, and a third with a second invocation.
LinkJobs == {NewJob(os, <<>>, op) : os \in {<<a>> : a \in Shapes}
                                       \cup {<<a, b>> : a \in Shapes, b \in Plain}
                                       \cup {<<a, b>> : a \in {Doubled, Unused}, b \in Plain},
                                 op \in Options}
LinkRelinks == {NewJob(<<a>>, <<>>, op) : a \in Plain, op \in {<<TRUE, "none">>, <<FALSE, "none">>}}

\* One or two objects, of which one is stray.
StrayJobs == {NewJob(os, <<>>, op) : os \in {<<a>> : a \in StrayEntries \cup StrayLabels}
                                        \cup {<<a, b>> : a \in StrayEntries \cup StrayLabels, b \in Plain}
                                        \cup {<<b, a>> : a \in StrayEntries, b \in {Shape("no", "no", TRUE)}},
                                  op \in Options}

\* One object and up to three archived ones.
Archives == {<<a, b>> : a \in Plain, b \in Plain}
            \cup {<<a, b, c>> : a \in Plain, b \in Plain, c \in Plain}
ArchiveJobs == {NewJob(<<a>>, ar, <<TRUE, "none">>) : a \in {Shape(f, g, TRUE) : f \in Roles, g \in Roles},
                                                    ar \in Archives}

\* All of them, for one run.
AllJobs == LinkJobs \cup StrayJobs \cup ArchiveJobs
=============================================================================
