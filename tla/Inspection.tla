----------------------------- MODULE Inspection -----------------------------
(***************************************************************************)
(* The two tools that look at an object, one after the other: tobjdump     *)
(* lists its code (ObjDump), then tdbg runs it (Debugger).                 *)
(***************************************************************************)
EXTENDS Integers, Sequences, FiniteSets

CONSTANTS W, Room, MaxDepth,
  Jobs  \* objects: code, symbols, entry point; options: -D, -E; what g may name

VARIABLES job, queue, printed, location, headers, listed, dump,
          stage, current, target, pc, rl, saved, handler, frames, asked, odd

Dump == INSTANCE ObjDump
Debug == INSTANCE Debugger

listing == <<queue, printed, location, headers, listed, dump>>
session == <<stage, current, target, pc, rl, saved, handler, frames, asked, odd>>
vars == <<job, listing, session>>

\* Instructions and symbols are where a program may be, and so is what may be
\* asked for.
Location == 0 .. W - 1
Symbol == [name : STRING, global : BOOLEAN, loc : Location]
ASSUME JobsAssumption ==
  /\ W \in Nat \ {0}
  /\ \A j \in Jobs :
       /\ DOMAIN j.code \subseteq Location
       /\ j.code \in [DOMAIN j.code -> [op : Debug!Op, w : Location]]
       /\ j.syms \in Seq(Symbol)
       /\ j.entry \in Location \cup {-1}
       /\ j.from \in Seq(STRING)
       /\ j.goto \subseteq Location
       /\ j.handler \in Location

Init == job \in Jobs /\ Dump!Init /\ Debug!Init

Next ==
  \/ dump = "listing" /\ Dump!Next /\ UNCHANGED session
  \/ dump # "listing" /\ Debug!Next /\ UNCHANGED listing

\* The listing goes on by itself; a session waits for its user.
Spec == Init /\ [][Next]_vars /\ WF_vars(Dump!Next /\ UNCHANGED session)

----------------------------------------------------------------------------
(* Properties *)

EachLabelOnce == Dump!EachLabelOnce
ListingEnds == Dump!ListingEnds
StepsLandRight == Debug!StepsLandRight

\* What runs has been listed.  From a start that is listed, an instruction the
\* debugger stops at is in the listing, if every jump and call in the program
\* names a label and every return is by ret to where the call came from: nothing
\* that runs is behind what tobjdump takes for the end of a block.
Labelled ==
  \A a \in listed : job.code[a].op \in {"call", "jmp", "jcc"} => Dump!Referred(a) # Dump!None
ListsWhatRuns ==
  stage = "prompt" /\ dump = "done" /\ Labelled /\ Debug!Start \in listed /\ odd = {} =>
    pc \in listed
=============================================================================
