------------------------------- MODULE ObjDump -------------------------------
(***************************************************************************)
(* tobjdump -d (src/bin/tobjdump.rs): blocks of instructions are listed    *)
(* from a queue of labels, to which every label is added that a listed     *)
(* instruction refers to.  A label is the index of a symbol; the entry     *)
(* point is the label behind the last symbol.                              *)
(***************************************************************************)
EXTENDS Disassembler, Sequences, FiniteSets, SequencesExt

VARIABLES
  job,       \* the object and the options of the tools
  queue,     \* labels_to_print
  printed,   \* printed_labels
  location,  \* where the listing of a block goes on, or None
  headers,   \* history: the labels printed at the start of a line
  listed,    \* history: the locations of the instructions listed
  dump       \* "listing", "done", or "panic"

vars == <<queue, printed, location, headers, listed, dump>>

None == -1
Locations == 0 .. W - 1

EntryId == Len(job.syms) + 1
Labels == 1 .. Len(job.syms) \cup IF job.entry = None THEN {} ELSE {EntryId}
LocationOf(l) == IF l = EntryId THEN job.entry ELSE job.syms[l].loc

\* pos_to_labels: a later symbol replaces an earlier one, the entry point all.
LabelsAt(a) == { l \in Labels : LocationOf(l) = a }
LabelAt(a) == IF LabelsAt(a) = {} THEN None ELSE CHOOSE l \in LabelsAt(a) : \A m \in LabelsAt(a) : m <= l

\* -D: the first symbol of each name.
ByName(name) == SelectInSeq(job.syms, LAMBDA s : s.name = name)
NamesMissing == \E i \in DOMAIN job.from : ByName(job.from[i]) = 0

\* Without it: the entry point and every global symbol.
Globals == FlattenSeq([i \in DOMAIN job.syms |-> IF job.syms[i].global THEN <<i>> ELSE <<>>])
StartList ==
  IF job.from # <<>> THEN [i \in DOMAIN job.from |-> ByName(job.from[i])]
  ELSE (IF job.entry = None THEN <<>> ELSE <<EntryId>>) \o Globals

Init ==
  /\ queue = IF NamesMissing THEN <<>> ELSE StartList
  /\ dump = IF NamesMissing THEN "panic" ELSE "listing"
  /\ printed = {} /\ location = None /\ headers = <<>> /\ listed = {}

Idle == dump = "listing" /\ location = None

\* Printed labels can end up in the queue.
Skip ==
  /\ Idle /\ queue # <<>> /\ Head(queue) \in printed
  /\ queue' = Tail(queue)
  /\ UNCHANGED <<job, printed, location, headers, listed, dump>>

StartBlock ==
  /\ Idle /\ queue # <<>> /\ Head(queue) \notin printed
  /\ LET l == Head(queue)
     IN /\ headers' = Append(headers, l) /\ printed' = printed \cup {l}
        /\ location' = LocationOf(l)
  /\ queue' = Tail(queue)
  /\ UNCHANGED <<job, listed, dump>>

\* A trap: "data" or "unmapped data" ends the block.
Data ==
  /\ dump = "listing" /\ location # None /\ ~Fetchable(job.code, location)
  /\ location' = None
  /\ UNCHANGED <<job, queue, printed, headers, listed, dump>>

\* The label the instruction refers to is printed later, if it has not been.
Referred(a) == IF job.code[a].op \in HasWide THEN LabelAt(job.code[a].w) ELSE None
QueuedOnce(l) == IF l = None \/ l \in printed \/ queue # <<>> THEN <<>> ELSE <<l>>   \* faulty variant
Queued(l) == IF l = None \/ l \in printed THEN <<>> ELSE <<l>>

\* A block goes on until an instruction ends it, or up to a printed label.
ContinuesThrough(n) == TRUE   \* faulty variant
Continues(n) == LabelAt(n) \notin printed
List ==
  /\ dump = "listing" /\ location # None /\ Fetchable(job.code, location)
  /\ queue' = queue \o Queued(Referred(location))
  /\ listed' = listed \cup {location}
  /\ LET n == NextLocation(job.code, location)
         ends == job.code[location].op \in EndsBlock
         fresh == ~ends /\ LabelAt(n) # None /\ LabelAt(n) \notin printed
     IN /\ headers' = IF fresh THEN Append(headers, LabelAt(n)) ELSE headers
        /\ printed' = IF fresh THEN printed \cup {LabelAt(n)} ELSE printed
        /\ location' = IF ~ends /\ Continues(n) THEN n ELSE None
  /\ UNCHANGED <<job, dump>>

Finish ==
  /\ Idle /\ queue = <<>>
  /\ dump' = "done"
  /\ UNCHANGED <<job, queue, printed, location, headers, listed>>

Next == Skip \/ StartBlock \/ Data \/ List \/ Finish

----------------------------------------------------------------------------
(* Properties *)

\* Each label has one block: what was asked for and what a listed instruction
\* refers to is printed in the end, once, and with all the code that follows,
\* up to an instruction behind which nothing runs.
Listed(l) == Fetchable(job.code, LocationOf(l)) => LocationOf(l) \in listed
EachLabelOnce ==
  /\ IsInjective(headers) /\ ToSet(headers) = printed
  /\ dump = "done" =>
       /\ ToSet(StartList) \subseteq printed
       /\ \A l \in printed : Listed(l)
       /\ \A a \in listed :
            /\ Referred(a) # None => Referred(a) \in printed
            /\ LET n == NextLocation(job.code, a)
               IN job.code[a].op \notin EndsBlock /\ Fetchable(job.code, n) => n \in listed

\* The queue grows while it is consumed, and the listing still ends.
ListingEnds == <>(dump # "listing")
=============================================================================
