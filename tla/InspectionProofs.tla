-------------------------- MODULE InspectionProofs --------------------------
(***************************************************************************)
(* Proofs about tobjdump and tdbg, for every object: every code, table of  *)
(* symbols, entry point and choice of options.                             *)
(*                                                                         *)
(*   1. EachLabelOnce, from the inductive invariant ListInv: what a listed *)
(*      instruction refers to or goes on to is listed, or still to come    *)
(*   2. ListsWhatRuns, from the closure of the finished listing (RunInv)   *)
(*   3. StepsLandRight, from the inductive invariant CourseInv: what the   *)
(*      debugger counts is the depth of the calls, and an activation it    *)
(*      waits for is still below the one that runs                         *)
(***************************************************************************)
EXTENDS Inspection, DataFacts, SequenceTheorems, TLAPS

----------------------------------------------------------------------------
(* 1. The listing *)

LEMMA JobTypes ==
  ASSUME NEW j \in Jobs
  PROVE  /\ W \in Nat \ {0}
         /\ DOMAIN j.code \subseteq Location
         /\ \A a \in DOMAIN j.code : j.code[a].op \in Dump!Op /\ j.code[a].w \in Location
         /\ j.syms \in Seq(Symbol) /\ Len(j.syms) \in Nat /\ DOMAIN j.syms = 1 .. Len(j.syms)
         /\ \A i \in 1 .. Len(j.syms) : j.syms[i].loc \in Location
         /\ j.entry \in Location \cup {-1}
         /\ j.from \in Seq(STRING) /\ j.goto \subseteq Location /\ j.handler \in Location
<1>1. /\ W \in Nat \ {0}
      /\ DOMAIN j.code \subseteq Location
      /\ j.code \in [DOMAIN j.code -> [op : Debug!Op, w : Location]]
      /\ j.syms \in Seq(Symbol)
      /\ j.entry \in Location \cup {-1}
      /\ j.from \in Seq(STRING) /\ j.goto \subseteq Location /\ j.handler \in Location
  BY JobsAssumption
<1>2. Debug!Op = Dump!Op
  BY DEF Debug!Op, Dump!Op, Debug!Length, Dump!Length
<1>3. ASSUME NEW a \in DOMAIN j.code PROVE j.code[a].op \in Dump!Op /\ j.code[a].w \in Location
  <2>1. j.code[a] \in [op : Debug!Op, w : Location]
    BY <1>1
  <2> QED
    BY <1>2, <2>1
<1>4. ASSUME NEW i \in 1 .. Len(j.syms) PROVE j.syms[i].loc \in Location
  <2>1. j.syms[i] \in Symbol
    BY <1>1, ElementOfSeq
  <2> QED
    BY <2>1 DEF Symbol
<1> QED
  BY <1>1, <1>3, <1>4

LEMMA SameDisassembler ==
  /\ Dump!Length = Debug!Length /\ Dump!EndsBlock = Debug!EndsBlock
  /\ Dump!HasWide = Debug!HasWide
  /\ \A c, a : Dump!NextLocation(c, a) = Debug!NextLocation(c, a)
  /\ \A c, a : Dump!Fetchable(c, a) <=> Debug!Fetchable(c, a)
BY DEF Dump!Length, Debug!Length, Dump!EndsBlock, Debug!EndsBlock, Dump!HasWide, Debug!HasWide,
       Dump!NextLocation, Debug!NextLocation, Dump!Fetchable, Debug!Fetchable

LEMMA LengthType ==
  /\ \A o \in Dump!Op : Dump!Length[o] \in 1 .. 4
  /\ Dump!Op = {"null", "halt", "plain", "syscall", "reth", "privileged", "push", "pop", "ret",
                "call", "jcc", "binop", "access", "ldi", "jmp", "jmpl"}
BY DEF Dump!Op, Dump!Length

LEMMA NextType ==
  ASSUME NEW j \in Jobs, NEW a \in DOMAIN j.code
  PROVE  Dump!NextLocation(j.code, a) \in Location
<1>1. a \in Int /\ W \in Nat \ {0} /\ j.code[a].op \in Dump!Op
  BY JobTypes DEF Location
<1>2. PICK n \in 1 .. 4 : n = Dump!Length[j.code[a].op]
  BY <1>1, LengthType
<1>3. a + n \in Int
  BY <1>1
<1>4. (a + n) % W \in 0 .. W - 1
  BY <1>1, <1>3, Division
<1> QED
  BY <1>2, <1>4 DEF Dump!NextLocation, Location

LEMMA LabelTypes ==
  ASSUME job \in Jobs
  PROVE  /\ Dump!Labels \subseteq 1 .. Len(job.syms) + 1
         /\ -1 \notin Dump!Labels
         /\ \A l \in Dump!Labels : Dump!LocationOf(l) \in Location
<1>1. Len(job.syms) \in Nat /\ \A i \in 1 .. Len(job.syms) : job.syms[i].loc \in Location
  BY JobTypes
<1>2. job.entry \in Location \cup {-1}
  BY JobTypes
<1>3. Dump!Labels \subseteq 1 .. Len(job.syms) + 1
  BY <1>1 DEF Dump!Labels, Dump!EntryId
<1>4. ASSUME NEW l \in Dump!Labels PROVE Dump!LocationOf(l) \in Location
  BY <1>1, <1>2 DEF Dump!Labels, Dump!EntryId, Dump!LocationOf, Dump!None
<1> QED
  BY <1>1, <1>3, <1>4

\* A set of labels has a last one.
LEMMA LastLabel ==
  ASSUME NEW n \in Nat, NEW S, S \subseteq 1 .. n, S # {}
  PROVE  \E m \in S : \A k \in S : k <= m
<1> DEFINE T == {n - k : k \in S}
<1>1. T \subseteq Nat /\ T # {}
  <2>1. ASSUME NEW k \in S PROVE n - k \in Nat
    <3>1. k \in 1 .. n
      OBVIOUS
    <3> QED
      BY <3>1
  <2>2. PICK k \in S : TRUE
    OBVIOUS
  <2>3. n - k \in T
    OBVIOUS
  <2> QED
    BY <2>1, <2>3
<1>2. PICK t \in T : \A u \in T : t <= u
  BY <1>1, LeastNumber
<1>3. PICK m \in S : t = n - m
  BY <1>2
<1>4. ASSUME NEW k \in S PROVE k <= m
  <2>1. n - m <= n - k
    BY <1>2, <1>3
  <2> QED
    BY <2>1
<1> QED
  BY <1>4

\* The label at a location is a label of that location.
LEMMA LabelAtType ==
  ASSUME job \in Jobs, NEW n
  PROVE  \/ Dump!LabelAt(n) = -1
         \/ Dump!LabelAt(n) \in Dump!Labels /\ Dump!LocationOf(Dump!LabelAt(n)) = n
<1> DEFINE S == Dump!LabelsAt(n)
<1>1. S \subseteq Dump!Labels /\ \A l \in S : Dump!LocationOf(l) = n
  BY DEF Dump!LabelsAt
<1>2. CASE S = {}
  BY <1>2 DEF Dump!LabelAt, Dump!None
<1>3. CASE S # {}
  <2>1. Len(job.syms) + 1 \in Nat /\ S \subseteq 1 .. Len(job.syms) + 1
    BY <1>1, LabelTypes, JobTypes
  <2>2. \E m \in S : \A k \in S : k <= m
    BY <1>3, <2>1, LastLabel
  <2>3. Dump!LabelAt(n) \in S
    BY <1>3, <2>2 DEF Dump!LabelAt
  <2> QED
    BY <1>1, <2>3
<1> QED
  BY <1>2, <1>3

LEMMA ReferredType ==
  ASSUME job \in Jobs, NEW a
  PROVE  \/ Dump!Referred(a) = -1
         \/ Dump!Referred(a) \in Dump!Labels /\ Dump!LocationOf(Dump!Referred(a)) = job.code[a].w
BY LabelAtType DEF Dump!Referred, Dump!None

\* A name that is not missing is found among the symbols.
LEMMA ByNameType ==
  ASSUME job \in Jobs, NEW name, Dump!ByName(name) # 0
  PROVE  Dump!ByName(name) \in 1 .. Len(job.syms)
<1> DEFINE I == {i \in 1 .. Len(job.syms) : job.syms[i].name = name}
<1>1. Dump!ByName(name) = IF I # {} THEN CHOOSE x \in I : \A y \in I : x =< y ELSE 0
  BY DEF Dump!ByName, Dump!SelectInSeq, Dump!Min
<1>2. I # {} /\ I \subseteq Nat
  BY <1>1
<1>3. \E x \in I : \A y \in I : x =< y
  BY <1>2, LeastNumber
<1>4. Dump!ByName(name) \in I
  BY <1>1, <1>2, <1>3
<1> QED
  BY <1>4

LEMMA SameFlatten == \A ss : Dump!FlattenSeq(ss) = FlattenSeq(ss)
BY DEF Dump!FlattenSeq, FlattenSeq

LEMMA GlobalsType ==
  ASSUME job \in Jobs
  PROVE  Dump!Globals \in Seq(1 .. Len(job.syms))
<1> DEFINE n == Len(job.syms)
           f == [i \in DOMAIN job.syms |-> IF job.syms[i].global THEN <<i>> ELSE <<>>]
<1>1. n \in Nat /\ DOMAIN job.syms = 1 .. n
  BY JobTypes
<1>2. ASSUME NEW i \in 1 .. n PROVE f[i] \in Seq(1 .. n)
  <2>1. <<i>> \in Seq(1 .. n) /\ <<>> \in Seq(1 .. n)
    OBVIOUS
  <2>2. f[i] = IF job.syms[i].global THEN <<i>> ELSE <<>>
    BY <1>1
  <2> QED
    BY <2>1, <2>2
<1>3. f \in Seq(Seq(1 .. n))
  <2>1. f \in [1 .. n -> Seq(1 .. n)]
    BY <1>1, <1>2
  <2> HIDE DEF f
  <2> QED
    BY <1>1, <2>1
<1>4. FlattenSeq(f) \in Seq(1 .. n)
  BY <1>3, FlattenType
<1> QED
  BY <1>4, SameFlatten DEF Dump!Globals

LEMMA StartListType ==
  ASSUME job \in Jobs, ~Dump!NamesMissing
  PROVE  Dump!StartList \in Seq(Dump!Labels)
<1>1. /\ Len(job.syms) \in Nat /\ job.from \in Seq(STRING)
      /\ DOMAIN job.from = 1 .. Len(job.from) /\ Len(job.from) \in Nat
  BY JobTypes, LenProperties
<1>2. 1 .. Len(job.syms) \subseteq Dump!Labels
  BY DEF Dump!Labels
<1>3. CASE job.from # <<>>
  <2>1. ASSUME NEW i \in DOMAIN job.from PROVE Dump!ByName(job.from[i]) \in Dump!Labels
    BY <1>2, ByNameType DEF Dump!NamesMissing
  <2>2. [i \in DOMAIN job.from |-> Dump!ByName(job.from[i])] \in Seq(Dump!Labels)
    BY <1>1, <2>1
  <2> QED
    BY <1>3, <2>2 DEF Dump!StartList
<1>4. CASE job.from = <<>>
  <2>1. Dump!Globals \in Seq(Dump!Labels)
    BY <1>2, GlobalsType, SeqMonotonic
  <2>2. (IF job.entry = -1 THEN <<>> ELSE <<Dump!EntryId>>) \in Seq(Dump!Labels)
    <3>1. job.entry # -1 => Dump!EntryId \in Dump!Labels
      BY DEF Dump!Labels, Dump!None
    <3>2. job.entry # -1 => <<Dump!EntryId>> \in Seq(Dump!Labels)
      BY <3>1
    <3> QED
      BY <3>2
  <2> QED
    BY <1>4, <2>1, <2>2, ConcatProperties DEF Dump!StartList, Dump!None
<1> QED
  BY <1>3, <1>4

Occurs(s, x) == \E i \in DOMAIN s : s[i] = x

ListTypes ==
  /\ job \in Jobs
  /\ queue \in Seq(Dump!Labels) /\ printed \subseteq Dump!Labels
  /\ location \in Location \cup {-1}
  /\ headers \in Seq(Dump!Labels)
  /\ \A a \in listed : a \in Location /\ Dump!Fetchable(job.code, a)
  /\ dump \in {"listing", "done", "panic"}
  /\ dump = "done" => queue = <<>> /\ location = -1

\* Each label is printed once.
Once == IsInjective(headers) /\ \A l \in Dump!Labels : l \in printed <=> Occurs(headers, l)

\* What must be listed is printed or in the queue; a block that has begun goes
\* on to its end, at location.
Pending(l) == l \in printed \/ Occurs(queue, l)
Following(a) == Dump!NextLocation(job.code, a)
Closing ==
  dump # "panic" =>
    /\ \A i \in DOMAIN Dump!StartList : Pending(Dump!StartList[i])
    /\ \A a \in listed : Dump!Referred(a) # -1 => Pending(Dump!Referred(a))
    /\ \A l \in printed :
         Dump!Fetchable(job.code, Dump!LocationOf(l)) => Dump!LocationOf(l) \in listed \cup {location}
    /\ \A a \in listed :
         job.code[a].op \notin Dump!EndsBlock /\ Dump!Fetchable(job.code, Following(a)) =>
           Following(a) \in listed \cup {location}

ListInv == ListTypes /\ Once /\ Closing

LEMMA OccursAppend ==
  ASSUME NEW S, NEW s \in Seq(S), NEW e \in S
  PROVE  /\ \A x : Occurs(Append(s, e), x) <=> Occurs(s, x) \/ x = e
         /\ IsInjective(s) /\ ~Occurs(s, e) => IsInjective(Append(s, e))
<1> DEFINE n == Len(s)  t == Append(s, e)
<1>1. /\ n \in Nat /\ DOMAIN s = 1 .. n /\ t \in Seq(S) /\ Len(t) = n + 1 /\ DOMAIN t = 1 .. n + 1
      /\ \A i \in 1 .. n : t[i] = s[i]
      /\ t[n + 1] = e
  BY AppendProperties, LenProperties
<1> HIDE DEF n, t
<1>2. ASSUME NEW x PROVE Occurs(t, x) <=> Occurs(s, x) \/ x = e
  <2>1. ASSUME NEW i \in DOMAIN t, t[i] = x PROVE Occurs(s, x) \/ x = e
    <3>1. i \in 1 .. n \/ i = n + 1
      BY <1>1
    <3> QED
      BY <1>1, <2>1, <3>1 DEF Occurs
  <2>2. ASSUME NEW i \in DOMAIN s, s[i] = x PROVE Occurs(t, x)
    <3>1. i \in DOMAIN t /\ t[i] = x
      BY <1>1, <2>2
    <3> QED
      BY <3>1 DEF Occurs
  <2>3. n + 1 \in DOMAIN t
    BY <1>1
  <2> QED
    BY <1>1, <2>1, <2>2, <2>3 DEF Occurs
<1>3. ASSUME IsInjective(s), ~Occurs(s, e), NEW i \in DOMAIN t, NEW j \in DOMAIN t, t[i] = t[j]
      PROVE  i = j
  <2>1. i \in 1 .. n \/ i = n + 1
    BY <1>1
  <2>2. j \in 1 .. n \/ j = n + 1
    BY <1>1
  <2>3. \A k \in 1 .. n : s[k] # e
    BY <1>1, <1>3 DEF Occurs
  <2> QED
    BY <1>1, <1>3, <2>1, <2>2, <2>3 DEF IsInjective
<1>4. IsInjective(s) /\ ~Occurs(s, e) => IsInjective(t)
  BY <1>3 DEF IsInjective
<1> QED
  BY <1>2, <1>4 DEF t

LEMMA OccursTail ==
  ASSUME NEW S, NEW s \in Seq(S), s # <<>>, NEW x, Occurs(s, x)
  PROVE  x = Head(s) \/ Occurs(Tail(s), x)
<1>1. PICK i \in DOMAIN s : s[i] = x
  BY DEF Occurs
<1>2. PICK n \in Nat : n = Len(s)
  OBVIOUS
<1>3. /\ i \in 1 .. n /\ Tail(s) \in Seq(S) /\ Len(Tail(s)) = n - 1
      /\ DOMAIN Tail(s) = 1 .. n - 1
      /\ \A k \in 1 .. n - 1 : Tail(s)[k] = s[k + 1]
      /\ Head(s) = s[1]
  BY <1>1, <1>2
<1>4. CASE i # 1
  <2>1. PICK k \in 1 .. n - 1 : k + 1 = i
    <3>1. i - 1 \in 1 .. n - 1 /\ i - 1 + 1 = i
      BY <1>3, <1>4
    <3> QED
      BY <3>1
  <2> QED
    BY <1>1, <1>3, <2>1 DEF Occurs
<1> QED
  BY <1>1, <1>3, <1>4

LEMMA JobStays ==
  ASSUME [Next]_vars
  PROVE  job' = job
<1>1. CASE Dump!Next
  BY <1>1 DEF Dump!Next, Dump!Skip, Dump!StartBlock, Dump!Data, Dump!List, Dump!Finish
<1>2. CASE Debug!Next
  BY <1>2 DEF Debug!Next, Debug!Unreadable, Debug!Disassemble, Debug!Quit, Debug!ReadUnmapped,
     Debug!Command, Debug!Goto, Debug!Execute, Debug!GoesOn, Debug!Step, Debug!Jump, Debug!Call,
     Debug!Return, Debug!JumpLink, Debug!SaveLink, Debug!RestoreLink, Debug!SetHandler,
     Debug!Trap, Debug!End
<1> QED
  BY <1>1, <1>2 DEF Next, vars

LEMMA SameLabels ==
  ASSUME job' = job
  PROVE  /\ Dump!Labels' = Dump!Labels /\ Dump!StartList' = Dump!StartList
         /\ \A l : Dump!LocationOf(l)' = Dump!LocationOf(l)
         /\ \A a : Dump!Referred(a)' = Dump!Referred(a)
         /\ \A a : Following(a)' = Following(a)
<1>1. Dump!EntryId' = Dump!EntryId
  BY DEF Dump!EntryId
<1>2. Dump!Labels' = Dump!Labels
  BY <1>1 DEF Dump!Labels
<1>3. \A l : Dump!LocationOf(l)' = Dump!LocationOf(l)
  BY <1>1 DEF Dump!LocationOf
<1>4. ASSUME NEW n PROVE Dump!LabelAt(n)' = Dump!LabelAt(n)
  <2>1. Dump!LabelsAt(n)' = Dump!LabelsAt(n)
    BY <1>2, <1>3 DEF Dump!LabelsAt
  <2> QED
    BY <2>1 DEF Dump!LabelAt
<1>5. ASSUME NEW a PROVE Dump!Referred(a)' = Dump!Referred(a)
  <2>1. Dump!LabelAt(job.code[a].w)' = Dump!LabelAt(job.code[a].w)
    BY <1>1, <1>2 DEF Dump!LabelAt, Dump!LabelsAt, Dump!LocationOf
  <2> QED
    BY <2>1 DEF Dump!Referred
<1>6. Dump!StartList' = Dump!StartList
  <2>1. ASSUME NEW name PROVE Dump!ByName(name)' = Dump!ByName(name)
    BY DEF Dump!ByName, Dump!SelectInSeq, Dump!Min
  <2>2. Dump!Globals' = Dump!Globals
    BY Zenon DEF Dump!Globals
  <2>3. \A i : Dump!ByName(job.from[i])' = Dump!ByName(job.from[i])
    BY <2>1 DEF Dump!ByName, Dump!SelectInSeq, Dump!Min
  <2> QED
    BY <1>1, <2>2, <2>3 DEF Dump!StartList
<1>7. \A a : Following(a)' = Following(a)
  BY DEF Following
<1> QED
  BY <1>2, <1>3, <1>5, <1>6, <1>7

LEMMA ListInit == Init => ListInv
<1> SUFFICES ASSUME Init PROVE ListInv
  OBVIOUS
<1>1. /\ job \in Jobs /\ printed = {} /\ location = -1 /\ headers = <<>> /\ listed = {}
      /\ queue = IF Dump!NamesMissing THEN <<>> ELSE Dump!StartList
      /\ dump = IF Dump!NamesMissing THEN "panic" ELSE "listing"
  BY DEF Init, Dump!Init, Dump!None
<1>2. ListTypes
  <2>1. queue \in Seq(Dump!Labels)
    BY <1>1, StartListType
  <2> QED
    BY <1>1, <2>1 DEF ListTypes
<1>3. Once
  <2>1. DOMAIN headers = {}
    BY <1>1
  <2> QED
    BY <1>1, <2>1 DEF Once, IsInjective, Occurs
<1>4. Closing
  BY <1>1 DEF Closing, Pending, Occurs
<1> QED
  BY <1>2, <1>3, <1>4 DEF ListInv

LEMMA WhileListing ==
  ASSUME ListInv, dump = "listing"
  PROVE  /\ \A i \in DOMAIN Dump!StartList : Pending(Dump!StartList[i])
         /\ \A a \in listed : Dump!Referred(a) # -1 => Pending(Dump!Referred(a))
         /\ \A l \in printed :
              Dump!Fetchable(job.code, Dump!LocationOf(l)) => Dump!LocationOf(l) \in listed \cup {location}
         /\ \A a \in listed :
              job.code[a].op \notin Dump!EndsBlock /\ Dump!Fetchable(job.code, Following(a)) =>
                Following(a) \in listed \cup {location}
BY DEF ListInv, Closing

\* What is to come after the step.
Later(l) == l \in printed' \/ Occurs(queue', l)

\* A step that goes on with the listing of a block, or begins or ends one.
LEMMA ClosingGoesOn ==
  ASSUME ListInv, dump = "listing", job' = job,
         \A x : Pending(x) => Later(x),
         listed \subseteq listed',
         \A a \in listed' \ listed :
           /\ Dump!Referred(a) # -1 => Later(Dump!Referred(a))
           /\ job.code[a].op \notin Dump!EndsBlock /\ Dump!Fetchable(job.code, Following(a)) =>
                Following(a) \in listed' \cup {location'},
         \A l \in printed' \ printed : Dump!LocationOf(l) \in listed' \cup {location'},
         \A n \in Location : n = location /\ Dump!Fetchable(job.code, n) =>
           n \in listed' \cup {location'}
  PROVE  Closing'
<1>1. /\ Dump!StartList' = Dump!StartList
      /\ \A l : Dump!LocationOf(l)' = Dump!LocationOf(l)
      /\ \A a : Dump!Referred(a)' = Dump!Referred(a)
      /\ \A a : Following(a)' = Following(a)
  BY SameLabels
<1>2. /\ job \in Jobs /\ printed \subseteq Dump!Labels
      /\ \A a \in listed : a \in DOMAIN job.code
  BY DEF ListInv, ListTypes, Dump!Fetchable
<1>3. \A i \in DOMAIN Dump!StartList : Later(Dump!StartList[i])
  <2>1. \A i \in DOMAIN Dump!StartList : Pending(Dump!StartList[i])
    BY WhileListing
  <2> QED
    BY <2>1
<1>4. ASSUME NEW a \in listed', Dump!Referred(a) # -1 PROVE Later(Dump!Referred(a))
  <2>1. CASE a \in listed
    <3>1. Pending(Dump!Referred(a))
      BY <1>4, <2>1, WhileListing
    <3> QED
      BY <3>1
  <2> QED
    BY <1>4, <2>1
<1>5. ASSUME NEW l \in printed', Dump!Fetchable(job.code, Dump!LocationOf(l))
      PROVE  Dump!LocationOf(l) \in listed' \cup {location'}
  <2>1. CASE l \in printed
    <3>1. Dump!LocationOf(l) \in Location
      BY <1>2, <2>1, LabelTypes
    <3>2. Dump!LocationOf(l) \in listed \cup {location}
      BY <1>5, <2>1, WhileListing
    <3> QED
      BY <1>5, <3>1, <3>2
  <2> QED
    BY <2>1
<1>6. ASSUME NEW a \in listed', job.code[a].op \notin Dump!EndsBlock,
             Dump!Fetchable(job.code, Following(a))
      PROVE  Following(a) \in listed' \cup {location'}
  <2>1. CASE a \in listed
    <3>1. Following(a) \in Location
      BY <1>2, <2>1, NextType DEF Following
    <3>2. Following(a) \in listed \cup {location}
      BY <1>6, <2>1, WhileListing
    <3> QED
      BY <1>6, <3>1, <3>2
  <2> QED
    BY <1>6, <2>1
<1>7. \A i \in DOMAIN Dump!StartList' : Later(Dump!StartList'[i])
  BY <1>1, <1>3
<1>8. \A a \in listed' : Dump!Referred(a)' # -1 => Later(Dump!Referred(a)')
  BY <1>1, <1>4
<1>9. \A c, a : Dump!Fetchable(c, a)' <=> Dump!Fetchable(c, a)
  BY DEF Dump!Fetchable
<1>10. \A l \in printed' : Dump!Fetchable(job.code, Dump!LocationOf(l)') =>
         Dump!LocationOf(l)' \in listed' \cup {location'}
  BY <1>1, <1>5
<1>11. \A a \in listed' :
         job.code[a].op \notin Dump!EndsBlock /\ Dump!Fetchable(job.code, Following(a)') =>
           Following(a)' \in listed' \cup {location'}
  BY <1>1, <1>6
<1> QED
  BY <1>7, <1>8, <1>9, <1>10, <1>11 DEF Closing, Pending, Later

LEMMA SkipKeeps ==
  ASSUME ListInv, Dump!Skip
  PROVE  ListInv'
<1>1. /\ job' = job /\ dump = "listing" /\ dump' = dump /\ queue # <<>>
      /\ queue' = Tail(queue) /\ Head(queue) \in printed
      /\ printed' = printed /\ location' = location /\ headers' = headers /\ listed' = listed
      /\ location = -1
  BY DEF Dump!Skip, Dump!Idle, Dump!None
<1>2. queue \in Seq(Dump!Labels) /\ Tail(queue) \in Seq(Dump!Labels) /\ Dump!Labels' = Dump!Labels
  BY <1>1, SameLabels, HeadTailProperties DEF ListInv, ListTypes
<1>3. ListTypes'
  BY <1>1, <1>2 DEF ListInv, ListTypes, Dump!Fetchable
<1>4. Once'
  BY <1>1, <1>2 DEF ListInv, Once, Occurs
<1>5. ASSUME NEW x, Pending(x) PROVE Later(x)
  <2>1. Occurs(queue, x) => x = Head(queue) \/ Occurs(Tail(queue), x)
    BY <1>1, <1>2, OccursTail
  <2> QED
    BY <1>1, <1>5, <2>1 DEF Pending, Later, Occurs
<1>6. Closing'
  BY <1>1, <1>5, ClosingGoesOn
<1> QED
  BY <1>3, <1>4, <1>6 DEF ListInv

LEMMA StartBlockKeeps ==
  ASSUME ListInv, Dump!StartBlock
  PROVE  ListInv'
<1>1. PICK l : l = Head(queue)
  OBVIOUS
<1>2. /\ job' = job /\ dump = "listing" /\ dump' = dump /\ queue # <<>>
      /\ queue' = Tail(queue) /\ l \notin printed
      /\ headers' = Append(headers, l) /\ printed' = printed \cup {l}
      /\ location = -1 /\ location' = Dump!LocationOf(l) /\ listed' = listed
  BY <1>1 DEF Dump!StartBlock, Dump!Idle, Dump!None
<1>3. /\ queue \in Seq(Dump!Labels) /\ Tail(queue) \in Seq(Dump!Labels) /\ l \in Dump!Labels
      /\ Dump!Labels' = Dump!Labels /\ headers \in Seq(Dump!Labels) /\ job \in Jobs
  BY <1>1, <1>2, SameLabels, HeadTailProperties DEF ListInv, ListTypes
<1>4. Dump!LocationOf(l) \in Location
  BY <1>3, LabelTypes
<1>5. Append(headers, l) \in Seq(Dump!Labels)
  BY <1>3, AppendProperties
<1>6. ListTypes'
  BY <1>2, <1>3, <1>4, <1>5 DEF ListInv, ListTypes, Dump!Fetchable
<1>7. Once'
  <2>1. /\ \A x : Occurs(headers', x) <=> Occurs(headers, x) \/ x = l
        /\ IsInjective(headers) /\ ~Occurs(headers, l) => IsInjective(headers')
    BY <1>2, <1>3, OccursAppend
  <2>2. IsInjective(headers) /\ \A x \in Dump!Labels : x \in printed <=> Occurs(headers, x)
    BY DEF ListInv, Once
  <2>3. IsInjective(headers') /\ \A x \in Dump!Labels : x \in printed' <=> Occurs(headers', x)
    BY <1>2, <1>3, <2>1, <2>2
  <2>4. IsInjective(headers)' /\ \A x \in Dump!Labels : x \in printed' <=> Occurs(headers, x)'
    BY <2>3 DEF IsInjective, Occurs
  <2> QED
    BY <1>3, <2>4 DEF Once
<1>8. ASSUME NEW x, Pending(x) PROVE Later(x)
  <2>1. Occurs(queue, x) => x = l \/ Occurs(Tail(queue), x)
    BY <1>1, <1>2, <1>3, OccursTail
  <2> QED
    BY <1>2, <1>8, <2>1 DEF Pending, Later, Occurs
<1>9. Closing'
  <2>1. -1 \notin Location
    BY DEF Location
  <2> QED
    BY <1>2, <1>8, <2>1, ClosingGoesOn
<1> QED
  BY <1>6, <1>7, <1>9 DEF ListInv

LEMMA DataKeeps ==
  ASSUME ListInv, Dump!Data
  PROVE  ListInv'
<1>1. /\ job' = job /\ dump = "listing" /\ dump' = dump /\ queue' = queue
      /\ headers' = headers /\ printed' = printed /\ listed' = listed
      /\ location' = -1 /\ ~Dump!Fetchable(job.code, location)
  BY DEF Dump!Data, Dump!None
<1>2. Dump!Labels' = Dump!Labels
  BY <1>1, SameLabels
<1>3. ListTypes'
  BY <1>1, <1>2 DEF ListInv, ListTypes, Dump!Fetchable
<1>4. Once'
  BY <1>1, <1>2 DEF ListInv, Once, Occurs
<1>5. \A x : Pending(x) => Later(x)
  BY <1>1 DEF Pending, Later, Occurs
<1>6. Closing'
  BY <1>1, <1>5, ClosingGoesOn
<1> QED
  BY <1>3, <1>4, <1>6 DEF ListInv

LEMMA ListKeeps ==
  ASSUME ListInv, Dump!List
  PROVE  ListInv'
<1>1. PICK a, n, r : a = location /\ n = Following(a) /\ r = Dump!Referred(a)
  OBVIOUS
<1> DEFINE ends == job.code[a].op \in Dump!EndsBlock
           m == Dump!LabelAt(n)
           fresh == ~ends /\ m # -1 /\ m \notin printed
<1>2. /\ job' = job /\ dump = "listing" /\ dump' = dump
      /\ a # -1 /\ Dump!Fetchable(job.code, a)
      /\ queue' = queue \o Dump!Queued(r) /\ listed' = listed \cup {a}
      /\ headers' = IF fresh THEN Append(headers, m) ELSE headers
      /\ printed' = IF fresh THEN printed \cup {m} ELSE printed
      /\ location' = IF ~ends /\ m \notin printed THEN n ELSE -1
  BY <1>1 DEF Dump!List, Dump!None, Dump!Continues, Following
<1>3. /\ queue \in Seq(Dump!Labels) /\ headers \in Seq(Dump!Labels) /\ job \in Jobs
      /\ printed \subseteq Dump!Labels /\ a \in Location /\ a \in DOMAIN job.code
      /\ Dump!Labels' = Dump!Labels
  BY <1>1, <1>2, SameLabels DEF ListInv, ListTypes, Dump!Fetchable
<1>4. n \in Location /\ -1 \notin Location
  BY <1>1, <1>3, NextType DEF Following, Location
<1>5. /\ r # -1 => r \in Dump!Labels
      /\ m # -1 => m \in Dump!Labels /\ Dump!LocationOf(m) = n
      /\ -1 \notin Dump!Labels
  BY <1>1, <1>3, ReferredType, LabelAtType, LabelTypes
<1> HIDE DEF ends, m
<1>6. /\ queue' \in Seq(Dump!Labels)
      /\ \A x : Occurs(queue, x) => Occurs(queue', x)
      /\ r # -1 => r \in printed \/ Occurs(queue', r)
  <2>1. CASE r = -1 \/ r \in printed
    <3>1. queue' = queue
      BY <1>2, <1>3, <2>1, ConcatEmptySeq DEF Dump!Queued, Dump!None
    <3> QED
      BY <1>3, <2>1, <3>1
  <2>2. CASE r # -1 /\ r \notin printed
    <3>1. queue' = Append(queue, r)
      BY <1>2, <1>3, <1>5, <2>2, AppendIsConcat DEF Dump!Queued, Dump!None
    <3> QED
      BY <1>3, <1>5, <2>2, <3>1, AppendProperties, OccursAppend
  <2> QED
    BY <2>1, <2>2
<1>7. fresh => Append(headers, m) \in Seq(Dump!Labels)
  BY <1>3, <1>5, AppendProperties
<1>8. ListTypes'
  <2>1. \A b \in listed' : b \in Location /\ Dump!Fetchable(job.code, b)
    BY <1>2, <1>3 DEF ListInv, ListTypes
  <2>2. location' \in Location \cup {-1}
    BY <1>2, <1>4
  <2>3. headers' \in Seq(Dump!Labels) /\ printed' \subseteq Dump!Labels
    BY <1>2, <1>3, <1>5, <1>7
  <2>4. \A c, b : Dump!Fetchable(c, b)' <=> Dump!Fetchable(c, b)
    BY DEF Dump!Fetchable
  <2>5. Location' = Location
    BY DEF Location
  <2> QED
    BY <1>2, <1>3, <1>6, <2>1, <2>2, <2>3, <2>4, <2>5 DEF ListTypes
<1>9. Once'
  <2>1. IsInjective(headers) /\ \A x \in Dump!Labels : x \in printed <=> Occurs(headers, x)
    BY DEF ListInv, Once
  <2>2. IsInjective(headers') /\ \A x \in Dump!Labels : x \in printed' <=> Occurs(headers', x)
    <3>1. CASE fresh
      <4>1. /\ \A x : Occurs(headers', x) <=> Occurs(headers, x) \/ x = m
            /\ IsInjective(headers) /\ ~Occurs(headers, m) => IsInjective(headers')
        BY <1>2, <1>3, <1>5, <3>1, OccursAppend
      <4> QED
        BY <1>2, <1>5, <2>1, <3>1, <4>1
    <3>2. CASE ~fresh
      BY <1>2, <2>1, <3>2
    <3> QED
      BY <3>1, <3>2
  <2>3. IsInjective(headers)' /\ \A x \in Dump!Labels : x \in printed' <=> Occurs(headers, x)'
    BY <2>2 DEF IsInjective, Occurs
  <2> QED
    BY <1>3, <2>3 DEF Once
<1>10. Closing'
  <2>1. ASSUME NEW x, Pending(x) PROVE Later(x)
    BY <1>2, <1>6, <2>1 DEF Pending, Later, Occurs
  <2>2. ASSUME NEW b \in listed' \ listed
        PROVE  /\ Dump!Referred(b) # -1 => Later(Dump!Referred(b))
               /\ job.code[b].op \notin Dump!EndsBlock /\ Dump!Fetchable(job.code, Following(b)) =>
                    Following(b) \in listed' \cup {location'}
    <3>1. b = a
      BY <1>2
    <3>2. r # -1 => Later(r)
      BY <1>2, <1>6 DEF Pending, Later, Occurs
    <3>3. ASSUME ~ends, Dump!Fetchable(job.code, n) PROVE n \in listed' \cup {location'}
      <4>1. CASE m \notin printed
        BY <1>2, <3>3, <4>1
      <4>2. CASE m \in printed
        <5>1. Dump!LocationOf(m) = n
          BY <1>3, <1>5, <4>2
        <5>2. n \in listed \cup {location}
          BY <1>2, <3>3, <4>2, <5>1, WhileListing
        <5> QED
          BY <1>1, <1>2, <5>2
      <4> QED
        BY <4>1, <4>2
    <3> QED
      BY <1>1, <3>1, <3>2, <3>3 DEF ends
  <2>3. \A l \in printed' \ printed : Dump!LocationOf(l) \in listed' \cup {location'}
    BY <1>2, <1>5
  <2>4. listed \subseteq listed' /\ location \in listed'
    BY <1>1, <1>2
  <2> QED
    BY <1>2, <2>1, <2>2, <2>3, <2>4, ClosingGoesOn
<1> QED
  BY <1>8, <1>9, <1>10 DEF ListInv

LEMMA RestKeeps ==
  ASSUME ListInv, job' = job, queue' = queue, printed' = printed, location' = location,
         headers' = headers, listed' = listed,
         \/ dump' = dump
         \/ dump' = "done" /\ dump = "listing" /\ queue = <<>> /\ location = -1
  PROVE  ListInv'
<1>1. /\ Dump!Labels' = Dump!Labels /\ Dump!StartList' = Dump!StartList
      /\ \A l : Dump!LocationOf(l)' = Dump!LocationOf(l)
      /\ \A a : Dump!Referred(a)' = Dump!Referred(a)
      /\ \A a : Following(a)' = Following(a)
  BY SameLabels
<1>2. ListTypes'
  BY <1>1 DEF ListInv, ListTypes, Dump!Fetchable
<1>3. Once'
  BY <1>1 DEF ListInv, Once, Occurs
<1>4. Closing'
  <2>1. \A x : Pending(x) => Later(x)
    BY DEF Pending, Later, Occurs
  <2>2. \A c, a : Dump!Fetchable(c, a)' <=> Dump!Fetchable(c, a)
    BY DEF Dump!Fetchable
  <2>3. CASE dump = "listing"
    BY <2>1, <2>3, ClosingGoesOn
  <2>4. CASE dump # "listing"
    <3>1. dump' = dump
      BY <2>4
    <3> QED
      BY <1>1, <2>2, <3>1 DEF ListInv, Closing, Pending, Occurs
  <2> QED
    BY <2>3, <2>4
<1> QED
  BY <1>2, <1>3, <1>4 DEF ListInv

LEMMA ListInvariant == Spec => []ListInv
<1>1. ASSUME ListInv, [Next]_vars PROVE ListInv'
  <2>1. job' = job
    BY <1>1, JobStays
  <2>2. CASE Dump!Finish
    BY <1>1, <2>1, <2>2, RestKeeps DEF Dump!Finish, Dump!Idle, Dump!None
  <2>3. CASE Dump!Next
    BY <1>1, <2>2, <2>3, SkipKeeps, StartBlockKeeps, DataKeeps, ListKeeps DEF Dump!Next
  <2>4. CASE UNCHANGED listing
    <3>1. /\ queue' = queue /\ printed' = printed /\ location' = location
          /\ headers' = headers /\ listed' = listed /\ dump' = dump
      BY <2>4 DEF listing
    <3>2. ListInv
      BY <1>1
    <3> QED
      BY <2>1, <3>1, <3>2, RestKeeps, Zenon
  <2> QED
    BY <1>1, <2>3, <2>4 DEF Next, vars
<1> QED
  BY <1>1, ListInit, PTL DEF Spec

\* tobjdump prints every label that was asked for or that a listed instruction
\* refers to, once, with all the code that follows it, for every object: the loop
\* over labels_to_print in disassembly (src/bin/tobjdump.rs).
THEOREM ListsEachLabelOnce == Spec => []EachLabelOnce
<1>1. ASSUME ListInv PROVE EachLabelOnce
  <2>1. Dump!IsInjective(headers)
    BY <1>1 DEF ListInv, Once, IsInjective, Dump!IsInjective
  <2>2. Dump!ToSet(headers) = printed
    <3>1. headers \in Seq(Dump!Labels) /\ printed \subseteq Dump!Labels
      BY <1>1 DEF ListInv, ListTypes
    <3>2. \A x : x \in Dump!ToSet(headers) <=> Occurs(headers, x)
      BY DEF Dump!ToSet, Occurs
    <3>3. \A x : Occurs(headers, x) => x \in Dump!Labels
      BY <3>1 DEF Occurs
    <3>4. \A x \in Dump!Labels : x \in printed <=> Occurs(headers, x)
      BY <1>1 DEF ListInv, Once
    <3>5. \A x : x \in Dump!ToSet(headers) <=> x \in printed
      BY <3>1, <3>2, <3>3, <3>4
    <3> QED
      BY <3>5, Zenon
  <2>3. ASSUME dump = "done"
        PROVE  /\ Dump!ToSet(Dump!StartList) \subseteq printed
               /\ \A l \in printed : Dump!Listed(l)
               /\ \A a \in listed :
                    /\ Dump!Referred(a) # Dump!None => Dump!Referred(a) \in printed
                    /\ LET n == Dump!NextLocation(job.code, a)
                       IN job.code[a].op \notin Dump!EndsBlock /\ Dump!Fetchable(job.code, n) => n \in listed
    <3>1. queue = <<>> /\ location = -1 /\ job \in Jobs /\ printed \subseteq Dump!Labels
      BY <1>1, <2>3 DEF ListInv, ListTypes
    <3>2. \A x : Pending(x) <=> x \in printed
      BY <3>1 DEF Pending, Occurs
    <3>3. Closing /\ -1 \notin Location
      BY <1>1 DEF ListInv, Location
    <3>4. Dump!ToSet(Dump!StartList) \subseteq printed
      BY <2>3, <3>2, <3>3 DEF Closing, Dump!ToSet
    <3>5. \A l \in printed : Dump!Listed(l)
      <4>1. \A l \in printed : Dump!LocationOf(l) \in Location
        BY <3>1, LabelTypes
      <4> QED
        BY <2>3, <3>1, <3>3, <4>1 DEF Closing, Dump!Listed
    <3>6. \A a \in listed : Following(a) \in Location
      <4>1. \A a \in listed : a \in DOMAIN job.code
        BY <1>1 DEF ListInv, ListTypes, Dump!Fetchable
      <4> QED
        BY <3>1, <4>1, NextType DEF Following
    <3>7. \A a \in listed :
            /\ Dump!Referred(a) # -1 => Dump!Referred(a) \in printed
            /\ job.code[a].op \notin Dump!EndsBlock /\ Dump!Fetchable(job.code, Following(a)) =>
                 Following(a) \in listed
      BY <2>3, <3>1, <3>2, <3>3, <3>6 DEF Closing
    <3> QED
      BY <3>4, <3>5, <3>7 DEF Following, Dump!None
  <2> QED
    BY <2>1, <2>2, <2>3 DEF EachLabelOnce, Dump!EachLabelOnce
<1> QED
  BY <1>1, ListInvariant, PTL

----------------------------------------------------------------------------
(* 2. What runs *)

RunTypes ==
  /\ stage \in {"disassemble", "prompt", "execute", "panic", "quit", "ended"}
  /\ current \in Int /\ target \in Int
  /\ pc \in Location /\ rl \in Location /\ saved \in Seq(Location) /\ handler \in Location
  /\ frames \in Seq(Location)
  /\ asked \in [cmd : {"none", "next", "stepin", "stepout"}, pc : Int, frames : Seq(Location)]
  /\ stage \in {"prompt", "execute"} => Debug!Fetchable(job.code, pc)

\* As long as nothing odd has happened, the program is in the listing, and so is
\* every place a call comes back to.
InListing(a) == Debug!Fetchable(job.code, a) => a \in listed
Inside ==
  dump = "done" /\ Labelled /\ Debug!Start \in listed /\ odd = {} =>
    InListing(pc) /\ \A i \in DOMAIN frames : InListing(frames[i])
RunInv ==
  /\ RunTypes /\ Inside
  /\ dump = "listing" => pc = Debug!Start /\ frames = <<>>

LEMMA StartType ==
  ASSUME job \in Jobs
  PROVE  Debug!Start \in Location
<1>1. /\ Len(job.syms) \in Nat /\ DOMAIN job.syms = 1 .. Len(job.syms)
      /\ \A i \in 1 .. Len(job.syms) : job.syms[i].loc \in Location
      /\ job.entry \in Location \cup {-1} /\ W \in Nat \ {0}
  BY JobTypes
<1>2. ASSUME NEW ids, ids \subseteq 1 .. Len(job.syms), ids # {}
      PROVE  Debug!Best(ids) \in ids
  <2> DEFINE globals == {i \in ids : job.syms[i].global}
             of == IF globals = {} THEN ids ELSE globals
  <2>1. of \subseteq ids /\ of # {}
    BY <1>2
  <2>2. Debug!Best(ids) = CHOOSE i \in of : \A k \in of : i <= k
    BY DEF Debug!Best
  <2> HIDE DEF of
  <2>3. \E i \in of : \A k \in of : i <= k
    <3>1. of \subseteq Nat
      BY <1>2, <2>1
    <3> QED
      BY <2>1, <3>1, LeastNumber
  <2> QED
    BY <2>1, <2>2, <2>3
<1>3. Debug!Named(job.start) \subseteq 1 .. Len(job.syms)
  BY <1>1 DEF Debug!Named
<1>4. CASE Debug!Named(job.start) # {}
  <2>1. Debug!Best(Debug!Named(job.start)) \in 1 .. Len(job.syms)
    BY <1>2, <1>3, <1>4
  <2> QED
    BY <1>1, <1>4, <2>1 DEF Debug!Start
<1>5. CASE Debug!Named(job.start) = {}
  BY <1>1, <1>5 DEF Debug!Start, Debug!None, Location
<1> QED
  BY <1>4, <1>5

\* What one instruction does to the program counter and to the calls.
StraightOps == {"plain", "access", "binop", "ldi", "jcc", "syscall", "push", "pop"}
Straight ==
  Debug!Ins.op \in StraightOps /\ pc' = Debug!After /\ frames' = frames /\ odd' = odd
Jumps ==
  Debug!Ins.op \in {"jmp", "jcc"} /\ pc' = Debug!Ins.w /\ frames' = frames /\ odd' = odd
Calls ==
  Debug!Ins.op = "call" /\ pc' = Debug!Ins.w /\ frames' = Append(frames, Debug!After) /\ odd' = odd
Returns ==
  /\ Debug!Ins.op = "ret" /\ frames # <<>> /\ pc' = Debug!Last(frames)
  /\ frames' = Debug!Front(frames) /\ odd' = odd
Traps ==
  Debug!Ins.op \notin {"call", "ret"} /\ frames' = frames /\ odd' = odd \cup {"handler"}
Strays == odd' = odd \cup {"return"}

LEMMA FrontAppend ==
  ASSUME NEW S, NEW s \in Seq(S), s # <<>>
  PROVE  /\ Debug!Front(s) \in Seq(S) /\ Debug!Last(s) \in S
         /\ Len(Debug!Front(s)) = Len(s) - 1
         /\ \A i \in 1 .. Len(s) - 1 : Debug!Front(s)[i] = s[i]
         /\ Debug!Last(s) = s[Len(s)]
<1>1. PICK n \in Nat : n = Len(s) /\ n # 0
  BY EmptySeq
<1>2. Debug!Front(s) = SubSeq(s, 1, n - 1) /\ Debug!Last(s) = s[n]
  BY <1>1 DEF Debug!Front, Debug!Last
<1>3. \A i \in 1 .. n - 1 : s[i] \in S
  BY <1>1
<1>4. /\ SubSeq(s, 1, n - 1) \in Seq(S)
      /\ Len(SubSeq(s, 1, n - 1)) = IF 1 <= n - 1 THEN n - 1 - 1 + 1 ELSE 0
      /\ \A i \in 1 .. n - 1 - 1 + 1 : SubSeq(s, 1, n - 1)[i] = s[1 + i - 1]
  BY <1>1, <1>3, SubSeqProperties
<1> QED
  BY <1>1, <1>2, <1>4

LEMMA AfterType ==
  ASSUME job \in Jobs, Debug!Fetchable(job.code, pc)
  PROVE  /\ pc \in Location /\ Debug!After \in Location
         /\ Debug!Ins.op \in Dump!Op /\ Debug!Ins.w \in Location
         /\ Debug!NextNesting = current + Debug!NestingDifference[Debug!Ins.op]
         /\ Debug!NestingDifference[Debug!Ins.op] =
              CASE Debug!Ins.op = "call" -> 1 [] Debug!Ins.op = "ret" -> -1 [] OTHER -> 0
<1>1. pc \in DOMAIN job.code
  BY DEF Debug!Fetchable
<1>2. Debug!Ins.op \in Dump!Op /\ Debug!Ins.w \in Location /\ pc \in Location
  BY <1>1, JobTypes DEF Debug!Ins
<1>3. Debug!After \in Location
  BY <1>1, NextType, SameDisassembler DEF Debug!After
<1>4. Debug!Op = Dump!Op
  BY DEF Debug!Op, Dump!Op, Debug!Length, Dump!Length
<1> QED
  BY <1>2, <1>3, <1>4 DEF Debug!NextNesting, Debug!NestingDifference

\* Each instruction is one of these cases, or the program ends.
LEMMA ExecuteEffect ==
  ASSUME job \in Jobs, RunTypes, Debug!Execute
  PROVE  /\ stage = "execute" /\ target' = target /\ asked' = asked
         /\ rl' \in Location /\ saved' \in Seq(Location) /\ handler' \in Location
         /\ frames' \in Seq(Location) /\ pc' \in Location
         /\ \/ stage' = "ended" /\ current' = current /\ odd' = odd
            \/ /\ stage' = "disassemble" /\ current' = Debug!NextNesting
               /\ Straight \/ Jumps \/ Calls \/ Returns \/ Traps \/ Strays
<1> USE DEF Debug!GoesOn
<1>1. stage = "execute"
  BY DEF Debug!Execute, Debug!Step, Debug!Jump, Debug!Call, Debug!Return, Debug!JumpLink,
     Debug!SaveLink, Debug!RestoreLink, Debug!SetHandler, Debug!Trap, Debug!End
<1>2. /\ Debug!After \in Location /\ Debug!Ins.w \in Location /\ Debug!Fetchable(job.code, pc)
      /\ pc \in Location /\ rl \in Location /\ saved \in Seq(Location)
      /\ handler \in Location /\ job.handler \in Location /\ frames \in Seq(Location)
  BY <1>1, AfterType, JobTypes DEF RunTypes
<1>3. CASE Debug!Step
  BY <1>1, <1>2, <1>3 DEF Debug!Step, Straight, StraightOps
<1>4. CASE Debug!Jump
  BY <1>1, <1>2, <1>4 DEF Debug!Jump, Jumps
<1>5. CASE Debug!Call
  <2>1. Append(frames, Debug!After) \in Seq(Location)
    BY <1>2, AppendProperties
  <2> QED
    BY <1>1, <1>2, <1>5, <2>1 DEF Debug!Call, Calls
<1>6. CASE Debug!Return
  <2>1. frames # <<>> => Debug!Front(frames) \in Seq(Location)
    BY <1>2, FrontAppend
  <2> QED
    BY <1>1, <1>2, <1>6, <2>1 DEF Debug!Return, Returns, Strays
<1>7. CASE Debug!JumpLink
  BY <1>1, <1>2, <1>7 DEF Debug!JumpLink, Strays
<1>8. CASE Debug!SaveLink
  <2>1. Append(saved, rl) \in Seq(Location)
    BY <1>2, AppendProperties
  <2> QED
    BY <1>1, <1>2, <1>8, <2>1 DEF Debug!SaveLink, Straight, StraightOps
<1>9. CASE Debug!RestoreLink
  <2>1. saved # <<>> => Debug!Front(saved) \in Seq(Location) /\ Debug!Last(saved) \in Location
    BY <1>2, FrontAppend
  <2> QED
    BY <1>1, <1>2, <1>9, <2>1 DEF Debug!RestoreLink, Straight, StraightOps
<1>10. CASE Debug!SetHandler
  BY <1>1, <1>2, <1>10 DEF Debug!SetHandler, Straight, StraightOps
<1>11. CASE Debug!Trap
  BY <1>1, <1>2, <1>11 DEF Debug!Trap, Debug!MayTrap, Traps
<1>12. CASE Debug!End
  BY <1>1, <1>2, <1>12 DEF Debug!End, Debug!program
<1> QED
  BY <1>3, <1>4, <1>5, <1>6, <1>7, <1>8, <1>9, <1>10, <1>11, <1>12 DEF Debug!Execute


\* The commands change no program, and the program changes no command.
LEMMA OtherEffect ==
  ASSUME Debug!Next, ~Debug!Execute
  PROVE  /\ current' = current /\ frames' = frames /\ rl' = rl /\ saved' = saved /\ handler' = handler
         /\ \/ /\ stage = "disassemble" /\ pc' = pc /\ odd' = odd /\ target' = target /\ asked' = asked
               /\ \/ stage' = "panic"
                  \/ /\ Debug!Fetchable(job.code, pc)
                     /\ stage' = IF current = target THEN "prompt" ELSE "execute"
            \/ /\ stage = "prompt" /\ stage' \in {"quit", "panic"}
               /\ pc' = pc /\ odd' = odd /\ target' = target /\ asked' = asked
            \/ \E c \in {"next", "stepin", "stepout"} :
                 /\ stage = "prompt" /\ stage' = "execute" /\ pc' = pc /\ odd' = odd
                 /\ target' = Debug!Target(c)
                 /\ asked' = [cmd |-> c, pc |-> pc, frames |-> frames]
            \/ \E a \in job.goto :
                 /\ stage = "prompt" /\ stage' = "disassemble" /\ pc' = a /\ odd' = odd \cup {"goto"}
                 /\ target' = target /\ asked' = Debug!Nothing
BY DEF Debug!Next, Debug!Unreadable, Debug!Disassemble, Debug!Quit, Debug!ReadUnmapped,
       Debug!Command, Debug!Goto, Debug!program

LEMMA TargetType ==
  ASSUME job \in Jobs, RunTypes, stage = "prompt", NEW c \in {"next", "stepin", "stepout"}
  PROVE  Debug!Target(c) \in Int
<1>1. Debug!NextNesting \in Int /\ current \in Int
  BY AfterType DEF RunTypes
<1> QED
  BY <1>1 DEF Debug!Target

LEMMA RunTypesKept ==
  ASSUME job \in Jobs, job' = job, RunTypes, Debug!Next
  PROVE  RunTypes'
<1>1. CASE Debug!Execute
  <2>1. /\ stage = "execute" /\ target' = target /\ asked' = asked
        /\ rl' \in Location /\ saved' \in Seq(Location) /\ handler' \in Location
        /\ frames' \in Seq(Location) /\ pc' \in Location
        /\ \/ stage' = "ended" /\ current' = current
           \/ stage' = "disassemble" /\ current' = Debug!NextNesting
    BY <1>1, ExecuteEffect
  <2>2. Debug!NextNesting \in Int
    BY <2>1, AfterType DEF RunTypes
  <2>3. current' \in Int
    BY <2>1, <2>2 DEF RunTypes
  <2>4. stage' \in {"disassemble", "ended"}
    BY <2>1
  <2> QED
    BY <2>1, <2>3, <2>4 DEF RunTypes, Location
<1>2. CASE ~Debug!Execute
  <2>1. /\ current' = current /\ frames' = frames /\ rl' = rl /\ saved' = saved /\ handler' = handler
    BY <1>2, OtherEffect
  <2> DEFINE Kept ==
               /\ pc' \in Location /\ target' \in Int
               /\ asked' \in [cmd : {"none", "next", "stepin", "stepout"}, pc : Int, frames : Seq(Location)]
               /\ stage' \in {"disassemble", "prompt", "execute", "panic", "quit"}
               /\ stage' \in {"prompt", "execute"} => pc' = pc /\ Debug!Fetchable(job.code, pc)
  <2>2. Kept
    <3>1. CASE stage = "disassemble"
      <4>1. /\ pc' = pc /\ target' = target /\ asked' = asked
            /\ \/ stage' = "panic"
               \/ /\ Debug!Fetchable(job.code, pc)
                  /\ stage' = IF current = target THEN "prompt" ELSE "execute"
        BY <1>2, <3>1, OtherEffect
      <4> QED
        BY <4>1 DEF RunTypes
    <3>2. CASE stage = "prompt" /\ stage' \in {"quit", "panic"} /\ pc' = pc /\ target' = target /\ asked' = asked
      BY <3>2 DEF RunTypes
    <3>3. ASSUME NEW c \in {"next", "stepin", "stepout"},
                 stage = "prompt", stage' = "execute", pc' = pc, target' = Debug!Target(c),
                 asked' = [cmd |-> c, pc |-> pc, frames |-> frames]
          PROVE  Kept
      <4>1. target' \in Int
        BY <3>3, TargetType
      <4> QED
        BY <3>3, <4>1 DEF RunTypes, Location
    <3>4. ASSUME NEW a \in job.goto, stage = "prompt", stage' = "disassemble", pc' = a,
                 target' = target, asked' = Debug!Nothing
          PROVE  Kept
      <4>1. a \in Location
        BY <3>4, JobTypes
      <4>2. <<>> \in Seq(Location)
        OBVIOUS
      <4> QED
        BY <3>4, <4>1, <4>2 DEF RunTypes, Debug!Nothing
    <3> QED
      BY <1>2, <3>1, <3>2, <3>3, <3>4, OtherEffect
  <2> QED
    BY <2>1, <2>2 DEF RunTypes, Location
<1> QED
  BY <1>1, <1>2

\* A finished listing goes on wherever a listed instruction goes on.
LEMMA ListingIsClosed ==
  ASSUME job \in Jobs, EachLabelOnce, dump = "done", Labelled, pc \in listed,
         Debug!Fetchable(job.code, pc)
  PROVE  /\ Debug!Ins.op \notin Dump!EndsBlock => InListing(Debug!After)
         /\ Debug!Ins.op \in {"call", "jmp", "jcc"} => InListing(Debug!Ins.w)
<1>1. /\ \A l \in printed : Dump!Fetchable(job.code, Dump!LocationOf(l)) => Dump!LocationOf(l) \in listed
      /\ Dump!Referred(pc) # -1 => Dump!Referred(pc) \in printed
      /\ Debug!Ins.op \notin Dump!EndsBlock /\ Dump!Fetchable(job.code, Dump!NextLocation(job.code, pc)) =>
           Dump!NextLocation(job.code, pc) \in listed
  BY DEF EachLabelOnce, Dump!EachLabelOnce, Dump!Listed, Dump!None, Debug!Ins
<1>2. Debug!Ins.op \notin Dump!EndsBlock => InListing(Debug!After)
  BY <1>1, SameDisassembler DEF Debug!After, InListing
<1>3. ASSUME Debug!Ins.op \in {"call", "jmp", "jcc"} PROVE InListing(Debug!Ins.w)
  <2>1. Dump!Referred(pc) # -1
    BY <1>3 DEF Labelled, Dump!None, Debug!Ins
  <2>2. Dump!LocationOf(Dump!Referred(pc)) = job.code[pc].w
    BY <2>1, ReferredType
  <2> QED
    BY <1>1, <2>1, <2>2, SameDisassembler DEF InListing, Debug!Ins
<1> QED
  BY <1>2, <1>3

LEMMA SameStart ==
  ASSUME job' = job, listed' = listed
  PROVE  Debug!Start' = Debug!Start /\ (Labelled' <=> Labelled)
<1>1. Debug!Start' = Debug!Start
  BY DEF Debug!Start, Debug!Named, Debug!Best
<1>2. \A a : Dump!Referred(a)' = Dump!Referred(a)
  BY SameLabels
<1> QED
  BY <1>1, <1>2 DEF Labelled, Dump!None

LEMMA InsideKept ==
  ASSUME ListInv, EachLabelOnce, RunInv, job' = job, listed' = listed, dump' = dump,
         dump # "listing", Debug!Next
  PROVE  Inside'
<1> DEFINE Fine(a) == Debug!Fetchable(job.code, a) => a \in listed
<1>1. job \in Jobs /\ RunTypes
  BY DEF ListInv, ListTypes, RunInv
<1>2. SUFFICES ASSUME dump = "done", Labelled, Debug!Start \in listed, odd' = {}
               PROVE  Fine(pc') /\ \A i \in DOMAIN frames' : Fine(frames'[i])
  BY SameStart DEF Inside, InListing
<1>3. odd \subseteq odd'
  <2>1. CASE Debug!Execute
    BY <1>1, <2>1, ExecuteEffect DEF Straight, Jumps, Calls, Returns, Traps, Strays
  <2>2. CASE ~Debug!Execute
    BY <2>2, OtherEffect
  <2> QED
    BY <2>1, <2>2
<1>4. Fine(pc) /\ \A i \in DOMAIN frames : Fine(frames[i])
  BY <1>2, <1>3 DEF RunInv, Inside, InListing
<1>5. CASE Debug!Execute
  <2>1. /\ stage = "execute" /\ frames' \in Seq(Location) /\ frames \in Seq(Location)
        /\ Debug!Fetchable(job.code, pc)
    BY <1>1, <1>5, ExecuteEffect DEF RunTypes
  <2>2. pc \in listed
    BY <1>4, <2>1
  <2>3. /\ Debug!Ins.op \notin Dump!EndsBlock => Fine(Debug!After)
        /\ Debug!Ins.op \in {"call", "jmp", "jcc"} => Fine(Debug!Ins.w)
    BY <1>1, <1>2, <2>1, <2>2, ListingIsClosed DEF InListing
  <2>4. \/ stage' = "ended" \/ Straight \/ Jumps \/ Calls \/ Returns \/ Traps \/ Strays
    BY <1>1, <1>5, ExecuteEffect
  <2>5. CASE stage' = "ended"
    <3>1. pc' = pc /\ frames' = frames
      BY <1>5, <2>5 DEF Debug!Execute, Debug!Step, Debug!Jump, Debug!Call, Debug!Return,
         Debug!JumpLink, Debug!SaveLink, Debug!RestoreLink, Debug!SetHandler, Debug!Trap, Debug!End,
         Debug!GoesOn, Debug!program
    <3> QED
      BY <1>4, <3>1
  <2>6. CASE Straight
    BY <1>4, <2>3, <2>6 DEF Straight, StraightOps, Dump!EndsBlock
  <2>7. CASE Jumps
    BY <1>4, <2>3, <2>7 DEF Jumps
  <2>8. CASE Calls
    <3>1. Fine(Debug!After) /\ Fine(Debug!Ins.w)
      BY <2>3, <2>8 DEF Calls, Dump!EndsBlock
    <3>2. Debug!After \in Location
      BY <1>1, <2>1, AfterType
    <3> HIDE DEF Fine
    <3>3. ASSUME NEW i \in DOMAIN frames' PROVE Fine(frames'[i])
      <4>1. Occurs(frames', frames'[i])
        BY DEF Occurs
      <4>2. Occurs(frames, frames'[i]) \/ frames'[i] = Debug!After
        BY <2>1, <2>8, <3>2, <4>1, OccursAppend DEF Calls
      <4> QED
        BY <1>4, <3>1, <4>2 DEF Occurs
    <3> QED
      BY <2>8, <3>1, <3>3 DEF Calls
  <2>9. CASE Returns
    <3>1. /\ frames # <<>> /\ pc' = Debug!Last(frames) /\ frames' = Debug!Front(frames)
      BY <2>9 DEF Returns
    <3>2. PICK n \in Nat : n = Len(frames) /\ n # 0
      BY <2>1, <3>1, EmptySeq
    <3>3. /\ DOMAIN frames = 1 .. n /\ DOMAIN frames' = 1 .. n - 1
          /\ \A i \in 1 .. n - 1 : frames'[i] = frames[i]
          /\ pc' = frames[n]
      BY <2>1, <3>1, <3>2, FrontAppend
    <3>4. n \in 1 .. n /\ \A i \in 1 .. n - 1 : i \in 1 .. n
      BY <3>2
    <3> HIDE DEF Fine
    <3> QED
      BY <1>4, <3>3, <3>4
  <2>10. CASE Traps
    BY <1>2, <2>10 DEF Traps
  <2>11. CASE Strays
    BY <1>2, <2>11 DEF Strays
  <2> QED
    BY <2>4, <2>5, <2>6, <2>7, <2>8, <2>9, <2>10, <2>11
<1>6. CASE ~Debug!Execute
  <2>1. frames' = frames /\ (pc' = pc \/ odd' = odd \cup {"goto"})
    BY <1>6, OtherEffect
  <2> QED
    BY <1>2, <1>4, <2>1
<1> QED
  BY <1>5, <1>6

LEMMA RunInit == Init => RunInv
<1> SUFFICES ASSUME Init PROVE RunInv
  OBVIOUS
<1>1. /\ job \in Jobs /\ stage = "disassemble" /\ current = 0 /\ target = 0
      /\ pc = Debug!Start /\ rl = 0 /\ saved = <<>> /\ handler = 0
      /\ frames = <<>> /\ asked = Debug!Nothing /\ odd = {} /\ dump # "done"
  BY DEF Init, Debug!Init, Dump!Init
<1>2. 0 \in Location /\ Debug!Start \in Location
  BY <1>1, JobTypes, StartType DEF Location
<1>3. <<>> \in Seq(Location)
  OBVIOUS
<1>4. RunTypes
  BY <1>1, <1>2, <1>3 DEF RunTypes, Debug!Nothing
<1>5. Inside
  BY <1>1 DEF Inside
<1> QED
  BY <1>1, <1>4, <1>5 DEF RunInv, Inside

LEMMA RunInvStep ==
  ASSUME ListInv, EachLabelOnce, RunInv, [Next]_vars
  PROVE  RunInv'
<1>1. job' = job /\ job \in Jobs /\ RunTypes
  BY JobStays DEF ListInv, ListTypes, RunInv
<1>2. CASE Debug!Next /\ UNCHANGED listing /\ dump # "listing"
  <2>1. listed' = listed /\ dump' = dump
    BY <1>2 DEF listing
  <2>2. Inside'
    BY <1>1, <1>2, <2>1, InsideKept
  <2>3. RunTypes'
    BY <1>1, <1>2, RunTypesKept
  <2> QED
    BY <1>2, <2>1, <2>2, <2>3 DEF RunInv
<1>3. CASE UNCHANGED session
  <2>1. /\ stage' = stage /\ current' = current /\ target' = target /\ pc' = pc /\ rl' = rl
        /\ saved' = saved /\ handler' = handler /\ frames' = frames /\ asked' = asked /\ odd' = odd
    BY <1>3 DEF session
  <2>2. RunTypes'
    BY <1>1, <2>1 DEF RunTypes, Location
  <2>3. Debug!Start' = Debug!Start
    BY <1>1 DEF Debug!Start, Debug!Named, Debug!Best
  <2>4. CASE Dump!Next /\ dump = "listing"
    <3>1. pc = Debug!Start /\ frames = <<>>
      BY <2>4 DEF RunInv
    <3>2. Inside'
      BY <2>1, <2>3, <3>1 DEF Inside, InListing
    <3> QED
      BY <2>1, <2>2, <2>3, <3>1, <3>2 DEF RunInv
  <2>5. CASE UNCHANGED listing
    <3>1. listed' = listed /\ dump' = dump
      BY <2>5 DEF listing
    <3>2. Inside'
      BY <1>1, <2>1, <3>1, SameStart DEF RunInv, Inside, InListing
    <3> QED
      BY <2>1, <2>2, <2>3, <3>1, <3>2 DEF RunInv
  <2> QED
    BY <1>3, <2>4, <2>5 DEF Next, vars
<1> QED
  BY <1>2, <1>3 DEF Next, vars

LEMMA RunInvariant == Spec => []RunInv
BY RunInit, RunInvStep, ListInvariant, ListsEachLabelOnce, PTL DEF Spec

\* Nothing that runs is missing from the listing: an instruction at which tdbg
\* (src/bin/tdbg.rs) prompts has been listed by tobjdump, for every program whose
\* jumps and calls go to labels and whose returns go back to where the call was.
THEOREM WhatRunsIsListed == Spec => []ListsWhatRuns
<1>1. RunInv => ListsWhatRuns
  BY DEF RunInv, RunTypes, Inside, InListing, ListsWhatRuns
<1> QED
  BY <1>1, RunInvariant, PTL

----------------------------------------------------------------------------
(* 3. Where steps land *)

\* The command is just about to be executed.
Fresh ==
  /\ stage = "execute" /\ asked.pc = pc /\ asked.frames = frames
  /\ target = Debug!Target(asked.cmd)

\* The activations b are below the one that runs, and the debugger waits for the
\* last of them to return; or it has, to a.
AwaitedIn(b, s, t, f, a) ==
  \/ /\ s \in {"disassemble", "execute"} /\ t = Len(b) - 1
     /\ Len(b) <= Len(f) /\ \A i \in 1 .. Len(b) : f[i] = b[i]
  \/ s \in {"disassemble", "prompt"} /\ t = Len(b) - 1 /\ Append(f, a) = b
Awaited(b) == AwaitedIn(b, stage, target, frames, pc)

Landed == stage \in {"disassemble", "prompt"} /\ current = target

\* What has been asked for is still to come, or has been reached.
AskedOp == job.code[asked.pc].op
AskedNext == Debug!NextLocation(job.code, asked.pc)
Pursued ==
  /\ asked.cmd = "next" /\ AskedOp = "call" => Fresh \/ Awaited(Append(asked.frames, AskedNext))
  /\ asked.cmd = "next" /\ AskedOp \notin {"call", "ret"} =>
       Fresh \/ (Landed /\ frames = asked.frames)
  /\ asked.cmd = "stepin" /\ AskedOp = "call" =>
       \/ Fresh
       \/ Landed /\ pc = job.code[asked.pc].w /\ frames = Append(asked.frames, AskedNext)
  /\ asked.cmd = "stepin" /\ AskedOp = "ret" => Awaited(asked.frames)
  /\ asked.cmd = "stepout" => Awaited(asked.frames)

\* As long as returns go back to where calls came from, the nesting that is
\* counted is the number of calls that have not returned.
Course ==
  stage \in {"disassemble", "prompt", "execute"} /\ "return" \notin odd =>
    /\ current = Len(frames)
    /\ stage = "prompt" => current = target
    /\ asked = Debug!Nothing => stage # "execute" /\ current = target
    /\ asked # Debug!Nothing =>
         asked.cmd \in {"next", "stepin", "stepout"} /\ AskedNext \in Location /\ Pursued
CourseInv == RunTypes /\ Course

\* Any instruction that leaves returns as they should be keeps what is awaited.
LEMMA AwaitedGoesOn ==
  ASSUME frames \in Seq(Location), frames' \in Seq(Location), pc' \in Location,
         NEW b \in Seq(Location), AwaitedIn(b, "execute", target, frames, pc), Debug!After \in Location,
         frames' = frames \/ Calls \/ Returns
  PROVE  AwaitedIn(b, "disassemble", target, frames', pc')
<1>1. PICK n \in Nat, m \in Nat : n = Len(frames) /\ m = Len(b)
  BY LenProperties
<1>2. /\ target = m - 1 /\ m <= n /\ \A i \in 1 .. m : frames[i] = b[i]
  BY <1>1 DEF AwaitedIn
<1>3. CASE frames' = frames
  BY <1>1, <1>2, <1>3 DEF AwaitedIn
<1>4. CASE Calls
  <2>1. Len(frames') = n + 1 /\ \A i \in 1 .. n : frames'[i] = frames[i]
    BY <1>1, <1>4, AppendProperties DEF Calls
  <2>2. \A i \in 1 .. m : i \in 1 .. n
    BY <1>2
  <2>3. m <= Len(frames') /\ \A i \in 1 .. m : frames'[i] = b[i]
    BY <1>2, <2>1, <2>2
  <2> QED
    BY <1>1, <1>2, <2>3 DEF AwaitedIn
<1>5. CASE Returns
  <2>1. /\ n # 0 /\ Len(frames') = n - 1 /\ pc' = frames[n]
        /\ \A i \in 1 .. n - 1 : frames'[i] = frames[i]
    <3>1. frames # <<>> /\ pc' = Debug!Last(frames) /\ frames' = Debug!Front(frames)
      BY <1>5 DEF Returns
    <3> QED
      BY <1>1, <3>1, FrontAppend, EmptySeq
  <2>2. CASE m < n
    <3>1. \A i \in 1 .. m : i \in 1 .. n - 1
      BY <2>2
    <3>2. m <= Len(frames') /\ \A i \in 1 .. m : frames'[i] = b[i]
      BY <1>2, <2>1, <2>2, <3>1
    <3> QED
      BY <1>1, <1>2, <3>2 DEF AwaitedIn
  <2>3. CASE m = n
    <3> DEFINE c == Append(frames', pc')
    <3>1. /\ c \in Seq(Location) /\ Len(c) = n /\ c[n] = pc'
          /\ \A i \in 1 .. n - 1 : c[i] = frames'[i]
      <4>0. n - 1 \in Nat
        BY <1>1, <2>1
      <4>1. PICK k \in Nat : k = n - 1 /\ k = Len(frames')
        BY <2>1, <4>0
      <4>2. /\ c \in Seq(Location) /\ Len(c) = k + 1 /\ c[k + 1] = pc'
            /\ \A i \in 1 .. k : c[i] = frames'[i]
        BY <4>1, AppendProperties
      <4> HIDE DEF c
      <4> QED
        BY <1>1, <4>1, <4>2
    <3> HIDE DEF c
    <3>2. ASSUME NEW i \in 1 .. n PROVE c[i] = b[i]
      <4>1. i \in 1 .. n - 1 \/ i = n
        OBVIOUS
      <4> QED
        BY <1>2, <2>1, <2>3, <3>1, <4>1
    <3>3. c = b
      BY <1>1, <2>3, <3>1, <3>2, SeqEqual
    <3> QED
      BY <1>1, <1>2, <3>3 DEF AwaitedIn, c
  <2> QED
    BY <1>2, <2>2, <2>3
<1> QED
  BY <1>3, <1>4, <1>5

LEMMA SamePlace ==
  ASSUME job' = job, asked' = asked
  PROVE  /\ AskedOp' = AskedOp /\ AskedNext' = AskedNext /\ Debug!Nothing' = Debug!Nothing
         /\ (job.code[asked.pc].w)' = job.code[asked.pc].w
BY DEF AskedOp, AskedNext, Debug!Nothing

\* The debugger looks at the next instruction, and prompts or goes on.
LEMMA DisassembleCourse ==
  ASSUME CourseInv, job' = job, stage = "disassemble",
         stage' = IF current = target THEN "prompt" ELSE "execute",
         pc' = pc, odd' = odd, target' = target, asked' = asked, current' = current, frames' = frames
  PROVE  Course'
<1>1. SUFFICES ASSUME "return" \notin odd PROVE Course'
  BY DEF Course
<1>2. /\ current = Len(frames) /\ frames \in Seq(Location)
      /\ asked = Debug!Nothing => current = target
      /\ asked # Debug!Nothing =>
           asked.cmd \in {"next", "stepin", "stepout"} /\ AskedNext \in Location /\ Pursued
      /\ asked.frames \in Seq(Location)
  BY <1>1 DEF CourseInv, Course, RunTypes
<1>3. ASSUME NEW b \in Seq(Location), Awaited(b) PROVE AwaitedIn(b, stage', target', frames', pc')
  <2>1. PICK n \in Nat, m \in Nat : n = Len(frames) /\ m = Len(b) /\ n = current
    BY <1>2, LenProperties
  <2>2. CASE target = m - 1 /\ m <= n /\ \A i \in 1 .. m : frames[i] = b[i]
    <3>1. stage' = "execute"
      BY <2>1, <2>2
    <3> QED
      BY <2>1, <2>2, <3>1 DEF AwaitedIn
  <2>3. CASE target = m - 1 /\ Append(frames, pc) = b
    <3>1. pc \in Location
      BY DEF CourseInv, RunTypes
    <3>2. m = n + 1
      BY <1>2, <2>1, <2>3, <3>1, AppendProperties
    <3>3. stage' = "prompt"
      BY <2>1, <2>3, <3>2
    <3> QED
      BY <2>1, <2>3, <3>3 DEF AwaitedIn
  <2> QED
    BY <1>3, <2>1, <2>2, <2>3 DEF Awaited, AwaitedIn
<1>4. ~Fresh
  BY DEF Fresh
<1>5. Landed => Landed'
  BY DEF Landed
<1>6. ASSUME asked # Debug!Nothing PROVE Pursued'
  <2>1. Append(asked.frames, AskedNext) \in Seq(Location)
    BY <1>2, <1>6, AppendProperties
  <2>2. \A b \in Seq(Location) : Awaited(b) => AwaitedIn(b, stage', target', frames', pc')
    BY <1>3
  <2>3. asked.cmd = "next" /\ AskedOp = "call" =>
          AwaitedIn(Append(asked.frames, AskedNext), stage', target', frames', pc')
    BY <1>2, <1>4, <1>6, <2>1, <2>2 DEF Pursued
  <2>4. /\ asked.cmd = "stepin" /\ AskedOp = "ret" => AwaitedIn(asked.frames, stage', target', frames', pc')
        /\ asked.cmd = "stepout" => AwaitedIn(asked.frames, stage', target', frames', pc')
    BY <1>2, <1>4, <1>6, <2>2 DEF Pursued
  <2> QED
    BY <1>2, <1>4, <1>5, <1>6, <2>3, <2>4, SamePlace DEF Pursued, Awaited
<1> QED
  BY <1>2, <1>6, SamePlace DEF Course

\* A command is given.
LEMMA CommandCourse ==
  ASSUME CourseInv, job \in Jobs, job' = job, NEW c \in {"next", "stepin", "stepout"},
         stage = "prompt", stage' = "execute", pc' = pc, odd' = odd, target' = Debug!Target(c),
         asked' = [cmd |-> c, pc |-> pc, frames |-> frames], current' = current, frames' = frames
  PROVE  Course'
<1>1. SUFFICES ASSUME "return" \notin odd PROVE Course'
  BY DEF Course
<1>2. /\ current = Len(frames) /\ frames \in Seq(Location) /\ Debug!Fetchable(job.code, pc)
  BY <1>1 DEF CourseInv, Course, RunTypes
<1>3. /\ asked'.cmd = c /\ asked'.pc = pc /\ asked'.frames = frames
      /\ AskedOp' = Debug!Ins.op /\ AskedNext' = Debug!After /\ Debug!After \in Location
      /\ Debug!Nothing'.cmd = "none"
  BY <1>2, AfterType DEF AskedOp, AskedNext, Debug!Ins, Debug!After, Debug!Nothing
<1>4. Debug!Target(c)' = Debug!Target(c)
  BY DEF Debug!Target, Debug!NextNesting, Debug!Ins
<1>5. Fresh'
  <2>1. target' = Debug!Target(asked.cmd)'
    BY <1>3, <1>4 DEF Debug!Target, Debug!NextNesting, Debug!Ins
  <2> QED
    BY <1>3, <2>1 DEF Fresh
<1>6. (c = "stepin" /\ Debug!Ins.op = "ret") \/ c = "stepout" =>
        AwaitedIn(frames, "execute", target', frames, pc)
  <2>1. PICK n \in Nat : n = Len(frames)
    BY <1>2, LenProperties
  <2>2. (c = "stepin" /\ Debug!Ins.op = "ret") \/ c = "stepout" => target' = n - 1
    BY <1>2, <2>1, AfterType DEF Debug!Target
  <2> QED
    BY <2>1, <2>2 DEF AwaitedIn
<1>7. Pursued'
  BY <1>3, <1>5, <1>6 DEF Pursued, Awaited
<1> QED
  BY <1>2, <1>3, <1>7 DEF Course

\* An instruction is executed.
LEMMA ExecuteCourse ==
  ASSUME CourseInv, job \in Jobs, job' = job, Debug!Execute
  PROVE  Course'
<1>1. /\ stage = "execute" /\ target' = target /\ asked' = asked /\ RunTypes
      /\ frames' \in Seq(Location) /\ pc' \in Location
      /\ \/ stage' = "ended"
         \/ /\ stage' = "disassemble" /\ current' = Debug!NextNesting
            /\ Straight \/ Jumps \/ Calls \/ Returns \/ Traps \/ Strays
  BY ExecuteEffect DEF CourseInv
<1>2. SUFFICES ASSUME stage' = "disassemble", "return" \notin odd' PROVE Course'
  BY <1>1 DEF Course
<1>3. /\ current' = Debug!NextNesting
      /\ Straight \/ Jumps \/ Calls \/ Returns \/ Traps
  BY <1>1, <1>2 DEF Strays
<1>4. "return" \notin odd
  BY <1>2, <1>3 DEF Straight, Jumps, Calls, Returns, Traps
<1>5. /\ current = Len(frames) /\ frames \in Seq(Location) /\ pc \in Location
      /\ asked # Debug!Nothing
      /\ asked.cmd \in {"next", "stepin", "stepout"} /\ AskedNext \in Location /\ Pursued
      /\ asked.frames \in Seq(Location) /\ Debug!Fetchable(job.code, pc)
  BY <1>1, <1>4 DEF CourseInv, Course, RunTypes
<1>6. /\ Debug!After \in Location
      /\ Debug!NextNesting =
           current + CASE Debug!Ins.op = "call" -> 1 [] Debug!Ins.op = "ret" -> -1 [] OTHER -> 0
  BY <1>5, AfterType
<1>7. PICK n \in Nat : n = Len(frames) /\ n = current
  BY <1>5, LenProperties
<1>8. CASE Straight \/ Jumps \/ Traps
  <2>1. frames' = frames /\ Debug!Ins.op \notin {"call", "ret"}
    BY <1>8 DEF Straight, StraightOps, Jumps, Traps
  <2>2. current' = current
    BY <1>3, <1>6, <1>7, <2>1
  <2>3. Fresh => AskedOp = Debug!Ins.op
    BY DEF Fresh, AskedOp, Debug!Ins
  <2>4. asked.cmd = "next" /\ AskedOp = "call" =>
          AwaitedIn(Append(asked.frames, AskedNext), "disassemble", target, frames', pc')
    <3>1. SUFFICES ASSUME asked.cmd = "next", AskedOp = "call"
                   PROVE  AwaitedIn(Append(asked.frames, AskedNext), "disassemble", target, frames', pc')
      OBVIOUS
    <3>2. AwaitedIn(Append(asked.frames, AskedNext), "execute", target, frames, pc)
      BY <1>1, <1>5, <2>1, <2>3, <3>1 DEF Pursued, Awaited
    <3>3. Append(asked.frames, AskedNext) \in Seq(Location)
      BY <1>5, AppendProperties
    <3> QED
      BY <1>1, <1>5, <1>6, <2>1, <3>2, <3>3, AwaitedGoesOn
  <2>5. (asked.cmd = "stepin" /\ AskedOp = "ret") \/ asked.cmd = "stepout" =>
          AwaitedIn(asked.frames, "disassemble", target, frames', pc')
    BY <1>1, <1>5, <1>6, <2>1, AwaitedGoesOn DEF Pursued, Awaited
  <2>6. asked.cmd = "next" /\ AskedOp \notin {"call", "ret"} => current' = target /\ frames' = asked.frames
    BY <1>1, <1>5, <2>1, <2>2 DEF Pursued, Landed, Fresh, Debug!Target
  <2>7. ~(asked.cmd = "stepin" /\ AskedOp = "call")
    BY <1>1, <1>5, <2>1, <2>3 DEF Pursued, Landed
  <2>8. Pursued'
    BY <1>1, <1>2, <2>4, <2>5, <2>6, <2>7, SamePlace DEF Pursued, Awaited, Landed
  <2> QED
    BY <1>1, <1>2, <1>5, <2>1, <2>2, <2>8, SamePlace DEF Course
<1>9. CASE Calls
  <2>1. Debug!Ins.op = "call" /\ frames' = Append(frames, Debug!After) /\ pc' = Debug!Ins.w
    BY <1>9 DEF Calls
  <2>2. current' = n + 1 /\ Len(frames') = n + 1 /\ Debug!NextNesting = n + 1
    <3>1. Len(frames') = n + 1
      BY <1>5, <1>6, <1>7, <2>1, AppendProperties
    <3> QED
      BY <1>3, <1>6, <1>7, <2>1, <3>1
  <2>3. Fresh => /\ AskedOp = "call" /\ AskedNext = Debug!After /\ asked.frames = frames
                 /\ Debug!Ins.w = job.code[asked.pc].w
    BY <2>1 DEF Fresh, AskedOp, AskedNext, Debug!Ins, Debug!After
  <2>4. asked.cmd = "next" /\ AskedOp = "call" =>
          AwaitedIn(Append(asked.frames, AskedNext), "disassemble", target, frames', pc')
    <3>1. SUFFICES ASSUME asked.cmd = "next", AskedOp = "call"
                   PROVE  AwaitedIn(Append(asked.frames, AskedNext), "disassemble", target, frames', pc')
      OBVIOUS
    <3>2. CASE Fresh
      <4>1. Append(asked.frames, AskedNext) = frames'
        BY <2>1, <2>3, <3>2
      <4>2. target = n
        BY <1>7, <3>1, <3>2 DEF Fresh, Debug!Target
      <4>3. AwaitedIn(frames', "disassemble", target, frames', pc')
        BY <2>2, <4>2 DEF AwaitedIn
      <4> QED
        BY <4>1, <4>3
    <3>3. CASE ~Fresh
      <4>1. AwaitedIn(Append(asked.frames, AskedNext), "execute", target, frames, pc)
        BY <1>1, <1>5, <3>1, <3>3 DEF Pursued, Awaited
      <4>2. Append(asked.frames, AskedNext) \in Seq(Location)
        BY <1>5, AppendProperties
      <4> QED
        BY <1>1, <1>5, <1>6, <1>9, <4>1, <4>2, AwaitedGoesOn
    <3> QED
      BY <3>2, <3>3
  <2>5. (asked.cmd = "stepin" /\ AskedOp = "ret") \/ asked.cmd = "stepout" =>
          AwaitedIn(asked.frames, "disassemble", target, frames', pc')
    BY <1>1, <1>5, <1>6, <1>9, AwaitedGoesOn DEF Pursued, Awaited
  <2>6. ~(asked.cmd = "next" /\ AskedOp \notin {"call", "ret"})
    BY <1>1, <1>5, <2>3 DEF Pursued, Landed
  <2>7. asked.cmd = "stepin" /\ AskedOp = "call" =>
          /\ current' = target /\ pc' = job.code[asked.pc].w
          /\ frames' = Append(asked.frames, AskedNext)
    <3>1. SUFFICES ASSUME asked.cmd = "stepin", AskedOp = "call"
                   PROVE  /\ current' = target /\ pc' = job.code[asked.pc].w
                          /\ frames' = Append(asked.frames, AskedNext)
      OBVIOUS
    <3>2. Fresh
      BY <1>1, <1>5, <3>1 DEF Pursued, Landed
    <3>3. target = n + 1
      BY <2>2, <3>1, <3>2 DEF Fresh, Debug!Target
    <3> QED
      BY <2>1, <2>2, <2>3, <3>2, <3>3
  <2>8. Pursued'
    BY <1>1, <1>2, <2>4, <2>5, <2>6, <2>7, SamePlace DEF Pursued, Awaited, Landed
  <2> QED
    BY <1>1, <1>2, <1>5, <2>2, <2>8, SamePlace DEF Course
<1>10. CASE Returns
  <2>1. Debug!Ins.op = "ret" /\ frames # <<>> /\ frames' = Debug!Front(frames)
    BY <1>10 DEF Returns
  <2>2. current' = n - 1 /\ Len(frames') = n - 1
    <3>1. Len(frames') = n - 1
      BY <1>5, <1>7, <2>1, FrontAppend
    <3> QED
      BY <1>3, <1>6, <1>7, <2>1, <3>1
  <2>3. Fresh => AskedOp = "ret"
    BY <2>1 DEF Fresh, AskedOp, Debug!Ins
  <2>4. asked.cmd = "next" /\ AskedOp = "call" =>
          AwaitedIn(Append(asked.frames, AskedNext), "disassemble", target, frames', pc')
    <3>1. SUFFICES ASSUME asked.cmd = "next", AskedOp = "call"
                   PROVE  AwaitedIn(Append(asked.frames, AskedNext), "disassemble", target, frames', pc')
      OBVIOUS
    <3>2. AwaitedIn(Append(asked.frames, AskedNext), "execute", target, frames, pc)
      BY <1>1, <1>5, <2>3, <3>1 DEF Pursued, Awaited
    <3>3. Append(asked.frames, AskedNext) \in Seq(Location)
      BY <1>5, AppendProperties
    <3> QED
      BY <1>1, <1>5, <1>6, <1>10, <3>2, <3>3, AwaitedGoesOn
  <2>5. (asked.cmd = "stepin" /\ AskedOp = "ret") \/ asked.cmd = "stepout" =>
          AwaitedIn(asked.frames, "disassemble", target, frames', pc')
    BY <1>1, <1>5, <1>6, <1>10, AwaitedGoesOn DEF Pursued, Awaited
  <2>6. /\ ~(asked.cmd = "next" /\ AskedOp \notin {"call", "ret"})
        /\ ~(asked.cmd = "stepin" /\ AskedOp = "call")
    BY <1>1, <1>5, <2>3 DEF Pursued, Landed
  <2>7. Pursued'
    BY <1>1, <1>2, <2>4, <2>5, <2>6, SamePlace DEF Pursued, Awaited, Landed
  <2> QED
    BY <1>1, <1>2, <1>5, <2>2, <2>7, SamePlace DEF Course
<1> QED
  BY <1>3, <1>8, <1>9, <1>10

LEMMA CourseStep ==
  ASSUME CourseInv, job \in Jobs, job' = job, Debug!Next
  PROVE  CourseInv'
<1>1. RunTypes'
  BY RunTypesKept DEF CourseInv
<1>2. ASSUME ~Debug!Execute PROVE Course'
  <2>1. current' = current /\ frames' = frames
    BY <1>2, OtherEffect
  <2>2. CASE stage' \in {"quit", "panic"}
    BY <2>2 DEF Course
  <2>3. CASE /\ stage = "disassemble" /\ stage' = IF current = target THEN "prompt" ELSE "execute"
             /\ pc' = pc /\ odd' = odd /\ target' = target /\ asked' = asked
    BY <2>1, <2>3, DisassembleCourse
  <2>4. ASSUME NEW c \in {"next", "stepin", "stepout"},
               stage = "prompt", stage' = "execute", pc' = pc, odd' = odd, target' = Debug!Target(c),
               asked' = [cmd |-> c, pc |-> pc, frames |-> frames]
        PROVE  Course'
    BY <2>1, <2>4, CommandCourse
  <2>5. ASSUME NEW a \in job.goto, stage = "prompt", stage' = "disassemble", pc' = a,
               odd' = odd \cup {"goto"}, target' = target, asked' = Debug!Nothing
        PROVE  Course'
    BY <2>1, <2>5 DEF CourseInv, Course, Debug!Nothing
  <2> QED
    BY <1>2, <2>2, <2>3, <2>4, <2>5, OtherEffect DEF CourseInv
<1> QED
  BY <1>1, <1>2, ExecuteCourse DEF CourseInv

LEMMA CourseInvariant == Spec => []CourseInv
<1>1. Init => CourseInv
  <2>1. Init => RunTypes
    BY RunInit DEF RunInv
  <2>2. Init => Course
    BY DEF Init, Debug!Init, Course
  <2> QED
    BY <2>1, <2>2 DEF CourseInv
<1>2. ASSUME ListInv, CourseInv, [Next]_vars PROVE CourseInv'
  <2>1. job' = job /\ job \in Jobs
    BY <1>2, JobStays DEF ListInv, ListTypes
  <2>2. CASE Debug!Next
    BY <1>2, <2>1, <2>2, CourseStep
  <2>3. CASE UNCHANGED session
    <3>1. /\ stage' = stage /\ current' = current /\ target' = target /\ pc' = pc /\ rl' = rl
          /\ saved' = saved /\ handler' = handler /\ frames' = frames /\ asked' = asked /\ odd' = odd
      BY <2>3 DEF session
    <3>2. RunTypes'
      BY <1>2, <2>1, <3>1 DEF CourseInv, RunTypes, Location
    <3>3. Fresh' <=> Fresh
      BY <2>1, <3>1 DEF Fresh, Debug!Target, Debug!NextNesting, Debug!Ins
    <3>4. Landed' <=> Landed
      BY <3>1 DEF Landed
    <3>5. Pursued' <=> Pursued
      BY <2>1, <3>1, <3>3, <3>4, SamePlace DEF Pursued, Awaited
    <3>6. Course'
      BY <1>2, <2>1, <3>1, <3>5, SamePlace DEF CourseInv, Course, Location
    <3> QED
      BY <3>2, <3>6 DEF CourseInv
  <2> QED
    BY <1>2, <2>2, <2>3 DEF Next, vars
<1> QED
  BY <1>1, <1>2, ListInvariant, PTL DEF Spec

\* next, stepin and stepout of tdbg end where they should, however deep the calls
\* in between are nested, for every program whose returns go back to where the
\* call was: the counter of nestings in the loop of src/bin/tdbg.rs.
THEOREM StepsEndRight == Spec => []StepsLandRight
<1>1. ASSUME CourseInv PROVE StepsLandRight
  <2>1. SUFFICES ASSUME stage = "prompt", "return" \notin odd, asked # Debug!Nothing
                 PROVE  /\ asked.cmd \in {"next", "stepin", "stepout"}
                        /\ asked.cmd = "next" /\ AskedOp = "call" => pc = AskedNext /\ frames = asked.frames
                        /\ asked.cmd = "next" /\ AskedOp \notin {"call", "ret"} => frames = asked.frames
                        /\ asked.cmd = "stepin" /\ AskedOp = "call" =>
                             pc = job.code[asked.pc].w /\ frames = Append(asked.frames, AskedNext)
                        /\ asked.cmd = "stepin" /\ AskedOp = "ret" => Append(frames, pc) = asked.frames
                        /\ asked.cmd = "stepout" => Append(frames, pc) = asked.frames
    BY DEF StepsLandRight, Debug!StepsLandRight, AskedOp, AskedNext
  <2>2. /\ frames \in Seq(Location) /\ pc \in Location /\ asked.frames \in Seq(Location)
        /\ asked.cmd \in {"next", "stepin", "stepout"} /\ AskedNext \in Location /\ Pursued
    BY <1>1, <2>1 DEF CourseInv, Course, RunTypes
  <2>3. ~Fresh
    BY <2>1 DEF Fresh
  <2>4. \A b : Awaited(b) => Append(frames, pc) = b
    BY <2>1 DEF Awaited, AwaitedIn
  <2>5. Append(frames, pc) = Append(asked.frames, AskedNext) => pc = AskedNext /\ frames = asked.frames
    BY <2>2, AppendInjective
  <2> QED
    BY <2>2, <2>3, <2>4, <2>5 DEF Pursued
<1> QED
  BY <1>1, CourseInvariant, PTL
=============================================================================
