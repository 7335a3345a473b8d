---------------------------- MODULE TrapsProofs ----------------------------
(***************************************************************************)
(* Proofs about Traps, for every size of memory, every set of unmapped     *)
(* words and every program.                                                *)
(*                                                                         *)
(*   1. TypeOK, from the inductive invariant TypeInv                       *)
(*   2. IsCpu, step by step: what is proved of Cpu holds of this machine   *)
(*   3. FramesIntact, from the inductive invariant StackInv, and from that *)
(*      RethRestores                                                       *)
(***************************************************************************)
EXTENDS Traps, DataFacts, SequenceTheorems, FiniteSetTheorems, TLAPS

----------------------------------------------------------------------------
(* 1. Type correctness *)

\* An instruction that has been fetched may still push a word.
Now == IF phase = "handler" THEN 1 ELSE 0

TypeInv ==
  /\ TypeOK
  /\ phase = "trap" => pend # "none"
  /\ \A i \in 1 .. Len(frames) : frames[i].depth + left + Now <= MaxInstructions

LEMMA WordTypes ==
  /\ M \in Nat \ {0} /\ M >= 32 /\ 0 \in Word
  /\ \A tm \in DOMAIN TrapCode : TrapCode[tm] \in Word
  /\ Points \subseteq Word
  /\ \A l \in Loads : l[1] \in {"gp", "rs", "rh"} /\ l[2] \in Word
<1>1. M \in Nat \ {0} /\ M >= 32
  BY TrapsAssumption
<1>2. \A tm \in DOMAIN TrapCode : TrapCode[tm] \in Word
  BY <1>1 DEF TrapCode, Word
<1>3. Points \subseteq Word /\ 0 \in Word
  BY <1>1, TrapsAssumption DEF Word
<1>4. ASSUME NEW l \in Loads
      PROVE  l[1] \in {"gp", "rs", "rh"} /\ l[2] \in Word
  <2>1. l \in {"gp", "rs", "rh"} \X Word
    BY TrapsAssumption DEF Word
  <2> QED
    BY <2>1
<1> QED
  BY <1>1, <1>2, <1>3, <1>4

LEMMA WordIsInt ==
  ASSUME NEW a \in Word
  PROVE  a \in Int
BY WordTypes DEF Word

LEMMA UpDownType ==
  ASSUME NEW a \in Word, NEW n \in Int
  PROVE  Up(a, n) \in Word /\ Down(a, n) \in Word
<1>1. M \in Nat \ {0} /\ a \in Int
  BY WordTypes, WordIsInt
<1>2. a + n \in Int /\ a + M - n \in Int
  BY <1>1
<1>3. (a + n) % M \in 0 .. M - 1 /\ (a + M - n) % M \in 0 .. M - 1
  BY <1>1, <1>2, Division
<1> QED
  BY <1>3 DEF Up, Down, Word

\* Addresses wrap around once.
LEMMA UpIs ==
  ASSUME NEW a \in Word, NEW n \in 0 .. M
  PROVE  Up(a, n) = IF a + n < M THEN a + n ELSE a + n - M
<1>1. M \in Nat \ {0} /\ a \in 0 .. M - 1
  BY WordTypes DEF Word
<1>2. PICK t \in Int : t = a + n
  BY <1>1
<1>3. /\ t \in 0 .. M - 1 => t % M = t
      /\ t \in M .. 2 * M - 1 => t % M = t - M
  BY <1>1, Remainder
<1> QED
  BY <1>1, <1>2, <1>3 DEF Up

LEMMA DownIs ==
  ASSUME NEW a \in Word, NEW n \in 0 .. M
  PROVE  Down(a, n) = IF n <= a THEN a - n ELSE a + M - n
<1>1. M \in Nat \ {0} /\ a \in 0 .. M - 1
  BY WordTypes DEF Word
<1>2. PICK t \in Int : t = a + M - n
  BY <1>1
<1>3. /\ t \in 0 .. M - 1 => t % M = t
      /\ t \in M .. 2 * M - 1 => t % M = t - M
  BY <1>1, Remainder
<1> QED
  BY <1>1, <1>2, <1>3 DEF Down

LEMMA PushedType ==
  ASSUME TypeOK, NEW n \in 1 .. 5
  PROVE  Pushed[n] \in Word
<1>1. M >= 32 /\ M \in Nat
  BY TrapsAssumption
<1>2. 2 ^ 1 = 2 /\ 2 ^ 3 = 8
  OBVIOUS
<1>3. FlagsWord \in Word
  BY <1>1, <1>2 DEF FlagsWord, Bit, TypeOK, Word
<1>4. reg["gp"] \in Word /\ reg["rs"] \in Word /\ reg["rp"] \in Word /\ reg["rh"] \in Word
  BY DEF TypeOK, Reg
<1>5. SavedStack(reg["rs"]) \in Word
  BY <1>4, UpDownType DEF SavedStack
<1> QED
  BY <1>3, <1>4, <1>5 DEF Pushed

\* What happens to the frames when n words are pushed, or -n popped.
LEMMA MovedFrames ==
  ASSUME NEW s \in Seq(Frame), s # << >>, NEW n \in Int,
         Head(s).depth + n \in 0 .. MaxInstructions
  PROVE  LET t == <<[Head(s) EXCEPT !.depth = @ + n]>> \o Tail(s)
         IN  /\ t \in Seq(Frame) /\ Len(t) = Len(s)
             /\ t[1] = [s[1] EXCEPT !.depth = @ + n]
             /\ \A i \in 2 .. Len(s) : t[i] = s[i]
<1> DEFINE f == [Head(s) EXCEPT !.depth = @ + n]
<1>1. Head(s) \in Frame /\ Head(s) = s[1] /\ Tail(s) \in Seq(Frame)
      /\ Len(Tail(s)) = Len(s) - 1 /\ Len(s) \in Nat \ {0}
  OBVIOUS
<1>2. f \in Frame
  BY <1>1 DEF Frame
<1> HIDE DEF f
<1>3. <<f>> \in Seq(Frame) /\ Len(<<f>>) = 1 /\ <<f>>[1] = f
  BY <1>2
<1>4. \A i \in 1 .. Len(Tail(s)) : Tail(s)[i] = s[i + 1]
  BY <1>1
<1>5. <<f>> \o Tail(s) \in Seq(Frame) /\ Len(<<f>> \o Tail(s)) = Len(s)
  BY <1>1, <1>3
<1>6. (<<f>> \o Tail(s))[1] = f
  BY <1>1, <1>3
<1>7. ASSUME NEW i \in 2 .. Len(s)
      PROVE  (<<f>> \o Tail(s))[i] = s[i]
  <2>1. (<<f>> \o Tail(s))[i] = Tail(s)[i - 1]
    BY <1>1, <1>3
  <2> QED
    BY <1>1, <1>4, <2>1
<1> QED
  BY <1>1, <1>5, <1>6, <1>7 DEF f

\* The frames that are left when the last trap has returned.
LEMMA TailFrames ==
  ASSUME NEW s \in Seq(Frame), s # << >>
  PROVE  /\ Tail(s) \in Seq(Frame) /\ Len(Tail(s)) = Len(s) - 1
         /\ \A i \in 1 .. Len(s) - 1 : Tail(s)[i] = s[i + 1]
OBVIOUS

\* The frames when another trap has entered a handler.
LEMMA MoreFrames ==
  ASSUME NEW s \in Seq(Frame), NEW f \in Frame
  PROVE  LET t == <<f>> \o s
         IN  /\ t \in Seq(Frame) /\ Len(t) = Len(s) + 1 /\ t[1] = f
             /\ \A i \in 2 .. Len(t) : t[i] = s[i - 1]
OBVIOUS

\* The history stays well formed when the handler has moved rs by n.
LEMMA MovedType ==
  ASSUME TypeInv, phase = "handler", phase' \in {"fetch", "trap"}, left' = left,
         NEW n \in {1, -1}, Moved(n)
  PROVE  /\ frames' \in Seq(Frame) /\ Len(frames') <= MaxFrames
         /\ \A i \in 1 .. Len(frames') : frames'[i].depth + left' + Now' <= MaxInstructions
<1>1. frames \in Seq(Frame) /\ Len(frames) <= MaxFrames /\ left \in Nat
      /\ MaxInstructions \in Nat /\ MaxFrames \in Nat
  BY TrapsAssumption DEF TypeInv, TypeOK
<1>2. Now = 1 /\ Now' = 0
  BY DEF Now
<1>3. \A i \in 1 .. Len(frames) : frames[i].depth + left + 1 <= MaxInstructions
                                  /\ frames[i].depth \in Nat
  <2>1. \A i \in 1 .. Len(frames) : frames[i] \in Frame
    BY <1>1
  <2>2. \A f \in Frame : f.depth \in Nat
    BY <1>1 DEF Frame
  <2> QED
    BY <1>2, <2>1, <2>2 DEF TypeInv
<1>4. CASE frames = << >> \/ Head(frames).depth + n < 0
  BY <1>1, <1>4 DEF Moved
<1>5. CASE ~(frames = << >> \/ Head(frames).depth + n < 0)
  <2>1. Head(frames) = frames[1] /\ 1 \in 1 .. Len(frames)
    BY <1>1, <1>5
  <2>2. frames[1].depth + n \in 0 .. MaxInstructions /\ frames[1] \in Frame
        /\ n \in Int /\ frames # << >>
    BY <1>1, <1>3, <1>5, <2>1
  <2>3. frames' = <<[Head(frames) EXCEPT !.depth = @ + n]>> \o Tail(frames)
    BY <1>5 DEF Moved
  <2>4. /\ frames' \in Seq(Frame) /\ Len(frames') = Len(frames)
        /\ frames'[1] = [frames[1] EXCEPT !.depth = @ + n]
        /\ \A i \in 2 .. Len(frames) : frames'[i] = frames[i]
    <3>1. Head(frames).depth + n \in 0 .. MaxInstructions
      BY <2>1, <2>2
    <3>2. /\ frames' \in Seq(Frame) /\ Len(frames') = Len(frames)
          /\ frames'[1] = [frames[1] EXCEPT !.depth = @ + n]
          /\ \A i \in 2 .. Len(frames) : frames'[i] = frames[i]
      BY <1>1, <2>2, <2>3, <3>1, MovedFrames, Zenon
    <3> QED
      BY <3>2
  <2>5. frames'[1].depth = frames[1].depth + n
    BY <2>2, <2>4 DEF Frame
  <2>6. ASSUME NEW i \in 1 .. Len(frames')
        PROVE  frames'[i].depth + left' + Now' <= MaxInstructions
    <3>1. CASE i = 1
      BY <1>1, <1>2, <1>3, <2>1, <2>5, <3>1
    <3>2. CASE i # 1
      BY <1>1, <1>2, <1>3, <2>4, <3>2
    <3> QED
      BY <3>1, <3>2
  <2> QED
    BY <1>1, <2>4, <2>6
<1> QED
  BY <1>4, <1>5

\* What a handler leaves behind.
HandlerTyped ==
  /\ reg' \in [Reg -> Word] /\ user' \in BOOLEAN /\ trap' \in BOOLEAN /\ vm' \in BOOLEAN
  /\ \/ phase' = "fetch" /\ pend' = "none"
     \/ phase' = "trap" /\ pend' \in DOMAIN TrapCode
  /\ mem' \in [Word -> Word]
  /\ frames' \in Seq(Frame) /\ Len(frames') <= MaxFrames
  /\ \A i \in 1 .. Len(frames') : frames'[i].depth + left' + Now' <= MaxInstructions

\* The history stays well formed when frames are given up or returned from.
LEMMA FewerType ==
  ASSUME TypeInv, phase = "handler", phase' \in {"fetch", "trap"}, left' = left,
         frames' \in {frames, << >>} \/ (frames # << >> /\ frames' = Tail(frames))
  PROVE  /\ frames' \in Seq(Frame) /\ Len(frames') <= MaxFrames
         /\ \A i \in 1 .. Len(frames') : frames'[i].depth + left' + Now' <= MaxInstructions
<1>1. frames \in Seq(Frame) /\ Len(frames) <= MaxFrames /\ left \in Nat
      /\ MaxInstructions \in Nat /\ MaxFrames \in Nat
  BY TrapsAssumption DEF TypeInv, TypeOK
<1>2. Now = 1 /\ Now' = 0
  BY DEF Now
<1>3. \A f \in Frame : f.depth \in Nat
  BY <1>1 DEF Frame
<1>4. \A i \in 1 .. Len(frames) : frames[i].depth + left <= MaxInstructions
  <2> TAKE i \in 1 .. Len(frames)
  <2>1. frames[i].depth \in Nat
    BY <1>1, <1>3
  <2>2. frames[i].depth + left + 1 <= MaxInstructions
    BY <1>2 DEF TypeInv
  <2> QED
    BY <1>1, <2>1, <2>2
<1>5. CASE frames' = << >>
  BY <1>1, <1>5
<1>6. CASE frames' = frames
  <2>1. \A i \in 1 .. Len(frames) : frames[i].depth + left + 0 <= MaxInstructions
    BY <1>1, <1>3, <1>4
  <2> QED
    BY <1>1, <1>2, <1>6, <2>1
<1>7. CASE frames # << >> /\ frames' = Tail(frames)
  <2>1. /\ frames' \in Seq(Frame) /\ Len(frames') = Len(frames) - 1
        /\ \A i \in 1 .. Len(frames) - 1 : frames'[i] = frames[i + 1]
    BY <1>1, <1>7, TailFrames
  <2>2. Len(frames) \in Nat
    BY <1>1
  <2>3. ASSUME NEW i \in 1 .. Len(frames')
        PROVE  frames'[i].depth + left' + Now' <= MaxInstructions
    <3>1. i + 1 \in 1 .. Len(frames) /\ frames'[i] = frames[i + 1]
      BY <2>1, <2>2
    <3>2. frames[i + 1].depth \in Nat
      BY <1>1, <1>3, <3>1
    <3> QED
      BY <1>1, <1>2, <1>4, <3>1, <3>2
  <2> QED
    BY <1>1, <2>1, <2>2, <2>3
<1> QED
  BY <1>5, <1>6, <1>7

LEMMA HandlerType ==
  ASSUME TypeInv, Handler
  PROVE  HandlerTyped
<1> USE DEF HandlerTyped, Done, Raise
<1>1. /\ reg \in [Reg -> Word] /\ user \in BOOLEAN /\ trap \in BOOLEAN /\ vm \in BOOLEAN
      /\ mem \in [Word -> Word] /\ phase = "handler" /\ left' = left
      /\ Reg = {"gp", "rs", "rp", "rh"}
  BY DEF TypeInv, TypeOK, Handler, Reg
<1>2. {"SysCall", "Halt", "Level2PageFault", "IllegalOperation", "IllegalHandlerReturn"}
        \subseteq DOMAIN TrapCode
  BY DEF TrapCode
<1>3. ASSUME NEW r \in Reg, NEW w \in Word
      PROVE  [reg EXCEPT ![r] = w] \in [Reg -> Word]
  BY <1>1
<1>4. \A a \in Word : Up(a, 1) \in Word /\ Down(a, 1) \in Word
  BY UpDownType
<1>5. reg["rs"] \in Word
  BY <1>1
<1>6. CASE Trapping
  BY <1>1, <1>2, <1>6, FewerType DEF Trapping, flags
<1>7. CASE Ctf
  BY <1>1, <1>7, FewerType DEF Ctf
<1>8. CASE Mode
  BY <1>1, <1>2, <1>8, FewerType DEF Mode
<1>9. CASE Load
  <2>1. PICK l \in Loads :
          IF Accessible(l[1])
          THEN /\ Done /\ Set(l[1], l[2])
               /\ IF l[1] = "rs" THEN frames' = << >> ELSE UNCHANGED frames
          ELSE Raise("IllegalOperation") /\ UNCHANGED <<reg, frames>>
    BY <1>9 DEF Load
  <2>2. l[1] \in Reg /\ l[2] \in Word
    BY <1>1, WordTypes
  <2>3. UNCHANGED <<flags, mem>>
    BY <1>9 DEF Load
  <2>4. reg' \in [Reg -> Word] /\ frames' \in {frames, << >>}
    BY <1>1, <1>3, <2>1, <2>2 DEF Set
  <2> QED
    BY <1>1, <1>2, <2>1, <2>3, <2>4, FewerType DEF flags
<1>10. CASE Push
  <2>1. PICK r \in Reg :
          IF ~Accessible(r)
          THEN Raise("IllegalOperation") /\ UNCHANGED <<reg, mem, frames>>
          ELSE /\ Set("rs", Down(reg["rs"], 1))
               /\ Moved(1)
               /\ IF Unmapped(PushTo(reg["rs"])) THEN Raise("Level2PageFault") /\ UNCHANGED mem
                  ELSE Done /\ mem' = [mem EXCEPT ![PushTo(reg["rs"])] = reg[r]]
    BY <1>10 DEF Push
  <2>2. UNCHANGED <<user, trap, vm>>
    BY <1>10 DEF Push, flags
  <2>3. reg[r] \in Word /\ Down(reg["rs"], 1) \in Word
    BY <1>1, <1>4, <1>5
  <2>4. reg' \in [Reg -> Word] /\ mem' \in [Word -> Word]
    BY <1>1, <1>3, <2>1, <2>3 DEF Set
  <2>5. CASE ~Accessible(r)
    BY <1>1, <1>2, <2>1, <2>2, <2>4, <2>5, FewerType
  <2>6. CASE Accessible(r)
    BY <1>1, <1>2, <2>1, <2>2, <2>4, <2>6, MovedType
  <2> QED
    BY <2>5, <2>6
<1>11. CASE Pop
  <2> DEFINE a == reg["rs"]  moved == [reg EXCEPT !["rs"] = Up(a, 1)]
  <2>1. PICK r \in Reg :
          IF Unmapped(a) THEN Raise("Level2PageFault") /\ UNCHANGED <<reg, frames>>
          ELSE IF Accessible(r)
          THEN /\ Done /\ reg' = [moved EXCEPT ![r] = mem[a]]
               /\ IF r = "rs" THEN frames' = << >> ELSE Moved(-1)
          ELSE Raise("IllegalOperation") /\ reg' = moved /\ Moved(-1)
    BY <1>11 DEF Pop
  <2>2. UNCHANGED <<user, trap, vm, mem>>
    BY <1>11 DEF Pop, flags
  <2>3. moved \in [Reg -> Word] /\ mem[a] \in Word
    BY <1>1, <1>3, <1>4, <1>5
  <2>4. [moved EXCEPT ![r] = mem[a]] \in [Reg -> Word]
    BY <2>3
  <2>5. reg' \in [Reg -> Word]
    BY <1>1, <2>1, <2>3, <2>4
  <2>6. CASE frames' \in {frames, << >>}
    BY <1>1, <1>2, <2>1, <2>2, <2>5, <2>6, FewerType
  <2>7. CASE Moved(-1)
    BY <1>1, <1>2, <2>1, <2>2, <2>5, <2>7, MovedType
  <2> QED
    BY <2>1, <2>6, <2>7
<1>12. CASE Reth
  <2>1. \A n \in 1 .. 5 : PopAt(n) \in Word
    <3> TAKE n \in 1 .. 5
    <3>1. n - 1 \in Int /\ n - 4 \in Int
      OBVIOUS
    <3>2. mem[Up(reg["rs"], 2)] \in Word
      BY <1>1, <1>5, UpDownType
    <3>3. Up(reg["rs"], n - 1) \in Word /\ Up(mem[Up(reg["rs"], 2)], n - 4) \in Word
      BY <1>5, <3>1, <3>2, UpDownType
    <3> QED
      BY <3>3 DEF PopAt
  <2>2. ASSUME NEW n \in 0 .. 5 PROVE Popped(n) \in [Reg -> Word]
    <3>1. \A k \in 1 .. 5 : mem[PopAt(k)] \in Word
      BY <1>1, <2>1
    <3>2. Up(reg["rs"], n) \in Word /\ Up(mem[PopAt(3)], n - 3) \in Word
      <4>1. mem[PopAt(3)] \in Word /\ n \in Int /\ n - 3 \in Int
        BY <3>1
      <4> QED
        BY <1>5, <4>1, UpDownType
    <3> QED
      BY <1>1, <3>1, <3>2 DEF Popped
  <2>3. FirstTrap \subseteq 1 .. 5
    BY DEF FirstTrap
  <2>4. CASE ~trap
    BY <1>1, <1>2, <1>12, <2>4, FewerType DEF Reth, flags
  <2>5. CASE trap /\ FirstTrap = {} /\ Return
    <3>1. HasBit(mem[PopAt(5)], 0) \in BOOLEAN /\ HasBit(mem[PopAt(5)], 3) \in BOOLEAN
      BY DEF HasBit
    <3>2. reg' \in [Reg -> Word]
      BY <2>2, <2>5 DEF Return
    <3>3. frames' = << >> \/ (frames # << >> /\ frames' = Tail(frames))
      BY <2>5 DEF Return, Balanced
    <3>4. mem' = mem
      BY <1>12 DEF Reth
    <3>5. user' \in BOOLEAN /\ trap' \in BOOLEAN /\ vm' \in BOOLEAN
      BY <2>5, <3>1 DEF Return
    <3> QED
      BY <1>1, <2>5, <3>2, <3>3, <3>4, <3>5, FewerType DEF Return
  <2>6. ASSUME trap, NEW n \in FirstTrap,
               /\ UNCHANGED flags
               /\ frames' = << >>
               /\ IF Unmapped(PopAt(n))
                  THEN Raise("Level2PageFault") /\ reg' = Popped(n - 1)
                  ELSE /\ Raise("IllegalOperation")
                       /\ Set("rs", Up(reg["rs"], 1))
        PROVE  HandlerTyped
    <3>1. n - 1 \in 0 .. 5 /\ Up(reg["rs"], 1) \in Word
      BY <1>4, <1>5, <2>3
    <3>2. reg' \in [Reg -> Word]
      BY <1>1, <1>3, <2>2, <2>6, <3>1 DEF Set
    <3>3. mem' = mem
      BY <1>12 DEF Reth
    <3> QED
      BY <1>1, <1>2, <2>6, <3>2, <3>3, FewerType DEF flags
  <2> QED
    BY <1>12, <2>4, <2>5, <2>6 DEF Reth
<1> QED
  BY <1>6, <1>7, <1>8, <1>9, <1>10, <1>11, <1>12 DEF Handler

LEMMA InitType == Init => TypeInv
<1> SUFFICES ASSUME Init PROVE TypeInv
  OBVIOUS
<1>1. Start \in [{"gp", "rs", "rp"} -> Word] /\ MaxFrames \in Nat /\ MaxInstructions \in Nat
  BY TrapsAssumption DEF Word
<1>2. reg \in [Reg -> Word]
  BY <1>1, WordTypes DEF Init, Reg
<1>3. mem \in [Word -> Word]
  BY WordTypes DEF Init
<1>4. frames \in Seq(Frame) /\ Len(frames) = 0
  BY DEF Init
<1>5. pc \in Word
  BY WordTypes DEF Init
<1>6. phase = "fetch" /\ pend = "none" /\ left = MaxInstructions
      /\ user = FALSE /\ trap = FALSE /\ vm = FALSE
  BY DEF Init
<1>7. Len(frames) <= MaxFrames /\ left \in 0 .. MaxInstructions
  BY <1>1, <1>4, <1>6
<1>8. TypeOK
  BY <1>2, <1>3, <1>4, <1>5, <1>6, <1>7, Zenon DEF TypeOK
<1> QED
  BY <1>4, <1>6, <1>8 DEF TypeInv

LEMMA TrapEntryType ==
  ASSUME TypeInv, TrapEntry
  PROVE  TypeInv'
<1>1. /\ reg \in [Reg -> Word] /\ pc \in Word /\ user \in BOOLEAN /\ vm \in BOOLEAN
      /\ mem \in [Word -> Word] /\ phase = "trap" /\ pend \in DOMAIN TrapCode
      /\ frames \in Seq(Frame) /\ Len(frames) <= MaxFrames /\ left \in 0 .. MaxInstructions
  BY DEF TypeInv, TypeOK, TrapEntry
<1>2. trap' = TRUE /\ user' = FALSE /\ vm' = vm /\ left' = left
  BY DEF TrapEntry
<1>3. Now = 0 /\ MaxInstructions \in Nat
  BY <1>1, TrapsAssumption DEF Now
<1>4. \A i \in 1 .. Len(frames) : frames[i].depth + left + 0 <= MaxInstructions
  BY <1>3 DEF TypeInv
<1>5. Reg = {"gp", "rs", "rp", "rh"} /\ reg["rs"] \in Word /\ reg["rh"] \in Word
  BY <1>1 DEF Reg
<1>6. \A n \in Int : Down(reg["rs"], n) \in Word
  BY <1>5, UpDownType
<1>7. CASE reg["rh"] = 0
  <2>1. phase' = "kernel" /\ UNCHANGED <<reg, pc, pend, mem, frames>>
    BY <1>7 DEF TrapEntry
  <2>2. Now' = 0
    BY <2>1 DEF Now
  <2> QED
    BY <1>1, <1>2, <1>4, <2>1, <2>2 DEF TypeInv, TypeOK
<1>8. CASE reg["rh"] # 0
  <2>1. mem' = [a \in Word |-> LET n == Down(reg["rs"], a) IN
                                IF n \in Written THEN Pushed[n] ELSE mem[a]]
    BY <1>8 DEF TrapEntry
  <2>2. Written \subseteq 1 .. 5
    BY DEF Written
  <2>3. mem' \in [Word -> Word]
    <3>1. TypeOK
      BY DEF TypeInv
    <3>2. \A n \in Written : Pushed[n] \in Word
      BY <2>2, <3>1, PushedType
    <3> QED
      BY <1>1, <2>1, <3>2
  <2>4. CASE Written = 1 .. 5
    <3>1. /\ Len(frames) < MaxFrames /\ Done /\ pc' = reg["rh"]
          /\ reg' = [reg EXCEPT !["rs"] = Down(reg["rs"], 5), !["gp"] = TrapCode[pend]]
          /\ frames' = Entered \o frames
      BY <1>8, <2>4 DEF TrapEntry
    <3>2. reg' \in [Reg -> Word]
      BY <1>1, <1>5, <1>6, <3>1, WordTypes
    <3> DEFINE f == [reg |-> reg, pc |-> pc, user |-> user, vm |-> vm, depth |-> 0]
    <3>3. f \in Frame /\ f.depth = 0
      BY <1>1, <1>3 DEF Frame
    <3> HIDE DEF f
    <3>4. /\ frames' \in Seq(Frame) /\ Len(frames') = Len(frames) + 1 /\ frames'[1] = f
          /\ \A i \in 2 .. Len(frames') : frames'[i] = frames[i - 1]
      <4>1. frames' = <<f>> \o frames
        BY <3>1 DEF Entered, f
      <4> QED
        BY <1>1, <3>3, <4>1, MoreFrames, Zenon
    <3>5. Now' = 0
      BY <3>1 DEF Now, Done
    <3>6. Len(frames) \in Nat
      BY <1>1
    <3>7. ASSUME NEW i \in 1 .. Len(frames')
          PROVE  frames'[i].depth + left' + Now' <= MaxInstructions
      <4>1. CASE i = 1
        BY <1>1, <1>2, <1>3, <3>3, <3>4, <3>5, <4>1
      <4>2. CASE i # 1
        <5>1. i \in 2 .. Len(frames') /\ i - 1 \in 1 .. Len(frames)
          BY <3>4, <3>6, <4>2
        <5> QED
          BY <1>2, <1>4, <3>4, <3>5, <5>1
      <4> QED
        BY <4>1, <4>2
    <3>8. MaxFrames \in Nat /\ Len(frames') <= MaxFrames
      BY <3>1, <3>4, <3>6, TrapsAssumption
    <3> QED
      BY <1>1, <1>2, <1>5, <2>3, <3>1, <3>2, <3>4, <3>7, <3>8 DEF TypeInv, TypeOK, Done
  <2>5. CASE Written # 1 .. 5
    <3>1. /\ phase' = "kernel" /\ pend' = "Level2PageFault"
          /\ Set("rs", Down(reg["rs"], Cardinality(Written) + 1))
          /\ UNCHANGED <<pc, frames>>
      BY <1>8, <2>5 DEF TrapEntry
    <3>2. Cardinality(Written) \in Nat
      <4>1. IsFiniteSet(1 .. 5)
        BY 1 \in Int, 5 \in Int, FS_Interval
      <4>2. IsFiniteSet(Written)
        BY <2>2, <4>1, FS_Subset
      <4> QED
        BY <4>2, FS_CardinalityType
    <3>3. Down(reg["rs"], Cardinality(Written) + 1) \in Word
      BY <1>6, <3>2
    <3>4. reg' \in [Reg -> Word]
      BY <1>1, <1>5, <3>1, <3>3 DEF Set
    <3>5. Now' = 0
      BY <3>1 DEF Now
    <3> QED
      BY <1>1, <1>2, <1>4, <2>3, <3>1, <3>4, <3>5 DEF TypeInv, TypeOK, TrapCode
  <2> QED
    BY <2>4, <2>5
<1> QED
  BY <1>7, <1>8

LEMMA NextType == TypeInv /\ [Next]_vars => TypeInv'
<1> SUFFICES ASSUME TypeInv, [Next]_vars PROVE TypeInv'
  OBVIOUS
<1>0. TypeOK
  BY DEF TypeInv
<1>1. CASE FetchOpcode
  <2>1. /\ left > 0 /\ left' = left - 1 /\ left \in 0 .. MaxInstructions
        /\ MaxInstructions \in Nat /\ Now = 0
    BY <1>0, <1>1, TrapsAssumption DEF FetchOpcode, TypeOK, Now
  <2>2. Now' \in {0, 1}
    BY DEF Now
  <2>3. UNCHANGED <<reg, user, trap, vm, mem, frames>>
    BY <1>1 DEF FetchOpcode, flags
  <2>4. \A f \in Frame : f.depth \in Nat
    BY <2>1 DEF Frame
  <2>5. ASSUME NEW i \in 1 .. Len(frames)
        PROVE  frames[i].depth + left' + Now' <= MaxInstructions
    <3>1. frames[i].depth \in Nat
      BY <1>0, <2>4 DEF TypeOK
    <3>2. frames[i].depth + left + 0 <= MaxInstructions
      BY <2>1 DEF TypeInv
    <3> QED
      BY <2>1, <2>2, <3>1, <3>2
  <2>6. pc' \in Word /\ phase' \in {"kernel", "handler"} /\ pend' \in {"Level2PageFault", "none"}
    <3>1. Up(pc, 1) \in Word
      BY <1>0, UpDownType DEF TypeOK
    <3> QED
      BY <1>1, <3>1, WordTypes DEF FetchOpcode
  <2>7. left' \in 0 .. MaxInstructions
    BY <2>1
  <2>8. "Level2PageFault" \in DOMAIN TrapCode
    BY DEF TrapCode
  <2> QED
    BY <1>0, <2>3, <2>5, <2>6, <2>7, <2>8 DEF TypeInv, TypeOK
<1>2. CASE Handler
  <2>1. HandlerTyped /\ UNCHANGED <<pc, left>>
    BY <1>2, HandlerType DEF Handler
  <2>2. \A tm \in DOMAIN TrapCode : tm # "none"
    BY DEF TrapCode
  <2> QED
    BY <1>0, <2>1, <2>2 DEF HandlerTyped, TypeInv, TypeOK
<1>3. CASE TrapEntry
  BY <1>3, TrapEntryType
<1>4. CASE Stop
  BY <1>4 DEF Stop, flags, TypeInv, TypeOK, Now
<1>5. CASE UNCHANGED vars
  BY <1>5 DEF vars, TypeInv, TypeOK, Now
<1> QED
  BY <1>1, <1>2, <1>3, <1>4, <1>5 DEF Next

LEMMA TypeInvariance == Spec => []TypeInv
BY InitType, NextType, PTL DEF Spec

\* Whatever handlers are installed and whatever they do, every word stays a
\* word, and no frame of the history outgrows the instructions executed.
THEOREM TypeCorrect == Spec => []TypeOK
<1>1. TypeInv => TypeOK
  BY DEF TypeInv
<1> QED
  BY <1>1, TypeInvariance, PTL

----------------------------------------------------------------------------
(* 2. The machine with a stack implements the processor with open memory.
   The state of Cpu is that of Traps without mem and its history; there is no
   kernel, so errh and loaded are constants. *)

LEMMA InitRefines == Init => C!Init
<1> SUFFICES ASSUME Init PROVE C!Init
  OBVIOUS
<1>1. TypeInv
  BY InitType
<1>2. reg \in [Reg -> Word] /\ reg["rh"] = 0 /\ pc \in Word
  BY <1>1 DEF TypeInv, TypeOK, Init, Reg
<1> QED
  BY <1>2 DEF Init, C!Init, C!Reg, Reg

\* A register that is set to a word is what Cpu calls a change.
LEMMA SetChanges ==
  ASSUME reg \in [Reg -> Word], NEW r \in Reg, NEW w \in Word, reg' = [reg EXCEPT ![r] = w]
  PROVE  \A S : r \in S => C!Changes(S)
BY DEF C!Changes, C!Reg, Reg

LEMMA UnmappedFaults ==
  ASSUME NEW a, Unmapped(a), NEW t
  PROVE  vm /\ "Level2PageFault" \in C!Faults(t)
BY DEF Unmapped, C!Faults, C!PageFaults

LEMMA HandlerRefines ==
  ASSUME TypeInv, Handler
  PROVE  C!Handler
<1> USE DEF Done, Raise, C!Done, C!Raise, flags, C!flags
<1>1. /\ reg \in [Reg -> Word] /\ user \in BOOLEAN /\ trap \in BOOLEAN /\ vm \in BOOLEAN
      /\ mem \in [Word -> Word] /\ phase = "handler" /\ UNCHANGED pc
      /\ Reg = {"gp", "rs", "rp", "rh"} /\ C!Reg = Reg /\ reg["rs"] \in Word
  BY DEF TypeInv, TypeOK, Handler, Reg, C!Reg
<1>2. \A r \in Reg : Accessible(r) <=> C!Writable(r)
  BY DEF Accessible, C!Writable, C!Privileged
<1>3. HandlerTyped
  BY HandlerType
<1>4. \A a \in Word : Up(a, 1) \in Word /\ Down(a, 1) \in Word
  BY UpDownType
<1>5. CASE Trapping
  BY <1>1, <1>5 DEF Trapping, C!Handler, C!SysCall, C!Halt
<1>6. CASE Ctf
  BY <1>1, <1>6 DEF Ctf, C!Handler, C!Ctf
<1>7. CASE Mode
  BY <1>1, <1>7 DEF Mode, C!Handler, C!Mode
<1>8. CASE Load
  <2>1. PICK l \in Loads :
          IF Accessible(l[1])
          THEN /\ Done /\ Set(l[1], l[2])
               /\ IF l[1] = "rs" THEN frames' = << >> ELSE UNCHANGED frames
          ELSE Raise("IllegalOperation") /\ UNCHANGED <<reg, frames>>
    BY <1>8 DEF Load
  <2>2. l[1] \in Reg /\ l[2] \in Word
    BY <1>1, WordTypes
  <2>3. UNCHANGED <<user, trap, vm>>
    BY <1>8 DEF Load
  <2>4. Set(l[1], l[2]) => C!Changes({l[1]})
    BY <1>1, <2>2, SetChanges DEF Set
  <2>5. IF C!Writable(l[1]) THEN C!Done /\ C!Changes({l[1]})
                            ELSE C!Raise("IllegalOperation") /\ UNCHANGED reg
    BY <1>2, <2>1, <2>2, <2>4
  <2>6. C!Compute
    BY <1>1, <2>2, <2>3, <2>5 DEF C!Compute
  <2> QED
    BY <1>1, <2>6 DEF C!Handler
<1>9. CASE Push
  <2>1. PICK r \in Reg :
          IF ~Accessible(r)
          THEN Raise("IllegalOperation") /\ UNCHANGED <<reg, mem, frames>>
          ELSE /\ Set("rs", Down(reg["rs"], 1))
               /\ Moved(1)
               /\ IF Unmapped(PushTo(reg["rs"])) THEN Raise("Level2PageFault") /\ UNCHANGED mem
                  ELSE Done /\ mem' = [mem EXCEPT ![PushTo(reg["rs"])] = reg[r]]
    BY <1>9 DEF Push
  <2>2. UNCHANGED <<user, trap, vm>>
    BY <1>9 DEF Push
  <2>3. CASE ~Accessible(r)
    <3>1. C!BadSource
      BY <2>1, <2>3 DEF C!BadSource, Accessible
    <3> QED
      BY <1>1, <2>2, <3>1 DEF C!Push, C!Handler
  <2>4. CASE Accessible(r)
    <3>1. C!Changes({"rs"})
      BY <1>1, <1>4, <2>1, <2>4, SetChanges DEF Set
    <3>2. C!Done \/ \E tm \in C!Faults("IllegalWrite") : C!Raise(tm)
      BY <2>1, <2>4, UnmappedFaults
    <3> QED
      BY <1>1, <2>2, <3>1, <3>2 DEF C!Push, C!Handler
  <2> QED
    BY <2>3, <2>4
<1>10. CASE Pop
  <2> DEFINE a == reg["rs"]  moved == [reg EXCEPT !["rs"] = Up(a, 1)]
  <2>1. PICK r \in Reg :
          IF Unmapped(a) THEN Raise("Level2PageFault") /\ UNCHANGED <<reg, frames>>
          ELSE IF Accessible(r)
          THEN /\ Done /\ reg' = [moved EXCEPT ![r] = mem[a]]
               /\ IF r = "rs" THEN frames' = << >> ELSE Moved(-1)
          ELSE Raise("IllegalOperation") /\ reg' = moved /\ Moved(-1)
    BY <1>10 DEF Pop
  <2>2. UNCHANGED <<user, trap, vm>>
    BY <1>10 DEF Pop
  <2>3. CASE Unmapped(a)
    BY <1>1, <2>1, <2>2, <2>3, UnmappedFaults DEF C!Pop, C!Handler
  <2>4. CASE ~Unmapped(a) /\ Accessible(r)
    <3>1. C!Changes({"rs", r})
      BY <1>1, <1>3, <2>1, <2>4 DEF C!Changes, HandlerTyped
    <3> QED
      BY <1>1, <1>2, <2>1, <2>2, <2>4, <3>1 DEF C!Pop, C!Handler
  <2>5. CASE ~Unmapped(a) /\ ~Accessible(r)
    <3>1. C!Changes({"rs"})
      BY <1>1, <1>3, <2>1, <2>5 DEF C!Changes, HandlerTyped
    <3> QED
      BY <1>1, <1>2, <2>1, <2>2, <2>5, <3>1 DEF C!Pop, C!Handler
  <2> QED
    BY <2>3, <2>4, <2>5
<1>11. CASE Reth
  <2>0. C!Changes(C!Reg)
    BY <1>1, <1>3 DEF C!Changes, HandlerTyped
  <2>1. CASE ~trap
    BY <1>1, <1>11, <2>1 DEF Reth, C!Reth, C!Handler
  <2>2. CASE trap /\ FirstTrap = {} /\ Return
    <3>1. ~user
      BY <2>2 DEF FirstTrap
    <3>2. phase' = "fetch" /\ pend' = "none" /\ trap' = FALSE
      BY <2>2 DEF Return
    <3>3. user' \in BOOLEAN /\ vm' \in BOOLEAN
      BY <1>3 DEF HandlerTyped
    <3> QED
      BY <1>1, <2>0, <2>2, <3>1, <3>2, <3>3 DEF C!Reth, C!Handler
  <2>3. ASSUME trap, NEW n \in FirstTrap, \A k \in FirstTrap : n <= k,
               UNCHANGED flags,
               IF Unmapped(PopAt(n))
               THEN Raise("Level2PageFault") /\ reg' = Popped(n - 1)
               ELSE /\ Raise("IllegalOperation")
                    /\ Set("rs", Up(reg["rs"], 1))
        PROVE  C!Handler
    <3>1. FirstTrap \subseteq 1 .. 5 /\ (user => 1 \in FirstTrap)
      BY DEF FirstTrap
    <3>2. CASE Unmapped(PopAt(n)) /\ ~user
      BY <1>1, <2>0, <2>3, <3>2, UnmappedFaults DEF C!Reth, C!Handler
    <3>3. CASE Unmapped(PopAt(n)) /\ user
      <4>1. n = 1
        BY <2>3, <3>1, <3>3
      <4>2. Up(reg["rs"], 0) = reg["rs"]
        <5>1. reg["rs"] \in 0 .. M - 1 /\ M \in Nat \ {0} /\ 0 \in 0 .. M
          BY <1>1, WordTypes DEF Word
        <5>2. Up(reg["rs"], 0) = IF reg["rs"] + 0 < M THEN reg["rs"] + 0 ELSE reg["rs"] + 0 - M
          BY <1>1, <5>1, UpIs
        <5> QED
          BY <5>1, <5>2
      <4>3. Popped(0) = [r \in Reg |-> reg[r]]
        BY <1>1, <4>2 DEF Popped
      <4>4. reg' = reg
        BY <1>1, <2>3, <3>3, <4>1, <4>3
      <4> QED
        BY <1>1, <2>3, <3>3, <4>4, UnmappedFaults DEF C!Reth, C!Handler
    <3>4. CASE ~Unmapped(PopAt(n))
      <4>1. user
        BY <3>4 DEF FirstTrap
      <4>2. C!Changes({"rs"})
        BY <1>1, <1>4, <2>3, <3>4, SetChanges DEF Set
      <4> QED
        BY <1>1, <2>3, <3>4, <4>1, <4>2 DEF C!Reth, C!Handler
    <3> QED
      BY <3>2, <3>3, <3>4
  <2> QED
    BY <1>11, <2>1, <2>2, <2>3 DEF Reth
<1> QED
  BY <1>5, <1>6, <1>7, <1>8, <1>9, <1>10, <1>11 DEF Handler

LEMMA TrapEntryRefines ==
  ASSUME TypeInv, TrapEntry
  PROVE  C!TrapEntry
<1> USE DEF Done, C!Done, flags, C!flags
<1>1. reg \in [Reg -> Word] /\ Reg = {"gp", "rs", "rp", "rh"} /\ C!Reg = Reg
  BY DEF TypeInv, TypeOK, Reg, C!Reg
<1>2. phase = "trap" /\ trap' = TRUE /\ user' = FALSE /\ vm' = vm
  BY DEF TrapEntry
<1>3. reg' \in [Reg -> Word]
  BY TrapEntryType DEF TypeInv, TypeOK
<1>4. CASE reg["rh"] = 0
  BY <1>2, <1>4 DEF TrapEntry, C!TrapEntry
<1>5. CASE reg["rh"] # 0 /\ Written = 1 .. 5
  <2>1. /\ phase' = "fetch" /\ pend' = "none" /\ pc' = reg["rh"]
        /\ reg' = [reg EXCEPT !["rs"] = Down(reg["rs"], 5), !["gp"] = TrapCode[pend]]
    BY <1>5 DEF TrapEntry
  <2>2. C!Changes({"rs", "gp"})
    BY <1>1, <1>3, <2>1 DEF C!Changes
  <2> QED
    BY <1>2, <1>5, <2>1, <2>2 DEF C!TrapEntry
<1>6. CASE reg["rh"] # 0 /\ Written # 1 .. 5
  <2>1. /\ phase' = "kernel" /\ pend' = "Level2PageFault" /\ pc' = pc
        /\ Set("rs", Down(reg["rs"], Cardinality(Written) + 1))
    BY <1>6 DEF TrapEntry
  <2>2. C!Changes({"rs"})
    BY <1>1, <1>3, <2>1 DEF C!Changes, Set
  <2>3. vm
    BY <1>6 DEF Written, Unmapped
  <2> QED
    BY <1>2, <1>6, <2>1, <2>2, <2>3 DEF C!TrapEntry, C!PageFaults
<1> QED
  BY <1>4, <1>5, <1>6

LEMMA StepRefines == TypeInv /\ [Next]_vars => [C!Next]_(C!vars)
<1> SUFFICES ASSUME TypeInv, [Next]_vars PROVE [C!Next]_(C!vars)
  OBVIOUS
<1>1. CASE FetchOpcode
  <2>1. TypeInv'
    BY NextType
  <2>2. pc' \in Word
    BY <2>1 DEF TypeInv, TypeOK
  <2>3. C!FetchOpcode
    BY <1>1, <2>2, UnmappedFaults DEF FetchOpcode, C!FetchOpcode, flags, C!flags
  <2> QED
    BY <2>3 DEF C!Next
<1>2. CASE Handler
  BY <1>2, HandlerRefines DEF C!Next
<1>3. CASE TrapEntry
  BY <1>3, TrapEntryRefines DEF C!Next
<1>4. CASE Stop
  BY <1>4 DEF Stop, C!Next, C!Kernel, C!Stop, flags, C!flags
<1>5. CASE UNCHANGED vars
  BY <1>5 DEF vars, C!vars
<1> QED
  BY <1>1, <1>2, <1>3, <1>4, <1>5 DEF Next

\* What the trap entry and reth do to the stack is what Cpu allows them to do
\* to memory it knows nothing of: the proofs about Cpu are about this machine.
THEOREM ImplementsCpu == Spec => IsCpu
<1>1. Init => C!Init
  BY InitRefines
<1>2. TypeInv /\ [Next]_vars => [C!Next]_(C!vars)
  BY StepRefines
<1> QED
  BY <1>1, <1>2, TypeInvariance, PTL DEF Spec, IsCpu, C!Spec

----------------------------------------------------------------------------
(* 3. What the trap entry saves survives: in phase fetch, handler or trap    *)
(* the stack below a frame holds the five words its entry pushed, the words  *)
(* its handler pushed, and the same of the traps taken since; so nothing is  *)
(* pushed over it, if the stack does not go round the whole of memory.       *)

\* Memory has room for every frame and every push, and for one trap entry more.
StackFits == 5 * (MaxFrames + 1) + MaxInstructions <= M

\* The words on the stack since the trap of the i-th frame.
Above(i) == Down(frames[i].reg["rs"], reg["rs"])

Linked ==
  \A i \in 1 .. Len(frames) :
    /\ Above(i) = 5 + frames[i].depth + (IF i = 1 THEN 0 ELSE Above(i - 1))
    /\ Above(i) + left + Now <= 5 * i + MaxInstructions

\* The words of FramesIntact, and the stack pointer.
Saved(m, f) == LET at(n) == m[Down(f.reg["rs"], n)] IN
  /\ at(2) = f.reg["gp"] /\ at(4) = f.reg["rp"] /\ at(5) = f.reg["rh"]
  /\ at(3) = SavedStack(f.reg["rs"])
  /\ HasBit(at(1), 3) <=> f.vm

StackInv ==
  /\ phase \in {"fetch", "handler", "trap"} => Linked
  /\ \A i \in 1 .. Len(frames) : Saved(mem, frames[i])

LEMMA FurtherDown ==
  ASSUME NEW a \in Word, NEW b \in Word, NEW n \in 0 .. M - 1, Down(a, b) + n < M
  PROVE  Down(a, Down(b, n)) = Down(a, b) + n
<1>1. M \in Nat \ {0} /\ a \in 0 .. M - 1 /\ b \in 0 .. M - 1 /\ n \in 0 .. M
  BY WordTypes DEF Word
<1>2. PICK c \in Word : c = Down(b, n)
  <2>1. n \in Int
    BY <1>1
  <2>2. Down(b, n) \in Word
    BY <2>1, UpDownType
  <2> QED
    BY <2>2
<1>3. c \in 0 .. M - 1 /\ c = IF n <= b THEN b - n ELSE b + M - n
  BY <1>1, <1>2, DownIs DEF Word
<1>4. Down(a, b) = IF b <= a THEN a - b ELSE a + M - b
  BY <1>1, DownIs
<1>5. Down(a, c) = IF c <= a THEN a - c ELSE a + M - c
  BY <1>1, <1>3, DownIs
<1> QED
  BY <1>1, <1>2, <1>3, <1>4, <1>5

LEMMA BackUp ==
  ASSUME NEW a \in Word, NEW b \in Word, NEW n \in 0 .. M - 1, n <= Down(a, b)
  PROVE  Down(a, Up(b, n)) = Down(a, b) - n
<1>1. M \in Nat \ {0} /\ a \in 0 .. M - 1 /\ b \in 0 .. M - 1 /\ n \in 0 .. M
  BY WordTypes DEF Word
<1>2. PICK c \in Word : c = Up(b, n)
  <2>1. n \in Int
    BY <1>1
  <2>2. Up(b, n) \in Word
    BY <2>1, UpDownType
  <2> QED
    BY <2>2
<1>3. c \in 0 .. M - 1 /\ c = IF b + n < M THEN b + n ELSE b + n - M
  BY <1>1, <1>2, UpIs DEF Word
<1>4. Down(a, b) = IF b <= a THEN a - b ELSE a + M - b
  BY <1>1, DownIs
<1>5. Down(a, c) = IF c <= a THEN a - c ELSE a + M - c
  BY <1>1, <1>3, DownIs
<1> QED
  BY <1>1, <1>2, <1>3, <1>4, <1>5

\* Counting down twice from an address comes back to where it started.
LEMMA Twice ==
  ASSUME NEW a \in Word, NEW b \in Word
  PROVE  Down(a, Down(a, b)) = b
<1>1. M \in Nat \ {0} /\ a \in 0 .. M - 1 /\ b \in 0 .. M - 1
  BY WordTypes DEF Word
<1>2. PICK c \in Word : c = Down(a, b)
  <2>1. b \in Int
    BY <1>1
  <2>2. Down(a, b) \in Word
    BY <2>1, UpDownType
  <2> QED
    BY <2>2
<1>3. c \in 0 .. M - 1 /\ c = IF b <= a THEN a - b ELSE a + M - b
  BY <1>1, <1>2, DownIs DEF Word
<1>4. Down(a, c) = IF c <= a THEN a - c ELSE a + M - c
  BY <1>1, <1>3, DownIs
<1> QED
  BY <1>1, <1>2, <1>3, <1>4

\* Words pushed at a distance from a frame are not among the frame's five.
LEMMA Apart ==
  ASSUME NEW a \in Word, NEW b \in Word, Down(a, b) \in 5 .. M - 5, NEW n \in 1 .. 5
  PROVE  Down(b, Down(a, n)) \notin 1 .. 5
<1>1. M \in Nat \ {0} /\ a \in 0 .. M - 1 /\ b \in 0 .. M - 1 /\ n \in 0 .. M
  BY WordTypes DEF Word
<1>2. PICK c \in Word : c = Down(a, n)
  <2>1. n \in Int
    BY <1>1
  <2>2. Down(a, n) \in Word
    BY <2>1, UpDownType
  <2> QED
    BY <2>2
<1>3. c \in 0 .. M - 1 /\ c = IF n <= a THEN a - n ELSE a + M - n
  BY <1>1, <1>2, DownIs DEF Word
<1>4. Down(a, b) = IF b <= a THEN a - b ELSE a + M - b
  BY <1>1, DownIs
<1>5. Down(b, c) = IF c <= b THEN b - c ELSE b + M - c
  BY <1>1, <1>3, DownIs
<1> QED
  BY <1>1, <1>2, <1>3, <1>4, <1>5

LEMMA FrameTypes ==
  ASSUME NEW f \in Frame
  PROVE  /\ f.reg \in [Reg -> Word] /\ f.reg["rs"] \in Word /\ f.vm \in BOOLEAN
         /\ f.depth \in Nat
<1>1. f.reg \in [Reg -> Word] /\ f.vm \in BOOLEAN /\ f.depth \in 0 .. MaxInstructions
  BY DEF Frame
<1> QED
  BY <1>1, TrapsAssumption DEF Reg

\* A frame keeps its words while others are pushed at a distance from it.
LEMMA SavedStays ==
  ASSUME NEW f \in Frame, NEW g \in Frame, g.reg = f.reg, g.vm = f.vm,
         NEW rs \in Word, Down(f.reg["rs"], rs) \in 5 .. M - 5,
         NEW m, NEW m2, \A a \in Word : Down(rs, a) \notin 1 .. 5 => m2[a] = m[a],
         Saved(m, f)
  PROVE  Saved(m2, g)
<1>1. f.reg["rs"] \in Word
  BY FrameTypes
<1>2. ASSUME NEW n \in 1 .. 5
      PROVE  m2[Down(f.reg["rs"], n)] = m[Down(f.reg["rs"], n)]
  <2>1. Down(f.reg["rs"], n) \in Word
    BY <1>1, UpDownType
  <2>2. Down(rs, Down(f.reg["rs"], n)) \notin 1 .. 5
    BY <1>1, Apart
  <2> QED
    BY <2>1, <2>2
<1>3. \A n \in {1, 2, 3, 4, 5} : m2[Down(g.reg["rs"], n)] = m[Down(f.reg["rs"], n)]
  BY <1>2
<1>4. HasBit(m2[Down(g.reg["rs"], 1)], 3) <=> HasBit(m[Down(f.reg["rs"], 1)], 3)
  BY <1>3
<1>5. f.vm <=> g.vm
  OBVIOUS
<1>6. HasBit(m2[Down(g.reg["rs"], 1)], 3) <=> g.vm
  BY <1>4, <1>5 DEF Saved
<1> QED
  BY <1>3, <1>6 DEF Saved

LEMMA AboveBounds ==
  ASSUME StackFits, TypeInv, Linked, NEW i \in 1 .. Len(frames)
  PROVE  /\ frames[i] \in Frame /\ frames[i].reg["rs"] \in Word /\ reg["rs"] \in Word
         /\ Above(i) \in 5 .. M - 5 /\ Above(i) + left + Now <= M - 5
<1>1. /\ frames \in Seq(Frame) /\ Len(frames) \in Nat /\ Len(frames) <= MaxFrames
      /\ left \in Nat /\ Now \in 0 .. 1 /\ reg["rs"] \in Word
      /\ MaxInstructions \in Nat /\ MaxFrames \in Nat /\ M \in Nat
  BY TrapsAssumption DEF TypeInv, TypeOK, Reg, Now
<1>2. \A k \in 1 .. Len(frames) : frames[k] \in Frame /\ frames[k].reg["rs"] \in Word
                                  /\ frames[k].depth \in Nat
  BY <1>1, FrameTypes
<1>3. \A k \in 1 .. Len(frames) : Above(k) \in Nat
  <2> TAKE k \in 1 .. Len(frames)
  <2>1. reg["rs"] \in Int
    BY <1>1, WordIsInt
  <2>2. Above(k) \in Word
    BY <1>2, <2>1, UpDownType DEF Above
  <2> QED
    BY <1>1, <2>2 DEF Word
<1>4. /\ Above(i) = 5 + frames[i].depth + (IF i = 1 THEN 0 ELSE Above(i - 1))
      /\ Above(i) + left + Now <= 5 * i + MaxInstructions
  BY DEF Linked
<1>5. i # 1 => i - 1 \in 1 .. Len(frames)
  BY <1>1
<1>6. Above(i) >= 5
  BY <1>2, <1>3, <1>4, <1>5
<1>7. 5 * i + MaxInstructions <= M - 5
  BY <1>1 DEF StackFits
<1> QED
  BY <1>1, <1>2, <1>3, <1>4, <1>6, <1>7

\* Steps that touch neither the stack nor the history.
LEMMA QuietStack ==
  ASSUME TypeInv, StackInv, TypeInv', frames' = frames, mem' = mem,
         phase' \in {"fetch", "handler", "trap"} =>
           /\ phase \in {"fetch", "handler", "trap"} /\ reg'["rs"] = reg["rs"]
           /\ left' + Now' <= left + Now
  PROVE  StackInv'
<1>1. \A i \in 1 .. Len(frames') : Saved(mem', frames'[i])
  BY DEF StackInv
<1>2. ASSUME phase' \in {"fetch", "handler", "trap"}
      PROVE  Linked'
  <2>1. Linked /\ reg'["rs"] = reg["rs"] /\ left' + Now' <= left + Now
    BY <1>2 DEF StackInv
  <2>2. /\ left \in Nat /\ left' \in Nat /\ Now \in Nat /\ Now' \in Nat
        /\ frames \in Seq(Frame) /\ reg["rs"] \in Word /\ MaxInstructions \in Nat
    BY TrapsAssumption DEF TypeInv, TypeOK, Now, Reg
  <2>3. ASSUME NEW i \in 1 .. Len(frames)
        PROVE  Above(i)' = Above(i) /\ Above(i) \in Int
    <3>1. frames[i].reg["rs"] \in Word /\ reg["rs"] \in Int
      BY <2>2, FrameTypes, WordIsInt
    <3>2. Above(i) \in Word
      BY <3>1, UpDownType DEF Above
    <3> QED
      BY <2>1, <3>2, WordIsInt DEF Above
  <2>4. \A i \in 1 .. Len(frames) : i = 1 \/ i - 1 \in 1 .. Len(frames)
    BY <2>2
  <2>5. ASSUME NEW i \in 1 .. Len(frames')
        PROVE  /\ Above(i)' = 5 + frames'[i].depth + (IF i = 1 THEN 0 ELSE Above(i - 1)')
               /\ Above(i)' + left' + Now' <= 5 * i + MaxInstructions
    <3>1. i \in 1 .. Len(frames)
      OBVIOUS
    <3>2. /\ Above(i) = 5 + frames[i].depth + (IF i = 1 THEN 0 ELSE Above(i - 1))
          /\ Above(i) + left + Now <= 5 * i + MaxInstructions
      BY <2>1, <3>1 DEF Linked
    <3>3. Above(i)' = 5 + frames'[i].depth + (IF i = 1 THEN 0 ELSE Above(i - 1)')
      BY <2>3, <2>4, <3>1, <3>2
    <3>4. Above(i)' = Above(i) /\ Above(i) \in Int
      BY <2>3, <3>1
    <3>5. Above(i)' + left' + Now' <= 5 * i + MaxInstructions
      <4>1. PICK d \in Int, x \in Int, y \in Int, z \in Int, u \in Int, k \in Int :
              /\ d = Above(i) /\ x = left /\ y = Now /\ z = left' /\ u = Now'
              /\ k = 5 * i + MaxInstructions
        BY <2>2, <3>4
      <4>2. d + x + y <= k /\ z + u <= x + y
        BY <2>1, <3>2, <4>1
      <4>3. d + z + u <= k
        BY <4>2
      <4> QED
        BY <3>4, <4>1, <4>3
    <3> QED
      BY <3>3, <3>5
  <2> QED
    BY <2>5 DEF Linked
<1> QED
  BY <1>1, <1>2 DEF StackInv

\* Steps that give up the traps being handled.
LEMMA EmptyStack ==
  ASSUME frames' = << >>
  PROVE  StackInv'
BY DEF StackInv, Linked

\* What a push or a pop does to the history.
LEMMA MovedIs ==
  ASSUME TypeInv, phase = "handler", NEW n \in {1, -1}, Moved(n)
  PROVE  \/ frames' = << >>
         \/ /\ Len(frames') = Len(frames)
            /\ \A i \in 1 .. Len(frames) :
                 /\ frames'[i].reg = frames[i].reg /\ frames'[i].vm = frames[i].vm
                 /\ frames'[i].depth = frames[i].depth + (IF i = 1 THEN n ELSE 0)
<1>1. frames \in Seq(Frame) /\ left \in Nat /\ MaxInstructions \in Nat /\ Now = 1
  BY TrapsAssumption DEF TypeInv, TypeOK, Now
<1>2. CASE frames = << >> \/ Head(frames).depth + n < 0
  BY <1>2 DEF Moved
<1>3. CASE ~(frames = << >> \/ Head(frames).depth + n < 0)
  <2>1. /\ Head(frames) = frames[1] /\ 1 \in 1 .. Len(frames) /\ frames # << >>
        /\ frames[1] \in Frame
    BY <1>1, <1>3
  <2>2. frames[1].depth \in Nat /\ frames[1].depth + left + 1 <= MaxInstructions
    BY <1>1, <2>1, FrameTypes DEF TypeInv
  <2>3. Head(frames).depth + n \in 0 .. MaxInstructions /\ n \in Int
    BY <1>1, <1>3, <2>1, <2>2
  <2>4. frames' = <<[Head(frames) EXCEPT !.depth = @ + n]>> \o Tail(frames)
    BY <1>3 DEF Moved
  <2>5. /\ Len(frames') = Len(frames)
        /\ frames'[1] = [frames[1] EXCEPT !.depth = @ + n]
        /\ \A i \in 2 .. Len(frames) : frames'[i] = frames[i]
    BY <1>1, <2>1, <2>3, <2>4, MovedFrames, Zenon
  <2>6. /\ frames'[1].reg = frames[1].reg /\ frames'[1].vm = frames[1].vm
        /\ frames'[1].depth = frames[1].depth + n
    BY <2>1, <2>5 DEF Frame
  <2>7. \A i \in 1 .. Len(frames) : frames[i].depth \in Int
    BY <1>1, FrameTypes
  <2>8. ASSUME NEW i \in 1 .. Len(frames)
        PROVE  /\ frames'[i].reg = frames[i].reg /\ frames'[i].vm = frames[i].vm
               /\ frames'[i].depth = frames[i].depth + (IF i = 1 THEN n ELSE 0)
    <3>1. CASE i = 1
      BY <2>6, <3>1
    <3>2. CASE i # 1
      <4>1. frames'[i] = frames[i]
        BY <2>5, <3>2
      <4> QED
        BY <2>7, <3>2, <4>1
    <3> QED
      BY <3>1, <3>2
  <2> QED
    BY <2>5, <2>8
<1> QED
  BY <1>2, <1>3

\* A push writes below every frame, a pop writes nothing.
LEMMA MovedStack ==
  ASSUME StackFits, TypeInv, StackInv, TypeInv', phase = "handler", left' = left,
         phase' \in {"fetch", "trap"}, NEW n \in {1, -1}, Moved(n),
         reg'["rs"] = (IF n = 1 THEN Down(reg["rs"], 1) ELSE Up(reg["rs"], 1)),
         \A a \in Word : a # Down(reg["rs"], 1) => mem'[a] = mem[a]
  PROVE  StackInv'
<1>1. CASE frames' = << >>
  BY <1>1, EmptyStack
<1>2. CASE frames' # << >>
  <2>1. /\ Len(frames') = Len(frames)
        /\ \A i \in 1 .. Len(frames) :
             /\ frames'[i].reg = frames[i].reg /\ frames'[i].vm = frames[i].vm
             /\ frames'[i].depth = frames[i].depth + (IF i = 1 THEN n ELSE 0)
    BY <1>2, MovedIs
  <2>2. /\ Linked /\ Now = 1 /\ Now' = 0 /\ left \in Nat /\ MaxInstructions \in Nat
        /\ frames' \in Seq(Frame) /\ Len(frames) \in Nat /\ reg["rs"] \in Word
        /\ M \in Nat /\ M >= 32
    BY TrapsAssumption DEF StackInv, TypeInv, TypeOK, Now, Reg
  <2>3. ASSUME NEW i \in 1 .. Len(frames)
        PROVE  Above(i) \in 5 .. M - 6 /\ Above(i)' = Above(i) + n
    <3>1. /\ frames[i].reg["rs"] \in Word /\ Above(i) \in 5 .. M - 5
          /\ Above(i) + left + Now <= M - 5
      BY <2>2, AboveBounds
    <3>2. Above(i) \in 5 .. M - 6 /\ 1 \in 0 .. M - 1
      BY <2>2, <3>1
    <3>3. Down(frames[i].reg["rs"], Down(reg["rs"], 1)) = Above(i) + 1
      BY <2>2, <3>1, <3>2, FurtherDown DEF Above
    <3>4. Down(frames[i].reg["rs"], Up(reg["rs"], 1)) = Above(i) - 1
      BY <2>2, <3>1, <3>2, BackUp DEF Above
    <3>5. Above(i)' = Down(frames[i].reg["rs"], reg'["rs"])
      BY <2>1 DEF Above
    <3> QED
      BY <2>2, <3>2, <3>3, <3>4, <3>5
  <2>4. ASSUME NEW i \in 1 .. Len(frames')
        PROVE  /\ Above(i)' = 5 + frames'[i].depth + (IF i = 1 THEN 0 ELSE Above(i - 1)')
               /\ Above(i)' + left' + Now' <= 5 * i + MaxInstructions
    <3>1. i \in 1 .. Len(frames) /\ (i # 1 => i - 1 \in 1 .. Len(frames))
      BY <2>1, <2>2
    <3>2. /\ Above(i) = 5 + frames[i].depth + (IF i = 1 THEN 0 ELSE Above(i - 1))
          /\ Above(i) + left + Now <= 5 * i + MaxInstructions
      BY <2>2, <3>1 DEF Linked
    <3>3. frames[i].depth \in Nat
      BY <3>1, FrameTypes DEF TypeInv, TypeOK
    <3>4. frames'[i].depth = frames[i].depth + (IF i = 1 THEN n ELSE 0)
      BY <2>1, <3>1
    <3>5. Above(i)' = Above(i) + n /\ Above(i) \in 5 .. M - 6
      BY <2>3, <3>1
    <3>6. i # 1 => Above(i - 1)' = Above(i - 1) + n /\ Above(i - 1) \in 5 .. M - 6
      BY <2>3, <3>1
    <3>7. Above(i)' = 5 + frames'[i].depth + (IF i = 1 THEN 0 ELSE Above(i - 1)')
      <4>1. CASE i = 1
        <5>1. Above(i) = 5 + frames[i].depth /\ frames'[i].depth = frames[i].depth + n
          BY <3>2, <3>3, <3>4, <4>1
        <5>2. Above(i)' = 5 + frames'[i].depth
          BY <3>3, <3>5, <5>1
        <5> QED
          BY <3>3, <4>1, <5>1, <5>2
      <4>2. CASE i # 1
        <5>1. Above(i) = 5 + frames[i].depth + Above(i - 1)
          BY <3>2, <4>2
        <5>2. frames'[i].depth = frames[i].depth
          BY <3>3, <3>4, <4>2
        <5>3. Above(i)' = 5 + frames'[i].depth + Above(i - 1)'
          BY <3>3, <3>5, <3>6, <4>2, <5>1, <5>2
        <5> QED
          BY <4>2, <5>3
      <4> QED
        BY <4>1, <4>2
    <3>8. Above(i)' + left' + Now' <= 5 * i + MaxInstructions
      BY <2>2, <3>2, <3>5
    <3> QED
      BY <3>7, <3>8
  <2>5. ASSUME NEW i \in 1 .. Len(frames')
        PROVE  Saved(mem', frames'[i])
    <3>1. i \in 1 .. Len(frames) /\ Saved(mem, frames[i])
      BY <2>1 DEF StackInv
    <3>2. /\ frames[i] \in Frame /\ frames'[i] \in Frame /\ Above(i) \in 5 .. M - 5
          /\ frames'[i].reg = frames[i].reg /\ frames'[i].vm = frames[i].vm
      BY <2>1, <2>2, <3>1, AboveBounds
    <3>3. ASSUME NEW a \in Word, Down(reg["rs"], a) \notin 1 .. 5
          PROVE  mem'[a] = mem[a]
      <4>1. 1 \in 1 .. 5 /\ 1 \in Word
        BY <2>2 DEF Word
      <4>2. Down(reg["rs"], Down(reg["rs"], 1)) = 1
        BY <2>2, <4>1, Twice
      <4> QED
        BY <3>3, <4>1, <4>2
    <3>4. Down(frames[i].reg["rs"], reg["rs"]) \in 5 .. M - 5
      BY <3>2 DEF Above
    <3>5. reg["rs"] \in Word
      BY <2>2
    <3>6. PICK f \in Frame, g \in Frame : f = frames[i] /\ g = frames'[i]
      BY <3>2
    <3>7. g.reg = f.reg /\ g.vm = f.vm /\ Down(f.reg["rs"], reg["rs"]) \in 5 .. M - 5
      BY <3>2, <3>4, <3>6
    <3>8. Saved(mem, f)
      BY <3>1, <3>6
    <3>9. Saved(mem', g)
      BY <3>3, <3>5, <3>7, <3>8, SavedStays
    <3> QED
      BY <3>6, <3>9
  <2> QED
    BY <2>4, <2>5 DEF StackInv, Linked
<1> QED
  BY <1>1, <1>2

\* What the trap entry writes can be told apart by its distance from rs.
LEMMA EntryWrites ==
  ASSUME TypeInv, TrapEntry, reg["rh"] # 0
  PROVE  \A a \in Word : mem'[a] = IF Down(reg["rs"], a) \in Written
                                   THEN Pushed[Down(reg["rs"], a)] ELSE mem[a]
BY DEF TrapEntry

\* The words of frames that the trap entry leaves behind, whether it succeeds or not.
LEMMA EntryKeeps ==
  ASSUME StackFits, TypeInv, StackInv, TrapEntry
  PROVE  \A i \in 1 .. Len(frames) : Saved(mem', frames[i])
<1> TAKE i \in 1 .. Len(frames)
<1>1. Linked /\ Saved(mem, frames[i])
  BY DEF StackInv, TrapEntry
<1>2. /\ frames[i] \in Frame /\ reg["rs"] \in Word
      /\ Down(frames[i].reg["rs"], reg["rs"]) \in 5 .. M - 5
  BY <1>1, AboveBounds DEF Above
<1>3. ASSUME NEW a \in Word, Down(reg["rs"], a) \notin 1 .. 5
      PROVE  mem'[a] = mem[a]
  <2>1. CASE reg["rh"] = 0
    BY <2>1 DEF TrapEntry
  <2>2. CASE reg["rh"] # 0
    <3>1. Down(reg["rs"], a) \notin Written
      BY <1>3 DEF Written
    <3> QED
      BY <2>2, <3>1, EntryWrites
  <2> QED
    BY <2>1, <2>2
<1>4. PICK f \in Frame : f = frames[i]
  BY <1>2
<1>5. Down(f.reg["rs"], reg["rs"]) \in 5 .. M - 5 /\ Saved(mem, f)
  BY <1>1, <1>2, <1>4
<1>6. Saved(mem', f)
  BY <1>2, <1>3, <1>5, SavedStays
<1> QED
  BY <1>4, <1>6

\* A trap that enters its handler saves what the handler will restore.
LEMMA EntrySaves ==
  ASSUME TypeInv, TrapEntry, reg["rh"] # 0, Written = 1 .. 5
  PROVE  Saved(mem', Entered[1]) /\ Entered[1] \in Frame
<1>1. /\ reg \in [Reg -> Word] /\ reg["rs"] \in Word /\ pc \in Word
      /\ user \in BOOLEAN /\ vm \in BOOLEAN /\ M \in Nat /\ M >= 32
      /\ MaxInstructions \in Nat
  BY TrapsAssumption DEF TypeInv, TypeOK, Reg
<1>2. ASSUME NEW n \in 1 .. 5
      PROVE  mem'[Down(reg["rs"], n)] = Pushed[n]
  <2>1. n \in Word /\ n \in Int
    BY <1>1 DEF Word
  <2>2. Down(reg["rs"], n) \in Word /\ Down(reg["rs"], Down(reg["rs"], n)) = n
    BY <1>1, <2>1, Twice, UpDownType
  <2> QED
    BY <2>2, EntryWrites
<1>3. HasBit(FlagsWord, 3) <=> vm
  <2>1. 2 ^ 1 = 2 /\ 2 ^ 3 = 8
    OBVIOUS
  <2>2. FlagsWord = IF vm THEN 10 ELSE 2
    BY <1>1, <2>1 DEF FlagsWord, Bit
  <2>3. 10 \div 8 = 1 /\ 2 \div 8 = 0 /\ 1 % 2 = 1 /\ 0 % 2 = 0
    OBVIOUS
  <2> QED
    BY <1>1, <2>1, <2>2, <2>3 DEF HasBit
<1>4. /\ Entered[1].reg = reg /\ Entered[1].vm = vm
      /\ Entered[1] \in Frame
  BY <1>1 DEF Entered, Frame
<1>5. /\ Pushed[1] = FlagsWord /\ Pushed[2] = reg["gp"] /\ Pushed[3] = SavedStack(reg["rs"])
      /\ Pushed[4] = reg["rp"] /\ Pushed[5] = reg["rh"]
  BY DEF Pushed
<1>6. \A n \in {1, 2, 3, 4, 5} : mem'[Down(reg["rs"], n)] = Pushed[n]
  BY <1>2
<1>7. HasBit(mem'[Down(reg["rs"], 1)], 3) <=> vm
  BY <1>3, <1>5, <1>6
<1>8. /\ mem'[Down(reg["rs"], 2)] = reg["gp"] /\ mem'[Down(reg["rs"], 4)] = reg["rp"]
      /\ mem'[Down(reg["rs"], 5)] = reg["rh"]
      /\ mem'[Down(reg["rs"], 3)] = SavedStack(reg["rs"])
  BY <1>5, <1>6
<1> HIDE DEF Entered
<1> QED
  BY <1>4, <1>7, <1>8 DEF Saved

LEMMA EntryStack ==
  ASSUME StackFits, TypeInv, StackInv, TypeInv', TrapEntry
  PROVE  StackInv'
<1>1. CASE ~(reg["rh"] # 0 /\ Written = 1 .. 5)
  <2>1. phase' = "kernel" /\ frames' = frames
    BY <1>1 DEF TrapEntry
  <2> QED
    BY <2>1, EntryKeeps DEF StackInv
<1>2. CASE reg["rh"] # 0 /\ Written = 1 .. 5
  <2>1. /\ phase' = "fetch" /\ frames' = Entered \o frames /\ left' = left
        /\ reg' = [reg EXCEPT !["rs"] = Down(reg["rs"], 5), !["gp"] = TrapCode[pend]]
    BY <1>2 DEF TrapEntry, Done
  <2>2. /\ Linked /\ Now = 0 /\ Now' = 0 /\ left \in 0 .. MaxInstructions
        /\ MaxInstructions \in Nat /\ frames \in Seq(Frame) /\ Len(frames) \in Nat
        /\ reg \in [Reg -> Word] /\ reg["rs"] \in Word /\ M \in Nat /\ M >= 32
    BY <2>1, TrapsAssumption DEF StackInv, TypeInv, TypeOK, Now, Reg, TrapEntry
  <2>3. reg'["rs"] = Down(reg["rs"], 5)
    BY <2>1, <2>2 DEF Reg
  <2>4. /\ Entered[1].reg = reg /\ Entered[1].depth = 0 /\ Entered = <<Entered[1]>>
        /\ Entered[1] \in Frame
    BY <1>2, EntrySaves DEF Entered
  <2>5. /\ Len(frames') = Len(frames) + 1 /\ frames'[1] = Entered[1]
        /\ \A i \in 2 .. Len(frames') : frames'[i] = frames[i - 1]
    <3>1. PICK f \in Frame, s \in Seq(Frame) : f = Entered[1] /\ s = frames
      BY <2>2, <2>4
    <3>2. frames' = <<f>> \o s
      BY <2>1, <2>4, <3>1
    <3>3. /\ Len(<<f>> \o s) = Len(s) + 1 /\ (<<f>> \o s)[1] = f
          /\ \A i \in 2 .. Len(<<f>> \o s) : (<<f>> \o s)[i] = s[i - 1]
      BY MoreFrames
    <3> QED
      BY <3>1, <3>2, <3>3
  <2>6. Above(1)' = 5
    <3>1. 5 \in Word
      BY <2>2 DEF Word
    <3>2. Down(reg["rs"], Down(reg["rs"], 5)) = 5
      BY <2>2, <3>1, Twice
    <3> QED
      BY <2>3, <2>4, <2>5, <3>2 DEF Above
  <2>7. ASSUME NEW i \in 2 .. Len(frames')
        PROVE  Above(i)' = Above(i - 1) + 5 /\ Above(i - 1) \in 5 .. M - 5
    <3>1. i - 1 \in 1 .. Len(frames)
      BY <2>2, <2>5
    <3>2. PICK j \in 1 .. Len(frames) : j = i - 1
      BY <3>1
    <3>3. /\ frames[j].reg["rs"] \in Word /\ Above(j) \in 5 .. M - 5
          /\ Above(j) + left + Now <= M - 5
      BY <2>2, AboveBounds
    <3>4. Down(frames[j].reg["rs"], reg["rs"]) + 5 < M \/ Above(j) = M - 5
      BY <2>2, <3>3 DEF Above
    <3>5. Above(j) + 5 < M
      <4>1. /\ MaxFrames \in Nat /\ Len(frames') <= MaxFrames
        BY TrapsAssumption DEF TypeInv, TypeOK
      <4>2. j + 1 <= MaxFrames
        BY <2>2, <2>5, <3>2, <4>1
      <4>3. Above(j) + left + Now <= 5 * j + MaxInstructions
        BY <2>2 DEF Linked
      <4> QED
        BY <2>2, <3>3, <4>1, <4>2, <4>3 DEF StackFits
    <3>6. 5 \in 0 .. M - 1
      BY <2>2
    <3>7. Down(frames[j].reg["rs"], Down(reg["rs"], 5)) = Above(j) + 5
      BY <2>2, <3>3, <3>5, <3>6, FurtherDown DEF Above
    <3>8. Above(i)' = Down(frames[j].reg["rs"], Down(reg["rs"], 5))
      BY <2>3, <2>5, <3>2 DEF Above
    <3> QED
      BY <3>2, <3>3, <3>7, <3>8
  <2>8. ASSUME NEW i \in 1 .. Len(frames')
        PROVE  /\ Above(i)' = 5 + frames'[i].depth + (IF i = 1 THEN 0 ELSE Above(i - 1)')
               /\ Above(i)' + left' + Now' <= 5 * i + MaxInstructions
    <3>1. CASE i = 1
      BY <2>1, <2>2, <2>4, <2>5, <2>6, <3>1
    <3>2. CASE i # 1
      <4>1. i \in 2 .. Len(frames') /\ i - 1 \in 1 .. Len(frames) /\ i - 1 \in 1 .. Len(frames')
        BY <2>2, <2>5, <3>2
      <4>2. PICK j \in 1 .. Len(frames) : j = i - 1 /\ j \in 1 .. Len(frames') /\ j + 1 = i
        BY <2>2, <4>1
      <4>3. /\ Above(j) = 5 + frames[j].depth + (IF j = 1 THEN 0 ELSE Above(j - 1))
            /\ Above(j) + left + Now <= 5 * j + MaxInstructions
        BY <2>2 DEF Linked
      <4>4. frames'[i] = frames[j] /\ frames[j].depth \in Nat
        BY <2>2, <2>5, <4>1, <4>2, FrameTypes
      <4>5. Above(i)' = Above(j) + 5 /\ Above(j) \in 5 .. M - 5
        BY <2>7, <4>1, <4>2
      <4>6. Above(j)' = 5 + (IF j = 1 THEN 0 ELSE Above(j - 1))
        <5>1. CASE j = 1
          BY <2>6, <5>1
        <5>2. CASE j # 1
          <6>1. j \in 2 .. Len(frames')
            BY <4>2, <5>2
          <6> QED
            BY <2>2, <2>7, <5>2, <6>1
        <5> QED
          BY <5>1, <5>2
      <4>7. j # 1 => Above(j - 1) \in 5 .. M - 5
        BY <2>7, <4>2
      <4>8. Above(i)' = 5 + frames'[i].depth + Above(j)'
        <5>1. CASE j = 1
          BY <4>3, <4>4, <4>5, <4>6, <5>1
        <5>2. CASE j # 1
          <6>1. PICK d \in Nat, x \in Int, y \in Int :
                  d = frames[j].depth /\ x = Above(j) /\ y = Above(j - 1)
            BY <2>2, <4>4, <4>5, <4>7, <5>2
          <6>2. x = 5 + d + y /\ frames'[i].depth = d
            BY <4>3, <4>4, <5>2, <6>1
          <6>3. Above(i)' = x + 5 /\ Above(j)' = 5 + y
            BY <4>5, <4>6, <5>2, <6>1
          <6> QED
            BY <6>2, <6>3
        <5> QED
          BY <5>1, <5>2
      <4>9. Above(i)' + left' + Now' <= 5 * i + MaxInstructions
        BY <2>1, <2>2, <4>2, <4>3, <4>5
      <4> QED
        BY <3>2, <4>2, <4>8, <4>9
    <3> QED
      BY <3>1, <3>2
  <2>9. ASSUME NEW i \in 1 .. Len(frames')
        PROVE  Saved(mem', frames'[i])
    <3>1. CASE i = 1
      BY <1>2, <2>5, <3>1, EntrySaves
    <3>2. CASE i # 1
      <4>1. i - 1 \in 1 .. Len(frames) /\ frames'[i] = frames[i - 1]
        BY <2>2, <2>5, <3>2
      <4>2. Saved(mem', frames[i - 1])
        BY <4>1, EntryKeeps
      <4> QED
        BY <4>1, <4>2
    <3> QED
      BY <3>1, <3>2
  <2> QED
    BY <2>8, <2>9 DEF StackInv, Linked
<1> QED
  BY <1>1, <1>2

\* Counting down and partly up again.
LEMMA DownThenUp ==
  ASSUME NEW a \in Word, NEW p \in 0 .. 5, NEW q \in 0 .. p
  PROVE  Up(Down(a, p), q) = Down(a, p - q) /\ Down(a, 0) = a
<1>1. M \in Nat \ {0} /\ M >= 32 /\ a \in 0 .. M - 1 /\ p \in 0 .. M /\ q \in 0 .. M
      /\ p - q \in 0 .. M /\ 0 \in 0 .. M
  BY WordTypes DEF Word
<1>2. PICK c \in Word : c = Down(a, p)
  <2>1. p \in Int
    BY <1>1
  <2>2. Down(a, p) \in Word
    BY <2>1, UpDownType
  <2> QED
    BY <2>2
<1>3. c \in 0 .. M - 1 /\ c = IF p <= a THEN a - p ELSE a + M - p
  BY <1>1, <1>2, DownIs DEF Word
<1>4. Up(c, q) = IF c + q < M THEN c + q ELSE c + q - M
  BY <1>1, UpIs
<1>5. Down(a, p - q) = IF p - q <= a THEN a - (p - q) ELSE a + M - (p - q)
  BY <1>1, DownIs
<1>6. Down(a, 0) = IF 0 <= a THEN a - 0 ELSE a + M - 0
  BY <1>1, DownIs
<1> QED
  BY <1>1, <1>2, <1>3, <1>4, <1>5, <1>6

\* pop_registers finds each register where the trap entry has put it, though
\* it goes on from another stack pointer for the last two.
LEMMA ReturnIs ==
  ASSUME StackFits, TypeInv, StackInv, reg' \in [Reg -> Word], phase = "handler",
         Balanced, Return
  PROVE  reg' = Head(frames).reg /\ vm' = Head(frames).vm
<1>1. /\ frames \in Seq(Frame) /\ Head(frames) = frames[1] /\ 1 \in 1 .. Len(frames)
      /\ reg["rs"] \in Word /\ Linked
  BY DEF TypeInv, TypeOK, Balanced, StackInv, Reg
<1>2. PICK f \in Frame : f = frames[1]
  BY <1>1
<1>3. f.reg \in [Reg -> Word] /\ f.vm \in BOOLEAN
  BY FrameTypes
<1>4. PICK a \in Word : a = f.reg["rs"]
  BY FrameTypes
<1>5. Down(a, reg["rs"]) = 5
  <2>1. Above(1) = 5 + frames[1].depth + (IF 1 = 1 THEN 0 ELSE Above(0))
    BY <1>1 DEF Linked
  <2>2. frames[1].depth = 0
    BY <1>1 DEF Balanced
  <2>3. Above(1) = 5
    BY <2>1, <2>2
  <2> QED
    BY <1>2, <1>4, <2>3 DEF Above
<1>6. reg["rs"] = Down(a, 5)
  BY <1>1, <1>5, Twice
<1>7. /\ Up(Down(a, 5), 0) = Down(a, 5) /\ Up(Down(a, 5), 1) = Down(a, 4)
      /\ Up(Down(a, 5), 2) = Down(a, 3)
      /\ Up(Down(a, 2), 0) = Down(a, 2) /\ Up(Down(a, 2), 1) = Down(a, 1)
      /\ Up(Down(a, 2), 2) = a
  <2>1. \A p \in 0 .. 5 : \A q \in 0 .. p : Up(Down(a, p), q) = Down(a, p - q)
    BY DownThenUp
  <2>2. Down(a, 0) = a
    <3>1. 0 \in 0 .. 5 /\ 0 \in 0 .. 0
      OBVIOUS
    <3> QED
      BY <3>1, DownThenUp
  <2>3. /\ Up(Down(a, 5), 0) = Down(a, 5 - 0) /\ Up(Down(a, 5), 1) = Down(a, 5 - 1)
        /\ Up(Down(a, 5), 2) = Down(a, 5 - 2) /\ Up(Down(a, 2), 0) = Down(a, 2 - 0)
        /\ Up(Down(a, 2), 1) = Down(a, 2 - 1) /\ Up(Down(a, 2), 2) = Down(a, 2 - 2)
    BY <2>1
  <2> QED
    BY <2>2, <2>3
<1>8. /\ mem[Down(a, 2)] = f.reg["gp"] /\ mem[Down(a, 4)] = f.reg["rp"]
      /\ mem[Down(a, 5)] = f.reg["rh"] /\ mem[Down(a, 3)] = Down(a, 2)
      /\ HasBit(mem[Down(a, 1)], 3) <=> f.vm
  <2>1. Saved(mem, f)
    BY <1>1, <1>2 DEF StackInv
  <2> QED
    BY <1>4, <2>1 DEF Saved, SavedStack
<1>9. /\ PopAt(1) = Down(a, 5) /\ PopAt(2) = Down(a, 4) /\ PopAt(3) = Down(a, 3)
      /\ PopAt(4) = Down(a, 2) /\ PopAt(5) = Down(a, 1)
  <2>1. /\ PopAt(1) = Up(reg["rs"], 0) /\ PopAt(2) = Up(reg["rs"], 1)
        /\ PopAt(3) = Up(reg["rs"], 2) /\ PopAt(4) = Up(mem[Up(reg["rs"], 2)], 0)
        /\ PopAt(5) = Up(mem[Up(reg["rs"], 2)], 1)
    BY DEF PopAt
  <2> QED
    BY <1>6, <1>7, <1>8, <2>1
<1>10. /\ Popped(5)["rh"] = f.reg["rh"] /\ Popped(5)["rp"] = f.reg["rp"]
       /\ Popped(5)["gp"] = f.reg["gp"] /\ Popped(5)["rs"] = f.reg["rs"]
  <2>1. /\ Popped(5)["rh"] = mem[PopAt(1)] /\ Popped(5)["rp"] = mem[PopAt(2)]
        /\ Popped(5)["gp"] = mem[PopAt(4)] /\ Popped(5)["rs"] = Up(mem[PopAt(3)], 2)
    BY DEF Popped, Reg
  <2> QED
    BY <1>4, <1>7, <1>8, <1>9, <2>1
<1>11. reg' = f.reg
  <2>0. reg' = Popped(5)
    BY DEF Return
  <2>1. reg' = [r \in Reg |-> reg'[r]]
    OBVIOUS
  <2>2. \A r \in Reg : Popped(5)[r] = f.reg[r]
    BY <1>10 DEF Reg
  <2>3. f.reg = [r \in Reg |-> f.reg[r]]
    BY <1>3
  <2> QED
    BY <2>0, <2>1, <2>2, <2>3
<1>12. vm' = HasBit(mem[PopAt(5)], 3)
  BY DEF Return
<1>13. (vm' <=> f.vm) /\ vm' \in BOOLEAN
  BY <1>8, <1>9, <1>12 DEF HasBit
<1> QED
  BY <1>1, <1>2, <1>3, <1>11, <1>13

LEMMA ReturnStack ==
  ASSUME StackFits, TypeInv, StackInv, TypeInv', phase = "handler", Return,
         UNCHANGED <<left, mem>>
  PROVE  StackInv'
<1>1. CASE ~Balanced
  BY <1>1, EmptyStack DEF Return
<1>2. CASE Balanced
  <2>1. /\ frames' = Tail(frames) /\ frames # << >> /\ phase' = "fetch"
    BY <1>2 DEF Return, Balanced, Done
  <2>2. /\ Linked /\ Now = 1 /\ Now' = 0 /\ left \in Nat /\ MaxInstructions \in Nat
        /\ frames \in Seq(Frame) /\ Len(frames) \in Nat \ {0} /\ reg["rs"] \in Word
        /\ M \in Nat /\ M >= 32 /\ Head(frames) = frames[1] /\ 1 \in 1 .. Len(frames)
    BY <2>1, TrapsAssumption DEF StackInv, TypeInv, TypeOK, Now, Reg
  <2>3. /\ Len(frames') = Len(frames) - 1
        /\ \A i \in 1 .. Len(frames) - 1 : frames'[i] = frames[i + 1]
    BY <2>1, <2>2, TailFrames
  <2>4. reg'["rs"] = Up(reg["rs"], 5) /\ Above(1) = 5
    <3>1. reg'["rs"] = frames[1].reg["rs"]
      BY <1>2, <2>2, ReturnIs DEF TypeInv, TypeOK
    <3>2. PICK a \in Word : a = frames[1].reg["rs"]
      BY <2>2, FrameTypes
    <3>3. Above(1) = 5
      <4>1. Above(1) = 5 + frames[1].depth + (IF 1 = 1 THEN 0 ELSE Above(0))
        BY <2>2 DEF Linked
      <4>2. frames[1].depth = 0
        BY <1>2, <2>2 DEF Balanced
      <4> QED
        BY <4>1, <4>2
    <3>4. reg["rs"] = Down(a, 5)
      BY <2>2, <3>2, <3>3, Twice DEF Above
    <3>5. Up(Down(a, 5), 5) = a
      <4>1. 5 \in 0 .. 5 /\ 5 - 5 = 0
        OBVIOUS
      <4>2. Up(Down(a, 5), 5) = Down(a, 5 - 5) /\ Down(a, 0) = a
        BY <4>1, DownThenUp
      <4> QED
        BY <4>1, <4>2
    <3> QED
      BY <3>1, <3>2, <3>3, <3>4, <3>5
  <2>5. ASSUME NEW i \in 1 .. Len(frames')
        PROVE  Above(i)' = Above(i + 1) - 5 /\ Above(i + 1) \in 5 .. M - 5
    <3>1. PICK j \in 1 .. Len(frames) : j = i + 1 /\ frames'[i] = frames[j]
      BY <2>2, <2>3
    <3>2. frames[j].reg["rs"] \in Word /\ Above(j) \in 5 .. M - 5 /\ 5 \in 0 .. M - 1
      BY <2>2, AboveBounds
    <3>3. Down(frames[j].reg["rs"], Up(reg["rs"], 5)) = Above(j) - 5
      BY <2>2, <3>2, BackUp DEF Above
    <3> QED
      BY <2>4, <3>1, <3>2, <3>3 DEF Above
  <2>6. ASSUME NEW i \in 1 .. Len(frames')
        PROVE  /\ Above(i)' = 5 + frames'[i].depth + (IF i = 1 THEN 0 ELSE Above(i - 1)')
               /\ Above(i)' + left' + Now' <= 5 * i + MaxInstructions
    <3>1. PICK j \in 1 .. Len(frames) : j = i + 1 /\ j # 1 /\ j - 1 = i /\ frames'[i] = frames[j]
      BY <2>2, <2>3
    <3>2. /\ Above(j) = 5 + frames[j].depth + Above(i)
          /\ Above(j) + left + Now <= 5 * j + MaxInstructions
      BY <2>2, <3>1 DEF Linked
    <3>3. Above(i)' = Above(j) - 5 /\ Above(j) \in 5 .. M - 5
      BY <2>5, <3>1
    <3>4. PICK d \in Nat : d = frames[j].depth
      BY <2>2, FrameTypes
    <3>5. i \in 1 .. Len(frames) /\ Above(i) \in 5 .. M - 5
      BY <2>2, <2>3, AboveBounds
    <3>7. Above(i)' = 5 + frames'[i].depth + (IF i = 1 THEN 0 ELSE Above(i - 1)')
      <4>1. PICK x \in Int, y \in Int : x = Above(i) /\ y = Above(j)
        BY <2>2, <3>3, <3>5
      <4>2. y = 5 + d + x
        BY <3>2, <3>4, <4>1
      <4>3. (IF i = 1 THEN 0 ELSE Above(i - 1)') = x - 5
        <5>1. CASE i = 1
          BY <2>4, <4>1, <5>1
        <5>2. CASE i # 1
          <6>1. PICK k \in 1 .. Len(frames') : k = i - 1 /\ k + 1 = i
            BY <2>2, <2>3, <5>2
          <6> QED
            BY <2>5, <4>1, <5>2, <6>1
        <5> QED
          BY <5>1, <5>2
      <4>4. Above(i)' = y - 5 /\ frames'[i].depth = d
        BY <3>1, <3>3, <3>4, <4>1
      <4>5. y - 5 = 5 + d + (x - 5)
        BY <4>2
      <4> QED
        BY <4>3, <4>4, <4>5
    <3>8. Above(i)' + left' + Now' <= 5 * i + MaxInstructions
      BY <2>2, <3>1, <3>2, <3>3
    <3> QED
      BY <3>7, <3>8
  <2>7. \A i \in 1 .. Len(frames') : Saved(mem', frames'[i])
    <3>1. \A i \in 1 .. Len(frames') : i + 1 \in 1 .. Len(frames)
      BY <2>2, <2>3
    <3> QED
      BY <2>3, <3>1 DEF StackInv
  <2> QED
    BY <2>6, <2>7 DEF StackInv, Linked
<1> QED
  BY <1>1, <1>2

LEMMA HandlerStack ==
  ASSUME StackFits, TypeInv, StackInv, TypeInv', Handler
  PROVE  StackInv'
<1> USE DEF Done, Raise
<1>1. /\ reg \in [Reg -> Word] /\ phase = "handler" /\ left' = left /\ left \in Nat
      /\ Reg = {"gp", "rs", "rp", "rh"} /\ mem \in [Word -> Word] /\ reg["rs"] \in Word
  BY TrapsAssumption DEF TypeInv, TypeOK, Handler, Reg
<1>2. ASSUME phase' \in {"fetch", "trap"}, frames' = frames, mem' = mem,
             reg'["rs"] = reg["rs"]
      PROVE  StackInv'
  <2>1. left' + Now' <= left + Now
    BY <1>1, <1>2 DEF Now
  <2> QED
    BY <1>1, <1>2, <2>1, QuietStack
<1>3. CASE Trapping
  BY <1>2, <1>3 DEF Trapping
<1>4. CASE Ctf
  BY <1>2, <1>4 DEF Ctf
<1>5. CASE Mode
  BY <1>2, <1>5 DEF Mode
<1>6. CASE Load
  <2>1. PICK l \in Loads :
          IF Accessible(l[1])
          THEN /\ Done /\ Set(l[1], l[2])
               /\ IF l[1] = "rs" THEN frames' = << >> ELSE UNCHANGED frames
          ELSE Raise("IllegalOperation") /\ UNCHANGED <<reg, frames>>
    BY <1>6 DEF Load
  <2>2. l[1] \in Reg /\ mem' = mem
    BY <1>1, <1>6, WordTypes DEF Load
  <2>3. CASE frames' = << >>
    BY <2>3, EmptyStack
  <2>4. CASE frames' # << >>
    <3>1. frames' = frames /\ phase' \in {"fetch", "trap"} /\ reg'["rs"] = reg["rs"]
      BY <1>1, <2>1, <2>2, <2>4 DEF Set
    <3> QED
      BY <1>2, <2>2, <3>1
  <2> QED
    BY <2>3, <2>4
<1>7. CASE Push
  <2>1. PICK r \in Reg :
          IF ~Accessible(r)
          THEN Raise("IllegalOperation") /\ UNCHANGED <<reg, mem, frames>>
          ELSE /\ Set("rs", Down(reg["rs"], 1))
               /\ Moved(1)
               /\ IF Unmapped(PushTo(reg["rs"])) THEN Raise("Level2PageFault") /\ UNCHANGED mem
                  ELSE Done /\ mem' = [mem EXCEPT ![PushTo(reg["rs"])] = reg[r]]
    BY <1>7 DEF Push
  <2>2. CASE ~Accessible(r)
    BY <1>2, <2>1, <2>2
  <2>3. CASE Accessible(r)
    <3>1. /\ phase' \in {"fetch", "trap"} /\ Moved(1)
          /\ reg' = [reg EXCEPT !["rs"] = Down(reg["rs"], 1)]
      BY <2>1, <2>3 DEF Set
    <3>2. reg'["rs"] = Down(reg["rs"], 1)
      BY <1>1, <3>1
    <3>3. mem' = mem \/ mem' = [mem EXCEPT ![Down(reg["rs"], 1)] = reg[r]]
      BY <2>1, <2>3 DEF PushTo
    <3>4. \A a \in Word : a # Down(reg["rs"], 1) => mem'[a] = mem[a]
      BY <1>1, <3>3
    <3>5. PICK n \in {1, -1} : n = 1
      OBVIOUS
    <3>6. Moved(n) /\ reg'["rs"] = IF n = 1 THEN Down(reg["rs"], 1) ELSE Up(reg["rs"], 1)
      BY <3>1, <3>2, <3>5
    <3> QED
      BY <1>1, <3>1, <3>4, <3>6, MovedStack
  <2> QED
    BY <2>2, <2>3
<1>8. CASE Pop
  <2> DEFINE a == reg["rs"]  moved == [reg EXCEPT !["rs"] = Up(a, 1)]
  <2>1. PICK r \in Reg :
          IF Unmapped(a) THEN Raise("Level2PageFault") /\ UNCHANGED <<reg, frames>>
          ELSE IF Accessible(r)
          THEN /\ Done /\ reg' = [moved EXCEPT ![r] = mem[a]]
               /\ IF r = "rs" THEN frames' = << >> ELSE Moved(-1)
          ELSE Raise("IllegalOperation") /\ reg' = moved /\ Moved(-1)
    BY <1>8 DEF Pop
  <2>2. mem' = mem /\ phase' \in {"fetch", "trap"}
    BY <1>8, <2>1 DEF Pop
  <2>3. CASE Unmapped(a)
    BY <1>2, <2>1, <2>2, <2>3
  <2>4. CASE frames' = << >>
    BY <2>4, EmptyStack
  <2>5. CASE ~Unmapped(a) /\ frames' # << >>
    <3>1. Moved(-1) /\ (reg' = moved \/ (r # "rs" /\ reg' = [moved EXCEPT ![r] = mem[a]]))
      BY <2>1, <2>5
    <3>2. reg'["rs"] = Up(reg["rs"], 1)
      BY <1>1, <3>1
    <3>3. PICK n \in {1, -1} : n = -1
      OBVIOUS
    <3>4. Moved(n) /\ reg'["rs"] = IF n = 1 THEN Down(reg["rs"], 1) ELSE Up(reg["rs"], 1)
      BY <3>1, <3>2, <3>3
    <3>5. \A x \in Word : x # Down(reg["rs"], 1) => mem'[x] = mem[x]
      BY <2>2
    <3> QED
      BY <1>1, <2>2, <3>4, <3>5, MovedStack
  <2> QED
    BY <2>3, <2>4, <2>5
<1>9. CASE Reth
  <2>1. mem' = mem
    BY <1>9 DEF Reth
  <2>2. CASE ~trap
    BY <1>2, <1>9, <2>1, <2>2 DEF Reth
  <2>3. CASE Return
    BY <1>1, <2>1, <2>3, ReturnStack
  <2>4. CASE frames' = << >>
    BY <2>4, EmptyStack
  <2> QED
    BY <1>9, <2>2, <2>3, <2>4 DEF Reth
<1> QED
  BY <1>3, <1>4, <1>5, <1>6, <1>7, <1>8, <1>9 DEF Handler

LEMMA NextStack == StackFits /\ TypeInv /\ StackInv /\ [Next]_vars => StackInv'
<1> SUFFICES ASSUME StackFits, TypeInv, StackInv, [Next]_vars PROVE StackInv'
  OBVIOUS
<1>1. TypeInv'
  BY NextType
<1>2. CASE FetchOpcode
  <2>1. /\ phase = "fetch" /\ left' = left - 1 /\ frames' = frames /\ mem' = mem /\ reg' = reg
        /\ phase' \in {"handler", "kernel"} /\ left \in Nat
    BY <1>2, TrapsAssumption DEF FetchOpcode, TypeInv, TypeOK
  <2>2. left' + Now' <= left + Now
    BY <2>1 DEF Now
  <2> QED
    BY <1>1, <2>1, <2>2, QuietStack
<1>3. CASE Handler
  BY <1>1, <1>3, HandlerStack
<1>4. CASE TrapEntry
  BY <1>1, <1>4, EntryStack
<1>5. CASE Stop
  BY <1>1, <1>5, QuietStack DEF Stop
<1>6. CASE UNCHANGED vars
  <2>1. left' = left /\ Now' = Now /\ left \in Nat /\ Now \in Nat
    BY <1>6, TrapsAssumption DEF vars, Now, TypeInv, TypeOK
  <2>2. left' + Now' <= left + Now
    BY <2>1
  <2> QED
    BY <1>1, <1>6, <2>2, QuietStack DEF vars
<1> QED
  BY <1>2, <1>3, <1>4, <1>5, <1>6 DEF Next

LEMMA StackInvariance == ASSUME StackFits PROVE Spec => []StackInv
<1>1. Init => StackInv
  BY DEF Init, StackInv, Linked
<1>2. TypeInv /\ StackInv /\ [Next]_vars => StackInv'
  BY NextStack
<1> QED
  BY <1>1, <1>2, TypeInvariance, PTL DEF Spec

\* What the entries of nested traps have saved stays as it was saved, however
\* their handlers push, pop and trap, wherever rs points when a trap comes (the
\* stack may wrap around the end of memory), and whichever words are unmapped.
THEOREM SavedWordsSurvive == ASSUME StackFits PROVE Spec => []FramesIntact
<1>1. StackInv => FramesIntact
  BY DEF StackInv, FramesIntact, Saved
<1> QED
  BY <1>1, StackInvariance, PTL

LEMMA ReturnRestores ==
  StackFits /\ TypeInv /\ StackInv /\ [Next]_vars
    => (Returns => reg' = Head(frames).reg /\ vm' = Head(frames).vm)
<1> SUFFICES ASSUME StackFits, TypeInv, StackInv, [Next]_vars, Returns
             PROVE  reg' = Head(frames).reg /\ vm' = Head(frames).vm
  OBVIOUS
<1>1. Balanced /\ frames # << >> /\ Len(frames') < Len(frames) /\ trap /\ ~trap'
      /\ frames \in Seq(Frame)
  BY DEF Returns, Balanced, TypeInv, TypeOK
<1>2. frames' # frames
  BY <1>1
<1>3. ~FetchOpcode /\ ~TrapEntry /\ ~Stop /\ ~UNCHANGED vars
  BY <1>1, <1>2 DEF FetchOpcode, TrapEntry, Stop, vars
<1>4. Handler
  BY <1>3 DEF Next
<1>5. ~Trapping /\ ~Ctf /\ ~Mode /\ ~Load /\ ~Push /\ ~Pop
  BY <1>1, <1>2 DEF Trapping, Ctf, Mode, Load, Push, Pop, flags
<1>6. Reth
  BY <1>4, <1>5 DEF Handler
<1>7. Return
  BY <1>1, <1>6 DEF Reth, flags
<1> QED
  BY <1>1, <1>4, <1>7, NextType, ReturnIs DEF Handler, TypeInv, TypeOK

\* A handler that returns with the stack it was called with puts back every
\* register, rs among them, and the addressing mode, whatever it has done to
\* the registers and whatever traps it has taken itself.
THEOREM HandlersReturn == ASSUME StackFits PROVE Spec => RethRestores
<1>1. TypeInv /\ StackInv /\ [Next]_vars
        => [Returns => reg' = Head(frames).reg /\ vm' = Head(frames).vm]_vars
  BY ReturnRestores
<1> QED
  BY <1>1, TypeInvariance, StackInvariance, PTL DEF Spec, RethRestores
=============================================================================
