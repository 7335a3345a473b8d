---------------------------- MODULE AssemblerProofs ----------------------------
(***************************************************************************)
(* Proofs about the assembler (src/source/mod.rs, src/bin/tc.rs), for      *)
(* every source, every page size and every size of the address space.      *)
(***************************************************************************)
EXTENDS Assembler, DataFacts, FiniteSetTheorems, TLAPS

----------------------------------------------------------------------------
(* 1. The length of what is flattened *)

LEMMA JoinedFour ==
  ASSUME NEW S, NEW s \in Seq(S), NEW t \in Seq(S), NEW u \in Seq(S), NEW v \in Seq(S)
  PROVE  /\ s \o t \o u \o v \in Seq(S)
         /\ Len(s \o t \o u \o v) = Len(s) + Len(t) + Len(u) + Len(v)
<1>1. s \o t \in Seq(S) /\ Len(s \o t) = Len(s) + Len(t)
  OBVIOUS
<1>2. s \o t \o u \in Seq(S) /\ Len(s \o t \o u) = Len(s) + Len(t) + Len(u)
  BY <1>1
<1> QED
  BY <1>2

\* The total length of the first k of the sequences ss.
Total(ss, k) == Len(FlattenSeq([i \in 1 .. k |-> ss[i]]))

LEMMA TotalNone ==
  ASSUME NEW ss
  PROVE  Total(ss, 0) = 0
<1>1. [i \in 1 .. 0 |-> ss[i]] = <<>>
  OBVIOUS
<1> QED
  BY <1>1, FlattenEmpty DEF Total

LEMMA FlattenOne ==
  ASSUME NEW S, NEW s \in Seq(S)
  PROVE  FlattenSeq(<<s>>) = s
<1>1. <<>> \in Seq(Seq(S)) /\ <<s>> = Append(<<>>, s)
  OBVIOUS
<1>2. FlattenSeq(Append(<<>>, s)) = <<>> \o s
  BY <1>1, FlattenAppend, FlattenEmpty
<1> QED
  BY <1>1, <1>2

\* One sequence more.
LEMMA TotalNext ==
  ASSUME NEW S, NEW ss, NEW k \in Nat, \A i \in 1 .. k + 1 : ss[i] \in Seq(S)
  PROVE  /\ Total(ss, k) \in Nat
         /\ Total(ss, k + 1) = Total(ss, k) + Len(ss[k + 1])
         /\ Total(ss, k + 1) \in Nat
<1> DEFINE p == [i \in 1 .. k |-> ss[i]]
           q == [i \in 1 .. k + 1 |-> ss[i]]
<1>1. p \in Seq(Seq(S)) /\ Len(p) = k
  OBVIOUS
<1>2. q = Append(p, ss[k + 1])
  OBVIOUS
<1>3. ss[k + 1] \in Seq(S)
  OBVIOUS
<1> HIDE DEF p, q
<1>4. FlattenSeq(q) = FlattenSeq(p) \o ss[k + 1]
  BY <1>1, <1>2, <1>3, FlattenAppend
<1>5. FlattenSeq(p) \in Seq(S)
  BY <1>1, FlattenType
<1>6. /\ Len(FlattenSeq(p)) \in Nat /\ Len(ss[k + 1]) \in Nat
      /\ Len(FlattenSeq(q)) = Len(FlattenSeq(p)) + Len(ss[k + 1])
  BY <1>3, <1>4, <1>5
<1> QED
  BY <1>6 DEF Total, p, q

LEMMA UpToFour ==
  ASSUME NEW n \in Nat, n <= 4
  PROVE  n = 0 \/ n = 1 \/ n = 2 \/ n = 3 \/ n = 4
OBVIOUS

\* The length of what has up to four parts.
LEMMA TotalOfFour ==
  ASSUME NEW S, NEW ss \in Seq(Seq(S)), Len(ss) <= 4
  PROVE  LET L(i) == IF i <= Len(ss) THEN Len(ss[i]) ELSE 0
         IN Len(FlattenSeq(ss)) = L(1) + L(2) + L(3) + L(4)
<1>1. PICK n \in Nat : n = Len(ss) /\ n <= 4
  OBVIOUS
<1>2. ss = [i \in 1 .. n |-> ss[i]]
  BY <1>1
<1>3. Len(FlattenSeq(ss)) = Total(ss, n)
  BY <1>2 DEF Total
<1>4. \A i \in 1 .. n : ss[i] \in Seq(S) /\ Len(ss[i]) \in Nat
  BY <1>1
<1>5. Total(ss, 0) = 0
  BY TotalNone
<1>6. n >= 1 => Total(ss, 1) = Total(ss, 0) + Len(ss[1])
  BY <1>4, TotalNext
<1>7. n >= 2 => Total(ss, 2) = Total(ss, 1) + Len(ss[2])
  <2>1. ASSUME n >= 2 PROVE \A i \in 1 .. 1 + 1 : ss[i] \in Seq(S)
    <3>1. \A i \in 1 .. 1 + 1 : i \in 1 .. n
      BY <2>1
    <3> QED
      BY <1>4, <3>1
  <2>2. n >= 2 => Total(ss, 1 + 1) = Total(ss, 1) + Len(ss[1 + 1])
    <3>1. ASSUME n >= 2 PROVE Total(ss, 1 + 1) = Total(ss, 1) + Len(ss[1 + 1])
      <4>1. 1 \in Nat /\ \A i \in 1 .. 1 + 1 : ss[i] \in Seq(S)
        BY <2>1, <3>1
      <4> QED
        BY <4>1, TotalNext, Zenon
    <3> QED
      BY <3>1
  <2>3. 1 + 1 = 2
    OBVIOUS
  <2> QED
    BY <2>2, <2>3
<1>8. n >= 3 => Total(ss, 3) = Total(ss, 2) + Len(ss[3])
  <2>1. ASSUME n >= 3 PROVE \A i \in 1 .. 2 + 1 : ss[i] \in Seq(S)
    <3>1. \A i \in 1 .. 2 + 1 : i \in 1 .. n
      BY <2>1
    <3> QED
      BY <1>4, <3>1
  <2>2. n >= 3 => Total(ss, 2 + 1) = Total(ss, 2) + Len(ss[2 + 1])
    <3>1. ASSUME n >= 3 PROVE Total(ss, 2 + 1) = Total(ss, 2) + Len(ss[2 + 1])
      <4>1. 2 \in Nat /\ \A i \in 1 .. 2 + 1 : ss[i] \in Seq(S)
        BY <2>1, <3>1
      <4> QED
        BY <4>1, TotalNext, Zenon
    <3> QED
      BY <3>1
  <2>3. 2 + 1 = 3
    OBVIOUS
  <2> QED
    BY <2>2, <2>3
<1>9. n >= 4 => Total(ss, 4) = Total(ss, 3) + Len(ss[4])
  <2>1. ASSUME n >= 4 PROVE \A i \in 1 .. 3 + 1 : ss[i] \in Seq(S)
    <3>1. \A i \in 1 .. 3 + 1 : i \in 1 .. n
      BY <2>1
    <3> QED
      BY <1>4, <3>1
  <2>2. n >= 4 => Total(ss, 3 + 1) = Total(ss, 3) + Len(ss[3 + 1])
    <3>1. ASSUME n >= 4 PROVE Total(ss, 3 + 1) = Total(ss, 3) + Len(ss[3 + 1])
      <4>1. 3 \in Nat /\ \A i \in 1 .. 3 + 1 : ss[i] \in Seq(S)
        BY <2>1, <3>1
      <4> QED
        BY <4>1, TotalNext, Zenon
    <3> QED
      BY <3>1
  <2>3. 3 + 1 = 4
    OBVIOUS
  <2> QED
    BY <2>2, <2>3
<1> DEFINE L(i) == IF i <= n THEN Len(ss[i]) ELSE 0
<1>10. \A i \in 1 .. n : L(i) = Len(ss[i]) /\ L(i) \in Nat
  BY <1>1, <1>4
<1>12. L(1) \in Nat /\ L(2) \in Nat /\ L(3) \in Nat /\ L(4) \in Nat
  BY <1>1, <1>10
<1>13. \A i \in 1 .. 4 : i > n => L(i) = 0
  BY <1>1
<1> HIDE DEF L
<1>11. Total(ss, n) = L(1) + L(2) + L(3) + L(4)
  <2>0. /\ n >= 1 => Total(ss, 1) = L(1)
        /\ n >= 2 => Total(ss, 2) = L(1) + L(2)
        /\ n >= 3 => Total(ss, 3) = L(1) + L(2) + L(3)
        /\ n >= 4 => Total(ss, 4) = L(1) + L(2) + L(3) + L(4)
    BY <1>1, <1>5, <1>6, <1>7, <1>8, <1>9, <1>10, <1>12
  <2>1. CASE n = 0
    BY <1>5, <1>13, <2>1
  <2>2. CASE n = 1
    BY <1>12, <1>13, <2>0, <2>2
  <2>3. CASE n = 2
    BY <1>12, <1>13, <2>0, <2>3
  <2>4. CASE n = 3
    BY <1>12, <1>13, <2>0, <2>4
  <2>5. CASE n = 4
    BY <1>12, <1>13, <2>0, <2>5
  <2>6. n = 0 \/ n = 1 \/ n = 2 \/ n = 3 \/ n = 4
    BY <1>1, UpToFour
  <2> QED
    BY <2>1, <2>2, <2>3, <2>4, <2>5, <2>6
<1> QED
  BY <1>1, <1>3, <1>11 DEF L

----------------------------------------------------------------------------
(* 2. The bytes of an instruction *)

\* How many of the first four classes of f are in cs.
Tally(f, cs) ==
  LET T(i) == IF i <= Len(f) /\ f[i] \in cs THEN 1 ELSE 0
  IN T(1) + T(2) + T(3) + T(4)

\* Among picks as many values as there are classes.
LEMMA AmongLength ==
  ASSUME NEW C, NEW f \in Seq(C), Len(f) <= 4, NEW values, NEW cs
  PROVE  /\ Among(f, values, cs) \in Seq({values[i] : i \in DOMAIN f})
         /\ Len(Among(f, values, cs)) = Tally(f, cs)
<1> DEFINE S == {values[i] : i \in DOMAIN f}
           ss == [i \in DOMAIN f |-> IF f[i] \in cs THEN <<values[i]>> ELSE <<>>]
<1>1. PICK n \in Nat : n = Len(f) /\ n <= 4 /\ DOMAIN f = 1 .. n
  OBVIOUS
<1>2. \A i \in 1 .. n : values[i] \in S
  BY <1>1
<1> HIDE DEF S
<1>3. \A i \in 1 .. n : /\ ss[i] \in Seq(S)
                        /\ Len(ss[i]) = IF f[i] \in cs THEN 1 ELSE 0
  BY <1>1, <1>2
<1>4. DOMAIN ss = 1 .. n /\ ss \in Seq(Seq(S)) /\ Len(ss) = n
  BY <1>1, <1>3
<1>5. Among(f, values, cs) = FlattenSeq(ss)
  BY DEF Among
<1> HIDE DEF ss
<1>6. FlattenSeq(ss) \in Seq(S)
  BY <1>4, FlattenType
<1>7. Len(FlattenSeq(ss)) = (IF 1 <= n THEN Len(ss[1]) ELSE 0) + (IF 2 <= n THEN Len(ss[2]) ELSE 0)
                            + (IF 3 <= n THEN Len(ss[3]) ELSE 0) + (IF 4 <= n THEN Len(ss[4]) ELSE 0)
  BY <1>1, <1>4, TotalOfFour
<1> DEFINE T(i) == IF i <= Len(f) /\ f[i] \in cs THEN 1 ELSE 0
           L(i) == IF i <= n THEN Len(ss[i]) ELSE 0
<1>8. \A i \in 1 .. 4 : L(i) = T(i)
  BY <1>1, <1>3
<1>10. Len(FlattenSeq(ss)) = L(1) + L(2) + L(3) + L(4) /\ Tally(f, cs) = T(1) + T(2) + T(3) + T(4)
  BY <1>7 DEF Tally
<1> HIDE DEF T, L
<1>9. Len(FlattenSeq(ss)) = Tally(f, cs)
  <2>1. L(1) = T(1) /\ L(2) = T(2) /\ L(3) = T(3) /\ L(4) = T(4)
    BY <1>8
  <2> QED
    BY <1>10, <2>1
<1> QED
  BY <1>5, <1>6, <1>9 DEF S

\* The classes of the operands of a kind: registers, then at most an immediate.
LEMMA FormFacts ==
  ASSUME NEW kind \in Kind
  PROVE  /\ Form[kind] \in Seq({"b", "w", "B", "W"}) /\ Len(Form[kind]) <= 4
         /\ Tally(Form[kind], {"B"}) + Tally(Form[kind], {"W"}) <= 1
         /\ SizeOf[kind] = (Tally(Form[kind], {"b", "w"}) + 1) \div 2
                           + Tally(Form[kind], {"B"}) + 2 * Tally(Form[kind], {"W"})
<1> DEFINE Facts(f, size) ==
      /\ f \in Seq({"b", "w", "B", "W"}) /\ Len(f) <= 4
      /\ Tally(f, {"B"}) + Tally(f, {"W"}) <= 1
      /\ size = (Tally(f, {"b", "w"}) + 1) \div 2 + Tally(f, {"B"}) + 2 * Tally(f, {"W"})
<1>1. kind \in {"Nothing", "ByteRegister", "WideRegister", "ImmediateByte", "ImmediateWide",
                "ByteImm", "WideImm", "WideImmByte", "WideImmWide", "TwoWideOneByte",
                "ByteWideImm", "TwoWideImm", "ByteTwoWide", "ThreeByte", "ThreeWide",
                "FourByte", "FourWide"}
  BY DEF Kind, Form
<1>2. CASE kind = "Nothing"
  <2>1. Form[kind] = <<>> /\ SizeOf[kind] = 0
    BY <1>2 DEF Form, SizeOf
  <2>2. Facts(<<>>, 0)
    BY DEF Tally
  <2> QED
    BY <2>1, <2>2
<1>3. CASE kind = "ByteRegister"
  <2>1. Form[kind] = <<"b">> /\ SizeOf[kind] = 1
    BY <1>3 DEF Form, SizeOf
  <2>2. Facts(<<"b">>, 1)
    BY DEF Tally
  <2> QED
    BY <2>1, <2>2
<1>4. CASE kind = "WideRegister"
  <2>1. Form[kind] = <<"w">> /\ SizeOf[kind] = 1
    BY <1>4 DEF Form, SizeOf
  <2>2. Facts(<<"w">>, 1)
    BY DEF Tally
  <2> QED
    BY <2>1, <2>2
<1>5. CASE kind = "ImmediateByte"
  <2>1. Form[kind] = <<"B">> /\ SizeOf[kind] = 1
    BY <1>5 DEF Form, SizeOf
  <2>2. Facts(<<"B">>, 1)
    BY DEF Tally
  <2> QED
    BY <2>1, <2>2
<1>6. CASE kind = "ImmediateWide"
  <2>1. Form[kind] = <<"W">> /\ SizeOf[kind] = 2
    BY <1>6 DEF Form, SizeOf
  <2>2. Facts(<<"W">>, 2)
    BY DEF Tally
  <2> QED
    BY <2>1, <2>2
<1>7. CASE kind = "ByteImm"
  <2>1. Form[kind] = <<"b", "B">> /\ SizeOf[kind] = 2
    BY <1>7 DEF Form, SizeOf
  <2>2. Facts(<<"b", "B">>, 2)
    BY DEF Tally
  <2> QED
    BY <2>1, <2>2
<1>8. CASE kind = "WideImm"
  <2>1. Form[kind] = <<"w", "W">> /\ SizeOf[kind] = 3
    BY <1>8 DEF Form, SizeOf
  <2>2. Facts(<<"w", "W">>, 3)
    BY DEF Tally
  <2> QED
    BY <2>1, <2>2
<1>9. CASE kind = "WideImmByte"
  <2>1. Form[kind] = <<"w", "W", "b">> /\ SizeOf[kind] = 3
    BY <1>9 DEF Form, SizeOf
  <2>2. Facts(<<"w", "W", "b">>, 3)
    BY DEF Tally
  <2> QED
    BY <2>1, <2>2
<1>10. CASE kind = "WideImmWide"
  <2>1. Form[kind] = <<"w", "W", "w">> /\ SizeOf[kind] = 3
    BY <1>10 DEF Form, SizeOf
  <2>2. Facts(<<"w", "W", "w">>, 3)
    BY DEF Tally
  <2> QED
    BY <2>1, <2>2
<1>11. CASE kind = "TwoWideOneByte"
  <2>1. Form[kind] = <<"w", "w", "b">> /\ SizeOf[kind] = 2
    BY <1>11 DEF Form, SizeOf
  <2>2. Facts(<<"w", "w", "b">>, 2)
    BY DEF Tally
  <2> QED
    BY <2>1, <2>2
<1>12. CASE kind = "ByteWideImm"
  <2>1. Form[kind] = <<"b", "w", "W">> /\ SizeOf[kind] = 3
    BY <1>12 DEF Form, SizeOf
  <2>2. Facts(<<"b", "w", "W">>, 3)
    BY DEF Tally
  <2> QED
    BY <2>1, <2>2
<1>13. CASE kind = "TwoWideImm"
  <2>1. Form[kind] = <<"w", "w", "W">> /\ SizeOf[kind] = 3
    BY <1>13 DEF Form, SizeOf
  <2>2. Facts(<<"w", "w", "W">>, 3)
    BY DEF Tally
  <2> QED
    BY <2>1, <2>2
<1>14. CASE kind = "ByteTwoWide"
  <2>1. Form[kind] = <<"b", "w", "w">> /\ SizeOf[kind] = 2
    BY <1>14 DEF Form, SizeOf
  <2>2. Facts(<<"b", "w", "w">>, 2)
    BY DEF Tally
  <2> QED
    BY <2>1, <2>2
<1>15. CASE kind = "ThreeByte"
  <2>1. Form[kind] = <<"b", "b", "b">> /\ SizeOf[kind] = 2
    BY <1>15 DEF Form, SizeOf
  <2>2. Facts(<<"b", "b", "b">>, 2)
    BY DEF Tally
  <2> QED
    BY <2>1, <2>2
<1>16. CASE kind = "ThreeWide"
  <2>1. Form[kind] = <<"w", "w", "w">> /\ SizeOf[kind] = 2
    BY <1>16 DEF Form, SizeOf
  <2>2. Facts(<<"w", "w", "w">>, 2)
    BY DEF Tally
  <2> QED
    BY <2>1, <2>2
<1>17. CASE kind = "FourByte"
  <2>1. Form[kind] = <<"b", "b", "b", "b">> /\ SizeOf[kind] = 2
    BY <1>17 DEF Form, SizeOf
  <2>2. Facts(<<"b", "b", "b", "b">>, 2)
    BY DEF Tally
  <2> QED
    BY <2>1, <2>2
<1>18. CASE kind = "FourWide"
  <2>1. Form[kind] = <<"w", "w", "w", "w">> /\ SizeOf[kind] = 2
    BY <1>18 DEF Form, SizeOf
  <2>2. Facts(<<"w", "w", "w", "w">>, 2)
    BY DEF Tally
  <2> QED
    BY <2>1, <2>2
<1> HIDE DEF Facts
<1> QED
  BY <1>1, <1>2, <1>3, <1>4, <1>5, <1>6, <1>7, <1>8, <1>9, <1>10, <1>11, <1>12, <1>13, <1>14, <1>15, <1>16, <1>17, <1>18

\* What write_data_operand writes: the opcode, and as many bytes as size counts.
LEMMA EncodeLength ==
  ASSUME NEW p, p.kind \in Kind
  PROVE  /\ SizeOf[p.kind] \in Nat
         /\ \E S : Encode(p) \in Seq(S)
         /\ Len(Encode(p)) = 1 + SizeOf[p.kind]
<1> DEFINE f == Form[p.kind]
           r == Among(f, p.args, {"b", "w"})
           b == Among(f, p.args, {"B"})
           w == Among(f, p.args, {"W"})
           V == {p.args[i] : i \in DOMAIN f}
           ws == [n \in DOMAIN w |-> <<w[n] % 256, w[n] \div 256>>]
           X == {Pack(r)[n] : n \in DOMAIN Pack(r)}
           Y == UNION {{w[n] % 256, w[n] \div 256} : n \in DOMAIN w}
           S == {p.op} \cup V \cup X \cup Y
<1>1. /\ f \in Seq({"b", "w", "B", "W"}) /\ Len(f) <= 4
      /\ Tally(f, {"B"}) + Tally(f, {"W"}) <= 1
      /\ SizeOf[p.kind] = (Tally(f, {"b", "w"}) + 1) \div 2 + Tally(f, {"B"}) + 2 * Tally(f, {"W"})
  BY FormFacts
<1>2. Encode(p) = <<p.op>> \o Pack(r) \o b \o FlattenSeq(ws)
  BY DEF Encode
<1> HIDE DEF f
<1>3. /\ r \in Seq(V) /\ Len(r) = Tally(f, {"b", "w"})
      /\ b \in Seq(V) /\ Len(b) = Tally(f, {"B"})
      /\ w \in Seq(V) /\ Len(w) = Tally(f, {"W"})
  BY <1>1, AmongLength
<1> HIDE DEF r, b, w, V
<1>4. PICK nr \in Nat, nb \in Nat, nw \in Nat : nr = Len(r) /\ nb = Len(b) /\ nw = Len(w)
  BY <1>3
<1>5. nw <= 1 /\ SizeOf[p.kind] = (nr + 1) \div 2 + nb + 2 * nw
  BY <1>1, <1>3, <1>4
<1>6. PICK h \in Nat : h = (nr + 1) \div 2
  OBVIOUS
<1>7. Pack(r) \in Seq(X) /\ Len(Pack(r)) = h
  <2>1. DOMAIN Pack(r) = 1 .. h /\ Pack(r) = [n \in 1 .. h |-> Pack(r)[n]]
    BY <1>4, <1>6 DEF Pack
  <2>2. \A n \in 1 .. h : Pack(r)[n] \in X
    BY <2>1
  <2> HIDE DEF X
  <2> QED
    BY <2>1, <2>2
<1>8. FlattenSeq(ws) \in Seq(Y) /\ Len(FlattenSeq(ws)) = 2 * nw
  <2>1. DOMAIN w = 1 .. nw
    BY <1>3, <1>4
  <2>2. \A n \in 1 .. nw : w[n] % 256 \in Y /\ w[n] \div 256 \in Y
    BY <2>1
  <2> HIDE DEF Y
  <2>3. \A n \in 1 .. nw : ws[n] \in Seq(Y) /\ Len(ws[n]) = 2
    BY <2>1, <2>2
  <2>4. ws \in Seq(Seq(Y)) /\ Len(ws) = nw
    BY <2>1, <2>3
  <2> HIDE DEF ws
  <2>5. FlattenSeq(ws) \in Seq(Y)
    BY <2>4, FlattenType
  <2>6. CASE nw = 0
    <3>1. ws = <<>>
      BY <2>4, <2>6
    <3> QED
      BY <2>5, <2>6, <3>1, FlattenEmpty
  <2>7. CASE nw = 1
    <3>1. ws = <<ws[1]>> /\ ws[1] \in Seq(Y) /\ Len(ws[1]) = 2
      BY <2>3, <2>4, <2>7
    <3> QED
      BY <2>5, <2>7, <3>1, FlattenOne
  <2> QED
    BY <1>4, <1>5, <2>6, <2>7
<1>9. /\ <<p.op>> \in Seq(S) /\ Pack(r) \in Seq(S) /\ b \in Seq(S) /\ FlattenSeq(ws) \in Seq(S)
  <2>1. p.op \in S /\ V \subseteq S /\ X \subseteq S /\ Y \subseteq S
    OBVIOUS
  <2> HIDE DEF S, X, Y, ws
  <2> QED
    BY <1>3, <1>7, <1>8, <2>1
<1> HIDE DEF S, X, Y, ws
<1>10. Encode(p) \in Seq(S) /\ Len(Encode(p)) = 1 + h + nb + 2 * nw
  <2>1. /\ Encode(p) \in Seq(S)
        /\ Len(Encode(p)) = Len(<<p.op>>) + Len(Pack(r)) + Len(b) + Len(FlattenSeq(ws))
    BY <1>2, <1>9, JoinedFour
  <2>2. Len(<<p.op>>) = 1
    OBVIOUS
  <2> QED
    BY <1>4, <1>6, <1>7, <1>8, <2>1, <2>2
<1> QED
  BY <1>5, <1>6, <1>10

\* An alternative of an instruction has one of the kinds.
LEMMA AlternativeKind ==
  ASSUME NEW m, NEW n \in DOMAIN Alternatives(m)
  PROVE  /\ n \in Nat /\ Alternatives(m)[n][2] \in Kind
         /\ m = "ret" => Alternatives(m)[n][2] \in {"Nothing", "ImmediateByte"}
<1> DEFINE K == {"Nothing", "ByteRegister", "WideRegister", "ImmediateByte", "ImmediateWide",
                "ByteImm", "WideImm", "WideImmByte", "WideImmWide", "TwoWideOneByte",
                "ByteWideImm", "TwoWideImm", "ByteTwoWide", "ThreeByte", "ThreeWide",
                "FourByte", "FourWide"}
           R == {"Nothing", "ImmediateByte"}
           Returns(as) == n \in DOMAIN as => as[n][2] \in R
           Fine(as) == n \in DOMAIN as => n \in Nat /\ as[n][2] \in K
<1>1. K \subseteq Kind
  BY DEF Kind, Form
<1>2. \A a, x : x \in K => Fine(<<<<a, x>>>>)
  OBVIOUS
<1>3. \A a, b, x, y : x \in K /\ y \in K => Fine(<<<<a, x>>, <<b, y>>>>)
  OBVIOUS
<1>4. \A a, b, c, d, x, y, z, t : x \in K /\ y \in K /\ z \in K /\ t \in K
                                 => Fine(<<<<a, x>>, <<b, y>>, <<c, z>>, <<d, t>>>>)
  OBVIOUS
<1>5. Fine(<<>>)
  OBVIOUS
<1>7. \A a, b, x, y : x \in R /\ y \in R => Returns(<<<<a, x>>, <<b, y>>>>)
  OBVIOUS
<1> HIDE DEF Fine, Returns
<1>10. CASE m \in Bare
  <2>1. Alternatives(m) = <<<<"", "Nothing">>>> /\ m # "ret"
    BY <1>10 DEF Alternatives, Bare, Jumps, Binary
  <2> QED
    BY <1>1, <1>2, <2>1 DEF Fine
<1>11. CASE m \in Jumps \cup {"call"}
  <2>1. Alternatives(m) = <<<<"", "ImmediateWide">>>> /\ m # "ret"
    BY <1>11 DEF Alternatives, Bare, Jumps, Binary
  <2> QED
    BY <1>1, <1>2, <2>1 DEF Fine
<1>12. CASE m \in {"push", "pop"}
  <2>1. Alternatives(m) = <<<<"b", "ByteRegister">>, <<"w", "WideRegister">>>> /\ m # "ret"
    BY <1>12 DEF Alternatives, Bare, Jumps, Binary
  <2> QED
    BY <1>1, <1>3, <2>1 DEF Fine
<1>13. CASE m = "ret"
  <2>1. Alternatives(m) = <<<<"", "Nothing">>, <<"", "ImmediateByte">>>>
    BY <1>13 DEF Alternatives, Bare, Jumps, Binary
  <2>2. Alternatives(m)[n][2] \in {"Nothing", "ImmediateByte"}
    <3>1. "Nothing" \in R /\ "ImmediateByte" \in R
      OBVIOUS
    <3> HIDE DEF R
    <3>2. Alternatives(m)[n][2] \in R
      BY <1>7, <2>1, <3>1 DEF Returns
    <3> QED
      BY <3>2 DEF R
  <2> QED
    BY <1>1, <1>3, <2>1, <2>2 DEF Fine
<1>14. CASE m = "store"
  <2>1. Alternatives(m) = <<<<"bi", "WideImmByte">>, <<"wi", "WideImmWide">>,
                          <<"br", "TwoWideOneByte">>, <<"wr", "ThreeWide">>>> /\ m # "ret"
    BY <1>14 DEF Alternatives, Bare, Jumps, Binary
  <2> QED
    BY <1>1, <1>4, <2>1 DEF Fine
<1>15. CASE m = "load"
  <2>1. Alternatives(m) = <<<<"bi", "ByteWideImm">>, <<"wi", "TwoWideImm">>,
                          <<"br", "ByteTwoWide">>, <<"wr", "ThreeWide">>>> /\ m # "ret"
    BY <1>15 DEF Alternatives, Bare, Jumps, Binary
  <2> QED
    BY <1>1, <1>4, <2>1 DEF Fine
<1>16. CASE m = "ldi"
  <2>1. Alternatives(m) = <<<<"b", "ByteImm">>, <<"w", "WideImm">>>> /\ m # "ret"
    BY <1>16 DEF Alternatives, Bare, Jumps, Binary
  <2> QED
    BY <1>1, <1>3, <2>1 DEF Fine
<1>17. CASE m = "jmp"
  <2>1. Alternatives(m) = <<<<"w", "ImmediateWide">>, <<"w", "WideRegister">>>> /\ m # "ret"
    BY <1>17 DEF Alternatives, Bare, Jumps, Binary
  <2> QED
    BY <1>1, <1>3, <2>1 DEF Fine
<1>18. CASE m \in Binary
  <2>1. Alternatives(m) = <<<<"b", "ThreeByte">>, <<"w", "ThreeWide">>>> /\ m # "ret"
    BY <1>18 DEF Alternatives, Bare, Jumps, Binary
  <2> QED
    BY <1>1, <1>3, <2>1 DEF Fine
<1>19. CASE m \in {"mul", "div"}
  <2>1. Alternatives(m) = <<<<"b", "FourByte">>, <<"w", "FourWide">>>> /\ m # "ret"
    BY <1>19 DEF Alternatives, Bare, Jumps, Binary
  <2> QED
    BY <1>1, <1>3, <2>1 DEF Fine
<1>20. CASE m \notin Bare \cup Jumps \cup {"call"} \cup {"push", "pop", "ret", "store", "load", "ldi", "jmp"}
                      \cup Binary \cup {"mul", "div"}
  <2>1. Alternatives(m) = <<>> /\ m # "ret"
    BY <1>20 DEF Alternatives
  <2> QED
    BY <1>1, <1>5, <2>1 DEF Fine
<1> QED
  BY <1>10, <1>11, <1>12, <1>13, <1>14, <1>15, <1>16, <1>17, <1>18, <1>19, <1>20

\* The kind does not depend on where the label will be.
LEMMA ParseKind ==
  ASSUME NEW m, NEW ops, NEW addr, Matching(m, ops) # {}
  PROVE  LET n == Min(Matching(m, ops))
         IN /\ Parse(m, ops, addr).kind \in Kind
            /\ Parse(m, ops, addr).kind = Parse(m, ops, 0).kind
            /\ n \in Matching(m, ops)
            /\ Canonical(m) # "ret" =>
                 Parse(m, ops, addr).kind \in {Alternatives(Canonical(m))[n][2], "TwoWideImm"}
<1> DEFINE n == Min(Matching(m, ops))
           a == Alternatives(Canonical(m))[n]
           name == Canonical(m)
           k == IF name = "ret" /\ ops = <<>> THEN "ImmediateByte"
                ELSE IF a[2] = "WideImm" \/ (name = "jmp" /\ a[2] \in {"ImmediateWide", "WideRegister"})
                THEN "TwoWideImm" ELSE a[2]
<1>1. Matching(m, ops) \subseteq DOMAIN Alternatives(Canonical(m))
  BY DEF Matching
<1>2. Matching(m, ops) \subseteq Nat
  BY <1>1, AlternativeKind
<1>3. n \in Matching(m, ops)
  <2>1. PICK x \in Matching(m, ops) : \A y \in Matching(m, ops) : x <= y
    BY <1>2, LeastNumber
  <2> QED
    BY <2>1 DEF Min
<1>4. a[2] \in Kind /\ (name = "ret" => a[2] \in {"Nothing", "ImmediateByte"})
  BY <1>1, <1>3, AlternativeKind
<1>5. ASSUME NEW x PROVE Parse(m, ops, x).kind = k
  <2> DEFINE args == [i \in DOMAIN Form[a[2]] |-> Value(Form[a[2]][i], ops[i], x)]
             Ins(o, kind, values) == [op |-> <<o, a[1]>>, kind |-> kind, args |-> values]
  <2>1. Parse(m, ops, x) =
          CASE name = "ret" /\ ops = <<>>           -> Ins("ret", "ImmediateByte", <<0>>)
            [] a[2] = "WideImm"                     -> Ins("ldi", "TwoWideImm", <<args[1], 0, args[2]>>)
            [] name = "jmp" /\ a[2] = "ImmediateWide" -> Ins("ldi", "TwoWideImm", <<0, 1, args[1]>>)
            [] name = "jmp" /\ a[2] = "WideRegister"  -> Ins("ldi", "TwoWideImm", <<args[1], 1, 0>>)
            [] OTHER                                -> Ins(name, a[2], args)
    BY DEF Parse
  <2> HIDE DEF args, a, name
  <2>2. CASE name = "ret" /\ ops = <<>>
    BY <1>4, <2>1, <2>2
  <2>3. CASE ~(name = "ret" /\ ops = <<>>) /\ a[2] = "WideImm"
    BY <2>1, <2>3
  <2>4. CASE /\ ~(name = "ret" /\ ops = <<>>) /\ a[2] # "WideImm"
             /\ name = "jmp" /\ a[2] \in {"ImmediateWide", "WideRegister"}
    BY <2>1, <2>4
  <2>5. CASE /\ ~(name = "ret" /\ ops = <<>>) /\ a[2] # "WideImm"
             /\ ~(name = "jmp" /\ a[2] \in {"ImmediateWide", "WideRegister"})
    BY <2>1, <2>5
  <2> QED
    BY <2>2, <2>3, <2>4, <2>5
<1>6. k \in Kind
  BY <1>4 DEF Kind, Form
<1>7. name # "ret" => k \in {a[2], "TwoWideImm"}
  OBVIOUS
<1> HIDE DEF k
<1> QED
  BY <1>3, <1>5, <1>6, <1>7

\* The alternatives of an instruction have as many operands each, but for those
\* of ret, which have no wide immediate.
LEMMA AlternativeForms ==
  ASSUME NEW m, NEW n \in DOMAIN Alternatives(m), NEW j \in DOMAIN Alternatives(m)
  PROVE  \/ Len(Form[Alternatives(m)[n][2]]) = Len(Form[Alternatives(m)[j][2]])
         \/ "W" \notin ToSet(Form[Alternatives(m)[n][2]])
<1> DEFINE One   == {"ByteRegister", "WideRegister", "ImmediateByte", "ImmediateWide"}
           Two   == {"ByteImm", "WideImm"}
           Three == {"WideImmByte", "WideImmWide", "TwoWideOneByte", "ByteWideImm", "TwoWideImm",
                     "ByteTwoWide", "ThreeByte", "ThreeWide"}
           Four  == {"FourByte", "FourWide"}
           Short == {"Nothing", "ImmediateByte"}
           All(as, K) == \A i \in DOMAIN as : as[i][2] \in K
<1>1. /\ \A x \in One : Len(Form[x]) = 1
      /\ \A x \in Two : Len(Form[x]) = 2
      /\ \A x \in Three : Len(Form[x]) = 3
      /\ \A x \in Four : Len(Form[x]) = 4
  <2>1. /\ Form["ByteRegister"] = <<"b">> /\ Form["WideRegister"] = <<"w">>
        /\ Form["ImmediateByte"] = <<"B">> /\ Form["ImmediateWide"] = <<"W">>
        /\ Form["ByteImm"] = <<"b", "B">> /\ Form["WideImm"] = <<"w", "W">>
    BY DEF Form
  <2>2. /\ Form["WideImmByte"] = <<"w", "W", "b">> /\ Form["WideImmWide"] = <<"w", "W", "w">>
        /\ Form["TwoWideOneByte"] = <<"w", "w", "b">> /\ Form["ByteWideImm"] = <<"b", "w", "W">>
        /\ Form["TwoWideImm"] = <<"w", "w", "W">> /\ Form["ByteTwoWide"] = <<"b", "w", "w">>
    BY DEF Form
  <2>3. /\ Form["ThreeByte"] = <<"b", "b", "b">> /\ Form["ThreeWide"] = <<"w", "w", "w">>
        /\ Form["FourByte"] = <<"b", "b", "b", "b">> /\ Form["FourWide"] = <<"w", "w", "w", "w">>
    BY DEF Form
  <2>4. /\ Len(Form["ByteRegister"]) = 1 /\ Len(Form["WideRegister"]) = 1
        /\ Len(Form["ImmediateByte"]) = 1 /\ Len(Form["ImmediateWide"]) = 1
        /\ Len(Form["ByteImm"]) = 2 /\ Len(Form["WideImm"]) = 2
    BY <2>1
  <2>5. /\ Len(Form["WideImmByte"]) = 3 /\ Len(Form["WideImmWide"]) = 3
        /\ Len(Form["TwoWideOneByte"]) = 3 /\ Len(Form["ByteWideImm"]) = 3
        /\ Len(Form["TwoWideImm"]) = 3 /\ Len(Form["ByteTwoWide"]) = 3
    BY <2>2
  <2>6. /\ Len(Form["ThreeByte"]) = 3 /\ Len(Form["ThreeWide"]) = 3
        /\ Len(Form["FourByte"]) = 4 /\ Len(Form["FourWide"]) = 4
    BY <2>3
  <2> QED
    BY <2>4, <2>5, <2>6
<1>2. \A x \in Short : "W" \notin ToSet(Form[x])
  <2>1. Form["Nothing"] = <<>> /\ Form["ImmediateByte"] = <<"B">>
    BY DEF Form
  <2>2. ToSet(<<>>) = {} /\ ToSet(<<"B">>) = {"B"}
    BY DEF ToSet
  <2> QED
    BY <2>1, <2>2
<1>3. \A a, x, K : x \in K => All(<<<<a, x>>>>, K)
  OBVIOUS
<1>4. \A a, b, x, y, K : x \in K /\ y \in K => All(<<<<a, x>>, <<b, y>>>>, K)
  OBVIOUS
<1>5. \A a, b, c, d, x, y, z, t, K : x \in K /\ y \in K /\ z \in K /\ t \in K
        => All(<<<<a, x>>, <<b, y>>, <<c, z>>, <<d, t>>>>, K)
  OBVIOUS
<1>6. /\ "ByteRegister" \in One /\ "WideRegister" \in One /\ "ImmediateWide" \in One
      /\ "ByteImm" \in Two /\ "WideImm" \in Two
      /\ "WideImmByte" \in Three /\ "WideImmWide" \in Three /\ "TwoWideOneByte" \in Three
      /\ "ByteWideImm" \in Three /\ "TwoWideImm" \in Three /\ "ByteTwoWide" \in Three
      /\ "ThreeByte" \in Three /\ "ThreeWide" \in Three
      /\ "FourByte" \in Four /\ "FourWide" \in Four
      /\ "Nothing" \in Short /\ "ImmediateByte" \in Short
  OBVIOUS
<1>7. ASSUME NEW K, All(Alternatives(m), K), K \in {One, Two, Three, Four, Short}
      PROVE  \/ Len(Form[Alternatives(m)[n][2]]) = Len(Form[Alternatives(m)[j][2]])
             \/ "W" \notin ToSet(Form[Alternatives(m)[n][2]])
  <2>1. Alternatives(m)[n][2] \in K /\ Alternatives(m)[j][2] \in K
    BY <1>7
  <2>2. PICK x \in K, y \in K : x = Alternatives(m)[n][2] /\ y = Alternatives(m)[j][2]
    BY <2>1
  <2> HIDE DEF One, Two, Three, Four, Short, All
  <2>3. Len(Form[x]) = Len(Form[y]) \/ "W" \notin ToSet(Form[x])
    <3>1. CASE K = One
      BY <1>1, <2>2, <3>1
    <3>2. CASE K = Two
      BY <1>1, <2>2, <3>2
    <3>3. CASE K = Three
      BY <1>1, <2>2, <3>3
    <3>4. CASE K = Four
      BY <1>1, <2>2, <3>4
    <3>5. CASE K = Short
      BY <1>2, <2>2, <3>5
    <3> QED
      BY <1>7, <3>1, <3>2, <3>3, <3>4, <3>5
  <2> QED
    BY <2>2, <2>3
<1> HIDE DEF One, Two, Three, Four, Short, All
<1>10. CASE m \in Bare
  <2>1. Alternatives(m) = <<<<"", "Nothing">>>>
    BY <1>10 DEF Alternatives, Bare, Jumps, Binary
  <2>2. All(Alternatives(m), Short)
    BY <1>3, <1>6, <2>1
  <2> QED
    BY <1>7, <2>2
<1>11. CASE m \in Jumps \cup {"call"}
  <2>1. Alternatives(m) = <<<<"", "ImmediateWide">>>>
    BY <1>11 DEF Alternatives, Bare, Jumps, Binary
  <2>2. All(Alternatives(m), One)
    BY <1>3, <1>6, <2>1
  <2> QED
    BY <1>7, <2>2
<1>12. CASE m \in {"push", "pop"}
  <2>1. Alternatives(m) = <<<<"b", "ByteRegister">>, <<"w", "WideRegister">>>>
    BY <1>12 DEF Alternatives, Bare, Jumps, Binary
  <2>2. All(Alternatives(m), One)
    BY <1>4, <1>6, <2>1
  <2> QED
    BY <1>7, <2>2
<1>13. CASE m = "ret"
  <2>1. Alternatives(m) = <<<<"", "Nothing">>, <<"", "ImmediateByte">>>>
    BY <1>13 DEF Alternatives, Bare, Jumps, Binary
  <2>2. All(Alternatives(m), Short)
    BY <1>4, <1>6, <2>1
  <2> QED
    BY <1>7, <2>2
<1>14. CASE m = "store"
  <2>1. Alternatives(m) = <<<<"bi", "WideImmByte">>, <<"wi", "WideImmWide">>,
                          <<"br", "TwoWideOneByte">>, <<"wr", "ThreeWide">>>>
    BY <1>14 DEF Alternatives, Bare, Jumps, Binary
  <2>2. All(Alternatives(m), Three)
    BY <1>5, <1>6, <2>1
  <2> QED
    BY <1>7, <2>2
<1>15. CASE m = "load"
  <2>1. Alternatives(m) = <<<<"bi", "ByteWideImm">>, <<"wi", "TwoWideImm">>,
                          <<"br", "ByteTwoWide">>, <<"wr", "ThreeWide">>>>
    BY <1>15 DEF Alternatives, Bare, Jumps, Binary
  <2>2. All(Alternatives(m), Three)
    BY <1>5, <1>6, <2>1
  <2> QED
    BY <1>7, <2>2
<1>16. CASE m = "ldi"
  <2>1. Alternatives(m) = <<<<"b", "ByteImm">>, <<"w", "WideImm">>>>
    BY <1>16 DEF Alternatives, Bare, Jumps, Binary
  <2>2. All(Alternatives(m), Two)
    BY <1>4, <1>6, <2>1
  <2> QED
    BY <1>7, <2>2
<1>17. CASE m = "jmp"
  <2>1. Alternatives(m) = <<<<"w", "ImmediateWide">>, <<"w", "WideRegister">>>>
    BY <1>17 DEF Alternatives, Bare, Jumps, Binary
  <2>2. All(Alternatives(m), One)
    BY <1>4, <1>6, <2>1
  <2> QED
    BY <1>7, <2>2
<1>18. CASE m \in Binary
  <2>1. Alternatives(m) = <<<<"b", "ThreeByte">>, <<"w", "ThreeWide">>>>
    BY <1>18 DEF Alternatives, Bare, Jumps, Binary
  <2>2. All(Alternatives(m), Three)
    BY <1>4, <1>6, <2>1
  <2> QED
    BY <1>7, <2>2
<1>19. CASE m \in {"mul", "div"}
  <2>1. Alternatives(m) = <<<<"b", "FourByte">>, <<"w", "FourWide">>>>
    BY <1>19 DEF Alternatives, Bare, Jumps, Binary
  <2>2. All(Alternatives(m), Four)
    BY <1>4, <1>6, <2>1
  <2> QED
    BY <1>7, <2>2
<1>20. CASE m \notin Bare \cup Jumps \cup {"call"} \cup {"push", "pop", "ret", "store", "load", "ldi", "jmp"}
                      \cup Binary \cup {"mul", "div"}
  <2>1. Alternatives(m) = <<>>
    BY <1>20 DEF Alternatives
  <2> QED
    BY <2>1
<1> QED
  BY <1>10, <1>11, <1>12, <1>13, <1>14, <1>15, <1>16, <1>17, <1>18, <1>19, <1>20

\* A label that an instruction looks up stands for its wide immediate, also when
\* another alternative was tried first.
LEMMA LabelTakesWord ==
  ASSUME NEW m, NEW ops, Accepted(m, ops), LabelIn(m, ops) # "none",
         Len(ops) \in Nat, DOMAIN ops = 1 .. Len(ops)
  PROVE  "W" \in ToSet(Form[Parse(m, ops, 0).kind])
<1> DEFINE as == Alternatives(Canonical(m))
           j  == Min(Matching(m, ops))
<1>1. PICK i \in DOMAIN ops : /\ Read(ops[i]).k = "label"
                              /\ \E n \in DOMAIN as : /\ i <= Len(Form[as[n][2]])
                                                      /\ Form[as[n][2]][i] = "W"
  BY DEF LabelIn
<1>2. PICK n \in DOMAIN as : i <= Len(Form[as[n][2]]) /\ Form[as[n][2]][i] = "W"
  BY <1>1
<1>3. /\ j \in Matching(m, ops)
      /\ Canonical(m) # "ret" => Parse(m, ops, 0).kind \in {as[j][2], "TwoWideImm"}
  BY ParseKind DEF Accepted
<1>4. j \in DOMAIN as /\ Begins(Form[as[j][2]], ops, Len(Form[as[j][2]]))
  BY <1>3 DEF Matching, Matches
<1> HIDE DEF j
<1>5. as[n][2] \in Kind /\ as[j][2] \in Kind
  BY <1>2, <1>4, AlternativeKind
<1>6. PICK f, g : f = Form[as[n][2]] /\ g = Form[as[j][2]]
  OBVIOUS
<1>7. f \in Seq({"b", "w", "B", "W"}) /\ g \in Seq({"b", "w", "B", "W"})
  BY <1>5, <1>6, FormFacts
<1>8. i \in DOMAIN f /\ f[i] = "W" /\ "W" \in ToSet(f)
  <2>1. i \in DOMAIN f /\ f[i] = "W"
    BY <1>1, <1>2, <1>6, <1>7
  <2> QED
    BY <2>1 DEF ToSet
<1>9. Len(f) = Len(g)
  BY <1>2, <1>4, <1>6, <1>8, AlternativeForms
<1>10. i \in DOMAIN g /\ g[i] = "W"
  <2>1. i \in 1 .. Len(g) /\ i \in DOMAIN g /\ g[i] \in {"b", "w", "B", "W"}
    BY <1>7, <1>8, <1>9
  <2>2. Is(g[i], ops[i])
    BY <1>4, <1>6, <2>1 DEF Begins
  <2>3. "label" \in Taken[g[i]]
    BY <1>1, <2>2 DEF Is
  <2> QED
    BY <2>1, <2>3 DEF Taken
<1>11. "W" \in ToSet(g)
  BY <1>10 DEF ToSet
<1>12. Canonical(m) # "ret"
  <2>1. ToSet(Form["Nothing"]) = {} /\ ToSet(Form["ImmediateByte"]) = {"B"}
    <3>1. Form["Nothing"] = <<>> /\ Form["ImmediateByte"] = <<"B">>
      BY DEF Form
    <3>2. ToSet(<<>>) = {} /\ ToSet(<<"B">>) = {"B"}
      BY DEF ToSet
    <3> QED
      BY <3>1, <3>2
  <2>2. Canonical(m) = "ret" => as[j][2] \in {"Nothing", "ImmediateByte"}
    BY <1>4, AlternativeKind
  <2>3. "W" # "B"
    OBVIOUS
  <2> QED
    BY <1>6, <1>11, <2>1, <2>2, <2>3
<1>13. "W" \in ToSet(Form["TwoWideImm"])
  <2>1. Form["TwoWideImm"] = <<"w", "w", "W">>
    BY DEF Form
  <2>2. "W" \in ToSet(<<"w", "w", "W">>)
    BY DEF ToSet
  <2> QED
    BY <2>1, <2>2
<1> QED
  BY <1>3, <1>6, <1>11, <1>12, <1>13

\* There is room for a wide immediate.
LEMMA WordSize ==
  ASSUME NEW kind \in Kind, "W" \in ToSet(Form[kind])
  PROVE  SizeOf[kind] \in Nat /\ SizeOf[kind] >= 2
<1>1. PICK f : f = Form[kind]
  OBVIOUS
<1>2. /\ f \in Seq({"b", "w", "B", "W"}) /\ Len(f) <= 4
      /\ SizeOf[kind] = (Tally(f, {"b", "w"}) + 1) \div 2 + Tally(f, {"B"}) + 2 * Tally(f, {"W"})
  BY <1>1, FormFacts
<1>3. PICK i \in DOMAIN f : f[i] = "W"
  BY <1>1 DEF ToSet
<1>4. i \in 1 .. 4 /\ i <= Len(f)
  BY <1>2
<1>5. \A cs : Tally(f, cs) \in Nat
  BY DEF Tally
<1>6. Tally(f, {"W"}) >= 1
  <2> DEFINE T(k) == IF k <= Len(f) /\ f[k] \in {"W"} THEN 1 ELSE 0
  <2>1. \A k \in 1 .. 4 : T(k) \in Nat
    OBVIOUS
  <2>2. T(i) = 1
    BY <1>3, <1>4
  <2>3. Tally(f, {"W"}) = T(1) + T(2) + T(3) + T(4)
    BY DEF Tally
  <2> HIDE DEF T
  <2>4. T(1) \in Nat /\ T(2) \in Nat /\ T(3) \in Nat /\ T(4) \in Nat
    BY <2>1
  <2>5. i = 1 \/ i = 2 \/ i = 3 \/ i = 4
    BY <1>4
  <2> QED
    BY <2>2, <2>3, <2>4, <2>5
<1>7. PICK r \in Nat, b \in Nat, w \in Nat :
        r = Tally(f, {"b", "w"}) /\ b = Tally(f, {"B"}) /\ w = Tally(f, {"W"}) /\ w >= 1
  BY <1>5, <1>6
<1>8. PICK h \in Nat : h = (r + 1) \div 2
  OBVIOUS
<1>9. SizeOf[kind] = h + b + 2 * w
  BY <1>2, <1>7, <1>8
<1> QED
  BY <1>7, <1>9

\* What is written of a line is what was counted.
LEMMA BytesLength ==
  ASSUME NEW l, IsData(l), l.op = "raw" => l.size \in Nat, NEW w
  PROVE  /\ LineSize(l) \in Nat
         /\ DOMAIN Bytes(l, w) = 1 .. LineSize(l) /\ Len(Bytes(l, w)) = LineSize(l)
<1>1. CASE l.op = "raw"
  BY <1>1 DEF LineSize, Bytes
<1>2. CASE l.op = "wide"
  BY <1>2 DEF LineSize, Bytes
<1>3. CASE l.op = "ins"
  <2> DEFINE p == Parse(l.m, l.ops, w)
             wide == "W" \in ToSet(Form[KindOf(l)])
  <2>1. p.kind \in Kind /\ p.kind = KindOf(l)
    BY <1>3, ParseKind DEF IsData, Accepted, KindOf
  <2> HIDE DEF p
  <2>2. PICK S : Encode(p) \in Seq(S)
    BY <2>1, EncodeLength
  <2>3. SizeOf[p.kind] \in Nat /\ Len(Encode(p)) = 1 + SizeOf[p.kind]
    BY <2>1, EncodeLength
  <2>4. LineSize(l) = 1 + SizeOf[p.kind]
    BY <1>3, <2>1 DEF LineSize
  <2>5. Bytes(l, w) = [x \in DOMAIN Encode(p) |->
                         <<IF wide /\ x > Len(Encode(p)) - 2 THEN w ELSE Literal, Encode(p)[x]>>]
    BY <1>3 DEF Bytes, p
  <2>6. DOMAIN Encode(p) = 1 .. LineSize(l) /\ LineSize(l) \in Nat
    BY <2>2, <2>3, <2>4
  <2> QED
    BY <2>5, <2>6
<1> QED
  BY <1>1, <1>2, <1>3 DEF IsData

----------------------------------------------------------------------------
(* 3. Type correctness *)

Types     == SegType \cup {"unknown"}
Address   == {NoAddr} \cup (Types \X Nat)
Stages    == {"lines", "resolve", "emit", "done", "failed"}
LinesOf(p)  == UNION {{p[f][i] : i \in DOMAIN p[f]} : f \in DOMAIN p}
PlacesOf(p) == UNION {{<<f, i>> : i \in DOMAIN p[f]} : f \in DOMAIN p}
NamesOf(p)  == {LookedUp(l) : l \in LinesOf(p)} \cup {l.name : l \in LinesOf(p)}
DataOf(p)   == [line : LinesOf(p), at : PlacesOf(p), ref : Nat]
FramesOf(p) == [file : DOMAIN p, next : Nat, seg : Types]

InFile(p, h) == h.next \in 1 .. Len(p[h.file]) + 1

\* Call h stands at the directive that call g was made for.
Calls(p, h, g) ==
  /\ h.next <= Len(p[h.file])
  /\ p[h.file][h.next].op = "include" /\ p[h.file][h.next].file = g.file

FramesType ==
  /\ frames \in Seq(FramesOf(prog)) /\ Len(frames) > 0
  /\ \A n \in DOMAIN frames : InFile(prog, frames[n])
  /\ frames[1].file = "main"
  /\ \A n \in 1 .. Len(frames) - 1 : Calls(prog, frames[n], frames[n + 1])
  /\ stage # "lines" => Len(frames) = 1 /\ Top.next > Len(prog[Top.file])

SymbolsType ==
  /\ labels \in Seq(NamesOf(prog)) /\ pos \in Seq(Address)
  /\ types \in Seq({"Internal", "Global", "Reference"})
  /\ Len(pos) = Len(labels) /\ Len(types) = Len(labels)
  /\ \A i, m \in DOMAIN labels : labels[i] = labels[m] => i = m

\* A line with bytes is one of the source, with the label it looked up.
Kept(p, ls, d) ==
  /\ d.line = p[d.at[1]][d.at[2]] /\ IsData(d.line)
  /\ IF LookedUp(d.line) = "none" THEN d.ref = NoLabel
     ELSE d.ref \in DOMAIN ls /\ ls[d.ref] = LookedUp(d.line)

LinesType ==
  /\ DOMAIN dls \subseteq Types
  /\ \A t \in DOMAIN dls : dls[t] \in [lines : Seq(DataOf(prog)), size : 0 .. W - 1]
  /\ \A t \in DOMAIN dls : \A k \in DOMAIN dls[t].lines : Kept(prog, labels, dls[t].lines[k])

\* The lines that are not written yet are the last ones.
WrittenType ==
  /\ stage \notin {"emit", "done"} => reads = <<>> /\ mem = <<>>
  /\ stage \in {"emit", "done"} =>
       /\ ~errors
       /\ start = Starts(dls) /\ DOMAIN todo = DOMAIN dls /\ DOMAIN mem = DOMAIN dls
       /\ \A t \in DOMAIN dls :
            /\ todo[t] \in Seq(DataOf(prog)) /\ Len(todo[t]) <= Len(dls[t].lines)
            /\ \A i \in DOMAIN todo[t] :
                 todo[t][i] = dls[t].lines[Len(dls[t].lines) - Len(todo[t]) + i]
       /\ stage = "done" => \A t \in DOMAIN todo : todo[t] = <<>>
  /\ \A i \in DOMAIN reads : reads[i].id \in DOMAIN labels /\ reads[i].seg \in DOMAIN mem
  /\ \E S : reads \in Seq(S)

TypeInv ==
  /\ prog \in Programs /\ stage \in Stages /\ errors \in BOOLEAN /\ entry \in Address
  /\ FramesType /\ SymbolsType /\ LinesType /\ WrittenType

----------------------------------------------------------------------------
(* 4. Definitions of the invariants *)

Blank(n) == [x \in 1 .. n |-> 0]

\* How many bytes the first k lines have.
Offset(lines, k) == Total([i \in DOMAIN lines |-> Blank(LineSize(lines[i].line))], k)

\* Nothing wraps around: the sizes that are counted, and the places of the
\* segments.
LayoutFits ==
  /\ MoreLines /\ IsData(Line) => SizeIn(Seg) + LineSize(Line) < W
  /\ \A t \in DOMAIN start :
       /\ start[t] + dls[t].size < W
       /\ (\E u \in DOMAIN start : Rank[t] < Rank[u]) => AlignEnd(start[t] + dls[t].size) < W

\* What was counted.
Counted == \A t \in DOMAIN dls : dls[t].size = Offset(dls[t].lines, Len(dls[t].lines))

DataAt(f, i) == f \in DOMAIN prog /\ i \in DOMAIN prog[f] /\ IsData(prog[f][i])

\* Line i of file f is among the lines, at offset o.
InSegment(ls, f, i, o) == \E k \in DOMAIN ls : ls[k].at = <<f, i>> /\ Offset(ls, k - 1) = o

\* It is the next one to be gone through, and will be at address a.
Pending(f, i, a) ==
  stage = "lines" /\ Top.file = f /\ Top.next = i /\ a[1] = Seg /\ a[2] = SizeIn(Seg)

\* The address a of a line is that of the line behind it, if that has bytes.
Points(f, i, a) ==
  DataAt(f, i + 1) => \/ a[1] \in DOMAIN dls /\ InSegment(dls[a[1]].lines, f, i + 1, a[2])
                      \/ Pending(f, i + 1, a)

Handled(f, i) ==
  /\ prog[f][i].op = "label" => \E m \in DOMAIN labels :
       labels[m] = prog[f][i].name /\ pos[m] # NoAddr /\ Points(f, i, pos[m])
  /\ prog[f][i].op = "entry" => entry # NoAddr /\ Points(f, i, entry)

FileHandled(f) == \A i \in DOMAIN prog[f] : Handled(f, i)

\* Line i of file f was gone through, and the file that it includes.
LineDone(f, i) ==
  /\ Handled(f, i)
  /\ prog[f][i].op = "include" => prog[f][i].file \in DOMAIN prog /\ FileHandled(prog[f][i].file)

LinesHandled ==
  ~errors => \A n \in DOMAIN frames : \A i \in 1 .. frames[n].next - 1 :
    LineDone(frames[n].file, i)

\* The address of the label of a line, as tc writes it.
WordOf(d) == IF d.ref = NoLabel THEN Literal ELSE SymbolOf(d.ref).loc

\* The bytes of a line of the object.
Cells(d) ==
  [x \in DOMAIN Bytes(d.line, WordOf(d)) |-> <<d.at, x - 1>> \o Bytes(d.line, WordOf(d))[x]]

CellsOf(ls) == [k \in DOMAIN ls |-> Cells(ls[k])]

\* The bytes m are the cells cs of the first n of the lines ls, one after the
\* other.
SegmentWritten(ls, cs, n, m) ==
  /\ \E S : m \in Seq(S)
  /\ Len(m) = Offset(ls, n)
  /\ \A k \in 1 .. n :
       /\ Offset(ls, k) <= Len(m)
       /\ \A x \in 1 .. LineSize(ls[k].line) : m[Offset(ls, k - 1) + x] = cs[k][x]
  /\ \A p \in DOMAIN m : \E k \in 1 .. n : \E x \in 1 .. LineSize(ls[k].line) :
       p = Offset(ls, k - 1) + x

BytesWritten ==
  stage \in {"emit", "done"} => \A t \in DOMAIN dls :
    SegmentWritten(dls[t].lines, CellsOf(dls[t].lines), Len(dls[t].lines) - Len(todo[t]), mem[t])

\* What is recorded of line d of segment t, which is at offset o.
ReadOf(d, o, t, r) ==
  /\ d.ref # NoLabel /\ r.id = d.ref /\ r.seg = t
  /\ d.line.op # "wide" => r.position = o + LineSize(d.line) - 2

\* What is recorded are the labels of the lines that are written.
ReadsWritten ==
  stage \in {"emit", "done"} =>
    /\ \A m \in DOMAIN reads : \E t \in DOMAIN dls : \E k \in DOMAIN dls[t].lines :
         /\ k <= Len(dls[t].lines) - Len(todo[t])
         /\ ReadOf(dls[t].lines[k], Offset(dls[t].lines, k - 1), t, reads[m])
    /\ \A t \in DOMAIN dls : \A k \in DOMAIN dls[t].lines :
         k <= Len(dls[t].lines) - Len(todo[t]) /\ dls[t].lines[k].ref # NoLabel =>
           \E m \in DOMAIN reads :
             ReadOf(dls[t].lines[k], Offset(dls[t].lines, k - 1), t, reads[m])

----------------------------------------------------------------------------
(* 5. The calls of inner_process *)

LEMMA Numbers ==
  PageSize \in Nat \ {0} /\ W \in Nat \ {0} /\ PageSize < W
BY AssemblerAssumption

LEMMA ProgramFacts ==
  ASSUME prog \in Programs
  PROVE  /\ "main" \in DOMAIN prog
         /\ \A f \in DOMAIN prog : DOMAIN prog[f] = 1 .. Len(prog[f]) /\ Len(prog[f]) \in Nat
         /\ \A l \in LinesOf(prog) :
              /\ l.op = "raw" => l.size \in Nat /\ l.ref = "none"
              /\ l.op = "ins" => Len(l.ops) \in Nat /\ DOMAIN l.ops = 1 .. Len(l.ops)
BY AssemblerAssumption DEF LinesOf

LEMMA PlaceFacts ==
  ASSUME NEW p, NEW f \in DOMAIN p, NEW i \in DOMAIN p[f]
  PROVE  <<f, i>> \in PlacesOf(p) /\ p[f][i] \in LinesOf(p)
BY DEF PlacesOf, LinesOf

LEMMA TopFacts ==
  ASSUME TypeInv
  PROVE  /\ Len(frames) \in Nat \ {0} /\ DOMAIN frames = 1 .. Len(frames)
         /\ Top.file \in DOMAIN prog /\ Top.next \in Nat \ {0} /\ Seg \in Types
         /\ Len(prog[Top.file]) \in Nat /\ Top.next <= Len(prog[Top.file]) + 1
         /\ MoreLines => /\ Top.next \in DOMAIN prog[Top.file]
                         /\ Here \in PlacesOf(prog) /\ Line \in LinesOf(prog)
                         /\ Line = prog[Here[1]][Here[2]]
<1>1. Len(frames) \in Nat \ {0} /\ DOMAIN frames = 1 .. Len(frames)
  BY DEF TypeInv, FramesType
<1>2. Len(frames) \in DOMAIN frames
  BY <1>1
<1>3. Top \in FramesOf(prog) /\ Top.next \in 1 .. Len(prog[Top.file]) + 1
  BY <1>2 DEF TypeInv, FramesType, Top, InFile
<1>4. Top.file \in DOMAIN prog /\ Top.next \in Nat /\ Seg \in Types
  BY <1>3 DEF FramesOf, Seg
<1>5. DOMAIN prog[Top.file] = 1 .. Len(prog[Top.file]) /\ Len(prog[Top.file]) \in Nat
  BY <1>4, ProgramFacts DEF TypeInv
<1>6. ASSUME MoreLines
      PROVE  /\ Top.next \in DOMAIN prog[Top.file]
             /\ Here \in PlacesOf(prog) /\ Line \in LinesOf(prog) /\ Line = prog[Here[1]][Here[2]]
  <2>1. Top.next \in DOMAIN prog[Top.file]
    BY <1>3, <1>5, <1>6 DEF MoreLines
  <2> QED
    BY <1>4, <2>1, PlaceFacts DEF Here, Line
<1> QED
  BY <1>1, <1>3, <1>4, <1>5, <1>6

\* What a call does when it goes on behind a line.
Advanced(seg) ==
  /\ Len(frames') = Len(frames) /\ \A n \in 1 .. Len(frames) - 1 : frames'[n] = frames[n]
  /\ frames'[Len(frames)] = [file |-> Top.file, next |-> Top.next + 1, seg |-> seg]

LEMMA AdvanceFrames ==
  ASSUME TypeInv, MoreLines, NEW seg \in Types, Advance(seg), prog' = prog, stage' = stage
  PROVE  FramesType' /\ Advanced(seg)
<1> DEFINE h == [file |-> Top.file, next |-> Top.next + 1, seg |-> seg]
<1>1. PICK n \in Nat \ {0} : n = Len(frames) /\ DOMAIN frames = 1 .. n
  BY TopFacts
<1>2. h \in FramesOf(prog)
  BY TopFacts DEF FramesOf
<1>3. frames' = [frames EXCEPT ![n] = h]
  BY <1>1 DEF Advance
<1>4. frames \in Seq(FramesOf(prog))
  BY DEF TypeInv, FramesType
<1> HIDE DEF h
<1>5. frames' \in Seq(FramesOf(prog)) /\ Len(frames') = n
  BY <1>1, <1>2, <1>3, <1>4
<1>6. frames'[n] = h /\ \A i \in 1 .. n - 1 : frames'[i] = frames[i]
  BY <1>1, <1>3
<1>7. Advanced(seg)
  BY <1>1, <1>5, <1>6 DEF Advanced, h
<1>8. h.file = Top.file /\ InFile(prog, h)
  <2>1. Top.next \in DOMAIN prog[Top.file] /\ DOMAIN prog[Top.file] = 1 .. Len(prog[Top.file])
    BY TopFacts, ProgramFacts DEF TypeInv
  <2> QED
    BY <2>1, TopFacts DEF h, InFile
<1>9. \A i \in 1 .. n : InFile(prog, frames'[i])
  BY <1>1, <1>6, <1>8 DEF TypeInv, FramesType
<1>10. frames'[1].file = "main"
  BY <1>1, <1>6, <1>8 DEF TypeInv, FramesType, Top
<1>11. ASSUME NEW i \in 1 .. n - 1
       PROVE  Calls(prog, frames'[i], frames'[i + 1])
  <2>1. i + 1 \in 1 .. n /\ frames'[i] = frames[i] /\ frames'[i + 1].file = frames[i + 1].file
    BY <1>1, <1>6, <1>8 DEF Top
  <2> QED
    BY <1>1, <2>1 DEF TypeInv, FramesType, Calls
<1>12. stage' = "lines"
  BY DEF MoreLines
<1>13. FramesType'
  BY <1>1, <1>5, <1>9, <1>10, <1>11, <1>12 DEF FramesType
<1> QED
  BY <1>7, <1>13

\* What a call does that includes a file.
Included(f) ==
  /\ Len(frames') = Len(frames) + 1 /\ \A n \in 1 .. Len(frames) : frames'[n] = frames[n]
  /\ frames'[Len(frames) + 1] = [file |-> f, next |-> 1, seg |-> "unknown"]

LEMMA IncludeFrames ==
  ASSUME TypeInv, MoreLines, Line.op = "include", Line.file \in DOMAIN prog,
         frames' = Append(frames, [file |-> Line.file, next |-> 1, seg |-> "unknown"]),
         prog' = prog, stage' = stage
  PROVE  FramesType' /\ Included(Line.file)
<1> DEFINE h == [file |-> Line.file, next |-> 1, seg |-> "unknown"]
<1>1. PICK n \in Nat \ {0} : n = Len(frames) /\ DOMAIN frames = 1 .. n
  BY TopFacts
<1>2. h \in FramesOf(prog)
  BY DEF FramesOf, Types
<1>4. frames \in Seq(FramesOf(prog))
  BY DEF TypeInv, FramesType
<1>3. frames' = Append(frames, h)
  OBVIOUS
<1> HIDE DEF h
<1>5. /\ frames' \in Seq(FramesOf(prog)) /\ Len(frames') = n + 1
      /\ frames'[n + 1] = h /\ \A i \in 1 .. n : frames'[i] = frames[i]
  BY <1>1, <1>2, <1>3, <1>4
<1>6. Included(Line.file)
  BY <1>1, <1>5 DEF Included, h
<1>7. h.file = Line.file /\ InFile(prog, h)
  BY ProgramFacts DEF h, TypeInv, InFile
<1>8. \A i \in 1 .. n + 1 : InFile(prog, frames'[i])
  BY <1>1, <1>5, <1>7 DEF TypeInv, FramesType
<1>9. frames'[1].file = "main"
  BY <1>1, <1>5 DEF TypeInv, FramesType
<1>10. ASSUME NEW i \in 1 .. n
       PROVE  Calls(prog, frames'[i], frames'[i + 1])
  <2>1. CASE i = n
    <3>1. frames'[i] = Top /\ frames'[i + 1] = h
      BY <1>1, <1>5, <2>1 DEF Top
    <3> QED
      BY <1>7, <3>1, TopFacts DEF Line, MoreLines, Calls
  <2>2. CASE i # n
    <3>1. i \in 1 .. n - 1 /\ i + 1 \in 1 .. n
      BY <1>1, <2>2
    <3>2. frames'[i] = frames[i] /\ frames'[i + 1] = frames[i + 1]
      BY <1>5, <3>1
    <3> QED
      BY <1>1, <3>1, <3>2 DEF TypeInv, FramesType
  <2> QED
    BY <2>1, <2>2
<1>12. stage' = "lines"
  BY DEF MoreLines
<1>13. FramesType'
  <2>1. frames' \in Seq(FramesOf(prog')) /\ Len(frames') > 0
    BY <1>5
  <2>2. \A i \in DOMAIN frames' : InFile(prog', frames'[i])
    BY <1>5, <1>8
  <2>3. \A i \in 1 .. Len(frames') - 1 : Calls(prog', frames'[i], frames'[i + 1])
    BY <1>5, <1>10
  <2> QED
    BY <1>9, <1>12, <2>1, <2>2, <2>3 DEF FramesType
<1> QED
  BY <1>6, <1>13

\* What a call does that the end of an included file is the return to.
Returned ==
  /\ Len(frames') = Len(frames) - 1 /\ \A n \in 1 .. Len(frames) - 2 : frames'[n] = frames[n]
  /\ frames'[Len(frames) - 1] = [file |-> frames[Len(frames) - 1].file,
                                  next |-> frames[Len(frames) - 1].next + 1,
                                  seg  |-> frames[Len(frames) - 1].seg]

LEMMA ReturnFrames ==
  ASSUME TypeInv, Len(frames) > 1, stage = "lines", prog' = prog, stage' = stage,
         frames' = [SubSeq(frames, 1, Len(frames) - 1) EXCEPT ![Len(frames) - 1] = Return(@)]
  PROVE  FramesType' /\ Returned
<1>0. PICK m \in Nat \ {0} : m = Len(frames) /\ DOMAIN frames = 1 .. m
  BY TopFacts
<1>1. PICK n \in Nat \ {0} : /\ n = Len(frames) - 1 /\ n - 1 = Len(frames) - 2
                            /\ DOMAIN frames = 1 .. n + 1 /\ Len(frames) = n + 1
  <2>1. m - 1 \in Nat \ {0} /\ (m - 1) + 1 = m /\ (m - 1) - 1 = m - 2
    BY <1>0
  <2> QED
    BY <1>0, <2>1
<1> DEFINE s == SubSeq(frames, 1, n)
           h == [file |-> frames[n].file, next |-> frames[n].next + 1, seg |-> frames[n].seg]
<1>2. frames \in Seq(FramesOf(prog))
  BY DEF TypeInv, FramesType
<1>3. s \in Seq(FramesOf(prog)) /\ Len(s) = n /\ \A i \in 1 .. n : s[i] = frames[i]
  BY <1>1, <1>2
<1>4. frames[n] \in FramesOf(prog) /\ n \in 1 .. n
  BY <1>1, <1>2
<1>5. Return(frames[n]) = h /\ h \in FramesOf(prog)
  BY <1>4 DEF Return, FramesOf
<1>6. frames' = [s EXCEPT ![n] = h]
  BY <1>1, <1>3, <1>4, <1>5
<1> HIDE DEF s, h
<1>7. /\ frames' \in Seq(FramesOf(prog)) /\ Len(frames') = n
      /\ frames'[n] = h /\ \A i \in 1 .. n - 1 : frames'[i] = frames[i]
  BY <1>3, <1>4, <1>5, <1>6
<1>8. Returned
  BY <1>1, <1>7 DEF Returned, h
<1>9. h.file = frames[n].file /\ InFile(prog, h)
  <2>1. InFile(prog, frames[n]) /\ Calls(prog, frames[n], frames[n + 1])
    <3>1. n \in DOMAIN frames /\ n \in 1 .. Len(frames) - 1
      BY <1>1
    <3> QED
      BY <3>1 DEF TypeInv, FramesType
  <2>2. frames[n].file \in DOMAIN prog /\ frames[n].next \in Nat
    BY <1>4 DEF FramesOf
  <2>3. Len(prog[frames[n].file]) \in Nat
    BY <2>2, ProgramFacts DEF TypeInv
  <2>4. frames[n].next <= Len(prog[frames[n].file])
    BY <2>1 DEF Calls
  <2>5. h.file = frames[n].file /\ h.next = frames[n].next + 1
    BY DEF h
  <2>6. h.next \in 1 .. Len(prog[h.file]) + 1
    BY <2>2, <2>3, <2>4, <2>5
  <2> QED
    BY <2>5, <2>6 DEF InFile
<1>10. ASSUME NEW i \in 1 .. n PROVE InFile(prog, frames'[i])
  <2>1. CASE i = n
    BY <1>7, <1>9, <2>1
  <2>2. CASE i # n
    <3>1. i \in 1 .. n - 1 /\ i \in DOMAIN frames
      BY <1>1, <2>2
    <3> QED
      BY <1>7, <3>1 DEF TypeInv, FramesType
  <2> QED
    BY <2>1, <2>2
<1>11. frames'[1].file = "main"
  BY <1>1, <1>7, <1>9 DEF TypeInv, FramesType
<1>12. ASSUME NEW i \in 1 .. n - 1
       PROVE  Calls(prog, frames'[i], frames'[i + 1])
  <2>1. i + 1 \in 1 .. n /\ frames'[i] = frames[i] /\ frames'[i + 1].file = frames[i + 1].file
    <3>1. i \in 1 .. n /\ i + 1 \in 1 .. n /\ (i + 1 \in 1 .. n - 1 \/ i + 1 = n)
      BY <1>12
    <3> QED
      BY <1>7, <1>9, <1>12, <3>1
  <2>2. Calls(prog, frames[i], frames[i + 1])
    <3>1. i \in 1 .. Len(frames) - 1
      BY <1>1, <1>12
    <3> QED
      BY <3>1 DEF TypeInv, FramesType
  <2> QED
    BY <2>1, <2>2 DEF Calls
<1>13. FramesType'
  <2>1. frames' \in Seq(FramesOf(prog')) /\ Len(frames') > 0
    BY <1>7
  <2>2. \A i \in DOMAIN frames' : InFile(prog', frames'[i])
    BY <1>7, <1>10
  <2>3. \A i \in 1 .. Len(frames') - 1 : Calls(prog', frames'[i], frames'[i + 1])
    BY <1>7, <1>12
  <2>4. stage' = "lines" /\ frames'[1].file = "main"
    BY <1>11
  <2> QED
    BY <2>1, <2>2, <2>3, <2>4 DEF FramesType
<1> QED
  BY <1>8, <1>13

----------------------------------------------------------------------------
(* 6. The symbol table *)

TypesOfSymbols == {"Internal", "Global", "Reference"}

\* A table of symbols.
Table(ls, ps, ts) ==
  /\ ls \in Seq(NamesOf(prog)) /\ ps \in Seq(Address) /\ ts \in Seq(TypesOfSymbols)
  /\ Len(ps) = Len(ls) /\ Len(ts) = Len(ls)
  /\ \A i, m \in DOMAIN ls : ls[i] = ls[m] => i = m

LEMMA SymbolsAreTable == SymbolsType <=> Table(labels, pos, types)
BY DEF SymbolsType, Table, TypesOfSymbols

\* A symbol is found, or entered behind the others.
LEMMA FindFacts ==
  ASSUME TypeInv, NEW n \in NamesOf(prog)
  PROVE  LET f == Find(n)
         IN /\ Table(f.labels, f.pos, f.types)
            /\ f.id \in DOMAIN f.labels /\ f.labels[f.id] = n
            /\ Len(f.labels) >= Len(labels)
            /\ \A i \in DOMAIN labels : f.labels[i] = labels[i] /\ f.pos[i] = pos[i]
            /\ f.id \notin DOMAIN labels => f.pos[f.id] = NoAddr
<1> DEFINE f == Find(n)
<1>1. Table(labels, pos, types)
  BY SymbolsAreTable DEF TypeInv
<1>2. CASE Has(n)
  <2>1. f.labels = labels /\ f.pos = pos /\ f.types = types /\ f.id = IdOf(n)
    BY <1>2 DEF Find
  <2>2. IdOf(n) \in DOMAIN labels /\ labels[IdOf(n)] = n
    BY <1>2 DEF Has, IdOf
  <2>3. Len(labels) >= Len(labels)
    BY <1>1 DEF Table
  <2> QED
    BY <1>1, <2>1, <2>2, <2>3
<1>3. CASE ~Has(n)
  <2>1. PICK k \in Nat : k = Len(labels) /\ DOMAIN labels = 1 .. k
    BY <1>1 DEF Table
  <2>2. /\ f.labels = Append(labels, n) /\ f.pos = Append(pos, NoAddr)
        /\ f.types = Append(types, "Internal") /\ f.id = k + 1
    BY <1>3, <2>1 DEF Find
  <2> HIDE DEF f
  <2>3. \A i \in 1 .. k : labels[i] # n
    BY <1>3, <2>1 DEF Has
  <2>4. /\ f.labels \in Seq(NamesOf(prog)) /\ Len(f.labels) = k + 1 /\ DOMAIN f.labels = 1 .. k + 1
        /\ f.labels[k + 1] = n /\ \A i \in 1 .. k : f.labels[i] = labels[i]
    BY <1>1, <2>1, <2>2 DEF Table
  <2>5. NoAddr \in Address
    BY DEF Address
  <2>6. pos \in Seq(Address) /\ Len(pos) = k
    BY <1>1, <2>1 DEF Table
  <2>7. /\ f.pos \in Seq(Address) /\ Len(f.pos) = k + 1
        /\ f.pos[k + 1] = NoAddr /\ \A i \in 1 .. k : f.pos[i] = pos[i]
    BY <2>2, <2>5, <2>6
  <2>8. f.types \in Seq(TypesOfSymbols) /\ Len(f.types) = k + 1
    BY <1>1, <2>1, <2>2 DEF Table, TypesOfSymbols
  <2>9. \A i, m \in 1 .. k + 1 : f.labels[i] = f.labels[m] => i = m
    <3>1. \A i, m \in 1 .. k : labels[i] = labels[m] => i = m
      BY <1>1, <2>1 DEF Table
    <3> QED
      BY <2>1, <2>3, <2>4, <3>1
  <2>10. Table(f.labels, f.pos, f.types)
    BY <2>4, <2>7, <2>8, <2>9 DEF Table
  <2>11. k + 1 \in 1 .. k + 1 /\ k + 1 >= k
    BY <2>1
  <2> QED
    BY <2>1, <2>2, <2>4, <2>7, <2>10, <2>11 DEF f
<1> QED
  BY <1>2, <1>3

LEMMA NameTypes ==
  ASSUME TypeInv, MoreLines
  PROVE  Line.name \in NamesOf(prog) /\ LookedUp(Line) \in NamesOf(prog)
BY TopFacts DEF NamesOf

\* Labels stay where they are, and an address is set only once without an
\* error.
SymbolsGrow ==
  /\ Len(labels') >= Len(labels)
  /\ \A i \in DOMAIN labels : /\ i \in DOMAIN labels' /\ labels'[i] = labels[i]
                              /\ ~errors' /\ pos[i] # NoAddr => pos'[i] = pos[i]

LEMMA SymbolsKept ==
  ASSUME TypeInv, UNCHANGED symbols, prog' = prog
  PROVE  SymbolsType' /\ SymbolsGrow
<1>1. labels' = labels /\ pos' = pos /\ types' = types
  BY DEF symbols
<1>2. Len(labels) >= Len(labels)
  BY DEF TypeInv, SymbolsType
<1> QED
  BY <1>1, <1>2 DEF TypeInv, SymbolsType, SymbolsGrow

LEMMA SymbolsReferred ==
  ASSUME TypeInv, MoreLines, LookUp, prog' = prog
  PROVE  /\ SymbolsType' /\ SymbolsGrow
         /\ LookedUp(Line) # "none" => /\ Find(LookedUp(Line)).id \in DOMAIN labels'
                                       /\ labels'[Find(LookedUp(Line)).id] = LookedUp(Line)
<1>1. CASE LookedUp(Line) = "none"
  BY <1>1, SymbolsKept DEF LookUp
<1>2. CASE LookedUp(Line) # "none"
  <2> DEFINE f == Find(LookedUp(Line))
  <2>1. labels' = f.labels /\ pos' = f.pos /\ types' = f.types
    BY <1>2 DEF LookUp, Refer
  <2>2. LookedUp(Line) \in NamesOf(prog)
    BY NameTypes
  <2>3. /\ Table(f.labels, f.pos, f.types)
        /\ f.id \in DOMAIN f.labels /\ f.labels[f.id] = LookedUp(Line)
        /\ Len(f.labels) >= Len(labels)
        /\ \A i \in DOMAIN labels : f.labels[i] = labels[i] /\ f.pos[i] = pos[i]
    BY <2>2, FindFacts
  <2> HIDE DEF f
  <2>4. SymbolsType'
    BY <2>1, <2>3 DEF SymbolsType, Table, TypesOfSymbols
  <2>5. \A i \in DOMAIN labels : i \in DOMAIN labels'
    BY <2>1, <2>3 DEF TypeInv, SymbolsType, Table
  <2> QED
    BY <2>1, <2>3, <2>4, <2>5 DEF SymbolsGrow, f
<1> QED
  BY <1>1, <1>2

LEMMA SymbolsLabelled ==
  ASSUME TypeInv, MoreLines, Label, prog' = prog
  PROVE  /\ SymbolsType' /\ SymbolsGrow
         /\ \E i \in DOMAIN labels' : labels'[i] = Line.name /\ pos'[i] = <<Seg, SizeIn(Seg)>>
<1> DEFINE f == Find(Line.name)
           a == <<Seg, SizeIn(Seg)>>
<1>1. /\ labels' = f.labels /\ types' = f.types /\ pos' = [f.pos EXCEPT ![f.id] = a]
      /\ ~errors' => f.pos[f.id] = NoAddr
  BY DEF Label
<1>2. Line.name \in NamesOf(prog)
  BY NameTypes
<1>3. /\ Table(f.labels, f.pos, f.types)
      /\ f.id \in DOMAIN f.labels /\ f.labels[f.id] = Line.name
      /\ Len(f.labels) >= Len(labels)
      /\ \A i \in DOMAIN labels : f.labels[i] = labels[i] /\ f.pos[i] = pos[i]
  BY <1>2, FindFacts
<1>4. a \in Address
  <2>1. Seg \in Types /\ SizeIn(Seg) \in Nat
    BY TopFacts, Numbers DEF SizeIn, TypeInv, LinesType
  <2> QED
    BY <2>1 DEF Address
<1> HIDE DEF f, a
<1>5. PICK k \in Nat : k = Len(f.labels) /\ DOMAIN f.labels = 1 .. k /\ f.id \in 1 .. k
  BY <1>3 DEF Table
<1>6. f.pos \in Seq(Address) /\ Len(f.pos) = k
  BY <1>3, <1>5 DEF Table
<1>7. /\ pos' \in Seq(Address) /\ Len(pos') = k
      /\ pos'[f.id] = a /\ \A i \in 1 .. k : i # f.id => pos'[i] = f.pos[i]
  BY <1>1, <1>4, <1>5, <1>6
<1>8. SymbolsType'
  BY <1>1, <1>3, <1>5, <1>7 DEF SymbolsType, Table, TypesOfSymbols
<1>9. \A i \in DOMAIN labels : i \in 1 .. k
  BY <1>3, <1>5 DEF TypeInv, SymbolsType
<1>10. SymbolsGrow
  BY <1>1, <1>3, <1>5, <1>7, <1>9 DEF SymbolsGrow
<1> QED
  BY <1>1, <1>3, <1>5, <1>7, <1>8, <1>10 DEF a

LEMMA SymbolsDeclared ==
  ASSUME TypeInv, MoreLines, Declare, prog' = prog
  PROVE  SymbolsType' /\ SymbolsGrow
<1> DEFINE f == Find(Line.name)
<1>1. /\ labels' = f.labels /\ pos' = f.pos
      /\ types' = [f.types EXCEPT ![f.id] = Declared(@, Line.op)] /\ Line.op \in {"Global", "Reference"}
  BY DEF Declare
<1>2. Line.name \in NamesOf(prog)
  BY NameTypes
<1>3. /\ Table(f.labels, f.pos, f.types)
      /\ f.id \in DOMAIN f.labels /\ f.labels[f.id] = Line.name
      /\ Len(f.labels) >= Len(labels)
      /\ \A i \in DOMAIN labels : f.labels[i] = labels[i] /\ f.pos[i] = pos[i]
  BY <1>2, FindFacts
<1> HIDE DEF f
<1>4. PICK k \in Nat : k = Len(f.labels) /\ DOMAIN f.labels = 1 .. k /\ f.id \in 1 .. k
  BY <1>3 DEF Table
<1>5. f.types \in Seq(TypesOfSymbols) /\ Len(f.types) = k
  BY <1>3, <1>4 DEF Table
<1>6. Declared(f.types[f.id], Line.op) \in TypesOfSymbols
  <2>1. f.types[f.id] \in TypesOfSymbols
    BY <1>4, <1>5
  <2> QED
    BY <1>1, <2>1 DEF Declared, TypesOfSymbols
<1>7. types' \in Seq(TypesOfSymbols) /\ Len(types') = k
  <2>1. types' = [f.types EXCEPT ![f.id] = Declared(f.types[f.id], Line.op)]
    BY <1>1
  <2> QED
    BY <1>4, <1>5, <1>6, <2>1
<1>8. SymbolsType'
  BY <1>1, <1>3, <1>4, <1>7 DEF SymbolsType, Table, TypesOfSymbols
<1>9. \A i \in DOMAIN labels : i \in 1 .. k
  BY <1>3, <1>4 DEF TypeInv, SymbolsType
<1> QED
  BY <1>1, <1>3, <1>4, <1>8, <1>9 DEF SymbolsGrow

\* What a line does to the symbols.
LEMMA SymbolsStep ==
  ASSUME TypeInv, ProcessLine
  PROVE  SymbolsType' /\ SymbolsGrow /\ prog' = prog
<1>1. prog' = prog /\ MoreLines
  BY DEF ProcessLine
<1>2. CASE Segment \/ Entry \/ IncludeFile
  BY <1>1, <1>2, SymbolsKept DEF Segment, Entry, IncludeFile
<1>3. CASE Label
  BY <1>1, <1>3, SymbolsLabelled
<1>4. CASE Declare
  BY <1>1, <1>4, SymbolsDeclared
<1>5. CASE Data
  BY <1>1, <1>5, SymbolsReferred DEF Data
<1>6. CASE Bad
  BY <1>1, <1>6, SymbolsReferred, SymbolsKept DEF Bad
<1> QED
  BY <1>1, <1>2, <1>3, <1>4, <1>5, <1>6 DEF ProcessLine

----------------------------------------------------------------------------
(* 7. The lines with bytes *)

LEMMA LineBytes ==
  ASSUME prog \in Programs, NEW l \in LinesOf(prog), IsData(l), NEW w
  PROVE  /\ LineSize(l) \in Nat
         /\ DOMAIN Bytes(l, w) = 1 .. LineSize(l) /\ Len(Bytes(l, w)) = LineSize(l)
BY ProgramFacts, BytesLength

LinesIn(t) == IF t \in DOMAIN dls THEN dls[t].lines ELSE <<>>

\* Line d was added to the current segment.
Added(d) ==
  /\ d \in DataOf(prog) /\ d.line = Line /\ d.at = Here
  /\ DOMAIN dls' = DOMAIN dls \cup {Seg}
  /\ \A t \in DOMAIN dls \ {Seg} : dls'[t] = dls[t]
  /\ dls'[Seg].lines = Append(LinesIn(Seg), d)
  /\ dls'[Seg].size = (SizeIn(Seg) + LineSize(Line)) % W

LEMMA DlsTypes ==
  ASSUME TypeInv, NEW t
  PROVE  LinesIn(t) \in Seq(DataOf(prog)) /\ SizeIn(t) \in 0 .. W - 1
<1>1. W \in Nat \ {0} /\ 0 \in 0 .. W - 1
  BY Numbers
<1>2. CASE t \in DOMAIN dls
  BY <1>2 DEF LinesIn, SizeIn, TypeInv, LinesType
<1>3. CASE t \notin DOMAIN dls
  BY <1>1, <1>3 DEF LinesIn, SizeIn
<1> QED
  BY <1>2, <1>3

\* Lines stay what they are when the symbols grow.
LEMMA KeptStays ==
  ASSUME NEW d, Kept(prog, labels, d), SymbolsGrow
  PROVE  Kept(prog, labels', d)
BY DEF Kept, SymbolsGrow

LEMMA LinesStay ==
  ASSUME TypeInv, SymbolsGrow, prog' = prog, dls' = dls
  PROVE  LinesType'
<1>1. \A t \in DOMAIN dls : \A k \in DOMAIN dls[t].lines : Kept(prog, labels', dls[t].lines[k])
  BY KeptStays DEF TypeInv, LinesType
<1> QED
  BY <1>1 DEF TypeInv, LinesType

LEMMA DataLines ==
  ASSUME TypeInv, MoreLines, Data, prog' = prog, SymbolsType', SymbolsGrow
  PROVE  LinesType' /\ \E d : Added(d)
<1> DEFINE ref == IF LookedUp(Line) = "none" THEN NoLabel ELSE Find(LookedUp(Line)).id
           d   == [line |-> Line, at |-> Here, ref |-> ref]
           s   == (SizeIn(Seg) + LineSize(Line)) % W
           new == [lines |-> Append(LinesIn(Seg), d), size |-> s]
<1>1. /\ LookedUp(Line) # "none" => /\ ref \in DOMAIN labels' /\ labels'[ref] = LookedUp(Line)
      /\ LookedUp(Line) = "none" => ref = NoLabel
  BY SymbolsReferred DEF Data
<1>2. ref \in Nat
  <2>1. \A i \in DOMAIN labels' : i \in Nat
    BY DEF SymbolsType
  <2> QED
    BY <1>1, <2>1 DEF NoLabel
<1>3. d \in DataOf(prog)
  BY <1>2, TopFacts DEF DataOf
<1>4. Kept(prog, labels', d)
  BY <1>1, TopFacts DEF Data, Kept
<1>5. s \in 0 .. W - 1
  <2>1. LineSize(Line) \in Nat
    BY TopFacts, LineBytes DEF Data, TypeInv
  <2>2. SizeIn(Seg) + LineSize(Line) \in Int /\ W \in Nat \ {0}
    BY <2>1, DlsTypes, Numbers
  <2> QED
    BY <2>2, Division
<1>6. dls' = [t \in DOMAIN dls \cup {Seg} |-> IF t = Seg THEN new ELSE dls[t]]
  <2>1. (IF Seg \in DOMAIN dls THEN dls[Seg] ELSE [lines |-> <<>>, size |-> 0]).lines = LinesIn(Seg)
    BY DEF LinesIn
  <2>2. (IF Seg \in DOMAIN dls THEN dls[Seg] ELSE [lines |-> <<>>, size |-> 0]).size = SizeIn(Seg)
    BY DEF SizeIn
  <2> QED
    BY <2>1, <2>2 DEF Data
<1> HIDE DEF d, s, ref
<1>7. new \in [lines : Seq(DataOf(prog)), size : 0 .. W - 1]
  BY <1>3, <1>5, DlsTypes
<1>8. new.lines = Append(LinesIn(Seg), d) /\ new.size = s
  OBVIOUS
<1> HIDE DEF new
<1>9. /\ DOMAIN dls' = DOMAIN dls \cup {Seg} /\ dls'[Seg] = new
      /\ \A t \in DOMAIN dls \ {Seg} : dls'[t] = dls[t]
  BY <1>6
<1>10. Added(d)
  <2>1. d.line = Line /\ d.at = Here
    BY DEF d
  <2> QED
    BY <1>3, <1>8, <1>9, <2>1 DEF Added, s
<1>11. DOMAIN dls' \subseteq Types
  BY <1>9, TopFacts DEF TypeInv, LinesType
<1>12. \A t \in DOMAIN dls' : dls'[t] \in [lines : Seq(DataOf(prog)), size : 0 .. W - 1]
  BY <1>7, <1>9 DEF TypeInv, LinesType
<1>13. ASSUME NEW t \in DOMAIN dls', NEW k \in DOMAIN dls'[t].lines
       PROVE  Kept(prog, labels', dls'[t].lines[k])
  <2>1. CASE t # Seg
    <3>1. dls'[t] = dls[t] /\ t \in DOMAIN dls
      BY <1>9, <1>13, <2>1
    <3>2. Kept(prog, labels, dls[t].lines[k])
      BY <1>13, <3>1 DEF TypeInv, LinesType
    <3> QED
      BY <3>1, <3>2, KeptStays
  <2>2. CASE t = Seg
    <3>1. PICK n \in Nat : n = Len(LinesIn(Seg)) /\ LinesIn(Seg) \in Seq(DataOf(prog))
      BY DlsTypes
    <3>2. dls'[t].lines = Append(LinesIn(Seg), d)
      BY <1>8, <1>9, <2>2
    <3>3. CASE k = n + 1
      <4>1. dls'[t].lines[k] = d
        BY <1>3, <3>1, <3>2, <3>3
      <4> QED
        BY <1>4, <4>1
    <3>4. CASE k # n + 1
      <4>1. k \in 1 .. n /\ dls'[t].lines[k] = LinesIn(Seg)[k]
        BY <1>3, <1>13, <3>1, <3>2, <3>4
      <4>2. Seg \in DOMAIN dls
        BY <3>1, <4>1 DEF LinesIn
      <4>3. Kept(prog, labels, LinesIn(Seg)[k])
        BY <3>1, <4>1, <4>2 DEF TypeInv, LinesType, LinesIn
      <4> QED
        BY <4>1, <4>3, KeptStays
    <3> QED
      BY <3>3, <3>4
  <2> QED
    BY <2>1, <2>2
<1>14. LinesType'
  BY <1>11, <1>12, <1>13 DEF LinesType
<1> QED
  BY <1>10, <1>14

----------------------------------------------------------------------------
(* 8. The steps preserve the types *)

\* Every line but one that includes a file is followed by the next one.
LEMMA FramesStep ==
  ASSUME TypeInv, ProcessLine
  PROVE  /\ FramesType'
         /\ \/ Line.op = "include" /\ Line.file \in DOMAIN prog /\ Included(Line.file)
            \/ Line.op = "seg" /\ \E seg \in Types : Advanced(seg)
            \/ /\ Line.op = "include" => errors' /\ Line.file \notin DOMAIN prog
               /\ Line.op = "seg" => errors'
               /\ Advanced(Seg)
<1>1. prog' = prog /\ stage' = stage /\ MoreLines /\ Seg \in Types
  BY TopFacts DEF ProcessLine
<1>2. CASE Segment
  <2>1. CASE Line.seg \in SegType
    <3>1. Line.seg \in Types /\ Advance(Line.seg) /\ Line.op = "seg"
      BY <1>2, <2>1 DEF Types, Segment
    <3> QED
      BY <1>1, <3>1, AdvanceFrames
  <2>2. CASE Line.seg \notin SegType
    <3>1. Advance(Seg) /\ Line.op = "seg"
      BY <1>2, <2>2 DEF Segment
    <3> QED
      BY <1>1, <3>1, AdvanceFrames
  <2> QED
    BY <2>1, <2>2
<1>3. CASE IncludeFile
  <2>1. CASE Line.file \in DOMAIN prog
    BY <1>1, <1>3, <2>1, IncludeFrames DEF IncludeFile
  <2>2. CASE Line.file \notin DOMAIN prog
    <3>1. Advance(Seg) /\ errors' /\ Line.op # "seg"
      BY <1>3, <2>2 DEF IncludeFile
    <3> QED
      BY <1>1, <2>2, <3>1, AdvanceFrames
  <2> QED
    BY <2>1, <2>2
<1>4. CASE Entry \/ Label \/ Declare \/ Data \/ Bad
  <2>1. Advance(Seg)
    BY <1>4 DEF Entry, Label, Declare, Data, Bad
  <2>2. Line.op # "include" /\ Line.op # "seg"
    BY <1>4 DEF Entry, Label, Declare, Data, Bad, IsData
  <2> QED
    BY <1>1, <2>1, <2>2, AdvanceFrames
<1> QED
  BY <1>2, <1>3, <1>4 DEF ProcessLine

LEMMA ProcessLineTypes ==
  ASSUME TypeInv, ProcessLine
  PROVE  TypeInv'
<1>1. /\ prog' = prog /\ stage' = stage /\ MoreLines
      /\ UNCHANGED <<start, todo, mem, reads>>
  BY DEF ProcessLine, written
<1>2. SymbolsType' /\ SymbolsGrow
  BY SymbolsStep
<1>3. FramesType'
  BY FramesStep
<1>4. LinesType'
  <2>1. CASE Data
    BY <1>1, <1>2, <2>1, DataLines
  <2>2. CASE ~Data
    <3>1. dls' = dls
      BY <2>2 DEF ProcessLine, Segment, Entry, Label, Declare, Bad, IncludeFile
    <3> QED
      BY <1>1, <1>2, <3>1, LinesStay
  <2> QED
    BY <2>1, <2>2
<1>5. errors' \in BOOLEAN
  <2>1. errors \in BOOLEAN
    BY DEF TypeInv
  <2> QED
    BY <2>1 DEF ProcessLine, Segment, Entry, Label, Declare, Data, Bad, IncludeFile, Outside
<1>6. entry' \in Address
  <2>1. <<Seg, SizeIn(Seg)>> \in Address
    BY TopFacts, DlsTypes DEF Address
  <2> QED
    BY <2>1 DEF ProcessLine, Segment, Entry, Label, Declare, Data, Bad, IncludeFile, TypeInv
<1>7. WrittenType'
  <2>1. stage = "lines" /\ reads = <<>> /\ mem = <<>>
    BY <1>1 DEF MoreLines, TypeInv, WrittenType
  <2>2. stage' = "lines" /\ reads' = <<>> /\ mem' = <<>>
    BY <1>1, <2>1
  <2>3. reads' \in Seq({}) /\ DOMAIN reads' = {}
    BY <2>2
  <2> QED
    BY <2>2, <2>3 DEF WrittenType
<1> QED
  BY <1>1, <1>2, <1>3, <1>4, <1>5, <1>6, <1>7 DEF TypeInv

LEMMA EndFileTypes ==
  ASSUME TypeInv, EndFile
  PROVE  TypeInv'
<1>1. /\ UNCHANGED <<prog, dls, entry, start, todo, mem, reads>> /\ UNCHANGED symbols
      /\ stage = "lines"
  BY DEF EndFile, written
<1>2. SymbolsType' /\ SymbolsGrow
  BY <1>1, SymbolsKept
<1>3. LinesType'
  BY <1>1, <1>2, LinesStay
<1>4. stage' \in {"lines", "resolve"} /\ errors' \in BOOLEAN
  BY <1>1 DEF EndFile, TypeInv, Outside
<1>5. FramesType'
  <2>1. CASE Len(frames) > 1
    BY <1>1, <2>1, ReturnFrames DEF EndFile
  <2>2. CASE ~(Len(frames) > 1)
    <3>1. Len(frames) = 1 /\ frames' = frames /\ Top.next > Len(prog[Top.file])
      BY <2>2, TopFacts DEF EndFile
    <3>2. Top' = Top
      BY <3>1 DEF Top
    <3> QED
      BY <1>1, <3>1, <3>2 DEF FramesType, TypeInv
  <2> QED
    BY <2>1, <2>2
<1>6. WrittenType'
  <2>1. reads = <<>> /\ mem = <<>>
    BY <1>1 DEF TypeInv, WrittenType
  <2>2. reads' = <<>> /\ mem' = <<>>
    BY <1>1, <2>1
  <2>3. reads' \in Seq({}) /\ DOMAIN reads' = {}
    BY <2>2
  <2> QED
    BY <1>4, <2>2, <2>3 DEF WrittenType
<1> QED
  BY <1>1, <1>2, <1>3, <1>4, <1>5, <1>6 DEF TypeInv, Stages

LEMMA FramesStay ==
  ASSUME TypeInv, stage # "lines", UNCHANGED <<prog, frames>>, stage' # "lines"
  PROVE  FramesType'
<1>1. Top' = Top
  BY DEF Top
<1> QED
  BY <1>1 DEF TypeInv, FramesType

LEMMA ResolveTypes ==
  ASSUME TypeInv, Resolve
  PROVE  TypeInv'
<1>1. /\ UNCHANGED <<prog, frames, dls, entry, errors, reads>> /\ UNCHANGED symbols
      /\ stage = "resolve" /\ start' = Starts(dls)
  BY DEF Resolve
<1>2. SymbolsType' /\ SymbolsGrow
  BY <1>1, SymbolsKept
<1>3. LinesType'
  BY <1>1, <1>2, LinesStay
<1>4. reads = <<>> /\ mem = <<>>
  BY <1>1 DEF TypeInv, WrittenType
<1>5. reads' \in Seq({}) /\ DOMAIN reads' = {} /\ reads' = <<>>
  BY <1>1, <1>4
<1>6. CASE stage' = "failed"
  <2>1. mem' = <<>>
    BY <1>4, <1>6 DEF Resolve
  <2>2. WrittenType'
    BY <1>5, <1>6, <2>1 DEF WrittenType
  <2>3. FramesType'
    BY <1>1, <1>6, FramesStay
  <2> QED
    BY <1>1, <1>2, <1>3, <1>6, <2>2, <2>3 DEF TypeInv, Stages
<1>7. CASE stage' # "failed"
  <2>1. /\ stage' = "emit" /\ ~errors
        /\ todo' = [t \in DOMAIN dls |-> dls[t].lines] /\ mem' = [t \in DOMAIN dls |-> <<>>]
    BY <1>7 DEF Resolve
  <2>2. start' = Starts(dls)
    BY <1>1
  <2>3. ASSUME NEW t \in DOMAIN dls
        PROVE  /\ todo'[t] \in Seq(DataOf(prog)) /\ Len(todo'[t]) <= Len(dls[t].lines)
               /\ \A i \in DOMAIN todo'[t] :
                    todo'[t][i] = dls[t].lines[Len(dls[t].lines) - Len(todo'[t]) + i]
    <3>1. todo'[t] = dls[t].lines /\ dls[t].lines \in Seq(DataOf(prog))
      BY <2>1, <2>3 DEF TypeInv, LinesType
    <3> QED
      BY <3>1
  <2>4. WrittenType'
    BY <1>1, <1>5, <2>1, <2>2, <2>3 DEF WrittenType
  <2>5. FramesType'
    BY <1>1, <2>1, FramesStay
  <2> QED
    BY <1>1, <1>2, <1>3, <2>1, <2>4, <2>5 DEF TypeInv, Stages
<1> QED
  BY <1>6, <1>7

\* The next line of segment t is written.
Emits(t) ==
  LET lines == dls[t].lines
      d     == lines[Len(lines) - Len(todo[t]) + 1]
  IN /\ t \in DOMAIN dls /\ Len(todo[t]) > 0
     /\ \A u \in DOMAIN dls : Rank[u] < Rank[t] => todo[u] = <<>>
     /\ DOMAIN todo' = DOMAIN dls /\ DOMAIN mem' = DOMAIN dls
     /\ \A u \in DOMAIN dls \ {t} : todo'[u] = todo[u] /\ mem'[u] = mem[u]
     /\ todo'[t] = Tail(todo[t]) /\ mem'[t] = mem[t] \o Cells(d)
     /\ reads' = IF d.ref = NoLabel THEN reads
                 ELSE Append(reads, [id |-> d.ref, seg |-> t, position |-> ReadPosition(t, d.line)])

LEMMA EmitFacts ==
  ASSUME TypeInv, EmitLine
  PROVE  /\ \E t \in DOMAIN dls : Emits(t)
         /\ UNCHANGED <<prog, stage, frames, dls, entry, errors, start>> /\ UNCHANGED symbols
<1>1. /\ UNCHANGED <<prog, stage, frames, dls, entry, errors, start>> /\ UNCHANGED symbols
      /\ stage = "emit"
  BY DEF EmitLine
<1>2. /\ DOMAIN todo = DOMAIN dls /\ DOMAIN mem = DOMAIN dls
      /\ \A t \in DOMAIN dls :
           /\ todo[t] \in Seq(DataOf(prog)) /\ Len(todo[t]) <= Len(dls[t].lines)
           /\ \A i \in DOMAIN todo[t] :
                todo[t][i] = dls[t].lines[Len(dls[t].lines) - Len(todo[t]) + i]
  BY <1>1 DEF TypeInv, WrittenType
<1>3. PICK t \in DOMAIN todo :
       /\ todo[t] # <<>>
       /\ \A u \in DOMAIN todo : Rank[u] < Rank[t] => todo[u] = <<>>
       /\ LET d == Head(todo[t])
              w == IF d.ref = NoLabel THEN Literal ELSE SymbolOf(d.ref).loc
          IN /\ mem' = [mem EXCEPT ![t] = @ \o
                  [x \in DOMAIN Bytes(d.line, w) |-> <<d.at, x - 1>> \o Bytes(d.line, w)[x]]]
             /\ reads' = IF d.ref = NoLabel THEN reads
                         ELSE Append(reads, [id |-> d.ref, seg |-> t,
                                             position |-> ReadPosition(t, d.line)])
       /\ todo' = [todo EXCEPT ![t] = Tail(@)]
  BY DEF EmitLine
<1> DEFINE d == Head(todo[t])
<1>4. t \in DOMAIN dls /\ todo[t] \in Seq(DataOf(prog)) /\ Len(todo[t]) > 0 /\ d = todo[t][1]
      /\ 1 \in DOMAIN todo[t]
  <2>1. t \in DOMAIN dls /\ todo[t] \in Seq(DataOf(prog)) /\ todo[t] # <<>>
    BY <1>2, <1>3
  <2>2. PICK s : s = todo[t]
    OBVIOUS
  <2>3. s \in Seq(DataOf(prog)) /\ s # <<>>
    BY <2>1, <2>2
  <2>4. Len(s) > 0 /\ Head(s) = s[1] /\ 1 \in DOMAIN s
    BY <2>3
  <2> QED
    BY <2>1, <2>2, <2>4
<1>5. d = dls[t].lines[Len(dls[t].lines) - Len(todo[t]) + 1]
  BY <1>2, <1>4
<1>6. mem' = [mem EXCEPT ![t] = mem[t] \o Cells(d)]
  BY <1>3 DEF Cells, WordOf
<1>7. reads' = IF d.ref = NoLabel THEN reads
               ELSE Append(reads, [id |-> d.ref, seg |-> t, position |-> ReadPosition(t, d.line)])
  BY <1>3
<1>8. todo' = [todo EXCEPT ![t] = Tail(todo[t])] /\ \A u \in DOMAIN todo : Rank[u] < Rank[t] => todo[u] = <<>>
  BY <1>3
<1> HIDE DEF d
<1>9. /\ DOMAIN todo' = DOMAIN dls /\ DOMAIN mem' = DOMAIN dls
      /\ \A u \in DOMAIN dls \ {t} : todo'[u] = todo[u] /\ mem'[u] = mem[u]
      /\ todo'[t] = Tail(todo[t]) /\ mem'[t] = mem[t] \o Cells(d)
  BY <1>2, <1>4, <1>6, <1>8
<1>10. Emits(t)
  BY <1>2, <1>4, <1>5, <1>7, <1>8, <1>9 DEF Emits
<1> QED
  BY <1>1, <1>4, <1>10

LEMMA RestIndex ==
  ASSUME NEW m \in Nat, NEW k \in Nat, 0 < m, m <= k
  PROVE  /\ k - m + 1 \in 1 .. k
         /\ \A i \in 1 .. m - 1 : i + 1 \in 1 .. m /\ k - m + (i + 1) = k - (m - 1) + i
OBVIOUS

LEMMA EmitLineTypes ==
  ASSUME TypeInv, EmitLine
  PROVE  TypeInv'
<1>1. /\ UNCHANGED <<prog, stage, frames, dls, entry, errors, start>> /\ UNCHANGED symbols
      /\ stage = "emit"
  BY EmitFacts DEF EmitLine
<1>2. PICK t \in DOMAIN dls : Emits(t)
  BY EmitFacts
<1>3. SymbolsType' /\ SymbolsGrow /\ labels' = labels
  BY <1>1, SymbolsKept DEF symbols
<1>4. LinesType' /\ FramesType'
  BY <1>1, <1>3, LinesStay, FramesStay
<1> DEFINE n == Len(dls[t].lines) - Len(todo[t])
           d == dls[t].lines[n + 1]
<1>5. /\ ~errors /\ start = Starts(dls) /\ DOMAIN todo = DOMAIN dls /\ DOMAIN mem = DOMAIN dls
      /\ \A u \in DOMAIN dls :
           /\ todo[u] \in Seq(DataOf(prog)) /\ Len(todo[u]) <= Len(dls[u].lines)
           /\ \A i \in DOMAIN todo[u] :
                todo[u][i] = dls[u].lines[Len(dls[u].lines) - Len(todo[u]) + i]
      /\ \A i \in DOMAIN reads : reads[i].id \in DOMAIN labels /\ reads[i].seg \in DOMAIN mem
      /\ \E S : reads \in Seq(S)
  BY <1>1 DEF TypeInv, WrittenType
<1>6. dls[t].lines \in Seq(DataOf(prog))
  BY <1>2 DEF TypeInv, LinesType
<1>7. PICK m \in Nat, k \in Nat : m = Len(todo[t]) /\ k = Len(dls[t].lines) /\ 0 < m /\ m <= k
  BY <1>2, <1>5, <1>6 DEF Emits
<1>8. n + 1 \in DOMAIN dls[t].lines
  <2>1. DOMAIN dls[t].lines = 1 .. k /\ n + 1 = k - m + 1
    BY <1>6, <1>7
  <2>2. k - m + 1 \in 1 .. k
    BY <1>7, RestIndex
  <2> HIDE DEF n
  <2> QED
    BY <2>1, <2>2
<1>9. Kept(prog, labels, d)
  BY <1>2, <1>8 DEF TypeInv, LinesType
<1>10. d.ref # NoLabel => d.ref \in DOMAIN labels
  BY <1>9 DEF Kept
<1>11. ASSUME NEW u \in DOMAIN dls
       PROVE  /\ todo'[u] \in Seq(DataOf(prog)) /\ Len(todo'[u]) <= Len(dls[u].lines)
              /\ \A i \in DOMAIN todo'[u] :
                   todo'[u][i] = dls[u].lines[Len(dls[u].lines) - Len(todo'[u]) + i]
  <2>1. CASE u = t
    <3>1. todo'[u] = Tail(todo[t])
      BY <1>2, <2>1 DEF Emits
    <3>2. /\ todo'[u] \in Seq(DataOf(prog)) /\ Len(todo'[u]) = m - 1
          /\ \A i \in 1 .. m - 1 : todo'[u][i] = todo[t][i + 1]
      BY <1>2, <1>5, <1>7, <3>1
    <3>3. ASSUME NEW i \in 1 .. m - 1 PROVE todo'[u][i] = dls[t].lines[k - (m - 1) + i]
      <4>1. i + 1 \in DOMAIN todo[t] /\ k - m + (i + 1) = k - (m - 1) + i
        <5>1. DOMAIN todo[t] = 1 .. m
          BY <1>2, <1>5, <1>7
        <5>2. i + 1 \in 1 .. m /\ k - m + (i + 1) = k - (m - 1) + i
          BY <1>7, <3>3, RestIndex
        <5> QED
          BY <5>1, <5>2
      <4> QED
        BY <1>2, <1>5, <1>7, <3>2, <4>1
    <3> QED
      <4>1. DOMAIN todo'[u] = 1 .. m - 1 /\ m - 1 <= k
        BY <1>7, <3>2
      <4> QED
        BY <1>7, <2>1, <3>2, <3>3, <4>1
  <2>2. CASE u # t
    <3>1. todo'[u] = todo[u]
      BY <1>2, <1>11, <2>2 DEF Emits
    <3> QED
      BY <1>5, <1>11, <3>1
  <2> QED
    BY <2>1, <2>2
<1>12. /\ \A i \in DOMAIN reads' : reads'[i].id \in DOMAIN labels /\ reads'[i].seg \in DOMAIN dls
       /\ \E S : reads' \in Seq(S)
  <2> DEFINE r == [id |-> d.ref, seg |-> t, position |-> ReadPosition(t, d.line)]
  <2>1. PICK S : reads \in Seq(S)
    BY <1>5
  <2>2. reads' = IF d.ref = NoLabel THEN reads ELSE Append(reads, r)
    BY <1>2 DEF Emits
  <2>3. r.id = d.ref /\ r.seg = t
    OBVIOUS
  <2> HIDE DEF r, d
  <2>4. reads \in Seq(S \cup {r})
    BY <2>1
  <2>5. reads' \in Seq(S \cup {r})
    BY <2>2, <2>4
  <2>6. CASE d.ref = NoLabel
    BY <1>5, <2>2, <2>5, <2>6
  <2>7. CASE d.ref # NoLabel
    <3>1. PICK q \in Nat : q = Len(reads)
      BY <2>1
    <3>2. /\ DOMAIN reads = 1 .. q /\ DOMAIN reads' = 1 .. q + 1 /\ reads'[q + 1] = r
          /\ \A i \in 1 .. q : reads'[i] = reads[i]
      BY <2>2, <2>4, <2>7, <3>1
    <3>3. ASSUME NEW i \in 1 .. q + 1
          PROVE  reads'[i].id \in DOMAIN labels /\ reads'[i].seg \in DOMAIN dls
      <4>1. CASE i = q + 1
        BY <1>2, <1>10, <2>3, <2>7, <3>2, <4>1
      <4>2. CASE i # q + 1
        <5>1. i \in 1 .. q
          BY <3>1, <3>3, <4>2
        <5> QED
          BY <1>5, <3>2, <5>1
      <4> QED
        BY <4>1, <4>2
    <3> QED
      BY <2>5, <3>2, <3>3
  <2> QED
    BY <2>6, <2>7
<1>13. start' = Starts(dls)
  BY <1>1, <1>5
<1>14. DOMAIN todo' = DOMAIN dls /\ DOMAIN mem' = DOMAIN dls
  BY <1>2 DEF Emits
<1>15. WrittenType'
  BY <1>1, <1>3, <1>5, <1>11, <1>12, <1>13, <1>14 DEF WrittenType
<1> QED
  BY <1>1, <1>3, <1>4, <1>15 DEF TypeInv

LEMMA EndEmitTypes ==
  ASSUME TypeInv, EndEmit
  PROVE  TypeInv'
<1>1. /\ UNCHANGED <<prog, frames, dls, entry, errors, start, todo, mem, reads>> /\ UNCHANGED symbols
      /\ stage = "emit" /\ stage' = "done" /\ \A t \in DOMAIN todo : todo[t] = <<>>
  BY DEF EndEmit, written
<1>2. SymbolsType' /\ SymbolsGrow /\ labels' = labels
  BY <1>1, SymbolsKept DEF symbols
<1>3. LinesType' /\ FramesType'
  BY <1>1, <1>2, LinesStay, FramesStay
<1>4. start' = Starts(dls)
  BY <1>1 DEF TypeInv, WrittenType
<1>5. WrittenType'
  BY <1>1, <1>2, <1>4 DEF TypeInv, WrittenType
<1> QED
  BY <1>1, <1>2, <1>3, <1>5 DEF TypeInv, Stages

LEMMA TypesStep ==
  ASSUME TypeInv, [Next]_vars
  PROVE  TypeInv'
<1>1. CASE Next
  BY <1>1, ProcessLineTypes, EndFileTypes, ResolveTypes, EmitLineTypes, EndEmitTypes DEF Next
<1>2. CASE UNCHANGED vars
  <2>1. /\ UNCHANGED <<prog, stage, frames, dls, entry, errors, start, todo, mem, reads>>
        /\ UNCHANGED symbols
    BY <1>2 DEF vars, written
  <2>2. SymbolsType' /\ SymbolsGrow /\ labels' = labels
    BY <2>1, SymbolsKept DEF symbols
  <2>3. LinesType'
    BY <2>1, <2>2, LinesStay
  <2>4. FramesType'
    <3>1. Top' = Top
      BY <2>1 DEF Top
    <3> QED
      BY <2>1, <3>1 DEF TypeInv, FramesType
  <2>6. WrittenType'
    BY <2>1, <2>2 DEF TypeInv, WrittenType
  <2> QED
    BY <2>1, <2>2, <2>3, <2>4, <2>6 DEF TypeInv
<1> QED
  BY <1>1, <1>2

LEMMA TypesInit ==
  ASSUME Init
  PROVE  TypeInv
<1>1. prog \in Programs /\ "main" \in DOMAIN prog /\ Len(prog["main"]) \in Nat
  BY ProgramFacts DEF Init
<1> DEFINE h == [file |-> "main", next |-> 1, seg |-> "unknown"]
<1>2. h \in FramesOf(prog) /\ InFile(prog, h) /\ h.file = "main"
  BY <1>1 DEF FramesOf, Types, InFile
<1>3. frames = <<h>> /\ stage = "lines"
  BY DEF Init
<1> HIDE DEF h
<1>4. frames \in Seq(FramesOf(prog)) /\ Len(frames) = 1 /\ frames[1] = h /\ DOMAIN frames = 1 .. 1
  BY <1>2, <1>3
<1>5. FramesType
  BY <1>2, <1>3, <1>4 DEF FramesType
<1>6. labels = <<>> /\ pos = <<>> /\ types = <<>> /\ dls = <<>> /\ reads = <<>> /\ mem = <<>>
      /\ entry = NoAddr /\ errors = FALSE
  BY DEF Init
<1>7. SymbolsType
  BY <1>6 DEF SymbolsType
<1>8. LinesType
  BY <1>6 DEF LinesType
<1>9. WrittenType
  <2>1. reads \in Seq({}) /\ DOMAIN reads = {}
    BY <1>6
  <2> QED
    BY <1>3, <1>6, <2>1 DEF WrittenType
<1> QED
  BY <1>1, <1>3, <1>5, <1>6, <1>7, <1>8, <1>9 DEF TypeInv, Stages, Address

\* The types that the runs check follow from the ones above.
LEMMA TypesImply ==
  ASSUME TypeInv
  PROVE  TypeOK
<1>1. stage \in Stages /\ errors \in BOOLEAN /\ Len(frames) > 0
  BY DEF TypeInv, FramesType
<1>2. \A i \in DOMAIN frames : frames[i].file \in DOMAIN prog
  <2>1. \A i \in DOMAIN frames : frames[i] \in FramesOf(prog)
    BY DEF TypeInv, FramesType
  <2> QED
    BY <2>1 DEF FramesOf
<1>3. /\ Len(pos) = Len(labels) /\ Len(types) = Len(labels)
      /\ \A i, m \in DOMAIN labels : labels[i] = labels[m] => i = m
  BY DEF TypeInv, SymbolsType
<1>4. \A t \in DOMAIN dls : dls[t].size \in 0 .. W - 1
  BY DEF TypeInv, LinesType
<1>5. \A i \in DOMAIN reads : reads[i].id \in DOMAIN labels /\ reads[i].seg \in DOMAIN mem
  BY DEF TypeInv, WrittenType
<1> QED
  BY <1>1, <1>2, <1>3, <1>4, <1>5 DEF TypeOK, Stages

\* The types of the state: the calls are of files there are, the columns of the
\* symbol table have one entry for each label and no label is there twice, a
\* size fits into a word, and what is read is a label in a segment.
THEOREM TypesHold == Spec => []TypeOK
<1>1. Init => TypeInv
  BY TypesInit
<1>2. TypeInv /\ [Next]_vars => TypeInv'
  BY TypesStep
<1>3. TypeInv => TypeOK
  BY TypesImply
<1> QED
  BY <1>1, <1>2, <1>3, PTL DEF Spec

----------------------------------------------------------------------------
(* 9. What was counted and what is written *)

DataLinesOnly(ls) == ls \in Seq(DataOf(prog)) /\ \A k \in DOMAIN ls : IsData(ls[k].line)

LEMMA LinesInData ==
  ASSUME TypeInv, NEW t
  PROVE  DataLinesOnly(LinesIn(t))
<1>1. LinesIn(t) \in Seq(DataOf(prog))
  BY DlsTypes
<1>2. CASE t \in DOMAIN dls
  BY <1>1, <1>2 DEF LinesIn, TypeInv, LinesType, Kept, DataLinesOnly
<1>3. CASE t \notin DOMAIN dls
  BY <1>1, <1>3 DEF LinesIn, DataLinesOnly
<1> QED
  BY <1>2, <1>3

LEMMA LineSizes ==
  ASSUME prog \in Programs, NEW ls, DataLinesOnly(ls), NEW k \in DOMAIN ls
  PROVE  LineSize(ls[k].line) \in Nat /\ IsData(ls[k].line) /\ ls[k].line \in LinesOf(prog)
<1>1. ls[k] \in DataOf(prog) /\ IsData(ls[k].line)
  BY DEF DataLinesOnly
<1>2. ls[k].line \in LinesOf(prog)
  BY <1>1 DEF DataOf
<1> QED
  BY <1>1, <1>2, LineBytes

LEMMA OffsetFacts ==
  ASSUME prog \in Programs, NEW ls, DataLinesOnly(ls)
  PROVE  /\ Offset(ls, 0) = 0
         /\ \A k \in 0 .. Len(ls) : Offset(ls, k) \in Nat
         /\ \A k \in 0 .. Len(ls) - 1 : Offset(ls, k + 1) = Offset(ls, k) + LineSize(ls[k + 1].line)
<1> DEFINE ss == [i \in DOMAIN ls |-> Blank(LineSize(ls[i].line))]
<1>1. PICK n \in Nat : n = Len(ls) /\ DOMAIN ls = 1 .. n
  BY DEF DataLinesOnly
<1>2. \A i \in 1 .. n : LineSize(ls[i].line) \in Nat
  BY <1>1, LineSizes
<1>3. \A i \in 1 .. n : ss[i] \in Seq({0}) /\ Len(ss[i]) = LineSize(ls[i].line)
  BY <1>1, <1>2 DEF Blank
<1>4. \A k : Offset(ls, k) = Total(ss, k)
  BY DEF Offset
<1> HIDE DEF ss
<1>5. ASSUME NEW k \in Nat, k + 1 \in 1 .. n
      PROVE  /\ Offset(ls, k) \in Nat /\ Offset(ls, k + 1) \in Nat
             /\ Offset(ls, k + 1) = Offset(ls, k) + LineSize(ls[k + 1].line)
  <2>1. \A i \in 1 .. k + 1 : ss[i] \in Seq({0})
    BY <1>3, <1>5
  <2>2. /\ Total(ss, k) \in Nat /\ Total(ss, k + 1) = Total(ss, k) + Len(ss[k + 1])
        /\ Total(ss, k + 1) \in Nat
    BY <2>1, TotalNext
  <2>3. Len(ss[k + 1]) = LineSize(ls[k + 1].line)
    BY <1>3, <1>5
  <2> QED
    BY <1>4, <2>2, <2>3
<1>6. Offset(ls, 0) = 0
  BY <1>4, TotalNone
<1>7. ASSUME NEW k \in 0 .. n PROVE Offset(ls, k) \in Nat
  <2>1. CASE k = 0
    BY <1>6, <2>1
  <2>2. CASE k # 0
    <3>1. PICK h \in Nat : k = h + 1
      <4>1. k - 1 \in Nat /\ k = (k - 1) + 1
        BY <1>7, <2>2
      <4> QED
        BY <4>1
    <3>2. h + 1 \in 1 .. n
      BY <1>1, <1>7, <3>1
    <3> QED
      BY <1>5, <3>1, <3>2
  <2> QED
    BY <2>1, <2>2
<1>8. ASSUME NEW k \in 0 .. n - 1 PROVE Offset(ls, k + 1) = Offset(ls, k) + LineSize(ls[k + 1].line)
  <2>1. k \in Nat /\ k + 1 \in 1 .. n
    BY <1>1, <1>8
  <2> QED
    BY <1>5, <2>1
<1> QED
  BY <1>1, <1>6, <1>7, <1>8

\* A line more does not change where the others are.
LEMMA OffsetAppend ==
  ASSUME prog \in Programs, NEW ls, DataLinesOnly(ls), NEW d \in DataOf(prog), IsData(d.line)
  PROVE  /\ DataLinesOnly(Append(ls, d)) /\ Len(Append(ls, d)) = Len(ls) + 1
         /\ \A k \in 0 .. Len(ls) : Offset(Append(ls, d), k) = Offset(ls, k)
         /\ Offset(Append(ls, d), Len(ls) + 1) = Offset(ls, Len(ls)) + LineSize(d.line)
<1> DEFINE rs == Append(ls, d)
<1>1. PICK n \in Nat : n = Len(ls) /\ DOMAIN ls = 1 .. n
  BY DEF DataLinesOnly
<1>2. /\ rs \in Seq(DataOf(prog)) /\ Len(rs) = n + 1 /\ DOMAIN rs = 1 .. n + 1 /\ rs[n + 1] = d
      /\ \A i \in 1 .. n : rs[i] = ls[i]
  BY <1>1 DEF DataLinesOnly
<1> HIDE DEF rs
<1>3. DataLinesOnly(rs)
  <2>1. ASSUME NEW k \in 1 .. n + 1 PROVE IsData(rs[k].line)
    <3>1. CASE k = n + 1
      BY <1>2, <3>1
    <3>2. CASE k # n + 1
      <4>1. k \in 1 .. n
        BY <1>1, <2>1, <3>2
      <4> QED
        BY <1>1, <1>2, <4>1 DEF DataLinesOnly
    <3> QED
      BY <3>1, <3>2
  <2> QED
    BY <1>2, <2>1 DEF DataLinesOnly
<1>4. ASSUME NEW k \in 0 .. n PROVE Offset(rs, k) = Offset(ls, k)
  <2> DEFINE a == [i \in DOMAIN rs |-> Blank(LineSize(rs[i].line))]
             b == [i \in DOMAIN ls |-> Blank(LineSize(ls[i].line))]
  <2>1. \A i \in 1 .. k : i \in 1 .. n
    BY <1>1, <1>4
  <2>2. \A i \in 1 .. k : a[i] = b[i]
    BY <1>1, <1>2, <2>1
  <2> HIDE DEF a, b
  <2>3. [i \in 1 .. k |-> a[i]] = [i \in 1 .. k |-> b[i]]
    BY <2>2
  <2>4. Total(a, k) = Total(b, k)
    BY <2>3 DEF Total
  <2> QED
    BY <2>4 DEF Offset, a, b
<1>5. Offset(rs, n + 1) = Offset(rs, n) + LineSize(rs[n + 1].line)
  <2>1. n \in 0 .. Len(rs) - 1
    BY <1>1, <1>2
  <2> QED
    BY <1>3, <2>1, OffsetFacts
<1> QED
  BY <1>1, <1>2, <1>3, <1>4, <1>5 DEF rs

\* The size of a segment is where its next line will be.
LEMMA CountedIn ==
  ASSUME TypeInv, Counted, NEW t
  PROVE  SizeIn(t) = Offset(LinesIn(t), Len(LinesIn(t)))
<1>1. CASE t \in DOMAIN dls
  BY <1>1 DEF Counted, SizeIn, LinesIn
<1>2. CASE t \notin DOMAIN dls
  <2>1. LinesIn(t) = <<>> /\ SizeIn(t) = 0
    BY <1>2 DEF SizeIn, LinesIn
  <2>2. Offset(LinesIn(t), 0) = 0
    BY LinesInData, OffsetFacts DEF TypeInv
  <2> QED
    BY <2>1, <2>2
<1> QED
  BY <1>1, <1>2

LEMMA CountedStep ==
  ASSUME TypeInv, Counted, LayoutFits, [Next]_vars
  PROVE  Counted'
<1>1. CASE ProcessLine /\ Data
  <2>1. PICK d : Added(d)
    BY <1>1, SymbolsStep, DataLines DEF ProcessLine
  <2>2. MoreLines /\ IsData(Line)
    BY <1>1 DEF ProcessLine, Data
  <2>3. SizeIn(Seg) + LineSize(Line) < W
    BY <2>2 DEF LayoutFits
  <2>4. PICK s \in Nat, z \in Nat : s = SizeIn(Seg) /\ z = LineSize(Line)
    BY <2>2, DlsTypes, TopFacts, LineBytes DEF TypeInv
  <2>5. s + z \in 0 .. W - 1 /\ W \in Nat \ {0}
    BY <2>3, <2>4, Numbers
  <2>6. (s + z) % W = s + z
    BY <2>5, Remainder
  <2>7. s = Offset(LinesIn(Seg), Len(LinesIn(Seg)))
    BY <2>4, CountedIn
  <2>8. d \in DataOf(prog) /\ IsData(d.line) /\ d.line = Line
    BY <2>1, <2>2 DEF Added
  <2>9. /\ Len(Append(LinesIn(Seg), d)) = Len(LinesIn(Seg)) + 1
        /\ Offset(Append(LinesIn(Seg), d), Len(LinesIn(Seg)) + 1)
             = Offset(LinesIn(Seg), Len(LinesIn(Seg))) + LineSize(d.line)
    BY <2>8, LinesInData, OffsetAppend DEF TypeInv
  <2>10. dls'[Seg].size = Offset(dls'[Seg].lines, Len(dls'[Seg].lines))
    <3>1. dls'[Seg].lines = Append(LinesIn(Seg), d) /\ dls'[Seg].size = (SizeIn(Seg) + LineSize(Line)) % W
      BY <2>1 DEF Added
    <3>2. dls'[Seg].size = s + z
      BY <2>4, <2>6, <3>1
    <3>3. Offset(Append(LinesIn(Seg), d), Len(Append(LinesIn(Seg), d))) = s + z
      BY <2>4, <2>7, <2>8, <2>9
    <3> QED
      BY <3>1, <3>2, <3>3
  <2>11. ASSUME NEW t \in DOMAIN dls'
         PROVE  dls'[t].size = Offset(dls'[t].lines, Len(dls'[t].lines))
    <3>1. CASE t = Seg
      BY <2>10, <3>1
    <3>2. CASE t # Seg
      <4>1. t \in DOMAIN dls /\ dls'[t] = dls[t]
        BY <2>1, <2>11, <3>2 DEF Added
      <4> QED
        BY <4>1 DEF Counted
    <3> QED
      BY <3>1, <3>2
  <2> QED
    BY <2>11 DEF Counted
<1>2. CASE ~(ProcessLine /\ Data)
  <2>1. dls' = dls
    <3>1. CASE ProcessLine
      BY <1>2, <3>1 DEF ProcessLine, Segment, Entry, Label, Declare, Bad, IncludeFile
    <3>2. CASE EndFile \/ Resolve \/ EmitLine \/ EndEmit
      BY <3>2 DEF EndFile, Resolve, EmitLine, EndEmit
    <3>3. CASE UNCHANGED vars
      BY <3>3 DEF vars
    <3> QED
      BY <3>1, <3>2, <3>3 DEF Next
  <2> QED
    BY <2>1 DEF Counted
<1> QED
  BY <1>1, <1>2

LEMMA CellsLength ==
  ASSUME prog \in Programs, NEW d \in DataOf(prog), IsData(d.line)
  PROVE  /\ LineSize(d.line) \in Nat /\ DOMAIN Cells(d) = 1 .. LineSize(d.line)
         /\ Len(Cells(d)) = LineSize(d.line) /\ \E S : Cells(d) \in Seq(S)
<1>1. d.line \in LinesOf(prog)
  BY DEF DataOf
<1>2. PICK n \in Nat : n = LineSize(d.line) /\ DOMAIN Bytes(d.line, WordOf(d)) = 1 .. n
  BY <1>1, LineBytes
<1> DEFINE c == Cells(d)  S == {c[x] : x \in 1 .. n}
<1>3. c = [x \in 1 .. n |-> c[x]]
  BY <1>2 DEF Cells
<1> HIDE DEF c
<1>4. \A x \in 1 .. n : c[x] \in S
  OBVIOUS
<1> HIDE DEF S
<1>5. c \in Seq(S) /\ Len(c) = n /\ DOMAIN c = 1 .. n
  BY <1>3, <1>4
<1> QED
  BY <1>2, <1>5 DEF c

\* Where the elements of a sequence are that is put together of two.
Joins(r, s, n, t, k) ==
  /\ DOMAIN r = 1 .. n + k /\ Len(r) = n + k
  /\ \A p \in 1 .. n : r[p] = s[p]
  /\ \A x \in 1 .. k : r[n + x] = t[x]

LEMMA JoinedFacts ==
  ASSUME NEW S, NEW s \in Seq(S), NEW t \in Seq(S), NEW n \in Nat, NEW k \in Nat,
         Len(s) = n, Len(t) = k
  PROVE  s \o t \in Seq(S) /\ Joins(s \o t, s, n, t, k)
<1> DEFINE r == s \o t
<1>1. /\ r \in Seq(S) /\ Len(r) = n + k
      /\ \A p \in 1 .. n + k : r[p] = IF p <= n THEN s[p] ELSE t[p - n]
  OBVIOUS
<1> HIDE DEF r
<1>2. ASSUME NEW x \in 1 .. k
      PROVE  r[n + x] = t[x]
  <2>1. n + x \in 1 .. n + k /\ ~(n + x <= n) /\ (n + x) - n = x
    OBVIOUS
  <2> QED
    BY <1>1, <2>1
<1>3. \A p \in 1 .. n : p \in 1 .. n + k /\ p <= n
  OBVIOUS
<1>4. Joins(r, s, n, t, k)
  BY <1>1, <1>2, <1>3 DEF Joins
<1> QED
  BY <1>1, <1>4 DEF r

\* One line more is written.
LEMMA LineWritten ==
  ASSUME TypeInv, NEW ls, DataLinesOnly(ls), NEW n \in Nat, n + 1 <= Len(ls), NEW m,
         SegmentWritten(ls, CellsOf(ls), n, m)
  PROVE  SegmentWritten(ls, CellsOf(ls), n + 1, m \o Cells(ls[n + 1]))
<1> DEFINE d == ls[n + 1]
           c == Cells(d)
           r == m \o c
<1>21. PICK cs : cs = CellsOf(ls)
  OBVIOUS
<1>22. SegmentWritten(ls, cs, n, m)
  BY <1>21
<1>0. n + 1 \in DOMAIN ls /\ n \in 0 .. Len(ls) - 1 /\ \A k \in 1 .. n + 1 : k \in DOMAIN ls
  BY DEF DataLinesOnly
<1>1. d \in DataOf(prog) /\ IsData(d.line)
  BY <1>0 DEF DataLinesOnly
<1>23. cs[n + 1] = c
  BY <1>0, <1>21 DEF CellsOf
<1> HIDE DEF d
<1>11. PICK S : c \in Seq(S)
  BY <1>1, CellsLength DEF TypeInv
<1>12. PICK z \in Nat : z = LineSize(d.line) /\ Len(c) = z /\ DOMAIN c = 1 .. z
  BY <1>1, CellsLength DEF TypeInv
<1> HIDE DEF c
<1>13. PICK T : m \in Seq(T)
  BY <1>22 DEF SegmentWritten
<1>14. PICK q \in Nat : Len(m) = q /\ q = Offset(ls, n)
  BY <1>13, <1>22 DEF SegmentWritten
<1>2. c \in Seq(S) /\ Len(c) = z /\ DOMAIN c = 1 .. z /\ z = LineSize(d.line)
  BY <1>11, <1>12
<1>3. m \in Seq(T) /\ Len(m) = q /\ q = Offset(ls, n)
  BY <1>13, <1>14
<1>15. PICK U : m \in Seq(U) /\ c \in Seq(U)
  <2>1. m \in Seq(S \cup T) /\ c \in Seq(S \cup T)
    BY <1>2, <1>3
  <2> QED
    BY <2>1
<1>4. m \o c \in Seq(U) /\ Joins(m \o c, m, q, c, z)
  <2>1. m \in Seq(U) /\ c \in Seq(U) /\ Len(m) = q /\ Len(c) = z /\ q \in Nat /\ z \in Nat
    BY <1>2, <1>3, <1>12, <1>14, <1>15
  <2> QED
    BY <2>1, JoinedFacts, Zenon
<1> HIDE DEF r
<1>5. /\ r \in Seq(U) /\ Len(r) = q + z /\ DOMAIN r = 1 .. q + z
      /\ \A p \in 1 .. q : r[p] = m[p]
      /\ \A x \in 1 .. z : r[q + x] = c[x]
  <2>1. r \in Seq(U) /\ Joins(r, m, q, c, z)
    BY <1>4 DEF r
  <2> QED
    BY <2>1 DEF Joins
<1> HIDE DEF r
<1>6. Offset(ls, n + 1) = q + z
  BY <1>0, <1>2, <1>3, OffsetFacts DEF TypeInv, d
<1>7. ASSUME NEW k \in 1 .. n + 1
      PROVE  /\ Offset(ls, k) <= q + z
             /\ \A x \in 1 .. LineSize(ls[k].line) : r[Offset(ls, k - 1) + x] = cs[k][x]
  <2>1. CASE k = n + 1
    <3>1. k - 1 = n /\ ls[k] = d
      BY <2>1 DEF d
    <3>2. cs[k] = c /\ Offset(ls, k - 1) = q /\ Offset(ls, k) = q + z /\ LineSize(ls[k].line) = z
      BY <1>2, <1>3, <1>6, <1>23, <2>1, <3>1
    <3> QED
      BY <1>5, <3>2
  <2>2. CASE k # n + 1
    <3>1. k \in 1 .. n
      BY <1>7, <2>2
    <3>2. /\ Offset(ls, k) <= q
          /\ \A x \in 1 .. LineSize(ls[k].line) : m[Offset(ls, k - 1) + x] = cs[k][x]
      BY <1>3, <1>22, <3>1 DEF SegmentWritten
    <3>3. PICK h \in Nat : k = h + 1 /\ h = k - 1 /\ h \in 0 .. Len(ls) - 1
      <4>1. k - 1 \in Nat /\ k = (k - 1) + 1 /\ k - 1 \in 0 .. Len(ls) - 1
        BY <1>0, <3>1
      <4> QED
        BY <4>1
    <3>4. PICK o \in Nat, y \in Nat : /\ o = Offset(ls, h) /\ y = LineSize(ls[k].line)
                                     /\ Offset(ls, k) = o + y
      <4>1. Offset(ls, h) \in Nat /\ Offset(ls, h + 1) = Offset(ls, h) + LineSize(ls[h + 1].line)
        BY <3>3, OffsetFacts DEF TypeInv
      <4>2. LineSize(ls[k].line) \in Nat
        BY <1>0, <1>7, LineSizes DEF TypeInv
      <4> QED
        BY <3>3, <4>1, <4>2
    <3>5. o + y <= q
      BY <3>2, <3>4
    <3>6. ASSUME NEW x \in 1 .. y PROVE r[o + x] = cs[k][x]
      <4>1. o + x \in 1 .. q
        <5>1. x \in Nat /\ 1 <= x /\ x <= y
          BY <3>4, <3>6
        <5>2. o \in Nat /\ y \in Nat /\ q \in Nat
          BY <1>14, <3>4
        <5>3. \A a, b, e, p \in Nat : 1 <= p /\ p <= b /\ a + b <= e => a + p \in 1 .. e
          OBVIOUS
        <5> QED
          BY <3>5, <5>1, <5>2, <5>3, Zenon
      <4>2. m[o + x] = cs[k][x]
        BY <3>2, <3>3, <3>4
      <4> QED
        BY <1>5, <4>1, <4>2
    <3>7. Offset(ls, k) <= q + z
      BY <1>2, <1>3, <3>4, <3>5
    <3> QED
      BY <3>3, <3>4, <3>6, <3>7
  <2> QED
    BY <2>1, <2>2
<1>8. ASSUME NEW p \in 1 .. q + z
      PROVE  \E k \in 1 .. n + 1 : \E x \in 1 .. LineSize(ls[k].line) : p = Offset(ls, k - 1) + x
  <2>1. CASE p <= q
    <3>1. p \in DOMAIN m
      BY <1>3, <1>8, <2>1
    <3>2. PICK k \in 1 .. n : \E x \in 1 .. LineSize(ls[k].line) : p = Offset(ls, k - 1) + x
      BY <1>22, <3>1 DEF SegmentWritten
    <3>3. k \in 1 .. n + 1
      BY <3>2
    <3> QED
      BY <3>2, <3>3
  <2>2. CASE ~(p <= q)
    <3>1. PICK x \in 1 .. z : p = q + x
      <4>1. p - q \in 1 .. z /\ p = q + (p - q)
        BY <1>2, <1>3, <1>8, <2>2
      <4> QED
        BY <4>1
    <3>2. n + 1 \in 1 .. n + 1 /\ (n + 1) - 1 = n
      OBVIOUS
    <3>3. p = Offset(ls, (n + 1) - 1) + x /\ x \in 1 .. LineSize(ls[n + 1].line)
      BY <1>2, <1>3, <3>1, <3>2 DEF d
    <3> QED
      BY <3>2, <3>3
  <2> QED
    BY <2>1, <2>2
<1>9. SegmentWritten(ls, cs, n + 1, r)
  BY <1>5, <1>6, <1>7, <1>8 DEF SegmentWritten
<1> QED
  BY <1>9, <1>21 DEF r, c, d

\* What is written stays what the lines stand for.
LEMMA CellsStay ==
  ASSUME UNCHANGED symbols, start' = start, NEW ls
  PROVE  CellsOf(ls)' = CellsOf(ls)
<1>1. labels' = labels /\ pos' = pos /\ types' = types
  BY DEF symbols
<1>2. \A i : SymbolOf(i)' = SymbolOf(i)
  BY <1>1 DEF SymbolOf, StartOf
<1>3. \A d : WordOf(d)' = WordOf(d)
  BY <1>2 DEF WordOf
<1>4. \A d : Cells(d)' = Cells(d)
  BY <1>3 DEF Cells
<1> QED
  BY <1>4 DEF CellsOf

LEMMA WrittenStep ==
  ASSUME TypeInv, BytesWritten, [Next]_vars
  PROVE  BytesWritten'
<1>1. CASE Resolve
  <2> SUFFICES ASSUME stage' \in {"emit", "done"}, NEW t \in DOMAIN dls'
               PROVE  SegmentWritten(dls[t].lines, CellsOf(dls[t].lines),
                                     Len(dls[t].lines) - Len(todo[t]), mem[t])'
    BY DEF BytesWritten
  <2>1. dls' = dls /\ todo'[t] = dls[t].lines /\ mem'[t] = <<>> /\ t \in DOMAIN dls
    BY <1>1 DEF Resolve
  <2>2. DataLinesOnly(dls[t].lines)
    BY <2>1, LinesInData DEF LinesIn
  <2>3. Len(dls[t].lines) \in Nat /\ Offset(dls[t].lines, 0) = 0
    BY <2>2, OffsetFacts DEF DataLinesOnly, TypeInv
  <2>4. PICK m, n : m = mem'[t] /\ n = (Len(dls[t].lines) - Len(todo[t]))'
    OBVIOUS
  <2>5. m = <<>> /\ n = 0
    BY <2>1, <2>3, <2>4
  <2>6. m \in Seq({}) /\ Len(m) = 0 /\ DOMAIN m = {}
    BY <2>5
  <2>7. PICK ls, cs : ls = dls'[t].lines /\ cs = CellsOf(dls[t].lines)'
    OBVIOUS
  <2>8. Offset(ls, 0) = 0
    BY <2>1, <2>3, <2>7
  <2>9. \A k \in 1 .. n : FALSE
    BY <2>5
  <2>10. SegmentWritten(ls, cs, n, m)
    BY <2>5, <2>6, <2>8, <2>9 DEF SegmentWritten
  <2> QED
    BY <2>4, <2>7, <2>10
<1>2. CASE EmitLine
  <2>1. /\ UNCHANGED <<prog, stage, frames, dls, entry, errors, start>> /\ UNCHANGED symbols
        /\ stage = "emit"
    BY <1>2, EmitFacts DEF EmitLine
  <2>2. PICK t \in DOMAIN dls : Emits(t)
    BY <1>2, EmitFacts
  <2> SUFFICES ASSUME NEW u \in DOMAIN dls
               PROVE  SegmentWritten(dls[u].lines, CellsOf(dls[u].lines),
                                     Len(dls[u].lines) - Len(todo[u]), mem[u])'
    BY <2>1 DEF BytesWritten
  <2>3. PICK ls : ls = dls[u].lines
    OBVIOUS
  <2>4. CellsOf(dls[u].lines)' = CellsOf(ls)
    <3>1. CellsOf(ls)' = CellsOf(ls)
      BY <2>1, CellsStay
    <3> QED
      BY <2>1, <2>3, <3>1
  <2>5. DataLinesOnly(ls)
    BY <2>3, LinesInData DEF LinesIn
  <2>6. PICK k \in Nat, r \in Nat : k = Len(ls) /\ r = Len(todo[u]) /\ r <= k
    <3>1. Len(todo[u]) \in Nat /\ Len(todo[u]) <= Len(dls[u].lines)
      BY <2>1 DEF TypeInv, WrittenType
    <3> QED
      BY <2>3, <2>5, <3>1 DEF DataLinesOnly
  <2>7. SegmentWritten(ls, CellsOf(ls), k - r, mem[u])
    BY <2>1, <2>3, <2>6 DEF BytesWritten
  <2>8. CASE u # t
    <3>1. todo'[u] = todo[u] /\ mem'[u] = mem[u]
      BY <2>2, <2>8 DEF Emits
    <3> QED
      BY <2>1, <2>3, <2>4, <2>6, <2>7, <3>1
  <2>9. CASE u = t
    <3>1. todo'[u] = Tail(todo[u]) /\ mem'[u] = mem[u] \o Cells(ls[k - r + 1]) /\ r > 0
      BY <2>2, <2>3, <2>6, <2>9 DEF Emits
    <3>2. Len(todo'[u]) = r - 1
      <4>1. todo[u] \in Seq(DataOf(prog))
        BY <2>1 DEF TypeInv, WrittenType
      <4>2. PICK s : s = todo[u]
        OBVIOUS
      <4> QED
        BY <2>6, <3>1, <4>1, <4>2
    <3>3. PICK n \in Nat : n = k - r /\ n + 1 = k - (r - 1) /\ n + 1 <= k
      <4>1. r > 0
        BY <3>1
      <4>2. k - r \in Nat /\ (k - r) + 1 = k - (r - 1) /\ (k - r) + 1 <= k
        BY <2>6, <4>1
      <4> QED
        BY <4>2
    <3>4. PICK m : m = mem[u]
      OBVIOUS
    <3>5. SegmentWritten(ls, CellsOf(ls), n + 1, m \o Cells(ls[n + 1]))
      BY <2>5, <2>6, <2>7, <3>3, <3>4, LineWritten
    <3> QED
      BY <2>1, <2>3, <2>4, <2>6, <3>1, <3>2, <3>3, <3>4, <3>5
  <2> QED
    BY <2>8, <2>9
<1>3. CASE stage' \notin {"emit", "done"}
  BY <1>3 DEF BytesWritten
<1>4. CASE EndEmit \/ UNCHANGED vars
  <2>1. UNCHANGED <<dls, start, todo, mem>> /\ UNCHANGED symbols
    BY <1>4 DEF EndEmit, vars, written
  <2> SUFFICES ASSUME stage' \in {"emit", "done"}, NEW t \in DOMAIN dls
               PROVE  SegmentWritten(dls[t].lines, CellsOf(dls[t].lines),
                                     Len(dls[t].lines) - Len(todo[t]), mem[t])'
    BY <2>1 DEF BytesWritten
  <2>2. stage \in {"emit", "done"}
    BY <1>4 DEF EndEmit, vars
  <2>3. PICK ls : ls = dls[t].lines
    OBVIOUS
  <2>4. CellsOf(ls)' = CellsOf(ls)
    BY <2>1, CellsStay
  <2>5. SegmentWritten(ls, CellsOf(ls), Len(ls) - Len(todo[t]), mem[t])
    BY <2>2, <2>3 DEF BytesWritten
  <2> QED
    BY <2>1, <2>3, <2>4, <2>5
<1>5. CASE ProcessLine \/ EndFile
  <2>1. stage' \notin {"emit", "done"}
    BY <1>5 DEF ProcessLine, EndFile, MoreLines
  <2> QED
    BY <1>3, <2>1
<1> QED
  BY <1>1, <1>2, <1>4, <1>5 DEF Next

----------------------------------------------------------------------------
(* 10. The places of the segments *)

LEMMA AlignFacts ==
  ASSUME NEW a \in Nat
  PROVE  AlignEnd(a) \in Nat /\ AlignEnd(a) >= a /\ AlignEnd(a) % PageSize = 0
<1>1. PageSize \in Nat \ {0}
  BY Numbers
<1> DEFINE q == a \div PageSize  r == a % PageSize
<1>2. q \in Int /\ r \in 0 .. PageSize - 1 /\ a = PageSize * q + r
  BY <1>1, Division
<1>3. CASE r = 0
  BY <1>3 DEF AlignEnd
<1>4. CASE r # 0
  <2>1. AlignEnd(a) = a + (PageSize - r)
    BY <1>4 DEF AlignEnd
  <2> HIDE DEF q, r
  <2>2. a + (PageSize - r) = 0 + (q + 1) * PageSize /\ a + (PageSize - r) \in Nat
        /\ a + (PageSize - r) >= a
    BY <1>1, <1>2
  <2>3. (0 + (q + 1) * PageSize) % PageSize = 0 % PageSize
    BY <1>1, <1>2, Congruence
  <2>4. 0 % PageSize = 0
    BY <1>1, Remainder
  <2> QED
    BY <2>1, <2>2, <2>3, <2>4
<1> QED
  BY <1>3, <1>4

LEMMA FirstPage ==
  AlignEnd(PageSize) = PageSize /\ PageSize % PageSize = 0 /\ PageSize \in Nat
<1>1. PageSize \in Nat \ {0} /\ PageSize \in PageSize .. 2 * PageSize - 1
  BY Numbers
<1>2. PageSize % PageSize = PageSize - PageSize
  BY <1>1, Remainder
<1> QED
  BY <1>1, <1>2 DEF AlignEnd

\* The layout of segments D with sizes sz fits into the address space.
Fits(D, st, sz) ==
  /\ D \subseteq Types /\ \A u \in D : sz[u] \in Nat /\ st[u] + sz[u] < W
  /\ \A u \in D : (\E v \in D : Rank[u] < Rank[v]) => AlignEnd(st[u] + sz[u]) < W

\* All segments before t end at a or before.
Before(D, st, sz, t, a) ==
  /\ a \in Nat /\ PageSize <= a
  /\ a = PageSize \/ \E u \in D : Rank[u] < Rank[t] /\ a = st[u] + sz[u]
  /\ \A u \in D : Rank[u] < Rank[t] => st[u] \in Nat /\ st[u] + sz[u] <= a

\* Segment t starts at a page behind all segments before it.
Placed(D, st, sz, t) ==
  /\ st[t] \in Nat /\ st[t] >= PageSize /\ st[t] % PageSize = 0
  /\ \A u \in D : Rank[u] < Rank[t] => st[u] + sz[u] <= st[t]

LEMMA OnePlaced ==
  ASSUME NEW D, NEW st, NEW sz, Fits(D, st, sz), NEW t \in D, NEW a, Before(D, st, sz, t, a),
         st[t] = AlignEnd(a) % W
  PROVE  Placed(D, st, sz, t)
<1>1. a \in Nat /\ PageSize \in Nat /\ W \in Nat \ {0} /\ PageSize <= a /\ PageSize < W
  BY Numbers DEF Before
<1>2. PICK b \in Nat : b = AlignEnd(a) /\ b >= a /\ b % PageSize = 0
  BY <1>1, AlignFacts
<1>3. b < W
  <2>1. CASE a = PageSize
    BY <1>1, <1>2, <2>1, FirstPage
  <2>2. CASE a # PageSize
    BY <1>2, <2>2 DEF Before, Fits
  <2> QED
    BY <2>1, <2>2
<1>4. b \in 0 .. W - 1
  BY <1>1, <1>2, <1>3
<1>5. st[t] = b
  BY <1>1, <1>2, <1>4, Remainder
<1>6. b >= PageSize
  BY <1>1, <1>2
<1>7. ASSUME NEW u \in D, Rank[u] < Rank[t]
      PROVE  st[u] + sz[u] <= b
  <2>1. PICK k \in Nat : k = st[u] + sz[u] /\ k <= a
    BY <1>7 DEF Before, Fits
  <2>2. CASE a = PageSize
    BY <2>1, <2>2, <1>2, <1>1, FirstPage
  <2>3. CASE a # PageSize
    <3>1. PICK v \in D : Rank[v] < Rank[t] /\ a = st[v] + sz[v]
      BY <2>3 DEF Before
    <3> QED
      BY <1>1, <1>2, <2>1, <3>1
  <2> QED
    BY <2>2, <2>3
<1> QED
  BY <1>2, <1>5, <1>6, <1>7 DEF Placed

\* The next type of segment.
LEMMA OneFollows ==
  ASSUME NEW D, NEW st, NEW sz, Fits(D, st, sz), NEW t \in Types, NEW a, Before(D, st, sz, t, a),
         t \in D => st[t] = AlignEnd(a) % W /\ Placed(D, st, sz, t),
         NEW t2 \in Types, \A u \in Types : Rank[u] < Rank[t2] <=> Rank[u] < Rank[t] \/ u = t,
         NEW e, e = IF t \in D THEN ((AlignEnd(a) % W) + sz[t]) % W ELSE a
  PROVE  Before(D, st, sz, t2, e)
<1>1. CASE t \notin D
  <2>1. e = a /\ \A u \in D : u \in Types /\ u # t
    BY <1>1 DEF Fits
  <2> QED
    BY <2>1 DEF Before
<1>2. CASE t \in D
  <2>1. PICK s \in Nat : s = st[t] /\ s >= PageSize
    BY <1>2 DEF Placed
  <2>2. PICK z \in Nat : z = sz[t] /\ s + z < W
    BY <1>2, <2>1 DEF Fits
  <2>3. PageSize \in Nat /\ W \in Nat \ {0} /\ s + z \in 0 .. W - 1
    BY <2>1, <2>2, Numbers
  <2>4. (s + z) % W = s + z
    BY <2>3, Remainder
  <2>5. e = s + z
    BY <1>2, <2>1, <2>2, <2>4
  <2>6. e \in Nat /\ PageSize <= e /\ s <= e
    BY <2>1, <2>2, <2>3, <2>5
  <2>7. Rank[t] < Rank[t2] /\ e = st[t] + sz[t]
    BY <2>1, <2>2, <2>5
  <2>8. ASSUME NEW u \in D, Rank[u] < Rank[t2]
        PROVE  st[u] \in Nat /\ st[u] + sz[u] <= e
    <3>1. CASE u = t
      BY <2>1, <2>5, <2>6, <2>7, <3>1
    <3>2. CASE u # t
      <4>1. u \in Types /\ Rank[u] < Rank[t]
        BY <2>8, <3>2 DEF Fits
      <4>2. PICK k \in Nat : k = st[u] + sz[u] /\ st[u] \in Nat
        BY <4>1 DEF Fits, Before
      <4>3. k <= s
        BY <1>2, <2>1, <4>1, <4>2 DEF Placed
      <4> QED
        BY <2>1, <2>6, <4>2, <4>3
    <3> QED
      BY <3>1, <3>2
  <2> QED
    BY <1>2, <2>6, <2>7, <2>8 DEF Before
<1> QED
  BY <1>1, <1>2

\* Every segment is placed behind the ones before it.
LEMMA AllPlaced ==
  ASSUME TypeInv, LayoutFits, start = Starts(dls), NEW st, st = start,
         NEW D, D = DOMAIN dls, NEW sz, sz = [t \in D |-> dls[t].size]
  PROVE  DOMAIN st = D /\ \A t \in D : Placed(D, st, sz, t)
<1> DEFINE At(last)     == AlignEnd(last) % W
           End(t, last) == IF t \in D THEN (At(last) + sz[t]) % W ELSE last
<1>1. PICK rodata : rodata = End("data", PageSize)
  OBVIOUS
<1>2. PICK text : text = End("rodata", rodata)
  OBVIOUS
<1>3. PICK heap : heap = End("text", text)
  OBVIOUS
<1>4. PICK unknown : unknown = End("heap", heap)
  OBVIOUS
<1>5. st = [t \in D |-> At([data |-> PageSize, rodata |-> rodata, text |-> text, heap |-> heap,
                            unknown |-> unknown][t])]
  BY <1>1, <1>2, <1>3, <1>4 DEF Starts
<1>6. D \subseteq Types /\ \A t \in D : sz[t] = dls[t].size /\ sz[t] \in Nat
  BY DEF TypeInv, LinesType
<1>7. DOMAIN st = D
  BY <1>5
<1>8. Fits(D, st, sz)
  <2>1. \A t \in D : st[t] + sz[t] < W
    BY <1>6, <1>7 DEF LayoutFits
  <2>2. \A t \in D : (\E u \in D : Rank[t] < Rank[u]) => AlignEnd(st[t] + sz[t]) < W
    BY <1>6, <1>7 DEF LayoutFits
  <2> QED
    BY <1>6, <2>1, <2>2 DEF Fits
<1>9. /\ "data" \in D => st["data"] = At(PageSize)
      /\ "rodata" \in D => st["rodata"] = At(rodata)
      /\ "text" \in D => st["text"] = At(text)
      /\ "heap" \in D => st["heap"] = At(heap)
      /\ "unknown" \in D => st["unknown"] = At(unknown)
  BY <1>5
<1>10. "data" \in Types /\ "rodata" \in Types /\ "text" \in Types /\ "heap" \in Types
       /\ "unknown" \in Types
  BY DEF Types, SegType
<1>11. /\ \A u \in Types : ~(Rank[u] < Rank["data"])
       /\ \A u \in Types : Rank[u] < Rank["rodata"] <=> Rank[u] < Rank["data"] \/ u = "data"
       /\ \A u \in Types : Rank[u] < Rank["text"] <=> Rank[u] < Rank["rodata"] \/ u = "rodata"
       /\ \A u \in Types : Rank[u] < Rank["heap"] <=> Rank[u] < Rank["text"] \/ u = "text"
       /\ \A u \in Types : Rank[u] < Rank["unknown"] <=> Rank[u] < Rank["heap"] \/ u = "heap"
  BY DEF Types, SegType, Rank
<1> HIDE DEF Rank
<1>12. Before(D, st, sz, "data", PageSize)
  <2>1. \A u \in D : ~(Rank[u] < Rank["data"])
    BY <1>6, <1>11
  <2> QED
    BY <2>1, FirstPage DEF Before
<1>13. "data" \in D => Placed(D, st, sz, "data")
  BY <1>8, <1>9, <1>12, OnePlaced
<1>14. Before(D, st, sz, "rodata", rodata)
  BY <1>1, <1>8, <1>9, <1>10, <1>11, <1>12, <1>13, OneFollows
<1>15. "rodata" \in D => Placed(D, st, sz, "rodata")
  BY <1>8, <1>9, <1>14, OnePlaced
<1>16. Before(D, st, sz, "text", text)
  BY <1>2, <1>8, <1>9, <1>10, <1>11, <1>14, <1>15, OneFollows
<1>17. "text" \in D => Placed(D, st, sz, "text")
  BY <1>8, <1>9, <1>16, OnePlaced
<1>18. Before(D, st, sz, "heap", heap)
  BY <1>3, <1>8, <1>9, <1>10, <1>11, <1>16, <1>17, OneFollows
<1>19. "heap" \in D => Placed(D, st, sz, "heap")
  BY <1>8, <1>9, <1>18, OnePlaced
<1>20. Before(D, st, sz, "unknown", unknown)
  BY <1>4, <1>8, <1>9, <1>10, <1>11, <1>18, <1>19, OneFollows
<1>21. "unknown" \in D => Placed(D, st, sz, "unknown")
  BY <1>8, <1>9, <1>20, OnePlaced
<1>22. \A t \in D : t \in {"data", "rodata", "text", "heap", "unknown"}
  BY <1>6 DEF Types, SegType
<1> QED
  BY <1>7, <1>13, <1>15, <1>17, <1>19, <1>21, <1>22

\* All that is written has the size that was counted.
LEMMA SizesHold ==
  ASSUME TypeInv, Counted, BytesWritten, stage = "done", NEW t \in DOMAIN dls
  PROVE  Len(mem[t]) = dls[t].size
<1>1. todo[t] = <<>>
  BY DEF TypeInv, WrittenType
<1>2. PICK n \in Nat : n = Len(dls[t].lines)
  BY LinesInData DEF LinesIn, DataLinesOnly
<1>3. n - Len(todo[t]) = n
  BY <1>1, <1>2
<1>4. Len(mem[t]) = Offset(dls[t].lines, n)
  BY <1>2, <1>3 DEF BytesWritten, SegmentWritten
<1> QED
  BY <1>2, <1>4 DEF Counted

\* The object holds as many bytes of a segment as the first pass counted, and
\* no segment reaches into the next, if the sizes and places that the assembler
\* computes in words do not wrap around.
THEOREM SegmentsAreDisjoint == Spec /\ []LayoutFits => []SegmentsDisjoint
<1> DEFINE Inv == TypeInv /\ Counted /\ BytesWritten
<1>1. Init => Inv
  <2>1. Init => Counted /\ BytesWritten
    BY DEF Init, Counted, BytesWritten
  <2> QED
    BY <2>1, TypesInit
<1>2. Inv /\ LayoutFits /\ [Next]_vars => Inv'
  BY TypesStep, CountedStep, WrittenStep
<1>3. Inv /\ LayoutFits => SegmentsDisjoint
  <2> SUFFICES ASSUME Inv, LayoutFits, stage = "done", NEW t \in DOMAIN mem
               PROVE  /\ Len(mem[t]) = dls[t].size
                      /\ start[t] >= PageSize /\ start[t] % PageSize = 0
                      /\ \A u \in DOMAIN mem : Rank[t] < Rank[u] => start[t] + Len(mem[t]) <= start[u]
    BY DEF SegmentsDisjoint
  <2>1. start = Starts(dls) /\ DOMAIN mem = DOMAIN dls
    BY DEF TypeInv, WrittenType
  <2>2. PICK st, D : st = start /\ D = DOMAIN dls
    OBVIOUS
  <2>3. PICK sz : sz = [u \in D |-> dls[u].size]
    OBVIOUS
  <2>4. \A u \in D : Placed(D, st, sz, u)
    BY <2>1, <2>2, <2>3, AllPlaced
  <2>5. Len(mem[t]) = dls[t].size /\ sz[t] = dls[t].size
    BY <2>1, <2>2, <2>3, SizesHold
  <2> QED
    BY <2>1, <2>2, <2>4, <2>5 DEF Placed
<1> QED
  BY <1>1, <1>2, <1>3, PTL DEF Spec

----------------------------------------------------------------------------
(* 11. The addresses of the labels *)

LEMMA SegmentGrows ==
  ASSUME prog \in Programs, NEW ls, DataLinesOnly(ls), NEW d \in DataOf(prog), IsData(d.line)
  PROVE  /\ \A f, i, o : InSegment(ls, f, i, o) => InSegment(Append(ls, d), f, i, o)
         /\ \A f, i : d.at = <<f, i>> => InSegment(Append(ls, d), f, i, Offset(ls, Len(ls)))
<1>1. PICK n \in Nat : n = Len(ls) /\ DOMAIN ls = 1 .. n /\ ls \in Seq(DataOf(prog))
  BY DEF DataLinesOnly
<1>2. PICK rs : rs = Append(ls, d)
  OBVIOUS
<1>3. DOMAIN rs = 1 .. n + 1 /\ rs[n + 1] = d /\ \A k \in 1 .. n : rs[k] = ls[k]
  BY <1>1, <1>2
<1>4. \A k \in 0 .. n : Offset(rs, k) = Offset(ls, k)
  BY <1>1, <1>2, OffsetAppend
<1>5. ASSUME NEW f, NEW i, NEW o, InSegment(ls, f, i, o)
      PROVE  InSegment(rs, f, i, o)
  <2>1. PICK k \in 1 .. n : ls[k].at = <<f, i>> /\ Offset(ls, k - 1) = o
    BY <1>1, <1>5 DEF InSegment
  <2>2. k \in 1 .. n + 1 /\ k - 1 \in 0 .. n
    BY <1>1
  <2>3. rs[k].at = <<f, i>> /\ Offset(rs, k - 1) = o
    BY <1>3, <1>4, <2>1, <2>2
  <2> QED
    BY <1>3, <2>2, <2>3 DEF InSegment
<1>6. ASSUME NEW f, NEW i, d.at = <<f, i>>
      PROVE  InSegment(rs, f, i, Offset(ls, n))
  <2>1. n + 1 \in 1 .. n + 1 /\ (n + 1) - 1 = n /\ n \in 0 .. n
    BY <1>1
  <2>2. Offset(rs, (n + 1) - 1) = Offset(ls, n) /\ rs[n + 1].at = <<f, i>>
    BY <1>3, <1>4, <1>6, <2>1
  <2> QED
    BY <1>3, <2>1, <2>2 DEF InSegment
<1> QED
  BY <1>1, <1>2, <1>5, <1>6

\* What a line with bytes is done with.
LEMMA DataOnly ==
  ASSUME ProcessLine, IsData(Line)
  PROVE  Data
BY DEF ProcessLine, IsData, Segment, Entry, Label, Declare, Bad, IncludeFile

LEMMA DlsStay ==
  ASSUME ProcessLine, ~Data
  PROVE  dls' = dls
BY DEF ProcessLine, Segment, Entry, Label, Declare, Bad, IncludeFile

\* An address that points right goes on to do so.
LEMMA PointsStep ==
  ASSUME TypeInv, Counted, ProcessLine \/ EndFile, NEW f, NEW i \in Nat, NEW a, Points(f, i, a)
  PROVE  Points(f, i, a)'
<1>0. prog' = prog /\ prog \in Programs
  BY DEF ProcessLine, EndFile, TypeInv
<1> SUFFICES ASSUME DataAt(f, i + 1)
             PROVE  a[1] \in DOMAIN dls' /\ InSegment(dls'[a[1]].lines, f, i + 1, a[2])
  BY <1>0 DEF Points, DataAt
<1>1. PICK t, o : t = a[1] /\ o = a[2]
  OBVIOUS
<1>2. CASE ProcessLine /\ Data
  <2>1. PICK d : Added(d)
    BY <1>2, SymbolsStep, DataLines DEF ProcessLine
  <2>2. PICK ls : ls = LinesIn(Seg) /\ DataLinesOnly(ls)
    BY LinesInData
  <2>3. d \in DataOf(prog) /\ IsData(d.line) /\ d.at = Here
    BY <1>2, <2>1 DEF Added, Data
  <2>4. /\ \A g, j, c : InSegment(ls, g, j, c) => InSegment(Append(ls, d), g, j, c)
        /\ \A g, j : d.at = <<g, j>> => InSegment(Append(ls, d), g, j, Offset(ls, Len(ls)))
    BY <1>0, <2>2, <2>3, SegmentGrows
  <2>5. Seg \in DOMAIN dls' /\ dls'[Seg].lines = Append(ls, d)
        /\ DOMAIN dls' = DOMAIN dls \cup {Seg} /\ \A u \in DOMAIN dls \ {Seg} : dls'[u] = dls[u]
    BY <2>1, <2>2 DEF Added
  <2>6. CASE t \in DOMAIN dls /\ InSegment(dls[t].lines, f, i + 1, o)
    <3>1. CASE t = Seg
      <4>1. InSegment(ls, f, i + 1, o)
        BY <2>2, <2>6, <3>1 DEF LinesIn
      <4> QED
        BY <1>1, <2>4, <2>5, <3>1, <4>1
    <3>2. CASE t # Seg
      BY <1>1, <2>5, <2>6, <3>2
    <3> QED
      BY <3>1, <3>2
  <2>7. CASE Pending(f, i + 1, a)
    <3>1. t = Seg /\ o = SizeIn(Seg) /\ d.at = <<f, i + 1>>
      BY <1>1, <2>3, <2>7 DEF Pending, Here
    <3>2. o = Offset(ls, Len(ls))
      BY <2>2, <3>1, CountedIn
    <3> QED
      BY <1>1, <2>4, <2>5, <3>1, <3>2
  <2> QED
    BY <1>1, <2>6, <2>7 DEF Points
<1>3. CASE ~(ProcessLine /\ Data)
  <2>1. ~Pending(f, i + 1, a)
    <3>1. CASE ProcessLine
      BY <1>3, <3>1, DataOnly DEF Pending, DataAt, Line
    <3>2. CASE EndFile
      <4>1. i + 1 <= Len(prog[f])
        BY <1>0, ProgramFacts DEF DataAt
      <4>2. Pending(f, i + 1, a) => i + 1 > Len(prog[f])
        BY <3>2 DEF Pending, EndFile
      <4>3. Len(prog[f]) \in Nat
        BY <1>0, ProgramFacts DEF DataAt
      <4> QED
        BY <4>1, <4>2, <4>3
    <3> QED
      BY <3>1, <3>2
  <2>2. dls' = dls
    BY <1>3, DlsStay DEF EndFile
  <2> QED
    BY <2>1, <2>2 DEF Points
<1> QED
  BY <1>2, <1>3

\* Nothing forgets an error.
LEMMA ErrorsStay ==
  ASSUME TypeInv, ProcessLine \/ EndFile, ~errors'
  PROVE  ~errors
<1>1. errors \in BOOLEAN
  BY DEF TypeInv
<1> QED
  BY <1>1 DEF ProcessLine, EndFile, Segment, Entry, Label, Declare, Data, Bad, IncludeFile

LEMMA EntryStays ==
  ASSUME TypeInv, ProcessLine \/ EndFile, ~errors', entry # NoAddr
  PROVE  entry' = entry
<1>1. errors \in BOOLEAN
  BY DEF TypeInv
<1> QED
  BY <1>1 DEF ProcessLine, EndFile, Segment, Entry, Label, Declare, Data, Bad, IncludeFile

LEMMA HandledStays ==
  ASSUME TypeInv, Counted, ProcessLine \/ EndFile, ~errors', NEW f, NEW i \in Nat, Handled(f, i)
  PROVE  Handled(f, i)'
<1>1. prog' = prog
  BY DEF ProcessLine, EndFile
<1>2. SymbolsGrow
  BY <1>1, SymbolsStep, SymbolsKept DEF EndFile
<1>3. ASSUME prog[f][i].op = "label"
      PROVE  \E m \in DOMAIN labels' :
               labels'[m] = prog[f][i].name /\ pos'[m] # NoAddr /\ Points(f, i, pos[m])'
  <2>1. PICK m \in DOMAIN labels : labels[m] = prog[f][i].name /\ pos[m] # NoAddr /\ Points(f, i, pos[m])
    BY <1>3 DEF Handled
  <2>2. PICK a : a = pos[m]
    OBVIOUS
  <2>3. m \in DOMAIN labels' /\ labels'[m] = labels[m] /\ pos'[m] = a
    BY <1>2, <2>1, <2>2 DEF SymbolsGrow
  <2>4. Points(f, i, a)'
    BY <2>1, <2>2, PointsStep
  <2> QED
    BY <2>1, <2>2, <2>3, <2>4
<1>4. ASSUME prog[f][i].op = "entry"
      PROVE  entry' # NoAddr /\ Points(f, i, entry)'
  <2>1. entry # NoAddr /\ Points(f, i, entry)
    BY <1>4 DEF Handled
  <2>2. PICK a : a = entry
    OBVIOUS
  <2>3. Points(f, i, a)'
    BY <2>1, <2>2, PointsStep
  <2> QED
    BY <2>1, <2>2, <2>3, EntryStays
<1> QED
  BY <1>1, <1>3, <1>4 DEF Handled

\* The line that was gone through is handled.
LEMMA LineHandled ==
  ASSUME TypeInv, ProcessLine, ~errors', NEW f, NEW i \in Nat, f = Top.file, i = Top.next
  PROVE  Handled(f, i)'
<1>1. prog' = prog /\ stage' = stage /\ MoreLines /\ Line = prog[f][i]
  BY DEF ProcessLine, Line
<1> DEFINE a == <<Seg, SizeIn(Seg)>>
<1>2. ASSUME Label \/ Entry
      PROVE  \A c : c = a => Points(f, i, c)'
  <2>1. dls' = dls /\ Line.op \in {"label", "entry"}
    BY <1>2 DEF Label, Entry
  <2>2. Advanced(Seg)
    BY <2>1, FramesStep
  <2>3. Len(frames) \in Nat \ {0} /\ Len(frames') = Len(frames)
    BY <2>2, TopFacts DEF Advanced
  <2>4. Top' = [file |-> Top.file, next |-> Top.next + 1, seg |-> Seg]
    BY <2>2, <2>3 DEF Top, Advanced
  <2>5. Top'.file = f /\ Top'.next = i + 1 /\ Seg' = Seg
    BY <2>4 DEF Seg
  <2>6. \A t : SizeIn(t)' = SizeIn(t)
    BY <2>1 DEF SizeIn
  <2>7. SizeIn(Seg)' = SizeIn(Seg)
    BY <2>5, <2>6
  <2>8. stage' = "lines"
    BY <1>1 DEF MoreLines
  <2> QED
    BY <2>5, <2>7, <2>8 DEF Points, Pending
<1>3. ASSUME Line.op = "label"
      PROVE  \E m \in DOMAIN labels' : labels'[m] = Line.name /\ pos'[m] # NoAddr /\ Points(f, i, pos[m])'
  <2>1. Label
    BY <1>3 DEF ProcessLine, Segment, Entry, Declare, Data, Bad, IncludeFile, IsData
  <2>2. PICK m \in DOMAIN labels' : labels'[m] = Line.name /\ pos'[m] = a
    BY <1>1, <2>1, SymbolsLabelled
  <2>3. a # NoAddr
    BY DEF NoAddr
  <2> QED
    BY <1>2, <2>1, <2>2, <2>3
<1>4. ASSUME Line.op = "entry"
      PROVE  entry' # NoAddr /\ Points(f, i, entry)'
  <2>1. Entry
    BY <1>4 DEF ProcessLine, Segment, Label, Declare, Data, Bad, IncludeFile, IsData
  <2>2. entry' = a
    <3>1. errors \in BOOLEAN
      BY DEF TypeInv
    <3> QED
      BY <2>1, <3>1 DEF Entry
  <2>3. a # NoAddr
    BY DEF NoAddr
  <2> QED
    BY <1>2, <2>1, <2>2, <2>3
<1> QED
  BY <1>1, <1>3, <1>4 DEF Handled

LEMMA FileStays ==
  ASSUME TypeInv, Counted, ProcessLine \/ EndFile, ~errors', NEW f \in DOMAIN prog, FileHandled(f)
  PROVE  FileHandled(f)'
<1>1. prog' = prog
  BY DEF ProcessLine, EndFile
<1>2. \A i \in DOMAIN prog[f] : i \in Nat
  BY ProgramFacts DEF TypeInv
<1>3. \A i \in DOMAIN prog[f] : Handled(f, i)'
  BY <1>2, HandledStays DEF FileHandled
<1> QED
  BY <1>1, <1>3 DEF FileHandled

LEMMA DoneStays ==
  ASSUME TypeInv, Counted, ProcessLine \/ EndFile, ~errors', NEW f, NEW i \in Nat, LineDone(f, i)
  PROVE  LineDone(f, i)'
<1>1. prog' = prog
  BY DEF ProcessLine, EndFile
<1>2. Handled(f, i)'
  BY HandledStays DEF LineDone
<1>3. ASSUME prog[f][i].op = "include"
      PROVE  prog[f][i].file \in DOMAIN prog /\ FileHandled(prog[f][i].file)'
  <2>1. PICK g : g = prog[f][i].file
    OBVIOUS
  <2>2. g \in DOMAIN prog /\ FileHandled(g)
    BY <1>3, <2>1 DEF LineDone
  <2>3. FileHandled(g)'
    BY <2>2, FileStays
  <2> QED
    BY <1>1, <2>1, <2>2, <2>3
<1> QED
  BY <1>1, <1>2, <1>3 DEF LineDone

LEMMA FrameFacts ==
  ASSUME TypeInv, NEW n \in DOMAIN frames
  PROVE  frames[n].file \in DOMAIN prog /\ frames[n].next \in Nat \ {0}
<1>1. frames[n] \in FramesOf(prog) /\ InFile(prog, frames[n])
  BY DEF TypeInv, FramesType
<1>2. frames[n].file \in DOMAIN prog
  BY <1>1 DEF FramesOf
<1>3. Len(prog[frames[n].file]) \in Nat
  BY <1>2, ProgramFacts DEF TypeInv
<1> QED
  BY <1>1, <1>2, <1>3 DEF InFile

LEMMA LinesHandledLine ==
  ASSUME TypeInv, Counted, LinesHandled, ProcessLine
  PROVE  LinesHandled'
<1> SUFFICES ASSUME ~errors', NEW n \in DOMAIN frames', NEW i \in 1 .. frames'[n].next - 1
             PROVE  LineDone(frames[n].file, i)'
  BY DEF LinesHandled
<1>0. MoreLines /\ prog' = prog
  BY DEF ProcessLine
<1>1. \A m \in DOMAIN frames : \A j \in 1 .. frames[m].next - 1 : LineDone(frames[m].file, j)
  BY ErrorsStay DEF LinesHandled
<1>2. PICK k \in Nat \ {0} : k = Len(frames) /\ DOMAIN frames = 1 .. k
  BY TopFacts
<1>3. FramesType'
  BY FramesStep
<1>4. DOMAIN frames' = 1 .. Len(frames')
  BY <1>3 DEF FramesType
<1>5. PICK g, h : g = frames'[n].file /\ h = frames'[n].next
  OBVIOUS
<1>6. i \in Nat
  OBVIOUS
<1>7. ASSUME n \in DOMAIN frames, frames'[n] = frames[n]
      PROVE  LineDone(g, i)'
  <2>1. LineDone(g, i)
    BY <1>1, <1>5, <1>7
  <2> QED
    BY <1>6, <2>1, DoneStays
<1>8. CASE Line.op = "include" /\ Line.file \in DOMAIN prog /\ Included(Line.file)
  <2>1. Len(frames') = k + 1 /\ \A m \in 1 .. k : frames'[m] = frames[m]
    BY <1>2, <1>8 DEF Included
  <2>2. CASE n = k + 1
    <3>1. frames'[n].next = 1
      BY <1>2, <1>8, <2>2 DEF Included
    <3> QED
      BY <3>1
  <2>3. CASE n # k + 1
    <3>1. n \in 1 .. k
      BY <1>2, <1>4, <2>1, <2>3
    <3> QED
      BY <1>2, <1>5, <1>7, <2>1, <3>1
  <2> QED
    BY <2>2, <2>3
<1>9. ASSUME NEW seg \in Types, Advanced(seg), Line.op # "include" \/ errors'
      PROVE  LineDone(g, i)'
  <2>1. /\ Len(frames') = k /\ \A m \in 1 .. k - 1 : frames'[m] = frames[m]
        /\ frames'[k] = [file |-> Top.file, next |-> Top.next + 1, seg |-> seg]
    BY <1>2, <1>9 DEF Advanced
  <2>2. CASE n # k
    <3>1. n \in 1 .. k - 1 /\ n \in 1 .. k
      BY <1>2, <1>4, <2>1, <2>2
    <3> QED
      BY <1>2, <1>7, <2>1, <3>1
  <2>3. CASE n = k
    <3>1. g = Top.file /\ i \in 1 .. Top.next /\ Top = frames[k] /\ k \in DOMAIN frames
      <4>1. Top.next \in Nat /\ (Top.next + 1) - 1 = Top.next
        BY TopFacts
      <4> QED
        BY <1>2, <1>5, <2>1, <2>3, <4>1 DEF Top
    <3>2. CASE i = Top.next
      <4>1. Handled(g, i)'
        BY <1>6, <3>1, <3>2, LineHandled
      <4>2. prog[g][i].op # "include"
        BY <1>9, <3>1, <3>2 DEF Line
      <4> QED
        BY <1>0, <4>1, <4>2 DEF LineDone
    <3>3. CASE i # Top.next
      <4>1. i \in 1 .. Top.next - 1
        BY <3>1, <3>3, TopFacts
      <4>2. LineDone(g, i)
        BY <1>1, <3>1, <4>1
      <4> QED
        BY <1>6, <4>2, DoneStays
    <3> QED
      BY <3>2, <3>3
  <2> QED
    BY <2>2, <2>3
<1>10. LineDone(g, i)'
  <2>1. CASE Line.op = "seg" /\ \E seg \in Types : Advanced(seg)
    BY <1>9, <2>1
  <2>2. CASE (Line.op = "include" => errors') /\ Advanced(Seg)
    BY <1>9, <2>2, TopFacts
  <2> QED
    BY <1>5, <1>8, <2>1, <2>2, FramesStep
<1> QED
  BY <1>5, <1>10

LEMMA LinesHandledEnd ==
  ASSUME TypeInv, Counted, LinesHandled, EndFile
  PROVE  LinesHandled'
<1> SUFFICES ASSUME ~errors', NEW n \in DOMAIN frames', NEW i \in 1 .. frames'[n].next - 1
             PROVE  LineDone(frames[n].file, i)'
  BY DEF LinesHandled
<1>0. prog' = prog
  BY DEF EndFile
<1>1. \A m \in DOMAIN frames : \A j \in 1 .. frames[m].next - 1 : LineDone(frames[m].file, j)
  BY ErrorsStay DEF LinesHandled
<1>2. PICK k \in Nat \ {0} : k = Len(frames) /\ DOMAIN frames = 1 .. k
  BY TopFacts
<1>5. PICK g : g = frames'[n].file
  OBVIOUS
<1>6. i \in Nat
  OBVIOUS
<1>7. ASSUME n \in DOMAIN frames, frames'[n] = frames[n]
      PROVE  LineDone(g, i)'
  <2>1. LineDone(g, i)
    BY <1>1, <1>5, <1>7
  <2> QED
    BY <1>6, <2>1, DoneStays
<1>8. CASE ~(k > 1)
  <2>1. frames' = frames
    BY <1>2, <1>8 DEF EndFile
  <2> QED
    BY <1>5, <1>7, <2>1
<1>9. CASE k > 1
  <2>1. FramesType' /\ Returned
    BY <1>2, <1>9, ReturnFrames DEF EndFile
  <2>2. PICK c \in Nat \ {0} : c = k - 1 /\ k = c + 1 /\ c - 1 = k - 2 /\ c \in 1 .. k
    <3>1. k - 1 \in Nat \ {0} /\ k = (k - 1) + 1 /\ (k - 1) - 1 = k - 2 /\ k - 1 \in 1 .. k
      BY <1>9
    <3> QED
      BY <3>1
  <2>3. /\ DOMAIN frames' = 1 .. c /\ \A m \in 1 .. c - 1 : frames'[m] = frames[m]
        /\ frames'[c] = [file |-> frames[c].file, next |-> frames[c].next + 1, seg |-> frames[c].seg]
    BY <1>2, <2>1, <2>2 DEF Returned, FramesType
  <2>4. CASE n # c
    <3>1. n \in 1 .. c - 1 /\ n \in 1 .. k
      BY <2>2, <2>3, <2>4
    <3> QED
      BY <1>2, <1>5, <1>7, <2>3, <3>1
  <2>5. CASE n = c
    <3>1. frames[c].file \in DOMAIN prog /\ frames[c].next \in Nat \ {0}
      BY <1>2, <2>2, FrameFacts
    <3>2. g = frames[c].file /\ i \in 1 .. frames[c].next
      BY <1>5, <2>3, <2>5, <3>1
    <3>3. CASE i # frames[c].next
      <4>1. i \in 1 .. frames[c].next - 1
        BY <3>1, <3>2, <3>3
      <4>2. LineDone(g, i)
        BY <1>1, <1>2, <2>2, <3>2, <4>1
      <4> QED
        BY <1>5, <1>6, <4>2, DoneStays
    <3>4. CASE i = frames[c].next
      <4>1. prog[g][i].op = "include" /\ prog[g][i].file = Top.file
        <5>1. c \in 1 .. Len(frames) - 1
          BY <1>2, <2>2
        <5>2. Calls(prog, frames[c], frames[c + 1])
          BY <5>1 DEF TypeInv, FramesType
        <5> QED
          BY <1>2, <2>2, <3>2, <3>4, <5>2 DEF Calls, Top
      <4>2. Top.file \in DOMAIN prog /\ Top = frames[k] /\ k \in DOMAIN frames
        BY <1>2, TopFacts DEF Top
      <4>3. ASSUME NEW j \in DOMAIN prog[Top.file]
            PROVE  Handled(Top.file, j)
        <5>1. Top.next > Len(prog[Top.file])
          BY DEF EndFile
        <5>2. DOMAIN prog[Top.file] = 1 .. Len(prog[Top.file]) /\ Len(prog[Top.file]) \in Nat
          BY <4>2, ProgramFacts DEF TypeInv
        <5>3. j \in 1 .. Top.next - 1
          BY <4>3, <5>1, <5>2, TopFacts
        <5> QED
          BY <1>1, <4>2, <5>3 DEF LineDone
      <4>4. PICK e \in DOMAIN prog : e = Top.file /\ FileHandled(e)
        BY <4>2, <4>3 DEF FileHandled
      <4>5. FileHandled(e)'
        BY <4>4, FileStays
      <4>6. Handled(g, i)
        BY <4>1 DEF Handled
      <4>7. Handled(g, i)'
        BY <1>6, <4>6, HandledStays
      <4>8. LineDone(g, i)'
        BY <1>0, <4>1, <4>4, <4>5, <4>7 DEF LineDone
      <4> QED
        BY <1>5, <4>8
    <3> QED
      BY <3>3, <3>4
  <2> QED
    BY <2>4, <2>5
<1> QED
  BY <1>8, <1>9

LEMMA LinesHandledStep ==
  ASSUME TypeInv, Counted, LinesHandled, [Next]_vars
  PROVE  LinesHandled'
<1>1. CASE ProcessLine
  BY <1>1, LinesHandledLine
<1>2. CASE EndFile
  BY <1>2, LinesHandledEnd
<1>3. CASE Resolve \/ EmitLine \/ EndEmit \/ UNCHANGED vars
  <2>1. /\ UNCHANGED <<prog, frames, dls, entry, labels, pos, errors>>
        /\ stage # "lines" \/ stage' = stage
    BY <1>3 DEF Resolve, EmitLine, EndEmit, vars, symbols
  <2>2. \A f, i, a : Pending(f, i, a) => Pending(f, i, a)'
    <3>1. \A t : SizeIn(t)' = SizeIn(t)
      BY <2>1 DEF SizeIn
    <3>2. Top' = Top /\ Seg' = Seg
      BY <2>1 DEF Top, Seg
    <3> QED
      BY <2>1, <3>1, <3>2 DEF Pending
  <2>3. \A f, i, a : Points(f, i, a) => Points(f, i, a)'
    BY <2>1, <2>2 DEF Points, DataAt
  <2>4. \A f, i : Handled(f, i) => Handled(f, i)'
    BY <2>1, <2>3 DEF Handled
  <2>5. \A f : FileHandled(f) => FileHandled(f)'
    BY <2>1, <2>4 DEF FileHandled
  <2>6. \A f, i : LineDone(f, i) => LineDone(f, i)'
    BY <2>1, <2>4, <2>5 DEF LineDone
  <2> QED
    BY <2>1, <2>6 DEF LinesHandled
<1> QED
  BY <1>1, <1>2, <1>3 DEF Next

LEMMA PairsJoined ==
  ASSUME NEW a, NEW b, NEW c, NEW d
  PROVE  LET r == <<a, b>> \o <<c, d>> IN r[1] = a /\ r[2] = b /\ r[3] = c /\ r[4] = d
<1> DEFINE S == {a, b, c, d}
<1>1. PICK s, t : s = <<a, b>> /\ t = <<c, d>>
  OBVIOUS
<1>2. s \in Seq(S) /\ t \in Seq(S) /\ Len(s) = 2 /\ Len(t) = 2
      /\ s[1] = a /\ s[2] = b /\ t[1] = c /\ t[2] = d
  BY <1>1
<1> HIDE DEF S
<1>3. Joins(s \o t, s, 2, t, 2)
  <2>1. 2 \in Nat
    OBVIOUS
  <2> QED
    BY <1>2, <2>1, JoinedFacts, Zenon
<1>4. PICK r : r = s \o t
  OBVIOUS
<1>5. Joins(r, s, 2, t, 2)
  BY <1>3, <1>4
<1>6. 1 \in 1 .. 2 /\ 2 \in 1 .. 2 /\ 2 + 1 = 3 /\ 2 + 2 = 4
  OBVIOUS
<1>7. r[1] = s[1] /\ r[2] = s[2] /\ r[3] = t[1] /\ r[4] = t[2]
  BY <1>5, <1>6 DEF Joins
<1> QED
  BY <1>1, <1>2, <1>4, <1>7

\* A byte says which line it is of, and where in it.
LEMMA CellPlace ==
  ASSUME prog \in Programs, NEW d \in DataOf(prog), IsData(d.line), NEW x \in 1 .. LineSize(d.line)
  PROVE  Cells(d)[x][1] = d.at /\ Cells(d)[x][2] = x - 1
<1>1. d.line \in LinesOf(prog)
  BY DEF DataOf
<1>2. x \in DOMAIN Bytes(d.line, WordOf(d))
  BY <1>1, LineBytes
<1>3. PICK c, e : Bytes(d.line, WordOf(d))[x] = <<c, e>>
  <2>1. CASE d.line.op = "raw"
    BY <1>2, <2>1 DEF Bytes
  <2>2. CASE d.line.op = "wide"
    BY <1>2, <2>2 DEF Bytes
  <2>3. CASE d.line.op = "ins"
    <3> DEFINE code == Encode(Parse(d.line.m, d.line.ops, WordOf(d)))
    <3>1. Bytes(d.line, WordOf(d)) =
            [k \in DOMAIN code |-> <<IF "W" \in ToSet(Form[KindOf(d.line)]) /\ k > Len(code) - 2
                                    THEN WordOf(d) ELSE Literal, code[k]>>]
      BY <2>3 DEF Bytes
    <3> HIDE DEF code
    <3> QED
      BY <1>2, <3>1
  <2> QED
    BY <2>1, <2>2, <2>3 DEF IsData
<1>4. Cells(d)[x] = <<d.at, x - 1>> \o <<c, e>>
  BY <1>2, <1>3 DEF Cells
<1> QED
  BY <1>4, PairsJoined

\* The byte at an address that points to a line is the first one of that line.
LEMMA PointedAt ==
  ASSUME TypeInv, Counted, BytesWritten, LayoutFits, stage = "done", NEW f, NEW i \in Nat,
         DataAt(f, i + 1), LineSize(prog[f][i + 1]) > 0, NEW a \in Types \X Nat, Points(f, i, a)
  PROVE  /\ a[1] \in DOMAIN mem
         /\ ByteAt(a[1], (a[2] + StartOf(a[1])) % W)[1] = <<f, i + 1>>
         /\ ByteAt(a[1], (a[2] + StartOf(a[1])) % W)[2] = 0
<1>20. PICK t : t = a[1]
  OBVIOUS
<1>21. PICK o \in Nat : o = a[2]
  OBVIOUS
<1>1. t = a[1] /\ o = a[2] /\ o \in Nat
  BY <1>20, <1>21
<1>2. t \in DOMAIN dls /\ InSegment(dls[t].lines, f, i + 1, o)
  BY <1>1 DEF Points, Pending
<1>3. PICK ls : ls = dls[t].lines /\ DataLinesOnly(ls)
  BY <1>2, LinesInData DEF LinesIn
<1>4. PICK n \in Nat : n = Len(ls) /\ DOMAIN ls = 1 .. n
  BY <1>3 DEF DataLinesOnly
<1>5. PICK k \in 1 .. n : ls[k].at = <<f, i + 1>> /\ Offset(ls, k - 1) = o
  BY <1>2, <1>3, <1>4 DEF InSegment
<1>6. DOMAIN mem = DOMAIN dls /\ start = Starts(dls) /\ todo[t] = <<>>
  BY <1>2 DEF TypeInv, WrittenType
<1>7. SegmentWritten(ls, CellsOf(ls), n, mem[t])
  <2>1. n - Len(todo[t]) = n
    BY <1>4, <1>6
  <2> QED
    BY <1>2, <1>3, <1>4, <2>1 DEF BytesWritten
<1>8. ls[k] \in DataOf(prog) /\ IsData(ls[k].line) /\ ls[k].line = prog[f][i + 1]
  <2>1. Kept(prog, labels, ls[k])
    BY <1>2, <1>3, <1>4, <1>5 DEF TypeInv, LinesType
  <2>2. ls[k].at[1] = f /\ ls[k].at[2] = i + 1
    BY <1>5
  <2> QED
    BY <1>3, <1>4, <1>5, <2>1, <2>2 DEF Kept, DataLinesOnly
<1>9. PICK z \in Nat : z = LineSize(ls[k].line) /\ z > 0
  BY <1>3, <1>4, <1>5, <1>8, LineSizes DEF TypeInv
<1>10. PICK m \in Nat : m = Len(mem[t]) /\ m = dls[t].size
  <2>1. dls[t].size \in Nat
    BY <1>2, Numbers DEF TypeInv, LinesType
  <2> QED
    BY <1>2, <2>1, SizesHold
<1>11. o + 1 <= m
  <2>1. PICK h \in Nat : h = k - 1 /\ k = h + 1 /\ h \in 0 .. n - 1
    <3>1. k - 1 \in Nat /\ k = (k - 1) + 1 /\ k - 1 \in 0 .. n - 1
      BY <1>4, <1>5
    <3> QED
      BY <3>1
  <2>2. Offset(ls, h + 1) = Offset(ls, h) + LineSize(ls[h + 1].line)
    BY <1>3, <1>4, <2>1, OffsetFacts DEF TypeInv
  <2>3. Offset(ls, k) = o + z
    BY <1>5, <1>9, <2>1, <2>2
  <2>4. Offset(ls, k) <= m
    BY <1>5, <1>7, <1>10 DEF SegmentWritten
  <2> QED
    BY <1>1, <1>9, <2>3, <2>4
<1>12. mem[t][o + 1] = Cells(ls[k])[1]
  <2>1. 1 \in 1 .. z
    BY <1>9
  <2>2. mem[t][Offset(ls, k - 1) + 1] = CellsOf(ls)[k][1]
    BY <1>5, <1>7, <1>9, <2>1 DEF SegmentWritten
  <2> QED
    BY <1>4, <1>5, <2>2 DEF CellsOf
<1>13. Cells(ls[k])[1][1] = <<f, i + 1>> /\ Cells(ls[k])[1][2] = 0
  <2>1. 1 \in 1 .. LineSize(ls[k].line)
    BY <1>9
  <2>2. Cells(ls[k])[1][1] = ls[k].at /\ Cells(ls[k])[1][2] = 1 - 1
    BY <1>8, <2>1, CellPlace DEF TypeInv
  <2> QED
    BY <1>5, <2>2
<1>14. PICK s \in Nat : s = start[t] /\ t \in DOMAIN start
  <2>1. PICK st, D : st = start /\ D = DOMAIN dls
    OBVIOUS
  <2>2. PICK sz : sz = [u \in D |-> dls[u].size]
    OBVIOUS
  <2>3. DOMAIN st = D /\ \A u \in D : Placed(D, st, sz, u)
    BY <1>6, <2>1, <2>2, AllPlaced
  <2> QED
    BY <1>2, <2>1, <2>3 DEF Placed
<1>15. (o + StartOf(t)) % W = o + s
  <2>1. s + m < W
    BY <1>10, <1>14 DEF LayoutFits
  <2>2. o + s \in 0 .. W - 1 /\ W \in Nat \ {0}
    BY <1>1, <1>10, <1>11, <1>14, <2>1, Numbers
  <2>3. PICK c \in Int : c = o + s
    BY <1>1, <1>14
  <2>4. c % W = c
    BY <2>2, <2>3, Remainder
  <2> QED
    BY <1>14, <2>3, <2>4 DEF StartOf
<1>16. ByteAt(t, o + s) = mem[t][o + 1]
  <2>1. Object.segs[t].bytes = mem[t]
    BY <1>2, <1>6 DEF Object
  <2>2. (o + s) - s + 1 = o + 1
    BY <1>1, <1>14
  <2> QED
    BY <1>14, <2>1, <2>2 DEF ByteAt
<1> QED
  BY <1>1, <1>2, <1>6, <1>12, <1>13, <1>15, <1>16

\* A line of the source was gone through.
LEMMA SourceHandled ==
  ASSUME TypeInv, LinesHandled, stage = "done", NEW x \in Source
  PROVE  x[1] \in DOMAIN prog /\ x[2] \in DOMAIN prog[x[1]] /\ Handled(x[1], x[2])
<1>1. PICK f \in DOMAIN prog : \E i \in DOMAIN prog[f], v \in 1 .. Visits(f) : x = <<f, i, v>>
  BY DEF Source
<1>2. PICK i \in DOMAIN prog[f], v \in 1 .. Visits(f) : x = <<f, i, v>>
  BY <1>1
<1>3. /\ ~errors /\ Len(frames) = 1 /\ frames[1].file = "main" /\ Top = frames[1]
      /\ Top.next > Len(prog["main"]) /\ 1 \in DOMAIN frames /\ Top.next \in Nat
  <2>1. ~errors
    BY DEF TypeInv, WrittenType
  <2>2. Len(frames) = 1 /\ frames[1].file = "main" /\ Top.next > Len(prog[Top.file])
    BY DEF TypeInv, FramesType
  <2>3. Top = frames[1] /\ 1 \in DOMAIN frames
    BY <2>2, TopFacts DEF Top
  <2> QED
    BY <2>1, <2>2, <2>3, TopFacts
<1>4. ASSUME NEW j \in DOMAIN prog["main"] PROVE LineDone("main", j)
  <2>1. DOMAIN prog["main"] = 1 .. Len(prog["main"]) /\ Len(prog["main"]) \in Nat
    BY ProgramFacts DEF TypeInv
  <2>2. j \in 1 .. frames[1].next - 1
    BY <1>3, <2>1
  <2> QED
    BY <1>3, <2>2 DEF LinesHandled
<1>5. CASE f = "main"
  BY <1>2, <1>4, <1>5 DEF LineDone
<1>6. CASE f # "main"
  <2> DEFINE I == {j \in DOMAIN prog["main"] :
                     prog["main"][j].op = "include" /\ prog["main"][j].file = f}
  <2>1. Visits(f) = Cardinality(I)
    BY <1>6 DEF Visits
  <2>2. I # {}
    <3>1. Visits(f) # 0
      BY <1>2
    <3> HIDE DEF I
    <3> QED
      BY <2>1, <3>1, FS_EmptySet
  <2>3. PICK j \in DOMAIN prog["main"] : prog["main"][j].op = "include" /\ prog["main"][j].file = f
    BY <2>2
  <2>4. FileHandled(f)
    BY <1>4, <2>3 DEF LineDone
  <2> QED
    BY <1>2, <2>4 DEF FileHandled
<1> QED
  BY <1>5, <1>6

LEMMA LabelsDone ==
  ASSUME TypeInv, Counted, BytesWritten, LinesHandled, LayoutFits
  PROVE  LabelsPointRight
<1> SUFFICES ASSUME stage = "done", NEW x \in Source, NEW y \in Behind(x)
             PROVE  /\ LineAt(x).op = "label" =>
                         \E i \in DOMAIN labels :
                           /\ labels[i] = LineAt(x).name
                           /\ SymbolOf(i).seg \in DOMAIN mem
                           /\ ByteAt(SymbolOf(i).seg, SymbolOf(i).loc)[1] = <<y[1], y[2]>>
                           /\ ByteAt(SymbolOf(i).seg, SymbolOf(i).loc)[2] = 0
                    /\ LineAt(x).op = "entry" =>
                         ByteAt(Object.entry[1], Object.entry[2])[1] = <<y[1], y[2]>>
  BY DEF LabelsPointRight
<1>1. x[1] \in DOMAIN prog /\ x[2] \in DOMAIN prog[x[1]] /\ Handled(x[1], x[2])
  BY SourceHandled
<1>2. y \in Source /\ y = [x EXCEPT ![2] = @ + 1] /\ IsData(LineAt(y)) /\ LineSize(LineAt(y)) > 0
  BY DEF Behind
<1>3. PICK f \in DOMAIN prog : f = x[1]
  BY <1>1
<1>4. PICK i \in Nat : i = x[2]
  BY <1>1, ProgramFacts DEF TypeInv
<1>5. y[1] = f /\ y[2] = i + 1
  <2>1. \E g, j, v : x = <<g, j, v>>
    BY DEF Source
  <2> QED
    BY <1>2, <1>3, <1>4, <2>1
<1>6. DataAt(f, i + 1) /\ LineSize(prog[f][i + 1]) > 0
  <2>1. y[2] \in DOMAIN prog[y[1]]
    BY <1>2, SourceHandled
  <2> QED
    BY <1>2, <1>5, <2>1 DEF DataAt, LineAt
<1>7. ASSUME LineAt(x).op = "label"
      PROVE  \E m \in DOMAIN labels :
               /\ labels[m] = LineAt(x).name
               /\ SymbolOf(m).seg \in DOMAIN mem
               /\ ByteAt(SymbolOf(m).seg, SymbolOf(m).loc)[1] = <<f, i + 1>>
               /\ ByteAt(SymbolOf(m).seg, SymbolOf(m).loc)[2] = 0
  <2>1. PICK m \in DOMAIN labels :
          labels[m] = prog[f][i].name /\ pos[m] # NoAddr /\ Points(f, i, pos[m])
    BY <1>1, <1>3, <1>4, <1>7 DEF Handled, LineAt
  <2>2. PICK a \in Types \X Nat : a = pos[m]
    BY <2>1 DEF TypeInv, SymbolsType, Address
  <2>3. SymbolOf(m).seg = a[1] /\ SymbolOf(m).loc = (a[2] + StartOf(a[1])) % W
    BY <2>1, <2>2 DEF SymbolOf
  <2>4. /\ a[1] \in DOMAIN mem
        /\ ByteAt(a[1], (a[2] + StartOf(a[1])) % W)[1] = <<f, i + 1>>
        /\ ByteAt(a[1], (a[2] + StartOf(a[1])) % W)[2] = 0
    BY <1>6, <2>1, <2>2, PointedAt
  <2> QED
    BY <1>3, <1>4, <2>1, <2>3, <2>4 DEF LineAt
<1>8. ASSUME LineAt(x).op = "entry"
      PROVE  ByteAt(Object.entry[1], Object.entry[2])[1] = <<f, i + 1>>
  <2>1. entry # NoAddr /\ Points(f, i, entry)
    BY <1>1, <1>3, <1>4, <1>8 DEF Handled, LineAt
  <2>2. PICK a \in Types \X Nat : a = entry
    BY <2>1 DEF TypeInv, Address
  <2>3. Object.entry = <<a[1], (a[2] + StartOf(a[1])) % W>>
    BY <2>1, <2>2 DEF Object
  <2>4. ByteAt(a[1], (a[2] + StartOf(a[1])) % W)[1] = <<f, i + 1>>
    BY <1>6, <2>1, <2>2, PointedAt
  <2> QED
    BY <2>3, <2>4
<1> QED
  BY <1>5, <1>7, <1>8

\* A label in front of a line has the address at which the first byte of that
\* line was written, and the entry point likewise, whatever segments are left
\* and taken up again and whatever files are included in between, if the sizes
\* and places that the assembler computes in words do not wrap around.
THEOREM LabelsAreRight == Spec /\ []LayoutFits => []LabelsPointRight
<1> DEFINE Inv == TypeInv /\ Counted /\ BytesWritten /\ LinesHandled
<1>1. Init => Inv
  <2> SUFFICES ASSUME Init PROVE Inv
    OBVIOUS
  <2>1. Counted /\ BytesWritten
    BY DEF Init, Counted, BytesWritten
  <2>2. LinesHandled
    <3>1. \A n \in DOMAIN frames : frames[n].next = 1
      BY DEF Init
    <3>2. \A n \in DOMAIN frames : \A i \in 1 .. frames[n].next - 1 : FALSE
      BY <3>1
    <3> QED
      BY <3>2 DEF LinesHandled
  <2> QED
    BY <2>1, <2>2, TypesInit
<1>2. Inv /\ LayoutFits /\ [Next]_vars => Inv'
  BY TypesStep, CountedStep, WrittenStep, LinesHandledStep
<1>3. Inv /\ LayoutFits => LabelsPointRight
  BY LabelsDone
<1> QED
  BY <1>1, <1>2, <1>3, PTL DEF Spec

----------------------------------------------------------------------------
(* 12. The relocations *)

\* The next line of a segment that is written, and what is recorded of it.
LEMMA NextLine ==
  ASSUME TypeInv, BytesWritten, stage = "emit", NEW t \in DOMAIN dls, Emits(t)
  PROVE  LET ls == dls[t].lines
             n  == Len(ls) - Len(todo[t])
             d  == ls[n + 1]
             r  == [id |-> d.ref, seg |-> t, position |-> ReadPosition(t, d.line)]
         IN /\ n \in Nat /\ n + 1 \in DOMAIN ls /\ Len(ls) - Len(todo'[t]) = n + 1
            /\ reads' = IF d.ref = NoLabel THEN reads ELSE Append(reads, r)
            /\ d.ref # NoLabel => ReadOf(d, Offset(ls, n), t, r)
<1>1. PICK ls : ls = dls[t].lines
  OBVIOUS
<1>2. DataLinesOnly(ls)
  BY <1>1, LinesInData DEF LinesIn
<1>3. PICK k \in Nat, r \in Nat : k = Len(ls) /\ r = Len(todo[t]) /\ r <= k /\ DOMAIN ls = 1 .. k
  <2>1. Len(todo[t]) \in Nat /\ Len(todo[t]) <= Len(dls[t].lines)
    BY DEF TypeInv, WrittenType
  <2> QED
    BY <1>1, <1>2, <2>1 DEF DataLinesOnly
<1>4. r > 0
  BY <1>3 DEF Emits
<1>5. PICK n \in Nat : n = k - r /\ n + 1 = k - (r - 1) /\ n + 1 \in 1 .. k
  <2>1. k - r \in Nat /\ (k - r) + 1 = k - (r - 1) /\ (k - r) + 1 \in 1 .. k
    BY <1>3, <1>4
  <2> QED
    BY <2>1
<1>6. Len(todo'[t]) = r - 1
  <2>1. todo[t] \in Seq(DataOf(prog)) /\ todo'[t] = Tail(todo[t])
    BY DEF TypeInv, WrittenType, Emits
  <2>2. PICK s : s = todo[t]
    OBVIOUS
  <2> QED
    BY <1>3, <1>4, <2>1, <2>2
<1>7. PICK d : d = ls[n + 1]
  OBVIOUS
<1>8. IsData(d.line) /\ d.line \in LinesOf(prog)
  BY <1>2, <1>3, <1>5, <1>7, LineSizes DEF TypeInv
<1>9. Len(mem[t]) = Offset(ls, n)
  <2>1. SegmentWritten(ls, CellsOf(ls), n, mem[t])
    BY <1>1, <1>3, <1>5 DEF BytesWritten
  <2> QED
    BY <2>1 DEF SegmentWritten
<1>10. PICK r2 : r2 = [id |-> d.ref, seg |-> t, position |-> ReadPosition(t, d.line)]
  OBVIOUS
<1>11. d.line.op # "wide" => r2.position = Offset(ls, n) + LineSize(d.line) - 2
  <2>1. Len(Bytes(d.line, 0)) = LineSize(d.line)
    BY <1>8, LineBytes DEF TypeInv
  <2> QED
    BY <1>9, <1>10, <2>1 DEF ReadPosition
<1>12. r2.id = d.ref /\ r2.seg = t
  BY <1>10
<1>13. d.ref # NoLabel => ReadOf(d, Offset(ls, n), t, r2)
  BY <1>11, <1>12 DEF ReadOf
<1>14. reads' = IF d.ref = NoLabel THEN reads ELSE Append(reads, r2)
  BY <1>1, <1>3, <1>5, <1>7, <1>10 DEF Emits
<1> QED
  BY <1>1, <1>3, <1>5, <1>6, <1>7, <1>10, <1>13, <1>14

LEMMA ReadsStep ==
  ASSUME TypeInv, BytesWritten, ReadsWritten, [Next]_vars
  PROVE  ReadsWritten'
<1>1. CASE Resolve
  <2>1. reads = <<>> /\ reads' = reads /\ dls' = dls
    BY <1>1 DEF Resolve, TypeInv, WrittenType
  <2>2. DOMAIN reads' = {}
    BY <2>1
  <2>3. ASSUME stage' = "emit", NEW t \in DOMAIN dls, NEW k \in DOMAIN dls[t].lines
        PROVE  ~(k <= Len(dls[t].lines) - Len(todo'[t]))
    <3>1. Len(todo'[t]) = Len(dls[t].lines)
      BY <1>1, <2>3 DEF Resolve
    <3>2. dls[t].lines \in Seq(DataOf(prog))
      BY <2>3 DEF TypeInv, LinesType
    <3> QED
      BY <2>3, <3>1, <3>2
  <2>4. stage' # "done"
    BY <1>1 DEF Resolve
  <2> QED
    BY <2>1, <2>2, <2>3, <2>4 DEF ReadsWritten
<1>2. CASE EmitLine
  <2>1. UNCHANGED <<prog, stage, dls>> /\ stage = "emit"
    BY <1>2, EmitFacts DEF EmitLine
  <2>2. PICK t \in DOMAIN dls : Emits(t)
    BY <1>2, EmitFacts
  <2>3. PICK ls : ls = dls[t].lines
    OBVIOUS
  <2>4. PICK n : n = Len(ls) - Len(todo[t])
    OBVIOUS
  <2>5. PICK d : d = ls[n + 1]
    OBVIOUS
  <2>6. PICK r : r = [id |-> d.ref, seg |-> t, position |-> ReadPosition(t, d.line)]
    OBVIOUS
  <2>7. /\ n \in Nat /\ n + 1 \in DOMAIN ls /\ Len(ls) - Len(todo'[t]) = n + 1
        /\ reads' = IF d.ref = NoLabel THEN reads ELSE Append(reads, r)
        /\ d.ref # NoLabel => ReadOf(d, Offset(ls, n), t, r)
    BY <2>1, <2>2, <2>3, <2>4, <2>5, <2>6, NextLine
  <2>8. /\ \A u \in DOMAIN dls : dls[u].lines \in Seq(DataOf(prog)) /\ DOMAIN dls[u].lines \subseteq Nat
        /\ \A u \in DOMAIN dls \ {t} : todo'[u] = todo[u]
    BY <2>2 DEF TypeInv, LinesType, Emits
  <2>9. PICK q \in Nat : q = Len(reads) /\ DOMAIN reads = 1 .. q
    BY DEF TypeInv, WrittenType
  <2>10. /\ d.ref = NoLabel => DOMAIN reads' = 1 .. q
         /\ d.ref # NoLabel => DOMAIN reads' = 1 .. q + 1 /\ reads'[q + 1] = r
         /\ \A m \in 1 .. q : reads'[m] = reads[m]
    <3>1. PICK S : reads \in Seq(S)
      BY DEF TypeInv, WrittenType
    <3>2. reads \in Seq(S \cup {r})
      BY <3>1
    <3>3. PICK s : s = reads
      OBVIOUS
    <3>4. Len(s) = q /\ s \in Seq(S \cup {r})
      BY <2>9, <3>2, <3>3
    <3>5. DOMAIN Append(s, r) = 1 .. q + 1 /\ Append(s, r)[q + 1] = r /\ \A m \in 1 .. q : Append(s, r)[m] = s[m]
      BY <3>4
    <3> QED
      BY <2>7, <2>9, <3>3, <3>5
  <2>11. \A u \in DOMAIN dls : \A k \in DOMAIN dls[u].lines :
           k <= Len(dls[u].lines) - Len(todo'[u])
             <=> k <= Len(dls[u].lines) - Len(todo[u]) \/ (u = t /\ k = n + 1)
    <3> SUFFICES ASSUME NEW u \in DOMAIN dls, NEW k \in DOMAIN dls[u].lines
                 PROVE  k <= Len(dls[u].lines) - Len(todo'[u])
                          <=> k <= Len(dls[u].lines) - Len(todo[u]) \/ (u = t /\ k = n + 1)
      OBVIOUS
    <3>1. CASE u = t
      <4>1. k \in Nat
        BY <2>8
      <4>2. k <= n + 1 <=> k <= n \/ k = n + 1
        BY <2>7, <4>1
      <4> QED
        BY <2>3, <2>4, <2>7, <3>1, <4>2
    <3>2. CASE u # t
      BY <2>8, <3>2
    <3> QED
      BY <3>1, <3>2
  <2>12. ASSUME NEW m \in DOMAIN reads'
         PROVE  \E u \in DOMAIN dls : \E k \in DOMAIN dls[u].lines :
                  /\ k <= Len(dls[u].lines) - Len(todo'[u])
                  /\ ReadOf(dls[u].lines[k], Offset(dls[u].lines, k - 1), u, reads'[m])
    <3>1. CASE m \in 1 .. q
      <4>1. PICK u \in DOMAIN dls : \E k \in DOMAIN dls[u].lines :
              /\ k <= Len(dls[u].lines) - Len(todo[u])
              /\ ReadOf(dls[u].lines[k], Offset(dls[u].lines, k - 1), u, reads[m])
        BY <2>1, <2>9, <3>1 DEF ReadsWritten
      <4>2. reads'[m] = reads[m]
        BY <2>10, <3>1
      <4> QED
        BY <2>11, <4>1, <4>2
    <3>2. CASE m \notin 1 .. q
      <4>1. d.ref # NoLabel /\ m = q + 1 /\ reads'[m] = r
        <5>1. d.ref # NoLabel
          BY <2>10, <2>12, <3>2
        <5>2. m \in 1 .. q + 1
          BY <2>10, <2>12, <5>1
        <5>3. m = q + 1
          BY <2>9, <3>2, <5>2
        <5> QED
          BY <2>10, <5>1, <5>3
      <4>2. (n + 1) - 1 = n
        BY <2>7
      <4>3. ReadOf(ls[n + 1], Offset(ls, (n + 1) - 1), t, reads'[m])
        BY <2>5, <2>7, <4>1, <4>2
      <4>4. n + 1 \in DOMAIN dls[t].lines /\ n + 1 <= Len(dls[t].lines) - Len(todo'[t])
        BY <2>3, <2>7, <2>11
      <4> QED
        BY <2>3, <4>3, <4>4
    <3> QED
      BY <3>1, <3>2
  <2>13. ASSUME NEW u \in DOMAIN dls, NEW k \in DOMAIN dls[u].lines,
                k <= Len(dls[u].lines) - Len(todo'[u]), dls[u].lines[k].ref # NoLabel
         PROVE  \E m \in DOMAIN reads' :
                  ReadOf(dls[u].lines[k], Offset(dls[u].lines, k - 1), u, reads'[m])
    <3>1. CASE k <= Len(dls[u].lines) - Len(todo[u])
      <4>1. PICK m \in DOMAIN reads :
              ReadOf(dls[u].lines[k], Offset(dls[u].lines, k - 1), u, reads[m])
        BY <2>1, <2>13, <3>1 DEF ReadsWritten
      <4>2. m \in 1 .. q /\ reads'[m] = reads[m]
        BY <2>9, <2>10, <4>1
      <4>3. m \in DOMAIN reads'
        <5>1. m \in 1 .. q + 1
          BY <2>9, <4>2
        <5> QED
          BY <2>10, <4>2, <5>1
      <4> QED
        BY <4>1, <4>2, <4>3
    <3>2. CASE ~(k <= Len(dls[u].lines) - Len(todo[u]))
      <4>1. u = t /\ k = n + 1
        BY <2>11, <2>13, <3>2
      <4>2. d = dls[u].lines[k]
        BY <2>3, <2>5, <4>1
      <4>3. (n + 1) - 1 = n /\ q + 1 \in 1 .. q + 1
        BY <2>7, <2>9
      <4>4. q + 1 \in DOMAIN reads' /\ reads'[q + 1] = r
        BY <2>10, <2>13, <4>2, <4>3
      <4>5. ReadOf(d, Offset(ls, (n + 1) - 1), t, r)
        BY <2>7, <2>13, <4>2, <4>3
      <4> QED
        BY <2>3, <4>1, <4>2, <4>4, <4>5
    <3> QED
      BY <3>1, <3>2
  <2> QED
    BY <2>1, <2>12, <2>13 DEF ReadsWritten
<1>3. CASE EndEmit \/ UNCHANGED vars
  <2>1. UNCHANGED <<dls, todo, reads>>
    BY <1>3 DEF EndEmit, vars, written
  <2>2. stage' \in {"emit", "done"} => stage \in {"emit", "done"}
    BY <1>3 DEF EndEmit, vars
  <2> QED
    BY <2>1, <2>2 DEF ReadsWritten
<1>4. CASE ProcessLine \/ EndFile
  <2>1. stage' \notin {"emit", "done"}
    BY <1>4 DEF ProcessLine, EndFile, MoreLines
  <2> QED
    BY <2>1 DEF ReadsWritten
<1> QED
  BY <1>1, <1>2, <1>3, <1>4 DEF Next

\* The line of a cell, and the cells of a line in the object.
LEMMA SegmentCells ==
  ASSUME TypeInv, BytesWritten, stage = "done", NEW t \in DOMAIN dls, NEW k \in DOMAIN dls[t].lines
  PROVE  LET ls == dls[t].lines
             d  == ls[k]
             o  == Offset(ls, k - 1)
             z  == LineSize(d.line)
         IN /\ d \in DataOf(prog) /\ IsData(d.line) /\ Kept(prog, labels, d)
            /\ o \in Nat /\ z \in Nat /\ o + z <= Len(mem[t])
            /\ \A x \in 1 .. z : mem[t][o + x] = Cells(d)[x]
<1>1. PICK ls : ls = dls[t].lines /\ DataLinesOnly(ls)
  BY LinesInData DEF LinesIn
<1>2. PICK n \in Nat : n = Len(ls) /\ DOMAIN ls = 1 .. n /\ k \in 1 .. n
  BY <1>1 DEF DataLinesOnly
<1>3. SegmentWritten(ls, CellsOf(ls), n, mem[t])
  <2>1. todo[t] = <<>>
    BY DEF TypeInv, WrittenType
  <2>2. n - Len(todo[t]) = n
    BY <1>2, <2>1
  <2> QED
    BY <1>1, <1>2, <2>2 DEF BytesWritten
<1>4. ls[k] \in DataOf(prog) /\ IsData(ls[k].line) /\ Kept(prog, labels, ls[k])
  BY <1>1, <1>2 DEF TypeInv, LinesType, DataLinesOnly
<1>5. LineSize(ls[k].line) \in Nat
  BY <1>1, <1>2, LineSizes DEF TypeInv
<1>6. PICK h \in Nat : h = k - 1 /\ k = h + 1 /\ h \in 0 .. n - 1 /\ h \in 0 .. n
  <2>1. k - 1 \in Nat /\ k = (k - 1) + 1 /\ k - 1 \in 0 .. n - 1 /\ k - 1 \in 0 .. n
    BY <1>2
  <2> QED
    BY <2>1
<1>7. Offset(ls, h) \in Nat /\ Offset(ls, h + 1) = Offset(ls, h) + LineSize(ls[h + 1].line)
  BY <1>1, <1>2, <1>6, OffsetFacts DEF TypeInv
<1>8. Offset(ls, k - 1) + LineSize(ls[k].line) <= Len(mem[t])
  <2>1. Offset(ls, k) <= Len(mem[t])
    BY <1>2, <1>3 DEF SegmentWritten
  <2> QED
    BY <1>6, <1>7, <2>1
<1>9. \A x \in 1 .. LineSize(ls[k].line) : mem[t][Offset(ls, k - 1) + x] = Cells(ls[k])[x]
  BY <1>2, <1>3 DEF SegmentWritten, CellsOf
<1> QED
  BY <1>1, <1>4, <1>5, <1>6, <1>7, <1>8, <1>9

\* Every byte of the object is of a line.
LEMMA CellOfLine ==
  ASSUME TypeInv, BytesWritten, stage = "done", NEW t \in DOMAIN dls, NEW p \in DOMAIN mem[t]
  PROVE  \E k \in DOMAIN dls[t].lines : \E x \in 1 .. LineSize(dls[t].lines[k].line) :
           p = Offset(dls[t].lines, k - 1) + x
<1>1. PICK ls : ls = dls[t].lines /\ DataLinesOnly(ls)
  BY LinesInData DEF LinesIn
<1>2. PICK n \in Nat : n = Len(ls) /\ DOMAIN ls = 1 .. n
  BY <1>1 DEF DataLinesOnly
<1>3. SegmentWritten(ls, CellsOf(ls), n, mem[t])
  <2>1. todo[t] = <<>>
    BY DEF TypeInv, WrittenType
  <2>2. n - Len(todo[t]) = n
    BY <1>2, <2>1
  <2> QED
    BY <1>1, <1>2, <2>2 DEF BytesWritten
<1>4. \A q \in DOMAIN mem[t] : \E k \in 1 .. n : \E x \in 1 .. LineSize(ls[k].line) :
        q = Offset(ls, k - 1) + x
  BY <1>3 DEF SegmentWritten
<1>5. PICK k \in 1 .. n : \E x \in 1 .. LineSize(ls[k].line) : p = Offset(ls, k - 1) + x
  BY <1>4
<1>6. k \in DOMAIN dls[t].lines
  BY <1>1, <1>2, <1>5
<1> QED
  BY <1>1, <1>5, <1>6

\* The address of a label is one.
LEMMA AddressOfLabel ==
  ASSUME TypeInv, LayoutFits, stage = "done", NEW i \in DOMAIN labels
  PROVE  SymbolOf(i).loc \in 0 .. W - 1
<1>1. W \in Nat \ {0}
  BY Numbers
<1>2. CASE pos[i] = NoAddr
  <2>1. 64255 % W \in 0 .. W - 1
    BY <1>1, Division
  <2> QED
    BY <1>2, <2>1 DEF SymbolOf, Nowhere
<1>3. CASE pos[i] # NoAddr
  <2>10. pos[i] \in Types \X Nat
    BY <1>3 DEF TypeInv, SymbolsType, Address
  <2>11. PICK t : t = pos[i][1]
    OBVIOUS
  <2>12. PICK o \in Nat : o = pos[i][2]
    BY <2>10
  <2>1. t = pos[i][1] /\ o = pos[i][2] /\ o \in Nat
    BY <2>11, <2>12
  <2>2. StartOf(t) \in Nat
    <3>1. PICK st, D : st = start /\ D = DOMAIN dls
      OBVIOUS
    <3>2. PICK sz : sz = [u \in D |-> dls[u].size]
      OBVIOUS
    <3>3. start = Starts(dls)
      BY DEF TypeInv, WrittenType
    <3>4. DOMAIN st = D /\ \A u \in D : Placed(D, st, sz, u)
      BY <3>1, <3>2, <3>3, AllPlaced
    <3> QED
      BY <3>1, <3>4 DEF Placed, StartOf
  <2>3. PICK a \in Nat : a = o + StartOf(t)
    BY <2>1, <2>2
  <2>4. a % W \in 0 .. W - 1
    <3>1. \A b \in Nat : b % W \in 0 .. W - 1
      BY <1>1, Division
    <3> QED
      BY <2>3, <3>1
  <2>5. SymbolOf(i).loc = a % W
    <3>1. SymbolOf(i).loc = (pos[i][2] + StartOf(pos[i][1])) % W
      BY <1>3 DEF SymbolOf
    <3> QED
      BY <2>1, <2>3, <3>1
  <2> QED
    BY <2>4, <2>5
<1> QED
  BY <1>2, <1>3

\* The bytes of a line that hold an address are its last two, if it looks up a
\* label.
LEMMA CellWord ==
  ASSUME TypeInv, LayoutFits, stage = "done", NEW d \in DataOf(prog), Kept(prog, labels, d),
         d.line.op # "wide" \/ d.ref = NoLabel, NEW z \in Nat, z = LineSize(d.line)
  PROVE  /\ d.ref # NoLabel => z >= 3
         /\ \A x \in 1 .. z : Cells(d)[x][3] # Literal <=> d.ref # NoLabel /\ x > z - 2
<1> DEFINE l == d.line
           w == WordOf(d)
           code == Encode(Parse(l.m, l.ops, w))
           wide == "W" \in ToSet(Form[KindOf(l)])
<1>1. l \in LinesOf(prog) /\ IsData(l) /\ prog \in Programs
  BY DEF DataOf, Kept, TypeInv
<1>2. DOMAIN Bytes(l, w) = 1 .. z /\ Len(Bytes(l, w)) = z
  BY <1>1, LineBytes
<1>3. d.ref # NoLabel => l.op = "ins" /\ LookedUp(l) # "none" /\ w # Literal
  <2> SUFFICES ASSUME d.ref # NoLabel PROVE l.op = "ins" /\ LookedUp(l) # "none" /\ w # Literal
    OBVIOUS
  <2>1. LookedUp(l) # "none" /\ d.ref \in DOMAIN labels
    BY DEF Kept
  <2>2. l.op # "raw"
    BY <1>1, <2>1, ProgramFacts DEF LookedUp
  <2>3. w \in 0 .. W - 1
    BY <2>1, AddressOfLabel DEF WordOf
  <2> QED
    BY <1>1, <2>1, <2>2, <2>3, Numbers DEF IsData, Literal
<1>4. d.ref = NoLabel => w = Literal
  BY DEF WordOf
<1>5. d.ref # NoLabel => wide /\ z >= 3
  <2> SUFFICES ASSUME d.ref # NoLabel PROVE wide /\ z >= 3
    OBVIOUS
  <2>1. /\ l.op = "ins" /\ Accepted(l.m, l.ops) /\ LabelIn(l.m, l.ops) # "none"
        /\ Len(l.ops) \in Nat /\ DOMAIN l.ops = 1 .. Len(l.ops)
    BY <1>1, <1>3, ProgramFacts DEF IsData, LookedUp
  <2>2. wide
    BY <2>1, LabelTakesWord DEF KindOf
  <2>3. KindOf(l) \in Kind
    BY <2>1, ParseKind DEF Accepted, KindOf
  <2>4. SizeOf[KindOf(l)] \in Nat /\ SizeOf[KindOf(l)] >= 2
    BY <2>2, <2>3, WordSize
  <2>5. z = 1 + SizeOf[KindOf(l)]
    BY <2>1 DEF LineSize
  <2> QED
    BY <2>2, <2>4, <2>5
<1>6. ASSUME NEW x \in 1 .. z
      PROVE  Cells(d)[x][3] = Bytes(l, w)[x][1]
             /\ (Bytes(l, w)[x][1] # Literal <=> d.ref # NoLabel /\ x > z - 2)
  <2>1. CASE l.op = "ins"
    <3>1. Bytes(l, w) = [y \in DOMAIN code |->
            <<IF wide /\ y > Len(code) - 2 THEN w ELSE Literal, code[y]>>]
      BY <2>1 DEF Bytes
    <3>2. DOMAIN code = 1 .. z /\ Len(code) = z
      <4>1. DOMAIN code = 1 .. z
        BY <1>2, <3>1
      <4>2. Parse(l.m, l.ops, w).kind \in Kind
        BY <1>1, <2>1, ParseKind DEF IsData, Accepted
      <4>3. PICK S : code \in Seq(S)
        BY <4>2, EncodeLength
      <4>4. DOMAIN code = 1 .. Len(code) /\ Len(code) \in Nat
        BY <4>3
      <4> QED
        BY <4>1, <4>4
    <3> HIDE DEF code, wide
    <3>3. Bytes(l, w)[x] = <<IF wide /\ x > z - 2 THEN w ELSE Literal, code[x]>>
      BY <1>6, <3>1, <3>2
    <3>4. Cells(d)[x] = <<d.at, x - 1>> \o <<IF wide /\ x > z - 2 THEN w ELSE Literal, code[x]>>
      BY <1>2, <1>6, <3>3 DEF Cells
    <3>5. Cells(d)[x][3] = IF wide /\ x > z - 2 THEN w ELSE Literal
      BY <3>4, PairsJoined
    <3> QED
      BY <1>3, <1>4, <1>5, <3>3, <3>5
  <2>2. CASE l.op = "raw"
    <3>1. Bytes(l, w)[x] = <<Literal, "raw">>
      BY <1>2, <1>6, <2>2 DEF Bytes
    <3>2. Cells(d)[x] = <<d.at, x - 1>> \o <<Literal, "raw">>
      BY <1>2, <1>6, <3>1 DEF Cells
    <3>3. Cells(d)[x][3] = Literal
      BY <3>2, PairsJoined
    <3> QED
      BY <1>3, <2>2, <3>1, <3>3
  <2>3. CASE l.op = "wide"
    <3>1. Bytes(l, w)[x] = <<Literal, "raw">>
      BY <1>2, <1>4, <1>6, <2>3 DEF Bytes
    <3>2. Cells(d)[x] = <<d.at, x - 1>> \o <<Literal, "raw">>
      BY <1>2, <1>6, <3>1 DEF Cells
    <3>3. Cells(d)[x][3] = Literal
      BY <3>2, PairsJoined
    <3> QED
      BY <1>3, <2>3, <3>1, <3>3
  <2> QED
    BY <1>1, <2>1, <2>2, <2>3 DEF IsData
<1> QED
  BY <1>5, <1>6

\* The relocation of what is recorded.
RelocOf(r) == [seg |-> r.seg, sym |-> r.id, loc |-> (start[r.seg] + r.position) % W]

\* The relocations of label i, one sequence for each record.
RelocsOfLabel(i) ==
  [m \in DOMAIN reads |-> IF reads[m].id # i THEN <<>> ELSE <<RelocOf(reads[m])>>]

LEMMA RelocsAreReads ==
  ASSUME TypeInv
  PROVE  {Object.relocs[i] : i \in DOMAIN Object.relocs} = {RelocOf(reads[m]) : m \in DOMAIN reads}
<1> DEFINE T == {RelocOf(reads[m]) : m \in DOMAIN reads}
           oo == [i \in DOMAIN labels |-> FlattenSeq(RelocsOfLabel(i))]
<1>1. PICK q \in Nat : DOMAIN reads = 1 .. q
  <2>1. PICK S : reads \in Seq(S)
    BY DEF TypeInv, WrittenType
  <2> QED
    BY <2>1
<1>2. PICK n \in Nat : DOMAIN labels = 1 .. n
  BY DEF TypeInv, SymbolsType
<1>3. \A m \in 1 .. q : RelocOf(reads[m]) \in T /\ reads[m].id \in 1 .. n
  BY <1>1, <1>2 DEF TypeInv, WrittenType
<1> HIDE DEF T
<1>4. ASSUME NEW i \in 1 .. n
      PROVE  /\ RelocsOfLabel(i) \in Seq(Seq(T)) /\ DOMAIN RelocsOfLabel(i) = 1 .. q
             /\ \A m \in 1 .. q : RelocsOfLabel(i)[m]
                                    = IF reads[m].id # i THEN <<>> ELSE <<RelocOf(reads[m])>>
  BY <1>1, <1>3 DEF RelocsOfLabel
<1>5. ASSUME NEW i \in 1 .. n, NEW v
      PROVE  v \in ToSet(FlattenSeq(RelocsOfLabel(i)))
               <=> \E m \in 1 .. q : reads[m].id = i /\ v = RelocOf(reads[m])
  <2>1. ToSet(FlattenSeq(RelocsOfLabel(i))) = UNION {ToSet(RelocsOfLabel(i)[m]) : m \in 1 .. q}
    BY <1>4, FlattenElements
  <2>2. ToSet(<<>>) = {} /\ \A x : ToSet(<<x>>) = {x}
    BY DEF ToSet
  <2>3. ASSUME NEW m \in 1 .. q
        PROVE  ToSet(RelocsOfLabel(i)[m]) = IF reads[m].id = i THEN {RelocOf(reads[m])} ELSE {}
    BY <1>4, <2>2, <2>3
  <2>4. \A m \in 1 .. q : v \in ToSet(RelocsOfLabel(i)[m]) <=> reads[m].id = i /\ v = RelocOf(reads[m])
    BY <2>3
  <2>5. v \in ToSet(FlattenSeq(RelocsOfLabel(i))) <=> \E m \in 1 .. q : v \in ToSet(RelocsOfLabel(i)[m])
    BY <2>1
  <2> QED
    BY <2>4, <2>5
<1>6. ToSet(FlattenSeq(oo)) = UNION {ToSet(FlattenSeq(RelocsOfLabel(i))) : i \in 1 .. n}
  <2>1. \A i \in 1 .. n : FlattenSeq(RelocsOfLabel(i)) \in Seq(T)
    BY <1>4, FlattenType
  <2>2. oo \in Seq(Seq(T)) /\ DOMAIN oo = 1 .. n /\ \A i \in 1 .. n : oo[i] = FlattenSeq(RelocsOfLabel(i))
    BY <1>2, <2>1
  <2> HIDE DEF oo
  <2> QED
    BY <2>2, FlattenElements
<1>7. Object.relocs = FlattenSeq(oo)
  <2>1. \A i \in DOMAIN labels : RelocsOfLabel(i) =
          [m \in DOMAIN reads |-> IF reads[m].id # i THEN <<>>
             ELSE <<[seg |-> reads[m].seg, sym |-> i,
                     loc |-> (start[reads[m].seg] + reads[m].position) % W]>>]
    BY DEF RelocsOfLabel, RelocOf
  <2> QED
    BY <2>1 DEF Object
<1> HIDE DEF oo
<1>8. {Object.relocs[i] : i \in DOMAIN Object.relocs} = ToSet(FlattenSeq(oo))
  BY <1>7 DEF ToSet
<1>9. ToSet(FlattenSeq(oo)) \subseteq T
  BY <1>3, <1>5, <1>6
<1>10. T \subseteq ToSet(FlattenSeq(oo))
  <2>1. ASSUME NEW v \in T PROVE v \in ToSet(FlattenSeq(oo))
    <3>1. PICK m \in 1 .. q : v = RelocOf(reads[m])
      BY <1>1, <2>1 DEF T
    <3>2. reads[m].id \in 1 .. n
      BY <1>3
    <3>3. v \in ToSet(FlattenSeq(RelocsOfLabel(reads[m].id)))
      BY <1>5, <3>1, <3>2
    <3> QED
      BY <1>6, <3>2, <3>3
  <2> QED
    BY <2>1
<1> QED
  BY <1>8, <1>9, <1>10 DEF T

\* Line k of segment t looks up a label, and v is where its address stands.
IsSpot(t, k, v) ==
  /\ dls[t].lines[k].ref # NoLabel
  /\ v = <<t, Offset(dls[t].lines, k - 1) + LineSize(dls[t].lines[k].line) - 2,
           LookedUp(dls[t].lines[k].line)>>

\* The relocation of what is recorded of a line is where its address stands.
LEMMA RelocSpot ==
  ASSUME TypeInv, Counted, BytesWritten, LayoutFits, stage = "done", ~WideLabel,
         NEW t \in DOMAIN dls, NEW k \in DOMAIN dls[t].lines, NEW m \in DOMAIN reads,
         ReadOf(dls[t].lines[k], Offset(dls[t].lines, k - 1), t, reads[m])
  PROVE  IsSpot(t, k, <<RelocOf(reads[m]).seg, RelocOf(reads[m]).loc - start[RelocOf(reads[m]).seg],
                        labels[RelocOf(reads[m]).sym]>>)
<1>1. PICK r : r = reads[m]
  OBVIOUS
<1>2. PICK d : d = dls[t].lines[k]
  OBVIOUS
<1>3. PICK o : o = Offset(dls[t].lines, k - 1)
  OBVIOUS
<1>4. PICK z : z = LineSize(d.line)
  OBVIOUS
<1>5. /\ d \in DataOf(prog) /\ IsData(d.line) /\ Kept(prog, labels, d)
      /\ o \in Nat /\ z \in Nat /\ o + z <= Len(mem[t])
  BY <1>2, <1>3, <1>4, SegmentCells
<1>6. d.ref # NoLabel /\ r.id = d.ref /\ r.seg = t /\ d.line.op # "wide"
  BY <1>1, <1>2, <1>3 DEF ReadOf, WideLabel
<1>7. r.position = o + z - 2
  BY <1>1, <1>2, <1>3, <1>4, <1>6 DEF ReadOf
<1>8. z >= 3
  BY <1>4, <1>5, <1>6, CellWord
<1>9. PICK s \in Nat : s = start[t] /\ t \in DOMAIN start
  <2>1. PICK st, D : st = start /\ D = DOMAIN dls
    OBVIOUS
  <2>2. PICK sz : sz = [u \in D |-> dls[u].size]
    OBVIOUS
  <2>3. start = Starts(dls)
    BY DEF TypeInv, WrittenType
  <2>4. DOMAIN st = D /\ \A u \in D : Placed(D, st, sz, u)
    BY <2>1, <2>2, <2>3, AllPlaced
  <2> QED
    BY <2>1, <2>4 DEF Placed
<1>10. (s + (o + z - 2)) % W = s + (o + z - 2)
  <2>1. PICK b \in Nat : b = Len(mem[t]) /\ b = dls[t].size
    <3>1. dls[t].size \in Nat
      BY Numbers DEF TypeInv, LinesType
    <3> QED
      BY <3>1, SizesHold
  <2>2. s + b < W
    BY <1>9, <2>1 DEF LayoutFits
  <2>3. PICK c \in Int : c = s + (o + z - 2)
    BY <1>5, <1>9
  <2>4. c \in 0 .. W - 1 /\ W \in Nat \ {0}
    <3>1. W \in Nat \ {0}
      BY Numbers
    <3>2. o + z <= b
      BY <1>5, <2>1
    <3>3. c >= 0
      BY <1>5, <1>8, <1>9, <2>3
    <3>4. c < W
      BY <1>5, <1>9, <2>1, <2>2, <2>3, <3>1, <3>2
    <3> QED
      BY <2>3, <3>1, <3>3, <3>4
  <2>5. c % W = c
    BY <2>4, Remainder
  <2> QED
    BY <2>3, <2>5
<1>11. RelocOf(r).seg = t /\ RelocOf(r).sym = d.ref /\ RelocOf(r).loc - s = o + z - 2
  <2>1. RelocOf(r).loc = s + (o + z - 2)
    BY <1>6, <1>7, <1>9, <1>10 DEF RelocOf
  <2>2. (s + (o + z - 2)) - s = o + z - 2
    BY <1>5, <1>9
  <2> QED
    BY <1>6, <2>1, <2>2 DEF RelocOf
<1>12. labels[d.ref] = LookedUp(d.line)
  BY <1>5, <1>6 DEF Kept, NoLabel, DataOf, TypeInv, SymbolsType
<1> QED
  BY <1>1, <1>2, <1>3, <1>4, <1>6, <1>9, <1>11, <1>12 DEF IsSpot

LEMMA RelocatedSpots ==
  ASSUME TypeInv, Counted, BytesWritten, ReadsWritten, LayoutFits, stage = "done", ~WideLabel, NEW v
  PROVE  v \in Relocated <=> \E t \in DOMAIN dls : \E k \in DOMAIN dls[t].lines : IsSpot(t, k, v)
<1> DEFINE V(r) == <<RelocOf(r).seg, RelocOf(r).loc - start[RelocOf(r).seg], labels[RelocOf(r).sym]>>
<1>1. Relocated = {V(reads[m]) : m \in DOMAIN reads}
  <2>1. PICK R : R = {Object.relocs[i] : i \in DOMAIN Object.relocs} /\ R = {RelocOf(reads[m]) : m \in DOMAIN reads}
    BY RelocsAreReads
  <2>2. Relocated = {<<r.seg, r.loc - start[r.seg], labels[r.sym]>> : r \in R}
    BY <2>1 DEF Relocated
  <2> QED
    BY <2>1, <2>2
<1>2. \A t \in DOMAIN dls : \A k \in DOMAIN dls[t].lines : \A m \in DOMAIN reads :
        ReadOf(dls[t].lines[k], Offset(dls[t].lines, k - 1), t, reads[m]) => IsSpot(t, k, V(reads[m]))
  BY RelocSpot
<1> HIDE DEF V
<1>3. ASSUME v \in Relocated
      PROVE  \E t \in DOMAIN dls : \E k \in DOMAIN dls[t].lines : IsSpot(t, k, v)
  <2>1. PICK m \in DOMAIN reads : v = V(reads[m])
    BY <1>1, <1>3
  <2>2. \E t \in DOMAIN dls : \E k \in DOMAIN dls[t].lines :
          ReadOf(dls[t].lines[k], Offset(dls[t].lines, k - 1), t, reads[m])
    BY <2>1 DEF ReadsWritten
  <2> QED
    BY <1>2, <2>1, <2>2
<1>4. ASSUME NEW t \in DOMAIN dls, NEW k \in DOMAIN dls[t].lines, IsSpot(t, k, v)
      PROVE  v \in Relocated
  <2>1. k <= Len(dls[t].lines) - Len(todo[t])
    <3>1. todo[t] = <<>> /\ dls[t].lines \in Seq(DataOf(prog))
      BY <1>4 DEF TypeInv, WrittenType, LinesType
    <3> QED
      BY <1>4, <3>1
  <2>2. PICK m \in DOMAIN reads : ReadOf(dls[t].lines[k], Offset(dls[t].lines, k - 1), t, reads[m])
    BY <1>4, <2>1 DEF ReadsWritten, IsSpot
  <2>3. IsSpot(t, k, V(reads[m]))
    BY <1>2, <2>2
  <2>4. v = V(reads[m])
    BY <1>4, <2>3 DEF IsSpot
  <2> QED
    BY <1>1, <2>4
<1> QED
  BY <1>3, <1>4

\* Byte p of segment t is the first one of an operand that holds an address.
IsOperand(t, p) ==
  /\ mem[t][p][3] # Literal
  /\ p = 1 \/ mem[t][p - 1][3] = Literal \/ mem[t][p - 1][1] # mem[t][p][1]

LEMMA OperandSpots ==
  ASSUME TypeInv, Counted, BytesWritten, LayoutFits, stage = "done", ~WideLabel, NEW v
  PROVE  v \in Operands <=> \E t \in DOMAIN dls : \E k \in DOMAIN dls[t].lines : IsSpot(t, k, v)
<1>1. v \in Operands <=> \E t \in DOMAIN dls : \E p \in DOMAIN mem[t] :
        IsOperand(t, p) /\ v = <<t, p - 1, LookedUp(LineAt(mem[t][p][1]))>>
  <2>1. DOMAIN mem = DOMAIN dls
    BY DEF TypeInv, WrittenType
  <2> QED
    BY <2>1 DEF Operands, IsOperand
<1> DEFINE Known(t, o, z, d) ==
      /\ o \in Nat /\ z \in Nat /\ o + z <= Len(mem[t]) /\ LineAt(d.at) = d.line
      /\ d.ref # NoLabel => z >= 3
      /\ \A x \in 1 .. z :
           /\ mem[t][o + x][1] = d.at
           /\ mem[t][o + x][3] # Literal <=> d.ref # NoLabel /\ x > z - 2
<1>2. ASSUME NEW t \in DOMAIN dls, NEW k \in DOMAIN dls[t].lines,
             NEW o, o = Offset(dls[t].lines, k - 1), NEW z, z = LineSize(dls[t].lines[k].line)
      PROVE  Known(t, o, z, dls[t].lines[k])
  <2>1. PICK d : d = dls[t].lines[k]
    BY <1>2
  <2>2. /\ d \in DataOf(prog) /\ IsData(d.line) /\ Kept(prog, labels, d)
        /\ o \in Nat /\ z \in Nat /\ o + z <= Len(mem[t])
        /\ \A x \in 1 .. z : mem[t][o + x] = Cells(d)[x]
    BY <1>2, <2>1, SegmentCells
  <2>3. d.line.op # "wide" \/ d.ref = NoLabel
    BY <1>2, <2>1 DEF WideLabel
  <2>4. /\ d.ref # NoLabel => z >= 3
        /\ \A x \in 1 .. z : Cells(d)[x][3] # Literal <=> d.ref # NoLabel /\ x > z - 2
    BY <1>2, <2>1, <2>2, <2>3, CellWord
  <2>5. \A x \in 1 .. z : Cells(d)[x][1] = d.at
    BY <1>2, <2>1, <2>2, CellPlace DEF TypeInv
  <2>6. LineAt(d.at) = d.line
    BY <2>2 DEF Kept, LineAt
  <2> QED
    BY <2>1, <2>2, <2>4, <2>5, <2>6
<1> HIDE DEF Known
<1>3. \A t \in DOMAIN dls : DOMAIN mem[t] = 1 .. Len(mem[t]) /\ Len(mem[t]) \in Nat
  <2> SUFFICES ASSUME NEW t \in DOMAIN dls
               PROVE  DOMAIN mem[t] = 1 .. Len(mem[t]) /\ Len(mem[t]) \in Nat
    OBVIOUS
  <2>1. PICK S : mem[t] \in Seq(S)
    BY DEF BytesWritten, SegmentWritten
  <2>2. PICK s : s = mem[t]
    OBVIOUS
  <2> QED
    BY <2>1, <2>2
<1>4. ASSUME NEW t \in DOMAIN dls, NEW k \in DOMAIN dls[t].lines, IsSpot(t, k, v)
      PROVE  v \in Operands
  <2>1. PICK o, z, d : /\ o = Offset(dls[t].lines, k - 1) /\ z = LineSize(dls[t].lines[k].line)
                       /\ d = dls[t].lines[k]
    BY <1>4
  <2>8. Known(t, o, z, d)
    BY <1>2, <1>4, <2>1
  <2>9. d.ref # NoLabel
    BY <1>4, <2>1 DEF IsSpot
  <2>2. /\ o \in Nat /\ z \in Nat /\ o + z <= Len(mem[t]) /\ LineAt(d.at) = d.line /\ z >= 3
        /\ \A x \in 1 .. z :
             /\ mem[t][o + x][1] = d.at
             /\ mem[t][o + x][3] # Literal <=> d.ref # NoLabel /\ x > z - 2
    BY <2>8, <2>9 DEF Known
  <2>3. d.ref # NoLabel /\ v = <<t, o + z - 2, LookedUp(d.line)>>
    BY <1>4, <2>1 DEF IsSpot
  <2>4. PICK p \in Nat, y \in Nat, x \in Nat :
          /\ x = z - 1 /\ y = z - 2 /\ p = o + x /\ p - 1 = o + y /\ p - 1 = o + z - 2
          /\ x \in 1 .. z /\ y \in 1 .. z /\ x > z - 2 /\ ~(y > z - 2) /\ p \in 1 .. Len(mem[t])
    <3>1. PICK x \in Nat : x = z - 1
      BY <2>2
    <3>2. PICK y \in Nat : y = z - 2
      BY <2>2
    <3>3. PICK p \in Nat : p = o + x
      BY <2>2, <3>1
    <3>4. Len(mem[t]) \in Nat
      BY <1>3, <1>4
    <3>5. /\ p - 1 = o + y /\ p - 1 = o + z - 2
          /\ x \in 1 .. z /\ y \in 1 .. z /\ x > z - 2 /\ ~(y > z - 2) /\ p \in 1 .. Len(mem[t])
      BY <2>2, <3>1, <3>2, <3>3, <3>4
    <3> QED
      BY <3>1, <3>2, <3>3, <3>5
  <2>5. mem[t][p][1] = d.at /\ mem[t][p][3] # Literal /\ mem[t][p - 1][3] = Literal
    BY <2>2, <2>3, <2>4
  <2>6. IsOperand(t, p) /\ p \in DOMAIN mem[t]
    BY <1>3, <1>4, <2>4, <2>5 DEF IsOperand
  <2>7. v = <<t, p - 1, LookedUp(LineAt(mem[t][p][1]))>>
    BY <2>2, <2>3, <2>4, <2>5
  <2> QED
    BY <1>1, <1>4, <2>6, <2>7
<1>5. ASSUME NEW t \in DOMAIN dls, NEW p \in DOMAIN mem[t], IsOperand(t, p),
             v = <<t, p - 1, LookedUp(LineAt(mem[t][p][1]))>>
      PROVE  \E k \in DOMAIN dls[t].lines : IsSpot(t, k, v)
  <2>1. PICK k \in DOMAIN dls[t].lines : \E x \in 1 .. LineSize(dls[t].lines[k].line) :
          p = Offset(dls[t].lines, k - 1) + x
    BY <1>5, CellOfLine
  <2>2. PICK o, z, d : /\ o = Offset(dls[t].lines, k - 1) /\ z = LineSize(dls[t].lines[k].line)
                       /\ d = dls[t].lines[k]
    OBVIOUS
  <2>8. Known(t, o, z, d)
    BY <1>2, <1>5, <2>1, <2>2
  <2>3. /\ o \in Nat /\ z \in Nat /\ o + z <= Len(mem[t]) /\ LineAt(d.at) = d.line
        /\ d.ref # NoLabel => z >= 3
        /\ \A x \in 1 .. z :
             /\ mem[t][o + x][1] = d.at
             /\ mem[t][o + x][3] # Literal <=> d.ref # NoLabel /\ x > z - 2
    BY <2>8 DEF Known
  <2>4. PICK x \in 1 .. z : p = o + x
    BY <2>1, <2>2
  <2>5. mem[t][p][1] = d.at /\ d.ref # NoLabel /\ x > z - 2 /\ z >= 3
    BY <1>5, <2>3, <2>4 DEF IsOperand
  <2>6. x # z
    <3> SUFFICES ASSUME x = z PROVE FALSE
      OBVIOUS
    <3>1. PICK y \in Nat : y = z - 1
      BY <2>3, <2>5
    <3>2. p - 1 = o + y /\ y \in 1 .. z /\ y > z - 2 /\ p # 1
      BY <2>3, <2>4, <2>5, <3>1
    <3>3. mem[t][p - 1][1] = d.at /\ mem[t][p - 1][3] # Literal
      BY <2>3, <2>5, <3>2
    <3> QED
      BY <1>5, <2>5, <3>2, <3>3 DEF IsOperand
  <2>7. p - 1 = o + z - 2
    BY <2>3, <2>4, <2>5, <2>6
  <2> QED
    BY <1>5, <2>1, <2>2, <2>3, <2>5, <2>7 DEF IsSpot
<1> QED
  BY <1>1, <1>4, <1>5

\* The relocations of the object are the operands that hold the address of a
\* label, each with its label and at its place, if no .wide has a label and the
\* sizes and places that the assembler computes in words do not wrap around.
THEOREM RelocationsAreRight == Spec /\ []LayoutFits => []RelocationsAreOperands
<1> DEFINE Inv == TypeInv /\ Counted /\ BytesWritten /\ ReadsWritten
<1>1. Init => Inv
  <2>1. Init => Counted /\ BytesWritten /\ ReadsWritten
    BY DEF Init, Counted, BytesWritten, ReadsWritten
  <2> QED
    BY <2>1, TypesInit
<1>2. Inv /\ LayoutFits /\ [Next]_vars => Inv'
  BY TypesStep, CountedStep, WrittenStep, ReadsStep
<1>3. Inv /\ LayoutFits => RelocationsAreOperands
  <2> SUFFICES ASSUME Inv, LayoutFits, stage = "done", ~WideLabel PROVE Relocated = Operands
    BY DEF RelocationsAreOperands
  <2>1. \A v : v \in Relocated <=> v \in Operands
    BY RelocatedSpots, OperandSpots
  <2> QED
    BY <2>1
<1> QED
  BY <1>1, <1>2, <1>3, PTL DEF Spec
=============================================================================
