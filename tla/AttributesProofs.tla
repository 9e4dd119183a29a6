------------------------- MODULE AttributesProofs --------------------------
(***************************************************************************)
(* Proofs about read, write and reporting, for any device, any data types,   *)
(* any values of them and any number of attributes: what is said of an        *)
(* attribute is what became of it at the device, however much of the answer   *)
(* arrives and in whatever order it lists the attributes.                   *)
(***************************************************************************)
EXTENDS CommandsProofs, FiniteSetTheorems

-----------------------------------------------------------------------------
(***************************************************************************)
(* Records, one after the other in an answer.                              *)
(***************************************************************************)

\* Two sequences, one after the other.
LEMMA Joining ==
    ASSUME NEW a \in Seq(Nat), NEW w \in Seq(Nat)
    PROVE  /\ a \o w \in Seq(Nat) /\ Len(a \o w) = Len(a) + Len(w)
           /\ Len(a) \in Nat /\ Len(w) \in Nat
           /\ \A m \in 1..Len(a) : (a \o w)[m] = a[m]
           /\ \A m \in 1..Len(w) : (a \o w)[Len(a) + m] = w[m]
<1>1. ASSUME NEW m \in 1..Len(w) PROVE (a \o w)[Len(a) + m] = w[m]
  OBVIOUS
<1>. QED BY <1>1

\* off says where each of n pieces begins, and where the last ends.
Begins(off, n, len) ==
    /\ off \in [0..n -> Nat] /\ off[0] = 0
    /\ \A j \in 1..n : off[j] = off[j - 1] + len[j]

\* Pieces laid end to end begin where those before them end.
LEMMA Offsets ==
    ASSUME NEW n \in Nat, NEW len \in [1..n -> Nat]
    PROVE  \E off : Begins(off, n, len)
<1>. DEFINE F == [x \in Nat \X Nat |-> IF x[1] \in 1..n THEN x[2] + len[x[1]] ELSE x[2]]
<1>1. F \in [Nat \X Nat -> Nat]
  OBVIOUS
<1>2. PICK f \in [0..n -> Nat] : Recursive(f, n, 0, F)
  <2>. HIDE DEF F
  <2>. QED BY <1>1, Recursion
<1>3. ASSUME NEW j \in 1..n PROVE f[j] = f[j - 1] + len[j]
  <2>1. j \in 0..n /\ j # 0 /\ j - 1 \in 0..n
    OBVIOUS
  <2>2. f[j] = F[<<j, f[j - 1]>>]
    <3>. HIDE DEF F
    <3>. QED BY <1>2, <2>1 DEF Recursive
  <2>. QED BY <1>2, <2>1, <2>2
<1>4. f[0] = 0
  <2>1. 0 \in 0..n
    OBVIOUS
  <2>. HIDE DEF F
  <2>. QED BY <1>2, <2>1 DEF Recursive
<1>. QED BY <1>2, <1>3, <1>4 DEF Begins

\* No piece begins before those in front of it end.
LEMMA OffsetsGrow ==
    ASSUME NEW n \in Nat, NEW len \in [1..n -> Nat], NEW off, Begins(off, n, len)
    PROVE  \A i \in 0..n : \A j \in 0..i : off[j] <= off[i]
<1>. DEFINE T == {i \in Nat : \A j \in 0..i : off[j] <= off[i]}
<1>0. /\ off \in [0..n -> Nat]
      /\ \A j \in 1..n : off[j] = off[j - 1] + len[j]
  BY DEF Begins
<1>1. 0 \in T
  <2>1. 0 \in 0..n
    OBVIOUS
  <2>2. off[0] \in Nat
    BY <1>0, <2>1
  <2>. QED BY <2>2
<1>2. ASSUME NEW i \in 1..n, i - 1 \in T PROVE i \in T
  <2>1. i \in 0..n /\ i - 1 \in 0..n /\ i \in Nat
    OBVIOUS
  <2>2. PICK x \in Nat, y \in Nat, l \in Nat : x = off[i - 1] /\ y = off[i] /\ l = len[i] /\ y = x + l
    BY <1>0, <2>1
  <2>3. ASSUME NEW j \in 0..i PROVE off[j] <= off[i]
    <3>1. CASE j = i
      <4>1. off[i] \in Nat /\ off[i] <= off[i]
        BY <1>0, <2>1
      <4>. QED BY <3>1, <4>1, Zenon
    <3>2. CASE j # i
      <4>1. j \in 0..(i - 1) /\ j \in 0..n
        BY <3>2
      <4>2. off[j] <= x /\ off[j] \in Nat
        BY <1>0, <1>2, <2>2, <4>1
      <4>. QED BY <2>2, <4>2
    <3>. QED BY <3>1, <3>2
  <2>. QED BY <2>1, <2>3
<1>. HIDE DEF T
<1>3. 0..n \subseteq T
  BY <1>1, <1>2, AllAlong
<1>. QED BY <1>3 DEF T

\* s is the first i pieces, each where it begins.
Laid(s, i, ss, off) ==
    /\ s \in Seq(Nat) /\ Len(s) = off[i]
    /\ \A j \in 1..i : \A m \in 1..Len(ss[j]) : s[off[j - 1] + m] = ss[j][m]

\* One piece more is laid.
LEMMA LaidMore ==
    ASSUME NEW n \in Nat, NEW ss, \A j \in 1..n : ss[j] \in Seq(Nat),
           NEW off, Begins(off, n, [j \in 1..n |-> Len(ss[j])]),
           NEW i \in 1..n, NEW a, Laid(a, i - 1, ss, off)
    PROVE  Laid(a \o ss[i], i, ss, off)
<1>. DEFINE len == [j \in 1..n |-> Len(ss[j])]
<1>0. len \in [1..n -> Nat] /\ \A j \in 1..n : len[j] = Len(ss[j]) /\ Len(ss[j]) \in Nat
  OBVIOUS
<1>. HIDE DEF len
<1>1. /\ off \in [0..n -> Nat]
      /\ \A j \in 1..n : off[j] = off[j - 1] + len[j]
      /\ \A k \in 0..n : \A j \in 0..k : off[j] <= off[k]
  BY <1>0, OffsetsGrow DEF Begins, len
<1>2. PICK w, c : w \in Seq(Nat) /\ w = ss[i] /\ c = a \o w
  OBVIOUS
<1>3. a \in Seq(Nat) /\ Len(a) = off[i - 1] /\ off[i] = Len(a) + Len(w)
  BY <1>0, <1>1, <1>2 DEF Laid
<1>4. /\ c \in Seq(Nat) /\ Len(c) = off[i] /\ Len(a) \in Nat
      /\ \A m \in 1..Len(a) : c[m] = a[m]
      /\ \A m \in 1..Len(w) : c[Len(a) + m] = w[m]
  BY <1>2, <1>3, Joining
<1>5. ASSUME NEW j \in 1..i, NEW m \in 1..Len(ss[j]) PROVE c[off[j - 1] + m] = ss[j][m]
  <2>1. CASE j = i
    BY <1>2, <1>3, <1>4, <2>1
  <2>2. CASE j # i
    <3>1. j \in 1..(i - 1) /\ j \in 1..n /\ j - 1 \in 0..n /\ j \in 0..(i - 1) /\ i - 1 \in 0..n
      BY <2>2
    <3>2. PICK x \in Nat, y \in Nat, l \in Nat : x = off[j - 1] /\ y = off[j] /\ l = Len(ss[j])
      <4>1. off[j - 1] \in Nat /\ off[j] \in Nat
        BY <1>1, <3>1
      <4>2. Len(ss[j]) \in Nat
        BY <1>0, <3>1
      <4>. QED BY <4>1, <4>2
    <3>3. y = x + l /\ y <= Len(a)
      BY <1>0, <1>1, <1>3, <3>1, <3>2
    <3>4. x + m \in 1..Len(a)
      <4>1. PICK k \in Nat : k = Len(a)
        BY <1>4
      <4>2. m \in 1..l /\ x + l <= k
        BY <3>2, <3>3, <4>1
      <4>. QED BY <4>1, <4>2
    <3>5. a[off[j - 1] + m] = ss[j][m]
      BY <3>1 DEF Laid
    <3>. QED BY <1>4, <3>2, <3>4, <3>5
  <2>. QED BY <2>1, <2>2
<1>. QED BY <1>2, <1>4, <1>5 DEF Laid

\* A sequence of sequences laid end to end: where each begins, and what is there.
LEMMA Flattened ==
    ASSUME NEW n \in Nat, NEW ss \in [1..n -> Seq(Nat)]
    PROVE  \E off : /\ Begins(off, n, [j \in 1..n |-> Len(ss[j])])
                    /\ Laid(A!FlattenSeq(ss), n, ss, off)
<1>. DEFINE p == A!FlattenSeq(ss)
            len == [j \in 1..n |-> Len(ss[j])]
            G(g, i) == IF i = 1 THEN ss[i] ELSE g[i - 1] \o ss[i]
            Is(g) == g = [i \in 1..n |-> G(g, i)]
            h == CHOOSE g : Is(g)
            F == [x \in Nat \X Seq(Nat) |-> IF x[1] \in 1..n THEN x[2] \o ss[x[1]] ELSE x[2]]
<1>0. \A i \in 1..n : ss[i] \in Seq(Nat)
  OBVIOUS
<1>1. PICK off : Begins(off, n, len)
  <2>1. len \in [1..n -> Nat]
    BY <1>0
  <2>. HIDE DEF len
  <2>. QED BY <2>1, Offsets
<1>2. Len(ss) = n
  OBVIOUS
<1>3. CASE n = 0
  <2>1. ss = <<>>
    BY <1>3
  <2>2. p = ss
    BY <1>2, <1>3 DEF A!FlattenSeq
  <2>3. off[0] = 0
    BY <1>1 DEF Begins
  <2>. HIDE DEF p
  <2>4. p \in Seq(Nat) /\ Len(p) = 0
    BY <2>1, <2>2
  <2>5. Laid(p, n, ss, off)
    BY <1>3, <2>3, <2>4 DEF Laid
  <2>. QED BY <1>1, <2>5 DEF p
<1>4. CASE n # 0
  <2>1. p = h[n]
    BY <1>2, <1>4 DEF A!FlattenSeq
  <2>2. F \in [Nat \X Seq(Nat) -> Seq(Nat)]
    <3>1. ASSUME NEW i \in Nat, NEW s \in Seq(Nat)
          PROVE  (IF i \in 1..n THEN s \o ss[i] ELSE s) \in Seq(Nat)
      BY <1>0, Joining
    <3>. QED BY <3>1
  <2>. HIDE DEF p
  <2>3. PICK f \in [0..n -> Seq(Nat)] : Recursive(f, n, <<>>, F)
    <3>1. <<>> \in Seq(Nat)
      OBVIOUS
    <3>. HIDE DEF F
    <3>. QED BY <2>2, <3>1, Recursion
  <2>4. f[0] = <<>>
    <3>1. 0 \in 0..n
      OBVIOUS
    <3>. HIDE DEF F
    <3>. QED BY <2>3, <3>1 DEF Recursive
  <2>5. ASSUME NEW i \in 1..n PROVE f[i] = G(f, i)
    <3>1. i \in 0..n /\ i # 0 /\ 0 \in 0..n /\ i - 1 \in 0..n /\ i \in Nat
      OBVIOUS
    <3>2. f[i] = F[<<i, f[i - 1]>>]
      <4>. HIDE DEF F
      <4>. QED BY <2>3, <3>1 DEF Recursive
    <3>3. PICK a \in Seq(Nat), w \in Seq(Nat) : a = f[i - 1] /\ w = ss[i]
      BY <1>0, <2>3, <3>1
    <3>4. F[<<i, a>>] = a \o w
      BY <3>1, <3>3
    <3>. HIDE DEF F
    <3>5. f[i] = a \o w
      BY <3>2, <3>3, <3>4
    <3>6. i = 1 => a = <<>>
      BY <2>4, <3>3
    <3>7. <<>> \o w = w
      BY <3>3
    <3>. QED BY <3>3, <3>5, <3>6, <3>7
  <2>6. \E g : Is(g)
    <3>. DEFINE g == [i \in 1..n |-> f[i]]
    <3>1. ASSUME NEW i \in 1..n PROVE g[i] = G(g, i)
      <4>1. CASE i = 1
        BY <2>5, <4>1
      <4>2. CASE i # 1
        <5>1. i - 1 \in 1..n
          BY <4>2
        <5>. QED BY <2>5, <4>2, <5>1
      <4>. QED BY <4>1, <4>2
    <3>2. g = [i \in 1..n |-> g[i]]
      OBVIOUS
    <3>. HIDE DEF g, G
    <3>3. g = [i \in 1..n |-> G(g, i)]
      BY <3>1, <3>2
    <3>. QED BY <3>3
  <2>. HIDE DEF Is, F
  <2>7. Is(h)
    BY <2>6
  <2>. HIDE DEF h
  <2>8. \A i \in 1..n : h[i] = G(h, i)
    <3>. HIDE DEF G
    <3>. DEFINE d == [i \in 1..n |-> G(h, i)]
    <3>1. h = d
      BY <2>7 DEF Is
    <3>2. \A i \in 1..n : d[i] = G(h, i)
      OBVIOUS
    <3>. HIDE DEF d
    <3>. QED BY <3>1, <3>2
  <2>. DEFINE T == {i \in Nat : i # 0 => Laid(h[i], i, ss, off)}
  <2>9. ASSUME NEW i \in 1..n, i - 1 \in T PROVE i \in T
    <3>1. PICK a : a = IF i = 1 THEN <<>> ELSE h[i - 1]
      OBVIOUS
    <3>2. Laid(a, i - 1, ss, off)
      <4>1. CASE i = 1
        <5>1. a = <<>> /\ a \in Seq(Nat) /\ Len(a) = 0 /\ i - 1 = 0
          BY <3>1, <4>1
        <5>2. off[0] = 0
          BY <1>1 DEF Begins
        <5>. QED BY <5>1, <5>2 DEF Laid
      <4>2. CASE i # 1
        <5>1. i - 1 # 0
          BY <4>2
        <5>. QED BY <2>9, <3>1, <4>2, <5>1
      <4>. QED BY <4>1, <4>2
    <3>3. Laid(a \o ss[i], i, ss, off)
      BY <1>0, <1>1, <3>2, LaidMore
    <3>4. h[i] = a \o ss[i]
      <4>1. CASE i = 1
        <5>1. PICK w \in Seq(Nat) : w = ss[1]
          BY <1>0, <4>1
        <5>2. <<>> \o w = w
          BY <5>1
        <5>. QED BY <2>8, <3>1, <4>1, <5>1, <5>2
      <4>2. CASE i # 1
        BY <2>8, <3>1, <4>2
      <4>. QED BY <4>1, <4>2
    <3>5. Laid(h[i], i, ss, off)
      BY <3>3, <3>4
    <3>. QED BY <3>5
  <2>10. 0 \in T
    OBVIOUS
  <2>. HIDE DEF T
  <2>11. 0..n \subseteq T
    BY <2>9, <2>10, AllAlong
  <2>12. Laid(h[n], n, ss, off)
    BY <1>4, <2>11 DEF T
  <2>. QED BY <1>1, <2>1, <2>12 DEF p
<1>. QED BY <1>3, <1>4

-----------------------------------------------------------------------------
(***************************************************************************)
(* The cursor that walks an answer.                                        *)
(***************************************************************************)

\* What remains of a sequence.
LEMMA Remaining ==
    ASSUME NEW q \in Seq(Nat), NEW a \in Nat
    PROVE  /\ SubSeq(q, a + 1, Len(q)) \in Seq(Nat)
           /\ a <= Len(q) => /\ Len(SubSeq(q, a + 1, Len(q))) = Len(q) - a
                             /\ \A m \in 1..(Len(q) - a) : SubSeq(q, a + 1, Len(q))[m] = q[a + m]
           /\ a >= Len(q) => SubSeq(q, a + 1, Len(q)) = <<>>
<1>. DEFINE r == SubSeq(q, a + 1, Len(q))
<1>1. PICK l \in Nat : l = Len(q) /\ \A i \in 1..l : q[i] \in Nat
  OBVIOUS
<1>2. CASE a <= l
  <2>1. r = [m \in 1..(l - a) |-> q[a + m]]
    BY <1>1, <1>2
  <2>2. r \in Seq(Nat) /\ Len(r) = l - a
    <3>1. l - a \in Nat /\ \A m \in 1..(l - a) : a + m \in 1..l
      BY <1>2
    <3>. QED BY <1>1, <2>1, <3>1
  <2>3. a >= l => r = <<>>
    BY <1>2, <2>2
  <2>. QED BY <1>1, <1>2, <2>1, <2>2, <2>3
<1>3. CASE ~(a <= l)
  <2>1. r = <<>>
    BY <1>1, <1>3
  <2>. QED BY <1>1, <1>3, <2>1
<1>. QED BY <1>2, <1>3

RequestKinds == {"read", "write", "reporting", "show"}

\* A record has at least one field.
LEMMA Sizes ==
    ASSUME NEW kind \in RequestKinds, NEW r \in Seq(Nat)
    PROVE  A!Size(kind, r) \in Nat \ {0}
<1>1. Len(r) \in Nat
  OBVIOUS
<1>2. A!AttributeSize(r) \in Nat \ {0}
  BY <1>1 DEF A!AttributeSize
<1>3. A!ReportingSize(r) \in Nat \ {0}
  BY <1>1 DEF A!ReportingSize
<1>4. /\ kind = "read" => A!Size(kind, r) = A!AttributeSize(r)
      /\ kind = "write" => A!Size(kind, r) = 2
      /\ kind = "reporting" => A!Size(kind, r) = 3
      /\ kind = "show" => A!Size(kind, r) = A!ReportingSize(r)
  BY SMT DEF A!Size
<1>. QED BY <1>2, <1>3, <1>4 DEF RequestKinds

\* Where the cursor is and what has been decoded.
ResultsOf(kind) == {A!Result(kind, r) : r \in Seq(Nat)}
Cursors(kind) == [at : Nat, error : BOOLEAN, results : Seq(ResultsOf(kind))]

\* d is where the cursor is after a turn at c, with rest still to decode.
Turned(kind, c, rest, d) ==
    /\ d \in Cursors(kind)
    /\ c.error \/ rest = <<>> => d = c
    /\ ~c.error /\ rest # <<>> /\ A!Size(kind, rest) > Len(rest) => d.error
    /\ ~c.error /\ rest # <<>> /\ ~(A!Size(kind, rest) > Len(rest)) =>
          /\ d.error = FALSE
          /\ d.at = c.at + A!Size(kind, rest)
          /\ Len(d.results) = Len(c.results) + 1
          /\ \A i \in 1..Len(c.results) : d.results[i] = c.results[i]
          /\ d.results[Len(c.results) + 1] = A!Result(kind, rest)

\* One turn of the loop.
LEMMA Turning ==
    ASSUME NEW kind \in RequestKinds, NEW p \in Seq(Nat), NEW c \in Cursors(kind)
    PROVE  Turned(kind, c, SubSeq(p, c.at + 1, Len(p)), A!Turn(kind, p, c))
<1>0. PICK rest, d : rest = SubSeq(p, c.at + 1, Len(p)) /\ d = A!Turn(kind, p, c)
  OBVIOUS
<1>. DEFINE X == ResultsOf(kind)
            z == A!Size(kind, rest)
            v == A!Result(kind, rest)
<1>1. rest \in Seq(Nat) /\ z \in Nat \ {0} /\ v \in X /\ Len(rest) \in Nat
  <2>1. c.at \in Nat
    BY DEF Cursors
  <2>2. rest \in Seq(Nat)
    BY <1>0, <2>1, Remaining
  <2>3. z \in Nat \ {0}
    BY <2>2, Sizes
  <2>4. Len(rest) \in Nat
    BY <2>2
  <2>. QED BY <2>2, <2>3, <2>4 DEF ResultsOf
<1>2. d = IF c.error \/ rest = <<>> THEN c
          ELSE IF z > Len(rest) THEN [c EXCEPT !.error = TRUE]
          ELSE [c EXCEPT !.at = c.at + z, !.results = Append(c.results, v)]
  BY <1>0 DEF A!Turn, Cursors
<1>. HIDE DEF X, z, v
<1>3. c \in [at : Nat, error : BOOLEAN, results : Seq(X)]
  BY DEF Cursors, X
<1>4. ASSUME c.error \/ rest = <<>> PROVE Turned(kind, c, rest, d)
  BY <1>2, <1>3, <1>4 DEF Turned, Cursors, X, z, v
<1>5. ASSUME ~(c.error \/ rest = <<>>) /\ z > Len(rest) PROVE Turned(kind, c, rest, d)
  <2>1. PICK o \in BOOLEAN : o = TRUE
    OBVIOUS
  <2>2. d = [c EXCEPT !.error = o]
    BY <1>2, <1>5, <2>1
  <2>. DEFINE Q == Seq(X)
  <2>3. c \in [at : Nat, error : BOOLEAN, results : Q]
    BY <1>3
  <2>. HIDE DEF Q
  <2>4. d \in [at : Nat, error : BOOLEAN, results : Q] /\ d.error = o
    BY <2>2, <2>3
  <2>. QED BY <1>5, <2>1, <2>4 DEF Turned, Cursors, X, Q, z, v
<1>6. ASSUME ~(c.error \/ rest = <<>>) /\ ~(z > Len(rest)) PROVE Turned(kind, c, rest, d)
  <2>0. PICK u \in Seq(X), k \in Nat : u = c.results /\ k = c.at
    BY <1>3
  <2>1. PICK s \in Seq(X), m \in Nat :
           u = c.results /\ k = c.at /\ s = Append(u, v) /\ m = c.at + z
    <3>1. Append(u, v) \in Seq(X)
      BY <1>1, Appending
    <3>2. k + z \in Nat
      BY <1>1
    <3>. QED BY <2>0, <3>1, <3>2
  <2>2. Len(s) = Len(u) + 1 /\ s[Len(u) + 1] = v /\ \A i \in 1..Len(u) : s[i] = u[i]
    BY <1>1, <2>1, Appending
  <2>3. d = [c EXCEPT !.at = m, !.results = s]
    BY <1>2, <1>6, <2>1
  <2>. DEFINE Q == Seq(X)
  <2>4. c \in [at : Nat, error : BOOLEAN, results : Q] /\ s \in Q
    BY <1>3, <2>1
  <2>. HIDE DEF Q
  <2>5. /\ d \in [at : Nat, error : BOOLEAN, results : Q]
        /\ d.error = c.error /\ d.at = m /\ d.results = s
    BY <2>3, <2>4
  <2>6. c.error \in BOOLEAN
    BY <2>4
  <2>7. d \in Cursors(kind)
    BY <2>5 DEF Cursors, Q, X
  <2>8. d.error = FALSE
    BY <1>6, <2>5, <2>6
  <2>9. /\ Len(d.results) = Len(c.results) + 1
        /\ \A i \in 1..Len(c.results) : d.results[i] = c.results[i]
        /\ d.results[Len(c.results) + 1] = v
    BY <2>1, <2>2, <2>5
  <2>. QED BY <1>6, <2>1, <2>5, <2>7, <2>8, <2>9 DEF Turned, z, v
<1>7. Turned(kind, c, rest, d)
  BY <1>4, <1>5, <1>6
<1>. QED BY <1>0, <1>7

\* The loop, turn by turn.
LEMMA Looped ==
    ASSUME NEW kind \in RequestKinds, NEW p \in Seq(Nat)
    PROVE  \E f \in [0..Len(p) -> Cursors(kind)] :
              /\ f[0].at = 0 /\ f[0].error = FALSE /\ f[0].results = <<>>
              /\ \A i \in 1..Len(p) : f[i] = A!Turn(kind, p, f[i - 1])
              /\ A!Walked(kind, p) = IF f[Len(p)].error THEN A!Said
                                     ELSE [error |-> FALSE, results |-> f[Len(p)].results]
<1>. DEFINE n == Len(p)
            c0 == [at |-> 0, error |-> FALSE, results |-> <<>>]
            G(g, i) == IF i = 0 THEN c0 ELSE A!Turn(kind, p, g[i - 1])
            Is(g) == g = [i \in 0..n |-> G(g, i)]
            h == CHOOSE g : Is(g)
            X == Cursors(kind)
            F == [x \in Nat \X X |-> A!Turn(kind, p, x[2])]
<1>0. n \in Nat /\ c0 \in X
  BY DEF Cursors
<1>1. A!Walked(kind, p) = IF h[n].error THEN A!Said ELSE [error |-> FALSE, results |-> h[n].results]
  BY DEF A!Walked
<1>2. F \in [Nat \X X -> X]
  <2>1. ASSUME NEW c \in X PROVE A!Turn(kind, p, c) \in X
    BY Turning DEF Turned
  <2>. HIDE DEF X
  <2>. QED BY <2>1
<1>3. c0.at = 0 /\ c0.error = FALSE /\ c0.results = <<>>
  OBVIOUS
<1>. HIDE DEF n, c0, X
<1>4. PICK f \in [0..n -> X] : Recursive(f, n, c0, F)
  <2>. HIDE DEF F
  <2>. QED BY <1>0, <1>2, Recursion
<1>5. ASSUME NEW i \in 0..n PROVE f[i] = G(f, i)
  <2>1. f[i] = IF i = 0 THEN c0 ELSE F[<<i, f[i - 1]>>]
    <3>. HIDE DEF F
    <3>. QED BY <1>4 DEF Recursive
  <2>2. i # 0 => i \in Nat /\ f[i - 1] \in X
    BY <1>0
  <2>. QED BY <2>1, <2>2
<1>6. \E g : Is(g)
  <2>1. f = [i \in 0..n |-> f[i]]
    OBVIOUS
  <2>. HIDE DEF G
  <2>2. f = [i \in 0..n |-> G(f, i)]
    BY <1>5, <2>1
  <2>. QED BY <2>2
<1>. HIDE DEF Is, F
<1>7. Is(h)
  BY <1>6
<1>. HIDE DEF h
<1>8. \A i \in 0..n : h[i] = G(h, i)
  <2>. DEFINE d == [i \in 0..n |-> G(h, i)]
  <2>. HIDE DEF G
  <2>1. h = d
    BY <1>7 DEF Is
  <2>2. \A i \in 0..n : d[i] = G(h, i)
    OBVIOUS
  <2>. HIDE DEF d
  <2>. QED BY <2>1, <2>2
<1>. DEFINE T == {i \in Nat : h[i] \in X}
<1>9. 0 \in T
  BY <1>0, <1>8
<1>10. ASSUME NEW i \in 1..n, i - 1 \in T PROVE i \in T
  <2>1. i \in 0..n /\ i # 0 /\ i \in Nat /\ h[i - 1] \in X
    BY <1>0, <1>10
  <2>2. A!Turn(kind, p, h[i - 1]) \in X
    BY <2>1, Turning DEF Turned, X
  <2>. QED BY <1>8, <2>1, <2>2
<1>. HIDE DEF T
<1>11. \A i \in 0..n : h[i] \in X
  <2>1. 0..n \subseteq T
    BY <1>0, <1>9, <1>10, AllAlong
  <2>. QED BY <2>1 DEF T
<1>12. /\ h[0] = c0
       /\ \A i \in 1..n : h[i] = A!Turn(kind, p, h[i - 1])
  <2>1. 0 \in 0..n /\ \A i \in 1..n : i \in 0..n /\ i # 0
    BY <1>0
  <2>. QED BY <1>8, <2>1
<1>13. h \in [0..n -> X]
  <2>. DEFINE d == [i \in 0..n |-> G(h, i)]
  <2>. HIDE DEF G
  <2>1. h = d
    BY <1>7 DEF Is
  <2>2. DOMAIN d = 0..n /\ d = [i \in 0..n |-> d[i]]
    OBVIOUS
  <2>. HIDE DEF d
  <2>. QED BY <1>11, <2>1, <2>2
<1>. QED BY <1>1, <1>3, <1>12, <1>13 DEF n, X

-----------------------------------------------------------------------------
(***************************************************************************)
(* Decoding an answer of whole records, and one that is cut short.         *)
(***************************************************************************)

\* The record w, in fields, is taken for what it is by a decoder that meets it, whatever
\* follows, or cannot be decoded.
TakenFor(kind, w) ==
    \A r \in Seq(Nat) :
        (Len(w) <= Len(r) /\ \A m \in 1..Len(w) : r[m] = w[m]) =>
            \/ A!Size(kind, r) > Len(r)
            \/ /\ A!Size(kind, r) = Len(w) /\ A!Size(kind, w) = Len(w)
               /\ A!Result(kind, r) = A!Result(kind, w)

\* The record without its last field is noticed.
Noticed(kind, w) ==
    \A r \in Seq(Nat) :
        (Len(r) = Len(w) - 1 /\ \A m \in 1..Len(r) : r[m] = w[m]) => A!Size(kind, r) > Len(r)

\* n records that a decoder takes for what they are, and misses when a field is missing.
Readable(kind, w) == w \in Seq(Nat) /\ Len(w) > 0 /\ TakenFor(kind, w) /\ Noticed(kind, w)
AllReadable(kind, ss, n) == \A j \in 1..n : Readable(kind, ss[j])

\* q is p, the last field of which may be missing.
CutOf(q, p) == /\ q \in Seq(Nat) /\ Len(q) \in {Len(p), Len(p) - 1}
               /\ \A m \in 1..Len(q) : q[m] = p[m]

\* w holds what the first k records decode to.
Decoded(kind, ss, k, w) ==
    /\ w.results \in Seq(ResultsOf(kind)) /\ Len(w.results) = k
    /\ \A i \in 1..k : /\ A!Size(kind, ss[i]) = Len(ss[i])
                       /\ w.results[i] = A!Result(kind, ss[i])

\* What a decoder makes of records laid end to end, the last field of which may be missing.
LEMMA Walking ==
    ASSUME NEW kind \in RequestKinds, NEW n \in Nat, NEW ss \in [1..n -> Seq(Nat)],
           AllReadable(kind, ss, n), NEW p \in Seq(Nat), p = A!FlattenSeq(ss),
           NEW q, CutOf(q, p), NEW w, w = A!Walked(kind, q)
    PROVE  \/ w = A!Said
           \/ /\ w.error = FALSE
              /\ \E k \in 0..n : (Len(q) = Len(p) => k = n) /\ Decoded(kind, ss, k, w)
<1>. DEFINE len == [j \in 1..n |-> Len(ss[j])]
<1>00. /\ \A j \in 1..n : Len(ss[j]) > 0 /\ TakenFor(kind, ss[j]) /\ Noticed(kind, ss[j])
       /\ q \in Seq(Nat) /\ Len(q) \in {Len(p), Len(p) - 1}
       /\ \A m \in 1..Len(q) : q[m] = p[m]
  BY DEF AllReadable, Readable, CutOf
<1>0. /\ len \in [1..n -> Nat] /\ \A j \in 1..n : len[j] = Len(ss[j]) /\ Len(ss[j]) \in Nat \ {0}
      /\ \A j \in 1..n : ss[j] \in Seq(Nat)
  <2>1. ASSUME NEW j \in 1..n PROVE Len(ss[j]) \in Nat \ {0} /\ ss[j] \in Seq(Nat)
    <3>1. PICK s \in Seq(Nat) : s = ss[j]
      OBVIOUS
    <3>2. Len(s) \in Nat /\ Len(s) > 0
      BY <1>00, <3>1
    <3>. QED BY <3>1, <3>2
  <2>. QED BY <2>1
<1>1. PICK off : Begins(off, n, len) /\ Laid(p, n, ss, off)
  BY Flattened
<1>. HIDE DEF len
<1>2. /\ off \in [0..n -> Nat] /\ off[0] = 0
      /\ \A j \in 1..n : off[j] = off[j - 1] + len[j]
      /\ \A i \in 0..n : \A j \in 0..i : off[j] <= off[i]
      /\ Len(p) = off[n]
      /\ \A j \in 1..n : \A m \in 1..Len(ss[j]) : p[off[j - 1] + m] = ss[j][m]
  BY <1>0, <1>1, OffsetsGrow DEF Begins, Laid
<1>3. PICK lq \in Nat, lp \in Nat : lq = Len(q) /\ lp = Len(p) /\ (lq = lp \/ lq = lp - 1)
  BY <1>00
<1>30. lq = lp \/ lq = lp - 1
  BY <1>3
<1>4. PICK f \in [0..lq -> Cursors(kind)] :
         /\ f[0].at = 0 /\ f[0].error = FALSE /\ f[0].results = <<>>
         /\ \A i \in 1..lq : f[i] = A!Turn(kind, q, f[i - 1])
         /\ w = IF f[lq].error THEN A!Said ELSE [error |-> FALSE, results |-> f[lq].results]
  BY <1>00, <1>3, Looped
<1>. DEFINE Rightly(c, t) == \E k \in 0..n : /\ c.at = off[k] /\ off[k] <= lq
                                             /\ off[k] = lq \/ off[k] >= t
                                             /\ Len(c.results) = k
                                             /\ \A i \in 1..k : /\ A!Size(kind, ss[i]) = Len(ss[i])
                                                                /\ c.results[i] = A!Result(kind, ss[i])
            T == {t \in Nat : f[t].error \/ Rightly(f[t], t)}
<1>5. 0 \in T
  <2>1. f[0].at = off[0] /\ off[0] <= lq /\ off[0] >= 0 /\ Len(f[0].results) = 0 /\ 0 \in 0..n
    BY <1>2, <1>4
  <2>2. \A i \in 1..0 : /\ A!Size(kind, ss[i]) = Len(ss[i])
                        /\ f[0].results[i] = A!Result(kind, ss[i])
    OBVIOUS
  <2>. QED BY <2>1, <2>2
<1>6. ASSUME NEW t \in 1..lq, t - 1 \in T PROVE t \in T
  <2>1. PICK c, d : c \in Cursors(kind) /\ c = f[t - 1] /\ d = f[t] /\ d = A!Turn(kind, q, c)
    <3>1. t - 1 \in 0..lq
      OBVIOUS
    <3>. QED BY <1>4, <3>1
  <2>. DEFINE r0 == SubSeq(q, c.at + 1, Len(q))
  <2>2. PICK r : r = r0
    OBVIOUS
  <2>3. /\ d \in Cursors(kind)
        /\ c.error \/ r = <<>> => d = c
        /\ ~c.error /\ r # <<>> /\ A!Size(kind, r) > Len(r) => d.error
        /\ ~c.error /\ r # <<>> /\ ~(A!Size(kind, r) > Len(r)) =>
              /\ d.error = FALSE
              /\ d.at = c.at + A!Size(kind, r)
              /\ Len(d.results) = Len(c.results) + 1
              /\ \A i \in 1..Len(c.results) : d.results[i] = c.results[i]
              /\ d.results[Len(c.results) + 1] = A!Result(kind, r)
    <3>1. Turned(kind, c, r, d)
      BY <1>00, <2>1, <2>2, Turning
    <3>. QED BY <3>1 DEF Turned
  <2>. HIDE DEF r0
  <2>4. SUFFICES ASSUME ~d.error PROVE Rightly(d, t)
    <3>1. t \in Nat /\ (~d.error => Rightly(d, t))
      BY <2>4
    <3>. HIDE DEF Rightly
    <3>. QED BY <2>1, <3>1
  <2>5. ~c.error
    BY <2>3, <2>4
  <2>6. PICK k \in 0..n : /\ c.at = off[k] /\ off[k] <= lq
                          /\ off[k] = lq \/ off[k] >= t - 1
                          /\ Len(c.results) = k
                          /\ \A i \in 1..k : /\ A!Size(kind, ss[i]) = Len(ss[i])
                                             /\ c.results[i] = A!Result(kind, ss[i])
    <3>1. Rightly(c, t - 1)
      <4>. HIDE DEF Rightly
      <4>. QED BY <1>6, <2>1, <2>5
    <3>. QED BY <3>1
  <2>7. PICK a \in Nat : a = off[k]
    BY <1>2
  <2>8. /\ r \in Seq(Nat) /\ Len(r) = lq - a
        /\ \A m \in 1..(lq - a) : r[m] = q[a + m]
        /\ a >= lq => r = <<>>
    <3>1. r = SubSeq(q, a + 1, Len(q)) /\ a <= Len(q)
      BY <1>3, <2>2, <2>6, <2>7 DEF r0
    <3>2. /\ r \in Seq(Nat) /\ Len(r) = Len(q) - a
          /\ \A m \in 1..(Len(q) - a) : r[m] = q[a + m]
          /\ a >= Len(q) => r = <<>>
      BY <1>00, <3>1, Remaining
    <3>. QED BY <1>3, <3>2
  <2>9. CASE a = lq
    <3>1. d = c
      BY <2>3, <2>8, <2>9
    <3>. QED BY <2>6, <2>7, <2>9, <3>1
  <2>10. CASE a # lq
    <3>1. a < lq /\ a < lp /\ lp = off[n] /\ r # <<>>
      <4>1. a < lq /\ a < lp
        BY <1>3, <2>6, <2>7, <2>10
      <4>2. Len(r) # 0
        BY <2>8, <4>1
      <4>. QED BY <1>2, <1>3, <4>1, <4>2
    <3>2. k # n
      BY <2>7, <3>1
    <3>3. k + 1 \in 1..n /\ k + 1 \in 0..n /\ (k + 1) - 1 = k
      BY <3>2
    <3>4. PICK v \in Seq(Nat), l \in Nat \ {0}, b \in Nat :
             v = ss[k + 1] /\ l = Len(v) /\ b = off[k + 1] /\ b = a + l /\ b <= lp
      <4>1. PICK v \in Seq(Nat) : v = ss[k + 1] /\ Len(v) \in Nat \ {0} /\ len[k + 1] = Len(v)
        BY <1>0, <3>3
      <4>2. off[k + 1] = a + Len(v) /\ off[k + 1] \in Nat
        BY <1>2, <2>7, <3>3, <4>1
      <4>3. off[k + 1] <= lp
        <5>1. n \in 0..n /\ k + 1 \in 0..n
          BY <3>3
        <5>. QED BY <1>2, <1>3, <5>1
      <4>. QED BY <4>1, <4>2, <4>3
    <3>5. ASSUME NEW m \in 1..Len(r), m <= l PROVE r[m] = v[m]
      <4>1. m \in 1..(lq - a) /\ a + m \in 1..lq /\ m \in 1..l
        BY <2>8, <3>1, <3>5
      <4>2. r[m] = q[a + m] /\ q[a + m] = p[a + m]
        BY <1>00, <1>3, <2>8, <4>1
      <4>3. p[a + m] = v[m]
        BY <1>2, <2>7, <3>3, <3>4, <4>1
      <4>. QED BY <4>2, <4>3
    <3>6. TakenFor(kind, v) /\ Noticed(kind, v)
      BY <1>00, <3>3, <3>4
    <3>7. ~(A!Size(kind, r) > Len(r))
      BY <2>3, <2>4, <2>5, <3>1
    <3>8. l <= Len(r)
      <4>1. SUFFICES ASSUME Len(r) < l PROVE FALSE
        BY <2>8, <3>1, <3>4
      <4>2. Len(r) = l - 1
        <5>1. PICK x \in Nat : x = Len(r) /\ x = lq - a
          BY <2>8, <3>1
        <5>2. b = a + l /\ b <= lp /\ x < l
          BY <3>4, <4>1, <5>1
        <5>3. x = l - 1
          <6>1. lq < a + l /\ a + l <= lp
            BY <5>1, <5>2
          <6>2. lq = lp - 1 /\ a + l = lp
            BY <1>30, <6>1
          <6>. QED BY <5>1, <6>2
        <5>. QED BY <5>1, <5>3
      <4>3. \A m \in 1..Len(r) : r[m] = v[m]
        <5>1. \A m \in 1..Len(r) : m <= l
          BY <3>4, <4>2
        <5>. QED BY <3>5, <5>1
      <4>4. A!Size(kind, r) > Len(r)
        BY <2>8, <3>4, <3>6, <4>2, <4>3 DEF Noticed
      <4>. QED BY <3>7, <4>4
    <3>9. A!Size(kind, r) = l /\ A!Size(kind, v) = l /\ A!Result(kind, r) = A!Result(kind, v)
      <4>1. \A m \in 1..l : m \in 1..Len(r) /\ m <= l
        BY <2>8, <3>1, <3>4, <3>8
      <4>2. \A m \in 1..Len(v) : r[m] = v[m]
        BY <3>4, <3>5, <4>1
      <4>. QED BY <2>8, <3>4, <3>6, <3>7, <3>8, <4>2 DEF TakenFor
    <3>10. /\ d.at = a + l /\ Len(d.results) = k + 1
           /\ \A i \in 1..k : d.results[i] = c.results[i]
           /\ d.results[k + 1] = A!Result(kind, v)
      BY <2>3, <2>5, <2>6, <2>7, <3>1, <3>7, <3>9
    <3>11. d.at = off[k + 1] /\ off[k + 1] <= lq /\ off[k + 1] >= t
      <4>1. b <= lq
        BY <2>8, <3>1, <3>4, <3>8
      <4>2. b >= t
        <5>1. a >= t - 1
          <6>1. off[k] = lq \/ off[k] >= t - 1
            BY <2>6
          <6>. QED BY <2>7, <2>10, <6>1
        <5>. QED BY <3>4, <5>1
      <4>. QED BY <3>4, <3>10, <4>1, <4>2
    <3>12. ASSUME NEW i \in 1..(k + 1) 
          PROVE A!Size(kind, ss[i]) = Len(ss[i]) /\ d.results[i] = A!Result(kind, ss[i])
      <4>1. i \in 1..k \/ i = k + 1
        OBVIOUS
      <4>. QED BY <2>6, <3>4, <3>9, <3>10, <4>1
    <3>. QED BY <3>3, <3>10, <3>11, <3>12
  <2>. QED BY <2>9, <2>10
<1>. HIDE DEF T
<1>7. lq \in T
  <2>1. 0..lq \subseteq T
    BY <1>3, <1>5, <1>6, AllAlong
  <2>. QED BY <1>3, <2>1
<1>8. PICK c \in Cursors(kind) : c = f[lq]
  BY <1>3, <1>4
<1>9. CASE c.error
  BY <1>4, <1>8, <1>9
<1>10. CASE ~c.error
  <2>1. PICK k \in 0..n : /\ off[k] = lq /\ Len(c.results) = k
                          /\ \A i \in 1..k : A!Size(kind, ss[i]) = Len(ss[i]) /\ c.results[i] = A!Result(kind, ss[i])
    <3>1. PICK k \in 0..n : /\ off[k] <= lq
                            /\ off[k] = lq \/ off[k] >= lq
                            /\ Len(c.results) = k
                            /\ \A i \in 1..k : A!Size(kind, ss[i]) = Len(ss[i]) /\ c.results[i] = A!Result(kind, ss[i])
      <4>1. Rightly(c, lq)
        <5>. HIDE DEF Rightly
        <5>. QED BY <1>7, <1>8, <1>10 DEF T
      <4>. QED BY <4>1
    <3>2. off[k] \in Nat
      BY <1>2
    <3>3. off[k] = lq
      <4>1. off[k] <= lq /\ (off[k] = lq \/ off[k] >= lq)
        BY <3>1
      <4>. QED BY <1>3, <3>2, <4>1
    <3>. QED BY <3>1, <3>3
  <2>2. lq = lp => k = n
    <3>1. SUFFICES ASSUME lq = lp, k # n PROVE FALSE
      OBVIOUS
    <3>2. k + 1 \in 1..n /\ k + 1 \in 0..n /\ (k + 1) - 1 = k /\ n \in 0..n
      BY <3>1
    <3>3. PICK l \in Nat \ {0}, b \in Nat : l = Len(ss[k + 1]) /\ b = off[k + 1] /\ b = lq + l
      <4>1. Len(ss[k + 1]) \in Nat \ {0} /\ len[k + 1] = Len(ss[k + 1])
        BY <1>0, <3>2
      <4>2. off[k + 1] \in Nat /\ off[k + 1] = off[k] + len[k + 1]
        BY <1>2, <3>2
      <4>. QED BY <2>1, <4>1, <4>2
    <3>4. b <= lp
      BY <1>2, <1>3, <3>2, <3>3
    <3>. QED BY <3>1, <3>3, <3>4
  <2>3. w = [error |-> FALSE, results |-> c.results] /\ c.results \in Seq(ResultsOf(kind))
    BY <1>4, <1>8, <1>10 DEF Cursors
  <2>4. w.error = FALSE /\ w.results = c.results
    BY <2>3
  <2>. QED BY <1>3, <2>1, <2>2, <2>3, <2>4 DEF Decoded
<1>. QED BY <1>9, <1>10

-----------------------------------------------------------------------------
(***************************************************************************)
(* Attributes: what the device holds, and what it answers of each record.  *)
(***************************************************************************)

\* The device holds a number of the type of each attribute, and a configuration of each.
DeviceInv ==
    /\ held \in [DOMAIN Device -> Nat]
    /\ \A a \in DOMAIN Device : LET half == Types[Device[a].type].half
                                IN  half > 0 => held[a] < 2 * half
    /\ config \in [DOMAIN Device -> [min : Nat, max : Nat, change : Nat]]

\* What the device makes of a record is a number.
LEMMA StatusIs == ASSUME NEW r PROVE A!StatusOf(r) \in Nat /\ A!Success = 0
BY DEF A!StatusOf, A!Success, A!InvalidDataType, A!ReadOnly, A!Unsupported

\* What the table of the types holds.
LEMMA TypeRow ==
    ASSUME NEW t \in DOMAIN Types
    PROVE  /\ t \in Nat /\ Types[t].half \in Nat /\ Types[t].signed \in BOOLEAN
           /\ Types[t].bool \in BOOLEAN /\ Types[t].analog \in BOOLEAN
           /\ Types[t].bool => Types[t].half > 1 /\ ~Types[t].signed
<1>. USE AttributesAssumption DEF AttributesAssumption
<1>1. Types[t] \in [half : Nat, signed : BOOLEAN, bool : BOOLEAN, analog : BOOLEAN]
  OBVIOUS
<1>2. /\ Types[t].half \in Nat /\ Types[t].signed \in BOOLEAN
      /\ Types[t].bool \in BOOLEAN /\ Types[t].analog \in BOOLEAN
  BY <1>1
<1>. QED BY <1>2

\* What the table of the device holds.
LEMMA DeviceRow ==
    ASSUME NEW a \in DOMAIN Device
    PROVE  /\ a \in Nat /\ Device[a].type \in DOMAIN Types /\ Device[a].type \in Nat
           /\ Device[a].default \in [min : Nat, max : Nat, change : Nat]
           /\ Device[a].writable \in BOOLEAN
<1>. USE AttributesAssumption DEF AttributesAssumption
<1>1. Device[a] \in [type : DOMAIN Types, writable : BOOLEAN,
                     default : [min : Nat, max : Nat, change : Nat]]
  OBVIOUS
<1>2. /\ Device[a].type \in DOMAIN Types /\ Device[a].writable \in BOOLEAN
      /\ Device[a].default \in [min : Nat, max : Nat, change : Nat]
  BY <1>1
<1>. QED BY <1>2

\* A sequence of two to four numbers.
LEMMA Tuples ==
    ASSUME NEW a \in Nat, NEW b \in Nat, NEW c \in Nat, NEW d \in Nat
    PROVE  /\ <<a, b>> \in Seq(Nat) /\ Len(<<a, b>>) = 2 /\ <<a, b>>[1] = a /\ <<a, b>>[2] = b
           /\ <<a, b, c>> \in Seq(Nat) /\ Len(<<a, b, c>>) = 3
           /\ <<a, b, c>>[1] = a /\ <<a, b, c>>[2] = b /\ <<a, b, c>>[3] = c
           /\ <<a, b, c, d>> \in Seq(Nat) /\ Len(<<a, b, c, d>>) = 4
           /\ <<a, b, c, d>>[1] = a /\ <<a, b, c, d>>[2] = b
           /\ <<a, b, c, d>>[3] = c /\ <<a, b, c, d>>[4] = d
OBVIOUS

\* What begins as w does.
Starts(x, w) == x \in Seq(Nat) /\ \A m \in 1..Len(w) : m <= Len(x) => x[m] = w[m]

\* What it takes for a record to be readable.
LEMMA ReadableIf ==
    ASSUME NEW kind, NEW w \in Seq(Nat), Len(w) > 0,
           \A x : Starts(x, w) /\ Len(x) >= Len(w) =>
               \/ A!Size(kind, x) > Len(x)
               \/ A!Size(kind, x) = Len(w) /\ A!Size(kind, w) = Len(w) /\ A!Result(kind, x) = A!Result(kind, w),
           \A x : Starts(x, w) /\ Len(x) = Len(w) - 1 => A!Size(kind, x) > Len(x)
    PROVE  Readable(kind, w)
<1>1. TakenFor(kind, w)
  BY DEF TakenFor, Starts
<1>2. Noticed(kind, w)
  <2>1. SUFFICES ASSUME NEW x \in Seq(Nat), Len(x) = Len(w) - 1, \A m \in 1..Len(x) : x[m] = w[m]
                 PROVE  Starts(x, w)
    BY DEF Noticed
  <2>. QED BY <2>1 DEF Starts
<1>. QED BY <1>1, <1>2 DEF Readable

\* The number that stands for a value of a type of 2h values, with a sign.
LEMMA SignedValue ==
    ASSUME NEW h \in Nat, h > 0, NEW v \in Nat, v < 2 * h
    PROVE  {n \in -h .. h - 1 : (n - v) % (2 * h) = 0} = {IF v >= h THEN v - 2 * h ELSE v}
<1>1. ASSUME NEW n \in -h .. h - 1
      PROVE  (n - v) % (2 * h) = 0 <=> n = IF v >= h THEN v - 2 * h ELSE v
  <2>1. 2 * h \in Nat /\ 2 * h > 0 /\ n - v \in Int
    OBVIOUS
  <2>2. ASSUME (n - v) % (2 * h) = 0 PROVE n = IF v >= h THEN v - 2 * h ELSE v
    <3>1. PICK k \in Int : n - v = (2 * h) * k
      BY <2>1, <2>2, Divided
    <3>2. k = 0 \/ k = -1
      <4>1. ~(k >= 1)
        <5>1. SUFFICES ASSUME k >= 1 PROVE FALSE
          OBVIOUS
        <5>2. (2 * h) * k >= 2 * h
          BY <5>1, SMT
        <5>. QED BY <3>1, <5>2
      <4>2. ~(k <= -2)
        <5>1. SUFFICES ASSUME k <= -2 PROVE FALSE
          OBVIOUS
        <5>2. (2 * h) * k <= -4 * h
          BY <5>1, SMT
        <5>. QED BY <3>1, <5>2
      <4>. QED BY <4>1, <4>2
    <3>3. CASE k = 0
      <4>1. n = v
        BY <3>1, <3>3
      <4>. QED BY <4>1
    <3>4. CASE k = -1
      <4>1. n = v - 2 * h
        BY <2>1, <3>1, <3>4
      <4>. QED BY <4>1
    <3>. QED BY <3>2, <3>3, <3>4
  <2>3. ASSUME n = IF v >= h THEN v - 2 * h ELSE v PROVE (n - v) % (2 * h) = 0
    <3>1. n - v = (2 * h) * (-1) + 0 \/ n - v = (2 * h) * 0 + 0
      BY <2>3
    <3>. QED BY <2>1, <3>1, Quotient
  <2>. QED BY <2>2, <2>3
<1>2. (IF v >= h THEN v - 2 * h ELSE v) \in -h .. h - 1
  OBVIOUS
<1>. QED BY <1>1, <1>2

\* A record of the answer to a read, in fields: what is decoded is the number it has.
LEMMA ReadFields ==
    ASSUME DeviceInv, request.kind = "read", NEW r, r.id \in Nat, NEW w, w = A!Fields(r)
    PROVE  /\ Readable("read", w)
           /\ A!Size("read", w) = Len(w) =>
                 LET x == A!Result("read", w)
                 IN  /\ x.id = r.id /\ x.status = A!StatusOf(r)
                     /\ x.status = A!Success <=> r.id \in DOMAIN Device
                     /\ x.status = A!Success => x.value = A!Meaning(r.id)
<1>. USE StatusIs
<1>. DEFINE ok == A!StatusOf(r) = 0
<1>1. /\ ok <=> r.id \in DOMAIN Device
      /\ ~ok => w = <<r.id, A!StatusOf(r)>>
      /\ ok => w = <<r.id, 0, Device[r.id].type, held[r.id]>>
  <2>1. A!StatusOf(r) = 0 <=> r.id \in DOMAIN Device
    BY DEF A!StatusOf, A!Success, A!InvalidDataType, A!ReadOnly, A!Unsupported
  <2>2. w = IF A!StatusOf(r) = 0 THEN <<r.id, 0, Device[r.id].type, held[r.id]>> ELSE <<r.id, A!StatusOf(r)>>
    BY DEF A!Fields
  <2>. QED BY <2>1, <2>2
<1>2. \A x : /\ A!Size("read", x) = A!AttributeSize(x)
             /\ A!Result("read", x) = A!Attribute(x)
  BY DEF A!Size, A!Result
<1>3. CASE ~ok
  <2>1. PICK a \in Nat, st \in Nat : st # 0 /\ st = A!StatusOf(r) /\ a = r.id /\ w = <<a, st>>
    BY <1>1, <1>3
  <2>2. w \in Seq(Nat) /\ Len(w) = 2 /\ w[1] = a /\ w[2] = st
    BY <2>1
  <2>3. ASSUME NEW x, Starts(x, w), Len(x) >= 2
        PROVE  A!AttributeSize(x) = 2 /\ A!Attribute(x) = A!Attribute(w)
    <3>1. x[1] = a /\ x[2] = st
      BY <2>2, <2>3 DEF Starts
    <3>. QED BY <2>1, <2>2, <3>1 DEF A!AttributeSize, A!Attribute, A!Success
  <2>4. Readable("read", w)
    <3>1. A!AttributeSize(w) = 2
      BY <2>1, <2>2 DEF A!AttributeSize, A!Success
    <3>2. ASSUME NEW x, Starts(x, w), Len(x) = 1 PROVE A!AttributeSize(x) > Len(x)
      BY <3>2 DEF A!AttributeSize
    <3>3. Len(w) - 1 = 1 /\ Len(w) > 0
      BY <2>2
    <3>. QED BY <1>2, <2>2, <2>3, <3>1, <3>2, <3>3, ReadableIf
  <2>5. A!Attribute(w).id = a /\ A!Attribute(w).status = st
    BY <2>2 DEF A!Attribute
  <2>. QED BY <1>1, <1>2, <1>3, <2>1, <2>2, <2>4, <2>5
<1>4. CASE ok
  <2>1. PICK a \in Nat, t \in Nat, v \in Nat :
           a = r.id /\ t = Device[a].type /\ v = held[a] /\ a \in DOMAIN Device
    <3>1. held[r.id] \in Nat
      BY <1>1, <1>4 DEF DeviceInv
    <3>. QED BY <1>1, <1>4, <3>1, DeviceRow
  <2>2. PICK h \in Nat : h = Types[t].half /\ t \in DOMAIN Types /\ (h > 0 => v < 2 * h)
    <3>1. t \in DOMAIN Types /\ Types[t].half \in Nat
      <4>1. t \in DOMAIN Types
        BY <2>1, DeviceRow
      <4>. QED BY <4>1, TypeRow
    <3>2. Types[t].half > 0 => v < 2 * Types[t].half
      BY <2>1 DEF DeviceInv
    <3>. QED BY <3>1, <3>2
  <2>3. /\ w = <<a, 0, t, v>> /\ w \in Seq(Nat) /\ Len(w) = 4
        /\ w[1] = a /\ w[2] = 0 /\ w[3] = t /\ w[4] = v
    <3>1. w = <<a, 0, t, v>>
      BY <1>1, <1>4, <2>1
    <3>. QED BY <3>1, Tuples
  <2>4. ASSUME NEW x, Starts(x, w), Len(x) >= 3
        PROVE  A!AttributeSize(x) = IF h = 0 THEN Len(x) + 1 ELSE 4
    <3>1. x \in Seq(Nat) /\ x[2] = 0 /\ x[3] = t
      BY <2>3, <2>4 DEF Starts
    <3>. QED BY <2>2, <2>4, <3>1 DEF A!AttributeSize, A!Success
  <2>5. A!AttributeSize(w) = IF h = 0 THEN 5 ELSE 4
    <3>1. Starts(w, w) /\ Len(w) >= 3 /\ Len(w) + 1 = 5
      BY <2>3 DEF Starts
    <3>. QED BY <2>4, <3>1
  <2>6. Readable("read", w)
    <3>2. ASSUME NEW x, Starts(x, w), Len(x) >= 4
          PROVE  /\ A!Attribute(x) = A!Attribute(w)
                 /\ \/ A!AttributeSize(x) > Len(x)
                    \/ A!AttributeSize(x) = 4 /\ A!AttributeSize(w) = 4
      <4>1. x[1] = a /\ x[2] = 0 /\ x[3] = t /\ x[4] = v /\ Len(x) >= 3 /\ Len(x) \in Nat
        <5>1. x \in Seq(Nat) /\ \A m \in 1..4 : m <= Len(x) => x[m] = w[m]
          BY <2>3, <3>2 DEF Starts
        <5>2. \A m \in 1..4 : m <= Len(x)
          BY <3>2, <5>1
        <5>3. 1 \in 1..4 /\ 2 \in 1..4 /\ 3 \in 1..4 /\ 4 \in 1..4
          OBVIOUS
        <5>. QED BY <2>3, <3>2, <5>1, <5>2, <5>3
      <4>2. A!Attribute(x) = A!Attribute(w)
        BY <2>3, <4>1 DEF A!Attribute
      <4>3. A!AttributeSize(x) = IF h = 0 THEN Len(x) + 1 ELSE 4
        BY <2>4, <3>2, <4>1
      <4>4. h = 0 => A!AttributeSize(x) > Len(x)
        BY <4>1, <4>3
      <4>5. h # 0 => A!AttributeSize(x) = 4 /\ A!AttributeSize(w) = 4
        BY <2>5, <4>3
      <4>. QED BY <4>2, <4>4, <4>5
    <3>3. ASSUME NEW x, Starts(x, w), Len(x) = 3 PROVE A!AttributeSize(x) > Len(x)
      <4>1. A!AttributeSize(x) = IF h = 0 THEN Len(x) + 1 ELSE 4
        <5>1. Len(x) >= 3
          BY <3>3
        <5>. QED BY <2>4, <3>3, <5>1
      <4>. QED BY <3>3, <4>1
    <3>4. Len(w) - 1 = 3 /\ Len(w) > 0
      BY <2>3
    <3>5. ASSUME NEW x, Starts(x, w), Len(x) >= Len(w)
          PROVE  \/ A!Size("read", x) > Len(x)
                 \/ /\ A!Size("read", x) = Len(w) /\ A!Size("read", w) = Len(w)
                    /\ A!Result("read", x) = A!Result("read", w)
      <4>1. Len(x) >= 4 /\ Len(w) = 4
        BY <2>3, <3>5
      <4>2. /\ A!Attribute(x) = A!Attribute(w)
            /\ \/ A!AttributeSize(x) > Len(x)
               \/ A!AttributeSize(x) = Len(w) /\ A!AttributeSize(w) = Len(w)
        BY <3>2, <3>5, <4>1
      <4>. QED BY <1>2, <4>2
    <3>6. ASSUME NEW x, Starts(x, w), Len(x) = Len(w) - 1 PROVE A!Size("read", x) > Len(x)
      <4>1. Len(x) = 3
        BY <2>3, <3>6
      <4>. QED BY <1>2, <3>3, <3>6, <4>1, Zenon
    <3>. QED BY <2>3, <3>4, <3>5, <3>6, ReadableIf
  <2>7. /\ A!Attribute(w).id = a /\ A!Attribute(w).status = 0
        /\ A!Attribute(w).value = A!decodeValue(t, v)
    BY <2>3 DEF A!Attribute, A!Success
  <2>8. ASSUME A!AttributeSize(w) = 4 PROVE A!decodeValue(t, v) = A!Meaning(a)
    <3>1. h = Types[t].half /\ h # 0 /\ v < 2 * h
      BY <2>2, <2>5, <2>8
    <3>2. ~Types[t].signed => A!decodeValue(t, v) = A!Meaning(a)
      BY <2>1, <3>1 DEF A!decodeValue, A!Meaning
    <3>3. Types[t].bool => ~Types[t].signed
      BY <2>2, TypeRow, Zenon
    <3>4. Types[t].signed => A!Meaning(a) = {IF v >= h THEN v - 2 * h ELSE v}
      <4>1. Types[t].signed => A!Meaning(a) = {n \in -h .. h - 1 : (n - v) % (2 * h) = 0}
        BY <2>1, <3>1, <3>3 DEF A!Meaning
      <4>. QED BY <3>1, <4>1, SignedValue
    <3>5. Types[t].signed => A!decodeValue(t, v) = {IF v >= h THEN v - 2 * h ELSE v}
      BY <3>1, <3>3 DEF A!decodeValue
    <3>. QED BY <3>2, <3>4, <3>5
  <2>. QED BY <1>1, <1>2, <1>4, <2>1, <2>3, <2>6, <2>7, <2>8
<1>. QED BY <1>3, <1>4

\* A record of the answer to a write or to a configuration, in fields.
LEMMA NamedFields ==
    ASSUME request.kind \in {"write", "reporting"}, NEW r, r.id \in Nat, NEW w, w = A!Fields(r)
    PROVE  /\ Readable(request.kind, w) /\ w[1] = A!StatusOf(r)
           /\ A!Result(request.kind, w) = [id |-> r.id, status |-> A!StatusOf(r)]
<1>1. PICK a \in Nat, st \in Nat : a = r.id /\ st = A!StatusOf(r)
  BY StatusIs
<1>2. CASE request.kind = "write"
  <2>1. w = <<st, a>>
    BY <1>1, <1>2 DEF A!Fields
  <2>2. w \in Seq(Nat) /\ Len(w) = 2 /\ w[1] = st /\ w[2] = a
    BY <2>1, Tuples
  <2>3. \A x : A!Size("write", x) = 2 /\ A!Result("write", x) = [id |-> x[2], status |-> x[1]]
    BY DEF A!Size, A!Result
  <2>4. ASSUME NEW x, Starts(x, w), Len(x) >= Len(w) PROVE A!Result("write", x) = A!Result("write", w)
    <3>1. x[1] = w[1] /\ x[2] = w[2]
      BY <2>2, <2>4 DEF Starts
    <3>. QED BY <2>3, <3>1
  <2>5. Len(w) > 0 /\ Len(w) = 2 /\ 2 > 2 - 1
    BY <2>2
  <2>6. Readable("write", w)
    BY <2>2, <2>3, <2>4, <2>5, ReadableIf
  <2>. QED BY <1>1, <1>2, <2>2, <2>3, <2>6
<1>3. CASE request.kind = "reporting"
  <2>1. w = <<st, 0, a>>
    BY <1>1, <1>3 DEF A!Fields, A!SendDirection
  <2>2. w \in Seq(Nat) /\ Len(w) = 3 /\ w[1] = st /\ w[3] = a
    BY <2>1, Tuples
  <2>3. \A x : A!Size("reporting", x) = 3 /\ A!Result("reporting", x) = [id |-> x[3], status |-> x[1]]
    BY DEF A!Size, A!Result
  <2>4. ASSUME NEW x, Starts(x, w), Len(x) >= Len(w)
        PROVE A!Result("reporting", x) = A!Result("reporting", w)
    <3>1. x[1] = w[1] /\ x[3] = w[3]
      BY <2>2, <2>4 DEF Starts
    <3>. QED BY <2>3, <3>1
  <2>5. Len(w) > 0 /\ Len(w) = 3 /\ 3 > 3 - 1
    BY <2>2
  <2>6. Readable("reporting", w)
    BY <2>2, <2>3, <2>4, <2>5, ReadableIf
  <2>. QED BY <1>1, <1>3, <2>2, <2>3, <2>6
<1>. QED BY <1>2, <1>3

\* It is as long as it should be.
LEMMA NamedSize ==
    ASSUME request.kind \in {"write", "reporting"}, NEW r, r.id \in Nat, NEW w, w = A!Fields(r)
    PROVE  A!Size(request.kind, w) = Len(w)
<1>1. PICK a \in Nat, st \in Nat : a = r.id /\ st = A!StatusOf(r)
  BY StatusIs
<1>2. CASE request.kind = "write"
  <2>1. w = <<st, a>>
    BY <1>1, <1>2 DEF A!Fields
  <2>2. Len(w) = 2
    BY <2>1, Tuples
  <2>. QED BY <1>2, <2>2 DEF A!Size
<1>3. CASE request.kind = "reporting"
  <2>1. w = <<st, 0, a>>
    BY <1>1, <1>3 DEF A!Fields, A!SendDirection
  <2>2. Len(w) = 3
    BY <2>1, Tuples
  <2>. QED BY <1>3, <2>2 DEF A!Size
<1>. QED BY <1>2, <1>3

\* A sequence of seven numbers.
LEMMA Longer ==
    ASSUME NEW a \in Nat, NEW b \in Nat, NEW c \in Nat, NEW d \in Nat, NEW e \in Nat, NEW f \in Nat,
           NEW g \in Nat, NEW w, w = <<a, b, c, d, e, f>> \o <<g>>
    PROVE  /\ w \in Seq(Nat) /\ Len(w) = 7 /\ w[1] = a /\ w[2] = b /\ w[3] = c /\ w[4] = d
           /\ w[5] = e /\ w[6] = f /\ w[7] = g
<1>1. PICK s \in Seq(Nat) : s = <<a, b, c, d, e, f>> /\ Len(s) = 6
  <2>1. <<a, b, c, d, e, f>> \in Seq(Nat) /\ Len(<<a, b, c, d, e, f>>) = 6
    OBVIOUS
  <2>. QED BY <2>1, Zenon
<1>2. s[1] = a /\ s[2] = b /\ s[3] = c /\ s[4] = d /\ s[5] = e /\ s[6] = f
  BY <1>1
<1>3. w = Append(s, g)
  BY <1>1
<1>4. /\ w \in Seq(Nat) /\ Len(w) = 6 + 1 /\ w[6 + 1] = g
      /\ \A k \in 1..6 : w[k] = s[k]
  BY <1>1, <1>3, Appending
<1>5. w[1] = s[1] /\ w[2] = s[2] /\ w[3] = s[3] /\ w[4] = s[4] /\ w[5] = s[5] /\ w[6] = s[6]
  BY <1>4
<1>6. 6 + 1 = 7
  OBVIOUS
<1>. QED BY <1>2, <1>4, <1>5, <1>6

\* What -show should tell of an attribute.
ShownRight(x) ==
    x.status = A!Success =>
       /\ x.reporting = A!Reports(config[x.id])
       /\ x.reporting => /\ x.min = config[x.id].min /\ x.max = config[x.id].max
                         /\ x.change = IF Types[Device[x.id].type].analog
                                       THEN {config[x.id].change} ELSE {}

\* A record of the answer to -show, in fields: what is decoded is the configuration it has.
LEMMA ShowFields ==
    ASSUME DeviceInv, request.kind = "show", NEW r, r.id \in Nat, NEW w, w = A!Fields(r)
    PROVE  Readable("show", w) /\ ShownRight(A!Result("show", w))
<1>. USE StatusIs DEF A!SendDirection, A!Success
<1>1. PICK a \in Nat, st \in Nat : a = r.id /\ st = A!StatusOf(r) /\ (st = 0 => a \in DOMAIN Device)
  <2>1. A!StatusOf(r) = 0 => r.id \in DOMAIN Device
    BY DEF A!StatusOf, A!Unsupported
  <2>. QED BY <2>1
<1>2. \A x : /\ A!Size("show", x) = A!ReportingSize(x)
             /\ A!Result("show", x) = A!ReportingStatus(x)
  BY DEF A!Size, A!Result
<1>3. CASE st # 0
  <2>1. w = <<st, 0, a>>
    BY <1>1, <1>3 DEF A!Fields
  <2>2. w \in Seq(Nat) /\ Len(w) = 3 /\ w[1] = st /\ w[2] = 0 /\ w[3] = a
    BY <2>1, Tuples
  <2>3. ASSUME NEW x, Starts(x, w), Len(x) >= 3
        PROVE  A!ReportingSize(x) = 3 /\ A!ReportingStatus(x) = A!ReportingStatus(w)
    <3>1. x[1] = st /\ x[2] = 0 /\ x[3] = a
      BY <2>2, <2>3 DEF Starts
    <3>2. A!ReportingSize(x) = 3
      BY <1>3, <3>1 DEF A!ReportingSize
    <3>3. A!ReportingStatus(x) = A!ReportingStatus(w)
      BY <1>3, <2>2, <3>1 DEF A!ReportingStatus
    <3>. QED BY <3>2, <3>3
  <2>4. A!ReportingSize(w) = 3
    BY <1>3, <2>2 DEF A!ReportingSize
  <2>5. ASSUME NEW x, Starts(x, w), Len(x) = 2 PROVE A!ReportingSize(x) > Len(x)
    BY <2>5 DEF A!ReportingSize
  <2>6. Readable("show", w)
    <3>1. ASSUME NEW x, Starts(x, w), Len(x) >= Len(w)
          PROVE  /\ A!Size("show", x) = Len(w) /\ A!Size("show", w) = Len(w)
                 /\ A!Result("show", x) = A!Result("show", w)
      BY <1>2, <2>2, <2>3, <2>4, <3>1
    <3>2. ASSUME NEW x, Starts(x, w), Len(x) = Len(w) - 1 PROVE A!Size("show", x) > Len(x)
      <4>1. Len(x) = 2
        BY <2>2, <3>2
      <4>. QED BY <1>2, <2>5, <3>2, <4>1
    <3>3. Len(w) > 0
      BY <2>2
    <3>. QED BY <2>2, <3>1, <3>2, <3>3, ReadableIf
  <2>7. A!ReportingStatus(w).status = st
    BY <2>2 DEF A!ReportingStatus
  <2>. QED BY <1>2, <1>3, <2>6, <2>7 DEF ShownRight
<1>4. CASE st = 0
  <2>1. a \in DOMAIN Device
    BY <1>1, <1>4
  <2>2. PICK t \in Nat, lo \in Nat, hi \in Nat, ch \in Nat, h \in Nat, an \in BOOLEAN :
           /\ t = Device[a].type /\ h = Types[t].half /\ an = Types[t].analog
           /\ lo = config[a].min /\ hi = config[a].max /\ ch = config[a].change
    <3>1. config[a] \in [min : Nat, max : Nat, change : Nat]
      BY <2>1 DEF DeviceInv
    <3>2. config[a].min \in Nat /\ config[a].max \in Nat /\ config[a].change \in Nat
      BY <3>1
    <3>3. Device[a].type \in DOMAIN Types /\ Device[a].type \in Nat
      BY <2>1, DeviceRow
    <3>4. Types[Device[a].type].half \in Nat /\ Types[Device[a].type].analog \in BOOLEAN
      BY <3>3, TypeRow
    <3>. QED BY <3>2, <3>3, <3>4
  <2>. DEFINE n == IF an THEN 7 ELSE 6
  <2>3. w = <<0, 0, a, t, lo, hi>> \o IF an THEN <<ch>> ELSE <<>>
    BY <1>1, <1>4, <2>2 DEF A!Fields
  <2>4. /\ w \in Seq(Nat) /\ Len(w) = n /\ w[1] = 0 /\ w[2] = 0 /\ w[3] = a /\ w[4] = t
        /\ w[5] = lo /\ w[6] = hi /\ (an => w[7] = ch)
    <3>1. CASE an
      <4>1. w = <<0, 0, a, t, lo, hi>> \o <<ch>>
        BY <2>3, <3>1
      <4>. QED BY <3>1, <4>1, Longer
    <3>2. CASE ~an
      <4>1. w = <<0, 0, a, t, lo, hi>>
        BY <2>3, <3>2
      <4>. QED BY <3>2, <4>1
    <3>. QED BY <3>1, <3>2
  <2>5. ASSUME NEW x, Starts(x, w), Len(x) >= 5
        PROVE  A!ReportingSize(x) = IF ~an THEN 6 ELSE IF h = 0 THEN Len(x) + 1 ELSE 7
    <3>0. PICK l \in Nat : l = Len(w) /\ l >= 6
      BY <2>4
    <3>1. x[1] = 0 /\ x[2] = 0 /\ x[4] = t /\ Len(x) \in Nat
      <4>1. x \in Seq(Nat) /\ Len(x) \in Nat
        BY <2>5 DEF Starts
      <4>2. \A m \in 1..5 : m \in 1..Len(w) /\ m <= Len(x)
        BY <2>5, <3>0, <4>1
      <4>3. \A m \in 1..5 : x[m] = w[m]
        BY <2>5, <4>2 DEF Starts
      <4>4. x[1] = w[1] /\ x[2] = w[2] /\ x[4] = w[4]
        BY <4>3
      <4>. QED BY <2>4, <4>1, <4>4
    <3>. QED BY <2>2, <2>5, <3>1 DEF A!ReportingSize
  <2>6. ASSUME NEW x, Starts(x, w), Len(x) >= n
        PROVE  A!ReportingStatus(x) = A!ReportingStatus(w)
    <3>1. /\ x[1] = w[1] /\ x[2] = w[2] /\ x[3] = w[3] /\ x[4] = w[4] /\ x[5] = w[5] /\ x[6] = w[6]
          /\ an => x[7] = w[7]
      <4>1. \A m \in 1..n : m \in 1..Len(w) /\ m <= Len(x)
        BY <2>4, <2>6 DEF Starts
      <4>2. \A m \in 1..n : x[m] = w[m]
        BY <2>6, <4>1 DEF Starts
      <4>. QED BY <4>2
    <3>2. CASE an
      BY <2>2, <2>4, <3>1, <3>2 DEF A!ReportingStatus
    <3>3. CASE ~an
      BY <2>2, <2>4, <3>1, <3>3 DEF A!ReportingStatus
    <3>. QED BY <3>2, <3>3
  <2>7. Readable("show", w)
    <3>0. Len(w) > 0 /\ n \in {6, 7} /\ Len(w) = n /\ Starts(w, w)
      BY <2>4 DEF Starts
    <3>1. ASSUME NEW x, Starts(x, w), Len(x) >= Len(w)
          PROVE  \/ A!Size("show", x) > Len(x)
                 \/ /\ A!Size("show", x) = Len(w) /\ A!Size("show", w) = Len(w)
                    /\ A!Result("show", x) = A!Result("show", w)
      <4>1. /\ A!Size("show", x) = IF ~an THEN 6 ELSE IF h = 0 THEN Len(x) + 1 ELSE 7
            /\ A!Size("show", w) = IF ~an THEN 6 ELSE IF h = 0 THEN Len(w) + 1 ELSE 7
            /\ Len(x) \in Nat
        <5>1. Len(x) >= 5 /\ Len(w) >= 5 /\ Len(x) \in Nat
          BY <3>0, <3>1 DEF Starts
        <5>. QED BY <1>2, <2>5, <3>0, <3>1, <5>1
      <4>2. A!Result("show", x) = A!Result("show", w)
        BY <1>2, <2>6, <3>0, <3>1
      <4>. QED BY <3>0, <4>1, <4>2
    <3>2. ASSUME NEW x, Starts(x, w), Len(x) = Len(w) - 1 PROVE A!Size("show", x) > Len(x)
      <4>1. Len(x) >= 5 /\ Len(x) \in Nat /\ Len(x) = n - 1
        BY <3>0, <3>2
      <4>2. A!Size("show", x) = IF ~an THEN 6 ELSE IF h = 0 THEN Len(x) + 1 ELSE 7
        BY <1>2, <2>5, <3>2, <4>1
      <4>. QED BY <4>1, <4>2
    <3>. QED BY <2>4, <3>0, <3>1, <3>2, ReadableIf
  <2>8. /\ A!ReportingStatus(w).id = a /\ A!ReportingStatus(w).status = 0
        /\ A!ReportingStatus(w).reporting = (hi # Never)
        /\ hi # Never => /\ A!ReportingStatus(w).min = lo /\ A!ReportingStatus(w).max = hi
                         /\ A!ReportingStatus(w).change = IF an THEN {ch} ELSE {}
    BY <2>2, <2>4 DEF A!ReportingStatus
  <2>9. A!Reports(config[a]) = (hi # Never)
    BY <2>2 DEF A!Reports
  <2>10. ShownRight(A!ReportingStatus(w))
    BY <2>2, <2>8, <2>9 DEF ShownRight
  <2>. QED BY <1>2, <2>7, <2>10
<1>. QED BY <1>3, <1>4

-----------------------------------------------------------------------------
(***************************************************************************)
(* What is made of a whole answer, in whatever order it lists the records. *)
(***************************************************************************)

\* s is of length c, and lists the elements of Q.
Lists(s, c, Q) == s \in [1..c -> Q] /\ \A x \in Q : \E i \in 1..c : s[i] = x

\* The elements of a set in some order: each is there.
LEMMA Ordered ==
    ASSUME NEW n \in Nat, NEW Q, Q \subseteq 1..n, NEW s, s \in A!Orders(Q)
    PROVE  \E c \in Nat : Lists(s, c, Q)
<1>1. A!Cardinality(Q) \in Nat
  <2>1. A!Cardinality(Q) = Cardinality(Q)
    BY DEF A!Cardinality, Cardinality
  <2>2. IsFiniteSet(1..n)
    BY FS_Interval
  <2>. QED BY <2>1, <2>2, FS_Subset, FS_CardinalityType
<1>2. PICK c \in Nat : c = A!Cardinality(Q)
  BY <1>1
<1>3. s \in [1..c -> Q] /\ A!Range(s) = Q
  BY <1>2 DEF A!Orders
<1>4. \A x \in Q : \E i \in 1..c : s[i] = x
  BY <1>3 DEF A!Range
<1>. QED BY <1>3, <1>4 DEF Lists

\* A payload that lost its last field.
LEMMA Cut ==
    ASSUME NEW p \in Seq(Nat), NEW q, q = p \/ q = A!Front(p)
    PROVE  CutOf(q, p)
<1>. USE DEF CutOf
<1>1. PICK l \in Nat : l = Len(p)
  OBVIOUS
<1>2. CASE q = p
  BY <1>2
<1>3. CASE q = A!Front(p)
  <2>1. q = SubSeq(p, 1, l - 1)
    BY <1>1, <1>3 DEF A!Front
  <2>2. CASE l = 0
    <3>1. q = <<>>
      BY <1>1, <2>1, <2>2
    <3>. QED BY <1>1, <2>2, <3>1
  <2>3. CASE l # 0
    <3>1. q = [i \in 1..(l - 1) |-> p[i]]
      BY <1>1, <2>1, <2>3
    <3>2. q \in Seq(Nat) /\ Len(q) = l - 1
      BY <1>1, <2>3, <3>1
    <3>. QED BY <1>1, <3>1, <3>2
  <2>. QED BY <2>2, <2>3
<1>. QED BY <1>2, <1>3

\* A write and a configuration may be answered briefly: with what was refused, if anything was.
Briefly == request.kind \in {"write", "reporting"}
Bad(rs) == {i \in DOMAIN rs : A!StatusOf(rs[i]) # A!Success}
Mentioned(rs) == IF Briefly /\ Bad(rs) # {} THEN Bad(rs) ELSE DOMAIN rs

\* Each result is that of one of these records; each of them has a result.
Owned(rs, res) ==
    \A i \in DOMAIN res : \E j \in Mentioned(rs) :
        /\ A!Size(request.kind, A!Fields(rs[j])) = Len(A!Fields(rs[j]))
        /\ res[i] = A!Result(request.kind, A!Fields(rs[j]))
Covered(rs, res) ==
    \A j \in Mentioned(rs) : \E i \in DOMAIN res : res[i] = A!Result(request.kind, A!Fields(rs[j]))

\* w is what a decoder makes of what the device answers about these records, whole or not.
Faithful(rs, w, whole) ==
    \/ w = A!Said
    \/ /\ w.error = FALSE /\ w.results \in Seq(ResultsOf(request.kind))
       /\ Owned(rs, w.results) /\ (whole => Covered(rs, w.results))

\* Each record of the answer is readable.
LEMMA FieldsReadable ==
    ASSUME DeviceInv, request.kind \in RequestKinds, NEW r, r.id \in Nat
    PROVE  Readable(request.kind, A!Fields(r))
<1>1. CASE request.kind = "read"
  <2>1. Readable("read", A!Fields(r))
    BY <1>1, ReadFields
  <2>. QED BY <1>1, <2>1
<1>2. CASE request.kind \in {"write", "reporting"}
  BY <1>2, NamedFields
<1>3. CASE request.kind = "show"
  <2>1. Readable("show", A!Fields(r))
    BY <1>3, ShowFields
  <2>. QED BY <1>3, <2>1
<1>. QED BY <1>1, <1>2, <1>3 DEF RequestKinds

\* The records in some order, in fields, and perhaps without the last field.
LEMMA Listing ==
    ASSUME DeviceInv, request.kind \in RequestKinds, NEW n \in Nat, NEW rs, DOMAIN rs = 1..n,
           \A i \in 1..n : rs[i].id \in Nat,
           NEW s, s \in A!Orders(Mentioned(rs)),
           NEW p, p = A!FlattenSeq([i \in DOMAIN s |-> A!Fields(rs[s[i]])]),
           NEW q, q = p \/ q = A!Front(p)
    PROVE  /\ p \in Seq(Nat)
           /\ Faithful(rs, A!Walked(request.kind, q), q = p)
           /\ Briefly /\ Bad(rs) # {} => q # <<A!Success>>
<1>. DEFINE Q == Mentioned(rs)
<1>0. Q \subseteq 1..n /\ s \in A!Orders(Q)
  BY DEF Mentioned, Bad
<1>. HIDE DEF Q
<1>1. PICK c \in Nat : s \in [1..c -> Q] /\ \A x \in Q : \E i \in 1..c : s[i] = x
  <2>1. \E c \in Nat : Lists(s, c, Q)
    BY <1>0, Ordered
  <2>. QED BY <2>1 DEF Lists
<1>. DEFINE ss == [i \in 1..c |-> A!Fields(rs[s[i]])]
<1>2. p = A!FlattenSeq(ss)
  BY <1>1
<1>3. ASSUME NEW i \in 1..c PROVE /\ s[i] \in Q /\ s[i] \in 1..n /\ ss[i] = A!Fields(rs[s[i]])
                                  /\ Readable(request.kind, ss[i])
  <2>1. s[i] \in Q /\ s[i] \in 1..n
    BY <1>0, <1>1
  <2>2. ss[i] = A!Fields(rs[s[i]])
    OBVIOUS
  <2>3. Readable(request.kind, A!Fields(rs[s[i]]))
    BY <2>1, FieldsReadable
  <2>. QED BY <2>1, <2>2, <2>3
<1>4. /\ ss \in [1..c -> Seq(Nat)]
      /\ \A i \in 1..c : Readable(request.kind, ss[i])
  <2>1. \A i \in 1..c : A!Fields(rs[s[i]]) \in Seq(Nat)
    BY <1>3 DEF Readable
  <2>2. ss \in [1..c -> Seq(Nat)]
    BY <2>1
  <2>. QED BY <1>3, <2>2
<1>. HIDE DEF ss
<1>5. PICK off : Begins(off, c, [j \in 1..c |-> Len(ss[j])]) /\ Laid(p, c, ss, off)
  BY <1>2, <1>4, Flattened
<1>6. p \in Seq(Nat)
  BY <1>5 DEF Laid
<1>7. CutOf(q, p)
  BY <1>6, Cut
<1>8. Briefly /\ Bad(rs) # {} => q # <<A!Success>>
  <2>1. SUFFICES ASSUME Briefly, Bad(rs) # {}, q = <<A!Success>> PROVE FALSE
    OBVIOUS
  <2>2. Q = Bad(rs)
    BY <2>1 DEF Q, Mentioned
  <2>3. 1 \in 1..c
    BY <1>1, <2>1, <2>2
  <2>4. ss[1][1] = A!StatusOf(rs[s[1]]) /\ A!StatusOf(rs[s[1]]) # A!Success
    <3>1. rs[s[1]].id \in Nat
      BY <1>3, <2>3
    <3>2. A!Fields(rs[s[1]])[1] = A!StatusOf(rs[s[1]])
      BY <2>1, <3>1, NamedFields DEF Briefly
    <3>3. s[1] \in Bad(rs)
      BY <1>3, <2>2, <2>3
    <3>. QED BY <1>3, <2>3, <3>2, <3>3 DEF Bad
  <2>5. p[0 + 1] = ss[1][1]
    <3>1. off[1 - 1] = 0
      BY <1>5 DEF Begins
    <3>2. 1 \in 1..Len(ss[1])
      <4>1. Len(ss[1]) \in Nat /\ Len(ss[1]) > 0
        BY <1>4, <2>3 DEF Readable
      <4>. QED BY <4>1
    <3>3. p[off[1 - 1] + 1] = ss[1][1]
      BY <1>5, <2>3, <3>2 DEF Laid
    <3>. QED BY <3>1, <3>3
  <2>6. q[1] = A!Success /\ 1 \in 1..Len(q) /\ 0 + 1 = 1
    BY <2>1
  <2>. QED BY <1>7, <2>4, <2>5, <2>6 DEF CutOf
<1>9. Faithful(rs, A!Walked(request.kind, q), q = p)
  <2>1. PICK w : w = A!Walked(request.kind, q)
    OBVIOUS
  <2>2. \/ w = A!Said
        \/ /\ w.error = FALSE
           /\ \E k \in 0..c : /\ Len(q) = Len(p) => k = c
                              /\ w.results \in Seq(ResultsOf(request.kind)) /\ Len(w.results) = k
                              /\ \A i \in 1..k : /\ A!Size(request.kind, ss[i]) = Len(ss[i])
                                                 /\ w.results[i] = A!Result(request.kind, ss[i])
    <3>1. PICK kind \in RequestKinds : kind = request.kind
      OBVIOUS
    <3>2. AllReadable(kind, ss, c)
      BY <1>4, <3>1 DEF AllReadable
    <3>3. w = A!Walked(kind, q)
      BY <2>1, <3>1
    <3>4. \/ w = A!Said
          \/ /\ w.error = FALSE
             /\ \E k \in 0..c : (Len(q) = Len(p) => k = c) /\ Decoded(kind, ss, k, w)
      BY <1>2, <1>4, <1>6, <1>7, <3>2, <3>3, Walking
    <3>. QED BY <3>1, <3>4 DEF Decoded
  <2>3. CASE w = A!Said
    BY <2>1, <2>3 DEF Faithful
  <2>4. ASSUME w.error = FALSE,
               NEW k \in 0..c, Len(q) = Len(p) => k = c,
               w.results \in Seq(ResultsOf(request.kind)), Len(w.results) = k,
               \A i \in 1..k : /\ A!Size(request.kind, ss[i]) = Len(ss[i])
                               /\ w.results[i] = A!Result(request.kind, ss[i])
        PROVE  Faithful(rs, w, q = p)
    <3>1. DOMAIN w.results = 1..k /\ \A i \in 1..k : i \in 1..c
      BY <2>4
    <3>2. Owned(rs, w.results)
      <4>1. ASSUME NEW i \in DOMAIN w.results
            PROVE  \E j \in Mentioned(rs) :
                      /\ A!Size(request.kind, A!Fields(rs[j])) = Len(A!Fields(rs[j]))
                      /\ w.results[i] = A!Result(request.kind, A!Fields(rs[j]))
        <5>1. i \in 1..k /\ i \in 1..c
          BY <3>1
        <5>2. s[i] \in Mentioned(rs) /\ ss[i] = A!Fields(rs[s[i]])
          BY <1>3, <5>1 DEF Q
        <5>3. A!Size(request.kind, ss[i]) = Len(ss[i]) /\ w.results[i] = A!Result(request.kind, ss[i])
          BY <2>4, <5>1
        <5>. QED BY <5>2, <5>3
      <4>. QED BY <4>1 DEF Owned
    <3>3. ASSUME q = p PROVE Covered(rs, w.results)
      <4>1. k = c
        BY <2>4, <3>3
      <4>2. ASSUME NEW j \in Q
            PROVE  \E i \in DOMAIN w.results : w.results[i] = A!Result(request.kind, A!Fields(rs[j]))
        <5>1. PICK i \in 1..c : s[i] = j
          BY <1>1
        <5>. QED BY <1>3, <2>4, <3>1, <4>1, <5>1
      <4>. QED BY <4>2 DEF Covered, Q
    <3>. QED BY <2>4, <3>2, <3>3 DEF Faithful
  <2>. QED BY <2>1, <2>2, <2>3, <2>4
<1>. QED BY <1>6, <1>8, <1>9

\* What was typed and what is asked of the device: of each attribute, in order, what was
\* typed for it.
WriteAsked(command, rs) ==
    \E flag \in Nat : \A i \in DOMAIN command.attrs :
        /\ command.words[i] \in DOMAIN TypedValues
        /\ rs[i] \in A!WriteRecord(command.attrs[i], command.words[i], flag)

ReportAsked(command, rs) ==
    /\ command.flags \in Flags /\ ~(command.flags.change < 0)
    /\ \A i \in DOMAIN command.attrs : rs[i] \in A!ReportRecord(command.attrs[i], command.flags)

\* A request is of the command in progress, with a record for each attribute it names.
RequestInv ==
    request # A!Nothing =>
       /\ typed # A!Nothing /\ typed.kind = request.kind /\ request.kind \in RequestKinds
       /\ typed.attrs \in Seq(Nat) /\ DOMAIN request.records = DOMAIN typed.attrs
       /\ \A i \in DOMAIN typed.attrs : request.records[i].id = typed.attrs[i]
       /\ request.kind = "write" => WriteAsked(typed, request.records)
       /\ request.kind = "reporting" => ReportAsked(typed, request.records)

\* Nothing is decoded to nothing.
LEMMA Emptied ==
    ASSUME NEW kind \in RequestKinds, NEW w, w = A!Walked(kind, <<>>)
    PROVE  w.error = FALSE /\ w.results = <<>>
<1>1. PICK p : p = <<>>
  OBVIOUS
<1>2. p \in Seq(Nat) /\ Len(p) = 0
  BY <1>1
<1>3. PICK f \in [0..Len(p) -> Cursors(kind)] :
         /\ f[0].at = 0 /\ f[0].error = FALSE /\ f[0].results = <<>>
         /\ \A i \in 1..Len(p) : f[i] = A!Turn(kind, p, f[i - 1])
         /\ A!Walked(kind, p) = IF f[Len(p)].error THEN A!Said
                                ELSE [error |-> FALSE, results |-> f[Len(p)].results]
  BY <1>2, Looped
<1>4. w = [error |-> FALSE, results |-> <<>>]
  BY <1>1, <1>2, <1>3
<1>. QED BY <1>4

\* What is made of an answer is faithful, the byte that stands for every attribute included.
LEMMA Outcome ==
    ASSUME DeviceInv, RequestInv, request # A!Nothing, NEW rs, rs = request.records,
           NEW p, p \in A!Payload(rs), NEW q, q = p \/ q = A!Front(p), NEW w,
           w = IF Briefly /\ q = <<A!Success>> THEN A!Shorthand ELSE A!Walked(request.kind, q)
    PROVE  Faithful(rs, w, q = p)
<1>1. PICK n \in Nat : /\ DOMAIN rs = 1..n /\ DOMAIN typed.attrs = 1..n
                       /\ \A i \in 1..n : rs[i].id \in Nat /\ rs[i].id = typed.attrs[i]
  <2>1. PICK s \in Seq(Nat) : s = typed.attrs
    BY DEF RequestInv
  <2>2. Len(s) \in Nat /\ DOMAIN s = 1..Len(s) /\ \A i \in 1..Len(s) : s[i] \in Nat
    OBVIOUS
  <2>. QED BY <2>1, <2>2 DEF RequestInv
<1>2. request.kind \in RequestKinds
  BY DEF RequestInv
<1>3. \/ \E s : /\ s \in A!Orders(Mentioned(rs))
                /\ p = A!FlattenSeq([i \in DOMAIN s |-> A!Fields(rs[s[i]])])
      \/ Briefly /\ Bad(rs) = {} /\ p = <<A!Success>>
  BY DEF A!Payload, Mentioned, Bad, Briefly
<1>4. ASSUME NEW s, s \in A!Orders(Mentioned(rs)),
             p = A!FlattenSeq([i \in DOMAIN s |-> A!Fields(rs[s[i]])])
      PROVE  /\ p \in Seq(Nat) /\ Faithful(rs, A!Walked(request.kind, q), q = p)
             /\ Briefly /\ Bad(rs) # {} => q # <<A!Success>>
  BY <1>1, <1>2, <1>4, Listing
<1>5. ASSUME Briefly, Bad(rs) = {} PROVE Faithful(rs, A!Shorthand, TRUE)
  <2>1. PICK z, res : z = A!Shorthand /\ res = z.results
    OBVIOUS
  <2>2. z.error = FALSE /\ res = [i \in 1..n |-> [id |-> typed.attrs[i], status |-> A!Success]]
    BY <1>1, <2>1 DEF A!Shorthand
  <2>3. ASSUME NEW i \in 1..n
        PROVE  /\ A!Size(request.kind, A!Fields(rs[i])) = Len(A!Fields(rs[i]))
               /\ res[i] = A!Result(request.kind, A!Fields(rs[i]))
               /\ res[i] \in ResultsOf(request.kind)
    <3>1. rs[i].id \in Nat /\ rs[i].id = typed.attrs[i] /\ A!StatusOf(rs[i]) = A!Success
      BY <1>1, <1>5 DEF Bad
    <3>2. PICK u : u = A!Fields(rs[i])
      OBVIOUS
    <3>3. /\ Readable(request.kind, u)
          /\ A!Result(request.kind, u) = [id |-> rs[i].id, status |-> A!StatusOf(rs[i])]
      BY <1>5, <3>1, <3>2, NamedFields DEF Briefly
    <3>4. u \in Seq(Nat) /\ TakenFor(request.kind, u)
      BY <3>3 DEF Readable
    <3>5. res[i] = A!Result(request.kind, u)
      BY <2>2, <3>1, <3>3
    <3>6. A!Size(request.kind, u) = Len(u)
      BY <1>5, <3>1, <3>2, NamedSize DEF Briefly
    <3>7. res[i] \in ResultsOf(request.kind)
      BY <3>4, <3>5 DEF ResultsOf
    <3>. QED BY <3>2, <3>5, <3>6, <3>7
  <2>4. res \in Seq(ResultsOf(request.kind)) /\ Len(res) = n
    <3>. DEFINE X == ResultsOf(request.kind)
    <3>1. res \in [1..n -> X]
      BY <2>2, <2>3
    <3>. HIDE DEF X
    <3>2. res \in Seq(X) /\ Len(res) = n
      BY <3>1
    <3>. QED BY <3>2 DEF X
  <2>5. Mentioned(rs) = 1..n
    BY <1>1, <1>5 DEF Mentioned
  <2>6. DOMAIN res = 1..n
    BY <2>2
  <2>7. Owned(rs, res)
    BY <2>3, <2>5, <2>6 DEF Owned
  <2>8. Covered(rs, res)
    BY <2>3, <2>5, <2>6 DEF Covered
  <2>. QED BY <2>1, <2>2, <2>4, <2>7, <2>8 DEF Faithful
<1>6. CASE Briefly /\ q = <<A!Success>>
  <2>1. Bad(rs) = {}
    BY <1>3, <1>4, <1>6
  <2>2. Faithful(rs, A!Shorthand, TRUE)
    BY <1>5, <1>6, <2>1
  <2>. QED BY <1>6, <2>2 DEF Faithful
<1>7. CASE ~(Briefly /\ q = <<A!Success>>)
  <2>1. w = A!Walked(request.kind, q)
    BY <1>7
  <2>2. CASE Briefly /\ Bad(rs) = {} /\ p = <<A!Success>>
    <3>1. p \in Seq(Nat) /\ Len(p) = 1 /\ q = A!Front(p)
      BY <1>7, <2>2, StatusIs
    <3>2. q = SubSeq(p, 1, 0)
      BY <3>1 DEF A!Front
    <3>3. q = <<>>
      BY <3>1, <3>2
    <3>4. PICK kind \in RequestKinds : kind = request.kind
      BY <1>2
    <3>5. w.error = FALSE /\ w.results = <<>>
      BY <2>1, <3>3, <3>4, Emptied
    <3>6. Owned(rs, w.results)
      BY <3>5 DEF Owned
    <3>7. q # p
      <4>1. Len(q) = 0 /\ Len(p) = 1
        BY <3>1, <3>3
      <4>. QED BY <4>1
    <3>8. <<>> \in Seq(ResultsOf(request.kind))
      OBVIOUS
    <3>. QED BY <3>5, <3>6, <3>7, <3>8 DEF Faithful
  <2>. QED BY <1>3, <1>4, <2>1, <2>2
<1>. QED BY <1>6, <1>7

-----------------------------------------------------------------------------
(***************************************************************************)
(* What is typed, what is encoded of it, and what that stands for.         *)
(***************************************************************************)

\* The number that a value of a type stands for, and what is typed for one.
Means(t, v) ==
    IF t.bool /\ v = 2 * t.half - 1 THEN {}
    ELSE IF t.bool THEN {IF v = 0 THEN 0 ELSE 1}
    ELSE IF t.signed THEN {n \in -t.half .. t.half - 1 : (n - v) % (2 * t.half) = 0}
    ELSE {v}

TypedFor(t, w) == IF t.bool THEN {IF b THEN 1 ELSE 0 : b \in w.bool} ELSE w.int

\* A value that was encoded is of its type, and stands for the number.
LEMMA Encoded ==
    ASSUME NEW t \in DOMAIN Types, NEW n \in Int, -HalfWord <= n, n < 2 * HalfWord,
           Types[t].signed => n < HalfWord, NEW v, v \in A!encodeValue(t, n)
    PROVE  /\ v \in Nat /\ (Types[t].half > 0 => v < 2 * Types[t].half) /\ Types[t].half > 0
           /\ v = IF n < 0 THEN n + 2 * Types[t].half ELSE n
           /\ IF Types[t].signed THEN n \in -Types[t].half .. Types[t].half - 1 ELSE 0 <= n
<1>1. PICK h \in Nat, s \in BOOLEAN : h = Types[t].half /\ s = Types[t].signed
  BY TypeRow
<1>2. HalfWord \in Nat
  BY AttributesAssumption DEF AttributesAssumption
<1>3. /\ v = n % (2 * h)
      /\ IF s THEN A!asInt(n) \in -h .. h - 1 ELSE n \in 0 .. 2 * h - 1
  BY <1>1 DEF A!encodeValue
<1>4. s => n \in -h .. h - 1
  <2>1. s => A!asInt(n) = n
    BY <1>1, <1>2 DEF A!asInt
  <2>. QED BY <1>3, <2>1
<1>5. ~s => n \in 0 .. 2 * h - 1
  BY <1>3
<1>6. h > 0
  BY <1>4, <1>5
<1>7. CASE n >= 0
  <2>1. n = (2 * h) * 0 + n /\ 2 * h \in Nat /\ 2 * h > 0 /\ n < 2 * h
    BY <1>4, <1>5, <1>6, <1>7
  <2>2. v = n
    BY <1>3, <1>7, <2>1, Quotient
  <2>. QED BY <1>1, <1>4, <1>6, <1>7, <2>1, <2>2
<1>8. CASE n < 0
  <2>1. s /\ n \in -h .. h - 1
    BY <1>4, <1>5, <1>8
  <2>2. PICK m \in Nat : m = n + 2 * h /\ m < 2 * h
    BY <1>6, <1>8, <2>1
  <2>3. n = (2 * h) * (-1) + m /\ 2 * h \in Nat /\ 2 * h > 0
    BY <1>6, <2>2
  <2>4. v = m
    BY <1>3, <2>2, <2>3, Quotient
  <2>. QED BY <1>1, <1>6, <1>8, <2>1, <2>2, <2>4
<1>. QED BY <1>7, <1>8

\* A number without a sign is encoded as it is.
LEMMA SmallEncoded ==
    ASSUME NEW t, NEW h \in Nat, h = Types[t].half, ~Types[t].signed, NEW n \in Int,
           NEW v, v \in A!encodeValue(t, n)
    PROVE  v = n /\ 0 <= n /\ n < 2 * h
<1>1. v = n % (2 * h) /\ n \in 0 .. 2 * h - 1 /\ 0 <= n
  BY DEF A!encodeValue
<1>2. PICK d \in Nat : d = 2 * h
  OBVIOUS
<1>3. n % d = n
  <2>1. n = d * 0 + n /\ d > 0 /\ 0 <= n /\ n < d
    BY <1>1, <1>2
  <2>. QED BY <2>1, Quotient
<1>. QED BY <1>1, <1>2, <1>3

\* A record of a write has a value of its type, that stands for what was typed.
LEMMA Written ==
    ASSUME NEW a, NEW w, w \in DOMAIN TypedValues, NEW flag \in Nat, NEW r, r \in A!WriteRecord(a, w, flag)
    PROVE  /\ r.id = a /\ r.type \in A!attributeType(a, flag) /\ r.type \in DOMAIN Types
           /\ r.value \in Nat /\ (Types[r.type].half > 0 => r.value < 2 * Types[r.type].half)
           /\ Means(Types[r.type], r.value) = TypedFor(Types[r.type], TypedValues[w])
<1>1. PICK t, n, v : /\ t \in A!attributeType(a, flag) /\ n \in A!parseValue(t, w)
                     /\ v \in A!encodeValue(t, n) /\ r = [id |-> a, type |-> t, value |-> v]
  BY DEF A!WriteRecord
<1>2. t \in DOMAIN Types
  BY <1>1, AttributesAssumption DEF A!attributeType, AttributesAssumption
<1>3. PICK h \in Nat, s \in BOOLEAN, bo \in BOOLEAN :
         /\ h = Types[t].half /\ s = Types[t].signed /\ bo = Types[t].bool
         /\ (bo => h > 1 /\ ~s) /\ HalfWord \in Nat
  <2>1. /\ Types[t].half \in Nat /\ Types[t].signed \in BOOLEAN /\ Types[t].bool \in BOOLEAN
        /\ Types[t].bool => Types[t].half > 1 /\ ~Types[t].signed
    BY <1>2, TypeRow
  <2>. QED BY <2>1, AttributesAssumption DEF AttributesAssumption
<1>. DEFINE x == TypedValues[w]
<1>4. CASE bo
  <2>1. PICK b \in x.bool : n = IF b THEN 1 ELSE 0
    BY <1>1, <1>3, <1>4 DEF A!parseValue
  <2>2. b \in BOOLEAN /\ x.bool = {b}
    <3>1. x.bool \subseteq BOOLEAN /\ \A c, d \in x.bool : c = d
      BY AttributesAssumption DEF AttributesAssumption
    <3>. QED BY <2>1, <3>1
  <2>3. TypedFor(Types[t], x) = {n}
    BY <1>3, <1>4, <2>1, <2>2 DEF TypedFor
  <2>4. n \in {0, 1} /\ n \in Int /\ ~s
    BY <1>3, <1>4, <2>1, <2>2
  <2>5. v = n /\ n < 2 * h
    BY <1>1, <1>3, <2>4, SmallEncoded
  <2>6. Means(Types[t], v) = {n}
    BY <1>3, <1>4, <2>4, <2>5 DEF Means
  <2>7. r.id = a /\ r.type = t /\ r.value = v
    BY <1>1
  <2>8. v \in Nat /\ v < 2 * h
    BY <1>3, <2>4, <2>5
  <2>. QED BY <1>1, <1>2, <1>3, <2>3, <2>6, <2>7, <2>8
<1>5. CASE ~bo
  <2>1. /\ n \in x.int
        /\ IF s THEN n \in -HalfWord .. HalfWord - 1 ELSE n \in 0 .. 2 * HalfWord - 1
    BY <1>1, <1>3, <1>5 DEF A!parseValue
  <2>2. x.int = {n} /\ n \in Int
    <3>1. x.int \subseteq Int /\ \A m, d \in x.int : m = d
      BY AttributesAssumption DEF AttributesAssumption
    <3>. QED BY <2>1, <3>1
  <2>3. TypedFor(Types[t], x) = {n}
    BY <1>3, <1>5, <2>2 DEF TypedFor
  <2>4. -HalfWord <= n /\ n < 2 * HalfWord /\ (s => n < HalfWord)
    BY <1>3, <2>1, <2>2
  <2>5. /\ v \in Nat /\ v < 2 * h /\ h > 0 /\ v = IF n < 0 THEN n + 2 * h ELSE n
        /\ IF s THEN n \in -h .. h - 1 ELSE 0 <= n
    BY <1>1, <1>2, <1>3, <2>2, <2>4, Encoded
  <2>6. Means(Types[t], v) = {n}
    <3>1. CASE s
      <4>1. Means(Types[t], v) = {m \in -h .. h - 1 : (m - v) % (2 * h) = 0}
        BY <1>3, <1>5, <3>1 DEF Means
      <4>2. Means(Types[t], v) = {IF v >= h THEN v - 2 * h ELSE v}
        BY <2>5, <4>1, SignedValue
      <4>3. n = IF v >= h THEN v - 2 * h ELSE v
        BY <2>5, <3>1
      <4>. QED BY <4>2, <4>3
    <3>2. CASE ~s
      <4>1. v = n
        BY <2>2, <2>5, <3>2
      <4>. QED BY <1>3, <1>5, <3>2, <4>1 DEF Means
    <3>. QED BY <3>1, <3>2
  <2>7. r.id = a /\ r.type = t /\ r.value = v
    BY <1>1
  <2>. QED BY <1>1, <1>2, <1>3, <2>3, <2>5, <2>6, <2>7
<1>. QED BY <1>4, <1>5

\* An attribute has one type at most.
LEMMA OneType ==
    ASSUME NEW a, NEW flag, NEW t, t \in A!attributeType(a, flag), NEW u, u \in A!attributeType(a, flag)
    PROVE  t = u
BY DEF A!attributeType

\* An interval that can be asked for is a number of whole seconds.
LEMMA Interval ==
    ASSUME NEW d \in Int, NEW m, m \in A!reportInterval(d)
    PROVE  m \in Nat /\ m * Second = d
<1>1. Second \in Nat /\ Second > 0
  BY AttributesAssumption DEF AttributesAssumption
<1>2. m = d \div Second /\ d % Second = 0 /\ d >= 0
  BY DEF A!reportInterval
<1>3. PICK q \in Int : q = m /\ d = Second * q
  BY <1>1, <1>2, Divided
<1>4. ~(q < 0)
  <2>1. SUFFICES ASSUME q <= -1 PROVE FALSE
    BY <1>3
  <2>2. Second * q <= -Second
    BY <1>1, <2>1, SMT
  <2>. QED BY <1>1, <1>2, <1>3, <2>2
<1>. QED BY <1>1, <1>3, <1>4

\* Never, in seconds, is never.
LEMMA NeverIs ==
    ASSUME NEW m \in Nat, m * Second = Never * Second
    PROVE  m = Never
<1>1. Second \in Nat /\ Second > 0 /\ Never \in Nat
  BY AttributesAssumption DEF AttributesAssumption
<1>2. m * Second = Second * m + 0 /\ Never * Second = Second * Never + 0 /\ m * Second \in Int
  BY <1>1
<1>3. (m * Second) \div Second = m
  BY <1>1, <1>2, Quotient
<1>4. (Never * Second) \div Second = Never
  BY <1>1, <1>2, Quotient
<1>. QED BY <1>3, <1>4

\* A configuration is as the flags ask.
AsAsked(a, f, c) ==
    IF f.defaults THEN c = Device[a].default
    ELSE IF f.off THEN A!Reports(c) => f.min = Never * Second
    ELSE \/ f.max = Never * Second
         \/ /\ c.min * Second = f.min /\ c.max * Second = f.max
            /\ Types[Device[a].type].analog => c.change = f.change

\* A record of a configuration, once the device has taken it.
LEMMA Reported ==
    ASSUME NEW a, NEW f \in Flags, ~(f.change < 0), NEW r, r \in A!ReportRecord(a, f)
    PROVE  /\ r.id = a /\ r.type \in A!attributeType(a, f.type)
           /\ (a \in DOMAIN Device /\ r.type = Device[a].type) =>
                 /\ A!Configured(r) \in [min : Nat, max : Nat, change : Nat]
                 /\ AsAsked(a, f, A!Configured(r))
<1>. DEFINE c == A!ReportConfig(f)
<1>1. PICK t, n, m, b :
         /\ t \in A!attributeType(a, f.type) /\ n \in A!reportInterval(c.min)
         /\ m \in A!reportInterval(c.max)
         /\ b \in IF ~Types[t].analog THEN {0}
                  ELSE A!encodeValue(t, IF c.change = {} THEN 0 ELSE f.change)
         /\ r = [id |-> a, type |-> t, min |-> n, max |-> m, change |-> b]
  BY DEF A!ReportRecord
<1>2. /\ f.min \in Int /\ f.max \in Int /\ f.change \in Int /\ f.change < HalfWord
      /\ f.off \in BOOLEAN /\ f.defaults \in BOOLEAN
  <2>1. f \in [type : Nat, min : Int, max : Int, change : {x \in Int : x < HalfWord},
               off : BOOLEAN, defaults : BOOLEAN]
    BY AttributesAssumption DEF AttributesAssumption
  <2>2. f.change \in {x \in Int : x < HalfWord}
    BY <2>1
  <2>. QED BY <2>1, <2>2
<1>3. Second \in Nat /\ Never \in Nat /\ HalfWord \in Nat /\ Never * Second \in Int
  BY AttributesAssumption DEF AttributesAssumption
<1>4. /\ c.min = IF f.defaults THEN Never * Second ELSE f.min
      /\ c.max = IF f.defaults \/ f.off THEN Never * Second ELSE f.max
      /\ c.change = {} <=> f.defaults
  BY <1>2 DEF A!ReportConfig
<1>5. n \in Nat /\ n * Second = c.min /\ m \in Nat /\ m * Second = c.max
  <2>1. c.min \in Int /\ c.max \in Int
    BY <1>2, <1>3, <1>4
  <2>. HIDE DEF c
  <2>. QED BY <1>1, <2>1, Interval
<1>6. t \in DOMAIN Types
  BY <1>1, AttributesAssumption DEF A!attributeType, AttributesAssumption
<1>7. b \in Nat /\ (Types[t].analog /\ ~f.defaults => b = f.change)
  <2>1. CASE Types[t].analog
    <3>1. PICK x \in Nat : x = (IF c.change = {} THEN 0 ELSE f.change)
      BY <1>2
    <3>2. b \in A!encodeValue(t, x)
      BY <1>1, <2>1, <3>1
    <3>3. x < 2 * HalfWord /\ -HalfWord <= x /\ (Types[t].signed => x < HalfWord)
      BY <1>2, <1>3, <3>1
    <3>4. b \in Nat /\ b = x
      BY <1>6, <3>2, <3>3, Encoded
    <3>. QED BY <1>4, <3>1, <3>4
  <2>2. CASE ~Types[t].analog
    BY <1>1, <2>2
  <2>. QED BY <2>1, <2>2
<1>8. r.id = a /\ r.type = t /\ r.min = n /\ r.max = m /\ r.change = b
  BY <1>1
<1>9. ASSUME a \in DOMAIN Device, t = Device[a].type
      PROVE  /\ A!Configured(r) \in [min : Nat, max : Nat, change : Nat]
             /\ AsAsked(a, f, A!Configured(r))
  <2>1. PICK g : g = A!Configured(r)
    OBVIOUS
  <2>2. g = IF m = Never /\ n = Never THEN Device[a].default ELSE [min |-> n, max |-> m, change |-> b]
    BY <1>8, <2>1 DEF A!Configured
  <2>3. g \in [min : Nat, max : Nat, change : Nat]
    BY <1>5, <1>7, <1>9, <2>2, DeviceRow
  <2>4. CASE f.defaults
    <3>1. n = Never /\ m = Never
      BY <1>4, <1>5, <2>4, NeverIs
    <3>. QED BY <2>1, <2>2, <2>3, <2>4, <3>1 DEF AsAsked
  <2>5. CASE ~f.defaults /\ f.off
    <3>1. m = Never /\ n * Second = f.min
      BY <1>4, <1>5, <2>5, NeverIs
    <3>2. CASE n = Never
      BY <2>1, <2>3, <2>5, <3>1, <3>2 DEF AsAsked
    <3>3. CASE n # Never
      <4>1. g.max = Never
        BY <2>2, <3>1, <3>3
      <4>. QED BY <2>1, <2>3, <2>5, <4>1 DEF AsAsked, A!Reports
    <3>. QED BY <3>2, <3>3
  <2>6. CASE ~f.defaults /\ ~f.off
    <3>1. m * Second = f.max /\ n * Second = f.min
      BY <1>4, <1>5, <2>6
    <3>2. CASE m = Never
      BY <2>1, <2>3, <2>6, <3>1, <3>2 DEF AsAsked
    <3>3. CASE m # Never
      <4>1. g.min = n /\ g.max = m /\ g.change = b
        BY <2>2, <3>3
      <4>. QED BY <1>7, <1>9, <2>1, <2>3, <2>6, <3>1, <4>1 DEF AsAsked
    <3>. QED BY <3>2, <3>3
  <2>. QED BY <2>4, <2>5, <2>6
<1>. QED BY <1>1, <1>8, <1>9

-----------------------------------------------------------------------------
(***************************************************************************)
(* What the device makes of a request.                                     *)
(***************************************************************************)

\* Records about an attribute that the device took.
Done(rs, a) == {i \in DOMAIN rs : rs[i].id = a /\ A!StatusOf(rs[i]) = A!Success}

\* The last of them.
LEMMA LastDone ==
    ASSUME NEW n \in Nat, NEW rs, DOMAIN rs = 1..n, NEW a, Done(rs, a) # {}
    PROVE  A!Max(Done(rs, a)) \in Done(rs, a)
<1>. DEFINE T == Done(rs, a)
<1>1. T \in SUBSET (0..n) /\ T # {}
  BY DEF Done
<1>. HIDE DEF T
<1>2. L!Max(T) \in T
  BY <1>1, MaxOf
<1>3. A!Max(T) = L!Max(T)
  BY DEF A!Max, L!Max
<1>. QED BY <1>2, <1>3 DEF T

\* What the device took is about an attribute it has, of its type.
LEMMA TakenRecord ==
    ASSUME NEW r, A!StatusOf(r) = A!Success
    PROVE  /\ r.id \in DOMAIN Device
           /\ request.kind \in {"write", "reporting"} => r.type = Device[r.id].type
<1>. USE DEF A!StatusOf, A!Success, A!InvalidDataType, A!ReadOnly, A!Unsupported
<1>1. r.id \in DOMAIN Device
  OBVIOUS
<1>2. ASSUME request.kind \in {"write", "reporting"} PROVE r.type = Device[r.id].type
  BY <1>1, <1>2
<1>. QED BY <1>1, <1>2

\* The device takes all records about an attribute, or none.
LEMMA SameStatus ==
    ASSUME RequestInv, request # A!Nothing, NEW i \in DOMAIN typed.attrs, NEW j \in DOMAIN typed.attrs,
           request.records[i].id = request.records[j].id
    PROVE  A!StatusOf(request.records[i]) = A!StatusOf(request.records[j])
<1>1. PICK r, s : r = request.records[i] /\ s = request.records[j] /\ r.id = s.id
  OBVIOUS
<1>2. request.kind \in {"write", "reporting"} => r.type = s.type
  <2>1. CASE request.kind = "write"
    <3>1. PICK flag \in Nat : \A k \in DOMAIN typed.attrs :
             /\ typed.words[k] \in DOMAIN TypedValues
             /\ request.records[k] \in A!WriteRecord(typed.attrs[k], typed.words[k], flag)
      BY <2>1 DEF RequestInv, WriteAsked
    <3>2. /\ r.id = typed.attrs[i] /\ r.type \in A!attributeType(typed.attrs[i], flag)
          /\ s.id = typed.attrs[j] /\ s.type \in A!attributeType(typed.attrs[j], flag)
      BY <1>1, <3>1, Written
    <3>. QED BY <1>1, <3>2, OneType
  <2>2. CASE request.kind = "reporting"
    <3>1. PICK f \in Flags : f = typed.flags /\ ~(f.change < 0) /\ \A k \in DOMAIN typed.attrs :
             request.records[k] \in A!ReportRecord(typed.attrs[k], f)
      BY <2>2 DEF RequestInv, ReportAsked
    <3>2. /\ r.id = typed.attrs[i] /\ r.type \in A!attributeType(typed.attrs[i], f.type)
          /\ s.id = typed.attrs[j] /\ s.type \in A!attributeType(typed.attrs[j], f.type)
      BY <1>1, <3>1, Reported
    <3>. QED BY <1>1, <3>2, OneType
  <2>. QED BY <2>1, <2>2
<1>. QED BY <1>1, <1>2 DEF A!StatusOf

\* What the device is left with: it holds what was last typed for an attribute that it took,
\* and reports as asked.
LEMMA Applied ==
    ASSUME DeviceInv, RequestInv, request # A!Nothing, NEW rs, rs = request.records, A!Apply(rs)
    PROVE  /\ DeviceInv' /\ refused' = {rs[i].id : i \in Bad(rs)}
           /\ request.kind # "write" => held' = held
           /\ request.kind # "reporting" => config' = config
           /\ request.kind = "write" => \A j \in DOMAIN rs : A!StatusOf(rs[j]) = A!Success =>
                 Means(Types[Device[rs[j].id].type], held'[rs[j].id]) = A!Wanted(rs[j].id)
           /\ request.kind = "reporting" => \A j \in DOMAIN rs : A!StatusOf(rs[j]) = A!Success =>
                 AsAsked(rs[j].id, typed.flags, config'[rs[j].id])
<1>1. PICK n \in Nat : /\ DOMAIN rs = 1..n /\ DOMAIN typed.attrs = 1..n
                       /\ \A i \in 1..n : rs[i].id = typed.attrs[i]
  <2>1. PICK s \in Seq(Nat) : s = typed.attrs
    BY DEF RequestInv
  <2>2. Len(s) \in Nat /\ DOMAIN s = 1..Len(s)
    OBVIOUS
  <2>. QED BY <2>1, <2>2 DEF RequestInv
<1>2. /\ held' = IF request.kind # "write" THEN held
                 ELSE [a \in DOMAIN Device |->
                          IF Done(rs, a) = {} THEN held[a] ELSE rs[A!Max(Done(rs, a))].value]
      /\ config' = IF request.kind # "reporting" THEN config
                   ELSE [a \in DOMAIN Device |->
                            IF Done(rs, a) = {} THEN config[a] ELSE A!Configured(rs[A!Max(Done(rs, a))])]
      /\ refused' = {rs[i].id : i \in Bad(rs)}
  BY DEF A!Apply, Done, Bad
<1>3. ASSUME NEW a, NEW k, k = A!Max(Done(rs, a)), Done(rs, a) # {}
      PROVE  /\ k \in 1..n /\ rs[k].id = a /\ a = typed.attrs[k] /\ a \in DOMAIN Device
             /\ request.kind \in {"write", "reporting"} => rs[k].type = Device[a].type
  <2>1. k \in Done(rs, a)
    BY <1>1, <1>3, LastDone
  <2>2. k \in 1..n /\ rs[k].id = a /\ A!StatusOf(rs[k]) = A!Success
    BY <1>1, <2>1 DEF Done
  <2>. QED BY <1>1, <2>2, TakenRecord
<1>4. CASE request.kind = "write"
  <2>1. PICK flag \in Nat : \A k \in 1..n :
           /\ typed.words[k] \in DOMAIN TypedValues
           /\ rs[k] \in A!WriteRecord(typed.attrs[k], typed.words[k], flag)
    BY <1>1, <1>4 DEF RequestInv, WriteAsked
  <2>2. ASSUME NEW k \in 1..n
        PROVE  /\ rs[k].value \in Nat
               /\ (Types[rs[k].type].half > 0 => rs[k].value < 2 * Types[rs[k].type].half)
               /\ Means(Types[rs[k].type], rs[k].value) = TypedFor(Types[rs[k].type], TypedValues[typed.words[k]])
    BY <2>1, Written
  <2>3. held' = [a \in DOMAIN Device |->
                    IF Done(rs, a) = {} THEN held[a] ELSE rs[A!Max(Done(rs, a))].value]
    BY <1>2, <1>4
  <2>4. ASSUME NEW a \in DOMAIN Device
        PROVE  held'[a] \in Nat /\ (Types[Device[a].type].half > 0 => held'[a] < 2 * Types[Device[a].type].half)
    <3>1. CASE Done(rs, a) = {}
      <4>1. held'[a] = held[a]
        BY <2>3, <3>1
      <4>. QED BY <4>1 DEF DeviceInv
    <3>2. CASE Done(rs, a) # {}
      <4>1. PICK k : k = A!Max(Done(rs, a))
        OBVIOUS
      <4>2. held'[a] = rs[k].value /\ k \in 1..n /\ rs[k].type = Device[a].type
        BY <1>3, <1>4, <2>3, <3>2, <4>1
      <4>. QED BY <2>2, <4>2
    <3>. QED BY <3>1, <3>2
  <2>5. held' \in [DOMAIN Device -> Nat] /\ config' = config
    <3>1. DOMAIN held' = DOMAIN Device /\ held' = [a \in DOMAIN Device |-> held'[a]]
      BY <2>3
    <3>. QED BY <1>2, <1>4, <2>4, <3>1
  <2>6. DeviceInv'
    BY <2>4, <2>5 DEF DeviceInv
  <2>7. ASSUME NEW j \in DOMAIN rs, A!StatusOf(rs[j]) = A!Success, NEW a, a = rs[j].id
        PROVE  Means(Types[Device[a].type], held'[a]) = A!Wanted(a)
    <3>1. j \in Done(rs, a) /\ a \in DOMAIN Device
      BY <2>7, TakenRecord DEF Done
    <3>2. PICK k : k = A!Max(Done(rs, a))
      OBVIOUS
    <3>3. held'[a] = rs[k].value /\ k \in 1..n /\ rs[k].type = Device[a].type
      BY <1>3, <1>4, <2>3, <3>1, <3>2
    <3>4. {i \in DOMAIN typed.attrs : typed.attrs[i] = a} = Done(rs, a)
      <4>1. ASSUME NEW i \in 1..n, typed.attrs[i] = a PROVE i \in Done(rs, a)
        <5>1. rs[i].id = rs[j].id
          BY <1>1, <2>7, <4>1
        <5>2. A!StatusOf(rs[i]) = A!StatusOf(rs[j])
          BY <1>1, <2>7, <5>1, SameStatus
        <5>. QED BY <1>1, <2>7, <5>1, <5>2 DEF Done
      <4>2. ASSUME NEW i \in Done(rs, a) PROVE i \in 1..n /\ typed.attrs[i] = a
        BY <1>1 DEF Done
      <4>. QED BY <1>1, <4>1, <4>2
    <3>5. A!Wanted(a) = TypedFor(Types[Device[a].type], TypedValues[typed.words[k]])
      BY <3>2, <3>4 DEF A!Wanted, TypedFor
    <3>. QED BY <2>2, <3>3, <3>5
  <2>. QED BY <1>2, <1>4, <2>5, <2>6, <2>7
<1>5. CASE request.kind = "reporting"
  <2>1. PICK f \in Flags : f = typed.flags /\ ~(f.change < 0) /\ \A k \in 1..n :
           rs[k] \in A!ReportRecord(typed.attrs[k], f)
    BY <1>1, <1>5 DEF RequestInv, ReportAsked
  <2>2. config' = [a \in DOMAIN Device |->
                      IF Done(rs, a) = {} THEN config[a] ELSE A!Configured(rs[A!Max(Done(rs, a))])]
    BY <1>2, <1>5
  <2>3. ASSUME NEW a \in DOMAIN Device, Done(rs, a) # {}
        PROVE  config'[a] \in [min : Nat, max : Nat, change : Nat] /\ AsAsked(a, f, config'[a])
    <3>1. PICK k : k = A!Max(Done(rs, a))
      OBVIOUS
    <3>2. config'[a] = A!Configured(rs[k]) /\ k \in 1..n /\ rs[k].type = Device[a].type /\ a = typed.attrs[k]
      BY <1>3, <1>5, <2>2, <2>3, <3>1
    <3>. QED BY <2>1, <3>2, Reported
  <2>4. config' \in [DOMAIN Device -> [min : Nat, max : Nat, change : Nat]]
    <3>. DEFINE C == [min : Nat, max : Nat, change : Nat]
    <3>1. ASSUME NEW a \in DOMAIN Device PROVE config'[a] \in C
      <4>1. CASE Done(rs, a) = {}
        <5>1. config'[a] = config[a]
          BY <2>2, <4>1
        <5>. QED BY <5>1 DEF DeviceInv
      <4>2. CASE Done(rs, a) # {}
        BY <2>3, <4>2
      <4>. QED BY <4>1, <4>2
    <3>. HIDE DEF C
    <3>2. config' = [a \in DOMAIN Device |-> config'[a]]
      BY <2>2
    <3>3. config' \in [DOMAIN Device -> C]
      BY <3>1, <3>2
    <3>. QED BY <3>3 DEF C
  <2>5. held' = held
    BY <1>2, <1>5
  <2>6. DeviceInv'
    BY <2>4, <2>5 DEF DeviceInv
  <2>7. ASSUME NEW j \in DOMAIN rs, A!StatusOf(rs[j]) = A!Success, NEW a, a = rs[j].id
        PROVE  AsAsked(a, typed.flags, config'[a])
    <3>1. j \in Done(rs, a) /\ a \in DOMAIN Device
      BY <2>7, TakenRecord DEF Done
    <3>. QED BY <2>1, <2>3, <3>1
  <2>. QED BY <1>2, <1>5, <2>5, <2>6, <2>7
<1>6. CASE request.kind \notin {"write", "reporting"}
  <2>1. held' = held /\ config' = config
    BY <1>2, <1>6
  <2>2. DeviceInv'
    BY <2>1 DEF DeviceInv
  <2>. QED BY <1>2, <1>6, <2>1, <2>2
<1>. QED BY <1>4, <1>5, <1>6

-----------------------------------------------------------------------------
(***************************************************************************)
(* What is said of a command.                                              *)
(***************************************************************************)

\* What is said of a command, whole or not, is what became of it at the device.
WriteHonest(res, whole) ==
    /\ \A i \in DOMAIN res :
          IF res[i].status = A!Success
          THEN res[i].id \notin refused /\ A!Meaning(res[i].id) = A!Wanted(res[i].id)
          ELSE res[i].id \in refused
    /\ whole => \A a \in refused : \E i \in DOMAIN res : res[i].id = a

ReadHonest(res, whole) ==
    /\ \A i \in DOMAIN res :
          IF res[i].status = A!Success
          THEN res[i].id \in DOMAIN Device /\ res[i].value = A!Meaning(res[i].id)
          ELSE res[i].id \notin DOMAIN Device
    /\ whole => {res[i].id : i \in DOMAIN res} = A!Range(typed.attrs)

ReportHonest(res) ==
    \A i \in DOMAIN res : res[i].status = A!Success =>
        AsAsked(res[i].id, typed.flags, config[res[i].id])

ShowHonest(res, whole) == whole => \A i \in DOMAIN res : ShownRight(res[i])

\* The same, of the command that is answered.
Honest(s) ==
    ~s.error => /\ typed.kind = "write" => WriteHonest(s.results, reply.whole)
                /\ typed.kind = "read" => ReadHonest(s.results, reply.whole)
                /\ typed.kind = "reporting" => ReportHonest(s.results)
                /\ typed.kind = "show" => ShowHonest(s.results, reply.whole)

\* What a value stands for.
LEMMA MeaningIs ==
    ASSUME NEW a
    PROVE  /\ A!Meaning(a) = Means(Types[Device[a].type], held[a])
           /\ A!Meaning(a)' = Means(Types[Device[a].type], held'[a])
  BY DEF A!Meaning, Means

\* A request that is answered has records of numbers.
LEMMA Numbered ==
    ASSUME RequestInv, request # A!Nothing
    PROVE  \E n \in Nat : /\ DOMAIN request.records = 1..n /\ DOMAIN typed.attrs = 1..n
                          /\ \A i \in 1..n : /\ request.records[i].id = typed.attrs[i]
                                             /\ request.records[i].id \in Nat
<1>1. PICK s \in Seq(Nat) : s = typed.attrs
  BY DEF RequestInv
<1>2. Len(s) \in Nat /\ DOMAIN s = 1..Len(s) /\ \A i \in 1..Len(s) : s[i] \in Nat
  OBVIOUS
<1>. QED BY <1>1, <1>2 DEF RequestInv

\* What is said of a write, or of a configuration, once it is answered.
LEMMA WriteSaid ==
    ASSUME DeviceInv, RequestInv, request # A!Nothing, NEW rs, rs = request.records, A!Apply(rs),
           NEW res, Owned(rs, res), NEW x \in BOOLEAN, x => Covered(rs, res), typed' = typed
    PROVE  /\ request.kind = "write" => WriteHonest(res, x)'
           /\ request.kind = "reporting" => ReportHonest(res)'
<1>0. PICK n \in Nat : /\ DOMAIN rs = 1..n /\ DOMAIN typed.attrs = 1..n
                       /\ \A i \in 1..n : rs[i].id = typed.attrs[i] /\ rs[i].id \in Nat
  BY Numbered
<1>1. /\ refused' = {rs[i].id : i \in Bad(rs)}
      /\ request.kind = "write" => \A j \in DOMAIN rs : A!StatusOf(rs[j]) = A!Success =>
            Means(Types[Device[rs[j].id].type], held'[rs[j].id]) = A!Wanted(rs[j].id)
      /\ request.kind = "reporting" => \A j \in DOMAIN rs : A!StatusOf(rs[j]) = A!Success =>
            AsAsked(rs[j].id, typed.flags, config'[rs[j].id])
  BY Applied
<1>2. SUFFICES ASSUME Briefly PROVE /\ request.kind = "write" => WriteHonest(res, x)'
                                    /\ request.kind = "reporting" => ReportHonest(res)'
  BY DEF Briefly
<1>3. ASSUME NEW j \in 1..n, NEW r, r = A!Result(request.kind, A!Fields(rs[j]))
      PROVE  r.id = rs[j].id /\ r.status = A!StatusOf(rs[j])
  <2>1. rs[j].id \in Nat
    BY <1>0
  <2>2. r = [id |-> rs[j].id, status |-> A!StatusOf(rs[j])]
    BY <1>2, <1>3, <2>1, NamedFields DEF Briefly
  <2>. QED BY <2>2
<1>4. ASSUME NEW i \in DOMAIN res
      PROVE  \E j \in 1..n : res[i].id = rs[j].id /\ res[i].status = A!StatusOf(rs[j])
  <2>1. PICK j \in Mentioned(rs) : res[i] = A!Result(request.kind, A!Fields(rs[j]))
    BY DEF Owned
  <2>2. j \in 1..n
    BY <1>0 DEF Mentioned, Bad
  <2>. QED BY <1>3, <2>1, <2>2
<1>5. CASE request.kind = "reporting"
  <2>1. ASSUME NEW i \in DOMAIN res, res[i].status = A!Success
        PROVE  AsAsked(res[i].id, typed.flags, config'[res[i].id])
    BY <1>0, <1>1, <1>4, <1>5, <2>1
  <2>2. ReportHonest(res)'
    BY <2>1 DEF ReportHonest, AsAsked, A!Reports, A!Success
  <2>. QED BY <1>5, <2>2
<1>6. CASE request.kind = "write"
  <2>1. ASSUME NEW a PROVE A!Wanted(a)' = A!Wanted(a)
    BY DEF A!Wanted
  <2>2. ASSUME NEW i \in DOMAIN res
        PROVE  IF res[i].status = A!Success
               THEN res[i].id \notin refused' /\ A!Meaning(res[i].id)' = A!Wanted(res[i].id)'
               ELSE res[i].id \in refused'
    <3>1. PICK j \in 1..n : res[i].id = rs[j].id /\ res[i].status = A!StatusOf(rs[j])
      BY <1>4
    <3>2. CASE A!StatusOf(rs[j]) = A!Success
      <4>1. Means(Types[Device[rs[j].id].type], held'[rs[j].id]) = A!Wanted(rs[j].id)
        BY <1>0, <1>1, <1>6, <3>2
      <4>2. A!Meaning(res[i].id)' = A!Wanted(res[i].id)'
        BY <2>1, <3>1, <4>1, MeaningIs
      <4>3. ASSUME NEW k \in Bad(rs), rs[k].id = rs[j].id PROVE FALSE
        <5>1. k \in DOMAIN typed.attrs /\ j \in DOMAIN typed.attrs /\ A!StatusOf(rs[k]) # A!Success
          BY <1>0 DEF Bad
        <5>. QED BY <3>2, <4>3, <5>1, SameStatus
      <4>4. res[i].id \notin refused'
        BY <1>1, <3>1, <4>3
      <4>. QED BY <3>1, <3>2, <4>2, <4>4
    <3>3. CASE A!StatusOf(rs[j]) # A!Success
      <4>1. j \in Bad(rs)
        BY <1>0, <3>3 DEF Bad
      <4>. QED BY <1>1, <3>1, <3>3, <4>1
    <3>. QED BY <3>2, <3>3
  <2>3. ASSUME x, NEW a \in refused' PROVE \E i \in DOMAIN res : res[i].id = a
    <3>1. PICK k \in Bad(rs) : a = rs[k].id
      BY <1>1, <2>3
    <3>2. k \in Mentioned(rs) /\ k \in 1..n
      BY <1>0, <1>2, <3>1 DEF Mentioned, Bad
    <3>3. PICK i \in DOMAIN res : res[i] = A!Result(request.kind, A!Fields(rs[k]))
      BY <2>3, <3>2 DEF Covered
    <3>. QED BY <1>3, <3>1, <3>2, <3>3
  <2>4. WriteHonest(res, x)'
    BY <2>2, <2>3 DEF WriteHonest, A!Success
  <2>. QED BY <1>6, <2>4
<1>. QED BY <1>5, <1>6

\* A record of the answer to a read names its attribute.
LEMMA ReadNames ==
    ASSUME request.kind = "read", NEW r
    PROVE  A!Result("read", A!Fields(r)).id = r.id
<1>1. A!Fields(r)[1] = r.id
  <2>1. A!Fields(r) = IF A!StatusOf(r) = A!Success
                      THEN <<r.id, A!Success, Device[r.id].type, held[r.id]>>
                      ELSE <<r.id, A!StatusOf(r)>>
    BY DEF A!Fields
  <2>. QED BY <2>1
<1>. QED BY <1>1 DEF A!Result, A!Attribute

\* What is said of a read, or of -show, once it is answered.
LEMMA ReadSaid ==
    ASSUME DeviceInv, RequestInv, request # A!Nothing, NEW rs, rs = request.records, A!Apply(rs),
           NEW res, Owned(rs, res), NEW x \in BOOLEAN, x => Covered(rs, res), typed' = typed
    PROVE  /\ request.kind = "read" => ReadHonest(res, x)'
           /\ request.kind = "show" => ShowHonest(res, x)'
<1>0. PICK n \in Nat : /\ DOMAIN rs = 1..n /\ DOMAIN typed.attrs = 1..n
                       /\ \A i \in 1..n : rs[i].id = typed.attrs[i] /\ rs[i].id \in Nat
  BY Numbered
<1>1. SUFFICES ASSUME ~Briefly PROVE /\ request.kind = "read" => ReadHonest(res, x)'
                                     /\ request.kind = "show" => ShowHonest(res, x)'
  BY DEF Briefly
<1>2. held' = held /\ config' = config
  BY <1>1, Applied DEF Briefly
<1>3. Mentioned(rs) = 1..n
  BY <1>0, <1>1 DEF Mentioned
<1>4. \A i \in DOMAIN res : \E j \in 1..n :
         /\ A!Size(request.kind, A!Fields(rs[j])) = Len(A!Fields(rs[j]))
         /\ res[i] = A!Result(request.kind, A!Fields(rs[j]))
  BY <1>3 DEF Owned
<1>5. CASE request.kind = "show"
  <2>1. ASSUME NEW i \in DOMAIN res PROVE ShownRight(res[i])
    <3>1. PICK j \in 1..n : res[i] = A!Result(request.kind, A!Fields(rs[j]))
      BY <1>4
    <3>2. rs[j].id \in Nat
      BY <1>0
    <3>3. ShownRight(A!Result("show", A!Fields(rs[j])))
      BY <1>5, <3>2, ShowFields
    <3>. QED BY <1>5, <3>1, <3>3
  <2>2. ASSUME NEW i \in DOMAIN res PROVE ShownRight(res[i])'
    BY <1>2, <2>1 DEF ShownRight, A!Reports, A!Success
  <2>3. ShowHonest(res, x)'
    BY <2>2 DEF ShowHonest
  <2>. QED BY <1>5, <2>3
<1>6. CASE request.kind = "read"
  <2>1. ASSUME NEW j \in 1..n, NEW f, f = A!Fields(rs[j]), A!Size("read", f) = Len(f),
               NEW r, r = A!Result("read", f)
        PROVE  /\ r.id = rs[j].id /\ (r.status = A!Success <=> r.id \in DOMAIN Device)
               /\ r.status = A!Success => r.value = A!Meaning(r.id)
    <3>1. rs[j].id \in Nat
      BY <1>0
    <3>. QED BY <1>6, <2>1, <3>1, ReadFields
  <2>2. ASSUME NEW i \in DOMAIN res
        PROVE  /\ \E j \in 1..n : res[i].id = rs[j].id
               /\ IF res[i].status = A!Success
                  THEN res[i].id \in DOMAIN Device /\ res[i].value = A!Meaning(res[i].id)'
                  ELSE res[i].id \notin DOMAIN Device
    <3>1. PICK j \in 1..n : /\ A!Size("read", A!Fields(rs[j])) = Len(A!Fields(rs[j]))
                            /\ res[i] = A!Result("read", A!Fields(rs[j]))
      BY <1>4, <1>6
    <3>2. /\ res[i].id = rs[j].id /\ (res[i].status = A!Success <=> res[i].id \in DOMAIN Device)
          /\ res[i].status = A!Success => res[i].value = A!Meaning(res[i].id)
      BY <2>1, <3>1
    <3>3. A!Meaning(res[i].id)' = A!Meaning(res[i].id)
      BY <1>2, MeaningIs
    <3>. QED BY <3>2, <3>3
  <2>3. ASSUME x PROVE {res[i].id : i \in DOMAIN res} = A!Range(typed.attrs)
    <3>1. A!Range(typed.attrs) = {rs[j].id : j \in 1..n}
      BY <1>0 DEF A!Range
    <3>2. ASSUME NEW j \in 1..n PROVE \E i \in DOMAIN res : res[i].id = rs[j].id
      <4>1. PICK i \in DOMAIN res : res[i] = A!Result(request.kind, A!Fields(rs[j]))
        BY <1>3, <2>3 DEF Covered
      <4>2. A!Result("read", A!Fields(rs[j])).id = rs[j].id
        BY <1>6, ReadNames
      <4>. QED BY <1>6, <4>1, <4>2
    <3>. QED BY <2>2, <3>1, <3>2
  <2>4. ReadHonest(res, x)'
    BY <2>2, <2>3 DEF ReadHonest, A!Success
  <2>. QED BY <1>6, <2>4
<1>. QED BY <1>5, <1>6

-----------------------------------------------------------------------------
(***************************************************************************)
(* The invariant of the attributes.                                        *)
(***************************************************************************)

\* s lists n numbers, those of Q, in ascending order.
Ascends(s, n, Q) == /\ s \in [1..n -> Q] /\ A!Range(s) = Q
                    /\ \A i, j \in DOMAIN s : i < j => s[i] < s[j]

\* A finite set of numbers can be listed in ascending order.
LEMMA Ascending ==
    ASSUME NEW Q \in SUBSET Nat, IsFiniteSet(Q)
    PROVE  \E s : Ascends(s, Cardinality(Q), Q)
<1>. DEFINE T == {n \in Nat : \A R \in SUBSET Nat :
                                 IsFiniteSet(R) /\ Cardinality(R) = n => \E s : Ascends(s, n, R)}
<1>1. 0 \in T
  <2>1. ASSUME NEW R \in SUBSET Nat, IsFiniteSet(R), Cardinality(R) = 0 PROVE Ascends(<<>>, 0, R)
    <3>1. R = {}
      BY <2>1, FS_EmptySet
    <3>. QED BY <3>1 DEF Ascends, A!Range
  <2>. QED BY <2>1
<1>2. ASSUME NEW n \in Nat, n \in T PROVE n + 1 \in T
  <2>1. ASSUME NEW R \in SUBSET Nat, IsFiniteSet(R), Cardinality(R) = n + 1
        PROVE  \E s : Ascends(s, n + 1, R)
    <3>1. R # {}
      <4>1. R = {} => Cardinality(R) = 0
        BY FS_EmptySet
      <4>. QED BY <2>1, <4>1
    <3>2. PICK m \in R : \A k \in R : ~(k < m)
      BY <3>1, LeastOf
    <3>3. IsFiniteSet(R \ {m}) /\ Cardinality(R \ {m}) = n
      <4>1. IsFiniteSet(R \ {m}) /\ Cardinality(R \ {m}) = Cardinality(R) - 1
        BY <2>1, FS_RemoveElement
      <4>2. (n + 1) - 1 = n
        OBVIOUS
      <4>. QED BY <2>1, <4>1, <4>2
    <3>4. PICK s : Ascends(s, n, R \ {m})
      BY <1>2, <3>3
    <3>5. /\ s \in [1..n -> R \ {m}] /\ A!Range(s) = R \ {m}
          /\ \A i, j \in 1..n : i < j => s[i] < s[j]
      BY <3>4 DEF Ascends
    <3>. DEFINE t == [i \in 1..(n + 1) |-> IF i = 1 THEN m ELSE s[i - 1]]
    <3>6. \A i \in 1..(n + 1) : i # 1 => i - 1 \in 1..n /\ t[i] = s[i - 1] /\ t[i] \in R \ {m}
      BY <3>5
    <3>7. 1 \in 1..(n + 1) /\ t[1] = m
      OBVIOUS
    <3>8. t \in [1..(n + 1) -> R]
      BY <3>6, <3>7
    <3>. HIDE DEF t
    <3>9. A!Range(t) = R
      <4>1. ASSUME NEW x \in R PROVE \E i \in 1..(n + 1) : t[i] = x
        <5>1. CASE x = m
          BY <3>7, <5>1
        <5>2. CASE x # m
          <6>1. PICK i \in 1..n : s[i] = x
            BY <3>5, <5>2 DEF A!Range
          <6>2. i + 1 \in 1..(n + 1) /\ i + 1 # 1 /\ (i + 1) - 1 = i
            OBVIOUS
          <6>. QED BY <3>6, <6>1, <6>2
        <5>. QED BY <5>1, <5>2
      <4>. QED BY <3>8, <4>1 DEF A!Range
    <3>10. ASSUME NEW i \in 1..(n + 1), NEW j \in 1..(n + 1), i < j PROVE t[i] < t[j]
      <4>1. j # 1 /\ j - 1 \in 1..n /\ t[j] = s[j - 1] /\ t[j] \in R /\ t[j] # m
        BY <3>6, <3>10
      <4>2. CASE i = 1
        <5>1. t[i] = m /\ ~(t[j] < m) /\ t[j] \in Nat /\ m \in Nat
          BY <3>2, <3>7, <4>1, <4>2
        <5>. QED BY <4>1, <5>1
      <4>3. CASE i # 1
        <5>1. i - 1 \in 1..n /\ t[i] = s[i - 1] /\ i - 1 < j - 1
          BY <3>6, <3>10, <4>3
        <5>. QED BY <3>5, <4>1, <5>1
      <4>. QED BY <4>2, <4>3
    <3>. QED BY <3>8, <3>9, <3>10 DEF Ascends
  <2>. QED BY <2>1
<1>. HIDE DEF T
<1>3. Nat \subseteq T
  BY <1>1, <1>2, Induction
<1>4. Cardinality(Q) \in Nat
  BY FS_CardinalityType
<1>. QED BY <1>3, <1>4 DEF T

\* What gzb knows of the cluster can be asked for.
LEMMA Known == A!KnownAttributes \in Seq(Nat)
<1>. DEFINE Q == DOMAIN AttributeType
<1>1. Q \in SUBSET Nat /\ IsFiniteSet(Q)
  BY AttributesAssumption DEF AttributesAssumption
<1>. HIDE DEF Q
<1>2. A!Cardinality(Q) = Cardinality(Q) /\ Cardinality(Q) \in Nat
  <2>1. A!Cardinality(Q) = Cardinality(Q)
    BY DEF A!Cardinality, Cardinality
  <2>. QED BY <1>1, <2>1, FS_CardinalityType
<1>3. PICK s : Ascends(s, Cardinality(Q), Q)
  BY <1>1, Ascending
<1>4. s \in A!Orders(Q) /\ \A i, j \in DOMAIN s : i < j => s[i] < s[j]
  BY <1>2, <1>3 DEF Ascends, A!Orders
<1>5. A!KnownAttributes \in A!Orders(Q)
  BY <1>4 DEF A!KnownAttributes, Q
<1>6. PICK c, k : c \in Nat /\ k = A!KnownAttributes /\ k \in [1..c -> Q]
  BY <1>2, <1>5 DEF A!Orders
<1>7. c \in Nat /\ k \in [1..c -> Nat]
  BY <1>1, <1>6
<1>8. k \in Seq(Nat)
  BY <1>7
<1>. QED BY <1>6, <1>8

\* What is asked, and what is said of it, at every moment.
AnswerInv ==
    /\ typed # A!Nothing /\ request = A!Nothing => Honest(shown)
    /\ request # A!Nothing /\ reply # A!Nothing => Honest(A!Heard)
    /\ typed = A!Nothing => reply = A!Nothing

\* The inductive invariant.
AttrInv == DeviceInv /\ RequestInv /\ AnswerInv

\* It holds at the start.
LEMMA AttrStart == A!AttrInit => AttrInv
<1>. SUFFICES ASSUME A!AttrInit PROVE AttrInv
  OBVIOUS
<1>1. typed = A!Nothing /\ request = A!Nothing /\ reply = A!Nothing
  BY DEF A!AttrInit
<1>2. ASSUME NEW a \in DOMAIN Device
      PROVE  held[a] \in Nat /\ (Types[Device[a].type].half > 0 => held[a] < 2 * Types[Device[a].type].half)
  BY AttributesAssumption DEF A!AttrInit, AttributesAssumption
<1>3. DOMAIN held = DOMAIN Device /\ held = [a \in DOMAIN Device |-> held[a]]
  BY DEF A!AttrInit
<1>4. held \in [DOMAIN Device -> Nat]
  BY <1>2, <1>3
<1>5. config \in [DOMAIN Device -> [min : Nat, max : Nat, change : Nat]]
  <2>. DEFINE C == [min : Nat, max : Nat, change : Nat]
  <2>1. config = [a \in DOMAIN Device |-> Device[a].default]
    BY DEF A!AttrInit
  <2>2. \A a \in DOMAIN Device : Device[a].default \in C
    BY DeviceRow
  <2>. HIDE DEF C
  <2>3. config \in [DOMAIN Device -> C]
    BY <2>1, <2>2
  <2>. QED BY <2>3 DEF C
<1>. QED BY <1>1, <1>2, <1>4, <1>5 DEF AttrInv, DeviceInv, RequestInv, AnswerInv

\* A request that may be sent for a command.
Fits(command, kind, rs) ==
    /\ \A i \in DOMAIN command.attrs : rs[i].id = command.attrs[i]
    /\ kind = "write" => WriteAsked(command, rs)
    /\ kind = "reporting" => ReportAsked(command, rs)

\* Asking keeps it.
LEMMA Asking ==
    ASSUME AttrInv, NEW kind \in RequestKinds, NEW command, command.kind = kind, command.attrs \in Seq(Nat),
           NEW sets, sets # <<>> => DOMAIN sets = DOMAIN command.attrs,
           \A rs : (/\ sets # <<>> /\ DOMAIN rs = DOMAIN sets
                    /\ \A i \in DOMAIN sets : rs[i] \in sets[i]) => Fits(command, kind, rs),
           A!Ask(command, kind, sets)
    PROVE  AttrInv'
<1>1. /\ typed = A!Nothing /\ typed' = command /\ held' = held /\ config' = config /\ reply' = reply
      /\ reply = A!Nothing
  BY DEF A!Ask, AttrInv, AnswerInv
<1>2. command # A!Nothing
  <2>1. A!Nothing.kind = "none"
    BY DEF A!Nothing
  <2>. QED BY <2>1 DEF RequestKinds
<1>3. DeviceInv'
  BY <1>1 DEF AttrInv, DeviceInv
<1>4. CASE sets # <<>> /\ A!Complete(sets)
  <2>1. PICK rs : rs = A!Records(sets) /\ request' = [kind |-> kind, records |-> rs]
    BY <1>4 DEF A!Ask
  <2>2. DOMAIN rs = DOMAIN sets /\ \A i \in DOMAIN sets : rs[i] \in sets[i]
    BY <1>4, <2>1 DEF A!Records, A!Complete
  <2>3. Fits(command, kind, rs)
    BY <1>4, <2>2
  <2>4. request'.kind = kind /\ request'.records = rs
    BY <2>1
  <2>5. RequestInv'
    <3>1. WriteAsked(command, rs) => WriteAsked(typed, request.records)'
      BY <1>1, <2>4 DEF WriteAsked
    <3>2. ReportAsked(command, rs) => ReportAsked(typed, request.records)'
      BY <1>1, <2>4 DEF ReportAsked
    <3>3. A!Nothing' = A!Nothing
      BY DEF A!Nothing
    <3>. QED BY <1>1, <1>2, <1>4, <2>2, <2>3, <2>4, <3>1, <3>2, <3>3 DEF RequestInv, Fits
  <2>6. request' # A!Nothing
    <3>1. A!Nothing.kind = "none"
      BY DEF A!Nothing
    <3>. QED BY <2>4, <3>1 DEF RequestKinds
  <2>7. AnswerInv'
    BY <1>1, <1>2, <2>6 DEF AnswerInv, A!Nothing
  <2>. QED BY <1>3, <2>5, <2>7 DEF AttrInv
<1>5. CASE ~(sets # <<>> /\ A!Complete(sets))
  <2>1. request' = A!Nothing /\ shown' = A!Said
    BY <1>5 DEF A!Ask
  <2>2. Honest(shown)'
    BY <2>1 DEF Honest, A!Said
  <2>3. AnswerInv' /\ RequestInv'
    BY <1>1, <1>2, <2>1, <2>2 DEF AnswerInv, RequestInv, A!Nothing
  <2>. QED BY <1>3, <2>3 DEF AttrInv
<1>. QED BY <1>4, <1>5

\* What may be named for a read can be asked for.
LEMMA NamedToRead ==
    ASSUME NEW args \in Arguments
    PROVE  A!parseAttributes(args) \in Seq(Nat)
<1>1. args \in Seq(Nat)
  BY AttributesAssumption DEF AttributesAssumption
<1>. QED BY <1>1, Known DEF A!parseAttributes

\* A read keeps it.
LEMMA ReadKeeps == AttrInv /\ A!Read => AttrInv'
<1>. SUFFICES ASSUME AttrInv, A!Read PROVE AttrInv'
  OBVIOUS
<1>1. PICK args \in Arguments :
         LET attrs == A!parseAttributes(args)
         IN  A!Ask([kind |-> "read", attrs |-> attrs], "read", [i \in DOMAIN attrs |-> {[id |-> attrs[i]]}])
  BY DEF A!Read
<1>2. PICK attrs \in Seq(Nat) : attrs = A!parseAttributes(args)
  <2>1. A!parseAttributes(args) \in Seq(Nat)
    BY NamedToRead
  <2>. QED BY <2>1
<1>. DEFINE command == [kind |-> "read", attrs |-> attrs]
            sets == [i \in DOMAIN attrs |-> {[id |-> attrs[i]]}]
<1>3. A!Ask(command, "read", sets)
  BY <1>1, <1>2
<1>4. DOMAIN sets = DOMAIN command.attrs /\ command.kind = "read" /\ command.attrs = attrs
  OBVIOUS
<1>5. ASSUME NEW rs, DOMAIN rs = DOMAIN sets, \A i \in DOMAIN sets : rs[i] \in sets[i]
      PROVE  Fits(command, "read", rs)
  <2>1. ASSUME NEW i \in DOMAIN attrs PROVE rs[i].id = attrs[i]
    <3>1. rs[i] = [id |-> attrs[i]]
      BY <1>5
    <3>. QED BY <3>1
  <2>. QED BY <1>4, <2>1 DEF Fits
<1>6. "read" \in RequestKinds /\ command.attrs \in Seq(Nat)
  BY <1>4 DEF RequestKinds
<1>. HIDE DEF command, sets
<1>. QED BY <1>3, <1>4, <1>5, <1>6, Asking

\* So does a write.
LEMMA WriteKeeps == AttrInv /\ A!Write => AttrInv'
<1>. SUFFICES ASSUME AttrInv, A!Write PROVE AttrInv'
  OBVIOUS
<1>1. PICK args \in Arguments, flag \in {0} \cup {f.type : f \in Flags} :
         \E words \in [DOMAIN args -> DOMAIN TypedValues] :
            A!Ask([kind |-> "write", attrs |-> args, words |-> words], "write",
                  [i \in DOMAIN args |-> A!WriteRecord(args[i], words[i], flag)])
  BY DEF A!Write
<1>2. PICK words \in [DOMAIN args -> DOMAIN TypedValues] :
            A!Ask([kind |-> "write", attrs |-> args, words |-> words], "write",
                  [i \in DOMAIN args |-> A!WriteRecord(args[i], words[i], flag)])
  BY <1>1
<1>3. flag \in Nat /\ args \in Seq(Nat)
  BY AttributesAssumption DEF AttributesAssumption
<1>. DEFINE command == [kind |-> "write", attrs |-> args, words |-> words]
            sets == [i \in DOMAIN args |-> A!WriteRecord(args[i], words[i], flag)]
<1>4. /\ A!Ask(command, "write", sets) /\ DOMAIN sets = DOMAIN command.attrs
      /\ command.kind = "write" /\ command.attrs = args /\ command.words = words
  BY <1>2
<1>5. ASSUME NEW rs, DOMAIN rs = DOMAIN sets, \A i \in DOMAIN sets : rs[i] \in sets[i]
      PROVE  Fits(command, "write", rs)
  <2>1. ASSUME NEW i \in DOMAIN args
        PROVE  words[i] \in DOMAIN TypedValues /\ rs[i] \in A!WriteRecord(args[i], words[i], flag)
    BY <1>5
  <2>2. ASSUME NEW i \in DOMAIN args PROVE rs[i].id = args[i]
    BY <1>3, <2>1, Written
  <2>3. WriteAsked(command, rs)
    BY <1>3, <1>4, <2>1 DEF WriteAsked
  <2>. QED BY <1>4, <2>2, <2>3 DEF Fits
<1>6. "write" \in RequestKinds /\ command.attrs \in Seq(Nat)
  BY <1>3, <1>4 DEF RequestKinds
<1>. HIDE DEF command, sets
<1>. QED BY <1>4, <1>5, <1>6, Asking

\* So does a configuration.
LEMMA ReportingKeeps == AttrInv /\ A!Reporting => AttrInv'
<1>. SUFFICES ASSUME AttrInv, A!Reporting PROVE AttrInv'
  OBVIOUS
<1>1. PICK args \in Arguments, f \in Flags :
         A!Ask([kind |-> "reporting", attrs |-> args, flags |-> f], "reporting",
               IF f.change < 0 \/ (f.off /\ f.defaults) THEN <<>>
               ELSE [i \in DOMAIN args |-> A!ReportRecord(args[i], f)])
  BY DEF A!Reporting
<1>2. args \in Seq(Nat)
  BY AttributesAssumption DEF AttributesAssumption
<1>. DEFINE command == [kind |-> "reporting", attrs |-> args, flags |-> f]
            all == [i \in DOMAIN args |-> A!ReportRecord(args[i], f)]
            sets == IF f.change < 0 \/ (f.off /\ f.defaults) THEN <<>> ELSE all
<1>3. A!Ask(command, "reporting", sets)
  BY <1>1
<1>4. /\ DOMAIN all = DOMAIN command.attrs /\ command.kind = "reporting"
      /\ command.attrs = args /\ command.flags = f
  OBVIOUS
<1>5. sets # <<>> => sets = all /\ ~(f.change < 0)
  OBVIOUS
<1>6. ASSUME sets # <<>>, NEW rs, DOMAIN rs = DOMAIN sets, \A i \in DOMAIN sets : rs[i] \in sets[i]
      PROVE  Fits(command, "reporting", rs)
  <2>1. ASSUME NEW i \in DOMAIN args PROVE rs[i] \in A!ReportRecord(args[i], f)
    BY <1>5, <1>6
  <2>2. ASSUME NEW i \in DOMAIN args PROVE rs[i].id = args[i]
    BY <1>5, <1>6, <2>1, Reported
  <2>3. ReportAsked(command, rs)
    BY <1>4, <1>5, <1>6, <2>1 DEF ReportAsked
  <2>. QED BY <1>4, <2>2, <2>3 DEF Fits
<1>7. "reporting" \in RequestKinds /\ command.attrs \in Seq(Nat)
  BY <1>2, <1>4 DEF RequestKinds
<1>8. sets # <<>> => DOMAIN sets = DOMAIN command.attrs
  BY <1>4, <1>5
<1>. HIDE DEF command, sets, all
<1>. QED BY <1>3, <1>4, <1>6, <1>7, <1>8, Asking

\* So does -show.
LEMMA ShowKeeps == AttrInv /\ A!Show => AttrInv'
<1>. SUFFICES ASSUME AttrInv, A!Show PROVE AttrInv'
  OBVIOUS
<1>1. PICK args \in Arguments, f \in Flags :
         A!Ask([kind |-> "show", attrs |-> args], "show",
               IF f.change < 0 \/ f.off \/ f.defaults THEN <<>>
               ELSE [i \in DOMAIN args |-> IF A!attributeType(args[i], f.type) = {} THEN {}
                                           ELSE {[id |-> args[i]]}])
  BY DEF A!Show
<1>2. args \in Seq(Nat)
  BY AttributesAssumption DEF AttributesAssumption
<1>. DEFINE command == [kind |-> "show", attrs |-> args]
            all == [i \in DOMAIN args |-> IF A!attributeType(args[i], f.type) = {} THEN {}
                                          ELSE {[id |-> args[i]]}]
            sets == IF f.change < 0 \/ f.off \/ f.defaults THEN <<>> ELSE all
<1>3. A!Ask(command, "show", sets)
  BY <1>1
<1>4. DOMAIN all = DOMAIN command.attrs /\ command.kind = "show" /\ command.attrs = args
  OBVIOUS
<1>5. sets # <<>> => sets = all
  OBVIOUS
<1>6. ASSUME sets # <<>>, NEW rs, DOMAIN rs = DOMAIN sets, \A i \in DOMAIN sets : rs[i] \in sets[i]
      PROVE  Fits(command, "show", rs)
  <2>1. ASSUME NEW i \in DOMAIN args PROVE rs[i].id = args[i]
    <3>1. rs[i] \in all[i]
      BY <1>5, <1>6
    <3>2. rs[i] = [id |-> args[i]]
      BY <3>1
    <3>. QED BY <3>2
  <2>. QED BY <1>4, <2>1 DEF Fits
<1>7. "show" \in RequestKinds /\ command.attrs \in Seq(Nat)
  BY <1>2, <1>4 DEF RequestKinds
<1>8. sets # <<>> => DOMAIN sets = DOMAIN command.attrs
  BY <1>4, <1>5
<1>. HIDE DEF command, sets, all
<1>. QED BY <1>3, <1>4, <1>6, <1>7, <1>8, Asking

\* What is asked is as it was, if the command and the request are.
LEMMA RequestSame ==
    ASSUME RequestInv, typed' = typed, request' = request
    PROVE  RequestInv'
<1>1. A!Nothing' = A!Nothing
  BY DEF A!Nothing
<1>2. WriteAsked(typed, request.records) => WriteAsked(typed, request.records)'
  BY DEF WriteAsked
<1>3. ReportAsked(typed, request.records) => ReportAsked(typed, request.records)'
  BY DEF ReportAsked
<1>. QED BY <1>1, <1>2, <1>3 DEF RequestInv

\* What will be heard of the answer is what became of the command.
LEMMA HeardHonest ==
    ASSUME DeviceInv, RequestInv, request # A!Nothing, NEW rs, rs = request.records, A!Apply(rs),
           NEW p, p \in A!Payload(rs), NEW q, q = p \/ q = A!Front(p), NEW x \in BOOLEAN, x => q = p,
           typed' = typed, reply' = [kind |-> request.kind, payload |-> q, whole |-> x]
    PROVE  Honest(A!Heard)'
<1>. DEFINE w == IF Briefly /\ q = <<A!Success>> THEN A!Shorthand ELSE A!Walked(request.kind, q)
<1>1. reply'.kind = request.kind /\ reply'.payload = q /\ reply'.whole = x
  OBVIOUS
<1>2. request.kind \in RequestKinds /\ typed.kind = request.kind
  BY DEF RequestInv
<1>3. A!Shorthand' = A!Shorthand
  BY DEF A!Shorthand
<1>4. A!Heard' = w
  <2>1. CASE request.kind = "read"
    BY <1>1, <2>1 DEF A!Heard, Briefly
  <2>2. CASE request.kind = "write"
    BY <1>1, <1>3, <2>2 DEF A!Heard, A!WriteResponse, Briefly
  <2>3. CASE request.kind = "reporting"
    BY <1>1, <1>3, <2>3 DEF A!Heard, A!ConfigureReportingResponse, Briefly
  <2>4. CASE request.kind = "show"
    BY <1>1, <2>4 DEF A!Heard, Briefly
  <2>. QED BY <1>2, <2>1, <2>2, <2>3, <2>4 DEF RequestKinds
<1>5. Faithful(rs, w, q = p)
  BY Outcome
<1>. HIDE DEF w
<1>6. CASE w = A!Said
  <2>1. A!Heard'.error = TRUE
    BY <1>4, <1>6 DEF A!Said
  <2>. QED BY <2>1 DEF Honest
<1>7. CASE w # A!Said
  <2>1. PICK res : res = w.results /\ Owned(rs, res) /\ (x => Covered(rs, res))
    BY <1>5, <1>7 DEF Faithful
  <2>2. /\ request.kind = "write" => WriteHonest(res, x)'
        /\ request.kind = "reporting" => ReportHonest(res)'
    BY <2>1, WriteSaid
  <2>3. /\ request.kind = "read" => ReadHonest(res, x)'
        /\ request.kind = "show" => ShowHonest(res, x)'
    BY <2>1, ReadSaid
  <2>4. A!Heard'.results = res
    BY <1>4, <2>1
  <2>. HIDE DEF Briefly
  <2>. QED BY <1>1, <1>2, <2>2, <2>3, <2>4 DEF Honest, WriteHonest, ReportHonest, ReadHonest, ShowHonest
<1>. QED BY <1>6, <1>7

\* An answer keeps it.
LEMMA AnswerKeeps == AttrInv /\ A!Answer => AttrInv'
<1>. SUFFICES ASSUME AttrInv, A!Answer PROVE AttrInv'
  OBVIOUS
<1>1. /\ request # A!Nothing /\ reply = A!Nothing /\ A!Apply(request.records)
      /\ typed' = typed /\ request' = request
  BY DEF A!Answer
<1>2. DeviceInv'
  BY <1>1, Applied DEF AttrInv
<1>3. RequestInv'
  <2>1. RequestInv
    BY DEF AttrInv
  <2>. QED BY <1>1, <2>1, RequestSame
<1>4. PICK p \in A!Payload(request.records) :
         \/ reply' = [kind |-> request.kind, payload |-> p, whole |-> TRUE]
         \/ reply' = [kind |-> request.kind, payload |-> A!Front(p), whole |-> FALSE]
  BY DEF A!Answer
<1>5. Honest(A!Heard)'
  <2>1. CASE reply' = [kind |-> request.kind, payload |-> p, whole |-> TRUE]
    BY <1>1, <1>4, <2>1, HeardHonest DEF AttrInv
  <2>2. CASE reply' = [kind |-> request.kind, payload |-> A!Front(p), whole |-> FALSE]
    BY <1>1, <1>4, <2>2, HeardHonest DEF AttrInv
  <2>. QED BY <1>4, <2>1, <2>2
<1>6. typed # A!Nothing
  BY <1>1 DEF AttrInv, RequestInv
<1>7. AnswerInv'
  BY <1>1, <1>5, <1>6 DEF AnswerInv, A!Nothing
<1>. QED BY <1>2, <1>3, <1>7 DEF AttrInv

\* So does an answer that is not one, or is not about what was asked.
LEMMA OtherKeeps == AttrInv /\ A!AnswerOther => AttrInv'
<1>. SUFFICES ASSUME AttrInv, A!AnswerOther PROVE AttrInv'
  OBVIOUS
<1>1. /\ request # A!Nothing /\ typed' = typed /\ request' = request
      /\ A!Apply(request.records) \/ (held' = held /\ config' = config)
  BY DEF A!AnswerOther
<1>2. DeviceInv'
  <2>1. held' = held /\ config' = config => DeviceInv'
    BY DEF AttrInv, DeviceInv
  <2>. QED BY <1>1, <2>1, Applied DEF AttrInv
<1>3. RequestInv'
  <2>1. RequestInv
    BY DEF AttrInv
  <2>. QED BY <1>1, <2>1, RequestSame
<1>4. typed # A!Nothing /\ typed.kind = request.kind
  BY <1>1 DEF AttrInv, RequestInv
<1>5. Honest(A!Heard)'
  <2>1. CASE reply'.kind = "default"
    <3>1. A!Heard' = A!Said
      BY <2>1 DEF A!Heard, A!Said
    <3>2. A!Heard'.error = TRUE
      BY <3>1 DEF A!Said
    <3>. QED BY <3>2 DEF Honest
  <2>2. CASE request.kind = "show" /\ reply'.whole = FALSE
    BY <1>1, <1>4, <2>2 DEF Honest, ShowHonest
  <2>3. reply'.kind = "default" \/ (request.kind = "show" /\ reply'.whole = FALSE)
    BY DEF A!AnswerOther
  <2>. QED BY <2>1, <2>2, <2>3
<1>6. AnswerInv'
  BY <1>1, <1>4, <1>5 DEF AnswerInv, A!Nothing
<1>. QED BY <1>2, <1>3, <1>6 DEF AttrInv

\* What is honest stays so, if nothing it is about changes.
LEMMA HonestSame ==
    ASSUME held' = held, config' = config, typed' = typed, reply' = reply, refused' = refused,
           NEW s, Honest(s), NEW t, t = s
    PROVE  Honest(t)'
<1>1. ASSUME NEW a PROVE A!Meaning(a)' = A!Meaning(a) /\ A!Wanted(a)' = A!Wanted(a)
  BY DEF A!Meaning, A!Wanted
<1>2. ASSUME NEW res, NEW x, WriteHonest(res, x) PROVE WriteHonest(res, x)'
  BY <1>1, <1>2 DEF WriteHonest, A!Success
<1>3. ASSUME NEW res, NEW x, ReadHonest(res, x) PROVE ReadHonest(res, x)'
  BY <1>1, <1>3 DEF ReadHonest, A!Success
<1>4. ASSUME NEW res, ReportHonest(res) PROVE ReportHonest(res)'
  BY <1>4 DEF ReportHonest, AsAsked, A!Reports, A!Success
<1>5. ASSUME NEW res, NEW x, ShowHonest(res, x) PROVE ShowHonest(res, x)'
  BY <1>5 DEF ShowHonest, ShownRight, A!Reports, A!Success
<1>. QED BY <1>2, <1>3, <1>4, <1>5 DEF Honest

\* A step of the attributes keeps the invariant.
LEMMA AttrStep == AttrInv /\ A!AttrNext => AttrInv'
<1>. SUFFICES ASSUME AttrInv, A!AttrNext PROVE AttrInv'
  OBVIOUS
<1>1. CASE A!Receive
  <2>1. /\ shown' = A!Heard /\ request' = A!Nothing /\ request # A!Nothing /\ reply # A!Nothing
        /\ held' = held /\ config' = config /\ typed' = typed /\ reply' = reply /\ refused' = refused
    BY <1>1 DEF A!Receive
  <2>2. Honest(A!Heard) /\ typed # A!Nothing
    BY <2>1 DEF AttrInv, AnswerInv, RequestInv
  <2>3. PICK h : h = A!Heard
    OBVIOUS
  <2>4. Honest(shown)'
    BY <2>1, <2>2, <2>3, HonestSame
  <2>. QED BY <2>1, <2>2, <2>4 DEF AttrInv, AnswerInv, RequestInv, DeviceInv, A!Nothing
<1>2. CASE A!Finish
  <2>1. /\ typed' = A!Nothing /\ reply' = A!Nothing /\ request' = request /\ request = A!Nothing
        /\ held' = held /\ config' = config
    BY <1>2 DEF A!Finish
  <2>. QED BY <2>1 DEF AttrInv, AnswerInv, RequestInv, DeviceInv, A!Nothing
<1>. QED BY <1>1, <1>2, ReadKeeps, WriteKeeps, ReportingKeeps, ShowKeeps, AnswerKeeps, OtherKeeps
         DEF A!AttrNext

\* So does a step of another part.
LEMMA AttrIdle == AttrInv /\ UNCHANGED attributesVars => AttrInv'
<1>. SUFFICES ASSUME AttrInv, UNCHANGED attributesVars PROVE AttrInv'
  OBVIOUS
<1>1. /\ held' = held /\ config' = config /\ typed' = typed /\ request' = request
      /\ reply' = reply /\ refused' = refused /\ shown' = shown
  BY DEF attributesVars
<1>2. DeviceInv' /\ RequestInv'
  <2>1. DeviceInv /\ RequestInv
    BY DEF AttrInv
  <2>2. DeviceInv'
    BY <1>1, <2>1 DEF DeviceInv
  <2>3. RequestInv'
    BY <1>1, <2>1, RequestSame
  <2>. QED BY <2>2, <2>3
<1>3. Honest(shown) => Honest(shown)'
  BY <1>1, HonestSame
<1>4. Honest(A!Heard) => Honest(A!Heard)'
  <2>1. A!Heard' = A!Heard
    BY <1>1 DEF A!Heard, A!WriteResponse, A!ConfigureReportingResponse, A!Shorthand, A!Said
  <2>2. PICK h : h = A!Heard
    OBVIOUS
  <2>3. ASSUME Honest(A!Heard) PROVE Honest(h)'
    BY <1>1, <2>2, <2>3, HonestSame
  <2>. QED BY <2>1, <2>2, <2>3 DEF Honest
<1>5. AnswerInv'
  BY <1>1, <1>3, <1>4 DEF AttrInv, AnswerInv, A!Nothing
<1>. QED BY <1>2, <1>5 DEF AttrInv

\* What is asked of the attributes, and what is said of them, at every moment.
LEMMA AttrAlways == PartSpec => [](part = "attributes" => AttrInv)
<1>1. PartInit => (part = "attributes" => AttrInv)
  BY AttrStart DEF PartInit
<1>2. (part = "attributes" => AttrInv) /\ [PartNext]_partVars => (part = "attributes" => AttrInv)'
  BY AttrStep, AttrIdle DEF PartNext, partVars
<1>. QED BY <1>1, <1>2, PTL DEF PartSpec

\* What is said of an attribute is what became of it at the device: one said to be written
\* holds the number that was typed, one read is said to have the number it has, and one is said
\* to be refused if and only if the device refused it (boundedUint's comment, WriteResponse,
\* ReadAttributes, refusal).
THEOREM AnswersAreTheDevicesHolds == PartSpec => []AnswersAreTheDevices
<1>1. (part = "attributes" => AttrInv) => AnswersAreTheDevices
  <2>1. ASSUME AttrInv, A!Concluded("write") PROVE WriteHonest(shown.results, reply.whole)
    BY <2>1 DEF AttrInv, AnswerInv, Honest, A!Concluded
  <2>2. ASSUME AttrInv, A!Concluded("read") PROVE ReadHonest(shown.results, reply.whole)
    BY <2>2 DEF AttrInv, AnswerInv, Honest, A!Concluded
  <2>3. AttrInv => A!AnswersAreTheDevices
    BY <2>1, <2>2, Zenon DEF WriteHonest, ReadHonest, A!AnswersAreTheDevices
  <2>. QED BY <2>3 DEF AnswersAreTheDevices
<1>. QED BY <1>1, AttrAlways, PTL

\* An attribute whose reporting was configured reports as the flags asked, and -show tells of
\* exactly the configuration the device holds (reportInterval, ReportDefaults, ReportingStatus).
THEOREM ReportingAsAskedHolds == PartSpec => []ReportingAsAsked
<1>1. (part = "attributes" => AttrInv) => ReportingAsAsked
  <2>1. ASSUME AttrInv, A!Concluded("reporting") PROVE ReportHonest(shown.results)
    BY <2>1 DEF AttrInv, AnswerInv, Honest, A!Concluded
  <2>2. ASSUME AttrInv, A!Concluded("show") PROVE ShowHonest(shown.results, reply.whole)
    BY <2>2 DEF AttrInv, AnswerInv, Honest, A!Concluded
  <2>3. AttrInv => A!ReportingAsAsked
    BY <2>1, <2>2, Zenon DEF ReportHonest, AsAsked, ShowHonest, ShownRight, A!ReportingAsAsked
  <2>. QED BY <2>3 DEF ReportingAsAsked
<1>. QED BY <1>1, AttrAlways, PTL
=============================================================================
