--------------------------- MODULE CommandsProofs ---------------------------
(***************************************************************************)
(* Proofs about what a person types, for every value of the constants: the *)
(* lamp after a phrase of any words, the device a line means, and the join   *)
(* window of a session.                                                    *)
(***************************************************************************)
EXTENDS MCCommands, WellFoundedInduction, TLAPS

-----------------------------------------------------------------------------
(***************************************************************************)
(* Induction over numbers, for properties that are sets of them.           *)
(***************************************************************************)
\* A set of natural numbers that is not empty has a least element.
LEMMA LeastOf ==
    ASSUME NEW T \in SUBSET Nat, T # {}
    PROVE  \E m \in T : \A k \in T : ~(k < m)
<1>1. IsWellFoundedOn(OpToRel(<, Nat), Nat)
  BY NatLessThanWellFounded, Zenon
<1>2. PICK x \in T : \A y \in T : ~(<<y, x>> \in OpToRel(<, Nat))
  BY <1>1, WFMin
<1>. QED BY <1>2 DEF OpToRel

\* Induction, for a property given as the set of the numbers that have it.
LEMMA Induction ==
    ASSUME NEW T, 0 \in T, \A n \in Nat : n \in T => n + 1 \in T
    PROVE  Nat \subseteq T
<1>1. ASSUME Nat \ T # {} PROVE FALSE
  <2>1. PICK m \in Nat \ T : \A k \in Nat \ T : ~(k < m)
    BY <1>1, LeastOf
  <2>2. m # 0 /\ m - 1 \in Nat /\ m - 1 < m
    BY <2>1
  <2>. QED BY <2>1, <2>2
<1>. QED BY <1>1

\* The same over the numbers up to n.
LEMMA AllAlong ==
    ASSUME NEW n \in Nat, NEW T, 0 \in T, \A i \in 1..n : i - 1 \in T => i \in T
    PROVE  0..n \subseteq T
<1>. DEFINE U == {i \in Nat : i <= n => i \in T}
<1>1. 0 \in U
  OBVIOUS
<1>2. ASSUME NEW i \in Nat, i \in U PROVE i + 1 \in U
  <2>1. i + 1 <= n => i + 1 \in 1..n /\ (i + 1) - 1 = i /\ i \in T
    BY <1>2
  <2>. QED BY <2>1
<1>. HIDE DEF U
<1>3. Nat \subseteq U
  BY <1>1, <1>2, Induction
<1>. QED BY <1>3 DEF U

\* f is defined from its value one place before, by F, starting at c.
Recursive(f, n, c, F) == \A i \in 0..n : f[i] = IF i = 0 THEN c ELSE F[<<i, f[i - 1]>>]

\* A function on an interval that is defined from its value one place before exists.
LEMMA Recursion ==
    ASSUME NEW X, NEW c \in X, NEW F \in [Nat \X X -> X], NEW n \in Nat
    PROVE  \E f \in [0..n -> X] : Recursive(f, n, c, F)
<1>. DEFINE Is(f, m) == \A i \in 0..m : f[i] = IF i = 0 THEN c ELSE F[<<i, f[i - 1]>>]
            T == {m \in Nat : \E f \in [0..m -> X] : Is(f, m)}
<1>1. 0 \in T
  <2>1. [i \in 0..0 |-> c] \in [0..0 -> X] /\ Is([i \in 0..0 |-> c], 0)
    OBVIOUS
  <2>. QED BY <2>1
<1>2. ASSUME NEW m \in Nat, m \in T PROVE m + 1 \in T
  <2>1. PICK f \in [0..m -> X] : Is(f, m)
    BY <1>2
  <2>. DEFINE v == F[<<m + 1, f[m]>>]
              g == [i \in 0..(m + 1) |-> IF i = m + 1 THEN v ELSE f[i]]
  <2>2. v \in X
    OBVIOUS
  <2>3. g \in [0..(m + 1) -> X]
    <3>1. ASSUME NEW i \in 0..(m + 1) PROVE (IF i = m + 1 THEN v ELSE f[i]) \in X
      <4>1. i # m + 1 => i \in 0..m
        OBVIOUS
      <4>. QED BY <2>2, <4>1
    <3>. QED BY <3>1
  <2>4. Is(g, m + 1)
    <3>. SUFFICES ASSUME NEW i \in 0..(m + 1)
                  PROVE  g[i] = IF i = 0 THEN c ELSE F[<<i, g[i - 1]>>]
      OBVIOUS
    <3>1. CASE i = m + 1
      <4>1. i # 0 /\ i - 1 = m /\ m \in 0..(m + 1) /\ m # m + 1
        BY <3>1
      <4>2. g[m] = f[m] /\ g[i] = v
        BY <3>1, <4>1
      <4>. HIDE DEF g
      <4>. QED BY <3>1, <4>1, <4>2
    <3>2. CASE i # m + 1
      <4>1. i \in 0..m /\ g[i] = f[i]
        BY <3>2
      <4>2. i # 0 => i - 1 \in 0..m /\ i - 1 # m + 1 /\ i - 1 \in 0..(m + 1)
        BY <4>1
      <4>3. i # 0 => g[i - 1] = f[i - 1]
        BY <4>2
      <4>. HIDE DEF g
      <4>. QED BY <2>1, <4>1, <4>3
    <3>. QED BY <3>1, <3>2
  <2>. HIDE DEF g
  <2>. QED BY <2>3, <2>4
<1>. HIDE DEF T
<1>3. n \in T
  BY <1>1, <1>2, Induction
<1>. QED BY <1>3 DEF T, Recursive

-----------------------------------------------------------------------------
(***************************************************************************)
(* What the words of a phrase come to.                                     *)
(***************************************************************************)
\* The least and the greatest of two numbers.
LEMMA MinMax ==
    \A a, b \in Int : /\ L!Min({a, b}) = IF a <= b THEN a ELSE b
                      /\ L!Max({a, b}) = IF a <= b THEN b ELSE a
  BY DEF L!Min, L!Max

\* A level is brought into what the cluster can hold.
LEMMA Clamped ==
    \A n \in Int : /\ L!clampLevel(n) = IF n < 1 THEN 1 ELSE IF n > 254 THEN 254 ELSE n
                   /\ L!clampLevel(n) \in 1..254
<1>. SUFFICES ASSUME NEW n \in Int
              PROVE  L!clampLevel(n) = IF n < 1 THEN 1 ELSE IF n > 254 THEN 254 ELSE n
  OBVIOUS
<1>1. L!clampLevel(n) = L!Max({1, L!Min({254, n})})
  BY DEF L!clampLevel, L!MinLevel, L!MaxLevel
<1>2. L!Min({254, n}) = IF n > 254 THEN 254 ELSE n
  BY MinMax
<1>3. L!Max({1, IF n > 254 THEN 254 ELSE n}) = IF n < 1 THEN 1 ELSE IF n > 254 THEN 254 ELSE n
  <2>1. (IF n > 254 THEN 254 ELSE n) \in Int
    OBVIOUS
  <2>. QED BY <2>1, MinMax
<1>. QED BY <1>1, <1>2, <1>3

\* What a word asks for, by how it begins.
LEMMA Acts ==
    ASSUME NEW w
    PROVE  /\ w[1] \in L!switchWords => L!ParseAction(w) = L!Act(w[1], 0, L!White(0))
           /\ w[1] \in DOMAIN L!levelWords =>
                 L!ParseAction(w) = L!Act("level", L!levelWords[w[1]], L!White(0))
           /\ w[1] \in DOMAIN L!stepWords =>
                 L!ParseAction(w) = L!Act("step", L!stepWords[w[1]], L!White(0))
           /\ w[1] = "level:" => L!ParseAction(w) = L!Act("level", w[2], L!White(0))
           /\ w[1] = "%" => L!ParseAction(w) = L!Act("level", L!levelFromPercent(w[2]), L!White(0))
           /\ w[1] = "hue:" => L!ParseAction(w) = L!Act("color", 0, L!ExactHueSaturation(w[2], w[3]))
           /\ w[1] = "k" => L!ParseAction(w) = L!Act("color", 0, L!White(L!Round(1000000, w[2])))
           /\ w[1] = "#" => L!ParseAction(w) = L!Act("color", 0, L!parseHexColor(w[2], w[3], w[4]))
           /\ w[1] \in DOMAIN L!namedColors => L!ParseAction(w) = L!Act("color", 0, L!namedColors[w[1]])
<1>. USE DEF L!ParseAction, L!switchWords, L!levelWords, L!stepWords
<1>1. ASSUME w[1] \in L!switchWords PROVE L!ParseAction(w) = L!Act(w[1], 0, L!White(0))
  BY <1>1, SMT
<1>2. ASSUME w[1] \in DOMAIN L!levelWords
      PROVE  L!ParseAction(w) = L!Act("level", L!levelWords[w[1]], L!White(0))
  BY <1>2, SMT
<1>3. ASSUME w[1] \in DOMAIN L!stepWords
      PROVE  L!ParseAction(w) = L!Act("step", L!stepWords[w[1]], L!White(0))
  BY <1>3, SMT
<1>4. ASSUME w[1] = "level:" PROVE L!ParseAction(w) = L!Act("level", w[2], L!White(0))
  BY <1>4, SMT
<1>5. ASSUME w[1] = "%" PROVE L!ParseAction(w) = L!Act("level", L!levelFromPercent(w[2]), L!White(0))
  BY <1>5, SMT
<1>6. ASSUME w[1] = "hue:"
      PROVE  L!ParseAction(w) = L!Act("color", 0, L!ExactHueSaturation(w[2], w[3]))
  BY <1>6, SMT
<1>7. ASSUME w[1] = "k"
      PROVE  L!ParseAction(w) = L!Act("color", 0, L!White(L!Round(1000000, w[2])))
  BY <1>7, SMT
<1>8. ASSUME w[1] = "#"
      PROVE  L!ParseAction(w) = L!Act("color", 0, L!parseHexColor(w[2], w[3], w[4]))
  BY <1>8, SMT
<1>9. ASSUME w[1] \in DOMAIN L!namedColors
      PROVE  L!ParseAction(w) = L!Act("color", 0, L!namedColors[w[1]])
  BY <1>9, SMT DEF L!namedColors
<1>. HIDE DEF L!ParseAction, L!switchWords, L!levelWords, L!stepWords
<1>. QED BY <1>1, <1>2, <1>3, <1>4, <1>5, <1>6, <1>7, <1>8, <1>9

\* A word that is understood is of one kind.
LEMMA Kinds ==
    ASSUME NEW w
    PROVE  /\ DOMAIN L!Places = DOMAIN L!levelWords
           /\ w[1] \in L!switchWords => ~L!IsPlace(w) /\ ~L!IsDistance(w) /\ ~L!IsColor(w)
           /\ L!IsPlace(w) => ~L!IsDistance(w) /\ ~L!IsColor(w) /\ w[1] \notin L!switchWords
           /\ L!IsDistance(w) => ~L!IsPlace(w) /\ ~L!IsColor(w) /\ w[1] \notin L!switchWords
           /\ L!IsColor(w) => ~L!IsPlace(w) /\ ~L!IsDistance(w) /\ w[1] \notin L!switchWords
           /\ L!IsPlace(w) \/ L!IsDistance(w) \/ L!IsColor(w) \/ w[1] \in L!switchWords
<1>1. DOMAIN L!Places = DOMAIN L!levelWords
  BY SMT DEF L!Places, L!levelWords
<1>2. /\ w[1] \in L!switchWords => ~L!IsPlace(w) /\ ~L!IsDistance(w)
      /\ ~(L!IsPlace(w) /\ L!IsDistance(w))
  BY SMT DEF L!switchWords, L!IsPlace, L!IsDistance, L!Places, L!stepWords
<1>. QED BY <1>1, <1>2 DEF L!IsColor

\* A word that names a brightness sets a level within one unit of it.
LEMMA PlaceWord ==
    ASSUME NEW w, L!Understood(w), L!IsPlace(w)
    PROVE  \E n \in Int :
              /\ L!ParseAction(w) = L!Act("level", n, L!White(0))
              /\ L!Place(w) \in Int
              /\ L!Within(100, L!clampLevel(n) * 100, L!Place(w))
<1>1. CASE w[1] \in DOMAIN L!Places
  <2>1. L!ParseAction(w) = L!Act("level", L!levelWords[w[1]], L!White(0))
    BY <1>1, Kinds, Acts
  <2>2. /\ L!levelWords[w[1]] \in Int /\ 1 <= L!levelWords[w[1]] /\ L!levelWords[w[1]] <= 254
        /\ L!Place(w) \in Int
        /\ L!Within(100, L!levelWords[w[1]] * 100, L!Place(w))
    BY <1>1, SMT DEF L!levelWords, L!Places, L!Place, L!MaxLevel, L!MinLevel, L!Within
  <2>3. L!clampLevel(L!levelWords[w[1]]) = L!levelWords[w[1]]
    BY <2>2, Clamped
  <2>. QED BY <2>1, <2>2, <2>3
<1>2. CASE w[1] = "level:"
  <2>1. w[2] \in 0..L!MaxLevel
    BY <1>2, SMT DEF L!Understood, L!switchWords, L!levelWords, L!stepWords, L!namedColors
  <2>2. PICK n \in Int : n = w[2] /\ 0 <= n /\ n <= 254
    BY <2>1 DEF L!MaxLevel
  <2>3. L!ParseAction(w) = L!Act("level", n, L!White(0))
    BY <1>2, <2>2, Acts
  <2>4. L!Place(w) = n * 100
    BY <1>2, <2>2, SMT DEF L!Place, L!Places
  <2>5. L!clampLevel(n) = IF n < 1 THEN 1 ELSE n
    BY <2>2, Clamped
  <2>6. n * 100 \in Int /\ L!Within(100, L!clampLevel(n) * 100, n * 100)
    BY <2>2, <2>5 DEF L!Within
  <2>. QED BY <2>3, <2>4, <2>6
<1>3. CASE w[1] = "%"
  <2>1. PICK n \in Int : n = w[2] /\ 0 <= n /\ n <= 100
    BY <1>3, SMT DEF L!Understood, L!switchWords, L!levelWords, L!stepWords, L!namedColors
  <2>. DEFINE r == (508 * n + 100) \div 200
              v == L!clampLevel(r)
  <2>2. r \in Int /\ 0 <= r /\ r <= 254 /\ L!Within(50, r * 100, n * 254) /\ (n >= 1 => r >= 1)
    BY <2>1 DEF L!Within
  <2>. HIDE DEF r
  <2>3. v = IF r < 1 THEN 1 ELSE r
    BY <2>2, Clamped
  <2>. HIDE DEF v
  <2>4. v \in Int /\ 1 <= v /\ v <= 254 /\ n * 254 \in Int /\ L!Within(100, v * 100, n * 254)
    BY <2>1, <2>2, <2>3 DEF L!Within
  <2>5. L!clampLevel(v) = v
    BY <2>4, Clamped
  <2>6. L!levelFromPercent(w[2]) = v
    BY <2>1 DEF L!levelFromPercent, L!MaxLevel, L!Round, v, r
  <2>7. L!ParseAction(w) = L!Act("level", v, L!White(0))
    BY <1>3, <2>6, Acts
  <2>8. L!Place(w) = n * 254
    BY <1>3, <2>1, SMT DEF L!Place, L!Places, L!MaxLevel
  <2>. QED BY <2>4, <2>5, <2>7, <2>8
<1>. QED BY <1>1, <1>2, <1>3 DEF L!IsPlace

\* A word that names a distance moves by one step, up or down.
LEMMA DistanceWord ==
    ASSUME NEW w, L!IsDistance(w)
    PROVE  /\ L!ParseAction(w) = L!Act("step", L!stepWords[w[1]], L!White(0))
           /\ L!stepWords[w[1]] \in {-64, 64}
<1>1. L!stepWords[w[1]] \in {-64, 64}
  BY SMT DEF L!IsDistance, L!stepWords, L!levelStep
<1>. QED BY <1>1, Acts DEF L!IsDistance

\* A word that names a colour sets it.
LEMMA ColorWord ==
    ASSUME NEW w, L!Understood(w), L!IsColor(w)
    PROVE  \E c :
              /\ L!ParseAction(w) = L!Act("color", 0, c)
              /\ \/ w[1] \in DOMAIN L!namedColors /\ c = L!namedColors[w[1]]
                 \/ w[1] = "hue:" /\ c = L!ExactHueSaturation(w[2], w[3])
                 \/ w[1] = "k" /\ w[2] >= 1000 /\ w[2] <= 40000 /\ c = L!White(L!Round(1000000, w[2]))
                 \/ w[1] = "#" /\ {w[2], w[3], w[4]} # {0} /\ c = L!parseHexColor(w[2], w[3], w[4])
<1>1. ~L!IsPlace(w) /\ ~L!IsDistance(w) /\ w[1] \notin L!switchWords
  BY Kinds
<1>2. /\ w[1] \notin L!switchWords /\ w[1] \notin DOMAIN L!levelWords
      /\ w[1] \notin DOMAIN L!stepWords /\ w[1] # "%" /\ w[1] # "level:"
  BY <1>1, Kinds DEF L!IsPlace, L!IsDistance
<1>3. \/ w[1] \in DOMAIN L!namedColors
      \/ w[1] = "hue:"
      \/ w[1] = "k" /\ w[2] >= 1000 /\ w[2] <= 40000
      \/ w[1] = "#" /\ {w[2], w[3], w[4]} # {0}
  BY <1>2, SMT DEF L!Understood
<1>. QED BY <1>3, Acts

-----------------------------------------------------------------------------
(***************************************************************************)
(* What several copies of one action do to a lamp.                         *)
(***************************************************************************)
\* What a lamp's brightness can be.
Levels == {n \in Int : 1 <= n /\ n <= 254}

\* What an action can be.
Verbs == {"on", "off", "toggle", "level", "step", "color"}

\* What carrying out an action does to a lamp.
LEMMA Obeys ==
    ASSUME NEW m, NEW a, a.n \in Int
    PROVE  /\ a.verb = "on" => L!Obey(m, a) = [m EXCEPT !.on = TRUE]
           /\ a.verb = "off" => L!Obey(m, a) = [m EXCEPT !.on = FALSE]
           /\ a.verb = "toggle" => L!Obey(m, a) = [m EXCEPT !.on = ~m.on]
           /\ a.verb = "level" => L!Obey(m, a) =
                 [m EXCEPT !.level = L!clampLevel(a.n), !.fade = L!tenths(transition)]
           /\ a.verb = "step" => L!Obey(m, a) = L!StepLevel(m, a.n)
           /\ a.verb = "color" => L!Obey(m, a) = L!SetColor(m, a.color)
<1>1. ASSUME a.verb = "on" PROVE L!Obey(m, a) = [m EXCEPT !.on = TRUE]
  BY <1>1, SMT DEF L!Obey, L!Switch
<1>2. ASSUME a.verb = "off" PROVE L!Obey(m, a) = [m EXCEPT !.on = FALSE]
  BY <1>2, SMT DEF L!Obey, L!Switch
<1>3. ASSUME a.verb = "toggle" PROVE L!Obey(m, a) = [m EXCEPT !.on = ~m.on]
  BY <1>3, SMT DEF L!Obey, L!Toggle
<1>4. ASSUME a.verb = "level"
      PROVE  L!Obey(m, a) = [m EXCEPT !.level = L!clampLevel(a.n), !.fade = L!tenths(transition)]
  BY <1>4, SMT DEF L!Obey, L!SetLevel
<1>5. ASSUME a.verb = "step" PROVE L!Obey(m, a) = L!StepLevel(m, a.n)
  BY <1>5, SMT DEF L!Obey
<1>6. ASSUME a.verb = "color" PROVE L!Obey(m, a) = L!SetColor(m, a.color)
  BY <1>6, SMT DEF L!Obey
<1>. QED BY <1>1, <1>2, <1>3, <1>4, <1>5, <1>6

\* A step moves the level by its distance, inside the range.
LEMMA Steps ==
    ASSUME NEW m, NEW d \in {-64, 64}, m.level \in Int
    PROVE  L!StepLevel(m, d) =
              [m EXCEPT !.level = L!clampLevel(m.level + d), !.fade = L!tenths(transition)]
<1>1. L!Min({254, IF d >= 0 THEN d ELSE -d}) = 64
  BY MinMax
<1>2. (IF d >= 0 THEN m.level + 64 ELSE m.level - 64) = m.level + d
  OBVIOUS
<1>. QED BY <1>1, <1>2 DEF L!StepLevel, L!MaxLevel

\* What carrying out a, perhaps several times, can make of lamp l.
Lamps(l, a) ==
    {m \in [on : BOOLEAN, level : Levels, onLevel : {l.onLevel},
            fade : {l.fade, L!tenths(transition)}, color : {l.color, L!SetColor(l, a.color).color}] :
        a.verb \in {"level", "step"} \/ m.level = l.level}

\* Carrying the action out once more stays among those lamps.
LEMMA ObeyTyped ==
    ASSUME NEW l, NEW a, a.verb \in Verbs, a.n \in Int, a.verb = "step" => a.n \in {-64, 64},
           NEW m \in Lamps(l, a)
    PROVE  L!Obey(m, a) \in Lamps(l, a)
<1>0. \A n \in Int : L!clampLevel(n) \in Levels
  BY Clamped DEF Levels
<1>1. CASE a.verb \in {"on", "off", "toggle"}
  <2>1. m.on \in BOOLEAN
    BY DEF Lamps
  <2>2. PICK v \in BOOLEAN : L!Obey(m, a) = [m EXCEPT !.on = v]
    BY <1>1, <2>1, Obeys
  <2>. QED BY <2>2 DEF Lamps
<1>2. CASE a.verb = "level"
  <2>1. PICK n \in Levels : n = L!clampLevel(a.n)
    BY <1>0
  <2>2. L!Obey(m, a) = [m EXCEPT !.level = n, !.fade = L!tenths(transition)]
    BY <1>2, <2>1, Obeys
  <2>. QED BY <1>2, <2>2 DEF Lamps
<1>3. CASE a.verb = "step"
  <2>1. m.level \in Int
    BY DEF Levels, Lamps
  <2>2. L!clampLevel(m.level + a.n) \in Levels
    BY <1>0, <1>3, <2>1
  <2>3. L!Obey(m, a) = [m EXCEPT !.level = L!clampLevel(m.level + a.n), !.fade = L!tenths(transition)]
    <3>1. L!Obey(m, a) = L!StepLevel(m, a.n)
      BY <1>3, Obeys
    <3>2. a.n \in {-64, 64}
      BY <1>3
    <3>. QED BY <2>1, <3>1, <3>2, Steps
  <2>. QED BY <1>3, <2>2, <2>3 DEF Lamps
<1>4. CASE a.verb = "color"
  <2>1. L!SetColor(m, a.color) = [m EXCEPT !.color = L!SetColor(l, a.color).color, !.fade = L!tenths(transition)]
    BY DEF L!SetColor
  <2>2. L!Obey(m, a) = L!SetColor(m, a.color)
    BY <1>4, SMT DEF L!Obey
  <2>. DEFINE c == L!SetColor(l, a.color).color
              z == L!tenths(transition)
  <2>3. L!Obey(m, a) = [m EXCEPT !.color = c, !.fade = z]
    BY <2>1, <2>2
  <2>4. \A o : o \in Lamps(l, a) <=>
                 /\ o \in [on : BOOLEAN, level : Levels, onLevel : {l.onLevel},
                           fade : {l.fade, z}, color : {l.color, c}]
                 /\ a.verb \in {"level", "step"} \/ o.level = l.level
    BY Zenon DEF Lamps
  <2>. HIDE DEF c, z
  <2>5. /\ m \in [on : BOOLEAN, level : Levels, onLevel : {l.onLevel}, fade : {l.fade, z}, color : {l.color, c}]
        /\ a.verb \in {"level", "step"} \/ m.level = l.level
    BY <2>4
  <2>. DEFINE o == [m EXCEPT !.color = c, !.fade = z]
  <2>6. /\ o \in [on : BOOLEAN, level : Levels, onLevel : {l.onLevel}, fade : {l.fade, z}, color : {l.color, c}]
        /\ o.level = m.level
    BY <2>5
  <2>. HIDE DEF o
  <2>7. o \in Lamps(l, a)
    BY <2>4, <2>5, <2>6, Zenon
  <2>. QED BY <2>3, <2>7, Zenon DEF o
<1>. QED BY <1>1, <1>2, <1>3, <1>4 DEF Verbs

\* All but a toggle and a step may as well be carried out once.
LEMMA ObeyTwice ==
    ASSUME NEW l, NEW a, a.verb \in Verbs \ {"toggle", "step"}, a.n \in Int, l \in Lamps(l, a)
    PROVE  L!Obey(L!Obey(l, a), a) = L!Obey(l, a)
<1>0. l = [on |-> l.on, level |-> l.level, onLevel |-> l.onLevel, fade |-> l.fade, color |-> l.color]
  BY DEF Lamps
<1>1. CASE a.verb \in {"on", "off"}
  <2>. DEFINE v == a.verb = "on"
  <2>1. \A m : L!Obey(m, a) = [m EXCEPT !.on = v]
    BY <1>1, Obeys
  <2>. HIDE DEF v
  <2>. QED BY <1>0, <2>1
<1>2. CASE a.verb = "level"
  <2>1. \A m : L!Obey(m, a) = [m EXCEPT !.level = L!clampLevel(a.n), !.fade = L!tenths(transition)]
    BY <1>2, Obeys
  <2>. QED BY <1>0, <2>1
<1>3. CASE a.verb = "color"
  <2>. DEFINE c == L!SetColor(l, a.color).color
  <2>1. \A m : L!Obey(m, a) = L!SetColor(m, a.color)
    BY <1>3, Obeys
  <2>2. \A m : L!SetColor(m, a.color) = [m EXCEPT !.color = L!SetColor(m, a.color).color, !.fade = L!tenths(transition)]
    BY DEF L!SetColor
  <2>. QED BY <1>0, <2>1 DEF L!SetColor
<1>. QED BY <1>1, <1>2, <1>3 DEF Verbs

\* The lamp after n copies of an action: none leave it, one is the action, several are one
\* unless it is a toggle or a step.
LEMMA Copies ==
    ASSUME NEW l, NEW a, a.verb \in Verbs, a.n \in Int, a.verb = "step" => a.n \in {-64, 64},
           l \in Lamps(l, a), NEW n \in Nat, NEW after,
           after = CHOOSE g : g = [k \in 0..n |-> IF k = 0 THEN l ELSE L!Obey(g[k - 1], a)]
    PROVE  /\ after[n] \in Lamps(l, a)
           /\ n = 0 => after[n] = l
           /\ n = 1 \/ (n > 1 /\ a.verb \notin {"toggle", "step"}) => after[n] = L!Obey(l, a)
<1>. DEFINE X == Lamps(l, a)
            F == [p \in Nat \X X |-> L!Obey(p[2], a)]
            Is(g) == g = [k \in 0..n |-> IF k = 0 THEN l ELSE L!Obey(g[k - 1], a)]
<1>1. \A m \in X : L!Obey(m, a) \in X
  BY ObeyTyped
<1>. HIDE DEF X
<1>2. F \in [Nat \X X -> X]
  BY <1>1
<1>3. PICK f \in [0..n -> X] : Recursive(f, n, l, F)
  <2>1. l \in X
    BY DEF X
  <2>. HIDE DEF F
  <2>. QED BY <1>2, <2>1, Recursion
<1>4. \A i \in 0..n : f[i] = IF i = 0 THEN l ELSE L!Obey(f[i - 1], a)
  <2>. SUFFICES ASSUME NEW i \in 0..n, i # 0 PROVE F[<<i, f[i - 1]>>] = L!Obey(f[i - 1], a)
    BY <1>3 DEF Recursive
  <2>1. i - 1 \in 0..n /\ i \in Nat
    OBVIOUS
  <2>2. <<i, f[i - 1]>> \in Nat \X X
    BY <2>1
  <2>. QED BY <2>2
<1>5. Is(f)
  BY <1>4
<1>6. Is(after)
  <2>. HIDE DEF Is
  <2>1. Is(CHOOSE g : Is(g))
    BY <1>5
  <2>. QED BY <2>1 DEF Is
<1>7. \A k \in 0..n : after[k] = IF k = 0 THEN l ELSE L!Obey(after[k - 1], a)
  <2>. DEFINE h == [k \in 0..n |-> IF k = 0 THEN l ELSE L!Obey(after[k - 1], a)]
  <2>1. after = h
    BY <1>6
  <2>2. \A k \in 0..n : h[k] = IF k = 0 THEN l ELSE L!Obey(after[k - 1], a)
    OBVIOUS
  <2>. HIDE DEF h
  <2>. QED BY <2>1, <2>2
<1>. HIDE DEF Is
<1>. DEFINE T == {k \in Nat : k <= n => after[k] \in X /\ (k >= 1 /\ a.verb \notin {"toggle", "step"} => after[k] = L!Obey(l, a))}
<1>8. 0 \in T
  BY <1>7 DEF X
<1>9. ASSUME NEW k \in Nat, k \in T PROVE k + 1 \in T
  <2>. SUFFICES ASSUME k + 1 <= n
                PROVE  /\ after[k + 1] \in X
                       /\ a.verb \notin {"toggle", "step"} => after[k + 1] = L!Obey(l, a)
    OBVIOUS
  <2>1. after[k + 1] = L!Obey(after[k], a)
    BY <1>7
  <2>2. after[k] \in X
    BY <1>9
  <2>3. ASSUME a.verb \notin {"toggle", "step"} PROVE after[k + 1] = L!Obey(l, a)
    <3>1. CASE k = 0
      <4>1. after[0] = l
        BY <1>7
      <4>. QED BY <2>1, <3>1, <4>1
    <3>2. CASE k # 0
      <4>1. after[k] = L!Obey(l, a)
        BY <1>9, <2>3, <3>2
      <4>. QED BY <2>1, <2>3, <4>1, ObeyTwice
    <3>. QED BY <3>1, <3>2
  <2>. QED BY <1>1, <2>1, <2>2, <2>3
<1>. HIDE DEF T
<1>10. n \in T
  BY <1>8, <1>9, Induction
<1>11. n = 1 => after[n] = L!Obey(l, a)
  BY <1>7
<1>12. n = 0 => after[n] = l
  BY <1>7
<1>. QED BY <1>10, <1>11, <1>12 DEF T, X

\* The action of an understood word is of the word's kind.
LEMMA ActOf ==
    ASSUME NEW w, L!Understood(w)
    PROVE  /\ L!ParseAction(w).verb \in Verbs /\ L!ParseAction(w).n \in Int
           /\ L!ParseAction(w).verb = "level" <=> L!IsPlace(w)
           /\ L!ParseAction(w).verb = "step" <=> L!IsDistance(w)
           /\ L!ParseAction(w).verb = "step" => L!ParseAction(w).n \in {-64, 64}
           /\ L!ParseAction(w).verb = "color" <=> L!IsColor(w)
           /\ w[1] \in L!switchWords => L!ParseAction(w).verb = w[1]
<1>. DEFINE v == L!ParseAction(w).verb
            n == L!ParseAction(w).n
<1>0. \A h, i, c : L!Act(h, i, c).verb = h /\ L!Act(h, i, c).n = i
  BY DEF L!Act
<1>1. ASSUME w[1] \in L!switchWords PROVE v = w[1] /\ n = 0 /\ v \in {"on", "off", "toggle"}
  BY <1>0, <1>1, Acts DEF L!switchWords
<1>2. ASSUME L!IsPlace(w) PROVE v = "level" /\ n \in Int
  BY <1>0, <1>2, PlaceWord
<1>3. ASSUME L!IsDistance(w) PROVE v = "step" /\ n \in {-64, 64}
  BY <1>0, <1>3, DistanceWord
<1>4. ASSUME L!IsColor(w) PROVE v = "color" /\ n = 0
  BY <1>0, <1>4, ColorWord
<1>. HIDE DEF v, n
<1>5. n \in Int /\ v \in Verbs
  BY <1>1, <1>2, <1>3, <1>4, Kinds DEF Verbs
<1>6. (v = "level" <=> L!IsPlace(w)) /\ (v = "step" <=> L!IsDistance(w)) /\ (v = "color" <=> L!IsColor(w))
  BY <1>1, <1>2, <1>3, <1>4, Kinds
<1>. QED BY <1>1, <1>3, <1>5, <1>6 DEF v, n

\* The greatest of some places in a phrase.
LEMMA MaxOf ==
    ASSUME NEW n \in Nat, NEW T \in SUBSET (0..n), T # {}
    PROVE  L!Max(T) \in T /\ \A i \in T : i <= L!Max(T)
<1>. DEFINE D == {k \in Nat : k <= n /\ n - k \in T}
<1>1. D # {} /\ D \in SUBSET Nat
  <2>1. PICK i \in T : TRUE
    OBVIOUS
  <2>2. n - i \in Nat /\ n - i <= n /\ n - (n - i) = i
    BY <2>1
  <2>. QED BY <2>1, <2>2
<1>2. PICK d \in D : \A k \in D : ~(k < d)
  BY <1>1, LeastOf
<1>3. ASSUME NEW i \in T PROVE i <= n - d
  <2>1. n - i \in Nat /\ n - i <= n /\ n - (n - i) = i
    OBVIOUS
  <2>2. n - i \in D
    BY <2>1
  <2>. QED BY <1>2, <2>1, <2>2
<1>4. n - d \in T /\ \A i \in T : i <= n - d
  BY <1>2, <1>3
<1>5. \E m \in T : \A i \in T : m >= i
  BY <1>4
<1>. QED BY <1>5 DEF L!Max

-----------------------------------------------------------------------------
(***************************************************************************)
(* The invariant of the lamp: where its brightness stands, and at which it *)
(* comes back.                                                             *)
(***************************************************************************)
\* The words were understood and the lamp is being told, or has been.
Told == light \notin {"typed", "refused"}

LightTyped ==
    /\ said \in Phrases /\ persist \in BOOLEAN /\ at \in Nat
    /\ light \in {"typed", "refused", "telling", "coloring", "persisting", "done", "failed"}
    /\ lamp = [on |-> lamp.on, level |-> lamp.level, onLevel |-> lamp.onLevel,
               fade |-> lamp.fade, color |-> lamp.color]
    /\ lamp.on \in BOOLEAN /\ lamp.level \in Levels

\* The phrase was parsed whole before any of it was carried out.
Parsed ==
    /\ ~Told => lamp = L!FirstLamp
    /\ Told =>
          /\ \A i \in 1..Len(said) : L!Understood(said[i])
          /\ actions = [i \in 1..Len(said) |-> L!ParseAction(said[i])]
          /\ persist => L!Absolute # {}
          /\ 1 <= at /\ at <= Len(said) + 1
    /\ light \in {"telling", "coloring"} => at <= Len(said)
    /\ light = "persisting" => persist
    /\ light \in {"persisting", "done"} => at = Len(said) + 1

\* The brightness is the one of the last place, if no step or place was taken since.
Standing ==
    Told /\ (light # "failed" \/ at > Len(said)) =>
        \A i \in 1..(at - 1) :
            /\ L!IsPlace(said[i])
            /\ \A j \in (i + 1)..(at - 1) : ~L!IsPlace(said[j]) /\ ~L!IsDistance(said[j])
            => lamp.level = L!clampLevel(actions[i].n)

\* The brightness that is kept is the last one that was named, and only at the end.
Persisted ==
    /\ lamp.onLevel # 255 =>
          /\ persist /\ at > Len(said) /\ light \in {"done", "failed"}
          /\ lamp.onLevel = L!clampLevel(L!lastAbsoluteLevel)
    /\ light = "done" /\ persist => lamp.onLevel # 255

LightInv == LightTyped /\ Parsed /\ Standing /\ Persisted

\* The actions --persist looks at are those of the words that name a brightness.
LEMMA Absolutes ==
    ASSUME LightTyped, Parsed, Told
    PROVE  /\ Len(said) \in Nat
           /\ L!Absolute = {i \in 1..Len(said) : L!IsPlace(said[i])}
           /\ L!Absolute # {} =>
                 /\ L!Max(L!Absolute) = L!LastOf(L!IsPlace, Len(said))
                 /\ L!Max(L!Absolute) \in L!Absolute
                 /\ \A i \in L!Absolute : i <= L!Max(L!Absolute)
<1>1. said \in Seq(Words) /\ Len(said) \in Nat
  BY PhrasesAssumption DEF LightTyped
<1>2. actions = [i \in 1..Len(said) |-> L!ParseAction(said[i])]
  BY DEF Parsed
<1>3. \A i \in 1..Len(said) : actions[i].verb = "level" <=> L!IsPlace(said[i])
  BY <1>2, ActOf DEF Parsed
<1>4. L!Absolute = {i \in 1..Len(said) : L!IsPlace(said[i])}
  BY <1>2, <1>3 DEF L!Absolute
<1>5. ASSUME L!Absolute # {}
      PROVE  /\ L!Max(L!Absolute) = L!LastOf(L!IsPlace, Len(said))
             /\ L!Max(L!Absolute) \in L!Absolute
             /\ \A i \in L!Absolute : i <= L!Max(L!Absolute)
  <2>. DEFINE T == L!Absolute
              Z == {0} \cup {i \in 1..Len(said) : L!IsPlace(said[i])}
  <2>1. T \in SUBSET (0..Len(said)) /\ Z \in SUBSET (0..Len(said)) /\ T # {} /\ Z # {} /\ Z = {0} \cup T
        /\ \A i \in T : i > 0 /\ i \in Int
    BY <1>1, <1>4, <1>5
  <2>2. L!LastOf(L!IsPlace, Len(said)) = L!Max(Z)
    BY DEF L!LastOf
  <2>. HIDE DEF T, Z
  <2>3. L!Max(T) \in T /\ \A i \in T : i <= L!Max(T)
    BY <1>1, <2>1, MaxOf
  <2>4. L!Max(Z) \in Z /\ \A i \in Z : i <= L!Max(Z)
    BY <1>1, <2>1, MaxOf
  <2>5. L!Max(Z) = L!Max(T)
    <3>1. PICK x \in T : x = L!Max(T) /\ x > 0 /\ x \in Int
      BY <2>1, <2>3
    <3>2. PICK z \in Z : z = L!Max(Z) /\ x <= z
      BY <2>1, <2>4, <3>1
    <3>3. z \in Int /\ z > 0
      BY <1>1, <2>1, <3>1, <3>2
    <3>4. z \in T /\ z <= x
      BY <2>1, <2>3, <3>1, <3>2, <3>3
    <3>. QED BY <3>1, <3>2, <3>3, <3>4
  <2>. QED BY <2>2, <2>3, <2>5 DEF T
<1>. QED BY <1>1, <1>4, <1>5

\* The invariant holds at first, after every step and when the lamp rests.
LEMMA LightStart == L!LightInit => LightInv
  BY DEF L!LightInit, LightInv, LightTyped, Parsed, Standing, Persisted, Told, L!FirstLamp, Levels

\* What a person is promised of the brightness that is kept follows.
LEMMA KeptAsTold == LightInv => L!PersistedAsTold
<1>. SUFFICES ASSUME LightInv PROVE L!PersistedAsTold
  OBVIOUS
<1>. DEFINE p == L!LastOf(L!IsPlace, Len(said))
<1>1. ASSUME lamp.onLevel # 255
      PROVE  /\ persist /\ at > Len(said) /\ light \in {"done", "failed"}
             /\ L!Within(100, lamp.onLevel * 100, L!Place(said[p]))
             /\ (\A i \in p..Len(said) : ~L!IsDistance(said[i])) => lamp.onLevel = lamp.level
  <2>1. persist /\ at > Len(said) /\ light \in {"done", "failed"} /\ Told
        /\ lamp.onLevel = L!clampLevel(L!lastAbsoluteLevel)
    BY <1>1 DEF LightInv, Persisted, Told
  <2>2. /\ L!Absolute # {} /\ Len(said) \in Nat /\ at \in Nat /\ at = Len(said) + 1
        /\ \A i \in 1..Len(said) : L!Understood(said[i])
        /\ actions = [i \in 1..Len(said) |-> L!ParseAction(said[i])]
    BY <2>1, Absolutes DEF LightInv, Parsed, LightTyped
  <2>3. /\ p \in 1..Len(said) /\ L!IsPlace(said[p])
        /\ \A j \in 1..Len(said) : L!IsPlace(said[j]) => j <= p
        /\ L!lastAbsoluteLevel = actions[p].n
    BY <2>1, <2>2, Absolutes DEF LightInv, L!lastAbsoluteLevel
  <2>. HIDE DEF p
  <2>4. PICK n \in Int : /\ L!ParseAction(said[p]) = L!Act("level", n, L!White(0))
                         /\ L!Within(100, L!clampLevel(n) * 100, L!Place(said[p]))
    BY <2>2, <2>3, PlaceWord
  <2>5. lamp.onLevel = L!clampLevel(n)
    BY <2>1, <2>2, <2>3, <2>4 DEF L!Act
  <2>6. ASSUME \A i \in p..Len(said) : ~L!IsDistance(said[i]) PROVE lamp.onLevel = lamp.level
    <3>1. p \in 1..(at - 1)
      BY <2>2, <2>3
    <3>2. \A j \in (p + 1)..(at - 1) : ~L!IsPlace(said[j]) /\ ~L!IsDistance(said[j])
      BY <2>2, <2>3, <2>6
    <3>3. lamp.level = L!clampLevel(actions[p].n)
      BY <2>1, <2>3, <3>1, <3>2 DEF LightInv, Standing
    <3>. QED BY <2>1, <2>3, <3>3
  <2>. QED BY <2>1, <2>4, <2>5, <2>6
<1>2. light = "done" /\ persist => lamp.onLevel # 255
  BY DEF LightInv, Persisted
<1>. QED BY <1>1, <1>2 DEF L!PersistedAsTold, L!FirstLamp

\* The action in hand, and the lamp after n copies of it.
LEMMA Telling ==
    ASSUME LightInv, L!LightTell
    PROVE  \E n \in Nat, m \in Lamps(lamp, actions[at]) :
              /\ lamp' = m
              /\ n = 0 => m = lamp
              /\ (n = 1 \/ (n > 1 /\ actions[at].verb \notin {"toggle", "step"}))
                    => m = L!Obey(lamp, actions[at])
              /\ repeated' = (repeated \/ (n > 1 /\ actions[at].verb \in {"toggle", "step"}))
              /\ (n > 0 /\ L!GoesOn) \/ (light' = "failed" /\ UNCHANGED at)
<1>. DEFINE a == actions[at]
<1>1. a.verb \in Verbs /\ a.n \in Int /\ (a.verb = "step" => a.n \in {-64, 64})
  <2>1. at \in 1..Len(said) /\ a = L!ParseAction(said[at]) /\ L!Understood(said[at])
    BY PhrasesAssumption DEF LightInv, LightTyped, Parsed, Told, L!LightTell, L!Ready
  <2>. HIDE DEF a
  <2>. QED BY <2>1, ActOf
<1>2. lamp \in Lamps(lamp, a)
  BY DEF LightInv, LightTyped, Lamps
<1>3. PICK n \in 0..MaxCopies :
        /\ lamp' = (CHOOSE after : after = [k \in 0..n |-> IF k = 0 THEN lamp ELSE L!Obey(after[k - 1], a)])[n]
        /\ repeated' = (repeated \/ (n > 1 /\ a.verb \in {"toggle", "step"}))
        /\ (n > 0 /\ L!GoesOn) \/ (light' = "failed" /\ UNCHANGED at)
  BY DEF L!LightTell
<1>. HIDE DEF a
<1>4. n \in Nat
  BY PhrasesAssumption
<1>5. PICK after : after = CHOOSE g : g = [k \in 0..n |-> IF k = 0 THEN lamp ELSE L!Obey(g[k - 1], a)]
  OBVIOUS
<1>6. /\ after[n] \in Lamps(lamp, a)
      /\ n = 0 => after[n] = lamp
      /\ (n = 1 \/ (n > 1 /\ a.verb \notin {"toggle", "step"})) => after[n] = L!Obey(lamp, a)
  BY <1>1, <1>2, <1>4, <1>5, Copies
<1>7. lamp' = after[n]
  BY <1>3, <1>5
<1>. QED BY <1>3, <1>4, <1>6, <1>7 DEF a

\* Each step keeps the lamp's invariant.
LEMMA LightStep == LightInv /\ L!LightNext => LightInv'
<1>. SUFFICES ASSUME LightInv, L!LightNext PROVE LightInv'
  OBVIOUS
<1>0. said \in Seq(Words) /\ Len(said) \in Nat /\ DOMAIN said = 1..Len(said)
  BY PhrasesAssumption DEF LightInv, LightTyped
<1>1. CASE L!LightParse
  <2>1. /\ light = "typed" /\ at' = 1 /\ lamp = L!FirstLamp
        /\ UNCHANGED <<said, persist, transition, can, says, caps, lamp, repeated>>
    BY <1>1 DEF L!LightParse, L!heard, LightInv, Parsed, Told
  <2>2. LightTyped'
    BY <1>1, <2>1 DEF L!LightParse, LightInv, LightTyped
  <2>3. Persisted'
    BY <1>1, <2>1 DEF L!LightParse, Persisted, L!FirstLamp
  <2>4. Parsed'
    BY <1>0, <1>1, <2>1 DEF L!LightParse, Parsed, Told
  <2>5. Standing'
    BY <2>1 DEF Standing
  <2>. QED BY <2>2, <2>3, <2>4, <2>5 DEF LightInv
<1>2. CASE L!LightAsk
  <2>1. /\ light = "telling" /\ light' \in {"coloring", "failed"}
        /\ UNCHANGED <<said, persist, transition, can, says, actions, at, lamp, repeated>>
    BY <1>2 DEF L!LightAsk, L!heard
  <2>. QED BY <2>1, SMT DEF LightInv, LightTyped, Parsed, Standing, Persisted, Told, L!Absolute, L!lastAbsoluteLevel
<1>3. CASE L!LightRefused
  <2>1. /\ light \in {"telling", "coloring"} /\ light' = "failed"
        /\ UNCHANGED <<said, persist, transition, can, says, actions, at, caps, lamp, repeated>>
    BY <1>3 DEF L!LightRefused, L!Ready, L!heard
  <2>. QED BY <2>1, SMT DEF LightInv, LightTyped, Parsed, Standing, Persisted, Told, L!Absolute, L!lastAbsoluteLevel
<1>4. CASE L!SetOnLevel
  <2>1. /\ light = "persisting" /\ light' \in {"done", "failed"} /\ Told /\ Told'
        /\ UNCHANGED <<said, persist, transition, can, says, actions, at, caps, repeated>>
        /\ \/ lamp' = [lamp EXCEPT !.onLevel = L!clampLevel(L!lastAbsoluteLevel)]
           \/ light' = "failed" /\ lamp' = lamp
    BY <1>4 DEF L!SetOnLevel, L!heard, Told
  <2>2. persist /\ at = Len(said) + 1 /\ lamp.onLevel = 255
    BY <2>1 DEF LightInv, Parsed, Persisted
  <2>3. /\ lamp'.level = lamp.level /\ lamp'.on = lamp.on
        /\ lamp' = [on |-> lamp'.on, level |-> lamp'.level, onLevel |-> lamp'.onLevel,
                    fade |-> lamp'.fade, color |-> lamp'.color]
        /\ \/ lamp'.onLevel = L!clampLevel(L!lastAbsoluteLevel)
           \/ light' = "failed" /\ lamp'.onLevel = 255
    <3>1. lamp = [on |-> lamp.on, level |-> lamp.level, onLevel |-> lamp.onLevel,
                  fade |-> lamp.fade, color |-> lamp.color]
      BY DEF LightInv, LightTyped
    <3>. QED BY <2>1, <2>2, <3>1
  <2>4. L!lastAbsoluteLevel \in Int
    <3>1. /\ L!Absolute # {} /\ L!Max(L!Absolute) \in 1..Len(said)
          /\ L!Max(L!Absolute) \in L!Absolute
      BY <2>1, <2>2, Absolutes DEF LightInv, Parsed
    <3>2. L!Understood(said[L!Max(L!Absolute)])
          /\ actions[L!Max(L!Absolute)] = L!ParseAction(said[L!Max(L!Absolute)])
      BY <2>1, <3>1 DEF LightInv, Parsed
    <3>. QED BY <3>2, ActOf DEF L!lastAbsoluteLevel
  <2>5. L!clampLevel(L!lastAbsoluteLevel) # 255
    BY <2>4, Clamped
  <2>6. L!lastAbsoluteLevel' = L!lastAbsoluteLevel /\ (L!Absolute # {})' = (L!Absolute # {})
    BY <2>1 DEF L!lastAbsoluteLevel, L!Absolute
  <2>7. LightTyped'
    BY <2>1, <2>3 DEF LightInv, LightTyped
  <2>8. Parsed'
    BY <2>1, <2>6 DEF LightInv, Parsed
  <2>9. Standing'
    BY <2>1, <2>2, <2>3, <1>0 DEF LightInv, Standing
  <2>10. Persisted'
    BY <2>1, <2>2, <2>3, <2>5, <2>6, <1>0 DEF Persisted
  <2>. QED BY <2>7, <2>8, <2>9, <2>10 DEF LightInv
<1>5. CASE L!LightTell
  <2>. DEFINE a == actions[at]
  <2>1. PICK n \in Nat, m \in Lamps(lamp, a) :
          /\ lamp' = m
          /\ n = 0 => m = lamp
          /\ (n = 1 \/ (n > 1 /\ a.verb \notin {"toggle", "step"})) => m = L!Obey(lamp, a)
          /\ (n > 0 /\ L!GoesOn) \/ (light' = "failed" /\ UNCHANGED at)
    BY <1>5, Telling
  <2>2. /\ light \in {"telling", "coloring"} /\ Told
        /\ UNCHANGED <<said, persist, transition, can, says, actions, caps>>
    BY <1>5 DEF L!LightTell, L!Ready, L!heard, Told
  <2>3. at \in 1..Len(said) /\ at \in Nat /\ a = L!ParseAction(said[at]) /\ L!Understood(said[at])
        /\ DOMAIN actions = 1..Len(said) /\ Len(actions) = Len(said)
    BY <1>0, <2>2 DEF LightInv, LightTyped, Parsed
  <2>. HIDE DEF a
  <2>4. /\ light' \in {"telling", "persisting", "done", "failed"} /\ Told'
        /\ \/ light' = "failed" /\ at' = at
           \/ /\ n > 0 /\ at' = at + 1
              /\ light' = IF at < Len(said) THEN "telling" ELSE IF persist THEN "persisting" ELSE "done"
    BY <2>1, <2>3 DEF L!GoesOn, Told
  <2>5. /\ lamp'.on \in BOOLEAN /\ lamp'.level \in Levels /\ lamp'.onLevel = lamp.onLevel
        /\ lamp' = [on |-> lamp'.on, level |-> lamp'.level, onLevel |-> lamp'.onLevel,
                    fade |-> lamp'.fade, color |-> lamp'.color]
        /\ a.verb \in {"level", "step"} \/ lamp'.level = lamp.level
    BY <2>1 DEF Lamps
  <2>6. lamp.onLevel = 255
    BY <2>2 DEF LightInv, Persisted
  <2>7. L!lastAbsoluteLevel' = L!lastAbsoluteLevel /\ (L!Absolute # {})' = (L!Absolute # {})
    BY <2>2 DEF L!lastAbsoluteLevel, L!Absolute
  <2>8. LightTyped'
    BY <2>2, <2>3, <2>4, <2>5 DEF LightInv, LightTyped
  <2>9. Parsed'
    BY <2>2, <2>3, <2>4, <2>7 DEF LightInv, Parsed
  <2>10. Persisted'
    <3>1. light' = "done" => ~persist
      BY <2>4
    <3>. QED BY <2>2, <2>5, <2>6, <3>1 DEF Persisted
  <2>11. Standing'
    <3>. SUFFICES ASSUME NEW i \in 1..(at' - 1), light' # "failed" \/ at' > Len(said)',
                         L!IsPlace(said[i]),
                         \A j \in (i + 1)..(at' - 1) : ~L!IsPlace(said[j]) /\ ~L!IsDistance(said[j])
                  PROVE  lamp'.level = L!clampLevel(actions[i].n)
      BY <2>2 DEF Standing
    <3>1. at' = at + 1 /\ n > 0
      BY <2>2, <2>3, <2>4
    <3>2. CASE i = at
      <4>1. a.verb = "level" /\ a.n \in Int
        BY <2>3, <3>2, ActOf
      <4>2. lamp' = L!Obey(lamp, a)
        BY <2>1, <3>1, <4>1
      <4>3. L!Obey(lamp, a) = [lamp EXCEPT !.level = L!clampLevel(a.n), !.fade = L!tenths(transition)]
        BY <4>1, Obeys
      <4>4. lamp = [on |-> lamp.on, level |-> lamp.level, onLevel |-> lamp.onLevel,
                    fade |-> lamp.fade, color |-> lamp.color]
        BY DEF LightInv, LightTyped
      <4>. QED BY <3>2, <4>2, <4>3, <4>4 DEF a
    <3>3. CASE i # at
      <4>1. i \in 1..(at - 1) /\ at \in (i + 1)..(at' - 1)
        BY <2>3, <3>1, <3>3
      <4>2. a.verb \notin {"level", "step"}
        BY <2>3, <4>1, ActOf
      <4>3. \A j \in (i + 1)..(at - 1) : ~L!IsPlace(said[j]) /\ ~L!IsDistance(said[j])
        BY <2>3, <3>1
      <4>4. lamp.level = L!clampLevel(actions[i].n)
        BY <2>2, <4>1, <4>3 DEF LightInv, Standing
      <4>. QED BY <2>5, <4>2, <4>4
    <3>. QED BY <3>2, <3>3
  <2>. QED BY <2>8, <2>9, <2>10, <2>11 DEF LightInv
<1>. QED BY <1>1, <1>2, <1>3, <1>4, <1>5 DEF L!LightNext

\* So does a step of another part.
LEMMA LightIdle == LightInv /\ UNCHANGED lightsVars => LightInv'
  BY DEF LightInv, LightTyped, Parsed, Standing, Persisted, Told, lightsVars, L!Absolute, L!lastAbsoluteLevel

\* The brightness a lamp comes back at is the one the phrase last named, as it was sent, and
\* is left alone by a phrase that was not asked to persist or fails before its end, for any
\* phrases, transitions and numbers of copies (runLight, lastAbsoluteLevel, SetOnLevel).
THEOREM PersistedAsToldHolds == PartSpec => []PersistedAsTold
<1>1. PartInit => (part = "lights" => LightInv)
  BY LightStart DEF PartInit
<1>2. (part = "lights" => LightInv) /\ [PartNext]_partVars => (part = "lights" => LightInv)'
  BY LightStep, LightIdle DEF PartNext, partVars
<1>3. (part = "lights" => LightInv) => PersistedAsTold
  BY KeptAsTold DEF PersistedAsTold
<1>. QED BY <1>1, <1>2, <1>3, PTL DEF PartSpec

-----------------------------------------------------------------------------
(***************************************************************************)
(* What the first words of a phrase ask for, word by word.                 *)
(***************************************************************************)
\* A level and a switch, and the ones of the first lamp.
Meant == [level : Int, on : BOOLEAN]
AtFirst == [level |-> L!FirstLamp.level * 100, on |-> L!FirstLamp.on]

\* What a word makes of them.
Heard(w, meant) ==
    [level |-> L!LevelAsked(w, meant.level), on |-> L!SwitchAsked(w, meant.on)]

\* A level in hundredths that is kept in the range.
LEMMA KeptWithin ==
    ASSUME NEW v \in Int
    PROVE  /\ L!KeepWithin(v) = IF v < 100 THEN 100 ELSE IF v > 25400 THEN 25400 ELSE v
           /\ L!KeepWithin(v) \in Int
<1>1. ASSUME NEW x \in Int PROVE L!Max({100, x}) = IF 100 <= x THEN x ELSE 100
  <2>1. \A a, b \in Int : L!Max({a, b}) = IF a <= b THEN b ELSE a
    BY MinMax, Zenon
  <2>. QED BY <2>1, SMT
<1>2. L!Min({25400, v}) = IF 25400 <= v THEN 25400 ELSE v
  BY MinMax, SMT
<1>3. PICK x \in Int : x = L!Min({25400, v}) /\ x = IF 25400 <= v THEN 25400 ELSE v
  BY <1>2, SMT
<1>4. L!KeepWithin(v) = L!Max({100, x})
  BY <1>3, SMT DEF L!KeepWithin, L!MinLevel, L!MaxLevel
<1>. QED BY <1>1, <1>3, <1>4, SMT

\* A word makes a level and a switch of a level and a switch.
LEMMA HeardIsMeant ==
    ASSUME NEW w, L!Understood(w), NEW meant \in Meant
    PROVE  Heard(w, meant) \in Meant
<1>1. ASSUME L!IsPlace(w) PROVE L!Place(w) \in Int
  BY <1>1, PlaceWord
<1>2. ASSUME L!IsDistance(w) PROVE L!KeepWithin(meant.level + 100 * L!stepWords[w[1]]) \in Int
  <2>1. L!stepWords[w[1]] \in Int /\ meant.level \in Int
    BY <1>2, DistanceWord DEF Meant
  <2>2. meant.level + 100 * L!stepWords[w[1]] \in Int
    BY <2>1
  <2>. QED BY <2>2, KeptWithin
<1>3. L!LevelAsked(w, meant.level) \in Int
  BY <1>1, <1>2 DEF L!LevelAsked, Meant
<1>4. L!SwitchAsked(w, meant.on) \in BOOLEAN
  BY DEF L!SwitchAsked, Meant
<1>. QED BY <1>3, <1>4 DEF Heard, Meant

\* The words of a phrase are heard one after the other.
LEMMA HeardAfter ==
    ASSUME NEW words, NEW N \in Nat, \A i \in 1..N : L!Understood(words[i])
    PROVE  /\ L!After(words, 0) = AtFirst
           /\ \A k \in 0..N : L!After(words, k) \in Meant
           /\ \A k \in 1..N : L!After(words, k) = Heard(words[k], L!After(words, k - 1))
<1>. DEFINE F == [p \in Nat \X Meant |-> IF p[1] \in 1..N THEN Heard(words[p[1]], p[2]) ELSE p[2]]
<1>1. F \in [Nat \X Meant -> Meant]
  BY HeardIsMeant
<1>2. AtFirst \in Meant
  BY DEF AtFirst, Meant, L!FirstLamp
<1>3. PICK f \in [0..N -> Meant] : Recursive(f, N, AtFirst, F)
  <2>. HIDE DEF F
  <2>. QED BY <1>1, <1>2, Recursion
<1>4. f[0] = AtFirst /\ \A i \in 1..N : f[i - 1] \in Meant /\ f[i] = Heard(words[i], f[i - 1])
  <2>1. f[0] = AtFirst
    <3>. HIDE DEF F
    <3>. 0 \in 0..N
      OBVIOUS
    <3>. QED BY <1>3 DEF Recursive
  <2>2. ASSUME NEW i \in 1..N PROVE f[i - 1] \in Meant /\ f[i] = Heard(words[i], f[i - 1])
    <3>1. i \in 0..N /\ i # 0 /\ i - 1 \in 0..N /\ i \in Nat
      OBVIOUS
    <3>2. f[i - 1] \in Meant /\ f[i] = F[<<i, f[i - 1]>>]
      <4>. HIDE DEF F
      <4>. QED BY <1>3, <3>1 DEF Recursive
    <3>. QED BY <3>1, <3>2
  <2>. QED BY <2>1, <2>2
<1>. HIDE DEF F
<1>5. ASSUME NEW k \in 0..N PROVE L!After(words, k) = f[k]
  <2>. DEFINE Is(g) == g = [i \in 0..k |-> IF i = 0 THEN AtFirst ELSE Heard(words[i], g[i - 1])]
              h == CHOOSE g : Is(g)
              r == [i \in 0..k |-> f[i]]
  <2>1. Is(r)
    <3>1. ASSUME NEW i \in 0..k PROVE f[i] = IF i = 0 THEN AtFirst ELSE Heard(words[i], r[i - 1])
      <4>1. CASE i # 0
        <5>1. i \in 1..N /\ i - 1 \in 0..k
          BY <4>1
        <5>. QED BY <1>4, <4>1, <5>1
      <4>. QED BY <1>4, <4>1
    <3>. QED BY <3>1
  <2>2. L!After(words, k) = h[k]
    BY DEF L!After, Heard, AtFirst
  <2>. HIDE DEF Is, r
  <2>3. Is(h)
    BY <2>1
  <2>. HIDE DEF h
  <2>4. \A i \in 0..k : h[i] = IF i = 0 THEN AtFirst ELSE Heard(words[i], h[i - 1])
    <3>. DEFINE d == [i \in 0..k |-> IF i = 0 THEN AtFirst ELSE Heard(words[i], h[i - 1])]
    <3>1. h = d
      BY <2>3 DEF Is
    <3>2. \A i \in 0..k : d[i] = IF i = 0 THEN AtFirst ELSE Heard(words[i], h[i - 1])
      OBVIOUS
    <3>. HIDE DEF d
    <3>. QED BY <3>1, <3>2
  <2>. DEFINE T == {i \in Nat : i <= k => h[i] = f[i]}
  <2>5. 0 \in T
    BY <1>4, <2>4
  <2>6. ASSUME NEW i \in Nat, i \in T PROVE i + 1 \in T
    <3>. SUFFICES ASSUME i + 1 <= k PROVE h[i + 1] = f[i + 1]
      OBVIOUS
    <3>1. i + 1 \in 0..k /\ i + 1 # 0 /\ (i + 1) - 1 = i /\ i + 1 \in 1..N
      OBVIOUS
    <3>2. h[i + 1] = Heard(words[i + 1], h[i]) /\ f[i + 1] = Heard(words[i + 1], f[i])
      BY <1>4, <2>4, <3>1
    <3>3. h[i] = f[i]
      BY <2>6
    <3>. QED BY <3>2, <3>3
  <2>. HIDE DEF T
  <2>7. k \in T
    <3>1. k \in Nat
      OBVIOUS
    <3>2. Nat \subseteq T
      BY <2>5, <2>6, Induction
    <3>. QED BY <3>1, <3>2
  <2>. QED BY <2>2, <2>7 DEF T
<1>6. ASSUME NEW k \in 1..N PROVE L!After(words, k) = Heard(words[k], L!After(words, k - 1))
  <2>1. k \in 0..N /\ k - 1 \in 0..N
    OBVIOUS
  <2>. QED BY <1>4, <1>5, <2>1
<1>. QED BY <1>4, <1>5, <1>6

-----------------------------------------------------------------------------
(***************************************************************************)
(* Division, rounding, and the nearest colour in the units of the wire.    *)
(***************************************************************************)
\* Quotient and remainder.
LEMMA Divided ==
    ASSUME NEW a \in Int, NEW b \in Nat, b > 0
    PROVE  /\ a \div b \in Int /\ a % b \in Int
           /\ a = b * (a \div b) + (a % b) /\ 0 <= a % b /\ a % b < b
  BY SMT

\* Only one quotient and remainder will do.
LEMMA Quotient ==
    ASSUME NEW a \in Int, NEW b \in Nat, b > 0, NEW q \in Int, NEW r \in Int,
           a = b * q + r, 0 <= r, r < b
    PROVE  a \div b = q /\ a % b = r
<1>1. PICK p \in Int, s \in Int : /\ p = a \div b /\ s = a % b
                                  /\ a = b * p + s /\ 0 <= s /\ s < b
  BY Divided
<1>2. b * p + s = b * q + r
  BY <1>1
<1>3. ~(p < q)
  <2>1. ASSUME p < q PROVE FALSE
    <3>1. b * (p + 1) <= b * q
      BY <2>1, SMT
    <3>2. b * (p + 1) = b * p + b
      BY SMT
    <3>. QED BY <1>1, <1>2, <3>1, <3>2, SMT
  <2>. QED BY <2>1
<1>4. ~(q < p)
  <2>1. ASSUME q < p PROVE FALSE
    <3>1. b * (q + 1) <= b * p
      BY <2>1, SMT
    <3>2. b * (q + 1) = b * q + b
      BY SMT
    <3>. QED BY <1>1, <1>2, <3>1, <3>2, SMT
  <2>. QED BY <2>1
<1>5. p = q
  BY <1>3, <1>4
<1>. QED BY <1>1, <1>5, SMT

\* Twice both sides of a division.
LEMMA Doubled ==
    ASSUME NEW a \in Int, NEW b \in Nat, b > 0
    PROVE  (2 * a) \div (2 * b) = a \div b /\ (2 * a) % (2 * b) = 2 * (a % b)
<1>1. PICK q \in Int, r \in Int : /\ q = a \div b /\ r = a % b
                                  /\ a = b * q + r /\ 0 <= r /\ r < b
  BY Divided
<1>2. 2 * a = (2 * b) * q + 2 * r
  BY <1>1, SMT
<1>3. 2 * b \in Nat /\ 2 * b > 0 /\ 2 * a \in Int /\ 2 * r \in Int /\ 0 <= 2 * r /\ 2 * r < 2 * b
  BY <1>1
<1>4. (2 * a) \div (2 * b) = q /\ (2 * a) % (2 * b) = 2 * r
  BY <1>2, <1>3, Quotient
<1>. QED BY <1>1, <1>4

\* Rounding is off by half a unit at most.
LEMMA Rounded ==
    ASSUME NEW n \in Int, NEW d \in Nat, d > 0
    PROVE  /\ L!Round(n, d) \in Int
           /\ 2 * (d * L!Round(n, d)) <= 2 * n + d
           /\ 2 * n <= 2 * (d * L!Round(n, d)) + d
           /\ L!Round(2 * n, 2 * d) = L!Round(n, d)
<1>1. 2 * n + d \in Int /\ 2 * d \in Nat /\ 2 * d > 0
  OBVIOUS
<1>2. PICK q \in Int, r \in Int : /\ q = (2 * n + d) \div (2 * d)
                                  /\ 2 * n + d = (2 * d) * q + r /\ 0 <= r /\ r < 2 * d
  BY <1>1, Divided
<1>3. L!Round(n, d) = q
  BY <1>2 DEF L!Round
<1>4. (2 * d) * q = 2 * (d * q) /\ d * q \in Int
  BY SMT
<1>5. 2 * (d * q) <= 2 * n + d /\ 2 * n <= 2 * (d * q) + d
  BY <1>2, <1>4, SMT
<1>6. L!Round(2 * n, 2 * d) = q
  <2>1. 2 * (2 * n) + 2 * d = 2 * (2 * n + d) /\ 2 * (2 * d) = 2 * (2 * d)
    BY SMT
  <2>2. (2 * (2 * n + d)) \div (2 * (2 * d)) = (2 * n + d) \div (2 * d)
    BY <1>1, Doubled
  <2>. QED BY <1>2, <2>1, <2>2, SMT DEF L!Round
<1>. QED BY <1>3, <1>5, <1>6

\* How near a unit is to an angle, written out.
LEMMA NearIs ==
    ASSUME NEW c, NEW s, NEW h, NEW d, c.hue = <<h, d>>
    PROVE  L!Near(s, c) <=>
              2 * L!Min({(s * 360 * d - h * 254) % (254 * 360 * d),
                         254 * 360 * d - ((s * 360 * d - h * 254) % (254 * 360 * d))}) <= 360 * d
<1>. c.hue[1] = h /\ c.hue[2] = d
  OBVIOUS
<1>. QED BY DEF L!Near

\* The unit that is sent is the nearest to the angle that was named.
LEMMA HueIsNear ==
    ASSUME NEW c, NEW h \in Int, NEW d \in Nat, d > 0, c.hue[1] = h, c.hue[2] = d, c.exact = <<>>, c.mireds = 0
    PROVE  L!Near(L!HueSaturation(c)[1], c)
<1>1. PICK m \in Nat : m = 360 * d /\ m > 0
  OBVIOUS
<1>2. m \in Nat /\ m > 0
  BY <1>1
<1>3. PICK q \in Int, r \in Int : q = h \div m /\ r = h % m /\ h = m * q + r /\ 0 <= r /\ r < m
  BY <1>2, Divided
<1>4. PICK t \in Int : t = r * 254
  OBVIOUS
<1>5. PICK s \in Int : s = L!Round(t, m) /\ 2 * (m * s) <= 2 * t + m /\ 2 * t <= 2 * (m * s) + m
  BY <1>2, Rounded
<1>6. L!HueSaturation(c)[1] = s
  <2>1. c.hue[1] = h /\ c.hue[2] = d
    OBVIOUS
  <2>2. L!HueSaturation(c)[1] = L!Round((h % (360 * d)) * 254, 360 * d)
    BY <2>1 DEF L!HueSaturation, L!IsWhitePoint
  <2>3. 360 * d = m
    BY <1>1, Zenon
  <2>4. h % m = r /\ r * 254 = t /\ L!Round(t, m) = s
    BY <1>3, <1>4, <1>5, Zenon
  <2>5. L!HueSaturation(c)[1] = L!Round((h % m) * 254, m)
    BY <2>2, <2>3, ZenonT(30)
  <2>. QED BY <2>4, <2>5, ZenonT(30)
<1>7. PICK x \in Int, y \in Int : x = m * s /\ y = m * q
  OBVIOUS
<1>8. h = y + r /\ 0 <= r /\ r < m /\ 2 * x <= 2 * t + m /\ 2 * t <= 2 * x + m
  <2>1. 2 * x <= 2 * t + m /\ 2 * t <= 2 * x + m
    BY <1>5, <1>7, Zenon
  <2>2. h = y + r
    BY <1>3, <1>7, Zenon
  <2>. QED BY <1>3, <2>1, <2>2
<1>9. PICK e \in Int : e = x - t /\ 2 * e <= m /\ -m <= 2 * e
  BY <1>2, <1>8
<1>10. PICK w \in Nat : w = 254 * m /\ w > 0 /\ m <= w
  BY <1>2
<1>11. s * 360 * d = x /\ 254 * 360 * d = w
  <2>1. s * 360 * d = (360 * d) * s
    BY SMT
  <2>. QED BY <1>1, <1>7, <1>10, <2>1
<1>12. PICK a \in Int : a = s * 360 * d - h * 254 /\ a = x - 254 * y - t
  <2>1. h * 254 = 254 * y + t
    BY <1>4, <1>8
  <2>2. x - h * 254 \in Int /\ x - h * 254 = x - 254 * y - t
    BY <2>1
  <2>3. s * 360 * d - h * 254 = x - h * 254
    BY <1>11, ZenonT(30)
  <2>. QED BY <2>2, <2>3, ZenonT(30)
<1>13. w * (-q) = -(254 * y) /\ w * (-q - 1) = -(254 * y) - w
  BY <1>7, <1>10, SMT
<1>14. PICK off \in Int : off = a % w /\ (off = e \/ off = e + w)
  <2>1. CASE e >= 0
    <3>1. PICK z \in Int : z = -q /\ w * z = -(254 * y)
      BY <1>13
    <3>2. a = w * z + e /\ 0 <= e /\ e < w
      <4>1. a = -(254 * y) + e
        BY <1>9, <1>12
      <4>2. 0 <= e /\ e < w
        BY <1>9, <1>10, <2>1
      <4>. QED BY <3>1, <4>1, <4>2, Zenon
    <3>3. a % w = e
      <4>1. w \in Nat /\ w > 0
        BY <1>10
      <4>. QED BY <3>2, <4>1, Quotient, Zenon
    <3>. QED BY <3>3
  <2>2. CASE e < 0
    <3>1. PICK z \in Int : z = -q - 1 /\ w * z = -(254 * y) - w
      BY <1>13
    <3>2. PICK v \in Int : v = e + w /\ 0 <= v /\ v < w
      BY <1>9, <1>10, <2>2
    <3>3. a = w * z + v
      <4>1. a = (-(254 * y) - w) + v
        BY <1>9, <1>12, <3>2
      <4>. QED BY <3>1, <4>1, Zenon
    <3>4. a % w = v
      <4>1. w \in Nat /\ w > 0
        BY <1>10
      <4>. QED BY <3>2, <3>3, <4>1, Quotient, Zenon
    <3>. QED BY <3>2, <3>4
  <2>. QED BY <2>1, <2>2
<1>15. L!Min({off, w - off}) = IF off <= w - off THEN off ELSE w - off
  <2>1. w - off \in Int
    OBVIOUS
  <2>. QED BY <2>1, MinMax
<1>16. 2 * L!Min({off, w - off}) <= m
  BY <1>2, <1>9, <1>10, <1>14, <1>15
<1>17. L!Near(s, c) <=> 2 * L!Min({off, w - off}) <= m
  <2>. DEFINE D == s * 360 * d - h * 254
              W == 254 * 360 * d
              M == 360 * d
              O == D % W
  <2>1. c.hue[1] = h /\ c.hue[2] = d
    OBVIOUS
  <2>2. L!Near(s, c) <=> 2 * L!Min({O, W - O}) <= M
    BY <2>1, SMT DEF L!Near
  <2>3. D = a /\ W = w /\ M = m
    BY <1>1, <1>11, <1>12, Zenon
  <2>. HIDE DEF D, W, M
  <2>4. O = off
    BY <1>14, <2>3, Zenon
  <2>. HIDE DEF O
  <2>. QED BY <2>2, <2>3, <2>4, Zenon
<1>. QED BY <1>6, <1>16, <1>17

\* A hue that is named in the units of the wire is itself.
LEMMA ExactIsNear ==
    ASSUME NEW h \in Int, NEW s \in Int
    PROVE  /\ L!HueSaturation(L!ExactHueSaturation(h, s)) = <<h, s>>
           /\ L!Near(h, L!ExactHueSaturation(h, s))
           /\ L!ExactHueSaturation(h, s).mireds = 0
<1>. DEFINE c == L!ExactHueSaturation(h, s)
<1>1. c.hue = <<h * 360, 254>> /\ c.exact = <<h, s>> /\ c.mireds = 0
  BY DEF L!ExactHueSaturation
<1>. HIDE DEF c
<1>2. L!HueSaturation(c) = <<h, s>>
  BY <1>1 DEF L!HueSaturation
<1>3. /\ h * 360 * 254 - (h * 360) * 254 = 0 /\ 0 % (254 * 360 * 254) = 0
      /\ 254 * 360 * 254 - 0 \in Int /\ 0 <= 254 * 360 * 254 - 0 /\ 2 * 0 <= 360 * 254
  BY SMT
<1>4. L!Min({0, 254 * 360 * 254 - 0}) = 0
  BY <1>3, MinMax, SMT
<1>5. L!Near(h, c)
  <2>1. L!Near(h, c) <=>
              2 * L!Min({(h * 360 * 254 - (h * 360) * 254) % (254 * 360 * 254),
                  254 * 360 * 254 - ((h * 360 * 254 - (h * 360) * 254) % (254 * 360 * 254))}) <= 360 * 254
    BY <1>1, NearIs, SMT
  <2>. QED BY <1>3, <1>4, <2>1, SMT
<1>. QED BY <1>1, <1>2, <1>5 DEF c

\* A colour that is an angle of the wheel.
Wheel(c) == /\ c.exact = <<>> /\ c.mireds = 0
            /\ c.hue[1] \in Int /\ c.hue[2] \in Nat /\ c.hue[2] > 0

\* A triplet and one twice as bright come to the same in the units of the wire.
SameTwice(r, g, b) ==
    L!HueSaturation(L!parseHexColor(2 * r, 2 * g, 2 * b)) = L!HueSaturation(L!parseHexColor(r, g, b))

\* A triplet is a colour of the wheel, and one twice as bright is the same.
LEMMA TripletHue ==
    ASSUME NEW r \in Nat, NEW g \in Nat, NEW b \in Nat, ~(r = 0 /\ g = 0 /\ b = 0)
    PROVE  Wheel(L!parseHexColor(r, g, b)) /\ SameTwice(r, g, b)
<1>1. PICK x \in Nat, n \in Nat :
        /\ x \in {r, g, b} /\ n \in {r, g, b}
        /\ x >= r /\ x >= g /\ x >= b /\ n <= r /\ n <= g /\ n <= b
        /\ L!Max({r, g, b}) = x /\ L!Min({r, g, b}) = n
        /\ L!Max({2 * r, 2 * g, 2 * b}) = 2 * x /\ L!Min({2 * r, 2 * g, 2 * b}) = 2 * n
  <2>1. PICK x \in {r, g, b} : x >= r /\ x >= g /\ x >= b
    OBVIOUS
  <2>2. PICK n \in {r, g, b} : n <= r /\ n <= g /\ n <= b
    OBVIOUS
  <2>3. L!Max({r, g, b}) = x
    BY <2>1 DEF L!Max
  <2>4. L!Min({r, g, b}) = n
    BY <2>2 DEF L!Min
  <2>5. L!Max({2 * r, 2 * g, 2 * b}) = 2 * x
    BY <2>1 DEF L!Max
  <2>6. L!Min({2 * r, 2 * g, 2 * b}) = 2 * n
    BY <2>2 DEF L!Min
  <2>7. x \in Nat /\ n \in Nat
    BY <2>1, <2>2
  <2>. QED BY <2>1, <2>2, <2>3, <2>4, <2>5, <2>6, <2>7, Zenon
<1>. DEFINE d == x - n
            u == g - b
            hue == IF d = 0 THEN <<0, 1>>
                   ELSE IF x = r THEN <<60 * ((u + 6 * d) % (6 * d)), d>>
                   ELSE IF x = g THEN <<60 * ((b - r) + 2 * d), d>>
                   ELSE <<60 * ((r - g) + 4 * d), d>>
            hue2 == IF 2 * d = 0 THEN <<0, 1>>
                    ELSE IF 2 * x = 2 * r THEN <<60 * ((2 * u + 6 * (2 * d)) % (6 * (2 * d))), 2 * d>>
                    ELSE IF 2 * x = 2 * g THEN <<60 * ((2 * b - 2 * r) + 2 * (2 * d)), 2 * d>>
                    ELSE <<60 * ((2 * r - 2 * g) + 4 * (2 * d)), 2 * d>>
<1>2. d \in Nat /\ u \in Int /\ x > 0
  BY <1>1
<1>3. L!parseHexColor(r, g, b) = [mireds |-> 0, hue |-> hue, sat |-> <<d, x>>, exact |-> <<>>]
  BY <1>1 DEF L!parseHexColor, L!Hue
<1>4. L!parseHexColor(2 * r, 2 * g, 2 * b) =
        [mireds |-> 0, hue |-> hue2, sat |-> <<2 * d, 2 * x>>, exact |-> <<>>]
  <2>1. 2 * x - 2 * n = 2 * d /\ 2 * g - 2 * b = 2 * u
    BY <1>1
  <2>2. L!parseHexColor(2 * r, 2 * g, 2 * b) =
        L!Hue(IF 2 * x - 2 * n = 0 THEN <<0, 1>>
              ELSE IF 2 * x = 2 * r
                   THEN <<60 * (((2 * g - 2 * b) + 6 * (2 * x - 2 * n)) % (6 * (2 * x - 2 * n))), 2 * x - 2 * n>>
              ELSE IF 2 * x = 2 * g THEN <<60 * ((2 * b - 2 * r) + 2 * (2 * x - 2 * n)), 2 * x - 2 * n>>
              ELSE <<60 * ((2 * r - 2 * g) + 4 * (2 * x - 2 * n)), 2 * x - 2 * n>>,
              <<2 * x - 2 * n, 2 * x>>)
    BY <1>1 DEF L!parseHexColor
  <2>. HIDE DEF d, u
  <2>. QED BY <2>1, <2>2 DEF L!Hue
<1>. HIDE DEF d, u
<1>5. PICK h \in Int, k \in Nat : hue = <<h, k>> /\ k > 0 /\ (hue2 = hue \/ hue2 = <<2 * h, 2 * k>>)
  <2>1. CASE d = 0
    BY <2>1
  <2>2. CASE d # 0 /\ x = r
    <3>1. 6 * d \in Nat /\ 6 * d > 0 /\ u + 6 * d \in Int
      BY <1>2, <2>2
    <3>2. PICK p \in Int : p = (u + 6 * d) % (6 * d) /\ (2 * (u + 6 * d)) % (2 * (6 * d)) = 2 * p
      BY <3>1, Divided, Doubled
    <3>3. 2 * u + 6 * (2 * d) = 2 * (u + 6 * d) /\ 6 * (2 * d) = 2 * (6 * d)
      BY <1>2
    <3>4. hue = <<60 * p, d>> /\ hue2 = <<60 * (2 * p), 2 * d>>
      BY <1>1, <1>2, <2>2, <3>2, <3>3
    <3>. HIDE DEF hue, hue2
    <3>5. 60 * p \in Int /\ 60 * (2 * p) = 2 * (60 * p) /\ d > 0
      BY <1>2, <2>2, <3>2
    <3>. QED BY <1>2, <3>4, <3>5
  <2>3. CASE d # 0 /\ x # r /\ x = g
    <3>1. hue = <<60 * ((b - r) + 2 * d), d>> /\ hue2 = <<60 * ((2 * b - 2 * r) + 2 * (2 * d)), 2 * d>>
      BY <1>1, <1>2, <2>3
    <3>. HIDE DEF hue, hue2
    <3>2. 60 * ((2 * b - 2 * r) + 2 * (2 * d)) = 2 * (60 * ((b - r) + 2 * d)) /\ d > 0
          /\ 60 * ((b - r) + 2 * d) \in Int
      BY <1>2, <2>3
    <3>. QED BY <1>2, <3>1, <3>2
  <2>4. CASE d # 0 /\ x # r /\ x # g
    <3>1. hue = <<60 * ((r - g) + 4 * d), d>> /\ hue2 = <<60 * ((2 * r - 2 * g) + 4 * (2 * d)), 2 * d>>
      BY <1>1, <1>2, <2>4
    <3>. HIDE DEF hue, hue2
    <3>2. 60 * ((2 * r - 2 * g) + 4 * (2 * d)) = 2 * (60 * ((r - g) + 4 * d)) /\ d > 0
          /\ 60 * ((r - g) + 4 * d) \in Int
      BY <1>2, <2>4
    <3>. QED BY <1>2, <3>1, <3>2
  <2>. QED BY <2>1, <2>2, <2>3, <2>4
<1>. HIDE DEF hue, hue2
<1>6. \A e, s, z \in Int, m \in Nat :
        L!HueSaturation([mireds |-> 0, hue |-> <<e, m>>, sat |-> <<s, z>>, exact |-> <<>>]) =
            <<L!Round((e % (360 * m)) * 254, 360 * m), L!Round(s * 254, z)>>
  BY DEF L!HueSaturation, L!IsWhitePoint
<1>7. L!HueSaturation(L!parseHexColor(r, g, b)) =
        <<L!Round((h % (360 * k)) * 254, 360 * k), L!Round(d * 254, x)>>
  BY <1>2, <1>3, <1>5, <1>6
<1>8. L!Round((2 * d) * 254, 2 * x) = L!Round(d * 254, x)
  <2>1. (2 * d) * 254 = 2 * (d * 254) /\ d * 254 \in Int
    BY <1>2
  <2>. QED BY <1>1, <1>2, <2>1, Rounded
<1>9. L!Round(((2 * h) % (360 * (2 * k))) * 254, 360 * (2 * k)) = L!Round((h % (360 * k)) * 254, 360 * k)
  <2>1. 360 * k \in Nat /\ 360 * k > 0 /\ 360 * (2 * k) = 2 * (360 * k)
    BY <1>5
  <2>2. PICK p \in Int : p = h % (360 * k) /\ (2 * h) % (2 * (360 * k)) = 2 * p
    BY <2>1, Divided, Doubled
  <2>3. PICK t \in Int, m \in Nat :
           t = p * 254 /\ (2 * p) * 254 = 2 * t /\ m = 360 * k /\ 360 * (2 * k) = 2 * m /\ m > 0
    BY <2>1, <2>2
  <2>4. L!Round(2 * t, 2 * m) = L!Round(t, m)
    BY <2>3, Rounded
  <2>5. (2 * h) % (360 * (2 * k)) = 2 * p
    BY <2>1, <2>2
  <2>. QED BY <2>2, <2>3, <2>4, <2>5
<1>10. L!HueSaturation(L!parseHexColor(2 * r, 2 * g, 2 * b)) =
         <<L!Round((h % (360 * k)) * 254, 360 * k), L!Round(d * 254, x)>>
  <2>1. 2 * h \in Int /\ 2 * k \in Nat /\ 2 * d \in Int /\ 2 * x \in Int /\ x \in Int /\ d \in Int
    BY <1>2, <1>5
  <2>2. CASE hue2 = hue
    BY <1>4, <1>5, <1>6, <1>8, <2>1, <2>2
  <2>3. CASE hue2 = <<2 * h, 2 * k>>
    <3>1. L!HueSaturation(L!parseHexColor(2 * r, 2 * g, 2 * b)) =
            <<L!Round(((2 * h) % (360 * (2 * k))) * 254, 360 * (2 * k)), L!Round((2 * d) * 254, 2 * x)>>
      BY <1>4, <1>6, <2>1, <2>3
    <3>. QED BY <1>8, <1>9, <3>1
  <2>. QED BY <1>5, <2>2, <2>3
<1>11. Wheel(L!parseHexColor(r, g, b))
  BY <1>3, <1>5 DEF Wheel
<1>12. SameTwice(r, g, b)
  BY <1>7, <1>10, Zenon DEF SameTwice
<1>. QED BY <1>11, <1>12

\* The mireds of a colour temperature, multiplied with it, give a million up to it.
LEMMA KelvinIsNear ==
    ASSUME NEW n \in Int, NEW k \in Nat, k > 0
    PROVE  L!Round(n, k) \in Int /\ L!Within(k, L!Round(n, k) * k, n)
<1>1. PICK m \in Int : m = L!Round(n, k) /\ 2 * (k * m) <= 2 * n + k /\ 2 * n <= 2 * (k * m) + k
  BY Rounded
<1>2. PICK p \in Int : p = m * k /\ p = k * m
  OBVIOUS
<1>3. 2 * p <= 2 * n + k /\ 2 * n <= 2 * p + k
  BY <1>1, <1>2, Zenon
<1>4. p - n <= k /\ n - p <= k
  BY <1>3
<1>. QED BY <1>1, <1>2, <1>4, Zenon DEF L!Within

\* A colour that has a name is one of the wheel's or a white.
LEMMA Named ==
    ASSUME NEW v \in DOMAIN L!namedColors
    PROVE  \/ L!namedColors[v].mireds # 0
           \/ /\ L!namedColors[v].exact = <<>> /\ L!namedColors[v].mireds = 0
              /\ \E h \in Int : L!namedColors[v].hue = <<h, 1>>
<1>1. \A h \in Int : /\ L!Saturated(h).exact = <<>> /\ L!Saturated(h).mireds = 0
                      /\ L!Saturated(h).hue = <<h, 1>>
  BY DEF L!Saturated, L!Hue
<1>2. LET pink == L!Hue(<<330, 1>>, <<1, 2>>)
      IN  pink.exact = <<>> /\ pink.mireds = 0 /\ pink.hue = <<330, 1>>
  BY DEF L!Hue
<1>3. \A m : L!White(m).mireds = m
  BY DEF L!White
<1>4. \/ \E h \in Int : L!namedColors[v] = L!Saturated(h)
      \/ L!namedColors[v] = L!Hue(<<330, 1>>, <<1, 2>>)
      \/ \E m \in Nat : m # 0 /\ L!namedColors[v] = L!White(m)
  BY SMT DEF L!namedColors
<1>. QED BY <1>1, <1>2, <1>3, <1>4, SMT

\* The colour a lamp is told is the one the word named.
LEMMA ColorShown ==
    ASSUME NEW w \in Words, L!Understood(w), L!IsColor(w), NEW way \in can,
           NEW color, color.way = way, color.mireds = L!ParseAction(w).color.mireds,
           color.hue = L!HueSaturation(L!ParseAction(w).color)[1],
           color.sat = L!HueSaturation(L!ParseAction(w).color)[2]
    PROVE  L!Shows(color, w)
<1>. DEFINE M == 1000000
<1>0. w[1] = "k" => w[2] \in Int
  BY PhrasesAssumption, Zenon
<1>1. PICK c :
        /\ L!ParseAction(w) = L!Act("color", 0, c)
        /\ \/ w[1] \in DOMAIN L!namedColors /\ c = L!namedColors[w[1]]
           \/ w[1] = "hue:" /\ c = L!ExactHueSaturation(w[2], w[3])
           \/ w[1] = "k" /\ w[2] \in Nat /\ w[2] > 0 /\ c = L!White(L!Round(M, w[2]))
           \/ w[1] = "#" /\ {w[2], w[3], w[4]} # {0} /\ c = L!parseHexColor(w[2], w[3], w[4])
  BY <1>0, ColorWord, SMT
<1>12. M \in Int
  BY SMT
<1>2. L!ParseAction(w).color = c
  BY <1>1 DEF L!Act
<1>3. /\ color.way \in can /\ color.mireds = c.mireds
      /\ color.hue = L!HueSaturation(c)[1] /\ color.sat = L!HueSaturation(c)[2]
  BY <1>2
<1>4. L!Shows(color, w) <=>
        /\ w[1] = "k" => L!Within(w[2], c.mireds * w[2], M)
        /\ w[1] = "hue:" => <<color.hue, color.sat>> = <<w[2], w[3]>>
        /\ c.mireds # 0 \/ L!Near(color.hue, c)
        /\ w[1] = "#" => L!HueSaturation(L!parseHexColor(2 * w[2], 2 * w[3], 2 * w[4])) = <<color.hue, color.sat>>
  BY <1>2, <1>3, SMT DEF L!Shows, L!IsWhitePoint
<1>. HIDE DEF M
<1>5. CASE w[1] \in DOMAIN L!namedColors /\ c = L!namedColors[w[1]]
  <2>1. w[1] \notin {"k", "hue:", "#"}
    BY <1>5, SMT DEF L!namedColors
  <2>2. c.mireds # 0 \/ L!Near(color.hue, c)
    BY <1>3, <1>5, Named, HueIsNear
  <2>. QED BY <1>4, <2>1, <2>2
<1>6. CASE w[1] = "hue:" /\ c = L!ExactHueSaturation(w[2], w[3])
  <2>1. w[2] \in Int /\ w[3] \in Int
    BY <1>6, PhrasesAssumption, Zenon
  <2>2. L!HueSaturation(c) = <<w[2], w[3]>> /\ L!Near(w[2], c)
    BY <1>6, <2>1, ExactIsNear
  <2>3. color.hue = w[2] /\ color.sat = w[3]
    BY <1>3, <2>2
  <2>4. w[1] # "k" /\ w[1] # "#"
    BY <1>6
  <2>. QED BY <1>4, <2>2, <2>3, <2>4
<1>7. CASE w[1] = "k" /\ w[2] \in Nat /\ w[2] > 0 /\ c = L!White(L!Round(M, w[2]))
  <2>1. c.mireds = L!Round(M, w[2]) /\ c.hue = <<0, 1>> /\ c.exact = <<>>
    BY <1>7 DEF L!White
  <2>2. w[1] # "hue:" /\ w[1] # "#" /\ w[1] = "k"
    BY <1>7
  <2>3. L!Within(w[2], c.mireds * w[2], M)
    BY <1>12, <1>7, <2>1, KelvinIsNear
  <2>4. c.mireds # 0 \/ L!Near(color.hue, c)
    <3>1. c.mireds = 0 => L!Near(L!HueSaturation(c)[1], c)
      BY <2>1, HueIsNear
    <3>. QED BY <1>3, <3>1
  <2>. QED BY <1>4, <2>2, <2>3, <2>4
<1>8. CASE w[1] = "#" /\ {w[2], w[3], w[4]} # {0} /\ c = L!parseHexColor(w[2], w[3], w[4])
  <2>1. PICK r \in Nat, g \in Nat, b \in Nat : r = w[2] /\ g = w[3] /\ b = w[4]
    BY <1>8, PhrasesAssumption, Zenon
  <2>2. Wheel(c) /\ SameTwice(w[2], w[3], w[4])
    <3>1. ~(r = 0 /\ g = 0 /\ b = 0) /\ c = L!parseHexColor(r, g, b)
      BY <1>8, <2>1
    <3>2. Wheel(L!parseHexColor(r, g, b)) /\ SameTwice(r, g, b)
      BY <3>1, TripletHue
    <3>. QED BY <2>1, <3>1, <3>2, Zenon
  <2>3. L!Near(color.hue, c)
    BY <1>3, <2>2, HueIsNear DEF Wheel
  <2>4. L!HueSaturation(c) = <<color.hue, color.sat>>
    BY <1>3, <2>2 DEF Wheel, L!HueSaturation, L!IsWhitePoint
  <2>5. w[1] # "k" /\ w[1] # "hue:"
    BY <1>8
  <2>6. L!HueSaturation(L!parseHexColor(2 * w[2], 2 * w[3], 2 * w[4])) = <<color.hue, color.sat>>
    BY <1>8, <2>2, <2>4, Zenon DEF SameTwice
  <2>. QED BY <1>4, <2>3, <2>5, <2>6
<1>. QED BY <1>1, <1>5, <1>6, <1>7, <1>8, Zenon

-----------------------------------------------------------------------------
(***************************************************************************)
(* The lamp as the first words asked.                                      *)
(***************************************************************************)
\* Lamp m is as the first k words asked.
AskedOf(m, k) ==
    /\ L!Within(100, m.level * 100, L!After(said, k).level)
    /\ m.on = L!After(said, k).on
    /\ LET i == L!LastOf(L!IsColor, k)
       IN  IF i = 0 THEN m.color = L!FirstLamp.color ELSE L!Shows(m.color, said[i])

\* The last colour of k words is the k-th, or the last of the words before.
LEMMA LastColor ==
    /\ L!LastOf(L!IsColor, 0) = 0
    /\ \A k \in Nat \ {0} : L!LastOf(L!IsColor, k) = IF L!IsColor(said[k]) THEN k ELSE L!LastOf(L!IsColor, k - 1)
<1>. DEFINE Z(k) == {0} \cup {i \in 1..k : L!IsColor(said[i])}
<1>1. \A k : L!LastOf(L!IsColor, k) = L!Max(Z(k))
  BY DEF L!LastOf
<1>2. L!Max(Z(0)) = 0
  <2>1. Z(0) = {0}
    OBVIOUS
  <2>. QED BY <2>1 DEF L!Max
<1>3. ASSUME NEW k \in Nat \ {0}
      PROVE  L!Max(Z(k)) = IF L!IsColor(said[k]) THEN k ELSE L!Max(Z(k - 1))
  <2>1. CASE L!IsColor(said[k])
    <3>1. Z(k) \in SUBSET (0..k) /\ k \in Z(k) /\ Z(k) # {}
      BY <2>1
    <3>. HIDE DEF Z
    <3>2. L!Max(Z(k)) \in Z(k) /\ \A i \in Z(k) : i <= L!Max(Z(k))
      BY <3>1, MaxOf
    <3>3. PICK x \in 0..k : x = L!Max(Z(k)) /\ k <= x
      BY <3>1, <3>2
    <3>. QED BY <2>1, <3>3
  <2>2. CASE ~L!IsColor(said[k])
    <3>1. ASSUME NEW i \in 1..k, L!IsColor(said[i]) PROVE i \in 1..(k - 1)
      <4>1. i # k
        BY <2>2, <3>1
      <4>. QED BY <4>1
    <3>2. Z(k) = Z(k - 1)
      BY <3>1
    <3>. HIDE DEF Z
    <3>. QED BY <2>2, <3>2
  <2>. QED BY <2>1, <2>2
<1>. HIDE DEF Z
<1>. QED BY <1>1, <1>2, <1>3

\* The first lamp is as asked by no words.
LEMMA AskedFirst == AskedOf(L!FirstLamp, 0)
<1>. DEFINE first == L!FirstLamp.level * 100
<1>1. L!After(said, 0) = AtFirst
  <2>1. 0 \in Nat /\ \A i \in 1..0 : L!Understood(said[i])
    OBVIOUS
  <2>. QED BY <2>1, HeardAfter
<1>2. first \in Int
  BY DEF L!FirstLamp
<1>3. L!After(said, 0).level = first /\ L!After(said, 0).on = L!FirstLamp.on
  BY <1>1 DEF AtFirst
<1>. HIDE DEF first
<1>4. L!Within(100, first, first)
  BY <1>2 DEF L!Within
<1>. QED BY <1>3, <1>4, LastColor DEF AskedOf, first

\* What the words about the switch make of it.
LEMMA SwitchWord ==
    ASSUME NEW w, NEW on \in BOOLEAN
    PROVE  /\ w[1] = "on" => L!SwitchAsked(w, on) = TRUE
           /\ w[1] = "off" => L!SwitchAsked(w, on) = FALSE
           /\ w[1] = "toggle" => L!SwitchAsked(w, on) = ~on
           /\ w[1] \notin L!switchWords => L!SwitchAsked(w, on) = on
  BY Zenon DEF L!SwitchAsked, L!switchWords

\* A level in units, no further than one from what was asked in hundredths.
WithinOne(l, a) == L!Within(100, l * 100, a)

\* So when both are moved by d, and kept in bounds.
MovedWithin(l, a, d) == WithinOne(L!clampLevel(l + d), L!KeepWithin(a + 100 * d))

\* A level and the one that was asked for stay close.
LEMMA StaysWithin ==
    ASSUME NEW l \in Int, NEW a \in Int, NEW d \in Int, WithinOne(l, a)
    PROVE  MovedWithin(l, a, d)
<1>1. PICK v \in Int : v = a + 100 * d
  OBVIOUS
<1>2. PICK y \in Int : y = L!KeepWithin(v) /\ y = IF v < 100 THEN 100 ELSE IF v > 25400 THEN 25400 ELSE v
  BY KeptWithin, SMT
<1>3. PICK z \in Int : z = l + d
  OBVIOUS
<1>4. PICK x \in Int : x = L!clampLevel(z) /\ x = IF z < 1 THEN 1 ELSE IF z > 254 THEN 254 ELSE z
  BY Clamped, SMT
<1>5. a - l * 100 <= 100 /\ l * 100 - a <= 100
  BY SMT DEF WithinOne, L!Within
<1>6. y - x * 100 <= 100 /\ x * 100 - y <= 100
  <2>1. CASE z < 1
    BY <1>1, <1>2, <1>3, <1>4, <1>5, <2>1, SMT
  <2>2. CASE z > 254
    BY <1>1, <1>2, <1>3, <1>4, <1>5, <2>2, SMT
  <2>3. CASE 1 <= z /\ z <= 254
    BY <1>1, <1>2, <1>3, <1>4, <1>5, <2>3, SMT
  <2>. QED BY <2>1, <2>2, <2>3, SMT
<1>7. WithinOne(x, y)
  BY <1>6, SMT DEF WithinOne, L!Within
<1>8. x = L!clampLevel(l + d) /\ y = L!KeepWithin(a + 100 * d)
  <2>1. x = L!clampLevel(z) /\ y = L!KeepWithin(v)
    BY <1>2, <1>4, SMT
  <2>. QED BY <1>1, <1>3, <2>1, Zenon
<1>. QED BY <1>7, <1>8, Zenon DEF MovedWithin

\* What a word asked for, a lamp does: the action, once carried out, leaves it as one more
\* word asked.
LEMMA AskedGoes ==
    ASSUME LightInv, Told, NEW k \in 1..Len(said), AskedOf(lamp, k - 1),
           NEW a, a = L!ParseAction(said[k]),
           L!IsColor(said[k]) => L!Way(a.color) \in can
    PROVE  AskedOf(L!Obey(lamp, a), k)
<1>. DEFINE w == said[k]
            before == L!After(said, k - 1)
            m == L!Obey(lamp, a)
<1>0. /\ Len(said) \in Nat /\ k \in Nat \ {0} /\ k - 1 \in 0..Len(said)
      /\ \A i \in 1..Len(said) : L!Understood(said[i])
      /\ w \in Words
  BY PhrasesAssumption DEF LightInv, LightTyped, Parsed
<1>1. L!Understood(w)
  BY <1>0
<1>2. before \in Meant /\ L!After(said, k) = Heard(w, before)
  BY <1>0, HeardAfter
<1>3. /\ a.verb \in Verbs /\ a.n \in Int
      /\ a.verb = "level" <=> L!IsPlace(w)
      /\ a.verb = "step" <=> L!IsDistance(w)
      /\ a.verb = "color" <=> L!IsColor(w)
      /\ w[1] \in L!switchWords => a.verb = w[1]
  BY <1>1, ActOf
<1>4. /\ lamp = [on |-> lamp.on, level |-> lamp.level, onLevel |-> lamp.onLevel,
                 fade |-> lamp.fade, color |-> lamp.color]
      /\ lamp.on \in BOOLEAN /\ lamp.level \in Int /\ 1 <= lamp.level /\ lamp.level <= 254
  BY DEF LightInv, LightTyped, Levels
<1>5. /\ L!Within(100, lamp.level * 100, before.level) /\ lamp.on = before.on
      /\ LET i == L!LastOf(L!IsColor, k - 1)
         IN  IF i = 0 THEN lamp.color = L!FirstLamp.color ELSE L!Shows(lamp.color, said[i])
  BY DEF AskedOf
<1>6. L!LastOf(L!IsColor, k) = IF L!IsColor(w) THEN k ELSE L!LastOf(L!IsColor, k - 1)
  BY <1>0, LastColor
<1>7. before.level \in Int /\ before.on \in BOOLEAN
  BY <1>2 DEF Meant
<1>8. /\ L!After(said, k).level = L!LevelAsked(w, before.level)
      /\ L!After(said, k).on = L!SwitchAsked(w, before.on)
  BY <1>2 DEF Heard
<1>. HIDE DEF w, before, m
<1>9. SUFFICES /\ L!Within(100, m.level * 100, L!LevelAsked(w, before.level))
               /\ m.on = L!SwitchAsked(w, before.on)
               /\ ~L!IsColor(w) => m.color = lamp.color
               /\ L!IsColor(w) => L!Shows(m.color, w)
  <2>1. (k = 0) = FALSE
    BY <1>0
  <2>. QED BY <1>5, <1>6, <1>8, <2>1 DEF AskedOf, m, w
<1>10. CASE w[1] \in L!switchWords
  <2>0. a.verb = w[1] /\ a.n \in Int
    BY <1>3, <1>10, Zenon
  <2>1. ~L!IsPlace(w) /\ ~L!IsDistance(w) /\ ~L!IsColor(w)
    BY <1>10, Kinds
  <2>2. L!LevelAsked(w, before.level) = before.level
    BY <2>1 DEF L!LevelAsked
  <2>3. m = [lamp EXCEPT !.on = L!SwitchAsked(w, lamp.on)]
    <3>1. CASE w[1] = "on"
      <4>1. a.verb = "on" /\ a.n \in Int
        BY <2>0, <3>1
      <4>2. m = [lamp EXCEPT !.on = TRUE]
        BY <4>1, Obeys, Zenon DEF m
      <4>. QED BY <1>4, <3>1, <4>2, SwitchWord
    <3>2. CASE w[1] = "off"
      <4>1. a.verb = "off" /\ a.n \in Int
        BY <2>0, <3>2
      <4>2. m = [lamp EXCEPT !.on = FALSE]
        BY <4>1, Obeys, Zenon DEF m
      <4>. QED BY <1>4, <3>2, <4>2, SwitchWord
    <3>3. CASE w[1] = "toggle"
      <4>1. a.verb = "toggle" /\ a.n \in Int
        BY <2>0, <3>3
      <4>2. m = [lamp EXCEPT !.on = ~lamp.on]
        BY <4>1, Obeys, Zenon DEF m
      <4>. QED BY <1>4, <3>3, <4>2, SwitchWord
    <3>. QED BY <1>10, <3>1, <3>2, <3>3 DEF L!switchWords
  <2>4. m.level = lamp.level /\ m.color = lamp.color /\ m.on = L!SwitchAsked(w, lamp.on)
    BY <1>4, <2>3
  <2>. QED BY <1>5, <2>1, <2>2, <2>4
<1>11. ASSUME w[1] \notin L!switchWords PROVE L!SwitchAsked(w, before.on) = before.on
  BY <1>7, <1>11, SwitchWord
<1>12. CASE L!IsPlace(w)
  <2>1. w[1] \notin L!switchWords /\ ~L!IsColor(w)
    BY <1>12, Kinds
  <2>2. PICK n \in Int : /\ a = L!Act("level", n, L!White(0))
                         /\ L!Within(100, L!clampLevel(n) * 100, L!Place(w))
    BY <1>1, <1>12, PlaceWord DEF w
  <2>3. a.n = n
    BY <2>2 DEF L!Act
  <2>4. m = [lamp EXCEPT !.level = L!clampLevel(n), !.fade = L!tenths(transition)]
    <3>1. a.verb = "level" /\ a.n \in Int
      BY <1>3, <1>12, Zenon
    <3>2. m = [lamp EXCEPT !.level = L!clampLevel(a.n), !.fade = L!tenths(transition)]
      BY <3>1, Obeys, Zenon DEF m
    <3>. QED BY <2>3, <3>2, Zenon
  <2>5. m.level = L!clampLevel(n) /\ m.on = lamp.on /\ m.color = lamp.color
    BY <1>4, <2>4
  <2>6. L!LevelAsked(w, before.level) = L!Place(w)
    BY <1>12 DEF L!LevelAsked
  <2>. QED BY <1>5, <1>11, <2>1, <2>2, <2>5, <2>6
<1>13. CASE L!IsDistance(w)
  <2>1. w[1] \notin L!switchWords /\ ~L!IsColor(w) /\ ~L!IsPlace(w)
    BY <1>13, Kinds
  <2>2. PICK d \in {-64, 64} : d = L!stepWords[w[1]] /\ a = L!Act("step", d, L!White(0))
    BY <1>13, DistanceWord DEF w
  <2>3. a.n = d /\ a.verb = "step"
    BY <2>2 DEF L!Act
  <2>4. m = [lamp EXCEPT !.level = L!clampLevel(lamp.level + d), !.fade = L!tenths(transition)]
    <3>1. L!Obey(lamp, a) = L!StepLevel(lamp, a.n)
      <4>1. a.verb = "step" /\ a.n \in Int
        BY <1>3, <1>13
      <4>. QED BY <4>1, Obeys, Zenon
    <3>2. m = L!StepLevel(lamp, d)
      BY <2>3, <3>1 DEF m
    <3>. QED BY <1>4, <3>2, Steps
  <2>5. m.level = L!clampLevel(lamp.level + d) /\ m.on = lamp.on /\ m.color = lamp.color
    BY <1>4, <2>4
  <2>6. L!LevelAsked(w, before.level) = L!KeepWithin(before.level + 100 * d)
    BY <1>13, <2>1, <2>2, Zenon DEF L!LevelAsked
  <2>7. L!Within(100, L!clampLevel(lamp.level + d) * 100, L!KeepWithin(before.level + 100 * d))
    <3>1. d \in Int
      OBVIOUS
    <3>2. PICK l \in Int, b \in Int : l = lamp.level /\ b = before.level /\ WithinOne(l, b)
      BY <1>4, <1>5, <1>7 DEF WithinOne
    <3>3. MovedWithin(l, b, d)
      BY <3>1, <3>2, StaysWithin
    <3>. QED BY <3>2, <3>3 DEF MovedWithin, WithinOne
  <2>. QED BY <1>5, <1>11, <2>1, <2>5, <2>6, <2>7
<1>14. CASE L!IsColor(w)
  <2>1. w[1] \notin L!switchWords /\ ~L!IsDistance(w) /\ ~L!IsPlace(w)
    BY <1>14, Kinds
  <2>2. m = L!SetColor(lamp, a.color)
    <3>1. a.verb = "color" /\ a.n \in Int
      BY <1>3, <1>14, Zenon
    <3>. QED BY <3>1, Obeys, Zenon DEF m
  <2>3. m = [lamp EXCEPT !.color = [way |-> L!Way(a.color), mireds |-> a.color.mireds,
                                    hue |-> L!HueSaturation(a.color)[1], sat |-> L!HueSaturation(a.color)[2]],
                         !.fade = L!tenths(transition)]
    BY <2>2 DEF L!SetColor
  <2>4. m.level = lamp.level /\ m.on = lamp.on
        /\ m.color = [way |-> L!Way(a.color), mireds |-> a.color.mireds,
                      hue |-> L!HueSaturation(a.color)[1], sat |-> L!HueSaturation(a.color)[2]]
    BY <1>4, <2>3
  <2>5. /\ m.color.way = L!Way(a.color) /\ m.color.mireds = a.color.mireds
        /\ m.color.hue = L!HueSaturation(a.color)[1] /\ m.color.sat = L!HueSaturation(a.color)[2]
    BY <2>4
  <2>6. L!Shows(m.color, w)
    <3>1. L!Way(a.color) \in can /\ a = L!ParseAction(w) /\ w \in Words
      BY <1>0, <1>14 DEF w
    <3>. QED BY <1>1, <1>14, <2>5, <3>1, ColorShown
  <2>7. L!LevelAsked(w, before.level) = before.level
    BY <2>1 DEF L!LevelAsked
  <2>. QED BY <1>5, <1>11, <1>14, <2>1, <2>4, <2>6, <2>7
<1>. QED BY <1>10, <1>12, <1>13, <1>14, Kinds

\* The lamp is as far as the phrase got, and a fade is the transition that was asked for.
Heeded ==
    /\ transition \in Transitions
    /\ lamp.fade \in {0, L!tenths(transition)}
    /\ Told /\ ~repeated =>
          IF light = "failed" THEN \E k \in {at - 1, at} \cap 0..Len(said) : AskedOf(lamp, k)
          ELSE AskedOf(lamp, at - 1)

\* The lamp is as the words asked at first, after every step and when it rests.
LEMMA HeededStart == L!LightInit => Heeded
  BY DEF L!LightInit, Heeded, Told, L!FirstLamp

\* Only the level, the switch and the colour of a lamp are asked for.
LEMMA AskedSame ==
    ASSUME NEW m, NEW n, m.level = n.level, m.on = n.on, m.color = n.color, NEW k, AskedOf(m, k)
    PROVE  AskedOf(n, k)
  BY Zenon DEF AskedOf

\* What was asked is a matter of the words and of what the lamp can do.
LEMMA AskedStays ==
    ASSUME UNCHANGED <<said, can>>, NEW k, AskedOf(lamp', k)
    PROVE  AskedOf(lamp, k)'
  BY SMT DEF AskedOf, L!LastOf, L!Shows

\* Each step keeps the lamp as the words asked.
LEMMA HeededStep == LightInv /\ Heeded /\ L!LightNext => Heeded'
<1>. SUFFICES ASSUME LightInv, Heeded, L!LightNext PROVE Heeded'
  OBVIOUS
<1>0. Len(said) \in Nat /\ at \in Nat
  BY PhrasesAssumption DEF LightInv, LightTyped
<1>1. UNCHANGED <<said, can, transition>>
  BY DEF L!LightNext, L!LightParse, L!LightAsk, L!LightTell, L!LightRefused, L!SetOnLevel, L!heard
<1>2. SUFFICES /\ lamp'.fade \in {0, L!tenths(transition)}
               /\ Told' /\ ~repeated' =>
                     \/ light' # "failed" /\ AskedOf(lamp', at' - 1)
                     \/ light' = "failed" /\ \E k \in {at' - 1, at'} \cap 0..Len(said) : AskedOf(lamp', k)
  <2>1. L!tenths(transition)' = L!tenths(transition)
    BY <1>1 DEF L!tenths
  <2>2. ASSUME light' # "failed", AskedOf(lamp', at' - 1) PROVE AskedOf(lamp, at - 1)'
    BY <1>1, <2>2, SMT DEF AskedOf, L!LastOf, L!Shows
  <2>3. ASSUME NEW k, AskedOf(lamp', k) PROVE AskedOf(lamp, k)'
    BY <1>1, <2>3, AskedStays
  <2>. QED BY <1>1, <1>2, <2>1, <2>2, <2>3 DEF Heeded
<1>3. CASE L!LightParse
  <2>1. at' = 1 /\ lamp' = lamp /\ lamp = L!FirstLamp /\ (Told' => light' # "failed")
    BY <1>3 DEF L!LightParse, LightInv, Parsed, Told
  <2>2. AskedOf(lamp', 0) /\ at' - 1 = 0
    BY <2>1, AskedFirst
  <2>. QED BY <2>1, <2>2 DEF Heeded
<1>4. CASE L!LightAsk \/ L!LightRefused
  <2>1. /\ light \in {"telling", "coloring"} /\ Told
        /\ at' = at /\ lamp' = lamp /\ repeated' = repeated
        /\ 1 <= at /\ at <= Len(said)
    BY <1>4 DEF L!LightAsk, L!LightRefused, L!Ready, Told, LightInv, Parsed
  <2>2. at - 1 \in 0..Len(said)
    BY <1>0, <2>1
  <2>. QED BY <2>1, <2>2 DEF Heeded
<1>5. CASE L!SetOnLevel
  <2>1. /\ light = "persisting" /\ Told /\ at = Len(said) + 1
        /\ at' = at /\ repeated' = repeated
    BY <1>5 DEF L!SetOnLevel, Told, LightInv, Parsed
  <2>2. \/ lamp' = lamp
        \/ lamp' = [lamp EXCEPT !.onLevel = L!clampLevel(L!lastAbsoluteLevel)]
    BY <1>5 DEF L!SetOnLevel
  <2>3. lamp = [on |-> lamp.on, level |-> lamp.level, onLevel |-> lamp.onLevel,
                fade |-> lamp.fade, color |-> lamp.color]
    BY DEF LightInv, LightTyped
  <2>4. lamp'.level = lamp.level /\ lamp'.on = lamp.on /\ lamp'.color = lamp.color /\ lamp'.fade = lamp.fade
    BY <2>2, <2>3
  <2>5. ~repeated => AskedOf(lamp', at - 1)
    <3>1. ~repeated => AskedOf(lamp, at - 1)
      BY <2>1 DEF Heeded
    <3>. QED BY <2>4, <3>1, AskedSame
  <2>6. at - 1 \in 0..Len(said)
    BY <1>0, <2>1
  <2>. QED BY <2>1, <2>4, <2>5, <2>6 DEF Heeded
<1>6. CASE L!LightTell
  <2>. DEFINE a == actions[at]
  <2>1. PICK n \in Nat, m \in Lamps(lamp, a) :
          /\ lamp' = m
          /\ n = 0 => m = lamp
          /\ (n = 1 \/ (n > 1 /\ a.verb \notin {"toggle", "step"})) => m = L!Obey(lamp, a)
          /\ repeated' = (repeated \/ (n > 1 /\ a.verb \in {"toggle", "step"}))
          /\ (n > 0 /\ L!GoesOn) \/ (light' = "failed" /\ UNCHANGED at)
    BY <1>6, Telling
  <2>2. /\ light \in {"telling", "coloring"} /\ Told /\ at \in 1..Len(said)
        /\ a = L!ParseAction(said[at]) /\ L!Understood(said[at])
        /\ (L!Color => L!Way(a.color) \in can)
    BY <1>0, <1>6 DEF L!LightTell, L!Ready, Told, LightInv, Parsed, LightTyped
  <2>3. L!Color <=> a.verb = "color"
    BY DEF L!Color
  <2>. HIDE DEF a
  <2>4. lamp'.fade \in {0, L!tenths(transition)}
    BY <2>1 DEF Lamps, Heeded
  <2>5. ASSUME ~repeated' PROVE \/ n = 0 /\ AskedOf(lamp', at - 1)
                                \/ n > 0 /\ AskedOf(lamp', at)
    <3>1. AskedOf(lamp, at - 1)
      BY <2>1, <2>2, <2>5 DEF Heeded
    <3>2. CASE n = 0
      BY <2>1, <3>1, <3>2
    <3>3. CASE n # 0
      <4>1. lamp' = L!Obey(lamp, a)
        <5>1. n = 1 \/ n > 1
          BY <3>3
        <5>2. ~(n > 1 /\ a.verb \in {"toggle", "step"})
          BY <2>1, <2>5, Zenon
        <5>. QED BY <2>1, <5>1, <5>2, Zenon
      <4>2. L!IsColor(said[at]) => L!Way(a.color) \in can
        BY <2>2, <2>3, ActOf
      <4>3. AskedOf(L!Obey(lamp, a), at)
        BY <2>2, <3>1, <4>2, AskedGoes
      <4>. QED BY <3>3, <4>1, <4>3
    <3>. QED BY <3>2, <3>3
  <2>6. \/ light' # "failed" /\ n > 0 /\ at' = at + 1
        \/ light' = "failed" /\ at' = at
    BY <2>1 DEF L!GoesOn
  <2>7. at \in 0..Len(said) /\ at - 1 \in 0..Len(said) /\ (at + 1) - 1 = at
    BY <1>0, <2>2
  <2>. QED BY <2>4, <2>5, <2>6, <2>7
<1>. QED BY <1>3, <1>4, <1>5, <1>6 DEF L!LightNext

\* So does a step of another part.
LEMMA HeededIdle == Heeded /\ UNCHANGED lightsVars => Heeded'
<1>. SUFFICES ASSUME Heeded, UNCHANGED lightsVars PROVE Heeded'
  OBVIOUS
<1>1. UNCHANGED <<said, can, transition, light, lamp, at, repeated>>
  BY DEF lightsVars
<1>2. L!tenths(transition)' = L!tenths(transition) /\ Told' = Told
  BY <1>1 DEF L!tenths, Told
<1>3. ASSUME NEW k, AskedOf(lamp, k) PROVE AskedOf(lamp, k)'
  BY <1>1, <1>3, AskedStays
<1>4. ASSUME AskedOf(lamp, at - 1) PROVE AskedOf(lamp, at - 1)'
  BY <1>1, <1>4, SMT DEF AskedOf, L!LastOf, L!Shows
<1>. QED BY <1>1, <1>2, <1>3, <1>4 DEF Heeded

\* A fade is the transition asked for, to half of a tenth of a second, or the longest there is.
LEMMA FadeIsAsked ==
    ASSUME NEW ms \in Nat, L!tenths(ms) # 0
    PROVE  L!tenths(ms) * 100 >= L!Min({ms, 6553500}) - 50
<1>1. PICK r \in Int : r = L!Round(ms, 100) /\ 2 * (100 * r) <= 2 * ms + 100 /\ 2 * ms <= 2 * (100 * r) + 100
  <2>1. PICK d \in Nat : d = 100 /\ d > 0
    BY SMT
  <2>2. d > 0
    BY <2>1
  <2>3. PICK r \in Int : r = L!Round(ms, d) /\ 2 * (d * r) <= 2 * ms + d /\ 2 * ms <= 2 * (d * r) + d
    <3>1. /\ L!Round(ms, d) \in Int
          /\ 2 * (d * L!Round(ms, d)) <= 2 * ms + d /\ 2 * ms <= 2 * (d * L!Round(ms, d)) + d
      BY <2>2, Rounded
    <3>. QED BY <3>1
  <2>. QED BY <2>1, <2>3, SMT
<1>2. PICK t \in Int : t = L!tenths(ms) /\ t = IF 65535 <= r THEN 65535 ELSE r
  <2>1. L!Min({65535, r}) = IF 65535 <= r THEN 65535 ELSE r
    BY MinMax, SMT
  <2>. QED BY <1>1, <2>1, SMT DEF L!tenths
<1>3. L!Min({ms, 6553500}) = IF ms <= 6553500 THEN ms ELSE 6553500
  BY MinMax, SMT
<1>. QED BY <1>1, <1>2, <1>3, SMT

\* What a person is promised of the lamp follows.
LEMMA LightIsAsTold == LightInv /\ Heeded => L!LightAsTold
<1>. SUFFICES ASSUME LightInv, Heeded PROVE L!LightAsTold
  OBVIOUS
<1>1. Len(said) \in Nat /\ at \in Nat /\ transition \in Nat
  BY PhrasesAssumption DEF LightInv, LightTyped, Heeded
<1>2. \A k : AskedOf(lamp, k) => L!Asked(k)
  BY DEF AskedOf, L!Asked, L!ColorAsked
<1>3. light \in {"typed", "refused"} => lamp = L!FirstLamp
  BY DEF LightInv, Parsed, Told
<1>4. light = "done" /\ ~repeated => L!Asked(Len(said))
  <2>1. light = "done" => Told /\ at - 1 = Len(said)
    BY <1>1 DEF LightInv, Parsed, Told
  <2>. QED BY <1>2, <2>1 DEF Heeded
<1>5. light = "failed" /\ ~repeated => \E k \in {at - 1, at} \cap 0..Len(said) : L!Asked(k)
  BY <1>2 DEF Heeded, Told
<1>6. light = "done" /\ lamp.fade # 0 => lamp.fade * 100 >= L!Min({transition, 6553500}) - 50
  <2>1. lamp.fade # 0 => lamp.fade = L!tenths(transition)
    BY DEF Heeded
  <2>. QED BY <1>1, <2>1, FadeIsAsked, SMT
<1>. QED BY <1>3, <1>4, <1>5, <1>6, SMT DEF L!LightAsTold

\* The lamp ends as the phrase said, the last word about a thing winning, and one that fails
\* on the way leaves it as far as the phrase had got (ParseActions, Apply, SetColor).
THEOREM LightAsToldHolds == PartSpec => []LightAsTold
<1>. DEFINE I == part = "lights" => LightInv /\ Heeded
<1>1. PartInit => I
  BY LightStart, HeededStart DEF PartInit
<1>2. I /\ [PartNext]_partVars => I'
  BY LightStep, LightIdle, HeededStep, HeededIdle DEF PartNext, partVars
<1>3. I => LightAsTold
  BY LightIsAsTold DEF LightAsTold
<1>. QED BY <1>1, <1>2, <1>3, PTL DEF PartSpec

-----------------------------------------------------------------------------
(***************************************************************************)
(* The session at the terminal.                                            *)
(***************************************************************************)
\* The commands lie in a queue, and while an answer to the last shutting is waited for, that
\* shutting is the last of them or has been carried out.
ShutLast ==
    /\ ncp \in Seq({"open", "shut"})
    /\ phase = "running" /\ cmd = "join" /\ step = "closing" =>
          IF ncp = <<>> THEN window = "closed" ELSE ncp[Len(ncp)] = "shut"

ShellInv == ShutLast /\ S!WindowShut

\* The invariant holds at first, after every step and when the session rests.
LEMMA ShellStart == S!ShellInit => ShellInv
  BY DEF S!ShellInit, ShellInv, ShutLast, S!WindowShut, S!None

\* Each step of the session keeps its invariant.
LEMMA ShellStep == ShellInv /\ S!ShellNext => ShellInv'
<1>. SUFFICES ASSUME ShellInv, S!ShellNext PROVE ShellInv'
  OBVIOUS
<1>. USE DEF ShellInv, ShutLast, S!WindowShut
<1>1. CASE S!Pump \/ S!Type \/ S!InputEnds \/ S!ReadEnd \/ S!Watch \/ S!Terminate
  BY <1>1 DEF S!Pump, S!Type, S!InputEnds, S!ReadEnd, S!Watch, S!Terminate, S!ncpVars, S!termVars
<1>2. CASE S!WatchEnds
  BY <1>2 DEF S!WatchEnds, S!ncpVars
<1>3. CASE S!ReadLine
  BY <1>3 DEF S!ReadLine, S!Start, S!ncpVars, S!Printing
<1>4. CASE S!Deliver \/ S!Listen \/ S!ShowReport
  BY <1>4 DEF S!Deliver, S!Listen, S!ShowReport, S!ncpVars
<1>5. CASE S!Ask
  BY <1>5 DEF S!Ask, S!Running, S!Return, S!ncpVars
<1>6. CASE S!SetSink \/ S!Cancelled \/ S!Elapse \/ S!UnsetSink
  BY <1>6 DEF S!SetSink, S!Cancelled, S!Elapse, S!UnsetSink, S!Running, S!Goto, S!Return, S!ncpVars
<1>7. CASE S!PermitJoin
  BY <1>7 DEF S!PermitJoin, S!Running, S!Goto, S!ncpVars
<1>8. CASE S!Permitted
  BY <1>8 DEF S!Permitted, S!Running, S!Goto
<1>9. CASE S!closeJoinWindow
  <2>1. /\ ncp' = Append(ncp, "shut") /\ step' = "closing"
        /\ UNCHANGED <<cmd, phase, outcome, window>> /\ cmd = "join" /\ phase = "running"
    BY <1>9 DEF S!closeJoinWindow, S!CanClose, S!Running, S!Goto
  <2>2. /\ ncp' \in Seq({"open", "shut"}) /\ Len(ncp') = Len(ncp) + 1 /\ Len(ncp) \in Nat
        /\ ncp' # <<>> /\ ncp'[Len(ncp')] = "shut"
    BY <2>1
  <2>. QED BY <2>1, <2>2
<1>10. CASE S!Closed
  BY <1>10 DEF S!Closed, S!Running, S!Goto
<1>11. CASE S!Ncp
  <2>1. /\ ncp # <<>> /\ ncp' = Tail(ncp)
        /\ window' = IF Head(ncp) = "open" THEN "open" ELSE "closed"
        /\ UNCHANGED <<cmd, phase, step, outcome>>
    BY <1>11 DEF S!Ncp
  <2>2. /\ ncp' \in Seq({"open", "shut"}) /\ Len(ncp') = Len(ncp) - 1
        /\ Len(ncp) \in Nat \ {0} /\ Head(ncp) = ncp[1]
        /\ \A i \in 1..Len(ncp') : ncp'[i] = ncp[i + 1]
    BY <2>1
  <2>3. CASE ncp' = <<>>
    <3>1. Len(ncp) = 1
      BY <2>2, <2>3
    <3>. QED BY <2>1, <2>2, <2>3, <3>1
  <2>4. CASE ncp' # <<>>
    <3>1. Len(ncp') \in Nat \ {0} /\ ncp'[Len(ncp')] = ncp[Len(ncp)]
      BY <2>2, <2>4
    <3>. QED BY <2>1, <2>2, <2>4, <3>1
  <2>. QED BY <2>3, <2>4
<1>12. CASE S!WindowElapses
  BY <1>12 DEF S!WindowElapses
<1>. QED BY <1>1, <1>2, <1>3, <1>4, <1>5, <1>6, <1>7, <1>8, <1>9, <1>10, <1>11, <1>12
       DEF S!ShellNext, S!Goes, S!Command

\* So does a step of another part.
LEMMA ShellIdle == ShellInv /\ UNCHANGED shellVars => ShellInv'
  BY DEF ShellInv, ShutLast, S!WindowShut, shellVars

\* A join that was told its window is shut leaves nothing that opens it again, whatever is
\* typed, reported or cancelled (closeJoinWindow).
THEOREM WindowShutHolds == PartSpec => []WindowShut
<1>1. PartInit => (part = "shell" => ShellInv)
  BY ShellStart DEF PartInit
<1>2. (part = "shell" => ShellInv) /\ [PartNext]_partVars => (part = "shell" => ShellInv)'
  BY ShellStep, ShellIdle DEF PartNext, partVars
<1>3. (part = "shell" => ShellInv) => WindowShut
  BY DEF WindowShut, ShellInv
<1>. QED BY <1>1, <1>2, <1>3, PTL DEF PartSpec

-----------------------------------------------------------------------------
(***************************************************************************)
(* Text: names without a space too many.                                   *)
(***************************************************************************)
\* A character of a name that NormalizeName leaves in it.
Keep(s, i) ==
    ~P!IsSpace(s[i]) \/ (i > 1 /\ i < Len(s) /\ ~P!IsSpace(s[i + 1])
                         /\ \E j \in 1..i : ~P!IsSpace(s[j]))

\* A name is put in order character by character.
LEMMA Normalizing ==
    ASSUME NEW s \in Text
    PROVE  \E f \in [0..Len(s) -> Text] :
              /\ f[0] = <<>> /\ P!NormalizeName(s) = f[Len(s)]
              /\ \A i \in 1..Len(s) : f[i] = IF Keep(s, i) THEN Append(f[i - 1], s[i]) ELSE f[i - 1]
<1>. DEFINE n == Len(s)
            G(i, x) == IF Keep(s, i) THEN Append(x, s[i]) ELSE x
            F == [p \in Nat \X Text |-> IF p[1] \in 1..n THEN G(p[1], p[2]) ELSE p[2]]
            Is(g) == g = [i \in 0..n |-> IF i = 0 THEN <<>> ELSE G(i, g[i - 1])]
            h == CHOOSE g : Is(g)
<1>0. n \in Nat /\ <<>> \in Text
  BY DEF Text
<1>1. ASSUME NEW i \in 1..n, NEW x \in Text PROVE G(i, x) \in Text
  <2>1. s[i] \in STRING
    BY DEF Text
  <2>2. Append(x, s[i]) \in Text
    BY <2>1 DEF Text
  <2>. QED BY <2>2
<1>2. P!NormalizeName(s) = h[n]
  BY DEF P!NormalizeName, Keep
<1>. HIDE DEF G, n
<1>3. F \in [Nat \X Text -> Text]
  BY <1>1
<1>4. \E g : Is(g)
  <2>1. PICK f \in [0..n -> Text] : Recursive(f, n, <<>>, F)
    <3>. HIDE DEF F
    <3>. QED BY <1>0, <1>3, Recursion
  <2>2. ASSUME NEW i \in 0..n PROVE f[i] = IF i = 0 THEN <<>> ELSE G(i, f[i - 1])
    <3>1. f[i] = IF i = 0 THEN <<>> ELSE F[<<i, f[i - 1]>>]
      <4>. HIDE DEF F
      <4>. QED BY <2>1 DEF Recursive
    <3>2. i # 0 => i \in 1..n /\ i \in Nat /\ f[i - 1] \in Text
      BY <1>0
    <3>. QED BY <3>1, <3>2
  <2>. QED BY <2>2
<1>. HIDE DEF Is, F
<1>5. Is(h)
  BY <1>4
<1>. HIDE DEF h
<1>6. /\ DOMAIN h = 0..n
      /\ \A i \in 0..n : h[i] = IF i = 0 THEN <<>> ELSE G(i, h[i - 1])
  <2>. DEFINE d == [i \in 0..n |-> IF i = 0 THEN <<>> ELSE G(i, h[i - 1])]
  <2>1. h = d
    BY <1>5 DEF Is
  <2>2. DOMAIN d = 0..n /\ \A i \in 0..n : d[i] = IF i = 0 THEN <<>> ELSE G(i, h[i - 1])
    OBVIOUS
  <2>. HIDE DEF d
  <2>. QED BY <2>1, <2>2
<1>7. \A i \in 0..n : h[i] \in Text
  <2>. DEFINE T == {i \in Nat : h[i] \in Text}
  <2>1. 0 \in T
    BY <1>0, <1>6
  <2>2. ASSUME NEW i \in 1..n, i - 1 \in T PROVE i \in T
    <3>1. i \in 0..n /\ i # 0 /\ i \in Nat /\ h[i - 1] \in Text
      BY <1>0, <2>2
    <3>2. h[i] = G(i, h[i - 1])
      BY <1>6, <3>1
    <3>. QED BY <1>1, <3>1, <3>2
  <2>. HIDE DEF T
  <2>3. 0..n \subseteq T
    BY <1>0, <2>1, <2>2, AllAlong
  <2>. QED BY <2>3 DEF T
<1>8. h \in [0..n -> Text]
  <2>1. h = [i \in 0..n |-> h[i]]
    BY <1>5, <1>6 DEF Is
  <2>. QED BY <1>7, <2>1
<1>9. h[0] = <<>> /\ \A i \in 1..n : h[i] = IF Keep(s, i) THEN Append(h[i - 1], s[i]) ELSE h[i - 1]
  <2>1. 0 \in 0..n /\ \A i \in 1..n : i \in 0..n /\ i # 0
    BY <1>0
  <2>2. \A i \in 1..n : h[i] = G(i, h[i - 1])
    BY <1>6, <2>1
  <2>. QED BY <1>6, <2>1, <2>2 DEF G
<1>. QED BY <1>2, <1>8, <1>9 DEF n

\* No space at an end, none after another.
Neat(t) == \A i \in 1..Len(t) : P!IsSpace(t[i]) => i > 1 /\ i < Len(t) /\ ~P!IsSpace(t[i + 1])

\* What NormalizeName has kept of the first i characters.
Kept(s, x, i) ==
    /\ \A k \in 1..Len(x) : \E j \in 1..i : x[k] = s[j]
    /\ x = <<>> <=> \A j \in 1..i : P!IsSpace(s[j])
    /\ x # <<>> => ~P!IsSpace(x[1])
    /\ \A k \in 1..Len(x) : P!IsSpace(x[k]) =>
          IF k = Len(x) THEN i < Len(s) /\ ~P!IsSpace(s[i + 1]) ELSE ~P!IsSpace(x[k + 1])

\* One element more.
LEMMA Appending ==
    ASSUME NEW X, NEW x \in Seq(X), NEW c \in X
    PROVE  /\ Append(x, c) \in Seq(X) /\ Len(Append(x, c)) = Len(x) + 1 /\ Len(x) \in Nat
           /\ Append(x, c)[Len(x) + 1] = c /\ Append(x, c) # <<>>
           /\ \A k \in 1..Len(x) : Append(x, c)[k] = x[k]
  OBVIOUS

\* One character more.
LEMMA KeptMore ==
    ASSUME NEW s \in Text, NEW n \in Nat, n = Len(s), NEW i \in 1..n, NEW x \in Text, Kept(s, x, i - 1)
    PROVE  Kept(s, IF Keep(s, i) THEN Append(x, s[i]) ELSE x, i)
<1>1. s[i] \in STRING
  BY DEF Text
<1>2. PICK m \in Nat : m = Len(x) /\ (m = 0 <=> x = <<>>)
  BY DEF Text
<1>3. \A j \in 1..i : j \in 1..(i - 1) \/ j = i
  OBVIOUS
<1>4. CASE Keep(s, i)
  <2>1. PICK y \in Text : /\ y = Append(x, s[i]) /\ Len(y) = m + 1 /\ y[m + 1] = s[i] /\ y # <<>>
                          /\ \A k \in 1..m : y[k] = x[k]
    <3>1. /\ Append(x, s[i]) \in Text /\ Len(Append(x, s[i])) = Len(x) + 1
          /\ Append(x, s[i])[Len(x) + 1] = s[i] /\ Append(x, s[i]) # <<>>
          /\ \A k \in 1..Len(x) : Append(x, s[i])[k] = x[k]
      BY <1>1, Appending DEF Text
    <3>. QED BY <1>2, <3>1
  <2>2. ASSUME P!IsSpace(s[i]) PROVE i < n /\ ~P!IsSpace(s[i + 1]) /\ x # <<>>
    <3>1. i < n /\ ~P!IsSpace(s[i + 1]) /\ \E j \in 1..i : ~P!IsSpace(s[j])
      BY <1>1, <1>4, <2>2 DEF Keep
    <3>2. \E j \in 1..(i - 1) : ~P!IsSpace(s[j])
      BY <1>3, <2>2, <3>1
    <3>. QED BY <3>1, <3>2 DEF Kept
  <2>3. ASSUME NEW k \in 1..(m + 1) PROVE \E j \in 1..i : y[k] = s[j]
    <3>1. CASE k = m + 1
      BY <2>1, <3>1
    <3>2. CASE k \in 1..m
      <4>1. PICK j \in 1..(i - 1) : x[k] = s[j]
        BY <1>2, <3>2 DEF Kept
      <4>. QED BY <2>1, <3>2, <4>1
    <3>. QED BY <3>1, <3>2
  <2>4. \E j \in 1..i : ~P!IsSpace(s[j])
    <3>1. CASE ~P!IsSpace(s[i])
      BY <3>1
    <3>2. CASE P!IsSpace(s[i])
      BY <1>4, <3>2 DEF Keep
    <3>. QED BY <3>1, <3>2
  <2>5. ~P!IsSpace(y[1])
    <3>1. CASE m = 0
      BY <1>2, <2>1, <2>2, <3>1
    <3>2. CASE m # 0
      BY <1>2, <2>1, <3>2 DEF Kept
    <3>. QED BY <3>1, <3>2
  <2>6. ASSUME NEW k \in 1..(m + 1), P!IsSpace(y[k])
        PROVE  IF k = m + 1 THEN i < n /\ ~P!IsSpace(s[i + 1]) ELSE ~P!IsSpace(y[k + 1])
    <3>1. CASE k = m + 1
      BY <2>1, <2>2, <2>6, <3>1
    <3>2. CASE k = m /\ m # 0
      <4>1. P!IsSpace(x[m]) /\ m \in 1..Len(x)
        BY <1>2, <2>1, <2>6, <3>2
      <4>2. ~P!IsSpace(s[(i - 1) + 1])
        BY <1>2, <4>1 DEF Kept
      <4>3. (i - 1) + 1 = i
        OBVIOUS
      <4>. QED BY <2>1, <3>2, <4>2, <4>3
    <3>3. CASE k \in 1..m /\ k # m
      <4>1. P!IsSpace(x[k]) /\ k \in 1..Len(x) /\ k # Len(x) /\ k + 1 \in 1..m
        BY <1>2, <2>1, <2>6, <3>3
      <4>2. ~P!IsSpace(x[k + 1])
        BY <4>1 DEF Kept
      <4>. QED BY <2>1, <3>3, <4>1, <4>2
    <3>. QED BY <3>1, <3>2, <3>3
  <2>7. Kept(s, y, i)
    BY <1>1, <2>1, <2>3, <2>4, <2>5, <2>6 DEF Kept
  <2>. QED BY <1>4, <2>1, <2>7
<1>5. CASE ~Keep(s, i)
  <2>1. P!IsSpace(s[i])
    BY <1>5 DEF Keep
  <2>2. ASSUME NEW k \in 1..m PROVE \E j \in 1..i : x[k] = s[j]
    <3>1. PICK j \in 1..(i - 1) : x[k] = s[j]
      BY <1>2 DEF Kept
    <3>. QED BY <3>1
  <2>3. x = <<>> <=> \A j \in 1..i : P!IsSpace(s[j])
    <3>1. x = <<>> <=> \A j \in 1..(i - 1) : P!IsSpace(s[j])
      BY DEF Kept
    <3>. QED BY <1>3, <2>1, <3>1
  <2>4. ASSUME NEW k \in 1..m, P!IsSpace(x[k]) PROVE k # m /\ ~P!IsSpace(x[k + 1])
    <3>1. (i - 1) + 1 = i
      OBVIOUS
    <3>2. IF k = Len(x) THEN ~P!IsSpace(s[(i - 1) + 1]) ELSE ~P!IsSpace(x[k + 1])
      BY <1>2, <2>4 DEF Kept
    <3>. QED BY <1>2, <2>1, <3>1, <3>2
  <2>5. x # <<>> => ~P!IsSpace(x[1])
    BY DEF Kept
  <2>6. Kept(s, x, i)
    BY <1>2, <2>2, <2>3, <2>4, <2>5 DEF Kept
  <2>. QED BY <1>5, <2>6
<1>. QED BY <1>4, <1>5

\* A name in order is neat, and made of what was typed.
LEMMA NormalIsNeat ==
    ASSUME NEW s \in Text
    PROVE  /\ P!NormalizeName(s) \in Text /\ Neat(P!NormalizeName(s))
           /\ \A k \in 1..Len(P!NormalizeName(s)) : \E j \in 1..Len(s) : P!NormalizeName(s)[k] = s[j]
           /\ Len(s) >= 2 /\ ~P!IsSpace(s[1]) /\ ~P!IsSpace(s[Len(s)]) => Len(P!NormalizeName(s)) >= 2
<1>1. PICK n \in Nat : n = Len(s)
  BY DEF Text
<1>2. PICK f \in [0..n -> Text] :
         /\ f[0] = <<>> /\ P!NormalizeName(s) = f[n]
         /\ \A i \in 1..n : f[i] = IF Keep(s, i) THEN Append(f[i - 1], s[i]) ELSE f[i - 1]
  BY <1>1, Normalizing
<1>. DEFINE T == {i \in Nat : Kept(s, f[i], i)}
<1>3. 0 \in T
  BY <1>2 DEF Kept
<1>4. ASSUME NEW i \in 1..n, i - 1 \in T PROVE i \in T
  <2>1. i - 1 \in 0..n /\ i \in Nat
    OBVIOUS
  <2>2. f[i - 1] \in Text /\ Kept(s, f[i - 1], i - 1)
    BY <1>4, <2>1
  <2>3. Kept(s, IF Keep(s, i) THEN Append(f[i - 1], s[i]) ELSE f[i - 1], i)
    BY <1>1, <2>1, <2>2, KeptMore
  <2>4. Kept(s, f[i], i)
    BY <1>2, <2>3
  <2>. QED BY <2>1, <2>4
<1>. HIDE DEF T
<1>5. \A i \in 0..n : Kept(s, f[i], i)
  <2>1. 0..n \subseteq T
    BY <1>3, <1>4, AllAlong
  <2>. QED BY <2>1 DEF T
<1>6. PICK x \in Text : x = P!NormalizeName(s) /\ x = f[n] /\ Kept(s, x, n)
  BY <1>2, <1>5
<1>7. PICK m \in Nat : m = Len(x) /\ (m # 0 => x # <<>>)
  BY DEF Text
<1>8. Neat(x)
  <2>1. ASSUME NEW k \in 1..m, P!IsSpace(x[k]) PROVE k > 1 /\ k < m /\ ~P!IsSpace(x[k + 1])
    <3>1. ~P!IsSpace(x[1])
      BY <1>6, <1>7 DEF Kept
    <3>2. k # m /\ ~P!IsSpace(x[k + 1])
      BY <1>1, <1>6, <1>7, <2>1 DEF Kept
    <3>. QED BY <2>1, <3>1, <3>2
  <2>. QED BY <1>7, <2>1 DEF Neat
<1>9. \A k \in 1..Len(x) : \E j \in 1..Len(s) : x[k] = s[j]
  BY <1>1, <1>6 DEF Kept
<1>10. ASSUME n >= 2, ~P!IsSpace(s[1]), ~P!IsSpace(s[n]) PROVE Len(x) >= 2
  <2>1. n - 1 \in 0..n /\ 1 \in 1..(n - 1) /\ n \in 1..n
    BY <1>10
  <2>2. PICK y \in Text : y = f[n - 1] /\ Kept(s, y, n - 1)
    BY <1>5, <2>1
  <2>3. y # <<>>
    BY <1>10, <2>1, <2>2 DEF Kept
  <2>4. Keep(s, n)
    BY <1>10 DEF Keep
  <2>5. x = Append(y, s[n])
    BY <1>2, <1>6, <2>1, <2>2, <2>4
  <2>6. Len(y) \in Nat /\ Len(y) # 0
    BY <2>3 DEF Text
  <2>7. Len(x) = Len(y) + 1
    BY <2>5 DEF Text
  <2>. QED BY <2>6, <2>7
<1>. QED BY <1>1, <1>6, <1>8, <1>9, <1>10

\* A neat name is in order already.
LEMMA NeatIsNormal ==
    ASSUME NEW s \in Text, Neat(s)
    PROVE  P!NormalizeName(s) = s
<1>1. PICK n \in Nat : n = Len(s)
  BY DEF Text
<1>2. PICK f \in [0..n -> Text] :
         /\ f[0] = <<>> /\ P!NormalizeName(s) = f[n]
         /\ \A i \in 1..n : f[i] = IF Keep(s, i) THEN Append(f[i - 1], s[i]) ELSE f[i - 1]
  BY <1>1, Normalizing
<1>3. ASSUME NEW i \in 1..n PROVE Keep(s, i)
  <2>1. CASE P!IsSpace(s[i])
    <3>1. i > 1 /\ i < n /\ ~P!IsSpace(s[i + 1])
      BY <1>1, <2>1 DEF Neat
    <3>2. ~P!IsSpace(s[1]) /\ 1 \in 1..i
      BY <1>1, <1>3, <3>1 DEF Neat
    <3>. QED BY <1>1, <3>1, <3>2 DEF Keep
  <2>2. CASE ~P!IsSpace(s[i])
    BY <2>2 DEF Keep
  <2>. QED BY <2>1, <2>2
<1>. DEFINE T == {i \in Nat : f[i] = SubSeq(s, 1, i)}
<1>4. 0 \in T
  BY <1>2 DEF Text
<1>5. ASSUME NEW i \in 1..n, i - 1 \in T PROVE i \in T
  <2>1. f[i] = Append(SubSeq(s, 1, i - 1), s[i])
    BY <1>2, <1>3, <1>5
  <2>2. Append(SubSeq(s, 1, i - 1), s[i]) = SubSeq(s, 1, i)
    <3>1. s \in Seq(STRING) /\ i \in 1..Len(s)
      BY <1>1 DEF Text
    <3>. QED BY <3>1
  <2>. QED BY <2>1, <2>2
<1>. HIDE DEF T
<1>6. 0..n \subseteq T
  BY <1>4, <1>5, AllAlong
<1>7. f[n] = SubSeq(s, 1, n)
  BY <1>6 DEF T
<1>8. SubSeq(s, 1, n) = s
  BY <1>1 DEF Text
<1>. QED BY <1>2, <1>7, <1>8

\* The least and the greatest of some numbers up to n.
LEMMA Ends ==
    ASSUME NEW n \in Nat, NEW K \in SUBSET (0..n), K # {}
    PROVE  /\ P!Min(K) \in K /\ \A k \in K : P!Min(K) <= k
           /\ P!Max(K) \in K /\ \A k \in K : P!Max(K) >= k
<1>1. \E m \in K : \A k \in K : m <= k
  <2>1. K \in SUBSET Nat
    OBVIOUS
  <2>2. PICK m \in K : \A k \in K : ~(k < m)
    BY <2>1, LeastOf
  <2>. QED BY <2>1, <2>2
<1>2. \E m \in K : \A k \in K : m >= k
  <2>. DEFINE J == {j \in 0..n : n - j \in K}
  <2>1. J \in SUBSET Nat /\ \E k : k \in J
    <3>1. PICK k \in K : k \in 0..n
      OBVIOUS
    <3>2. n - k \in J
      BY <3>1
    <3>3. J \in SUBSET Nat
      OBVIOUS
    <3>. QED BY <3>2, <3>3, Zenon
  <2>2. PICK j \in J : \A i \in J : ~(i < j)
    BY <2>1, LeastOf
  <2>3. ASSUME NEW k \in K PROVE n - j >= k
    <3>1. n - k \in J /\ k \in 0..n
      OBVIOUS
    <3>2. ~(n - k < j) /\ j \in 0..n
      BY <2>2, <3>1
    <3>. QED BY <3>1, <3>2
  <2>. QED BY <2>3
<1>. QED BY <1>1, <1>2 DEF P!Min, P!Max

\* What TrimSpace leaves begins and ends with no space; a neat name it leaves alone.
LEMMA Trimming ==
    ASSUME NEW s \in Text
    PROVE  /\ P!TrimSpace(s) \in Text
           /\ P!TrimSpace(s) # <<>> =>
                 ~P!IsSpace(P!TrimSpace(s)[1]) /\ ~P!IsSpace(P!TrimSpace(s)[Len(P!TrimSpace(s))])
           /\ Neat(s) => P!TrimSpace(s) = s
<1>1. PICK n \in Nat : n = Len(s) /\ DOMAIN s = 1..n /\ s \in Seq(STRING)
  BY DEF Text
<1>. DEFINE K == {i \in 1..n : ~P!IsSpace(s[i])}
<1>2. PICK a, b : a = P!Min(K \cup {n + 1}) /\ b = P!Max(K \cup {0})
  OBVIOUS
<1>3. P!TrimSpace(s) = SubSeq(s, a, b)
  BY <1>1, <1>2 DEF P!TrimSpace
<1>4. /\ a \in K \cup {n + 1} /\ \A k \in K : a <= k
      /\ b \in K \cup {0} /\ \A k \in K : b >= k
  <2>. DEFINE I == K \cup {n + 1}
              J == K \cup {0}
  <2>1. I \in SUBSET (0..(n + 1)) /\ I # {} /\ n + 1 \in Nat
    OBVIOUS
  <2>2. J \in SUBSET (0..n) /\ J # {}
    OBVIOUS
  <2>3. P!Min(I) \in I /\ \A k \in I : P!Min(I) <= k
    <3>. HIDE DEF I
    <3>. QED BY <2>1, Ends
  <2>4. P!Max(J) \in J /\ \A k \in J : P!Max(J) >= k
    <3>. HIDE DEF J
    <3>. QED BY <2>2, Ends
  <2>. HIDE DEF K
  <2>. QED BY <1>2, <2>3, <2>4
<1>5. CASE K = {}
  <2>1. a = n + 1 /\ b = 0
    BY <1>4, <1>5
  <2>2. SubSeq(s, n + 1, 0) = <<>>
    BY <1>1
  <2>3. Neat(s) => s = <<>>
    <3>1. ASSUME Neat(s), n # 0 PROVE FALSE
      <4>1. 1 \in 1..n
        BY <3>1
      <4>2. ~P!IsSpace(s[1])
        BY <1>1, <3>1, <4>1 DEF Neat
      <4>. QED BY <1>5, <4>1, <4>2
    <3>. QED BY <1>1, <3>1
  <2>4. <<>> \in Text
    BY DEF Text
  <2>. QED BY <1>3, <2>1, <2>2, <2>3, <2>4
<1>6. CASE K # {}
  <2>1. a \in K /\ b \in K /\ a \in 1..n /\ b \in 1..n /\ a <= b
    BY <1>4, <1>6
  <2>2. PICK t : t = SubSeq(s, a, b)
    OBVIOUS
  <2>3. t \in Seq(STRING) /\ Len(t) = b - a + 1 /\ \A i \in 1..(b - a + 1) : t[i] = s[a + i - 1]
    BY <1>1, <2>1, <2>2
  <2>4. t[1] = s[a] /\ t[Len(t)] = s[b]
    <3>1. 1 \in 1..(b - a + 1) /\ b - a + 1 \in 1..(b - a + 1) /\ a + 1 - 1 = a
          /\ a + (b - a + 1) - 1 = b
      BY <2>1
    <3>. QED BY <2>3, <3>1
  <2>5. ~P!IsSpace(t[1]) /\ ~P!IsSpace(t[Len(t)])
    BY <2>1, <2>4
  <2>6. ASSUME Neat(s) PROVE t = s
    <3>1. 1 \in K /\ n \in K
      <4>1. 1 \in 1..n /\ n \in 1..n
        BY <2>1
      <4>2. ~P!IsSpace(s[1]) /\ ~P!IsSpace(s[n])
        BY <1>1, <2>6, <4>1 DEF Neat
      <4>. QED BY <4>1, <4>2
    <3>2. a = 1 /\ b = n
      BY <1>4, <2>1, <3>1
    <3>. QED BY <1>1, <2>2, <3>2
  <2>. QED BY <1>3, <2>2, <2>3, <2>5, <2>6 DEF Text
<1>. QED BY <1>5, <1>6

\* Case is all that Fold changes, and addresses have none.
LEMMA Folding ==
    ASSUME NEW s \in Text
    PROVE  /\ P!Fold(s) \in Text /\ Len(P!Fold(s)) = Len(s)
           /\ \A i \in 1..Len(s) : P!Fold(s)[i] \in Addresses \/ s[i] \in Addresses => P!Fold(s)[i] = s[i]
<1>1. PICK n \in Nat : n = Len(s) /\ DOMAIN s = 1..n /\ \A i \in 1..n : s[i] \in STRING
  BY DEF Text
<1>2. ASSUME NEW i \in 1..n
      PROVE  LET c == IF s[i] \in DOMAIN Lower THEN Lower[s[i]] ELSE s[i]
             IN  c \in STRING /\ (c \in Addresses \/ s[i] \in Addresses => c = s[i])
  BY <1>1, PromptAssumption
<1>3. PICK f : f = P!Fold(s) /\ f = [i \in 1..n |-> IF s[i] \in DOMAIN Lower THEN Lower[s[i]] ELSE s[i]]
  BY <1>1 DEF P!Fold
<1>4. f \in Seq(STRING) /\ Len(f) = n
  BY <1>2, <1>3
<1>5. \A i \in 1..n : f[i] \in Addresses \/ s[i] \in Addresses => f[i] = s[i]
  BY <1>2, <1>3
<1>. QED BY <1>1, <1>3, <1>4, <1>5 DEF Text

\* A text that stands somewhere in another.
LEMMA StandsIn ==
    ASSUME NEW q \in Text, NEW t \in Text, NEW d \in Nat, d + Len(q) <= Len(t),
           \A k \in 1..Len(q) : t[d + k] = q[k]
    PROVE  P!IsInfix(q, t)
<1>1. PICK m \in Nat, n \in Nat : m = Len(q) /\ n = Len(t) /\ q \in Seq(STRING) /\ t \in Seq(STRING)
  BY DEF Text
<1>2. SubSeq(t, d + 1, d + m) = q
  <2>1. PICK u : u = SubSeq(t, d + 1, d + m)
    OBVIOUS
  <2>2. u \in Seq(STRING) /\ Len(u) = m /\ \A k \in 1..m : u[k] = t[d + k]
    BY <1>1, <2>1
  <2>3. \A k \in 1..m : u[k] = q[k]
    BY <1>1, <2>2
  <2>4. u = [k \in 1..m |-> u[k]] /\ q = [k \in 1..m |-> q[k]]
    BY <1>1, <2>2
  <2>5. u = q
    BY <2>3, <2>4
  <2>. QED BY <2>1, <2>5
<1>3. d \in 0..(n - m)
  BY <1>1
<1>. QED BY <1>1, <1>2, <1>3 DEF P!IsInfix

\* The better tiers are parts of the last one.
LEMMA Tiers ==
    ASSUME NEW q \in Text, NEW t \in Text
    PROVE  P!IsExact(q, t) \/ P!IsPrefix(q, t) \/ P!IsSuffix(q, t) => P!IsInfix(q, t)
<1>1. PICK m \in Nat, n \in Nat : m = Len(q) /\ n = Len(t) /\ q \in Seq(STRING) /\ t \in Seq(STRING)
  BY DEF Text
<1>2. CASE P!IsExact(q, t)
  <2>1. q = t
    BY <1>2 DEF P!IsExact
  <2>. QED BY <1>1, <2>1, StandsIn
<1>3. CASE P!IsPrefix(q, t)
  <2>1. m <= n /\ SubSeq(q, 1, m) = SubSeq(t, 1, m)
    BY <1>1, <1>3 DEF P!IsPrefix
  <2>2. \A k \in 1..m : SubSeq(q, 1, m)[k] = q[k] /\ SubSeq(t, 1, m)[k] = t[k]
    BY <1>1, <2>1
  <2>3. \A k \in 1..m : t[0 + k] = q[k]
    BY <2>1, <2>2
  <2>. QED BY <1>1, <2>1, <2>3, StandsIn
<1>4. CASE P!IsSuffix(q, t)
  <2>. DEFINE rq == P!Reverse(q)
              rt == P!Reverse(t)
  <2>1. /\ rq \in Seq(STRING) /\ Len(rq) = m /\ \A k \in 1..m : rq[k] = q[m - k + 1]
        /\ rt \in Seq(STRING) /\ Len(rt) = n /\ \A k \in 1..n : rt[k] = t[n - k + 1]
    <3>1. rq = [k \in 1..m |-> q[m - k + 1]] /\ rt = [k \in 1..n |-> t[n - k + 1]]
      BY <1>1 DEF P!Reverse
    <3>2. /\ \A k \in 1..m : m - k + 1 \in 1..m /\ q[m - k + 1] \in STRING
          /\ \A k \in 1..n : n - k + 1 \in 1..n /\ t[n - k + 1] \in STRING
      BY <1>1
    <3>. QED BY <3>1, <3>2
  <2>2. P!IsPrefix(rq, rt)
    BY <1>4 DEF P!IsSuffix
  <2>. HIDE DEF rq, rt
  <2>3. m <= n /\ SubSeq(rq, 1, m) = SubSeq(rt, 1, m)
    BY <2>1, <2>2 DEF P!IsPrefix
  <2>4. \A k \in 1..m : SubSeq(rq, 1, m)[k] = rq[k] /\ SubSeq(rt, 1, m)[k] = rt[k]
    BY <2>1, <2>3
  <2>5. ASSUME NEW k \in 1..m PROVE t[(n - m) + k] = q[k]
    <3>0. m - k + 1 \in 1..m
      OBVIOUS
    <3>1. PICK j \in 1..m : j = m - k + 1
      BY <3>0
    <3>5. m - j + 1 = k /\ n - j + 1 = (n - m) + k
      BY <3>1
    <3>2. j \in 1..n
      BY <2>3
    <3>3. rq[j] = rt[j]
      BY <2>3, <2>4
    <3>4. q[m - j + 1] = t[n - j + 1]
      BY <2>1, <3>2, <3>3
    <3>. QED BY <3>4, <3>5
  <2>6. n - m \in Nat /\ (n - m) + m <= n
    BY <1>1, <2>3
  <2>. QED BY <1>1, <2>5, <2>6, StandsIn
<1>. QED BY <1>2, <1>3, <1>4

-----------------------------------------------------------------------------
(***************************************************************************)
(* Which device a word finds.                                              *)
(***************************************************************************)
\* The devices are numbered, and each has its addresses.
LEMMA DeviceTable ==
    /\ Len(Devices) \in Nat /\ P!All = 1..Len(Devices)
    /\ \A d \in P!All : /\ Devices[d].ieee \in IEEEs \cup {P!NoIEEE}
                        /\ \E s \in DOMAIN NodeOf : NodeOf[s] = Devices[d].node
                        /\ Devices[d].endpoints \in Seq([id : Nat, input : SUBSET Text])
<1>. DEFINE Row == [ieee : IEEEs \cup {P!NoIEEE}, node : {NodeOf[s] : s \in DOMAIN NodeOf},
                    endpoints : Seq([id : Nat, input : SUBSET Text])]
<1>1. Devices \in Seq(Row)
  BY PromptAssumption
<1>2. \A r \in Row : /\ r.ieee \in IEEEs \cup {P!NoIEEE}
                     /\ \E s \in DOMAIN NodeOf : NodeOf[s] = r.node
                     /\ r.endpoints \in Seq([id : Nat, input : SUBSET Text])
  OBVIOUS
<1>. HIDE DEF Row
<1>3. Len(Devices) \in Nat /\ P!All = 1..Len(Devices) /\ \A d \in P!All : Devices[d] \in Row
  BY <1>1 DEF P!All
<1>. QED BY <1>2, <1>3

\* The first that is not empty of some groups of devices, if it holds one alone.
LEMMA Picking ==
    ASSUME NEW g \in Seq(SUBSET P!All)
    PROVE  /\ P!Pick(g) \in P!All \cup {0, -1}
           /\ P!Pick(g) \in P!All =>
                 \E i \in 1..Len(g) : g[i] = {P!Pick(g)} /\ \A j \in 1..(i - 1) : g[j] = {}
           /\ \A d \in P!All : \A i \in 1..Len(g) :
                 g[i] = {d} /\ (\A j \in 1..(i - 1) : g[j] = {}) => P!Pick(g) = d
<1>1. PICK n \in Nat : n = Len(g) /\ \A i \in 1..n : g[i] \in SUBSET P!All
  OBVIOUS
<1>. DEFINE K == {i \in 1..n : g[i] # {}}
<1>2. PICK i : i = IF K # {} THEN P!Min(K) ELSE 0
  OBVIOUS
<1>3. P!Pick(g) = IF i = 0 THEN 0
                  ELSE IF \E d \in g[i] : g[i] = {d} THEN CHOOSE d \in g[i] : TRUE ELSE -1
  BY <1>1, <1>2 DEF P!Pick, P!SelectInSeq, P!noDevice, P!ambiguous
<1>4. CASE K = {}
  <2>1. P!Pick(g) = 0
    BY <1>2, <1>3, <1>4
  <2>2. 0 \notin P!All
    BY DeviceTable
  <2>3. \A j \in 1..n : g[j] = {}
    BY <1>4
  <2>. QED BY <1>1, <2>1, <2>2, <2>3
<1>5. CASE K # {}
  <2>1. i \in K /\ \A k \in K : i <= k
    <3>1. K \in SUBSET (0..n)
      OBVIOUS
    <3>. HIDE DEF K
    <3>. QED BY <1>2, <1>5, <3>1, Ends
  <2>2. i \in 1..n /\ g[i] # {} /\ \A j \in 1..(i - 1) : g[j] = {}
    <3>1. ASSUME NEW j \in 1..(i - 1), g[j] # {} PROVE FALSE
      <4>1. j \in K
        BY <2>1, <3>1
      <4>. QED BY <2>1, <4>1
    <3>. QED BY <2>1, <3>1
  <2>4. CASE \E d \in g[i] : g[i] = {d}
    <3>1. PICK d : g[i] = {d}
      BY <2>4
    <3>2. P!Pick(g) = d /\ d \in P!All
      BY <1>1, <1>3, <2>2, <2>4, <3>1
    <3>3. ASSUME NEW e \in P!All, NEW k \in 1..n, g[k] = {e}, \A j \in 1..(k - 1) : g[j] = {}
          PROVE  k = i
      <4>1. ~(i \in 1..(k - 1)) /\ ~(k \in 1..(i - 1))
        BY <2>2, <3>3
      <4>. QED BY <2>2, <4>1
    <3>. QED BY <1>1, <2>2, <3>1, <3>2, <3>3
  <2>5. CASE ~\E d \in g[i] : g[i] = {d}
    <3>1. P!Pick(g) = -1 /\ -1 \notin P!All
      BY <1>3, <2>2, <2>5, DeviceTable
    <3>2. ASSUME NEW e \in P!All, NEW k \in 1..n, g[k] = {e}, \A j \in 1..(k - 1) : g[j] = {}
          PROVE  FALSE
      <4>1. ~(i \in 1..(k - 1)) /\ ~(k \in 1..(i - 1))
        BY <2>2, <3>2
      <4>2. k = i
        BY <2>2, <4>1
      <4>. QED BY <2>5, <3>2, <4>2
    <3>. QED BY <1>1, <3>1, <3>2
  <2>. QED BY <2>4, <2>5
<1>. QED BY <1>4, <1>5

\* An address finds a device of the pool that has it, or none.
At(d, q) == IF P!IsNode(q) THEN Devices[d].node = NodeOf[q[1]] ELSE <<Devices[d].ieee>> = q

LEMMA AddressFinds ==
    ASSUME NEW pool \in SUBSET P!All, NEW q
    PROVE  /\ P!ByAddress(pool, q) = 0 \/ (P!ByAddress(pool, q) \in pool /\ At(P!ByAddress(pool, q), q))
           /\ (\A d \in pool : ~At(d, q)) => P!ByAddress(pool, q) = 0
<1>1. PICK n \in Nat : n = Len(Devices) /\ P!All = 1..n /\ pool \subseteq 1..n
  BY DeviceTable
<1>. DEFINE K == {d \in pool : At(d, q)}
<1>2. PICK m : m = P!Min(K \cup {n + 1})
  OBVIOUS
<1>3. P!ByAddress(pool, q) = m % (n + 1)
  BY <1>1, <1>2 DEF P!ByAddress, At
<1>4. m \in K \cup {n + 1} /\ \A k \in K : m <= k
  <2>1. K \subseteq 1..n
    BY <1>1
  <2>. HIDE DEF K
  <2>2. K \cup {n + 1} \in SUBSET (0..(n + 1)) /\ K \cup {n + 1} # {} /\ n + 1 \in Nat
    BY <2>1
  <2>. QED BY <1>2, <2>2, Ends
<1>5. CASE m = n + 1
  <2>1. m % (n + 1) = 0
    BY <1>5, SMT
  <2>2. P!ByAddress(pool, q) = 0
    BY <1>3, <2>1
  <2>. QED BY <2>2
<1>6. CASE m \in K
  <2>1. m \in 1..n
    BY <1>1, <1>6
  <2>2. m % (n + 1) = m
    BY <2>1, SMT
  <2>3. P!ByAddress(pool, q) = m
    BY <1>3, <2>2
  <2>. QED BY <1>6, <2>3
<1>. QED BY <1>4, <1>5, <1>6

\* A name that can be looked up: in order, and no address, though it may have one in it.
Fit(name) ==
    /\ Neat(name) /\ ~P!IsNode(name) /\ ~P!IsIEEE(name)
    /\ \A i \in 1..Len(name) : name[i] # P!NoIEEE

\* The names there are: each can be looked up, and is of one device.
NamesInv ==
    /\ names \in [P!All -> Text]
    /\ \A d \in P!All : names[d] # <<>> => Fit(names[d])
    /\ \A d, e \in P!All :
          names[d] # <<>> /\ names[e] # <<>> /\ P!Fold(names[d]) = P!Fold(names[e]) => d = e

\* The devices of the pool a word finds by name, from the best tier to the last.
Exact(pool, f) == {d \in pool : names[d] # <<>> /\ P!IsExact(f, P!Fold(names[d]))}
Front(pool, f) == {d \in pool : names[d] # <<>> /\ P!IsPrefix(f, P!Fold(names[d]))}
Back(pool, f) == {d \in pool : names[d] # <<>> /\ P!IsSuffix(f, P!Fold(names[d]))}
Within(pool, f) == {d \in pool : names[d] # <<>> /\ P!IsInfix(f, P!Fold(names[d]))}

ByName(pool, f) == P!Pick(<<Exact(pool, f), Front(pool, f), Back(pool, f), Within(pool, f)>>)

\* How well a name answers to a word.
Rank(e, f) ==
    IF names[e] = <<>> \/ ~P!IsInfix(f, P!Fold(names[e])) THEN 5
    ELSE IF f = P!Fold(names[e]) THEN 1
    ELSE IF P!IsPrefix(f, P!Fold(names[e])) THEN 2
    ELSE IF P!IsSuffix(f, P!Fold(names[e])) THEN 3 ELSE 4

\* The last tier holds the others.
LEMMA TiersWithin ==
    ASSUME names \in [P!All -> Text], NEW pool \in SUBSET P!All, NEW f \in Text
    PROVE  /\ Exact(pool, f) \subseteq Within(pool, f) /\ Front(pool, f) \subseteq Within(pool, f)
           /\ Back(pool, f) \subseteq Within(pool, f) /\ Within(pool, f) \subseteq pool
<1>1. ASSUME NEW d \in pool
      PROVE  P!IsExact(f, P!Fold(names[d])) \/ P!IsPrefix(f, P!Fold(names[d]))
                \/ P!IsSuffix(f, P!Fold(names[d])) => P!IsInfix(f, P!Fold(names[d]))
  <2>1. names[d] \in Text
    OBVIOUS
  <2>. QED BY <2>1, Folding, Tiers
<1>. QED BY <1>1 DEF Exact, Front, Back, Within

\* What is found by name is in the pool, and answers better to the word than any other.
LEMMA FoundByName ==
    ASSUME names \in [P!All -> Text], NEW pool \in SUBSET P!All, NEW f \in Text,
           ByName(pool, f) \in P!All
    PROVE  /\ ByName(pool, f) \in pool /\ Rank(ByName(pool, f), f) < 5
           /\ \A e \in pool \ {ByName(pool, f)} : Rank(ByName(pool, f), f) < Rank(e, f)
<1>. DEFINE g == <<Exact(pool, f), Front(pool, f), Back(pool, f), Within(pool, f)>>
            d == ByName(pool, f)
<1>1. /\ Exact(pool, f) \subseteq Within(pool, f) /\ Front(pool, f) \subseteq Within(pool, f)
      /\ Back(pool, f) \subseteq Within(pool, f) /\ Within(pool, f) \subseteq pool
  BY TiersWithin
<1>2. /\ g \in Seq(SUBSET P!All) /\ Len(g) = 4
      /\ g[1] = Exact(pool, f) /\ g[2] = Front(pool, f) /\ g[3] = Back(pool, f) /\ g[4] = Within(pool, f)
  BY <1>1
<1>3. PICK i \in 1..Len(g) : g[i] = {P!Pick(g)} /\ \A j \in 1..(i - 1) : g[j] = {}
  <2>. HIDE DEF g
  <2>1. P!Pick(g) \in P!All
    BY DEF ByName, g
  <2>. QED BY <1>2, <2>1, Picking
<1>4. /\ g[i] = {d} /\ i \in {1, 2, 3, 4}
      /\ i > 1 => Exact(pool, f) = {}
      /\ i > 2 => Front(pool, f) = {}
      /\ i > 3 => Back(pool, f) = {}
  <2>1. P!Pick(g) = d
    BY DEF ByName
  <2>. HIDE DEF g, d
  <2>2. i \in {1, 2, 3, 4}
    BY <1>2
  <2>3. (i > 1 => 1 \in 1..(i - 1)) /\ (i > 2 => 2 \in 1..(i - 1)) /\ (i > 3 => 3 \in 1..(i - 1))
    BY <2>2
  <2>. QED BY <1>2, <1>3, <2>1, <2>2, <2>3
<1>. HIDE DEF g, d
<1>5. d \in Within(pool, f) /\ d \in pool
  BY <1>1, <1>2, <1>4
<1>6. \A e \in pool : /\ e \in Within(pool, f) <=> names[e] # <<>> /\ P!IsInfix(f, P!Fold(names[e]))
                      /\ e \in Within(pool, f) =>
                            /\ e \in Exact(pool, f) <=> f = P!Fold(names[e])
                            /\ e \in Front(pool, f) <=> P!IsPrefix(f, P!Fold(names[e]))
                            /\ e \in Back(pool, f) <=> P!IsSuffix(f, P!Fold(names[e]))
  BY DEF Exact, Front, Back, Within, P!IsExact
<1>7. \A e \in pool : Rank(e, f) = IF e \notin Within(pool, f) THEN 5
                                   ELSE IF e \in Exact(pool, f) THEN 1
                                   ELSE IF e \in Front(pool, f) THEN 2
                                   ELSE IF e \in Back(pool, f) THEN 3 ELSE 4
  BY <1>6 DEF Rank
<1>8. Rank(d, f) = i
  BY <1>1, <1>2, <1>4, <1>5, <1>7
<1>9. ASSUME NEW e \in pool \ {d} PROVE i < Rank(e, f)
  BY <1>1, <1>2, <1>4, <1>7
<1>. QED BY <1>4, <1>5, <1>8, <1>9 DEF d

\* The only device of a pool whose name is the word is found by it.
LEMMA FoundExactly ==
    ASSUME NamesInv, NEW pool \in SUBSET P!All, NEW d \in pool, names[d] # <<>>
    PROVE  /\ Exact(pool, P!Fold(names[d])) = {d}
           /\ ByName(pool, P!Fold(names[d])) = d
<1>. DEFINE f == P!Fold(names[d])
            g == <<Exact(pool, f), Front(pool, f), Back(pool, f), Within(pool, f)>>
<1>1. f \in Text /\ names \in [P!All -> Text]
  BY Folding DEF NamesInv
<1>2. Exact(pool, f) = {d}
  BY DEF Exact, P!IsExact, NamesInv
<1>. HIDE DEF f
<1>3. /\ g \in Seq(SUBSET P!All) /\ Len(g) = 4 /\ g[1] = {d}
  <2>1. /\ Exact(pool, f) \subseteq Within(pool, f) /\ Front(pool, f) \subseteq Within(pool, f)
        /\ Back(pool, f) \subseteq Within(pool, f) /\ Within(pool, f) \subseteq pool
    BY <1>1, TiersWithin
  <2>. QED BY <1>2, <2>1
<1>4. 1 \in 1..Len(g) /\ \A j \in 1..(1 - 1) : g[j] = {}
  BY <1>3
<1>5. P!Pick(g) = d
  <2>. HIDE DEF g
  <2>. QED BY <1>3, <1>4, Picking
<1>. QED BY <1>2, <1>5 DEF ByName, f

\* The word a query comes to, once trimmed, put in order and folded.
Sought(query) == P!Fold(P!NormalizeName(P!TrimSpace(query)))

\* What the two resolvers make of a query.
LEMMA Finding ==
    ASSUME NEW pool, NEW query
    PROVE  LET q == P!TrimSpace(query) IN
           /\ P!findDevice(pool, query) =
                 IF q = <<>> THEN 0
                 ELSE IF P!IsNode(q) \/ P!ByAddress(pool, q) # 0 THEN P!ByAddress(pool, q)
                 ELSE ByName(pool, Sought(query))
           /\ P!Resolve(query) =
                 IF q = <<>> THEN 0
                 ELSE IF P!IsNode(q) \/ P!ByAddress(P!All, q) # 0 THEN P!ByAddress(P!All, q)
                 ELSE IF Exact(P!All, Sought(query)) # {} THEN CHOOSE d \in Exact(P!All, Sought(query)) : TRUE
                 ELSE P!Pick(<<Front(P!All, Sought(query)), Within(P!All, Sought(query))>>)
<1>. DEFINE q == P!TrimSpace(query)
            f == Sought(query)
<1>1. P!findDevice(pool, query) =
         IF q = <<>> THEN 0
         ELSE IF P!IsNode(q) \/ P!ByAddress(pool, q) # 0 THEN P!ByAddress(pool, q)
         ELSE ByName(pool, f)
  BY DEF P!findDevice, P!noDevice, P!Named, ByName, Exact, Front, Back, Within, Sought
<1>2. P!Resolve(query) =
         IF q = <<>> THEN 0
         ELSE IF P!IsNode(q) \/ P!ByAddress(P!All, q) # 0 THEN P!ByAddress(P!All, q)
         ELSE IF Exact(P!All, f) # {} THEN CHOOSE d \in Exact(P!All, f) : TRUE
         ELSE P!Pick(<<Front(P!All, f), Within(P!All, f)>>)
  BY DEF P!Resolve, P!noDevice, P!Named, Exact, Front, Within, Sought
<1>. QED BY <1>1, <1>2

\* The word a query comes to is a network address if the query is one, and then the same.
LEMMA SoughtIs ==
    ASSUME NEW query \in Text, P!TrimSpace(query) # <<>>
    PROVE  /\ Sought(query) \in Text
           /\ P!IsNode(P!TrimSpace(query)) => Sought(query) = P!TrimSpace(query)
           /\ P!IsNode(Sought(query)) => Sought(query) = P!TrimSpace(query)
<1>1. PICK q \in Text : q = P!TrimSpace(query) /\ q # <<>> /\ ~P!IsSpace(q[1]) /\ ~P!IsSpace(q[Len(q)])
  BY Trimming
<1>2. PICK m \in Nat : m = Len(q) /\ m # 0
  BY <1>1 DEF Text
<1>3. PICK o \in Text : o = P!NormalizeName(q) /\ (m >= 2 => Len(o) >= 2)
  BY <1>1, <1>2, NormalIsNeat
<1>4. Sought(query) = P!Fold(o)
  BY <1>1, <1>3 DEF Sought
<1>5. P!Fold(o) \in Text /\ Len(P!Fold(o)) = Len(o)
      /\ \A i \in 1..Len(o) : P!Fold(o)[i] \in Addresses \/ o[i] \in Addresses => P!Fold(o)[i] = o[i]
  BY Folding
<1>6. m = 1 => o = q
  <2>1. m = 1 => Neat(q)
    BY <1>1, <1>2 DEF Neat
  <2>. QED BY <1>3, <2>1, NeatIsNormal
<1>7. \A s : s \in Text /\ Len(s) = 1 => s = <<s[1]>> /\ Head(s) = s[1]
  BY DEF Text
<1>8. ASSUME P!IsNode(q) PROVE P!Fold(o) = q
  <2>1. m = 1 /\ q[1] \in Addresses
    BY <1>1, <1>2, <1>7, <1>8 DEF P!IsNode, Addresses
  <2>2. o[1] = q[1] /\ Len(o) = 1 /\ 1 \in 1..Len(o)
    <3>1. o = q
      BY <1>6, <2>1
    <3>2. Len(o) = 1
      BY <1>2, <2>1, <3>1
    <3>. QED BY <3>1, <3>2
  <2>3. P!Fold(o)[1] = q[1] /\ Len(P!Fold(o)) = 1
    BY <1>5, <2>1, <2>2
  <2>. QED BY <1>2, <1>5, <1>7, <2>1, <2>3
<1>9. ASSUME P!IsNode(P!Fold(o)) PROVE P!Fold(o) = q
  <2>1. Len(P!Fold(o)) = 1 /\ P!Fold(o)[1] \in Addresses
    BY <1>5, <1>7, <1>9 DEF P!IsNode, Addresses
  <2>2. m = 1
    BY <1>2, <1>3, <1>5, <2>1
  <2>3. P!Fold(o)[1] = q[1]
    BY <1>2, <1>5, <1>6, <2>1, <2>2
  <2>. QED BY <1>2, <1>5, <1>7, <2>1, <2>2, <2>3
<1>. QED BY <1>1, <1>4, <1>5, <1>8, <1>9

\* The two resolvers agree on what a name finds.
LEMMA ResolversAgree ==
    ASSUME names \in [P!All -> Text], NEW f \in Text, ByName(P!All, f) \in P!All,
           NEW r, r = (IF Exact(P!All, f) # {} THEN CHOOSE d \in Exact(P!All, f) : TRUE
                       ELSE P!Pick(<<Front(P!All, f), Within(P!All, f)>>)),
           r > 0
    PROVE  r = ByName(P!All, f)
<1>. DEFINE g == <<Exact(P!All, f), Front(P!All, f), Back(P!All, f), Within(P!All, f)>>
            h == <<Front(P!All, f), Within(P!All, f)>>
            d == ByName(P!All, f)
<1>1. /\ Exact(P!All, f) \subseteq Within(P!All, f) /\ Front(P!All, f) \subseteq Within(P!All, f)
      /\ Back(P!All, f) \subseteq Within(P!All, f) /\ Within(P!All, f) \subseteq P!All
  BY TiersWithin
<1>2. /\ g \in Seq(SUBSET P!All) /\ Len(g) = 4
      /\ g[1] = Exact(P!All, f) /\ g[2] = Front(P!All, f) /\ g[3] = Back(P!All, f) /\ g[4] = Within(P!All, f)
  BY <1>1
<1>3. h \in Seq(SUBSET P!All) /\ Len(h) = 2 /\ h[1] = Front(P!All, f) /\ h[2] = Within(P!All, f)
  BY <1>1
<1>4. d = P!Pick(g)
  BY DEF ByName
<1>. HIDE DEF g, h, d
<1>5. PICK i \in 1..Len(g) : g[i] = {d} /\ \A j \in 1..(i - 1) : g[j] = {}
  <2>1. P!Pick(g) \in P!All
    BY <1>4 DEF d
  <2>. QED BY <1>2, <1>4, <2>1, Picking
<1>6. /\ i \in {1, 2, 3, 4}
      /\ i > 1 => Exact(P!All, f) = {}
      /\ i > 2 => Front(P!All, f) = {}
      /\ i > 3 => Back(P!All, f) = {}
  <2>2. i \in {1, 2, 3, 4}
    BY <1>2
  <2>3. (i > 1 => 1 \in 1..(i - 1)) /\ (i > 2 => 2 \in 1..(i - 1)) /\ (i > 3 => 3 \in 1..(i - 1))
    BY <2>2
  <2>. QED BY <1>2, <1>5, <2>2, <2>3
<1>7. CASE i = 1
  <2>1. Exact(P!All, f) = {d}
    BY <1>2, <1>5, <1>7
  <2>. QED BY <2>1 DEF d
<1>8. CASE i # 1
  <2>1. r = P!Pick(h) /\ r \in P!All
    <3>1. r = P!Pick(h)
      BY <1>6, <1>8 DEF h
    <3>2. P!Pick(h) \in P!All \/ P!Pick(h) = 0 \/ P!Pick(h) = -1
      BY <1>3, Picking
    <3>3. ~(0 > 0) /\ ~(-1 > 0)
      OBVIOUS
    <3>. QED BY <3>1, <3>2, <3>3
  <2>2. PICK k \in 1..Len(h) : h[k] = {r} /\ \A j \in 1..(k - 1) : h[j] = {}
    BY <1>3, <2>1, Picking
  <2>3. (k = 1 /\ Front(P!All, f) = {r}) \/ (k = 2 /\ Within(P!All, f) = {r} /\ Front(P!All, f) = {})
    <3>1. k \in {1, 2} /\ (k = 2 => 1 \in 1..(k - 1))
      BY <1>3
    <3>. QED BY <1>3, <2>2, <3>1
  <2>4. d \in Within(P!All, f) /\ (i = 2 => Front(P!All, f) = {d})
    BY <1>1, <1>2, <1>5, <1>6
  <2>5. d = r
    BY <1>6, <1>8, <2>3, <2>4
  <2>. QED BY <2>5 DEF d
<1>. QED BY <1>7, <1>8

\* A device that is found has the address that was typed, or answers better to the word,
\* by its name, than any other of the pool; Resolve then finds no other.
Said(d, pool, query) ==
    \/ <<Devices[d].ieee>> = P!TrimSpace(query)
    \/ P!IsNode(Sought(query)) /\ Devices[d].node = NodeOf[Sought(query)[1]]
    \/ /\ ~P!IsNode(Sought(query))
       /\ Rank(d, Sought(query)) < 5
       /\ \A e \in pool \ {d} : Rank(d, Sought(query)) < Rank(e, Sought(query))
       /\ pool = P!All /\ P!Resolve(query) > 0 => P!Resolve(query) = d

LEMMA FoundIsSaid ==
    ASSUME NamesInv, NEW pool \in SUBSET P!All, NEW query \in Text,
           NEW d, d = P!findDevice(pool, query), d \in P!All
    PROVE  d \in pool /\ Said(d, pool, query)
<1>. DEFINE q == P!TrimSpace(query)
            f == Sought(query)
<1>1. 0 \notin P!All /\ names \in [P!All -> Text]
  BY DeviceTable DEF NamesInv
<1>2. /\ q # <<>>
      /\ d = IF P!IsNode(q) \/ P!ByAddress(pool, q) # 0 THEN P!ByAddress(pool, q) ELSE ByName(pool, f)
  BY <1>1, Finding
<1>3. /\ f \in Text
      /\ P!IsNode(q) => f = q
      /\ P!IsNode(f) => f = q
  BY <1>2, SoughtIs
<1>4. CASE P!IsNode(q) \/ P!ByAddress(pool, q) # 0
  <2>1. d = P!ByAddress(pool, q)
    BY <1>2, <1>4
  <2>2. d \in pool /\ At(d, q)
    <3>. HIDE DEF q
    <3>. QED BY <1>1, <2>1, AddressFinds
  <2>3. CASE P!IsNode(q)
    BY <1>3, <2>2, <2>3 DEF At, Said
  <2>4. CASE ~P!IsNode(q)
    BY <2>2, <2>4 DEF At, Said
  <2>. QED BY <2>3, <2>4
<1>5. CASE ~(P!IsNode(q) \/ P!ByAddress(pool, q) # 0)
  <2>1. d = ByName(pool, f)
    BY <1>2, <1>5
  <2>2. d \in pool /\ Rank(d, f) < 5 /\ \A e \in pool \ {d} : Rank(d, f) < Rank(e, f)
    <3>. HIDE DEF f
    <3>. QED BY <1>1, <1>3, <2>1, FoundByName
  <2>3. ~P!IsNode(f)
    BY <1>3, <1>5
  <2>4. ASSUME pool = P!All, P!Resolve(query) > 0 PROVE P!Resolve(query) = d
    <3>1. P!Resolve(query) =
            IF Exact(P!All, f) # {} THEN CHOOSE e \in Exact(P!All, f) : TRUE
            ELSE P!Pick(<<Front(P!All, f), Within(P!All, f)>>)
      BY <1>2, <1>5, <2>4, Finding
    <3>. HIDE DEF f
    <3>. QED BY <1>1, <1>3, <2>1, <2>4, <3>1, ResolversAgree
  <2>. QED BY <2>2, <2>3, <2>4 DEF Said
<1>. QED BY <1>4, <1>5

\* A word that the name of a device is finds it, among any devices.
LEMMA NameFinds ==
    ASSUME NamesInv, NEW d \in P!All, names[d] # <<>>
    PROVE  /\ \A pool \in SUBSET P!All : d \in pool => P!findDevice(pool, names[d]) = d
           /\ P!Resolve(names[d]) = d
<1>1. PICK t \in Text : t = names[d] /\ t # <<>> /\ Neat(t) /\ Fit(t)
  BY DEF NamesInv, Fit
<1>2. P!TrimSpace(t) = t /\ Sought(t) = P!Fold(t)
  <2>1. P!TrimSpace(t) = t
    BY <1>1, Trimming
  <2>2. P!NormalizeName(t) = t
    BY <1>1, NeatIsNormal
  <2>. QED BY <2>1, <2>2 DEF Sought
<1>3. ~P!IsNode(t)
  BY <1>1 DEF Fit
<1>4. ASSUME NEW e \in P!All PROVE ~At(e, t)
  <2>1. ASSUME <<Devices[e].ieee>> = t PROVE FALSE
    <3>1. Len(t) = 1 /\ t[1] = Devices[e].ieee
      BY <2>1
    <3>2. Devices[e].ieee \in IEEEs \cup {P!NoIEEE}
      BY DeviceTable
    <3>3. 1 \in 1..Len(t) /\ Head(t) = t[1]
      BY <3>1 DEF Text
    <3>. QED BY <1>1, <3>1, <3>2, <3>3 DEF Fit, P!IsIEEE
  <2>. QED BY <1>3, <2>1 DEF At
<1>5. \A pool \in SUBSET P!All : P!ByAddress(pool, t) = 0
  BY <1>4, AddressFinds
<1>6. \A pool \in SUBSET P!All : d \in pool => Exact(pool, P!Fold(t)) = {d} /\ ByName(pool, P!Fold(t)) = d
  BY <1>1, FoundExactly
<1>7. ASSUME NEW pool \in SUBSET P!All, d \in pool PROVE P!findDevice(pool, t) = d
  BY <1>1, <1>2, <1>3, <1>5, <1>6, <1>7, Finding
<1>8. P!Resolve(t) = d
  <2>1. Exact(P!All, P!Fold(t)) = {d} /\ P!ByAddress(P!All, t) = 0
    BY <1>5, <1>6
  <2>2. P!Resolve(t) = CHOOSE e \in Exact(P!All, P!Fold(t)) : TRUE
    BY <1>1, <1>2, <1>3, <2>1, Finding
  <2>. QED BY <2>1, <2>2
<1>. QED BY <1>1, <1>7, <1>8

\* A name reaches its device, under every cluster the device has.
LEMMA NamesReach ==
    ASSUME NamesInv
    PROVE  P!NameReaches
<1>. SUFFICES ASSUME NEW d \in P!All, names[d] # <<>>
              PROVE  /\ P!findDevice(P!All, names[d]) = d /\ P!Resolve(names[d]) = d
                     /\ \A scope \in UNION {Devices[d].endpoints[i].input : i \in DOMAIN Devices[d].endpoints} :
                           P!resolveDevice(names[d], scope) = d
  BY DEF P!NameReaches
<1>1. 0 \notin P!All
  BY DeviceTable
<1>2. P!findDevice(P!All, names[d]) = d /\ P!Resolve(names[d]) = d
  BY NameFinds
<1>3. ASSUME NEW scope \in UNION {Devices[d].endpoints[i].input : i \in DOMAIN Devices[d].endpoints}
      PROVE  P!resolveDevice(names[d], scope) = d
  <2>1. d \in P!withCluster(scope) /\ P!withCluster(scope) \in SUBSET P!All
    BY <1>3 DEF P!withCluster, P!Has
  <2>2. P!findDevice(P!withCluster(scope), names[d]) = d
    BY <2>1, NameFinds
  <2>. QED BY <1>1, <1>2, <2>2 DEF P!resolveDevice, P!noDevice
<1>. QED BY <1>2, <1>3

\* What is found for a cluster is said so of those that carry it, or of all devices.
LEMMA ResolvedIsSaid ==
    ASSUME NamesInv, NEW arg \in Text, NEW scope, NEW d, d = P!resolveDevice(arg, scope), d \in P!All
    PROVE  Said(d, IF d \in P!withCluster(scope) THEN P!withCluster(scope) ELSE P!All, arg)
<1>1. PICK W \in SUBSET P!All : W = P!withCluster(scope)
  BY DEF P!withCluster
<1>2. d = P!findDevice(W, arg) \/ d = P!findDevice(P!All, arg)
  BY <1>1 DEF P!resolveDevice
<1>3. CASE d = P!findDevice(W, arg)
  BY <1>1, <1>3, FoundIsSaid
<1>4. CASE d = P!findDevice(P!All, arg)
  <2>1. Said(d, P!All, arg)
    BY <1>4, FoundIsSaid
  <2>2. W = P!All \/ W # P!All
    OBVIOUS
  <2>3. Said(d, W, arg)
    BY <2>1 DEF Said
  <2>. QED BY <1>1, <2>1, <2>3
<1>. QED BY <1>2, <1>3, <1>4

-----------------------------------------------------------------------------
(***************************************************************************)
(* The words of a line.                                                    *)
(***************************************************************************)
\* A word of a line: its text, and where it stands.
WordAt == [text : Text, start : Nat, end : Nat]

\* Its parts, and a word made of them.
LEMMA WordParts ==
    /\ \A w \in WordAt : w.text \in Text /\ w.start \in Nat /\ w.end \in Nat
    /\ \A t \in Text : \A m, n \in Nat : [text |-> t, start |-> m, end |-> n] \in WordAt
  BY DEF WordAt

\* What has been read of a line.
Read == {a \in [words : Seq(WordAt), word : BOOLEAN, open : BOOLEAN, at : Nat] :
            /\ a.word => a.words # <<>>
            /\ \A k \in 1..Len(a.words) : a.words[k].start <= a.at}

\* What is read of a line is so after one character more.
LEMMA ReadMore ==
    ASSUME NEW a \in Read, NEW c \in STRING
    PROVE  P!Reading(a, c) \in Read /\ P!Reading(a, c).at = a.at + 1
<1>1. /\ a \in [words : Seq(WordAt), word : BOOLEAN, open : BOOLEAN, at : Nat]
      /\ a.words \in Seq(WordAt) /\ a.word \in BOOLEAN /\ a.open \in BOOLEAN /\ a.at \in Nat
      /\ a.word => a.words # <<>>
      /\ \A k \in 1..Len(a.words) : a.words[k].start <= a.at
  BY DEF Read
<1>2. CASE ~a.open /\ P!IsSpace(c)
  <2>1. PICK b : b = P!Reading(a, c)
    OBVIOUS
  <2>2. b = [a EXCEPT !.word = FALSE, !.at = @ + 1]
    BY <1>2, <2>1 DEF P!Reading
  <2>3. /\ b \in [words : Seq(WordAt), word : BOOLEAN, open : BOOLEAN, at : Nat]
        /\ b.words = a.words /\ b.word = FALSE /\ b.at = a.at + 1
    <3>. DEFINE X == Seq(WordAt)
    <3>1. a \in [words : X, word : BOOLEAN, open : BOOLEAN, at : Nat] /\ a.at + 1 \in Nat
      BY <1>1
    <3>. HIDE DEF X
    <3>2. PICK o \in BOOLEAN, m \in Nat : o = FALSE /\ m = a.at + 1
      BY <3>1
    <3>3. b = [a EXCEPT !.word = o, !.at = m]
      BY <2>2, <3>2
    <3>4. b.words = a.words /\ b.word = o /\ b.at = m
      BY <3>1, <3>3
    <3>5. b \in [words : X, word : BOOLEAN, open : BOOLEAN, at : Nat]
      BY <3>1, <3>3
    <3>. QED BY <3>2, <3>4, <3>5, Zenon DEF X
  <2>4. \A k \in 1..Len(b.words) : b.words[k].start <= b.at
    <3>1. ASSUME NEW k \in 1..Len(a.words) PROVE a.words[k].start <= a.at + 1
      <4>1. a.words[k].start \in Nat /\ a.words[k].start <= a.at
        BY <1>1, WordParts
      <4>. QED BY <1>1, <4>1
    <3>. QED BY <2>3, <3>1
  <2>. QED BY <2>1, <2>3, <2>4 DEF Read
<1>3. CASE ~(~a.open /\ P!IsSpace(c))
  <2>1. PICK u : u = IF a.word THEN a.words ELSE Append(a.words, [text |-> <<>>, start |-> a.at, end |-> 0])
    OBVIOUS
  <2>2. u \in Seq(WordAt) /\ Len(u) \in Nat \ {0} /\ \A k \in 1..Len(u) : u[k].start <= a.at
    <3>1. CASE a.word
      BY <1>1, <2>1, <3>1
    <3>2. CASE ~a.word
      <4>1. PICK w \in WordAt : w = [text |-> <<>>, start |-> a.at, end |-> 0] /\ w.start = a.at
        <5>1. <<>> \in Text /\ 0 \in Nat
          BY DEF Text
        <5>. QED BY <1>1, <5>1, WordParts
      <4>2. u = Append(a.words, w)
        BY <2>1, <3>2, <4>1
      <4>3. /\ u \in Seq(WordAt) /\ Len(u) = Len(a.words) + 1 /\ Len(a.words) \in Nat
            /\ u[Len(u)] = w /\ \A k \in 1..Len(a.words) : u[k] = a.words[k]
        BY <1>1, <4>2, Appending
      <4>4. ASSUME NEW k \in 1..Len(u) PROVE u[k].start <= a.at
        <5>1. k \in 1..Len(a.words) \/ k = Len(u)
          BY <4>3
        <5>. QED BY <1>1, <4>1, <4>3, <5>1
      <4>. QED BY <4>3, <4>4
    <3>. QED BY <3>1, <3>2
  <2>3. PICK n \in Nat \ {0} : n = Len(u) /\ n \in 1..n
    BY <2>2
  <2>4. PICK w \in WordAt : w = u[n]
    BY <2>2, <2>3
  <2>5. PICK v : v = [w EXCEPT !.text = IF P!IsQuote(c) THEN @ ELSE Append(@, c), !.end = a.at + 1]
    OBVIOUS
  <2>6. v \in WordAt /\ v.start = w.start
    <3>1. PICK t \in Text : t = w.text
      BY WordParts
    <3>2. PICK y \in Text : y = IF P!IsQuote(c) THEN t ELSE Append(t, c)
      BY Appending DEF Text
    <3>3. v = [w EXCEPT !.text = y, !.end = a.at + 1]
      BY <2>5, <3>1, <3>2
    <3>4. a.at + 1 \in Nat
      BY <1>1
    <3>. QED BY <3>3, <3>4 DEF WordAt
  <2>7. PICK x : x = [u EXCEPT ![n] = v]
    OBVIOUS
  <2>8. x \in Seq(WordAt) /\ Len(x) = n /\ \A k \in 1..n : x[k] = IF k = n THEN v ELSE u[k]
    BY <2>2, <2>3, <2>6, <2>7
  <2>9. P!Reading(a, c) = [words |-> x, word |-> TRUE, open |-> a.open # P!IsQuote(c), at |-> a.at + 1]
    <3>1. x = [u EXCEPT ![n].text = IF P!IsQuote(c) THEN @ ELSE Append(@, c), ![n].end = a.at + 1]
      BY <2>2, <2>3, <2>4, <2>5, <2>7 DEF WordAt
    <3>. QED BY <1>3, <2>1, <2>3, <3>1 DEF P!Reading
  <2>10. \A k \in 1..Len(x) : x[k].start <= a.at + 1
    <3>1. ASSUME NEW k \in 1..n PROVE x[k].start <= a.at + 1
      <4>1. x[k].start = u[k].start /\ u[k].start \in Nat /\ u[k].start <= a.at
        BY <2>2, <2>3, <2>4, <2>6, <2>8, WordParts
      <4>. QED BY <1>1, <4>1
    <3>. QED BY <2>8, <3>1
  <2>11. x # <<>>
    BY <2>3, <2>8
  <2>12. PICK o \in BOOLEAN : o = (a.open # P!IsQuote(c))
    OBVIOUS
  <2>13. PICK b : b = [words |-> x, word |-> TRUE, open |-> o, at |-> a.at + 1]
    OBVIOUS
  <2>14. /\ b \in [words : Seq(WordAt), word : BOOLEAN, open : BOOLEAN, at : Nat]
         /\ b.words = x /\ b.at = a.at + 1
    BY <1>1, <2>8, <2>13
  <2>15. b \in Read
    BY <2>10, <2>11, <2>14 DEF Read
  <2>. QED BY <2>9, <2>12, <2>13, <2>14, <2>15
<1>. QED BY <1>2, <1>3

\* A line is read character by character.
LEMMA Tokenized ==
    ASSUME NEW s \in Text
    PROVE  /\ P!tokenize(s) \in Seq(WordAt)
           /\ \A k \in 1..Len(P!tokenize(s)) : P!tokenize(s)[k].start \in 0..Len(s)
<1>. DEFINE n == Len(s)
            c0 == [words |-> <<>>, word |-> FALSE, open |-> FALSE, at |-> 0]
            G(i, x) == P!Reading(x, s[i])
            F == [p \in Nat \X Read |-> IF p[1] \in 1..n THEN G(p[1], p[2]) ELSE p[2]]
            Is(g) == g = [i \in 0..n |-> IF i = 0 THEN c0 ELSE G(i, g[i - 1])]
            h == CHOOSE g : Is(g)
<1>0. n \in Nat /\ c0 \in Read /\ c0.at = 0
  <2>1. n \in Nat
    BY DEF Text
  <2>2. /\ c0 \in [words : Seq(WordAt), word : BOOLEAN, open : BOOLEAN, at : Nat]
        /\ c0.words = <<>> /\ c0.word = FALSE /\ c0.at = 0
    OBVIOUS
  <2>. HIDE DEF c0
  <2>3. \A k \in 1..Len(c0.words) : c0.words[k].start <= c0.at
    BY <2>2
  <2>. QED BY <2>1, <2>2, <2>3 DEF Read
<1>1. ASSUME NEW i \in 1..n, NEW x \in Read PROVE G(i, x) \in Read /\ G(i, x).at = x.at + 1
  <2>1. s[i] \in STRING
    BY DEF Text
  <2>. QED BY <2>1, ReadMore
<1>2. P!tokenize(s) = h[n].words
  BY DEF P!tokenize
<1>. HIDE DEF G, n, c0
<1>3. F \in [Nat \X Read -> Read]
  BY <1>1
<1>4. \E g : Is(g)
  <2>1. PICK f \in [0..n -> Read] : Recursive(f, n, c0, F)
    <3>. HIDE DEF F
    <3>. QED BY <1>0, <1>3, Recursion
  <2>2. ASSUME NEW i \in 0..n PROVE f[i] = IF i = 0 THEN c0 ELSE G(i, f[i - 1])
    <3>1. f[i] = IF i = 0 THEN c0 ELSE F[<<i, f[i - 1]>>]
      <4>. HIDE DEF F
      <4>. QED BY <2>1 DEF Recursive
    <3>2. i # 0 => i \in 1..n /\ i \in Nat /\ f[i - 1] \in Read
      BY <1>0
    <3>. QED BY <3>1, <3>2
  <2>. QED BY <2>2
<1>. HIDE DEF Is, F
<1>5. Is(h)
  BY <1>4
<1>. HIDE DEF h
<1>6. \A i \in 0..n : h[i] = IF i = 0 THEN c0 ELSE G(i, h[i - 1])
  <2>. DEFINE d == [i \in 0..n |-> IF i = 0 THEN c0 ELSE G(i, h[i - 1])]
  <2>1. h = d
    BY <1>5 DEF Is
  <2>2. \A i \in 0..n : d[i] = IF i = 0 THEN c0 ELSE G(i, h[i - 1])
    OBVIOUS
  <2>. HIDE DEF d
  <2>. QED BY <2>1, <2>2
<1>. DEFINE T == {i \in Nat : h[i] \in Read /\ h[i].at = i}
<1>7. 0 \in T
  BY <1>0, <1>6
<1>8. ASSUME NEW i \in 1..n, i - 1 \in T PROVE i \in T
  <2>1. i \in 0..n /\ i # 0 /\ i \in Nat /\ (i - 1) + 1 = i /\ h[i - 1] \in Read /\ h[i - 1].at = i - 1
    BY <1>0, <1>8
  <2>2. h[i] = G(i, h[i - 1])
    BY <1>6, <2>1
  <2>3. h[i] \in Read /\ h[i].at = h[i - 1].at + 1
    BY <1>1, <2>1, <2>2
  <2>. QED BY <2>1, <2>3
<1>. HIDE DEF T
<1>9. h[n] \in Read /\ h[n].at = n
  <2>1. 0..n \subseteq T
    BY <1>0, <1>7, <1>8, AllAlong
  <2>2. n \in T
    BY <1>0, <2>1
  <2>. QED BY <2>2 DEF T
<1>10. PICK u \in Seq(WordAt) : u = P!tokenize(s) /\ \A k \in 1..Len(u) : u[k].start <= n
  BY <1>2, <1>9 DEF Read
<1>11. \A k \in 1..Len(u) : u[k].start \in 0..n
  <2>1. \A k \in 1..Len(u) : u[k].start \in Nat
    BY WordParts
  <2>. QED BY <1>0, <1>10, <2>1
<1>. QED BY <1>10, <1>11 DEF n

\* What words say.
LEMMA TextsOf ==
    ASSUME NEW u \in Seq(WordAt)
    PROVE  P!Texts(u) \in Seq(Text) /\ Len(P!Texts(u)) = Len(u)
<1>1. DOMAIN u = 1..Len(u) /\ Len(u) \in Nat /\ \A i \in 1..Len(u) : u[i].text \in Text
  BY WordParts
<1>2. P!Texts(u) = [i \in 1..Len(u) |-> u[i].text]
  BY <1>1 DEF P!Texts
<1>. QED BY <1>1, <1>2

\* The word at the cursor.
LEMMA AtCursor ==
    ASSUME line \in Text
    PROVE  P!Cursor.start \in 0..Len(line) /\ P!Cursor.before \in Seq(Text)
<1>1. PICK u \in Seq(WordAt) : u = P!tokenize(line) /\ \A k \in 1..Len(u) : u[k].start \in 0..Len(line)
  BY Tokenized
<1>2. PICK n \in Nat : n = Len(u) /\ Len(line) \in Nat
  BY DEF Text
<1>3. P!Cursor = IF n > 0 /\ u[n].end = Len(line)
                 THEN [start |-> u[n].start, text |-> u[n].text, before |-> P!Texts(P!Front(u))]
                 ELSE [start |-> Len(line), text |-> <<>>, before |-> P!Texts(u)]
  BY <1>1, <1>2 DEF P!Cursor
<1>4. P!Texts(u) \in Seq(Text)
  BY TextsOf
<1>5. CASE n > 0
  <2>1. P!Front(u) \in Seq(WordAt)
    BY <1>2, <1>5 DEF P!Front
  <2>2. P!Texts(P!Front(u)) \in Seq(Text) /\ n \in 1..n
    BY <1>5, <2>1, TextsOf
  <2>. QED BY <1>1, <1>2, <1>3, <1>4, <2>2
<1>6. CASE ~(n > 0)
  BY <1>2, <1>3, <1>4, <1>6
<1>. QED BY <1>5, <1>6

-----------------------------------------------------------------------------
(***************************************************************************)
(* What Enter makes of a line.                                             *)
(***************************************************************************)
\* What has been parsed of the words after a command.
Taken == [args : Seq(Text), done : BOOLEAN, value : BOOLEAN, bad : BOOLEAN]

\* A word more.
LEMMA ParseMore ==
    ASSUME NEW row, NEW a \in Taken, NEW w \in Text
    PROVE  P!Parsing(row, a, w) \in Taken
<1>. DEFINE X == Seq(Text)
<1>1. PICK more \in X : more = Append(a.args, w)
  <2>1. PICK u \in Seq(Text) : u = a.args
    BY DEF Taken
  <2>. QED BY <2>1, Appending
<1>2. a \in [args : X, done : BOOLEAN, value : BOOLEAN, bad : BOOLEAN]
  BY DEF Taken
<1>3. PICK yes \in BOOLEAN, no \in BOOLEAN : yes = TRUE /\ no = FALSE
  OBVIOUS
<1>4. PICK val \in BOOLEAN : val = (P!FlagName(w) \in row.valued)
  <2>. DEFINE v == P!FlagName(w) \in row.valued
  <2>1. CASE v
    <3>1. TRUE = v
      BY <2>1, Zenon
    <3>. QED BY <3>1, Zenon
  <2>2. CASE ~v
    <3>1. FALSE = v
      BY <2>2
    <3>. QED BY <3>1, Zenon
  <2>. QED BY <2>1, <2>2, Zenon
<1>5. PICK bad \in BOOLEAN :
         bad = (a.bad \/ P!FlagName(w) \notin row.valued \cup row.switches
                      \/ P!IsPrefix(<<"-", "-", "-">>, w))
  <2>. DEFINE v == \/ a.bad \/ P!FlagName(w) \notin row.valued \cup row.switches
                   \/ P!IsPrefix(<<"-", "-", "-">>, w)
  <2>1. CASE v
    <3>1. TRUE = v
      BY <2>1, Zenon
    <3>. QED BY <3>1, Zenon
  <2>2. CASE ~v
    <3>1. FALSE = v
      BY <2>2, Zenon
    <3>. QED BY <3>1, Zenon
  <2>. QED BY <2>1, <2>2, Zenon
<1>. HIDE DEF X
<1>6. /\ [a EXCEPT !.args = more] \in [args : X, done : BOOLEAN, value : BOOLEAN, bad : BOOLEAN]
      /\ [a EXCEPT !.value = no] \in [args : X, done : BOOLEAN, value : BOOLEAN, bad : BOOLEAN]
      /\ [a EXCEPT !.done = yes] \in [args : X, done : BOOLEAN, value : BOOLEAN, bad : BOOLEAN]
      /\ [a EXCEPT !.value = val, !.bad = bad] \in [args : X, done : BOOLEAN, value : BOOLEAN, bad : BOOLEAN]
      /\ [a EXCEPT !.args = more, !.done = yes] \in [args : X, done : BOOLEAN, value : BOOLEAN, bad : BOOLEAN]
  BY <1>2
<1>7. /\ [a EXCEPT !.args = more] = [a EXCEPT !.args = Append(@, w)]
      /\ [a EXCEPT !.args = more, !.done = yes] = [a EXCEPT !.args = Append(@, w), !.done = TRUE]
      /\ [a EXCEPT !.value = no] = [a EXCEPT !.value = FALSE]
      /\ [a EXCEPT !.done = yes] = [a EXCEPT !.done = TRUE]
  BY <1>1, <1>2, <1>3
<1>8. [a EXCEPT !.value = val, !.bad = bad] =
         [a EXCEPT !.value = P!FlagName(w) \in row.valued,
                   !.bad = @ \/ P!FlagName(w) \notin row.valued \cup row.switches
                             \/ P!IsPrefix(<<"-", "-", "-">>, w)]
  BY <1>4, <1>5
<1>9. \/ P!Parsing(row, a, w) = [a EXCEPT !.args = more]
      \/ P!Parsing(row, a, w) = [a EXCEPT !.value = no]
      \/ P!Parsing(row, a, w) = [a EXCEPT !.done = yes]
      \/ P!Parsing(row, a, w) = [a EXCEPT !.value = val, !.bad = bad]
      \/ P!Parsing(row, a, w) = [a EXCEPT !.args = more, !.done = yes]
  BY <1>7, <1>8, Zenon DEF P!Parsing
<1>. QED BY <1>6, <1>9, Zenon DEF Taken, X

\* The arguments of a command are texts.
LEMMA ParsedText ==
    ASSUME NEW row, NEW words \in Seq(Text)
    PROVE  P!Parse(row, words).args \in Seq(Text)
<1>. DEFINE n == Len(words)
            c0 == [args |-> <<>>, done |-> FALSE, value |-> FALSE, bad |-> FALSE]
            G(i, x) == P!Parsing(row, x, words[i])
            F == [p \in Nat \X Taken |-> IF p[1] \in 1..n THEN G(p[1], p[2]) ELSE p[2]]
            Is(g) == g = [i \in 0..n |-> IF i = 0 THEN c0 ELSE G(i, g[i - 1])]
            h == CHOOSE g : Is(g)
<1>0. n \in Nat /\ c0 \in Taken
  BY DEF Taken
<1>1. ASSUME NEW i \in 1..n, NEW x \in Taken PROVE G(i, x) \in Taken
  <2>1. words[i] \in Text
    OBVIOUS
  <2>. QED BY <2>1, ParseMore
<1>2. P!Parse(row, words) = h[n]
  BY DEF P!Parse
<1>. HIDE DEF G, n, c0
<1>3. F \in [Nat \X Taken -> Taken]
  <2>. HIDE DEF Taken
  <2>. QED BY <1>1
<1>4. \E g : Is(g)
  <2>1. PICK f \in [0..n -> Taken] : Recursive(f, n, c0, F)
    <3>. HIDE DEF F
    <3>. QED BY <1>0, <1>3, Recursion
  <2>2. ASSUME NEW i \in 0..n PROVE f[i] = IF i = 0 THEN c0 ELSE G(i, f[i - 1])
    <3>1. f[i] = IF i = 0 THEN c0 ELSE F[<<i, f[i - 1]>>]
      <4>. HIDE DEF F
      <4>. QED BY <2>1 DEF Recursive
    <3>2. i # 0 => i \in 1..n /\ i \in Nat /\ f[i - 1] \in Taken
      BY <1>0
    <3>. QED BY <3>1, <3>2
  <2>. QED BY <2>2
<1>. HIDE DEF Is, F
<1>5. Is(h)
  BY <1>4
<1>. HIDE DEF h
<1>6. \A i \in 0..n : h[i] = IF i = 0 THEN c0 ELSE G(i, h[i - 1])
  <2>. DEFINE d == [i \in 0..n |-> IF i = 0 THEN c0 ELSE G(i, h[i - 1])]
  <2>1. h = d
    BY <1>5 DEF Is
  <2>2. \A i \in 0..n : d[i] = IF i = 0 THEN c0 ELSE G(i, h[i - 1])
    OBVIOUS
  <2>. HIDE DEF d
  <2>. QED BY <2>1, <2>2
<1>. DEFINE T == {i \in Nat : h[i] \in Taken}
<1>7. 0 \in T
  BY <1>0, <1>6
<1>8. ASSUME NEW i \in 1..n, i - 1 \in T PROVE i \in T
  <2>1. i \in 0..n /\ i # 0 /\ i \in Nat /\ h[i - 1] \in Taken
    BY <1>0, <1>8
  <2>2. h[i] = G(i, h[i - 1])
    BY <1>6, <2>1
  <2>. QED BY <1>1, <2>1, <2>2
<1>. HIDE DEF T
<1>9. h[n] \in Taken
  <2>1. 0..n \subseteq T
    BY <1>0, <1>7, <1>8, AllAlong
  <2>2. n \in T
    BY <1>0, <2>1
  <2>. QED BY <2>2 DEF T
<1>. QED BY <1>2, <1>9 DEF Taken

\* A line that is carried out on a device is so on the one that its first argument finds.
LEMMA RunIs ==
    ASSUME NEW words, P!Run(words).ok, P!Run(words).device # 0
    PROVE  LET row == CommandTable[words[1]]
               args == P!Parse(row, Tail(words)).args
               scope == IF "cluster" \in P!Range(row.shape) THEN P!Fold(P!At(row, "cluster", args))
                        ELSE row.scope
           IN  /\ words # <<>> /\ words[1] \in DOMAIN CommandTable /\ ~(Len(args) < row.least)
               /\ P!Run(words).device = P!resolveDevice(args[1], scope)
               /\ P!Run(words).device \in P!All
<1>. DEFINE row == CommandTable[words[1]]
            args == P!Parse(row, Tail(words)).args
            scope == IF "cluster" \in P!Range(row.shape) THEN P!Fold(P!At(row, "cluster", args))
                     ELSE row.scope
            clusters == IF "cluster" \in P!Range(row.shape) THEN <<P!Fold(P!At(row, "cluster", args))>>
                        ELSE row.lights
            t == P!Target(args[1], scope, clusters)
<1>1. /\ words # <<>> /\ words[1] \in DOMAIN CommandTable /\ ~(Len(args) < row.least)
      /\ P!Run(words) = [t EXCEPT !.args = Tail(args)]
  <2>1. P!Run(words) # P!None
    BY DEF P!None
  <2>. HIDE DEF P!None, P!Target
  <2>. QED BY <2>1, Zenon DEF P!Run
<1>. HIDE DEF clusters, scope, args, row
<1>2. \/ t.device = P!resolveDevice(args[1], scope) /\ P!resolveDevice(args[1], scope) \in P!All
         /\ DOMAIN t = {"ok", "device", "node", "endpoint", "args"}
      \/ t = P!None \/ (DOMAIN t = DOMAIN P!None /\ t.device = 0)
  BY DEF P!Target, P!None
<1>. HIDE DEF t
<1>3. DOMAIN P!None = {"ok", "device", "node", "endpoint", "args"} /\ P!None.device = 0
  BY DEF P!None
<1>4. DOMAIN t = {"ok", "device", "node", "endpoint", "args"}
  BY <1>2, <1>3
<1>5. P!Run(words).device = t.device
  BY <1>1, <1>4
<1>6. t.device = P!resolveDevice(args[1], scope) /\ P!resolveDevice(args[1], scope) \in P!All
  BY <1>2, <1>3, <1>5
<1>. QED BY <1>1, <1>5, <1>6 DEF scope, args, row

\* A word that a line is carried out on says which device is meant.
LEMMA RunIsSaid ==
    ASSUME NamesInv, line \in Text, ran = P!Run(P!Words)
    PROVE  P!NeverGuesses
<1>. SUFFICES ASSUME ran.ok, ran.device # 0
              PROVE  Said(ran.device, IF ran.device \in P!withCluster(P!Scope)
                                      THEN P!withCluster(P!Scope) ELSE P!All, P!Argument)
  BY DEF P!NeverGuesses, Said, Sought, Rank
<1>1. P!Words \in Seq(Text)
  BY Tokenized, TextsOf DEF P!Words
<1>2. /\ P!Words # <<>> /\ P!Words[1] \in DOMAIN CommandTable
      /\ P!Command = CommandTable[P!Words[1]]
  BY RunIs DEF P!Command
<1>3. PICK args \in Seq(Text) : args = P!Parse(P!Command, Tail(P!Words)).args
  <2>1. Tail(P!Words) \in Seq(Text)
    BY <1>1, <1>2
  <2>. QED BY <2>1, ParsedText
<1>4. ~(Len(args) < P!Command.least)
  BY <1>2, <1>3, RunIs
<1>5. P!Argument = args[1] /\ args[1] \in Text
  <2>1. P!Command.least \in Nat \ {0}
    BY <1>2, PromptAssumption
  <2>2. 1 \in 1..Len(args)
    BY <1>4, <2>1
  <2>. QED BY <1>3, <2>2 DEF P!Argument
<1>6. ran.device = P!resolveDevice(P!Argument, P!Scope) /\ ran.device \in P!All
  BY <1>2, RunIs, Zenon DEF P!Argument, P!Scope
<1>. QED BY <1>5, <1>6, ResolvedIsSaid

-----------------------------------------------------------------------------
(***************************************************************************)
(* What Tab puts on a line, and what the names and the line always are.    *)
(***************************************************************************)
\* A symbol is a text, and texts one after another are one.
LEMMA Symbol ==
    /\ \A c \in STRING : <<c>> \in Text
    /\ \A s, t \in Text : s \o t \in Text
<1>1. ASSUME NEW X PROVE (\A c \in X : <<c>> \in Seq(X)) /\ \A s, t \in Seq(X) : s \o t \in Seq(X)
  OBVIOUS
<1>. QED BY <1>1, Zenon DEF Text

\* The signs that Tab puts around words are texts.
LEMMA Signs == P!Dash \in Text /\ P!Quote \in Text /\ P!Space \in Text
  BY PromptAssumption, Zenon

\* The word that stands for a device.
LEMMA DeviceWord ==
    ASSUME names \in [P!All -> Text], NEW d \in P!All
    PROVE  P!deviceWord(d) \in Text
<1>1. Devices[d].ieee # P!NoIEEE => <<Devices[d].ieee>> \in Text
  <2>1. Devices[d].ieee # P!NoIEEE => Devices[d].ieee \in STRING
    BY DeviceTable, PromptAssumption DEF Addresses
  <2>. QED BY <2>1, Symbol
<1>2. <<CHOOSE s \in DOMAIN NodeOf : NodeOf[s] = Devices[d].node>> \in Text
  <2>1. PICK s : s = CHOOSE x \in DOMAIN NodeOf : NodeOf[x] = Devices[d].node
    OBVIOUS
  <2>2. s \in DOMAIN NodeOf
    BY <2>1, DeviceTable
  <2>3. s \in STRING
    BY <2>2, PromptAssumption DEF Addresses
  <2>. QED BY <2>1, <2>3, Symbol
<1>3. names[d] \in Text
  OBVIOUS
<1>. QED BY <1>1, <1>2, <1>3 DEF P!deviceWord

\* What is offered for an argument is text.
LEMMA OfferedText ==
    ASSUME names \in [P!All -> Text], NEW row, NEW args
    PROVE  P!Offered(row, args) \subseteq Text
<1>. DEFINE cluster == P!Fold(P!At(row, "cluster", args))
            kind == P!kindAt(row, Len(args))
            attribute == P!Fold(P!Last(args))
<1>1. \/ P!Offered(row, args) = P!deviceCandidates(row.scope)
      \/ P!Offered(row, args) = {c \in DOMAIN Clusters : P!Knows(row, args, c)}
      \/ /\ cluster \in DOMAIN Clusters
         /\ P!Offered(row, args) = DOMAIN Clusters[cluster] \ P!attributesAt(row, args)
      \/ /\ cluster \in DOMAIN Clusters /\ attribute \in DOMAIN Clusters[cluster]
         /\ P!Offered(row, args) = Clusters[cluster][attribute]
      \/ P!Offered(row, args) = {w \in DOMAIN ActionWords : P!Knows(row, args, ActionWords[w])}
      \/ P!Offered(row, args) = DOMAIN CommandTable
      \/ P!Offered(row, args) = {}
  BY DEF P!Offered
<1>2. P!deviceCandidates(row.scope) \subseteq Text
  <2>1. P!withCluster(row.scope) \subseteq P!All
    BY DEF P!withCluster
  <2>. QED BY <2>1, DeviceWord DEF P!deviceCandidates
<1>. HIDE DEF cluster, attribute
<1>3. /\ DOMAIN Clusters \subseteq Text /\ DOMAIN ActionWords \subseteq Text
      /\ DOMAIN CommandTable \subseteq Text
      /\ cluster \in DOMAIN Clusters =>
            /\ DOMAIN Clusters[cluster] \subseteq Text
            /\ attribute \in DOMAIN Clusters[cluster] => Clusters[cluster][attribute] \subseteq Text
  BY PromptAssumption
<1>. QED BY <1>1, <1>2, <1>3

\* What is offered at the cursor is text.
LEMMA CompleteText ==
    ASSUME names \in [P!All -> Text]
    PROVE  P!complete \subseteq Text
<1>. DEFINE first == P!Cursor.before[1]
            given == P!arguments(CommandTable[first], Tail(P!Cursor.before), P!Cursor.text)
<1>1. DOMAIN CommandTable \subseteq Text
  BY PromptAssumption
<1>2. ASSUME first \in DOMAIN CommandTable PROVE given \subseteq Text
  <2>. DEFINE row == CommandTable[first]
              walk == P!Walk(row, Tail(P!Cursor.before))
  <2>1. P!flagCandidates(row, P!Cursor.text) \subseteq Text
    <3>1. row.switches \cup row.valued \subseteq Text
      BY <1>2, PromptAssumption
    <3>. HIDE DEF row
    <3>2. P!Dash \in Text /\ P!Dash \o P!Dash \in Text
      BY Symbol, Signs
    <3>3. PICK dashes \in Text :
             P!flagCandidates(row, P!Cursor.text) = {dashes \o f : f \in row.switches \cup row.valued}
      BY <3>2 DEF P!flagCandidates
    <3>. QED BY <3>1, <3>3, Symbol
  <2>2. P!Offered(row, walk.args) \subseteq Text
    BY OfferedText
  <2>3. \/ given = {} \/ given = P!flagCandidates(row, P!Cursor.text)
        \/ given = P!Offered(row, walk.args)
    <3>. HIDE DEF first
    <3>. QED BY DEF P!arguments
  <2>. QED BY <2>1, <2>2, <2>3
<1>. HIDE DEF first, given
<1>3. P!complete \subseteq DOMAIN CommandTable \/ P!complete = {}
         \/ (first \in DOMAIN CommandTable /\ P!complete \subseteq given)
  BY DEF P!complete, first, given
<1>. QED BY <1>1, <1>2, <1>3

\* The longest prefix that texts have in common is text.
LEMMA CommonText ==
    ASSUME NEW cs \in SUBSET Text, cs # {}
    PROVE  P!LongestCommonPrefix(cs) \in Text
<1>. DEFINE C == P!CommonPrefixes(cs)
<1>1. PICK c \in cs : c \in Text
  OBVIOUS
<1>2. PICK n \in Nat : n = Len(c)
  BY <1>1 DEF Text
<1>3. \A t \in Text : \A l \in 0..Len(t) : SubSeq(t, 1, l) \in Text
  BY DEF Text
<1>4. C \subseteq Text /\ \A x \in C : Len(x) \in 0..n
  <2>1. ASSUME NEW x \in C PROVE x \in Text /\ P!IsPrefix(x, c)
    <3>1. PICK t \in cs : \E l \in 0..Len(t) : x = SubSeq(t, 1, l)
      BY <2>1 DEF P!CommonPrefixes, P!Prefixes
    <3>2. P!IsPrefix(x, c)
      BY <1>1, <2>1 DEF P!CommonPrefixes
    <3>. QED BY <1>3, <3>1, <3>2
  <2>2. ASSUME NEW x \in C PROVE Len(x) \in 0..n
    <3>1. Len(x) \in Nat
      BY <2>1, <2>2 DEF Text
    <3>2. Len(x) <= n
      BY <1>2, <2>1, <2>2 DEF P!IsPrefix
    <3>. QED BY <3>1, <3>2
  <2>. QED BY <2>1, <2>2
<1>5. <<>> \in C
  <2>1. ASSUME NEW t \in cs PROVE P!IsPrefix(<<>>, t) /\ SubSeq(t, 1, 0) = <<>> /\ 0 \in 0..Len(t)
    <3>1. t \in Seq(STRING)
      BY DEF Text
    <3>. QED BY <3>1 DEF P!IsPrefix
  <2>. QED BY <1>1, <2>1 DEF P!CommonPrefixes, P!Prefixes
<1>. HIDE DEF C
<1>. DEFINE K == {Len(x) : x \in C}
<1>6. \E x \in C : \A y \in C : Len(y) <= Len(x)
  <2>1. K \in SUBSET (0..n) /\ K # {}
    BY <1>4, <1>5
  <2>2. P!Max(K) \in K /\ \A k \in K : P!Max(K) >= k
    <3>. HIDE DEF K
    <3>. QED BY <2>1, Ends
  <2>3. PICK x \in C : Len(x) = P!Max(K)
    BY <2>2
  <2>4. ASSUME NEW y \in C PROVE Len(y) <= Len(x)
    <3>1. Len(y) \in K /\ Len(y) \in 0..n /\ Len(x) \in 0..n
      BY <1>4
    <3>2. Len(x) >= Len(y)
      BY <2>2, <2>3, <3>1
    <3>. QED BY <3>1, <3>2
  <2>. QED BY <2>4
<1>7. P!LongestCommonPrefix(cs) \in C
  BY <1>6 DEF P!LongestCommonPrefix, C
<1>. QED BY <1>4, <1>7

\* The line Tab makes is text.
LEMMA CompletedText ==
    ASSUME line \in Text, NEW cs \in SUBSET Text, cs # {}
    PROVE  P!Completed(cs) \in Text
<1>1. PICK keep \in Text : keep = SubSeq(line, 1, P!Cursor.start)
  <2>1. PICK n \in 0..Len(line) : n = P!Cursor.start
    BY AtCursor
  <2>2. SubSeq(line, 1, n) \in Text
    BY DEF Text
  <2>. QED BY <2>1, <2>2
<1>2. PICK c \in Text : c = CHOOSE x \in cs : TRUE
  OBVIOUS
<1>3. P!quoteWord(c) \in Text
  BY Symbol, Signs DEF P!quoteWord
<1>4. PICK p \in Text : p = P!LongestCommonPrefix(cs)
  BY CommonText
<1>5. P!quotePartial(p, cs) \in Text
  BY Symbol, Signs DEF P!quotePartial
<1>6. keep \o P!quoteWord(c) \o P!Space \in Text /\ keep \o P!quotePartial(p, cs) \in Text
  BY <1>3, <1>5, Symbol, Signs
<1>7. \/ P!Completed(cs) = keep \o P!quoteWord(c) \o P!Space
      \/ P!Completed(cs) = keep \o P!quotePartial(p, cs)
      \/ P!Completed(cs) = line
  BY <1>1, <1>2, <1>4, Zenon DEF P!Completed
<1>. QED BY <1>6, <1>7

\* Names that can be looked up, a line of text, and what it made when Enter was pressed.
PromptInv ==
    /\ NamesInv
    /\ line \in Text
    /\ entered \in BOOLEAN
    /\ entered => \E words : words = P!Words /\ ran = P!Run(words)
    /\ ~entered => ran = P!None

\* The prompt starts without names.
LEMMA PromptStart == P!PromptInit => PromptInv
<1>. SUFFICES ASSUME P!PromptInit PROVE PromptInv
  OBVIOUS
<1>1. names = [d \in P!All |-> <<>>] /\ line \in Text /\ entered = FALSE /\ ran = P!None
  BY PromptAssumption DEF P!PromptInit
<1>2. NamesInv
  <2>1. <<>> \in Text
    BY DEF Text
  <2>. QED BY <1>1, <2>1 DEF NamesInv
<1>. QED BY <1>1, <1>2 DEF PromptInv

\* What `name` accepts can be looked up again: it is in order and is no address.
LEMMA NameAccepted ==
    ASSUME NEW text \in NewNames, P!ValidateName(P!NormalizeName(text))
    PROVE  P!NormalizeName(text) \in Text /\ Fit(P!NormalizeName(text))
<1>1. text \in Text /\ \A i \in DOMAIN text : text[i] # P!NoIEEE
  BY PromptAssumption
<1>2. PICK m \in Nat : m = Len(text) /\ DOMAIN text = 1..m
  BY <1>1 DEF Text
<1>3. PICK n \in Text : /\ n = P!NormalizeName(text) /\ Neat(n)
                        /\ \A k \in 1..Len(n) : \E j \in 1..m : n[k] = text[j]
  BY <1>1, <1>2, NormalIsNeat
<1>4. \A i \in 1..Len(n) : n[i] # P!NoIEEE
  BY <1>1, <1>2, <1>3
<1>5. ~P!IsNode(n) /\ ~P!IsIEEE(n)
  BY <1>3 DEF P!ValidateName
<1>. QED BY <1>3, <1>4, <1>5 DEF Fit

\* A device that is named has a name of its own.
LEMMA Renaming ==
    ASSUME PromptInv, P!SetName
    PROVE  NamesInv'
<1>1. PICK d \in P!All, text \in NewNames :
         /\ text = <<>> \/ (P!ValidateName(P!NormalizeName(text))
                            /\ P!byName(P!Fold(P!NormalizeName(text))) \subseteq {d})
         /\ names' = [names EXCEPT ![d] = P!NormalizeName(text)]
  BY DEF P!SetName
<1>2. /\ names \in [P!All -> Text]
      /\ \A a \in P!All : names[a] # <<>> => Fit(names[a])
      /\ \A a, b \in P!All :
            names[a] # <<>> /\ names[b] # <<>> /\ P!Fold(names[a]) = P!Fold(names[b]) => a = b
  BY DEF PromptInv, NamesInv
<1>3. PICK n \in Text :
         /\ n = P!NormalizeName(text)
         /\ n # <<>> => Fit(n) /\ P!byName(P!Fold(n)) \subseteq {d}
  <2>1. CASE text = <<>>
    <3>1. text \in Text /\ P!NormalizeName(text) \in Text
          /\ \A k \in 1..Len(P!NormalizeName(text)) : \E j \in 1..Len(text) : P!NormalizeName(text)[k] = text[j]
      BY PromptAssumption, NormalIsNeat
    <3>2. PICK x \in Text : x = P!NormalizeName(text) /\ (x # <<>> => 1 \in 1..Len(x))
      BY <3>1 DEF Text
    <3>3. ~\E j : j \in 1..Len(text)
      BY <2>1
    <3>4. x = <<>>
      BY <3>1, <3>2, <3>3
    <3>. QED BY <3>2, <3>4
  <2>2. CASE text # <<>>
    BY <1>1, <2>2, NameAccepted
  <2>. QED BY <2>1, <2>2
<1>4. names' \in [P!All -> Text] /\ \A a \in P!All : names'[a] = IF a = d THEN n ELSE names[a]
  BY <1>1, <1>2, <1>3
<1>5. \A a \in P!All : a # d /\ names[a] # <<>> /\ n # <<>> => P!Fold(names[a]) # P!Fold(n)
  BY <1>3 DEF P!byName
<1>6. ASSUME NEW a \in P!All, NEW b \in P!All, names'[a] # <<>>, names'[b] # <<>>,
             P!Fold(names'[a]) = P!Fold(names'[b])
      PROVE  a = b
  BY <1>2, <1>4, <1>5, <1>6
<1>7. ASSUME NEW a \in P!All, names'[a] # <<>>
      PROVE  Fit(names'[a])
  <2>1. CASE a = d
    BY <1>3, <1>4, <1>7, <2>1
  <2>2. CASE a # d
    BY <1>2, <1>4, <1>7, <2>2
  <2>. QED BY <2>1, <2>2
<1>8. P!All' = P!All
  BY DEF P!All
<1>. QED BY <1>4, <1>6, <1>7, <1>8 DEF NamesInv

\* What words come to depends on the names alone.
LEMMA RunSame ==
    ASSUME names' = names, NEW words
    PROVE  P!Run(words)' = P!Run(words)
<1>1. ASSUME NEW pool, NEW arg PROVE P!findDevice(pool, arg)' = P!findDevice(pool, arg)
  BY DEF P!findDevice, P!Named
<1>2. ASSUME NEW arg, NEW scope PROVE P!resolveDevice(arg, scope)' = P!resolveDevice(arg, scope)
  BY <1>1 DEF P!resolveDevice
<1>3. ASSUME NEW arg, NEW scope, NEW clusters
      PROVE  P!Target(arg, scope, clusters)' = P!Target(arg, scope, clusters)
  <2>1. PICK d : d = P!resolveDevice(arg, scope)
    OBVIOUS
  <2>2. d = P!resolveDevice(arg, scope)'
    BY <1>2, <2>1
  <2>. QED BY <2>1, <2>2 DEF P!Target, P!SelectInSeq, P!Has, P!Endpoint
<1>. QED BY <1>3, Zenon DEF P!Run

\* A step at the prompt keeps the invariant.
LEMMA PromptStep == PromptInv /\ P!PromptNext => PromptInv'
<1>. SUFFICES ASSUME PromptInv, P!PromptNext PROVE PromptInv'
  OBVIOUS
<1>. USE DEF PromptInv
<1>1. CASE P!SetName
  <2>1. NamesInv' /\ line' = line /\ entered' = FALSE /\ ran' = ran /\ ~entered
    BY <1>1, Renaming DEF P!SetName
  <2>. QED BY <2>1
<1>2. CASE P!Tab
  <2>1. /\ names' = names /\ entered' = FALSE /\ ran' = ran /\ ~entered
        /\ P!complete # {} /\ line' = P!Completed(P!complete)
    BY <1>2 DEF P!Tab
  <2>2. line' \in Text
    BY <2>1, CompleteText, CompletedText DEF NamesInv
  <2>. QED BY <2>1, <2>2 DEF NamesInv
<1>3. CASE P!Type
  <2>1. names' = names /\ entered' = FALSE /\ ran' = ran /\ ~entered
    BY <1>3 DEF P!Type
  <2>2. PICK s \in Typed : line' = line \o s
    BY <1>3 DEF P!Type
  <2>3. line' \in Text
    BY <2>2, PromptAssumption, Symbol
  <2>. QED BY <2>1, <2>3 DEF NamesInv
<1>4. CASE P!Enter
  <2>1. PICK words : words = P!Words
    OBVIOUS
  <2>2. names' = names /\ line' = line /\ entered' = TRUE /\ ran' = P!Run(words)
    BY <1>4, <2>1 DEF P!Enter, P!Words
  <2>3. words = P!Words' /\ ran' = P!Run(words)'
    BY <2>1, <2>2, RunSame DEF P!Words
  <2>. QED BY <2>2, <2>3 DEF NamesInv
<1>. QED BY <1>1, <1>2, <1>3, <1>4 DEF P!PromptNext

\* So does a step of another part.
LEMMA PromptIdle == PromptInv /\ UNCHANGED promptVars => PromptInv'
<1>. SUFFICES ASSUME PromptInv, UNCHANGED promptVars PROVE PromptInv'
  OBVIOUS
<1>1. names' = names /\ line' = line /\ entered' = entered /\ ran' = ran
  BY DEF promptVars
<1>2. ASSUME NEW words, words = P!Words, ran = P!Run(words)
      PROVE  words = P!Words' /\ ran' = P!Run(words)'
  BY <1>1, <1>2, RunSame DEF P!Words
<1>. QED BY <1>1, <1>2 DEF PromptInv, NamesInv

\* A line is carried out on a device only if its address or its name was said, and no other
\* answers as well to the word; and a name that was accepted reaches its device, whatever was
\* renamed and whichever resolver is asked (resolveDevice, findDevice, Store.Resolve, SetName).
THEOREM NeverGuessesHolds == PartSpec => []NeverGuesses
<1>1. PartInit => (part = "prompt" => PromptInv)
  BY PromptStart DEF PartInit
<1>2. (part = "prompt" => PromptInv) /\ [PartNext]_partVars => (part = "prompt" => PromptInv)'
  BY PromptStep, PromptIdle DEF PartNext, partVars
<1>3. (part = "prompt" => PromptInv) => NeverGuesses
  <2>1. PromptInv => P!NeverGuesses
    <3>1. entered \/ ~entered
      OBVIOUS
    <3>2. ~entered /\ PromptInv => ran.ok = FALSE
      BY DEF PromptInv, P!None
    <3>. QED BY <3>1, <3>2, RunIsSaid DEF PromptInv, P!NeverGuesses
  <2>2. PromptInv => P!NameReaches
    BY NamesReach DEF PromptInv
  <2>. QED BY <2>1, <2>2 DEF NeverGuesses
<1>. QED BY <1>1, <1>2, <1>3, PTL DEF PartSpec
=============================================================================
