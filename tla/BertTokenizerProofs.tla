------------------------- MODULE BertTokenizerProofs -------------------------
(***************************************************************************)
(* The tokens of a text are those that its words ask for: what the loops   *)
(* of BertTokenizer compute, against what is said of positions.            *)
(***************************************************************************)
EXTENDS BertTokenizer, FiniteSetTheorems, SequenceTheorems, WellFoundedInduction, TLAPS

-----------------------------------------------------------------------------
(* Numbers.                                                                *)

\* A set of numbers that is not empty has a least element: what takes the place of
\* induction below, for the first place where something would fail.
LEMMA LeastNumber ==
    ASSUME NEW S \in SUBSET Nat, S # {}
    PROVE  \E x \in S : \A y \in S : x <= y
<1> DEFINE less == OpToRel(<, Nat)
<1>1. IsWellFoundedOn(less, Nat)
  BY NatLessThanWellFounded
<1>2. PICK x \in S : \A y \in S : ~(<<y, x>> \in less)
  <2> HIDE DEF less
  <2> QED
    BY <1>1, WFMin
<1>3. ASSUME NEW y \in S PROVE x <= y
  <2>1. x \in Nat /\ y \in Nat
    OBVIOUS
  <2>2. y < x => <<y, x>> \in less
    BY <2>1 DEF OpToRel
  <2>3. ~(y < x)
    BY <1>2, <2>2
  <2> QED
    BY <2>1, <2>3
<1> QED
  BY <1>3

LEMMA GreatestNumber ==
    ASSUME NEW m \in Nat, NEW S \in SUBSET (0 .. m), S # {}
    PROVE  Max(S) \in S /\ \A y \in S : y <= Max(S)
<1> DEFINE above == {k \in 0 .. m : \A y \in S : y <= k}
<1>1. m \in above
  OBVIOUS
<1>2. PICK k \in above : \A j \in above : k <= j
  <2>1. above \in SUBSET Nat /\ above # {}
    BY <1>1
  <2> HIDE DEF above
  <2> QED
    BY <2>1, LeastNumber
<1>3. k \in S
  <2> SUFFICES ASSUME k \notin S PROVE FALSE
    OBVIOUS
  <2>1. \A y \in S : y <= k /\ y # k
    OBVIOUS
  <2>2. PICK z \in S : TRUE
    OBVIOUS
  <2>3. k - 1 \in above
    BY <2>1, <2>2
  <2> QED
    BY <1>2, <2>3
<1>4. k \in S /\ \A y \in S : k >= y
  BY <1>3
<1>5. Max(S) \in S /\ \A y \in S : Max(S) >= y
  <2> HIDE DEF above
  <2> QED
    BY <1>4 DEF Max
<1>6. \A y \in S : y \in Nat
  OBVIOUS
<1> QED
  BY <1>5, <1>6

LEMMA LowestNumber ==
    ASSUME NEW S \in SUBSET Nat, S # {}
    PROVE  Min(S) \in S /\ \A y \in S : Min(S) <= y
<1>1. \E x \in S : \A y \in S : x <= y
  BY LeastNumber
<1> QED
  BY <1>1 DEF Min

\* Induction on numbers, for a set: SMT does not prove it.
LEMMA Climb ==
    ASSUME NEW a \in Nat, NEW k \in Nat, NEW good,
           \A n \in a .. k : (\A m \in a .. n - 1 : m \in good) => n \in good
    PROVE  \A n \in a .. k : n \in good
<1> DEFINE bad == {n \in a .. k : n \notin good}
<1>1. bad = {}
  <2> SUFFICES ASSUME bad # {} PROVE FALSE
    OBVIOUS
  <2>1. PICK n \in bad : \A j \in bad : n <= j
    <3>1. bad \in SUBSET Nat
      OBVIOUS
    <3> HIDE DEF bad
    <3> QED
      BY <3>1, LeastNumber
  <2>2. n \in a .. k /\ n \notin good
    OBVIOUS
  <2>3. ASSUME NEW m \in a .. n - 1 PROVE m \in good
    <3>1. m \in a .. k /\ ~(n <= m)
      BY <2>2
    <3>2. m \notin bad
      <4> HIDE DEF bad
      <4> QED
        BY <2>1, <3>1
    <3> QED
      BY <3>1, <3>2
  <2> QED
    BY <2>2, <2>3
<1> QED
  BY <1>1

\* The same from above.
LEMMA Descend ==
    ASSUME NEW k \in Nat, NEW good,
           \A n \in 0 .. k : (\A m \in n + 1 .. k : m \in good) => n \in good
    PROVE  \A n \in 0 .. k : n \in good
<1> DEFINE mirrored == {n \in 0 .. k : k - n \in good}
<1>1. ASSUME NEW n \in 0 .. k, \A m \in 0 .. n - 1 : m \in mirrored PROVE n \in mirrored
  <2>1. k - n \in 0 .. k
    OBVIOUS
  <2>2. ASSUME NEW m \in (k - n) + 1 .. k PROVE m \in good
    <3>1. k - m \in 0 .. n - 1
      OBVIOUS
    <3>2. k - m \in mirrored /\ k - (k - m) = m
      BY <1>1, <3>1
    <3> QED
      BY <3>2
  <2>3. k - n \in good
    BY <2>1, <2>2
  <2> QED
    BY <2>3
<1> HIDE DEF mirrored
<1>2. \A n \in 0 .. k : n \in mirrored
  BY <1>1, Climb
<1>3. ASSUME NEW n \in 0 .. k PROVE n \in good
  <2>1. k - n \in 0 .. k
    OBVIOUS
  <2>2. k - n \in mirrored /\ k - (k - n) = n
    BY <1>2, <2>1
  <2> QED
    BY <2>2 DEF mirrored
<1> QED
  BY <1>3

-----------------------------------------------------------------------------
(* Sequences, under names that the provers leave alone: \o and Append they    *)
(* expand wherever they meet them.                                         *)

Then(s, t) == s \o t
One(x) == <<x>>
Over(s, S) == s \in Seq(S)
Str(s) == \E S : s \in Seq(S)

LEMMA OverStr ==
    ASSUME NEW S, NEW s, Over(s, S)
    PROVE  Str(s)
  BY DEF Over, Str

LEMMA OverMore ==
    ASSUME NEW S, NEW T, NEW s, Over(s, S)
    PROVE  s \in Seq(S \cup T) /\ s \in Seq(T \cup S)
<1>1. Len(s) \in Nat /\ s = [i \in 1 .. Len(s) |-> s[i]] /\ \A i \in 1 .. Len(s) : s[i] \in S
  BY DEF Over
<1> QED
  BY <1>1

LEMMA OverThen ==
    ASSUME NEW S, NEW s, NEW t, Over(s, S), Over(t, S)
    PROVE  Over(Then(s, t), S)
  BY ConcatProperties DEF Over, Then

LEMMA OverOne ==
    ASSUME NEW S, NEW x \in S
    PROVE  Over(One(x), S)
  BY DEF Over, One

LEMMA OverEmpty == \A S : Over(<< >>, S)
  BY EmptySeq DEF Over

LEMMA StrOne == \A x : Str(One(x))
<1> SUFFICES ASSUME NEW x PROVE Str(One(x))
  OBVIOUS
<1>1. One(x) \in Seq({x})
  BY DEF One
<1> QED
  BY <1>1 DEF Str

LEMMA StrEmpty == Str(<< >>)
  BY OverEmpty, OverStr

LEMMA StrThen ==
    ASSUME NEW s, NEW t, Str(s), Str(t)
    PROVE  /\ Str(Then(s, t))
           /\ Len(s) \in Nat /\ Len(t) \in Nat /\ Len(Then(s, t)) = Len(s) + Len(t)
<1>1. PICK S : Over(s, S)
  BY DEF Str, Over
<1>2. PICK T : Over(t, T)
  BY DEF Str, Over
<1>3. s \in Seq(S \cup T) /\ t \in Seq(S \cup T)
  BY <1>1, <1>2, OverMore
<1>4. /\ s \o t \in Seq(S \cup T) /\ Len(s) \in Nat /\ Len(t) \in Nat
      /\ Len(s \o t) = Len(s) + Len(t)
  BY <1>3, ConcatProperties, LenProperties
<1> QED
  BY <1>4 DEF Str, Then

LEMMA ThenAssociative ==
    ASSUME NEW s, NEW t, NEW u, Str(s), Str(t), Str(u)
    PROVE  Then(Then(s, t), u) = Then(s, Then(t, u))
<1>1. PICK S : Over(s, S)
  BY DEF Str, Over
<1>2. PICK T : Over(t, T)
  BY DEF Str, Over
<1>3. PICK U : Over(u, U)
  BY DEF Str, Over
<1> DEFINE V == (S \cup T) \cup U
<1>4. s \in Seq(S \cup T) /\ t \in Seq(S \cup T)
  BY <1>1, <1>2, OverMore
<1>5. s \in Seq(V) /\ t \in Seq(V) /\ u \in Seq(V)
  BY <1>3, <1>4, OverMore DEF Over
<1> HIDE DEF V
<1>6. (s \o t) \o u = s \o (t \o u)
  BY <1>5, ConcatAssociative
<1> QED
  BY <1>6 DEF Then

LEMMA ThenEmpty ==
    ASSUME NEW s, Str(s)
    PROVE  Then(s, << >>) = s /\ Then(<< >>, s) = s
<1>1. PICK S : s \in Seq(S)
  BY DEF Str
<1> QED
  BY <1>1, ConcatEmptySeq DEF Then

-----------------------------------------------------------------------------
(* Sequences of sequences, made flat.                                      *)

\* The first k of them.
Cat(g, k) == FlattenSeq([i \in 1 .. k |-> g[i]])

\* The equation by which FlattenSeq is defined.
Flattens(f, g, k) == f = [i \in 1 .. k |-> IF i = 1 THEN g[i] ELSE f[i - 1] \o g[i]]

LEMMA FlattensOnce ==
    ASSUME NEW k \in Nat, NEW f, NEW h, NEW g, Flattens(f, g, k), Flattens(h, g, k)
    PROVE  f = h
<1> DEFINE bad == {i \in 1 .. k : f[i] # h[i]}
<1>1. bad = {}
  <2> SUFFICES ASSUME bad # {} PROVE FALSE
    OBVIOUS
  <2>1. PICK i \in bad : \A j \in bad : i <= j
    <3>1. bad \in SUBSET Nat
      OBVIOUS
    <3> HIDE DEF bad
    <3> QED
      BY <3>1, LeastNumber
  <2>2. i \in 1 .. k /\ f[i] # h[i]
    OBVIOUS
  <2>3. /\ f[i] = IF i = 1 THEN g[i] ELSE f[i - 1] \o g[i]
        /\ h[i] = IF i = 1 THEN g[i] ELSE h[i - 1] \o g[i]
    BY <2>2 DEF Flattens
  <2>4. i # 1
    BY <2>2, <2>3
  <2>5. i - 1 \in 1 .. k /\ ~(i <= i - 1)
    BY <2>2, <2>4
  <2>6. f[i - 1] = h[i - 1]
    BY <2>1, <2>5
  <2> QED
    BY <2>2, <2>3, <2>6
<1>2. \A i \in 1 .. k : f[i] = h[i]
  BY <1>1
<1>3. f = [i \in 1 .. k |-> f[i]] /\ h = [i \in 1 .. k |-> h[i]]
  BY DEF Flattens
<1> HIDE DEF bad
<1> QED
  BY <1>2, <1>3

LEMMA FlattensExtends ==
    ASSUME NEW k \in Nat, NEW f, NEW g, Flattens(f, g, k)
    PROVE  Flattens([i \in 1 .. k + 1 |-> IF i = k + 1
                                          THEN IF k = 0 THEN g[1] ELSE f[k] \o g[k + 1]
                                          ELSE f[i]],
                    g, k + 1)
<1> DEFINE h == [i \in 1 .. k + 1 |-> IF i = k + 1
                                      THEN IF k = 0 THEN g[1] ELSE f[k] \o g[k + 1]
                                      ELSE f[i]]
<1>1. ASSUME NEW i \in 1 .. k + 1
      PROVE  h[i] = IF i = 1 THEN g[i] ELSE h[i - 1] \o g[i]
  <2>1. CASE i = k + 1
    <3>1. CASE k = 0
      BY <2>1, <3>1
    <3>2. CASE k # 0
      <4>1. i # 1 /\ i - 1 = k /\ k \in 1 .. k + 1 /\ k # k + 1
        BY <2>1, <3>2
      <4>2. h[k] = f[k]
        BY <4>1
      <4> QED
        BY <2>1, <3>2, <4>1, <4>2
    <3> QED
      BY <3>1, <3>2
  <2>2. CASE i # k + 1
    <3>1. i \in 1 .. k
      BY <2>2
    <3>2. h[i] = f[i]
      BY <2>2
    <3>3. f[i] = IF i = 1 THEN g[i] ELSE f[i - 1] \o g[i]
      BY <3>1 DEF Flattens
    <3>4. i # 1 => h[i - 1] = f[i - 1]
      BY <3>1
    <3> HIDE DEF h
    <3> QED
      BY <3>2, <3>3, <3>4
  <2> QED
    BY <2>1, <2>2
<1>2. h = [i \in 1 .. k + 1 |-> h[i]]
  OBVIOUS
<1> HIDE DEF h
<1>3. h = [i \in 1 .. k + 1 |-> IF i = 1 THEN g[i] ELSE h[i - 1] \o g[i]]
  BY <1>1, <1>2
<1>4. Flattens(h, g, k + 1)
  BY <1>3 DEF Flattens
<1> QED
  BY <1>4 DEF h

LEMMA FlattensExists ==
    ASSUME NEW k \in Nat, NEW g
    PROVE  \E f : Flattens(f, g, k)
<1> DEFINE bad == {n \in 0 .. k : ~\E f : Flattens(f, g, n)}
<1>1. bad = {}
  <2> SUFFICES ASSUME bad # {} PROVE FALSE
    OBVIOUS
  <2>1. PICK n \in bad : \A j \in bad : n <= j
    <3>1. bad \in SUBSET Nat
      OBVIOUS
    <3> HIDE DEF bad
    <3> QED
      BY <3>1, LeastNumber
  <2>2. n \in 0 .. k /\ ~\E f : Flattens(f, g, n)
    OBVIOUS
  <2>3. n # 0
    <3>1. Flattens([i \in 1 .. 0 |-> g[1]], g, 0)
      BY DEF Flattens
    <3> QED
      BY <2>2, <3>1
  <2>4. n - 1 \in 0 .. k /\ ~(n <= n - 1) /\ n - 1 \in Nat /\ (n - 1) + 1 = n
    BY <2>2, <2>3
  <2>5. n - 1 \notin bad
    <3> HIDE DEF bad
    <3> QED
      BY <2>1, <2>4
  <2>6. PICK f : Flattens(f, g, n - 1)
    BY <2>4, <2>5
  <2>7. \E h : Flattens(h, g, (n - 1) + 1)
    BY <2>4, <2>6, FlattensExtends
  <2> QED
    BY <2>2, <2>4, <2>7
<1> QED
  BY <1>1

LEMMA CatZero == \A g : Cat(g, 0) = << >>
  BY DEF Cat, FlattenSeq

LEMMA CatIs ==
    ASSUME NEW k \in Nat \ {0}, NEW g, NEW f, Flattens(f, g, k)
    PROVE  Cat(g, k) = f[k]
<1> DEFINE s == [i \in 1 .. k |-> g[i]]
<1>1. Len(s) = k
  OBVIOUS
<1>2. Flattens(f, s, k)
  BY DEF Flattens
<1> HIDE DEF s
<1>3. \A h : Flattens(h, s, k) => h = f
  BY <1>2, FlattensOnce
<1>4. (CHOOSE h : Flattens(h, s, k)) = f
  BY <1>2, <1>3
<1>5. FlattenSeq(s) = f[k]
  <2>1. FlattenSeq(s) = (CHOOSE h : Flattens(h, s, Len(s)))[Len(s)]
    BY <1>1 DEF FlattenSeq, Flattens
  <2> QED
    BY <1>1, <1>4, <2>1
<1> QED
  BY <1>5 DEF Cat, s

LEMMA CatStep ==
    ASSUME NEW k \in Nat, NEW g, k # 0 \/ g[1] = << >> \o g[1]
    PROVE  Cat(g, k + 1) = Cat(g, k) \o g[k + 1]
<1>1. PICK f : Flattens(f, g, k)
  BY FlattensExists
<1> DEFINE h == [i \in 1 .. k + 1 |-> IF i = k + 1
                                      THEN IF k = 0 THEN g[1] ELSE f[k] \o g[k + 1]
                                      ELSE f[i]]
<1>2. Flattens(h, g, k + 1)
  BY <1>1, FlattensExtends
<1>3. h[k + 1] = IF k = 0 THEN g[1] ELSE f[k] \o g[k + 1]
  OBVIOUS
<1> HIDE DEF h
<1>4. Cat(g, k + 1) = h[k + 1]
  BY <1>2, CatIs
<1>5. CASE k = 0
  <2>1. k + 1 = 1 /\ Cat(g, k) = << >>
    BY <1>5, CatZero
  <2> QED
    BY <1>3, <1>4, <1>5, <2>1
<1>6. CASE k # 0
  BY <1>1, <1>3, <1>4, <1>6, CatIs
<1> QED
  BY <1>5, <1>6

\* The first k of g are sequences.
Strs(g, k) == \A i \in 1 .. k : Str(g[i])

LEMMA StrsLess ==
    ASSUME NEW k \in Nat, NEW g, Strs(g, k), NEW j \in 0 .. k
    PROVE  Strs(g, j)
  BY DEF Strs

LEMMA CatNextOf ==
    ASSUME NEW k \in Nat, NEW g, Strs(g, k + 1)
    PROVE  Str(g[k + 1]) /\ Cat(g, k + 1) = Then(Cat(g, k), g[k + 1])
<1>1. Str(g[k + 1])
  BY DEF Strs
<1>2. k = 0 => Then(<< >>, g[1]) = g[1]
  BY <1>1, ThenEmpty
<1>3. k # 0 \/ g[1] = << >> \o g[1]
  BY <1>2 DEF Then
<1>4. Cat(g, k + 1) = Cat(g, k) \o g[k + 1]
  BY <1>3, CatStep
<1> QED
  BY <1>1, <1>4 DEF Then

LEMMA CatStr ==
    ASSUME NEW k \in Nat, NEW g, Strs(g, k)
    PROVE  Str(Cat(g, k))
<1> DEFINE bad == {i \in 0 .. k : ~Str(Cat(g, i))}
<1>1. bad = {}
  <2> SUFFICES ASSUME bad # {} PROVE FALSE
    OBVIOUS
  <2>1. PICK n \in bad : \A j \in bad : n <= j
    <3>1. bad \in SUBSET Nat
      OBVIOUS
    <3> HIDE DEF bad
    <3> QED
      BY <3>1, LeastNumber
  <2>2. n \in 0 .. k /\ ~Str(Cat(g, n))
    OBVIOUS
  <2>3. n # 0
    BY <2>2, CatZero, StrEmpty
  <2>4. /\ n - 1 \in Nat /\ n - 1 \in 0 .. k /\ ~(n <= n - 1) /\ (n - 1) + 1 = n /\ n \in 0 .. k
    BY <2>2, <2>3
  <2>5. n - 1 \notin bad
    <3> HIDE DEF bad
    <3> QED
      BY <2>1, <2>4
  <2>6. Str(Cat(g, n - 1))
    BY <2>4, <2>5
  <2>7. Strs(g, (n - 1) + 1)
    BY <2>4, StrsLess
  <2>8. Str(g[(n - 1) + 1]) /\ Cat(g, (n - 1) + 1) = Then(Cat(g, n - 1), g[(n - 1) + 1])
    BY <2>4, <2>7, CatNextOf
  <2>9. Str(Cat(g, (n - 1) + 1))
    BY <2>6, <2>8, StrThen
  <2> QED
    BY <2>2, <2>4, <2>9
<1> QED
  BY <1>1

\* One more sequence.
LEMMA CatNext ==
    ASSUME NEW k \in Nat \ {0}, NEW g, Strs(g, k)
    PROVE  /\ Str(Cat(g, k - 1)) /\ Str(g[k]) /\ Str(Cat(g, k))
           /\ Cat(g, k) = Then(Cat(g, k - 1), g[k])
<1>1. k - 1 \in Nat /\ (k - 1) + 1 = k /\ k - 1 \in 0 .. k
  OBVIOUS
<1>2. Strs(g, (k - 1) + 1) /\ Strs(g, k - 1)
  BY <1>1, StrsLess
<1>3. Str(g[(k - 1) + 1]) /\ Cat(g, (k - 1) + 1) = Then(Cat(g, k - 1), g[(k - 1) + 1])
  BY <1>1, <1>2, CatNextOf
<1>4. Str(Cat(g, k - 1)) /\ Str(Cat(g, k))
  BY <1>1, <1>2, CatStr
<1> QED
  BY <1>1, <1>3, <1>4

LEMMA FlattenIsCat ==
    ASSUME NEW k \in Nat, NEW g, g = [i \in 1 .. k |-> g[i]]
    PROVE  FlattenSeq(g) = Cat(g, k)
  BY DEF Cat

LEMMA CatSame ==
    ASSUME NEW k \in Nat, NEW g, NEW h, \A i \in 1 .. k : g[i] = h[i]
    PROVE  Cat(g, k) = Cat(h, k)
<1>1. [i \in 1 .. k |-> g[i]] = [i \in 1 .. k |-> h[i]]
  OBVIOUS
<1> QED
  BY <1>1 DEF Cat

\* Nothing is added by sequences that are empty.
LEMMA CatEmpties ==
    ASSUME NEW k \in Nat, NEW g, Strs(g, k), NEW a \in 0 .. k,
           \A i \in a + 1 .. k : g[i] = << >>
    PROVE  Cat(g, k) = Cat(g, a)
<1> DEFINE bad == {i \in a .. k : Cat(g, i) # Cat(g, a)}
<1>1. bad = {}
  <2> SUFFICES ASSUME bad # {} PROVE FALSE
    OBVIOUS
  <2>1. PICK n \in bad : \A j \in bad : n <= j
    <3>1. bad \in SUBSET Nat
      OBVIOUS
    <3> HIDE DEF bad
    <3> QED
      BY <3>1, LeastNumber
  <2>2. n \in a .. k /\ Cat(g, n) # Cat(g, a)
    OBVIOUS
  <2>3. n # a
    BY <2>2
  <2>4. n - 1 \in a .. k /\ ~(n <= n - 1) /\ n \in Nat \ {0} /\ n \in 0 .. k /\ n \in a + 1 .. k
    BY <2>2, <2>3
  <2>5. n - 1 \notin bad
    <3> HIDE DEF bad
    <3> QED
      BY <2>1, <2>4
  <2>6. Cat(g, n - 1) = Cat(g, a)
    BY <2>4, <2>5
  <2>7. g[n] = << >>
    BY <2>4
  <2>8. Strs(g, n)
    BY <2>4, StrsLess
  <2>9. Str(Cat(g, n - 1)) /\ Cat(g, n) = Then(Cat(g, n - 1), g[n])
    BY <2>4, <2>8, CatNext
  <2>10. Then(Cat(g, n - 1), << >>) = Cat(g, n - 1)
    BY <2>9, ThenEmpty
  <2> QED
    BY <2>2, <2>6, <2>7, <2>9, <2>10
<1> QED
  BY <1>1

-----------------------------------------------------------------------------
(* The passes over the characters.                                         *)

Slice(t, a, b) == SubSeq(t, a, b)

\* A slice, and the slice with one more.
LEMMA SliceNext ==
    ASSUME NEW S, NEW t, Over(t, S), NEW a \in Nat \ {0}, NEW k \in a .. Len(t)
    PROVE  /\ Over(Slice(t, a, k - 1), S) /\ t[k] \in S
           /\ Slice(t, a, k) = Then(Slice(t, a, k - 1), One(t[k]))
<1>1. /\ t \in Seq(S) /\ Len(t) \in Nat /\ a \in 1 .. Len(t) /\ k \in Nat /\ k \in 1 .. Len(t)
      /\ t[k] \in S
  BY LenProperties, ElementOfSeq DEF Over
<1>2. k - 1 \in Int /\ a \in Int /\ k \in a .. Len(t) /\ \A i \in a .. k - 1 : t[i] \in S
  BY <1>1, ElementOfSeq
<1>3. SubSeq(t, a, k - 1) \in Seq(S)
  BY <1>2, SubSeqProperties
<1>4. SubSeq(t, a, k) = SubSeq(t, a, k - 1) \o <<t[k]>>
  BY <1>1, <1>2, SubSeqRecursiveSecond
<1> QED
  BY <1>1, <1>3, <1>4 DEF Over, Slice, Then, One

LEMMA SliceEmpty ==
    ASSUME NEW S, NEW t, Over(t, S), NEW a \in Nat
    PROVE  Slice(t, a, a - 1) = << >>
  BY DEF Over, Slice

LEMMA SliceAll ==
    ASSUME NEW S, NEW t, Over(t, S)
    PROVE  Slice(t, 1, Len(t)) = t /\ Len(t) \in Nat
  BY SubSeqFull, LenProperties DEF Over, Slice

Maps(f, C, T) == f \in [C -> Seq(T)]

LEMMA EachEmpty == \A f : Each(f, << >>) = << >>
  BY DEF Each, FlattenSeq

LEMMA EachNext ==
    ASSUME NEW C, NEW T, NEW f, Maps(f, C, T), NEW s, Over(s, C), NEW c \in C
    PROVE  /\ Over(f[c], T)
           /\ Str(Each(f, s))
           /\ Each(f, Then(s, One(c))) = Then(Each(f, s), f[c])
<1> DEFINE n == Len(s)
           all == Then(s, One(c))
           g == [i \in 1 .. n + 1 |-> f[all[i]]]
<1>1. /\ n \in Nat /\ n + 1 \in Nat \ {0} /\ (n + 1) - 1 = n
      /\ DOMAIN s = 1 .. n /\ DOMAIN all = 1 .. n + 1 /\ all[n + 1] = c
      /\ \A i \in 1 .. n : all[i] = s[i] /\ s[i] \in C
  <2>1. s \in Seq(C)
    BY DEF Over
  <2>2. all = Append(s, c)
    BY <2>1, AppendIsConcat DEF Then, One
  <2> QED
    BY <2>1, <2>2, AppendProperties, LenProperties, ElementOfSeq
<1>2. Over(f[c], T)
  BY DEF Over, Maps
<1>3. Each(f, all) = Cat(g, n + 1)
  <2>1. [i \in DOMAIN all |-> f[all[i]]] = g
    BY <1>1
  <2>2. g = [i \in 1 .. n + 1 |-> g[i]]
    OBVIOUS
  <2> HIDE DEF g, n
  <2>3. FlattenSeq(g) = Cat(g, n + 1)
    BY <1>1, <2>2, FlattenIsCat
  <2> QED
    BY <2>1, <2>3 DEF Each
<1>4. Each(f, s) = Cat(g, n)
  <2>1. [i \in DOMAIN s |-> f[s[i]]] = [i \in 1 .. n |-> g[i]]
    BY <1>1
  <2> HIDE DEF g, n
  <2> QED
    BY <1>1, <2>1 DEF Each, Cat
<1>5. Strs(g, n + 1)
  <2>1. ASSUME NEW i \in 1 .. n + 1 PROVE Str(g[i])
    <3>1. all[i] \in C
      BY <1>1
    <3>2. Over(f[all[i]], T) /\ g[i] = f[all[i]]
      BY <3>1 DEF Over, Maps
    <3> QED
      BY <3>2, OverStr
  <2> QED
    BY <2>1 DEF Strs
<1>6. g[n + 1] = f[c]
  BY <1>1
<1> HIDE DEF g, n
<1>7. Str(Cat(g, n)) /\ Cat(g, n + 1) = Then(Cat(g, n), g[n + 1])
  BY <1>1, <1>5, CatNext
<1> QED
  BY <1>2, <1>3, <1>4, <1>6, <1>7

LEMMA EachOne ==
    ASSUME NEW C, NEW T, NEW f, Maps(f, C, T), NEW c \in C
    PROVE  Each(f, One(c)) = f[c]
<1>1. Then(<< >>, One(c)) = One(c) /\ Over(<< >>, C)
  BY StrOne, ThenEmpty, OverEmpty
<1>2. Over(f[c], T) /\ Each(f, Then(<< >>, One(c))) = Then(Each(f, << >>), f[c])
  BY <1>1, EachNext
<1>3. Then(<< >>, f[c]) = f[c]
  BY <1>2, OverStr, ThenEmpty
<1> QED
  BY <1>1, <1>2, <1>3, EachEmpty

\* A pass over two texts is the passes over each.
LEMMA EachThen ==
    ASSUME NEW C, NEW T, NEW f, Maps(f, C, T), NEW s, Over(s, C), NEW t, Over(t, C)
    PROVE  /\ Over(Each(f, s), T)
           /\ Each(f, Then(s, t)) = Then(Each(f, s), Each(f, t))
<1>1. ASSUME NEW u, Over(u, C) PROVE Over(Each(f, u), T)
  <2> DEFINE good == {k \in 0 .. Len(u) : Over(Each(f, Slice(u, 1, k)), T)}
  <2>1. Slice(u, 1, Len(u)) = u /\ Len(u) \in Nat
    BY <1>1, SliceAll
  <2>2. ASSUME NEW k \in 0 .. Len(u), \A m \in 0 .. k - 1 : m \in good PROVE k \in good
    <3>1. CASE k = 0
      <4>1. Slice(u, 1, 1 - 1) = << >>
        BY <1>1, SliceEmpty
      <4> QED
        BY <3>1, <4>1, EachEmpty, OverEmpty
    <3>2. CASE k # 0
      <4>1. k \in 1 .. Len(u) /\ k - 1 \in 0 .. k - 1
        BY <2>1, <3>2
      <4>2. Over(Each(f, Slice(u, 1, k - 1)), T)
        BY <2>2, <4>1
      <4>3. /\ Over(Slice(u, 1, k - 1), C) /\ u[k] \in C
            /\ Slice(u, 1, k) = Then(Slice(u, 1, k - 1), One(u[k]))
        BY <1>1, <4>1, SliceNext
      <4>4. /\ Over(f[u[k]], T)
            /\ Each(f, Slice(u, 1, k)) = Then(Each(f, Slice(u, 1, k - 1)), f[u[k]])
        BY <4>3, EachNext
      <4>5. Over(Each(f, Slice(u, 1, k)), T)
        BY <4>2, <4>4, OverThen
      <4> QED
        BY <4>5
    <3> QED
      BY <3>1, <3>2
  <2> HIDE DEF good
  <2>3. \A k \in 0 .. Len(u) : k \in good
    BY <2>1, <2>2, Climb
  <2> QED
    BY <2>1, <2>3 DEF good
<1> DEFINE good == {k \in 0 .. Len(t) : Each(f, Then(s, Slice(t, 1, k))) = Then(Each(f, s), Each(f, Slice(t, 1, k)))}
<1>2. Slice(t, 1, Len(t)) = t /\ Len(t) \in Nat
  BY SliceAll
<1>3. Over(Each(f, s), T) /\ Str(Each(f, s)) /\ Str(s)
  BY <1>1, OverStr
<1>4. ASSUME NEW k \in 0 .. Len(t), \A m \in 0 .. k - 1 : m \in good PROVE k \in good
  <2>1. CASE k = 0
    <3>1. Slice(t, 1, 1 - 1) = << >>
      BY SliceEmpty
    <3>2. Then(s, << >>) = s /\ Then(Each(f, s), << >>) = Each(f, s)
      BY <1>3, ThenEmpty
    <3> QED
      BY <2>1, <3>1, <3>2, EachEmpty
  <2>2. CASE k # 0
    <3> DEFINE u == Slice(t, 1, k - 1)
               c == t[k]
    <3>1. k \in 1 .. Len(t) /\ k - 1 \in 0 .. k - 1
      BY <1>2, <2>2
    <3>2. Each(f, Then(s, u)) = Then(Each(f, s), Each(f, u))
      BY <1>4, <3>1
    <3>3. Over(u, C) /\ c \in C /\ Slice(t, 1, k) = Then(u, One(c))
      BY <3>1, SliceNext
    <3> HIDE DEF u, c
    <3>4. Over(Then(s, u), C) /\ Then(s, Then(u, One(c))) = Then(Then(s, u), One(c))
      BY <1>3, <3>3, OverThen, OverStr, StrOne, ThenAssociative
    <3>5. /\ Over(f[c], T)
          /\ Each(f, Then(Then(s, u), One(c))) = Then(Each(f, Then(s, u)), f[c])
          /\ Each(f, Then(u, One(c))) = Then(Each(f, u), f[c])
      BY <3>3, <3>4, EachNext
    <3>6. Str(f[c]) /\ Str(Each(f, u))
      BY <1>1, <3>3, <3>5, OverStr
    <3>7. Then(Then(Each(f, s), Each(f, u)), f[c]) = Then(Each(f, s), Then(Each(f, u), f[c]))
      BY <1>3, <3>6, ThenAssociative
    <3> QED
      BY <3>2, <3>3, <3>4, <3>5, <3>7
  <2> QED
    BY <2>1, <2>2
<1> HIDE DEF good
<1>5. \A k \in 0 .. Len(t) : k \in good
  BY <1>2, <1>4, Climb
<1>6. Each(f, Then(s, t)) = Then(Each(f, s), Each(f, t))
  BY <1>2, <1>5 DEF good
<1> QED
  BY <1>3, <1>6

-----------------------------------------------------------------------------
(* What normalisation makes of a character.                                *)

LEMMA DropMarkMaps == Maps(DropMark, Characters, Characters)
  BY DEF Maps, DropMark

LEMMA NormalisersMap ==
    /\ Maps(CleanText, Characters, Characters)
    /\ Maps(SurroundIdeograph, Characters, Characters)
    /\ Maps(StripAccents, Characters, Characters)
    /\ Maps(LowerCase, Characters, Characters)
<1>1. "space" \in Characters
  BY TokenizerAssumption, CharacterAssumption
<1>2. Maps(CleanText, Characters, Characters)
  <2>1. << >> \in Seq(Characters) /\ <<"space">> \in Seq(Characters)
    <3>1. Over(One("space"), Characters)
      BY <1>1, OverOne
    <3> QED
      BY <3>1, OverEmpty, Zenon DEF Over, One
  <2>2. ASSUME NEW c \in Characters PROVE <<c>> \in Seq(Characters)
    OBVIOUS
  <2> QED
    BY <2>1, <2>2, Zenon DEF Maps, CleanText
<1>3. Maps(SurroundIdeograph, Characters, Characters)
  <2>1. ASSUME NEW c \in Characters
        PROVE  <<c>> \in Seq(Characters) /\ <<"space", c, "space">> \in Seq(Characters)
    <3>1. \A b \in Characters : <<c>> \in Seq(Characters) /\ <<b, c, b>> \in Seq(Characters)
      OBVIOUS
    <3> QED
      BY <1>1, <3>1
  <2> QED
    BY <2>1, Zenon DEF Maps, SurroundIdeograph
<1>4. Maps(StripAccents, Characters, Characters)
  <2>1. ASSUME NEW c \in Characters PROVE Each(DropMark, Decompose[c]) \in Seq(Characters)
    <3>1. Over(Decompose[c], Characters)
      BY CharacterAssumption DEF Over
    <3>2. Over(Each(DropMark, Decompose[c]), Characters)
      BY <3>1, DropMarkMaps, EachThen
    <3> QED
      BY <3>2 DEF Over
  <2> QED
    BY <2>1 DEF Maps, StripAccents
<1>5. Maps(LowerCase, Characters, Characters)
  <2>1. ASSUME NEW c \in Characters PROVE <<Lower[c]>> \in Seq(Characters)
    <3>1. Lower[c] \in Characters
      BY CharacterAssumption
    <3>2. \A b \in Characters : <<b>> \in Seq(Characters)
      OBVIOUS
    <3> QED
      BY <3>1, <3>2
  <2> QED
    BY <2>1, Zenon DEF Maps, LowerCase
<1> QED
  BY <1>2, <1>3, <1>4, <1>5

LEMMA WhenThen ==
    ASSUME NEW chosen, NEW name, NEW f, Maps(f, Characters, Characters),
           NEW s, Over(s, Characters), NEW t, Over(t, Characters)
    PROVE  /\ Over(When(chosen, name, f, s), Characters)
           /\ When(chosen, name, f, Then(s, t))
                = Then(When(chosen, name, f, s), When(chosen, name, f, t))
<1>1. CASE name \in chosen
  <2>1. /\ Over(Each(f, s), Characters)
        /\ Each(f, Then(s, t)) = Then(Each(f, s), Each(f, t))
    BY EachThen
  <2> QED
    BY <1>1, <2>1 DEF When
<1>2. CASE name \notin chosen
  BY <1>2 DEF When
<1> QED
  BY <1>1, <1>2

LEMMA WhenEmpty == \A chosen, name, f : When(chosen, name, f, << >>) = << >>
  BY EachEmpty DEF When

LEMMA NormalizeEmpty == \A chosen : Normalize(chosen, << >>) = << >>
  BY WhenEmpty DEF Normalize

\* What strips and lowers.
Lowered(chosen, s) == When(chosen, "lowercase", LowerCase, When(chosen, "strip_accents", StripAccents, s))

LEMMA LoweredThen ==
    ASSUME NEW chosen, NEW s, Over(s, Characters), NEW t, Over(t, Characters)
    PROVE  /\ Over(Lowered(chosen, s), Characters)
           /\ Lowered(chosen, Then(s, t)) = Then(Lowered(chosen, s), Lowered(chosen, t))
<1> DEFINE S(x) == When(chosen, "strip_accents", StripAccents, x)
<1>1. Over(S(s), Characters) /\ Over(S(t), Characters) /\ S(Then(s, t)) = Then(S(s), S(t))
  BY NormalisersMap, WhenThen
<1> DEFINE L(x) == When(chosen, "lowercase", LowerCase, x)
<1>2. /\ Over(L(S(s)), Characters)
      /\ L(Then(S(s), S(t))) = Then(L(S(s)), L(S(t)))
  <2> HIDE DEF S
  <2> QED
    BY <1>1, NormalisersMap, WhenThen
<1>3. L(S(Then(s, t))) = Then(L(S(s)), L(S(t)))
  BY <1>1, <1>2
<1> QED
  BY <1>2, <1>3 DEF Lowered

LEMMA NormalizeThen ==
    ASSUME NEW chosen, NEW s, Over(s, Characters), NEW t, Over(t, Characters)
    PROVE  /\ Over(Normalize(chosen, s), Characters)
           /\ Normalize(chosen, Then(s, t)) = Then(Normalize(chosen, s), Normalize(chosen, t))
<1> DEFINE K(x) == When(chosen, "clean_text", CleanText, x)
           H(x) == When(chosen, "handle_chinese_chars", SurroundIdeograph, x)
<1>1. Over(K(s), Characters) /\ Over(K(t), Characters) /\ K(Then(s, t)) = Then(K(s), K(t))
  BY NormalisersMap, WhenThen
<1>2. /\ Over(H(K(s)), Characters) /\ Over(H(K(t)), Characters)
      /\ H(Then(K(s), K(t))) = Then(H(K(s)), H(K(t)))
  <2> HIDE DEF K
  <2> QED
    BY <1>1, NormalisersMap, WhenThen
<1>3. /\ Over(Lowered(chosen, H(K(s))), Characters)
      /\ Lowered(chosen, Then(H(K(s)), H(K(t))))
           = Then(Lowered(chosen, H(K(s))), Lowered(chosen, H(K(t))))
  <2> HIDE DEF K, H
  <2> QED
    BY <1>2, LoweredThen
<1>4. \A x : Normalize(chosen, x) = Lowered(chosen, H(K(x)))
  BY DEF Normalize, Lowered
<1>5. H(K(Then(s, t))) = Then(H(K(s)), H(K(t)))
  BY <1>1, <1>2
<1> HIDE DEF K, H
<1> QED
  BY <1>3, <1>4, <1>5

LEMMA EachLower ==
    ASSUME NEW s, Over(s, Characters)
    PROVE  Each(LowerCase, s) = [i \in DOMAIN s |-> Lower[s[i]]]
<1> DEFINE g == [i \in DOMAIN s |-> LowerCase[s[i]]]
           low == [i \in 1 .. Len(s) |-> Lower[s[i]]]
           good == {k \in 0 .. Len(s) : Cat(g, k) = Slice(low, 1, k)}
<1>1. Len(s) \in Nat /\ DOMAIN s = 1 .. Len(s) /\ \A i \in 1 .. Len(s) : s[i] \in Characters
  BY LenProperties, ElementOfSeq DEF Over
<1>2. Over(low, Characters) /\ Len(low) = Len(s)
  <2>1. ASSUME NEW i \in 1 .. Len(s) PROVE Lower[s[i]] \in Characters
    BY <1>1, CharacterAssumption
  <2>2. low \in Seq(Characters)
    BY <1>1, <2>1
  <2> QED
    BY <1>1, <2>2 DEF Over
<1>3. \A i \in 1 .. Len(s) : g[i] = One(low[i])
  BY <1>1 DEF LowerCase, One
<1>4. Strs(g, Len(s))
  BY <1>3, StrOne DEF Strs
<1>5. ASSUME NEW k \in 0 .. Len(s), \A m \in 0 .. k - 1 : m \in good PROVE k \in good
  <2>1. CASE k = 0
    <3>1. Slice(low, 1, 1 - 1) = << >>
      BY <1>2, SliceEmpty
    <3> QED
      BY <2>1, <3>1, CatZero
  <2>2. CASE k # 0
    <3>1. k \in 1 .. Len(s) /\ k - 1 \in 0 .. k - 1 /\ k \in Nat \ {0} /\ k \in 1 .. Len(low)
      BY <1>1, <1>2, <2>2
    <3>2. Cat(g, k - 1) = Slice(low, 1, k - 1)
      BY <1>5, <3>1
    <3>3. Slice(low, 1, k) = Then(Slice(low, 1, k - 1), One(low[k]))
      <4> HIDE DEF low
      <4> QED
        BY <1>2, <3>1, SliceNext
    <3>4. Cat(g, k) = Then(Cat(g, k - 1), g[k])
      <4>1. Strs(g, k)
        BY <1>1, <1>4, StrsLess
      <4> QED
        BY <3>1, <4>1, CatNext
    <3> QED
      BY <1>3, <3>1, <3>2, <3>3, <3>4
  <2> QED
    BY <2>1, <2>2
<1> HIDE DEF good
<1>6. \A k \in 0 .. Len(s) : k \in good
  BY <1>1, <1>5, Climb
<1>7. Cat(g, Len(s)) = low
  <2>1. Len(s) \in good
    BY <1>1, <1>6
  <2>2. Slice(low, 1, Len(low)) = low
    BY <1>2, SliceAll
  <2> HIDE DEF low
  <2> QED
    BY <1>2, <2>1, <2>2 DEF good
<1>8. Each(LowerCase, s) = Cat(g, Len(s))
  <2>1. g = [i \in 1 .. Len(s) |-> g[i]]
    BY <1>1
  <2>2. FlattenSeq(g) = Cat(g, Len(s))
    <3> HIDE DEF g
    <3> QED
      BY <1>1, <2>1, FlattenIsCat
  <2> QED
    BY <2>2 DEF Each
<1> QED
  BY <1>1, <1>7, <1>8

\* A character by itself, stripped and lowered.
LEMMA LoweredOne ==
    ASSUME NEW chosen, NEW c \in Characters
    PROVE  LET apart == IF "strip_accents" \in chosen THEN StripAccents[c] ELSE One(c)
           IN  /\ Over(apart, Characters)
               /\ Lowered(chosen, One(c))
                    = [i \in DOMAIN apart |->
                          IF "lowercase" \in chosen THEN Lower[apart[i]] ELSE apart[i]]
               /\ Over(Lowered(chosen, One(c)), Characters)
<1> DEFINE apart == IF "strip_accents" \in chosen THEN StripAccents[c] ELSE One(c)
<1>1. When(chosen, "strip_accents", StripAccents, One(c)) = apart
  BY NormalisersMap, EachOne DEF When
<1>2. Over(One(c), Characters)
  BY OverOne
<1>3. Over(apart, Characters)
  BY <1>1, <1>2, NormalisersMap, WhenThen
<1>4. Over(Lowered(chosen, One(c)), Characters)
  BY <1>2, LoweredThen
<1> HIDE DEF apart
<1>5. Lowered(chosen, One(c)) = When(chosen, "lowercase", LowerCase, apart)
  BY <1>1 DEF Lowered
<1>6. apart = [i \in DOMAIN apart |-> apart[i]]
  <2>1. apart \in Seq(Characters)
    BY <1>3 DEF Over
  <2> QED
    BY <2>1
<1>7. Lowered(chosen, One(c))
        = [i \in DOMAIN apart |-> IF "lowercase" \in chosen THEN Lower[apart[i]] ELSE apart[i]]
  <2>1. CASE "lowercase" \in chosen
    <3>1. When(chosen, "lowercase", LowerCase, apart) = Each(LowerCase, apart)
      BY <2>1 DEF When
    <3>2. Each(LowerCase, apart) = [i \in DOMAIN apart |-> Lower[apart[i]]]
      BY <1>3, EachLower
    <3> QED
      BY <1>5, <2>1, <3>1, <3>2
  <2>2. CASE "lowercase" \notin chosen
    <3>1. When(chosen, "lowercase", LowerCase, apart) = apart
      BY <2>2 DEF When
    <3> QED
      BY <1>5, <1>6, <2>2, <3>1
  <2> QED
    BY <2>1, <2>2
<1> QED
  BY <1>3, <1>4, <1>7 DEF apart

\* An ideograph stays one letter, and no space; a space stays a space.
LEMMA LoweredKinds ==
    ASSUME NEW chosen
    PROVE  /\ Lowered(chosen, One("space")) = One("space")
           /\ \A c \in Ideographs :
                  \E d \in Characters \ Spaces : Lowered(chosen, One(c)) = One(d)
<1>1. ASSUME NEW c \in Characters, NEW d \in Characters \ Marks, Decompose[c] = One(d)
      PROVE  StripAccents[c] = One(d)
  <2>1. Each(DropMark, One(d)) = DropMark[d]
    BY DropMarkMaps, EachOne
  <2>2. DropMark[d] = One(d)
    BY DEF DropMark, One
  <2> QED
    BY <1>1, <2>1, <2>2 DEF StripAccents
<1>2. ASSUME NEW c \in Characters, NEW d \in Characters \ Marks, Decompose[c] = One(d)
      PROVE  Lowered(chosen, One(c)) \in {One(c), One(d), One(Lower[c]), One(Lower[d])}
  <2> DEFINE e == IF "strip_accents" \in chosen THEN d ELSE c
  <2>1. (IF "strip_accents" \in chosen THEN StripAccents[c] ELSE One(c)) = One(e)
    BY <1>1, <1>2
  <2>2. Lowered(chosen, One(c))
          = [i \in DOMAIN One(e) |-> IF "lowercase" \in chosen THEN Lower[One(e)[i]] ELSE One(e)[i]]
    <3> HIDE DEF e
    <3> QED
      BY <2>1, LoweredOne
  <2>3. e \in {c, d}
    OBVIOUS
  <2> HIDE DEF e
  <2>4. Lowered(chosen, One(c)) = One(IF "lowercase" \in chosen THEN Lower[e] ELSE e)
    BY <2>2 DEF One
  <2> QED
    BY <2>3, <2>4
<1>3. Lowered(chosen, One("space")) = One("space")
  <2>1. /\ "space" \in Characters \ Marks /\ Decompose["space"] = One("space")
        /\ Lower["space"] = "space"
    BY TokenizerAssumption, CharacterAssumption DEF One
  <2> QED
    BY <1>2, <2>1
<1>4. ASSUME NEW c \in Ideographs
      PROVE  \E d \in Characters \ Spaces : Lowered(chosen, One(c)) = One(d)
  <2>1. PICK d \in Characters \ Marks :
            Decompose[c] = <<d>> /\ {c, d, Lower[c], Lower[d]} \cap Spaces = {}
    BY CharacterAssumption
  <2>2. c \in Characters
    BY TokenizerAssumption
  <2>3. Lowered(chosen, One(c)) \in {One(c), One(d), One(Lower[c]), One(Lower[d])}
    BY <1>2, <2>1, <2>2 DEF One
  <2>4. {c, d, Lower[c], Lower[d]} \subseteq Characters \ Spaces
    BY <2>1, <2>2, CharacterAssumption
  <2> QED
    BY <2>3, <2>4
<1> QED
  BY <1>3, <1>4

LEMMA NormalizeOne ==
    ASSUME NEW chosen, NEW c \in Characters
    PROVE  /\ Over(Letters(chosen, c), Characters)
           /\ \/ Normalize(chosen, One(c)) = Letters(chosen, c)
                 /\ ~("handle_chinese_chars" \in chosen /\ c \in Ideographs)
              \/ Normalize(chosen, One(c)) = << >> /\ Letters(chosen, c) = << >>
              \/ /\ "handle_chinese_chars" \in chosen /\ c \in Ideographs
                 /\ \E d \in Characters \ Spaces :
                        /\ Letters(chosen, c) = One(d)
                        /\ Normalize(chosen, One(c))
                             = Then(One("space"), Then(One(d), One("space")))
<1> DEFINE spaced == IF "clean_text" \in chosen /\ c \in Whitespace THEN "space" ELSE c
           apart == IF "strip_accents" \in chosen THEN StripAccents[spaced] ELSE One(spaced)
           K(x) == When(chosen, "clean_text", CleanText, x)
           H(x) == When(chosen, "handle_chinese_chars", SurroundIdeograph, x)
<1>1. \A x : Normalize(chosen, x) = Lowered(chosen, H(K(x)))
  BY DEF Normalize, Lowered
<1>2. "space" \in Characters /\ "space" \notin Ideographs
  BY TokenizerAssumption, CharacterAssumption
<1>3. spaced \in Characters
  BY <1>2
<1>4. CASE "clean_text" \in chosen /\ c \in Dropped
  <2>1. K(One(c)) = << >>
    BY <1>4, NormalisersMap, EachOne DEF When, CleanText
  <2>2. Normalize(chosen, One(c)) = << >>
    BY <1>1, <2>1, WhenEmpty DEF Lowered
  <2>3. Letters(chosen, c) = << >>
    BY <1>4 DEF Letters
  <2> QED
    BY <2>2, <2>3, OverEmpty
<1>5. CASE ~("clean_text" \in chosen /\ c \in Dropped)
  <2>1. K(One(c)) = One(spaced)
    <3>1. CASE "clean_text" \in chosen
      <4>1. K(One(c)) = CleanText[c]
        BY <3>1, NormalisersMap, EachOne DEF When
      <4> QED
        BY <1>5, <3>1, <4>1 DEF CleanText, One
    <3>2. CASE "clean_text" \notin chosen
      BY <3>2 DEF When
    <3> QED
      BY <3>1, <3>2
  <2>2. Letters(chosen, c) = Lowered(chosen, One(spaced))
    <3>1. Letters(chosen, c)
            = [i \in DOMAIN apart |-> IF "lowercase" \in chosen THEN Lower[apart[i]] ELSE apart[i]]
      BY <1>5 DEF Letters, One
    <3> HIDE DEF spaced
    <3> QED
      BY <1>3, <3>1, LoweredOne
  <2>3. Over(One(spaced), Characters) /\ Over(Letters(chosen, c), Characters)
    <3> HIDE DEF spaced
    <3> QED
      BY <1>3, <2>2, OverOne, LoweredThen
  <2>4. CASE "handle_chinese_chars" \in chosen /\ c \in Ideographs
    <3>1. spaced = c
      BY <2>4, CharacterAssumption
    <3>2. H(One(c)) = Then(One("space"), Then(One(c), One("space")))
      <4>1. H(One(c)) = SurroundIdeograph[c]
        BY <2>4, NormalisersMap, EachOne DEF When
      <4>2. SurroundIdeograph[c] = <<"space", c, "space">>
        BY <2>4 DEF SurroundIdeograph
      <4>3. \A x : <<x, c, x>> = Then(One(x), Then(One(c), One(x)))
        BY DEF Then, One
      <4> QED
        BY <4>1, <4>2, <4>3
    <3>3. /\ Over(One("space"), Characters) /\ Over(One(c), Characters)
          /\ Over(Then(One(c), One("space")), Characters)
      BY <1>2, OverOne, OverThen
    <3>4. Lowered(chosen, H(One(c)))
            = Then(Lowered(chosen, One("space")), Then(Lowered(chosen, One(c)), Lowered(chosen, One("space"))))
      BY <3>2, <3>3, LoweredThen
    <3>5. PICK d \in Characters \ Spaces : Lowered(chosen, One(c)) = One(d)
      BY <2>4, LoweredKinds
    <3>6. Normalize(chosen, One(c)) = Then(One("space"), Then(One(d), One("space")))
      BY <1>1, <2>1, <3>1, <3>4, <3>5, LoweredKinds
    <3>7. Letters(chosen, c) = One(d)
      BY <2>2, <3>1, <3>5
    <3> QED
      BY <2>3, <2>4, <3>6, <3>7
  <2>5. CASE ~("handle_chinese_chars" \in chosen /\ c \in Ideographs)
    <3>1. "handle_chinese_chars" \in chosen => spaced \notin Ideographs
      BY <1>2, <2>5
    <3>2. H(One(spaced)) = One(spaced)
      <4>1. CASE "handle_chinese_chars" \in chosen
        <5> HIDE DEF spaced
        <5>1. H(One(spaced)) = SurroundIdeograph[spaced]
          BY <1>3, <4>1, NormalisersMap, EachOne DEF When
        <5>2. SurroundIdeograph[spaced] = One(spaced)
          BY <1>3, <3>1, <4>1 DEF SurroundIdeograph, One
        <5> QED
          BY <5>1, <5>2
      <4>2. CASE "handle_chinese_chars" \notin chosen
        BY <4>2 DEF When
      <4> QED
        BY <4>1, <4>2
    <3>3. Normalize(chosen, One(c)) = Letters(chosen, c)
      BY <1>1, <2>1, <2>2, <3>2
    <3> QED
      BY <2>3, <2>5, <3>3
  <2> QED
    BY <2>4, <2>5
<1> QED
  BY <1>4, <1>5

-----------------------------------------------------------------------------
(* What is left from a place on: the recursion of Pieces and of TokensFrom. *)

Downward(f, a, m, stop, base, step, next) ==
    f = [s \in a .. m |-> IF s \in stop THEN base[s] ELSE Then(step[s], f[next[s]])]

LEMMA DownwardExtends ==
    ASSUME NEW m \in Nat, NEW a \in 1 .. m, NEW stop, NEW base, NEW step, NEW next,
           \A s \in 1 .. m : s \notin stop => next[s] \in s + 1 .. m,
           NEW f, Downward(f, a + 1, m, stop, base, step, next)
    PROVE  \E h : Downward(h, a, m, stop, base, step, next)
<1> DEFINE h == [s \in a .. m |-> IF s = a
                                  THEN IF a \in stop THEN base[a] ELSE Then(step[a], f[next[a]])
                                  ELSE f[s]]
<1>1. ASSUME NEW s \in a .. m, s \notin stop PROVE h[next[s]] = f[next[s]]
  <2>1. s \in 1 .. m
    OBVIOUS
  <2>2. next[s] \in s + 1 .. m
    BY <1>1, <2>1
  <2>3. next[s] \in a .. m /\ next[s] # a
    BY <2>2
  <2> QED
    BY <2>3
<1>2. ASSUME NEW s \in a .. m
      PROVE  h[s] = IF s \in stop THEN base[s] ELSE Then(step[s], h[next[s]])
  <2>1. CASE s = a
    BY <1>1, <2>1
  <2>2. CASE s # a
    <3>1. s \in a + 1 .. m /\ h[s] = f[s]
      BY <2>2
    <3>2. f[s] = IF s \in stop THEN base[s] ELSE Then(step[s], f[next[s]])
      BY <3>1 DEF Downward
    <3> QED
      BY <1>1, <3>1, <3>2
  <2> QED
    BY <2>1, <2>2
<1>3. h = [s \in a .. m |-> h[s]]
  OBVIOUS
<1> HIDE DEF h
<1>4. h = [s \in a .. m |-> IF s \in stop THEN base[s] ELSE Then(step[s], h[next[s]])]
  BY <1>2, <1>3
<1> QED
  BY <1>4 DEF Downward

LEMMA DownwardExists ==
    ASSUME NEW m \in Nat, NEW stop, NEW base, NEW step, NEW next,
           \A s \in 1 .. m : s \notin stop => next[s] \in s + 1 .. m
    PROVE  \E f : Downward(f, 1, m, stop, base, step, next)
<1> DEFINE good == {a \in 0 .. m : \E f : Downward(f, a + 1, m, stop, base, step, next)}
<1>1. ASSUME NEW a \in 0 .. m, \A b \in a + 1 .. m : b \in good PROVE a \in good
  <2>1. CASE a = m
    <3>1. Downward([s \in m + 1 .. m |-> base[s]], m + 1, m, stop, base, step, next)
      <4>1. m + 1 .. m = {}
        OBVIOUS
      <4> QED
        BY <4>1 DEF Downward
    <3> QED
      BY <2>1, <3>1
  <2>2. CASE a # m
    <3>1. a + 1 \in a + 1 .. m /\ a + 1 \in 1 .. m
      BY <2>2
    <3>2. PICK f : Downward(f, (a + 1) + 1, m, stop, base, step, next)
      BY <1>1, <3>1
    <3>3. \E h : Downward(h, a + 1, m, stop, base, step, next)
      BY <3>1, <3>2, DownwardExtends
    <3> QED
      BY <3>3
  <2> QED
    BY <2>1, <2>2
<1> HIDE DEF good
<1>2. \A a \in 0 .. m : a \in good
  BY <1>1, Descend
<1>3. 0 \in 0 .. m /\ 0 + 1 = 1
  OBVIOUS
<1> QED
  BY <1>2, <1>3 DEF good

\* From the next place on, and from the place that it is next to.
LEMMA DownwardAt ==
    ASSUME NEW m \in Nat, NEW stop, NEW base, NEW step, NEW next, NEW f,
           Downward(f, 1, m, stop, base, step, next), NEW s \in 1 .. m
    PROVE  f[s] = IF s \in stop THEN base[s] ELSE Then(step[s], f[next[s]])
  BY DEF Downward

-----------------------------------------------------------------------------
(* The pieces of a word.                                                   *)

From(f, word) ==
    f = [start \in 1 .. Len(word) + 1 |->
            IF start > Len(word) THEN << >>
            ELSE IF Ends(word, start) = {} THEN <<Unknown>>
            ELSE LET end == Max(Ends(word, start))
                 IN  <<Piece(word, start, end)>> \o f[end + 1]]

LEMMA EndsGreatest ==
    ASSUME NEW word, Over(word, Characters), NEW start \in 1 .. Len(word), Ends(word, start) # {}
    PROVE  /\ Max(Ends(word, start)) \in start .. Len(word)
           /\ Piece(word, start, Max(Ends(word, start))) \in Vocabulary
           /\ \A j \in Max(Ends(word, start)) + 1 .. Len(word) : Piece(word, start, j) \notin Vocabulary
<1>1. Len(word) \in Nat /\ start \in Nat
  BY LenProperties DEF Over
<1>2. Ends(word, start) \in SUBSET (0 .. Len(word))
  BY <1>1 DEF Ends
<1>3. /\ Max(Ends(word, start)) \in Ends(word, start)
      /\ \A y \in Ends(word, start) : y <= Max(Ends(word, start))
  BY <1>1, <1>2, GreatestNumber
<1>4. Max(Ends(word, start)) \in start .. Len(word)
  BY <1>3 DEF Ends
<1> DEFINE max == Max(Ends(word, start))
<1>5. Piece(word, start, max) \in Vocabulary
  BY <1>3 DEF Ends
<1>6. ASSUME NEW j \in max + 1 .. Len(word) PROVE Piece(word, start, j) \notin Vocabulary
  <2>1. j \in start .. Len(word) /\ ~(j <= max)
    BY <1>1, <1>4
  <2> HIDE DEF max
  <2>2. j \notin Ends(word, start)
    BY <1>3, <2>1 DEF max
  <2> QED
    BY <2>1, <2>2 DEF Ends
<1> QED
  BY <1>4, <1>5, <1>6

LEMMA PiecesFrom ==
    ASSUME NEW word, Over(word, Characters)
    PROVE  \E f : From(f, word) /\ Pieces(word) = f[1]
<1> DEFINE n == Len(word)
           stop == {s \in 1 .. n + 1 : s > n \/ Ends(word, s) = {}}
           base == [s \in 1 .. n + 1 |-> IF s > n THEN << >> ELSE <<Unknown>>]
           step == [s \in 1 .. n + 1 |-> One(Piece(word, s, Max(Ends(word, s))))]
           next == [s \in 1 .. n + 1 |-> Max(Ends(word, s)) + 1]
<1>1. n \in Nat /\ n + 1 \in Nat
  BY LenProperties DEF Over
<1>2. ASSUME NEW s \in 1 .. n + 1, s \notin stop PROVE next[s] \in s + 1 .. n + 1
  <2>1. s \in 1 .. n /\ Ends(word, s) # {}
    BY <1>1, <1>2
  <2>2. Max(Ends(word, s)) \in s .. n
    BY <2>1, EndsGreatest
  <2> QED
    BY <1>1, <2>2
<1>3. PICK f : Downward(f, 1, n + 1, stop, base, step, next)
  <2> HIDE DEF stop, base, step, next, n
  <2> QED
    BY <1>1, <1>2, DownwardExists
<1>4. ASSUME NEW s \in 1 .. n + 1
      PROVE  f[s] = IF s > n THEN << >>
                    ELSE IF Ends(word, s) = {} THEN <<Unknown>>
                    ELSE LET end == Max(Ends(word, s))
                         IN  <<Piece(word, s, end)>> \o f[end + 1]
  <2>1. f[s] = IF s \in stop THEN base[s] ELSE Then(step[s], f[next[s]])
    <3> HIDE DEF stop, base, step, next, n
    <3> QED
      BY <1>1, <1>3, DownwardAt
  <2>2. CASE s \in stop
    BY <2>1, <2>2
  <2>3. CASE s \notin stop
    <3>1. f[s] = Then(One(Piece(word, s, Max(Ends(word, s)))), f[Max(Ends(word, s)) + 1])
      BY <2>1, <2>3
    <3> QED
      BY <2>3, <3>1 DEF Then, One
  <2> QED
    BY <2>2, <2>3
<1>5. f = [s \in 1 .. n + 1 |-> f[s]]
  <2> HIDE DEF stop, base, step, next, n
  <2> QED
    BY <1>3 DEF Downward
<1>6. From(f, word)
  <2> HIDE DEF stop, base, step, next
  <2> QED
    BY <1>4, <1>5 DEF From
<1>7. Pieces(word) = (CHOOSE g : From(g, word))[1]
  BY DEF Pieces, From
<1> QED
  BY <1>6, <1>7

\* What is left from a place on, in the three cases.
LEMMA FromAt ==
    ASSUME NEW word, Over(word, Characters), NEW f, From(f, word)
    PROVE  /\ f[Len(word) + 1] = << >>
           /\ \A s \in 1 .. Len(word) :
                  f[s] = IF Ends(word, s) = {} THEN One(Unknown)
                         ELSE Then(One(Piece(word, s, Max(Ends(word, s)))),
                                   f[Max(Ends(word, s)) + 1])
<1>1. Len(word) \in Nat
  BY LenProperties DEF Over
<1>2. \A s \in 1 .. Len(word) + 1 :
          f[s] = IF s > Len(word) THEN << >>
                 ELSE IF Ends(word, s) = {} THEN <<Unknown>>
                 ELSE <<Piece(word, s, Max(Ends(word, s)))>> \o f[Max(Ends(word, s)) + 1]
  BY DEF From
<1>3. f[Len(word) + 1] = << >>
  <2>1. Len(word) + 1 \in 1 .. Len(word) + 1 /\ Len(word) + 1 > Len(word)
    BY <1>1
  <2> QED
    BY <1>2, <2>1, Zenon
<1>4. ASSUME NEW s \in 1 .. Len(word)
      PROVE  f[s] = IF Ends(word, s) = {} THEN One(Unknown)
                    ELSE Then(One(Piece(word, s, Max(Ends(word, s)))),
                              f[Max(Ends(word, s)) + 1])
  <2>1. s \in 1 .. Len(word) + 1 /\ ~(s > Len(word))
    BY <1>1
  <2>2. f[s] = IF Ends(word, s) = {} THEN <<Unknown>>
               ELSE <<Piece(word, s, Max(Ends(word, s)))>> \o f[Max(Ends(word, s)) + 1]
    BY <1>2, <2>1
  <2> QED
    BY <2>2 DEF Then, One
<1> QED
  BY <1>3, <1>4

LEMMA UnknownIsNoPiece == Unknown \notin Vocabulary
  BY TokenizerAssumption DEF Unknown, Special

\* What is left from a place on is made of pieces and unknowns.
LEMMA FromType ==
    ASSUME NEW word, Over(word, Characters), NEW f, From(f, word)
    PROVE  \A s \in 1 .. Len(word) + 1 : Over(f[s], Vocabulary \cup {Unknown})
<1> DEFINE n == Len(word)
           good == {k \in 0 .. n : Over(f[k + 1], Vocabulary \cup {Unknown})}
<1>1. n \in Nat
  BY LenProperties DEF Over
<1>2. ASSUME NEW k \in 0 .. n, \A m \in k + 1 .. n : m \in good PROVE k \in good
  <2>1. CASE k = n
    <3>1. f[n + 1] = << >>
      BY FromAt
    <3> QED
      BY <2>1, <3>1, OverEmpty
  <2>2. CASE k # n
    <3> DEFINE s == k + 1
               max == Max(Ends(word, s))
    <3>1. s \in 1 .. n
      BY <2>2
    <3>2. CASE Ends(word, s) = {}
      <4>1. f[s] = One(Unknown)
        BY <3>1, <3>2, FromAt
      <4> QED
        BY <4>1, OverOne
    <3>3. CASE Ends(word, s) # {}
      <4>1. max \in s .. n /\ Piece(word, s, max) \in Vocabulary
        BY <3>1, <3>3, EndsGreatest
      <4>2. f[s] = Then(One(Piece(word, s, max)), f[max + 1])
        BY <3>1, <3>3, FromAt
      <4>3. max \in k + 1 .. n
        BY <4>1
      <4> HIDE DEF max
      <4>4. Over(f[max + 1], Vocabulary \cup {Unknown})
        BY <1>2, <4>3
      <4>5. Over(One(Piece(word, s, max)), Vocabulary \cup {Unknown})
        BY <4>1, OverOne
      <4> QED
        BY <4>2, <4>4, <4>5, OverThen
    <3> QED
      BY <3>2, <3>3
  <2> QED
    BY <2>1, <2>2
<1> HIDE DEF good
<1>3. \A k \in 0 .. n : k \in good
  BY <1>1, <1>2, Descend
<1>4. ASSUME NEW s \in 1 .. n + 1 PROVE Over(f[s], Vocabulary \cup {Unknown})
  <2>1. s - 1 \in 0 .. n /\ (s - 1) + 1 = s
    BY <1>1
  <2>2. s - 1 \in good
    BY <1>3, <2>1
  <2> QED
    BY <2>1, <2>2 DEF good
<1> QED
  BY <1>4

LEMMA AfterIs ==
    ASSUME NEW word, Over(word, Characters), NEW S \in SUBSET (1 .. Len(word)),
           NEW i \in 1 .. Len(word)
    PROVE  /\ After(S, word, i) \in i + 1 .. Len(word) + 1
           /\ After(S, word, i) \in S \/ After(S, word, i) = Len(word) + 1
           /\ \A k \in S : k > i => After(S, word, i) <= k
<1> DEFINE later == {j \in S : j > i} \cup {Len(word) + 1}
<1>1. Len(word) \in Nat
  BY LenProperties DEF Over
<1>2. later \in SUBSET Nat /\ later # {}
  <2>1. Len(word) + 1 \in Nat /\ Len(word) + 1 \in later /\ S \subseteq Nat
    BY <1>1
  <2> QED
    BY <2>1
<1>3. Min(later) \in later /\ \A y \in later : Min(later) <= y
  <2> HIDE DEF later
  <2> QED
    BY <1>2, LowestNumber
<1>4. After(S, word, i) = Min(later)
  BY DEF After
<1> DEFINE min == Min(later)
<1>5. min \in i + 1 .. Len(word) + 1 /\ (min \in S \/ min = Len(word) + 1)
  <2>1. min \in later
    BY <1>3
  <2> HIDE DEF min
  <2> QED
    BY <1>1, <2>1
<1>6. \A k \in S : k > i => min <= k
  <2> HIDE DEF min
  <2> QED
    BY <1>3 DEF min
<1> QED
  BY <1>4, <1>5, <1>6

\* A piece that could not be longer is the one that the greedy loop takes.
LEMMA CutIsGreedy ==
    ASSUME NEW word, Over(word, Characters), NEW S \in Cuts(word), NEW i \in S
    PROVE  /\ S \in SUBSET (1 .. Len(word)) /\ 1 \in S
           /\ Ends(word, i) # {}
           /\ Max(Ends(word, i)) + 1 = After(S, word, i)
<1>1. Len(word) \in Nat /\ DOMAIN word = 1 .. Len(word)
  BY LenProperties DEF Over
<1>2. S \in SUBSET (1 .. Len(word)) /\ 1 \in S /\ i \in 1 .. Len(word)
  BY <1>1 DEF Cuts
<1> DEFINE after == After(S, word, i)
<1>3. after \in i + 1 .. Len(word) + 1
  BY <1>2, AfterIs
<1>4. /\ Piece(word, i, after - 1) \in Vocabulary
      /\ \A j \in after .. Len(word) : Piece(word, i, j) \notin Vocabulary
  BY DEF Cuts
<1> HIDE DEF after
<1>5. after - 1 \in i .. Len(word)
  BY <1>1, <1>2, <1>3
<1>6. after - 1 \in Ends(word, i)
  BY <1>4, <1>5 DEF Ends
<1> DEFINE max == Max(Ends(word, i))
<1>7. max \in i .. Len(word) /\ Piece(word, i, max) \in Vocabulary
  BY <1>2, <1>6, EndsGreatest
<1>8. \A j \in max + 1 .. Len(word) : Piece(word, i, j) \notin Vocabulary
  BY <1>2, <1>6, EndsGreatest
<1> HIDE DEF max
<1>9. ~(max >= after)
  BY <1>3, <1>4, <1>7
<1>10. ~(max < after - 1)
  BY <1>4, <1>5, <1>7, <1>8
<1>11. max + 1 = after
  BY <1>3, <1>7, <1>9, <1>10
<1> QED
  BY <1>2, <1>6, <1>11 DEF max, after

\* The pieces of a cut, by where they begin.
PiecesOfCut(word, S) ==
    [i \in DOMAIN word |->
        IF i \in S THEN One(Piece(word, i, After(S, word, i) - 1)) ELSE << >>]

LEMMA PiecesOfCutType ==
    ASSUME NEW word, Over(word, Characters), NEW S \in Cuts(word)
    PROVE  /\ Strs(PiecesOfCut(word, S), Len(word))
           /\ Over(Cat(PiecesOfCut(word, S), Len(word)), Vocabulary)
           /\ FlattenSeq(PiecesOfCut(word, S)) = Cat(PiecesOfCut(word, S), Len(word))
<1> DEFINE n == Len(word)
           g == PiecesOfCut(word, S)
           good == {k \in 0 .. n : Over(Cat(g, k), Vocabulary)}
<1>1. n \in Nat /\ DOMAIN word = 1 .. n
  BY LenProperties DEF Over
<1>2. ASSUME NEW i \in 1 .. n PROVE Over(g[i], Vocabulary)
  <2>1. CASE i \in S
    <3>1. Piece(word, i, After(S, word, i) - 1) \in Vocabulary
      BY <2>1 DEF Cuts
    <3>2. g[i] = One(Piece(word, i, After(S, word, i) - 1))
      BY <1>1, <2>1 DEF PiecesOfCut
    <3> QED
      BY <3>1, <3>2, OverOne
  <2>2. CASE i \notin S
    BY <1>1, <2>2, OverEmpty DEF PiecesOfCut
  <2> QED
    BY <2>1, <2>2
<1> HIDE DEF g
<1>3. Strs(g, n)
  <2>1. \A i \in 1 .. n : Str(g[i])
    BY <1>2, OverStr
  <2> QED
    BY <2>1 DEF Strs
<1>4. ASSUME NEW k \in 0 .. n, \A m \in 0 .. k - 1 : m \in good PROVE k \in good
  <2>1. CASE k = 0
    BY <2>1, CatZero, OverEmpty
  <2>2. CASE k # 0
    <3>1. k - 1 \in 0 .. k - 1 /\ k \in Nat \ {0} /\ k \in 1 .. n /\ Strs(g, k)
      BY <1>1, <1>3, <2>2, StrsLess
    <3>2. Cat(g, k) = Then(Cat(g, k - 1), g[k])
      BY <3>1, CatNext
    <3>3. Over(Cat(g, k - 1), Vocabulary)
      BY <1>4, <3>1
    <3>4. Over(Then(Cat(g, k - 1), g[k]), Vocabulary)
      BY <1>2, <3>1, <3>3, OverThen
    <3> QED
      BY <3>2, <3>4
  <2> QED
    BY <2>1, <2>2
<1>5. Over(Cat(g, n), Vocabulary)
  <2> HIDE DEF good
  <2>1. \A k \in 0 .. n : k \in good
    BY <1>1, <1>4, Climb
  <2> QED
    BY <1>1, <2>1 DEF good
<1>6. FlattenSeq(g) = Cat(g, n)
  <2>1. g = [i \in 1 .. n |-> g[i]]
    BY <1>1 DEF g, PiecesOfCut
  <2> QED
    BY <1>1, <2>1, FlattenIsCat
<1> QED
  BY <1>3, <1>5, <1>6 DEF g

\* Where there is a cut the loop finds its pieces.
LEMMA PiecesAreOfCut ==
    ASSUME NEW word, Over(word, Characters), NEW S \in Cuts(word), NEW f, From(f, word)
    PROVE  f[1] = Cat(PiecesOfCut(word, S), Len(word))
<1> DEFINE n == Len(word)
           g == PiecesOfCut(word, S)
           good == {k \in 0 .. n : k + 1 \in S \cup {n + 1} =>
                                       Then(Cat(g, k), f[k + 1]) = Cat(g, n)}
<1>1. n \in Nat /\ DOMAIN word = 1 .. n /\ S \in SUBSET (1 .. n) /\ 1 \in S
  BY LenProperties DEF Over, Cuts
<1>2. Strs(g, n) /\ Str(Cat(g, n))
  BY PiecesOfCutType, OverStr
<1>3. ASSUME NEW k \in 0 .. n, \A m \in k + 1 .. n : m \in good, k + 1 \in S \cup {n + 1}
      PROVE  Then(Cat(g, k), f[k + 1]) = Cat(g, n)
  <2>1. CASE k + 1 = n + 1
    <3>1. k = n /\ f[k + 1] = << >>
      <4>1. f[n + 1] = << >>
        BY FromAt
      <4>2. k = n
        <5>1. n \in Nat /\ k \in Nat
          BY <1>1
        <5> HIDE DEF n
        <5> QED
          BY <2>1, <5>1
      <4> HIDE DEF n
      <4> QED
        BY <4>1, <4>2
    <3> QED
      BY <1>2, <3>1, ThenEmpty
  <2>2. CASE k + 1 # n + 1
    <3> DEFINE s == k + 1
               after == After(S, word, s)
               piece == One(Piece(word, s, after - 1))
    <3>1. s \in S /\ s \in 1 .. n /\ s \in Nat \ {0} /\ s - 1 = k /\ s \in 0 .. n
      BY <1>1, <1>3, <2>2
    <3>2. Ends(word, s) # {} /\ Max(Ends(word, s)) + 1 = after
      BY <3>1, CutIsGreedy
    <3>3. Max(Ends(word, s)) = after - 1
      <4>1. Max(Ends(word, s)) \in s .. n
        BY <3>1, <3>2, EndsGreatest
      <4> QED
        BY <3>2, <4>1
    <3>4. f[s] = Then(piece, f[after])
      <4>1. f[s] = Then(One(Piece(word, s, Max(Ends(word, s)))), f[Max(Ends(word, s)) + 1])
        BY <3>1, <3>2, FromAt
      <4> QED
        BY <3>2, <3>3, <4>1
    <3>5. /\ after \in s + 1 .. n + 1
          /\ after \in S \cup {n + 1}
          /\ \A j \in S : j > s => after <= j
      BY <1>1, <3>1, AfterIs
    <3>6. g[s] = piece
      BY <1>1, <3>1 DEF PiecesOfCut
    <3> HIDE DEF after, piece, g
    <3>7. after - 1 \in k + 1 .. n /\ (after - 1) + 1 = after /\ after - 1 \in 0 .. n
      BY <3>1, <3>5
    <3>8. Then(Cat(g, after - 1), f[after]) = Cat(g, n)
      <4>1. after - 1 \in good
        BY <1>3, <3>7
      <4> QED
        BY <3>5, <3>7, <4>1
    <3>9. Cat(g, after - 1) = Cat(g, s)
      <4>1. ASSUME NEW i \in s + 1 .. after - 1 PROVE g[i] = << >>
        <5>1. i \in 1 .. n /\ i > s /\ ~(after <= i)
          BY <3>1, <3>5
        <5>2. i \notin S
          BY <3>5, <5>1
        <5> QED
          BY <1>1, <5>1, <5>2 DEF g, PiecesOfCut
      <4>2. after - 1 \in Nat /\ s \in 0 .. after - 1 /\ Strs(g, after - 1)
        <5>1. after - 1 \in Nat /\ s \in 0 .. after - 1
          BY <3>1, <3>5
        <5> QED
          BY <1>1, <1>2, <3>7, <5>1, StrsLess
      <4> QED
        BY <4>1, <4>2, CatEmpties
    <3>10. Str(Cat(g, k)) /\ Cat(g, s) = Then(Cat(g, k), g[s])
      <4>1. Strs(g, s)
        BY <1>1, <1>2, <3>1, StrsLess
      <4>2. Str(Cat(g, s - 1)) /\ Cat(g, s) = Then(Cat(g, s - 1), g[s])
        BY <3>1, <4>1, CatNext
      <4> QED
        BY <3>1, <4>2
    <3>11. Str(piece) /\ Str(f[after])
      <4>1. after \in 1 .. n + 1
        BY <3>1, <3>5
      <4>2. Over(f[after], Vocabulary \cup {Unknown})
        BY <4>1, FromType
      <4> QED
        BY <4>2, OverStr, StrOne DEF piece
    <3>12. Then(Then(Cat(g, k), piece), f[after]) = Then(Cat(g, k), Then(piece, f[after]))
      BY <3>10, <3>11, ThenAssociative
    <3> QED
      BY <3>4, <3>6, <3>8, <3>9, <3>10, <3>12
  <2> QED
    BY <2>1, <2>2
<1>4. ASSUME NEW k \in 0 .. n, \A m \in k + 1 .. n : m \in good PROVE k \in good
  BY <1>3, <1>4
<1> HIDE DEF good
<1>5. \A k \in 0 .. n : k \in good
  BY <1>1, <1>4, Descend
<1>6. 0 \in good /\ 0 + 1 = 1
  BY <1>1, <1>5
<1>7. Then(Cat(g, 0), f[1]) = Cat(g, n)
  BY <1>1, <1>6 DEF good
<1>8. Str(f[1])
  <2>1. 1 \in 1 .. n + 1
    BY <1>1
  <2>2. Over(f[1], Vocabulary \cup {Unknown})
    BY <2>1, FromType
  <2> QED
    BY <2>2, OverStr
<1> QED
  BY <1>7, <1>8, CatZero, ThenEmpty

\* What an element of either part is of both.
LEMMA InThen ==
    ASSUME NEW s, NEW t, Str(s), Str(t), NEW x
    PROVE  x \in ToSet(Then(s, t)) <=> x \in ToSet(s) \/ x \in ToSet(t)
<1>1. PICK S : Over(s, S)
  BY DEF Str, Over
<1>2. PICK T : Over(t, T)
  BY DEF Str, Over
<1> DEFINE U == S \cup T
<1>3. s \in Seq(U) /\ t \in Seq(U)
  BY <1>1, <1>2, OverMore
<1> HIDE DEF U
<1>4. /\ s \o t \in Seq(U) /\ Len(s) \in Nat /\ Len(t) \in Nat /\ Len(s \o t) = Len(s) + Len(t)
      /\ \A i \in 1 .. Len(s) + Len(t) :
             (s \o t)[i] = IF i <= Len(s) THEN s[i] ELSE t[i - Len(s)]
  BY <1>3, ConcatProperties, LenProperties
<1>5. DOMAIN s = 1 .. Len(s) /\ DOMAIN t = 1 .. Len(t) /\ DOMAIN (s \o t) = 1 .. Len(s) + Len(t)
  BY <1>3, <1>4, LenProperties
<1> DEFINE u == s \o t
<1>6. /\ DOMAIN u = 1 .. Len(s) + Len(t)
      /\ \A i \in 1 .. Len(s) + Len(t) : u[i] = IF i <= Len(s) THEN s[i] ELSE t[i - Len(s)]
  BY <1>4, <1>5
<1> HIDE DEF u
<1>7. ASSUME x \in ToSet(u) PROVE x \in ToSet(s) \/ x \in ToSet(t)
  <2>1. PICK i \in 1 .. Len(s) + Len(t) : u[i] = x
    BY <1>6, <1>7 DEF ToSet
  <2>2. CASE i <= Len(s)
    <3>1. i \in DOMAIN s /\ s[i] = x
      BY <1>4, <1>5, <1>6, <2>1, <2>2
    <3> QED
      BY <3>1 DEF ToSet
  <2>3. CASE ~(i <= Len(s))
    <3>1. i - Len(s) \in DOMAIN t /\ t[i - Len(s)] = x
      BY <1>4, <1>5, <1>6, <2>1, <2>3
    <3> QED
      BY <3>1 DEF ToSet
  <2> QED
    BY <2>2, <2>3
<1>8. ASSUME x \in ToSet(s) PROVE x \in ToSet(u)
  <2>1. PICK i \in DOMAIN s : s[i] = x
    BY <1>8 DEF ToSet
  <2>2. i \in DOMAIN u /\ u[i] = x
    BY <1>4, <1>5, <1>6, <2>1
  <2> QED
    BY <2>2 DEF ToSet
<1>9. ASSUME x \in ToSet(t) PROVE x \in ToSet(u)
  <2>1. PICK i \in DOMAIN t : t[i] = x
    BY <1>9 DEF ToSet
  <2>2. i + Len(s) \in DOMAIN u /\ u[i + Len(s)] = x
    BY <1>4, <1>5, <1>6, <2>1
  <2> QED
    BY <2>2 DEF ToSet
<1> QED
  BY <1>7, <1>8, <1>9 DEF u, Then

\* A cut of the rest of a word.
CutFrom(word, S, k) ==
    /\ S \in SUBSET (k .. Len(word))
    /\ k \in S \cup {Len(word) + 1}
    /\ \A i \in S : /\ Piece(word, i, After(S, word, i) - 1) \in Vocabulary
                    /\ \A j \in After(S, word, i) .. Len(word) :
                           Piece(word, i, j) \notin Vocabulary

\* The pieces that the loop takes, when it knows all of them, are those of a cut.
LEMMA CutOfPieces ==
    ASSUME NEW word, Over(word, Characters), word # << >>, NEW f, From(f, word),
           Unknown \notin ToSet(f[1])
    PROVE  Cuts(word) # {}
<1> DEFINE n == Len(word)
           good == {k \in 0 .. n : Unknown \notin ToSet(f[k + 1]) => \E S : CutFrom(word, S, k + 1)}
<1>1. n \in Nat /\ DOMAIN word = 1 .. n /\ n # 0
  BY LenProperties, EmptySeq DEF Over
<1>2. ASSUME NEW k \in 0 .. n, \A m \in k + 1 .. n : m \in good, Unknown \notin ToSet(f[k + 1])
      PROVE  \E S : CutFrom(word, S, k + 1)
  <2>1. CASE k = n
    <3>1. CutFrom(word, {}, k + 1)
      BY <1>1, <2>1 DEF CutFrom
    <3> QED
      BY <3>1
  <2>2. CASE k # n
    <3> DEFINE s == k + 1
               max == Max(Ends(word, s))
    <3>1. s \in 1 .. n
      BY <2>2
    <3>2. Ends(word, s) # {}
      <4> SUFFICES ASSUME Ends(word, s) = {} PROVE FALSE
        OBVIOUS
      <4>1. f[s] = One(Unknown)
        BY <3>1, FromAt
      <4>2. Unknown \in ToSet(One(Unknown))
        BY DEF One, ToSet
      <4> QED
        BY <1>2, <4>1, <4>2
    <3>3. /\ max \in s .. n /\ Piece(word, s, max) \in Vocabulary
          /\ \A j \in max + 1 .. n : Piece(word, s, j) \notin Vocabulary
      BY <3>1, <3>2, EndsGreatest
    <3>4. f[s] = Then(One(Piece(word, s, max)), f[max + 1])
      BY <3>1, <3>2, FromAt
    <3> HIDE DEF max
    <3>5. Unknown \notin ToSet(f[max + 1])
      <4>1. max + 1 \in 1 .. n + 1
        BY <3>1, <3>3
      <4>2. Over(f[max + 1], Vocabulary \cup {Unknown})
        BY <4>1, FromType
      <4>3. Str(f[max + 1]) /\ Str(One(Piece(word, s, max)))
        BY <4>2, OverStr, StrOne
      <4> QED
        BY <1>2, <3>4, <4>3, InThen
    <3>6. max \in k + 1 .. n /\ max \in good
      <4>1. max \in k + 1 .. n
        BY <3>3
      <4> QED
        BY <1>2, <4>1
    <3>7. PICK S : CutFrom(word, S, max + 1)
      BY <3>5, <3>6
    <3> DEFINE T == S \cup {s}
    <3>8. /\ S \in SUBSET (max + 1 .. n) /\ max + 1 \in S \cup {n + 1}
          /\ T \in SUBSET (s .. n) /\ T \in SUBSET (1 .. n) /\ S \in SUBSET (1 .. n)
      BY <1>1, <3>1, <3>3, <3>7 DEF CutFrom
    <3>9. After(T, word, s) = max + 1
      <4> DEFINE after == After(T, word, s)
      <4>1. /\ after \in s + 1 .. n + 1 /\ (after \in T \/ after = n + 1)
            /\ \A j \in T : j > s => after <= j
        BY <3>1, <3>8, AfterIs
      <4> HIDE DEF after
      <4>2. after >= max + 1
        BY <3>3, <3>8, <4>1
      <4>3. after <= max + 1
        BY <3>1, <3>3, <3>8, <4>1
      <4> QED
        BY <3>3, <4>1, <4>2, <4>3 DEF after
    <3>10. ASSUME NEW i \in S PROVE After(T, word, i) = After(S, word, i)
      <4>1. s < i
        BY <3>3, <3>8
      <4>2. {j \in T : j > i} = {j \in S : j > i}
        BY <3>8, <4>1, <3>1
      <4> QED
        BY <4>2 DEF After
    <3>11. ASSUME NEW i \in T
           PROVE  /\ Piece(word, i, After(T, word, i) - 1) \in Vocabulary
                  /\ \A j \in After(T, word, i) .. n : Piece(word, i, j) \notin Vocabulary
      <4>1. CASE i = s
        <5>1. (max + 1) - 1 = max
          BY <3>3
        <5> QED
          BY <3>3, <3>9, <4>1, <5>1
      <4>2. CASE i # s
        <5>1. i \in S
          BY <4>2
        <5> QED
          BY <3>7, <3>10, <5>1 DEF CutFrom
      <4> QED
        BY <4>1, <4>2
    <3> HIDE DEF T
    <3>12. s \in T
      BY DEF T
    <3>13. CutFrom(word, T, s)
      BY <3>8, <3>11, <3>12 DEF CutFrom
    <3> QED
      BY <3>13
  <2> QED
    BY <2>1, <2>2
<1>3. ASSUME NEW k \in 0 .. n, \A m \in k + 1 .. n : m \in good PROVE k \in good
  BY <1>2, <1>3
<1> HIDE DEF good
<1>4. \A k \in 0 .. n : k \in good
  BY <1>1, <1>3, Descend
<1>5. 0 \in good /\ 0 + 1 = 1
  BY <1>1, <1>4
<1>6. PICK S : CutFrom(word, S, 1)
  BY <1>5 DEF good
<1>7. S \in Cuts(word)
  <2>1. 1 \in S
    BY <1>1, <1>6 DEF CutFrom
  <2> QED
    BY <1>1, <1>6, <2>1 DEF CutFrom, Cuts
<1> QED
  BY <1>7

\* The loops of WordPiece find the pieces that the word is to have.
LEMMA WordPieceIs ==
    ASSUME NEW word, Over(word, Characters), word # << >>
    PROVE  WordPiece(word) = PiecesOf(word) /\ Over(PiecesOf(word), Vocabulary \cup {Unknown})
<1>0. Over(One(Unknown), Vocabulary \cup {Unknown})
  BY OverOne
<1>1. PICK f : From(f, word) /\ Pieces(word) = f[1]
  BY PiecesFrom
<1>2. CASE Len(word) > MaxInputChars
  BY <1>0, <1>2 DEF WordPiece, PiecesOf, One
<1>3. CASE ~(Len(word) > MaxInputChars) /\ Cuts(word) = {}
  <2>1. Unknown \in ToSet(Pieces(word))
    BY <1>1, <1>3, CutOfPieces
  <2> QED
    BY <1>0, <1>3, <2>1 DEF WordPiece, PiecesOf, One
<1>4. CASE ~(Len(word) > MaxInputChars) /\ Cuts(word) # {}
  <2> DEFINE S == CHOOSE S \in Cuts(word) : TRUE
  <2>1. S \in Cuts(word)
    BY <1>4
  <2>2. PiecesOf(word) = FlattenSeq(PiecesOfCut(word, S))
    BY <1>4 DEF PiecesOf, PiecesOfCut, One
  <2> HIDE DEF S
  <2>3. Pieces(word) = FlattenSeq(PiecesOfCut(word, S))
    BY <1>1, <2>1, PiecesAreOfCut, PiecesOfCutType
  <2>4. Over(Pieces(word), Vocabulary)
    BY <2>1, <2>3, PiecesOfCutType
  <2>5. Unknown \notin ToSet(Pieces(word))
    <3>1. Pieces(word) \in Seq(Vocabulary)
      BY <2>4 DEF Over
    <3>2. \A i \in DOMAIN Pieces(word) : Pieces(word)[i] \in Vocabulary
      BY <3>1
    <3> QED
      BY <3>2, UnknownIsNoPiece DEF ToSet
  <2>6. Over(Pieces(word), Vocabulary \cup {Unknown})
    <3>1. Pieces(word) \in Seq(Vocabulary \cup {Unknown})
      BY <2>4, OverMore
    <3> QED
      BY <3>1 DEF Over
  <2> QED
    BY <1>4, <2>2, <2>3, <2>5, <2>6 DEF WordPiece
<1> QED
  BY <1>2, <1>3, <1>4

-----------------------------------------------------------------------------
(* The words of a text.                                                    *)

Words == Seq(Characters) \ {<< >>}
Wording == [word \in Words |-> WordPiece(word)]

LEMMA WordingMaps == Maps(Wording, Words, Vocabulary \cup {Unknown})
<1>1. ASSUME NEW word \in Words PROVE WordPiece(word) \in Seq(Vocabulary \cup {Unknown})
  <2>1. Over(word, Characters) /\ word # << >>
    BY DEF Words, Over
  <2>2. Over(WordPiece(word), Vocabulary \cup {Unknown})
    BY <2>1, WordPieceIs
  <2> QED
    BY <2>2 DEF Over
<1> QED
  BY <1>1 DEF Maps, Wording

LEMMA PiecesOfAllNext ==
    ASSUME NEW words, Over(words, Words), NEW word, Over(word, Characters), word # << >>
    PROVE  /\ Over(Then(words, One(word)), Words)
           /\ Str(PiecesOfAll(words)) /\ Str(PiecesOf(word))
           /\ PiecesOfAll(Then(words, One(word))) = Then(PiecesOfAll(words), PiecesOf(word))
<1>1. word \in Words
  BY DEF Over, Words
<1>2. Over(Then(words, One(word)), Words)
  BY <1>1, OverOne, OverThen
<1>3. ASSUME NEW ws, Over(ws, Words) PROVE PiecesOfAll(ws) = Each(Wording, ws)
  <2>1. \A i \in DOMAIN ws : ws[i] \in Words
    BY <1>3, LenProperties, ElementOfSeq DEF Over
  <2>2. \A i \in DOMAIN ws : Wording[ws[i]] = WordPiece(ws[i])
    BY <2>1 DEF Wording
  <2>3. [i \in DOMAIN ws |-> WordPiece(ws[i])] = [i \in DOMAIN ws |-> Wording[ws[i]]]
    BY <2>2
  <2> QED
    BY <2>3 DEF PiecesOfAll, Each
<1>4. /\ Over(Wording[word], Vocabulary \cup {Unknown})
      /\ Str(Each(Wording, words))
      /\ Each(Wording, Then(words, One(word))) = Then(Each(Wording, words), Wording[word])
  BY <1>1, WordingMaps, EachNext
<1>5. Wording[word] = PiecesOf(word)
  BY <1>1, WordPieceIs DEF Wording
<1>6. Str(PiecesOf(word))
  BY <1>4, <1>5, OverStr
<1>7. PiecesOfAll(words) = Each(Wording, words)
  BY <1>3
<1>8. PiecesOfAll(Then(words, One(word))) = Each(Wording, Then(words, One(word)))
  BY <1>2, <1>3
<1> QED
  BY <1>2, <1>4, <1>5, <1>6, <1>7, <1>8

LEMMA PiecesOfNone == PiecesOfAll(<< >>) = << >>
  BY DEF PiecesOfAll, FlattenSeq

\* The loop over the letters.
NoLetter == [words |-> << >>, word |-> << >>]

Scanned(f, s) ==
    f = [i \in 0 .. Len(s) |->
            IF i = 0 THEN [words |-> << >>, word |-> << >>] ELSE AddLetter(f[i - 1], s[i])]

Scan(s) == (CHOOSE f : Scanned(f, s))[Len(s)]

LEMMA ScannedExists ==
    ASSUME NEW s, Over(s, Characters)
    PROVE  \E f : Scanned(f, s)
<1> DEFINE n == Len(s)
           Upto(f, k) == f = [i \in 0 .. k |-> IF i = 0 THEN NoLetter ELSE AddLetter(f[i - 1], s[i])]
           good == {k \in 0 .. n : \E f : Upto(f, k)}
<1>1. n \in Nat
  BY LenProperties DEF Over
<1>2. ASSUME NEW k \in 0 .. n, \A m \in 0 .. k - 1 : m \in good PROVE k \in good
  <2>1. CASE k = 0
    <3>1. Upto([i \in 0 .. 0 |-> NoLetter], 0)
      OBVIOUS
    <3> QED
      BY <2>1, <3>1
  <2>2. CASE k # 0
    <3>1. k - 1 \in 0 .. k - 1 /\ k \in 0 .. k /\ k \in Nat
      BY <2>2
    <3>2. PICK f : Upto(f, k - 1)
      BY <1>2, <3>1
    <3> DEFINE h == [i \in 0 .. k |-> IF i = k THEN AddLetter(f[k - 1], s[k]) ELSE f[i]]
    <3>3. ASSUME NEW i \in 0 .. k
          PROVE  h[i] = IF i = 0 THEN NoLetter ELSE AddLetter(h[i - 1], s[i])
      <4>1. CASE i = k
        <5>1. h[k - 1] = f[k - 1] /\ h[k] = AddLetter(f[k - 1], s[k])
          BY <2>2, <3>1
        <5> QED
          BY <2>2, <4>1, <5>1
      <4>2. CASE i # k
        <5>1. i \in 0 .. k - 1 /\ h[i] = f[i]
          BY <3>1, <4>2
        <5>2. f[i] = IF i = 0 THEN NoLetter ELSE AddLetter(f[i - 1], s[i])
          BY <3>2, <5>1
        <5>3. i # 0 => h[i - 1] = f[i - 1]
          BY <5>1
        <5> QED
          BY <5>1, <5>2, <5>3
      <4> QED
        BY <4>1, <4>2
    <3>4. h = [i \in 0 .. k |-> h[i]]
      OBVIOUS
    <3>5. Upto(h, k)
      <4> HIDE DEF h
      <4> QED
        BY <3>3, <3>4
    <3> HIDE DEF Upto
    <3> QED
      BY <3>5
  <2> QED
    BY <2>1, <2>2
<1> HIDE DEF good
<1>3. \A k \in 0 .. n : k \in good
  BY <1>1, <1>2, Climb
<1>4. n \in good
  BY <1>1, <1>3
<1>5. PICK f : Upto(f, n)
  BY <1>4 DEF good
<1>6. Scanned(f, s)
  BY <1>5 DEF Scanned, NoLetter
<1> QED
  BY <1>6

LEMMA ScannedAgree ==
    ASSUME NEW s, NEW t, NEW f, NEW h, Len(s) \in Nat, Len(t) \in Nat, Len(s) <= Len(t),
           \A i \in 1 .. Len(s) : s[i] = t[i], Scanned(f, s), Scanned(h, t)
    PROVE  f[Len(s)] = h[Len(s)]
<1> DEFINE n == Len(s)
           good == {k \in 0 .. n : f[k] = h[k]}
<1>1. ASSUME NEW k \in 0 .. n, \A m \in 0 .. k - 1 : m \in good PROVE k \in good
  <2>1. f[k] = IF k = 0 THEN NoLetter ELSE AddLetter(f[k - 1], s[k])
    BY DEF Scanned, NoLetter
  <2>2. k \in 0 .. Len(t)
    OBVIOUS
  <2>3. h[k] = IF k = 0 THEN NoLetter ELSE AddLetter(h[k - 1], t[k])
    BY <2>2 DEF Scanned, NoLetter
  <2>4. CASE k = 0
    BY <2>1, <2>3, <2>4
  <2>5. CASE k # 0
    <3>1. k \in 1 .. n /\ k - 1 \in 0 .. k - 1
      BY <2>5
    <3>2. f[k - 1] = h[k - 1] /\ s[k] = t[k]
      BY <1>1, <3>1
    <3> QED
      BY <2>1, <2>3, <2>5, <3>2
  <2> QED
    BY <2>4, <2>5
<1> HIDE DEF good
<1>2. n \in Nat
  OBVIOUS
<1>3. \A k \in 0 .. n : k \in good
  BY <1>1, <1>2, Climb
<1>4. n \in good
  BY <1>2, <1>3
<1> QED
  BY <1>4 DEF good

LEMMA ScanEmpty == Scan(<< >>) = NoLetter
<1>1. PICK f : Scanned(f, << >>)
  BY OverEmpty, ScannedExists
<1>2. Len(<< >>) = 0
  BY EmptySeq
<1> DEFINE g == CHOOSE h : Scanned(h, << >>)
<1>3. Scanned(g, << >>)
  BY <1>1
<1> HIDE DEF g
<1>4. g[0] = NoLetter
  BY <1>2, <1>3 DEF Scanned, NoLetter
<1> QED
  BY <1>2, <1>4 DEF Scan, g

LEMMA ScanNext ==
    ASSUME NEW s, Over(s, Characters), NEW c \in Characters
    PROVE  Scan(Then(s, One(c))) = AddLetter(Scan(s), c)
<1> DEFINE t == Then(s, One(c))
           n == Len(s)
           f == CHOOSE h : Scanned(h, s)
           g == CHOOSE h : Scanned(h, t)
<1>1. /\ n \in Nat /\ Len(t) = n + 1 /\ t[n + 1] = c
      /\ \A i \in 1 .. n : s[i] = t[i]
  <2>1. s \in Seq(Characters)
    BY DEF Over
  <2>2. t = Append(s, c)
    BY <2>1, AppendIsConcat DEF Then, One
  <2> QED
    BY <2>1, <2>2, AppendProperties, LenProperties
<1>2. Over(t, Characters)
  BY OverOne, OverThen
<1>3. Scanned(f, s) /\ Scanned(g, t)
  BY <1>2, ScannedExists
<1> HIDE DEF t, f, g
<1>4. f[n] = g[n]
  BY <1>1, <1>3, ScannedAgree
<1>5. g[n + 1] = AddLetter(g[n], c)
  <2>1. n + 1 \in 0 .. Len(t) /\ n + 1 # 0 /\ (n + 1) - 1 = n
    BY <1>1
  <2>2. g[n + 1] = AddLetter(g[(n + 1) - 1], t[n + 1])
    <3> HIDE DEF n
    <3> QED
      BY <1>3, <2>1 DEF Scanned
  <2> QED
    BY <1>1, <2>1, <2>2
<1>6. Scan(s) = f[n] /\ Scan(t) = g[n + 1]
  BY <1>1 DEF Scan, f, g
<1> QED
  BY <1>4, <1>5, <1>6 DEF t

LEMMA TokensIs == \A s : Tokens(s) = PiecesOfAll(Flush(Scan(s)))
  BY DEF Tokens, BasicTokenize, Scan, Scanned

\* What the loop keeps: the words that have ended, and the letters of one.
Reading(acc) == Over(acc.words, Words) /\ Over(acc.word, Characters)

LEMMA AppendIsThen ==
    ASSUME NEW S, NEW s, Over(s, S), NEW x \in S
    PROVE  Append(s, x) = Then(s, One(x))
  BY AppendIsConcat DEF Over, Then, One

LEMMA FlushIs ==
    ASSUME NEW acc, Reading(acc)
    PROVE  /\ Over(Flush(acc), Words)
           /\ Str(PiecesOfAll(acc.words)) /\ Str(PiecesOfAll(Flush(acc)))
           /\ PiecesOfAll(Flush(acc))
                = IF acc.word = << >> THEN PiecesOfAll(acc.words)
                  ELSE Then(PiecesOfAll(acc.words), PiecesOf(acc.word))
           /\ acc.word # << >> => Str(PiecesOf(acc.word))
<1>1. Over(acc.words, Words) /\ Over(acc.word, Characters)
  BY DEF Reading
<1>2. Str(PiecesOfAll(acc.words))
  <2>1. "space" \in Characters
    BY TokenizerAssumption, CharacterAssumption
  <2>2. Over(One("space"), Characters)
    BY <2>1, OverOne
  <2>3. One("space") # << >>
    BY DEF One
  <2> QED
    BY <1>1, <2>2, <2>3, PiecesOfAllNext
<1>3. CASE acc.word = << >>
  BY <1>1, <1>2, <1>3 DEF Flush
<1>4. CASE acc.word # << >>
  <2>1. acc.word \in Words
    BY <1>1, <1>4 DEF Words, Over
  <2>2. Flush(acc) = Then(acc.words, One(acc.word))
    BY <1>1, <1>4, <2>1, AppendIsThen DEF Flush
  <2>3. /\ Over(Then(acc.words, One(acc.word)), Words) /\ Str(PiecesOf(acc.word))
        /\ PiecesOfAll(Then(acc.words, One(acc.word)))
             = Then(PiecesOfAll(acc.words), PiecesOf(acc.word))
    BY <1>1, <1>4, PiecesOfAllNext
  <2>4. Str(Then(PiecesOfAll(acc.words), PiecesOf(acc.word)))
    BY <1>2, <2>3, StrThen
  <2> QED
    BY <1>2, <1>4, <2>2, <2>3, <2>4
<1> QED
  BY <1>3, <1>4

LEMMA AddLetterIs ==
    ASSUME NEW acc, Reading(acc), NEW c \in Characters
    PROVE  /\ Reading(AddLetter(acc, c))
           /\ c \in Spaces => AddLetter(acc, c) = [words |-> Flush(acc), word |-> << >>]
           /\ c \in Punctuation =>
                  AddLetter(acc, c) = [words |-> Then(Flush(acc), One(One(c))), word |-> << >>]
           /\ c \notin Spaces \cup Punctuation =>
                  AddLetter(acc, c) = [words |-> acc.words, word |-> Then(acc.word, One(c))]
<1>1. Over(acc.words, Words) /\ Over(acc.word, Characters) /\ Over(Flush(acc), Words)
  BY FlushIs DEF Reading
<1>2. Over(One(c), Characters) /\ One(c) # << >> /\ One(c) \in Words
  <2>1. Over(One(c), Characters)
    BY OverOne
  <2>2. One(c) # << >>
    BY DEF One
  <2> QED
    BY <2>1, <2>2 DEF Words, Over
<1>3. CASE c \in Spaces
  <2>1. AddLetter(acc, c) = [words |-> Flush(acc), word |-> << >>] /\ c \notin Punctuation
    BY <1>3, CharacterAssumption DEF AddLetter
  <2> QED
    BY <1>1, <1>3, <2>1, OverEmpty DEF Reading
<1>4. CASE c \in Punctuation
  <2>1. AddLetter(acc, c) = [words |-> Append(Flush(acc), One(c)), word |-> << >>] /\ c \notin Spaces
    BY <1>4, CharacterAssumption DEF AddLetter, One
  <2>2. Append(Flush(acc), One(c)) = Then(Flush(acc), One(One(c)))
    BY <1>1, <1>2, AppendIsThen
  <2>3. Over(Then(Flush(acc), One(One(c))), Words)
    BY <1>1, <1>2, OverOne, OverThen
  <2> QED
    BY <1>4, <2>1, <2>2, <2>3, OverEmpty DEF Reading
<1>5. CASE c \notin Spaces \cup Punctuation
  <2>1. AddLetter(acc, c) = [words |-> acc.words, word |-> Append(acc.word, c)]
    BY <1>5 DEF AddLetter
  <2>2. Append(acc.word, c) = Then(acc.word, One(c))
    BY <1>1, AppendIsThen
  <2>3. Over(Then(acc.word, One(c)), Characters)
    BY <1>1, <1>2, OverThen
  <2> QED
    BY <1>1, <1>5, <2>1, <2>2, <2>3 DEF Reading
<1> QED
  BY <1>3, <1>4, <1>5

LEMMA NoLetterReading == Reading(NoLetter)
  BY OverEmpty DEF Reading, NoLetter

-----------------------------------------------------------------------------
(* The ids of a marked text, from one position to the next.                *)

Ids(marked) == [j \in DOMAIN marked |-> IdsAt(marked, j)]

Marking(marked) ==
    /\ Len(marked) \in Nat /\ DOMAIN marked = 1 .. Len(marked)
    /\ \A j \in 1 .. Len(marked) :
           /\ marked[j].special => marked[j].alone
           /\ ~marked[j].special => marked[j].chars[1] \in Characters

LEMMA SpelledNext ==
    ASSUME NEW marked, Marking(marked), NEW i \in Nat \ {0}, NEW j \in i .. Len(marked),
           \A k \in i .. j : ~marked[k].special
    PROVE  /\ Spelled(marked, i, j) = Then(Spelled(marked, i, j - 1), One(marked[j].chars[1]))
           /\ Over(Spelled(marked, i, j - 1), Characters)
           /\ Over(Spelled(marked, i, j), Characters)
           /\ Spelled(marked, i, j) # << >>
<1> DEFINE n == j - i
           s == Spelled(marked, i, j - 1)
           t == Spelled(marked, i, j)
           c == marked[j].chars[1]
<1>1. n \in Nat /\ Len(marked) \in Nat
  BY DEF Marking
<1>2. ASSUME NEW k \in 1 .. n + 1 PROVE marked[i + k - 1].chars[1] \in Characters
  <2>1. i + k - 1 \in 1 .. Len(marked) /\ i + k - 1 \in i .. j
    OBVIOUS
  <2> QED
    BY <2>1 DEF Marking
<1> DEFINE letter == [k \in 1 .. n + 1 |-> marked[i + k - 1].chars[1]]
<1>3. /\ letter \in [1 .. n + 1 -> Characters]
      /\ letter[n + 1] = c
      /\ s = [k \in 1 .. n |-> letter[k]]
      /\ t = [k \in 1 .. n + 1 |-> letter[k]]
  <2>1. letter \in [1 .. n + 1 -> Characters]
    BY <1>2
  <2>2. n + 1 \in 1 .. n + 1 /\ i + (n + 1) - 1 = j
    BY <1>1
  <2>3. letter[n + 1] = c
    BY <2>2
  <2>4. (j - 1) - i + 1 = n /\ j - i + 1 = n + 1
    OBVIOUS
  <2>5. t = letter
    BY <2>4 DEF Spelled
  <2>6. s = [k \in 1 .. n |-> marked[i + k - 1].chars[1]]
    BY <2>4 DEF Spelled
  <2>7. \A k \in 1 .. n : letter[k] = marked[i + k - 1].chars[1]
    OBVIOUS
  <2> HIDE DEF letter
  <2>8. s = [k \in 1 .. n |-> letter[k]]
    BY <2>6, <2>7
  <2> QED
    BY <2>1, <2>3, <2>5, <2>8
<1> HIDE DEF s, t, c, n, letter
<1>4. /\ s \in Seq(Characters) /\ Len(s) = n
      /\ t \in Seq(Characters) /\ Len(t) = n + 1
      /\ t[n + 1] = c /\ c \in Characters
      /\ \A k \in 1 .. n : t[k] = s[k]
  BY <1>1, <1>3
<1>5. t = Append(s, c)
  BY <1>1, <1>4
<1>6. t = Then(s, One(c))
  BY <1>4, <1>5, AppendIsConcat DEF Then, One
<1>7. t # << >>
  BY <1>1, <1>4
<1> QED
  BY <1>4, <1>6, <1>7 DEF Over, s, t, c

LEMMA SpelledNone == \A marked, i : i \in Nat => Spelled(marked, i + 1, i) = << >>
<1> SUFFICES ASSUME NEW marked, NEW i \in Nat PROVE Spelled(marked, i + 1, i) = << >>
  OBVIOUS
<1>1. 1 .. i - (i + 1) + 1 = {}
  OBVIOUS
<1> QED
  BY <1>1 DEF Spelled

LEMMA JoinsKind ==
    ASSUME NEW marked, Marking(marked), NEW j \in Nat, Joins(marked, j)
    PROVE  j \in 1 .. Len(marked) /\ ~marked[j].alone /\ ~marked[j].special
  BY DEF Joins, Marking

\* Where the word begins that a position joins.
LEMMA BeginExists ==
    ASSUME NEW marked, Marking(marked), NEW j \in 1 .. Len(marked), Joins(marked, j)
    PROVE  \E i \in 1 .. j : BeginsWord(marked, i, j)
<1> DEFINE good == {k \in 1 .. j : Joins(marked, k) => \E i \in 1 .. k : BeginsWord(marked, i, k)}
<1>1. ASSUME NEW k \in 1 .. j, \A m \in 1 .. k - 1 : m \in good PROVE k \in good
  <2> SUFFICES ASSUME Joins(marked, k) PROVE \E i \in 1 .. k : BeginsWord(marked, i, k)
    OBVIOUS
  <2>1. CASE ~Joins(marked, k - 1)
    <3>1. BeginsWord(marked, k, k)
      BY <2>1 DEF BeginsWord
    <3> QED
      BY <3>1
  <2>2. CASE Joins(marked, k - 1)
    <3>1. k - 1 \in 1 .. Len(marked)
      BY <2>2, JoinsKind
    <3>2. k - 1 \in 1 .. k - 1
      BY <3>1
    <3>3. PICK i \in 1 .. k - 1 : BeginsWord(marked, i, k - 1)
      BY <1>1, <2>2, <3>2
    <3>4. ~marked[k - 1].alone
      BY <2>2, <3>1, JoinsKind
    <3>5. (\A m \in i .. k - 1 : Joins(marked, m)) /\ ~Joins(marked, i - 1)
      BY <3>3, <3>4 DEF BeginsWord
    <3>6. \A m \in i .. k : Joins(marked, m)
      BY <3>5
    <3>7. i \in 1 .. k /\ i <= k
      OBVIOUS
    <3>8. BeginsWord(marked, i, k)
      BY <3>5, <3>6, <3>7 DEF BeginsWord
    <3> QED
      BY <3>7, <3>8
  <2> QED
    BY <2>1, <2>2
<1> HIDE DEF good
<1>2. j \in Nat /\ 1 \in Nat /\ j \in 1 .. j
  BY DEF Marking
<1>3. j \in good
  BY <1>1, <1>2, Climb
<1> QED
  BY <1>3 DEF good

\* It is one place.
LEMMA BeginIs ==
    ASSUME NEW marked, Marking(marked), NEW j \in 1 .. Len(marked), NEW s \in 1 .. j,
           BeginsWord(marked, s, j)
    PROVE  (CHOOSE i \in 1 .. j : BeginsWord(marked, i, j)) = s
<1>1. ASSUME NEW i \in 1 .. j, BeginsWord(marked, i, j) PROVE i = s
  <2>1. CASE marked[j].alone
    <3>1. ~Joins(marked, j)
      BY <2>1 DEF Joins
    <3> QED
      BY <1>1, <3>1 DEF BeginsWord
  <2>2. CASE ~marked[j].alone
    <3>1. (\A k \in i .. j : Joins(marked, k)) /\ ~Joins(marked, i - 1)
      BY <1>1, <2>2 DEF BeginsWord
    <3>2. (\A k \in s .. j : Joins(marked, k)) /\ ~Joins(marked, s - 1)
      BY <2>2 DEF BeginsWord
    <3>3. ~(i < s)
      <4> SUFFICES ASSUME i < s PROVE FALSE
        OBVIOUS
      <4>1. s - 1 \in i .. j
        OBVIOUS
      <4> QED
        BY <3>1, <3>2, <4>1
    <3>4. ~(s < i)
      <4> SUFFICES ASSUME s < i PROVE FALSE
        OBVIOUS
      <4>1. i - 1 \in s .. j
        OBVIOUS
      <4> QED
        BY <3>1, <3>2, <4>1
    <3> QED
      BY <3>3, <3>4
  <2> QED
    BY <2>1, <2>2
<1> QED
  BY <1>1

\* The ids at a position, by what stands there.
LEMMA IdsAtIs ==
    ASSUME NEW marked, Marking(marked), NEW j \in 1 .. Len(marked)
    PROVE  /\ marked[j].special => IdsAt(marked, j) = One(Special(marked[j].chars))
           /\ marked[j].alone /\ ~marked[j].special =>
                  IdsAt(marked, j) = PiecesOf(One(marked[j].chars[1]))
           /\ ~marked[j].alone /\ ~Joins(marked, j) => IdsAt(marked, j) = << >>
           /\ Joins(marked, j) /\ Joins(marked, j + 1) => IdsAt(marked, j) = << >>
           /\ \A s \in 1 .. j :
                  /\ \A k \in s .. j : Joins(marked, k)
                  /\ ~Joins(marked, s - 1) /\ ~Joins(marked, j + 1)
                  => IdsAt(marked, j) = PiecesOf(Spelled(marked, s, j))
<1>1. marked[j].special => marked[j].alone
  BY DEF Marking
<1>2. ASSUME marked[j].special PROVE IdsAt(marked, j) = One(Special(marked[j].chars))
  BY <1>1, <1>2 DEF IdsAt, EndsWord, One
<1>3. ASSUME marked[j].alone, ~marked[j].special
      PROVE  IdsAt(marked, j) = PiecesOf(One(marked[j].chars[1]))
  <2>1. BeginsWord(marked, j, j) /\ j \in 1 .. j
    BY <1>3 DEF BeginsWord
  <2>2. (CHOOSE i \in 1 .. j : BeginsWord(marked, i, j)) = j
    BY <2>1, BeginIs
  <2>3. IdsAt(marked, j) = PiecesOf(Spelled(marked, j, j))
    BY <1>3, <2>2 DEF IdsAt, EndsWord
  <2>4. Spelled(marked, j, j) = Then(Spelled(marked, j, j - 1), One(marked[j].chars[1]))
    <3>1. j \in Nat \ {0} /\ j \in j .. Len(marked) /\ \A k \in j .. j : ~marked[k].special
      BY <1>3
    <3> QED
      BY <3>1, SpelledNext
  <2>5. Spelled(marked, j, j - 1) = << >>
    <3>1. j - 1 \in Nat /\ (j - 1) + 1 = j
      OBVIOUS
    <3>2. Spelled(marked, (j - 1) + 1, j - 1) = << >>
      BY <3>1, SpelledNone
    <3> QED
      BY <3>1, <3>2
  <2> QED
    BY <2>3, <2>4, <2>5, StrOne, ThenEmpty
<1>4. ASSUME ~marked[j].alone, ~Joins(marked, j) PROVE IdsAt(marked, j) = << >>
  BY <1>4 DEF IdsAt, EndsWord
<1>5. ASSUME Joins(marked, j), Joins(marked, j + 1) PROVE IdsAt(marked, j) = << >>
  BY <1>5, JoinsKind DEF IdsAt, EndsWord
<1>6. ASSUME NEW s \in 1 .. j, \A k \in s .. j : Joins(marked, k),
             ~Joins(marked, s - 1), ~Joins(marked, j + 1)
      PROVE  IdsAt(marked, j) = PiecesOf(Spelled(marked, s, j))
  <2>1. BeginsWord(marked, s, j) /\ Joins(marked, j)
    BY <1>6 DEF BeginsWord
  <2>2. (CHOOSE i \in 1 .. j : BeginsWord(marked, i, j)) = s
    BY <2>1, BeginIs
  <2>3. ~marked[j].special /\ EndsWord(marked, j)
    BY <1>6, <2>1, JoinsKind DEF EndsWord
  <2> QED
    BY <2>2, <2>3 DEF IdsAt
<1> QED
  BY <1>2, <1>3, <1>4, <1>5, <1>6

LEMMA IdsStrs ==
    ASSUME NEW marked, Marking(marked)
    PROVE  Strs(Ids(marked), Len(marked))
<1>1. ASSUME NEW j \in 1 .. Len(marked) PROVE Str(IdsAt(marked, j))
  <2>1. CASE marked[j].special
    BY <2>1, IdsAtIs, StrOne
  <2>2. CASE marked[j].alone /\ ~marked[j].special
    <3> DEFINE c == marked[j].chars[1]
    <3>1. c \in Characters
      BY <2>2 DEF Marking
    <3> HIDE DEF c
    <3>2. Over(One(c), Characters) /\ One(c) # << >>
      BY <3>1, OverOne DEF One
    <3>3. Str(PiecesOf(One(c)))
      BY <3>2, WordPieceIs, OverStr
    <3> QED
      BY <2>2, <3>3, IdsAtIs DEF c
  <2>3. CASE ~marked[j].alone /\ ~Joins(marked, j)
    BY <2>3, IdsAtIs, StrEmpty
  <2>4. CASE Joins(marked, j) /\ Joins(marked, j + 1)
    BY <2>4, IdsAtIs, StrEmpty
  <2>5. CASE Joins(marked, j) /\ ~Joins(marked, j + 1)
    <3>1. PICK s \in 1 .. j : BeginsWord(marked, s, j)
      BY <2>5, BeginExists
    <3>2. ~marked[j].alone
      BY <2>5, JoinsKind
    <3>3. (\A k \in s .. j : Joins(marked, k)) /\ ~Joins(marked, s - 1)
      BY <3>1, <3>2 DEF BeginsWord
    <3>4. \A k \in s .. j : ~marked[k].special
      BY <3>3, JoinsKind
    <3>5. Over(Spelled(marked, s, j), Characters) /\ Spelled(marked, s, j) # << >>
      <4>1. s \in Nat \ {0} /\ j \in s .. Len(marked)
        OBVIOUS
      <4> QED
        BY <3>4, <4>1, SpelledNext
    <3>6. Str(PiecesOf(Spelled(marked, s, j)))
      BY <3>5, WordPieceIs, OverStr
    <3> QED
      BY <2>5, <3>3, <3>6, IdsAtIs
  <2>6. Joins(marked, j) => ~marked[j].alone
    BY JoinsKind
  <2> QED
    BY <2>1, <2>2, <2>3, <2>4, <2>5, <2>6
<1>2. \A j \in 1 .. Len(marked) : Ids(marked)[j] = IdsAt(marked, j)
  BY DEF Ids, Marking
<1> QED
  BY <1>1, <1>2 DEF Strs

LEMMA IdsNext ==
    ASSUME NEW marked, Marking(marked), NEW j \in 1 .. Len(marked)
    PROVE  /\ Str(Cat(Ids(marked), j - 1)) /\ Str(Cat(Ids(marked), j)) /\ Str(IdsAt(marked, j))
           /\ Cat(Ids(marked), j) = Then(Cat(Ids(marked), j - 1), IdsAt(marked, j))
<1>1. Strs(Ids(marked), Len(marked)) /\ Len(marked) \in Nat
  BY IdsStrs DEF Marking
<1>2. j \in Nat \ {0} /\ j \in 0 .. Len(marked)
  OBVIOUS
<1>3. Strs(Ids(marked), j)
  BY <1>1, <1>2, StrsLess
<1>4. /\ Str(Cat(Ids(marked), j - 1)) /\ Str(Cat(Ids(marked), j)) /\ Str(Ids(marked)[j])
      /\ Cat(Ids(marked), j) = Then(Cat(Ids(marked), j - 1), Ids(marked)[j])
  BY <1>2, <1>3, CatNext
<1>5. Ids(marked)[j] = IdsAt(marked, j)
  BY DEF Ids, Marking
<1> QED
  BY <1>4, <1>5

\* A word is open at a position: what came before it, and its letters.
Reads(marked, j, out, word) ==
    \E s \in 1 .. j + 1 :
        /\ \A k \in s .. j : Joins(marked, k)
        /\ ~Joins(marked, s - 1)
        /\ out = Cat(Ids(marked), s - 1)
        /\ word = Spelled(marked, s, j)

LEMMA ReadsAfter ==
    ASSUME NEW marked, NEW j \in Nat, ~Joins(marked, j)
    PROVE  Reads(marked, j, Cat(Ids(marked), j), << >>)
<1>1. j + 1 \in 1 .. j + 1 /\ (j + 1) - 1 = j /\ j + 1 .. j = {}
  OBVIOUS
<1>2. Spelled(marked, j + 1, j) = << >>
  BY SpelledNone
<1> QED
  BY <1>1, <1>2 DEF Reads

LEMMA ReadsOn ==
    ASSUME NEW marked, Marking(marked), NEW j \in 1 .. Len(marked), Joins(marked, j),
           NEW out, NEW word, Reads(marked, j - 1, out, word)
    PROVE  Reads(marked, j, out, Then(word, One(marked[j].chars[1])))
<1>1. PICK s \in 1 .. (j - 1) + 1 :
        /\ \A k \in s .. j - 1 : Joins(marked, k)
        /\ ~Joins(marked, s - 1)
        /\ out = Cat(Ids(marked), s - 1)
        /\ word = Spelled(marked, s, j - 1)
  BY DEF Reads
<1>2. s \in Nat \ {0} /\ j \in s .. Len(marked) /\ s \in 1 .. j + 1
  OBVIOUS
<1>3. \A k \in s .. j : Joins(marked, k)
  BY <1>1
<1>4. \A k \in s .. j : ~marked[k].special
  BY <1>3, JoinsKind
<1>5. Spelled(marked, s, j) = Then(Spelled(marked, s, j - 1), One(marked[j].chars[1]))
  BY <1>2, <1>4, SpelledNext
<1> QED
  BY <1>1, <1>2, <1>3, <1>5 DEF Reads

LEMMA ReadsEnd ==
    ASSUME NEW marked, Marking(marked), NEW j \in 0 .. Len(marked), ~Joins(marked, j + 1),
           NEW out, NEW word, Reads(marked, j, out, word)
    PROVE  Cat(Ids(marked), j) = IF word = << >> THEN out ELSE Then(out, PiecesOf(word))
<1>1. PICK s \in 1 .. j + 1 :
        /\ \A k \in s .. j : Joins(marked, k)
        /\ ~Joins(marked, s - 1)
        /\ out = Cat(Ids(marked), s - 1)
        /\ word = Spelled(marked, s, j)
  BY DEF Reads
<1>2. CASE s = j + 1
  <2>1. j \in Nat /\ s - 1 = j
    BY <1>2
  <2>2. word = << >>
    BY <1>1, <1>2, <2>1, SpelledNone
  <2> QED
    BY <1>1, <2>1, <2>2
<1>3. CASE s # j + 1
  <2>1. s \in 1 .. j /\ j \in 1 .. Len(marked) /\ s - 1 \in 0 .. j - 1 /\ j - 1 \in Nat
        /\ s \in Nat \ {0} /\ j \in s .. Len(marked) /\ j \in Nat /\ j - 1 \in 0 .. Len(marked)
    BY <1>3 DEF Marking
  <2>2. \A k \in s .. j : ~marked[k].special
    BY <1>1, <2>1, JoinsKind
  <2>3. word # << >>
    BY <1>1, <2>1, <2>2, SpelledNext
  <2>4. IdsAt(marked, j) = PiecesOf(word)
    BY <1>1, <2>1, IdsAtIs
  <2>5. \A k \in (s - 1) + 1 .. j - 1 : Ids(marked)[k] = << >>
    <3> SUFFICES ASSUME NEW k \in s .. j - 1 PROVE Ids(marked)[k] = << >>
      BY <2>1
    <3>1. k \in 1 .. Len(marked) /\ k \in s .. j /\ k + 1 \in s .. j
      BY <2>1
    <3>2. IdsAt(marked, k) = << >>
      BY <1>1, <3>1, IdsAtIs
    <3> QED
      BY <3>1, <3>2 DEF Ids, Marking
  <2>6. Cat(Ids(marked), j - 1) = Cat(Ids(marked), s - 1)
    <3>1. Strs(Ids(marked), Len(marked)) /\ Len(marked) \in Nat
      BY IdsStrs DEF Marking
    <3>2. Strs(Ids(marked), j - 1)
      BY <2>1, <3>1, StrsLess
    <3> QED
      BY <2>1, <2>5, <3>2, CatEmpties
  <2>7. Cat(Ids(marked), j) = Then(Cat(Ids(marked), j - 1), IdsAt(marked, j))
    BY <2>1, IdsNext
  <2> QED
    BY <1>1, <2>3, <2>4, <2>6, <2>7
<1> QED
  BY <1>2, <1>3

-----------------------------------------------------------------------------
(* The loop over the letters keeps up with the marked text.                *)

\* After j marked characters, of which those before some segment gave base.
Matches(marked, j, base, acc) ==
    /\ Reading(acc) /\ Str(base)
    /\ Reads(marked, j, Then(base, PiecesOfAll(acc.words)), acc.word)

LEMMA MatchesEnd ==
    ASSUME NEW marked, Marking(marked), NEW j \in 0 .. Len(marked), ~Joins(marked, j + 1),
           NEW base, NEW acc, Matches(marked, j, base, acc)
    PROVE  Cat(Ids(marked), j) = Then(base, PiecesOfAll(Flush(acc)))
<1>1. Reading(acc) /\ Str(base)
      /\ Reads(marked, j, Then(base, PiecesOfAll(acc.words)), acc.word)
  BY DEF Matches
<1>2. /\ Str(PiecesOfAll(acc.words))
      /\ PiecesOfAll(Flush(acc))
           = IF acc.word = << >> THEN PiecesOfAll(acc.words)
             ELSE Then(PiecesOfAll(acc.words), PiecesOf(acc.word))
      /\ acc.word # << >> => Str(PiecesOf(acc.word))
  BY <1>1, FlushIs
<1>3. Cat(Ids(marked), j)
        = IF acc.word = << >> THEN Then(base, PiecesOfAll(acc.words))
          ELSE Then(Then(base, PiecesOfAll(acc.words)), PiecesOf(acc.word))
  BY <1>1, ReadsEnd
<1>4. CASE acc.word = << >>
  BY <1>2, <1>3, <1>4
<1>5. CASE acc.word # << >>
  <2>1. Then(Then(base, PiecesOfAll(acc.words)), PiecesOf(acc.word))
          = Then(base, Then(PiecesOfAll(acc.words), PiecesOf(acc.word)))
    BY <1>1, <1>2, <1>5, ThenAssociative
  <2> QED
    BY <1>2, <1>3, <1>5, <2>1
<1> QED
  BY <1>4, <1>5

\* After what stands alone, or a space, the words are all that there is.
LEMMA MatchesAfter ==
    ASSUME NEW marked, NEW j \in Nat, ~Joins(marked, j),
           NEW base, Str(base), NEW acc, Reading(acc), acc.word = << >>,
           Cat(Ids(marked), j) = Then(base, PiecesOfAll(acc.words))
    PROVE  Matches(marked, j, base, acc)
<1>1. Reads(marked, j, Cat(Ids(marked), j), << >>)
  BY ReadsAfter
<1> QED
  BY <1>1 DEF Matches

LEMMA MatchesAlone ==
    ASSUME NEW marked, Marking(marked), NEW j \in 1 .. Len(marked),
           marked[j].alone, ~marked[j].special,
           NEW base, NEW acc, Matches(marked, j - 1, base, acc),
           NEW c \in Characters, marked[j].chars[1] = c,
           NEW next, Reading(next), next.word = << >>,
           next.words = Then(Flush(acc), One(One(c)))
    PROVE  Matches(marked, j, base, next)
<1>1. ~Joins(marked, j) /\ (j - 1) + 1 = j /\ j - 1 \in 0 .. Len(marked) /\ j \in Nat
  BY DEF Joins
<1>2. Reading(acc) /\ Str(base)
  BY DEF Matches
<1>3. Cat(Ids(marked), j - 1) = Then(base, PiecesOfAll(Flush(acc)))
  BY <1>1, MatchesEnd
<1>4. Cat(Ids(marked), j) = Then(Cat(Ids(marked), j - 1), PiecesOf(One(c)))
  <2>1. IdsAt(marked, j) = PiecesOf(One(c))
    BY IdsAtIs
  <2> QED
    BY <2>1, IdsNext
<1>5. Over(Flush(acc), Words) /\ Over(One(c), Characters) /\ One(c) # << >>
  BY <1>2, FlushIs, OverOne DEF One
<1>6. /\ Str(PiecesOfAll(Flush(acc))) /\ Str(PiecesOf(One(c)))
      /\ PiecesOfAll(next.words) = Then(PiecesOfAll(Flush(acc)), PiecesOf(One(c)))
  BY <1>5, PiecesOfAllNext
<1>7. Cat(Ids(marked), j) = Then(base, PiecesOfAll(next.words))
  BY <1>2, <1>3, <1>4, <1>6, ThenAssociative
<1> QED
  BY <1>1, <1>2, <1>7, MatchesAfter

LEMMA MatchesLetter ==
    ASSUME NEW marked, Marking(marked), NEW j \in 1 .. Len(marked), ~marked[j].special,
           NEW c \in Characters, marked[j].chars[1] = c, marked[j].alone <=> c \in Punctuation,
           NEW base, NEW acc, Matches(marked, j - 1, base, acc)
    PROVE  Matches(marked, j, base, AddLetter(acc, c))
<1> DEFINE next == AddLetter(acc, c)
<1>1. Reading(acc) /\ Str(base)
      /\ Reads(marked, j - 1, Then(base, PiecesOfAll(acc.words)), acc.word)
  BY DEF Matches
<1>2. Reading(next)
  BY <1>1, AddLetterIs
<1>3. (j - 1) + 1 = j /\ j - 1 \in 0 .. Len(marked) /\ j \in Nat
  OBVIOUS
<1>4. CASE c \in Punctuation
  <2>1. next.word = << >> /\ next.words = Then(Flush(acc), One(One(c)))
    BY <1>1, <1>4, AddLetterIs
  <2> HIDE DEF next
  <2>2. marked[j].alone
    BY <1>4
  <2>3. Matches(marked, j, base, next)
    BY <1>2, <2>1, <2>2, MatchesAlone
  <2> QED
    BY <2>3 DEF next
<1>5. CASE c \in Spaces
  <2>1. next.word = << >> /\ next.words = Flush(acc)
    BY <1>1, <1>5, AddLetterIs
  <2>2. ~marked[j].alone /\ ~Joins(marked, j)
    BY <1>5, CharacterAssumption DEF Joins
  <2>3. Cat(Ids(marked), j - 1) = Then(base, PiecesOfAll(Flush(acc)))
    BY <1>3, <2>2, MatchesEnd
  <2>4. Cat(Ids(marked), j) = Cat(Ids(marked), j - 1)
    <3>1. IdsAt(marked, j) = << >>
      BY <2>2, IdsAtIs
    <3>2. /\ Str(Cat(Ids(marked), j - 1))
          /\ Cat(Ids(marked), j) = Then(Cat(Ids(marked), j - 1), IdsAt(marked, j))
      BY IdsNext
    <3> QED
      BY <3>1, <3>2, ThenEmpty
  <2>5. Cat(Ids(marked), j) = Then(base, PiecesOfAll(next.words))
    BY <2>1, <2>3, <2>4
  <2> HIDE DEF next
  <2>6. Matches(marked, j, base, next)
    BY <1>1, <1>2, <1>3, <2>1, <2>2, <2>5, MatchesAfter
  <2> QED
    BY <2>6 DEF next
<1>6. CASE c \notin Spaces \cup Punctuation
  <2>1. next.words = acc.words /\ next.word = Then(acc.word, One(c))
    BY <1>1, <1>6, AddLetterIs
  <2>2. Joins(marked, j)
    BY <1>6 DEF Joins, Marking
  <2>3. Reads(marked, j, Then(base, PiecesOfAll(acc.words)), Then(acc.word, One(c)))
    BY <1>1, <2>2, ReadsOn
  <2> HIDE DEF next
  <2>4. Matches(marked, j, base, next)
    BY <1>1, <1>2, <2>1, <2>3 DEF Matches
  <2> QED
    BY <2>4 DEF next
<1> QED
  BY <1>4, <1>5, <1>6

\* A space on each side lets an ideograph stand alone.
LEMMA MatchesIdeograph ==
    ASSUME NEW marked, Marking(marked), NEW j \in 1 .. Len(marked), ~marked[j].special,
           NEW c \in Characters \ Spaces, marked[j].chars[1] = c, marked[j].alone,
           NEW base, NEW acc, Matches(marked, j - 1, base, acc)
    PROVE  Matches(marked, j, base, AddLetter(AddLetter(AddLetter(acc, "space"), c), "space"))
<1> DEFINE first == AddLetter(acc, "space")
           second == AddLetter(first, c)
           third == AddLetter(second, "space")
<1>1. "space" \in Characters /\ "space" \in Spaces
  BY TokenizerAssumption, CharacterAssumption
<1>2. Reading(acc)
  BY DEF Matches
<1>3. Reading(first) /\ first = [words |-> Flush(acc), word |-> << >>]
  BY <1>1, <1>2, AddLetterIs
<1>4. Over(Flush(acc), Words) /\ Flush(first) = Flush(acc) /\ first.word = << >>
  <2>1. first.words = Flush(acc) /\ first.word = << >>
    BY <1>3
  <2>2. \A a : a.word = << >> => Flush(a) = a.words
    BY DEF Flush
  <2> HIDE DEF first
  <2> QED
    BY <1>2, <2>1, <2>2, FlushIs
<1> HIDE DEF first
<1>5. Reading(second) /\ Flush(second) = Then(Flush(acc), One(One(c)))
  <2>1. Reading(second)
    BY <1>3, AddLetterIs
  <2>2. CASE c \in Punctuation
    <3>1. second = [words |-> Then(Flush(first), One(One(c))), word |-> << >>]
      BY <1>3, <2>2, AddLetterIs
    <3> QED
      BY <1>4, <2>1, <3>1 DEF Flush
  <2>3. CASE c \notin Punctuation
    <3>1. second = [words |-> first.words, word |-> Then(first.word, One(c))]
      BY <1>3, <2>3, AddLetterIs
    <3>2. Then(first.word, One(c)) = One(c)
      BY <1>4, StrOne, ThenEmpty
    <3>3. second.words = Flush(acc) /\ second.word = One(c)
      BY <1>3, <3>1, <3>2
    <3>4. Over(One(c), Characters) /\ One(c) # << >>
      BY OverOne DEF One
    <3>5. One(c) \in Words
      BY <3>4 DEF Words, Over
    <3>6. Append(Flush(acc), One(c)) = Then(Flush(acc), One(One(c)))
      BY <1>4, <3>5, AppendIsThen
    <3> HIDE DEF second
    <3>7. Flush(second) = Append(Flush(acc), One(c))
      BY <3>3, <3>4 DEF Flush
    <3> QED
      BY <2>1, <3>6, <3>7 DEF second
  <2> QED
    BY <2>2, <2>3
<1> HIDE DEF second
<1>6. Reading(third) /\ third = [words |-> Flush(second), word |-> << >>]
  BY <1>1, <1>5, AddLetterIs
<1>7. third.word = << >> /\ third.words = Then(Flush(acc), One(One(c)))
  BY <1>5, <1>6
<1> HIDE DEF third
<1>8. Matches(marked, j, base, third)
  BY <1>6, <1>7, MatchesAlone
<1> QED
  BY <1>8 DEF third, second, first

LEMMA MatchesSpecial ==
    ASSUME NEW marked, Marking(marked), NEW j \in 1 .. Len(marked), marked[j].special,
           NEW base, NEW acc, Matches(marked, j - 1, base, acc)
    PROVE  LET given == Then(base, Then(PiecesOfAll(Flush(acc)), One(Special(marked[j].chars))))
           IN  Matches(marked, j, given, NoLetter)
<1> DEFINE special == One(Special(marked[j].chars))
           given == Then(base, Then(PiecesOfAll(Flush(acc)), special))
<1>1. ~Joins(marked, j) /\ (j - 1) + 1 = j /\ j - 1 \in 0 .. Len(marked) /\ j \in Nat
  BY DEF Joins, Marking
<1>2. Reading(acc) /\ Str(base)
  BY DEF Matches
<1>3. Cat(Ids(marked), j - 1) = Then(base, PiecesOfAll(Flush(acc)))
  BY <1>1, MatchesEnd
<1>4. Cat(Ids(marked), j) = Then(Cat(Ids(marked), j - 1), special)
  <2>1. IdsAt(marked, j) = special
    BY IdsAtIs
  <2> QED
    BY <2>1, IdsNext
<1>5. Str(special) /\ Str(PiecesOfAll(Flush(acc)))
  BY <1>2, StrOne, FlushIs
<1> HIDE DEF special
<1>6. Str(given) /\ Cat(Ids(marked), j) = given
  BY <1>2, <1>3, <1>4, <1>5, StrThen, ThenAssociative
<1> HIDE DEF given
<1>7. Cat(Ids(marked), j) = Then(given, PiecesOfAll(NoLetter.words)) /\ NoLetter.word = << >>
  BY <1>6, ThenEmpty, PiecesOfNone DEF NoLetter
<1>8. Matches(marked, j, given, NoLetter)
  BY <1>1, <1>6, <1>7, NoLetterReading, MatchesAfter
<1> QED
  BY <1>8 DEF given, special

-----------------------------------------------------------------------------
(* A flat sequence, by its parts.                                          *)

LEMMA ThenAt ==
    ASSUME NEW s, NEW t, Str(s), Str(t)
    PROVE  /\ DOMAIN s = 1 .. Len(s) /\ DOMAIN t = 1 .. Len(t)
           /\ DOMAIN Then(s, t) = 1 .. Len(s) + Len(t)
           /\ \A i \in 1 .. Len(s) : Then(s, t)[i] = s[i]
           /\ \A i \in 1 .. Len(t) : Then(s, t)[Len(s) + i] = t[i]
<1>1. PICK S : Over(s, S)
  BY DEF Str, Over
<1>2. PICK T : Over(t, T)
  BY DEF Str, Over
<1> DEFINE U == S \cup T
<1>3. s \in Seq(U) /\ t \in Seq(U)
  BY <1>1, <1>2, OverMore
<1> HIDE DEF U
<1> DEFINE u == s \o t
<1>4. /\ u \in Seq(U) /\ Len(s) \in Nat /\ Len(t) \in Nat /\ Len(u) = Len(s) + Len(t)
      /\ \A i \in 1 .. Len(s) + Len(t) : u[i] = IF i <= Len(s) THEN s[i] ELSE t[i - Len(s)]
  BY <1>3, ConcatProperties, LenProperties
<1> HIDE DEF u
<1>5. DOMAIN s = 1 .. Len(s) /\ DOMAIN t = 1 .. Len(t) /\ DOMAIN u = 1 .. Len(s) + Len(t)
  BY <1>3, <1>4, LenProperties
<1>6. ASSUME NEW i \in 1 .. Len(s) PROVE u[i] = s[i]
  BY <1>4
<1>7. ASSUME NEW i \in 1 .. Len(t) PROVE u[Len(s) + i] = t[i]
  <2>1. Len(s) + i \in 1 .. Len(s) + Len(t) /\ ~(Len(s) + i <= Len(s)) /\ (Len(s) + i) - Len(s) = i
    BY <1>4
  <2> QED
    BY <1>4, <2>1
<1> QED
  BY <1>5, <1>6, <1>7 DEF u, Then

MadeOf(s, g, n) ==
    \A j \in 1 .. Len(s) : \E i \in 1 .. n : \E k \in 1 .. Len(g[i]) : s[j] = g[i][k]

Stands(g, n, i) ==
    /\ Len(Cat(g, i - 1)) \in Nat /\ Len(g[i]) \in Nat
    /\ Len(Cat(g, i)) = Len(Cat(g, i - 1)) + Len(g[i])
    /\ Len(Cat(g, i)) <= Len(Cat(g, n))
    /\ \A k \in 1 .. Len(g[i]) : Cat(g, n)[Len(Cat(g, i - 1)) + k] = g[i][k]

\* Where the parts stand in the whole, and that nothing else does.
LEMMA CatAt ==
    ASSUME NEW n \in Nat, NEW g, Strs(g, n)
    PROVE  /\ Len(Cat(g, n)) \in Nat /\ DOMAIN Cat(g, n) = 1 .. Len(Cat(g, n))
           /\ \A i \in 1 .. n : Stands(g, n, i)
           /\ MadeOf(Cat(g, n), g, n)
<1> DEFINE At(m) == \A i \in 1 .. m :
                        /\ Len(Cat(g, i)) <= Len(Cat(g, m))
                        /\ \A k \in 1 .. Len(g[i]) : Cat(g, m)[Len(Cat(g, i - 1)) + k] = g[i][k]
           All(m) == \A j \in 1 .. Len(Cat(g, m)) :
                         \E i \in 1 .. m : \E k \in 1 .. Len(g[i]) : Cat(g, m)[j] = g[i][k]
           good == {m \in 0 .. n : At(m) /\ All(m)}
<1>1. ASSUME NEW i \in 1 .. n
      PROVE  /\ Str(Cat(g, i - 1)) /\ Str(g[i]) /\ Str(Cat(g, i))
             /\ Cat(g, i) = Then(Cat(g, i - 1), g[i])
             /\ Len(Cat(g, i - 1)) \in Nat /\ Len(g[i]) \in Nat
             /\ Len(Cat(g, i)) = Len(Cat(g, i - 1)) + Len(g[i])
  <2>1. i \in Nat \ {0} /\ Strs(g, i)
    BY StrsLess
  <2>2. /\ Str(Cat(g, i - 1)) /\ Str(g[i]) /\ Str(Cat(g, i))
        /\ Cat(g, i) = Then(Cat(g, i - 1), g[i])
    BY <2>1, CatNext
  <2> QED
    BY <2>2, StrThen
<1>2. ASSUME NEW m \in 0 .. n, \A l \in 0 .. m - 1 : l \in good PROVE m \in good
  <2>1. CASE m = 0
    <3>1. Len(Cat(g, 0)) = 0
      BY CatZero, EmptySeq
    <3> QED
      BY <2>1, <3>1
  <2>2. CASE m # 0
    <3> DEFINE p == Cat(g, m - 1)
               q == Cat(g, m)
               b == g[m]
    <3>1. m \in 1 .. n /\ m - 1 \in 0 .. m - 1
      BY <2>2
    <3>2. At(m - 1) /\ All(m - 1)
      BY <1>2, <3>1
    <3>3. /\ Str(p) /\ Str(b) /\ q = Then(p, b)
          /\ Len(p) \in Nat /\ Len(b) \in Nat /\ Len(q) = Len(p) + Len(b)
      BY <1>1, <3>1
    <3> HIDE DEF p, q, b
    <3>4. /\ \A i \in 1 .. Len(p) : q[i] = p[i]
          /\ \A i \in 1 .. Len(b) : q[Len(p) + i] = b[i]
      BY <3>3, ThenAt
    <3>5. At(m)
      <4>1. ASSUME NEW i \in 1 .. m
            PROVE  /\ Len(Cat(g, i)) <= Len(q)
                   /\ \A k \in 1 .. Len(g[i]) : q[Len(Cat(g, i - 1)) + k] = g[i][k]
        <5>1. CASE i = m
          BY <3>3, <3>4, <5>1 DEF p, q, b
        <5>2. CASE i # m
          <6>1. i \in 1 .. m - 1 /\ i \in 1 .. n
            BY <3>1, <5>2
          <6>2. /\ Len(Cat(g, i - 1)) \in Nat /\ Len(g[i]) \in Nat
                /\ Len(Cat(g, i)) = Len(Cat(g, i - 1)) + Len(g[i])
            BY <1>1, <6>1
          <6>3. /\ Len(Cat(g, i)) <= Len(p)
                /\ \A k \in 1 .. Len(g[i]) : p[Len(Cat(g, i - 1)) + k] = g[i][k]
            BY <3>2, <6>1 DEF p
          <6> DEFINE a == Len(Cat(g, i - 1))
                     c == Len(Cat(g, i))
                     l == Len(g[i])
          <6>0. Len(p) \in Nat /\ Len(b) \in Nat /\ Len(q) = Len(p) + Len(b)
            BY <3>3
          <6>5. Len(Cat(g, i)) <= Len(p)
            BY <6>3
          <6>4. ASSUME NEW k \in 1 .. Len(g[i]) PROVE q[Len(Cat(g, i - 1)) + k] = g[i][k]
            <7>1. Len(Cat(g, i - 1)) + k \in 1 .. Len(p)
              <8>1. a \in Nat /\ l \in Nat /\ c = a + l /\ c <= Len(p) /\ k \in 1 .. l
                BY <6>2, <6>5
              <8> HIDE DEF a, c, l
              <8>2. a + k \in 1 .. Len(p)
                BY <6>0, <8>1
              <8> QED
                BY <8>2 DEF a
            <7> QED
              BY <3>4, <6>3, <7>1
          <6>6. Len(Cat(g, i)) <= Len(q)
            <7>1. a \in Nat /\ l \in Nat /\ c = a + l /\ c <= Len(p)
              BY <6>2, <6>5
            <7> HIDE DEF a, c, l
            <7>2. c <= Len(q)
              BY <6>0, <7>1
            <7> QED
              BY <7>2 DEF c
          <6> QED
            BY <6>4, <6>6
        <5> QED
          BY <5>1, <5>2
      <4> QED
        BY <4>1 DEF q
    <3>6. All(m)
      <4>1. ASSUME NEW j \in 1 .. Len(q)
            PROVE  \E i \in 1 .. m : \E k \in 1 .. Len(g[i]) : q[j] = g[i][k]
        <5>1. CASE j <= Len(p)
          <6>1. j \in 1 .. Len(p)
            BY <3>3, <5>1
          <6>2. PICK i \in 1 .. m - 1 : \E k \in 1 .. Len(g[i]) : p[j] = g[i][k]
            BY <3>2, <6>1 DEF p
          <6>3. i \in 1 .. m /\ q[j] = p[j]
            BY <3>1, <3>4, <6>1
          <6> QED
            BY <6>2, <6>3
        <5>2. CASE ~(j <= Len(p))
          <6>1. j - Len(p) \in 1 .. Len(b) /\ Len(p) + (j - Len(p)) = j
            BY <3>3, <5>2
          <6>2. q[j] = b[j - Len(p)] /\ m \in 1 .. m
            BY <3>1, <3>4, <6>1
          <6> QED
            BY <6>1, <6>2 DEF b
        <5> QED
          BY <5>1, <5>2
      <4> QED
        BY <4>1 DEF q
    <3> HIDE DEF At, All
    <3> QED
      BY <3>5, <3>6
  <2> QED
    BY <2>1, <2>2
<1> HIDE DEF good, At, All
<1>3. \A m \in 0 .. n : m \in good
  BY <1>2, Climb
<1>4. At(n) /\ All(n)
  BY <1>3 DEF good
<1>5. Str(Cat(g, n))
  BY CatStr
<1>6. Len(Cat(g, n)) \in Nat /\ DOMAIN Cat(g, n) = 1 .. Len(Cat(g, n))
  BY <1>5, StrThen, ThenAt
<1>7. MadeOf(Cat(g, n), g, n)
  BY <1>4 DEF All, MadeOf
<1>8. \A i \in 1 .. n : Stands(g, n, i)
  BY <1>1, <1>4 DEF At, Stands
<1> QED
  BY <1>6, <1>7, <1>8

-----------------------------------------------------------------------------
(* Where the special tokens stand.                                         *)

LEMMA SpecialLengthsAre ==
    ASSUME NEW raw, Over(raw, Characters), NEW i \in 1 .. Len(raw)
    PROVE  /\ Len(raw) \in Nat
           /\ \A l \in SpecialLengths(raw, i) : l \in 1 .. Len(raw) - i + 1
           /\ SpecialLengths(raw, i) # {} =>
                  Max(SpecialLengths(raw, i)) \in 1 .. Len(raw) - i + 1
<1>1. Len(raw) \in Nat /\ raw \in Seq(Characters) /\ i \in Int /\ Len(raw) \in Int
  BY LenProperties DEF Over
<1>2. Len(SubSeq(raw, i, Len(raw))) = Len(raw) - i + 1
  <2>1. \A k \in i .. Len(raw) : raw[k] \in Characters
    BY <1>1, ElementOfSeq
  <2>2. Len(SubSeq(raw, i, Len(raw)))
          = IF i <= Len(raw) THEN Len(raw) - i + 1 ELSE 0
    BY <1>1, <2>1, SubSeqProperties
  <2> QED
    BY <1>1, <2>2
<1>3. ASSUME NEW l \in SpecialLengths(raw, i) PROVE l \in 1 .. Len(raw) - i + 1
  <2>1. PICK t \in AddedTokens : IsPrefix(t, SubSeq(raw, i, Len(raw))) /\ l = Len(t)
    BY DEF SpecialLengths
  <2>2. t \in Seq(Characters) /\ t # << >>
    BY TokenizerAssumption
  <2>3. l \in Nat /\ l # 0
    BY <2>1, <2>2, LenProperties, EmptySeq
  <2>4. l <= Len(SubSeq(raw, i, Len(raw)))
    BY <2>1 DEF IsPrefix
  <2> QED
    BY <1>1, <1>2, <2>3, <2>4
<1>4. ASSUME SpecialLengths(raw, i) # {}
      PROVE  Max(SpecialLengths(raw, i)) \in 1 .. Len(raw) - i + 1
  <2> DEFINE m == Len(raw) - i + 1
  <2>1. m \in Nat /\ SpecialLengths(raw, i) \in SUBSET (0 .. m)
    BY <1>1, <1>3
  <2> HIDE DEF m
  <2>2. Max(SpecialLengths(raw, i)) \in SpecialLengths(raw, i)
    BY <1>4, <2>1, GreatestNumber
  <2> QED
    BY <1>3, <2>2
<1> QED
  BY <1>1, <1>3, <1>4

Placed(at, raw, n) ==
    at = [i \in 1 .. n |->
             IF SpecialLengths(raw, i) = {} \/ \E j \in 1 .. i - 1 : j + at[j] > i THEN 0
             ELSE Max(SpecialLengths(raw, i))]

LEMMA PlacedExists ==
    ASSUME NEW raw, NEW n \in Nat
    PROVE  \E at : Placed(at, raw, n)
<1> DEFINE good == {k \in 0 .. n : \E at : Placed(at, raw, k)}
<1>1. ASSUME NEW k \in 0 .. n, \A m \in 0 .. k - 1 : m \in good PROVE k \in good
  <2>1. CASE k = 0
    <3>1. Placed([i \in 1 .. 0 |-> 0], raw, 0)
      BY DEF Placed
    <3> QED
      BY <2>1, <3>1
  <2>2. CASE k # 0
    <3>1. k - 1 \in 0 .. k - 1 /\ k \in 1 .. k
      BY <2>2
    <3>2. PICK at : Placed(at, raw, k - 1)
      BY <1>1, <3>1
    <3> DEFINE value == IF SpecialLengths(raw, k) = {} \/ \E j \in 1 .. k - 1 : j + at[j] > k THEN 0
                        ELSE Max(SpecialLengths(raw, k))
               h == [i \in 1 .. k |-> IF i = k THEN value ELSE at[i]]
    <3>3. ASSUME NEW i \in 1 .. k
          PROVE  h[i] = IF SpecialLengths(raw, i) = {} \/ \E j \in 1 .. i - 1 : j + h[j] > i THEN 0
                        ELSE Max(SpecialLengths(raw, i))
      <4>1. ASSUME NEW j \in 1 .. i - 1 PROVE h[j] = at[j]
        <5>1. j \in 1 .. k /\ j # k
          OBVIOUS
        <5> QED
          BY <5>1
      <4>2. (\E j \in 1 .. i - 1 : j + h[j] > i) <=> (\E j \in 1 .. i - 1 : j + at[j] > i)
        <5> HIDE DEF h
        <5> QED
          BY <4>1
      <4>3. CASE i = k
        <5>1. h[i] = value
          BY <4>3
        <5> QED
          BY <4>2, <4>3, <5>1
      <4>4. CASE i # k
        <5>1. i \in 1 .. k - 1 /\ h[i] = at[i]
          BY <4>4
        <5>2. at[i] = IF SpecialLengths(raw, i) = {} \/ \E j \in 1 .. i - 1 : j + at[j] > i THEN 0
                      ELSE Max(SpecialLengths(raw, i))
          BY <3>2, <5>1 DEF Placed
        <5> QED
          BY <4>2, <5>1, <5>2
      <4> QED
        BY <4>3, <4>4
    <3>4. h = [i \in 1 .. k |-> h[i]]
      OBVIOUS
    <3> HIDE DEF h
    <3>5. Placed(h, raw, k)
      BY <3>3, <3>4 DEF Placed
    <3> QED
      BY <3>5
  <2> QED
    BY <2>1, <2>2
<1> HIDE DEF good
<1>2. \A k \in 0 .. n : k \in good
  BY <1>1, Climb
<1>3. n \in good
  BY <1>2
<1> QED
  BY <1>3 DEF good

\* A position inside a special token that was found before it.
Covered(raw, i) == \E j \in 1 .. i - 1 : j + SpecialAt(raw)[j] > i

LEMMA SpecialAtIs ==
    ASSUME NEW raw, Over(raw, Characters), NEW i \in 1 .. Len(raw)
    PROVE  /\ SpecialAt(raw)[i] = IF SpecialLengths(raw, i) = {} \/ Covered(raw, i) THEN 0
                                  ELSE Max(SpecialLengths(raw, i))
           /\ SpecialAt(raw)[i] \in 0 .. Len(raw) - i + 1
           /\ SpecialAt(raw)[i] \in Nat
<1>1. Len(raw) \in Nat /\ DOMAIN raw = 1 .. Len(raw)
  BY LenProperties DEF Over
<1>2. Placed(SpecialAt(raw), raw, Len(raw))
  <2>1. \E at : Placed(at, raw, Len(raw))
    BY <1>1, PlacedExists
  <2>2. SpecialAt(raw) = CHOOSE at : Placed(at, raw, Len(raw))
    BY <1>1 DEF SpecialAt, Placed
  <2> QED
    BY <2>1, <2>2
<1>3. SpecialAt(raw)[i] = IF SpecialLengths(raw, i) = {} \/ Covered(raw, i) THEN 0
                          ELSE Max(SpecialLengths(raw, i))
  BY <1>2 DEF Placed, Covered
<1>4. SpecialLengths(raw, i) # {} => Max(SpecialLengths(raw, i)) \in 1 .. Len(raw) - i + 1
  BY SpecialLengthsAre
<1>5. SpecialAt(raw)[i] \in 0 .. Len(raw) - i + 1
  BY <1>1, <1>3, <1>4
<1>6. SpecialAt(raw)[i] \in Nat
  BY <1>5
<1> QED
  BY <1>3, <1>5, <1>6

-----------------------------------------------------------------------------
(* The marked text.                                                        *)

Parts(chosen, raw) == [i \in DOMAIN raw |-> MarkedAt(chosen, raw, i)]

LEMMA MarkedIs ==
    ASSUME NEW chosen, NEW c \in Characters
    PROVE  /\ Str(Marked(chosen, c)) /\ Len(Marked(chosen, c)) = Len(Letters(chosen, c))
           /\ Len(Letters(chosen, c)) \in Nat
           /\ \A k \in 1 .. Len(Letters(chosen, c)) :
                  /\ Letters(chosen, c)[k] \in Characters
                  /\ ~Marked(chosen, c)[k].special
                  /\ Marked(chosen, c)[k].chars[1] = Letters(chosen, c)[k]
                  /\ Marked(chosen, c)[k].alone <=>
                         \/ Letters(chosen, c)[k] \in Punctuation
                         \/ "handle_chinese_chars" \in chosen /\ c \in Ideographs
<1> DEFINE s == Letters(chosen, c)
           E(k) == [chars |-> <<s[k]>>, special |-> FALSE,
                    alone |-> \/ s[k] \in Punctuation
                              \/ "handle_chinese_chars" \in chosen /\ c \in Ideographs]
<1>1. Over(s, Characters)
  BY NormalizeOne
<1> HIDE DEF s
<1>2. Len(s) \in Nat /\ DOMAIN s = 1 .. Len(s) /\ \A k \in 1 .. Len(s) : s[k] \in Characters
  BY <1>1, LenProperties, ElementOfSeq DEF Over
<1>3. Marked(chosen, c) = [k \in 1 .. Len(s) |-> E(k)]
  BY <1>2 DEF Marked, s
<1>4. \A k \in 1 .. Len(s) : Marked(chosen, c)[k] = E(k)
  BY <1>3
<1>5. Marked(chosen, c) \in Seq({E(k) : k \in 1 .. Len(s)}) /\ Len(Marked(chosen, c)) = Len(s)
  <2> HIDE DEF E
  <2> QED
    BY <1>2, <1>3
<1>6. Str(Marked(chosen, c))
  BY <1>5 DEF Str
<1>7. ASSUME NEW k \in 1 .. Len(s)
      PROVE  /\ s[k] \in Characters
             /\ ~Marked(chosen, c)[k].special
             /\ Marked(chosen, c)[k].chars[1] = s[k]
             /\ Marked(chosen, c)[k].alone <=>
                    \/ s[k] \in Punctuation
                    \/ "handle_chinese_chars" \in chosen /\ c \in Ideographs
  <2>1. Marked(chosen, c)[k] = E(k)
    BY <1>4
  <2>2. E(k).special = FALSE /\ E(k).chars = <<s[k]>>
    OBVIOUS
  <2>3. E(k).alone <=> \/ s[k] \in Punctuation
                       \/ "handle_chinese_chars" \in chosen /\ c \in Ideographs
    OBVIOUS
  <2>4. <<s[k]>>[1] = s[k]
    OBVIOUS
  <2> HIDE DEF E
  <2> QED
    BY <1>2, <2>1, <2>2, <2>3, <2>4
<1> HIDE DEF E
<1> QED
  BY <1>2, <1>5, <1>6, <1>7 DEF s

PartIs(chosen, raw, i) ==
    /\ raw[i] \in Characters
    /\ SpecialAt(raw)[i] > 0 =>
           Parts(chosen, raw)[i]
             = One([chars |-> Slice(raw, i, i + SpecialAt(raw)[i] - 1),
                    alone |-> TRUE, special |-> TRUE])
    /\ SpecialAt(raw)[i] = 0 /\ Covered(raw, i) => Parts(chosen, raw)[i] = << >>
    /\ SpecialAt(raw)[i] = 0 /\ ~Covered(raw, i) =>
           Parts(chosen, raw)[i] = Marked(chosen, raw[i])

LEMMA PartsAre ==
    ASSUME NEW chosen, NEW raw, Over(raw, Characters)
    PROVE  /\ Strs(Parts(chosen, raw), Len(raw))
           /\ MarkedText(chosen, raw) = Cat(Parts(chosen, raw), Len(raw))
           /\ Marking(MarkedText(chosen, raw))
           /\ \A i \in 1 .. Len(raw) : PartIs(chosen, raw, i)
<1> DEFINE n == Len(raw)
           g == Parts(chosen, raw)
<1>1. n \in Nat /\ DOMAIN raw = 1 .. n /\ \A i \in 1 .. n : raw[i] \in Characters
  BY LenProperties, ElementOfSeq DEF Over
<1>2. ASSUME NEW i \in 1 .. n
      PROVE  /\ SpecialAt(raw)[i] > 0 =>
                    g[i] = One([chars |-> Slice(raw, i, i + SpecialAt(raw)[i] - 1),
                                alone |-> TRUE, special |-> TRUE])
             /\ SpecialAt(raw)[i] = 0 /\ Covered(raw, i) => g[i] = << >>
             /\ SpecialAt(raw)[i] = 0 /\ ~Covered(raw, i) => g[i] = Marked(chosen, raw[i])
  <2>1. g[i] = MarkedAt(chosen, raw, i)
    BY <1>1 DEF Parts
  <2>2. SpecialAt(raw)[i] = 0 => ~(SpecialAt(raw)[i] > 0)
    OBVIOUS
  <2> HIDE DEF g
  <2>3. ASSUME SpecialAt(raw)[i] > 0
        PROVE  g[i] = One([chars |-> Slice(raw, i, i + SpecialAt(raw)[i] - 1),
                           alone |-> TRUE, special |-> TRUE])
    BY <2>1, <2>3 DEF MarkedAt, One, Slice
  <2>4. ASSUME SpecialAt(raw)[i] = 0, Covered(raw, i) PROVE g[i] = << >>
    BY <2>1, <2>2, <2>4 DEF MarkedAt, Covered
  <2>5. ASSUME SpecialAt(raw)[i] = 0, ~Covered(raw, i) PROVE g[i] = Marked(chosen, raw[i])
    BY <2>1, <2>2, <2>5 DEF MarkedAt, Covered
  <2> QED
    BY <2>3, <2>4, <2>5
<1> HIDE DEF g
<1>3. ASSUME NEW i \in 1 .. n
      PROVE  /\ Str(g[i])
             /\ \A k \in 1 .. Len(g[i]) :
                    /\ g[i][k].special => g[i][k].alone
                    /\ ~g[i][k].special => g[i][k].chars[1] \in Characters
  <2>1. SpecialAt(raw)[i] \in Nat
    BY SpecialAtIs
  <2>2. CASE SpecialAt(raw)[i] > 0
    <3> DEFINE e == [chars |-> Slice(raw, i, i + SpecialAt(raw)[i] - 1),
                     alone |-> TRUE, special |-> TRUE]
    <3>1. g[i] = One(e) /\ e.alone /\ e.special
      BY <1>2, <2>2
    <3> HIDE DEF e
    <3>2. Len(One(e)) = 1 /\ One(e)[1] = e
      BY DEF One
    <3> QED
      BY <3>1, <3>2, StrOne
  <2>3. CASE SpecialAt(raw)[i] = 0 /\ Covered(raw, i)
    <3>1. g[i] = << >> /\ Len(<< >>) = 0
      BY <1>2, <2>3, EmptySeq
    <3> QED
      BY <3>1, StrEmpty
  <2>4. CASE SpecialAt(raw)[i] = 0 /\ ~Covered(raw, i)
    <3>1. g[i] = Marked(chosen, raw[i]) /\ raw[i] \in Characters
      BY <1>1, <1>2, <2>4
    <3> QED
      BY <3>1, MarkedIs
  <2> QED
    BY <2>1, <2>2, <2>3, <2>4
<1>4. Strs(g, n)
  BY <1>3 DEF Strs
<1>5. MarkedText(chosen, raw) = Cat(g, n)
  <2>1. g = [i \in 1 .. n |-> g[i]]
    BY <1>1 DEF g, Parts
  <2>2. FlattenSeq(g) = Cat(g, n)
    BY <1>1, <2>1, FlattenIsCat
  <2> QED
    BY <2>2 DEF MarkedText, g, Parts
<1>6. Marking(Cat(g, n))
  <2>1. Len(Cat(g, n)) \in Nat /\ DOMAIN Cat(g, n) = 1 .. Len(Cat(g, n))
    BY <1>1, <1>4, CatAt
  <2>2. ASSUME NEW j \in 1 .. Len(Cat(g, n))
        PROVE  /\ Cat(g, n)[j].special => Cat(g, n)[j].alone
               /\ ~Cat(g, n)[j].special => Cat(g, n)[j].chars[1] \in Characters
    <3>0. \A l \in 1 .. Len(Cat(g, n)) :
              \E i \in 1 .. n : \E k \in 1 .. Len(g[i]) : Cat(g, n)[l] = g[i][k]
      <4>1. MadeOf(Cat(g, n), g, n)
        BY <1>1, <1>4, CatAt
      <4> QED
        BY <4>1 DEF MadeOf
    <3>1. PICK i \in 1 .. n : \E k \in 1 .. Len(g[i]) : Cat(g, n)[j] = g[i][k]
      BY <3>0
    <3>2. PICK k \in 1 .. Len(g[i]) : Cat(g, n)[j] = g[i][k]
      BY <3>1
    <3> QED
      BY <1>3, <3>2
  <2> QED
    BY <2>1, <2>2 DEF Marking
<1>7. ASSUME NEW i \in 1 .. n PROVE PartIs(chosen, raw, i)
  BY <1>1, <1>2 DEF PartIs, g
<1> QED
  BY <1>4, <1>5, <1>6, <1>7 DEF g

-----------------------------------------------------------------------------
(* From one character of the text to the next.                             *)

\* How far the marked text has come after a character.
Reach(chosen, raw, i) == Len(Cat(Parts(chosen, raw), i))

LEMMA ReachIs ==
    ASSUME NEW chosen, NEW raw, Over(raw, Characters), NEW i \in 1 .. Len(raw)
    PROVE  LET marked == MarkedText(chosen, raw)
               part == Parts(chosen, raw)[i]
           IN  /\ Reach(chosen, raw, i - 1) \in Nat /\ Len(part) \in Nat
               /\ Reach(chosen, raw, i) = Reach(chosen, raw, i - 1) + Len(part)
               /\ Reach(chosen, raw, i) <= Len(marked)
               /\ \A k \in 1 .. Len(part) :
                      /\ marked[Reach(chosen, raw, i - 1) + k] = part[k]
                      /\ Reach(chosen, raw, i - 1) + k \in 1 .. Len(marked)
<1> DEFINE n == Len(raw)
           g == Parts(chosen, raw)
           a == Reach(chosen, raw, i - 1)
           b == Reach(chosen, raw, i)
           l == Len(g[i])
           whole == Len(Cat(g, n))
<1>1. n \in Nat /\ Strs(g, n) /\ MarkedText(chosen, raw) = Cat(g, n)
  BY PartsAre, LenProperties DEF Over
<1>2. /\ a \in Nat /\ l \in Nat /\ b = a + l /\ b <= whole /\ whole \in Nat
      /\ \A k \in 1 .. l : Cat(g, n)[a + k] = g[i][k]
  <2>1. /\ Len(Cat(g, n)) \in Nat
        /\ Len(Cat(g, i - 1)) \in Nat /\ Len(g[i]) \in Nat
        /\ Len(Cat(g, i)) = Len(Cat(g, i - 1)) + Len(g[i])
        /\ Len(Cat(g, i)) <= Len(Cat(g, n))
        /\ \A k \in 1 .. Len(g[i]) : Cat(g, n)[Len(Cat(g, i - 1)) + k] = g[i][k]
    <3> HIDE DEF g
    <3>1. Stands(g, n, i) /\ Len(Cat(g, n)) \in Nat
      BY <1>1, CatAt
    <3> QED
      BY <3>1 DEF Stands
  <2> HIDE DEF g
  <2> QED
    BY <2>1 DEF Reach, g
<1>3. ASSUME NEW k \in 1 .. l PROVE a + k \in 1 .. whole
  <2>1. a \in Nat /\ l \in Nat /\ b = a + l /\ b <= whole /\ whole \in Nat
    BY <1>2
  <2> HIDE DEF a, b, l, whole
  <2> QED
    BY <2>1
<1> HIDE DEF a, b, l, whole
<1> QED
  BY <1>1, <1>2, <1>3 DEF a, b, l, whole

\* The letters of a character, one after another.
LEMMA MatchesLetters ==
    ASSUME NEW marked, Marking(marked), NEW a \in Nat,
           NEW letters, Over(letters, Characters), a + Len(letters) <= Len(marked),
           \A k \in 1 .. Len(letters) :
               /\ ~marked[a + k].special
               /\ marked[a + k].chars[1] = letters[k]
               /\ marked[a + k].alone <=> letters[k] \in Punctuation,
           NEW base, NEW s, Over(s, Characters), Matches(marked, a, base, Scan(s))
    PROVE  Matches(marked, a + Len(letters), base, Scan(Then(s, letters)))
<1> DEFINE n == Len(letters)
           good == {k \in 0 .. n : Matches(marked, a + k, base, Scan(Then(s, Slice(letters, 1, k))))}
<1>1. n \in Nat /\ Len(marked) \in Nat /\ Slice(letters, 1, n) = letters
  BY SliceAll DEF Marking
<1>2. ASSUME NEW k \in 0 .. n, \A m \in 0 .. k - 1 : m \in good PROVE k \in good
  <2>1. CASE k = 0
    <3>1. Slice(letters, 1, 1 - 1) = << >>
      BY SliceEmpty
    <3>2. Then(s, << >>) = s
      BY OverStr, ThenEmpty
    <3> QED
      BY <2>1, <3>1, <3>2
  <2>2. CASE k # 0
    <3> DEFINE c == letters[k]
               u == Slice(letters, 1, k - 1)
               j == a + k
    <3>1. k - 1 \in 0 .. k - 1 /\ k \in 1 .. n /\ j \in 1 .. Len(marked) /\ a + (k - 1) = j - 1
      BY <1>1, <2>2
    <3>2. Matches(marked, a + (k - 1), base, Scan(Then(s, u)))
      BY <1>2, <3>1
    <3>3. Over(u, Characters) /\ c \in Characters /\ Slice(letters, 1, k) = Then(u, One(c))
      BY <3>1, SliceNext
    <3>4. ~marked[j].special /\ marked[j].chars[1] = c /\ (marked[j].alone <=> c \in Punctuation)
      BY <3>1
    <3>5. Matches(marked, j - 1, base, Scan(Then(s, u)))
      BY <3>1, <3>2
    <3> HIDE DEF c, u, j
    <3>6. Matches(marked, j, base, AddLetter(Scan(Then(s, u)), c))
      BY <3>1, <3>3, <3>4, <3>5, MatchesLetter
    <3>7. AddLetter(Scan(Then(s, u)), c) = Scan(Then(Then(s, u), One(c)))
      BY <3>3, OverThen, ScanNext
    <3>8. Then(Then(s, u), One(c)) = Then(s, Then(u, One(c)))
      BY <3>3, OverStr, StrOne, ThenAssociative
    <3> QED
      BY <3>1, <3>3, <3>6, <3>7, <3>8 DEF j
  <2> QED
    BY <2>1, <2>2
<1> HIDE DEF good
<1>3. \A k \in 0 .. n : k \in good
  BY <1>1, <1>2, Climb
<1>4. n \in good
  BY <1>1, <1>3
<1>5. Matches(marked, a + n, base, Scan(Then(s, Slice(letters, 1, n))))
  BY <1>4 DEF good
<1> QED
  BY <1>1, <1>5

\* A character of a segment: what normalisation makes of it is scanned, and its
\* letters are the next of the marked text.
LEMMA MatchesCharacter ==
    ASSUME NEW chosen, NEW raw, Over(raw, Characters), NEW i \in 1 .. Len(raw),
           SpecialAt(raw)[i] = 0, ~Covered(raw, i),
           NEW base, NEW s, Over(s, Characters),
           Matches(MarkedText(chosen, raw), Reach(chosen, raw, i - 1), base, Scan(s))
    PROVE  Matches(MarkedText(chosen, raw), Reach(chosen, raw, i), base,
                   Scan(Then(s, Normalize(chosen, One(raw[i])))))
<1> DEFINE marked == MarkedText(chosen, raw)
           c == raw[i]
           letters == Letters(chosen, c)
           part == Parts(chosen, raw)[i]
           a == Reach(chosen, raw, i - 1)
<1>1. Marking(marked) /\ c \in Characters /\ part = Marked(chosen, c)
  <2>1. Marking(marked)
    BY PartsAre
  <2>2. raw[i] \in Characters /\ Parts(chosen, raw)[i] = Marked(chosen, raw[i])
    <3>1. PartIs(chosen, raw, i)
      BY PartsAre
    <3> QED
      BY <3>1 DEF PartIs
  <2> QED
    BY <2>1, <2>2
<1>2. /\ a \in Nat /\ Len(part) \in Nat /\ Reach(chosen, raw, i) = a + Len(part)
      /\ a + Len(part) <= Len(marked)
      /\ \A k \in 1 .. Len(part) : marked[a + k] = part[k] /\ a + k \in 1 .. Len(marked)
  BY ReachIs
<1>3. Matches(marked, a, base, Scan(s))
  OBVIOUS
<1> HIDE DEF marked, part, a, c
<1>4. /\ Len(part) = Len(letters) /\ Len(letters) \in Nat
      /\ \A k \in 1 .. Len(letters) :
             /\ letters[k] \in Characters
             /\ ~part[k].special
             /\ part[k].chars[1] = letters[k]
             /\ part[k].alone <=> \/ letters[k] \in Punctuation
                                  \/ "handle_chinese_chars" \in chosen /\ c \in Ideographs
  BY <1>1, MarkedIs
<1> DEFINE made == Normalize(chosen, One(c))
<1>5. Over(letters, Characters)
  BY <1>1, NormalizeOne
<1> HIDE DEF letters
<1>6. CASE made = letters /\ ~("handle_chinese_chars" \in chosen /\ c \in Ideographs)
  <2>1. a + Len(letters) <= Len(marked)
    BY <1>2, <1>4
  <2>2. ASSUME NEW k \in 1 .. Len(letters)
        PROVE  /\ ~marked[a + k].special
               /\ marked[a + k].chars[1] = letters[k]
               /\ marked[a + k].alone <=> letters[k] \in Punctuation
    <3>1. marked[a + k] = part[k]
      BY <1>2, <1>4
    <3> QED
      BY <1>4, <1>6, <3>1
  <2>3. Matches(marked, a + Len(letters), base, Scan(Then(s, letters)))
    BY <1>1, <1>2, <1>3, <1>5, <2>1, <2>2, MatchesLetters
  <2> QED
    BY <1>2, <1>4, <1>6, <2>3 DEF marked, c
<1>7. CASE made = << >> /\ letters = << >>
  <2>1. Len(part) = 0
    BY <1>4, <1>7, EmptySeq
  <2>2. a + 0 = a
    BY <1>2
  <2>3. Then(s, << >>) = s
    BY OverStr, ThenEmpty
  <2> QED
    BY <1>2, <1>3, <1>7, <2>1, <2>2, <2>3 DEF marked, c
<1>8. CASE /\ "handle_chinese_chars" \in chosen /\ c \in Ideographs
           /\ \E d \in Characters \ Spaces :
                  letters = One(d) /\ made = Then(One("space"), Then(One(d), One("space")))
  <2>1. PICK d \in Characters \ Spaces :
            letters = One(d) /\ made = Then(One("space"), Then(One(d), One("space")))
    BY <1>8
  <2>2. Len(letters) = 1 /\ letters[1] = d
    BY <2>1 DEF One
  <2> DEFINE j == a + 1
  <2>3. 1 \in 1 .. Len(part) /\ 1 \in 1 .. Len(letters) /\ Len(part) = 1
    BY <1>4, <2>2
  <2>4. /\ j \in 1 .. Len(marked) /\ marked[j] = part[1]
        /\ Reach(chosen, raw, i) = j /\ j - 1 = a
    BY <1>2, <2>3
  <2>5. ~marked[j].special /\ marked[j].chars[1] = d /\ marked[j].alone
    BY <1>4, <1>8, <2>2, <2>3, <2>4
  <2> HIDE DEF j
  <2>6. Matches(marked, j - 1, base, Scan(s))
    BY <1>3, <2>4
  <2>7. Matches(marked, j, base, AddLetter(AddLetter(AddLetter(Scan(s), "space"), d), "space"))
    BY <1>1, <2>4, <2>5, <2>6, MatchesIdeograph
  <2> DEFINE first == Then(s, One("space"))
             second == Then(first, One(d))
             third == Then(second, One("space"))
  <2>8. "space" \in Characters
    BY TokenizerAssumption, CharacterAssumption
  <2>9. Scan(first) = AddLetter(Scan(s), "space") /\ Over(first, Characters)
    BY <2>8, ScanNext, OverOne, OverThen
  <2>10. Scan(second) = AddLetter(Scan(first), d) /\ Over(second, Characters)
    <3> HIDE DEF first
    <3> QED
      BY <2>9, ScanNext, OverOne, OverThen
  <2>11. Scan(third) = AddLetter(Scan(second), "space")
    <3> HIDE DEF second
    <3> QED
      BY <2>8, <2>10, ScanNext
  <2>12. Then(s, made) = third
    <3>1. Str(s) /\ Str(One("space")) /\ Str(One(d)) /\ Str(Then(One(d), One("space"))) /\ Str(first)
      BY <2>9, OverStr, StrOne, StrThen
    <3>2. Then(s, Then(One("space"), Then(One(d), One("space"))))
            = Then(first, Then(One(d), One("space")))
      BY <3>1, ThenAssociative
    <3> HIDE DEF first
    <3>3. Then(first, Then(One(d), One("space"))) = third
      BY <3>1, ThenAssociative
    <3> QED
      BY <2>1, <3>2, <3>3 DEF first
  <2> HIDE DEF third, second, first
  <2> QED
    BY <2>4, <2>7, <2>9, <2>10, <2>11, <2>12 DEF marked, c
<1>9. \/ made = letters /\ ~("handle_chinese_chars" \in chosen /\ c \in Ideographs)
      \/ made = << >> /\ letters = << >>
      \/ /\ "handle_chinese_chars" \in chosen /\ c \in Ideographs
         /\ \E d \in Characters \ Spaces :
                letters = One(d) /\ made = Then(One("space"), Then(One(d), One("space")))
  BY <1>1, NormalizeOne DEF letters
<1> QED
  BY <1>6, <1>7, <1>8, <1>9

\* The characters between two special tokens.
LEMMA MatchesSegment ==
    ASSUME NEW chosen, NEW raw, Over(raw, Characters),
           NEW a \in 1 .. Len(raw) + 1, NEW b \in a - 1 .. Len(raw),
           \A i \in a .. b : SpecialAt(raw)[i] = 0 /\ ~Covered(raw, i),
           NEW base,
           Matches(MarkedText(chosen, raw), Reach(chosen, raw, a - 1), base, NoLetter)
    PROVE  Matches(MarkedText(chosen, raw), Reach(chosen, raw, b), base,
                   Scan(Normalize(chosen, Slice(raw, a, b))))
<1> DEFINE good == {i \in a - 1 .. b :
                        Matches(MarkedText(chosen, raw), Reach(chosen, raw, i), base,
                                Scan(Normalize(chosen, Slice(raw, a, i))))}
<1>1. a - 1 \in Nat /\ b \in Nat /\ a \in Nat \ {0} /\ Len(raw) \in Nat
  BY LenProperties DEF Over
<1>2. ASSUME NEW i \in a - 1 .. b, \A m \in a - 1 .. i - 1 : m \in good PROVE i \in good
  <2>1. CASE i = a - 1
    <3>1. Slice(raw, a, a - 1) = << >>
      BY <1>1, SliceEmpty
    <3>2. Scan(Normalize(chosen, Slice(raw, a, a - 1))) = NoLetter
      BY <3>1, NormalizeEmpty, ScanEmpty
    <3> QED
      BY <2>1, <3>2
  <2>2. CASE i # a - 1
    <3> DEFINE s == Slice(raw, a, i - 1)
    <3>1. i - 1 \in a - 1 .. i - 1 /\ i \in a .. b /\ i \in 1 .. Len(raw) /\ i \in a .. Len(raw)
      BY <1>1, <2>2
    <3>2. Matches(MarkedText(chosen, raw), Reach(chosen, raw, i - 1), base, Scan(Normalize(chosen, s)))
      BY <1>2, <3>1
    <3>3. Over(s, Characters) /\ raw[i] \in Characters /\ Slice(raw, a, i) = Then(s, One(raw[i]))
      BY <1>1, <3>1, SliceNext
    <3> HIDE DEF s
    <3>4. Over(Normalize(chosen, s), Characters)
          /\ Normalize(chosen, Then(s, One(raw[i])))
               = Then(Normalize(chosen, s), Normalize(chosen, One(raw[i])))
      BY <3>3, OverOne, NormalizeThen
    <3>5. Matches(MarkedText(chosen, raw), Reach(chosen, raw, i), base,
                  Scan(Then(Normalize(chosen, s), Normalize(chosen, One(raw[i])))))
      BY <3>1, <3>2, <3>4, MatchesCharacter
    <3> QED
      BY <3>3, <3>4, <3>5
  <2> QED
    BY <2>1, <2>2
<1> HIDE DEF good
<1>3. \A i \in a - 1 .. b : i \in good
  BY <1>1, <1>2, Climb
<1>4. b \in good
  BY <1>1, <1>3
<1> QED
  BY <1>4 DEF good

-----------------------------------------------------------------------------
(* From one special token to the next.                                     *)

Found(raw, k) == {i \in k .. Len(raw) : SpecialLengths(raw, i) # {}}
First(raw, k) == Min(Found(raw, k))
Next(raw, k) == First(raw, k) + Max(SpecialLengths(raw, First(raw, k)))

\* The tokens of what stands before the first special token, or of all, and its own.
Plain(chosen, raw, k) == Tokens(Normalize(chosen, Slice(raw, k, Len(raw))))
Step(chosen, raw, k) ==
    Then(Tokens(Normalize(chosen, Slice(raw, k, First(raw, k) - 1))),
         One(Special(Slice(raw, First(raw, k), Next(raw, k) - 1))))

LEMMA FirstIs ==
    ASSUME NEW raw, Over(raw, Characters), NEW k \in 1 .. Len(raw) + 1, Found(raw, k) # {}
    PROVE  /\ First(raw, k) \in k .. Len(raw)
           /\ SpecialLengths(raw, First(raw, k)) # {}
           /\ \A i \in k .. First(raw, k) - 1 : SpecialLengths(raw, i) = {}
           /\ Next(raw, k) \in First(raw, k) + 1 .. Len(raw) + 1
<1> DEFINE first == First(raw, k)
<1>1. Len(raw) \in Nat
  BY LenProperties DEF Over
<1>2. Found(raw, k) \in SUBSET Nat
  BY <1>1 DEF Found
<1>3. first \in Found(raw, k) /\ \A y \in Found(raw, k) : first <= y
  BY <1>2, LowestNumber DEF First
<1> HIDE DEF first
<1>4. first \in k .. Len(raw) /\ SpecialLengths(raw, first) # {}
  BY <1>3 DEF Found
<1>5. ASSUME NEW i \in k .. first - 1 PROVE SpecialLengths(raw, i) = {}
  <2>1. i \in k .. Len(raw) /\ ~(first <= i)
    BY <1>1, <1>4
  <2>2. i \notin Found(raw, k)
    BY <1>3, <2>1
  <2> QED
    BY <2>1, <2>2 DEF Found
<1>6. Max(SpecialLengths(raw, first)) \in 1 .. Len(raw) - first + 1
  <2>1. first \in 1 .. Len(raw)
    BY <1>1, <1>4
  <2> QED
    BY <1>4, <2>1, SpecialLengthsAre
<1> DEFINE most == Max(SpecialLengths(raw, first))
<1>7. most \in 1 .. Len(raw) - first + 1
  BY <1>6
<1> HIDE DEF most
<1>8. first + most \in first + 1 .. Len(raw) + 1
  BY <1>1, <1>4, <1>7
<1>9. Next(raw, k) = first + most
  BY DEF Next, first, most
<1> QED
  BY <1>4, <1>5, <1>8, <1>9 DEF first

Rest(f, chosen, raw) ==
    f = [k \in 1 .. Len(raw) + 1 |->
            LET found == {i \in k .. Len(raw) : SpecialLengths(raw, i) # {}}
                first == Min(found)
                next == first + Max(SpecialLengths(raw, first))
            IN  IF found = {} THEN Tokens(Normalize(chosen, SubSeq(raw, k, Len(raw))))
                ELSE Tokens(Normalize(chosen, SubSeq(raw, k, first - 1)))
                         \o <<Special(SubSeq(raw, first, next - 1))>> \o f[next]]

\* The same, said of the parts.
Goes(f, chosen, raw) ==
    \A k \in 1 .. Len(raw) + 1 :
        f[k] = IF Found(raw, k) = {} THEN Plain(chosen, raw, k)
               ELSE Then(Step(chosen, raw, k), f[Next(raw, k)])

LEMMA RestExists ==
    ASSUME NEW chosen, NEW raw, Over(raw, Characters)
    PROVE  \E f : TokensFrom(chosen, raw) = f[1] /\ Goes(f, chosen, raw)
<1> DEFINE n == Len(raw)
           stop == {k \in 1 .. n + 1 : Found(raw, k) = {}}
           base == [k \in 1 .. n + 1 |-> Plain(chosen, raw, k)]
           step == [k \in 1 .. n + 1 |-> Step(chosen, raw, k)]
           next == [k \in 1 .. n + 1 |-> Next(raw, k)]
           At(f, k) == f[k] = IF Found(raw, k) = {} THEN Plain(chosen, raw, k)
                              ELSE Then(Step(chosen, raw, k), f[Next(raw, k)])
<1>1. n \in Nat /\ n + 1 \in Nat /\ 1 \in 1 .. n + 1
  BY LenProperties DEF Over
<1>2. ASSUME NEW k \in 1 .. n + 1, k \notin stop PROVE next[k] \in k + 1 .. n + 1
  <2> DEFINE first == First(raw, k)
             after == Next(raw, k)
  <2>1. Found(raw, k) # {}
    BY <1>2
  <2>2. first \in k .. n /\ after \in first + 1 .. n + 1
    BY <2>1, FirstIs
  <2> HIDE DEF first, after
  <2>3. after \in k + 1 .. n + 1
    BY <2>2
  <2> QED
    BY <2>3 DEF after
<1>3. PICK f : Downward(f, 1, n + 1, stop, base, step, next)
  <2> HIDE DEF stop, base, step, next, n
  <2> QED
    BY <1>1, <1>2, DownwardExists
<1>4. ASSUME NEW k \in 1 .. n + 1 PROVE At(f, k)
  <2>1. f[k] = IF k \in stop THEN base[k] ELSE Then(step[k], f[next[k]])
    <3> HIDE DEF stop, base, step, next, n
    <3> QED
      BY <1>1, <1>3, DownwardAt
  <2> QED
    BY <2>1
<1>5. f = [k \in 1 .. n + 1 |-> f[k]]
  <2> HIDE DEF stop, base, step, next, n
  <2> QED
    BY <1>3 DEF Downward
<1>6. \A g : Rest(g, chosen, raw)
               <=> g = [k \in 1 .. n + 1 |-> IF Found(raw, k) = {} THEN Plain(chosen, raw, k)
                                             ELSE Then(Step(chosen, raw, k), g[Next(raw, k)])]
  BY DEF Rest, Found, First, Next, Plain, Step, Then, One, Slice
<1>7. Rest(f, chosen, raw)
  BY <1>4, <1>5, <1>6
<1>8. TokensFrom(chosen, raw) = (CHOOSE g : Rest(g, chosen, raw))[1]
  BY DEF TokensFrom, Rest
<1> DEFINE h == CHOOSE g : Rest(g, chosen, raw)
<1>9. Rest(h, chosen, raw)
  BY <1>7
<1> HIDE DEF h
<1>10. h = [k \in 1 .. n + 1 |-> IF Found(raw, k) = {} THEN Plain(chosen, raw, k)
                                 ELSE Then(Step(chosen, raw, k), h[Next(raw, k)])]
  BY <1>6, <1>9
<1>11. \A k \in 1 .. n + 1 : At(h, k)
  BY <1>10
<1>12. TokensFrom(chosen, raw) = h[1]
  BY <1>8 DEF h
<1>13. Goes(h, chosen, raw)
  BY <1>11 DEF Goes
<1> QED
  BY <1>12, <1>13

\* No special token that was found before a position reaches beyond it.
Boundary(raw, p) == \A j \in 1 .. p - 1 : j + SpecialAt(raw)[j] <= p

LEMMA NoneBefore ==
    ASSUME NEW raw, Over(raw, Characters), NEW p \in 1 .. Len(raw) + 1, Boundary(raw, p),
           NEW b \in p - 1 .. Len(raw), \A i \in p .. b : SpecialLengths(raw, i) = {}
    PROVE  /\ \A i \in p .. b : SpecialAt(raw)[i] = 0 /\ ~Covered(raw, i)
           /\ b < Len(raw) => ~Covered(raw, b + 1)
<1>1. Len(raw) \in Nat
  BY LenProperties DEF Over
<1>2. ASSUME NEW i \in p .. b PROVE SpecialAt(raw)[i] = 0
  <2>1. i \in 1 .. Len(raw) /\ SpecialLengths(raw, i) = {}
    BY <1>1
  <2> QED
    BY <2>1, SpecialAtIs
<1>3. ASSUME NEW i \in p .. b + 1 PROVE ~Covered(raw, i)
  <2>1. ASSUME NEW j \in 1 .. i - 1 PROVE ~(j + SpecialAt(raw)[j] > i)
    <3>1. j \in 1 .. Len(raw)
      BY <1>1
    <3>2. SpecialAt(raw)[j] \in Nat
      BY <3>1, SpecialAtIs
    <3>3. CASE j < p
      <4>1. j + SpecialAt(raw)[j] <= p
        BY <3>1, <3>3 DEF Boundary
      <4> QED
        BY <1>1, <3>2, <4>1
    <3>4. CASE ~(j < p)
      <4>1. j \in p .. b
        BY <1>1, <3>4
      <4>2. SpecialAt(raw)[j] = 0
        BY <1>2, <4>1
      <4> QED
        BY <1>1, <4>2
    <3> QED
      BY <3>3, <3>4
  <2> QED
    BY <2>1 DEF Covered
<1>4. \A i \in p .. b : i \in p .. b + 1
  BY <1>1
<1>5. b + 1 \in p .. b + 1
  BY <1>1
<1> QED
  BY <1>2, <1>3, <1>4, <1>5

\* The first special token from a boundary on: found there, and the next boundary
\* is behind it.
LEMMA FirstStands ==
    ASSUME NEW raw, Over(raw, Characters), NEW p \in 1 .. Len(raw) + 1, Boundary(raw, p),
           Found(raw, p) # {}
    PROVE  /\ First(raw, p) \in p .. Len(raw)
           /\ \A i \in p .. First(raw, p) - 1 : SpecialAt(raw)[i] = 0 /\ ~Covered(raw, i)
           /\ SpecialAt(raw)[First(raw, p)] > 0
           /\ First(raw, p) + SpecialAt(raw)[First(raw, p)] = Next(raw, p)
           /\ Next(raw, p) \in First(raw, p) + 1 .. Len(raw) + 1
           /\ \A i \in First(raw, p) + 1 .. Next(raw, p) - 1 :
                  SpecialAt(raw)[i] = 0 /\ Covered(raw, i)
           /\ Boundary(raw, Next(raw, p))
<1> DEFINE first == First(raw, p)
           next == Next(raw, p)
           most == Max(SpecialLengths(raw, first))
<1>1. Len(raw) \in Nat
  BY LenProperties DEF Over
<1>2. /\ first \in p .. Len(raw) /\ SpecialLengths(raw, first) # {}
      /\ \A i \in p .. first - 1 : SpecialLengths(raw, i) = {}
      /\ next \in first + 1 .. Len(raw) + 1
  BY FirstIs
<1>3. next = first + most
  BY DEF Next
<1> HIDE DEF most, first, next
<1>4. /\ first - 1 \in p - 1 .. Len(raw) /\ first - 1 < Len(raw) /\ (first - 1) + 1 = first
      /\ first \in 1 .. Len(raw)
  BY <1>1, <1>2
<1>5. /\ \A i \in p .. first - 1 : SpecialAt(raw)[i] = 0 /\ ~Covered(raw, i)
      /\ ~Covered(raw, (first - 1) + 1)
  BY <1>2, <1>4, NoneBefore
<1>6. ~Covered(raw, first)
  BY <1>4, <1>5
<1>7. SpecialAt(raw)[first] = most
  BY <1>2, <1>4, <1>6, SpecialAtIs DEF most
<1>8. SpecialAt(raw)[first] \in Nat
  BY <1>4, SpecialAtIs
<1>9. first + SpecialAt(raw)[first] = next /\ SpecialAt(raw)[first] > 0
  BY <1>1, <1>2, <1>3, <1>4, <1>7, <1>8
<1>10. ASSUME NEW i \in first + 1 .. next - 1 PROVE SpecialAt(raw)[i] = 0 /\ Covered(raw, i)
  <2>1. i \in 1 .. Len(raw) /\ first \in 1 .. i - 1 /\ first + SpecialAt(raw)[first] > i
    BY <1>1, <1>2, <1>4, <1>9
  <2>2. Covered(raw, i)
    BY <2>1 DEF Covered
  <2> QED
    BY <2>1, <2>2, SpecialAtIs
<1>11. ASSUME NEW j \in 1 .. next - 1 PROVE j + SpecialAt(raw)[j] <= next
  <2>1. j \in 1 .. Len(raw)
    BY <1>1, <1>2
  <2>2. SpecialAt(raw)[j] \in Nat
    BY <2>1, SpecialAtIs
  <2>3. CASE j < p
    <3>1. j \in 1 .. p - 1
      BY <2>1, <2>3
    <3>2. j + SpecialAt(raw)[j] <= p
      BY <3>1 DEF Boundary
    <3> QED
      BY <1>1, <1>2, <2>2, <3>2
  <2>4. CASE j \in p .. first - 1
    <3>1. SpecialAt(raw)[j] = 0
      BY <1>5, <2>4
    <3> QED
      BY <1>1, <1>2, <3>1
  <2>5. CASE j = first
    BY <1>1, <1>2, <1>9, <2>5
  <2>6. CASE j \in first + 1 .. next - 1
    <3>1. SpecialAt(raw)[j] = 0
      BY <1>10, <2>6
    <3> QED
      BY <1>1, <1>2, <3>1
  <2>7. j < p \/ j \in p .. first - 1 \/ j = first \/ j \in first + 1 .. next - 1
    BY <1>1, <1>2
  <2> QED
    BY <2>3, <2>4, <2>5, <2>6, <2>7
<1>12. Boundary(raw, next)
  BY <1>11 DEF Boundary
<1> QED
  BY <1>2, <1>5, <1>9, <1>10, <1>12 DEF first, next

\* A special token: it is one marked character, and what it covers is none.
LEMMA MatchesFirst ==
    ASSUME NEW chosen, NEW raw, Over(raw, Characters),
           NEW p \in 1 .. Len(raw) + 1, Boundary(raw, p), Found(raw, p) # {},
           NEW base, Matches(MarkedText(chosen, raw), Reach(chosen, raw, p - 1), base, NoLetter)
    PROVE  /\ Str(Step(chosen, raw, p)) /\ Str(base)
           /\ Matches(MarkedText(chosen, raw), Reach(chosen, raw, Next(raw, p) - 1),
                      Then(base, Step(chosen, raw, p)), NoLetter)
<1> DEFINE first == First(raw, p)
           next == Next(raw, p)
           marked == MarkedText(chosen, raw)
           s == Normalize(chosen, Slice(raw, p, first - 1))
           name == Slice(raw, first, next - 1)
           g == Parts(chosen, raw)
           j == Reach(chosen, raw, first)
<1>1. Len(raw) \in Nat
  BY LenProperties DEF Over
<1>2. /\ first \in p .. Len(raw)
      /\ \A i \in p .. first - 1 : SpecialAt(raw)[i] = 0 /\ ~Covered(raw, i)
      /\ SpecialAt(raw)[first] > 0 /\ first + SpecialAt(raw)[first] = next
      /\ next \in first + 1 .. Len(raw) + 1
      /\ \A i \in first + 1 .. next - 1 : SpecialAt(raw)[i] = 0 /\ Covered(raw, i)
  BY FirstStands
<1>3. Step(chosen, raw, p) = Then(Tokens(s), One(Special(name)))
  BY DEF Step
<1> HIDE DEF first, next
<1>4. /\ first - 1 \in p - 1 .. Len(raw) /\ first \in 1 .. Len(raw)
      /\ next - 1 \in first .. Len(raw) /\ next - 1 \in Nat /\ first \in 0 .. next - 1
  BY <1>1, <1>2
<1>5. Matches(marked, Reach(chosen, raw, first - 1), base, Scan(s))
  BY <1>2, <1>4, MatchesSegment
<1>6. Marking(marked) /\ Strs(g, Len(raw)) /\ \A i \in 1 .. Len(raw) : PartIs(chosen, raw, i)
  BY PartsAre
<1>7. g[first] = One([chars |-> name, alone |-> TRUE, special |-> TRUE])
  <2>1. PartIs(chosen, raw, first)
    BY <1>4, <1>6
  <2>2. g[first] = One([chars |-> Slice(raw, first, first + SpecialAt(raw)[first] - 1),
                        alone |-> TRUE, special |-> TRUE])
    BY <1>2, <2>1 DEF PartIs
  <2>3. first + SpecialAt(raw)[first] - 1 = next - 1
    <3> DEFINE most == SpecialAt(raw)[first]
    <3>1. most \in Nat /\ first + most = next /\ first \in 1 .. Len(raw)
      BY <1>2, <1>4, SpecialAtIs
    <3> HIDE DEF most
    <3>2. first + most - 1 = next - 1
      BY <1>1, <3>1
    <3> QED
      BY <3>2 DEF most
  <2> QED
    BY <2>2, <2>3
<1> HIDE DEF name, s
<1>8. /\ j \in 1 .. Len(marked) /\ j - 1 = Reach(chosen, raw, first - 1)
      /\ marked[j] = [chars |-> name, alone |-> TRUE, special |-> TRUE]
  <2> DEFINE e == [chars |-> name, alone |-> TRUE, special |-> TRUE]
             a == Reach(chosen, raw, first - 1)
  <2>1. g[first] = One(e)
    BY <1>7
  <2> HIDE DEF e
  <2>2. Len(g[first]) = 1 /\ g[first][1] = e
    BY <2>1 DEF One
  <2>3. /\ a \in Nat /\ j = a + Len(g[first]) /\ j <= Len(marked)
        /\ \A k \in 1 .. Len(g[first]) : marked[a + k] = g[first][k] /\ a + k \in 1 .. Len(marked)
    BY <1>4, ReachIs
  <2> HIDE DEF a, j, g, marked
  <2>4. j = a + 1 /\ marked[a + 1] = e /\ a + 1 \in 1 .. Len(marked)
    BY <2>2, <2>3
  <2>5. j - 1 = a
    BY <2>3, <2>4
  <2> QED
    BY <2>4, <2>5 DEF a, e
<1> HIDE DEF j
<1>9. marked[j].special /\ marked[j].chars = name
  BY <1>8
<1>10. Matches(marked, j - 1, base, Scan(s))
  BY <1>5, <1>8
<1> HIDE DEF marked
<1>11. Matches(marked, j, Then(base, Then(PiecesOfAll(Flush(Scan(s))), One(Special(marked[j].chars)))),
               NoLetter)
  BY <1>6, <1>8, <1>9, <1>10, MatchesSpecial
<1>12. Tokens(s) = PiecesOfAll(Flush(Scan(s)))
  BY TokensIs
<1>13. Matches(marked, j, Then(base, Step(chosen, raw, p)), NoLetter)
  BY <1>3, <1>9, <1>11, <1>12
<1>14. Reading(Scan(s)) /\ Str(base)
  BY <1>10 DEF Matches
<1>15. Str(Step(chosen, raw, p))
  <2>1. Str(PiecesOfAll(Flush(Scan(s))))
    BY <1>14, FlushIs
  <2> QED
    BY <1>3, <1>12, <2>1, StrOne, StrThen
<1>16. Reach(chosen, raw, next - 1) = j
  <2>1. ASSUME NEW i \in first + 1 .. next - 1 PROVE g[i] = << >>
    <3>1. i \in 1 .. Len(raw)
      BY <1>1, <1>4
    <3>2. SpecialAt(raw)[i] = 0 /\ Covered(raw, i)
      BY <1>2
    <3> QED
      BY <1>6, <3>1, <3>2 DEF PartIs
  <2>2. Strs(g, next - 1)
    <3>1. next - 1 \in 0 .. Len(raw)
      BY <1>1, <1>4
    <3> QED
      BY <1>1, <1>6, <3>1, StrsLess
  <2> HIDE DEF g
  <2>3. Cat(g, next - 1) = Cat(g, first)
    BY <1>4, <2>1, <2>2, CatEmpties
  <2> QED
    BY <2>3 DEF Reach, g, j
<1> QED
  BY <1>13, <1>14, <1>15, <1>16 DEF marked, next

\* The rest of the text, without a special token.
LEMMA MatchesPlain ==
    ASSUME NEW chosen, NEW raw, Over(raw, Characters),
           NEW p \in 1 .. Len(raw) + 1, Boundary(raw, p), Found(raw, p) = {},
           NEW base, Matches(MarkedText(chosen, raw), Reach(chosen, raw, p - 1), base, NoLetter)
    PROVE  /\ Str(Plain(chosen, raw, p))
           /\ Then(base, Plain(chosen, raw, p))
                = Cat(Ids(MarkedText(chosen, raw)), Len(MarkedText(chosen, raw)))
<1> DEFINE n == Len(raw)
           marked == MarkedText(chosen, raw)
           s == Normalize(chosen, Slice(raw, p, n))
<1>1. n \in Nat /\ n \in p - 1 .. n
  BY LenProperties DEF Over
<1>2. \A i \in p .. n : SpecialLengths(raw, i) = {}
  BY DEF Found
<1>3. \A i \in p .. n : SpecialAt(raw)[i] = 0 /\ ~Covered(raw, i)
  BY <1>1, <1>2, NoneBefore
<1>4. Matches(marked, Reach(chosen, raw, n), base, Scan(s))
  BY <1>1, <1>3, MatchesSegment
<1>5. Marking(marked) /\ Reach(chosen, raw, n) = Len(marked)
  <2>1. Marking(marked) /\ marked = Cat(Parts(chosen, raw), n)
    BY PartsAre
  <2> QED
    BY <2>1 DEF Reach
<1>6. Plain(chosen, raw, p) = Tokens(s)
  BY DEF Plain
<1>7. Tokens(s) = PiecesOfAll(Flush(Scan(s)))
  BY TokensIs
<1> HIDE DEF marked, s, n
<1>8. Len(marked) \in 0 .. Len(marked) /\ ~Joins(marked, Len(marked) + 1)
  <2>1. Len(marked) \in Nat /\ DOMAIN marked = 1 .. Len(marked)
    BY <1>5 DEF Marking
  <2>2. Len(marked) + 1 \notin DOMAIN marked /\ Len(marked) \in 0 .. Len(marked)
    BY <2>1
  <2> QED
    BY <2>2 DEF Joins
<1>9. Matches(marked, Len(marked), base, Scan(s))
  BY <1>4, <1>5
<1>10. Cat(Ids(marked), Len(marked)) = Then(base, PiecesOfAll(Flush(Scan(s))))
  BY <1>5, <1>8, <1>9, MatchesEnd
<1>11. Reading(Scan(s))
  BY <1>9 DEF Matches
<1>12. Str(PiecesOfAll(Flush(Scan(s))))
  BY <1>11, FlushIs
<1> QED
  BY <1>6, <1>7, <1>10, <1>12 DEF marked

\* What the code finds in passes is what is said of the positions.
LEMMA TokensFromIs ==
    ASSUME NEW chosen, NEW raw, Over(raw, Characters)
    PROVE  /\ Str(TokensFrom(chosen, raw))
           /\ TokensFrom(chosen, raw) = TokensOf(chosen, raw)
<1> DEFINE n == Len(raw)
           marked == MarkedText(chosen, raw)
           all == Cat(Ids(marked), Len(marked))
           Given(base, p) == Matches(marked, Reach(chosen, raw, p - 1), base, NoLetter)
<1>1. n \in Nat
  BY LenProperties DEF Over
<1>2. Marking(marked) /\ Strs(Parts(chosen, raw), n) /\ marked = Cat(Parts(chosen, raw), n)
  BY PartsAre
<1>3. PICK f : TokensFrom(chosen, raw) = f[1] /\ Goes(f, chosen, raw)
  BY RestExists
<1> DEFINE good == {k \in 0 .. n :
                        Boundary(raw, k + 1) =>
                            \A base : Given(base, k + 1) =>
                                          Str(f[k + 1]) /\ Then(base, f[k + 1]) = all}
<1>4. ASSUME NEW k \in 0 .. n, \A m \in k + 1 .. n : m \in good PROVE k \in good
  <2> DEFINE p == k + 1
  <2>1. p \in 1 .. n + 1 /\ p - 1 = k
    BY <1>1
  <2> HIDE DEF p, good, n
  <2> SUFFICES ASSUME Boundary(raw, p), NEW base, Given(base, p)
               PROVE  Str(f[p]) /\ Then(base, f[p]) = all
    <3>1. k \in 0 .. n
      OBVIOUS
    <3> QED
      BY <3>1 DEF good, p
  <2>2. CASE Found(raw, p) = {}
    <3>1. f[p] = Plain(chosen, raw, p)
      BY <1>3, <2>1, <2>2 DEF Goes, n
    <3>2. Str(Plain(chosen, raw, p)) /\ Then(base, Plain(chosen, raw, p)) = all
      BY <2>1, <2>2, MatchesPlain DEF n
    <3> QED
      BY <3>1, <3>2
  <2>3. CASE Found(raw, p) # {}
    <3> DEFINE next == Next(raw, p)
               step == Step(chosen, raw, p)
    <3>1. f[p] = Then(step, f[next])
      BY <1>3, <2>1, <2>3 DEF Goes, n
    <3>2. /\ First(raw, p) \in p .. n /\ next \in First(raw, p) + 1 .. n + 1
          /\ Boundary(raw, next)
      BY <2>1, <2>3, FirstStands DEF n
    <3>3. Str(step) /\ Str(base) /\ Given(Then(base, step), next)
      BY <2>1, <2>3, MatchesFirst DEF n
    <3> HIDE DEF next, step
    <3>4. next - 1 \in k + 1 .. n /\ (next - 1) + 1 = next
      <4> DEFINE first == First(raw, p)
      <4>1. first \in p .. n /\ next \in first + 1 .. n + 1
        BY <3>2
      <4> HIDE DEF first
      <4> QED
        BY <1>1, <2>1, <4>1
    <3>5. next - 1 \in good
      BY <1>4, <3>4
    <3>6. Boundary(raw, (next - 1) + 1)
          /\ Given(Then(base, step), (next - 1) + 1)
      BY <3>2, <3>3, <3>4
    <3>7. Str(f[(next - 1) + 1]) /\ Then(Then(base, step), f[(next - 1) + 1]) = all
      <4> HIDE DEF all, Given
      <4> QED
        BY <3>5, <3>6 DEF good
    <3>8. Str(f[next]) /\ Then(Then(base, step), f[next]) = all
      BY <3>4, <3>7
    <3> QED
      BY <3>1, <3>3, <3>8, StrThen, ThenAssociative
  <2> QED
    BY <2>2, <2>3
<1> HIDE DEF good
<1>5. \A k \in 0 .. n : k \in good
  BY <1>1, <1>4, Descend
<1>6. Boundary(raw, 0 + 1)
  BY DEF Boundary
<1>7. Given(<< >>, 0 + 1)
  <2>1. Reach(chosen, raw, (0 + 1) - 1) = 0
    BY CatZero, EmptySeq DEF Reach
  <2>2. ~Joins(marked, 0)
    <3> HIDE DEF marked
    <3>1. 0 \notin DOMAIN marked
      BY <1>2 DEF Marking
    <3> QED
      BY <3>1 DEF Joins
  <2>3. Cat(Ids(marked), 0) = Then(<< >>, PiecesOfAll(NoLetter.words)) /\ NoLetter.word = << >>
    BY CatZero, StrEmpty, ThenEmpty, PiecesOfNone DEF NoLetter
  <2> HIDE DEF marked
  <2>4. Matches(marked, 0, << >>, NoLetter)
    BY <2>2, <2>3, StrEmpty, NoLetterReading, MatchesAfter
  <2> QED
    BY <2>1, <2>4 DEF marked
<1>8. 0 \in good
  BY <1>1, <1>5
<1>9. Str(f[0 + 1]) /\ Then(<< >>, f[0 + 1]) = all
  <2> HIDE DEF all, Given
  <2> QED
    BY <1>6, <1>7, <1>8 DEF good
<1>10. Str(f[1]) /\ f[1] = all
  <2>1. 0 + 1 = 1
    OBVIOUS
  <2> HIDE DEF all
  <2> QED
    BY <1>9, <2>1, ThenEmpty
<1>11. TokensOf(chosen, raw) = all
  <2>1. Len(marked) \in Nat /\ DOMAIN marked = 1 .. Len(marked)
    BY <1>2 DEF Marking
  <2>2. TokensOf(chosen, raw) = FlattenSeq(Ids(marked))
    BY DEF TokensOf, Ids
  <2> HIDE DEF marked
  <2>3. Ids(marked) = [j \in 1 .. Len(marked) |-> Ids(marked)[j]]
    BY <2>1 DEF Ids
  <2> QED
    BY <2>1, <2>2, <2>3, FlattenIsCat
<1> QED
  BY <1>3, <1>10, <1>11

-----------------------------------------------------------------------------
(* The frame around the tokens.                                            *)

\* As many of the tokens as fit.
Kept(tokens) == Min({Len(tokens), MaxSeqLen - 2})

LEMMA TruncateIs ==
    ASSUME NEW tokens, Str(tokens)
    PROVE  /\ Kept(tokens) \in 0 .. MaxSeqLen - 2 /\ Kept(tokens) \in 0 .. Len(tokens)
           /\ Len(tokens) \in Nat
           /\ Truncate(tokens) = Slice(tokens, 1, Kept(tokens))
           /\ Str(Truncate(tokens)) /\ Len(Truncate(tokens)) = Kept(tokens)
           /\ \A i \in 1 .. Kept(tokens) : Truncate(tokens)[i] = tokens[i]
<1>1. PICK S : tokens \in Seq(S)
  BY DEF Str
<1>2. Len(tokens) \in Nat /\ MaxSeqLen - 2 \in Nat /\ \A i \in 1 .. Len(tokens) : tokens[i] \in S
  BY <1>1, LenProperties, ElementOfSeq, TokenizerAssumption
<1> DEFINE pair == {Len(tokens), MaxSeqLen - 2}
<1>3. Kept(tokens) \in pair /\ \A y \in pair : Kept(tokens) <= y
  <2>1. pair \in SUBSET Nat /\ pair # {}
    BY <1>2
  <2> HIDE DEF pair
  <2>2. Min(pair) \in pair /\ \A y \in pair : Min(pair) <= y
    BY <2>1, LowestNumber
  <2> QED
    BY <2>2 DEF Kept, pair
<1> DEFINE kept == Kept(tokens)
<1> HIDE DEF kept
<1>4. kept \in 0 .. MaxSeqLen - 2 /\ kept \in 0 .. Len(tokens) /\ kept \in Nat
  BY <1>2, <1>3 DEF kept
<1>5. /\ SubSeq(tokens, 1, kept) \in Seq(S)
      /\ Len(SubSeq(tokens, 1, kept)) = IF 1 <= kept THEN kept - 1 + 1 ELSE 0
      /\ \A i \in 1 .. kept - 1 + 1 : SubSeq(tokens, 1, kept)[i] = tokens[1 + i - 1]
  <2>1. 1 \in Int /\ kept \in Int /\ \A i \in 1 .. kept : tokens[i] \in S
    BY <1>2, <1>4
  <2> QED
    BY <1>1, <2>1, SubSeqProperties
<1> DEFINE cut == SubSeq(tokens, 1, kept)
<1>6. cut \in Seq(S) /\ Len(cut) = kept /\ \A i \in 1 .. kept : cut[i] = tokens[i]
  <2>1. (IF 1 <= kept THEN kept - 1 + 1 ELSE 0) = kept /\ kept - 1 + 1 = kept
    BY <1>4
  <2>2. \A i \in 1 .. kept : 1 + i - 1 = i
    OBVIOUS
  <2> HIDE DEF cut
  <2> QED
    BY <1>5, <2>1, <2>2 DEF cut
<1>7. Truncate(tokens) = cut
  BY DEF Truncate, Kept, kept
<1>8. cut = Slice(tokens, 1, kept)
  BY DEF Slice
<1> HIDE DEF cut
<1> QED
  BY <1>2, <1>4, <1>6, <1>7, <1>8 DEF Str, kept

\* What the property says of a result and the tokens.
Framed(e, tokens) ==
    LET last == Cardinality({i \in 1 .. MaxSeqLen : e.mask[i] = 1})
    IN  /\ Len(e.ids) = MaxSeqLen /\ Len(e.mask) = MaxSeqLen
        /\ e.ids[1] = Special(<<"CLS">>) /\ e.ids[last] = Special(<<"SEP">>)
        /\ \A i \in 1 .. MaxSeqLen :
               /\ e.mask[i] = 1 <=> i <= last
               /\ i > last => e.ids[i] = Special(<<"PAD">>)
        /\ last - 2 = Min({Len(tokens), MaxSeqLen - 2})
        /\ SubSeq(e.ids, 2, last - 1) = SubSeq(tokens, 1, last - 2)

LEMMA FrameIs ==
    ASSUME NEW tokens, Str(tokens)
    PROVE  Framed(Frame(Truncate(tokens)), tokens)
<1> DEFINE content == Truncate(tokens)
           kept == Kept(tokens)
           ids == Frame(content).ids
           mask == Frame(content).mask
           ones == {i \in 1 .. MaxSeqLen : mask[i] = 1}
<1>1. /\ kept \in 0 .. MaxSeqLen - 2 /\ kept \in 0 .. Len(tokens) /\ Len(tokens) \in Nat
      /\ content = Slice(tokens, 1, kept) /\ Str(content) /\ Len(content) = kept
      /\ MaxSeqLen \in Nat /\ MaxSeqLen >= 2 /\ \A i \in 1 .. kept : content[i] = tokens[i]
  BY TruncateIs, TokenizerAssumption
<1> HIDE DEF content, kept
<1>2. /\ ids = [i \in 1 .. MaxSeqLen |->
                   CASE i = 1 -> Special(<<"CLS">>)
                     [] i > 1 /\ i <= kept + 1 -> content[i - 1]
                     [] i = kept + 2 -> Special(<<"SEP">>)
                     [] OTHER -> Special(<<"PAD">>)]
      /\ mask = [i \in 1 .. MaxSeqLen |-> IF i <= kept + 2 THEN 1 ELSE 0]
  BY <1>1 DEF Frame
<1> HIDE DEF ids, mask
<1>3. kept + 2 \in 2 .. MaxSeqLen /\ kept \in Nat
  BY <1>1
<1>4. /\ ids[1] = Special(<<"CLS">>) /\ ids[kept + 2] = Special(<<"SEP">>)
      /\ \A i \in 2 .. kept + 1 : ids[i] = content[i - 1]
      /\ \A i \in kept + 3 .. MaxSeqLen : ids[i] = Special(<<"PAD">>)
  <2> HIDE DEF Special
  <2>1. ids[1] = Special(<<"CLS">>)
    BY <1>1, <1>2
  <2>2. ids[kept + 2] = Special(<<"SEP">>)
    <3>1. kept + 2 \in 1 .. MaxSeqLen /\ kept + 2 # 1 /\ ~(kept + 2 <= kept + 1)
      BY <1>3
    <3> QED
      BY <1>2, <3>1
  <2>3. ASSUME NEW i \in 2 .. kept + 1 PROVE ids[i] = content[i - 1]
    <3>1. i \in 1 .. MaxSeqLen /\ i # 1 /\ i > 1 /\ i <= kept + 1 /\ i # kept + 2
      BY <1>1, <1>3
    <3> QED
      BY <1>2, <3>1
  <2>4. ASSUME NEW i \in kept + 3 .. MaxSeqLen PROVE ids[i] = Special(<<"PAD">>)
    <3>1. i \in 1 .. MaxSeqLen /\ i # 1 /\ ~(i <= kept + 1) /\ i # kept + 2
      BY <1>3
    <3> QED
      BY <1>2, <3>1
  <2> QED
    BY <2>1, <2>2, <2>3, <2>4
<1>5. Len(ids) = MaxSeqLen /\ Len(mask) = MaxSeqLen
  BY <1>1, <1>2
<1>6. \A i \in 1 .. MaxSeqLen : mask[i] = 1 <=> i <= kept + 2
  BY <1>2
<1>7. ones = 1 .. kept + 2
  BY <1>1, <1>3, <1>6
<1>8. Cardinality(ones) = kept + 2
  <2> DEFINE top == kept + 2
  <2>1. 1 \in Int /\ top \in Int /\ top >= 1
    BY <1>3
  <2> HIDE DEF top
  <2>2. Cardinality(1 .. top) = IF 1 > top THEN 0 ELSE top - 1 + 1
    BY <2>1, FS_Interval
  <2>3. Cardinality(1 .. top) = top
    BY <2>1, <2>2
  <2> QED
    BY <1>7, <2>3 DEF top
<1>9. SubSeq(ids, 2, kept + 1) = SubSeq(tokens, 1, kept)
  <2>1. SubSeq(ids, 2, kept + 1) = [i \in 1 .. kept |-> ids[i + 1]]
    BY <1>3 DEF SubSeq
  <2>2. SubSeq(tokens, 1, kept) = [i \in 1 .. kept |-> tokens[i]]
    BY <1>3 DEF SubSeq
  <2>3. ASSUME NEW i \in 1 .. kept PROVE ids[i + 1] = tokens[i]
    <3>1. i + 1 \in 2 .. kept + 1 /\ (i + 1) - 1 = i
      BY <1>3
    <3> QED
      BY <1>1, <1>4, <3>1
  <2> QED
    BY <2>1, <2>2, <2>3
<1>10. \A i \in 1 .. MaxSeqLen : i > kept + 2 => i \in kept + 3 .. MaxSeqLen
  BY <1>3
<1>11. kept = Min({Len(tokens), MaxSeqLen - 2})
  BY DEF Kept, kept
<1> HIDE DEF ones
<1>12. /\ ids[1] = Special(<<"CLS">>) /\ ids[Cardinality(ones)] = Special(<<"SEP">>)
       /\ \A i \in 1 .. MaxSeqLen :
              /\ mask[i] = 1 <=> i <= Cardinality(ones)
              /\ i > Cardinality(ones) => ids[i] = Special(<<"PAD">>)
       /\ Cardinality(ones) - 2 = Min({Len(tokens), MaxSeqLen - 2})
       /\ SubSeq(ids, 2, Cardinality(ones) - 1) = SubSeq(tokens, 1, Cardinality(ones) - 2)
  <2> DEFINE last == Cardinality(ones)
  <2>1. last = kept + 2
    BY <1>8
  <2> HIDE DEF last
  <2>2. /\ ids[1] = Special(<<"CLS">>) /\ ids[last] = Special(<<"SEP">>)
    BY <1>4, <2>1
  <2>3. \A i \in 1 .. MaxSeqLen : mask[i] = 1 <=> i <= last
    BY <1>6, <2>1
  <2>4. \A i \in 1 .. MaxSeqLen : i > last => ids[i] = Special(<<"PAD">>)
    BY <1>4, <1>10, <2>1
  <2>5. last - 2 = kept /\ last - 1 = kept + 1
    BY <1>3, <2>1
  <2>6. last - 2 = Min({Len(tokens), MaxSeqLen - 2})
    BY <1>11, <2>5
  <2>7. SubSeq(ids, 2, last - 1) = SubSeq(tokens, 1, last - 2)
    BY <1>9, <2>5
  <2> QED
    BY <2>2, <2>3, <2>4, <2>6, <2>7 DEF last
<1> QED
  BY <1>5, <1>12 DEF Framed, ids, mask, ones, content

-----------------------------------------------------------------------------
(* The theorem.                                                            *)

TokenizerInv == text \in Seq(Characters) /\ TokensAreOfTheWords

\* Whatever the vocabulary, the tables of Unicode, the normalisers, the lengths and
\* the text: the passes of Encode give the longest pieces of the words that are read
\* off the positions of the text, cut and framed (berttok.go:115-331).
THEOREM TokensStayOfTheWords == TokenizerSpec => []TokensAreOfTheWords
<1>1. TokenizerInit => TokenizerInv
  <2> SUFFICES ASSUME TokenizerInit PROVE TokenizerInv
    OBVIOUS
  <2>1. text \in Seq(Characters)
    BY DEF TokenizerInit, BoundedSeq, SeqOf
  <2>2. encoded = NotEncoded
    BY DEF TokenizerInit
  <2> QED
    BY <2>1, <2>2 DEF TokenizerInv, TokensAreOfTheWords
<1>2. TokenizerInv /\ [TokenizerNext]_tokenizerVars => TokenizerInv'
  <2> SUFFICES ASSUME TokenizerInv, [TokenizerNext]_tokenizerVars PROVE TokenizerInv'
    OBVIOUS
  <2>1. CASE Encode
    <3>1. /\ encoded' = Frame(Truncate(TokensFrom(options, text)))
          /\ text' = text /\ options' = options
      BY <2>1 DEF Encode
    <3>2. Over(text, Characters)
      BY DEF TokenizerInv, Over
    <3>3. Str(TokensFrom(options, text)) /\ TokensFrom(options, text) = TokensOf(options, text)
      BY <3>2, TokensFromIs
    <3>4. Framed(Frame(Truncate(TokensOf(options, text))), TokensOf(options, text))
      BY <3>3, FrameIs
    <3>5. Framed(encoded', TokensOf(options', text'))
      BY <3>1, <3>3, <3>4
    <3>6. TokensAreOfTheWords'
      BY <3>5 DEF Framed, TokensAreOfTheWords
    <3> QED
      BY <3>1, <3>6 DEF TokenizerInv
  <2>2. CASE UNCHANGED tokenizerVars
    BY <2>2 DEF TokenizerInv, TokensAreOfTheWords, tokenizerVars
  <2> QED
    BY <2>1, <2>2 DEF TokenizerNext
<1>3. TokenizerInv => TokensAreOfTheWords
  BY DEF TokenizerInv
<1> QED
  BY <1>1, <1>2, <1>3, PTL DEF TokenizerSpec
=============================================================================
