---------------------------- MODULE WindowsProofs ----------------------------
(***************************************************************************)
(* How _windows of knowledge/extraction.py cuts a text, for every text and *)
(* every limit, and that the loop over its windows makes progress.  The    *)
(* loops of _windows are folds, so this needs induction over data.         *)
(* The library's induction theorems take an operator, which the provers    *)
(* cannot instantiate; here induction is on membership in a set, from the  *)
(* theorem that a well-founded relation has minimal elements.              *)
(***************************************************************************)
EXTENDS ExtractionCallsProofs, WellFoundedInduction, SequenceTheorems,
        FiniteSetTheorems, TLAPS

------------------------------------------------------------------------------
\* Induction and folds: facts about any loop over a sequence.

\* Induction on the naturals for a set instead of a formula: the least number
\* outside of T, which a well-founded order has, would refute the step.
LEMMA SetInduction ==
  ASSUME NEW T, 0 \in T, \A n \in Nat : n \in T => n + 1 \in T
  PROVE  Nat \subseteq T
<1> DEFINE Less == OpToRel(<, Nat)
<1>1. \A x \in Nat \ {0} : x - 1 \in Nat /\ <<x - 1, x>> \in Less
  BY DEF OpToRel
<1>2. IsWellFoundedOn(Less, Nat)
  BY NatLessThanWellFounded
<1> HIDE DEF Less
<1>3. SUFFICES ASSUME Nat \ T # {} PROVE FALSE
  OBVIOUS
<1>4. PICK x \in Nat \ T : \A y \in Nat \ T : ~ (<<y, x>> \in Less)
  BY <1>2, <1>3, WFMin
<1>5. x # 0 /\ x - 1 \in Nat /\ <<x - 1, x>> \in Less /\ x - 1 \notin T
  BY <1>1, <1>4
<1>6. x - 1 \in T
  BY <1>4, <1>5
<1> QED BY <1>5, <1>6

\* Max, a CHOOSE, of numbers up to m + 1 that include m + 1.
LEMMA MaxOf ==
  ASSUME NEW m \in Nat, NEW s, s \subseteq 1..(m + 1), m + 1 \in s
  PROVE  Max(s) = m + 1
<1> DEFINE Top(x) == \A y \in s : x >= y
<1>1. m + 1 \in s /\ Top(m + 1)
  OBVIOUS
<1>2. \A x \in s : Top(x) => x = m + 1
  OBVIOUS
<1>3. Max(s) = CHOOSE x \in s : Top(x)
  BY DEF Max
<1> HIDE DEF Top
<1> QED BY <1>1, <1>2, <1>3

\* A nonempty set of numbers up to n has its maximum in it.
LEMMA MaxIn ==
  ASSUME NEW n \in Nat, NEW s \in SUBSET (1..n), s # {}
  PROVE  Max(s) \in s
<1> DEFINE T == {m \in Nat : \A r \in SUBSET (1..m) : r # {} => Max(r) \in r}
<1>1. 0 \in T
  <2>1. SUBSET (1..0) = {{}}
    OBVIOUS
  <2> QED BY <2>1
<1>2. ASSUME NEW m \in Nat, m \in T PROVE m + 1 \in T
  <2>1. ASSUME NEW r \in SUBSET (1..(m + 1)), r # {} PROVE Max(r) \in r
    <3>1. CASE m + 1 \in r
      <4>1. r \subseteq 1..(m + 1)
        OBVIOUS
      <4> QED BY <4>1, <3>1, MaxOf
    <3>2. CASE m + 1 \notin r
      <4>1. r \in SUBSET (1..m)
        BY <3>2
      <4> QED BY <4>1, <2>1, <1>2
    <3> QED BY <3>1, <3>2
  <2> QED BY <2>1
<1> HIDE DEF T
<1>3. n \in T
  BY <1>1, <1>2, SetInduction
<1> QED BY <1>3 DEF T

\* g is the fold with step and base over every set of indices up to n: the
\* equation by which MapThenFoldSet, hence FoldLeft, chooses its function.
FoldOf(g, base, step, n) == \A s \in SUBSET (1..n) :
  g[s] = IF s = {} THEN base ELSE step[<<g[s \ {Max(s)}], Max(s)>>]

\* That equation has a solution, so what FoldLeft chooses is one.
LEMMA FoldExists ==
  ASSUME NEW V, NEW base \in V, NEW step \in [V \X Nat -> V], NEW n \in Nat
  PROVE  \E g \in [SUBSET (1..n) -> V] : FoldOf(g, base, step, n)
<1> USE DEF FoldOf
<1> DEFINE Good(m, g) == \A s \in SUBSET (1..m) :
              g[s] = IF s = {} THEN base ELSE step[<<g[s \ {Max(s)}], Max(s)>>]
           T == {m \in Nat : \E g \in [SUBSET (1..m) -> V] : Good(m, g)}
<1>1. 0 \in T
  <2> DEFINE g == [s \in SUBSET (1..0) |-> base]
  <2>1. SUBSET (1..0) = {{}}
    OBVIOUS
  <2>2. g \in [SUBSET (1..0) -> V] /\ Good(0, g)
    BY <2>1
  <2> QED BY <2>2
<1>2. ASSUME NEW m \in Nat, m \in T PROVE m + 1 \in T
  <2>1. PICK g \in [SUBSET (1..m) -> V] : Good(m, g)
    BY <1>2
  <2> DEFINE h == [s \in SUBSET (1..(m + 1)) |->
                     IF m + 1 \in s THEN step[<<g[s \ {m + 1}], m + 1>>] ELSE g[s]]
  <2>2. ASSUME NEW s \in SUBSET (1..(m + 1)), m + 1 \in s
        PROVE  /\ Max(s) = m + 1 /\ s \ {m + 1} \in SUBSET (1..m)
               /\ s \ {m + 1} \in SUBSET (1..(m + 1)) /\ m + 1 \notin s \ {m + 1}
    <3>1. s \subseteq 1..(m + 1)
      OBVIOUS
    <3>2. Max(s) = m + 1
      BY <2>2, <3>1, MaxOf
    <3> QED BY <3>2
  <2>3. ASSUME NEW s \in SUBSET (1..(m + 1)), m + 1 \notin s
        PROVE  s \in SUBSET (1..m)
    BY <2>3
  <2>4. h \in [SUBSET (1..(m + 1)) -> V]
    BY <2>1, <2>2, <2>3
  <2>5. ASSUME NEW s \in SUBSET (1..(m + 1))
        PROVE  h[s] = IF s = {} THEN base ELSE step[<<h[s \ {Max(s)}], Max(s)>>]
    <3>1. CASE m + 1 \in s
      BY <3>1, <2>2
    <3>2. CASE m + 1 \notin s
      <4>1. s \in SUBSET (1..m) /\ h[s] = g[s]
        BY <3>2, <2>3
      <4>2. CASE s = {}
        BY <4>1, <4>2, <2>1
      <4>3. CASE s # {}
        <5>1. s \ {Max(s)} \in SUBSET (1..m) /\ s \ {Max(s)} \in SUBSET (1..(m+1)) /\ m + 1 \notin s \ {Max(s)}
          BY <4>1, <3>2
        <5>2. h[s \ {Max(s)}] = g[s \ {Max(s)}]
          BY <5>1
        <5> QED BY <4>1, <4>3, <5>2, <2>1
      <4> QED BY <4>2, <4>3
    <3> QED BY <3>1, <3>2
  <2> HIDE DEF h
  <2>6. Good(m + 1, h)
    BY <2>5
  <2> HIDE DEF Good
  <2> QED BY <2>4, <2>6
<1> HIDE DEF T
<1>3. n \in T
  BY <1>1, <1>2, SetInduction
<1> QED BY <1>3 DEF T

\* Induction on sequences, from the left to the right.
LEMMA SeqInduction ==
  ASSUME NEW S, NEW T, <<>> \in T,
         \A q \in Seq(S), e \in S : q \in T => Append(q, e) \in T
  PROVE  Seq(S) \subseteq T
<1> DEFINE N == {n \in Nat : \A q \in Seq(S) : Len(q) = n => q \in T}
<1>1. 0 \in N
  BY EmptySeq
<1>2. ASSUME NEW n \in Nat, n \in N PROVE n + 1 \in N
  <2>1. ASSUME NEW q \in Seq(S), Len(q) = n + 1 PROVE q \in T
    <3>1. q # <<>>
      BY <2>1
    <3>2. PICK r \in Seq(S), e \in S : q = Append(r, e)
      BY <3>1, SequenceEmptyOrAppend
    <3>3. Len(r) = n
      BY <2>1, <3>2
    <3> QED BY <3>2, <3>3, <1>2
  <2> QED BY <2>1
<1> HIDE DEF N
<1>3. Nat \subseteq N
  BY <1>1, <1>2, SetInduction
<1>4. ASSUME NEW q \in Seq(S) PROVE q \in T
  BY <1>3 DEF N
<1> QED BY <1>4

\* Prefixes of the indices: the largest of 1..k+1, and what is left without it.
LEMMA Counting ==
  ASSUME NEW k \in Nat
  PROVE  /\ 1..0 = {}
         /\ Max(1..(k + 1)) = k + 1
         /\ (1..(k + 1)) \ {k + 1} = 1..k /\ 1..(k + 1) # {}
  BY MaxOf

------------------------------------------------------------------------------
\* The loops of the model, unrolled.

\* Slices of a text, what _windows has at hand while it packs them, how it
\* starts, and what it has after the slices q.
ItemSet == [part : Nat, from : Nat, to : Nat]
Accs == [windows : Seq(Seq(ItemSet)), current : Seq(ItemSet), size : Int]
Start == [windows |-> <<>>, current |-> <<>>, size |-> 0]
Packed(q) == FoldLeft(Pack, Start, q)

\* The empty sequence of slices and of windows; there is a slice.
LEMMA Nothing ==
  /\ <<>> \in Seq(ItemSet) /\ <<>> \in Seq(Seq(ItemSet)) /\ Len(<<>>) = 0
  /\ \E e : e \in ItemSet
<1>1. [part |-> 0, from |-> 0, to |-> 0] \in ItemSet
  BY DEF ItemSet
<1> HIDE DEF ItemSet
<1>2. <<>> \in Seq(ItemSet) /\ <<>> \in Seq(Seq(ItemSet)) /\ Len(<<>>) = 0
  OBVIOUS
<1> QED BY <1>1, <1>2

\* One round of the packing loop keeps the types of its variables.
LEMMA PackTyped ==
  ASSUME NEW acc \in Accs, NEW item \in ItemSet
  PROVE  Pack(acc, item) \in Accs
<1>1. Length(item) \in Int
  BY DEF Length, ItemSet
<1>2. /\ acc.windows \in Seq(Seq(ItemSet)) /\ acc.current \in Seq(ItemSet) /\ acc.size \in Int
      /\ acc.size + Length(item) \in Int
  BY <1>1 DEF Accs
<1>3. /\ Append(acc.windows, acc.current) \in Seq(Seq(ItemSet))
      /\ Append(acc.current, item) \in Seq(ItemSet) /\ <<item>> \in Seq(ItemSet)
  BY <1>2
<1> QED
  BY <1>1, <1>2, <1>3 DEF Pack, Accs

\* The fold of Pack is a loop: F[k] is what it has after k slices.
LEMMA PackedUnrolls ==
  ASSUME NEW q \in Seq(ItemSet)
  PROVE  \E F : /\ F[0] = Start /\ Packed(q) = F[Len(q)]
                /\ \A k \in 1..Len(q) : F[k] = Pack(F[k - 1], q[k])
<1> DEFINE n == Len(q)
           Body(g) == [s \in SUBSET (DOMAIN q) |-> IF s = {} THEN Start
                         ELSE Pack(g[s \ {Max(s)}], q[Max(s)])]
           step == [x \in Accs \X Nat |-> IF x[2] \in 1..n THEN Pack(x[1], q[x[2]]) ELSE x[1]]
           it == CHOOSE iter : iter = Body(iter)
           F == [k \in 0..n |-> it[1..k]]
<1>1. Start \in Accs /\ n \in Nat /\ DOMAIN q = 1..n /\ \A k \in 1..n : q[k] \in ItemSet
  BY DEF Start, Accs
<1>2. step \in [Accs \X Nat -> Accs]
  BY <1>1, PackTyped
<1>3. PICK g \in [SUBSET (1..n) -> Accs] : FoldOf(g, Start, step, n)
  <2> HIDE DEF step, n
  <2> QED BY <1>1, <1>2, FoldExists
<1>4. ASSUME NEW s \in SUBSET (1..n), s # {}
      PROVE  Max(s) \in 1..n /\ s \ {Max(s)} \in SUBSET (1..n)
  <2> HIDE DEF n
  <2> QED BY <1>1, <1>4, MaxIn
<1>5. g = Body(g)
  <2>1. ASSUME NEW s \in SUBSET (1..n), s # {} PROVE g[s] = Pack(g[s \ {Max(s)}], q[Max(s)])
    <3>1. g[s] = step[<<g[s \ {Max(s)}], Max(s)>>]
      <4> HIDE DEF step, n
      <4> QED  BY <2>1, <1>3 DEF FoldOf
    <3>2. Max(s) \in 1..n /\ Max(s) \in Nat /\ g[s \ {Max(s)}] \in Accs
      <4> HIDE DEF step, n
      <4> QED BY <2>1, <1>1, <1>3, <1>4
    <3> QED BY <3>1, <3>2
  <2>2. g[{}] = Start
    <3> HIDE DEF step, n
    <3> QED BY <1>3 DEF FoldOf
  <2>3. DOMAIN g = SUBSET DOMAIN q /\ SUBSET DOMAIN q = SUBSET (1..n)
    BY <1>1, <1>3
  <2> HIDE DEF n, step
  <2>4. \A s \in SUBSET DOMAIN q : g[s] = IF s = {} THEN Start ELSE Pack(g[s \ {Max(s)}], q[Max(s)])
    BY <2>1, <2>2, <2>3
  <2> QED BY <1>3, <2>3, <2>4
<1>6. it = Body(it)
  <2> HIDE DEF Body
  <2> QED BY <1>5
<1>7. Packed(q) = it[DOMAIN q]
  BY DEF Packed, FoldLeft, MapThenFoldSet
<1> HIDE DEF it, n
<1>8. ASSUME NEW s \in SUBSET (1..n)
      PROVE  it[s] = IF s = {} THEN Start ELSE Pack(it[s \ {Max(s)}], q[Max(s)])
  BY <1>6, <1>1
<1>9. F[0] = Start
  <2>1. 1..0 = {} /\ {} \in SUBSET (1..n) /\ 0 \in 0..n
    BY <1>1
  <2>2. F[0] = it[{}]
    BY <2>1
  <2> QED BY <1>8, <2>1, <2>2
<1>10. ASSUME NEW k \in 1..n PROVE F[k] = Pack(F[k - 1], q[k])
  <2>1. k - 1 \in Nat /\ (k - 1) + 1 = k /\ 1..k \in SUBSET (1..n)
    BY <1>1
  <2>2. Max(1..k) = k /\ (1..k) \ {k} = 1..(k - 1) /\ 1..k # {}
    BY <2>1, Counting
  <2> QED BY <1>1, <1>8, <2>1, <2>2
<1>11. Packed(q) = F[n]
  BY <1>1, <1>7
<1> HIDE DEF F
<1> QED BY <1>9, <1>10, <1>11 DEF n

\* One slice more is one round of the loop more.
LEMMA PackedSnoc ==
  ASSUME NEW q \in Seq(ItemSet), NEW e \in ItemSet
  PROVE  Packed(<<>>) = Start /\ Packed(Append(q, e)) = Pack(Packed(q), e)
<1> DEFINE n == Len(q)
           r == Append(q, e)
<1>1. Packed(<<>>) = Start
  <2>1. <<>> \in Seq(ItemSet) /\ Len(<<>>) = 0
    OBVIOUS
  <2> QED BY <2>1, PackedUnrolls
<1>2. /\ n \in Nat /\ r \in Seq(ItemSet) /\ Len(r) = n + 1 /\ r[n + 1] = e
      /\ \A k \in 1..n : r[k] = q[k]
  OBVIOUS
<1>3. PICK F : /\ F[0] = Start /\ Packed(q) = F[n]
               /\ \A k \in 1..n : F[k] = Pack(F[k - 1], q[k])
  BY PackedUnrolls
<1>4. PICK G : /\ G[0] = Start /\ Packed(r) = G[n + 1]
               /\ \A k \in 1..(n + 1) : G[k] = Pack(G[k - 1], r[k])
  <2> HIDE DEF n, r
  <2>1. PICK G : /\ G[0] = Start /\ Packed(r) = G[Len(r)]
                 /\ \A k \in 1..Len(r) : G[k] = Pack(G[k - 1], r[k])
    BY <1>2, PackedUnrolls
  <2>2. Packed(r) = G[n + 1] /\ \A k \in 1..(n + 1) : G[k] = Pack(G[k - 1], r[k])
    BY <1>2, <2>1
  <2> QED BY <2>1, <2>2
<1> HIDE DEF n, r
<1> DEFINE T == {k \in Nat : k <= n => G[k] = F[k]}
<1>5. 0 \in T
  BY <1>3, <1>4
<1>6. ASSUME NEW k \in Nat, k \in T PROVE k + 1 \in T
  <2>1. ASSUME k + 1 <= n PROVE G[k + 1] = F[k + 1]
    <3>1. k <= n /\ k + 1 \in 1..n /\ k + 1 \in 1..(n + 1) /\ (k + 1) - 1 = k
      BY <2>1, <1>2
    <3>2. G[k + 1] = Pack(G[k], r[k + 1]) /\ F[k + 1] = Pack(F[k], q[k + 1])
      BY <3>1, <1>3, <1>4
    <3> QED BY <3>1, <3>2, <1>2, <1>6
  <2> QED BY <2>1
<1> HIDE DEF T
<1>7. n \in T
  BY <1>2, <1>5, <1>6, SetInduction
<1>8. G[n] = F[n]
  BY <1>2, <1>7 DEF T
<1>9. n + 1 \in 1..(n + 1) /\ (n + 1) - 1 = n
  BY <1>2
<1>10. Packed(r) = Pack(G[n], r[n + 1])
  BY <1>4, <1>9
<1> QED BY <1>1, <1>2, <1>3, <1>8, <1>10 DEF r

\* The characters of a window.
Size(w) == FoldLeft(LAMBDA sum, item : sum + Length(item), 0, w)

\* The sum is a loop as well.
LEMMA SizeUnrolls ==
  ASSUME NEW q \in Seq(ItemSet)
  PROVE  \E F : /\ F[0] = 0 /\ Size(q) = F[Len(q)]
                /\ \A k \in 1..Len(q) : F[k] = F[k - 1] + Length(q[k])
<1> DEFINE n == Len(q)
           Body(g) == [s \in SUBSET (DOMAIN q) |-> IF s = {} THEN 0
                         ELSE g[s \ {Max(s)}] + Length(q[Max(s)])]
           step == [x \in Int \X Nat |-> IF x[2] \in 1..n THEN x[1] + Length(q[x[2]]) ELSE x[1]]
           it == CHOOSE iter : iter = Body(iter)
           F == [k \in 0..n |-> it[1..k]]
<1>1. n \in Nat /\ DOMAIN q = 1..n /\ \A k \in 1..n : q[k] \in ItemSet /\ Length(q[k]) \in Int
  <2>1. \A e \in ItemSet : Length(e) \in Int
    BY DEF ItemSet, Length
  <2> QED BY <2>1
<1>2. step \in [Int \X Nat -> Int]
  BY <1>1
<1>3. PICK g \in [SUBSET (1..n) -> Int] : FoldOf(g, 0, step, n)
  <2> HIDE DEF step, n
  <2>1. 0 \in Int
    OBVIOUS
  <2>2. \A base \in Int : \E h \in [SUBSET (1..n) -> Int] : FoldOf(h, base, step, n)
    BY <1>1, <1>2, FoldExists
  <2> QED BY <2>1, <2>2
<1>4. ASSUME NEW s \in SUBSET (1..n), s # {}
      PROVE  Max(s) \in 1..n /\ s \ {Max(s)} \in SUBSET (1..n)
  <2> HIDE DEF n
  <2> QED BY <1>1, <1>4, MaxIn
<1>5. g = Body(g)
  <2>1. ASSUME NEW s \in SUBSET (1..n), s # {} PROVE g[s] = g[s \ {Max(s)}] + Length(q[Max(s)])
    <3>1. g[s] = step[<<g[s \ {Max(s)}], Max(s)>>]
      <4> HIDE DEF step, n
      <4> QED  BY <2>1, <1>3 DEF FoldOf
    <3>2. Max(s) \in 1..n /\ Max(s) \in Nat /\ g[s \ {Max(s)}] \in Int
      <4> HIDE DEF step, n
      <4> QED BY <2>1, <1>1, <1>3, <1>4
    <3> QED BY <3>1, <3>2
  <2>2. g[{}] = 0
    <3> HIDE DEF step, n
    <3> QED BY <1>3 DEF FoldOf
  <2>3. DOMAIN g = SUBSET DOMAIN q /\ SUBSET DOMAIN q = SUBSET (1..n)
    BY <1>1, <1>3
  <2> HIDE DEF n, step
  <2>4. \A s \in SUBSET DOMAIN q : g[s] = IF s = {} THEN 0 ELSE g[s \ {Max(s)}] + Length(q[Max(s)])
    BY <2>1, <2>2, <2>3
  <2> QED BY <1>3, <2>3, <2>4
<1>6. it = Body(it)
  <2> HIDE DEF Body
  <2> QED BY <1>5
<1>7. Size(q) = it[DOMAIN q]
  BY DEF Size, FoldLeft, MapThenFoldSet
<1> HIDE DEF it, n
<1>8. ASSUME NEW s \in SUBSET (1..n)
      PROVE  it[s] = IF s = {} THEN 0 ELSE it[s \ {Max(s)}] + Length(q[Max(s)])
  BY <1>6, <1>1
<1>9. F[0] = 0
  <2>1. 1..0 = {} /\ {} \in SUBSET (1..n) /\ 0 \in 0..n
    BY <1>1
  <2>2. F[0] = it[{}]
    BY <2>1
  <2> QED BY <1>8, <2>1, <2>2
<1>10. ASSUME NEW k \in 1..n PROVE F[k] = F[k - 1] + Length(q[k])
  <2>1. k - 1 \in Nat /\ (k - 1) + 1 = k /\ 1..k \in SUBSET (1..n)
    BY <1>1
  <2>2. Max(1..k) = k /\ (1..k) \ {k} = 1..(k - 1) /\ 1..k # {}
    BY <2>1, Counting
  <2>3. F[k] = it[1..k] /\ F[k - 1] = it[1..(k - 1)]
    BY <1>1, <2>1
  <2>4. it[1..k] = it[(1..k) \ {Max(1..k)}] + Length(q[Max(1..k)])
    BY <1>8, <2>1, <2>2
  <2> QED BY <2>2, <2>3, <2>4
<1>11. Size(q) = F[n]
  BY <1>1, <1>7
<1> HIDE DEF F
<1> QED BY <1>9, <1>10, <1>11 DEF n

\* A slice adds its length to the size of its window.
LEMMA SizeSnoc ==
  ASSUME NEW q \in Seq(ItemSet), NEW e \in ItemSet
  PROVE  Size(<<>>) = 0 /\ Size(Append(q, e)) = Size(q) + Length(e)
<1> DEFINE n == Len(q)
           r == Append(q, e)
<1>1. Size(<<>>) = 0
  <2>1. <<>> \in Seq(ItemSet) /\ Len(<<>>) = 0
    OBVIOUS
  <2> QED BY <2>1, SizeUnrolls
<1>2. /\ n \in Nat /\ r \in Seq(ItemSet) /\ Len(r) = n + 1 /\ r[n + 1] = e
      /\ \A k \in 1..n : r[k] = q[k]
  OBVIOUS
<1>3. PICK F : /\ F[0] = 0 /\ Size(q) = F[n]
               /\ \A k \in 1..n : F[k] = F[k - 1] + Length(q[k])
  BY SizeUnrolls
<1>4. PICK G : /\ G[0] = 0 /\ Size(r) = G[n + 1]
               /\ \A k \in 1..(n + 1) : G[k] = G[k - 1] + Length(r[k])
  <2> HIDE DEF n, r
  <2>1. PICK G : /\ G[0] = 0 /\ Size(r) = G[Len(r)]
                 /\ \A k \in 1..Len(r) : G[k] = G[k - 1] + Length(r[k])
    BY <1>2, SizeUnrolls
  <2>2. Size(r) = G[n + 1] /\ \A k \in 1..(n + 1) : G[k] = G[k - 1] + Length(r[k])
    BY <1>2, <2>1
  <2> QED BY <2>1, <2>2
<1> HIDE DEF n, r
<1> DEFINE T == {k \in Nat : k <= n => G[k] = F[k]}
<1>5. 0 \in T
  BY <1>3, <1>4
<1>6. ASSUME NEW k \in Nat, k \in T PROVE k + 1 \in T
  <2>1. ASSUME k + 1 <= n PROVE G[k + 1] = F[k + 1]
    <3>1. k <= n /\ k + 1 \in 1..n /\ k + 1 \in 1..(n + 1) /\ (k + 1) - 1 = k
      BY <2>1, <1>2
    <3>2. G[k + 1] = G[k] + Length(r[k + 1]) /\ F[k + 1] = F[k] + Length(q[k + 1])
      BY <3>1, <1>3, <1>4
    <3> QED BY <3>1, <3>2, <1>2, <1>6
  <2> QED BY <2>1
<1> HIDE DEF T
<1>7. n \in T
  BY <1>2, <1>5, <1>6, SetInduction
<1>8. G[n] = F[n]
  BY <1>2, <1>7 DEF T
<1>9. n + 1 \in 1..(n + 1) /\ (n + 1) - 1 = n
  BY <1>2
<1>10. Size(r) = G[n] + Length(r[n + 1])
  BY <1>4, <1>9
<1> QED BY <1>1, <1>2, <1>3, <1>8, <1>10 DEF r

\* F[i] is the concatenation of the first i sequences of ss: the equation by
\* which FlattenSeq chooses its function.
Flattens(F, ss, m) ==
  /\ m >= 1 => F[1] = ss[1]
  /\ \A i \in 2..m : F[i] = F[i - 1] \o ss[i]

\* That equation has a solution.
LEMMA FlatteningExists ==
  ASSUME NEW S, NEW n \in Nat, NEW ss \in [1..n -> Seq(S)]
  PROVE  \E F \in [1..n -> Seq(S)] : Flattens(F, ss, n)
<1> DEFINE T == {m \in Nat : m <= n => \E g \in [1..m -> Seq(S)] : Flattens(g, ss, m)}
<1>1. 0 \in T
  <2>1. [i \in 1..0 |-> <<>>] \in [1..0 -> Seq(S)]
    OBVIOUS
  <2>2. \A g : Flattens(g, ss, 0)
    BY DEF Flattens
  <2> QED BY <2>1, <2>2
<1>2. ASSUME NEW m \in Nat, m \in T PROVE m + 1 \in T
  <2>1. SUFFICES ASSUME m + 1 <= n
                 PROVE  \E g \in [1..(m + 1) -> Seq(S)] : Flattens(g, ss, m + 1)
    OBVIOUS
  <2>2. PICK g \in [1..m -> Seq(S)] : Flattens(g, ss, m)
    BY <1>2, <2>1
  <2>3. CASE m = 0
    <3> DEFINE h == [i \in 1..(m + 1) |-> ss[1]]
    <3>1. h \in [1..(m + 1) -> Seq(S)]
      BY <2>1
    <3>2. Flattens(h, ss, m + 1)
      BY <2>3 DEF Flattens
    <3> QED BY <3>1, <3>2
  <2>4. CASE m # 0
    <3>1. m \in 1..m /\ g[m] \in Seq(S) /\ ss[m + 1] \in Seq(S)
      BY <2>1, <2>4
    <3> DEFINE new == g[m] \o ss[m + 1]
    <3>2. new \in Seq(S) /\ new = g[m] \o ss[m + 1]
      <4> DEFINE left == g[m]
                 right == ss[m + 1]
      <4> HIDE DEF left, right
      <4> QED BY <3>1, ConcatProperties DEF left, right
    <3> HIDE DEF new
    <3> DEFINE h == [i \in 1..(m + 1) |-> IF i = m + 1 THEN new ELSE g[i]]
    <3>3. \A i \in 1..(m + 1) : i # m + 1 => i \in 1..m
      OBVIOUS
    <3>4. h \in [1..(m + 1) -> Seq(S)]
      BY <3>2, <3>3
    <3>5. h[1] = ss[1]
      BY <2>2, <2>4 DEF Flattens
    <3>6. ASSUME NEW i \in 2..(m + 1) PROVE h[i] = h[i - 1] \o ss[i]
      <4>1. h[i - 1] = g[i - 1]
        OBVIOUS
      <4>2. CASE i = m + 1
        <5>1. h[i] = new /\ i - 1 = m
          BY <4>2
        <5> QED BY <4>1, <4>2, <5>1, <3>2
      <4>3. CASE i # m + 1
        <5>1. h[i] = g[i] /\ i \in 2..m
          BY <4>3
        <5> QED BY <4>1, <5>1, <2>2 DEF Flattens
      <4> QED BY <4>2, <4>3
    <3> HIDE DEF h
    <3>7. Flattens(h, ss, m + 1)
      BY <3>5, <3>6 DEF Flattens
    <3> QED BY <3>4, <3>7
  <2> QED BY <2>3, <2>4
<1> HIDE DEF T
<1>3. n \in T
  BY <1>1, <1>2, SetInduction
<1> QED BY <1>3 DEF T

\* What FlattenSeq chooses satisfies the equation.
LEMMA FlattenUnrolls ==
  ASSUME NEW S, NEW ss \in Seq(Seq(S)), ss # <<>>
  PROVE  \E F : FlattenSeq(ss) = F[Len(ss)] /\ Flattens(F, ss, Len(ss))
<1> DEFINE n == Len(ss)
           Body(g) == [i \in 1..n |-> IF i = 1 THEN ss[i] ELSE g[i - 1] \o ss[i]]
           it == CHOOSE flatten : flatten = Body(flatten)
<1>1. n \in Nat /\ n # 0 /\ ss \in [1..n -> Seq(S)]
  BY EmptySeq
<1>2. FlattenSeq(ss) = it[n]
  BY <1>1 DEF FlattenSeq
<1> HIDE DEF n
<1>3. PICK g \in [1..n -> Seq(S)] : Flattens(g, ss, n)
  BY <1>1, FlatteningExists
<1>4. g = Body(g)
  <2>1. ASSUME NEW i \in 1..n PROVE g[i] = IF i = 1 THEN ss[i] ELSE g[i - 1] \o ss[i]
    <3>1. CASE i = 1
      BY <3>1, <1>1, <1>3 DEF Flattens
    <3>2. CASE i # 1
      <4>1. i \in 2..n
        BY <3>2, <1>1
      <4> QED BY <3>2, <4>1, <1>3 DEF Flattens
    <3> QED BY <3>1, <3>2
  <2> QED BY <2>1
<1>5. it = Body(it)
  <2> HIDE DEF Body
  <2> QED BY <1>4
<1> HIDE DEF it
<1>6. it[1] = ss[1]
  BY <1>1, <1>5
<1>7. ASSUME NEW i \in 2..n PROVE it[i] = it[i - 1] \o ss[i]
  <2>1. i \in 1..n /\ i # 1
    BY <1>1
  <2>2. it[i] = Body(it)[i]
    BY <1>5
  <2> QED BY <2>1, <2>2
<1>8. Flattens(it, ss, n)
  BY <1>6, <1>7 DEF Flattens
<1> QED BY <1>2, <1>8 DEF n

\* A sequence more at the end of ss is a piece more at the end of the whole.
LEMMA FlattenSnoc ==
  ASSUME NEW S, NEW ss \in Seq(Seq(S)), NEW s \in Seq(S)
  PROVE  /\ FlattenSeq(<<>>) = <<>>
         /\ FlattenSeq(Append(ss, s)) = FlattenSeq(ss) \o s
<1> DEFINE n == Len(ss)
           rr == Append(ss, s)
<1>1. FlattenSeq(<<>>) = <<>>
  BY DEF FlattenSeq
<1>2. /\ n \in Nat /\ rr \in Seq(Seq(S)) /\ Len(rr) = n + 1 /\ rr[n + 1] = s /\ rr # <<>>
      /\ \A k \in 1..n : rr[k] = ss[k]
  <2> DEFINE W == Seq(S)
  <2>1. ss \in Seq(W) /\ s \in W /\ Seq(W) = Seq(Seq(S))
    OBVIOUS
  <2> HIDE DEF W
  <2>2. Append(ss, s) # <<>>
    BY <2>1, AppendProperties
  <2> QED BY <2>1, <2>2
<1>3. PICK G : FlattenSeq(rr) = G[n + 1] /\ Flattens(G, rr, n + 1)
  <2> HIDE DEF rr, n
  <2> QED BY <1>2, FlattenUnrolls
<1>4. CASE n = 0
  <2>1. ss = <<>>
    BY <1>4
  <2>2. FlattenSeq(rr) = s
    BY <1>2, <1>3, <1>4 DEF Flattens
  <2> QED BY <1>1, <2>1, <2>2
<1>5. CASE n # 0
  <2> HIDE DEF rr
  <2>1. ss # <<>>
    BY <1>5, EmptySeq
  <2>2. PICK F : FlattenSeq(ss) = F[n] /\ Flattens(F, ss, n)
    BY <2>1, FlattenUnrolls
  <2> HIDE DEF n
  <2> DEFINE T == {k \in Nat : k \in 1..n => G[k] = F[k]}
  <2>3. 0 \in T
    OBVIOUS
  <2>4. ASSUME NEW k \in Nat, k \in T PROVE k + 1 \in T
    <3>1. SUFFICES ASSUME k + 1 \in 1..n PROVE G[k + 1] = F[k + 1]
      OBVIOUS
    <3>2. CASE k = 0
      BY <3>2, <3>1, <1>2, <1>3, <2>2 DEF Flattens
    <3>3. CASE k # 0
      <4>1. k \in 1..n /\ k + 1 \in 2..n /\ k + 1 \in 2..(n + 1) /\ (k + 1) - 1 = k
        BY <3>1, <3>3, <1>2
      <4>2. G[k + 1] = G[k] \o rr[k + 1] /\ F[k + 1] = F[k] \o ss[k + 1]
        BY <4>1, <1>3, <2>2 DEF Flattens
      <4> QED BY <4>1, <4>2, <3>1, <1>2, <2>4
    <3> QED BY <3>2, <3>3
  <2> HIDE DEF T
  <2>5. n \in T
    BY <1>2, <2>3, <2>4, SetInduction
  <2>6. G[n] = F[n]
    BY <1>2, <1>5, <2>5 DEF T
  <2>7. n + 1 \in 2..(n + 1) /\ (n + 1) - 1 = n
    BY <1>2, <1>5
  <2>8. G[n + 1] = G[n] \o rr[n + 1]
    BY <1>3, <2>7 DEF Flattens
  <2> QED BY <1>1, <1>2, <1>3, <2>2, <2>6, <2>8 DEF rr
<1> QED BY <1>4, <1>5


------------------------------------------------------------------------------
\* Cutting parts into slices.

\* Slice x ends where slice y begins, or earlier in the text.
Before(x, y) == x.part < y.part \/ (x.part = y.part /\ x.to <= y.from)
\* Slice x has character c of part p.
Holds(x, p, c) == x.part = p /\ x.from <= c /\ c < x.to
\* A slice is neither empty nor over the limit.
Fits(x) == 1 <= Length(x) /\ Length(x) <= Limit
\* The slices are in the order of the text and do not overlap.
InOrder(q) == \A i, j \in 1..Len(q) : i < j => Before(q[i], q[j])

\* The slices q are the whole text t, cut.
Cuts(q, t) ==
  /\ q \in Seq(ItemSet) /\ InOrder(q)
  /\ \A i \in 1..Len(q) : q[i].part \in 1..Len(t) /\ Fits(q[i])
  /\ \A p \in 1..Len(t), c \in Nat : c < t[p] => \E i \in 1..Len(q) : Holds(q[i], p, c)

\* The arithmetic of a part of `a' characters: n slices, rounded up, reach its
\* end, none starts behind it, and every character falls in one of them.
LEMMA Rounding ==
  ASSUME NEW a \in Nat
  PROVE  LET n == (a + Limit - 1) \div Limit IN
         /\ n \in Nat /\ a <= n * Limit
         /\ \A k \in 1..n : (k - 1) * Limit < a
         /\ \A i, j \in Nat : i <= j => i * Limit <= j * Limit /\ i * Limit \in Nat
         /\ \A c \in Nat : c < a => \E k \in 1..n : (k - 1) * Limit <= c /\ c < k * Limit
<1> DEFINE n == (a + Limit - 1) \div Limit
<1>1. Limit \in Nat /\ Limit > 0
  BY CallsAssumption
<1>2. ASSUME NEW x \in Nat
      PROVE  x \div Limit \in Nat /\ (x \div Limit) * Limit <= x /\ x < (x \div Limit) * Limit + Limit
  BY <1>1
<1>3. ASSUME NEW i \in Nat, NEW j \in Nat, i <= j
      PROVE  i * Limit <= j * Limit /\ i * Limit \in Nat
  BY <1>1, <1>3
<1>4. /\ n \in Nat /\ n * Limit <= a + Limit - 1 /\ a <= n * Limit
  <2>1. a + Limit - 1 \in Nat
    BY <1>1
  <2> QED BY <1>1, <1>2, <2>1
<1> HIDE DEF n
<1>5. ASSUME NEW k \in 1..n PROVE (k - 1) * Limit < a
  <2>1. k \in Nat /\ k - 1 \in Nat /\ k * Limit <= n * Limit
    BY <1>3, <1>4
  <2>2. k * Limit = (k - 1) * Limit + Limit /\ (k - 1) * Limit \in Int
    BY <1>1, <2>1
  <2> QED BY <1>1, <1>4, <2>1, <2>2
<1>6. ASSUME NEW c \in Nat, c < a
      PROVE  \E k \in 1..n : (k - 1) * Limit <= c /\ c < k * Limit
  <2> DEFINE d == c \div Limit
  <2>1. d \in Nat /\ d * Limit <= c /\ c < d * Limit + Limit
    BY <1>2
  <2> HIDE DEF d
  <2>2. (d + 1) * Limit = d * Limit + Limit
    BY <1>1, <2>1
  <2>3. d < n
    <3>1. SUFFICES ASSUME n <= d PROVE FALSE
      BY <1>4, <2>1
    <3>2. n * Limit <= d * Limit
      BY <1>3, <1>4, <2>1, <3>1
    <3> QED BY <1>1, <1>4, <1>6, <2>1, <3>2
  <2>4. d + 1 \in 1..n /\ (d + 1) - 1 = d
    BY <1>4, <2>1, <2>3
  <2> QED BY <2>1, <2>2, <2>4
<1> QED BY <1>3, <1>4, <1>5, <1>6 DEF n

\* The slices of one part hold each of its characters, in order.
LEMMA SlicesCut ==
  ASSUME NEW t \in Seq(Nat), NEW p \in 1..Len(t)
  PROVE  LET q == Slices(t, p) IN
         /\ q \in Seq(ItemSet) /\ InOrder(q)
         /\ \A i \in 1..Len(q) : q[i].part = p /\ Fits(q[i])
         /\ \A c \in Nat : c < t[p] => \E i \in 1..Len(q) : Holds(q[i], p, c)
<1> DEFINE a == t[p]
           n == (a + Limit - 1) \div Limit
           slice(k) == [part |-> p, from |-> (k - 1) * Limit, to |-> Least(k * Limit, a)]
           q == [k \in 1..n |-> slice(k)]
<1>1. Limit \in Nat /\ Limit > 0 /\ a \in Nat /\ p \in Nat
  BY CallsAssumption
<1>2. q = Slices(t, p)
  BY DEF Slices
<1> HIDE DEF a
<1>3. /\ n \in Nat /\ a <= n * Limit
      /\ \A k \in 1..n : (k - 1) * Limit < a
      /\ \A i, j \in Nat : i <= j => i * Limit <= j * Limit /\ i * Limit \in Nat
      /\ \A c \in Nat : c < a => \E k \in 1..n : (k - 1) * Limit <= c /\ c < k * Limit
  BY <1>1, Rounding
<1> HIDE DEF n
<1>4. ASSUME NEW k \in 1..n
      PROVE  /\ (k - 1) * Limit \in Nat /\ k * Limit \in Nat /\ k * Limit = (k - 1) * Limit + Limit
             /\ (k - 1) * Limit < a
             /\ slice(k) \in ItemSet /\ slice(k).part = p /\ slice(k).from = (k - 1) * Limit
             /\ slice(k).to <= a /\ slice(k).to <= k * Limit
             /\ slice(k).to = a \/ slice(k).to = k * Limit
             /\ Fits(slice(k))
  <2>1. k \in Nat /\ k - 1 \in Nat
    BY <1>3
  <2>2. (k - 1) * Limit \in Nat /\ k * Limit \in Nat /\ k * Limit = (k - 1) * Limit + Limit
    BY <1>1, <2>1
  <2>3. (k - 1) * Limit < a
    BY <1>3
  <2> DEFINE low == (k - 1) * Limit
             high == k * Limit
  <2> HIDE DEF low, high
  <2>4. low \in Nat /\ high \in Nat /\ high = low + Limit /\ low < a
    BY <2>2, <2>3 DEF low, high
  <2>5. slice(k) = [part |-> p, from |-> low, to |-> Least(high, a)]
    BY DEF low, high
  <2>6. Least(high, a) \in Nat /\ (Least(high, a) = a \/ Least(high, a) = high)
        /\ Least(high, a) <= a /\ Least(high, a) <= high /\ low < Least(high, a)
    BY <2>4, <1>1 DEF Least
  <2> HIDE DEF slice
  <2>7. slice(k) \in ItemSet /\ slice(k).part = p /\ slice(k).from = low /\ slice(k).to = Least(high, a)
    BY <1>1, <2>4, <2>5, <2>6 DEF ItemSet
  <2>8. Fits(slice(k))
    BY <1>1, <2>4, <2>6, <2>7 DEF Fits, Length
  <2> QED BY <2>2, <2>3, <2>6, <2>7, <2>8 DEF low, high
<1> HIDE DEF slice
<1>5. q \in Seq(ItemSet) /\ Len(q) = n /\ \A k \in 1..n : q[k] = slice(k)
  BY <1>3, <1>4
<1> HIDE DEF q
<1>6. ASSUME NEW i \in 1..n, NEW j \in 1..n, i < j PROVE Before(q[i], q[j])
  <2>1. i \in Nat /\ j - 1 \in Nat /\ i <= j - 1
    BY <1>3, <1>6
  <2>2. i * Limit <= (j - 1) * Limit
    BY <1>3, <2>1
  <2>3. q[i].part = p /\ q[j].part = p /\ q[i].to <= i * Limit /\ q[j].from = (j - 1) * Limit
        /\ q[i].to \in Nat /\ i * Limit \in Nat /\ (j - 1) * Limit \in Nat
    BY <1>4, <1>5 DEF ItemSet
  <2> DEFINE low == (j - 1) * Limit
             high == i * Limit
  <2>4. q[i].to <= low
    <3> HIDE DEF low, high
    <3>1. high <= low /\ q[i].to <= high /\ q[i].to \in Nat /\ high \in Nat /\ low \in Nat
      BY <2>2, <2>3 DEF low, high
    <3> QED BY <3>1
  <2> QED BY <2>3, <2>4 DEF Before
<1>7. ASSUME NEW c \in Nat, c < a PROVE \E i \in 1..n : Holds(q[i], p, c)
  <2>1. PICK k \in 1..n : (k - 1) * Limit <= c /\ c < k * Limit
    BY <1>3, <1>7
  <2>2. Holds(slice(k), p, c)
    BY <1>4, <1>7, <2>1 DEF Holds
  <2> QED BY <2>2, <1>5
<1>8. InOrder(q) /\ \A i \in 1..Len(q) : q[i].part = p /\ Fits(q[i])
  BY <1>4, <1>5, <1>6 DEF InOrder
<1> QED BY <1>2, <1>5, <1>7, <1>8 DEF a

\* The slices of all parts, one part after the other, cut the text.
LEMMA ItemsCut ==
  ASSUME NEW t \in Seq(Nat)
  PROVE  Cuts(Items(t), t)
<1> DEFINE sliced(r) == [p \in DOMAIN r |-> Slices(r, p)]
           T == {r \in Seq(Nat) : sliced(r) \in Seq(Seq(ItemSet)) /\ Cuts(Items(r), r)}
<1>1. <<>> \in T
  <2>1. sliced(<<>>) = <<>>
    OBVIOUS
  <2>2. <<>> \in Seq(Nat) /\ <<>> \in Seq(Seq(ItemSet)) /\ <<>> \in Seq(ItemSet) /\ Len(<<>>) = 0
    OBVIOUS
  <2>3. Items(<<>>) = <<>>
    BY <2>1, <2>2, FlattenSnoc DEF Items
  <2>4. Cuts(<<>>, <<>>)
    BY <2>2 DEF Cuts, InOrder
  <2> QED BY <2>1, <2>2, <2>3, <2>4
<1>2. ASSUME NEW r \in Seq(Nat), NEW a \in Nat, r \in T PROVE Append(r, a) \in T
  <2> DEFINE n == Len(r)
             l == Append(r, a)
             new == Slices(l, n + 1)
             old == Items(r)
  <2>1. /\ l \in Seq(Nat) /\ n \in Nat /\ Len(l) = n + 1 /\ DOMAIN l = 1..(n + 1) /\ DOMAIN r = 1..n
        /\ l[n + 1] = a /\ \A p \in 1..n : l[p] = r[p]
    OBVIOUS
  <2> HIDE DEF l, n
  <2>2. /\ new \in Seq(ItemSet) /\ InOrder(new)
        /\ \A i \in 1..Len(new) : new[i].part = n + 1 /\ Fits(new[i])
        /\ \A c \in Nat : c < a => \E i \in 1..Len(new) : Holds(new[i], n + 1, c)
    <3>1. n + 1 \in 1..Len(l)
      BY <2>1
    <3> QED BY <2>1, <3>1, SlicesCut
  <2> HIDE DEF new
  <2>3. sliced(r) \in Seq(Seq(ItemSet)) /\ Cuts(old, r) /\ old = FlattenSeq(sliced(r))
    BY <1>2 DEF Items
  <2>4. \A p \in 1..n : Slices(l, p) = Slices(r, p)
    BY <2>1 DEF Slices
  <2>5. sliced(l) = Append(sliced(r), new)
    <3>1. DOMAIN sliced(r) = 1..n /\ Len(sliced(r)) = n /\ \A p \in 1..n : sliced(r)[p] = Slices(l, p)
      BY <2>1, <2>3, <2>4
    <3>2. sliced(l) = [p \in 1..(n + 1) |-> Slices(l, p)]
      BY <2>1
    <3>3. Append(sliced(r), new) = [p \in 1..(n + 1) |-> IF p = n + 1 THEN new ELSE sliced(r)[p]]
      <4> DEFINE s == sliced(r)
      <4> HIDE DEF s
      <4>1. s \in Seq(Seq(ItemSet)) /\ Len(s) = n
        BY <2>3, <3>1 DEF s
      <4> QED BY <2>1, <2>2, <4>1 DEF s
    <3> QED BY <2>1, <3>1, <3>2, <3>3 DEF new
  <2> HIDE DEF sliced
  <2>6. Items(l) = old \o new /\ sliced(l) \in Seq(Seq(ItemSet))
    <3>1. FlattenSeq(Append(sliced(r), new)) = FlattenSeq(sliced(r)) \o new
      BY <2>2, <2>3, FlattenSnoc
    <3>2. Append(sliced(r), new) \in Seq(Seq(ItemSet))
      BY <2>2, <2>3
    <3>3. Items(l) = FlattenSeq(sliced(l))
      BY DEF Items, sliced
    <3> QED BY <2>3, <2>5, <3>1, <3>2, <3>3
  <2> DEFINE q == old \o new
  <2> HIDE DEF old
  <2>7. old \in Seq(ItemSet) /\ Len(old) \in Nat /\ Len(new) \in Nat
    BY <2>2, <2>3 DEF Cuts
  <2>8. /\ q \in Seq(ItemSet) /\ Len(q) = Len(old) + Len(new)
        /\ \A i \in 1..Len(old) : q[i] = old[i]
        /\ \A i \in 1..Len(new) : q[Len(old) + i] = new[i]
    BY <2>2, <2>7
  <2> HIDE DEF q
  <2>9. ASSUME NEW i \in 1..Len(q)
        PROVE  \/ i \in 1..Len(old) /\ q[i] = old[i]
               \/ i - Len(old) \in 1..Len(new) /\ q[i] = new[i - Len(old)] /\ i > Len(old)
    <3>1. CASE i <= Len(old)
      BY <3>1, <2>7, <2>8
    <3>2. CASE i > Len(old)
      <4>1. i - Len(old) \in 1..Len(new) /\ Len(old) + (i - Len(old)) = i
        BY <3>2, <2>7, <2>8
      <4> QED BY <3>2, <4>1, <2>8
    <3> QED BY <3>1, <3>2, <2>7, <2>8
  <2>10. ASSUME NEW i \in 1..Len(q)
         PROVE  q[i].part \in 1..(n + 1) /\ Fits(q[i])
                /\ (i \in 1..Len(old) => q[i].part \in 1..n)
    <3>1. \A k \in 1..Len(old) : old[k].part \in 1..n /\ Fits(old[k])
      BY <2>3 DEF Cuts, n
    <3>2. CASE i \in 1..Len(old) /\ q[i] = old[i]
      BY <3>1, <3>2, <2>1
    <3>3. CASE i - Len(old) \in 1..Len(new) /\ q[i] = new[i - Len(old)] /\ i > Len(old)
      <4>1. q[i].part = n + 1 /\ Fits(q[i])
        BY <3>3, <2>2
      <4> QED BY <4>1, <3>3, <2>1, <2>7
    <3> QED BY <3>2, <3>3, <2>9
  <2>11. ASSUME NEW i \in 1..Len(q), NEW j \in 1..Len(q), i < j PROVE Before(q[i], q[j])
    <3>1. CASE j \in 1..Len(old)
      <4>1. i \in 1..Len(old)
        BY <2>11, <3>1, <2>7, <2>8
      <4> QED BY <2>11, <3>1, <4>1, <2>3, <2>8 DEF Cuts, InOrder
    <3>2. CASE i \in 1..Len(old) /\ j \notin 1..Len(old)
      <4>1. q[i].part \in 1..n /\ q[j].part = n + 1
        BY <3>2, <2>2, <2>9, <2>10
      <4> QED BY <4>1, <2>1 DEF Before
    <3>3. CASE i \notin 1..Len(old) /\ j \notin 1..Len(old)
      <4>1. i - Len(old) \in 1..Len(new) /\ j - Len(old) \in 1..Len(new)
            /\ q[i] = new[i - Len(old)] /\ q[j] = new[j - Len(old)] /\ i - Len(old) < j - Len(old)
        BY <2>11, <3>3, <2>7, <2>8, <2>9
      <4> QED BY <4>1, <2>2 DEF InOrder
    <3>4. i \notin 1..Len(old) => j \notin 1..Len(old)
      BY <2>11, <2>7, <2>8
    <3> QED BY <3>1, <3>2, <3>3, <3>4
  <2>12. ASSUME NEW p \in 1..(n + 1), NEW c \in Nat, c < l[p]
         PROVE  \E i \in 1..Len(q) : Holds(q[i], p, c)
    <3>1. CASE p \in 1..n
      <4>1. c < r[p]
        BY <2>12, <3>1, <2>1
      <4>2. PICK i \in 1..Len(old) : Holds(old[i], p, c)
        BY <3>1, <4>1, <2>1, <2>3 DEF Cuts, n
      <4>3. i \in 1..Len(q) /\ q[i] = old[i]
        BY <4>2, <2>7, <2>8
      <4> QED BY <4>2, <4>3
    <3>2. CASE p = n + 1
      <4>1. PICK i \in 1..Len(new) : Holds(new[i], n + 1, c)
        BY <2>12, <3>2, <2>1, <2>2
      <4>2. Len(old) + i \in 1..Len(q) /\ q[Len(old) + i] = new[i]
        BY <4>1, <2>7, <2>8
      <4> QED BY <3>2, <4>1, <4>2
    <3> QED BY <3>1, <3>2, <2>1
  <2>13. Cuts(q, l)
    BY <2>1, <2>8, <2>10, <2>11, <2>12 DEF Cuts, InOrder
  <2> QED BY <2>1, <2>6, <2>13 DEF q, l
<1> HIDE DEF T
<1>3. Seq(Nat) \subseteq T
  BY <1>1, <1>2, SeqInduction
<1> QED BY <1>3 DEF T

------------------------------------------------------------------------------
\* Packing slices into windows.

\* The window after the k-th closed one: the next closed one or the open one.
NextOf(acc, k) == IF k = Len(acc.windows) THEN acc.current ELSE acc.windows[k + 1]

\* The loop invariant of _windows after the slices q: closed and open windows
\* together are q, no window is over the limit, and each closed one was
\* closed because the slice that came next would not have fit.
PackInv(acc, q) ==
  /\ acc \in Accs
  /\ FlattenSeq(acc.windows) \o acc.current = q
  /\ acc.size = Size(acc.current) /\ acc.size <= Limit
  /\ acc.current = <<>> => acc.windows = <<>>
  /\ \A k \in 1..Len(acc.windows) :
       /\ acc.windows[k] # <<>> /\ Size(acc.windows[k]) <= Limit
       /\ Size(acc.windows[k]) + Length(NextOf(acc, k)[1]) > Limit

\* Appending to the second of two sequences appends to both together.
LEMMA ConcatAppend ==
  ASSUME NEW S, NEW f \in Seq(S), NEW g \in Seq(S), NEW e \in S
  PROVE  f \o Append(g, e) = Append(f \o g, e)
<1>1. <<e>> \in Seq(S)
  OBVIOUS
<1>2. f \o g \in Seq(S)
  BY ConcatProperties
<1> DEFINE both == f \o g
           one == <<e>>
<1> HIDE DEF both, one
<1>3. Append(both, e) = both \o one
  BY <1>2, AppendIsConcat DEF both, one
<1>4. Append(g, e) = g \o one
  BY AppendIsConcat DEF one
<1>5. (f \o g) \o one = f \o (g \o one)
  BY <1>1, ConcatAssociative DEF one
<1> QED BY <1>3, <1>4, <1>5 DEF both

\* A size is a number.
LEMMA SizeTyped ==
  ASSUME NEW q \in Seq(ItemSet)
  PROVE  Size(q) \in Int
<1> DEFINE T == {w \in Seq(ItemSet) : Size(w) \in Int}
<1>1. <<>> \in T
  <2>1. <<>> \in Seq(ItemSet) /\ \E e : e \in ItemSet
    BY Nothing
  <2> QED BY <2>1, SizeSnoc
<1>2. ASSUME NEW w \in Seq(ItemSet), NEW e \in ItemSet, w \in T PROVE Append(w, e) \in T
  <2>1. Length(e) \in Int /\ Append(w, e) \in Seq(ItemSet)
    BY DEF Length, ItemSet
  <2>2. Size(Append(w, e)) = Size(w) + Length(e)
    BY SizeSnoc
  <2> QED BY <1>2, <2>1, <2>2
<1> HIDE DEF T
<1>3. Seq(ItemSet) \subseteq T
  BY <1>1, <1>2, SeqInduction
<1> QED BY <1>3 DEF T

\* A concatenation of sequences over S is one.
LEMMA FlattenTyped ==
  ASSUME NEW S, NEW ss \in Seq(Seq(S))
  PROVE  FlattenSeq(ss) \in Seq(S)
<1> DEFINE W == Seq(S)
           T == {w \in Seq(W) : FlattenSeq(w) \in Seq(S)}
<1>1. <<>> \in T
  <2>1. <<>> \in Seq(W) /\ <<>> \in Seq(S)
    OBVIOUS
  <2> QED BY <2>1, FlattenSnoc
<1>2. ASSUME NEW w \in Seq(W), NEW s \in W, w \in T PROVE Append(w, s) \in T
  <2>1. FlattenSeq(Append(w, s)) = FlattenSeq(w) \o s /\ Append(w, s) \in Seq(W)
    BY FlattenSnoc
  <2>2. FlattenSeq(w) \in Seq(S) /\ s \in Seq(S)
    BY <1>2
  <2>3. FlattenSeq(w) \o s \in Seq(S)
    <3> DEFINE f == FlattenSeq(w)
    <3> HIDE DEF f
    <3>1. f \in Seq(S)
      BY <2>2 DEF f
    <3> QED BY <2>2, <3>1, ConcatProperties DEF f
  <2> QED BY <2>1, <2>3
<1> HIDE DEF T, W
<1>3. Seq(W) \subseteq T
  BY <1>1, <1>2, SeqInduction
<1> QED BY <1>3 DEF T, W

\* One round of the loop, with a slice that fits a window, keeps the invariant.
LEMMA PackKeepsInv ==
  ASSUME NEW acc, NEW q \in Seq(ItemSet), PackInv(acc, q), NEW e \in ItemSet, Fits(e)
  PROVE  PackInv(Pack(acc, e), Append(q, e))
<1> DEFINE ws == acc.windows
           cur == acc.current
           new == Pack(acc, e)
<1>1. /\ acc \in Accs /\ ws \in Seq(Seq(ItemSet)) /\ cur \in Seq(ItemSet) /\ acc.size \in Int
      /\ Len(ws) \in Nat /\ acc.size = Size(cur) /\ acc.size <= Limit
      /\ Length(e) \in Int /\ 1 <= Length(e) /\ Length(e) <= Limit /\ Limit \in Nat
  <2>1. /\ acc \in Accs /\ acc.size = Size(cur) /\ acc.size <= Limit
    BY DEF PackInv
  <2>2. ws \in Seq(Seq(ItemSet)) /\ cur \in Seq(ItemSet) /\ acc.size \in Int
    BY <2>1 DEF Accs
  <2>3. Length(e) \in Int
    BY DEF Length, ItemSet
  <2> HIDE DEF ws, cur
  <2>4. Len(ws) \in Nat
    BY <2>2
  <2> QED BY <2>1, <2>2, <2>3, <2>4, CallsAssumption DEF Fits
<1>2. FlattenSeq(ws) \o cur = q /\ FlattenSeq(ws) \in Seq(ItemSet)
  BY <1>1, FlattenTyped DEF PackInv
<1>3. new \in Accs
  BY <1>1, PackTyped
<1>4. CASE cur # <<>> /\ acc.size + Length(e) > Limit
  <2>1. new = [windows |-> Append(ws, cur), current |-> <<e>>, size |-> Length(e)]
    BY <1>4 DEF Pack
  <2> HIDE DEF new
  <2>2. new.windows = Append(ws, cur) /\ new.current = <<e>> /\ new.size = Length(e)
    BY <2>1
  <2>3. FlattenSeq(new.windows) \o new.current = Append(q, e)
    <3>1. FlattenSeq(Append(ws, cur)) = FlattenSeq(ws) \o cur
      BY <1>1, FlattenSnoc
    <3>2. q \o <<e>> = Append(q, e)
      BY AppendIsConcat
    <3> QED BY <1>2, <2>2, <3>1, <3>2
  <2>4. new.size = Size(new.current) /\ new.current # <<>> /\ new.current[1] = e
    <3>1. <<>> \in Seq(ItemSet) /\ Append(<<>>, e) = <<e>>
      OBVIOUS
    <3>2. Size(Append(<<>>, e)) = Size(<<>>) + Length(e) /\ Size(<<>>) = 0
      BY <3>1, SizeSnoc
    <3>3. Size(<<e>>) = Length(e)
      BY <1>1, <3>1, <3>2
    <3> QED BY <2>2, <3>3
  <2>5. /\ Len(new.windows) = Len(ws) + 1 /\ new.windows[Len(ws) + 1] = cur
        /\ \A k \in 1..Len(ws) : new.windows[k] = ws[k]
    <3> DEFINE W == Seq(ItemSet)
    <3>1. ws \in Seq(W) /\ cur \in W
      BY <1>1
    <3> HIDE DEF W, ws, cur
    <3> QED BY <2>2, <3>1, AppendProperties
  <2>6. ASSUME NEW k \in 1..Len(new.windows)
        PROVE  /\ new.windows[k] # <<>> /\ Size(new.windows[k]) <= Limit
               /\ Size(new.windows[k]) + Length(NextOf(new, k)[1]) > Limit
    <3>1. CASE k = Len(ws) + 1
      <4>1. NextOf(new, k)[1] = e /\ new.windows[k] = cur
        BY <2>4, <2>5, <3>1 DEF NextOf
      <4> HIDE DEF cur
      <4> QED BY <4>1, <1>1, <1>4
    <3>2. CASE k = Len(ws)
      <4>1. k \in 1..Len(ws) /\ k # Len(new.windows)
        BY <1>1, <2>5, <3>2
      <4>2. new.windows[k] = ws[k] /\ new.windows[k + 1] = cur
        BY <2>5, <3>2, <4>1
      <4>3. NextOf(new, k) = cur /\ NextOf(acc, k) = cur
        BY <3>2, <4>1, <4>2 DEF NextOf
      <4> QED BY <4>1, <4>2, <4>3 DEF PackInv
    <3>3. CASE k \in 1..(Len(ws) - 1)
      <4>1. k \in 1..Len(ws) /\ k + 1 \in 1..Len(ws) /\ k # Len(ws) /\ k # Len(new.windows)
        <5> DEFINE n == Len(ws)
        <5>1. n \in Nat /\ Len(new.windows) = n + 1 /\ k \in 1..(n - 1)
          BY <1>1, <2>5, <3>3
        <5> HIDE DEF n
        <5>2. k \in 1..n /\ k + 1 \in 1..n /\ k # n /\ k # n + 1
          BY <5>1
        <5> QED BY <5>1, <5>2 DEF n
      <4>2. new.windows[k] = ws[k] /\ new.windows[k + 1] = ws[k + 1]
        BY <2>5, <4>1
      <4>3. NextOf(new, k) = ws[k + 1] /\ NextOf(acc, k) = ws[k + 1]
        BY <4>1, <4>2 DEF NextOf
      <4> QED BY <4>1, <4>2, <4>3 DEF PackInv
    <3> QED BY <1>1, <2>5, <3>1, <3>2, <3>3
  <2> QED BY <1>1, <1>3, <2>2, <2>3, <2>4, <2>6 DEF PackInv, new
<1>5. CASE ~(cur # <<>> /\ acc.size + Length(e) > Limit)
  <2>1. new = [[acc EXCEPT !.current = Append(cur, e)] EXCEPT !.size = acc.size + Length(e)]
    BY <1>5 DEF Pack
  <2> HIDE DEF new
  <2>2. new.windows = ws /\ new.current = Append(cur, e) /\ new.size = acc.size + Length(e)
    BY <1>1, <2>1 DEF Accs
  <2>3. FlattenSeq(new.windows) \o new.current = Append(q, e)
    <3> DEFINE f == FlattenSeq(ws)
    <3>1. f \in Seq(ItemSet) /\ f \o cur = q
      BY <1>2
    <3> HIDE DEF f, ws, cur
    <3>2. f \o Append(cur, e) = Append(f \o cur, e)
      <4>1. f \in Seq(ItemSet) /\ cur \in Seq(ItemSet)
        BY <1>1, <3>1
      <4> QED BY <4>1, ConcatAppend
    <3> QED BY <2>2, <3>1, <3>2 DEF f
  <2>4. new.size = Size(new.current)
    BY <1>1, <2>2, SizeSnoc
  <2>5. new.size <= Limit
    <3> DEFINE size == Size(cur)
               length == Length(e)
    <3>1. cur = <<>> => size = 0
      BY SizeSnoc
    <3>2. acc.size = size /\ size \in Int /\ length \in Int /\ length <= Limit /\ Limit \in Nat
      BY <1>1
    <3>3. new.size = size + length /\ (cur = <<>> \/ ~(size + length > Limit))
      BY <1>5, <2>2, <3>2
    <3> HIDE DEF size, length, cur, new
    <3> QED BY <3>1, <3>2, <3>3
  <2>6. new.current # <<>> /\ (cur # <<>> => new.current[1] = cur[1])
    <3> HIDE DEF cur
    <3>1. Len(Append(cur, e)) = Len(cur) + 1 /\ Len(cur) \in Nat /\ Append(cur, e) # <<>>
      BY <1>1, AppendProperties
    <3>2. ASSUME cur # <<>> PROVE Append(cur, e)[1] = cur[1]
      <4>1. 1 \in 1..Len(cur)
        BY <1>1, <3>1, <3>2, EmptySeq
      <4> QED BY <1>1, <4>1, AppendProperties
    <3> QED BY <2>2, <3>1, <3>2
  <2>7. ASSUME NEW k \in 1..Len(new.windows)
        PROVE  /\ new.windows[k] # <<>> /\ Size(new.windows[k]) <= Limit
               /\ Size(new.windows[k]) + Length(NextOf(new, k)[1]) > Limit
    <3>1. k \in 1..Len(ws) /\ new.windows[k] = ws[k] /\ cur # <<>>
      BY <2>2 DEF PackInv
    <3>2. NextOf(new, k)[1] = NextOf(acc, k)[1]
      BY <2>2, <2>6, <3>1 DEF NextOf
    <3> QED BY <3>1, <3>2 DEF PackInv
  <2> QED BY <1>3, <2>3, <2>4, <2>5, <2>6, <2>7 DEF PackInv, new
<1> QED BY <1>4, <1>5

\* The invariant holds after any slices that fit.
LEMMA PackedInv ==
  ASSUME NEW q \in Seq(ItemSet), \A i \in 1..Len(q) : Fits(q[i])
  PROVE  PackInv(Packed(q), q)
<1> DEFINE T == {r \in Seq(ItemSet) : (\A i \in 1..Len(r) : Fits(r[i])) => PackInv(Packed(r), r)}
<1>1. <<>> \in T
  <2>1. <<>> \in Seq(ItemSet) /\ <<>> \in Seq(Seq(ItemSet)) /\ Len(<<>>) = 0 /\ <<>> \o <<>> = <<>>
        /\ \E e : e \in ItemSet
    BY Nothing, ConcatEmptySeq
  <2>2. Packed(<<>>) = Start /\ FlattenSeq(<<>>) = <<>> /\ Size(<<>>) = 0
    BY <2>1, PackedSnoc, FlattenSnoc, SizeSnoc
  <2>3. Start \in Accs /\ Start.windows = <<>> /\ Start.current = <<>> /\ Start.size = 0
    BY <2>1 DEF Start, Accs
  <2>4. PackInv(Start, <<>>)
    BY <2>1, <2>2, <2>3, CallsAssumption DEF PackInv
  <2> QED BY <2>1, <2>2, <2>4
<1>2. ASSUME NEW r \in Seq(ItemSet), NEW e \in ItemSet, r \in T PROVE Append(r, e) \in T
  <2>1. SUFFICES ASSUME \A i \in 1..Len(Append(r, e)) : Fits(Append(r, e)[i])
                 PROVE  PackInv(Packed(Append(r, e)), Append(r, e))
    <3>1. Append(r, e) \in Seq(ItemSet)
      OBVIOUS
    <3> QED BY <3>1
  <2>2. Fits(e) /\ \A i \in 1..Len(r) : Fits(r[i])
    <3>1. /\ Len(r) \in Nat /\ Len(Append(r, e)) = Len(r) + 1 /\ Append(r, e)[Len(r) + 1] = e
          /\ \A i \in 1..Len(r) : Append(r, e)[i] = r[i]
      OBVIOUS
    <3> QED BY <2>1, <3>1
  <2>3. PackInv(Packed(r), r)
    BY <1>2, <2>2
  <2>4. Packed(Append(r, e)) = Pack(Packed(r), e)
    BY PackedSnoc
  <2> QED BY <2>2, <2>3, <2>4, PackKeepsInv
<1> HIDE DEF T
<1>3. Seq(ItemSet) \subseteq T
  BY <1>1, <1>2, SeqInduction
<1> QED BY <1>3 DEF T

\* What _windows returns: the slices of the text, in windows that are not
\* empty, not over the limit, and not closed before they had to be.
LEMMA Windowed ==
  ASSUME NEW t \in Seq(Nat)
  PROVE  LET W == Windows(t) IN
         /\ W \in Seq(Seq(ItemSet)) /\ FlattenSeq(W) = Items(t)
         /\ \A k \in 1..Len(W) : W[k] # <<>> /\ Size(W[k]) <= Limit
         /\ \A k \in 1..(Len(W) - 1) : Size(W[k]) + Length(W[k + 1][1]) > Limit
<1> DEFINE q == Items(t)
           acc == Packed(q)
           ws == acc.windows
           cur == acc.current
           W == Windows(t)
<1>1. q \in Seq(ItemSet) /\ \A i \in 1..Len(q) : Fits(q[i])
  BY ItemsCut DEF Cuts
<1> HIDE DEF q
<1>2. PackInv(acc, q)
  BY <1>1, PackedInv
<1>3. W = IF cur = <<>> THEN ws ELSE Append(ws, cur)
  BY DEF Windows, Packed, Start, q
<1> HIDE DEF acc, W
<1>4. acc \in Accs /\ ws \in Seq(Seq(ItemSet)) /\ cur \in Seq(ItemSet) /\ Len(ws) \in Nat
      /\ FlattenSeq(ws) \o cur = q
  <2>1. acc \in Accs /\ FlattenSeq(ws) \o cur = q
    BY <1>2 DEF PackInv
  <2>2. ws \in Seq(Seq(ItemSet)) /\ cur \in Seq(ItemSet)
    BY <2>1 DEF Accs
  <2> HIDE DEF ws, cur
  <2> QED BY <2>1, <2>2
<1>5. CASE cur = <<>>
  <2>1. ws = <<>> /\ W = <<>> /\ q = <<>>
    <3>1. ws = <<>>
      BY <1>2, <1>5 DEF PackInv
    <3>2. FlattenSeq(<<>>) = <<>> /\ <<>> \o <<>> = <<>>
      BY Nothing, FlattenSnoc, ConcatEmptySeq
    <3> QED BY <1>3, <1>4, <1>5, <3>1, <3>2
  <2>2. FlattenSeq(<<>>) = <<>>
    BY Nothing, FlattenSnoc
  <2>3. Len(W) = 0 /\ W \in Seq(Seq(ItemSet))
    BY <2>1, Nothing
  <2> QED BY <2>1, <2>2, <2>3 DEF W, q
<1>6. CASE cur # <<>>
  <2>1. W = Append(ws, cur)
    BY <1>3, <1>6
  <2>2. /\ W \in Seq(Seq(ItemSet)) /\ Len(W) = Len(ws) + 1 /\ W[Len(ws) + 1] = cur
        /\ \A k \in 1..Len(ws) : W[k] = ws[k]
    <3> DEFINE S == Seq(ItemSet)
    <3>1. ws \in Seq(S) /\ cur \in S
      BY <1>4
    <3> HIDE DEF S, ws, cur
    <3>2. W \in Seq(S) /\ Len(W) = Len(ws) + 1 /\ W[Len(ws) + 1] = cur
          /\ \A k \in 1..Len(ws) : W[k] = ws[k]
      BY <2>1, <3>1, AppendProperties
    <3> QED BY <3>2 DEF S
  <2>3. FlattenSeq(W) = q
    <3>1. FlattenSeq(Append(ws, cur)) = FlattenSeq(ws) \o cur
      BY <1>4, FlattenSnoc
    <3> QED BY <1>4, <2>1, <3>1
  <2>4. ASSUME NEW k \in 1..Len(W) PROVE W[k] # <<>> /\ Size(W[k]) <= Limit
    <3>1. CASE k = Len(ws) + 1
      BY <3>1, <1>2, <1>6, <2>2 DEF PackInv
    <3>2. CASE k \in 1..Len(ws)
      BY <3>2, <1>2, <2>2 DEF PackInv
    <3> QED BY <1>4, <2>2, <3>1, <3>2
  <2>5. ASSUME NEW k \in 1..(Len(W) - 1) PROVE Size(W[k]) + Length(W[k + 1][1]) > Limit
    <3>1. k \in 1..Len(ws) /\ W[k] = ws[k]
      BY <1>4, <2>2
    <3>2. W[k + 1] = NextOf(acc, k)
      <4>1. CASE k = Len(ws)
        BY <4>1, <2>2 DEF NextOf
      <4>2. CASE k # Len(ws)
        <5>1. k + 1 \in 1..Len(ws)
          BY <4>2, <3>1, <1>4
        <5> QED BY <4>2, <5>1, <2>2 DEF NextOf
      <4> QED BY <4>1, <4>2
    <3> QED BY <1>2, <3>1, <3>2 DEF PackInv
  <2> QED BY <2>2, <2>3, <2>4, <2>5 DEF W, q
<1> QED BY <1>5, <1>6

\* _windows cuts every text, of any number of parts of any lengths, as Covered
\* says a text should be cut.
LEMMA EveryTextIsCovered ==
  ASSUME NEW t \in Seq(Nat)
  PROVE  Covered(t)
<1> DEFINE W == Windows(t)
           q == FlattenSeq(W)
<1>1. /\ W \in Seq(Seq(ItemSet)) /\ q = Items(t)
      /\ \A k \in 1..Len(W) : W[k] # <<>> /\ Size(W[k]) <= Limit
      /\ \A k \in 1..(Len(W) - 1) : Size(W[k]) + Length(W[k + 1][1]) > Limit
  BY Windowed
<1>2. Cuts(q, t)
  BY <1>1, ItemsCut
<1> HIDE DEF q
<1>3. q \in Seq(ItemSet) /\ DOMAIN q = 1..Len(q) /\ Len(q) \in Nat
      /\ \A i \in DOMAIN q : q[i].part \in Nat /\ q[i].from \in Nat /\ q[i].to \in Nat
  <2>1. q \in Seq(ItemSet)
    BY <1>2 DEF Cuts
  <2>2. DOMAIN q = 1..Len(q) /\ Len(q) \in Nat /\ \A i \in DOMAIN q : q[i] \in ItemSet
    BY <2>1
  <2> QED BY <2>1, <2>2 DEF ItemSet
<1>4. ASSUME NEW i \in DOMAIN q, NEW j \in DOMAIN q, i < j
      PROVE  \/ q[i].part < q[j].part
             \/ q[i].part = q[j].part /\ q[i].to <= q[j].from
  BY <1>2, <1>3, <1>4 DEF Cuts, InOrder, Before
<1>5. ASSUME NEW p \in DOMAIN t, NEW c \in 0..(t[p] - 1)
      PROVE  Cardinality({i \in DOMAIN q : q[i].part = p /\ q[i].from <= c /\ c < q[i].to}) = 1
  <2> DEFINE I == {i \in DOMAIN q : q[i].part = p /\ q[i].from <= c /\ c < q[i].to}
  <2>1. p \in 1..Len(t) /\ t[p] \in Nat /\ c \in Nat /\ c < t[p]
    OBVIOUS
  <2>2. PICK i \in 1..Len(q) : Holds(q[i], p, c)
    BY <1>2, <2>1 DEF Cuts
  <2>3. i \in I
    BY <1>3, <2>2 DEF Holds
  <2>4. ASSUME NEW j \in I PROVE j = i
    <3>1. /\ i \in DOMAIN q /\ q[i].part = p /\ q[i].from <= c /\ c < q[i].to
          /\ j \in DOMAIN q /\ q[j].part = p /\ q[j].from <= c /\ c < q[j].to
      BY <2>3, <2>4
    <3> HIDE DEF I
    <3>2. /\ p \in Nat /\ i \in Nat /\ j \in Nat /\ c \in Nat
          /\ q[i].from \in Nat /\ q[i].to \in Nat /\ q[j].from \in Nat /\ q[j].to \in Nat
      BY <3>1, <1>3, <2>1
    <3>3. ASSUME NEW a \in DOMAIN q, NEW b \in DOMAIN q, a < b,
                 q[a].part = p, q[b].part = p, c < q[a].to, q[b].from <= c
          PROVE  FALSE
      <4>1. q[a].part < q[b].part \/ q[a].to <= q[b].from
        BY <1>4, <3>3
      <4>2. p \in Nat /\ q[a].to \in Nat /\ q[b].from \in Nat
        BY <1>3, <2>1, <3>3
      <4> DEFINE end == q[a].to
                 begin == q[b].from
      <4> HIDE DEF end, begin
      <4>3. end <= begin /\ end \in Nat /\ begin \in Nat /\ c < end /\ begin <= c
        BY <3>3, <4>1, <4>2 DEF end, begin
      <4> QED BY <2>1, <4>3
    <3>4. ~(i < j) /\ ~(j < i)
      BY <3>1, <3>3
    <3> QED BY <3>2, <3>4
  <2>5. I = {i}
    BY <2>3, <2>4
  <2> HIDE DEF I
  <2>6. Cardinality(I) = 1
    BY <2>5, FS_Singleton
  <2> QED BY <2>6 DEF I
<1>6. DOMAIN W = 1..Len(W)
  BY <1>1
<1> QED BY <1>1, <1>4, <1>5, <1>6 DEF Covered, Size, q

------------------------------------------------------------------------------
\* The property.

\* _windows loses, repeats and reorders no character of the texts it is asked
\* about, and neither exceeds nor wastes its limit: the property of the run
\* `calls', for every limit and every text.
THEOREM TextIsCut == Spec => []TextIsCovered
<1>1. Miscut = {}
  BY EveryTextIsCovered, CallsAssumption DEF Miscut
<1>2. TypeOK => TextIsCovered
  <2>1. ASSUME TypeOK, NEW s \in Sources PROVE text[s] \in Seq(Nat)
    BY <2>1, CallsAssumption DEF TypeOK
  <2> QED BY <1>1, <2>1, EveryTextIsCovered DEF TextIsCovered
<1> QED BY <1>2, CallTypes, PTL

------------------------------------------------------------------------------
\* The loop over the windows.

\* The windows of the source that have no entry in the history yet.
WindowsDue == Len(Windows(text[call.source])) - Len(call.calls)

\* What the handler has still to do, at most: two requests for each window that
\* is due, the steps before the loop and the one after it.
StepsLeft ==
  CASE Working("idle") -> 0
    [] call.phase \in {"failing", "saving"} -> 1
    [] Working("chatting") -> 2 * WindowsDue
    [] Working("attesting") -> 2 * WindowsDue + 1
    [] Working("opening") -> 2 * WindowsDue + 2
    [] Working("preparing") -> 2 * WindowsDue + 3

\* The handler asks for a window only while one is due.
OnTrack == call.phase \in {"attesting", "chatting"} => WindowsDue > 0

ProgressInv == CallsInv /\ OnTrack

\* Number of windows, of entries, and the phase after `done' answers.
LEMMA CountsTyped ==
  ASSUME CallsInv
  PROVE  /\ Len(Windows(text[call.source])) \in Nat /\ Len(call.calls) \in Nat
         /\ call \in Calls /\ text[call.source] \in Seq(Nat)
<1>1. call \in Calls /\ text[call.source] \in Seq(Nat)
  BY CallsAssumption DEF CallsInv, TypeOK, Calls
<1>2. Len(call.calls) \in Nat
  BY <1>1 DEF Calls
<1>3. Windows(text[call.source]) \in Seq(Seq(ItemSet))
  BY <1>1, Windowed
<1> DEFINE W == Windows(text[call.source])
           S == Seq(ItemSet)
<1> HIDE DEF W, S
<1>4. W \in Seq(S) => Len(W) \in Nat
  OBVIOUS
<1>5. Len(W) \in Nat
  BY <1>3, <1>4 DEF W, S
<1> QED BY <1>1, <1>2, <1>5 DEF W

\* A failure leaves the loop for good.
LEMMA FailureLeaves ==
  ASSUME CallsInv, NEW generation, NEW error, call' = Failed(generation, error)
  PROVE  call'.phase = "failing" /\ call'.source = call.source
  BY CountsTyped DEF Failed, Calls

\* Where each step of the handler leads.
LEMMA HandlerProceeds ==
  ASSUME CallsInv, Handle
  PROVE  /\ text' = text /\ call.phase # "idle"
         /\ \/ call' = NoCall
            \/ /\ call'.source = call.source
               /\ \/ call.phase = "preparing" /\ call'.phase = "opening" /\ call'.calls = call.calls
                  \/ call.phase = "opening" /\ call'.phase = Turn(0) /\ call'.calls = call.calls
                  \/ call.phase = "attesting" /\ call'.phase = "chatting" /\ call'.calls = call.calls
                  \/ call.phase \in {"attesting", "chatting"} /\ call'.phase = "failing"
                  \/ /\ call.phase = "chatting" /\ Len(call'.calls) = Len(call.calls) + 1
                     /\ call'.phase = Turn(Len(call.calls) + 1)
<1>1. call \in Calls
  BY CountsTyped
<1>2. CASE Prepare
  BY <1>1, <1>2 DEF Prepare, Working, Calls
<1>3. CASE PrepareUnavailable
  BY <1>1, <1>3 DEF PrepareUnavailable, Working, Calls
<1>4. CASE Reuse
  BY <1>4 DEF Reuse, Working
<1>5. CASE Open
  <2>1. PICK turn \in {"saving", "attesting"} : turn = Turn(0)
    BY DEF Turn
  <2>2. call' = [call EXCEPT !.phase = turn, !.window = 1] /\ call.phase = "opening" /\ text' = text
    BY <1>5, <2>1 DEF Open, Working
  <2> QED BY <1>1, <2>1, <2>2 DEF Calls
<1>6. CASE Attest
  <2>1. PICK reply \in TagsReplies :
          call' = IF reply.error = "none" THEN [call EXCEPT !.phase = "chatting", !.raced = FALSE]
                  ELSE Failed(Prepared(reply).generation, reply.error)
    BY <1>6 DEF Attest
  <2>2. call.phase = "attesting" /\ text' = text
    BY <1>6 DEF Attest, Working
  <2>3. CASE reply.error = "none"
    BY <1>1, <2>1, <2>2, <2>3 DEF Calls
  <2>4. CASE reply.error # "none"
    BY <2>1, <2>2, <2>4, FailureLeaves
  <2> QED BY <2>3, <2>4
<1>7. CASE Chat
  <2>1. PICK reply \in ChatReplies :
          call' = IF reply.error = "none" THEN Answered(Recorded(reply).generation)
                  ELSE Failed(Recorded(reply).generation, reply.error)
    BY <1>7 DEF Chat
  <2> DEFINE generation == Recorded(reply).generation
  <2>2. call.phase = "chatting" /\ text' = text
    BY <1>7 DEF Chat, Working
  <2>3. CASE reply.error # "none" \/ ~Matches(generation)
    <3>1. call' = Failed(generation, reply.error) \/ call' = Failed(generation, "none")
      BY <2>1, <2>3 DEF Answered
    <3> HIDE DEF generation
    <3> QED BY <2>2, <3>1, FailureLeaves
  <2>4. CASE reply.error = "none" /\ Matches(generation)
    <3> DEFINE entry == Entry(generation)
    <3>1. call' = [call EXCEPT !.phase = Turn(call.window), !.window = call.window + 1,
                               !.calls = Append(call.calls, entry)]
      BY <2>1, <2>4 DEF Answered
    <3>2. Len(call.calls) + 1 = call.window
      BY <2>2 DEF CallsInv, CallOK
    <3>3. call'.phase = Turn(call.window) /\ call'.source = call.source
          /\ call'.calls = Append(call.calls, entry)
      <4> HIDE DEF entry
      <4> QED BY <1>1, <3>1 DEF Calls
    <3>4. Len(Append(call.calls, entry)) = Len(call.calls) + 1
      <4> HIDE DEF entry
      <4>1. call.calls \in Seq(Entries)
        BY <1>1 DEF Calls
      <4> QED BY <4>1
    <3> QED BY <2>2, <3>2, <3>3, <3>4
  <2> QED BY <2>3, <2>4
<1>8. CASE GenerateUnavailable
  <2>1. call' = Failed(context.generation, "provider_unavailable") /\ call.phase = "attesting" /\ text' = text
    BY <1>8 DEF GenerateUnavailable, Working
  <2> QED BY <2>1, FailureLeaves
<1>9. CASE RecordFailure \/ Save \/ SaveFails
  <2>1. call' = NoCall /\ text' = text
    BY <1>9 DEF RecordFailure, Save, SaveFails, Ends
  <2>2. call.phase \in {"failing", "saving"}
    BY <1>9 DEF RecordFailure, Save, SaveFails, Working
  <2> QED BY <2>1, <2>2
<1> QED BY <1>2, <1>3, <1>4, <1>5, <1>6, <1>7, <1>8, <1>9 DEF Handle

\* The measure of a handler that is at work is a positive number.
LEMMA StepsCounted ==
  ASSUME ProgressInv
  PROVE  /\ StepsLeft \in 0..(2 * Len(Windows(text[call.source])) + 3)
         /\ StepsLeft = 0 <=> Working("idle")
<1>1. /\ Len(Windows(text[call.source])) \in Nat /\ Len(call.calls) \in Nat
      /\ call.phase \in {"idle", "preparing", "opening", "attesting", "chatting", "failing", "saving"}
  BY CountsTyped DEF ProgressInv, Calls
<1>2. call.phase \in {"preparing", "opening"} => Len(call.calls) = 0
  BY DEF ProgressInv, CallsInv, CallOK
<1> DEFINE n == Len(Windows(text[call.source]))
<1> HIDE DEF n
<1>3. /\ n \in Nat /\ WindowsDue = n - Len(call.calls)
      /\ call.phase \in {"attesting", "chatting"} => WindowsDue > 0
  BY <1>1 DEF n, WindowsDue, ProgressInv, OnTrack
<1>4. StepsLeft =
        IF call.phase = "idle" THEN 0
        ELSE IF call.phase \in {"failing", "saving"} THEN 1
        ELSE IF call.phase = "chatting" THEN 2 * WindowsDue
        ELSE IF call.phase = "attesting" THEN 2 * WindowsDue + 1
        ELSE IF call.phase = "opening" THEN 2 * WindowsDue + 2
        ELSE 2 * WindowsDue + 3
  BY <1>1 DEF StepsLeft, Working
<1>5. /\ call.phase \in {"preparing", "opening"} => WindowsDue = n
      /\ call.phase \in {"attesting", "chatting"} => WindowsDue \in 1..n
  BY <1>1, <1>2, <1>3
<1>6. StepsLeft \in 0..(2 * n + 3) /\ (StepsLeft = 0 <=> call.phase = "idle")
  <2>1. CASE call.phase \in {"idle", "failing", "saving"}
    BY <1>3, <1>4, <2>1
  <2>2. CASE call.phase \in {"preparing", "opening"}
    BY <1>3, <1>4, <1>5, <2>2
  <2>3. CASE call.phase \in {"attesting", "chatting"}
    BY <1>3, <1>4, <1>5, <2>3
  <2> QED BY <1>1, <2>1, <2>2, <2>3
<1> QED BY <1>6 DEF n, Working

\* A step of the handler keeps to the windows and lowers the measure.
LEMMA HandlerCounts ==
  ASSUME ProgressInv, Handle
  PROVE  OnTrack' /\ StepsLeft' < StepsLeft
<1>1. CallsInv /\ OnTrack
  BY DEF ProgressInv
<1>2. text' = text /\ call.phase # "idle"
  BY <1>1, HandlerProceeds
<1>3. StepsLeft \in Nat /\ StepsLeft > 0
  BY <1>1, <1>2, CountsTyped, StepsCounted DEF Working
<1>4. CASE call' = NoCall
  <2>1. call'.phase = "idle"
    BY <1>4, Blanks
  <2>2. StepsLeft' = 0
    BY <2>1 DEF StepsLeft, Working
  <2> QED BY <1>3, <2>1, <2>2 DEF OnTrack
<1>5. CASE call' # NoCall
  <2> DEFINE n == Len(Windows(text[call.source]))
             done == Len(call.calls)
  <2>1. n \in Nat /\ done \in Nat /\ WindowsDue = n - done
    BY <1>1, CountsTyped DEF WindowsDue
  <2>2. call'.source = call.source /\ WindowsDue' = n - Len(call'.calls)
    BY <1>1, <1>2, <1>5, HandlerProceeds DEF WindowsDue
  <2>3. \A k : Turn(k) = IF k = n THEN "saving" ELSE "attesting"
    BY DEF Turn
  <2>4. /\ call.phase \in {"preparing", "opening"} => done = 0
        /\ call.phase \in {"attesting", "chatting"} => n - done > 0
    <3>1. call.phase \in {"preparing", "opening"} => done = 0
      BY <1>1 DEF CallsInv, CallOK
    <3> QED BY <1>1, <2>1, <3>1 DEF OnTrack
  <2> HIDE DEF n, done
  <2>5. \/ call.phase = "preparing" /\ call'.phase = "opening" /\ call'.calls = call.calls
        \/ call.phase = "opening" /\ call'.phase = Turn(0) /\ call'.calls = call.calls
        \/ call.phase = "attesting" /\ call'.phase = "chatting" /\ call'.calls = call.calls
        \/ call.phase \in {"attesting", "chatting"} /\ call'.phase = "failing"
        \/ /\ call.phase = "chatting" /\ Len(call'.calls) = done + 1
           /\ call'.phase = Turn(done + 1)
    BY <1>1, <1>5, HandlerProceeds DEF done
  <2>6. call'.calls = call.calls => Len(call'.calls) = done
    BY DEF done
  <2>7. CASE call.phase = "preparing" /\ call'.phase = "opening" /\ call'.calls = call.calls
    BY <2>1, <2>2, <2>4, <2>6, <2>7 DEF StepsLeft, Working, OnTrack
  <2>8. CASE call.phase = "opening" /\ call'.phase = Turn(0) /\ call'.calls = call.calls
    BY <2>1, <2>2, <2>3, <2>4, <2>6, <2>8 DEF StepsLeft, Working, OnTrack
  <2>9. CASE call.phase = "attesting" /\ call'.phase = "chatting" /\ call'.calls = call.calls
    BY <2>1, <2>2, <2>4, <2>6, <2>9 DEF StepsLeft, Working, OnTrack
  <2>10. CASE call.phase \in {"attesting", "chatting"} /\ call'.phase = "failing"
    BY <2>1, <2>2, <2>4, <2>10 DEF StepsLeft, Working, OnTrack
  <2>11. CASE /\ call.phase = "chatting" /\ Len(call'.calls) = done + 1
              /\ call'.phase = Turn(done + 1)
    BY <2>1, <2>2, <2>3, <2>4, <2>11 DEF StepsLeft, Working, OnTrack
  <2> QED BY <2>5, <2>7, <2>8, <2>9, <2>10, <2>11
<1> QED BY <1>4, <1>5

\* Nothing but the handler changes what it has to do, except that a crash ends it.
LEMMA OthersCount ==
  ASSUME ProgressInv, Next \/ UNCHANGED vars, ~Handle
  PROVE  OnTrack' /\ (~Working("idle") => StepsLeft' <= StepsLeft)
<1>1. CallsInv /\ OnTrack /\ call \in Calls /\ StepsLeft \in Nat
  BY CountsTyped, StepsCounted DEF ProgressInv
<1>2. ASSUME NEW s \in Sources, Take(s)
      PROVE  OnTrack' /\ (~Working("idle") => StepsLeft' <= StepsLeft)
  <2>1. Working("idle") /\ call'.phase = "preparing"
    BY <1>2, Blanks DEF Take, Calls
  <2> QED BY <2>1 DEF OnTrack
<1>3. CASE Crash
  <2>1. call'.phase = "idle"
    BY <1>3, Blanks DEF Crash
  <2>2. StepsLeft' = 0
    BY <2>1 DEF StepsLeft, Working
  <2> QED BY <1>1, <2>1, <2>2 DEF OnTrack
<1>4. CASE UNCHANGED <<text, call>> \/ \E d \in Digests : Swap(d)
  <2>1. text' = text /\ call'.phase = call.phase /\ call'.calls = call.calls /\ call'.source = call.source
    BY <1>1, <1>4 DEF Swap, Calls
  <2>2. WindowsDue' = WindowsDue
    BY <2>1 DEF WindowsDue
  <2>3. StepsLeft' = StepsLeft
    BY <2>1, <2>2 DEF StepsLeft, Working
  <2> QED BY <1>1, <2>1, <2>2, <2>3 DEF OnTrack
<1> QED BY <1>2, <1>3, <1>4 DEF Next, vars

LEMMA Progress == Spec => []ProgressInv
<1>1. Init => ProgressInv
  <2>1. Init => OnTrack
    BY Blanks DEF Init, OnTrack
  <2> QED BY <2>1, InitOK DEF ProgressInv
<1>2. ProgressInv /\ [Next]_vars => ProgressInv'
  <2>1. ASSUME ProgressInv, [Next]_vars PROVE CallsInv' /\ OnTrack'
    BY <2>1, StepOK, HandlerCounts, OthersCount DEF ProgressInv
  <2> QED BY <2>1 DEF ProgressInv
<1> QED BY <1>1, <1>2, PTL DEF Spec

\* Every step of the handler brings the end of its attempt nearer, and nothing
\* moves it away: neither the server nor the model it serves can make the loop
\* of extract_candidates ask for a window again or for one more.
EachStepCounts == [][
  IF Handle THEN StepsLeft' < StepsLeft ELSE Working("idle") \/ StepsLeft' <= StepsLeft]_vars

\* An attempt at a source of n windows takes at most 2n + 3 steps of the handler,
\* whatever the server answers: the measure is a number not above this, zero only
\* when no handler is at work, and every step of the handler lowers it.  With the
\* fairness of the run `calls' this is why EveryAttemptEnds.
THEOREM AttemptsAreBounded ==
  Spec => /\ [](/\ StepsLeft \in 0..(2 * Len(Windows(text[call.source])) + 3)
                /\ StepsLeft = 0 <=> Working("idle"))
          /\ EachStepCounts
<1> DEFINE Counted == /\ StepsLeft \in 0..(2 * Len(Windows(text[call.source])) + 3)
                      /\ StepsLeft = 0 <=> Working("idle")
           Nearer == IF Handle THEN StepsLeft' < StepsLeft
                     ELSE Working("idle") \/ StepsLeft' <= StepsLeft
<1>1. ProgressInv => Counted
  BY StepsCounted
<1>2. ProgressInv /\ [Next]_vars => [Nearer]_vars
  <2>1. ASSUME ProgressInv, Next PROVE Nearer
    <3>1. CASE Handle
      BY <2>1, <3>1, HandlerCounts
    <3>2. CASE ~Handle
      BY <2>1, <3>2, OthersCount
    <3> QED BY <3>1, <3>2
  <2> QED BY <2>1
<1>3. [][Nearer]_vars => EachStepCounts
  BY DEF EachStepCounts
<1> HIDE DEF Counted, Nearer
<1>4. Spec => []Counted /\ [][Nearer]_vars
  BY <1>1, <1>2, Progress, PTL DEF Spec
<1> QED BY <1>3, <1>4, PTL DEF Counted

==============================================================================
