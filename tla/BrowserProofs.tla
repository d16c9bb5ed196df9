--------------------------- MODULE BrowserProofs ---------------------------
(***************************************************************************)
(* Proofs about Browser and Guide: for every card, every guide, any number  *)
(* of buttons and any depth of folders, in whatever order buttons are       *)
(* pressed, names created and deleted, from the console too, and the card   *)
(* taken out. What the recursive functions compute is proved by induction   *)
(* over sets of numbers and of sequences.                                   *)
(***************************************************************************)
EXTENDS Browser, SequenceTheorems, FiniteSetTheorems, WellFoundedInduction, TLAPS

\* The order of the natural numbers, as a set of pairs.
Less == {ss \in Nat \X Nat : ss[1] < ss[2]}

\* No set of natural numbers descends for ever.
LEMMA LessIsWellFounded == IsWellFoundedOn(Less, Nat)
BY NatLessThanWellFounded, Zenon DEF OpToRel, Less

\* Every set of natural numbers that is not empty has a least element.
LEMMA LeastNat ==
  ASSUME NEW T \in SUBSET Nat, T # {}
  PROVE  \E x \in T : \A y \in T : x <= y
<1>1. PICK x \in T : \A y \in T : ~(<<y, x>> \in Less)
  BY LessIsWellFounded, WFMin, Zenon
<1>2. \A y \in T : ~(y < x)
  BY <1>1 DEF Less
<1> QED BY <1>1, <1>2

\* Induction on the numbers up to n, for a set of numbers.
LEMMA UpTo ==
  ASSUME NEW n \in Nat, NEW T, 0 \in T, \A i \in 1 .. n : i - 1 \in T => i \in T
  PROVE  0 .. n \subseteq T
<1> SUFFICES ASSUME NEW m \in 0 .. n, m \notin T PROVE FALSE
  OBVIOUS
<1> DEFINE W == {i \in 0 .. n : i \notin T}
<1>1. W \in SUBSET Nat /\ W # {}
  OBVIOUS
<1>2. PICK x \in W : \A y \in W : x <= y
  BY <1>1, LeastNat, Zenon
<1>3. x # 0 /\ x \in 1 .. n /\ x - 1 \in 0 .. n
  BY <1>2
<1>4. x - 1 \in T
  BY <1>2, <1>3
<1> QED BY <1>2, <1>3, <1>4

(***************************************************************************)
(* Induction on sequences, for a set of sequences.                         *)
(***************************************************************************)
LEMMA SeqInduction ==
  ASSUME NEW X, NEW T, <<>> \in T,
         \A s \in Seq(X), x \in X : s \in T => Append(s, x) \in T
  PROVE  Seq(X) \subseteq T
<1> SUFFICES ASSUME NEW s \in Seq(X), s \notin T PROVE FALSE
  OBVIOUS
<1> DEFINE W == {n \in Nat : \E t \in Seq(X) : Len(t) = n /\ t \notin T}
<1>1. W \in SUBSET Nat /\ Len(s) \in W
  BY LenProperties
<1>2. PICK n \in W : \A m \in W : n <= m
  BY <1>1, LeastNat, Zenon
<1>3. PICK t \in Seq(X) : Len(t) = n /\ t \notin T
  BY <1>2
<1>4. t # <<>> /\ n \in Nat
  BY <1>2, <1>3
<1>5. PICK u \in Seq(X), x \in X : t = Append(u, x)
  BY <1>4, SequenceEmptyOrAppend
<1>6. Len(u) = n - 1 /\ Len(u) \in Nat
  BY <1>3, <1>5
<1>7. u \notin T
  BY <1>3, <1>5
<1> QED BY <1>2, <1>6, <1>7

(***************************************************************************)
(* A recursion along 1 .. n has a solution.                                *)
(***************************************************************************)
Iterates(n, V, base, step, g) ==
  /\ g \in [0 .. n -> V] /\ g[0] = base
  /\ \A i \in 1 .. n : g[i] = step[i][g[i - 1]]

\* A function that is given by its first value and by its steps exists.
LEMMA Recursion ==
  ASSUME NEW n \in Nat, NEW V, NEW base \in V, NEW step \in [1 .. n -> [V -> V]]
  PROVE  \E g : Iterates(n, V, base, step, g)
<1> DEFINE Sol(m, g) == /\ g \in [0 .. m -> V] /\ g[0] = base
                        /\ \A i \in 1 .. m : g[i] = step[i][g[i - 1]]
           T == {m \in 0 .. n : \E g : Sol(m, g)}
<1>1. 0 \in T
  <2> DEFINE g == [i \in 0 .. 0 |-> base]
  <2>1. Sol(0, g)
    OBVIOUS
  <2> HIDE DEF g, Sol
  <2> QED BY <2>1
<1>2. ASSUME NEW m \in 1 .. n, m - 1 \in T PROVE m \in T
  <2>1. PICK g : Sol(m - 1, g)
    BY <1>2
  <2> DEFINE h == [i \in 0 .. m |-> IF i = m THEN step[m][g[m - 1]] ELSE g[i]]
  <2>2. g[m - 1] \in V /\ step[m][g[m - 1]] \in V
    <3>1. m - 1 \in 0 .. m - 1
      OBVIOUS
    <3>2. g[m - 1] \in V
      BY <2>1, <3>1
    <3> QED BY <3>2
  <2>3. h \in [0 .. m -> V] /\ h[0] = base
    BY <2>1, <2>2
  <2>4. ASSUME NEW i \in 1 .. m PROVE h[i] = step[i][h[i - 1]]
    <3>1. CASE i = m
      <4>1. i - 1 \in 0 .. m /\ i - 1 # m
        BY <3>1
      <4>2. h[i - 1] = g[m - 1]
        BY <3>1, <4>1
      <4>3. h[m] = step[m][g[m - 1]]
        OBVIOUS
      <4> HIDE DEF h
      <4> QED BY <3>1, <4>2, <4>3
    <3>2. CASE i # m
      <4>1. i \in 1 .. m - 1 /\ i - 1 \in 0 .. m /\ i - 1 # m /\ i \in 0 .. m
        BY <3>2
      <4> QED BY <2>1, <3>2, <4>1
    <3> QED BY <3>1, <3>2
  <2>5. Sol(m, h)
    BY <2>3, <2>4
  <2> HIDE DEF h, Sol
  <2> QED BY <2>5
<1> HIDE DEF T
<1>3. 0 .. n \subseteq T
  BY <1>1, <1>2, UpTo
<1>4. n \in T
  BY <1>3
<1> QED BY <1>4 DEF T, Iterates

-----------------------------------------------------------------------------
\* The recursion of Kept.
KeptUpTo(s, S) ==
  CHOOSE g : g = [k \in 0 .. Len(s) |->
                    IF k = 0 THEN <<>>
                    ELSE IF s[k] \in S THEN Append(g[k - 1], s[k]) ELSE g[k - 1]]

\* The recursive function behind Kept, by name.
LEMMA KeptDef ==
  ASSUME NEW s, NEW S
  PROVE  Kept(s, S) = KeptUpTo(s, S)[Len(s)]
BY DEF Kept, KeptUpTo

\* The equations of a function that keeps the elements of S.
KeptChain(s, S, g) ==
  /\ g[0] = <<>>
  /\ \A k \in 1 .. Len(s) : g[k] = IF s[k] \in S THEN Append(g[k - 1], s[k]) ELSE g[k - 1]

\* It is typed and satisfies its equations.
LEMMA KeptEquations ==
  ASSUME NEW X, NEW s \in Seq(X), NEW S, NEW g, g = KeptUpTo(s, S)
  PROVE  g \in [0 .. Len(s) -> Seq(X \cap S)] /\ KeptChain(s, S, g)
<1> DEFINE n == Len(s)
           V == Seq(X \cap S)
           step == [i \in 1 .. n |-> [t \in V |-> IF s[i] \in S THEN Append(t, s[i]) ELSE t]]
           Sol(f) == f = [k \in 0 .. Len(s) |->
                    IF k = 0 THEN <<>>
                    ELSE IF s[k] \in S THEN Append(f[k - 1], s[k]) ELSE f[k - 1]]
<1>1. n \in Nat /\ <<>> \in V
  OBVIOUS
<1>2. step \in [1 .. n -> [V -> V]]
  <2> SUFFICES ASSUME NEW t \in V, NEW i \in 1 .. n
               PROVE  (IF s[i] \in S THEN Append(t, s[i]) ELSE t) \in V
    OBVIOUS
  <2>1. s[i] \in X
    OBVIOUS
  <2> QED BY <2>1
<1>3. PICK f \in [0 .. n -> V] :
        f[0] = <<>> /\ \A i \in 1 .. n : f[i] = step[i][f[i - 1]]
  <2>1. \E f : Iterates(n, V, <<>>, step, f)
    <3> HIDE DEF step, V, n
    <3> QED BY <1>1, <1>2, Recursion, Zenon
  <2> HIDE DEF step, V, n
  <2> QED BY <2>1 DEF Iterates
<1> HIDE DEF V
<1>4. \A i \in 1 .. n : f[i] = IF s[i] \in S THEN Append(f[i - 1], s[i]) ELSE f[i - 1]
  <2> SUFFICES ASSUME NEW i \in 1 .. n
               PROVE f[i] = IF s[i] \in S THEN Append(f[i - 1], s[i]) ELSE f[i - 1]
    OBVIOUS
  <2>1. f[i - 1] \in V
    BY <1>1, <1>3
  <2>2. PICK v : v = f[i - 1]
    OBVIOUS
  <2>3. step[i][v] = IF s[i] \in S THEN Append(v, s[i]) ELSE v
    BY <2>1, <2>2
  <2> HIDE DEF step
  <2> QED BY <1>3, <2>2, <2>3
<1>5. Sol(f)
  <2> HIDE DEF step
  <2>1. ASSUME NEW k \in 0 .. Len(s)
        PROVE  f[k] = IF k = 0 THEN <<>>
                    ELSE IF s[k] \in S THEN Append(f[k - 1], s[k]) ELSE f[k - 1]
    <3>1. CASE k = 0
      BY <1>3, <3>1
    <3>2. CASE k \in 1 .. n
      <4>1. k # 0
        BY <1>1, <3>2
      <4> QED BY <1>4, <3>2, <4>1
    <3> QED BY <1>1, <3>1, <3>2
  <2> QED BY <1>3, <2>1
<1>6. Sol(g)
  <2>1. g = CHOOSE h : Sol(h)
    BY DEF KeptUpTo
  <2> HIDE DEF Sol
  <2> QED BY <1>5, <2>1, Zenon
<1>7. /\ g[0] = <<>> /\ DOMAIN g = 0 .. n
      /\ \A k \in 1 .. n : g[k] = IF s[k] \in S THEN Append(g[k - 1], s[k]) ELSE g[k - 1]
  <2>1. \A k \in 0 .. Len(s) : g[k] = IF k = 0 THEN <<>>
                    ELSE IF s[k] \in S THEN Append(g[k - 1], s[k]) ELSE g[k - 1]
    BY <1>6
  <2>2. ASSUME NEW k \in 1 .. n PROVE k \in 0 .. Len(s) /\ k # 0
    BY <1>1
  <2>3. 0 \in 0 .. Len(s)
    BY <1>1
  <2>4. DOMAIN g = 0 .. n
    BY <1>6
  <2>5. g[0] = <<>>
    BY <2>1, <2>3
  <2> HIDE DEF n, Sol
  <2> QED BY <2>1, <2>2, <2>4, <2>5
<1>8. \A k \in 0 .. n : g[k] \in V
  <2> DEFINE T == {k \in 0 .. n : g[k] \in V}
  <2>1. 0 \in T
    BY <1>1, <1>7
  <2>2. ASSUME NEW k \in 1 .. n, k - 1 \in T PROVE k \in T
    <3>1. s[k] \in X /\ g[k - 1] \in V /\ k \in 0 .. n
      BY <2>2
    <3>2. PICK v : v = g[k - 1]
      OBVIOUS
    <3>3. Append(v, s[k]) \in V \/ s[k] \notin S
      BY <3>1, <3>2 DEF V
    <3>4. g[k] \in V
      BY <1>7, <3>1, <3>2, <3>3
    <3> QED BY <3>1, <3>4
  <2> HIDE DEF T
  <2>3. 0 .. n \subseteq T
    BY <1>1, <2>1, <2>2, UpTo
  <2> QED BY <2>3 DEF T
<1> QED BY <1>6, <1>7, <1>8 DEF V, KeptChain

\* Kept keeps elements of the sequence that are in the set.
LEMMA KeptTyped ==
  ASSUME NEW X, NEW s \in Seq(X), NEW S
  PROVE  Kept(s, S) \in Seq(X \cap S)
<1>1. PICK g : g = KeptUpTo(s, S)
  OBVIOUS
<1>2. g \in [0 .. Len(s) -> Seq(X \cap S)] /\ Kept(s, S) = g[Len(s)]
  BY <1>1, KeptEquations, KeptDef
<1>3. Len(s) \in 0 .. Len(s)
  OBVIOUS
<1> QED BY <1>2, <1>3

\* Of an empty sequence nothing is kept.
LEMMA KeptEmpty ==
  ASSUME NEW S
  PROVE  Kept(<<>>, S) = <<>>
<1>1. PICK g : g = KeptUpTo(<<>>, S)
  OBVIOUS
<1>2. PICK s : s = <<>>
  OBVIOUS
<1>3. s \in Seq({}) /\ Len(s) = 0
  BY <1>2
<1>4. KeptChain(s, S, g)
  BY <1>1, <1>2, <1>3, KeptEquations
<1>5. g[0] = <<>>
  BY <1>4 DEF KeptChain
<1> QED BY <1>1, <1>2, <1>3, <1>5, KeptDef

\* Kept goes through the sequence element by element.
LEMMA KeptAppend ==
  ASSUME NEW X, NEW s \in Seq(X), NEW x \in X, NEW S
  PROVE  Kept(Append(s, x), S) = IF x \in S THEN Append(Kept(s, S), x) ELSE Kept(s, S)
<1>1. PICK g : g = KeptUpTo(s, S)
  OBVIOUS
<1>2. PICK t : t = Append(s, x)
  OBVIOUS
<1>3. PICK h : h = KeptUpTo(t, S)
  OBVIOUS
<1>4. PICK n : n = Len(s) /\ n \in Nat
  OBVIOUS
<1>5. /\ t \in Seq(X) /\ Len(t) = n + 1 /\ t[n + 1] = x
      /\ \A k \in 1 .. n : t[k] = s[k]
  BY <1>2, <1>4
<1>6. /\ g[0] = <<>>
      /\ \A k \in 1 .. n : g[k] = IF s[k] \in S THEN Append(g[k - 1], s[k]) ELSE g[k - 1]
  <2>1. KeptChain(s, S, g)
    BY <1>1, KeptEquations
  <2> QED BY <1>4, <2>1 DEF KeptChain
<1>7. /\ h[0] = <<>>
      /\ \A k \in 1 .. n + 1 : h[k] = IF t[k] \in S THEN Append(h[k - 1], t[k]) ELSE h[k - 1]
  <2>1. KeptChain(t, S, h)
    BY <1>3, <1>5, KeptEquations
  <2> QED BY <1>5, <2>1 DEF KeptChain
<1> DEFINE T == {k \in 0 .. n : g[k] = h[k]}
<1>8. 0 \in T
  BY <1>4, <1>6, <1>7
<1>9. ASSUME NEW k \in 1 .. n, k - 1 \in T PROVE k \in T
  <2>1. k \in 1 .. n + 1 /\ k \in 0 .. n /\ t[k] = s[k] /\ g[k - 1] = h[k - 1]
    BY <1>4, <1>5, <1>9
  <2>2. PICK v : v = g[k - 1]
    OBVIOUS
  <2>3. h[k] = IF s[k] \in S THEN Append(v, s[k]) ELSE v
    BY <1>7, <2>1, <2>2
  <2>4. g[k] = IF s[k] \in S THEN Append(v, s[k]) ELSE v
    BY <1>6, <2>2
  <2> QED BY <2>1, <2>3, <2>4
<1> HIDE DEF T
<1>10. 0 .. n \subseteq T
  BY <1>4, <1>8, <1>9, UpTo
<1>11. g[n] = h[n]
  BY <1>4, <1>10 DEF T
<1>12. h[n + 1] = IF x \in S THEN Append(g[n], x) ELSE g[n]
  <2>2. PICK v : v = h[n]
    OBVIOUS
  <2>3. h[n + 1] = IF t[n + 1] \in S THEN Append(v, t[n + 1]) ELSE v
    <3>1. PICK m : m = n + 1
      OBVIOUS
    <3>2. m \in 1 .. n + 1 /\ m - 1 = n
      BY <1>4, <3>1
    <3>3. h[m] = IF t[m] \in S THEN Append(h[m - 1], t[m]) ELSE h[m - 1]
      BY <1>7, <3>2
    <3> QED BY <2>2, <3>1, <3>2, <3>3
  <2> QED BY <1>5, <1>11, <2>2, <2>3
<1>13. Kept(s, S) = g[n] /\ Kept(t, S) = h[n + 1]
  BY <1>1, <1>3, <1>4, <1>5, KeptDef
<1> QED BY <1>2, <1>12, <1>13

-----------------------------------------------------------------------------
\* What an appended element changes.
LEMMA AppendFacts ==
  ASSUME NEW X, NEW s \in Seq(X), NEW x \in X
  PROVE  /\ Append(s, x) \in Seq(X) /\ Len(Append(s, x)) = Len(s) + 1
         /\ Range(Append(s, x)) = Range(s) \cup {x}
         /\ IsInjective(Append(s, x)) <=> IsInjective(s) /\ x \notin Range(s)
         /\ Append(s, x) # s /\ Append(s, x) # <<>>
         /\ Front(Append(s, x)) = s /\ Last(Append(s, x)) = x
<1>1. PICK t : t = Append(s, x)
  OBVIOUS
<1>2. PICK n : n = Len(s) /\ n \in Nat
  OBVIOUS
<1>3. /\ t \in Seq(X) /\ Len(t) = n + 1 /\ t[n + 1] = x /\ DOMAIN t = 1 .. n + 1
      /\ \A k \in 1 .. n : t[k] = s[k] /\ k \in DOMAIN t
      /\ DOMAIN s = 1 .. n
  BY <1>1, <1>2
<1>4. Range(t) = Range(s) \cup {x}
  <2>1. \A k \in DOMAIN t : k \in DOMAIN s \/ k = n + 1
    BY <1>2, <1>3
  <2>2. n + 1 \in DOMAIN t
    BY <1>2, <1>3
  <2> QED BY <1>3, <2>1, <2>2 DEF Range
<1>5. IsInjective(t) <=> IsInjective(s) /\ x \notin Range(s)
  <2>1. \A k \in DOMAIN t : k \in DOMAIN s \/ k = n + 1
    BY <1>2, <1>3
  <2>2. n + 1 \in DOMAIN t /\ n + 1 \notin DOMAIN s
    BY <1>2, <1>3
  <2>3. \A k \in DOMAIN s : k \in DOMAIN t /\ t[k] = s[k]
    BY <1>3
  <2> QED BY <1>3, <2>1, <2>2, <2>3 DEF Range, IsInjective
<1>6. Front(t) = s
  <2>1. Front(t) = SubSeq(t, 1, n) /\ SubSeq(t, 1, n) \in Seq(X) /\ Len(SubSeq(t, 1, n)) = n
    BY <1>2, <1>3 DEF Front
  <2>2. \A k \in 1 .. n : SubSeq(t, 1, n)[k] = s[k]
    BY <1>2, <1>3
  <2> QED BY <1>2, <2>1, <2>2, SeqEqual
<1>7. Last(t) = x
  BY <1>3 DEF Last
<1> QED BY <1>1, <1>2, <1>3, <1>4, <1>5, <1>6, <1>7

\* A sequence that is not empty is its front and its last element.
LEMMA FrontLast ==
  ASSUME NEW X, NEW s \in Seq(X), s # <<>>
  PROVE  Front(s) \in Seq(X) /\ Last(s) \in X /\ s = Append(Front(s), Last(s))
<1>1. PICK t \in Seq(X), x \in X : s = Append(t, x)
  BY SequenceEmptyOrAppend
<1>2. Front(s) = t /\ Last(s) = x
  BY <1>1, AppendFacts
<1> QED BY <1>1, <1>2

\* The empty sequence.
LEMMA EmptyFacts == Range(<<>>) = {} /\ IsInjective(<<>>)
BY DEF Range, IsInjective

\* Kept keeps every element of the set, and no element twice.
LEMMA KeptRange ==
  ASSUME NEW X, NEW s \in Seq(X), NEW S
  PROVE  /\ Range(Kept(s, S)) = Range(s) \cap S
         /\ IsInjective(s) => IsInjective(Kept(s, S))
<1> DEFINE P(t) == /\ Range(Kept(t, S)) = Range(t) \cap S
                   /\ IsInjective(t) => IsInjective(Kept(t, S))
           T == {t \in Seq(X) : P(t)}
<1>1. <<>> \in T
  BY KeptEmpty, EmptyFacts
<1>2. ASSUME NEW t \in Seq(X), NEW x \in X, t \in T PROVE Append(t, x) \in T
  <2>1. P(t)
    BY <1>2
  <2>2. PICK u : u = Kept(t, S) /\ u \in Seq(X)
    <3>1. Kept(t, S) \in Seq(X \cap S)
      BY KeptTyped
    <3> QED BY <3>1, SeqMonotonic
  <2>3. PICK v : v = Append(t, x)
    OBVIOUS
  <2>4. /\ v \in Seq(X) /\ Range(v) = Range(t) \cup {x}
        /\ IsInjective(v) => IsInjective(t) /\ x \notin Range(t)
    BY <2>3, AppendFacts
  <2>5. Kept(v, S) = IF x \in S THEN Append(u, x) ELSE u
    BY <2>2, <2>3, KeptAppend
  <2>6. Range(Append(u, x)) = Range(u) \cup {x}
        /\ (IsInjective(Append(u, x)) <=> IsInjective(u) /\ x \notin Range(u))
    BY <2>2, AppendFacts
  <2>7. P(v)
    BY <2>1, <2>2, <2>4, <2>5, <2>6, Zenon
  <2> QED BY <2>3, <2>4, <2>7
<1> HIDE DEF P
<1>3. Seq(X) \subseteq T
  <2> HIDE DEF T
  <2> QED BY <1>1, <1>2, SeqInduction
<1> QED BY <1>3 DEF P

\* A listing of a directory that lost a name keeps what is in both sets.
LEMMA KeptTwice ==
  ASSUME NEW X, NEW s \in Seq(X), NEW A, NEW B
  PROVE  Kept(Kept(s, A), B) = Kept(s, A \cap B)
<1> DEFINE T == {t \in Seq(X) : Kept(Kept(t, A), B) = Kept(t, A \cap B)}
<1>1. <<>> \in T
  BY KeptEmpty
<1>2. ASSUME NEW t \in Seq(X), NEW x \in X, t \in T PROVE Append(t, x) \in T
  <2>1. PICK u : u = Kept(t, A) /\ u \in Seq(X)
    <3>1. Kept(t, A) \in Seq(X \cap A)
      BY KeptTyped
    <3> QED BY <3>1, SeqMonotonic
  <2>2. PICK v : v = Append(t, x)
    OBVIOUS
  <2>3. Kept(v, A) = IF x \in A THEN Append(u, x) ELSE u
    BY <2>1, <2>2, KeptAppend
  <2>4. Kept(Append(u, x), B) = IF x \in B THEN Append(Kept(u, B), x) ELSE Kept(u, B)
    BY <2>1, KeptAppend
  <2>5. Kept(v, A \cap B) = IF x \in A \cap B THEN Append(Kept(t, A \cap B), x) ELSE Kept(t, A \cap B)
    BY <2>2, KeptAppend
  <2>6. Kept(u, B) = Kept(t, A \cap B)
    BY <1>2, <2>1
  <2>7. Kept(Kept(v, A), B) = Kept(v, A \cap B)
    <3>1. PICK C : C = A \cap B
      OBVIOUS
    <3>2. CASE x \in A
      <4>1. x \in C <=> x \in B
        BY <3>1, <3>2
      <4>2. Kept(v, C) = IF x \in C THEN Append(Kept(t, C), x) ELSE Kept(t, C)
        BY <2>5, <3>1
      <4>3. Kept(v, A) = Append(u, x)
        BY <2>3, <3>2
      <4> QED BY <2>4, <2>6, <3>1, <4>1, <4>2, <4>3
    <3>3. CASE x \notin A
      <4>1. x \notin C
        BY <3>1, <3>3
      <4>2. Kept(v, C) = Kept(t, C)
        BY <2>5, <3>1, <4>1
      <4>3. Kept(v, A) = u
        BY <2>3, <3>3
      <4> QED BY <2>6, <3>1, <4>2, <4>3
    <3> QED BY <3>2, <3>3
  <2>8. v \in Seq(X)
    BY <2>2
  <2> QED BY <2>2, <2>7, <2>8
<1>3. Seq(X) \subseteq T
  <2> HIDE DEF T
  <2> QED BY <1>1, <1>2, SeqInduction
<1> QED BY <1>3

\* Leaving out an element that does not occur changes nothing.
LEMMA KeptWithout ==
  ASSUME NEW X, NEW s \in Seq(X), NEW S, NEW y, y \notin Range(s)
  PROVE  Kept(s, S \ {y}) = Kept(s, S)
<1> DEFINE T == {t \in Seq(X) : y \notin Range(t) => Kept(t, S \ {y}) = Kept(t, S)}
<1>1. <<>> \in T
  BY KeptEmpty
<1>2. ASSUME NEW t \in Seq(X), NEW x \in X, t \in T PROVE Append(t, x) \in T
  <2> DEFINE v == Append(t, x)
  <2>1. v = Append(t, x) /\ v \in Seq(X)
    OBVIOUS
  <2> HIDE DEF v
  <2>2. SUFFICES ASSUME y \notin Range(v) PROVE Kept(v, S \ {y}) = Kept(v, S)
    BY <2>1
  <2>3. y # x /\ y \notin Range(t)
    BY <2>1, <2>2, AppendFacts
  <2>4. Kept(t, S \ {y}) = Kept(t, S)
    BY <1>2, <2>3
  <2>5. PICK u : u = Kept(t, S)
    OBVIOUS
  <2>6. /\ Kept(v, S) = IF x \in S THEN Append(u, x) ELSE u
        /\ Kept(v, S \ {y}) = IF x \in S \ {y} THEN Append(u, x) ELSE u
    BY <2>1, <2>4, <2>5, KeptAppend
  <2> QED BY <2>3, <2>6
<1>3. Seq(X) \subseteq T
  <2> HIDE DEF T
  <2> QED BY <1>1, <1>2, SeqInduction
<1> QED BY <1>3

\* Leaving out one of different elements loses at most one.
LEMMA KeptShorter ==
  ASSUME NEW X, NEW s \in Seq(X), IsInjective(s), NEW S, NEW y
  PROVE  Len(Kept(s, S)) <= Len(Kept(s, S \ {y})) + 1
<1> DEFINE P(t) == IsInjective(t) => Len(Kept(t, S)) <= Len(Kept(t, S \ {y})) + 1
           T == {t \in Seq(X) : P(t)}
<1>1. <<>> \in T
  BY KeptEmpty
<1>2. ASSUME NEW t \in Seq(X), NEW x \in X, t \in T PROVE Append(t, x) \in T
  <2> DEFINE v == Append(t, x)
  <2>1. v = Append(t, x) /\ v \in Seq(X)
    OBVIOUS
  <2> HIDE DEF v
  <2>2. SUFFICES ASSUME IsInjective(v) PROVE P(v)
    BY <2>1
  <2>3. IsInjective(t) /\ x \notin Range(t) /\ P(t)
    BY <1>2, <2>1, <2>2, AppendFacts
  <2>4. PICK a, b : a = Kept(t, S) /\ b = Kept(t, S \ {y})
    OBVIOUS
  <2>5. a \in Seq(X \cap S) /\ b \in Seq(X \cap (S \ {y}))
    BY <2>4, KeptTyped
  <2>6. a \in Seq(X) /\ b \in Seq(X)
    BY <2>5, SeqMonotonic
  <2>7. /\ Kept(v, S) = IF x \in S THEN Append(a, x) ELSE a
        /\ Kept(v, S \ {y}) = IF x \in S \ {y} THEN Append(b, x) ELSE b
    BY <2>1, <2>4, KeptAppend
  <2>8. Len(Append(a, x)) = Len(a) + 1 /\ Len(Append(b, x)) = Len(b) + 1
        /\ Len(a) \in Nat /\ Len(b) \in Nat
    BY <2>6
  <2>9. Len(a) <= Len(b) + 1
    BY <2>3, <2>4
  <2>10. CASE x = y
    <3>1. a = b
      BY <2>3, <2>4, <2>10, KeptWithout
    <3> QED BY <2>7, <2>8, <2>10, <3>1
  <2>11. CASE x # y
    <3> QED BY <2>7, <2>8, <2>9, <2>11
  <2> QED BY <2>10, <2>11
<1> HIDE DEF P
<1>3. Seq(X) \subseteq T
  <2> HIDE DEF T
  <2> QED BY <1>1, <1>2, SeqInduction
<1> QED BY <1>3 DEF P

-----------------------------------------------------------------------------
(***************************************************************************)
(* The pages of a guide are counted (guide_pages).                          *)
(***************************************************************************)
\* The texts.
Text == Seq(LineKinds)

\* The fences before a line
Fences(text, i) == {j \in 1 .. i - 1 : text[j] = "fence"}

\* A fence opens or closes a block, any other line does neither.
LEMMA FenceStep ==
  ASSUME NEW text, NEW i \in Nat
  PROVE  /\ ~Fenced(text, 0) /\ ~Fenced(text, 1)
         /\ i > 0 /\ text[i] = "fence" => (Fenced(text, i + 1) <=> ~Fenced(text, i))
         /\ i > 0 /\ text[i] # "fence" => (Fenced(text, i + 1) <=> Fenced(text, i))
<1>1. Fences(text, 0) = {} /\ Fences(text, 1) = {}
  BY DEF Fences
<1>2. \A k : Fenced(text, k) <=> Cardinality(Fences(text, k)) % 2 = 1
  BY DEF Fenced, Fences
<1>3. ~Fenced(text, 0) /\ ~Fenced(text, 1)
  <2>1. Cardinality(Fences(text, 0)) = 0 /\ Cardinality(Fences(text, 1)) = 0
    BY <1>1, FS_EmptySet
  <2> QED BY <1>2, <2>1
<1> SUFFICES ASSUME i > 0
             PROVE  /\ text[i] = "fence" => (Fenced(text, i + 1) <=> ~Fenced(text, i))
                    /\ text[i] # "fence" => (Fenced(text, i + 1) <=> Fenced(text, i))
  BY <1>3
<1>4. PICK a : a = Cardinality(Fences(text, i))
  OBVIOUS
<1>5. IsFiniteSet(Fences(text, i)) /\ i \notin Fences(text, i)
  <2>1. IsFiniteSet(1 .. i - 1) /\ Fences(text, i) \in SUBSET (1 .. i - 1)
    BY FS_Interval DEF Fences
  <2>2. IsFiniteSet(Fences(text, i))
    BY <2>1, FS_Subset
  <2> QED BY <2>2 DEF Fences
<1>6. a \in Nat
  BY <1>4, <1>5, FS_CardinalityType
<1>7. CASE text[i] = "fence"
  <2>1. Fences(text, i + 1) = Fences(text, i) \cup {i}
    BY <1>7 DEF Fences
  <2>2. Cardinality(Fences(text, i + 1)) = a + 1
    BY <1>4, <1>5, <2>1, FS_AddElement
  <2>3. (a + 1) % 2 = 1 <=> ~(a % 2 = 1)
    BY <1>6
  <2> QED BY <1>2, <1>4, <1>7, <2>2, <2>3
<1>8. CASE text[i] # "fence"
  <2>1. Fences(text, i + 1) = Fences(text, i)
    BY <1>8 DEF Fences
  <2> QED BY <1>2, <1>8, <2>1
<1> QED BY <1>7, <1>8

\* What the definition of the sections says of one line.
LEMMA LineFacts ==
  ASSUME NEW text \in Text, NEW i \in 1 .. Len(text)
  PROVE  /\ i \in Lines(text) <=>
              i >= FirstLine(text) /\ ~(text[i] = "rule" /\ ~Fenced(text, i))
         /\ text[i] \in LineKinds
<1>1. Len(text) \in Nat /\ text # <<>> /\ text[i] \in LineKinds
  BY DEF Text
<1>2. i >= FirstLine(text) <=> ~(i = 1 /\ text[i] = "title")
  BY <1>1 DEF FirstLine, HasTitle
<1> QED BY <1>1, <1>2 DEF Lines, Breaks

\* The title is not a line of a section and opens no block.
LEMMA EarlyFacts ==
  ASSUME NEW text \in Text, NEW i \in 0 .. Len(text), i < FirstLine(text)
  PROVE  i \notin Lines(text) /\ ~Fenced(text, i + 1)
<1>1. Len(text) \in Nat
  BY DEF Text
<1>2. CASE i = 0
  BY <1>1, <1>2, FenceStep DEF Lines
<1>3. CASE i # 0
  <2>1. i = 1 /\ text[1] = "title"
    BY <1>1, <1>3 DEF FirstLine, HasTitle
  <2>2. 1 \in Nat /\ text[1] # "fence"
    BY <2>1
  <2>3. ~Fenced(text, 1 + 1)
    BY <2>2, FenceStep
  <2>4. i \notin Lines(text)
    BY <2>1 DEF Lines
  <2> QED BY <2>1, <2>3, <2>4
<1> QED BY <1>2, <1>3

-----------------------------------------------------------------------------
\* The heads up to a line.
HeadsTo(text, i) == {h \in Heads(text) : h <= i}

\* The heads up to a line, and up to the line before.
LEMMA HeadStep ==
  ASSUME NEW text \in Text, NEW i \in 1 .. Len(text)
  PROVE  HeadsTo(text, i) = IF i \in Lines(text) /\ i - 1 \notin Lines(text)
                            THEN HeadsTo(text, i - 1) \cup {i} ELSE HeadsTo(text, i - 1)
<1>1. Len(text) \in Nat /\ Lines(text) \subseteq 1 .. Len(text)
  BY DEF Text, Lines
<1>2. \A h \in Heads(text) : h \in Nat /\ (h <= i <=> h <= i - 1 \/ h = i)
  BY <1>1 DEF Heads
<1>3. i \in Heads(text) <=> i \in Lines(text) /\ i - 1 \notin Lines(text)
  BY DEF Heads
<1> QED BY <1>2, <1>3 DEF HeadsTo

\* There are finitely many heads; up to the last line they are all.
LEMMA HeadsFinite ==
  ASSUME NEW text \in Text
  PROVE  /\ IsFiniteSet(Heads(text)) /\ Cardinality(Heads(text)) \in Nat
         /\ \A i \in Nat : /\ IsFiniteSet(HeadsTo(text, i)) /\ Cardinality(HeadsTo(text, i)) \in Nat
                           /\ i >= Len(text) => HeadsTo(text, i) = Heads(text)
         /\ Cardinality(HeadsTo(text, 0)) = 0
<1>1. Len(text) \in Nat /\ Heads(text) \subseteq 1 .. Len(text)
  BY DEF Text, Lines, Heads
<1>2. IsFiniteSet(Heads(text)) /\ Cardinality(Heads(text)) \in Nat
  <2>1. IsFiniteSet(1 .. Len(text))
    BY <1>1, FS_Interval
  <2>2. IsFiniteSet(Heads(text))
    BY <1>1, <2>1, FS_Subset
  <2> QED BY <2>2, FS_CardinalityType
<1>3. ASSUME NEW i \in Nat
      PROVE  /\ IsFiniteSet(HeadsTo(text, i)) /\ Cardinality(HeadsTo(text, i)) \in Nat
             /\ i >= Len(text) => HeadsTo(text, i) = Heads(text)
  <2>1. HeadsTo(text, i) \in SUBSET Heads(text)
    BY DEF HeadsTo
  <2>2. IsFiniteSet(HeadsTo(text, i))
    BY <1>2, <2>1, FS_Subset
  <2>3. Cardinality(HeadsTo(text, i)) \in Nat
    BY <2>2, FS_CardinalityType
  <2>4. i >= Len(text) => HeadsTo(text, i) = Heads(text)
    BY <1>1 DEF HeadsTo
  <2> QED BY <2>2, <2>3, <2>4
<1>4. HeadsTo(text, 0) = {}
  BY <1>1 DEF HeadsTo
<1> QED BY <1>2, <1>3, <1>4, FS_EmptySet

\* The sections that begin up to line i: one more at a head.
HeadCount(text, i) == Cardinality(HeadsTo(text, i))

\* The number of heads grows by one at a head.
LEMMA HeadCountStep ==
  ASSUME NEW text \in Text, NEW i \in 1 .. Len(text)
  PROVE  /\ HeadCount(text, i) \in Nat /\ HeadCount(text, i - 1) \in Nat
         /\ i \in Lines(text) /\ i - 1 \notin Lines(text) =>
              HeadCount(text, i) = HeadCount(text, i - 1) + 1
         /\ ~(i \in Lines(text) /\ i - 1 \notin Lines(text)) =>
              HeadCount(text, i) = HeadCount(text, i - 1)
<1>1. i \in Nat /\ i - 1 \in Nat
  BY DEF Text
<1>2. HeadCount(text, i) \in Nat /\ HeadCount(text, i - 1) \in Nat
      /\ IsFiniteSet(HeadsTo(text, i - 1)) /\ i \notin HeadsTo(text, i - 1)
  <2>1. i \notin HeadsTo(text, i - 1)
    BY <1>1 DEF HeadsTo
  <2> QED BY <1>1, <2>1, HeadsFinite DEF HeadCount
<1>3. Cardinality(HeadsTo(text, i - 1) \cup {i}) = HeadCount(text, i - 1) + 1
  BY <1>2, FS_AddElement DEF HeadCount
<1> QED BY <1>2, <1>3, HeadStep DEF HeadCount

\* A line of a section has a head, and it begins the section counted last.
HeadOf(text, i, h) ==
  /\ h \in Heads(text) /\ h <= i /\ h .. i \subseteq Lines(text)
  /\ HeadCount(text, i) = HeadCount(text, h - 1) + 1

\* A line of a section has a last head before it, of its own section.
LEMMA LastHead ==
  ASSUME NEW text \in Text, NEW i \in Lines(text)
  PROVE  \E h : HeadOf(text, i, h)
<1> DEFINE n == Len(text)
           P(k) == k \in Lines(text) => \E h : HeadOf(text, k, h)
           T == {k \in 0 .. n : P(k)}
<1>1. n \in Nat /\ Lines(text) \subseteq 1 .. n
  BY DEF Text, Lines
<1>2. 0 \in T
  BY <1>1
<1>3. ASSUME NEW k \in 1 .. n, k - 1 \in T PROVE k \in T
  <2>1. SUFFICES ASSUME k \in Lines(text) PROVE \E h : HeadOf(text, k, h)
    BY <1>1
  <2>2. CASE k - 1 \in Lines(text)
    <3>1. PICK h : HeadOf(text, k - 1, h)
      BY <1>3, <2>2
    <3>2. HeadCount(text, k) = HeadCount(text, k - 1)
      BY <2>2, HeadCountStep
    <3>3. h \in Nat /\ h .. k = (h .. k - 1) \cup {k} /\ h <= k
      BY <1>1, <3>1 DEF HeadOf, Heads
    <3>4. HeadOf(text, k, h)
      BY <2>1, <3>1, <3>2, <3>3 DEF HeadOf
    <3> QED BY <3>4
  <2>3. CASE k - 1 \notin Lines(text)
    <3>1. HeadCount(text, k) = HeadCount(text, k - 1) + 1
      BY <2>1, <2>3, HeadCountStep
    <3>2. k .. k = {k} /\ k \in Heads(text) /\ k <= k
      BY <1>1, <2>1, <2>3 DEF Heads
    <3>3. HeadOf(text, k, k)
      BY <2>1, <3>1, <3>2 DEF HeadOf
    <3> QED BY <3>3
  <2> QED BY <2>2, <2>3
<1> HIDE DEF P
<1>4. 0 .. n \subseteq T
  <2> HIDE DEF T, n
  <2> QED BY <1>1, <1>2, <1>3, UpTo
<1> QED BY <1>1, <1>4 DEF P

-----------------------------------------------------------------------------
\* The sections that ended before or at line i.
EndedTo(text, i) == HeadCount(text, i) - (IF i \in Lines(text) THEN 1 ELSE 0)

\* guide_pages after line i.
CountAt(text, i) ==
  [pages |-> EndedTo(text, i), content |-> i \in Lines(text), fence |-> Fenced(text, i + 1)]

\* Before the first line the count of guide_pages has not begun.
LEMMA CountStarts ==
  ASSUME NEW text \in Text, NEW i \in 0 .. Len(text), i < FirstLine(text)
  PROVE  CountAt(text, i) = CountStart
<1>1. i \notin Lines(text) /\ ~Fenced(text, i + 1)
  BY EarlyFacts
<1>2. HeadCount(text, i) = 0
  <2>1. HeadCount(text, 0) = 0
    BY HeadsFinite DEF HeadCount
  <2>2. i = 0 \/ i = 1
    BY DEF FirstLine, Text
  <2>3. i = 1 => HeadCount(text, 1) = HeadCount(text, 1 - 1)
    BY <1>1, HeadCountStep
  <2> QED BY <2>1, <2>2, <2>3
<1>3. (i \in Lines(text)) = FALSE /\ Fenced(text, i + 1) = FALSE
  <2>1. (i \in Lines(text)) = FALSE
    BY <1>1
  <2>2. Fenced(text, i + 1) = FALSE
    BY <1>1 DEF Fenced
  <2> QED BY <2>1, <2>2
<1>4. EndedTo(text, i) = 0
  <2>1. EndedTo(text, i) = 0 - 0
    BY <1>1, <1>2, Zenon DEF EndedTo
  <2> QED BY <2>1
<1> QED BY <1>3, <1>4, Zenon DEF CountAt, CountStart

\* Every line takes the count of guide_pages one step on.
LEMMA CountSteps ==
  ASSUME NEW text \in Text, NEW i \in 1 .. Len(text), i >= FirstLine(text)
  PROVE  CountAt(text, i) = CountLine(text, CountAt(text, i - 1), i)
<1>1. PICK s : s = CountAt(text, i - 1)
  OBVIOUS
<1>2. i \in Nat /\ i > 0 /\ i - 1 + 1 = i
  BY DEF Text
<1>3. /\ s.pages = EndedTo(text, i - 1) /\ s.content = (i - 1 \in Lines(text))
      /\ s.fence = Fenced(text, i)
      /\ s = [pages |-> s.pages, content |-> s.content, fence |-> s.fence]
  BY <1>1, <1>2 DEF CountAt
<1>4. s.content \in BOOLEAN /\ s.fence \in BOOLEAN
  BY <1>3 DEF Fenced
<1>5. i \in Lines(text) <=> ~(text[i] = "rule" /\ ~Fenced(text, i))
  BY LineFacts
<1>6. CASE text[i] = "fence"
  <2>1. i \in Lines(text) /\ (Fenced(text, i + 1) <=> ~Fenced(text, i))
    BY <1>2, <1>5, <1>6, FenceStep
  <2>2. EndedTo(text, i) = EndedTo(text, i - 1)
    BY <2>1, HeadCountStep DEF EndedTo
  <2>3. CountLine(text, s, i) = [s EXCEPT !.fence = ~s.fence, !.content = TRUE]
    BY <1>6 DEF CountLine
  <2>4. CountAt(text, i) = [pages |-> s.pages, content |-> TRUE, fence |-> ~s.fence]
    <3>1. (i \in Lines(text)) = TRUE /\ Fenced(text, i + 1) = (~s.fence)
      BY <1>3, <2>1, Zenon DEF Fenced
    <3> QED BY <1>3, <2>2, <3>1, Zenon DEF CountAt
  <2> QED BY <1>1, <1>3, <2>3, <2>4
<1>7. CASE text[i] = "rule" /\ ~s.fence
  <2>1. i \notin Lines(text) /\ (Fenced(text, i + 1) <=> Fenced(text, i))
    BY <1>2, <1>3, <1>5, <1>7, FenceStep
  <2>2. EndedTo(text, i) = IF s.content THEN s.pages + 1 ELSE s.pages
    <3>1. CASE i - 1 \in Lines(text)
      <4>1. s.content = TRUE
        BY <1>3, <3>1, Zenon
      <4> QED BY <1>3, <2>1, <3>1, <4>1, HeadCountStep DEF EndedTo
    <3>2. CASE i - 1 \notin Lines(text)
      <4>1. ~s.content
        BY <1>3, <3>2, Zenon
      <4> QED BY <1>3, <2>1, <3>2, <4>1, HeadCountStep DEF EndedTo
    <3> QED BY <3>1, <3>2
  <2>3. CountLine(text, s, i) =
          [s EXCEPT !.pages = IF s.content THEN s.pages + 1 ELSE s.pages, !.content = FALSE]
    BY <1>7 DEF CountLine
  <2>4. CountAt(text, i) = [pages |-> EndedTo(text, i), content |-> FALSE, fence |-> s.fence]
    <3>1. (i \in Lines(text)) = FALSE /\ Fenced(text, i + 1) = s.fence
      <4>1. (i \in Lines(text)) = FALSE
        BY <2>1
      <4>2. Fenced(text, i + 1) = s.fence
        BY <1>3, <2>1, Zenon DEF Fenced
      <4> QED BY <4>1, <4>2
    <3> QED BY <3>1, Zenon DEF CountAt
  <2> QED BY <1>1, <1>3, <2>2, <2>3, <2>4
<1>8. CASE text[i] # "fence" /\ ~(text[i] = "rule" /\ ~s.fence)
  <2>1. i \in Lines(text) /\ (Fenced(text, i + 1) <=> Fenced(text, i))
    BY <1>2, <1>3, <1>5, <1>8, FenceStep
  <2>2. EndedTo(text, i) = EndedTo(text, i - 1)
    BY <2>1, HeadCountStep DEF EndedTo
  <2>3. CountLine(text, s, i) = [s EXCEPT !.content = TRUE]
    BY <1>8 DEF CountLine
  <2>4. CountAt(text, i) = [pages |-> s.pages, content |-> TRUE, fence |-> s.fence]
    <3>1. (i \in Lines(text)) = TRUE /\ Fenced(text, i + 1) = s.fence
      BY <1>3, <2>1, Zenon DEF Fenced
    <3> QED BY <1>3, <2>2, <3>1, Zenon DEF CountAt
  <2> QED BY <1>1, <1>3, <2>3, <2>4
<1> QED BY <1>6, <1>7, <1>8

\* So the pass of guide_pages computes CountAt.
LEMMA CountedRight ==
  ASSUME NEW text \in Text, NEW i \in 0 .. Len(text)
  PROVE  Counting(text)[i] = CountAt(text, i)
<1> DEFINE n == Len(text)
           Sol(f) == f = [k \in 0 .. Len(text) |->
                            IF k < FirstLine(text) THEN CountStart ELSE CountLine(text, f[k - 1], k)]
           g == [k \in 0 .. Len(text) |-> CountAt(text, k)]
           c == Counting(text)
<1>1. n \in Nat /\ FirstLine(text) \in {1, 2}
  BY DEF Text, FirstLine
<1>2. Sol(g)
  <2>1. ASSUME NEW k \in 0 .. Len(text)
        PROVE  CountAt(text, k) = IF k < FirstLine(text) THEN CountStart ELSE CountLine(text, g[k - 1], k)
    <3>1. CASE k < FirstLine(text)
      BY <3>1, CountStarts
    <3>2. CASE ~(k < FirstLine(text))
      <4>1. k \in 1 .. Len(text) /\ k >= FirstLine(text) /\ k - 1 \in 0 .. Len(text)
        BY <1>1, <3>2
      <4>2. g[k - 1] = CountAt(text, k - 1)
        BY <4>1
      <4> HIDE DEF g
      <4> QED BY <3>2, <4>1, <4>2, CountSteps
    <3> QED BY <3>1, <3>2
  <2> QED BY <2>1, Zenon
<1>3. Sol(c)
  <2>1. c = CHOOSE h : Sol(h)
    BY DEF Counting
  <2> HIDE DEF Sol, g, c
  <2> QED BY <1>2, <2>1, Zenon
<1> HIDE DEF g, c
<1>4. ASSUME NEW k \in 0 .. n
      PROVE  c[k] = IF k < FirstLine(text) THEN CountStart ELSE CountLine(text, c[k - 1], k)
  BY <1>3, Zenon
<1> DEFINE T == {k \in 0 .. n : c[k] = CountAt(text, k)}
<1>5. 0 \in T
  BY <1>1, <1>4, CountStarts
<1>6. ASSUME NEW k \in 1 .. n, k - 1 \in T PROVE k \in T
  <2>1. k \in 0 .. n /\ c[k - 1] = CountAt(text, k - 1)
    BY <1>6
  <2>2. CASE k < FirstLine(text)
    BY <1>4, <2>1, <2>2, CountStarts
  <2>3. CASE ~(k < FirstLine(text))
    <3>1. k >= FirstLine(text)
      BY <1>1, <2>3
    <3> QED BY <1>4, <2>1, <2>3, <3>1, CountSteps
  <2> QED BY <2>2, <2>3
<1>7. 0 .. n \subseteq T
  <2> HIDE DEF T, n
  <2> QED BY <1>1, <1>5, <1>6, UpTo
<1> QED BY <1>7 DEF c

\* guide_pages counts the sections.
LEMMA PagesAreSections ==
  ASSUME NEW text \in Text
  PROVE  guide_pages(text) = Cardinality(Heads(text))
<1>1. Len(text) \in Nat /\ Len(text) \in 0 .. Len(text)
  BY DEF Text
<1>2. Counting(text)[Len(text)] = CountAt(text, Len(text))
  BY <1>1, CountedRight
<1>3. HeadCount(text, Len(text)) = Cardinality(Heads(text)) /\ Cardinality(Heads(text)) \in Nat
  BY <1>1, HeadsFinite DEF HeadCount
<1> DEFINE end == Counting(text)[Len(text)]
<1>4. end.pages = EndedTo(text, Len(text)) /\ end.content = (Len(text) \in Lines(text))
  BY <1>2 DEF CountAt
<1>5. guide_pages(text) = end.pages + (IF end.content THEN 1 ELSE 0)
  BY DEF guide_pages
<1> HIDE DEF end
<1>6. CASE Len(text) \in Lines(text)
  <2>1. end.content = TRUE
    BY <1>4, <1>6, Zenon
  <2> QED BY <1>3, <1>4, <1>5, <1>6, <2>1 DEF EndedTo
<1>7. CASE Len(text) \notin Lines(text)
  <2>1. ~end.content
    BY <1>4, <1>7, Zenon
  <2> QED BY <1>3, <1>4, <1>5, <1>7, <2>1 DEF EndedTo
<1> QED BY <1>6, <1>7

-----------------------------------------------------------------------------
(***************************************************************************)
(* The first line of a page is sought (guide_draw_page).                    *)
(***************************************************************************)
\* Line h begins the section of a page.
Begins(text, page, h) == h \in Heads(text) /\ HeadCount(text, h - 1) = page - 1

\* Where a section begins no block is open.
LEMMA HeadFacts ==
  ASSUME NEW text \in Text, NEW h \in Heads(text)
  PROVE  /\ h \in 1 .. Len(text) /\ h \in Lines(text) /\ h - 1 \notin Lines(text)
         /\ h >= FirstLine(text) /\ ~Fenced(text, h)
<1>1. h \in 1 .. Len(text) /\ h \in Lines(text) /\ h - 1 \notin Lines(text) /\ Len(text) \in Nat
  BY DEF Heads, Lines, Text
<1>2. h >= FirstLine(text)
  BY <1>1, LineFacts
<1>3. CASE h - 1 < FirstLine(text)
  <2>1. h - 1 \in 0 .. Len(text) /\ h - 1 + 1 = h
    BY <1>1
  <2>2. ~Fenced(text, h - 1 + 1)
    BY <1>3, <2>1, EarlyFacts
  <2> QED BY <1>1, <1>2, <2>1, <2>2
<1>4. CASE ~(h - 1 < FirstLine(text))
  <2>1. h - 1 \in 1 .. Len(text) /\ h - 1 >= FirstLine(text) /\ h - 1 + 1 = h /\ h - 1 \in Nat /\ h - 1 > 0
    BY <1>1, <1>4 DEF FirstLine
  <2>2. text[h - 1] = "rule" /\ ~Fenced(text, h - 1)
    BY <1>1, <2>1, LineFacts
  <2>3. text[h - 1] # "fence"
    BY <2>2
  <2>4. Fenced(text, h - 1 + 1) <=> Fenced(text, h - 1)
    BY <2>1, <2>3, FenceStep
  <2> QED BY <1>1, <1>2, <2>1, <2>2, <2>4
<1> QED BY <1>3, <1>4

\* No two lines begin the section of one page.
LEMMA OneBegin ==
  ASSUME NEW text \in Text, NEW page, NEW g, NEW h, Begins(text, page, g), Begins(text, page, h)
  PROVE  g = h
<1>1. ASSUME NEW a \in Heads(text), NEW b \in Heads(text), a < b
      PROVE  HeadCount(text, a - 1) # HeadCount(text, b - 1)
  <2>1. a \in 1 .. Len(text) /\ b \in 1 .. Len(text) /\ Len(text) \in Nat
    BY HeadFacts DEF Text
  <2>2. HeadCount(text, a) = HeadCount(text, a - 1) + 1 /\ HeadCount(text, a - 1) \in Nat
    BY <2>1, HeadFacts, HeadCountStep
  <2>3. HeadsTo(text, a) \in SUBSET HeadsTo(text, b - 1) /\ b - 1 \in Nat
    <3>1. \A c \in Heads(text) : c \in Nat
      BY <2>1, HeadFacts
    <3>2. \A c \in Heads(text) : c <= a => c <= b - 1
      BY <1>1, <2>1, <3>1
    <3>3. HeadsTo(text, a) \subseteq HeadsTo(text, b - 1)
      BY <3>2 DEF HeadsTo
    <3> QED BY <2>1, <3>3
  <2>4. IsFiniteSet(HeadsTo(text, b - 1)) /\ HeadCount(text, b - 1) \in Nat
    BY <2>3, HeadsFinite DEF HeadCount
  <2>5. HeadCount(text, a) <= HeadCount(text, b - 1)
    BY <2>3, <2>4, FS_Subset DEF HeadCount
  <2> QED BY <2>2, <2>4, <2>5
<1>2. g \in Nat /\ h \in Nat
  BY HeadFacts DEF Begins, Text
<1> QED BY <1>1, <1>2 DEF Begins

-----------------------------------------------------------------------------
\* The first line of the page has been met up to line i.
Met(text, page, i) == \E h \in HeadsTo(text, i) : Begins(text, page, h)

\* The seek of guide_draw_page after line i.
SeekAt(text, page, i) ==
  IF Met(text, page, i)
  THEN [p |-> page, content |-> FALSE, fence |-> FALSE, pos |-> CHOOSE h : Begins(text, page, h)]
  ELSE [p |-> CountAt(text, i).pages + 1, content |-> CountAt(text, i).content,
        fence |-> CountAt(text, i).fence, pos |-> 0]

\* Once the page was met the seek stands at its head.
LEMMA MetIs ==
  ASSUME NEW text \in Text, NEW page, NEW i, NEW h \in HeadsTo(text, i), Begins(text, page, h)
  PROVE  SeekAt(text, page, i) = [p |-> page, content |-> FALSE, fence |-> FALSE, pos |-> h]
<1>1. PICK g : g = CHOOSE x : Begins(text, page, x)
  OBVIOUS
<1>2. Begins(text, page, g)
  BY <1>1, Zenon
<1>3. g = h
  BY <1>2, OneBegin
<1> QED BY <1>1, <1>3, Zenon DEF SeekAt, Met

\* Before the first line the seek has not begun.
LEMMA SeekStarts ==
  ASSUME NEW text \in Text, NEW page, NEW i \in 0 .. Len(text), i < FirstLine(text)
  PROVE  SeekAt(text, page, i) = SeekStart
<1>1. CountAt(text, i) = CountStart
  BY CountStarts
<1>2. ~Met(text, page, i)
  <2>1. \A h \in HeadsTo(text, i) : h \in Nat /\ h <= i /\ h >= FirstLine(text)
    BY HeadFacts DEF HeadsTo, Text
  <2>2. i \in Nat /\ FirstLine(text) \in Nat
    BY DEF FirstLine, Text
  <2> QED BY <2>1, <2>2 DEF Met
<1>3. CountStart.pages + 1 = 1 /\ CountStart.content = FALSE /\ CountStart.fence = FALSE
  BY DEF CountStart
<1> QED BY <1>1, <1>2, <1>3, Zenon DEF SeekAt, SeekStart

\* A page is met at the line where its section begins.
LEMMA MetStep ==
  ASSUME NEW text \in Text, NEW page, NEW i \in 1 .. Len(text)
  PROVE  Met(text, page, i) <=> Met(text, page, i - 1) \/ Begins(text, page, i)
<1>1. HeadsTo(text, i) = IF i \in Lines(text) /\ i - 1 \notin Lines(text)
                         THEN HeadsTo(text, i - 1) \cup {i} ELSE HeadsTo(text, i - 1)
  BY HeadStep
<1>2. i \in Heads(text) <=> i \in Lines(text) /\ i - 1 \notin Lines(text)
  BY DEF Heads
<1> QED BY <1>1, <1>2 DEF Met, Begins

\* The line found is all that changes.
LEMMA SeekFound ==
  ASSUME NEW q, NEW b, NEW c, NEW d, NEW e, NEW s,
         s = [p |-> q, content |-> b, fence |-> c, pos |-> d]
  PROVE  [s EXCEPT !.pos = e] = [p |-> q, content |-> b, fence |-> c, pos |-> e]
OBVIOUS

\* Every line takes the seek of guide_draw_page one step on.
LEMMA SeekSteps ==
  ASSUME NEW text \in Text, NEW page \in Nat \ {0}, NEW i \in 1 .. Len(text), i >= FirstLine(text)
  PROVE  SeekAt(text, page, i) = SeekStep(text, SeekAt(text, page, i - 1), i, page)
<1>1. i \in Nat /\ i - 1 + 1 = i /\ i > 0 /\ Len(text) \in Nat
  BY DEF Text
<1>2. CASE Met(text, page, i - 1)
  <2>1. PICK h \in HeadsTo(text, i - 1) : Begins(text, page, h)
    BY <1>2 DEF Met
  <2>2. h \in HeadsTo(text, i) /\ h # 0
    <3>1. h \in Heads(text) /\ h <= i - 1
      BY <2>1 DEF HeadsTo
    <3>2. h \in 1 .. Len(text)
      BY <3>1, HeadFacts
    <3>3. h <= i /\ h # 0
      BY <1>1, <3>1, <3>2
    <3> QED BY <3>1, <3>3 DEF HeadsTo
  <2>3. PICK s : s = SeekAt(text, page, i)
    OBVIOUS
  <2>4. /\ s = [p |-> page, content |-> FALSE, fence |-> FALSE, pos |-> h]
        /\ s = SeekAt(text, page, i - 1)
    <3>1. SeekAt(text, page, i) = [p |-> page, content |-> FALSE, fence |-> FALSE, pos |-> h]
      BY <2>1, <2>2, MetIs
    <3>2. SeekAt(text, page, i - 1) = [p |-> page, content |-> FALSE, fence |-> FALSE, pos |-> h]
      BY <2>1, MetIs
    <3> QED BY <2>3, <3>1, <3>2
  <2>5. SeekStep(text, s, i, page) = s
    BY <2>2, <2>4 DEF SeekStep, SeekLine
  <2> QED BY <2>3, <2>4, <2>5
<1>3. CASE ~Met(text, page, i - 1)
  <2>1. PICK c : c = CountAt(text, i - 1)
    OBVIOUS
  <2>2. PICK s : s = SeekAt(text, page, i - 1)
    OBVIOUS
  <2>3. s = [p |-> c.pages + 1, content |-> c.content, fence |-> c.fence, pos |-> 0]
    BY <1>3, <2>1, <2>2, Zenon DEF SeekAt
  <2>4. /\ c.pages = EndedTo(text, i - 1) /\ c.content = (i - 1 \in Lines(text))
        /\ c.fence = Fenced(text, i) /\ c.content \in BOOLEAN /\ c.fence \in BOOLEAN
        /\ c = [pages |-> c.pages, content |-> c.content, fence |-> c.fence]
    BY <1>1, <2>1 DEF CountAt, Fenced
  <2>5. CountAt(text, i) = CountLine(text, c, i)
    BY <2>1, CountSteps
  <2>6. i \in Lines(text) <=> ~(text[i] = "rule" /\ ~Fenced(text, i))
    BY LineFacts
  <2>7. CASE text[i] = "rule" /\ ~c.fence
    <3>1. i \notin Lines(text)
      BY <2>4, <2>6, <2>7
    <3>2. ~Met(text, page, i)
      BY <1>3, <3>1, MetStep DEF Begins, Heads
    <3>3. PICK q : q = IF c.content THEN c.pages + 1 ELSE c.pages
      OBVIOUS
    <3>4. CountAt(text, i) = [pages |-> q, content |-> FALSE, fence |-> c.fence]
      BY <2>4, <2>5, <2>7, <3>3 DEF CountLine
    <3>5. SeekAt(text, page, i) = [p |-> q + 1, content |-> FALSE, fence |-> c.fence, pos |-> 0]
      BY <3>2, <3>4 DEF SeekAt
    <3>6. SeekStep(text, s, i, page) =
            [p |-> IF c.content THEN c.pages + 1 + 1 ELSE c.pages + 1,
             content |-> FALSE, fence |-> c.fence, pos |-> 0]
      BY <2>3, <2>7 DEF SeekStep, SeekLine
    <3>7. q + 1 = IF c.content THEN c.pages + 1 + 1 ELSE c.pages + 1
      BY <3>3
    <3> QED BY <2>2, <3>5, <3>6, <3>7
  <2>8. CASE ~(text[i] = "rule" /\ ~c.fence)
    <3>1. i \in Lines(text)
      BY <2>4, <2>6, <2>8
    <3>2. HeadCount(text, i - 1) \in Nat
      BY HeadCountStep
    <3>3. c.pages + 1 = page <=> Begins(text, page, i)
      <4>1. CASE i - 1 \in Lines(text)
        <5>1. PICK h : HeadOf(text, i - 1, h)
          BY <4>1, LastHead
        <5>2. h \in HeadsTo(text, i - 1) /\ ~Begins(text, page, h) /\ h \in 1 .. Len(text)
          BY <1>3, <5>1, HeadFacts DEF HeadOf, HeadsTo, Met
        <5>3. HeadCount(text, h - 1) \in Nat /\ HeadCount(text, h - 1) # page - 1
          BY <5>2, HeadCountStep DEF Begins, HeadsTo
        <5>4. c.pages = HeadCount(text, h - 1)
          BY <2>4, <4>1, <5>1, <5>3 DEF HeadOf, EndedTo
        <5>5. ~Begins(text, page, i)
          BY <4>1 DEF Begins, Heads
        <5> QED BY <5>3, <5>4, <5>5
      <4>2. CASE i - 1 \notin Lines(text)
        <5>1. c.pages = HeadCount(text, i - 1)
          BY <2>4, <3>2, <4>2 DEF EndedTo
        <5>2. i \in Heads(text)
          BY <3>1, <4>2 DEF Heads
        <5> QED BY <3>2, <5>1, <5>2 DEF Begins
      <4> QED BY <4>1, <4>2
    <3>4. CASE c.pages + 1 = page
      <4>1. Begins(text, page, i) /\ i \in HeadsTo(text, i)
        BY <1>1, <3>3, <3>4 DEF Begins, HeadsTo
      <4>2. SeekAt(text, page, i) = [p |-> page, content |-> FALSE, fence |-> FALSE, pos |-> i]
        BY <4>1, MetIs
      <4>3. i - 1 \notin Lines(text) /\ ~Fenced(text, i)
        BY <4>1, HeadFacts DEF Begins
      <4>4. ~c.content /\ ~c.fence
        BY <2>4, <4>3, Zenon
      <4>5. c.content = FALSE /\ c.fence = FALSE
        BY <2>4, <4>4
      <4>6. SeekStep(text, s, i, page) = [s EXCEPT !.pos = i]
        BY <2>3, <2>8, <3>4 DEF SeekStep, SeekLine
      <4>7. s = [p |-> page, content |-> FALSE, fence |-> FALSE, pos |-> 0]
        BY <2>3, <3>4, <4>5, Zenon
      <4>8. [s EXCEPT !.pos = i] = [p |-> page, content |-> FALSE, fence |-> FALSE, pos |-> i]
        <5>1. PICK no : no = FALSE
          OBVIOUS
        <5>2. s = [p |-> page, content |-> no, fence |-> no, pos |-> 0]
          BY <4>7, <5>1, Zenon
        <5>3. [s EXCEPT !.pos = i] = [p |-> page, content |-> no, fence |-> no, pos |-> i]
          BY <5>2, SeekFound
        <5> QED BY <5>1, <5>3, Zenon
      <4> QED BY <2>2, <4>2, <4>6, <4>8
    <3>5. CASE c.pages + 1 # page
      <4>1. ~Met(text, page, i)
        BY <1>3, <3>3, <3>5, MetStep
      <4>2. PICK fen : fen = IF text[i] = "fence" THEN ~c.fence ELSE c.fence
        OBVIOUS
      <4>3. CountAt(text, i) = [pages |-> c.pages, content |-> TRUE, fence |-> fen]
        BY <2>4, <2>5, <2>8, <4>2 DEF CountLine
      <4>4. SeekAt(text, page, i) = [p |-> c.pages + 1, content |-> TRUE, fence |-> fen, pos |-> 0]
        BY <4>1, <4>3 DEF SeekAt
      <4>5. SeekStep(text, s, i, page) =
              [s EXCEPT !.content = TRUE, !.fence = IF text[i] = "fence" THEN ~s.fence ELSE s.fence]
        BY <2>3, <2>8, <3>5 DEF SeekStep, SeekLine
      <4>6. s.fence = c.fence
        BY <2>3
      <4>7. SeekStep(text, s, i, page) = [s EXCEPT !.content = TRUE, !.fence = fen]
        BY <4>2, <4>5, <4>6, Zenon
      <4>8. [s EXCEPT !.content = TRUE, !.fence = fen] =
              [p |-> c.pages + 1, content |-> TRUE, fence |-> fen, pos |-> 0]
        <5>1. PICK yes : yes = TRUE
          OBVIOUS
        <5>2. [s EXCEPT !.content = yes, !.fence = fen] =
                [p |-> c.pages + 1, content |-> yes, fence |-> fen, pos |-> 0]
          <6>1. PICK q : q = c.pages + 1
            OBVIOUS
          <6>2. PICK u, v, z : u = c.content /\ v = c.fence /\ z = 0
            OBVIOUS
          <6>3. s = [p |-> q, content |-> u, fence |-> v, pos |-> z]
            BY <2>3, <6>1, <6>2, Zenon
          <6>4. [s EXCEPT !.content = yes, !.fence = fen] = [p |-> q, content |-> yes, fence |-> fen, pos |-> z]
            <7>1. PICK t : t = [s EXCEPT !.content = yes]
              OBVIOUS
            <7>2. t = [p |-> q, content |-> yes, fence |-> v, pos |-> z]
              BY <6>3, <7>1
            <7>3. [t EXCEPT !.fence = fen] = [p |-> q, content |-> yes, fence |-> fen, pos |-> z]
              BY <7>2
            <7>4. [s EXCEPT !.content = yes, !.fence = fen] = [t EXCEPT !.fence = fen]
              BY <6>3, <7>1
            <7> QED BY <7>3, <7>4
          <6> QED BY <6>1, <6>2, <6>4, Zenon
        <5> QED BY <5>1, <5>2, Zenon
      <4> QED BY <2>2, <4>4, <4>7, <4>8
    <3> QED BY <3>4, <3>5
  <2> QED BY <2>7, <2>8
<1> QED BY <1>2, <1>3

\* So the seek of guide_draw_page computes SeekAt.
LEMMA SoughtRight ==
  ASSUME NEW text \in Text, NEW page \in Nat \ {0}, NEW i \in 0 .. Len(text)
  PROVE  Seeking(text, page)[i] = SeekAt(text, page, i)
<1> DEFINE n == Len(text)
           Sol(f) == f = [k \in 0 .. Len(text) |->
                            IF k < FirstLine(text) THEN SeekStart ELSE SeekStep(text, f[k - 1], k, page)]
           g == [k \in 0 .. Len(text) |-> SeekAt(text, page, k)]
           c == Seeking(text, page)
<1>1. n \in Nat /\ FirstLine(text) \in {1, 2}
  BY DEF Text, FirstLine
<1>2. Sol(g)
  <2>1. ASSUME NEW k \in 0 .. Len(text)
        PROVE  SeekAt(text, page, k) =
                 IF k < FirstLine(text) THEN SeekStart ELSE SeekStep(text, g[k - 1], k, page)
    <3>1. CASE k < FirstLine(text)
      BY <3>1, SeekStarts
    <3>2. CASE ~(k < FirstLine(text))
      <4>1. k \in 1 .. Len(text) /\ k >= FirstLine(text) /\ k - 1 \in 0 .. Len(text)
        BY <1>1, <3>2
      <4>2. g[k - 1] = SeekAt(text, page, k - 1)
        BY <4>1
      <4> HIDE DEF g
      <4> QED BY <3>2, <4>1, <4>2, SeekSteps
    <3> QED BY <3>1, <3>2
  <2> QED BY <2>1, Zenon
<1>3. Sol(c)
  <2>1. c = CHOOSE h : Sol(h)
    BY DEF Seeking
  <2> HIDE DEF Sol, g, c
  <2> QED BY <1>2, <2>1, Zenon
<1> HIDE DEF g, c
<1>4. ASSUME NEW k \in 0 .. n
      PROVE  c[k] = IF k < FirstLine(text) THEN SeekStart ELSE SeekStep(text, c[k - 1], k, page)
  BY <1>3, Zenon
<1> DEFINE T == {k \in 0 .. n : c[k] = SeekAt(text, page, k)}
<1>5. 0 \in T
  BY <1>1, <1>4, SeekStarts
<1>6. ASSUME NEW k \in 1 .. n, k - 1 \in T PROVE k \in T
  <2>1. k \in 0 .. n /\ c[k - 1] = SeekAt(text, page, k - 1)
    BY <1>6
  <2>2. CASE k < FirstLine(text)
    BY <1>4, <2>1, <2>2, SeekStarts
  <2>3. CASE ~(k < FirstLine(text))
    <3>1. k >= FirstLine(text)
      BY <1>1, <2>3
    <3> QED BY <1>4, <2>1, <2>3, <3>1, SeekSteps
  <2> QED BY <2>2, <2>3
<1>7. 0 .. n \subseteq T
  <2> HIDE DEF T, n
  <2> QED BY <1>1, <1>5, <1>6, UpTo
<1> QED BY <1>7 DEF c

\* Before the first line of a page is met, fewer sections have begun.
LEMMA UnmetCount ==
  ASSUME NEW text \in Text, NEW page \in Nat \ {0}, NEW i \in 0 .. Len(text), ~Met(text, page, i)
  PROVE  HeadCount(text, i) < page
<1> DEFINE n == Len(text)
           T == {k \in 0 .. n : ~Met(text, page, k) => HeadCount(text, k) < page}
<1>1. n \in Nat
  BY DEF Text
<1>2. 0 \in T
  BY <1>1, HeadsFinite DEF HeadCount
<1>3. ASSUME NEW k \in 1 .. n, k - 1 \in T PROVE k \in T
  <2>1. SUFFICES ASSUME ~Met(text, page, k) PROVE HeadCount(text, k) < page
    BY <1>1
  <2>2. ~Met(text, page, k - 1) /\ ~Begins(text, page, k)
    BY <2>1, MetStep
  <2>3. HeadCount(text, k - 1) < page /\ HeadCount(text, k - 1) \in Nat
    BY <1>3, <2>2, HeadCountStep
  <2>4. CASE k \in Lines(text) /\ k - 1 \notin Lines(text)
    <3>1. HeadCount(text, k) = HeadCount(text, k - 1) + 1
      BY <2>4, HeadCountStep
    <3>2. HeadCount(text, k - 1) # page - 1
      BY <2>2, <2>4 DEF Begins, Heads
    <3> QED BY <2>3, <3>1, <3>2
  <2>5. CASE ~(k \in Lines(text) /\ k - 1 \notin Lines(text))
    BY <2>3, <2>5, HeadCountStep
  <2> QED BY <2>4, <2>5
<1>4. 0 .. n \subseteq T
  <2> HIDE DEF T, n
  <2> QED BY <1>1, <1>2, <1>3, UpTo
<1> QED BY <1>4

\* guide_draw_page starts at the head of the page's section, when there is one.
LEMMA SeekFinds ==
  ASSUME NEW text \in Text, NEW page \in Nat \ {0}
  PROVE  /\ page <= Cardinality(Heads(text)) => Begins(text, page, SeekPage(text, page))
         /\ Heads(text) = {} => SeekPage(text, page) = Len(text) + 1
<1>1. Len(text) \in Nat /\ Len(text) \in 0 .. Len(text)
  BY DEF Text
<1>2. PICK s : s = Seeking(text, page)[Len(text)]
  OBVIOUS
<1>3. s = SeekAt(text, page, Len(text))
  BY <1>1, <1>2, SoughtRight
<1>4. HeadsTo(text, Len(text)) = Heads(text) /\ Cardinality(Heads(text)) \in Nat
  BY <1>1, HeadsFinite
<1>5. SeekPage(text, page) = IF s.pos # 0 THEN s.pos ELSE Len(text) + 1
  BY <1>2 DEF SeekPage
<1>6. CASE Met(text, page, Len(text))
  <2>1. PICK h \in HeadsTo(text, Len(text)) : Begins(text, page, h)
    BY <1>6 DEF Met
  <2>2. s = [p |-> page, content |-> FALSE, fence |-> FALSE, pos |-> h]
    BY <1>3, <2>1, MetIs
  <2>3. s.pos = h /\ h # 0 /\ h \in Heads(text)
    BY <2>1, <2>2, HeadFacts DEF HeadsTo
  <2> QED BY <1>5, <2>1, <2>3
<1>7. CASE ~Met(text, page, Len(text))
  <2>1. s.pos = 0
    BY <1>3, <1>7 DEF SeekAt
  <2>2. ASSUME page <= Cardinality(Heads(text)) PROVE FALSE
    <3>1. HeadCount(text, Len(text)) = Cardinality(Heads(text))
      BY <1>4 DEF HeadCount
    <3> QED BY <1>1, <1>4, <1>7, <2>2, <3>1, UnmetCount
  <2> QED BY <1>5, <2>1, <2>2
<1> QED BY <1>6, <1>7

-----------------------------------------------------------------------------
(***************************************************************************)
(* The lines of a page are drawn (guide_draw_page).                         *)
(***************************************************************************)
\* The states of the drawing.
Drawn == [done : BOOLEAN, fence : BOOLEAN, rows : Seq(Nat)]

\* A line drawn or passed over leaves a drawing.
LEMMA DrawTyped ==
  ASSUME NEW text, NEW s \in Drawn, NEW i \in Nat
  PROVE  DrawLine(text, s, i) \in Drawn
<1>1. s.done \in BOOLEAN /\ s.fence \in BOOLEAN /\ s.rows \in Seq(Nat)
  BY DEF Drawn
<1>2. Append(s.rows, i) \in Seq(Nat)
  BY <1>1
<1>3. PICK r : r = Append(s.rows, i)
  OBVIOUS
<1>4. [s EXCEPT !.rows = r] \in Drawn
  BY <1>2, <1>3 DEF Drawn
<1>5. [s EXCEPT !.done = TRUE] \in Drawn /\ [s EXCEPT !.fence = ~s.fence] \in Drawn
  BY <1>1 DEF Drawn
<1> QED BY <1>3, <1>4, <1>5 DEF DrawLine

\* The equations of the drawing.
DrawChain(text, pos, g) ==
  \A i \in 0 .. Len(text) :
    g[i] = IF i < pos THEN DrawStart ELSE DrawLine(text, g[i - 1], i)

\* The recursive function of the drawing satisfies its equations.
LEMMA DrawEquations ==
  ASSUME NEW text \in Text, NEW pos \in Nat \ {0}
  PROVE  DrawChain(text, pos, Drawing(text, pos))
<1> DEFINE n == Len(text)
           step == [i \in 1 .. n |-> [v \in Drawn |-> IF i < pos THEN DrawStart ELSE DrawLine(text, v, i)]]
           Sol(f) == f = [i \in 0 .. Len(text) |->
                            IF i < pos THEN DrawStart ELSE DrawLine(text, f[i - 1], i)]
<1>1. n \in Nat /\ DrawStart \in Drawn
  BY DEF Text, DrawStart, Drawn
<1>2. step \in [1 .. n -> [Drawn -> Drawn]]
  <2> SUFFICES ASSUME NEW i \in 1 .. n, NEW v \in Drawn
               PROVE  (IF i < pos THEN DrawStart ELSE DrawLine(text, v, i)) \in Drawn
    OBVIOUS
  <2> QED BY <1>1, DrawTyped
<1>3. PICK f : Iterates(n, Drawn, DrawStart, step, f)
  <2> HIDE DEF step, n
  <2> QED BY <1>1, <1>2, Recursion, Zenon
<1>4. f \in [0 .. n -> Drawn] /\ f[0] = DrawStart
  BY <1>3 DEF Iterates
<1>5. ASSUME NEW i \in 0 .. Len(text)
      PROVE  f[i] = IF i < pos THEN DrawStart ELSE DrawLine(text, f[i - 1], i)
  <2>1. CASE i = 0
    BY <1>4, <2>1
  <2>2. CASE i # 0
    <3>1. i \in 1 .. n /\ i - 1 \in 0 .. n
      BY <1>1, <2>2
    <3>2. f[i - 1] \in Drawn /\ f[i] = step[i][f[i - 1]]
      BY <1>3, <1>4, <3>1 DEF Iterates
    <3>3. PICK v \in Drawn : v = f[i - 1]
      BY <3>2
    <3>4. step[i][v] = IF i < pos THEN DrawStart ELSE DrawLine(text, v, i)
      BY <3>1
    <3> HIDE DEF step
    <3> QED BY <3>2, <3>3, <3>4
  <2> QED BY <2>1, <2>2
<1>6. Sol(f)
  <2> HIDE DEF step
  <2> QED BY <1>4, <1>5, Zenon
<1> DEFINE g == Drawing(text, pos)
<1>7. Sol(g)
  <2>1. g = CHOOSE h : Sol(h)
    BY DEF Drawing
  <2> HIDE DEF Sol, g
  <2> QED BY <1>6, <2>1, Zenon
<1> HIDE DEF g
<1>8. DrawChain(text, pos, g)
  <2> SUFFICES ASSUME NEW i \in 0 .. Len(text)
               PROVE  g[i] = IF i < pos THEN DrawStart ELSE DrawLine(text, g[i - 1], i)
    BY DEF DrawChain
  <2> QED BY <1>7, Zenon
<1> QED BY <1>8 DEF g

-----------------------------------------------------------------------------
\* The section that begins at h, its lines to be drawn, and those up to i.
Rows(text, h) == {i \in SectionOf(text, h) : text[i] # "fence"}
RowsTo(text, h, i) == {j \in Rows(text, h) : j <= i}
RowCount(text, h, i) == Cardinality(RowsTo(text, h, i))

\* The rows up to a line, and up to the line before.
LEMMA RowStep ==
  ASSUME NEW text \in Text, NEW h \in Heads(text), NEW i \in 1 .. Len(text)
  PROVE  /\ RowsTo(text, h, i) = IF i \in Rows(text, h) THEN RowsTo(text, h, i - 1) \cup {i}
                                 ELSE RowsTo(text, h, i - 1)
         /\ RowCount(text, h, i) \in Nat /\ RowCount(text, h, i - 1) \in Nat
         /\ RowCount(text, h, i) = IF i \in Rows(text, h) THEN RowCount(text, h, i - 1) + 1
                                   ELSE RowCount(text, h, i - 1)
<1>1. Len(text) \in Nat /\ Rows(text, h) \subseteq 1 .. Len(text)
  BY DEF Text, Rows, SectionOf, Lines
<1>2. RowsTo(text, h, i) = IF i \in Rows(text, h) THEN RowsTo(text, h, i - 1) \cup {i}
                           ELSE RowsTo(text, h, i - 1)
  <2>1. \A j \in Rows(text, h) : j <= i <=> j <= i - 1 \/ j = i
    BY <1>1
  <2> QED BY <2>1 DEF RowsTo
<1>3. IsFiniteSet(1 .. Len(text))
  BY <1>1, FS_Interval
<1>4. RowsTo(text, h, i) \in SUBSET (1 .. Len(text)) /\ RowsTo(text, h, i - 1) \in SUBSET (1 .. Len(text))
  BY <1>1 DEF RowsTo
<1>5. IsFiniteSet(RowsTo(text, h, i)) /\ IsFiniteSet(RowsTo(text, h, i - 1))
  BY <1>3, <1>4, FS_Subset
<1>6. RowCount(text, h, i) \in Nat /\ RowCount(text, h, i - 1) \in Nat
  BY <1>5, FS_CardinalityType DEF RowCount
<1>7. i \notin RowsTo(text, h, i - 1)
  BY <1>1 DEF RowsTo
<1>8. Cardinality(RowsTo(text, h, i - 1) \cup {i}) = RowCount(text, h, i - 1) + 1
  BY <1>5, <1>7, FS_AddElement DEF RowCount
<1> QED BY <1>2, <1>6, <1>8 DEF RowCount

\* What has been drawn after line i of a page that begins at h.
DrawnTo(text, h, i, s) ==
  /\ s \in Drawn
  /\ Range(s.rows) = {j \in RowsTo(text, h, i) : RowCount(text, h, j - 1) < GUIDE_ROWS}
  /\ \A a, b \in DOMAIN s.rows : a < b => s.rows[a] < s.rows[b]
  /\ Len(s.rows) = IF RowCount(text, h, i) < GUIDE_ROWS THEN RowCount(text, h, i) ELSE GUIDE_ROWS
  /\ Len(s.rows) < GUIDE_ROWS =>
       IF s.done THEN \E j \in h .. i : j \notin Lines(text)
       ELSE h .. i \subseteq Lines(text) /\ (s.fence <=> Fenced(text, i + 1))

\* At the head of its section a page is empty and no block is open.
LEMMA DrawBegins ==
  ASSUME NEW text \in Text, NEW h \in Heads(text)
  PROVE  DrawnTo(text, h, h - 1, DrawStart)
<1>1. h \in 1 .. Len(text) /\ ~Fenced(text, h) /\ Len(text) \in Nat
  BY HeadFacts DEF Text
<1>2. RowsTo(text, h, h - 1) = {}
  <2>1. \A j \in Rows(text, h) : j \in Nat /\ j >= h
    BY <1>1 DEF Rows, SectionOf, Lines
  <2> QED BY <1>1, <2>1 DEF RowsTo
<1>3. RowCount(text, h, h - 1) = 0
  BY <1>2, FS_EmptySet DEF RowCount
<1>4. DrawStart \in Drawn /\ DrawStart.rows = <<>> /\ DrawStart.done = FALSE /\ DrawStart.fence = FALSE
  BY DEF DrawStart, Drawn
<1>5. h .. h - 1 = {} /\ h - 1 + 1 = h
  BY <1>1
<1>6. Range(<<>>) = {} /\ DOMAIN <<>> = {} /\ Len(<<>>) = 0
  BY EmptyFacts
<1>7. GUIDE_ROWS \in Nat /\ GUIDE_ROWS > 0
  BY GuideConstants
<1> QED BY <1>1, <1>2, <1>3, <1>4, <1>5, <1>6, <1>7 DEF DrawnTo

\* The rows that fit on the screen.
Fitting(text, h, i) == {j \in RowsTo(text, h, i) : RowCount(text, h, j - 1) < GUIDE_ROWS}

\* A row fits when fewer rows than the screen has are before it.
LEMMA FitStep ==
  ASSUME NEW text \in Text, NEW h \in Heads(text), NEW i \in 1 .. Len(text)
  PROVE  /\ i \in Rows(text, h) /\ RowCount(text, h, i - 1) < GUIDE_ROWS =>
              Fitting(text, h, i) = Fitting(text, h, i - 1) \cup {i}
         /\ ~(i \in Rows(text, h) /\ RowCount(text, h, i - 1) < GUIDE_ROWS) =>
              Fitting(text, h, i) = Fitting(text, h, i - 1)
<1>1. CASE i \in Rows(text, h)
  <2>1. RowsTo(text, h, i) = RowsTo(text, h, i - 1) \cup {i}
    BY <1>1, RowStep
  <2> QED BY <1>1, <2>1 DEF Fitting
<1>2. CASE i \notin Rows(text, h)
  <2>1. RowsTo(text, h, i) = RowsTo(text, h, i - 1)
    BY <1>2, RowStep
  <2> QED BY <1>2, <2>1 DEF Fitting
<1> QED BY <1>1, <1>2

\* The section goes on up to a rule that is outside of a block.
LEMMA SectionStep ==
  ASSUME NEW text \in Text, NEW h \in Heads(text), NEW i \in 1 .. Len(text), i >= h
  PROVE  /\ i \in Rows(text, h) <=> h .. i - 1 \subseteq Lines(text) /\ i \in Lines(text) /\ text[i] # "fence"
         /\ i \in Lines(text) <=> ~(text[i] = "rule" /\ ~Fenced(text, i))
<1>1. h \in 1 .. Len(text) /\ h >= FirstLine(text) /\ Len(text) \in Nat /\ FirstLine(text) \in Nat
  BY HeadFacts DEF Text, FirstLine
<1>2. \A j \in h .. i : j \in h .. i - 1 \/ j = i
  BY <1>1
<1>3. \A j \in h .. i - 1 : j \in h .. i
  BY <1>1
<1>4. i \in h .. i /\ i >= FirstLine(text)
  BY <1>1
<1>5. i \in Lines(text) <=> ~(text[i] = "rule" /\ ~Fenced(text, i))
  BY <1>4, LineFacts
<1>6. i \in SectionOf(text, h) <=> i \in Lines(text) /\ \A j \in h .. i : j \in Lines(text)
  BY DEF SectionOf
<1>7. (\A j \in h .. i : j \in Lines(text)) <=> h .. i - 1 \subseteq Lines(text) /\ i \in Lines(text)
  BY <1>2, <1>3, <1>4
<1> QED BY <1>5, <1>6, <1>7 DEF Rows

\* The rows stay in order when a later line is added.
LEMMA OrderedAppend ==
  ASSUME NEW s \in Seq(Nat), NEW i \in Nat, \A x \in Range(s) : x < i,
         \A a, b \in DOMAIN s : a < b => s[a] < s[b],
         NEW t, t = Append(s, i)
  PROVE  \A a, b \in DOMAIN t : a < b => t[a] < t[b]
<1>1. DOMAIN s = 1 .. Len(s) /\ DOMAIN t = 1 .. Len(s) + 1 /\ Len(s) \in Nat
  OBVIOUS
<1>2. \A a \in 1 .. Len(s) : t[a] = s[a] /\ s[a] \in Range(s)
  BY <1>1 DEF Range
<1>3. t[Len(s) + 1] = i
  OBVIOUS
<1> QED BY <1>1, <1>2, <1>3

\* Every line takes the drawing of the page one step on.
LEMMA DrawSteps ==
  ASSUME NEW text \in Text, NEW h \in Heads(text), NEW i \in 1 .. Len(text), i >= h,
         NEW s, DrawnTo(text, h, i - 1, s)
  PROVE  DrawnTo(text, h, i, DrawLine(text, s, i))
<1>1. h \in Nat /\ i \in Nat /\ i - 1 + 1 = i /\ i > 0 /\ GUIDE_ROWS \in Nat /\ h \in 1 .. Len(text)
  BY HeadFacts, GuideConstants DEF Text
<1>2. /\ s \in Drawn /\ s.done \in BOOLEAN /\ s.fence \in BOOLEAN /\ s.rows \in Seq(Nat)
      /\ Len(s.rows) \in Nat
  BY DEF DrawnTo, Drawn
<1>3. PICK c, d : c = RowCount(text, h, i - 1) /\ d = RowCount(text, h, i)
  OBVIOUS
<1>4. c \in Nat /\ d \in Nat /\ d = (IF i \in Rows(text, h) THEN c + 1 ELSE c)
  BY <1>3, RowStep
<1>5. Range(s.rows) = Fitting(text, h, i - 1)
  BY DEF DrawnTo, Fitting
<1>6. Len(s.rows) = IF c < GUIDE_ROWS THEN c ELSE GUIDE_ROWS
  BY <1>3 DEF DrawnTo
<1>7. \A a, b \in DOMAIN s.rows : a < b => s.rows[a] < s.rows[b]
  BY DEF DrawnTo
<1>8. Len(s.rows) < GUIDE_ROWS =>
        IF s.done THEN \E j \in h .. i - 1 : j \notin Lines(text)
        ELSE h .. i - 1 \subseteq Lines(text) /\ (s.fence <=> Fenced(text, i))
  BY <1>1 DEF DrawnTo
<1>9. /\ i \in Rows(text, h) <=> h .. i - 1 \subseteq Lines(text) /\ i \in Lines(text) /\ text[i] # "fence"
      /\ i \in Lines(text) <=> ~(text[i] = "rule" /\ ~Fenced(text, i))
  BY SectionStep
<1>10. h .. i = h .. (i - 1) \cup {i}
  BY <1>1
<1>11. ASSUME NEW t \in Drawn, t.rows = s.rows, i \notin Rows(text, h) \/ c >= GUIDE_ROWS,
              Len(t.rows) < GUIDE_ROWS =>
                IF t.done THEN \E j \in h .. i : j \notin Lines(text)
                ELSE h .. i \subseteq Lines(text) /\ (t.fence <=> Fenced(text, i + 1))
       PROVE  DrawnTo(text, h, i, t)
  <2>1. Range(t.rows) = Fitting(text, h, i)
    BY <1>1, <1>3, <1>4, <1>5, <1>11, FitStep
  <2>2. Len(t.rows) = IF d < GUIDE_ROWS THEN d ELSE GUIDE_ROWS
    BY <1>1, <1>4, <1>6, <1>11
  <2> QED BY <1>3, <1>7, <1>11, <2>1, <2>2 DEF DrawnTo, Fitting
<1>12. CASE Len(s.rows) >= GUIDE_ROWS
  <2>1. DrawLine(text, s, i) = s /\ c >= GUIDE_ROWS /\ ~(Len(s.rows) < GUIDE_ROWS)
    BY <1>1, <1>2, <1>4, <1>6, <1>12 DEF DrawLine
  <2> QED BY <1>2, <1>11, <2>1
<1>13. CASE Len(s.rows) < GUIDE_ROWS /\ s.done
  <2>1. DrawLine(text, s, i) = s
    BY <1>13 DEF DrawLine
  <2>2. PICK j \in h .. i - 1 : j \notin Lines(text)
    BY <1>8, <1>13
  <2>3. i \notin Rows(text, h) /\ j \in h .. i
    BY <1>9, <1>10, <2>2
  <2> QED BY <1>2, <1>11, <1>13, <2>1, <2>2, <2>3
<1>14. CASE Len(s.rows) < GUIDE_ROWS /\ ~s.done
  <2>1. h .. i - 1 \subseteq Lines(text) /\ (s.fence <=> Fenced(text, i))
    BY <1>8, <1>14
  <2>2. ~(s.done \/ Len(s.rows) >= GUIDE_ROWS) /\ c < GUIDE_ROWS
    BY <1>1, <1>2, <1>4, <1>6, <1>14
  <2>3. /\ text[i] = "fence" => (Fenced(text, i + 1) <=> ~Fenced(text, i))
        /\ text[i] # "fence" => (Fenced(text, i + 1) <=> Fenced(text, i))
    BY <1>1, FenceStep
  <2>4. CASE text[i] = "fence"
    <3>1. i \in Lines(text) /\ i \notin Rows(text, h) /\ h .. i \subseteq Lines(text)
      BY <1>9, <1>10, <2>1, <2>4
    <3>2. PICK t : t = DrawLine(text, s, i)
      OBVIOUS
    <3>3. t = [s EXCEPT !.fence = ~s.fence]
      BY <2>2, <2>4, <3>2 DEF DrawLine
    <3>4. t \in Drawn /\ t.rows = s.rows /\ t.done = s.done
      BY <1>2, <3>3 DEF Drawn
    <3>5. t.fence <=> ~s.fence
      BY <1>2, <3>3 DEF Drawn
    <3>6. DrawnTo(text, h, i, t)
      BY <1>11, <1>14, <2>1, <2>3, <2>4, <3>1, <3>4, <3>5
    <3> QED BY <3>2, <3>6
  <2>5. CASE text[i] # "fence" /\ text[i] = "rule" /\ ~s.fence
    <3>1. i \notin Lines(text) /\ i \notin Rows(text, h) /\ i \in h .. i
      BY <1>1, <1>9, <2>1, <2>5
    <3>2. PICK t : t = DrawLine(text, s, i)
      OBVIOUS
    <3>3. t = [s EXCEPT !.done = TRUE]
      BY <2>2, <2>5, <3>2 DEF DrawLine
    <3>4. t \in Drawn /\ t.rows = s.rows /\ t.done
      BY <1>2, <3>3 DEF Drawn
    <3>6. DrawnTo(text, h, i, t)
      BY <1>11, <3>1, <3>4
    <3> QED BY <3>2, <3>6
  <2>6. CASE text[i] # "fence" /\ ~(text[i] = "rule" /\ ~s.fence)
    <3>1. i \in Lines(text) /\ i \in Rows(text, h) /\ h .. i \subseteq Lines(text)
      BY <1>9, <1>10, <2>1, <2>6
    <3>2. PICK t : t = DrawLine(text, s, i)
      OBVIOUS
    <3>3. t = [s EXCEPT !.rows = Append(s.rows, i)]
      BY <2>2, <2>6, <3>2 DEF DrawLine
    <3>4. t \in Drawn /\ t.rows = Append(s.rows, i) /\ t.done = s.done /\ t.fence = s.fence
      <4>1. t \in Drawn
        BY <1>1, <1>2, <3>2, DrawTyped
      <4>2. PICK r : r = Append(s.rows, i)
        OBVIOUS
      <4>3. t = [s EXCEPT !.rows = r]
        BY <3>3, <4>2
      <4>4. t.rows = r /\ t.done = s.done /\ t.fence = s.fence
        BY <1>2, <4>3 DEF Drawn
      <4> QED BY <4>1, <4>2, <4>4
    <3>5. Range(t.rows) = Fitting(text, h, i) /\ Len(t.rows) = Len(s.rows) + 1
      <4>1. PICK r : r = s.rows /\ r \in Seq(Nat)
        BY <1>2
      <4>2. Range(Append(r, i)) = Range(r) \cup {i} /\ Len(Append(r, i)) = Len(r) + 1
        BY <1>1, <4>1, AppendFacts
      <4>3. Fitting(text, h, i) = Fitting(text, h, i - 1) \cup {i}
        BY <1>3, <2>2, <3>1, FitStep
      <4> QED BY <1>5, <3>4, <4>1, <4>2, <4>3
    <3>6. \A x \in Range(s.rows) : x < i
      <4>1. \A x \in RowsTo(text, h, i - 1) : x \in Nat /\ x <= i - 1
        BY DEF RowsTo, Rows, SectionOf, Lines
      <4> QED BY <1>1, <1>5, <4>1 DEF Fitting
    <3>7. \A a, b \in DOMAIN t.rows : a < b => t.rows[a] < t.rows[b]
      BY <1>1, <1>2, <1>7, <3>4, <3>6, OrderedAppend
    <3>8. Len(t.rows) = IF d < GUIDE_ROWS THEN d ELSE GUIDE_ROWS
      BY <1>1, <1>4, <1>6, <2>2, <3>1, <3>5
    <3>9. t.fence <=> Fenced(text, i + 1)
      BY <2>1, <2>3, <2>6, <3>4
    <3>10. DrawnTo(text, h, i, t)
      <4>1. ~t.done
        BY <1>14, <3>4
      <4> QED BY <1>3, <3>1, <3>4, <3>5, <3>7, <3>8, <3>9, <4>1 DEF DrawnTo, Fitting
    <3> QED BY <3>2, <3>10
  <2> QED BY <2>4, <2>5, <2>6
<1> QED BY <1>1, <1>2, <1>12, <1>13, <1>14

\* The whole pass.
LEMMA DrawnRight ==
  ASSUME NEW text \in Text, NEW h \in Heads(text)
  PROVE  DrawnTo(text, h, Len(text), Drawing(text, h)[Len(text)])
<1>1. h \in 1 .. Len(text) /\ h \in Nat \ {0} /\ Len(text) \in Nat
  BY HeadFacts DEF Text
<1>2. PICK g : g = Drawing(text, h)
  OBVIOUS
<1>3. DrawChain(text, h, g)
  BY <1>1, <1>2, DrawEquations
<1>4. \A i \in 0 .. Len(text) :
        g[i] = IF i < h THEN DrawStart ELSE DrawLine(text, g[i - 1], i)
  BY <1>3 DEF DrawChain
<1> DEFINE T == {i \in 0 .. Len(text) : i >= h - 1 => DrawnTo(text, h, i, g[i])}
<1>5. ASSUME NEW i \in 0 .. Len(text), i = h - 1 PROVE DrawnTo(text, h, i, g[i])
  <2>1. g[i] = DrawStart
    BY <1>1, <1>4, <1>5
  <2> QED BY <1>5, <2>1, DrawBegins
<1>6. 0 \in T
  BY <1>1, <1>5
<1>7. ASSUME NEW i \in 1 .. Len(text), i - 1 \in T PROVE i \in T
  <2> SUFFICES ASSUME i >= h - 1 PROVE DrawnTo(text, h, i, g[i])
    OBVIOUS
  <2>1. CASE i = h - 1
    BY <1>5, <2>1
  <2>2. CASE i >= h
    <3>1. g[i] = DrawLine(text, g[i - 1], i)
      BY <1>1, <1>4, <2>2
    <3>2. DrawnTo(text, h, i - 1, g[i - 1])
      BY <1>1, <1>7, <2>2
    <3> QED BY <2>2, <3>1, <3>2, DrawSteps
  <2> QED BY <1>1, <2>1, <2>2
<1>8. 0 .. Len(text) \subseteq T
  <2> HIDE DEF T
  <2> QED BY <1>1, <1>6, <1>7, UpTo
<1>9. Len(text) \in 0 .. Len(text) /\ Len(text) >= h - 1
  BY <1>1
<1> QED BY <1>2, <1>8, <1>9

\* Where every section is a page, page k is the section that begins at the k-th head.
LEMMA SectionBegins ==
  ASSUME NEW text \in Text, NEW page \in Nat \ {0}, NEW h, Begins(text, page, h),
         Pages(text) = Heads(text)
  PROVE  Section(text, page) = SectionOf(text, h)
<1>1. \A i \in Pages(text) : {j \in Pages(text) : j < i} = HeadsTo(text, i - 1)
  <2>1. \A j \in Heads(text) : j \in Nat
    BY HeadFacts
  <2> QED BY <2>1 DEF HeadsTo
<1> DEFINE Q(i) == Cardinality({j \in Pages(text) : j < i}) = page - 1
<1>2. \A i \in Pages(text) : Q(i) <=> Begins(text, page, i)
  BY <1>1 DEF Begins, HeadCount
<1>3. h \in Pages(text)
  BY DEF Begins
<1>4. PICK g : g = CHOOSE i \in Pages(text) : Q(i)
  OBVIOUS
<1>5. g \in Pages(text) /\ Q(g)
  <2> HIDE DEF Q
  <2> QED BY <1>2, <1>3, <1>4, Zenon
<1>6. g = h
  BY <1>2, <1>5, OneBegin
<1> QED BY <1>4, <1>6 DEF Section

\* guide_draw_page draws the lines of the section of the page.
LEMMA GuideCorrect ==
  ASSUME NEW text \in Text, NEW page \in Nat \ {0}, NEW rows, rows = guide_draw_page(text, page)
  PROVE  /\ Heads(text) = {} => rows = <<>>
         /\ page <= Cardinality(Heads(text)) /\ Pages(text) = Heads(text) =>
              /\ Range(rows) = Shows(text, page)
              /\ \A j, k \in DOMAIN rows : j < k => rows[j] < rows[k]
<1>1. Len(text) \in Nat /\ Len(text) \in 0 .. Len(text)
  BY DEF Text
<1>2. PICK pos : pos = SeekPage(text, page)
  OBVIOUS
<1>3. PICK s : s = Drawing(text, pos)[Len(text)]
  OBVIOUS
<1>4. rows = s.rows
  BY <1>2, <1>3 DEF guide_draw_page
<1>5. ASSUME Heads(text) = {} PROVE rows = <<>>
  <2>1. pos = Len(text) + 1
    BY <1>2, <1>5, SeekFinds
  <2>2. DrawChain(text, pos, Drawing(text, pos))
    BY <1>1, <2>1, DrawEquations
  <2>3. s = DrawStart
    BY <1>1, <1>3, <2>1, <2>2 DEF DrawChain
  <2> QED BY <1>4, <2>3 DEF DrawStart
<1>6. ASSUME page <= Cardinality(Heads(text)), Pages(text) = Heads(text)
      PROVE  /\ Range(rows) = Shows(text, page)
             /\ \A j, k \in DOMAIN rows : j < k => rows[j] < rows[k]
  <2>1. Begins(text, page, pos)
    BY <1>2, <1>6, SeekFinds
  <2>2. pos \in Heads(text)
    BY <2>1 DEF Begins
  <2>3. DrawnTo(text, pos, Len(text), s)
    BY <1>3, <2>2, DrawnRight
  <2>4. Section(text, page) = SectionOf(text, pos)
    BY <1>6, <2>1, SectionBegins
  <2>5. Rows(text, pos) \subseteq 1 .. Len(text)
    BY DEF Rows, SectionOf, Lines
  <2>6. RowsTo(text, pos, Len(text)) = Rows(text, pos)
    BY <1>1, <2>5 DEF RowsTo
  <2>7. \A i \in Rows(text, pos) : {j \in Rows(text, pos) : j < i} = RowsTo(text, pos, i - 1)
    BY <1>1, <2>5 DEF RowsTo
  <2>8. Shows(text, page) =
          {i \in Rows(text, pos) : Cardinality({j \in Rows(text, pos) : j < i}) < GUIDE_ROWS}
    BY <2>4 DEF Shows, Rows
  <2>9. Shows(text, page) = {i \in Rows(text, pos) : RowCount(text, pos, i - 1) < GUIDE_ROWS}
    BY <2>7, <2>8 DEF RowCount
  <2> QED BY <1>4, <2>3, <2>6, <2>9 DEF DrawnTo
<1> QED BY <1>5, <1>6

-----------------------------------------------------------------------------
(***************************************************************************)
(* The card.                                                                *)
(***************************************************************************)
\* A name put into a directory, wherever FatFs puts it.
LEMMA Inserted ==
  ASSUME NEW X, NEW s \in Seq(X), NEW k \in 1 .. Len(s) + 1, NEW x \in X,
         NEW t, t = InsertAt(s, k, x)
  PROVE  /\ t \in Seq(X) /\ Range(t) = Range(s) \cup {x}
         /\ IsInjective(s) /\ x \notin Range(s) => IsInjective(t)
<1>1. PICK n : n = Len(s) /\ n \in Nat
  OBVIOUS
<1>2. PICK u : u = SubSeq(s, 1, k - 1)
  OBVIOUS
<1>3. PICK v : v = SubSeq(s, k, n)
  OBVIOUS
<1>4. u \in Seq(X) /\ Len(u) = k - 1 /\ \A i \in 1 .. k - 1 : u[i] = s[i]
  BY <1>1, <1>2
<1>5. v \in Seq(X) /\ Len(v) = n - k + 1 /\ \A i \in 1 .. n - k + 1 : v[i] = s[k + i - 1]
  BY <1>1, <1>3
<1>6. PICK w : w = u \o <<x>>
  OBVIOUS
<1>7. /\ w \in Seq(X) /\ Len(w) = k /\ \A i \in 1 .. k - 1 : w[i] = s[i]
      /\ w[k] = x
  BY <1>1, <1>4, <1>6
<1>8. t = w \o v
  BY <1>1, <1>2, <1>3, <1>6 DEF InsertAt
<1>9. /\ t \in Seq(X) /\ Len(t) = n + 1
      /\ \A i \in 1 .. n + 1 : t[i] = IF i <= k THEN w[i] ELSE v[i - k]
  <2>1. /\ w \o v \in Seq(X) /\ Len(w \o v) = Len(w) + Len(v)
        /\ \A i \in 1 .. Len(w) + Len(v) :
             (w \o v)[i] = IF i <= Len(w) THEN w[i] ELSE v[i - Len(w)]
    BY <1>5, <1>7, ConcatProperties
  <2>2. Len(w) + Len(v) = n + 1
    BY <1>1, <1>5, <1>7
  <2> QED BY <1>7, <1>8, <2>1, <2>2
<1>10. \A i \in 1 .. n + 1 : t[i] = IF i < k THEN s[i] ELSE IF i = k THEN x ELSE s[i - 1]
  <2> SUFFICES ASSUME NEW i \in 1 .. n + 1
               PROVE  t[i] = IF i < k THEN s[i] ELSE IF i = k THEN x ELSE s[i - 1]
    OBVIOUS
  <2>1. CASE i <= k
    BY <1>1, <1>7, <1>9, <2>1
  <2>2. CASE i > k
    <3>1. i - k \in 1 .. n - k + 1 /\ k + (i - k) - 1 = i - 1
      BY <1>1, <2>2
    <3> QED BY <1>1, <1>5, <1>9, <2>2, <3>1
  <2> QED BY <1>1, <2>1, <2>2
<1>11. DOMAIN s = 1 .. n /\ DOMAIN t = 1 .. n + 1
  BY <1>1, <1>9
<1>12. Range(t) = Range(s) \cup {x}
  <2>1. ASSUME NEW i \in 1 .. n + 1 PROVE t[i] \in Range(s) \cup {x}
    <3>1. i < k => i \in 1 .. n
      BY <1>1
    <3>2. i > k => i - 1 \in 1 .. n
      BY <1>1
    <3>3. \A j \in 1 .. n : s[j] \in Range(s)
      BY <1>11 DEF Range
    <3> QED BY <1>1, <1>10, <3>1, <3>2, <3>3
  <2>2. ASSUME NEW i \in 1 .. n PROVE \E j \in 1 .. n + 1 : t[j] = s[i]
    <3>1. CASE i < k
      BY <1>1, <1>10, <3>1
    <3>2. CASE i >= k
      <4>1. i + 1 \in 1 .. n + 1 /\ i + 1 > k /\ i + 1 - 1 = i
        BY <1>1, <3>2
      <4>2. t[i + 1] = s[i]
        BY <1>1, <1>10, <4>1
      <4> QED BY <4>1, <4>2
    <3> QED BY <1>1, <3>1, <3>2
  <2>3. k \in 1 .. n + 1 /\ t[k] = x
    BY <1>1, <1>10
  <2> QED BY <1>11, <2>1, <2>2, <2>3 DEF Range
<1>13. ASSUME IsInjective(s), x \notin Range(s) PROVE IsInjective(t)
  <2>1. \A j \in 1 .. n : s[j] # x
    BY <1>11, <1>13 DEF Range
  <2>2. \A i, j \in 1 .. n : s[i] = s[j] => i = j
    BY <1>11, <1>13 DEF IsInjective
  <2> SUFFICES ASSUME NEW i \in 1 .. n + 1, NEW j \in 1 .. n + 1, t[i] = t[j] PROVE i = j
    BY <1>11 DEF IsInjective
  <2>3. i < k => i \in 1 .. n
    BY <1>1
  <2>4. i > k => i - 1 \in 1 .. n
    BY <1>1
  <2>5. j < k => j \in 1 .. n
    BY <1>1
  <2>6. j > k => j - 1 \in 1 .. n
    BY <1>1
  <2> QED BY <1>1, <1>10, <2>1, <2>2, <2>3, <2>4, <2>5, <2>6
<1> QED BY <1>9, <1>12, <1>13

-----------------------------------------------------------------------------
\* An empty name in a path means the folder itself, any other an entry of it.
LEMMA Resolved ==
  ASSUME NEW d \in Paths
  PROVE  /\ Resolve(d) \in Seq(Names) /\ Resolve(<<>>) = <<>>
         /\ Append(d, "") \in Paths /\ Resolve(Append(d, "")) = Resolve(d)
         /\ \A n \in Names : Append(d, n) \in Paths /\ Resolve(Append(d, n)) = Append(Resolve(d), n)
<1>1. PICK X : X = Names \cup {""}
  OBVIOUS
<1>2. X \cap Names = Names /\ "" \in X /\ "" \notin Names /\ Names \subseteq X
  BY <1>1, BrowserConstants
<1>3. Paths = Seq(X)
  BY <1>1 DEF Paths
<1>4. Resolve(d) \in Seq(Names)
  <2>1. Kept(d, Names) \in Seq(X \cap Names)
    BY <1>3, KeptTyped
  <2> QED BY <1>2, <2>1 DEF Resolve
<1>5. Resolve(<<>>) = <<>>
  BY KeptEmpty DEF Resolve
<1>6. ASSUME NEW n \in X
      PROVE  /\ Append(d, n) \in Paths
             /\ Resolve(Append(d, n)) = IF n \in Names THEN Append(Resolve(d), n) ELSE Resolve(d)
  <2>1. Append(d, n) \in Seq(X)
    BY <1>3
  <2>2. Kept(Append(d, n), Names) = IF n \in Names THEN Append(Kept(d, Names), n) ELSE Kept(d, Names)
    BY <1>3, KeptAppend
  <2> QED BY <1>3, <2>1, <2>2 DEF Resolve
<1> QED BY <1>2, <1>4, <1>5, <1>6

\* The folder above one that exists exists: ".." leads somewhere.
LEMMA ParentFolder ==
  ASSUME NEW c, Tree(c), NEW d \in Paths, d # <<>>, Resolve(d) \in DOMAIN c
  PROVE  Front(d) \in Paths /\ Len(Front(d)) = Len(d) - 1 /\ Resolve(Front(d)) \in DOMAIN c
<1>1. PICK f : f = Front(d)
  OBVIOUS
<1>2. PICK n : n = Last(d)
  OBVIOUS
<1>3. f \in Paths /\ n \in Names \cup {""} /\ d = Append(f, n)
  BY <1>1, <1>2, FrontLast DEF Paths
<1>4. Len(f) = Len(d) - 1
  <2>1. PICK X : X = Names \cup {""}
    OBVIOUS
  <2>2. f \in Seq(X) /\ n \in X
    BY <1>3, <2>1 DEF Paths
  <2>3. Len(Append(f, n)) = Len(f) + 1 /\ Len(f) \in Nat
    BY <2>2
  <2>4. d = Append(f, n)
    BY <1>3
  <2>5. Len(d) = Len(f) + 1
    BY <2>3, <2>4, Zenon
  <2> QED BY <2>3, <2>5
<1>5. CASE n \in Names
  <2>1. Resolve(d) = Append(Resolve(f), n) /\ Resolve(f) \in Seq(Names)
    BY <1>3, <1>5, Resolved
  <2>2. Front(Resolve(d)) = Resolve(f) /\ Resolve(d) # <<>>
    BY <1>5, <2>1, AppendFacts
  <2>3. Front(Resolve(d)) \in DOMAIN c
    BY <2>2 DEF Tree
  <2> QED BY <1>1, <1>3, <1>4, <2>2, <2>3
<1>6. CASE n = ""
  BY <1>1, <1>3, <1>4, <1>6, Resolved
<1> QED BY <1>3, <1>5, <1>6

\* What Unlinked does to a card that it changes.
Loses(c, u, p, up, l) ==
  /\ p # <<>> /\ up \in DOMAIN c /\ l \in Range(c[up])
  /\ p \in DOMAIN c => c[p] = <<>>
  /\ DOMAIN u = DOMAIN c \ {p}
  /\ \A q \in DOMAIN u : u[q] = IF q = up THEN Kept(c[q], Names \ {l}) ELSE c[q]

\* f_unlink does that.
LEMMA UnlinkedIs ==
  ASSUME NEW c, NEW path, NEW p, p = Resolve(path), CanUnlink(c, path)
  PROVE  Loses(c, Unlinked(c, path), p, Front(p), Last(p))
<1>1. /\ p # <<>> /\ Front(p) \in DOMAIN c /\ Last(p) \in Range(c[Front(p)])
      /\ p \in DOMAIN c => c[p] = <<>>
  BY DEF CanUnlink, Range
<1>2. Unlinked(c, path) =
        [q \in DOMAIN c \ {p} |-> IF q = Front(p) THEN Kept(c[q], Names \ {Last(p)}) ELSE c[q]]
  BY DEF Unlinked
<1> QED BY <1>1, <1>2 DEF Loses

\* f_unlink leaves a tree: only an empty folder goes, and its entry with it.
LEMMA UnlinkedTree ==
  ASSUME NEW c, Tree(c), NEW path \in Paths
  PROVE  Tree(Unlinked(c, path))
<1>1. CASE ~CanUnlink(c, path)
  BY <1>1 DEF Unlinked
<1>2. CASE CanUnlink(c, path)
  <2>1. PICK p : p = Resolve(path)
    OBVIOUS
  <2>2. PICK u : u = Unlinked(c, path)
    OBVIOUS
  <2>3. PICK l : l = Last(p)
    OBVIOUS
  <2>4. PICK up : up = Front(p)
    OBVIOUS
  <2>5. /\ p # <<>> /\ up \in DOMAIN c /\ l \in Range(c[up])
        /\ p \in DOMAIN c => c[p] = <<>>
        /\ DOMAIN u = DOMAIN c \ {p}
        /\ \A q \in DOMAIN u : u[q] = IF q = up THEN Kept(c[q], Names \ {l}) ELSE c[q]
    <3>1. Loses(c, u, p, up, l)
      BY <1>2, <2>1, <2>2, <2>3, <2>4, UnlinkedIs
    <3> QED BY <3>1 DEF Loses
  <2>6. p \in Seq(Names)
    BY <2>1, Resolved
  <2>7. p = Append(up, l)
    BY <2>3, <2>4, <2>5, <2>6, FrontLast
  <2>8. /\ <<>> \in DOMAIN c
        /\ \A q \in DOMAIN c : q \in Seq(Names) /\ c[q] \in Seq(Names) /\ IsInjective(c[q])
    BY DEF Tree
  <2>9. \A q \in DOMAIN c : q # <<>> => Front(q) \in DOMAIN c /\ Last(q) \in Range(c[Front(q)])
    BY DEF Tree
  <2>10. \A q \in DOMAIN c, n \in Names :
           Type[n] = "dir" /\ n \in Range(c[q]) => Append(q, n) \in DOMAIN c
    BY DEF Tree
  <2>11. ASSUME NEW q \in DOMAIN u
         PROVE  /\ q \in DOMAIN c /\ q # p /\ u[q] \in Seq(Names) /\ IsInjective(u[q])
                /\ Range(u[q]) = IF q = up THEN Range(c[q]) \ {l} ELSE Range(c[q])
    <3>1. q \in DOMAIN c /\ q # p
      BY <2>5
    <3>2. CASE q = up
      <4>1. PICK s : s = c[q]
        OBVIOUS
      <4>2. s \in Seq(Names) /\ IsInjective(s)
        BY <2>8, <3>1, <4>1
      <4>3. Kept(s, Names \ {l}) \in Seq(Names \cap (Names \ {l}))
        BY <4>2, KeptTyped
      <4>4. Kept(s, Names \ {l}) \in Seq(Names)
        BY <4>3
      <4>5. Range(s) \subseteq Names
        BY <4>2 DEF Range
      <4>6. /\ Range(Kept(s, Names \ {l})) = Range(s) \cap (Names \ {l})
            /\ IsInjective(Kept(s, Names \ {l}))
        BY <4>2, KeptRange
      <4>7. Range(Kept(s, Names \ {l})) = Range(s) \ {l}
        BY <4>5, <4>6
      <4>8. u[q] = Kept(s, Names \ {l})
        BY <2>5, <3>2, <4>1
      <4> QED BY <3>1, <3>2, <4>1, <4>4, <4>6, <4>7, <4>8
    <3>3. CASE q # up
      BY <2>5, <2>8, <3>1, <3>3
    <3> QED BY <3>2, <3>3
  <2>12. <<>> \in DOMAIN u
    BY <2>5, <2>8
  <2>13. ASSUME NEW q \in DOMAIN u, q # <<>>
         PROVE  Front(q) \in DOMAIN u /\ Last(q) \in Range(u[Front(q)])
    <3>1. PICK f : f = Front(q)
      OBVIOUS
    <3>2. PICK n : n = Last(q)
      OBVIOUS
    <3>3. q \in DOMAIN c /\ q # p /\ q \in Seq(Names)
      BY <2>8, <2>11
    <3>4. f \in DOMAIN c /\ n \in Range(c[f]) /\ q = Append(f, n)
      BY <2>9, <2>13, <3>1, <3>2, <3>3, FrontLast
    <3>5. f # p
      <4>1. SUFFICES ASSUME f = p PROVE FALSE
        OBVIOUS
      <4>2. c[f] = <<>>
        BY <2>5, <3>4, <4>1
      <4> QED BY <3>4, <4>2, EmptyFacts
    <3>6. f \in DOMAIN u
      BY <2>5, <3>4, <3>5
    <3>7. f = up => n # l
      BY <2>7, <3>3, <3>4
    <3>8. n \in Range(u[f])
      BY <2>11, <3>4, <3>6, <3>7
    <3> QED BY <3>1, <3>2, <3>6, <3>8
  <2>14. ASSUME NEW q \in DOMAIN u, NEW n \in Names, Type[n] = "dir", n \in Range(u[q])
         PROVE  Append(q, n) \in DOMAIN u
    <3>1. q \in DOMAIN c /\ n \in Range(c[q]) /\ (q = up => n # l) /\ q \in Seq(Names)
      BY <2>8, <2>11, <2>14
    <3>2. Append(q, n) \in DOMAIN c
      BY <2>10, <2>14, <3>1
    <3>3. Append(q, n) # p
      <4>1. SUFFICES ASSUME Append(q, n) = p PROVE FALSE
        OBVIOUS
      <4>2. Front(Append(q, n)) = q /\ Last(Append(q, n)) = n
        BY <3>1, AppendFacts, Zenon
      <4>3. Front(p) = q /\ Last(p) = n
        BY <4>1, <4>2, Zenon
      <4> QED BY <2>3, <2>4, <3>1, <4>3
    <3> QED BY <2>5, <3>2, <3>3
  <2>15. \A q \in DOMAIN u : q \in Seq(Names) /\ u[q] \in Seq(Names) /\ IsInjective(u[q])
    BY <2>8, <2>11
  <2>16. Tree(u)
    BY <2>12, <2>13, <2>14, <2>15 DEF Tree
  <2> QED BY <2>2, <2>16
<1> QED BY <1>1, <1>2

\* What a name put into a folder does to the card.
Gains(c, u, p, name) ==
  /\ DOMAIN c \subseteq DOMAIN u /\ DOMAIN u \subseteq DOMAIN c \cup {Append(p, name)}
  /\ Type[name] # "dir" => DOMAIN u = DOMAIN c
  /\ Type[name] = "dir" => Append(p, name) \in DOMAIN u
  /\ p \in DOMAIN c /\ name \notin Range(c[p])
  /\ u[p] \in Seq(Names) /\ IsInjective(u[p]) /\ Range(u[p]) = Range(c[p]) \cup {name}
  /\ \A q \in DOMAIN c : q # p => u[q] = c[q]
  /\ \A q \in DOMAIN u : q \notin DOMAIN c => u[q] = <<>>

\* f_mkdir and f_open do that, or nothing.
LEMMA CreatedIs ==
  ASSUME NEW c, Tree(c), NEW path \in Paths, NEW name \in Names, NEW u \in Created(c, path, name)
  PROVE  u = c \/ Gains(c, u, Resolve(path), name)
<1>1. PICK p : p = Resolve(path)
  OBVIOUS
<1>2. PICK old : old = c[p]
  OBVIOUS
<1> DEFINE full == p \notin DOMAIN c \/ (\E k \in DOMAIN old : old[k] = name) \/ Len(old) >= EntryMax
           New(k) == [q \in DOMAIN c \cup (IF Type[name] = "dir" THEN {Append(p, name)} ELSE {}) |->
                        IF q = p THEN InsertAt(old, k, name)
                        ELSE IF q \in DOMAIN c THEN c[q] ELSE <<>>]
<1>3. Created(c, path, name) = IF full THEN {c} ELSE {New(k) : k \in 1 .. Len(old) + 1}
  BY <1>1, <1>2 DEF Created
<1>4. CASE full
  BY <1>3, <1>4
<1>5. CASE ~full
  <2>1. PICK k \in 1 .. Len(old) + 1 : u = New(k)
    <3> HIDE DEF New, full
    <3>1. u \in {New(k) : k \in 1 .. Len(old) + 1}
      BY <1>3, <1>5, Zenon
    <3> QED BY <3>1, Zenon
  <2>2. PICK ins : ins = InsertAt(old, k, name)
    OBVIOUS
  <2>3. p \in DOMAIN c /\ name \notin Range(old)
    BY <1>5 DEF Range
  <2>4. old \in Seq(Names) /\ IsInjective(old)
    BY <1>2, <2>3 DEF Tree
  <2>5. ins \in Seq(Names) /\ Range(ins) = Range(old) \cup {name} /\ IsInjective(ins)
    BY <2>2, <2>3, <2>4, Inserted
  <2>6. PICK more : more = IF Type[name] = "dir" THEN {Append(p, name)} ELSE {}
    OBVIOUS
  <2>7. u = [q \in DOMAIN c \cup more |-> IF q = p THEN ins ELSE IF q \in DOMAIN c THEN c[q] ELSE <<>>]
    BY <2>1, <2>2, <2>6
  <2>8. DOMAIN u = DOMAIN c \cup more
    BY <2>7
  <2>9. u[p] = ins /\ (\A q \in DOMAIN c : q # p => u[q] = c[q])
    BY <2>3, <2>7
  <2>10. \A q \in DOMAIN u : q \notin DOMAIN c => u[q] = <<>>
    BY <2>3, <2>7
  <2>11. Gains(c, u, p, name)
    BY <1>2, <2>3, <2>5, <2>6, <2>8, <2>9, <2>10 DEF Gains
  <2> QED BY <1>1, <2>11
<1> QED BY <1>4, <1>5

\* f_mkdir and f_open leave a tree with all the folders it had.
LEMMA CreatedTree ==
  ASSUME NEW c, Tree(c), NEW path \in Paths, NEW name \in Names, NEW u \in Created(c, path, name)
  PROVE  Tree(u) /\ DOMAIN c \subseteq DOMAIN u
<1>1. PICK p : p = Resolve(path)
  OBVIOUS
<1>2. u = c \/ Gains(c, u, p, name)
  BY <1>1, CreatedIs
<1>3. CASE u = c
  BY <1>3
<1>4. CASE Gains(c, u, p, name)
  <2>1. /\ DOMAIN c \subseteq DOMAIN u /\ DOMAIN u \subseteq DOMAIN c \cup {Append(p, name)}
        /\ Type[name] # "dir" => DOMAIN u = DOMAIN c
        /\ Type[name] = "dir" => Append(p, name) \in DOMAIN u
        /\ p \in DOMAIN c /\ name \notin Range(c[p])
    BY <1>4 DEF Gains
  <2>2. u[p] \in Seq(Names) /\ IsInjective(u[p]) /\ Range(u[p]) = Range(c[p]) \cup {name}
    BY <1>4 DEF Gains
  <2>3. \A q \in DOMAIN c : q # p => u[q] = c[q]
    BY <1>4 DEF Gains
  <2>4. \A q \in DOMAIN u : q \notin DOMAIN c => u[q] = <<>>
    BY <1>4 DEF Gains
  <2>5. /\ <<>> \in DOMAIN c
        /\ \A q \in DOMAIN c : q \in Seq(Names) /\ c[q] \in Seq(Names) /\ IsInjective(c[q])
    BY DEF Tree
  <2>6. \A q \in DOMAIN c : q # <<>> => Front(q) \in DOMAIN c /\ Last(q) \in Range(c[Front(q)])
    BY DEF Tree
  <2>7. \A q \in DOMAIN c, n \in Names :
           Type[n] = "dir" /\ n \in Range(c[q]) => Append(q, n) \in DOMAIN c
    BY DEF Tree
  <2>8. \A q \in DOMAIN c : Range(c[q]) \subseteq Range(u[q])
    BY <2>2, <2>3
  <2>9. PICK new : new = Append(p, name)
    OBVIOUS
  <2>10. new \in Seq(Names) /\ Front(new) = p /\ Last(new) = name
    BY <2>1, <2>5, <2>9, AppendFacts
  <2>11. \A q \in DOMAIN u : q \notin DOMAIN c => q = new
    BY <2>1, <2>9
  <2>12. ASSUME NEW q \in DOMAIN u
         PROVE  q \in Seq(Names) /\ u[q] \in Seq(Names) /\ IsInjective(u[q])
    <3>1. CASE q \notin DOMAIN c
      <4>1. q = new /\ u[q] = <<>>
        BY <2>4, <2>11, <3>1
      <4>2. <<>> \in Seq(Names)
        OBVIOUS
      <4> QED BY <2>10, <4>1, <4>2, EmptyFacts
    <3>2. CASE q \in DOMAIN c
      BY <2>2, <2>3, <2>5, <3>2
    <3> QED BY <3>1, <3>2
  <2>13. ASSUME NEW q \in DOMAIN u, q # <<>>
         PROVE  Front(q) \in DOMAIN u /\ Last(q) \in Range(u[Front(q)])
    <3>1. CASE q \notin DOMAIN c
      BY <2>1, <2>2, <2>10, <2>11, <3>1
    <3>2. CASE q \in DOMAIN c
      BY <2>1, <2>6, <2>8, <2>13, <3>2
    <3> QED BY <3>1, <3>2
  <2>14. ASSUME NEW q \in DOMAIN u, NEW n \in Names, Type[n] = "dir", n \in Range(u[q])
         PROVE  Append(q, n) \in DOMAIN u
    <3>1. CASE q \notin DOMAIN c
      <4>1. u[q] = <<>>
        BY <2>4, <3>1
      <4> QED BY <2>14, <4>1, EmptyFacts
    <3>2. CASE q \in DOMAIN c /\ q # p
      <4>1. n \in Range(c[q])
        BY <2>3, <2>14, <3>2
      <4> QED BY <2>1, <2>7, <2>14, <3>2, <4>1
    <3>3. CASE q = p
      <4>1. n \in Range(c[p]) \/ n = name
        BY <2>2, <2>14, <3>3
      <4> QED BY <2>1, <2>7, <2>14, <3>3, <4>1
    <3> QED BY <3>1, <3>2, <3>3
  <2>15. Tree(u)
    BY <2>1, <2>5, <2>12, <2>13, <2>14 DEF Tree
  <2> QED BY <2>1, <2>15
<1> QED BY <1>2, <1>3, <1>4

-----------------------------------------------------------------------------
\* The numbers of the pages.
PagesOf(n) == IF n = 0 THEN 1 ELSE (n + FILES_PER_PAGE - 1) \div FILES_PER_PAGE

\* Quotient and remainder.
LEMMA Division ==
  ASSUME NEW a \in Nat, NEW n \in Nat \ {0}
  PROVE  /\ a \div n \in Nat /\ a % n \in Nat
         /\ a = (a \div n) * n + (a % n) /\ a % n < n
OBVIOUS

\* Multiples are ordered as their factors.
LEMMA Monotone ==
  ASSUME NEW a \in Nat, NEW b \in Nat, NEW n \in Nat, a <= b
  PROVE  a * n <= b * n
<1>1. PICK d \in Nat : b = a + d
  <2>1. b - a \in Nat /\ b = a + (b - a)
    OBVIOUS
  <2> QED BY <2>1
<1>2. b * n = a * n + d * n /\ a * n \in Nat /\ d * n \in Nat
  BY <1>1
<1> QED BY <1>2

\* The last page holds the last file,
LEMMA LastPage ==
  ASSUME NEW n \in Nat
  PROVE  /\ PagesOf(n) \in Nat \ {0} /\ (PagesOf(n) - 1) * FILES_PER_PAGE <= n
         /\ n > 0 => (PagesOf(n) - 1) * FILES_PER_PAGE < n /\ n <= PagesOf(n) * FILES_PER_PAGE
<1>1. PICK f \in Nat \ {0} : f = FILES_PER_PAGE
  BY BrowserConstants
<1>2. CASE n = 0
  <2>1. PagesOf(n) = 1
    BY <1>2 DEF PagesOf
  <2> QED BY <1>1, <1>2, <2>1
<1>3. CASE n > 0
  <2>1. PICK a \in Nat : a = n + f - 1
    BY <1>1
  <2>2. PICK p : p = a \div f
    OBVIOUS
  <2>3. PICK r : r = a % f
    OBVIOUS
  <2>4. p \in Nat /\ r \in Nat /\ a = p * f + r /\ r < f
    BY <1>1, <2>1, <2>2, <2>3, Division
  <2>5. PagesOf(n) = p
    BY <1>1, <1>3, <2>1, <2>2 DEF PagesOf
  <2>6. p # 0
    <3>1. SUFFICES ASSUME p = 0 PROVE FALSE
      OBVIOUS
    <3>2. p * f = 0
      BY <1>1, <3>1
    <3> QED BY <1>1, <1>3, <2>1, <2>4, <3>2
  <2>7. PICK m : m = p * f /\ m \in Nat
    BY <1>1, <2>4
  <2>8. (p - 1) * f = m - f
    BY <1>1, <2>4, <2>6, <2>7
  <2>9. m - f < n /\ n <= m
    BY <1>1, <1>3, <2>1, <2>4, <2>7
  <2> QED BY <1>1, <2>4, <2>5, <2>6, <2>7, <2>8, <2>9
<1> QED BY <1>2, <1>3

\* so that a page starts within the files.
LEMMA PageStarts ==
  ASSUME NEW n \in Nat, NEW p \in Nat \ {0}, p <= PagesOf(n)
  PROVE  (p - 1) * FILES_PER_PAGE <= n
<1>1. PICK f \in Nat \ {0} : f = FILES_PER_PAGE
  BY BrowserConstants
<1>2. PICK l : l = PagesOf(n)
  OBVIOUS
<1>3. l \in Nat \ {0} /\ (l - 1) * f <= n
  BY <1>1, <1>2, LastPage
<1>4. p - 1 \in Nat /\ l - 1 \in Nat /\ p - 1 <= l - 1
  BY <1>2, <1>3
<1>5. (p - 1) * f <= (l - 1) * f /\ (p - 1) * f \in Nat /\ (l - 1) * f \in Nat
  BY <1>1, <1>4, Monotone
<1> QED BY <1>1, <1>3, <1>5

-----------------------------------------------------------------------------
(***************************************************************************)
(* The listing and its pages.                                               *)
(***************************************************************************)
\* The buttons of a page are the files from its first on, up to the last file.
LEMMA Offers ==
  ASSUME NEW b, NEW n \in Nat, NEW p \in Nat \ {0}, NEW k \in 1 .. FILES_PER_PAGE,
         p <= PagesOf(n), b.files = n, b.page = p, b.pages = PagesOf(n)
  PROVE  k <= GetMax(b) <=> (p - 1) * FILES_PER_PAGE + k <= n
<1>1. PICK f \in Nat \ {0} : f = FILES_PER_PAGE
  BY BrowserConstants
<1>2. PICK l : l = PagesOf(n)
  OBVIOUS
<1>3. /\ l \in Nat \ {0} /\ (l - 1) * f <= n
      /\ n > 0 => (l - 1) * f < n /\ n <= l * f
  BY <1>1, <1>2, LastPage
<1>4. PICK r : r = n % f
  OBVIOUS
<1>5. PICK q : q = n \div f
  OBVIOUS
<1>6. q \in Nat /\ r \in Nat /\ n = q * f + r /\ r < f
  BY <1>1, <1>4, <1>5, Division
<1>7. Remainder(b) = IF p = l THEN r ELSE f
  BY <1>1, <1>2, <1>4 DEF Remainder
<1>8. PICK m : m = GetMax(b)
  OBVIOUS
<1>9. m = IF n > 0 /\ Remainder(b) = 0 THEN f ELSE Remainder(b)
  BY <1>1, <1>8 DEF GetMax
<1>10. PICK s : s = (p - 1) * f
  OBVIOUS
<1>11. s \in Nat /\ p * f = s + f /\ k \in Nat /\ k >= 1 /\ k <= f
  BY <1>1, <1>10
<1>12. CASE n = 0
  <2>1. l = 1 /\ p = 1
    BY <1>2, <1>12 DEF PagesOf
  <2>2. r = 0
    BY <1>1, <1>4, <1>12
  <2>3. m = 0 /\ s = 0
    BY <1>1, <1>7, <1>9, <1>10, <1>12, <2>1, <2>2
  <2> QED BY <1>1, <1>8, <1>10, <1>11, <1>12, <2>3
<1>13. CASE n > 0 /\ p # l
  <2>1. m = f /\ p <= l - 1
    BY <1>1, <1>2, <1>3, <1>7, <1>9, <1>13
  <2>2. p * f <= (l - 1) * f /\ (l - 1) * f \in Nat
    BY <1>1, <1>3, <2>1, Monotone
  <2>3. s + k <= n
    BY <1>1, <1>3, <1>11, <1>13, <2>2
  <2> QED BY <1>1, <1>8, <1>10, <1>11, <2>1, <2>3
<1>14. CASE n > 0 /\ p = l
  <2>1. s < n /\ n <= s + f
    BY <1>3, <1>10, <1>11, <1>14
  <2>2. PICK x : x = q * f /\ x \in Nat
    BY <1>1, <1>6
  <2>3. CASE r = 0
    <3>1. m = f /\ n = x
      BY <1>6, <1>7, <1>9, <1>14, <2>2, <2>3
    <3>2. q >= p
      <4>1. SUFFICES ASSUME q < p PROVE FALSE
        BY <1>6
      <4>2. q <= p - 1 /\ p - 1 \in Nat
        BY <1>6, <4>1
      <4>3. x <= s
        BY <1>1, <1>6, <1>10, <2>2, <4>2, Monotone
      <4> QED BY <1>11, <2>1, <2>2, <3>1, <4>3
    <3>3. s + f <= x
      BY <1>1, <1>6, <1>11, <2>2, <3>2, Monotone
    <3>4. n = s + f
      BY <1>1, <1>11, <2>1, <2>2, <3>1, <3>3
    <3> QED BY <1>1, <1>8, <1>10, <1>11, <3>1, <3>4
  <2>4. CASE r # 0
    <3>1. m = r /\ n = x + r
      BY <1>6, <1>7, <1>9, <1>14, <2>2, <2>4
    <3>2. q < p
      <4>1. SUFFICES ASSUME q >= p PROVE FALSE
        BY <1>6
      <4>2. s + f <= x
        BY <1>1, <1>6, <1>11, <2>2, <4>1, Monotone
      <4> QED BY <1>1, <1>6, <1>11, <2>1, <2>2, <2>4, <3>1, <4>2
    <3>3. q >= p - 1
      <4>1. SUFFICES ASSUME q < p - 1 PROVE FALSE
        BY <1>6
      <4>2. q + 1 \in Nat /\ q + 1 <= p - 1 /\ p - 1 \in Nat
        BY <1>6, <4>1
      <4>3. (q + 1) * f <= s
        BY <1>1, <1>10, <4>2, Monotone
      <4>4. (q + 1) * f = x + f
        BY <1>1, <1>6, <2>2
      <4> QED BY <1>1, <1>6, <1>11, <2>1, <2>2, <3>1, <4>3, <4>4
    <3>4. q = p - 1
      BY <1>6, <3>2, <3>3
    <3>5. n = s + r
      BY <1>10, <2>2, <3>1, <3>4
    <3> QED BY <1>1, <1>6, <1>8, <1>10, <1>11, <3>1, <3>5
  <2> QED BY <2>3, <2>4
<1> QED BY <1>12, <1>13, <1>14

-----------------------------------------------------------------------------
\* sd_findnext lists names of the folder that the browser may show.
LEMMA ListingFacts ==
  ASSUME NEW c, Tree(c), NEW b, Resolve(b.dir) \in DOMAIN c, NEW l, l = Listing(c, b)
  PROVE  /\ l \in Seq(Names)
         /\ \A k \in 1 .. Len(l) : l[k] \in Names /\ l[k] \in Range(c[Resolve(b.dir)]) /\ Listed(b, l[k])
<1>1. PICK s : s = c[Resolve(b.dir)]
  OBVIOUS
<1>2. s \in Seq(Names)
  BY <1>1 DEF Tree
<1>3. PICK S : S = {n \in Names : Listed(b, n)}
  OBVIOUS
<1>4. l = Kept(s, S)
  BY <1>1, <1>3 DEF Listing
<1>5. l \in Seq(Names \cap S)
  BY <1>2, <1>4, KeptTyped
<1>6. Range(l) = Range(s) \cap S
  BY <1>2, <1>4, KeptRange
<1>7. l \in Seq(Names)
  BY <1>5
<1>8. \A k \in 1 .. Len(l) : l[k] \in Range(l)
  BY <1>7 DEF Range
<1>9. \A k \in 1 .. Len(l) : l[k] \in Range(s) /\ l[k] \in S
  BY <1>6, <1>8
<1> QED BY <1>1, <1>3, <1>7, <1>9

\* A listing with the ".." before it.
Lists(e, l, dir) ==
  /\ e \in Seq(Labels) /\ Len(l) \in Nat
  /\ dir = <<>> => Len(e) = Len(l) /\ \A k \in 1 .. Len(l) : e[k] = l[k]
  /\ dir # <<>> => /\ Len(e) = Len(l) + 1 /\ e[1] = ".."
                   /\ \A k \in 1 .. Len(l) : e[k + 1] = l[k]
  /\ \A k \in 1 .. Len(e) : e[k] \in Labels /\ e[k] # ""

\* The entries that browser_draw_page counts are such a list.
LEMMA EntriesFacts ==
  ASSUME NEW c, Tree(c), NEW b, Resolve(b.dir) \in DOMAIN c
  PROVE  Lists(Entries(c, b), Listing(c, b), b.dir)
<1>1. PICK l : l = Listing(c, b)
  OBVIOUS
<1>2. l \in Seq(Names) /\ \A k \in 1 .. Len(l) : l[k] \in Names
  BY <1>1, ListingFacts
<1>3. PICK L : L = Labels
  OBVIOUS
<1>4. Names \subseteq L /\ ".." \in L /\ "" \notin Names
  BY <1>3, BrowserConstants DEF Labels
<1>5. l \in Seq(L) /\ Len(l) \in Nat
  <2>1. Names \subseteq L
    BY <1>4
  <2> QED BY <1>2, <2>1
<1>6. PICK d : d = ".."
  OBVIOUS
<1>7. PICK no : no = ""
  OBVIOUS
<1>8. d # no /\ d \in L /\ no \notin Names
  BY <1>4, <1>6, <1>7
<1>9. PICK dir : dir = b.dir
  OBVIOUS
<1>10. PICK e : e = Entries(c, b)
  OBVIOUS
<1>11. e = (IF dir = <<>> THEN <<>> ELSE <<d>>) \o l
  BY <1>1, <1>6, <1>9, <1>10 DEF Entries
<1>12. CASE dir = <<>>
  <2>1. e = <<>> \o l
    BY <1>11, <1>12
  <2>2. e = l
    BY <1>5, <2>1
  <2>3. \A k \in 1 .. Len(e) : e[k] \in L /\ e[k] # no
    BY <1>2, <1>4, <1>8, <2>2
  <2> QED BY <1>1, <1>3, <1>5, <1>7, <1>9, <1>10, <1>12, <2>2, <2>3 DEF Lists
<1>13. CASE dir # <<>>
  <2>1. e = <<d>> \o l
    BY <1>11, <1>13
  <2>2. PICK t : t = <<d>>
    OBVIOUS
  <2>3. t \in Seq(L) /\ Len(t) = 1 /\ t[1] = d
    BY <1>8, <2>2
  <2>4. /\ e \in Seq(L) /\ Len(e) = Len(t) + Len(l)
        /\ \A k \in 1 .. Len(t) + Len(l) : e[k] = IF k <= Len(t) THEN t[k] ELSE l[k - Len(t)]
    BY <1>5, <2>1, <2>2, <2>3, ConcatProperties
  <2>5. Len(e) = Len(l) + 1 /\ \A k \in 1 .. Len(l) + 1 : e[k] = IF k <= 1 THEN d ELSE l[k - 1]
    BY <1>5, <2>3, <2>4
  <2>6. e[1] = d /\ \A k \in 1 .. Len(l) : e[k + 1] = l[k]
    BY <1>5, <2>5
  <2>7. \A k \in 1 .. Len(e) : e[k] \in L /\ e[k] # no
    <3> SUFFICES ASSUME NEW k \in 1 .. Len(e) PROVE e[k] \in L /\ e[k] # no
      OBVIOUS
    <3>1. CASE k = 1
      BY <1>8, <2>6, <3>1
    <3>2. CASE k # 1
      <4>1. k - 1 \in 1 .. Len(l) /\ e[k] = l[k - 1]
        BY <1>5, <2>5, <3>2
      <4> QED BY <1>2, <1>4, <1>8, <4>1
    <3> QED BY <3>1, <3>2
  <2>8. e[1] = ".."
    BY <1>6, <2>6
  <2> QED BY <1>1, <1>3, <1>5, <1>7, <1>9, <1>10, <1>13, <2>4, <2>5, <2>6, <2>7, <2>8 DEF Lists
<1> QED BY <1>12, <1>13

-----------------------------------------------------------------------------
(***************************************************************************)
(* The inductive invariant.                                                 *)
(***************************************************************************)
\* Until a delete from the console the counts and the buttons are those of the
\* folder that is shown, and the page starts within its files.
CountInv ==
  ui # "normal" /\ ~behind =>
    /\ Resolve(br.dir) \in Folders
    /\ br.files = Len(Entries(card, br))
    /\ br.pages = PagesOf(br.files)
    /\ br.drawn = OnPage(card, br)
    /\ StartFile(br) <= br.files

\* A viewer is not open in delete mode, and pictures can be counted from 0.
ViewerInv ==
  /\ ui \in {"picture", "guide"} => ~br.del
  /\ ui = "picture" => br.files > 0 /\ (br.dir # <<>> => br.files > 1)

\* The folder for SAVE is the one that the browser shows, the guides apart.
SaveInv ==
  /\ SaveDirExists
  /\ ui # "normal" /\ br.fmt # "guide" => savedir = br.dir

\* The counts of a browser, however it came to them.
CountsRight(c, b) ==
  /\ Resolve(b.dir) \in DOMAIN c
  /\ b.files = Len(Entries(c, b))
  /\ b.pages = PagesOf(b.files)
  /\ b.drawn = OnPage(c, b)
  /\ StartFile(b) <= b.files

\* The fields of the browser's state.
LEMMA BrowserFields ==
  ASSUME NEW b \in Browsers
  PROVE  /\ b.dir \in Paths /\ b.fmt \in Formats /\ b.page \in Nat \ {0} /\ b.pages \in Nat \ {0}
         /\ b.files \in Nat /\ b.del \in BOOLEAN /\ b.drawn \in [1 .. FILES_PER_PAGE -> Labels]
BY DEF Browsers

\* The entries of a page depend on the folder, the format and the page only.
LEMMA SameEntries ==
  ASSUME NEW c, NEW a, NEW b, a.dir = b.dir, a.fmt = b.fmt
  PROVE  Listing(c, a) = Listing(c, b) /\ Entries(c, a) = Entries(c, b)
<1>1. \A n : Listed(a, n) <=> Listed(b, n)
  BY DEF Listed
<1>2. Listing(c, a) = Listing(c, b)
  BY <1>1 DEF Listing
<1> QED BY <1>2 DEF Entries

\* So is what a page shows.
LEMMA SamePageShown ==
  ASSUME NEW c, NEW a, NEW b, a.dir = b.dir, a.fmt = b.fmt, a.page = b.page
  PROVE  OnPage(c, a) = OnPage(c, b) /\ StartFile(a) = StartFile(b)
<1>1. Entries(c, a) = Entries(c, b) /\ StartFile(a) = StartFile(b)
  BY SameEntries DEF StartFile
<1> QED BY <1>1 DEF OnPage

\* So is whether the counts are right.
LEMMA SameCounts ==
  ASSUME NEW c, NEW a, NEW b, a.dir = b.dir, a.fmt = b.fmt, a.page = b.page,
         a.pages = b.pages, a.files = b.files, a.drawn = b.drawn
  PROVE  CountsRight(c, a) <=> CountsRight(c, b)
<1>1. Entries(c, a) = Entries(c, b)
  BY SameEntries
<1>2. OnPage(c, a) = OnPage(c, b) /\ StartFile(a) = StartFile(b)
  BY SamePageShown
<1> QED BY <1>1, <1>2 DEF CountsRight

\* A page shows the entries from its first on, and no name after the last.
LEMMA PageShown ==
  ASSUME NEW c, Tree(c), NEW b \in Browsers, Resolve(b.dir) \in DOMAIN c
  PROVE  /\ OnPage(c, b) \in [1 .. FILES_PER_PAGE -> Labels] /\ Len(Entries(c, b)) \in Nat
         /\ \A k \in 1 .. FILES_PER_PAGE :
              /\ StartFile(b) + k <= Len(Entries(c, b)) => OnPage(c, b)[k] = Entries(c, b)[StartFile(b) + k]
              /\ StartFile(b) + k > Len(Entries(c, b)) => OnPage(c, b)[k] = ""
              /\ OnPage(c, b)[k] # "" <=> StartFile(b) + k <= Len(Entries(c, b))
<1>1. PICK e : e = Entries(c, b)
  OBVIOUS
<1>2. Lists(e, Listing(c, b), b.dir)
  BY <1>1, EntriesFacts
<1>3. PICK L : L = Labels
  OBVIOUS
<1>4. PICK no : no = ""
  OBVIOUS
<1>5. no \in L
  BY <1>3, <1>4 DEF Labels
<1>6. e \in Seq(L)
  BY <1>2, <1>3 DEF Lists
<1>7. \A k \in 1 .. Len(e) : e[k] \in L /\ e[k] # no
  BY <1>2, <1>3, <1>4 DEF Lists
<1>8. DOMAIN e = 1 .. Len(e) /\ Len(e) \in Nat
  BY <1>6
<1>9. PICK f \in Nat \ {0} : f = FILES_PER_PAGE
  BY BrowserConstants
<1>10. PICK s : s = StartFile(b)
  OBVIOUS
<1>11. s \in Nat
  <2>1. b.page \in Nat \ {0}
    BY BrowserFields
  <2> QED BY <1>9, <1>10, <2>1 DEF StartFile
<1>12. PICK o : o = OnPage(c, b)
  OBVIOUS
<1>13. o = [k \in 1 .. f |-> IF s + k \in DOMAIN e THEN e[s + k] ELSE no]
  BY <1>1, <1>4, <1>9, <1>10, <1>12, Zenon DEF OnPage
<1>14. ASSUME NEW k \in 1 .. f
       PROVE  /\ s + k <= Len(e) => o[k] = e[s + k]
              /\ s + k > Len(e) => o[k] = no
              /\ o[k] # no <=> s + k <= Len(e)
              /\ o[k] \in L
  <2>1. s + k \in DOMAIN e <=> s + k <= Len(e)
    BY <1>8, <1>9, <1>11
  <2>2. o[k] = IF s + k <= Len(e) THEN e[s + k] ELSE no
    BY <1>13, <2>1
  <2>3. CASE s + k <= Len(e)
    <3>1. s + k \in 1 .. Len(e)
      BY <1>8, <2>1, <2>3
    <3> QED BY <1>7, <1>8, <1>9, <1>11, <2>2, <2>3, <3>1
  <2>4. CASE ~(s + k <= Len(e))
    BY <1>5, <1>8, <1>9, <1>11, <2>2, <2>4
  <2> QED BY <2>3, <2>4
<1>15. o \in [1 .. f -> L]
  BY <1>13, <1>14
<1>16. \A k \in 1 .. f : /\ s + k <= Len(e) => o[k] = e[s + k]
                         /\ s + k > Len(e) => o[k] = ""
                         /\ o[k] # "" <=> s + k <= Len(e)
  BY <1>4, <1>14
<1> QED BY <1>1, <1>3, <1>8, <1>9, <1>10, <1>12, <1>15, <1>16

-----------------------------------------------------------------------------
\* What a drawing needs: the counts are right, or will be made anew.
Drawable(c, b) ==
  /\ Tree(c) /\ b \in Browsers /\ Len(b.dir) <= BROWSER_DEPTH_MAX
  /\ Readable(c, b) /\ (~behind \/ (b.files = 0 /\ b.page = 1)) =>
       /\ b.files # 0 => b.files = Len(Entries(c, b)) /\ b.pages = PagesOf(b.files)
       /\ StartFile(b) <= Len(Entries(c, b))

\* The browser after its files were counted, if they had to be.
Recounted(c, b, o, t) ==
  /\ t \in Browsers
  /\ t.dir = b.dir /\ t.fmt = b.fmt /\ t.page = b.page /\ t.del = b.del /\ t.drawn = o
  /\ b.files # 0 => t.files = b.files /\ t.pages = b.pages
  /\ b.files = 0 => t.files = Len(Entries(c, b)) /\ t.pages = PagesOf(Len(Entries(c, b)))

\* browser_draw_page counts when file_count is 0, and only then.
LEMMA CountedFields ==
  ASSUME NEW c, Tree(c), NEW b \in Browsers, Resolve(b.dir) \in DOMAIN c,
         NEW o \in [1 .. FILES_PER_PAGE -> Labels],
         NEW t, t = [Counted(c, b) EXCEPT !.drawn = o]
  PROVE  Recounted(c, b, o, t)
<1>1. PICK n : n = Len(Entries(c, b))
  OBVIOUS
<1>2. n \in Nat
  BY <1>1, PageShown
<1>3. PICK p : p = PagesOf(n)
  OBVIOUS
<1>4. p \in Nat \ {0}
  BY <1>2, <1>3, LastPage
<1>5. Counted(c, b) = IF b.files # 0 THEN b ELSE [b EXCEPT !.files = n, !.pages = p]
  BY <1>1, <1>3 DEF Counted, PagesOf
<1>6. CASE b.files # 0
  <2>1. t = [b EXCEPT !.drawn = o]
    BY <1>5, <1>6
  <2> QED BY <1>6, <2>1 DEF Browsers, Recounted
<1>7. CASE b.files = 0
  <2>1. PICK d : d = [b EXCEPT !.files = n]
    OBVIOUS
  <2>2. /\ d \in Browsers /\ d.files = n /\ d.dir = b.dir /\ d.fmt = b.fmt /\ d.page = b.page
        /\ d.del = b.del /\ d.pages = b.pages
    BY <1>2, <2>1 DEF Browsers
  <2>3. PICK g : g = [d EXCEPT !.pages = p]
    OBVIOUS
  <2>4. /\ g \in Browsers /\ g.files = n /\ g.dir = b.dir /\ g.fmt = b.fmt /\ g.page = b.page
        /\ g.del = b.del /\ g.pages = p
    BY <1>4, <2>2, <2>3 DEF Browsers
  <2>5. Counted(c, b) = g
    BY <1>5, <1>7, <2>1, <2>3
  <2>6. t = [g EXCEPT !.drawn = o]
    BY <2>5
  <2>7. /\ t \in Browsers /\ t.files = n /\ t.dir = b.dir /\ t.fmt = b.fmt /\ t.page = b.page
        /\ t.del = b.del /\ t.pages = p /\ t.drawn = o
    BY <2>4, <2>6 DEF Browsers
  <2> QED BY <1>1, <1>3, <1>7, <2>7 DEF Recounted
<1> QED BY <1>6, <1>7

\* The browser's state when it is closed.
LEMMA ClosedFacts ==
  /\ Closed \in Browsers /\ Closed.dir = <<>> /\ Closed.fmt = "data" /\ Closed.page = 1
  /\ Closed.files = 0 /\ Closed.del = FALSE /\ Len(<<>>) <= BROWSER_DEPTH_MAX
<1>1. PICK o : o = [k \in 1 .. FILES_PER_PAGE |-> ""]
  OBVIOUS
<1>2. o \in [1 .. FILES_PER_PAGE -> Labels]
  BY <1>1 DEF Labels
<1>3. PICK d : d = <<>>
  OBVIOUS
<1>4. d \in Paths /\ Len(d) = 0
  BY <1>3 DEF Paths
<1>5. PICK no \in BOOLEAN : no = FALSE
  OBVIOUS
<1>6. Closed = [dir |-> d, fmt |-> "data", page |-> 1, pages |-> 1, files |-> 0, del |-> no, drawn |-> o]
  BY <1>1, <1>3, <1>5, Zenon DEF Closed
<1>7. "data" \in Formats
  BY DEF Formats
<1>8. /\ Closed \in Browsers /\ Closed.dir = d /\ Closed.fmt = "data" /\ Closed.page = 1
      /\ Closed.files = 0 /\ Closed.del = no
  BY <1>2, <1>4, <1>6, <1>7 DEF Browsers
<1>9. Len(d) <= BROWSER_DEPTH_MAX
  <2>1. BROWSER_DEPTH_MAX \in Nat
    BY BrowserConstants
  <2>2. Len(d) = 0
    BY <1>4
  <2> QED BY <2>1, <2>2
<1> QED BY <1>3, <1>5, <1>8, <1>9

\* What holds of the screen and the browser after a drawing.
ScreenOK ==
  /\ ui \in {"normal", "browser"} /\ br \in Browsers /\ Len(br.dir) <= BROWSER_DEPTH_MAX
  /\ behind \in BOOLEAN /\ CountInv /\ ViewerInv

\* Leaving the browser establishes it.
LEMMA LeaveStep ==
  ASSUME Leave
  PROVE  ScreenOK' /\ ui' = "normal"
<1>1. ui' = "normal" /\ br' = Closed /\ behind' = FALSE
  BY DEF Leave
<1>2. br' \in Browsers /\ Len(br'.dir) <= BROWSER_DEPTH_MAX
  BY <1>1, ClosedFacts
<1>3. CountInv' /\ ViewerInv'
  BY <1>1 DEF CountInv, ViewerInv
<1>4. behind' \in BOOLEAN
  BY <1>1
<1> QED BY <1>1, <1>2, <1>3, <1>4 DEF ScreenOK

\* browser_draw_page establishes it, and shows the folder it was given if that
\* can be read.
LEMMA DrawStep ==
  ASSUME NEW c, NEW b, behind \in BOOLEAN, Drawable(c, b), card' = c, Draw(c, b)
  PROVE  /\ ScreenOK'
         /\ ui' # "normal" => br'.dir = b.dir /\ br'.fmt = b.fmt
         /\ Readable(c, b) => br'.dir = b.dir
<1>1. CASE ~Readable(c, b)
  <2>1. Leave
    BY <1>1 DEF Draw
  <2> QED BY <1>1, <2>1, LeaveStep
<1>2. CASE Readable(c, b)
  <2>1. Tree(c) /\ b \in Browsers /\ Len(b.dir) <= BROWSER_DEPTH_MAX
    BY DEF Drawable
  <2>2. Resolve(b.dir) \in DOMAIN c
    BY <1>2 DEF Readable
  <2>3. PICK o : o = OnPage(c, b)
    OBVIOUS
  <2>4. o \in [1 .. FILES_PER_PAGE -> Labels] /\ Len(Entries(c, b)) \in Nat
    BY <2>1, <2>2, <2>3, PageShown
  <2>5. PICK t : t = [Counted(c, b) EXCEPT !.drawn = o]
    OBVIOUS
  <2>6. /\ ui' = "browser" /\ br' = t
        /\ behind' = (behind /\ ~(b.files = 0 /\ b.page = 1))
    BY <1>2, <2>3, <2>5 DEF Draw
  <2>7. /\ t \in Browsers
        /\ t.dir = b.dir /\ t.fmt = b.fmt /\ t.page = b.page /\ t.del = b.del /\ t.drawn = o
        /\ b.files # 0 => t.files = b.files /\ t.pages = b.pages
        /\ b.files = 0 => t.files = Len(Entries(c, b)) /\ t.pages = PagesOf(Len(Entries(c, b)))
    <3>1. Recounted(c, b, o, t)
      BY <2>1, <2>2, <2>4, <2>5, CountedFields, Zenon
    <3> QED BY <3>1 DEF Recounted
  <2>8. Entries(c, t) = Entries(c, b) /\ OnPage(c, t) = o /\ StartFile(t) = StartFile(b)
    BY <2>3, <2>7, SameEntries, SamePageShown
  <2>9. ASSUME ~behind' PROVE CountsRight(c, t)
    <3>1. ~behind \/ (b.files = 0 /\ b.page = 1)
      BY <2>6, <2>9
    <3>2. /\ b.files # 0 => b.files = Len(Entries(c, b)) /\ b.pages = PagesOf(b.files)
          /\ StartFile(b) <= Len(Entries(c, b))
      BY <1>2, <3>1 DEF Drawable
    <3> QED BY <2>2, <2>7, <2>8, <3>2 DEF CountsRight
  <2>10. CountInv'
    BY <2>6, <2>9 DEF CountInv, CountsRight, Folders
  <2>11. ViewerInv'
    BY <2>6 DEF ViewerInv
  <2>12. behind' \in BOOLEAN
    BY <2>6
  <2>13. br' \in Browsers /\ Len(br'.dir) <= BROWSER_DEPTH_MAX /\ br'.dir = b.dir /\ br'.fmt = b.fmt
    BY <2>1, <2>6, <2>7
  <2> QED BY <2>6, <2>10, <2>11, <2>12, <2>13 DEF ScreenOK
<1> QED BY <1>1, <1>2

\* The viewer.
Views == [file : Labels, sel : Nat, text : Texts, page : Nat]
ViewOK == view \in Views /\ view.page \in 1 .. GuidePages

\* The folder for SAVE, its type included.
SaveOK ==
  savedir \in Paths /\ Len(savedir) <= BROWSER_DEPTH_MAX /\ orphan \in BOOLEAN /\ SaveInv

\* The browser and the card, their types included.
BrowserOK ==
  /\ Tree(card) /\ behind \in BOOLEAN
  /\ ui \in {"normal", "browser", "keypad", "picture", "guide"}
  /\ br \in Browsers /\ Len(br.dir) <= BROWSER_DEPTH_MAX
  /\ CountInv /\ ViewerInv

\* The inductive invariant.
BrowserInv == BrowserOK /\ SaveOK /\ ViewOK /\ present \in BOOLEAN

\* The parts of the invariant are the type invariant and the three others.
LEMMA InvIsTyped == BrowserInv <=> TypeOK /\ CountInv /\ ViewerInv /\ SaveInv
BY DEF BrowserInv, BrowserOK, SaveOK, ViewOK, Views, TypeOK

\* A guide is a text, and has a number of pages.
LEMMA TextsAreTexts ==
  ASSUME NEW t \in Texts
  PROVE  t \in Text /\ guide_pages(t) \in Nat
<1>1. PICK n \in 0 .. TextMax : t \in [1 .. n -> LineKinds]
  BY DEF Texts
<1>2. n \in Nat
  <2>1. TextMax \in Nat
    BY BrowserConstants
  <2> QED BY <1>1, <2>1
<1>3. t \in Text
  BY <1>1, <1>2 DEF Text
<1>4. HeadsTo(t, Len(t)) = Heads(t) /\ Cardinality(Heads(t)) \in Nat
  <2>1. Len(t) \in Nat /\ Len(t) \in 0 .. Len(t)
    BY <1>3 DEF Text
  <2> QED BY <1>3, <2>1, HeadsFinite
<1> QED BY <1>3, <1>4, PagesAreSections

\* So is the text of no lines.
LEMMA EmptyText == <<>> \in Texts
<1>1. 0 \in 0 .. TextMax
  <2>1. TextMax \in Nat
    BY BrowserConstants
  <2> QED BY <2>1
<1>2. <<>> \in [1 .. 0 -> LineKinds]
  OBVIOUS
<1> QED BY <1>1, <1>2 DEF Texts

\* A viewer that opens a file is on its first page.
LEMMA ViewMade ==
  ASSUME NEW f \in Labels, NEW n \in Nat, NEW t \in Texts,
         view' = [file |-> f, sel |-> n, text |-> t, page |-> 1]
  PROVE  ViewOK'
<1>1. guide_pages(t) \in Nat
  BY TextsAreTexts
<1>2. view' \in Views /\ view'.page = 1 /\ view'.text = t
  BY DEF Views
<1>3. GuidePages' = IF guide_pages(t) < 1 THEN 1 ELSE guide_pages(t)
  BY <1>2 DEF GuidePages
<1>4. 1 \in 1 .. GuidePages'
  BY <1>1, <1>3
<1> QED BY <1>2, <1>4 DEF ViewOK

\* A step that leaves the viewer alone.
LEMMA ViewKept ==
  ASSUME ViewOK, UNCHANGED view
  PROVE  ViewOK'
BY DEF ViewOK, GuidePages

\* A viewer that is closed.
LEMMA NoViewMade ==
  ASSUME view' = NoView
  PROVE  ViewOK'
<1>1. "" \in Labels /\ 0 \in Nat
  BY DEF Labels
<1>2. view' = [file |-> "", sel |-> 0, text |-> <<>>, page |-> 1]
  BY DEF NoView
<1> QED BY <1>1, <1>2, EmptyText, ViewMade

-----------------------------------------------------------------------------
\* browser_note_savedir notes a folder that exists, or that is known not to.
LEMMA NoteStep ==
  ASSUME SaveOK, NEW b \in Browsers, Len(b.dir) <= BROWSER_DEPTH_MAX, NoteSavedir(b), card' = card,
         ui' # "normal" => br'.dir = b.dir /\ br'.fmt = b.fmt
  PROVE  SaveOK'
<1>1. b.dir \in Paths
  BY BrowserFields
<1>2. CASE b.fmt = "guide"
  <2>1. savedir' = savedir /\ orphan' = orphan
    BY <1>2 DEF NoteSavedir
  <2>2. SaveDirExists'
    BY <2>1 DEF SaveOK, SaveInv, SaveDirExists, Folders
  <2>3. SaveInv'
    BY <1>2, <2>2 DEF SaveInv
  <2> QED BY <2>1, <2>3 DEF SaveOK
<1>3. CASE b.fmt # "guide"
  <2>1. savedir' = b.dir /\ orphan' = (Resolve(b.dir) \notin DOMAIN card)
    BY <1>3 DEF NoteSavedir, NotedDir
  <2>2. orphan' \in BOOLEAN
    BY <2>1
  <2>3. orphan' \/ Resolve(savedir') \in DOMAIN card'
    BY <2>1
  <2>4. SaveDirExists'
    BY <2>3 DEF SaveDirExists, Folders
  <2>5. SaveInv'
    BY <2>1, <2>4 DEF SaveInv
  <2> QED BY <1>1, <2>1, <2>2, <2>5 DEF SaveOK
<1> QED BY <1>2, <1>3

\* browser_goto_folder counts the folder anew, and notes it for SAVE.
LEMMA GotoStep ==
  ASSUME BrowserInv, NEW dir \in Paths, Len(dir) <= BROWSER_DEPTH_MAX, GotoFolder(dir)
  PROVE  /\ BrowserOK' /\ SaveOK' /\ card' = card /\ view' = view
         /\ Readable(card, [dir |-> dir]) => br'.dir = dir
<1>1. br \in Browsers /\ Tree(card) /\ behind \in BOOLEAN
  BY DEF BrowserInv, BrowserOK
<1>2. PICK b : b = [br EXCEPT !.dir = dir, !.page = 1, !.files = 0]
  OBVIOUS
<1>3. b \in Browsers /\ b.dir = dir /\ b.page = 1 /\ b.files = 0
  <2>1. PICK x : x = [br EXCEPT !.dir = dir]
    OBVIOUS
  <2>2. x \in Browsers /\ x.dir = dir
    BY <1>1, <2>1 DEF Browsers
  <2>3. PICK y : y = [x EXCEPT !.page = 1]
    OBVIOUS
  <2>4. y \in Browsers /\ y.dir = dir /\ y.page = 1
    BY <2>2, <2>3 DEF Browsers
  <2>5. b = [y EXCEPT !.files = 0]
    BY <1>2, <2>1, <2>3
  <2> QED BY <2>4, <2>5 DEF Browsers
<1>4. NoteSavedir(b) /\ Draw(card, b) /\ card' = card /\ view' = view
  BY <1>2 DEF GotoFolder, FirstPage
<1>5. Drawable(card, b)
  <2>1. ASSUME Readable(card, b) PROVE StartFile(b) <= Len(Entries(card, b))
    <3>1. Resolve(b.dir) \in DOMAIN card
      BY <2>1 DEF Readable
    <3>2. Len(Entries(card, b)) \in Nat
      BY <1>1, <1>3, <3>1, PageShown
    <3>3. StartFile(b) = 0
      <4>1. FILES_PER_PAGE \in Nat
        BY BrowserConstants
      <4>2. b.page - 1 = 0
        BY <1>3
      <4> QED BY <4>1, <4>2 DEF StartFile
    <3> QED BY <3>2, <3>3
  <2> QED BY <1>1, <1>3, <2>1 DEF Drawable
<1>6. /\ ScreenOK'
      /\ ui' # "normal" => br'.dir = b.dir /\ br'.fmt = b.fmt
      /\ Readable(card, b) => br'.dir = b.dir
  BY <1>1, <1>4, <1>5, DrawStep
<1>7. SaveOK'
  BY <1>3, <1>4, <1>6, NoteStep DEF BrowserInv
<1>8. BrowserOK'
  BY <1>1, <1>4, <1>6 DEF ScreenOK, BrowserOK
<1>9. Readable(card, [dir |-> dir]) => Readable(card, b)
  BY <1>3 DEF Readable
<1> QED BY <1>3, <1>4, <1>6, <1>7, <1>8, <1>9

-----------------------------------------------------------------------------
(***************************************************************************)
(* The operations.                                                          *)
(***************************************************************************)
\* A delete takes one entry from the folder that the browser shows, and keeps the folder.
LEMMA DeleteKeeps ==
  ASSUME NEW c, Tree(c), NEW b \in Browsers, Resolve(b.dir) \in DOMAIN c, NEW name \in Names,
         NEW u, u = Unlinked(c, Append(b.dir, name))
  PROVE  Resolve(b.dir) \in DOMAIN u /\ Len(Entries(c, b)) <= Len(Entries(u, b)) + 1
<1>1. b.dir \in Paths
  BY BrowserFields
<1>2. PICK R : R = Resolve(b.dir)
  OBVIOUS
<1>3. R \in Seq(Names) /\ Append(b.dir, name) \in Paths /\ Resolve(Append(b.dir, name)) = Append(R, name)
  BY <1>1, <1>2, Resolved
<1>4. PICK p : p = Append(R, name)
  OBVIOUS
<1>5. Front(p) = R /\ Last(p) = name /\ p # R
  BY <1>3, <1>4, AppendFacts
<1>6. Tree(u)
  BY <1>3, UnlinkedTree
<1>7. CASE ~CanUnlink(c, Append(b.dir, name))
  <2>1. u = c
    BY <1>7 DEF Unlinked
  <2>2. Len(Entries(c, b)) \in Nat
    BY PageShown
  <2> QED BY <2>1, <2>2
<1>8. CASE CanUnlink(c, Append(b.dir, name))
  <2>1. Loses(c, u, p, R, name)
    BY <1>3, <1>4, <1>5, <1>8, UnlinkedIs
  <2>2. R \in DOMAIN u /\ u[R] = Kept(c[R], Names \ {name})
    BY <1>2, <1>5, <2>1 DEF Loses
  <2>3. PICK s : s = c[R]
    OBVIOUS
  <2>4. s \in Seq(Names) /\ IsInjective(s)
    BY <1>2, <2>3 DEF Tree
  <2>5. PICK S : S = {n \in Names : Listed(b, n)}
    OBVIOUS
  <2>6. Listing(c, b) = Kept(s, S) /\ Listing(u, b) = Kept(Kept(s, Names \ {name}), S)
    BY <1>2, <2>2, <2>3, <2>5 DEF Listing
  <2>7. (Names \ {name}) \cap S = S \ {name}
    BY <2>5
  <2>8. Listing(u, b) = Kept(s, S \ {name})
    BY <2>4, <2>6, <2>7, KeptTwice
  <2>9. Len(Listing(c, b)) <= Len(Listing(u, b)) + 1
    BY <2>4, <2>6, <2>8, KeptShorter
  <2>10. Lists(Entries(c, b), Listing(c, b), b.dir) /\ Lists(Entries(u, b), Listing(u, b), b.dir)
    BY <1>2, <1>6, <2>2, EntriesFacts
  <2>11. Len(Entries(c, b)) <= Len(Entries(u, b)) + 1
    <3>1. PICK a : a = Len(Listing(c, b))
      OBVIOUS
    <3>2. PICK z : z = Len(Listing(u, b))
      OBVIOUS
    <3>3. a \in Nat /\ z \in Nat
      BY <2>10, <3>1, <3>2 DEF Lists
    <3>4. CASE b.dir = <<>>
      <4>1. Len(Entries(c, b)) = a /\ Len(Entries(u, b)) = z
        BY <2>10, <3>1, <3>2, <3>4 DEF Lists
      <4> QED BY <2>9, <3>1, <3>2, <3>3, <4>1
    <3>5. CASE b.dir # <<>>
      <4>1. Len(Entries(c, b)) = a + 1 /\ Len(Entries(u, b)) = z + 1
        BY <2>10, <3>1, <3>2, <3>5 DEF Lists
      <4>2. a <= z + 1
        BY <2>9, <3>1, <3>2
      <4> QED BY <3>3, <4>1, <4>2
    <3> QED BY <3>4, <3>5
  <2> QED BY <1>2, <2>2, <2>11
<1> QED BY <1>7, <1>8

\* What browser_key_press does after browser_open_file.
LEMMA DoneStep ==
  ASSUME BrowserInv, ui # "normal", NEW c, Tree(c), Done(c),
         ~br.del => c = card,
         ~behind => Resolve(br.dir) \in DOMAIN c /\ StartFile(br) <= Len(Entries(c, br))
  PROVE  BrowserOK' /\ SaveOK' /\ card' = c
<1>1. br \in Browsers /\ Tree(card) /\ behind \in BOOLEAN /\ Len(br.dir) <= BROWSER_DEPTH_MAX
  BY DEF BrowserInv, BrowserOK
<1>2. card' = c /\ savedir' = savedir /\ orphan' = Orphaned(c, behind \/ br.fmt = "guide")
  BY DEF Done
<1>3. FILES_PER_PAGE \in Nat
  BY BrowserConstants
<1>4. ScreenOK' /\ (ui' # "normal" => br'.dir = br.dir /\ br'.fmt = br.fmt)
  <2>1. CASE br.del
    <3>1. PICK x : x = [br EXCEPT !.files = 0]
      OBVIOUS
    <3>2. x \in Browsers /\ x.files = 0 /\ x.dir = br.dir /\ x.fmt = br.fmt /\ x.page = br.page
      BY <1>1, <3>1 DEF Browsers
    <3>3. PICK b : b = [x EXCEPT !.del = FALSE]
      OBVIOUS
    <3>4. b \in Browsers /\ b.files = 0 /\ b.dir = br.dir /\ b.fmt = br.fmt /\ b.page = br.page
      BY <3>2, <3>3 DEF Browsers
    <3>5. b = [br EXCEPT !.files = 0, !.del = FALSE]
      BY <3>1, <3>3
    <3>6. Draw(c, b)
      BY <2>1, <3>5 DEF Done, Recount
    <3>7. ASSUME Readable(c, b), ~behind \/ (b.files = 0 /\ b.page = 1)
          PROVE  StartFile(b) <= Len(Entries(c, b))
      <4>1. Entries(c, b) = Entries(c, br) /\ StartFile(b) = StartFile(br)
        BY <3>4, SameEntries, SamePageShown
      <4>2. CASE ~behind
        BY <4>1, <4>2
      <4>3. CASE b.page = 1
        <5>1. StartFile(b) = 0
          <6>1. b.page - 1 = 0
            BY <4>3
          <6> QED BY <1>3, <6>1 DEF StartFile
        <5>2. Resolve(b.dir) \in DOMAIN c
          BY <3>7 DEF Readable
        <5>3. Len(Entries(c, b)) \in Nat
          BY <3>4, <5>2, PageShown
        <5> QED BY <5>1, <5>3
      <4> QED BY <3>7, <4>2, <4>3
    <3>8. Drawable(c, b)
      BY <1>1, <3>4, <3>7 DEF Drawable
    <3> QED BY <1>1, <1>2, <3>4, <3>6, <3>8, DrawStep
  <2>2. CASE ~br.del /\ br.fmt = "guide"
    <3>1. c = card /\ Draw(card, br)
      BY <2>2 DEF Done
    <3>2. ASSUME Readable(card, br), ~behind \/ (br.files = 0 /\ br.page = 1)
          PROVE  /\ br.files # 0 => br.files = Len(Entries(card, br)) /\ br.pages = PagesOf(br.files)
                 /\ StartFile(br) <= Len(Entries(card, br))
      <4>1. CASE ~behind
        BY <3>1, <4>1 DEF BrowserInv, BrowserOK, CountInv
      <4>2. CASE br.files = 0 /\ br.page = 1
        <5>1. StartFile(br) = 0
          <6>1. br.page - 1 = 0
            BY <4>2
          <6> QED BY <1>3, <6>1 DEF StartFile
        <5>2. Resolve(br.dir) \in DOMAIN card
          BY <3>2 DEF Readable
        <5>3. Len(Entries(card, br)) \in Nat
          BY <1>1, <5>2, PageShown
        <5> QED BY <4>2, <5>1, <5>3
      <4> QED BY <3>2, <4>1, <4>2
    <3>3. Drawable(card, br)
      BY <1>1, <3>2 DEF Drawable
    <3> QED BY <1>1, <1>2, <3>1, <3>3, DrawStep
  <2>3. CASE ~br.del /\ br.fmt # "guide"
    <3>1. Leave
      BY <2>3 DEF Done
    <3> QED BY <3>1, LeaveStep
  <2> QED BY <2>1, <2>2, <2>3
<1>5. BrowserOK'
  BY <1>2, <1>4 DEF ScreenOK, BrowserOK
<1>6. orphan' \/ Resolve(savedir) \in DOMAIN c
  <2>1. CASE behind \/ br.fmt = "guide"
    BY <1>2, <2>1 DEF Orphaned
  <2>2. CASE ~behind /\ br.fmt # "guide"
    <3>1. savedir = br.dir
      BY <2>2 DEF BrowserInv, SaveOK, SaveInv
    <3> QED BY <2>2, <3>1
  <2> QED BY <2>1, <2>2
<1>7. orphan' \in BOOLEAN
  BY <1>2 DEF Orphaned, BrowserInv, SaveOK
<1>8. SaveDirExists'
  BY <1>2, <1>6 DEF SaveDirExists, Folders
<1>9. ui' # "normal" /\ br'.fmt # "guide" => savedir' = br'.dir
  <2>1. SUFFICES ASSUME ui' # "normal", br'.fmt # "guide" PROVE savedir' = br'.dir
    OBVIOUS
  <2>2. br'.dir = br.dir /\ br.fmt # "guide"
    BY <1>4, <2>1
  <2> QED BY <1>2, <2>2 DEF BrowserInv, SaveOK, SaveInv
<1>10. SaveOK'
  BY <1>2, <1>7, <1>8, <1>9 DEF BrowserInv, SaveOK, SaveInv
<1> QED BY <1>2, <1>5, <1>10

-----------------------------------------------------------------------------
\* A walk that ends before the end of the listing has found an entry of it.
LEMMA FoundFacts ==
  ASSUME NEW c, Tree(c), NEW b \in Browsers, NEW n \in Nat, NEW e \in Found(c, b, n)
  PROVE  /\ Resolve(b.dir) \in DOMAIN c
         /\ e.name \in Names \/ e.name = ""
         /\ n < Len(Listing(c, b)) => /\ e.name = Listing(c, b)[n + 1]
                                      /\ e.dir <=> Type[Listing(c, b)[n + 1]] = "dir"
<1>1. Readable(c, b)
  BY DEF Found
<1>2. Resolve(b.dir) \in DOMAIN c
  BY <1>1 DEF Readable
<1>3. PICK l : l = Listing(c, b)
  OBVIOUS
<1>4. l \in Seq(Names) /\ \A k \in 1 .. Len(l) : l[k] \in Names
  BY <1>2, <1>3, ListingFacts
<1>5. CASE n < Len(l)
  <2>1. PICK d : d = (Type[l[n + 1]] = "dir")
    OBVIOUS
  <2>2. PICK m : m = l[n + 1]
    OBVIOUS
  <2>3. e = [name |-> m, dir |-> d]
    BY <1>1, <1>3, <1>5, <2>1, <2>2, Zenon DEF Found
  <2>4. e.name = m /\ e.dir = d
    BY <2>3, Zenon
  <2>5. n + 1 \in 1 .. Len(l)
    BY <1>4, <1>5
  <2>6. m \in Names
    BY <1>4, <2>2, <2>5
  <2>7. d <=> Type[l[n + 1]] = "dir"
    BY <2>1
  <2> QED BY <1>2, <1>3, <2>2, <2>4, <2>6, <2>7
<1>6. CASE ~(n < Len(l))
  <2>1. e \in {[name |-> "", dir |-> d] : d \in EndIsDir(c, b)}
    BY <1>1, <1>3, <1>6 DEF Found
  <2>2. e.name = ""
    <3>1. PICK d \in EndIsDir(c, b) : e = [name |-> "", dir |-> d]
      BY <2>1, Zenon
    <3> QED BY <3>1, Zenon
  <2> QED BY <1>2, <1>3, <1>6, <2>2
<1> QED BY <1>5, <1>6

\* file_opt[].load, and the viewer that it opens.
LEMMA LoadStep ==
  ASSUME BrowserInv, ui # "normal", ~br.del, NEW n \in Nat, NEW name \in Labels, Load(n, name),
         present' = present, br.files > 0 /\ (br.dir # <<>> => br.files > 1)
  PROVE  BrowserInv'
<1>1. Tree(card) /\ present \in BOOLEAN /\ ViewOK
  BY DEF BrowserInv, BrowserOK
<1>2. ASSUME Done(card) PROVE BrowserOK' /\ SaveOK'
  <2>1. ~behind => Resolve(br.dir) \in DOMAIN card /\ StartFile(br) <= Len(Entries(card, br))
    BY DEF BrowserInv, BrowserOK, CountInv, Folders
  <2> QED BY <1>1, <1>2, <2>1, DoneStep
<1>3. ASSUME UNCHANGED <<card, br, savedir, behind, orphan>>, ui' \in {"picture", "guide"}
      PROVE  BrowserOK' /\ SaveOK'
  <2>1. CountInv'
    BY <1>3 DEF BrowserInv, BrowserOK, CountInv, Folders
  <2>2. ViewerInv'
    BY <1>3 DEF ViewerInv
  <2>3. BrowserOK'
    BY <1>3, <2>1, <2>2 DEF BrowserInv, BrowserOK
  <2>4. SaveOK'
    BY <1>3 DEF BrowserInv, SaveOK, SaveInv, SaveDirExists, Folders
  <2> QED BY <2>3, <2>4
<1>4. CASE name = "" /\ Done(card) /\ UNCHANGED view
  BY <1>1, <1>2, <1>4, ViewKept DEF BrowserInv
<1>5. CASE Done(card) /\ view' = [NoView EXCEPT !.file = name]
  <2>1. view' = [file |-> name, sel |-> 0, text |-> <<>>, page |-> 1]
    BY <1>5 DEF NoView
  <2>2. ViewOK'
    BY <2>1, EmptyText, ViewMade
  <2> QED BY <1>1, <1>2, <1>5, <2>2 DEF BrowserInv
<1>6. CASE /\ ui' = "picture" /\ view' = [NoView EXCEPT !.file = name, !.sel = n]
           /\ UNCHANGED <<card, br, savedir, behind, orphan>>
  <2>1. view' = [file |-> name, sel |-> n, text |-> <<>>, page |-> 1]
    BY <1>6 DEF NoView
  <2>2. ViewOK'
    BY <2>1, EmptyText, ViewMade
  <2> QED BY <1>1, <1>3, <1>6, <2>2 DEF BrowserInv
<1>7. CASE /\ ui' = "guide" /\ \E t \in Texts : view' = [NoView EXCEPT !.file = name, !.text = t]
           /\ UNCHANGED <<card, br, savedir, behind, orphan>>
  <2>1. PICK t \in Texts : view' = [NoView EXCEPT !.file = name, !.text = t]
    BY <1>7
  <2>2. view' = [file |-> name, sel |-> 0, text |-> t, page |-> 1]
    BY <2>1 DEF NoView
  <2>3. ViewOK'
    BY <2>2, ViewMade
  <2> QED BY <1>1, <1>3, <1>7, <2>3 DEF BrowserInv
<1> QED BY <1>4, <1>5, <1>6, <1>7 DEF Load

\* browser_open_file, from the walk on.  In delete mode the walk has to end within
\* the listing: past its end the folder on the screen is what is deleted.
LEMMA TakeStep ==
  ASSUME BrowserInv, ui # "normal", NEW n \in Nat, Take(n), present' = present,
         br.files > 0 /\ (br.dir # <<>> => br.files > 1),
         br.del /\ ~behind => n < Len(Listing(card, br)) /\ StartFile(br) + 1 <= br.files
  PROVE  BrowserInv'
<1>1. /\ Tree(card) /\ present \in BOOLEAN /\ ViewOK /\ br \in Browsers
      /\ Len(br.dir) <= BROWSER_DEPTH_MAX
  BY DEF BrowserInv, BrowserOK
<1>2. br.dir \in Paths
  BY <1>1, BrowserFields
<1>3. ~behind => /\ Resolve(br.dir) \in DOMAIN card /\ br.files = Len(Entries(card, br))
                 /\ StartFile(br) <= Len(Entries(card, br))
  BY DEF BrowserInv, BrowserOK, CountInv, Folders
<1>4. CASE Done(card) /\ UNCHANGED view
  <2>1. BrowserOK' /\ SaveOK'
    BY <1>1, <1>3, <1>4, DoneStep
  <2> QED BY <1>1, <1>4, <2>1, ViewKept DEF BrowserInv
<1>5. ASSUME NEW e \in Found(card, br, n) PROVE
        /\ br.del /\ Done(Unlinked(card, Append(br.dir, e.name))) /\ UNCHANGED view => BrowserInv'
        /\ ~br.del /\ e.dir /\ GotoFolder(IF Len(br.dir) < BROWSER_DEPTH_MAX THEN Append(br.dir, e.name)
                                          ELSE br.dir) => BrowserInv'
        /\ ~br.del /\ ~e.dir /\ Load(n, e.name) => BrowserInv'
  <2>1. PICK m : m = e.name
    OBVIOUS
  <2>2. m \in Names \/ m = ""
    BY <1>1, <1>5, <2>1, FoundFacts
  <2>3. n < Len(Listing(card, br)) => m = Listing(card, br)[n + 1] /\ Resolve(br.dir) \in DOMAIN card
    BY <1>1, <1>5, <2>1, FoundFacts
  <2>4. Append(br.dir, m) \in Paths
    BY <1>2, <2>2, Resolved
  <2>5. m \in Labels
    BY <2>2 DEF Labels
  <2>6. ASSUME br.del, Done(Unlinked(card, Append(br.dir, m))), UNCHANGED view PROVE BrowserInv'
    <3>1. PICK u : u = Unlinked(card, Append(br.dir, m))
      OBVIOUS
    <3>2. Tree(u)
      BY <1>1, <2>4, <3>1, UnlinkedTree
    <3>3. ASSUME ~behind
          PROVE  Resolve(br.dir) \in DOMAIN u /\ StartFile(br) <= Len(Entries(u, br))
      <4>1. n < Len(Listing(card, br)) /\ StartFile(br) + 1 <= br.files
        BY <2>6, <3>3
      <4>2. PICK l : l = Listing(card, br)
        OBVIOUS
      <4>3. l \in Seq(Names) /\ \A k \in 1 .. Len(l) : l[k] \in Names
        BY <1>1, <1>3, <3>3, <4>2, ListingFacts
      <4>4. m \in Names
        <5>1. n + 1 \in 1 .. Len(l)
          BY <4>1, <4>2, <4>3
        <5>2. m = l[n + 1]
          BY <2>3, <4>1, <4>2
        <5> QED BY <4>3, <5>1, <5>2
      <4>5. Resolve(br.dir) \in DOMAIN u /\ Len(Entries(card, br)) <= Len(Entries(u, br)) + 1
        BY <1>1, <1>3, <3>1, <3>3, <4>4, DeleteKeeps
      <4>6. Len(Entries(card, br)) \in Nat /\ Len(Entries(u, br)) \in Nat
        BY <1>1, <1>3, <3>2, <3>3, <4>5, PageShown
      <4>7. StartFile(br) \in Nat
        <5>1. FILES_PER_PAGE \in Nat /\ br.page \in Nat \ {0}
          BY <1>1, BrowserConstants, BrowserFields
        <5> QED BY <5>1 DEF StartFile
      <4>8. StartFile(br) + 1 <= Len(Entries(card, br))
        BY <1>3, <3>3, <4>1
      <4>9. StartFile(br) <= Len(Entries(u, br))
        BY <4>5, <4>6, <4>7, <4>8
      <4> QED BY <4>5, <4>9
    <3>4. Done(u) /\ (~br.del => u = card)
      BY <2>6, <3>1
    <3>5. BrowserOK' /\ SaveOK'
      BY <3>2, <3>3, <3>4, DoneStep
    <3> QED BY <1>1, <2>6, <3>5, ViewKept DEF BrowserInv
  <2>7. ASSUME GotoFolder(IF Len(br.dir) < BROWSER_DEPTH_MAX THEN Append(br.dir, m) ELSE br.dir)
        PROVE  BrowserInv'
    <3>1. PICK d : d = IF Len(br.dir) < BROWSER_DEPTH_MAX THEN Append(br.dir, m) ELSE br.dir
      OBVIOUS
    <3>2. d \in Paths /\ Len(d) <= BROWSER_DEPTH_MAX
      <4>1. CASE Len(br.dir) < BROWSER_DEPTH_MAX
        <5>1. PICK X : X = Names \cup {""}
          OBVIOUS
        <5>2. br.dir \in Seq(X)
          BY <1>2, <5>1 DEF Paths
        <5>3. Len(Append(br.dir, m)) = Len(br.dir) + 1 /\ Len(br.dir) \in Nat
          BY <5>2
        <5>4. BROWSER_DEPTH_MAX \in Nat
          BY BrowserConstants
        <5>5. d = Append(br.dir, m)
          BY <3>1, <4>1
        <5>6. Len(d) = Len(br.dir) + 1
          BY <5>3, <5>5
        <5>7. Len(d) <= BROWSER_DEPTH_MAX
          BY <4>1, <5>3, <5>4, <5>6
        <5> QED BY <2>4, <5>5, <5>7
      <4>2. CASE ~(Len(br.dir) < BROWSER_DEPTH_MAX)
        BY <1>1, <1>2, <3>1, <4>2
      <4> QED BY <4>1, <4>2
    <3>3. BrowserOK' /\ SaveOK' /\ view' = view
      BY <2>7, <3>1, <3>2, GotoStep
    <3> QED BY <1>1, <3>3, ViewKept DEF BrowserInv
  <2>8. ASSUME ~br.del, Load(n, m) PROVE BrowserInv'
    BY <2>5, <2>8, LoadStep
  <2> QED BY <2>1, <2>6, <2>7, <2>8
<1> QED BY <1>4, <1>5 DEF Take

\* The first file of a page.
LEMMA StartIsNat ==
  ASSUME NEW b \in Browsers
  PROVE  StartFile(b) \in Nat /\ FILES_PER_PAGE \in Nat \ {0}
<1>1. FILES_PER_PAGE \in Nat \ {0} /\ b.page \in Nat \ {0}
  BY BrowserConstants, BrowserFields
<1> QED BY <1>1 DEF StartFile

\* The entry on a button that is not ".." is the one that the walk reaches.
LEMMA WalkFacts ==
  ASSUME NEW c, Tree(c), NEW b \in Browsers, Resolve(b.dir) \in DOMAIN c, NEW sel \in Nat,
         sel < Len(Entries(c, b)), ~(b.dir # <<>> /\ sel = 0), NEW n, n = WalkIndex(b, sel)
  PROVE  n \in Nat /\ n < Len(Listing(c, b)) /\ Listing(c, b)[n + 1] = Entries(c, b)[sel + 1]
<1>1. PICK e : e = Entries(c, b)
  OBVIOUS
<1>2. PICK l : l = Listing(c, b)
  OBVIOUS
<1>3. PICK dir : dir = b.dir
  OBVIOUS
<1>4. Lists(e, l, dir)
  BY <1>1, <1>2, <1>3, EntriesFacts
<1>5. /\ Len(l) \in Nat
      /\ dir = <<>> => Len(e) = Len(l) /\ \A k \in 1 .. Len(l) : e[k] = l[k]
      /\ dir # <<>> => Len(e) = Len(l) + 1 /\ \A k \in 1 .. Len(l) : e[k + 1] = l[k]
  BY <1>4 DEF Lists
<1>6. n = IF dir = <<>> THEN sel ELSE sel - 1
  BY <1>3 DEF WalkIndex
<1>7. CASE dir = <<>>
  <2>1. n = sel /\ n + 1 \in 1 .. Len(l) /\ n < Len(l)
    BY <1>1, <1>5, <1>6, <1>7
  <2>2. e[n + 1] = l[n + 1]
    BY <1>5, <1>7, <2>1
  <2> QED BY <1>1, <1>2, <2>1, <2>2
<1>8. CASE dir # <<>>
  <2>1. sel # 0 /\ n = sel - 1
    BY <1>3, <1>6, <1>8
  <2>2. n \in Nat /\ n + 1 = sel /\ n + 1 \in 1 .. Len(l) /\ n < Len(l)
    BY <1>1, <1>5, <1>8, <2>1
  <2>3. e[(n + 1) + 1] = l[n + 1]
    BY <1>5, <1>8, <2>2
  <2> QED BY <1>1, <1>2, <2>2, <2>3
<1> QED BY <1>7, <1>8

\* A file button.
LEMMA PressStep ==
  ASSUME BrowserInv, NEW k \in 1 .. FILES_PER_PAGE, PressFile(k)
  PROVE  BrowserInv'
<1>1. /\ Tree(card) /\ present \in BOOLEAN /\ ViewOK /\ br \in Browsers
      /\ Len(br.dir) <= BROWSER_DEPTH_MAX
  BY DEF BrowserInv, BrowserOK
<1>2. br.dir \in Paths /\ br.files \in Nat
  BY <1>1, BrowserFields
<1>3. ui = "browser" /\ present' = present
  BY DEF PressFile
<1>4. ~behind => /\ Resolve(br.dir) \in DOMAIN card /\ br.files = Len(Entries(card, br))
                 /\ StartFile(br) <= Len(Entries(card, br))
  BY <1>3 DEF BrowserInv, BrowserOK, CountInv, Folders
<1>5. PICK sel : sel = StartFile(br) + k - 1
  OBVIOUS
<1>6. sel \in Nat /\ StartFile(br) \in Nat /\ StartFile(br) <= sel
  BY <1>1, <1>5, StartIsNat
<1>7. CASE Done(card) /\ UNCHANGED view
  <2>1. BrowserOK' /\ SaveOK'
    BY <1>1, <1>3, <1>4, <1>7, DoneStep
  <2> QED BY <1>1, <1>3, <1>7, <2>1, ViewKept DEF BrowserInv
<1>8. CASE /\ br.dir # <<>> /\ sel = 0
           /\ IF br.del THEN UNCHANGED <<card, ui, br, view, savedir, behind, orphan>>
              ELSE GotoFolder(Front(br.dir))
  <2>1. CASE br.del
    <3>1. UNCHANGED <<card, ui, br, view, savedir, behind, orphan>>
      BY <1>8, <2>1
    <3>2. BrowserOK'
      BY <3>1 DEF BrowserInv, BrowserOK, CountInv, ViewerInv, Folders
    <3>3. SaveOK'
      BY <3>1 DEF BrowserInv, SaveOK, SaveInv, SaveDirExists, Folders
    <3> QED BY <1>1, <1>3, <3>1, <3>2, <3>3, ViewKept DEF BrowserInv
  <2>2. CASE ~br.del
    <3>1. PICK X : X = Names \cup {""}
      OBVIOUS
    <3>2. br.dir \in Seq(X)
      BY <1>2, <3>1 DEF Paths
    <3>3. PICK d : d = Front(br.dir)
      OBVIOUS
    <3>4. PICK a : a = br.dir
      OBVIOUS
    <3>5. d \in Seq(X) /\ a = Append(d, Last(a)) /\ Last(a) \in X
      BY <1>8, <3>2, <3>3, <3>4, FrontLast
    <3>6. Len(a) = Len(d) + 1 /\ Len(d) \in Nat
      BY <3>5
    <3>7. Len(d) <= BROWSER_DEPTH_MAX
      <4>1. BROWSER_DEPTH_MAX \in Nat
        BY BrowserConstants
      <4> QED BY <1>1, <3>4, <3>6, <4>1
    <3>8. d \in Paths /\ GotoFolder(d)
      BY <1>8, <2>2, <3>1, <3>3, <3>5 DEF Paths
    <3>9. BrowserOK' /\ SaveOK' /\ view' = view
      BY <3>7, <3>8, GotoStep
    <3> QED BY <1>1, <1>3, <3>9, ViewKept DEF BrowserInv
  <2> QED BY <2>1, <2>2
<1>9. CASE sel < br.files /\ ~(br.dir # <<>> /\ sel = 0) /\ Take(WalkIndex(br, sel))
  <2>1. PICK n : n = WalkIndex(br, sel)
    OBVIOUS
  <2>2. n \in Nat
    BY <1>6, <1>9, <2>1 DEF WalkIndex
  <2>3. br.files > 0 /\ (br.dir # <<>> => br.files > 1)
    BY <1>2, <1>6, <1>9
  <2>4. ASSUME ~behind PROVE n < Len(Listing(card, br)) /\ StartFile(br) + 1 <= br.files
    <3>1. n < Len(Listing(card, br))
      BY <1>1, <1>4, <1>6, <1>9, <2>1, <2>4, WalkFacts
    <3>2. StartFile(br) + 1 <= br.files
      BY <1>2, <1>6, <1>9
    <3> QED BY <3>1, <3>2
  <2>5. Take(n)
    BY <1>9, <2>1
  <2> QED BY <1>3, <2>2, <2>3, <2>4, <2>5, TakeStep
<1> QED BY <1>5, <1>7, <1>8, <1>9 DEF PressFile

\* Power-up.
LEMMA InitOK ==
  ASSUME Init
  PROVE  BrowserInv
<1>1. Tree(card)
  BY CardsAssumption DEF Init
<1>2. br \in Browsers /\ Len(br.dir) <= BROWSER_DEPTH_MAX
  BY ClosedFacts DEF Init
<1>3. behind \in BOOLEAN /\ orphan \in BOOLEAN /\ present \in BOOLEAN /\ ui = "normal"
  BY DEF Init
<1>4. CountInv /\ ViewerInv
  BY <1>3 DEF CountInv, ViewerInv
<1>5. BrowserOK
  BY <1>1, <1>2, <1>3, <1>4 DEF BrowserOK
<1>6. savedir = <<>> /\ savedir \in Paths /\ Len(savedir) <= BROWSER_DEPTH_MAX
  <2>1. savedir = Closed.dir
    BY ClosedFacts DEF Init
  <2> QED BY <2>1, ClosedFacts, BrowserFields
<1>7. SaveDirExists
  <2>1. Resolve(savedir) = <<>>
    BY <1>6, Resolved
  <2>2. <<>> \in DOMAIN card
    BY <1>1 DEF Tree
  <2> QED BY <2>1, <2>2 DEF SaveDirExists, Folders
<1>8. SaveOK
  BY <1>3, <1>6, <1>7 DEF SaveOK, SaveInv
<1>9. ViewOK
  <2>1. view = NoView
    BY DEF Init
  <2>2. "" \in Labels /\ <<>> \in Texts /\ guide_pages(<<>>) \in Nat
    BY EmptyText, TextsAreTexts DEF Labels
  <2>3. view = [file |-> "", sel |-> 0, text |-> <<>>, page |-> 1]
    BY <2>1 DEF NoView
  <2>4. PICK t : t = <<>>
    OBVIOUS
  <2>a. PICK f \in Labels : f = ""
    BY <2>2
  <2>5. t \in Texts /\ guide_pages(t) \in Nat /\ view = [file |-> f, sel |-> 0, text |-> t, page |-> 1]
    BY <2>2, <2>3, <2>4, <2>a, Zenon
  <2>6. view \in Views /\ view.page = 1 /\ view.text = t
    BY <2>2, <2>5 DEF Views
  <2>7. GuidePages = IF guide_pages(t) < 1 THEN 1 ELSE guide_pages(t)
    BY <2>6 DEF GuidePages
  <2>8. 1 \in 1 .. GuidePages
    BY <2>5, <2>7
  <2> QED BY <2>6, <2>8 DEF ViewOK
<1> QED BY <1>3, <1>5, <1>8, <1>9 DEF BrowserInv

\* The counts of a browser that is not drawn anew.
LEMMA CountsKept ==
  ASSUME CountInv, card' = card, behind' = behind, ui # "normal",
         br'.dir = br.dir, br'.fmt = br.fmt, br'.page = br.page, br'.pages = br.pages,
         br'.files = br.files, br'.drawn = br.drawn
  PROVE  CountInv'
<1>1. SUFFICES ASSUME ~behind PROVE CountsRight(card, br')
  BY DEF CountInv, CountsRight, Folders
<1>2. CountsRight(card, br)
  BY <1>1 DEF CountInv, CountsRight, Folders
<1>3. PICK a : a = br'
  OBVIOUS
<1>4. CountsRight(card, a)
  BY <1>2, <1>3, SameCounts
<1> QED BY <1>3, <1>4

\* The folder for SAVE, while no folder is lost.
LEMMA SaveKept ==
  ASSUME SaveOK, UNCHANGED <<savedir, orphan>>, DOMAIN card \subseteq DOMAIN card',
         ui' # "normal" => ui # "normal" /\ br'.dir = br.dir /\ br'.fmt = br.fmt
  PROVE  SaveOK'
<1>1. SaveDirExists'
  BY DEF SaveOK, SaveInv, SaveDirExists, Folders
<1> QED BY <1>1 DEF SaveOK, SaveInv

\* ui_mode_browser.
LEMMA ModeStep ==
  ASSUME BrowserInv, NEW fmt \in Formats, ModeBrowser(fmt)
  PROVE  BrowserInv'
<1>1. Tree(card) /\ present \in BOOLEAN /\ SaveOK /\ behind \in BOOLEAN
  BY DEF BrowserInv, BrowserOK
<1>2. PICK d : d = IF fmt = "guide" THEN <<GUIDES>> ELSE <<>>
  OBVIOUS
<1>3. d \in Paths /\ Len(d) <= BROWSER_DEPTH_MAX
  <2>1. PICK X : X = Names \cup {""}
    OBVIOUS
  <2>2. PICK g : g = GUIDES
    OBVIOUS
  <2>3. g \in X
    BY <2>1, <2>2, BrowserConstants
  <2>4. BROWSER_DEPTH_MAX \in Nat \ {0}
    BY BrowserConstants
  <2>5. d = IF fmt = "guide" THEN <<g>> ELSE <<>>
    BY <1>2, <2>2
  <2>6. d = <<g>> \/ d = <<>>
    BY <2>5
  <2>7. d \in Seq(X) /\ Len(d) <= BROWSER_DEPTH_MAX
    <3>1. CASE d = <<g>>
      <4>1. d \in Seq(X) /\ Len(d) = 1
        BY <2>3, <3>1
      <4> QED BY <2>4, <4>1
    <3>2. CASE d = <<>>
      <4>1. d \in Seq(X) /\ Len(d) = 0
        BY <3>2
      <4> QED BY <2>4, <4>1
    <3> QED BY <2>6, <3>1, <3>2
  <2> QED BY <2>1, <2>7 DEF Paths
<1>4. PICK b : b = [Closed EXCEPT !.dir = d, !.fmt = fmt]
  OBVIOUS
<1>5. b \in Browsers /\ b.dir = d /\ b.files = 0 /\ b.page = 1
  <2>1. PICK x : x = [Closed EXCEPT !.dir = d]
    OBVIOUS
  <2>2. x \in Browsers /\ x.dir = d /\ x.files = 0 /\ x.page = 1
    BY <1>3, <2>1, ClosedFacts DEF Browsers
  <2>3. b = [x EXCEPT !.fmt = fmt]
    BY <1>4, <2>1
  <2> QED BY <2>2, <2>3 DEF Browsers
<1>6. NoteSavedir(b) /\ Draw(card, b) /\ view' = NoView /\ card' = card /\ present' = present
  BY <1>2, <1>4 DEF ModeBrowser
<1>7. Drawable(card, b)
  <2>1. ASSUME Readable(card, b) PROVE StartFile(b) <= Len(Entries(card, b))
    <3>1. Resolve(b.dir) \in DOMAIN card
      BY <2>1 DEF Readable
    <3>2. Len(Entries(card, b)) \in Nat
      BY <1>1, <1>5, <3>1, PageShown
    <3>3. StartFile(b) = 0
      <4>1. FILES_PER_PAGE \in Nat
        BY BrowserConstants
      <4>2. b.page - 1 = 0
        BY <1>5
      <4> QED BY <4>1, <4>2 DEF StartFile
    <3> QED BY <3>2, <3>3
  <2> QED BY <1>1, <1>3, <1>5, <2>1 DEF Drawable
<1>8. ScreenOK' /\ (ui' # "normal" => br'.dir = b.dir /\ br'.fmt = b.fmt)
  BY <1>1, <1>6, <1>7, DrawStep
<1>9. SaveOK'
  BY <1>1, <1>3, <1>5, <1>6, <1>8, NoteStep
<1>10. BrowserOK'
  BY <1>1, <1>6, <1>8 DEF ScreenOK, BrowserOK
<1> QED BY <1>1, <1>6, <1>9, <1>10, NoViewMade DEF BrowserInv

\* A page to turn to, whatever the counts are.
LEMMA TurnStep ==
  ASSUME BrowserInv, NEW p, TurnTo(p), p \in Nat \ {0},
         ~behind => (p - 1) * FILES_PER_PAGE <= br.files
  PROVE  BrowserInv'
<1>1. /\ Tree(card) /\ present \in BOOLEAN /\ SaveOK /\ behind \in BOOLEAN /\ ViewOK
      /\ br \in Browsers /\ Len(br.dir) <= BROWSER_DEPTH_MAX
  BY DEF BrowserInv, BrowserOK
<1>2. ui = "browser" /\ Draw(card, [br EXCEPT !.page = p]) /\ UNCHANGED <<card, present, view, savedir, orphan>>
  BY DEF TurnTo
<1>3. PICK b : b = [br EXCEPT !.page = p]
  OBVIOUS
<1>4. /\ b \in Browsers /\ b.dir = br.dir /\ b.fmt = br.fmt /\ b.page = p /\ b.files = br.files
      /\ b.pages = br.pages
  BY <1>1, <1>3 DEF Browsers
<1>5. ASSUME Readable(card, b), ~behind \/ (b.files = 0 /\ b.page = 1)
      PROVE  /\ b.files # 0 => b.files = Len(Entries(card, b)) /\ b.pages = PagesOf(b.files)
             /\ StartFile(b) <= Len(Entries(card, b))
  <2>1. Resolve(b.dir) \in DOMAIN card
    BY <1>5 DEF Readable
  <2>2. Len(Entries(card, b)) \in Nat /\ Entries(card, b) = Entries(card, br)
    <3>1. Len(Entries(card, b)) \in Nat
      BY <1>1, <1>4, <2>1, PageShown
    <3>2. Entries(card, b) = Entries(card, br)
      BY <1>4, SameEntries
    <3> QED BY <3>1, <3>2
  <2>3. CASE ~behind
    <3>1. br.files = Len(Entries(card, br)) /\ br.pages = PagesOf(br.files)
      BY <1>2, <2>3 DEF BrowserInv, BrowserOK, CountInv
    <3>2. StartFile(b) = (p - 1) * FILES_PER_PAGE
      BY <1>4 DEF StartFile
    <3> QED BY <1>4, <2>2, <2>3, <3>1, <3>2
  <2>4. CASE b.files = 0 /\ b.page = 1
    <3>1. StartFile(b) = 0
      <4>1. FILES_PER_PAGE \in Nat
        BY BrowserConstants
      <4>2. b.page - 1 = 0
        BY <2>4
      <4> QED BY <4>1, <4>2 DEF StartFile
    <3> QED BY <2>2, <2>4, <3>1
  <2> QED BY <1>5, <2>3, <2>4
<1>6. Drawable(card, b)
  BY <1>1, <1>4, <1>5 DEF Drawable
<1>7. Draw(card, b) /\ card' = card
  BY <1>2, <1>3
<1>8. ScreenOK' /\ (ui' # "normal" => br'.dir = b.dir /\ br'.fmt = b.fmt)
  BY <1>1, <1>6, <1>7, DrawStep
<1>9. SaveOK'
  BY <1>1, <1>2, <1>4, <1>8, SaveKept
<1>10. BrowserOK'
  BY <1>1, <1>2, <1>8 DEF ScreenOK, BrowserOK
<1> QED BY <1>1, <1>2, <1>9, <1>10, ViewKept DEF BrowserInv

\* The arrows.
LEMMA PageTurned ==
  ASSUME BrowserInv, Turn
  PROVE  BrowserInv'
<1>1. br \in Browsers
  BY DEF BrowserInv, BrowserOK
<1>2. br.page \in Nat \ {0} /\ br.pages \in Nat \ {0} /\ br.files \in Nat
  BY <1>1, BrowserFields
<1>3. PICK l : l = LeftPage(br)
  OBVIOUS
<1>4. PICK r : r = RightPage(br)
  OBVIOUS
<1>5. l = br.pages \/ (l \in Nat \ {0} /\ l = br.page - 1)
  BY <1>2, <1>3 DEF LeftPage
<1>6. r = 1 \/ (r = br.page + 1 /\ r <= br.pages)
  BY <1>2, <1>4 DEF RightPage
<1>7. l \in Nat \ {0} /\ r \in Nat \ {0}
  BY <1>2, <1>5, <1>6
<1>8. ASSUME ~behind, ui = "browser"
      PROVE  (l - 1) * FILES_PER_PAGE <= br.files /\ (r - 1) * FILES_PER_PAGE <= br.files
  <2>1. br.pages = PagesOf(br.files) /\ StartFile(br) <= br.files
    BY <1>8 DEF BrowserInv, BrowserOK, CountInv
  <2>2. r <= br.pages
    BY <1>2, <1>6
  <2>3. (r - 1) * FILES_PER_PAGE <= br.files
    BY <1>2, <1>7, <2>1, <2>2, PageStarts
  <2>4. CASE l = br.pages
    <3>1. (l - 1) * FILES_PER_PAGE <= br.files
      BY <1>2, <1>7, <2>1, <2>4, PageStarts
    <3> QED BY <2>3, <3>1
  <2>5. CASE l \in Nat \ {0} /\ l = br.page - 1
    <3>1. PICK f \in Nat : f = FILES_PER_PAGE
      BY BrowserConstants
    <3>2. l - 1 \in Nat /\ br.page - 1 \in Nat /\ l - 1 <= br.page - 1
      BY <1>2, <2>5
    <3>3. (l - 1) * f <= (br.page - 1) * f /\ (l - 1) * f \in Nat /\ (br.page - 1) * f \in Nat
      BY <3>1, <3>2, Monotone
    <3>4. (br.page - 1) * f <= br.files
      BY <2>1, <3>1 DEF StartFile
    <3>5. (l - 1) * FILES_PER_PAGE <= br.files
      BY <1>2, <3>1, <3>3, <3>4
    <3> QED BY <2>3, <3>5
  <2> QED BY <1>5, <2>4, <2>5
<1>9. CASE TurnTo(l)
  <2>1. ui = "browser"
    BY <1>9 DEF TurnTo
  <2> QED BY <1>7, <1>8, <1>9, <2>1, TurnStep
<1>10. CASE TurnTo(r)
  <2>1. ui = "browser"
    BY <1>10 DEF TurnTo
  <2> QED BY <1>7, <1>8, <1>10, <2>1, TurnStep
<1> QED BY <1>3, <1>4, <1>9, <1>10 DEF Turn

\* The button of the delete mode.
LEMMA DeleteToggled ==
  ASSUME BrowserInv, ToggleDelete
  PROVE  BrowserInv'
<1>1. br \in Browsers /\ CountInv /\ SaveOK /\ ViewOK /\ Tree(card) /\ Len(br.dir) <= BROWSER_DEPTH_MAX
  BY DEF BrowserInv, BrowserOK
<1>2. /\ ui = "browser" /\ br' = [br EXCEPT !.del = ~br.del]
      /\ UNCHANGED <<card, present, ui, view, savedir, behind, orphan>>
  BY DEF ToggleDelete
<1>3. PICK b : b = br'
  OBVIOUS
<1>4. /\ b \in Browsers /\ b.dir = br.dir /\ b.fmt = br.fmt /\ b.page = br.page /\ b.pages = br.pages
      /\ b.files = br.files /\ b.drawn = br.drawn
  <2>1. PICK d \in BOOLEAN : d = ~br.del
    BY <1>1, BrowserFields
  <2>2. b = [br EXCEPT !.del = d]
    BY <1>2, <1>3, <2>1
  <2> QED BY <1>1, <2>2 DEF Browsers
<1>5. CountInv'
  BY <1>1, <1>2, <1>3, <1>4, CountsKept
<1>6. ViewerInv'
  BY <1>2 DEF ViewerInv
<1>7. SaveOK'
  BY <1>1, <1>2, <1>3, <1>4, SaveKept
<1>8. BrowserOK'
  BY <1>1, <1>2, <1>3, <1>4, <1>5, <1>6 DEF BrowserInv, BrowserOK
<1> QED BY <1>1, <1>2, <1>7, <1>8, ViewKept DEF BrowserInv

\* EXIT.
LEMMA Exited ==
  ASSUME BrowserInv, Exit
  PROVE  BrowserInv'
<1>1. SaveOK /\ ViewOK /\ Tree(card) /\ present \in BOOLEAN
  BY DEF BrowserInv, BrowserOK
<1>2. Leave /\ UNCHANGED <<card, present, view, savedir, orphan>>
  BY DEF Exit
<1>3. ScreenOK' /\ ui' = "normal"
  BY <1>2, LeaveStep
<1>4. SaveOK'
  BY <1>1, <1>2, <1>3, SaveKept
<1>5. BrowserOK'
  BY <1>1, <1>2, <1>3 DEF ScreenOK, BrowserOK
<1> QED BY <1>1, <1>2, <1>4, <1>5, ViewKept DEF BrowserInv

\* NEW.
LEMMA KeypadOpened ==
  ASSUME BrowserInv, NewFolder
  PROVE  BrowserInv'
<1>1. /\ ui = "browser" /\ ui' = "keypad"
      /\ UNCHANGED <<card, present, br, view, savedir, behind, orphan>>
  BY DEF NewFolder
<1>2. CountInv'
  BY <1>1 DEF BrowserInv, BrowserOK, CountInv, Folders
<1>3. ViewerInv'
  BY <1>1 DEF ViewerInv
<1>4. BrowserOK'
  BY <1>1, <1>2, <1>3 DEF BrowserInv, BrowserOK
<1>5. SaveOK'
  BY <1>1, SaveKept DEF BrowserInv
<1> QED BY <1>1, <1>4, <1>5, ViewKept DEF BrowserInv

\* browser_reopen.
LEMMA ReopenStep ==
  ASSUME BrowserInv, NEW c, Tree(c), DOMAIN card \subseteq DOMAIN c, Reopen(c)
  PROVE  BrowserInv'
<1>1. /\ Tree(card) /\ present \in BOOLEAN /\ SaveOK /\ behind \in BOOLEAN /\ ViewOK
      /\ br \in Browsers /\ Len(br.dir) <= BROWSER_DEPTH_MAX
  BY DEF BrowserInv, BrowserOK
<1>2. /\ ui = "keypad" /\ card' = c /\ Draw(c, [br EXCEPT !.page = 1, !.files = 0, !.del = FALSE])
      /\ UNCHANGED <<present, view, savedir, orphan>>
  BY DEF Reopen
<1>3. PICK b : b = [br EXCEPT !.page = 1, !.files = 0, !.del = FALSE]
  OBVIOUS
<1>4. b \in Browsers /\ b.dir = br.dir /\ b.fmt = br.fmt /\ b.page = 1 /\ b.files = 0
  <2>1. PICK x : x = [br EXCEPT !.page = 1]
    OBVIOUS
  <2>2. x \in Browsers /\ x.dir = br.dir /\ x.fmt = br.fmt /\ x.page = 1
    BY <1>1, <2>1 DEF Browsers
  <2>3. PICK y : y = [x EXCEPT !.files = 0]
    OBVIOUS
  <2>4. y \in Browsers /\ y.dir = br.dir /\ y.fmt = br.fmt /\ y.page = 1 /\ y.files = 0
    BY <2>2, <2>3 DEF Browsers
  <2>5. b = [y EXCEPT !.del = FALSE]
    BY <1>3, <2>1, <2>3
  <2> QED BY <2>4, <2>5 DEF Browsers
<1>5. Drawable(c, b)
  <2>1. ASSUME Readable(c, b) PROVE StartFile(b) <= Len(Entries(c, b))
    <3>1. Resolve(b.dir) \in DOMAIN c
      BY <2>1 DEF Readable
    <3>2. Len(Entries(c, b)) \in Nat
      BY <1>4, <3>1, PageShown
    <3>3. StartFile(b) = 0
      <4>1. FILES_PER_PAGE \in Nat
        BY BrowserConstants
      <4>2. b.page - 1 = 0
        BY <1>4
      <4> QED BY <4>1, <4>2 DEF StartFile
    <3> QED BY <3>2, <3>3
  <2> QED BY <1>1, <1>4, <2>1 DEF Drawable
<1>6. Draw(c, b)
  BY <1>2, <1>3
<1>7. ScreenOK' /\ (ui' # "normal" => br'.dir = b.dir /\ br'.fmt = b.fmt)
  BY <1>1, <1>2, <1>5, <1>6, DrawStep
<1>8. SaveOK'
  BY <1>1, <1>2, <1>4, <1>7, SaveKept
<1>9. BrowserOK'
  BY <1>2, <1>7 DEF ScreenOK, BrowserOK
<1> QED BY <1>1, <1>2, <1>8, <1>9, ViewKept DEF BrowserInv

\* The text keypad, confirmed or cancelled.
LEMMA KeypadClosed ==
  ASSUME BrowserInv, KeypadCancel \/ \E n \in NewNames : KeypadDone(n)
  PROVE  BrowserInv'
<1>1. Tree(card) /\ br \in Browsers
  BY DEF BrowserInv, BrowserOK
<1>2. CASE KeypadCancel
  BY <1>1, <1>2, ReopenStep DEF KeypadCancel
<1>3. CASE \E n \in NewNames : KeypadDone(n)
  <2>1. PICK n \in NewNames : KeypadDone(n)
    BY <1>3
  <2>2. n \in Names
    BY <2>1, BrowserConstants
  <2>3. PICK c \in IF present THEN Created(card, br.dir, n) ELSE {card} : Reopen(c)
    BY <2>1 DEF KeypadDone
  <2>4. br.dir \in Paths
    BY <1>1, BrowserFields
  <2>5. Tree(c) /\ DOMAIN card \subseteq DOMAIN c
    <3>1. c = card \/ c \in Created(card, br.dir, n)
      BY <2>3
    <3> QED BY <1>1, <2>2, <2>4, <3>1, CreatedTree
  <2> QED BY <2>3, <2>5, ReopenStep
<1> QED BY <1>2, <1>3

\* ui_save_file.
LEMMA FileSaved ==
  ASSUME BrowserInv, NEW n \in NewNames, SaveFile(n)
  PROVE  BrowserInv'
<1>1. Tree(card) /\ savedir \in Paths /\ SaveOK /\ ViewOK
  BY DEF BrowserInv, BrowserOK, SaveOK
<1>2. /\ ui = "normal" /\ card' \in Created(card, savedir, n)
      /\ UNCHANGED <<present, ui, br, view, savedir, behind, orphan>>
  BY DEF SaveFile
<1>3. n \in Names
  BY BrowserConstants
<1>4. Tree(card') /\ DOMAIN card \subseteq DOMAIN card'
  BY <1>1, <1>2, <1>3, CreatedTree
<1>5. CountInv' /\ ViewerInv'
  BY <1>2 DEF CountInv, ViewerInv
<1>6. SaveOK'
  BY <1>1, <1>2, <1>4, SaveKept
<1>7. BrowserOK'
  BY <1>2, <1>4, <1>5 DEF BrowserInv, BrowserOK
<1> QED BY <1>1, <1>2, <1>6, <1>7, ViewKept DEF BrowserInv

\* The console's sd_delete, which the browser does not hear of.
LEMMA ConsoleDeleted ==
  ASSUME BrowserInv, NEW p \in Folders, NEW n \in Names, ConsoleDelete(p, n)
  PROVE  BrowserInv'
<1>1. Tree(card) /\ SaveOK /\ ViewOK
  BY DEF BrowserInv, BrowserOK
<1>2. /\ card' = Unlinked(card, Append(p, n)) /\ behind' = (ui # "normal")
      /\ orphan' = Orphaned(card', TRUE) /\ UNCHANGED <<present, ui, br, view, savedir>>
  BY DEF ConsoleDelete
<1>3. Append(p, n) \in Paths
  <2>1. PICK X : X = Names \cup {""}
    OBVIOUS
  <2>2. Names \subseteq X
    BY <2>1
  <2>3. p \in Seq(Names)
    BY <1>1 DEF Tree, Folders
  <2>4. Append(p, n) \in Seq(X)
    BY <2>2, <2>3
  <2> QED BY <2>1, <2>4 DEF Paths
<1>4. Tree(card')
  BY <1>1, <1>2, <1>3, UnlinkedTree
<1>5. CountInv'
  BY <1>2 DEF CountInv
<1>6. ViewerInv'
  BY <1>2 DEF BrowserInv, BrowserOK, ViewerInv
<1>7. BrowserOK'
  <2>1. behind' \in BOOLEAN
    BY <1>2
  <2> QED BY <1>2, <1>4, <1>5, <1>6, <2>1 DEF BrowserInv, BrowserOK
<1>8. orphan' \/ Resolve(savedir) \in DOMAIN card'
  BY <1>2 DEF Orphaned
<1>9. orphan' \in BOOLEAN
  BY <1>1, <1>2 DEF Orphaned, SaveOK
<1>10. SaveDirExists'
  BY <1>2, <1>8 DEF SaveDirExists, Folders
<1>11. SaveOK'
  BY <1>1, <1>2, <1>9, <1>10 DEF SaveOK, SaveInv
<1> QED BY <1>1, <1>2, <1>7, <1>11, ViewKept DEF BrowserInv

\* The card taken out, or put back.
LEMMA CardSwitched ==
  ASSUME BrowserInv, CardSwitch
  PROVE  BrowserInv'
<1>1. present' \in BOOLEAN /\ UNCHANGED <<card, ui, br, view, savedir, behind, orphan>>
  BY DEF CardSwitch
<1>2. BrowserOK'
  BY <1>1 DEF BrowserInv, BrowserOK, CountInv, ViewerInv, Folders
<1>3. SaveOK'
  BY <1>1, SaveKept DEF BrowserInv
<1> QED BY <1>1, <1>2, <1>3, ViewKept DEF BrowserInv

\* The picture viewer steps to a file by its number.
LEMMA PictureTurned ==
  ASSUME BrowserInv, PictureTurn
  PROVE  BrowserInv'
<1>1. ui = "picture" /\ present' = present
  BY DEF PictureTurn
<1>2. br \in Browsers /\ view \in Views
  BY DEF BrowserInv, BrowserOK, ViewOK
<1>3. br.files > 0 /\ (br.dir # <<>> => br.files > 1) /\ ~br.del
  BY <1>1 DEF BrowserInv, BrowserOK, ViewerInv
<1>4. view.sel \in Nat /\ br.files \in Nat
  BY <1>2, BrowserFields DEF Views
<1>5. PICK l : l = WalkIndex(br, br.files - 1)
  OBVIOUS
<1>6. l \in Nat
  BY <1>3, <1>4, <1>5 DEF WalkIndex
<1>7. PICK v : v = view.sel
  OBVIOUS
<1>8. \E n \in {IF v - 1 < 0 THEN l ELSE v - 1, IF v + 1 > l THEN 0 ELSE v + 1} : Take(n)
  BY <1>5, <1>7 DEF PictureTurn
<1>9. PICK n \in Nat : Take(n)
  BY <1>4, <1>6, <1>7, <1>8
<1> QED BY <1>1, <1>3, <1>9, TakeStep

\* The viewer of guides turns a page.
LEMMA GuideTurned ==
  ASSUME BrowserInv, GuideTurn
  PROVE  BrowserInv'
<1>1. UNCHANGED <<card, present, ui, br, savedir, behind, orphan>>
  BY DEF GuideTurn
<1>2. PICK p \in 1 .. GuidePages : view' = [view EXCEPT !.page = p]
  BY DEF GuideTurn
<1>3. view \in Views
  BY DEF BrowserInv, ViewOK
<1>4. GuidePages \in Nat
  <2>1. guide_pages(view.text) \in Nat
    BY <1>3, TextsAreTexts DEF Views
  <2> QED BY <2>1 DEF GuidePages
<1>5. view' \in Views /\ view'.text = view.text /\ view'.page = p
  BY <1>2, <1>3, <1>4 DEF Views
<1>6. GuidePages' = GuidePages
  BY <1>5 DEF GuidePages
<1>7. ViewOK'
  BY <1>2, <1>5, <1>6 DEF ViewOK
<1>8. BrowserOK'
  BY <1>1 DEF BrowserInv, BrowserOK, CountInv, ViewerInv, Folders
<1>9. SaveOK'
  BY <1>1, SaveKept DEF BrowserInv
<1> QED BY <1>1, <1>7, <1>8, <1>9 DEF BrowserInv

\* A viewer closed.
LEMMA ViewerClosed ==
  ASSUME BrowserInv, CloseViewer
  PROVE  BrowserInv'
<1>1. ui # "normal" /\ Done(card) /\ view' = NoView /\ present' = present
  BY DEF CloseViewer
<1>2. Tree(card) /\ present \in BOOLEAN
  BY DEF BrowserInv, BrowserOK
<1>3. ~behind => Resolve(br.dir) \in DOMAIN card /\ StartFile(br) <= Len(Entries(card, br))
  BY <1>1 DEF BrowserInv, BrowserOK, CountInv, Folders
<1>4. BrowserOK' /\ SaveOK'
  BY <1>1, <1>2, <1>3, DoneStep
<1> QED BY <1>1, <1>2, <1>4, NoViewMade DEF BrowserInv

\* Every step keeps the invariant.
LEMMA BrowserStep ==
  ASSUME BrowserInv, [Next]_vars
  PROVE  BrowserInv'
<1>1. ASSUME NEW fmt \in Formats, ModeBrowser(fmt) PROVE BrowserInv'
  BY <1>1, ModeStep
<1>2. CASE Turn \/ ToggleDelete \/ Exit
  BY <1>2, PageTurned, DeleteToggled, Exited
<1>3. CASE NewFolder \/ KeypadCancel \/ (\E n \in NewNames : KeypadDone(n))
  BY <1>3, KeypadOpened, KeypadClosed
<1>4. ASSUME NEW k \in 1 .. FILES_PER_PAGE, PressFile(k) PROVE BrowserInv'
  BY <1>4, PressStep
<1>5. CASE PictureTurn \/ GuideTurn \/ CloseViewer
  BY <1>5, PictureTurned, GuideTurned, ViewerClosed
<1>6. ASSUME NEW n \in NewNames, SaveFile(n) PROVE BrowserInv'
  BY <1>6, FileSaved
<1>7. ASSUME NEW p \in Folders, NEW n \in Names, ConsoleDelete(p, n) PROVE BrowserInv'
  BY <1>7, ConsoleDeleted
<1>8. CASE CardSwitch
  BY <1>8, CardSwitched
<1>9. CASE UNCHANGED vars
  <2>1. UNCHANGED <<card, present, ui, br, view, savedir, behind, orphan>>
    BY <1>9 DEF vars
  <2>2. BrowserOK'
    BY <2>1 DEF BrowserInv, BrowserOK, CountInv, ViewerInv, Folders
  <2>3. SaveOK'
    BY <2>1, SaveKept DEF BrowserInv
  <2> QED BY <2>1, <2>2, <2>3, ViewKept DEF BrowserInv
<1> QED BY <1>1, <1>2, <1>3, <1>4, <1>5, <1>6, <1>7, <1>8, <1>9 DEF Next

\* The invariant that the theorems follow from.
LEMMA BrowserInvariant == Spec => []BrowserInv
<1>1. Init => BrowserInv
  BY InitOK
<1>2. BrowserInv /\ [Next]_vars => BrowserInv'
  BY BrowserStep
<1> QED BY <1>1, <1>2, PTL DEF Spec

-----------------------------------------------------------------------------
(***************************************************************************)
(* The theorems.                                                            *)
(***************************************************************************)

(***************************************************************************)
(* The type invariant: for every card, number of buttons, depth of folders  *)
(* and guide, the card stays a tree of folders, the counts are numbers of   *)
(* pages and files, the path never outgrows its table, and the viewer of    *)
(* guides is on a page of the text it shows.                                *)
(***************************************************************************)
THEOREM BrowserTypeCorrect == Spec => []TypeOK
<1>1. BrowserInv => TypeOK
  BY InvIsTyped
<1> QED BY <1>1, BrowserInvariant, PTL

\* The buttons of a page whose counts are right.
LEMMA InvOffers ==
  ASSUME BrowserInv
  PROVE  OfferedRight
<1>1. SUFFICES ASSUME ui = "browser", ~behind
               PROVE  /\ br.files = Len(Entries(card, br)) /\ br.drawn = OnPage(card, br)
                      /\ br.page <= br.pages =>
                           \A k \in 1 .. FILES_PER_PAGE : k <= GetMax(br) <=> br.drawn[k] # ""
  BY DEF OfferedRight
<1>2. Tree(card) /\ br \in Browsers
  BY DEF BrowserInv, BrowserOK
<1>3. /\ Resolve(br.dir) \in DOMAIN card /\ br.files = Len(Entries(card, br))
      /\ br.pages = PagesOf(br.files) /\ br.drawn = OnPage(card, br)
  BY <1>1 DEF BrowserInv, BrowserOK, CountInv, Folders
<1>4. ASSUME br.page <= br.pages, NEW k \in 1 .. FILES_PER_PAGE
      PROVE  k <= GetMax(br) <=> br.drawn[k] # ""
  <2>1. br.page \in Nat \ {0} /\ br.files \in Nat
    BY <1>2, BrowserFields
  <2>2. k <= GetMax(br) <=> (br.page - 1) * FILES_PER_PAGE + k <= br.files
    BY <1>3, <1>4, <2>1, Offers
  <2>3. OnPage(card, br)[k] # "" <=> StartFile(br) + k <= Len(Entries(card, br))
    BY <1>2, <1>3, <1>4, PageShown
  <2>4. StartFile(br) = (br.page - 1) * FILES_PER_PAGE
    BY DEF StartFile
  <2> QED BY <1>3, <2>2, <2>3, <2>4
<1> QED BY <1>3, <1>4

(***************************************************************************)
(* browser_draw_page and browser_get_max agree: until something is deleted  *)
(* from the console the files counted are the entries there are, the        *)
(* buttons drawn are the entries of the page, and the buttons that can be   *)
(* pressed are exactly those with a name on them, on a full last page and   *)
(* in an empty folder too.                                                  *)
(***************************************************************************)
THEOREM ButtonsOffered == Spec => []OfferedRight
<1>1. BrowserInv => OfferedRight
  BY InvOffers
<1> QED BY <1>1, BrowserInvariant, PTL

(***************************************************************************)
(* browser_draw_page never starts a page behind the last file, not even     *)
(* after the only file of the last page was deleted: the index from which   *)
(* it erases buttons stays in the table.                                    *)
(***************************************************************************)
THEOREM ErasesInTable == Spec => []EraseInTable
<1>1. BrowserInv => EraseInTable
  BY DEF BrowserInv, BrowserOK, CountInv, EraseInTable
<1> QED BY <1>1, BrowserInvariant, PTL

(***************************************************************************)
(* The folder that SAVE writes into exists as long as nothing was deleted   *)
(* from the console or from the browser of the guides: a delete in the      *)
(* browser takes an entry of the folder noted for SAVE, never that folder.  *)
(***************************************************************************)
THEOREM SaveFolderExists == Spec => []SaveDirExists
<1>1. BrowserInv => SaveDirExists
  BY DEF BrowserInv, SaveOK, SaveInv
<1> QED BY <1>1, BrowserInvariant, PTL

\* The page that the viewer of guides is on.
LEMMA InvShowsPages ==
  ASSUME BrowserInv
  PROVE  GuidePageRight
<1>1. PICK t : t = view.text
  OBVIOUS
<1>2. PICK p : p = view.page
  OBVIOUS
<1>3. t \in Texts /\ p \in 1 .. GuidePages
  BY <1>1, <1>2 DEF BrowserInv, ViewOK, Views
<1>4. t \in Text /\ guide_pages(t) \in Nat /\ guide_pages(t) = Cardinality(Heads(t))
  BY <1>3, TextsAreTexts, PagesAreSections
<1>5. GuidePages = IF guide_pages(t) < 1 THEN 1 ELSE guide_pages(t)
  BY <1>1 DEF GuidePages
<1>6. p \in Nat \ {0}
  BY <1>3, <1>4, <1>5
<1>7. PICK rows : rows = guide_draw_page(t, p)
  OBVIOUS
<1>8. /\ Heads(t) = {} => rows = <<>>
      /\ p <= Cardinality(Heads(t)) /\ Pages(t) = Heads(t) =>
           /\ Range(rows) = Shows(t, p)
           /\ \A j, k \in DOMAIN rows : j < k => rows[j] < rows[k]
  BY <1>4, <1>6, <1>7, GuideCorrect
<1>9. ASSUME Heads(t) # {} PROVE GuidePages = Cardinality(Heads(t)) /\ p <= Cardinality(Heads(t))
  <2>1. IsFiniteSet(Heads(t))
    <3>1. Len(t) \in Nat
      BY <1>4 DEF Text
    <3>2. IsFiniteSet(1 .. Len(t)) /\ Heads(t) \in SUBSET (1 .. Len(t))
      BY <3>1, FS_Interval DEF Heads, Lines
    <3> QED BY <3>2, FS_Subset
  <2>2. Cardinality(Heads(t)) # 0
    BY <1>9, <2>1, FS_EmptySet
  <2>3. GuidePages = Cardinality(Heads(t))
    BY <1>4, <1>5, <2>2
  <2> QED BY <1>3, <1>4, <2>3
<1> QED BY <1>1, <1>2, <1>7, <1>8, <1>9 DEF GuidePageRight

(***************************************************************************)
(* guide_pages and guide_draw_page, two passes over the file that count     *)
(* pages in their own way, agree on every text without an empty code block  *)
(* for a section: as many pages as tools/manual/guide.py makes of it, and   *)
(* every page that can be turned to shows the lines of its section in their *)
(* order, as many as fit.                                                   *)
(***************************************************************************)
THEOREM GuidePagesRight == Spec => []GuidePageRight
<1>1. BrowserInv => GuidePageRight
  BY InvShowsPages
<1> QED BY <1>1, BrowserInvariant, PTL

-----------------------------------------------------------------------------
\* A file button, with the counts right and the card in.
LEMMA PressActs ==
  ASSUME BrowserInv, present, ~behind, NEW k \in 1 .. FILES_PER_PAGE, PressFile(k)
  PROVE  ActsOn(br.drawn[k])
<1>1. Tree(card) /\ br \in Browsers /\ ui = "browser"
  BY DEF BrowserInv, BrowserOK, PressFile
<1>2. /\ Resolve(br.dir) \in DOMAIN card /\ br.files = Len(Entries(card, br))
      /\ br.drawn = OnPage(card, br)
  BY <1>1 DEF BrowserInv, BrowserOK, CountInv, Folders
<1>3. br.dir \in Paths /\ br.files \in Nat /\ br.fmt \in Formats
  BY <1>1, BrowserFields
<1>4. PICK sel : sel = StartFile(br) + k - 1
  OBVIOUS
<1>5. sel \in Nat /\ StartFile(br) + k = sel + 1
  BY <1>1, <1>4, StartIsNat
<1>6. PICK entry : entry = br.drawn[k]
  OBVIOUS
<1>7. PICK list : list = Entries(card, br)
  OBVIOUS
<1>8. PICK no : no = ""
  OBVIOUS
<1>a. Len(list) \in Nat /\ (sel < Len(list) => entry = list[sel + 1]) /\ (~(sel < Len(list)) => entry = no)
  <2>1. PICK o : o = OnPage(card, br)
    OBVIOUS
  <2>2. PICK s : s = StartFile(br)
    OBVIOUS
  <2>3. /\ Len(list) \in Nat
        /\ s + k <= Len(list) => o[k] = list[s + k]
        /\ s + k > Len(list) => o[k] = ""
    BY <1>1, <1>2, <1>7, <2>1, <2>2, PageShown
  <2>4. s + k > Len(list) => o[k] = no
    BY <1>8, <2>3
  <2>5. s + k = sel + 1 /\ o[k] = entry
    BY <1>2, <1>5, <1>6, <2>1, <2>2
  <2>6. PICK m \in Nat : m = Len(list)
    BY <2>3
  <2>7. s + k <= m <=> sel < m
    BY <1>5, <2>5, <2>6
  <2>8. s + k > m <=> ~(sel < m)
    BY <1>5, <2>5, <2>6
  <2>9. sel < m => entry = list[sel + 1]
    <3>1. s + k <= m => o[k] = list[s + k]
      BY <2>3, <2>6
    <3> QED BY <2>5, <2>7, <3>1
  <2>10. ~(sel < m) => entry = no
    <3>1. s + k > m => o[k] = no
      BY <2>4, <2>6
    <3> QED BY <2>5, <2>8, <3>1
  <2> QED BY <2>6, <2>9, <2>10
<1>9. br.files = Len(list)
  BY <1>2, <1>7
<1>10. "" \notin Names /\ ".." \notin Names
  BY BrowserConstants
<1>11. CASE sel >= br.files /\ Done(card) /\ UNCHANGED view
  <2>1. entry = ""
    <3>1. ~(sel < Len(list))
      BY <1>a, <1>5, <1>9, <1>11
    <3> QED BY <1>a, <1>8, <3>1
  <2>2. card' = card /\ view' = view
    BY <1>11 DEF Done
  <2>3. ActsOn(entry)
    BY <1>10, <2>1, <2>2 DEF ActsOn
  <2> QED BY <1>6, <2>3
<1>12. CASE /\ sel < br.files /\ br.dir # <<>> /\ sel = 0
            /\ IF br.del THEN UNCHANGED <<card, ui, br, view, savedir, behind, orphan>>
               ELSE GotoFolder(Front(br.dir))
  <2>1. Lists(list, Listing(card, br), br.dir)
    BY <1>1, <1>2, <1>7, EntriesFacts
  <2>2. entry = ".."
    <3>1. list[1] = ".."
      BY <1>12, <2>1 DEF Lists
    <3>2. entry = list[sel + 1] /\ sel + 1 = 1
      <4>1. sel < Len(list) /\ sel = 0
        BY <1>9, <1>12
      <4> QED BY <1>a, <4>1
    <3> QED BY <3>1, <3>2
  <2>3. CASE br.del
    <3>1. card' = card
      BY <1>12, <2>3
    <3>2. ActsOn(entry)
      BY <1>10, <2>2, <2>3, <3>1 DEF ActsOn
    <3> QED BY <1>6, <3>2
  <2>4. CASE ~br.del
    <3>1. PICK d : d = Front(br.dir)
      OBVIOUS
    <3>2. d \in Paths /\ Len(d) = Len(br.dir) - 1 /\ Resolve(d) \in DOMAIN card
      BY <1>1, <1>2, <1>3, <1>12, <3>1, ParentFolder
    <3>3. Len(d) <= BROWSER_DEPTH_MAX
      <4>1. Len(br.dir) <= BROWSER_DEPTH_MAX /\ BROWSER_DEPTH_MAX \in Nat
        BY BrowserConstants DEF BrowserInv, BrowserOK
      <4>2. Len(br.dir) \in Nat
        <5>1. PICK X : X = Names \cup {""}
          OBVIOUS
        <5>2. br.dir \in Seq(X)
          BY <1>3, <5>1 DEF Paths
        <5> QED BY <5>2
      <4> QED BY <3>2, <4>1, <4>2
    <3>4. GotoFolder(d)
      BY <1>12, <2>4, <3>1
    <3>5. Readable(card, [dir |-> d])
      BY <3>2 DEF Readable
    <3>6. card' = card /\ br'.dir = d
      BY <3>2, <3>3, <3>4, <3>5, GotoStep
    <3>7. ActsOn(entry)
      BY <1>10, <2>2, <2>4, <3>1, <3>6 DEF ActsOn
    <3> QED BY <1>6, <3>7
  <2> QED BY <2>3, <2>4
<1>13. CASE sel < br.files /\ ~(br.dir # <<>> /\ sel = 0) /\ Take(WalkIndex(br, sel))
  <2>1. PICK n : n = WalkIndex(br, sel)
    OBVIOUS
  <2>2. PICK l : l = Listing(card, br)
    OBVIOUS
  <2>3. n \in Nat /\ n < Len(l) /\ l[n + 1] = list[sel + 1]
    BY <1>1, <1>2, <1>5, <1>7, <1>9, <1>13, <2>1, <2>2, WalkFacts
  <2>4. entry = l[n + 1]
    BY <1>a, <1>9, <1>13, <2>3
  <2>5. /\ l \in Seq(Names)
        /\ \A j \in 1 .. Len(l) :
             l[j] \in Names /\ l[j] \in Range(card[Resolve(br.dir)]) /\ Listed(br, l[j])
    BY <1>1, <1>2, <2>2, ListingFacts
  <2>6. entry \in Names /\ entry \in Range(card[Resolve(br.dir)]) /\ Listed(br, entry)
    <3>1. n + 1 \in 1 .. Len(l)
      BY <2>3, <2>5
    <3> QED BY <2>4, <2>5, <3>1
  <2>7. entry # "" /\ entry # ".."
    BY <1>10, <2>6
  <2>8. Readable(card, br)
    BY <1>2 DEF Readable
  <2>9. Found(card, br, n) # {}
    BY <2>2, <2>3, <2>8 DEF Found
  <2>10. ASSUME NEW e \in Found(card, br, n)
         PROVE  e.name = entry /\ (e.dir <=> Type[entry] = "dir")
    BY <1>1, <2>2, <2>3, <2>4, <2>10, FoundFacts
  <2>11. PICK e \in Found(card, br, n) :
           \/ br.del /\ Done(Unlinked(card, Append(br.dir, e.name))) /\ UNCHANGED view
           \/ ~br.del /\ e.dir /\ GotoFolder(IF Len(br.dir) < BROWSER_DEPTH_MAX
                                             THEN Append(br.dir, e.name) ELSE br.dir)
           \/ ~br.del /\ ~e.dir /\ Load(n, e.name)
    <3>1. Take(n)
      BY <1>13, <2>1
    <3> QED BY <2>9, <3>1, Zenon DEF Take
  <2>12. e.name = entry /\ (e.dir <=> Type[entry] = "dir")
    BY <2>10
  <2>13. CASE br.del /\ Done(Unlinked(card, Append(br.dir, e.name)))
    <3>1. card' = Unlinked(card, Append(br.dir, entry))
      BY <2>12, <2>13 DEF Done
    <3>2. ActsOn(entry)
      BY <2>6, <2>13, <3>1 DEF ActsOn
    <3> QED BY <1>6, <3>2
  <2>14. CASE ~br.del /\ e.dir /\ GotoFolder(IF Len(br.dir) < BROWSER_DEPTH_MAX
                                             THEN Append(br.dir, e.name) ELSE br.dir)
    <3>1. Type[entry] = "dir"
      BY <2>12, <2>14
    <3>2. Len(br.dir) < BROWSER_DEPTH_MAX
      BY <1>3, <2>6, <3>1 DEF Listed, Formats
    <3>3. PICK d : d = Append(br.dir, entry)
      OBVIOUS
    <3>4. GotoFolder(d)
      BY <2>12, <2>14, <3>2, <3>3
    <3>5. PICK R : R = Resolve(br.dir)
      OBVIOUS
    <3>6. d \in Paths /\ Resolve(d) = Append(R, entry)
      BY <1>3, <2>6, <3>3, <3>5, Resolved
    <3>7. Append(R, entry) \in DOMAIN card
      BY <1>1, <1>2, <2>6, <3>1, <3>5 DEF Tree
    <3>8. Len(d) <= BROWSER_DEPTH_MAX
      <4>1. PICK X : X = Names \cup {""}
        OBVIOUS
      <4>2. br.dir \in Seq(X)
        BY <1>3, <4>1 DEF Paths
      <4>3. Len(Append(br.dir, entry)) = Len(br.dir) + 1 /\ Len(br.dir) \in Nat
        BY <4>2
      <4>4. BROWSER_DEPTH_MAX \in Nat
        BY BrowserConstants
      <4>5. Len(d) = Len(br.dir) + 1
        BY <3>3, <4>3
      <4> QED BY <3>2, <4>3, <4>4, <4>5
    <3>9. Readable(card, [dir |-> d])
      BY <3>6, <3>7 DEF Readable
    <3>10. card' = card /\ br'.dir = d
      BY <3>4, <3>6, <3>8, <3>9, GotoStep
    <3>11. ActsOn(entry)
      BY <2>7, <2>14, <3>1, <3>3, <3>10 DEF ActsOn
    <3> QED BY <1>6, <3>11
  <2>15. CASE ~br.del /\ ~e.dir /\ Load(n, e.name)
    <3>1. Type[entry] # "dir" /\ Load(n, entry)
      BY <2>12, <2>15
    <3>2. card' = card
      BY <3>1 DEF Load, Done
    <3>3. view'.file = entry
      BY <2>7, <3>1 DEF Load, NoView
    <3>4. ActsOn(entry)
      BY <2>6, <2>7, <2>15, <3>1, <3>2, <3>3 DEF ActsOn
    <3> QED BY <1>6, <3>4
  <2> QED BY <2>11, <2>13, <2>14, <2>15
<1> QED BY <1>4, <1>11, <1>12, <1>13 DEF PressFile

(***************************************************************************)
(* A file button acts on the entry drawn on it, although the browser keeps  *)
(* no listing and walks the directory again: whatever pages, folders and    *)
(* deletes led there, it deletes, enters or loads that entry.               *)
(***************************************************************************)
THEOREM ButtonHitsDrawn == Spec => PressHitsDrawn
<1>1. BrowserInv /\ [Next]_vars =>
        [present /\ ~behind => \A k \in 1 .. FILES_PER_PAGE : PressFile(k) => ActsOn(br.drawn[k])]_vars
  BY PressActs
<1> QED BY <1>1, BrowserInvariant, PTL DEF Spec, PressHitsDrawn
=============================================================================
