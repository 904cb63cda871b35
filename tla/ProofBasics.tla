----------------------------- MODULE ProofBasics -----------------------------
(***************************************************************************)
(* Facts about sequences, natural numbers, folds, sums and ranks that      *)
(* several proofs use.  An induction is the least counterexample refuted.  *)
(***************************************************************************)
EXTENDS Integers, Sequences, FiniteSetTheorems, WellFoundedInduction, TLAPS

(* Sequences.                                                              *)

LEMMA SeqWiden ==
    ASSUME NEW S, NEW T, S \subseteq T, NEW s \in Seq(S)
    PROVE  s \in Seq(T)
OBVIOUS

LEMMA AppendFacts ==
    ASSUME NEW S, NEW T, S \subseteq T, NEW s \in Seq(S), NEW x \in T
    PROVE  /\ Append(s, x) \in Seq(T)
           /\ DOMAIN s = 1 .. Len(s) /\ Len(s) \in Nat
           /\ Len(Append(s, x)) = Len(s) + 1
           /\ DOMAIN Append(s, x) = DOMAIN s \cup {Len(s) + 1}
           /\ Len(s) + 1 \notin DOMAIN s
           /\ \A k \in DOMAIN s : Append(s, x)[k] = s[k]
           /\ Append(s, x)[Len(s) + 1] = x
<1>1. s \in Seq(T)
  BY SeqWiden
<1> QED
  BY <1>1

LEMMA ConcatAt ==
    ASSUME NEW S, NEW s \in Seq(S), NEW n \in Nat, NEW t \in [1 .. n -> S]
    PROVE  /\ s \o t \in Seq(S) /\ DOMAIN s = 1 .. Len(s) /\ Len(s) \in Nat
           /\ DOMAIN (s \o t) = 1 .. Len(s) + n
           /\ \A i \in 1 .. Len(s) + n :
                 (s \o t)[i] = IF i <= Len(s) THEN s[i] ELSE t[i - Len(s)]
<1>1. t \in Seq(S) /\ Len(t) = n
  OBVIOUS
<1> QED
  BY <1>1

(* The first k entries.                                                   *)
LEMMA FrontFacts ==
    ASSUME NEW S, NEW u \in Seq(S), NEW k \in 0 .. Len(u)
    PROVE  /\ SubSeq(u, 1, k) \in [1 .. k -> S] /\ Len(SubSeq(u, 1, k)) = k
           /\ \A i \in 1 .. k : SubSeq(u, 1, k)[i] = u[i]
<1>1. Len(u) \in Nat /\ DOMAIN u = 1 .. Len(u) /\ \A i \in 1 .. Len(u) : u[i] \in S
  OBVIOUS
<1>2. SubSeq(u, 1, k) = [i \in 1 .. k |-> u[i]]
  BY <1>1
<1>3. k \in Nat /\ \A i \in 1 .. k : i \in 1 .. Len(u)
  BY <1>1
<1>4. PICK w : w = SubSeq(u, 1, k)
  OBVIOUS
<1>5. w \in [1 .. k -> S] /\ \A i \in 1 .. k : w[i] = u[i]
  BY <1>1, <1>2, <1>3, <1>4
<1>6. Len(w) = k
  BY <1>3, <1>5
<1>. QED  BY <1>4, <1>5, <1>6

(* u is s and then the n entries of t.                                     *)
Extension(s, t, n, u) ==
    /\ DOMAIN s \subseteq DOMAIN u
    /\ \A i \in DOMAIN s : u[i] = s[i]
    /\ \A i \in DOMAIN u \ DOMAIN s : \E k \in 1 .. n : u[i] = t[k]
    /\ \A k \in 1 .. n : \E i \in DOMAIN u \ DOMAIN s : u[i] = t[k]

LEMMA ConcatFacts ==
    ASSUME NEW S, NEW s \in Seq(S), NEW n \in Nat, NEW t \in [1 .. n -> S],
           NEW u, u = s \o t
    PROVE  u \in Seq(S) /\ Extension(s, t, n, u)
<1>1. /\ u \in Seq(S) /\ DOMAIN s = 1 .. Len(s) /\ Len(s) \in Nat
      /\ DOMAIN u = 1 .. Len(s) + n
      /\ \A i \in 1 .. Len(s) + n : u[i] = IF i <= Len(s) THEN s[i] ELSE t[i - Len(s)]
  BY ConcatAt
<1> DEFINE l == Len(s)
<1>2. l \in Nat /\ DOMAIN s = 1 .. l /\ DOMAIN u = 1 .. l + n
  BY <1>1
<1>3. \A i \in 1 .. l + n : u[i] = IF i <= l THEN s[i] ELSE t[i - l]
  BY <1>1
<1> HIDE DEF l
<1>4. ASSUME NEW i \in 1 .. l + n, i \notin 1 .. l
      PROVE  \E k \in 1 .. n : u[i] = t[k]
  <2>1. i - l \in 1 .. n /\ u[i] = t[i - l]
    BY <1>2, <1>3, <1>4
  <2> QED
    BY <2>1
<1>5. ASSUME NEW k \in 1 .. n
      PROVE  \E i \in (1 .. l + n) \ (1 .. l) : u[i] = t[k]
  <2>1. l + k \in (1 .. l + n) \ (1 .. l) /\ u[l + k] = t[(l + k) - l] /\ (l + k) - l = k
    BY <1>2, <1>3
  <2> QED
    BY <2>1
<1>6. \A i \in 1 .. l : i \in 1 .. l + n /\ u[i] = s[i]
  BY <1>2, <1>3
<1>7. u \in Seq(S)
  BY <1>1
<1> QED
  BY <1>2, <1>4, <1>5, <1>6, <1>7, Zenon DEF Extension

(* Every set of natural numbers has a least one.                           *)
LEMMA SmallestExists ==
    ASSUME NEW T \in SUBSET Nat, T # {}
    PROVE  \E x \in T : \A y \in T : x <= y
<1> DEFINE R == {ss \in Nat \X Nat : ss[1] < ss[2]}
<1>1. IsWellFoundedOn(R, Nat)
  BY NatLessThanWellFounded DEF OpToRel
<1>2. \A x, y \in Nat : <<y, x>> \in R <=> y < x
  OBVIOUS
<1> HIDE DEF R
<1>3. PICK x \in T : \A y \in T : ~(<<y, x>> \in R)
  BY <1>1, WFMin
<1>4. \A y \in T : x \in Nat /\ y \in Nat /\ ~(y < x)
  BY <1>2, <1>3
<1> QED
  BY <1>4

(***************************************************************************)
(* Folds over a finite set.  tlapm instantiates no operator parameter, so  *)
(* induction over the data is by least counterexample, and a fold is       *)
(* described by the functions it is made of: ch takes an element out of    *)
(* every nonempty set, step combines it with the rest.                     *)
(***************************************************************************)
Chooses(S, ch) == \A s \in (SUBSET S) \ {{}} : ch[s] \in s

(* If a property reaches every set from the set less its chosen element,   *)
(* every set has it: P is the set of sets that do.                         *)
LEMMA SetInduction ==
    ASSUME NEW S, IsFiniteSet(S), NEW ch, Chooses(S, ch), NEW P,
           {} \in P, \A s \in (SUBSET S) \ {{}} : s \ {ch[s]} \in P => s \in P
    PROVE  SUBSET S \subseteq P
<1> SUFFICES ASSUME NEW s0 \in SUBSET S, s0 \notin P PROVE FALSE
  OBVIOUS
<1> DEFINE T == {n \in Nat : \E s \in SUBSET S : s \notin P /\ Cardinality(s) = n}
<1>1. \A s \in SUBSET S : IsFiniteSet(s) /\ Cardinality(s) \in Nat
  BY FS_Subset, FS_CardinalityType
<1>2. T # {} /\ T \in SUBSET Nat
  BY <1>1
<1> HIDE DEF T
<1>3. PICK n \in T : \A m \in T : n <= m
  BY <1>2, SmallestExists
<1>4. PICK s \in SUBSET S : s \notin P /\ Cardinality(s) = n
  BY <1>3 DEF T
<1>5. s # {} /\ ch[s] \in s /\ s \ {ch[s]} \notin P /\ s \ {ch[s]} \in SUBSET S
  <2>1. s \in (SUBSET S) \ {{}}
    BY <1>4
  <2> QED
    BY <1>4, <2>1 DEF Chooses
<1>6. Cardinality(s \ {ch[s]}) = n - 1
  BY <1>1, <1>4, <1>5, FS_RemoveElement
<1>7. n - 1 \in T
  BY <1>1, <1>5, <1>6 DEF T
<1>8. n \in Nat
  BY <1>2, <1>3
<1> QED
  BY <1>3, <1>7, <1>8

(* g and h fold alike.                                                     *)
Alike(S, ch, g, h) ==
    /\ g[{}] = h[{}]
    /\ \A s \in (SUBSET S) \ {{}} : g[s \ {ch[s]}] = h[s \ {ch[s]}] => g[s] = h[s]

LEMMA FoldUnique ==
    ASSUME NEW S, IsFiniteSet(S), NEW ch, Chooses(S, ch), NEW g, NEW h, Alike(S, ch, g, h)
    PROVE  \A s \in SUBSET S : g[s] = h[s]
<1> DEFINE P == {s \in SUBSET S : g[s] = h[s]}
<1>1. {} \in P
  BY DEF Alike
<1>2. \A s \in (SUBSET S) \ {{}} : s \ {ch[s]} \in P => s \in P
  BY DEF Alike
<1> HIDE DEF P
<1>3. SUBSET S \subseteq P
  BY <1>1, <1>2, SetInduction
<1> QED
  BY <1>3 DEF P

(* g is the fold on the sets of at most n elements.                        *)
FoldsTo(S, ch, base, step, n, g) ==
    /\ g[{}] = base
    /\ \A s \in (SUBSET S) \ {{}} :
          Cardinality(s) <= n => g[s] = step[ch[s]][g[s \ {ch[s]}]]

Folds(S, ch, base, step, g) ==
    g[{}] = base /\ \A s \in (SUBSET S) \ {{}} : g[s] = step[ch[s]][g[s \ {ch[s]}]]

LEMMA FoldGrows ==
    ASSUME NEW S, IsFiniteSet(S), NEW ch, Chooses(S, ch),
           NEW V, NEW base \in V, NEW step \in [S -> [V -> V]],
           NEW n \in Nat, NEW g \in [SUBSET S -> V], FoldsTo(S, ch, base, step, n, g)
    PROVE  \E h \in [SUBSET S -> V] : FoldsTo(S, ch, base, step, n + 1, h)
<1> DEFINE h == [s \in SUBSET S |-> IF s = {} THEN base ELSE step[ch[s]][g[s \ {ch[s]}]]]
<1>1. \A s \in (SUBSET S) \ {{}} : ch[s] \in S /\ s \ {ch[s]} \in SUBSET S
  BY DEF Chooses
<1>2. h \in [SUBSET S -> V]
  <2>1. \A s \in (SUBSET S) \ {{}} : step[ch[s]] \in [V -> V] /\ g[s \ {ch[s]}] \in V
    BY <1>1
  <2>2. \A s \in (SUBSET S) \ {{}} : step[ch[s]][g[s \ {ch[s]}]] \in V
    BY <2>1
  <2> QED
    BY <2>2
<1>3. \A s \in SUBSET S : IsFiniteSet(s) /\ Cardinality(s) \in Nat
  BY FS_Subset, FS_CardinalityType
<1>4. h[{}] = base /\ \A s \in (SUBSET S) \ {{}} : h[s] = step[ch[s]][g[s \ {ch[s]}]]
  OBVIOUS
<1> HIDE DEF h
<1>5. ASSUME NEW s \in SUBSET S, Cardinality(s) <= n PROVE h[s] = g[s]
  BY <1>4, <1>5 DEF FoldsTo
<1>6. ASSUME NEW s \in (SUBSET S) \ {{}}, Cardinality(s) <= n + 1
      PROVE  h[s] = step[ch[s]][h[s \ {ch[s]}]]
  <2>1. ch[s] \in s
    BY DEF Chooses
  <2>2. Cardinality(s \ {ch[s]}) <= n
    BY <1>3, <1>6, <2>1, FS_RemoveElement
  <2>3. h[s \ {ch[s]}] = g[s \ {ch[s]}]
    BY <1>1, <1>5, <2>2
  <2> QED
    BY <1>4, <2>3
<1> QED
  BY <1>2, <1>4, <1>6 DEF FoldsTo

LEMMA FoldExists ==
    ASSUME NEW S, IsFiniteSet(S), NEW ch, Chooses(S, ch),
           NEW V, NEW base \in V, NEW step \in [S -> [V -> V]]
    PROVE  \E g \in [SUBSET S -> V] : Folds(S, ch, base, step, g)
<1> DEFINE Good(n) == \E g \in [SUBSET S -> V] : FoldsTo(S, ch, base, step, n, g)
           T == {n \in Nat : ~Good(n)}
<1>1. \A s \in SUBSET S : IsFiniteSet(s) /\ Cardinality(s) \in Nat /\ Cardinality(s) <= Cardinality(S)
  BY FS_Subset, FS_CardinalityType
<1>2. Good(0)
  <2> DEFINE g == [s \in SUBSET S |-> base]
  <2>1. g \in [SUBSET S -> V] /\ g[{}] = base
    OBVIOUS
  <2>2. \A s \in (SUBSET S) \ {{}} : ~(Cardinality(s) <= 0)
    BY <1>1, FS_EmptySet
  <2> QED
    BY <2>1, <2>2 DEF FoldsTo
<1>3. \A n \in Nat : Good(n) => Good(n + 1)
  BY FoldGrows
<1> HIDE DEF Good
<1>4. T = {}
  <2> SUFFICES ASSUME T # {} PROVE FALSE
    OBVIOUS
  <2>1. PICK n \in T : \A m \in T : n <= m
    BY SmallestExists
  <2>2. n # 0 /\ n \in Nat
    BY <1>2
  <2>3. n - 1 \in Nat /\ n - 1 \notin T /\ (n - 1) + 1 = n
    BY <2>1, <2>2
  <2> QED
    BY <1>3, <2>1, <2>3
<1>5. Good(Cardinality(S))
  BY <1>1, <1>4
<1> QED
  BY <1>1, <1>5 DEF Good, FoldsTo, Folds

(* The sum of c over S, as MapThenSumSet unfolds.                          *)
One(s) == CHOOSE x \in s : TRUE
Sums(c, S, g) ==
    g = [s \in SUBSET S |-> IF s = {} THEN 0 ELSE c[One(s)] + g[s \ {One(s)}]]
SumOf(c, S) == CHOOSE g : Sums(c, S, g)
Total(c, S) == SumOf(c, S)[S]

Amounts(c, S) == \A x \in S : c[x] \in Nat
Adds(c, S, h) ==
    /\ h \in [SUBSET S -> Nat] /\ h[{}] = 0
    /\ \A s \in (SUBSET S) \ {{}} : h[s] = c[One(s)] + h[s \ {One(s)}]
AddsAnyhow(c, S, h) == \A s \in SUBSET S : \A x \in s : h[s] = c[x] + h[s \ {x}]

LEMMA OneIsIn == \A s : s # {} => One(s) \in s
BY DEF One

LEMMA SumsFacts ==
    ASSUME NEW S, IsFiniteSet(S), NEW c, Amounts(c, S), NEW h, h = SumOf(c, S)
    PROVE  Adds(c, S, h)
<1> DEFINE ch == [s \in (SUBSET S) \ {{}} |-> One(s)]
           step == [x \in S |-> [v \in Nat |-> c[x] + v]]
<1>1. Chooses(S, ch)
  BY OneIsIn DEF Chooses
<1>2. step \in [S -> [Nat -> Nat]]
  BY DEF Amounts
<1>3. \A s \in (SUBSET S) \ {{}} :
         ch[s] = One(s) /\ ch[s] \in S /\ s \ {ch[s]} \in SUBSET S
  BY <1>1 DEF Chooses
<1>4. \A x \in S : \A v \in Nat : step[x][v] = c[x] + v
  OBVIOUS
<1> HIDE DEF ch, step
<1>5. PICK g \in [SUBSET S -> Nat] : Folds(S, ch, 0, step, g)
  BY <1>1, <1>2, FoldExists
<1>6. \A s \in (SUBSET S) \ {{}} : g[s] = c[ch[s]] + g[s \ {ch[s]}]
  BY <1>3, <1>4, <1>5 DEF Folds
<1>7. Sums(c, S, g)
  <2>1. \A s \in SUBSET S : g[s] = IF s = {} THEN 0 ELSE c[One(s)] + g[s \ {One(s)}]
    BY <1>3, <1>5, <1>6 DEF Folds
  <2> QED
    BY <2>1 DEF Sums
<1>8. Sums(c, S, h)
  BY <1>7 DEF SumOf
<1>9. /\ DOMAIN h = SUBSET S /\ h[{}] = 0
      /\ \A s \in (SUBSET S) \ {{}} : h[s] = c[One(s)] + h[s \ {One(s)}]
  BY <1>8 DEF Sums
<1>10. \A s \in (SUBSET S) \ {{}} : g[s \ {ch[s]}] = h[s \ {ch[s]}] => g[s] = h[s]
  BY <1>3, <1>6, <1>9
<1>11. \A s \in SUBSET S : g[s] = h[s]
  <2>1. Alike(S, ch, g, h)
    BY <1>5, <1>9, <1>10 DEF Alike, Folds
  <2> QED
    BY <1>1, <2>1, FoldUnique
<1>12. h = [s \in SUBSET S |-> h[s]]
  BY <1>8 DEF Sums
<1>13. h \in [SUBSET S -> Nat]
  BY <1>11, <1>12
<1> QED
  BY <1>9, <1>13 DEF Adds

(* A set's sum is an element's and the rest's, whichever element it is.    *)
LEMMA SumsAnyOrder ==
    ASSUME NEW S, IsFiniteSet(S), NEW c, Amounts(c, S), NEW h, h = SumOf(c, S)
    PROVE  AddsAnyhow(c, S, h)
<1>1. Adds(c, S, h)
  BY SumsFacts
<1>2. \A s \in SUBSET S : IsFiniteSet(s) /\ Cardinality(s) \in Nat
  BY FS_Subset, FS_CardinalityType
<1> DEFINE Good(s) == \A x \in s : h[s] = c[x] + h[s \ {x}]
           T == {n \in Nat : \E s \in SUBSET S : ~Good(s) /\ Cardinality(s) = n}
<1>3. ASSUME NEW s \in SUBSET S, \A x \in s : Good(s \ {x}) PROVE Good(s)
  <2> SUFFICES ASSUME NEW x \in s PROVE h[s] = c[x] + h[s \ {x}]
    OBVIOUS
  <2>1. PICK y \in s : h[s] = c[y] + h[s \ {y}]
    <3>1. s \in (SUBSET S) \ {{}} /\ One(s) \in s
      BY OneIsIn
    <3> QED
      BY <1>1, <3>1 DEF Adds
  <2>2. CASE x = y
    BY <2>1, <2>2
  <2>3. CASE x # y
    <3>1. x \in s \ {y} /\ y \in s \ {x} /\ (s \ {y}) \ {x} = (s \ {x}) \ {y}
      BY <2>3
    <3>2. h[s \ {y}] = c[x] + h[(s \ {y}) \ {x}]
      BY <1>3, <2>1, <3>1
    <3>3. h[s \ {x}] = c[y] + h[(s \ {x}) \ {y}]
      BY <1>3, <2>1, <3>1
    <3>4. c[x] \in Nat /\ c[y] \in Nat /\ h[(s \ {y}) \ {x}] \in Nat
      <4>1. x \in S /\ y \in S /\ (s \ {y}) \ {x} \in SUBSET S
        OBVIOUS
      <4> QED
        BY <1>1, <4>1 DEF Adds, Amounts
    <3>5. h[(s \ {x}) \ {y}] = h[(s \ {y}) \ {x}]
      BY <3>1
    <3> HIDE DEF Good
    <3> QED
      BY <2>1, <3>2, <3>3, <3>4, <3>5
  <2> QED
    BY <2>2, <2>3
<1> HIDE DEF Good
<1>4. T = {}
  <2> SUFFICES ASSUME T # {} PROVE FALSE
    OBVIOUS
  <2>1. PICK n \in T : \A m \in T : n <= m
    BY SmallestExists
  <2>2. PICK s \in SUBSET S : ~Good(s) /\ Cardinality(s) = n
    OBVIOUS
  <2>3. PICK x \in s : ~Good(s \ {x})
    BY <1>3, <2>2
  <2>4. Cardinality(s \ {x}) = n - 1 /\ s \ {x} \in SUBSET S
    BY <1>2, <2>2, <2>3, FS_RemoveElement
  <2>5. n - 1 \in T
    BY <1>2, <2>3, <2>4
  <2> QED
    BY <2>1, <2>5
<1>5. \A s \in SUBSET S : Good(s)
  BY <1>2, <1>4
<1> QED
  BY <1>5 DEF Good, AddsAnyhow

LEMMA TotalWithin ==
    ASSUME NEW S, IsFiniteSet(S), NEW c, Amounts(c, S), NEW h, h = SumOf(c, S)
    PROVE  \A U \in SUBSET S : Total(c, U) = h[U]
<1> SUFFICES ASSUME NEW U \in SUBSET S PROVE Total(c, U) = h[U]
  OBVIOUS
<1> DEFINE ch == [s \in (SUBSET U) \ {{}} |-> One(s)]
           k == SumOf(c, U)
<1>1. Chooses(U, ch) /\ \A s \in (SUBSET U) \ {{}} : ch[s] = One(s)
  BY OneIsIn DEF Chooses
<1>2. IsFiniteSet(U) /\ Amounts(c, U)
  BY FS_Subset DEF Amounts
<1>3. Adds(c, U, k) /\ Adds(c, S, h)
  BY <1>2, SumsFacts
<1> HIDE DEF ch, k
<1>4. ASSUME NEW s \in (SUBSET U) \ {{}}, k[s \ {ch[s]}] = h[s \ {ch[s]}] PROVE k[s] = h[s]
  <2>1. s \in (SUBSET S) \ {{}}
    OBVIOUS
  <2> QED
    BY <1>1, <1>3, <1>4, <2>1 DEF Adds
<1>5. Alike(U, ch, k, h)
  BY <1>3, <1>4 DEF Alike, Adds
<1>6. \A s \in SUBSET U : k[s] = h[s]
  BY <1>1, <1>2, <1>5, FoldUnique
<1> QED
  BY <1>6 DEF Total, k

(* What a sum is, for every finite set of natural amounts.                 *)
LEMMA TotalFacts ==
    ASSUME NEW S, IsFiniteSet(S), NEW c, Amounts(c, S)
    PROVE  /\ Total(c, S) \in Nat /\ Total(c, {}) = 0
           /\ \A U \in SUBSET S :
                 /\ Total(c, U) \in Nat
                 /\ \A x \in U : Total(c, U) = c[x] + Total(c, U \ {x})
                 /\ \A x \in S \ U : Total(c, U \cup {x}) = c[x] + Total(c, U)
<1>1. PICK h : h = SumOf(c, S)
  OBVIOUS
<1>2. h \in [SUBSET S -> Nat] /\ h[{}] = 0
  BY <1>1, SumsFacts DEF Adds
<1>3. \A U \in SUBSET S : Total(c, U) = h[U]
  BY <1>1, TotalWithin
<1>4. AddsAnyhow(c, S, h)
  BY <1>1, SumsAnyOrder
<1>5. \A U \in SUBSET S : \A x \in S \ U : U \cup {x} \in SUBSET S /\ x \in U \cup {x} /\ (U \cup {x}) \ {x} = U
  OBVIOUS
<1> QED
  BY <1>2, <1>3, <1>4, <1>5 DEF AddsAnyhow

LEMMA TotalGrows ==
    ASSUME NEW S, IsFiniteSet(S), NEW c, Amounts(c, S), NEW U \in SUBSET S, NEW W \in SUBSET U
    PROVE  Total(c, U) \in Nat /\ Total(c, W) \in Nat /\ Total(c, W) <= Total(c, U)
<1> DEFINE ch == [s \in (SUBSET (U \ W)) \ {{}} |-> One(s)]
           P == {s \in SUBSET (U \ W) : Total(c, W) <= Total(c, W \cup s)}
<1>1. Chooses(U \ W, ch) /\ IsFiniteSet(U \ W)
  BY FS_Subset, OneIsIn DEF Chooses
<1>2. {} \in P
  <2>1. W \cup {} = W /\ Total(c, W) \in Nat
    BY TotalFacts
  <2> QED
    BY <2>1
<1>3. ASSUME NEW s \in (SUBSET (U \ W)) \ {{}}, s \ {ch[s]} \in P PROVE s \in P
  <2>1. ch[s] \in s
    BY <1>1 DEF Chooses
  <2> HIDE DEF ch
  <2>2. /\ W \cup (s \ {ch[s]}) \in SUBSET S /\ ch[s] \in S \ (W \cup (s \ {ch[s]}))
        /\ (W \cup (s \ {ch[s]})) \cup {ch[s]} = W \cup s
    BY <2>1
  <2>3. Total(c, W \cup s) = c[ch[s]] + Total(c, W \cup (s \ {ch[s]}))
    BY <2>2, TotalFacts
  <2>4. c[ch[s]] \in Nat /\ Total(c, W) \in Nat /\ Total(c, W \cup (s \ {ch[s]})) \in Nat
    BY <2>2, TotalFacts DEF Amounts
  <2> QED
    BY <1>3, <2>3, <2>4
<1> HIDE DEF ch, P
<1>4. SUBSET (U \ W) \subseteq P
  BY <1>1, <1>2, <1>3, SetInduction
<1>5. W \cup (U \ W) = U
  OBVIOUS
<1> QED
  BY <1>4, <1>5, TotalFacts DEF P

LEMMA TotalSame ==
    ASSUME NEW S, IsFiniteSet(S), NEW c, Amounts(c, S), NEW d, \A x \in S : d[x] = c[x]
    PROVE  Total(d, S) = Total(c, S)
<1> DEFINE ch == [s \in (SUBSET S) \ {{}} |-> One(s)]
<1>1. PICK k, h : k = SumOf(d, S) /\ h = SumOf(c, S)
  OBVIOUS
<1>2. Amounts(d, S)
  BY DEF Amounts
<1>3. Adds(d, S, k) /\ Adds(c, S, h)
  BY <1>1, <1>2, SumsFacts
<1>4. Chooses(S, ch) /\ \A s \in (SUBSET S) \ {{}} : ch[s] = One(s) /\ One(s) \in S
  BY OneIsIn DEF Chooses
<1> HIDE DEF ch
<1>5. Alike(S, ch, k, h)
  BY <1>3, <1>4 DEF Alike, Adds
<1>6. \A s \in SUBSET S : k[s] = h[s]
  BY <1>4, <1>5, FoldUnique
<1> QED
  BY <1>1, <1>6 DEF Total

LEMMA TotalInsert ==
    ASSUME NEW S, IsFiniteSet(S), NEW c, Amounts(c, S), NEW U \in SUBSET S, NEW x \in S \ U
    PROVE  Total(c, U) \in Nat /\ Total(c, U \cup {x}) = c[x] + Total(c, U)
BY TotalFacts

LEMMA TotalUnion ==
    ASSUME NEW S, IsFiniteSet(S), NEW c, Amounts(c, S), NEW U \in SUBSET S, NEW W \in SUBSET (S \ U)
    PROVE  Total(c, U \cup W) = Total(c, U) + Total(c, W)
<1> DEFINE ch == [s \in (SUBSET W) \ {{}} |-> One(s)]
           P == {s \in SUBSET W : Total(c, U \cup s) = Total(c, U) + Total(c, s)}
<1>1. Chooses(W, ch) /\ IsFiniteSet(W)
  BY FS_Subset, OneIsIn DEF Chooses
<1>2. {} \in P
  <2>1. U \cup {} = U /\ Total(c, U) \in Nat /\ Total(c, {}) = 0
    BY TotalFacts
  <2> QED
    BY <2>1
<1>3. ASSUME NEW s \in (SUBSET W) \ {{}}, s \ {ch[s]} \in P PROVE s \in P
  <2>1. PICK x : x = ch[s] /\ x \in s
    BY <1>1 DEF Chooses
  <2> HIDE DEF ch
  <2>2. /\ U \cup (s \ {x}) \in SUBSET S /\ x \in S \ (U \cup (s \ {x})) /\ x \in S
        /\ (U \cup (s \ {x})) \cup {x} = U \cup s
        /\ s \ {x} \in SUBSET S /\ x \in S \ (s \ {x}) /\ (s \ {x}) \cup {x} = s
    BY <2>1
  <2>3. Total(c, U \cup s) = c[x] + Total(c, U \cup (s \ {x}))
    BY <2>2, TotalInsert
  <2>4. Total(c, s) = c[x] + Total(c, s \ {x}) /\ Total(c, s \ {x}) \in Nat
    BY <2>2, TotalInsert
  <2>5. c[x] \in Nat /\ Total(c, U) \in Nat
    BY <2>2, TotalFacts DEF Amounts
  <2>6. Total(c, U \cup (s \ {x})) = Total(c, U) + Total(c, s \ {x})
    BY <1>3, <2>1
  <2> QED
    BY <2>3, <2>4, <2>5, <2>6
<1> HIDE DEF ch, P
<1>4. SUBSET W \subseteq P
  BY <1>1, <1>2, <1>3, SetInduction
<1> QED
  BY <1>4 DEF P

(* What is inside a set, and one more of it, costs no more than the set.   *)
LEMMA OneMoreWithin ==
    ASSUME NEW P, IsFiniteSet(P), NEW c, Amounts(c, P), NEW U \in SUBSET P, NEW i \in P \ U,
           NEW S, S \in SUBSET P /\ U \cup {i} \in SUBSET S
    PROVE  /\ Total(c, S) \in Nat /\ Total(c, U) \in Nat /\ c[i] \in Nat
           /\ c[i] + Total(c, U) <= Total(c, S)
<1>1. c[i] \in Nat
  BY DEF Amounts
<1>2. Total(c, U) \in Nat /\ Total(c, U \cup {i}) = c[i] + Total(c, U)
  BY TotalFacts
<1>3. Total(c, U \cup {i}) <= Total(c, S) /\ Total(c, S) \in Nat
  BY TotalGrows
<1> QED
  BY <1>1, <1>2, <1>3

-----------------------------------------------------------------------------
(* Ranks: below[x] is what comes before x in a strict total order of S.    *)
Ordered(S, below) ==
    /\ below \in [S -> SUBSET S]
    /\ \A x \in S : x \notin below[x]
    /\ \A x, y \in S : y \in below[x] => below[y] \subseteq below[x]
    /\ \A x, y \in S : x # y => x \in below[y] \/ y \in below[x]

(* seq lists S in that order.                                              *)
Lists(S, below, seq) ==
    /\ seq \in [1 .. Cardinality(S) -> S]
    /\ \A x \in S : \E k \in 1 .. Cardinality(S) : seq[k] = x
    /\ \A k, l \in 1 .. Cardinality(S) : k < l => seq[k] \in below[seq[l]]
    /\ \A k, l \in 1 .. Cardinality(S) : seq[k] = seq[l] => k = l

LEMMA RankGrows ==
    ASSUME NEW S, IsFiniteSet(S), NEW below, Ordered(S, below), NEW x \in S, NEW y \in S
    PROVE  /\ Cardinality(below[x]) \in 0 .. Cardinality(S) - 1
           /\ Cardinality(S) \in Nat
           /\ y \in below[x] => Cardinality(below[y]) < Cardinality(below[x])
<1>1. \A z \in S : /\ below[z] \in SUBSET S /\ IsFiniteSet(below[z])
                   /\ Cardinality(below[z]) \in Nat /\ Cardinality(S) \in Nat
  BY FS_Subset, FS_CardinalityType DEF Ordered
<1>2. Cardinality(below[x]) <= Cardinality(S) /\ Cardinality(below[x]) # Cardinality(S)
  BY <1>1, FS_Subset DEF Ordered
<1>3. ASSUME y \in below[x] PROVE Cardinality(below[y]) < Cardinality(below[x])
  <2>1. below[y] \in SUBSET below[x] /\ below[y] # below[x]
    BY <1>3 DEF Ordered
  <2>2. Cardinality(below[y]) <= Cardinality(below[x]) /\ Cardinality(below[y]) # Cardinality(below[x])
    BY <1>1, <2>1, FS_Subset
  <2> QED
    BY <1>1, <2>2
<1> QED
  BY <1>1, <1>2, <1>3

(* Taking for k the element with k - 1 before it lists the set.            *)
LEMMA RankLists ==
    ASSUME NEW S, IsFiniteSet(S), NEW below, Ordered(S, below), NEW seq,
           seq = [k \in 1 .. Cardinality(S) |-> CHOOSE x \in S : Cardinality(below[x]) = k - 1]
    PROVE  Lists(S, below, seq)
<1> DEFINE n == Cardinality(S)
           rank == [x \in S |-> Cardinality(below[x])]
<1>1. n \in Nat
  BY FS_CardinalityType
<1>2. rank \in [S -> 0 .. n - 1]
  BY RankGrows
<1>3. \A x, y \in S : x # y => rank[x] # rank[y]
  BY <1>2, RankGrows DEF Ordered
<1>4. IsFiniteSet(0 .. n - 1) /\ Cardinality(0 .. n - 1) = n
  <2> HIDE DEF n
  <2>1. n - 1 \in Int /\ 0 \in Int
    BY <1>1
  <2>2. IsFiniteSet(0 .. n - 1) /\ Cardinality(0 .. n - 1) = IF 0 > n - 1 THEN 0 ELSE (n - 1) - 0 + 1
    BY <2>1, FS_Interval
  <2> QED
    BY <1>1, <2>2
<1>5. rank \in Injection(S, 0 .. n - 1)
  BY <1>2, <1>3 DEF Injection, IsInjective
<1> HIDE DEF rank, n
<1>6. rank \in Surjection(S, 0 .. n - 1)
  BY <1>4, <1>5, FS_Injection DEF n
<1>7. \A k \in 1 .. n : \E x \in S : rank[x] = k - 1
  <2> SUFFICES ASSUME NEW k \in 1 .. n PROVE \E x \in S : rank[x] = k - 1
    OBVIOUS
  <2>1. k - 1 \in 0 .. n - 1
    BY <1>1
  <2> QED
    BY <1>6, <2>1 DEF Surjection
<1>8. \A x \in S : rank[x] = Cardinality(below[x])
  BY DEF rank
<1>9. \A k \in 1 .. n : \E x \in S : Cardinality(below[x]) = k - 1
  BY <1>7, <1>8
<1>10. DOMAIN seq = 1 .. n /\ \A k \in 1 .. n : seq[k] \in S /\ Cardinality(below[seq[k]]) = k - 1
  BY <1>9 DEF n
<1>11. seq \in [1 .. n -> S]
  BY <1>10 DEF n
<1>12. ASSUME NEW x \in S PROVE \E k \in 1 .. n : seq[k] = x
  <2>1. rank[x] \in 0 .. n - 1
    BY <1>2
  <2>2. rank[x] + 1 \in 1 .. n
    BY <1>1, <2>1
  <2>3. rank[seq[rank[x] + 1]] = rank[x] /\ seq[rank[x] + 1] \in S
    BY <1>8, <1>10, <2>1, <2>2
  <2> QED
    BY <1>3, <2>2, <2>3
<1>13. ASSUME NEW k \in 1 .. n, NEW l \in 1 .. n, k < l PROVE seq[k] \in below[seq[l]]
  <2>1. PICK x, y : x = seq[k] /\ y = seq[l]
    OBVIOUS
  <2>2. x \in S /\ y \in S /\ Cardinality(below[x]) = k - 1 /\ Cardinality(below[y]) = l - 1
    BY <1>10, <2>1
  <2>3. x # y
    BY <1>13, <2>2
  <2>4. ~(y \in below[x])
    BY <1>13, <2>2, RankGrows
  <2> QED
    BY <2>1, <2>2, <2>3, <2>4 DEF Ordered
<1>14. \A k, l \in 1 .. n : seq[k] = seq[l] => k = l
  BY <1>10
<1> QED
  BY <1>11, <1>12, <1>13, <1>14 DEF Lists, n

LEMMA FirstExists ==
    ASSUME NEW S, IsFiniteSet(S), S # {}, NEW below, Ordered(S, below)
    PROVE  \E x \in S : \A y \in S : y = x \/ x \in below[y]
<1> DEFINE T == {Cardinality(below[x]) : x \in S}
<1>1. T \in SUBSET Nat /\ T # {}
  BY RankGrows
<1>2. PICK m \in T : \A e \in T : m <= e
  BY <1>1, SmallestExists
<1>3. PICK x \in S : m = Cardinality(below[x])
  BY <1>2
<1>4. ASSUME NEW y \in S PROVE ~(y \in below[x])
  <2>1. Cardinality(below[y]) \in T
    OBVIOUS
  <2>2. Cardinality(below[x]) <= Cardinality(below[y])
    BY <1>2, <1>3, <2>1
  <2>3. Cardinality(below[y]) \in Nat /\ Cardinality(below[x]) \in Nat
    BY <1>1
  <2> QED
    BY <2>2, <2>3, RankGrows
<1> QED
  BY <1>4 DEF Ordered

LEMMA LargestExists ==
    ASSUME NEW n \in Nat, NEW s \in SUBSET (1 .. n), s # {}
    PROVE  \E x \in s : \A y \in s : y <= x
<1> DEFINE T == {n - x : x \in s}
<1>1. T \in SUBSET Nat /\ T # {}
  <2>1. \A x \in s : x \in 1 .. n
    OBVIOUS
  <2>2. \A x \in s : n - x \in Nat
    BY <2>1
  <2> QED
    BY <2>2
<1>2. PICK d \in T : \A e \in T : d <= e
  BY <1>1, SmallestExists
<1>3. PICK x \in s : d = n - x
  BY <1>2
<1>4. ASSUME NEW y \in s PROVE y <= x
  <2>1. n - x <= n - y
    BY <1>2, <1>3
  <2> QED
    BY <2>1
<1> QED
  BY <1>4

(* The values a fold over 1 .. n goes through when it takes the last first. *)
Goes(n, start, step, h) == h[0] = start /\ \A k \in 1 .. n : h[k] = step[k][h[k - 1]]

LastFirst(n, ch) == Chooses(1 .. n, ch) /\ \A k \in 1 .. n : ch[1 .. k] = k
Traced(n, V, start, step, ch) ==
    \E g \in [SUBSET (1 .. n) -> V], h \in [0 .. n -> V] :
        Folds(1 .. n, ch, start, step, g) /\ Goes(n, start, step, h) /\ h[n] = g[1 .. n]

LEMMA FoldTrace ==
    ASSUME NEW n \in Nat, NEW V, NEW start \in V, NEW step \in [1 .. n -> [V -> V]],
           NEW ch, LastFirst(n, ch)
    PROVE  Traced(n, V, start, step, ch)
<1>0. Chooses(1 .. n, ch) /\ \A k \in 1 .. n : ch[1 .. k] = k
  BY DEF LastFirst
<1>1. IsFiniteSet(1 .. n)
  BY FS_Interval
<1>3. PICK g \in [SUBSET (1 .. n) -> V] : Folds(1 .. n, ch, start, step, g)
  BY <1>0, <1>1, FoldExists
<1> DEFINE h == [k \in 0 .. n |-> g[1 .. k]]
<1>4. \A k \in 0 .. n : 1 .. k \in SUBSET (1 .. n)
  OBVIOUS
<1>5. h \in [0 .. n -> V]
  BY <1>4
<1>6. h[0] = start
  <2>1. 1 .. 0 = {}
    OBVIOUS
  <2> QED
    BY <1>3, <2>1 DEF Folds
<1>7. ASSUME NEW k \in 1 .. n PROVE h[k] = step[k][h[k - 1]]
  <2>0. k \in Nat /\ 1 \in 1 .. k /\ 1 .. k \subseteq 1 .. n
    OBVIOUS
  <2>1. 1 .. k \in (SUBSET (1 .. n)) \ {{}}
    BY <2>0
  <2>2. (1 .. k) \ {k} = 1 .. k - 1 /\ ch[1 .. k] = k
    BY <1>0
  <2>3. \A s \in (SUBSET (1 .. n)) \ {{}} : g[s] = step[ch[s]][g[s \ {ch[s]}]]
    BY <1>3 DEF Folds
  <2>4. g[1 .. k] = step[k][g[1 .. k - 1]]
    BY <2>1, <2>2, <2>3
  <2>5. h[k] = g[1 .. k] /\ h[k - 1] = g[1 .. k - 1]
    OBVIOUS
  <2> QED
    BY <2>4, <2>5
<1>8. h[n] = g[1 .. n]
  OBVIOUS
<1> HIDE DEF h
<1> QED
  BY <1>3, <1>5, <1>6, <1>7, <1>8 DEF Goes, Traced
=============================================================================
