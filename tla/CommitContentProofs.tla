------------------------ MODULE CommitContentProofs -------------------------
(***************************************************************************)
(* Theorems about CommitContent, for any number of workers, jobs, files,   *)
(* keys, branches, executions and merges: which commits the branches have, *)
(* and what these commits hold.  A commit is computed by folds over the    *)
(* files of its spec.  Each fold is shown to be a chain of steps, one per  *)
(* file, by induction over the number of files (AllNumbers); what one step *)
(* does to a tree is then carried along the chain, and along the branch.   *)
(***************************************************************************)
EXTENDS CommitContent, WellFoundedInduction, FiniteSetTheorems, TLAPS

-----------------------------------------------------------------------------
(* Prefixes, position by position.                                         *)

LEMMA PrefixAt ==
  ASSUME NEW S, NEW s \in Seq(S), NEW t \in Seq(S)
  PROVE  IsPrefix(s, t) <=> Len(s) <= Len(t) /\ \A i \in 1 .. Len(s) : s[i] = t[i]
  BY DEF IsPrefix

LEMMA PrefixRefl ==
  ASSUME NEW S, NEW s \in Seq(S) PROVE IsPrefix(s, s)
  BY PrefixAt

(* One more commit: the branch is extended, and what is in front of the    *)
(* new commit is the branch as it was.                                     *)
LEMMA AppendPrefix ==
  ASSUME NEW S, NEW s \in Seq(S), NEW e \in S
  PROVE  /\ Append(s, e) \in Seq(S) /\ Append(s, e) # <<>>
         /\ IsPrefix(s, Append(s, e)) /\ Front(Append(s, e)) = s
  <1> DEFINE t == Append(s, e)
  <1>1. t \in Seq(S) /\ Len(t) = Len(s) + 1 /\ Len(s) \in Nat
    OBVIOUS
  <1>2. \A i \in 1 .. Len(s) : s[i] = t[i]
    OBVIOUS
  <1>3. Front(t) = s
    <2>1. SubSeq(t, 1, Len(s)) = s
      BY <1>1, <1>2
    <2> QED
      BY <1>1, <2>1 DEF Front
  <1>4. t # <<>>
    BY <1>1
  <1>5. IsPrefix(s, t)
    <2> HIDE DEF t
    <2> QED
      BY <1>1, <1>2, PrefixAt
  <1> QED
    BY <1>1, <1>3, <1>4, <1>5

LEMMA FrontPrefix ==
  ASSUME NEW S, NEW s \in Seq(S), s # <<>>
  PROVE  Front(s) \in Seq(S) /\ IsPrefix(Front(s), s)
  <1>1. Len(s) \in Nat \ {0}
    OBVIOUS
  <1>2. /\ Front(s) \in Seq(S) /\ Len(Front(s)) = Len(s) - 1
        /\ \A i \in 1 .. Len(s) - 1 : Front(s)[i] = s[i]
    <2> DEFINE n == Len(s) - 1
    <2>1. n \in Nat /\ n <= Len(s) /\ Front(s) = SubSeq(s, 1, n)
      BY <1>1 DEF Front
    <2> HIDE DEF n
    <2>2. \A i \in 1 .. n : s[i] \in S
      BY <2>1
    <2>3. SubSeq(s, 1, n) = [i \in 1 .. n |-> s[i]]
      BY <2>1
    <2>4. Front(s) \in Seq(S) /\ Len(Front(s)) = n
      BY <2>1, <2>2, <2>3
    <2>5. \A i \in 1 .. n : Front(s)[i] = s[i]
      BY <2>1, <2>3
    <2> QED
      BY <2>4, <2>5 DEF n
  <1> QED
    BY <1>1, <1>2, PrefixAt

-----------------------------------------------------------------------------
(* Induction over the numbers, by the least number that is not in a set;   *)
(* and folds: a fold from left to right is a chain of values.              *)

(* A set of numbers with 0 in it, and with every number the next, has all. *)
LEMMA AllNumbers ==
  ASSUME NEW T, T \subseteq Nat, 0 \in T, \A n \in T : n + 1 \in T
  PROVE  T = Nat
  <1> DEFINE R == OpToRel(<, Nat)
             U == Nat \ T
  <1>1. SUFFICES ASSUME U # {} PROVE FALSE
    OBVIOUS
  <1>2. IsWellFoundedOn(R, Nat)
    BY NatLessThanWellFounded
  <1>3. PICK x \in U : \A y \in U : ~ (<<y, x>> \in R)
    <2>1. U \subseteq Nat
      OBVIOUS
    <2> HIDE DEF R, U
    <2> QED
      BY <1>1, <1>2, <2>1, WFMin
  <1>4. \A y \in Nat : y < x => <<y, x>> \in R
    BY DEF OpToRel
  <1>5. x # 0 /\ x \in Nat
    OBVIOUS
  <1>6. x - 1 \in Nat /\ x - 1 < x
    BY <1>5
  <1>7. x - 1 \in T
    BY <1>3, <1>4, <1>6
  <1>8. (x - 1) + 1 \in T
    BY <1>7
  <1> QED
    BY <1>5, <1>8

LEMMA MaxNew ==
  ASSUME NEW n \in Nat, NEW s, s \subseteq 1 .. n + 1, n + 1 \in s
  PROVE  Max(s) = n + 1
  <1>1. \A y \in s : n + 1 >= y
    OBVIOUS
  <1>2. \A x \in s : (\A y \in s : x >= y) => x = n + 1
    OBVIOUS
  <1> QED
    BY <1>1, <1>2 DEF Max

(* g is the recursive function of a fold from left to right over 1 .. N.   *)
FoldOver(g, b, N, h) ==
    \A s \in SUBSET (1 .. N) :
        g[s] = IF s = {} THEN b ELSE h[Max(s)][g[s \ {Max(s)}]]

(* It exists.                                                              *)
LEMMA FoldExists ==
  ASSUME NEW V, NEW b \in V, NEW N \in Nat, NEW h \in [1 .. N -> [V -> V]]
  PROVE  \E g \in [SUBSET (1 .. N) -> V] : FoldOver(g, b, N, h)
  <1> DEFINE Good(n, g) ==
               \A s \in SUBSET (1 .. n) :
                   g[s] = IF s = {} THEN b ELSE h[Max(s)][g[s \ {Max(s)}]]
             Some(n) == \E g \in [SUBSET (1 .. n) -> V] : Good(n, g)
             T == {n \in Nat : n <= N => Some(n)}
  <1> HIDE DEF Good, Some
  <1>1. 0 \in T
    <2> DEFINE g == [s \in SUBSET (1 .. 0) |-> b]
    <2>1. g \in [SUBSET (1 .. 0) -> V]
      OBVIOUS
    <2>2. \A s \in SUBSET (1 .. 0) : s = {} /\ g[s] = b
      OBVIOUS
    <2>3. Good(0, g)
      BY <2>2 DEF Good
    <2> QED
      BY <2>1, <2>3 DEF Some
  <1>2. ASSUME NEW n \in T PROVE n + 1 \in T
    <2> SUFFICES ASSUME n + 1 <= N PROVE Some(n + 1)
      OBVIOUS
    <2>1. n \in Nat /\ n <= N /\ n + 1 \in 1 .. N
      OBVIOUS
    <2>2. PICK g \in [SUBSET (1 .. n) -> V] : Good(n, g)
      BY <2>1 DEF Some
    <2>3. \A s \in SUBSET (1 .. n + 1) : s \ {n + 1} \in SUBSET (1 .. n)
      BY <2>1
    <2>4. \A s \in SUBSET (1 .. n + 1) : n + 1 \notin s => s \in SUBSET (1 .. n)
      BY <2>3
    <2> DEFINE f == [s \in SUBSET (1 .. n + 1) |->
                        IF n + 1 \in s THEN h[n + 1][g[s \ {n + 1}]] ELSE g[s]]
    <2>5. f \in [SUBSET (1 .. n + 1) -> V]
      <3> SUFFICES ASSUME NEW s \in SUBSET (1 .. n + 1) PROVE f[s] \in V
        OBVIOUS
      <3>1. CASE n + 1 \in s
        <4>1. g[s \ {n + 1}] \in V
          BY <2>3
        <4>2. h[n + 1] \in [V -> V]
          BY <2>1
        <4> QED
          BY <3>1, <4>1, <4>2
      <3>2. CASE n + 1 \notin s
        BY <2>4, <3>2
      <3> QED
        BY <3>1, <3>2
    <2>6. \A s \in SUBSET (1 .. n) : s \in SUBSET (1 .. n + 1) /\ n + 1 \notin s
      BY <2>1
    <2>7. \A s \in SUBSET (1 .. n) : f[s] = g[s]
      BY <2>6
    <2>8. Good(n + 1, f)
      <3> SUFFICES ASSUME NEW s \in SUBSET (1 .. n + 1)
                   PROVE  f[s] = IF s = {} THEN b ELSE h[Max(s)][f[s \ {Max(s)}]]
        BY DEF Good
      <3>1. CASE n + 1 \in s
        <4>1. Max(s) = n + 1
          BY <2>1, <3>1, MaxNew
        <4>2. f[s] = h[n + 1][g[s \ {n + 1}]]
          BY <3>1
        <4>3. f[s \ {n + 1}] = g[s \ {n + 1}]
          BY <2>3, <2>7
        <4> QED
          BY <3>1, <4>1, <4>2, <4>3
      <3>2. CASE n + 1 \notin s
        <4>1. s \in SUBSET (1 .. n) /\ s \ {Max(s)} \in SUBSET (1 .. n)
          BY <2>4, <3>2
        <4>2. g[s] = IF s = {} THEN b ELSE h[Max(s)][g[s \ {Max(s)}]]
          BY <2>2, <4>1 DEF Good
        <4> HIDE DEF f
        <4> QED
          BY <2>7, <4>1, <4>2
      <3> QED
        BY <3>1, <3>2
    <2> QED
      BY <2>5, <2>8 DEF Some
  <1>3. T = Nat
    <2> HIDE DEF T
    <2>1. T \subseteq Nat
      BY DEF T
    <2> QED
      BY <1>1, <1>2, <2>1, AllNumbers
  <1>4. Some(N)
    BY <1>3
  <1> QED
    BY <1>4 DEF Some, Good, FoldOver

(* Along the numbers the fold is a chain of values.                        *)
LEMMA FoldChain ==
  ASSUME NEW V, NEW b \in V, NEW N \in Nat, NEW h \in [1 .. N -> [V -> V]],
         NEW c, c[{}] = b,
         \A n \in 1 .. N : c[1 .. n - 1] \in V => c[1 .. n] = h[n][c[1 .. n - 1]]
  PROVE  \A n \in 0 .. N : c[1 .. n] \in V
  <1> DEFINE T == {n \in Nat : n <= N => c[1 .. n] \in V}
  <1>1. 0 \in T
    <2>1. 1 .. 0 = {}
      OBVIOUS
    <2> QED
      BY <2>1
  <1>2. ASSUME NEW n \in T PROVE n + 1 \in T
    <2> SUFFICES ASSUME n + 1 <= N PROVE c[1 .. n + 1] \in V
      OBVIOUS
    <2>1. n + 1 \in 1 .. N /\ (n + 1) - 1 = n /\ c[1 .. n] \in V
      OBVIOUS
    <2>2. c[1 .. n + 1] = h[n + 1][c[1 .. n]]
      BY <2>1
    <2>3. h[n + 1] \in [V -> V]
      BY <2>1
    <2> QED
      BY <2>1, <2>2, <2>3
  <1>3. T = Nat
    <2> HIDE DEF T
    <2>1. T \subseteq Nat
      BY DEF T
    <2> QED
      BY <1>1, <1>2, <2>1, AllNumbers
  <1> QED
    BY <1>3

-----------------------------------------------------------------------------
(* Sequences of sequences: FlattenSeq is a chain of concatenations.        *)

LEMMA ConcatType ==
  ASSUME NEW S, NEW s \in Seq(S), NEW t \in Seq(S)
  PROVE  /\ s \o t \in Seq(S) /\ Len(s \o t) = Len(s) + Len(t)
         /\ \A m \in 1 .. Len(s) : (s \o t)[m] = s[m]
         /\ \A m \in 1 .. Len(s) + Len(t) : m > Len(s) => (s \o t)[m] = t[m - Len(s)]
  OBVIOUS

LEMMA ConcatEmpty ==
  ASSUME NEW S, NEW s \in Seq(S) PROVE <<>> \o s = s
  OBVIOUS

LEMMA MaxLast ==
  ASSUME NEW n \in Nat \ {0}
  PROVE  /\ Max(1 .. n) = n /\ 1 .. n # {}
         /\ (1 .. n) \ {n} = 1 .. n - 1
  <1>1. n - 1 \in Nat /\ (n - 1) + 1 = n /\ n \in 1 .. n
    OBVIOUS
  <1>2. Max(1 .. n) = n
    BY <1>1, MaxNew
  <1> QED
    BY <1>1, <1>2

(* FlattenSeq, one sequence after the other.                               *)
LEMMA FlattenExists ==
  ASSUME NEW S, NEW ss \in Seq(Seq(S)), ss # <<>>
  PROVE  \E f \in [1 .. Len(ss) -> Seq(S)] :
             f = [i \in 1 .. Len(ss) |-> IF i = 1 THEN ss[i] ELSE f[i - 1] \o ss[i]]
  <1> DEFINE N == Len(ss)
             V == Seq(S)
             h == [i \in 1 .. N |-> [v \in V |-> v \o ss[i]]]
  <1>1. N \in Nat \ {0} /\ <<>> \in V /\ \A i \in 1 .. N : ss[i] \in V
    OBVIOUS
  <1>2. h \in [1 .. N -> [V -> V]]
    BY <1>1
  <1>3. \A i \in 1 .. N : \A v \in V : h[i][v] = v \o ss[i]
    OBVIOUS
  <1> HIDE DEF N, h
  <1>4. PICK g \in [SUBSET (1 .. N) -> V] : FoldOver(g, <<>>, N, h)
    <2>1. N \in Nat /\ <<>> \in V
      BY <1>1
    <2> HIDE DEF V
    <2> QED
      BY <1>2, <2>1, FoldExists
  <1>5. \A i \in 1 .. N : g[1 .. i] = g[1 .. i - 1] \o ss[i]
    <2> TAKE i \in 1 .. N
    <2>1. i \in Nat \ {0} /\ 1 .. i \in SUBSET (1 .. N) /\ 1 .. i - 1 \in SUBSET (1 .. N)
      BY <1>1
    <2>2. Max(1 .. i) = i /\ 1 .. i # {} /\ (1 .. i) \ {i} = 1 .. i - 1
      BY <2>1, MaxLast
    <2>3. g[1 .. i - 1] \in V
      BY <2>1
    <2>4. g[1 .. i] = h[i][g[1 .. i - 1]]
      BY <1>4, <2>1, <2>2 DEF FoldOver
    <2> QED
      BY <1>3, <2>3, <2>4
  <1> DEFINE f == [i \in 1 .. N |-> g[1 .. i]]
  <1>6. f \in [1 .. N -> V]
    <2>1. \A i \in 1 .. N : 1 .. i \in SUBSET (1 .. N)
      BY <1>1
    <2> QED
      BY <2>1
  <1>7. \A i \in 1 .. N : f[i] = IF i = 1 THEN ss[i] ELSE f[i - 1] \o ss[i]
    <2> TAKE i \in 1 .. N
    <2>1. CASE i = 1
      <3>1. 1 .. i - 1 = {}
        BY <2>1
      <3>2. g[{}] = <<>>
        BY <1>4 DEF FoldOver
      <3>3. f[i] = <<>> \o ss[i]
        BY <1>5, <3>1, <3>2
      <3>4. f[i] = ss[i]
        BY <1>1, <3>3, ConcatEmpty
      <3> QED
        BY <2>1, <3>4
    <2>2. CASE i # 1
      <3>1. i - 1 \in 1 .. N
        BY <1>1, <2>2
      <3> QED
        BY <1>5, <2>2, <3>1
    <2> QED
      BY <2>1, <2>2
  <1>8. f = [i \in 1 .. N |-> IF i = 1 THEN ss[i] ELSE f[i - 1] \o ss[i]]
    BY <1>6, <1>7
  <1> HIDE DEF f
  <1> QED
    BY <1>6, <1>8 DEF N

(* The sequences flattened so far.                                         *)
FlattenSteps(S, ss, f) ==
    /\ f \in [0 .. Len(ss) -> Seq(S)]
    /\ f[0] = <<>>
    /\ \A i \in 1 .. Len(ss) : f[i] = f[i - 1] \o ss[i]
    /\ FlattenSeq(ss) = f[Len(ss)]

LEMMA FlattenChain ==
  ASSUME NEW S, NEW ss \in Seq(Seq(S))
  PROVE  \E f : FlattenSteps(S, ss, f)
  <1> DEFINE N == Len(ss)
             V == Seq(S)
  <1>1. N \in Nat /\ <<>> \in V /\ \A i \in 1 .. N : ss[i] \in V
    OBVIOUS
  <1>2. CASE N = 0
    <2> DEFINE f == [i \in 0 .. 0 |-> <<>>]
    <2>1. FlattenSeq(ss) = <<>> /\ ss = <<>>
      BY <1>2 DEF FlattenSeq
    <2>2. f \in [0 .. N -> V] /\ f[0] = <<>> /\ FlattenSeq(ss) = f[N]
      BY <1>1, <1>2, <2>1
    <2>3. 1 .. N = {}
      BY <1>2
    <2> HIDE DEF f
    <2> QED
      BY <2>2, <2>3 DEF FlattenSteps
  <1>3. CASE N # 0
    <2> DEFINE F(f) == f = [i \in 1 .. N |-> IF i = 1 THEN ss[i] ELSE f[i - 1] \o ss[i]]
               c == CHOOSE f : F(f)
    <2>1. \E f : F(f)
      <3>1. ss # <<>>
        BY <1>3
      <3>2. PICK e \in [1 .. N -> V] : F(e)
        BY <3>1, FlattenExists
      <3> QED
        BY <3>2
    <2>2. FlattenSeq(ss) = c[N]
      BY <1>3 DEF FlattenSeq
    <2>3. F(c)
      <3> HIDE DEF F
      <3> QED
        BY <2>1
    <2>4. \A i \in 1 .. N : c[i] = IF i = 1 THEN ss[i] ELSE c[i - 1] \o ss[i]
      <3> HIDE DEF c
      <3> QED
        BY <2>3
    <2> HIDE DEF c, F
    <2> DEFINE f == [i \in 0 .. N |-> IF i = 0 THEN <<>> ELSE c[i]]
    <2>5. f[0] = <<>> /\ \A i \in 1 .. N : f[i] = c[i]
      BY <1>1
    <2>6. \A i \in 2 .. N : f[i] = f[i - 1] \o ss[i]
      <3> TAKE i \in 2 .. N
      <3>1. i \in 1 .. N /\ i - 1 \in 1 .. N /\ i # 1
        BY <1>1
      <3> QED
        BY <2>4, <2>5, <3>1
    <2>7. f[1] = ss[1]
      BY <1>1, <1>3, <2>4, <2>5
    <2> HIDE DEF f
    <2> DEFINE T == {n \in Nat : n <= N => f[n] \in V}
    <2>8. 0 \in T
      BY <1>1, <2>5
    <2>9. ASSUME NEW n \in T PROVE n + 1 \in T
      <3> SUFFICES ASSUME n + 1 <= N PROVE f[n + 1] \in V
        OBVIOUS
      <3>1. n \in Nat /\ f[n] \in V /\ n + 1 \in 1 .. N /\ (n + 1) - 1 = n
        BY <1>1
      <3>2. CASE n = 0
        BY <1>1, <2>7, <3>1, <3>2
      <3>3. CASE n # 0
        <4>1. n + 1 \in 2 .. N
          BY <3>1, <3>3
        <4>2. f[n + 1] = f[n] \o ss[n + 1]
          BY <2>6, <3>1, <4>1
        <4>3. ss[n + 1] \in V
          BY <1>1, <3>1
        <4> QED
          BY <3>1, <4>2, <4>3, ConcatType
      <3> QED
        BY <3>2, <3>3
    <2>10. T = Nat
      <3> HIDE DEF T
      <3>1. T \subseteq Nat
        BY DEF T
      <3> QED
        BY <2>8, <2>9, <3>1, AllNumbers
    <2>11. \A i \in 0 .. N : f[i] \in V
      BY <2>10
    <2>12. f \in [0 .. N -> V]
      BY <2>11 DEF f
    <2>13. \A i \in 1 .. N : f[i] = f[i - 1] \o ss[i]
      <3> TAKE i \in 1 .. N
      <3>1. CASE i = 1
        <4>1. i - 1 = 0 /\ f[i - 1] = <<>> /\ f[i] = ss[1] /\ ss[1] \in V
          BY <1>1, <2>5, <2>7, <3>1
        <4> QED
          BY <3>1, <4>1, ConcatEmpty
      <3>2. CASE i # 1
        <4>1. i \in 2 .. N
          BY <3>2
        <4> QED
          BY <2>6, <4>1
      <3> QED
        BY <3>1, <3>2
    <2>14. FlattenSeq(ss) = f[N]
      BY <1>1, <1>3, <2>2, <2>5
    <2> QED
      BY <2>5, <2>12, <2>13, <2>14 DEF FlattenSteps
  <1> QED
    BY <1>2, <1>3

LEMMA FlattenType ==
  ASSUME NEW S, NEW ss \in Seq(Seq(S)) PROVE FlattenSeq(ss) \in Seq(S)
  <1>1. PICK f : FlattenSteps(S, ss, f)
    BY FlattenChain
  <1>2. Len(ss) \in 0 .. Len(ss)
    OBVIOUS
  <1> QED
    BY <1>1, <1>2 DEF FlattenSteps

LEMMA FlattenEmpty == FlattenSeq(<<>>) = <<>>
  BY DEF FlattenSeq

LEMMA FlattenAppend ==
  ASSUME NEW S, NEW ss \in Seq(Seq(S)), NEW s \in Seq(S)
  PROVE  FlattenSeq(Append(ss, s)) = FlattenSeq(ss) \o s
  <1> DEFINE N == Len(ss)
             tt == Append(ss, s)
  <1>1. N \in Nat /\ tt \in Seq(Seq(S)) /\ Len(tt) = N + 1 /\ tt[N + 1] = s
    OBVIOUS
  <1>2. \A i \in 1 .. N : tt[i] = ss[i]
    OBVIOUS
  <1> HIDE DEF tt
  <1>3. PICK f : FlattenSteps(S, ss, f)
    BY FlattenChain
  <1>4. PICK g : FlattenSteps(S, tt, g)
    BY <1>1, FlattenChain
  <1> DEFINE T == {n \in Nat : n <= N => g[n] = f[n]}
  <1>5. 0 \in T
    BY <1>3, <1>4 DEF FlattenSteps
  <1>6. ASSUME NEW n \in T PROVE n + 1 \in T
    <2> SUFFICES ASSUME n + 1 <= N PROVE g[n + 1] = f[n + 1]
      OBVIOUS
    <2>1. n \in Nat /\ g[n] = f[n] /\ n + 1 \in 1 .. N /\ n + 1 \in 1 .. N + 1
          /\ (n + 1) - 1 = n
      BY <1>1
    <2>2. f[n + 1] = f[n] \o ss[n + 1]
      BY <1>3, <2>1 DEF FlattenSteps
    <2>3. g[n + 1] = g[n] \o tt[n + 1]
      BY <1>1, <1>4, <2>1 DEF FlattenSteps
    <2> QED
      BY <1>2, <2>1, <2>2, <2>3
  <1>7. T = Nat
    <2> HIDE DEF T
    <2>1. T \subseteq Nat
      BY DEF T
    <2> QED
      BY <1>5, <1>6, <2>1, AllNumbers
  <1>8. g[N] = f[N]
    <2>1. N \in T
      BY <1>1, <1>7
    <2> QED
      BY <2>1
  <1>9. N + 1 \in 1 .. N + 1 /\ (N + 1) - 1 = N
    BY <1>1
  <1>10. g[N + 1] = g[N] \o s
    BY <1>1, <1>4, <1>9 DEF FlattenSteps
  <1>11. FlattenSeq(ss) = f[N] /\ FlattenSeq(tt) = g[N + 1]
    BY <1>1, <1>3, <1>4 DEF FlattenSteps
  <1> QED
    BY <1>8, <1>10, <1>11 DEF tt

(* Two lists of sequences of the same lengths, flattened: what stands at a *)
(* position of the one and of the other comes from one place.              *)
SamePlace(a, b, ss, tt, n, m) ==
    \E i \in 1 .. n : \E k \in 1 .. Len(ss[i]) : a[m] = ss[i][k] /\ b[m] = tt[i][k]

LEMMA FlattenTwo ==
  ASSUME NEW S, NEW ss \in Seq(Seq(S)), NEW tt \in Seq(Seq(S)), Len(ss) = Len(tt),
         \A i \in 1 .. Len(ss) : Len(ss[i]) = Len(tt[i])
  PROVE  /\ Len(FlattenSeq(ss)) = Len(FlattenSeq(tt))
         /\ \A m \in 1 .. Len(FlattenSeq(ss)) :
               SamePlace(FlattenSeq(ss), FlattenSeq(tt), ss, tt, Len(ss), m)
  <1> DEFINE N == Len(ss)
  <1>1. N \in Nat /\ \A i \in 1 .. N : ss[i] \in Seq(S) /\ tt[i] \in Seq(S)
    OBVIOUS
  <1>2. PICK f : FlattenSteps(S, ss, f)
    BY FlattenChain
  <1>3. PICK g : FlattenSteps(S, tt, g)
    BY FlattenChain
  <1> DEFINE Both(n) ==
               /\ Len(f[n]) = Len(g[n])
               /\ \A m \in 1 .. Len(f[n]) : SamePlace(f[n], g[n], ss, tt, n, m)
             T == {n \in Nat : n <= N => Both(n)}
  <1> HIDE DEF Both
  <1>4. 0 \in T
    <2>1. f[0] = <<>> /\ g[0] = <<>>
      BY <1>2, <1>3 DEF FlattenSteps
    <2>2. Both(0)
      BY <2>1 DEF Both
    <2> QED
      BY <2>2
  <1>5. ASSUME NEW n \in T PROVE n + 1 \in T
    <2> SUFFICES ASSUME n + 1 <= N PROVE Both(n + 1)
      OBVIOUS
    <2>1. n \in Nat /\ n + 1 \in 1 .. N /\ n \in 0 .. N /\ (n + 1) - 1 = n
      BY <1>1
    <2>2. Both(n)
      BY <2>1
    <2> DEFINE s == ss[n + 1]
               t == tt[n + 1]
    <2>3. f[n] \in Seq(S) /\ f[n + 1] = f[n] \o s
      BY <1>2, <2>1 DEF FlattenSteps
    <2>4. g[n] \in Seq(S) /\ g[n + 1] = g[n] \o t
      BY <1>3, <2>1 DEF FlattenSteps
    <2>5. s \in Seq(S) /\ t \in Seq(S) /\ Len(s) = Len(t)
      BY <1>1, <2>1
    <2> HIDE DEF s, t
    <2>6. Len(f[n + 1]) = Len(f[n]) + Len(s) /\ Len(g[n + 1]) = Len(g[n]) + Len(t)
      <3>1. Len(f[n] \o s) = Len(f[n]) + Len(s)
        BY <2>3, <2>5, ConcatType
      <3>2. Len(g[n] \o t) = Len(g[n]) + Len(t)
        BY <2>4, <2>5, ConcatType
      <3> QED
        BY <2>3, <2>4, <3>1, <3>2
    <2>7. Len(f[n]) = Len(g[n]) /\ Len(f[n]) \in Nat /\ Len(s) \in Nat
      BY <2>2, <2>3, <2>5 DEF Both
    <2>8. ASSUME NEW m \in 1 .. Len(f[n + 1])
          PROVE  SamePlace(f[n + 1], g[n + 1], ss, tt, n + 1, m)
      <3>1. CASE m <= Len(f[n])
        <4>1. m \in 1 .. Len(f[n])
          BY <2>7, <3>1
        <4>2. f[n + 1][m] = f[n][m]
          BY <2>3, <2>5, <4>1, ConcatType
        <4>3. g[n + 1][m] = g[n][m]
          BY <2>4, <2>5, <2>7, <4>1, ConcatType
        <4>4. PICK i \in 1 .. n : \E k \in 1 .. Len(ss[i]) :
                 f[n][m] = ss[i][k] /\ g[n][m] = tt[i][k]
          BY <2>2, <4>1 DEF Both, SamePlace
        <4>5. i \in 1 .. n + 1
          BY <2>1
        <4> QED
          BY <4>2, <4>3, <4>4, <4>5 DEF SamePlace
      <3>2. CASE m > Len(f[n])
        <4> DEFINE k == m - Len(f[n])
        <4>1. m \in 1 .. Len(f[n]) + Len(s) /\ k \in 1 .. Len(s)
          <5>1. m \in 1 .. Len(f[n]) + Len(s)
            BY <2>6, <2>7
          <5>2. Len(f[n]) \in Nat /\ Len(s) \in Nat
            BY <2>7
          <5> QED
            BY <3>2, <5>1, <5>2
        <4>2. f[n + 1][m] = s[k]
          <5> DEFINE a == f[n]
          <5>1. a \in Seq(S) /\ m \in 1 .. Len(a) + Len(s) /\ m > Len(a) /\ k = m - Len(a)
            BY <2>3, <3>2, <4>1
          <5> HIDE DEF a, k
          <5>2. \A i \in 1 .. Len(a) + Len(s) : i > Len(a) => (a \o s)[i] = s[i - Len(a)]
            BY <2>5, <5>1, ConcatType
          <5>3. (a \o s)[m] = s[m - Len(a)]
            BY <5>1, <5>2
          <5> QED
            BY <2>3, <5>1, <5>3 DEF a
        <4>3. g[n + 1][m] = t[k]
          BY <2>4, <2>5, <2>7, <3>2, <4>1, ConcatType
        <4>4. n + 1 \in 1 .. n + 1
          BY <2>1
        <4> HIDE DEF k
        <4> QED
          BY <4>1, <4>2, <4>3, <4>4 DEF SamePlace, s, t
      <3> QED
        BY <2>6, <2>7, <3>1, <3>2
    <2> QED
      BY <2>5, <2>6, <2>7, <2>8 DEF Both
  <1>6. T = Nat
    <2> HIDE DEF T
    <2>1. T \subseteq Nat
      BY DEF T
    <2> QED
      BY <1>4, <1>5, <2>1, AllNumbers
  <1>7. Both(N)
    BY <1>1, <1>6
  <1>8. FlattenSeq(ss) = f[N] /\ FlattenSeq(tt) = g[N]
    BY <1>2, <1>3 DEF FlattenSteps
  <1> QED
    BY <1>7, <1>8 DEF Both

-----------------------------------------------------------------------------
(* The files of a spec.                                                    *)

(* The parts of paths, and the files of a spec.                            *)
Parts == Names \cup DataKeys \cup {Ext, ".yaml"}

FileType == [path: Seq(Parts), mode: {"overwrite", "append", ""}]

LEMMA KeysListed ==
  \E n \in Nat : SetToSeq(DataKeys) \in [1 .. n -> DataKeys]
  <1>1. IsFiniteSet(DataKeys)
    BY ContentAssumption
  <1> DEFINE n == Cardinality(DataKeys)
  <1>2. n \in Nat /\ ExistsBijection(1 .. n, DataKeys)
    BY <1>1, FS_CardinalityType
  <1>3. \E f \in [1 .. n -> DataKeys] : IsInjective(f)
    BY <1>2 DEF ExistsBijection, Bijection, Injection
  <1>4. SetToSeq(DataKeys) \in [1 .. n -> DataKeys]
    BY <1>3 DEF SetToSeq
  <1> QED
    BY <1>2, <1>4

LEMMA AppendLast ==
  ASSUME NEW S, NEW s \in Seq(S), NEW x \in S
  PROVE  Append(s, x) \in Seq(S) /\ Len(Append(s, x)) > 0 /\ Last(Append(s, x)) = x
  BY DEF Last

LEMMA NotEmpty ==
  ASSUME NEW S, NEW s \in Seq(S), Len(s) > 0 PROVE s # <<>>
  OBVIOUS

LEMMA ListedIsSeq ==
  ASSUME NEW S, NEW n \in Nat, NEW f \in [1 .. n -> S]
  PROVE  f \in Seq(S) /\ Len(f) = n
  OBVIOUS

LEMMA KeyFilesType ==
  ASSUME NEW path \in Seq(Parts), NEW mode \in {"overwrite", "append", ""}
  PROVE  /\ KeyFiles(path, mode) \in Seq(FileType)
         /\ \A n \in DOMAIN KeyFiles(path, mode) :
               \E key \in DataKeys :
                   KeyFiles(path, mode)[n] = WrittenTo(Append(path, key), mode)
  <1> DEFINE keys == SetToSeq(DataKeys)
  <1>1. PICK n \in Nat : keys \in [1 .. n -> DataKeys]
    BY KeysListed
  <1>2. KeyFiles(path, mode) = [i \in 1 .. n |-> WrittenTo(Append(path, keys[i]), mode)]
    BY <1>1 DEF KeyFiles
  <1>3. \A key \in DataKeys : WrittenTo(Append(path, key), mode) \in FileType
    <2> TAKE key \in DataKeys
    <2>1. key \in Parts
      BY DEF Parts
    <2>2. Append(path, key) \in Seq(Parts)
      BY <2>1, AppendLast
    <2> QED
      BY <2>2 DEF FileType, WrittenTo
  <1>4. \A i \in 1 .. n : keys[i] \in DataKeys
    BY <1>1
  <1> HIDE DEF keys
  <1>5. KeyFiles(path, mode) \in Seq(FileType)
    <2> DEFINE k == [i \in 1 .. n |-> WrittenTo(Append(path, keys[i]), mode)]
    <2>1. k \in [1 .. n -> FileType]
      BY <1>3, <1>4
    <2> HIDE DEF k
    <2>2. k \in Seq(FileType)
      BY <2>1, ListedIsSeq
    <2> QED
      BY <1>2, <2>2 DEF k
  <1> QED
    BY <1>2, <1>4, <1>5

ParsedEntry(e) ==
    e \in EntryType /\ e.path \in Seq(Parts) /\ Len(e.path) > 0

LEMMA EntryPath ==
  ASSUME NEW j \in Jobs, NEW i \in DOMAIN j.entries
  PROVE  ParsedEntry(j.entries[i])
  <1>1. j \in JobType /\ Len(j.entries[i].path) > 0
    BY ContentAssumption
  <1>2. j.entries[i] \in EntryType
    BY <1>1 DEF JobType
  <1>3. Names \cup {Ext} \subseteq Parts
    BY DEF Parts
  <1>4. j.entries[i].path \in Seq(Names \cup {Ext})
    BY <1>2 DEF EntryType
  <1>5. j.entries[i].path \in Seq(Parts)
    BY <1>3, <1>4
  <1> QED
    BY <1>1, <1>2, <1>5 DEF ParsedEntry

(* One file.                                                               *)
LEMMA OneFile ==
  ASSUME NEW f \in FileType
  PROVE  /\ <<f>> \in Seq(FileType)
         /\ DOMAIN <<f>> = {1} /\ <<f>>[1] = f
  OBVIOUS

(* What each entry of a spec writes.                                       *)
Proper(f, e) ==
    /\ Len(f.path) > 0
    /\ NoSuffix /\ Last(f.path) = Ext => f.path = e.path
    /\ f.mode \in {"", e.mode}

LEMMA CommitRefOK ==
  ASSUME NEW e, ParsedEntry(e), e.strategy # "file"
  PROVE  /\ CommitRefFiles(e) \in Seq(FileType)
         /\ \A n \in DOMAIN CommitRefFiles(e) : Proper(CommitRefFiles(e)[n], e)
  <1>1. /\ e.strategy \in {"dump", "fields", "single-field"} /\ e.path \in Seq(Parts)
        /\ Len(e.path) > 0 /\ e.key \in DataKeys /\ e.file \in Names \cup {""}
    BY DEF ParsedEntry, EntryType
  <1>2. ASSUME NEW path \in Seq(Parts), CommitRefFiles(e) = <<WrittenTo(path, "")>>,
               Len(path) > 0, NoSuffix /\ Last(path) = Ext => path = e.path
        PROVE  /\ CommitRefFiles(e) \in Seq(FileType)
               /\ \A n \in DOMAIN CommitRefFiles(e) : Proper(CommitRefFiles(e)[n], e)
    <2> DEFINE f == WrittenTo(path, "")
               fs == CommitRefFiles(e)
    <2>1. f \in FileType /\ Proper(f, e)
      BY <1>2 DEF WrittenTo, FileType, Proper
    <2>2. fs = <<f>>
      BY <1>2
    <2> HIDE DEF f, fs
    <2>3. fs \in Seq(FileType) /\ \A n \in DOMAIN fs : Proper(fs[n], e)
      BY <2>1, <2>2, OneFile
    <2> QED
      BY <2>3 DEF fs
  <1>3. CASE e.strategy = "dump"
    BY <1>1, <1>2, <1>3 DEF CommitRefFiles
  <1>4. CASE e.strategy = "fields"
    <2>1. CommitRefFiles(e) = KeyFiles(e.path, "")
      BY <1>4 DEF CommitRefFiles
    <2>2. ASSUME NEW key \in DataKeys PROVE Proper(WrittenTo(Append(e.path, key), ""), e)
      <3>1. key \in Parts
        BY DEF Parts
      <3>2. Len(Append(e.path, key)) > 0 /\ Last(Append(e.path, key)) = key
        BY <1>1, <3>1, AppendLast
      <3> QED
        BY <3>2 DEF Proper, WrittenTo, NoSuffix
    <2>3. "" \in {"overwrite", "append", ""}
      OBVIOUS
    <2>4. /\ KeyFiles(e.path, "") \in Seq(FileType)
          /\ \A n \in DOMAIN KeyFiles(e.path, "") : \E key \in DataKeys :
                 KeyFiles(e.path, "")[n] = WrittenTo(Append(e.path, key), "")
      BY <1>1, <2>3, KeyFilesType
    <2> QED
      BY <2>1, <2>2, <2>4
  <1>5. CASE e.strategy = "single-field"
    <2> DEFINE name == IF e.file # "" THEN e.file ELSE e.key
    <2>1. CASE e.mode = "append"
      <3>1. CommitRefFiles(e) = <<WrittenTo(e.path, "")>>
        BY <1>5, <2>1 DEF CommitRefFiles
      <3> QED
        BY <1>1, <1>2, <3>1
    <2>2. CASE e.mode # "append"
      <3>1. name \in Names \cup DataKeys
        BY <1>1
      <3>2. CommitRefFiles(e) = <<WrittenTo(Append(e.path, name), "")>>
        BY <1>5, <2>2 DEF CommitRefFiles
      <3> HIDE DEF name
      <3>3. name \in Parts
        BY <3>1 DEF Parts
      <3>4. /\ Append(e.path, name) \in Seq(Parts) /\ Len(Append(e.path, name)) > 0
            /\ Last(Append(e.path, name)) = name
        BY <1>1, <3>3, AppendLast
      <3> QED
        BY <1>2, <3>1, <3>2, <3>4 DEF NoSuffix
    <2> QED
      BY <2>1, <2>2
  <1> QED
    BY <1>1, <1>3, <1>4, <1>5

LEMMA PullRequestRefOK ==
  ASSUME NEW e, ParsedEntry(e), e.strategy # "file"
  PROVE  /\ PullRequestRefFiles(e) \in Seq(FileType)
         /\ \A n \in DOMAIN PullRequestRefFiles(e) : Proper(PullRequestRefFiles(e)[n], e)
  <1>1. /\ e.strategy \in {"dump", "fields", "single-field"} /\ e.path \in Seq(Parts)
        /\ Len(e.path) > 0 /\ e.file \in Names \cup {""}
        /\ e.mode \in {"overwrite", "append", ""}
    BY DEF ParsedEntry, EntryType
  <1> DEFINE fs == PullRequestRefFiles(e)
             Goal == /\ fs \in Seq(FileType)
                     /\ \A n \in DOMAIN fs : Proper(fs[n], e) /\ fs[n].mode = e.mode
  <1> SUFFICES Goal
    OBVIOUS
  <1>2. ASSUME NEW path \in Seq(Parts), fs = <<WrittenTo(path, e.mode)>>,
               Len(path) > 0, NoSuffix /\ Last(path) = Ext => path = e.path
        PROVE  Goal
    <2> DEFINE f == WrittenTo(path, e.mode)
    <2>1. f \in FileType /\ Proper(f, e) /\ f.mode = e.mode
      BY <1>1, <1>2 DEF WrittenTo, FileType, Proper
    <2>2. fs = <<f>>
      BY <1>2
    <2> HIDE DEF f, fs
    <2> QED
      BY <2>1, <2>2, OneFile
  <1>3. CASE e.strategy = "dump"
    <2>1. fs = <<WrittenTo(Append(e.path, ".yaml"), e.mode)>>
      BY <1>3 DEF PullRequestRefFiles
    <2>2. ".yaml" \in Parts /\ ".yaml" # Ext
      BY DEF Parts, Ext
    <2>3. /\ Append(e.path, ".yaml") \in Seq(Parts) /\ Len(Append(e.path, ".yaml")) > 0
          /\ Last(Append(e.path, ".yaml")) = ".yaml"
      <3> DEFINE y == ".yaml"
      <3>1. y \in Parts
        BY <2>2
      <3> HIDE DEF y, Goal, fs
      <3>2. /\ Append(e.path, y) \in Seq(Parts) /\ Len(Append(e.path, y)) > 0
            /\ Last(Append(e.path, y)) = y
        <4> DEFINE path == e.path
        <4>1. path \in Seq(Parts)
          BY <1>1
        <4> HIDE DEF path
        <4>2. /\ Append(path, y) \in Seq(Parts) /\ Len(Append(path, y)) > 0
              /\ Last(Append(path, y)) = y
          BY <3>1, <4>1, AppendLast
        <4> QED
          BY <4>2 DEF path
      <3> QED
        BY <3>2 DEF y
    <2> HIDE DEF Goal, fs
    <2> QED
      BY <1>2, <2>1, <2>2, <2>3
  <1>4. CASE e.strategy = "fields"
    <2>1. fs = KeyFiles(e.path, e.mode)
      BY <1>4 DEF PullRequestRefFiles
    <2>2. ASSUME NEW key \in DataKeys
          PROVE  LET f == WrittenTo(Append(e.path, key), e.mode) IN
                 Proper(f, e) /\ f.mode = e.mode
      <3>1. key \in Parts
        BY DEF Parts
      <3> HIDE DEF fs, Goal
      <3>2. Len(Append(e.path, key)) > 0 /\ Last(Append(e.path, key)) = key
        <4> DEFINE path == e.path
        <4>1. path \in Seq(Parts)
          BY <1>1
        <4> HIDE DEF path
        <4>2. Len(Append(path, key)) > 0 /\ Last(Append(path, key)) = key
          BY <3>1, <4>1, AppendLast
        <4> QED
          BY <4>2 DEF path
      <3> QED
        BY <3>2 DEF Proper, WrittenTo, NoSuffix
    <2>3. /\ KeyFiles(e.path, e.mode) \in Seq(FileType)
          /\ \A n \in DOMAIN KeyFiles(e.path, e.mode) : \E key \in DataKeys :
                 KeyFiles(e.path, e.mode)[n] = WrittenTo(Append(e.path, key), e.mode)
      BY <1>1, KeyFilesType
    <2> HIDE DEF fs
    <2> QED
      BY <2>1, <2>2, <2>3
  <1>5. CASE e.strategy = "single-field"
    <2>1. CASE e.file = ""
      <3>1. fs = <<WrittenTo(e.path, e.mode)>>
        BY <1>5, <2>1 DEF PullRequestRefFiles
      <3> HIDE DEF Goal, fs
      <3> QED
        BY <1>1, <1>2, <3>1
    <2>2. CASE e.file # ""
      <3>1. fs = <<WrittenTo(Append(Front(e.path), e.file), e.mode)>>
        BY <1>5, <2>2 DEF PullRequestRefFiles
      <3>2. e.file \in Names /\ e.file \in Parts
        BY <1>1, <2>2 DEF Parts
      <3>5. e.path # <<>>
        <4> HIDE DEF Goal, fs
        <4> QED
          BY <1>1, NotEmpty
      <3>3. Front(e.path) \in Seq(Parts)
        BY <1>1, <3>5, FrontPrefix
      <3>4. /\ Append(Front(e.path), e.file) \in Seq(Parts)
            /\ Len(Append(Front(e.path), e.file)) > 0
            /\ Last(Append(Front(e.path), e.file)) = e.file
        BY <3>2, <3>3, AppendLast
      <3> HIDE DEF Goal, fs
      <3> QED
        BY <1>2, <3>1, <3>2, <3>4 DEF NoSuffix
    <2> QED
      BY <2>1, <2>2
  <1> HIDE DEF Goal, fs
  <1> QED
    BY <1>1, <1>3, <1>4, <1>5

(* All files of an entry.                                                  *)
LEMMA FilesOK ==
  ASSUME NEW j \in Jobs, NEW i \in DOMAIN j.entries
  PROVE  LET e == j.entries[i] IN
         /\ Files(e, j) \in Seq(FileType)
         /\ \A n \in DOMAIN Files(e, j) : Proper(Files(e, j)[n], e)
  <1> DEFINE e == j.entries[i]
  <1>1. ParsedEntry(e)
    BY EntryPath
  <1>2. j.kind \in {"GitCommit", "PullRequest"}
    BY ContentAssumption DEF JobType
  <1>3. e.path \in Seq(Parts) /\ Len(e.path) > 0 /\ e.mode \in {"overwrite", "append", ""}
    BY <1>1 DEF ParsedEntry, EntryType
  <1> HIDE DEF e
  <1>4. CASE e.strategy = "file"
    <2> DEFINE f == WrittenTo(e.path, e.mode)
    <2>1. Files(e, j) = <<f>>
      BY <1>4 DEF Files
    <2>2. f \in FileType /\ Proper(f, e)
      BY <1>3 DEF WrittenTo, FileType, Proper
    <2> HIDE DEF f
    <2>3. Files(e, j) \in Seq(FileType) /\ \A n \in DOMAIN Files(e, j) : Proper(Files(e, j)[n], e)
      BY <2>1, <2>2, OneFile
    <2> QED
      BY <2>3 DEF e
  <1>5. CASE e.strategy # "file" /\ j.kind = "GitCommit"
    <2>1. Files(e, j) = CommitRefFiles(e)
      BY <1>5 DEF Files
    <2>2. Files(e, j) \in Seq(FileType) /\ \A n \in DOMAIN Files(e, j) : Proper(Files(e, j)[n], e)
      BY <1>1, <1>5, <2>1, CommitRefOK
    <2> QED
      BY <2>2 DEF e
  <1>6. CASE e.strategy # "file" /\ j.kind = "PullRequest"
    <2>1. Files(e, j) = PullRequestRefFiles(e)
      BY <1>6 DEF Files
    <2>2. Files(e, j) \in Seq(FileType) /\ \A n \in DOMAIN Files(e, j) : Proper(Files(e, j)[n], e)
      BY <1>1, <1>6, <2>1, PullRequestRefOK
    <2> QED
      BY <2>2 DEF e
  <1> QED
    BY <1>2, <1>4, <1>5, <1>6

(* A file of a spec and the same file with the mode that is asked for.     *)
SameFile(f, g) ==
    /\ f \in FileType /\ g \in FileType
    /\ f.path = g.path
    /\ f.mode = "append" => g.mode = "append"

LEMMA JobFilesOK ==
  ASSUME NEW j \in Jobs
  PROVE  /\ JobFiles(j) \in Seq(FileType) /\ PromisedFiles(j) \in Seq(FileType)
         /\ Len(PromisedFiles(j)) = Len(JobFiles(j))
         /\ \A m \in 1 .. Len(JobFiles(j)) :
               /\ SameFile(JobFiles(j)[m], PromisedFiles(j)[m])
               /\ \E i \in DOMAIN j.entries : Proper(JobFiles(j)[m], j.entries[i])
  <1> DEFINE N == Len(j.entries)
             F(i) == Files(j.entries[i], j)
             G(i) == [n \in DOMAIN F(i) |-> [F(i)[n] EXCEPT !.mode = j.entries[i].mode]]
             ss == [i \in DOMAIN j.entries |-> F(i)]
             tt == [i \in DOMAIN j.entries |-> G(i)]
  <1>1. j.entries \in Seq(EntryType)
    BY ContentAssumption DEF JobType
  <1>2. N \in Nat /\ DOMAIN j.entries = 1 .. N
    BY <1>1
  <1>3. ASSUME NEW i \in 1 .. N
        PROVE  /\ F(i) \in Seq(FileType) /\ G(i) \in Seq(FileType) /\ Len(F(i)) = Len(G(i))
               /\ \A n \in 1 .. Len(F(i)) :
                     SameFile(F(i)[n], G(i)[n]) /\ Proper(F(i)[n], j.entries[i])
    <2> DEFINE e == j.entries[i]
               f == F(i)
               g == G(i)
               L == Len(f)
    <2>1. i \in DOMAIN j.entries /\ e \in EntryType
      BY <1>1, <1>2
    <2>2. f \in Seq(FileType) /\ \A n \in DOMAIN f : Proper(f[n], e)
      BY <2>1, FilesOK
    <2>3. e.mode \in {"overwrite", "append", ""}
      BY <2>1 DEF EntryType
    <2>4. g = [n \in DOMAIN f |-> [f[n] EXCEPT !.mode = e.mode]]
      OBVIOUS
    <2> HIDE DEF F, G, e, f, g
    <2>5. L \in Nat /\ DOMAIN f = 1 .. L /\ \A n \in 1 .. L : f[n] \in FileType
      BY <2>2
    <2>6. \A n \in 1 .. L : [f[n] EXCEPT !.mode = e.mode] \in FileType
      BY <2>3, <2>5 DEF FileType
    <2>7. g \in [1 .. L -> FileType]
      BY <2>4, <2>5, <2>6
    <2>8. g \in Seq(FileType) /\ Len(g) = L
      BY <2>5, <2>7, ListedIsSeq
    <2>9. \A n \in 1 .. L : SameFile(f[n], g[n])
      <3> TAKE n \in 1 .. L
      <3>1. g[n] = [f[n] EXCEPT !.mode = e.mode] /\ f[n] \in FileType
        BY <2>4, <2>5
      <3>2. g[n].path = f[n].path /\ g[n].mode = e.mode
        BY <3>1 DEF FileType
      <3>3. f[n].mode \in {"", e.mode}
        BY <2>2, <2>5 DEF Proper
      <3> QED
        BY <2>7, <3>1, <3>2, <3>3 DEF SameFile
    <2> QED
      BY <2>2, <2>5, <2>8, <2>9 DEF f, g, e
  <1> HIDE DEF F, G
  <1>4. ss \in [1 .. N -> Seq(FileType)] /\ tt \in [1 .. N -> Seq(FileType)]
    BY <1>2, <1>3
  <1>5. \A i \in 1 .. N : ss[i] = F(i) /\ tt[i] = G(i)
    BY <1>2
  <1>6. JobFiles(j) = FlattenSeq(ss) /\ PromisedFiles(j) = FlattenSeq(tt)
    BY DEF JobFiles, PromisedFiles, F, G
  <1> HIDE DEF ss, tt
  <1>7. /\ ss \in Seq(Seq(FileType)) /\ Len(ss) = N
        /\ tt \in Seq(Seq(FileType)) /\ Len(tt) = N
    <2> DEFINE V == Seq(FileType)
    <2>1. ss \in [1 .. N -> V] /\ tt \in [1 .. N -> V]
      BY <1>4
    <2> HIDE DEF V, N
    <2>2. ss \in Seq(V) /\ Len(ss) = N /\ tt \in Seq(V) /\ Len(tt) = N
      BY <1>2, <2>1, ListedIsSeq
    <2> QED
      BY <2>2 DEF V
  <1>8. \A i \in 1 .. Len(ss) : Len(ss[i]) = Len(tt[i])
    BY <1>3, <1>5, <1>7
  <1>9. /\ Len(FlattenSeq(ss)) = Len(FlattenSeq(tt))
        /\ \A m \in 1 .. Len(FlattenSeq(ss)) :
              SamePlace(FlattenSeq(ss), FlattenSeq(tt), ss, tt, N, m)
    BY <1>7, <1>8, FlattenTwo
  <1>10. FlattenSeq(ss) \in Seq(FileType) /\ FlattenSeq(tt) \in Seq(FileType)
    BY <1>7, FlattenType
  <1>11. ASSUME NEW m \in 1 .. Len(JobFiles(j))
         PROVE  /\ SameFile(JobFiles(j)[m], PromisedFiles(j)[m])
                /\ \E i \in DOMAIN j.entries : Proper(JobFiles(j)[m], j.entries[i])
    <2>1. PICK i \in 1 .. N : \E k \in 1 .. Len(ss[i]) :
             JobFiles(j)[m] = ss[i][k] /\ PromisedFiles(j)[m] = tt[i][k]
      <3> DEFINE a == FlattenSeq(ss)
                 b == FlattenSeq(tt)
      <3>1. m \in 1 .. Len(a) /\ JobFiles(j) = a /\ PromisedFiles(j) = b
        BY <1>6, <1>11
      <3>2. SamePlace(a, b, ss, tt, N, m)
        BY <1>9, <3>1
      <3> HIDE DEF a, b
      <3>3. \E i \in 1 .. N : \E k \in 1 .. Len(ss[i]) : a[m] = ss[i][k] /\ b[m] = tt[i][k]
        BY <3>2 DEF SamePlace
      <3> QED
        BY <3>1, <3>3
    <2>2. PICK k \in 1 .. Len(F(i)) :
             JobFiles(j)[m] = F(i)[k] /\ PromisedFiles(j)[m] = G(i)[k]
      BY <1>5, <2>1
    <2>3. SameFile(F(i)[k], G(i)[k]) /\ Proper(F(i)[k], j.entries[i])
      BY <1>3
    <2> QED
      BY <1>2, <2>2, <2>3
  <1> QED
    BY <1>6, <1>9, <1>10, <1>11

LEMMA PathsHave ==
  ASSUME NEW j \in Jobs, NEW m \in 1 .. Len(JobFiles(j))
  PROVE  /\ JobFiles(j)[m].path \in Paths
         /\ Target(JobFiles(j)[m].path, j) \in Paths
  <1>1. JobFiles(j) \in Seq(FileType)
    BY JobFilesOK
  <1>2. m \in DOMAIN JobFiles(j)
    BY <1>1
  <1>3. JobFiles(j)[m] \in ToSet(JobFiles(j))
    BY <1>2 DEF ToSet
  <1>4. /\ JobFiles(j)[m].path \in Paths
        /\ Append(JobFiles(j)[m].path, Ext) \in Paths
    BY <1>3 DEF Paths
  <1> QED
    BY <1>4 DEF Target

-----------------------------------------------------------------------------
(* The text of a file.                                                     *)

Texts(c) == [i \in DOMAIN c |-> c[i].text]

LEMMA TextsType ==
  ASSUME NEW c \in Seq(Item)
  PROVE  /\ Texts(c) \in Seq(Seq(Nat)) /\ Len(Texts(c)) = Len(c)
         /\ \A i \in 1 .. Len(c) : Texts(c)[i] = c[i].text
  <1> DEFINE V == Seq(Nat)
             N == Len(c)
  <1>1. N \in Nat /\ DOMAIN c = 1 .. N /\ \A i \in 1 .. N : c[i].text \in V
    <2>1. N \in Nat /\ DOMAIN c = 1 .. N /\ \A i \in 1 .. N : c[i] \in Item
      OBVIOUS
    <2>2. \A item \in Item : item.text \in V
      BY DEF Item
    <2> QED
      BY <2>1, <2>2
  <1>2. Texts(c) = [i \in 1 .. N |-> c[i].text]
    BY <1>1 DEF Texts
  <1> HIDE DEF V, N
  <1>3. Texts(c) \in [1 .. N -> V]
    BY <1>1, <1>2
  <1>4. Texts(c) \in Seq(V) /\ Len(Texts(c)) = N
    BY <1>1, <1>3, ListedIsSeq
  <1> QED
    BY <1>2, <1>4 DEF V, N

LEMMA TextType ==
  ASSUME NEW c \in Seq(Item) PROVE Text(c) \in Seq(Nat)
  <1>1. Text(c) = FlattenSeq(Texts(c))
    BY DEF Text, Texts
  <1> QED
    BY <1>1, TextsType, FlattenType

LEMMA TextEmpty == Text(<<>>) = <<>>
  <1>1. Texts(<<>>) = <<>>
    BY DEF Texts
  <1> QED
    BY <1>1, FlattenEmpty DEF Text, Texts

LEMMA TextAppend ==
  ASSUME NEW c \in Seq(Item), NEW item \in Item
  PROVE  Text(Append(c, item)) = Text(c) \o item.text
  <1> DEFINE d == Append(c, item)
             N == Len(c)
  <1>1. item.text \in Seq(Nat)
    BY DEF Item
  <1>2. /\ N \in Nat /\ d \in Seq(Item) /\ Len(d) = N + 1 /\ d[N + 1] = item
        /\ \A i \in 1 .. N : d[i] = c[i]
    OBVIOUS
  <1> HIDE DEF d, N
  <1>3. Texts(c) \in Seq(Seq(Nat)) /\ Len(Texts(c)) = N /\ \A i \in 1 .. N : Texts(c)[i] = c[i].text
    BY TextsType DEF N
  <1>4. /\ Texts(d) \in Seq(Seq(Nat)) /\ Len(Texts(d)) = N + 1
        /\ \A i \in 1 .. N + 1 : Texts(d)[i] = d[i].text
    BY <1>2, TextsType
  <1>5. Texts(d) = Append(Texts(c), item.text)
    <2> DEFINE V == Seq(Nat)
               s == Append(Texts(c), item.text)
    <2>1. Texts(c) \in Seq(V) /\ item.text \in V
      BY <1>1, <1>3
    <2> HIDE DEF V
    <2>2. /\ s \in Seq(V) /\ Len(s) = N + 1 /\ s[N + 1] = item.text
          /\ \A i \in 1 .. N : s[i] = Texts(c)[i]
      BY <1>2, <1>3, <2>1
    <2> HIDE DEF s
    <2>3. \A i \in 1 .. N + 1 : Texts(d)[i] = s[i]
      <3> TAKE i \in 1 .. N + 1
      <3>1. CASE i = N + 1
        BY <1>2, <1>4, <2>2, <3>1
      <3>2. CASE i # N + 1
        <4>1. i \in 1 .. N
          BY <1>2, <3>2
        <4> QED
          BY <1>2, <1>3, <1>4, <2>2, <4>1
      <3> QED
        BY <3>1, <3>2
    <2>4. Texts(d) \in Seq(V)
      BY <1>4 DEF V
    <2> QED
      BY <1>2, <1>4, <2>2, <2>3, <2>4 DEF s
  <1>6. FlattenSeq(Append(Texts(c), item.text)) = FlattenSeq(Texts(c)) \o item.text
    BY <1>1, <1>3, FlattenAppend
  <1> QED
    BY <1>5, <1>6 DEF Text, Texts, d

LEMMA TextOne ==
  ASSUME NEW item \in Item PROVE Text(<<item>>) = item.text
  <1>1. item.text \in Seq(Nat) /\ <<>> \in Seq(Item) /\ <<item>> = Append(<<>>, item)
    BY DEF Item
  <1>2. Text(Append(<<>>, item)) = Text(<<>>) \o item.text
    BY <1>1, TextAppend
  <1> QED
    BY <1>1, <1>2, TextEmpty, ConcatEmpty

(* Every piece of the text of a file is in one of its items.               *)
LEMMA TextPieces ==
  ASSUME NEW c \in Seq(Item), NEW x \in ToSet(Text(c))
  PROVE  \E i \in DOMAIN c : x \in ToSet(c[i].text)
  <1> DEFINE ss == Texts(c)
  <1>1. ss \in Seq(Seq(Nat)) /\ Len(ss) = Len(c) /\ \A i \in 1 .. Len(c) : ss[i] = c[i].text
    BY TextsType
  <1>2. Text(c) = FlattenSeq(ss) /\ Text(c) \in Seq(Nat)
    BY TextType DEF Text, Texts
  <1> HIDE DEF ss
  <1>3. PICK m \in 1 .. Len(Text(c)) : x = Text(c)[m]
    BY <1>2 DEF ToSet
  <1>4. SamePlace(FlattenSeq(ss), FlattenSeq(ss), ss, ss, Len(ss), m)
    BY <1>1, <1>2, FlattenTwo
  <1>5. PICK i \in 1 .. Len(ss) : \E k \in 1 .. Len(ss[i]) : x = ss[i][k]
    BY <1>2, <1>3, <1>4 DEF SamePlace
  <1>6. i \in DOMAIN c /\ ss[i] = c[i].text /\ ss[i] \in Seq(Nat)
    BY <1>1, <1>5
  <1> QED
    BY <1>5, <1>6 DEF ToSet

-----------------------------------------------------------------------------
(* What one file is made of.                                               *)
Trees == [Paths -> Seq(Item)]

Piece(b, k) == [sealed |-> b, text |-> <<k>>]

LEMMA PieceType ==
  ASSUME NEW b \in BOOLEAN, NEW k \in Nat
  PROVE  /\ Piece(b, k) \in Item /\ Piece(b, k).sealed = b /\ Piece(b, k).text = <<k>>
         /\ <<k>> \in Seq(Nat) /\ ToSet(<<k>>) = {k}
  BY DEF Piece, Item, ToSet

LEMMA AppendOne ==
  ASSUME NEW S, NEW s \in Seq(S), NEW x \in S
  PROVE  s \o <<x>> = Append(s, x) /\ <<x>> \in Seq(S) /\ <<x>> = Append(<<>>, x) /\ <<>> \in Seq(S)
  OBVIOUS

(* What is in front of the new text.                                       *)
Kept(t, f, path) == IF f.mode = "append" THEN t[path] ELSE <<>>

(* A file is encrypted together with what was there, or gets one more item.*)
Together(c, t, f, k) == c = <<[sealed |-> TRUE, text |-> Text(Kept(t, f, f.path)) \o <<k>>]>>

OneMore(c, t, f, j, k) ==
    c = Append(Kept(t, f, Target(f.path, j)), Piece(ShouldEncryptFile(f.path, j), k))

LEMMA Written ==
  ASSUME NEW j \in Jobs, NEW t \in Trees, NEW k \in Nat, NEW f \in FileType,
         f.path \in Paths, Target(f.path, j) \in Paths
  PROVE  \E c \in Seq(Item) :
            /\ WriteFile(t, f, j, k) = [t EXCEPT ![Target(f.path, j)] = c]
            /\ \/ OneMore(c, t, f, j, k)
               \/ /\ j.kind = "PullRequest" /\ ShouldEncryptFile(f.path, j)
                  /\ Together(c, t, f, k)
  <1> DEFINE target == Target(f.path, j)
             b == ShouldEncryptFile(f.path, j)
  <1>1. b \in BOOLEAN /\ j.kind \in {"GitCommit", "PullRequest"}
    BY ContentAssumption DEF ShouldEncryptFile, JobType
  <1>2. Kept(t, f, target) \in Seq(Item) /\ Kept(t, f, f.path) \in Seq(Item)
    BY DEF Kept, Trees
  <1>3. ~b => target = f.path
    BY DEF Target
  <1>4. Piece(TRUE, k) \in Item /\ Piece(FALSE, k) \in Item /\ <<k>> \in Seq(Nat)
    BY PieceType
  <1>5. Plain(k) = <<Piece(FALSE, k)>>
    BY DEF Plain, Piece
  <1>6. Seal(Plain(k)) = <<Piece(TRUE, k)>>
    <2>1. Text(Plain(k)) = <<k>>
      BY <1>4, <1>5, TextOne, PieceType
    <2> QED
      BY <2>1 DEF Seal, Piece
  <1>7. CASE j.kind = "GitCommit"
    <2> DEFINE c == Append(Kept(t, f, target), Piece(b, k))
    <2>1. Sealed(Plain(k), f.path, j) = <<Piece(b, k)>>
      BY <1>1, <1>5, <1>6 DEF Sealed
    <2>2. Piece(b, k) \in Item
      BY <1>1, <1>4
    <2>3. Kept(t, f, target) \o <<Piece(b, k)>> = c
      BY <1>2, <2>2, AppendOne
    <2>4. WriteFile(t, f, j, k) = [t EXCEPT ![target] = Kept(t, f, target) \o <<Piece(b, k)>>]
      BY <1>7, <2>1 DEF WriteFile, Kept
    <2>5. c \in Seq(Item)
      BY <1>2, <2>2
    <2> QED
      BY <2>3, <2>4, <2>5 DEF OneMore
  <1>8. CASE j.kind = "PullRequest"
    <2> DEFINE base == Kept(t, f, f.path)
               d == Append(base, Piece(FALSE, k))
    <2>1. base \o Plain(k) = d /\ d \in Seq(Item)
      <3> DEFINE piece == Piece(FALSE, k)
      <3>1. base \in Seq(Item) /\ piece \in Item
        BY <1>2, <1>4
      <3>2. Plain(k) = <<piece>> /\ d = Append(base, piece)
        BY <1>5
      <3> HIDE DEF base, piece, d
      <3>3. base \o <<piece>> = Append(base, piece) /\ Append(base, piece) \in Seq(Item)
        BY <3>1, AppendOne
      <3> QED
        BY <3>2, <3>3
    <2>2. WriteFile(t, f, j, k) = [t EXCEPT ![target] = Sealed(d, f.path, j)]
      BY <1>8, <2>1 DEF WriteFile, Kept
    <2>3. CASE ~b
      <3>1. Sealed(d, f.path, j) = d
        BY <2>3 DEF Sealed
      <3>2. b = FALSE
        BY <1>1, <2>3
      <3>3. d = Append(Kept(t, f, target), Piece(b, k))
        BY <1>3, <2>3, <3>2
      <3>4. OneMore(d, t, f, j, k)
        BY <3>3 DEF OneMore
      <3>5. WriteFile(t, f, j, k) = [t EXCEPT ![target] = d]
        BY <2>2, <3>1
      <3> HIDE DEF d
      <3> QED
        BY <2>1, <3>4, <3>5
    <2>4. CASE b
      <3> DEFINE c == <<[sealed |-> TRUE, text |-> Text(base) \o <<k>>]>>
      <3>1. Text(d) = Text(base) \o <<k>>
        BY <1>2, <1>4, TextAppend, PieceType
      <3>2. Sealed(d, f.path, j) = c
        BY <2>4, <3>1 DEF Sealed, Seal
      <3>3. Text(d) \in Seq(Nat)
        BY <2>1, TextType
      <3>4. c \in Seq(Item)
        <4>1. [sealed |-> TRUE, text |-> Text(base) \o <<k>>] \in Item
          BY <3>1, <3>3 DEF Item
        <4> QED
          BY <4>1
      <3> QED
        BY <1>8, <2>2, <2>4, <3>2, <3>4 DEF Together
    <2> QED
      BY <2>3, <2>4
  <1> QED
    BY <1>1, <1>7, <1>8

-----------------------------------------------------------------------------
(* What an execution does to the work tree, file by file.                  *)

LEMMA MaxIn ==
  ASSUME NEW N \in Nat, NEW s \in SUBSET (1 .. N), s # {}
  PROVE  Max(s) \in s
  <1> DEFINE Has(n) == \A r \in SUBSET (1 .. n) : r # {} => \E x \in r : \A y \in r : x >= y
             T == {n \in Nat : Has(n)}
  <1>1. 0 \in T
    <2>1. \A r \in SUBSET (1 .. 0) : r = {}
      OBVIOUS
    <2>2. Has(0)
      BY <2>1
    <2> HIDE DEF Has
    <2> QED
      BY <2>2
  <1>2. ASSUME NEW n \in T PROVE n + 1 \in T
    <2> SUFFICES ASSUME NEW r \in SUBSET (1 .. n + 1), r # {}
                 PROVE  \E x \in r : \A y \in r : x >= y
      OBVIOUS
    <2>1. n \in Nat /\ \A y \in r : n + 1 >= y
      OBVIOUS
    <2>2. CASE n + 1 \in r
      BY <2>1, <2>2
    <2>3. CASE n + 1 \notin r
      <3>1. r \in SUBSET (1 .. n)
        BY <2>1, <2>3
      <3> QED
        BY <3>1
    <2> QED
      BY <2>2, <2>3
  <1>3. T = Nat
    <2> HIDE DEF Has
    <2>1. T \subseteq Nat
      OBVIOUS
    <2> HIDE DEF T
    <2> QED
      BY <1>1, <1>2, <2>1, AllNumbers
  <1>4. Has(N)
    <2> HIDE DEF Has
    <2> QED
      BY <1>3
  <1>5. \E x \in s : \A y \in s : x >= y
    BY <1>4
  <1> HIDE DEF Has, T
  <1> QED
    BY <1>5 DEF Max

(* The trees while the files of a spec are written.                        *)
TreeSteps(f, t, j, k) ==
    LET N == Len(JobFiles(j)) IN
    /\ f \in [0 .. N -> Trees]
    /\ f[0] = t /\ f[N] = TreeAfter(t, j, k)
    /\ \A n \in 1 .. N : f[n] = WriteFile(f[n - 1], JobFiles(j)[n], j, k)

LEMMA WriteFileType ==
  ASSUME NEW j \in Jobs, NEW t \in Trees, NEW k \in Nat, NEW m \in 1 .. Len(JobFiles(j))
  PROVE  WriteFile(t, JobFiles(j)[m], j, k) \in Trees
  <1> DEFINE f == JobFiles(j)[m]
  <1>1. f \in FileType
    BY JobFilesOK
  <1>2. f.path \in Paths /\ Target(f.path, j) \in Paths
    BY PathsHave
  <1> HIDE DEF f
  <1>3. PICK c \in Seq(Item) : WriteFile(t, f, j, k) = [t EXCEPT ![Target(f.path, j)] = c]
    BY <1>1, <1>2, Written
  <1>4. [t EXCEPT ![Target(f.path, j)] = c] \in Trees
    BY <1>2 DEF Trees
  <1> QED
    BY <1>3, <1>4 DEF f

LEMMA TreeChain ==
  ASSUME NEW j \in Jobs, NEW t \in Trees, NEW k \in Nat
  PROVE  \E f : TreeSteps(f, t, j, k)
  <1> DEFINE fs == JobFiles(j)
             N == Len(fs)
             Op(x, n) == WriteFile(x, fs[n], j, k)
             h == [n \in 1 .. N |-> [x \in Trees |-> Op(x, n)]]
             F(c) == c = [s \in SUBSET (1 .. N) |->
                            IF s = {} THEN t ELSE Op(c[s \ {Max(s)}], Max(s))]
             c == CHOOSE g : F(g)
  <1>1. N \in Nat /\ DOMAIN fs = 1 .. N
    <2>1. fs \in Seq(FileType)
      BY JobFilesOK
    <2> QED
      BY <2>1
  <1>2. TreeAfter(t, j, k) = c[1 .. N]
    BY <1>1 DEF TreeAfter, FoldLeft, MapThenFoldSet
  <1>3. \A n \in 1 .. N : \A x \in Trees : Op(x, n) \in Trees
    BY WriteFileType
  <1> HIDE DEF fs, Op
  <1>4. h \in [1 .. N -> [Trees -> Trees]]
    BY <1>3
  <1>5. \A n \in 1 .. N : \A x \in Trees : h[n][x] = Op(x, n)
    OBVIOUS
  <1> HIDE DEF h, N, F, c
  <1>6. \E g : F(g)
    <2>1. PICK g \in [SUBSET (1 .. N) -> Trees] : FoldOver(g, t, N, h)
      BY <1>1, <1>4, FoldExists
    <2>2. ASSUME NEW s \in SUBSET (1 .. N)
          PROVE  g[s] = IF s = {} THEN t ELSE Op(g[s \ {Max(s)}], Max(s))
      <3>1. CASE s = {}
        BY <2>1, <3>1 DEF FoldOver
      <3>2. CASE s # {}
        <4>1. Max(s) \in 1 .. N
          BY <1>1, <3>2, MaxIn
        <4>2. g[s \ {Max(s)}] \in Trees
          OBVIOUS
        <4>3. g[s] = h[Max(s)][g[s \ {Max(s)}]]
          BY <2>1, <3>2 DEF FoldOver
        <4> QED
          BY <1>5, <3>2, <4>1, <4>2, <4>3
      <3> QED
        BY <3>1, <3>2
    <2>3. F(g)
      BY <2>2 DEF F
    <2> QED
      BY <2>3
  <1>7. F(c)
    BY <1>6 DEF c
  <1>8. \A s \in SUBSET (1 .. N) : c[s] = IF s = {} THEN t ELSE Op(c[s \ {Max(s)}], Max(s))
    BY <1>7 DEF F
  <1>9. c[{}] = t
    BY <1>8
  <1>10. ASSUME NEW n \in 1 .. N PROVE c[1 .. n] = Op(c[1 .. n - 1], n)
    <2>1. n \in Nat \ {0} /\ 1 .. n \in SUBSET (1 .. N)
      BY <1>1
    <2>2. Max(1 .. n) = n /\ (1 .. n) \ {n} = 1 .. n - 1 /\ 1 .. n # {}
      BY <2>1, MaxLast
    <2> QED
      BY <1>8, <2>1, <2>2
  <1>11. \A n \in 0 .. N : c[1 .. n] \in Trees
    <2>1. \A n \in 1 .. N : c[1 .. n - 1] \in Trees => c[1 .. n] = h[n][c[1 .. n - 1]]
      BY <1>5, <1>10
    <2> QED
      BY <1>1, <1>4, <1>9, <2>1, FoldChain
  <1> DEFINE f == [n \in 0 .. N |-> c[1 .. n]]
  <1>12. f \in [0 .. N -> Trees] /\ \A n \in 0 .. N : f[n] = c[1 .. n]
    BY <1>11
  <1>13. f[0] = t /\ f[N] = TreeAfter(t, j, k)
    <2>1. 1 .. 0 = {} /\ 0 \in 0 .. N /\ N \in 0 .. N
      BY <1>1
    <2> HIDE DEF f
    <2> QED
      BY <1>2, <1>9, <1>12, <2>1
  <1>14. ASSUME NEW n \in 1 .. N PROVE f[n] = Op(f[n - 1], n)
    <2>1. n \in 0 .. N /\ n - 1 \in 0 .. N
      BY <1>1
    <2> HIDE DEF f
    <2> QED
      BY <1>10, <1>12, <2>1
  <1> HIDE DEF f
  <1> QED
    BY <1>12, <1>13, <1>14 DEF TreeSteps, N, fs, Op

-----------------------------------------------------------------------------
(* What is promised, file by file.                                         *)
Readings == [Paths -> Seq(Nat)]

PromiseStep(x, f, j, k) ==
    [x EXCEPT ![Target(f.path, j)] = (IF f.mode = "append" THEN @ ELSE <<>>) \o <<k>>]

PromiseSteps(f, r, j, k) ==
    LET N == Len(PromisedFiles(j)) IN
    /\ f \in [0 .. N -> Readings]
    /\ f[0] = r /\ f[N] = Promised(r, j, k)
    /\ \A n \in 1 .. N : f[n] = PromiseStep(f[n - 1], PromisedFiles(j)[n], j, k)

LEMMA PromiseStepType ==
  ASSUME NEW j \in Jobs, NEW x \in Readings, NEW k \in Nat, NEW f
  PROVE  PromiseStep(x, f, j, k) \in Readings
  <1> DEFINE p == Target(f.path, j)
  <1>1. CASE p \in Paths
    <2>1. (IF f.mode = "append" THEN x[p] ELSE <<>>) \o <<k>> \in Seq(Nat)
      BY <1>1 DEF Readings
    <2> QED
      BY <1>1, <2>1 DEF PromiseStep, Readings
  <1>2. CASE p \notin Paths
    BY <1>2 DEF PromiseStep, Readings
  <1> QED
    BY <1>1, <1>2

LEMMA PromiseChain ==
  ASSUME NEW j \in Jobs, NEW r \in Readings, NEW k \in Nat
  PROVE  \E f : PromiseSteps(f, r, j, k)
  <1> DEFINE fs == PromisedFiles(j)
             N == Len(fs)
             Op(x, n) == PromiseStep(x, fs[n], j, k)
             h == [n \in 1 .. N |-> [x \in Readings |-> Op(x, n)]]
             F(c) == c = [s \in SUBSET (1 .. N) |->
                            IF s = {} THEN r ELSE Op(c[s \ {Max(s)}], Max(s))]
             c == CHOOSE g : F(g)
  <1>1. N \in Nat /\ DOMAIN fs = 1 .. N
    <2>1. fs \in Seq(FileType)
      BY JobFilesOK
    <2> QED
      BY <2>1
  <1>2. Promised(r, j, k) = c[1 .. N]
    BY <1>1 DEF Promised, PromiseStep, FoldLeft, MapThenFoldSet
  <1>3. \A n \in 1 .. N : \A x \in Readings : Op(x, n) \in Readings
    BY PromiseStepType
  <1> HIDE DEF fs, Op
  <1>4. h \in [1 .. N -> [Readings -> Readings]]
    BY <1>3
  <1>5. \A n \in 1 .. N : \A x \in Readings : h[n][x] = Op(x, n)
    OBVIOUS
  <1> HIDE DEF h, N, F, c
  <1>6. \E g : F(g)
    <2>1. PICK g \in [SUBSET (1 .. N) -> Readings] : FoldOver(g, r, N, h)
      BY <1>1, <1>4, FoldExists
    <2>2. ASSUME NEW s \in SUBSET (1 .. N)
          PROVE  g[s] = IF s = {} THEN r ELSE Op(g[s \ {Max(s)}], Max(s))
      <3>1. CASE s = {}
        BY <2>1, <3>1 DEF FoldOver
      <3>2. CASE s # {}
        <4>1. Max(s) \in 1 .. N
          BY <1>1, <3>2, MaxIn
        <4>2. g[s \ {Max(s)}] \in Readings
          OBVIOUS
        <4>3. g[s] = h[Max(s)][g[s \ {Max(s)}]]
          BY <2>1, <3>2 DEF FoldOver
        <4> QED
          BY <1>5, <3>2, <4>1, <4>2, <4>3
      <3> QED
        BY <3>1, <3>2
    <2>3. F(g)
      BY <2>2 DEF F
    <2> QED
      BY <2>3
  <1>7. F(c)
    BY <1>6 DEF c
  <1>8. \A s \in SUBSET (1 .. N) : c[s] = IF s = {} THEN r ELSE Op(c[s \ {Max(s)}], Max(s))
    BY <1>7 DEF F
  <1>9. c[{}] = r
    BY <1>8
  <1>10. ASSUME NEW n \in 1 .. N PROVE c[1 .. n] = Op(c[1 .. n - 1], n)
    <2>1. n \in Nat \ {0} /\ 1 .. n \in SUBSET (1 .. N)
      BY <1>1
    <2>2. Max(1 .. n) = n /\ (1 .. n) \ {n} = 1 .. n - 1 /\ 1 .. n # {}
      BY <2>1, MaxLast
    <2> QED
      BY <1>8, <2>1, <2>2
  <1>11. \A n \in 0 .. N : c[1 .. n] \in Readings
    <2>1. \A n \in 1 .. N : c[1 .. n - 1] \in Readings => c[1 .. n] = h[n][c[1 .. n - 1]]
      BY <1>5, <1>10
    <2> QED
      BY <1>1, <1>4, <1>9, <2>1, FoldChain
  <1> DEFINE f == [n \in 0 .. N |-> c[1 .. n]]
  <1>12. f \in [0 .. N -> Readings] /\ \A n \in 0 .. N : f[n] = c[1 .. n]
    BY <1>11
  <1>13. f[0] = r /\ f[N] = Promised(r, j, k)
    <2>1. 1 .. 0 = {} /\ 0 \in 0 .. N /\ N \in 0 .. N
      BY <1>1
    <2> HIDE DEF f
    <2> QED
      BY <1>2, <1>9, <1>12, <2>1
  <1>14. ASSUME NEW n \in 1 .. N PROVE f[n] = Op(f[n - 1], n)
    <2>1. n \in 0 .. N /\ n - 1 \in 0 .. N
      BY <1>1
    <2> HIDE DEF f
    <2> QED
      BY <1>10, <1>12, <2>1
  <1> HIDE DEF f
  <1> QED
    BY <1>12, <1>13, <1>14 DEF PromiseSteps, N, fs, Op

-----------------------------------------------------------------------------
(* The age of the pieces in a tree, and where they are.                    *)

(* All pieces of text in a tree are older than k.                          *)
Fresh(t, k) ==
    \A p \in Paths : \A n \in DOMAIN t[p] : \A x \in ToSet(t[p][n].text) : x < k

LEMMA AppendItems ==
  ASSUME NEW S, NEW s \in Seq(S), NEW x \in S, NEW n \in DOMAIN Append(s, x)
  PROVE  \/ n \in DOMAIN s /\ Append(s, x)[n] = s[n]
         \/ Append(s, x)[n] = x
  OBVIOUS

(* An item of a file that is written: it was there, or it is the new one.  *)
LEMMA WrittenItems ==
  ASSUME NEW j \in Jobs, NEW t \in Trees, NEW k \in Nat, NEW f \in FileType,
         f.path \in Paths, Target(f.path, j) \in Paths,
         NEW p \in Paths, NEW n \in DOMAIN WriteFile(t, f, j, k)[p]
  PROVE  LET item == WriteFile(t, f, j, k)[p][n] IN
         \/ n \in DOMAIN t[p] /\ item = t[p][n]
         \/ /\ p = Target(f.path, j) /\ item = Piece(ShouldEncryptFile(f.path, j), k)
         \/ /\ p = Target(f.path, j) /\ item.sealed
            /\ item.text = Text(Kept(t, f, f.path)) \o <<k>>
  <1>1. PICK c \in Seq(Item) :
            /\ WriteFile(t, f, j, k) = [t EXCEPT ![Target(f.path, j)] = c]
            /\ \/ OneMore(c, t, f, j, k)
               \/ Together(c, t, f, k)
    BY Written
  <1> DEFINE target == Target(f.path, j)
             new == WriteFile(t, f, j, k)
  <1>2. p # target => new[p] = t[p]
    BY <1>1 DEF Trees
  <1>3. p = target => new[p] = c
    BY <1>1 DEF Trees
  <1>4. CASE p # target
    BY <1>2, <1>4
  <1>5. CASE p = target /\ OneMore(c, t, f, j, k)
    <2> DEFINE s == Kept(t, f, target)
               x == Piece(ShouldEncryptFile(f.path, j), k)
    <2>1. s \in Seq(Item)
      BY DEF Kept, Trees
    <2>2. x \in Item
      BY ContentAssumption, PieceType DEF ShouldEncryptFile, JobType
    <2>3. new[p] = Append(s, x)
      BY <1>3, <1>5 DEF OneMore
    <2>4. \A m \in DOMAIN s : m \in DOMAIN t[target] /\ s[m] = t[target][m]
      BY DEF Kept
    <2> HIDE DEF s, x, new, target
    <2>5. \/ n \in DOMAIN s /\ new[p][n] = s[n]
          \/ new[p][n] = x
      BY <2>1, <2>2, <2>3, AppendItems DEF new
    <2> QED
      BY <1>5, <2>4, <2>5 DEF new, target, x
  <1>6. CASE p = target /\ Together(c, t, f, k)
    <2> DEFINE item == [sealed |-> TRUE, text |-> Text(Kept(t, f, f.path)) \o <<k>>]
    <2>1. new[p] = <<item>>
      BY <1>3, <1>6 DEF Together
    <2>2. n = 1
      BY <2>1
    <2>3. new[p][n] = item
      BY <2>1, <2>2
    <2> QED
      BY <1>6, <2>3
  <1> QED
    BY <1>1, <1>4, <1>5, <1>6

LEMMA ConcatPieces ==
  ASSUME NEW s \in Seq(Nat), NEW k \in Nat, NEW x \in ToSet(s \o <<k>>)
  PROVE  x \in ToSet(s) \/ x = k
  <1>1. s \o <<k>> = Append(s, k)
    BY AppendOne
  <1>2. PICK n \in DOMAIN Append(s, k) : x = Append(s, k)[n]
    BY <1>1 DEF ToSet
  <1> QED
    BY <1>2, AppendItems DEF ToSet

LEMMA WriteFileFresh ==
  ASSUME NEW j \in Jobs, NEW t \in Trees, NEW k \in Nat, NEW m \in 1 .. Len(JobFiles(j)),
         Fresh(t, k + 1)
  PROVE  Fresh(WriteFile(t, JobFiles(j)[m], j, k), k + 1)
  <1> DEFINE f == JobFiles(j)[m]
             new == WriteFile(t, f, j, k)
  <1>1. f \in FileType
    BY JobFilesOK
  <1>2. f.path \in Paths /\ Target(f.path, j) \in Paths
    BY PathsHave
  <1>3. k < k + 1
    OBVIOUS
  <1> HIDE DEF f
  <1> SUFFICES ASSUME NEW p \in Paths, NEW n \in DOMAIN new[p],
                      NEW x \in ToSet(new[p][n].text)
               PROVE  x < k + 1
    BY DEF Fresh, f
  <1>4. CASE n \in DOMAIN t[p] /\ new[p][n] = t[p][n]
    BY <1>4 DEF Fresh
  <1>5. CASE new[p][n] = Piece(ShouldEncryptFile(f.path, j), k)
    <2>1. new[p][n].text = <<k>>
      BY <1>5 DEF Piece
    <2>2. x = k
      BY <2>1, PieceType
    <2> QED
      BY <1>3, <2>2
  <1>6. CASE new[p][n].text = Text(Kept(t, f, f.path)) \o <<k>>
    <2> DEFINE s == Kept(t, f, f.path)
    <2>1. s \in Seq(Item) /\ \A i \in DOMAIN s : i \in DOMAIN t[f.path] /\ s[i] = t[f.path][i]
      BY <1>2 DEF Kept, Trees
    <2> HIDE DEF s
    <2>2. Text(s) \in Seq(Nat)
      BY <2>1, TextType
    <2>3. x \in ToSet(Text(s)) \/ x = k
      BY <1>6, <2>2, ConcatPieces DEF s
    <2>4. CASE x \in ToSet(Text(s))
      <3>1. PICK i \in DOMAIN s : x \in ToSet(s[i].text)
        BY <2>1, <2>4, TextPieces
      <3> QED
        BY <1>2, <2>1, <3>1 DEF Fresh
    <2> QED
      BY <1>3, <2>3, <2>4
  <1> QED
    BY <1>1, <1>2, <1>4, <1>5, <1>6, WrittenItems

(* A tree after the execution holds nothing that is newer than it.         *)
LEMMA TreeAfterType ==
  ASSUME NEW j \in Jobs, NEW t \in Trees, NEW k \in Nat
  PROVE  TreeAfter(t, j, k) \in Trees
  <1>1. PICK f : TreeSteps(f, t, j, k)
    BY TreeChain
  <1>2. Len(JobFiles(j)) \in 0 .. Len(JobFiles(j))
    <2>1. JobFiles(j) \in Seq(FileType)
      BY JobFilesOK
    <2> QED
      BY <2>1
  <1> QED
    BY <1>1, <1>2 DEF TreeSteps

LEMMA TreeAfterFresh ==
  ASSUME NEW j \in Jobs, NEW t \in Trees, NEW k \in Nat, Fresh(t, k + 1)
  PROVE  Fresh(TreeAfter(t, j, k), k + 1)
  <1> DEFINE N == Len(JobFiles(j))
  <1>1. PICK f : TreeSteps(f, t, j, k)
    BY TreeChain
  <1>2. N \in Nat
    <2>1. JobFiles(j) \in Seq(FileType)
      BY JobFilesOK
    <2> QED
      BY <2>1
  <1>3. /\ \A n \in 0 .. N : f[n] \in Trees
        /\ f[0] = t /\ f[N] = TreeAfter(t, j, k)
        /\ \A n \in 1 .. N : f[n] = WriteFile(f[n - 1], JobFiles(j)[n], j, k)
    BY <1>1 DEF TreeSteps
  <1> HIDE DEF N
  <1> DEFINE T == {n \in Nat : n <= N => Fresh(f[n], k + 1)}
  <1>4. 0 \in T
    BY <1>3
  <1>5. ASSUME NEW n \in T PROVE n + 1 \in T
    <2> SUFFICES ASSUME n + 1 <= N PROVE Fresh(f[n + 1], k + 1)
      OBVIOUS
    <2>1. n \in 0 .. N /\ n + 1 \in 1 .. N /\ (n + 1) - 1 = n /\ Fresh(f[n], k + 1)
      BY <1>2
    <2>2. f[n + 1] = WriteFile(f[n], JobFiles(j)[n + 1], j, k)
      BY <1>3, <2>1
    <2>3. f[n] \in Trees
      BY <1>3, <2>1
    <2> QED
      BY <2>1, <2>2, <2>3, WriteFileFresh DEF N
  <1>6. T = Nat
    <2>1. T \subseteq Nat
      OBVIOUS
    <2> HIDE DEF T
    <2> QED
      BY <1>4, <1>5, <2>1, AllNumbers
  <1>7. N \in T
    BY <1>2, <1>6
  <1> QED
    BY <1>2, <1>3, <1>7

-----------------------------------------------------------------------------
(* The text of execution k is sealed in t, or where the spec j allows it.  *)
Hidden(t, j, k) ==
    \A p \in Paths : \A n \in DOMAIN t[p] :
        k \in ToSet(t[p][n].text) /\ ~t[p][n].sealed
        => Last(p) = Ext /\ \E m \in DOMAIN j.entries : j.entries[m].path = p

LEMMA WriteFileHidden ==
  ASSUME NoSuffix, NEW j \in Jobs, j.encrypt, NEW t \in Trees, NEW k \in Nat,
         NEW m \in 1 .. Len(JobFiles(j)), Hidden(t, j, k)
  PROVE  Hidden(WriteFile(t, JobFiles(j)[m], j, k), j, k)
  <1> DEFINE f == JobFiles(j)[m]
             new == WriteFile(t, f, j, k)
  <1>1. f \in FileType /\ \E i \in DOMAIN j.entries : Proper(f, j.entries[i])
    BY JobFilesOK
  <1>2. f.path \in Paths /\ Target(f.path, j) \in Paths
    BY PathsHave
  <1> HIDE DEF f
  <1> SUFFICES ASSUME NEW p \in Paths, NEW n \in DOMAIN new[p],
                      k \in ToSet(new[p][n].text), ~new[p][n].sealed
               PROVE  Last(p) = Ext /\ \E i \in DOMAIN j.entries : j.entries[i].path = p
    BY DEF Hidden, f
  <1>3. CASE n \in DOMAIN t[p] /\ new[p][n] = t[p][n]
    BY <1>3 DEF Hidden
  <1>4. CASE p = Target(f.path, j) /\ new[p][n] = Piece(ShouldEncryptFile(f.path, j), k)
    <2>1. ~ShouldEncryptFile(f.path, j)
      BY <1>4 DEF Piece
    <2>2. p = f.path /\ Last(p) = Ext
      BY <1>4, <2>1 DEF Target, ShouldEncryptFile
    <2> QED
      BY <1>1, <2>2 DEF Proper
  <1> QED
    BY <1>1, <1>2, <1>3, <1>4, WrittenItems

LEMMA TreeAfterHidden ==
  ASSUME NoSuffix, NEW j \in Jobs, j.encrypt, NEW t \in Trees, NEW k \in Nat, Fresh(t, k)
  PROVE  Hidden(TreeAfter(t, j, k), j, k)
  <1> DEFINE N == Len(JobFiles(j))
  <1>1. PICK f : TreeSteps(f, t, j, k)
    BY TreeChain
  <1>2. N \in Nat
    <2>1. JobFiles(j) \in Seq(FileType)
      BY JobFilesOK
    <2> QED
      BY <2>1
  <1>3. /\ \A n \in 0 .. N : f[n] \in Trees
        /\ f[0] = t /\ f[N] = TreeAfter(t, j, k)
        /\ \A n \in 1 .. N : f[n] = WriteFile(f[n - 1], JobFiles(j)[n], j, k)
    BY <1>1 DEF TreeSteps
  <1> HIDE DEF N
  <1> DEFINE T == {n \in Nat : n <= N => Hidden(f[n], j, k)}
  <1>4. 0 \in T
    <2>1. Hidden(t, j, k)
      BY DEF Fresh, Hidden
    <2> QED
      BY <1>3, <2>1
  <1>5. ASSUME NEW n \in T PROVE n + 1 \in T
    <2> SUFFICES ASSUME n + 1 <= N PROVE Hidden(f[n + 1], j, k)
      OBVIOUS
    <2>1. n \in 0 .. N /\ n + 1 \in 1 .. N /\ (n + 1) - 1 = n /\ Hidden(f[n], j, k)
      BY <1>2
    <2>2. f[n + 1] = WriteFile(f[n], JobFiles(j)[n + 1], j, k)
      BY <1>3, <2>1
    <2>3. f[n] \in Trees
      BY <1>3, <2>1
    <2> QED
      BY <2>1, <2>2, <2>3, WriteFileHidden DEF N
  <1>6. T = Nat
    <2>1. T \subseteq Nat
      OBVIOUS
    <2> HIDE DEF T
    <2> QED
      BY <1>4, <1>5, <2>1, AllNumbers
  <1>7. N \in T
    BY <1>2, <1>6
  <1> QED
    BY <1>2, <1>3, <1>7

-----------------------------------------------------------------------------
(* Reading a tree after an execution.                                      *)

Appended(p) ==
    \E j \in Jobs : \E m \in DOMAIN PromisedFiles(j) :
        PromisedFiles(j)[m].mode = "append" /\ JobFiles(j)[m].path = p

(* The files that are appended to are in the clear.                        *)
AppendsClear(t) == \A p \in Paths : Appended(p) => \A n \in DOMAIN t[p] : ~t[p][n].sealed

(* A file of one item can be read, and a file in the clear.                *)
LEMMA OneItem ==
  ASSUME NEW item \in Item PROVE Readable(<<item>>) /\ Text(<<item>>) = item.text
  BY TextOne DEF Readable

LEMMA Reads ==
  ASSUME NEW t \in Trees, NEW p \in Paths
  PROVE  /\ Readable(t[p]) => Reading(t)[p] = Text(t[p])
         /\ Reading(t) \in Readings
  <1>1. \A q \in Paths : Text(t[q]) \in Seq(Nat)
    BY TextType DEF Trees
  <1>2. Unreadable \in Seq(Nat)
    BY DEF Unreadable
  <1> QED
    BY <1>1, <1>2 DEF Reading, Readings

(* Writing one file does to the text of the files what is promised.        *)
LEMMA WriteFileReads ==
  ASSUME PlainAppends, NEW j \in Jobs, NEW t \in Trees, NEW k \in Nat,
         NEW m \in 1 .. Len(JobFiles(j)), AppendsClear(t)
  PROVE  LET new == WriteFile(t, JobFiles(j)[m], j, k) IN
         /\ AppendsClear(new)
         /\ Reading(new) = PromiseStep(Reading(t), PromisedFiles(j)[m], j, k)
  <1> DEFINE f == JobFiles(j)[m]
             g == PromisedFiles(j)[m]
             target == Target(f.path, j)
             new == WriteFile(t, f, j, k)
             b == ShouldEncryptFile(f.path, j)
  <1>1. /\ SameFile(f, g) /\ f \in FileType /\ g \in FileType
        /\ m \in DOMAIN JobFiles(j) /\ m \in DOMAIN PromisedFiles(j)
    BY JobFilesOK DEF SameFile
  <1>2. f.path \in Paths /\ target \in Paths /\ Target(g.path, j) = target
    BY <1>1, PathsHave DEF SameFile
  <1>3. b \in BOOLEAN
    BY ContentAssumption DEF ShouldEncryptFile, JobType
  <1>4. new \in Trees
    BY WriteFileType
  <1>5. b => ~Appended(target)
    BY <1>1 DEF PlainAppends, Appended
  <1>6. g.mode = "append" =>
           f.mode = "append" /\ ~b /\ Appended(target) /\ target = f.path
    BY <1>1 DEF PlainAppends, Appended, Target
  <1>7. f.mode = "append" => g.mode = "append"
    BY <1>1 DEF SameFile
  <1> HIDE DEF f, g, b
  <1>8. PICK c \in Seq(Item) :
            /\ new = [t EXCEPT ![target] = c]
            /\ \/ OneMore(c, t, f, j, k)
               \/ b /\ Together(c, t, f, k)
    BY <1>1, <1>2, Written DEF b
  <1> HIDE DEF target
  <1>9. new[target] = c /\ \A p \in Paths : p # target => new[p] = t[p]
    BY <1>2, <1>8 DEF Trees
  <1> DEFINE base == IF g.mode = "append" THEN Reading(t)[target] ELSE <<>>
             Clear == Appended(target) => \A n \in DOMAIN c : ~c[n].sealed
             Read == Readable(c) /\ Text(c) = base \o <<k>>
  <1>10. Clear /\ Read
    <2>1. CASE g.mode = "append"
      <3> DEFINE x == Piece(FALSE, k)
                 s == t[target]
      <3>1. f.mode = "append" /\ ~b /\ Appended(target) /\ target = f.path
        BY <1>6, <2>1
      <3>2. c = Append(s, x)
        <4>1. OneMore(c, t, f, j, k) /\ b = FALSE
          BY <1>3, <1>8, <3>1
        <4> QED
          BY <3>1, <4>1 DEF OneMore, Kept, b, target
      <3>3. x \in Item /\ x.sealed = FALSE /\ x.text = <<k>> /\ s \in Seq(Item)
        BY <1>2, PieceType DEF Trees
      <3>4. \A n \in DOMAIN s : ~s[n].sealed
        BY <1>2, <3>1 DEF AppendsClear
      <3> HIDE DEF x, s
      <3>5. \A n \in DOMAIN c : ~c[n].sealed
        <4> TAKE n \in DOMAIN c
        <4>1. (n \in DOMAIN s /\ c[n] = s[n]) \/ c[n] = x
          BY <3>2, <3>3, AppendItems
        <4> QED
          BY <3>3, <3>4, <4>1
      <3>6. Readable(c) /\ Readable(s)
        BY <3>4, <3>5 DEF Readable
      <3>7. Text(c) = Text(s) \o <<k>>
        BY <3>2, <3>3, TextAppend
      <3>8. Reading(t)[target] = Text(s)
        BY <1>2, <3>6, Reads DEF s
      <3> QED
        BY <2>1, <3>5, <3>6, <3>7, <3>8
    <2>2. CASE g.mode # "append"
      <3>1. Kept(t, f, f.path) = <<>> /\ Kept(t, f, target) = <<>> /\ base = <<>>
        BY <1>7, <2>2 DEF Kept
      <3>2. <<>> \o <<k>> = <<k>> /\ <<k>> \in Seq(Nat)
        OBVIOUS
      <3>3. Read <=> Readable(c) /\ Text(c) = <<k>>
        BY <3>1, <3>2
      <3>4. PICK d \in BOOLEAN : c = <<Piece(d, k)>> /\ (d => b)
        <4>1. CASE OneMore(c, t, f, j, k)
          <5>1. c = Append(<<>>, Piece(b, k))
            BY <3>1, <4>1 DEF OneMore, b, target
          <5> DEFINE x == Piece(b, k)
          <5>2. x \in Item
            BY <1>3, PieceType
          <5> HIDE DEF x
          <5>3. <<x>> = Append(<<>>, x)
            BY <5>2, AppendOne
          <5> QED
            BY <1>3, <5>1, <5>3 DEF x
        <4>2. CASE b /\ Together(c, t, f, k)
          <5>1. c = <<[sealed |-> TRUE, text |-> <<k>>]>>
            BY <3>1, <3>2, <4>2, TextEmpty DEF Together
          <5>2. c = <<Piece(TRUE, k)>>
            BY <5>1 DEF Piece
          <5> QED
            BY <4>2, <5>2
        <4> QED
          BY <1>8, <4>1, <4>2
      <3> DEFINE x == Piece(d, k)
      <3>5. x \in Item /\ x.sealed = d /\ x.text = <<k>>
        BY PieceType
      <3> HIDE DEF x
      <3>6. Readable(c) /\ Text(c) = <<k>>
        BY <3>4, <3>5, OneItem DEF x
      <3>7. Appended(target) => \A n \in DOMAIN c : ~c[n].sealed
        <4>1. SUFFICES ASSUME Appended(target), NEW n \in DOMAIN c PROVE ~c[n].sealed
          OBVIOUS
        <4>2. n = 1 /\ c[n] = x
          <5>1. c = <<x>>
            BY <3>4 DEF x
          <5> QED
            BY <5>1
        <4> QED
          BY <1>5, <3>4, <3>5, <4>1, <4>2 DEF b, target
      <3> QED
        BY <3>3, <3>6, <3>7
    <2> QED
      BY <2>1, <2>2
  <1> HIDE DEF base
  <1>11. AppendsClear(new)
    BY <1>9, <1>10 DEF AppendsClear
  <1>12. Reading(new) = PromiseStep(Reading(t), g, j, k)
    <2>1. PromiseStep(Reading(t), g, j, k) = [Reading(t) EXCEPT ![target] = base \o <<k>>]
      BY <1>2 DEF PromiseStep, base
    <2>2. Reading(new)[target] = base \o <<k>>
      BY <1>2, <1>4, <1>9, <1>10, Reads
    <2>3. \A p \in Paths : p # target => Reading(new)[p] = Reading(t)[p]
      BY <1>9 DEF Reading
    <2>4. /\ Reading(new) = [p \in Paths |-> Reading(new)[p]]
          /\ Reading(t) = [p \in Paths |-> Reading(t)[p]]
      BY DEF Reading
    <2> DEFINE r == Reading(t)
               q == Reading(new)
    <2> HIDE DEF r, q, new
    <2>5. q = [r EXCEPT ![target] = base \o <<k>>]
      BY <1>2, <2>2, <2>3, <2>4 DEF r, q
    <2> QED
      BY <2>1, <2>5 DEF r, q
  <1> QED
    BY <1>11, <1>12 DEF f, g

LEMMA TreeAfterReads ==
  ASSUME PlainAppends, NEW j \in Jobs, NEW t \in Trees, NEW k \in Nat, AppendsClear(t)
  PROVE  /\ AppendsClear(TreeAfter(t, j, k))
         /\ Reading(TreeAfter(t, j, k)) = Promised(Reading(t), j, k)
  <1> DEFINE N == Len(JobFiles(j))
  <1>1. PICK f : TreeSteps(f, t, j, k)
    BY TreeChain
  <1>2. N \in Nat /\ Len(PromisedFiles(j)) = N
    <2>1. JobFiles(j) \in Seq(FileType) /\ Len(PromisedFiles(j)) = Len(JobFiles(j))
      BY JobFilesOK
    <2> QED
      BY <2>1
  <1>3. /\ \A n \in 0 .. N : f[n] \in Trees
        /\ f[0] = t /\ f[N] = TreeAfter(t, j, k)
        /\ \A n \in 1 .. N : f[n] = WriteFile(f[n - 1], JobFiles(j)[n], j, k)
    BY <1>1 DEF TreeSteps
  <1>4. \E g : PromiseSteps(g, Reading(t), j, k)
    <2> DEFINE r == Reading(t)
    <2>1. r \in Readings
      <3>1. \A q \in Paths : Text(t[q]) \in Seq(Nat)
        BY TextType DEF Trees
      <3>2. Unreadable \in Seq(Nat)
        BY DEF Unreadable
      <3> QED
        BY <3>1, <3>2 DEF Reading, Readings
    <2> HIDE DEF r
    <2> QED
      BY <2>1, PromiseChain DEF r
  <1>5. PICK g : PromiseSteps(g, Reading(t), j, k)
    BY <1>4
  <1>6. /\ g[0] = Reading(t) /\ g[N] = Promised(Reading(t), j, k)
        /\ \A n \in 1 .. N : g[n] = PromiseStep(g[n - 1], PromisedFiles(j)[n], j, k)
    BY <1>2, <1>5 DEF PromiseSteps
  <1> HIDE DEF N
  <1> DEFINE Same(n) == AppendsClear(f[n]) /\ Reading(f[n]) = g[n]
             T == {n \in Nat : n <= N => Same(n)}
  <1>7. 0 \in T
    BY <1>3, <1>6
  <1>8. ASSUME NEW n \in T PROVE n + 1 \in T
    <2> SUFFICES ASSUME n + 1 <= N PROVE Same(n + 1)
      OBVIOUS
    <2>1. n \in 0 .. N /\ n + 1 \in 1 .. N /\ (n + 1) - 1 = n /\ Same(n)
      BY <1>2
    <2>2. /\ f[n + 1] = WriteFile(f[n], JobFiles(j)[n + 1], j, k)
          /\ g[n + 1] = PromiseStep(g[n], PromisedFiles(j)[n + 1], j, k)
      BY <1>3, <1>6, <2>1
    <2>3. f[n] \in Trees /\ n + 1 \in 1 .. Len(JobFiles(j))
      BY <1>3, <2>1 DEF N
    <2> QED
      BY <2>1, <2>2, <2>3, WriteFileReads
  <1>9. T = Nat
    <2>1. T \subseteq Nat
      OBVIOUS
    <2> HIDE DEF T
    <2> QED
      BY <1>7, <1>8, <2>1, AllNumbers
  <1>10. N \in T
    BY <1>2, <1>9
  <1>11. Same(N)
    BY <1>2, <1>10
  <1> QED
    BY <1>3, <1>6, <1>11

-----------------------------------------------------------------------------
(* What has to be known of the workers: a worker that is about to push     *)
(* holds the commit of its own execution.                                  *)
Typed(S) ==
    /\ remote \in [Branches -> Seq(S)]
    /\ pc \in [Workers -> {"idle", "write", "push"}]
    /\ job \in [Workers -> Jobs]
    /\ run \in [Workers -> Nat]
    /\ runs \in Nat
    /\ clone \in [Workers -> Seq(S)]
    /\ commit \in [Workers -> S]
    /\ \A w \in Workers : At(w, "push") => commit[w].run = run[w]

WorkersOK == Typed(Commits)

LEMMA CommitsType ==
  /\ NoCommit \in Commits
  /\ \A c \in Commits : c.tree \in Trees /\ c.job \in Jobs /\ c.run \in Nat
  /\ EmptyTree \in Trees
  /\ \A j \in Jobs, k \in Nat, t \in Trees : [job |-> j, run |-> k, tree |-> t] \in Commits
  <1>1. EmptyTree \in Trees
    <2>1. <<>> \in Seq(Item)
      OBVIOUS
    <2> QED
      BY <2>1 DEF EmptyTree, Trees
  <1>2. NoCommit.job \in Jobs
    BY ContentAssumption DEF NoCommit
  <1> QED
    BY <1>1, <1>2 DEF NoCommit, Commits, Trees

LEMMA HeadTreeType ==
  ASSUME NEW s \in Seq(Commits)
  PROVE  /\ HeadTree(s) \in Trees
         /\ s # <<>> => Len(s) \in 1 .. Len(s) /\ HeadTree(s) = s[Len(s)].tree
         /\ s = <<>> => HeadTree(s) = EmptyTree
  <1>1. CASE s = <<>>
    BY <1>1, CommitsType DEF HeadTree
  <1>2. CASE s # <<>>
    <2>1. Len(s) \in 1 .. Len(s) /\ s[Len(s)] \in Commits
      BY <1>2
    <2> QED
      BY <1>2, <2>1, CommitsType DEF HeadTree, Last
  <1> QED
    BY <1>1, <1>2

(* A worker that returns leaves with fixed values.                         *)
LEMMA ReturnOK ==
  ASSUME NEW S, NoCommit \in S, Typed(S), NEW w \in Workers, Return(w),
         UNCHANGED runs, remote' \in [Branches -> Seq(S)]
  PROVE  Typed(S)'
  <1>1. NoCommit.job \in Jobs
    BY ContentAssumption DEF NoCommit
  <1> QED
    BY <1>1 DEF Typed, Return, At

(* What a push makes of the branches.                                      *)
LEMMA PushedOK ==
  ASSUME NEW S, Typed(S), NEW w \in Workers, Pushed(w)
  PROVE  /\ remote' \in [Branches -> Seq(S)]
         /\ BranchOf(job[w]) \in Branches
         /\ remote'[BranchOf(job[w])] = Append(clone[w], commit[w])
         /\ BranchOf(job[w]) # Default => remote'[Default] = clone[w]
         /\ \A b \in Branches \ {Default, BranchOf(job[w])} : remote'[b] = remote[b]
  <1>1. job[w] \in Jobs /\ clone[w] \in Seq(S) /\ commit[w] \in S
    BY DEF Typed
  <1>2. BranchOf(job[w]) \in Branches /\ Default \in Branches
    BY <1>1, BranchAssumption, ContentAssumption
  <1>3. Append(clone[w], commit[w]) \in Seq(S)
    BY <1>1, AppendPrefix
  <1>4. /\ DOMAIN Local(w) = {Default, BranchOf(job[w])}
        /\ Local(w)[BranchOf(job[w])] = Append(clone[w], commit[w])
        /\ BranchOf(job[w]) # Default => Local(w)[Default] = clone[w]
    BY DEF Local
  <1>5. \A b \in Branches : remote[b] \in Seq(S)
    BY DEF Typed
  <1> QED
    BY <1>1, <1>2, <1>3, <1>4, <1>5 DEF Pushed

(* No branch loses a commit by an accepted push.                           *)
LEMMA PushedGrows ==
  ASSUME NEW S, Typed(S), NEW w \in Workers, Accepts(w), Pushed(w)
  PROVE  \A b \in Branches : IsPrefix(remote[b], remote'[b])
  <1> TAKE b \in Branches
  <1>1. remote[b] \in Seq(S)
    BY DEF Typed
  <1>2. CASE b \in DOMAIN Local(w)
    <2>1. remote'[b] = Local(w)[b]
      BY <1>2 DEF Pushed
    <2> QED
      BY <1>2, <2>1 DEF Accepts
  <1>3. CASE b \notin DOMAIN Local(w)
    <2>1. remote'[b] = remote[b]
      BY <1>3 DEF Pushed
    <2> QED
      BY <1>1, <2>1, PrefixRefl
  <1> QED
    BY <1>2, <1>3

(* A branch that is merged by fast-forward.                                *)
LEMMA MergedOK ==
  ASSUME NEW S, Typed(S), OthersMerge
  PROVE  \E b \in Branches \ {Default} :
             /\ remote' \in [Branches -> Seq(S)]
             /\ IsPrefix(remote[Default], remote[b])
             /\ remote'[Default] = remote[b]
             /\ remote'[b] = remote[b] \/ remote'[b] = <<>>
             /\ \A c \in Branches \ {Default, b} : remote'[c] = remote[c]
  <1>1. PICK b \in Branches \ {Default} :
            /\ IsStrictPrefix(remote[Default], remote[b])
            /\ \/ remote' = [remote EXCEPT ![Default] = remote[b]]
               \/ remote' = [remote EXCEPT ![Default] = remote[b], ![b] = <<>>]
    BY DEF OthersMerge
  <1>2. Default \in Branches
    BY ContentAssumption
  <1>3. remote \in [Branches -> Seq(S)] /\ <<>> \in Seq(S)
    BY DEF Typed
  <1>4. IsPrefix(remote[Default], remote[b])
    BY <1>1 DEF IsStrictPrefix
  <1>5. /\ remote' \in [Branches -> Seq(S)]
        /\ remote'[Default] = remote[b]
        /\ remote'[b] = remote[b] \/ remote'[b] = <<>>
        /\ \A c \in Branches \ {Default, b} : remote'[c] = remote[c]
    BY <1>1, <1>2, <1>3
  <1> QED
    BY <1>4, <1>5

LEMMA WorkersInit == Init => WorkersOK
  <1> SUFFICES ASSUME Init PROVE WorkersOK
    OBVIOUS
  <1>1. NoCommit.job \in Jobs /\ NoCommit \in Commits /\ <<>> \in Seq(Commits)
    BY ContentAssumption, CommitsType DEF NoCommit
  <1> QED
    BY <1>1 DEF Init, WorkersOK, Typed, At

(* What a worker commits.                                                  *)
LEMMA MadeOK ==
  ASSUME WorkersOK, NEW w \in Workers, Commit(w)
  PROVE  LET c == Made(w, TreeAfter(HeadTree(clone[w]), job[w], run[w])) IN
         /\ c \in Commits /\ c.job = job[w] /\ c.run = run[w]
         /\ c.tree = TreeAfter(HeadTree(clone[w]), job[w], run[w])
         /\ commit' = [commit EXCEPT ![w] = c]
  <1>1. job[w] \in Jobs /\ run[w] \in Nat /\ clone[w] \in Seq(Commits)
    BY DEF WorkersOK, Typed
  <1>2. TreeAfter(HeadTree(clone[w]), job[w], run[w]) \in Trees
    BY <1>1, HeadTreeType, TreeAfterType
  <1> QED
    BY <1>1, <1>2, CommitsType DEF Made, Commit

LEMMA WorkersNext ==
  ASSUME WorkersOK, [Next]_vars
  PROVE  WorkersOK'
  <1> DEFINE S == Commits
  <1>1. NoCommit \in S /\ Typed(S)
    BY CommitsType DEF WorkersOK
  <1>2. remote \in [Branches -> Seq(S)]
    BY <1>1 DEF Typed
  <1>3. SUFFICES Typed(S)'
    BY DEF WorkersOK
  <1>4. ASSUME NEW w \in Workers, Commit(w) PROVE Typed(S)'
    <2>1. PICK c \in S : c.run = run[w] /\ commit' = [commit EXCEPT ![w] = c]
      BY <1>4, MadeOK
    <2> HIDE DEF S
    <2> QED
      BY <1>1, <1>4, <2>1 DEF Typed, Commit, At
  <1> HIDE DEF S
  <1>5. ASSUME NEW w \in Workers, Clone(w) PROVE Typed(S)'
    <2>1. remote[Default] \in Seq(S)
      BY <1>2, ContentAssumption
    <2>2. PICK j \in Jobs : job' = [job EXCEPT ![w] = j]
      BY <1>5 DEF Clone
    <2> QED
      BY <1>1, <1>5, <2>1, <2>2 DEF Typed, Clone, At
  <1>6. ASSUME NEW w \in Workers, CommitFailed(w) \/ PushRefused(w) PROVE Typed(S)'
    BY <1>1, <1>2, <1>6, ReturnOK DEF CommitFailed, PushRefused
  <1>7. ASSUME NEW w \in Workers, PushOk(w) \/ PushFault(w) PROVE Typed(S)'
    <2>1. remote' \in [Branches -> Seq(S)]
      BY <1>1, <1>2, <1>7, PushedOK DEF PushOk, PushFault
    <2> QED
      BY <1>1, <1>7, <2>1, ReturnOK DEF PushOk, PushFault
  <1>8. CASE OthersMerge
    <2>1. remote' \in [Branches -> Seq(S)]
      BY <1>1, <1>8, MergedOK
    <2> QED
      BY <1>1, <1>8, <2>1 DEF Typed, OthersMerge, At
  <1>9. CASE UNCHANGED vars
    BY <1>1, <1>9 DEF Typed, vars, At
  <1> QED
    BY <1>4, <1>5, <1>6, <1>7, <1>8, <1>9 DEF Next

-----------------------------------------------------------------------------
(* The steps that change the remote.                                       *)
LEMMA RemoteSteps ==
  ASSUME WorkersOK, [Next]_vars
  PROVE  \/ remote' = remote /\ reported' = reported
         \/ \E w \in Workers :
               /\ At(w, "push") /\ Accepts(w) /\ Pushed(w)
               /\ reported' \in {reported, reported \cup {run[w]}}
         \/ OthersMerge /\ reported' = reported
  BY DEF Next, vars, Clone, Commit, CommitFailed, PushOk, PushRefused, PushFault,
         OthersMerge, Report

(* The commits of the remote, by the execution that made them.             *)
OnRemote(k) == \E b \in Branches : \E i \in DOMAIN remote[b] : remote[b][i].run = k

(* What is on a branch stays on it when the branch grows.                  *)
LEMMA StaysOn ==
  ASSUME NEW S, NEW s \in Seq(S), NEW t \in Seq(S), IsPrefix(s, t), NEW i \in DOMAIN s
  PROVE  i \in DOMAIN t /\ t[i] = s[i]
  <1>1. Len(s) <= Len(t) /\ i \in 1 .. Len(s) /\ s[i] = t[i]
    BY PrefixAt
  <1> QED
    BY <1>1

LEMMA OnRemoteStays ==
  ASSUME WorkersOK, [Next]_vars, NEW k, OnRemote(k)
  PROVE  OnRemote(k)'
  <1>1. PICK S : Typed(S)
    BY DEF WorkersOK
  <1>2. PICK b \in Branches : \E i \in DOMAIN remote[b] : remote[b][i].run = k
    BY DEF OnRemote
  <1>3. PICK i \in DOMAIN remote[b] : remote[b][i].run = k
    BY <1>2
  <1>4. ASSUME NEW c \in Branches, remote'[c] \in Seq(S), IsPrefix(remote[b], remote'[c])
        PROVE  OnRemote(k)'
    <2>1. remote[b] \in Seq(S)
      BY <1>1 DEF Typed
    <2>2. i \in DOMAIN remote'[c] /\ remote'[c][i] = remote[b][i]
      BY <1>4, <2>1, StaysOn
    <2> QED
      BY <1>3, <2>2 DEF OnRemote
  <1>5. CASE remote' = remote
    BY <1>2, <1>5 DEF OnRemote
  <1>6. ASSUME NEW w \in Workers, Accepts(w), Pushed(w) PROVE OnRemote(k)'
    BY <1>1, <1>4, <1>6, PushedOK, PushedGrows
  <1>7. CASE OthersMerge
    <2>1. PICK c \in Branches \ {Default} :
            /\ remote' \in [Branches -> Seq(S)]
            /\ IsPrefix(remote[Default], remote[c])
            /\ remote'[Default] = remote[c]
            /\ remote'[c] = remote[c] \/ remote'[c] = <<>>
            /\ \A d \in Branches \ {Default, c} : remote'[d] = remote[d]
      BY <1>1, <1>7, MergedOK
    <2>2. Default \in Branches /\ remote[b] \in Seq(S)
      BY <1>1, ContentAssumption DEF Typed
    <2>3. CASE b \in {Default, c}
      BY <1>4, <2>1, <2>2, <2>3, PrefixRefl
    <2>4. CASE b \notin {Default, c}
      BY <1>4, <2>1, <2>2, <2>4, PrefixRefl
    <2> QED
      BY <2>3, <2>4
  <1> QED
    BY <1>5, <1>6, <1>7, RemoteSteps

(* A commit that a GitCommit reports is on the remote for good.            *)
THEOREM ReportedForGood == Spec => []ReportedStays
  <1>1. Init => ReportedStays
    BY DEF Init, ReportedStays
  <1>2. WorkersOK /\ ReportedStays /\ [Next]_vars => ReportedStays'
    <2> SUFFICES ASSUME WorkersOK, ReportedStays, [Next]_vars, NEW k \in reported'
                 PROVE  OnRemote(k)'
      BY DEF ReportedStays, OnRemote
    <2>1. CASE k \in reported
      BY <2>1, OnRemoteStays DEF ReportedStays, OnRemote
    <2>2. CASE k \notin reported
      <3>1. PICK w \in Workers : At(w, "push") /\ Pushed(w) /\ k = run[w]
        BY <2>2, RemoteSteps
      <3>2. PICK S : Typed(S)
        BY DEF WorkersOK
      <3> DEFINE b == BranchOf(job[w])
                 n == Len(clone[w]) + 1
      <3>3. clone[w] \in Seq(S) /\ commit[w] \in S /\ commit[w].run = k
        BY <3>1, <3>2 DEF Typed
      <3>4. b \in Branches /\ remote'[b] = Append(clone[w], commit[w])
        BY <3>1, <3>2, PushedOK
      <3>5. n \in DOMAIN Append(clone[w], commit[w]) /\ Append(clone[w], commit[w])[n] = commit[w]
        BY <3>3
      <3> QED
        BY <3>3, <3>4, <3>5 DEF OnRemote
    <2> QED
      BY <2>1, <2>2
  <1> QED
    BY <1>1, <1>2, WorkersInit, WorkersNext, PTL DEF Spec

-----------------------------------------------------------------------------
(* The branches.  Every commit holds what its spec makes of the commit     *)
(* before it, and its execution is newer than all text of that commit.     *)
Before(s, i) == HeadTree(SubSeq(s, 1, i - 1))

Grown(s) ==
    \A i \in 1 .. Len(s) :
        /\ Fresh(Before(s, i), s[i].run)
        /\ s[i].tree = TreeAfter(Before(s, i), s[i].job, s[i].run)

Below(s, k) == \A i \in 1 .. Len(s) : Fresh(s[i].tree, k)

RemoteGrown == \A b \in Branches : Grown(remote[b]) /\ Below(remote[b], runs + 1)

GrownClone(w) ==
    /\ Grown(clone[w]) /\ Below(clone[w], run[w])
    /\ run[w] <= runs
    /\ At(w, "push") => commit[w].job = job[w]
                        /\ commit[w].tree = TreeAfter(HeadTree(clone[w]), job[w], run[w])

BranchesGrown == \A b \in Branches : remote[b] \in Seq(Commits) /\ Grown(remote[b])

ContentOK == RemoteGrown /\ \A w \in Workers : GrownClone(w)

LEMMA NothingGrown ==
  ASSUME NEW k PROVE Grown(<<>>) /\ Below(<<>>, k)
  <1>1. 1 .. Len(<<>>) = {}
    OBVIOUS
  <1> QED
    BY <1>1 DEF Grown, Below

LEMMA BelowMore ==
  ASSUME NEW s \in Seq(Commits), NEW k \in Nat, NEW l \in Nat, k <= l, Below(s, k)
  PROVE  Below(s, l)
  <1> SUFFICES ASSUME NEW i \in 1 .. Len(s), NEW p \in Paths, NEW n \in DOMAIN s[i].tree[p],
                      NEW x \in ToSet(s[i].tree[p][n].text)
               PROVE  x < l
    BY DEF Below, Fresh
  <1>1. s[i] \in Commits
    OBVIOUS
  <1> DEFINE c == s[i].tree[p]
  <1>2. c \in Seq(Item)
    BY <1>1, CommitsType DEF Trees
  <1>3. x < k
    BY DEF Below, Fresh
  <1> HIDE DEF c
  <1>4. n \in DOMAIN c /\ x \in ToSet(c[n].text)
    BY DEF c
  <1>5. c[n].text \in Seq(Nat)
    <2>1. c[n] \in Item
      BY <1>2, <1>4
    <2> QED
      BY <2>1 DEF Item
  <1>6. x \in Nat
    BY <1>4, <1>5 DEF ToSet
  <1> QED
    BY <1>3, <1>6

LEMMA BelowHead ==
  ASSUME NEW s \in Seq(Commits), NEW k, Below(s, k)
  PROVE  Fresh(HeadTree(s), k)
  <1>1. CASE s = <<>>
    <2>1. HeadTree(s) = EmptyTree
      BY <1>1 DEF HeadTree
    <2>2. \A p \in Paths : DOMAIN EmptyTree[p] = {}
      BY DEF EmptyTree
    <2> QED
      BY <2>1, <2>2 DEF Fresh
  <1>2. CASE s # <<>>
    BY <1>2, HeadTreeType DEF Below
  <1> QED
    BY <1>1, <1>2

LEMMA BeforeAppend ==
  ASSUME NEW s \in Seq(Commits), NEW c \in Commits
  PROVE  /\ \A i \in 1 .. Len(s) : Before(Append(s, c), i) = Before(s, i)
         /\ Before(Append(s, c), Len(s) + 1) = HeadTree(s)
  <1> DEFINE t == Append(s, c)
  <1>1. /\ t \in Seq(Commits) /\ Len(t) = Len(s) + 1 /\ Len(s) \in Nat
        /\ \A i \in 1 .. Len(s) : t[i] = s[i]
    OBVIOUS
  <1> HIDE DEF t
  <1>2. ASSUME NEW i \in 1 .. Len(s) + 1 PROVE SubSeq(t, 1, i - 1) = SubSeq(s, 1, i - 1)
    <2> DEFINE n == i - 1
    <2>1. n \in Nat /\ n <= Len(s) /\ n <= Len(t)
      BY <1>1
    <2> HIDE DEF n
    <2>2. SubSeq(s, 1, n) = [m \in 1 .. n |-> s[m]]
      BY <2>1
    <2>3. SubSeq(t, 1, n) = [m \in 1 .. n |-> t[m]]
      BY <1>1, <2>1
    <2>4. \A m \in 1 .. n : t[m] = s[m]
      BY <1>1, <2>1
    <2> QED
      BY <2>2, <2>3, <2>4 DEF n
  <1>3. SubSeq(s, 1, (Len(s) + 1) - 1) = s
    BY <1>1
  <1>4. Len(s) + 1 \in 1 .. Len(s) + 1 /\ \A i \in 1 .. Len(s) : i \in 1 .. Len(s) + 1
    BY <1>1
  <1> QED
    BY <1>2, <1>3, <1>4 DEF Before, t

LEMMA GrownAppend ==
  ASSUME NEW s \in Seq(Commits), NEW c \in Commits, Grown(s), Below(s, c.run),
         c.tree = TreeAfter(HeadTree(s), c.job, c.run)
  PROVE  Grown(Append(s, c)) /\ Below(Append(s, c), c.run + 1)
  <1> DEFINE t == Append(s, c)
  <1>1. /\ t \in Seq(Commits) /\ Len(t) = Len(s) + 1 /\ Len(s) \in Nat /\ t[Len(s) + 1] = c
        /\ \A i \in 1 .. Len(s) : t[i] = s[i]
    OBVIOUS
  <1>2. c.job \in Jobs /\ c.run \in Nat /\ HeadTree(s) \in Trees
    BY CommitsType, HeadTreeType
  <1>3. /\ \A i \in 1 .. Len(s) : Before(t, i) = Before(s, i)
        /\ Before(t, Len(s) + 1) = HeadTree(s)
    BY BeforeAppend
  <1>4. Fresh(HeadTree(s), c.run) /\ Below(s, c.run + 1)
    BY <1>2, BelowHead, BelowMore
  <1>5. Fresh(c.tree, c.run + 1)
    <2>1. Fresh(HeadTree(s), c.run + 1)
      BY <1>4, BelowHead
    <2> QED
      BY <1>2, <2>1, TreeAfterFresh
  <1> HIDE DEF t
  <1>6. \A i \in 1 .. Len(t) : i \in 1 .. Len(s) \/ i = Len(s) + 1
    BY <1>1
  <1>7. Grown(t)
    <2> SUFFICES ASSUME NEW i \in 1 .. Len(t)
                 PROVE  /\ Fresh(Before(t, i), t[i].run)
                        /\ t[i].tree = TreeAfter(Before(t, i), t[i].job, t[i].run)
      BY DEF Grown
    <2>1. CASE i \in 1 .. Len(s)
      BY <1>1, <1>3, <2>1 DEF Grown
    <2>2. CASE i = Len(s) + 1
      BY <1>1, <1>3, <1>4, <2>2
    <2> QED
      BY <1>6, <2>1, <2>2
  <1>8. Below(t, c.run + 1)
    BY <1>1, <1>4, <1>5, <1>6 DEF Below
  <1> QED
    BY <1>7, <1>8 DEF t

LEMMA CloneStays ==
  ASSUME WorkersOK, NEW w \in Workers, GrownClone(w), runs' \in Nat, runs <= runs',
         pc'[w] = pc[w], job'[w] = job[w], run'[w] = run[w], clone'[w] = clone[w],
         commit'[w] = commit[w]
  PROVE  GrownClone(w)'
  <1>1. run[w] \in Nat /\ runs \in Nat
    BY DEF WorkersOK, Typed
  <1>2. run[w] <= runs'
    BY <1>1 DEF GrownClone
  <1> QED
    BY <1>2 DEF GrownClone, At

LEMMA ReturnGrown ==
  ASSUME WorkersOK, ContentOK, NEW w \in Workers, Return(w), UNCHANGED runs, RemoteGrown'
  PROVE  ContentOK'
  <1>1. runs \in Nat
    BY DEF WorkersOK, Typed
  <1>2. /\ pc'[w] = "idle" /\ run'[w] = 0 /\ clone'[w] = <<>>
        /\ \A v \in Workers : v # w =>
              /\ pc'[v] = pc[v] /\ job'[v] = job[v] /\ run'[v] = run[v]
              /\ clone'[v] = clone[v] /\ commit'[v] = commit[v]
    BY DEF WorkersOK, Typed, Return
  <1>3. GrownClone(w)'
    BY <1>1, <1>2, NothingGrown DEF GrownClone, At
  <1>4. \A v \in Workers : v # w => GrownClone(v)'
    BY <1>1, <1>2, CloneStays DEF ContentOK
  <1> QED
    BY <1>3, <1>4 DEF ContentOK

LEMMA PushedGrown ==
  ASSUME WorkersOK, ContentOK, NEW w \in Workers, At(w, "push"), Pushed(w), UNCHANGED runs
  PROVE  RemoteGrown'
  <1> DEFINE s == clone[w]
             c == commit[w]
  <1>1. s \in Seq(Commits) /\ c \in Commits /\ run[w] \in Nat /\ runs \in Nat /\ c.run = run[w]
    BY DEF WorkersOK, Typed
  <1>2. /\ Grown(s) /\ Below(s, run[w]) /\ run[w] <= runs
        /\ c.tree = TreeAfter(HeadTree(s), c.job, c.run)
    BY <1>1 DEF ContentOK, GrownClone
  <1>3. /\ remote'[BranchOf(job[w])] = Append(s, c)
        /\ BranchOf(job[w]) # Default => remote'[Default] = s
        /\ \A b \in Branches \ {Default, BranchOf(job[w])} : remote'[b] = remote[b]
    BY PushedOK DEF WorkersOK
  <1> HIDE DEF s, c
  <1>4. Grown(Append(s, c)) /\ Below(Append(s, c), c.run + 1) /\ Append(s, c) \in Seq(Commits)
    BY <1>1, <1>2, GrownAppend, AppendPrefix
  <1>5. Below(Append(s, c), runs + 1) /\ Below(s, runs + 1)
    <2>1. c.run + 1 \in Nat /\ c.run + 1 <= runs + 1 /\ runs + 1 \in Nat /\ c.run <= runs + 1
      BY <1>1, <1>2
    <2> QED
      BY <1>1, <1>2, <1>4, <2>1, BelowMore
  <1> SUFFICES ASSUME NEW b \in Branches
               PROVE  Grown(remote'[b]) /\ Below(remote'[b], runs + 1)
    BY DEF RemoteGrown
  <1>6. CASE b = BranchOf(job[w])
    BY <1>3, <1>4, <1>5, <1>6
  <1>7. CASE b # BranchOf(job[w]) /\ b = Default
    BY <1>2, <1>3, <1>5, <1>7
  <1>8. CASE b \notin {Default, BranchOf(job[w])}
    BY <1>3, <1>8 DEF ContentOK, RemoteGrown
  <1> QED
    BY <1>6, <1>7, <1>8

LEMMA ContentInit == Init => ContentOK
  <1> SUFFICES ASSUME Init PROVE ContentOK
    OBVIOUS
  <1>1. RemoteGrown
    BY NothingGrown DEF Init, RemoteGrown
  <1>2. \A w \in Workers : GrownClone(w)
    BY NothingGrown DEF Init, GrownClone, At
  <1> QED
    BY <1>1, <1>2 DEF ContentOK

LEMMA ContentNext ==
  ASSUME WorkersOK, ContentOK, [Next]_vars
  PROVE  ContentOK'
  <1>1. runs \in Nat /\ remote \in [Branches -> Seq(Commits)]
    BY DEF WorkersOK, Typed
  <1>2. UNCHANGED <<remote, runs>> => RemoteGrown'
    BY DEF ContentOK, RemoteGrown
  <1>3. ASSUME NEW w \in Workers, Clone(w) PROVE ContentOK'
    <2>1. runs' = runs + 1 /\ runs' \in Nat /\ runs <= runs' /\ remote' = remote
      BY <1>1, <1>3 DEF Clone
    <2>2. /\ pc'[w] = "write" /\ run'[w] = runs' /\ clone'[w] = remote[Default]
          /\ \A v \in Workers : v # w =>
                /\ pc'[v] = pc[v] /\ job'[v] = job[v] /\ run'[v] = run[v]
                /\ clone'[v] = clone[v] /\ commit'[v] = commit[v]
      BY <1>3 DEF Clone, WorkersOK, Typed
    <2>3. Default \in Branches
      BY ContentAssumption
    <2>4. RemoteGrown'
      <3>1. \A b \in Branches : remote[b] \in Seq(Commits)
        BY <1>1
      <3>2. runs + 1 \in Nat /\ (runs + 1) + 1 \in Nat /\ runs + 1 <= (runs + 1) + 1
        BY <1>1
      <3>3. \A b \in Branches : Below(remote[b], (runs + 1) + 1)
        BY <3>1, <3>2, BelowMore DEF ContentOK, RemoteGrown
      <3> QED
        BY <2>1, <3>3 DEF ContentOK, RemoteGrown
    <2>5. GrownClone(w)'
      <3>1. Grown(remote[Default]) /\ Below(remote[Default], runs + 1)
        BY <2>3 DEF ContentOK, RemoteGrown
      <3>2. runs' <= runs'
        BY <2>1
      <3> QED
        BY <2>1, <2>2, <3>1, <3>2 DEF GrownClone, At
    <2>6. \A v \in Workers : v # w => GrownClone(v)'
      BY <2>1, <2>2, CloneStays DEF ContentOK
    <2> QED
      BY <2>4, <2>5, <2>6 DEF ContentOK
  <1>4. ASSUME NEW w \in Workers, Commit(w) PROVE ContentOK'
    <2>1. PICK c \in Commits :
            /\ c.job = job[w] /\ c.run = run[w]
            /\ c.tree = TreeAfter(HeadTree(clone[w]), job[w], run[w])
            /\ commit' = [commit EXCEPT ![w] = c]
      BY <1>4, MadeOK
    <2>2. UNCHANGED <<remote, runs, job, run, clone>> /\ runs <= runs' /\ runs' \in Nat
      BY <1>1, <1>4 DEF Commit
    <2>3. commit'[w] = c /\ \A v \in Workers : v # w => commit'[v] = commit[v] /\ pc'[v] = pc[v]
      BY <1>4, <2>1 DEF Commit, WorkersOK, Typed
    <2>4. GrownClone(w)'
      BY <2>1, <2>2, <2>3 DEF ContentOK, GrownClone
    <2>5. \A v \in Workers : v # w => GrownClone(v)'
      BY <2>2, <2>3, CloneStays DEF ContentOK
    <2> QED
      BY <1>2, <2>2, <2>4, <2>5 DEF ContentOK
  <1>5. ASSUME NEW w \in Workers, CommitFailed(w) \/ PushRefused(w) PROVE ContentOK'
    BY <1>2, <1>5, ReturnGrown DEF CommitFailed, PushRefused
  <1>6. ASSUME NEW w \in Workers, PushOk(w) \/ PushFault(w) PROVE ContentOK'
    <2>1. At(w, "push") /\ Return(w) /\ UNCHANGED runs /\ (remote' = remote \/ Pushed(w))
      BY <1>6 DEF PushOk, PushFault
    <2>2. RemoteGrown'
      BY <1>2, <2>1, PushedGrown
    <2> QED
      BY <2>1, <2>2, ReturnGrown
  <1>7. CASE OthersMerge
    <2>1. PICK b \in Branches \ {Default} :
            /\ remote'[Default] = remote[b]
            /\ remote'[b] = remote[b] \/ remote'[b] = <<>>
            /\ \A c \in Branches \ {Default, b} : remote'[c] = remote[c]
      BY <1>7, MergedOK DEF WorkersOK
    <2>2. UNCHANGED <<runs, pc, job, run, clone, commit>> /\ runs <= runs' /\ runs' \in Nat
      BY <1>1, <1>7 DEF OthersMerge
    <2>3. \A c \in Branches : Grown(remote'[c]) /\ Below(remote'[c], runs + 1)
      <3> TAKE c \in Branches
      <3>1. remote'[c] = <<>> \/ \E d \in Branches : remote'[c] = remote[d]
        BY <2>1
      <3> QED
        BY <3>1, NothingGrown DEF ContentOK, RemoteGrown
    <2>4. RemoteGrown'
      BY <2>2, <2>3 DEF RemoteGrown
    <2>5. \A v \in Workers : GrownClone(v)'
      BY <2>2, CloneStays DEF ContentOK
    <2> QED
      BY <2>4, <2>5 DEF ContentOK
  <1>8. CASE UNCHANGED vars
    <2>1. UNCHANGED <<remote, runs, pc, job, run, clone, commit>> /\ runs <= runs' /\ runs' \in Nat
      BY <1>1, <1>8 DEF vars
    <2>2. \A v \in Workers : GrownClone(v)'
      BY <2>1, CloneStays DEF ContentOK
    <2> QED
      BY <1>2, <2>1, <2>2 DEF ContentOK
  <1> QED
    BY <1>3, <1>4, <1>5, <1>6, <1>7, <1>8 DEF Next

(* Every commit on a branch of the remote holds exactly what the files of  *)
(* its spec make of the commit before it, by an execution that is newer    *)
(* than all text it found, whoever cloned, pushed or merged in between.    *)
THEOREM CommitsHoldTheirSpecs == Spec => []BranchesGrown
  <1>1. WorkersOK /\ ContentOK => BranchesGrown
    BY DEF WorkersOK, Typed, ContentOK, RemoteGrown, BranchesGrown
  <1> QED
    BY <1>1, WorkersInit, WorkersNext, ContentInit, ContentNext, PTL DEF Spec

LEMMA BeforeType ==
  ASSUME NEW s \in Seq(Commits), NEW i \in 1 .. Len(s)
  PROVE  /\ Before(s, i) \in Trees
         /\ i = 1 => Before(s, i) = EmptyTree
         /\ i # 1 => i - 1 \in 1 .. Len(s) /\ Before(s, i) = s[i - 1].tree
  <1> DEFINE n == i - 1
             t == SubSeq(s, 1, n)
  <1>1. n \in Nat /\ n <= Len(s)
    OBVIOUS
  <1>2. i = 1 <=> n = 0
    OBVIOUS
  <1> HIDE DEF n
  <1>3. t \in Seq(Commits) /\ Len(t) = n /\ (n # 0 => t[n] = s[n])
    <2>1. t = [m \in 1 .. n |-> s[m]]
      BY <1>1
    <2>2. \A m \in 1 .. n : s[m] \in Commits
      BY <1>1
    <2> QED
      BY <1>1, <2>1, <2>2
  <1> HIDE DEF t
  <1>4. CASE n = 0
    <2>1. t = <<>>
      BY <1>3, <1>4
    <2> QED
      BY <1>2, <1>3, <1>4, <2>1, HeadTreeType DEF Before, t, n
  <1>5. CASE n # 0
    <2>1. t # <<>> /\ n \in 1 .. Len(s)
      BY <1>1, <1>3, <1>5
    <2> QED
      BY <1>2, <1>3, <1>5, <2>1, HeadTreeType DEF Before, t, n
  <1> QED
    BY <1>4, <1>5

(* In a grown branch the files that are appended to are in the clear.      *)
LEMMA BranchClear ==
  ASSUME PlainAppends, NEW s \in Seq(Commits), Grown(s), NEW i \in 1 .. Len(s)
  PROVE  AppendsClear(Before(s, i))
  <1> DEFINE T == {n \in Nat : n + 1 <= Len(s) => AppendsClear(Before(s, n + 1))}
  <1>1. 0 \in T
    <2> SUFFICES ASSUME 0 + 1 <= Len(s) PROVE AppendsClear(Before(s, 0 + 1))
      OBVIOUS
    <2>1. 0 + 1 = 1 /\ 1 \in 1 .. Len(s)
      OBVIOUS
    <2>2. Before(s, 1) = EmptyTree
      BY <2>1, BeforeType
    <2>3. \A p \in Paths : DOMAIN EmptyTree[p] = {}
      BY DEF EmptyTree
    <2> QED
      BY <2>1, <2>2, <2>3 DEF AppendsClear
  <1>2. ASSUME NEW n \in T PROVE n + 1 \in T
    <2> SUFFICES ASSUME (n + 1) + 1 <= Len(s) PROVE AppendsClear(Before(s, (n + 1) + 1))
      OBVIOUS
    <2> DEFINE m == n + 1
    <2>1. /\ m \in 1 .. Len(s) /\ m + 1 \in 1 .. Len(s) /\ m + 1 # 1 /\ (m + 1) - 1 = m
          /\ AppendsClear(Before(s, m))
      OBVIOUS
    <2> HIDE DEF m
    <2>2. Before(s, m + 1) = s[m].tree /\ Before(s, m) \in Trees
      BY <2>1, BeforeType
    <2>3. s[m] \in Commits
      BY <2>1
    <2>4. s[m].tree = TreeAfter(Before(s, m), s[m].job, s[m].run)
      BY <2>1 DEF Grown
    <2>5. AppendsClear(s[m].tree)
      BY <2>1, <2>2, <2>3, <2>4, CommitsType, TreeAfterReads
    <2> QED
      BY <2>2, <2>5 DEF m
  <1>3. T = Nat
    <2>1. T \subseteq Nat
      OBVIOUS
    <2> HIDE DEF T
    <2> QED
      BY <1>1, <1>2, <2>1, AllNumbers
  <1>4. i - 1 \in Nat /\ (i - 1) + 1 = i /\ i <= Len(s)
    OBVIOUS
  <1>5. i - 1 \in T
    <2> HIDE DEF T
    <2> QED
      BY <1>3, <1>4
  <1> QED
    BY <1>4, <1>5

(* Write modes are kept where append is asked for files in the clear only  *)
(* and not for the output of a field of a GitCommit: the text of every     *)
(* file of every commit is what the modes promise of the commit before it, *)
(* for any specs, files and order of clones, pushes and merges.            *)
THEOREM PromiseIsKept == PlainAppends => (Spec => []KeepsPromise)
  <1> SUFFICES ASSUME PlainAppends PROVE Spec => []KeepsPromise
    OBVIOUS
  <1>1. BranchesGrown => KeepsPromise
    <2> SUFFICES ASSUME BranchesGrown, NEW b \in Branches, NEW i \in DOMAIN remote[b]
                 PROVE  Reading(remote[b][i].tree)
                        = Promised(Reading(Before(remote[b], i)),
                                   remote[b][i].job, remote[b][i].run)
      BY DEF KeepsPromise, Before
    <2> DEFINE s == remote[b]
    <2>1. s \in Seq(Commits) /\ Grown(s)
      BY DEF BranchesGrown
    <2> HIDE DEF s
    <2>2. i \in 1 .. Len(s) /\ s[i] \in Commits
      BY <2>1 DEF s
    <2>3. s[i].tree = TreeAfter(Before(s, i), s[i].job, s[i].run)
      BY <2>1, <2>2 DEF Grown
    <2>4. Before(s, i) \in Trees /\ AppendsClear(Before(s, i))
      BY <2>1, <2>2, BeforeType, BranchClear
    <2>5. Reading(s[i].tree) = Promised(Reading(Before(s, i)), s[i].job, s[i].run)
      BY <2>2, <2>3, <2>4, CommitsType, TreeAfterReads
    <2> QED
      BY <2>5 DEF s
  <1>2. Spec => []BranchesGrown
    BY CommitsHoldTheirSpecs
  <1> QED
    BY <1>1, <1>2, PTL

(* Where no name of a file and no key of a ConfigMap is taken for that of  *)
(* a file that is encrypted already, the text of a spec with encryption is *)
(* in the clear nowhere but in a file that the spec itself names so.       *)
THEOREM SecretsStaySealed == NoSuffix => (Spec => []SealedStaysSealed)
  <1> SUFFICES ASSUME NoSuffix PROVE Spec => []SealedStaysSealed
    OBVIOUS
  <1>1. BranchesGrown => SealedStaysSealed
    <2> SUFFICES ASSUME BranchesGrown, NEW b \in Branches, NEW i \in DOMAIN remote[b],
                        remote[b][i].job.encrypt
                 PROVE  Hidden(remote[b][i].tree, remote[b][i].job, remote[b][i].run)
      BY DEF SealedStaysSealed, Hidden
    <2> DEFINE s == remote[b]
    <2>1. s \in Seq(Commits) /\ Grown(s)
      BY DEF BranchesGrown
    <2> HIDE DEF s
    <2>2. i \in 1 .. Len(s) /\ s[i] \in Commits /\ s[i].job.encrypt
      BY <2>1 DEF s
    <2>3. s[i].tree = TreeAfter(Before(s, i), s[i].job, s[i].run) /\ Fresh(Before(s, i), s[i].run)
      BY <2>1, <2>2 DEF Grown
    <2>4. Before(s, i) \in Trees
      BY <2>1, <2>2, BeforeType
    <2>5. Hidden(s[i].tree, s[i].job, s[i].run)
      BY <2>2, <2>3, <2>4, CommitsType, TreeAfterHidden
    <2> QED
      BY <2>5 DEF s
  <1>2. Spec => []BranchesGrown
    BY CommitsHoldTheirSpecs
  <1> QED
    BY <1>1, <1>2, PTL
=============================================================================
