--------------------------- MODULE DataPath_proofs ---------------------------
(***************************************************************************)
(* Proofs about DataPath.tla, for every size of the buffers and pipes and  *)
(* every case: inputs of any length, any number of characters put back.    *)
(*                                                                         *)
(* The parts, in this order: induction over the naturals, from the fact    *)
(* that they are well founded; what the folds of the model compute, step   *)
(* by step (Matched, FlattenSeq, Splitter); lines, and that splitting a    *)
(* text piece by piece gives its lines; bytes of a vector; what is left of *)
(* a text that loses bytes; the control state (Control); the text on its   *)
(* way and how every step moves it (Whole, Moves); the sink (Sunk); the    *)
(* get area (Gotten, Behind); the inductive invariant and the theorems.    *)
(***************************************************************************)
EXTENDS DataPath, FiniteSetTheorems, WellFoundedInduction, SequenceTheorems, TLAPS

(* What memory holds: the bytes, and what nobody has written.              *)
Cell == {"a", "b", "n", "r", "f", Junk}

(* Among some natural numbers there is a least one.                        *)
LEMMA LeastOf ==
    ASSUME NEW T \in SUBSET Nat, T # {}
    PROVE  \E x \in T : \A y \in T : x <= y
<1> DEFINE Less == {p \in Nat \X Nat : p[1] < p[2]}
<1>1. IsWellFoundedOn(Less, Nat)
  BY NatLessThanWellFounded DEF OpToRel
<1>2. PICK x \in T : \A y \in T : ~(<<y, x>> \in Less)
  BY <1>1, WFMin
<1>3. \A y \in T : x <= y
  <2> TAKE y \in T
  <2>1. ~(y < x)
    BY <1>2
  <2> QED BY <2>1
<1> QED BY <1>3

(* Induction up to n: a set of numbers with 0 in it and, with each number  *)
(* below n, the next one.                                                  *)
LEMMA UpTo ==
    ASSUME NEW n \in Nat, NEW T, 0 \in T, \A k \in 0..(n - 1) : k \in T => k + 1 \in T
    PROVE  0..n \subseteq T
<1> DEFINE F == {k \in 0..n : k \notin T}
<1> SUFFICES ASSUME F # {} PROVE FALSE
  OBVIOUS
<1>1. PICK x \in F : \A y \in F : x <= y
  <2>1. F \in SUBSET Nat
    OBVIOUS
  <2> HIDE DEF F
  <2> QED BY <2>1, LeastOf
<1>2. x \in 1..n
  OBVIOUS
<1>3. x - 1 \in T
  BY <1>1, <1>2
<1> QED BY <1>2, <1>3

(* What is as large as all of S is the maximum of S.                       *)
LEMMA MaxIs ==
    ASSUME NEW S \in SUBSET Int, NEW x \in S, \A y \in S : y <= x
    PROVE  Max(S) = x
<1>1. \A z \in S : (\A y \in S : z >= y) => z = x
  OBVIOUS
<1>2. x >= x /\ \A y \in S : x >= y
  OBVIOUS
<1> QED BY <1>1, <1>2 DEF Max

(* A set of numbers up to n has a maximum, and no element is larger.       *)
LEMMA MaxIn ==
    ASSUME NEW n \in Nat, NEW S \in SUBSET (0..n), S # {}
    PROVE  Max(S) \in S /\ \A y \in S : y <= Max(S)
<1> DEFINE T == {n - x : x \in S}
<1>1. PICK z \in T : \A y \in T : z <= y
  <2>1. \A x \in S : x \in 0..n /\ n - x \in Nat
    OBVIOUS
  <2>2. T \in SUBSET Nat
    BY <2>1
  <2>3. T # {}
    OBVIOUS
  <2> HIDE DEF T
  <2> QED BY <2>2, <2>3, LeastOf
<1>2. \A y \in S : y <= n - z
  BY <1>1
<1>3. n - z \in S
  OBVIOUS
<1>4. Max(S) = n - z
  <2>1. S \in SUBSET Int
    OBVIOUS
  <2> HIDE DEF T
  <2> QED BY <1>2, <1>3, <2>1, MaxIs
<1> QED BY <1>2, <1>3, <1>4

(* What a recursion over the subsets of 1..n is.                           *)
Folded(f, base, g, n) ==
    \A S \in SUBSET (1..n) : f[S] = IF S = {} THEN base ELSE g[<<f[S \ {Max(S)}], Max(S)>>]

(* The values that a recursion over the subsets of 1..n takes, as those of *)
(* MapThenFoldSet do, exist.                                               *)
LEMMA FoldExists ==
    ASSUME NEW X, NEW base \in X, NEW n \in Nat, NEW g \in [X \X (1..n) -> X]
    PROVE  \E f \in [SUBSET (1..n) -> X] : Folded(f, base, g, n)
<1> DEFINE Folds(k, f) == Folded(f, base, g, k)
           T == {k \in 0..n : \E f \in [SUBSET (1..k) -> X] : Folds(k, f)}
<1>1. 0 \in T
  <2> DEFINE f == [S \in SUBSET (1..0) |-> base]
  <2>1. f \in [SUBSET (1..0) -> X]
    OBVIOUS
  <2>2. \A S \in SUBSET (1..0) : S = {} /\ f[S] = base
    OBVIOUS
  <2>3. Folds(0, f)
    BY <2>2 DEF Folded
  <2>4. \E h \in [SUBSET (1..0) -> X] : Folds(0, h)
    <3> HIDE DEF f, Folds
    <3> QED BY <2>1, <2>3
  <2>5. 0 \in 0..n
    OBVIOUS
  <2> HIDE DEF f
  <2> QED BY <2>4, <2>5
<1>2. ASSUME NEW k \in 0..(n - 1), k \in T PROVE k + 1 \in T
  <2>1. PICK f \in [SUBSET (1..k) -> X] : Folds(k, f)
    BY <1>2
  <2> DEFINE h == [S \in SUBSET (1..(k + 1)) |->
                      IF k + 1 \in S THEN g[<<f[S \ {k + 1}], k + 1>>] ELSE f[S]]
  <2>2. \A S \in SUBSET (1..(k + 1)) : S \ {k + 1} \in SUBSET (1..k)
    OBVIOUS
  <2>3. h \in [SUBSET (1..(k + 1)) -> X]
    BY <2>2
  <2>4. ASSUME NEW S \in SUBSET (1..(k + 1)), S # {}
        PROVE  h[S] = g[<<h[S \ {Max(S)}], Max(S)>>]
    <3>1. CASE k + 1 \in S
      <4>1. Max(S) = k + 1
        BY <3>1, MaxIs
      <4>2. h[S \ {k + 1}] = f[S \ {k + 1}]
        BY <2>2
      <4> QED BY <3>1, <4>1, <4>2
    <3>2. CASE k + 1 \notin S
      <4>1. S \in SUBSET (1..k)
        BY <3>2
      <4>3. S \ {Max(S)} \in SUBSET (1..k) /\ k + 1 \notin S \ {Max(S)}
        BY <4>1, <3>2
      <4>2. h[S] = f[S] /\ h[S \ {Max(S)}] = f[S \ {Max(S)}]
        BY <4>1, <4>3, <3>2
      <4> QED BY <4>1, <4>2, <2>1, <2>4 DEF Folded
    <3> QED BY <3>1, <3>2
  <2>5. h[{}] = base
    BY <2>1 DEF Folded
  <2>6. Folds(k + 1, h)
    <3> HIDE DEF h
    <3> QED BY <2>4, <2>5 DEF Folded
  <2> HIDE DEF h
  <2> QED BY <2>3, <2>6
<1> HIDE DEF T
<1>3. 0..n \subseteq T
  BY <1>1, <1>2, UpTo
<1>4. n \in T
  BY <1>3
<1> QED BY <1>4 DEF T

(* The subsets that such a recursion comes by from 1..n.                   *)
LEMMA Upper ==
    ASSUME NEW n \in Nat, NEW k \in 1..n
    PROVE  /\ Max(1..k) = k /\ (1..k) \ {k} = 1..(k - 1)
           /\ 1..k # {} /\ 1..k \in SUBSET (1..n)
<1>1. 1..k \in SUBSET Int /\ k \in 1..k /\ \A y \in 1..k : y <= k
  OBVIOUS
<1>2. Max(1..k) = k
  BY <1>1, MaxIs
<1>3. (1..k) \ {k} = 1..(k - 1) /\ 1..k # {} /\ 1..k \in SUBSET (1..n)
  OBVIOUS
<1> QED BY <1>2, <1>3

(* What Matched has counted after each byte of t.                          *)
LEMMA MatchedSteps ==
    ASSUME NEW s \in Seq(Cell), NEW t \in Seq(Cell)
    PROVE  \E m \in [0..Len(t) -> Nat] :
              /\ m[0] = 0 /\ Matched(s, t) = m[Len(t)]
              /\ \A k \in 0..(Len(t) - 1) :
                    m[k + 1] = IF m[k] < Len(s) /\ s[m[k] + 1] = t[k + 1] THEN m[k] + 1 ELSE m[k]
<1> DEFINE n == Len(t)
           op(k, b) == IF k < Len(s) /\ s[k + 1] = b THEN k + 1 ELSE k
           g == [p \in Nat \X (1..n) |-> op(p[1], t[p[2]])]
           Fold(f) == [S \in SUBSET DOMAIN t |->
                          IF S = {} THEN 0 ELSE LET x == Max(S) IN op(f[S \ {x}], t[x])]
           f == CHOOSE h : h = Fold(h)
<1>1. Matched(s, t) = f[DOMAIN t]
  BY DEF Matched, FoldLeft, MapThenFoldSet
<1>2. n \in Nat /\ DOMAIN t = 1..n /\ g \in [Nat \X (1..n) -> Nat]
  OBVIOUS
<1>3. \E h : h = Fold(h)
  <2>1. PICK h \in [SUBSET (1..n) -> Nat] : Folded(h, 0, g, n)
    <3> HIDE DEF n, g
    <3> QED BY <1>2, FoldExists
  <2>2. ASSUME NEW S \in SUBSET (1..n), S # {}
        PROVE  h[S] = op(h[S \ {Max(S)}], t[Max(S)])
    <3>1. Max(S) \in 1..n
      <4>1. S \in SUBSET (0..n)
        OBVIOUS
      <4> HIDE DEF n
      <4> QED BY <4>1, <2>2, <1>2, MaxIn
    <3>2. S \ {Max(S)} \in SUBSET (1..n)
      OBVIOUS
    <3>3. h[S \ {Max(S)}] \in Nat
      BY <3>2
    <3> QED BY <3>1, <3>2, <2>2, <2>1 DEF Folded
  <2>3. h = Fold(h)
    BY <2>1, <2>2, <1>2 DEF Folded
  <2> QED BY <2>3
<1>4. f = Fold(f)
  <2> HIDE DEF Fold
  <2> QED BY <1>3
<1> HIDE DEF f
<1>5. ASSUME NEW k \in 1..n PROVE f[1..k] = op(f[1..(k - 1)], t[k])
  <2>1. Max(1..k) = k /\ (1..k) \ {k} = 1..(k - 1) /\ 1..k # {} /\ 1..k \in SUBSET (1..n)
    <3> HIDE DEF n
    <3> QED BY <1>2, Upper
  <2>2. f[1..k] = op(f[(1..k) \ {Max(1..k)}], t[Max(1..k)])
    <3>1. 1..k \in SUBSET DOMAIN t
      BY <2>1, <1>2
    <3> HIDE DEF n, op
    <3> QED BY <2>1, <3>1, <1>4
  <2> QED BY <2>1, <2>2
<1>6. f[1..0] = 0
  <2>1. 1..0 = {}
    OBVIOUS
  <2> QED BY <2>1, <1>4
<1> DEFINE m == [k \in 0..n |-> f[1..k]]
           T == {k \in 0..n : m[k] \in Nat}
<1>7. m \in [0..n -> Nat]
  <2>1. 0 \in T
    BY <1>6
  <2>2. ASSUME NEW k \in 0..(n - 1), k \in T PROVE k + 1 \in T
    <3>1. f[1..(k + 1)] = op(f[1..k], t[k + 1])
      BY <1>5
    <3> QED BY <2>2, <3>1
  <2>3. 0..n \subseteq T
    <3> HIDE DEF T, n
    <3> QED BY <2>1, <2>2, <1>2, UpTo
  <2> QED BY <2>3
<1>8. m[0] = 0 /\ m[n] = Matched(s, t)
  BY <1>1, <1>2, <1>6
<1>9. \A k \in 0..(n - 1) : m[k + 1] = op(m[k], t[k + 1])
  <2> SUFFICES ASSUME NEW k \in 0..(n - 1) PROVE m[k + 1] = op(m[k], t[k + 1])
    OBVIOUS
  <2>1. f[1..(k + 1)] = op(f[1..k], t[k + 1])
    BY <1>5
  <2> QED BY <2>1
<1> HIDE DEF m
<1> QED BY <1>7, <1>8, <1>9

(* What FlattenSeq has put together after each sequence of ss.             *)
LEMMA FlatSteps ==
    ASSUME NEW ss \in Seq(Seq(Cell))
    PROVE  \E m \in [0..Len(ss) -> Seq(Cell)] :
              /\ m[0] = << >> /\ FlattenSeq(ss) = m[Len(ss)]
              /\ \A k \in 0..(Len(ss) - 1) : m[k + 1] = m[k] \o ss[k + 1]
<1> DEFINE n == Len(ss)
           X == Seq(Cell)
           g == [p \in X \X (1..n) |-> p[1] \o ss[p[2]]]
           Flat(h) == [i \in 1..n |-> IF i = 1 THEN ss[i] ELSE h[i - 1] \o ss[i]]
           f == CHOOSE h : h = Flat(h)
<1>1. n \in Nat /\ DOMAIN ss = 1..n /\ g \in [X \X (1..n) -> X]
  OBVIOUS
<1>2. \A k \in 1..n : ss[k] \in X
  OBVIOUS
<1>3. n # 0 => FlattenSeq(ss) = f[n]
  BY DEF FlattenSeq
<1>4. n = 0 => FlattenSeq(ss) = << >>
  BY DEF FlattenSeq
<1>5. \A x \in X : << >> \o x = x
  OBVIOUS
<1>6. \A p \in X \X (1..n) : g[p] = p[1] \o ss[p[2]]
  OBVIOUS
<1>7. << >> \in X
  OBVIOUS
<1> HIDE DEF n, X, g, f
<1>8. PICK h \in [SUBSET (1..n) -> X] : Folded(h, << >>, g, n)
  BY <1>1, <1>7, FoldExists
<1> DEFINE m == [k \in 0..n |-> h[1..k]]
<1>9. m \in [0..n -> X]
  <2>1. \A k \in 0..n : 1..k \in SUBSET (1..n)
    BY <1>1
  <2> QED BY <2>1
<1>10. m[0] = << >>
  <2>1. 1..0 = {} /\ 0 \in 0..n
    BY <1>1
  <2> QED BY <2>1, <1>8 DEF Folded
<1>11. ASSUME NEW k \in 0..(n - 1) PROVE m[k + 1] = m[k] \o ss[k + 1]
  <2>1. k + 1 \in 1..n /\ (k + 1) - 1 = k /\ k \in 0..n /\ k + 1 \in 0..n
    BY <1>1
  <2>2. /\ Max(1..(k + 1)) = k + 1 /\ (1..(k + 1)) \ {k + 1} = 1..k
        /\ 1..(k + 1) # {} /\ 1..(k + 1) \in SUBSET (1..n)
    BY <1>1, <2>1, Upper
  <2>3. h[1..(k + 1)] = g[<<h[1..k], k + 1>>]
    BY <2>2, <1>8 DEF Folded
  <2>4. m[k] \in X /\ m[k + 1] = h[1..(k + 1)] /\ m[k] = h[1..k]
    BY <2>1, <1>9
  <2>5. <<m[k], k + 1>> \in X \X (1..n)
    BY <2>1, <2>4
  <2> HIDE DEF m
  <2> QED BY <2>3, <2>4, <2>5, <1>6
<1> HIDE DEF m
<1>12. f = Flat(f)
  <2> DEFINE d == [i \in 1..n |-> m[i]]
  <2>1. ASSUME NEW i \in 1..n PROVE m[i] = IF i = 1 THEN ss[i] ELSE m[i - 1] \o ss[i]
    <3>1. i - 1 \in 0..(n - 1) /\ (i - 1) + 1 = i
      BY <1>1
    <3>2. m[i] = m[i - 1] \o ss[i]
      BY <3>1, <1>11
    <3>3. ASSUME i = 1 PROVE m[i - 1] \o ss[i] = ss[i]
      <4>1. m[i - 1] = << >>
        BY <3>3, <1>10
      <4>2. ss[i] \in X
        BY <1>2
      <4> QED BY <4>1, <4>2, <1>5
    <3> QED BY <3>2, <3>3
  <2>2. \A i \in 1..n : i # 1 => i - 1 \in 1..n
    BY <1>1
  <2>3. d = Flat(d)
    BY <2>1, <2>2
  <2> HIDE DEF Flat, d
  <2> QED BY <2>3 DEF f
<1> DEFINE T == {k \in 0..n : k = 0 \/ f[k] = m[k]}
<1>13. ASSUME NEW k \in 0..(n - 1), k \in T PROVE k + 1 \in T
  <2>1. k + 1 \in 1..n /\ k + 1 \in 0..n /\ (k + 1) - 1 = k
    BY <1>1
  <2>2. f[k + 1] = IF k = 0 THEN ss[k + 1] ELSE f[k] \o ss[k + 1]
    <3>1. f[k + 1] = IF k + 1 = 1 THEN ss[k + 1] ELSE f[(k + 1) - 1] \o ss[k + 1]
      BY <2>1, <1>12
    <3>2. k + 1 = 1 <=> k = 0
      BY <1>1
    <3> QED BY <3>1, <3>2, <2>1
  <2>3. m[k + 1] = m[k] \o ss[k + 1]
    BY <1>11
  <2>4. ASSUME k = 0 PROVE m[k] \o ss[k + 1] = ss[k + 1]
    <3>1. m[k] = << >> /\ ss[k + 1] \in X
      BY <2>1, <2>4, <1>2, <1>10
    <3> QED BY <3>1, <1>5
  <2> QED BY <2>1, <2>2, <2>3, <2>4, <1>13
<1>14. 0..n \subseteq T
  <2>1. 0 \in T
    BY <1>1
  <2> HIDE DEF T
  <2> QED BY <2>1, <1>13, <1>1, UpTo
<1>15. FlattenSeq(ss) = m[n]
  BY <1>1, <1>3, <1>4, <1>10, <1>14
<1> QED BY <1>9, <1>10, <1>11, <1>15 DEF n, X

(* Joining sequences of bytes is associative.                              *)
LEMMA Assoc == \A a, b, d \in Seq(Cell) : (a \o b) \o d = a \o (b \o d)
BY ConcatAssociative

(* The same of an operator that is hidden from the provers.                *)
Cat(a, b) == a \o b

(* Joining, so hidden, is associative too.                                 *)
LEMMA CatAssoc == \A a, b, d \in Seq(Cell) : Cat(Cat(a, b), d) = Cat(a, Cat(b, d))
BY Assoc DEF Cat

(* FlattenSeq begins with the first sequence.                              *)
LEMMA FlatCons ==
    ASSUME NEW ss \in Seq(Seq(Cell)), ss # << >>
    PROVE  /\ FlattenSeq(ss) = Head(ss) \o FlattenSeq(Tail(ss))
           /\ FlattenSeq(Tail(ss)) \in Seq(Cell)
<1> DEFINE n == Len(Tail(ss))
           X == Seq(Cell)
           x == Head(ss)
           t == Tail(ss)
<1>1. n \in Nat /\ Len(ss) = n + 1 /\ x \in X /\ t \in Seq(X) /\ x = ss[1]
  OBVIOUS
<1>2. \A k \in 1..n : t[k] = ss[k + 1] /\ t[k] \in X
  OBVIOUS
<1>3. PICK f \in [0..n -> X] :
          /\ f[0] = << >> /\ FlattenSeq(t) = f[n]
          /\ \A k \in 0..(n - 1) : f[k + 1] = f[k] \o t[k + 1]
  BY <1>1, FlatSteps
<1>4. PICK m \in [0..(n + 1) -> X] :
          /\ m[0] = << >> /\ FlattenSeq(ss) = m[n + 1]
          /\ \A k \in 0..n : m[k + 1] = m[k] \o ss[k + 1]
  <2>1. Len(ss) - 1 = n
    BY <1>1
  <2> HIDE DEF n, X, x, t
  <2> QED BY <2>1, <1>1, FlatSteps, ZenonT(60) DEF X
<1> HIDE DEF n, X, x, t
<1> DEFINE T == {k \in 0..n : m[k + 1] = x \o f[k]}
<1>5. 0 \in T
  <2>1. 0 \in 0..n /\ 0 + 1 = 1
    BY <1>1
  <2>2. m[0 + 1] = m[0] \o ss[0 + 1]
    BY <2>1, <1>4
  <2>3. << >> \o x = x /\ x \o << >> = x
    BY <1>1 DEF X
  <2> QED BY <2>1, <2>2, <2>3, <1>1, <1>3, <1>4
<1>6. ASSUME NEW k \in 0..(n - 1), k \in T PROVE k + 1 \in T
  <2>0. k \in 0..n /\ k + 1 \in 0..n /\ k + 1 \in 1..n
    BY <1>1
  <2>1. m[(k + 1) + 1] = m[k + 1] \o ss[(k + 1) + 1]
    BY <2>0, <1>4
  <2>2. f[k + 1] = f[k] \o t[k + 1] /\ ss[(k + 1) + 1] = t[k + 1] /\ t[k + 1] \in X
    BY <2>0, <1>2, <1>3
  <2>3. (x \o f[k]) \o t[k + 1] = x \o (f[k] \o t[k + 1])
    <3>0. x \in X /\ t[k + 1] \in X
      BY <2>2, <1>1
    <3>1. f[k] \in X
      BY <2>0, <1>3
    <3> QED BY <3>0, <3>1, Assoc DEF X
  <2> QED BY <2>0, <2>1, <2>2, <2>3, <1>6
<1>7. 0..n \subseteq T
  <2> HIDE DEF T
  <2> QED BY <1>1, <1>5, <1>6, UpTo
<1>8. n \in T
  BY <1>7, <1>1
<1> QED BY <1>8, <1>3, <1>4, <1>1 DEF x, t, X

-----------------------------------------------------------------------------
(* One byte in line_splitter.                                              *)
SplitStep(acc, b) ==
    IF b = "n" THEN [lines |-> Append(acc.lines, Chomp(acc.temp)), temp |-> << >>]
    ELSE [acc EXCEPT !.temp = Append(@, b)]
Accs == [lines : Seq(Seq(Cell)), temp : Seq(Cell)]

(* A line without its carriage return is a line.                           *)
LEMMA ChompType == \A line \in Seq(Cell) : Chomp(line) \in Seq(Cell)
<1> TAKE line \in Seq(Cell)
<1>1. ASSUME line # << >> PROVE SubSeq(line, 1, Len(line) - 1) \in Seq(Cell)
  <2>1. \A i \in 1..(Len(line) - 1) : line[i] \in Cell
    OBVIOUS
  <2> QED BY <2>1, SubSeqProperties
<1> QED BY <1>1 DEF Chomp, Front

(* A byte leaves line_splitter with lines and the beginning of a line.     *)
LEMMA SplitType == \A acc \in Accs, b \in Cell : SplitStep(acc, b) \in Accs
<1> TAKE acc \in Accs, b \in Cell
<1>1. acc.lines \in Seq(Seq(Cell)) /\ acc.temp \in Seq(Cell)
  BY DEF Accs
<1>2. CASE b = "n"
  <2>1. Append(acc.lines, Chomp(acc.temp)) \in Seq(Seq(Cell))
    BY <1>1, ChompType
  <2> QED BY <2>1, <1>2 DEF SplitStep, Accs
<1>3. CASE b # "n"
  <2>1. Append(acc.temp, b) \in Seq(Cell)
    BY <1>1
  <2> QED BY <2>1, <1>1, <1>3 DEF SplitStep, Accs
<1> QED BY <1>2, <1>3

(* What line_splitter has after each byte.                                 *)
LEMMA SplitSteps ==
    ASSUME NEW s \in Seq(Cell), NEW t \in Seq(Cell)
    PROVE  \E m \in [0..Len(t) -> Accs] :
              /\ m[0] = [lines |-> << >>, temp |-> s] /\ Splitter(s, t) = m[Len(t)]
              /\ \A k \in 0..(Len(t) - 1) : m[k + 1] = SplitStep(m[k], t[k + 1])
<1> DEFINE n == Len(t)
           z == [lines |-> << >>, temp |-> s]
           g == [p \in Accs \X (1..n) |-> SplitStep(p[1], t[p[2]])]
           Fold(f) == [S \in SUBSET DOMAIN t |->
                          IF S = {} THEN z
                          ELSE LET x == Max(S) IN SplitStep(f[S \ {x}], t[x])]
           f == CHOOSE h : h = Fold(h)
<1>1. Splitter(s, t) = f[DOMAIN t]
  BY DEF Splitter, FoldLeft, MapThenFoldSet, SplitStep
<1>2. n \in Nat /\ DOMAIN t = 1..n
  OBVIOUS
<1>3. g \in [Accs \X (1..n) -> Accs] /\ z \in Accs
  <2>1. z \in Accs
    BY DEF Accs
  <2>2. \A p \in Accs \X (1..n) : p[1] \in Accs /\ t[p[2]] \in Cell
    OBVIOUS
  <2>3. \A p \in Accs \X (1..n) : SplitStep(p[1], t[p[2]]) \in Accs
    BY <2>2, SplitType
  <2> HIDE DEF n
  <2> QED BY <2>1, <2>3
<1>4. \A p \in Accs \X (1..n) : g[p] = SplitStep(p[1], t[p[2]])
  OBVIOUS
<1> HIDE DEF n, g, z
<1>5. PICK h \in [SUBSET (1..n) -> Accs] : Folded(h, z, g, n)
  BY <1>2, <1>3, FoldExists
<1>6. f = Fold(f)
  <2>1. ASSUME NEW S \in SUBSET (1..n), S # {}
        PROVE  h[S] = SplitStep(h[S \ {Max(S)}], t[Max(S)])
    <3>1. S \in SUBSET (0..n)
      BY <1>2
    <3>2. Max(S) \in 1..n
      BY <3>1, <2>1, <1>2, MaxIn
    <3>3. S \ {Max(S)} \in SUBSET (1..n)
      OBVIOUS
    <3>4. <<h[S \ {Max(S)}], Max(S)>> \in Accs \X (1..n)
      BY <3>2, <3>3
    <3>5. h[S] = g[<<h[S \ {Max(S)}], Max(S)>>]
      BY <1>5, <2>1 DEF Folded
    <3> QED BY <3>4, <3>5, <1>4
  <2>2. h[{}] = z
    BY <1>5 DEF Folded
  <2>3. h = Fold(h)
    BY <2>1, <2>2, <1>2
  <2> HIDE DEF Fold
  <2> QED BY <2>3
<1> HIDE DEF f
<1>7. ASSUME NEW k \in 0..(n - 1) PROVE f[1..(k + 1)] = SplitStep(f[1..k], t[k + 1])
  <2>1. k + 1 \in 1..n /\ (k + 1) - 1 = k
    BY <1>2
  <2>2. /\ Max(1..(k + 1)) = k + 1 /\ (1..(k + 1)) \ {k + 1} = 1..k
        /\ 1..(k + 1) # {} /\ 1..(k + 1) \in SUBSET (1..n)
    BY <1>2, <2>1, Upper
  <2>3. f[1..(k + 1)] =
            SplitStep(f[(1..(k + 1)) \ {Max(1..(k + 1))}], t[Max(1..(k + 1))])
    BY <2>2, <1>2, <1>6
  <2> QED BY <2>2, <2>3
<1>8. f[1..0] = z
  <2>1. 1..0 = {}
    OBVIOUS
  <2> QED BY <2>1, <1>6
<1> DEFINE m == [k \in 0..n |-> f[1..k]]
           T == {k \in 0..n : m[k] \in Accs}
<1>9. m \in [0..n -> Accs]
  <2>1. 0 \in T
    BY <1>2, <1>3, <1>8
  <2>2. ASSUME NEW k \in 0..(n - 1), k \in T PROVE k + 1 \in T
    <3>1. t[k + 1] \in Cell
      BY DEF n
    <3>2. k + 1 \in 0..n /\ m[k + 1] = SplitStep(m[k], t[k + 1])
      BY <1>2, <1>7
    <3> QED BY <2>2, <3>1, <3>2, SplitType
  <2>3. 0..n \subseteq T
    <3> HIDE DEF T
    <3> QED BY <2>1, <2>2, <1>2, UpTo
  <2> QED BY <2>3
<1>10. m[0] = z /\ m[n] = Splitter(s, t)
  BY <1>1, <1>2, <1>8
<1>11. \A k \in 0..(n - 1) : m[k + 1] = SplitStep(m[k], t[k + 1])
  BY <1>2, <1>7
<1> HIDE DEF m
<1> QED BY <1>9, <1>10, <1>11 DEF n, z

-----------------------------------------------------------------------------
(* What follows the last newline of s.                                     *)
Rest(s) == SubSeq(s, Max({0} \cup Newlines(s)) + 1, Len(s))

(* How many newlines there are before i.                                   *)
Rank(N, i) == Cardinality({j \in N : j < i})

(* The numbers of N have the ranks from 0 on, each of them once.           *)
LEMMA Ranks ==
    ASSUME NEW n \in Nat, NEW N \in SUBSET (1..n)
    PROVE  /\ IsFiniteSet(N) /\ Cardinality(N) \in Nat
           /\ \A i \in N : Rank(N, i) \in 0..(Cardinality(N) - 1)
           /\ \A i, j \in N : Rank(N, i) = Rank(N, j) => i = j
           /\ \A k \in 1..Cardinality(N) : \E i \in N : Rank(N, i) = k - 1
<1>1. IsFiniteSet(N)
  <2>1. 1 \in Int /\ n \in Int
    OBVIOUS
  <2>2. IsFiniteSet(1..n)
    BY <2>1, FS_Interval
  <2> QED BY <2>2, FS_Subset
<1>2. Cardinality(N) \in Nat
  BY <1>1, FS_CardinalityType
<1> DEFINE B(i) == {j \in N : j < i}
           m == Cardinality(N)
<1>3. \A i : IsFiniteSet(B(i)) /\ Cardinality(B(i)) \in Nat
  BY <1>1, FS_Subset, FS_CardinalityType
<1>4. ASSUME NEW i \in N PROVE Rank(N, i) \in 0..(m - 1)
  <2>1. B(i) \subseteq N /\ i \notin B(i)
    OBVIOUS
  <2>2. Cardinality(B(i)) <= m /\ (Cardinality(B(i)) = m => N = B(i))
    <3> HIDE DEF B
    <3> QED BY <2>1, <1>1, FS_Subset
  <2> QED BY <2>1, <2>2, <1>2, <1>3 DEF Rank
<1>5. ASSUME NEW i \in N, NEW j \in N, i < j PROVE Rank(N, i) < Rank(N, j)
  <2>0. \A h \in N : h \in Int
    OBVIOUS
  <2>1. B(i) \subseteq B(j) /\ i \in B(j) /\ i \notin B(i)
    <3>1. i \in Int /\ j \in Int /\ \A h \in N : h < i => h < j
      BY <1>5, <2>0
    <3>2. B(i) \subseteq B(j)
      BY <3>1
    <3>3. i \in B(j)
      BY <1>5
    <3>4. i \notin B(i)
      BY <3>1
    <3> QED BY <3>2, <3>3, <3>4
  <2>2. Cardinality(B(i)) <= Cardinality(B(j)) /\ (Cardinality(B(j)) = Cardinality(B(i)) => B(j) = B(i))
    <3>1. IsFiniteSet(B(j))
      BY <1>3
    <3> HIDE DEF B
    <3> QED BY <2>1, <3>1, FS_Subset
  <2> QED BY <2>1, <2>2, <1>3 DEF Rank
<1>6. ASSUME NEW i \in N, NEW j \in N, Rank(N, i) = Rank(N, j) PROVE i = j
  <2>1. Rank(N, i) \in Int /\ Rank(N, j) \in Int
    BY <1>3 DEF Rank
  <2> QED BY <2>1, <1>5, <1>6
<1>7. ASSUME NEW k \in 1..m PROVE \E i \in N : Rank(N, i) = k - 1
  <2> DEFINE T == 0..(m - 1)
             f == [i \in N |-> Rank(N, i)]
  <2>1. IsFiniteSet(T) /\ Cardinality(T) = m
    <3>1. 0 \in Int /\ m - 1 \in Int
      BY <1>2
    <3>2. Cardinality(T) = IF 0 > m - 1 THEN 0 ELSE (m - 1) - 0 + 1
      BY <3>1, FS_Interval
    <3>3. IsFiniteSet(T)
      BY <3>1, FS_Interval
    <3> HIDE DEF T
    <3> QED BY <3>2, <3>3, <1>2
  <2>2. f \in [N -> T]
    BY <1>4
  <2>3. f \in Injection(N, T)
    BY <2>2, <1>6 DEF Injection, IsInjective
  <2>4. f \in Surjection(N, T)
    <3> HIDE DEF f, T
    <3> QED BY <2>1, <2>3, FS_Injection
  <2>5. k - 1 \in T
    BY <1>2
  <2> QED BY <2>4, <2>5 DEF Surjection
<1> QED BY <1>1, <1>2, <1>4, <1>6, <1>7

(* The end of the k-th line, and where its text begins.                    *)
End(s, k) == CHOOSE i \in Newlines(s) : Cardinality({j \in Newlines(s) : j < i}) = k - 1
Begin(s, k) == Max({0} \cup {j \in Newlines(s) : j < End(s, k)})

(* Newlines are at positions of s.                                         *)
LEMMA NewlinesIn == \A s \in Seq(Cell) : Newlines(s) \in SUBSET (1..Len(s))
BY DEF Newlines

(* The k-th line ends at the newline of rank k - 1, and at no other one.   *)
LEMMA EndIs ==
    ASSUME NEW s \in Seq(Cell), NEW k \in 1..Cardinality(Newlines(s))
    PROVE  /\ End(s, k) \in Newlines(s) /\ Rank(Newlines(s), End(s, k)) = k - 1
           /\ \A i \in Newlines(s) : Rank(Newlines(s), i) = k - 1 => i = End(s, k)
<1> DEFINE N == Newlines(s)
           n == Len(s)
<1>1. n \in Nat /\ N \in SUBSET (1..n)
  BY NewlinesIn
<1>2. End(s, k) = CHOOSE i \in N : Rank(N, i) = k - 1
  BY DEF End, Rank
<1> HIDE DEF N, n
<1>3. k \in 1..Cardinality(N)
  BY DEF N
<1>4. /\ \E i \in N : Rank(N, i) = k - 1
      /\ \A i, j \in N : Rank(N, i) = Rank(N, j) => i = j
  BY <1>1, <1>3, Ranks
<1>5. End(s, k) \in N /\ Rank(N, End(s, k)) = k - 1
  BY <1>2, <1>4
<1> QED BY <1>4, <1>5 DEF N

(* LinesOf is a sequence of lines: what lies between two newlines,         *)
(* chomped.                                                                *)
LEMMA LineIs ==
    ASSUME NEW s \in Seq(Cell)
    PROVE  /\ Cardinality(Newlines(s)) \in Nat
           /\ LinesOf(s) = [k \in 1..Cardinality(Newlines(s)) |->
                               Chomp(SubSeq(s, Begin(s, k) + 1, End(s, k) - 1))]
           /\ LinesOf(s) \in Seq(Seq(Cell))
<1>1. Cardinality(Newlines(s)) \in Nat
  <2>1. Len(s) \in Nat
    OBVIOUS
  <2> QED BY <2>1, NewlinesIn, Ranks
<1>2. ASSUME NEW k \in 1..Cardinality(Newlines(s))
      PROVE  /\ Begin(s, k) \in 0..Len(s) /\ End(s, k) \in 1..Len(s)
             /\ SubSeq(s, Begin(s, k) + 1, End(s, k) - 1) \in Seq(Cell)
  <2> DEFINE S == {0} \cup {j \in Newlines(s) : j < End(s, k)}
             e == End(s, k)
             b == Begin(s, k)
  <2>1. e \in 1..Len(s)
    BY EndIs, NewlinesIn
  <2>2. S \in SUBSET (0..Len(s)) /\ S # {}
    BY NewlinesIn
  <2>3. b \in 0..Len(s)
    <3>1. Max(S) \in S
      <4>1. Len(s) \in Nat
        OBVIOUS
      <4> HIDE DEF S
      <4> QED BY <2>2, <4>1, MaxIn
    <3> QED BY <2>2, <3>1 DEF Begin
  <2> HIDE DEF e, b
  <2>4. \A i \in (b + 1)..(e - 1) : s[i] \in Cell
    BY <2>1, <2>3
  <2>5. SubSeq(s, b + 1, e - 1) \in Seq(Cell)
    BY <2>1, <2>3, <2>4, SubSeqProperties
  <2> QED BY <2>1, <2>3, <2>5 DEF e, b
<1>3. LinesOf(s) = [k \in 1..Cardinality(Newlines(s)) |->
                       Chomp(SubSeq(s, Begin(s, k) + 1, End(s, k) - 1))]
  <2> DEFINE m == Cardinality(Newlines(s))
             Line(k) == SubSeq(s, Begin(s, k) + 1, End(s, k) - 1)
             Chomped(line) == IF line # << >> /\ line[Len(line)] = "r"
                              THEN SubSeq(line, 1, Len(line) - 1) ELSE line
  <2>1. LinesOf(s) = [k \in 1..m |-> Chomped(Line(k))]
    BY DEF LinesOf, Begin, End
  <2>2. \A line \in Seq(Cell) : Chomped(line) = Chomp(line)
    BY DEF Chomp, Last, Front
  <2>3. \A k \in 1..m : Line(k) \in Seq(Cell)
    BY <1>2
  <2> HIDE DEF m, Line, Chomped
  <2>4. [k \in 1..m |-> Chomped(Line(k))] = [k \in 1..m |-> Chomp(Line(k))]
    BY <2>2, <2>3
  <2> QED BY <2>1, <2>4 DEF m, Line
<1>4. \A k \in 1..Cardinality(Newlines(s)) :
        Chomp(SubSeq(s, Begin(s, k) + 1, End(s, k) - 1)) \in Seq(Cell)
  BY <1>2, ChompType
<1>5. LinesOf(s) \in Seq(Seq(Cell))
  <2> DEFINE m == Cardinality(Newlines(s))
             l(k) == Chomp(SubSeq(s, Begin(s, k) + 1, End(s, k) - 1))
  <2> HIDE DEF m, l
  <2>1. LinesOf(s) = [k \in 1..m |-> l(k)] /\ m \in Nat /\ \A k \in 1..m : l(k) \in Seq(Cell)
    BY <1>1, <1>3, <1>4 DEF m, l
  <2> QED BY <2>1
<1> QED BY <1>1, <1>3, <1>5

(* A sequence with a byte appended, element by element.                    *)
LEMMA Appended ==
    ASSUME NEW s \in Seq(Cell), NEW b \in Cell
    PROVE  /\ Len(s) \in Nat
           /\ Append(s, b) \in Seq(Cell) /\ Len(Append(s, b)) = Len(s) + 1
           /\ Append(s, b)[Len(s) + 1] = b
           /\ \A k \in 1..Len(s) : Append(s, b)[k] = s[k] /\ s[k] \in Cell
<1>1. \A k \in 1..Len(s) : s[k] \in Cell
  OBVIOUS
<1>2. Len(s) \in Nat
  OBVIOUS
<1>3. Append(s, b) \in Seq(Cell)
  BY AppendProperties
<1>4. Len(Append(s, b)) = Len(s) + 1 /\ Append(s, b)[Len(s) + 1] = b
  BY AppendProperties
<1>5. \A k \in 1..Len(s) : Append(s, b)[k] = s[k]
  OBVIOUS
<1> QED BY <1>1, <1>2, <1>3, <1>4, <1>5

(* What is cut out of a sequence with a byte appended, with or without the *)
(* byte.                                                                   *)
LEMMA SubAppend ==
    ASSUME NEW s \in Seq(Cell), NEW b \in Cell, NEW i \in 1..(Len(s) + 1), NEW j \in 0..Len(s)
    PROVE  /\ SubSeq(Append(s, b), i, j) = SubSeq(s, i, j) /\ SubSeq(s, i, j) \in Seq(Cell)
           /\ SubSeq(Append(s, b), i, Len(s) + 1) = Append(SubSeq(s, i, Len(s)), b)
<1> DEFINE t == Append(s, b)
           n == Len(s)
<1>1. /\ n \in Nat /\ t \in Seq(Cell) /\ Len(t) = n + 1 /\ t[n + 1] = b
      /\ \A k \in 1..n : t[k] = s[k] /\ s[k] \in Cell /\ t[k] \in Cell
  <2>1. \A k \in 1..n : t[k] = s[k] /\ s[k] \in Cell
    BY Appended
  <2> QED BY <2>1, Appended
<1> HIDE DEF t, n
<1>2. ASSUME NEW m \in 0..n
      PROVE  /\ SubSeq(s, i, m) \in Seq(Cell) /\ SubSeq(t, i, m) \in Seq(Cell)
             /\ Len(SubSeq(s, i, m)) = (IF i <= m THEN m - i + 1 ELSE 0)
             /\ Len(SubSeq(t, i, m)) = (IF i <= m THEN m - i + 1 ELSE 0)
             /\ \A k \in 1..(m - i + 1) :
                    SubSeq(s, i, m)[k] = s[i + k - 1] /\ SubSeq(t, i, m)[k] = t[i + k - 1]
  <2>1. i \in Int /\ m \in Int
    BY <1>1 DEF n
  <2>2. \A k \in i..m : s[k] \in Cell /\ t[k] \in Cell
    BY <1>1 DEF n
  <2> QED BY <2>1, <2>2, SubSeqProperties
<1>3. SubSeq(t, i, j) = SubSeq(s, i, j)
  <2>1. j \in 0..n
    BY DEF n
  <2>2. \A k \in 1..(j - i + 1) : s[i + k - 1] = t[i + k - 1]
    BY <1>1, <2>1 DEF n
  <2>3. \A k \in 1..Len(SubSeq(s, i, j)) : SubSeq(t, i, j)[k] = SubSeq(s, i, j)[k]
    BY <1>2, <2>1, <2>2
  <2> QED BY <2>1, <2>3, <1>2, SeqEqual
<1>4. SubSeq(t, i, n + 1) = Append(SubSeq(s, i, n), b)
  <2> DEFINE u == SubSeq(s, i, n)
             v == SubSeq(t, i, n + 1)
  <2>1. i \in Int /\ n + 1 \in Int /\ n \in 0..n
    BY <1>1
  <2>2. \A k \in i..(n + 1) : t[k] \in Cell
    BY <1>1 DEF n
  <2>3. /\ v \in Seq(Cell) /\ Len(v) = n + 1 - i + 1
        /\ \A k \in 1..(n + 1 - i + 1) : v[k] = t[i + k - 1]
    BY <1>1, <2>1, <2>2, SubSeqProperties DEF n
  <2>4. /\ u \in Seq(Cell) /\ Len(u) = n - i + 1
        /\ \A k \in 1..(n - i + 1) : u[k] = s[i + k - 1]
    BY <1>1, <1>2, <2>1 DEF n
  <2> HIDE DEF u, v
  <2>5. /\ Append(u, b) \in Seq(Cell) /\ Len(Append(u, b)) = Len(u) + 1
        /\ Append(u, b)[Len(u) + 1] = b
        /\ \A k \in 1..Len(u) : Append(u, b)[k] = u[k]
    BY <2>4, Appended
  <2>6. ASSUME NEW k \in 1..Len(v) PROVE Append(u, b)[k] = v[k]
    <3>1. CASE k = n - i + 2
      <4>1. k = Len(u) + 1 /\ i + k - 1 = n + 1 /\ k \in 1..(n + 1 - i + 1)
        BY <3>1, <2>4, <1>1 DEF n
      <4>2. Append(u, b)[k] = b /\ v[k] = t[i + k - 1]
        BY <4>1, <2>3, <2>5
      <4> QED BY <4>1, <4>2, <1>1
    <3>2. CASE k # n - i + 2
      <4>1. k \in 1..(n - i + 1) /\ i + k - 1 \in 1..n
        <5>1. Len(v) = n - i + 2 /\ i \in 1..(n + 1)
          BY <2>3, <1>1 DEF n
        <5> QED BY <5>1, <3>2, <1>1
      <4>2. Append(u, b)[k] = u[k] /\ u[k] = s[i + k - 1] /\ v[k] = t[i + k - 1]
        BY <4>1, <2>3, <2>4, <2>5
      <4> QED BY <4>1, <4>2, <1>1
    <3> QED BY <3>1, <3>2
  <2>7. Append(u, b) = v
    <3>1. Len(v) = Len(Append(u, b))
      BY <2>3, <2>4, <2>5, <1>1 DEF n
    <3> QED BY <3>1, <2>3, <2>5, <2>6, SeqEqual
  <2> QED BY <2>7 DEF u, v
<1> QED BY <1>1, <1>2, <1>3, <1>4 DEF t, n

(* The last newline of s is at a position of s or there is none; no        *)
(* newline follows it.                                                     *)
LEMMA LastIs ==
    ASSUME NEW s \in Seq(Cell)
    PROVE  /\ Max({0} \cup Newlines(s)) \in 0..Len(s)
           /\ \A i \in Newlines(s) : i <= Max({0} \cup Newlines(s))
           /\ Rest(s) \in Seq(Cell)
           /\ \A k \in DOMAIN Rest(s) : Rest(s)[k] # "n"
<1> DEFINE S == {0} \cup Newlines(s)
           m == Max(S)
           n == Len(s)
<1>1. n \in Nat /\ S \in SUBSET (0..n) /\ S # {}
  BY NewlinesIn
<1>2. m \in S /\ \A i \in S : i <= m
  <2> HIDE DEF S, n
  <2> QED BY <1>1, MaxIn
<1>3. m \in 0..n /\ \A i \in Newlines(s) : i <= m
  BY <1>1, <1>2
<1>4. \A i \in 1..n : s[i] \in Cell /\ (s[i] = "n" => i <= m)
  BY <1>3 DEF Newlines
<1> DEFINE r == SubSeq(s, m + 1, n)
<1> HIDE DEF m, n
<1>5. /\ r \in Seq(Cell) /\ Len(r) = (IF m + 1 <= n THEN n - (m + 1) + 1 ELSE 0)
      /\ \A k \in 1..(n - (m + 1) + 1) : r[k] = s[(m + 1) + k - 1]
  <2>1. m + 1 \in Int /\ n \in Int /\ \A i \in (m + 1)..n : s[i] \in Cell
    BY <1>1, <1>3, <1>4
  <2> QED BY <2>1, SubSeqProperties
<1>6. ASSUME NEW k \in DOMAIN r PROVE r[k] # "n"
  <2>1. k \in 1..Len(r)
    BY <1>5
  <2>2. k \in 1..(n - (m + 1) + 1) /\ (m + 1) + k - 1 \in 1..n /\ (m + 1) + k - 1 > m
    BY <2>1, <1>1, <1>3, <1>5
  <2> QED BY <2>2, <1>4, <1>5, <1>3
<1> QED BY <1>3, <1>5, <1>6 DEF m, n, Rest

(* How the lines of a text, and what is left behind them, grow by a byte.  *)
LEMMA LinesAppend ==
    ASSUME NEW s \in Seq(Cell), NEW b \in Cell
    PROVE  /\ LinesOf(Append(s, b)) = IF b = "n" THEN Append(LinesOf(s), Chomp(Rest(s))) ELSE LinesOf(s)
           /\ Rest(Append(s, b)) = IF b = "n" THEN << >> ELSE Append(Rest(s), b)
<1> DEFINE t == Append(s, b)
           n == Len(s)
           N == Newlines(s)
           P == Newlines(t)
           m == Cardinality(N)
<1>1. /\ n \in Nat /\ t \in Seq(Cell) /\ Len(t) = n + 1 /\ t[n + 1] = b
      /\ \A k \in 1..n : t[k] = s[k]
  BY Appended
<1>2. DOMAIN t = 1..(n + 1) /\ DOMAIN s = 1..n
  BY <1>1
<1>3. /\ N \in SUBSET (1..n) /\ P \in SUBSET (1..(n + 1))
      /\ b = "n" => P = N \cup {n + 1}
      /\ b # "n" => P = N
  <2> HIDE DEF t, n
  <2> QED BY <1>1, <1>2 DEF Newlines
<1>4. m \in Nat /\ LinesOf(s) \in Seq(Seq(Cell)) /\ Rest(s) \in Seq(Cell)
  BY LineIs, LastIs
<1>5. /\ LinesOf(s) = [k \in 1..m |-> Chomp(SubSeq(s, Begin(s, k) + 1, End(s, k) - 1))]
      /\ LinesOf(t) = [k \in 1..Cardinality(P) |-> Chomp(SubSeq(t, Begin(t, k) + 1, End(t, k) - 1))]
  BY <1>1, LineIs
<1>6. /\ Cardinality(P) = IF b = "n" THEN m + 1 ELSE m
  <2>1. IsFiniteSet(N)
    BY <1>1, <1>3, Ranks
  <2>2. n + 1 \notin N
    BY <1>1, <1>3
  <2> HIDE DEF N, P, n
  <2>3. Cardinality(N \cup {n + 1}) = m + 1
    BY <2>1, <2>2, FS_AddElement
  <2> QED BY <2>3, <1>3
<1>7. ASSUME NEW k \in 1..m
      PROVE  /\ End(t, k) = End(s, k) /\ Begin(t, k) = Begin(s, k)
             /\ SubSeq(t, Begin(t, k) + 1, End(t, k) - 1) = SubSeq(s, Begin(s, k) + 1, End(s, k) - 1)
  <2> DEFINE e == End(s, k)
  <2>1. k \in 1..Cardinality(P)
    BY <1>4, <1>6
  <2>2. e \in N /\ Rank(N, e) = k - 1 /\ e \in 1..n
    BY <1>3, EndIs
  <2>3. {j \in P : j < e} = {j \in N : j < e} /\ e \in P
    <3>1. ~(n + 1 < e)
      BY <1>1, <2>2
    <3> HIDE DEF e, N, P, n
    <3> QED BY <3>1, <1>3, <2>2
  <2>4. Rank(P, e) = k - 1
    BY <2>2, <2>3 DEF Rank
  <2>5. End(t, k) = e
    <3> HIDE DEF t, e
    <3> QED BY <2>1, <2>3, <2>4, <1>1, EndIs
  <2>6. Begin(t, k) = Begin(s, k)
    BY <2>3, <2>5 DEF Begin
  <2>7. Begin(s, k) \in 0..n
    <3> DEFINE S == {0} \cup {j \in N : j < e}
    <3>1. S \in SUBSET (0..n) /\ S # {}
      BY <1>3
    <3>2. Max(S) \in S
      <4> HIDE DEF S, n
      <4> QED BY <1>1, <3>1, MaxIn
    <3>3. Begin(s, k) = Max(S)
      BY DEF Begin
    <3> HIDE DEF S
    <3> QED BY <3>1, <3>2, <3>3
  <2>8. SubSeq(t, Begin(s, k) + 1, e - 1) = SubSeq(s, Begin(s, k) + 1, e - 1)
    <3>1. Begin(s, k) + 1 \in 1..(Len(s) + 1) /\ e - 1 \in 0..Len(s)
      BY <2>2, <2>7
    <3> HIDE DEF e
    <3> QED BY <3>1, SubAppend
  <2> QED BY <2>5, <2>6, <2>8
<1>8. CASE b # "n"
  <2>1. LinesOf(t) = LinesOf(s)
    <3> HIDE DEF t, m, P
    <3> QED BY <1>5, <1>6, <1>7, <1>8
  <2>2. Rest(t) = Append(Rest(s), b)
    <3>1. Max({0} \cup N) + 1 \in 1..(n + 1)
      <4>1. Max({0} \cup N) \in 0..n
        BY LastIs
      <4> HIDE DEF N, n
      <4> QED BY <4>1, <1>1
    <3>2. Rest(t) = SubSeq(t, Max({0} \cup N) + 1, n + 1)
      BY <1>1, <1>3, <1>8 DEF Rest
    <3>3. 0 \in 0..n
      BY <1>1
    <3> HIDE DEF N
    <3> QED BY <3>1, <3>2, <3>3, SubAppend DEF Rest, N
  <2> QED BY <2>1, <2>2, <1>8
<1>9. CASE b = "n"
  <2>1. End(t, m + 1) = n + 1
    <3>1. n + 1 \in P /\ {j \in P : j < n + 1} = N
      <4>1. \A j \in N : j < n + 1
        BY <1>1, <1>3
      <4>2. ~(n + 1 < n + 1)
        BY <1>1
      <4> HIDE DEF N, P, n
      <4> QED BY <4>1, <4>2, <1>3, <1>9
    <3>2. Rank(P, n + 1) = (m + 1) - 1
      <4> HIDE DEF N, P, n, m
      <4>1. Rank(P, n + 1) = Cardinality(N)
        BY <3>1 DEF Rank
      <4> QED BY <4>1, <1>4 DEF m
    <3>3. m + 1 \in 1..Cardinality(P)
      BY <1>4, <1>6, <1>9
    <3> HIDE DEF t, m, n
    <3> QED BY <3>1, <3>2, <3>3, <1>1, EndIs
  <2>2. Begin(t, m + 1) = Max({0} \cup N)
    <3>1. {j \in P : j < n + 1} = N
      <4>1. \A j \in N : j < n + 1
        BY <1>1, <1>3
      <4>2. ~(n + 1 < n + 1)
        BY <1>1
      <4> HIDE DEF N, P, n
      <4> QED BY <4>1, <4>2, <1>3, <1>9
    <3> HIDE DEF N, P, n, t, m
    <3> QED BY <2>1, <3>1 DEF Begin, P
  <2>3. SubSeq(t, Begin(t, m + 1) + 1, End(t, m + 1) - 1) = Rest(s)
    <3>1. Max({0} \cup N) + 1 \in 1..(n + 1) /\ n \in 0..n
      <4>1. Max({0} \cup N) \in 0..n
        BY LastIs
      <4> HIDE DEF N, n
      <4> QED BY <4>1, <1>1
    <3>2. End(t, m + 1) - 1 = n
      <4> HIDE DEF t, m, n
      <4> QED BY <1>1, <2>1
    <3> QED BY <3>1, <3>2, <2>2, SubAppend DEF Rest
  <2>4. LinesOf(t) = Append(LinesOf(s), Chomp(Rest(s)))
    <3> DEFINE l(k) == Chomp(SubSeq(s, Begin(s, k) + 1, End(s, k) - 1))
    <3>1. LinesOf(t) = [k \in 1..(m + 1) |-> IF k = m + 1 THEN Chomp(Rest(s)) ELSE l(k)]
      <4>1. \A k \in 1..(m + 1) : k # m + 1 => k \in 1..m
        BY <1>4
      <4> HIDE DEF t, m, P
      <4> QED BY <4>1, <1>5, <1>6, <1>7, <1>9, <2>3
    <3>2. LinesOf(s) = [k \in 1..m |-> l(k)] /\ Len(LinesOf(s)) = m
      BY <1>4, <1>5
    <3>3. Chomp(Rest(s)) \in Seq(Cell)
      BY <1>4, ChompType
    <3> DEFINE d == Chomp(Rest(s))
               ll == LinesOf(s)
    <3> HIDE DEF l, m, d, ll
    <3>4. /\ Append(ll, d) \in Seq(Seq(Cell)) /\ Len(Append(ll, d)) = m + 1
          /\ Append(ll, d)[m + 1] = d /\ \A k \in 1..m : Append(ll, d)[k] = ll[k]
      BY <3>2, <3>3, <1>4, AppendProperties DEF d, ll
    <3>5. Append(ll, d) = [k \in 1..(m + 1) |-> IF k = m + 1 THEN d ELSE l(k)]
      <4>1. ASSUME NEW k \in 1..(m + 1) PROVE Append(ll, d)[k] = IF k = m + 1 THEN d ELSE l(k)
        <5>1. CASE k = m + 1
          BY <5>1, <3>4
        <5>2. CASE k # m + 1
          <6>1. k \in 1..m
            BY <5>2, <1>4
          <6> QED BY <6>1, <5>2, <3>2, <3>4 DEF ll
        <5> QED BY <5>1, <5>2
      <4>2. DOMAIN Append(ll, d) = 1..(m + 1) /\ Append(ll, d) \in [1..(m + 1) -> Seq(Cell)]
        BY <3>4, LenProperties
      <4> QED BY <4>1, <4>2
    <3> QED BY <3>1, <3>5 DEF d, ll
  <2>5. Rest(t) = << >>
    <3>1. Max({0} \cup P) = n + 1
      <4>1. {0} \cup P \in SUBSET Int /\ n + 1 \in {0} \cup P /\ \A y \in {0} \cup P : y <= n + 1
        BY <1>1, <1>3, <1>9
      <4> HIDE DEF P
      <4> QED BY <4>1, MaxIs
    <3>2. Rest(t) = SubSeq(t, (n + 1) + 1, n + 1)
      BY <3>1, <1>1 DEF Rest
    <3>3. (n + 1) + 1 \in Int /\ n + 1 \in Int /\ n + 1 < (n + 1) + 1
      BY <1>1
    <3> HIDE DEF n, t
    <3> QED BY <3>2, <3>3, SubSeqEmpty
  <2> QED BY <2>4, <2>5, <1>9
<1> QED BY <1>8, <1>9

-----------------------------------------------------------------------------
(* Two sequences joined, element by element.                               *)
LEMMA Joined ==
    ASSUME NEW X, NEW s \in Seq(X), NEW t \in Seq(X)
    PROVE  /\ s \o t \in Seq(X) /\ Len(s \o t) = Len(s) + Len(t)
           /\ \A i \in 1..Len(s) : (s \o t)[i] = s[i]
           /\ \A i \in 1..Len(t) : (s \o t)[Len(s) + i] = t[i]
           /\ s \o << >> = s /\ << >> \o s = s
<1>1. s \o t \in Seq(X)
  BY ConcatProperties
<1>2. Len(s \o t) = Len(s) + Len(t)
  BY ConcatProperties
<1>3. \A i \in 1..Len(s) : (s \o t)[i] = s[i]
  OBVIOUS
<1>4. \A i \in 1..Len(t) : (s \o t)[Len(s) + i] = t[i]
  OBVIOUS
<1>5. s \o << >> = s /\ << >> \o s = s
  OBVIOUS
<1> QED BY <1>1, <1>2, <1>3, <1>4, <1>5

(* The two parts that First and From make of a sequence.                   *)
LEMMA Parts ==
    ASSUME NEW X, NEW s \in Seq(X), NEW k \in 0..Len(s)
    PROVE  /\ First(s, k) \in Seq(X) /\ Len(First(s, k)) = k
           /\ \A i \in 1..k : First(s, k)[i] = s[i]
           /\ From(s, k) \in Seq(X) /\ Len(From(s, k)) = Len(s) - k
           /\ \A i \in 1..(Len(s) - k) : From(s, k)[i] = s[k + i]
           /\ First(s, k) \o From(s, k) = s
<1> DEFINE n == Len(s)
           f == SubSeq(s, 1, k)
           g == SubSeq(s, k + 1, n)
<1>1. n \in Nat /\ k \in 0..n /\ \A i \in 1..n : s[i] \in X
  OBVIOUS
<1>2. /\ f \in Seq(X) /\ Len(f) = IF 1 <= k THEN k - 1 + 1 ELSE 0
      /\ \A i \in 1..(k - 1 + 1) : f[i] = s[1 + i - 1]
  <2>1. \A i \in 1..k : s[i] \in X
    BY <1>1
  <2> HIDE DEF n
  <2> QED BY <1>1, <2>1, SubSeqProperties
<1>3. /\ g \in Seq(X) /\ Len(g) = IF k + 1 <= n THEN n - (k + 1) + 1 ELSE 0
      /\ \A i \in 1..(n - (k + 1) + 1) : g[i] = s[k + 1 + i - 1]
  <2>1. \A i \in (k + 1)..n : s[i] \in X
    BY <1>1
  <2>2. k + 1 \in Int /\ n \in Int
    BY <1>1
  <2> HIDE DEF n
  <2> QED BY <2>1, <2>2, SubSeqProperties
<1> HIDE DEF f, g
<1>4. f \in Seq(X) /\ Len(f) = k /\ \A i \in 1..k : f[i] = s[i]
  BY <1>2
<1>5. g \in Seq(X) /\ Len(g) = n - k /\ \A i \in 1..(n - k) : g[i] = s[k + i]
  <2>1. \A i \in 1..(n - k) : k + 1 + i - 1 = k + i
    BY <1>1
  <2> HIDE DEF n
  <2> QED BY <1>1, <1>3, <2>1
<1>6. f \o g = s
  <2>1. f \o g \in Seq(X) /\ Len(f \o g) = n
    <3>1. f \o g \in Seq(X) /\ Len(f \o g) = Len(f) + Len(g)
      BY <1>4, <1>5, Joined
    <3> QED BY <3>1, <1>1, <1>4, <1>5
  <2>2. ASSUME NEW i \in 1..n PROVE (f \o g)[i] = s[i]
    <3>1. CASE i <= k
      <4>1. i \in 1..k /\ i \in 1..Len(f)
        BY <3>1, <1>1, <1>4
      <4>2. (f \o g)[i] = f[i]
        BY <4>1, <1>4, <1>5, Joined
      <4> QED BY <4>1, <4>2, <1>4
    <3>2. CASE i > k
      <4>1. i - k \in 1..(n - k) /\ i - k \in 1..Len(g) /\ k + (i - k) = i
        BY <3>2, <1>1, <1>5
      <4>2. (f \o g)[Len(f) + (i - k)] = g[i - k]
        BY <4>1, <1>4, <1>5, Joined
      <4>3. Len(f) + (i - k) = i
        BY <1>1, <1>4
      <4>4. (f \o g)[i] = g[i - k] /\ g[i - k] = s[k + (i - k)]
        BY <4>1, <4>2, <4>3, <1>5
      <4> QED BY <4>1, <4>4
    <3>3. i \in Int /\ k \in Int
      BY <1>1
    <3>4. i <= k \/ i > k
      BY <3>3
    <3> QED BY <3>1, <3>2, <3>4
  <2> QED BY <2>1, <2>2, SeqEqual
<1> QED BY <1>4, <1>5, <1>6 DEF First, From, f, g

(* Appending to the second of two sequences appends to both joined.        *)
LEMMA JoinedAppend ==
    ASSUME NEW X, NEW s \in Seq(X), NEW t \in Seq(X), NEW b \in X
    PROVE  s \o Append(t, b) = Append(s \o t, b)
<1>1. Append(t, b) = t \o <<b>> /\ <<b>> \in Seq(X)
  BY AppendIsConcat
<1>2. s \o t \in Seq(X)
  BY Joined
<1>3. Append(s \o t, b) = (s \o t) \o <<b>>
  BY <1>2, AppendIsConcat
<1> QED BY <1>1, <1>3, ConcatAssociative

(* One byte more of a sequence.                                            *)
LEMMA FirstNext ==
    ASSUME NEW X, NEW s \in Seq(X), NEW k \in 0..(Len(s) - 1)
    PROVE  First(s, k + 1) = Append(First(s, k), s[k + 1]) /\ s[k + 1] \in X
<1> DEFINE f == First(s, k)
           g == First(s, k + 1)
           a == Append(f, s[k + 1])
<1>1. k \in 0..Len(s) /\ k + 1 \in 0..Len(s) /\ s[k + 1] \in X /\ k \in Nat
  OBVIOUS
<1>2. f \in Seq(X) /\ Len(f) = k /\ \A i \in 1..k : f[i] = s[i]
  BY <1>1, Parts
<1>3. g \in Seq(X) /\ Len(g) = k + 1 /\ \A i \in 1..(k + 1) : g[i] = s[i]
  BY <1>1, Parts
<1> HIDE DEF f, g
<1>4. a \in Seq(X)
  BY <1>1, <1>2, AppendProperties
<1>5. Len(a) = k + 1 /\ a[k + 1] = s[k + 1] /\ \A i \in 1..k : a[i] = f[i]
  BY <1>1, <1>2, AppendProperties
<1> HIDE DEF a
<1>6. \A i \in 1..(k + 1) : a[i] = g[i]
  <2> SUFFICES ASSUME NEW i \in 1..(k + 1) PROVE a[i] = g[i]
    OBVIOUS
  <2>1. i = k + 1 \/ i \in 1..k
    BY <1>1
  <2> QED BY <2>1, <1>2, <1>3, <1>5
<1>7. a = g
  BY <1>3, <1>4, <1>5, <1>6, SeqEqual
<1> QED BY <1>1, <1>7 DEF a, f, g

(* The splitter gives the lines that a piece completes and keeps what      *)
(* follows the last newline.                                               *)
LEMMA Splits ==
    ASSUME NEW s \in Seq(Cell), NEW t \in Seq(Cell)
    PROVE  /\ Splitter(Rest(s), t) \in Accs
           /\ LinesOf(s) \o Splitter(Rest(s), t).lines = LinesOf(s \o t)
           /\ Splitter(Rest(s), t).temp = Rest(s \o t)
<1> DEFINE n == Len(t)
<1>1. n \in Nat /\ \A k \in 1..n : t[k] \in Cell
  OBVIOUS
<1>2. Rest(s) \in Seq(Cell) /\ LinesOf(s) \in Seq(Seq(Cell))
  BY LastIs, LineIs
<1>3. PICK m \in [0..n -> Accs] :
        /\ m[0] = [lines |-> << >>, temp |-> Rest(s)] /\ Splitter(Rest(s), t) = m[n]
        /\ \A k \in 0..(n - 1) : m[k + 1] = SplitStep(m[k], t[k + 1])
  <2> DEFINE r == Rest(s)
  <2>1. r \in Seq(Cell)
    BY <1>2
  <2> HIDE DEF r
  <2>2. \E m \in [0..n -> Accs] :
          /\ m[0] = [lines |-> << >>, temp |-> r] /\ Splitter(r, t) = m[n]
          /\ \A k \in 0..(n - 1) : m[k + 1] = SplitStep(m[k], t[k + 1])
    BY <2>1, SplitSteps
  <2> QED BY <2>2 DEF r
<1> DEFINE u(k) == s \o First(t, k)
           T == {k \in 0..n : LinesOf(s) \o m[k].lines = LinesOf(u(k)) /\ m[k].temp = Rest(u(k))}
<1>4. \A k \in 0..n : u(k) \in Seq(Cell) /\ First(t, k) \in Seq(Cell)
  BY Parts, Joined
<1>5. u(0) = s /\ u(n) = s \o t
  <2>1. First(t, 0) = << >>
    <3>1. 1 \in Int /\ 0 \in Int
      OBVIOUS
    <3> QED BY <3>1, SubSeqEmpty DEF First
  <2>2. First(t, n) = t
    BY SubSeqFull DEF First
  <2> QED BY <2>1, <2>2, Joined
<1>6. \A k \in 0..(n - 1) : u(k + 1) = Append(u(k), t[k + 1])
  <2> SUFFICES ASSUME NEW k \in 0..(n - 1) PROVE u(k + 1) = Append(u(k), t[k + 1])
    OBVIOUS
  <2>1. First(t, k + 1) = Append(First(t, k), t[k + 1]) /\ t[k + 1] \in Cell
    BY FirstNext
  <2>2. First(t, k) \in Seq(Cell)
    <3>1. k \in 0..n
      BY <1>1
    <3> QED BY <3>1, <1>4
  <2> DEFINE f == First(t, k)
             b == t[k + 1]
  <2>3. f \in Seq(Cell) /\ b \in Cell /\ First(t, k + 1) = Append(f, b)
    BY <2>1, <2>2
  <2> HIDE DEF f, b
  <2>4. s \o Append(f, b) = Append(s \o f, b)
    <3> DEFINE X == Cell
    <3>1. s \in Seq(X) /\ f \in Seq(X) /\ b \in X
      BY <2>3
    <3> HIDE DEF X
    <3> QED BY <3>1, JoinedAppend
  <2> QED BY <2>3, <2>4 DEF f, b
<1> HIDE DEF u, n
<1>7. 0 \in T
  <2>1. m[0].lines = << >> /\ m[0].temp = Rest(s) /\ 0 \in 0..n
    BY <1>1, <1>3
  <2>2. LinesOf(s) \o << >> = LinesOf(s)
    BY <1>2, Joined
  <2> QED BY <2>1, <2>2, <1>5
<1>8. ASSUME NEW k \in 0..(n - 1), k \in T PROVE k + 1 \in T
  <2> DEFINE b == t[k + 1]
             d == m[k].lines
  <2>1. k \in 0..n /\ k + 1 \in 0..n /\ k + 1 \in 1..n /\ b \in Cell
    BY <1>1
  <2>2. m[k] \in Accs /\ d \in Seq(Seq(Cell)) /\ u(k) \in Seq(Cell)
    BY <2>1, <1>3, <1>4 DEF Accs
  <2>3. m[k + 1] = SplitStep(m[k], b) /\ u(k + 1) = Append(u(k), b)
    BY <1>3, <1>6
  <2>4. LinesOf(s) \o d = LinesOf(u(k)) /\ m[k].temp = Rest(u(k))
    BY <1>8
  <2> HIDE DEF b, T
  <2>5. CASE b = "n"
    <3>1. m[k + 1] = [lines |-> Append(d, Chomp(Rest(u(k)))), temp |-> << >>]
      BY <2>3, <2>4, <2>5 DEF SplitStep
    <3>2. LinesOf(u(k + 1)) = Append(LinesOf(u(k)), Chomp(Rest(u(k)))) /\ Rest(u(k + 1)) = << >>
      BY <2>1, <2>2, <2>3, <2>5, LinesAppend
    <3>3. Chomp(Rest(u(k))) \in Seq(Cell)
      BY <2>2, LastIs, ChompType
    <3> DEFINE l == LinesOf(s)
               x == Chomp(Rest(u(k)))
    <3>4. l \o Append(d, x) = Append(l \o d, x)
      <4> DEFINE X == Seq(Cell)
      <4>1. l \in Seq(X) /\ d \in Seq(X) /\ x \in X
        BY <3>3, <1>2, <2>2
      <4> HIDE DEF l, x, d, X
      <4> QED BY <4>1, JoinedAppend
    <3>5. m[k + 1].lines = Append(d, x) /\ m[k + 1].temp = << >>
      <4> HIDE DEF x
      <4> QED BY <3>1 DEF x
    <3>6. l \o m[k + 1].lines = LinesOf(u(k + 1))
      <4>1. Append(l \o d, x) = LinesOf(u(k + 1))
        BY <3>2, <2>4
      <4> HIDE DEF l, x
      <4> QED BY <4>1, <3>4, <3>5
    <3> QED BY <3>2, <3>5, <3>6, <2>1 DEF T
  <2>6. CASE b # "n"
    <3>1. m[k + 1] = [m[k] EXCEPT !.temp = Append(@, b)]
      BY <2>3, <2>6 DEF SplitStep
    <3>2. m[k + 1].lines = d /\ m[k + 1].temp = Append(m[k].temp, b)
      BY <3>1, <2>2 DEF Accs
    <3>3. LinesOf(u(k + 1)) = LinesOf(u(k)) /\ Rest(u(k + 1)) = Append(Rest(u(k)), b)
      BY <2>1, <2>2, <2>3, <2>6, LinesAppend
    <3> QED BY <3>2, <3>3, <2>1, <2>4 DEF T
  <2> QED BY <2>5, <2>6
<1>9. 0..n \subseteq T
  <2> HIDE DEF T
  <2> QED BY <1>1, <1>7, <1>8, UpTo
<1>10. n \in T /\ m[n] \in Accs
  BY <1>1, <1>3, <1>9
<1> QED BY <1>3, <1>5, <1>10

(* A sequence is its first element and the others.                         *)
LEMMA HeadAndTail ==
    ASSUME NEW X, NEW x \in X, NEW t \in Seq(X)
    PROVE  /\ <<x>> \o t \in Seq(X) /\ <<x>> \o t # << >>
           /\ Head(<<x>> \o t) = x /\ Tail(<<x>> \o t) = t
<1> DEFINE s == <<x>> \o t
<1>1. <<x>> \in Seq(X) /\ Len(<<x>>) = 1 /\ <<x>>[1] = x
  OBVIOUS
<1>2. s \in Seq(X) /\ Len(s) = 1 + Len(t)
  BY <1>1, Joined
<1>3. s[1] = x /\ \A i \in 1..Len(t) : s[1 + i] = t[i]
  <2> HIDE DEF s
  <2>1. 1 \in 1..Len(<<x>>)
    BY <1>1
  <2> QED BY <1>1, <2>1, Joined DEF s
<1> HIDE DEF s
<1>4. Len(t) \in Nat
  OBVIOUS
<1>5. s # << >>
  <2>1. Len(s) # 0
    BY <1>2, <1>4
  <2> QED BY <2>1, <1>2
<1>6. Tail(s) \in Seq(X) /\ Len(Tail(s)) = Len(t) /\ \A i \in 1..Len(t) : Tail(s)[i] = s[1 + i]
  <2>1. /\ Tail(s) \in Seq(X) /\ Len(Tail(s)) = Len(s) - 1
        /\ \A i \in 1..Len(Tail(s)) : Tail(s)[i] = s[i + 1]
    BY <1>2, <1>5, HeadTailProperties
  <2>2. Len(s) - 1 = Len(t)
    BY <1>2, <1>4
  <2>3. \A i \in 1..Len(t) : i + 1 = 1 + i
    BY <1>4
  <2> QED BY <2>1, <2>2, <2>3
<1>7. Tail(s) = t
  BY <1>3, <1>6, SeqEqual
<1>8. Head(s) = x
  BY <1>2, <1>3, <1>5
<1> QED BY <1>2, <1>5, <1>7, <1>8 DEF s

(* The bytes of a vector are those of its first line, its newline and      *)
(* those of the other lines.                                               *)
LEMMA BytesIs ==
    ASSUME NEW v \in Seq(Seq(Cell))
    PROVE  /\ Bytes("vector", v) \in Seq(Cell)
           /\ v = << >> => Bytes("vector", v) = << >>
           /\ v # << >> => Bytes("vector", v) = Append(Head(v), "n") \o Bytes("vector", Tail(v))
<1> DEFINE Ended(w) == [i \in DOMAIN w |-> Append(w[i], "n")]
           ss == Ended(v)
<1>1. \A w \in Seq(Seq(Cell)) : Bytes("vector", w) = FlattenSeq(Ended(w))
  BY DEF Bytes
<1>2. \A w \in Seq(Seq(Cell)) : Ended(w) \in Seq(Seq(Cell)) /\ Len(Ended(w)) = Len(w)
  <2> SUFFICES ASSUME NEW w \in Seq(Seq(Cell)) PROVE Ended(w) \in Seq(Seq(Cell)) /\ Len(Ended(w)) = Len(w)
    OBVIOUS
  <2>1. \A l \in Seq(Cell) : Append(l, "n") \in Seq(Cell)
    <3>1. "n" \in Cell
      BY DEF Cell
    <3> QED BY <3>1, AppendProperties
  <2>2. DOMAIN w = 1..Len(w) /\ Len(w) \in Nat /\ \A i \in 1..Len(w) : w[i] \in Seq(Cell)
    OBVIOUS
  <2>3. \A i \in 1..Len(w) : Append(w[i], "n") \in Seq(Cell)
    BY <2>1, <2>2
  <2>4. Ended(w) = [i \in 1..Len(w) |-> Append(w[i], "n")]
    BY <2>2
  <2> HIDE DEF Ended
  <2> DEFINE e(i) == Append(w[i], "n")
             n == Len(w)
  <2>5. n \in Nat /\ (\A i \in 1..n : e(i) \in Seq(Cell)) /\ Ended(w) = [i \in 1..n |-> e(i)]
    BY <2>2, <2>3, <2>4
  <2> HIDE DEF e, n
  <2>6. Ended(w) \in Seq(Seq(Cell)) /\ Len(Ended(w)) = n
    BY <2>5
  <2> QED BY <2>6 DEF n
<1>3. Bytes("vector", v) \in Seq(Cell)
  <2> HIDE DEF Ended
  <2>1. Ended(v) \in Seq(Seq(Cell)) /\ Len(Ended(v)) \in Nat
    BY <1>2
  <2>2. FlattenSeq(Ended(v)) \in Seq(Cell)
    <3> DEFINE ww == Ended(v)
    <3> HIDE DEF ww
    <3>1. ww \in Seq(Seq(Cell)) /\ Len(ww) \in Nat
      BY <2>1 DEF ww
    <3>2. PICK m \in [0..Len(ww) -> Seq(Cell)] : FlattenSeq(ww) = m[Len(ww)]
      BY <3>1, FlatSteps
    <3>3. Len(ww) \in 0..Len(ww)
      BY <3>1
    <3> QED BY <3>2, <3>3 DEF ww
  <2> QED BY <1>1, <2>2
<1>4. ASSUME v = << >> PROVE Bytes("vector", v) = << >>
  <2>1. Ended(v) = << >>
    <3> HIDE DEF Ended
    <3>1. Ended(v) \in Seq(Seq(Cell)) /\ Len(Ended(v)) = 0
      BY <1>2, <1>4
    <3> QED BY <3>1
  <2>2. FlattenSeq(<< >>) = << >>
    BY DEF FlattenSeq
  <2> QED BY <2>1, <2>2, <1>1
<1>5. ASSUME v # << >> PROVE Bytes("vector", v) = Append(Head(v), "n") \o Bytes("vector", Tail(v))
  <2>1. Tail(v) \in Seq(Seq(Cell)) /\ Len(Tail(v)) = Len(v) - 1 /\ Len(v) \in Nat /\ Len(v) # 0
    BY <1>5
  <2>2. \A i \in 1..Len(Tail(v)) : Tail(v)[i] = v[i + 1]
    BY <1>5
  <2>3. /\ ss \in Seq(Seq(Cell)) /\ Len(ss) = Len(v)
        /\ Ended(Tail(v)) \in Seq(Seq(Cell)) /\ Len(Ended(Tail(v))) = Len(Tail(v))
    <3> HIDE DEF Ended
    <3> QED BY <1>2, <2>1, Zenon
  <2>4. \A i \in 1..Len(v) : ss[i] = Append(v[i], "n")
    OBVIOUS
  <2>5. \A i \in 1..Len(Tail(v)) : Ended(Tail(v))[i] = Append(Tail(v)[i], "n")
    <3>1. DOMAIN Tail(v) = 1..Len(Tail(v))
      BY <2>1
    <3> QED BY <3>1
  <2> HIDE DEF ss, Ended
  <2>6. ss # << >>
    BY <2>1, <2>3
  <2>7. /\ Tail(ss) \in Seq(Seq(Cell)) /\ Len(Tail(ss)) = Len(v) - 1
        /\ \A i \in 1..Len(Tail(ss)) : Tail(ss)[i] = ss[i + 1]
    BY <2>3, <2>6
  <2>8. \A i \in 1..Len(Tail(ss)) : Tail(ss)[i] = Ended(Tail(v))[i]
    <3> SUFFICES ASSUME NEW i \in 1..Len(Tail(ss)) PROVE Tail(ss)[i] = Ended(Tail(v))[i]
      OBVIOUS
    <3>1. i \in 1..Len(Tail(v)) /\ i + 1 \in 1..Len(v)
      BY <2>1, <2>7
    <3> QED BY <3>1, <2>2, <2>4, <2>5, <2>7
  <2>9. Tail(ss) = Ended(Tail(v))
    <3>1. Len(Tail(ss)) = Len(Ended(Tail(v)))
      BY <2>1, <2>3, <2>7
    <3> QED BY <3>1, <2>3, <2>7, <2>8, SeqEqual
  <2>10. Head(ss) = Append(Head(v), "n")
    <3>1. Head(ss) = ss[1] /\ Head(v) = v[1] /\ 1 \in 1..Len(v)
      BY <2>1, <2>3, <2>6, <1>5
    <3> QED BY <3>1, <2>4
  <2>11. FlattenSeq(ss) = Head(ss) \o FlattenSeq(Tail(ss))
    BY <2>3, <2>6, FlatCons
  <2>12. Bytes("vector", v) = FlattenSeq(ss) /\ Bytes("vector", Tail(v)) = FlattenSeq(Ended(Tail(v)))
    BY <1>1, <2>1 DEF ss
  <2> QED BY <2>9, <2>10, <2>11, <2>12
<1> QED BY <1>3, <1>4, <1>5

-----------------------------------------------------------------------------
(* What is left of a sequence when some of its elements are lost.          *)
Sub(s, t) ==
    \E f \in [1..Len(s) -> 1..Len(t)] :
        /\ \A i, j \in 1..Len(s) : i < j => f[i] < f[j]
        /\ \A i \in 1..Len(s) : s[i] = t[f[i]]

(* Nothing is lost when nothing happens.                                   *)
LEMMA SubSelf == ASSUME NEW X, NEW s \in Seq(X) PROVE Sub(s, s)
<1> DEFINE f == [i \in 1..Len(s) |-> i]
<1>1. f \in [1..Len(s) -> 1..Len(s)]
  OBVIOUS
<1>2. /\ \A i, j \in 1..Len(s) : i < j => f[i] < f[j]
      /\ \A i \in 1..Len(s) : s[i] = s[f[i]]
  OBVIOUS
<1> HIDE DEF f
<1> QED BY <1>1, <1>2 DEF Sub

(* What is left of t when a middle part is lost as well.                   *)
LEMMA SubLoses ==
    ASSUME NEW X, NEW x \in Seq(X), NEW y \in Seq(X), NEW z \in Seq(X), NEW t \in Seq(X),
           Sub(x \o (y \o z), t)
    PROVE  Sub(x \o z, t)
<1> DEFINE w == y \o z
           u == x \o w
           v == x \o z
           a == Len(x)
           b == Len(y)
           d == Len(z)
<1>1. a \in Nat /\ b \in Nat /\ d \in Nat
  OBVIOUS
<1>2. w \in Seq(X) /\ Len(w) = b + d /\ \A i \in 1..d : w[b + i] = z[i]
  BY Joined
<1>3. v \in Seq(X) /\ Len(v) = a + d /\ (\A i \in 1..a : v[i] = x[i]) /\ \A i \in 1..d : v[a + i] = z[i]
  BY Joined
<1> HIDE DEF w
<1>4. u \in Seq(X) /\ Len(u) = a + Len(w) /\ (\A i \in 1..a : u[i] = x[i])
      /\ \A i \in 1..Len(w) : u[a + i] = w[i]
  <2>1. w \in Seq(X)
    BY <1>2
  <2>2. u \in Seq(X) /\ Len(u) = a + Len(w)
    BY <2>1, Joined
  <2>3. \A i \in 1..a : u[i] = x[i]
    BY <2>1, Joined
  <2>4. \A i \in 1..Len(w) : u[a + i] = w[i]
    BY <2>1, Joined
  <2> QED BY <2>2, <2>3, <2>4
<1>5. Sub(u, t)
  BY DEF w
<1> HIDE DEF u, v, a, b, d
<1>6. PICK f \in [1..Len(u) -> 1..Len(t)] :
        /\ \A i, j \in 1..Len(u) : i < j => f[i] < f[j]
        /\ \A i \in 1..Len(u) : u[i] = t[f[i]]
  BY <1>5 DEF Sub
<1> DEFINE p(i) == IF i <= a THEN i ELSE i + b
           g == [i \in 1..Len(v) |-> f[p(i)]]
<1>7. ASSUME NEW i \in 1..Len(v) PROVE p(i) \in 1..Len(u) /\ u[p(i)] = v[i]
  <2>1. CASE i <= a
    <3>1. i \in 1..a /\ i \in 1..Len(u)
      BY <2>1, <1>1, <1>2, <1>3, <1>4, SMTT(40)
    <3> QED BY <3>1, <2>1, <1>3, <1>4
  <2>2. CASE ~(i <= a)
    <3> DEFINE k == i - a
    <3>1. k \in 1..d /\ b + k \in 1..Len(w) /\ a + k = i /\ a + (b + k) = i + b /\ i + b \in 1..Len(u)
      BY <2>2, <1>1, <1>2, <1>3, <1>4
    <3> HIDE DEF k
    <3>2. v[a + k] = z[k] /\ w[b + k] = z[k] /\ u[a + (b + k)] = w[b + k]
      BY <3>1, <1>2, <1>3, <1>4
    <3> QED BY <3>1, <3>2, <2>2
  <2> QED BY <2>1, <2>2
<1>8. \A i, j \in 1..Len(v) : i < j => p(i) < p(j)
  BY <1>1, <1>3
<1> HIDE DEF p
<1>9. g \in [1..Len(v) -> 1..Len(t)]
  BY <1>6, <1>7
<1>10. \A i, j \in 1..Len(v) : i < j => g[i] < g[j]
  BY <1>6, <1>7, <1>8
<1>11. \A i \in 1..Len(v) : v[i] = t[g[i]]
  BY <1>6, <1>7
<1> HIDE DEF g
<1>12. Sub(v, t)
  BY <1>9, <1>10, <1>11 DEF Sub
<1> QED BY <1>12 DEF v

(* Matched finds a sequence that is left of t.                             *)
LEMMA SubMatched ==
    ASSUME NEW s \in Seq(Cell), NEW t \in Seq(Cell), Sub(s, t)
    PROVE  Matched(s, t) = Len(s)
<1> DEFINE n == Len(t)
           l == Len(s)
<1>1. n \in Nat /\ l \in Nat
  OBVIOUS
<1>2. PICK m \in [0..n -> Nat] :
        /\ m[0] = 0 /\ Matched(s, t) = m[n]
        /\ \A k \in 0..(n - 1) :
              m[k + 1] = IF m[k] < l /\ s[m[k] + 1] = t[k + 1] THEN m[k] + 1 ELSE m[k]
  BY MatchedSteps
<1>3. PICK f \in [1..l -> 1..n] :
        /\ \A i, j \in 1..l : i < j => f[i] < f[j]
        /\ \A i \in 1..l : s[i] = t[f[i]]
  BY DEF Sub
<1> HIDE DEF n, l
<1> DEFINE T == {k \in 0..n : m[k] <= l /\ \A i \in 1..l : f[i] <= k => i <= m[k]}
<1>4. 0 \in T
  BY <1>1, <1>2, <1>3
<1>5. ASSUME NEW k \in 0..(n - 1), k \in T PROVE k + 1 \in T
  <2>1. k \in 0..n /\ k + 1 \in 0..n /\ m[k] \in Nat /\ m[k] <= l
    BY <1>1, <1>2, <1>5
  <2>2. m[k + 1] = IF m[k] < l /\ s[m[k] + 1] = t[k + 1] THEN m[k] + 1 ELSE m[k]
    BY <1>2
  <2>3. \A i \in 1..l : f[i] <= k => i <= m[k]
    BY <1>5
  <2>4. ASSUME NEW i \in 1..l, f[i] <= k + 1 PROVE i <= m[k + 1]
    <3>1. CASE f[i] <= k
      BY <3>1, <2>1, <2>2, <2>3
    <3>2. CASE f[i] = k + 1
      <4>1. s[i] = t[k + 1]
        BY <3>2, <1>3
      <4>2. i - 1 <= m[k]
        <5>1. CASE i = 1
          BY <5>1, <2>1
        <5>2. CASE i # 1
          <6>1. i - 1 \in 1..l /\ i - 1 < i
            BY <5>2, <1>1
          <6>2. f[i - 1] < f[i] /\ f[i - 1] \in Int
            BY <6>1, <1>3
          <6>3. f[i - 1] <= k
            BY <6>2, <3>2, <1>1, SMTT(40)
          <6> QED BY <6>1, <6>3, <2>3
        <5> QED BY <5>1, <5>2
      <4>3. CASE m[k] = i - 1
        <5>1. m[k] < l /\ m[k] + 1 = i
          BY <4>3, <1>1
        <5> QED BY <5>1, <4>1, <2>2
      <4>4. CASE m[k] # i - 1
        BY <4>2, <4>4, <2>1, <2>2
      <4> QED BY <4>3, <4>4
    <3>3. f[i] \in Int
      BY <1>3
    <3> QED BY <3>1, <3>2, <3>3, <2>4, <2>1
  <2>5. m[k + 1] <= l
    BY <2>1, <2>2, <1>1
  <2> QED BY <2>1, <2>4, <2>5
<1>6. 0..n \subseteq T
  <2> HIDE DEF T
  <2> QED BY <1>1, <1>4, <1>5, UpTo
<1>7. n \in T
  BY <1>1, <1>6
<1>8. m[n] = l
  <2>1. m[n] \in Nat /\ m[n] <= l /\ \A i \in 1..l : f[i] <= n => i <= m[n]
    BY <1>1, <1>2, <1>7
  <2>2. CASE l = 0
    BY <2>1, <2>2
  <2>3. CASE l # 0
    <3>1. l \in 1..l /\ f[l] <= n
      BY <2>3, <1>1, <1>3
    <3> QED BY <3>1, <2>1, <1>1
  <2> QED BY <2>2, <2>3
<1> QED BY <1>2, <1>8 DEF l

-----------------------------------------------------------------------------
Sources == IF c.from = "vector" THEN Seq(Seq(Cell)) ELSE Seq(Cell)
Ends == {"eof", "last", "done"}

TypeOK ==
    /\ c \in Cases
    /\ source \in Sources
    /\ failbit \in BOOLEAN /\ feed \in {"call", "write", "done"} /\ piece \in Seq(Cell)
    /\ pipe1 \in Seq(Cell) /\ pipe2 \in Seq(Cell)
    /\ pc \in {"read", "put", "overflow", "flush", "sync"} \cup Ends
    /\ held \in Seq(Cell)
    /\ mem \in [0..(BUFSIZ - 1) -> Cell]
    /\ gptr \in 0..BUFSIZ /\ egptr \in 0..BUFSIZ /\ back \in Nat /\ budget \in Nat
    /\ seen \in Seq(Cell)
    /\ put \in Seq(Cell) /\ flushing \in Seq(Cell) /\ badbit \in BOOLEAN
    /\ collect \in {"read", "done"} /\ taken \in Seq(Cell)

(* The input pump.                                                         *)
Feeding ==
    /\ feed # "write" => piece = << >>
    /\ feed = "done" => source = << >>
    /\ failbit => source = << >>

(* The program or the function, and the output pump behind it.             *)
Copying ==
    /\ c.mid = "program" =>
        /\ pc \in {"read", "done"} /\ put = << >> /\ flushing = << >> /\ ~badbit
        /\ gptr = egptr /\ back = 0
    /\ c.mid = "function" => (held # << >> <=> pc \in {"put", "overflow"})
    /\ pc \notin {"overflow", "sync", "last"} => flushing = << >>
    /\ pc \in Ends => AtEof1 /\ gptr + back = egptr /\ held = << >>
    /\ badbit => pc \notin {"overflow", "flush", "sync"}
    /\ collect = "done" => pc = "done" /\ pipe2 = << >>

(* The get area: eback() is at its end until the first fill; a later fill  *)
(* leaves put_back_size characters before what it has read.                *)
Area ==
    /\ gptr + back <= egptr
    /\ back <= PutBack /\ back <= Len(seen)
    /\ eback \in {0, BUFSIZ}
    /\ eback = BUFSIZ => gptr = BUFSIZ /\ seen = << >>
    /\ eback = 0 => Len(seen) = gptr + back \/ PutBack < egptr

Control == TypeOK /\ Feeding /\ Copying /\ Area

(* The assumption on the cases, for Cell instead of the bytes of an input. *)
LEMMA CaseType ==
    ASSUME NEW x \in Cases
    PROVE  /\ x.from \in {"string", "vector", "istream"}
           /\ x.input \in IF x.from = "vector" THEN Seq(Seq(Cell)) ELSE Seq(Cell)
           /\ x.mid \in {"program", "function"} /\ x.to \in {"string", "lines", "ostream"}
           /\ x.ungets \in Nat /\ x.room \in Nat
           /\ x.append \in BOOLEAN /\ x.late \in BOOLEAN /\ x.signals \in BOOLEAN
<1> DEFINE Byte == {"a", "b", "n", "r", "f"}
<1>1. /\ x.from \in {"string", "vector", "istream"}
      /\ x.input \in IF x.from = "vector" THEN Seq(Seq(Byte)) ELSE Seq(Byte)
      /\ x.mid \in {"program", "function"} /\ x.to \in {"string", "lines", "ostream"}
      /\ x.ungets \in Nat /\ x.room \in Nat
      /\ {x.append, x.late, x.signals} \subseteq BOOLEAN
  BY CasesAssumption
<1>2. Byte \subseteq Cell
  BY DEF Cell
<1> HIDE DEF Byte
<1>3. Seq(Byte) \subseteq Seq(Cell)
  BY <1>2, SeqMonotonic
<1>4. Seq(Seq(Byte)) \subseteq Seq(Seq(Cell))
  BY <1>3, SeqMonotonic
<1>5. x.input \in IF x.from = "vector" THEN Seq(Seq(Cell)) ELSE Seq(Cell)
  <2>1. CASE x.from = "vector"
    BY <2>1, <1>1, <1>4
  <2>2. CASE x.from # "vector"
    BY <2>2, <1>1, <1>3
  <2> QED BY <2>1, <2>2
<1>6. x.append \in BOOLEAN /\ x.late \in BOOLEAN /\ x.signals \in BOOLEAN
  BY <1>1
<1> QED BY <1>1, <1>5, <1>6

(* What a source has is a sequence of bytes.                               *)
LEMMA BytesType ==
    ASSUME NEW from, NEW s, s \in IF from = "vector" THEN Seq(Seq(Cell)) ELSE Seq(Cell)
    PROVE  /\ Bytes(from, s) \in Seq(Cell)
           /\ s = << >> => Bytes(from, s) = << >>
<1>1. CASE from = "vector"
  BY <1>1, BytesIs
<1>2. CASE from # "vector"
  BY <1>2 DEF Bytes
<1> QED BY <1>1, <1>2

(* The assumption on the sizes, as it is used.                             *)
LEMMA SizesType ==
    /\ BUFSIZ \in Nat /\ PutBack \in Nat /\ PIPESIZE \in Nat
    /\ 0 < BUFSIZ /\ 0 < PutBack /\ PutBack < BUFSIZ
BY SizesAssumption

(* A call of a functor gives some bytes of its source, as long as there    *)
(* are any, and leaves those that follow.                                  *)
LEMMA Given ==
    ASSUME TypeOK, failbit => source = << >>
    PROVE  LET given == Source(BUFSIZ)
           IN  /\ given.bytes \in Seq(Cell) /\ given.left \in Sources
               /\ given.bytes \o Bytes(c.from, given.left) = Bytes(c.from, source)
               /\ given.bytes = << >> => given.left = << >>
               /\ c.from = "istream" /\ Len(given.bytes) < BUFSIZ => given.left = << >>
<1> DEFINE given == Source(BUFSIZ)
<1>1. BUFSIZ \in Nat /\ 0 < BUFSIZ
  BY SizesType
<1>2. c.from \in {"string", "vector", "istream"} /\ source \in Sources /\ failbit \in BOOLEAN
  BY CaseType DEF TypeOK
<1> DEFINE d == StringSource(source, BUFSIZ)
<1>3. ASSUME source \in Seq(Cell)
      PROVE  /\ d.bytes \in Seq(Cell) /\ d.left \in Seq(Cell)
             /\ d.bytes \o d.left = source
             /\ d.bytes = << >> => d.left = << >>
             /\ Len(d.bytes) < BUFSIZ => d.left = << >>
  <2> DEFINE n == Len(source)
             k == Least(n, BUFSIZ)
             f == First(source, k)
             g == From(source, k)
  <2>1. n \in Nat /\ k \in 0..n /\ (k = n \/ k = BUFSIZ)
    BY <1>1, <1>3 DEF Least
  <2>2. /\ f \in Seq(Cell) /\ Len(f) = k /\ g \in Seq(Cell) /\ Len(g) = n - k
        /\ f \o g = source
    <3> HIDE DEF k
    <3>1. k \in 0..Len(source)
      BY <2>1
    <3> QED BY <1>3, <3>1, Parts
  <2>3. StringSource(source, BUFSIZ) = [bytes |-> f, left |-> g]
    BY DEF StringSource
  <2> HIDE DEF f, g, k, n
  <2>4. k < BUFSIZ => g = << >>
    BY <1>1, <2>1, <2>2
  <2>5. f = << >> => k < BUFSIZ
    BY <1>1, <2>1, <2>2
  <2>6. d.bytes = f /\ d.left = g
    BY <2>3
  <2> HIDE DEF d
  <2> QED BY <2>2, <2>4, <2>5, <2>6
<1>4. CASE c.from = "string"
  <2>1. source \in Seq(Cell)
    BY <1>2, <1>4 DEF Sources
  <2>2. given = StringSource(source, BUFSIZ)
    BY <1>4 DEF Source
  <2>3. \A s : Bytes(c.from, s) = s
    BY <1>4 DEF Bytes
  <2>4. Sources = Seq(Cell)
    BY <1>4 DEF Sources
  <2> HIDE DEF given, d
  <2>5. given = d
    BY <2>2 DEF d
  <2>6. c.from # "istream"
    BY <1>4
  <2> QED BY <1>3, <2>1, <2>3, <2>4, <2>5, <2>6 DEF given
<1>5. CASE c.from = "istream"
  <2>1. source \in Seq(Cell)
    BY <1>2, <1>5 DEF Sources
  <2>2. \A s : Bytes(c.from, s) = s
    BY <1>5 DEF Bytes
  <2>3. CASE ~failbit
    <3>1. given = StringSource(source, BUFSIZ)
      BY <1>5, <2>3 DEF Source, StreamSource
    <3>2. Sources = Seq(Cell)
      BY <1>5 DEF Sources
    <3> HIDE DEF given, d
    <3>3. given = d
      BY <3>1 DEF d
    <3>4. d.bytes \o Bytes(c.from, d.left) = Bytes(c.from, source)
      <4>1. d.bytes \o d.left = source
        BY <1>3, <2>1
      <4>2. Bytes(c.from, d.left) = d.left /\ Bytes(c.from, source) = source
        BY <2>2
      <4> QED BY <4>1, <4>2
    <3> QED BY <1>3, <2>1, <3>2, <3>3, <3>4 DEF given
  <2>4. CASE failbit
    <3>1. source = << >>
      BY <2>4
    <3>2. given = [bytes |-> << >>, left |-> source]
      BY <1>5, <2>4 DEF Source
    <3>3. << >> \o source = source
      BY <3>1
    <3> HIDE DEF given
    <3>4. given.bytes = << >> /\ given.left = source /\ << >> \in Seq(Cell)
      BY <3>2
    <3> QED BY <1>5, <2>1, <2>2, <3>1, <3>3, <3>4 DEF Sources, given
  <2> QED BY <2>3, <2>4
<1>6. CASE c.from = "vector"
  <2>1. source \in Seq(Seq(Cell))
    BY <1>2, <1>6 DEF Sources
  <2>2. given = VectorSource(source, BUFSIZ)
    BY <1>6 DEF Source
  <2>3. CASE source = << >>
    <3>1. given = [bytes |-> << >>, left |-> source]
      BY <2>2, <2>3 DEF VectorSource
    <3>2. Bytes("vector", source) = << >> /\ << >> \o << >> = << >> /\ << >> \in Seq(Cell)
      <4>1. Bytes("vector", source) = << >>
        BY <2>1, <2>3, BytesIs
      <4>2. << >> \in Seq(Cell)
        OBVIOUS
      <4>3. << >> \o << >> = << >>
        BY <4>2, Joined
      <4> QED BY <4>1, <4>2, <4>3
    <3> HIDE DEF given
    <3>3. given.bytes = << >> /\ given.left = source
      BY <3>1
    <3> QED BY <1>6, <2>1, <2>3, <3>2, <3>3 DEF Sources, given
  <2>4. CASE source # << >>
    <3> DEFINE str == Head(source)
               rest == Tail(source)
               b == Bytes("vector", rest)
    <3>1. str \in Seq(Cell) /\ rest \in Seq(Seq(Cell))
      BY <2>1, <2>4
    <3>2. b \in Seq(Cell) /\ Bytes("vector", source) = Append(str, "n") \o b
      BY <2>1, <2>4, <3>1, BytesIs
    <3>3. "n" \in Cell
      BY DEF Cell
    <3>4. CASE Len(str) < BUFSIZ
      <4>1. given = [bytes |-> Append(str, "n"), left |-> rest]
        BY <2>2, <2>4, <3>4 DEF VectorSource
      <4>2. Append(str, "n") \in Seq(Cell) /\ Append(str, "n") # << >>
        <5> HIDE DEF str
        <5> QED BY <3>1, <3>3, AppendProperties
      <4> HIDE DEF given, str, rest
      <4>3. given.bytes = Append(str, "n") /\ given.left = rest
        BY <4>1
      <4> QED BY <1>6, <3>1, <3>2, <4>2, <4>3 DEF Sources, given
    <3>5. CASE ~(Len(str) < BUFSIZ)
      <4> DEFINE f == First(str, BUFSIZ)
                 g == From(str, BUFSIZ)
                 l == <<g>> \o rest
      <4>1. given = [bytes |-> f, left |-> l]
        BY <2>2, <2>4, <3>5 DEF VectorSource
      <4> HIDE DEF given, str, rest, b
      <4>2. BUFSIZ \in 0..Len(str)
        BY <1>1, <3>1, <3>5
      <4>3. /\ f \in Seq(Cell) /\ Len(f) = BUFSIZ /\ g \in Seq(Cell) /\ f \o g = str
        BY <3>1, <4>2, Parts
      <4> HIDE DEF f, g
      <4>4. f # << >>
        BY <1>1, <4>3
      <4>5. l \in Seq(Seq(Cell)) /\ l # << >> /\ Head(l) = g /\ Tail(l) = rest
        BY <3>1, <4>3, HeadAndTail
      <4> HIDE DEF l
      <4>6. Bytes("vector", l) = Append(g, "n") \o b
        BY <4>5, BytesIs DEF b
      <4>7. f \o (Append(g, "n") \o b) = Append(str, "n") \o b
        <5>1. f \o Append(g, "n") = Append(str, "n") /\ Append(g, "n") \in Seq(Cell)
          BY <3>3, <4>3, JoinedAppend, AppendProperties
        <5>2. (f \o Append(g, "n")) \o b = f \o (Append(g, "n") \o b)
          <6> DEFINE h == Append(g, "n")
          <6> HIDE DEF h
          <6>1. h \in Seq(Cell)
            BY <5>1 DEF h
          <6>2. (f \o h) \o b = f \o (h \o b)
            BY <6>1, <3>2, <4>3, Assoc
          <6> QED BY <6>2 DEF h
        <5> QED BY <5>1, <5>2
      <4>8. given.bytes = f /\ given.left = l
        BY <4>1
      <4> QED BY <1>6, <3>2, <4>3, <4>4, <4>5, <4>6, <4>7, <4>8 DEF Sources, given
    <3> QED BY <3>4, <3>5
  <2> QED BY <2>3, <2>4
<1> QED BY <1>2, <1>4, <1>5, <1>6

-----------------------------------------------------------------------------
(* Joining what First takes, and what Rests leaves.                        *)
LEMMA Cut ==
    ASSUME NEW s \in Seq(Cell), NEW k \in 0..Len(s), NEW r \in Rests(s, k), NEW p \in Seq(Cell)
    PROVE  /\ First(s, k) \in Seq(Cell) /\ r \in Seq(Cell) /\ p \o First(s, k) \in Seq(Cell)
           /\ r = From(s, k) \/ (c.signals /\ r = << >>)
<1>1. First(s, k) \in Seq(Cell) /\ From(s, k) \in Seq(Cell)
  BY Parts
<1>2. r = From(s, k) \/ (c.signals /\ r = << >>)
  BY DEF Rests
<1>3. p \o First(s, k) \in Seq(Cell)
  BY <1>1, Joined
<1>4. r \in Seq(Cell)
  <2>1. r = From(s, k) \/ r = << >>
    BY <1>2
  <2>2. << >> \in Seq(Cell)
    OBVIOUS
  <2> QED BY <1>1, <2>1, <2>2
<1> QED BY <1>1, <1>2, <1>3, <1>4

(* The smaller of two numbers is one of them.                              *)
LEMMA LeastIs ==
    ASSUME NEW i \in Int, NEW j \in Int
    PROVE  /\ Least(i, j) \in {i, j} /\ Least(i, j) <= i /\ Least(i, j) <= j
BY DEF Least

(* A step of the input pump keeps the types and the control state.         *)
LEMMA FeedControls == ASSUME Control, Feed PROVE Control'
<1> USE DEF Control
<1>1. CASE FeedCall
  <2> DEFINE given == Source(BUFSIZ)
  <2>1. /\ given.bytes \in Seq(Cell) /\ given.left \in Sources
        /\ given.bytes = << >> => given.left = << >>
        /\ c.from = "istream" /\ Len(given.bytes) < BUFSIZ => given.left = << >>
    BY Given DEF Feeding
  <2>2. /\ feed = "call" /\ source' = given.left /\ piece' = given.bytes
        /\ feed' = IF given.bytes = << >> THEN "done" ELSE "write"
        /\ failbit' = (failbit \/ (c.from = "istream" /\ Len(given.bytes) < BUFSIZ))
        /\ UNCHANGED <<c, pipe1, pipe2, pc, held, getting, putting, collecting>>
    BY <1>1 DEF FeedCall
  <2>4. failbit => given.left = << >>
    <3>1. ASSUME failbit PROVE given.left = << >>
      <4> DEFINE x == given.bytes
                 y == Bytes(c.from, given.left)
      <4>1. source = << >> /\ source \in Sources /\ Feeding
        BY <3>1 DEF Feeding, TypeOK
      <4>2. Bytes(c.from, source) = << >>
        BY <4>1, BytesType DEF Sources
      <4>3. x \o y = << >> /\ x \in Seq(Cell)
        BY <4>1, <4>2, Given DEF Feeding
      <4>4. y \in Seq(Cell)
        <5> HIDE DEF given
        <5> QED BY <2>1, BytesType DEF Sources
      <4> HIDE DEF x, y
      <4>5. x = << >>
        BY <4>3, <4>4, ConcatEqualIffEmpty
      <4> QED BY <4>5, <2>1 DEF x
    <3> QED BY <3>1
  <2> HIDE DEF given
  <2>3. TypeOK'
    BY <2>1, <2>2 DEF TypeOK, Sources, getting, putting, collecting
  <2>5. Feeding'
    BY <2>1, <2>2, <2>4 DEF Feeding, TypeOK
  <2>6. Copying' /\ Area'
    BY <2>2 DEF Copying, Area, AtEof1, Ends, getting, putting, collecting
  <2> QED BY <2>3, <2>5, <2>6
<1>2. CASE FeedWrite
  <2> DEFINE k == Least(Room(pipe1), Len(piece))
  <2>1. /\ feed = "write" /\ pipe1' = pipe1 \o First(piece, k) /\ piece' \in Rests(piece, k)
        /\ feed' = IF piece' = << >> THEN "call" ELSE "write"
        /\ UNCHANGED <<c, source, failbit, pipe2, pc, held, getting, putting, collecting>>
        /\ Room(pipe1) > 0
    BY <1>2 DEF FeedWrite
  <2>2. k \in 0..Len(piece)
    <3>1. Room(pipe1) \in Int /\ Len(piece) \in Nat
      BY SizesType DEF TypeOK, Room
    <3> QED BY <3>1, <2>1 DEF Least
  <2> HIDE DEF k
  <2>3. pipe1' \in Seq(Cell) /\ piece' \in Seq(Cell)
    BY <2>1, <2>2, Cut DEF TypeOK
  <2>4. TypeOK'
    BY <2>1, <2>3 DEF TypeOK, Sources, getting, putting, collecting
  <2>5. Feeding'
    BY <2>1 DEF Feeding
  <2>6. Copying' /\ Area'
    BY <2>1 DEF Copying, Area, AtEof1, Ends, getting, putting, collecting
  <2> QED BY <2>4, <2>5, <2>6
<1> QED BY <1>1, <1>2 DEF Feed

(* So does a step of the program.                                          *)
LEMMA ProgramControls == ASSUME Control, Program PROVE Control'
<1> USE DEF Control
<1>1. CASE ProgramReads
  <2>1. TypeOK'
    BY <1>1 DEF ProgramReads, TypeOK, Sources, feeding, getting, putting, collecting
  <2>2. Feeding' /\ Area'
    BY <1>1 DEF ProgramReads, Feeding, Area, feeding, getting
  <2>3. Copying'
    BY <1>1 DEF ProgramReads, Copying, AtEof1, Ends, feeding, getting, putting, collecting
  <2> QED BY <2>1, <2>2, <2>3
<1>2. CASE ProgramWrites
  <2>1. PICK k \in 1..Least(Len(held), Room(pipe2)) :
          pipe2' = pipe2 \o First(held, k) /\ held' = From(held, k)
    BY <1>2 DEF ProgramWrites
  <2>2. k \in 0..Len(held)
    <3>1. Room(pipe2) \in Int /\ Len(held) \in Nat
      BY SizesType DEF TypeOK, Room
    <3> QED BY <3>1, LeastIs
  <2>3. pipe2' \in Seq(Cell) /\ held' \in Seq(Cell)
    <3>1. From(held, k) \in Rests(held, k)
      BY DEF Rests
    <3> QED BY <3>1, <2>1, <2>2, Cut DEF TypeOK
  <2>4. TypeOK'
    BY <1>2, <2>3 DEF ProgramWrites, TypeOK, Sources, feeding, getting, putting, collecting
  <2>5. Feeding' /\ Area'
    BY <1>2 DEF ProgramWrites, Feeding, Area, feeding, getting
  <2>6. Copying'
    BY <1>2 DEF ProgramWrites, Copying, AtEof1, Ends, feeding, getting, putting, collecting
  <2> QED BY <2>4, <2>5, <2>6
<1>3. CASE ProgramEnds
  <2>1. TypeOK'
    BY <1>3 DEF ProgramEnds, TypeOK, Sources, Ends, feeding, getting, putting, collecting
  <2>2. Feeding' /\ Area'
    BY <1>3 DEF ProgramEnds, Feeding, Area, feeding, getting
  <2>3. Copying'
    BY <1>3 DEF ProgramEnds, Copying, TypeOK, AtEof1, Ends, feeding, getting, putting, collecting
  <2> QED BY <2>1, <2>2, <2>3
<1> QED BY <1>1, <1>2, <1>3 DEF Program

(* What has been moved is of the memory's type.                            *)
LEMMA MovedType ==
    ASSUME mem \in [0..(BUFSIZ - 1) -> Cell], egptr \in 0..BUFSIZ
    PROVE  Moved \in [0..(BUFSIZ - 1) -> Cell]
<1>1. DOMAIN mem = 0..(BUFSIZ - 1)
  OBVIOUS
<1>2. ASSUME NEW i \in 0..(BUFSIZ - 1), i < Start, ~(egptr - PutBack + i < 0)
      PROVE  mem[egptr - PutBack + i] \in Cell
  <2>1. i < PutBack
    BY <1>2, SizesType DEF Start
  <2>2. egptr - PutBack + i \in 0..(BUFSIZ - 1)
    BY <1>2, <2>1, SizesType
  <2> QED BY <2>2
<1>3. Junk \in Cell
  BY DEF Cell
<1>4. \A i \in 0..(BUFSIZ - 1) : mem[i] \in Cell
  OBVIOUS
<1>5. Start \in Int
  BY SizesType DEF Start
<1> DEFINE e(i) == IF i >= Start THEN mem[i]
                   ELSE IF egptr - PutBack + i < 0 THEN Junk ELSE mem[egptr - PutBack + i]
<1>6. ASSUME NEW i \in 0..(BUFSIZ - 1) PROVE e(i) \in Cell
  BY <1>2, <1>3, <1>4, <1>5
<1>7. Moved = [i \in 0..(BUFSIZ - 1) |-> e(i)]
  BY <1>1 DEF Moved
<1> HIDE DEF e
<1> QED BY <1>6, <1>7

(* The fill that underflow() makes.                                        *)
Filling == Least(BUFSIZ - Start, Len(pipe1))
Filled ==
    [i \in DOMAIN mem |-> IF i \in Start..(Start + Filling - 1) THEN pipe1[i - Start + 1] ELSE Moved[i]]

(* A fill begins at 0 or behind put_back_size characters, has at least one *)
(* byte and stays within the buffer; it is what was at the front of the    *)
(* pipe.                                                                   *)
LEMMA FillType ==
    ASSUME TypeOK, pipe1 # << >>
    PROVE  /\ Start \in {0, PutBack} /\ Filling \in 1..Len(pipe1) /\ Start + Filling <= BUFSIZ
           /\ Filled \in [0..(BUFSIZ - 1) -> Cell]
           /\ \A i \in 1..Filling : Filled[Start + i - 1] = pipe1[i] /\ pipe1[i] \in Cell
           /\ \A i \in 0..(Start - 1) : Filled[i] = Moved[i]
<1>1. DOMAIN mem = 0..(BUFSIZ - 1) /\ pipe1 \in Seq(Cell) /\ Len(pipe1) \in Nat /\ Len(pipe1) # 0
  BY DEF TypeOK
<1>2. Start \in {0, PutBack}
  BY DEF Start
<1>3. Filling \in 1..Len(pipe1) /\ Start + Filling <= BUFSIZ
  BY <1>1, <1>2, SizesType DEF Filling, Least
<1>4. \A i \in 1..Filling : pipe1[i] \in Cell
  BY <1>1, <1>3
<1>5. Start \in Nat /\ Filling \in Nat /\ BUFSIZ \in Nat
  BY <1>1, <1>2, <1>3, SizesType
<1>6. Moved \in [0..(BUFSIZ - 1) -> Cell]
  BY MovedType DEF TypeOK
<1>7. Filled \in [0..(BUFSIZ - 1) -> Cell]
  <2> SUFFICES ASSUME NEW i \in 0..(BUFSIZ - 1), i \in Start..(Start + Filling - 1)
               PROVE  pipe1[i - Start + 1] \in Cell
    BY <1>1, <1>6 DEF Filled
  <2>1. i - Start + 1 \in 1..Filling
    BY <1>5
  <2> QED BY <2>1, <1>4
<1>8. ASSUME NEW i \in 1..Filling PROVE Filled[Start + i - 1] = pipe1[i]
  <2>1. Start + i - 1 \in 0..(BUFSIZ - 1) /\ Start + i - 1 \in Start..(Start + Filling - 1)
    BY <1>3, <1>5
  <2>2. Start + i - 1 - Start + 1 = i
    BY <1>5
  <2> DEFINE j == Start + i - 1
  <2>3. j \in DOMAIN mem /\ j \in Start..(Start + Filling - 1) /\ j - Start + 1 = i
    <3>1. DOMAIN mem = 0..(BUFSIZ - 1)
      BY <1>1
    <3>2. j \in DOMAIN mem
      BY <2>1, <3>1
    <3>3. j \in Start..(Start + Filling - 1)
      BY <2>1
    <3>4. j - Start + 1 = i
      BY <1>5
    <3> QED BY <3>2, <3>3, <3>4
  <2> HIDE DEF j
  <2>4. Filled[j] = pipe1[j - Start + 1]
    BY <2>3 DEF Filled
  <2> QED BY <2>3, <2>4 DEF j
<1>9. ASSUME NEW i \in 0..(Start - 1) PROVE Filled[i] = Moved[i]
  <2>1. i \in 0..(BUFSIZ - 1) /\ i \notin Start..(Start + Filling - 1)
    BY <1>3, <1>5
  <2> QED BY <1>1, <2>1 DEF Filled
<1> QED BY <1>2, <1>3, <1>4, <1>7, <1>8, <1>9

(* underflow() is a fill, and the first of its characters is got.          *)
LEMMA UnderflowIs ==
    Underflow =>
        /\ c.mid = "function" /\ pc = "read" /\ gptr = egptr /\ pipe1 # << >>
        /\ mem' = Filled /\ pipe1' = From(pipe1, Filling) /\ eback' = 0 /\ egptr' = Start + Filling
        /\ Got(Filled, Start)
        /\ UNCHANGED <<c, feeding, pipe2, budget, putting, collecting>>
BY DEF Underflow, Filling, Filled

(* Steps of the function that get or put back keep the types and the       *)
(* control state.                                                          *)
LEMMA GettingControls ==
    ASSUME Control, GetBuffered \/ Underflow \/ UnderflowEof \/ Unget
    PROVE  Control'
<1> USE DEF Control
<1>1. CASE GetBuffered
  <2>1. c.mid = "function" /\ pc = "read" /\ gptr < egptr /\ Got(mem, gptr)
        /\ UNCHANGED <<c, feeding, pipe1, pipe2, mem, eback, egptr, budget, putting, collecting>>
    BY <1>1 DEF GetBuffered
  <2>2. mem[gptr] \in Cell /\ gptr \in Nat /\ egptr \in 0..BUFSIZ
    BY <2>1, SizesType, SMTT(40) DEF TypeOK
  <2>3. /\ seen' \in Seq(Cell)
        /\ back > 0 => Len(seen') = Len(seen) /\ back' = back - 1 /\ UNCHANGED <<pc, held>>
        /\ ~(back > 0) => /\ Len(seen') = Len(seen) + 1 /\ back' = back /\ pc' = "put"
                          /\ held' = <<mem[gptr]>>
    <3>1. CASE back > 0
      <4> DEFINE k == Len(seen) - back + 1
      <4>1. seen' = [seen EXCEPT ![k] = mem[gptr]] /\ back' = back - 1 /\ UNCHANGED <<pc, held>>
        BY <3>1, <2>1 DEF Got
      <4>2. seen \in Seq(Cell) /\ k \in 1..Len(seen)
        BY <3>1 DEF TypeOK, Area
      <4> HIDE DEF k
      <4>3. seen' \in Seq(Cell) /\ Len(seen') = Len(seen)
        BY <4>1, <4>2, <2>2, ExceptSeq
      <4> QED BY <3>1, <4>1, <4>3, Zenon
    <3>2. CASE ~(back > 0)
      <4>1. seen' = Append(seen, mem[gptr]) /\ back' = back /\ pc' = "put" /\ held' = <<mem[gptr]>>
        BY <3>2, <2>1 DEF Got
      <4> QED BY <3>2, <4>1, <2>2, AppendProperties DEF TypeOK
    <3> QED BY <3>1, <3>2
  <2>4. TypeOK'
    <3>1. gptr' = gptr + 1 /\ gptr + 1 \in 0..BUFSIZ
      <4>1. gptr' = gptr + 1
        BY <2>1 DEF Got
      <4>2. gptr < egptr
        BY <2>1
      <4> QED BY <4>1, <4>2, <2>2, SizesType
    <3>2. back' \in Nat
      BY <2>3 DEF TypeOK
    <3>3. pc' \in {"read", "put"} /\ held' \in Seq(Cell)
      <4>1. CASE back > 0
        BY <4>1, <2>1, <2>3 DEF TypeOK
      <4>2. CASE ~(back > 0)
        <5>1. pc' = "put" /\ held' = <<mem[gptr]>>
          BY <4>2, <2>3
        <5>2. <<mem[gptr]>> \in Seq(Cell)
          BY <2>2
        <5> QED BY <5>1, <5>2
      <4> QED BY <4>1, <4>2
    <3> QED BY <2>1, <2>3, <3>1, <3>2, <3>3 DEF TypeOK, Sources, feeding, putting, collecting
  <2>5. Feeding'
    BY <2>1 DEF Feeding, feeding
  <2>6. Copying'
    <3>1. held' # << >> <=> pc' \in {"put", "overflow"}
      <4>1. held # << >> <=> pc \in {"put", "overflow"}
        BY <2>1 DEF Copying
      <4>2. CASE back > 0
        BY <4>1, <4>2, <2>3
      <4>3. CASE ~(back > 0)
        <5>1. <<mem[gptr]>> # << >>
          OBVIOUS
        <5> QED BY <5>1, <4>3, <2>3
      <4> QED BY <4>2, <4>3
    <3>2. pc' \in {"read", "put"}
      BY <2>1, <2>3
    <3> QED BY <2>1, <3>1, <3>2 DEF Copying, Ends, AtEof1, feeding, putting, collecting
  <2>7. Area'
    <3>1. gptr' = gptr + 1 /\ eback' = eback /\ egptr' = egptr
      BY <2>1 DEF Got
    <3>2. back \in Nat /\ Len(seen) \in Nat /\ PutBack \in Nat /\ BUFSIZ \in Nat
      BY SizesType DEF TypeOK
    <3>3. eback = 0
      BY <2>1, <2>2 DEF Area
    <3>4. CASE back > 0
      BY <2>1, <2>2, <2>3, <3>1, <3>2, <3>3, <3>4, SizesType DEF Area
    <3>5. CASE ~(back > 0)
      BY <2>1, <2>2, <2>3, <3>1, <3>2, <3>3, <3>5, SizesType DEF Area
    <3> QED BY <3>4, <3>5
  <2> QED BY <2>4, <2>5, <2>6, <2>7
<1>2. CASE Underflow
  <2>1. /\ c.mid = "function" /\ pc = "read" /\ gptr = egptr /\ pipe1 # << >>
        /\ mem' = Filled /\ pipe1' = From(pipe1, Filling) /\ eback' = 0 /\ egptr' = Start + Filling
        /\ Got(Filled, Start)
        /\ UNCHANGED <<c, feeding, pipe2, budget, putting, collecting>>
    BY <1>2, UnderflowIs
  <2>2. /\ Start \in {0, PutBack} /\ Filling \in 1..Len(pipe1) /\ Start + Filling <= BUFSIZ
        /\ Filled \in [0..(BUFSIZ - 1) -> Cell]
    BY <2>1, FillType
  <2>3. Filled[Start] \in Cell /\ pipe1' \in Seq(Cell)
    <3>1. Start \in 0..(BUFSIZ - 1)
      BY <2>2, SizesType
    <3>2. Filling \in 0..Len(pipe1) /\ pipe1 \in Seq(Cell)
      BY <2>2 DEF TypeOK
    <3> QED BY <3>1, <3>2, <2>1, <2>2, Parts
  <2>4. back = 0
    BY <2>1 DEF TypeOK, Area
  <2>5. /\ gptr' = Start + 1 /\ back' = 0 /\ pc' = "put" /\ held' = <<Filled[Start]>>
        /\ seen' = Append(seen, Filled[Start])
    BY <2>1, <2>4 DEF Got
  <2>6. seen' \in Seq(Cell) /\ Len(seen') = Len(seen) + 1 /\ held' \in Seq(Cell) /\ held' # << >>
    BY <2>3, <2>5 DEF TypeOK
  <2>7. TypeOK'
    BY <2>1, <2>2, <2>3, <2>5, <2>6, SizesType DEF TypeOK, Sources, feeding, putting, collecting
  <2>8. Feeding'
    BY <2>1 DEF Feeding, feeding
  <2>9. Copying'
    BY <2>1, <2>5, <2>6 DEF Copying, Ends, AtEof1, feeding, putting, collecting
  <2>10. Area'
    <3>1. Start = 0 => Len(seen) = 0
      <4>1. eback # 0 => seen = << >>
        BY DEF Area
      <4> QED BY <4>1, SizesType DEF Start
    <3>2. Start + 1 <= Start + Filling /\ Filling \in Nat /\ Len(seen) \in Nat
      BY <2>2, SizesType DEF TypeOK
    <3> QED BY <3>1, <3>2, <2>1, <2>2, <2>5, <2>6, SizesType DEF Area
  <2> QED BY <2>7, <2>8, <2>9, <2>10
<1>3. CASE UnderflowEof
  <2>1. /\ c.mid = "function" /\ pc = "read" /\ gptr = egptr /\ AtEof1
        /\ mem' = Moved /\ pc' = "eof"
        /\ UNCHANGED <<c, feeding, pipe1, pipe2, held, eback, gptr, egptr, back, budget, seen,
                       putting, collecting>>
    BY <1>3 DEF UnderflowEof
  <2>2. mem' \in [0..(BUFSIZ - 1) -> Cell]
    BY <2>1, MovedType DEF TypeOK
  <2>3. TypeOK'
    BY <2>1, <2>2 DEF TypeOK, Ends, Sources, feeding, putting, collecting
  <2>4. Feeding' /\ Area'
    BY <2>1 DEF Feeding, Area, feeding
  <2>5. gptr + back = egptr
    BY <2>1 DEF TypeOK, Area
  <2>6. Copying'
    BY <2>1, <2>5 DEF Copying, Ends, AtEof1, feeding, putting, collecting
  <2> QED BY <2>3, <2>4, <2>6
<1>4. CASE Unget
  <2>1. /\ c.mid = "function" /\ pc \in {"read", "eof"} /\ budget > 0
        /\ back < Least(PutBack, Len(seen)) /\ eback < gptr
        /\ budget' = budget - 1 /\ back' = back + 1 /\ gptr' = gptr - 1 /\ pc' = "read"
        /\ UNCHANGED <<c, feeding, pipe1, pipe2, held, mem, eback, egptr, seen, putting, collecting>>
    BY <1>4 DEF Unget
  <2>2. eback \in {0, BUFSIZ} /\ gptr \in 0..BUFSIZ /\ gptr > 0 /\ back \in Nat /\ Len(seen) \in Nat
    BY <2>1, SizesType DEF TypeOK, Area
  <2>3. gptr - 1 \in 0..BUFSIZ /\ gptr' + back' = gptr + back /\ eback = 0
    BY <2>1, <2>2, SizesType
  <2>4. back' <= PutBack /\ back' <= Len(seen)
    BY <2>1, <2>2, SizesType DEF Least
  <2>5. TypeOK'
    BY <2>1, <2>3 DEF TypeOK, Sources, feeding, putting, collecting
  <2>6. Feeding'
    BY <2>1 DEF Feeding, feeding
  <2>7. Copying'
    BY <2>1 DEF Copying, Ends, AtEof1, feeding, putting, collecting
  <2>8. Area'
    BY <2>1, <2>3, <2>4, SizesType DEF Area
  <2> QED BY <2>5, <2>6, <2>7, <2>8
<1> QED BY <1>1, <1>2, <1>3, <1>4

(* Steps of the function that put, flush or end do so too.                 *)
LEMMA PuttingControls ==
    ASSUME Control, \/ PutBuffered \/ Overflow \/ Sync \/ FlushWrites \/ Flushed
                    \/ FunctionFlushes \/ FunctionEnds
    PROVE  Control'
<1> USE DEF Control
<1>0. c.mid \in {"program", "function"}
  BY CaseType DEF TypeOK
<1>1. CASE PutBuffered
  <2>1. (put \o held) \in Seq(Cell) /\ << >> \in Seq(Cell)
    BY Joined DEF TypeOK
  <2>2. TypeOK'
    BY <1>1, <2>1 DEF PutBuffered, TypeOK, Ends, Sources, feeding, getting, collecting
  <2>3. Feeding' /\ Area'
    BY <1>1 DEF PutBuffered, Feeding, Area, feeding, getting
  <2>4. Copying'
    BY <1>1 DEF PutBuffered, Copying, TypeOK, AtEof1, Ends, feeding, getting, collecting
  <2> QED BY <2>2, <2>3, <2>4
<1>2. CASE Overflow
  <2>1. (put \o held) \in Seq(Cell) /\ << >> \in Seq(Cell)
    BY Joined DEF TypeOK
  <2>2. TypeOK'
    BY <1>2, <2>1 DEF Overflow, TypeOK, Ends, Sources, feeding, getting, collecting
  <2>3. Feeding' /\ Area'
    BY <1>2 DEF Overflow, Feeding, Area, feeding, getting
  <2>4. Copying'
    BY <1>2, <1>0 DEF Overflow, Copying, AtEof1, Ends, feeding, getting, collecting
  <2> QED BY <2>2, <2>3, <2>4
<1>3. CASE Sync
  <2>2. TypeOK'
    BY <1>3 DEF Sync, TypeOK, Ends, Sources, feeding, getting, collecting
  <2>3. Feeding' /\ Area'
    BY <1>3 DEF Sync, Feeding, Area, feeding, getting
  <2>4. Copying'
    BY <1>3, <1>0 DEF Sync, Copying, AtEof1, Ends, feeding, getting, collecting
  <2> QED BY <2>2, <2>3, <2>4
<1>4. CASE FlushWrites
  <2> DEFINE k == Least(Room(pipe2), Len(flushing))
  <2>1. /\ pc \in {"overflow", "sync", "last"} /\ Room(pipe2) > 0
        /\ pipe2' = pipe2 \o First(flushing, k) /\ flushing' \in Rests(flushing, k)
        /\ UNCHANGED <<c, feeding, pipe1, pc, held, getting, put, badbit, collecting>>
    BY <1>4 DEF FlushWrites
  <2>2. k \in 0..Len(flushing)
    <3>1. Room(pipe2) \in Int /\ Len(flushing) \in Nat
      BY SizesType DEF TypeOK, Room
    <3> QED BY <3>1, <2>1 DEF Least
  <2> HIDE DEF k
  <2>3. pipe2' \in Seq(Cell) /\ flushing' \in Seq(Cell)
    BY <2>1, <2>2, Cut DEF TypeOK
  <2>4. TypeOK'
    BY <2>1, <2>3 DEF TypeOK, Sources, feeding, getting, collecting
  <2>5. Feeding' /\ Area'
    BY <2>1 DEF Feeding, Area, feeding, getting
  <2>6. Copying'
    BY <2>1, <1>0 DEF Copying, AtEof1, Ends, feeding, getting, collecting
  <2> QED BY <2>4, <2>5, <2>6
<1>5. CASE Flushed
  <2>2. TypeOK'
    BY <1>5 DEF Flushed, TypeOK, Ends, Sources, feeding, getting, collecting
  <2>3. Feeding' /\ Area'
    BY <1>5 DEF Flushed, Feeding, Area, feeding, getting
  <2>4. Copying'
    BY <1>5, <1>0 DEF Flushed, Copying, AtEof1, Ends, feeding, getting, collecting
  <2> QED BY <2>2, <2>3, <2>4
<1>6. CASE FunctionFlushes
  <2>2. TypeOK'
    BY <1>6 DEF FunctionFlushes, TypeOK, Ends, Sources, feeding, getting, collecting
  <2>3. Feeding' /\ Area'
    BY <1>6 DEF FunctionFlushes, Feeding, Area, feeding, getting
  <2>4. Copying'
    BY <1>6, <1>0 DEF FunctionFlushes, Copying, AtEof1, Ends, feeding, getting, collecting
  <2> QED BY <2>2, <2>3, <2>4
<1>7. CASE FunctionEnds
  <2>2. TypeOK'
    BY <1>7 DEF FunctionEnds, TypeOK, Ends, Sources, feeding, getting, putting, collecting
  <2>3. Feeding' /\ Area'
    BY <1>7 DEF FunctionEnds, Feeding, Area, feeding, getting
  <2>4. Copying'
    BY <1>7, <1>0 DEF FunctionEnds, Copying, AtEof1, Ends, feeding, getting, putting, collecting
  <2> QED BY <2>2, <2>3, <2>4
<1> QED BY <1>1, <1>2, <1>3, <1>4, <1>5, <1>6, <1>7

(* Steps of the output pump do so too.                                     *)
LEMMA CollectControls == ASSUME Control, Collect \/ CollectEnds PROVE Control'
<1> USE DEF Control
<1>1. CASE Collect
  <2> DEFINE k == Least(BUFSIZ, Len(pipe2))
             bytes == First(pipe2, k)
  <2>1. /\ collect = "read" /\ pipe2 # << >>
        /\ pipe2' = From(pipe2, Len(bytes)) /\ taken' = taken \o bytes
        /\ UNCHANGED <<c, feeding, pipe1, pc, held, getting, putting, collect>>
    BY <1>1 DEF Collect
  <2>2. k \in 0..Len(pipe2)
    <3>1. Len(pipe2) \in Nat
      BY DEF TypeOK
    <3> QED BY <3>1, SizesType DEF Least
  <2> HIDE DEF k
  <2>3. bytes \in Seq(Cell) /\ Len(bytes) = k /\ From(pipe2, k) \in Seq(Cell)
    BY <2>2, Parts DEF TypeOK
  <2> HIDE DEF bytes
  <2>4. pipe2' \in Seq(Cell) /\ taken' \in Seq(Cell)
    BY <2>1, <2>3, Joined DEF TypeOK
  <2>5. TypeOK'
    BY <2>1, <2>4 DEF TypeOK, Sources, feeding, getting, putting
  <2>6. Feeding' /\ Area'
    BY <2>1 DEF Feeding, Area, feeding, getting
  <2>7. Copying'
    BY <2>1 DEF Copying, AtEof1, Ends, feeding, getting, putting
  <2> QED BY <2>5, <2>6, <2>7
<1>2. CASE CollectEnds
  <2>1. TypeOK'
    BY <1>2 DEF CollectEnds, TypeOK, Sources, feeding, getting, putting
  <2>2. Feeding' /\ Area'
    BY <1>2 DEF CollectEnds, Feeding, Area, feeding, getting
  <2>3. Copying'
    BY <1>2 DEF CollectEnds, Copying, AtEof1, AtEof2, Ends, feeding, getting, putting
  <2> QED BY <2>1, <2>2, <2>3
<1> QED BY <1>1, <1>2

-----------------------------------------------------------------------------
(* The bytes on their way, from those that the source has left to those    *)
(* that the output pump has taken: Carried is what the program or the      *)
(* function holds, and Unread what lies in the get area; after overflow()  *)
(* has begun to flush, the character that it was called with counts as     *)
(* part of what is flushed.                                                *)
Left == Bytes(c.from, source)
Carried == IF pc = "overflow" THEN << >> ELSE held
Unread == [i \in 1..(egptr - (gptr + back)) |-> mem[gptr + back + i - 1]]

AtPump == piece \o Left
AtPipe1 == pipe1 \o AtPump
AtGet == Unread \o AtPipe1
AtCopy == Carried \o AtGet
AtPut == put \o AtCopy
AtFlush == flushing \o AtPut
AtPipe2 == pipe2 \o AtFlush
Whole == taken \o AtPipe2

(* A step that loses some bytes: they are cut out of a text.               *)
Loses(s, t) ==
    \E x, y, z \in Seq(Cell) : s = x \o (y \o z) /\ t = x \o z

(* What a write may do to a text: it is cut short by a signal only.        *)
Cuts(s, t) == t = s \/ (c.signals /\ Loses(s, t))

(* What a step may do to a text: nothing is lost unless a signal or badbit *)
(* is the reason.                                                          *)
Moves(s, t) == t = s \/ ((c.signals \/ badbit) /\ Loses(s, t))

(* Every stretch of the way holds a sequence of bytes.                     *)
LEMMA WayType ==
    ASSUME TypeOK, Area
    PROVE  /\ Left \in Seq(Cell) /\ Carried \in Seq(Cell) /\ Unread \in Seq(Cell)
           /\ Len(Unread) = egptr - (gptr + back)
           /\ AtPump \in Seq(Cell) /\ AtPipe1 \in Seq(Cell) /\ AtGet \in Seq(Cell)
           /\ AtCopy \in Seq(Cell) /\ AtPut \in Seq(Cell) /\ AtFlush \in Seq(Cell)
           /\ AtPipe2 \in Seq(Cell) /\ Whole \in Seq(Cell)
<1>1. Left \in Seq(Cell)
  BY BytesType DEF Left, TypeOK, Sources
<1>2. Carried \in Seq(Cell)
  BY DEF Carried, TypeOK
<1>3. Unread \in Seq(Cell) /\ Len(Unread) = egptr - (gptr + back)
  <2> DEFINE n == egptr - (gptr + back)
             e(i) == mem[gptr + back + i - 1]
  <2>1. n \in Nat
    BY SizesType DEF TypeOK, Area
  <2>2. \A i \in 1..n : gptr + back + i - 1 \in 0..(BUFSIZ - 1)
    BY SizesType DEF TypeOK, Area
  <2>3. \A i \in 1..n : e(i) \in Cell
    BY <2>2 DEF TypeOK
  <2>4. Unread = [i \in 1..n |-> e(i)]
    BY DEF Unread
  <2> HIDE DEF n, e
  <2>5. Unread \in Seq(Cell) /\ Len(Unread) = n
    BY <2>1, <2>3, <2>4
  <2> QED BY <2>5 DEF n
<1>4. AtPump \in Seq(Cell)
  BY <1>1, Joined DEF AtPump, TypeOK
<1>5. AtPipe1 \in Seq(Cell)
  BY <1>4, Joined DEF AtPipe1, TypeOK
<1>6. AtGet \in Seq(Cell)
  BY <1>3, <1>5, Joined DEF AtGet
<1>7. AtCopy \in Seq(Cell)
  BY <1>2, <1>6, Joined DEF AtCopy
<1>8. AtPut \in Seq(Cell)
  BY <1>7, Joined DEF AtPut, TypeOK
<1>9. AtFlush \in Seq(Cell)
  BY <1>8, Joined DEF AtFlush, TypeOK
<1>10. AtPipe2 \in Seq(Cell)
  BY <1>9, Joined DEF AtPipe2, TypeOK
<1>11. Whole \in Seq(Cell)
  BY <1>10, Joined DEF Whole, TypeOK
<1> QED BY <1>1, <1>2, <1>3, <1>4, <1>5, <1>6, <1>7, <1>8, <1>9, <1>10, <1>11

(* What happens to a stretch of the way happens to the way with more in    *)
(* front.                                                                  *)
LEMMA MovesBehind ==
    ASSUME NEW p \in Seq(Cell), NEW s \in Seq(Cell), NEW t \in Seq(Cell), Moves(s, t)
    PROVE  Moves(p \o s, p \o t)
<1>1. CASE t = s
  BY <1>1 DEF Moves
<1>2. CASE (c.signals \/ badbit) /\ Loses(s, t)
  <2>1. PICK x, y, z \in Seq(Cell) : s = x \o (y \o z) /\ t = x \o z
    BY <1>2 DEF Loses
  <2> DEFINE w == y \o z
             q == p \o x
  <2>2. w \in Seq(Cell) /\ q \in Seq(Cell)
    BY Joined
  <2>3. q \o z = p \o (x \o z)
    <3>1. p \in Seq(Cell) /\ x \in Seq(Cell) /\ z \in Seq(Cell)
      OBVIOUS
    <3>2. Cat(Cat(p, x), z) = Cat(p, Cat(x, z))
      BY <3>1, CatAssoc
    <3> QED BY <3>2 DEF Cat
  <2>4. q \o w = p \o (x \o w)
    <3> HIDE DEF w
    <3>1. p \in Seq(Cell) /\ x \in Seq(Cell) /\ w \in Seq(Cell)
      BY <2>2
    <3>2. Cat(Cat(p, x), w) = Cat(p, Cat(x, w))
      BY <3>1, CatAssoc
    <3> QED BY <3>2 DEF Cat
  <2>5. p \o s = q \o (y \o z) /\ p \o t = q \o z
    BY <2>1, <2>3, <2>4
  <2>6. Loses(p \o s, p \o t)
    <3> HIDE DEF q
    <3> QED BY <2>2, <2>5 DEF Loses
  <2> QED BY <1>2, <2>6 DEF Moves
<1> QED BY <1>1, <1>2 DEF Moves

WayOK ==
    /\ AtPipe1 \in Seq(Cell) /\ AtGet \in Seq(Cell) /\ AtCopy \in Seq(Cell)
    /\ AtPut \in Seq(Cell) /\ AtFlush \in Seq(Cell) /\ AtPipe2 \in Seq(Cell)
    /\ Unread \in Seq(Cell) /\ Len(Unread) = egptr - (gptr + back)

(* WayType as a formula, to be used of a next state.                       *)
LEMMA WayTyped == TypeOK /\ Area => WayOK
BY WayType DEF WayOK

(* What happens up to some point of the way happens to the whole way when  *)
(* nothing else has changed.                                               *)
LEMMA MovesOn ==
    ASSUME TypeOK, Area, TypeOK', Area'
    PROVE  /\ Moves(AtPipe2, AtPipe2') /\ UNCHANGED taken => Moves(Whole, Whole')
           /\ Moves(AtFlush, AtFlush') /\ UNCHANGED <<taken, pipe2>> => Moves(Whole, Whole')
           /\ Moves(AtPut, AtPut') /\ UNCHANGED <<taken, pipe2, flushing>> => Moves(Whole, Whole')
           /\ Moves(AtCopy, AtCopy') /\ UNCHANGED <<taken, pipe2, flushing, put>> => Moves(Whole, Whole')
           /\ Moves(AtGet, AtGet') /\ UNCHANGED <<taken, pipe2, flushing, put, Carried>>
                => Moves(Whole, Whole')
           /\ Moves(AtPipe1, AtPipe1') /\ UNCHANGED <<taken, pipe2, flushing, put, Carried, Unread>>
                => Moves(Whole, Whole')
<1>1. /\ AtPipe1 \in Seq(Cell) /\ AtGet \in Seq(Cell) /\ AtCopy \in Seq(Cell) /\ AtPut \in Seq(Cell)
      /\ AtFlush \in Seq(Cell) /\ AtPipe2 \in Seq(Cell) /\ Unread \in Seq(Cell) /\ Carried \in Seq(Cell)
  BY WayType
<1>2. /\ AtPipe1' \in Seq(Cell) /\ AtGet' \in Seq(Cell) /\ AtCopy' \in Seq(Cell) /\ AtPut' \in Seq(Cell)
      /\ AtFlush' \in Seq(Cell) /\ AtPipe2' \in Seq(Cell)
  <2>1. (TypeOK /\ Area => WayOK)'
    BY WayTyped, PTL
  <2> QED BY <2>1 DEF WayOK
<1>3. taken \in Seq(Cell) /\ pipe2 \in Seq(Cell) /\ flushing \in Seq(Cell) /\ put \in Seq(Cell)
  BY DEF TypeOK
<1>4. ASSUME Moves(AtPipe2, AtPipe2'), UNCHANGED taken PROVE Moves(Whole, Whole')
  BY <1>1, <1>2, <1>3, <1>4, MovesBehind DEF Whole
<1>5. ASSUME Moves(AtFlush, AtFlush'), UNCHANGED pipe2 PROVE Moves(AtPipe2, AtPipe2')
  BY <1>1, <1>2, <1>3, <1>5, MovesBehind DEF AtPipe2
<1>6. ASSUME Moves(AtPut, AtPut'), UNCHANGED flushing PROVE Moves(AtFlush, AtFlush')
  BY <1>1, <1>2, <1>3, <1>6, MovesBehind DEF AtFlush
<1>7. ASSUME Moves(AtCopy, AtCopy'), UNCHANGED put PROVE Moves(AtPut, AtPut')
  BY <1>1, <1>2, <1>3, <1>7, MovesBehind DEF AtPut
<1>8. ASSUME Moves(AtGet, AtGet'), UNCHANGED Carried PROVE Moves(AtCopy, AtCopy')
  BY <1>1, <1>2, <1>3, <1>8, MovesBehind DEF AtCopy
<1>9. ASSUME Moves(AtPipe1, AtPipe1'), UNCHANGED Unread PROVE Moves(AtGet, AtGet')
  BY <1>1, <1>2, <1>3, <1>9, MovesBehind DEF AtGet
<1> QED BY <1>4, <1>5, <1>6, <1>7, <1>8, <1>9

-----------------------------------------------------------------------------
(* What First(s, k) is moved to the end of p, with or without the rest.    *)
LEMMA Shift ==
    ASSUME NEW p \in Seq(Cell), NEW s \in Seq(Cell), NEW l \in Seq(Cell),
           NEW k \in 0..Len(s), NEW r \in Rests(s, k)
    PROVE  /\ Cuts(p \o (s \o l), (p \o First(s, k)) \o (r \o l))
           /\ Moves(p \o (s \o l), (p \o First(s, k)) \o (r \o l))
<1> DEFINE f == First(s, k)
           g == From(s, k)
           x == p \o f
           y == g \o l
<1>1. f \in Seq(Cell) /\ g \in Seq(Cell) /\ f \o g = s
  BY Parts
<1>2. r = g \/ (c.signals /\ r = << >>)
  BY DEF Rests
<1> HIDE DEF f, g
<1>3. x \in Seq(Cell) /\ y \in Seq(Cell)
  BY <1>1, Joined
<1>4. s \o l = f \o y
  <2>1. f \in Seq(Cell) /\ g \in Seq(Cell) /\ l \in Seq(Cell)
    BY <1>1
  <2>2. (f \o g) \o l = f \o (g \o l)
    <3>1. Cat(Cat(f, g), l) = Cat(f, Cat(g, l))
      BY <2>1, CatAssoc
    <3> QED BY <3>1 DEF Cat
  <2> QED BY <1>1, <2>2
<1>5. x \o y = p \o (f \o y)
  <2> HIDE DEF y
  <2>1. p \in Seq(Cell) /\ f \in Seq(Cell) /\ y \in Seq(Cell)
    BY <1>1, <1>3
  <2>2. Cat(Cat(p, f), y) = Cat(p, Cat(f, y))
    BY <2>1, CatAssoc
  <2> QED BY <2>2 DEF Cat
<1>6. p \o (s \o l) = x \o (g \o l)
  BY <1>4, <1>5
<1>7. CASE r = g
  BY <1>6, <1>7 DEF Cuts, Moves, f
<1>8. CASE c.signals /\ r = << >>
  <2>1. << >> \o l = l
    BY Joined
  <2>2. Loses(x \o (g \o l), x \o l)
    <3> HIDE DEF x
    <3> QED BY <1>1, <1>3 DEF Loses
  <2> QED BY <1>6, <1>8, <2>1, <2>2 DEF Cuts, Moves, f
<1> QED BY <1>2, <1>7, <1>8

(* The empty sequence joined with another.                                 *)
LEMMA Empty ==
    /\ << >> \in Seq(Cell)
    /\ \A s \in Seq(Cell) : << >> \o s = s /\ s \o << >> = s
BY Joined

(* Characters that are put back, or got again, are not unread ones.        *)
LEMMA UnreadKept ==
    UNCHANGED <<mem, egptr>> /\ gptr' + back' = gptr + back => UNCHANGED Unread
BY DEF Unread

(* The input pump moves bytes from the source to the pipe; only a signal   *)
(* cuts its writes short.                                                  *)
LEMMA FeedCuts ==
    ASSUME Control, Feed
    PROVE  Cuts(AtPipe1, AtPipe1') /\ UNCHANGED <<Unread, Carried, put, flushing, pipe2, taken>>
<1>1. TypeOK /\ Area /\ Feeding
  BY DEF Control
<1>2. CASE FeedCall
  <2> DEFINE given == Source(BUFSIZ)
  <2>1. given.bytes \o Bytes(c.from, given.left) = Left
    BY <1>1, Given DEF Feeding, Left
  <2>2. /\ feed = "call" /\ source' = given.left /\ piece' = given.bytes
        /\ UNCHANGED <<c, pipe1, pipe2, pc, held, getting, putting, collecting>>
    BY <1>2 DEF FeedCall
  <2> HIDE DEF given
  <2>3. piece = << >> /\ Left \in Seq(Cell)
    BY <1>1, <2>2, WayType DEF Feeding
  <2>4. AtPump' = AtPump
    BY <2>1, <2>2, <2>3, Empty DEF AtPump, Left
  <2>5. UNCHANGED <<AtPipe1, Unread, Carried, put, flushing, pipe2, taken>>
    BY <2>2, <2>4 DEF AtPipe1, Unread, Carried, getting, putting, collecting
  <2> QED BY <2>5 DEF Cuts
<1>3. CASE FeedWrite
  <2> DEFINE k == Least(Room(pipe1), Len(piece))
  <2>1. /\ pipe1' = pipe1 \o First(piece, k) /\ piece' \in Rests(piece, k) /\ Room(pipe1) > 0
        /\ UNCHANGED <<c, source, failbit, pipe2, pc, held, getting, putting, collecting>>
    BY <1>3 DEF FeedWrite
  <2>2. k \in 0..Len(piece)
    <3>1. Room(pipe1) \in Int /\ Len(piece) \in Nat
      BY <1>1, SizesType DEF TypeOK, Room
    <3> QED BY <3>1, <2>1 DEF Least
  <2> HIDE DEF k
  <2>3. Cuts(pipe1 \o (piece \o Left), (pipe1 \o First(piece, k)) \o (piece' \o Left))
    BY <1>1, <2>1, <2>2, WayType, Shift DEF TypeOK
  <2>4. UNCHANGED <<Left, Unread, Carried, put, flushing, pipe2, taken>>
    BY <2>1 DEF Left, Unread, Carried, getting, putting, collecting
  <2>5. Cuts(AtPipe1, AtPipe1')
    BY <2>1, <2>3, <2>4 DEF AtPipe1, AtPump
  <2> QED BY <2>4, <2>5
<1> QED BY <1>2, <1>3 DEF Feed

(* A step of the input pump loses nothing but for a signal.                *)
LEMMA FeedMoves == ASSUME Control, Control', Feed PROVE Moves(Whole, Whole')
<1>1. TypeOK /\ Area /\ TypeOK' /\ Area'
  BY DEF Control
<1>2. Moves(AtPipe1, AtPipe1') /\ UNCHANGED <<Unread, Carried, put, flushing, pipe2, taken>>
  BY FeedCuts DEF Cuts, Moves
<1> QED BY <1>1, <1>2, MovesOn

(* A step of the program loses nothing.                                    *)
LEMMA ProgramMoves == ASSUME Control, Control', Program PROVE Moves(Whole, Whole')
<1>1. TypeOK /\ Area /\ TypeOK' /\ Area' /\ Copying
  BY DEF Control
<1>2. /\ pc \in {"read", "done"} /\ put = << >> /\ flushing = << >>
      /\ gptr = egptr /\ back = 0
  BY <1>1 DEF Program, ProgramReads, ProgramWrites, ProgramEnds, Copying
<1>3. Carried = held
  BY <1>2 DEF Carried
<1>4. Unread = << >>
  <2>1. Unread \in Seq(Cell) /\ Len(Unread) = 0
    <3>1. Unread \in Seq(Cell) /\ Len(Unread) = egptr - (gptr + back)
      BY <1>1, WayType
    <3>2. egptr - (gptr + back) = 0
      BY <1>1, <1>2, SizesType DEF TypeOK
    <3> QED BY <3>1, <3>2
  <2> QED BY <2>1
<1>5. UNCHANGED <<c, feeding, getting, putting, collecting>>
  BY DEF Program, ProgramReads, ProgramWrites, ProgramEnds
<1>6. UNCHANGED <<Unread, AtPump, put, flushing, taken>>
  BY <1>5 DEF Unread, AtPump, Left, feeding, getting, putting, collecting
<1>7. AtPump \in Seq(Cell) /\ AtPipe1 \in Seq(Cell) /\ AtGet \in Seq(Cell) /\ held \in Seq(Cell)
  BY <1>1, WayType DEF TypeOK
<1>8. CASE ProgramReads
  <2>1. held = << >> /\ held' = pipe1 /\ pipe1' = << >> /\ pc = "read" /\ UNCHANGED <<pipe2, pc>>
    BY <1>8 DEF ProgramReads
  <2>2. AtCopy = AtPipe1
    BY <1>3, <1>4, <1>7, <2>1, Empty DEF AtCopy, AtGet
  <2>3. AtGet' = AtPump
    BY <1>4, <1>6, <1>7, <2>1, Empty DEF AtGet, AtPipe1
  <2>4. AtCopy' = pipe1 \o AtPump
    BY <2>1, <2>3 DEF AtCopy, Carried
  <2>5. Moves(AtCopy, AtCopy')
    BY <2>2, <2>4 DEF Moves, AtPipe1
  <2> QED BY <1>1, <1>6, <2>1, <2>5, MovesOn
<1>9. CASE ProgramWrites
  <2>1. PICK k \in 1..Least(Len(held), Room(pipe2)) :
          pipe2' = pipe2 \o First(held, k) /\ held' = From(held, k)
    BY <1>9 DEF ProgramWrites
  <2>2. UNCHANGED <<pipe1, pc>>
    BY <1>9 DEF ProgramWrites
  <2>3. k \in 0..Len(held)
    <3>1. Room(pipe2) \in Int /\ Len(held) \in Nat
      BY <1>1, SizesType DEF TypeOK, Room
    <3> QED BY <3>1, LeastIs
  <2>4. held' \in Rests(held, k)
    BY <2>1 DEF Rests
  <2>5. Moves(pipe2 \o (held \o AtGet), (pipe2 \o First(held, k)) \o (held' \o AtGet))
    BY <1>1, <1>7, <2>3, <2>4, Shift DEF TypeOK
  <2>6. AtGet' = AtGet /\ Carried' = held'
    BY <1>2, <1>6, <2>2 DEF AtGet, AtPipe1, Carried
  <2>7. AtPipe2 = pipe2 \o (held \o AtGet)
    <3>1. held \o AtGet \in Seq(Cell)
      BY <1>7, Joined
    <3> QED BY <3>1, <1>2, <1>3, Empty DEF AtPipe2, AtFlush, AtPut, AtCopy
  <2>8. AtPipe2' = pipe2' \o (held' \o AtGet)
    <3>1. held' \o AtGet \in Seq(Cell)
      BY <1>1, <1>7, Joined DEF TypeOK
    <3> QED BY <3>1, <1>2, <1>6, <2>6, Empty DEF AtPipe2, AtFlush, AtPut, AtCopy
  <2>9. Moves(AtPipe2, AtPipe2')
    BY <2>1, <2>5, <2>7, <2>8
  <2> QED BY <1>1, <1>6, <2>9, MovesOn
<1>10. CASE ProgramEnds
  <2>1. pc' = "done" /\ UNCHANGED <<pipe1, pipe2, held>>
    BY <1>10 DEF ProgramEnds
  <2>2. UNCHANGED <<AtPipe1, Carried>>
    BY <1>3, <1>6, <2>1 DEF AtPipe1, Carried
  <2>3. Moves(AtPipe1, AtPipe1')
    BY <2>2 DEF Moves
  <2> QED BY <1>1, <1>6, <2>1, <2>2, <2>3, MovesOn
<1> QED BY <1>8, <1>9, <1>10 DEF Program

(* A step of the output pump loses nothing.                                *)
LEMMA CollectMoves == ASSUME Control, Control', Collect \/ CollectEnds PROVE Moves(Whole, Whole')
<1>1. TypeOK /\ Area /\ TypeOK' /\ Area'
  BY DEF Control
<1>2. UNCHANGED <<c, feeding, pipe1, pc, held, getting, putting>>
  BY DEF Collect, CollectEnds
<1>3. UNCHANGED AtFlush
  BY <1>2 DEF AtFlush, AtPut, AtCopy, AtGet, AtPipe1, AtPump, Carried, Unread, Left,
              feeding, getting, putting
<1>4. CASE Collect
  <2> DEFINE k == Least(BUFSIZ, Len(pipe2))
             bytes == First(pipe2, k)
  <2>1. pipe2' = From(pipe2, Len(bytes)) /\ taken' = taken \o bytes
    BY <1>4 DEF Collect
  <2>2. k \in 0..Len(pipe2)
    <3>1. Len(pipe2) \in Nat
      BY <1>1 DEF TypeOK
    <3> QED BY <3>1, SizesType DEF Least
  <2> HIDE DEF k
  <2>3. Len(bytes) = k
    BY <1>1, <2>2, Parts DEF TypeOK
  <2>4. pipe2' \in Rests(pipe2, k)
    BY <2>1, <2>3 DEF Rests
  <2>5. Moves(taken \o (pipe2 \o AtFlush), (taken \o First(pipe2, k)) \o (pipe2' \o AtFlush))
    BY <1>1, <2>2, <2>4, WayType, Shift DEF TypeOK
  <2> QED BY <1>3, <2>1, <2>5 DEF Whole, AtPipe2
<1>5. CASE CollectEnds
  <2>1. UNCHANGED <<pipe2, taken>>
    BY <1>5 DEF CollectEnds
  <2> QED BY <1>3, <2>1 DEF Moves, Whole, AtPipe2
<1> QED BY <1>4, <1>5

-----------------------------------------------------------------------------
(* What the steps that get or put back have in common.                     *)
LEMMA GettingIs ==
    ASSUME Control, Control', GetBuffered \/ Underflow \/ UnderflowEof \/ Unget
    PROVE  /\ c.mid = "function" /\ pc \in {"read", "eof"} /\ held = << >> /\ Carried = << >>
           /\ UNCHANGED <<c, feeding, pipe2, putting, collecting>>
           /\ UNCHANGED <<AtPump, put, flushing, pipe2, taken>>
           /\ AtPump \in Seq(Cell) /\ AtPipe1 \in Seq(Cell) /\ AtGet \in Seq(Cell)
           /\ Unread \in Seq(Cell) /\ Len(Unread) = egptr - (gptr + back)
           /\ Unread' \in Seq(Cell) /\ Len(Unread') = egptr' - (gptr' + back')
           /\ AtGet' \in Seq(Cell)
           /\ gptr \in Nat /\ egptr \in Nat /\ back \in Nat /\ gptr + back <= egptr
<1>1. TypeOK /\ Area /\ TypeOK' /\ Area' /\ Copying
  BY DEF Control
<1>2. /\ c.mid = "function" /\ pc \in {"read", "eof"} /\ held = << >>
      /\ UNCHANGED <<c, feeding, pipe2, putting, collecting>>
  <2>1. c.mid = "function" /\ pc \in {"read", "eof"}
    BY DEF GetBuffered, Underflow, UnderflowEof, Unget
  <2>2. UNCHANGED <<c, feeding, pipe2, putting, collecting>>
    BY DEF GetBuffered, Underflow, UnderflowEof, Unget
  <2> QED BY <1>1, <2>1, <2>2 DEF Copying
<1>3. UNCHANGED <<AtPump, put, flushing, pipe2, taken>>
  BY <1>2 DEF AtPump, Left, feeding, putting, collecting
<1>4. Carried = << >>
  BY <1>2 DEF Carried
<1>5. /\ AtPump \in Seq(Cell) /\ AtPipe1 \in Seq(Cell) /\ AtGet \in Seq(Cell)
      /\ Unread \in Seq(Cell) /\ Len(Unread) = egptr - (gptr + back)
  BY <1>1, WayType
<1>6. Unread' \in Seq(Cell) /\ Len(Unread') = egptr' - (gptr' + back') /\ AtGet' \in Seq(Cell)
  <2>1. (TypeOK /\ Area => WayOK)'
    BY WayTyped, PTL
  <2> QED BY <1>1, <2>1 DEF WayOK
<1>7. gptr \in Nat /\ egptr \in Nat /\ back \in Nat /\ gptr + back <= egptr
  BY <1>1, SizesType DEF TypeOK, Area
<1> QED BY <1>2, <1>3, <1>4, <1>5, <1>6, <1>7

(* A sequence that has x first, then the elements of t.                    *)
LEMMA First1 ==
    ASSUME NEW x \in Cell, NEW s \in Seq(Cell), NEW t \in Seq(Cell),
           Len(s) = 1 + Len(t), s[1] = x, \A i \in 1..Len(t) : s[1 + i] = t[i]
    PROVE  s = <<x>> \o t
<1> DEFINE u == <<x>> \o t
           n == Len(t)
<1>1. <<x>> \in Seq(Cell) /\ Len(<<x>>) = 1 /\ <<x>>[1] = x /\ 1 \in 1..Len(<<x>>)
  OBVIOUS
<1>2. u \in Seq(Cell) /\ Len(u) = 1 + n /\ u[1] = x /\ \A i \in 1..n : u[1 + i] = t[i]
  BY <1>1, Joined
<1>3. n \in Nat
  OBVIOUS
<1> HIDE DEF u
<1>4. ASSUME NEW i \in 1..(1 + n) PROVE u[i] = s[i]
  <2>1. CASE i = 1
    BY <2>1, <1>2
  <2>2. CASE i # 1
    <3>1. i - 1 \in 1..n /\ 1 + (i - 1) = i
      BY <2>2, <1>3
    <3>2. u[1 + (i - 1)] = t[i - 1] /\ s[1 + (i - 1)] = t[i - 1]
      BY <3>1, <1>2
    <3> QED BY <3>1, <3>2
  <2> QED BY <2>1, <2>2
<1>5. u = s
  BY <1>2, <1>4, SeqEqual
<1> QED BY <1>5 DEF u

(* A character that is got for the first time.                             *)
LEMMA GotNew ==
    ASSUME Control, Control', (GetBuffered /\ ~(back > 0)) \/ Underflow
    PROVE  \E x \in Cell : /\ held' = <<x>> /\ pc' = "put" /\ back = 0 /\ back' = 0
                           /\ seen' = Append(seen, x)
                           /\ AtGet = <<x>> \o AtGet'
<1>1. TypeOK /\ Area
  BY DEF Control
<1>2. /\ UNCHANGED AtPump
      /\ AtPump \in Seq(Cell) /\ AtPipe1 \in Seq(Cell)
      /\ Unread \in Seq(Cell) /\ Len(Unread) = egptr - (gptr + back)
      /\ Unread' \in Seq(Cell) /\ Len(Unread') = egptr' - (gptr' + back')
      /\ gptr \in Nat /\ egptr \in Nat /\ back \in Nat /\ gptr + back <= egptr
  BY GettingIs
<1>3. CASE GetBuffered /\ ~(back > 0)
  <2> DEFINE x == mem[gptr]
  <2>1. gptr < egptr /\ Got(mem, gptr) /\ UNCHANGED <<pipe1, mem, egptr>>
    BY <1>3 DEF GetBuffered
  <2>2. /\ back = 0 /\ gptr' = gptr + 1 /\ back' = 0 /\ pc' = "put" /\ held' = <<x>>
        /\ seen' = Append(seen, x)
    BY <1>2, <1>3, <2>1 DEF Got
  <2>3. x \in Cell
    <3>1. gptr \in 0..(BUFSIZ - 1)
      BY <1>1, <1>2, <2>1, SizesType DEF TypeOK
    <3> QED BY <1>1, <3>1 DEF TypeOK
  <2>4. Len(Unread) = 1 + Len(Unread')
    BY <1>2, <2>1, <2>2
  <2>5. Unread[1] = x
    <3>1. 1 \in 1..(egptr - (gptr + back)) /\ gptr + back + 1 - 1 = gptr
      BY <1>2, <2>1, <2>2
    <3> QED BY <3>1 DEF Unread
  <2>6. \A i \in 1..Len(Unread') : Unread[1 + i] = Unread'[i]
    <3> SUFFICES ASSUME NEW i \in 1..Len(Unread') PROVE Unread[1 + i] = Unread'[i]
      OBVIOUS
    <3>1. /\ i \in 1..(egptr' - (gptr' + back')) /\ 1 + i \in 1..(egptr - (gptr + back))
          /\ gptr' + back' + i - 1 = gptr + back + (1 + i) - 1
      BY <1>2, <2>1, <2>2
    <3>2. Unread'[i] = mem'[gptr' + back' + i - 1]
      BY <3>1 DEF Unread
    <3>3. Unread[1 + i] = mem[gptr + back + (1 + i) - 1]
      BY <3>1 DEF Unread
    <3> QED BY <2>1, <3>1, <3>2, <3>3
  <2> HIDE DEF x
  <2>7. Unread = <<x>> \o Unread'
    BY <1>2, <2>3, <2>4, <2>5, <2>6, First1
  <2>8. (<<x>> \o Unread') \o AtPipe1 = <<x>> \o (Unread' \o AtPipe1)
    <3>1. <<x>> \in Seq(Cell) /\ Unread' \in Seq(Cell) /\ AtPipe1 \in Seq(Cell)
      BY <1>2, <2>3
    <3> QED BY <3>1, Assoc
  <2>9. AtGet' = Unread' \o AtPipe1
    BY <1>2, <2>1 DEF AtGet, AtPipe1
  <2> QED BY <2>2, <2>3, <2>7, <2>8, <2>9 DEF AtGet
<1>4. CASE Underflow
  <2> DEFINE n == Filling
             f == First(pipe1, n)
             g == From(pipe1, n)
             x == Filled[Start]
  <2>1. /\ gptr = egptr /\ pipe1 # << >>
        /\ mem' = Filled /\ pipe1' = g /\ egptr' = Start + n /\ Got(Filled, Start)
    BY <1>4, UnderflowIs
  <2>2. back = 0 /\ Unread = << >>
    <3>1. back = 0
      BY <1>2, <2>1
    <3>2. Len(Unread) = 0
      BY <1>2, <2>1, <3>1
    <3> QED BY <1>2, <3>1, <3>2
  <2>3. /\ Start \in Nat /\ n \in 1..Len(pipe1) /\ pipe1 \in Seq(Cell)
        /\ \A i \in 1..n : Filled[Start + i - 1] = pipe1[i] /\ pipe1[i] \in Cell
    <3>1. Start \in {0, PutBack} /\ n \in 1..Len(pipe1)
      BY <1>1, <2>1, FillType
    <3>2. \A i \in 1..n : Filled[Start + i - 1] = pipe1[i] /\ pipe1[i] \in Cell
      BY <1>1, <2>1, FillType
    <3>3. Start \in Nat
      BY <3>1, SizesType
    <3> QED BY <1>1, <3>1, <3>2, <3>3 DEF TypeOK
  <2>4. /\ gptr' = Start + 1 /\ back' = 0 /\ pc' = "put" /\ held' = <<x>>
        /\ seen' = Append(seen, x)
    BY <2>1, <2>2 DEF Got
  <2>5. /\ f \in Seq(Cell) /\ Len(f) = n /\ (\A i \in 1..n : f[i] = pipe1[i])
        /\ g \in Seq(Cell) /\ f \o g = pipe1
    <3>1. n \in 0..Len(pipe1)
      BY <2>3
    <3> HIDE DEF n
    <3> QED BY <2>3, <3>1, Parts
  <2>6. x = f[1] /\ x \in Cell
    <3>1. 1 \in 1..n /\ Start + 1 - 1 = Start
      BY <2>3
    <3>2. x = pipe1[1] /\ x \in Cell
      BY <2>3, <3>1
    <3> QED BY <2>5, <3>1, <3>2
  <2>7. Len(f) = 1 + Len(Unread')
    BY <1>2, <2>1, <2>3, <2>4, <2>5
  <2>8. \A i \in 1..Len(Unread') : f[1 + i] = Unread'[i]
    <3> SUFFICES ASSUME NEW i \in 1..Len(Unread') PROVE f[1 + i] = Unread'[i]
      OBVIOUS
    <3>1. /\ i \in 1..(egptr' - (gptr' + back')) /\ 1 + i \in 1..n
          /\ gptr' + back' + i - 1 = Start + (1 + i) - 1
      BY <1>2, <2>1, <2>3, <2>4
    <3>2. Unread'[i] = mem'[gptr' + back' + i - 1]
      BY <3>1 DEF Unread
    <3> QED BY <2>1, <2>3, <2>5, <3>1, <3>2
  <2> HIDE DEF n, x, g, f
  <2>9. f = <<x>> \o Unread'
    BY <1>2, <2>5, <2>6, <2>7, <2>8, First1
  <2> DEFINE w == g \o AtPump
  <2>10. w \in Seq(Cell) /\ AtPipe1' = w
    BY <1>2, <2>1, <2>5, Joined DEF AtPipe1
  <2>11. AtGet = pipe1 \o AtPump /\ AtGet' = Unread' \o w
    BY <1>2, <2>2, <2>10, Empty DEF AtGet, AtPipe1
  <2>12. (f \o g) \o AtPump = f \o w
    <3>1. f \in Seq(Cell) /\ g \in Seq(Cell) /\ AtPump \in Seq(Cell)
      BY <1>2, <2>5
    <3> QED BY <3>1, Assoc
  <2> HIDE DEF w
  <2>13. (<<x>> \o Unread') \o w = <<x>> \o (Unread' \o w)
    <3>1. <<x>> \in Seq(Cell) /\ Unread' \in Seq(Cell) /\ w \in Seq(Cell)
      BY <1>2, <2>6, <2>10
    <3> QED BY <3>1, Assoc
  <2>14. AtGet = <<x>> \o AtGet'
    BY <2>5, <2>9, <2>11, <2>12, <2>13
  <2> QED BY <2>2, <2>4, <2>6, <2>14
<1> QED BY <1>3, <1>4

(* A character that is put back or got again, and the end of the input.    *)
LEMMA GotAgain ==
    ASSUME Control, Control', (GetBuffered /\ back > 0) \/ UnderflowEof \/ Unget
    PROVE  UNCHANGED <<Unread, AtGet, Carried, AtPipe1>>
<1>1. /\ UNCHANGED AtPump /\ pc \in {"read", "eof"}
      /\ Unread \in Seq(Cell) /\ Len(Unread) = egptr - (gptr + back)
      /\ Unread' \in Seq(Cell) /\ Len(Unread') = egptr' - (gptr' + back')
      /\ gptr \in Nat /\ egptr \in Nat /\ back \in Nat /\ gptr + back <= egptr
  BY GettingIs
<1>2. UNCHANGED <<pipe1, held>> /\ pc' \in {"read", "eof"}
  BY <1>1 DEF GetBuffered, Got, UnderflowEof, Unget
<1>3. UNCHANGED <<AtPipe1, Carried>>
  BY <1>1, <1>2 DEF AtPipe1, Carried
<1>4. UNCHANGED Unread
  <2>1. CASE GetBuffered /\ back > 0
    <3>1. gptr' = gptr + 1 /\ back' = back - 1 /\ UNCHANGED <<mem, egptr>>
      BY <2>1 DEF GetBuffered, Got
    <3>2. gptr' + back' = gptr + back
      BY <1>1, <3>1
    <3> QED BY <3>1, <3>2, UnreadKept
  <2>2. CASE UnderflowEof
    <3>1. gptr = egptr /\ UNCHANGED <<gptr, egptr, back>>
      BY <2>2 DEF UnderflowEof
    <3>2. back = 0
      BY <1>1, <3>1
    <3>3. Len(Unread) = 0 /\ Len(Unread') = 0
      BY <1>1, <3>1, <3>2
    <3> QED BY <1>1, <3>3
  <2>3. CASE Unget
    <3>1. back' = back + 1 /\ gptr' = gptr - 1 /\ UNCHANGED <<mem, egptr>>
      BY <2>3 DEF Unget
    <3>2. gptr' + back' = gptr + back
      BY <1>1, <3>1
    <3> QED BY <3>1, <3>2, UnreadKept
  <2> QED BY <2>1, <2>2, <2>3
<1> QED BY <1>3, <1>4 DEF AtGet

(* Getting and putting back loses nothing.                                 *)
LEMMA GettingMoves ==
    ASSUME Control, Control', GetBuffered \/ Underflow \/ UnderflowEof \/ Unget
    PROVE  Moves(Whole, Whole')
<1>1. TypeOK /\ Area /\ TypeOK' /\ Area'
  BY DEF Control
<1>2. /\ UNCHANGED <<put, flushing, pipe2, taken>>
      /\ Carried = << >> /\ AtGet \in Seq(Cell)
  BY GettingIs
<1>3. CASE (GetBuffered /\ ~(back > 0)) \/ Underflow
  <2>1. PICK x \in Cell : held' = <<x>> /\ pc' = "put" /\ AtGet = <<x>> \o AtGet'
    BY <1>3, GotNew
  <2>2. AtCopy = AtGet
    BY <1>2, Empty DEF AtCopy
  <2>3. AtCopy' = <<x>> \o AtGet'
    BY <2>1 DEF AtCopy, Carried
  <2>4. Moves(AtCopy, AtCopy')
    BY <2>1, <2>2, <2>3 DEF Moves
  <2> QED BY <1>1, <1>2, <2>4, MovesOn
<1>4. CASE (GetBuffered /\ back > 0) \/ UnderflowEof \/ Unget
  <2>1. UNCHANGED <<Unread, Carried, AtPipe1>>
    BY <1>4, GotAgain
  <2>2. Moves(AtPipe1, AtPipe1')
    BY <2>1 DEF Moves
  <2> QED BY <1>1, <1>2, <2>1, <2>2, MovesOn
<1> QED BY <1>3, <1>4

(* Putting loses nothing but in a stream that has failed, and flushing     *)
(* nothing but for a signal.                                               *)
LEMMA PuttingMoves ==
    ASSUME Control, Control', \/ PutBuffered \/ Overflow \/ Sync \/ FlushWrites \/ Flushed
                              \/ FunctionFlushes \/ FunctionEnds
    PROVE  Moves(Whole, Whole')
<1>1. TypeOK /\ Area /\ TypeOK' /\ Area' /\ Copying
  BY DEF Control
<1>2. UNCHANGED <<c, feeding, pipe1, getting, collecting>>
  BY DEF PutBuffered, Overflow, Sync, FlushWrites, Flushed, FunctionFlushes, FunctionEnds
<1>3. UNCHANGED <<AtGet, Unread, AtPipe1, taken>>
  BY <1>2 DEF AtGet, AtPipe1, AtPump, Unread, Left, feeding, getting, collecting
<1>4. /\ AtGet \in Seq(Cell) /\ AtCopy \in Seq(Cell) /\ AtPut \in Seq(Cell)
      /\ put \in Seq(Cell) /\ held \in Seq(Cell) /\ flushing \in Seq(Cell) /\ pipe2 \in Seq(Cell)
  BY <1>1, WayType DEF TypeOK
<1>5. pc # "overflow" => Carried = held
  BY DEF Carried
<1>6. put \o (held \o AtGet) = (put \o held) \o AtGet
  <2>1. put \in Seq(Cell) /\ held \in Seq(Cell) /\ AtGet \in Seq(Cell)
    BY <1>4
  <2> QED BY <2>1, Assoc
<1>7. CASE PutBuffered
  <2>1. /\ pc = "put" /\ pc' \in {"read", "flush"} /\ held' = << >>
        /\ put' = (IF badbit THEN put ELSE put \o held)
        /\ UNCHANGED <<pipe2, flushing, badbit>>
    BY <1>7 DEF PutBuffered
  <2>2. AtPut = put \o (held \o AtGet) /\ AtPut' = put' \o AtGet
    <3>1. AtCopy' = AtGet
      BY <1>3, <1>4, <2>1, Empty DEF AtCopy, Carried
    <3> QED BY <1>5, <2>1, <3>1 DEF AtPut, AtCopy
  <2>3. CASE badbit
    <3>1. Loses(AtPut, AtPut')
      BY <1>4, <2>1, <2>2, <2>3 DEF Loses
    <3>2. Moves(AtPut, AtPut')
      BY <2>3, <3>1 DEF Moves
    <3> QED BY <1>1, <1>3, <2>1, <3>2, MovesOn
  <2>4. CASE ~badbit
    <3>1. AtPut' = AtPut
      BY <1>6, <2>1, <2>2, <2>4
    <3>2. Moves(AtPut, AtPut')
      BY <3>1 DEF Moves
    <3> QED BY <1>1, <1>3, <2>1, <3>2, MovesOn
  <2> QED BY <2>3, <2>4
<1>8. CASE Overflow
  <2>1. /\ pc = "put" /\ flushing' = put \o held /\ put' = << >> /\ pc' = "overflow"
        /\ UNCHANGED <<pipe2, held>>
    BY <1>8 DEF Overflow
  <2>2. flushing = << >>
    BY <1>1, <2>1 DEF Copying, Ends
  <2>3. AtFlush = put \o (held \o AtGet)
    BY <1>4, <1>5, <2>1, <2>2, Empty DEF AtFlush, AtPut, AtCopy
  <2>4. AtFlush' = (put \o held) \o AtGet
    BY <1>3, <1>4, <2>1, Empty DEF AtFlush, AtPut, AtCopy, Carried
  <2>5. Moves(AtFlush, AtFlush')
    BY <1>6, <2>3, <2>4 DEF Moves
  <2> QED BY <1>1, <1>3, <2>1, <2>5, MovesOn
<1>9. CASE Sync \/ FunctionFlushes
  <2>1. /\ pc \in {"flush", "eof"} /\ flushing' = put /\ put' = << >> /\ pc' \in {"sync", "last"}
        /\ UNCHANGED <<pipe2, held>>
    BY <1>9 DEF Sync, FunctionFlushes
  <2>2. flushing = << >>
    BY <1>1, <2>1 DEF Copying, Ends
  <2>3. UNCHANGED AtCopy
    BY <1>3, <2>1 DEF AtCopy, Carried
  <2>4. AtFlush = put \o AtCopy /\ AtFlush' = put \o AtCopy
    BY <1>4, <2>1, <2>2, <2>3, Empty DEF AtFlush, AtPut
  <2>5. Moves(AtFlush, AtFlush')
    BY <2>4 DEF Moves
  <2> QED BY <1>1, <1>3, <2>1, <2>5, MovesOn
<1>10. CASE FlushWrites
  <2> DEFINE k == Least(Room(pipe2), Len(flushing))
  <2>1. /\ pipe2' = pipe2 \o First(flushing, k) /\ flushing' \in Rests(flushing, k) /\ Room(pipe2) > 0
        /\ UNCHANGED <<pc, held, put>>
    BY <1>10 DEF FlushWrites
  <2>2. k \in 0..Len(flushing)
    <3>1. Room(pipe2) \in Int /\ Len(flushing) \in Nat
      BY <1>4, SizesType DEF Room
    <3> QED BY <3>1, <2>1 DEF Least
  <2> HIDE DEF k
  <2>3. UNCHANGED AtPut
    BY <1>3, <2>1 DEF AtPut, AtCopy, Carried
  <2>4. Moves(pipe2 \o (flushing \o AtPut), (pipe2 \o First(flushing, k)) \o (flushing' \o AtPut))
    BY <1>4, <2>1, <2>2, Shift
  <2>5. Moves(AtPipe2, AtPipe2')
    BY <2>1, <2>3, <2>4 DEF AtPipe2, AtFlush
  <2> QED BY <1>1, <1>3, <2>5, MovesOn
<1>11. CASE Flushed
  <2>1. pc \in {"overflow", "sync"} /\ pc' = "read" /\ held' = << >> /\ UNCHANGED <<pipe2, put, flushing>>
    BY <1>11 DEF Flushed
  <2>2. Carried = << >>
    <3>1. c.mid \in {"program", "function"}
      BY <1>1, CaseType DEF TypeOK
    <3>2. pc = "sync" => held = << >>
      BY <1>1, <3>1 DEF Copying
    <3> QED BY <2>1, <3>2 DEF Carried
  <2>3. Carried' = << >>
    BY <2>1 DEF Carried
  <2>4. Moves(AtPipe1, AtPipe1')
    BY <1>3 DEF Moves
  <2> QED BY <1>1, <1>3, <2>1, <2>2, <2>3, <2>4, MovesOn
<1>12. CASE FunctionEnds
  <2>1. pc \in {"eof", "last"} /\ pc' = "done" /\ UNCHANGED <<pipe2, held, put, flushing>>
    BY <1>12 DEF FunctionEnds, putting
  <2>2. UNCHANGED Carried
    BY <2>1 DEF Carried
  <2>3. Moves(AtPipe1, AtPipe1')
    BY <1>3 DEF Moves
  <2> QED BY <1>1, <1>3, <2>1, <2>2, <2>3, MovesOn
<1> QED BY <1>7, <1>8, <1>9, <1>10, <1>11, <1>12

-----------------------------------------------------------------------------
(* The first bytes of two sequences joined.                                *)
LEMMA FirstOf ==
    ASSUME NEW s \in Seq(Cell), NEW t \in Seq(Cell)
    PROVE  /\ \A i \in 0..Len(s) : First(s \o t, i) = First(s, i)
           /\ \A j \in 0..Len(t) : First(s \o t, Len(s) + j) = s \o First(t, j)
<1> DEFINE u == s \o t
           n == Len(s)
           l == Len(t)
<1>1. /\ n \in Nat /\ l \in Nat
      /\ u \in Seq(Cell) /\ Len(u) = n + l
      /\ (\A i \in 1..n : u[i] = s[i]) /\ \A i \in 1..l : u[n + i] = t[i]
  BY Joined
<1> HIDE DEF u
<1>2. ASSUME NEW i \in 0..n PROVE First(u, i) = First(s, i)
  <2>1. i \in 0..Len(u) /\ i \in 0..Len(s)
    BY <1>1
  <2>2. First(u, i) \in Seq(Cell) /\ Len(First(u, i)) = i /\ \A h \in 1..i : First(u, i)[h] = u[h]
    BY <1>1, <2>1, Parts
  <2>3. First(s, i) \in Seq(Cell) /\ Len(First(s, i)) = i /\ \A h \in 1..i : First(s, i)[h] = s[h]
    BY <2>1, Parts
  <2>4. \A h \in 1..i : h \in 1..n
    BY <1>1
  <2>5. \A h \in 1..i : First(u, i)[h] = First(s, i)[h]
    BY <1>1, <2>2, <2>3, <2>4
  <2> QED BY <2>2, <2>3, <2>5, SeqEqual
<1>3. ASSUME NEW j \in 0..l PROVE First(u, n + j) = s \o First(t, j)
  <2> DEFINE f == First(u, n + j)
             g == First(t, j)
             v == s \o g
  <2>1. n + j \in 0..Len(u) /\ j \in 0..Len(t)
    BY <1>1
  <2>2. f \in Seq(Cell) /\ Len(f) = n + j /\ \A h \in 1..(n + j) : f[h] = u[h]
    BY <1>1, <2>1, Parts
  <2>3. g \in Seq(Cell) /\ Len(g) = j /\ \A h \in 1..j : g[h] = t[h]
    BY <2>1, Parts
  <2> HIDE DEF f, g
  <2>4. /\ v \in Seq(Cell) /\ Len(v) = n + j
        /\ (\A i \in 1..n : v[i] = s[i]) /\ \A i \in 1..j : v[n + i] = g[i]
    <3>1. s \in Seq(Cell) /\ g \in Seq(Cell)
      BY <2>3
    <3>2. /\ v \in Seq(Cell) /\ Len(v) = Len(s) + Len(g)
          /\ (\A i \in 1..Len(s) : v[i] = s[i]) /\ \A i \in 1..Len(g) : v[Len(s) + i] = g[i]
      BY <3>1, Joined
    <3> QED BY <2>3, <3>2
  <2> HIDE DEF v
  <2>5. ASSUME NEW h \in 1..(n + j) PROVE f[h] = v[h]
    <3>1. CASE h <= n
      <4>1. h \in 1..n
        BY <3>1, <1>1
      <4> QED BY <4>1, <1>1, <2>2, <2>4
    <3>2. CASE ~(h <= n)
      <4>1. h - n \in 1..j /\ h - n \in 1..l /\ n + (h - n) = h
        BY <3>2, <1>1
      <4>2. u[n + (h - n)] = t[h - n] /\ v[n + (h - n)] = g[h - n] /\ g[h - n] = t[h - n]
        BY <4>1, <1>1, <2>3, <2>4
      <4> QED BY <4>1, <4>2, <2>2
    <3> QED BY <3>1, <3>2
  <2>6. f = v
    BY <2>2, <2>4, <2>5, SeqEqual
  <2> QED BY <2>6 DEF f, g, v
<1> QED BY <1>2, <1>3 DEF u

(* The sink has what the functor makes of all that has been read.          *)
Sunk ==
    /\ c.to = "string" => sink = Kept \o taken
    /\ c.to = "lines" => sink = Kept \o LinesOf(taken) /\ temp = Rest(taken)
    /\ c.to = "ostream" => sink = Kept \o First(taken, Least(c.room, Len(taken)))

(* What the sink had before is of its type.                                *)
LEMMA KeptType ==
    IF c.to = "lines" THEN Kept \in Seq(Seq(Cell)) ELSE Kept \in Seq(Cell)
<1>1. "a" \in Cell
  BY DEF Cell
<1>2. <<"a">> \in Seq(Cell)
  BY <1>1
<1>3. <<<<"a">>>> \in Seq(Seq(Cell))
  BY <1>2
<1>4. << >> \in Seq(Cell) /\ << >> \in Seq(Seq(Cell))
  OBVIOUS
<1> QED BY <1>2, <1>3, <1>4 DEF Kept, Old

(* At first the sink has what it had before.                               *)
LEMMA SunkInit == ASSUME Init PROVE Sunk
<1>1. taken = << >> /\ temp = << >> /\ sink = Kept
  BY DEF Init
<1>2. << >> \in Seq(Cell) /\ Len(<< >>) = 0
  OBVIOUS
<1>3. Newlines(<< >>) = {}
  BY DEF Newlines
<1>4. Cardinality({}) = 0
  BY FS_EmptySet
<1>5. LinesOf(<< >>) = << >>
  <2>1. LinesOf(<< >>) = [k \in 1..0 |-> Chomp(SubSeq(<< >>, Begin(<< >>, k) + 1, End(<< >>, k) - 1))]
    BY <1>2, <1>3, <1>4, LineIs
  <2>2. LinesOf(<< >>) \in Seq(Seq(Cell))
    BY <1>2, LineIs
  <2>3. DOMAIN LinesOf(<< >>) = 1..0
    BY <2>1
  <2>4. Len(LinesOf(<< >>)) = 0
    BY <2>2, <2>3
  <2> QED BY <2>2, <2>4
<1>6. Rest(<< >>) = << >>
  <2> DEFINE m == Max({0} \cup Newlines(<< >>))
  <2>1. m \in 0..0
    BY <1>2, LastIs
  <2>2. m + 1 \in Int /\ 0 \in Int /\ 0 < m + 1
    BY <2>1
  <2> HIDE DEF m
  <2>3. SubSeq(<< >>, m + 1, 0) = << >>
    BY <2>2, SubSeqEmpty
  <2> QED BY <1>2, <2>3 DEF Rest, m
<1>7. First(<< >>, Least(c.room, 0)) = << >>
  <2>1. 1 \in Int /\ Least(c.room, 0) \in Int /\ Least(c.room, 0) < 1
    <3>1. c.room \in Nat
      BY CaseType DEF Init
    <3> QED BY <3>1 DEF Least
  <2> QED BY <2>1, SubSeqEmpty DEF First
<1>8. Kept \o << >> = Kept
  <2>1. Kept \in Seq(Cell) \/ Kept \in Seq(Seq(Cell))
    BY KeptType
  <2>2. \A X : \A s \in Seq(X) : s \o << >> = s
    BY ConcatEmptySeq
  <2> QED BY <2>1, <2>2
<1> QED BY <1>1, <1>2, <1>5, <1>6, <1>7, <1>8 DEF Sunk

(* What one call of the functor adds is what the whole text has more.      *)
LEMMA SunkCollect == ASSUME TypeOK, Sunk, Collect PROVE Sunk'
<1> DEFINE k == Least(BUFSIZ, Len(pipe2))
           bytes == First(pipe2, k)
<1>1. /\ taken' = taken \o bytes /\ c' = c /\ Kept' = Kept
      /\ CASE c.to = "string" -> StringSink(bytes)
           [] c.to = "lines" -> LinesSink(bytes)
           [] c.to = "ostream" -> StreamSink(bytes)
  BY DEF Collect, Kept, Old
<1>2. bytes \in Seq(Cell) /\ taken \in Seq(Cell)
  <2>1. k \in 0..Len(pipe2) /\ pipe2 \in Seq(Cell)
    <3>1. Len(pipe2) \in Nat
      BY DEF TypeOK
    <3> QED BY <3>1, SizesType DEF Least, TypeOK
  <2> HIDE DEF k
  <2> QED BY <2>1, Parts DEF TypeOK
<1> HIDE DEF bytes
<1>3. c.to \in {"string", "lines", "ostream"} /\ c.room \in Nat
  BY CaseType DEF TypeOK
<1>4. CASE c.to = "string"
  <2>1. sink = Kept \o taken /\ sink' = sink \o bytes
    BY <1>1, <1>4 DEF Sunk, StringSink
  <2>2. Kept \in Seq(Cell)
    BY <1>4, KeptType
  <2>3. (Kept \o taken) \o bytes = Kept \o (taken \o bytes)
    BY <1>2, <2>2, Assoc
  <2>4. sink' = Kept' \o taken'
    BY <1>1, <2>1, <2>3
  <2> QED BY <1>1, <1>4, <2>4 DEF Sunk
<1>5. CASE c.to = "lines"
  <2> DEFINE r == Splitter(Rest(taken), bytes)
             l == LinesOf(taken)
             d == r.lines
  <2>1. sink = Kept \o l /\ sink' = sink \o d /\ temp' = r.temp
    BY <1>1, <1>5 DEF Sunk, LinesSink
  <2>2. /\ r \in Accs /\ l \o d = LinesOf(taken \o bytes) /\ r.temp = Rest(taken \o bytes)
    BY <1>2, Splits
  <2>3. Kept \in Seq(Seq(Cell)) /\ l \in Seq(Seq(Cell)) /\ d \in Seq(Seq(Cell))
    BY <1>2, <1>5, <2>2, KeptType, LineIs DEF Accs
  <2> HIDE DEF r, l, d
  <2>4. (Kept \o l) \o d = Kept \o (l \o d)
    BY <2>3, ConcatAssociative, SMTT(40)
  <2>5. sink' = Kept' \o LinesOf(taken') /\ temp' = Rest(taken')
    BY <1>1, <2>1, <2>2, <2>4
  <2> QED BY <1>1, <1>5, <2>5 DEF Sunk
<1>6. CASE c.to = "ostream"
  <2> DEFINE n == Len(taken)
             b == Len(bytes)
             q == c.room
             t == taken \o bytes
  <2>1. /\ sink = Kept \o First(taken, Least(q, n))
        /\ sink' = sink \o IF n > q THEN << >> ELSE First(bytes, Least(b, q - n))
    BY <1>1, <1>6 DEF Sunk, StreamSink
  <2>2. n \in Nat /\ b \in Nat /\ q \in Nat
    BY <1>2, <1>3
  <2>3. Kept \in Seq(Cell)
    BY <1>6, KeptType
  <2>4. t \in Seq(Cell) /\ Len(t) = n + b
    BY <1>2, Joined
  <2>5. CASE n > q
    <3>1. Least(q, n) = q /\ Least(q, n + b) = q /\ q \in 0..n
      BY <2>2, <2>5 DEF Least
    <3>2. First(t, q) = First(taken, q) /\ First(taken, q) \in Seq(Cell)
      BY <1>2, <3>1, FirstOf, Parts
    <3>3. (Kept \o First(taken, q)) \o << >> = Kept \o First(taken, q)
      <4>1. Kept \o First(taken, q) \in Seq(Cell)
        BY <2>3, <3>2, Joined
      <4> QED BY <4>1, Empty
    <3>4. sink' = Kept \o First(t, Least(q, Len(t)))
      BY <2>1, <2>4, <2>5, <3>1, <3>2, <3>3
    <3> QED BY <1>1, <1>6, <3>4 DEF Sunk
  <2>6. CASE ~(n > q)
    <3> DEFINE j == Least(b, q - n)
    <3>1. Least(q, n) = n /\ j \in 0..b /\ Least(q, n + b) = n + j
      BY <2>2, <2>6 DEF Least
    <3> HIDE DEF j
    <3>2. /\ First(taken, n) = taken /\ First(t, n + j) = taken \o First(bytes, j)
          /\ First(bytes, j) \in Seq(Cell)
      <4>1. First(taken, n) = taken
        BY <1>2, SubSeqFull DEF First
      <4> QED BY <1>2, <3>1, <4>1, FirstOf, Parts
    <3>3. (Kept \o taken) \o First(bytes, j) = Kept \o (taken \o First(bytes, j))
      <4> DEFINE e == First(bytes, j)
      <4>1. Kept \in Seq(Cell) /\ taken \in Seq(Cell) /\ e \in Seq(Cell)
        BY <1>2, <2>3, <3>2
      <4> HIDE DEF e
      <4>2. (Kept \o taken) \o e = Kept \o (taken \o e)
        BY <4>1, Assoc
      <4> QED BY <4>2 DEF e
    <3>4. sink' = Kept \o First(t, Least(q, Len(t)))
      BY <2>1, <2>4, <2>6, <3>1, <3>2, <3>3 DEF j
    <3> QED BY <1>1, <1>6, <3>4 DEF Sunk
  <2> QED BY <2>5, <2>6
<1> QED BY <1>3, <1>4, <1>5, <1>6

(* Nothing but the output pump touches the sink.                           *)
LEMMA SunkStep == ASSUME TypeOK, Sunk, [Next]_vars PROVE Sunk'
<1>1. Collect \/ UNCHANGED <<c, taken, temp, sink>>
  BY DEF Next, vars, Feed, Program, Function, FeedCall, FeedWrite, ProgramReads, ProgramWrites,
         ProgramEnds, GetBuffered, Underflow, UnderflowEof, Unget, PutBuffered, Overflow, Sync,
         FlushWrites, Flushed, FunctionFlushes, FunctionEnds, CollectEnds, collecting
<1>2. CASE UNCHANGED <<c, taken, temp, sink>>
  BY <1>2 DEF Sunk, Kept, Old
<1> QED BY <1>1, <1>2, SunkCollect

-----------------------------------------------------------------------------
(* What the function has got and what is still to be got make up the       *)
(* input, unless a write was cut short or a character was put back at the  *)
(* end of the input.                                                       *)
Gotten == c.mid = "function" /\ ~c.signals /\ ~c.late => seen \o AtGet = Input

(* The put_back_size characters before the next one lie behind it in the   *)
(* get area, until the end of the input has been seen.                     *)
BehindAt(m, p, s) ==
    \A k \in 1..PutBack : k <= Len(s) /\ k <= p => m[p - k] = s[Len(s) - k + 1]

Behind ==
    c.mid = "function" /\ ~c.late /\ pc \notin Ends /\ eback = 0 => BehindAt(mem, gptr + back, seen)

(* The initial state has the types and the control state of the invariant. *)
LEMMA ControlInit == ASSUME Init PROVE Control
<1>1. c \in Cases /\ c.ungets \in Nat /\ source \in Sources
  BY CaseType DEF Init, Sources
<1>2. << >> \in Seq(Cell) /\ Junk \in Cell /\ Len(<< >>) = 0
  BY DEF Cell
<1>3. mem \in [0..(BUFSIZ - 1) -> Cell] /\ gptr \in 0..BUFSIZ /\ egptr \in 0..BUFSIZ
  BY <1>2, SizesType DEF Init
<1>4. TypeOK
  BY <1>1, <1>2, <1>3 DEF Init, TypeOK
<1>5. Feeding /\ Area
  BY <1>2, SizesType DEF Init, Feeding, Area
<1>6. Copying
  BY <1>2, SizesType DEF Init, Copying, Ends
<1> QED BY <1>4, <1>5, <1>6 DEF Control

(* At first everything is in the source.                                   *)
LEMMA WayInit == ASSUME Init PROVE Whole = Input /\ AtGet = Input /\ Input \in Seq(Cell)
<1>1. Control
  BY ControlInit
<1>2. Left \in Seq(Cell) /\ Left = Input
  BY <1>1, WayType DEF Init, Control, Left, Input
<1>3. Unread = << >>
  <2>1. Unread \in Seq(Cell) /\ Len(Unread) = egptr - (gptr + back)
    BY <1>1, WayType DEF Control
  <2>2. egptr - (gptr + back) = 0
    BY SizesType DEF Init
  <2> QED BY <2>1, <2>2
<1>4. AtPump = Left /\ AtPipe1 = Left /\ AtGet = Left
  BY <1>2, <1>3, Empty DEF Init, AtPump, AtPipe1, AtGet
<1>5. Carried = << >>
  BY DEF Init, Carried
<1>6. AtCopy = Left /\ AtPut = Left /\ AtFlush = Left
  BY <1>2, <1>4, <1>5, Empty DEF Init, AtCopy, AtPut, AtFlush
<1>7. AtPipe2 = Left /\ Whole = Left
  BY <1>2, <1>6, Empty DEF Init, AtPipe2, Whole
<1> QED BY <1>2, <1>4, <1>7

(* Nothing has been got at first.                                          *)
LEMMA AgainInit == ASSUME Init PROVE Gotten /\ Behind
<1>1. Gotten
  BY WayInit, Empty DEF Init, Gotten
<1>2. Behind
  BY SizesType DEF Init, Behind
<1> QED BY <1>1, <1>2

(* A character that was put back is got again.                             *)
LEMMA SameAgain ==
    ASSUME Control, Behind, GetBuffered, back > 0, ~c.late
    PROVE  seen' = seen
<1>1. TypeOK /\ Area
  BY DEF Control
<1>2. /\ c.mid = "function" /\ pc = "read" /\ gptr < egptr
      /\ seen' = [seen EXCEPT ![Len(seen) - back + 1] = mem[gptr]]
  BY DEF GetBuffered, Got
<1>3. /\ gptr \in Nat /\ back \in Nat /\ Len(seen) \in Nat /\ PutBack \in Nat
      /\ back <= PutBack /\ back <= Len(seen) /\ eback = 0
  BY <1>1, <1>2, SizesType DEF TypeOK, Area
<1>4. back \in 1..PutBack /\ back <= gptr + back /\ gptr + back - back = gptr
  BY <1>3
<1>5. mem[gptr] = seen[Len(seen) - back + 1]
  BY <1>2, <1>3, <1>4 DEF Behind, BehindAt, Ends
<1>6. seen \in Seq(Cell)
  BY <1>1 DEF TypeOK
<1> QED BY <1>2, <1>5, <1>6

(* What has been got and put back is not touched.                          *)
LEMMA AgainSame ==
    ASSUME Gotten, Behind, UNCHANGED <<c, AtGet, mem, eback, seen>>,
           gptr' + back' = gptr + back, pc' \notin Ends => pc \notin Ends
    PROVE  Gotten' /\ Behind'
<1>1. Input' = Input
  BY DEF Input
<1>2. Gotten'
  BY <1>1 DEF Gotten
<1>3. Behind'
  BY DEF Behind
<1> QED BY <1>2, <1>3

(* A number that nothing is added to.                                     *)
LEMMA PlusNone == ASSUME NEW i \in Nat, NEW j, j = 0 PROVE i + j = i
OBVIOUS

(* What lies behind once x has been got.                                   *)
LEMMA BehindNext ==
    ASSUME NEW m, NEW n, NEW g \in Nat, NEW h \in Nat, NEW s \in Seq(Cell), NEW x \in Cell,
           n[h - 1] = x,
           \A k \in 1..(PutBack - 1) :
              k <= Len(s) /\ k + 1 <= h => k <= g /\ n[h - (k + 1)] = m[g - k] /\ BehindAt(m, g, s)
    PROVE  BehindAt(n, h, Append(s, x))
<1> DEFINE l == Len(s)
           t == Append(s, x)
<1>1. l \in Nat /\ Len(t) = l + 1 /\ t[l + 1] = x /\ \A k \in 1..l : t[k] = s[k]
  BY Appended
<1>2. PutBack \in Nat
  BY SizesType
<1> HIDE DEF l, t
<1>3. ASSUME NEW k \in 1..PutBack, k <= l + 1, k <= h PROVE n[h - k] = t[l + 1 - k + 1]
  <2>1. CASE k = 1
    <3>1. l + 1 - k + 1 = l + 1 /\ h - k = h - 1
      BY <1>1, <2>1
    <3> QED BY <1>1, <3>1
  <2>2. CASE k # 1
    <3> DEFINE j == k - 1
    <3>1. /\ j \in 1..(PutBack - 1) /\ j \in 1..PutBack /\ j <= l /\ j + 1 <= h /\ j + 1 = k
          /\ l + 1 - k + 1 = l - j + 1 /\ l - j + 1 \in 1..l
      BY <1>1, <1>2, <1>3, <2>2
    <3> HIDE DEF j
    <3>2. j <= g /\ n[h - (j + 1)] = m[g - j] /\ BehindAt(m, g, s)
      BY <3>1 DEF l
    <3>3. m[g - j] = s[l - j + 1]
      BY <3>1, <3>2 DEF BehindAt, l
    <3>4. t[l - j + 1] = s[l - j + 1]
      BY <1>1, <3>1
    <3> QED BY <3>1, <3>2, <3>3, <3>4
  <2> QED BY <2>1, <2>2
<1>4. BehindAt(n, h, t)
  BY <1>1, <1>3 DEF BehindAt
<1> QED BY <1>4 DEF t

(* A new character extends what has been got, and lies behind the next.    *)
LEMMA AgainNew ==
    ASSUME Control, Control', Gotten, Behind, (GetBuffered /\ ~(back > 0)) \/ Underflow
    PROVE  Gotten' /\ Behind'
<1>1. TypeOK /\ Area /\ TypeOK' /\ Area'
  BY DEF Control
<1>2. PICK x \in Cell :
        /\ held' = <<x>> /\ pc' = "put" /\ back = 0 /\ back' = 0
        /\ seen' = Append(seen, x) /\ AtGet = <<x>> \o AtGet'
  BY GotNew
<1>3. AtGet' \in Seq(Cell) /\ c' = c /\ pc \in {"read", "eof"} /\ c.mid = "function"
  BY GettingIs
<1>4. /\ Len(seen) \in Nat /\ seen \in Seq(Cell) /\ Len(seen') = Len(seen) + 1
      /\ seen'[Len(seen) + 1] = x /\ \A k \in 1..Len(seen) : seen'[k] = seen[k]
  BY <1>1, <1>2, Appended DEF TypeOK
<1>5. Gotten'
  <2>1. Append(seen, x) = seen \o <<x>> /\ <<x>> \in Seq(Cell)
    BY <1>4, AppendIsConcat
  <2>2. (seen \o <<x>>) \o AtGet' = seen \o (<<x>> \o AtGet')
    <3>1. seen \in Seq(Cell) /\ <<x>> \in Seq(Cell) /\ AtGet' \in Seq(Cell)
      BY <1>3, <1>4, <2>1
    <3> QED BY <3>1, Assoc
  <2>3. Input' = Input
    BY <1>3 DEF Input
  <2> QED BY <1>2, <1>3, <2>1, <2>2, <2>3 DEF Gotten
<1>6. pc = "read" /\ pc \notin Ends
  BY DEF GetBuffered, Underflow, Ends
<1>7. /\ gptr \in Nat /\ egptr \in Nat /\ gptr' \in Nat /\ PutBack \in Nat /\ 0 < PutBack
      /\ gptr <= egptr
  BY <1>1, SizesType DEF TypeOK, Area
<1>8. /\ mem'[gptr' - 1] = x
      /\ \A k \in 1..(PutBack - 1) :
            k <= Len(seen) /\ k + 1 <= gptr' /\ eback' = 0 =>
                k <= gptr /\ mem'[gptr' - (k + 1)] = mem[gptr - k] /\ eback = 0
  <2>1. CASE GetBuffered /\ ~(back > 0)
    <3>1. gptr' = gptr + 1 /\ UNCHANGED <<mem, eback>> /\ held' = <<mem[gptr]>>
      BY <2>1 DEF GetBuffered, Got
    <3>2. mem[gptr] = x
      BY <1>2, <3>1
    <3>3. /\ gptr' - 1 = gptr
          /\ \A k \in 1..(PutBack - 1) : gptr' - (k + 1) = gptr - k /\ (k + 1 <= gptr' => k <= gptr)
      BY <1>7, <3>1
    <3> QED BY <3>1, <3>2, <3>3
  <2>2. CASE Underflow
    <3>1. /\ gptr = egptr /\ pipe1 # << >> /\ mem' = Filled /\ eback' = 0 /\ Got(Filled, Start)
      BY <2>2, UnderflowIs
    <3>2. gptr' = Start + 1 /\ held' = <<Filled[Start]>>
      BY <1>2, <3>1 DEF Got
    <3>3. Start \in Nat /\ Filled[Start] = x
      BY <1>2, <3>2, SizesType DEF Start
    <3>4. \A i \in 0..(Start - 1) : Filled[i] = Moved[i]
      BY <1>1, <3>1, FillType
    <3>5. ASSUME NEW k \in 1..(PutBack - 1), k <= Len(seen), k + 1 <= gptr'
          PROVE  eback = 0 /\ k <= gptr /\ mem'[gptr' - (k + 1)] = mem[gptr - k]
      <4>1. Start # 0
        BY <3>2, <3>5, <1>7
      <4>2. Start = PutBack /\ eback = 0
        BY <4>1 DEF Start
      <4>3. k <= gptr
        BY <1>1, <1>2, <1>4, <1>7, <3>1, <3>5, <4>2 DEF Area
      <4> DEFINE i == Start - k
      <4>4. i \in 0..(Start - 1) /\ gptr' - (k + 1) = i /\ i \in 0..(BUFSIZ - 1)
        BY <1>7, <3>2, <4>2, SizesType
      <4>5. ~(i >= Start) /\ egptr - PutBack + i = gptr - k /\ ~(egptr - PutBack + i < 0)
        BY <1>7, <3>1, <4>2, <4>3
      <4>6. DOMAIN mem = 0..(BUFSIZ - 1)
        BY <1>1 DEF TypeOK
      <4> HIDE DEF i
      <4>7. Moved[i] = mem[gptr - k]
        BY <4>4, <4>5, <4>6 DEF Moved
      <4> QED BY <3>1, <3>4, <4>2, <4>3, <4>4, <4>7
    <3>6. gptr' - 1 = Start
      BY <3>2, <3>3
    <3> QED BY <3>1, <3>3, <3>5, <3>6
  <2> QED BY <2>1, <2>2
<1>9. ASSUME ~c.late, eback' = 0 PROVE BehindAt(mem', gptr', Append(seen, x))
  <2>1. gptr + back = gptr
    BY <1>2, <1>7, PlusNone
  <2>2. eback = 0 => BehindAt(mem, gptr, seen)
    BY <1>3, <1>6, <1>9, <2>1 DEF Behind
  <2>3. \A k \in 1..(PutBack - 1) :
            k <= Len(seen) /\ k + 1 <= gptr' =>
                k <= gptr /\ mem'[gptr' - (k + 1)] = mem[gptr - k] /\ BehindAt(mem, gptr, seen)
    BY <1>8, <1>9, <2>2
  <2> QED BY <1>4, <1>7, <1>8, <2>3, BehindNext
<1>10. Behind'
  <2>1. gptr' + back' = gptr'
    BY <1>2, <1>7, PlusNone
  <2> QED BY <1>2, <1>3, <1>9, <2>1 DEF Behind
<1> QED BY <1>5, <1>10

(* Every step keeps both.                                                  *)
LEMMA AgainStep ==
    ASSUME Control, Control', Gotten, Behind, [Next]_vars
    PROVE  Gotten' /\ Behind'
<1>1. TypeOK /\ Area /\ Copying
  BY DEF Control
<1>2. CASE c.mid = "program" \/ c.late
  <2>1. c' = c
    BY DEF Next, vars, Feed, Program, Function, FeedCall, FeedWrite, ProgramReads, ProgramWrites,
           ProgramEnds, GetBuffered, Underflow, UnderflowEof, Unget, PutBuffered, Overflow, Sync,
           FlushWrites, Flushed, FunctionFlushes, FunctionEnds, Collect, CollectEnds
  <2> QED BY <1>2, <2>1 DEF Gotten, Behind
<1>3. CASE Feed
  <2>1. UNCHANGED <<c, pc, getting>>
    BY <1>3 DEF Feed, FeedCall, FeedWrite
  <2>2. Cuts(AtPipe1, AtPipe1') /\ UNCHANGED Unread
    BY <1>3, FeedCuts
  <2>3. CASE c.signals
    BY <2>1, <2>3 DEF Gotten, Behind, getting
  <2>4. CASE ~c.signals
    <3>1. AtGet' = AtGet
      BY <2>2, <2>4 DEF Cuts, AtGet
    <3> QED BY <2>1, <3>1, AgainSame DEF getting
  <2> QED BY <2>3, <2>4
<1>4. CASE (GetBuffered /\ ~(back > 0)) \/ Underflow
  BY <1>4, AgainNew
<1>5. CASE GetBuffered /\ back > 0 /\ ~c.late
  <2>1. UNCHANGED AtGet
    BY <1>5, GotAgain
  <2>2. seen' = seen
    BY <1>5, SameAgain
  <2>3. gptr' = gptr + 1 /\ back' = back - 1 /\ UNCHANGED <<c, pc, mem, eback>>
    BY <1>5 DEF GetBuffered, Got
  <2>4. gptr' + back' = gptr + back
    BY <1>1, <2>3, SizesType DEF TypeOK
  <2> QED BY <2>1, <2>2, <2>3, <2>4, AgainSame
<1>6. CASE UnderflowEof
  <2>1. UNCHANGED AtGet
    BY <1>6, GotAgain
  <2>2. pc' \in Ends /\ UNCHANGED <<c, seen>>
    BY <1>6 DEF UnderflowEof, Ends
  <2>3. Input' = Input
    BY <2>2 DEF Input
  <2> QED BY <2>1, <2>2, <2>3 DEF Gotten, Behind
<1>7. CASE Unget /\ ~c.late
  <2>1. UNCHANGED AtGet
    BY <1>7, GotAgain
  <2>2. pc = "read" /\ gptr' = gptr - 1 /\ back' = back + 1 /\ UNCHANGED <<c, mem, eback, seen>>
    BY <1>7 DEF Unget
  <2>3. gptr' + back' = gptr + back
    BY <1>1, <2>2, SizesType DEF TypeOK
  <2>4. pc \notin Ends
    BY <2>2 DEF Ends
  <2> QED BY <2>1, <2>2, <2>3, <2>4, AgainSame
<1>8. CASE \/ PutBuffered \/ Overflow \/ Sync \/ FlushWrites \/ Flushed
           \/ FunctionFlushes \/ FunctionEnds \/ Collect \/ CollectEnds \/ UNCHANGED vars
  <2>1. UNCHANGED <<c, feeding, pipe1, getting>>
    BY <1>8 DEF PutBuffered, Overflow, Sync, FlushWrites, Flushed, FunctionFlushes, FunctionEnds,
                Collect, CollectEnds, vars
  <2>2. UNCHANGED AtGet
    BY <2>1 DEF AtGet, AtPipe1, AtPump, Unread, Left, feeding, getting
  <2>3. pc' \notin Ends => pc \notin Ends
    BY <1>8 DEF PutBuffered, Overflow, Sync, FlushWrites, Flushed, FunctionFlushes, FunctionEnds,
                Collect, CollectEnds, vars, Ends
  <2> QED BY <2>1, <2>2, <2>3, AgainSame DEF getting
<1>9. CASE Program
  BY <1>2, <1>9 DEF Program, ProgramReads, ProgramWrites, ProgramEnds
<1> QED
  BY <1>2, <1>3, <1>4, <1>5, <1>6, <1>7, <1>8, <1>9 DEF Next, Function

-----------------------------------------------------------------------------
(* Everything that the source had is still on its way or has been taken,   *)
(* or what is there is what is left of it.                                 *)
Flow == Sub(Whole, Input) /\ (~c.signals /\ ~badbit => Whole = Input)

IInv == Control /\ Flow /\ Sunk /\ Gotten /\ Behind

(* Every step keeps the types and the control state.                       *)
LEMMA ControlStep == ASSUME Control, [Next]_vars PROVE Control'
<1>1. CASE Feed
  BY <1>1, FeedControls
<1>2. CASE Program
  BY <1>2, ProgramControls
<1>3. CASE GetBuffered \/ Underflow \/ UnderflowEof \/ Unget
  BY <1>3, GettingControls
<1>4. CASE \/ PutBuffered \/ Overflow \/ Sync \/ FlushWrites \/ Flushed
           \/ FunctionFlushes \/ FunctionEnds
  BY <1>4, PuttingControls
<1>5. CASE Collect \/ CollectEnds
  BY <1>5, CollectControls
<1>6. CASE UNCHANGED vars
  BY <1>6 DEF Control, TypeOK, Sources, Feeding, Copying, AtEof1, Ends, Area,
              vars, feeding, getting, putting, collecting
<1> QED BY <1>1, <1>2, <1>3, <1>4, <1>5, <1>6 DEF Next, Function

(* A stream that has failed stays so: nothing that it has is flushed.      *)
LEMMA StaysBad == ASSUME Control, [Next]_vars, badbit PROVE badbit'
<1>1. pc \notin {"overflow", "flush", "sync"}
  BY DEF Control, Copying
<1>2. CASE Flushed
  BY <1>1, <1>2 DEF Flushed
<1> QED
  BY <1>2 DEF Next, vars, Feed, Program, Function, FeedCall, FeedWrite, ProgramReads, ProgramWrites,
       ProgramEnds, GetBuffered, Underflow, UnderflowEof, Unget, PutBuffered, Overflow, Sync,
       FlushWrites, FunctionFlushes, FunctionEnds, Collect, CollectEnds, putting

(* Every step moves bytes along the way.                                   *)
LEMMA MovesStep == ASSUME Control, Control', [Next]_vars PROVE Moves(Whole, Whole') /\ c' = c
<1>1. c' = c
  BY DEF Next, vars, Feed, Program, Function, FeedCall, FeedWrite, ProgramReads, ProgramWrites,
       ProgramEnds, GetBuffered, Underflow, UnderflowEof, Unget, PutBuffered, Overflow, Sync,
       FlushWrites, Flushed, FunctionFlushes, FunctionEnds, Collect, CollectEnds
<1>2. CASE Feed
  BY <1>1, <1>2, FeedMoves
<1>3. CASE Program
  BY <1>1, <1>3, ProgramMoves
<1>4. CASE GetBuffered \/ Underflow \/ UnderflowEof \/ Unget
  BY <1>1, <1>4, GettingMoves
<1>5. CASE \/ PutBuffered \/ Overflow \/ Sync \/ FlushWrites \/ Flushed
           \/ FunctionFlushes \/ FunctionEnds
  BY <1>1, <1>5, PuttingMoves
<1>6. CASE Collect \/ CollectEnds
  BY <1>1, <1>6, CollectMoves
<1>7. CASE UNCHANGED vars
  <2>1. Whole' = Whole
    BY <1>7 DEF vars, Whole, AtPipe2, AtFlush, AtPut, AtCopy, AtGet, AtPipe1, AtPump, Carried, Unread,
                Left, feeding, getting, putting, collecting
  <2> QED BY <1>1, <2>1 DEF Moves
<1> QED BY <1>2, <1>3, <1>4, <1>5, <1>6, <1>7 DEF Next, Function

(* Nothing is added to the input, nothing is reordered, and nothing is     *)
(* lost for any other reason than a signal or badbit.                      *)
LEMMA FlowStep == ASSUME Control, Control', Flow, [Next]_vars PROVE Flow'
<1>1. Moves(Whole, Whole') /\ c' = c
  BY MovesStep
<1>2. Input' = Input /\ Input \in Seq(Cell)
  <2>1. Bytes(c.from, c.input) \in Seq(Cell)
    BY CaseType, BytesType DEF Control, TypeOK
  <2> QED BY <1>1, <2>1 DEF Input
<1>3. badbit => badbit'
  BY StaysBad
<1>4. CASE Whole' = Whole
  BY <1>1, <1>2, <1>3, <1>4 DEF Flow
<1>5. CASE (c.signals \/ badbit) /\ Loses(Whole, Whole')
  <2>1. PICK x, y, z \in Seq(Cell) : Whole = x \o (y \o z) /\ Whole' = x \o z
    BY <1>5 DEF Loses
  <2>2. Sub(x \o (y \o z), Input)
    BY <2>1 DEF Flow
  <2>3. Sub(x \o z, Input)
    BY <1>2, <2>2, SubLoses
  <2>4. Sub(Whole', Input') /\ (c'.signals \/ badbit')
    BY <1>1, <1>2, <1>3, <1>5, <2>1, <2>3
  <2> QED BY <2>4 DEF Flow
<1> QED BY <1>1, <1>4, <1>5 DEF Moves

(* IInv is an inductive invariant.                                         *)
THEOREM Inductive == Spec => []IInv
<1>1. Init => IInv
  <2> SUFFICES ASSUME Init PROVE IInv
    OBVIOUS
  <2>1. Flow
    BY WayInit, SubSelf DEF Flow
  <2> QED BY <2>1, ControlInit, SunkInit, AgainInit DEF IInv
<1>2. IInv /\ [Next]_vars => IInv'
  <2> SUFFICES ASSUME IInv, [Next]_vars PROVE IInv'
    OBVIOUS
  <2>1. Control /\ TypeOK /\ Flow /\ Sunk /\ Gotten /\ Behind
    BY DEF IInv, Control
  <2>2. Control'
    BY <2>1, ControlStep
  <2>3. Flow'
    BY <2>1, <2>2, FlowStep
  <2>4. Sunk'
    BY <2>1, SunkStep
  <2>5. Gotten' /\ Behind'
    BY <2>1, <2>2, AgainStep
  <2> QED BY <2>2, <2>3, <2>4, <2>5 DEF IInv
<1> QED BY <1>1, <1>2, PTL DEF Spec

(* A line is delivered as soon as its newline has been read, once, and as  *)
(* it is whatever pieces it came in (ccsh_utils.hpp:132-150).              *)
THEOREM Lines == Spec => []SplitAtOnce
<1>1. IInv => SplitAtOnce
  <2> SUFFICES ASSUME IInv, c.to = "lines" PROVE sink = Kept \o LinesOf(taken) /\ "n" \notin ToSet(temp)
    BY DEF SplitAtOnce
  <2>1. sink = Kept \o LinesOf(taken) /\ temp = Rest(taken)
    BY DEF IInv, Sunk
  <2>2. \A k \in DOMAIN Rest(taken) : Rest(taken)[k] # "n"
    BY LastIs DEF IInv, Control, TypeOK
  <2>3. "n" \notin ToSet(temp)
    BY <2>1, <2>2 DEF ToSet
  <2> QED BY <2>1, <2>3
<1> QED BY <1>1, Inductive, PTL

(* A character that is put back and got again is the same one, across      *)
(* refills of the buffer too (ccsh_fdstream.cpp:48-53).                    *)
THEOREM PutBackIsKept == Spec => []PutBackKept
<1>1. IInv => PutBackKept
  <2> SUFFICES ASSUME IInv, c.mid = "function" /\ ~c.signals /\ ~c.late
               PROVE  seen = First(Input, Len(seen))
    BY DEF PutBackKept
  <2>1. seen \o AtGet = Input
    BY DEF IInv, Gotten
  <2>2. seen \in Seq(Cell) /\ AtGet \in Seq(Cell) /\ Len(seen) \in Nat
    BY WayType DEF IInv, Control, TypeOK
  <2>3. Len(seen) \in 0..Len(seen)
    BY <2>2
  <2>4. First(seen \o AtGet, Len(seen)) = First(seen, Len(seen))
    BY <2>2, <2>3, FirstOf
  <2>5. First(seen, Len(seen)) = seen
    BY <2>2, SubSeqFull DEF First
  <2> QED BY <2>1, <2>4, <2>5
<1> QED BY <1>1, Inductive, PTL

(* At the end everything that was not lost has been taken, except what     *)
(* the function has not flushed.                                           *)
LEMMA WholeAtEnd ==
    ASSUME Control, Over
    PROVE  Whole = taken \o put /\ source = << >> /\ taken \in Seq(Cell) /\ put \in Seq(Cell)
<1>1. TypeOK /\ Area /\ Feeding /\ Copying
  BY DEF Control
<1>2. pc = "done" /\ pipe2 = << >> /\ pc \in Ends
  BY <1>1 DEF Over, Copying, Ends
<1>3. AtEof1 /\ gptr + back = egptr /\ held = << >> /\ flushing = << >>
  BY <1>1, <1>2 DEF Copying
<1>4. pipe1 = << >> /\ piece = << >> /\ source = << >>
  BY <1>1, <1>3 DEF AtEof1, Feeding
<1>5. taken \in Seq(Cell) /\ put \in Seq(Cell)
  BY <1>1 DEF TypeOK
<1>6. Left = << >>
  BY <1>1, <1>4, BytesType DEF Left, TypeOK, Sources
<1>7. Unread = << >>
  <2>1. Unread \in Seq(Cell) /\ Len(Unread) = egptr - (gptr + back)
    BY <1>1, WayType
  <2>2. egptr - (gptr + back) = 0
    BY <1>1, <1>3, SizesType DEF TypeOK
  <2> QED BY <2>1, <2>2
<1>8. Carried = << >>
  BY <1>3 DEF Carried
<1>9. AtPump = << >> /\ AtPipe1 = << >> /\ AtGet = << >> /\ AtCopy = << >>
  BY <1>4, <1>6, <1>7, <1>8, Empty DEF AtPump, AtPipe1, AtGet, AtCopy
<1>10. AtPipe2 = put
  BY <1>2, <1>3, <1>5, <1>9, Empty DEF AtPut, AtFlush, AtPipe2
<1> QED BY <1>4, <1>5, <1>10 DEF Whole

(* At the end the sink has everything that c has flushed, once and in      *)
(* order, and the source has nothing left; what signals cut short is       *)
(* missing, but what arrives is in order (ccsh_operators.cpp:14-205,       *)
(* ccsh_command.cpp:56-87).                                                *)
THEOREM AllDelivered == Spec => []Delivered
<1>1. IInv => Delivered
  <2> SUFFICES ASSUME IInv, Over, ~badbit
               PROVE  LET all == First(Input, Len(Input) - Len(put))
                      IN  IF c.signals THEN Matched(taken, Input) = Len(taken)
                          ELSE /\ source = << >>
                               /\ sink = Kept \o
                                    CASE c.to = "string" -> all
                                      [] c.to = "lines" -> LinesOf(all)
                                      [] c.to = "ostream" -> First(all, Least(c.room, Len(all)))
    BY DEF Delivered
  <2> DEFINE all == First(Input, Len(Input) - Len(put))
  <2>1. Control /\ Flow /\ Sunk
    BY DEF IInv
  <2>2. Whole = taken \o put /\ source = << >> /\ taken \in Seq(Cell) /\ put \in Seq(Cell)
    BY <2>1, WholeAtEnd
  <2>3. Input \in Seq(Cell) /\ c.to \in {"string", "lines", "ostream"}
    BY <2>1, CaseType, BytesType DEF Control, TypeOK, Input
  <2>4. CASE c.signals
    <3>1. << >> \in Seq(Cell) /\ put \o << >> = put /\ taken \o << >> = taken
      BY <2>2, Empty
    <3>2. Sub(taken \o (put \o << >>), Input)
      BY <2>1, <2>2, <3>1 DEF Flow
    <3>3. Sub(taken \o << >>, Input)
      BY <2>2, <2>3, <3>1, <3>2, SubLoses
    <3>4. Matched(taken, Input) = Len(taken)
      BY <2>2, <2>3, <3>1, <3>3, SubMatched
    <3> QED BY <2>4, <3>4
  <2>5. CASE ~c.signals
    <3>1. Input = taken \o put
      BY <2>1, <2>2, <2>5 DEF Flow
    <3>2. all = taken
      <4>1. Len(taken) \in Nat /\ Len(put) \in Nat /\ Len(taken \o put) = Len(taken) + Len(put)
        BY <2>2, Joined
      <4>2. Len(Input) - Len(put) = Len(taken) /\ Len(taken) \in 0..Len(taken)
        BY <3>1, <4>1
      <4>3. First(taken \o put, Len(taken)) = First(taken, Len(taken))
        BY <2>2, <4>2, FirstOf
      <4>4. First(taken, Len(taken)) = taken
        BY <2>2, SubSeqFull DEF First
      <4> QED BY <3>1, <4>2, <4>3, <4>4
    <3> HIDE DEF all
    <3>3. sink = Kept \o CASE c.to = "string" -> all
                             [] c.to = "lines" -> LinesOf(all)
                             [] c.to = "ostream" -> First(all, Least(c.room, Len(all)))
      BY <2>1, <2>3, <3>2 DEF Sunk
    <3> QED BY <2>2, <2>5, <3>3 DEF all
  <2> QED BY <2>4, <2>5
<1> QED BY <1>1, Inductive, PTL
=============================================================================
