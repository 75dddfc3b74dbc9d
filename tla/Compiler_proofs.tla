--------------------------- MODULE Compiler_proofs ---------------------------
(***************************************************************************)
(* A proof about Compiler.tla: any number of compilers, on any command     *)
(* lines, sharing one name for their temporary file.                       *)
(***************************************************************************)
EXTENDS Compiler, TLAPS, SequenceTheorems, WellFoundedInduction

Places == {"idle", "compile", "link", "run", "remove", "end", "refused"}

TypeOK ==
    /\ pc \in [Proc -> Places]
    /\ temp = None \/ temp \in [by : Proc, whole : BOOLEAN]

(* The maker of the file that is there will still remove it, for he links  *)
(* it, removes it, or is about to run it whole; or he was thrown out of    *)
(* running it.  Whoever else is thrown out leaves another one's file.      *)
Tended ==
    temp # None =>
        \/ pc[temp.by] \in {"link", "remove"}
        \/ pc[temp.by] \in {"run", "refused"} /\ temp.whole

IInv == TypeOK /\ Tended

-----------------------------------------------------------------------------
(* No file at first.                                                       *)
LEMMA InitIInv == Init => IInv
BY DEF Init, IInv, TypeOK, Tended, Places

(* A step of one compiler.                                                 *)
LEMMA StepIInv ==
    ASSUME IInv, NEW p \in Proc,
           \/ Usage(p) \/ Begin(p) \/ NoDirectory(p) \/ CompileFails(p) \/ CompilerMissing(p)
           \/ LinkBegins(p) \/ LinkFails(p) \/ LinkEnds(p)
           \/ Run(p) \/ RunThrows(p) \/ RemoveTemp(p)
    PROVE  IInv'
<1>1. pc \in [Proc -> Places] /\ (temp = None \/ temp \in [by : Proc, whole : BOOLEAN]) /\ Tended
  BY DEF IInv, TypeOK
<1>2. ASSUME NEW to \in Places, Goes(p, to)
      PROVE  /\ pc' \in [Proc -> Places] /\ pc'[p] = to
             /\ \A q \in Proc \ {p} : pc'[q] = pc[q]
  BY <1>1, <1>2 DEF Goes
<1>3. ASSUME temp' = None, NEW to \in Places, Goes(p, to) PROVE IInv'
  BY <1>2, <1>3 DEF IInv, TypeOK, Tended
<1>4. ASSUME UNCHANGED temp, NEW to \in Places, Goes(p, to),
             temp # None /\ temp.by = p => to = "remove" \/ (to = "refused" /\ temp.whole)
      PROVE  IInv'
  BY <1>1, <1>2, <1>4 DEF IInv, TypeOK, Tended
<1>5. CASE Usage(p) \/ Begin(p) \/ NoDirectory(p) \/ CompileFails(p) \/ CompilerMissing(p)
  <2>1. UNCHANGED temp /\ pc[p] \in {"idle", "compile"} /\ \E to \in Places : Goes(p, to)
    BY <1>5 DEF Usage, Begin, Ready, Aborts, NoDirectory, CompileFails, CompilerMissing, Places
  <2>2. temp # None => temp.by # p
    BY <1>1, <2>1 DEF Tended
  <2> QED BY <1>4, <2>1, <2>2
<1>6. CASE LinkBegins(p)
  <2>1. temp' = [by |-> p, whole |-> FALSE] /\ Goes(p, "link") /\ "link" \in Places
    BY <1>6 DEF LinkBegins, Places
  <2> QED BY <1>2, <2>1 DEF IInv, TypeOK, Tended
<1>7. CASE LinkFails(p) \/ RemoveTemp(p)
  <2>1. temp' = None /\ \E to \in Places : Goes(p, to)
    BY <1>7 DEF LinkFails, RemoveTemp, Places
  <2> QED BY <1>3, <2>1
<1>8. CASE LinkEnds(p)
  <2>1. PICK to \in {"remove", "run"} : Goes(p, to)
    BY <1>8 DEF LinkEnds
  <2>2. to \in Places
    BY DEF Places
  <2>3. CASE temp # None /\ temp.by = p
    <3>1. temp' = [by |-> p, whole |-> TRUE]
      BY <1>1, <1>8, <2>3 DEF LinkEnds
    <3> QED BY <1>2, <2>1, <2>2, <3>1 DEF IInv, TypeOK, Tended
  <2>4. CASE ~(temp # None /\ temp.by = p)
    <3>1. UNCHANGED temp
      BY <1>8, <2>4 DEF LinkEnds
    <3> QED BY <1>4, <2>1, <2>2, <2>4, <3>1
  <2> QED BY <2>3, <2>4
<1>9. CASE Run(p)
  <2>1. UNCHANGED temp /\ Goes(p, "remove") /\ "remove" \in Places
    BY <1>9 DEF Run, Places
  <2> QED BY <1>4, <2>1
<1>10. CASE RunThrows(p)
  <2>1. UNCHANGED temp /\ pc[p] = "run" /\ {"refused", "end"} \subseteq Places
    BY <1>10 DEF RunThrows, Aborts, Places
  <2>2. CASE Whole
    BY <1>4, <1>10, <2>1, <2>2 DEF RunThrows, Aborts, Whole
  <2>3. CASE ~Whole
    <3>1. Goes(p, "end")
      BY <1>10, <2>3 DEF RunThrows, Aborts
    <3>2. temp # None => temp.by # p
      BY <1>1, <2>1, <2>3 DEF Tended, Whole
    <3> QED BY <1>4, <2>1, <3>1, <3>2
  <2> QED BY <2>2, <2>3
<1> QED BY <1>5, <1>6, <1>7, <1>8, <1>9, <1>10

(* Whatever becomes of each of any number of compilers that run at once,   *)
(* the last one leaves no temporary file, but one that its maker was       *)
(* thrown out of running (ccsh_compiler.cpp:165-178).                      *)
THEOREM Cleared == Spec => []TempGone
<1>1. IInv /\ [Next]_vars => IInv'
  <2>1. ASSUME IInv, UNCHANGED vars PROVE IInv'
    BY <2>1 DEF vars, IInv, TypeOK, Tended
  <2> QED BY <2>1, StepIInv DEF Next
<1>2. IInv => TempGone
  BY DEF IInv, TypeOK, Tended, TempGone
<1> QED BY InitIInv, <1>1, <1>2, PTL DEF Spec

-----------------------------------------------------------------------------
(***************************************************************************)
(* What find_file finds.                                                   *)
(***************************************************************************)

(* A set of numbers has a least one.                                       *)
LEMMA LeastOf ==
    ASSUME NEW T \in SUBSET Nat, T # {}
    PROVE  \E x \in T : \A y \in T : x <= y
<1> DEFINE Below == {q \in Nat \X Nat : q[1] < q[2]}
<1>1. IsWellFoundedOn(Below, Nat)
  BY NatLessThanWellFounded DEF OpToRel
<1>2. PICK x \in T : \A y \in T : ~(<<y, x>> \in Below)
  BY <1>1, WFMin
<1>3. \A y \in T : x <= y
  <2> TAKE y \in T
  <2>1. ~(y < x)
    BY <1>2
  <2> QED BY <2>1
<1> QED BY <1>3

(* Induction up to n: what is true of 0, and with each number below n of   *)
(* the next one, is true of n.                                             *)
LEMMA UpTo ==
    ASSUME NEW n \in Nat, NEW T, 0 \in T, \A k \in 0..(n - 1) : k \in T => k + 1 \in T
    PROVE  n \in T
<1> DEFINE F == {k \in 0..n : k \notin T}
<1> SUFFICES ASSUME F # {} PROVE FALSE
  OBVIOUS
<1>1. PICK x \in F : \A y \in F : x <= y
  <2>1. F \in SUBSET Nat
    OBVIOUS
  <2> HIDE DEF F
  <2> QED BY <2>1, LeastOf
<1>2. x \in 1..n
  OBVIOUS
<1>3. x - 1 \in T
  BY <1>1, <1>2
<1> QED BY <1>2, <1>3

(* One step of the loop of find_file, from the argument i on.              *)
FindFrom(options, f, i) ==
    IF i > Len(options) THEN i
    ELSE IF options[i] \in Dashed
         THEN f[i + IF options[i] \in gcc_options_with_args THEN 2 ELSE 1]
    ELSE IF options[i] \in At THEN f[i + 1] ELSE i

(* There is a function that finds so, and find_file gives its value.       *)
LEMMA Finds ==
    ASSUME NEW o \in Seq(Word)
    PROVE  \E f : /\ \A i \in 1..(Len(o) + 2) : f[i] = FindFrom(o, f, i)
                  /\ find_file(o) = f[1]
<1> DEFINE n == Len(o) + 2
           Up(f, k) == f = [i \in 1..n |-> f[i]] /\ \A i \in 1..n : i > n - k => f[i] = FindFrom(o, f, i)
           T == {k \in 0..n : \E f : Up(f, k)}
<1>1. n \in Nat /\ Len(o) \in Nat /\ n = Len(o) + 2
  OBVIOUS
<1> HIDE DEF n
<1>2. 0 \in T
  <2> DEFINE f == [i \in 1..n |-> 0]
  <2>1. f = [i \in 1..n |-> f[i]]
    OBVIOUS
  <2>2. \A i \in 1..n : ~(i > n - 0)
    BY <1>1
  <2> HIDE DEF f
  <2> QED BY <1>1, <2>1, <2>2
<1>3. ASSUME NEW k \in 0..(n - 1), k \in T PROVE k + 1 \in T
  <2>1. PICK f : Up(f, k)
    BY <1>3
  <2>2. PICK j \in 1..n : j = n - k
    <3>1. n \in Nat /\ k \in 0..(n - 1)
      BY <1>1
    <3>2. n - k \in 1..n
      BY ONLY <3>1
    <3> QED BY <3>2
  <2> DEFINE v == FindFrom(o, f, j)
             g == [f EXCEPT ![j] = v]
  <2> HIDE DEF v
  <2>3. g = [i \in 1..n |-> g[i]] /\ g[j] = v /\ \A i \in 1..n : i # j => g[i] = f[i]
    BY <2>1
  <2> HIDE DEF g
  <2>4. ASSUME NEW i \in 1..n, i >= j PROVE FindFrom(o, g, i) = FindFrom(o, f, i)
    <3>1. CASE i > Len(o)
      BY <3>1 DEF FindFrom
    <3>2. CASE i <= Len(o)
      <4>1. i + 1 \in 1..n /\ i + 2 \in 1..n /\ i + 1 # j /\ i + 2 # j
        BY <1>1, <2>4, <3>2
      <4>2. g[i + 1] = f[i + 1] /\ g[i + 2] = f[i + 2]
        BY <2>3, <4>1
      <4> QED BY <4>2 DEF FindFrom
    <3> QED BY <1>1, <3>1, <3>2
  <2>5. ASSUME NEW i \in 1..n, i > n - (k + 1) PROVE g[i] = FindFrom(o, g, i)
    <3>1. i >= j /\ (i # j => i > n - k)
      BY <1>1, <2>2, <2>5
    <3>2. CASE i = j
      BY <2>3, <2>4, <3>1, <3>2 DEF v
    <3>3. CASE i # j
      BY <2>1, <2>3, <2>4, <3>1, <3>3
    <3> QED BY <3>2, <3>3
  <2> QED BY <1>1, <2>3, <2>5
<1>4. n \in T
  <2> HIDE DEF T
  <2> QED BY <1>1, <1>2, <1>3, UpTo
<1>5. PICK g : g = [i \in 1..n |-> g[i]] /\ \A i \in 1..n : g[i] = FindFrom(o, g, i)
  BY <1>1, <1>4
<1> DEFINE Def(f) == [i \in 1..n |-> FindFrom(o, f, i)]
           found == CHOOSE f : f = Def(f)
<1>6. g = Def(g)
  BY <1>5
<1>7. find_file(o) = found[1]
  BY DEF find_file, FindFrom, n
<1>8. found = Def(found)
  <2> HIDE DEF Def
  <2> QED BY <1>6
<1>9. \A i \in 1..(Len(o) + 2) : found[i] = FindFrom(o, found, i)
  <2> HIDE DEF found
  <2> QED BY <1>1, <1>8
<1> HIDE DEF found
<1> QED BY <1>7, <1>9

(* k options that want an argument come right before the place i.          *)
RunOf(o, i, k) ==
    /\ \A j \in (i - k)..(i - 1) : o[j] \in gcc_options_with_args
    /\ k < i - 1 => o[i - k - 1] \notin gcc_options_with_args

(* There is one such number.                                               *)
LEMMA BeforeIs ==
    ASSUME NEW o, NEW i \in Nat \ {0}, NEW k \in 0..(i - 1), RunOf(o, i, k)
    PROVE  Before(o, i) = k
<1>1. ASSUME NEW x \in 0..(i - 1), NEW y \in 0..(i - 1), RunOf(o, i, x), RunOf(o, i, y), x < y PROVE FALSE
  <2>1. i - x - 1 \in (i - y)..(i - 1) /\ x < i - 1
    BY <1>1
  <2> QED BY <1>1, <2>1 DEF RunOf
<1>2. \A x \in 0..(i - 1) : RunOf(o, i, x) => x = k
  BY <1>1
<1>3. Before(o, i) = CHOOSE x \in 0..(i - 1) : RunOf(o, i, x)
  BY DEF Before, RunOf
<1> QED BY <1>2, <1>3

(* How it grows.                                                           *)
LEMMA RunOn ==
    ASSUME NEW o, NEW i \in Nat \ {0}, NEW k \in 0..(i - 1), RunOf(o, i, k)
    PROVE  RunOf(o, i + 1, IF o[i] \in gcc_options_with_args THEN k + 1 ELSE 0)
<1>1. CASE o[i] \in gcc_options_with_args
  <2>1. (i + 1) - (k + 1) = i - k /\ (i + 1) - 1 = i /\ (i + 1) - (k + 1) - 1 = i - k - 1
    OBVIOUS
  <2>2. \A j \in (i - k)..i : j \in (i - k)..(i - 1) \/ j = i
    OBVIOUS
  <2> QED BY <1>1, <2>1, <2>2 DEF RunOf
<1>2. CASE o[i] \notin gcc_options_with_args
  <2>1. (i + 1) - 0 = i + 1 /\ (i + 1) - 1 = i /\ (i + 1) - 0 - 1 = i
    OBVIOUS
  <2>2. (i + 1)..i = {}
    OBVIOUS
  <2> QED BY <1>2, <2>1, <2>2 DEF RunOf
<1> QED BY <1>1, <1>2

(* What find_file finds is the first argument that is a file.              *)
Found(o, r) ==
    /\ r \in 1..(Len(o) + 2)
    /\ r <= Len(o) => IsFile(o, r) /\ \A j \in 1..(r - 1) : ~IsFile(o, j)

(* It is that, whatever the arguments are.                                 *)
LEMMA FindsFile == ASSUME NEW o \in Seq(Word) PROVE Found(o, find_file(o))
<1>1. PICK f : (\A i \in 1..(Len(o) + 2) : f[i] = FindFrom(o, f, i)) /\ find_file(o) = f[1]
  BY Finds
<1> DEFINE n == Len(o) + 2
           Even(i) == \E k \in 0..(i - 1) : RunOf(o, i, k) /\ k % 2 = 0
           Good(i) == Even(i) /\ \A j \in 1..(i - 1) : j <= Len(o) => ~IsFile(o, j)
           T == {k \in 0..n : \A i \in 1..n : i > n - k /\ Good(i) => Found(o, f[i])}
<1>2. n \in Nat /\ Len(o) \in Nat /\ n = Len(o) + 2
  OBVIOUS
<1> HIDE DEF n
<1>3. ASSUME NEW k \in 0..(n - 1), k \in T PROVE k + 1 \in T
  <2>1. PICK i \in 1..n : i = n - k
    <3>1. n \in Nat /\ k \in 0..(n - 1)
      BY <1>2
    <3>2. n - k \in 1..n
      BY ONLY <3>1
    <3> QED BY <3>2
  <2>2. ASSUME Good(i) PROVE Found(o, f[i])
    <3>1. f[i] = FindFrom(o, f, i)
      BY <1>1, <1>2
    <3>2. CASE i > Len(o)
      BY <1>2, <3>1, <3>2 DEF FindFrom, Found
    <3>3. ASSUME i <= Len(o), NEW d \in {1, 2}, f[i] = f[i + d], Good(i + d) PROVE Found(o, f[i])
      <4>1. i + d \in 1..n /\ i + d > n - k
        BY <1>2, <2>1, <3>3
      <4> QED BY <1>3, <3>3, <4>1
    <3>4. PICK m \in 0..(i - 1) : RunOf(o, i, m) /\ m % 2 = 0
      BY <2>2
    <3>5. RunOf(o, i + 1, IF o[i] \in gcc_options_with_args THEN m + 1 ELSE 0)
      BY <3>4, RunOn
    <3>6. CASE i <= Len(o) /\ o[i] \in gcc_options_with_args
      <4>1. f[i] = f[i + 2] /\ o[i] \in Dashed
        BY <3>1, <3>6, ArgumentAssumption DEF FindFrom
      <4>2. RunOf(o, i + 1, m + 1)
        BY <3>5, <3>6
      <4>3. PICK y, x : y = i + 1 /\ x = m + 1
        OBVIOUS
      <4>4. y \in Nat \ {0} /\ x \in 0..(y - 1) /\ RunOf(o, y, x)
        BY <4>2, <4>3
      <4>5. Before(o, i + 1) = m + 1
        BY <4>3, <4>4, BeforeIs
      <4>6. (m + 1) % 2 # 0 /\ (m + 2) % 2 = 0
        BY <3>4
      <4>7. ~IsFile(o, i) /\ ~IsFile(o, i + 1)
        BY <4>1, <4>5, <4>6 DEF IsFile
      <4>8. RunOf(o, y + 1, IF o[y] \in gcc_options_with_args THEN x + 1 ELSE 0)
        BY <4>4, RunOn
      <4>9. Even(i + 2)
        <5>1. y + 1 = i + 2 /\ x + 1 = m + 2 /\ 0 % 2 = 0
          BY <4>3
        <5>2. \E z \in {0, m + 2} : RunOf(o, i + 2, z)
          BY <4>8, <5>1
        <5> QED BY <4>6, <5>1, <5>2
      <4>10. \A j \in 1..(i + 1) : j \in 1..(i - 1) \/ j = i \/ j = i + 1
        OBVIOUS
      <4>11. Good(i + 2)
        BY <2>2, <4>7, <4>9, <4>10
      <4> QED BY <3>3, <3>6, <4>1, <4>11
    <3>7. CASE i <= Len(o) /\ o[i] \notin gcc_options_with_args /\ o[i] \in Dashed \cup At
      <4>1. f[i] = f[i + 1]
        BY <3>1, <3>7, ArgumentAssumption DEF FindFrom
      <4>2. Even(i + 1)
        BY <3>5, <3>7
      <4>3. ~IsFile(o, i)
        BY <3>7 DEF IsFile
      <4>4. \A j \in 1..i : j \in 1..(i - 1) \/ j = i
        OBVIOUS
      <4>5. Good(i + 1)
        BY <2>2, <4>2, <4>3, <4>4
      <4> QED BY <3>3, <3>7, <4>1, <4>5
    <3>8. CASE i <= Len(o) /\ o[i] \notin Dashed \cup At
      <4>1. f[i] = i
        BY <3>1, <3>8 DEF FindFrom
      <4>2. Before(o, i) = m
        BY <3>4, BeforeIs
      <4>3. IsFile(o, i)
        BY <3>4, <3>8, <4>2 DEF IsFile
      <4> QED BY <1>2, <2>2, <3>8, <4>1, <4>3 DEF Found
    <3> QED BY <1>2, <3>2, <3>6, <3>7, <3>8
  <2>3. \A x \in 1..n : x > n - (k + 1) => x > n - k \/ x = i
    BY <1>2, <2>1
  <2> HIDE DEF Good
  <2> QED BY <1>2, <1>3, <2>2, <2>3
<1>4. 0 \in T
  BY <1>2
<1>5. n \in T
  <2> HIDE DEF T
  <2> QED BY <1>2, <1>3, <1>4, UpTo
<1>6. Good(1)
  <2>1. RunOf(o, 1, 0) /\ 0 % 2 = 0 /\ 0 \in 0..(1 - 1)
    BY DEF RunOf
  <2>2. 1..(1 - 1) = {}
    OBVIOUS
  <2> QED BY <2>1, <2>2
<1>7. 1 \in 1..n /\ 1 > n - n
  BY <1>2
<1> HIDE DEF Good
<1> QED BY <1>1, <1>5, <1>6, <1>7

(* The arguments without -c are a sequence.                                *)
LEMMA ArgsSeq ==
    ASSUME c \in Cases, NEW p \in Proc
    PROVE  Args(p) \in Seq(Word)
<1> DEFINE argv == c.argv[p]
           n == Len(argv)
<1>1. argv \in Seq(Word) /\ n \in Nat
  BY ArgumentAssumption
<1> HIDE DEF argv
<1> DEFINE Step(f, i) == IF i = 0 THEN << >> ELSE IF argv[i] = "-c" THEN f[i - 1] ELSE Append(f[i - 1], argv[i])
           Up(f, k) == f = [i \in 0..n |-> f[i]] /\ \A i \in 0..k : f[i] = Step(f, i) /\ f[i] \in Seq(Word)
           T == {k \in 0..n : \E f : Up(f, k)}
<1>2. 0 \in T
  <2> DEFINE f == [i \in 0..n |-> << >>]
  <2>1. f = [i \in 0..n |-> f[i]] /\ f[0] = << >>
    BY <1>1
  <2>2. Up(f, 0)
    <3> HIDE DEF f
    <3> QED BY <2>1
  <2> HIDE DEF f, Up
  <2> QED BY <1>1, <2>2
<1>3. ASSUME NEW k \in 0..(n - 1), k \in T PROVE k + 1 \in T
  <2>1. PICK f : Up(f, k)
    BY <1>3
  <2> DEFINE v == Step(f, k + 1)
             g == [f EXCEPT ![k + 1] = v]
  <2>2. v \in Seq(Word)
    <3>1. k \in 0..k /\ k + 1 \in 1..n /\ (k + 1) - 1 = k /\ k + 1 # 0
      BY <1>1
    <3>2. f[k] \in Seq(Word)
      <4> HIDE DEF Step
      <4> QED BY <2>1, <3>1
    <3>3. argv[k + 1] \in Word
      BY <1>1, <3>1
    <3>4. Append(f[k], argv[k + 1]) \in Seq(Word)
      BY <3>2, <3>3, AppendProperties
    <3> QED BY <3>1, <3>2, <3>4
  <2> HIDE DEF v
  <2>3. g = [i \in 0..n |-> g[i]] /\ g[k + 1] = v /\ \A i \in 0..k : g[i] = f[i]
    <3>1. f = [i \in 0..n |-> f[i]]
      BY <2>1
    <3>2. k + 1 \in 0..n /\ \A i \in 0..k : i \in 0..n /\ i # k + 1
      BY <1>1, <1>3
    <3> QED BY <3>1, <3>2
  <2> HIDE DEF g
  <2>4. ASSUME NEW i \in 0..(k + 1) PROVE g[i] = Step(g, i) /\ g[i] \in Seq(Word)
    <3>1. i # 0 => i - 1 \in 0..k
      BY <1>3
    <3>2. Step(g, i) = Step(f, i)
      BY <2>3, <3>1
    <3>3. CASE i = k + 1
      BY <2>2, <2>3, <3>2, <3>3 DEF v
    <3>4. CASE i # k + 1
      <4>1. i \in 0..k
        BY <1>3, <3>4
      <4> HIDE DEF Step
      <4> QED BY <2>1, <2>3, <3>2, <4>1
    <3> QED BY <3>3, <3>4
  <2>5. Up(g, k + 1)
    BY <2>3, <2>4
  <2> HIDE DEF Up
  <2> QED BY <1>1, <1>3, <2>5
<1>4. n \in T
  <2> HIDE DEF T
  <2> QED BY <1>1, <1>2, <1>3, UpTo
<1>5. PICK g : g = [i \in 0..n |-> g[i]] /\ \A i \in 0..n : g[i] = Step(g, i)
  BY <1>1, <1>4
<1> DEFINE Def(f) == [i \in 0..n |-> Step(f, i)]
           args == CHOOSE f : f = Def(f)
<1>6. g = Def(g)
  <2> HIDE DEF Step
  <2> QED BY <1>5
<1>7. args = Def(args)
  <2> HIDE DEF Def
  <2> QED BY <1>6
<1>8. Args(p) = args[n]
  BY DEF Args, argv
<1> HIDE DEF args
<1>9. \A i \in 0..n : args[i] = Step(args, i)
  <2> HIDE DEF Step
  <2> QED BY <1>7
<1> DEFINE S == {i \in 0..n : args[i] \in Seq(Word)}
<1>10. 0 \in S
  <2>1. args[0] = << >>
    BY <1>1, <1>9
  <2>2. << >> \in Seq(Word) /\ 0 \in 0..n
    BY <1>1
  <2> HIDE DEF Step
  <2> QED BY <2>1, <2>2
<1>11. ASSUME NEW k \in 0..(n - 1), k \in S PROVE k + 1 \in S
  <2>1. k + 1 \in 1..n /\ (k + 1) - 1 = k /\ k + 1 # 0 /\ k + 1 \in 0..n
    BY <1>1, <1>11
  <2>2. argv[k + 1] \in Word
    BY <1>1, <2>1
  <2>3. args[k + 1] = IF argv[k + 1] = "-c" THEN args[k] ELSE Append(args[k], argv[k + 1])
    BY <1>9, <2>1
  <2>4. args[k] \in Seq(Word) /\ k + 1 \in 0..n
    BY <1>11, <2>1
  <2>5. Append(args[k], argv[k + 1]) \in Seq(Word)
    BY <2>2, <2>4, AppendProperties
  <2> QED BY <2>3, <2>4, <2>5
<1>12. n \in S
  <2> HIDE DEF S
  <2> QED BY <1>1, <1>10, <1>11, UpTo
<1> QED BY <1>8, <1>12

-----------------------------------------------------------------------------
(***************************************************************************)
(* One process after the other.                                            *)
(***************************************************************************)

(* What each place of a process implies where only one is under way: the   *)
(* file is its own, or there is none; what it has run was it.              *)
Ran(p) == [by |-> p, args |-> program_args(p), with |-> gcc_args(p)]
Serial(p) ==
    /\ Idle(p) \/ \A q \in Proc \ {p} : Idle(q)
    /\ pc[p] \in {"compile", "link", "run"} => File(p) <= Len(Args(p))
    /\ pc[p] = "link" => temp # None /\ temp.by = p
    /\ pc[p] = "run" => temp = [by |-> p, whole |-> TRUE] /\ ~compile_only(p)
    /\ ran[p] = None \/ (ran[p] = Ran(p) /\ ~compile_only(p) /\ File(p) <= Len(Args(p)))
    /\ pc[p] \in {"remove", "end", "refused"} /\ result[p] = 0 => ran[p] # None \/ compile_only(p)

SInv ==
    /\ IInv /\ c \in Cases /\ DOMAIN ran = Proc /\ DOMAIN result = Proc
    /\ c.serial => \A p \in Proc : Serial(p)

(* Nothing has been run at first.                                          *)
LEMMA InitSInv == Init => SInv
BY InitIInv DEF Init, SInv, Serial, Idle

(* A list of three words.                                                  *)
LEMMA Three ==
    ASSUME NEW S, NEW x \in S, NEW y \in S, NEW z \in S
    PROVE  <<x, y, z>> \in Seq(S) /\ Len(<<x, y, z>>) = 3
OBVIOUS

(* A list of four words.                                                   *)
LEMMA Four ==
    ASSUME NEW S, NEW x \in S, NEW y \in S, NEW z \in S, NEW w \in S
    PROVE  <<x, y, z, w>> \in Seq(S) /\ Len(<<x, y, z, w>>) = 4
OBVIOUS

(* What is run is no file that is not there.                               *)
LEMMA RanIs ==
    ASSUME c \in Cases, NEW p \in Proc, File(p) <= Len(Args(p))
    PROVE  Ran(p) # None /\ [by |-> p, whole |-> FALSE] # None /\ [by |-> p, whole |-> TRUE] # None
<1>1. Args(p) \in Seq(Word) /\ File(p) \in 1..Len(Args(p))
  BY ArgsSeq, FindsFile DEF File, Found
<1>2. program_args(p) \in Seq(Word)
  <2>1. \A i \in (File(p) + 1)..Len(Args(p)) : i \in 1..Len(Args(p))
    BY <1>1
  <2>2. \A i \in (File(p) + 1)..Len(Args(p)) : Args(p)[i] \in Word
    BY <1>1, <2>1
  <2> QED BY <1>1, <2>2, SubSeqProperties DEF program_args
<1>3. gcc_args(p) \in Seq(Word)
  <2>1. \A i \in 1..(File(p) - 1) : i \in 1..Len(Args(p))
    BY <1>1
  <2>2. \A i \in 1..(File(p) - 1) : Args(p)[i] \in Word
    BY <1>1, <2>1
  <2>3. SubSeq(Args(p), 1, File(p) - 1) \in Seq(Word)
    BY <1>1, <2>2, SubSeqProperties
  <2>4. <<"-x", "c++", "-l", "ccsh_lib">> \in Seq(Word) /\ <<"-o", "temp", "-">> \in Seq(Word)
    BY ArgumentAssumption, Three, Four
  <2>5. <<"-x", "c++", "-l", "ccsh_lib">> \o SubSeq(Args(p), 1, File(p) - 1) \in Seq(Word)
    BY <2>3, <2>4, ConcatProperties
  <2> QED BY <2>4, <2>5, ConcatProperties DEF gcc_args
<1>4. Ran(p) \in [by : Proc, args : Seq(Word), with : Seq(Word)]
  BY <1>2, <1>3 DEF Ran
<1>5. \A b \in BOOLEAN : [by |-> p, whole |-> b] \in [by : Proc, whole : BOOLEAN]
  OBVIOUS
<1> QED BY <1>4, <1>5, ArgumentAssumption

(* A step of p, with the command lines and the others as they were.        *)
Only(p) ==
    /\ c' = c /\ DOMAIN ran' = Proc /\ DOMAIN result' = Proc
    /\ \A q \in Proc \ {p} : pc'[q] = pc[q] /\ ran'[q] = ran[q] /\ result'[q] = result[q]

(* The place p is at, where it goes, and what it leaves behind.            *)
Acts(p) ==
    \/ /\ pc[p] \in {"idle", "compile"} /\ pc'[p] = "end" /\ result'[p] # 0 /\ temp' = temp
       /\ ran'[p] = ran[p]
    \/ /\ pc[p] = "idle" /\ pc'[p] = "compile" /\ File(p) <= Len(Args(p)) /\ temp' = temp
       /\ c.serial => \A q \in Proc : Idle(q)
       /\ ran'[p] = ran[p] /\ result'[p] = result[p]
    \/ /\ pc[p] \in {"compile", "link"} /\ pc'[p] = "remove" /\ result'[p] # 0 /\ ran'[p] = ran[p]
    \/ /\ pc[p] = "compile" /\ pc'[p] = "link" /\ temp' = [by |-> p, whole |-> FALSE]
       /\ ran'[p] = ran[p] /\ result'[p] = result[p]
    \/ /\ pc[p] = "link" /\ pc'[p] = (IF compile_only(p) THEN "remove" ELSE "run")
       /\ temp' = IF temp # None /\ temp.by = p THEN [temp EXCEPT !.whole = TRUE] ELSE temp
       /\ ran'[p] = ran[p] /\ result'[p] = result[p]
    \/ /\ pc[p] = "run" /\ temp # None /\ temp.whole /\ pc'[p] = "remove"
       /\ ran'[p] = [by |-> temp.by, args |-> program_args(p), with |-> gcc_args(temp.by)]
    \/ /\ pc[p] = "run" /\ pc'[p] \in {"end", "refused"} /\ result'[p] # 0 /\ ran'[p] = ran[p]
    \/ /\ pc[p] = "remove" /\ pc'[p] = "end" /\ ran'[p] = ran[p] /\ result'[p] = result[p]

(* Every action is one of these.                                           *)
LEMMA Acting ==
    ASSUME SInv, NEW p \in Proc,
           \/ Usage(p) \/ Begin(p) \/ NoDirectory(p) \/ CompileFails(p) \/ CompilerMissing(p)
           \/ LinkBegins(p) \/ LinkFails(p) \/ LinkEnds(p)
           \/ Run(p) \/ RunThrows(p) \/ RemoveTemp(p)
    PROVE  Only(p) /\ Acts(p)
<1>1. DOMAIN pc = Proc /\ DOMAIN ran = Proc /\ DOMAIN result = Proc
  BY DEF SInv, IInv, TypeOK
<1>2. \A to : Goes(p, to) => pc'[p] = to /\ \A q \in Proc \ {p} : pc'[q] = pc[q]
  BY <1>1 DEF Goes
<1>3. \A code : Returns(p, code) =>
        result'[p] = code /\ DOMAIN result' = Proc /\ \A q \in Proc \ {p} : result'[q] = result[q]
  BY <1>1 DEF Returns
<1>4. CASE Usage(p)
  BY <1>1, <1>2, <1>3, <1>4 DEF Usage, Only, Acts
<1>5. CASE Begin(p)
  BY <1>1, <1>2, <1>5 DEF Begin, Ready, Only, Acts
<1>6. CASE CompileFails(p)
  BY <1>1, <1>2, <1>3, <1>6 DEF CompileFails, Only, Acts
<1>7. CASE LinkBegins(p)
  BY <1>1, <1>2, <1>7 DEF LinkBegins, Only, Acts
<1>8. CASE LinkFails(p)
  BY <1>1, <1>2, <1>3, <1>8 DEF LinkFails, Only, Acts
<1>9. CASE LinkEnds(p)
  BY <1>1, <1>2, <1>9 DEF LinkEnds, Only, Acts
<1>10. CASE Run(p)
  BY <1>1, <1>2, <1>3, <1>10 DEF Run, Whole, Only, Acts
<1>11. CASE RunThrows(p)
  BY <1>1, <1>2, <1>3, <1>11 DEF RunThrows, Aborts, Only, Acts
<1>12. CASE RemoveTemp(p)
  BY <1>1, <1>2, <1>12 DEF RemoveTemp, Only, Acts
<1>13. CASE NoDirectory(p) \/ CompilerMissing(p)
  BY <1>1, <1>2, <1>3, <1>13 DEF NoDirectory, CompilerMissing, Ready, Aborts, Only, Acts
<1> QED BY <1>4, <1>5, <1>6, <1>7, <1>8, <1>9, <1>10, <1>11, <1>12, <1>13

(* The command lines do not change.                                        *)
LEMMA SameLines ==
    ASSUME c' = c, NEW p \in Proc
    PROVE  Args(p)' = Args(p) /\ File(p)' = File(p) /\ Ran(p)' = Ran(p)
           /\ (compile_only(p)' <=> compile_only(p))
BY DEF Args, File, Ran, compile_only, program_args, gcc_args

(* It is inductive.                                                        *)
LEMMA NextSInv == SInv /\ [Next]_vars => SInv'
<1>1. ASSUME SInv, UNCHANGED vars PROVE SInv'
  <2>1. IInv' /\ \A p \in Proc : Serial(p) => Serial(p)'
    <3>1. \A p \in Proc : Args(p)' = Args(p) /\ File(p)' = File(p) /\ Ran(p)' = Ran(p)
            /\ (compile_only(p)' <=> compile_only(p))
      BY <1>1, SameLines DEF vars
    <3> QED BY <1>1, <3>1 DEF vars, SInv, Serial, Idle, IInv, TypeOK, Tended
  <2> QED BY <1>1, <2>1 DEF vars, SInv
<1>2. ASSUME SInv, NEW p \in Proc,
             \/ Usage(p) \/ Begin(p) \/ NoDirectory(p) \/ CompileFails(p) \/ CompilerMissing(p)
             \/ LinkBegins(p) \/ LinkFails(p) \/ LinkEnds(p)
             \/ Run(p) \/ RunThrows(p) \/ RemoveTemp(p)
      PROVE  SInv'
  <2>1. IInv' /\ Only(p) /\ Acts(p)
    BY <1>2, StepIInv, Acting DEF SInv
  <2>2. c' = c /\ c \in Cases
    BY <1>2, <2>1 DEF Only, SInv
  <2>3. \A q \in Proc : Args(q)' = Args(q) /\ File(q)' = File(q) /\ Ran(q)' = Ran(q)
            /\ (compile_only(q)' <=> compile_only(q))
    BY <2>2, SameLines
  <2>4. ASSUME c.serial, NEW q \in Proc \ {p} PROVE Serial(q)'
    <3>1. Serial(p) /\ Serial(q)
      BY <1>2, <2>4 DEF SInv
    <3>2. Idle(q) \/ (pc'[p] = "end" /\ temp' = temp)
      BY <2>1, <2>4, <3>1 DEF Acts, Serial, Idle
    <3>3. CASE Idle(q)
      BY <2>1, <2>3, <3>1, <3>3 DEF Only, Serial, Idle
    <3>4. CASE pc'[p] = "end" /\ temp' = temp
      BY <2>1, <2>3, <3>1, <3>4 DEF Only, Serial, Idle
    <3> QED BY <3>2, <3>3, <3>4
  <2>5. ASSUME c.serial PROVE Serial(p)'
    <3>1. Serial(p)
      BY <1>2, <2>5 DEF SInv
    <3>2. Idle(p)' \/ \A q \in Proc \ {p} : Idle(q)'
      BY <2>1, <2>5, <3>1 DEF Acts, Only, Serial, Idle
    <3>3. File(p) <= Len(Args(p)) =>
            Ran(p) # None /\ [by |-> p, whole |-> FALSE] # None /\ [by |-> p, whole |-> TRUE] # None
      BY <2>2, RanIs
    <3>4. pc[p] = "link" => \E b \in BOOLEAN : temp = [by |-> p, whole |-> b]
      BY <1>2, <3>1 DEF Serial, SInv, IInv, TypeOK
    <3>5. pc'[p] \in {"compile", "link", "run"} => File(p) <= Len(Args(p))
      BY <2>1, <3>1 DEF Acts, Serial
    <3>6. pc'[p] = "link" => temp' # None /\ temp'.by = p
      BY <2>1, <3>1, <3>3 DEF Acts, Serial
    <3>7. pc'[p] = "run" => temp' = [by |-> p, whole |-> TRUE] /\ ~compile_only(p)
      BY <2>1, <3>1, <3>4 DEF Acts, Serial
    <3>8. ran'[p] = ran[p] \/ (ran'[p] = Ran(p) /\ pc[p] = "run" /\ ~compile_only(p) /\ File(p) <= Len(Args(p)))
      BY <2>1, <3>1 DEF Acts, Serial, Ran
    <3>9. pc'[p] \in {"remove", "end", "refused"} /\ result'[p] = 0 => ran'[p] # None \/ compile_only(p)
      <4>1. CASE ran'[p] = ran[p]
        <5>1. CASE pc[p] = "remove"
          BY <2>1, <3>1, <4>1, <5>1 DEF Acts, Serial
        <5>2. CASE pc[p] = "run"
          <6>1. Ran(p) # None
            BY <3>1, <3>3, <5>2 DEF Serial
          <6>2. pc'[p] = "remove" => ran'[p] = Ran(p)
            BY <2>1, <3>1, <5>2 DEF Acts, Serial, Ran
          <6> QED BY <2>1, <5>2, <6>1, <6>2 DEF Acts
        <5>3. CASE pc[p] \notin {"remove", "run"}
          BY <2>1, <5>3 DEF Acts
        <5> QED BY <5>1, <5>2, <5>3
      <4>2. CASE ran'[p] # ran[p]
        BY <3>3, <3>8, <4>2
      <4> QED BY <4>1, <4>2
    <3> QED BY <2>3, <3>1, <3>2, <3>5, <3>6, <3>7, <3>8, <3>9 DEF Serial
  <2> QED BY <2>1, <2>2, <2>4, <2>5 DEF SInv, Only
<1> QED BY <1>1, <1>2 DEF Next

(* What comes before the file is what the compiler gets.                   *)
LEMMA Gets ==
    ASSUME NEW s \in Seq(Word), NEW file \in 1..Len(s),
           NEW with, with = <<"-x", "c++", "-l", "ccsh_lib">> \o SubSeq(s, 1, file - 1) \o <<"-o", "temp", "-">>
    PROVE  SubSeq(with, 5, Len(with) - 3) = SubSeq(s, 1, file - 1)
<1> DEFINE a == <<"-x", "c++", "-l", "ccsh_lib">>
           b == SubSeq(s, 1, file - 1)
           d == <<"-o", "temp", "-">>
<1>1. a \in Seq(Word) /\ d \in Seq(Word) /\ Len(a) = 4 /\ Len(d) = 3
  BY ArgumentAssumption, Three, Four
<1>2. b \in Seq(Word) /\ Len(b) = file - 1
  <2>1. \A i \in 1..(file - 1) : s[i] \in Word
    OBVIOUS
  <2>2. file - 1 \in Int /\ 1 \in Int
    OBVIOUS
  <2> QED BY <2>1, <2>2, SubSeqProperties
<1>3. with = (a \o b) \o d
  OBVIOUS
<1> HIDE DEF a, b, d
<1>4. PICK ab : ab = a \o b
  OBVIOUS
<1>5. PICK m \in Nat : m = file + 3
  OBVIOUS
<1>6. /\ ab \in Seq(Word) /\ Len(ab) = m
      /\ \A i \in 5..m : ab[i] = b[i - 4]
  <2>1. /\ a \o b \in Seq(Word) /\ Len(a \o b) = Len(a) + Len(b)
        /\ \A i \in 1..(Len(a) + Len(b)) : (a \o b)[i] = IF i <= Len(a) THEN a[i] ELSE b[i - Len(a)]
    BY <1>1, <1>2, ConcatProperties
  <2>2. Len(a) + Len(b) = m /\ Len(a) = 4
    BY <1>1, <1>2, <1>5
  <2>3. ab \in Seq(Word) /\ Len(ab) = m /\ \A i \in 1..m : ab[i] = IF i <= 4 THEN a[i] ELSE b[i - 4]
    BY ONLY <1>4, <2>1, <2>2
  <2>4. \A i \in 5..m : i \in 1..m /\ ~(i <= 4)
    BY ONLY <1>5
  <2> QED BY ONLY <2>3, <2>4
<1>7. /\ with \in Seq(Word) /\ Len(with) - 3 = m /\ Len(with) \in Nat
      /\ \A i \in 1..m : with[i] = ab[i]
  <2>1. with = ab \o d
    BY <1>3, <1>4
  <2>2. /\ ab \o d \in Seq(Word) /\ Len(ab \o d) = Len(ab) + Len(d)
        /\ \A i \in 1..(Len(ab) + Len(d)) : (ab \o d)[i] = IF i <= Len(ab) THEN ab[i] ELSE d[i - Len(ab)]
    BY <1>1, <1>6, ConcatProperties
  <2>3. Len(ab) = m /\ Len(d) = 3
    BY <1>1, <1>6
  <2>4. with \in Seq(Word) /\ Len(with) = m + 3
    BY <2>1, <2>2, <2>3
  <2>5. \A i \in 1..(m + 3) : with[i] = IF i <= m THEN ab[i] ELSE d[i - m]
    BY <2>1, <2>2, <2>3
  <2> QED BY <1>5, <2>4, <2>5
<1>8. /\ Len(SubSeq(with, 5, m)) = file - 1 /\ SubSeq(with, 5, m) \in Seq(Word)
      /\ \A i \in 1..(file - 1) : SubSeq(with, 5, m)[i] = with[i + 4]
  <2>1. \A i \in 5..m : with[i] \in Word
    BY <1>7
  <2>2. /\ SubSeq(with, 5, m) \in Seq(Word)
        /\ Len(SubSeq(with, 5, m)) = IF 5 <= m THEN m - 5 + 1 ELSE 0
        /\ \A i \in 1..(m - 5 + 1) : SubSeq(with, 5, m)[i] = with[5 + i - 1]
    BY <1>5, <2>1, SubSeqProperties
  <2>3. m - 5 + 1 = file - 1 /\ Len(SubSeq(with, 5, m)) = file - 1
    BY <1>5, <2>2
  <2>4. \A i \in 1..(file - 1) : 5 + i - 1 = i + 4
    OBVIOUS
  <2> QED BY ONLY <2>2, <2>3, <2>4
<1>9. \A i \in 1..(file - 1) : with[i + 4] = b[i]
  <2> TAKE i \in 1..(file - 1)
  <2>1. PICK j \in 5..m : j = i + 4
    BY <1>5
  <2>2. j - 4 = i /\ j \in 1..m
    BY <1>5, <2>1
  <2> QED BY <1>6, <1>7, <2>1, <2>2
<1>10. SubSeq(with, 5, m) = b
  BY <1>2, <1>8, <1>9, SeqEqual
<1> QED BY <1>7, <1>10 DEF b

(* The file that find_file finds is the one that the usage speaks of.      *)
LEMMA OwnRun == SInv => RunsItsOwn
<1> SUFFICES ASSUME SInv, c.serial, NEW p \in Proc
             PROVE  /\ ran[p] # None =>
                        /\ ran[p].by = p /\ ~compile_only(p)
                        /\ \E file \in DOMAIN Args(p) :
                              /\ IsFile(Args(p), file) /\ \A j \in 1..(file - 1) : ~IsFile(Args(p), j)
                              /\ ran[p].args = SubSeq(Args(p), file + 1, Len(Args(p)))
                              /\ SubSeq(ran[p].with, 5, Len(ran[p].with) - 3) = SubSeq(Args(p), 1, file - 1)
                    /\ (pc[p] \in {"end", "refused"} /\ result[p] = 0) => ran[p] # None \/ compile_only(p)
  BY DEF RunsItsOwn
<1>1. Serial(p) /\ Args(p) \in Seq(Word)
  BY ArgsSeq DEF SInv
<1>2. Found(Args(p), File(p))
  BY <1>1, FindsFile DEF File
<1>3. ASSUME ran[p] # None
      PROVE  /\ ran[p].by = p /\ ~compile_only(p)
             /\ \E file \in DOMAIN Args(p) :
                   /\ IsFile(Args(p), file) /\ \A j \in 1..(file - 1) : ~IsFile(Args(p), j)
                   /\ ran[p].args = SubSeq(Args(p), file + 1, Len(Args(p)))
                   /\ SubSeq(ran[p].with, 5, Len(ran[p].with) - 3) = SubSeq(Args(p), 1, file - 1)
  <2>1. /\ ran[p].by = p /\ ran[p].args = program_args(p) /\ ran[p].with = gcc_args(p)
        /\ ~compile_only(p) /\ File(p) <= Len(Args(p))
    BY <1>1, <1>3 DEF Serial, Ran
  <2>2. File(p) \in 1..Len(Args(p)) /\ File(p) \in DOMAIN Args(p)
    BY <1>1, <1>2, <2>1 DEF Found
  <2>3. PICK w : w = gcc_args(p)
    OBVIOUS
  <2>4. SubSeq(w, 5, Len(w) - 3) = SubSeq(Args(p), 1, File(p) - 1)
    <3>1. PICK s \in Seq(Word) : s = Args(p)
      BY <1>1
    <3>2. PICK file \in 1..Len(s) : file = File(p)
      BY <2>2, <3>1
    <3>3. w = <<"-x", "c++", "-l", "ccsh_lib">> \o SubSeq(s, 1, file - 1) \o <<"-o", "temp", "-">>
      BY <2>3, <3>1, <3>2 DEF gcc_args
    <3>4. SubSeq(w, 5, Len(w) - 3) = SubSeq(s, 1, file - 1)
      BY <3>3, Gets
    <3> QED BY <3>1, <3>2, <3>4
  <2> QED BY <1>2, <2>1, <2>2, <2>3, <2>4 DEF Found, program_args
<1> QED BY <1>1, <1>3 DEF Serial

(* A ccshc that is alone runs what it has compiled, tells the arguments of *)
(* the compiler from those of the program at the first one that is neither *)
(* an option nor the argument of an option, and succeeds only if it has    *)
(* done so or was told not to by a -c, one among the program's arguments   *)
(* included: for command lines of any length (ccsh_compiler.cpp:62-180).   *)
THEOREM RunsWhatItMade == Spec => []RunsItsOwn
BY InitSInv, NextSInv, OwnRun, PTL DEF Spec
=============================================================================
