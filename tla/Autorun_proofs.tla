--------------------------- MODULE Autorun_proofs ---------------------------
(***************************************************************************)
(* Proofs about Autorun.tla, for any number of handles and commands.       *)
(***************************************************************************)
EXTENDS Autorun, TLAPS

(* What is in use is alive, what is not alive is empty, and what has run   *)
(* by itself is gone.                                                      *)
Alive ==
    /\ \A h \in Handle : kind[h] # "none" => of[h] \in Node /\ life[of[h]] = "alive"
    /\ \A n \in Node : \A m \in parts[n] : life[m] = "alive"
    /\ \A n \in Node : life[n] # "alive" => parts[n] = {}
    /\ \A n \in Node : life[n] = "unborn" => calls[n] = 0 /\ ~taken[n]
    /\ \A n \in Node : life[n] # "dead" => autos[n] = 0

(* An armed command is alive, has its first handle and no other, and is    *)
(* nobody's operand.                                                       *)
Armed ==
    \A n \in Node :
        flag[n] =>
            /\ life[n] = "alive" /\ calls[n] = 0 /\ autos[n] = 0 /\ ~taken[n]
            /\ \E h \in Handle : kind[h] \in {"runnable", "holder"} /\ of[h] = n
            /\ \A g, h \in Handle :
                kind[g] # "none" /\ kind[h] # "none" /\ of[g] = n /\ of[h] = n => g = h
            /\ \A m \in Node : n \notin parts[m]

(* A command that is not armed any more has been run or taken over.        *)
Disarmed ==
    \A n \in Node :
        life[n] # "unborn" /\ ~flag[n] => autos[n] = 1 \/ calls[n] > 0 \/ taken[n]

IInv == TypeOK /\ Alive /\ Armed /\ Disarmed /\ NotTwice

-----------------------------------------------------------------------------
(* Without handles and commands the invariant holds.                      *)
LEMMA InitInv == Init => IInv
<1> SUFFICES ASSUME Init PROVE IInv
  OBVIOUS
<1> USE DEF Init
<1>1. TypeOK
  BY MaxCallsAssumption DEF TypeOK
<1>2. Alive /\ Armed /\ Disarmed /\ NotTwice
  BY DEF Alive, Armed, Disarmed, NotTwice
<1> QED BY <1>1, <1>2 DEF IInv

(* Handles other than the one dropped keep their commands, and commands    *)
(* that stay keep their operands.                                          *)
LEMMA LeftFacts ==
    ASSUME TypeOK, NEW h \in Handle
    PROVE  /\ \A g \in Handle \ {h} : kind[g] # "none" /\ of[g] \in Node => of[g] \in Left(h)
           /\ \A n \in Left(h) : parts[n] \subseteq Left(h)
<1>1. ASSUME NEW g \in Handle \ {h}, kind[g] # "none", of[g] \in Node PROVE of[g] \in Left(h)
  BY <1>1 DEF Left
<1>2. ASSUME NEW n \in Left(h), NEW m \in parts[n] PROVE m \in Left(h)
  <2>1. n \in Node /\ m \in Node
    BY <1>2 DEF Left, TypeOK
  <2>2. ASSUME NEW S \in SUBSET Node,
               \A g \in Handle \ {h} : kind[g] # "none" => of[g] \in S,
               Closed(S)
        PROVE  m \in S
    BY <1>2, <2>2 DEF Left, Closed
  <2> QED BY <2>1, <2>2 DEF Left
<1> QED BY <1>1, <1>2

(* A new command with one handle and the flag set.                         *)
LEMMA NewArmed ==
    ASSUME IInv, NEW g \in Handle, NEW n \in Node, NEW k \in {"runnable", "holder"},
           NEW b \in BOOLEAN, NEW P \in SUBSET Node,
           \A m \in P : life[m] = "alive" /\ ~flag[m],
           Point(g, k, n), New(n, b, P), flag' = [flag EXCEPT ![n] = TRUE],
           UNCHANGED <<calls, autos, taken>>
    PROVE  IInv'
<1>1. TypeOK'
  BY DEF IInv, TypeOK, Point, New, Pointers, Values
<1>2. Alive'
  BY DEF IInv, TypeOK, Alive, Point, New
<1>3. Armed'
  <2> SUFFICES ASSUME NEW x \in Node, flag'[x]
               PROVE  /\ life'[x] = "alive" /\ calls'[x] = 0 /\ autos'[x] = 0 /\ ~taken'[x]
                      /\ \E h \in Handle : kind'[h] \in {"runnable", "holder"} /\ of'[h] = x
                      /\ \A f, h \in Handle :
                            kind'[f] # "none" /\ kind'[h] # "none" /\ of'[f] = x /\ of'[h] = x
                            => f = h
                      /\ \A m \in Node : x \notin parts'[m]
    BY DEF Armed
  <2>1. CASE x = n
    BY <2>1 DEF IInv, TypeOK, Alive, Point, New
  <2>2. CASE x # n
    <3>1. flag[x]
      BY <2>2 DEF IInv, TypeOK
    <3>2. \E h \in Handle : kind'[h] \in {"runnable", "holder"} /\ of'[h] = x
      BY <2>2, <3>1 DEF IInv, TypeOK, Armed, Point
    <3>3. \A m \in Node : x \notin parts'[m]
      BY <2>2, <3>1 DEF IInv, TypeOK, Armed, New
    <3> QED BY <2>2, <3>1, <3>2, <3>3 DEF IInv, TypeOK, Armed, Point, New
  <2> QED BY <2>1, <2>2
<1>4. Disarmed' /\ NotTwice'
  BY DEF IInv, TypeOK, Disarmed, NotTwice, Alive, Armed, New
<1> QED BY <1>1, <1>2, <1>3, <1>4 DEF IInv

(* A copy of a holder, without the flag; the original loses it.            *)
LEMMA NewCopy ==
    ASSUME IInv, NEW h \in Handle, NEW g \in Handle, NEW n \in Node,
           NEW k \in {"command", "builder"}, kind[h] \in Values,
           Point(g, k, n), New(n, TRUE, {}),
           flag' = [flag EXCEPT ![of[h]] = FALSE, ![n] = FALSE],
           taken' = [taken EXCEPT ![of[h]] = TRUE, ![n] = TRUE],
           UNCHANGED <<calls, autos>>
    PROVE  IInv'
<1>1. of[h] \in Node /\ life[of[h]] = "alive" /\ of[h] # n
  BY DEF IInv, Alive, Values, New
<1>2. TypeOK'
  BY <1>1 DEF IInv, TypeOK, Point, New, Pointers, Values
<1>3. Alive'
  BY <1>1 DEF IInv, TypeOK, Alive, Point, New
<1>4. Armed'
  <2> SUFFICES ASSUME NEW x \in Node, flag'[x]
               PROVE  /\ life'[x] = "alive" /\ calls'[x] = 0 /\ autos'[x] = 0 /\ ~taken'[x]
                      /\ \E f \in Handle : kind'[f] \in {"runnable", "holder"} /\ of'[f] = x
                      /\ \A f, e \in Handle :
                            kind'[f] # "none" /\ kind'[e] # "none" /\ of'[f] = x /\ of'[e] = x
                            => f = e
                      /\ \A m \in Node : x \notin parts'[m]
    BY DEF Armed
  <2>1. x # n /\ x # of[h] /\ flag[x]
    BY <1>1 DEF IInv, TypeOK
  <2>2. \E f \in Handle : kind'[f] \in {"runnable", "holder"} /\ of'[f] = x
    BY <2>1 DEF IInv, TypeOK, Armed, Point
  <2>3. \A m \in Node : x \notin parts'[m]
    BY <2>1 DEF IInv, TypeOK, Armed, New
  <2> QED BY <2>1, <2>2, <2>3, <1>1 DEF IInv, TypeOK, Armed, Point, New
<1>5. Disarmed'
  BY <1>1 DEF IInv, TypeOK, Disarmed, New
<1>6. NotTwice'
  BY <1>1 DEF IInv, TypeOK, NotTwice, Alive, New
<1> QED BY <1>2, <1>3, <1>4, <1>5, <1>6 DEF IInv

(* One more handle for a command that is not armed, or no longer.          *)
LEMMA Share ==
    ASSUME IInv, NEW h \in Handle, NEW g \in Handle, NEW b \in BOOLEAN,
           kind[h] \in Pointers, kind[h] = "command" => ~flag[of[h]],
           Point(g, "command", of[h]),
           flag' = [flag EXCEPT ![of[h]] = FALSE],
           taken' = [taken EXCEPT ![of[h]] = b],
           kind[h] = "runnable" => b = TRUE,
           kind[h] = "command" => b = taken[of[h]],
           UNCHANGED <<life, holds, parts, calls, autos>>
    PROVE  IInv'
<1>1. of[h] \in Node /\ life[of[h]] = "alive"
  BY DEF IInv, Alive, Pointers
<1>2. TypeOK'
  BY <1>1 DEF IInv, TypeOK, Point, Pointers, Values
<1>3. Alive'
  BY <1>1 DEF IInv, TypeOK, Alive, Point
<1>4. Armed'
  BY <1>1 DEF IInv, TypeOK, Armed, Point, Pointers
<1>5. Disarmed'
  BY <1>1 DEF IInv, TypeOK, Disarmed, Pointers
<1>6. NotTwice'
  BY <1>1 DEF IInv, TypeOK, NotTwice, Alive
<1> QED BY <1>2, <1>3, <1>4, <1>5, <1>6 DEF IInv

(* run() on a command that is alive: it has not run by itself.             *)
LEMMA RunInv == ASSUME IInv, NEW h \in Handle, Run(h) PROVE IInv'
<1>1. of[h] \in Node /\ life[of[h]] = "alive"
  BY DEF IInv, Alive, Run
<1>2. TypeOK'
  BY <1>1, MaxCallsAssumption DEF IInv, TypeOK, Run
<1>3. Alive'
  BY <1>1 DEF IInv, TypeOK, Alive, Run
<1>4. Armed'
  BY <1>1 DEF IInv, TypeOK, Armed, Run
<1>5. Disarmed'
  BY <1>1 DEF IInv, TypeOK, Disarmed, Run
<1>6. NotTwice'
  BY <1>1 DEF IInv, TypeOK, NotTwice, Alive, Run
<1> QED BY <1>2, <1>3, <1>4, <1>5, <1>6 DEF IInv

(* Dropping a handle runs its command if that is armed, and no other; an   *)
(* armed command goes with its handle.                                     *)
LEMMA DropFacts ==
    ASSUME IInv, NEW h \in Handle, kind[h] # "none",
           NEW dying, dying = {n \in Node : life[n] = "alive"} \ Left(h)
    PROVE  /\ of[h] \in Node
           /\ \A n \in Called(h, dying) : flag[n] => n = of[h]
           /\ \A n \in dying : flag[n] => n = of[h]
           /\ flag[of[h]] => of[h] \in dying
<1>1. of[h] \in Node /\ life[of[h]] = "alive"
  BY DEF IInv, Alive
<1>2. ASSUME NEW n \in dying, flag[n] PROVE n = of[h]
  <2>1. PICK g \in Handle : kind[g] \in {"runnable", "holder"} /\ of[g] = n
    BY <1>2 DEF IInv, Armed
  <2>2. n \in Node /\ n \notin Left(h)
    BY <1>2
  <2> QED BY <2>1, <2>2, LeftFacts DEF IInv
<1>3. ASSUME NEW n \in Called(h, dying), flag[n] PROVE n = of[h]
  <2>1. CASE n \in dying
    BY <1>3, <1>2, <2>1
  <2>2. CASE \E m \in dying : n \in parts[m]
    <3>1. PICK m \in dying : n \in parts[m]
      BY <2>2
    <3>2. m \in Node /\ n \in Node
      BY <3>1 DEF IInv, TypeOK
    <3> QED BY <1>3, <3>1, <3>2 DEF IInv, Armed
  <2> QED BY <1>3, <2>1, <2>2 DEF Called
<1>4. ASSUME flag[of[h]] PROVE of[h] \notin Left(h)
  <2> DEFINE S == Node \ {of[h]}
  <2>1. \A g \in Handle \ {h} : kind[g] # "none" => of[g] \in S
    BY <1>1, <1>4 DEF IInv, Armed, Alive
  <2>2. Closed(S)
    BY <1>1, <1>4 DEF IInv, TypeOK, Armed, Closed
  <2>3. S \in SUBSET Node /\ of[h] \notin S
    OBVIOUS
  <2> HIDE DEF S
  <2> QED BY <2>1, <2>2, <2>3 DEF Left
<1> QED BY <1>1, <1>2, <1>3, <1>4

(* Destroying a handle, with all that its destructors run, keeps it.       *)
LEMMA DropInv == ASSUME IInv, NEW h \in Handle, Drop(h) PROVE IInv'
<1> DEFINE dying == {n \in Node : life[n] = "alive"} \ Left(h)
           armed == {n \in Called(h, dying) : flag[n]}
<1>1. /\ kind[h] # "none"
      /\ kind' = [kind EXCEPT ![h] = "none"]
      /\ of' = [of EXCEPT ![h] = None]
      /\ life' = [n \in Node |-> IF n \in dying THEN "dead" ELSE life[n]]
      /\ holds' = [n \in Node |-> holds[n] /\ n \notin dying]
      /\ parts' = [n \in Node |-> IF n \in dying THEN {} ELSE parts[n]]
      /\ autos' = [n \in Node |-> IF n \in armed THEN autos[n] + 1 ELSE autos[n]]
      /\ flag' = [n \in Node |-> flag[n] /\ n \notin armed]
      /\ calls' = calls /\ taken' = taken
  BY DEF Drop
<1>2. /\ of[h] \in Node
      /\ \A n \in armed : n = of[h] /\ flag[n]
      /\ \A n \in dying : flag[n] => n = of[h]
      /\ flag[of[h]] => of[h] \in dying /\ of[h] \in armed
  <2>1. of[h] \in Called(h, dying)
    BY DEF Called
  <2> QED BY <1>1, <2>1, DropFacts
<1>3. \A n \in dying : n \in Node /\ life[n] = "alive" /\ n \notin Left(h)
  OBVIOUS
<1>4. \A n \in Node : life[n] = "alive" /\ n \in Left(h) => n \notin dying
  OBVIOUS
<1> HIDE DEF dying, armed
<1>5. TypeOK'
  BY <1>1, <1>2 DEF IInv, TypeOK
<1>6. Alive'
  <2>1. \A g \in Handle : kind'[g] # "none" => of'[g] \in Node /\ life'[of'[g]] = "alive"
    BY <1>1, <1>4, LeftFacts DEF IInv, TypeOK, Alive
  <2>2. ASSUME NEW n \in Node, NEW m \in parts'[n] PROVE life'[m] = "alive"
    <3>1. n \notin dying /\ m \in parts[n] /\ m \in Node /\ life[m] = "alive"
      BY <1>1, <2>2 DEF IInv, TypeOK, Alive
    <3>2. life[n] = "alive"
      BY <3>1 DEF IInv, TypeOK, Alive
    <3>3. n \in Left(h)
      BY <3>1, <3>2 DEF dying
    <3> QED BY <1>1, <1>4, <3>1, <3>3, LeftFacts DEF IInv
  <2>3. \A n \in Node : life'[n] # "alive" => parts'[n] = {}
    BY <1>1 DEF IInv, TypeOK, Alive
  <2>4. \A n \in Node : life'[n] = "unborn" => calls'[n] = 0 /\ ~taken'[n]
    BY <1>1, <1>3 DEF IInv, TypeOK, Alive
  <2>5. \A n \in Node : life'[n] # "dead" => autos'[n] = 0
    BY <1>1, <1>2 DEF IInv, TypeOK, Alive
  <2> QED BY <2>1, <2>2, <2>3, <2>4, <2>5 DEF Alive
<1>7. Armed'
  <2> SUFFICES ASSUME NEW x \in Node, flag'[x]
               PROVE  /\ life'[x] = "alive" /\ calls'[x] = 0 /\ autos'[x] = 0 /\ ~taken'[x]
                      /\ \E f \in Handle : kind'[f] \in {"runnable", "holder"} /\ of'[f] = x
                      /\ \A f, e \in Handle :
                            kind'[f] # "none" /\ kind'[e] # "none" /\ of'[f] = x /\ of'[e] = x
                            => f = e
                      /\ \A m \in Node : x \notin parts'[m]
    BY DEF Armed
  <2>1. flag[x] /\ x \notin armed /\ x # of[h] /\ x \notin dying
    BY <1>1, <1>2
  <2>2. \E f \in Handle : kind'[f] \in {"runnable", "holder"} /\ of'[f] = x
    BY <1>1, <2>1 DEF IInv, TypeOK, Armed
  <2>3. \A m \in Node : x \notin parts'[m]
    BY <1>1, <2>1 DEF IInv, TypeOK, Armed
  <2> QED BY <1>1, <2>1, <2>2, <2>3 DEF IInv, TypeOK, Armed
<1>8. Disarmed'
  BY <1>1, <1>2, <1>3 DEF IInv, TypeOK, Disarmed, Armed
<1>9. NotTwice'
  BY <1>1, <1>2 DEF IInv, TypeOK, NotTwice, Armed
<1> QED BY <1>5, <1>6, <1>7, <1>8, <1>9 DEF IInv

-----------------------------------------------------------------------------
(* Every step preserves the invariant.                                     *)
LEMMA NextInv == IInv /\ [Next]_vars => IInv'
<1> SUFFICES ASSUME IInv, [Next]_vars PROVE IInv'
  OBVIOUS
<1>1. ASSUME NEW g \in Handle, NEW n \in Node, Shell(g, n) \/ Holder(g, n) PROVE IInv'
  <2>1. PICK k \in {"runnable", "holder"}, b \in BOOLEAN :
            /\ Point(g, k, n) /\ New(n, b, {}) /\ flag' = [flag EXCEPT ![n] = TRUE]
            /\ UNCHANGED <<calls, autos, taken>>
    BY <1>1, Zenon DEF Shell, Holder
  <2>2. {} \in SUBSET Node /\ \A m \in {} : life[m] = "alive" /\ ~flag[m]
    OBVIOUS
  <2> QED BY <2>1, <2>2, NewArmed, Zenon
<1>2. ASSUME NEW h \in Handle, NEW g \in Handle, FromRunnable(h, g) PROVE IInv'
  BY <1>2, Share DEF FromRunnable, Pointers
<1>3. ASSUME NEW h \in Handle, NEW g \in Handle, Copy(h, g) PROVE IInv'
  <2>1. of[h] \in Node /\ ~flag[of[h]]
    BY <1>3 DEF Copy, IInv, Alive, Armed
  <2>2. /\ flag' = [flag EXCEPT ![of[h]] = FALSE]
        /\ taken' = [taken EXCEPT ![of[h]] = taken[of[h]]]
    BY <1>3, <2>1 DEF Copy, IInv, TypeOK
  <2>3. taken[of[h]] \in BOOLEAN
    BY <2>1 DEF IInv, TypeOK
  <2> QED BY <1>3, <2>1, <2>2, <2>3, Share DEF Copy, Pointers
<1>4. ASSUME NEW h \in Handle, NEW g \in Handle, NEW n \in Node,
             FromHolder(h, g, n) \/ Builder(h, g, n)
      PROVE  IInv'
  BY <1>4, NewCopy DEF FromHolder, Builder
<1>5. ASSUME NEW a \in Handle, NEW b \in Handle, NEW g \in Handle, NEW n \in Node,
             Combine(a, b, g, n)
      PROVE  IInv'
  <2>1. \A m \in {of[a], of[b]} : m \in Node /\ life[m] = "alive" /\ ~flag[m]
    BY <1>5, SMT DEF Combine, IInv, Alive, Armed
  <2>2. {of[a], of[b]} \in SUBSET Node
    BY <2>1
  <2>3. /\ Point(g, "runnable", n) /\ New(n, FALSE, {of[a], of[b]})
        /\ flag' = [flag EXCEPT ![n] = TRUE] /\ UNCHANGED <<calls, autos, taken>>
    BY <1>5, Zenon DEF Combine
  <2> QED BY <2>1, <2>2, <2>3, NewArmed, Zenon
<1>6. ASSUME NEW h \in Handle, Run(h) PROVE IInv'
  BY <1>6, RunInv
<1>7. ASSUME NEW h \in Handle, Drop(h) PROVE IInv'
  BY <1>7, DropInv
<1>8. CASE UNCHANGED vars
  BY <1>8 DEF vars, IInv, TypeOK, Alive, Armed, Disarmed, NotTwice
<1> QED BY <1>1, <1>2, <1>3, <1>4, <1>5, <1>6, <1>7, <1>8 DEF Next

(* The inductive invariant, of every program with any number of handles.   *)
THEOREM Invariance == Spec => []IInv
BY InitInv, NextInv, PTL DEF Spec

(* Every variable keeps its type.                                          *)
THEOREM TypeCorrect == Spec => []TypeOK
BY Invariance, PTL DEF IInv

(* No command runs by itself after it has been run or taken over, or twice *)
(* (ccsh_command.hpp:174-178, 200-227).                                    *)
THEOREM RunsOnce == Spec => []NotTwice
BY Invariance, PTL DEF IInv

(* No command disappears without having been run or taken over             *)
(* (ccsh_command.hpp:174-178, 200-203).                                    *)
THEOREM RunsAtAll == Spec => []NotNever
<1>1. IInv => NotNever
  BY DEF IInv, Armed, Disarmed, NotNever
<1> QED BY <1>1, Invariance, PTL

(* Operands live as long as what they are part of, and never run alone     *)
(* (ccsh_command.hpp:256-267, ccsh_operators.hpp:32-202).                  *)
THEOREM OperandsQuiet == Spec => []WholeOnly
<1>1. IInv => WholeOnly
  BY DEF IInv, TypeOK, Alive, Armed, WholeOnly
<1> QED BY <1>1, Invariance, PTL
=============================================================================
