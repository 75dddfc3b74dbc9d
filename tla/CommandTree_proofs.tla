------------------------- MODULE CommandTree_proofs -------------------------
(***************************************************************************)
(* Proofs about CommandTree.tla, for every expression in which no command  *)
(* has two operators, and every limit on descriptors: also for those that  *)
(* the library does not run as they read.                                  *)
(*                                                                         *)
(* The first part is about what holds for all of them (the invariant is    *)
(* IInv).  The second is about what reaches what in an expression: the     *)
(* files that its programs read and write, the output that its mappings    *)
(* collect, what makes run() throw, what a task calls after that, and      *)
(* what is left in the end.                                                *)
(***************************************************************************)
EXTENDS CommandTree, TLAPS, FiniteSetTheorems, WellFoundedInduction

TypeOK ==
    /\ \E x \in Cases : tree = x[1] /\ limit = x[2]
    /\ DOMAIN pc = Node /\ DOMAIN job = Node
    /\ DOMAIN fdt = Fd
    /\ own \in [Node -> [Slots -> Fd \cup {-1}]]

(* A node has no task and no wrapper before its start_run, and nothing     *)
(* below it has begun then.  The right operand of a pipe or of && || ,     *)
(* waits until its turn comes.                                             *)
Fresh(n) ==
    /\ pc[n] \in {"idle", "start"} => own[n] = NoSlots
    /\ pc[n] \in {"idle", "start", "left"} => job[n] = "none"
    /\ job[n] = "left" => Op(n) \in Conditionals

Waits(n, m) == m \in Node => pc[m] = "idle"

InTurn(n) ==
    /\ pc[n] \in {"idle", "start"} => Waits(n, L(n)) /\ Waits(n, R(n))
    /\ (pc[n] = "left" /\ Op(n) \in Conditionals \cup {"pipe"}) \/ job[n] = "left" => Waits(n, R(n))

(* The table and the wrappers agree, but for the pipes of failed forks.    *)
Owner(fd) == \E n \in Node, s \in Slots : own[n][s] = fd
OneOwner ==
    \A n, m \in Node, s, r \in Slots : own[n][s] = own[m][r] /\ own[n][s] # -1 => n = m /\ s = r
Files ==
    \A n \in Node, s \in Slots :
        own[n][s] # -1 =>
            /\ own[n][s] \notin 0..2
            /\ s = "p0" => fdt[own[n][s]] = PipeR(n)
            /\ s = "p1" => fdt[own[n][s]] = PipeW(n)
            /\ s = "fd" => fdt[own[n][s]] = OpenFile(n)
            /\ s \in Streams => fdt[own[n][s]] # Closed
Table ==
    /\ \A fd \in Fd \ (0..2) : fdt[fd] # Closed => Owner(fd) \/ FailPipe(fdt[fd])
    /\ OneOwner /\ Files
    /\ \A k \in Streams : fdt[StdFd[k]] = Tty(k)

IInv == TypeOK /\ (\A n \in Node : Fresh(n) /\ InTurn(n)) /\ Table

-----------------------------------------------------------------------------
(* What the kernel chooses: the least number of a set.                     *)
LEMMA Least ==
    ASSUME NEW S \in SUBSET Nat, S # {}
    PROVE  Min(S) \in S /\ \A y \in S : Min(S) <= y
<1> DEFINE Less == {ss \in Nat \X Nat : ss[1] < ss[2]}
<1>1. IsWellFoundedOn(Less, Nat)
  BY NatLessThanWellFounded DEF OpToRel
<1>2. PICK x \in S : \A y \in S : ~(<<y, x>> \in Less)
  BY <1>1, WFMin
<1>3. \A y \in S : x <= y
  <2> TAKE y \in S
  <2>1. ~(y < x)
    BY <1>2
  <2> QED BY <2>1
<1> QED BY <1>3 DEF Min

(* A set with so many members.                                             *)
LEMMA Three ==
    ASSUME NEW S \in SUBSET Nat, IsFiniteSet(S)
    PROVE  /\ Cardinality(S) >= 1 => Min(S) \in S
           /\ Cardinality(S) >= 2 => Min(S \ {Min(S)}) \in S \ {Min(S)}
           /\ Cardinality(S) >= 3 =>
                  Min(S \ {Min(S), Min(S \ {Min(S)})}) \in S \ {Min(S), Min(S \ {Min(S)})}
<1> DEFINE a == Min(S)
           T == S \ {a}
           b == Min(T)
           U == T \ {b}
<1>1. Cardinality(S) \in Nat
  BY FS_CardinalityType
<1>0. ASSUME NEW X, IsFiniteSet(X), NEW x
      PROVE  /\ IsFiniteSet(X \ {x}) /\ Cardinality(X \ {x}) \in Nat
             /\ Cardinality(X \ {x}) >= Cardinality(X) - 1
  <2>1. /\ IsFiniteSet(X \ {x})
        /\ Cardinality(X \ {x}) = IF x \in X THEN Cardinality(X) - 1 ELSE Cardinality(X)
    BY <1>0, FS_RemoveElement
  <2>2. Cardinality(X \ {x}) \in Nat /\ Cardinality(X) \in Nat
    BY <1>0, <2>1, FS_CardinalityType
  <2> QED BY <2>1, <2>2
<1>2. IsFiniteSet(T) /\ Cardinality(T) \in Nat /\ Cardinality(T) >= Cardinality(S) - 1
  BY <1>0
<1>3. IsFiniteSet(U) /\ Cardinality(U) \in Nat /\ Cardinality(U) >= Cardinality(T) - 1
  BY <1>0, <1>2
<1>4. \A X \in SUBSET Nat : IsFiniteSet(X) /\ Cardinality(X) # 0 => Min(X) \in X
  <2> SUFFICES ASSUME NEW X \in SUBSET Nat, IsFiniteSet(X), Cardinality(X) # 0 PROVE Min(X) \in X
    OBVIOUS
  <2>1. X # {}
    BY FS_EmptySet
  <2> QED BY <2>1, Least
<1>5. Cardinality(S) >= 1 => a \in S
  BY <1>1, <1>4
<1>6. Cardinality(S) >= 2 => b \in T
  BY <1>1, <1>2, <1>4
<1>7. Cardinality(S) >= 3 => Min(U) \in U
  BY <1>1, <1>2, <1>3, <1>4
<1>8. U = S \ {a, b}
  OBVIOUS
<1> QED BY <1>5, <1>6, <1>7, <1>8

(* The numbers that are given out are not in use, differ, and are none of  *)
(* the first three.                                                        *)
LEMMA Given ==
    ASSUME TypeOK, Table
    PROVE  /\ CanOpen(1) => Free1 \in Free
           /\ CanOpen(2) => Free1 \in Free /\ Free2 \in Free /\ Free1 # Free2
           /\ CanOpen(3) => /\ Free1 \in Free /\ Free2 \in Free /\ Free3 \in Free
                            /\ Free1 # Free2 /\ Free1 # Free3 /\ Free2 # Free3
           /\ \A fd \in Free : fd \in Fd \ (0..2) /\ fdt[fd] = Closed /\ ~Owner(fd)
<1>1. limit \in Nat /\ limit >= 3
  BY CasesAssumption DEF TypeOK
<1>2. Free \in SUBSET Nat /\ IsFiniteSet(Free)
  <2>1. IsFiniteSet(Fd)
    BY <1>1, FS_Interval DEF Fd
  <2> QED BY <1>1, <2>1, FS_Subset DEF Free, Fd
<1>3. Cardinality(Free) \in Nat
  BY <1>2, FS_CardinalityType
<1>4. \A fd \in Free : fd \in Fd \ (0..2) /\ fdt[fd] = Closed /\ ~Owner(fd)
  <2> SUFFICES ASSUME NEW fd \in Free PROVE fd \in Fd \ (0..2) /\ fdt[fd] = Closed /\ ~Owner(fd)
    OBVIOUS
  <2>1. fd \in Fd /\ fdt[fd] = Closed
    BY DEF Free
  <2>2. fdt[0] = Tty("in") /\ fdt[1] = Tty("out") /\ fdt[2] = Tty("err")
    BY DEF Table, Streams, StdFd
  <2>3. fd \notin 0..2
    <3>1. Tty("in") # Closed /\ Tty("out") # Closed /\ Tty("err") # Closed
      BY DEF Tty, Closed
    <3>2. fd # 0 /\ fd # 1 /\ fd # 2
      BY <2>1, <2>2, <3>1
    <3> QED BY <3>2
  <2>4. ~Owner(fd)
    <3> SUFFICES ASSUME NEW n \in Node, NEW s \in Slots, own[n][s] = fd PROVE FALSE
      BY DEF Owner
    <3>1. fd # -1
      BY <1>2
    <3>2. s \in {"p0", "p1", "fd"} \cup Streams
      BY DEF Slots
    <3>3. PipeR(n) # Closed /\ PipeW(n) # Closed /\ OpenFile(n) # Closed
      BY DEF PipeR, PipeW, OpenFile, Closed
    <3> QED BY <2>1, <3>1, <3>2, <3>3 DEF Table, Files
  <2> QED BY <2>1, <2>3, <2>4
<1> QED BY <1>2, <1>3, <1>4, Three DEF CanOpen, Free1, Free2, Free3


(* In the beginning nothing is open but what the host came with.           *)
LEMMA InitIInv == Init => IInv
<1> SUFFICES ASSUME Init PROVE IInv
  OBVIOUS
<1>1. PICK x \in Cases : tree = x[1] /\ limit = x[2]
  BY DEF Init
<1>2. limit \in Nat /\ limit >= 3
  BY <1>1, CasesAssumption
<1>3. TypeOK
  BY DEF Init, TypeOK, Inherited, NoSlots, Fd
<1>4. ASSUME NEW n \in Node PROVE Fresh(n) /\ InTurn(n)
  <2>1. own[n] = NoSlots /\ job[n] = "none" /\ pc[n] \in {"idle", "start"}
    BY DEF Init
  <2>2. ASSUME NEW m \in {L(n), R(n)}, m \in Node PROVE pc[m] = "idle"
    <3>1. n \in DOMAIN x[1] /\ m # 0
      BY <1>1, <2>2, NothingShared DEF Node
    <3>2. m \in (n + 1)..Len(x[1])
      BY <1>1, <2>2, <3>1, CasesAssumption DEF L, R
    <3>3. m # Root
      BY <3>1, <3>2, NothingShared DEF Root
    <3> QED BY <2>2, <3>3 DEF Init
  <2> QED BY <2>1, <2>2 DEF Fresh, InTurn, Waits
<1>5. Table
  <2>1. \A n \in Node, s \in Slots : own[n][s] = -1
    BY DEF Init, NoSlots
  <2>2. fdt = Inherited
    BY DEF Init
  <2>3. \A fd \in Fd \ (0..2) : fdt[fd] = Closed
    BY <2>2 DEF Inherited
  <2>4. ASSUME NEW k \in Streams PROVE fdt[StdFd[k]] = Tty(k)
    <3>1. StdFd[k] \in 0..2 /\ StdFd[k] \in Fd
      BY <1>2 DEF StdFd, Streams, Fd
    <3>2. (CHOOSE j \in Streams : StdFd[j] = StdFd[k]) = k
      BY DEF StdFd, Streams
    <3> QED BY <2>2, <3>1, <3>2 DEF Inherited
  <2> QED BY <2>1, <2>3, <2>4 DEF Table, OneOwner, Files
<1> QED BY <1>3, <1>4, <1>5 DEF IInv

-----------------------------------------------------------------------------
(* The wrappers of one node are destroyed: what they own is closed, and    *)
(* nothing else (ccsh_utils_posix.cpp:100-104).                            *)
LEMMA CloseKeeps ==
    ASSUME TypeOK, Table, NEW n \in Node, NEW S \in SUBSET Slots, Close(n, S), fixed' = fixed
    PROVE  /\ own' \in [Node -> [Slots -> Fd \cup {-1}]] /\ DOMAIN fdt' = Fd
           /\ \A m \in Node, s \in Slots : own'[m][s] \in {own[m][s], -1}
           /\ \A m \in Node \ {n} : own'[m] = own[m]
           /\ own[n] = NoSlots => own'[n] = NoSlots
           /\ Table'
<1>1. tree' = tree /\ limit' = limit /\ Node' = Node /\ Fd' = Fd
  BY DEF fixed, Node, Fd
<1>2. /\ \A m \in Node \ {n} : own'[m] = own[m]
      /\ own'[n] = [s \in Slots |-> IF s \in S THEN -1 ELSE own[n][s]]
      /\ DOMAIN own' = Node
  BY DEF Close, TypeOK
<1>3. own' \in [Node -> [Slots -> Fd \cup {-1}]]
  <2>1. own'[n] \in [Slots -> Fd \cup {-1}]
    BY <1>2 DEF TypeOK
  <2>2. own' = [m \in Node |-> own'[m]]
    BY DEF Close, TypeOK
  <2> QED BY <1>2, <2>1, <2>2 DEF TypeOK
<1>4. \A fd \in Fd : fdt'[fd] = IF \E s \in S : own[n][s] = fd /\ fd \notin 0..2 THEN Closed ELSE fdt[fd]
  BY DEF Close
<1>5. \A m \in Node, s \in Slots : own'[m][s] = own[m][s] \/ own'[m][s] = -1
  BY <1>2
<1>6. own[n] = NoSlots => own'[n] = NoSlots
  BY <1>2 DEF NoSlots
<1>7. ASSUME NEW m \in Node, NEW s \in Slots, own'[m][s] # -1
      PROVE  own'[m][s] = own[m][s] /\ fdt'[own[m][s]] = fdt[own[m][s]]
  <2>1. own'[m][s] = own[m][s] /\ own[m][s] \in Fd /\ (m = n => s \notin S)
    BY <1>2, <1>5, <1>7 DEF TypeOK
  <2>2. \A r \in S : own[n][r] # own[m][s]
    BY <1>7, <2>1 DEF Table, OneOwner
  <2> QED BY <1>4, <2>1, <2>2
<1>8. \A fd \in Fd \ (0..2) :
          fdt'[fd] # Closed => (\E m \in Node, s \in Slots : own'[m][s] = fd) \/ FailPipe(fdt'[fd])
  <2> SUFFICES ASSUME NEW fd \in Fd \ (0..2), fdt'[fd] # Closed, ~FailPipe(fdt'[fd])
               PROVE  \E m \in Node, s \in Slots : own'[m][s] = fd
    OBVIOUS
  <2>1. fdt[fd] # Closed /\ fdt'[fd] = fdt[fd] /\ \A s \in S : own[n][s] # fd
    BY <1>4
  <2>2. PICK m \in Node, s \in Slots : own[m][s] = fd
    BY <2>1 DEF Table, Owner
  <2>3. own'[m][s] = fd
    BY <1>2, <2>1, <2>2
  <2> QED BY <2>3
<1>9. OneOwner'
  BY <1>1, <1>7 DEF Table, OneOwner
<1>10. Files'
  <2> SUFFICES ASSUME NEW m \in Node, NEW s \in Slots, own'[m][s] # -1
               PROVE  /\ own'[m][s] \notin 0..2
                      /\ s = "p0" => fdt'[own'[m][s]] = PipeR(m)
                      /\ s = "p1" => fdt'[own'[m][s]] = PipeW(m)
                      /\ s = "fd" => fdt'[own'[m][s]] = OpenFile(m)
                      /\ s \in Streams => fdt'[own'[m][s]] # Closed
    BY <1>1 DEF Files, PipeR, PipeW, OpenFile, Closed
  <2> QED BY <1>7 DEF Table, Files
<1>11. \A k \in Streams : fdt'[StdFd[k]] = Tty(k)
  <2>1. limit \in Nat /\ limit >= 3
    BY CasesAssumption DEF TypeOK
  <2>2. \A k \in Streams : StdFd[k] \in 0..2 /\ StdFd[k] \in Fd
    BY <2>1 DEF StdFd, Streams, Fd
  <2> QED BY <1>4, <2>2 DEF Table
<1>12. Table'
  BY <1>1, <1>8, <1>9, <1>10, <1>11 DEF Table, Owner, FailPipe, Op, PipeR, PipeW
<1> QED BY <1>2, <1>3, <1>5, <1>6, <1>12 DEF Close

(* Numbers that were free are handed to wrappers of one node that had      *)
(* none: pipe(2), open(2) and fcntl(F_DUPFD_CLOEXEC).                      *)
LEMMA OpenKeeps ==
    ASSUME TypeOK, Table, NEW n \in Node, own[n] = NoSlots, fixed' = fixed,
           NEW S \in SUBSET Slots, NEW fd \in [S -> Free], \A s, r \in S : fd[s] = fd[r] => s = r,
           own' = [own EXCEPT ![n] = [s \in Slots |-> IF s \in S THEN fd[s] ELSE -1]],
           DOMAIN fdt' = Fd,
           \A k \in Fd : (\A s \in S : fd[s] # k) => fdt'[k] = fdt[k],
           \A s \in S : /\ s = "p0" => fdt'[fd[s]] = PipeR(n)
                        /\ s = "p1" => fdt'[fd[s]] = PipeW(n)
                        /\ s = "fd" => fdt'[fd[s]] = OpenFile(n)
                        /\ s \in Streams => fdt'[fd[s]] # Closed
    PROVE  /\ own' \in [Node -> [Slots -> Fd \cup {-1}]]
           /\ \A m \in Node \ {n} : own'[m] = own[m]
           /\ Table'
<1>1. tree' = tree /\ limit' = limit /\ Node' = Node /\ Fd' = Fd
  BY DEF fixed, Node, Fd
<1>2. \A k \in Free : k \in Fd \ (0..2) /\ fdt[k] = Closed /\ ~Owner(k)
  BY Given
<1>3. /\ \A m \in Node \ {n} : own'[m] = own[m]
      /\ own'[n] = [s \in Slots |-> IF s \in S THEN fd[s] ELSE -1]
  BY DEF TypeOK
<1>4. own' \in [Node -> [Slots -> Fd \cup {-1}]]
  <2>1. own'[n] \in [Slots -> Fd \cup {-1}]
    BY <1>2, <1>3
  <2>2. DOMAIN own' = Node /\ own' = [m \in Node |-> own'[m]]
    BY DEF TypeOK
  <2> QED BY <1>3, <2>1, <2>2 DEF TypeOK
<1>5. \A s \in Slots : own[n][s] = -1
  BY DEF NoSlots
<1>6. ASSUME NEW m \in Node, NEW s \in Slots, own'[m][s] # -1
      PROVE  \/ m = n /\ s \in S /\ own'[m][s] = fd[s]
             \/ m # n /\ own'[m][s] = own[m][s] /\ fdt'[own[m][s]] = fdt[own[m][s]]
                      /\ \A r \in S : own[m][s] # fd[r]
  <2>1. CASE m = n
    BY <1>3, <1>6, <2>1
  <2>2. CASE m # n
    <3>1. own'[m][s] = own[m][s] /\ own[m][s] \in Fd
      BY <1>3, <1>6, <2>2 DEF TypeOK
    <3>2. Owner(own[m][s])
      BY DEF Owner
    <3>3. \A r \in S : own[m][s] # fd[r]
      BY <1>2, <3>2
    <3> QED BY <2>2, <3>1, <3>3
  <2> QED BY <2>1, <2>2
<1>7. \A k \in Fd \ (0..2) :
          fdt'[k] # Closed => (\E m \in Node, s \in Slots : own'[m][s] = k) \/ FailPipe(fdt'[k])
  <2> SUFFICES ASSUME NEW k \in Fd \ (0..2), fdt'[k] # Closed, ~FailPipe(fdt'[k])
               PROVE  \E m \in Node, s \in Slots : own'[m][s] = k
    OBVIOUS
  <2>1. CASE \E s \in S : fd[s] = k
    BY <1>3, <2>1
  <2>2. CASE \A s \in S : fd[s] # k
    <3>1. PICK m \in Node, s \in Slots : own[m][s] = k
      BY <2>2 DEF Table, Owner
    <3>2. k # -1
      <4>1. limit \in Nat
        BY CasesAssumption DEF TypeOK
      <4> QED BY <4>1 DEF Fd
    <3>3. m # n
      BY <1>5, <3>1, <3>2
    <3> QED BY <1>3, <3>1, <3>3
  <2> QED BY <2>1, <2>2
<1>8. OneOwner'
  <2> SUFFICES ASSUME NEW m \in Node, NEW q \in Node, NEW s \in Slots, NEW r \in Slots,
                      own'[m][s] = own'[q][r], own'[m][s] # -1
               PROVE  m = q /\ s = r
    BY <1>1 DEF OneOwner
  <2>1. CASE m = n /\ q = n
    BY <1>6, <2>1
  <2>2. CASE m # n /\ q # n
    BY <1>6, <2>2 DEF Table, OneOwner
  <2>3. CASE m = n /\ q # n
    BY <1>6, <2>3
  <2>4. CASE m # n /\ q = n
    BY <1>6, <2>4
  <2> QED BY <2>1, <2>2, <2>3, <2>4
<1>9. Files'
  <2> SUFFICES ASSUME NEW m \in Node, NEW s \in Slots, own'[m][s] # -1
               PROVE  /\ own'[m][s] \notin 0..2
                      /\ s = "p0" => fdt'[own'[m][s]] = PipeR(m)
                      /\ s = "p1" => fdt'[own'[m][s]] = PipeW(m)
                      /\ s = "fd" => fdt'[own'[m][s]] = OpenFile(m)
                      /\ s \in Streams => fdt'[own'[m][s]] # Closed
    BY <1>1 DEF Files, PipeR, PipeW, OpenFile, Closed
  <2>1. CASE m = n /\ s \in S /\ own'[m][s] = fd[s]
    BY <1>2, <2>1
  <2>2. CASE m # n /\ own'[m][s] = own[m][s] /\ fdt'[own[m][s]] = fdt[own[m][s]]
    BY <2>2 DEF Table, Files
  <2> QED BY <1>6, <2>1, <2>2
<1>10. \A k \in Streams : fdt'[StdFd[k]] = Tty(k)
  <2>1. limit \in Nat /\ limit >= 3
    BY CasesAssumption DEF TypeOK
  <2>2. \A k \in Streams : StdFd[k] \in 0..2 /\ StdFd[k] \in Fd
    BY <2>1 DEF StdFd, Streams, Fd
  <2>3. \A k \in Streams, s \in S : fd[s] # StdFd[k]
    BY <1>2, <2>2
  <2> QED BY <2>2, <2>3 DEF Table
<1>11. Table'
  BY <1>1, <1>7, <1>8, <1>9, <1>10 DEF Table, Owner, FailPipe, Op, PipeR, PipeW
<1> QED BY <1>3, <1>4, <1>11

-----------------------------------------------------------------------------
(* What a step of node n does to the control of the tree: it touches the   *)
(* control of n and of its operands, and the task of n.                    *)
Begun == {"idle", "start"}

Step(n) ==
    /\ fixed' = fixed /\ pc[n] # "idle"
    /\ DOMAIN pc' = Node /\ DOMAIN job' = Node
    /\ \A m \in Node \ {n} : job'[m] = job[m]
    /\ \A m \in Node \ {n, L(n), R(n)} : pc'[m] = pc[m]
    /\ \A m \in Node : pc'[m] = "idle" => pc[m] = "idle"
    /\ \A m \in Node : pc'[m] = "start" => pc[m] \in Begun
    /\ \A m \in Node : pc'[m] = "left" => pc[m] = "left" \/ (m = n /\ pc[n] = "start")
    /\ L(n) \in Node /\ pc'[L(n)] # pc[L(n)] => pc'[n] \notin Begun
    /\ R(n) \in Node /\ pc'[R(n)] # pc[R(n)] => pc'[n] \notin Begun \cup {"left"} /\ job'[n] # "left"
    /\ job'[n] # job[n] => pc'[n] \notin Begun \cup {"left"}
    /\ job'[n] = "left" => job[n] = "left" \/ (pc[n] = "left" /\ Op(n) \in Conditionals)

(* Two nodes have no operand in common, and no node is its own.            *)
LEMMA Family ==
    ASSUME TypeOK
    PROVE  /\ \A n \in Node : {L(n), R(n)} \cap Node \subseteq Node \ {n}
           /\ \A n \in Node : L(n) \in Node => L(n) # R(n)
           /\ \A n, m \in Node : n # m => {L(n), R(n)} \cap {L(m), R(m)} \cap Node = {}
<1>1. PICK x \in Cases : tree = x[1] /\ limit = x[2]
  BY DEF TypeOK
<1>2. \A n \in Node : n \in Nat /\ n # 0 /\ n \in DOMAIN x[1] /\ Len(x[1]) \in Nat
  BY <1>1, NothingShared DEF Node
<1>3. ASSUME NEW n \in Node, NEW m \in {L(n), R(n)}, m \in Node PROVE m # n
  <2>1. m \in (n + 1)..Len(x[1])
    BY <1>1, <1>2, <1>3, CasesAssumption DEF L, R
  <2> QED BY <1>2, <2>1
<1>4. ASSUME NEW n \in Node, L(n) \in Node PROVE L(n) # R(n)
  BY <1>1, <1>2, <1>4, NothingShared DEF L, R
<1>5. ASSUME NEW n \in Node, NEW m \in Node, n # m PROVE {L(n), R(n)} \cap {L(m), R(m)} \cap Node = {}
  BY <1>1, <1>2, <1>5, NothingShared DEF L, R, Node
<1> QED BY <1>3, <1>4, <1>5

(* Such a step lets nobody out of his turn.                                *)
LEMMA Turns ==
    ASSUME IInv, NEW n \in Node, Step(n)
    PROVE  \A m \in Node :
              /\ pc'[m] \in Begun \cup {"left"} => job'[m] = "none"
              /\ job'[m] = "left" => Op(m) \in Conditionals
              /\ InTurn(m)'
<1>1. /\ \A m \in Node : Fresh(m) /\ InTurn(m)
      /\ \A m \in Node : (L(m) \in Node => L(m) # m /\ L(m) # R(m)) /\ (R(m) \in Node => R(m) # m)
      /\ \A m \in Node \ {n} : {L(n), R(n)} \cap {L(m), R(m)} \cap Node = {}
  BY Family DEF IInv
<1>2. Node' = Node /\ \A m \in Node : L(m)' = L(m) /\ R(m)' = R(m) /\ Op(m)' = Op(m)
  BY DEF Step, fixed, Node, L, R, Op
<1> SUFFICES ASSUME NEW m \in Node
             PROVE  /\ pc'[m] \in Begun \cup {"left"} => job'[m] = "none"
                    /\ job'[m] = "left" => Op(m) \in Conditionals
                    /\ InTurn(m)'
  OBVIOUS
<1>3. pc'[m] \in Begun => pc[m] \in Begun
  BY DEF Step, Begun
<1>4. pc'[m] \in Begun \cup {"left"} => job'[m] = "none"
  BY <1>1, <1>3 DEF Step, Begun, Fresh
<1>5. job'[m] = "left" => Op(m) \in Conditionals
  BY <1>1 DEF Step, Fresh
<1>6. pc'[m] \in Begun => Waits(m, L(m))' /\ Waits(m, R(m))'
  <2> SUFFICES ASSUME pc'[m] \in Begun, NEW k \in {L(m), R(m)}, k \in Node PROVE pc'[k] = "idle"
    BY <1>2 DEF Waits
  <2>1. pc[k] = "idle"
    BY <1>1, <1>3 DEF InTurn, Waits, Begun
  <2>2. k # n
    BY <2>1 DEF Step
  <2>3. pc'[k] = pc[k]
    <3>1. CASE m = n
      BY <3>1 DEF Step, Begun
    <3>2. CASE m # n
      BY <1>1, <2>2, <3>2 DEF Step
    <3> QED BY <3>1, <3>2
  <2> QED BY <2>1, <2>3
<1>7. (pc'[m] = "left" /\ Op(m) \in Conditionals \cup {"pipe"}) \/ job'[m] = "left" => Waits(m, R(m))'
  <2> SUFFICES ASSUME (pc'[m] = "left" /\ Op(m) \in Conditionals \cup {"pipe"}) \/ job'[m] = "left",
                      R(m) \in Node
               PROVE  pc'[R(m)] = "idle"
    BY <1>2 DEF Waits
  <2>1. pc[R(m)] = "idle"
    <3>1. CASE pc'[m] = "left" /\ Op(m) \in Conditionals \cup {"pipe"}
      <4>1. pc[m] = "left" \/ pc[m] = "start"
        BY <3>1 DEF Step
      <4> QED BY <1>1, <3>1, <4>1 DEF InTurn, Waits
    <3>2. CASE job'[m] = "left"
      <4>1. job[m] = "left" \/ (pc[m] = "left" /\ Op(m) \in Conditionals)
        BY <3>2 DEF Step
      <4> QED BY <1>1, <4>1 DEF InTurn, Waits
    <3> QED BY <3>1, <3>2
  <2>2. R(m) # n
    BY <2>1 DEF Step
  <2>3. pc'[R(m)] = pc[R(m)]
    <3>1. CASE m = n
      BY <3>1 DEF Step, Begun
    <3>2. CASE m # n
      BY <1>1, <2>2, <3>2 DEF Step
    <3> QED BY <3>1, <3>2
  <2> QED BY <2>1, <2>3
<1>8. InTurn(m)'
  BY <1>2, <1>6, <1>7 DEF InTurn, Begun
<1> QED BY <1>4, <1>5, <1>8

(* A step of n alone.                                                      *)
LEMMA Alone ==
    ASSUME IInv, NEW n \in Node, fixed' = fixed, NEW q, Goto(n, q), pc[n] # "idle",
           q \notin Begun \cup {"left"}, DOMAIN job' = Node,
           \A m \in Node \ {n} : job'[m] = job[m],
           job'[n] = "left" => job[n] = "left"
    PROVE  Step(n)
<1>1. DOMAIN pc' = Node /\ pc'[n] = q /\ \A m \in Node \ {n} : pc'[m] = pc[m]
  BY DEF Goto, IInv, TypeOK
<1>2. {L(n), R(n)} \cap Node \subseteq Node \ {n}
  BY Family DEF IInv
<1> QED BY <1>1, <1>2 DEF Step, Begun

(* A step of the task of n, or of its program.                             *)
LEMMA Still ==
    ASSUME IInv, NEW n \in Node, fixed' = fixed, UNCHANGED pc, job[n] # "none" \/ UNCHANGED job,
           pc[n] # "idle",
           DOMAIN job' = Node, \A m \in Node \ {n} : job'[m] = job[m],
           job'[n] = "left" => job[n] = "left"
    PROVE  Step(n)
BY DEF Step, Begun, IInv, TypeOK, Fresh

(* A step that calls an operand of n, in start_run, finish_run or the      *)
(* destructor.                                                             *)
LEMMA Calling ==
    ASSUME IInv, NEW n \in Node, fixed' = fixed, NEW q, NEW m \in {L(n), R(n)}, NEW call,
           Call(n, q, m, call), pc[n] # "idle", q \notin Begun, call # "idle", call # "left",
           q = "left" => pc[n] = "start" /\ UNCHANGED job /\ m = L(n),
           call = "start" => (m \in Node => pc[m] = "idle"),
           m \in Node /\ m = R(n) => job'[n] # "left",
           DOMAIN job' = Node, \A k \in Node \ {n} : job'[k] = job[k],
           job'[n] = "left" => job[n] = "left" \/ (pc[n] = "left" /\ Op(n) \in Conditionals)
    PROVE  Step(n)
<1>1. /\ {L(n), R(n)} \cap Node \subseteq Node \ {n}
      /\ L(n) \in Node => L(n) # R(n)
  BY Family DEF IInv
<1>2. DOMAIN pc' = Node /\ pc'[n] = q /\ (m \in Node => pc'[m] = call)
      /\ \A k \in Node \ {n, m} : pc'[k] = pc[k]
  BY <1>1 DEF Call, IInv, TypeOK
<1> QED BY <1>1, <1>2 DEF Step, Begun

(* Every action is such a step.                                            *)
LEMMA StartSteps == ASSUME IInv, NEW n \in Node, StartLeaf(n) \/ StartNode(n) PROVE Step(n)
<1>0. DOMAIN job = Node /\ Fresh(n) /\ InTurn(n) /\ (L(n) \in Node => L(n) # R(n))
  BY Family DEF IInv, TypeOK
<1>1. CASE StartBool(n)
  <2>1. Goto(n, "up") /\ fixed' = fixed /\ pc[n] # "idle"
    BY <1>1 DEF StartBool, rest
  <2>2. /\ DOMAIN job' = Node /\ \A m \in Node \ {n} : job'[m] = job[m]
        /\ job'[n] = "left" => job[n] = "left"
    BY <1>1, <1>0 DEF StartBool
  <2> QED BY <2>1, <2>2, Alone DEF Begun
<1>2. CASE StartBuiltin(n)
  <2>1. Goto(n, "runx") /\ fixed' = fixed /\ pc[n] # "idle"
    BY <1>2 DEF StartBuiltin, rest
  <2>2. /\ DOMAIN job' = Node /\ \A m \in Node \ {n} : job'[m] = job[m]
        /\ job'[n] = "left" => job[n] = "left"
    BY <1>2, <1>0 DEF StartBuiltin
  <2> QED BY <2>1, <2>2, Alone DEF Begun
<1>3. CASE StartFunction(n)
  <2>1. Goto(n, "up") /\ fixed' = fixed /\ pc[n] # "idle"
    BY <1>3 DEF StartFunction, rest
  <2>2. /\ DOMAIN job' = Node /\ \A m \in Node \ {n} : job'[m] = job[m]
        /\ job'[n] = "left" => job[n] = "left"
    BY <1>3, <1>0 DEF StartFunction
  <2> QED BY <2>1, <2>2, Alone DEF Begun
<1>4. CASE StartFunctionThrows(n)
  <2>1. Goto(n, "threw") /\ fixed' = fixed /\ pc[n] # "idle"
    BY <1>4 DEF StartFunctionThrows, rest
  <2>2. /\ DOMAIN job' = Node /\ \A m \in Node \ {n} : job'[m] = job[m]
        /\ job'[n] = "left" => job[n] = "left"
    BY <1>4, <1>0 DEF StartFunctionThrows
  <2> QED BY <2>1, <2>2, Alone DEF Begun
<1>5. CASE StartNative(n)
  <2>1. Goto(n, "up") /\ fixed' = fixed /\ pc[n] # "idle"
    BY <1>5 DEF StartNative, rest
  <2>2. /\ DOMAIN job' = Node /\ \A m \in Node \ {n} : job'[m] = job[m]
        /\ job'[n] = "left" => job[n] = "left"
    BY <1>5, <1>0 DEF StartNative
  <2> QED BY <2>1, <2>2, Alone DEF Begun
<1>6. CASE StartNativeThrows(n)
  <2>1. Goto(n, "threw") /\ fixed' = fixed /\ pc[n] # "idle"
    BY <1>6 DEF StartNativeThrows, rest
  <2>2. /\ DOMAIN job' = Node /\ \A m \in Node \ {n} : job'[m] = job[m]
        /\ job'[n] = "left" => job[n] = "left"
    BY <1>6, <1>0 DEF StartNativeThrows
  <2> QED BY <2>1, <2>2, Alone DEF Begun
<1>60. CASE ForkFails(n)
  <2>1. Goto(n, "threw") /\ fixed' = fixed /\ pc[n] # "idle"
    BY <1>60 DEF ForkFails, rest
  <2>2. /\ DOMAIN job' = Node /\ \A m \in Node \ {n} : job'[m] = job[m]
        /\ job'[n] = "left" => job[n] = "left"
    BY <1>60, <1>0 DEF ForkFails
  <2> QED BY <2>1, <2>2, Alone DEF Begun
<1>7. CASE StartPipe(n)
  <2>1. Call(n, "left", L(n), "start") /\ fixed' = fixed
    BY <1>7 DEF StartPipe, StartOperand, rest
  <2> QED BY <1>7, <2>1, <1>0, Calling DEF StartPipe, Begun, Fresh, InTurn, Waits, Conditionals
<1>8. CASE StartRightOfPipe(n)
  <2>1. Call(n, "right", R(n), "start") /\ fixed' = fixed
    BY <1>8 DEF StartRightOfPipe, StartOperand, rest
  <2> QED BY <1>8, <2>1, <1>0, Calling DEF StartRightOfPipe, Begun, Fresh, InTurn, Waits, Conditionals
<1>9. CASE PipeUp(n)
  <2>1. Goto(n, "up") /\ fixed' = fixed /\ pc[n] # "idle"
    BY <1>9 DEF PipeUp, rest
  <2>2. /\ DOMAIN job' = Node /\ \A m \in Node \ {n} : job'[m] = job[m]
        /\ job'[n] = "left" => job[n] = "left"
    BY <1>9, <1>0 DEF PipeUp
  <2> QED BY <2>1, <2>2, Alone DEF Begun
<1>10. CASE PipeThrows(n)
  <2>1. Goto(n, "threw") /\ fixed' = fixed /\ pc[n] # "idle"
    BY <1>10 DEF PipeThrows, rest
  <2>2. /\ DOMAIN job' = Node /\ \A m \in Node \ {n} : job'[m] = job[m]
        /\ job'[n] = "left" => job[n] = "left"
    BY <1>10, <1>0 DEF PipeThrows
  <2> QED BY <2>1, <2>2, Alone DEF Begun
<1>11. CASE StartMapping(n)
  <2>1. Call(n, "left", L(n), "start") /\ fixed' = fixed
    BY <1>11 DEF StartMapping, StartOperand, rest
  <2> QED BY <1>11, <2>1, <1>0, Calling DEF StartMapping, Begun, Fresh, InTurn, Waits, Conditionals
<1>12. CASE StartPump(n)
  <2>1. Goto(n, IF Op(n) = "inmap" THEN "tail" ELSE "up") /\ fixed' = fixed /\ pc[n] # "idle"
    BY <1>12 DEF StartPump, rest
  <2>2. /\ DOMAIN job' = Node /\ \A m \in Node \ {n} : job'[m] = job[m]
        /\ job'[n] = "left" => job[n] = "left"
    BY <1>12, <1>0 DEF StartPump
  <2> QED BY <2>1, <2>2, Alone DEF Begun
<1>13. CASE InMappingUp(n)
  <2>1. Goto(n, "up") /\ fixed' = fixed /\ pc[n] # "idle"
    BY <1>13 DEF InMappingUp, rest
  <2>2. /\ DOMAIN job' = Node /\ \A m \in Node \ {n} : job'[m] = job[m]
        /\ job'[n] = "left" => job[n] = "left"
    BY <1>13, <1>0 DEF InMappingUp
  <2> QED BY <2>1, <2>2, Alone DEF Begun
<1>14. CASE MappingThrows(n)
  <2>1. Goto(n, "threw") /\ fixed' = fixed /\ pc[n] # "idle"
    BY <1>14 DEF MappingThrows, rest
  <2>2. /\ DOMAIN job' = Node /\ \A m \in Node \ {n} : job'[m] = job[m]
        /\ job'[n] = "left" => job[n] = "left"
    BY <1>14, <1>0 DEF MappingThrows
  <2> QED BY <2>1, <2>2, Alone DEF Begun
<1>15. CASE StartRedirect(n)
  <2>1. Call(n, "left", L(n), "start") /\ fixed' = fixed /\ pc[n] = "start" /\ UNCHANGED job
    BY <1>15 DEF StartRedirect, StartOperand, rest
  <2>2. L(n) \in Node => pc[L(n)] = "idle"
    BY <2>1, <1>0 DEF InTurn, Waits
  <2>3. job[n] = "none"
    BY <2>1, <1>0 DEF Fresh
  <2> QED BY <2>1, <2>2, <2>3, <1>0, Calling DEF Begun
<1>16. CASE RedirectUp(n)
  <2>1. Goto(n, "up") /\ fixed' = fixed /\ pc[n] # "idle"
    BY <1>16 DEF RedirectUp, rest
  <2>2. /\ DOMAIN job' = Node /\ \A m \in Node \ {n} : job'[m] = job[m]
        /\ job'[n] = "left" => job[n] = "left"
    BY <1>16, <1>0 DEF RedirectUp
  <2> QED BY <2>1, <2>2, Alone DEF Begun
<1>17. CASE StartConditional(n)
  <2>1. Call(n, "left", L(n), "start") /\ fixed' = fixed
    BY <1>17 DEF StartConditional, StartOperand, rest
  <2> QED BY <1>17, <2>1, <1>0, Calling DEF StartConditional, Begun, Fresh, InTurn, Waits, Conditionals
<1>18. CASE ConditionalUp(n)
  <2>1. Call(n, "up", L(n), "fin") /\ fixed' = fixed
    BY <1>18 DEF ConditionalUp, StartOperand, rest
  <2> QED BY <1>18, <2>1, <1>0, Calling DEF ConditionalUp, Begun, Fresh, InTurn, Waits, Conditionals
<1>19. CASE PassThrow(n)
  <2>1. Goto(n, "threw") /\ fixed' = fixed /\ pc[n] # "idle"
    BY <1>19 DEF PassThrow, rest
  <2>2. /\ DOMAIN job' = Node /\ \A m \in Node \ {n} : job'[m] = job[m]
        /\ job'[n] = "left" => job[n] = "left"
    BY <1>19, <1>0 DEF PassThrow
  <2> QED BY <2>1, <2>2, Alone DEF Begun
<1> QED BY <1>1, <1>2, <1>3, <1>4, <1>5, <1>6, <1>60, <1>7, <1>8, <1>9, <1>10, <1>11, <1>12,
      <1>13, <1>14, <1>15, <1>16, <1>17, <1>18, <1>19 DEF StartLeaf, StartNode

(* The tasks, the leaves and the pumps.                                    *)
LEMMA TaskSteps == ASSUME IInv, NEW n \in Node, Task(n) \/ Leaf(n) \/ Pump(n) PROVE Step(n)
<1>0. DOMAIN job = Node /\ Fresh(n) /\ InTurn(n) /\ (L(n) \in Node => L(n) # R(n))
  BY Family DEF IInv, TypeOK
<1>1. CASE TaskLeftDone(n)
  <2>1. fixed' = fixed /\ job[n] = "left"
    BY <1>1 DEF TaskLeftDone, rest
  <2>2. CASE UNCHANGED pc
    <3>1. DOMAIN job' = Node /\ (\A m \in Node \ {n} : job'[m] = job[m]) /\ job'[n] \in {"right", "done"}
      BY <1>1, <1>0 DEF TaskLeftDone
    <3> QED BY <1>0, <2>1, <2>2, <3>1, Still DEF Fresh
  <2>3. CASE pc' = [pc EXCEPT ![R(n)] = "start"]
    <3>1. DOMAIN job' = Node /\ (\A m \in Node \ {n} : job'[m] = job[m]) /\ job'[n] \in {"right", "done"}
      BY <1>1, <1>0 DEF TaskLeftDone
    <3>2. R(n) \in Node => pc[R(n)] = "idle"
      BY <1>0, <2>1 DEF InTurn, Waits
    <3>3. pc[n] \notin Begun \cup {"left"}
      BY <1>0, <2>1 DEF Fresh, Begun
    <3>4. R(n) \in Node => R(n) # n /\ R(n) # L(n)
      BY Family DEF IInv
    <3>5. DOMAIN pc' = Node /\ (\A m \in Node \ {R(n)} : pc'[m] = pc[m])
          /\ (R(n) \in Node => pc'[R(n)] = "start")
      BY <2>3 DEF IInv, TypeOK
    <3> QED BY <2>1, <3>1, <3>2, <3>3, <3>4, <3>5 DEF Step, Begun
  <2> QED BY <1>1, <2>2, <2>3 DEF TaskLeftDone
<1>2. CASE TaskRightUp(n)
  <2>1. fixed' = fixed /\ job[n] = "right" /\ UNCHANGED job
    BY <1>2 DEF TaskRightUp, rest
  <2>2. pc[n] \notin Begun \cup {"left"}
    BY <1>0, <2>1 DEF Fresh, Begun
  <2>3. R(n) \in Node => R(n) # n /\ R(n) # L(n)
    BY Family DEF IInv
  <2>4. DOMAIN pc' = Node /\ (\A m \in Node \ {R(n)} : pc'[m] = pc[m])
        /\ (R(n) \in Node => pc'[R(n)] = "fin")
    BY <1>2 DEF TaskRightUp, Goto, IInv, TypeOK
  <2> QED BY <1>0, <2>1, <2>2, <2>3, <2>4 DEF Step, Begun
<1>3. CASE TaskRightDone(n)
  <2>1. fixed' = fixed /\ UNCHANGED pc /\ job[n] # "none"
    BY <1>3 DEF TaskRightDone, rest, Running, Pumping, ProcessEnds, PumpEnds
  <2>2. /\ DOMAIN job' = Node /\ \A m \in Node \ {n} : job'[m] = job[m]
        /\ job'[n] = "left" => job[n] = "left"
    BY <1>3, <1>0 DEF TaskRightDone, ProcessEnds, PumpEnds
  <2> QED BY <1>0, <2>1, <2>2, Still DEF Fresh
<1>4. CASE TaskFails(n)
  <2>1. fixed' = fixed /\ UNCHANGED pc /\ job[n] # "none"
    BY <1>4 DEF TaskFails, rest, Running, Pumping, ProcessEnds, PumpEnds
  <2>2. /\ DOMAIN job' = Node /\ \A m \in Node \ {n} : job'[m] = job[m]
        /\ job'[n] = "left" => job[n] = "left"
    BY <1>4, <1>0 DEF TaskFails, ProcessEnds, PumpEnds
  <2> QED BY <1>0, <2>1, <2>2, Still DEF Fresh
<1>5. CASE LeafReads(n)
  <2>1. fixed' = fixed /\ UNCHANGED pc /\ job[n] # "none"
    BY <1>5 DEF LeafReads, rest, Running, Pumping, ProcessEnds, PumpEnds
  <2>2. /\ DOMAIN job' = Node /\ \A m \in Node \ {n} : job'[m] = job[m]
        /\ job'[n] = "left" => job[n] = "left"
    BY <1>5, <1>0 DEF LeafReads, ProcessEnds, PumpEnds
  <2> QED BY <1>0, <2>1, <2>2, Still DEF Fresh
<1>6. CASE LeafSeesEof(n)
  <2>1. fixed' = fixed /\ UNCHANGED pc /\ job[n] # "none"
    BY <1>6 DEF LeafSeesEof, rest, Running, Pumping, ProcessEnds, PumpEnds
  <2>2. /\ DOMAIN job' = Node /\ \A m \in Node \ {n} : job'[m] = job[m]
        /\ job'[n] = "left" => job[n] = "left"
    BY <1>6, <1>0 DEF LeafSeesEof, ProcessEnds, PumpEnds
  <2> QED BY <1>0, <2>1, <2>2, Still DEF Fresh
<1>7. CASE \E k \in {"out", "err"} : LeafWrites(n, k)
  <2>1. fixed' = fixed /\ UNCHANGED <<pc, job>> /\ job[n] # "none"
    BY <1>7 DEF LeafWrites, Running
  <2> QED BY <1>0, <2>1, Still DEF Fresh
<1>8. CASE \E k \in {"out", "err"} : LeafBreaks(n, k)
  <2>1. fixed' = fixed /\ UNCHANGED pc /\ job[n] # "none"
    BY <1>8 DEF LeafBreaks, rest, Running, ProcessEnds
  <2>2. /\ DOMAIN job' = Node /\ \A m \in Node \ {n} : job'[m] = job[m]
        /\ job'[n] = "left" => job[n] = "left"
    BY <1>8, <1>0 DEF LeafBreaks, ProcessEnds
  <2> QED BY <1>0, <2>1, <2>2, Still DEF Fresh
<1>9. CASE ProgramEnds(n)
  <2>1. fixed' = fixed /\ UNCHANGED pc /\ job[n] # "none"
    BY <1>9 DEF ProgramEnds, rest, Running, Pumping, ProcessEnds, PumpEnds
  <2>2. /\ DOMAIN job' = Node /\ \A m \in Node \ {n} : job'[m] = job[m]
        /\ job'[n] = "left" => job[n] = "left"
    BY <1>9, <1>0 DEF ProgramEnds, ProcessEnds, PumpEnds
  <2> QED BY <1>0, <2>1, <2>2, Still DEF Fresh
<1>10. CASE FunctionEnds(n)
  <2>1. fixed' = fixed /\ UNCHANGED pc /\ job[n] # "none"
    BY <1>10 DEF FunctionEnds, rest, Running, Pumping, ProcessEnds, PumpEnds
  <2>2. /\ DOMAIN job' = Node /\ \A m \in Node \ {n} : job'[m] = job[m]
        /\ job'[n] = "left" => job[n] = "left"
    BY <1>10, <1>0 DEF FunctionEnds, ProcessEnds, PumpEnds
  <2> QED BY <1>0, <2>1, <2>2, Still DEF Fresh
<1>11. CASE BuiltinEnds(n)
  <2>1. Goto(n, IF tree[n].bad THEN "threw" ELSE "up") /\ fixed' = fixed /\ pc[n] # "idle"
    BY <1>11, <1>0 DEF Running, Fresh, BuiltinEnds, rest
  <2>2. /\ DOMAIN job' = Node /\ \A m \in Node \ {n} : job'[m] = job[m]
        /\ job'[n] = "left" => job[n] = "left"
    BY <1>11, <1>0 DEF BuiltinEnds
  <2> QED BY <2>1, <2>2, Alone DEF Begun
<1>12. CASE Reap(n)
  <2>1. fixed' = fixed /\ UNCHANGED pc /\ job[n] # "none"
    BY <1>12 DEF Reap, rest, Running, Pumping, ProcessEnds, PumpEnds
  <2>2. /\ DOMAIN job' = Node /\ \A m \in Node \ {n} : job'[m] = job[m]
        /\ job'[n] = "left" => job[n] = "left"
    BY <1>12, <1>0 DEF Reap, ProcessEnds, PumpEnds
  <2> QED BY <1>0, <2>1, <2>2, Still DEF Fresh
<1>13. CASE Feed(n)
  <2>1. fixed' = fixed /\ UNCHANGED pc /\ job[n] # "none"
    BY <1>13 DEF Feed, rest, Running, Pumping, ProcessEnds, PumpEnds
  <2>2. /\ DOMAIN job' = Node /\ \A m \in Node \ {n} : job'[m] = job[m]
        /\ job'[n] = "left" => job[n] = "left"
    BY <1>13, <1>0 DEF Feed, ProcessEnds, PumpEnds
  <2> QED BY <1>0, <2>1, <2>2, Still DEF Fresh
<1>14. CASE FeedBreaks(n)
  <2>1. fixed' = fixed /\ UNCHANGED pc /\ job[n] # "none"
    BY <1>14 DEF FeedBreaks, rest, Running, Pumping, ProcessEnds, PumpEnds
  <2>2. /\ DOMAIN job' = Node /\ \A m \in Node \ {n} : job'[m] = job[m]
        /\ job'[n] = "left" => job[n] = "left"
    BY <1>14, <1>0 DEF FeedBreaks, ProcessEnds, PumpEnds
  <2> QED BY <1>0, <2>1, <2>2, Still DEF Fresh
<1>15. CASE Collect(n)
  <2>1. fixed' = fixed /\ UNCHANGED pc /\ job[n] # "none"
    BY <1>15 DEF Collect, rest, Running, Pumping, ProcessEnds, PumpEnds
  <2>2. /\ DOMAIN job' = Node /\ \A m \in Node \ {n} : job'[m] = job[m]
        /\ job'[n] = "left" => job[n] = "left"
    BY <1>15, <1>0 DEF Collect, ProcessEnds, PumpEnds
  <2> QED BY <1>0, <2>1, <2>2, Still DEF Fresh
<1>16. CASE PumpDone(n)
  <2>1. fixed' = fixed /\ UNCHANGED pc /\ job[n] # "none"
    BY <1>16 DEF PumpDone, rest, Running, Pumping, ProcessEnds, PumpEnds
  <2>2. /\ DOMAIN job' = Node /\ \A m \in Node \ {n} : job'[m] = job[m]
        /\ job'[n] = "left" => job[n] = "left"
    BY <1>16, <1>0 DEF PumpDone, ProcessEnds, PumpEnds
  <2> QED BY <1>0, <2>1, <2>2, Still DEF Fresh
<1>17. CASE PumpFails(n)
  <2>1. fixed' = fixed /\ UNCHANGED pc /\ job[n] # "none"
    BY <1>17 DEF PumpFails, rest, Pumping, PumpEnds
  <2>2. DOMAIN job' = Node /\ (\A m \in Node \ {n} : job'[m] = job[m]) /\ job'[n] # "left"
    <3>1. PICK j \in {"failed", "done"} : PumpEnds(n, j)
      BY <1>17 DEF PumpFails
    <3> QED BY <3>1, <1>0 DEF PumpEnds
  <2> QED BY <1>0, <2>1, <2>2, Still DEF Fresh
<1> QED BY <1>1, <1>2, <1>3, <1>4, <1>5, <1>6, <1>7, <1>8, <1>9, <1>10, <1>11, <1>12,
      <1>13, <1>14, <1>15, <1>16, <1>17 DEF Task, Leaf, Pump

(* finish_run and the destructors.                                         *)
LEMMA FinishSteps == ASSUME IInv, NEW n \in Node, Finish(n) \/ Destruction(n) PROVE Step(n)
<1>0. DOMAIN job = Node /\ Fresh(n) /\ InTurn(n) /\ (L(n) \in Node => L(n) # R(n))
  BY Family DEF IInv, TypeOK
<1>1. CASE FinishAtOnce(n)
  <2>1. Goto(n, "done") /\ fixed' = fixed /\ pc[n] # "idle"
    BY <1>1 DEF FinishAtOnce, rest
  <2>2. /\ DOMAIN job' = Node /\ \A m \in Node \ {n} : job'[m] = job[m]
        /\ job'[n] = "left" => job[n] = "left"
    BY <1>1, <1>0 DEF FinishAtOnce
  <2> QED BY <2>1, <2>2, Alone DEF Begun
<1>2. CASE FinishGet(n)
  <2>1. Goto(n, IF job[n] = "failed" THEN "failed" ELSE "done") /\ fixed' = fixed /\ pc[n] # "idle"
    BY <1>2 DEF FinishGet, rest
  <2>2. /\ DOMAIN job' = Node /\ \A m \in Node \ {n} : job'[m] = job[m]
        /\ job'[n] = "left" => job[n] = "left"
    BY <1>2, <1>0 DEF FinishGet
  <2> QED BY <2>1, <2>2, Alone DEF Begun
<1>3. CASE FinishOperand(n)
  <2>1. Call(n, "finL", L(n), "fin") /\ fixed' = fixed
    BY <1>3 DEF FinishOperand, StartOperand, rest
  <2> QED BY <1>3, <2>1, <1>0, Calling DEF FinishOperand, Begun, Fresh, InTurn, Waits, Conditionals
<1>4. CASE FinishRight(n)
  <2>1. Call(n, "finR", R(n), "fin") /\ fixed' = fixed
    BY <1>4 DEF FinishRight, StartOperand, rest
  <2> QED BY <1>4, <2>1, <1>0, Calling DEF FinishRight, Begun, Fresh, InTurn, Waits, Conditionals
<1>5. CASE FinishPipe(n)
  <2>1. Goto(n, "done") /\ fixed' = fixed /\ pc[n] # "idle"
    BY <1>5 DEF FinishPipe, rest
  <2>2. /\ DOMAIN job' = Node /\ \A m \in Node \ {n} : job'[m] = job[m]
        /\ job'[n] = "left" => job[n] = "left"
    BY <1>5, <1>0 DEF FinishPipe
  <2> QED BY <2>1, <2>2, Alone DEF Begun
<1>6. CASE FinishUnary(n)
  <2>1. Goto(n, "done") /\ fixed' = fixed /\ pc[n] # "idle"
    BY <1>6 DEF FinishUnary, rest
  <2>2. /\ DOMAIN job' = Node /\ \A m \in Node \ {n} : job'[m] = job[m]
        /\ job'[n] = "left" => job[n] = "left"
    BY <1>6, <1>0 DEF FinishUnary
  <2> QED BY <2>1, <2>2, Alone DEF Begun
<1>7. CASE FinishThrows(n)
  <2>1. Goto(n, "failed") /\ fixed' = fixed /\ pc[n] # "idle"
    BY <1>7 DEF FinishThrows, rest
  <2>2. /\ DOMAIN job' = Node /\ \A m \in Node \ {n} : job'[m] = job[m]
        /\ job'[n] = "left" => job[n] = "left"
    BY <1>7, <1>0 DEF FinishThrows
  <2> QED BY <2>1, <2>2, Alone DEF Begun
<1>8. CASE Destroy(n)
  <2>1. fixed' = fixed /\ UNCHANGED job /\ pc[n] = "dtor"
    BY <1>8 DEF Destroy, rest
  <2>2. \/ Goto(n, "gone") \/ Goto(n, "join") \/ Call(n, "dtorL", L(n), "dtor")
        \/ Call(n, "dtorR", R(n), "dtor") /\ job[n] # "left"
    <3>1. job[n] = "left" => Op(n) \in Conditionals
      BY <1>0 DEF Fresh
    <3>2. CASE Op(n) \in {"bool", "builtin"}
      BY <1>8, <3>2 DEF Destroy, Conditionals
    <3>3. CASE Op(n) = "native"
      BY <1>8, <3>3 DEF Destroy, Conditionals
    <3>4. CASE Op(n) = "function"
      BY <1>8, <3>4 DEF Destroy, Conditionals
    <3>5. CASE Op(n) \in Conditionals
      BY <1>8, <3>5 DEF Destroy, Conditionals, Joined
    <3>6. CASE Op(n) = "pipe"
      BY <1>8, <3>1, <3>6 DEF Destroy, Conditionals
    <3>7. CASE Op(n) \notin {"bool", "builtin", "native", "function", "pipe"} \cup Conditionals
      BY <1>8, <3>7 DEF Destroy, Conditionals
    <3> QED BY <3>2, <3>3, <3>4, <3>5, <3>6, <3>7
  <2>3. CASE Goto(n, "gone") \/ Goto(n, "join")
    BY <1>0, <2>1, <2>3, Alone DEF Begun
  <2>4. CASE Call(n, "dtorL", L(n), "dtor")
    <3>1. L(n) \in Node => L(n) # R(n)
      BY Family DEF IInv
    <3> QED BY <1>0, <2>1, <2>4, <3>1, Calling DEF Begun
  <2>5. CASE Call(n, "dtorR", R(n), "dtor") /\ job[n] # "left"
    BY <1>0, <2>1, <2>5, Calling DEF Begun
  <2> QED BY <2>2, <2>3, <2>4, <2>5
<1>9. CASE DestroyLeft(n)
  <2>1. Call(n, "dtorL", L(n), "dtor") /\ fixed' = fixed
    BY <1>9 DEF DestroyLeft, StartOperand, rest
  <2> QED BY <1>9, <2>1, <1>0, Calling DEF DestroyLeft, Begun, Fresh, InTurn, Waits, Conditionals
<1>10. CASE OperandsGone(n)
  <2>1. Goto(n, IF Op(n) \in Maps THEN "join" ELSE "gone") /\ fixed' = fixed /\ pc[n] # "idle"
    BY <1>10 DEF OperandsGone, rest
  <2>2. /\ DOMAIN job' = Node /\ \A m \in Node \ {n} : job'[m] = job[m]
        /\ job'[n] = "left" => job[n] = "left"
    BY <1>10, <1>0 DEF OperandsGone
  <2> QED BY <2>1, <2>2, Alone DEF Begun
<1>11. CASE Join(n)
  <2>1. Goto(n, "gone") /\ fixed' = fixed /\ pc[n] # "idle"
    BY <1>11 DEF Join, rest
  <2>2. /\ DOMAIN job' = Node /\ \A m \in Node \ {n} : job'[m] = job[m]
        /\ job'[n] = "left" => job[n] = "left"
    BY <1>11, <1>0 DEF Join
  <2> QED BY <2>1, <2>2, Alone DEF Begun
<1> QED BY <1>1, <1>2, <1>3, <1>4, <1>5, <1>6, <1>7, <1>8, <1>9, <1>10, <1>11 DEF Finish, Destruction

-----------------------------------------------------------------------------
(* What a step of node n does to the table.                                *)
Kept(n) ==
    /\ own' \in [Node -> [Slots -> Fd \cup {-1}]] /\ DOMAIN fdt' = Fd
    /\ \A m \in Node \ {n} : own'[m] = own[m]
    /\ own[n] = NoSlots => own'[n] = NoSlots \/ pc'[n] \notin Begun
    /\ Table'

(* An action that neither opens nor closes anything.                       *)
LEMMA SameTable == ASSUME IInv, NEW n \in Node, fixed' = fixed, UNCHANGED table PROVE Kept(n)
<1>1. tree' = tree /\ limit' = limit /\ fdt' = fdt /\ own' = own /\ Node' = Node /\ Fd' = Fd
  BY DEF fixed, table, Node, Fd
<1>2. Table /\ TypeOK
  BY DEF IInv
<1>3. Table'
  BY <1>1, <1>2 DEF Table, Owner, OneOwner, Files, FailPipe, Op, PipeR, PipeW, OpenFile, Closed, Tty
<1> QED BY <1>1, <1>2, <1>3 DEF Kept, TypeOK

(* An action that destroys wrappers of n.                                  *)
LEMMA Closing ==
    ASSUME IInv, NEW n \in Node, fixed' = fixed, NEW S \in SUBSET Slots, Close(n, S)
    PROVE  Kept(n)
<1>1. TypeOK /\ Table
  BY DEF IInv
<1> QED BY <1>1, CloseKeeps DEF Kept

(* A pipe: the two lowest numbers that are free.                           *)
LEMMA Piping ==
    ASSUME IInv, NEW n \in Node, fixed' = fixed, pc[n] = "start", CanOpen(2), OpenPipe(n),
           pc'[n] \notin Begun
    PROVE  Kept(n)
<1> DEFINE ff == [s \in {"p0", "p1"} |-> IF s = "p0" THEN Free1 ELSE Free2]
           w == [s \in Slots |-> IF s \in {"p0", "p1"} THEN ff[s] ELSE -1]
<1>1. TypeOK /\ Table /\ own[n] = NoSlots
  BY DEF IInv, Fresh
<1>2. Free1 \in Free /\ Free2 \in Free /\ Free1 # Free2
  BY <1>1, Given
<1>3. \A k \in Free : k \in Fd
  BY DEF Free
<1>4. {"p0", "p1"} \in SUBSET Slots
  BY DEF Slots
<1>5. own' = [own EXCEPT ![n] = w]
  <2>1. own' = [own EXCEPT ![n] = [[own[n] EXCEPT !["p0"] = Free1] EXCEPT !["p1"] = Free2]]
    BY <1>1 DEF OpenPipe, TypeOK
  <2>2. [[own[n] EXCEPT !["p0"] = Free1] EXCEPT !["p1"] = Free2] = w
    BY <1>1, <1>4 DEF NoSlots
  <2> QED BY <2>1, <2>2
<1>6. fdt' = [[fdt EXCEPT ![Free1] = PipeR(n)] EXCEPT ![Free2] = PipeW(n)]
  BY DEF OpenPipe
<1>7. DOMAIN fdt' = Fd /\ fdt'[Free1] = PipeR(n) /\ fdt'[Free2] = PipeW(n)
      /\ \A k \in Fd : k # Free1 /\ k # Free2 => fdt'[k] = fdt[k]
  BY <1>1, <1>2, <1>3, <1>6 DEF TypeOK
<1>8. ff \in [{"p0", "p1"} -> Free] /\ ff["p0"] = Free1 /\ ff["p1"] = Free2
  BY <1>2
<1>9. \A s, r \in {"p0", "p1"} : ff[s] = ff[r] => s = r
  BY <1>2, <1>8
<1>10. \A k \in Fd : (\A s \in {"p0", "p1"} : ff[s] # k) => fdt'[k] = fdt[k]
  BY <1>7, <1>8
<1>11. \A s \in {"p0", "p1"} : /\ s = "p0" => fdt'[ff[s]] = PipeR(n)
                               /\ s = "p1" => fdt'[ff[s]] = PipeW(n)
                               /\ s = "fd" => fdt'[ff[s]] = OpenFile(n)
                               /\ s \in Streams => fdt'[ff[s]] # Closed
  BY <1>7, <1>8 DEF Streams, StdFd
<1> HIDE DEF ff
<1> QED BY <1>1, <1>4, <1>5, <1>7, <1>8, <1>9, <1>10, <1>11, OpenKeeps, SMTT(30) DEF Kept

(* A file: the lowest number that is free.                                 *)
LEMMA Redirecting == ASSUME IInv, NEW n \in Node, StartRedirect(n) PROVE Kept(n)
<1> DEFINE ff == [s \in {"fd"} |-> Free1]
           w == [s \in Slots |-> IF s \in {"fd"} THEN ff[s] ELSE -1]
<1>0. /\ fixed' = fixed /\ pc[n] = "start" /\ CanOpen(1)
      /\ fdt' = [fdt EXCEPT ![Free1] = OpenFile(n)]
      /\ own' = [own EXCEPT ![n].fd = Free1]
      /\ StartOperand(n, "left", L(n), [arg[n].std EXCEPT ![Desc(Op(n))] = Free1], arg[n].unused)
  BY DEF StartRedirect, rest
<1>1. TypeOK /\ Table /\ own[n] = NoSlots
  BY <1>0 DEF IInv, Fresh
<1>2. Free1 \in Free
  BY <1>0, <1>1, Given
<1>3. \A k \in Free : k \in Fd
  BY DEF Free
<1>4. {"fd"} \in SUBSET Slots
  BY DEF Slots
<1>5. own' = [own EXCEPT ![n] = w]
  <2>1. own' = [own EXCEPT ![n] = [own[n] EXCEPT !["fd"] = Free1]]
    BY <1>0, <1>1 DEF TypeOK
  <2>2. [own[n] EXCEPT !["fd"] = Free1] = w
    BY <1>1, <1>4 DEF NoSlots
  <2> QED BY <2>1, <2>2
<1>7. DOMAIN fdt' = Fd /\ fdt'[Free1] = OpenFile(n) /\ \A k \in Fd : k # Free1 => fdt'[k] = fdt[k]
  BY <1>0, <1>1, <1>2, <1>3 DEF TypeOK
<1>8. ff \in [{"fd"} -> Free] /\ ff["fd"] = Free1
  BY <1>2
<1>9. \A s, r \in {"fd"} : ff[s] = ff[r] => s = r
  OBVIOUS
<1>10. \A k \in Fd : (\A s \in {"fd"} : ff[s] # k) => fdt'[k] = fdt[k]
  BY <1>7, <1>8
<1>11. \A s \in {"fd"} : /\ s = "p0" => fdt'[ff[s]] = PipeR(n)
                         /\ s = "p1" => fdt'[ff[s]] = PipeW(n)
                         /\ s = "fd" => fdt'[ff[s]] = OpenFile(n)
                         /\ s \in Streams => fdt'[ff[s]] # Closed
  BY <1>7, <1>8 DEF Streams, StdFd
<1>12. pc'[n] \notin Begun
  <2>1. L(n) \in Node => L(n) # n
    BY <1>1, Family
  <2>2. pc' = [pc EXCEPT ![n] = "left", ![L(n)] = "start"] /\ DOMAIN pc = Node
    BY <1>0, <1>1 DEF StartOperand, Call, TypeOK
  <2>3. pc'[n] = "left"
    BY <2>1, <2>2
  <2> QED BY <2>3 DEF Begun
<1>13. fixed' = fixed
  BY <1>0
<1> HIDE DEF ff
<1> QED BY <1>1, <1>4, <1>5, <1>7, <1>8, <1>9, <1>10, <1>11, <1>12, <1>13, OpenKeeps, ZenonT(60) DEF Kept

(* The three duplicates for a function: of whatever is open there.         *)
LEMMA Duplicating == ASSUME IInv, NEW n \in Node, StartFunction(n) PROVE Kept(n)
<1> DEFINE dup == [in |-> Free1, out |-> Free2, err |-> Free3]
           w == [s \in Slots |-> IF s \in Streams THEN dup[s] ELSE -1]
<1>0. /\ fixed' = fixed /\ pc[n] = "start" /\ Goto(n, "up") /\ CanOpen(3)
      /\ \A k \in Streams : fdt[arg[n].std[k]] # Closed
      /\ fdt' = [fd \in Fd |->
                    IF \E k \in Streams : dup[k] = fd
                    THEN fdt[arg[n].std[CHOOSE k \in Streams : dup[k] = fd]] ELSE fdt[fd]]
      /\ own' = [own EXCEPT ![n] = [s \in Slots |-> IF s \in Streams THEN dup[s] ELSE @[s]]]
  BY DEF StartFunction, rest, CanDup
<1>1. TypeOK /\ Table /\ own[n] = NoSlots
  BY <1>0 DEF IInv, Fresh
<1>2. /\ Free1 \in Free /\ Free2 \in Free /\ Free3 \in Free
      /\ Free1 # Free2 /\ Free1 # Free3 /\ Free2 # Free3
  BY <1>0, <1>1, Given
<1>3. \A k \in Free : k \in Fd
  BY DEF Free
<1>4. Streams \in SUBSET Slots /\ Streams = {"in", "out", "err"}
  BY DEF Slots, Streams, StdFd
<1>5. own' = [own EXCEPT ![n] = w]
  <2>1. [s \in Slots |-> IF s \in Streams THEN dup[s] ELSE own[n][s]] = w
    BY <1>1, <1>4 DEF NoSlots
  <2> QED BY <1>0, <1>1, <2>1 DEF TypeOK
<1>8. dup \in [Streams -> Free]
  BY <1>2, <1>4
<1>9. \A s, r \in Streams : dup[s] = dup[r] => s = r
  BY <1>2, <1>4
<1> HIDE DEF dup
<1>10. DOMAIN fdt' = Fd /\ \A k \in Fd : (\A s \in Streams : dup[s] # k) => fdt'[k] = fdt[k]
  BY <1>0
<1>11. \A s \in Streams : /\ s = "p0" => fdt'[dup[s]] = PipeR(n)
                          /\ s = "p1" => fdt'[dup[s]] = PipeW(n)
                          /\ s = "fd" => fdt'[dup[s]] = OpenFile(n)
                          /\ s \in Streams => fdt'[dup[s]] # Closed
  <2> SUFFICES ASSUME NEW s \in Streams PROVE fdt'[dup[s]] # Closed
    BY <1>4
  <2>1. dup[s] \in Fd
    BY <1>3, <1>8
  <2> DEFINE j == CHOOSE k \in Streams : dup[k] = dup[s]
  <2>2. j \in Streams
    OBVIOUS
  <2>3. fdt'[dup[s]] = fdt[arg[n].std[j]]
    BY <1>0, <2>1
  <2> QED BY <1>0, <2>2, <2>3
<1>12. pc'[n] \notin Begun
  BY <1>0, <1>1 DEF Goto, TypeOK, Begun
<1>13. fixed' = fixed
  BY <1>0
<1>14. Streams \in SUBSET Slots
  BY <1>4
<1>15. /\ own' \in [Node -> [Slots -> Fd \cup {-1}]]
       /\ \A m \in Node \ {n} : own'[m] = own[m]
       /\ Table'
  BY <1>1, <1>5, <1>8, <1>9, <1>10, <1>11, <1>13, <1>14, OpenKeeps
<1> QED BY <1>10, <1>12, <1>15 DEF Kept

(* The fail_pipe of a failed fork: the two lowest numbers, without owner.  *)
LEMMA Forkless == ASSUME IInv, NEW n \in Node, ForkFails(n) PROVE Kept(n)
<1>1. TypeOK /\ Table /\ limit \in Nat /\ limit >= 3
  BY CasesAssumption DEF IInv, TypeOK
<1>2. /\ fixed' = fixed /\ own' = own /\ Goto(n, "threw") /\ Op(n) = "native" /\ tree[n].nofork
      /\ CanOpen(2) /\ fdt' = [fdt EXCEPT ![Free1] = PipeR(n), ![Free2] = PipeW(n)]
  BY DEF ForkFails, rest
<1>3. tree' = tree /\ Node' = Node /\ Fd' = Fd
  BY <1>2 DEF fixed, Node, Fd
<1>4. PICK a \in Fd \ (0..2), b \in Fd \ (0..2) :
          a = Free1 /\ b = Free2 /\ a # b /\ ~Owner(a) /\ ~Owner(b)
  BY <1>1, <1>2, Given
<1>5. /\ DOMAIN fdt' = Fd /\ fdt'[a] = PipeR(n) /\ fdt'[b] = PipeW(n)
      /\ \A k \in Fd \ {a, b} : fdt'[k] = fdt[k]
  BY <1>1, <1>2, <1>4 DEF TypeOK
<1>6. FailPipe(PipeR(n)) /\ FailPipe(PipeW(n))
  BY <1>2 DEF FailPipe
<1>7. \A fd \in Fd \ (0..2) : fdt'[fd] # Closed => Owner(fd) \/ FailPipe(fdt'[fd])
  BY <1>1, <1>5, <1>6 DEF Table
<1>8. ASSUME NEW m \in Node, NEW s \in Slots, own[m][s] # -1 PROVE fdt'[own[m][s]] = fdt[own[m][s]]
  <2>1. PICK k \in Fd : k = own[m][s]
    BY <1>1, <1>8 DEF TypeOK
  <2>2. Owner(k)
    BY <2>1 DEF Owner
  <2> QED BY <1>4, <1>5, <2>1, <2>2
<1>9. \A k \in Streams : fdt'[StdFd[k]] = Tty(k)
  <2>1. \A k \in Streams : StdFd[k] \in 0..2 /\ StdFd[k] \in Fd
    BY <1>1 DEF StdFd, Streams, Fd
  <2> QED BY <1>1, <1>4, <1>5, <2>1 DEF Table
<1>10. Table'
  <2>1. \A fd \in Fd' \ (0..2) : fdt'[fd] # Closed => Owner(fd)' \/ FailPipe(fdt[fd])'
    <3>1. ASSUME NEW fd PROVE Owner(fd)' <=> Owner(fd)
      BY <1>2, <1>3 DEF Owner
    <3>2. ASSUME NEW fd PROVE FailPipe(fdt[fd])' <=> FailPipe(fdt'[fd])
      BY <1>3 DEF FailPipe, Op, PipeR, PipeW
    <3> QED BY <1>3, <1>7, <3>1, <3>2
  <2>2. OneOwner'
    BY <1>1, <1>2, <1>3 DEF Table, OneOwner
  <2>3. Files'
    <3> SUFFICES ASSUME NEW m \in Node, NEW s \in Slots, own'[m][s] # -1
                 PROVE  /\ own'[m][s] \notin 0..2
                        /\ s = "p0" => fdt'[own'[m][s]] = PipeR(m)
                        /\ s = "p1" => fdt'[own'[m][s]] = PipeW(m)
                        /\ s = "fd" => fdt'[own'[m][s]] = OpenFile(m)
                        /\ s \in Streams => fdt'[own'[m][s]] # Closed
      BY <1>3 DEF Files, PipeR, PipeW, OpenFile, Closed
    <3>1. own'[m][s] = own[m][s] /\ fdt'[own[m][s]] = fdt[own[m][s]]
      BY <1>2, <1>8
    <3> QED BY <1>1, <3>1 DEF Table, Files
  <2>4. (\A k \in Streams : fdt[StdFd[k]] = Tty(k))'
    BY <1>9 DEF Tty
  <2> QED BY <2>1, <2>2, <2>3, <2>4 DEF Table, Closed
<1>11. pc'[n] \notin Begun
  BY <1>1, <1>2 DEF Goto, TypeOK, Begun
<1> QED BY <1>1, <1>2, <1>5, <1>10, <1>11 DEF Kept, TypeOK

(* Every action keeps the table.                                           *)
LEMMA StartKeeps == ASSUME IInv, NEW n \in Node, StartLeaf(n) \/ StartNode(n) PROVE Kept(n)
<1>0. {"p0"} \in SUBSET Slots /\ {"p1"} \in SUBSET Slots /\ {"p0", "p1"} \in SUBSET Slots
      /\ {"fd"} \in SUBSET Slots /\ Streams \in SUBSET Slots /\ {PumpEnd(n)} \in SUBSET Slots
  BY DEF Slots, PumpEnd
<1>1. CASE StartBool(n)
  <2>1. fixed' = fixed /\ UNCHANGED table
    BY <1>1 DEF StartBool, rest
  <2> QED BY <2>1, SameTable
<1>2. CASE StartBuiltin(n)
  <2>1. fixed' = fixed /\ UNCHANGED table
    BY <1>2 DEF StartBuiltin, rest
  <2> QED BY <2>1, SameTable
<1>3. CASE StartFunction(n)
  BY <1>3, Duplicating
<1>4. CASE StartFunctionThrows(n)
  <2>1. fixed' = fixed /\ UNCHANGED table
    BY <1>4 DEF StartFunctionThrows, rest
  <2> QED BY <2>1, SameTable
<1>5. CASE StartNative(n)
  <2>1. fixed' = fixed /\ UNCHANGED table
    BY <1>5 DEF StartNative, rest
  <2> QED BY <2>1, SameTable
<1>6. CASE StartNativeThrows(n)
  <2>1. fixed' = fixed /\ UNCHANGED table
    BY <1>6 DEF StartNativeThrows, rest
  <2> QED BY <2>1, SameTable
<1>60. CASE ForkFails(n)
  BY <1>60, Forkless
<1>7. CASE StartPipe(n)
  <2>1. fixed' = fixed /\ pc[n] = "start" /\ CanOpen(2) /\ OpenPipe(n) /\ Call(n, "left", L(n), "start")
    BY <1>7 DEF StartPipe, rest, StartOperand
  <2>2. L(n) \in Node => L(n) # n
    BY Family DEF IInv
  <2>3. pc'[n] \notin Begun
    BY <2>1, <2>2 DEF Call, Begun, IInv, TypeOK
  <2> QED BY <2>1, <2>3, Piping
<1>8. CASE StartRightOfPipe(n)
  <2>1. fixed' = fixed /\ UNCHANGED table
    BY <1>8 DEF StartRightOfPipe, rest
  <2> QED BY <2>1, SameTable
<1>9. CASE PipeUp(n)
  <2>1. fixed' = fixed /\ Close(n, {"p0", "p1"})
    BY <1>9 DEF PipeUp, rest
  <2> QED BY <1>0, <2>1, Closing
<1>10. CASE PipeThrows(n)
  <2>1. fixed' = fixed /\ Close(n, {"p0", "p1"})
    BY <1>10 DEF PipeThrows, rest
  <2> QED BY <1>0, <2>1, Closing
<1>11. CASE StartMapping(n)
  <2>1. fixed' = fixed /\ pc[n] = "start" /\ CanOpen(2) /\ OpenPipe(n) /\ Call(n, "left", L(n), "start")
    BY <1>11 DEF StartMapping, rest, StartOperand
  <2>2. L(n) \in Node => L(n) # n
    BY Family DEF IInv
  <2>3. pc'[n] \notin Begun
    BY <2>1, <2>2 DEF Call, Begun, IInv, TypeOK
  <2> QED BY <2>1, <2>3, Piping
<1>12. CASE StartPump(n)
  <2>1. fixed' = fixed /\ (UNCHANGED table \/ Close(n, {"p1"}))
    BY <1>12 DEF StartPump, rest
  <2> QED BY <1>0, <2>1, SameTable, Closing
<1>13. CASE InMappingUp(n)
  <2>1. fixed' = fixed /\ Close(n, {"p0"})
    BY <1>13 DEF InMappingUp, rest
  <2> QED BY <1>0, <2>1, Closing
<1>14. CASE MappingThrows(n)
  <2>1. fixed' = fixed /\ Close(n, {"p0", "p1"})
    BY <1>14 DEF MappingThrows, rest
  <2> QED BY <1>0, <2>1, Closing
<1>15. CASE StartRedirect(n)
  BY <1>15, Redirecting
<1>16. CASE RedirectUp(n)
  <2>1. fixed' = fixed /\ UNCHANGED table
    BY <1>16 DEF RedirectUp, rest
  <2> QED BY <2>1, SameTable
<1>17. CASE StartConditional(n)
  <2>1. fixed' = fixed /\ UNCHANGED table
    BY <1>17 DEF StartConditional, rest
  <2> QED BY <2>1, SameTable
<1>18. CASE ConditionalUp(n)
  <2>1. fixed' = fixed /\ UNCHANGED table
    BY <1>18 DEF ConditionalUp, rest
  <2> QED BY <2>1, SameTable
<1>19. CASE PassThrow(n)
  <2>1. fixed' = fixed /\ UNCHANGED table
    BY <1>19 DEF PassThrow, rest
  <2> QED BY <2>1, SameTable
<1> QED BY <1>1, <1>2, <1>3, <1>4, <1>5, <1>6, <1>60, <1>7, <1>8, <1>9, <1>10, <1>11, <1>12,
      <1>13, <1>14, <1>15, <1>16, <1>17, <1>18, <1>19 DEF StartLeaf, StartNode

(* The tasks, the leaves and the pumps.                                    *)
LEMMA TaskKeeps == ASSUME IInv, NEW n \in Node, Task(n) \/ Leaf(n) \/ Pump(n) PROVE Kept(n)
<1>0. {"p0"} \in SUBSET Slots /\ {"p1"} \in SUBSET Slots /\ {"p0", "p1"} \in SUBSET Slots
      /\ {"fd"} \in SUBSET Slots /\ Streams \in SUBSET Slots /\ {PumpEnd(n)} \in SUBSET Slots
  BY DEF Slots, PumpEnd
<1>1. CASE TaskLeftDone(n)
  <2>1. fixed' = fixed /\ UNCHANGED table
    BY <1>1 DEF TaskLeftDone, rest
  <2> QED BY <2>1, SameTable
<1>2. CASE TaskRightUp(n)
  <2>1. fixed' = fixed /\ UNCHANGED table
    BY <1>2 DEF TaskRightUp, rest
  <2> QED BY <2>1, SameTable
<1>3. CASE TaskRightDone(n)
  <2>1. fixed' = fixed /\ UNCHANGED table
    BY <1>3 DEF TaskRightDone, rest
  <2> QED BY <2>1, SameTable
<1>4. CASE TaskFails(n)
  <2>1. fixed' = fixed /\ UNCHANGED table
    BY <1>4 DEF TaskFails, rest
  <2> QED BY <2>1, SameTable
<1>5. CASE LeafReads(n)
  <2>1. fixed' = fixed /\ UNCHANGED table
    BY <1>5 DEF LeafReads, rest
  <2> QED BY <2>1, SameTable
<1>6. CASE LeafSeesEof(n)
  <2>1. fixed' = fixed /\ UNCHANGED table
    BY <1>6 DEF LeafSeesEof, rest
  <2> QED BY <2>1, SameTable
<1>7. CASE \E k \in {"out", "err"} : LeafWrites(n, k)
  <2>1. fixed' = fixed /\ UNCHANGED table
    BY <1>7 DEF LeafWrites, rest, ProcessEnds
  <2> QED BY <2>1, SameTable
<1>8. CASE \E k \in {"out", "err"} : LeafBreaks(n, k)
  <2>1. fixed' = fixed /\ UNCHANGED table
    BY <1>8 DEF LeafBreaks, rest, ProcessEnds
  <2> QED BY <2>1, SameTable
<1>9. CASE ProgramEnds(n)
  <2>1. fixed' = fixed /\ UNCHANGED table
    BY <1>9 DEF ProgramEnds, rest, ProcessEnds
  <2> QED BY <2>1, SameTable
<1>10. CASE FunctionEnds(n)
  <2>1. fixed' = fixed /\ (UNCHANGED table \/ Close(n, Streams))
    BY <1>10 DEF FunctionEnds, rest
  <2> QED BY <1>0, <2>1, SameTable, Closing
<1>11. CASE BuiltinEnds(n)
  <2>1. fixed' = fixed /\ UNCHANGED table
    BY <1>11 DEF BuiltinEnds, rest
  <2> QED BY <2>1, SameTable
<1>12. CASE Reap(n)
  <2>1. fixed' = fixed /\ UNCHANGED table
    BY <1>12 DEF Reap, rest
  <2> QED BY <2>1, SameTable
<1>13. CASE Feed(n)
  <2>1. fixed' = fixed /\ UNCHANGED table
    BY <1>13 DEF Feed, rest
  <2> QED BY <2>1, SameTable
<1>14. CASE FeedBreaks(n)
  <2>1. fixed' = fixed /\ UNCHANGED table
    BY <1>14 DEF FeedBreaks, rest
  <2> QED BY <2>1, SameTable
<1>15. CASE Collect(n)
  <2>1. fixed' = fixed /\ UNCHANGED table
    BY <1>15 DEF Collect, rest
  <2> QED BY <2>1, SameTable
<1>16. CASE PumpDone(n)
  <2>1. fixed' = fixed /\ Close(n, {PumpEnd(n)})
    BY <1>16 DEF PumpDone, rest, PumpEnds
  <2> QED BY <1>0, <2>1, Closing
<1>17. CASE PumpFails(n)
  <2>1. fixed' = fixed /\ Close(n, {PumpEnd(n)})
    BY <1>17 DEF PumpFails, rest, PumpEnds
  <2> QED BY <1>0, <2>1, Closing
<1> QED BY <1>1, <1>2, <1>3, <1>4, <1>5, <1>6, <1>7, <1>8, <1>9, <1>10, <1>11, <1>12,
      <1>13, <1>14, <1>15, <1>16, <1>17 DEF Task, Leaf, Pump

(* finish_run and the destructors.                                         *)
LEMMA FinishKeeps == ASSUME IInv, NEW n \in Node, Finish(n) \/ Destruction(n) PROVE Kept(n)
<1>0. {"p0"} \in SUBSET Slots /\ {"p1"} \in SUBSET Slots /\ {"p0", "p1"} \in SUBSET Slots
      /\ {"fd"} \in SUBSET Slots /\ Streams \in SUBSET Slots /\ {PumpEnd(n)} \in SUBSET Slots
  BY DEF Slots, PumpEnd
<1>1. CASE FinishAtOnce(n)
  <2>1. fixed' = fixed /\ UNCHANGED table
    BY <1>1 DEF FinishAtOnce, rest
  <2> QED BY <2>1, SameTable
<1>2. CASE FinishGet(n)
  <2>1. fixed' = fixed /\ Close(n, Streams)
    BY <1>2 DEF FinishGet, rest
  <2> QED BY <1>0, <2>1, Closing
<1>3. CASE FinishOperand(n)
  <2>1. fixed' = fixed /\ UNCHANGED table
    BY <1>3 DEF FinishOperand, rest
  <2> QED BY <2>1, SameTable
<1>4. CASE FinishRight(n)
  <2>1. fixed' = fixed /\ UNCHANGED table
    BY <1>4 DEF FinishRight, rest
  <2> QED BY <2>1, SameTable
<1>5. CASE FinishPipe(n)
  <2>1. fixed' = fixed /\ UNCHANGED table
    BY <1>5 DEF FinishPipe, rest
  <2> QED BY <2>1, SameTable
<1>6. CASE FinishUnary(n)
  <2>1. fixed' = fixed /\ Close(n, {"fd"})
    BY <1>6 DEF FinishUnary, rest
  <2> QED BY <1>0, <2>1, Closing
<1>7. CASE FinishThrows(n)
  <2>1. fixed' = fixed /\ Close(n, {"fd"})
    BY <1>7 DEF FinishThrows, rest
  <2> QED BY <1>0, <2>1, Closing
<1>8. CASE Destroy(n)
  <2>1. fixed' = fixed /\ Close(n, {"fd"})
    BY <1>8 DEF Destroy, rest
  <2> QED BY <1>0, <2>1, Closing
<1>9. CASE DestroyLeft(n)
  <2>1. fixed' = fixed /\ UNCHANGED table
    BY <1>9 DEF DestroyLeft, rest
  <2> QED BY <2>1, SameTable
<1>10. CASE OperandsGone(n)
  <2>1. fixed' = fixed /\ UNCHANGED table
    BY <1>10 DEF OperandsGone, rest
  <2> QED BY <2>1, SameTable
<1>11. CASE Join(n)
  <2>1. fixed' = fixed /\ Close(n, Streams)
    BY <1>11 DEF Join, rest
  <2> QED BY <1>0, <2>1, Closing
<1> QED BY <1>1, <1>2, <1>3, <1>4, <1>5, <1>6, <1>7, <1>8, <1>9, <1>10, <1>11 DEF Finish, Destruction

-----------------------------------------------------------------------------
(* Control and table together.                                             *)
LEMMA TreeStep == ASSUME IInv, NEW n \in Node, Step(n), Kept(n) PROVE IInv'
<1>1. tree' = tree /\ limit' = limit /\ Node' = Node /\ Fd' = Fd
      /\ \A m \in Node : Op(m)' = Op(m)
  BY DEF Step, fixed, Node, Fd, Op
<1>2. TypeOK'
  BY <1>1 DEF IInv, TypeOK, Step, Kept
<1>3. ASSUME NEW m \in Node PROVE Fresh(m)' /\ InTurn(m)'
  <2>1. /\ pc'[m] \in Begun \cup {"left"} => job'[m] = "none"
        /\ job'[m] = "left" => Op(m) \in Conditionals
        /\ InTurn(m)'
    BY Turns
  <2>2. pc'[m] \in Begun => own'[m] = NoSlots
    <3>1. pc'[m] \in Begun => pc[m] \in Begun
      BY DEF Step, Begun
    <3>2. pc[m] \in Begun => own[m] = NoSlots
      BY DEF IInv, Fresh, Begun
    <3> QED BY <3>1, <3>2 DEF Kept
  <2>3. NoSlots' = NoSlots
    BY DEF NoSlots
  <2> QED BY <1>1, <2>1, <2>2, <2>3 DEF Fresh, Begun
<1>4. Table'
  BY DEF Kept
<1> QED BY <1>1, <1>2, <1>3, <1>4 DEF IInv

(* The invariant is inductive, whatever the expression and the limit are.  *)
LEMMA NextIInv == IInv /\ [Next]_vars => IInv'
<1> SUFFICES ASSUME IInv, [Next]_vars PROVE IInv'
  OBVIOUS
<1> DEFINE Control == /\ fixed' = fixed /\ UNCHANGED <<job, table>>
                      /\ \/ UNCHANGED pc
                         \/ \E q \in {"fin", "dtor"} : Goto(Root, q) /\ pc[Root] # "idle"
<1>1. ASSUME Control PROVE IInv'
  <2>0. tree' = tree /\ limit' = limit /\ job' = job /\ fdt' = fdt /\ own' = own
        /\ Node' = Node /\ Fd' = Fd /\ NoSlots' = NoSlots
    BY <1>1 DEF fixed, table, Node, Fd, NoSlots
  <2>1. CASE DOMAIN pc' = Node /\ \A n \in Node : pc'[n] = pc[n]
    <3>1. TypeOK'
      BY <2>0, <2>1 DEF IInv, TypeOK
    <3>2. ASSUME NEW n \in Node PROVE Fresh(n)' /\ InTurn(n)'
      <4>1. Fresh(n) /\ InTurn(n) /\ Op(n)' = Op(n) /\ L(n)' = L(n) /\ R(n)' = R(n)
        BY <2>0 DEF IInv, Op, L, R
      <4> QED BY <2>0, <2>1, <4>1 DEF Fresh, InTurn, Waits
    <3>3. Table'
      BY <2>0 DEF IInv, Table, Owner, OneOwner, Files, FailPipe, Op, PipeR, PipeW, OpenFile, Closed, Tty
    <3> QED BY <2>0, <3>1, <3>2, <3>3 DEF IInv
  <2>2. CASE UNCHANGED pc \/ Root \notin Node
    <3>1. DOMAIN pc' = Node /\ \A n \in Node : pc'[n] = pc[n]
      BY <1>1, <2>2 DEF Goto, IInv, TypeOK
    <3> QED BY <2>1, <3>1
  <2>3. CASE Root \in Node /\ \E q \in {"fin", "dtor"} : Goto(Root, q) /\ pc[Root] # "idle"
    <3>1. DOMAIN job' = Node /\ fixed' = fixed /\ UNCHANGED <<job, table>>
      BY <1>1 DEF IInv, TypeOK
    <3>2. Step(Root)
      BY <2>3, <3>1, Alone DEF Begun
    <3> QED BY <2>3, <3>1, <3>2, SameTable, TreeStep
  <2> QED BY <1>1, <2>2, <2>3
<1>2. CASE RunFinishes \/ RunReturns \/ RunThrows \/ Drop
  BY <1>1, <1>2 DEF RunFinishes, RunReturns, RunThrows, Drop, rest
<1>3. CASE UNCHANGED vars
  BY <1>1, <1>3 DEF vars, fixed, table
<1>4. ASSUME NEW n \in Node,
             StartLeaf(n) \/ StartNode(n) \/ Task(n) \/ Leaf(n) \/ Pump(n) \/ Finish(n) \/ Destruction(n)
      PROVE  IInv'
  <2>1. Step(n)
    BY <1>4, StartSteps, TaskSteps, FinishSteps
  <2>2. Kept(n)
    BY <1>4, StartKeeps, TaskKeeps, FinishKeeps
  <2> QED BY <2>1, <2>2, TreeStep
<1> QED BY <1>2, <1>3, <1>4 DEF Next, Terminated

(* A wrapper is the only one that has its number.                          *)
LEMMA Implied == IInv => OwnInv
<1> SUFFICES ASSUME IInv PROVE OwnInv
  OBVIOUS
<1>1. TypeOK /\ Table /\ limit \in Nat
  BY CasesAssumption DEF IInv, TypeOK
<1>2. ASSUME NEW fd \in Fd \ (0..2), fdt[fd] # Closed
      PROVE  Cardinality(WrappersOf(fd)) = 1 \/ (WrappersOf(fd) = {} /\ FailPipe(fdt[fd]))
  <2>1. fd # -1
    BY <1>1 DEF Fd
  <2>2. CASE Owner(fd)
    <3>1. PICK n \in Node, s \in Slots : own[n][s] = fd
      BY <2>2 DEF Owner
    <3>2. \A w \in Node \X Slots : own[w[1]][w[2]] = fd => w = <<n, s>>
      BY <1>1, <2>1, <3>1 DEF Table, OneOwner
    <3>3. WrappersOf(fd) = {<<n, s>>}
      BY <3>1, <3>2 DEF WrappersOf
    <3> QED BY <3>3, FS_Singleton
  <2>3. CASE ~Owner(fd)
    <3>1. WrappersOf(fd) = {}
      BY <2>3 DEF Owner, WrappersOf
    <3> QED BY <1>1, <1>2, <2>3, <3>1 DEF Table
  <2> QED BY <2>2, <2>3
<1>3. \A n \in Node, s \in Slots : own[n][s] # -1 =>
            /\ s = "p0" => fdt[own[n][s]] = PipeR(n)
            /\ s = "p1" => fdt[own[n][s]] = PipeW(n)
            /\ s = "fd" => fdt[own[n][s]] = OpenFile(n)
            /\ s \in Streams => fdt[own[n][s]] # Closed
  BY <1>1 DEF Table, Files
<1> QED BY <1>1, <1>2, <1>3 DEF OwnInv, Table

-----------------------------------------------------------------------------
(* Nothing is leaked, nothing is closed twice and no wrapper ever has a    *)
(* number that stands for something else: for every expression in which    *)
(* no command has two operators and every limit on descriptors, whatever   *)
(* fails to start, throws or is destroyed early.                           *)
THEOREM Owned == Spec => []OwnInv
<1>1. IInv /\ [Next]_vars => IInv'
  BY NextIInv
<1> QED BY InitIInv, Implied, <1>1, PTL DEF Spec

-----------------------------------------------------------------------------
(***************************************************************************)
(* What an expression does in which order, for every expression in which   *)
(* no command has two operators: conditionals never run their right        *)
(* operand early, run() returns what the operators make of the exit codes, *)
(* nothing stays open, and a leaf that throws has started none after it.   *)
(*                                                                         *)
(* The invariant is Sound.  Its parts are about one node and its operands  *)
(* (Local, Wrapped), about whole subexpressions (InOrder, UpFirst), and    *)
(* about what is left when run() returns (Returned).                       *)
(***************************************************************************)

-----------------------------------------------------------------------------
(***************************************************************************)
(* The steps of a node, without the descriptors.                           *)
(***************************************************************************)

(* The classes of operators by their number of operands.                   *)
Binary == Conditionals \cup {"pipe"}
UnaryOps == Maps \cup Redirects

(* An expression is a tree.                                                *)
LEMMA Tree ==
    ASSUME TypeOK
    PROVE  /\ Node \subseteq Nat /\ 0 \notin Node /\ Root \in Node
           /\ \A n \in Node :
                /\ Op(n) \in {"bool"} \cup Leaves \cup UnaryOps \cup Binary
                /\ L(n) = 0 <=> Op(n) \in {"bool"} \cup Leaves
                /\ R(n) = 0 <=> Op(n) \notin Binary
                /\ L(n) # 0 => L(n) \in Node /\ L(n) > n
                /\ R(n) # 0 => R(n) \in Node /\ R(n) > n /\ L(n) # R(n)
<1>1. PICK x \in Cases : tree = x[1] /\ limit = x[2]
  BY DEF TypeOK
<1>2. /\ DOMAIN x[1] = 1..Len(x[1]) /\ Root \in DOMAIN x[1]
      /\ \A n \in DOMAIN x[1] : n \in 1..Len(x[1]) /\ Len(x[1]) \in Nat
  BY PreorderAssumption, NothingShared
<1>3. Node \subseteq Nat /\ 0 \notin Node /\ Root \in Node
  BY <1>1, <1>2 DEF Node
<1> SUFFICES ASSUME NEW n \in Node
             PROVE  /\ Op(n) \in {"bool"} \cup Leaves \cup UnaryOps \cup Binary
                    /\ L(n) = 0 <=> Op(n) \in {"bool"} \cup Leaves
                    /\ R(n) = 0 <=> Op(n) \notin Binary
                    /\ L(n) # 0 => L(n) \in Node /\ L(n) > n
                    /\ R(n) # 0 => R(n) \in Node /\ R(n) > n /\ L(n) # R(n)
  BY <1>3
<1>4. /\ Op(n) \in {"bool"} \cup Leaves \cup UnaryOps \cup Binary
      /\ L(n) = 0 <=> Op(n) \in {"bool"} \cup Leaves
      /\ R(n) = 0 <=> Op(n) \notin Binary
  BY <1>1, OperandsAssumption DEF Node, Op, L, R, UnaryOps, Binary
<1>5. n \in Nat /\ n \in DOMAIN x[1] /\ Len(x[1]) \in Nat /\ Node = 1..Len(x[1])
  BY <1>1, <1>2, <1>3 DEF Node
<1>6. ASSUME NEW m \in {L(n), R(n)}, m # 0 PROVE m \in Node /\ m > n
  <2>1. m \in (n + 1)..Len(x[1])
    BY <1>1, <1>5, <1>6, CasesAssumption DEF L, R
  <2> QED BY <1>5, <2>1
<1>7. R(n) # 0 => L(n) # R(n)
  BY <1>1, <1>5, NothingShared DEF L, R
<1> QED BY <1>4, <1>6, <1>7

-----------------------------------------------------------------------------
(* What the steps of n do to the control, the jobs and the values: of n,   *)
(* and of an operand that it calls.                                        *)
Only(n) ==
    /\ fixed' = fixed /\ last' = last /\ host' \in {host, "killed"}
    /\ DOMAIN pc' = Node /\ DOMAIN job' = Node /\ DOMAIN val' = Node
    /\ \A m \in Node \ {n} : job'[m] = job[m] /\ val'[m] = val[m]

Moves(n, q) == pc'[n] = q /\ \A m \in Node \ {n} : pc'[m] = pc[m]
Asks(n, q, m, call) ==
    /\ m \in Node \ {n} /\ pc'[n] = q /\ pc'[m] = call
    /\ \A k \in Node \ {n, m} : pc'[k] = pc[k]
Has(n, j, v) == job'[n] = j /\ val'[n] = v

(* start_run of a command.                                                 *)
Leaving(n) ==
    /\ pc[n] = "start" /\ L(n) = 0
    /\ \/ Op(n) = "bool" /\ Moves(n, "up") /\ Has(n, job[n], val[n])
       \/ Op(n) = "builtin" /\ Moves(n, "runx") /\ Has(n, "run", val[n])
       \/ Op(n) \in {"native", "function"} /\ Moves(n, "up") /\ Has(n, "run", val[n])
       \/ Op(n) \in {"native", "function"} /\ Moves(n, "threw") /\ Has(n, job[n], val[n])

(* start_run of an operator.                                               *)
Starting(n) ==
    /\ L(n) # 0
    /\ \/ pc[n] = "start" /\ Asks(n, "left", L(n), "start") /\ Has(n, job[n], val[n])
       \/ /\ \/ pc[n] = "start"
             \/ pc[n] = "left" /\ pc[L(n)] = "threw"
             \/ pc[n] = "right" /\ pc[R(n)] = "threw" /\ Op(n) = "pipe"
          /\ Moves(n, "threw") /\ Has(n, job[n], val[n])
       \/ /\ pc[n] = "left" /\ pc[L(n)] = "up"
          /\ \/ Op(n) = "pipe" /\ Asks(n, "right", R(n), "start") /\ Has(n, job[n], val[n])
             \/ Op(n) = "inmap" /\ Moves(n, "tail") /\ Has(n, "run", val[n])
             \/ Op(n) \in {"outmap", "errmap"} /\ Moves(n, "up") /\ Has(n, "run", val[n])
             \/ Op(n) \in Redirects /\ Moves(n, "up") /\ Has(n, job[n], val[n])
             \/ Op(n) \in Conditionals /\ Asks(n, "up", L(n), "fin") /\ Has(n, "left", val[n])
       \/ /\ pc[n] = "right" /\ pc[R(n)] = "up" /\ Op(n) = "pipe"
          /\ Moves(n, "up") /\ Has(n, job[n], val[n])
       \/ pc[n] = "tail" /\ Moves(n, "up") /\ Has(n, job[n], val[n])

(* The task of a conditional.                                              *)
Tasking(n) ==
    \/ /\ job[n] = "left" /\ pc[L(n)] = "done"
       /\ IF StartRight(Op(n), val[L(n)])
          THEN Asks(n, pc[n], R(n), "start") /\ Has(n, "right", val[n])
          ELSE Moves(n, pc[n]) /\ Has(n, "done", val[L(n)])
    \/ job[n] = "right" /\ pc[R(n)] = "up" /\ Asks(n, pc[n], R(n), "fin") /\ Has(n, job[n], val[n])
    \/ job[n] = "right" /\ pc[R(n)] = "done" /\ Moves(n, pc[n]) /\ Has(n, "done", val[R(n)])
    \/ /\ \/ job[n] = "left" /\ pc[L(n)] = "failed"
          \/ job[n] = "right" /\ pc[R(n)] \in {"threw", "failed"}
       /\ Moves(n, pc[n]) /\ Has(n, "failed", val[n])

(* The tasks of commands and mappings.                                     *)
Working(n) ==
    \/ job[n] = "run" /\ Moves(n, pc[n]) /\ Has(n, "run", val[n])
    \/ job[n] = "run" /\ Op(n) = "native" /\ Moves(n, pc[n]) /\ job'[n] = "exited"
    \/ /\ job[n] = "run" /\ Op(n) = "function" /\ Moves(n, pc[n])
       /\ \E j \in {"done", "failed"} : Has(n, j, tree[n].val)
    \/ /\ job[n] = "run" /\ Op(n) = "builtin" /\ \E q \in {"up", "threw"} : Moves(n, q)
       /\ Has(n, "done", tree[n].val)
    \/ job[n] = "exited" /\ Moves(n, pc[n]) /\ Has(n, "reaped", val[n])
    \/ /\ job[n] = "run" /\ Op(n) \in Maps /\ Moves(n, pc[n])
       /\ \E j \in {"done", "failed"} : Has(n, j, val[n])

(* finish_run.                                                             *)
Finishing(n) ==
    \/ /\ pc[n] = "fin" /\ Op(n) \in {"bool", "builtin"}
       /\ Moves(n, "done") /\ Has(n, job[n], tree[n].val)
    \/ /\ pc[n] = "fin" /\ Op(n) \in {"native", "function"} \cup Conditionals
       /\ job[n] \in {"reaped", "done", "failed"}
       /\ Moves(n, IF job[n] = "failed" THEN "failed" ELSE "done") /\ Has(n, job[n], val[n])
    \/ /\ pc[n] = "fin" /\ Op(n) \in UnaryOps \cup {"pipe"}
       /\ Op(n) \in Maps => job[n] \in {"done", "failed"}
       /\ Asks(n, "finL", L(n), "fin") /\ Has(n, job[n], val[n])
    \/ /\ pc[n] = "finL" /\ pc[L(n)] = "done" /\ Op(n) = "pipe"
       /\ Asks(n, "finR", R(n), "fin") /\ Has(n, job[n], val[n])
    \/ /\ pc[n] = "finR" /\ pc[R(n)] = "done"
       /\ Moves(n, "done") /\ Has(n, job[n], PipeResult(val[L(n)], val[R(n)]))
    \/ /\ pc[n] = "finL" /\ pc[L(n)] = "done" /\ Op(n) \in UnaryOps
       /\ Moves(n, "done") /\ Has(n, job[n], val[L(n)])
    \/ /\ (pc[n] = "finL" /\ pc[L(n)] = "failed") \/ (pc[n] = "finR" /\ pc[R(n)] = "failed")
       /\ Moves(n, "failed") /\ Has(n, job[n], val[n])

(* The destructors.                                                        *)
Dying(n) ==
    /\ Has(n, job[n], val[n])
    /\ \/ /\ pc[n] = "dtor"
          /\ Op(n) \in {"bool", "builtin"} \/ (Op(n) = "native" /\ Joined(n))
          /\ Moves(n, "gone")
       \/ pc[n] = "dtor" /\ Op(n) = "function" /\ Moves(n, "join")
       \/ /\ pc[n] = "dtor"
          /\ Op(n) = "pipe" \/ (Op(n) \in Conditionals /\ Joined(n))
          /\ Asks(n, "dtorR", R(n), "dtor")
       \/ pc[n] = "dtor" /\ Op(n) \in UnaryOps /\ Asks(n, "dtorL", L(n), "dtor")
       \/ pc[n] = "dtorR" /\ pc[R(n)] = "gone" /\ Asks(n, "dtorL", L(n), "dtor")
       \/ /\ pc[n] = "dtorL" /\ pc[L(n)] = "gone"
          /\ Moves(n, IF Op(n) \in Maps THEN "join" ELSE "gone")
       \/ pc[n] = "join" /\ Joined(n) /\ Moves(n, "gone")

(* run() itself.                                                           *)
Hosting(n) ==
    /\ n = Root /\ Has(n, job[n], val[n])
    /\ \/ pc[n] = "up" /\ Moves(n, "fin")
       \/ pc[n] \in {"done", "threw", "failed"} /\ Moves(n, "dtor")

(* A step of n.                                                            *)
Turn(n) ==
    /\ Only(n)
    /\ \/ Leaving(n) \/ Starting(n) \/ Tasking(n) \/ Working(n)
       \/ Finishing(n) \/ Dying(n) \/ Hosting(n)

-----------------------------------------------------------------------------
(***************************************************************************)
(* Every action of a node is one of these steps.                           *)
(***************************************************************************)

(* The places of a node that has been started, is being destroyed, or is on *)
(* its way.                                                                *)
Past == {"up", "fin", "finL", "finR", "done", "failed"}
Dtor == {"dtor", "dtorR", "dtorL", "join", "gone"}
Busy == {"start", "left", "right", "tail", "runx", "fin", "finL", "finR",
         "dtor", "dtorR", "dtorL", "join"}

(* How far a node of each class can be, and what its task can be.          *)
Stage(n) ==
    /\ pc[n] \in {"idle", "threw", "gone"} \cup Busy \cup Past
    /\ pc[n] \in {"right", "finR"} => Op(n) = "pipe"
    /\ pc[n] = "finL" => Op(n) \in UnaryOps \cup {"pipe"}
    /\ pc[n] \in {"left", "dtorL"} => L(n) # 0
    /\ pc[n] = "tail" => Op(n) = "inmap"
    /\ pc[n] = "runx" => Op(n) = "builtin"
    /\ pc[n] = "dtorR" => Op(n) \in Binary
    /\ pc[n] = "join" => Op(n) \in Maps \cup {"function"}

Jobs(n) ==
    /\ Op(n) = "native" => job[n] \in {"none", "run", "exited", "reaped"}
    /\ Op(n) = "builtin" => job[n] \in {"none", "run", "done"}
    /\ Op(n) \in Maps \cup {"function"} => job[n] \in {"none", "run", "done", "failed"}
    /\ Op(n) \in Conditionals => job[n] \in {"none", "left", "right", "done", "failed"}
    /\ Op(n) \in {"bool", "pipe"} \cup Redirects => job[n] = "none"
    /\ Op(n) = "builtin" /\ job[n] = "run" => pc[n] = "runx"
    /\ Op(n) = "builtin" /\ pc[n] \in Past => job[n] = "done"

Kind(n) == Stage(n) /\ Jobs(n)

(* Every node has a value.                                                 *)
ValOK == DOMAIN val = Node

(* What a step of n touches.                                               *)
LEMMA Frame ==
    ASSUME TypeOK, ValOK, NEW n \in Node, fixed' = fixed
    PROVE  /\ \A q : Goto(n, q) => Moves(n, q) /\ DOMAIN pc' = Node
           /\ \A q, m, call : m \in Node \ {n} /\ Call(n, q, m, call) =>
                Asks(n, q, m, call) /\ DOMAIN pc' = Node
           /\ UNCHANGED pc => Moves(n, pc[n]) /\ DOMAIN pc' = Node
           /\ UNCHANGED job =>
                job'[n] = job[n] /\ DOMAIN job' = Node /\ \A m \in Node \ {n} : job'[m] = job[m]
           /\ \A j : job' = [job EXCEPT ![n] = j] =>
                job'[n] = j /\ DOMAIN job' = Node /\ \A m \in Node \ {n} : job'[m] = job[m]
           /\ UNCHANGED val =>
                val'[n] = val[n] /\ DOMAIN val' = Node /\ \A m \in Node \ {n} : val'[m] = val[m]
           /\ \A v : val' = [val EXCEPT ![n] = v] =>
                val'[n] = v /\ DOMAIN val' = Node /\ \A m \in Node \ {n} : val'[m] = val[m]
BY DEF TypeOK, ValOK, Goto, Call, Moves, Asks

(* Which nodes a node calls.                                               *)
LEMMA Operand ==
    ASSUME TypeOK, NEW n \in Node
    PROVE  /\ Op(n) \in Binary \cup UnaryOps => L(n) # 0 /\ L(n) \in Node \ {n}
           /\ Op(n) \in Binary => R(n) # 0 /\ R(n) \in Node \ {n} /\ R(n) # L(n)
           /\ L(n) # 0 => L(n) \in Node \ {n} /\ Op(n) \in Binary \cup UnaryOps
           /\ L(n) = 0 => Op(n) \in {"bool"} \cup Leaves
<1>1. n \in Nat /\ L(n) # n /\ R(n) # n
  BY Tree
<1> QED BY <1>1, Tree DEF Binary, UnaryOps, Maps, Redirects, Conditionals, Leaves

(* Only && || , have a task that runs their right operand.                 *)
LEMMA RightOf ==
    ASSUME TypeOK, NEW n \in Node, Kind(n), job[n] = "right"
    PROVE  Op(n) \in Conditionals /\ R(n) \in Node \ {n}
<1>1. Op(n) \in {"bool"} \cup Leaves \cup UnaryOps \cup Binary
  BY Tree
<1>2. Op(n) \in Conditionals
  BY <1>1 DEF Kind, Jobs, Leaves, UnaryOps, Binary, Maps, Redirects, Conditionals
<1> QED BY <1>2, Operand DEF Binary

(* start_run of the leaves.                                                *)
LEMMA LeafTurns ==
    ASSUME TypeOK, ValOK, NEW n \in Node, Kind(n), Fresh(n), StartLeaf(n)
    PROVE  Turn(n)
<1> USE DEF Binary, UnaryOps, Maps, Redirects, Conditionals, Leaves, Has
<1>1. CASE StartBool(n)
  <2>1. fixed' = fixed /\ last' = last /\ host' \in {host, "killed"}
    BY <1>1 DEF StartBool, rest
  <2>2. Leaving(n) /\ Only(n)
    BY <1>1, <2>1, Frame, Operand DEF StartBool, Leaving, Only
  <2> QED BY <2>2 DEF Turn
<1>2. CASE StartBuiltin(n)
  <2>1. fixed' = fixed /\ last' = last /\ host' \in {host, "killed"}
    BY <1>2 DEF StartBuiltin, rest
  <2>2. Leaving(n) /\ Only(n)
    BY <1>2, <2>1, Frame, Operand DEF StartBuiltin, Leaving, Only
  <2> QED BY <2>2 DEF Turn
<1>3. CASE StartFunction(n)
  <2>1. fixed' = fixed /\ last' = last /\ host' \in {host, "killed"}
    BY <1>3 DEF StartFunction, rest
  <2>2. Leaving(n) /\ Only(n)
    BY <1>3, <2>1, Frame, Operand DEF StartFunction, Leaving, Only
  <2> QED BY <2>2 DEF Turn
<1>4. CASE StartFunctionThrows(n)
  <2>1. fixed' = fixed /\ last' = last /\ host' \in {host, "killed"}
    BY <1>4 DEF StartFunctionThrows, rest
  <2>2. Leaving(n) /\ Only(n)
    BY <1>4, <2>1, Frame, Operand DEF StartFunctionThrows, Leaving, Only
  <2> QED BY <2>2 DEF Turn
<1>5. CASE StartNative(n)
  <2>1. fixed' = fixed /\ last' = last /\ host' \in {host, "killed"}
    BY <1>5 DEF StartNative, rest
  <2>2. Leaving(n) /\ Only(n)
    BY <1>5, <2>1, Frame, Operand DEF StartNative, Leaving, Only
  <2> QED BY <2>2 DEF Turn
<1>6. CASE StartNativeThrows(n)
  <2>1. fixed' = fixed /\ last' = last /\ host' \in {host, "killed"}
    BY <1>6 DEF StartNativeThrows, rest
  <2>2. Leaving(n) /\ Only(n)
    BY <1>6, <2>1, Frame, Operand DEF StartNativeThrows, Leaving, Only
  <2> QED BY <2>2 DEF Turn
<1>7. CASE ForkFails(n)
  <2>1. fixed' = fixed /\ last' = last /\ host' \in {host, "killed"}
    BY <1>7 DEF ForkFails, rest
  <2>2. Leaving(n) /\ Only(n)
    BY <1>7, <2>1, Frame, Operand DEF ForkFails, Leaving, Only
  <2> QED BY <2>2 DEF Turn
<1> QED BY <1>1, <1>2, <1>3, <1>4, <1>5, <1>6, <1>7
           DEF StartLeaf, StartNode, Task, Leaf, Pump, Finish, Destruction

(* start_run of the commands with operands.                                *)
LEMMA NodeTurns ==
    ASSUME TypeOK, ValOK, NEW n \in Node, Kind(n), Fresh(n), StartNode(n)
    PROVE  Turn(n)
<1> USE DEF Binary, UnaryOps, Maps, Redirects, Conditionals, Leaves, Has
<1>1. CASE StartPipe(n)
  <2>1. fixed' = fixed /\ last' = last /\ host' \in {host, "killed"}
    BY <1>1 DEF StartPipe, rest, StartOperand
  <2>2. Starting(n) /\ Only(n)
    BY <1>1, <2>1, Frame, Operand DEF StartPipe, Starting, Only, StartOperand
  <2> QED BY <2>2 DEF Turn
<1>2. CASE StartRightOfPipe(n)
  <2>1. fixed' = fixed /\ last' = last /\ host' \in {host, "killed"}
    BY <1>2 DEF StartRightOfPipe, rest, StartOperand
  <2>2. Starting(n) /\ Only(n)
    BY <1>2, <2>1, Frame, Operand DEF StartRightOfPipe, Starting, Only, StartOperand
  <2> QED BY <2>2 DEF Turn
<1>3. CASE PipeUp(n)
  <2>1. fixed' = fixed /\ last' = last /\ host' \in {host, "killed"}
    BY <1>3 DEF PipeUp, rest
  <2>2. Starting(n) /\ Only(n)
    BY <1>3, <2>1, Frame, Operand DEF PipeUp, Starting, Only
  <2> QED BY <2>2 DEF Turn
<1>4. CASE PipeThrows(n)
  <2>1. fixed' = fixed /\ last' = last /\ host' \in {host, "killed"}
    BY <1>4 DEF PipeThrows, rest
  <2>2. Starting(n) /\ Only(n)
    BY <1>4, <2>1, Frame, Operand DEF PipeThrows, Starting, Only
  <2> QED BY <2>2 DEF Turn
<1>5. CASE StartMapping(n)
  <2>1. fixed' = fixed /\ last' = last /\ host' \in {host, "killed"}
    BY <1>5 DEF StartMapping, rest, StartOperand
  <2>2. Starting(n) /\ Only(n)
    BY <1>5, <2>1, Frame, Operand DEF StartMapping, Starting, Only, StartOperand
  <2> QED BY <2>2 DEF Turn
<1>6. CASE StartPump(n)
  <2>1. fixed' = fixed /\ last' = last /\ host' \in {host, "killed"}
    BY <1>6 DEF StartPump, rest
  <2>2. /\ pc[n] = "left" /\ Op(n) \in Maps /\ pc[L(n)] = "up"
        /\ job' = [job EXCEPT ![n] = "run"] /\ UNCHANGED val
        /\ Goto(n, IF Op(n) = "inmap" THEN "tail" ELSE "up")
    BY <1>6 DEF StartPump
  <2>3. /\ Has(n, "run", val[n]) /\ Moves(n, IF Op(n) = "inmap" THEN "tail" ELSE "up")
        /\ Only(n) /\ L(n) # 0
    BY <2>1, <2>2, Frame, Operand, ZenonT(60) DEF Only
  <2> QED BY <2>2, <2>3 DEF Turn, Starting
<1>7. CASE InMappingUp(n)
  <2>1. fixed' = fixed /\ last' = last /\ host' \in {host, "killed"}
    BY <1>7 DEF InMappingUp, rest
  <2>2. Starting(n) /\ Only(n)
    BY <1>7, <2>1, Frame, Operand DEF InMappingUp, Starting, Only, Stage, Kind
  <2> QED BY <2>2 DEF Turn
<1>8. CASE MappingThrows(n)
  <2>1. fixed' = fixed /\ last' = last /\ host' \in {host, "killed"}
    BY <1>8 DEF MappingThrows, rest
  <2>2. Starting(n) /\ Only(n)
    BY <1>8, <2>1, Frame, Operand DEF MappingThrows, Starting, Only
  <2> QED BY <2>2 DEF Turn
<1>9. CASE StartRedirect(n)
  <2>1. fixed' = fixed /\ last' = last /\ host' \in {host, "killed"}
    BY <1>9 DEF StartRedirect, rest, StartOperand
  <2>2. Starting(n) /\ Only(n)
    BY <1>9, <2>1, Frame, Operand DEF StartRedirect, Starting, Only, StartOperand
  <2> QED BY <2>2 DEF Turn
<1>10. CASE RedirectUp(n)
  <2>1. fixed' = fixed /\ last' = last /\ host' \in {host, "killed"}
    BY <1>10 DEF RedirectUp, rest
  <2>2. Starting(n) /\ Only(n)
    BY <1>10, <2>1, Frame, Operand DEF RedirectUp, Starting, Only
  <2> QED BY <2>2 DEF Turn
<1>11. CASE StartConditional(n)
  <2>1. fixed' = fixed /\ last' = last /\ host' \in {host, "killed"}
    BY <1>11 DEF StartConditional, rest, StartOperand
  <2>2. Starting(n) /\ Only(n)
    BY <1>11, <2>1, Frame, Operand DEF StartConditional, Starting, Only, StartOperand
  <2> QED BY <2>2 DEF Turn
<1>12. CASE ConditionalUp(n)
  <2>1. fixed' = fixed /\ last' = last /\ host' \in {host, "killed"}
    BY <1>12 DEF ConditionalUp, rest
  <2>2. /\ pc[n] = "left" /\ Op(n) \in Conditionals /\ pc[L(n)] = "up"
        /\ job' = [job EXCEPT ![n] = "left"] /\ UNCHANGED val /\ Call(n, "up", L(n), "fin")
    BY <1>12 DEF ConditionalUp
  <2>3. L(n) # 0 /\ L(n) \in Node \ {n}
    BY <2>2, Operand
  <2>4. Has(n, "left", val[n]) /\ Asks(n, "up", L(n), "fin") /\ Only(n)
    BY <2>1, <2>2, <2>3, Frame DEF Only
  <2> QED BY <2>2, <2>3, <2>4 DEF Turn, Starting
<1>13. CASE PassThrow(n)
  <2>1. fixed' = fixed /\ last' = last /\ host' \in {host, "killed"}
    BY <1>13 DEF PassThrow, rest
  <2>2. Starting(n) /\ Only(n)
    BY <1>13, <2>1, Frame, Operand DEF PassThrow, Starting, Only
  <2> QED BY <2>2 DEF Turn
<1> QED BY <1>1, <1>2, <1>3, <1>4, <1>5, <1>6, <1>7, <1>8, <1>9, <1>10, <1>11, <1>12, <1>13
           DEF StartLeaf, StartNode, Task, Leaf, Pump, Finish, Destruction

(* The tasks, the leaves and the pumps.                                    *)
LEMMA TaskTurns ==
    ASSUME TypeOK, ValOK, NEW n \in Node, Kind(n), Fresh(n), Task(n) \/ Leaf(n) \/ Pump(n)
    PROVE  Turn(n)
<1> USE DEF Binary, UnaryOps, Maps, Redirects, Conditionals, Leaves, Has
<1>1. CASE TaskLeftDone(n)
  <2>1. fixed' = fixed /\ last' = last /\ host' \in {host, "killed"} /\ UNCHANGED rest
    BY <1>1 DEF TaskLeftDone, rest
  <2>2. job[n] = "left" /\ R(n) \in Node \ {n}
    BY <1>1, Operand DEF TaskLeftDone, Fresh
  <2>3. CASE StartRight(Op(n), val[L(n)])
    <3>1. pc[L(n)] = "done" /\ job' = [job EXCEPT ![n] = "right"] /\ UNCHANGED val
          /\ pc' = [pc EXCEPT ![R(n)] = "start"]
      BY <1>1, <2>3 DEF TaskLeftDone
    <3>2. Asks(n, pc[n], R(n), "start") /\ DOMAIN pc' = Node
      BY <2>2, <3>1 DEF Asks, TypeOK
    <3>3. Has(n, "right", val[n]) /\ Only(n)
      BY <2>1, <3>1, <3>2, Frame DEF Only
    <3> QED BY <2>2, <2>3, <3>1, <3>2, <3>3 DEF Turn, Tasking
  <2>4. CASE ~StartRight(Op(n), val[L(n)])
    <3>1. pc[L(n)] = "done" /\ job' = [job EXCEPT ![n] = "done"] /\ UNCHANGED pc
          /\ val' = [val EXCEPT ![n] = val[L(n)]]
      BY <1>1, <2>4 DEF TaskLeftDone
    <3>2. Has(n, "done", val[L(n)]) /\ Moves(n, pc[n]) /\ Only(n)
      BY <2>1, <3>1, Frame DEF Only
    <3> QED BY <2>2, <2>4, <3>1, <3>2 DEF Turn, Tasking
  <2> QED BY <2>3, <2>4
<1>2. CASE TaskRightUp(n)
  <2>1. fixed' = fixed /\ last' = last /\ host' \in {host, "killed"} /\ UNCHANGED <<job, val>>
    BY <1>2 DEF TaskRightUp, rest
  <2>2. job[n] = "right" /\ pc[R(n)] = "up" /\ pc' = [pc EXCEPT ![R(n)] = "fin"]
    BY <1>2 DEF TaskRightUp, Goto
  <2>3. R(n) \in Node \ {n}
    BY <2>2, RightOf
  <2>4. Asks(n, pc[n], R(n), "fin") /\ DOMAIN pc' = Node
    BY <2>2, <2>3 DEF Asks, TypeOK
  <2>5. Has(n, job[n], val[n]) /\ Only(n)
    BY <2>1, <2>4, Frame DEF Only
  <2> QED BY <2>2, <2>4, <2>5 DEF Turn, Tasking
<1>3. CASE TaskRightDone(n)
  <2>1. fixed' = fixed /\ last' = last /\ host' \in {host, "killed"} /\ UNCHANGED pc
    BY <1>3 DEF TaskRightDone, rest
  <2>2. job[n] = "right" /\ pc[R(n)] = "done" /\ job' = [job EXCEPT ![n] = "done"]
        /\ val' = [val EXCEPT ![n] = val[R(n)]]
    BY <1>3 DEF TaskRightDone
  <2>3. Has(n, "done", val[R(n)]) /\ Moves(n, pc[n]) /\ Only(n)
    BY <2>1, <2>2, Frame DEF Only
  <2> QED BY <2>2, <2>3 DEF Turn, Tasking
<1>4. CASE TaskFails(n)
  <2>1. fixed' = fixed /\ last' = last /\ host' \in {host, "killed"} /\ UNCHANGED pc
    BY <1>4 DEF TaskFails, rest
  <2>2. ((job[n] = "left" /\ pc[L(n)] = "failed") \/ (job[n] = "right" /\ pc[R(n)] \in {"threw", "failed"}))
        /\ job' = [job EXCEPT ![n] = "failed"] /\ UNCHANGED val
    BY <1>4 DEF TaskFails
  <2>3. Has(n, "failed", val[n]) /\ Moves(n, pc[n]) /\ Only(n)
    BY <2>1, <2>2, Frame DEF Only
  <2> QED BY <2>2, <2>3 DEF Turn, Tasking
<1>5. CASE LeafReads(n)
  <2>1. fixed' = fixed /\ last' = last /\ host' \in {host, "killed"}
    BY <1>5 DEF LeafReads, rest, Running
  <2>2. Working(n) /\ Only(n)
    BY <1>5, <2>1, Frame, Operand
       DEF LeafReads, Working, Only, Kind, Jobs, Stage, Fresh, Running
  <2> QED BY <2>2 DEF Turn
<1>6. CASE LeafSeesEof(n)
  <2>1. fixed' = fixed /\ last' = last /\ host' \in {host, "killed"}
    BY <1>6 DEF LeafSeesEof, rest, Running
  <2>2. Working(n) /\ Only(n)
    BY <1>6, <2>1, Frame, Operand
       DEF LeafSeesEof, Working, Only, Kind, Jobs, Stage, Fresh, Running
  <2> QED BY <2>2 DEF Turn
<1>7. CASE \E k \in {"out", "err"} : LeafWrites(n, k)
  <2>1. fixed' = fixed /\ last' = last /\ host' \in {host, "killed"}
    BY <1>7 DEF LeafWrites, rest, Running
  <2>2. Working(n) /\ Only(n)
    BY <1>7, <2>1, Frame, Operand
       DEF LeafWrites, Working, Only, Kind, Jobs, Stage, Fresh, Running
  <2> QED BY <2>2 DEF Turn
<1>8. CASE \E k \in {"out", "err"} : LeafBreaks(n, k)
  <2>1. fixed' = fixed /\ last' = last /\ host' \in {host, "killed"}
    BY <1>8 DEF LeafBreaks, rest, Running, ProcessEnds
  <2>2. Working(n) /\ Only(n)
    BY <1>8, <2>1, Frame, Operand
       DEF LeafBreaks, Working, Only, Kind, Jobs, Stage, Fresh, Running, ProcessEnds
  <2> QED BY <2>2 DEF Turn
<1>9. CASE ProgramEnds(n)
  <2>1. fixed' = fixed /\ last' = last /\ host' \in {host, "killed"} /\ UNCHANGED pc
    BY <1>9 DEF ProgramEnds, rest, Running, ProcessEnds
  <2>2. job[n] = "run" /\ Op(n) = "native" /\ job' = [job EXCEPT ![n] = "exited"]
        /\ val' = [val EXCEPT ![n] = tree[n].val]
    BY <1>9 DEF ProgramEnds, Running, ProcessEnds
  <2>3. job'[n] = "exited" /\ Moves(n, pc[n]) /\ Only(n)
    BY <2>1, <2>2, Frame DEF Only
  <2> QED BY <2>2, <2>3 DEF Turn, Working
<1>10. CASE FunctionEnds(n)
  <2>1. fixed' = fixed /\ last' = last /\ host' \in {host, "killed"} /\ UNCHANGED pc
    BY <1>10 DEF FunctionEnds, rest, Running
  <2>2. job[n] = "run" /\ Op(n) = "function" /\ val' = [val EXCEPT ![n] = tree[n].val]
        /\ (job' = [job EXCEPT ![n] = "failed"] \/ job' = [job EXCEPT ![n] = "done"])
    BY <1>10 DEF FunctionEnds, Running
  <2>3. \E j \in {"done", "failed"} : Has(n, j, tree[n].val) /\ Moves(n, pc[n]) /\ Only(n)
    BY <2>1, <2>2, Frame DEF Only
  <2> QED BY <2>2, <2>3 DEF Turn, Working
<1>11. CASE BuiltinEnds(n)
  <2>1. fixed' = fixed /\ last' = last /\ host' \in {host, "killed"}
    BY <1>11 DEF BuiltinEnds, rest
  <2>2. job[n] = "run" /\ Op(n) = "builtin" /\ job' = [job EXCEPT ![n] = "done"]
        /\ val' = [val EXCEPT ![n] = tree[n].val] /\ (Goto(n, "up") \/ Goto(n, "threw"))
    BY <1>11 DEF BuiltinEnds, Running
  <2>3. Has(n, "done", tree[n].val) /\ (Moves(n, "up") \/ Moves(n, "threw")) /\ Only(n)
    BY <2>1, <2>2, Frame DEF Only
  <2> QED BY <2>2, <2>3 DEF Turn, Working
<1>12. CASE Reap(n)
  <2>1. fixed' = fixed /\ last' = last /\ host' \in {host, "killed"}
    BY <1>12 DEF Reap, rest
  <2>2. job[n] = "exited" /\ job' = [job EXCEPT ![n] = "reaped"] /\ UNCHANGED <<pc, val>>
    BY <1>12 DEF Reap
  <2>3. Has(n, "reaped", val[n]) /\ Moves(n, pc[n]) /\ Only(n)
    BY <2>1, <2>2, Frame DEF Only
  <2> QED BY <2>2, <2>3 DEF Turn, Working
<1>13. CASE Feed(n)
  <2>1. fixed' = fixed /\ last' = last /\ host' \in {host, "killed"}
    BY <1>13 DEF Feed, rest, Pumping
  <2>2. Working(n) /\ Only(n)
    BY <1>13, <2>1, Frame, Operand DEF Feed, Working, Only, Kind, Jobs, Stage, Fresh, Pumping
  <2> QED BY <2>2 DEF Turn
<1>14. CASE FeedBreaks(n)
  <2>1. fixed' = fixed /\ last' = last /\ host' \in {host, "killed"}
    BY <1>14 DEF FeedBreaks, rest, Pumping
  <2>2. Working(n) /\ Only(n)
    BY <1>14, <2>1, Frame, Operand
       DEF FeedBreaks, Working, Only, Kind, Jobs, Stage, Fresh, Pumping
  <2> QED BY <2>2 DEF Turn
<1>15. CASE Collect(n)
  <2>1. fixed' = fixed /\ last' = last /\ host' \in {host, "killed"}
    BY <1>15 DEF Collect, rest, Pumping
  <2>2. Working(n) /\ Only(n)
    BY <1>15, <2>1, Frame, Operand DEF Collect, Working, Only, Kind, Jobs, Stage, Fresh, Pumping
  <2> QED BY <2>2 DEF Turn
<1>16. CASE PumpDone(n)
  <2>1. fixed' = fixed /\ last' = last /\ host' \in {host, "killed"} /\ UNCHANGED pc
    BY <1>16 DEF PumpDone, rest, Pumping, PumpEnds
  <2>2. job[n] = "run" /\ Op(n) \in Maps /\ UNCHANGED val
        /\ (job' = [job EXCEPT ![n] = "failed"] \/ job' = [job EXCEPT ![n] = "done"])
    BY <1>16 DEF PumpDone, Pumping, PumpEnds
  <2>3. (\E j \in {"done", "failed"} : Has(n, j, val[n])) /\ Moves(n, pc[n]) /\ Only(n)
    BY <2>1, <2>2, Frame DEF Only
  <2> QED BY <2>2, <2>3 DEF Turn, Working
<1>17. CASE PumpFails(n)
  <2>1. fixed' = fixed /\ last' = last /\ host' \in {host, "killed"} /\ UNCHANGED pc
    BY <1>17 DEF PumpFails, rest, Pumping, PumpEnds
  <2>2. job[n] = "run" /\ Op(n) \in Maps /\ UNCHANGED val
        /\ (job' = [job EXCEPT ![n] = "failed"] \/ job' = [job EXCEPT ![n] = "done"])
    BY <1>17 DEF PumpFails, Pumping, PumpEnds
  <2>3. (\E j \in {"done", "failed"} : Has(n, j, val[n])) /\ Moves(n, pc[n]) /\ Only(n)
    BY <2>1, <2>2, Frame DEF Only
  <2> QED BY <2>2, <2>3 DEF Turn, Working
<1> QED BY <1>1, <1>2, <1>3, <1>4, <1>5, <1>6, <1>7, <1>8, <1>9, <1>10, <1>11, <1>12, <1>13,
           <1>14, <1>15, <1>16, <1>17 DEF StartLeaf, StartNode, Task, Leaf, Pump, Finish,
           Destruction

(* finish_run and the destructors.                                         *)
LEMMA FinishTurns ==
    ASSUME TypeOK, ValOK, NEW n \in Node, Kind(n), Fresh(n), Finish(n) \/ Destruction(n)
    PROVE  Turn(n)
<1> USE DEF Binary, UnaryOps, Maps, Redirects, Conditionals, Leaves, Has
<1>1. CASE FinishAtOnce(n)
  <2>1. fixed' = fixed /\ last' = last /\ host' \in {host, "killed"}
    BY <1>1 DEF FinishAtOnce, rest
  <2>2. /\ pc[n] = "fin" /\ Op(n) \in {"bool", "builtin"} /\ Goto(n, "done")
        /\ val' = [val EXCEPT ![n] = tree[n].val] /\ UNCHANGED job
    BY <1>1 DEF FinishAtOnce
  <2>3. Moves(n, "done") /\ Has(n, job[n], tree[n].val) /\ Only(n)
    BY <2>1, <2>2, Frame DEF Only
  <2> QED BY <2>2, <2>3 DEF Turn, Finishing
<1>2. CASE FinishGet(n)
  <2>1. fixed' = fixed /\ last' = last /\ host' \in {host, "killed"}
    BY <1>2 DEF FinishGet, rest
  <2>2. Finishing(n) /\ Only(n)
    BY <1>2, <2>1, Frame, Operand DEF FinishGet, Finishing, Only
  <2> QED BY <2>2 DEF Turn
<1>3. CASE FinishOperand(n)
  <2>1. fixed' = fixed /\ last' = last /\ host' \in {host, "killed"}
    BY <1>3 DEF FinishOperand, rest
  <2>2. Finishing(n) /\ Only(n)
    BY <1>3, <2>1, Frame, Operand DEF FinishOperand, Finishing, Only
  <2> QED BY <2>2 DEF Turn
<1>4. CASE FinishRight(n)
  <2>1. fixed' = fixed /\ last' = last /\ host' \in {host, "killed"}
    BY <1>4 DEF FinishRight, rest
  <2>2. Finishing(n) /\ Only(n)
    BY <1>4, <2>1, Frame, Operand DEF FinishRight, Finishing, Only
  <2> QED BY <2>2 DEF Turn
<1>5. CASE FinishPipe(n)
  <2>1. fixed' = fixed /\ last' = last /\ host' \in {host, "killed"}
    BY <1>5 DEF FinishPipe, rest
  <2>2. /\ pc[n] = "finR" /\ pc[R(n)] = "done" /\ Goto(n, "done")
        /\ val' = [val EXCEPT ![n] = PipeResult(val[L(n)], val[R(n)])] /\ UNCHANGED job
    BY <1>5 DEF FinishPipe
  <2>3. Moves(n, "done") /\ Has(n, job[n], PipeResult(val[L(n)], val[R(n)])) /\ Only(n)
    BY <2>1, <2>2, Frame DEF Only
  <2> QED BY <2>2, <2>3 DEF Turn, Finishing
<1>6. CASE FinishUnary(n)
  <2>1. fixed' = fixed /\ last' = last /\ host' \in {host, "killed"}
    BY <1>6 DEF FinishUnary, rest
  <2>2. /\ pc[n] = "finL" /\ Op(n) \in UnaryOps /\ pc[L(n)] = "done" /\ Goto(n, "done")
        /\ val' = [val EXCEPT ![n] = val[L(n)]] /\ UNCHANGED job
    BY <1>6 DEF FinishUnary
  <2>3. Moves(n, "done") /\ Has(n, job[n], val[L(n)]) /\ Only(n)
    BY <2>1, <2>2, Frame DEF Only
  <2> QED BY <2>2, <2>3 DEF Turn, Finishing
<1>7. CASE FinishThrows(n)
  <2>1. fixed' = fixed /\ last' = last /\ host' \in {host, "killed"}
    BY <1>7 DEF FinishThrows, rest
  <2>2. Finishing(n) /\ Only(n)
    BY <1>7, <2>1, Frame, Operand DEF FinishThrows, Finishing, Only, Kind, Jobs, Stage, Fresh
  <2> QED BY <2>2 DEF Turn
<1>8. CASE Destroy(n)
  <2>1. fixed' = fixed /\ last' = last /\ host' \in {host, "killed"}
    BY <1>8 DEF Destroy, rest
  <2>2. Dying(n) /\ Only(n)
    BY <1>8, <2>1, Frame, Operand DEF Destroy, Dying, Only
  <2> QED BY <2>2 DEF Turn
<1>9. CASE DestroyLeft(n)
  <2>1. fixed' = fixed /\ last' = last /\ host' \in {host, "killed"}
    BY <1>9 DEF DestroyLeft, rest
  <2>2. Dying(n) /\ Only(n)
    BY <1>9, <2>1, Frame, Operand DEF DestroyLeft, Dying, Only, Kind, Jobs, Stage, Fresh
  <2> QED BY <2>2 DEF Turn
<1>10. CASE OperandsGone(n)
  <2>1. fixed' = fixed /\ last' = last /\ host' \in {host, "killed"}
    BY <1>10 DEF OperandsGone, rest
  <2>2. Dying(n) /\ Only(n)
    BY <1>10, <2>1, Frame, Operand DEF OperandsGone, Dying, Only, Kind, Jobs, Stage, Fresh
  <2> QED BY <2>2 DEF Turn
<1>11. CASE Join(n)
  <2>1. fixed' = fixed /\ last' = last /\ host' \in {host, "killed"}
    BY <1>11 DEF Join, rest
  <2>2. Dying(n) /\ Only(n)
    BY <1>11, <2>1, Frame, Operand DEF Join, Dying, Only, Kind, Jobs, Stage, Fresh
  <2> QED BY <2>2 DEF Turn
<1> QED BY <1>1, <1>2, <1>3, <1>4, <1>5, <1>6, <1>7, <1>8, <1>9, <1>10, <1>11
           DEF StartLeaf, StartNode, Task, Leaf, Pump, Finish, Destruction

-----------------------------------------------------------------------------
(***************************************************************************)
(* What holds of a node and its operands.                                  *)
(***************************************************************************)

(* An operand is on its way only while its operator waits for it.          *)
Calls(n) ==
    /\ L(n) # 0 /\ pc[L(n)] \in Busy => pc[n] \in {"left", "finL", "dtorL"} \/ job[n] = "left"
    /\ R(n) # 0 /\ pc[R(n)] \in Busy => pc[n] \in {"right", "finR", "dtorR"} \/ job[n] = "right"

(* What is up has operands that are up.                                    *)
Up(n) ==
    pc[n] \in Past \cup {"tail", "right"} =>
        /\ L(n) # 0 => pc[L(n)] \in Past
        /\ Op(n) = "pipe" /\ pc[n] # "right" => pc[R(n)] \in Past

(* What finish_run has done, and what it has made of the values.           *)
TaskDone(n) ==
    Op(n) \in Conditionals /\ pc[n] \in Past =>
        /\ job[n] # "none"
        /\ job[n] \in {"right", "done"} => pc[L(n)] = "done"
        /\ job[n] = "right" => StartRight(Op(n), val[L(n)])
        /\ job[n] = "done" /\ StartRight(Op(n), val[L(n)]) =>
                pc[R(n)] = "done" /\ val[n] = val[R(n)]
        /\ job[n] = "done" /\ ~StartRight(Op(n), val[L(n)]) =>
                pc[R(n)] = "idle" /\ val[n] = val[L(n)]

Done(n) ==
    /\ pc[n] \in {"finR", "done"} /\ L(n) # 0 => pc[L(n)] = "done"
    /\ Op(n) \in Maps /\ pc[n] \in {"finL", "done"} => job[n] \in {"done", "failed"}
    /\ Op(n) = "function" /\ pc[n] \in Past =>
            job[n] # "none" /\ (job[n] = "done" => val[n] = tree[n].val)
    /\ pc[n] = "done" =>
        /\ Op(n) = "native" => job[n] = "reaped"
        /\ Op(n) \in Conditionals \cup {"function"} => job[n] = "done"
        /\ Op(n) \in {"bool", "builtin"} => val[n] = tree[n].val
        /\ Op(n) \in UnaryOps => val[n] = val[L(n)]
        /\ Op(n) = "pipe" => pc[R(n)] = "done" /\ val[n] = PipeResult(val[L(n)], val[R(n)])

(* What has been destroyed.                                                *)
Gone(n) ==
    /\ Op(n) \in Conditionals /\ pc[n] \in {"dtorR", "dtorL"} => Joined(n)
    /\ pc[n] \in {"dtorL", "gone"} /\ R(n) # 0 => pc[R(n)] = "gone"
    /\ pc[n] \in {"join", "gone"} /\ L(n) # 0 => pc[L(n)] = "gone"
    /\ pc[n] = "gone" => Joined(n)

Stands(n) == Kind(n) /\ Calls(n) /\ Up(n) /\ TaskDone(n) /\ Done(n) /\ Gone(n)
Local == ValOK /\ \A n \in Node : Stands(n)

(* What is at rest, or done, is joined.                                    *)
LEMMA DoneJoined ==
    ASSUME TypeOK, NEW n \in Node, Stands(n), pc[n] = "done"
    PROVE  Joined(n)
<1>1. Op(n) \in {"bool"} \cup Leaves \cup UnaryOps \cup Binary
  BY Tree
<1>2. Jobs(n) /\ Done(n)
  BY DEF Stands, Kind
<1>3. CASE Op(n) \in {"bool", "pipe"} \cup Redirects
  BY <1>2, <1>3 DEF Joined, Jobs
<1>4. CASE Op(n) \in Maps
  BY <1>2, <1>4 DEF Joined, Done
<1>5. CASE Op(n) \in {"native", "function"} \cup Conditionals
  BY <1>2, <1>5 DEF Joined, Done
<1>6. CASE Op(n) = "builtin"
  BY <1>2, <1>6 DEF Joined, Jobs, Past
<1> QED BY <1>1, <1>3, <1>4, <1>5, <1>6 DEF Leaves, UnaryOps, Binary

(* What n does to itself, when it has an operator.                         *)
LEMMA OwnMove ==
    ASSUME TypeOK, NEW n \in Node, Stands(n), Fresh(n), Turn(n), n # Root
    PROVE  /\ pc[n] \in Past => pc'[n] \in Past
           /\ pc[n] \notin Busy => pc'[n] = pc[n]
           /\ pc[n] = "done" => val'[n] = val[n] /\ job'[n] = job[n]
           /\ Joined(n) /\ pc[n] # "start" => job'[n] = job[n] \/ (job[n] = "none" /\ pc[n] = "left")
<1>1. Kind(n) /\ ~Hosting(n)
  BY DEF Stands, Hosting
<1>2. pc[n] = "done" => Joined(n)
  BY DoneJoined
<1>3. pc[n] \in {"idle", "threw", "gone"} \cup Busy \cup Past
  BY <1>1 DEF Kind, Stage
<1>4. CASE Leaving(n)
  BY <1>1, <1>2, <1>4 DEF Leaving, Moves, Has, Past, Busy, Joined
<1>5. CASE Starting(n)
  BY <1>1, <1>2, <1>5 DEF Starting, Moves, Asks, Has, Past, Busy, Joined, Fresh
<1>6. CASE Tasking(n)
  BY <1>1, <1>2, <1>6 DEF Tasking, Moves, Asks, Has, Past, Busy, Joined
<1>7. CASE Working(n)
  <2>1. job[n] \in {"run", "exited"} /\ ~Joined(n)
    BY <1>7 DEF Working, Joined
  <2>2. Op(n) = "builtin" /\ job[n] = "run" => pc[n] = "runx"
    BY <1>1 DEF Kind, Jobs
  <2>3. pc'[n] = pc[n] \/ (Op(n) = "builtin" /\ job[n] = "run")
    BY <1>7 DEF Working, Moves
  <2> QED BY <1>2, <2>1, <2>2, <2>3 DEF Past, Busy
<1>8. CASE Finishing(n)
  BY <1>1, <1>2, <1>8 DEF Finishing, Moves, Asks, Has, Past, Busy, Joined
<1>9. CASE Dying(n)
  BY <1>1, <1>2, <1>9 DEF Dying, Moves, Asks, Has, Past, Busy, Joined
<1> QED BY <1>1, <1>4, <1>5, <1>6, <1>7, <1>8, <1>9 DEF Turn

(* What n does to an operand.                                              *)
LEMMA Called ==
    ASSUME TypeOK, NEW n \in Node, Stands(n), Fresh(n), InTurn(n), Turn(n),
           NEW c \in {L(n), R(n)}, c # 0, pc'[c] # pc[c]
    PROVE  \/ pc'[c] = "start" /\ pc[c] = "idle"
           \/ pc'[c] = "fin" /\ pc[c] \in Past \ Busy
           \/ pc'[c] = "dtor" /\ pc[c] \notin Busy /\ Dying(n)
<1>1. c \in Node \ {n} /\ L(n) # 0 /\ L(n) # R(n)
  BY Operand, Tree
<1>2. Kind(n) /\ Calls(n) /\ Up(n)
  BY DEF Stands
<1>3. CASE Leaving(n) \/ Working(n) \/ Hosting(n)
  BY <1>1, <1>3 DEF Leaving, Working, Hosting, Moves
<1>4. CASE Starting(n)
  <2>1. (pc'[c] = "start" /\ pc[c] = "idle") \/ (pc'[c] = "fin" /\ pc[c] = "up")
    <3>1. \/ pc[n] = "start" /\ Asks(n, "left", L(n), "start")
          \/ pc[n] = "left" /\ Op(n) = "pipe" /\ Asks(n, "right", R(n), "start")
          \/ pc[L(n)] = "up" /\ Asks(n, "up", L(n), "fin")
      BY <1>1, <1>4 DEF Starting, Moves
    <3>2. pc[n] = "start" => pc[L(n)] = "idle"
      BY <1>1, Operand DEF InTurn, Waits
    <3>3. pc[n] = "left" /\ Op(n) = "pipe" => pc[R(n)] = "idle"
      BY <1>1, Operand DEF InTurn, Waits, Binary
    <3> QED BY <1>1, <3>1, <3>2, <3>3 DEF Asks
  <2> QED BY <2>1 DEF Past, Busy
<1>5. CASE Tasking(n)
  <2>1. \/ job[n] = "left" /\ Asks(n, pc[n], R(n), "start")
        \/ pc[R(n)] = "up" /\ Asks(n, pc[n], R(n), "fin")
    BY <1>1, <1>5 DEF Tasking, Moves
  <2>2. job[n] = "left" => pc[R(n)] = "idle"
    BY <1>1, Operand DEF InTurn, Waits, Fresh, Binary
  <2> QED BY <1>1, <2>1, <2>2 DEF Asks, Past, Busy
<1>6. CASE Finishing(n)
  <2>1. \/ pc[n] = "fin" /\ Op(n) \in UnaryOps \cup {"pipe"} /\ Asks(n, "finL", L(n), "fin") /\ c = L(n)
        \/ pc[n] = "finL" /\ Op(n) = "pipe" /\ Asks(n, "finR", R(n), "fin") /\ c = R(n)
    BY <1>1, <1>6 DEF Finishing, Moves, Asks
  <2>2. job[n] \notin {"left", "right"}
    BY <1>2, <2>1 DEF Kind, Jobs, UnaryOps
  <2>3. pc[c] \in Past
    BY <1>1, <1>2, <2>1 DEF Up, Past
  <2>4. pc[c] \notin Busy
    BY <1>1, <1>2, <2>1, <2>2 DEF Calls
  <2> QED BY <1>1, <2>1, <2>3, <2>4 DEF Asks
<1>7. CASE Dying(n)
  <2>1. /\ pc[n] \in {"dtor", "dtorR"} /\ pc'[c] = "dtor"
        /\ pc[n] = "dtor" \/ c = L(n)
        /\ job[n] \notin {"left", "right"}
    <3>1. pc[n] = "dtorR" => Op(n) \in Binary
      BY <1>2 DEF Kind, Stage
    <3>2. pc[n] = "dtorR" => job[n] \notin {"left", "right"}
      BY <1>2, <3>1 DEF Stands, Gone, Kind, Jobs, Joined, Binary
    <3>3. Op(n) \in {"pipe"} \cup UnaryOps => job[n] \notin {"left", "right"}
      BY <1>2 DEF Kind, Jobs, UnaryOps
    <3> QED BY <1>1, <1>7, <3>2, <3>3 DEF Dying, Moves, Asks, Joined
  <2>2. pc[c] \notin Busy
    BY <1>1, <1>2, <2>1 DEF Calls
  <2> QED BY <1>7, <2>1, <2>2
<1> QED BY <1>3, <1>4, <1>5, <1>6, <1>7 DEF Turn

-----------------------------------------------------------------------------
(***************************************************************************)
(* A step keeps this of the node that makes it.                            *)
(***************************************************************************)

(* The expression does not change.                                         *)
LEMMA Same ==
    ASSUME fixed' = fixed
    PROVE  /\ tree' = tree /\ limit' = limit /\ Node' = Node
           /\ \A m \in Node : Op(m)' = Op(m) /\ L(m)' = L(m) /\ R(m)' = R(m)
BY DEF fixed, Node, Op, L, R

(* What n has of its operands when it acts.                                *)
LEMMA Awaits ==
    ASSUME TypeOK, NEW n \in Node, Fresh(n), InTurn(n)
    PROVE  /\ pc[n] \in {"idle", "start"} /\ L(n) # 0 => pc[L(n)] = "idle"
           /\ pc[n] \in {"idle", "start"} /\ R(n) # 0 => pc[R(n)] = "idle"
           /\ pc[n] = "left" \/ job[n] = "left" => (R(n) # 0 => pc[R(n)] = "idle")
           /\ pc[n] \in {"idle", "start", "left"} => job[n] = "none"
<1>1. /\ L(n) # 0 => L(n) \in Node
      /\ R(n) # 0 => R(n) \in Node /\ Op(n) \in Conditionals \cup {"pipe"}
  BY Tree DEF Binary
<1> QED BY <1>1 DEF Fresh, InTurn, Waits

(* n itself.                                                               *)
LEMMA OwnStands ==
    ASSUME TypeOK, NEW n \in Node, Stands(n), Fresh(n), InTurn(n), Turn(n)
    PROVE  Stands(n)'
<1> USE DEF Binary, UnaryOps, Maps, Redirects, Conditionals, Leaves, Kind, Stage, Jobs,
            Joined, Past, Busy, Moves, Asks, Has
<1>1. /\ tree' = tree /\ Node' = Node /\ Op(n)' = Op(n) /\ L(n)' = L(n) /\ R(n)' = R(n)
      /\ \A m \in Node \ {n} : job'[m] = job[m] /\ val'[m] = val[m]
  BY Same DEF Turn, Only
<1>2. Kind(n) /\ Calls(n) /\ Up(n) /\ TaskDone(n) /\ Done(n) /\ Gone(n)
  BY DEF Stands
<1>3. /\ L(n) # 0 => L(n) \in Node \ {n} /\ Op(n) \in Binary \cup UnaryOps
      /\ R(n) # 0 => R(n) \in Node \ {n} /\ R(n) # L(n)
      /\ R(n) # 0 <=> Op(n) \in Binary
      /\ L(n) = 0 <=> Op(n) \in {"bool"} \cup Leaves
      /\ Op(n) \in {"bool"} \cup Leaves \cup UnaryOps \cup Binary
  BY Operand, Tree
<1>4. /\ pc[n] \in {"idle", "start"} /\ L(n) # 0 => pc[L(n)] = "idle"
      /\ pc[n] \in {"idle", "start"} /\ R(n) # 0 => pc[R(n)] = "idle"
      /\ pc[n] = "left" \/ job[n] = "left" => (R(n) # 0 => pc[R(n)] = "idle")
      /\ pc[n] \in {"idle", "start", "left"} => job[n] = "none"
  BY Awaits
<1>5. CASE Leaving(n)
  <2>1. Kind(n)'
    BY <1>1, <1>2, <1>3, <1>4, <1>5 DEF Leaving
  <2>2. Calls(n)'
    BY <1>1, <1>2, <1>3, <1>4, <1>5 DEF Leaving, Calls
  <2>3. Up(n)'
    BY <1>1, <1>2, <1>3, <1>4, <1>5 DEF Leaving, Up
  <2>4. TaskDone(n)'
    BY <1>1, <1>2, <1>3, <1>4, <1>5 DEF Leaving, TaskDone
  <2>5. Done(n)'
    BY <1>1, <1>2, <1>3, <1>4, <1>5 DEF Leaving, Done, TaskDone
  <2>6. Gone(n)'
    BY <1>1, <1>2, <1>3, <1>4, <1>5 DEF Leaving, Gone
  <2> QED BY <2>1, <2>2, <2>3, <2>4, <2>5, <2>6 DEF Stands
<1>6. CASE Starting(n)
  <2>1. Kind(n)'
    BY <1>1, <1>2, <1>3, <1>4, <1>6 DEF Starting
  <2>2. Calls(n)'
    BY <1>1, <1>2, <1>3, <1>4, <1>6 DEF Starting, Calls
  <2>3. Up(n)'
    BY <1>1, <1>2, <1>3, <1>4, <1>6 DEF Starting, Up
  <2>4. TaskDone(n)'
    BY <1>1, <1>2, <1>3, <1>4, <1>6 DEF Starting, TaskDone
  <2>5. Done(n)'
    BY <1>1, <1>2, <1>3, <1>4, <1>6 DEF Starting, Done, TaskDone
  <2>6. Gone(n)'
    BY <1>1, <1>2, <1>3, <1>4, <1>6 DEF Starting, Gone
  <2> QED BY <2>1, <2>2, <2>3, <2>4, <2>5, <2>6 DEF Stands
<1>7. CASE Tasking(n)
  <2>1. Kind(n)'
    BY <1>1, <1>2, <1>3, <1>4, <1>7 DEF Tasking
  <2>2. Calls(n)'
    BY <1>1, <1>2, <1>3, <1>4, <1>7 DEF Tasking, Calls
  <2>3. Up(n)'
    BY <1>1, <1>2, <1>3, <1>4, <1>7 DEF Tasking, Up
  <2>4. TaskDone(n)'
    BY <1>1, <1>2, <1>3, <1>4, <1>7 DEF Tasking, TaskDone
  <2>5. Done(n)'
    BY <1>1, <1>2, <1>3, <1>4, <1>7 DEF Tasking, Done, TaskDone
  <2>6. Gone(n)'
    BY <1>1, <1>2, <1>3, <1>4, <1>7 DEF Tasking, Gone
  <2> QED BY <2>1, <2>2, <2>3, <2>4, <2>5, <2>6 DEF Stands
<1>8. CASE Working(n)
  <2>1. Kind(n)'
    BY <1>1, <1>2, <1>3, <1>4, <1>8 DEF Working
  <2>2. Calls(n)'
    BY <1>1, <1>2, <1>3, <1>4, <1>8 DEF Working, Calls
  <2>3. Up(n)'
    BY <1>1, <1>2, <1>3, <1>4, <1>8 DEF Working, Up
  <2>4. TaskDone(n)'
    BY <1>1, <1>2, <1>3, <1>4, <1>8 DEF Working, TaskDone
  <2>5. Done(n)'
    BY <1>1, <1>2, <1>3, <1>4, <1>8 DEF Working, Done, TaskDone
  <2>6. Gone(n)'
    BY <1>1, <1>2, <1>3, <1>4, <1>8 DEF Working, Gone
  <2> QED BY <2>1, <2>2, <2>3, <2>4, <2>5, <2>6 DEF Stands
<1>9. CASE Finishing(n)
  <2>1. Kind(n)'
    BY <1>1, <1>2, <1>3, <1>4, <1>9 DEF Finishing
  <2>2. Calls(n)'
    BY <1>1, <1>2, <1>3, <1>4, <1>9 DEF Finishing, Calls
  <2>3. Up(n)'
    BY <1>1, <1>2, <1>3, <1>4, <1>9 DEF Finishing, Up
  <2>4. TaskDone(n)'
    BY <1>1, <1>2, <1>3, <1>4, <1>9 DEF Finishing, TaskDone
  <2>5. Done(n)'
    BY <1>1, <1>2, <1>3, <1>4, <1>9 DEF Finishing, Done, TaskDone
  <2>6. Gone(n)'
    BY <1>1, <1>2, <1>3, <1>4, <1>9 DEF Finishing, Gone
  <2> QED BY <2>1, <2>2, <2>3, <2>4, <2>5, <2>6 DEF Stands
<1>10. CASE Dying(n)
  <2>1. Kind(n)'
    BY <1>1, <1>2, <1>3, <1>4, <1>10 DEF Dying
  <2>2. Calls(n)'
    BY <1>1, <1>2, <1>3, <1>4, <1>10 DEF Dying, Calls
  <2>3. Up(n)'
    BY <1>1, <1>2, <1>3, <1>4, <1>10 DEF Dying, Up
  <2>4. TaskDone(n)'
    BY <1>1, <1>2, <1>3, <1>4, <1>10 DEF Dying, TaskDone
  <2>5. Done(n)'
    BY <1>1, <1>2, <1>3, <1>4, <1>10 DEF Dying, Done, TaskDone
  <2>6. Gone(n)'
    BY <1>1, <1>2, <1>3, <1>4, <1>10 DEF Dying, Gone
  <2> QED BY <2>1, <2>2, <2>3, <2>4, <2>5, <2>6 DEF Stands
<1>11. CASE Hosting(n)
  <2>1. Kind(n)'
    BY <1>1, <1>2, <1>3, <1>4, <1>11 DEF Hosting
  <2>2. Calls(n)'
    BY <1>1, <1>2, <1>3, <1>4, <1>11 DEF Hosting, Calls
  <2>3. Up(n)'
    BY <1>1, <1>2, <1>3, <1>4, <1>11 DEF Hosting, Up
  <2>4. TaskDone(n)'
    BY <1>1, <1>2, <1>3, <1>4, <1>11 DEF Hosting, TaskDone
  <2>5. Done(n)'
    BY <1>1, <1>2, <1>3, <1>4, <1>11 DEF Hosting, Done, TaskDone
  <2>6. Gone(n)'
    BY <1>1, <1>2, <1>3, <1>4, <1>11 DEF Hosting, Gone
  <2> QED BY <2>1, <2>2, <2>3, <2>4, <2>5, <2>6 DEF Stands
<1> QED BY <1>5, <1>6, <1>7, <1>8, <1>9, <1>10, <1>11 DEF Turn

-----------------------------------------------------------------------------
(***************************************************************************)
(* A step keeps this of the other nodes.                                   *)
(***************************************************************************)

(* What a turn of n leaves alone.                                          *)
LEMMA Elsewhere ==
    ASSUME NEW n \in Node, Turn(n)
    PROVE  /\ \A m \in Node \ {n} : job'[m] = job[m] /\ val'[m] = val[m]
           /\ \A m \in Node \ {n, L(n), R(n)} : pc'[m] = pc[m]
BY DEF Turn, Only, Leaving, Starting, Tasking, Working, Finishing, Dying, Hosting, Moves, Asks

(* Operators have smaller numbers, and no node is the operand of two.      *)
LEMMA Order ==
    ASSUME TypeOK, NEW n \in Node
    PROVE  /\ n # L(n) /\ n # R(n) /\ n # 0 /\ L(n) # Root /\ R(n) # Root
           /\ \A m \in Node \ {n} : \A c \in {L(n), R(n)} \cap {L(m), R(m)} : c = 0
           /\ \A m \in Node : n \in {L(m), R(m)} => m # n /\ m \notin {L(n), R(n)} /\ n # Root
<1>1. /\ Node \subseteq Nat /\ 0 \notin Node
      /\ \A m \in Node : /\ L(m) # 0 => L(m) \in Node /\ L(m) > m
                         /\ R(m) # 0 => R(m) \in Node /\ R(m) > m
  BY Tree
<1>2. n \in Nat /\ n # 0 /\ Root = 1
  BY <1>1 DEF Root
<1>3. \A m \in Node \ {n} : \A c \in {L(n), R(n)} \cap {L(m), R(m)} : c = 0
  <2> SUFFICES ASSUME NEW m \in Node \ {n}, NEW c \in {L(n), R(n)} \cap {L(m), R(m)}, c # 0 PROVE FALSE
    OBVIOUS
  <2>1. c \in Node
    BY <1>1
  <2>2. {L(n), R(n)} \cap {L(m), R(m)} \cap Node = {}
    BY Family
  <2> QED BY <2>1, <2>2
<1>4. \A m \in Node : n \in {L(m), R(m)} => m # n /\ m \notin {L(n), R(n)} /\ n # Root
  <2> SUFFICES ASSUME NEW m \in Node, n \in {L(m), R(m)} PROVE m # n /\ m \notin {L(n), R(n)} /\ n # Root
    OBVIOUS
  <2>1. m \in Nat /\ m < n /\ m # 0
    BY <1>1, <1>2
  <2>2. m # L(n) /\ m # R(n)
    BY <1>1, <1>2, <2>1
  <2> QED BY <1>2, <2>1, <2>2
<1>5. n # L(n) /\ n # R(n) /\ L(n) # Root /\ R(n) # Root
  BY <1>1, <1>2
<1> QED BY <1>2, <1>3, <1>4, <1>5

(* The operator of n.                                                      *)
LEMMA OperatorStands ==
    ASSUME TypeOK, NEW n \in Node, Stands(n), Fresh(n), Turn(n),
           NEW m \in Node, Stands(m), n \in {L(m), R(m)}
    PROVE  Stands(m)'
<1>1. /\ m # n /\ m \notin {L(n), R(n)} /\ n # Root /\ n # 0
      /\ \A c \in {L(n), R(n)} \cap {L(m), R(m)} : c = 0
  BY Order
<1>2. /\ tree' = tree /\ Node' = Node /\ Op(m)' = Op(m) /\ L(m)' = L(m) /\ R(m)' = R(m)
  BY Same DEF Turn, Only
<1>3. job'[m] = job[m] /\ val'[m] = val[m] /\ pc'[m] = pc[m]
  BY <1>1, Elsewhere
<1>4. /\ pc[n] \in Past => pc'[n] \in Past
      /\ pc[n] \notin Busy => pc'[n] = pc[n]
      /\ pc[n] = "done" => val'[n] = val[n]
  BY <1>1, OwnMove
<1>5. ASSUME NEW c \in {L(m), R(m)}, c # 0
      PROVE  /\ pc[c] \in Past => pc'[c] \in Past
             /\ pc[c] \notin Busy => pc'[c] = pc[c]
             /\ pc[c] = "done" => val'[c] = val[c]
  <2>1. c \in Node
    BY <1>5, Tree
  <2>2. c # n => pc'[c] = pc[c] /\ val'[c] = val[c]
    BY <1>1, <1>5, <2>1, Elsewhere
  <2> QED BY <1>4, <2>2
<1>6. /\ L(m) = 0 <=> Op(m) \in {"bool"} \cup Leaves
      /\ R(m) = 0 <=> Op(m) \notin Binary
      /\ Op(m) \in {"bool"} \cup Leaves \cup UnaryOps \cup Binary
  BY Tree
<1>7. Kind(m)' /\ Calls(m)' /\ Up(m)'
  BY <1>2, <1>3, <1>5, <1>6 DEF Stands, Kind, Stage, Jobs, Calls, Up, Busy, Past, Binary
<1>8. TaskDone(m)'
  BY <1>2, <1>3, <1>5, <1>6
     DEF Stands, TaskDone, Busy, Past, Binary, UnaryOps, Conditionals, Maps, Redirects, Leaves
<1>9. Done(m)'
  BY <1>2, <1>3, <1>5, <1>6
     DEF Stands, Done, Busy, Past, Binary, UnaryOps, Conditionals, Maps, Redirects, Leaves
<1>10. Gone(m)'
  BY <1>2, <1>3, <1>5, <1>6 DEF Stands, Gone, Busy, Past, Joined
<1> QED BY <1>7, <1>8, <1>9, <1>10 DEF Stands

(* An operand of n.                                                        *)
LEMMA OperandStands ==
    ASSUME TypeOK, NEW n \in Node, Stands(n), Fresh(n), InTurn(n), Turn(n),
           NEW m \in Node, Stands(m), m \in {L(n), R(n)}
    PROVE  Stands(m)'
<1>1. /\ m # n /\ n \notin {L(m), R(m)} /\ m # 0
      /\ \A c \in {L(n), R(n)} \cap {L(m), R(m)} : c = 0
  BY Order
<1>2. /\ tree' = tree /\ Node' = Node /\ Op(m)' = Op(m) /\ L(m)' = L(m) /\ R(m)' = R(m)
  BY Same DEF Turn, Only
<1>3. job'[m] = job[m] /\ val'[m] = val[m]
  BY <1>1, Elsewhere
<1>4. ASSUME NEW c \in {L(m), R(m)}, c # 0
      PROVE  pc'[c] = pc[c] /\ val'[c] = val[c]
  <2>1. c \in Node
    BY <1>4, Tree
  <2> QED BY <1>1, <1>4, <2>1, Elsewhere
<1>5. \/ pc'[m] = pc[m]
      \/ pc'[m] = "start" /\ pc[m] = "idle"
      \/ pc'[m] = "fin" /\ pc[m] \in Past \ Busy
      \/ pc'[m] = "dtor" /\ pc[m] \notin Busy
  BY <1>1, Called
<1>6. /\ L(m) = 0 <=> Op(m) \in {"bool"} \cup Leaves
      /\ R(m) = 0 <=> Op(m) \notin Binary
      /\ Op(m) \in {"bool"} \cup Leaves \cup UnaryOps \cup Binary
  BY Tree
<1>7. Kind(m)'
  BY <1>2, <1>3, <1>5 DEF Stands, Kind, Stage, Jobs, Busy, Past
<1>8. Calls(m)' /\ Up(m)'
  BY <1>2, <1>3, <1>4, <1>5, <1>6 DEF Stands, Calls, Up, Busy, Past, Binary
<1>9. TaskDone(m)'
  BY <1>2, <1>3, <1>4, <1>5, <1>6
     DEF Stands, TaskDone, Busy, Past, Binary, UnaryOps, Conditionals, Maps, Redirects, Leaves
<1>10. Done(m)'
  BY <1>2, <1>3, <1>4, <1>5, <1>6
     DEF Stands, Done, Busy, Past, Binary, UnaryOps, Conditionals, Maps, Redirects, Leaves
<1>11. Gone(m)'
  BY <1>2, <1>3, <1>4, <1>5, <1>6 DEF Stands, Gone, Busy, Past, Joined
<1> QED BY <1>7, <1>8, <1>9, <1>10, <1>11 DEF Stands

(* Every node stands as it should after a turn of one.                     *)
LEMMA LocalStep ==
    ASSUME TypeOK, Local, NEW n \in Node, Fresh(n), InTurn(n), Turn(n)
    PROVE  Local'
<1>1. Node' = Node /\ ValOK'
  BY Same DEF Turn, Only, ValOK
<1> SUFFICES ASSUME NEW m \in Node PROVE Stands(m)'
  BY <1>1 DEF Local
<1>2. Stands(n) /\ Stands(m)
  BY DEF Local
<1>3. CASE m = n
  BY <1>2, <1>3, OwnStands
<1>4. CASE n \in {L(m), R(m)}
  BY <1>2, <1>4, OperatorStands
<1>5. CASE m \in {L(n), R(n)}
  BY <1>2, <1>5, OperandStands
<1>6. CASE m # n /\ n \notin {L(m), R(m)} /\ m \notin {L(n), R(n)}
  <2>1. /\ tree' = tree /\ Op(m)' = Op(m) /\ L(m)' = L(m) /\ R(m)' = R(m)
    BY Same DEF Turn, Only
  <2>2. job'[m] = job[m] /\ val'[m] = val[m] /\ pc'[m] = pc[m]
    BY <1>6, Elsewhere
  <2>3. ASSUME NEW c \in {L(m), R(m)}, c # 0 PROVE pc'[c] = pc[c] /\ val'[c] = val[c]
    <3>1. c \in Node
      BY <2>3, Tree
    <3>2. c # n /\ c # L(n) /\ c # R(n)
      BY <1>6, <2>3, Order
    <3> QED BY <3>1, <3>2, Elsewhere
  <2>4. /\ L(m) = 0 <=> Op(m) \in {"bool"} \cup Leaves
        /\ R(m) = 0 <=> Op(m) \notin Binary
        /\ Op(m) \in {"bool"} \cup Leaves \cup UnaryOps \cup Binary
    BY Tree
  <2>5. Kind(m)' /\ Calls(m)' /\ Up(m)'
    BY <1>2, <2>1, <2>2, <2>3, <2>4 DEF Stands, Kind, Stage, Jobs, Calls, Up, Binary
  <2>6. TaskDone(m)'
    BY <1>2, <2>1, <2>2, <2>3, <2>4
       DEF Stands, TaskDone, Binary, UnaryOps, Conditionals, Maps, Redirects, Leaves
  <2>7. Done(m)'
    BY <1>2, <2>1, <2>2, <2>3, <2>4
       DEF Stands, Done, Binary, UnaryOps, Conditionals, Maps, Redirects, Leaves
  <2>8. Gone(m)'
    BY <1>2, <2>1, <2>2, <2>3, <2>4 DEF Stands, Gone, Joined
  <2> QED BY <2>5, <2>6, <2>7, <2>8 DEF Stands
<1> QED BY <1>3, <1>4, <1>5, <1>6

-----------------------------------------------------------------------------
(***************************************************************************)
(* The wrappers of descriptors.                                            *)
(***************************************************************************)

(* Which wrappers a node has at which time.                                *)
Holds(n) ==
    \A s \in Slots : own[n][s] # -1 =>
        /\ s \in {"p0", "p1"} => Op(n) \in Maps \cup {"pipe"}
        /\ s \in {"p0", "p1"} /\ pc[n] \notin {"left", "right", "tail"} =>
                Op(n) \in Maps /\ s = PumpEnd(n) /\ job[n] = "run"
        /\ s = "fd" => Op(n) \in Redirects /\ pc[n] \notin {"done", "failed", "dtorL", "gone"}
        /\ s \in Streams => Op(n) = "function" /\ pc[n] \notin {"done", "failed", "gone"}
        /\ Op(n) = "inmap" /\ pc[n] = "tail" /\ s = "p1" => job[n] = "run"

IsTable == fdt = [fd \in Fd |-> fdt[fd]]

(* What a step of n does to its wrappers.                                  *)
Keeps(n) == \A s \in Slots : own'[n][s] = own[n][s]
(* n closes the wrappers S.                                                *)
Shuts(n, S) == \A s \in Slots : own'[n][s] = IF s \in S THEN -1 ELSE own[n][s]
(* n opens no wrappers but S.                                              *)
Opens(n, S) == \A s \in Slots : s \notin S => own'[n][s] = own[n][s]

(* What the ways to open and close wrappers do to those of n.              *)
LEMMA Wrappers ==
    ASSUME TypeOK, IsTable, NEW n \in Node, fixed' = fixed
    PROVE  /\ UNCHANGED table => Keeps(n) /\ IsTable'
           /\ \A S : Close(n, S) => Shuts(n, S) /\ IsTable'
           /\ OpenPipe(n) => Opens(n, {"p0", "p1"}) /\ IsTable'
<1>1. Fd' = Fd
  BY DEF fixed, Fd
<1>2. UNCHANGED table => Keeps(n) /\ IsTable'
  BY <1>1 DEF table, Keeps, IsTable
<1>3. ASSUME NEW S, Close(n, S) PROVE Shuts(n, S) /\ IsTable'
  <2>1. Shuts(n, S)
    BY <1>3 DEF Close, Shuts, TypeOK
  <2>2. IsTable'
    BY <1>1, <1>3 DEF Close, IsTable
  <2> QED BY <2>1, <2>2
<1>4. ASSUME OpenPipe(n) PROVE Opens(n, {"p0", "p1"}) /\ IsTable'
  <2>1. Opens(n, {"p0", "p1"})
    BY <1>4 DEF OpenPipe, Opens, TypeOK
  <2>2. IsTable'
    BY <1>1, <1>4 DEF OpenPipe, IsTable
  <2> QED BY <2>1, <2>2
<1> QED BY <1>2, <1>3, <1>4

(* A step keeps to it, and wrappers are filled only by start_run.          *)
Wraps(n) ==
    /\ Holds(n)' /\ IsTable'
    /\ pc[n] # "start" => \A s \in Slots : own'[n][s] \in {own[n][s], -1}

(* start_run of the leaves.                                                *)
LEMMA LeafWraps ==
    ASSUME TypeOK, IsTable, ValOK, NEW n \in Node, Stands(n), Holds(n), Fresh(n), StartLeaf(n)
    PROVE  Wraps(n)
<1> USE DEF Binary, UnaryOps, Maps, Redirects, Conditionals, Leaves, Kind, Stage, Jobs,
            Past, Moves, Asks, Joined, Running, Pumping, Done
<1>1. Kind(n) /\ Done(n)
  BY DEF Stands
<1>2. /\ \A s \in Slots : s \in {"p0", "p1", "fd"} \cup Streams
      /\ "p0" \notin Streams /\ "p1" \notin Streams /\ "fd" \notin Streams
      /\ PumpEnd(n) = IF Op(n) = "inmap" THEN "p1" ELSE "p0"
  BY DEF Slots, Streams, StdFd, PumpEnd
<1>3. /\ pc[n] \in {"idle", "start"} => \A s \in Slots : own[n][s] = -1
      /\ pc[n] \in {"idle", "start", "left"} => job[n] = "none"
      /\ job[n] = "left" => Op(n) \in Conditionals
  BY DEF Fresh, NoSlots
<1>4. /\ Op(n) \in Binary \cup UnaryOps => L(n) # 0 /\ L(n) \in Node \ {n}
      /\ Op(n) \in Binary => R(n) # 0 /\ R(n) \in Node \ {n} /\ R(n) # L(n)
      /\ L(n) # 0 => L(n) \in Node \ {n} /\ Op(n) \in Binary \cup UnaryOps
      /\ L(n) = 0 => Op(n) \in {"bool"} \cup Leaves
  BY Operand
<1>5. Op(n) \in {"bool"} \cup Leaves \cup UnaryOps \cup Binary
  BY Tree
<1>6. CASE StartBool(n)
  <2>1. fixed' = fixed /\ UNCHANGED table
    BY <1>6 DEF StartBool, rest
  <2>2. Keeps(n) /\ IsTable'
    BY <2>1, Wrappers
  <2>3. Op(n)' = Op(n) /\ Slots' = Slots /\ PumpEnd(n)' = PumpEnd(n)
    BY <2>1, Same DEF Slots, Streams, PumpEnd
  <2>4. Holds(n)'
    BY <1>1, <1>2, <1>3, <1>4, <1>5, <1>6, <2>1, <2>2, <2>3, Frame DEF StartBool, Holds, Keeps
  <2> QED BY <1>1, <1>6, <2>2, <2>4 DEF Wraps, Keeps, StartBool
<1>7. CASE StartBuiltin(n)
  <2>1. fixed' = fixed /\ UNCHANGED table
    BY <1>7 DEF StartBuiltin, rest
  <2>2. Keeps(n) /\ IsTable'
    BY <2>1, Wrappers
  <2>3. Op(n)' = Op(n) /\ Slots' = Slots /\ PumpEnd(n)' = PumpEnd(n)
    BY <2>1, Same DEF Slots, Streams, PumpEnd
  <2>4. Holds(n)'
    BY <1>1, <1>2, <1>3, <1>4, <1>5, <1>7, <2>1, <2>2, <2>3, Frame
       DEF StartBuiltin, Holds, Keeps
  <2> QED BY <1>1, <1>7, <2>2, <2>4 DEF Wraps, Keeps, StartBuiltin
<1>8. CASE StartFunction(n)
  <2>1. fixed' = fixed /\ Fd' = Fd
    BY <1>8 DEF StartFunction, rest, fixed, Fd
  <2>2. Opens(n, Streams) /\ IsTable'
    BY <1>8, <2>1 DEF StartFunction, Opens, IsTable, TypeOK
  <2>3. Op(n)' = Op(n) /\ Slots' = Slots /\ PumpEnd(n)' = PumpEnd(n)
    BY <2>1, Same DEF Slots, Streams, PumpEnd
  <2>4. Holds(n)'
    BY <1>1, <1>2, <1>3, <1>4, <1>5, <1>8, <2>1, <2>2, <2>3, Frame
       DEF StartFunction, Holds, Opens
  <2> QED BY <1>1, <1>8, <2>2, <2>4 DEF Wraps, Opens, StartFunction
<1>9. CASE StartFunctionThrows(n)
  <2>1. fixed' = fixed /\ UNCHANGED table
    BY <1>9 DEF StartFunctionThrows, rest
  <2>2. Keeps(n) /\ IsTable'
    BY <2>1, Wrappers
  <2>3. Op(n)' = Op(n) /\ Slots' = Slots /\ PumpEnd(n)' = PumpEnd(n)
    BY <2>1, Same DEF Slots, Streams, PumpEnd
  <2>4. Holds(n)'
    BY <1>1, <1>2, <1>3, <1>4, <1>5, <1>9, <2>1, <2>2, <2>3, Frame
       DEF StartFunctionThrows, Holds, Keeps
  <2> QED BY <1>1, <1>9, <2>2, <2>4 DEF Wraps, Keeps, StartFunctionThrows
<1>10. CASE StartNative(n)
  <2>1. fixed' = fixed /\ UNCHANGED table
    BY <1>10 DEF StartNative, rest
  <2>2. Keeps(n) /\ IsTable'
    BY <2>1, Wrappers
  <2>3. Op(n)' = Op(n) /\ Slots' = Slots /\ PumpEnd(n)' = PumpEnd(n)
    BY <2>1, Same DEF Slots, Streams, PumpEnd
  <2>4. Holds(n)'
    BY <1>1, <1>2, <1>3, <1>4, <1>5, <1>10, <2>1, <2>2, <2>3, Frame
       DEF StartNative, Holds, Keeps
  <2> QED BY <1>1, <1>10, <2>2, <2>4 DEF Wraps, Keeps, StartNative
<1>11. CASE StartNativeThrows(n)
  <2>1. fixed' = fixed /\ UNCHANGED table
    BY <1>11 DEF StartNativeThrows, rest
  <2>2. Keeps(n) /\ IsTable'
    BY <2>1, Wrappers
  <2>3. Op(n)' = Op(n) /\ Slots' = Slots /\ PumpEnd(n)' = PumpEnd(n)
    BY <2>1, Same DEF Slots, Streams, PumpEnd
  <2>4. Holds(n)'
    BY <1>1, <1>2, <1>3, <1>4, <1>5, <1>11, <2>1, <2>2, <2>3, Frame
       DEF StartNativeThrows, Holds, Keeps
  <2> QED BY <1>1, <1>11, <2>2, <2>4 DEF Wraps, Keeps, StartNativeThrows
<1>12. CASE ForkFails(n)
  <2>1. fixed' = fixed /\ Fd' = Fd
    BY <1>12 DEF ForkFails, rest, fixed, Fd
  <2>2. Keeps(n) /\ IsTable'
    BY <1>12, <2>1 DEF ForkFails, Keeps, IsTable
  <2>3. Op(n)' = Op(n) /\ Slots' = Slots /\ PumpEnd(n)' = PumpEnd(n)
    BY <2>1, Same DEF Slots, Streams, PumpEnd
  <2>4. Holds(n)'
    BY <1>1, <1>2, <1>3, <1>4, <1>5, <1>12, <2>1, <2>2, <2>3, Frame
       DEF ForkFails, Holds, Keeps
  <2> QED BY <1>1, <1>12, <2>2, <2>4 DEF Wraps, Keeps, ForkFails
<1> QED BY <1>6, <1>7, <1>8, <1>9, <1>10, <1>11, <1>12 DEF StartLeaf

(* start_run of the commands with operands.                                *)
LEMMA NodeWraps ==
    ASSUME TypeOK, IsTable, ValOK, NEW n \in Node, Stands(n), Holds(n), Fresh(n), StartNode(n)
    PROVE  Wraps(n)
<1> USE DEF Binary, UnaryOps, Maps, Redirects, Conditionals, Leaves, Kind, Stage, Jobs,
            Past, Moves, Asks, Joined, Running, Pumping, Done
<1>1. Kind(n) /\ Done(n)
  BY DEF Stands
<1>2. /\ \A s \in Slots : s \in {"p0", "p1", "fd"} \cup Streams
      /\ "p0" \notin Streams /\ "p1" \notin Streams /\ "fd" \notin Streams
      /\ PumpEnd(n) = IF Op(n) = "inmap" THEN "p1" ELSE "p0"
  BY DEF Slots, Streams, StdFd, PumpEnd
<1>3. /\ pc[n] \in {"idle", "start"} => \A s \in Slots : own[n][s] = -1
      /\ pc[n] \in {"idle", "start", "left"} => job[n] = "none"
      /\ job[n] = "left" => Op(n) \in Conditionals
  BY DEF Fresh, NoSlots
<1>4. /\ Op(n) \in Binary \cup UnaryOps => L(n) # 0 /\ L(n) \in Node \ {n}
      /\ Op(n) \in Binary => R(n) # 0 /\ R(n) \in Node \ {n} /\ R(n) # L(n)
      /\ L(n) # 0 => L(n) \in Node \ {n} /\ Op(n) \in Binary \cup UnaryOps
      /\ L(n) = 0 => Op(n) \in {"bool"} \cup Leaves
  BY Operand
<1>5. Op(n) \in {"bool"} \cup Leaves \cup UnaryOps \cup Binary
  BY Tree
<1>6. CASE StartPipe(n)
  <2>1. fixed' = fixed /\ OpenPipe(n)
    BY <1>6 DEF StartPipe, rest, StartOperand
  <2>2. Opens(n, {"p0", "p1"}) /\ IsTable'
    BY <2>1, Wrappers
  <2>3. Op(n)' = Op(n) /\ Slots' = Slots /\ PumpEnd(n)' = PumpEnd(n)
    BY <2>1, Same DEF Slots, Streams, PumpEnd
  <2>4. Holds(n)'
    BY <1>1, <1>2, <1>3, <1>4, <1>5, <1>6, <2>1, <2>2, <2>3, Frame
       DEF StartPipe, Holds, Opens, StartOperand
  <2> QED BY <1>1, <1>6, <2>2, <2>4 DEF Wraps, Opens, StartPipe
<1>7. CASE StartRightOfPipe(n)
  <2>1. fixed' = fixed /\ UNCHANGED table
    BY <1>7 DEF StartRightOfPipe, rest, StartOperand
  <2>2. Keeps(n) /\ IsTable'
    BY <2>1, Wrappers
  <2>3. Op(n)' = Op(n) /\ Slots' = Slots /\ PumpEnd(n)' = PumpEnd(n)
    BY <2>1, Same DEF Slots, Streams, PumpEnd
  <2>4. Holds(n)'
    BY <1>1, <1>2, <1>3, <1>4, <1>5, <1>7, <2>1, <2>2, <2>3, Frame
       DEF StartRightOfPipe, Holds, Keeps, StartOperand
  <2> QED BY <1>1, <1>7, <2>2, <2>4 DEF Wraps, Keeps, StartRightOfPipe
<1>8. CASE PipeUp(n)
  <2>1. fixed' = fixed /\ Close(n, {"p0", "p1"})
    BY <1>8 DEF PipeUp, rest
  <2>2. Shuts(n, {"p0", "p1"}) /\ IsTable'
    BY <2>1, Wrappers
  <2>3. Op(n)' = Op(n) /\ Slots' = Slots /\ PumpEnd(n)' = PumpEnd(n)
    BY <2>1, Same DEF Slots, Streams, PumpEnd
  <2>4. Holds(n)'
    BY <1>1, <1>2, <1>3, <1>4, <1>5, <1>8, <2>1, <2>2, <2>3, Frame DEF PipeUp, Holds, Shuts
  <2> QED BY <1>1, <1>8, <2>2, <2>4 DEF Wraps, Shuts, PipeUp
<1>9. CASE PipeThrows(n)
  <2>1. fixed' = fixed /\ Close(n, {"p0", "p1"})
    BY <1>9 DEF PipeThrows, rest
  <2>2. Shuts(n, {"p0", "p1"}) /\ IsTable'
    BY <2>1, Wrappers
  <2>3. Op(n)' = Op(n) /\ Slots' = Slots /\ PumpEnd(n)' = PumpEnd(n)
    BY <2>1, Same DEF Slots, Streams, PumpEnd
  <2>4. Holds(n)'
    BY <1>1, <1>2, <1>3, <1>4, <1>5, <1>9, <2>1, <2>2, <2>3, Frame DEF PipeThrows, Holds, Shuts
  <2> QED BY <1>1, <1>9, <2>2, <2>4 DEF Wraps, Shuts, PipeThrows
<1>10. CASE StartMapping(n)
  <2>1. fixed' = fixed /\ OpenPipe(n)
    BY <1>10 DEF StartMapping, rest, StartOperand
  <2>2. Opens(n, {"p0", "p1"}) /\ IsTable'
    BY <2>1, Wrappers
  <2>3. Op(n)' = Op(n) /\ Slots' = Slots /\ PumpEnd(n)' = PumpEnd(n)
    BY <2>1, Same DEF Slots, Streams, PumpEnd
  <2>4. Holds(n)'
    BY <1>1, <1>2, <1>3, <1>4, <1>5, <1>10, <2>1, <2>2, <2>3, Frame
       DEF StartMapping, Holds, Opens, StartOperand
  <2> QED BY <1>1, <1>10, <2>2, <2>4 DEF Wraps, Opens, StartMapping
<1>11. CASE StartPump(n)
  <2>1. fixed' = fixed /\ ((Op(n) = "inmap" /\ UNCHANGED table) \/ (Op(n) # "inmap" /\ Close(n, {"p1"})))
    BY <1>11 DEF StartPump, rest
  <2>2. Shuts(n, IF Op(n) = "inmap" THEN {} ELSE {"p1"}) /\ IsTable'
    BY <2>1, Wrappers DEF Keeps, Shuts
  <2>3. Op(n)' = Op(n) /\ Slots' = Slots /\ PumpEnd(n)' = PumpEnd(n)
    BY <2>1, Same DEF Slots, Streams, PumpEnd
  <2>5. /\ job'[n] = "run" /\ Op(n) \in Maps
        /\ pc'[n] = IF Op(n) = "inmap" THEN "tail" ELSE "up"
    BY <1>11, Frame, <2>1 DEF StartPump
  <2>4. Holds(n)'
    BY <1>2, <2>2, <2>3, <2>5 DEF Holds, Shuts
  <2> QED BY <1>1, <1>11, <2>2, <2>4 DEF Wraps, Shuts, StartPump
<1>12. CASE InMappingUp(n)
  <2>1. fixed' = fixed /\ Close(n, {"p0"})
    BY <1>12 DEF InMappingUp, rest
  <2>2. Shuts(n, {"p0"}) /\ IsTable'
    BY <2>1, Wrappers
  <2>3. Op(n)' = Op(n) /\ Slots' = Slots /\ PumpEnd(n)' = PumpEnd(n)
    BY <2>1, Same DEF Slots, Streams, PumpEnd
  <2>4. Holds(n)'
    BY <1>1, <1>2, <1>3, <1>4, <1>5, <1>12, <2>1, <2>2, <2>3, Frame
       DEF InMappingUp, Holds, Shuts
  <2> QED BY <1>1, <1>12, <2>2, <2>4 DEF Wraps, Shuts, InMappingUp
<1>13. CASE MappingThrows(n)
  <2>1. fixed' = fixed /\ Close(n, {"p0", "p1"})
    BY <1>13 DEF MappingThrows, rest
  <2>2. Shuts(n, {"p0", "p1"}) /\ IsTable'
    BY <2>1, Wrappers
  <2>3. Op(n)' = Op(n) /\ Slots' = Slots /\ PumpEnd(n)' = PumpEnd(n)
    BY <2>1, Same DEF Slots, Streams, PumpEnd
  <2>4. Holds(n)'
    BY <1>1, <1>2, <1>3, <1>4, <1>5, <1>13, <2>1, <2>2, <2>3, Frame
       DEF MappingThrows, Holds, Shuts
  <2> QED BY <1>1, <1>13, <2>2, <2>4 DEF Wraps, Shuts, MappingThrows
<1>14. CASE StartRedirect(n)
  <2>1. fixed' = fixed /\ Fd' = Fd
    BY <1>14 DEF StartRedirect, rest, fixed, Fd
  <2>2. Opens(n, {"fd"}) /\ IsTable'
    BY <1>14, <2>1 DEF StartRedirect, Opens, IsTable, TypeOK
  <2>3. Op(n)' = Op(n) /\ Slots' = Slots /\ PumpEnd(n)' = PumpEnd(n)
    BY <2>1, Same DEF Slots, Streams, PumpEnd
  <2>4. Holds(n)'
    BY <1>1, <1>2, <1>3, <1>4, <1>5, <1>14, <2>1, <2>2, <2>3, Frame
       DEF StartRedirect, Holds, Opens, StartOperand
  <2> QED BY <1>1, <1>14, <2>2, <2>4 DEF Wraps, Opens, StartRedirect
<1>15. CASE RedirectUp(n)
  <2>1. fixed' = fixed /\ UNCHANGED table
    BY <1>15 DEF RedirectUp, rest
  <2>2. Keeps(n) /\ IsTable'
    BY <2>1, Wrappers
  <2>3. Op(n)' = Op(n) /\ Slots' = Slots /\ PumpEnd(n)' = PumpEnd(n)
    BY <2>1, Same DEF Slots, Streams, PumpEnd
  <2>4. Holds(n)'
    BY <1>1, <1>2, <1>3, <1>4, <1>5, <1>15, <2>1, <2>2, <2>3, Frame DEF RedirectUp, Holds, Keeps
  <2> QED BY <1>1, <1>15, <2>2, <2>4 DEF Wraps, Keeps, RedirectUp
<1>16. CASE StartConditional(n)
  <2>1. fixed' = fixed /\ UNCHANGED table
    BY <1>16 DEF StartConditional, rest, StartOperand
  <2>2. Keeps(n) /\ IsTable'
    BY <2>1, Wrappers
  <2>3. Op(n)' = Op(n) /\ Slots' = Slots /\ PumpEnd(n)' = PumpEnd(n)
    BY <2>1, Same DEF Slots, Streams, PumpEnd
  <2>4. Holds(n)'
    BY <1>1, <1>2, <1>3, <1>4, <1>5, <1>16, <2>1, <2>2, <2>3, Frame
       DEF StartConditional, Holds, Keeps, StartOperand
  <2> QED BY <1>1, <1>16, <2>2, <2>4 DEF Wraps, Keeps, StartConditional
<1>17. CASE ConditionalUp(n)
  <2>1. fixed' = fixed /\ UNCHANGED table
    BY <1>17 DEF ConditionalUp, rest
  <2>2. Keeps(n) /\ IsTable'
    BY <2>1, Wrappers
  <2>3. Op(n)' = Op(n) /\ Slots' = Slots /\ PumpEnd(n)' = PumpEnd(n)
    BY <2>1, Same DEF Slots, Streams, PumpEnd
  <2>4. Holds(n)'
    BY <1>1, <1>2, <1>3, <1>4, <1>5, <1>17, <2>1, <2>2, <2>3, Frame
       DEF ConditionalUp, Holds, Keeps
  <2> QED BY <1>1, <1>17, <2>2, <2>4 DEF Wraps, Keeps, ConditionalUp
<1>18. CASE PassThrow(n)
  <2>1. fixed' = fixed /\ UNCHANGED table
    BY <1>18 DEF PassThrow, rest
  <2>2. Keeps(n) /\ IsTable'
    BY <2>1, Wrappers
  <2>3. Op(n)' = Op(n) /\ Slots' = Slots /\ PumpEnd(n)' = PumpEnd(n)
    BY <2>1, Same DEF Slots, Streams, PumpEnd
  <2>4. Holds(n)'
    BY <1>1, <1>2, <1>3, <1>4, <1>5, <1>18, <2>1, <2>2, <2>3, Frame DEF PassThrow, Holds, Keeps
  <2> QED BY <1>1, <1>18, <2>2, <2>4 DEF Wraps, Keeps, PassThrow
<1> QED BY <1>6, <1>7, <1>8, <1>9, <1>10, <1>11, <1>12, <1>13, <1>14, <1>15, <1>16, <1>17, <1>18
           DEF StartNode

(* The tasks, the leaves and the pumps.                                    *)
LEMMA TaskWraps ==
    ASSUME TypeOK, IsTable, ValOK, NEW n \in Node, Stands(n), Holds(n), Fresh(n), Task(n) \/ Leaf(n) \/ Pump(n)
    PROVE  Wraps(n)
<1> USE DEF Binary, UnaryOps, Maps, Redirects, Conditionals, Leaves, Kind, Stage, Jobs,
            Past, Moves, Asks, Joined, Running, Pumping, Done
<1>1. Kind(n) /\ Done(n)
  BY DEF Stands
<1>2. /\ \A s \in Slots : s \in {"p0", "p1", "fd"} \cup Streams
      /\ "p0" \notin Streams /\ "p1" \notin Streams /\ "fd" \notin Streams
      /\ PumpEnd(n) = IF Op(n) = "inmap" THEN "p1" ELSE "p0"
  BY DEF Slots, Streams, StdFd, PumpEnd
<1>3. /\ pc[n] \in {"idle", "start"} => \A s \in Slots : own[n][s] = -1
      /\ pc[n] \in {"idle", "start", "left"} => job[n] = "none"
      /\ job[n] = "left" => Op(n) \in Conditionals
  BY DEF Fresh, NoSlots
<1>4. /\ Op(n) \in Binary \cup UnaryOps => L(n) # 0 /\ L(n) \in Node \ {n}
      /\ Op(n) \in Binary => R(n) # 0 /\ R(n) \in Node \ {n} /\ R(n) # L(n)
      /\ L(n) # 0 => L(n) \in Node \ {n} /\ Op(n) \in Binary \cup UnaryOps
      /\ L(n) = 0 => Op(n) \in {"bool"} \cup Leaves
  BY Operand
<1>5. Op(n) \in {"bool"} \cup Leaves \cup UnaryOps \cup Binary
  BY Tree
<1>6. CASE TaskLeftDone(n)
  <2>1. fixed' = fixed /\ UNCHANGED table
    BY <1>6 DEF TaskLeftDone, rest
  <2>2. Keeps(n) /\ IsTable'
    BY <2>1, Wrappers
  <2>3. Op(n)' = Op(n) /\ Slots' = Slots /\ PumpEnd(n)' = PumpEnd(n)
    BY <2>1, Same DEF Slots, Streams, PumpEnd
  <2>4. Holds(n)'
    BY <1>1, <1>2, <1>3, <1>4, <1>5, <1>6, <2>1, <2>2, <2>3, Frame
       DEF TaskLeftDone, Holds, Keeps
  <2> QED BY <1>1, <1>6, <2>2, <2>4 DEF Wraps, Keeps, TaskLeftDone
<1>7. CASE TaskRightUp(n)
  <2>1. fixed' = fixed /\ UNCHANGED table
    BY <1>7 DEF TaskRightUp, rest
  <2>2. Keeps(n) /\ IsTable'
    BY <2>1, Wrappers
  <2>3. Op(n)' = Op(n) /\ Slots' = Slots /\ PumpEnd(n)' = PumpEnd(n)
    BY <2>1, Same DEF Slots, Streams, PumpEnd
  <2>4. Holds(n)'
    BY <1>1, <1>2, <1>3, <1>4, <1>5, <1>7, <2>1, <2>2, <2>3, Frame DEF TaskRightUp, Holds, Keeps
  <2> QED BY <1>1, <1>7, <2>2, <2>4 DEF Wraps, Keeps, TaskRightUp
<1>8. CASE TaskRightDone(n)
  <2>1. fixed' = fixed /\ UNCHANGED table
    BY <1>8 DEF TaskRightDone, rest
  <2>2. Keeps(n) /\ IsTable'
    BY <2>1, Wrappers
  <2>3. Op(n)' = Op(n) /\ Slots' = Slots /\ PumpEnd(n)' = PumpEnd(n)
    BY <2>1, Same DEF Slots, Streams, PumpEnd
  <2>4. Holds(n)'
    BY <1>1, <1>2, <1>3, <1>4, <1>5, <1>8, <2>1, <2>2, <2>3, Frame
       DEF TaskRightDone, Holds, Keeps
  <2> QED BY <1>1, <1>8, <2>2, <2>4 DEF Wraps, Keeps, TaskRightDone
<1>9. CASE TaskFails(n)
  <2>1. fixed' = fixed /\ UNCHANGED table
    BY <1>9 DEF TaskFails, rest
  <2>2. Keeps(n) /\ IsTable'
    BY <2>1, Wrappers
  <2>3. Op(n)' = Op(n) /\ Slots' = Slots /\ PumpEnd(n)' = PumpEnd(n)
    BY <2>1, Same DEF Slots, Streams, PumpEnd
  <2>4. Holds(n)'
    BY <1>1, <1>2, <1>3, <1>4, <1>5, <1>9, <2>1, <2>2, <2>3, Frame DEF TaskFails, Holds, Keeps
  <2> QED BY <1>1, <1>9, <2>2, <2>4 DEF Wraps, Keeps, TaskFails
<1>10. CASE LeafReads(n)
  <2>1. fixed' = fixed /\ UNCHANGED table
    BY <1>10 DEF LeafReads, rest
  <2>2. Keeps(n) /\ IsTable'
    BY <2>1, Wrappers
  <2>3. Op(n)' = Op(n) /\ Slots' = Slots /\ PumpEnd(n)' = PumpEnd(n)
    BY <2>1, Same DEF Slots, Streams, PumpEnd
  <2>4. Holds(n)'
    BY <1>1, <1>2, <1>3, <1>4, <1>5, <1>10, <2>1, <2>2, <2>3, Frame DEF LeafReads, Holds, Keeps
  <2> QED BY <1>1, <1>10, <2>2, <2>4 DEF Wraps, Keeps, LeafReads
<1>11. CASE LeafSeesEof(n)
  <2>1. fixed' = fixed /\ UNCHANGED table
    BY <1>11 DEF LeafSeesEof, rest
  <2>2. Keeps(n) /\ IsTable'
    BY <2>1, Wrappers
  <2>3. Op(n)' = Op(n) /\ Slots' = Slots /\ PumpEnd(n)' = PumpEnd(n)
    BY <2>1, Same DEF Slots, Streams, PumpEnd
  <2>4. Holds(n)'
    BY <1>1, <1>2, <1>3, <1>4, <1>5, <1>11, <2>1, <2>2, <2>3, Frame
       DEF LeafSeesEof, Holds, Keeps
  <2> QED BY <1>1, <1>11, <2>2, <2>4 DEF Wraps, Keeps, LeafSeesEof
<1>12. CASE \E k \in {"out", "err"} : LeafWrites(n, k)
  <2>1. fixed' = fixed /\ UNCHANGED table
    BY <1>12 DEF LeafWrites, rest, ProcessEnds
  <2>2. Keeps(n) /\ IsTable'
    BY <2>1, Wrappers
  <2>3. Op(n)' = Op(n) /\ Slots' = Slots /\ PumpEnd(n)' = PumpEnd(n)
    BY <2>1, Same DEF Slots, Streams, PumpEnd
  <2>4. Holds(n)'
    BY <1>1, <1>2, <1>3, <1>4, <1>5, <1>12, <2>1, <2>2, <2>3, Frame
       DEF LeafWrites, Holds, Keeps, ProcessEnds
  <2> QED BY <1>1, <1>12, <2>2, <2>4 DEF Wraps, Keeps, LeafWrites
<1>13. CASE \E k \in {"out", "err"} : LeafBreaks(n, k)
  <2>1. fixed' = fixed /\ UNCHANGED table
    BY <1>13 DEF LeafBreaks, rest, ProcessEnds
  <2>2. Keeps(n) /\ IsTable'
    BY <2>1, Wrappers
  <2>3. Op(n)' = Op(n) /\ Slots' = Slots /\ PumpEnd(n)' = PumpEnd(n)
    BY <2>1, Same DEF Slots, Streams, PumpEnd
  <2>4. Holds(n)'
    BY <1>1, <1>2, <1>3, <1>4, <1>5, <1>13, <2>1, <2>2, <2>3, Frame
       DEF LeafBreaks, Holds, Keeps, ProcessEnds
  <2> QED BY <1>1, <1>13, <2>2, <2>4 DEF Wraps, Keeps, LeafBreaks
<1>14. CASE ProgramEnds(n)
  <2>1. fixed' = fixed /\ UNCHANGED table
    BY <1>14 DEF ProgramEnds, rest, ProcessEnds
  <2>2. Keeps(n) /\ IsTable'
    BY <2>1, Wrappers
  <2>3. Op(n)' = Op(n) /\ Slots' = Slots /\ PumpEnd(n)' = PumpEnd(n)
    BY <2>1, Same DEF Slots, Streams, PumpEnd
  <2>4. Holds(n)'
    BY <1>1, <1>2, <1>3, <1>4, <1>5, <1>14, <2>1, <2>2, <2>3, Frame
       DEF ProgramEnds, Holds, Keeps, ProcessEnds
  <2> QED BY <1>1, <1>14, <2>2, <2>4 DEF Wraps, Keeps, ProgramEnds
<1>15. CASE FunctionEnds(n)
  <2>1. fixed' = fixed /\ (UNCHANGED table \/ Close(n, Streams))
    BY <1>15 DEF FunctionEnds, rest
  <2>2. (Keeps(n) \/ Shuts(n, Streams)) /\ IsTable'
    BY <2>1, Wrappers
  <2>3. Op(n)' = Op(n) /\ Slots' = Slots /\ PumpEnd(n)' = PumpEnd(n)
    BY <2>1, Same DEF Slots, Streams, PumpEnd
  <2>4. Holds(n)'
    BY <1>1, <1>2, <1>3, <1>4, <1>5, <1>15, <2>1, <2>2, <2>3, Frame
       DEF FunctionEnds, Holds, Shuts, Keeps
  <2> QED BY <1>1, <1>15, <2>2, <2>4 DEF Wraps, Shuts, Keeps, FunctionEnds
<1>16. CASE BuiltinEnds(n)
  <2>1. fixed' = fixed /\ UNCHANGED table
    BY <1>16 DEF BuiltinEnds, rest
  <2>2. Keeps(n) /\ IsTable'
    BY <2>1, Wrappers
  <2>3. Op(n)' = Op(n) /\ Slots' = Slots /\ PumpEnd(n)' = PumpEnd(n)
    BY <2>1, Same DEF Slots, Streams, PumpEnd
  <2>4. Holds(n)'
    BY <1>1, <1>2, <1>3, <1>4, <1>5, <1>16, <2>1, <2>2, <2>3, Frame
       DEF BuiltinEnds, Holds, Keeps
  <2> QED BY <1>1, <1>16, <2>2, <2>4 DEF Wraps, Keeps, BuiltinEnds
<1>17. CASE Reap(n)
  <2>1. fixed' = fixed /\ UNCHANGED table
    BY <1>17 DEF Reap, rest
  <2>2. Keeps(n) /\ IsTable'
    BY <2>1, Wrappers
  <2>3. Op(n)' = Op(n) /\ Slots' = Slots /\ PumpEnd(n)' = PumpEnd(n)
    BY <2>1, Same DEF Slots, Streams, PumpEnd
  <2>4. Holds(n)'
    BY <1>1, <1>2, <1>3, <1>4, <1>5, <1>17, <2>1, <2>2, <2>3, Frame DEF Reap, Holds, Keeps
  <2> QED BY <1>1, <1>17, <2>2, <2>4 DEF Wraps, Keeps, Reap
<1>18. CASE Feed(n)
  <2>1. fixed' = fixed /\ UNCHANGED table
    BY <1>18 DEF Feed, rest
  <2>2. Keeps(n) /\ IsTable'
    BY <2>1, Wrappers
  <2>3. Op(n)' = Op(n) /\ Slots' = Slots /\ PumpEnd(n)' = PumpEnd(n)
    BY <2>1, Same DEF Slots, Streams, PumpEnd
  <2>4. Holds(n)'
    BY <1>1, <1>2, <1>3, <1>4, <1>5, <1>18, <2>1, <2>2, <2>3, Frame DEF Feed, Holds, Keeps
  <2> QED BY <1>1, <1>18, <2>2, <2>4 DEF Wraps, Keeps, Feed
<1>19. CASE FeedBreaks(n)
  <2>1. fixed' = fixed /\ UNCHANGED table
    BY <1>19 DEF FeedBreaks, rest
  <2>2. Keeps(n) /\ IsTable'
    BY <2>1, Wrappers
  <2>3. Op(n)' = Op(n) /\ Slots' = Slots /\ PumpEnd(n)' = PumpEnd(n)
    BY <2>1, Same DEF Slots, Streams, PumpEnd
  <2>4. Holds(n)'
    BY <1>1, <1>2, <1>3, <1>4, <1>5, <1>19, <2>1, <2>2, <2>3, Frame DEF FeedBreaks, Holds, Keeps
  <2> QED BY <1>1, <1>19, <2>2, <2>4 DEF Wraps, Keeps, FeedBreaks
<1>20. CASE Collect(n)
  <2>1. fixed' = fixed /\ UNCHANGED table
    BY <1>20 DEF Collect, rest
  <2>2. Keeps(n) /\ IsTable'
    BY <2>1, Wrappers
  <2>3. Op(n)' = Op(n) /\ Slots' = Slots /\ PumpEnd(n)' = PumpEnd(n)
    BY <2>1, Same DEF Slots, Streams, PumpEnd
  <2>4. Holds(n)'
    BY <1>1, <1>2, <1>3, <1>4, <1>5, <1>20, <2>1, <2>2, <2>3, Frame DEF Collect, Holds, Keeps
  <2> QED BY <1>1, <1>20, <2>2, <2>4 DEF Wraps, Keeps, Collect
<1>21. CASE PumpDone(n)
  <2>1. fixed' = fixed /\ Close(n, {PumpEnd(n)})
    BY <1>21 DEF PumpDone, rest, PumpEnds
  <2>2. Shuts(n, {PumpEnd(n)}) /\ IsTable'
    BY <2>1, Wrappers
  <2>3. Op(n)' = Op(n) /\ Slots' = Slots /\ PumpEnd(n)' = PumpEnd(n)
    BY <2>1, Same DEF Slots, Streams, PumpEnd
  <2>4. Holds(n)'
    BY <1>1, <1>2, <1>3, <1>4, <1>5, <1>21, <2>1, <2>2, <2>3, Frame
       DEF PumpDone, Holds, Shuts, PumpEnds
  <2> QED BY <1>1, <1>21, <2>2, <2>4 DEF Wraps, Shuts, PumpDone
<1>22. CASE PumpFails(n)
  <2>1. fixed' = fixed /\ Close(n, {PumpEnd(n)})
    BY <1>22 DEF PumpFails, rest, PumpEnds
  <2>2. Shuts(n, {PumpEnd(n)}) /\ IsTable'
    BY <2>1, Wrappers
  <2>3. Op(n)' = Op(n) /\ Slots' = Slots /\ PumpEnd(n)' = PumpEnd(n)
    BY <2>1, Same DEF Slots, Streams, PumpEnd
  <2>4. Holds(n)'
    BY <1>1, <1>2, <1>3, <1>4, <1>5, <1>22, <2>1, <2>2, <2>3, Frame
       DEF PumpFails, Holds, Shuts, PumpEnds
  <2> QED BY <1>1, <1>22, <2>2, <2>4 DEF Wraps, Shuts, PumpFails
<1> QED BY <1>6, <1>7, <1>8, <1>9, <1>10, <1>11, <1>12, <1>13, <1>14, <1>15, <1>16, <1>17,
           <1>18, <1>19, <1>20, <1>21, <1>22 DEF Task, Leaf, Pump

(* finish_run and the destructors.                                         *)
LEMMA FinishWraps ==
    ASSUME TypeOK, IsTable, ValOK, NEW n \in Node, Stands(n), Holds(n), Fresh(n), Finish(n) \/ Destruction(n)
    PROVE  Wraps(n)
<1> USE DEF Binary, UnaryOps, Maps, Redirects, Conditionals, Leaves, Kind, Stage, Jobs,
            Past, Moves, Asks, Joined, Running, Pumping, Done
<1>1. Kind(n) /\ Done(n)
  BY DEF Stands
<1>2. /\ \A s \in Slots : s \in {"p0", "p1", "fd"} \cup Streams
      /\ "p0" \notin Streams /\ "p1" \notin Streams /\ "fd" \notin Streams
      /\ PumpEnd(n) = IF Op(n) = "inmap" THEN "p1" ELSE "p0"
  BY DEF Slots, Streams, StdFd, PumpEnd
<1>3. /\ pc[n] \in {"idle", "start"} => \A s \in Slots : own[n][s] = -1
      /\ pc[n] \in {"idle", "start", "left"} => job[n] = "none"
      /\ job[n] = "left" => Op(n) \in Conditionals
  BY DEF Fresh, NoSlots
<1>4. /\ Op(n) \in Binary \cup UnaryOps => L(n) # 0 /\ L(n) \in Node \ {n}
      /\ Op(n) \in Binary => R(n) # 0 /\ R(n) \in Node \ {n} /\ R(n) # L(n)
      /\ L(n) # 0 => L(n) \in Node \ {n} /\ Op(n) \in Binary \cup UnaryOps
      /\ L(n) = 0 => Op(n) \in {"bool"} \cup Leaves
  BY Operand
<1>5. Op(n) \in {"bool"} \cup Leaves \cup UnaryOps \cup Binary
  BY Tree
<1>6. CASE FinishAtOnce(n)
  <2>1. fixed' = fixed /\ UNCHANGED table
    BY <1>6 DEF FinishAtOnce, rest
  <2>2. Keeps(n) /\ IsTable'
    BY <2>1, Wrappers
  <2>3. Op(n)' = Op(n) /\ Slots' = Slots /\ PumpEnd(n)' = PumpEnd(n)
    BY <2>1, Same DEF Slots, Streams, PumpEnd
  <2>4. Holds(n)'
    BY <1>1, <1>2, <1>3, <1>4, <1>5, <1>6, <2>1, <2>2, <2>3, Frame
       DEF FinishAtOnce, Holds, Keeps
  <2> QED BY <1>1, <1>6, <2>2, <2>4 DEF Wraps, Keeps, FinishAtOnce
<1>7. CASE FinishGet(n)
  <2>1. fixed' = fixed /\ Close(n, Streams)
    BY <1>7 DEF FinishGet, rest
  <2>2. Shuts(n, Streams) /\ IsTable'
    BY <2>1, Wrappers
  <2>3. Op(n)' = Op(n) /\ Slots' = Slots /\ PumpEnd(n)' = PumpEnd(n)
    BY <2>1, Same DEF Slots, Streams, PumpEnd
  <2>4. Holds(n)'
    BY <1>1, <1>2, <1>3, <1>4, <1>5, <1>7, <2>1, <2>2, <2>3, Frame DEF FinishGet, Holds, Shuts
  <2> QED BY <1>1, <1>7, <2>2, <2>4 DEF Wraps, Shuts, FinishGet
<1>8. CASE FinishOperand(n)
  <2>1. fixed' = fixed /\ UNCHANGED table
    BY <1>8 DEF FinishOperand, rest
  <2>2. Keeps(n) /\ IsTable'
    BY <2>1, Wrappers
  <2>3. Op(n)' = Op(n) /\ Slots' = Slots /\ PumpEnd(n)' = PumpEnd(n)
    BY <2>1, Same DEF Slots, Streams, PumpEnd
  <2>4. Holds(n)'
    BY <1>1, <1>2, <1>3, <1>4, <1>5, <1>8, <2>1, <2>2, <2>3, Frame
       DEF FinishOperand, Holds, Keeps
  <2> QED BY <1>1, <1>8, <2>2, <2>4 DEF Wraps, Keeps, FinishOperand
<1>9. CASE FinishRight(n)
  <2>1. fixed' = fixed /\ UNCHANGED table
    BY <1>9 DEF FinishRight, rest
  <2>2. Keeps(n) /\ IsTable'
    BY <2>1, Wrappers
  <2>3. Op(n)' = Op(n) /\ Slots' = Slots /\ PumpEnd(n)' = PumpEnd(n)
    BY <2>1, Same DEF Slots, Streams, PumpEnd
  <2>4. Holds(n)'
    BY <1>1, <1>2, <1>3, <1>4, <1>5, <1>9, <2>1, <2>2, <2>3, Frame DEF FinishRight, Holds, Keeps
  <2> QED BY <1>1, <1>9, <2>2, <2>4 DEF Wraps, Keeps, FinishRight
<1>10. CASE FinishPipe(n)
  <2>1. fixed' = fixed /\ UNCHANGED table
    BY <1>10 DEF FinishPipe, rest
  <2>2. Keeps(n) /\ IsTable'
    BY <2>1, Wrappers
  <2>3. Op(n)' = Op(n) /\ Slots' = Slots /\ PumpEnd(n)' = PumpEnd(n)
    BY <2>1, Same DEF Slots, Streams, PumpEnd
  <2>4. Holds(n)'
    BY <1>1, <1>2, <1>3, <1>4, <1>5, <1>10, <2>1, <2>2, <2>3, Frame DEF FinishPipe, Holds, Keeps
  <2> QED BY <1>1, <1>10, <2>2, <2>4 DEF Wraps, Keeps, FinishPipe
<1>11. CASE FinishUnary(n)
  <2>1. fixed' = fixed /\ Close(n, {"fd"})
    BY <1>11 DEF FinishUnary, rest
  <2>2. Shuts(n, {"fd"}) /\ IsTable'
    BY <2>1, Wrappers
  <2>3. Op(n)' = Op(n) /\ Slots' = Slots /\ PumpEnd(n)' = PumpEnd(n)
    BY <2>1, Same DEF Slots, Streams, PumpEnd
  <2>4. Holds(n)'
    BY <1>1, <1>2, <1>3, <1>4, <1>5, <1>11, <2>1, <2>2, <2>3, Frame
       DEF FinishUnary, Holds, Shuts
  <2> QED BY <1>1, <1>11, <2>2, <2>4 DEF Wraps, Shuts, FinishUnary
<1>12. CASE FinishThrows(n)
  <2>1. fixed' = fixed /\ Close(n, {"fd"})
    BY <1>12 DEF FinishThrows, rest
  <2>2. Shuts(n, {"fd"}) /\ IsTable'
    BY <2>1, Wrappers
  <2>3. Op(n)' = Op(n) /\ Slots' = Slots /\ PumpEnd(n)' = PumpEnd(n)
    BY <2>1, Same DEF Slots, Streams, PumpEnd
  <2>4. Holds(n)'
    BY <1>1, <1>2, <1>3, <1>4, <1>5, <1>12, <2>1, <2>2, <2>3, Frame
       DEF FinishThrows, Holds, Shuts
  <2> QED BY <1>1, <1>12, <2>2, <2>4 DEF Wraps, Shuts, FinishThrows
<1>13. CASE Destroy(n)
  <2>1. fixed' = fixed /\ Close(n, {"fd"})
    BY <1>13 DEF Destroy, rest
  <2>2. Shuts(n, {"fd"}) /\ IsTable'
    BY <2>1, Wrappers
  <2>3. Op(n)' = Op(n) /\ Slots' = Slots /\ PumpEnd(n)' = PumpEnd(n)
    BY <2>1, Same DEF Slots, Streams, PumpEnd
  <2>4. Holds(n)'
    BY <1>1, <1>2, <1>3, <1>4, <1>5, <1>13, <2>1, <2>2, <2>3, Frame DEF Destroy, Holds, Shuts
  <2> QED BY <1>1, <1>13, <2>2, <2>4 DEF Wraps, Shuts, Destroy
<1>14. CASE DestroyLeft(n)
  <2>1. fixed' = fixed /\ UNCHANGED table
    BY <1>14 DEF DestroyLeft, rest
  <2>2. Keeps(n) /\ IsTable'
    BY <2>1, Wrappers
  <2>3. Op(n)' = Op(n) /\ Slots' = Slots /\ PumpEnd(n)' = PumpEnd(n)
    BY <2>1, Same DEF Slots, Streams, PumpEnd
  <2>4. Holds(n)'
    BY <1>1, <1>2, <1>3, <1>4, <1>5, <1>14, <2>1, <2>2, <2>3, Frame
       DEF DestroyLeft, Holds, Keeps
  <2> QED BY <1>1, <1>14, <2>2, <2>4 DEF Wraps, Keeps, DestroyLeft
<1>15. CASE OperandsGone(n)
  <2>1. fixed' = fixed /\ UNCHANGED table
    BY <1>15 DEF OperandsGone, rest
  <2>2. Keeps(n) /\ IsTable'
    BY <2>1, Wrappers
  <2>3. Op(n)' = Op(n) /\ Slots' = Slots /\ PumpEnd(n)' = PumpEnd(n)
    BY <2>1, Same DEF Slots, Streams, PumpEnd
  <2>4. Holds(n)'
    BY <1>1, <1>2, <1>3, <1>4, <1>5, <1>15, <2>1, <2>2, <2>3, Frame
       DEF OperandsGone, Holds, Keeps
  <2> QED BY <1>1, <1>15, <2>2, <2>4 DEF Wraps, Keeps, OperandsGone
<1>16. CASE Join(n)
  <2>1. fixed' = fixed /\ Close(n, Streams)
    BY <1>16 DEF Join, rest
  <2>2. Shuts(n, Streams) /\ IsTable'
    BY <2>1, Wrappers
  <2>3. Op(n)' = Op(n) /\ Slots' = Slots /\ PumpEnd(n)' = PumpEnd(n)
    BY <2>1, Same DEF Slots, Streams, PumpEnd
  <2>4. Holds(n)'
    BY <1>1, <1>2, <1>3, <1>4, <1>5, <1>16, <2>1, <2>2, <2>3, Frame DEF Join, Holds, Shuts
  <2> QED BY <1>1, <1>16, <2>2, <2>4 DEF Wraps, Shuts, Join
<1> QED BY <1>6, <1>7, <1>8, <1>9, <1>10, <1>11, <1>12, <1>13, <1>14, <1>15, <1>16
           DEF Finish, Destruction

-----------------------------------------------------------------------------
(***************************************************************************)
(* Subexpressions.                                                         *)
(***************************************************************************)

(* A subexpression: the least set with m that has the operands of its      *)
(* members.                                                                *)
Closes(S) == \A k \in S : {L(k), R(k)} \cap Node \subseteq S
Under(m) == {k \in Node : \A S \in SUBSET Node : m \in S /\ Closes(S) => k \in S}

(* It contains m and is closed, and is within each such set.               *)
LEMMA Within ==
    ASSUME NEW m \in Node
    PROVE  /\ m \in Under(m) /\ Under(m) \in SUBSET Node
           /\ \A k \in Under(m) : {L(k), R(k)} \cap Node \subseteq Under(m)
           /\ \A S \in SUBSET Node : m \in S /\ Closes(S) => Under(m) \subseteq S
BY DEF Under, Closes

(* Proofs by induction over a subexpression take it for S.                 *)
LEMMA ByOperands ==
    ASSUME NEW m \in Node, NEW S \in SUBSET Node, m \in S,
           \A k \in S : {L(k), R(k)} \cap Node \subseteq S
    PROVE  Under(m) \subseteq S
BY Within DEF Closes

(* The subexpression at m consists of m, of its left and its right one.    *)
LEMMA Parts ==
    ASSUME TypeOK, NEW m \in Node
    PROVE  /\ \A k \in Under(m) : \/ k = m
                                  \/ L(m) # 0 /\ k \in Under(L(m))
                                  \/ R(m) # 0 /\ k \in Under(R(m))
           /\ L(m) # 0 => Under(L(m)) \subseteq Under(m)
           /\ R(m) # 0 => Under(R(m)) \subseteq Under(m)
           /\ L(m) = 0 => Under(m) = {m}
<1>1. /\ \A k \in Node : (L(k) # 0 => L(k) \in Node) /\ (R(k) # 0 => R(k) \in Node)
      /\ L(m) = 0 => R(m) = 0
      /\ 0 \notin Node
  BY Operand, Tree
<1> DEFINE Left == IF L(m) = 0 THEN {} ELSE Under(L(m))
           Right == IF R(m) = 0 THEN {} ELSE Under(R(m))
           S == {m} \cup Left \cup Right
<1>2. /\ L(m) # 0 => L(m) \in Left
      /\ R(m) # 0 => R(m) \in Right
      /\ Left \in SUBSET Node /\ Right \in SUBSET Node
      /\ \A k \in Left : {L(k), R(k)} \cap Node \subseteq Left
      /\ \A k \in Right : {L(k), R(k)} \cap Node \subseteq Right
  <2>1. L(m) # 0 => /\ L(m) \in Under(L(m)) /\ Under(L(m)) \in SUBSET Node
                    /\ \A k \in Under(L(m)) : {L(k), R(k)} \cap Node \subseteq Under(L(m))
    <3> SUFFICES ASSUME L(m) # 0
                 PROVE  /\ L(m) \in Under(L(m)) /\ Under(L(m)) \in SUBSET Node
                        /\ \A k \in Under(L(m)) : {L(k), R(k)} \cap Node \subseteq Under(L(m))
      OBVIOUS
    <3>1. L(m) \in Node
      BY <1>1
    <3> QED BY <3>1, Within
  <2>2. R(m) # 0 => /\ R(m) \in Under(R(m)) /\ Under(R(m)) \in SUBSET Node
                    /\ \A k \in Under(R(m)) : {L(k), R(k)} \cap Node \subseteq Under(R(m))
    <3> SUFFICES ASSUME R(m) # 0
                 PROVE  /\ R(m) \in Under(R(m)) /\ Under(R(m)) \in SUBSET Node
                        /\ \A k \in Under(R(m)) : {L(k), R(k)} \cap Node \subseteq Under(R(m))
      OBVIOUS
    <3>1. R(m) \in Node
      BY <1>1
    <3> QED BY <3>1, Within
  <2> QED BY <2>1, <2>2
<1> HIDE DEF Left, Right
<1>3. S \in SUBSET Node /\ m \in S
  BY <1>2
<1>4. \A k \in S : {L(k), R(k)} \cap Node \subseteq S
  <2> SUFFICES ASSUME NEW k \in S PROVE {L(k), R(k)} \cap Node \subseteq S
    OBVIOUS
  <2>1. CASE k = m
    BY <1>1, <1>2, <2>1
  <2>2. CASE k \in Left
    BY <1>2, <2>2
  <2>3. CASE k \in Right
    BY <1>2, <2>3
  <2> QED BY <2>1, <2>2, <2>3
<1>5. Under(m) \subseteq S
  <2> HIDE DEF S
  <2> QED BY <1>3, <1>4, ByOperands
<1>6. L(m) # 0 => Under(L(m)) \subseteq Under(m)
  <2> SUFFICES ASSUME L(m) # 0 PROVE Under(L(m)) \subseteq Under(m)
    OBVIOUS
  <2>1. L(m) \in Node /\ Under(m) \in SUBSET Node /\ L(m) \in Under(m)
        /\ \A k \in Under(m) : {L(k), R(k)} \cap Node \subseteq Under(m)
    BY <1>1, Within
  <2> QED BY <2>1, ByOperands
<1>7. R(m) # 0 => Under(R(m)) \subseteq Under(m)
  <2> SUFFICES ASSUME R(m) # 0 PROVE Under(R(m)) \subseteq Under(m)
    OBVIOUS
  <2>1. R(m) \in Node /\ Under(m) \in SUBSET Node /\ R(m) \in Under(m)
        /\ \A k \in Under(m) : {L(k), R(k)} \cap Node \subseteq Under(m)
    BY <1>1, Within
  <2> QED BY <2>1, ByOperands
<1>8. L(m) = 0 => Under(m) = {m}
  BY <1>1, <1>5, Within DEF Left, Right
<1> QED BY <1>5, <1>6, <1>7, <1>8 DEF Left, Right

(* The operators in between are in the subexpression.                      *)
LEMMA Between ==
    ASSUME TypeOK, NEW m \in Node, NEW k \in Under(m), k # m
    PROVE  \E p \in Under(m) : k \in {L(p), R(p)}
<1> DEFINE S == {m} \cup {j \in Under(m) : \E p \in Under(m) : j \in {L(p), R(p)}}
<1>1. m \in Under(m) /\ Under(m) \in SUBSET Node
      /\ \A j \in Under(m) : {L(j), R(j)} \cap Node \subseteq Under(m)
  BY Within
<1>2. S \in SUBSET Node /\ m \in S /\ \A j \in S : {L(j), R(j)} \cap Node \subseteq S
  BY <1>1
<1>3. Under(m) \subseteq S
  <2> HIDE DEF S
  <2> QED BY <1>2, ByOperands
<1> QED BY <1>3

(* The numbers of a subexpression: those of the left operand are less than *)
(* those of the right one.                                                 *)
LEMMA Numbers ==
    ASSUME TypeOK, NEW m \in Node
    PROVE  /\ \A k \in Under(m) : k \in Nat /\ k >= m
           /\ R(m) # 0 => \A k \in Under(L(m)) : k < R(m)
<1>1. /\ Node \subseteq Nat /\ 0 \notin Node /\ m \in Nat
      /\ \A n \in Node : (L(n) # 0 => L(n) > n) /\ (R(n) # 0 => R(n) > n)
      /\ R(m) # 0 => R(m) \in Node /\ L(m) \in Node /\ L(m) > m
  BY Tree, Operand
<1>2. \A k \in Under(m) : k \in Nat /\ k >= m
  <2> DEFINE S == {k \in Node : k >= m}
  <2>1. S \in SUBSET Node /\ m \in S
    BY <1>1
  <2>2. \A k \in S : {L(k), R(k)} \cap Node \subseteq S
    <3> SUFFICES ASSUME NEW k \in S, NEW c \in {L(k), R(k)}, c \in Node PROVE c \in S
      OBVIOUS
    <3>1. k \in Nat /\ c \in Nat /\ c > k /\ k >= m
      BY <1>1
    <3> QED BY <1>1, <3>1
  <2>3. Under(m) \subseteq S
    <3> HIDE DEF S
    <3> QED BY <2>1, <2>2, ByOperands
  <2> QED BY <1>1, <2>3
<1>3. ASSUME R(m) # 0 PROVE \A k \in Under(L(m)) : k < R(m)
  <2> DEFINE S == {k \in Node : k > m /\ k < R(m)}
  <2>1. PICK x \in Cases : tree = x[1] /\ limit = x[2]
    BY DEF TypeOK
  <2>2. \A k \in m..(R(m) - 1) : L(k) < R(m) /\ (k # m => R(k) < R(m))
    <3>1. \A n \in DOMAIN x[1] : \A k \in n..(x[1][n].r - 1) :
                x[1][k].l < x[1][n].r /\ (k # n => x[1][k].r < x[1][n].r)
      BY PreorderAssumption
    <3>2. m \in DOMAIN x[1] /\ x[1][m].r = R(m)
      BY <2>1 DEF Node, R
    <3> QED BY <2>1, <3>1, <3>2 DEF L, R
  <2>3. S \in SUBSET Node /\ R(m) \in Nat /\ L(m) \in Node
    BY <1>1, <1>3
  <2>4. L(m) \in S
    <3>1. m \in m..(R(m) - 1)
      BY <1>1, <1>3, <2>3
    <3> QED BY <1>1, <1>3, <2>2, <3>1
  <2>5. \A k \in S : {L(k), R(k)} \cap Node \subseteq S
    <3> SUFFICES ASSUME NEW k \in S, NEW c \in {L(k), R(k)}, c \in Node PROVE c \in S
      OBVIOUS
    <3>1. k \in Nat /\ c \in Nat /\ c > k
      BY <1>1
    <3>2. k \in m..(R(m) - 1) /\ k # m
      BY <1>1, <2>3, <3>1
    <3>3. c < R(m)
      BY <2>2, <3>2
    <3> QED BY <1>1, <3>1, <3>3
  <2>6. Under(L(m)) \subseteq S
    <3> HIDE DEF S
    <3> QED BY <2>3, <2>4, <2>5, ByOperands
  <2> QED BY <2>6
<1> QED BY <1>2, <1>3

(* All nodes belong to the expression.                                     *)
LEMMA Whole == ASSUME TypeOK PROVE Under(Root) = Node
<1>1. Node \subseteq Nat /\ Root \in Node
  BY Tree
<1>2. Under(Root) \in SUBSET Node /\ Root \in Under(Root)
      /\ \A j \in Under(Root) : {L(j), R(j)} \cap Node \subseteq Under(Root)
  BY <1>1, Within
<1>3. PICK x \in Cases : tree = x[1] /\ limit = x[2]
  BY DEF TypeOK
<1> DEFINE S == Node \ Under(Root)
<1>4. ASSUME S # {} PROVE FALSE
  <2>1. S \in SUBSET Nat
    BY <1>1
  <2>2. Min(S) \in S /\ \A y \in S : Min(S) <= y
    <3> HIDE DEF S
    <3> QED BY <1>4, <2>1, Least
  <2> DEFINE k == Min(S)
  <2>3. k \in Node /\ k # Root /\ k \in DOMAIN x[1]
    BY <1>2, <1>3, <2>2 DEF Node
  <2>4. PICK p \in DOMAIN x[1] : k \in {x[1][p].l, x[1][p].r}
    BY <2>3, PreorderAssumption
  <2>5. p \in Node /\ k \in {L(p), R(p)} /\ p \in Nat /\ k \in Nat /\ k # 0
    BY <1>1, <1>3, <2>3, <2>4, Tree DEF Node, L, R
  <2>6. p < k
    BY <2>5, Tree
  <2>7. p \notin S
    BY <2>2, <2>5, <2>6
  <2> QED BY <1>2, <2>2, <2>3, <2>5, <2>7
<1> QED BY <1>2, <1>4

(* Each node but the root has one operator.                                *)
LEMMA Parents ==
    ASSUME TypeOK, NEW n \in Node, n # Root
    PROVE  /\ Parent(n) \in Node /\ n \in {L(Parent(n)), R(Parent(n))}
           /\ \A m \in Node : n \in {L(m), R(m)} => m = Parent(n)
<1>1. Root \in Node /\ n \in Under(Root) /\ Under(Root) \subseteq Node /\ 0 \notin Node
  BY Tree, Whole
<1>2. \E m \in Node : n \in {L(m), R(m)}
  BY <1>1, Between
<1>3. Parent(n) \in Node /\ n \in {L(Parent(n)), R(Parent(n))}
  BY <1>2 DEF Parent
<1>4. ASSUME NEW m \in Node, n \in {L(m), R(m)} PROVE m = Parent(n)
  BY <1>1, <1>3, <1>4, Order
<1> QED BY <1>3, <1>4

(* A subexpression is what it was.                                         *)
LEMMA Lasting == ASSUME fixed' = fixed PROVE Node' = Node /\ \A m \in Node : Under(m)' = Under(m)
<1>1. tree' = tree
  BY DEF fixed
<1> QED BY <1>1 DEF Under, Closes, Node, L, R

-----------------------------------------------------------------------------
(***************************************************************************)
(* The order in which subexpressions run.                                  *)
(***************************************************************************)

(* A node at rest; a subexpression that is done and joined, or has not begun. *)
Quiet == {"idle", "done"} \cup Dtor
Settled(m) == \A k \in Under(m) : pc[k] \in Quiet /\ Joined(k)
Untouched(m) == \A k \in Under(m) : pc[k] \in {"idle"} \cup Dtor /\ job[k] = "none"

(* The nodes that start_run reaches.                                       *)
Soon(n) == \A p \in Node : Op(p) \in Conditionals => n \notin Under(R(p))
Started(m) == \A k \in Under(m) : Soon(k) => pc[k] \in Past \cup Dtor

(* The right operand of a conditional begins when the left one has settled, *)
(* that of a pipe when the left one is up.                                 *)
InOrder == \A n \in Node : Op(n) \in Conditionals => Untouched(R(n)) \/ Settled(L(n))
UpFirst == \A n \in Node : Op(n) = "pipe" => Untouched(R(n)) \/ Started(L(n))

(* A part of IInv.                                                         *)
Ready == \A n \in Node : Fresh(n) /\ InTurn(n)

(* Nothing has begun below a node that has not.                            *)
LEMMA Idles ==
    ASSUME TypeOK, Ready, NEW m \in Node, pc[m] = "idle"
    PROVE  \A k \in Under(m) : pc[k] = "idle" /\ job[k] = "none"
<1> DEFINE S == {k \in Node : pc[k] = "idle"}
<1>1. S \in SUBSET Node /\ m \in S
  OBVIOUS
<1>2. \A k \in S : {L(k), R(k)} \cap Node \subseteq S
  BY DEF Ready, InTurn, Waits
<1>3. Under(m) \subseteq S
  <2> HIDE DEF S
  <2> QED BY <1>1, <1>2, ByOperands
<1> QED BY <1>3 DEF Ready, Fresh

(* All below a node that is done, or has not begun, is so and is joined.   *)
LEMMA Rests ==
    ASSUME TypeOK, Ready, Local, NEW m \in Node, pc[m] \in {"idle", "done"}
    PROVE  \A k \in Under(m) : pc[k] \in {"idle", "done"} /\ Joined(k)
<1> DEFINE S == {k \in Node : pc[k] \in {"idle", "done"} /\ Joined(k)}
<1>1. \A k \in Node : pc[k] \in {"idle", "done"} => Joined(k)
  <2> SUFFICES ASSUME NEW k \in Node, pc[k] \in {"idle", "done"} PROVE Joined(k)
    OBVIOUS
  <2>1. Stands(k) /\ Fresh(k)
    BY DEF Local, Ready
  <2> QED BY <2>1, DoneJoined DEF Fresh, Joined
<1>2. S \in SUBSET Node /\ m \in S
  BY <1>1
<1>3. \A k \in S : {L(k), R(k)} \cap Node \subseteq S
  <2> SUFFICES ASSUME NEW k \in S, NEW c \in {L(k), R(k)}, c \in Node PROVE pc[c] \in {"idle", "done"}
    BY <1>1
  <2>1. CASE pc[k] = "idle"
    BY <2>1 DEF Ready, InTurn, Waits
  <2>2. CASE pc[k] = "done"
    <3>1. Done(k) /\ TaskDone(k) /\ c # 0
      BY Tree DEF Local, Stands
    <3>2. CASE c = L(k)
      BY <2>2, <3>1, <3>2 DEF Done
    <3>3. CASE c = R(k)
      <4>1. Op(k) \in Conditionals \cup {"pipe"}
        BY <3>1, <3>3, Tree DEF Binary
      <4>2. Op(k) \in Conditionals => job[k] = "done"
        BY <2>2, <3>1 DEF Done
      <4>3. Op(k) = "pipe" => pc[R(k)] = "done"
        BY <2>2, <3>1 DEF Done
      <4>4. Op(k) \in Conditionals => pc[R(k)] \in {"idle", "done"}
        BY <2>2, <3>1, <4>2 DEF TaskDone, Past
      <4> QED BY <3>3, <4>1, <4>3, <4>4
    <3> QED BY <3>2, <3>3
  <2> QED BY <2>1, <2>2
<1>4. Under(m) \subseteq S
  <2> HIDE DEF S
  <2> QED BY <1>2, <1>3, ByOperands
<1> QED BY <1>4

(* What is up has all that start_run reaches below it up.                  *)
LEMMA Ups ==
    ASSUME TypeOK, Local, NEW m \in Node, pc[m] \in Past
    PROVE  Started(m)
<1> DEFINE S == {k \in Node : Soon(k) => pc[k] \in Past}
<1>1. S \in SUBSET Node /\ m \in S
  OBVIOUS
<1>2. \A k \in S : {L(k), R(k)} \cap Node \subseteq S
  <2> SUFFICES ASSUME NEW k \in S, NEW c \in {L(k), R(k)}, c \in Node, Soon(c) PROVE pc[c] \in Past
    OBVIOUS
  <2>1. Soon(k)
    <3> SUFFICES ASSUME NEW p \in Node, Op(p) \in Conditionals, k \in Under(R(p)) PROVE FALSE
      BY DEF Soon
    <3>1. R(p) \in Node
      BY Operand DEF Binary
    <3>2. c \in Under(R(p))
      BY <3>1, Within
    <3> QED BY <3>2 DEF Soon
  <2>2. pc[k] \in Past /\ Up(k) /\ c # 0
    BY <2>1, Tree DEF Local, Stands
  <2>3. CASE c = L(k)
    BY <2>2, <2>3 DEF Up
  <2>4. CASE c = R(k)
    <3>1. Op(k) \in Conditionals \cup {"pipe"}
      BY <2>2, <2>4, Tree DEF Binary
    <3>2. Op(k) \notin Conditionals
      <4>1. c \in Under(R(k))
        BY <2>4, Within
      <4> QED BY <4>1 DEF Soon
    <3>3. pc[k] # "right"
      BY <2>2 DEF Past
    <3> QED BY <2>2, <2>4, <3>1, <3>2, <3>3 DEF Up
  <2> QED BY <2>3, <2>4
<1>3. Under(m) \subseteq S
  <2> HIDE DEF S
  <2> QED BY <1>1, <1>2, ByOperands
<1> QED BY <1>3 DEF Started

-----------------------------------------------------------------------------
(* A node at rest can only be destroyed, and calls only for that.          *)
LEMMA OnlyDies ==
    ASSUME TypeOK, NEW n \in Node, Turn(n), pc[n] \in Quiet, Joined(n)
    PROVE  /\ pc[n] # "idle" /\ pc'[n] \in Dtor /\ job'[n] = job[n] /\ val'[n] = val[n]
           /\ \A c \in Node \ {n} : pc'[c] \in {pc[c], "dtor"}
<1>1. ~Leaving(n) /\ ~Starting(n) /\ ~Finishing(n)
  BY DEF Leaving, Starting, Finishing, Quiet, Dtor
<1>2. ~Tasking(n) /\ ~Working(n)
  BY DEF Tasking, Working, Joined
<1>3. CASE Dying(n)
  BY <1>3 DEF Dying, Moves, Asks, Has, Quiet, Dtor
<1>4. CASE Hosting(n)
  BY <1>4 DEF Hosting, Moves, Has, Quiet, Dtor
<1> QED BY <1>1, <1>2, <1>3, <1>4 DEF Turn

(* The operator of a node below m is below m, or is that of m.             *)
LEMMA CallerWithin ==
    ASSUME TypeOK, NEW m \in Node, NEW k \in Under(m), k # m, NEW n \in Node, k \in {L(n), R(n)}
    PROVE  n \in Under(m)
<1>1. k \in Node /\ k # 0 /\ Under(m) \in SUBSET Node
  BY Within, Tree
<1>2. PICK p \in Under(m) : k \in {L(p), R(p)}
  BY Between
<1>3. p = n
  BY <1>1, <1>2, Order
<1> QED BY <1>2, <1>3

(* Subexpressions at rest stay so, unless they are called.                 *)
LEMMA SettledStays ==
    ASSUME TypeOK, NEW n \in Node, Turn(n), NEW m \in Node, Settled(m), pc'[m] \in Quiet
    PROVE  Settled(m)'
<1>1. Node' = Node /\ Under(m)' = Under(m) /\ Under(m) \in SUBSET Node
  BY Lasting, Within DEF Turn, Only
<1> SUFFICES ASSUME NEW k \in Under(m) PROVE pc'[k] \in Quiet /\ Joined(k)'
  BY <1>1 DEF Settled, Quiet, Dtor
<1>2. k \in Node /\ pc[k] \in Quiet /\ Joined(k)
  BY <1>1 DEF Settled
<1>3. CASE k = n
  BY <1>2, <1>3, OnlyDies DEF Quiet, Joined
<1>4. CASE k # n
  <2>1. job'[k] = job[k]
    BY <1>2, <1>4, Elsewhere
  <2>2. pc'[k] \in Quiet
    <3>1. CASE k = m
      BY <3>1
    <3>2. CASE k # m /\ k \in {L(n), R(n)}
      <4>1. n \in Under(m)
        BY <3>2, CallerWithin
      <4>2. pc[n] \in Quiet /\ Joined(n)
        BY <4>1 DEF Settled
      <4> QED BY <1>2, <1>4, <4>2, OnlyDies DEF Quiet, Dtor
    <3>3. CASE k \notin {L(n), R(n)}
      BY <1>2, <1>4, <3>3, Elsewhere
    <3> QED BY <3>1, <3>2, <3>3
  <2> QED BY <1>2, <2>1, <2>2 DEF Joined
<1> QED BY <1>3, <1>4

(* Subexpressions that have not begun stay so, unless they are started.    *)
LEMMA UntouchedStays ==
    ASSUME TypeOK, NEW n \in Node, Turn(n), NEW m \in Node, Untouched(m), pc'[m] \in {"idle"} \cup Dtor
    PROVE  Untouched(m)'
<1>1. Node' = Node /\ Under(m)' = Under(m) /\ Under(m) \in SUBSET Node
  BY Lasting, Within DEF Turn, Only
<1> SUFFICES ASSUME NEW k \in Under(m) PROVE pc'[k] \in {"idle"} \cup Dtor /\ job'[k] = "none"
  BY <1>1 DEF Untouched, Dtor
<1>2. k \in Node /\ pc[k] \in {"idle"} \cup Dtor /\ job[k] = "none"
  BY <1>1 DEF Untouched
<1>3. CASE k = n
  BY <1>2, <1>3, OnlyDies DEF Quiet, Joined
<1>4. CASE k # n
  <2>1. job'[k] = job[k]
    BY <1>2, <1>4, Elsewhere
  <2>2. pc'[k] \in {"idle"} \cup Dtor
    <3>1. CASE k = m
      BY <3>1
    <3>2. CASE k # m /\ k \in {L(n), R(n)}
      <4>1. n \in Under(m)
        BY <3>2, CallerWithin
      <4>2. pc[n] \in {"idle"} \cup Dtor /\ job[n] = "none"
        BY <4>1 DEF Untouched
      <4>3. pc[n] \in Quiet /\ Joined(n)
        BY <4>2 DEF Quiet, Joined
      <4> QED BY <1>2, <1>4, <4>3, OnlyDies DEF Dtor
    <3>3. CASE k \notin {L(n), R(n)}
      BY <1>2, <1>4, <3>3, Elsewhere
    <3> QED BY <3>1, <3>2, <3>3
  <2> QED BY <1>2, <2>1, <2>2
<1> QED BY <1>3, <1>4

(* What has been started stays so.                                         *)
LEMMA StartedStays ==
    ASSUME TypeOK, Local, NEW n \in Node, Fresh(n), InTurn(n), Turn(n), NEW m \in Node, Started(m)
    PROVE  Started(m)'
<1>1. /\ Node' = Node /\ Under(m)' = Under(m) /\ Under(m) \in SUBSET Node
      /\ \A k \in Node : Under(k)' = Under(k) /\ Op(k)' = Op(k) /\ R(k)' = R(k)
  BY Lasting, Within, Same DEF Turn, Only
<1>2. \A k \in Node : Soon(k)' => Soon(k)
  <2> SUFFICES ASSUME NEW k \in Node, Soon(k)', NEW p \in Node, Op(p) \in Conditionals
               PROVE  k \notin Under(R(p))
    BY DEF Soon
  <2>1. R(p) \in Node
    BY Operand DEF Binary
  <2>2. Under(R(p))' = Under(R(p))
    BY Lasting DEF Turn, Only, fixed, R, Under, Closes, Node, L
  <2> QED BY <1>1, <2>2 DEF Soon, Conditionals
<1> SUFFICES ASSUME NEW k \in Under(m), Soon(k) PROVE pc'[k] \in Past \cup Dtor
  BY <1>1, <1>2 DEF Started, Past, Dtor
<1>3. k \in Node /\ pc[k] \in Past \cup Dtor /\ Stands(n)
  BY <1>1 DEF Started, Local
<1>4. CASE k = n
  <2>1. CASE n = Root /\ Hosting(n)
    BY <1>3, <1>4, <2>1 DEF Hosting, Moves, Past, Dtor
  <2>2. CASE ~Hosting(n)
    <3>1. CASE Leaving(n) \/ Starting(n)
      BY <1>3, <1>4, <3>1 DEF Leaving, Starting, Past, Dtor, Moves, Asks
    <3>2. CASE Tasking(n)
      BY <1>3, <1>4, <3>2 DEF Tasking, Moves, Asks
    <3>3. CASE Working(n)
      <4>1. Op(n) = "builtin" /\ job[n] = "run" => pc[n] = "runx"
        BY <1>3 DEF Stands, Kind, Jobs
      <4>2. pc'[n] = pc[n] \/ (Op(n) = "builtin" /\ job[n] = "run")
        BY <3>3 DEF Working, Moves
      <4> QED BY <1>3, <1>4, <4>1, <4>2 DEF Past, Dtor
    <3>4. CASE Finishing(n)
      BY <1>3, <1>4, <3>4 DEF Finishing, Past, Dtor, Moves, Asks
    <3>5. CASE Dying(n)
      BY <1>3, <1>4, <3>5 DEF Dying, Past, Dtor, Moves, Asks
    <3> QED BY <2>2, <3>1, <3>2, <3>3, <3>4, <3>5 DEF Turn
  <2> QED BY <2>1, <2>2 DEF Hosting
<1>5. CASE k \in {L(n), R(n)}
  <2>1. k # 0
    BY <1>3, Tree
  <2>2. pc'[k] = pc[k] \/ pc[k] = "idle" \/ pc'[k] \in {"fin", "dtor"}
    BY <1>3, <1>5, <2>1, Called
  <2> QED BY <1>3, <2>2 DEF Past, Dtor
<1>6. CASE k # n /\ k \notin {L(n), R(n)}
  BY <1>3, <1>6, Elsewhere
<1> QED BY <1>4, <1>5, <1>6

-----------------------------------------------------------------------------
(* A conditional starts its right operand when the left one is at rest.    *)
LEMMA InOrderStep ==
    ASSUME TypeOK, Ready, Local, InOrder, NEW n \in Node, Turn(n)
    PROVE  InOrder'
<1>1. Node' = Node /\ \A m \in Node : Op(m)' = Op(m) /\ L(m)' = L(m) /\ R(m)' = R(m)
  BY Same DEF Turn, Only
<1> SUFFICES ASSUME NEW m \in Node, Op(m) \in Conditionals,
                    NEW l, NEW r, l = L(m), r = R(m)
             PROVE  Untouched(r)' \/ Settled(l)'
  BY <1>1 DEF InOrder, Untouched, Settled, Conditionals
<1>2. /\ l = L(m) /\ r = R(m)
      /\ l \in Node \ {m} /\ r \in Node \ {m} /\ l # 0 /\ r # 0 /\ r # l
      /\ Stands(n) /\ Stands(m) /\ Fresh(n) /\ InTurn(n) /\ Fresh(m) /\ InTurn(m)
  BY Operand DEF Local, Ready, Binary
<1>3. CASE Untouched(r) /\ pc'[r] \in {"idle"} \cup Dtor
  BY <1>2, <1>3, UntouchedStays
<1>4. CASE Untouched(r) /\ pc'[r] \notin {"idle"} \cup Dtor
  <2>1. pc[r] \in {"idle"} \cup Dtor /\ job[r] = "none"
    BY <1>2, <1>4, Within DEF Untouched
  <2>2. n = m
    <3>1. r # n
      BY <1>2, <1>4, <2>1, OnlyDies DEF Quiet, Joined
    <3>2. r \in {L(n), R(n)}
      BY <1>2, <1>4, <2>1, <3>1, Elsewhere
    <3> QED BY <1>2, <3>2, Order
  <2>3. pc'[r] = "start"
    BY <1>2, <1>4, <2>1, <2>2, Called DEF Past, Dtor
  <2>4. job[m] = "left" /\ pc[l] = "done" /\ pc'[l] = pc[l]
    <3>1. ~Leaving(m) /\ ~Working(m) /\ ~Hosting(m) /\ ~Dying(m) /\ ~Finishing(m)
      BY <1>2, <1>4, <2>1, <2>3 DEF Leaving, Working, Hosting, Dying, Finishing, Moves, Asks
    <3>2. ~Starting(m)
      BY <1>2, <1>4, <2>1, <2>3 DEF Starting, Moves, Asks, Conditionals, Maps, Redirects
    <3>3. Tasking(m)
      BY <2>2, <3>1, <3>2 DEF Turn
    <3> QED BY <1>2, <1>4, <2>1, <2>3, <3>3 DEF Tasking, Moves, Asks
  <2>5. Settled(l) /\ pc'[l] \in Quiet
    BY <1>2, <2>4, Rests DEF Settled, Quiet
  <2> QED BY <1>2, <2>5, SettledStays
<1>5. CASE ~Untouched(r) /\ Settled(l)
  <2>1. pc[l] \in Quiet /\ Joined(l)
    BY <1>2, <1>5, Within DEF Settled
  <2>2. pc[r] # "idle"
    BY <1>2, <1>5, Idles DEF Untouched
  <2>3. pc'[l] \in Quiet
    <3> SUFFICES ASSUME pc'[l] \notin Quiet PROVE FALSE
      OBVIOUS
    <3>1. l # n
      BY <1>2, <2>1, OnlyDies DEF Quiet
    <3>2. l \in {L(n), R(n)}
      BY <1>2, <2>1, <3>1, Elsewhere
    <3>3. n = m
      BY <1>2, <3>2, Order
    <3>4. pc[m] \notin {"idle", "start", "left"} /\ job[m] # "left"
      <4>1. pc[m] \notin {"idle", "start"}
        BY <1>2, <2>2 DEF InTurn, Waits
      <4> QED BY <1>2, <2>2, <4>1 DEF InTurn, Waits
    <3>5. pc'[l] # "dtor" /\ pc'[l] # pc[l]
      BY <2>1 DEF Quiet, Dtor
    <3>6. ~Leaving(m) /\ ~Working(m) /\ ~Hosting(m) /\ ~Dying(m) /\ ~Tasking(m)
      BY <1>2, <3>4, <3>5 DEF Leaving, Working, Hosting, Dying, Tasking, Moves, Asks
    <3>7. ~Starting(m)
      BY <1>2, <3>4, <3>5 DEF Starting, Moves, Asks
    <3>8. ~Finishing(m)
      BY <1>2, <3>5 DEF Finishing, Moves, Asks, Conditionals, UnaryOps, Maps, Redirects
    <3> QED BY <3>3, <3>6, <3>7, <3>8 DEF Turn
  <2> QED BY <1>2, <1>5, <2>3, SettledStays
<1> QED BY <1>3, <1>4, <1>5 DEF InOrder

(* A pipe starts its right operand when the left one is up.                *)
LEMMA UpFirstStep ==
    ASSUME TypeOK, Ready, Local, UpFirst, NEW n \in Node, Turn(n)
    PROVE  UpFirst'
<1>1. Node' = Node /\ \A m \in Node : Op(m)' = Op(m) /\ L(m)' = L(m) /\ R(m)' = R(m)
  BY Same DEF Turn, Only
<1> SUFFICES ASSUME NEW m \in Node, Op(m) = "pipe", NEW l, NEW r, l = L(m), r = R(m)
             PROVE  Untouched(r)' \/ Started(l)'
  BY <1>1 DEF UpFirst, Untouched, Started
<1>2. /\ l = L(m) /\ r = R(m)
      /\ l \in Node \ {m} /\ r \in Node \ {m} /\ l # 0 /\ r # 0 /\ r # l
      /\ Stands(n) /\ Stands(m) /\ Fresh(n) /\ InTurn(n) /\ Fresh(m) /\ InTurn(m)
  BY Operand DEF Local, Ready, Binary
<1>3. CASE Untouched(r) /\ pc'[r] \in {"idle"} \cup Dtor
  BY <1>2, <1>3, UntouchedStays
<1>4. CASE Untouched(r) /\ pc'[r] \notin {"idle"} \cup Dtor
  <2>1. pc[r] \in {"idle"} \cup Dtor /\ job[r] = "none"
    BY <1>2, <1>4, Within DEF Untouched
  <2>2. n = m
    <3>1. r # n
      BY <1>2, <1>4, <2>1, OnlyDies DEF Quiet, Joined
    <3>2. r \in {L(n), R(n)}
      BY <1>2, <1>4, <2>1, <3>1, Elsewhere
    <3> QED BY <1>2, <3>2, Order
  <2>3. pc'[r] = "start"
    BY <1>2, <1>4, <2>1, <2>2, Called DEF Past, Dtor
  <2>4. pc[l] = "up"
    <3>1. ~Leaving(m) /\ ~Working(m) /\ ~Hosting(m) /\ ~Dying(m) /\ ~Finishing(m)
      BY <1>2, <1>4, <2>1, <2>3 DEF Leaving, Working, Hosting, Dying, Finishing, Moves, Asks
    <3>2. ~Tasking(m)
      BY <1>2 DEF Tasking, Stands, Kind, Jobs
    <3>3. Starting(m)
      BY <2>2, <3>1, <3>2 DEF Turn
    <3> QED BY <1>2, <1>4, <2>1, <2>3, <3>3 DEF Starting, Moves, Asks
  <2>5. Started(l)
    BY <1>2, <2>4, Ups DEF Past
  <2> QED BY <1>2, <2>5, StartedStays
<1>5. CASE Started(l)
  BY <1>2, <1>5, StartedStays
<1> QED BY <1>3, <1>4, <1>5 DEF UpFirst

-----------------------------------------------------------------------------
(***************************************************************************)
(* What is left when run() returns.                                        *)
(***************************************************************************)

(* The table holds what the wrappers hold.                                 *)
Wrapped == IsTable /\ \A n \in Node : Holds(n)

(* The nodes in D have been run, and have the status that their operands   *)
(* give them.                                                              *)
Says(n, D) ==
    /\ Op(n) \in {"bool", "builtin", "function"} => val[n] = tree[n].val
    /\ L(n) # 0 => L(n) \in D
    /\ Op(n) = "pipe" => R(n) \in D /\ val[n] = PipeResult(val[L(n)], val[R(n)])
    /\ Op(n) \in UnaryOps => val[n] = val[L(n)]
    /\ Op(n) \in Conditionals /\ StartRight(Op(n), val[L(n)]) => R(n) \in D /\ val[n] = val[R(n)]
    /\ Op(n) \in Conditionals /\ ~StartRight(Op(n), val[L(n)]) =>
            R(n) \notin D /\ val[n] = val[L(n)]
    /\ Op(n) \in Leaves => job[n] # "none"

(* D is the part of the expression that has been run.                      *)
Ran(D) ==
    /\ Root \in D /\ last = val[Root]
    /\ \A n \in D : Says(n, D)
    /\ \A n \in Node \ D : job[n] = "none" /\ {L(n), R(n)} \cap D = {}

(* When run() has returned, D are the nodes that it ran.                   *)
Returned ==
    host = "returned" =>
        /\ \A n \in Node : pc[n] \in Quiet /\ Joined(n) /\ own[n] = NoSlots
        /\ \E D \in SUBSET Node : Ran(D)

(* The inductive invariant.                                                *)
Sound == IInv /\ Local /\ Wrapped /\ InOrder /\ UpFirst /\ Returned

(* The actions of a node.                                                  *)
Act(n) ==
    StartLeaf(n) \/ StartNode(n) \/ Task(n) \/ Leaf(n) \/ Pump(n) \/ Finish(n) \/ Destruction(n)

(* Every action of a node is a turn of it, and keeps to its wrappers.      *)
LEMMA Acting ==
    ASSUME IInv, Local, Wrapped, NEW n \in Node, Act(n)
    PROVE  Turn(n) /\ Wraps(n) /\ \A m \in Node \ {n} : own'[m] = own[m]
<1>1. TypeOK /\ ValOK /\ Stands(n) /\ Kind(n) /\ Fresh(n) /\ IsTable /\ Holds(n)
  BY DEF IInv, Local, Wrapped, Stands
<1>2. Turn(n)
  BY <1>1, LeafTurns, NodeTurns, TaskTurns, FinishTurns DEF Act
<1>3. Wraps(n)
  BY <1>1, LeafWraps, NodeWraps, TaskWraps, FinishWraps DEF Act
<1>4. Kept(n)
  BY StartKeeps, TaskKeeps, FinishKeeps DEF Act
<1> QED BY <1>2, <1>3, <1>4 DEF Kept

(* run() calls finish_run, and the expression is destroyed.                *)
LEMMA HostCalls ==
    ASSUME IInv, Local, Wrapped, RunFinishes \/ Drop
    PROVE  Turn(Root) /\ Wraps(Root) /\ \A m \in Node \ {Root} : own'[m] = own[m]
<1>1. TypeOK /\ ValOK /\ Holds(Root) /\ IsTable /\ Root \in Node
  BY Tree DEF IInv, Local, Wrapped
<1>2. fixed' = fixed /\ UNCHANGED <<job, val, table>> /\ last' = last /\ host' = host
  BY DEF RunFinishes, Drop, rest
<1>3. \/ pc[Root] = "up" /\ Moves(Root, "fin") /\ DOMAIN pc' = Node
      \/ pc[Root] \in {"done", "threw", "failed"} /\ Moves(Root, "dtor") /\ DOMAIN pc' = Node
  BY <1>1, <1>2, Frame DEF RunFinishes, Drop
<1>4. Has(Root, job[Root], val[Root]) /\ Only(Root)
  BY <1>1, <1>2, <1>3 DEF Only, Has, TypeOK, ValOK
<1>5. Turn(Root)
  BY <1>3, <1>4 DEF Turn, Hosting
<1>6. Keeps(Root) /\ IsTable'
  BY <1>1, <1>2, Wrappers
<1>7. Op(Root)' = Op(Root) /\ Slots' = Slots /\ PumpEnd(Root)' = PumpEnd(Root)
  BY <1>1, <1>2, Same DEF Slots, Streams, PumpEnd
<1>8. Holds(Root)'
  BY <1>1, <1>2, <1>3, <1>6, <1>7 DEF Holds, Keeps, Moves
<1> QED BY <1>2, <1>5, <1>6, <1>8 DEF Wraps, Keeps, table

(* The wrappers of all nodes after a step of one.                          *)
LEMMA WrappedStep ==
    ASSUME TypeOK, Ready, Local, Wrapped, NEW n \in Node, Turn(n), Wraps(n),
           \A m \in Node \ {n} : own'[m] = own[m]
    PROVE  Wrapped'
<1>1. Node' = Node
  BY Same DEF Turn, Only
<1> SUFFICES ASSUME NEW m \in Node \ {n} PROVE Holds(m)'
  BY <1>1 DEF Wrapped, Wraps
<1>2. Op(m)' = Op(m) /\ Slots' = Slots /\ PumpEnd(m)' = PumpEnd(m)
  BY Same DEF Slots, Streams, PumpEnd, Turn, Only
<1>3. job'[m] = job[m] /\ own'[m] = own[m] /\ Holds(m) /\ Fresh(m)
  BY Elsewhere DEF Wrapped, Ready
<1>4. \/ pc'[m] = pc[m]
      \/ pc'[m] = "start" /\ pc[m] = "idle"
      \/ pc'[m] = "fin" /\ pc[m] \in Past \ Busy
      \/ pc'[m] = "dtor" /\ pc[m] \notin Busy
  <2>1. CASE m \in {L(n), R(n)}
    <3>1. m # 0 /\ Stands(n) /\ Fresh(n) /\ InTurn(n)
      BY Tree DEF Local, Ready
    <3> QED BY <2>1, <3>1, Called
  <2>2. CASE m \notin {L(n), R(n)}
    BY <2>2, Elsewhere
  <2> QED BY <2>1, <2>2
<1>5. pc[m] = "idle" => \A s \in Slots : own[m][s] = -1
  BY <1>3 DEF Fresh, NoSlots
<1> QED BY <1>2, <1>3, <1>4, <1>5 DEF Holds, Past, Busy

(* Nobody has a wrapper who has nothing to do with it.                     *)
LEMMA NoneHeld ==
    ASSUME TypeOK, NEW n \in Node, Holds(n), Fresh(n), pc[n] \in {"idle", "done", "gone"}, Joined(n)
    PROVE  own[n] = NoSlots
<1>1. own[n] \in [Slots -> Fd \cup {-1}]
  BY DEF TypeOK
<1>2. \A s \in Slots : s \in {"p0", "p1", "fd"} \cup Streams
  BY DEF Slots
<1>3. \A s \in Slots : own[n][s] = -1
  BY <1>2 DEF Holds, Fresh, NoSlots, Joined
<1> QED BY <1>1, <1>3 DEF NoSlots

(* When run() returns, the nodes that are done are those that have run.    *)
LEMMA Returning ==
    ASSUME TypeOK, Ready, Local, Wrapped, RunReturns
    PROVE  Returned'
<1>1. /\ tree' = tree /\ limit' = limit /\ pc' = pc /\ val' = val /\ job' = job /\ own' = own /\ fixed' = fixed
      /\ pc[Root] = "done" /\ last' = val[Root] /\ Root \in Node
  BY Tree DEF RunReturns, fixed, table
<1>2. \A n \in Node : pc[n] \in {"idle", "done"} /\ Joined(n)
  BY <1>1, Rests, Whole
<1>3. \A n \in Node : own[n] = NoSlots
  BY <1>2, NoneHeld DEF Ready, Wrapped
<1>0. PICK D : D = {n \in Node : pc[n] = "done"}
  OBVIOUS
<1>4. ASSUME NEW n \in D PROVE Says(n, D)
  <2>1. /\ Done(n) /\ TaskDone(n) /\ Jobs(n)
        /\ pc[n] = "done" /\ n \in Node
    BY <1>0 DEF Local, Stands, Kind
  <2>2. /\ L(n) # 0 => L(n) \in Node
        /\ R(n) # 0 => R(n) \in Node
        /\ R(n) = 0 <=> Op(n) \notin Binary
    BY <2>1, Tree
  <2>3. L(n) # 0 => L(n) \in D
    BY <1>0, <2>1, <2>2 DEF Done
  <2>4. Op(n) \in Conditionals => job[n] = "done"
    BY <2>1 DEF Done
  <2>5. Op(n) \in Conditionals /\ StartRight(Op(n), val[L(n)]) => R(n) \in D /\ val[n] = val[R(n)]
    BY <1>0, <2>1, <2>2, <2>4 DEF TaskDone, Past, Binary
  <2>6. Op(n) \in Conditionals /\ ~StartRight(Op(n), val[L(n)]) => R(n) \notin D /\ val[n] = val[L(n)]
    BY <2>1, <2>2, <1>0, <2>4 DEF TaskDone, Past, Binary
  <2>7. Op(n) = "pipe" => R(n) \in D /\ val[n] = PipeResult(val[L(n)], val[R(n)])
    BY <1>0, <2>1, <2>2 DEF Done, Binary
  <2>8. Op(n) \in UnaryOps => val[n] = val[L(n)]
    BY <2>1 DEF Done
  <2>9. Op(n) \in {"bool", "builtin", "function"} => val[n] = tree[n].val
    BY <2>1 DEF Done, Past
  <2>10. Op(n) \in Leaves => job[n] # "none"
    BY <2>1 DEF Done, Jobs, Past, Leaves
  <2> QED BY <2>3, <2>5, <2>6, <2>7, <2>8, <2>9, <2>10 DEF Says
<1>5. ASSUME NEW n \in Node \ D PROVE job[n] = "none" /\ {L(n), R(n)} \cap D = {}
  <2>1. pc[n] = "idle" /\ Fresh(n) /\ InTurn(n)
    BY <1>2, <1>0 DEF Ready
  <2>2. job[n] = "none" /\ Waits(n, L(n)) /\ Waits(n, R(n))
    BY <2>1 DEF Fresh, InTurn
  <2> QED BY <1>0, <2>2 DEF Waits
<1>6. D \in SUBSET Node /\ Root \in D
  BY <1>1, <1>0
<1>7. Node' = Node /\ \A m \in Node : Op(m)' = Op(m) /\ L(m)' = L(m) /\ R(m)' = R(m)
  BY <1>1, Same
<1>8. \A n \in D : Says(n, D)'
  BY <1>1, <1>4, <1>6, <1>7 DEF Says
<1>9. Ran(D)'
  BY <1>1, <1>5, <1>6, <1>7, <1>8 DEF Ran
<1>10. NoSlots' = NoSlots
  BY DEF NoSlots, Slots, Streams
<1> QED BY <1>1, <1>2, <1>3, <1>6, <1>7, <1>9, <1>10 DEF Returned, Quiet, Joined

(* After that there is nothing but destruction.                            *)
LEMMA ReturnedStep ==
    ASSUME TypeOK, TypeOK', Returned, NEW n \in Node, Turn(n), Wraps(n),
           \A m \in Node \ {n} : own'[m] = own[m]
    PROVE  Returned'
<1> SUFFICES ASSUME host' = "returned"
             PROVE  /\ \A m \in Node' : pc'[m] \in Quiet /\ Joined(m)' /\ own'[m] = NoSlots'
                    /\ \E D \in SUBSET Node' : Ran(D)'
  BY DEF Returned, Quiet, Dtor
<1>1. /\ host = "returned" /\ last' = last /\ tree' = tree
      /\ Node' = Node /\ \A m \in Node : Op(m)' = Op(m) /\ L(m)' = L(m) /\ R(m)' = R(m)
  BY Same DEF Turn, Only
<1>2. \A m \in Node : pc[m] \in Quiet /\ Joined(m) /\ own[m] = NoSlots
  BY <1>1 DEF Returned
<1>3. /\ pc[n] # "idle" /\ pc'[n] \in Dtor /\ job'[n] = job[n] /\ val'[n] = val[n]
      /\ \A c \in Node \ {n} : pc'[c] \in {pc[c], "dtor"}
  BY <1>2, OnlyDies
<1>4. \A m \in Node : job'[m] = job[m] /\ val'[m] = val[m] /\ pc'[m] \in Quiet
  BY <1>2, <1>3, Elsewhere DEF Quiet, Dtor
<1>5. NoSlots' = NoSlots /\ Slots' = Slots
  BY DEF NoSlots, Slots, Streams
<1>6. own'[n] = NoSlots
  <2>1. \A s \in Slots : own'[n][s] = -1
    BY <1>2 DEF Wraps, NoSlots, Quiet, Dtor
  <2>2. own'[n] \in [Slots -> Fd' \cup {-1}]
    BY <1>1, <1>5 DEF TypeOK
  <2> QED BY <2>1, <2>2 DEF NoSlots
<1>7. PICK D \in SUBSET Node : Ran(D)
  BY <1>1 DEF Returned
<1>8. Root \in Node
  BY Tree
<1>9. ASSUME NEW k \in D PROVE Says(k, D)'
  <2>1. Says(k, D) /\ k \in Node
    BY <1>7 DEF Ran
  <2>2. /\ L(k) # 0 => L(k) \in Node
        /\ R(k) # 0 => R(k) \in Node
        /\ R(k) = 0 <=> Op(k) \notin Binary
        /\ L(k) = 0 <=> Op(k) \in {"bool"} \cup Leaves
    BY <2>1, Tree
  <2> QED BY <1>1, <1>4, <2>1, <2>2
             DEF Says, Binary, UnaryOps, Conditionals, Leaves, Maps, Redirects
<1>10. Ran(D)'
  BY <1>1, <1>4, <1>7, <1>8, <1>9 DEF Ran
<1> QED BY <1>1, <1>2, <1>4, <1>5, <1>6, <1>10 DEF Joined

-----------------------------------------------------------------------------
(***************************************************************************)
(* The invariant.                                                          *)
(***************************************************************************)

(* In the beginning there is nothing but a start_run of the root.          *)
LEMMA InitSound == Init => Sound
<1> SUFFICES ASSUME Init PROVE Sound
  OBVIOUS
<1>1. IInv /\ TypeOK /\ Ready
  BY InitIInv DEF IInv, Ready
<1>2. /\ \A n \in Node : /\ pc[n] \in {"idle", "start"} /\ (pc[n] = "start" => n = Root)
                         /\ val[n] = 0 /\ job[n] = "none" /\ own[n] = NoSlots
      /\ host = "running" /\ DOMAIN val = Node
  BY DEF Init
<1>3. ASSUME NEW n \in Node PROVE Stands(n) /\ Holds(n)
  <2>1. ASSUME NEW c \in {L(n), R(n)}, c # 0 PROVE pc[c] = "idle"
    <3>1. c \in Node /\ c # Root
      BY <1>1, <2>1, Tree, Order
    <3> QED BY <1>2, <3>1
  <2>2. Kind(n) /\ Calls(n) /\ Up(n) /\ TaskDone(n) /\ Done(n) /\ Gone(n)
    BY <1>2, <2>1 DEF Kind, Stage, Jobs, Calls, Up, TaskDone, Done, Gone, Busy, Past
  <2>3. Holds(n)
    BY <1>2 DEF Holds, NoSlots
  <2> QED BY <2>2, <2>3 DEF Stands
<1>4. Local
  BY <1>2, <1>3 DEF Local, ValOK
<1>5. Wrapped
  BY <1>3 DEF Wrapped, IsTable, Init, Inherited
<1>6. ASSUME NEW n \in Node, R(n) # 0 PROVE Untouched(R(n))
  <2>1. R(n) \in Node /\ R(n) # Root
    BY <1>1, <1>6, Tree, Order
  <2>2. pc[R(n)] = "idle"
    BY <1>2, <2>1
  <2> QED BY <1>1, <2>1, <2>2, Idles DEF Untouched
<1>7. InOrder /\ UpFirst
  BY <1>1, <1>6, Operand DEF InOrder, UpFirst, Binary
<1>8. Returned
  BY <1>2 DEF Returned
<1> QED BY <1>1, <1>4, <1>5, <1>7, <1>8 DEF Sound

(* Where only the host's own state changes.                                *)
LEMMA Unmoved ==
    ASSUME TypeOK, Local, Wrapped, InOrder, UpFirst, UNCHANGED <<fixed, pc, job, val, table>>
    PROVE  Local' /\ Wrapped' /\ InOrder' /\ UpFirst'
<1>1. /\ tree' = tree /\ limit' = limit /\ pc' = pc /\ job' = job /\ val' = val /\ own' = own /\ fdt' = fdt
      /\ fixed' = fixed /\ Node' = Node /\ Fd' = Fd
      /\ \A m \in Node : Op(m)' = Op(m) /\ L(m)' = L(m) /\ R(m)' = R(m) /\ Under(m)' = Under(m)
  BY Same, Lasting DEF fixed, table, Fd
<1>2. \A m \in Node : Joined(m)' <=> Joined(m)
  BY <1>1 DEF Joined
<1>3. ASSUME NEW m \in Node PROVE Stands(m)'
  <2>1. Stands(m)
    BY DEF Local
  <2> QED BY <1>1, <1>2, <2>1
             DEF Stands, Kind, Stage, Jobs, Calls, Up, TaskDone, Done, Gone, Busy, Past
<1>4. Local'
  BY <1>1, <1>3 DEF Local, ValOK
<1>5. Slots' = Slots /\ \A m \in Node : PumpEnd(m)' = PumpEnd(m)
  BY <1>1 DEF Slots, Streams, PumpEnd
<1>6. Wrapped'
  BY <1>1, <1>5 DEF Wrapped, IsTable, Holds
<1>7. /\ \A m \in Node : Untouched(m) => Untouched(m)'
      /\ \A m \in Node : Settled(m) => Settled(m)'
  BY <1>1 DEF Untouched, Settled, Joined
<1>8. \A m \in Node : Started(m) => Started(m)'
  <2>1. \A k \in Node : Soon(k)' => Soon(k)
    <3> SUFFICES ASSUME NEW k \in Node, Soon(k)', NEW p \in Node, Op(p) \in Conditionals
                 PROVE  k \notin Under(R(p))
      BY DEF Soon
    <3>1. Under(R(p))' = Under(R(p))
      BY <1>1 DEF R, Under, Closes, Node, L
    <3> QED BY <1>1, <3>1 DEF Soon, Conditionals
  <2> QED BY <1>1, <2>1, Within DEF Started
<1>9. InOrder'
  <2> SUFFICES ASSUME NEW m \in Node, Op(m) \in Conditionals, NEW l, NEW r, l = L(m), r = R(m)
               PROVE  Untouched(r)' \/ Settled(l)'
    BY <1>1 DEF InOrder, Untouched, Settled, Conditionals
  <2>1. l \in Node /\ r \in Node /\ (Untouched(r) \/ Settled(l))
    BY Operand DEF InOrder, Binary
  <2> QED BY <1>7, <2>1
<1>10. UpFirst'
  <2> SUFFICES ASSUME NEW m \in Node, Op(m) = "pipe", NEW l, NEW r, l = L(m), r = R(m)
               PROVE  Untouched(r)' \/ Started(l)'
    BY <1>1 DEF UpFirst, Untouched, Started
  <2>1. l \in Node /\ r \in Node /\ (Untouched(r) \/ Started(l))
    BY Operand DEF UpFirst, Binary
  <2> QED BY <1>7, <1>8, <2>1
<1> QED BY <1>4, <1>6, <1>9, <1>10

(* The invariant is inductive.                                             *)
LEMMA NextSound == Sound /\ [Next]_vars => Sound'
<1> SUFFICES ASSUME Sound, [Next]_vars PROVE Sound'
  OBVIOUS
<1>1. IInv /\ IInv' /\ TypeOK /\ TypeOK' /\ Ready /\ Local /\ Wrapped /\ InOrder /\ UpFirst /\ Returned
  BY NextIInv DEF Sound, IInv, Ready
<1>2. ASSUME NEW n \in Node, Turn(n), Wraps(n), \A m \in Node \ {n} : own'[m] = own[m]
      PROVE  Sound'
  <2>1. Fresh(n) /\ InTurn(n)
    BY <1>1 DEF Ready
  <2>2. Local'
    BY <1>1, <1>2, <2>1, LocalStep
  <2>3. Wrapped'
    BY <1>1, <1>2, WrappedStep
  <2>4. InOrder' /\ UpFirst'
    BY <1>1, <1>2, InOrderStep, UpFirstStep
  <2>5. Returned'
    BY <1>1, <1>2, ReturnedStep
  <2> QED BY <1>1, <2>2, <2>3, <2>4, <2>5 DEF Sound
<1>3. ASSUME NEW n \in Node, Act(n) PROVE Sound'
  BY <1>1, <1>2, <1>3, Acting
<1>4. CASE RunFinishes \/ Drop
  <2>1. Root \in Node
    BY <1>1, Tree
  <2> QED BY <1>1, <1>2, <1>4, <2>1, HostCalls
<1>5. CASE RunReturns \/ RunThrows \/ UNCHANGED vars
  <2>1. UNCHANGED <<fixed, pc, job, val, table>>
    BY <1>5 DEF RunReturns, RunThrows, vars, fixed, table
  <2>2. Local' /\ Wrapped' /\ InOrder' /\ UpFirst'
    BY <1>1, <2>1, Unmoved
  <2>3. Returned'
    <3>1. CASE RunReturns
      BY <1>1, <3>1, Returning
    <3>2. CASE RunThrows
      BY <3>2 DEF RunThrows, Returned
    <3>3. CASE UNCHANGED vars
      <4>1. /\ tree' = tree /\ pc' = pc /\ job' = job /\ val' = val /\ own' = own /\ host' = host /\ last' = last
            /\ Node' = Node /\ NoSlots' = NoSlots
            /\ \A m \in Node : Op(m)' = Op(m) /\ L(m)' = L(m) /\ R(m)' = R(m)
        BY <3>3 DEF vars, Node, Op, L, R, NoSlots, Slots, Streams
      <4>2. ASSUME NEW D \in SUBSET Node, Ran(D) PROVE Ran(D)'
        BY <4>1, <4>2 DEF Ran, Says
      <4> QED BY <1>1, <4>1, <4>2 DEF Returned, Joined
    <3> QED BY <1>5, <3>1, <3>2, <3>3
  <2> QED BY <1>1, <2>2, <2>3 DEF Sound
<1> QED BY <1>3, <1>4, <1>5 DEF Next, Terminated, Act

(* So it holds of every state of every run.                                *)
LEMMA AlwaysSound == Spec => []Sound
<1>1. Sound /\ [Next]_vars => Sound'
  BY NextSound
<1> QED BY InitSound, <1>1, PTL DEF Spec

-----------------------------------------------------------------------------
(***************************************************************************)
(* The recursive functions of the model: LeavesOf and AtOnce.              *)
(***************************************************************************)

(* Induction over the nodes, from the last one to the first.               *)
LEMMA Downward ==
    ASSUME NEW N \in Nat, NEW S \in SUBSET (1..(N + 1)), N + 1 \in S,
           \A i \in 1..N : i + 1 \in S => i \in S
    PROVE  1 \in S
<1>1. S \in SUBSET Nat /\ S # {}
  OBVIOUS
<1>2. Min(S) \in S /\ \A y \in S : Min(S) <= y
  BY <1>1, Least
<1> DEFINE k == Min(S)
<1>3. k \in 1..(N + 1)
  BY <1>2
<1> HIDE DEF k
<1>4. CASE k # 1
  <2>1. k - 1 \in 1..N /\ (k - 1) + 1 = k
    BY <1>3, <1>4
  <2>2. k - 1 \in S
    BY <1>2, <2>1 DEF k
  <2>3. k <= k - 1
    BY <1>2, <2>2 DEF k
  <2> QED BY <1>3, <2>3
<1> QED BY <1>2, <1>4 DEF k

(* The nodes are numbered from 1.                                          *)
LEMMA Counted == ASSUME TypeOK PROVE \E N \in Nat : Node = 1..N
<1>1. PICK x \in Cases : tree = x[1] /\ limit = x[2]
  BY DEF TypeOK
<1>2. Node = 1..Len(x[1]) /\ Root \in DOMAIN x[1]
  BY <1>1, PreorderAssumption DEF Node
<1>3. Len(x[1]) \in Nat
  BY <1>1, <1>2, NothingShared
<1> QED BY <1>2, <1>3

(* The leaves of a subexpression are in it.                                *)
LEMMA LeavesUnder == ASSUME TypeOK PROVE \A n \in Node : LeavesOf[n] \subseteq Under(n)
<1> DEFINE Def(f) == [n \in Node |->
                        IF L(n) = 0 THEN {n} ELSE f[L(n)] \cup IF R(n) = 0 THEN {} ELSE f[R(n)]]
           g == [n \in Node |-> {k \in Under(n) : L(k) = 0}]
<1>1. g = Def(g)
  <2> SUFFICES ASSUME NEW n \in Node
               PROVE  {k \in Under(n) : L(k) = 0} =
                        IF L(n) = 0 THEN {n} ELSE g[L(n)] \cup IF R(n) = 0 THEN {} ELSE g[R(n)]
    OBVIOUS
  <2>1. /\ L(n) # 0 => L(n) \in Node
        /\ R(n) # 0 => R(n) \in Node
        /\ L(n) = 0 => R(n) = 0
    BY Tree, Operand DEF Binary
  <2>2. /\ \A k \in Under(n) : \/ k = n
                               \/ L(n) # 0 /\ k \in Under(L(n))
                               \/ R(n) # 0 /\ k \in Under(R(n))
        /\ L(n) # 0 => Under(L(n)) \subseteq Under(n)
        /\ R(n) # 0 => Under(R(n)) \subseteq Under(n)
        /\ L(n) = 0 => Under(n) = {n}
    BY Parts
  <2> QED BY <2>1, <2>2
<1>2. LeavesOf = CHOOSE f : f = Def(f)
  BY DEF LeavesOf
<1> HIDE DEF g, Def
<1>3. LeavesOf = Def(LeavesOf)
  BY <1>1, <1>2
<1> USE DEF Def
<1>4. PICK N \in Nat : Node = 1..N
  BY Counted
<1> DEFINE S == {i \in 1..(N + 1) : \A n \in Node : n >= i => LeavesOf[n] \subseteq Under(n)}
<1>5. S \in SUBSET (1..(N + 1)) /\ N + 1 \in S
  BY <1>4
<1>6. ASSUME NEW i \in 1..N, i + 1 \in S PROVE i \in S
  <2>1. ASSUME NEW n \in Node, n >= i + 1 PROVE LeavesOf[n] \subseteq Under(n)
    BY <1>6, <2>1
  <2>2. /\ i \in Node
        /\ L(i) # 0 => L(i) \in Node /\ L(i) > i
        /\ R(i) # 0 => R(i) \in Node /\ R(i) > i
    BY <1>4, Tree
  <2>3. /\ L(i) # 0 => LeavesOf[L(i)] \subseteq Under(L(i))
        /\ R(i) # 0 => LeavesOf[R(i)] \subseteq Under(R(i))
    BY <1>4, <2>1, <2>2
  <2>4. /\ L(i) # 0 => Under(L(i)) \subseteq Under(i)
        /\ R(i) # 0 => Under(R(i)) \subseteq Under(i)
        /\ L(i) = 0 => Under(i) = {i}
    BY <2>2, Parts
  <2>5. LeavesOf[i] = IF L(i) = 0 THEN {i} ELSE LeavesOf[L(i)] \cup IF R(i) = 0 THEN {} ELSE LeavesOf[R(i)]
    BY <1>3, <2>2
  <2>6. LeavesOf[i] \subseteq Under(i)
    BY <2>3, <2>4, <2>5
  <2>7. \A n \in Node : n >= i => n = i \/ n >= i + 1
    BY <1>4
  <2> QED BY <2>1, <2>6, <2>7
<1>7. 1 \in S
  <2> HIDE DEF S
  <2> QED BY <1>5, <1>6, Downward
<1> QED BY <1>4, <1>7

(* A node that AtOnce names is in the right operand of no conditional.     *)
LEMMA AtOnceSoon == ASSUME TypeOK PROVE \A n \in Node : AtOnce[n] => Soon(n)
<1> DEFINE Def(f) == [n \in Node |->
                n = Root \/ LET m == Parent(n) IN f[m] /\ ~(Op(m) \in Conditionals /\ n = R(m))]
           g == [n \in Node |-> Soon(n)]
<1>1. g = Def(g)
  <2> SUFFICES ASSUME NEW n \in Node
               PROVE  Soon(n) <=> n = Root \/ (g[Parent(n)] /\ ~(Op(Parent(n)) \in Conditionals /\ n = R(Parent(n))))
    BY DEF Soon
  <2>1. CASE n = Root
    <3>1. ASSUME NEW p \in Node, Op(p) \in Conditionals, n \in Under(R(p)) PROVE FALSE
      <4>1. R(p) \in Node /\ R(p) > p /\ p \in Nat /\ p > 0 /\ R(p) \in Nat
        BY <3>1, Operand, Tree DEF Binary
      <4>2. n >= R(p)
        BY <3>1, <4>1, Numbers
      <4> QED BY <2>1, <4>1, <4>2 DEF Root
    <3> QED BY <2>1, <3>1 DEF Soon
  <2>2. CASE n # Root
    <3> DEFINE m == Parent(n)
    <3>1. m \in Node /\ n \in {L(m), R(m)} /\ \A q \in Node : n \in {L(q), R(q)} => q = m
      BY <2>2, Parents
    <3> HIDE DEF m
    <3>2. ASSUME Soon(n) PROVE Soon(m) /\ ~(Op(m) \in Conditionals /\ n = R(m))
      <4>1. ASSUME NEW p \in Node, Op(p) \in Conditionals, m \in Under(R(p)) PROVE FALSE
        <5>1. R(p) \in Node
          BY <4>1, Operand DEF Binary
        <5>2. n \in Under(R(p))
          BY <3>1, <4>1, <5>1, Within
        <5> QED BY <3>2, <4>1, <5>2 DEF Soon
      <4>2. n \in Under(n)
        BY Within
      <4> QED BY <3>1, <3>2, <4>1, <4>2 DEF Soon
    <3>3. ASSUME Soon(m), ~(Op(m) \in Conditionals /\ n = R(m)) PROVE Soon(n)
      <4> SUFFICES ASSUME NEW p \in Node, Op(p) \in Conditionals, n \in Under(R(p)) PROVE FALSE
        BY DEF Soon
      <4>1. R(p) \in Node
        BY Operand DEF Binary
      <4>2. n # R(p)
        BY <3>1, <3>3
      <4>3. PICK q \in Under(R(p)) : n \in {L(q), R(q)}
        BY <4>1, <4>2, Between
      <4>4. q = m
        BY <3>1, <4>1, <4>3, Within
      <4> QED BY <3>3, <4>3, <4>4 DEF Soon
    <3>4. g[m] = Soon(m)
      BY <3>1
    <3> QED BY <2>2, <3>2, <3>3, <3>4 DEF m
  <2> QED BY <2>1, <2>2
<1>2. AtOnce = CHOOSE f : f = Def(f)
  BY DEF AtOnce
<1> HIDE DEF g, Def
<1>3. AtOnce = Def(AtOnce)
  BY <1>1, <1>2
<1> USE DEF Def
<1>4. Node \subseteq Nat
  BY Tree
<1> DEFINE S == {n \in Node : AtOnce[n] /\ ~Soon(n)}
<1>5. ASSUME S # {} PROVE FALSE
  <2>1. S \in SUBSET Nat
    BY <1>4
  <2>2. Min(S) \in S /\ \A y \in S : Min(S) <= y
    <3> HIDE DEF S
    <3> QED BY <1>5, <2>1, Least
  <2>3. PICK n \in S : \A y \in S : n <= y
    BY <2>2
  <2>4. n \in Node /\ AtOnce[n] /\ ~Soon(n)
    BY <2>3
  <2>5. g[n] = Def(g)[n] /\ (g[n] <=> Soon(n))
    BY <1>1, <2>4 DEF g
  <2>6. n # Root
    BY <2>4, <2>5
  <2>7. PICK m \in Node : m = Parent(n) /\ n \in {L(m), R(m)}
    BY <2>4, <2>6, Parents
  <2>8. AtOnce[n] <=> n = Root \/ (AtOnce[m] /\ ~(Op(m) \in Conditionals /\ n = R(m)))
    BY <1>3, <2>4, <2>7
  <2>9. m < n /\ m \in Nat /\ n \in Nat
    BY <2>4, <2>7, <1>4, Tree
  <2>10. m \notin S
    BY <2>3, <2>9
  <2>11. Soon(m) /\ ~(Op(m) \in Conditionals /\ n = R(m))
    BY <2>4, <2>6, <2>7, <2>8, <2>10
  <2>12. Soon(n)
    BY <2>5, <2>4, <2>7, <2>11 DEF g
  <2> QED BY <2>4, <2>12
<1> QED BY <1>5

-----------------------------------------------------------------------------
(***************************************************************************)
(* The recursive functions of the model: Status and Demanded.              *)
(***************************************************************************)

(* What Status says of a node, given what it says of the others.           *)
StatusOf(f, n) ==
    IF L(n) = 0 THEN IF Op(n) = "native" THEN val[n] ELSE tree[n].val
    ELSE IF \/ R(n) = 0
            \/ Op(n) = "or" /\ f[L(n)] = 0
            \/ Op(n) \in {"and", "pipe"} /\ f[L(n)] # 0
         THEN f[L(n)] ELSE f[R(n)]

(* Status is what its definition says: by induction there is such a function. *)
LEMMA StatusDefined == ASSUME TypeOK PROVE \A n \in Node : Status[n] = StatusOf(Status, n)
<1>1. PICK N \in Nat : Node = 1..N
  BY Counted
<1> DEFINE From(f, i) == f = [n \in Node |-> f[n]] /\ \A n \in Node : n >= i => f[n] = StatusOf(f, n)
           S == {i \in 1..(N + 1) : \E f : From(f, i)}
<1>2. N + 1 \in S
  <2> DEFINE g == [n \in Node |-> 0]
  <2>1. From(g, N + 1)
    BY <1>1
  <2> HIDE DEF From, g
  <2>2. N + 1 \in 1..(N + 1)
    OBVIOUS
  <2> QED BY <2>1, <2>2
<1>3. ASSUME NEW i \in 1..N, i + 1 \in S PROVE i \in S
  <2>1. PICK f : From(f, i + 1)
    BY <1>3
  <2> DEFINE v == StatusOf(f, i)
             g == [f EXCEPT ![i] = v]
  <2> HIDE DEF v
  <2>2. i \in Node /\ g = [n \in Node |-> g[n]] /\ g[i] = v /\ \A n \in Node \ {i} : g[n] = f[n]
    BY <1>1, <2>1
  <2> HIDE DEF g
  <2>3. ASSUME NEW n \in Node, n >= i PROVE StatusOf(g, n) = StatusOf(f, n)
    <3>1. /\ L(n) # 0 => L(n) \in Node /\ L(n) # i
          /\ R(n) # 0 => R(n) \in Node /\ R(n) # i
      BY <1>1, <2>3, Tree
    <3>2. /\ L(n) # 0 => g[L(n)] = f[L(n)]
          /\ R(n) # 0 => g[R(n)] = f[R(n)]
      BY <2>2, <3>1
    <3> QED BY <3>2 DEF StatusOf
  <2>4. ASSUME NEW n \in Node, n >= i PROVE g[n] = StatusOf(g, n)
    <3>1. CASE n = i
      BY <2>2, <2>3, <2>4, <3>1 DEF v
    <3>2. CASE n # i
      <4>1. n >= i + 1
        BY <1>1, <2>4, <3>2
      <4> QED BY <2>1, <2>2, <2>3, <2>4, <3>2, <4>1
    <3> QED BY <3>1, <3>2
  <2>5. From(g, i)
    BY <2>2, <2>4
  <2>6. i \in 1..(N + 1)
    OBVIOUS
  <2> HIDE DEF From
  <2> QED BY <2>5, <2>6
<1>4. 1 \in S
  <2>1. S \in SUBSET (1..(N + 1))
    OBVIOUS
  <2> HIDE DEF S
  <2> QED BY <1>2, <1>3, <2>1, Downward
<1>5. PICK g : g = [n \in Node |-> g[n]] /\ \A n \in Node : g[n] = StatusOf(g, n)
  BY <1>1, <1>4
<1> DEFINE Def(f) == [n \in Node |-> StatusOf(f, n)]
<1>6. g = Def(g)
  BY <1>5
<1>7. Status = CHOOSE f : f = Def(f)
  BY DEF Status, StatusOf
<1>8. Status = Def(Status)
  <2> HIDE DEF Def
  <2> QED BY <1>6, <1>7
<1> QED BY <1>8

(* When the task of a conditional goes on.                                 *)
LEMMA GoesOn ==
    ASSUME NEW v
    PROVE  /\ StartRight("and", v) <=> v = 0
           /\ StartRight("or", v) <=> v # 0
           /\ StartRight("comma", v)
BY DEF StartRight

(* The values of the nodes that have run are what the expression says.     *)
LEMMA Statuses ==
    ASSUME TypeOK, NEW D \in SUBSET Node, Ran(D)
    PROVE  \A n \in D : Status[n] = val[n]
<1>1. PICK N \in Nat : Node = 1..N
  BY Counted
<1> DEFINE S == {i \in 1..(N + 1) : \A n \in D : n >= i => Status[n] = val[n]}
<1>2. S \in SUBSET (1..(N + 1)) /\ N + 1 \in S
  BY <1>1
<1>3. ASSUME NEW i \in 1..N, i + 1 \in S PROVE i \in S
  <2>1. ASSUME NEW n \in D, n >= i + 1 PROVE Status[n] = val[n]
    BY <1>3, <2>1
  <2>2. ASSUME i \in D PROVE Status[i] = val[i]
    <3>1. Says(i, D) /\ i \in Node
      BY <2>2 DEF Ran
    <3>2. Status[i] = StatusOf(Status, i)
      BY <3>1, StatusDefined
    <3>3. /\ Op(i) \in {"bool"} \cup Leaves \cup UnaryOps \cup Binary
          /\ L(i) = 0 <=> Op(i) \in {"bool"} \cup Leaves
          /\ R(i) = 0 <=> Op(i) \notin Binary
          /\ L(i) # 0 => L(i) >= i + 1
          /\ R(i) # 0 => R(i) >= i + 1
      BY <1>1, <3>1, Tree
    <3>4. /\ L(i) # 0 => L(i) \in D /\ Status[L(i)] = val[L(i)]
          /\ R(i) # 0 /\ R(i) \in D => Status[R(i)] = val[R(i)]
      BY <2>1, <3>1, <3>3 DEF Says
    <3>5. CASE Op(i) \in {"bool"} \cup Leaves
      BY <3>1, <3>2, <3>3, <3>5 DEF StatusOf, Says, Leaves
    <3>6. CASE Op(i) \in UnaryOps
      <4>1. L(i) # 0 /\ R(i) = 0
        BY <3>3, <3>6 DEF UnaryOps, Binary, Leaves, Maps, Redirects, Conditionals
      <4> QED BY <3>1, <3>2, <3>4, <3>6, <4>1 DEF StatusOf, Says
    <3>7. CASE Op(i) \in Binary
      <4>1. L(i) # 0 /\ R(i) # 0
        BY <3>3, <3>7 DEF Binary, Leaves, Conditionals
      <4>2. CASE Op(i) = "pipe"
        BY <3>1, <3>2, <3>4, <4>1, <4>2 DEF StatusOf, Says, PipeResult
      <4>3. CASE Op(i) = "and"
        BY <3>1, <3>2, <3>4, <4>1, <4>3, GoesOn DEF StatusOf, Says, Conditionals
      <4>4. CASE Op(i) = "or"
        BY <3>1, <3>2, <3>4, <4>1, <4>4, GoesOn DEF StatusOf, Says, Conditionals
      <4>5. CASE Op(i) = "comma"
        BY <3>1, <3>2, <3>4, <4>1, <4>5, GoesOn DEF StatusOf, Says, Conditionals
      <4> QED BY <3>7, <4>2, <4>3, <4>4, <4>5 DEF Binary, Conditionals
    <3> QED BY <3>3, <3>5, <3>6, <3>7
  <2>3. \A n \in D : n >= i => n = i \/ n >= i + 1
    BY <1>1
  <2> QED BY <2>1, <2>2, <2>3
<1>4. 1 \in S
  <2> HIDE DEF S
  <2> QED BY <1>2, <1>3, Downward
<1> QED BY <1>1, <1>4

(* What Demanded says of a node, given what it says of its operator.       *)
DemandedOf(f, n) ==
    \/ n = Root
    \/ LET m == Parent(n)
       IN  /\ f[m]
           /\ n = R(m) /\ Op(m) = "and" => Status[L(m)] = 0
           /\ n = R(m) /\ Op(m) = "or" => Status[L(m)] # 0

(* The nodes that have run are those that the expression calls for.        *)
LEMMA DemandedRan ==
    ASSUME TypeOK, NEW D \in SUBSET Node, Ran(D)
    PROVE  \A n \in Node : Demanded[n] <=> n \in D
<1> DEFINE Def(f) == [n \in Node |-> DemandedOf(f, n)]
           g == [n \in Node |-> n \in D]
<1>0. Root \in D /\ \A n \in D : Status[n] = val[n]
  BY Statuses DEF Ran
<1>1. ASSUME NEW n \in Node PROVE n \in D <=> DemandedOf(g, n)
  <2>1. CASE n = Root
    BY <1>0, <2>1 DEF DemandedOf
  <2>2. CASE n # Root
    <3> DEFINE m == Parent(n)
    <3>1. m \in Node /\ n \in {L(m), R(m)} /\ n # 0
      BY <2>2, Parents, Tree
    <3> HIDE DEF m
    <3>2. CASE m \in D
      <4>1. Says(m, D) /\ L(m) # R(m)
        BY <3>1, <3>2, Family, Tree DEF Ran
      <4>2. L(m) # 0
        BY <3>1, Operand, Tree
      <4>3. L(m) \in D /\ Status[L(m)] = val[L(m)]
        BY <1>0, <4>1, <4>2 DEF Says
      <4>4. n = R(m) => Op(m) \in Binary
        BY <3>1, Tree
      <4>5. n = R(m) => (n \in D <=> /\ Op(m) = "and" => Status[L(m)] = 0
                                     /\ Op(m) = "or" => Status[L(m)] # 0)
        <5>1. CASE n = R(m) /\ Op(m) = "pipe"
          BY <4>1, <5>1 DEF Says
        <5>2. CASE n = R(m) /\ Op(m) = "and"
          BY <4>1, <4>3, <5>2, GoesOn DEF Says, Conditionals
        <5>3. CASE n = R(m) /\ Op(m) = "or"
          BY <4>1, <4>3, <5>3, GoesOn DEF Says, Conditionals
        <5>4. CASE n = R(m) /\ Op(m) = "comma"
          BY <4>1, <4>3, <5>4, GoesOn DEF Says, Conditionals
        <5> QED BY <4>4, <5>1, <5>2, <5>3, <5>4 DEF Binary, Conditionals
      <4>6. n # R(m) => n \in D
        BY <3>1, <4>3
      <4> QED BY <2>2, <3>1, <3>2, <4>5, <4>6 DEF m, DemandedOf
    <3>3. CASE m \notin D
      <4>1. n \notin D
        BY <3>1, <3>3 DEF Ran
      <4> QED BY <2>2, <3>1, <3>3, <4>1 DEF m, DemandedOf
    <3> QED BY <3>2, <3>3
  <2> QED BY <2>1, <2>2
<1>2. Demanded = CHOOSE f : f = Def(f)
  BY DEF Demanded, DemandedOf
<1>5. g = Def(g)
  <2> HIDE DEF g
  <2>1. ASSUME NEW n \in Node PROVE (n \in D) = DemandedOf(g, n)
    <3>1. DemandedOf(g, n) \in BOOLEAN
      BY DEF DemandedOf
    <3> QED BY <1>1, <3>1
  <2>2. g = [n \in Node |-> n \in D]
    BY DEF g
  <2>3. \A n \in Node : g[n] = DemandedOf(g, n)
    BY <2>1, <2>2
  <2> QED BY <2>2, <2>3
<1> HIDE DEF g, Def
<1>3. Demanded = Def(Demanded)
  BY <1>2, <1>5
<1> USE DEF Def
<1>4. Node \subseteq Nat
  BY Tree
<1> DEFINE S == {n \in Node : ~(Demanded[n] <=> n \in D)}
<1>6. ASSUME S # {} PROVE FALSE
  <2>1. S \in SUBSET Nat
    BY <1>4
  <2>2. Min(S) \in S /\ \A y \in S : Min(S) <= y
    <3> HIDE DEF S
    <3> QED BY <1>6, <2>1, Least
  <2>3. PICK n \in S : \A y \in S : n <= y
    BY <2>2
  <2>4. n \in Node /\ ~(Demanded[n] <=> n \in D)
    BY <2>3
  <2>5. CASE n = Root
    <3>1. Demanded[n]
      BY <1>3, <2>4, <2>5 DEF DemandedOf
    <3> QED BY <1>0, <2>4, <2>5, <3>1
  <2>6. CASE n # Root
    <3>1. PICK m \in Node : m = Parent(n) /\ n \in {L(m), R(m)}
      BY <2>4, <2>6, Parents
    <3>2. m < n /\ m \in Nat /\ n \in Nat
      BY <2>4, <3>1, <1>4, Tree
    <3>3. Demanded[m] <=> m \in D
      BY <2>3, <3>2
    <3>4. Demanded[n] <=> /\ Demanded[m]
                          /\ n = R(m) /\ Op(m) = "and" => Status[L(m)] = 0
                          /\ n = R(m) /\ Op(m) = "or" => Status[L(m)] # 0
      BY <1>3, <2>4, <2>6, <3>1 DEF DemandedOf
    <3>5. n \in D <=> /\ m \in D
                      /\ n = R(m) /\ Op(m) = "and" => Status[L(m)] = 0
                      /\ n = R(m) /\ Op(m) = "or" => Status[L(m)] # 0
      <4>1. (n \in D <=> DemandedOf(g, n)) /\ (g[m] <=> m \in D)
        BY <1>1, <2>4 DEF g
      <4> QED BY <2>4, <2>6, <3>1, <4>1 DEF DemandedOf
    <3> QED BY <2>4, <3>3, <3>4, <3>5
  <2> QED BY <2>5, <2>6
<1> QED BY <1>6

-----------------------------------------------------------------------------
(***************************************************************************)
(* What follows from the invariant.                                        *)
(***************************************************************************)

(* When the right operand of a conditional has a leaf with a task, the left *)
(* one is settled.                                                         *)
LEMMA SoundSequenced == Sound => Sequenced
<1> SUFFICES ASSUME Sound, NEW n \in Node, Op(n) \in Conditionals,
                    NEW a \in LeavesOf[L(n)], NEW b \in LeavesOf[R(n)], job[b] # "none"
             PROVE  job[a] \in {"none", "done", "failed", "reaped"}
  BY DEF Sequenced
<1>1. TypeOK /\ InOrder /\ L(n) \in Node /\ R(n) \in Node
  BY Operand DEF Sound, IInv, Binary
<1>2. a \in Under(L(n)) /\ b \in Under(R(n))
  BY <1>1, LeavesUnder
<1>3. Settled(L(n))
  BY <1>1, <1>2 DEF InOrder, Untouched
<1> QED BY <1>2, <1>3 DEF Settled, Joined

(* The nodes that have run are those that Demanded names, and their values *)
(* are those of Status.                                                    *)
LEMMA SoundDenotes == Sound => RunDenotes
<1> SUFFICES ASSUME Sound, host = "returned" PROVE RunDenotes
  BY DEF RunDenotes
<1>1. TypeOK
  BY DEF Sound, IInv
<1>2. PICK D \in SUBSET Node : Ran(D)
  BY DEF Sound, Returned
<1>3. last = Status[Root]
  BY <1>1, <1>2, Statuses DEF Ran
<1>4. ASSUME NEW n \in Node, Op(n) \in Leaves PROVE job[n] # "none" <=> Demanded[n]
  <2>1. Demanded[n] <=> n \in D
    BY <1>1, <1>2, DemandedRan
  <2> QED BY <1>2, <1>4, <2>1 DEF Ran, Says
<1> QED BY <1>3, <1>4 DEF RunDenotes

(* Two leaves are on the two sides of the operator where their ways from   *)
(* the root part, in the order of their numbers.                           *)
LEMMA Apart ==
    ASSUME TypeOK, NEW n \in Node, NEW m \in Node, n < m, L(n) = 0
    PROVE  \E p \in Node : Op(p) \in Binary /\ n \in Under(L(p)) /\ m \in Under(R(p))
<1> DEFINE S == {i \in Nat : \E p \in Node : i + p = m /\ {n, m} \subseteq Under(p)}
<1>1. Node \subseteq Nat /\ Root \in Node /\ Under(Root) = Node /\ n \in Nat /\ m \in Nat
  BY Tree, Whole
<1>2. m - Root \in S
  <2>1. m >= Root /\ m - Root \in Nat /\ (m - Root) + Root = m
    <3>1. 0 \notin Node
      BY Tree
    <3> QED BY <1>1, <3>1 DEF Root
  <2> QED BY <1>1, <2>1
<1>3. PICK i \in S : \A y \in S : i <= y
  <2>1. S \in SUBSET Nat /\ S # {}
    BY <1>2
  <2> HIDE DEF S
  <2> QED BY <2>1, Least
<1>4. PICK p \in Node : i + p = m /\ {n, m} \subseteq Under(p)
  BY <1>3
<1>5. ASSUME NEW q \in Node, q > p, {n, m} \subseteq Under(q) PROVE FALSE
  <2>1. m \in Nat /\ m >= q /\ p \in Nat /\ q \in Nat /\ i \in Nat
    BY <1>1, <1>3, <1>5, Numbers
  <2>2. m - q \in Nat /\ (m - q) + q = m /\ m - q < i
    BY <1>4, <1>5, <2>1
  <2>3. m - q \in S
    BY <1>5, <2>2
  <2> QED BY <1>3, <2>1, <2>2, <2>3
<1>6. p # n /\ p # m
  <2>1. Under(n) = {n}
    BY Parts
  <2>2. n >= p /\ p \in Nat
    BY <1>1, <1>4, Numbers
  <2> QED BY <1>1, <1>4, <2>1, <2>2
<1>7. /\ L(p) # 0 => L(p) \in Node /\ L(p) > p
      /\ R(p) # 0 => R(p) \in Node /\ R(p) > p /\ Op(p) \in Binary /\ L(p) # 0
      /\ p \in Nat
  BY <1>1, Tree, Operand
<1>8. \A k \in {n, m} : (L(p) # 0 /\ k \in Under(L(p))) \/ (R(p) # 0 /\ k \in Under(R(p)))
  BY <1>4, <1>6, Parts
<1>9. ~(L(p) # 0 /\ {n, m} \subseteq Under(L(p))) /\ ~(R(p) # 0 /\ {n, m} \subseteq Under(R(p)))
  BY <1>5, <1>7
<1>10. ~(R(p) # 0 /\ n \in Under(R(p)) /\ m \in Under(L(p)))
  <2> SUFFICES ASSUME R(p) # 0, n \in Under(R(p)), m \in Under(L(p)) PROVE FALSE
    OBVIOUS
  <2>1. m < R(p)
    BY Numbers
  <2>2. n >= R(p)
    BY <1>7, Numbers
  <2>3. R(p) \in Nat
    BY <1>1, <1>7
  <2> QED BY <1>1, <2>1, <2>2, <2>3
<1> QED BY <1>7, <1>8, <1>9, <1>10

(* Two leaves that start at once are the operands of one pipe, which starts *)
(* the right one when the left one is up.                                  *)
LEMMA SoundNoCow == Sound => NoCow
<1> SUFFICES ASSUME Sound, NEW n \in Node, NEW m \in Node, {Op(n), Op(m)} \subseteq Leaves,
                    AtOnce[n], n < m, pc[n] = "threw"
             PROVE  job[m] = "none"
  BY DEF NoCow
<1>1. TypeOK /\ InOrder /\ UpFirst
  BY DEF Sound, IInv
<1>2. Soon(n) /\ L(n) = 0
  BY <1>1, AtOnceSoon, Tree
<1>3. PICK p \in Node : Op(p) \in Binary /\ n \in Under(L(p)) /\ m \in Under(R(p))
  BY <1>1, <1>2, Apart
<1>4. ~Settled(L(p))
  BY <1>3 DEF Settled, Quiet, Dtor
<1>5. ~Started(L(p))
  BY <1>2, <1>3 DEF Started, Past, Dtor
<1>6. Untouched(R(p))
  BY <1>1, <1>3, <1>4, <1>5 DEF InOrder, UpFirst, Binary
<1> QED BY <1>3, <1>6 DEF Untouched

-----------------------------------------------------------------------------
(* No leaf of the right operand of && || , runs while one of the left operand *)
(* does: async_start's task calls finish_run of the left operand before    *)
(* start_run of the right one.                                             *)
THEOREM InSequence == Spec => []Sequenced
BY AlwaysSound, SoundSequenced, PTL
(* run() returns the exit code that the operators make of those of the     *)
(* commands, and runs the commands that they ask for and no other.         *)
THEOREM Denotes == Spec => []RunDenotes
BY AlwaysSound, SoundDenotes, PTL
(* When the start of a command throws out of start_run, none of the commands *)
(* to its right has been started.                                          *)
THEOREM NoCowAppears == Spec => []NoCow
BY AlwaysSound, SoundNoCow, PTL

-----------------------------------------------------------------------------
(***************************************************************************)
(* What reaches what.                                                      *)
(*                                                                         *)
(* WiredUp, Filled and HasCause are about expressions in which no pipe or mapping *)
(* contains && || , (Pipelines): outside them the task of a conditional calls *)
(* start_run with numbers that an operator above it has closed in the mean- *)
(* time.  The invariant is Sound, that start_run and finish_run nest as the *)
(* expression does (Orderly), that a command inside start_run has been given *)
(* numbers under which its files are found (Numbered), and that no item gets *)
(* lost between a program and a string (Flows).                            *)
(***************************************************************************)

-----------------------------------------------------------------------------
(***************************************************************************)
(* The order of start_run and finish_run between an operator and its       *)
(* operands, where no pipe and no mapping contains && || , : when a wrapper *)
(* is closed, nobody is inside the subexpression that may still name it.   *)
(***************************************************************************)

(* A subexpression without && || , .                                       *)
Straight(m) == \A k \in Under(m) : Op(k) \notin Conditionals

(* The expressions in which no pipe and no mapping contains && || , .      *)
Pipelines == \A n \in Node : Op(n) \in Maps \cup {"pipe"} => Straight(n)

(* Inside start_run; and the nodes whose numbers may yet be used.          *)
Going == {"start", "left", "right", "runx"}
Live(n) == pc[n] \in Going \/ job[n] = "left"

(* A subexpression in which nobody is live.                                *)
Resting == {"idle", "threw", "done", "failed"} \cup Dtor

(* A subexpression that is not inside start_run and has no conditional     *)
(* whose task could still start an operand.                                *)
Ended(m) ==
    /\ pc[m] \notin Going
    /\ Straight(m) \/ (pc[m] \in Resting /\ (Op(m) \in Conditionals => Joined(m)))

(* An operand is inside start_run only if its operator has called it.      *)
Nested(n) ==
    /\ L(n) # 0 /\ pc[L(n)] \in Going => pc[n] = "left"
    /\ R(n) # 0 /\ pc[R(n)] \in Going => pc[n] = "right" \/ job[n] = "right"

(* finish_run is called once, and after start_run.                         *)
Resumes(n) ==
    /\ Op(n) \in UnaryOps \cup {"pipe"} /\ pc[n] \in {"tail", "right", "up", "fin"} => pc[L(n)] = "up"
    /\ Op(n) = "pipe" /\ pc[n] \in {"up", "fin", "finL"} => pc[R(n)] = "up"

(* What is below a conditional or a redirection that has ended has ended.  *)
Rested(n) ==
    \/ Op(n) \in Conditionals /\ Joined(n) /\ pc[n] # "left"
    \/ Op(n) \in Redirects /\ pc[n] \notin {"left", "up", "fin", "finL"}

(* ... and a conditional reports an end only when its task has been joined. *)
EndsBelow(n) ==
    /\ Rested(n) => \A c \in {L(n), R(n)} \cap Node : Ended(c)
    /\ Op(n) \in Conditionals /\ pc[n] \in {"threw", "failed"} \cup Dtor => Joined(n)

(* Together: start_run and finish_run nest as the expression does.         *)
Orderly(n) == Nested(n) /\ Resumes(n) /\ EndsBelow(n)

(* The operands of such a subexpression are such, and it is no conditional. *)
LEMMA StraightParts ==
    ASSUME TypeOK, NEW n \in Node
    PROVE  /\ Straight(n) /\ L(n) # 0 => Straight(L(n))
           /\ Straight(n) /\ R(n) # 0 => Straight(R(n))
           /\ Straight(n) => Op(n) \notin Conditionals
BY Parts, Within DEF Straight

(* A node does not go back into start_run.                                 *)
LEMMA OwnGoing ==
    ASSUME TypeOK, NEW n \in Node, Stands(n), Fresh(n), Turn(n)
    PROVE  /\ pc[n] \notin Going => pc'[n] \notin Going
           /\ pc[n] \in Resting => pc'[n] \in Resting
           /\ pc'[n] = "start" => pc[n] = "start"
           /\ pc[n] = "up" => pc'[n] = "up" \/ n = Root
<1> USE DEF Going, Resting, Dtor, Moves, Asks
<1>1. Op(n) = "builtin" /\ job[n] = "run" => pc[n] = "runx"
  BY DEF Stands, Kind, Jobs
<1>2. CASE Leaving(n)
  BY <1>2 DEF Leaving
<1>3. CASE Starting(n)
  BY <1>3 DEF Starting
<1>4. CASE Tasking(n)
  BY <1>4 DEF Tasking
<1>5. CASE Working(n)
  <2>1. pc'[n] = pc[n] \/ (Op(n) = "builtin" /\ job[n] = "run" /\ pc'[n] \in {"up", "threw"})
    BY <1>5 DEF Working
  <2> QED BY <1>1, <2>1
<1>6. CASE Finishing(n)
  BY <1>6 DEF Finishing
<1>7. CASE Dying(n)
  BY <1>7 DEF Dying
<1>8. CASE Hosting(n)
  BY <1>8 DEF Hosting
<1> QED BY <1>2, <1>3, <1>4, <1>5, <1>6, <1>7, <1>8 DEF Turn

(* finish_run is called on what start_run has left.                        *)
LEMMA CalledUp ==
    ASSUME TypeOK, NEW n \in Node, Stands(n), Fresh(n), InTurn(n), Turn(n), Resumes(n),
           NEW c \in {L(n), R(n)}, c # 0, pc'[c] # pc[c], pc'[c] = "fin"
    PROVE  pc[c] = "up"
<1>1. c \in Node \ {n} /\ L(n) # 0 /\ L(n) # R(n)
  BY Operand, Tree
<1>2. CASE Leaving(n) \/ Working(n) \/ Hosting(n)
  BY <1>1, <1>2 DEF Leaving, Working, Hosting, Moves
<1>3. CASE Starting(n)
  BY <1>1, <1>3 DEF Starting, Moves, Asks
<1>4. CASE Tasking(n)
  BY <1>1, <1>4 DEF Tasking, Moves, Asks
<1>5. CASE Finishing(n)
  <2>1. \/ pc[n] = "fin" /\ Op(n) \in UnaryOps \cup {"pipe"} /\ c = L(n)
        \/ pc[n] = "finL" /\ Op(n) = "pipe" /\ c = R(n)
    BY <1>1, <1>5 DEF Finishing, Moves, Asks
  <2> QED BY <2>1 DEF Resumes
<1>6. CASE Dying(n)
  BY <1>1, <1>6 DEF Dying, Moves, Asks
<1> QED BY <1>2, <1>3, <1>4, <1>5, <1>6 DEF Turn

(* The subexpressions do not change.                                       *)
LEMMA StraightStays ==
    ASSUME TypeOK, fixed' = fixed
    PROVE  \A m \in Node : Straight(m)' <=> Straight(m)
<1>1. Node' = Node /\ \A m \in Node : Op(m)' = Op(m) /\ Under(m)' = Under(m) /\ Under(m) \in SUBSET Node
  BY Same, Lasting, Within
<1> QED BY <1>1 DEF Straight, Conditionals

(* What has ended stays so until it is started.                            *)
LEMMA EndedStays ==
    ASSUME TypeOK, NEW n \in Node, Stands(n), Fresh(n), InTurn(n), Turn(n), Resumes(n),
           NEW m \in Node, Ended(m), m \in {L(n), R(n)} => pc'[m] # "start"
    PROVE  pc'[m] \notin Going /\ (pc[m] \in Resting => pc'[m] \in Resting)
           /\ (Op(m) \in Conditionals /\ Joined(m) /\ pc[m] \in Resting => Joined(m)')
           /\ Ended(m)'
<1>1. fixed' = fixed /\ Op(m)' = Op(m) /\ (Straight(m)' <=> Straight(m)) /\ Op(n)' = Op(n)
  BY Same, StraightStays DEF Turn, Only
<1>2. CASE m = n
  <2>1. /\ pc'[m] \notin Going
        /\ pc[m] \in Resting => pc'[m] \in Resting
    BY <1>2, OwnGoing DEF Ended
  <2>2. Op(m) \in Conditionals /\ Joined(m) /\ pc[m] \in Resting => job'[m] = job[m]
    <3> USE DEF Resting, Dtor, Joined, Conditionals, Moves, Asks, Has
    <3>1. Jobs(m)
      BY <1>2 DEF Stands, Kind
    <3> QED BY <1>2, <3>1 DEF Turn, Leaving, Starting, Tasking, Working, Finishing, Dying, Hosting, Jobs
  <2> QED BY <1>1, <2>1, <2>2 DEF Ended, Going, Resting, Dtor, Joined, Conditionals
<1>3. CASE m # n
  <2>1. job'[m] = job[m]
    BY <1>3, Elsewhere
  <2>2. pc'[m] \notin Going /\ (pc[m] \in Resting => pc'[m] \in Resting)
    <3>1. CASE pc'[m] = pc[m]
      BY <3>1 DEF Ended
    <3>2. CASE pc'[m] # pc[m]
      <4>1. m \in {L(n), R(n)} /\ m # 0
        BY <1>3, <3>2, Elsewhere, Tree
      <4>2. (pc'[m] = "fin" /\ pc[m] = "up") \/ pc'[m] = "dtor"
        BY <3>2, <4>1, Called, CalledUp
      <4> QED BY <4>2 DEF Going, Resting, Dtor
    <3> QED BY <3>1, <3>2
  <2> QED BY <1>1, <2>1, <2>2 DEF Ended, Going, Resting, Dtor, Joined, Conditionals
<1> QED BY <1>2, <1>3

(* What is idle, has thrown, is done or has failed has ended.              *)
LEMMA EndedNow ==
    ASSUME TypeOK, NEW m \in Node, Stands(m), Fresh(m), EndsBelow(m),
           pc[m] \in {"idle", "threw", "done", "failed"}
    PROVE  Ended(m)
<1>1. Op(m) \in Conditionals => Joined(m)
  BY DoneJoined DEF Fresh, EndsBelow, Joined
<1> QED BY <1>1 DEF Ended, Going, Resting

(* The node that acts.                                                     *)
LEMMA OwnOrderly ==
    ASSUME TypeOK, NEW n \in Node, Stands(n), Fresh(n), InTurn(n), Turn(n), Orderly(n),
           \A c \in {L(n), R(n)} : c # 0 => Stands(c) /\ Fresh(c) /\ EndsBelow(c)
    PROVE  Orderly(n)'
<1>1. /\ tree' = tree /\ Node' = Node /\ Op(n)' = Op(n) /\ L(n)' = L(n) /\ R(n)' = R(n)
  BY Same DEF Turn, Only
<1>2. /\ L(n) # 0 => L(n) \in Node /\ L(n) # n
      /\ R(n) # 0 => R(n) \in Node /\ R(n) # n /\ L(n) # 0 /\ L(n) # R(n)
      /\ L(n) = 0 <=> Op(n) \in {"bool"} \cup Leaves
      /\ R(n) = 0 <=> Op(n) \notin Binary
  BY Tree, Order DEF Binary, Leaves, Conditionals
<1>3. /\ pc[n] \in {"idle", "start"} /\ L(n) # 0 => pc[L(n)] = "idle"
      /\ pc[n] \in {"idle", "start"} /\ R(n) # 0 => pc[R(n)] = "idle"
      /\ pc[n] = "left" \/ job[n] = "left" => (R(n) # 0 => pc[R(n)] = "idle")
      /\ pc[n] \in {"idle", "start", "left"} => job[n] = "none"
  BY Awaits
<1>4. \A c \in {L(n), R(n)} : c # 0 /\ pc[c] \in {"idle", "threw", "done", "failed"} => Ended(c)
  BY <1>2, EndedNow
<1>5. \A c \in {L(n), R(n)} : c # 0 /\ Ended(c) /\ pc'[c] # "start" => Ended(c)'
  BY <1>2, EndedStays DEF Orderly
<1>6. /\ Stage(n) /\ Jobs(n) /\ TaskDone(n) /\ Up(n)
      /\ Op(n) = "builtin" /\ job[n] = "run" => pc[n] = "runx"
  BY DEF Stands, Kind, Jobs
<1>7. Op(n) \in Conditionals /\ ~Joined(n) => pc[n] \in Past
  <2>1. Op(n) \in Conditionals /\ ~Joined(n) => pc[n] \notin {"idle", "start", "left", "threw", "failed"} \cup Dtor
    BY <1>3 DEF Orderly, EndsBelow, Joined
  <2> QED BY <1>6, <2>1 DEF Stage, Busy, Past, Dtor, UnaryOps, Conditionals, Maps, Redirects
<1> USE DEF Binary, UnaryOps, Maps, Redirects, Conditionals, Leaves, Moves, Asks, Has, Orderly
<1>8. Nested(n)'
  <2> USE DEF Nested, Going
  <2>1. CASE Leaving(n)
    BY <1>1, <1>2, <2>1 DEF Leaving
  <2>2. CASE Starting(n)
    BY <1>1, <1>2, <1>3, <2>2 DEF Starting
  <2>3. CASE Tasking(n)
    BY <1>1, <1>2, <1>3, <2>3 DEF Tasking
  <2>4. CASE Working(n)
    BY <1>1, <1>2, <1>6, <2>4 DEF Working
  <2>5. CASE Finishing(n)
    BY <1>1, <1>2, <2>5 DEF Finishing
  <2>6. CASE Dying(n)
    BY <1>1, <1>2, <2>6 DEF Dying
  <2>7. CASE Hosting(n)
    BY <1>1, <1>2, <2>7 DEF Hosting
  <2> QED BY <2>1, <2>2, <2>3, <2>4, <2>5, <2>6, <2>7 DEF Turn
<1>9. Resumes(n)'
  <2> USE DEF Resumes
  <2>1. CASE Leaving(n)
    BY <1>1, <1>2, <2>1 DEF Leaving
  <2>2. CASE Starting(n)
    <3>1. CASE pc'[n] \in {"left", "threw"}
      BY <1>1, <3>1
    <3>2. CASE Op(n) \in Conditionals
      BY <1>1, <3>2
    <3>3. CASE pc'[n] \notin {"left", "threw"} /\ Op(n) \notin Conditionals
      <4>1. \/ pc[n] = "left" /\ pc[L(n)] = "up" /\ pc'[L(n)] = "up" /\ (Op(n) = "pipe" => pc'[n] = "right")
            \/ pc[n] = "right" /\ pc[R(n)] = "up" /\ pc'[R(n)] = "up" /\ pc'[L(n)] = pc[L(n)]
            \/ pc[n] = "tail" /\ pc'[L(n)] = pc[L(n)]
        BY <1>2, <2>2, <3>3 DEF Starting
      <4>2. pc[n] = "tail" => Op(n) = "inmap"
        BY <1>6 DEF Stage
      <4>3. pc[n] = "right" => Op(n) = "pipe"
        BY <1>6 DEF Stage
      <4>4. pc'[n] \in {"right", "up", "tail"}
        BY <2>2, <3>3 DEF Starting
      <4> QED BY <1>1, <4>1, <4>2, <4>3, <4>4
    <3> QED BY <3>1, <3>2, <3>3
  <2>3. CASE Tasking(n)
    BY <1>1, <1>2, <1>3, <1>6, <2>3 DEF Tasking, Jobs
  <2>4. CASE Working(n)
    BY <1>1, <1>2, <1>6, <2>4 DEF Working
  <2>5. CASE Finishing(n)
    BY <1>1, <1>2, <2>5 DEF Finishing
  <2>6. CASE Dying(n)
    BY <1>1, <1>2, <2>6 DEF Dying
  <2>7. CASE Hosting(n)
    BY <1>1, <1>2, <2>7 DEF Hosting
  <2> QED BY <2>1, <2>2, <2>3, <2>4, <2>5, <2>6, <2>7 DEF Turn
<1>10. Op(n) \in Conditionals /\ pc'[n] \in {"threw", "failed"} \cup Dtor => Joined(n)'
  <2> USE DEF EndsBelow, Joined, Dtor
  <2>1. CASE Leaving(n) \/ Starting(n)
    BY <1>1, <1>2, <1>3, <2>1 DEF Leaving, Starting
  <2>2. CASE Tasking(n)
    BY <1>1, <1>2, <1>7, <2>2 DEF Tasking, Past
  <2>3. CASE Working(n)
    BY <1>1, <1>2, <1>6, <2>3 DEF Working, Jobs
  <2>4. CASE Finishing(n)
    <3>1. Op(n) \in Conditionals => pc[n] \notin {"finL", "finR"}
      BY <1>6 DEF Stage
    <3>2. Op(n) \in Conditionals => pc[n] = "fin" /\ job[n] \in {"reaped", "done", "failed"} /\ job'[n] = job[n]
      BY <2>4, <3>1 DEF Finishing
    <3> QED BY <1>1, <3>2
  <2>6. CASE Dying(n)
    BY <1>1, <1>2, <2>6 DEF Dying
  <2>5. CASE Hosting(n)
    BY <1>1, <1>2, <2>5, DoneJoined DEF Hosting
  <2> QED BY <2>1, <2>2, <2>3, <2>4, <2>5, <2>6 DEF Turn
<1>12. /\ Op(n) \in {"bool"} \cup Leaves \cup UnaryOps \cup Binary
       /\ job[n] = "right" => Op(n) \in Conditionals
  BY Tree, RightOf DEF Stands
<1>11. ASSUME Rested(n)', NEW c \in {L(n), R(n)}, c # 0 PROVE Ended(c)'
  <2>1. /\ pc'[c] # "start" /\ (pc[c] \in {"idle", "threw", "done", "failed"} \/ Ended(c)) => Ended(c)'
        /\ Rested(n) => Ended(c)
    <3>1. c \in Node /\ Rested(n) => Ended(c)
      BY <1>2, <1>11 DEF EndsBelow
    <3> QED BY <1>2, <1>4, <1>5, <1>11, <3>1
  <2>2. \/ Op(n) \in Conditionals /\ Joined(n)' /\ pc'[n] # "left"
        \/ Op(n) \in Redirects /\ pc'[n] \notin {"left", "up", "fin", "finL"}
    BY <1>1, <1>11 DEF Rested, Joined
  <2>3. CASE pc'[c] = "start"
    <3>1. pc'[n] = "right" => Op(n) = "pipe"
      <4>1. Stands(n)'
        BY OwnStands
      <4> QED BY <1>1, <4>1 DEF Stands, Kind, Stage
    <3>2. \/ c = L(n) /\ pc'[n] = "left"
          \/ c = R(n) /\ (pc'[n] = "right" \/ job'[n] = "right")
      BY <1>1, <1>8, <1>11, <2>3 DEF Nested, Going
    <3>3. c = R(n) => Op(n) \notin Redirects
      BY <1>2, <1>11
    <3> QED BY <2>2, <3>1, <3>2, <3>3 DEF Joined
  <2>4. CASE pc'[c] # "start" /\ Rested(n)
    BY <2>1, <2>4
  <2>5. CASE pc'[c] # "start" /\ ~Rested(n) /\ Op(n) \in Conditionals
    <3>1. (pc[n] = "left" \/ ~Joined(n)) /\ Joined(n)' /\ pc'[n] # "left"
      BY <2>2, <2>5 DEF Rested
    <3>2. pc[n] = "left" => Joined(n)
      BY <1>3 DEF Joined
    <3>3. CASE pc[n] = "left"
      <4>1. pc[L(n)] = "threw" /\ (R(n) # 0 => pc[R(n)] = "idle")
        BY <1>1, <1>2, <1>3, <2>5, <3>1, <3>3 DEF Turn, Leaving, Starting, Tasking, Working, Finishing, Dying, Hosting, Joined
      <4> QED BY <1>11, <2>1, <2>5, <4>1
    <3>4. CASE pc[n] # "left"
      <4>1. Tasking(n)
        BY <1>1, <1>2, <1>3, <1>6, <2>5, <3>1, <3>4 DEF Turn, Leaving, Starting, Working, Finishing, Dying, Hosting, Jobs, Joined
      <4>2. pc[n] \in Past /\ TaskDone(n)
        BY <1>6, <1>7, <2>5, <3>1, <3>4
      <4>3. /\ pc[L(n)] \in {"done", "failed"}
            /\ pc[R(n)] \in {"idle", "done", "threw", "failed"}
        BY <1>1, <1>2, <1>3, <2>5, <3>1, <4>1, <4>2 DEF Tasking, TaskDone, Joined
      <4> QED BY <1>11, <2>1, <2>5, <4>3
    <3> QED BY <3>3, <3>4
  <2>6. CASE pc'[c] # "start" /\ ~Rested(n) /\ Op(n) \in Redirects
    <3>1. pc[n] \in {"left", "up", "fin", "finL"} /\ pc'[n] \notin {"left", "up", "fin", "finL"}
      BY <2>2, <2>6 DEF Rested
    <3>2. c = L(n)
      BY <1>2, <1>11, <2>6
    <3>3. pc[c] \in {"threw", "done", "failed"}
      <4>1. job[n] = "none" /\ L(n) # 0 /\ pc[n] # "finR"
        BY <1>2, <1>6, <2>6, <3>1 DEF Jobs
      <4>2. CASE Starting(n)
        BY <2>6, <3>1, <3>2, <4>1, <4>2 DEF Starting
      <4>3. CASE Finishing(n)
        BY <2>6, <3>1, <3>2, <4>1, <4>3 DEF Finishing
      <4>4. CASE Dying(n) \/ Hosting(n)
        BY <3>1, <4>4 DEF Dying, Hosting
      <4> QED BY <4>1, <4>2, <4>3, <4>4 DEF Turn, Leaving, Tasking, Working
    <3> QED BY <2>1, <2>6, <3>3
  <2> QED BY <2>2, <2>3, <2>4, <2>5, <2>6
<1>13. EndsBelow(n)'
  <2>1. \A c \in {L(n), R(n)} \cap Node : Rested(n)' => Ended(c)'
    BY <1>11, Tree
  <2> QED BY <1>1, <1>10, <2>1 DEF EndsBelow, Dtor
<1> QED BY <1>8, <1>9, <1>13

(* Its operator.                                                           *)
LEMMA OperatorOrderly ==
    ASSUME TypeOK, NEW n \in Node, Stands(n), Fresh(n), InTurn(n), Turn(n), Resumes(n),
           NEW m \in Node, Orderly(m), n \in {L(m), R(m)}
    PROVE  Orderly(m)'
<1>1. /\ m # n /\ m \notin {L(n), R(n)} /\ n # Root /\ n # 0
      /\ \A c \in {L(n), R(n)} \cap {L(m), R(m)} : c = 0
  BY Order
<1>2. /\ tree' = tree /\ Node' = Node /\ Op(m)' = Op(m) /\ L(m)' = L(m) /\ R(m)' = R(m)
  BY Same DEF Turn, Only
<1>3. job'[m] = job[m] /\ pc'[m] = pc[m]
  BY <1>1, Elsewhere
<1>4. /\ pc[n] \notin Going => pc'[n] \notin Going
      /\ pc[n] = "up" => pc'[n] = "up"
  BY <1>1, OwnGoing
<1>5. ASSUME NEW c \in {L(m), R(m)}, c # 0
      PROVE  /\ pc[c] \notin Going => pc'[c] \notin Going
             /\ pc[c] = "up" => pc'[c] = "up"
             /\ Ended(c) => Ended(c)'
  <2>1. c \in Node /\ c \notin {L(n), R(n)}
    BY <1>1, <1>5, Tree
  <2>2. c # n => pc'[c] = pc[c]
    BY <1>1, <1>5, <2>1, Elsewhere
  <2>3. Ended(c) => Ended(c)'
    BY <2>1, EndedStays
  <2> QED BY <1>4, <2>2, <2>3
<1>6. /\ L(m) = 0 <=> Op(m) \in {"bool"} \cup Leaves
      /\ R(m) = 0 <=> Op(m) \notin Binary
  BY Tree
<1>7. Nested(m)'
  BY <1>2, <1>3, <1>5 DEF Orderly, Nested, Going
<1>8. Resumes(m)'
  BY <1>2, <1>3, <1>5, <1>6 DEF Orderly, Resumes, Binary, UnaryOps, Conditionals, Maps, Redirects, Leaves
<1>9. EndsBelow(m)'
  <2>1. Rested(m)' <=> Rested(m)
    BY <1>2, <1>3 DEF Rested, Joined, Conditionals, Redirects
  <2>2. \A c \in {L(m), R(m)} \cap Node : Rested(m) => Ended(c)'
    BY <1>5, Tree DEF Orderly, EndsBelow
  <2> QED BY <1>2, <1>3, <2>1, <2>2 DEF Orderly, EndsBelow, Joined, Conditionals, Dtor
<1> QED BY <1>7, <1>8, <1>9 DEF Orderly

(* An operand that it calls.                                               *)
LEMMA OperandOrderly ==
    ASSUME TypeOK, Pipelines, NEW n \in Node, Stands(n), Fresh(n), InTurn(n), Turn(n), Orderly(n),
           NEW m \in Node, Orderly(m), Fresh(m), Stands(m), m \in {L(n), R(n)}
    PROVE  Orderly(m)'
<1>1. /\ m # n /\ n \notin {L(m), R(m)} /\ m # 0
      /\ \A c \in {L(n), R(n)} \cap {L(m), R(m)} : c = 0
  BY Order
<1>2. /\ tree' = tree /\ Node' = Node /\ Op(m)' = Op(m) /\ L(m)' = L(m) /\ R(m)' = R(m)
  BY Same DEF Turn, Only
<1>3. job'[m] = job[m]
  BY <1>1, Elsewhere
<1>4. ASSUME NEW c \in {L(m), R(m)}, c # 0
      PROVE  pc'[c] = pc[c] /\ (Ended(c) => Ended(c)')
  <2>1. c \in Node /\ c \notin {L(n), R(n)} /\ c # n
    BY <1>1, <1>4, Tree
  <2> QED BY <2>1, Elsewhere, EndedStays DEF Orderly
<1>5. \/ pc'[m] = pc[m]
      \/ pc'[m] = "start" /\ pc[m] = "idle"
      \/ pc'[m] = "fin" /\ pc[m] = "up"
      \/ pc'[m] = "dtor" /\ pc[m] \notin Busy /\ Dying(n)
  BY <1>1, Called, CalledUp DEF Orderly
<1>6. /\ L(m) = 0 <=> Op(m) \in {"bool"} \cup Leaves
      /\ R(m) = 0 <=> Op(m) \notin Binary
      /\ R(m) # 0 => L(m) # 0
      /\ L(n) # 0
      /\ Op(n) \in UnaryOps \cup Binary
  BY <1>1, Tree DEF Binary, UnaryOps, Conditionals, Maps, Redirects, Leaves
<1>7. Nested(m)'
  BY <1>2, <1>3, <1>4, <1>5 DEF Orderly, Nested, Going, Busy
<1>8. Resumes(m)'
  BY <1>2, <1>3, <1>4, <1>5, <1>6 DEF Orderly, Resumes, Binary, UnaryOps, Conditionals, Maps, Redirects, Leaves
<1>9. Dying(n) /\ pc'[m] # pc[m] /\ ~Straight(m) => Ended(m)
  <2> SUFFICES ASSUME Dying(n), pc'[m] # pc[m], ~Straight(m) PROVE Ended(m)
    OBVIOUS
  <2>1. ~Straight(n)
    BY <1>1, StraightParts
  <2>2. Op(n) \in Conditionals \cup Redirects
    BY <1>6, <2>1 DEF Pipelines, Binary, UnaryOps
  <2>3. pc[n] \in {"dtor", "dtorR"}
    BY <1>1 DEF Dying, Moves
  <2>4. Rested(n) /\ m \in {L(n), R(n)} \cap Node
    BY <2>2, <2>3 DEF Rested, Orderly, EndsBelow, Dtor
  <2> QED BY <2>4 DEF Orderly, EndsBelow
<1>10. ASSUME Rested(m)', NEW c \in {L(m), R(m)} \cap Node PROVE Ended(c)'
  <2>0. c # 0
    BY Tree
  <2>1. \/ Op(m) \in Conditionals /\ Joined(m) /\ pc'[m] # "left"
        \/ Op(m) \in Redirects /\ pc'[m] \notin {"left", "up", "fin", "finL"}
    BY <1>2, <1>3, <1>10 DEF Rested, Joined, Conditionals, Redirects
  <2>2. CASE Rested(m)
    BY <1>4, <2>0, <2>2 DEF Orderly, EndsBelow
  <2>3. CASE ~Rested(m)
    <3>1. Op(m) \in Redirects /\ pc'[m] = "dtor" /\ pc[m] = "up" /\ Dying(n)
      BY <1>5, <2>1, <2>3 DEF Busy, Rested
    <3>2. Straight(m)
      BY <1>9, <3>1 DEF Ended, Resting, Dtor
    <3>3. c = L(m)
      BY <1>6, <2>0, <3>1 DEF Binary, Conditionals, Redirects
    <3>4. Straight(c) /\ pc[c] \notin Going
      BY <2>0, <3>1, <3>2, <3>3, StraightParts DEF Orderly, Nested
    <3> QED BY <1>4, <2>0, <3>4 DEF Ended
  <2> QED BY <2>2, <2>3
<1>12. Op(m) \in Conditionals /\ pc'[m] \in {"threw", "failed"} \cup Dtor => Joined(m)
  <2>1. Op(m) \in Conditionals => ~Straight(m)
    BY StraightParts
  <2> QED BY <1>5, <1>9, <2>1 DEF Orderly, EndsBelow, Dtor, Ended
<1>13. EndsBelow(m)'
  BY <1>2, <1>3, <1>10, <1>12 DEF EndsBelow, Joined, Dtor, Conditionals
<1> QED BY <1>7, <1>8, <1>13 DEF Orderly

(* The others.                                                             *)
LEMMA OrderlyStep ==
    ASSUME TypeOK, Pipelines, Local, Ready, NEW n \in Node, Turn(n), \A m \in Node : Orderly(m)
    PROVE  \A m \in Node : Orderly(m)'
<1>0. \A m \in Node : Stands(m) /\ Fresh(m) /\ InTurn(m) /\ Orderly(m) /\ EndsBelow(m)
  BY DEF Local, Ready, Orderly
<1> SUFFICES ASSUME NEW m \in Node PROVE Orderly(m)'
  OBVIOUS
<1>1. CASE m = n
  <2>1. \A c \in {L(n), R(n)} : c # 0 => Stands(c) /\ Fresh(c) /\ EndsBelow(c)
    BY <1>0, Tree
  <2> QED BY <1>0, <1>1, <2>1, OwnOrderly
<1>2. CASE n \in {L(m), R(m)}
  BY <1>0, <1>2, OperatorOrderly DEF Orderly
<1>3. CASE m \in {L(n), R(n)}
  BY <1>0, <1>3, OperandOrderly
<1>4. CASE m # n /\ n \notin {L(m), R(m)} /\ m \notin {L(n), R(n)}
  <2>1. /\ tree' = tree /\ Op(m)' = Op(m) /\ L(m)' = L(m) /\ R(m)' = R(m)
    BY Same DEF Turn, Only
  <2>2. job'[m] = job[m] /\ pc'[m] = pc[m]
    BY <1>4, Elsewhere
  <2>3. ASSUME NEW c \in {L(m), R(m)}, c # 0 PROVE pc'[c] = pc[c] /\ (Ended(c) => Ended(c)')
    <3>1. c \in Node
      BY <2>3, Tree
    <3>2. c # n /\ c # L(n) /\ c # R(n)
      BY <1>4, <2>3, Order
    <3>3. pc'[c] = pc[c]
      BY <3>1, <3>2, Elsewhere
    <3>4. Ended(c) => Ended(c)'
      BY <1>0, <3>1, <3>2, EndedStays DEF Orderly
    <3> QED BY <3>3, <3>4
  <2>4. /\ L(m) = 0 <=> Op(m) \in {"bool"} \cup Leaves
        /\ R(m) = 0 <=> Op(m) \notin Binary
    BY Tree
  <2>5. Nested(m)' /\ Resumes(m)'
    BY <1>0, <2>1, <2>2, <2>3, <2>4
       DEF Orderly, Nested, Resumes, Going, Binary, UnaryOps, Conditionals, Maps, Redirects, Leaves
  <2>6. EndsBelow(m)'
    <3>1. Rested(m)' <=> Rested(m)
      BY <2>1, <2>2 DEF Rested, Joined, Conditionals, Redirects
    <3>2. \A c \in {L(m), R(m)} \cap Node : Rested(m) => Ended(c)'
      BY <1>0, <2>3, Tree DEF EndsBelow
    <3>3. Node' = Node
      BY Same DEF Turn, Only
    <3> QED BY <1>0, <2>1, <2>2, <3>1, <3>2, <3>3 DEF EndsBelow, Joined, Conditionals, Dtor
  <2> QED BY <2>5, <2>6 DEF Orderly
<1> QED BY <1>1, <1>2, <1>3, <1>4

(* Nobody is live below what has ended.                                    *)
LEMMA NobodyLive ==
    ASSUME TypeOK, Pipelines, Local, \A k \in Node : Orderly(k), NEW m \in Node, Ended(m)
    PROVE  \A k \in Under(m) : ~Live(k)
<1> DEFINE S == {k \in Node : Ended(k)}
<1>1. S \in SUBSET Node /\ m \in S
  OBVIOUS
<1>2. \A k \in S : {L(k), R(k)} \cap Node \subseteq S
  <2> SUFFICES ASSUME NEW k \in S, NEW c \in {L(k), R(k)}, c \in Node PROVE Ended(c)
    OBVIOUS
  <2>1. k \in Node /\ Ended(k) /\ Orderly(k) /\ Stands(k) /\ c # 0
    BY Tree DEF Local
  <2>2. L(k) # 0 /\ (R(k) # 0 => Op(k) \in Binary)
    BY <2>1, Tree, Operand
  <2>3. Op(k) \in Conditionals \cup Redirects \cup Maps \cup {"pipe"}
    BY <2>1, <2>2, Tree DEF Binary, UnaryOps
  <2>4. Straight(k) => Straight(c)
    BY <2>1, StraightParts
  <2>5. CASE Op(k) \in Conditionals
    <3>1. pc[k] # "left" /\ Joined(k)
      BY <2>1, <2>5, StraightParts DEF Ended, Going
    <3> QED BY <2>1, <2>5, <3>1 DEF Orderly, EndsBelow, Rested
  <2>6. CASE Straight(k)
    <3>1. job[k] # "right"
      BY <2>1, <2>3, <2>6, StraightParts DEF Stands, Kind, Jobs
    <3>2. pc[c] \notin Going
      BY <2>1, <3>1 DEF Orderly, Nested, Ended, Going
    <3> QED BY <2>4, <2>6, <3>2 DEF Ended
  <2>7. CASE Op(k) \in Redirects /\ ~Straight(k)
    <3>1. pc[k] \notin {"left", "up", "fin", "finL"}
      BY <2>1, <2>7 DEF Ended, Resting, Dtor
    <3> QED BY <2>1, <2>7, <3>1 DEF Orderly, EndsBelow, Rested
  <2> QED BY <2>3, <2>5, <2>6, <2>7 DEF Pipelines
<1>3. Under(m) \subseteq S
  <2> HIDE DEF S
  <2> QED BY <1>1, <1>2, ByOperands
<1> SUFFICES ASSUME NEW k \in Under(m) PROVE ~Live(k)
  OBVIOUS
<1>4. k \in Node /\ Ended(k) /\ Stands(k)
  BY <1>3 DEF Local
<1>5. job[k] = "left" => Op(k) \in Conditionals
  <2>1. Op(k) \in {"bool"} \cup Leaves \cup UnaryOps \cup Binary
    BY <1>4, Tree
  <2> QED BY <1>4, <2>1 DEF Stands, Kind, Jobs, Leaves, UnaryOps, Binary
<1> QED BY <1>4, <1>5, StraightParts DEF Live, Ended, Joined

-----------------------------------------------------------------------------
(***************************************************************************)
(* What a step of one node does to the descriptors, to the arguments of    *)
(* start_run and to the files of the programs.                             *)
(***************************************************************************)

(* When n closes the wrappers S.                                           *)
Lets(n, S) ==
    \/ /\ S = {"p0", "p1"} /\ Op(n) \in Maps \cup {"pipe"} /\ pc'[n] # "left" /\ UNCHANGED job
       /\ \/ pc[n] = "start"
          \/ pc[n] = "left" /\ pc[L(n)] = "threw"
          \/ Op(n) = "pipe" /\ pc[n] = "right" /\ pc[R(n)] \in {"threw", "up"}
    \/ S = {"p1"} /\ Op(n) \in Maps \ {"inmap"} /\ pc[n] = "left" /\ pc[L(n)] = "up" /\ pc'[n] # "left"
    \/ S = {"p0"} /\ pc[n] = "tail"
    \/ S = {PumpEnd(n)} /\ Op(n) \in Maps /\ job[n] = "run" /\ job'[n] # "run"
    \/ S = Streams /\ job'[n] # "run"
    \/ /\ S = {"fd"}
       /\ \/ pc[n] = "finL" /\ pc[L(n)] \in {"done", "failed"}
          \/ pc[n] \in {"finR", "dtor"}

(* What a step of n does to the descriptors, to what the calls have been   *)
(* told of them, and to those of the programs.                             *)
OnTable(n) ==
    \/ UNCHANGED table
    \/ \E S \in SUBSET Slots : Close(n, S) /\ Lets(n, S)
    \/ StartPipe(n) \/ StartMapping(n) \/ StartRedirect(n) \/ StartFunction(n) \/ ForkFails(n)

(* No step but a call of start_run hands descriptors to a command.         *)
NoStart == \A m \in Node : pc'[m] \in {"start", "left"} => pc'[m] = pc[m]

(* The arguments of start_run change when an operator calls it.            *)
OnArg(n) ==
    \/ UNCHANGED arg /\ NoStart
    \/ StartPipe(n) \/ StartRightOfPipe(n) \/ StartMapping(n)
    \/ StartRedirect(n) \/ StartConditional(n) \/ TaskLeftDone(n)

(* The streams of a program are set by fork, and again when it has ended.  *)
OnStd(n) ==
    \/ UNCHANGED std
    \/ StartNative(n)
    \/ job'[n] # "run" /\ \E x : std' = [std EXCEPT ![n] = x]

(* A program or a function runs from its start_run on.                     *)
OnJob(n) ==
    Op(n) \in {"native", "function"} /\ job'[n] = "run" =>
        job[n] = "run" \/ StartNative(n) \/ StartFunction(n)

(* What a program has open it got from fork, and loses when it ends.       *)
OnKeeps(n) ==
    \/ UNCHANGED <<std, keeps>>
    \/ StartNative(n)
    \/ /\ job'[n] # "run"
       /\ \E x : std' = [std EXCEPT ![n] = x]
       /\ keeps' = [keeps EXCEPT ![n] = {}]

(* All of that.                                                            *)
Deals(n) == OnTable(n) /\ OnArg(n) /\ OnStd(n) /\ OnJob(n) /\ OnKeeps(n)

(* Every action of a node does no more than that with the descriptors.     *)
LEMMA Dealing == ASSUME IInv, Local, NEW n \in Node, Act(n) PROVE Deals(n)
<1>1. DOMAIN job = Node /\ DOMAIN pc = Node /\ Kind(n)
  BY DEF IInv, TypeOK, Local, Stands
<1>2. /\ {"p0", "p1"} \in SUBSET Slots /\ {"p0"} \in SUBSET Slots /\ {"p1"} \in SUBSET Slots
      /\ {"fd"} \in SUBSET Slots /\ Streams \in SUBSET Slots /\ {PumpEnd(n)} \in SUBSET Slots
  BY DEF Slots, PumpEnd
<1>0. /\ \A q, r : q \notin {"start", "left"} /\ Goto(r, q) => NoStart
      /\ \A q, m, c : {q, c} \cap {"start", "left"} = {} /\ Call(n, q, m, c) => NoStart
      /\ UNCHANGED pc => NoStart
  BY <1>1 DEF Goto, Call, NoStart
<1> USE <1>0, <1>1 DEF Deals, OnTable, OnArg, OnStd, OnJob, OnKeeps, table, programs, Maps
<1>3. ASSUME StartLeaf(n) PROVE Deals(n)
  <2>1. CASE StartBool(n) \/ StartBuiltin(n) \/ StartFunctionThrows(n) \/ StartNativeThrows(n)
    BY <2>1 DEF StartBool, StartBuiltin, StartFunctionThrows, StartNativeThrows
  <2>2. CASE StartFunction(n)
    BY <2>2 DEF StartFunction
  <2>3. CASE StartNative(n)
    BY <2>3 DEF StartNative
  <2>4. CASE ForkFails(n)
    BY <2>4 DEF ForkFails
  <2> QED BY <1>3, <2>1, <2>2, <2>3, <2>4 DEF StartLeaf
<1>4. ASSUME StartNode(n) PROVE Deals(n)
  <2>1. CASE StartPipe(n)
    BY <2>1 DEF StartPipe
  <2>2. CASE StartRightOfPipe(n)
    BY <2>2 DEF StartRightOfPipe
  <2>3. CASE PipeUp(n)
    <3>1. Close(n, {"p0", "p1"}) /\ Lets(n, {"p0", "p1"})
      BY <1>1, <2>3 DEF PipeUp, Lets, Goto
    <3> QED BY <1>2, <2>3, <3>1 DEF PipeUp
  <2>4. CASE PipeThrows(n)
    <3>1. Close(n, {"p0", "p1"}) /\ Lets(n, {"p0", "p1"})
      BY <1>1, <2>4 DEF PipeThrows, Lets, Goto
    <3> QED BY <1>2, <2>4, <3>1 DEF PipeThrows
  <2>5. CASE StartMapping(n)
    BY <2>5 DEF StartMapping
  <2>6. CASE StartPump(n)
    <3>1. UNCHANGED table \/ (Close(n, {"p1"}) /\ Lets(n, {"p1"}))
      BY <1>1, <2>6 DEF StartPump, Lets, Goto
    <3> QED BY <1>2, <2>6, <3>1 DEF StartPump
  <2>7. CASE InMappingUp(n)
    <3>1. Close(n, {"p0"}) /\ Lets(n, {"p0"})
      BY <2>7 DEF InMappingUp, Lets
    <3> QED BY <1>2, <2>7, <3>1 DEF InMappingUp
  <2>8. CASE MappingThrows(n)
    <3>1. Close(n, {"p0", "p1"}) /\ Lets(n, {"p0", "p1"})
      BY <1>1, <2>8 DEF MappingThrows, Lets, Goto
    <3> QED BY <1>2, <2>8, <3>1 DEF MappingThrows
  <2>9. CASE StartRedirect(n)
    BY <2>9 DEF StartRedirect
  <2>10. CASE StartConditional(n)
    BY <2>10 DEF StartConditional
  <2>11. CASE ConditionalUp(n) \/ RedirectUp(n) \/ PassThrow(n)
    BY <2>11 DEF ConditionalUp, RedirectUp, PassThrow
  <2> QED BY <1>4, <2>1, <2>2, <2>3, <2>4, <2>5, <2>6, <2>7, <2>8, <2>9, <2>10, <2>11 DEF StartNode
<1>5. ASSUME Task(n) PROVE Deals(n)
  BY <1>5 DEF Task, TaskLeftDone, TaskRightUp, TaskRightDone, TaskFails
<1>6. ASSUME Leaf(n) PROVE Deals(n)
  <2>1. ASSUME NEW v, ProcessEnds(n, v) PROVE Deals(n)
    BY <1>1, <2>1 DEF ProcessEnds
  <2>2. CASE ProgramEnds(n)
    BY <2>1, <2>2 DEF ProgramEnds
  <2>3. CASE \E k \in {"out", "err"} : LeafBreaks(n, k)
    BY <2>1, <2>3 DEF LeafBreaks
  <2>4. CASE FunctionEnds(n)
    <3>1. UNCHANGED table \/ (Close(n, Streams) /\ Lets(n, Streams))
      BY <1>1, <2>4 DEF FunctionEnds, Lets
    <3> QED BY <1>2, <2>4, <3>1 DEF FunctionEnds
  <2>5. CASE LeafReads(n) \/ LeafSeesEof(n) \/ (\E k \in {"out", "err"} : LeafWrites(n, k))
             \/ BuiltinEnds(n) \/ Reap(n)
    BY <2>5 DEF LeafReads, LeafSeesEof, LeafWrites, BuiltinEnds, Reap
  <2> QED BY <1>6, <2>2, <2>3, <2>4, <2>5 DEF Leaf
<1>7. ASSUME Pump(n) PROVE Deals(n)
  <2>1. ASSUME Pumping(n), NEW j \in {"done", "failed"}, PumpEnds(n, j) PROVE Deals(n)
    <3>1. Close(n, {PumpEnd(n)}) /\ Lets(n, {PumpEnd(n)})
      BY <1>1, <2>1 DEF PumpEnds, Pumping, Lets
    <3> QED BY <1>2, <2>1, <3>1 DEF PumpEnds, Pumping
  <2>2. CASE PumpDone(n) \/ PumpFails(n)
    BY <2>1, <2>2 DEF PumpDone, PumpFails
  <2>3. CASE Feed(n) \/ FeedBreaks(n) \/ Collect(n)
    BY <2>3 DEF Feed, FeedBreaks, Collect
  <2> QED BY <1>7, <2>2, <2>3 DEF Pump
<1>8. ASSUME Finish(n) PROVE Deals(n)
  <2>1. CASE FinishGet(n)
    <3>1. Close(n, Streams) /\ Lets(n, Streams)
      BY <2>1 DEF FinishGet, Lets
    <3> QED BY <1>2, <2>1, <3>1 DEF FinishGet
  <2>2. CASE FinishUnary(n)
    <3>1. Close(n, {"fd"}) /\ Lets(n, {"fd"})
      BY <2>2 DEF FinishUnary, Lets
    <3> QED BY <1>2, <2>2, <3>1 DEF FinishUnary
  <2>3. CASE FinishThrows(n)
    <3>1. Close(n, {"fd"}) /\ Lets(n, {"fd"})
      BY <2>3 DEF FinishThrows, Lets
    <3> QED BY <1>2, <2>3, <3>1 DEF FinishThrows
  <2>4. CASE FinishAtOnce(n) \/ FinishOperand(n) \/ FinishRight(n) \/ FinishPipe(n)
    BY <2>4 DEF FinishAtOnce, FinishOperand, FinishRight, FinishPipe
  <2> QED BY <1>8, <2>1, <2>2, <2>3, <2>4 DEF Finish
<1>9. ASSUME Destruction(n) PROVE Deals(n)
  <2>1. CASE Destroy(n)
    <3>1. Close(n, {"fd"}) /\ Lets(n, {"fd"})
      BY <2>1 DEF Destroy, Lets
    <3> QED BY <1>2, <2>1, <3>1 DEF Destroy
  <2>2. CASE Join(n)
    <3>1. Close(n, Streams) /\ Lets(n, Streams)
      BY <2>2 DEF Join, Joined, Lets
    <3> QED BY <1>2, <2>2, <3>1 DEF Join
  <2>3. CASE DestroyLeft(n) \/ OperandsGone(n)
    BY <2>3 DEF DestroyLeft, OperandsGone
  <2> QED BY <1>9, <2>1, <2>2, <2>3 DEF Destruction
<1> QED BY <1>3, <1>4, <1>5, <1>6, <1>7, <1>8, <1>9 DEF Act

-----------------------------------------------------------------------------
(***************************************************************************)
(* The files that an expression gives to each of its commands.             *)
(***************************************************************************)

(* Want, one step: what an operand is to have, given what its operator is. *)
WantFrom(w, m, n) ==
    IF Op(m) = "inmap" \/ (Op(m) = "pipe" /\ n = R(m)) THEN [w EXCEPT !.in = PipeR(m)]
    ELSE IF Op(m) \in {"pipe", "outmap"} THEN [w EXCEPT !.out = PipeW(m)]
    ELSE IF Op(m) = "errmap" THEN [w EXCEPT !.err = PipeW(m)]
    ELSE IF Op(m) = "inred" THEN [w EXCEPT !.in = OpenFile(m)]
    ELSE IF Op(m) = "outred" THEN [w EXCEPT !.out = OpenFile(m)]
    ELSE IF Op(m) = "errred" THEN [w EXCEPT !.err = OpenFile(m)]
    ELSE w

(* Want, from the root down.                                               *)
WantOf(f, n) ==
    IF n = Root THEN [k \in Streams |-> Tty(k)] ELSE WantFrom(f[Parent(n)], Parent(n), n)

(* Induction over the nodes, from the first one to the last.               *)
LEMMA Upwards ==
    ASSUME TypeOK, NEW S \in SUBSET Node,
           \A n \in Node : (\A m \in Node : m < n => m \in S) => n \in S
    PROVE  S = Node
<1> DEFINE T == Node \ S
<1>1. Node \subseteq Nat
  BY Tree
<1>2. ASSUME T # {} PROVE FALSE
  <2>1. Min(T) \in T /\ \A y \in T : Min(T) <= y
    <3>1. T \in SUBSET Nat
      BY <1>1
    <3> HIDE DEF T
    <3> QED BY <1>2, <3>1, Least
  <2>2. PICK x \in T : \A y \in T : x <= y
    BY <2>1
  <2>3. ASSUME NEW m \in Node, m < x PROVE m \in S
    <3>1. m \in Nat /\ x \in Nat /\ ~(x <= m)
      BY <1>1, <2>3
    <3> QED BY <2>2, <3>1
  <2> QED BY <2>2, <2>3
<1> QED BY <1>2

(* Want is the function that its definition says, for every expression.    *)
LEMMA WantDefined == ASSUME TypeOK PROVE \A n \in Node : Want[n] = WantOf(Want, n)
<1>0. Node \subseteq Nat /\ Root \in Node
  BY Tree
<1>1. \A n \in Node : n # Root => Parent(n) \in Node /\ Parent(n) < n
  <2> SUFFICES ASSUME NEW n \in Node, n # Root PROVE Parent(n) \in Node /\ Parent(n) < n
    OBVIOUS
  <2>1. Parent(n) \in Node /\ n \in {L(Parent(n)), R(Parent(n))} /\ n # 0
    BY Parents, Tree
  <2> QED BY <1>0, <2>1, Tree
<1> DEFINE From(f, i) == f = [n \in Node |-> f[n]] /\ \A n \in Node : n <= i => f[n] = WantOf(f, n)
           S == {i \in Node : \E f : From(f, i)}
<1>2. ASSUME NEW i \in Node, \A m \in Node : m < i => m \in S PROVE i \in S
  <2>1. PICK f : f = [n \in Node |-> f[n]] /\ \A n \in Node : n < i => f[n] = WantOf(f, n)
    <3>1. CASE \E m \in Node : m = i - 1
      BY <1>0, <1>2, <3>1
    <3>2. CASE i - 1 \notin Node
      <4>1. PICK N \in Nat : Node = 1..N
        BY Counted
      <4>2. \A n \in Node : ~(n < i)
        BY <3>2, <4>1
      <4> DEFINE g == [n \in Node |-> 0]
      <4>3. g = [n \in Node |-> g[n]]
        OBVIOUS
      <4> HIDE DEF g
      <4> QED BY <4>2, <4>3
    <3> QED BY <3>1, <3>2
  <2> DEFINE v == WantOf(f, i)
             g == [f EXCEPT ![i] = v]
  <2> HIDE DEF v
  <2>2. g = [n \in Node |-> g[n]] /\ g[i] = v /\ \A n \in Node \ {i} : g[n] = f[n]
    BY <2>1
  <2> HIDE DEF g
  <2>3. ASSUME NEW n \in Node, n <= i PROVE WantOf(g, n) = WantOf(f, n)
    <3>1. n # Root => g[Parent(n)] = f[Parent(n)]
      BY <1>0, <1>1, <2>2, <2>3
    <3> QED BY <3>1 DEF WantOf
  <2>4. ASSUME NEW n \in Node, n <= i PROVE g[n] = WantOf(g, n)
    <3>1. CASE n = i
      BY <2>2, <2>3, <2>4, <3>1 DEF v
    <3>2. CASE n # i
      <4>1. n < i
        BY <1>0, <2>4, <3>2
      <4> QED BY <2>1, <2>2, <2>3, <2>4, <3>2, <4>1
    <3> QED BY <3>1, <3>2
  <2> QED BY <2>2, <2>4
<1>3. S = Node
  <2>1. S \in SUBSET Node
    OBVIOUS
  <2> HIDE DEF S
  <2> QED BY <1>2, <2>1, Upwards
<1>4. PICK N \in Nat : Node = 1..N
  BY Counted
<1>5. N \in S
  BY <1>0, <1>3, <1>4
<1>6. PICK g : g = [n \in Node |-> g[n]] /\ \A n \in Node : g[n] = WantOf(g, n)
  BY <1>4, <1>5
<1> DEFINE Def(f) == [n \in Node |-> WantOf(f, n)]
<1>7. g = Def(g)
  BY <1>6
<1>8. Want = CHOOSE f : f = Def(f)
  BY DEF Want, WantOf, WantFrom
<1>9. Want = Def(Want)
  <2> HIDE DEF Def
  <2> QED BY <1>7, <1>8
<1> QED BY <1>9

(* Three files for each node.                                              *)
LEMMA WantShape == ASSUME TypeOK PROVE \A n \in Node : DOMAIN Want[n] = Streams
<1> DEFINE S == {n \in Node : DOMAIN Want[n] = Streams}
<1>1. ASSUME NEW n \in Node, \A m \in Node : m < n => m \in S PROVE n \in S
  <2>1. CASE n = Root
    BY <2>1, WantDefined DEF WantOf
  <2>2. CASE n # Root
    <3>1. Parent(n) \in Node /\ n \in {L(Parent(n)), R(Parent(n))} /\ n # 0
      BY <2>2, Parents, Tree
    <3>2. Parent(n) < n
      BY <3>1, Tree
    <3>3. DOMAIN Want[Parent(n)] = Streams
      BY <1>1, <3>1, <3>2
    <3>4. Want[n] = WantFrom(Want[Parent(n)], Parent(n), n)
      BY <2>2, WantDefined DEF WantOf
    <3> QED BY <3>3, <3>4 DEF WantFrom
  <2> QED BY <2>1, <2>2
<1>2. S = Node
  <2>1. S \in SUBSET Node
    OBVIOUS
  <2> HIDE DEF S
  <2> QED BY <1>1, <2>1, Upwards
<1> QED BY <1>2

(* What the operands of each operator are to have.                         *)
WantRules ==
    /\ \A k \in Streams : Want[Root][k] = Tty(k)
    /\ \A m \in Node : \A c \in {L(m), R(m)} : \A k \in Streams : c # 0 =>
        Want[c][k] =
            IF Op(m) = "inmap" \/ (Op(m) = "pipe" /\ c = R(m))
            THEN IF k = "in" THEN PipeR(m) ELSE Want[m][k]
            ELSE IF Op(m) = "pipe" THEN IF k = "out" THEN PipeW(m) ELSE Want[m][k]
            ELSE IF Op(m) \in Maps THEN IF k = Desc(Op(m)) THEN PipeW(m) ELSE Want[m][k]
            ELSE IF Op(m) \in Redirects THEN IF k = Desc(Op(m)) THEN OpenFile(m) ELSE Want[m][k]
            ELSE Want[m][k]

(* Each operator gives to its operands what it has itself, but for its own *)
(* end of a pipe or its own file.                                          *)
LEMMA Wanted == ASSUME TypeOK PROVE WantRules
<1>1. \A k \in Streams : Want[Root][k] = Tty(k)
  BY WantDefined, Tree DEF WantOf
<1> SUFFICES ASSUME NEW m \in Node, NEW c \in {L(m), R(m)}, NEW k \in Streams, c # 0
             PROVE  Want[c][k] =
                    IF Op(m) = "inmap" \/ (Op(m) = "pipe" /\ c = R(m))
                    THEN IF k = "in" THEN PipeR(m) ELSE Want[m][k]
                    ELSE IF Op(m) = "pipe" THEN IF k = "out" THEN PipeW(m) ELSE Want[m][k]
                    ELSE IF Op(m) \in Maps THEN IF k = Desc(Op(m)) THEN PipeW(m) ELSE Want[m][k]
                    ELSE IF Op(m) \in Redirects THEN IF k = Desc(Op(m)) THEN OpenFile(m) ELSE Want[m][k]
                    ELSE Want[m][k]
  BY <1>1 DEF WantRules
<1>2. c \in Node /\ c # Root
  BY Tree, Order
<1>3. Parent(c) = m
  BY <1>2, Parents
<1>4. Want[c] = WantFrom(Want[m], m, c)
  BY <1>2, <1>3, WantDefined DEF WantOf
<1>5. DOMAIN Want[m] = Streams
  BY WantShape
<1>6. CASE Op(m) = "inmap" \/ (Op(m) = "pipe" /\ c = R(m))
  BY <1>4, <1>5, <1>6 DEF WantFrom
<1>7. CASE Op(m) = "pipe" /\ c # R(m)
  BY <1>4, <1>5, <1>7 DEF WantFrom
<1>8. CASE Op(m) = "outmap"
  BY <1>4, <1>5, <1>8 DEF WantFrom, Desc, Maps
<1>9. CASE Op(m) = "errmap"
  BY <1>4, <1>5, <1>9 DEF WantFrom, Desc, Maps
<1>10. CASE Op(m) = "inred"
  BY <1>4, <1>5, <1>10 DEF WantFrom, Desc, Maps, Redirects
<1>11. CASE Op(m) = "outred"
  BY <1>4, <1>5, <1>11 DEF WantFrom, Desc, Maps, Redirects
<1>12. CASE Op(m) = "errred"
  BY <1>4, <1>5, <1>12 DEF WantFrom, Desc, Maps, Redirects
<1>13. CASE Op(m) \notin {"pipe"} \cup Maps \cup Redirects
  BY <1>4, <1>5, <1>13 DEF WantFrom, Maps, Redirects
<1> QED BY <1>6, <1>7, <1>8, <1>9, <1>10, <1>11, <1>12, <1>13 DEF Maps, Redirects

(* The same after a step.                                                  *)
LEMMA WantedThen == TypeOK' => WantRules'
<1>1. TypeOK => WantRules
  BY Wanted
<1> QED BY <1>1, PTL

(* What is wanted is the same before and after a step.                     *)
LEMMA WantStays ==
    ASSUME TypeOK, TypeOK', fixed' = fixed
    PROVE  \A n \in Node, k \in Streams : Want'[n][k] = Want[n][k]
<1>1. Node' = Node /\ \A m \in Node : Op(m)' = Op(m) /\ L(m)' = L(m) /\ R(m)' = R(m)
  BY Same
<1> DEFINE S == {n \in Node : \A k \in Streams : Want'[n][k] = Want[n][k]}
<1>2. ASSUME NEW n \in Node, \A m \in Node : m < n => m \in S PROVE n \in S
  <2>1. Streams' = Streams
    BY DEF Streams, StdFd
  <2>2. CASE n = Root
    <3>1. \A k \in Streams : Want'[n][k] = Tty(k)
      BY <2>1, <2>2, WantedThen DEF Root, Tty, WantRules
    <3>2. \A k \in Streams : Want[n][k] = Tty(k)
      BY <2>2, Wanted DEF WantRules
    <3> QED BY <3>1, <3>2
  <2>3. CASE n # Root
    <3>1. PICK m \in Node : n \in {L(m), R(m)}
      BY <2>3, Parents
    <3>2. n # 0 /\ m < n
      BY <3>1, Tree
    <3>3. \A k \in Streams : Want'[m][k] = Want[m][k]
      BY <1>2, <3>2
    <3>4. \A k \in Streams : Want[n][k] =
                    IF Op(m) = "inmap" \/ (Op(m) = "pipe" /\ n = R(m))
                    THEN IF k = "in" THEN PipeR(m) ELSE Want[m][k]
                    ELSE IF Op(m) = "pipe" THEN IF k = "out" THEN PipeW(m) ELSE Want[m][k]
                    ELSE IF Op(m) \in Maps THEN IF k = Desc(Op(m)) THEN PipeW(m) ELSE Want[m][k]
                    ELSE IF Op(m) \in Redirects THEN IF k = Desc(Op(m)) THEN OpenFile(m) ELSE Want[m][k]
                    ELSE Want[m][k]
      BY <3>1, <3>2, Wanted DEF WantRules
    <3>5. \A k \in Streams : Want'[n][k] =
                    IF Op(m) = "inmap" \/ (Op(m) = "pipe" /\ n = R(m))
                    THEN IF k = "in" THEN PipeR(m) ELSE Want'[m][k]
                    ELSE IF Op(m) = "pipe" THEN IF k = "out" THEN PipeW(m) ELSE Want'[m][k]
                    ELSE IF Op(m) \in Maps THEN IF k = Desc(Op(m)) THEN PipeW(m) ELSE Want'[m][k]
                    ELSE IF Op(m) \in Redirects THEN IF k = Desc(Op(m)) THEN OpenFile(m) ELSE Want'[m][k]
                    ELSE Want'[m][k]
      BY <1>1, <2>1, <3>1, <3>2, WantedThen
         DEF WantRules, PipeR, PipeW, OpenFile, Desc, Maps, Redirects
    <3> QED BY <3>3, <3>4, <3>5
  <2> QED BY <2>2, <2>3
<1>3. S = Node
  <2>1. S \in SUBSET Node
    OBVIOUS
  <2> HIDE DEF S
  <2> QED BY <1>2, <2>1, Upwards
<1> QED BY <1>3

-----------------------------------------------------------------------------
(***************************************************************************)
(* The numbers that start_run hands down, and the files under them.        *)
(***************************************************************************)

(* The wrapper s of q has what the subexpression n is given to use; and    *)
(* what the programs in n must close.                                      *)
Uses(q, s, n) ==
    \/ Op(q) \in {"pipe", "outmap", "errmap"} /\ s = "p1" /\ n \in Under(L(q))
    \/ Op(q) = "pipe" /\ s = "p0" /\ n \in Under(R(q))
    \/ Op(q) = "inmap" /\ s = "p0" /\ n \in Under(L(q))
    \/ Op(q) \in Redirects /\ s = "fd" /\ n \in Under(L(q))
Bars(q, s, n) ==
    \/ Op(q) = "pipe" /\ s = "p0" /\ n \in Under(L(q))
    \/ Op(q) = "pipe" /\ s = "p1" /\ n \in Under(R(q))
    \/ Op(q) \in Maps /\ s = PumpEnd(q) /\ n \in Under(L(q))

(* The file that is in a wrapper.                                          *)
FileIn(q, s) == IF s = "p0" THEN PipeR(q) ELSE IF s = "p1" THEN PipeW(q) ELSE OpenFile(q)

(* fd is the number of the file that n is to have as k.                    *)
Finds(n, k, fd) ==
    \/ fd = StdFd[k] /\ Want[n][k] = Tty(k)
    \/ \E q \in Node, s \in Slots :
            Uses(q, s, n) /\ own[q][s] = fd /\ fd # -1 /\ Want[n][k] = FileIn(q, s)

(* fd is in a wrapper that the programs in n must close: an entry of       *)
(* unused_fds that is still open.                                          *)
Barred(n, fd) == \E q \in Node, s \in Slots : Bars(q, s, n) /\ own[q][s] = fd /\ fd # -1

(* What start_run has got is what the expression says.                     *)
Gets(n) ==
    Live(n) => /\ \A k \in Streams : Finds(n, k, arg[n].std[k])
               /\ \A fd \in arg[n].unused : Barred(n, fd)

(* What runs has it.                                                       *)
Wired(n) ==
    /\ Op(n) = "native" /\ job[n] = "run" => \A k \in Streams : std[n][k] = Want[n][k]
    /\ Op(n) = "function" /\ job[n] = "run" =>
            \A k \in Streams : own[n][k] # -1 /\ fdt[own[n][k]] = Want[n][k]

(* A pipe has both ends until it has started its left operand.             *)
Holding(n) == Op(n) = "pipe" /\ pc[n] = "left" => own[n]["p0"] # -1 /\ own[n]["p1"] # -1

(* The shape of the arguments of start_run.                                *)
ArgOK == arg \in [Node -> [std : [Streams -> Fd], unused : SUBSET Fd]]

(* Nobody uses what he must not keep.                                      *)
LEMMA Exclusive ==
    ASSUME TypeOK, NEW q \in Node, NEW s, NEW n \in Node, Uses(q, s, n)
    PROVE  ~Bars(q, s, n)
<1>1. ASSUME Op(q) = "pipe" PROVE Under(L(q)) \cap Under(R(q)) = {}
  <2>1. R(q) # 0 /\ R(q) \in Node /\ L(q) \in Node
    BY <1>1, Operand DEF Binary
  <2>2. /\ \A k \in Under(L(q)) : k < R(q)
        /\ \A k \in Under(R(q)) : k \in Nat /\ k >= R(q)
    BY <2>1, Numbers
  <2>3. Under(L(q)) \subseteq Nat /\ R(q) \in Nat
    BY <2>1, Numbers, Tree
  <2> QED BY <2>2, <2>3
<1> QED BY <1>1 DEF Uses, Bars, PumpEnd, Maps, Redirects

(* The operands of n use what n uses; and n does not use its own.          *)
LEMMA Passes ==
    ASSUME TypeOK, NEW n \in Node, NEW m \in {L(n), R(n)}, m # 0, NEW q \in Node, NEW s
    PROVE  /\ Uses(q, s, n) => Uses(q, s, m) /\ q # n
           /\ Bars(q, s, n) => Bars(q, s, m) /\ q # n
<1>0. m \in Node /\ n \in Nat
  BY Tree
<1>1. ASSUME NEW c \in {L(q), R(q)}, c # 0, n \in Under(c) PROVE m \in Under(c) /\ q # n
  <2>1. c \in Node /\ c > q /\ q \in Nat /\ c \in Nat
    BY <1>1, Tree
  <2>2. m \in Under(c)
    BY <1>0, <1>1, <2>1, Within
  <2>3. n >= c
    BY <1>1, <2>1, Numbers
  <2> QED BY <1>0, <2>1, <2>2, <2>3
<1>2. /\ Op(q) \in {"pipe", "outmap", "errmap", "inmap"} \cup Maps \cup Redirects => L(q) # 0
      /\ Op(q) = "pipe" => R(q) # 0
  BY Operand DEF Binary, UnaryOps, Maps, Redirects
<1> QED BY <1>1, <1>2 DEF Uses, Bars

(* Who has a wrapper that is closed is not live any more.                  *)
LEMMA Unneeded ==
    ASSUME TypeOK, Pipelines, Local, Ready, \A k \in Node : Orderly(k),
           NEW n \in Node, NEW S, Lets(n, S), NEW s \in S, s \notin Streams, own[n][s] # -1, s \in Slots,
           NEW k \in Node, Uses(n, s, k) \/ Bars(n, s, k)
    PROVE  ~Live(k)
<1>0. /\ Stands(n) /\ Fresh(n) /\ InTurn(n) /\ Orderly(n)
      /\ Nested(n) /\ Resumes(n) /\ EndsBelow(n) /\ Stage(n)
  BY DEF Local, Ready, Orderly, Stands, Kind
<1>1. pc[n] # "start"
  BY <1>0 DEF Fresh, NoSlots
<1>2. /\ Op(n) \in Binary \cup UnaryOps => L(n) # 0 /\ L(n) \in Node
      /\ Op(n) \in Binary => R(n) # 0 /\ R(n) \in Node
  BY Operand
<1>3. \A c \in Node : Stands(c) /\ Fresh(c) /\ EndsBelow(c)
  BY DEF Local, Ready, Orderly
<1>4. CASE Op(n) \in Maps \cup {"pipe"}
  <2>1. /\ Straight(n)
        /\ L(n) # 0 /\ L(n) \in Node /\ Straight(L(n))
        /\ Op(n) = "pipe" => R(n) # 0 /\ R(n) \in Node /\ Straight(R(n))
    BY <1>2, <1>4, StraightParts DEF Pipelines, Binary, UnaryOps
  <2>2. "fd" \notin S
    BY <1>4 DEF Lets, Uses, Bars, Maps, Redirects, PumpEnd, Streams, StdFd
  <2>3. pc[L(n)] \notin Going
    <3>1. CASE pc[n] = "left" /\ pc[L(n)] \in {"threw", "up"}
      BY <3>1 DEF Going
    <3>2. CASE pc[n] # "left"
      BY <1>0, <2>1, <3>2 DEF Nested
    <3>3. job[n] = "run" => pc[n] # "left"
      BY <1>0 DEF Fresh
    <3> QED BY <1>1, <2>2, <3>1, <3>2, <3>3 DEF Lets, Streams, StdFd
  <2>4. ASSUME Op(n) = "pipe" PROVE pc[R(n)] \notin Going
    <3>1. CASE pc[n] = "left"
      BY <1>0, <2>1, <2>4, <3>1, Awaits DEF Going
    <3>2. CASE pc[n] = "right" /\ pc[R(n)] \in {"threw", "up"}
      BY <3>2 DEF Going
    <3>3. pc[n] # "tail"
      BY <1>0, <2>4 DEF Stage
    <3>4. S # Streams /\ S # {"fd"}
      BY <2>2
    <3> QED BY <1>1, <2>4, <3>1, <3>2, <3>3, <3>4 DEF Lets, Maps
  <2>5. /\ Ended(L(n))
        /\ Op(n) = "pipe" => Ended(R(n))
    BY <2>1, <2>3, <2>4 DEF Ended
  <2>6. /\ \A j \in Under(L(n)) : ~Live(j)
        /\ Op(n) = "pipe" => \A j \in Under(R(n)) : ~Live(j)
    BY <2>1, <2>5, NobodyLive
  <2> QED BY <1>4, <2>6 DEF Uses, Bars, Maps, Redirects
<1>5. CASE Op(n) \in Redirects
  <2>1. s = "fd" /\ k \in Under(L(n)) /\ L(n) # 0 /\ L(n) \in Node
    BY <1>2, <1>5 DEF Uses, Bars, Maps, Redirects, UnaryOps
  <2>2. \/ pc[n] = "finL" /\ pc[L(n)] \in {"done", "failed"}
        \/ pc[n] \in {"finR", "dtor"}
    BY <2>1 DEF Lets, PumpEnd
  <2>3. pc[n] # "finR"
    BY <1>0, <1>5 DEF Stage, Redirects
  <2>4. CASE pc[n] = "finL"
    <3>1. Ended(L(n))
      BY <1>3, <2>1, <2>2, <2>4, EndedNow
    <3> QED BY <2>1, <3>1, NobodyLive
  <2>5. CASE pc[n] = "dtor"
    <3>1. Rested(n) /\ L(n) \in {L(n), R(n)} \cap Node
      BY <1>5, <2>1, <2>5 DEF Rested
    <3>2. Ended(L(n))
      BY <1>0, <3>1 DEF EndsBelow
    <3> QED BY <2>1, <3>2, NobodyLive
  <2> QED BY <2>2, <2>3, <2>4, <2>5
<1>6. Op(n) \in Maps \cup {"pipe"} \cup Redirects
  BY DEF Uses, Bars, Maps
<1> QED BY <1>4, <1>5, <1>6

(* Wrappers keep their numbers until n closes them, and numbers their      *)
(* files until a wrapper is closed.                                        *)
LEMMA Stable ==
    ASSUME IInv, IsTable, NEW n \in Node, Deals(n), Kept(n), fixed' = fixed
    PROVE  /\ \A q \in Node, s \in Slots : own[q][s] # -1 /\ own'[q][s] # own[q][s] =>
                q = n /\ \E S \in SUBSET Slots : Lets(n, S) /\ s \in S
           /\ \A fd \in Fd : fdt'[fd] # fdt[fd] =>
                \/ fdt[fd] = Closed
                \/ \E S \in SUBSET Slots : Lets(n, S) /\ \E s \in S : own[n][s] = fd /\ own'[n][s] = -1
<1>1. TypeOK /\ Table /\ Fresh(n) /\ \A q \in Node \ {n} : own'[q] = own[q]
  BY DEF IInv, Kept
<1>2. pc[n] = "start" => \A s \in Slots : own[n][s] = -1
  BY <1>1 DEF Fresh, NoSlots
<1>3. /\ CanOpen(1) => Free1 \in Free
      /\ CanOpen(2) => Free1 \in Free /\ Free2 \in Free
      /\ CanOpen(3) => Free1 \in Free /\ Free2 \in Free /\ Free3 \in Free
  BY <1>1, Given
<1>4. \A fd \in Free : fdt[fd] = Closed /\ fd \in Fd
  BY DEF Free
<1>5. CASE UNCHANGED table
  BY <1>5 DEF table
<1>6. ASSUME NEW S \in SUBSET Slots, Close(n, S), Lets(n, S)
      PROVE  /\ \A s \in Slots : own'[n][s] # own[n][s] => s \in S
             /\ \A fd \in Fd : fdt'[fd] # fdt[fd] => \E s \in S : own[n][s] = fd /\ own'[n][s] = -1
  BY <1>1, <1>6 DEF Close, TypeOK
<1>8. CASE ForkFails(n)
  <2>1. CanOpen(2) /\ own' = own /\ fdt' = [fdt EXCEPT ![Free1] = PipeR(n), ![Free2] = PipeW(n)]
    BY <1>8 DEF ForkFails
  <2>2. \A fd \in Fd : fdt'[fd] # fdt[fd] => fd \in {Free1, Free2}
    BY <1>1, <2>1 DEF TypeOK
  <2> QED BY <1>3, <1>4, <2>1, <2>2
<1>7. CASE StartPipe(n) \/ StartMapping(n) \/ StartRedirect(n) \/ StartFunction(n)
  <2>1. pc[n] = "start"
    BY <1>7 DEF StartPipe, StartMapping, StartRedirect, StartFunction
  <2>2. CASE StartPipe(n) \/ StartMapping(n)
    <3>1. CanOpen(2) /\ fdt' = [fdt EXCEPT ![Free1] = PipeR(n), ![Free2] = PipeW(n)]
      BY <2>2 DEF StartPipe, StartMapping, OpenPipe
    <3>2. \A fd \in Fd : fdt'[fd] # fdt[fd] => fd \in {Free1, Free2}
      BY <1>1, <3>1 DEF TypeOK
    <3> QED BY <1>1, <1>2, <1>3, <1>4, <2>1, <3>1, <3>2
  <2>3. CASE StartRedirect(n)
    <3>1. CanOpen(1) /\ fdt' = [fdt EXCEPT ![Free1] = OpenFile(n)]
      BY <2>3 DEF StartRedirect
    <3>2. \A fd \in Fd : fdt'[fd] # fdt[fd] => fd = Free1
      BY <1>1, <3>1 DEF TypeOK
    <3> QED BY <1>1, <1>2, <1>3, <1>4, <2>1, <3>1, <3>2
  <2>4. CASE StartFunction(n)
    <3> DEFINE dup == [in |-> Free1, out |-> Free2, err |-> Free3]
    <3>1. CanOpen(3) /\ \A fd \in Fd : fdt'[fd] # fdt[fd] => \E k \in Streams : dup[k] = fd
      BY <2>4 DEF StartFunction, CanDup
    <3>2. \A k \in Streams : dup[k] \in {Free1, Free2, Free3}
      BY DEF Streams, StdFd
    <3> HIDE DEF dup
    <3> QED BY <1>1, <1>2, <1>3, <1>4, <2>1, <3>1, <3>2
  <2> QED BY <1>7, <2>2, <2>3, <2>4
<1> QED BY <1>1, <1>5, <1>6, <1>7, <1>8 DEF Deals, OnTable

(* n calls start_run of m with fds and un.                                 *)
Gives(n, m, fds, un) ==
    /\ m \in {L(n), R(n)} /\ m # 0 /\ Live(n) /\ pc[m] = "idle"
    /\ arg' = [arg EXCEPT ![m] = [std |-> fds, unused |-> un]]
    /\ fds \in [Streams -> Fd] /\ un \in SUBSET Fd
    /\ \A k \in Streams :
        \/ fds[k] = arg[n].std[k] /\ Want[m][k] = Want[n][k]
        \/ \E s \in Slots :
            Uses(n, s, m) /\ own'[n][s] = fds[k] /\ fds[k] # -1 /\ Want[m][k] = FileIn(n, s)
    /\ \A u \in un : u \in arg[n].unused \/ \E s \in Slots : Bars(n, s, m) /\ own'[n][s] = u /\ u # -1
    /\ \A j \in Node : pc'[j] = "start" => pc'[j] = pc[j] \/ j = m

(* A step of n leaves the arguments alone or is one call of start_run of   *)
(* an operand, with descriptors of its own or of the call that it is in.   *)
LEMMA Giving ==
    ASSUME IInv, ArgOK, NEW n \in Node, Holding(n), OnArg(n), Kind(n)
    PROVE  \/ arg' = arg /\ \A j \in Node : pc'[j] = "start" => pc'[j] = pc[j]
           \/ \E m, fds, un : Gives(n, m, fds, un)
<1>0. TypeOK /\ Table
  BY DEF IInv
<1>1. /\ Op(n) \in Binary \cup UnaryOps => L(n) # 0 /\ L(n) \in Node \ {n} /\ L(n) \in Under(L(n))
      /\ Op(n) \in Binary => R(n) # 0 /\ R(n) \in Node \ {n} /\ R(n) # L(n) /\ R(n) \in Under(R(n))
  BY <1>0, Operand, Within
<1>2. /\ arg[n].std \in [Streams -> Fd] /\ arg[n].unused \in SUBSET Fd
      /\ arg[n] = [std |-> arg[n].std, unused |-> arg[n].unused]
  BY DEF ArgOK
<1>3. {"p0", "p1", "fd"} \subseteq Slots /\ {"in", "out", "err"} = Streams
  BY DEF Slots, Streams, StdFd
<1>4. -1 \notin Fd /\ \A x \in Free : x \in Fd
  <2>1. limit \in Nat
    BY <1>0, CasesAssumption DEF TypeOK
  <2> QED BY <2>1 DEF Fd, Free
<1>5. /\ CanOpen(1) => Free1 \in Fd
      /\ CanOpen(2) => Free1 \in Fd /\ Free2 \in Fd
  BY <1>0, <1>4, Given
<1>6. /\ \A q, r : q # "start" /\ Call(n, q, r, "start") =>
            \A j \in Node : pc'[j] = "start" => pc'[j] = pc[j] \/ j = r
  BY <1>0 DEF Call, TypeOK
<1>7. WantRules
  BY <1>0, Wanted
<1>14. /\ pc[n] = "start" /\ L(n) # 0 => pc[L(n)] = "idle"
       /\ pc[n] = "left" \/ job[n] = "left" => (R(n) # 0 => pc[R(n)] = "idle")
  <2>1. Fresh(n) /\ InTurn(n)
    BY DEF IInv
  <2> QED BY <1>0, <2>1, Awaits
<1>8. CASE UNCHANGED arg /\ NoStart
  BY <1>8 DEF NoStart
<1>9. CASE StartPipe(n)
  <2>1. Op(n) = "pipe" /\ pc[n] = "start" /\ CanOpen(2) /\ OpenPipe(n)
        /\ Call(n, "left", L(n), "start")
        /\ arg' = [arg EXCEPT ![L(n)] = [std |-> [arg[n].std EXCEPT !.out = Free2],
                                         unused |-> arg[n].unused \cup {Free1}]]
    BY <1>9 DEF StartPipe, StartOperand
  <2>2. L(n) # 0 /\ L(n) \in Under(L(n)) /\ R(n) # L(n)
    BY <1>1, <2>1 DEF Binary
  <2>3. own'[n]["p0"] = Free1 /\ own'[n]["p1"] = Free2
    BY <1>0, <1>3, <2>1 DEF OpenPipe, TypeOK
  <2>4. Uses(n, "p1", L(n)) /\ Bars(n, "p0", L(n)) /\ FileIn(n, "p1") = PipeW(n)
    BY <2>1, <2>2 DEF Uses, Bars, FileIn
  <2>5. \A k \in Streams : Want[L(n)][k] = IF k = "out" THEN PipeW(n) ELSE Want[n][k]
    BY <1>7, <2>1, <2>2 DEF WantRules
  <2> DEFINE fds == [arg[n].std EXCEPT !.out = Free2]
             un == arg[n].unused \cup {Free1}
  <2>6. /\ fds \in [Streams -> Fd] /\ un \in SUBSET Fd /\ fds["out"] = Free2
        /\ \A k \in Streams \ {"out"} : fds[k] = arg[n].std[k]
    BY <1>2, <1>3, <1>5, <2>1
  <2>7. Live(n)
    BY <2>1 DEF Live, Going
  <2>8. \A j \in Node : pc'[j] = "start" => pc'[j] = pc[j] \/ j = L(n)
    BY <1>6, <2>1
  <2>9. \A k \in Streams :
            \/ fds[k] = arg[n].std[k] /\ Want[L(n)][k] = Want[n][k]
            \/ \E s \in Slots :
                Uses(n, s, L(n)) /\ own'[n][s] = fds[k] /\ fds[k] # -1 /\ Want[L(n)][k] = FileIn(n, s)
    <3> HIDE DEF fds
    <3> QED BY <1>3, <1>4, <1>5, <2>1, <2>3, <2>4, <2>5, <2>6
  <2>10. \A u \in un : u \in arg[n].unused \/ \E s \in Slots : Bars(n, s, L(n)) /\ own'[n][s] = u /\ u # -1
    BY <1>3, <1>4, <1>5, <2>1, <2>3, <2>4
  <2>11. Gives(n, L(n), fds, un)
    BY <2>1, <2>2, <2>6, <2>7, <2>8, <2>9, <2>10, <1>14 DEF Gives
  <2> QED BY <2>11
<1>10. CASE StartRightOfPipe(n)
  <2>1. Op(n) = "pipe" /\ pc[n] = "left"
        /\ Call(n, "right", R(n), "start") /\ UNCHANGED own
        /\ arg' = [arg EXCEPT ![R(n)] = [std |-> [arg[n].std EXCEPT !.in = own[n].p0],
                                         unused |-> arg[n].unused \cup {own[n].p1}]]
    BY <1>10 DEF StartRightOfPipe, StartOperand, table
  <2>2. R(n) # 0 /\ R(n) \in Under(R(n))
    BY <1>1, <2>1 DEF Binary
  <2>3. own[n].p0 # -1 /\ own[n].p1 # -1 /\ own[n].p0 \in Fd /\ own[n].p1 \in Fd
    BY <1>0, <1>3, <2>1 DEF Holding, TypeOK
  <2>4. Uses(n, "p0", R(n)) /\ Bars(n, "p1", R(n)) /\ FileIn(n, "p0") = PipeR(n)
    BY <2>1, <2>2 DEF Uses, Bars, FileIn
  <2>5. \A k \in Streams : Want[R(n)][k] = IF k = "in" THEN PipeR(n) ELSE Want[n][k]
    BY <1>7, <2>1, <2>2 DEF WantRules
  <2> DEFINE fds == [arg[n].std EXCEPT !.in = own[n].p0]
             un == arg[n].unused \cup {own[n].p1}
  <2>6. /\ fds \in [Streams -> Fd] /\ un \in SUBSET Fd /\ fds["in"] = own[n].p0
        /\ \A k \in Streams \ {"in"} : fds[k] = arg[n].std[k]
    BY <1>2, <1>3, <2>3
  <2>7. Live(n)
    BY <2>1 DEF Live, Going
  <2>8. \A j \in Node : pc'[j] = "start" => pc'[j] = pc[j] \/ j = R(n)
    BY <1>6, <2>1
  <2>9. \A k \in Streams :
            \/ fds[k] = arg[n].std[k] /\ Want[R(n)][k] = Want[n][k]
            \/ \E s \in Slots :
                Uses(n, s, R(n)) /\ own'[n][s] = fds[k] /\ fds[k] # -1 /\ Want[R(n)][k] = FileIn(n, s)
    <3> HIDE DEF fds
    <3> QED BY <1>3, <2>1, <2>3, <2>4, <2>5, <2>6
  <2>10. \A u \in un : u \in arg[n].unused \/ \E s \in Slots : Bars(n, s, R(n)) /\ own'[n][s] = u /\ u # -1
    BY <1>3, <2>1, <2>3, <2>4
  <2>11. Gives(n, R(n), fds, un)
    BY <2>1, <2>2, <2>6, <2>7, <2>8, <2>9, <2>10, <1>14 DEF Gives
  <2> QED BY <2>11
<1>11. CASE StartMapping(n)
  <2> DEFINE theirs == IF Op(n) = "inmap" THEN "p0" ELSE "p1"
             ours == PumpEnd(n)
             a == IF Op(n) = "inmap" THEN Free1 ELSE Free2
             b == IF Op(n) = "inmap" THEN Free2 ELSE Free1
             d == Desc(Op(n))
             fds == [arg[n].std EXCEPT ![d] = a]
             un == arg[n].unused \cup {b}
  <2>1. Op(n) \in Maps /\ pc[n] = "start" /\ CanOpen(2) /\ OpenPipe(n)
        /\ Call(n, "left", L(n), "start")
        /\ arg' = [arg EXCEPT ![L(n)] = [std |-> fds, unused |-> un]]
    BY <1>11 DEF StartMapping, StartOperand
  <2>2. L(n) # 0 /\ L(n) \in Under(L(n)) /\ d \in Streams
        /\ theirs \in Slots /\ ours \in Slots
    BY <1>1, <1>3, <2>1 DEF UnaryOps, Desc, PumpEnd
  <2>3. own'[n][theirs] = a /\ own'[n][ours] = b /\ a \in Fd /\ b \in Fd
    BY <1>0, <1>3, <1>5, <2>1 DEF OpenPipe, TypeOK, PumpEnd
  <2>4. Uses(n, theirs, L(n)) /\ Bars(n, ours, L(n))
        /\ FileIn(n, theirs) = IF Op(n) = "inmap" THEN PipeR(n) ELSE PipeW(n)
    BY <2>1, <2>2 DEF Uses, Bars, FileIn, Maps
  <2>5. \A k \in Streams : Want[L(n)][k] = IF k = d THEN FileIn(n, theirs) ELSE Want[n][k]
    BY <1>7, <2>1, <2>2, <2>4 DEF WantRules, Maps, Desc
  <2> HIDE DEF theirs, ours, a, b, d
  <2>6. /\ fds \in [Streams -> Fd] /\ un \in SUBSET Fd /\ fds[d] = a
        /\ \A k \in Streams \ {d} : fds[k] = arg[n].std[k]
    BY <1>2, <2>2, <2>3
  <2>7. Live(n)
    BY <2>1 DEF Live, Going
  <2>8. \A j \in Node : pc'[j] = "start" => pc'[j] = pc[j] \/ j = L(n)
    BY <1>6, <2>1
  <2>9. \A k \in Streams :
            \/ fds[k] = arg[n].std[k] /\ Want[L(n)][k] = Want[n][k]
            \/ \E s \in Slots :
                Uses(n, s, L(n)) /\ own'[n][s] = fds[k] /\ fds[k] # -1 /\ Want[L(n)][k] = FileIn(n, s)
    <3> HIDE DEF fds
    <3> QED BY <1>4, <2>2, <2>3, <2>4, <2>5, <2>6
  <2>10. \A u \in un : u \in arg[n].unused \/ \E s \in Slots : Bars(n, s, L(n)) /\ own'[n][s] = u /\ u # -1
    BY <1>4, <2>2, <2>3, <2>4
  <2>11. Gives(n, L(n), fds, un)
    BY <2>1, <2>2, <2>6, <2>7, <2>8, <2>9, <2>10, <1>14 DEF Gives
  <2> QED BY <2>11
<1>12. CASE StartRedirect(n)
  <2> DEFINE d == Desc(Op(n))
             fds == [arg[n].std EXCEPT ![d] = Free1]
             un == arg[n].unused
  <2>1. Op(n) \in Redirects /\ pc[n] = "start" /\ CanOpen(1) /\ own' = [own EXCEPT ![n].fd = Free1]
        /\ Call(n, "left", L(n), "start")
        /\ arg' = [arg EXCEPT ![L(n)] = [std |-> fds, unused |-> un]]
    BY <1>12 DEF StartRedirect, StartOperand
  <2>2. L(n) # 0 /\ L(n) \in Under(L(n)) /\ d \in Streams
    BY <1>1, <1>3, <2>1 DEF UnaryOps, Desc
  <2>3. own'[n]["fd"] = Free1 /\ Free1 \in Fd
    BY <1>0, <1>3, <1>5, <2>1 DEF TypeOK
  <2>4. Uses(n, "fd", L(n)) /\ FileIn(n, "fd") = OpenFile(n)
    BY <2>1, <2>2 DEF Uses, FileIn
  <2>5. \A k \in Streams : Want[L(n)][k] = IF k = d THEN OpenFile(n) ELSE Want[n][k]
    BY <1>7, <2>1, <2>2 DEF WantRules, Maps, Redirects
  <2> HIDE DEF d
  <2>6. /\ fds \in [Streams -> Fd] /\ un \in SUBSET Fd /\ fds[d] = Free1
        /\ \A k \in Streams \ {d} : fds[k] = arg[n].std[k]
    BY <1>2, <2>2, <2>3
  <2>7. Live(n)
    BY <2>1 DEF Live, Going
  <2>8. \A j \in Node : pc'[j] = "start" => pc'[j] = pc[j] \/ j = L(n)
    BY <1>6, <2>1
  <2>9. \A k \in Streams :
            \/ fds[k] = arg[n].std[k] /\ Want[L(n)][k] = Want[n][k]
            \/ \E s \in Slots :
                Uses(n, s, L(n)) /\ own'[n][s] = fds[k] /\ fds[k] # -1 /\ Want[L(n)][k] = FileIn(n, s)
    <3> HIDE DEF fds
    <3> QED BY <1>3, <1>4, <2>2, <2>3, <2>4, <2>5, <2>6
  <2>11. Gives(n, L(n), fds, un)
    BY <2>1, <2>2, <2>6, <2>7, <2>8, <2>9, <1>14 DEF Gives
  <2> QED BY <2>11
<1>13. CASE StartConditional(n) \/ TaskLeftDone(n)
  <2>1. CASE StartConditional(n)
    <3>1. Op(n) \in Conditionals /\ pc[n] = "start"
          /\ Call(n, "left", L(n), "start")
          /\ arg' = [arg EXCEPT ![L(n)] = [std |-> arg[n].std, unused |-> arg[n].unused]]
      BY <2>1 DEF StartConditional, StartOperand
    <3>2. \A k \in Streams : Want[L(n)][k] = Want[n][k]
      BY <1>1, <1>7, <3>1 DEF WantRules, Maps, Redirects, Conditionals, Binary
    <3>3. Gives(n, L(n), arg[n].std, arg[n].unused)
      BY <1>1, <1>2, <1>6, <1>14, <3>1, <3>2 DEF Gives, Live, Going, Binary
    <3> QED BY <3>3
  <2>2. CASE TaskLeftDone(n) /\ ~StartRight(Op(n), val[L(n)])
    BY <2>2 DEF TaskLeftDone
  <2>3. CASE TaskLeftDone(n) /\ StartRight(Op(n), val[L(n)])
    <3>1. job[n] = "left" /\ pc' = [pc EXCEPT ![R(n)] = "start"]
          /\ arg' = [arg EXCEPT ![R(n)] = [std |-> arg[n].std, unused |-> arg[n].unused]]
      BY <1>2, <2>3 DEF TaskLeftDone
    <3>2. Op(n) \in Conditionals
      BY <3>1, <1>0 DEF IInv, Fresh
    <3>3. \A k \in Streams : Want[R(n)][k] = Want[n][k]
      BY <1>1, <1>7, <3>2 DEF WantRules, Maps, Redirects, Conditionals, Binary
    <3>4. \A j \in Node : pc'[j] = "start" => pc'[j] = pc[j] \/ j = R(n)
      BY <1>0, <3>1 DEF TypeOK
    <3>5. Gives(n, R(n), arg[n].std, arg[n].unused)
      BY <1>1, <1>2, <3>1, <3>2, <3>3, <3>4, <1>14 DEF Gives, Live, Binary
    <3> QED BY <3>5
  <2> QED BY <1>13, <2>1, <2>2, <2>3
<1> QED BY <1>8, <1>9, <1>10, <1>11, <1>12, <1>13 DEF OnArg

(* The shape of the streams; and all that is said of numbers.              *)
StdOK == DOMAIN std = Node
Numbered == ArgOK /\ StdOK /\ \A n \in Node : Gets(n) /\ Wired(n) /\ Holding(n)

(* Under a number that is found is the file that is wanted.                *)
LEMMA Found ==
    ASSUME Table, NEW n \in Node, NEW k \in Streams, NEW fd, Finds(n, k, fd)
    PROVE  fdt[fd] = Want[n][k]
<1>1. CASE fd = StdFd[k] /\ Want[n][k] = Tty(k)
  BY <1>1 DEF Table
<1>2. ASSUME NEW q \in Node, NEW s \in Slots, Uses(q, s, n), own[q][s] = fd, fd # -1,
             Want[n][k] = FileIn(q, s)
      PROVE  fdt[fd] = Want[n][k]
  <2>1. s \in {"p0", "p1", "fd"}
    BY <1>2 DEF Uses
  <2> QED BY <1>2, <2>1 DEF Table, Files, FileIn
<1> QED BY <1>1, <1>2 DEF Finds

(* A program gets the files that its start_run was told to give it.        *)
LEMMA Child ==
    ASSUME TypeOK, Table, ArgOK, NEW n \in Node,
           \A k \in Streams : Finds(n, k, arg[n].std[k]), \A fd \in arg[n].unused : Barred(n, fd)
    PROVE  \A k \in Streams : ChildTable(n)[StdFd[k]] = Want[n][k]
<1>1. /\ arg[n].std \in [Streams -> Fd] /\ Streams = {"in", "out", "err"}
      /\ StdFd["in"] = 0 /\ StdFd["out"] = 1 /\ StdFd["err"] = 2
  BY DEF ArgOK, Streams, StdFd
<1> DEFINE i == arg[n].std["in"]
           o == arg[n].std["out"]
           e == arg[n].std["err"]
<1>2. i \in Fd /\ o \in Fd /\ e \in Fd
  BY <1>1
<1>3. {0, 1, 2} \subseteq Fd
  <2>1. limit \in Nat /\ limit >= 3
    BY CasesAssumption DEF TypeOK
  <2> QED BY <2>1 DEF Fd
<1>4. ASSUME NEW k \in Streams
      PROVE  /\ arg[n].std[k] = StdFd[k] \/ arg[n].std[k] \notin {0, 1, 2}
             /\ arg[n].std[k] \notin arg[n].unused
             /\ fdt[arg[n].std[k]] = Want[n][k]
  <2>1. Finds(n, k, arg[n].std[k])
    BY <1>4
  <2>2. fdt[arg[n].std[k]] = Want[n][k]
    BY <2>1, Found
  <2>3. \A q \in Node, s \in Slots : own[q][s] # -1 => own[q][s] \notin 0..2
    BY DEF Table, Files
  <2>4. arg[n].std[k] = StdFd[k] \/ arg[n].std[k] \notin {0, 1, 2}
    BY <2>1, <2>3 DEF Finds
  <2>5. ASSUME arg[n].std[k] \in arg[n].unused PROVE FALSE
    <3>1. PICK q \in Node, s \in Slots : Bars(q, s, n) /\ own[q][s] = arg[n].std[k] /\ own[q][s] # -1
      BY <2>5 DEF Barred
    <3>2. arg[n].std[k] # StdFd[k]
      BY <1>1, <2>3, <3>1
    <3>3. PICK r \in Node, u \in Slots : Uses(r, u, n) /\ own[r][u] = arg[n].std[k]
      BY <2>1, <3>2 DEF Finds
    <3>4. r = q /\ u = s
      BY <3>1, <3>3 DEF Table, OneOwner
    <3> QED BY <3>1, <3>3, <3>4, Exclusive
  <2> QED BY <2>2, <2>4, <2>5
<1> DEFINE t == [fd \in Fd |-> IF fd \in arg[n].unused THEN Closed ELSE fdt[fd]]
           t0 == [t EXCEPT ![0] = t[i]]
           t1 == [t0 EXCEPT ![1] = t0[o]]
           t2 == [t1 EXCEPT ![2] = t1[e]]
<1>5. ChildTable(n) = t2
  BY DEF ChildTable
<1>6. /\ i = 0 \/ i \notin {0, 1, 2}
      /\ o = 1 \/ o \notin {0, 1, 2}
      /\ e = 2 \/ e \notin {0, 1, 2}
  BY <1>1, <1>4
<1>7. t[i] = Want[n]["in"] /\ t[o] = Want[n]["out"] /\ t[e] = Want[n]["err"]
  BY <1>1, <1>2, <1>4
<1> HIDE DEF i, o, e
<1>8. DOMAIN t = Fd
  OBVIOUS
<1> HIDE DEF t
<1>9. t0[0] = t[i] /\ t0[o] = t[o] /\ t0[e] = t[e] /\ DOMAIN t0 = Fd
  BY <1>2, <1>3, <1>6, <1>8
<1> HIDE DEF t0
<1>10. t1[0] = t0[0] /\ t1[1] = t0[o] /\ t1[e] = t0[e] /\ DOMAIN t1 = Fd
  BY <1>2, <1>3, <1>6, <1>9
<1> HIDE DEF t1
<1>11. t2[0] = t1[0] /\ t2[1] = t1[1] /\ t2[2] = t1[e]
  BY <1>2, <1>3, <1>10
<1> HIDE DEF t2
<1> QED BY <1>1, <1>5, <1>7, <1>9, <1>10, <1>11

(* The expression is what it was.                                          *)
LEMMA UsesStay ==
    ASSUME fixed' = fixed
    PROVE  /\ \A q, n \in Node : \A s :
                (Uses(q, s, n)' <=> Uses(q, s, n)) /\ (Bars(q, s, n)' <=> Bars(q, s, n))
           /\ \A q \in Node : \A s : FileIn(q, s)' = FileIn(q, s)
<1>1. tree' = tree /\ Node' = Node /\ \A m \in Node : Op(m)' = Op(m)
  BY Same
<1>2. ASSUME NEW q \in Node PROVE Under(L(q))' = Under(L(q)) /\ Under(R(q))' = Under(R(q))
  BY <1>1 DEF Under, Closes, Node, L, R
<1>3. \A q \in Node : PumpEnd(q)' = PumpEnd(q)
  BY <1>1 DEF PumpEnd
<1>4. \A q \in Node : \A s : FileIn(q, s)' = FileIn(q, s)
  BY DEF FileIn, PipeR, PipeW, OpenFile
<1> QED BY <1>1, <1>2, <1>3, <1>4 DEF Uses, Bars, Maps, Redirects

(* Who is inside start_run after a step of n was before it, or has been    *)
(* called by n.                                                            *)
LEMMA LiveStep ==
    ASSUME TypeOK, Local, Ready, NEW n \in Node, Turn(n), NEW k \in Node, Live(k)'
    PROVE  Live(k) \/ (pc'[k] = "start" /\ pc[k] = "idle" /\ k # n)
<1>1. Stands(n) /\ Fresh(n) /\ InTurn(n) /\ Kind(n)
  BY DEF Local, Ready, Stands
<1>2. CASE k = n
  <2>1. pc'[n] \in Going => pc[n] \in Going
    BY <1>1, OwnGoing
  <2>2. job'[n] = "left" => job[n] = "left" \/ pc[n] = "left"
    <3> USE DEF Moves, Asks, Has, Joined
    <3> QED BY <1>1 DEF Turn, Leaving, Starting, Tasking, Working, Finishing, Dying, Hosting
  <2> QED BY <1>2, <2>1, <2>2 DEF Live, Going
<1>3. CASE k # n
  <2>1. job'[k] = job[k] /\ k # 0
    BY <1>3, Elsewhere, Tree
  <2>2. CASE pc'[k] = pc[k]
    BY <2>1, <2>2 DEF Live, Going
  <2>3. CASE pc'[k] # pc[k]
    <3>1. k \in {L(n), R(n)}
      BY <1>3, <2>3, Elsewhere
    <3>2. (pc'[k] = "start" /\ pc[k] = "idle") \/ pc'[k] \in {"fin", "dtor"}
      BY <1>1, <2>1, <2>3, <3>1, Called
    <3> QED BY <1>3, <2>1, <3>2 DEF Live, Going
  <2> QED BY <2>2, <2>3
<1> QED BY <1>2, <1>3

(* Finds and Barred with the numbers after a step.                         *)
FindsThen(n, k, fd) ==
    \/ fd = StdFd[k] /\ Want[n][k] = Tty(k)
    \/ \E q \in Node, s \in Slots :
            Uses(q, s, n) /\ own'[q][s] = fd /\ fd # -1 /\ Want[n][k] = FileIn(q, s)

(* ... and what must be closed then.                                       *)
BarredThen(n, fd) == \E q \in Node, s \in Slots : Bars(q, s, n) /\ own'[q][s] = fd /\ fd # -1

(* They are Finds and Barred of the next state.                            *)
LEMMA Thens ==
    ASSUME TypeOK, TypeOK', fixed' = fixed, NEW n \in Node
    PROVE  /\ \A k \in Streams : \A fd : FindsThen(n, k, fd) => Finds(n, k, fd)'
           /\ \A fd : BarredThen(n, fd) => Barred(n, fd)'
<1>1. Node' = Node
  BY Same
<1>2. \A k \in Streams : Want'[n][k] = Want[n][k]
  BY WantStays
<1>3. /\ \A q \in Node : \A s : (Uses(q, s, n)' <=> Uses(q, s, n)) /\ (Bars(q, s, n)' <=> Bars(q, s, n))
      /\ \A q \in Node : \A s : FileIn(q, s)' = FileIn(q, s)
  BY UsesStay
<1>4. ASSUME NEW k \in Streams, NEW fd, FindsThen(n, k, fd) PROVE Finds(n, k, fd)'
  <2>1. CASE fd = StdFd[k] /\ Want[n][k] = Tty(k)
    BY <1>2, <2>1 DEF Finds, Tty
  <2>2. CASE \E q \in Node, s \in Slots :
            Uses(q, s, n) /\ own'[q][s] = fd /\ fd # -1 /\ Want[n][k] = FileIn(q, s)
    <3>1. PICK q \in Node, s \in Slots :
            Uses(q, s, n) /\ own'[q][s] = fd /\ fd # -1 /\ Want[n][k] = FileIn(q, s)
      BY <2>2
    <3>2. Uses(q, s, n)' /\ Want'[n][k] = FileIn(q, s)' /\ q \in Node' /\ s \in Slots
      BY <1>1, <1>2, <1>3, <3>1
    <3> QED BY <3>1, <3>2 DEF Finds
  <2> QED BY <1>4, <2>1, <2>2 DEF FindsThen
<1>5. ASSUME NEW fd, BarredThen(n, fd) PROVE Barred(n, fd)'
  BY <1>1, <1>3, <1>5 DEF Barred, BarredThen
<1> QED BY <1>4, <1>5

(* What a live node has been given stays good.                             *)
LEMMA StaysFound ==
    ASSUME IInv, IsTable, Pipelines, Local, Ready, \A k \in Node : Orderly(k),
           NEW n \in Node, Deals(n), Kept(n), fixed' = fixed, NEW m \in Node, Live(m)
    PROVE  /\ \A k \in Streams : \A fd : Finds(m, k, fd) => FindsThen(m, k, fd)
           /\ \A fd : Barred(m, fd) => BarredThen(m, fd)
<1>1. TypeOK
  BY DEF IInv
<1>2. ASSUME NEW q \in Node, NEW s \in Slots, own[q][s] # -1, Uses(q, s, m) \/ Bars(q, s, m)
      PROVE  own'[q][s] = own[q][s]
  <2> SUFFICES ASSUME own'[q][s] # own[q][s] PROVE FALSE
    OBVIOUS
  <2>1. q = n /\ \E S \in SUBSET Slots : Lets(n, S) /\ s \in S
    BY <1>2, Stable
  <2>2. PICK S \in SUBSET Slots : Lets(n, S) /\ s \in S
    BY <2>1
  <2>3. s \notin Streams
    BY <1>2 DEF Uses, Bars, PumpEnd, Streams, StdFd
  <2>4. own[n][s] # -1 /\ (Uses(n, s, m) \/ Bars(n, s, m))
    BY <1>2, <2>1
  <2>5. ~Live(m)
    BY <1>1, <2>2, <2>3, <2>4, Unneeded
  <2> QED BY <2>5
<1> QED BY <1>2 DEF Finds, FindsThen, Barred, BarredThen

(* A call hands over what is found, and what is barred.                    *)
LEMMA HandsOver ==
    ASSUME TypeOK, NEW n \in Node, NEW m \in Node, NEW fds, NEW un, Gives(n, m, fds, un),
           \A q \in Node \ {n} : own'[q] = own[q], Gets(n)
    PROVE  /\ \A k \in Streams : FindsThen(m, k, fds[k])
           /\ \A fd \in un : BarredThen(m, fd)
<1>1. m \in {L(n), R(n)} /\ m # 0 /\ Live(n)
  BY DEF Gives
<1>2. /\ \A k \in Streams : Finds(n, k, arg[n].std[k])
      /\ \A fd \in arg[n].unused : Barred(n, fd)
  BY <1>1 DEF Gets
<1>3. \A q \in Node : \A s :
        /\ Uses(q, s, n) => Uses(q, s, m) /\ own'[q] = own[q]
        /\ Bars(q, s, n) => Bars(q, s, m) /\ own'[q] = own[q]
  BY <1>1, Passes
<1>4. ASSUME NEW k \in Streams PROVE FindsThen(m, k, fds[k])
  <2>1. CASE fds[k] = arg[n].std[k] /\ Want[m][k] = Want[n][k]
    <3>1. Finds(n, k, fds[k])
      BY <1>2, <2>1
    <3> QED BY <1>3, <2>1, <3>1 DEF Finds, FindsThen
  <2>2. CASE \E s \in Slots :
            Uses(n, s, m) /\ own'[n][s] = fds[k] /\ fds[k] # -1 /\ Want[m][k] = FileIn(n, s)
    BY <2>2 DEF FindsThen
  <2> QED BY <2>1, <2>2 DEF Gives
<1>5. ASSUME NEW fd \in un PROVE BarredThen(m, fd)
  <2>1. CASE fd \in arg[n].unused
    <3>1. Barred(n, fd)
      BY <1>2, <2>1
    <3> QED BY <1>3, <3>1 DEF Barred, BarredThen
  <2>2. CASE \E s \in Slots : Bars(n, s, m) /\ own'[n][s] = fd /\ fd # -1
    BY <2>2 DEF BarredThen
  <2> QED BY <2>1, <2>2 DEF Gives
<1> QED BY <1>4, <1>5

(* Every command inside start_run keeps descriptors under which the files  *)
(* that the expression gives it are found, whatever n does.                *)
LEMMA GetsStep ==
    ASSUME IInv, IInv', IsTable, Pipelines, Local, Ready, \A k \in Node : Orderly(k), Numbered,
           NEW n \in Node, Turn(n), Deals(n), Kept(n), NEW k \in Node
    PROVE  Gets(k)'
<1>1. TypeOK /\ TypeOK' /\ fixed' = fixed /\ (\A q \in Node \ {n} : own'[q] = own[q])
  BY DEF IInv, Turn, Only, Kept
<1>2. SUFFICES ASSUME Live(k)' 
      PROVE  /\ \A s \in Streams : FindsThen(k, s, arg'[k].std[s])
             /\ \A fd \in arg'[k].unused : BarredThen(k, fd)
  <2>1. /\ \A s \in Streams : \A fd : FindsThen(k, s, fd) => Finds(k, s, fd)'
        /\ \A fd : BarredThen(k, fd) => Barred(k, fd)'
    BY <1>1, Thens
  <2> QED BY <2>1 DEF Gets
<1>3. Live(k) \/ (pc'[k] = "start" /\ pc[k] = "idle" /\ k # n)
  BY <1>1, <1>2, LiveStep
<1>4. Kind(n) /\ ArgOK /\ Holding(n) /\ Gets(n) /\ Gets(k) /\ OnArg(n)
  BY DEF Local, Stands, Numbered, Deals
<1>5. \/ arg' = arg /\ \A j \in Node : pc'[j] = "start" => pc'[j] = pc[j]
      \/ \E m, fds, un : Gives(n, m, fds, un)
  BY <1>4, Giving
<1>6. ASSUME Live(k), arg'[k] = arg[k]
      PROVE  /\ \A s \in Streams : FindsThen(k, s, arg'[k].std[s])
             /\ \A fd \in arg'[k].unused : BarredThen(k, fd)
  <2>1. /\ \A s \in Streams : \A fd : Finds(k, s, fd) => FindsThen(k, s, fd)
        /\ \A fd : Barred(k, fd) => BarredThen(k, fd)
    BY <1>1, <1>6, StaysFound
  <2> QED BY <1>4, <1>6, <2>1 DEF Gets
<1>7. CASE arg' = arg /\ \A j \in Node : pc'[j] = "start" => pc'[j] = pc[j]
  BY <1>3, <1>6, <1>7
<1>8. ASSUME NEW m, NEW fds, NEW un, Gives(n, m, fds, un)
      PROVE  /\ \A s \in Streams : FindsThen(k, s, arg'[k].std[s])
             /\ \A fd \in arg'[k].unused : BarredThen(k, fd)
  <2>1. /\ m \in {L(n), R(n)} /\ m # 0 /\ pc[m] = "idle" /\ m \in Node
        /\ arg' = [arg EXCEPT ![m] = [std |-> fds, unused |-> un]]
        /\ \A j \in Node : pc'[j] = "start" => pc'[j] = pc[j] \/ j = m
    BY <1>1, <1>8, Tree DEF Gives
  <2>2. CASE k = m
    <3>1. /\ \A s \in Streams : FindsThen(m, s, fds[s])
          /\ \A fd \in un : BarredThen(m, fd)
      BY <1>1, <1>4, <1>8, <2>1, HandsOver
    <3>2. arg'[k].std = fds /\ arg'[k].unused = un
      BY <1>4, <2>1, <2>2 DEF ArgOK
    <3> QED BY <2>2, <3>1, <3>2
  <2>3. CASE k # m
    <3>1. arg'[k] = arg[k] /\ Live(k)
      BY <1>3, <2>1, <2>3
    <3> QED BY <1>6, <3>1
  <2> QED BY <2>2, <2>3
<1> QED BY <1>5, <1>7, <1>8

(* What runs keeps its files, and what starts to run gets them.            *)
LEMMA WiredStep ==
    ASSUME IInv, IInv', IsTable, Local, Numbered,
           NEW n \in Node, Turn(n), Deals(n), Kept(n), NEW k \in Node
    PROVE  Wired(k)'
<1>1. /\ TypeOK /\ TypeOK' /\ Table /\ ArgOK /\ fixed' = fixed /\ DOMAIN std = Node
      /\ \A q \in Node \ {n} : own'[q] = own[q]
  BY DEF IInv, Turn, Only, Kept, Numbered, StdOK
<1>2. Op(k)' = Op(k) /\ \A s \in Streams : Want'[k][s] = Want[k][s]
  BY <1>1, Same, WantStays
<1>3. Gets(k) /\ Gets(n) /\ Wired(k)
  BY DEF Numbered
<1>4. pc[n] = "start" => /\ \A s \in Streams : Finds(n, s, arg[n].std[s])
                         /\ \A fd \in arg[n].unused : Barred(n, fd)
  BY <1>3 DEF Gets, Live, Going
<1>5. k # n => job'[k] = job[k]
  BY Elsewhere
<1>6. OnStd(n) /\ OnJob(n)
  BY DEF Deals
<1>7. ASSUME Op(k) = "native", job'[k] = "run", NEW s \in Streams PROVE std'[k][s] = Want[k][s]
  <2>1. CASE k # n
    <3>1. std'[k] = std[k]
      BY <1>1, <1>6, <2>1 DEF OnStd, StartNative
    <3> QED BY <1>3, <1>5, <1>7, <2>1, <3>1 DEF Wired
  <2>2. CASE k = n /\ StartNative(n)
    <3>1. pc[n] = "start" /\ std' = [std EXCEPT ![n] = [j \in Streams |-> ChildTable(n)[StdFd[j]]]]
      BY <2>2 DEF StartNative, programs
    <3>2. \A j \in Streams : ChildTable(n)[StdFd[j]] = Want[n][j]
      BY <1>1, <1>4, <3>1, Child
    <3>3. std'[n] = [j \in Streams |-> ChildTable(n)[StdFd[j]]]
      BY <1>1, <3>1
    <3> QED BY <1>7, <2>2, <3>2, <3>3
  <2>3. CASE k = n /\ ~StartNative(n)
    <3>1. job[n] = "run"
      BY <1>6, <1>7, <2>3 DEF OnJob, StartFunction
    <3>2. std' = std
      BY <1>6, <1>7, <2>3 DEF OnStd
    <3> QED BY <1>3, <1>7, <2>3, <3>1, <3>2 DEF Wired
  <2> QED BY <2>1, <2>2, <2>3
<1>8. ASSUME Op(k) = "function", job'[k] = "run", NEW s \in Streams
      PROVE  own'[k][s] # -1 /\ fdt'[own'[k][s]] = Want[k][s]
  <2>0. s \in Slots
    BY DEF Slots
  <2>1. CASE k = n /\ StartFunction(n)
    <3> DEFINE dup == [in |-> Free1, out |-> Free2, err |-> Free3]
    <3>1. /\ pc[n] = "start" /\ CanOpen(3)
          /\ fdt' = [fd \in Fd |->
                        IF \E j \in Streams : dup[j] = fd
                        THEN fdt[arg[n].std[CHOOSE j \in Streams : dup[j] = fd]] ELSE fdt[fd]]
          /\ own' = [own EXCEPT ![n] = [r \in Slots |-> IF r \in Streams THEN dup[r] ELSE @[r]]]
      BY <2>1 DEF StartFunction, CanDup
    <3>2. dup[s] \in Fd /\ dup[s] # -1 /\ \A j \in Streams : dup[j] = dup[s] => j = s
      <4>1. /\ Free1 \in Fd \ (0..2) /\ Free2 \in Fd \ (0..2) /\ Free3 \in Fd \ (0..2)
            /\ Free1 # Free2 /\ Free1 # Free3 /\ Free2 # Free3
        BY <1>1, <3>1, Given
      <4>2. limit \in Nat
        BY <1>1, CasesAssumption DEF TypeOK
      <4>3. s \in {"in", "out", "err"} /\ Streams = {"in", "out", "err"}
        BY DEF Streams, StdFd
      <4> QED BY <4>1, <4>2, <4>3 DEF Fd
    <3> HIDE DEF dup
    <3>3. own'[n][s] = dup[s]
      BY <1>1, <2>0, <3>1 DEF TypeOK
    <3>4. (CHOOSE j \in Streams : dup[j] = dup[s]) = s
      BY <3>2
    <3>5. fdt'[dup[s]] = fdt[arg[n].std[s]]
      BY <3>1, <3>2, <3>4
    <3>6. fdt[arg[n].std[s]] = Want[n][s]
      <4>1. Finds(n, s, arg[n].std[s])
        BY <1>4, <3>1
      <4> QED BY <1>1, <4>1, Found
    <3> QED BY <2>1, <3>2, <3>3, <3>5, <3>6
  <2>2. CASE ~(k = n /\ StartFunction(n))
    <3>1. job[k] = "run"
      BY <1>5, <1>6, <1>8, <2>2 DEF OnJob, StartNative
    <3>2. own[k][s] # -1 /\ fdt[own[k][s]] = Want[k][s]
      BY <1>3, <1>8, <3>1 DEF Wired
    <3>3. own'[k][s] = own[k][s]
      <4> SUFFICES ASSUME own'[k][s] # own[k][s] PROVE FALSE
        OBVIOUS
      <4>1. k = n /\ \E S \in SUBSET Slots : Lets(n, S) /\ s \in S
        BY <1>1, <2>0, <3>2, Stable
      <4>2. PICK S \in SUBSET Slots : Lets(n, S) /\ s \in S
        BY <4>1
      <4>3. job'[n] = "run" /\ s \in {"in", "out", "err"}
        BY <1>8, <4>1 DEF Streams, StdFd
      <4> QED BY <4>2, <4>3 DEF Lets, PumpEnd
    <3>4. own[k][s] \in Fd /\ fdt[own[k][s]] # Closed
      BY <1>1, <2>0, <3>2 DEF TypeOK, Table, Files
    <3>5. fdt'[own[k][s]] = fdt[own[k][s]]
      <4> SUFFICES ASSUME fdt'[own[k][s]] # fdt[own[k][s]] PROVE FALSE
        OBVIOUS
      <4>1. \E S \in SUBSET Slots : Lets(n, S) /\ \E r \in S : own[n][r] = own[k][s] /\ own'[n][r] = -1
        BY <1>1, <3>4, Stable
      <4>2. PICK r \in Slots : own[n][r] = own[k][s] /\ own'[n][r] = -1
        BY <4>1
      <4>3. n = k /\ r = s
        BY <1>1, <2>0, <3>2, <4>2 DEF Table, OneOwner
      <4> QED BY <3>2, <3>3, <4>2, <4>3
    <3> QED BY <3>2, <3>3, <3>5
  <2> QED BY <2>1, <2>2
<1> QED BY <1>2, <1>7, <1>8 DEF Wired

(* A pipe keeps its two ends until its right operand is started.           *)
LEMMA HoldingStep ==
    ASSUME IInv, IsTable, Numbered, Local, NEW n \in Node, Turn(n), Deals(n), Kept(n), NEW k \in Node
    PROVE  Holding(k)'
<1>1. /\ TypeOK /\ Table /\ fixed' = fixed /\ Stands(n) /\ Fresh(n) /\ InTurn(n)
      /\ \A q \in Node \ {n} : own'[q] = own[q]
  BY DEF IInv, Turn, Only, Kept, Local
<1>2. SUFFICES ASSUME Op(k) = "pipe", pc'[k] = "left" PROVE own'[k]["p0"] # -1 /\ own'[k]["p1"] # -1
  BY <1>1, Same DEF Holding
<1>3. Holding(k) /\ k # 0 /\ {"p0", "p1"} \subseteq Slots /\ L(k) # 0
  BY <1>1, <1>2, Operand, Tree DEF Numbered, Slots, Binary
<1>4. CASE k # n
  <2>1. pc[k] = "left"
    <3>1. CASE pc'[k] # pc[k]
      <4>1. k \in {L(n), R(n)}
        BY <1>4, <3>1, Elsewhere
      <4>2. pc'[k] \in {"start", "fin", "dtor"}
        BY <1>1, <1>3, <3>1, <4>1, Called
      <4> QED BY <1>2, <4>2
    <3> QED BY <1>2, <3>1
  <2> QED BY <1>1, <1>2, <1>3, <1>4, <2>1 DEF Holding
<1>5. CASE k = n /\ StartPipe(n)
  <2>1. CanOpen(2) /\ own' = [own EXCEPT ![n]["p0"] = Free1, ![n]["p1"] = Free2]
    BY <1>5 DEF StartPipe, OpenPipe
  <2>2. own'[n]["p0"] = Free1 /\ own'[n]["p1"] = Free2
    BY <1>1, <1>3, <2>1 DEF TypeOK
  <2>3. Free1 \in Fd \ (0..2) /\ Free2 \in Fd \ (0..2)
    BY <1>1, <2>1, Given
  <2>4. limit \in Nat
    BY <1>1, CasesAssumption DEF TypeOK
  <2> QED BY <1>5, <2>2, <2>3, <2>4 DEF Fd
<1>6. CASE k = n /\ ~StartPipe(n)
  <2>1. pc[n] = "left"
    <3>1. StartMapping(n) \/ StartRedirect(n) \/ StartConditional(n) => Op(n) # "pipe"
      BY DEF StartMapping, StartRedirect, StartConditional, Maps, Redirects, Conditionals
    <3>2. StartRightOfPipe(n) => pc[n] = "left"
      BY DEF StartRightOfPipe
    <3>3. TaskLeftDone(n) => Op(n) # "pipe"
      BY <1>1 DEF TaskLeftDone, Fresh, Conditionals
    <3>4. NoStart => pc[n] = "left"
      BY <1>2, <1>6 DEF NoStart
    <3> QED BY <1>2, <1>6, <3>1, <3>2, <3>3, <3>4 DEF Deals, OnArg
  <2>2. ASSUME NEW s \in {"p0", "p1"}, own'[n][s] # own[n][s] PROVE FALSE
    <3>1. own[n][s] # -1 /\ s \in Slots
      BY <1>2, <1>3, <1>6, <2>1, <2>2 DEF Holding
    <3>2. PICK S \in SUBSET Slots : Lets(n, S) /\ s \in S
      BY <1>1, <2>2, <3>1, Stable
    <3>3. job[n] = "none" /\ s \notin {"fd"} \cup Streams
      BY <1>1, <2>1 DEF Fresh, Streams, StdFd
    <3> QED BY <1>2, <1>6, <2>1, <3>2, <3>3 DEF Lets, Maps
  <2> QED BY <1>2, <1>3, <1>6, <2>1, <2>2 DEF Holding
<1> QED BY <1>4, <1>5, <1>6

(* Every step of a node keeps what is said of numbers.                     *)
LEMMA NumberedStep ==
    ASSUME IInv, IInv', IsTable, Pipelines, Local, Ready, \A k \in Node : Orderly(k), Numbered,
           NEW n \in Node, Turn(n), Deals(n), Kept(n)
    PROVE  Numbered'
<1>1. TypeOK /\ fixed' = fixed /\ ArgOK /\ StdOK /\ Holding(n) /\ Kind(n) /\ OnArg(n) /\ OnStd(n)
  BY DEF IInv, Turn, Only, Numbered, Deals, Local, Stands
<1>2. Node' = Node /\ Fd' = Fd
  BY <1>1, Same DEF Fd, fixed
<1>3. \A k \in Node : Gets(k)' /\ Wired(k)' /\ Holding(k)'
  BY GetsStep, WiredStep, HoldingStep
<1>4. ArgOK'
  <2>1. arg' \in [Node -> [std : [Streams -> Fd], unused : SUBSET Fd]]
    <3>1. arg' = arg \/ \E m, fds, un : Gives(n, m, fds, un)
      BY <1>1, Giving
    <3>2. ASSUME NEW m, NEW fds, NEW un, Gives(n, m, fds, un)
          PROVE  arg' \in [Node -> [std : [Streams -> Fd], unused : SUBSET Fd]]
      <4>1. [std |-> fds, unused |-> un] \in [std : [Streams -> Fd], unused : SUBSET Fd]
            /\ arg' = [arg EXCEPT ![m] = [std |-> fds, unused |-> un]]
        BY <3>2 DEF Gives
      <4> QED BY <1>1, <4>1 DEF ArgOK
    <3> QED BY <1>1, <3>1, <3>2 DEF ArgOK
  <2> QED BY <1>2, <2>1 DEF ArgOK, Streams
<1>5. StdOK'
  BY <1>1, <1>2 DEF StdOK, OnStd, StartNative
<1> QED BY <1>2, <1>3, <1>4, <1>5 DEF Numbered

(* The invariant of these expressions.                                     *)
Tidy == Sound /\ (Pipelines => (\A n \in Node : Orderly(n)) /\ Numbered)

(* The expression stays in this class.                                     *)
LEMMA Lastly == ASSUME TypeOK, fixed' = fixed PROVE Pipelines' <=> Pipelines
<1>1. Node' = Node /\ (\A m \in Node : Op(m)' = Op(m)) /\ \A m \in Node : Straight(m)' <=> Straight(m)
  BY Same, StraightStays
<1> QED BY <1>1 DEF Pipelines, Maps

(* It holds before run() is called.                                        *)
LEMMA InitTidy == Init => Tidy
<1> SUFFICES ASSUME Init PROVE (\A n \in Node : Orderly(n)) /\ Numbered
  BY InitSound DEF Tidy
<1>1. TypeOK /\ Ready /\ Root \in Node
  BY InitSound, Tree DEF Sound, IInv, Ready
<1>2. /\ \A n \in Node : /\ pc[n] \in {"idle", "start"} /\ (pc[n] = "start" => n = Root)
                         /\ job[n] = "none" /\ arg[n] = [std |-> StdFd, unused |-> {}]
      /\ arg = [n \in Node |-> [std |-> StdFd, unused |-> {}]] /\ DOMAIN std = Node
  BY DEF Init
<1>3. ASSUME NEW n \in Node PROVE Orderly(n)
  <2>1. ASSUME NEW c \in {L(n), R(n)}, c # 0 PROVE pc[c] = "idle" /\ job[c] = "none"
    <3>1. c \in Node /\ c # Root
      BY <1>1, <2>1, Tree, Order
    <3> QED BY <1>2, <3>1
  <2>2. \A c \in {L(n), R(n)} \cap Node : Ended(c)
    <3>1. 0 \notin Node
      BY <1>1, Tree
    <3> QED BY <2>1, <3>1 DEF Ended, Going, Resting, Joined
  <2>3. Nested(n)
    BY <2>1 DEF Nested, Going
  <2>4. pc[n] \in {"idle", "start"} /\ Joined(n)
    BY <1>2 DEF Joined
  <2>5. Resumes(n) /\ EndsBelow(n)
    BY <2>2, <2>4 DEF Resumes, EndsBelow, Dtor
  <2> QED BY <2>3, <2>5 DEF Orderly
<1>4. limit \in Nat /\ limit >= 3
  BY <1>1, CasesAssumption DEF TypeOK
<1>5. ArgOK
  <2>1. StdFd \in [Streams -> Fd]
    BY <1>4 DEF StdFd, Streams, Fd
  <2> QED BY <1>2, <2>1 DEF ArgOK
<1>6. ASSUME NEW n \in Node PROVE Gets(n)
  <2> SUFFICES ASSUME Live(n) PROVE \A k \in Streams : Finds(n, k, StdFd[k])
    BY <1>2 DEF Gets
  <2>1. n = Root
    BY <1>2 DEF Live, Going
  <2>2. Want[Root] = WantOf(Want, Root)
    BY <1>1, WantDefined
  <2>3. Want[Root] = [k \in Streams |-> Tty(k)]
    BY <2>2 DEF WantOf
  <2> QED BY <2>1, <2>3 DEF Finds
<1>7. \A n \in Node : Wired(n) /\ Holding(n)
  BY <1>2 DEF Wired, Holding
<1> QED BY <1>2, <1>3, <1>5, <1>6, <1>7 DEF Numbered, StdOK

(* What these invariants are about stays.                                  *)
LEMMA UnmovedTidy ==
    ASSUME TypeOK, TypeOK', \A n \in Node : Orderly(n), Numbered,
           UNCHANGED <<fixed, pc, job, table, arg, std>>
    PROVE  (\A n \in Node : Orderly(n)') /\ Numbered'
<1>1. /\ tree' = tree /\ limit' = limit /\ pc' = pc /\ job' = job /\ own' = own /\ fdt' = fdt
      /\ arg' = arg /\ std' = std /\ fixed' = fixed /\ Node' = Node /\ Fd' = Fd
      /\ (\A m \in Node : Op(m)' = Op(m) /\ L(m)' = L(m) /\ R(m)' = R(m))
      /\ \A m \in Node : Straight(m)' <=> Straight(m)
  BY Same, StraightStays DEF fixed, table, Fd
<1>2. \A m \in Node : Ended(m)' <=> Ended(m)
  BY <1>1 DEF Ended, Joined, Going, Resting, Dtor, Conditionals
<1>3. ASSUME NEW n \in Node PROVE Orderly(n)'
  <2>1. Orderly(n)
    OBVIOUS
  <2>2. Nested(n)' /\ Resumes(n)'
    BY <1>1, <2>1 DEF Orderly, Nested, Resumes, Going, UnaryOps, Maps, Redirects
  <2>3. Rested(n)' <=> Rested(n)
    BY <1>1 DEF Rested, Conditionals, Redirects, Joined
  <2>4. (\A c \in {L(n), R(n)} \cap Node : Ended(c)) => (\A c \in {L(n), R(n)} \cap Node : Ended(c)')
    BY <1>2
  <2>5. (\A c \in {L(n), R(n)} \cap Node : Ended(c)) => (\A c \in {L(n), R(n)} \cap Node : Ended(c))'
    BY <1>1, <2>4
  <2>6. EndsBelow(n)'
    BY <1>1, <2>1, <2>3, <2>5 DEF Orderly, EndsBelow, Conditionals, Joined, Dtor
  <2> QED BY <2>2, <2>6 DEF Orderly
<1>4. ASSUME NEW n \in Node PROVE Gets(n)' /\ Wired(n)' /\ Holding(n)'
  <2>1. Gets(n) /\ Wired(n) /\ Holding(n)
    BY DEF Numbered
  <2>2. /\ \A k \in Streams : \A fd : Finds(n, k, fd) => Finds(n, k, fd)'
        /\ \A fd : Barred(n, fd) => Barred(n, fd)'
    <3>1. /\ \A k \in Streams : \A fd : Finds(n, k, fd) => FindsThen(n, k, fd)
          /\ \A fd : Barred(n, fd) => BarredThen(n, fd)
      BY <1>1 DEF Finds, FindsThen, Barred, BarredThen
    <3>2. /\ \A k \in Streams : \A fd : FindsThen(n, k, fd) => Finds(n, k, fd)'
          /\ \A fd : BarredThen(n, fd) => Barred(n, fd)'
      BY <1>1, Thens
    <3> QED BY <3>1, <3>2
  <2>3. Gets(n)'
    BY <1>1, <2>1, <2>2 DEF Gets, Live, Going
  <2>4. \A k \in Streams : Want'[n][k] = Want[n][k]
    BY <1>1, WantStays
  <2> QED BY <1>1, <2>1, <2>3, <2>4 DEF Wired, Holding
<1>5. ArgOK' /\ StdOK'
  BY <1>1 DEF Numbered, ArgOK, StdOK, Streams
<1> QED BY <1>1, <1>3, <1>4, <1>5 DEF Numbered

(* It is inductive.                                                        *)
LEMMA NextTidy == Tidy /\ [Next]_vars => Tidy'
<1> SUFFICES ASSUME Tidy, [Next]_vars PROVE Tidy'
  OBVIOUS
<1>1. Sound /\ Sound'
  BY NextSound DEF Tidy
<1>2. IInv /\ IInv' /\ TypeOK /\ TypeOK' /\ Ready /\ Local /\ Wrapped /\ IsTable
  BY <1>1 DEF Sound, IInv, Ready, Wrapped
<1>3. ASSUME NEW n \in Node, Turn(n), Deals(n), Kept(n)
      PROVE  Tidy'
  <2>1. fixed' = fixed /\ Node' = Node /\ (Pipelines' <=> Pipelines)
    BY <1>2, <1>3, Lastly, Same DEF Turn, Only
  <2>2. ASSUME Pipelines PROVE (\A m \in Node : Orderly(m)') /\ Numbered'
    <3>1. (\A m \in Node : Orderly(m)) /\ Numbered
      BY <2>2 DEF Tidy
    <3> QED BY <1>2, <1>3, <2>2, <3>1, OrderlyStep, NumberedStep
  <2> QED BY <1>1, <2>1, <2>2 DEF Tidy
<1>4. ASSUME NEW n \in Node, Act(n) PROVE Tidy'
  <2>1. Turn(n)
    BY <1>2, <1>4, Acting
  <2>2. Kept(n)
    BY <1>2, <1>4, StartKeeps, TaskKeeps, FinishKeeps DEF Act
  <2>3. Deals(n)
    BY <1>2, <1>4, Dealing
  <2> QED BY <1>3, <2>1, <2>2, <2>3
<1>5. CASE RunFinishes \/ Drop
  <2>1. Root \in Node /\ Turn(Root)
    BY <1>2, <1>5, Tree, HostCalls
  <2>2. UNCHANGED <<arg, job, programs, table>> /\ fixed' = fixed
        /\ (Goto(Root, "fin") \/ Goto(Root, "dtor"))
    BY <1>5 DEF RunFinishes, Drop, rest
  <2>3. Kept(Root)
    BY <1>2, <2>1, <2>2, SameTable
  <2>4. Deals(Root)
    <3>1. NoStart
      BY <1>2, <2>2 DEF Goto, NoStart, TypeOK
    <3> QED BY <2>2, <3>1 DEF Deals, OnTable, OnArg, OnStd, OnJob, OnKeeps, programs
  <2> QED BY <1>3, <2>1, <2>3, <2>4
<1>6. CASE RunReturns \/ RunThrows \/ UNCHANGED vars
  <2>1. UNCHANGED <<fixed, pc, job, table, arg, std>>
    BY <1>6 DEF RunReturns, RunThrows, vars, fixed, table, programs
  <2>2. fixed' = fixed /\ Node' = Node /\ (Pipelines' <=> Pipelines)
    BY <1>2, <2>1, Lastly, Same
  <2>3. ASSUME Pipelines PROVE (\A m \in Node : Orderly(m)') /\ Numbered'
    <3>1. (\A m \in Node : Orderly(m)) /\ Numbered
      BY <2>3 DEF Tidy
    <3> QED BY <1>2, <2>1, <3>1, UnmovedTidy
  <2> QED BY <1>1, <2>2, <2>3 DEF Tidy
<1> QED BY <1>4, <1>5, <1>6 DEF Next, Terminated, Act

(* It says that every program and every function that runs reads and writes *)
(* the files that the expression gives it.                                 *)
LEMMA TidyWiring == Tidy => (Pipelines => Wiring)
<1> SUFFICES ASSUME Tidy, Pipelines, NEW n \in Node, Running(n), NEW k \in Streams
             PROVE  Stream(n, k) = Want[n][k]
  BY DEF Wiring
<1>1. Table /\ Local /\ Gets(n) /\ Wired(n)
  BY DEF Tidy, Sound, IInv, Numbered
<1>2. Op(n) \in {"native", "function", "builtin"} /\ job[n] = "run"
  BY DEF Running, Leaves
<1>3. CASE Op(n) = "native"
  <2>1. Stream(n, k) = std[n][k]
    BY <1>3, Zenon DEF Stream
  <2> QED BY <1>1, <1>2, <1>3, <2>1 DEF Wired
<1>4. CASE Op(n) = "function"
  <2>1. Stream(n, k) = fdt[own[n][k]]
    BY <1>4, Zenon DEF Stream
  <2> QED BY <1>1, <1>2, <1>4, <2>1 DEF Wired
<1>5. CASE Op(n) = "builtin"
  <2>1. Stream(n, k) = fdt[arg[n].std[k]]
    BY <1>5, Zenon DEF Stream
  <2>2. Live(n)
    BY <1>1, <1>2, <1>5 DEF Local, Stands, Kind, Jobs, Live, Going
  <2>3. Finds(n, k, arg[n].std[k])
    BY <1>1, <2>2 DEF Gets
  <2> QED BY <1>1, <2>1, <2>3, Found
<1> QED BY <1>2, <1>3, <1>4, <1>5

(* operator| , < , > , >= and the redirections connect what they say: every *)
(* program and every function of an expression in which no pipe and no     *)
(* mapping contains && || , has as its three streams the ends of pipes, the *)
(* files and the terminals that the operators around it name, from its start *)
(* on, for every expression of that class and every limit on descriptors.  *)
THEOREM WiredUp == Spec => [](Pipelines => Wiring)
<1>1. Tidy /\ [Next]_vars => Tidy'
  BY NextTidy
<1> QED BY InitTidy, <1>1, TidyWiring, PTL DEF Spec

-----------------------------------------------------------------------------
(***************************************************************************)
(* What is written to a pipe and read from it.                             *)
(***************************************************************************)

Outs == {"outmap", "errmap"}

(* Who writes into f, and what a step of n does to the contents of pipes   *)
(* and strings.                                                            *)
Puts(n, f) ==
    \/ Running(n) /\ \E k \in {"out", "err"} : f = Stream(n, k)
    \/ Pumping(n) /\ Op(n) = "inmap" /\ f = PumpFile(n)

(* A step changes the contents of one pipe or string by one item, or starts *)
(* a mapping.                                                              *)
OnData(n) ==
    \/ UNCHANGED data
    \/ \E f : Puts(n, f) /\ CanPut(f) /\ Put(f) /\ UNCHANGED got
    \/ Running(n) /\ CanTake(Stream(n, "in")) /\ Take(Stream(n, "in")) /\ UNCHANGED got
    \/ /\ Pumping(n) /\ Op(n) # "inmap" /\ CanTake(PumpFile(n)) /\ Take(PumpFile(n))
       /\ got' = [got EXCEPT ![n] = @ + 1]
    \/ pc[n] = "start" /\ pc'[n] # "start" /\ Op(n) \in Maps /\ InitFunc(n) /\ UNCHANGED <<buf, wrote>>

(* A mapping starts with its string as the functor says, fails only if the *)
(* functor does, and is done when it has seen the end of its pipe.         *)
OnPump(n) ==
    Op(n) \in Maps =>
        /\ pc[n] = "start" => InitFunc(n) /\ UNCHANGED <<buf, wrote>>
        /\ job'[n] = "failed" => job[n] = "failed" \/ tree[n].bad
        /\ job'[n] = "done" /\ Op(n) \in Outs /\ ~tree[n].bad =>
                job[n] = "done" \/ (Pumping(n) /\ AtEof(PumpFile(n)))

(* Every action of a node does no more than that with the data.            *)
LEMMA Flowing == ASSUME IInv, Local, NEW n \in Node, Act(n) PROVE OnData(n) /\ OnPump(n)
<1>1. DOMAIN job = Node /\ DOMAIN pc = Node /\ Kind(n) /\ Fresh(n)
  BY DEF IInv, TypeOK, Local, Stands
<1>2. pc[n] = "start" => job[n] = "none"
  BY <1>1 DEF Fresh
<1> USE <1>1, <1>2 DEF OnData, OnPump, data, rest, Maps, Conditionals, Redirects, Outs
<1>3. ASSUME StartLeaf(n) PROVE OnData(n) /\ OnPump(n)
  BY <1>3 DEF StartLeaf, StartBool, StartBuiltin, StartFunctionThrows, StartNativeThrows, StartFunction,
              StartNative, ForkFails
<1>4. ASSUME StartNode(n) PROVE OnData(n) /\ OnPump(n)
  <2>1. CASE StartPipe(n) \/ StartRightOfPipe(n) \/ PipeUp(n) \/ PipeThrows(n) \/ StartRedirect(n)
             \/ StartConditional(n) \/ ConditionalUp(n) \/ RedirectUp(n) \/ PassThrow(n)
    BY <2>1 DEF StartPipe, StartRightOfPipe, PipeUp, PipeThrows, StartRedirect, StartConditional,
                ConditionalUp, RedirectUp, PassThrow
  <2>2. CASE StartMapping(n)
    <3>1. pc[n] = "start" /\ pc'[n] = "left" /\ InitFunc(n) /\ UNCHANGED <<buf, wrote, job>> /\ Op(n) \in Maps
      BY <2>2 DEF StartMapping, StartOperand, Call
    <3> QED BY <3>1
  <2>3. CASE StartPump(n) \/ InMappingUp(n)
    <3>1. UNCHANGED data /\ pc[n] # "start" /\ (job'[n] = "run" \/ job' = job)
      BY <2>3 DEF StartPump, InMappingUp
    <3> QED BY <3>1
  <2>4. CASE MappingThrows(n)
    <3>1. UNCHANGED <<buf, wrote, job>> /\ pc'[n] = "threw"
          /\ (pc[n] = "start" => InitFunc(n)) /\ (pc[n] # "start" => UNCHANGED got)
      BY <2>4 DEF MappingThrows, Goto
    <3> QED BY <2>4, <3>1 DEF MappingThrows
  <2> QED BY <1>4, <2>1, <2>2, <2>3, <2>4 DEF StartNode
<1>5. ASSUME Task(n) PROVE OnData(n) /\ OnPump(n)
  <2>1. UNCHANGED data /\ job[n] \in {"left", "right"}
    BY <1>5 DEF Task, TaskLeftDone, TaskRightUp, TaskRightDone, TaskFails
  <2>2. Op(n) \notin Maps
    BY <2>1, Tree DEF Kind, Jobs, IInv
  <2> QED BY <2>1, <2>2
<1>6. ASSUME Leaf(n) PROVE OnData(n) /\ OnPump(n)
  <2>1. ASSUME NEW v, Running(n), ProcessEnds(n, v) PROVE OnData(n) /\ OnPump(n)
    BY <2>1 DEF ProcessEnds, Running, Leaves
  <2>2. CASE ProgramEnds(n)
    BY <2>1, <2>2 DEF ProgramEnds
  <2>3. ASSUME NEW k \in {"out", "err"}, LeafBreaks(n, k) PROVE OnData(n) /\ OnPump(n)
    BY <2>1, <2>3 DEF LeafBreaks, Running, Leaves
  <2>4. CASE FunctionEnds(n) \/ LeafSeesEof(n) \/ BuiltinEnds(n) \/ Reap(n)
    BY <2>4 DEF FunctionEnds, LeafSeesEof, BuiltinEnds, Reap, Running, Leaves, Kind, Jobs
  <2>5. CASE LeafReads(n)
    BY <2>5 DEF LeafReads, Running, Leaves
  <2>6. ASSUME NEW k \in {"out", "err"}, LeafWrites(n, k) PROVE OnData(n) /\ OnPump(n)
    <3>1. Puts(n, Stream(n, k)) /\ CanPut(Stream(n, k)) /\ Put(Stream(n, k)) /\ UNCHANGED got
      BY <2>6 DEF LeafWrites, Puts
    <3>2. Op(n) \notin Maps
      BY <2>6 DEF LeafWrites, Running, Leaves
    <3> QED BY <3>1, <3>2
  <2> QED BY <1>6, <2>2, <2>3, <2>4, <2>5, <2>6 DEF Leaf
<1>7. ASSUME Pump(n) PROVE OnData(n) /\ OnPump(n)
  <2>0. Pumping(n) => pc[n] # "start" /\ job[n] = "run"
    BY DEF Pumping
  <2>1. ASSUME Pumping(n), NEW j \in {"done", "failed"}, PumpEnds(n, j)
        PROVE  UNCHANGED data /\ job'[n] = j /\ pc[n] # "start"
    BY <2>0, <2>1 DEF PumpEnds
  <2>2. CASE PumpDone(n)
    BY <2>1, <2>2 DEF PumpDone
  <2>3. CASE PumpFails(n)
    BY <2>1, <2>3 DEF PumpFails
  <2>4. CASE Feed(n)
    <3>1. Puts(n, PumpFile(n)) /\ CanPut(PumpFile(n)) /\ Put(PumpFile(n)) /\ UNCHANGED got /\ job' = job
      BY <2>4 DEF Feed, Puts
    <3> QED BY <2>0, <2>4, <3>1 DEF Feed
  <2>5. CASE FeedBreaks(n) \/ Collect(n)
    BY <2>0, <2>5 DEF FeedBreaks, Collect
  <2> QED BY <1>7, <2>2, <2>3, <2>4, <2>5 DEF Pump
<1>8. ASSUME Finish(n) PROVE OnData(n) /\ OnPump(n)
  BY <1>8 DEF Finish, FinishAtOnce, FinishGet, FinishOperand, FinishRight, FinishPipe, FinishUnary, FinishThrows
<1>9. ASSUME Destruction(n) PROVE OnData(n) /\ OnPump(n)
  BY <1>9 DEF Destruction, Destroy, DestroyLeft, OperandsGone, Join
<1> QED BY <1>3, <1>4, <1>5, <1>6, <1>7, <1>8, <1>9 DEF Act

(* Every file that an expression gives is the terminal's, the end of a     *)
(* pipe or a file that it opens; it reads the pipes of | and < only.       *)
WantFile(n, k) ==
    \/ Want[n][k] = Tty(k)
    \/ \E q \in Node : Want[n][k] = PipeR(q) /\ Op(q) \in {"pipe", "inmap"}
    \/ \E q \in Node : Want[n][k] \in {PipeW(q), OpenFile(q)}

(* Each of the files that the expression gives is one of these.            *)
LEMMA WantFiles == ASSUME TypeOK PROVE \A n \in Node, k \in Streams : WantFile(n, k)
<1> DEFINE S == {n \in Node : \A k \in Streams : WantFile(n, k)}
<1>1. ASSUME NEW n \in Node, \A m \in Node : m < n => m \in S PROVE n \in S
  <2> SUFFICES ASSUME NEW k \in Streams PROVE WantFile(n, k)
    OBVIOUS
  <2>0. WantRules
    BY Wanted
  <2>1. CASE n = Root
    BY <2>0, <2>1 DEF WantRules, WantFile
  <2>2. CASE n # Root
    <3>1. PICK m \in Node : n \in {L(m), R(m)}
      BY <2>2, Parents
    <3>2. n # 0 /\ m < n
      BY <3>1, Tree
    <3>3. WantFile(m, k)
      BY <1>1, <3>2
    <3>4. \/ Want[n][k] = Want[m][k] \/ Want[n][k] \in {PipeW(m), OpenFile(m)}
          \/ Want[n][k] = PipeR(m) /\ Op(m) \in {"pipe", "inmap"}
      BY <2>0, <3>1, <3>2 DEF WantRules
    <3> QED BY <3>3, <3>4 DEF WantFile
  <2> QED BY <2>1, <2>2
<1>2. S = Node
  <2> HIDE DEF S
  <2>1. S \subseteq Node
    BY DEF S
  <2> QED BY <1>1, <2>1, Upwards
<1> QED BY <1>2

(* A forked child has the files of the host.                               *)
LEMMA ChildFiles ==
    ASSUME TypeOK, ArgOK, NEW n \in Node
    PROVE  \A fd \in Fd : ChildTable(n)[fd] = Closed \/ \E x \in Fd : ChildTable(n)[fd] = fdt[x]
<1> DEFINE F == {Closed} \cup {fdt[x] : x \in Fd}
           t == [fd \in Fd |-> IF fd \in arg[n].unused THEN Closed ELSE fdt[fd]]
           t0 == [t EXCEPT ![0] = t[arg[n].std.in]]
           t1 == [t0 EXCEPT ![1] = t0[arg[n].std.out]]
           t2 == [t1 EXCEPT ![2] = t1[arg[n].std.err]]
<1>1. arg[n].std.in \in Fd /\ arg[n].std.out \in Fd /\ arg[n].std.err \in Fd
  <2>1. arg[n].std \in [Streams -> Fd] /\ {"in", "out", "err"} \subseteq Streams
    BY DEF ArgOK, Streams, StdFd
  <2> QED BY <2>1
<1>2. t \in [Fd -> F]
  OBVIOUS
<1> HIDE DEF F, t
<1>3. t0 \in [Fd -> F]
  BY <1>1, <1>2
<1> HIDE DEF t0
<1>4. t1 \in [Fd -> F]
  BY <1>1, <1>3
<1> HIDE DEF t1
<1>5. t2 \in [Fd -> F]
  BY <1>1, <1>4
<1>6. ChildTable(n) = t2
  BY DEF ChildTable, t, t0, t1
<1> HIDE DEF t2
<1> QED BY <1>5, <1>6 DEF F

(* A file that is open after a step was open before, or n has opened it.   *)
LEMMA HeldStep ==
    ASSUME IInv, ArgOK, DOMAIN keeps = Node, NEW n \in Node, Deals(n), fixed' = fixed,
           NEW f, f # Closed, f # OpenFile(n), Held(f)'
    PROVE  Held(f) \/ (f \in {PipeR(n), PipeW(n)} /\ (StartPipe(n) \/ StartMapping(n) \/ ForkFails(n)))
<1>1. TypeOK /\ Table /\ Fd' = Fd /\ Node' = Node
  BY Same DEF IInv, Fd, fixed
<1>2. ASSUME NEW fd \in Fd, fdt'[fd] = f
      PROVE  Held(f) \/ (f \in {PipeR(n), PipeW(n)} /\ (StartPipe(n) \/ StartMapping(n) \/ ForkFails(n)))
  <2>1. CASE UNCHANGED table
    BY <1>2, <2>1 DEF table, Held
  <2>2. ASSUME NEW S \in SUBSET Slots, Close(n, S) PROVE Held(f)
    BY <1>2, <2>2 DEF Close, Held
  <2>3. CASE StartPipe(n) \/ StartMapping(n) \/ ForkFails(n)
    <3>1. fdt' = [fdt EXCEPT ![Free1] = PipeR(n), ![Free2] = PipeW(n)]
      BY <2>3 DEF StartPipe, StartMapping, OpenPipe, ForkFails
    <3>2. fdt'[fd] \in {PipeR(n), PipeW(n), fdt[fd]}
      BY <1>1, <3>1 DEF TypeOK
    <3> QED BY <1>2, <2>3, <3>2 DEF Held
  <2>4. CASE StartRedirect(n)
    <3>1. fdt' = [fdt EXCEPT ![Free1] = OpenFile(n)]
      BY <2>4 DEF StartRedirect
    <3>2. fdt'[fd] \in {OpenFile(n), fdt[fd]}
      BY <1>1, <3>1 DEF TypeOK
    <3> QED BY <1>2, <3>2 DEF Held
  <2>5. CASE StartFunction(n)
    <3> DEFINE dup == [in |-> Free1, out |-> Free2, err |-> Free3]
    <3>1. fdt' = [x \in Fd |->
                        IF \E k \in Streams : dup[k] = x
                        THEN fdt[arg[n].std[CHOOSE k \in Streams : dup[k] = x]] ELSE fdt[x]]
      BY <2>5 DEF StartFunction
    <3> HIDE DEF dup
    <3>2. \E x \in Fd : fdt'[fd] = fdt[x]
      <4>1. CASE \E k \in Streams : dup[k] = fd
        <5>1. PICK k \in Streams : k = CHOOSE j \in Streams : dup[j] = fd
          BY <4>1
        <5>2. fdt'[fd] = fdt[arg[n].std[k]]
          BY <3>1, <4>1, <5>1
        <5> QED BY <5>2 DEF ArgOK
      <4> QED BY <3>1, <4>1
    <3> QED BY <1>2, <3>2 DEF Held
  <2> QED BY <2>1, <2>2, <2>3, <2>4, <2>5 DEF Deals, OnTable
<1>3. ASSUME NEW m \in Node, f \in keeps'[m] PROVE Held(f)
  <2>1. CASE f \in keeps[m]
    BY <2>1 DEF Held
  <2>2. CASE f \notin keeps[m]
    <3>1. CASE StartNative(n)
      <4>1. keeps' = [keeps EXCEPT ![n] =
                        {ChildTable(n)[fd] : fd \in {x \in Fd : ~CloseOnExec(x)}} \ {Closed}]
        BY <3>1 DEF StartNative
      <4>2. PICK fd \in Fd : f = ChildTable(n)[fd]
        BY <1>3, <2>2, <4>1
      <4>3. \E x \in Fd : f = fdt[x]
        BY <1>1, <4>2, ChildFiles
      <4> QED BY <4>3 DEF Held
    <3>2. CASE ~StartNative(n)
      <4>1. keeps' = keeps \/ keeps' = [keeps EXCEPT ![n] = {}]
        BY <3>2 DEF Deals, OnKeeps
      <4> QED BY <1>3, <2>2, <4>1
    <3> QED BY <3>1, <3>2
  <2> QED BY <2>1, <2>2
<1> QED BY <1>1, <1>2, <1>3 DEF Held

(* A mapping has its ends: both until its operand has been started, and    *)
(* that of the pump as long as it runs.  A program keeps its streams.  The *)
(* pump fails if its functor does.                                         *)
Ends(n) ==
    Op(n) \in Maps =>
        /\ pc[n] = "left" => own[n]["p0"] # -1 /\ own[n]["p1"] # -1
        /\ job[n] = "run" => own[n][PumpEnd(n)] # -1
        /\ job[n] = "failed" => tree[n].bad

(* A program keeps open what it reads and writes.                          *)
Copied(n) == Op(n) = "native" /\ job[n] = "run" => \A k \in Streams : std[n][k] \in keeps[n]

(* A mapping keeps its ends as long as it needs them.                      *)
LEMMA EndsStep ==
    ASSUME IInv, IsTable, Local, NEW n \in Node, Turn(n), Deals(n), OnPump(n), Kept(n),
           NEW k \in Node, Ends(k)
    PROVE  Ends(k)'
<1>1. /\ TypeOK /\ Table /\ fixed' = fixed /\ Stands(n) /\ Fresh(n) /\ InTurn(n) /\ Stage(n)
      /\ \A q \in Node \ {n} : own'[q] = own[q]
  BY DEF IInv, Turn, Only, Kept, Local, Stands, Kind
<1>2. Op(k)' = Op(k) /\ PumpEnd(k)' = PumpEnd(k) /\ tree' = tree
  BY <1>1, Same DEF PumpEnd
<1>3. {"p0", "p1"} \subseteq Slots /\ PumpEnd(n) \in Slots
  BY DEF Slots, PumpEnd
<1>4. ASSUME k # n, Op(k) \in Maps PROVE Ends(k)'
  <2>1. pc'[k] = "left" => pc[k] = "left"
    <3>1. CASE pc'[k] # pc[k]
      <4>1. k \in {L(n), R(n)} /\ k # 0
        BY <1>1, <1>4, <3>1, Elsewhere, Tree
      <4>2. pc'[k] \in {"start", "fin", "dtor"}
        BY <1>1, <3>1, <4>1, Called
      <4> QED BY <4>2
    <3> QED BY <3>1
  <2>2. job'[k] = job[k] /\ own'[k] = own[k]
    BY <1>1, <1>4, Elsewhere
  <2> QED BY <1>2, <2>1, <2>2 DEF Ends
<1>5. ASSUME k = n, Op(n) \in Maps PROVE Ends(k)'
  <2>1. CASE StartMapping(n)
    <3>1. CanOpen(2) /\ own' = [own EXCEPT ![n]["p0"] = Free1, ![n]["p1"] = Free2] /\ job' = job
          /\ pc[n] = "start"
      BY <2>1 DEF StartMapping, OpenPipe
    <3>2. own'[n]["p0"] = Free1 /\ own'[n]["p1"] = Free2
      BY <1>1, <1>3, <3>1 DEF TypeOK
    <3>3. Free1 \in Fd \ (0..2) /\ Free2 \in Fd \ (0..2)
      BY <1>1, <3>1, Given
    <3>4. limit \in Nat
      BY <1>1, CasesAssumption DEF TypeOK
    <3>5. job[n] = "none"
      BY <1>1, <3>1 DEF Fresh
    <3> QED BY <1>2, <1>5, <3>1, <3>2, <3>3, <3>4, <3>5 DEF Ends, Fd, PumpEnd
  <2>2. CASE ~StartMapping(n)
    <3>1. pc'[n] = "left" => pc[n] = "left"
      <4>1. StartPipe(n) \/ StartRedirect(n) \/ StartConditional(n) \/ StartRightOfPipe(n) => Op(n) \notin Maps
        BY DEF StartPipe, StartRedirect, StartConditional, StartRightOfPipe, Maps, Redirects, Conditionals
      <4>2. TaskLeftDone(n) => Op(n) \notin Maps
        BY <1>1 DEF TaskLeftDone, Fresh, Conditionals, Maps
      <4>3. NoStart => (pc'[n] = "left" => pc[n] = "left")
        BY DEF NoStart
      <4> QED BY <1>5, <2>2, <4>1, <4>2, <4>3 DEF Deals, OnArg
    <3>2. job'[n] = "run" => job[n] = "run" \/ (pc[n] = "left" /\ job[n] = "none")
      <4>1. job'[n] = "run" => job[n] = "run" \/ pc[n] = "left"
        <5> USE DEF Moves, Asks, Has, Maps
        <5>1. job[n] # "left" /\ job[n] # "right" /\ L(n) # 0
          BY <1>1, <1>5, Operand DEF Stands, Kind, Jobs, UnaryOps
        <5> QED BY <1>5, <5>1 DEF Turn, Leaving, Starting, Tasking, Working, Finishing, Dying, Hosting
      <4> QED BY <1>1, <4>1 DEF Fresh
    <3>3. ASSUME NEW s \in {"p0", "p1"}, own[n][s] # -1, own'[n][s] # own[n][s],
                 (pc[n] = "left" /\ pc'[n] = "left")
                     \/ (job'[n] = "run" /\ s = PumpEnd(n) /\ (job[n] = "run" \/ pc[n] = "left"))
          PROVE  FALSE
      <4>1. PICK S \in SUBSET Slots : Lets(n, S) /\ s \in S
        BY <1>1, <1>3, <3>3, Stable
      <4>2. /\ pc[n] \in {"start", "left"} => job[n] = "none"
            /\ pc[n] = "tail" => Op(n) = "inmap"
            /\ Op(n) # "pipe" /\ s \notin {"fd", "in", "out", "err"}
        BY <1>1, <1>5 DEF Fresh, Stage, Maps
      <4> QED BY <1>5, <3>3, <4>1, <4>2 DEF Lets, Maps, PumpEnd, Streams, StdFd
    <3>4. pc'[n] = "left" => own'[n]["p0"] # -1 /\ own'[n]["p1"] # -1
      BY <1>5, <3>1, <3>3 DEF Ends
    <3>5. job'[n] = "run" => own'[n][PumpEnd(n)] # -1
      <4>1. PumpEnd(n) \in {"p0", "p1"}
        BY DEF PumpEnd
      <4> QED BY <1>5, <3>2, <3>3, <4>1 DEF Ends
    <3>6. job'[n] = "failed" => tree[n].bad
      BY <1>5 DEF OnPump, Ends
    <3> QED BY <1>2, <1>5, <3>4, <3>5, <3>6 DEF Ends
  <2> QED BY <2>1, <2>2
<1> QED BY <1>2, <1>4, <1>5 DEF Ends, Maps

(* A program keeps its streams open as long as it runs.                    *)
LEMMA CopiedStep ==
    ASSUME IInv, Local, NEW n \in Node, Turn(n), Deals(n), DOMAIN keeps = Node, StdOK,
           NEW k \in Node, Copied(k)
    PROVE  Copied(k)'
<1>1. TypeOK /\ Table /\ fixed' = fixed
  BY DEF IInv, Turn, Only
<1> SUFFICES ASSUME Op(k) = "native", job'[k] = "run", NEW s \in Streams PROVE std'[k][s] \in keeps'[k]
  BY <1>1, Same DEF Copied
<1>2. CASE StartNative(n) /\ k = n
  <2>1. /\ std' = [std EXCEPT ![n] = [j \in Streams |-> ChildTable(n)[StdFd[j]]]]
        /\ keeps' = [keeps EXCEPT ![n] =
                        {ChildTable(n)[fd] : fd \in {x \in Fd : ~CloseOnExec(x)}} \ {Closed}]
        /\ \A fd \in 0..2 : ChildTable(n)[fd] # Closed
    BY <1>2 DEF StartNative, CanSpawn, CanExec
  <2>2. StdFd[s] \in 0..2 /\ StdFd[s] # -1
    BY DEF Streams, StdFd
  <2>3. StdFd[s] \in Fd
    <3>1. limit \in Nat /\ limit >= 3
      BY <1>1, CasesAssumption DEF TypeOK
    <3> QED BY <2>2, <3>1 DEF Fd
  <2>4. ~CloseOnExec(StdFd[s])
    <3> SUFFICES ASSUME NEW m \in Node, NEW j \in Streams, own[m][j] = StdFd[s] PROVE FALSE
      BY DEF CloseOnExec
    <3>1. j \in Slots
      BY DEF Slots
    <3> QED BY <1>1, <2>2, <3>1 DEF Table, Files
  <2>5. ChildTable(n)[StdFd[s]] \in {ChildTable(n)[fd] : fd \in {x \in Fd : ~CloseOnExec(x)}} \ {Closed}
    BY <2>1, <2>2, <2>3, <2>4
  <2>6. std'[n][s] = ChildTable(n)[StdFd[s]]
        /\ keeps'[n] = {ChildTable(n)[fd] : fd \in {x \in Fd : ~CloseOnExec(x)}} \ {Closed}
    BY <2>1 DEF StdOK
  <2> QED BY <1>2, <2>5, <2>6
<1>3. CASE StartNative(n) /\ k # n
  <2>1. std'[k] = std[k] /\ keeps'[k] = keeps[k] /\ job'[k] = job[k]
    BY <1>3, Elsewhere DEF StartNative, StdOK
  <2> QED BY <2>1 DEF Copied
<1>4. CASE ~StartNative(n)
  <2>1. job[k] = "run"
    <3>1. CASE k = n
      BY <1>4, <3>1 DEF Deals, OnJob, StartFunction
    <3>2. CASE k # n
      BY <3>2, Elsewhere
    <3> QED BY <3>1, <3>2
  <2>2. std'[k] = std[k] /\ keeps'[k] = keeps[k]
    BY <1>4 DEF Deals, OnKeeps, StdOK
  <2> QED BY <2>1, <2>2 DEF Copied
<1> QED BY <1>2, <1>3, <1>4

(* A pipe that holds nothing and that nobody can fill.                     *)
Dry(n) == buf[n] = 0 /\ ~Held(PipeW(n))

(* Before start_run nothing has been written or read.                      *)
NotYet(n) == pc[n] \in {"idle", "start"} => Dry(n) /\ wrote[n] = 0 /\ got[n] = 1

(* What was in the string before, kept by an appending functor only.       *)
KeptItems(n) == IF tree[n].append THEN 1 ELSE 0

(* What is in the string and in the pipe is what was kept and written.     *)
Count(n) ==
    Op(n) \in Outs /\ pc[n] \notin {"idle", "start"} \cup Dtor => got[n] + buf[n] = KeptItems(n) + wrote[n]

(* A mapping that is done has left nothing, and nothing more will come.    *)
Drained(n) == Op(n) \in Outs /\ ~tree[n].bad /\ job[n] = "done" => Dry(n)

(* The shape of the data.                                                  *)
DataOK ==
    /\ buf \in [Node -> Int] /\ wrote \in [Node -> Int] /\ got \in [Node -> Int]
    /\ DOMAIN keeps = Node

(* All that is said of the data of one node, and of all.                   *)
Flow(n) == Ends(n) /\ Copied(n) /\ NotYet(n) /\ Count(n) /\ Drained(n)
Flows == DataOK /\ \A n \in Node : Flow(n)

(* What a leaf reads and writes is open, and what the expression says.     *)
LEMMA Streaming ==
    ASSUME Tidy, Pipelines, Flows, NEW n \in Node, Running(n), NEW k \in Streams
    PROVE  Held(Stream(n, k)) /\ Stream(n, k) = Want[n][k]
<1>1. /\ TypeOK /\ Numbered /\ ArgOK /\ Table /\ Stream(n, k) = Want[n][k] /\ Copied(n) /\ Wired(n)
  BY TidyWiring DEF Tidy, Sound, IInv, Numbered, Wiring, Flows, Flow
<1>2. Op(n) \in {"native", "function", "builtin"} /\ job[n] = "run" /\ k \in Slots
  BY DEF Running, Leaves, Slots
<1>3. CASE Op(n) = "native"
  <2>1. Stream(n, k) = std[n][k]
    BY <1>3, Zenon DEF Stream
  <2> QED BY <1>1, <1>2, <1>3, <2>1 DEF Copied, Held
<1>4. CASE Op(n) = "function"
  <2>1. Stream(n, k) = fdt[own[n][k]]
    BY <1>4, Zenon DEF Stream
  <2>2. own[n][k] \in Fd
    BY <1>1, <1>2, <1>4 DEF Wired, TypeOK
  <2> QED BY <1>1, <2>1, <2>2 DEF Held
<1>5. CASE Op(n) = "builtin"
  <2>1. Stream(n, k) = fdt[arg[n].std[k]]
    BY <1>5, Zenon DEF Stream
  <2>2. arg[n].std[k] \in Fd
    BY <1>1 DEF ArgOK
  <2> QED BY <1>1, <2>1, <2>2 DEF Held
<1> QED BY <1>2, <1>3, <1>4, <1>5

(* Who writes into a pipe, and who reads from that of > .                  *)
LEMMA Filling ==
    ASSUME Tidy, Pipelines, Flows, NEW n \in Node, NEW f, Puts(n, f), f[2] = "w"
    PROVE  \E q \in Node : f = PipeW(q) /\ Held(PipeW(q))
<1>1. TypeOK /\ Table /\ Ends(n)
  BY DEF Tidy, Sound, IInv, Flows, Flow
<1>2. CASE Running(n) /\ \E k \in {"out", "err"} : f = Stream(n, k)
  <2>1. PICK k \in Streams : f = Stream(n, k)
    BY <1>2 DEF Streams, StdFd
  <2>2. Held(f) /\ f = Want[n][k]
    BY <1>2, <2>1, Streaming
  <2>3. WantFile(n, k)
    BY <1>1, WantFiles
  <2>4. k # "w"
    BY DEF Streams, StdFd
  <2> QED BY <2>2, <2>3, <2>4 DEF WantFile, Tty, PipeR, PipeW, OpenFile
<1>3. CASE Pumping(n) /\ Op(n) = "inmap" /\ f = PumpFile(n)
  <2>1. own[n]["p1"] # -1 /\ f = fdt[own[n]["p1"]] /\ "p1" \in Slots
    BY <1>1, <1>3 DEF Ends, Pumping, PumpFile, PumpEnd, Slots
  <2>2. f = PipeW(n) /\ own[n]["p1"] \in Fd
    BY <1>1, <2>1 DEF Table, Files, TypeOK
  <2> QED BY <2>1, <2>2 DEF Held
<1> QED BY <1>2, <1>3 DEF Puts

(* A program takes items only out of the pipe of | or < .                  *)
LEMMA Taking ==
    ASSUME Tidy, Pipelines, Flows, NEW n \in Node, Running(n), CanTake(Stream(n, "in"))
    PROVE  \E q \in Node : Stream(n, "in") = PipeR(q) /\ Op(q) \in {"pipe", "inmap"} /\ buf[q] > 0
<1>1. "in" \in Streams /\ TypeOK
  BY DEF Streams, StdFd, Tidy, Sound, IInv
<1>2. Stream(n, "in") = Want[n]["in"] /\ WantFile(n, "in")
  BY <1>1, Streaming, WantFiles
<1>3. Stream(n, "in")[2] = "r" /\ buf[Stream(n, "in")[1]] > 0
  BY DEF CanTake
<1> QED BY <1>2, <1>3 DEF WantFile, Tty, PipeR, PipeW, OpenFile

(* The pump of > and >= reads its own pipe.                                *)
LEMMA Pumped ==
    ASSUME IInv, NEW n \in Node, Ends(n), Pumping(n), Op(n) # "inmap"
    PROVE  PumpFile(n) = PipeR(n)
<1>1. own[n]["p0"] # -1 /\ PumpFile(n) = fdt[own[n]["p0"]] /\ "p0" \in Slots
  BY DEF Ends, Pumping, PumpFile, PumpEnd, Slots
<1> QED BY <1>1 DEF IInv, Table, Files

(* What a step of n does to the pipe and the string of k.                  *)
Level(k) == buf'[k] = buf[k] /\ wrote'[k] = wrote[k] /\ got'[k] = got[k]

(* A step leaves the amounts of k alone, adds an item to its pipe, takes one *)
(* out, moves one into its string, or starts it.                           *)
LEMMA Amounts ==
    ASSUME Tidy, Pipelines, Flows, NEW n \in Node, OnData(n), NEW k \in Node
    PROVE  \/ Level(k)
           \/ /\ Held(PipeW(k)) /\ buf'[k] = buf[k] + 1 /\ wrote'[k] = wrote[k] + 1 /\ got'[k] = got[k]
           \/ /\ buf[k] > 0 /\ Op(k) \notin Outs
              /\ buf'[k] = buf[k] - 1 /\ wrote'[k] = wrote[k] /\ got'[k] = got[k]
           \/ /\ k = n /\ buf[k] > 0 /\ Pumping(k)
              /\ buf'[k] = buf[k] - 1 /\ wrote'[k] = wrote[k] /\ got'[k] = got[k] + 1
           \/ k = n /\ pc[n] = "start" /\ pc'[n] # "start" /\ Op(n) \in Maps
<1>1. IInv /\ DataOK /\ Ends(n)
  BY DEF Tidy, Sound, Flows, Flow
<1>2. CASE UNCHANGED data
  BY <1>2 DEF data, Level
<1>3. ASSUME NEW f, Puts(n, f), CanPut(f), Put(f), UNCHANGED got
      PROVE  Level(k) \/ (/\ Held(PipeW(k)) /\ buf'[k] = buf[k] + 1 /\ wrote'[k] = wrote[k] + 1 /\ got'[k] = got[k])
  <2>1. CASE f[2] = "w"
    <3>1. PICK q \in Node : f = PipeW(q) /\ Held(PipeW(q))
      BY <1>3, <2>1, Filling
    <3>2. f[1] = q
      BY <3>1 DEF PipeW
    <3>3. buf' = [buf EXCEPT ![q] = @ + 1] /\ wrote' = [wrote EXCEPT ![q] = @ + 1]
      BY <1>3, <2>1, <3>2 DEF Put
    <3> QED BY <1>1, <1>3, <3>1, <3>3 DEF DataOK, Level
  <2>2. CASE f[2] # "w"
    BY <1>3, <2>2 DEF Put, Level
  <2> QED BY <2>1, <2>2
<1>4. CASE Running(n) /\ CanTake(Stream(n, "in")) /\ Take(Stream(n, "in")) /\ UNCHANGED got
  <2>1. PICK q \in Node : Stream(n, "in") = PipeR(q) /\ Op(q) \in {"pipe", "inmap"} /\ buf[q] > 0
    BY <1>4, Taking
  <2>2. buf' = [buf EXCEPT ![q] = @ - 1] /\ UNCHANGED <<wrote, got>>
    <3>1. PICK f : f = Stream(n, "in")
      OBVIOUS
    <3>2. f[1] = q
      BY <2>1, <3>1 DEF PipeR
    <3>3. Take(f) /\ UNCHANGED got
      BY <1>4, <3>1
    <3> QED BY <3>2, <3>3 DEF Take
  <2>3. CASE k = q
    <3>1. buf'[k] = buf[k] - 1 /\ got'[k] = got[k] /\ wrote'[k] = wrote[k]
      BY <1>1, <2>2, <2>3 DEF DataOK
    <3>2. Op(k) \notin Outs
      BY <2>1, <2>3 DEF Outs
    <3> QED BY <2>1, <2>3, <3>1, <3>2
  <2>4. CASE k # q
    BY <1>1, <2>2, <2>4 DEF DataOK, Level
  <2> QED BY <2>3, <2>4
<1>5. CASE /\ Pumping(n) /\ Op(n) # "inmap" /\ CanTake(PumpFile(n)) /\ Take(PumpFile(n))
           /\ got' = [got EXCEPT ![n] = @ + 1]
  <2>1. PumpFile(n) = PipeR(n)
    BY <1>1, <1>5, Pumped
  <2>2. buf[n] > 0 /\ buf' = [buf EXCEPT ![n] = @ - 1] /\ UNCHANGED wrote
    BY <1>5, <2>1 DEF Take, CanTake, PipeR
  <2>3. CASE k = n
    <3>1. buf'[n] = buf[n] - 1 /\ got'[n] = got[n] + 1 /\ wrote' = wrote
      BY <1>1, <1>5, <2>2 DEF DataOK
    <3>2. buf[k] > 0 /\ Pumping(k)
      BY <1>5, <2>2, <2>3
    <3>3. buf'[k] = buf[k] - 1 /\ wrote'[k] = wrote[k] /\ got'[k] = got[k] + 1
      BY <2>3, <3>1
    <3> QED BY <2>3, <3>2, <3>3
  <2>4. CASE k # n
    <3>1. buf'[k] = buf[k] /\ got'[k] = got[k] /\ wrote' = wrote
      BY <1>1, <1>5, <2>2, <2>4 DEF DataOK
    <3> QED BY <3>1 DEF Level
  <2> QED BY <2>3, <2>4
<1>6. CASE pc[n] = "start" /\ pc'[n] # "start" /\ Op(n) \in Maps /\ InitFunc(n) /\ UNCHANGED <<buf, wrote>>
  <2>1. k # n => got'[k] = got[k]
    BY <1>1, <1>6 DEF InitFunc, DataOK
  <2> QED BY <1>6, <2>1 DEF Level
<1> QED BY <1>2, <1>3, <1>4, <1>5, <1>6 DEF OnData

(* The shape of the data stays.                                            *)
LEMMA DataOKStep ==
    ASSUME IInv, DataOK, NEW n \in Node, Turn(n), Deals(n), OnData(n)
    PROVE  DataOK'
<1>1. Node' = Node
  BY Same DEF Turn, Only
<1>2. DOMAIN keeps' = Node
  BY DEF DataOK, Deals, OnKeeps, StartNative
<1>3. /\ \A f : Put(f) => buf' \in [Node -> Int] /\ wrote' \in [Node -> Int]
      /\ \A f : Take(f) => buf' \in [Node -> Int] /\ wrote' \in [Node -> Int]
  BY DEF Put, Take, DataOK
<1>4. InitFunc(n) => got' \in [Node -> Int]
  BY DEF InitFunc, DataOK
<1>5. got' = [got EXCEPT ![n] = @ + 1] => got' \in [Node -> Int]
  BY DEF DataOK
<1>6. buf' \in [Node -> Int] /\ wrote' \in [Node -> Int] /\ got' \in [Node -> Int]
  BY <1>3, <1>4, <1>5 DEF OnData, data, DataOK
<1> QED BY <1>1, <1>2, <1>6 DEF DataOK

(* Where a step leaves the control.                                        *)
LEMMA Onward ==
    ASSUME TypeOK, NEW n \in Node, Stands(n), Fresh(n), InTurn(n), Turn(n), NEW k \in Node
    PROVE  /\ pc'[k] \in {"idle", "start"} => pc[k] \in {"idle", "start"}
           /\ pc'[k] \notin {"idle", "start"} \cup Dtor =>
                  pc[k] \notin {"idle", "start"} \cup Dtor \/ (k = n /\ pc[n] = "start")
<1>1. CASE k = n
  <2> USE DEF Dtor, Moves, Asks
  <2>1. Op(n) = "builtin" /\ job[n] = "run" => pc[n] = "runx"
    BY DEF Stands, Kind, Jobs
  <2>2. CASE Leaving(n)
    BY <1>1, <2>2 DEF Leaving
  <2>3. CASE Starting(n)
    BY <1>1, <2>3 DEF Starting
  <2>4. CASE Tasking(n)
    BY <1>1, <2>4 DEF Tasking
  <2>5. CASE Working(n)
    <3>1. pc'[n] = pc[n] \/ (Op(n) = "builtin" /\ job[n] = "run" /\ pc'[n] \in {"up", "threw"})
      BY <2>5 DEF Working
    <3> QED BY <1>1, <2>1, <3>1
  <2>6. CASE Finishing(n)
    BY <1>1, <2>6 DEF Finishing
  <2>7. CASE Dying(n)
    BY <1>1, <2>7 DEF Dying
  <2>8. CASE Hosting(n)
    BY <1>1, <2>8 DEF Hosting
  <2> QED BY <2>2, <2>3, <2>4, <2>5, <2>6, <2>7, <2>8 DEF Turn
<1>2. CASE k # n /\ pc'[k] # pc[k]
  <2>1. k \in {L(n), R(n)} /\ k # 0
    BY <1>2, Elsewhere, Tree
  <2>2. \/ pc'[k] = "start" /\ pc[k] = "idle"
        \/ pc'[k] = "fin" /\ pc[k] \in Past \ Busy
        \/ pc'[k] = "dtor"
    BY <1>2, <2>1, Called
  <2> QED BY <2>2 DEF Past, Busy, Dtor
<1> QED BY <1>1, <1>2

(* A pipe that is dry stays so: only the node that makes it fills it again.*)
LEMMA DryStays ==
    ASSUME Tidy, Pipelines, Flows, NEW n \in Node, Turn(n), Deals(n), OnData(n), OnPump(n),
           NEW k \in Node, Dry(k), ~(k = n /\ (StartPipe(n) \/ StartMapping(n) \/ ForkFails(n)))
    PROVE  Dry(k)'
<1>1. IInv /\ ArgOK /\ DOMAIN keeps = Node /\ fixed' = fixed /\ DataOK
  BY DEF Tidy, Sound, Numbered, Flows, DataOK, Turn, Only
<1>2. PipeW(k) # Closed /\ PipeW(k) # OpenFile(n) /\ (PipeW(k) \in {PipeR(n), PipeW(n)} => k = n)
  BY DEF PipeW, PipeR, OpenFile, Closed
<1>3. ~Held(PipeW(k))'
  <2> SUFFICES ASSUME Held(PipeW(k))' PROVE FALSE
    OBVIOUS
  <2>1. PICK f : f = PipeW(k)
    OBVIOUS
  <2>2. Held(f)'
    BY <2>1 DEF Held, PipeW
  <2>3. Held(f) \/ (f \in {PipeR(n), PipeW(n)} /\ (StartPipe(n) \/ StartMapping(n) \/ ForkFails(n)))
    BY <1>1, <1>2, <2>1, <2>2, HeldStep
  <2> QED BY <1>2, <2>1, <2>3 DEF Dry
<1>4. buf'[k] = 0
  <2>1. k = n /\ pc[n] = "start" /\ Op(n) \in Maps => buf'[k] = buf[k]
    BY DEF OnPump
  <2>2. buf[k] = 0 /\ ~Held(PipeW(k))
    BY DEF Dry
  <2> QED BY <2>1, <2>2, Amounts DEF Level
<1> QED BY <1>3, <1>4 DEF Dry

(* Nothing is written to a mapping that has not been started.              *)
LEMMA NotYetStep ==
    ASSUME Tidy, Pipelines, Flows, NEW n \in Node, Turn(n), Deals(n), OnData(n), OnPump(n),
           NEW k \in Node
    PROVE  NotYet(k)'
<1> SUFFICES ASSUME pc'[k] \in {"idle", "start"} PROVE Dry(k)' /\ wrote'[k] = 0 /\ got'[k] = 1
  BY DEF NotYet
<1>1. TypeOK /\ Stands(n) /\ Fresh(n) /\ InTurn(n) /\ DOMAIN pc = Node
  BY DEF Tidy, Sound, IInv, TypeOK, Local
<1>2. pc[k] \in {"idle", "start"}
  BY <1>1, Onward
<1>3. buf[k] = 0 /\ ~Held(PipeW(k)) /\ wrote[k] = 0 /\ got[k] = 1 /\ Dry(k)
  BY <1>2 DEF Flows, Flow, NotYet, Dry
<1>4. ~(k = n /\ (StartPipe(n) \/ StartMapping(n) \/ ForkFails(n)))
  <2>1. StartPipe(n) \/ StartMapping(n) \/ ForkFails(n) => pc'[n] \in {"left", "threw"}
    <3>1. n # L(n)
      BY <1>1, Order
    <3> QED BY <1>1, <3>1 DEF StartPipe, StartMapping, ForkFails, StartOperand, Call, Goto
  <2> QED BY <2>1
<1>5. Dry(k)'
  BY <1>3, <1>4, DryStays
<1>6. ~(k = n /\ pc[n] = "start" /\ pc'[n] # "start")
  <2>1. pc[n] = "start" => pc'[n] # "idle"
    <3> USE DEF Moves, Asks
    <3>1. Op(n) = "builtin" /\ job[n] = "run" => pc[n] = "runx"
      BY <1>1 DEF Stands, Kind, Jobs
    <3> QED BY <1>1, <3>1 DEF Turn, Leaving, Starting, Tasking, Working, Finishing, Dying, Hosting
  <2> QED BY <2>1
<1> QED BY <1>3, <1>5, <1>6, Amounts DEF Level

(* No item is lost or invented between a program and the string.           *)
LEMMA CountStep ==
    ASSUME Tidy, Pipelines, Flows, NEW n \in Node, Turn(n), Deals(n), OnData(n), OnPump(n),
           NEW k \in Node
    PROVE  Count(k)'
<1>1. TypeOK /\ Stands(n) /\ Fresh(n) /\ InTurn(n) /\ DataOK /\ fixed' = fixed /\ Count(k) /\ NotYet(k)
  BY DEF Tidy, Sound, IInv, Local, Flows, Flow, Turn, Only
<1>2. Op(k)' = Op(k) /\ KeptItems(k)' = KeptItems(k)
  BY <1>1, Same DEF KeptItems
<1> SUFFICES ASSUME Op(k) \in Outs, pc'[k] \notin {"idle", "start"} \cup Dtor
             PROVE  got'[k] + buf'[k] = KeptItems(k) + wrote'[k]
  BY <1>2 DEF Count, Outs, Dtor
<1>3. buf[k] \in Int /\ got[k] \in Int /\ wrote[k] \in Int /\ KeptItems(k) \in Int
  BY <1>1 DEF DataOK, KeptItems
<1>4. CASE k = n /\ pc[n] = "start"
  <2>1. InitFunc(n) /\ UNCHANGED <<buf, wrote>>
    BY <1>4 DEF OnPump, Outs, Maps
  <2>2. buf[n] = 0 /\ wrote[n] = 0 /\ got[n] = 1
    BY <1>1, <1>4 DEF NotYet, Dry
  <2>3. got'[n] = KeptItems(n)
    BY <1>1, <1>4, <2>1, <2>2 DEF InitFunc, KeptItems, Outs, DataOK
  <2> QED BY <1>3, <1>4, <2>1, <2>2, <2>3
<1>5. CASE ~(k = n /\ pc[n] = "start")
  <2>1. pc[k] \notin {"idle", "start"} \cup Dtor
    BY <1>1, <1>5, Onward
  <2>2. got[k] + buf[k] = KeptItems(k) + wrote[k]
    BY <1>1, <2>1 DEF Count
  <2>3. \/ Level(k)
        \/ buf'[k] = buf[k] + 1 /\ wrote'[k] = wrote[k] + 1 /\ got'[k] = got[k]
        \/ buf'[k] = buf[k] - 1 /\ wrote'[k] = wrote[k] /\ got'[k] = got[k] + 1
    BY <1>5, Amounts
  <2> QED BY <1>3, <2>2, <2>3 DEF Level
<1> QED BY <1>4, <1>5

(* Nothing comes into the pipe of a mapping that is done.                  *)
LEMMA DrainedStep ==
    ASSUME Tidy, Pipelines, Flows, NEW n \in Node, Turn(n), Deals(n), OnData(n), OnPump(n),
           NEW k \in Node
    PROVE  Drained(k)'
<1>1. IInv /\ TypeOK /\ Fresh(n) /\ fixed' = fixed /\ Drained(k) /\ Ends(n)
  BY DEF Tidy, Sound, IInv, Flows, Flow, Turn, Only
<1>2. Op(k)' = Op(k) /\ tree' = tree
  BY <1>1, Same
<1> SUFFICES ASSUME Op(k) \in Outs, ~tree[k].bad, job'[k] = "done" PROVE Dry(k)'
  BY <1>2 DEF Drained, Outs
<1>3. CASE k # n
  <2>1. job[k] = "done"
    BY <1>3, Elsewhere
  <2> QED BY <1>1, <1>3, <2>1, DryStays DEF Drained
<1>4. CASE k = n
  <2>1. job[n] = "done" \/ (Pumping(n) /\ AtEof(PumpFile(n)))
    BY <1>4 DEF OnPump, Outs, Maps
  <2>2. Dry(n)
    <3>1. CASE job[n] = "done"
      BY <1>1, <1>4, <3>1 DEF Drained
    <3>2. CASE Pumping(n) /\ AtEof(PumpFile(n))
      <4>1. PumpFile(n) = PipeR(n)
        BY <1>1, <1>4, <3>2, Pumped DEF Outs
      <4> QED BY <3>2, <4>1 DEF AtEof, PipeR, Dry
    <3> QED BY <2>1, <3>1, <3>2
  <2>3. pc[n] # "start"
    BY <1>1, <2>1 DEF Fresh, Pumping
  <2> QED BY <1>4, <2>2, <2>3, DryStays DEF StartPipe, StartMapping, ForkFails
<1> QED BY <1>3, <1>4

(* All of that after a step of a node.                                     *)
LEMMA FlowsStep ==
    ASSUME Tidy, Pipelines, Flows, NEW n \in Node, Turn(n), Deals(n), Kept(n), OnData(n), OnPump(n)
    PROVE  Flows'
<1>1. IInv /\ IsTable /\ Local /\ StdOK /\ DataOK /\ DOMAIN keeps = Node /\ Node' = Node
  BY Same DEF Tidy, Sound, Wrapped, Numbered, Flows, DataOK, Turn, Only
<1>2. DataOK'
  BY <1>1, DataOKStep
<1>3. ASSUME NEW k \in Node PROVE Flow(k)'
  <2>1. Ends(k) /\ Copied(k)
    BY DEF Flows, Flow
  <2>2. Ends(k)'
    BY <1>1, <2>1, EndsStep
  <2>3. Copied(k)'
    BY <1>1, <2>1, CopiedStep
  <2>4. NotYet(k)'
    BY NotYetStep
  <2>5. Count(k)'
    BY CountStep
  <2>6. Drained(k)'
    BY DrainedStep
  <2> QED BY <2>2, <2>3, <2>4, <2>5, <2>6 DEF Flow
<1> QED BY <1>1, <1>2, <1>3 DEF Flows

(* It holds before run() is called.                                        *)
LEMMA InitFlows == Init => Flows
<1> SUFFICES ASSUME Init PROVE Flows
  OBVIOUS
<1>1. TypeOK /\ 0 \notin Node
  BY InitSound, Tree DEF Sound, IInv
<1>2. DataOK
  BY DEF Init, DataOK
<1>3. ASSUME NEW k \in Node PROVE Flow(k)
  <2>1. pc[k] \in {"idle", "start"} /\ job[k] = "none" /\ buf[k] = 0 /\ wrote[k] = 0 /\ got[k] = 1
    BY DEF Init
  <2>2. ~Held(PipeW(k))
    <3>1. \A fd \in Fd : fdt[fd] # PipeW(k)
      BY <1>1 DEF Init, Inherited, Tty, Closed, PipeW
    <3> QED BY <3>1 DEF Held, Init
  <2> QED BY <2>1, <2>2 DEF Flow, Ends, Copied, NotYet, Count, Drained, Dry
<1> QED BY <1>2, <1>3 DEF Flows

(* Together they are the invariant.                                        *)
Streamed == Tidy /\ (Pipelines => Flows)

(* The invariant is inductive.                                             *)
LEMMA NextStreamed == Streamed /\ [Next]_vars => Streamed'
<1> SUFFICES ASSUME Streamed, [Next]_vars PROVE Streamed'
  OBVIOUS
<1>1. Tidy /\ Tidy' /\ IInv /\ TypeOK /\ Local /\ Wrapped
  BY NextTidy DEF Streamed, Tidy, Sound, IInv
<1>2. ASSUME NEW n \in Node, Turn(n), Deals(n), Kept(n), OnData(n), OnPump(n)
      PROVE  Streamed'
  <2>1. Pipelines' <=> Pipelines
    BY <1>1, <1>2, Lastly DEF Turn, Only
  <2>2. Pipelines => Flows'
    BY <1>1, <1>2, FlowsStep DEF Streamed
  <2> QED BY <1>1, <2>1, <2>2 DEF Streamed
<1>3. ASSUME NEW n \in Node, Act(n) PROVE Streamed'
  <2>1. Turn(n)
    BY <1>1, <1>3, Acting
  <2>2. Kept(n)
    BY <1>1, <1>3, StartKeeps, TaskKeeps, FinishKeeps DEF Act
  <2>3. Deals(n)
    BY <1>1, <1>3, Dealing
  <2>4. OnData(n) /\ OnPump(n)
    BY <1>1, <1>3, Flowing
  <2> QED BY <1>2, <2>1, <2>2, <2>3, <2>4
<1>4. CASE RunFinishes \/ Drop
  <2>1. Root \in Node /\ Turn(Root)
    BY <1>1, <1>4, Tree, HostCalls
  <2>2. UNCHANGED <<arg, job, programs, table, data>> /\ fixed' = fixed
        /\ (Goto(Root, "fin") \/ Goto(Root, "dtor")) /\ pc[Root] # "start"
    BY <1>4 DEF RunFinishes, Drop, rest
  <2>3. Kept(Root)
    BY <1>1, <2>1, <2>2, SameTable
  <2>4. Deals(Root)
    <3>1. NoStart
      BY <1>1, <2>2 DEF Goto, NoStart, TypeOK
    <3> QED BY <2>2, <3>1 DEF Deals, OnTable, OnArg, OnStd, OnJob, OnKeeps, programs
  <2>5. OnData(Root) /\ OnPump(Root)
    BY <2>2 DEF OnData, OnPump
  <2> QED BY <1>2, <2>1, <2>3, <2>4, <2>5
<1>5. CASE RunReturns \/ RunThrows \/ UNCHANGED vars
  <2>1. UNCHANGED <<fixed, pc, job, table, std, keeps, data>>
    BY <1>5 DEF RunReturns, RunThrows, vars, fixed, table, programs, data
  <2>2. Pipelines' <=> Pipelines
    BY <1>1, <2>1, Lastly
  <2>3. Flows => Flows'
    <3> SUFFICES ASSUME Flows PROVE Flows'
      OBVIOUS
    <3>1. /\ tree' = tree /\ limit' = limit /\ pc' = pc /\ job' = job /\ own' = own /\ fdt' = fdt
          /\ std' = std /\ keeps' = keeps /\ buf' = buf /\ wrote' = wrote /\ got' = got
          /\ Node' = Node /\ Fd' = Fd /\ \A m \in Node : Op(m)' = Op(m)
      BY <2>1, Same DEF fixed, table, data, Fd
    <3>2. DataOK'
      BY <3>1 DEF Flows, DataOK
    <3>3. ASSUME NEW k \in Node PROVE Flow(k)'
      <4>1. Flow(k)
        BY DEF Flows
      <4>2. Dry(k) => Dry(k)'
        BY <3>1 DEF Dry, Held, PipeW
      <4>3. Ends(k)' /\ Copied(k)'
        BY <3>1, <4>1 DEF Flow, Ends, Copied, Maps, PumpEnd, Streams
      <4>4. NotYet(k)' /\ Count(k)' /\ Drained(k)'
        BY <3>1, <4>1, <4>2 DEF Flow, NotYet, Count, Drained, KeptItems, Outs, Dtor
      <4> QED BY <4>3, <4>4 DEF Flow
    <3> QED BY <3>1, <3>2, <3>3 DEF Flows
  <2> QED BY <1>1, <2>2, <2>3 DEF Streamed
<1> QED BY <1>3, <1>4, <1>5 DEF Next, Terminated, Act

(* It says that what has been collected when run() returns is complete.    *)
LEMMA StreamedOutput == Streamed => (Pipelines => OutputComplete)
<1> SUFFICES ASSUME Tidy, Flows, NEW n \in Node,
                    Op(n) \in {"outmap", "errmap"}, pc[n] = "done", ~tree[n].bad
             PROVE  /\ got[n] = (IF tree[n].append THEN 1 ELSE 0) + wrote[n]
                    /\ ~Held(PipeW(n))
  BY DEF Streamed, OutputComplete
<1>1. Stands(n) /\ Ends(n) /\ Count(n) /\ Drained(n) /\ DataOK
  BY DEF Tidy, Sound, Local, Flows, Flow
<1>2. job[n] = "done"
  BY <1>1 DEF Stands, Done, Ends, Maps
<1>3. buf[n] = 0 /\ ~Held(PipeW(n))
  BY <1>1, <1>2 DEF Drained, Dry, Outs
<1>4. got[n] + buf[n] = KeptItems(n) + wrote[n]
  BY <1>1 DEF Count, Outs, Dtor
<1>5. got[n] \in Int /\ wrote[n] \in Int /\ KeptItems(n) \in Int
  BY <1>1 DEF DataOK, KeptItems
<1> QED BY <1>3, <1>4, <1>5 DEF KeptItems

(* After run() the string or vector of > and >= holds all that the programs *)
(* of its operand have written, after what an appending functor kept, for  *)
(* every expression in which no pipe and no mapping contains && || , : the *)
(* pump ends at end of file, and that comes when no writer is left.        *)
THEOREM Filled == Spec => [](Pipelines => OutputComplete)
<1>1. Init => Streamed
  BY InitTidy, InitFlows DEF Streamed
<1>2. Streamed /\ [Next]_vars => Streamed'
  BY NextStreamed
<1> QED BY <1>1, <1>2, StreamedOutput, PTL DEF Spec

-----------------------------------------------------------------------------
(***************************************************************************)
(* With three descriptors for every command, nothing throws but what is    *)
(* missing or fails by itself.                                             *)
(***************************************************************************)

(* Three descriptors for every command, besides the three of the host.     *)
Roomy == limit >= 3 * Cardinality(Node) + 3

(* No command ever has more than three wrappers filled.                    *)
WrapperOf(m, k) ==
    IF Op(m) = "function" THEN k ELSE IF k = "in" THEN "p0" ELSE IF k = "out" THEN "p1" ELSE "fd"

(* An expression has finitely many commands.                               *)
LEMMA NodesFinite == ASSUME TypeOK PROVE IsFiniteSet(Node) /\ Cardinality(Node) \in Nat
<1>1. PICK N \in Nat : Node = 1..N
  BY Counted
<1>2. IsFiniteSet(1..N)
  BY FS_Interval
<1> QED BY <1>1, <1>2, FS_CardinalityType

(* Something is missing, or throws, or cannot be forked.                   *)
Culprit == \E m \in Node : tree[m].bad \/ tree[m].nofork

(* So a command that has none can open three, unless a fork failed.        *)
LEMMA Room ==
    ASSUME IInv, Wrapped, Roomy, ~Culprit, NEW n \in Node, pc[n] = "start"
    PROVE  CanOpen(1) /\ CanOpen(2) /\ CanOpen(3)
<1>1. /\ TypeOK /\ Table /\ own[n] = NoSlots /\ limit \in Nat /\ (\A m \in Node : Holds(m))
  BY CasesAssumption DEF IInv, Fresh, TypeOK, Wrapped
<1> DEFINE Used == {fd \in Fd \ (0..2) : fdt[fd] # Closed}
           W == (Node \ {n}) \X Streams
           S == {w \in W : own[w[1]][WrapperOf(w[1], w[2])] \in Used}
           g == [w \in S |-> own[w[1]][WrapperOf(w[1], w[2])]]
<1>2. g \in Surjection(S, Used)
  <2>1. g \in [S -> Used]
    OBVIOUS
  <2>2. ASSUME NEW fd \in Used PROVE \E w \in S : g[w] = fd
    <3>1. fd \in Fd \ (0..2) /\ fdt[fd] # Closed
      OBVIOUS
    <3>2. PICK m \in Node, s \in Slots : own[m][s] = fd
      BY <1>1, <3>1 DEF Table, Owner, FailPipe, Culprit
    <3>3. fd # -1
      BY <1>1, <3>1 DEF Fd
    <3>4. m # n
      BY <1>1, <3>2, <3>3 DEF NoSlots
    <3>5. PICK k \in Streams : s = WrapperOf(m, k)
      <4>1. Streams = {"in", "out", "err"}
        BY DEF Streams, StdFd
      <4>2. s \in Streams <=> Op(m) = "function"
        BY <1>1, <3>2, <3>3, <4>1 DEF Holds, Slots, Maps, Redirects
      <4> QED BY <4>1, <4>2 DEF WrapperOf, Slots
    <3>6. <<m, k>> \in S /\ g[<<m, k>>] = fd
      BY <3>2, <3>4, <3>5
    <3> QED BY <3>6
  <2> HIDE DEF Used, S, g
  <2> QED BY <2>1, <2>2 DEF Surjection
<1>3. IsFiniteSet(Node \ {n}) /\ Cardinality(Node \ {n}) = Cardinality(Node) - 1
  BY <1>1, NodesFinite, FS_RemoveElement
<1>4. IsFiniteSet(Streams) /\ Cardinality(Streams) = 3
  <2>1. \A T : IsFiniteSet(T) => \A x : x \notin T =>
            IsFiniteSet(T \cup {x}) /\ Cardinality(T \cup {x}) = Cardinality(T) + 1
    BY FS_AddElement
  <2>2. IsFiniteSet({"in"}) /\ Cardinality({"in"}) = 1
    BY FS_Singleton
  <2>3. "out" \notin {"in"} /\ "err" \notin {"in"} \cup {"out"}
    OBVIOUS
  <2>4. IsFiniteSet({"in"} \cup {"out"}) /\ Cardinality({"in"} \cup {"out"}) = 1 + 1
    BY <2>1, <2>2, <2>3, Zenon
  <2>5. /\ IsFiniteSet(({"in"} \cup {"out"}) \cup {"err"})
        /\ Cardinality(({"in"} \cup {"out"}) \cup {"err"}) = (1 + 1) + 1
    BY <2>1, <2>3, <2>4, Zenon
  <2>6. Streams = ({"in"} \cup {"out"}) \cup {"err"}
    BY DEF Streams, StdFd
  <2> QED BY <2>5, <2>6
<1>5. IsFiniteSet(W) /\ Cardinality(W) = 3 * (Cardinality(Node) - 1)
  <2>1. IsFiniteSet(W) /\ Cardinality(W) = Cardinality(Node \ {n}) * Cardinality(Streams)
    BY <1>3, <1>4, FS_Product
  <2> QED BY <1>1, <1>3, <1>4, <2>1, NodesFinite
<1>6. IsFiniteSet(Used) /\ Cardinality(Used) <= Cardinality(W)
  <2>1. S \in SUBSET W
    OBVIOUS
  <2> HIDE DEF S, W, Used, g
  <2>2. IsFiniteSet(S) /\ Cardinality(S) <= Cardinality(W)
    BY <1>5, <2>1, FS_Subset
  <2>3. IsFiniteSet(Used) /\ Cardinality(Used) <= Cardinality(S)
    BY <1>2, <2>2, FS_Surjection
  <2>4. Cardinality(Used) \in Nat /\ Cardinality(S) \in Nat /\ Cardinality(W) \in Nat
    BY <1>5, <2>2, <2>3, FS_CardinalityType
  <2> QED BY <2>2, <2>3, <2>4
<1>7. IsFiniteSet(Fd) /\ Cardinality(Fd) = limit
  <2>1. limit >= 3
    BY <1>1, CasesAssumption DEF TypeOK
  <2>2. PICK a \in Int, b \in Int : a = 0 /\ b = limit - 1
    BY <1>1
  <2>3. IsFiniteSet(a..b) /\ Cardinality(a..b) = IF a > b THEN 0 ELSE b - a + 1
    BY FS_Interval
  <2> QED BY <1>1, <2>1, <2>2, <2>3 DEF Fd
<1>8. IsFiniteSet(0..2) /\ Cardinality(0..2) = 3
  <2>1. PICK a \in Int, b \in Int : a = 0 /\ b = 2
    OBVIOUS
  <2>2. IsFiniteSet(a..b) /\ Cardinality(a..b) = IF a > b THEN 0 ELSE b - a + 1
    BY FS_Interval
  <2> QED BY <2>1, <2>2
<1>9. IsFiniteSet(Free)
  BY <1>7, FS_Subset DEF Free
<1>10. Fd \subseteq Free \cup (Used \cup (0..2))
  BY DEF Free
<1> HIDE DEF Used, W
<1>11. /\ Cardinality(Free) \in Nat /\ Cardinality(Used) \in Nat /\ Cardinality(Fd) \in Nat
       /\ Cardinality(Node) \in Nat
  BY <1>1, <1>6, <1>7, <1>9, FS_CardinalityType, NodesFinite
<1>12. IsFiniteSet(Used \cup (0..2)) /\ Cardinality(Used \cup (0..2)) <= Cardinality(Used) + 3
  <2>1. /\ IsFiniteSet(Used \cup (0..2))
        /\ Cardinality(Used \cup (0..2)) = Cardinality(Used) + 3 - Cardinality(Used \cap (0..2))
    BY <1>6, <1>8, FS_Union
  <2>2. IsFiniteSet(Used \cap (0..2))
    BY <1>6, FS_Subset
  <2>3. Cardinality(Used \cap (0..2)) \in Nat
    BY <2>2, FS_CardinalityType
  <2> QED BY <1>11, <2>1, <2>3
<1>13. Cardinality(Fd) <= Cardinality(Free) + Cardinality(Used) + 3
  <2> DEFINE U == Used \cup (0..2)
  <2>1. /\ IsFiniteSet(Free \cup U)
        /\ Cardinality(Free \cup U) = Cardinality(Free) + Cardinality(U) - Cardinality(Free \cap U)
    BY <1>9, <1>12, FS_Union
  <2>2. IsFiniteSet(Free \cap U)
    BY <1>9, FS_Subset
  <2>3. Cardinality(Free \cap U) \in Nat /\ Cardinality(U) \in Nat
    BY <1>12, <2>2, FS_CardinalityType
  <2>4. Cardinality(Fd) <= Cardinality(Free \cup U)
    BY <1>10, <2>1, FS_Subset
  <2> QED BY <1>11, <1>12, <2>1, <2>3, <2>4
<1>14. Cardinality(Free) >= 3
  BY <1>1, <1>5, <1>6, <1>7, <1>11, <1>13 DEF Roomy
<1> QED BY <1>11, <1>14 DEF CanOpen

(* A command that reports a failure.                                       *)
Failed(k) == pc[k] \in {"threw", "failed"} \/ job[k] = "failed"

(* No failure without a cause.                                             *)
Blamed == (\E k \in Node : Failed(k)) \/ host = "threw" => Culprit

(* How a command comes to fail: it or an operand has, it is the cause, or  *)
(* start_run lacks descriptors or cannot fork.                             *)
Short(n) ==
    /\ pc[n] = "start"
    /\ \/ Op(n) = "native" /\ ~CanSpawn(n)
       \/ Op(n) = "function" /\ ~CanDup(n)
       \/ ~CanOpen(1) \/ ~CanOpen(2)

(* That is how a failure comes about in one step.                          *)
OnFail(n) == Failed(n)' => (\E m \in Node : Failed(m)) \/ tree[n].bad \/ Short(n)

(* Every action of a node fails in no other way.                           *)
LEMMA Failing == ASSUME IInv, Local, NEW n \in Node, Act(n) PROVE OnFail(n)
<1>1. DOMAIN job = Node /\ DOMAIN pc = Node /\ Kind(n) /\ Fresh(n) /\ TypeOK
  BY DEF IInv, TypeOK, Local, Stands
<1>2. /\ L(n) # n /\ R(n) # n /\ (L(n) # 0 => L(n) \in Node) /\ (R(n) # 0 => R(n) \in Node)
      /\ L(n) = 0 <=> Op(n) \in {"bool"} \cup Leaves
      /\ R(n) = 0 <=> Op(n) \notin Binary
  BY <1>1, Order, Tree
<1>3. /\ Op(n) \in {"pipe"} \cup Maps \cup Redirects \cup Conditionals => L(n) \in Node
      /\ Op(n) \in {"pipe"} \cup Conditionals => R(n) \in Node
  BY <1>2 DEF Leaves, Maps, Redirects, Conditionals, Binary
<1> SUFFICES ASSUME ~Failed(n), Failed(n)' PROVE (\E m \in Node : Failed(m)) \/ tree[n].bad \/ Short(n)
  BY DEF OnFail
<1>4. pc[n] \notin {"threw", "failed"} /\ job[n] # "failed"
  BY DEF Failed
<1>5. pc'[n] \in {"threw", "failed"} \/ job'[n] = "failed"
  BY DEF Failed
<1> DEFINE Goal == (\E m \in Node : Failed(m)) \/ tree[n].bad \/ Short(n)
<1>6. (pc[L(n)] \in {"threw", "failed"} /\ L(n) \in Node) \/ (pc[R(n)] \in {"threw", "failed"} /\ R(n) \in Node)
          => Goal
  BY DEF Failed
<1>7. CASE StartLeaf(n)
  <2>1. CASE StartFunctionThrows(n) \/ StartNativeThrows(n) \/ ForkFails(n)
    BY <2>1 DEF StartFunctionThrows, StartNativeThrows, ForkFails, Short, CanSpawn, CanFork
  <2>2. CASE StartBool(n) \/ StartBuiltin(n) \/ StartFunction(n) \/ StartNative(n)
    BY <1>1, <1>4, <1>5, <2>2 DEF StartBool, StartBuiltin, StartFunction, StartNative, Goto
  <2> QED BY <1>7, <2>1, <2>2 DEF StartLeaf
<1>8. CASE StartNode(n)
  <2>1. CASE PipeThrows(n)
    BY <1>3, <1>6, <2>1 DEF PipeThrows, Short
  <2>2. CASE MappingThrows(n)
    BY <1>3, <1>6, <2>2 DEF MappingThrows, Short
  <2>3. CASE PassThrow(n)
    BY <1>3, <1>6, <2>3 DEF PassThrow, Short
  <2>4. CASE StartPipe(n) \/ StartMapping(n) \/ StartRedirect(n) \/ StartConditional(n) \/ StartRightOfPipe(n)
    <3>1. pc'[n] \in {"left", "right"} /\ job' = job
      BY <1>1, <1>2, <2>4 DEF StartPipe, StartMapping, StartRedirect, StartConditional, StartRightOfPipe,
                              StartOperand, Call
    <3> QED BY <1>4, <1>5, <3>1
  <2>5. CASE PipeUp(n) \/ InMappingUp(n) \/ RedirectUp(n)
    <3>1. pc'[n] = "up" /\ job' = job
      BY <1>1, <2>5 DEF PipeUp, InMappingUp, RedirectUp, Goto
    <3> QED BY <1>4, <1>5, <3>1
  <2>6. CASE StartPump(n)
    <3>1. pc'[n] \in {"tail", "up"} /\ job'[n] = "run"
      BY <1>1, <2>6 DEF StartPump, Goto
    <3> QED BY <1>5, <3>1
  <2>7. CASE ConditionalUp(n)
    <3>1. pc'[n] = "up" /\ job'[n] = "left"
      BY <1>1, <1>2, <2>7 DEF ConditionalUp, Call
    <3> QED BY <1>5, <3>1
  <2> QED BY <1>8, <2>1, <2>2, <2>3, <2>4, <2>5, <2>6, <2>7 DEF StartNode
<1>9. CASE Task(n)
  <2>1. CASE TaskFails(n)
    <3>1. Op(n) \in Conditionals
      BY <1>1, <2>1, Tree DEF TaskFails, Kind, Jobs, Binary, UnaryOps, Leaves
    <3> QED BY <1>3, <1>6, <2>1, <3>1 DEF TaskFails
  <2>2. CASE ~TaskFails(n)
    <3>1. pc'[n] = pc[n] /\ (job' = job \/ job'[n] \in {"right", "done"})
      BY <1>1, <1>2, <1>9, <2>2 DEF Task, TaskLeftDone, TaskRightUp, TaskRightDone, Goto
    <3> QED BY <1>4, <1>5, <3>1
  <2> QED BY <2>1, <2>2
<1>10. CASE Leaf(n)
  <2>1. ASSUME NEW v, ProcessEnds(n, v) PROVE FALSE
    BY <1>1, <1>4, <1>5, <2>1 DEF ProcessEnds
  <2>2. CASE FunctionEnds(n) \/ BuiltinEnds(n)
    BY <1>1, <1>4, <1>5, <2>2 DEF FunctionEnds, BuiltinEnds, Goto
  <2>3. CASE ProgramEnds(n) \/ \E k \in {"out", "err"} : LeafBreaks(n, k)
    BY <1>4, <1>5, <2>1, <2>3 DEF ProgramEnds, LeafBreaks
  <2>4. CASE LeafReads(n) \/ LeafSeesEof(n) \/ (\E k \in {"out", "err"} : LeafWrites(n, k)) \/ Reap(n)
    BY <1>1, <1>4, <1>5, <2>4 DEF LeafReads, LeafSeesEof, LeafWrites, Reap
  <2> QED BY <1>10, <2>2, <2>3, <2>4 DEF Leaf
<1>11. CASE Pump(n)
  BY <1>1, <1>4, <1>5, <1>11 DEF Pump, Feed, FeedBreaks, Collect, PumpDone, PumpFails, PumpEnds
<1>12. CASE Finish(n)
  <2>1. CASE FinishThrows(n)
    <3>1. Op(n) \in {"pipe"} \cup Maps \cup Redirects /\ (pc[n] = "finR" => Op(n) = "pipe")
      BY <1>1, <2>1 DEF FinishThrows, Kind, Stage, UnaryOps
    <3> QED BY <1>3, <1>6, <2>1, <3>1 DEF FinishThrows
  <2>2. CASE ~FinishThrows(n)
    <3>1. pc'[n] \in {"done", "finL", "finR"} /\ job' = job
      BY <1>1, <1>2, <1>4, <1>12, <2>2
         DEF Finish, FinishAtOnce, FinishGet, FinishOperand, FinishRight, FinishPipe, FinishUnary, Goto, Call
    <3> QED BY <1>4, <1>5, <3>1
  <2> QED BY <2>1, <2>2
<1>13. CASE Destruction(n)
  <2>1. pc'[n] \in {"gone", "join", "dtorR", "dtorL"} /\ job' = job
    <3>1. CASE Destroy(n)
      <4>1. \/ Goto(n, "gone") \/ Goto(n, "join")
            \/ \E m : m # n /\ (Call(n, "dtorR", m, "dtor") \/ Call(n, "dtorL", m, "dtor"))
        BY <1>2, <3>1, Zenon DEF Destroy
      <4> QED BY <1>1, <3>1, <4>1 DEF Destroy, Goto, Call
    <3>2. CASE ~Destroy(n)
      BY <1>1, <1>2, <1>13, <3>2 DEF Destruction, DestroyLeft, OperandsGone, Join, Goto, Call
    <3> QED BY <3>1, <3>2
  <2> QED BY <1>4, <1>5, <2>1
<1> QED BY <1>7, <1>8, <1>9, <1>10, <1>11, <1>12, <1>13 DEF Act

(* With descriptors enough, everything else can be started.                *)
LEMMA Able == ASSUME Tidy, Pipelines, Roomy, ~Culprit, NEW n \in Node PROVE ~Short(n)
<1> SUFFICES ASSUME Short(n) PROVE FALSE
  OBVIOUS
<1>1. IInv /\ TypeOK /\ Table /\ Wrapped /\ ArgOK /\ Gets(n)
  BY DEF Tidy, Sound, IInv, Numbered
<1>2. CanOpen(1) /\ CanOpen(2) /\ CanOpen(3)
  BY <1>1, Room DEF Short
<1>3. /\ \A k \in Streams : Finds(n, k, arg[n].std[k])
      /\ \A fd \in arg[n].unused : Barred(n, fd)
  BY <1>1 DEF Short, Gets, Live, Going
<1>4. \A k \in Streams : Want[n][k] # Closed
  <2>1. \A k \in Streams : WantFile(n, k) /\ k # "closed"
    BY <1>1, WantFiles DEF Streams, StdFd
  <2> QED BY <2>1 DEF WantFile, Tty, PipeR, PipeW, OpenFile, Closed
<1>5. CanDup(n)
  <2>1. ASSUME NEW k \in Streams PROVE fdt[arg[n].std[k]] # Closed
    <3>1. fdt[arg[n].std[k]] = Want[n][k]
      BY <1>1, <1>3, Found
    <3> QED BY <1>4, <3>1
  <2> QED BY <1>2, <2>1 DEF CanDup
<1>6. CanSpawn(n)
  <2>1. ASSUME NEW fd \in 0..2 PROVE ChildTable(n)[fd] # Closed
    <3>1. PICK k \in Streams : StdFd[k] = fd
      BY DEF Streams, StdFd
    <3>2. ChildTable(n)[StdFd[k]] = Want[n][k]
      BY <1>1, <1>3, Child
    <3> QED BY <1>4, <3>1, <3>2
  <2> QED BY <1>2, <2>1 DEF CanSpawn, CanFork, CanExec, Culprit
<1> QED BY <1>2, <1>5, <1>6 DEF Short

(* A step of a node reports no failure without a cause.                    *)
LEMMA BlamedStep ==
    ASSUME Tidy, Pipelines, Roomy, Blamed, NEW n \in Node, Turn(n), OnFail(n)
    PROVE  Blamed'
<1>1. TypeOK /\ Stands(n) /\ Fresh(n) /\ InTurn(n) /\ fixed' = fixed /\ host' \in {host, "killed"}
  BY DEF Tidy, Sound, IInv, Local, Turn, Only
<1>2. tree' = tree /\ Node' = Node /\ (Culprit' <=> Culprit)
  BY <1>1, Same DEF Culprit
<1> SUFFICES ASSUME ~Culprit PROVE (\A k \in Node : ~Failed(k)') /\ host' # "threw"
  BY <1>2 DEF Blamed, Failed
<1>3. (\A k \in Node : ~Failed(k)) /\ host # "threw"
  BY DEF Blamed
<1>4. ~Failed(n)'
  BY <1>3, Able DEF OnFail, Culprit
<1>5. ASSUME NEW k \in Node, k # n PROVE ~Failed(k)'
  <2>1. job'[k] = job[k]
    BY <1>5, Elsewhere
  <2>2. pc'[k] = pc[k] \/ pc'[k] \in {"start", "fin", "dtor"}
    <3>1. CASE k \in {L(n), R(n)}
      <4>1. k # 0
        BY <1>1, Tree
      <4> QED BY <1>1, <3>1, <4>1, Called
    <3>2. CASE k \notin {L(n), R(n)}
      BY <1>5, <3>2, Elsewhere
    <3> QED BY <3>1, <3>2
  <2> QED BY <1>3, <2>1, <2>2 DEF Failed
<1> QED BY <1>1, <1>3, <1>4, <1>5

(* Together they are the invariant.                                        *)
Excused == Tidy /\ (Pipelines /\ Roomy => Blamed)

(* It is inductive.                                                        *)
LEMMA NextExcused == Excused /\ [Next]_vars => Excused'
<1> SUFFICES ASSUME Excused, [Next]_vars PROVE Excused'
  OBVIOUS
<1>1. Tidy /\ Tidy' /\ IInv /\ TypeOK /\ Local /\ Wrapped
  BY NextTidy DEF Excused, Tidy, Sound, IInv
<1>2. ASSUME fixed' = fixed PROVE (Pipelines' <=> Pipelines) /\ (Roomy' <=> Roomy)
  <2>1. tree' = tree /\ limit' = limit /\ Node' = Node
    BY <1>2, Same
  <2> QED BY <1>1, <1>2, <2>1, Lastly DEF Roomy
<1>3. ASSUME NEW n \in Node, Turn(n), OnFail(n) PROVE Excused'
  <2>1. fixed' = fixed
    BY <1>3 DEF Turn, Only
  <2>2. Pipelines /\ Roomy => Blamed'
    BY <1>1, <1>3, BlamedStep DEF Excused
  <2> QED BY <1>1, <1>2, <2>1, <2>2 DEF Excused
<1>4. ASSUME NEW n \in Node, Act(n) PROVE Excused'
  BY <1>1, <1>3, <1>4, Acting, Failing
<1>5. CASE RunFinishes \/ Drop
  <2>1. Root \in Node /\ Turn(Root)
    BY <1>1, <1>5, Tree, HostCalls
  <2>2. job' = job /\ (pc'[Root] = "fin" \/ pc'[Root] = "dtor")
    BY <1>1, <1>5, <2>1 DEF RunFinishes, Drop, Goto, TypeOK
  <2>3. OnFail(Root)
    BY <2>1, <2>2 DEF OnFail, Failed
  <2> QED BY <1>3, <2>1, <2>3
<1>6. CASE RunReturns \/ RunThrows \/ UNCHANGED vars
  <2>1. UNCHANGED <<fixed, pc, job>> /\ (host' \in {"returned", host} \/ RunThrows)
    BY <1>6 DEF RunReturns, RunThrows, vars, fixed
  <2>2. tree' = tree /\ Node' = Node /\ (Culprit' <=> Culprit) /\ (\A k \in Node : Failed(k)' <=> Failed(k))
    BY <2>1, Same DEF Culprit, Failed
  <2>3. RunThrows => Failed(Root) /\ Root \in Node
    BY <1>1, Tree DEF RunThrows, Failed
  <2>4. Blamed => Blamed'
    <3>1. Blamed' <=> ((\E k \in Node : Failed(k)') \/ host' = "threw" => Culprit')
      BY <2>2 DEF Blamed, Failed
    <3> QED BY <2>1, <2>2, <2>3, <3>1 DEF Blamed
  <2> QED BY <1>1, <1>2, <2>1, <2>4 DEF Excused
<1> QED BY <1>4, <1>5, <1>6 DEF Next, Terminated, Act

(* run() throws only if a program is missing or cannot be forked, a file   *)
(* cannot be opened or a functor throws, for every expression in which no pipe and no mapping    *)
(* contains && || , and every limit that has three descriptors for each of *)
(* its commands: the library itself runs out of none.                      *)
THEOREM HasCause == Spec => [](Pipelines /\ Roomy => ThrowHasCause)
<1>1. Init => Excused
  BY InitTidy DEF Init, Excused, Blamed, Failed
<1>2. Excused /\ [Next]_vars => Excused'
  BY NextExcused
<1>3. Excused => (Pipelines /\ Roomy => ThrowHasCause)
  BY DEF Excused, Blamed, ThrowHasCause, Culprit
<1> QED BY <1>1, <1>2, <1>3, PTL DEF Spec

-----------------------------------------------------------------------------
(***************************************************************************)
(* What is destroyed, and when.                                            *)
(***************************************************************************)

(* The destruction of an expression begins with its root.                  *)
LEMMA Undropped ==
    ASSUME IInv, Local, NEW n \in Node, Act(n), pc'[n] \in Dtor
    PROVE  pc[n] \in Dtor
<1>1. DOMAIN pc = Node /\ Kind(n) /\ TypeOK
  BY DEF IInv, TypeOK, Local, Stands
<1>2. L(n) # n /\ R(n) # n
  BY <1>1, Order
<1> USE DEF Dtor
<1>3. CASE StartLeaf(n)
  BY <1>1, <1>3 DEF StartLeaf, StartBool, StartBuiltin, StartFunction, StartFunctionThrows, StartNative,
                    StartNativeThrows, ForkFails, Goto
<1>4. CASE StartNode(n)
  <2>1. CASE StartPipe(n) \/ StartMapping(n) \/ StartRedirect(n) \/ StartConditional(n) \/ StartRightOfPipe(n)
             \/ ConditionalUp(n)
    BY <1>1, <1>2, <2>1 DEF StartPipe, StartMapping, StartRedirect, StartConditional, StartRightOfPipe,
                            ConditionalUp, StartOperand, Call
  <2>2. CASE PipeUp(n) \/ PipeThrows(n) \/ MappingThrows(n) \/ PassThrow(n) \/ InMappingUp(n) \/ RedirectUp(n)
             \/ StartPump(n)
    BY <1>1, <2>2 DEF PipeUp, PipeThrows, MappingThrows, PassThrow, InMappingUp, RedirectUp, StartPump, Goto
  <2> QED BY <1>4, <2>1, <2>2 DEF StartNode
<1>5. CASE Task(n)
  <2>1. pc'[n] = pc[n]
    BY <1>1, <1>2, <1>5 DEF Task, TaskLeftDone, TaskRightUp, TaskRightDone, TaskFails, Goto
  <2> QED BY <2>1
<1>6. CASE Leaf(n)
  <2>1. UNCHANGED pc \/ pc'[n] \in {"up", "threw"}
    BY <1>1, <1>6 DEF Leaf, LeafReads, LeafSeesEof, LeafWrites, LeafBreaks, ProgramEnds, ProcessEnds,
                      FunctionEnds, BuiltinEnds, Reap, Goto
  <2> QED BY <2>1
<1>7. CASE Pump(n)
  BY <1>7 DEF Pump, Feed, FeedBreaks, Collect, PumpDone, PumpFails, PumpEnds
<1>8. CASE Finish(n)
  <2>1. pc'[n] \in {"done", "failed", "finL", "finR"}
    BY <1>1, <1>2, <1>8
       DEF Finish, FinishAtOnce, FinishGet, FinishOperand, FinishRight, FinishPipe, FinishUnary, FinishThrows,
           Goto, Call
  <2> QED BY <2>1
<1>9. CASE Destruction(n)
  BY <1>9 DEF Destruction, Destroy, DestroyLeft, OperandsGone, Join
<1> QED BY <1>3, <1>4, <1>5, <1>6, <1>7, <1>8, <1>9 DEF Act

(* Nothing is destroyed while run() is under way.                          *)
Standing == host = "running" => \A k \in Node : pc[k] \notin Dtor

(* Together they are the invariant.                                        *)
Intact == Sound /\ Standing

(* It is inductive.                                                        *)
LEMMA NextIntact == Intact /\ [Next]_vars => Intact'
<1> SUFFICES ASSUME Intact, [Next]_vars PROVE Intact'
  OBVIOUS
<1>1. Sound /\ Sound' /\ IInv /\ TypeOK /\ Local /\ Wrapped
  BY NextSound DEF Intact, Sound, IInv
<1> SUFFICES ASSUME host' = "running" PROVE \A k \in Node' : pc'[k] \notin Dtor
  BY <1>1 DEF Intact, Standing, Dtor
<1>2. ASSUME NEW n \in Node, Act(n) PROVE \A k \in Node' : pc'[k] \notin Dtor
  <2>1. Turn(n) /\ Stands(n) /\ Fresh(n) /\ InTurn(n)
    BY <1>1, <1>2, Acting DEF IInv, Local
  <2>2. Node' = Node /\ host = "running"
    BY <2>1, Same DEF Turn, Only
  <2>3. \A k \in Node : pc[k] \notin Dtor
    BY <2>2 DEF Intact, Standing
  <2>4. pc'[n] \notin Dtor
    BY <1>1, <1>2, <2>3, Undropped
  <2>5. ASSUME NEW k \in Node \ {n} PROVE pc'[k] \notin Dtor
    <3>1. CASE k \in {L(n), R(n)} /\ pc'[k] # pc[k]
      <4>1. k # 0
        BY <1>1, Tree
      <4>2. Dying(n) => pc[n] \in Dtor
        BY DEF Dying, Dtor
      <4>3. pc'[k] \in {"start", "fin"} \/ Dying(n)
        BY <1>1, <2>1, <3>1, <4>1, Called
      <4> QED BY <2>3, <4>2, <4>3 DEF Dtor
    <3>2. CASE k \notin {L(n), R(n)} \/ pc'[k] = pc[k]
      BY <2>1, <2>3, <3>2, Elsewhere
    <3> QED BY <3>1, <3>2
  <2> QED BY <2>2, <2>4, <2>5
<1>3. CASE RunFinishes
  <2>1. Node' = Node /\ \A k \in Node : pc'[k] \in {pc[k], "fin"}
    BY <1>1, <1>3, Same DEF RunFinishes, Goto, TypeOK, rest
  <2> QED BY <1>3, <2>1 DEF Intact, Standing, RunFinishes, Dtor
<1>4. CASE Drop \/ RunReturns \/ RunThrows
  BY <1>4 DEF Drop, RunReturns, RunThrows, rest
<1>5. CASE UNCHANGED vars
  <2>1. Node' = Node /\ pc' = pc /\ host' = host
    BY <1>5 DEF vars, Node
  <2> QED BY <2>1 DEF Intact, Standing
<1> QED BY <1>2, <1>3, <1>4, <1>5 DEF Next, Terminated, Act

(* Where nothing has been thrown, or no task calls what is a member.       *)
Quietly == host \in {"running", "returned"} \/ \A n \in Node : Op(n) \notin Maps \cup {"function"}

(* It says that no task calls the functor of a command that is destroyed.  *)
LEMMA IntactCalls == Intact => (Quietly => NoCallAfterDtor)
<1> SUFFICES ASSUME Intact, Quietly,
                    NEW n \in Node, job[n] \in {"run", "left", "right"}, Op(n) # "native",
                    pc[n] \in {"dtorR", "dtorL", "join", "gone"}
             PROVE  FALSE
  BY DEF NoCallAfterDtor
<1>1. Kind(n) /\ Gone(n) /\ TypeOK
  BY DEF Intact, Sound, IInv, Local, Stands
<1>2. Op(n) \in Conditionals \cup Maps \cup {"function"}
  BY <1>1, Tree DEF Kind, Jobs, Binary, UnaryOps, Leaves
<1>3. CASE Op(n) \in Conditionals
  BY <1>1, <1>3 DEF Gone, Joined, Kind, Stage, Conditionals, Maps
<1>4. CASE Op(n) \in Maps \cup {"function"}
  <2>1. host \in {"running", "returned"}
    BY <1>4 DEF Quietly
  <2>2. CASE host = "running"
    BY <2>2 DEF Intact, Standing, Dtor
  <2>3. CASE host = "returned"
    BY <2>3 DEF Intact, Sound, Returned, Joined
  <2> QED BY <2>1, <2>2, <2>3
<1> QED BY <1>2, <1>3, <1>4

(* No functor is called after the destructor of its command has begun, for *)
(* every expression, while run() is under way and after it has returned; and *)
(* after it has thrown, if the expression has no mapping and no function.  *)
THEOREM NotCalled == Spec => [](Quietly => NoCallAfterDtor)
<1>1. Init => Intact
  BY InitSound DEF Init, Intact, Standing, Dtor
<1>2. Intact /\ [Next]_vars => Intact'
  BY NextIntact
<1> QED BY <1>1, <1>2, IntactCalls, PTL DEF Spec

-----------------------------------------------------------------------------
(***************************************************************************)
(* What a start_run that throws leaves behind.                             *)
(***************************************************************************)

(* A descriptor that nothing closes.                                       *)
Stray(fd) == fd \in Fd \ (0..2) /\ fdt[fd] # Closed /\ ~Owner(fd)

(* A command whose start has thrown, or that is being destroyed.           *)
Blown == {"threw"} \cup Dtor

(* Children that nobody waits for and stray descriptors are of programs    *)
(* whose start has thrown; no end of a pipe is open twice; and there is    *)
(* none of them if run() has returned.                                     *)
Left ==
    /\ zombies \subseteq {n \in Node : pc[n] \in Blown}
    /\ \A fd \in Fd, n \in Node : Stray(fd) /\ fdt[fd] \in {PipeR(n), PipeW(n)} => pc[n] \in Blown
    /\ \A a, b \in Fd : Stray(a) /\ Stray(b) /\ fdt[a] = fdt[b] => a = b
    /\ host = "returned" => zombies = {} /\ \A fd \in Fd : ~Stray(fd)

(* It stays so.                                                            *)
LEMMA BlownStays ==
    ASSUME IInv, Local, NEW n \in Node, Turn(n), NEW k \in Node, pc[k] \in Blown
    PROVE  pc'[k] \in Blown
<1>1. TypeOK /\ Stands(n) /\ Kind(n) /\ Fresh(n) /\ InTurn(n) /\ DOMAIN pc = Node
  BY DEF IInv, TypeOK, Local, Stands
<1>2. CASE k # n
  <2>1. CASE k \in {L(n), R(n)} /\ pc'[k] # pc[k]
    <3>1. k # 0
      BY <1>1, Tree
    <3>2. pc'[k] = "dtor" \/ pc[k] \in {"idle"} \cup Past
      BY <1>1, <2>1, <3>1, Called
    <3> QED BY <3>2 DEF Blown, Past, Dtor
  <2>2. CASE k \notin {L(n), R(n)} \/ pc'[k] = pc[k]
    BY <1>2, <2>2, Elsewhere
  <2> QED BY <2>1, <2>2
<1>3. CASE k = n
  <2> USE DEF Moves, Asks
  <2>1. pc[n] \notin {"start", "left", "right", "tail", "runx", "up", "fin", "finL", "finR", "done", "failed"}
    BY <1>3 DEF Blown, Dtor
  <2>2. ~Leaving(n) /\ ~Starting(n) /\ ~Finishing(n)
    BY <2>1 DEF Leaving, Starting, Finishing
  <2>3. CASE Tasking(n)
    <3>1. pc'[n] = pc[n]
      BY <2>3 DEF Tasking
    <3> QED BY <1>3, <3>1
  <2>4. CASE Working(n)
    <3>1. ~(Op(n) = "builtin" /\ job[n] = "run")
      BY <1>1, <2>1 DEF Kind, Jobs
    <3>2. pc'[n] = pc[n]
      BY <2>4, <3>1 DEF Working
    <3> QED BY <1>3, <3>2
  <2>5. CASE Dying(n)
    <3>1. pc'[n] \in Dtor
      BY <2>5 DEF Dying, Dtor
    <3> QED BY <1>3, <3>1 DEF Blown
  <2>6. CASE Hosting(n)
    <3>1. pc'[n] \in Dtor
      BY <2>1, <2>6 DEF Hosting, Dtor
    <3> QED BY <1>3, <3>1 DEF Blown
  <2> QED BY <2>2, <2>3, <2>4, <2>5, <2>6 DEF Turn
<1> QED BY <1>2, <1>3

(* The child that could not execute its program.                           *)
LEMMA Orphans ==
    ASSUME IInv, NEW n \in Node, Act(n)
    PROVE  zombies' = zombies \/ (zombies' = zombies \cup {n} /\ pc[n] = "start" /\ pc'[n] = "threw")
<1>1. DOMAIN pc = Node
  BY DEF IInv, TypeOK
<1> USE DEF programs
<1>2. CASE StartLeaf(n)
  <2>1. CASE StartNativeThrows(n)
    BY <1>1, <2>1 DEF StartNativeThrows, Goto
  <2>2. CASE ~StartNativeThrows(n)
    BY <1>2, <2>2 DEF StartLeaf, StartBool, StartBuiltin, StartFunction, StartFunctionThrows, StartNative,
                      ForkFails
  <2> QED BY <2>1, <2>2
<1>3. CASE StartNode(n)
  BY <1>3 DEF StartNode, StartPipe, StartRightOfPipe, PipeUp, PipeThrows, StartMapping, StartPump, InMappingUp,
              MappingThrows, StartRedirect, StartConditional, ConditionalUp, RedirectUp, PassThrow
<1>4. CASE Task(n)
  BY <1>4 DEF Task, TaskLeftDone, TaskRightUp, TaskRightDone, TaskFails
<1>5. CASE Leaf(n)
  BY <1>5 DEF Leaf, LeafReads, LeafSeesEof, LeafWrites, LeafBreaks, ProgramEnds, ProcessEnds, FunctionEnds,
              BuiltinEnds, Reap
<1>6. CASE Pump(n)
  BY <1>6 DEF Pump, Feed, FeedBreaks, Collect, PumpDone, PumpFails, PumpEnds
<1>7. CASE Finish(n)
  BY <1>7 DEF Finish, FinishAtOnce, FinishGet, FinishOperand, FinishRight, FinishPipe, FinishUnary, FinishThrows
<1>8. CASE Destruction(n)
  BY <1>8 DEF Destruction, Destroy, DestroyLeft, OperandsGone, Join
<1> QED BY <1>2, <1>3, <1>4, <1>5, <1>6, <1>7, <1>8 DEF Act

(* No step but a failed fork leaves a descriptor to nobody.                *)
LEMMA Strays ==
    ASSUME IInv, NEW n \in Node, Deals(n), Kept(n), fixed' = fixed, ~ForkFails(n),
           NEW fd \in Fd, Stray(fd)'
    PROVE  Stray(fd) /\ fdt'[fd] = fdt[fd]
<1>1. TypeOK /\ Table /\ Fresh(n) /\ Fd' = Fd /\ Node' = Node /\ \A q \in Node \ {n} : own'[q] = own[q]
  BY Same DEF IInv, Kept, Fd, fixed
<1>2. fd \in Fd \ (0..2) /\ fdt'[fd] # Closed /\ \A m \in Node, s \in Slots : own'[m][s] # fd
  BY <1>1 DEF Stray, Owner, Closed
<1> SUFFICES ASSUME fdt'[fd] # fdt[fd] \/ Owner(fd) PROVE FALSE
  BY <1>2 DEF Stray
<1>3. /\ CanOpen(1) => Free1 \in Free
      /\ CanOpen(2) => Free1 \in Free /\ Free2 \in Free /\ Free1 # Free2
      /\ CanOpen(3) => /\ Free1 \in Free /\ Free2 \in Free /\ Free3 \in Free
                       /\ Free1 # Free2 /\ Free1 # Free3 /\ Free2 # Free3
      /\ \A x \in Free : x \in Fd \ (0..2)
  BY <1>1, Given
<1>4. CASE UNCHANGED table
  BY <1>2, <1>4 DEF table, Owner
<1>5. ASSUME NEW S \in SUBSET Slots, Close(n, S) PROVE FALSE
  <2>1. fdt'[fd] = fdt[fd] /\ \A s \in S : own[n][s] # fd
    BY <1>2, <1>5 DEF Close
  <2>2. PICK m \in Node, s \in Slots : own[m][s] = fd
    BY <2>1 DEF Owner
  <2>3. own'[m][s] = fd
    BY <1>1, <1>5, <2>1, <2>2 DEF Close, TypeOK
  <2> QED BY <1>2, <2>3
<1>6. CASE StartPipe(n) \/ StartMapping(n) \/ StartRedirect(n) \/ StartFunction(n)
  <2>1. pc[n] = "start" /\ own[n] = NoSlots
    BY <1>1, <1>6 DEF StartPipe, StartMapping, StartRedirect, StartFunction, Fresh
  <2>2. fd # -1
    <3>1. limit \in Nat
      BY <1>1, CasesAssumption DEF TypeOK
    <3> QED BY <3>1 DEF Fd
  <2>3. ~Owner(fd)
    BY <1>1, <1>2, <2>1, <2>2 DEF Owner, NoSlots
  <2>4. \E s \in Slots : own'[n][s] = fd
    <3>1. CASE StartPipe(n) \/ StartMapping(n)
      <4>1. CanOpen(2) /\ fdt' = [fdt EXCEPT ![Free1] = PipeR(n), ![Free2] = PipeW(n)]
            /\ own' = [own EXCEPT ![n]["p0"] = Free1, ![n]["p1"] = Free2]
        BY <3>1 DEF StartPipe, StartMapping, OpenPipe
      <4>2. fd \in {Free1, Free2}
        BY <1>1, <2>3, <4>1 DEF TypeOK
      <4>3. "p0" \in Slots /\ "p1" \in Slots
        BY DEF Slots
      <4>4. own'[n]["p0"] = Free1 /\ own'[n]["p1"] = Free2
        BY <1>1, <4>1, <4>3 DEF TypeOK
      <4> QED BY <4>2, <4>3, <4>4
    <3>2. CASE StartRedirect(n)
      <4>1. fdt' = [fdt EXCEPT ![Free1] = OpenFile(n)] /\ own' = [own EXCEPT ![n]["fd"] = Free1]
        BY <3>2 DEF StartRedirect
      <4>2. fd = Free1
        BY <1>1, <2>3, <4>1 DEF TypeOK
      <4>3. "fd" \in Slots
        BY DEF Slots
      <4>4. own'[n]["fd"] = Free1
        BY <1>1, <4>1, <4>3 DEF TypeOK
      <4> QED BY <4>2, <4>3, <4>4
    <3>3. CASE StartFunction(n)
      <4> DEFINE dup == [in |-> Free1, out |-> Free2, err |-> Free3]
      <4>1. /\ \A x \in Fd : fdt'[x] # fdt[x] => \E k \in Streams : dup[k] = x
            /\ own' = [own EXCEPT ![n] = [s \in Slots |-> IF s \in Streams THEN dup[s] ELSE @[s]]]
        BY <3>3 DEF StartFunction
      <4> HIDE DEF dup
      <4>2. PICK k \in Streams : dup[k] = fd
        BY <2>3, <4>1
      <4>3. k \in Slots
        BY DEF Slots
      <4>4. own'[n][k] = dup[k]
        BY <1>1, <4>1, <4>3 DEF TypeOK
      <4> QED BY <4>2, <4>3, <4>4
    <3> QED BY <1>6, <3>1, <3>2, <3>3
  <2> QED BY <1>2, <2>4
<1> QED BY <1>4, <1>5, <1>6 DEF Deals, OnTable

(* So a step of a node keeps to it.                                        *)
LEMMA LeftStep ==
    ASSUME IInv, IInv', Local, Returned, Left, NEW n \in Node, Act(n), Turn(n), Deals(n), Kept(n)
    PROVE  Left'
<1>1. /\ TypeOK /\ Table /\ fixed' = fixed /\ Node' = Node /\ Fd' = Fd /\ DOMAIN pc = Node
      /\ host' \in {host, "killed"}
  BY Same DEF IInv, TypeOK, Turn, Only, Fd, fixed
<1>2. \A k \in Node : pc[k] \in Blown => pc'[k] \in Blown
  BY BlownStays
<1>3. zombies' = zombies \/ (zombies' = zombies \cup {n} /\ pc[n] = "start" /\ pc'[n] = "threw")
  BY Orphans
<1>4. zombies' \subseteq {k \in Node : pc'[k] \in Blown}
  BY <1>2, <1>3 DEF Left, Blown
<1>5. host' = "returned" => pc[n] # "start"
  BY <1>1 DEF Returned, Quiet, Dtor
<1>6. CASE ~ForkFails(n)
  <2>1. \A fd \in Fd : Stray(fd)' => Stray(fd) /\ fdt'[fd] = fdt[fd]
    BY <1>1, <1>6, Strays
  <2>2. ASSUME NEW fd \in Fd, NEW k \in Node, Stray(fd)', fdt'[fd] \in {PipeR(k), PipeW(k)}
        PROVE  pc'[k] \in Blown
    BY <1>2, <2>1, <2>2 DEF Left
  <2>3. ASSUME NEW a \in Fd, NEW b \in Fd, Stray(a)', Stray(b)', fdt'[a] = fdt'[b] PROVE a = b
    <3>1. Stray(a) /\ Stray(b) /\ fdt[a] = fdt[b]
      BY <2>1, <2>3
    <3> QED BY <3>1 DEF Left
  <2>4. host' = "returned" => zombies' = {} /\ \A fd \in Fd : ~Stray(fd)'
    BY <1>1, <1>3, <1>5, <2>1 DEF Left
  <2> QED BY <1>1, <1>4, <2>2, <2>3, <2>4 DEF Left, Blown, Dtor, PipeR, PipeW
<1>7. CASE ForkFails(n)
  <2>1. /\ CanOpen(2) /\ own' = own /\ fdt' = [fdt EXCEPT ![Free1] = PipeR(n), ![Free2] = PipeW(n)]
        /\ pc[n] = "start" /\ pc'[n] = "threw"
    BY <1>1, <1>7 DEF ForkFails, Goto
  <2>2. PICK r \in Fd \ (0..2), w \in Fd \ (0..2) : r = Free1 /\ w = Free2 /\ r # w
    BY <1>1, <2>1, Given
  <2>3. fdt'[r] = PipeR(n) /\ fdt'[w] = PipeW(n) /\ \A x \in Fd \ {r, w} : fdt'[x] = fdt[x]
    BY <1>1, <2>1, <2>2 DEF TypeOK
  <2>4. \A fd \in Fd \ {r, w} : Stray(fd)' => Stray(fd) /\ fdt'[fd] = fdt[fd]
    BY <1>1, <2>1, <2>3 DEF Stray, Owner, Closed
  <2>5. ASSUME NEW fd \in Fd \ {r, w}, Stray(fd)' PROVE fdt'[fd] \notin {PipeR(n), PipeW(n)}
    <3>1. Stray(fd) /\ fdt'[fd] = fdt[fd]
      BY <2>4, <2>5
    <3>2. pc[n] \notin Blown
      BY <2>1 DEF Blown, Dtor
    <3> QED BY <3>1, <3>2 DEF Left
  <2>6. ASSUME NEW fd \in Fd, NEW k \in Node, Stray(fd)', fdt'[fd] \in {PipeR(k), PipeW(k)}
        PROVE  pc'[k] \in Blown
    <3>1. CASE fd \in {r, w}
      <4>1. k = n
        BY <2>3, <2>6, <3>1 DEF PipeR, PipeW
      <4> QED BY <2>1, <4>1 DEF Blown
    <3>2. CASE fd \notin {r, w}
      <4>1. Stray(fd) /\ fdt[fd] \in {PipeR(k), PipeW(k)}
        BY <2>4, <2>6, <3>2
      <4> QED BY <1>2, <4>1 DEF Left
    <3> QED BY <3>1, <3>2
  <2>7. ASSUME NEW a \in Fd, NEW b \in Fd, Stray(a)', Stray(b)', fdt'[a] = fdt'[b] PROVE a = b
    <3>1. PipeR(n) # PipeW(n)
      BY DEF PipeR, PipeW
    <3>2. CASE a \in {r, w} \/ b \in {r, w}
      BY <2>3, <2>5, <2>7, <3>1, <3>2
    <3>3. CASE a \notin {r, w} /\ b \notin {r, w}
      <4>1. Stray(a) /\ Stray(b) /\ fdt[a] = fdt[b]
        BY <2>4, <2>7, <3>3
      <4> QED BY <4>1 DEF Left
    <3> QED BY <3>2, <3>3
  <2>8. host' # "returned"
    BY <1>5, <2>1
  <2> QED BY <1>1, <1>4, <2>6, <2>7, <2>8 DEF Left, Blown, Dtor, PipeR, PipeW
<1> QED BY <1>6, <1>7

(* When run() returns no start has thrown: all that has begun is done.     *)
LEMMA LeftNone ==
    ASSUME Sound, Left, RunReturns
    PROVE  zombies = {} /\ \A fd \in Fd : ~Stray(fd)
<1>1. TypeOK /\ Table /\ Ready /\ Local /\ pc[Root] = "done" /\ Root \in Node
  BY Tree DEF Sound, IInv, Ready, RunReturns
<1>2. \A n \in Node : pc[n] \notin Blown
  BY <1>1, Rests, Whole DEF Blown, Dtor
<1>3. zombies = {}
  BY <1>2 DEF Left
<1>4. ASSUME NEW fd \in Fd, Stray(fd) PROVE FALSE
  <2>1. FailPipe(fdt[fd])
    BY <1>1, <1>4 DEF Stray, Table
  <2>2. PICK n \in Node : fdt[fd] \in {PipeR(n), PipeW(n)}
    BY <2>1 DEF FailPipe
  <2> QED BY <1>2, <1>4, <2>2 DEF Left
<1> QED BY <1>3, <1>4

(* Together they are an invariant.                                         *)
LEMMA NextLeft == Sound /\ Left /\ [Next]_vars => Left'
<1> SUFFICES ASSUME Sound, Left, [Next]_vars PROVE Left'
  OBVIOUS
<1>1. Sound' /\ IInv /\ IInv' /\ TypeOK /\ Local /\ Wrapped /\ Returned /\ DOMAIN pc = Node
  BY NextSound DEF Sound, IInv, TypeOK
<1>2. ASSUME NEW n \in Node, Act(n) PROVE Left'
  <2>1. Turn(n)
    BY <1>1, <1>2, Acting
  <2>2. Deals(n)
    BY <1>1, <1>2, Dealing
  <2>3. Kept(n)
    BY <1>1, <1>2, StartKeeps, TaskKeeps, FinishKeeps DEF Act
  <2> QED BY <1>1, <1>2, <2>1, <2>2, <2>3, LeftStep
<1>3. CASE RunFinishes \/ Drop \/ RunReturns \/ RunThrows \/ UNCHANGED vars
  <2>1. /\ fixed' = fixed /\ fdt' = fdt /\ own' = own /\ zombies' = zombies
        /\ tree' = tree /\ limit' = limit /\ Node' = Node /\ Fd' = Fd
    BY <1>3 DEF RunFinishes, Drop, RunReturns, RunThrows, vars, rest, fixed, programs, table, Node, Fd
  <2>2. \A k \in Node : pc[k] \in Blown => pc'[k] \in Blown
    <3>1. CASE RunFinishes
      BY <1>1, <3>1 DEF RunFinishes, Goto, Blown, Dtor
    <3>2. CASE Drop
      BY <1>1, <3>2 DEF Drop, Goto, Blown, Dtor
    <3>3. CASE RunReturns \/ RunThrows \/ UNCHANGED vars
      BY <3>3 DEF RunReturns, RunThrows, vars
    <3> QED BY <1>3, <3>1, <3>2, <3>3
  <2>3. \A fd \in Fd : Stray(fd)' <=> Stray(fd)
    BY <2>1 DEF Stray, Owner, Closed
  <2>4. host' = "returned" => host = "returned" \/ RunReturns
    BY <1>3 DEF RunFinishes, Drop, RunThrows, vars, rest
  <2>5. host' = "returned" => zombies = {} /\ \A fd \in Fd : ~Stray(fd)
    BY <2>4, LeftNone DEF Left
  <2>6. zombies' \subseteq {k \in Node : pc'[k] \in Blown}
    BY <2>1, <2>2 DEF Left
  <2>7. \A fd \in Fd, k \in Node : Stray(fd)' /\ fdt'[fd] \in {PipeR(k), PipeW(k)} => pc'[k] \in Blown
    BY <2>1, <2>2, <2>3 DEF Left
  <2>8. \A a, b \in Fd : Stray(a)' /\ Stray(b)' /\ fdt'[a] = fdt'[b] => a = b
    BY <2>1, <2>3 DEF Left
  <2> QED BY <2>1, <2>3, <2>5, <2>6, <2>7, <2>8 DEF Left, Blown, Dtor, PipeR, PipeW
<1> QED BY <1>2, <1>3 DEF Next, Terminated, Act

(* The host starts with nothing of the kind.                               *)
LEMMA InitLeft == Init => Left
<1> SUFFICES ASSUME Init PROVE Left
  OBVIOUS
<1>1. \A fd \in Fd : ~Stray(fd)
  BY DEF Init, Stray, Inherited
<1> QED BY <1>1 DEF Init, Left

(* The three that the host came with are where they were.                  *)
LEMMA Standard ==
    ASSUME TypeOK, Table
    PROVE  /\ \A fd \in 0..2 : fd \in Fd /\ fdt[fd] = Inherited[fd] /\ fdt[fd][1] = 0
           /\ \A fd \in Fd \ (0..2) : Inherited[fd] = Closed
<1>1. limit \in Nat /\ limit >= 3
  BY CasesAssumption DEF TypeOK
<1>2. ASSUME NEW fd \in 0..2 PROVE fd \in Fd /\ fdt[fd] = Inherited[fd] /\ fdt[fd][1] = 0
  <2>1. \E k \in Streams : StdFd[k] = fd
    <3>1. fd = 0 \/ fd = 1 \/ fd = 2
      BY <1>2
    <3>2. Streams = {"in", "out", "err"} /\ StdFd["in"] = 0 /\ StdFd["out"] = 1 /\ StdFd["err"] = 2
      BY DEF Streams, StdFd
    <3> QED BY <3>1, <3>2
  <2> DEFINE j == CHOOSE k \in Streams : StdFd[k] = fd
  <2>2. j \in Streams /\ StdFd[j] = fd
    BY <2>1
  <2>3. fd \in Fd
    BY <1>1 DEF Fd
  <2>4. Inherited[fd] = Tty(j)
    BY <2>3 DEF Inherited
  <2> HIDE DEF j
  <2>5. fdt[fd] = Tty(j)
    BY <2>2 DEF Table
  <2> QED BY <2>3, <2>4, <2>5 DEF Tty
<1> QED BY <1>2 DEF Inherited

(* When run() has returned, or all is destroyed, every wrapper is gone.    *)
LEMMA NoneOwned ==
    ASSUME Sound, host = "returned" \/ pc[Root] = "gone"
    PROVE  \A n \in Node : Joined(n) /\ own[n] = NoSlots
<1>1. TypeOK /\ Ready /\ Local /\ Wrapped
  BY DEF Sound, IInv, Ready
<1>2. CASE host = "returned"
  BY <1>2 DEF Sound, Returned
<1>3. CASE pc[Root] = "gone"
  <2> DEFINE S == {n \in Node : pc[n] = "gone"}
  <2>1. S \in SUBSET Node /\ Root \in S /\ Root \in Node
    BY <1>1, <1>3, Tree
  <2>2. \A k \in S : {L(k), R(k)} \cap Node \subseteq S
    BY <1>1, Tree DEF Local, Stands, Gone
  <2>3. Under(Root) \subseteq S
    <3> HIDE DEF S
    <3> QED BY <2>1, <2>2, ByOperands
  <2>4. \A n \in Node : pc[n] = "gone"
    BY <1>1, <2>3, Whole
  <2>5. ASSUME NEW n \in Node PROVE Joined(n) /\ own[n] = NoSlots
    <3>1. Joined(n) /\ Holds(n) /\ Fresh(n) /\ pc[n] = "gone"
      BY <1>1, <2>4 DEF Local, Stands, Gone, Wrapped, Ready
    <3> QED BY <1>1, <3>1, NoneHeld
  <2> QED BY <2>5
<1> QED BY <1>2, <1>3

(* What is open then, but for the first three, is the pipe of a failed fork.*)
LEMMA LeftClean == Sound /\ Left => NothingLeft
<1> SUFFICES ASSUME Sound, Left, host = "returned" \/ pc[Root] = "gone" PROVE NothingLeft
  BY DEF NothingLeft
<1>1. TypeOK /\ Table /\ IsTable
  BY DEF Sound, IInv, Wrapped
<1>2. \A n \in Node : Joined(n) /\ own[n] = NoSlots
  BY NoneOwned
<1>3. limit \in Nat
  BY <1>1, CasesAssumption DEF TypeOK
<1>4. ASSUME NEW fd \in Fd, fdt[fd] # Inherited[fd]
      PROVE  Stray(fd) /\ FailPipe(fdt[fd])
  <2>1. fd \in Fd \ (0..2) /\ fdt[fd] # Closed
    BY <1>1, <1>4, Standard
  <2>2. ~Owner(fd)
    BY <1>2, <1>3, <2>1 DEF Owner, NoSlots, Fd
  <2> QED BY <1>1, <2>1, <2>2 DEF Stray, Table
<1>5. ASSUME NEW fd \in Fd, fdt[fd] # Inherited[fd], NEW x \in Fd \ {fd} PROVE fdt[x] # fdt[fd]
  <2>1. Stray(fd) /\ FailPipe(fdt[fd])
    BY <1>4, <1>5
  <2>2. fdt[fd][1] \in Node /\ 0 \notin Node /\ fdt[fd] # Closed
    BY <1>1, <2>1, Tree DEF FailPipe, PipeR, PipeW, Stray
  <2>3. CASE fdt[x] = Inherited[x]
    <3>1. fdt[x][1] = 0 \/ fdt[x] = Closed
      BY <1>1, <2>3, Standard
    <3> QED BY <2>2, <3>1
  <2>4. CASE fdt[x] # Inherited[x]
    <3>1. Stray(x)
      BY <1>4, <2>4
    <3> QED BY <2>1, <3>1 DEF Left
  <2> QED BY <2>3, <2>4
<1>6. host = "returned" => fdt = Inherited /\ zombies = {}
  <2> SUFFICES ASSUME host = "returned" PROVE fdt = Inherited /\ zombies = {}
    OBVIOUS
  <2>1. zombies = {} /\ \A fd \in Fd : fdt[fd] = Inherited[fd]
    BY <1>4 DEF Left
  <2>2. Inherited = [fd \in Fd |-> Inherited[fd]]
    BY DEF Inherited
  <2> QED BY <1>1, <2>1, <2>2 DEF IsTable
<1> QED BY <1>2, <1>4, <1>5, <1>6 DEF NothingLeft

(* After run() has returned nothing is left: no descriptor that was not    *)
(* open before, no child that is not waited for, no thread.  When it has   *)
(* thrown and the expression has been destroyed, all tasks have ended and  *)
(* all descriptors are closed, but for the two ends of the fail_pipe of a  *)
(* fork that failed, each of them once.                                    *)
THEOREM Clean == Spec => []NothingLeft
<1>1. Sound /\ Left /\ [Next]_vars => Sound' /\ Left'
  BY NextSound, NextLeft
<1> QED BY InitSound, InitLeft, <1>1, LeftClean, PTL DEF Spec
=============================================================================
