----------------------------- MODULE Glob_proofs ------------------------------
(***************************************************************************)
(* The search handles of the walk of Glob.tla: each is given back once,    *)
(* whatever the patterns are and whatever another process does.            *)
(***************************************************************************)
EXTENDS Glob, FiniteSetTheorems, TLAPS

(* A stream, as its operations leave it: None is no name that it hands out. *)
IsStream(s) ==
    /\ s = [node |-> s.node, cached |-> s.cached, data |-> s.data, left |-> s.left, handle |-> s.handle]
    /\ s.cached \in BOOLEAN /\ s.handle \in BOOLEAN
    /\ None \notin s.left
    /\ s.cached => s.data # None

(* The types: what the walk needs of them.                                 *)
TypeOK ==
    /\ pc \in {"glob", "look", "read", "end"}
    /\ disk \subseteq Nodes \cup Volatile
    /\ Len(stack) \in Nat /\ stack = [i \in 1..Len(stack) |-> stack[i]]
    /\ \A i \in 1..Len(stack) :
          /\ stack[i] = [path |-> stack[i].path, segment |-> stack[i].segment, rest |-> stack[i].rest,
                         dir |-> stack[i].dir]
          /\ IsStream(stack[i].dir)

(* The directories whose handle is still open.                             *)
Open(s) == {i \in 1..Len(s) : s[i].dir.handle}

(* The inductive invariant: no directory is open outside glob().           *)
IInv ==
    /\ TypeOK
    /\ pc \in {"glob", "end"} => stack = << >>
    /\ handles = Cardinality(Open(stack))

(* What is in a directory has a name.                                      *)
LEMMA Named == TypeOK => \A d : None \notin Names(disk, d)
BY NameAssumption, NodeAssumption DEF TypeOK, Names

(* The set of the open directories is finite.                              *)
LEMMA OpenFinite ==
    ASSUME NEW s, Len(s) \in Nat
    PROVE  IsFiniteSet(Open(s)) /\ Cardinality(Open(s)) \in Nat
<1>1. IsFiniteSet(1..Len(s)) BY FS_Interval
<1>2. Open(s) \subseteq 1..Len(s) BY DEF Open
<1> QED BY <1>1, <1>2, FS_Subset, FS_CardinalityType

(* The initial states satisfy the invariant.                               *)
LEMMA InitInv == Init => IInv
<1> SUFFICES ASSUME Init PROVE IInv OBVIOUS
<1>1. TypeOK BY DEF Init, TypeOK
<1>2. Open(stack) = {} BY DEF Init, Open
<1>3. Cardinality({}) = 0 BY FS_EmptySet
<1> QED BY <1>1, <1>2, <1>3 DEF Init, IInv

(* A step that leaves the directories and the disk alone.                  *)
LEMMA AloneInv ==
    ASSUME IInv, UNCHANGED <<disk, stack, handles>>,
           pc' \in {"glob", "look", "read", "end"}, pc' \in {"glob", "end"} => stack = << >>
    PROVE  IInv'
BY DEF IInv, TypeOK, Open

(* A step that opens a directory.                                          *)
LEMMA DirInv == IInv /\ LookDir => IInv'
<1> SUFFICES ASSUME IInv, LookDir PROVE IInv' OBVIOUS
<1> DEFINE d == Descend(at)
           node == Resolve(disk, d.path)
<1>1. CASE UNCHANGED <<stack, handles>>
  BY <1>1, AloneInv DEF LookDir
<1>2. CASE ~UNCHANGED <<stack, handles>>
  <2>1. PICK first \in Names(disk, node) :
          /\ stack' = Append(stack, [path |-> d.path, segment |-> d.segment, rest |-> d.rest,
                                     dir |-> dirent_first(disk, node, first)])
          /\ handles' = handles + 1
    BY <1>2 DEF LookDir
  <2>2. PICK left : left = Names(disk, node) \ {first} OBVIOUS
  <2>3. None \notin left /\ first # None BY <2>2, Named DEF IInv
  <2>4. PICK f : f = [path |-> d.path, segment |-> d.segment, rest |-> d.rest,
                      dir |-> dirent_first(disk, node, first)]
    OBVIOUS
  <2>5. /\ f = [path |-> f.path, segment |-> f.segment, rest |-> f.rest, dir |-> f.dir]
        /\ f.dir = dirent_first(disk, node, first)
    BY <2>4
  <2>6. IsStream(f.dir) /\ f.dir.handle
    BY <2>5, <2>3, <2>2 DEF IsStream, dirent_first
  <2>7. PICK n : n = Len(stack) OBVIOUS
  <2>8. n \in Nat /\ stack = [i \in 1..n |-> stack[i]] BY <2>7 DEF IInv, TypeOK
  <2>9. /\ Len(stack') = n + 1 /\ stack' = [i \in 1..(n + 1) |-> stack'[i]]
        /\ stack'[n + 1] = f /\ \A i \in 1..n : stack'[i] = stack[i]
    BY <2>1, <2>4, <2>7, <2>8
  <2>10. pc' = "read" /\ disk' = disk BY DEF LookDir
  <2>11. \A i \in 1..(n + 1) : i \in 1..n \/ i = n + 1 BY <2>8
  <2>12. TypeOK'
    <3>1. \A i \in 1..n : /\ stack[i] = [path |-> stack[i].path, segment |-> stack[i].segment,
                                       rest |-> stack[i].rest, dir |-> stack[i].dir]
                          /\ IsStream(stack[i].dir)
      BY <2>7 DEF IInv, TypeOK
    <3>2. \A i \in 1..(n + 1) : /\ stack'[i] = [path |-> stack'[i].path, segment |-> stack'[i].segment,
                                             rest |-> stack'[i].rest, dir |-> stack'[i].dir]
                                /\ IsStream(stack'[i].dir)
      BY <3>1, <2>5, <2>6, <2>9, <2>11
    <3>3. n + 1 \in Nat /\ disk' \subseteq Nodes \cup Volatile BY <2>8, <2>10 DEF IInv, TypeOK
    <3> QED BY <3>2, <3>3, <2>9, <2>10 DEF TypeOK
  <2>13. Open(stack)' = Open(stack) \cup {n + 1} /\ n + 1 \notin Open(stack)
    <3>1. n + 1 \notin 1..n /\ n + 1 \in 1..(n + 1) /\ \A i \in 1..n : i \in 1..(n + 1) BY ONLY <2>8
    <3>2. Open(stack) = {i \in 1..n : stack[i].dir.handle} BY <2>7 DEF Open
    <3>3. Open(stack)' = {i \in 1..(n + 1) : stack'[i].dir.handle} BY <2>9 DEF Open
    <3> QED BY <3>1, <3>2, <3>3, <2>6, <2>9, <2>11
  <2>14. IsFiniteSet(Open(stack)) BY <2>7, <2>8, OpenFinite
  <2>15. Cardinality(Open(stack) \cup {n + 1}) = Cardinality(Open(stack)) + 1
    BY <2>13, <2>14, FS_AddElement
  <2> QED BY <2>1, <2>10, <2>12, <2>13, <2>15 DEF IInv
<1> QED BY <1>1, <1>2

(* A step that reads an entry.                                             *)
LEMMA ReadInv == IInv /\ Read => IInv'
<1> SUFFICES ASSUME IInv, Read PROVE IInv' OBVIOUS
<1>1. PICK n : n = Len(stack) OBVIOUS
<1>2. n \in Nat /\ stack = [i \in 1..n |-> stack[i]] /\ stack # << >> BY <1>1 DEF IInv, TypeOK, Read
<1>3. n \in 1..n BY <1>1, <1>2
<1>4. PICK s : s = stack[n].dir OBVIOUS
<1>5. PICK next \in Nexts(s) \ {None} : stack' = [stack EXCEPT ![n].dir = dirent_next(s, next)]
  BY <1>1, <1>3, <1>4, <1>2 DEF Read, Last
<1>6. IsStream(s) BY <1>1, <1>3, <1>4 DEF IInv, TypeOK
<1>7. IsStream(dirent_next(s, next)) /\ dirent_next(s, next).handle = s.handle
  <2>1. next # None BY <1>5
  <2>2. PICK h \in BOOLEAN : h = (s.handle /\ next # None) OBVIOUS
  <2>3. h = s.handle BY <2>1, <2>2, <1>6 DEF IsStream
  <2>4. PICK left : left = s.left \ {next} OBVIOUS
  <2>5. PICK t : t = [s EXCEPT !.cached = FALSE, !.data = next, !.left = left, !.handle = h] OBVIOUS
  <2>6. t = [node |-> s.node, cached |-> FALSE, data |-> next, left |-> left, handle |-> h]
    BY <2>5, <1>6 DEF IsStream
  <2>7. t = dirent_next(s, next) BY <2>2, <2>4, <2>5 DEF dirent_next
  <2>8. None \notin left BY <2>4, <1>6 DEF IsStream
  <2>9. t.handle = h /\ IsStream(t) BY <2>6, <2>8 DEF IsStream
  <2> QED BY <2>3, <2>7, <2>9
<1>8. PICK t : t = dirent_next(s, next) OBVIOUS
<1>9. stack[n] = [path |-> stack[n].path, segment |-> stack[n].segment, rest |-> stack[n].rest,
                  dir |-> stack[n].dir]
  BY <1>1, <1>3 DEF IInv, TypeOK
<1>10. /\ Len(stack') = n /\ stack' = [i \in 1..n |-> stack'[i]]
       /\ \A i \in 1..n : i # n => stack'[i] = stack[i]
       /\ stack'[n] = [path |-> stack[n].path, segment |-> stack[n].segment, rest |-> stack[n].rest,
                       dir |-> t]
  <2>1. PICK g : g = [stack[n] EXCEPT !.dir = t] OBVIOUS
  <2>2. g = [path |-> stack[n].path, segment |-> stack[n].segment, rest |-> stack[n].rest, dir |-> t]
    BY <2>1, <1>9
  <2>3. stack' = [stack EXCEPT ![n] = g] BY <1>5, <1>8, <2>1
  <2>4. stack' = [i \in 1..n |-> IF i = n THEN g ELSE stack[i]] BY <2>3, <1>2
  <2>5. Len(stack') = n /\ stack' = [i \in 1..n |-> stack'[i]] BY <2>4, <1>2
  <2> QED BY <2>2, <2>4, <2>5, <1>3
<1>11. stack'[n].dir = t BY <1>10
<1>12. pc' \in {"look", "read"} /\ disk' = disk /\ handles' = handles BY DEF Read
<1>13. TypeOK' BY <1>1, <1>2, <1>7, <1>8, <1>10, <1>11, <1>12 DEF IInv, TypeOK
<1>14. Open(stack)' = Open(stack) BY <1>1, <1>4, <1>7, <1>8, <1>10, <1>11 DEF Open
<1> QED BY <1>12, <1>13, <1>14 DEF IInv

(* A step that comes to the end of a directory: either its handle is       *)
(* closed there, or it was not open any more.                              *)
LEMMA EndInv == IInv /\ ReadEnd => IInv'
<1> SUFFICES ASSUME IInv, ReadEnd PROVE IInv' OBVIOUS
<1>1. PICK n : n = Len(stack) OBVIOUS
<1>2. n \in Nat /\ stack = [i \in 1..n |-> stack[i]] /\ stack # << >> BY <1>1 DEF IInv, TypeOK, ReadEnd
<1>3. n \in 1..n BY <1>1, <1>2
<1>4. PICK s : s = stack[n].dir OBVIOUS
<1>5. /\ Nexts(s) = {None}
      /\ handles' = handles - ClosedByNext(s, None) - ClosedByClosedir(dirent_next(s, None))
  BY <1>1, <1>4 DEF ReadEnd, Last
<1>6. IsStream(s) BY <1>1, <1>3, <1>4 DEF IInv, TypeOK
<1>7. ~s.cached BY <1>5, <1>6 DEF Nexts, IsStream
<1>8. s.handle => s.left = {} BY <1>5, <1>6, <1>7 DEF Nexts, IsStream
<1>9. ~dirent_next(s, None).handle BY <1>6 DEF IsStream, dirent_next
<1>10. ClosedByClosedir(dirent_next(s, None)) = 0 BY <1>9 DEF ClosedByClosedir
<1>11. ClosedByNext(s, None) = IF s.handle THEN 1 ELSE 0 BY <1>7 DEF ClosedByNext
<1>12. handles \in Nat BY <1>1, <1>2, OpenFinite DEF IInv
<1>13. handles' = handles - (IF s.handle THEN 1 ELSE 0) BY <1>5, <1>10, <1>11, <1>12
<1>14. stack' = [i \in 1..(n - 1) |-> stack[i]]
  BY <1>1, <1>2, <1>3 DEF ReadEnd, Front
<1>15. n - 1 \in Nat BY <1>3
<1>16. Len(stack') = n - 1 /\ stack' = [i \in 1..(n - 1) |-> stack'[i]]
  BY <1>14, <1>15
<1>17. \A i \in 1..(n - 1) : stack'[i] = stack[i] /\ i \in 1..n
  <2>1. \A i \in 1..(n - 1) : i \in 1..n BY ONLY <1>15, <1>2
  <2> QED BY <1>14, <2>1
<1>18. pc' = "read" /\ disk' = disk BY DEF ReadEnd
<1>19. TypeOK' BY <1>1, <1>15, <1>16, <1>17, <1>18 DEF IInv, TypeOK
<1>20. IsFiniteSet(Open(stack)) BY <1>1, <1>2, OpenFinite
<1>21. Cardinality(Open(stack)') = handles'
  <2>1. \A i \in 1..n : i # n => i \in 1..(n - 1) BY <1>3
  <2>2. Open(stack)' = Open(stack) \ {n} BY <1>1, <1>15, <1>16, <1>17, <2>1 DEF Open
  <2>3. n \in Open(stack) <=> s.handle BY <1>1, <1>3, <1>4 DEF Open
  <2>4. CASE s.handle
    <3>1. Cardinality(Open(stack) \ {n}) = Cardinality(Open(stack)) - 1
      BY <1>20, <2>3, <2>4, FS_RemoveElement
    <3> QED BY <3>1, <2>2, <2>4, <1>13 DEF IInv
  <2>5. CASE ~s.handle
    <3>1. Open(stack) \ {n} = Open(stack) BY <2>3, <2>5
    <3>2. handles' = handles BY <1>12, <1>13, <2>5
    <3>3. handles = Cardinality(Open(stack)) BY DEF IInv
    <3> QED BY <3>1, <3>2, <3>3, <2>2
  <2> QED BY <2>4, <2>5
<1> QED BY <1>18, <1>19, <1>21 DEF IInv

(* What another process does reaches the names that a stream has left.     *)
LEMMA ChangeInv == IInv /\ Change => IInv'
<1> SUFFICES ASSUME IInv, Change PROVE IInv' OBVIOUS
<1>1. PICK n : n = Len(stack) OBVIOUS
<1>2. n \in Nat /\ stack = [i \in 1..n |-> stack[i]] BY <1>1 DEF IInv, TypeOK
<1>3. PICK v \in Volatile :
        /\ disk' = IF v \in disk THEN disk \ {v} ELSE disk \cup {v}
        /\ \E told \in SUBSET {i \in DOMAIN stack : stack[i].dir.node = Front(v) /\ stack[i].dir.handle} :
              stack' = [i \in DOMAIN stack |->
                          IF i \notin told THEN stack[i]
                          ELSE [stack[i] EXCEPT !.dir.left = IF v \in disk THEN @ \ {Last(v)}
                                                             ELSE @ \cup {Last(v)}]]
  BY DEF Change
<1>4. PICK told :
        stack' = [i \in 1..n |->
                    IF i \notin told THEN stack[i]
                    ELSE [stack[i] EXCEPT !.dir.left = IF v \in disk THEN @ \ {Last(v)}
                                                       ELSE @ \cup {Last(v)}]]
  BY <1>2, <1>3
<1>5. Last(v) # None BY NameAssumption
<1>6. \A i \in 1..n :
        /\ stack'[i] = [path |-> stack'[i].path, segment |-> stack'[i].segment, rest |-> stack'[i].rest,
                        dir |-> stack'[i].dir]
        /\ IsStream(stack'[i].dir)
        /\ stack'[i].dir.handle = stack[i].dir.handle
  <2> SUFFICES ASSUME NEW i \in 1..n
               PROVE  /\ stack'[i] = [path |-> stack'[i].path, segment |-> stack'[i].segment,
                                      rest |-> stack'[i].rest, dir |-> stack'[i].dir]
                      /\ IsStream(stack'[i].dir)
                      /\ stack'[i].dir.handle = stack[i].dir.handle
    OBVIOUS
  <2>1. /\ stack[i] = [path |-> stack[i].path, segment |-> stack[i].segment, rest |-> stack[i].rest,
                       dir |-> stack[i].dir]
        /\ IsStream(stack[i].dir)
    BY <1>1 DEF IInv, TypeOK
  <2>2. CASE i \notin told BY <1>4, <2>1, <2>2
  <2>3. CASE i \in told
    <3>1. PICK left : left = IF v \in disk THEN stack[i].dir.left \ {Last(v)}
                             ELSE stack[i].dir.left \cup {Last(v)}
      OBVIOUS
    <3>2. None \notin left BY <3>1, <2>1, <1>5 DEF IsStream
    <3>3. PICK s : s = stack[i].dir OBVIOUS
    <3>4. PICK t : t = [s EXCEPT !.left = left] OBVIOUS
    <3>5. t = [node |-> s.node, cached |-> s.cached, data |-> s.data, left |-> left, handle |-> s.handle]
      BY <3>3, <3>4, <2>1 DEF IsStream
    <3>6. IsStream(t) /\ t.handle = s.handle BY <2>1, <3>2, <3>3, <3>5 DEF IsStream
    <3>7. stack'[i] = [stack[i] EXCEPT !.dir = t] BY <1>4, <2>3, <3>1, <3>3, <3>4, <2>1
    <3>8. stack'[i] = [path |-> stack[i].path, segment |-> stack[i].segment, rest |-> stack[i].rest,
                       dir |-> t]
      BY <3>7, <2>1
    <3> QED BY <3>3, <3>6, <3>8
  <2> QED BY <2>2, <2>3
<1>7. Len(stack') = n /\ stack' = [i \in 1..n |-> stack'[i]] BY <1>2, <1>4
<1>8. pc' = pc /\ pc \in {"look", "read"} /\ handles' = handles BY DEF Change
<1>9. disk' \subseteq Nodes \cup Volatile BY <1>3 DEF IInv, TypeOK
<1>10. TypeOK' BY <1>2, <1>6, <1>7, <1>8, <1>9 DEF TypeOK
<1>11. Open(stack)' = Open(stack) BY <1>1, <1>6, <1>7 DEF Open
<1> QED BY <1>8, <1>10, <1>11 DEF IInv

(* Every step keeps the invariant.                                         *)
LEMMA NextInv == IInv /\ [Next]_vars => IInv'
<1> SUFFICES ASSUME IInv, [Next]_vars PROVE IInv' OBVIOUS
<1>1. CASE Begin BY <1>1, AloneInv DEF Begin, IInv
<1>2. CASE LookLeaf BY <1>2, AloneInv DEF LookLeaf
<1>3. CASE Finish BY <1>3, AloneInv DEF Finish
<1>4. CASE Done BY <1>4, AloneInv DEF Done, vars, IInv, TypeOK
<1>5. CASE UNCHANGED vars BY <1>5, AloneInv DEF vars, IInv, TypeOK
<1> QED BY <1>1, <1>2, <1>3, <1>4, <1>5, DirInv, ReadInv, EndInv, ChangeInv DEF Next

(* The invariant holds in every reachable state.                           *)
THEOREM Inductive == Spec => []IInv
BY InitInv, NextInv, PTL DEF Spec

(* Expanding patterns, glob() gives each search handle back to the system  *)
(* once: as many are open as there are directories whose end has not been  *)
(* seen, and none when it is over (dirent.h:545-679, glob.cpp:642-689).    *)
THEOREM AllClosed == Spec => []HandlesClosed
<1>1. IInv => HandlesClosed
  <2> SUFFICES ASSUME IInv PROVE HandlesClosed OBVIOUS
  <2>1. DOMAIN stack = 1..Len(stack) BY DEF IInv, TypeOK
  <2>2. Open(stack) = {i \in DOMAIN stack : stack[i].dir.handle} BY <2>1 DEF Open
  <2>3. pc \in {"glob", "end"} => Open(stack) = {} BY DEF IInv, Open
  <2>4. Cardinality({}) = 0 BY FS_EmptySet
  <2> QED BY <2>2, <2>3, <2>4 DEF IInv, HandlesClosed
<1> QED BY <1>1, Inductive, PTL
=============================================================================
