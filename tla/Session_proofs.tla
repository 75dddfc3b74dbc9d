--------------------------- MODULE Session_proofs ---------------------------
(***************************************************************************)
(* Proofs about Session.tla, for every tree of directories, environment    *)
(* and script.                                                             *)
(***************************************************************************)
EXTENDS Session, SequenceTheorems, WellFoundedInduction, TLAPS

IsEnv(e) == e = [n \in Names |-> e[n]]

TypeOK ==
    /\ c \in Cases /\ IsEnv(env)
    /\ src.st \in {"none", "script", "apply"}
    /\ src = [st |-> src.st, todo |-> src.todo, exit |-> src.exit, quits |-> src.quits,
              stopped |-> src.stopped, before |-> src.before, left |-> src.left]
    /\ IsEnv(src.before) /\ IsEnv(src.left) /\ src.stopped \in BOOLEAN
    /\ src.todo \subseteq {n \in Names : src.left[n] # Unset}
    /\ src.todo # {} => src.st = "apply" /\ ~src.stopped
    /\ synced \in BOOLEAN /\ alone \in BOOLEAN

(* While bindpwd is under way PWD is not the directory's name, and what it *)
(* has read is the name of the directory, which nothing else changes.      *)
Binding ==
    /\ pc # "idle" => ~synced
    /\ pc \in {"old", "new"} => tcwd = PathOf[cwd]

(* Nothing is applied before the script is over; then each variable has    *)
(* what the script has left, or what it had as long as that is to be set,  *)
(* and when the task has stopped one of the two.                           *)
Applied ==
    src.st # "none" /\ alone =>
        /\ src.st = "script" => env = src.before
        /\ src.st = "apply" /\ src.stopped => \A n \in Names : env[n] \in {src.before[n], Exported[n]}
        /\ src.st = "apply" /\ ~src.stopped =>
              IF Prints THEN \A n \in Names : env[n] = IF n \in src.todo THEN src.before[n] ELSE Exported[n]
              ELSE env = src.before /\ src.todo = {}

IInv == TypeOK /\ Binding /\ PwdTracks /\ Applied

-----------------------------------------------------------------------------
(* What holds before anything has been done.                               *)
LEMMA InitInv == Init => IInv
<1> SUFFICES ASSUME Init PROVE IInv
  OBVIOUS
<1>1. TypeOK
  <2>1. c \in Cases /\ IsEnv(env)
    BY CasesAssumption DEF Init, IsEnv
  <2>2. IsEnv(NoVariables)
    BY DEF IsEnv, NoVariables
  <2> QED BY <2>1, <2>2 DEF Init, TypeOK, NoScript
<1>2. Binding /\ PwdTracks /\ Applied
  BY DEF Init, Binding, PwdTracks, Applied, NoScript
<1> QED BY <1>1, <1>2 DEF IInv

(* What a step does to the environment and to what is known of it: of the  *)
(* variables only those that the script applies or the program sets, and   *)
(* nothing at all of a script that only goes on.                           *)
Kept ==
    /\ IsEnv(env') /\ src' = src /\ c' = c
    /\ synced' \in BOOLEAN /\ alone' \in BOOLEAN
    /\ alone' => alone /\ env' = env

(* A step after which the script and its variables are as they were keeps  *)
(* what is known of them.                                                  *)
LEMMA KeptInv ==
    ASSUME IInv, Kept
    PROVE  TypeOK' /\ Applied'
<1> USE DEF IInv, Kept
<1>1. TypeOK'
  BY DEF TypeOK, IsEnv
<1>2. Applied'
  BY DEF Applied, Exported, Prints
<1> QED BY <1>1, <1>2

(* cd does not touch the environment before it has changed the directory.  *)
LEMMA CdInv ==
    ASSUME IInv, NEW dir, NEW logical, CdMoves(dir, logical) \/ CdFails(dir, logical)
    PROVE  IInv'
<1>1. CASE CdMoves(dir, logical)
  <2>1. Kept
    BY <1>1 DEF CdMoves, Kept, IInv, TypeOK, IsEnv
  <2>2. pc' = "cwd" /\ synced' = FALSE
    BY <1>1 DEF CdMoves
  <2>3. Binding' /\ PwdTracks'
    BY <2>2 DEF Binding, PwdTracks
  <2> QED BY <2>1, <2>3, KeptInv DEF IInv
<1>2. CASE CdFails(dir, logical)
  <2>1. Kept
    BY <1>2 DEF CdFails, Kept, IInv, TypeOK, IsEnv, history
  <2>2. Binding' /\ PwdTracks'
    BY <1>2 DEF CdFails, IInv, Binding, PwdTracks, history
  <2> QED BY <2>1, <2>2, KeptInv DEF IInv
<1> QED BY <1>1, <1>2

(* bindpwd, step by step: nothing changes the directory meanwhile.         *)
LEMMA BindInv ==
    ASSUME IInv, BindCwd \/ BindOld \/ BindNew \/ BindFails
    PROVE  IInv'
<1> USE CasesAssumption
<1>1. CASE BindCwd
  <2>1. Kept
    BY <1>1 DEF BindCwd, Kept, IInv, TypeOK, IsEnv, history
  <2>2. Binding' /\ PwdTracks'
    BY <1>1 DEF BindCwd, Ends, IInv, Binding, PwdTracks, history
  <2> QED BY <2>1, <2>2, KeptInv DEF IInv
<1>2. CASE BindOld
  <2>1. Kept
    BY <1>2 DEF BindOld, Kept, IInv, TypeOK, IsEnv
  <2>2. Binding' /\ PwdTracks'
    BY <1>2 DEF BindOld, Ends, IInv, Binding, PwdTracks
  <2> QED BY <2>1, <2>2, KeptInv DEF IInv
<1>3. CASE BindNew
  <2>1. Kept
    BY <1>3 DEF BindNew, Kept, IInv, TypeOK, IsEnv
  <2>2. pc' = "idle" /\ env'["PWD"] = PathOf[cwd]
    <3>1. pc = "new" /\ env' = [env EXCEPT !["PWD"] = tcwd] /\ pc' = "idle"
      BY <1>3 DEF BindNew, Ends
    <3>2. env'["PWD"] = tcwd
      BY <3>1 DEF IInv, TypeOK, IsEnv
    <3> QED BY <3>1, <3>2 DEF IInv, Binding
  <2>3. Binding' /\ PwdTracks'
    BY <1>3, <2>2 DEF BindNew, Binding, PwdTracks
  <2> QED BY <2>1, <2>3, KeptInv DEF IInv
<1>4. CASE BindFails
  <2>1. Kept
    BY <1>4 DEF BindFails, Kept, IInv, TypeOK, IsEnv
  <2>2. Binding' /\ PwdTracks'
    BY <1>4 DEF BindFails, Ends, IInv, Binding, PwdTracks
  <2> QED BY <2>1, <2>2, KeptInv DEF IInv
<1> QED BY <1>1, <1>2, <1>3, <1>4

(* pwd, an assignment to V, a directory removed, and what fails before it  *)
(* has changed anything.                                                   *)
LEMMA OtherInv ==
    ASSUME IInv,
           \/ PwdFails \/ SetThrows \/ SourceThrows
           \/ \E verbatim \in BOOLEAN : Pwd(verbatim)
           \/ \E value \in c.values, overwrite \in BOOLEAN : Set("V", value, overwrite)
           \/ \E d \in Dir : Rmdir(d)
    PROVE  IInv'
<1> USE CasesAssumption
<1>1. ASSUME NEW verbatim \in BOOLEAN, Pwd(verbatim) PROVE IInv'
  <2>1. Kept
    BY <1>1 DEF Pwd, Kept, IInv, TypeOK, IsEnv, history
  <2>2. Binding'
    BY <1>1 DEF Pwd, Binding
  <2>3. PwdTracks'
    <3>1. CASE cwd \in live /\ verbatim
      BY <1>1, <3>1 DEF Pwd, IInv, TypeOK, IsEnv, PwdTracks
    <3>2. CASE cwd \in live /\ ~verbatim
      BY <1>1, <3>2 DEF Pwd, IInv, TypeOK, PwdTracks
    <3>3. CASE cwd \notin live
      BY <1>1, <3>3 DEF Pwd, PwdTracks
    <3> QED BY <3>1, <3>2, <3>3
  <2> QED BY <2>1, <2>2, <2>3, KeptInv DEF IInv
<1>2. ASSUME NEW value, NEW overwrite, Set("V", value, overwrite) PROVE IInv'
  <2>1. Kept
    BY <1>2 DEF Set, Kept, IInv, TypeOK, IsEnv
  <2>2. Binding' /\ PwdTracks'
    BY <1>2 DEF Set, IInv, TypeOK, IsEnv, Binding, PwdTracks
  <2> QED BY <2>1, <2>2, KeptInv DEF IInv
<1>3. ASSUME NEW d \in Dir, Rmdir(d) PROVE IInv'
  <2>1. Kept
    BY <1>3 DEF Rmdir, Kept, IInv, TypeOK, IsEnv, history
  <2>2. Binding' /\ PwdTracks'
    BY <1>3 DEF Rmdir, IInv, Binding, PwdTracks, history
  <2> QED BY <2>1, <2>2, KeptInv DEF IInv
<1>4. ASSUME NEW st, Changeless(st) PROVE IInv'
  <2>1. Kept
    BY <1>4 DEF Changeless, Kept, IInv, TypeOK, IsEnv, history
  <2>2. Binding' /\ PwdTracks'
    BY <1>4 DEF Changeless, IInv, Binding, PwdTracks, history
  <2> QED BY <2>1, <2>2, KeptInv DEF IInv
<1> QED BY <1>1, <1>2, <1>3, <1>4 DEF PwdFails, SetThrows, SourceThrows

(* A script that starts has the environment.                               *)
LEMMA StartInv ==
    ASSUME IInv, NEW script \in c.scripts, SourceStarts(script)
    PROVE  IInv'
<1> DEFINE left == [n \in Names |-> IF n \in DOMAIN script.sets THEN script.sets[n] ELSE env[n]]
<1>1. /\ src' = [st |-> "script", todo |-> {}, exit |-> script.exit, quits |-> script.quits,
                 stopped |-> FALSE, before |-> env, left |-> left]
      /\ UNCHANGED <<c, cwd, live, env, pc, tcwd, synced>> /\ alone' = TRUE
  BY DEF SourceStarts
<1>2. TypeOK'
  <2>1. IsEnv(env) /\ IsEnv(left)
    BY DEF IInv, TypeOK, IsEnv
  <2> HIDE DEF left
  <2> QED BY <1>1, <2>1 DEF IInv, TypeOK, IsEnv
<1>3. Applied'
  BY <1>1 DEF Applied
<1>4. Binding' /\ PwdTracks'
  BY <1>1 DEF IInv, Binding, PwdTracks
<1> QED BY <1>2, <1>3, <1>4 DEF IInv

(* The script and its task, with the variables as they were.               *)
Goes(st, todo, stopped) ==
    /\ src'.st = st /\ src'.todo = todo /\ src'.stopped = stopped
    /\ src'.before = src.before /\ src'.left = src.left /\ src'.quits = src.quits
    /\ src' = [st |-> src'.st, todo |-> src'.todo, exit |-> src'.exit, quits |-> src'.quits,
               stopped |-> src'.stopped, before |-> src'.before, left |-> src'.left]
    /\ c' = c

(* They remain what they are.                                              *)
LEMMA GoesType ==
    ASSUME IInv, NEW st \in {"script", "apply"}, NEW todo, NEW stopped \in BOOLEAN, Goes(st, todo, stopped),
           IsEnv(env'), synced' \in BOOLEAN, alone' \in BOOLEAN,
           todo \subseteq {n \in Names : src.left[n] # Unset}, todo # {} => st = "apply" /\ ~stopped
    PROVE  TypeOK' /\ Exported' = Exported
<1>1. IsEnv(src'.before) /\ IsEnv(src'.left)
  BY DEF IInv, TypeOK, Goes
<1>2. TypeOK'
  BY <1>1 DEF IInv, TypeOK, Goes, IsEnv
<1>3. Exported' = Exported
  BY DEF Goes, Exported
<1> QED BY <1>2, <1>3

(* Its end, the variables applied one by one until the task stops, and the *)
(* end of source.                                                          *)
LEMMA ScriptInv ==
    ASSUME IInv, ScriptEnds \/ ApplierStops \/ SourceEnds \/ \E n \in Names : Apply(n)
    PROVE  IInv'
<1>0. \A n \in Names : Exported[n] = IF src.left[n] = Unset THEN src.before[n] ELSE src.left[n]
  BY DEF Exported
<1>1. CASE ScriptEnds
  <2> DEFINE todo == IF Prints /\ ~src.stopped THEN {n \in Names : src.left[n] # Unset} ELSE {}
  <2>1. /\ src.st = "script" /\ Goes("apply", todo, src.stopped)
        /\ (~src.stopped => src'.exit = src.exit)
        /\ UNCHANGED <<cwd, live, env, pc, tcwd, synced, alone>>
    BY <1>1 DEF ScriptEnds, Goes, IInv, TypeOK, history
  <2>2. TypeOK' /\ Exported' = Exported
    <3>1. todo \subseteq {n \in Names : src.left[n] # Unset} /\ (todo # {} => ~src.stopped)
      OBVIOUS
    <3>2. PICK x : x = todo
      OBVIOUS
    <3>3. PICK b \in BOOLEAN : b = src.stopped
      BY DEF IInv, TypeOK
    <3>4. IsEnv(env') /\ synced' \in BOOLEAN /\ alone' \in BOOLEAN
      BY <2>1 DEF IInv, TypeOK, IsEnv
    <3> HIDE DEF todo
    <3>5. Goes("apply", x, b)
      BY <2>1, <3>2, <3>3
    <3> QED BY <3>1, <3>2, <3>3, <3>4, <3>5, GoesType
  <2>3. alone => env = src.before /\ \A n \in Names : n \notin todo /\ Prints /\ ~src.stopped => src.left[n] = Unset
    BY <2>1 DEF IInv, Applied
  <2>4. ~src.stopped => Prints' = Prints
    BY <2>1 DEF Prints, Goes
  <2>5. ~Prints => todo = {}
    OBVIOUS
  <2>6. alone' => alone
    BY <2>1
  <2>7. /\ src'.st = "apply" /\ src'.todo = todo /\ src'.stopped = src.stopped
        /\ src'.before = src.before /\ env' = env
    BY <2>1 DEF Goes
  <2>8. Applied'
    <3> HIDE DEF todo
    <3>1. alone' /\ src.stopped => \A n \in Names : env[n] \in {src.before[n], Exported[n]}
      BY <2>3, <2>6
    <3>2. alone' /\ ~src.stopped /\ Prints =>
            \A n \in Names : env[n] = IF n \in todo THEN src.before[n] ELSE Exported[n]
      BY <1>0, <2>3, <2>6
    <3>3. alone' /\ ~src.stopped /\ ~Prints => env = src.before /\ todo = {}
      BY <2>3, <2>5, <2>6
    <3> QED BY <2>2, <2>4, <2>7, <3>1, <3>2, <3>3 DEF Applied
  <2>9. Binding' /\ PwdTracks'
    BY <2>1 DEF IInv, Binding, PwdTracks
  <2> QED BY <2>2, <2>8, <2>9 DEF IInv
<1>2. CASE ApplierStops
  <2>1. /\ Goes(src.st, {}, TRUE) /\ (src.st = "script" \/ src.todo # {})
        /\ UNCHANGED <<cwd, live, env, pc, tcwd, synced, alone>>
    BY <1>2 DEF ApplierStops, Goes, IInv, TypeOK, history
  <2>2. src.st = "script" \/ (src.st = "apply" /\ ~src.stopped /\ src.todo # {})
    BY <2>1 DEF IInv, TypeOK
  <2>3. TypeOK' /\ Exported' = Exported
    <3>1. PICK st \in {"script", "apply"} : st = src.st
      BY <2>2
    <3>2. IsEnv(env') /\ synced' \in BOOLEAN /\ alone' \in BOOLEAN
      BY <2>1 DEF IInv, TypeOK, IsEnv
    <3>3. Goes(st, {}, TRUE)
      BY <2>1, <3>1
    <3> QED BY <3>2, <3>3, GoesType
  <2>4. Applied'
    <3>1. CASE src.st = "script"
      BY <2>1, <3>1 DEF Applied, IInv, Goes
    <3>2. CASE src.st = "apply" /\ ~src.stopped /\ src.todo # {}
      <4>1. alone => \A n \in Names : env[n] \in {src.before[n], Exported[n]}
        BY <3>2 DEF Applied, IInv
      <4> QED BY <2>1, <2>3, <3>2, <4>1 DEF Applied, Goes
    <3> QED BY <2>2, <3>1, <3>2
  <2>5. Binding' /\ PwdTracks'
    BY <2>1 DEF IInv, Binding, PwdTracks
  <2> QED BY <2>3, <2>4, <2>5 DEF IInv
<1>3. CASE SourceEnds
  <2>1. TypeOK'
    <3>1. IsEnv(NoVariables)
      BY DEF IsEnv, NoVariables
    <3>2. src' = NoScript /\ UNCHANGED <<c, env, synced, alone>>
      BY <1>3 DEF SourceEnds, history
    <3> QED BY <3>1, <3>2 DEF IInv, TypeOK, IsEnv, NoScript
  <2>2. Applied' /\ Binding' /\ PwdTracks'
    BY <1>3 DEF SourceEnds, IInv, Applied, Binding, PwdTracks, NoScript, history
  <2> QED BY <2>1, <2>2 DEF IInv
<1>4. ASSUME NEW n \in Names, Apply(n) PROVE IInv'
  <2>1. /\ src.st = "apply" /\ n \in src.todo /\ src'.exit = src.exit
        /\ Goes("apply", src.todo \ {n}, src.stopped)
    BY <1>4 DEF Apply, Goes, IInv, TypeOK
  <2>2. /\ IsEnv(env') /\ env'[n] = src.left[n] /\ \A m \in Names \ {n} : env'[m] = env[m]
        /\ UNCHANGED <<cwd, live, pc, tcwd, alone>> /\ synced' = (synced /\ n # "PWD")
    BY <1>4 DEF Apply, IInv, TypeOK, IsEnv
  <2>3. ~src.stopped /\ src.left[n] # Unset
    BY <2>1 DEF IInv, TypeOK
  <2>4. TypeOK' /\ Exported' = Exported
    <3>1. /\ src.stopped \in BOOLEAN /\ synced' \in BOOLEAN /\ alone' \in BOOLEAN
          /\ src.todo \ {n} \subseteq {m \in Names : src.left[m] # Unset}
      BY <2>2 DEF IInv, TypeOK
    <3>2. PICK todo : todo = src.todo \ {n}
      OBVIOUS
    <3> QED BY <2>1, <2>2, <2>3, <3>1, <3>2, GoesType
  <2>5. Applied'
    <3>1. alone => Prints /\ \A m \in Names : env[m] = IF m \in src.todo THEN src.before[m] ELSE Exported[m]
      BY <2>1, <2>3 DEF IInv, Applied
    <3>2. Prints' = Prints
      BY <2>1 DEF Prints, Goes
    <3>3. alone => \A m \in Names : env'[m] = IF m \in src.todo \ {n} THEN src.before[m] ELSE Exported[m]
      BY <1>0, <2>1, <2>2, <2>3, <3>1
    <3> QED BY <2>1, <2>2, <2>3, <2>4, <3>1, <3>2, <3>3 DEF Applied, Goes
  <2>6. Binding' /\ PwdTracks'
    BY <2>2, CasesAssumption DEF IInv, Binding, PwdTracks
  <2> QED BY <2>4, <2>5, <2>6 DEF IInv
<1> QED BY <1>1, <1>2, <1>3, <1>4

(* Every operation, and every step of the task, keeps the invariant.       *)
LEMMA NextInv == IInv /\ [Next]_vars => IInv'
<1> SUFFICES ASSUME IInv, [Next]_vars PROVE IInv'
  OBVIOUS
<1>1. ASSUME NEW dir \in c.args, NEW logical \in BOOLEAN,
             CdMoves(dir, logical) \/ CdFails(dir, logical)
      PROVE  IInv'
  BY <1>1, CdInv
<1>2. CASE BindCwd \/ BindOld \/ BindNew \/ BindFails
  BY <1>2, BindInv
<1>3. CASE \/ PwdFails \/ SetThrows \/ SourceThrows
           \/ \E verbatim \in BOOLEAN : Pwd(verbatim)
           \/ \E value \in c.values, overwrite \in BOOLEAN : Set("V", value, overwrite)
           \/ \E d \in Dir : Rmdir(d)
  BY <1>3, OtherInv
<1>4. ASSUME NEW script \in c.scripts, SourceStarts(script) PROVE IInv'
  BY <1>4, StartInv
<1>5. CASE ScriptEnds \/ ApplierStops \/ SourceEnds \/ \E n \in Names : Apply(n)
  BY <1>5, ScriptInv
<1>6. CASE UNCHANGED vars
  <2>1. UNCHANGED <<c, cwd, live, env, pc, tcwd, src, synced, alone>>
    BY <1>6 DEF vars, history
  <2>2. Kept
    BY <2>1 DEF Kept, IInv, TypeOK, IsEnv
  <2>3. Binding' /\ PwdTracks'
    BY <2>1 DEF IInv, Binding, PwdTracks
  <2> QED BY <2>2, <2>3, KeptInv DEF IInv
<1> QED BY <1>1, <1>2, <1>3, <1>4, <1>5, <1>6 DEF Next

(* The inductive invariant.                                                *)
THEOREM Inductive == Spec => []IInv
BY InitInv, NextInv, PTL DEF Spec

(* Whatever the tree of directories, the values of the variables and the   *)
(* scripts: between a cd or pwd and the next variable PWD of a script, PWD *)
(* names the working directory, though a script's task changes other       *)
(* variables between the steps of bindpwd (cd.cpp:73-91, pwd.cpp:47-49).   *)
THEOREM Tracked == Spec => []PwdTracks
<1>1. IInv => PwdTracks
  BY DEF IInv
<1> QED BY <1>1, Inductive, PTL

(* For any number of variables, applied in any order: the environment is   *)
(* the one the script has left, but for what it has unset, or as it was    *)
(* before a script that fails or leaves by exit; and when the task stops   *)
(* half-way, no variable has a third value (ccsh_command_posix.cpp:165,    *)
(* 169-189).                                                               *)
THEOREM SourcedAll == Spec => []Sourced
<1>1. IInv => Sourced
  <2> SUFFICES ASSUME IInv, src.st = "apply", src.todo = {}, alone
               PROVE  IF src.stopped THEN \A n \in Names : env[n] \in {src.before[n], Exported[n]}
                      ELSE env = IF Prints THEN Exported ELSE src.before
    BY DEF Sourced
  <2>1. CASE src.stopped
    BY <2>1 DEF IInv, Applied
  <2>2. CASE ~src.stopped /\ Prints
    <3>1. \A n \in Names : env[n] = Exported[n]
      BY <2>2 DEF IInv, Applied
    <3>2. env = [n \in Names |-> env[n]] /\ Exported = [n \in Names |-> Exported[n]]
      BY DEF IInv, TypeOK, IsEnv, Exported
    <3>3. [n \in Names |-> env[n]] = [n \in Names |-> Exported[n]]
      BY <3>1
    <3> QED BY <2>2, <3>2, <3>3
  <2>3. CASE ~src.stopped /\ ~Prints
    BY <2>3 DEF IInv, Applied
  <2> QED BY <2>1, <2>2, <2>3
<1> QED BY <1>1, Inductive, PTL

-----------------------------------------------------------------------------
(***************************************************************************)
(* Induction over the naturals, from the fact that they are well founded,  *)
(* and the recursion that a fold is.                                       *)
(***************************************************************************)

(* Among some natural numbers there is a least one.                        *)
LEMMA LeastOf ==
    ASSUME NEW T \in SUBSET Nat, T # {}
    PROVE  \E x \in T : \A y \in T : x <= y
<1> DEFINE Less == {p \in Nat \X Nat : p[1] < p[2]}
<1>1. IsWellFoundedOn(Less, Nat)
  BY NatLessThanWellFounded DEF OpToRel
<1>2. PICK x \in T : \A y \in T : ~(<<y, x>> \in Less)
  BY <1>1, WFMin
<1>3. \A y \in T : x <= y
  <2> TAKE y \in T
  <2>1. ~(y < x)
    BY <1>2
  <2> QED BY <2>1
<1> QED BY <1>3

(* Induction up to n: a set of numbers with 0 in it and, with each number  *)
(* below n, the next one.                                                  *)
LEMMA UpTo ==
    ASSUME NEW n \in Nat, NEW T, 0 \in T, \A k \in 0..(n - 1) : k \in T => k + 1 \in T
    PROVE  0..n \subseteq T
<1> DEFINE F == {k \in 0..n : k \notin T}
<1> SUFFICES ASSUME F # {} PROVE FALSE
  OBVIOUS
<1>1. PICK x \in F : \A y \in F : x <= y
  <2>1. F \in SUBSET Nat
    OBVIOUS
  <2> HIDE DEF F
  <2> QED BY <2>1, LeastOf
<1>2. x \in 1..n
  OBVIOUS
<1>3. x - 1 \in T
  BY <1>1, <1>2
<1> QED BY <1>2, <1>3

(* What is as large as all of S is the maximum of S.                       *)
LEMMA MaxIs ==
    ASSUME NEW S \in SUBSET Int, NEW x \in S, \A y \in S : y <= x
    PROVE  Max(S) = x
<1>1. \A z \in S : (\A y \in S : z >= y) => z = x
  OBVIOUS
<1>2. x >= x /\ \A y \in S : x >= y
  OBVIOUS
<1> QED BY <1>1, <1>2 DEF Max

(* A set of numbers up to n has a maximum, and no element is larger.       *)
LEMMA MaxIn ==
    ASSUME NEW n \in Nat, NEW S \in SUBSET (0..n), S # {}
    PROVE  Max(S) \in S /\ \A y \in S : y <= Max(S)
<1> DEFINE T == {n - x : x \in S}
<1>1. PICK z \in T : \A y \in T : z <= y
  <2>1. \A x \in S : x \in 0..n /\ n - x \in Nat
    OBVIOUS
  <2>2. T \in SUBSET Nat
    BY <2>1
  <2>3. T # {}
    OBVIOUS
  <2> HIDE DEF T
  <2> QED BY <2>2, <2>3, LeastOf
<1>2. \A y \in S : y <= n - z
  BY <1>1
<1>3. n - z \in S
  OBVIOUS
<1>4. Max(S) = n - z
  <2>1. S \in SUBSET Int
    OBVIOUS
  <2> HIDE DEF T
  <2> QED BY <1>2, <1>3, <2>1, MaxIs
<1> QED BY <1>2, <1>3, <1>4

(* What a recursion over the subsets of 1..n is.                           *)
Folded(f, base, g, n) ==
    \A S \in SUBSET (1..n) : f[S] = IF S = {} THEN base ELSE g[<<f[S \ {Max(S)}], Max(S)>>]

(* The values that a recursion over the subsets of 1..n takes, as those of *)
(* MapThenFoldSet do, exist.                                               *)
LEMMA FoldExists ==
    ASSUME NEW X, NEW base \in X, NEW n \in Nat, NEW g \in [X \X (1..n) -> X]
    PROVE  \E f \in [SUBSET (1..n) -> X] : Folded(f, base, g, n)
<1> DEFINE Folds(k, f) == Folded(f, base, g, k)
           T == {k \in 0..n : \E f \in [SUBSET (1..k) -> X] : Folds(k, f)}
<1>1. 0 \in T
  <2> DEFINE f == [S \in SUBSET (1..0) |-> base]
  <2>1. f \in [SUBSET (1..0) -> X]
    OBVIOUS
  <2>2. \A S \in SUBSET (1..0) : S = {} /\ f[S] = base
    OBVIOUS
  <2>3. Folds(0, f)
    BY <2>2 DEF Folded
  <2>4. \E h \in [SUBSET (1..0) -> X] : Folds(0, h)
    <3> HIDE DEF f, Folds
    <3> QED BY <2>1, <2>3
  <2>5. 0 \in 0..n
    OBVIOUS
  <2> HIDE DEF f
  <2> QED BY <2>4, <2>5
<1>2. ASSUME NEW k \in 0..(n - 1), k \in T PROVE k + 1 \in T
  <2>1. PICK f \in [SUBSET (1..k) -> X] : Folds(k, f)
    BY <1>2
  <2> DEFINE h == [S \in SUBSET (1..(k + 1)) |->
                      IF k + 1 \in S THEN g[<<f[S \ {k + 1}], k + 1>>] ELSE f[S]]
  <2>2. \A S \in SUBSET (1..(k + 1)) : S \ {k + 1} \in SUBSET (1..k)
    OBVIOUS
  <2>3. h \in [SUBSET (1..(k + 1)) -> X]
    BY <2>2
  <2>4. ASSUME NEW S \in SUBSET (1..(k + 1)), S # {}
        PROVE  h[S] = g[<<h[S \ {Max(S)}], Max(S)>>]
    <3>1. CASE k + 1 \in S
      <4>1. Max(S) = k + 1
        BY <3>1, MaxIs
      <4>2. h[S \ {k + 1}] = f[S \ {k + 1}]
        BY <2>2
      <4> QED BY <3>1, <4>1, <4>2
    <3>2. CASE k + 1 \notin S
      <4>1. S \in SUBSET (1..k)
        BY <3>2
      <4>3. S \ {Max(S)} \in SUBSET (1..k) /\ k + 1 \notin S \ {Max(S)}
        BY <4>1, <3>2
      <4>2. h[S] = f[S] /\ h[S \ {Max(S)}] = f[S \ {Max(S)}]
        BY <4>1, <4>3, <3>2
      <4> QED BY <4>1, <4>2, <2>1, <2>4 DEF Folded
    <3> QED BY <3>1, <3>2
  <2>5. h[{}] = base
    BY <2>1 DEF Folded
  <2>6. Folds(k + 1, h)
    <3> HIDE DEF h
    <3> QED BY <2>4, <2>5 DEF Folded
  <2> HIDE DEF h
  <2> QED BY <2>3, <2>6
<1> HIDE DEF T
<1>3. 0..n \subseteq T
  BY <1>1, <1>2, UpTo
<1>4. n \in T
  BY <1>3
<1> QED BY <1>4 DEF T

(* The subsets that such a recursion comes by from 1..n.                   *)
LEMMA Upper ==
    ASSUME NEW n \in Nat, NEW k \in 1..n
    PROVE  /\ Max(1..k) = k /\ (1..k) \ {k} = 1..(k - 1)
           /\ 1..k # {} /\ 1..k \in SUBSET (1..n)
<1>1. 1..k \in SUBSET Int /\ k \in 1..k /\ \A y \in 1..k : y <= k
  OBVIOUS
<1>2. Max(1..k) = k
  BY <1>1, MaxIs
<1>3. (1..k) \ {k} = 1..(k - 1) /\ 1..k # {} /\ 1..k \in SUBSET (1..n)
  OBVIOUS
<1> QED BY <1>2, <1>3


-----------------------------------------------------------------------------
(***************************************************************************)
(* The directories there are and their paths.                              *)
(***************************************************************************)

(* What another process may not remove: a directory with one in it.        *)
Rooted == Root \in live /\ live \subseteq Dir /\ \A d \in live \ {Root} : Parent[d] \in live

(* It is inductive: Rmdir is the only operation that takes one away.       *)
LEMMA RootedInv == Spec => []Rooted
<1>1. Init => Rooted
  BY TreeAssumption DEF Init, Rooted
<1>2. Rooted /\ [Next]_vars => Rooted'
  <2> SUFFICES ASSUME Rooted, [Next]_vars PROVE Rooted'
    OBVIOUS
  <2>1. ASSUME NEW d \in Dir, Rmdir(d) PROVE Rooted'
    BY <2>1, TreeAssumption DEF Rmdir, Rooted
  <2>2. CASE UNCHANGED live
    BY <2>2 DEF Rooted
  <2>3. UNCHANGED live \/ \E d \in Dir : Rmdir(d)
    BY DEF Next, vars, CdMoves, CdFails, BindCwd, BindOld, BindNew, BindFails, Pwd, Set, SourceStarts,
           PwdFails, SetThrows, SourceThrows, Changeless, ScriptEnds, ApplierStops, SourceEnds, Apply
  <2> QED BY <2>1, <2>2, <2>3
<1> QED BY <1>1, <1>2, PTL DEF Spec

(* The directories from the root to the one that p is the path of.         *)
Leads(a, p) ==
    /\ p[1] = Root /\ a[1] = Root /\ Len(p) # 0
    /\ \A k \in 2..Len(p) :
          /\ p[k] \notin {Root, ".", ".."} /\ p[k] \in DOMAIN Entries[a[k - 1]]
          /\ Entries[a[k - 1]][p[k]] = a[k]

(* There are such for every directory.                                     *)
LEMMA Chain ==
    ASSUME Rooted, NEW e \in live
    PROVE  \E a \in [1..Len(PathOf[e]) -> live] : Leads(a, PathOf[e]) /\ a[Len(PathOf[e])] = e
<1> DEFINE Good(d) == \E a \in [1..Len(PathOf[d]) -> live] : Leads(a, PathOf[d]) /\ a[Len(PathOf[d])] = d
           Bad == {d \in live : ~Good(d)}
           T == {Len(PathOf[d]) : d \in Bad}
<1> SUFFICES ASSUME Bad # {} PROVE FALSE
  OBVIOUS
<1>1. \A d \in live : PathOf[d] \in Seq(STRING) /\ Len(PathOf[d]) \in Nat
  BY TreeAssumption DEF Rooted
<1>2. PICK d \in Bad : \A q \in Bad : Len(PathOf[d]) <= Len(PathOf[q])
  <2>1. T \in SUBSET Nat
    BY <1>1
  <2>2. T # {}
    OBVIOUS
  <2>3. PICK x \in T : \A y \in T : x <= y
    <3> HIDE DEF T
    <3> QED BY <2>1, <2>2, LeastOf
  <2> QED BY <2>3
<1>3. d \in live /\ ~Good(d)
  OBVIOUS
<1> HIDE DEF Bad
<1>4. CASE d = Root
  <2>1. PathOf[d] = <<Root>>
    BY <1>4, PathAssumption
  <2> DEFINE a == [k \in 1..1 |-> Root]
  <2>2. a \in [1..1 -> live] /\ a[1] = Root
    BY DEF Rooted
  <2>3. Len(<<Root>>) = 1 /\ <<Root>>[1] = Root
    OBVIOUS
  <2>4. \A k \in 2..1 : FALSE
    OBVIOUS
  <2>5. Leads(a, <<Root>>)
    <3> HIDE DEF a
    <3> QED BY <2>2, <2>3, <2>4 DEF Leads
  <2> HIDE DEF a
  <2> QED BY <1>3, <1>4, <2>1, <2>2, <2>3, <2>5
<1>5. CASE d # Root
  <2>1. PICK u : u = Parent[d]
    OBVIOUS
  <2>2. PICK name \in DOMAIN Entries[u] \ {Root, ".", ".."} :
           Entries[u][name] = d /\ PathOf[d] = Append(PathOf[u], name)
    BY <1>3, <1>5, <2>1, PathAssumption DEF Rooted
  <2>3. u \in live
    BY <1>3, <1>5, <2>1 DEF Rooted
  <2>4. PICK q : q = PathOf[u]
    OBVIOUS
  <2>5. PICK n \in Nat : n = Len(q)
    BY <1>1, <2>3, <2>4
  <2>6. PICK r \in Seq(STRING) : r = PathOf[d] /\ Len(r) \in Nat
    BY <1>1, <1>3
  <2>7. q \in Seq(STRING) /\ r = Append(q, name)
    BY <1>1, <2>2, <2>3, <2>4, <2>6
  <2>8. Len(r) = n + 1 /\ r[n + 1] = name /\ \A i \in 1..n : r[i] = q[i]
    BY <2>5, <2>7
  <2>9. Good(u)
    <3>1. ~(Len(PathOf[d]) <= Len(PathOf[u]))
      BY <2>4, <2>5, <2>6, <2>8
    <3>2. u \notin Bad
      BY <1>2, <3>1
    <3> QED BY <2>3, <3>2 DEF Bad
  <2>10. PICK b \in [1..n -> live] : Leads(b, q) /\ b[n] = u
    BY <2>4, <2>5, <2>9
  <2> DEFINE a == [k \in 1..(n + 1) |-> IF k = n + 1 THEN d ELSE b[k]]
  <2>11. a \in [1..(n + 1) -> live] /\ a[n + 1] = d /\ \A k \in 1..n : a[k] = b[k]
    <3>1. \A k \in 1..(n + 1) : k # n + 1 => k \in 1..n
      BY ONLY <2>5
    <3>2. \A k \in 1..n : k \in 1..(n + 1) /\ k # n + 1
      BY ONLY <2>5
    <3>3. n + 1 \in 1..(n + 1)
      BY ONLY <2>5
    <3> QED BY <1>3, <2>10, <3>1, <3>2, <3>3
  <2> HIDE DEF a
  <2>12. n # 0 /\ 1 \in 1..n
    BY <2>5, <2>10 DEF Leads
  <2>13. ASSUME NEW k \in 2..(n + 1)
         PROVE  /\ r[k] \notin {Root, ".", ".."} /\ r[k] \in DOMAIN Entries[a[k - 1]]
                /\ Entries[a[k - 1]][r[k]] = a[k]
    <3>1. CASE k = n + 1
      <4>1. k - 1 = n /\ n \in 1..n
        BY <2>12, <3>1
      <4>2. a[k - 1] = u /\ r[k] = name /\ a[k] = d
        BY <2>8, <2>10, <2>11, <3>1, <4>1
      <4> QED BY <2>2, <4>2
    <3>2. CASE k # n + 1
      <4>1. k \in 2..n /\ k - 1 \in 1..n /\ k \in 1..n
        BY <3>2
      <4>2. a[k - 1] = b[k - 1] /\ a[k] = b[k] /\ r[k] = q[k]
        BY <2>8, <2>11, <4>1
      <4> QED BY <2>5, <2>10, <4>1, <4>2 DEF Leads
    <3> QED BY <3>1, <3>2
  <2>14. Leads(a, r)
    <3>1. r[1] = Root /\ a[1] = Root
      BY <2>8, <2>10, <2>11, <2>12 DEF Leads
    <3> QED BY <2>8, <2>12, <2>13, <3>1 DEF Leads
  <2> QED BY <1>3, <2>6, <2>8, <2>11, <2>14
<1> QED BY <1>4, <1>5

(* What the kernel has come to after each name of a path.                  *)
LEMMA ResolveSteps ==
    ASSUME Rooted, NEW d \in Dir \cup {None}, NEW p \in Seq(STRING), p # << >>
    PROVE  \E m \in [0..Len(p) -> Dir \cup {None}] :
              /\ m[0] = d /\ Resolve(d, p) = m[Len(p)]
              /\ \A k \in 0..(Len(p) - 1) : m[k + 1] = Step(m[k], p[k + 1])
<1> DEFINE X == Dir \cup {None}
           n == Len(p)
           g == [q \in X \X (1..n) |-> Step(q[1], p[q[2]])]
           Fold(f) == [S \in SUBSET DOMAIN p |->
                          IF S = {} THEN d
                          ELSE LET x == Max(S) IN Step(f[S \ {x}], p[x])]
           f == CHOOSE h : h = Fold(h)
<1>1. Resolve(d, p) = f[DOMAIN p]
  BY DEF Resolve, FoldLeft, MapThenFoldSet
<1>2. n \in Nat /\ DOMAIN p = 1..n
  OBVIOUS
<1>3. \A x \in X : \A name : Step(x, name) \in X
  BY TreeAssumption DEF Step, Rooted
<1>4. g \in [X \X (1..n) -> X] /\ d \in X /\ \A q \in X \X (1..n) : g[q] = Step(q[1], p[q[2]])
  <2>1. \A q \in X \X (1..n) : q[1] \in X
    OBVIOUS
  <2>2. \A q \in X \X (1..n) : Step(q[1], p[q[2]]) \in X
    <3> HIDE DEF X, n
    <3> QED BY <1>3, <2>1
  <2> HIDE DEF n
  <2> QED BY <2>2
<1> HIDE DEF X, n, g
<1>5. PICK h \in [SUBSET (1..n) -> X] : Folded(h, d, g, n)
  BY <1>2, <1>4, FoldExists
<1>6. f = Fold(f)
  <2>1. ASSUME NEW S \in SUBSET (1..n), S # {}
        PROVE  h[S] = Step(h[S \ {Max(S)}], p[Max(S)])
    <3>1. S \in SUBSET (0..n)
      BY <1>2
    <3>2. Max(S) \in 1..n
      BY <3>1, <2>1, <1>2, MaxIn
    <3>3. S \ {Max(S)} \in SUBSET (1..n)
      OBVIOUS
    <3>4. <<h[S \ {Max(S)}], Max(S)>> \in X \X (1..n)
      BY <3>2, <3>3
    <3>5. h[S] = g[<<h[S \ {Max(S)}], Max(S)>>]
      BY <1>5, <2>1 DEF Folded
    <3> QED BY <3>4, <3>5, <1>4
  <2>2. h[{}] = d
    BY <1>5 DEF Folded
  <2>3. h = Fold(h)
    BY <2>1, <2>2, <1>2
  <2> HIDE DEF Fold
  <2> QED BY <2>3
<1> HIDE DEF f
<1>7. ASSUME NEW k \in 0..(n - 1) PROVE f[1..(k + 1)] = Step(f[1..k], p[k + 1])
  <2>1. k + 1 \in 1..n /\ (k + 1) - 1 = k
    BY <1>2
  <2>2. /\ Max(1..(k + 1)) = k + 1 /\ (1..(k + 1)) \ {k + 1} = 1..k
        /\ 1..(k + 1) # {} /\ 1..(k + 1) \in SUBSET (1..n)
    BY <1>2, <2>1, Upper
  <2>3. f[1..(k + 1)] = Step(f[(1..(k + 1)) \ {Max(1..(k + 1))}], p[Max(1..(k + 1))])
    BY <2>2, <1>2, <1>6
  <2> QED BY <2>2, <2>3
<1>8. f[1..0] = d
  <2>1. 1..0 = {}
    OBVIOUS
  <2> QED BY <2>1, <1>6
<1> DEFINE m == [k \in 0..n |-> f[1..k]]
           T == {k \in 0..n : m[k] \in X}
<1>9. m \in [0..n -> X]
  <2>1. 0 \in T
    BY <1>2, <1>4, <1>8
  <2>2. ASSUME NEW k \in 0..(n - 1), k \in T PROVE k + 1 \in T
    <3>1. k + 1 \in 0..n /\ k \in 0..n
      BY <1>2
    <3>2. m[k + 1] = Step(m[k], p[k + 1])
      BY <3>1, <1>7
    <3> QED BY <2>2, <3>1, <3>2, <1>3
  <2>3. 0..n \subseteq T
    <3> HIDE DEF T
    <3> QED BY <2>1, <2>2, <1>2, UpTo
  <2> QED BY <2>3
<1>10. m[0] = d /\ m[n] = Resolve(d, p)
  BY <1>1, <1>2, <1>8
<1>11. \A k \in 0..(n - 1) : m[k + 1] = Step(m[k], p[k + 1])
  BY <1>2, <1>7
<1> HIDE DEF m
<1> QED BY <1>9, <1>10, <1>11 DEF n, X

(* The path of a directory that is there leads to it, from anywhere.       *)
LEMMA ResolvesTo ==
    ASSUME Rooted, NEW d \in Dir, NEW e \in live
    PROVE  Resolve(d, PathOf[e]) = e
<1>1. PICK p \in Seq(STRING) : p = PathOf[e] /\ Len(p) \in Nat
  BY TreeAssumption DEF Rooted
<1>2. PICK a \in [1..Len(p) -> live] : Leads(a, p) /\ a[Len(p)] = e
  BY <1>1, Chain
<1>3. PICK n \in Nat \ {0} : n = Len(p)
  BY <1>1, <1>2 DEF Leads
<1>4. p # << >>
  BY <1>3
<1>5. PICK m \in [0..n -> Dir \cup {None}] :
         /\ m[0] = d /\ Resolve(d, p) = m[n]
         /\ \A k \in 0..(n - 1) : m[k + 1] = Step(m[k], p[k + 1])
  <2>1. PICK m \in [0..Len(p) -> Dir \cup {None}] :
           /\ m[0] = d /\ Resolve(d, p) = m[Len(p)]
           /\ \A k \in 0..(Len(p) - 1) : m[k + 1] = Step(m[k], p[k + 1])
    BY <1>4, ResolveSteps
  <2>2. m \in [0..n -> Dir \cup {None}]
    BY <1>3, <2>1
  <2>3. \A k \in 0..(n - 1) : m[k + 1] = Step(m[k], p[k + 1])
    BY <1>3, <2>1
  <2>4. m[0] = d /\ Resolve(d, p) = m[n]
    BY <1>3, <2>1
  <2> QED BY <2>2, <2>3, <2>4
<1> DEFINE T == {k \in 0..n : k # 0 => m[k] = a[k]}
<1>6. 0 \in T
  OBVIOUS
<1>7. ASSUME NEW k \in 0..(n - 1), k \in T PROVE k + 1 \in T
  <2>1. m[k + 1] = Step(m[k], p[k + 1]) /\ k + 1 \in 0..n
    BY <1>5
  <2>2. CASE k = 0
    <3>1. m[1] = Step(d, Root) /\ a[1] = Root
      BY <1>2, <1>5, <2>1, <2>2 DEF Leads
    <3>2. Step(d, Root) = Root
      <4>1. d # None /\ Root # "." /\ Root # ".."
        BY TreeAssumption DEF Root
      <4> QED BY <4>1 DEF Step
    <3> QED BY <2>1, <2>2, <3>1, <3>2
  <2>3. CASE k # 0
    <3>1. PICK i \in 2..n : i = k + 1
      BY <2>3
    <3>2. i - 1 = k /\ k \in 1..n /\ i \in 1..n
      BY <2>3, <3>1
    <3>3. /\ p[i] \notin {Root, ".", ".."} /\ p[i] \in DOMAIN Entries[a[k]]
          /\ Entries[a[k]][p[i]] = a[i]
      BY <1>2, <1>3, <3>2 DEF Leads
    <3>4. a[k] \in live /\ a[i] \in live /\ m[k] = a[k] /\ a[k] # None
      BY <1>2, <1>3, <1>7, <2>3, <3>2, TreeAssumption DEF Rooted
    <3>5. Step(a[k], p[i]) = a[i]
      BY <3>3, <3>4 DEF Step
    <3> QED BY <2>1, <3>1, <3>4, <3>5
  <2> QED BY <2>2, <2>3
<1>8. n \in T
  <2>1. 0..n \subseteq T
    <3> HIDE DEF T
    <3> QED BY <1>6, <1>7, UpTo
  <2> QED BY <2>1
<1> QED BY <1>1, <1>2, <1>3, <1>5, <1>8

(* One name of Plain.                                                      *)
PlainStep(t, name) ==
    CASE name = "." -> t
      [] name = ".." -> IF Len(t) > 1 THEN Front(t) ELSE t
      [] OTHER -> Append(t, name)

(* A path without its last name.                                           *)
LEMMA FrontIs ==
    ASSUME NEW S, NEW t \in Seq(S), t # << >>
    PROVE  /\ Front(t) \in Seq(S) /\ Len(Front(t)) = Len(t) - 1
           /\ \A i \in 1..(Len(t) - 1) : Front(t)[i] = t[i]
<1>1. PICK n \in Nat \ {0} : n = Len(t) BY EmptySeq
<1>2. Front(t) = SubSeq(t, 1, n - 1) BY <1>1 DEF Front
<1>3. \A i \in 1..(n - 1) : t[i] \in S BY <1>1
<1>4. /\ SubSeq(t, 1, n - 1) \in Seq(S)
      /\ Len(SubSeq(t, 1, n - 1)) = IF 1 <= n - 1 THEN (n - 1) - 1 + 1 ELSE 0
      /\ \A i \in 1..((n - 1) - 1 + 1) : SubSeq(t, 1, n - 1)[i] = t[1 + i - 1]
  <2>1. 1 \in Int /\ n - 1 \in Int OBVIOUS
  <2> QED BY <1>3, <2>1, SubSeqProperties
<1>5. /\ (IF 1 <= n - 1 THEN (n - 1) - 1 + 1 ELSE 0) = n - 1 /\ (n - 1) - 1 + 1 = n - 1
      /\ \A i \in 1..(n - 1) : 1 + i - 1 = i
  OBVIOUS
<1> QED BY <1>1, <1>2, <1>4, <1>5

(* It keeps to sequences of names.                                         *)
LEMMA PlainStepType ==
    ASSUME NEW t \in Seq(STRING), NEW name \in STRING
    PROVE  PlainStep(t, name) \in Seq(STRING)
<1>1. CASE name = "." BY <1>1 DEF PlainStep
<1>2. CASE name = ".."
  <2>1. CASE Len(t) > 1
    <3>1. t # << >> BY <2>1
    <3>2. Front(t) \in Seq(STRING) BY <3>1, FrontIs
    <3> QED BY <1>2, <2>1, <3>2 DEF PlainStep
  <2>2. CASE ~(Len(t) > 1) BY <1>2, <2>2 DEF PlainStep
  <2> QED BY <2>1, <2>2
<1>3. CASE name # "." /\ name # ".."
  <2>1. Append(t, name) \in Seq(STRING) BY AppendProperties
  <2> QED BY <1>3, <2>1 DEF PlainStep
<1> QED BY <1>1, <1>2, <1>3

(* What Plain has of q after each of its n names.                          *)
PlainRun(t, q, n) ==
    /\ t \in [0..n -> Seq(STRING)]
    /\ t[0] = << >> /\ Plain(q) = t[n]
    /\ \A k \in 0..(n - 1) : t[k + 1] = PlainStep(t[k], q[k + 1])

(* There is such a run.                                                    *)
LEMMA PlainSteps ==
    ASSUME NEW p \in Seq(STRING), NEW n \in Nat, n = Len(p)
    PROVE  \E t : PlainRun(t, p, n)
<1> DEFINE X == Seq(STRING)
           g == [q \in X \X (1..n) |-> PlainStep(q[1], p[q[2]])]
           Op(t, name) == CASE name = "." -> t
                            [] name = ".." -> IF Len(t) > 1 THEN Front(t) ELSE t
                            [] OTHER -> Append(t, name)
           Fold(f) == [S \in SUBSET DOMAIN p |->
                          IF S = {} THEN << >>
                          ELSE LET x == Max(S) IN Op(f[S \ {x}], p[x])]
           f == CHOOSE h : h = Fold(h)
<1>1. Plain(p) = f[DOMAIN p]
  BY DEF Plain, FoldLeft, MapThenFoldSet
<1>2. DOMAIN p = 1..n
  OBVIOUS
<1>3. \A t, name : Op(t, name) = PlainStep(t, name)
  BY DEF PlainStep
<1>4. /\ g \in [X \X (1..n) -> X] /\ << >> \in X
      /\ \A q \in X \X (1..n) : g[q] = PlainStep(q[1], p[q[2]])
  <2>1. \A q \in X \X (1..n) : q[1] \in X /\ p[q[2]] \in STRING
    OBVIOUS
  <2>2. \A q \in X \X (1..n) : PlainStep(q[1], p[q[2]]) \in X
    BY <2>1, PlainStepType
  <2> QED BY <2>2
<1> HIDE DEF g, Op, X
<1>5. PICK h \in [SUBSET (1..n) -> X] : Folded(h, << >>, g, n)
  BY <1>4, FoldExists
<1>6. f = Fold(f)
  <2>1. ASSUME NEW S \in SUBSET (1..n), S # {}
        PROVE  h[S] = Op(h[S \ {Max(S)}], p[Max(S)])
    <3>1. S \in SUBSET (0..n)
      OBVIOUS
    <3>2. Max(S) \in 1..n
      BY <3>1, <2>1, MaxIn
    <3>3. S \ {Max(S)} \in SUBSET (1..n)
      OBVIOUS
    <3>4. <<h[S \ {Max(S)}], Max(S)>> \in X \X (1..n)
      BY <3>2, <3>3
    <3>5. h[S] = g[<<h[S \ {Max(S)}], Max(S)>>]
      BY <1>5, <2>1 DEF Folded
    <3>6. g[<<h[S \ {Max(S)}], Max(S)>>] = PlainStep(h[S \ {Max(S)}], p[Max(S)])
      BY <3>4, <1>4
    <3> QED BY <3>5, <3>6, <1>3
  <2>2. h[{}] = << >>
    BY <1>5 DEF Folded
  <2>3. h = Fold(h)
    BY <2>1, <2>2, <1>2
  <2> HIDE DEF Fold
  <2> QED BY <2>3
<1> HIDE DEF f
<1>7. ASSUME NEW k \in 0..(n - 1) PROVE f[1..(k + 1)] = PlainStep(f[1..k], p[k + 1])
  <2>1. k + 1 \in 1..n /\ (k + 1) - 1 = k
    OBVIOUS
  <2>2. /\ Max(1..(k + 1)) = k + 1 /\ (1..(k + 1)) \ {k + 1} = 1..k
        /\ 1..(k + 1) # {} /\ 1..(k + 1) \in SUBSET (1..n)
    BY <2>1, Upper
  <2>3. f[1..(k + 1)] = Op(f[(1..(k + 1)) \ {Max(1..(k + 1))}], p[Max(1..(k + 1))])
    BY <2>2, <1>2, <1>6
  <2> QED BY <2>2, <2>3, <1>3
<1>8. f[1..0] = << >>
  <2>1. 1..0 = {}
    OBVIOUS
  <2> QED BY <2>1, <1>6
<1> DEFINE m == [k \in 0..n |-> f[1..k]]
           T == {k \in 0..n : m[k] \in X}
<1>9. m \in [0..n -> X]
  <2>1. 0 \in T
    BY <1>4, <1>8
  <2>2. ASSUME NEW k \in 0..(n - 1), k \in T PROVE k + 1 \in T
    <3>1. k + 1 \in 0..n /\ k \in 0..n /\ k + 1 \in 1..n
      OBVIOUS
    <3>2. m[k + 1] = PlainStep(m[k], p[k + 1])
      BY <3>1, <1>7
    <3>3. p[k + 1] \in STRING /\ m[k] \in Seq(STRING) BY <2>2, <3>1 DEF X
    <3>4. PlainStep(m[k], p[k + 1]) \in X
      <4> HIDE DEF m
      <4> QED BY <3>3, PlainStepType DEF X
    <3> QED BY <3>1, <3>2, <3>4
  <2>3. 0..n \subseteq T
    <3> HIDE DEF T
    <3> QED BY <2>1, <2>2, UpTo
  <2> QED BY <2>3
<1>10. m[0] = << >> /\ m[n] = Plain(p)
  BY <1>1, <1>2, <1>8
<1>11. \A k \in 0..(n - 1) : m[k + 1] = PlainStep(m[k], p[k + 1])
  BY <1>7
<1> HIDE DEF m
<1> QED BY <1>9, <1>10, <1>11 DEF PlainRun, X

(* A path without . and .. is plain.                                       *)
LEMMA PlainIs ==
    ASSUME NEW p \in Seq(STRING), \A i \in 1..Len(p) : p[i] \notin {".", ".."}
    PROVE  Plain(p) = p
<1>1. PICK n \in Nat : n = Len(p) OBVIOUS
<1>2. PICK t : PlainRun(t, p, n) BY <1>1, PlainSteps
<1>3. /\ t \in [0..n -> Seq(STRING)] /\ t[0] = << >> /\ Plain(p) = t[n]
      /\ \A k \in 0..(n - 1) : t[k + 1] = PlainStep(t[k], p[k + 1])
  BY <1>2 DEF PlainRun
<1> DEFINE Same(s, k) == s \in Seq(STRING) /\ Len(s) = k /\ \A i \in 1..k : s[i] = p[i]
           T == {k \in 0..n : Same(t[k], k)}
<1>4. 0 \in T
  <2>1. << >> \in Seq(STRING) /\ Len(<< >>) = 0 /\ \A i \in 1..0 : FALSE
    OBVIOUS
  <2>2. Same(t[0], 0)
    BY <1>3, <2>1
  <2> HIDE DEF Same
  <2> QED BY <1>1, <2>2
<1>5. ASSUME NEW k \in 0..(n - 1), k \in T PROVE k + 1 \in T
  <2>1. PICK s : s = t[k]
    OBVIOUS
  <2>2. Same(s, k)
    BY <1>5, <2>1
  <2>3. k \in Nat /\ k + 1 \in 1..n /\ k + 1 \in 0..n /\ p[k + 1] \in STRING
    BY <1>1
  <2>4. t[k + 1] = Append(s, p[k + 1])
    <3>1. p[k + 1] \notin {".", ".."} BY <1>1, <2>3
    <3> QED BY <1>3, <2>1, <3>1 DEF PlainStep
  <2>5. /\ Append(s, p[k + 1]) \in Seq(STRING) /\ Len(Append(s, p[k + 1])) = Len(s) + 1
        /\ \A i \in 1..Len(s) : Append(s, p[k + 1])[i] = s[i]
        /\ Append(s, p[k + 1])[Len(s) + 1] = p[k + 1]
    BY <2>2, <2>3, AppendProperties
  <2>6. \A i \in 1..(k + 1) : i \in 1..k \/ i = k + 1
    BY <2>3
  <2>7. Same(Append(s, p[k + 1]), k + 1)
    BY <2>2, <2>3, <2>5, <2>6
  <2> HIDE DEF Same
  <2> QED BY <2>3, <2>4, <2>7
<1>6. 0..n \subseteq T
  <2> HIDE DEF T
  <2> QED BY <1>1, <1>4, <1>5, UpTo
<1>7. Same(t[n], n) BY <1>1, <1>6
<1>8. t[n] = p BY <1>1, <1>7, SeqEqual
<1> QED BY <1>3, <1>8

(* weakly_canonical has nothing to do on the path of a directory.          *)
LEMMA CanonicalIs ==
    ASSUME Rooted, cwd \in live, NEW e \in live
    PROVE  weakly_canonical(PathOf[e]) = PathOf[e]
<1>1. PICK p \in Seq(STRING) : p = PathOf[e] /\ Len(p) \in Nat
  BY TreeAssumption DEF Rooted
<1>2. PICK n \in Nat \ {0} : n = Len(p)
  BY <1>1, Chain DEF Leads
<1>3. e # None /\ Resolve(cwd, p) = e
  BY <1>1, ResolvesTo, TreeAssumption DEF Rooted
<1> DEFINE there == {k \in 1..n : Resolve(cwd, SubSeq(p, 1, k)) # None}
<1>4. SubSeq(p, 1, n) = p
  BY <1>2, SubSeqFull
<1>5. n \in there
  <2>1. n \in 1..n
    OBVIOUS
  <2>2. Resolve(cwd, SubSeq(p, 1, n)) # None
    BY <1>3, <1>4
  <2> QED BY <2>1, <2>2
<1>6. (CHOOSE k \in there : \A j \in there : j <= k) = n
  <2>1. \A k \in there : k <= n /\ k \in Nat
    OBVIOUS
  <2>2. \A k \in there : (\A j \in there : j <= k) => k = n
    BY <1>5, <2>1
  <2> HIDE DEF there
  <2> QED BY <1>5, <2>1, <2>2
<1>7. SubSeq(p, n + 1, n) = << >>
  <2>1. n + 1 \in Int /\ n \in Int /\ n < n + 1
    OBVIOUS
  <2> QED BY <2>1, SubSeqEmpty
<1>8. {".", ".."} \cap ToSet(<< >>) = {}
  BY DEF ToSet
<1>9. Join(p, << >>) = p
  <2>1. p # << >> /\ << >> # <<Root>>
    BY <1>2
  <2>2. p \o << >> = p
    BY ConcatEmptySeq
  <2> QED BY <2>1, <2>2 DEF Join, IsAbsolute
<1>10. weakly_canonical(p) = Join(PathOf[Resolve(cwd, SubSeq(p, 1, n))], << >>)
  <2>1. there = {k \in 1..Len(p) : Resolve(cwd, SubSeq(p, 1, k)) # None} /\ there # {}
    BY <1>2, <1>5
  <2> HIDE DEF there
  <2>2. SubSeq(p, n + 1, Len(p)) = << >>
    BY <1>2, <1>7
  <2> QED BY <1>6, <1>8, <2>1, <2>2 DEF weakly_canonical
<1> QED BY <1>1, <1>3, <1>4, <1>9, <1>10

(* From a prefix, what is left.                                            *)
LEMMA RelativeIs ==
    ASSUME NEW p \in Seq(STRING), NEW q \in Seq(STRING), q # << >>,
           NEW n \in Nat, n = Len(q), n < Len(p), \A i \in 1..n : p[i] = q[i]
    PROVE  self_lexically_relative(p, q) = SubSeq(p, n + 1, Len(p))
<1>1. mismatch(p, q) = n
  <2> DEFINE Is(k) == /\ k <= Len(q) /\ \A i \in 1..k : p[i] = q[i]
                      /\ k < Len(p) /\ k < Len(q) => p[k + 1] # q[k + 1]
  <2>1. n \in 0..Len(p) /\ Is(n)
    OBVIOUS
  <2>2. ASSUME NEW k \in 0..Len(p), Is(k) PROVE k = n
    <3>1. CASE k < n
      <4>1. k + 1 \in 1..n
        BY <3>1
      <4>2. p[k + 1] = q[k + 1]
        BY <4>1
      <4> QED BY <2>2, <3>1, <4>2
    <3>2. CASE ~(k < n)
      BY <2>2, <3>2
    <3> QED BY <3>1, <3>2
  <2>3. mismatch(p, q) = CHOOSE k \in 0..Len(p) : Is(k)
    BY DEF mismatch
  <2> HIDE DEF Is
  <2> QED BY <2>1, <2>2, <2>3
<1>2. n # 0
  OBVIOUS
<1>3. [i \in 1..(Len(q) - n) |-> "."] = << >>
  <2>1. 1..(Len(q) - n) = {}
    OBVIOUS
  <2> QED BY <2>1
<1>4. SubSeq(p, n + 1, Len(p)) \in Seq(STRING)
  <2>1. \A i \in (n + 1)..Len(p) : p[i] \in STRING
    OBVIOUS
  <2>2. n + 1 \in Int /\ Len(p) \in Int
    OBVIOUS
  <2> QED BY <2>1, <2>2, SubSeqProperties
<1>5. << >> \o SubSeq(p, n + 1, Len(p)) = SubSeq(p, n + 1, Len(p))
  BY <1>4, ConcatEmptySeq
<1>6. ~(n = Len(p) /\ n = Len(q))
  OBVIOUS
<1> QED BY <1>1, <1>2, <1>3, <1>5, <1>6 DEF self_lexically_relative

(* The ~ and what follows it.                                              *)
LEMMA AfterTilde ==
    ASSUME NEW r \in Seq(STRING), r # << >>, r[1] # Root
    PROVE  Join(<<"~">>, r)[1] = "~" /\ Tail(Join(<<"~">>, r)) = r
<1> DEFINE S == STRING \cup {"~"}
           h == <<"~">>
<1>1. h \in Seq(S) /\ r \in Seq(S) /\ Len(h) = 1 /\ h[1] = "~" /\ h # << >>
  OBVIOUS
<1>2. Join(h, r) = h \o r
  <2>1. ~IsAbsolute(r) /\ r # <<Root>>
    BY DEF IsAbsolute
  <2> QED BY <1>1, <2>1 DEF Join
<1> HIDE DEF S, h
<1>3. PICK t : t = h \o r
  OBVIOUS
<1>4. PICK n \in Nat \ {0} : n = Len(r)
  OBVIOUS
<1>5. /\ t \in Seq(S) /\ Len(t) = 1 + n
      /\ \A i \in 1..(1 + n) : t[i] = IF i <= 1 THEN h[i] ELSE r[i - 1]
  <2>1. /\ h \o r \in Seq(S) /\ Len(h \o r) = Len(h) + Len(r)
        /\ \A i \in 1..(Len(h) + Len(r)) : (h \o r)[i] = IF i <= Len(h) THEN h[i] ELSE r[i - Len(h)]
    BY <1>1, ConcatProperties
  <2> QED BY <1>1, <1>3, <1>4, <2>1
<1>6. t # << >> /\ t[1] = "~"
  BY <1>1, <1>5
<1>7. Tail(t) \in Seq(S) /\ Len(Tail(t)) = Len(t) - 1 /\ \A i \in 1..Len(Tail(t)) : Tail(t)[i] = t[i + 1]
  BY <1>5, <1>6, HeadTailProperties
<1>8. Len(Tail(t)) = n /\ \A i \in 1..n : Tail(t)[i] = r[i]
  <2>1. Len(Tail(t)) = n
    BY <1>5, <1>7
  <2>2. \A i \in 1..n : i + 1 \in 1..(1 + n) /\ ~(i + 1 <= 1) /\ (i + 1) - 1 = i
    OBVIOUS
  <2> QED BY <1>5, <1>7, <2>1, <2>2
<1>9. Tail(t) = r
  BY <1>1, <1>4, <1>7, <1>8, SeqEqual
<1> QED BY <1>2, <1>3, <1>6, <1>9 DEF h

(* What the prompt shows leads from the home directory to the working      *)
(* directory.                                                              *)
LEMMA PromptIs == Rooted => Abbreviated
<1> SUFFICES ASSUME Rooted, cwd \in live, Home \in live, IsPrefix(PathOf[Home], PathOf[cwd])
             PROVE  LET shown == get_current_path_abbreviated
                    IN  Plain(PathOf[Home] \o Tail(shown)) = PathOf[cwd] /\ shown[1] = "~"
  BY DEF Abbreviated
<1>1. PICK p \in Seq(STRING) : p = PathOf[cwd] /\ Len(p) \in Nat
  BY TreeAssumption DEF Rooted
<1>2. PICK q \in Seq(STRING) : q = PathOf[Home]
  BY TreeAssumption DEF Rooted
<1>3. PICK n \in Nat \ {0} : n = Len(q)
  BY <1>2, Chain DEF Leads
<1>4. PICK m \in Nat : m = Len(p)
  BY <1>1
<1>5. n <= m /\ \A i \in 1..n : p[i] = q[i]
  <2>1. n <= m /\ SubSeq(q, 1, n) = SubSeq(p, 1, n)
    BY <1>1, <1>2, <1>3, <1>4 DEF IsPrefix
  <2>2. \A i \in 1..n : q[i] \in STRING /\ p[i] \in STRING
    BY <1>3, <1>4, <2>1
  <2>3. \A i \in 1..(n - 1 + 1) : SubSeq(q, 1, n)[i] = q[1 + i - 1]
    BY <2>2, SubSeqProperties
  <2>4. \A i \in 1..(n - 1 + 1) : SubSeq(p, 1, n)[i] = p[1 + i - 1]
    BY <2>2, SubSeqProperties
  <2>5. \A i \in 1..n : i \in 1..(n - 1 + 1) /\ 1 + i - 1 = i
    OBVIOUS
  <2> QED BY <2>1, <2>3, <2>4, <2>5
<1>6. p[1] = Root /\ \A i \in 2..m : p[i] \notin {Root, ".", ".."}
  BY <1>1, <1>4, Chain DEF Leads
<1>7. Plain(p) = p
  <2>1. Root \notin {".", ".."}
    BY DEF Root
  <2>2. \A i \in 1..Len(p) : p[i] \notin {".", ".."}
    BY <1>4, <1>6, <2>1
  <2> QED BY <2>2, PlainIs
<1>8. CASE p = q
  <2>1. get_current_path_abbreviated = <<"~">>
    BY <1>1, <1>2, <1>8 DEF get_current_path_abbreviated
  <2>2. Tail(<<"~">>) = << >> /\ <<"~">>[1] = "~"
    OBVIOUS
  <2>3. q \o << >> = q
    BY ConcatEmptySeq
  <2> QED BY <1>1, <1>2, <1>7, <1>8, <2>1, <2>2, <2>3
<1>9. CASE p # q
  <2>1. n < m
    <3> SUFFICES ASSUME n = m PROVE FALSE
      BY <1>5
    <3> QED BY <1>3, <1>4, <1>5, <1>9, SeqEqual
  <2> DEFINE r == SubSeq(p, n + 1, m)
  <2>2. get_current_path_abbreviated = Join(<<"~">>, r)
    <3>1. weakly_canonical(p) = p /\ weakly_canonical(q) = q
      BY <1>1, <1>2, CanonicalIs
    <3>2. self_lexically_relative(p, q) = r
      <4>1. q # << >> /\ n < Len(p) /\ n \in Nat
        BY <1>3, <1>4, <2>1
      <4>2. self_lexically_relative(p, q) = SubSeq(p, n + 1, Len(p))
        BY <1>3, <1>5, <4>1, RelativeIs
      <4> QED BY <1>4, <4>2
    <3> HIDE DEF r
    <3> QED BY <1>1, <1>2, <1>9, <3>1, <3>2 DEF get_current_path_abbreviated, relative
  <2>3. r \in Seq(STRING) /\ Len(r) = m - n /\ \A i \in 1..(m - n) : r[i] = p[n + i]
    <3>1. \A i \in (n + 1)..m : p[i] \in STRING
      BY <1>4
    <3>2. /\ r \in Seq(STRING) /\ Len(r) = IF n + 1 <= m THEN m - (n + 1) + 1 ELSE 0
          /\ \A i \in 1..(m - (n + 1) + 1) : r[i] = p[(n + 1) + i - 1]
      BY <3>1, SubSeqProperties
    <3> HIDE DEF r
    <3>3. m - (n + 1) + 1 = m - n /\ \A i \in 1..(m - n) : (n + 1) + i - 1 = n + i
      OBVIOUS
    <3> QED BY <2>1, <3>2, <3>3
  <2> HIDE DEF r
  <2>4. r # << >> /\ r[1] # Root
    <3>1. 1 \in 1..(m - n) /\ n + 1 \in 2..m
      BY <2>1
    <3> QED BY <1>6, <2>1, <2>3, <3>1
  <2>5. q \o r = p
    <3>1. /\ q \o r \in Seq(STRING) /\ Len(q \o r) = Len(q) + Len(r)
          /\ \A i \in 1..(Len(q) + Len(r)) : (q \o r)[i] = IF i <= Len(q) THEN q[i] ELSE r[i - Len(q)]
      BY <2>3, ConcatProperties
    <3>2. Len(q) + Len(r) = m
      BY <1>3, <2>3
    <3>3. ASSUME NEW i \in 1..m PROVE (q \o r)[i] = p[i]
      <4>1. (q \o r)[i] = IF i <= n THEN q[i] ELSE r[i - n]
        BY <1>3, <3>1, <3>2
      <4>2. CASE i <= n
        BY <1>5, <4>1, <4>2
      <4>3. CASE ~(i <= n)
        <5>1. i - n \in 1..(m - n) /\ n + (i - n) = i
          BY <4>3
        <5>2. r[i - n] = p[n + (i - n)]
          BY <2>3, <5>1
        <5> QED BY <4>1, <4>3, <5>1, <5>2
      <4> QED BY <4>2, <4>3
    <3> QED BY <1>4, <3>1, <3>2, <3>3, SeqEqual
  <2> QED BY <1>1, <1>2, <1>7, <2>2, <2>4, <2>5, <2>3, AfterTilde
<1> QED BY <1>8, <1>9

(* In every tree of directories, wherever its home and its working         *)
(* directory are and whatever another process removes: the prompt is right *)
(* (ccsh_utils.cpp:63-74, ccsh_filesystem.cpp:131-145).                    *)
THEOREM PromptRight == Spec => []Abbreviated
BY RootedInv, PromptIs, PTL

-----------------------------------------------------------------------------
(***************************************************************************)
(* The way that a path leads through the tree, and the path that remains   *)
(* of it for cd -L.                                                        *)
(***************************************************************************)

(* Where the kernel has come to from d after each of the n names of p.     *)
Run(m, d, p, n) ==
    /\ m \in [0..n -> Dir \cup {None}]
    /\ m[0] = d /\ Resolve(d, p) = m[n]
    /\ \A k \in 0..(n - 1) : m[k + 1] = Step(m[k], p[k + 1])

(* There is such a run.                                                    *)
LEMMA ResolveRun ==
    ASSUME Rooted, NEW d \in Dir \cup {None}, NEW p \in Seq(STRING),
           NEW n \in Nat \ {0}, n = Len(p)
    PROVE  \E m : Run(m, d, p, n)
<1>1. p # << >> OBVIOUS
<1>2. PICK m \in [0..Len(p) -> Dir \cup {None}] :
         /\ m[0] = d /\ Resolve(d, p) = m[Len(p)]
         /\ \A k \in 0..(Len(p) - 1) : m[k + 1] = Step(m[k], p[k + 1])
  BY <1>1, ResolveSteps
<1>3. m \in [0..n -> Dir \cup {None}] BY <1>2
<1>4. \A k \in 0..(n - 1) : m[k + 1] = Step(m[k], p[k + 1]) BY <1>2
<1>5. m[0] = d /\ Resolve(d, p) = m[n] BY <1>2
<1> QED BY <1>3, <1>4, <1>5 DEF Run

(* One path after another leads where the second leads from where the      *)
(* first does.                                                             *)
LEMMA ResolveJoined ==
    ASSUME Rooted, NEW d \in Dir \cup {None}, NEW p \in Seq(STRING), NEW q \in Seq(STRING),
           p # << >>, q # << >>
    PROVE  /\ Resolve(d, p) \in Dir \cup {None}
           /\ Resolve(d, p \o q) = Resolve(Resolve(d, p), q)
<1>1. PICK n1 \in Nat \ {0} : n1 = Len(p) OBVIOUS
<1>2. PICK n2 \in Nat \ {0} : n2 = Len(q) OBVIOUS
<1>3. PICK r \in Seq(STRING) :
         /\ r = p \o q /\ Len(r) = n1 + n2 /\ r # << >>
         /\ \A i \in 1..(n1 + n2) : r[i] = IF i <= n1 THEN p[i] ELSE q[i - n1]
  <2>1. /\ p \o q \in Seq(STRING) /\ Len(p \o q) = Len(p) + Len(q)
        /\ \A i \in 1..(Len(p) + Len(q)) : (p \o q)[i] = IF i <= Len(p) THEN p[i] ELSE q[i - Len(p)]
    BY ConcatProperties
  <2>2. PICK r : r = p \o q OBVIOUS
  <2>3. r \in Seq(STRING) /\ Len(r) = n1 + n2 BY <2>1, <2>2, <1>1, <1>2
  <2>4. \A i \in 1..(n1 + n2) : r[i] = IF i <= n1 THEN p[i] ELSE q[i - n1]
    BY <2>1, <2>2, <1>1, <1>2
  <2>5. r # << >> BY <2>3
  <2> QED BY <2>2, <2>3, <2>4, <2>5
<1>4. PICK m : Run(m, d, r, n1 + n2)
  <2>1. n1 + n2 \in Nat \ {0} OBVIOUS
  <2> QED BY <1>3, <2>1, ResolveRun
<1>5. PICK m1 : Run(m1, d, p, n1)
  BY <1>1, ResolveRun
<1>6. PICK e \in Dir \cup {None} : e = Resolve(d, p) BY <1>5 DEF Run
<1>7. PICK m2 : Run(m2, e, q, n2)
  BY <1>2, ResolveRun
<1>8. m[n1] = e
  <2> DEFINE T == {k \in 0..n1 : m[k] = m1[k]}
  <2>1. 0 \in T BY <1>4, <1>5 DEF Run
  <2>2. ASSUME NEW k \in 0..(n1 - 1), k \in T PROVE k + 1 \in T
    <3>1. k + 1 \in 1..n1 /\ k + 1 \in 0..n1 /\ k \in 0..(n1 + n2 - 1) /\ k + 1 \in 1..(n1 + n2) OBVIOUS
    <3>2. r[k + 1] = p[k + 1] BY <3>1, <1>3
    <3> QED BY <2>2, <3>1, <3>2, <1>4, <1>5 DEF Run
  <2>3. 0..n1 \subseteq T
    <3> HIDE DEF T
    <3> QED BY <2>1, <2>2, UpTo
  <2>4. n1 \in T BY <2>3
  <2> QED BY <2>4, <1>5, <1>6 DEF Run
<1>9. m[n1 + n2] = m2[n2]
  <2> DEFINE T == {k \in 0..n2 : m[n1 + k] = m2[k]}
  <2>1. 0 \in T BY <1>7, <1>8 DEF Run
  <2>2. ASSUME NEW k \in 0..(n2 - 1), k \in T PROVE k + 1 \in T
    <3>1. /\ k + 1 \in 0..n2 /\ n1 + k \in 0..(n1 + n2 - 1) /\ (n1 + k) + 1 \in 1..(n1 + n2)
          /\ (n1 + k) + 1 = n1 + (k + 1) /\ ~((n1 + k) + 1 <= n1) /\ ((n1 + k) + 1) - n1 = k + 1
      OBVIOUS
    <3>2. r[(n1 + k) + 1] = q[k + 1] BY <3>1, <1>3
    <3>3. m[(n1 + k) + 1] = Step(m[n1 + k], r[(n1 + k) + 1]) BY <3>1, <1>4 DEF Run
    <3>4. m2[k + 1] = Step(m2[k], q[k + 1]) BY <1>7 DEF Run
    <3> QED BY <2>2, <3>1, <3>2, <3>3, <3>4
  <2>3. 0..n2 \subseteq T
    <3> HIDE DEF T
    <3> QED BY <2>1, <2>2, UpTo
  <2>4. n2 \in T BY <2>3
  <2> QED BY <2>4
<1> QED BY <1>3, <1>4, <1>6, <1>7, <1>9 DEF Run

(* From nowhere a path leads nowhere.                                      *)
LEMMA ResolveNone ==
    ASSUME Rooted, NEW p \in Seq(STRING), p # << >>
    PROVE  Resolve(None, p) = None
<1>1. PICK n \in Nat \ {0} : n = Len(p) OBVIOUS
<1>2. PICK m : Run(m, None, p, n)
  <2>1. None \in Dir \cup {None} OBVIOUS
  <2> QED BY <1>1, <2>1, ResolveRun
<1> DEFINE T == {k \in 0..n : m[k] = None}
<1>3. 0 \in T BY <1>2 DEF Run
<1>4. ASSUME NEW k \in 0..(n - 1), k \in T PROVE k + 1 \in T
  <2>1. Step(None, p[k + 1]) = None BY DEF Step
  <2> QED BY <1>2, <1>4, <2>1 DEF Run
<1>5. 0..n \subseteq T
  <2> HIDE DEF T
  <2> QED BY <1>3, <1>4, UpTo
<1> QED BY <1>2, <1>5 DEF Run

(* A sequence of one element.                                              *)
LEMMA Single ==
    ASSUME NEW S, NEW x \in S
    PROVE  <<x>> \in Seq(S) /\ Len(<<x>>) = 1 /\ <<x>>[1] = x /\ <<x>> # << >>
OBVIOUS

(* What has elements is not empty.                                         *)
LEMMA NotEmpty == ASSUME NEW s, Len(s) # 0 PROVE s # << >>
OBVIOUS

(* A longer one is not.                                                    *)
LEMMA LongerPath == ASSUME NEW p, NEW x, Len(p) # 1 PROVE p # <<x>>
<1> SUFFICES ASSUME p = <<x>> PROVE FALSE OBVIOUS
<1>1. Len(<<x>>) = 1 OBVIOUS
<1> QED BY <1>1

(* A path of one name.                                                     *)
LEMMA ResolveOne ==
    ASSUME Rooted, NEW d \in Dir \cup {None}, NEW name \in STRING
    PROVE  Resolve(d, <<name>>) = Step(d, name)
<1>1. PICK p \in Seq(STRING) : p = <<name>> /\ Len(p) = 1 /\ p[1] = name BY Single
<1>2. PICK n \in Nat \ {0} : n = 1 OBVIOUS
<1>3. PICK m : Run(m, d, p, n)
  BY <1>1, <1>2, ResolveRun
<1>4. m[0] = d /\ Resolve(d, p) = m[1] BY <1>2, <1>3 DEF Run
<1>5. m[0 + 1] = Step(m[0], p[0 + 1]) BY <1>2, <1>3 DEF Run
<1>6. m[1] = Step(d, name)
  <2>1. 0 + 1 = 1 OBVIOUS
  <2> QED BY <1>1, <1>4, <1>5, <2>1
<1> QED BY <1>1, <1>4, <1>6

(* A path is its first name and the others.                                *)
LEMMA Split ==
    ASSUME NEW p \in Seq(STRING), Len(p) > 1
    PROVE  /\ p = <<p[1]>> \o Tail(p) /\ <<p[1]>> \in Seq(STRING) /\ p[1] \in STRING
           /\ Tail(p) \in Seq(STRING) /\ Tail(p) # << >>
           /\ Len(Tail(p)) = Len(p) - 1 /\ \A i \in 1..Len(Tail(p)) : Tail(p)[i] = p[i + 1]
<1>1. /\ Tail(p) \in Seq(STRING) /\ Len(Tail(p)) = Len(p) - 1
      /\ \A i \in 1..Len(Tail(p)) : Tail(p)[i] = p[i + 1]
  BY HeadTailProperties
<1>2. Tail(p) # << >>
  <2>1. PICK l \in Nat : l = Len(p) OBVIOUS
  <2>2. l - 1 # 0
    <3>1. l > 1 BY <2>1
    <3> QED BY ONLY <3>1, l \in Nat
  <2>3. Len(Tail(p)) # 0 BY <1>1, <2>1, <2>2
  <2> QED BY <2>3, NotEmpty
<1>3. <<p[1]>> \in Seq(STRING) /\ p[1] \in STRING /\ Len(<<p[1]>>) = 1 OBVIOUS
<1>4. PICK q \in Seq(STRING) :
        /\ q = <<p[1]>> \o Tail(p) /\ Len(q) = Len(p)
        /\ \A i \in 1..Len(p) : q[i] = IF i <= 1 THEN p[1] ELSE Tail(p)[i - 1]
  <2>1. /\ <<p[1]>> \o Tail(p) \in Seq(STRING) /\ Len(<<p[1]>> \o Tail(p)) = 1 + Len(Tail(p))
        /\ \A i \in 1..(1 + Len(Tail(p))) : (<<p[1]>> \o Tail(p))[i] =
                IF i <= 1 THEN <<p[1]>>[i] ELSE Tail(p)[i - 1]
    BY <1>1, <1>3, ConcatProperties
  <2>2. 1 + Len(Tail(p)) = Len(p) BY <1>1
  <2> QED BY <2>1, <2>2
<1>5. \A i \in 1..Len(p) : q[i] = p[i]
  <2> TAKE i \in 1..Len(p)
  <2>1. CASE i <= 1 BY <1>4, <2>1
  <2>2. CASE ~(i <= 1)
    <3>1. i - 1 \in 1..Len(Tail(p)) /\ (i - 1) + 1 = i BY <1>1, <2>2
    <3> QED BY <1>1, <1>4, <2>2, <3>1
  <2> QED BY <2>1, <2>2
<1>6. q = p BY <1>4, <1>5, SeqEqual
<1> QED BY <1>1, <1>2, <1>3, <1>4, <1>6

(* An absolute path leads to the same directory from everywhere.           *)
LEMMA FromRoot ==
    ASSUME Rooted, NEW d \in Dir, NEW p \in Seq(STRING), Len(p) > 1, p[1] = Root
    PROVE  Resolve(d, p) = Resolve(Root, Tail(p))
<1>1. /\ p = <<p[1]>> \o Tail(p) /\ <<p[1]>> \in Seq(STRING) /\ p[1] \in STRING
      /\ Tail(p) \in Seq(STRING) /\ Tail(p) # << >>
  BY Split
<1>2. <<p[1]>> # << >> OBVIOUS
<1>3. Resolve(d, <<p[1]>> \o Tail(p)) = Resolve(Resolve(d, <<p[1]>>), Tail(p))
  BY <1>1, <1>2, ResolveJoined
<1>4. Resolve(d, <<p[1]>>) = Step(d, p[1]) BY <1>1, ResolveOne
<1>5. Step(d, Root) = Root
  <2>1. d # None BY TreeAssumption
  <2>2. Root # "." /\ Root # ".." BY DEF Root
  <2> QED BY <2>1, <2>2 DEF Step
<1> QED BY <1>1, <1>3, <1>4, <1>5

(* Nor does a path lead anywhere whose first name is not in the directory. *)
LEMMA FirstName ==
    ASSUME Rooted, NEW d \in Dir \cup {None}, NEW p \in Seq(STRING), p # << >>,
           p[1] \notin {Root, ".", ".."}, d # None => p[1] \notin DOMAIN Entries[d]
    PROVE  Resolve(d, p) = None
<1>1. p[1] \in STRING OBVIOUS
<1>2. Step(d, p[1]) = None BY DEF Step
<1>3. Resolve(d, <<p[1]>>) = None BY <1>1, <1>2, ResolveOne
<1>4. CASE Len(p) = 1
  <2>1. p = <<p[1]>>
    <3>1. <<p[1]>> \in Seq(STRING) /\ Len(<<p[1]>>) = 1 /\ <<p[1]>>[1] = p[1] BY <1>1
    <3>2. \A i \in 1..Len(p) : p[i] = <<p[1]>>[i] BY <1>4, <3>1
    <3> QED BY <1>4, <3>1, <3>2, SeqEqual
  <2> QED BY <1>3, <2>1
<1>5. CASE Len(p) # 1
  <2>1. Len(p) > 1
    <3>1. PICK n \in Nat \ {0} : n = Len(p) BY EmptySeq
    <3>2. n > 1 BY ONLY <1>5, <3>1
    <3> QED BY <3>1, <3>2
  <2>2. /\ p = <<p[1]>> \o Tail(p) /\ <<p[1]>> \in Seq(STRING)
        /\ Tail(p) \in Seq(STRING) /\ Tail(p) # << >>
    BY <2>1, Split
  <2>3. <<p[1]>> # << >> OBVIOUS
  <2>4. Resolve(d, <<p[1]>> \o Tail(p)) = Resolve(Resolve(d, <<p[1]>>), Tail(p))
    BY <2>2, <2>3, ResolveJoined
  <2> QED BY <1>3, <2>2, <2>4, ResolveNone
<1> QED BY <1>4, <1>5

(* What self_lexically_normal collects.                                    *)
Temp(p) == FoldLeftDomain(LAMBDA t, i : NormalStep(p, i, t), << >>, p)

(* Its loop keeps to sequences of names.                                   *)
LEMMA NormalStepType ==
    ASSUME NEW p \in Seq(STRING), NEW i \in 1..Len(p), NEW t \in Seq(STRING)
    PROVE  NormalStep(p, i, t) \in Seq(STRING)
<1>1. p[i] \in STRING OBVIOUS
<1>2. Append(t, p[i]) \in Seq(STRING) BY <1>1, AppendProperties
<1>3. Last(p) = "." => <<".">> \in Seq(STRING)
  <2>1. PICK n \in Nat : n = Len(p) OBVIOUS
  <2>2. n \in 1..Len(p) BY <2>1
  <2>3. Last(p) \in STRING BY <2>1, <2>2 DEF Last
  <2> QED BY <2>3, Single
<1>4. CASE p[i] = "." /\ i # 1 /\ i # Len(p) BY <1>4 DEF NormalStep
<1>5. CASE p[i] = ".." /\ t # << >> /\ Last(t) \notin Spared
  <2>1. Front(t) \in Seq(STRING) BY <1>5, FrontIs
  <2>2. NormalStep(p, i, t) =
           IF Len(t) = 1 /\ i + 1 = Len(p) /\ Last(p) = "." THEN <<".">> ELSE Front(t)
    BY <1>5 DEF NormalStep
  <2> QED BY <1>3, <2>1, <2>2
<1>6. CASE /\ ~(p[i] = "." /\ i # 1 /\ i # Len(p))
           /\ ~(p[i] = ".." /\ t # << >> /\ Last(t) \notin Spared)
  BY <1>2, <1>6 DEF NormalStep
<1> QED BY <1>4, <1>5, <1>6

(* What it has of p after each of its n names.                             *)
NormalRun(s, p, n) ==
    /\ s \in [0..n -> Seq(STRING)]
    /\ s[0] = << >> /\ Temp(p) = s[n]
    /\ \A k \in 0..(n - 1) : s[k + 1] = NormalStep(p, k + 1, s[k])

(* There is such a run.                                                    *)
LEMMA NormalSteps ==
    ASSUME NEW p \in Seq(STRING), NEW n \in Nat, n = Len(p)
    PROVE  \E s : NormalRun(s, p, n)
<1> DEFINE X == Seq(STRING)
           g == [q \in X \X (1..n) |-> NormalStep(p, q[2], q[1])]
           idx == [i \in DOMAIN p |-> i]
           Fold(f) == [S \in SUBSET DOMAIN idx |->
                          IF S = {} THEN << >>
                          ELSE LET x == Max(S) IN NormalStep(p, idx[x], f[S \ {x}])]
           f == CHOOSE h : h = Fold(h)
<1>1. Temp(p) = f[DOMAIN idx]
  BY DEF Temp, FoldLeftDomain, FoldLeft, MapThenFoldSet
<1>2. DOMAIN idx = 1..n /\ \A i \in 1..n : idx[i] = i
  OBVIOUS
<1>4. /\ g \in [X \X (1..n) -> X] /\ << >> \in X
      /\ \A q \in X \X (1..n) : g[q] = NormalStep(p, q[2], q[1])
  <2>1. \A q \in X \X (1..n) : q[1] \in X /\ q[2] \in 1..Len(p)
    OBVIOUS
  <2>2. \A q \in X \X (1..n) : NormalStep(p, q[2], q[1]) \in X
    BY <2>1, NormalStepType
  <2> QED BY <2>2
<1> HIDE DEF g, X, idx
<1>5. PICK h \in [SUBSET (1..n) -> X] : Folded(h, << >>, g, n)
  BY <1>4, FoldExists
<1>6. f = Fold(f)
  <2>1. ASSUME NEW S \in SUBSET (1..n), S # {}
        PROVE  h[S] = NormalStep(p, idx[Max(S)], h[S \ {Max(S)}])
    <3>1. S \in SUBSET (0..n)
      OBVIOUS
    <3>2. Max(S) \in 1..n
      BY <3>1, <2>1, MaxIn
    <3>3. S \ {Max(S)} \in SUBSET (1..n)
      OBVIOUS
    <3>4. <<h[S \ {Max(S)}], Max(S)>> \in X \X (1..n)
      BY <3>2, <3>3
    <3>5. h[S] = g[<<h[S \ {Max(S)}], Max(S)>>]
      BY <1>5, <2>1 DEF Folded
    <3>6. g[<<h[S \ {Max(S)}], Max(S)>>] = NormalStep(p, Max(S), h[S \ {Max(S)}])
      BY <3>4, <1>4
    <3> QED BY <3>2, <3>5, <3>6, <1>2
  <2>2. h[{}] = << >>
    BY <1>5 DEF Folded
  <2>3. h = Fold(h)
    BY <2>1, <2>2, <1>2
  <2> HIDE DEF Fold
  <2> QED BY <2>3
<1> HIDE DEF f
<1>7. ASSUME NEW k \in 0..(n - 1) PROVE f[1..(k + 1)] = NormalStep(p, k + 1, f[1..k])
  <2>1. k + 1 \in 1..n /\ (k + 1) - 1 = k
    OBVIOUS
  <2>2. /\ Max(1..(k + 1)) = k + 1 /\ (1..(k + 1)) \ {k + 1} = 1..k
        /\ 1..(k + 1) # {} /\ 1..(k + 1) \in SUBSET (1..n)
    BY <2>1, Upper
  <2>3. f[1..(k + 1)] = NormalStep(p, idx[Max(1..(k + 1))], f[(1..(k + 1)) \ {Max(1..(k + 1))}])
    BY <2>2, <1>2, <1>6
  <2> QED BY <2>1, <2>2, <2>3, <1>2
<1>8. f[1..0] = << >>
  <2>1. 1..0 = {}
    OBVIOUS
  <2> QED BY <2>1, <1>6
<1> DEFINE m == [k \in 0..n |-> f[1..k]]
           T == {k \in 0..n : m[k] \in X}
<1>9. m \in [0..n -> X]
  <2>1. 0 \in T
    BY <1>4, <1>8
  <2>2. ASSUME NEW k \in 0..(n - 1), k \in T PROVE k + 1 \in T
    <3>1. k + 1 \in 0..n /\ k \in 0..n /\ k + 1 \in 1..Len(p)
      OBVIOUS
    <3>2. m[k + 1] = NormalStep(p, k + 1, m[k])
      BY <3>1, <1>7
    <3>3. m[k] \in Seq(STRING) BY <2>2, <3>1 DEF X
    <3>4. NormalStep(p, k + 1, m[k]) \in X
      <4> HIDE DEF m
      <4> QED BY <3>1, <3>3, NormalStepType DEF X
    <3> QED BY <3>1, <3>2, <3>4
  <2>3. 0..n \subseteq T
    <3> HIDE DEF T
    <3> QED BY <2>1, <2>2, UpTo
  <2> QED BY <2>3
<1>10. m[0] = << >> /\ m[n] = Temp(p)
  BY <1>1, <1>2, <1>8
<1>11. \A k \in 0..(n - 1) : m[k + 1] = NormalStep(p, k + 1, m[k])
  BY <1>7
<1> HIDE DEF m
<1> QED BY <1>9, <1>10, <1>11 DEF NormalRun, X

(* What Plain has after k names is what it makes of these alone.           *)
LEMMA PlainPrefix ==
    ASSUME NEW q \in Seq(STRING), NEW n \in Nat, n = Len(q), NEW t, PlainRun(t, q, n), NEW k \in 0..n
    PROVE  Plain(SubSeq(q, 1, k)) = t[k]
<1>1. PICK r \in Seq(STRING) :
        r = SubSeq(q, 1, k) /\ Len(r) = k /\ \A i \in 1..k : r[i] = q[i]
  <2>1. \A i \in 1..k : q[i] \in STRING OBVIOUS
  <2>2. /\ SubSeq(q, 1, k) \in Seq(STRING)
        /\ Len(SubSeq(q, 1, k)) = IF 1 <= k THEN k - 1 + 1 ELSE 0
        /\ \A i \in 1..(k - 1 + 1) : SubSeq(q, 1, k)[i] = q[1 + i - 1]
    <3>1. 1 \in Int /\ k \in Int OBVIOUS
    <3> QED BY <2>1, <3>1, SubSeqProperties
  <2>3. /\ (IF 1 <= k THEN k - 1 + 1 ELSE 0) = k /\ k - 1 + 1 = k
        /\ \A i \in 1..k : 1 + i - 1 = i
    OBVIOUS
  <2>4. \A i \in 1..k : SubSeq(q, 1, k)[i] = q[i] BY <2>2, <2>3
  <2> QED BY <2>2, <2>3, <2>4
<1>2. k \in Nat OBVIOUS
<1>3. PICK u : PlainRun(u, r, k) BY <1>1, <1>2, PlainSteps
<1> DEFINE T == {j \in 0..k : u[j] = t[j]}
<1>4. 0 \in T BY <1>3 DEF PlainRun
<1>5. ASSUME NEW j \in 0..(k - 1), j \in T PROVE j + 1 \in T
  <2>1. j + 1 \in 0..k /\ j + 1 \in 1..k /\ j \in 0..(n - 1) OBVIOUS
  <2>2. u[j + 1] = PlainStep(u[j], r[j + 1]) BY <1>3 DEF PlainRun
  <2>3. t[j + 1] = PlainStep(t[j], q[j + 1]) BY <2>1 DEF PlainRun
  <2> QED BY <1>1, <1>5, <2>1, <2>2, <2>3
<1>6. 0..k \subseteq T
  <2> HIDE DEF T
  <2> QED BY <1>2, <1>4, <1>5, UpTo
<1>7. u[k] = t[k] BY <1>6
<1> QED BY <1>1, <1>3, <1>7 DEF PlainRun

(* Whenever a path says .. , more than the root is left before it, and the *)
(* last name there is none that self_lexically_normal spares.              *)
Climbs(q) ==
    \A k \in 1..Len(q) :
        q[k] = ".." => LET t == Plain(SubSeq(q, 1, k - 1)) IN Len(t) > 1 /\ Last(t) \notin Spared

(* A "." at the end leads nowhere else.                                    *)
LEMMA DotEnd ==
    ASSUME Rooted, NEW e \in Dir, NEW v \in Seq(STRING), v # << >>, "." \in STRING
    PROVE  Resolve(e, Append(v, ".")) = Resolve(e, v)
<1>1. Append(v, ".") = v \o <<".">> OBVIOUS
<1>2. <<".">> \in Seq(STRING) /\ <<".">> # << >> BY Single
<1>3. PICK d \in Dir \cup {None} : d = Resolve(e, v) BY <1>2, ResolveJoined
<1>4. Resolve(e, v \o <<".">>) = Resolve(d, <<".">>) BY <1>2, <1>3, ResolveJoined
<1>5. Resolve(d, <<".">>) = Step(d, ".") BY ResolveOne
<1>6. Step(d, ".") = d
  <2>1. CASE d = None BY <2>1 DEF Step
  <2>2. CASE d # None
    <3>1. "." # Root BY DEF Root
    <3> QED BY <2>2, <3>1 DEF Step
  <2> QED BY <2>1, <2>2
<1> QED BY <1>1, <1>3, <1>4, <1>5, <1>6

(* On such a path self_lexically_normal does what Plain does, but for a    *)
(* "." at the end.                                                         *)
LEMMA SameWay ==
    ASSUME Rooted, NEW e \in Dir, NEW q \in Seq(STRING), q # << >>, q[1] = Root, Climbs(q)
    PROVE  Resolve(e, self_lexically_normal(q)) = Resolve(e, Plain(q))
<1>1. PICK n \in Nat \ {0} : n = Len(q) BY EmptySeq
<1>2. PICK t : PlainRun(t, q, n) BY <1>1, PlainSteps
<1>3. PICK s : NormalRun(s, q, n) BY <1>1, NormalSteps
<1>4. /\ t \in [0..n -> Seq(STRING)] /\ t[0] = << >> /\ Plain(q) = t[n]
      /\ \A k \in 0..(n - 1) : t[k + 1] = PlainStep(t[k], q[k + 1])
  BY <1>2 DEF PlainRun
<1>5. /\ s[0] = << >> /\ Temp(q) = s[n]
      /\ \A k \in 0..(n - 1) : s[k + 1] = NormalStep(q, k + 1, s[k])
  BY <1>3 DEF NormalRun
<1> DEFINE Same(k) == (k < n \/ q[n] # "." => s[k] = t[k]) /\ (k > 0 => t[k] # << >>)
           T == {k \in 0..n : Same(k)}
<1>6. 0 \in T
  <2>1. Same(0) BY <1>4, <1>5
  <2> QED BY <2>1
<1>7. ASSUME NEW k \in 0..(n - 1), k \in T PROVE k + 1 \in T
  <2>1. PICK v \in Seq(STRING) : v = t[k] BY <1>4
  <2>2. s[k] = v /\ (k > 0 => v # << >>) BY <1>7, <2>1
  <2>3. PICK i \in 1..n : i = k + 1 OBVIOUS
  <2>4. PICK name \in STRING : name = q[i]
    <3>1. i \in 1..Len(q) BY <1>1
    <3>2. q[i] \in STRING BY <3>1, ElementOfSeq
    <3> QED BY <3>2
  <2>5. t[i] = PlainStep(v, name) /\ s[i] = NormalStep(q, i, v) BY <1>4, <1>5, <2>1, <2>2, <2>3, <2>4
  <2>6. name \in {".", ".."} => i # 1 /\ v # << >>
    <3>1. Root \notin {".", ".."} BY DEF Root
    <3> QED BY <2>2, <2>3, <2>4, <3>1
  <2>7. CASE name = "."
    <3>1. t[i] = v BY <2>5, <2>7 DEF PlainStep
    <3>2. i # n => s[i] = v BY <1>1, <2>4, <2>5, <2>6, <2>7 DEF NormalStep
    <3>3. i < n \/ q[n] # "." => s[i] = v
      <4>1. CASE i = n
        <5>1. ~(i < n) BY ONLY <4>1, n \in Nat
        <5>2. q[n] = "." BY <2>4, <2>7, <4>1
        <5> QED BY <5>1, <5>2
      <4>2. CASE i # n BY <3>2, <4>2
      <4> QED BY <4>1, <4>2
    <3>4. Same(i) BY <2>6, <2>7, <3>1, <3>3
    <3> QED BY <2>3, <3>4
  <2>8. CASE name = ".."
    <3>1. Plain(SubSeq(q, 1, i - 1)) = v
      <4>1. k \in 0..n /\ i - 1 = k BY <2>3
      <4> QED BY <1>1, <1>2, <2>1, <4>1, PlainPrefix
    <3>2. Len(v) > 1 /\ Last(v) \notin Spared BY <1>1, <2>4, <2>8, <3>1 DEF Climbs
    <3>3. t[i] = Front(v) BY <2>5, <2>8, <3>2 DEF PlainStep
    <3>4. s[i] = Front(v)
      <4>1. Len(v) # 1 /\ v # << >>
        <5>1. PICK l : l = Len(v) OBVIOUS
        <5>2. l # 1 BY ONLY <3>2, <5>1
        <5> QED BY <2>6, <2>8, <5>1, <5>2
      <4>2. q[i] # "." BY <2>4, <2>8
      <4> QED BY <2>4, <2>5, <2>8, <3>2, <4>1, <4>2 DEF NormalStep
    <3>5. Front(v) # << >>
      <4>1. PICK l \in Nat : l = Len(v) OBVIOUS
      <4>2. Len(Front(v)) = l - 1 BY <2>6, <2>8, <4>1, FrontIs
      <4>3. l > 1 BY <3>2, <4>1
      <4>4. l - 1 # 0 BY ONLY <4>3, l \in Nat
      <4>5. Len(Front(v)) # 0 BY <4>2, <4>4
      <4> QED BY <4>5, NotEmpty
    <3>6. Same(i) BY <3>3, <3>4, <3>5
    <3> QED BY <2>3, <3>6
  <2>9. CASE name \notin {".", ".."}
    <3>1. t[i] = Append(v, name) BY <2>5, <2>9 DEF PlainStep
    <3>2. s[i] = Append(v, name) BY <2>4, <2>5, <2>9 DEF NormalStep
    <3>3. Append(v, name) # << >>
      <4>1. Len(Append(v, name)) = Len(v) + 1 /\ Len(v) \in Nat BY AppendProperties
      <4>2. Len(Append(v, name)) # 0 BY <4>1
      <4> QED BY <4>2, NotEmpty
    <3>4. Same(i) BY <3>1, <3>2, <3>3
    <3> QED BY <2>3, <3>4
  <2> QED BY <2>7, <2>8, <2>9
<1>8. 0..n \subseteq T
  <2> HIDE DEF T
  <2> QED BY <1>6, <1>7, UpTo
<1>9. Same(n) BY <1>8
<1>10. Temp(q) # << >> => self_lexically_normal(q) = Temp(q)
  BY DEF self_lexically_normal, Temp
<1>11. CASE q[n] # "."
  BY <1>4, <1>5, <1>9, <1>10, <1>11
<1>12. CASE q[n] = "."
  <2>1. n # 1
    <3>1. Root # "." BY DEF Root
    <3> QED BY <1>12, <3>1
  <2>2. PICK k \in 0..(n - 1) : k + 1 = n
    <3>1. n - 1 \in 0..(n - 1) /\ (n - 1) + 1 = n OBVIOUS
    <3> QED BY <3>1
  <2>3. k \in T /\ k < n /\ k > 0 BY <1>8, <2>1, <2>2
  <2>4. PICK v \in Seq(STRING) : v = t[k] /\ s[k] = v /\ v # << >> BY <1>4, <2>3
  <2>5. q[n] \in STRING BY <1>1
  <2>6. t[n] = v
    <3>1. t[n] = PlainStep(v, q[n]) BY <1>4, <2>2, <2>4
    <3> QED BY <1>12, <3>1 DEF PlainStep
  <2>7. s[n] = Append(v, ".")
    <3>1. s[n] = NormalStep(q, n, v) BY <1>5, <2>2, <2>4
    <3>2. q[n] # ".." BY <1>12
    <3> QED BY <1>1, <1>12, <3>1, <3>2 DEF NormalStep
  <2>8. Append(v, ".") # << >>
    <3>1. Len(Append(v, q[n])) = Len(v) + 1 /\ Len(v) \in Nat BY <2>5, AppendProperties
    <3>2. Len(Append(v, ".")) # 0 BY <1>12, <3>1
    <3> QED BY <3>2, NotEmpty
  <2>9. Resolve(e, Append(v, ".")) = Resolve(e, v) BY <1>12, <2>4, <2>5, DotEnd
  <2> QED BY <1>4, <1>5, <1>10, <2>6, <2>7, <2>8, <2>9
<1> QED BY <1>11, <1>12

(* No name of a path is . or .. .                                          *)
NoDots(p) == \A i \in 1..Len(p) : p[i] \notin {".", ".."}

(* Nothing is to be done with it.                                          *)
LEMMA NoDotsClimbs ==
    ASSUME NEW p \in Seq(STRING), NoDots(p)
    PROVE  Climbs(p) /\ Plain(p) = p
BY PlainIs DEF NoDots, Climbs

(* The path of a directory that is there.                                  *)
LEMMA PathIs ==
    ASSUME Rooted, NEW d \in live
    PROVE  /\ d \in Dir /\ PathOf[d] \in Seq(STRING) /\ PathOf[d] # << >> /\ PathOf[d][1] = Root
           /\ NoDots(PathOf[d])
<1>1. PICK p \in Seq(STRING) : p = PathOf[d] BY TreeAssumption DEF Rooted
<1>2. PICK a \in [1..Len(p) -> live] : Leads(a, p) BY <1>1, Chain
<1>3. p[1] = Root /\ Len(p) # 0 /\ \A k \in 2..Len(p) : p[k] \notin {Root, ".", ".."}
  BY <1>2 DEF Leads
<1>4. Root \notin {".", ".."} BY DEF Root
<1>5. \A k \in 1..Len(p) : k = 1 \/ k \in 2..Len(p) OBVIOUS
<1>6. NoDots(p) BY <1>3, <1>4, <1>5 DEF NoDots
<1>7. p # << >> BY <1>3, NotEmpty
<1> QED BY <1>1, <1>3, <1>6, <1>7 DEF Rooted

(* What two paths are together.                                            *)
LEMMA Together ==
    ASSUME NEW p \in Seq(STRING), NEW q \in Seq(STRING), p # << >>
    PROVE  /\ p \o q \in Seq(STRING) /\ p \o q # << >> /\ (p \o q)[1] = p[1]
           /\ Len(p \o q) = Len(p) + Len(q)
           /\ \A i \in 1..Len(q) : (p \o q)[Len(p) + i] = q[i]
           /\ NoDots(p) /\ NoDots(q) => NoDots(p \o q)
<1>1. PICK n \in Nat \ {0} : n = Len(p) BY EmptySeq
<1>2. PICK m \in Nat : m = Len(q) OBVIOUS
<1>3. PICK r : r = p \o q OBVIOUS
<1>4. r \in Seq(STRING) /\ Len(r) = n + m /\ \A i \in 1..(n + m) : r[i] = IF i <= n THEN p[i] ELSE q[i - n]
  <2>1. /\ p \o q \in Seq(STRING) /\ Len(p \o q) = Len(p) + Len(q)
        /\ \A i \in 1..(Len(p) + Len(q)) : (p \o q)[i] = IF i <= Len(p) THEN p[i] ELSE q[i - Len(p)]
    BY ConcatProperties
  <2>2. Len(r) = n + m BY <2>1, <1>1, <1>2, <1>3
  <2>3. \A i \in 1..(n + m) : r[i] = IF i <= n THEN p[i] ELSE q[i - n] BY <2>1, <1>1, <1>2, <1>3
  <2> QED BY <2>1, <2>2, <2>3, <1>3
<1>5. r[1] = p[1]
  <2>1. 1 \in 1..(n + m) /\ 1 <= n OBVIOUS
  <2> QED BY <2>1, <1>4
<1>6. \A i \in 1..m : r[n + i] = q[i]
  <2> TAKE i \in 1..m
  <2>1. n + i \in 1..(n + m) /\ ~(n + i <= n) /\ (n + i) - n = i OBVIOUS
  <2> QED BY <2>1, <1>4
<1>7. ASSUME NoDots(p), NoDots(q) PROVE NoDots(r)
  <2> SUFFICES ASSUME NEW i \in 1..(n + m) PROVE r[i] \notin {".", ".."} BY <1>4 DEF NoDots
  <2>1. CASE i <= n
    <3>1. i \in 1..n BY <2>1
    <3> QED BY <1>1, <1>4, <1>7, <2>1, <3>1 DEF NoDots
  <2>2. CASE ~(i <= n)
    <3>1. i - n \in 1..m BY <2>2
    <3> QED BY <1>2, <1>4, <1>7, <2>2, <3>1 DEF NoDots
  <2> QED BY <2>1, <2>2
<1>8. r # << >>
  <2>1. Len(r) # 0 BY <1>4
  <2> QED BY <2>1, NotEmpty
<1> QED BY <1>1, <1>2, <1>3, <1>4, <1>5, <1>6, <1>7, <1>8

(* A relative path leads from the path of the working directory where it   *)
(* leads from the directory.                                               *)
LEMMA FromHere ==
    ASSUME Rooted, cwd \in live, NEW p \in Seq(STRING), p # << >>
    PROVE  Resolve(cwd, PathOf[cwd] \o p) = Resolve(cwd, p)
<1>1. PICK d \in Dir : d = cwd BY PathIs
<1>2. PathOf[d] \in Seq(STRING) /\ PathOf[d] # << >> BY <1>1, PathIs
<1>3. Resolve(d, PathOf[d]) = d BY <1>1, ResolvesTo
<1>4. d \in Dir \cup {None} OBVIOUS
<1>5. Resolve(d, PathOf[d] \o p) = Resolve(Resolve(d, PathOf[d]), p) BY <1>2, <1>4, ResolveJoined
<1> QED BY <1>1, <1>3, <1>5

(* cd goes where it should, with a path that does not begin with the root. *)
LEMMA RelativeMeant ==
    ASSUME Rooted, cwd \in live, NEW p \in Seq(STRING), p # << >>, ~IsAbsolute(p),
           NEW logical \in BOOLEAN, logical => Climbs(PathOf[cwd] \o p)
    PROVE  /\ change_to_directory(p, logical) = Meant(p, logical)
           /\ NoDots(p) => Meant(p, logical) = Resolve(cwd, p)
<1>1. cwd \in Dir /\ PathOf[cwd] \in Seq(STRING) /\ PathOf[cwd] # << >> /\ PathOf[cwd][1] = Root /\ NoDots(PathOf[cwd])
  BY PathIs
<1>2. p # <<Root>> BY DEF IsAbsolute
<1>3. PICK q : q = PathOf[cwd] \o p OBVIOUS
<1>4. q \in Seq(STRING) /\ q # << >> /\ q[1] = Root /\ (NoDots(p) => NoDots(q)) BY <1>1, <1>3, Together
<1>5. Join(PathOf[cwd], p) = q BY <1>1, <1>2, <1>3 DEF Join
<1>6. From(PathOf[cwd], p) = q BY <1>3 DEF From
<1>7. CASE logical
  <2>1. Climbs(q) BY <1>3, <1>7
  <2>2. Resolve(cwd, self_lexically_normal(q)) = Resolve(cwd, Plain(q)) BY <1>1, <1>4, <2>1, SameWay
  <2>3. change_to_directory(p, logical) = Meant(p, logical)
    BY <1>5, <1>6, <2>2 DEF change_to_directory, Meant
  <2>4. NoDots(p) => Resolve(cwd, Plain(q)) = Resolve(cwd, p)
    <3>1. NoDots(p) => Plain(q) = q BY <1>4, NoDotsClimbs
    <3> QED BY <1>3, <3>1, FromHere
  <2> QED BY <1>6, <2>3, <2>4 DEF Meant
<1>8. CASE ~logical BY <1>8 DEF change_to_directory, Meant
<1> QED BY <1>7, <1>8

(* An absolute path without . and .. whose first name only the root has.   *)
Own(p) ==
    /\ Len(p) > 1 /\ NoDots(p) /\ p[2] # Root
    /\ \A d \in Dir \ {Root} : p[2] \notin DOMAIN Entries[d]

(* The rest of such a path leads somewhere from the root only.             *)
LEMMA OwnRest ==
    ASSUME Rooted, NEW p \in Seq(STRING), p[1] = Root, Own(p), NEW d \in Dir \cup {None}
    PROVE  Resolve(d, Tail(p)) = IF d = Root THEN Resolve(Root, Tail(p)) ELSE None
<1>1. /\ Tail(p) \in Seq(STRING) /\ Tail(p) # << >> /\ Tail(p)[1] = p[2]
      /\ p[2] \notin {Root, ".", ".."}
  <2>1. Len(p) > 1 BY DEF Own
  <2>2. /\ Tail(p) \in Seq(STRING) /\ Tail(p) # << >>
        /\ Len(Tail(p)) = Len(p) - 1 /\ \A i \in 1..Len(Tail(p)) : Tail(p)[i] = p[i + 1]
    BY <2>1, Split
  <2>3. 1 \in 1..Len(Tail(p)) /\ 2 \in 1..Len(p)
    <3>1. Len(p) \in Nat OBVIOUS
    <3> QED BY <2>1, <2>2, <3>1
  <2>4. Tail(p)[1] = p[2] BY <2>2, <2>3
  <2> QED BY <2>2, <2>3, <2>4 DEF Own, NoDots
<1>2. CASE d = Root BY <1>2
<1>3. CASE d # Root
  <2>1. d # None => Tail(p)[1] \notin DOMAIN Entries[d] BY <1>1, <1>3 DEF Own
  <2>2. Resolve(d, Tail(p)) = None BY <1>1, <2>1, FirstName
  <2> QED BY <1>3, <2>2
<1> QED BY <1>2, <1>3

(* cd goes where it should with such a path.                               *)
LEMMA OwnMeant ==
    ASSUME Rooted, cwd \in live, NEW p \in Seq(STRING), p[1] = Root, Own(p), NEW logical \in BOOLEAN
    PROVE  change_to_directory(p, logical) = Resolve(cwd, p) /\ Meant(p, logical) = Resolve(cwd, p)
<1>1. cwd \in Dir /\ PathOf[cwd] \in Seq(STRING) /\ PathOf[cwd] # << >> /\ PathOf[cwd][1] = Root /\ NoDots(PathOf[cwd])
  BY PathIs
<1>2. Len(p) > 1 /\ NoDots(p) BY DEF Own
<1>3. p # << >> BY <1>2
<1>4. IsAbsolute(p) BY <1>3 DEF IsAbsolute
<1>5. Tail(p) \in Seq(STRING) /\ Tail(p) # << >> /\ NoDots(Tail(p))
  <2>1. /\ Tail(p) \in Seq(STRING) /\ Tail(p) # << >>
        /\ Len(Tail(p)) = Len(p) - 1 /\ \A i \in 1..Len(Tail(p)) : Tail(p)[i] = p[i + 1]
    BY <1>2, Split
  <2>2. PICK n \in Nat : n = Len(p) OBVIOUS
  <2>3. \A i \in 1..(n - 1) : i + 1 \in 1..n OBVIOUS
  <2>4. NoDots(Tail(p)) BY <1>2, <2>1, <2>2, <2>3 DEF NoDots
  <2> QED BY <2>1, <2>4
<1>6. PICK q : q = PathOf[cwd] \o Tail(p) OBVIOUS
<1>7. q \in Seq(STRING) /\ q # << >> /\ q[1] = Root /\ NoDots(q) BY <1>1, <1>5, <1>6, Together
<1>8. Join(PathOf[cwd], p) = q
  <2>1. p # <<Root>>
    <3>1. Len(p) # 1
      <4>1. PICK l : l = Len(p) OBVIOUS
      <4>2. l # 1 BY ONLY <1>2, <4>1
      <4> QED BY <4>1, <4>2
    <3> QED BY <3>1, LongerPath
  <2> QED BY <1>1, <1>2, <1>4, <1>6, <2>1 DEF Join
<1>9. Resolve(cwd, self_lexically_normal(q)) = Resolve(cwd, Tail(p))
  <2>1. Climbs(q) /\ Plain(q) = q BY <1>7, NoDotsClimbs
  <2>2. Resolve(cwd, self_lexically_normal(q)) = Resolve(cwd, Plain(q)) BY <1>1, <1>7, <2>1, SameWay
  <2>3. Resolve(cwd, q) = Resolve(cwd, Tail(p)) BY <1>5, <1>6, FromHere
  <2> QED BY <2>1, <2>2, <2>3
<1>10. PICK d \in Dir : d = cwd BY <1>1
<1>11. Resolve(cwd, p) = Resolve(Root, Tail(p)) BY <1>2, <1>10, FromRoot
<1>12. Resolve(cwd, Tail(p)) = IF cwd = Root THEN Resolve(Root, Tail(p)) ELSE None
  <2>1. d \in Dir \cup {None} OBVIOUS
  <2>2. Resolve(d, Tail(p)) = IF d = Root THEN Resolve(Root, Tail(p)) ELSE None BY <2>1, OwnRest
  <2> QED BY <1>10, <2>2
<1>13. change_to_directory(p, logical) = Resolve(cwd, p)
  BY <1>8, <1>9, <1>11, <1>12 DEF change_to_directory
<1>14. Plain(From(PathOf[cwd], p)) = p BY <1>2, <1>4, NoDotsClimbs DEF From
<1>15. Meant(p, logical) = Resolve(cwd, p) BY <1>14 DEF Meant
<1> QED BY <1>13, <1>15

-----------------------------------------------------------------------------
(***************************************************************************)
(* Where cd goes.                                                          *)
(***************************************************************************)

IsPath(p) == p \in Seq(STRING) /\ p # << >>

(* A path that cd -L reads as it should in directory d: the first name of  *)
(* an absolute one is in the root only, for it is looked up below d first, *)
(* and in a relative one every .. has a name before it to take away.       *)
Regular(d, p) == IF IsAbsolute(p) THEN Own(p) ELSE Climbs(PathOf[d] \o p)

(* A cd with nothing but such paths; also an absolute one, and one that    *)
(* begins with . or .. , is looked up below the directories of CDPATH.     *)
Proper(d, cdpath, dir, logical) ==
    /\ IsPath(dir) /\ cdpath \in Seq(Seq(STRING) \ {<< >>})
    /\ cdpath = << >> \/ dir[1] \notin {".", ".."}
    /\ logical => Regular(d, dir)
    /\ \A i \in 1..Len(cdpath) :
          IF IsAbsolute(dir) THEN Own(dir) /\ (logical => NoDots(cdpath[i]) /\ Regular(d, cdpath[i]))
          ELSE logical => Regular(d, cdpath[i] \o dir)

(* With such a path cd goes where it should.                               *)
LEMMA RegularMeant ==
    ASSUME Rooted, cwd \in live, NEW p, IsPath(p), NEW logical \in BOOLEAN, logical => Regular(cwd, p)
    PROVE  change_to_directory(p, logical) = Meant(p, logical)
<1>1. CASE logical /\ IsAbsolute(p) BY <1>1, OwnMeant DEF IsPath, Regular, IsAbsolute
<1>2. CASE logical /\ ~IsAbsolute(p) BY <1>2, RelativeMeant DEF IsPath, Regular
<1>3. CASE ~logical BY <1>3 DEF change_to_directory, Meant
<1> QED BY <1>1, <1>2, <1>3

(* An absolute path below a directory of CDPATH: it leads nowhere, or      *)
(* where it leads without.                                                 *)
LEMMA BelowCdpath ==
    ASSUME Rooted, cwd \in live, NEW dir, IsPath(dir), IsAbsolute(dir), Own(dir),
           NEW logical \in BOOLEAN,
           NEW p, IsPath(p), logical => NoDots(p) /\ Regular(cwd, p)
    PROVE  change_to_directory(Join(p, dir), logical) \in {None, Resolve(cwd, dir)}
<1>1. /\ p \in Seq(STRING) /\ p # << >> /\ dir \in Seq(STRING) /\ dir # << >> /\ dir[1] = Root
      /\ Len(dir) > 1 /\ NoDots(dir)
  BY DEF IsPath, IsAbsolute, Own
<1>2. /\ Tail(dir) \in Seq(STRING) /\ Tail(dir) # << >>
      /\ Len(Tail(dir)) = Len(dir) - 1 /\ \A i \in 1..Len(Tail(dir)) : Tail(dir)[i] = dir[i + 1]
  BY <1>1, Split
<1>3. NoDots(Tail(dir))
  <2>1. PICK n \in Nat : n = Len(dir) BY <1>1
  <2>2. \A i \in 1..(n - 1) : i + 1 \in 1..n OBVIOUS
  <2> QED BY <1>1, <1>2, <2>1, <2>2 DEF NoDots
<1>4. PICK q : q = p \o Tail(dir) OBVIOUS
<1>5. q \in Seq(STRING) /\ q # << >> /\ q[1] = p[1] /\ (logical => NoDots(q))
  BY <1>1, <1>2, <1>3, <1>4, Together
<1>6. Join(p, dir) = q
  <2>1. Len(dir) # 1
    <3>1. PICK l : l = Len(dir) OBVIOUS
    <3>2. l # 1 BY ONLY <1>1, <3>1
    <3> QED BY <3>1, <3>2
  <2>2. dir # <<Root>> BY <2>1, LongerPath
  <2> QED BY <1>1, <1>4, <2>2 DEF Join
<1>7. PICK d \in Dir : d = cwd BY PathIs
<1>8. d \in Dir \cup {None} OBVIOUS
<1>9. Resolve(d, dir) = Resolve(Root, Tail(dir)) BY <1>1, FromRoot
<1>10. Resolve(d, q) \in {None, Resolve(d, dir)}
  <2>1. PICK e \in Dir \cup {None} : e = Resolve(d, p) BY <1>1, <1>2, <1>8, ResolveJoined
  <2>2. Resolve(d, q) = Resolve(e, Tail(dir)) BY <1>1, <1>2, <1>4, <1>8, <2>1, ResolveJoined
  <2>3. Resolve(e, Tail(dir)) = IF e = Root THEN Resolve(Root, Tail(dir)) ELSE None BY <1>1, OwnRest
  <2> QED BY <1>9, <2>2, <2>3
<1>11. change_to_directory(q, logical) = Resolve(d, q)
  <2>1. CASE logical /\ IsAbsolute(p)
    <3>1. Own(p) /\ q[1] = Root BY <2>1, <1>5 DEF Regular, IsAbsolute
    <3>2. Own(q)
      <4>1. PICK n \in Nat \ {0} : n = Len(p) BY <1>1, EmptySeq
      <4>2. PICK m \in Nat : m = Len(Tail(dir))
        <5>1. \A t \in Seq(STRING) : Len(t) \in Nat OBVIOUS
        <5> QED BY <1>2, <5>1
      <4>3. n > 1 /\ p[2] # Root /\ \A x \in Dir \ {Root} : p[2] \notin DOMAIN Entries[x]
        BY <3>1, <4>1 DEF Own
      <4>4. Len(q) = n + m /\ q[2] = p[2]
        <5>1. /\ p \o Tail(dir) \in Seq(STRING) /\ Len(p \o Tail(dir)) = Len(p) + Len(Tail(dir))
              /\ \A i \in 1..(Len(p) + Len(Tail(dir))) : (p \o Tail(dir))[i] =
                     IF i <= Len(p) THEN p[i] ELSE Tail(dir)[i - Len(p)]
          BY <1>1, <1>2, ConcatProperties
        <5>2. 2 \in 1..(n + m) /\ 2 <= n BY <4>3
        <5> QED BY <1>4, <4>1, <4>2, <5>1, <5>2
      <4>5. n + m > 1 BY <4>3
      <4> QED BY <1>5, <2>1, <4>3, <4>4, <4>5 DEF Own
    <3> QED BY <1>5, <1>7, <3>1, <3>2, OwnMeant
  <2>2. CASE logical /\ ~IsAbsolute(p)
    <3>1. ~IsAbsolute(q) BY <1>1, <1>5, <2>2 DEF IsAbsolute
    <3>2. Climbs(PathOf[cwd] \o q)
      <4>1. PathOf[cwd] \in Seq(STRING) /\ PathOf[cwd] # << >> /\ NoDots(PathOf[cwd]) BY PathIs
      <4>2. PICK r : r = PathOf[cwd] \o q OBVIOUS
      <4>3. r \in Seq(STRING) /\ NoDots(r) BY <1>5, <2>2, <4>1, <4>2, Together
      <4> QED BY <4>2, <4>3, NoDotsClimbs
    <3> QED BY <1>5, <1>7, <2>2, <3>1, <3>2, RelativeMeant
  <2>3. CASE ~logical BY <1>7, <2>3 DEF change_to_directory
  <2> QED BY <2>1, <2>2, <2>3
<1> QED BY <1>6, <1>7, <1>10, <1>11

(* The least of some numbers, as CdMoves and CdStep choose it.             *)
LEMMA FirstOf ==
    ASSUME NEW T \in SUBSET Nat, NEW x \in T, \A y \in T : x <= y
    PROVE  (CHOOSE i \in T : \A j \in T : i <= j) = x
<1>1. \A z \in T : (\A y \in T : z <= y) => z = x OBVIOUS
<1> QED BY <1>1

(* A function on the first n numbers is a sequence of n elements.          *)
LEMMA FunctionIsSeq ==
    ASSUME NEW X, NEW n \in Nat, NEW g \in [1..n -> X]
    PROVE  g \in Seq(X) /\ Len(g) = n
<1>1. g \in Seq(X) OBVIOUS
<1>2. DOMAIN g = 1..n OBVIOUS
<1>3. Len(g) \in Nat /\ DOMAIN g = 1..Len(g) BY <1>1, LenProperties
<1> QED BY <1>1, <1>2, <1>3

(* What is tried for a directory that is not - .                           *)
LEMMA TriesAre ==
    ASSUME NEW dir, IsPath(dir), dir # <<"-">>,
           NEW s \in Seq(Seq(STRING) \ {<< >>}), s = env["CDPATH"], NEW n \in Nat, n = Len(s)
    PROVE  /\ DOMAIN Tries(dir) = 1..(n + 1) /\ Tries(dir)[n + 1] = dir
           /\ \A i \in 1..n : Tries(dir)[i] = Join(s[i], dir)
           /\ \A i \in 1..n : IsPath(s[i])
<1>1. \A i \in 1..n : IsPath(s[i]) BY DEF IsPath
<1> DEFINE f == [i \in 1..n |-> Join(s[i], dir)]
           X == {Join(s[i], dir) : i \in 1..n} \cup {dir}
<1>2. f \in Seq(X) /\ Len(f) = n /\ \A i \in 1..n : f[i] = Join(s[i], dir)
  <2>1. \A i \in 1..n : Join(s[i], dir) \in X OBVIOUS
  <2> HIDE DEF X
  <2>2. f \in [1..n -> X] BY <2>1
  <2> HIDE DEF f
  <2>3. f \in Seq(X) /\ Len(f) = n BY <2>2, FunctionIsSeq
  <2> USE DEF f
  <2>4. \A i \in 1..n : f[i] = Join(s[i], dir) OBVIOUS
  <2> QED BY <2>3, <2>4
<1>3. dir \in X OBVIOUS
<1> HIDE DEF X
<1>4. <<dir>> \in Seq(X) /\ Len(<<dir>>) = 1 /\ <<dir>>[1] = dir BY <1>3, Single
<1>5. DOMAIN s = 1..n OBVIOUS
<1>6. Tries(dir) = f \o <<dir>> BY <1>5 DEF Tries
<1> HIDE DEF f
<1>7. PICK t : t = f \o <<dir>> OBVIOUS
<1>8. /\ t \in Seq(X) /\ Len(t) = n + 1
      /\ \A i \in 1..(n + 1) : t[i] = IF i <= n THEN f[i] ELSE <<dir>>[i - n]
  <2>1. /\ f \o <<dir>> \in Seq(X) /\ Len(f \o <<dir>>) = Len(f) + Len(<<dir>>)
        /\ \A i \in 1..(Len(f) + Len(<<dir>>)) : (f \o <<dir>>)[i] =
               IF i <= Len(f) THEN f[i] ELSE <<dir>>[i - Len(f)]
    BY <1>2, <1>4, ConcatProperties
  <2> QED BY <1>2, <1>4, <1>7, <2>1
<1>9. DOMAIN t = 1..(n + 1) BY <1>8
<1>10. t[n + 1] = dir
  <2>1. n + 1 \in 1..(n + 1) /\ ~(n + 1 <= n) /\ (n + 1) - n = 1 OBVIOUS
  <2> QED BY <1>4, <1>8, <2>1
<1>11. \A i \in 1..n : t[i] = f[i]
  <2>1. \A i \in 1..n : i \in 1..(n + 1) /\ i <= n OBVIOUS
  <2> QED BY <1>8, <2>1
<1> QED BY <1>1, <1>2, <1>6, <1>7, <1>9, <1>10, <1>11

(* cd with a relative path: the first directory that is found is the one   *)
(* that should be.                                                         *)
LEMMA RelativeGoes ==
    ASSUME Rooted, NEW dir, NEW logical \in BOOLEAN, CdMoves(dir, logical), dir # <<"-">>,
           Proper(cwd, env["CDPATH"], dir, logical), ~IsAbsolute(dir)
    PROVE  CdStep
<1>1. PICK s \in Seq(Seq(STRING) \ {<< >>}) : s = env["CDPATH"] BY DEF Proper
<1>2. PICK n \in Nat : n = Len(s) OBVIOUS
<1>3. /\ DOMAIN Tries(dir) = 1..(n + 1) /\ Tries(dir)[n + 1] = dir
      /\ \A i \in 1..n : Tries(dir)[i] = Join(s[i], dir)
      /\ \A i \in 1..n : IsPath(s[i])
  BY <1>1, <1>2, TriesAre DEF Proper
<1>4. /\ cwd \in live /\ Found(dir, logical) # {} /\ op'.dir = dir /\ op'.logical = logical
      /\ cwd' = change_to_directory(
                  Tries(dir)[CHOOSE i \in Found(dir, logical) : \A j \in Found(dir, logical) : i <= j], logical)
  BY DEF CdMoves
<1>5. change_to_directory(dir, logical) = Meant(dir, logical)
  BY <1>4, RegularMeant DEF Proper
<1>6. ASSUME NEW i \in 1..n
      PROVE  change_to_directory(Tries(dir)[i], logical) = Meant(s[i] \o dir, logical)
  <2>1. PICK q : q = s[i] \o dir OBVIOUS
  <2>2. IsPath(q)
    <3>1. s[i] \in Seq(STRING) /\ s[i] # << >> /\ dir \in Seq(STRING) BY <1>3 DEF IsPath, Proper
    <3> QED BY <2>1, <3>1, Together DEF IsPath
  <2>3. Join(s[i], dir) = q
    <3>1. s[i] # << >> BY <1>3 DEF IsPath
    <3>2. dir # <<Root>> BY DEF IsAbsolute
    <3> QED BY <2>1, <3>1, <3>2 DEF Join
  <2>4. logical => Regular(cwd, q) BY <1>1, <1>2, <2>1 DEF Proper
  <2>5. change_to_directory(q, logical) = Meant(q, logical) BY <1>4, <2>2, <2>4, RegularMeant
  <2> QED BY <1>3, <2>1, <2>3, <2>5
<1> DEFINE below == {i \in 1..n : Meant(s[i] \o dir, logical) # None}
<1>7. below = {i \in DOMAIN env["CDPATH"] :
                 dir[1] \notin {Root, ".", ".."} /\ Meant(env["CDPATH"][i] \o dir, logical) # None}
  <2>1. dir[1] # Root
    BY DEF Proper, IsPath, IsAbsolute
  <2>2. s = << >> \/ dir[1] \notin {".", ".."}
    BY <1>1 DEF Proper
  <2>3. CASE s = << >>
    <3>1. 1..n = {} /\ DOMAIN env["CDPATH"] = {}
      BY <1>1, <1>2, <2>3
    <3> QED BY <3>1
  <2>4. CASE dir[1] \notin {".", ".."}
    BY <1>1, <1>2, <2>1, <2>4
  <2> QED BY <2>2, <2>3, <2>4
<1>8. Found(dir, logical) = {i \in 1..(n + 1) : change_to_directory(Tries(dir)[i], logical) # None}
  BY <1>3 DEF Found
<1>9. CASE below = {}
  <2>1. Found(dir, logical) = {n + 1}
    <3>1. \A i \in 1..n : i \notin Found(dir, logical) BY <1>6, <1>8, <1>9
    <3>2. \A i \in 1..(n + 1) : i \in 1..n \/ i = n + 1 OBVIOUS
    <3> HIDE DEF below
    <3> QED BY <1>4, <1>8, <3>1, <3>2
  <2>2. (CHOOSE i \in Found(dir, logical) : \A j \in Found(dir, logical) : i <= j) = n + 1
    BY <2>1, FirstOf
  <2>3. cwd' = Meant(dir, logical) BY <1>3, <1>4, <1>5, <2>2
  <2> HIDE DEF below
  <2> QED BY <1>4, <1>7, <1>9, <2>3 DEF CdStep
<1>10. CASE below # {}
  <2>1. PICK x \in below : \A y \in below : x <= y
    <3>1. below \in SUBSET Nat OBVIOUS
    <3> HIDE DEF below
    <3> QED BY <1>10, <3>1, LeastOf
  <2>2. x \in 1..n OBVIOUS
  <2>3. x \in Found(dir, logical) /\ \A y \in Found(dir, logical) : x <= y
    <3>1. x \in Found(dir, logical) BY <1>6, <1>8, <2>2
    <3>2. ASSUME NEW y \in Found(dir, logical) PROVE x <= y
      <4>1. CASE y \in 1..n
        <5>1. y \in below BY <1>6, <1>8, <4>1
        <5> QED BY <2>1, <5>1
      <4>2. CASE y \notin 1..n
        <5>1. y \in 1..(n + 1) BY <1>8
        <5> QED BY <2>2, <4>2, <5>1
      <4> QED BY <4>1, <4>2
    <3> QED BY <3>1, <3>2
  <2>4. (CHOOSE i \in Found(dir, logical) : \A j \in Found(dir, logical) : i <= j) = x
    <3>1. Found(dir, logical) \in SUBSET Nat BY <1>8
    <3> QED BY <2>3, <3>1, FirstOf
  <2>5. (CHOOSE i \in below : \A j \in below : i <= j) = x
    <3>1. below \in SUBSET Nat OBVIOUS
    <3> HIDE DEF below
    <3> QED BY <2>1, <3>1, FirstOf
  <2>6. cwd' = Meant(s[x] \o dir, logical) BY <1>4, <1>6, <2>2, <2>4
  <2> HIDE DEF below
  <2> QED BY <1>1, <1>4, <1>7, <1>10, <2>5, <2>6 DEF CdStep
<1> QED BY <1>9, <1>10

(* cd with an absolute path: wherever it is found, it is found where it    *)
(* should be.                                                              *)
LEMMA AbsoluteGoes ==
    ASSUME Rooted, NEW dir, NEW logical \in BOOLEAN, CdMoves(dir, logical), dir # <<"-">>,
           Proper(cwd, env["CDPATH"], dir, logical), IsAbsolute(dir)
    PROVE  CdStep
<1>1. PICK s \in Seq(Seq(STRING) \ {<< >>}) : s = env["CDPATH"] BY DEF Proper
<1>2. PICK n \in Nat : n = Len(s) OBVIOUS
<1>3. /\ DOMAIN Tries(dir) = 1..(n + 1) /\ Tries(dir)[n + 1] = dir
      /\ \A i \in 1..n : Tries(dir)[i] = Join(s[i], dir)
      /\ \A i \in 1..n : IsPath(s[i])
  BY <1>1, <1>2, TriesAre DEF Proper
<1>4. /\ cwd \in live /\ Found(dir, logical) # {} /\ op'.dir = dir /\ op'.logical = logical
      /\ cwd' = change_to_directory(
                  Tries(dir)[CHOOSE i \in Found(dir, logical) : \A j \in Found(dir, logical) : i <= j], logical)
  BY DEF CdMoves
<1>5. change_to_directory(dir, logical) = Meant(dir, logical)
  BY <1>4, RegularMeant DEF Proper
<1>6. ASSUME NEW i \in 1..n
      PROVE  change_to_directory(Tries(dir)[i], logical) \in {None, Meant(dir, logical)}
  <2>1. IsPath(s[i]) /\ (logical => NoDots(s[i]) /\ Regular(cwd, s[i])) /\ IsPath(dir) /\ Own(dir)
    BY <1>1, <1>2, <1>3 DEF Proper
  <2>2. change_to_directory(Join(s[i], dir), logical) \in {None, Resolve(cwd, dir)}
    BY <1>4, <2>1, BelowCdpath
  <2>3. Meant(dir, logical) = Resolve(cwd, dir) BY <1>4, <2>1, OwnMeant DEF IsPath, IsAbsolute
  <2> QED BY <1>3, <2>2, <2>3
<1>7. Found(dir, logical) = {i \in 1..(n + 1) : change_to_directory(Tries(dir)[i], logical) # None}
  BY <1>3 DEF Found
<1>8. PICK x \in Found(dir, logical) :
          (CHOOSE i \in Found(dir, logical) : \A j \in Found(dir, logical) : i <= j) = x
  <2>1. Found(dir, logical) \in SUBSET Nat BY <1>7
  <2>2. PICK x \in Found(dir, logical) : \A j \in Found(dir, logical) : x <= j
    BY <1>4, <2>1, LeastOf
  <2> QED BY <2>1, <2>2, FirstOf
<1>9. cwd' = Meant(dir, logical)
  <2>1. \A i \in 1..(n + 1) : i \in 1..n \/ i = n + 1 OBVIOUS
  <2> QED BY <1>3, <1>4, <1>5, <1>6, <1>7, <1>8, <2>1
<1>10. {i \in DOMAIN env["CDPATH"] :
          dir[1] \notin {Root, ".", ".."} /\ Meant(env["CDPATH"][i] \o dir, logical) # None} = {}
  BY DEF IsAbsolute
<1> QED BY <1>4, <1>9, <1>10 DEF CdStep

(* Only CdMoves begins to change PWD.                                      *)
LEMMA OnlyCd ==
    ASSUME [Next]_vars, pc = "idle", pc' = "cwd"
    PROVE  \E dir \in c.args, logical \in BOOLEAN : CdMoves(dir, logical)
BY DEF Next, vars, CdFails, BindCwd, BindOld, BindNew, BindFails, Ends, Pwd, Set, SourceStarts,
       PwdFails, SetThrows, SourceThrows, Changeless, ScriptEnds, ApplierStops, SourceEnds, Apply, Rmdir

(* In every tree of directories, whatever the environment, whatever links  *)
(* there are and another process removes: a cd goes to the directory that  *)
(* POSIX has it go to, if what it is given and CDPATH read as they should; *)
(* which excludes what the library is known to read otherwise: with -L a   *)
(* .. that finds no name before it, or one of two characters with a dot,   *)
(* and an absolute path that there is below the working directory as well; *)
(* and with CDPATH a path that begins with . or .. (cd.cpp:21-70, 93-121,  *)
(* 156-187).                                                               *)
THEOREM CdRight ==
    Spec => [][pc = "idle" /\ pc' = "cwd" /\ Proper(cwd, env["CDPATH"], op'.dir, op'.logical) => CdStep]_vars
<1>1. ASSUME Rooted, [Next]_vars, pc = "idle", pc' = "cwd",
             Proper(cwd, env["CDPATH"], op'.dir, op'.logical)
      PROVE  CdStep
  <2>1. PICK dir \in c.args, logical \in BOOLEAN : CdMoves(dir, logical) BY <1>1, OnlyCd
  <2>2. op'.dir = dir /\ op'.logical = logical BY <2>1 DEF CdMoves
  <2>3. CASE dir = <<"-">> BY <2>2, <2>3 DEF CdStep
  <2>4. CASE dir # <<"-">> BY <1>1, <2>1, <2>2, <2>4, RelativeGoes, AbsoluteGoes
  <2> QED BY <2>3, <2>4
<1> QED BY <1>1, RootedInv, PTL DEF Spec

(* The values that the variable n can have in a case but for those that cd *)
(* and pwd give it.                                                        *)
Values(x, n) ==
    {x.env[n]} \cup {script.sets[n] : script \in {s \in x.scripts : n \in DOMAIN s.sets}}

(* CDPATH has one of them.                                                 *)
CdpathKnown ==
    /\ env["CDPATH"] \in Values(c, "CDPATH")
    /\ src.st # "none" => src.left["CDPATH"] \in Values(c, "CDPATH")

(* Only the scripts set it.                                                *)
LEMMA CdpathInv == Spec => []CdpathKnown
<1>1. Init => CdpathKnown BY DEF Init, CdpathKnown, Values, NoScript
<1>2. IInv /\ CdpathKnown /\ [Next]_vars => CdpathKnown'
  <2> SUFFICES ASSUME IInv, CdpathKnown, [Next]_vars PROVE CdpathKnown'
    OBVIOUS
  <2> USE CasesAssumption DEF CdpathKnown
  <2>1. CASE UNCHANGED <<c, env, src>> BY <2>1
  <2>2. ASSUME NEW name \in {"PWD", "OLDPWD", "V"}, NEW value,
               env' = [env EXCEPT ![name] = value], UNCHANGED <<c, src>>
        PROVE  CdpathKnown'
    <3>1. env'["CDPATH"] = env["CDPATH"] BY <2>2 DEF IInv, TypeOK, IsEnv
    <3> QED BY <2>2, <3>1
  <2>3. ASSUME NEW script \in c.scripts, SourceStarts(script) PROVE CdpathKnown'
    <3>1. src'.left = [n \in Names |-> IF n \in DOMAIN script.sets THEN script.sets[n] ELSE env[n]]
      BY <2>3 DEF SourceStarts
    <3>2. src'.left["CDPATH"] \in Values(c, "CDPATH") BY <3>1 DEF Values
    <3> QED BY <2>3, <3>2 DEF SourceStarts
  <2>4. CASE ScriptEnds
    <3>1. src'.left = src.left /\ src.st # "none" BY <2>4 DEF ScriptEnds, IInv, TypeOK
    <3> QED BY <2>4, <3>1 DEF ScriptEnds
  <2>5. CASE SourceEnds BY <2>5 DEF SourceEnds, NoScript
  <2>6. ASSUME NEW n \in Names, Apply(n) PROVE CdpathKnown'
    <3>1. src'.left = src.left /\ src.st # "none" /\ env' = [env EXCEPT ![n] = src.left[n]] /\ c' = c
      BY <2>6 DEF Apply, IInv, TypeOK
    <3>2. env'["CDPATH"] \in {env["CDPATH"], src.left["CDPATH"]} BY <3>1 DEF IInv, TypeOK, IsEnv
    <3> QED BY <3>1, <3>2
  <2>7. ASSUME NEW dir, NEW logical, CdMoves(dir, logical) \/ CdFails(dir, logical) PROVE CdpathKnown'
    BY <2>1, <2>7 DEF CdMoves, CdFails
  <2>8. CASE BindCwd \/ BindOld \/ BindNew \/ BindFails
    BY <2>1, <2>2, <2>8 DEF BindCwd, BindOld, BindNew, BindFails, Ends
  <2>9. ASSUME NEW verbatim, Pwd(verbatim) PROVE CdpathKnown'
    BY <2>1, <2>2, <2>9 DEF Pwd
  <2>10. ASSUME NEW value, NEW overwrite, Set("V", value, overwrite) PROVE CdpathKnown'
    BY <2>1, <2>2, <2>10 DEF Set
  <2>11. ASSUME NEW d, Rmdir(d) PROVE CdpathKnown'
    BY <2>1, <2>11 DEF Rmdir
  <2>12. CASE UNCHANGED vars BY <2>1, <2>12 DEF vars
  <2>13. CASE PwdFails \/ SetThrows \/ SourceThrows
    BY <2>1, <2>13 DEF PwdFails, SetThrows, SourceThrows, Changeless
  <2>14. CASE ApplierStops
    <3>1. src'.left = src.left /\ src.st # "none" BY <2>14 DEF ApplierStops, IInv, TypeOK
    <3> QED BY <2>14, <3>1 DEF ApplierStops
  <2> QED BY <2>3, <2>4, <2>5, <2>6, <2>7, <2>8, <2>9, <2>10, <2>11, <2>12, <2>13, <2>14 DEF Next
<1> QED BY <1>1, <1>2, Inductive, PTL DEF Spec

(* With arguments, and values of CDPATH, that read as they should in every *)
(* directory every cd goes where it should: it follows links where it      *)
(* should, and the first directory of CDPATH comes before the others, in   *)
(* every tree, whatever scripts and other processes do (cd.cpp:21-70,      *)
(* 93-121, 156-187).                                                       *)
THEOREM CdAlwaysRight ==
    ASSUME \A x \in Cases : \A dir \in x.args \ {<<"-">>} : \A cdpath \in Values(x, "CDPATH") :
              \A d \in Dir : \A logical \in BOOLEAN : Proper(d, cdpath, dir, logical)
    PROVE  Spec => CdGoesThere
<1>1. ASSUME IInv, Rooted, CdpathKnown, [Next]_vars, pc = "idle", pc' = "cwd"
      PROVE  CdStep
  <2>1. PICK dir \in c.args, logical \in BOOLEAN : CdMoves(dir, logical) BY <1>1, OnlyCd
  <2>2. op'.dir = dir /\ op'.logical = logical /\ cwd \in live BY <2>1 DEF CdMoves
  <2>3. CASE dir = <<"-">> BY <2>2, <2>3 DEF CdStep
  <2>4. CASE dir # <<"-">>
    <3>1. c \in Cases /\ cwd \in Dir BY <1>1, <2>2 DEF IInv, TypeOK, Rooted
    <3>2. Proper(cwd, env["CDPATH"], dir, logical) BY <1>1, <2>4, <3>1 DEF CdpathKnown
    <3> QED BY <1>1, <2>1, <2>4, <3>2, RelativeGoes, AbsoluteGoes
  <2> QED BY <2>3, <2>4
<1> QED BY <1>1, Inductive, RootedInv, CdpathInv, PTL DEF Spec, CdGoesThere

-----------------------------------------------------------------------------
(***************************************************************************)
(* Where cd - goes.                                                        *)
(***************************************************************************)

(* Fewer directories, and a path leads where it did or nowhere.            *)
LEMMA ResolveLives ==
    Rooted => \A d \in Dir \cup {None}, p \in Seq(STRING), n \in Nat \ {0} :
                 n = Len(p) => \E m : Run(m, d, p, n)
BY ResolveRun

(* The same of the next state.                                             *)
LEMMA ResolveLivesNext ==
    Rooted' => (\A d \in Dir \cup {None}, p \in Seq(STRING), n \in Nat \ {0} :
                 n = Len(p) => \E m : Run(m, d, p, n))'
BY ResolveLives, PTL

(* When directories are removed a path leads where it did or nowhere.      *)
LEMMA Shrinks ==
    ASSUME Rooted, Rooted', live' \subseteq live, NEW d \in Dir \cup {None}, NEW p \in Seq(STRING), p # << >>
    PROVE  Resolve(d, p)' \in {None, Resolve(d, p)}
<1>1. PICK n \in Nat \ {0} : n = Len(p) BY EmptySeq
<1>2. PICK m : Run(m, d, p, n) BY <1>1, ResolveLives
<1>3. PICK l : Run(l, d, p, n)' BY <1>1, ResolveLivesNext
<1>4. /\ m[0] = d /\ Resolve(d, p) = m[n]
      /\ \A k \in 0..(n - 1) : m[k + 1] = Step(m[k], p[k + 1])
  BY <1>2 DEF Run
<1>5. /\ l[0] = d /\ Resolve(d, p)' = l[n]
      /\ \A k \in 0..(n - 1) : l[k + 1] = Step(l[k], p[k + 1])'
  BY <1>3 DEF Run
<1> DEFINE T == {k \in 0..n : l[k] \in {None, m[k]}}
<1>6. 0 \in T BY <1>4, <1>5
<1>7. ASSUME NEW k \in 0..(n - 1), k \in T PROVE k + 1 \in T
  <2>1. PICK x : x = l[k] OBVIOUS
  <2>2. PICK name : name = p[k + 1] OBVIOUS
  <2>3. Step(x, name)' \in {None, Step(x, name)} BY DEF Step
  <2>4. l[k + 1] = Step(x, name)' BY <1>5, <2>1, <2>2
  <2>5. x = None => Step(x, name)' = None BY DEF Step
  <2>6. x # None => m[k + 1] = Step(x, name) BY <1>4, <1>7, <2>1, <2>2
  <2> QED BY <2>3, <2>4, <2>5, <2>6
<1>8. 0..n \subseteq T
  <2> HIDE DEF T
  <2> QED BY <1>6, <1>7, UpTo
<1> QED BY <1>4, <1>5, <1>8

(* An absolute path leads to one directory from everywhere.                *)
LEMMA Anywhere ==
    ASSUME Rooted, NEW d \in Dir, NEW e \in Dir, NEW p, IsPath(p), IsAbsolute(p)
    PROVE  Resolve(d, p) = Resolve(e, p)
<1>1. p \in Seq(STRING) /\ p # << >> /\ p[1] = Root BY DEF IsPath, IsAbsolute
<1>2. PICK n \in Nat \ {0} : n = Len(p) BY <1>1, EmptySeq
<1>3. CASE n > 1 BY <1>1, <1>2, <1>3, FromRoot
<1>4. CASE ~(n > 1)
  <2>1. n = 1 BY <1>4
  <2>2. PICK m : Run(m, d, p, n) BY <1>1, <1>2, ResolveRun
  <2>3. PICK l : Run(l, e, p, n) BY <1>1, <1>2, ResolveRun
  <2>4. 0 \in 0..(n - 1) /\ 0 + 1 = n BY <2>1
  <2>5. m[n] = Step(d, Root) /\ l[n] = Step(e, Root) BY <1>1, <2>1, <2>2, <2>3, <2>4 DEF Run
  <2>6. Step(d, Root) = Step(e, Root)
    <3>1. d # None /\ e # None BY TreeAssumption
    <3>2. Root # "." /\ Root # ".." BY DEF Root
    <3> QED BY <3>1, <3>2 DEF Step
  <2> QED BY <2>2, <2>3, <2>5, <2>6 DEF Run
<1> QED BY <1>3, <1>4

(* An absolute path that leads to directory x, as long as there is x.      *)
Aims(p, x) == IsPath(p) /\ IsAbsolute(p) => \A e \in Dir : Resolve(e, p) \in {None, x}

(* It does so later, too.                                                  *)
LEMMA AimsLater ==
    ASSUME Rooted, Rooted', live' \subseteq live, NEW p, NEW x, Aims(p, x)
    PROVE  Aims(p, x)'
<1>1. ASSUME IsPath(p), IsAbsolute(p), NEW e \in Dir PROVE Resolve(e, p)' \in {None, x}
  <2>1. p \in Seq(STRING) /\ p # << >> /\ e \in Dir \cup {None} BY <1>1 DEF IsPath
  <2>2. Resolve(e, p)' \in {None, Resolve(e, p)} BY <2>1, Shrinks
  <2>3. Resolve(e, p) \in {None, x} BY <1>1 DEF Aims
  <2> QED BY <2>2, <2>3
<1> QED BY <1>1 DEF Aims

(* The variable with the name of the directory that the last cd came from: *)
(* OLDPWD, and PWD while bindpwd has not come to it.                       *)
Remembered == IF pc \in {"cwd", "old"} THEN env["PWD"] ELSE env["OLDPWD"]

(* It is remembered as long as [returns] says so, or there is no other cd, *)
(* because the working directory is gone.                                  *)
Remembers ==
    returns => \/ pc = "idle" /\ cwd \notin live
               \/ \A p, x : p = Remembered /\ x = op.from => Aims(p, x)

(* What keeps it.                                                          *)
LEMMA RemembersKept ==
    ASSUME Rooted, Rooted', Remembers, returns' => returns, returns' => Remembered' = Remembered,
           op'.from = op.from, live' \subseteq live,
           pc = "idle" => pc' = "idle" /\ cwd' = cwd
    PROVE  Remembers'
<1>1. CASE ~returns' BY <1>1 DEF Remembers
<1>2. CASE returns' /\ pc = "idle" /\ cwd \notin live BY <1>2 DEF Remembers
<1>3. CASE returns' /\ ~(pc = "idle" /\ cwd \notin live)
  <2> SUFFICES ASSUME NEW p, NEW x, p = Remembered', x = op'.from PROVE Aims(p, x)'
    BY DEF Remembers
  <2>1. Aims(p, x) BY <1>3 DEF Remembers
  <2> QED BY <2>1, AimsLater
<1> QED BY <1>1, <1>2, <1>3

(* A cd that leaves a directory that PWD names.                            *)
LEMMA RemembersCd ==
    ASSUME Rooted, NEW dir, NEW logical, CdMoves(dir, logical)
    PROVE  Remembers'
<1>1. /\ cwd \in Dir /\ returns' = (Resolve(cwd, env["PWD"]) = cwd) /\ pc' = "cwd" /\ op'.from = cwd
      /\ env' = env /\ live' = live
  BY DEF CdMoves, Rooted
<1> SUFFICES ASSUME NEW p, NEW x, p = Remembered', x = op'.from, returns' PROVE Aims(p, x)'
  BY DEF Remembers
<1>2. p = env["PWD"] /\ x = cwd /\ Resolve(x, p) = x BY <1>1 DEF Remembered
<1>3. Aims(p, x)
  <2> SUFFICES ASSUME IsPath(p), IsAbsolute(p), NEW e \in Dir PROVE Resolve(e, p) \in {None, x}
    BY DEF Aims
  <2>1. Resolve(e, p) = Resolve(x, p) BY <1>1, <1>2, Anywhere
  <2> QED BY <1>2, <2>1
<1>4. Aims(p, x)' = Aims(p, x)
  <2>1. live' = live /\ Rooted' BY <1>1 DEF Rooted
  <2>2. Aims(p, x)' BY <1>3, <2>1, AimsLater
  <2> QED BY <1>3, <2>2
<1> QED BY <1>3, <1>4

(* It is inductive.                                                        *)
LEMMA RemembersInv == Spec => []Remembers
<1>1. Init => Remembers BY DEF Init, Remembers
<1>2. IInv /\ Rooted /\ Rooted' /\ Remembers /\ [Next]_vars => Remembers'
  <2> SUFFICES ASSUME IInv, Rooted, Rooted', Remembers, [Next]_vars PROVE Remembers'
    OBVIOUS
  <2> USE CasesAssumption DEF history
  <2>1. ASSUME returns' => returns, UNCHANGED <<cwd, env, pc, op>>, live' \subseteq live
        PROVE  Remembers'
    BY <2>1, RemembersKept DEF Remembered
  <2>2. ASSUME NEW name \in {"PWD", "V"}, NEW value, pc' = "idle", pc \in {"idle", "new"},
               env' = [env EXCEPT ![name] = value], UNCHANGED <<cwd, live, returns>>, op'.from = op.from
        PROVE  Remembers'
    <3>1. env'["OLDPWD"] = env["OLDPWD"] BY <2>2 DEF IInv, TypeOK, IsEnv
    <3>2. Remembered' = Remembered BY <2>2, <3>1 DEF Remembered
    <3> QED BY <2>2, <3>2, RemembersKept
  <2>3. ASSUME NEW dir, NEW logical, CdMoves(dir, logical) PROVE Remembers'
    BY <2>3, RemembersCd
  <2>4. CASE BindCwd
    <3>1. CASE cwd \in live
      <4>1. pc = "cwd" /\ pc' = "old" /\ UNCHANGED <<cwd, env, live, op, returns>>
        BY <2>4, <3>1 DEF BindCwd
      <4>2. Remembered' = Remembered BY <4>1 DEF Remembered
      <4> QED BY <4>1, <4>2, RemembersKept
    <3>2. CASE cwd \notin live BY <2>4, <3>2 DEF BindCwd, Ends, Remembers
    <3> QED BY <3>1, <3>2
  <2>5. CASE BindOld
    <3>1. CASE pc' = "new"
      <4>1. /\ pc = "old" /\ UNCHANGED <<cwd, live, op>> /\ (returns' => returns)
            /\ env' = [env EXCEPT !["OLDPWD"] = env["PWD"]]
        BY <2>5, <3>1 DEF BindOld, Ends
      <4>2. env'["OLDPWD"] = env["PWD"] BY <4>1 DEF IInv, TypeOK, IsEnv
      <4>3. Remembered' = Remembered BY <3>1, <4>1, <4>2 DEF Remembered
      <4> QED BY <4>1, <4>3, RemembersKept
    <3>2. CASE pc' # "new" BY <2>5, <3>2 DEF BindOld, Remembers
    <3> QED BY <3>1, <3>2
  <2>6. CASE BindNew BY <2>2, <2>6 DEF BindNew, Ends, NoCd
  <2>7. ASSUME NEW verbatim \in BOOLEAN, Pwd(verbatim) PROVE Remembers'
    BY <2>1, <2>2, <2>7 DEF Pwd
  <2>8. ASSUME NEW value, NEW overwrite, Set("V", value, overwrite) PROVE Remembers'
    BY <2>1, <2>2, <2>8 DEF Set
  <2>9. ASSUME NEW n \in Names, Apply(n) PROVE Remembers'
    <3>1. /\ returns' = (returns /\ n # "OLDPWD" /\ ~(n = "PWD" /\ pc \in {"cwd", "old"}))
          /\ env' = [env EXCEPT ![n] = src.left[n]] /\ UNCHANGED <<cwd, live, pc, op>>
      BY <2>9 DEF Apply
    <3>2. \A name \in Names \ {n} : env'[name] = env[name] BY <3>1 DEF IInv, TypeOK, IsEnv
    <3>3. returns' => Remembered' = Remembered BY <3>1, <3>2 DEF Remembered
    <3> QED BY <3>1, <3>3, RemembersKept
  <2>10. ASSUME NEW d, Rmdir(d) PROVE Remembers' BY <2>1, <2>10 DEF Rmdir
  <2>11. ASSUME NEW dir, NEW logical, CdFails(dir, logical) PROVE Remembers'
    BY <2>1, <2>11 DEF CdFails
  <2>12. ASSUME NEW script, SourceStarts(script) PROVE Remembers' BY <2>1, <2>12 DEF SourceStarts
  <2>13. CASE ScriptEnds \/ SourceEnds BY <2>1, <2>13 DEF ScriptEnds, SourceEnds
  <2>14. CASE UNCHANGED vars BY <2>1, <2>14 DEF vars
  <2>15. CASE PwdFails \/ SetThrows \/ SourceThrows \/ ApplierStops
    BY <2>1, <2>15 DEF PwdFails, SetThrows, SourceThrows, Changeless, ApplierStops
  <2>16. CASE BindFails
    <3>1. CASE pc = "old" BY <2>16, <3>1 DEF BindFails, Remembers
    <3>2. CASE pc = "new"
      <4>1. pc' = "idle" /\ op'.from = op.from /\ UNCHANGED <<cwd, env, live>> /\ (returns' => returns)
        BY <2>16 DEF BindFails, Ends, NoCd
      <4>2. Remembered' = Remembered BY <3>2, <4>1 DEF Remembered
      <4> QED BY <3>2, <4>1, <4>2, RemembersKept
    <3> QED BY <2>16, <3>1, <3>2 DEF BindFails
  <2> QED
    BY <2>3, <2>4, <2>5, <2>6, <2>7, <2>8, <2>9, <2>10, <2>11, <2>12, <2>13, <2>14, <2>15, <2>16 DEF Next
<1> QED BY <1>1, <1>2, Inductive, RootedInv, PTL DEF Spec

(* cd - with an OLDPWD that reads as it should.                            *)
LEMMA BackGoes ==
    ASSUME Rooted, Remembers, NEW logical \in BOOLEAN, CdMoves(<<"-">>, logical), returns,
           IsPath(env["OLDPWD"]), IsAbsolute(env["OLDPWD"]), logical => Own(env["OLDPWD"])
    PROVE  cwd' = op.from
<1>1. PICK p : p = env["OLDPWD"] OBVIOUS
<1>2. Tries(<<"-">>) = <<p>> BY <1>1 DEF Tries
<1>3. /\ pc = "idle" /\ cwd \in live /\ cwd \in Dir /\ Found(<<"-">>, logical) # {}
      /\ cwd' = change_to_directory(
              Tries(<<"-">>)[CHOOSE i \in Found(<<"-">>, logical) :
                                \A j \in Found(<<"-">>, logical) : i <= j], logical)
  BY DEF CdMoves, Rooted
<1>4. <<p>>[1] = p /\ DOMAIN <<p>> = {1} OBVIOUS
<1>5. Found(<<"-">>, logical) = {1} /\ change_to_directory(p, logical) # None
  BY <1>2, <1>3, <1>4 DEF Found
<1>6. (CHOOSE i \in {1} : \A j \in {1} : i <= j) = 1 OBVIOUS
<1>7. cwd' = change_to_directory(p, logical) BY <1>2, <1>3, <1>4, <1>5, <1>6
<1>8. change_to_directory(p, logical) = Resolve(cwd, p)
  <2>1. CASE logical BY <1>1, <1>3, <2>1, OwnMeant DEF IsPath, IsAbsolute
  <2>2. CASE ~logical BY <2>2 DEF change_to_directory
  <2> QED BY <2>1, <2>2
<1>9. Aims(p, op.from) BY <1>1, <1>3 DEF Remembers, Remembered
<1>10. Resolve(cwd, p) \in {None, op.from} BY <1>1, <1>3, <1>9 DEF Aims
<1> QED BY <1>5, <1>7, <1>8, <1>10

(* Whatever scripts and other processes do between the two: cd - goes back *)
(* to the directory that the last cd came from, if PWD named it then and   *)
(* bindpwd put it into OLDPWD, and OLDPWD is an absolute path; with -L one *)
(* that cd reads as it should (cd.cpp:84, 146-155).                        *)
THEOREM CdReturns ==
    Spec => [][/\ pc = "idle" /\ pc' = "cwd" /\ op'.dir = <<"-">> /\ returns
               /\ IsPath(env["OLDPWD"]) /\ IsAbsolute(env["OLDPWD"])
               /\ op'.logical => Own(env["OLDPWD"])
               => cwd' = op.from]_vars
<1>1. ASSUME Rooted, Remembers, [Next]_vars, pc = "idle", pc' = "cwd", op'.dir = <<"-">>, returns,
             IsPath(env["OLDPWD"]), IsAbsolute(env["OLDPWD"]), op'.logical => Own(env["OLDPWD"])
      PROVE  cwd' = op.from
  <2>1. PICK dir \in c.args, logical \in BOOLEAN : CdMoves(dir, logical) BY <1>1, OnlyCd
  <2>2. op'.dir = dir /\ op'.logical = logical BY <2>1 DEF CdMoves
  <2> QED BY <1>1, <2>1, <2>2, BackGoes
<1> QED BY <1>1, RootedInv, RemembersInv, PTL DEF Spec

-----------------------------------------------------------------------------
(* An absolute path that cd reads as it should, or none.                   *)
Plainly(p) == p # Unset => IsPath(p) /\ IsAbsolute(p) /\ Own(p)

(* PWD and OLDPWD have such ones.                                          *)
PlainNames ==
    \A name \in {"PWD", "OLDPWD"} :
        Plainly(env[name]) /\ (src.st # "none" => Plainly(src.left[name]))
PlainCopy == pc \in {"old", "new"} => Plainly(tcwd)

(* This is so in a program that is never in the root and gets and makes no *)
(* others.                                                                 *)
LEMMA PlainInv ==
    ASSUME \A d \in Dir \ {Root} : Plainly(PathOf[d]),
           \A x \in Cases : \A name \in {"PWD", "OLDPWD"} : \A p \in Values(x, name) : Plainly(p)
    PROVE  Spec /\ [](cwd # Root) => [](PlainNames /\ PlainCopy)
<1>1. Init => PlainNames /\ PlainCopy
  <2> SUFFICES ASSUME Init PROVE PlainNames /\ PlainCopy OBVIOUS
  <2>1. \A name : c.env[name] \in Values(c, name) BY DEF Values
  <2> QED BY <2>1 DEF Init, PlainNames, PlainCopy, NoScript
<1>2. IInv /\ Rooted /\ cwd # Root /\ PlainNames /\ PlainCopy /\ [Next]_vars => (PlainNames /\ PlainCopy)'
  <2> SUFFICES ASSUME IInv, Rooted, cwd # Root, PlainNames, PlainCopy, [Next]_vars
               PROVE  PlainNames' /\ PlainCopy'
    OBVIOUS
  <2> USE CasesAssumption DEF history
  <2> DEFINE P2 == {"PWD", "OLDPWD"}
  <2>1. CASE UNCHANGED <<env, src>> /\ (pc' \in {"old", "new"} => UNCHANGED <<pc, tcwd>>)
    BY <2>1 DEF PlainNames, PlainCopy
  <2>2. ASSUME NEW name, NEW value, env' = [env EXCEPT ![name] = value], UNCHANGED src,
               name \in P2 => Plainly(value), pc' \in {"old", "new"} => Plainly(tcwd')
        PROVE  PlainNames' /\ PlainCopy'
    <3>1. \A m \in P2 : env'[m] = env[m] \/ (m = name /\ env'[m] = value)
      BY <2>2 DEF IInv, TypeOK, IsEnv
    <3> QED BY <2>2, <3>1 DEF PlainNames, PlainCopy
  <2>3. cwd \in live => Plainly(PathOf[cwd]) BY DEF Rooted
  <2>4. ASSUME NEW dir, NEW logical, CdMoves(dir, logical) \/ CdFails(dir, logical)
        PROVE  PlainNames' /\ PlainCopy'
    BY <2>1, <2>4 DEF CdMoves, CdFails
  <2>5. CASE BindCwd BY <2>1, <2>3, <2>5 DEF BindCwd, Ends, PlainNames, PlainCopy
  <2>6. CASE BindOld
    <3>1. Plainly(env["PWD"]) BY DEF PlainNames
    <3>2. CASE env' = [env EXCEPT !["OLDPWD"] = env["PWD"]] /\ UNCHANGED tcwd
      <4>1. pc = "old" /\ src' = src BY <2>6 DEF BindOld
      <4> QED BY <2>2, <3>1, <3>2, <4>1 DEF PlainCopy
    <3>3. CASE env' = env /\ pc' = "idle" BY <2>1, <2>6, <3>3 DEF BindOld
    <3> QED BY <2>6, <3>2, <3>3 DEF BindOld, Ends
  <2>7. CASE BindNew
    <3>1. Plainly(tcwd) BY <2>7 DEF BindNew, PlainCopy
    <3> QED BY <2>2, <2>7, <3>1 DEF BindNew, Ends
  <2>8. ASSUME NEW verbatim \in BOOLEAN, Pwd(verbatim) PROVE PlainNames' /\ PlainCopy'
    BY <2>1, <2>2, <2>3, <2>8 DEF Pwd
  <2>9. ASSUME NEW value, NEW overwrite, Set("V", value, overwrite) PROVE PlainNames' /\ PlainCopy'
    BY <2>1, <2>2, <2>9 DEF Set
  <2>10. ASSUME NEW script \in c.scripts, SourceStarts(script) PROVE PlainNames' /\ PlainCopy'
    <3>1. /\ src'.left = [n \in Names |-> IF n \in DOMAIN script.sets THEN script.sets[n] ELSE env[n]]
          /\ UNCHANGED <<env, pc, tcwd>>
      BY <2>10 DEF SourceStarts
    <3>2. \A name \in P2 : src'.left[name] \in Values(c, name) \cup {env[name]} BY <3>1 DEF Values
    <3>3. c \in Cases BY DEF IInv, TypeOK
    <3>4. \A name \in P2 : Plainly(src'.left[name]) BY <3>2, <3>3 DEF PlainNames
    <3> QED BY <3>1, <3>4 DEF PlainNames, PlainCopy
  <2>11. CASE ScriptEnds
    <3>1. src'.left = src.left /\ src.st # "none" /\ UNCHANGED <<env, pc, tcwd>>
      BY <2>11 DEF ScriptEnds, IInv, TypeOK
    <3> QED BY <3>1 DEF PlainNames, PlainCopy
  <2>12. CASE SourceEnds BY <2>12 DEF SourceEnds, NoScript, PlainNames, PlainCopy
  <2>13. ASSUME NEW n \in Names, Apply(n) PROVE PlainNames' /\ PlainCopy'
    <3>1. src'.left = src.left /\ src.st # "none" /\ env' = [env EXCEPT ![n] = src.left[n]] /\ UNCHANGED <<pc, tcwd>>
      BY <2>13 DEF Apply, IInv, TypeOK
    <3>2. \A name \in P2 : env'[name] \in {env[name], src.left[name]} BY <3>1 DEF IInv, TypeOK, IsEnv
    <3>3. \A name \in P2 : Plainly(env'[name]) /\ Plainly(src'.left[name]) BY <3>1, <3>2 DEF PlainNames
    <3> QED BY <3>1, <3>3 DEF PlainNames, PlainCopy
  <2>14. ASSUME NEW d, Rmdir(d) PROVE PlainNames' /\ PlainCopy' BY <2>1, <2>14 DEF Rmdir
  <2>15. CASE UNCHANGED vars BY <2>1, <2>15 DEF vars
  <2>16. CASE PwdFails \/ SetThrows \/ SourceThrows \/ BindFails
    BY <2>1, <2>16 DEF PwdFails, SetThrows, SourceThrows, Changeless, BindFails, Ends
  <2>17. CASE ApplierStops
    <3>1. src'.left = src.left /\ src.st # "none" /\ UNCHANGED <<env, pc, tcwd>>
      BY <2>17 DEF ApplierStops, IInv, TypeOK
    <3> QED BY <3>1 DEF PlainNames, PlainCopy
  <2> QED
    BY <2>4, <2>5, <2>6, <2>7, <2>8, <2>9, <2>10, <2>11, <2>12, <2>13, <2>14, <2>15, <2>16, <2>17 DEF Next
<1> QED BY <1>1, <1>2, Inductive, RootedInv, PTL DEF Spec

(* As long as the program is not in the root, of which -L makes no good    *)
(* absolute path, cd - always goes back: when the names in the root are in *)
(* no other directory and the PWD and OLDPWD of the environment and the    *)
(* scripts are absolute paths without . and .. (cd.cpp:84, 146-155).       *)
THEOREM CdAlwaysReturns ==
    ASSUME \A d \in Dir \ {Root} : Plainly(PathOf[d]),
           \A x \in Cases : \A name \in {"PWD", "OLDPWD"} : \A p \in Values(x, name) : Plainly(p)
    PROVE  Spec /\ [](cwd # Root) => CdBack
<1>1. ASSUME Rooted, Remembers, PlainNames, [Next]_vars, pc = "idle", pc' = "cwd", op'.dir = <<"-">>, returns
      PROVE  cwd' = op.from
  <2>1. PICK dir \in c.args, logical \in BOOLEAN : CdMoves(dir, logical) BY <1>1, OnlyCd
  <2>2. op'.dir = dir /\ op'.logical = logical BY <2>1 DEF CdMoves
  <2>3. env["OLDPWD"] # Unset BY <1>1, <2>1, <2>2 DEF CdMoves, NoOldpwd
  <2>4. IsPath(env["OLDPWD"]) /\ IsAbsolute(env["OLDPWD"]) /\ Own(env["OLDPWD"])
    BY <1>1, <2>3 DEF PlainNames, Plainly
  <2> QED BY <1>1, <2>1, <2>2, <2>4, BackGoes
<1> QED BY <1>1, RootedInv, RemembersInv, PlainInv, PTL DEF Spec, CdBack
=============================================================================
