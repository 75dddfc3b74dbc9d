--------------------------- MODULE Windows_proofs ---------------------------
(***************************************************************************)
(* Proofs about Windows.tla, for any number of commands and any arguments, *)
(* streams and files.                                                      *)
(***************************************************************************)
EXTENDS Windows, SequenceTheorems, WellFoundedInduction, TLAPS

(* The places of start_run that only a Windows since Vista comes to, and   *)
(* those of XP.                                                            *)
OfLists == {"size", "alloc", "init", "update", "clean"}
OfMarks == {"mark", "unmark"}
Ended == {"idle", "up", "threw", "gone", "done"}

Handle ==
    Std \cup {None, Invalid} \cup {x.cmds[t].file : x \in Cases, t \in Command}
        \cup {x.cmds[t].std[i] : x \in Cases, t \in Command, i \in 1..3}
Code == {0, 1} \cup UNION {x.cmds[t].exits : x \in Cases, t \in Command}
Processes == [st : {"none", "run", "set", "writes", "exited"}, holds : SUBSET Handle, code : Code]
Futures == [wait : {"none", "wait", "done"}, apply : {"none", "connect", "read", "done", "cut"}]

TypeOK ==
    /\ c \in Cases
    /\ pc \in [Command -> OfLists \cup OfMarks \cup Ended \cup {"create", "started"}]
    /\ list \in [Command -> {"none", "heap", "init"}]
    /\ marked \in [Command -> 0..3]
    /\ kept \in [Command -> BOOLEAN]
    /\ inherit \subseteq Handle
    /\ opened \in [Command -> Handle]
    /\ proc \in [Command -> Processes]
    /\ fut \in [Command -> Futures]
    /\ pipe \in [Command -> {"none", "listening", "invalid", "waiting", "connected", "early", "broken"}]
    /\ sent \in [Command -> Nat] /\ got \in [Command -> Nat]
    /\ env \in [Command -> SUBSET Nat]

(* What a command has at each place of its start_run.                      *)
Places(t) ==
    /\ pc[t] \in OfLists => c.modern
    /\ pc[t] \in OfMarks => ~c.modern
    /\ pc[t] \in OfMarks \cup Ended \cup {"size", "alloc", "started"} => list[t] = "none"
    /\ ~c.modern => list[t] = "none"
    /\ pc[t] \notin {"mark", "create", "unmark"} \/ c.modern => marked[t] = 0
    /\ pc[t] = "mark" => marked[t] <= 2
    /\ pc[t] = "create" /\ ~c.modern => marked[t] = 3

(* The process, its handles, its file and its waiter.                      *)
Process(t) ==
    /\ proc[t].st = "none" => ~kept[t]
    /\ pc[t] \in {"gone", "done"} => ~kept[t]
    /\ pc[t] = "threw" /\ fut[t].wait = "none" => ~kept[t]
    /\ pc[t] \notin {"up", "threw", "gone", "done"} => fut[t].wait = "none"
    /\ pc[t] \in {"idle", "size", "alloc", "init", "update", "mark", "create"} => proc[t].st = "none"
    /\ fut[t].wait = "done" => proc[t].st = "exited"
    /\ opened[t] \in {None, Invalid, Cmd(t).file}
    /\ pc[t] \in {"idle", "gone", "done"} => opened[t] = None
    /\ pc[t] \notin {"idle", "gone", "done"} /\ Cmd(t).file # None => opened[t] # None

(* What SET has written and what of it has been applied.                   *)
Applied(t) ==
    /\ got[t] <= sent[t] /\ sent[t] <= Len(Lines(t))
    /\ env[t] = {i \in 1..got[t] : Lines(t)[i] = "ok"}
    /\ \A i \in 1..got[t] : Lines(t)[i] # "bad"
    /\ proc[t].st \in {"none", "run", "set"} => sent[t] = 0
    /\ pipe[t] = "connected" => proc[t].st \in {"writes", "exited"}
    /\ pc[t] \notin {"up", "done"} => fut[t].apply = "none"
    /\ fut[t].apply \in {"none", "connect"} => got[t] = 0
    /\ pc[t] = "done" => fut[t].apply \in {"done", "cut"}
    /\ fut[t].apply = "read" => pipe[t] = "connected"
    /\ pipe[t] = "connected" /\ proc[t].st = "exited" => sent[t] = Len(Lines(t))
    /\ fut[t].apply = "done" =>
          \/ got[t] \in {0, Len(Lines(t))}
          \/ got[t] + 1 <= Len(Lines(t)) /\ Lines(t)[got[t] + 1] = "bad"

(* Two redirections never have the same handle.                            *)
Distinct == \A t, u \in Command : t # u /\ opened[t] = opened[u] => opened[t] \in {None, Invalid}

(* On XP, what can be inherited is what somebody has marked, and all of it *)
(* while only one command is being started.                                *)
Marks ==
    ~c.modern =>
        /\ \A h \in inherit \ Std : \E t \in Command, i \in 1..3 : i <= marked[t] /\ h = Streams(t)[i]
        /\ c.serial => \A t \in Command, i \in 1..3 :
                          pc[t] \in {"mark", "create"} /\ i <= marked[t]
                              => Streams(t)[i] \in inherit \ {None, Invalid}

Alone == c.serial => \A t, u \in Starting : t = u

IInv ==
    /\ TypeOK
    /\ \A t \in Command : Places(t) /\ Process(t) /\ Applied(t)
    /\ Distinct /\ Marks /\ Alone /\ InheritsExactly

-----------------------------------------------------------------------------
(* A command has three streams, the second of them the file of a           *)
(* redirection if it has one (ccsh_command_windows.cpp:211-220).           *)
LEMMA StreamsOf ==
    ASSUME c \in Cases, NEW t \in Command
    PROVE  /\ ToSet(Streams(t)) = {Streams(t)[i] : i \in 1..3}
           /\ \A i \in 1..3 : Streams(t)[i] = IF Cmd(t).file # None /\ i = 2 THEN opened[t] ELSE Cmd(t).std[i]
           /\ \A i \in 1..3 : Cmd(t).std[i] \notin {None, Invalid}
  BY CasesAssumption DEF Streams, Cmd, ToSet

(* The streams of a command change with its file only.                     *)
LEMMA StreamsStay ==
    ASSUME NEW t, c' = c, opened[t]' = opened[t]
    PROVE  Streams(t)' = Streams(t)
  BY DEF Streams, Cmd

(* Handles and exit codes of a case.                                       *)
LEMMA InRange ==
    ASSUME c \in Cases, NEW t \in Command
    PROVE  /\ None \in Handle /\ Invalid \in Handle /\ Std \subseteq Handle /\ Cmd(t).file \in Handle
           /\ \A i \in 1..3 : Cmd(t).std[i] \in Handle
           /\ ToSet(Cmd(t).std) \subseteq Handle
           /\ 0 \in Code /\ 1 \in Code /\ Cmd(t).exits \subseteq Code
<1>1. \A i \in 1..3 : Cmd(t).std[i] \in Handle
  BY DEF Handle, Cmd
<1>2. DOMAIN Cmd(t).std = 1..3
  BY CasesAssumption DEF Cmd
<1>3. ToSet(Cmd(t).std) \subseteq Handle
  <2>1. ToSet(Cmd(t).std) = {Cmd(t).std[i] : i \in 1..3}
    BY <1>2 DEF ToSet
  <2> QED BY <1>1, <2>1
<1>4. /\ None \in Handle /\ Invalid \in Handle /\ Std \subseteq Handle /\ Cmd(t).file \in Handle
      /\ 0 \in Code /\ 1 \in Code /\ Cmd(t).exits \subseteq Code
  BY DEF Handle, Code, Cmd
<1> QED BY <1>1, <1>3, <1>4

(* What SET prints is a sequence of lines.                                 *)
LEMMA LinesAre ==
    ASSUME c \in Cases, NEW t \in Command
    PROVE  Lines(t) \in Seq({"ok", "refused", "bad"}) /\ Len(Lines(t)) \in Nat /\ DOMAIN Lines(t) = 1..Len(Lines(t))
<1>1. Lines(t) \in Seq({"ok", "refused", "bad"})
  BY CasesAssumption DEF Lines, Cmd
<1> QED BY <1>1

(* What is set with one line more (ccsh_command_windows.cpp:299-309).      *)
LEMMA OneLineMore ==
    ASSUME NEW n \in Nat, NEW L
    PROVE  {i \in 1..(n + 1) : L[i] = "ok"}
               = IF L[n + 1] = "ok" THEN {i \in 1..n : L[i] = "ok"} \cup {n + 1} ELSE {i \in 1..n : L[i] = "ok"}
<1>1. \A i : i \in 1..(n + 1) <=> i \in 1..n \/ i = n + 1
  OBVIOUS
<1> QED BY <1>1

(* A process that comes to another state keeps its handles, and so does    *)
(* one that exits.                                                         *)
LEMMA StateChanges ==
    ASSUME TypeOK, NEW t \in Command, NEW s \in {"set", "writes"}, proc' = [proc EXCEPT ![t].st = s]
    PROVE  /\ proc' \in [Command -> Processes]
           /\ proc'[t].st = s /\ proc'[t].holds = proc[t].holds /\ proc'[t].code = proc[t].code
           /\ \A u \in Command \ {t} : proc'[u] = proc[u]
<1>1. proc[t] \in Processes
  BY DEF TypeOK
<1>2. [proc[t] EXCEPT !.st = s] \in Processes
  BY <1>1 DEF Processes
<1>3. proc' = [proc EXCEPT ![t] = [proc[t] EXCEPT !.st = s]]
  OBVIOUS
<1>4. proc' \in [Command -> Processes] /\ \A u \in Command \ {t} : proc'[u] = proc[u]
  BY <1>2, <1>3 DEF TypeOK
<1>5. proc'[t] = [proc[t] EXCEPT !.st = s]
  BY <1>3 DEF TypeOK
<1> QED BY <1>1, <1>4, <1>5 DEF Processes

(* The same for one that exits.                                            *)
LEMMA ProcessExits ==
    ASSUME TypeOK, NEW t \in Command, NEW code \in Code, Exits(t, code)
    PROVE  /\ proc' \in [Command -> Processes]
           /\ proc'[t].st = "exited" /\ proc'[t].holds = proc[t].holds /\ proc'[t].code = code
           /\ \A u \in Command \ {t} : proc'[u] = proc[u]
<1> DEFINE r == [proc[t] EXCEPT !.st = "exited", !.code = code]
<1>1. proc \in [Command -> Processes] /\ proc[t] \in Processes
  BY DEF TypeOK
<1>2. r \in Processes
  BY <1>1 DEF Processes
<1>3. r.st = "exited" /\ r.holds = proc[t].holds /\ r.code = code
  BY <1>1 DEF Processes
<1>4. proc' = [proc EXCEPT ![t] = r]
  BY <1>1 DEF Exits
<1> HIDE DEF r
<1> QED BY <1>1, <1>2, <1>3, <1>4

(* The part of a waiter that applies goes on alone.                        *)
LEMMA ApplyChanges ==
    ASSUME TypeOK, NEW t \in Command, NEW s, fut' = [fut EXCEPT ![t].apply = s]
    PROVE  /\ fut'[t].apply = s /\ fut'[t].wait = fut[t].wait
           /\ \A u \in Command \ {t} : fut'[u] = fut[u]
<1> DEFINE r == [fut[t] EXCEPT !.apply = s]
<1>1. fut \in [Command -> Futures] /\ fut[t] \in Futures
  BY DEF TypeOK
<1>2. r.apply = s /\ r.wait = fut[t].wait
  BY <1>1 DEF Futures
<1>3. fut' = [fut EXCEPT ![t] = r]
  BY <1>1
<1> HIDE DEF r
<1> QED BY <1>1, <1>2, <1>3

(* The invariant holds before anything is started.                         *)
LEMMA InitIInv == Init => IInv
<1> SUFFICES ASSUME Init PROVE IInv
  OBVIOUS
<1> USE HandleAssumption, CasesAssumption DEF Init
<1>1. TypeOK
  <2>1. proc \in [Command -> Processes] /\ fut \in [Command -> Futures]
    BY DEF NoProcess, Processes, Futures, Code
  <2>2. inherit \subseteq Handle
    <3>1. Std \subseteq Handle
      BY DEF Handle
    <3>2. ASSUME NEW t \in Command PROVE ToSet(Cmd(t).std) \subseteq Handle
      <4>1. c \in Cases
        OBVIOUS
      <4> HIDE DEF Init
      <4> QED BY <4>1, InRange
    <3>3. Handles \subseteq Handle
      BY <3>2 DEF Handles
    <3> QED BY <3>1, <3>3
  <2>3. opened \in [Command -> Handle]
    BY InRange
  <2> QED BY <2>1, <2>2, <2>3 DEF TypeOK, OfLists, OfMarks, Ended
<1>2. \A t \in Command : Places(t)
  BY DEF Places, OfLists, OfMarks, Ended
<1>3. \A t \in Command : Process(t)
  BY DEF Process, NoProcess
<1>4. \A t \in Command : Applied(t)
  <2> TAKE t \in Command
  <2>1. Len(Lines(t)) \in Nat
    BY LinesAre
  <2>2. \A i : i \notin 1..0
    OBVIOUS
  <2> QED BY <2>1, <2>2 DEF Applied, NoProcess
<1>5. Distinct /\ Marks /\ Alone /\ InheritsExactly
  BY DEF Distinct, Marks, Alone, InheritsExactly, NoProcess, Starting
<1> QED BY <1>1, <1>2, <1>3, <1>4, <1>5 DEF IInv

(* Every step keeps the types.                                             *)
LEMMA TypeStep == IInv /\ [Next]_vars => TypeOK'
<1> SUFFICES ASSUME TypeOK, \A t \in Command : Places(t), [Next]_vars PROVE TypeOK'
  BY DEF IInv
<1> USE DEF TypeOK, Goes, OfLists, OfMarks, Ended, Internal
<1>1. CASE UNCHANGED vars
  BY <1>1 DEF vars
<1>2. ASSUME NEW t \in Command, Open(t) PROVE TypeOK'
  BY <1>2, InRange DEF Open, CreatesPipe
<1>3. ASSUME NEW t \in Command, Begin(t) PROVE TypeOK'
  BY <1>3 DEF Begin, CreatesPipe
<1>4. ASSUME NEW t \in Command, ListStep(t) PROVE TypeOK'
  BY <1>4 DEF ListStep
<1>5. ASSUME NEW t \in Command, Clean(t) PROVE TypeOK'
  BY <1>5 DEF Clean
<1>6. ASSUME NEW t \in Command, Mark(t) PROVE TypeOK'
  <2>1. marked[t] \in 0..2
    BY <1>6 DEF Mark, Places
  <2>2. Streams(t)[marked[t] + 1] \in Handle
    BY <2>1, InRange, StreamsOf
  <2> QED BY <1>6, <2>1, <2>2 DEF Mark
<1>7. ASSUME NEW t \in Command, Unmark(t) PROVE TypeOK'
  BY <1>7 DEF Unmark
<1>8. ASSUME NEW t \in Command, Create(t) PROVE TypeOK'
  <2>1. ToSet(Streams(t)) \subseteq Handle
    BY InRange, StreamsOf
  <2>2. [st |-> "run", holds |-> Inherited(t), code |-> 0] \in Processes
    BY <2>1, InRange DEF Inherited, Processes
  <2> HIDE DEF Goes, OfLists, OfMarks, Ended
  <2>3. pc' \in [Command -> OfLists \cup OfMarks \cup Ended \cup {"create", "started"}]
    BY <1>8 DEF Create, Goes, OfLists, OfMarks, Ended
  <2>4. proc' \in [Command -> Processes] /\ kept' \in [Command -> BOOLEAN]
    <3> DEFINE r == [st |-> "run", holds |-> Inherited(t), code |-> 0]
    <3>1. UNCHANGED <<proc, kept>> \/ (proc' = [proc EXCEPT ![t] = r] /\ kept' = [kept EXCEPT ![t] = TRUE])
      BY <1>8 DEF Create
    <3>2. r \in Processes
      BY <2>2
    <3> HIDE DEF r
    <3>3. proc \in [Command -> Processes] /\ kept \in [Command -> BOOLEAN]
      OBVIOUS
    <3> HIDE DEF TypeOK
    <3> QED BY <3>1, <3>2, <3>3
  <2> QED BY <1>8, <2>3, <2>4 DEF Create
<1>9. ASSUME NEW t \in Command, Started(t) PROVE TypeOK'
  <2>1. fut' \in [Command -> Futures]
    <3> DEFINE r(apply) == [wait |-> "wait", apply |-> apply]
    <3>1. \/ UNCHANGED fut
          \/ \E apply \in {"connect", "done", "none"} : fut' = [fut EXCEPT ![t] = r(apply)]
      BY <1>9 DEF Started
    <3>2. \A apply \in {"connect", "done", "none"} : r(apply) \in Futures
      BY DEF Futures
    <3> HIDE DEF r
    <3>3. fut \in [Command -> Futures]
      OBVIOUS
    <3> HIDE DEF TypeOK
    <3> QED BY <3>1, <3>2, <3>3
  <2>2. /\ pc' \in [Command -> OfLists \cup OfMarks \cup Ended \cup {"create", "started"}]
        /\ kept' \in [Command -> BOOLEAN]
    BY <1>9 DEF Started
  <2> QED BY <1>9, <2>1, <2>2 DEF Started
<1>10. ASSUME NEW t \in Command, ProgramEnds(t) PROVE TypeOK'
  <2>1. proc' \in [Command -> Processes]
    BY <1>10, InRange, StateChanges, ProcessExits DEF ProgramEnds
  <2> QED BY <1>10, <2>1 DEF ProgramEnds
<1>11. ASSUME NEW t \in Command, Wait(t) PROVE TypeOK'
  <2>1. fut' \in [Command -> Futures]
    BY <1>11 DEF Wait, Futures
  <2> QED BY <1>11, <2>1 DEF Wait
<1>12. ASSUME NEW t \in Command, Finish(t) \/ Destroy(t) PROVE TypeOK'
  <2>1. None \in Handle
    BY InRange
  <2>2. opened' \in [Command -> Handle] /\ inherit' \subseteq Handle /\ kept' \in [Command -> BOOLEAN]
    <3>1. /\ kept' = [kept EXCEPT ![t] = FALSE]
          /\ opened' = [opened EXCEPT ![t] = None] /\ inherit' = inherit \ {opened[t]}
      <4> HIDE DEF TypeOK
      <4> QED BY <1>12 DEF Finish, Destroy
    <3> QED BY <2>1, <3>1
  <2>3. pc' \in [Command -> OfLists \cup OfMarks \cup Ended \cup {"create", "started"}]
    BY <1>12 DEF Finish, Destroy
  <2> QED BY <1>12, <2>2, <2>3 DEF Finish, Destroy
<1>13. ASSUME NEW t \in Command, SetConnects(t) PROVE TypeOK'
  <2>1. proc' \in [Command -> Processes]
    BY <1>13, InRange, StateChanges, ProcessExits DEF SetConnects
  <2> QED BY <1>13, <2>1 DEF SetConnects
<1>14. ASSUME NEW t \in Command, SetWrites(t) PROVE TypeOK'
  <2>1. proc' \in [Command -> Processes]
    BY <1>14, InRange, ProcessExits DEF SetWrites
  <2> QED BY <1>14, <2>1 DEF SetWrites
<1>15. ASSUME NEW t \in Command, Connect(t) PROVE TypeOK'
  <2>1. fut' \in [Command -> Futures]
    <3>1. \/ UNCHANGED fut
          \/ fut' = [fut EXCEPT ![t].apply = "read"]
          \/ fut' = [fut EXCEPT ![t].apply = "done"]
      <4> HIDE DEF TypeOK
      <4> QED BY <1>15 DEF Connect
    <3> QED BY <3>1 DEF Futures
  <2> QED BY <1>15, <2>1 DEF Connect
<1>16. ASSUME NEW t \in Command, Apply(t) PROVE TypeOK'
  <2>1. CASE Puts(t) /\ UNCHANGED <<pipe, fut>>
    <3>1. got[t] + 1 \in Nat
      OBVIOUS
    <3> QED BY <1>16, <2>1, <3>1 DEF Apply, Puts
  <2>2. CASE (Disconnects(t, "done") \/ Disconnects(t, "cut")) /\ UNCHANGED <<got, env>>
    <3>1. fut' = [fut EXCEPT ![t].apply = "done"] \/ fut' = [fut EXCEPT ![t].apply = "cut"]
      <4> HIDE DEF TypeOK
      <4> QED BY <2>2 DEF Disconnects
    <3>2. fut' \in [Command -> Futures]
      BY <3>1 DEF Futures
    <3> QED BY <1>16, <2>2, <3>2 DEF Apply, Disconnects
  <2> QED BY <1>16, <2>1, <2>2 DEF Apply
<1> QED BY <1>1, <1>2, <1>3, <1>4, <1>5, <1>6, <1>7, <1>8, <1>9, <1>10, <1>11, <1>12, <1>13, <1>14,
           <1>15, <1>16 DEF Next, StartRun, Host, Program
(* start_run keeps its places: what has been allocated and marked at each  *)
(* (ccsh_command_windows.cpp:107-192).                                     *)
LEMMA PlacesStep == IInv /\ [Next]_vars => \A u \in Command : Places(u)'
<1> SUFFICES ASSUME TypeOK, \A u \in Command : Places(u), [Next]_vars PROVE \A u \in Command : Places(u)'
  BY DEF IInv
<1> USE DEF TypeOK, Places, Goes, OfLists, OfMarks, Ended, Internal
<1>1. CASE UNCHANGED vars
  BY <1>1 DEF vars
<1>2. ASSUME NEW t \in Command, Open(t) PROVE \A u \in Command : Places(u)'
  BY <1>2 DEF Open
<1>3. ASSUME NEW t \in Command, Begin(t) PROVE \A u \in Command : Places(u)'
  BY <1>3 DEF Begin
<1>4. ASSUME NEW t \in Command, ListStep(t) PROVE \A u \in Command : Places(u)'
  BY <1>4 DEF ListStep
<1>5. ASSUME NEW t \in Command, Clean(t) PROVE \A u \in Command : Places(u)'
  BY <1>5 DEF Clean
<1>6. ASSUME NEW t \in Command, Mark(t) PROVE \A u \in Command : Places(u)'
  BY <1>6 DEF Mark
<1>7. ASSUME NEW t \in Command, Unmark(t) PROVE \A u \in Command : Places(u)'
  BY <1>7 DEF Unmark
<1>8. ASSUME NEW t \in Command, Create(t) PROVE \A u \in Command : Places(u)'
  BY <1>8 DEF Create
<1>9. ASSUME NEW t \in Command, Started(t) PROVE \A u \in Command : Places(u)'
  BY <1>9 DEF Started
<1>10. ASSUME NEW t \in Command, Finish(t) \/ Destroy(t) PROVE \A u \in Command : Places(u)'
  BY <1>10 DEF Finish, Destroy
<1>11. ASSUME NEW t \in Command, ProgramEnds(t) \/ Wait(t) \/ SetConnects(t)
                \/ SetWrites(t) \/ Connect(t) \/ Apply(t)
       PROVE  \A u \in Command : Places(u)'
  BY <1>11 DEF ProgramEnds, Wait, SetConnects, SetWrites, Connect, Apply, Exits
<1> QED BY <1>1, <1>2, <1>3, <1>4, <1>5, <1>6, <1>7, <1>8, <1>9, <1>10, <1>11
        DEF Next, StartRun, Host, Program

(* The process, its handles and its waiter keep in step with start_run and *)
(* finish_run (ccsh_command_windows.cpp:194-240).                          *)
LEMMA ProcessStep == IInv /\ [Next]_vars => \A u \in Command : Process(u)'
<1> SUFFICES ASSUME TypeOK, \A u \in Command : Process(u), [Next]_vars
             PROVE  \A u \in Command : Process(u)'
  BY DEF IInv
<1> USE DEF TypeOK, Process, Goes, Cmd, Internal
<1>1. CASE UNCHANGED vars
  BY <1>1 DEF vars
<1>2. ASSUME NEW t \in Command, Open(t) PROVE \A u \in Command : Process(u)'
  <2>1. opened'[t] \in {Invalid, Cmd(t).file} /\ \A u \in Command \ {t} : opened'[u] = opened[u]
    BY <1>2 DEF Open
  <2>2. pc' = [pc EXCEPT ![t] = IF c.modern THEN "size" ELSE "mark"] /\ pc[t] = "idle" /\ Cmd(t).file # None
    BY <1>2 DEF Open
  <2>3. UNCHANGED <<c, proc, kept, fut>>
    BY <1>2 DEF Open
  <2> QED BY <2>1, <2>2, <2>3, HandleAssumption
<1>3. ASSUME NEW t \in Command, Begin(t) PROVE \A u \in Command : Process(u)'
  BY <1>3 DEF Begin
<1>4. ASSUME NEW t \in Command, ListStep(t) PROVE \A u \in Command : Process(u)'
  BY <1>4 DEF ListStep
<1>5. ASSUME NEW t \in Command, Clean(t) PROVE \A u \in Command : Process(u)'
  BY <1>5 DEF Clean
<1>6. ASSUME NEW t \in Command, Mark(t) PROVE \A u \in Command : Process(u)'
  BY <1>6 DEF Mark
<1>7. ASSUME NEW t \in Command, Unmark(t) PROVE \A u \in Command : Process(u)'
  BY <1>7 DEF Unmark
<1>8. ASSUME NEW t \in Command, Create(t) PROVE \A u \in Command : Process(u)'
  BY <1>8 DEF Create
<1>9. ASSUME NEW t \in Command, Started(t) PROVE \A u \in Command : Process(u)'
  <2>1. UNCHANGED <<c, opened, proc>> /\ pc[t] = "started" /\ fut[t].wait = "none"
    BY <1>9 DEF Started
  <2>2. \A u \in Command \ {t} : pc'[u] = pc[u] /\ fut'[u] = fut[u] /\ kept'[u] = kept[u]
    BY <1>9 DEF Started
  <2>3. /\ pc'[t] \in {"up", "threw"} /\ fut'[t].wait \in {"none", "wait"}
        /\ kept'[t] = kept[t] \/ ~kept'[t]
        /\ pc'[t] = "threw" /\ fut'[t].wait = "none" => ~kept'[t]
    BY <1>9 DEF Started
  <2> QED BY <2>1, <2>2, <2>3
<1>10. ASSUME NEW t \in Command, ProgramEnds(t) PROVE \A u \in Command : Process(u)'
  BY <1>10, StateChanges, ProcessExits, InRange DEF ProgramEnds
<1>11. ASSUME NEW t \in Command, Wait(t) PROVE \A u \in Command : Process(u)'
  BY <1>11 DEF Wait
<1>12. ASSUME NEW t \in Command, Finish(t) PROVE \A u \in Command : Process(u)'
  BY <1>12 DEF Finish
<1>13. ASSUME NEW t \in Command, Destroy(t) PROVE \A u \in Command : Process(u)'
  BY <1>13 DEF Destroy
<1>14. ASSUME NEW t \in Command, SetConnects(t) PROVE \A u \in Command : Process(u)'
  <2>1. \/ proc' = [proc EXCEPT ![t].st = "writes"]
        \/ \E code \in Code : Exits(t, code)
    BY <1>14, InRange DEF SetConnects
  <2>2. \/ proc'[t].st = "writes" /\ \A u \in Command \ {t} : proc'[u] = proc[u]
        \/ proc'[t].st = "exited" /\ \A u \in Command \ {t} : proc'[u] = proc[u]
    BY <2>1, StateChanges, ProcessExits
  <2> QED BY <1>14, <2>2 DEF SetConnects
<1>15. ASSUME NEW t \in Command, SetWrites(t) PROVE \A u \in Command : Process(u)'
  <2>1. UNCHANGED proc \/ Exits(t, 0) \/ Exits(t, 1)
    BY <1>15 DEF SetWrites
  <2>2. 0 \in Code /\ 1 \in Code
    BY InRange
  <2>3. UNCHANGED proc \/ (proc'[t].st = "exited" /\ \A u \in Command \ {t} : proc'[u] = proc[u])
    <3>1. CASE Exits(t, 0)
      BY <2>2, <3>1, ProcessExits
    <3>2. CASE Exits(t, 1)
      BY <2>2, <3>2, ProcessExits
    <3> QED BY <2>1, <3>1, <3>2
  <2>4. UNCHANGED <<c, pc, opened, kept, fut>>
    BY <1>15 DEF SetWrites
  <2>5. CASE UNCHANGED proc
    BY <2>4, <2>5
  <2>6. CASE proc'[t].st = "exited" /\ \A u \in Command \ {t} : proc'[u] = proc[u]
    <3>1. proc[t].st # "none"
      BY <1>15 DEF SetWrites
    <3> QED BY <2>4, <2>6, <3>1
  <2> QED BY <2>3, <2>5, <2>6
<1>16. ASSUME NEW t \in Command, Connect(t) PROVE \A u \in Command : Process(u)'
  <2>1. \A u \in Command : fut'[u].wait = fut[u].wait
    <3>1. UNCHANGED fut \/ \E s : fut' = [fut EXCEPT ![t].apply = s]
      <4> HIDE DEF TypeOK, Process
      <4> QED BY <1>16 DEF Connect
    <3> QED BY <3>1, ApplyChanges
  <2> QED BY <1>16, <2>1 DEF Connect
<1>17. ASSUME NEW t \in Command, Apply(t) PROVE \A u \in Command : Process(u)'
  <2>1. \A u \in Command : fut'[u].wait = fut[u].wait
    <3>1. UNCHANGED fut \/ \E s : fut' = [fut EXCEPT ![t].apply = s]
      <4> HIDE DEF TypeOK, Process
      <4> QED BY <1>17 DEF Apply, Disconnects
    <3> QED BY <3>1, ApplyChanges
  <2> QED BY <1>17, <2>1 DEF Apply
<1> QED BY <1>1, <1>2, <1>3, <1>4, <1>5, <1>6, <1>7, <1>8, <1>9, <1>10, <1>11, <1>12,
           <1>13, <1>14, <1>15, <1>16, <1>17 DEF Next, StartRun, Host, Program

(* env_applier never gets ahead of SET, and has all when it has read to the*)
(* end (ccsh_command_windows.cpp:311-332).                                 *)
LEMMA AppliedStep == IInv /\ [Next]_vars => \A u \in Command : Applied(u)'
<1> SUFFICES ASSUME TypeOK, \A u \in Command : Process(u) /\ Applied(u), [Next]_vars
             PROVE  \A u \in Command : Applied(u)'
  BY DEF IInv
<1>1. CASE UNCHANGED vars
  <2>1. \A u \in Command : Lines(u)' = Lines(u)
    BY <1>1 DEF vars, Lines, Cmd
  <2> QED BY <1>1, <2>1 DEF vars, Applied
<1>0. c \in Cases /\ \A u \in Command : /\ Lines(u) \in Seq({"ok", "refused", "bad"}) /\ Len(Lines(u)) \in Nat
                                         /\ {0, 1} \subseteq Code /\ Cmd(u).exits \subseteq Code
  BY LinesAre, InRange DEF TypeOK
<1>2. ASSUME c' = c, UNCHANGED <<sent, got, env>>,
             NEW t \in Command, \A u \in Command \ {t} : /\ pc'[u] = pc[u] /\ proc'[u] = proc[u]
                                                        /\ fut'[u] = fut[u] /\ pipe'[u] = pipe[u],
             proc'[t].st \in {"none", "run", "set"} => sent[t] = 0,
             pipe'[t] = "connected" => proc'[t].st \in {"writes", "exited"},
             pc'[t] \notin {"up", "done"} => fut'[t].apply = "none",
             fut'[t].apply \in {"none", "connect"} => got[t] = 0,
             pc'[t] = "done" => fut'[t].apply \in {"done", "cut"},
             fut'[t].apply = "read" => pipe'[t] = "connected",
             pipe'[t] = "connected" /\ proc'[t].st = "exited" => sent[t] = Len(Lines(t)),
             fut'[t].apply = "done" =>
                \/ got[t] \in {0, Len(Lines(t))}
                \/ got[t] + 1 <= Len(Lines(t)) /\ Lines(t)[got[t] + 1] = "bad"
      PROVE  \A u \in Command : Applied(u)'
  <2>1. \A u \in Command : Lines(u)' = Lines(u)
    BY <1>2 DEF Lines, Cmd
  <2>2. Applied(t)'
    BY <1>2, <2>1 DEF Applied
  <2>3. \A u \in Command \ {t} : Applied(u)'
    BY <1>2, <2>1 DEF Applied
  <2> QED BY <2>2, <2>3
<1>3. ASSUME NEW t \in Command, Open(t) \/ Begin(t) \/ ListStep(t) \/ Clean(t) \/ Mark(t) \/ Unmark(t)
      PROVE  \A u \in Command : Applied(u)'
  <2>1. /\ UNCHANGED <<c, proc, fut, sent, got, env>> /\ pc[t] \notin {"up", "done"} /\ pc'[t] # "done"
        /\ \A u \in Command \ {t} : pc'[u] = pc[u]
    BY <1>3 DEF Open, Begin, ListStep, Clean, Mark, Unmark, Goes, Internal, TypeOK
  <2>2. pipe' = pipe \/ (pipe'[t] # "connected" /\ \A u \in Command \ {t} : pipe'[u] = pipe[u])
    BY <1>3 DEF Open, Begin, CreatesPipe, ListStep, Clean, Mark, Unmark, TypeOK
  <2>3. Applied(t)
    OBVIOUS
  <2> QED BY <1>2, <2>1, <2>2, <2>3 DEF Applied
<1>4. ASSUME NEW t \in Command, Create(t) PROVE \A u \in Command : Applied(u)'
  <2>1. /\ UNCHANGED <<c, fut, pipe, sent, got, env>> /\ pc[t] = "create" /\ pc'[t] \in {"clean", "unmark"}
        /\ \A u \in Command \ {t} : pc'[u] = pc[u]
    BY <1>4 DEF Create, Goes, TypeOK
  <2>2. proc' = proc \/ (proc'[t].st = "run" /\ \A u \in Command \ {t} : proc'[u] = proc[u])
    BY <1>4 DEF Create, TypeOK
  <2>3. Applied(t) /\ proc[t].st = "none"
    BY <2>1 DEF Process
  <2> QED BY <1>2, <2>1, <2>2, <2>3 DEF Applied
<1>5. ASSUME NEW t \in Command, Started(t) \/ Wait(t) \/ Finish(t) \/ Destroy(t)
      PROVE  \A u \in Command : Applied(u)'
  <2>1. /\ UNCHANGED <<c, proc, pipe, sent, got, env>>
        /\ \A u \in Command \ {t} : pc'[u] = pc[u] /\ fut'[u] = fut[u]
    BY <1>5 DEF Started, Wait, Finish, Destroy, Goes, TypeOK
  <2>2. Applied(t)
    OBVIOUS
  <2>3. CASE Started(t)
    <3>1. fut'[t].apply \in {"none", "connect", "done"} /\ got[t] = 0 /\ pc'[t] \in {"up", "threw"}
      BY <2>2, <2>3 DEF Started, Goes, TypeOK, Applied
    <3>2. pc'[t] = "threw" => fut'[t].apply = "none"
      BY <2>2, <2>3 DEF Started, Goes, TypeOK, Applied
    <3> QED BY <1>2, <2>1, <2>2, <3>1, <3>2 DEF Applied
  <2>4. CASE Wait(t)
    <3>1. UNCHANGED pc /\ fut'[t].apply = fut[t].apply
      BY <2>4 DEF Wait, TypeOK, Futures
    <3> QED BY <1>2, <2>1, <2>2, <3>1 DEF Applied
  <2>5. CASE Finish(t)
    <3>1. UNCHANGED fut /\ pc'[t] = "done" /\ fut[t].apply \in {"done", "cut"}
      BY <2>5 DEF Finish, Goes, TypeOK
    <3> QED BY <1>2, <2>1, <2>2, <3>1 DEF Applied
  <2>6. CASE Destroy(t)
    <3>1. UNCHANGED fut /\ pc[t] = "threw" /\ pc'[t] = "gone"
      BY <2>6 DEF Destroy, Goes, TypeOK
    <3> QED BY <1>2, <2>1, <2>2, <3>1 DEF Applied
  <2> QED BY <1>5, <2>3, <2>4, <2>5, <2>6
<1>6. ASSUME NEW t \in Command, ProgramEnds(t) PROVE \A u \in Command : Applied(u)'
  <2>1. UNCHANGED <<c, pc, fut, pipe, sent, got, env>> /\ proc[t].st = "run"
    BY <1>6 DEF ProgramEnds
  <2>2. proc'[t].st \in {"set", "exited"} /\ \A u \in Command \ {t} : proc'[u] = proc[u]
    <3>1. proc' = [proc EXCEPT ![t].st = "set"] \/ \E code \in Code : Exits(t, code)
      BY <1>0, <1>6 DEF ProgramEnds
    <3> QED BY <3>1, StateChanges, ProcessExits
  <2>3. Applied(t) /\ pipe[t] # "connected"
    BY <2>1 DEF Applied
  <2> QED BY <1>2, <2>1, <2>2, <2>3 DEF Applied
<1>7. ASSUME NEW t \in Command, SetConnects(t) PROVE \A u \in Command : Applied(u)'
  <2>1. UNCHANGED <<c, pc, fut, sent, got, env>> /\ proc[t].st = "set"
    BY <1>7 DEF SetConnects
  <2>2. /\ proc'[t].st \in {"writes", "exited"} /\ \A u \in Command \ {t} : proc'[u] = proc[u]
        /\ pipe[t] = "invalid" => pipe' = pipe
        /\ pipe[t] # "invalid" => proc'[t].st = "writes"
    <3>1. \/ pipe[t] # "invalid" /\ proc' = [proc EXCEPT ![t].st = "writes"]
          \/ pipe[t] = "invalid" /\ pipe' = pipe /\ \E code \in Code : Exits(t, code)
      BY <1>0, <1>7 DEF SetConnects
    <3> QED BY <3>1, StateChanges, ProcessExits
  <2>3. \A u \in Command \ {t} : pipe'[u] = pipe[u]
    BY <1>7 DEF SetConnects, TypeOK
  <2>4. Applied(t) /\ pipe[t] # "connected"
    BY <2>1 DEF Applied
  <2> QED BY <1>2, <2>1, <2>2, <2>3, <2>4 DEF Applied
<1>8. ASSUME NEW t \in Command, SetWrites(t) PROVE \A u \in Command : Applied(u)'
  <2>1. UNCHANGED <<c, pc, fut, pipe, got, env>> /\ proc[t].st = "writes" /\ Applied(t)
    BY <1>8 DEF SetWrites
  <2>2. CASE sent[t] < Len(Lines(t)) /\ sent' = [sent EXCEPT ![t] = @ + 1] /\ UNCHANGED proc
    <3>1. sent'[t] = sent[t] + 1 /\ \A u \in Command \ {t} : sent'[u] = sent[u]
      BY <2>2 DEF TypeOK
    <3>2. \A u \in Command : Lines(u)' = Lines(u)
      BY <2>1 DEF Lines, Cmd
    <3>3. sent[t] \in Nat /\ got[t] \in Nat /\ Len(Lines(t)) \in Nat
      BY <1>0 DEF TypeOK
    <3>4. Applied(t)'
      BY <2>1, <2>2, <3>1, <3>2, <3>3 DEF Applied
    <3>5. \A u \in Command \ {t} : Applied(u)'
      BY <2>1, <2>2, <3>1, <3>2 DEF Applied
    <3> QED BY <3>4, <3>5
  <2>3. CASE /\ Exits(t, 0) \/ Exits(t, 1)
             /\ pipe[t] = "broken" \/ sent[t] = Len(Lines(t))
             /\ UNCHANGED sent
    <3>1. proc'[t].st = "exited" /\ \A u \in Command \ {t} : proc'[u] = proc[u]
      <4>1. 0 \in Code /\ 1 \in Code
        BY <1>0
      <4> QED BY <2>3, <4>1, ProcessExits
    <3> QED BY <1>2, <2>1, <2>3, <3>1 DEF Applied
  <2> QED BY <1>8, <2>2, <2>3 DEF SetWrites
<1>9. ASSUME NEW t \in Command, Connect(t) PROVE \A u \in Command : Applied(u)'
  <2>1. UNCHANGED <<c, pc, proc, sent, got, env>> /\ fut[t].apply = "connect" /\ Applied(t) /\ got[t] = 0
    BY <1>9 DEF Connect, Applied
  <2>2. CASE pipe[t] = "listening" /\ pipe' = [pipe EXCEPT ![t] = "waiting"] /\ UNCHANGED fut
    <3>1. pipe'[t] = "waiting" /\ \A u \in Command \ {t} : pipe'[u] = pipe[u]
      BY <2>2 DEF TypeOK
    <3> QED BY <1>2, <2>1, <2>2, <3>1 DEF Applied
  <2>3. CASE pipe[t] = "connected" /\ fut' = [fut EXCEPT ![t].apply = "read"] /\ UNCHANGED pipe
    <3>1. fut'[t].apply = "read" /\ \A u \in Command \ {t} : fut'[u] = fut[u]
      BY <2>3, ApplyChanges
    <3> QED BY <1>2, <2>1, <2>3, <3>1 DEF Applied
  <2>4. CASE fut' = [fut EXCEPT ![t].apply = "done"] /\ UNCHANGED pipe
    <3>1. fut'[t].apply = "done" /\ \A u \in Command \ {t} : fut'[u] = fut[u]
      BY <2>4, ApplyChanges
    <3> QED BY <1>2, <2>1, <2>4, <3>1 DEF Applied
  <2> QED BY <1>9, <2>2, <2>3, <2>4 DEF Connect
<1>10. ASSUME NEW t \in Command, Apply(t) PROVE \A u \in Command : Applied(u)'
  <2>1. /\ UNCHANGED <<c, pc, proc, sent>> /\ fut[t].apply = "read" /\ pc[t] \in {"up", "done"}
        /\ Applied(t) /\ pipe[t] = "connected"
    BY <1>10 DEF Apply, Applied
  <2>2. got[t] \in Nat /\ sent[t] \in Nat /\ Len(Lines(t)) \in Nat
    BY <1>0 DEF TypeOK
  <2>3. CASE Puts(t) /\ UNCHANGED <<pipe, fut>>
    <3> DEFINE n == got[t] + 1
    <3>1. n <= sent[t] /\ Lines(t)[n] # "bad" /\ got' = [got EXCEPT ![t] = n]
          /\ env' = IF Lines(t)[n] = "ok" THEN [env EXCEPT ![t] = @ \cup {n}] ELSE env
      BY <2>3 DEF Puts
    <3>2. got'[t] = n /\ \A u \in Command \ {t} : got'[u] = got[u] /\ env'[u] = env[u]
      BY <3>1 DEF TypeOK
    <3>3. env'[t] = {i \in 1..n : Lines(t)[i] = "ok"}
      <4>1. env[t] = {i \in 1..got[t] : Lines(t)[i] = "ok"}
        BY <2>1 DEF Applied
      <4>2. {i \in 1..n : Lines(t)[i] = "ok"} = IF Lines(t)[n] = "ok" THEN env[t] \cup {n} ELSE env[t]
        BY <2>2, <4>1, OneLineMore
      <4>3. env'[t] = IF Lines(t)[n] = "ok" THEN env[t] \cup {n} ELSE env[t]
        BY <3>1 DEF TypeOK
      <4> QED BY <4>2, <4>3
    <3>4. \A i \in 1..n : Lines(t)[i] # "bad"
      BY <2>1, <2>2, <3>1 DEF Applied
    <3>5. \A u \in Command : Lines(u)' = Lines(u)
      BY <2>1 DEF Lines, Cmd
    <3> HIDE DEF n
    <3>6. Applied(t)'
      BY <2>1, <2>3, <3>1, <3>2, <3>3, <3>4, <3>5 DEF Applied
    <3>7. \A u \in Command \ {t} : Applied(u)'
      BY <2>1, <2>3, <3>2, <3>5 DEF Applied
    <3> QED BY <3>6, <3>7
  <2>4. CASE \E why \in {"done", "cut"} :
                /\ Disconnects(t, why) /\ UNCHANGED <<got, env>>
                /\ why = "done" => \/ got[t] = sent[t] /\ proc[t].st = "exited"
                                   \/ got[t] < sent[t] /\ Lines(t)[got[t] + 1] = "bad"
    <3>1. PICK why \in {"done", "cut"} :
                /\ Disconnects(t, why) /\ UNCHANGED <<got, env>>
                /\ why = "done" => \/ got[t] = sent[t] /\ proc[t].st = "exited"
                                   \/ got[t] < sent[t] /\ Lines(t)[got[t] + 1] = "bad"
      BY <2>4
    <3>2. pipe'[t] = "broken" /\ \A u \in Command \ {t} : pipe'[u] = pipe[u]
      BY <3>1 DEF Disconnects, TypeOK
    <3>3. fut'[t].apply = why /\ \A u \in Command \ {t} : fut'[u] = fut[u]
      BY <3>1, ApplyChanges DEF Disconnects
    <3>4. why = "done" => \/ got[t] = Len(Lines(t))
                          \/ got[t] + 1 <= Len(Lines(t)) /\ Lines(t)[got[t] + 1] = "bad"
      BY <2>1, <2>2, <3>1 DEF Applied
    <3> QED BY <1>2, <2>1, <3>1, <3>2, <3>3, <3>4 DEF Applied
  <2> QED BY <1>10, <2>3, <2>4 DEF Apply
<1> QED BY <1>1, <1>3, <1>4, <1>5, <1>6, <1>7, <1>8, <1>9, <1>10 DEF Next, StartRun, Host, Program

(* What is run does not change while it runs.                              *)
LEMMA CaseStays == [Next]_vars => c' = c
  BY DEF Next, StartRun, Host, Program, vars, Open, Begin, ListStep, Clean, Mark, Unmark, Create,
         Started, ProgramEnds, Wait, Finish, Destroy, SetConnects, SetWrites, Connect, Apply

(* A file is opened for one redirection at a time                          *)
(* (ccsh_command_windows.cpp:255-271).                                     *)
LEMMA DistinctStep == IInv /\ [Next]_vars => Distinct'
<1> SUFFICES ASSUME TypeOK, \A u \in Command : Process(u), Distinct, [Next]_vars PROVE Distinct'
  BY DEF IInv
<1> USE HandleAssumption DEF Distinct
<1>1. CASE UNCHANGED opened
  BY <1>1
<1>2. ASSUME NEW t \in Command, Open(t) PROVE Distinct'
  <2>1. PICK h \in {Cmd(t).file, Invalid} :
            /\ (\E u \in Command \ {t} : opened[u] = Cmd(t).file) => h = Invalid
            /\ opened' = [opened EXCEPT ![t] = h]
    BY <1>2 DEF Open
  <2> QED BY <2>1 DEF TypeOK
<1>3. ASSUME NEW t \in Command, opened' = [opened EXCEPT ![t] = None] PROVE Distinct'
  BY <1>3 DEF TypeOK
<1> QED BY <1>1, <1>2, <1>3
        DEF Next, StartRun, Host, Program, vars, Begin, ListStep, Clean, Mark, Unmark, Create,
           Started, ProgramEnds, Wait, Finish, Destroy, SetConnects, SetWrites, Connect, Apply

(* One start_run at a time.                                                *)
LEMMA AloneStep == IInv /\ [Next]_vars => Alone'
<1> SUFFICES ASSUME TypeOK, Alone, [Next]_vars PROVE Alone'
  BY DEF IInv
<1>1. c' = c
  BY CaseStays
<1>2. ASSUME NEW t \in Command, \A u \in Command \ {t} : pc'[u] = pc[u], t \in Starting
               \/ t \notin Starting'
      PROVE  Alone'
  BY <1>1, <1>2 DEF Alone, Starting
<1>3. ASSUME NEW t \in Command, Open(t) \/ Begin(t) PROVE Alone'
  <2>1. /\ c.serial => Starting = {}
        /\ \A u \in Command \ {t} : pc'[u] = pc[u]
    BY <1>3 DEF Open, Begin, Goes, TypeOK
  <2> QED BY <1>1, <2>1 DEF Alone, Starting
<1>4. ASSUME NEW t \in Command, ListStep(t) \/ Clean(t) \/ Mark(t) \/ Unmark(t) \/ Create(t)
               \/ Started(t) \/ Finish(t) \/ Destroy(t)
      PROVE  Alone'
  <2>1. \A u \in Command \ {t} : pc'[u] = pc[u]
    BY <1>4 DEF ListStep, Clean, Mark, Unmark, Create, Started, Finish, Destroy, Goes, TypeOK
  <2>2. t \in Starting \/ t \notin Starting'
    BY <1>4 DEF ListStep, Clean, Mark, Unmark, Create, Started, Finish, Destroy, Goes, Starting, TypeOK
  <2> QED BY <1>2, <2>1, <2>2
<1>5. CASE UNCHANGED pc
  BY <1>1, <1>5 DEF Alone, Starting
<1> QED BY <1>3, <1>4, <1>5
        DEF Next, StartRun, Host, Program, vars, ProgramEnds, Wait, SetConnects,
           SetWrites, Connect, Apply

(* A program keeps what it has inherited, and gets its streams.            *)
LEMMA InheritsStep == IInv /\ [Next]_vars => InheritsExactly'
<1> SUFFICES ASSUME IInv, [Next]_vars PROVE InheritsExactly'
  OBVIOUS
<1>1. TypeOK /\ c' = c /\ c \in Cases /\ \A u \in Command : Given(u)' = Given(u)
  BY CaseStays DEF IInv, TypeOK, Given, Cmd
<1>2. ASSUME NEW t \in Command, proc' = proc \/ proc'[t].st # "run",
             \A u \in Command \ {t} : proc'[u] = proc[u]
      PROVE  InheritsExactly'
  BY <1>1, <1>2 DEF IInv, InheritsExactly
<1>3. ASSUME NEW t \in Command, Create(t) PROVE InheritsExactly'
  <2>1. CASE proc' = proc
    BY <1>2, <2>1
  <2>2. CASE /\ Invalid \notin ToSet(Streams(t))
             /\ proc' = [proc EXCEPT ![t] = [st |-> "run", holds |-> Inherited(t), code |-> 0]]
    <3>1. proc'[t].holds = Inherited(t) /\ \A u \in Command \ {t} : proc'[u] = proc[u]
      BY <1>1, <2>2 DEF TypeOK
    <3>2. Given(t) = Streams(t)
      <4>1. pc[t] = "create" /\ Process(t)
        BY <1>3 DEF Create, IInv
      <4>2. Cmd(t).file # None => opened[t] \in {Invalid, Cmd(t).file}
        BY <4>1 DEF Process
      <4>3. Cmd(t).file # None => opened[t] # Invalid
        BY <1>1, <2>2, StreamsOf
      <4> QED BY <4>2, <4>3 DEF Given, Streams
    <3>3. c.modern \/ c.serial => /\ ToSet(Streams(t)) \subseteq Inherited(t)
                                  /\ Inherited(t) \subseteq ToSet(Streams(t)) \cup Std
      <4>1. CASE c.modern
        BY <4>1 DEF Inherited
      <4>2. CASE ~c.modern /\ c.serial
        <5>1. Inherited(t) = inherit /\ pc[t] = "create" /\ t \in Starting
          BY <1>3, <4>2 DEF Inherited, Create, Starting
        <5>2. marked[t] = 3 /\ \A u \in Command \ {t} : marked[u] = 0
          BY <4>2, <5>1 DEF IInv, Places, Alone, Starting
        <5>3. \A i \in 1..3 : Streams(t)[i] \in inherit
          BY <4>2, <5>1, <5>2 DEF IInv, Marks
        <5>4. \A h \in inherit \ Std : \E i \in 1..3 : h = Streams(t)[i]
          BY <4>2, <5>2 DEF IInv, Marks
        <5> QED BY <1>1, <5>1, <5>3, <5>4, StreamsOf
      <4> QED BY <4>1, <4>2
    <3> QED BY <1>1, <3>1, <3>2, <3>3 DEF IInv, InheritsExactly
  <2> QED BY <1>3, <2>1, <2>2 DEF Create
<1>4. ASSUME NEW t \in Command, ProgramEnds(t) \/ SetConnects(t) \/ SetWrites(t) PROVE InheritsExactly'
  <2>1. proc' = proc \/ (proc'[t].st # "run" /\ \A u \in Command \ {t} : proc'[u] = proc[u])
    BY <1>1, <1>4, InRange, StateChanges, ProcessExits DEF ProgramEnds, SetConnects, SetWrites
  <2> QED BY <1>2, <2>1
<1>5. CASE UNCHANGED proc
  BY <1>1, <1>5 DEF IInv, InheritsExactly
<1> QED BY <1>3, <1>4, <1>5
        DEF Next, StartRun, Host, Program, vars, Open, Begin, ListStep, Clean, Mark, Unmark,
           Started, Wait, Finish, Destroy, Connect, Apply

(* What is marked on XP is in use for a start.                             *)
LEMMA MarksStep == IInv /\ [Next]_vars => Marks'
<1> SUFFICES ASSUME IInv, [Next]_vars, ~c.modern PROVE Marks'
  BY CaseStays DEF Marks
<1>1. TypeOK /\ c' = c /\ c \in Cases
  BY CaseStays DEF IInv, TypeOK
<1>2. \A u \in Command : Places(u) /\ Process(u)
  BY DEF IInv
<1>3. ASSUME UNCHANGED <<opened, marked, inherit>>,
             \A u \in Command : pc'[u] \in {"mark", "create"} => pc[u] \in {"mark", "create"} \/ marked[u] = 0
      PROVE  Marks'
  <2>1. \A u \in Command : Streams(u)' = Streams(u)
    BY <1>1, <1>3, StreamsStay
  <2>2. \A i \in 1..3 : ~(i <= 0)
    OBVIOUS
  <2> QED BY <1>1, <1>3, <2>1, <2>2 DEF IInv, Marks
<1>4. ASSUME NEW t \in Command, marked[t] = 0, UNCHANGED marked,
             inherit' \in {inherit, inherit \ {opened[t]}},
             \A u \in Command \ {t} : opened'[u] = opened[u] /\ pc'[u] = pc[u]
      PROVE  Marks'
  <2>1. \A u \in Command \ {t} : Streams(u)' = Streams(u)
    BY <1>1, <1>4, StreamsStay
  <2>2. \A i \in 1..3 : ~(i <= 0)
    OBVIOUS
  <2>3. ASSUME NEW h \in inherit' \ Std
        PROVE  \E u \in Command, i \in 1..3 : i <= marked'[u] /\ h = Streams(u)'[i]
    <3>1. PICK u \in Command, i \in 1..3 : i <= marked[u] /\ h = Streams(u)[i]
      BY <1>4, <2>3 DEF IInv, Marks
    <3>2. u # t
      BY <1>4, <2>2, <3>1
    <3> QED BY <1>4, <2>1, <3>1, <3>2
  <2>4. ASSUME c.serial, NEW u \in Command, NEW i \in 1..3, pc'[u] \in {"mark", "create"}, i <= marked'[u]
        PROVE  Streams(u)'[i] \in inherit' \ {None, Invalid}
    <3>1. u # t
      BY <1>4, <2>2, <2>4
    <3>2. Streams(u)' = Streams(u) /\ Streams(u)[i] \in inherit \ {None, Invalid}
      BY <1>4, <2>1, <2>4, <3>1 DEF IInv, Marks
    <3>3. Streams(u)[i] # opened[t]
      <4>1. opened[t] \in {None, Invalid} \/ (opened[t] = Cmd(t).file /\ Cmd(t).file # None)
        BY <1>2 DEF Process
      <4>2. CASE Cmd(u).file # None /\ i = 2
        BY <1>1, <3>1, <3>2, <4>2, StreamsOf DEF IInv, Distinct
      <4>3. CASE ~(Cmd(u).file # None /\ i = 2)
        <5>1. Streams(u)[i] = Cmd(u).std[i]
          BY <1>1, <4>3, StreamsOf
        <5>2. Cmd(t).file # None => Cmd(t).file # Cmd(u).std[i]
          BY <1>1, CasesAssumption DEF Cmd
        <5> QED BY <3>2, <4>1, <5>1, <5>2
      <4> QED BY <4>2, <4>3
    <3> QED BY <1>4, <3>2, <3>3
  <2> QED BY <1>1, <2>3, <2>4 DEF Marks
<1>5. ASSUME NEW t \in Command, Open(t) PROVE Marks'
  <2>1. inherit' = inherit /\ UNCHANGED marked /\ pc[t] = "idle"
    BY <1>5 DEF Open
  <2>2. \A u \in Command \ {t} : opened'[u] = opened[u] /\ pc'[u] = pc[u]
    BY <1>1, <1>5 DEF Open, Goes, TypeOK
  <2>3. marked[t] = 0
    BY <1>2, <2>1 DEF Places
  <2> QED BY <1>4, <2>1, <2>2, <2>3
<1>6. ASSUME NEW t \in Command, Finish(t) \/ Destroy(t) PROVE Marks'
  <2>1. inherit' = inherit \ {opened[t]} /\ UNCHANGED marked /\ pc[t] \in {"up", "threw"}
    BY <1>6 DEF Finish, Destroy
  <2>2. \A u \in Command \ {t} : opened'[u] = opened[u] /\ pc'[u] = pc[u]
    BY <1>1, <1>6 DEF Finish, Destroy, Goes, TypeOK
  <2>3. marked[t] = 0
    BY <1>2, <2>1 DEF Places
  <2> QED BY <1>4, <2>1, <2>2, <2>3
<1>7. ASSUME NEW t \in Command, Begin(t) \/ ListStep(t) \/ Clean(t) \/ Create(t) \/ Started(t)
      PROVE  Marks'
  <2>1. UNCHANGED <<opened, marked, inherit>> /\ \A u \in Command \ {t} : pc'[u] = pc[u]
    BY <1>1, <1>7 DEF Begin, ListStep, Clean, Create, Started, Goes, TypeOK
  <2>2. pc'[t] \in {"mark", "create"} => marked[t] = 0
    BY <1>1, <1>2, <1>7 DEF Begin, ListStep, Clean, Create, Started, Goes, TypeOK, Internal, Places, OfLists
  <2> QED BY <1>3, <2>1, <2>2
<1>8. CASE UNCHANGED <<pc, opened, marked, inherit>>
  BY <1>3, <1>8
<1>9. ASSUME NEW t \in Command, Mark(t) PROVE Marks'
  <2>1. UNCHANGED opened /\ pc[t] = "mark" /\ \A u \in Command \ {t} : pc'[u] = pc[u]
    BY <1>1, <1>9 DEF Mark, Goes, TypeOK
  <2>2. \A u \in Command : Streams(u)' = Streams(u)
    BY <1>1, <2>1, StreamsStay
  <2>3. CASE UNCHANGED <<inherit, marked>> /\ pc'[t] = "unmark"
    BY <1>3, <2>1, <2>3
  <2> DEFINE k == marked[t] + 1
             h == Streams(t)[k]
  <2>4. k \in 1..3
    BY <1>1, <1>2, <2>1 DEF TypeOK, Places
  <2>5. CASE h # Invalid /\ inherit' = inherit \cup {h} /\ marked' = [marked EXCEPT ![t] = k]
    <3>1. marked'[t] = k /\ \A u \in Command \ {t} : marked'[u] = marked[u]
      BY <1>1, <2>5 DEF TypeOK
    <3>2. \A i \in 1..3 : i <= k <=> i <= marked[t] \/ i = k
      BY <1>1, <2>4 DEF TypeOK
    <3>3. h # None
      <4>1. Cmd(t).file # None => opened[t] # None
        BY <1>2, <2>1 DEF Process
      <4> QED BY <1>1, <2>4, <4>1, StreamsOf
    <3> HIDE DEF k, h
    <3>4. h = Streams(t)[k]
      BY DEF h
    <3>5. \A x \in inherit' \ Std : \E u \in Command, i \in 1..3 : i <= marked'[u] /\ x = Streams(u)'[i]
      <4> SUFFICES ASSUME NEW x \in inherit' \ Std
                   PROVE  \E u \in Command, i \in 1..3 : i <= marked'[u] /\ x = Streams(u)'[i]
        OBVIOUS
      <4>1. CASE x = h
        BY <2>2, <2>4, <3>1, <3>2, <3>4, <4>1
      <4>2. CASE x \in inherit \ Std
        <5>1. PICK u \in Command, i \in 1..3 : i <= marked[u] /\ x = Streams(u)[i]
          BY <4>2 DEF IInv, Marks
        <5>2. i <= marked'[u]
          BY <3>1, <3>2, <5>1
        <5> QED BY <2>2, <5>1, <5>2
      <4> QED BY <2>5, <4>1, <4>2
    <3>6. ASSUME c.serial, NEW u \in Command, NEW i \in 1..3, pc'[u] \in {"mark", "create"}, i <= marked'[u]
          PROVE  Streams(u)'[i] \in inherit' \ {None, Invalid}
      <4>1. CASE u = t /\ i = k
        BY <2>2, <2>5, <3>3, <3>4, <4>1
      <4>2. CASE ~(u = t /\ i = k)
        <5>1. i <= marked[u] /\ pc[u] \in {"mark", "create"}
          BY <2>1, <3>1, <3>2, <3>6, <4>2
        <5>2. Streams(u)[i] \in inherit \ {None, Invalid}
          BY <3>6, <5>1 DEF IInv, Marks
        <5> QED BY <2>2, <2>5, <5>2
      <4> QED BY <4>1, <4>2
    <3> QED BY <1>1, <3>5, <3>6 DEF Marks
  <2> QED BY <1>1, <1>9, <2>3, <2>5 DEF Mark, Goes, TypeOK
<1>10. ASSUME NEW t \in Command, Unmark(t) PROVE Marks'
  <2>1. UNCHANGED opened /\ pc[t] = "unmark" /\ \A u \in Command \ {t} : pc'[u] = pc[u]
    BY <1>1, <1>10 DEF Unmark, Goes, TypeOK
  <2>2. \A u \in Command : Streams(u)' = Streams(u)
    BY <1>1, <2>1, StreamsStay
  <2>3. CASE marked[t] = 0
    <3>1. UNCHANGED <<inherit, marked>>
      BY <1>10, <2>3 DEF Unmark
    <3> QED BY <1>3, <2>1, <2>3, <3>1
  <2> DEFINE k == marked[t]
             h == Streams(t)[k]
  <2>4. CASE k # 0
    <3>1. inherit' = inherit \ {h} /\ UNCHANGED pc /\ marked' = [marked EXCEPT ![t] = @ - 1]
      BY <1>10, <2>4 DEF Unmark
    <3>2. marked'[t] = k - 1 /\ \A u \in Command \ {t} : marked'[u] = marked[u]
      BY <1>1, <3>1 DEF TypeOK
    <3>3. k \in 1..3 /\ \A i \in 1..3 : i <= k <=> i <= k - 1 \/ i = k
      BY <1>1, <2>4 DEF TypeOK
    <3> HIDE DEF k
    <3>4. \A x \in inherit' \ Std : \E u \in Command, i \in 1..3 : i <= marked'[u] /\ x = Streams(u)'[i]
      <4> SUFFICES ASSUME NEW x \in inherit' \ Std
                   PROVE  \E u \in Command, i \in 1..3 : i <= marked'[u] /\ x = Streams(u)'[i]
        OBVIOUS
      <4>1. PICK u \in Command, i \in 1..3 : i <= marked[u] /\ x = Streams(u)[i]
        BY <3>1 DEF IInv, Marks
      <4>2. i <= marked'[u]
        BY <3>1, <3>2, <3>3, <4>1 DEF k
      <4> QED BY <2>2, <4>1, <4>2
    <3>5. ASSUME c.serial, NEW u \in Command, NEW i \in 1..3, pc'[u] \in {"mark", "create"}, i <= marked'[u]
          PROVE  Streams(u)'[i] \in inherit' \ {None, Invalid}
      <4>1. u \in Starting /\ t \in Starting /\ u # t
        BY <2>1, <3>1, <3>5 DEF Starting
      <4> QED BY <3>5, <4>1 DEF IInv, Alone
    <3> QED BY <1>1, <3>4, <3>5 DEF Marks
  <2> QED BY <2>3, <2>4
<1> QED BY <1>5, <1>6, <1>7, <1>8, <1>9, <1>10 DEF Next, StartRun, Host, Program, vars, ProgramEnds, Wait,
           SetConnects, SetWrites, Connect, Apply

-----------------------------------------------------------------------------
(* The invariant, for every number of commands and every case.             *)
THEOREM Inductive == Spec => []IInv
<1>1. IInv /\ [Next]_vars => IInv'
  BY TypeStep, PlacesStep, ProcessStep, AppliedStep, DistinctStep, MarksStep, AloneStep, InheritsStep DEF IInv
<1> QED BY <1>1, InitIInv, PTL DEF Spec

(* A program inherits its three streams and no handle of another command.  *)
THEOREM Inherits == Spec => []InheritsExactly
<1>1. IInv => InheritsExactly
  BY DEF IInv
<1> QED BY <1>1, Inductive, PTL

(* Whatever step of a start fails, no attribute list, no mark and no       *)
(* handle of process, thread or file is left in the host.                  *)
THEOREM LeavesClean == Spec => []HostClean
<1>1. IInv => HostClean
  <2> SUFFICES ASSUME IInv, NEW t \in Command
               PROVE  /\ pc[t] \in {"up", "threw", "gone", "done"} => list[t] = "none" /\ marked[t] = 0
                      /\ pc[t] = "threw" /\ fut[t].wait = "none" => ~kept[t]
                      /\ pc[t] \in {"gone", "done"} => ~kept[t] /\ opened[t] = None
                      /\ (Starting = {} /\ ~c.modern) => inherit \subseteq Std
    BY DEF HostClean
  <2>1. \A u \in Command : Places(u) /\ Process(u)
    BY DEF IInv
  <2>2. pc[t] \in {"up", "threw", "gone", "done"} => list[t] = "none" /\ marked[t] = 0
    BY <2>1 DEF Places, Ended
  <2>3. ASSUME Starting = {}, ~c.modern PROVE inherit \subseteq Std
    <3>1. \A u \in Command : marked[u] = 0
      BY <2>1, <2>3 DEF Places, Starting
    <3>2. \A i \in 1..3 : ~(i <= 0)
      OBVIOUS
    <3> QED BY <2>3, <3>1, <3>2 DEF IInv, Marks
  <2> QED BY <2>1, <2>2, <2>3 DEF Process
<1> QED BY <1>1, Inductive, PTL

(* The environment of a script is applied up to the first line that is no  *)
(* assignment, or not at all, unless reading it fails.                     *)
THEOREM AppliesAll == Spec => []AppliesInFull
<1>1. IInv => AppliesInFull
  <2> SUFFICES ASSUME IInv, NEW t \in Command, pc[t] = "done"
               PROVE  \/ env[t] \in {{}, Settable(t)}
                      \/ fut[t].apply = "cut" /\ env[t] = {i \in Settable(t) : i <= got[t]}
    BY DEF AppliesInFull
  <2>1. Applied(t) /\ got[t] \in Nat /\ sent[t] \in Nat
    BY DEF IInv, TypeOK
  <2>2. Len(Lines(t)) \in Nat /\ DOMAIN Lines(t) = 1..Len(Lines(t))
    BY LinesAre DEF IInv, TypeOK
  <2>3. env[t] = {i \in Settable(t) : i <= got[t]}
    <3>1. env[t] = {i \in 1..got[t] : Lines(t)[i] = "ok"} /\ got[t] <= Len(Lines(t))
      BY <2>1, <2>2 DEF Applied
    <3>2. \A i \in 1..got[t] : \A j \in 1..i : Lines(t)[j] # "bad"
      BY <2>1 DEF Applied
    <3>3. \A i : i \in 1..got[t] <=> i \in DOMAIN Lines(t) /\ i <= got[t]
      BY <2>1, <2>2, <3>1
    <3> QED BY <3>1, <3>2, <3>3 DEF Settable
  <2>4. CASE got[t] = 0
    <3>1. \A i \in DOMAIN Lines(t) : ~(i <= 0)
      BY <2>2
    <3>2. env[t] = {}
      BY <2>3, <2>4, <3>1 DEF Settable
    <3> QED BY <3>2
  <2>5. CASE got[t] = Len(Lines(t))
    <3>1. \A i \in DOMAIN Lines(t) : i <= got[t]
      BY <2>2, <2>5
    <3>2. env[t] = Settable(t)
      BY <2>3, <3>1 DEF Settable
    <3> QED BY <3>2
  <2>6. CASE got[t] + 1 <= Len(Lines(t)) /\ Lines(t)[got[t] + 1] = "bad"
    <3>1. \A i \in Settable(t) : i <= got[t]
      <4> SUFFICES ASSUME NEW i \in Settable(t), ~(i <= got[t]) PROVE FALSE
        OBVIOUS
      <4>1. i \in 1..Len(Lines(t)) /\ got[t] + 1 \in 1..i
        BY <2>1, <2>2 DEF Settable
      <4> QED BY <2>6, <4>1 DEF Settable
    <3>2. env[t] = Settable(t)
      BY <2>3, <3>1
    <3> QED BY <3>2
  <2>7. fut[t].apply \in {"done", "cut"}
    BY <2>1 DEF Applied
  <2>8. CASE fut[t].apply = "cut"
    BY <2>3, <2>8
  <2>9. CASE fut[t].apply = "done"
    BY <2>1, <2>4, <2>5, <2>6, <2>9 DEF Applied
  <2> QED BY <2>7, <2>8, <2>9
<1> QED BY <1>1, Inductive, PTL

-----------------------------------------------------------------------------
(***************************************************************************)
(* Induction over the naturals, from the fact that they are well founded,  *)
(* and the recursion that a fold is.                                       *)
(***************************************************************************)

(* What is in a command line.                                              *)
Char == STRING \cup {Backslash, Quote, Space, Tab}

(* Among some natural numbers there is a least one.                        *)
LEMMA LeastOf ==
    ASSUME NEW T \in SUBSET Nat, T # {}
    PROVE  \E x \in T : \A y \in T : x <= y
<1> DEFINE Less == {p \in Nat \X Nat : p[1] < p[2]}
<1>1. IsWellFoundedOn(Less, Nat)
  BY NatLessThanWellFounded DEF OpToRel
<1>2. PICK x \in T : \A y \in T : ~(<<y, x>> \in Less)
  BY <1>1, WFMin
<1>3. \A y \in T : x <= y
  <2> TAKE y \in T
  <2>1. ~(y < x)
    BY <1>2
  <2> QED BY <2>1
<1> QED BY <1>3

(* Induction up to n: a set of numbers with 0 in it and, with each number  *)
(* below n, the next one.                                                  *)
LEMMA UpTo ==
    ASSUME NEW n \in Nat, NEW T, 0 \in T, \A k \in 0..(n - 1) : k \in T => k + 1 \in T
    PROVE  0..n \subseteq T
<1> DEFINE F == {k \in 0..n : k \notin T}
<1> SUFFICES ASSUME F # {} PROVE FALSE
  OBVIOUS
<1>1. PICK x \in F : \A y \in F : x <= y
  <2>1. F \in SUBSET Nat
    OBVIOUS
  <2> HIDE DEF F
  <2> QED BY <2>1, LeastOf
<1>2. x \in 1..n
  OBVIOUS
<1>3. x - 1 \in T
  BY <1>1, <1>2
<1> QED BY <1>2, <1>3

(* What is as large as all of S is the maximum of S.                       *)
LEMMA MaxIs ==
    ASSUME NEW S \in SUBSET Int, NEW x \in S, \A y \in S : y <= x
    PROVE  Max(S) = x
<1>1. \A z \in S : (\A y \in S : z >= y) => z = x
  OBVIOUS
<1>2. x >= x /\ \A y \in S : x >= y
  OBVIOUS
<1> QED BY <1>1, <1>2 DEF Max

(* A set of numbers up to n has a maximum, and no element is larger.       *)
LEMMA MaxIn ==
    ASSUME NEW n \in Nat, NEW S \in SUBSET (0..n), S # {}
    PROVE  Max(S) \in S /\ \A y \in S : y <= Max(S)
<1> DEFINE T == {n - x : x \in S}
<1>1. PICK z \in T : \A y \in T : z <= y
  <2>1. \A x \in S : x \in 0..n /\ n - x \in Nat
    OBVIOUS
  <2>2. T \in SUBSET Nat
    BY <2>1
  <2>3. T # {}
    OBVIOUS
  <2> HIDE DEF T
  <2> QED BY <2>2, <2>3, LeastOf
<1>2. \A y \in S : y <= n - z
  BY <1>1
<1>3. n - z \in S
  OBVIOUS
<1>4. Max(S) = n - z
  <2>1. S \in SUBSET Int
    OBVIOUS
  <2> HIDE DEF T
  <2> QED BY <1>2, <1>3, <2>1, MaxIs
<1> QED BY <1>2, <1>3, <1>4

(* What a recursion over the subsets of 1..n is.                           *)
Folded(f, base, g, n) ==
    \A S \in SUBSET (1..n) : f[S] = IF S = {} THEN base ELSE g[<<f[S \ {Max(S)}], Max(S)>>]

(* The values that a recursion over the subsets of 1..n takes, as those of *)
(* MapThenFoldSet do, exist.                                               *)
LEMMA FoldExists ==
    ASSUME NEW X, NEW base \in X, NEW n \in Nat, NEW g \in [X \X (1..n) -> X]
    PROVE  \E f \in [SUBSET (1..n) -> X] : Folded(f, base, g, n)
<1> DEFINE Folds(k, f) == Folded(f, base, g, k)
           T == {k \in 0..n : \E f \in [SUBSET (1..k) -> X] : Folds(k, f)}
<1>1. 0 \in T
  <2> DEFINE f == [S \in SUBSET (1..0) |-> base]
  <2>1. f \in [SUBSET (1..0) -> X]
    OBVIOUS
  <2>2. \A S \in SUBSET (1..0) : S = {} /\ f[S] = base
    OBVIOUS
  <2>3. Folds(0, f)
    BY <2>2 DEF Folded
  <2>4. \E h \in [SUBSET (1..0) -> X] : Folds(0, h)
    <3> HIDE DEF f, Folds
    <3> QED BY <2>1, <2>3
  <2>5. 0 \in 0..n
    OBVIOUS
  <2> HIDE DEF f
  <2> QED BY <2>4, <2>5
<1>2. ASSUME NEW k \in 0..(n - 1), k \in T PROVE k + 1 \in T
  <2>1. PICK f \in [SUBSET (1..k) -> X] : Folds(k, f)
    BY <1>2
  <2> DEFINE h == [S \in SUBSET (1..(k + 1)) |->
                      IF k + 1 \in S THEN g[<<f[S \ {k + 1}], k + 1>>] ELSE f[S]]
  <2>2. \A S \in SUBSET (1..(k + 1)) : S \ {k + 1} \in SUBSET (1..k)
    OBVIOUS
  <2>3. h \in [SUBSET (1..(k + 1)) -> X]
    BY <2>2
  <2>4. ASSUME NEW S \in SUBSET (1..(k + 1)), S # {}
        PROVE  h[S] = g[<<h[S \ {Max(S)}], Max(S)>>]
    <3>1. CASE k + 1 \in S
      <4>1. Max(S) = k + 1
        BY <3>1, MaxIs
      <4>2. h[S \ {k + 1}] = f[S \ {k + 1}]
        BY <2>2
      <4> QED BY <3>1, <4>1, <4>2
    <3>2. CASE k + 1 \notin S
      <4>1. S \in SUBSET (1..k)
        BY <3>2
      <4>3. S \ {Max(S)} \in SUBSET (1..k) /\ k + 1 \notin S \ {Max(S)}
        BY <4>1, <3>2
      <4>2. h[S] = f[S] /\ h[S \ {Max(S)}] = f[S \ {Max(S)}]
        BY <4>1, <4>3, <3>2
      <4> QED BY <4>1, <4>2, <2>1, <2>4 DEF Folded
    <3> QED BY <3>1, <3>2
  <2>5. h[{}] = base
    BY <2>1 DEF Folded
  <2>6. Folds(k + 1, h)
    <3> HIDE DEF h
    <3> QED BY <2>4, <2>5 DEF Folded
  <2> HIDE DEF h
  <2> QED BY <2>3, <2>6
<1> HIDE DEF T
<1>3. 0..n \subseteq T
  BY <1>1, <1>2, UpTo
<1>4. n \in T
  BY <1>3
<1> QED BY <1>4 DEF T

(* The subsets that such a recursion comes by from 1..n.                   *)
LEMMA Upper ==
    ASSUME NEW n \in Nat, NEW k \in 1..n
    PROVE  /\ Max(1..k) = k /\ (1..k) \ {k} = 1..(k - 1)
           /\ 1..k # {} /\ 1..k \in SUBSET (1..n)
<1>1. 1..k \in SUBSET Int /\ k \in 1..k /\ \A y \in 1..k : y <= k
  OBVIOUS
<1>2. Max(1..k) = k
  BY <1>1, MaxIs
<1>3. (1..k) \ {k} = 1..(k - 1) /\ 1..k # {} /\ 1..k \in SUBSET (1..n)
  OBVIOUS
<1> QED BY <1>2, <1>3

(* What FlattenSeq has put together after each sequence of ss.             *)
LEMMA FlatSteps ==
    ASSUME NEW ss \in Seq(Seq(Char))
    PROVE  \E m \in [0..Len(ss) -> Seq(Char)] :
              /\ m[0] = << >> /\ FlattenSeq(ss) = m[Len(ss)]
              /\ \A k \in 0..(Len(ss) - 1) : m[k + 1] = m[k] \o ss[k + 1]
<1> DEFINE n == Len(ss)
           X == Seq(Char)
           g == [p \in X \X (1..n) |-> p[1] \o ss[p[2]]]
           Flat(h) == [i \in 1..n |-> IF i = 1 THEN ss[i] ELSE h[i - 1] \o ss[i]]
           f == CHOOSE h : h = Flat(h)
<1>1. n \in Nat /\ DOMAIN ss = 1..n /\ g \in [X \X (1..n) -> X]
  OBVIOUS
<1>2. \A k \in 1..n : ss[k] \in X
  OBVIOUS
<1>3. n # 0 => FlattenSeq(ss) = f[n]
  BY DEF FlattenSeq
<1>4. n = 0 => FlattenSeq(ss) = << >>
  BY DEF FlattenSeq
<1>5. \A x \in X : << >> \o x = x
  OBVIOUS
<1>6. \A p \in X \X (1..n) : g[p] = p[1] \o ss[p[2]]
  OBVIOUS
<1>7. << >> \in X
  OBVIOUS
<1> HIDE DEF n, X, g, f
<1>8. PICK h \in [SUBSET (1..n) -> X] : Folded(h, << >>, g, n)
  BY <1>1, <1>7, FoldExists
<1> DEFINE m == [k \in 0..n |-> h[1..k]]
<1>9. m \in [0..n -> X]
  <2>1. \A k \in 0..n : 1..k \in SUBSET (1..n)
    BY <1>1
  <2> QED BY <2>1
<1>10. m[0] = << >>
  <2>1. 1..0 = {} /\ 0 \in 0..n
    BY <1>1
  <2> QED BY <2>1, <1>8 DEF Folded
<1>11. ASSUME NEW k \in 0..(n - 1) PROVE m[k + 1] = m[k] \o ss[k + 1]
  <2>1. k + 1 \in 1..n /\ (k + 1) - 1 = k /\ k \in 0..n /\ k + 1 \in 0..n
    BY <1>1
  <2>2. /\ Max(1..(k + 1)) = k + 1 /\ (1..(k + 1)) \ {k + 1} = 1..k
        /\ 1..(k + 1) # {} /\ 1..(k + 1) \in SUBSET (1..n)
    BY <1>1, <2>1, Upper
  <2>3. h[1..(k + 1)] = g[<<h[1..k], k + 1>>]
    BY <2>2, <1>8 DEF Folded
  <2>4. m[k] \in X /\ m[k + 1] = h[1..(k + 1)] /\ m[k] = h[1..k]
    BY <2>1, <1>9
  <2>5. <<m[k], k + 1>> \in X \X (1..n)
    BY <2>1, <2>4
  <2> HIDE DEF m
  <2> QED BY <2>3, <2>4, <2>5, <1>6
<1> HIDE DEF m
<1>12. f = Flat(f)
  <2> DEFINE d == [i \in 1..n |-> m[i]]
  <2>1. ASSUME NEW i \in 1..n PROVE m[i] = IF i = 1 THEN ss[i] ELSE m[i - 1] \o ss[i]
    <3>1. i - 1 \in 0..(n - 1) /\ (i - 1) + 1 = i
      BY <1>1
    <3>2. m[i] = m[i - 1] \o ss[i]
      BY <3>1, <1>11
    <3>3. ASSUME i = 1 PROVE m[i - 1] \o ss[i] = ss[i]
      <4>1. m[i - 1] = << >>
        BY <3>3, <1>10
      <4>2. ss[i] \in X
        BY <1>2
      <4> QED BY <4>1, <4>2, <1>5
    <3> QED BY <3>2, <3>3
  <2>2. \A i \in 1..n : i # 1 => i - 1 \in 1..n
    BY <1>1
  <2>3. d = Flat(d)
    BY <2>1, <2>2
  <2> HIDE DEF Flat, d
  <2> QED BY <2>3 DEF f
<1> DEFINE T == {k \in 0..n : k = 0 \/ f[k] = m[k]}
<1>13. ASSUME NEW k \in 0..(n - 1), k \in T PROVE k + 1 \in T
  <2>1. k + 1 \in 1..n /\ k + 1 \in 0..n /\ (k + 1) - 1 = k
    BY <1>1
  <2>2. f[k + 1] = IF k = 0 THEN ss[k + 1] ELSE f[k] \o ss[k + 1]
    <3>1. f[k + 1] = IF k + 1 = 1 THEN ss[k + 1] ELSE f[(k + 1) - 1] \o ss[k + 1]
      BY <2>1, <1>12
    <3>2. k + 1 = 1 <=> k = 0
      BY <1>1
    <3> QED BY <3>1, <3>2, <2>1
  <2>3. m[k + 1] = m[k] \o ss[k + 1]
    BY <1>11
  <2>4. ASSUME k = 0 PROVE m[k] \o ss[k + 1] = ss[k + 1]
    <3>1. m[k] = << >> /\ ss[k + 1] \in X
      BY <2>1, <2>4, <1>2, <1>10
    <3> QED BY <3>1, <1>5
  <2> QED BY <2>1, <2>2, <2>3, <2>4, <1>13
<1>14. 0..n \subseteq T
  <2>1. 0 \in T
    BY <1>1
  <2> HIDE DEF T
  <2> QED BY <2>1, <1>13, <1>1, UpTo
<1>15. FlattenSeq(ss) = m[n]
  BY <1>1, <1>3, <1>4, <1>10, <1>14
<1> QED BY <1>9, <1>10, <1>11, <1>15 DEF n, X

-----------------------------------------------------------------------------
(***************************************************************************)
(* How a program takes its command line apart, as runs of single steps.    *)
(***************************************************************************)

(* Texts, and the states of the reader; it begins each argument anew.      *)
Text == Seq(Char)
State == [argv : Seq(Text), word : Text, quoted : BOOLEAN, begun : BOOLEAN, count : Nat]
St(A, w, quoted, begun, count) == [argv |-> A, word |-> w, quoted |-> quoted, begun |-> begun, count |-> count]
Fresh(A) == St(A, << >>, FALSE, FALSE, 0)

(* From state a, s leads to state b.                                       *)
Runs(a, s, b) ==
    \E m \in [0..Len(s) -> State] :
        m[0] = a /\ m[Len(s)] = b /\ \A k \in 0..(Len(s) - 1) : m[k + 1] = ParseStep(m[k], s[k + 1])

(* The characters that matter are different ones.                          *)
LEMMA Differ ==
    /\ Backslash \notin {Quote, Space, Tab} /\ Quote \notin {Space, Tab}
    /\ {Backslash, Quote, Space, Tab} \subseteq Char
    /\ {Backslash, Quote, Space} \cap (Special \cup Anywhere) = {}
BY DEF Backslash, Quote, Space, Tab, Char, Special, Anywhere

(* n backslashes, one by one.                                              *)
LEMMA BackslashesAre ==
    ASSUME NEW n \in Nat
    PROVE  /\ Backslashes(n) \in Text /\ Len(Backslashes(n)) = n
           /\ \A i \in 1..n : Backslashes(n)[i] = Backslash
           /\ Backslashes(n + 1) = Append(Backslashes(n), Backslash)
<1>1. \A k \in Nat : /\ Backslashes(k) \in Text /\ Len(Backslashes(k)) = k
                     /\ \A i \in 1..k : Backslashes(k)[i] = Backslash
  BY Differ DEF Backslashes, Text
<1>2. PICK b \in Text : b = Backslashes(n)
  BY <1>1
<1>3. PICK d \in Text : d = Backslashes(n + 1)
  BY <1>1
<1>4. /\ Append(b, Backslash) \in Text /\ Len(Append(b, Backslash)) = n + 1
      /\ \A i \in 1..n : Append(b, Backslash)[i] = b[i]
      /\ Append(b, Backslash)[n + 1] = Backslash
  BY <1>1, <1>2, Differ, AppendProperties DEF Text
<1>5. Len(d) = n + 1 /\ \A i \in 1..(n + 1) : d[i] = Backslash
  BY <1>1, <1>3
<1>6. \A i \in 1..(n + 1) : i \in 1..n \/ i = n + 1
  OBVIOUS
<1>7. \A i \in 1..(n + 1) : Append(b, Backslash)[i] = Backslash
  BY <1>1, <1>2, <1>4, <1>6
<1>8. d = Append(b, Backslash)
  BY <1>4, <1>5, <1>7, SeqEqual DEF Text
<1> QED BY <1>1, <1>2, <1>3, <1>8

(* Texts put together.                                                     *)
LEMMA Joined ==
    ASSUME NEW s \in Text, NEW t \in Text, NEW ch \in Char
    PROVE  /\ s \o t \in Text /\ s \o << >> = s /\ << >> \o s = s
           /\ Append(s, ch) \in Text /\ Append(s, ch) = s \o <<ch>> /\ <<ch>> \in Text /\ << >> \in Text
<1>1. s \o t \in Text /\ s \o << >> = s /\ << >> \o s = s
  BY ConcatProperties, ConcatEmptySeq DEF Text
<1>2. Append(s, ch) \in Text /\ Append(s, ch) = s \o <<ch>>
  BY AppendProperties, AppendIsConcat DEF Text
<1>3. <<ch>> \in Text /\ << >> \in Text
  BY DEF Text
<1> QED BY <1>1, <1>2, <1>3

(* The order in which three texts are put together does not matter.        *)
LEMMA Grouped ==
    ASSUME NEW r \in Text, NEW s \in Text, NEW t \in Text
    PROVE  (r \o s) \o t = r \o (s \o t)
BY ConcatAssociative DEF Text

(* The characters of two texts put together.                               *)
LEMMA InJoined ==
    ASSUME NEW s \in Text, NEW t \in Text
    PROVE  /\ Len(s \o t) = Len(s) + Len(t)
           /\ \A k \in 1..(Len(s) + Len(t)) : (s \o t)[k] = IF k <= Len(s) THEN s[k] ELSE t[k - Len(s)]
BY ConcatProperties DEF Text

(* A step of the reader gives a state.                                     *)
LEMMA ParseType ==
    ASSUME NEW s \in State, NEW ch \in Char
    PROVE  ParseStep(s, ch) \in State
<1>1. /\ s.argv \in Seq(Text) /\ s.word \in Text /\ s.count \in Nat /\ s.quoted \in BOOLEAN /\ s.begun \in BOOLEAN
      /\ s = [argv |-> s.argv, word |-> s.word, quoted |-> s.quoted, begun |-> s.begun, count |-> s.count]
  BY DEF State
<1>2. s.count \div 2 \in Nat /\ s.count + 1 \in Nat
  BY <1>1
<1>3. Backslashes(s.count) \in Text /\ Backslashes(s.count \div 2) \in Text
  BY <1>1, <1>2, BackslashesAre
<1>4. CASE ch = Backslash
  <2>1. ParseStep(s, ch) = [argv |-> s.argv, word |-> s.word, quoted |-> s.quoted, begun |-> s.begun,
                            count |-> s.count + 1]
    BY <1>1, <1>4, Differ DEF ParseStep
  <2> QED BY <1>1, <1>2, <2>1 DEF State
<1>5. CASE ch = Quote
  <2> DEFINE q == IF s.count % 2 = 1 THEN <<Quote>> ELSE << >>
             w == s.word \o Backslashes(s.count \div 2) \o q
  <2>1. q \in Text
    BY Differ DEF Text
  <2>2. w \in Text
    <3> HIDE DEF q
    <3> QED BY <1>1, <1>3, <2>1, Joined
  <2>3. ParseStep(s, ch) = [argv |-> s.argv, word |-> w, quoted |-> IF s.count % 2 = 1 THEN s.quoted ELSE ~s.quoted,
                            begun |-> TRUE, count |-> 0]
    BY <1>1, <1>5, Differ DEF ParseStep
  <2>4. PICK x \in Text : x = w
    BY <2>2
  <2>5. PICK y \in BOOLEAN : y = IF s.count % 2 = 1 THEN s.quoted ELSE ~s.quoted
    BY <1>1
  <2> HIDE DEF w
  <2>6. ParseStep(s, ch) = [argv |-> s.argv, word |-> x, quoted |-> y, begun |-> TRUE, count |-> 0]
    BY <2>3, <2>4, <2>5
  <2> QED BY <1>1, <2>6 DEF State
<1>6. CASE ch \notin {Backslash, Quote} /\ ch \in {Space, Tab} /\ ~s.quoted
  <2> DEFINE A == IF s.begun \/ s.count > 0 THEN Append(s.argv, s.word \o Backslashes(s.count)) ELSE s.argv
  <2>1. s.word \o Backslashes(s.count) \in Text
    BY <1>1, <1>3, Joined
  <2>2. A \in Seq(Text)
    BY <1>1, <2>1, AppendProperties
  <2>3. ParseStep(s, ch) = [argv |-> A, word |-> << >>, quoted |-> s.quoted, begun |-> FALSE, count |-> 0]
    BY <1>1, <1>6 DEF ParseStep
  <2>4. << >> \in Text
    BY DEF Text
  <2> HIDE DEF A
  <2> QED BY <1>1, <2>2, <2>3, <2>4 DEF State
<1>7. CASE ch \notin {Backslash, Quote} /\ ~(ch \in {Space, Tab} /\ ~s.quoted)
  <2>1. Append(s.word \o Backslashes(s.count), ch) \in Text
    BY <1>1, <1>3, Joined
  <2>2. ParseStep(s, ch) = [argv |-> s.argv, word |-> Append(s.word \o Backslashes(s.count), ch),
                            quoted |-> s.quoted, begun |-> TRUE, count |-> 0]
    BY <1>1, <1>7 DEF ParseStep
  <2> QED BY <1>1, <2>1, <2>2 DEF State
<1> QED BY <1>4, <1>5, <1>6, <1>7

(* One character.                                                          *)
LEMMA RunsOne ==
    ASSUME NEW a \in State, NEW ch \in Char
    PROVE  Runs(a, <<ch>>, ParseStep(a, ch))
<1> DEFINE m == [k \in 0..1 |-> IF k = 0 THEN a ELSE ParseStep(a, ch)]
<1>1. m \in [0..1 -> State] /\ m[0] = a /\ m[1] = ParseStep(a, ch)
  BY ParseType
<1>2. PICK s : s = <<ch>>
  OBVIOUS
<1>3. Len(s) = 1 /\ s[1] = ch
  BY <1>2
<1>4. \A k \in 0..(1 - 1) : k = 0 /\ k + 1 = 1
  OBVIOUS
<1> HIDE DEF m
<1>5. \A k \in 0..(1 - 1) : m[k + 1] = ParseStep(m[k], s[k + 1])
  BY <1>1, <1>3, <1>4
<1>6. Runs(a, s, ParseStep(a, ch))
  BY <1>1, <1>3, <1>5 DEF Runs
<1> QED BY <1>2, <1>6

(* None.                                                                   *)
LEMMA RunsNone == ASSUME NEW a \in State PROVE Runs(a, << >>, a)
<1> DEFINE m == [k \in 0..0 |-> a]
<1>1. m \in [0..0 -> State] /\ m[0] = a
  OBVIOUS
<1>2. Len(<< >>) = 0 /\ \A k \in 0..(0 - 1) : FALSE
  OBVIOUS
<1> HIDE DEF m
<1> QED BY <1>1, <1>2 DEF Runs

(* One text and then another.                                              *)
LEMMA RunsOn ==
    ASSUME NEW s \in Text, NEW t \in Text, NEW a, NEW b, NEW d, Runs(a, s, b), Runs(b, t, d)
    PROVE  Runs(a, s \o t, d)
<1>1. PICK i \in Nat : i = Len(s)
  BY DEF Text
<1>2. PICK j \in Nat : j = Len(t)
  BY DEF Text
<1>3. PICK m \in [0..i -> State] :
         m[0] = a /\ m[i] = b /\ \A k \in 0..(i - 1) : m[k + 1] = ParseStep(m[k], s[k + 1])
  BY <1>1 DEF Runs
<1>4. PICK l \in [0..j -> State] :
         l[0] = b /\ l[j] = d /\ \A k \in 0..(j - 1) : l[k + 1] = ParseStep(l[k], t[k + 1])
  BY <1>2 DEF Runs
<1>5. PICK r : r = s \o t
  OBVIOUS
<1>6. Len(r) = i + j /\ \A k \in 1..(i + j) : r[k] = IF k <= i THEN s[k] ELSE t[k - i]
  BY <1>1, <1>2, <1>5, ConcatProperties DEF Text
<1> DEFINE x == [k \in 0..(i + j) |-> IF k <= i THEN m[k] ELSE l[k - i]]
<1>7. x \in [0..(i + j) -> State]
  <2>1. \A k \in 0..(i + j) : (k <= i => k \in 0..i) /\ (~(k <= i) => k - i \in 0..j)
    OBVIOUS
  <2> QED BY <1>3, <1>4, <2>1
<1>8. /\ \A k \in 0..i : x[k] = m[k]
      /\ \A k \in 0..j : x[i + k] = l[k]
  <2>1. \A k \in 0..i : k \in 0..(i + j) /\ k <= i
    OBVIOUS
  <2>2. \A k \in 0..j : i + k \in 0..(i + j) /\ (i + k) - i = k /\ (i + k <= i => k = 0 /\ i + k = i)
    OBVIOUS
  <2>3. \A k \in 0..i : x[k] = m[k]
    BY <2>1
  <2>4. \A k \in 0..j : x[i + k] = l[k]
    BY <1>3, <1>4, <2>2
  <2> QED BY <2>3, <2>4
<1> HIDE DEF x
<1>9. x[0] = a /\ x[i + j] = d
  <2>1. 0 \in 0..i /\ j \in 0..j
    OBVIOUS
  <2> QED BY <1>3, <1>4, <1>8, <2>1
<1>10. ASSUME NEW k \in 0..((i + j) - 1) PROVE x[k + 1] = ParseStep(x[k], r[k + 1])
  <2>1. CASE k + 1 <= i
    <3>1. k \in 0..(i - 1) /\ k \in 0..i /\ k + 1 \in 0..i /\ k + 1 \in 1..(i + j)
      BY <2>1
    <3>2. r[k + 1] = s[k + 1]
      BY <1>6, <2>1, <3>1
    <3> QED BY <1>3, <1>8, <3>1, <3>2
  <2>2. CASE ~(k + 1 <= i)
    <3>1. PICK q \in 0..(j - 1) : k = i + q
      <4>1. k - i \in 0..(j - 1) /\ k = i + (k - i)
        BY <2>2
      <4> QED BY <4>1
    <3>2. q \in 0..j /\ q + 1 \in 0..j /\ k + 1 = i + (q + 1) /\ k + 1 \in 1..(i + j) /\ (k + 1) - i = q + 1
      BY <3>1
    <3>3. r[k + 1] = t[q + 1]
      BY <1>6, <2>2, <3>2
    <3>4. x[k] = l[q] /\ x[k + 1] = l[q + 1]
      BY <1>8, <3>1, <3>2
    <3> QED BY <1>4, <3>1, <3>3, <3>4
  <2> QED BY <2>1, <2>2
<1>11. Runs(a, r, d)
  BY <1>6, <1>7, <1>9, <1>10 DEF Runs
<1> QED BY <1>5, <1>11

(* Backslashes are counted.                                                *)
LEMMA RunsCount ==
    ASSUME NEW A \in Seq(Text), NEW w \in Text, NEW q \in BOOLEAN, NEW b \in BOOLEAN, NEW k \in Nat, NEW n \in Nat
    PROVE  Runs(St(A, w, q, b, k), Backslashes(n), St(A, w, q, b, k + n))
<1> DEFINE m == [i \in 0..n |-> St(A, w, q, b, k + i)]
<1>1. m \in [0..n -> State]
  <2>1. \A i \in 0..n : k + i \in Nat
    OBVIOUS
  <2> QED BY <2>1 DEF St, State
<1>2. m[0] = St(A, w, q, b, k) /\ m[n] = St(A, w, q, b, k + n)
  OBVIOUS
<1>3. ASSUME NEW i \in 0..(n - 1) PROVE m[i + 1] = ParseStep(m[i], Backslashes(n)[i + 1])
  <2>1. i + 1 \in 1..n /\ i \in 0..n /\ i + 1 \in 0..n /\ k + (i + 1) = (k + i) + 1
    OBVIOUS
  <2>2. Backslashes(n)[i + 1] = Backslash
    BY <2>1, BackslashesAre
  <2>3. ParseStep(St(A, w, q, b, k + i), Backslash) = St(A, w, q, b, (k + i) + 1)
    <3>1. PICK z : z = St(A, w, q, b, k + i)
      OBVIOUS
    <3>2. ParseStep(z, Backslash) = [z EXCEPT !.count = @ + 1]
      BY Differ DEF ParseStep
    <3>3. [z EXCEPT !.count = @ + 1] = [argv |-> A, word |-> w, quoted |-> q, begun |-> b, count |-> (k + i) + 1]
      BY <3>1 DEF St
    <3> QED BY <3>1, <3>2, <3>3 DEF St
  <2> QED BY <2>1, <2>2, <2>3
<1> HIDE DEF m
<1> QED BY <1>1, <1>2, <1>3, BackslashesAre DEF Runs

(* The reader is at the end in the state that it is led to.                *)
LEMMA ParsedIs ==
    ASSUME NEW line \in Text, NEW b, Runs(Fresh(<< >>), line \o <<Space>>, b)
    PROVE  Parsed(line) = b.argv
<1> DEFINE p == line \o <<Space>>
           n == Len(p)
           z == Fresh(<< >>)
           g == [q \in State \X (1..n) |-> ParseStep(q[1], p[q[2]])]
           Fold(f) == [S \in SUBSET DOMAIN p |->
                          IF S = {} THEN z
                          ELSE LET x == Max(S) IN ParseStep(f[S \ {x}], p[x])]
           f == CHOOSE h : h = Fold(h)
<1>1. Parsed(line) = f[DOMAIN p].argv
  BY DEF Parsed, FoldLeft, MapThenFoldSet, Fresh, St
<1>2. n \in Nat /\ DOMAIN p = 1..n /\ p \in Text
  <2>1. p \in Text
    BY Differ, Joined
  <2> HIDE DEF p
  <2> QED BY <2>1 DEF Text
<1> HIDE DEF p, n
<1>3. g \in [State \X (1..n) -> State] /\ z \in State /\ \A q \in State \X (1..n) : g[q] = ParseStep(q[1], p[q[2]])
  <2>1. z \in State
    BY DEF State, Fresh, St, Text
  <2>2. \A q \in State \X (1..n) : q[1] \in State /\ p[q[2]] \in Char
    BY <1>2 DEF Text, n
  <2>3. \A q \in State \X (1..n) : ParseStep(q[1], p[q[2]]) \in State
    BY <2>2, ParseType
  <2> QED BY <2>1, <2>3
<1> HIDE DEF g, z
<1>4. PICK h \in [SUBSET (1..n) -> State] : Folded(h, z, g, n)
  BY <1>2, <1>3, FoldExists
<1>5. f = Fold(f)
  <2>1. ASSUME NEW S \in SUBSET (1..n), S # {}
        PROVE  h[S] = ParseStep(h[S \ {Max(S)}], p[Max(S)])
    <3>1. S \in SUBSET (0..n)
      BY <1>2
    <3>2. Max(S) \in 1..n
      BY <3>1, <2>1, <1>2, MaxIn
    <3>3. S \ {Max(S)} \in SUBSET (1..n)
      OBVIOUS
    <3>4. <<h[S \ {Max(S)}], Max(S)>> \in State \X (1..n)
      BY <3>2, <3>3
    <3>5. h[S] = g[<<h[S \ {Max(S)}], Max(S)>>]
      BY <1>4, <2>1 DEF Folded
    <3> QED BY <3>4, <3>5, <1>3
  <2>2. h[{}] = z
    BY <1>4 DEF Folded
  <2>3. h = Fold(h)
    BY <2>1, <2>2, <1>2
  <2> HIDE DEF Fold
  <2> QED BY <2>3
<1> HIDE DEF f
<1>6. ASSUME NEW k \in 0..(n - 1) PROVE f[1..(k + 1)] = ParseStep(f[1..k], p[k + 1])
  <2>1. k + 1 \in 1..n /\ (k + 1) - 1 = k
    BY <1>2
  <2>2. /\ Max(1..(k + 1)) = k + 1 /\ (1..(k + 1)) \ {k + 1} = 1..k
        /\ 1..(k + 1) # {} /\ 1..(k + 1) \in SUBSET (1..n)
    BY <1>2, <2>1, Upper
  <2>3. f[1..(k + 1)] = ParseStep(f[(1..(k + 1)) \ {Max(1..(k + 1))}], p[Max(1..(k + 1))])
    BY <2>2, <1>2, <1>5
  <2> QED BY <2>2, <2>3
<1>7. f[1..0] = z
  <2>1. 1..0 = {}
    OBVIOUS
  <2> QED BY <2>1, <1>5
<1>8. PICK m \in [0..n -> State] :
         m[0] = z /\ m[n] = b /\ \A k \in 0..(n - 1) : m[k + 1] = ParseStep(m[k], p[k + 1])
  BY DEF Runs, p, n, z
<1> DEFINE T == {k \in 0..n : f[1..k] = m[k]}
<1>9. 0 \in T
  BY <1>2, <1>7, <1>8
<1>10. ASSUME NEW k \in 0..(n - 1), k \in T PROVE k + 1 \in T
  <2>1. k + 1 \in 0..n /\ f[1..k] = m[k]
    BY <1>2, <1>10
  <2>2. f[1..(k + 1)] = m[k + 1]
    BY <1>6, <1>8, <2>1
  <2> QED BY <2>1, <2>2
<1>11. n \in T
  <2>1. 0..n \subseteq T
    <3> HIDE DEF T
    <3> QED BY <1>2, <1>9, <1>10, UpTo
  <2> QED BY <1>2, <2>1
<1> QED BY <1>1, <1>2, <1>8, <1>11

(* What convert_arg has after each character.                              *)
Converted == [line : Text, count : Nat]

(* A turn of its loop, case by case.                                       *)
LEMMA ConvertType ==
    ASSUME NEW s \in Converted, NEW ch \in Char
    PROVE  /\ ConvertStep(s, ch) \in Converted
           /\ ch = Backslash => ConvertStep(s, ch) = [line |-> s.line, count |-> s.count + 1]
           /\ ch = Quote => ConvertStep(s, ch) = [line |-> s.line \o Backslashes(s.count * 2 + 1) \o <<Quote>>, count |-> 0]
           /\ ch \notin {Backslash, Quote} =>
                ConvertStep(s, ch) = [line |-> s.line \o Backslashes(s.count) \o <<ch>>, count |-> 0]
<1>1. s.line \in Text /\ s.count \in Nat /\ s = [line |-> s.line, count |-> s.count]
  BY DEF Converted
<1>2. s.count + 1 \in Nat /\ s.count * 2 + 1 \in Nat
  BY <1>1
<1>3. Backslashes(s.count) \in Text /\ Backslashes(s.count * 2 + 1) \in Text
  BY <1>1, <1>2, BackslashesAre
<1>4. ch = Backslash => ConvertStep(s, ch) = [line |-> s.line, count |-> s.count + 1]
  BY <1>1, Differ DEF ConvertStep
<1>5. ch = Quote => ConvertStep(s, ch) = [line |-> s.line \o Backslashes(s.count * 2 + 1) \o <<Quote>>, count |-> 0]
  BY Differ DEF ConvertStep
<1>6. ch \notin {Backslash, Quote} =>
         ConvertStep(s, ch) = [line |-> s.line \o Backslashes(s.count) \o <<ch>>, count |-> 0]
  BY DEF ConvertStep
<1>7. s.line \o Backslashes(s.count * 2 + 1) \o <<Quote>> \in Text
  BY <1>1, <1>3, Differ, Joined
<1>8. s.line \o Backslashes(s.count) \o <<ch>> \in Text
  BY <1>1, <1>3, Joined
<1>9. ConvertStep(s, ch) \in Converted
  <2>1. \A t \in Text, k \in Nat : [line |-> t, count |-> k] \in Converted
    BY DEF Converted
  <2>2. CASE ch = Backslash
    BY <1>1, <1>2, <1>4, <2>1, <2>2
  <2>3. CASE ch = Quote
    BY <1>5, <1>7, <2>1, <2>3
  <2>4. CASE ch \notin {Backslash, Quote}
    BY <1>6, <1>8, <2>1, <2>4
  <2> QED BY <2>2, <2>3, <2>4
<1> QED BY <1>4, <1>5, <1>6, <1>9

(* All the turns.                                                          *)
LEMMA ConvertSteps ==
    ASSUME NEW p \in Text
    PROVE  \E m \in [0..Len(p) -> Converted] :
              /\ m[0] = [line |-> <<Quote>>, count |-> 0]
              /\ convert_arg(p) = m[Len(p)].line \o Backslashes(m[Len(p)].count * 2) \o <<Quote>>
              /\ \A k \in 0..(Len(p) - 1) : m[k + 1] = ConvertStep(m[k], p[k + 1])
<1> DEFINE n == Len(p)
           z == [line |-> <<Quote>>, count |-> 0]
           g == [q \in Converted \X (1..n) |-> ConvertStep(q[1], p[q[2]])]
           Fold(f) == [S \in SUBSET DOMAIN p |->
                          IF S = {} THEN z
                          ELSE LET x == Max(S) IN ConvertStep(f[S \ {x}], p[x])]
           f == CHOOSE h : h = Fold(h)
<1>1. convert_arg(p) = f[DOMAIN p].line \o Backslashes(f[DOMAIN p].count * 2) \o <<Quote>>
  BY DEF convert_arg, FoldLeft, MapThenFoldSet
<1>2. n \in Nat /\ DOMAIN p = 1..n
  BY DEF Text
<1>3. g \in [Converted \X (1..n) -> Converted] /\ z \in Converted
      /\ \A q \in Converted \X (1..n) : g[q] = ConvertStep(q[1], p[q[2]])
  <2>1. z \in Converted
    BY Differ DEF Converted, Text
  <2>2. \A q \in Converted \X (1..n) : q[1] \in Converted /\ p[q[2]] \in Char
    BY DEF Text
  <2>3. \A q \in Converted \X (1..n) : ConvertStep(q[1], p[q[2]]) \in Converted
    BY <2>2, ConvertType
  <2> HIDE DEF n
  <2> QED BY <2>1, <2>3
<1>4. \A i \in 1..n : p[i] \in Char
  BY DEF Text
<1> HIDE DEF g, z, n
<1>5. PICK h \in [SUBSET (1..n) -> Converted] : Folded(h, z, g, n)
  BY <1>2, <1>3, FoldExists
<1>6. f = Fold(f)
  <2>1. ASSUME NEW S \in SUBSET (1..n), S # {}
        PROVE  h[S] = ConvertStep(h[S \ {Max(S)}], p[Max(S)])
    <3>1. S \in SUBSET (0..n)
      BY <1>2
    <3>2. Max(S) \in 1..n
      BY <3>1, <2>1, <1>2, MaxIn
    <3>3. S \ {Max(S)} \in SUBSET (1..n)
      OBVIOUS
    <3>4. <<h[S \ {Max(S)}], Max(S)>> \in Converted \X (1..n)
      BY <3>2, <3>3
    <3>5. h[S] = g[<<h[S \ {Max(S)}], Max(S)>>]
      BY <1>5, <2>1 DEF Folded
    <3> QED BY <3>4, <3>5, <1>3
  <2>2. h[{}] = z
    BY <1>5 DEF Folded
  <2>3. h = Fold(h)
    BY <2>1, <2>2, <1>2
  <2> HIDE DEF Fold
  <2> QED BY <2>3
<1> HIDE DEF f
<1>7. ASSUME NEW k \in 0..(n - 1) PROVE f[1..(k + 1)] = ConvertStep(f[1..k], p[k + 1])
  <2>1. k + 1 \in 1..n /\ (k + 1) - 1 = k
    BY <1>2
  <2>2. /\ Max(1..(k + 1)) = k + 1 /\ (1..(k + 1)) \ {k + 1} = 1..k
        /\ 1..(k + 1) # {} /\ 1..(k + 1) \in SUBSET (1..n)
    BY <1>2, <2>1, Upper
  <2>3. f[1..(k + 1)] = ConvertStep(f[(1..(k + 1)) \ {Max(1..(k + 1))}], p[Max(1..(k + 1))])
    BY <2>2, <1>2, <1>6
  <2> QED BY <2>2, <2>3
<1>8. f[1..0] = z
  <2>1. 1..0 = {}
    OBVIOUS
  <2> QED BY <2>1, <1>6
<1> DEFINE m == [k \in 0..n |-> f[1..k]]
           T == {k \in 0..n : m[k] \in Converted}
<1>9. m \in [0..n -> Converted]
  <2>1. 0 \in T
    BY <1>2, <1>3, <1>8
  <2>2. ASSUME NEW k \in 0..(n - 1), k \in T PROVE k + 1 \in T
    <3>1. k + 1 \in 0..n /\ k \in 0..n /\ p[k + 1] \in Char
      BY <1>2, <1>4
    <3>2. m[k + 1] = ConvertStep(m[k], p[k + 1])
      BY <3>1, <1>7
    <3> QED BY <2>2, <3>1, <3>2, ConvertType
  <2>3. 0..n \subseteq T
    <3> HIDE DEF T
    <3> QED BY <2>1, <2>2, <1>2, UpTo
  <2> QED BY <2>3
<1>10. m[0] = z /\ m[n] = f[DOMAIN p]
  BY <1>2, <1>8
<1>11. \A k \in 0..(n - 1) : m[k + 1] = ConvertStep(m[k], p[k + 1])
  BY <1>2, <1>7
<1> HIDE DEF m
<1> QED BY <1>1, <1>9, <1>10, <1>11 DEF n, z

(* What leads a reader who begins anew to the argument [arg].              *)
Reads(A, line, arg) ==
    \E w \in Text, b \in BOOLEAN, n \in Nat :
        Runs(Fresh(A), line, St(A, w, FALSE, b, n)) /\ w \o Backslashes(n) = arg /\ (b \/ n > 0)

(* The steps of the reader inside and outside of a quoted part.            *)
LEMMA Stepped ==
    ASSUME NEW A \in Seq(Text), NEW w \in Text, NEW b \in BOOLEAN, NEW n \in Nat
    PROVE  /\ \A q \in BOOLEAN : St(A, w, q, b, n) \in State
           /\ \A q \in BOOLEAN, ch \in Char \ {Backslash, Quote} : (ch \in {Space, Tab} => q) =>
                 ParseStep(St(A, w, q, b, n), ch) = St(A, Append(w \o Backslashes(n), ch), q, TRUE, 0)
           /\ ParseStep(St(A, w, TRUE, b, 2 * n + 1), Quote)
                 = St(A, Append(w \o Backslashes(n), Quote), TRUE, TRUE, 0)
           /\ ParseStep(St(A, w, TRUE, b, 2 * n), Quote) = St(A, w \o Backslashes(n), FALSE, TRUE, 0)
           /\ b \/ n > 0 =>
                 ParseStep(St(A, w, FALSE, b, n), Space) = Fresh(Append(A, w \o Backslashes(n)))
<1>1. \A q \in BOOLEAN : St(A, w, q, b, n) \in State
  BY DEF St, State
<1>2. ASSUME NEW q \in BOOLEAN, NEW ch \in Char \ {Backslash, Quote}, ch \in {Space, Tab} => q
      PROVE  ParseStep(St(A, w, q, b, n), ch) = St(A, Append(w \o Backslashes(n), ch), q, TRUE, 0)
  <2>1. ~(ch \in {Space, Tab} /\ ~q) /\ ch # Backslash /\ ch # Quote
    BY <1>2
  <2>2. PICK s : s = St(A, w, q, b, n)
    OBVIOUS
  <2>3. s.quoted = q /\ s = [argv |-> A, word |-> w, quoted |-> q, begun |-> b, count |-> n]
    BY <2>2 DEF St
  <2>4. ParseStep(s, ch) = [s EXCEPT !.word = Append(@ \o Backslashes(s.count), ch), !.begun = TRUE, !.count = 0]
    BY <2>1, <2>3 DEF ParseStep
  <2>5. s.count = n /\ s.word = w
    BY <2>3
  <2>6. PICK u : u = Append(w \o Backslashes(n), ch)
    OBVIOUS
  <2>7. ParseStep(s, ch) = [s EXCEPT !.word = u, !.begun = TRUE, !.count = 0]
    BY <2>4, <2>5, <2>6
  <2>8. ParseStep(s, ch) = [argv |-> A, word |-> u, quoted |-> q, begun |-> TRUE, count |-> 0]
    <3>1. PICK p : p = q
      OBVIOUS
    <3>2. PICK r : r = ParseStep(s, ch)
      OBVIOUS
    <3>3. s = [argv |-> A, word |-> w, quoted |-> p, begun |-> b, count |-> n]
      BY <2>3, <3>1
    <3>4. r = [s EXCEPT !.word = u, !.begun = TRUE, !.count = 0]
      BY <2>7, <3>2
    <3>5. r = [argv |-> A, word |-> u, quoted |-> p, begun |-> TRUE, count |-> 0]
      BY ONLY <3>3, <3>4
    <3> QED BY <3>1, <3>2, <3>5
  <2> QED BY <2>2, <2>6, <2>8 DEF St
<1>3. w \o Backslashes(n) \in Text
  <2>1. PICK y \in Text : y = Backslashes(n)
    BY BackslashesAre
  <2> QED BY <2>1, Differ, Joined
<1>4. ParseStep(St(A, w, TRUE, b, 2 * n + 1), Quote) = St(A, Append(w \o Backslashes(n), Quote), TRUE, TRUE, 0)
  <2>1. (2 * n + 1) \div 2 = n /\ (2 * n + 1) % 2 = 1
    OBVIOUS
  <2>2. PICK s : s = [argv |-> A, word |-> w, quoted |-> TRUE, begun |-> b, count |-> 2 * n + 1]
    OBVIOUS
  <2>3. ParseStep(s, Quote) = [s EXCEPT !.word = @ \o Backslashes(s.count \div 2)
                                   \o (IF s.count % 2 = 1 THEN <<Quote>> ELSE << >>),
                                  !.quoted = IF s.count % 2 = 1 THEN @ ELSE ~@,
                                  !.begun = TRUE, !.count = 0]
    BY Differ DEF ParseStep
  <2>4. s.count \div 2 = n /\ s.count % 2 = 1 /\ s.word = w /\ s.quoted = TRUE
    BY <2>1, <2>2
  <2>5. PICK u : u = w \o Backslashes(n) \o <<Quote>>
    OBVIOUS
  <2>6. ParseStep(s, Quote) = [s EXCEPT !.word = u, !.quoted = TRUE, !.begun = TRUE, !.count = 0]
    BY <2>3, <2>4, <2>5
  <2>7. ParseStep(s, Quote) = [argv |-> A, word |-> u, quoted |-> TRUE, begun |-> TRUE, count |-> 0]
    BY <2>2, <2>6
  <2>8. w \o Backslashes(n) \o <<Quote>> = Append(w \o Backslashes(n), Quote)
    BY <1>3, Differ, Joined
  <2> QED BY <2>2, <2>5, <2>7, <2>8 DEF St
<1>5. ParseStep(St(A, w, TRUE, b, 2 * n), Quote) = St(A, w \o Backslashes(n), FALSE, TRUE, 0)
  <2>1. (2 * n) \div 2 = n /\ (2 * n) % 2 = 0
    OBVIOUS
  <2>2. PICK s : s = [argv |-> A, word |-> w, quoted |-> TRUE, begun |-> b, count |-> 2 * n]
    OBVIOUS
  <2>3. ParseStep(s, Quote) = [s EXCEPT !.word = @ \o Backslashes(s.count \div 2)
                                   \o (IF s.count % 2 = 1 THEN <<Quote>> ELSE << >>),
                                  !.quoted = IF s.count % 2 = 1 THEN @ ELSE ~@,
                                  !.begun = TRUE, !.count = 0]
    BY Differ DEF ParseStep
  <2>4. s.count \div 2 = n /\ s.count % 2 = 0 /\ s.word = w /\ s.quoted = TRUE
    BY <2>1, <2>2
  <2>5. PICK u : u = w \o Backslashes(n) \o << >>
    OBVIOUS
  <2>6. ParseStep(s, Quote) = [s EXCEPT !.word = u, !.quoted = FALSE, !.begun = TRUE, !.count = 0]
    <3> DEFINE v == IF s.count % 2 = 1 THEN s.quoted ELSE ~s.quoted
    <3>1. ~(s.count % 2 = 1)
      BY <2>4
    <3>2. v = FALSE
      BY <2>4, <3>1, Zenon
    <3>4. ParseStep(s, Quote) = [s EXCEPT !.word = s.word \o Backslashes(s.count \div 2)
                                     \o (IF s.count % 2 = 1 THEN <<Quote>> ELSE << >>),
                                    !.quoted = v, !.begun = TRUE, !.count = 0]
      BY <2>3
    <3>5. u = s.word \o Backslashes(s.count \div 2) \o (IF s.count % 2 = 1 THEN <<Quote>> ELSE << >>)
      BY <2>4, <2>5, <3>1
    <3> HIDE DEF v
    <3>3. ParseStep(s, Quote) = [s EXCEPT !.word = u, !.quoted = v, !.begun = TRUE, !.count = 0]
      BY <3>4, <3>5
    <3> QED BY <3>2, <3>3
  <2>7. ParseStep(s, Quote) = [argv |-> A, word |-> u, quoted |-> FALSE, begun |-> TRUE, count |-> 0]
    BY <2>2, <2>6
  <2>8. w \o Backslashes(n) \o << >> = w \o Backslashes(n)
    BY <1>3, Differ, Joined
  <2> QED BY <2>2, <2>5, <2>7, <2>8 DEF St
<1>6. ASSUME b \/ n > 0
      PROVE  ParseStep(St(A, w, FALSE, b, n), Space) = Fresh(Append(A, w \o Backslashes(n)))
  <2>1. PICK s : s = [argv |-> A, word |-> w, quoted |-> FALSE, begun |-> b, count |-> n]
    OBVIOUS
  <2>2. ParseStep(s, Space) = [s EXCEPT !.argv = IF s.begun \/ s.count > 0
                                                 THEN Append(@, s.word \o Backslashes(s.count)) ELSE @,
                                        !.word = << >>, !.begun = FALSE, !.count = 0]
    BY <2>1, Differ DEF ParseStep
  <2>3. ParseStep(s, Space) = [argv |-> Append(A, w \o Backslashes(n)), word |-> << >>, quoted |-> FALSE,
                               begun |-> FALSE, count |-> 0]
    BY <1>6, <2>1, <2>2
  <2> QED BY <2>1, <2>3 DEF St, Fresh
<1> QED BY <1>1, <1>2, <1>4, <1>5, <1>6

(* The first elements of a sequence, and the next one.                     *)
LEMMA OneMore ==
    ASSUME NEW S, NEW p \in Seq(S), NEW k \in 0..(Len(p) - 1)
    PROVE  /\ p[k + 1] \in S /\ SubSeq(p, 1, k) \in Seq(S)
           /\ SubSeq(p, 1, k + 1) = Append(SubSeq(p, 1, k), p[k + 1])
<1>1. PICK n \in Nat : n = Len(p)
  OBVIOUS
<1>2. k + 1 \in 1..n /\ 1 \in Int /\ k \in Int /\ k + 1 \in Int
  BY <1>1
<1>3. \A i \in 1..n : p[i] \in S
  BY <1>1
<1>4. PICK s : s = SubSeq(p, 1, k)
  OBVIOUS
<1>5. PICK t : t = SubSeq(p, 1, k + 1)
  OBVIOUS
<1>6. s \in Seq(S) /\ Len(s) = k /\ \A i \in 1..k : s[i] = p[i]
  <2>1. \A i \in 1..k : p[i] \in S
    BY <1>1, <1>3
  <2>2. /\ s \in Seq(S) /\ Len(s) = IF 1 <= k THEN k - 1 + 1 ELSE 0
        /\ \A i \in 1..(k - 1 + 1) : s[i] = p[1 + i - 1]
    BY <1>2, <1>4, <2>1, SubSeqProperties
  <2> QED BY <2>2
<1>7. t \in Seq(S) /\ Len(t) = k + 1 /\ \A i \in 1..(k + 1) : t[i] = p[i]
  <2>1. \A i \in 1..(k + 1) : p[i] \in S
    BY <1>1, <1>3
  <2>2. /\ t \in Seq(S) /\ Len(t) = IF 1 <= k + 1 THEN (k + 1) - 1 + 1 ELSE 0
        /\ \A i \in 1..((k + 1) - 1 + 1) : t[i] = p[1 + i - 1]
    BY <1>2, <1>5, <2>1, SubSeqProperties
  <2> QED BY <2>2
<1>8. /\ Append(s, p[k + 1]) \in Seq(S) /\ Len(Append(s, p[k + 1])) = k + 1
      /\ \A i \in 1..k : Append(s, p[k + 1])[i] = s[i]
      /\ Append(s, p[k + 1])[k + 1] = p[k + 1]
  BY <1>2, <1>3, <1>6, AppendProperties
<1>9. \A i \in 1..(k + 1) : i \in 1..k \/ i = k + 1
  OBVIOUS
<1>10. \A i \in 1..(k + 1) : Append(s, p[k + 1])[i] = t[i]
  BY <1>6, <1>7, <1>8, <1>9
<1>11. Append(s, p[k + 1]) = t
  BY <1>7, <1>8, <1>10, SeqEqual
<1> QED BY <1>2, <1>3, <1>4, <1>5, <1>6, <1>11

(* One backslash more after a word.                                        *)
LEMMA OneBackslash ==
    ASSUME NEW w \in Text, NEW x \in Nat
    PROVE  w \o Backslashes(x + 1) = Append(w \o Backslashes(x), Backslash)
<1>1. PICK y \in Text : y = Backslashes(x)
  BY BackslashesAre
<1>2. Backslashes(x + 1) = Append(y, Backslash)
  BY <1>1, BackslashesAre
<1>3. w \o Append(y, Backslash) = Append(w \o y, Backslash)
  <2>1. Append(y, Backslash) = y \o <<Backslash>> /\ <<Backslash>> \in Text /\ w \o y \in Text
    BY Differ, Joined
  <2>2. Append(w \o y, Backslash) = (w \o y) \o <<Backslash>>
    BY <2>1, Differ, Joined
  <2>3. PICK z \in Text : z = <<Backslash>>
    BY <2>1
  <2>4. w \in Seq(Char) /\ y \in Seq(Char) /\ z \in Seq(Char)
    BY DEF Text
  <2>5. (w \o y) \o z = w \o (y \o z)
    BY <2>4, ConcatAssociative
  <2> QED BY <2>1, <2>2, <2>3, <2>5
<1> QED BY <1>1, <1>2, <1>3

(* What convert_arg makes of an argument is read as this argument.         *)
LEMMA QuotedReads ==
    ASSUME NEW A \in Seq(Text), NEW p \in Text
    PROVE  convert_arg(p) \in Text /\ Reads(A, convert_arg(p), p)
<1>1. PICK n \in Nat : n = Len(p)
  BY DEF Text
<1>2. PICK m \in [0..n -> Converted] :
         /\ m[0] = [line |-> <<Quote>>, count |-> 0]
         /\ convert_arg(p) = m[n].line \o Backslashes(m[n].count * 2) \o <<Quote>>
         /\ \A k \in 0..(n - 1) : m[k + 1] = ConvertStep(m[k], p[k + 1])
  BY <1>1, ConvertSteps
<1>3. \A k \in 0..n : m[k].line \in Text /\ m[k].count \in Nat
  BY <1>2 DEF Converted
<1> DEFINE Is(k, w) == Runs(Fresh(A), m[k].line, St(A, w, TRUE, TRUE, 0)) /\ w \o Backslashes(m[k].count) = SubSeq(p, 1, k)
           T == {k \in 0..n : \E w \in Text : Is(k, w)}
<1>4. << >> \in Text /\ Backslashes(0) = << >> /\ Fresh(A) \in State
  <2>1. << >> \in Text
    BY DEF Text
  <2>2. Backslashes(0) = << >>
    BY DEF Backslashes
  <2>3. Fresh(A) \in State
    BY <2>1 DEF Fresh, St, State
  <2> QED BY <2>1, <2>2, <2>3
<1>5. 0 \in T
  <2>1. ParseStep(Fresh(A), Quote) = St(A, << >>, TRUE, TRUE, 0)
    <3>1. PICK s : s = [argv |-> A, word |-> << >>, quoted |-> FALSE, begun |-> FALSE, count |-> 0]
      OBVIOUS
    <3>2. ParseStep(s, Quote) = [s EXCEPT !.word = @ \o Backslashes(s.count \div 2)
                                     \o (IF s.count % 2 = 1 THEN <<Quote>> ELSE << >>),
                                    !.quoted = IF s.count % 2 = 1 THEN @ ELSE ~@,
                                    !.begun = TRUE, !.count = 0]
      BY Differ DEF ParseStep
    <3>3. 0 \div 2 = 0 /\ 0 % 2 = 0
      OBVIOUS
    <3>4. s.count \div 2 = 0 /\ s.count % 2 = 0 /\ s.word = << >> /\ s.quoted = FALSE
      BY <3>1, <3>3
    <3>5. << >> \o Backslashes(0) \o << >> = << >>
      BY <1>4, Differ, Joined
    <3>6. ParseStep(s, Quote) = [s EXCEPT !.word = << >>, !.quoted = TRUE, !.begun = TRUE, !.count = 0]
      BY <3>2, <3>4, <3>5
    <3> QED BY <3>1, <3>6 DEF St, Fresh
  <2>2. Runs(Fresh(A), <<Quote>>, St(A, << >>, TRUE, TRUE, 0))
    BY <1>4, <2>1, Differ, RunsOne
  <2>3. SubSeq(p, 1, 0) = << >>
    BY SubSeqEmpty
  <2>4. << >> \o << >> = << >> /\ 0 \in 0..n
    BY <1>4, Differ, Joined
  <2>5. m[0].line = <<Quote>> /\ m[0].count = 0
    BY <1>2
  <2>6. Is(0, << >>)
    BY <1>4, <2>2, <2>3, <2>4, <2>5
  <2> HIDE DEF Is
  <2> QED BY <1>4, <2>4, <2>6
<1>6. ASSUME NEW k \in 0..(n - 1), k \in T PROVE k + 1 \in T
  <2>1. PICK w \in Text : Is(k, w)
    BY <1>6
  <2>2. PICK x \in Nat : x = m[k].count
    BY <1>3
  <2>3. PICK l \in Text : l = m[k].line
    BY <1>3
  <2>4. PICK ch \in Char : ch = p[k + 1]
    BY <1>1, OneMore DEF Text
  <2>5. PICK u \in Text : u = w \o Backslashes(x)
    BY BackslashesAre, Joined
  <2>6. SubSeq(p, 1, k + 1) = Append(u, ch)
    BY <1>1, <2>1, <2>2, <2>4, <2>5, OneMore DEF Text
  <2>7. Runs(Fresh(A), l, St(A, w, TRUE, TRUE, 0)) /\ m[k] \in Converted /\ k + 1 \in 0..n
    <3>1. Runs(Fresh(A), l, St(A, w, TRUE, TRUE, 0))
      BY <2>1, <2>3
    <3> HIDE DEF Is
    <3>2. k \in 0..n /\ k + 1 \in 0..n
      BY <1>1
    <3> QED BY <1>2, <3>1, <3>2
  <2>8. m[k + 1] = ConvertStep(m[k], ch)
    BY <1>2, <2>4
  <2>9. Append(u, ch) \in Text /\ Append(u, ch) \o Backslashes(0) = Append(u, ch)
    BY <1>4, Joined
  <2> HIDE DEF Is
  <2>10. CASE ch = Backslash
    <3>1. m[k + 1] = [line |-> l, count |-> x + 1]
      BY <2>2, <2>3, <2>7, <2>8, <2>10, ConvertType
    <3>2. w \o Backslashes(x + 1) = Append(u, ch)
      BY <2>5, <2>10, OneBackslash
    <3>3. Is(k + 1, w)
      <4>1. m[k + 1].line = l /\ m[k + 1].count = x + 1
        BY <3>1
      <4> QED BY <2>6, <2>7, <3>2, <4>1 DEF Is
    <3> QED BY <2>7, <3>3
  <2>11. CASE ch = Quote
    <3>1. PICK y \in Nat : y = 2 * x + 1
      OBVIOUS
    <3>2. x * 2 + 1 = y /\ 0 + y = y
      BY <3>1
    <3>3. m[k + 1] = [line |-> l \o Backslashes(y) \o <<Quote>>, count |-> 0]
      BY <2>2, <2>3, <2>7, <2>8, <2>11, <3>2, ConvertType
    <3>4. Runs(St(A, w, TRUE, TRUE, 0), Backslashes(y), St(A, w, TRUE, TRUE, y))
      BY <3>2, RunsCount
    <3>5. St(A, w, TRUE, TRUE, y) \in State
      BY Stepped
    <3>6. Runs(St(A, w, TRUE, TRUE, y), <<Quote>>, St(A, Append(u, ch), TRUE, TRUE, 0))
      <4>1. ParseStep(St(A, w, TRUE, TRUE, y), Quote) = St(A, Append(u, ch), TRUE, TRUE, 0)
        BY <2>5, <2>11, <3>1, Stepped
      <4> QED BY <3>5, <4>1, Differ, RunsOne
    <3>7. Backslashes(y) \in Text /\ <<Quote>> \in Text /\ l \o Backslashes(y) \in Text
      BY BackslashesAre, Differ, Joined
    <3>8. Runs(Fresh(A), l \o Backslashes(y), St(A, w, TRUE, TRUE, y))
      BY <2>7, <3>4, <3>7, RunsOn
    <3>9. Runs(Fresh(A), l \o Backslashes(y) \o <<Quote>>, St(A, Append(u, ch), TRUE, TRUE, 0))
      BY <3>6, <3>7, <3>8, RunsOn
    <3>10. Is(k + 1, Append(u, ch))
      <4>1. m[k + 1].line = l \o Backslashes(y) \o <<Quote>> /\ m[k + 1].count = 0
        BY <3>3
      <4> QED BY <2>6, <2>9, <3>9, <4>1 DEF Is
    <3> QED BY <2>7, <2>9, <3>10
  <2>12. CASE ch \notin {Backslash, Quote}
    <3>1. 0 + x = x
      OBVIOUS
    <3>3. m[k + 1] = [line |-> l \o Backslashes(x) \o <<ch>>, count |-> 0]
      BY <2>2, <2>3, <2>7, <2>8, <2>12, ConvertType
    <3>4. Runs(St(A, w, TRUE, TRUE, 0), Backslashes(x), St(A, w, TRUE, TRUE, x))
      BY <3>1, RunsCount
    <3>5. St(A, w, TRUE, TRUE, x) \in State
      BY Stepped
    <3>6. Runs(St(A, w, TRUE, TRUE, x), <<ch>>, St(A, Append(u, ch), TRUE, TRUE, 0))
      <4>1. ParseStep(St(A, w, TRUE, TRUE, x), ch) = St(A, Append(u, ch), TRUE, TRUE, 0)
        <5>1. ch \in Char \ {Backslash, Quote} /\ (ch \in {Space, Tab} => TRUE) /\ TRUE \in BOOLEAN
          BY <2>12
        <5>2. \A q \in BOOLEAN, d \in Char \ {Backslash, Quote} : (d \in {Space, Tab} => q) =>
                 ParseStep(St(A, w, q, TRUE, x), d) = St(A, Append(w \o Backslashes(x), d), q, TRUE, 0)
          BY Stepped
        <5>3. ParseStep(St(A, w, TRUE, TRUE, x), ch) = St(A, Append(w \o Backslashes(x), ch), TRUE, TRUE, 0)
          BY <5>1, <5>2
        <5> QED BY <2>5, <5>3
      <4> QED BY <3>5, <4>1, RunsOne
    <3>7. Backslashes(x) \in Text /\ <<ch>> \in Text /\ l \o Backslashes(x) \in Text
      BY BackslashesAre, Joined
    <3>8. Runs(Fresh(A), l \o Backslashes(x), St(A, w, TRUE, TRUE, x))
      BY <2>7, <3>4, <3>7, RunsOn
    <3>9. Runs(Fresh(A), l \o Backslashes(x) \o <<ch>>, St(A, Append(u, ch), TRUE, TRUE, 0))
      BY <3>6, <3>7, <3>8, RunsOn
    <3>10. Is(k + 1, Append(u, ch))
      <4>1. m[k + 1].line = l \o Backslashes(x) \o <<ch>> /\ m[k + 1].count = 0
        BY <3>3
      <4> QED BY <2>6, <2>9, <3>9, <4>1 DEF Is
    <3> QED BY <2>7, <2>9, <3>10
  <2> QED BY <2>10, <2>11, <2>12
<1>7. n \in T
  <2>1. 0..n \subseteq T
    <3> HIDE DEF T
    <3> QED BY <1>5, <1>6, UpTo
  <2> QED BY <2>1
<1>8. PICK w \in Text : Is(n, w)
  BY <1>7
<1>9. PICK x \in Nat : x = m[n].count
  BY <1>3
<1>10. PICK l \in Text : l = m[n].line
  BY <1>3
<1>11. PICK y \in Nat : y = 2 * x /\ y = x * 2 /\ 0 + y = y
  <2>1. 2 * x \in Nat /\ 2 * x = x * 2 /\ 0 + 2 * x = 2 * x
    OBVIOUS
  <2> QED BY <2>1
<1>12. convert_arg(p) = l \o Backslashes(y) \o <<Quote>>
  BY <1>2, <1>9, <1>10, <1>11
<1>13. w \o Backslashes(x) = p
  <2>1. SubSeq(p, 1, n) = p
    BY <1>1, SubSeqFull DEF Text
  <2> QED BY <1>8, <1>9, <2>1
<1>14. Runs(St(A, w, TRUE, TRUE, 0), Backslashes(y), St(A, w, TRUE, TRUE, y)) /\ St(A, w, TRUE, TRUE, y) \in State
  BY <1>11, RunsCount, Stepped
<1>15. Runs(St(A, w, TRUE, TRUE, y), <<Quote>>, St(A, p, FALSE, TRUE, 0))
  <2>1. ParseStep(St(A, w, TRUE, TRUE, 2 * x), Quote) = St(A, w \o Backslashes(x), FALSE, TRUE, 0)
    BY Stepped
  <2>2. ParseStep(St(A, w, TRUE, TRUE, y), Quote) = St(A, p, FALSE, TRUE, 0)
    BY <1>11, <1>13, <2>1
  <2> QED BY <1>14, <2>2, Differ, RunsOne
<1>16. Backslashes(y) \in Text /\ <<Quote>> \in Text /\ l \o Backslashes(y) \in Text
  BY BackslashesAre, Differ, Joined
<1>17. Runs(Fresh(A), l \o Backslashes(y), St(A, w, TRUE, TRUE, y))
  BY <1>8, <1>10, <1>14, <1>16, RunsOn
<1>18. Runs(Fresh(A), convert_arg(p), St(A, p, FALSE, TRUE, 0))
  BY <1>12, <1>15, <1>16, <1>17, RunsOn
<1>19. p \o Backslashes(0) = p
  BY <1>4, Differ, Joined
<1>20. convert_arg(p) \in Text
  BY <1>12, <1>16, Differ, Joined
<1> QED BY <1>18, <1>19, <1>20 DEF Reads

(* An argument that is given as it is, without a quote or a blank, is read *)
(* as this argument.                                                       *)
LEMMA BareReads ==
    ASSUME NEW A \in Seq(Text), NEW p \in Text, p # << >>, \A i \in 1..Len(p) : p[i] \notin {Quote, Space, Tab}
    PROVE  Reads(A, p, p)
<1>1. PICK n \in Nat : n = Len(p)
  BY DEF Text
<1>2. << >> \in Text /\ Backslashes(0) = << >>
  <2>1. << >> \in Text
    BY DEF Text
  <2>2. Backslashes(0) = << >>
    BY DEF Backslashes
  <2> QED BY <2>1, <2>2
<1> DEFINE Is(k, w, b, x) ==
              /\ Runs(Fresh(A), SubSeq(p, 1, k), St(A, w, FALSE, b, x))
              /\ w \o Backslashes(x) = SubSeq(p, 1, k) /\ (b \/ x > 0 \/ k = 0)
           T == {k \in 0..n : \E w \in Text, b \in BOOLEAN, x \in Nat : Is(k, w, b, x)}
<1>3. 0 \in T
  <2>1. Fresh(A) \in State /\ Fresh(A) = St(A, << >>, FALSE, FALSE, 0)
    BY <1>2 DEF Fresh, St, State
  <2>2. SubSeq(p, 1, 0) = << >>
    BY SubSeqEmpty
  <2>3. << >> \o << >> = << >>
    BY <1>2, Differ, Joined
  <2>4. Runs(Fresh(A), << >>, Fresh(A))
    BY <2>1, RunsNone
  <2>5. Is(0, << >>, FALSE, 0)
    BY <1>2, <2>1, <2>2, <2>3, <2>4
  <2>6. 0 \in Nat /\ 0 \in 0..n /\ FALSE \in BOOLEAN
    OBVIOUS
  <2> HIDE DEF Is
  <2> QED BY <1>2, <2>5, <2>6, Zenon
<1>4. ASSUME NEW k \in 0..(n - 1), k \in T PROVE k + 1 \in T
  <2>1. PICK w \in Text, b \in BOOLEAN, x \in Nat : Is(k, w, b, x)
    BY <1>4
  <2>2. k + 1 \in 0..n /\ k + 1 \in 1..n
    BY <1>1
  <2>3. PICK ch \in Char : ch = p[k + 1]
    BY <1>1, OneMore DEF Text
  <2>4. ch \notin {Quote, Space, Tab}
    BY <1>1, <2>2, <2>3
  <2>5. PICK s \in Text : s = SubSeq(p, 1, k)
    BY <1>1, OneMore DEF Text
  <2>6. SubSeq(p, 1, k + 1) = Append(s, ch)
    BY <1>1, <2>3, <2>5, OneMore DEF Text
  <2>7. Append(s, ch) = s \o <<ch>> /\ Append(s, ch) \in Text /\ <<ch>> \in Text /\ Append(s, ch) \o << >> = Append(s, ch)
    <3>1. Append(s, ch) = s \o <<ch>> /\ Append(s, ch) \in Text /\ <<ch>> \in Text
      BY Joined
    <3> QED BY <3>1, Joined
  <2>8. Runs(Fresh(A), s, St(A, w, FALSE, b, x)) /\ w \o Backslashes(x) = s
    BY <2>1, <2>5
  <2>9. CASE ch = Backslash
    <3>1. <<ch>> = Backslashes(1)
      <4>1. Backslashes(0 + 1) = Append(Backslashes(0), Backslash)
        BY BackslashesAre
      <4>2. Append(<< >>, Backslash) = <<Backslash>> /\ 0 + 1 = 1
        OBVIOUS
      <4>3. Backslashes(1) = Append(Backslashes(0), Backslash)
        BY <4>1, <4>2
      <4> QED BY <1>2, <2>9, <4>2, <4>3
    <3>2. Runs(St(A, w, FALSE, b, x), Backslashes(1), St(A, w, FALSE, b, x + 1))
      BY RunsCount
    <3>3. Runs(Fresh(A), s \o <<ch>>, St(A, w, FALSE, b, x + 1))
      <4>1. Runs(St(A, w, FALSE, b, x), <<ch>>, St(A, w, FALSE, b, x + 1))
        BY <3>1, <3>2
      <4> QED BY <2>7, <2>8, <4>1, RunsOn
    <3>4. w \o Backslashes(x + 1) = Append(s, ch)
      BY <2>8, <2>9, OneBackslash
    <3>5. x + 1 \in Nat /\ x + 1 > 0
      OBVIOUS
    <3>6. Is(k + 1, w, b, x + 1)
      BY <2>6, <2>7, <3>3, <3>4, <3>5
    <3> HIDE DEF Is
    <3> QED BY <2>2, <3>5, <3>6
  <2>10. CASE ch # Backslash
    <3>1. St(A, w, FALSE, b, x) \in State
      BY Stepped
    <3>2. ParseStep(St(A, w, FALSE, b, x), ch) = St(A, Append(s, ch), FALSE, TRUE, 0)
      <4>1. ch \in Char \ {Backslash, Quote} /\ (ch \in {Space, Tab} => FALSE)
        BY <2>4, <2>10
      <4>2. ASSUME NEW e \in BOOLEAN, \/ e = TRUE \/ e = FALSE
            PROVE  ParseStep(St(A, w, FALSE, e, x), ch) = St(A, Append(w \o Backslashes(x), ch), FALSE, TRUE, 0)
        <5>1. \A q \in BOOLEAN, d \in Char \ {Backslash, Quote} : (d \in {Space, Tab} => q) =>
                 ParseStep(St(A, w, q, TRUE, x), d) = St(A, Append(w \o Backslashes(x), d), q, TRUE, 0)
          BY Stepped
        <5>2. \A q \in BOOLEAN, d \in Char \ {Backslash, Quote} : (d \in {Space, Tab} => q) =>
                 ParseStep(St(A, w, q, FALSE, x), d) = St(A, Append(w \o Backslashes(x), d), q, TRUE, 0)
          BY Stepped
        <5>3. FALSE \in BOOLEAN
          OBVIOUS
        <5>4. ParseStep(St(A, w, FALSE, TRUE, x), ch) = St(A, Append(w \o Backslashes(x), ch), FALSE, TRUE, 0)
          BY <4>1, <5>1, <5>3
        <5>5. ParseStep(St(A, w, FALSE, FALSE, x), ch) = St(A, Append(w \o Backslashes(x), ch), FALSE, TRUE, 0)
          BY <4>1, <5>2, <5>3
        <5> QED BY <4>2, <5>4, <5>5, Zenon
      <4>3. ParseStep(St(A, w, FALSE, b, x), ch) = St(A, Append(w \o Backslashes(x), ch), FALSE, TRUE, 0)
        BY <4>2, Zenon
      <4> QED BY <2>8, <4>3
    <3>3. Runs(St(A, w, FALSE, b, x), <<ch>>, St(A, Append(s, ch), FALSE, TRUE, 0))
      BY <3>1, <3>2, RunsOne
    <3>4. Runs(Fresh(A), s \o <<ch>>, St(A, Append(s, ch), FALSE, TRUE, 0))
      BY <2>7, <2>8, <3>3, RunsOn
    <3>5. Is(k + 1, Append(s, ch), TRUE, 0)
      BY <1>2, <2>6, <2>7, <3>4
    <3> HIDE DEF Is
    <3> QED BY <2>2, <2>7, <3>5
  <2> QED BY <2>9, <2>10
<1>5. n \in T
  <2> HIDE DEF T
  <2>1. 0..n \subseteq T
    BY <1>3, <1>4, UpTo
  <2>2. n \in 0..n
    OBVIOUS
  <2> QED BY <2>1, <2>2
<1>6. PICK w \in Text, b \in BOOLEAN, x \in Nat : Is(n, w, b, x)
  BY <1>5
<1>7. SubSeq(p, 1, n) = p
  BY <1>1, SubSeqFull DEF Text
<1>8. n # 0
  BY <1>1 DEF Text
<1>9. Runs(Fresh(A), p, St(A, w, FALSE, b, x)) /\ w \o Backslashes(x) = p /\ (b \/ x > 0)
  BY <1>6, <1>7, <1>8
<1> QED BY <1>9 DEF Reads

(* A blank after what is read as an argument ends the argument.            *)
LEMMA WordEnds ==
    ASSUME NEW A \in Seq(Text), NEW l \in Text, NEW arg \in Text, Reads(A, l, arg)
    PROVE  Runs(Fresh(A), l \o <<Space>>, Fresh(Append(A, arg)))
<1>1. PICK w \in Text, b \in BOOLEAN, n \in Nat :
         Runs(Fresh(A), l, St(A, w, FALSE, b, n)) /\ w \o Backslashes(n) = arg /\ (b \/ n > 0)
  BY DEF Reads
<1>2. St(A, w, FALSE, b, n) \in State
  BY Stepped
<1>3. ParseStep(St(A, w, FALSE, b, n), Space) = Fresh(Append(A, arg))
  BY <1>1, Stepped
<1>4. Runs(St(A, w, FALSE, b, n), <<Space>>, Fresh(Append(A, arg)))
  BY <1>2, <1>3, Differ, RunsOne
<1>5. <<Space>> \in Text
  BY Differ, Joined
<1> QED BY <1>1, <1>4, <1>5, RunsOn

(* Each argument is read from its own part of the line, and all of them    *)
(* from the whole line.                                                    *)
LEMMA LineArrives ==
    ASSUME NEW argv \in Seq(Text), NEW lines \in Seq(Text), Len(lines) = Len(argv),
           \A i \in 1..Len(argv) : \A A \in Seq(Text) : Reads(A, lines[i], argv[i])
    PROVE  Separated(lines) \in Text /\ Parsed(Separated(lines)) = argv
<1>1. PICK n \in Nat : n = Len(argv)
  OBVIOUS
<1>2. DOMAIN lines = 1..n /\ \A i \in 1..n : lines[i] \in Text /\ argv[i] \in Text
  BY <1>1
<1> DEFINE ss == [i \in 1..n |-> IF i = 1 THEN lines[i] ELSE <<Space>> \o lines[i]]
<1>3. <<Space>> \in Text /\ << >> \in Text
  <2>1. << >> \in Text
    BY DEF Text
  <2> QED BY <2>1, Differ, Joined
<1>4. ss \in Seq(Seq(Char)) /\ Len(ss) = n
  <2>1. \A i \in 1..n : <<Space>> \o lines[i] \in Text
    BY <1>2, <1>3, Differ, Joined
  <2> QED BY <1>2, <2>1 DEF Text
<1>5. Separated(lines) = FlattenSeq(ss)
  BY <1>2 DEF Separated
<1>6. \A i \in 1..n : ss[i] = IF i = 1 THEN lines[i] ELSE <<Space>> \o lines[i]
  OBVIOUS
<1> HIDE DEF ss
<1>7. PICK m \in [0..n -> Text] :
         /\ m[0] = << >> /\ FlattenSeq(ss) = m[n]
         /\ \A k \in 0..(n - 1) : m[k + 1] = m[k] \o ss[k + 1]
  BY <1>4, FlatSteps DEF Text
<1> DEFINE T == {k \in 0..n : Runs(Fresh(<< >>), m[k] \o <<Space>>, Fresh(SubSeq(argv, 1, k)))}
<1>8. << >> \in Seq(Text) /\ Fresh(<< >>) \in State
  <2>1. << >> \in Seq(Text)
    OBVIOUS
  <2> QED BY <1>3, <2>1 DEF Fresh, St, State
<1>9. SubSeq(argv, 1, 0) = << >>
  BY SubSeqEmpty
<1>10. 0 \in T
  <2>1. PICK s : s = [argv |-> << >>, word |-> << >>, quoted |-> FALSE, begun |-> FALSE, count |-> 0]
    OBVIOUS
  <2>2. ParseStep(s, Space) = [s EXCEPT !.argv = IF s.begun \/ s.count > 0
                                                 THEN Append(@, s.word \o Backslashes(s.count)) ELSE @,
                                        !.word = << >>, !.begun = FALSE, !.count = 0]
    BY <2>1, Differ DEF ParseStep
  <2>3. ParseStep(s, Space) = [argv |-> << >>, word |-> << >>, quoted |-> FALSE, begun |-> FALSE, count |-> 0]
    BY <2>1, <2>2
  <2>4. ParseStep(Fresh(<< >>), Space) = Fresh(<< >>)
    BY <2>1, <2>3 DEF St, Fresh
  <2>5. Runs(Fresh(<< >>), <<Space>>, Fresh(<< >>))
    BY <1>8, <2>4, Differ, RunsOne
  <2>6. << >> \o <<Space>> = <<Space>>
    BY <1>3, Differ, Joined
  <2>7. m[0] \o <<Space>> = <<Space>>
    BY <1>7, <2>6
  <2>8. Runs(Fresh(<< >>), m[0] \o <<Space>>, Fresh(SubSeq(argv, 1, 0)))
    BY <1>9, <2>5, <2>7
  <2>9. 0 \in 0..n
    OBVIOUS
  <2> QED BY <2>8, <2>9
<1>11. ASSUME NEW k \in 0..(n - 1), k \in T PROVE k + 1 \in T
  <2>1. k + 1 \in 1..n /\ k + 1 \in 0..n /\ k \in 0..n
    BY <1>1
  <2>2. PICK A \in Seq(Text) : A = SubSeq(argv, 1, k)
    BY <1>1, OneMore
  <2>3. SubSeq(argv, 1, k + 1) = Append(A, argv[k + 1])
    BY <1>1, <2>2, OneMore
  <2>4. PICK l \in Text : l = lines[k + 1]
    BY <1>2, <2>1
  <2>5. PICK r \in Text : r = m[k]
    BY <1>7, <2>1
  <2>6. Runs(Fresh(A), l \o <<Space>>, Fresh(Append(A, argv[k + 1])))
    <3>1. argv[k + 1] \in Text /\ Reads(A, l, argv[k + 1])
      BY <1>1, <1>2, <2>1, <2>4
    <3> QED BY <3>1, WordEnds
  <2>7. Runs(Fresh(<< >>), m[k + 1] \o <<Space>>, Fresh(Append(A, argv[k + 1])))
    <3>1. CASE k = 0
      <4>1. A = << >>
        BY <1>9, <2>2, <3>1
      <4>2. m[k + 1] = << >> \o l
        <5>1. k + 1 = 1
          BY <3>1
        <5>2. ss[k + 1] = lines[k + 1]
          BY <1>6, <2>1, <5>1
        <5>3. m[k + 1] = m[k] \o ss[k + 1] /\ m[k] = << >>
          BY <1>7, <3>1
        <5> QED BY <2>4, <5>2, <5>3
      <4>3. << >> \o l = l
        BY Differ, Joined
      <4> QED BY <2>6, <4>1, <4>2, <4>3
    <3>2. CASE k # 0
      <4>1. PICK z \in Text : z = <<Space>>
        BY <1>3
      <4>2. ss[k + 1] = z \o l
        <5>1. k + 1 # 1
          BY <3>2
        <5>2. ss[k + 1] = <<Space>> \o lines[k + 1]
          BY <1>6, <2>1, <5>1
        <5> QED BY <2>4, <4>1, <5>2
      <4>3. m[k + 1] = r \o (z \o l)
        BY <1>7, <2>5, <4>2
      <4>4. r \o z \in Text /\ l \o z \in Text /\ z \o l \in Text
        BY Differ, Joined
      <4>5. (r \o (z \o l)) \o z = (r \o z) \o (l \o z)
        <5>1. r \o (z \o l) = (r \o z) \o l
          BY Grouped
        <5>2. PICK y \in Text : y = r \o z
          BY <4>4
        <5>3. (y \o l) \o z = y \o (l \o z)
          BY Grouped
        <5> QED BY <5>1, <5>2, <5>3
      <4>6. Runs(Fresh(<< >>), r \o z, Fresh(A))
        BY <1>11, <2>2, <2>5, <4>1
      <4>7. Runs(Fresh(<< >>), (r \o z) \o (l \o z), Fresh(Append(A, argv[k + 1])))
        BY <2>6, <4>1, <4>4, <4>6, RunsOn
      <4> QED BY <4>1, <4>3, <4>5, <4>7
    <3> QED BY <3>1, <3>2
  <2> QED BY <2>1, <2>3, <2>7
<1>12. n \in T
  <2> HIDE DEF T
  <2>1. 0..n \subseteq T
    BY <1>10, <1>11, UpTo
  <2>2. n \in 0..n
    OBVIOUS
  <2> QED BY <2>1, <2>2
<1>13. SubSeq(argv, 1, n) = argv
  BY <1>1, SubSeqFull
<1>14. PICK line \in Text : line = Separated(lines)
  BY <1>5, <1>7
<1>15. Runs(Fresh(<< >>), line \o <<Space>>, Fresh(argv))
  BY <1>5, <1>7, <1>12, <1>13, <1>14
<1>16. Parsed(line) = Fresh(argv).argv
  BY <1>15, ParsedIs
<1>17. Fresh(argv).argv = argv
  BY DEF Fresh, St
<1> QED BY <1>14, <1>16, <1>17

(* A program that is started by itself gets its arguments.                 *)
LEMMA NativeGets ==
    ASSUME NEW argv \in Seq(Text)
    PROVE  Parsed(convert_argv(argv)) = argv
<1> DEFINE lines == [i \in 1..Len(argv) |-> convert_arg(argv[i])]
<1>1. \A i \in 1..Len(argv) : argv[i] \in Text
  OBVIOUS
<1>2. \A i \in 1..Len(argv) : convert_arg(argv[i]) \in Text
  <2> TAKE i \in 1..Len(argv)
  <2>1. << >> \in Seq(Text) /\ argv[i] \in Text
    BY <1>1
  <2> QED BY <2>1, QuotedReads
<1>3. lines \in Seq(Text) /\ Len(lines) = Len(argv)
  BY <1>2
<1>4. convert_argv(argv) = Separated(lines)
  BY DEF convert_argv
<1>5. \A i \in 1..Len(argv) : \A A \in Seq(Text) : Reads(A, lines[i], argv[i])
  <2> TAKE i \in 1..Len(argv)
  <2> TAKE A \in Seq(Text)
  <2>1. Reads(A, convert_arg(argv[i]), argv[i])
    BY <1>1, QuotedReads
  <2> QED BY <2>1
<1> HIDE DEF lines
<1> QED BY <1>3, <1>4, <1>5, LineArrives

(* The outer quotes are taken away.                                        *)
LEMMA Inner ==
    ASSUME NEW s \in Text
    PROVE  SubSeq(<<Quote>> \o s \o <<Quote>>, 2, Len(<<Quote>> \o s \o <<Quote>>) - 1) = s
<1>1. PICK q \in Text : q = <<Quote>>
  BY Differ, Joined
<1>2. Len(q) = 1
  BY <1>1
<1>3. PICK n \in Nat : n = Len(s)
  BY DEF Text
<1>4. PICK h \in Text : h = q \o s
  BY Differ, Joined
<1>5. Len(h) = 1 + n /\ \A i \in 1..(1 + n) : h[i] = IF i <= 1 THEN q[i] ELSE s[i - 1]
  <2>1. /\ Len(q \o s) = Len(q) + Len(s)
        /\ \A i \in 1..(Len(q) + Len(s)) : (q \o s)[i] = IF i <= Len(q) THEN q[i] ELSE s[i - Len(q)]
    BY InJoined
  <2> QED BY <1>2, <1>3, <1>4, <2>1
<1>6. PICK t \in Text : t = h \o q
  BY Differ, Joined
<1>7. Len(t) = n + 2 /\ \A i \in 1..(n + 2) : t[i] = IF i <= 1 + n THEN h[i] ELSE q[i - (1 + n)]
  <2>1. /\ Len(h \o q) = Len(h) + Len(q)
        /\ \A i \in 1..(Len(h) + Len(q)) : (h \o q)[i] = IF i <= Len(h) THEN h[i] ELSE q[i - Len(h)]
    BY InJoined
  <2>2. (1 + n) + 1 = n + 2
    BY <1>3
  <2> QED BY <1>2, <1>5, <1>6, <2>1, <2>2
<1>8. \A i \in 1..n : t[i + 1] = s[i]
  <2> TAKE i \in 1..n
  <2>1. i + 1 \in 1..(n + 2) /\ i + 1 \in 1..(1 + n) /\ i + 1 <= 1 + n /\ ~(i + 1 <= 1) /\ (i + 1) - 1 = i
    BY <1>3
  <2>2. t[i + 1] = h[i + 1]
    BY <1>7, <2>1
  <2> QED BY <1>5, <2>1, <2>2
<1>9. PICK u : u = SubSeq(t, 2, n + 1)
  OBVIOUS
<1>10. u \in Text /\ Len(u) = n /\ \A i \in 1..n : u[i] = t[i + 1]
  <2>1. 2 \in Int /\ n + 1 \in Int /\ \A i \in 2..(n + 1) : t[i] \in Char
    BY <1>3, <1>7 DEF Text
  <2>2. /\ u \in Seq(Char) /\ Len(u) = IF 2 <= n + 1 THEN (n + 1) - 2 + 1 ELSE 0
        /\ \A i \in 1..((n + 1) - 2 + 1) : u[i] = t[2 + i - 1]
    BY <1>9, <2>1, SubSeqProperties
  <2>3. \A i \in 1..n : i \in 1..((n + 1) - 2 + 1) /\ 2 + i - 1 = i + 1
    BY <1>3
  <2>4. \A i \in 1..n : u[i] = t[i + 1]
    BY <2>2, <2>3
  <2> QED BY <2>2, <2>4 DEF Text
<1>11. u = s
  BY <1>3, <1>8, <1>10, SeqEqual DEF Text
<1>12. Len(t) - 1 = n + 1
  BY <1>7
<1> QED BY <1>1, <1>4, <1>6, <1>9, <1>11, <1>12

-----------------------------------------------------------------------------
(***************************************************************************)
(* What cmd.exe passes on.                                                 *)
(***************************************************************************)

(* cmd.exe comes from a to b, whether it is inside quotes, and finds       *)
(* nothing to read itself.                                                 *)
Passes(s, a, b) ==
    \E q \in [0..Len(s) -> BOOLEAN] :
        /\ q[0] = a /\ q[Len(s)] = b
        /\ \A k \in 1..Len(s) : /\ q[k] = (q[k - 1] # (s[k] = Quote))
                               /\ s[k] \notin Anywhere /\ (s[k] \in Special => q[k])

(* A part of a line that it passes on: nothing in it is special, or what is*)
(* is inside quotes.                                                       *)
Tame(s, quiet) ==
    IF quiet THEN \A k \in 1..Len(s) : s[k] \notin Special \cup Anywhere ELSE Passes(s, FALSE, FALSE)

(* Such a part is passed on as it is.                                      *)
LEMMA TextStays ==
    ASSUME NEW s \in Text, NEW quiet \in BOOLEAN, Tame(s, quiet)
    PROVE  CmdText(s) = s
<1> DEFINE Next1(h) == [i \in 0..Len(s) |-> IF i = 0 THEN FALSE ELSE h[i - 1] # (s[i] = Quote)]
           f == CHOOSE h : h = Next1(h)
           cuts == {i \in DOMAIN s : s[i] \in Anywhere \/ (s[i] \in Special /\ ~f[i])}
<1>1. PICK n \in Nat : n = Len(s) /\ DOMAIN s = 1..n
  BY DEF Text
<1>2. CmdText(s) = IF cuts = {} THEN s ELSE SubSeq(s, 1, Min(cuts) - 1)
  BY DEF CmdText
<1>3. CASE quiet
  <2>1. cuts = {}
    BY <1>1, <1>3 DEF Tame
  <2> QED BY <1>2, <2>1
<1>4. CASE ~quiet
  <2>1. PICK q \in [0..n -> BOOLEAN] :
            /\ q[0] = FALSE
            /\ \A k \in 1..n : /\ q[k] = (q[k - 1] # (s[k] = Quote))
                             /\ s[k] \notin Anywhere /\ (s[k] \in Special => q[k])
    BY <1>1, <1>4 DEF Tame, Passes
  <2>2. q = Next1(q)
    <3>1. \A i \in 0..n : i # 0 => i \in 1..n
      OBVIOUS
    <3>2. \A i \in 0..n : q[i] = IF i = 0 THEN FALSE ELSE q[i - 1] # (s[i] = Quote)
      BY <2>1, <3>1
    <3> QED BY <1>1, <3>2
  <2>3. f = Next1(f)
    <3> HIDE DEF Next1
    <3> QED BY <2>2
  <2> DEFINE T == {k \in 0..n : f[k] = q[k]}
  <2> HIDE DEF f
  <2>4. 0 \in T
    <3>1. 0 \in 0..n /\ 0 \in 0..Len(s)
      BY <1>1
    <3>2. f[0] = FALSE
      BY <2>3, <3>1
    <3> QED BY <2>1, <3>1, <3>2
  <2>5. ASSUME NEW k \in 0..(n - 1), k \in T PROVE k + 1 \in T
    <3>1. k + 1 \in 0..n /\ k + 1 \in 1..n /\ k + 1 # 0 /\ (k + 1) - 1 = k
      OBVIOUS
    <3>2. f[k + 1] = (f[k] # (s[k + 1] = Quote))
      BY <1>1, <2>3, <3>1
    <3>3. q[k + 1] = (q[k] # (s[k + 1] = Quote))
      BY <2>1, <3>1
    <3>4. f[k] = q[k]
      BY <2>5
    <3> QED BY <3>1, <3>2, <3>3, <3>4
  <2>6. 0..n \subseteq T
    <3> HIDE DEF T
    <3> QED BY <2>4, <2>5, UpTo
  <2>7. \A i \in 1..n : f[i] = q[i]
    BY <2>6
  <2>8. cuts = {}
    BY <1>1, <2>1, <2>7
  <2> QED BY <1>2, <2>8 DEF f
<1> QED BY <1>3, <1>4

(* One part and then another.                                              *)
LEMMA PassesOn ==
    ASSUME NEW s \in Text, NEW t \in Text, NEW a, NEW b, NEW d, Passes(s, a, b), Passes(t, b, d)
    PROVE  Passes(s \o t, a, d)
<1>1. PICK i \in Nat : i = Len(s)
  BY DEF Text
<1>2. PICK j \in Nat : j = Len(t)
  BY DEF Text
<1>3. PICK m \in [0..i -> BOOLEAN] :
         /\ m[0] = a /\ m[i] = b
         /\ \A k \in 1..i : /\ m[k] = (m[k - 1] # (s[k] = Quote))
                          /\ s[k] \notin Anywhere /\ (s[k] \in Special => m[k])
  BY <1>1 DEF Passes
<1>4. PICK l \in [0..j -> BOOLEAN] :
         /\ l[0] = b /\ l[j] = d
         /\ \A k \in 1..j : /\ l[k] = (l[k - 1] # (t[k] = Quote))
                          /\ t[k] \notin Anywhere /\ (t[k] \in Special => l[k])
  BY <1>2 DEF Passes
<1>5. PICK r : r = s \o t
  OBVIOUS
<1>6. Len(r) = i + j /\ \A k \in 1..(i + j) : r[k] = IF k <= i THEN s[k] ELSE t[k - i]
  BY <1>1, <1>2, <1>5, ConcatProperties DEF Text
<1> DEFINE x == [k \in 0..(i + j) |-> IF k <= i THEN m[k] ELSE l[k - i]]
<1>7. x \in [0..(i + j) -> BOOLEAN]
  <2>1. \A k \in 0..(i + j) : (k <= i => k \in 0..i) /\ (~(k <= i) => k - i \in 0..j)
    OBVIOUS
  <2> QED BY <1>3, <1>4, <2>1
<1>8. /\ \A k \in 0..i : x[k] = m[k]
      /\ \A k \in 0..j : x[i + k] = l[k]
  <2>1. \A k \in 0..i : k \in 0..(i + j) /\ k <= i
    OBVIOUS
  <2>2. \A k \in 0..j : i + k \in 0..(i + j) /\ (i + k) - i = k /\ (i + k <= i => k = 0 /\ i + k = i)
    OBVIOUS
  <2>3. \A k \in 0..i : x[k] = m[k]
    BY <2>1
  <2>4. \A k \in 0..j : x[i + k] = l[k]
    BY <1>3, <1>4, <2>2
  <2> QED BY <2>3, <2>4
<1> HIDE DEF x
<1>9. x[0] = a /\ x[i + j] = d
  <2>1. 0 \in 0..i /\ j \in 0..j
    OBVIOUS
  <2> QED BY <1>3, <1>4, <1>8, <2>1
<1>10. ASSUME NEW k \in 1..(i + j)
       PROVE  x[k] = (x[k - 1] # (r[k] = Quote)) /\ r[k] \notin Anywhere /\ (r[k] \in Special => x[k])
  <2>1. CASE k <= i
    <3>1. k \in 1..i /\ k \in 0..i /\ k - 1 \in 0..i
      BY <2>1
    <3>2. r[k] = s[k] /\ x[k] = m[k] /\ x[k - 1] = m[k - 1]
      BY <1>6, <1>8, <2>1, <3>1
    <3> QED BY <1>3, <3>1, <3>2
  <2>2. CASE ~(k <= i)
    <3>1. PICK y \in 1..j : k = i + y
      <4>1. k - i \in 1..j /\ k = i + (k - i)
        BY <2>2
      <4> QED BY <4>1
    <3>2. y \in 0..j /\ y - 1 \in 0..j /\ k - 1 = i + (y - 1) /\ k - i = y
      BY <3>1
    <3>3. r[k] = t[y] /\ x[k] = l[y] /\ x[k - 1] = l[y - 1]
      BY <1>6, <1>8, <2>2, <3>1, <3>2
    <3> QED BY <1>4, <3>1, <3>3
  <2> QED BY <2>1, <2>2
<1>11. Passes(r, a, d)
  BY <1>6, <1>7, <1>9, <1>10 DEF Passes
<1> QED BY <1>5, <1>11

(* A part without a quote.                                                 *)
LEMMA PassesPlain ==
    ASSUME NEW s \in Text, NEW a \in BOOLEAN,
           \A k \in 1..Len(s) : s[k] \notin Anywhere \cup {Quote} /\ (s[k] \in Special => a)
    PROVE  Passes(s, a, a)
<1>1. PICK n \in Nat : n = Len(s)
  BY DEF Text
<1> DEFINE q == [k \in 0..n |-> a]
<1>2. q \in [0..n -> BOOLEAN] /\ q[0] = a /\ q[n] = a
  OBVIOUS
<1>3. ASSUME NEW k \in 1..n
      PROVE  q[k] = (q[k - 1] # (s[k] = Quote)) /\ s[k] \notin Anywhere /\ (s[k] \in Special => q[k])
  <2>1. k \in 0..n /\ k - 1 \in 0..n
    OBVIOUS
  <2>2. q[k] = a /\ q[k - 1] = a
    BY <2>1
  <2>3. s[k] # Quote /\ s[k] \notin Anywhere /\ (s[k] \in Special => a)
    BY <1>1
  <2>4. a = (a # FALSE)
    OBVIOUS
  <2>5. (s[k] = Quote) = FALSE
    BY <2>3
  <2> HIDE DEF q
  <2> QED BY <2>2, <2>3, <2>4, <2>5
<1> HIDE DEF q
<1> QED BY <1>1, <1>2, <1>3 DEF Passes

(* A quote.                                                                *)
LEMMA PassesQuote ==
    ASSUME NEW a \in BOOLEAN
    PROVE  Passes(<<Quote>>, a, ~a)
<1> DEFINE q == [k \in 0..1 |-> IF k = 0 THEN a ELSE ~a]
<1>1. q \in [0..1 -> BOOLEAN] /\ q[0] = a /\ q[1] = ~a
  OBVIOUS
<1>2. PICK s : s = <<Quote>>
  OBVIOUS
<1>3. Len(s) = 1 /\ s[1] = Quote /\ Quote \notin Anywhere /\ Quote \notin Special
  BY <1>2, Differ
<1>4. \A k \in 1..1 : k = 1 /\ k - 1 = 0
  OBVIOUS
<1>5. (~a) = (a # TRUE)
  OBVIOUS
<1> HIDE DEF q
<1>6. q[1] = (q[0] # (s[1] = Quote))
  <2>1. (s[1] = Quote) = TRUE
    BY <1>3
  <2> QED BY <1>1, <1>5, <2>1
<1>7. \A k \in 1..1 : q[k] = (q[k - 1] # (s[k] = Quote)) /\ s[k] \notin Anywhere /\ (s[k] \in Special => q[k])
  BY <1>3, <1>4, <1>6
<1>8. Passes(s, a, ~a)
  BY <1>1, <1>3, <1>7 DEF Passes
<1> QED BY <1>2, <1>8

(* Parts that are put together.                                            *)
LEMMA TameOn ==
    ASSUME NEW quiet \in BOOLEAN, NEW s \in Text, NEW t \in Text, Tame(s, quiet), Tame(t, quiet)
    PROVE  Tame(s \o t, quiet)
<1>1. CASE quiet
  <2>1. PICK r : r = s \o t
    OBVIOUS
  <2>2. /\ Len(r) = Len(s) + Len(t)
        /\ \A k \in 1..(Len(s) + Len(t)) : r[k] = IF k <= Len(s) THEN s[k] ELSE t[k - Len(s)]
    BY <2>1, InJoined
  <2>3. Len(s) \in Nat /\ Len(t) \in Nat
    BY DEF Text
  <2>4. \A k \in 1..Len(r) : r[k] \notin Special \cup Anywhere
    <3> SUFFICES ASSUME NEW k \in 1..(Len(s) + Len(t)) PROVE r[k] \notin Special \cup Anywhere
      BY <2>2
    <3>1. CASE k <= Len(s)
      <4>1. k \in 1..Len(s)
        BY <2>3, <3>1
      <4> QED BY <1>1, <2>2, <3>1, <4>1 DEF Tame
    <3>2. CASE ~(k <= Len(s))
      <4>1. k - Len(s) \in 1..Len(t)
        BY <2>3, <3>2
      <4> QED BY <1>1, <2>2, <3>2, <4>1 DEF Tame
    <3> QED BY <3>1, <3>2
  <2> QED BY <1>1, <2>1, <2>4 DEF Tame
<1>2. CASE ~quiet
  <2>1. Passes(s, FALSE, FALSE) /\ Passes(t, FALSE, FALSE)
    BY <1>2 DEF Tame
  <2>2. Passes(s \o t, FALSE, FALSE)
    BY <2>1, PassesOn
  <2> QED BY <1>2, <2>2 DEF Tame
<1> QED BY <1>1, <1>2

(* Whatever has nothing that cmd.exe reads.                                *)
LEMMA TamePlain ==
    ASSUME NEW quiet \in BOOLEAN, NEW s \in Text,
           \A k \in 1..Len(s) : s[k] \notin Special \cup Anywhere \cup {Quote}
    PROVE  Tame(s, quiet)
<1>1. Passes(s, FALSE, FALSE)
  BY PassesPlain
<1> QED BY <1>1 DEF Tame

(* What convert_arg puts between its quotes is of the argument's characters*)
(* and backslashes.                                                        *)
LEMMA ConvertBody ==
    ASSUME NEW p \in Text
    PROVE  \E body \in Seq(ToSet(p) \cup {Backslash}) :
              body \in Text /\ convert_arg(p) = <<Quote>> \o (body \o <<Quote>>)
<1> DEFINE X == ToSet(p) \cup {Backslash}
<1>1. PICK n \in Nat : n = Len(p)
  BY DEF Text
<1>2. PICK m \in [0..n -> Converted] :
         /\ m[0] = [line |-> <<Quote>>, count |-> 0]
         /\ convert_arg(p) = m[n].line \o Backslashes(m[n].count * 2) \o <<Quote>>
         /\ \A k \in 0..(n - 1) : m[k + 1] = ConvertStep(m[k], p[k + 1])
  BY <1>1, ConvertSteps
<1>3. X \subseteq Char /\ Backslash \in X /\ \A k \in 1..n : p[k] \in X
  BY <1>1, Differ DEF ToSet, Text
<1>4. \A s \in Seq(X) : s \in Text
  <2> HIDE DEF X
  <2> QED BY <1>3 DEF Text
<1>5. \A k \in Nat : Backslashes(k) \in Seq(X)
  <2> HIDE DEF X
  <2> QED BY <1>3 DEF Backslashes
<1>6. PICK z \in Text : z = <<Quote>>
  BY Differ, Joined
<1> HIDE DEF X
<1> DEFINE T == {k \in 0..n : \E b \in Seq(X) : m[k].line = z \o b}
<1>7. 0 \in T
  <2>1. << >> \in Seq(X) /\ 0 \in 0..n
    OBVIOUS
  <2>2. z \o << >> = z
    BY Differ, Joined
  <2>3. m[0].line = z
    BY <1>2, <1>6
  <2>4. m[0].line = z \o << >>
    BY <2>2, <2>3
  <2> QED BY <2>1, <2>4
<1>8. ASSUME NEW k \in 0..(n - 1), k \in T PROVE k + 1 \in T
  <2>1. k + 1 \in 0..n /\ k + 1 \in 1..n /\ k \in 0..n
    OBVIOUS
  <2>2. PICK b \in Seq(X) : m[k].line = z \o b
    BY <1>8
  <2>3. PICK ch \in X : ch = p[k + 1]
    BY <1>3, <2>1
  <2>4. PICK s \in Converted : s = m[k]
    BY <2>1
  <2>5. m[k + 1] = ConvertStep(s, ch) /\ ch \in Char /\ s.count \in Nat
    BY <1>2, <1>3, <2>3, <2>4 DEF Converted
  <2>6. s.count * 2 + 1 \in Nat
    BY <2>5
  <2>7. ASSUME NEW y \in Nat, m[k + 1].line = s.line \o Backslashes(y) \o <<ch>> PROVE k + 1 \in T
    <3>1. PICK t \in Seq(X) : t = Backslashes(y)
      BY <1>5
    <3>2. PICK v \in Seq(X) : v = <<ch>>
      OBVIOUS
    <3>3. b \in Text /\ t \in Text /\ v \in Text
      BY <1>4
    <3>4. PICK w \in Seq(X) : w = b \o t
      BY ConcatProperties
    <3>5. PICK u \in Seq(X) : u = w \o v
      BY ConcatProperties
    <3>6. w \in Text
      BY <1>4
    <3>7. (z \o b) \o t = z \o w
      BY <3>3, <3>4, Grouped
    <3>8. (z \o w) \o v = z \o u
      BY <3>3, <3>5, <3>6, Grouped
    <3>9. m[k + 1].line = z \o u
      BY <2>2, <2>4, <2>7, <3>1, <3>2, <3>7, <3>8
    <3> QED BY <2>1, <3>9
  <2>8. CASE ch = Backslash
    <3>1. ConvertStep(s, ch) = [line |-> s.line, count |-> s.count + 1]
      BY <2>5, <2>8, ConvertType
    <3>2. m[k + 1].line = z \o b
      BY <2>2, <2>4, <2>5, <3>1
    <3> QED BY <2>1, <3>2
  <2>9. CASE ch = Quote
    <3>1. ConvertStep(s, ch) = [line |-> s.line \o Backslashes(s.count * 2 + 1) \o <<Quote>>, count |-> 0]
      BY <2>5, <2>9, ConvertType
    <3>2. PICK l : l = s.line \o Backslashes(s.count * 2 + 1) \o <<ch>>
      OBVIOUS
    <3>3. m[k + 1] = [line |-> l, count |-> 0]
      BY <2>5, <2>9, <3>1, <3>2
    <3>4. m[k + 1].line = l
      BY <3>3
    <3> QED BY <2>6, <2>7, <3>2, <3>4
  <2>10. CASE ch \notin {Backslash, Quote}
    <3>1. ConvertStep(s, ch) = [line |-> s.line \o Backslashes(s.count) \o <<ch>>, count |-> 0]
      BY <2>5, <2>10, ConvertType
    <3>2. PICK l : l = s.line \o Backslashes(s.count) \o <<ch>>
      OBVIOUS
    <3>3. m[k + 1] = [line |-> l, count |-> 0]
      BY <2>5, <3>1, <3>2
    <3>4. m[k + 1].line = l
      BY <3>3
    <3> QED BY <2>5, <2>7, <3>2, <3>4
  <2> QED BY <2>8, <2>9, <2>10
<1>9. n \in T
  <2> HIDE DEF T
  <2>1. 0..n \subseteq T
    BY <1>7, <1>8, UpTo
  <2> QED BY <2>1
<1>10. PICK b \in Seq(X) : m[n].line = z \o b
  BY <1>9
<1>11. m[n].count * 2 \in Nat
  BY <1>2 DEF Converted
<1>12. PICK t \in Seq(X) : t = Backslashes(m[n].count * 2)
  BY <1>5, <1>11
<1>13. PICK w \in Seq(X) : w = b \o t
  BY ConcatProperties
<1>14. b \in Text /\ t \in Text /\ w \in Text
  BY <1>4
<1>15. (z \o b) \o t = z \o w
  BY <1>13, <1>14, Grouped
<1>16. (z \o w) \o z = z \o (w \o z)
  BY <1>14, Grouped
<1>17. convert_arg(p) = z \o (w \o z)
  BY <1>2, <1>6, <1>10, <1>12, <1>15, <1>16
<1> QED BY <1>6, <1>14, <1>17 DEF X

(* What command_shell makes of an argument.                                *)
LEMMA WordTame ==
    ASSUME NEW p \in Text, NEW quiet \in BOOLEAN, ToSet(p) \cap Anywhere = {},
           quiet => ToSet(p) \cap Special = {},
           ~quiet => Quote \notin ToSet(p)
    PROVE  /\ Tame(convert_arg(p), quiet)
           /\ ToSet(p) \cap (Special \cup {Quote}) = {} => Tame(p, quiet)
<1>1. DOMAIN p = 1..Len(p)
  BY DEF Text
<1>2. ASSUME ToSet(p) \cap (Special \cup {Quote}) = {} PROVE Tame(p, quiet)
  <2>1. \A k \in 1..Len(p) : p[k] \notin Special \cup Anywhere \cup {Quote}
    BY <1>1, <1>2 DEF ToSet
  <2> QED BY <2>1, TamePlain
<1>3. PICK X : X = ToSet(p) \cup {Backslash}
  OBVIOUS
<1>4. PICK body \in Seq(X) : body \in Text /\ convert_arg(p) = <<Quote>> \o (body \o <<Quote>>)
  BY <1>3, ConvertBody
<1>5. PICK z \in Text : z = <<Quote>>
  BY Differ, Joined
<1>6. Len(z) = 1 /\ z[1] = Quote
  BY <1>5
<1>7. \A k \in 1..Len(body) : body[k] \in X
  OBVIOUS
<1>8. body \o z \in Text
  BY <1>4, Differ, Joined
<1>9. CASE quiet
  <2>1. X \cap (Special \cup Anywhere) = {}
    BY <1>3, <1>9, Differ
  <2>2. Tame(body, quiet)
    BY <1>7, <1>9, <2>1 DEF Tame
  <2>3. Tame(z, quiet)
    <3>1. \A k \in 1..1 : k = 1
      OBVIOUS
    <3>2. Quote \notin Special \cup Anywhere
      BY Differ
    <3> QED BY <1>6, <1>9, <3>1, <3>2 DEF Tame
  <2>4. Tame(body \o z, quiet)
    BY <1>4, <2>2, <2>3, TameOn
  <2>5. Tame(z \o (body \o z), quiet)
    BY <1>8, <2>3, <2>4, TameOn
  <2> QED BY <1>2, <1>4, <1>5, <2>5
<1>10. CASE ~quiet
  <2>1. X \cap (Anywhere \cup {Quote}) = {}
    BY <1>3, <1>10, Differ
  <2>2. Passes(body, TRUE, TRUE)
    <3>1. \A k \in 1..Len(body) : body[k] \notin Anywhere \cup {Quote}
      BY <1>7, <2>1
    <3> QED BY <1>4, <3>1, PassesPlain
  <2>3. Passes(z, TRUE, FALSE) /\ Passes(z, FALSE, TRUE)
    <3>1. Passes(<<Quote>>, TRUE, ~TRUE)
      BY PassesQuote
    <3>2. Passes(<<Quote>>, FALSE, ~FALSE)
      BY PassesQuote
    <3>3. ~TRUE = FALSE /\ ~FALSE = TRUE
      OBVIOUS
    <3> QED BY <1>5, <3>1, <3>2, <3>3
  <2>4. Passes(body \o z, TRUE, FALSE)
    BY <1>4, <2>2, <2>3, PassesOn
  <2>5. Passes(z \o (body \o z), FALSE, FALSE)
    BY <1>8, <2>3, <2>4, PassesOn
  <2>6. Tame(convert_arg(p), quiet)
    BY <1>4, <1>5, <1>10, <2>5 DEF Tame
  <2> QED BY <1>2, <2>6
<1> QED BY <1>9, <1>10

(* And the line of them all.                                               *)
LEMMA LineTame ==
    ASSUME NEW quiet \in BOOLEAN, NEW lines \in Seq(Text), \A i \in 1..Len(lines) : Tame(lines[i], quiet)
    PROVE  Tame(Separated(lines), quiet)
<1>1. PICK n \in Nat : n = Len(lines) /\ DOMAIN lines = 1..n
  OBVIOUS
<1>2. \A i \in 1..n : lines[i] \in Text /\ Tame(lines[i], quiet)
  BY <1>1
<1> DEFINE ss == [i \in 1..n |-> IF i = 1 THEN lines[i] ELSE <<Space>> \o lines[i]]
<1>3. PICK z \in Text : z = <<Space>>
  <2>1. Space \in Char /\ << >> \in Text
    BY Differ DEF Text
  <2>2. <<Space>> \in Text
    BY <2>1, Joined
  <2> QED BY <2>2
<1>4. Tame(z, quiet)
  <2>1. Len(z) = 1 /\ z[1] = Space /\ \A k \in 1..1 : k = 1
    BY <1>3
  <2>2. Space \notin Special \cup Anywhere \cup {Quote}
    BY Differ
  <2> QED BY <2>1, <2>2, TamePlain
<1>5. ASSUME NEW i \in 1..n PROVE ss[i] \in Text /\ Tame(ss[i], quiet)
  <2>1. PICK l \in Text : l = lines[i] /\ Tame(l, quiet)
    BY <1>2
  <2>2. z \o l \in Text
    BY Differ, Joined
  <2>3. Tame(z \o l, quiet)
    BY <1>4, <2>1, TameOn
  <2>4. ss[i] = IF i = 1 THEN l ELSE z \o l
    BY <1>3, <2>1
  <2> HIDE DEF ss
  <2> QED BY <2>1, <2>2, <2>3, <2>4
<1>6. ss \in Seq(Seq(Char)) /\ Len(ss) = n
  BY <1>1, <1>5 DEF Text
<1>7. Separated(lines) = FlattenSeq(ss)
  BY <1>1 DEF Separated
<1> HIDE DEF ss
<1>8. PICK m \in [0..n -> Text] :
         /\ m[0] = << >> /\ FlattenSeq(ss) = m[n]
         /\ \A k \in 0..(n - 1) : m[k + 1] = m[k] \o ss[k + 1]
  BY <1>6, FlatSteps DEF Text
<1> DEFINE T == {k \in 0..n : Tame(m[k], quiet)}
<1>9. 0 \in T
  <2>1. << >> \in Text /\ \A k \in 1..Len(<< >>) : FALSE
    BY DEF Text
  <2>2. Tame(<< >>, quiet)
    BY <2>1, TamePlain
  <2> QED BY <1>8, <2>2
<1>10. ASSUME NEW k \in 0..(n - 1), k \in T PROVE k + 1 \in T
  <2>1. k + 1 \in 1..n /\ k + 1 \in 0..n /\ k \in 0..n
    OBVIOUS
  <2>2. PICK r \in Text : r = m[k] /\ Tame(r, quiet)
    BY <1>10, <2>1
  <2>3. PICK l \in Text : l = ss[k + 1] /\ Tame(l, quiet)
    BY <1>5, <2>1
  <2>4. Tame(r \o l, quiet)
    BY <2>2, <2>3, TameOn
  <2>5. m[k + 1] = r \o l
    BY <1>8, <2>2, <2>3
  <2> QED BY <2>1, <2>4, <2>5
<1>11. n \in T
  <2> HIDE DEF T
  <2>1. 0..n \subseteq T
    BY <1>9, <1>10, UpTo
  <2> QED BY <2>1
<1> QED BY <1>7, <1>8, <1>11

(* And one that cmd.exe starts.                                            *)
LEMMA ShellGets ==
    ASSUME NEW argv \in Seq(Text), ForCmd(argv)
    PROVE  CmdRuns(ShellLine(argv)) = argv
<1> DEFINE line(i) == IF Space \in ToSet(argv[i]) THEN convert_arg(argv[i]) ELSE argv[i]
           lines == [i \in 1..Len(argv) |-> line(i)]
<1>1. DOMAIN argv = 1..Len(argv) /\ \A i \in 1..Len(argv) : argv[i] \in Text
  OBVIOUS
<1>2. PICK quiet \in BOOLEAN : quiet = \A i \in 1..Len(argv) : ToSet(argv[i]) \cap Special = {}
  OBVIOUS
<1>3. ASSUME NEW i \in 1..Len(argv)
      PROVE  /\ line(i) \in Text /\ Tame(line(i), quiet)
             /\ \A A \in Seq(Text) : Reads(A, line(i), argv[i])
  <2>1. PICK p \in Text : p = argv[i]
    BY <1>1
  <2>2. /\ ToSet(p) \cap Anywhere = {}
        /\ Space \in ToSet(p) \/ (p # << >> /\ ToSet(p) \cap (Special \cup {Quote, Tab}) = {})
    BY <1>1, <2>1 DEF ForCmd
  <2>3. quiet => ToSet(p) \cap Special = {}
    BY <1>2, <2>1
  <2>4. ~quiet => Quote \notin ToSet(p)
    <3> SUFFICES ASSUME ~quiet PROVE Quote \notin ToSet(p)
      OBVIOUS
    <3>1. PICK j \in 1..Len(argv) : ToSet(argv[j]) \cap Special # {}
      BY <1>2
    <3> QED BY <1>1, <2>1, <3>1 DEF ForCmd
  <2>5. /\ Tame(convert_arg(p), quiet)
        /\ ToSet(p) \cap (Special \cup {Quote}) = {} => Tame(p, quiet)
    BY <2>2, <2>3, <2>4, WordTame
  <2>6. CASE Space \in ToSet(p)
    <3>1. \A A \in Seq(Text) : convert_arg(p) \in Text /\ Reads(A, convert_arg(p), p)
      BY QuotedReads
    <3>2. << >> \in Seq(Text)
      OBVIOUS
    <3>3. line(i) = convert_arg(p)
      BY <2>1, <2>6
    <3> HIDE DEF line
    <3> QED BY <2>1, <2>5, <3>1, <3>2, <3>3
  <2>7. CASE Space \notin ToSet(p)
    <3>1. p # << >> /\ ToSet(p) \cap (Special \cup {Quote, Tab}) = {}
      BY <2>2, <2>7
    <3>2. ASSUME NEW j \in 1..Len(p) PROVE p[j] \notin {Quote, Space, Tab}
      <4>1. j \in DOMAIN p
        BY <3>2 DEF Text
      <4>2. p[j] \in ToSet(p)
        BY <4>1 DEF ToSet
      <4> QED BY <2>7, <3>1, <4>2
    <3>3. \A A \in Seq(Text) : Reads(A, p, p)
      BY <3>1, <3>2, BareReads
    <3>4. line(i) = p
      BY <2>1, <2>7
    <3>5. Tame(p, quiet)
      BY <2>5, <3>1
    <3> HIDE DEF line
    <3> QED BY <2>1, <3>3, <3>4, <3>5
  <2> QED BY <2>6, <2>7
<1>4. ShellLine(argv) = <<Quote>> \o Separated(lines) \o <<Quote>>
  <2>1. DOMAIN argv = 1..Len(argv)
    OBVIOUS
  <2>2. lines = [i \in DOMAIN argv |-> IF Space \in ToSet(argv[i]) THEN convert_arg(argv[i]) ELSE argv[i]]
    BY <2>1
  <2> HIDE DEF lines, line
  <2> QED BY <2>2 DEF ShellLine
<1> HIDE DEF line
<1>5. lines \in Seq(Text) /\ Len(lines) = Len(argv)
  BY <1>3
<1>6. \A i \in 1..Len(argv) : Tame(lines[i], quiet) /\ \A A \in Seq(Text) : Reads(A, lines[i], argv[i])
  BY <1>3
<1> HIDE DEF lines
<1>7. PICK s \in Text : s = Separated(lines)
  BY <1>5, <1>6, LineArrives
<1>8. Parsed(s) = argv
  BY <1>5, <1>6, <1>7, LineArrives
<1>9. Tame(s, quiet)
  BY <1>5, <1>6, <1>7, LineTame
<1>10. CmdText(s) = s
  BY <1>9, TextStays
<1>11. SubSeq(<<Quote>> \o s \o <<Quote>>, 2, Len(<<Quote>> \o s \o <<Quote>>) - 1) = s
  BY Inner
<1> QED BY <1>4, <1>7, <1>8, <1>10, <1>11 DEF CmdRuns

(* Whatever arguments a command is given, of any length and number, the    *)
(* program that it starts gets them; through cmd.exe, those of ForCmd.     *)
THEOREM ArgumentsArrive == Spec => []ArgsArrive
<1>1. IInv => ArgsArrive
  <2> SUFFICES ASSUME IInv, NEW t \in Command, Cmd(t).kind = "shell" => ForCmd(Cmd(t).argv)
               PROVE  Received(t) = Cmd(t).argv
    BY DEF ArgsArrive
  <2>1. c \in Cases
    BY DEF IInv, TypeOK
  <2>2. Cmd(t).argv \in Seq(Text)
    <3>1. \A s \in Seq(Seq(STRING)) : s \in Seq(Seq(Char))
      BY DEF Char
    <3> QED BY <2>1, <3>1, ArgumentAssumption DEF Cmd, Text
  <2>3. CASE Cmd(t).kind = "native"
    BY <2>2, <2>3, NativeGets DEF Received
  <2>4. CASE Cmd(t).kind = "shell"
    <3>1. CmdRuns(ShellLine(Cmd(t).argv)) = Cmd(t).argv
      BY <2>2, <2>4, ShellGets
    <3> QED BY <2>4, <3>1 DEF Received
  <2>5. CASE Cmd(t).kind \notin {"native", "shell"}
    BY <2>5 DEF Received
  <2> QED BY <2>3, <2>4, <2>5
<1> QED BY <1>1, Inductive, PTL
=============================================================================
