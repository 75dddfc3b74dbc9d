--------------------------- MODULE Native_proofs ----------------------------
(***************************************************************************)
(* Proofs about Native.tla, for any number of commands.                    *)
(***************************************************************************)
EXTENDS Native, TLAPS

(* What the thread, the child and the pipe of one command know of each     *)
(* other: the state of the child bounds where the thread can be, and the   *)
(* message in the pipe decides between the two ways out of start_run.      *)
SameCommand(c) ==
    /\ img[c] = "none" <=> thr[c] \in {"idle", "piped", "nopipe", "nofork"}
    /\ img[c] = "none" => ~sent[c] /\ ~ran[c]
    /\ img[c] \in Setup =>
        thr[c] \in {"forked", "reading"} /\ ~sent[c] /\ ~ran[c]
    /\ img[c] = "sent" => sent[c]
    /\ sent[c] => ~ran[c] /\ thr[c] \in {"forked", "reading", "refused"}
    /\ thr[c] = "refused" => sent[c]
    /\ thr[c] \in {"returned", Unwaited} => img[c] \in {"program", "exited", "reaped"}
    /\ img[c] = "program" => ran[c]
    /\ img[c] \in {"exited", "reaped"} <=> status[c] # None
    /\ img[c] \in {"exited", "reaped"} => ran[c] \/ sent[c] \/ status[c] \in Killed
    /\ img[c] = "reaped" <=> code[c] # None
    /\ img[c] = "reaped" => thr[c] = "returned" /\ code[c] = Code(status[c])

(* Who may hold an end: a child keeps its own write end until it executes  *)
(* its program, ends or is killed, and the host only inside start_run.     *)
Holders(c) ==
    /\ img[c] \in Setup \cup {"sent"} => W(c) \in holds[c]
    /\ W(c) \in holds[Host] => thr[c] \in {"piped", "forked", "nofork"}
    /\ thr[c] \in {"piped", "forked"} => W(c) \in holds[Host]
    /\ R(c) \in holds[Host] => thr[c] \in Busy \cup {"nofork"}

(* A single starting thread is in one start_run at a time, so no other     *)
(* child is forked while the write end of a fail_pipe is inheritable.      *)
Alone ==
    Serial =>
        /\ \A c, d \in Cmd : thr[c] \in Busy /\ thr[d] \in Busy => c = d
        /\ \A c, d \in Cmd : c # d /\ W(c) \in holds[d] => thr[c] = "nofork"

IInv ==
    /\ TypeOK
    /\ \A c \in Cmd : SameCommand(c) /\ Holders(c)
    /\ Alone

-----------------------------------------------------------------------------
(* A status is an exit with a byte or a death by a positive signal number. *)
LEMMA StatusShape ==
    ASSUME NEW s \in Status
    PROVE  \/ s \notin Killed /\ s[1] = "exit" /\ s[2] \in 0..255 /\ s = <<"exit", s[2]>>
           \/ s \in Killed /\ s[1] = "signal" /\ s[2] \in 1..64
<1>1. CASE s \in {"exit"} \X (ExitCodes \cup {FailExit})
  <2>1. PICK n \in ExitCodes \cup {FailExit} : s = <<"exit", n>>
    BY <1>1
  <2>2. n \in 0..255
    BY ExitCodesAssumption DEF FailExit
  <2>3. s \notin Killed
    BY <2>1 DEF Killed
  <2> QED BY <2>1, <2>2, <2>3
<1>2. CASE s \in {"signal"} \X Signals
  BY <1>2, SignalsAssumption DEF Killed
<1> QED BY <1>1, <1>2 DEF Status

(* The exit code of a status is a byte or a negated signal number.         *)
LEMMA CodeType ==
    ASSUME NEW s \in Status
    PROVE  Code(s) \in Codes
BY StatusShape DEF Code, Codes

(* Only the exit status 0 has the exit code 0, unless statuses are lost.   *)
LEMMA CodeZero ==
    ASSUME NEW s \in Status, Code(s) = 0, ~SigchldIgnored
    PROVE  s = <<"exit", 0>>
BY StatusShape DEF Code

(* None is no status, and no exit code either.                             *)
LEMMA NoneApart == None \notin Status /\ None \notin Codes
<1>1. ASSUME None \in Status PROVE FALSE
  <2>1. CASE None \in {"exit"} \X (ExitCodes \cup {FailExit})
    <3>1. PICK n \in ExitCodes \cup {FailExit} : None = <<"exit", n>>
      BY <2>1
    <3>2. n \in Int
      BY ExitCodesAssumption DEF FailExit
    <3> QED BY <3>1, <3>2, NoneAssumption
  <2>2. CASE None \in {"signal"} \X Signals
    <3>1. PICK n \in Signals : None = <<"signal", n>>
      BY <2>2
    <3>2. n \in Int
      BY SignalsAssumption
    <3> QED BY <3>1, <3>2, NoneAssumption
  <2> QED BY <1>1, <2>1, <2>2 DEF Status
<1> QED BY <1>1, NoneAssumption DEF Codes

(* The initial states satisfy the invariant.                               *)
LEMMA InitInv == Init => IInv
BY HostAssumption
   DEF Init, IInv, TypeOK, SameCommand, Holders, Alone, Busy, Threw, Setup,
       Procs, Ends, R, W, Unwaited
(* What the actions that end a process pass on is a status.                *)
LEMMA StatusMembers ==
    /\ \A n \in ExitCodes \cup {FailExit} : <<"exit", n>> \in Status
    /\ \A n \in Signals : <<"signal", n>> \in Status /\ <<"signal", n>> \in Killed
BY DEF Status, Killed

(* The end of a process preserves the invariant if the process had run its *)
(* program, had sent its error, or was killed by a signal.                 *)
LEMMA TerminateInv ==
    ASSUME IInv, NEW c \in Cmd, NEW s \in Status, Terminate(c, s),
           \/ img[c] \in {"sent", "program"}
           \/ img[c] \in Setup /\ s \in Killed
    PROVE  IInv'
<1> USE HostAssumption, NoneApart DEF IInv
<1>1. s # None
  OBVIOUS
<1>2. TypeOK'
  BY DEF TypeOK, Terminate, Procs
<1>3. ASSUME NEW d \in Cmd PROVE SameCommand(d)'
  <2>1. CASE d = c
    BY <1>1, <2>1 DEF TypeOK, Terminate, SameCommand, Setup, Code
  <2>2. CASE d # c
    BY <2>2 DEF TypeOK, Terminate, SameCommand, Code
  <2> QED BY <2>1, <2>2
<1>4. ASSUME NEW d \in Cmd PROVE Holders(d)'
  BY DEF TypeOK, Terminate, Holders, Setup, Procs
<1>5. Alone'
  BY DEF TypeOK, Terminate, Alone, Procs
<1> QED BY <1>2, <1>3, <1>4, <1>5

(* Every step preserves it.                                                *)
LEMMA StepInv == IInv /\ [Next]_vars => IInv'
<1> SUFFICES ASSUME IInv, [Next]_vars PROVE IInv'
  OBVIOUS
<1> USE HostAssumption, NoneApart
    DEF IInv, TypeOK, SameCommand, Holders, Alone, Busy, Threw, Unwaited, Setup, Procs, Ends, R, W
<1>1. ASSUME NEW c \in Cmd, Pipe(c) PROVE IInv'
  BY <1>1 DEF Pipe
<1>2. ASSUME NEW c \in Cmd, PipeFails(c) PROVE IInv'
  BY <1>2 DEF PipeFails
<1>3. ASSUME NEW c \in Cmd, Fork(c) PROVE IInv'
  <2>1. TypeOK'
    BY <1>3 DEF Fork
  <2>2. ASSUME NEW d \in Cmd PROVE SameCommand(d)'
    BY <1>3 DEF Fork
  <2>3. ASSUME NEW d \in Cmd PROVE Holders(d)'
    BY <1>3 DEF Fork
  <2>4. Alone'
    <3>1. ASSUME Serial, NEW d \in Cmd, NEW e \in Cmd, d # e, W(d) \in holds'[e]
          PROVE  thr'[d] = "nofork"
      <4>1. CASE e = c
        <5>1. W(d) \in holds[Host]
          BY <1>3, <3>1, <4>1 DEF Fork
        <5>2. thr[d] \notin Busy
          BY <1>3, <3>1, <4>1 DEF Fork
        <5> QED BY <1>3, <3>1, <4>1, <5>1, <5>2 DEF Fork
      <4>2. CASE e # c
        BY <1>3, <3>1, <4>2 DEF Fork
      <4> QED BY <4>1, <4>2
    <3>2. ASSUME Serial, NEW d \in Cmd, NEW e \in Cmd, thr'[d] \in Busy, thr'[e] \in Busy
          PROVE  d = e
      BY <1>3, <3>2 DEF Fork
    <3> QED BY <3>1, <3>2
  <2> QED BY <2>1, <2>2, <2>3, <2>4 DEF IInv
<1>4. ASSUME NEW c \in Cmd, ForkFails(c) PROVE IInv'
  BY <1>4 DEF ForkFails
<1>5. ASSUME NEW c \in Cmd, CloseWrite(c) PROVE IInv'
  BY <1>5 DEF CloseWrite
<1>6. ASSUME NEW c \in Cmd, ReadCode(c) PROVE IInv'
  BY <1>6 DEF ReadCode
<1>7. ASSUME NEW c \in Cmd, ReadEof(c) PROVE IInv'
  BY <1>7 DEF ReadEof, SeesEof
<1>18. ASSUME NEW c \in Cmd, AsyncFails(c) PROVE IInv'
  BY <1>18 DEF AsyncFails, SeesEof
<1>8. ASSUME NEW c \in Cmd, SetUp(c) PROVE IInv'
  BY <1>8 DEF SetUp
<1>9. ASSUME NEW c \in Cmd, SetUpFails(c) PROVE IInv'
  BY <1>9 DEF SetUpFails
<1>10. ASSUME NEW c \in Cmd, Exec(c) PROVE IInv'
  BY <1>10 DEF Exec
<1>11. ASSUME NEW c \in Cmd, ExecFails(c) PROVE IInv'
  BY <1>11 DEF ExecFails
<1>12. ASSUME NEW c \in Cmd, Send(c) PROVE IInv'
  BY <1>12 DEF Send
<1>13. ASSUME NEW c \in Cmd, Quit(c) PROVE IInv'
  BY <1>13, TerminateInv, StatusMembers DEF Quit
<1>14. ASSUME NEW c \in Cmd, NEW n \in ExitCodes, ProgramExits(c, n) PROVE IInv'
  BY <1>14, TerminateInv, StatusMembers DEF ProgramExits
<1>15. ASSUME NEW c \in Cmd, NEW n \in Signals, SignalKills(c, n) PROVE IInv'
  BY <1>15, TerminateInv, StatusMembers DEF SignalKills
<1>16. ASSUME NEW c \in Cmd, Waitpid(c) PROVE IInv'
  <2>1. status[c] \in Status
    BY <1>16 DEF Waitpid
  <2>2. Code(status[c]) \in Codes /\ Code(status[c]) # None
    BY <2>1, CodeType
  <2>3. TypeOK'
    BY <1>16, <2>2 DEF Waitpid
  <2>4. ASSUME NEW d \in Cmd PROVE SameCommand(d)'
    BY <1>16, <2>2 DEF Waitpid, Code
  <2>5. ASSUME NEW d \in Cmd PROVE Holders(d)'
    BY <1>16 DEF Waitpid
  <2>6. Alone'
    BY <1>16 DEF Waitpid
  <2> QED BY <2>3, <2>4, <2>5, <2>6 DEF IInv
<1>17. CASE UNCHANGED vars
  BY <1>17 DEF vars, Code
<1> QED
  BY <1>1, <1>2, <1>3, <1>4, <1>5, <1>6, <1>7, <1>8, <1>9, <1>10, <1>11, <1>12, <1>13, <1>14, <1>15, <1>16, <1>17, <1>18
  DEF Next, Start, Child, Exit, Kill, Terminated

(* The inductive invariant, of any number of start_runs.                   *)
THEOREM Invariance == Spec => []IInv
BY InitInv, StepInv, PTL DEF Spec

-----------------------------------------------------------------------------
(* Every variable keeps its type.                                          *)
THEOREM TypeCorrect == Spec => []TypeOK
<1>1. IInv => TypeOK
  BY DEF IInv
<1> QED BY <1>1, Invariance, PTL

(* A start_run that throws a stdc_error has not let the program run, now   *)
(* or later: once the error is in the pipe the child is past its execvp.   *)
(* One that throws because there is no waiter has run it.                  *)
THEOREM ThrowSafe == Spec => []ThrowMeansNotRun
<1>1. IInv => ThrowMeansNotRun
  BY DEF IInv, TypeOK, SameCommand, ThrowMeansNotRun, Threw, Unwaited
<1> QED BY <1>1, Invariance, PTL

(* A start_run that returns has a process behind it: the child keeps the   *)
(* write end open until it executes its program, dies, or has sent errno.  *)
THEOREM ReturnSafe == Spec => []ReturnMeansProcess
<1>1. IInv => ReturnMeansProcess
  BY DEF IInv, SameCommand, ReturnMeansProcess
<1> QED BY <1>1, Invariance, PTL

(* The exit code 0 is that of a program that ran and passed 0 to exit.     *)
THEOREM ZeroSafe == Spec => []ZeroMeansSuccess
<1>1. ASSUME IInv, NEW c \in Cmd, code[c] = 0, ~SigchldIgnored
      PROVE  ran[c] /\ status[c] = <<"exit", 0>>
  <2>1. img[c] = "reaped" /\ code[c] = Code(status[c])
    BY <1>1, NoneAssumption DEF IInv, SameCommand
  <2>2. status[c] \in Status
    BY <1>1, <2>1, NoneApart DEF IInv, TypeOK, SameCommand
  <2>3. status[c] = <<"exit", 0>>
    BY <1>1, <2>1, <2>2, CodeZero
  <2>4. status[c] \notin Killed
    BY <2>3 DEF Killed
  <2> QED BY <1>1, <2>1, <2>3, <2>4 DEF IInv, SameCommand
<1>2. IInv => ZeroMeansSuccess
  BY <1>1 DEF ZeroMeansSuccess
<1> QED BY <1>2, Invariance, PTL

(* A finished start_run leaves no end of its fail_pipe open in the host.   *)
THEOREM HostSafe == Spec => []HostClean
<1>1. IInv => HostClean
  BY DEF IInv, Holders, HostClean, Busy, Unwaited
<1> QED BY <1>1, Invariance, PTL

(* With one starting thread nobody else holds a write end waited on.       *)
THEOREM SerialSafe == Spec => []NoStranger
<1>1. IInv => NoStranger
  BY DEF IInv, Alone, NoStranger, Busy
<1> QED BY <1>1, Invariance, PTL

-----------------------------------------------------------------------------
(* The protocol implements Launch: every step is one of its steps or none. *)
THEOREM Implements == Spec => ImplementsLaunch
<1>1. Init => L!Init
  BY DEF Init, L!Init, callView, procView, endedView
<1>2. IInv /\ [Next]_vars => [L!Next]_(L!vars)
  <2> SUFFICES ASSUME IInv, [Next]_vars PROVE [L!Next]_(L!vars)
    OBVIOUS
  <2> USE DEF IInv, TypeOK, SameCommand, Setup, Busy, Threw, Unwaited,
              callView, procView, endedView, L!vars
  <2>1. ASSUME NEW c \in Cmd, Pipe(c) PROVE L!Call(c)
    BY <2>1, ZenonT(60) DEF Pipe, L!Call
  <2>2. ASSUME NEW c \in Cmd, PipeFails(c) PROVE L!Throw(c)
    BY <2>2 DEF PipeFails, L!Throw
  <2>3. ASSUME NEW c \in Cmd, Fork(c) PROVE UNCHANGED L!vars
    BY <2>3 DEF Fork
  <2>4. ASSUME NEW c \in Cmd, ForkFails(c) PROVE L!Throw(c)
    BY <2>4 DEF ForkFails, L!Throw
  <2>5. ASSUME NEW c \in Cmd, CloseWrite(c) PROVE UNCHANGED L!vars
    BY <2>5 DEF CloseWrite
  <2>6. ASSUME NEW c \in Cmd, ReadCode(c) PROVE L!Throw(c)
    BY <2>6, ZenonT(60) DEF ReadCode, L!Throw
  <2>18. ASSUME NEW c \in Cmd, SeesEof(c) PROVE procView[c] # "none"
    <3>1. img[c] \notin Setup \cup {"sent"}
      BY <2>18 DEF SeesEof, Holders, Procs
    <3> QED BY <2>18, <3>1 DEF SeesEof
  <2>7. ASSUME NEW c \in Cmd, ReadEof(c) PROVE L!Return(c)
    BY <2>7, <2>18, ZenonT(60) DEF ReadEof, SeesEof, L!Return, L!Leave
  <2>19. ASSUME NEW c \in Cmd, AsyncFails(c) PROVE L!Abandon(c)
    BY <2>19, <2>18, ZenonT(60) DEF AsyncFails, SeesEof, L!Abandon, L!Leave
  <2>8. ASSUME NEW c \in Cmd, SetUp(c) PROVE UNCHANGED L!vars
    BY <2>8 DEF SetUp
  <2>9. ASSUME NEW c \in Cmd, SetUpFails(c) PROVE UNCHANGED L!vars
    BY <2>9 DEF SetUpFails
  <2>10. ASSUME NEW c \in Cmd, Exec(c) PROVE L!Run(c)
    BY <2>10, ZenonT(60) DEF Exec, L!Run
  <2>11. ASSUME NEW c \in Cmd, ExecFails(c) PROVE UNCHANGED L!vars
    BY <2>11 DEF ExecFails
  <2>12. ASSUME NEW c \in Cmd, Send(c) PROVE UNCHANGED L!vars
    BY <2>12 DEF Send
  <2>13. ASSUME NEW c \in Cmd, Quit(c) PROVE UNCHANGED L!vars
    BY <2>13 DEF Quit, Terminate
  <2>14. ASSUME NEW c \in Cmd, NEW n \in ExitCodes, ProgramExits(c, n)
        PROVE  L!End(c, <<"exit", n>>)
    BY <2>14, ZenonT(60) DEF ProgramExits, Terminate, L!End
  <2>15. ASSUME NEW c \in Cmd, NEW n \in Signals, SignalKills(c, n)
        PROVE  \/ L!DieEarly(c, <<"signal", n>>)
               \/ L!End(c, <<"signal", n>>)
               \/ UNCHANGED L!vars
    <3>1. CASE img[c] \in Setup
      BY <2>15, <3>1, StatusMembers, ZenonT(60) DEF SignalKills, Terminate, L!DieEarly
    <3>2. CASE img[c] = "sent"
      BY <2>15, <3>2 DEF SignalKills, Terminate
    <3>3. CASE img[c] = "program"
      BY <2>15, <3>3, ZenonT(60) DEF SignalKills, Terminate, L!End
    <3> QED BY <2>15, <3>1, <3>2, <3>3 DEF SignalKills
  <2>16. ASSUME NEW c \in Cmd, Waitpid(c) PROVE L!Collect(c)
    BY <2>16, ZenonT(60) DEF Waitpid, L!Collect
  <2>17. CASE UNCHANGED vars
    BY <2>17 DEF vars
  <2> QED
    BY <2>1, <2>2, <2>3, <2>4, <2>5, <2>6, <2>7, <2>8, <2>9, <2>10, <2>11, <2>12, <2>13, <2>14, <2>15, <2>16, <2>17, <2>19, StatusMembers
    DEF Next, Start, Child, Exit, Kill, Terminated, L!Next
<1> QED BY <1>1, <1>2, Invariance, PTL DEF Spec, ImplementsLaunch, L!Spec

=============================================================================
