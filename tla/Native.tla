------------------------------- MODULE Native -------------------------------
(***************************************************************************)
(* Starting and waiting for programs: command_native::start_run and        *)
(* finish_run on POSIX (lib/ccsh_command_posix.cpp:48-113).                *)
(*                                                                         *)
(* start_run makes a pipe, forks, and lets the child write errno into the  *)
(* pipe when it cannot execute its program.  The pipe's write end is       *)
(* closed by a successful execvp (FD_CLOEXEC), so the parent reads either  *)
(* the error, and throws, or end of file, and returns with an async waiter *)
(* for the child.  End of file needs every copy of the write end closed:   *)
(* the ends are inheritable between pipe() and the parent's close, and any *)
(* child forked by another thread meanwhile takes copies of them along.    *)
(* The waiter is a thread, and std::async throws when there can be none.   *)
(*                                                                         *)
(* Several native commands are started here, by threads of one host        *)
(* process: the async thread of a && b starts b while another thread may   *)
(* be starting something else (include/ccsh/ccsh_command.hpp:276-286).     *)
(***************************************************************************)
EXTENDS Integers

CONSTANTS
    Cmd,             \* the native commands, each run once
    Host,            \* the process that uses the library
    ExitCodes,       \* what a program passes to exit, a part of 0..255
    Signals,         \* numbers of the signals that may kill a process
    Serial,          \* TRUE: one thread only calls start_run (no && || or ,)
    SigchldIgnored,  \* TRUE: the host has SIGCHLD set to SIG_IGN
    None             \* no status yet, no exit code yet

ASSUME HostAssumption == Host \notin Cmd
ASSUME ExitCodesAssumption == ExitCodes \subseteq 0..255
ASSUME SignalsAssumption == Signals \subseteq 1..64
ASSUME NoneAssumption == None \notin Int /\ None \notin {"exit", "signal"} \X Int
ASSUME FlagsAssumption == Serial \in BOOLEAN /\ SigchldIgnored \in BOOLEAN

(* _exit(-1) in the child: the low eight bits of -1.                       *)
FailExit == 255

(* The two ends of the fail_pipe of each command, and who may hold one.    *)
R(c) == <<c, "r">>
W(c) == <<c, "w">>
Ends == Cmd \X {"r", "w"}
Procs == Cmd \cup {Host}

Status == ({"exit"} \X (ExitCodes \cup {FailExit})) \cup ({"signal"} \X Signals)
Killed == {"signal"} \X Signals
Codes == -64..255      \* what finish_run may return

VARIABLES
    thr,      \* thr[c]: where the thread in the start_run of c is
    img,      \* img[c]: what the child process of c is executing
    holds,    \* holds[p]: the fail_pipe ends open in process p
    sent,     \* sent[c]: the child has written errno into its fail_pipe
    status,   \* status[c]: how the child ended, or None
    code,     \* code[c]: the value of the waiter's future, or None
    ran       \* ran[c]: an execvp of c succeeded (history)

vars == <<thr, img, holds, sent, status, code, ran>>

Busy == {"piped", "forked", "reading"}          \* inside start_run
Threw == {"nopipe", "nofork", "refused"}        \* it has thrown a stdc_error
Unwaited == "nowaiter"                          \* ... a std::system_error
Setup == {"forked", "ready", "failing"}         \* host code, before execvp

TypeOK ==
    /\ thr \in [Cmd -> {"idle", "returned", Unwaited} \cup Busy \cup Threw]
    /\ img \in [Cmd -> {"none", "sent", "program", "exited", "reaped"} \cup Setup]
    /\ holds \in [Procs -> SUBSET Ends]
    /\ sent \in [Cmd -> BOOLEAN]
    /\ status \in [Cmd -> Status \cup {None}]
    /\ code \in [Cmd -> Codes \cup {None}]
    /\ ran \in [Cmd -> BOOLEAN]

Init ==
    /\ thr = [c \in Cmd |-> "idle"]
    /\ img = [c \in Cmd |-> "none"]
    /\ holds = [p \in Procs |-> {}]
    /\ sent = [c \in Cmd |-> FALSE]
    /\ status = [c \in Cmd |-> None]
    /\ code = [c \in Cmd |-> None]
    /\ ran = [c \in Cmd |-> FALSE]

-----------------------------------------------------------------------------
(* The thread in start_run.                                                *)

(* Mutant: the operands of a pipe are started by threads of their own.     *)
Pipe_Threads(c) ==
    /\ thr[c] = "idle"
    /\ thr' = [thr EXCEPT ![c] = "piped"]
    /\ holds' = [holds EXCEPT ![Host] = @ \cup {R(c), W(c)}]
    /\ UNCHANGED <<img, sent, status, code, ran>>

(* pipe(fail_pipe) succeeds; a lone thread finishes one start_run first.   *)
Pipe(c) ==
    /\ thr[c] = "idle"
    /\ Serial => \A d \in Cmd : thr[d] \notin Busy
    /\ thr' = [thr EXCEPT ![c] = "piped"]
    /\ holds' = [holds EXCEPT ![Host] = @ \cup {R(c), W(c)}]
    /\ UNCHANGED <<img, sent, status, code, ran>>

(* pipe() fails (EMFILE, ENFILE) and stdc_thrower throws.                  *)
PipeFails(c) ==
    /\ thr[c] = "idle"
    /\ Serial => \A d \in Cmd : thr[d] \notin Busy
    /\ thr' = [thr EXCEPT ![c] = "nopipe"]
    /\ UNCHANGED <<img, holds, sent, status, code, ran>>

(* fork(): the child starts with a copy of every end the host holds.       *)
Fork(c) ==
    /\ thr[c] = "piped"
    /\ thr' = [thr EXCEPT ![c] = "forked"]
    /\ img' = [img EXCEPT ![c] = "forked"]
    /\ holds' = [holds EXCEPT ![c] = holds[Host]]
    /\ UNCHANGED <<sent, status, code, ran>>

(* fork() fails: stdc_thrower throws and the int[2] closes nothing.        *)
ForkFails(c) ==
    /\ thr[c] = "piped"
    /\ thr' = [thr EXCEPT ![c] = "nofork"]
    /\ UNCHANGED <<img, holds, sent, status, code, ran>>

(* Mutant: the parent keeps fail_pipe[1].                                  *)
CloseWrite_Forgotten(c) ==
    /\ thr[c] = "forked"
    /\ thr' = [thr EXCEPT ![c] = "reading"]
    /\ UNCHANGED <<img, holds, sent, status, code, ran>>

CloseWrite(c) ==
    /\ thr[c] = "forked"
    /\ thr' = [thr EXCEPT ![c] = "reading"]
    /\ holds' = [holds EXCEPT ![Host] = @ \ {W(c)}]
    /\ UNCHANGED <<img, sent, status, code, ran>>

(* Mutant: result >= 0 for result > 0, an end of file throws too.          *)
ReadCode_Eof(c) ==
    /\ thr[c] = "reading"
    /\ sent[c] \/ \A p \in Procs : W(c) \notin holds[p]
    /\ thr' = [thr EXCEPT ![c] = "refused"]
    /\ holds' = [holds EXCEPT ![Host] = @ \ {R(c)}]
    /\ UNCHANGED <<img, sent, status, code, ran>>

(* Mutant: no open_wrapper around fail_pipe[0].                            *)
ReadCode_Leak(c) ==
    /\ thr[c] = "reading"
    /\ sent[c]
    /\ thr' = [thr EXCEPT ![c] = "refused"]
    /\ UNCHANGED <<img, holds, sent, status, code, ran>>

(* read() returns the errno the child has sent: throw.  The open_wrapper   *)
(* closes the read end; nothing waits for the child.                       *)
ReadCode(c) ==
    /\ thr[c] = "reading"
    /\ sent[c]
    /\ thr' = [thr EXCEPT ![c] = "refused"]
    /\ holds' = [holds EXCEPT ![Host] = @ \ {R(c)}]
    /\ UNCHANGED <<img, sent, status, code, ran>>

(* Mutant: what read() delivers is not looked at.                          *)
ReadEof_Unchecked(c) ==
    /\ thr[c] = "reading"
    /\ sent[c] \/ \A p \in Procs : W(c) \notin holds[p]
    /\ thr' = [thr EXCEPT ![c] = "returned"]
    /\ holds' = [holds EXCEPT ![Host] = @ \ {R(c)}]
    /\ UNCHANGED <<img, sent, status, code, ran>>

(* read() returns 0: no process holds the write end.                       *)
SeesEof(c) ==
    /\ thr[c] = "reading"
    /\ ~sent[c]
    /\ \A p \in Procs : W(c) \notin holds[p]
    /\ holds' = [holds EXCEPT ![Host] = @ \ {R(c)}]
    /\ UNCHANGED <<img, sent, status, code, ran>>

(* The waiter starts.                                                      *)
ReadEof(c) == SeesEof(c) /\ thr' = [thr EXCEPT ![c] = "returned"]

(* There is no thread for it (EAGAIN): std::async throws, and nobody will  *)
(* wait for the program, which is running.                                 *)
AsyncFails(c) == SeesEof(c) /\ thr' = [thr EXCEPT ![c] = Unwaited]

-----------------------------------------------------------------------------
(* The child, before and after execvp.                                     *)

(* Mutant: the child closes fail_pipe[1] for fail_pipe[0].                 *)
SetUp_WrongEnd(c) ==
    /\ img[c] = "forked"
    /\ img' = [img EXCEPT ![c] = "ready"]
    /\ holds' = [holds EXCEPT ![c] = @ \ {W(c)}]
    /\ UNCHANGED <<thr, sent, status, code, ran>>

(* close_fd(fail_pipe[0]), the dup2s and fcntl(FD_CLOEXEC) succeed.        *)
SetUp(c) ==
    /\ img[c] = "forked"
    /\ img' = [img EXCEPT ![c] = "ready"]
    /\ holds' = [holds EXCEPT ![c] = @ \ {R(c)}]
    /\ UNCHANGED <<thr, sent, status, code, ran>>

(* A dup2 or the fcntl fails: goto fail.                                   *)
SetUpFails(c) ==
    /\ img[c] = "forked"
    /\ img' = [img EXCEPT ![c] = "failing"]
    /\ holds' = [holds EXCEPT ![c] = @ \ {R(c)}]
    /\ UNCHANGED <<thr, sent, status, code, ran>>

(* Mutant: FD_CLOEXEC is not set.                                          *)
Exec_Inherits(c) ==
    /\ img[c] = "ready"
    /\ img' = [img EXCEPT ![c] = "program"]
    /\ ran' = [ran EXCEPT ![c] = TRUE]
    /\ UNCHANGED <<thr, holds, sent, status, code>>

(* execvp succeeds.  Only the own write end is marked close-on-exec.       *)
Exec(c) ==
    /\ img[c] = "ready"
    /\ img' = [img EXCEPT ![c] = "program"]
    /\ holds' = [holds EXCEPT ![c] = @ \ {W(c)}]
    /\ ran' = [ran EXCEPT ![c] = TRUE]
    /\ UNCHANGED <<thr, sent, status, code>>

ExecFails(c) ==
    /\ img[c] = "ready"
    /\ img' = [img EXCEPT ![c] = "failing"]
    /\ UNCHANGED <<thr, holds, sent, status, code, ran>>

(* write(fail_pipe[1], &errno)                                             *)
Send(c) ==
    /\ img[c] = "failing"
    /\ img' = [img EXCEPT ![c] = "sent"]
    /\ sent' = [sent EXCEPT ![c] = TRUE]
    /\ UNCHANGED <<thr, holds, status, code, ran>>

(* A process ends, and the kernel closes what it held.                     *)
Terminate(c, s) ==
    /\ img' = [img EXCEPT ![c] = "exited"]
    /\ status' = [status EXCEPT ![c] = s]
    /\ holds' = [holds EXCEPT ![c] = {}]
    /\ UNCHANGED <<thr, sent, code, ran>>

(* _exit(-1) after the error has been sent                                 *)
Quit(c) ==
    /\ img[c] = "sent"
    /\ Terminate(c, <<"exit", FailExit>>)

ProgramExits(c, n) ==
    /\ img[c] = "program"
    /\ Terminate(c, <<"exit", n>>)

(* A signal kills the child, at any moment of its life.                    *)
SignalKills(c, n) ==
    /\ img[c] \in Setup \cup {"sent", "program"}
    /\ Terminate(c, <<"signal", n>>)

-----------------------------------------------------------------------------
(* Mutant: the status itself is returned, without WEXITSTATUS.             *)
Code_Raw(s) == IF SigchldIgnored THEN 0 ELSE IF s[1] = "exit" THEN 256 * s[2] ELSE s[2]

(* Mutant: a death by a signal falls through to the final return 0.        *)
Code_NoSignal(s) == IF s[1] = "exit" /\ ~SigchldIgnored THEN s[2] ELSE 0

(* The waiter's lambda: WEXITSTATUS, or -WTERMSIG, or 0 when waitpid fails *)
(* (ECHILD: with SIGCHLD ignored the kernel reaps the child by itself).    *)
Code(s) ==
    IF SigchldIgnored THEN 0
    ELSE IF s[1] = "exit" THEN s[2] ELSE -s[2]

Waitpid(c) ==
    /\ thr[c] = "returned"
    /\ img[c] = "exited"
    /\ img' = [img EXCEPT ![c] = "reaped"]
    /\ code' = [code EXCEPT ![c] = Code(status[c])]
    /\ UNCHANGED <<thr, holds, sent, status, ran>>

-----------------------------------------------------------------------------
Start(c) ==
    \/ Pipe(c) \/ PipeFails(c) \/ Fork(c) \/ ForkFails(c)
    \/ CloseWrite(c) \/ ReadCode(c) \/ ReadEof(c) \/ AsyncFails(c)

Child(c) ==
    \/ SetUp(c) \/ SetUpFails(c) \/ Exec(c) \/ ExecFails(c) \/ Send(c) \/ Quit(c)

Exit(c) == \E n \in ExitCodes : ProgramExits(c, n)

Kill(c) == \E n \in Signals : SignalKills(c, n)

Finished(c) ==
    \/ thr[c] \in {"nopipe", "nofork"}
    \/ thr[c] \in {"refused", Unwaited} /\ img[c] = "exited"
    \/ img[c] = "reaped"

Terminated == (\A c \in Cmd : Finished(c)) /\ UNCHANGED vars

Next ==
    \/ \E c \in Cmd : Start(c) \/ Child(c) \/ Exit(c) \/ Kill(c) \/ Waitpid(c)
    \/ Terminated

(* The scheduler runs every thread and every child of the host.  A program *)
(* that is running owes nothing to anybody: it need not exit.              *)
Fairness == \A c \in Cmd : WF_vars(Start(c)) /\ WF_vars(Child(c)) /\ WF_vars(Waitpid(c))

Spec == Init /\ [][Next]_vars /\ Fairness

(* The same, with programs that come to an end by themselves.              *)
ExitFairness == \A c \in Cmd : WF_vars(Exit(c))

FiniteSpec == Spec /\ ExitFairness
-----------------------------------------------------------------------------
(* The type of the exception tells.  A start_run that throws a stdc_error  *)
(* has not let the program run, and no later step of the forked child can: *)
(* the caller may treat the command as not run.  One that throws the       *)
(* std::system_error of std::async has run it, or lost it to a signal      *)
(* (ccsh_command_posix.cpp:92-96, 111).                                    *)
ThrowMeansNotRun ==
    \A c \in Cmd :
        /\ thr[c] \in Threw => ~ran[c]
        /\ thr[c] = Unwaited => ran[c] \/ status[c] \in Killed

(* A start_run that returns has either run the program or lost the child   *)
(* to a signal on the way: a failure to execute is never taken for a       *)
(* program (ccsh_command_posix.cpp:58-96, the end of file as a message).   *)
ReturnMeansProcess ==
    \A c \in Cmd : thr[c] = "returned" => ran[c] \/ status[c] \in Killed

(* The exit code 0, the one && goes by, is given for no command but one    *)
(* whose program was executed and passed 0 to exit, unless the host gave   *)
(* up the statuses of its children (ccsh_command_posix.cpp:98-109).        *)
ZeroMeansSuccess ==
    \A c \in Cmd :
        code[c] = 0 /\ ~SigchldIgnored => ran[c] /\ status[c] = <<"exit", 0>>

(* A finished start_run leaves neither end of its fail_pipe open in the    *)
(* host, whichever way it finished; a failed fork is the exception, where  *)
(* both stay open for good (ccsh_command_posix.cpp:50-56, 88-96).          *)
HostClean ==
    \A c \in Cmd :
        thr[c] \in {"returned", "refused", "nopipe", Unwaited} =>
            R(c) \notin holds[Host] /\ W(c) \notin holds[Host]

(* When one thread does all the starting, no process but the child itself  *)
(* and the host ever holds the write end a start_run is waiting on: a      *)
(* program that runs for ever cannot delay another command's start         *)
(* (ccsh_command_posix.cpp:51, a pipe that is inheritable until :77).      *)
NoStranger ==
    Serial => \A c, d \in Cmd : c # d /\ thr[c] \in Busy => W(c) \notin holds[d]

(* Every start_run that has begun comes to an end.  With a single starting *)
(* thread this needs nothing of the programs; with several threads it      *)
(* holds only if the programs end, for the reason above.                   *)
StartEnds == \A c \in Cmd : thr[c] = "piped" ~> thr[c] \notin Busy

(* With programs that end, every command's future becomes ready, or its    *)
(* start_run has thrown (ccsh_command.hpp:121-124).                        *)
ResultComes ==
    \A c \in Cmd : thr[c] = "piped" ~> (code[c] # None \/ thr[c] \in Threw \cup {Unwaited})

-----------------------------------------------------------------------------
(* The promise kept: Launch, with the caller's view of the protocol.       *)
callView ==
    [c \in Cmd |->
        IF thr[c] = "idle" THEN "new"
        ELSE IF thr[c] \in Busy THEN "starting"
        ELSE IF thr[c] \in Threw THEN "threw"
        ELSE IF thr[c] = Unwaited THEN "unwaited" ELSE "returned"]

procView ==
    [c \in Cmd |->
        IF img[c] = "program" THEN "running"
        ELSE IF img[c] \in {"exited", "reaped"} /\ ~sent[c] THEN "ended" ELSE "none"]

endedView == [c \in Cmd |-> IF procView[c] = "ended" THEN status[c] ELSE None]

L == INSTANCE Launch WITH
        call <- callView, proc <- procView, ended <- endedView, code <- code

(* Every behaviour of the protocol is one that Launch allows.              *)
ImplementsLaunch == L!Spec
=============================================================================
