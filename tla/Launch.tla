------------------------------- MODULE Launch -------------------------------
(***************************************************************************)
(* What command_native promises to the code that calls it, with no pipes,  *)
(* no processes and no descriptors: start_run throws a stdc_error, and     *)
(* then the program never runs; or it returns, and then the process is     *)
(* there and finish_run gives the status it ended with; or it throws       *)
(* another exception, and the process is there, but nobody waits for it.   *)
(*                                                                         *)
(* Native.tla is the protocol of lib/ccsh_command_posix.cpp:48-113 that    *)
(* implements it.                                                          *)
(***************************************************************************)
EXTENDS Integers

CONSTANTS
    Cmd,          \* the native commands of an expression
    Status,       \* the ways in which a process can end
    Killed,       \* the members of Status that are deaths by a signal
    Code(_),      \* the exit code finish_run gives for a status
    None          \* no status yet, no exit code yet

VARIABLES
    call,         \* call[c]: how far the start_run of c has come
    proc,         \* proc[c]: the process of c, as far as a caller can tell
    ended,        \* ended[c]: the status the process of c ended with, or None
    code          \* code[c]: what finish_run will return, or None

vars == <<call, proc, ended, code>>

Init ==
    /\ call = [c \in Cmd |-> "new"]
    /\ proc = [c \in Cmd |-> "none"]
    /\ ended = [c \in Cmd |-> None]
    /\ code = [c \in Cmd |-> None]

(* The caller enters start_run.                                            *)
Call(c) ==
    /\ call[c] = "new"
    /\ call' = [call EXCEPT ![c] = "starting"]
    /\ UNCHANGED <<proc, ended, code>>

(* The program is executed.                                                *)
Run(c) ==
    /\ call[c] = "starting"
    /\ proc[c] = "none"
    /\ proc' = [proc EXCEPT ![c] = "running"]
    /\ UNCHANGED <<call, ended, code>>

(* A signal kills the process before its program is executed.              *)
DieEarly(c, s) ==
    /\ call[c] = "starting"
    /\ proc[c] = "none"
    /\ s \in Killed
    /\ proc' = [proc EXCEPT ![c] = "ended"]
    /\ ended' = [ended EXCEPT ![c] = s]
    /\ UNCHANGED <<call, code>>

End(c, s) ==
    /\ proc[c] = "running"
    /\ proc' = [proc EXCEPT ![c] = "ended"]
    /\ ended' = [ended EXCEPT ![c] = s]
    /\ UNCHANGED <<call, code>>

(* start_run throws a stdc_error: only when no program runs.               *)
Throw(c) ==
    /\ call[c] \in {"new", "starting"}
    /\ proc[c] = "none"
    /\ call' = [call EXCEPT ![c] = "threw"]
    /\ UNCHANGED <<proc, ended, code>>

(* start_run returns, or throws the exception of std::async, which has no  *)
(* thread for the waiter: only when there is a process to wait for.        *)
Leave(c, how) ==
    /\ call[c] = "starting"
    /\ proc[c] # "none"
    /\ call' = [call EXCEPT ![c] = how]
    /\ UNCHANGED <<proc, ended, code>>

Return(c) == Leave(c, "returned")
Abandon(c) == Leave(c, "unwaited")

(* The exit code becomes known.                                            *)
Collect(c) ==
    /\ call[c] = "returned"
    /\ proc[c] = "ended"
    /\ code[c] = None
    /\ code' = [code EXCEPT ![c] = Code(ended[c])]
    /\ UNCHANGED <<call, proc, ended>>

Next ==
    \E c \in Cmd :
        \/ Call(c) \/ Run(c) \/ Throw(c) \/ Return(c) \/ Abandon(c) \/ Collect(c)
        \/ \E s \in Status : DieEarly(c, s) \/ End(c, s)

Spec == Init /\ [][Next]_vars
=============================================================================
