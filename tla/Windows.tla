------------------------------- MODULE Windows -------------------------------
(***************************************************************************)
(* Starting programs on Windows (lib/ccsh_command_windows.cpp): commands   *)
(* that threads of the host start, wait for and finish.  From Vista on a   *)
(* process is created with the list of the handles that it inherits, and   *)
(* every handle of the host may be inherited; on XP a process inherits all *)
(* the handles that are marked at that moment, and they are marked for it. *)
(* A sourced script sends its environment through a named pipe.            *)
(***************************************************************************)
EXTENDS CommandLine, FiniteSets

CONSTANTS
    Command,    \* the commands, each started by a thread of its own
    Std,        \* the standard handles of the host
    Invalid,    \* INVALID_HANDLE_VALUE
    None,
    Buffer,     \* the lines of SET that the named pipe's buffer holds
    Cases       \* what is run: a Windows since Vista or not [modern], one
                \* start_run at a time [serial], and for each command [cmds]
                \* its kind, arguments, streams [std], the file of a
                \* redirection of its output [file], the codes its program may
                \* exit with [exits], and what SET prints after it [lines]: each
                \* line sets a variable, is refused, or is no assignment ("bad")

ASSUME HandleAssumption ==
    /\ None # Invalid /\ {None, Invalid} \cap Std = {} /\ IsFiniteSet(Command)
    /\ Buffer \in Nat

(* Arguments are made of characters.                                       *)
ASSUME ArgumentAssumption == \A x \in Cases, t \in Command : x.cmds[t].argv \in Seq(Seq(STRING))

(* A handle of a redirection is a new one.                                 *)
ASSUME CasesAssumption ==
    \A x \in Cases :
        /\ {x.modern, x.serial} \subseteq BOOLEAN
        /\ \A t \in Command :
              /\ x.cmds[t].lines \in Seq({"ok", "refused", "bad"})
              /\ DOMAIN x.cmds[t].std = 1..3
              /\ \A i \in 1..3 : x.cmds[t].std[i] \notin {None, Invalid}
              /\ x.cmds[t].file = None
                 \/ \A u \in Command, i \in 1..3 :
                        x.cmds[t].file \notin Std \cup {Invalid, x.cmds[u].std[i]}

VARIABLES
    c,          \* the case (never changes)
    pc,         \* start_run and finish_run of each command
    list,       \* its attribute list: "none", "heap" or "init"
    marked,     \* how many inherit_helpers it has
    inherit,    \* the handles of the host that can be inherited
    opened,     \* the file of its redirection
    proc,       \* its process: state, handles, exit code
    kept,       \* the host has the handles of process and thread
    fut,        \* its waiter, and env_applier of a script
    pipe,       \* the named pipe of a script
    sent,       \* how many lines SET has written
    got,        \* how many of them env_applier has done with
    env         \* the lines that have changed the environment

vars == <<c, pc, list, marked, inherit, opened, proc, kept, fut, pipe, sent, got, env>>

Cmd(t) == c.cmds[t]
Lines(t) == Cmd(t).lines
Streams(t) == IF Cmd(t).file = None THEN Cmd(t).std ELSE [Cmd(t).std EXCEPT ![2] = opened[t]]
Handles == UNION {ToSet(Cmd(t).std) : t \in Command}
NoProcess == [st |-> "none", holds |-> {}, code |-> 0]

Init ==
    /\ c \in Cases
    /\ pc = [t \in Command |-> "idle"]
    /\ list = [t \in Command |-> "none"] /\ marked = [t \in Command |-> 0]
    /\ inherit = IF c.modern THEN Handles ELSE Std
    /\ opened = [t \in Command |-> None]
    /\ proc = [t \in Command |-> NoProcess] /\ kept = [t \in Command |-> FALSE]
    /\ fut = [t \in Command |-> [wait |-> "none", apply |-> "none"]]
    /\ pipe = [t \in Command |-> "none"]
    /\ sent = [t \in Command |-> 0] /\ got = [t \in Command |-> 0]
    /\ env = [t \in Command |-> {}]

Goes(t, to) == pc' = [pc EXCEPT ![t] = to]
Starting == {t \in Command : pc[t] \notin {"idle", "up", "threw", "gone", "done"}}
Internal == IF c.modern THEN "size" ELSE "mark"

-----------------------------------------------------------------------------
(* command_redirect and command_source prepare a start.  A file is opened  *)
(* for one handle at a time, and a failure is not looked at.  Nor is one   *)
(* of the named pipe's creation.                                           *)
CreatesPipe(t) ==
    \E h \in {"listening", "invalid"} :
        pipe' = IF Cmd(t).kind = "source" THEN [pipe EXCEPT ![t] = h] ELSE pipe

Open(t) ==
    LET f == Cmd(t).file
        shared == \E u \in Command \ {t} : opened[u] = f
    IN  /\ pc[t] = "idle" /\ f # None /\ (c.serial => Starting = {})
        /\ \E h \in {f, Invalid} :
            /\ shared => h = Invalid
            /\ opened' = [opened EXCEPT ![t] = h]
            /\ inherit' = IF c.modern /\ h = f THEN inherit \cup {f} ELSE inherit
        /\ Goes(t, Internal) /\ CreatesPipe(t)
        /\ UNCHANGED <<c, list, marked, proc, kept, fut, sent, got, env>>

Begin(t) ==
    /\ pc[t] = "idle" /\ Cmd(t).kind # "none" /\ Cmd(t).file = None /\ (c.serial => Starting = {})
    /\ Goes(t, Internal) /\ CreatesPipe(t)
    /\ UNCHANGED <<c, list, marked, inherit, opened, proc, kept, fut, sent, got, env>>

-----------------------------------------------------------------------------
(* CreateProcessWithExplicitHandlesW: the size of the list, its memory,    *)
(* its initialisation and its contents; each may fail.                     *)
ListStep(t) ==
    /\ \E step \in {<<"size", "alloc", "none">>, <<"alloc", "init", "heap">>,
                    <<"init", "update", "init">>, <<"update", "create", "init">>} :
        /\ pc[t] = step[1]
        /\ \/ Goes(t, step[2]) /\ list' = [list EXCEPT ![t] = step[3]]
           \/ Goes(t, "clean") /\ UNCHANGED list
    /\ UNCHANGED <<c, marked, inherit, opened, proc, kept, fut, pipe, sent, got, env>>

(* Mutant: the list is left behind by a failure.                           *)
Clean_Success(t) ==
    /\ pc[t] = "clean"
    /\ list' = IF proc[t].st # "none" THEN [list EXCEPT ![t] = "none"] ELSE list
    /\ Goes(t, IF proc[t].st = "none" THEN "threw" ELSE "started")
    /\ UNCHANGED <<c, marked, inherit, opened, proc, kept, fut, pipe, sent, got, env>>

Clean(t) ==
    /\ pc[t] = "clean"
    /\ list' = [list EXCEPT ![t] = "none"]
    /\ Goes(t, IF proc[t].st = "none" THEN "threw" ELSE "started")
    /\ UNCHANGED <<c, marked, inherit, opened, proc, kept, fut, pipe, sent, got, env>>

(* The three inherit_helpers, and their destructors, the last one first.   *)
Mark(t) ==
    LET h == Streams(t)[marked[t] + 1]
    IN  /\ pc[t] = "mark"
        /\ \/ /\ h # Invalid
              /\ inherit' = inherit \cup {h}
              /\ marked' = [marked EXCEPT ![t] = @ + 1]
              /\ Goes(t, IF marked[t] = 2 THEN "create" ELSE "mark")
           \/ Goes(t, "unmark") /\ UNCHANGED <<inherit, marked>>
        /\ UNCHANGED <<c, list, opened, proc, kept, fut, pipe, sent, got, env>>

Unmark(t) ==
    /\ pc[t] = "unmark"
    /\ IF marked[t] = 0
       THEN Goes(t, IF proc[t].st = "none" THEN "threw" ELSE "started") /\ UNCHANGED <<inherit, marked>>
       ELSE /\ inherit' = inherit \ {Streams(t)[marked[t]]}
            /\ marked' = [marked EXCEPT ![t] = @ - 1] /\ UNCHANGED pc
    /\ UNCHANGED <<c, list, opened, proc, kept, fut, pipe, sent, got, env>>

-----------------------------------------------------------------------------
(* CreateProcessW, the arguments that its program receives, and what       *)
(* start_run_internal does with the process.                               *)
Received(t) ==
    CASE Cmd(t).kind = "native" -> Parsed(convert_argv(Cmd(t).argv))
      [] Cmd(t).kind = "shell" -> CmdRuns(ShellLine(Cmd(t).argv))
      [] OTHER -> Cmd(t).argv

(* Mutant: a process is created as on XP.                                  *)
Inherited_All(t) == inherit

Inherited(t) == IF c.modern THEN ToSet(Streams(t)) ELSE inherit

Create(t) ==
    /\ pc[t] = "create"
    /\ Goes(t, IF c.modern THEN "clean" ELSE "unmark")
    /\ \/ /\ Invalid \notin ToSet(Streams(t)) /\ (c.modern => ToSet(Streams(t)) \subseteq inherit)
          /\ proc' = [proc EXCEPT ![t] = [st |-> "run", holds |-> Inherited(t), code |-> 0]]
          /\ kept' = [kept EXCEPT ![t] = TRUE]
       \/ UNCHANGED <<proc, kept>>
    /\ UNCHANGED <<c, list, marked, inherit, opened, fut, pipe, sent, got, env>>

(* Neither thread may come to be: without a waiter the handles are closed, *)
(* and a waiter that is there already goes on without env_applier.         *)
Started(t) ==
    LET source == Cmd(t).kind = "source"
        Waits(apply) == fut' = [fut EXCEPT ![t] = [wait |-> "wait", apply |-> apply]]
    IN  /\ pc[t] = "started"
        /\ \/ Goes(t, "up") /\ Waits(IF source THEN "connect" ELSE "done") /\ UNCHANGED kept
           \/ Goes(t, "threw") /\ kept' = [kept EXCEPT ![t] = FALSE] /\ UNCHANGED fut
           \/ source /\ Goes(t, "threw") /\ Waits("none") /\ UNCHANGED kept
        /\ UNCHANGED <<c, list, marked, inherit, opened, proc, pipe, sent, got, env>>

Exits(t, code) == proc' = [proc EXCEPT ![t].st = "exited", ![t].code = code]

ProgramEnds(t) ==
    /\ proc[t].st = "run"
    /\ \E code \in Cmd(t).exits :
        IF Cmd(t).kind = "source" /\ code = 0
        THEN proc' = [proc EXCEPT ![t].st = "set"]
        ELSE Exits(t, code)
    /\ UNCHANGED <<c, pc, list, marked, inherit, opened, kept, fut, pipe, sent, got, env>>

(* wait_helper.                                                            *)
Wait(t) ==
    /\ fut[t].wait = "wait" /\ proc[t].st = "exited"
    /\ fut' = [fut EXCEPT ![t].wait = "done"]
    /\ UNCHANGED <<c, pc, list, marked, inherit, opened, proc, kept, pipe, sent, got, env>>

(* finish_run: for a script env_applier's future is waited for first, and  *)
(* what it has thrown is not asked for.                                    *)
Finish(t) ==
    /\ pc[t] = "up" /\ fut[t].wait = "done" /\ fut[t].apply \in {"done", "cut"}
    /\ Goes(t, "done")
    /\ kept' = [kept EXCEPT ![t] = FALSE]
    /\ opened' = [opened EXCEPT ![t] = None]
    /\ inherit' = inherit \ {opened[t]}
    /\ UNCHANGED <<c, list, marked, proc, fut, pipe, sent, got, env>>

(* A command that could not be started is destroyed: a waiter is waited    *)
(* for.                                                                    *)
Destroy(t) ==
    /\ pc[t] = "threw" /\ fut[t].wait \in {"none", "done"}
    /\ Goes(t, "gone")
    /\ kept' = [kept EXCEPT ![t] = FALSE]
    /\ opened' = [opened EXCEPT ![t] = None] /\ inherit' = inherit \ {opened[t]}
    /\ UNCHANGED <<c, list, marked, proc, fut, pipe, sent, got, env>>

-----------------------------------------------------------------------------
(* SET >pipe, in the shell: it connects, writes and ends.                  *)
SetConnects(t) ==
    /\ proc[t].st = "set" /\ pipe[t] \in {"listening", "waiting", "invalid"}
    /\ IF pipe[t] = "invalid" THEN Exits(t, 1) /\ UNCHANGED pipe
       ELSE /\ pipe' = [pipe EXCEPT ![t] = IF pipe[t] = "waiting" THEN "connected" ELSE "early"]
            /\ proc' = [proc EXCEPT ![t].st = "writes"]
    /\ UNCHANGED <<c, pc, list, marked, inherit, opened, kept, fut, sent, got, env>>

(* It is held up while the buffer is full, and fails when nobody reads any *)
(* more.                                                                   *)
SetWrites(t) ==
    /\ proc[t].st = "writes"
    /\ \/ /\ sent[t] < Len(Lines(t)) /\ pipe[t] # "broken" /\ sent[t] - got[t] < Buffer
          /\ sent' = [sent EXCEPT ![t] = @ + 1] /\ UNCHANGED proc
       \/ sent[t] < Len(Lines(t)) /\ pipe[t] = "broken" /\ Exits(t, 1) /\ UNCHANGED sent
       \/ sent[t] = Len(Lines(t)) /\ Exits(t, 0) /\ UNCHANGED sent
    /\ UNCHANGED <<c, pc, list, marked, inherit, opened, kept, fut, pipe, got, env>>

(* Mutant: a ConnectNamedPipe that fails is tried again.                   *)
Connect_Again(t) ==
    /\ fut[t].apply = "connect"
    /\ IF pipe[t] = "listening" THEN pipe' = [pipe EXCEPT ![t] = "waiting"] /\ UNCHANGED fut
       ELSE /\ pipe[t] = "connected"
            /\ fut' = [fut EXCEPT ![t].apply = "read"] /\ UNCHANGED pipe
    /\ UNCHANGED <<c, pc, list, marked, inherit, opened, proc, kept, sent, got, env>>

(* env_applier: ConnectNamedPipe, which fails if SET was earlier; ...      *)
Connect(t) ==
    /\ fut[t].apply = "connect"
    /\ \/ /\ pipe[t] = "listening"
          /\ pipe' = [pipe EXCEPT ![t] = "waiting"] /\ UNCHANGED fut
       \/ /\ pipe[t] = "connected"
          /\ fut' = [fut EXCEPT ![t].apply = "read"] /\ UNCHANGED pipe
       \/ /\ pipe[t] \notin {"listening", "waiting", "connected"}
          /\ fut' = [fut EXCEPT ![t].apply = "done"] /\ UNCHANGED pipe
    /\ UNCHANGED <<c, pc, list, marked, inherit, opened, proc, kept, sent, got, env>>

(* env_putter; a variable that cannot be set is not looked at.             *)
Puts(t) ==
    LET i == got[t] + 1
    IN  /\ i <= sent[t] /\ Lines(t)[i] # "bad"
        /\ got' = [got EXCEPT ![t] = i]
        /\ env' = IF Lines(t)[i] = "ok" THEN [env EXCEPT ![t] = @ \cup {i}] ELSE env

(* DisconnectNamedPipe, on either way out.                                 *)
Disconnects(t, why) ==
    pipe' = [pipe EXCEPT ![t] = "broken"] /\ fut' = [fut EXCEPT ![t].apply = why]

(* Mutant: the pipe is read once.                                          *)
Apply_Once(t) ==
    /\ fut[t].apply = "read"
    /\ Disconnects(t, "done")
    /\ Puts(t) \/ (got[t] = sent[t] /\ proc[t].st = "exited" /\ UNCHANGED <<got, env>>)
    /\ UNCHANGED <<c, pc, list, marked, inherit, opened, proc, kept, sent>>

(* ... what SET has written, until env_putter throws at a line without =,  *)
(* SET has ended, which ReadFile reports by failing, or ReadFile fails for *)
(* another reason.                                                         *)
Apply(t) ==
    /\ fut[t].apply = "read"
    /\ \/ Puts(t) /\ UNCHANGED <<pipe, fut>>
       \/ /\ got[t] < sent[t] /\ Lines(t)[got[t] + 1] = "bad"
          /\ Disconnects(t, "done") /\ UNCHANGED <<got, env>>
       \/ got[t] = sent[t] /\ proc[t].st = "exited" /\ Disconnects(t, "done") /\ UNCHANGED <<got, env>>
       \/ Disconnects(t, "cut") /\ UNCHANGED <<got, env>>
    /\ UNCHANGED <<c, pc, list, marked, inherit, opened, proc, kept, sent>>

-----------------------------------------------------------------------------
StartRun(t) ==
    \/ Open(t) \/ Begin(t) \/ ListStep(t) \/ Mark(t) \/ Create(t) \/ Clean(t) \/ Unmark(t) \/ Started(t)
Host(t) == Wait(t) \/ Finish(t) \/ Destroy(t) \/ Connect(t) \/ Apply(t)
Program(t) == ProgramEnds(t) \/ SetConnects(t) \/ SetWrites(t)

Next == \E t \in Command : StartRun(t) \/ Host(t) \/ Program(t)

(* Threads run, and programs end.                                          *)
Spec ==
    /\ Init /\ [][Next]_vars
    /\ \A t \in Command : WF_vars(StartRun(t)) /\ WF_vars(Host(t)) /\ WF_vars(Program(t))

-----------------------------------------------------------------------------
(* What command_shell can pass on to cmd.exe.  An argument without a blank *)
(* is given to it as it is, because its own commands know no quotes        *)
(* (ccsh_command_windows.cpp:368-379): it must not be empty, nor have      *)
(* anything that cmd.exe reads.  The others are quoted, which cmd.exe      *)
(* respects if none of them has a quote of its own; % and line breaks are  *)
(* read in any place.                                                      *)
ForCmd(argv) ==
    /\ \A i \in DOMAIN argv :
        /\ ToSet(argv[i]) \cap Anywhere = {}
        /\ Space \in ToSet(argv[i])
           \/ (argv[i] # << >> /\ ToSet(argv[i]) \cap (Special \cup {Quote, Tab}) = {})
    /\ \A i, j \in DOMAIN argv : Quote \in ToSet(argv[i]) => ToSet(argv[j]) \cap Special = {}

(* A program finds the arguments that the command was given, whatever      *)
(* blanks, quotes and backslashes there are in them; through cmd.exe only  *)
(* what ForCmd allows (ccsh_command_windows.cpp:65-105, 362-382).          *)
ArgsArrive ==
    \A t \in Command :
        proc[t].st = "run" /\ (Cmd(t).kind = "shell" => ForCmd(Cmd(t).argv)) => Received(t) = Cmd(t).argv

(* The streams that a command is given.                                    *)
Given(t) == IF Cmd(t).file = None THEN Cmd(t).std ELSE [Cmd(t).std EXCEPT ![2] = Cmd(t).file]

(* A program inherits the three streams that it is given and, apart from   *)
(* the host's own standard handles, nothing else: no end of a pipe that    *)
(* another command waits for.  On XP that is so if one is started at a     *)
(* time (ccsh_command_windows.cpp:107-192, 222-233).                       *)
InheritsExactly ==
    \A t \in Command :
        (c.modern \/ c.serial) /\ proc[t].st = "run" =>
            /\ ToSet(Given(t)) \subseteq proc[t].holds
            /\ proc[t].holds \subseteq ToSet(Given(t)) \cup Std

(* When start_run has thrown or returned, the attribute list is freed and  *)
(* no handle is marked for a start; when finish_run has returned or the    *)
(* command that threw is gone, the handles of process, thread and file are *)
(* closed (ccsh_command_windows.cpp:170-171, 185-191, 235-239,             *)
(* ccsh_command.hpp:413-432).  The named pipe of a script is not among     *)
(* them: nothing closes it (348-359).                                      *)
HostClean ==
    \A t \in Command :
        /\ pc[t] \in {"up", "threw", "gone", "done"} => list[t] = "none" /\ marked[t] = 0
        /\ pc[t] = "threw" /\ fut[t].wait = "none" => ~kept[t]
        /\ pc[t] \in {"gone", "done"} => ~kept[t] /\ opened[t] = None
        /\ (Starting = {} /\ ~c.modern) => inherit \subseteq Std

(* The lines that a script's environment can set: up to the first that is  *)
(* no assignment, the others that setting does not refuse.                 *)
Settable(t) ==
    {i \in DOMAIN Lines(t) : Lines(t)[i] = "ok" /\ \A j \in 1..i : Lines(t)[j] # "bad"}

(* A script changes nothing, or every variable that it can up to the first *)
(* line that is no assignment; only a failing ReadFile cuts this short,    *)
(* and then what has been set is a beginning of it                         *)
(* (ccsh_command_windows.cpp:295, 299-332, ccsh_command.hpp:455-459).      *)
AppliesInFull ==
    \A t \in Command :
        pc[t] = "done" =>
            \/ env[t] \in {{}, Settable(t)}
            \/ fut[t].apply = "cut" /\ env[t] = {i \in Settable(t) : i <= got[t]}

(* The two ways in which finish_run waits for ever: SET came before        *)
(* ConnectNamedPipe, which gave up, and has more to write than the pipe    *)
(* holds; or the script has ended without SET, and ConnectNamedPipe waits  *)
(* for it (ccsh_command_windows.cpp:295, 313-314, 348-355).                *)
Stuck(t) ==
    \/ pipe[t] = "early" /\ proc[t].st = "writes" /\ Len(Lines(t)) > Buffer
    \/ pipe[t] = "waiting" /\ proc[t].st = "exited"

(* A command that was started is finished, whenever SET comes to the pipe, *)
(* or is stuck in one of these two ways                                    *)
(* (ccsh_command_windows.cpp:311-332, ccsh_command.hpp:455-459).           *)
FinishEnds == \A t \in Command : pc[t] = "up" ~> pc[t] = "done" \/ Stuck(t)
=============================================================================
