---------------------------- MODULE CommandTree -----------------------------
(***************************************************************************)
(* Running a command expression: the classes of                            *)
(* include/ccsh/ccsh_command.hpp composed into a tree, run() on its root   *)
(* and the destruction of the tree afterwards.                             *)
(*                                                                         *)
(* start_run and finish_run recurse over the tree; pc[n] is where these    *)
(* calls have come in node n.  Threads are not named: the main thread      *)
(* walks from the root, and each async task (the waiter of a program, the  *)
(* pump of a mapping, the body of a function, the thread of a && || or ,)  *)
(* is job[n] of its node, the last kind walking the subtree on its right.  *)
(*                                                                         *)
(* Descriptors are numbers of the host's table.  Wrappers keep numbers,    *)
(* start_run passes numbers on, and what a number means when it is used    *)
(* depends on what has been opened and closed since.  Programs get a copy  *)
(* of the table when they are forked, less the numbers in unused_fds.      *)
(*                                                                         *)
(* Starting a program is one step, as Launch allows and Native.tla shows:  *)
(* it throws and no program runs, or it returns and the program runs.  The *)
(* third way, std::async failing for want of a thread when the program     *)
(* runs already, is left to Native.tla.                                    *)
(***************************************************************************)
EXTENDS Integers, Sequences, FiniteSetsExt

CONSTANTS
    Cases,      \* pairs: an expression, as a sequence of nodes, the root
                \* first and every operand after its operator, of which some
                \* are [bad] (missing, not to be opened, throwing) or cannot
                \* be forked [nofork]; and how many descriptors the host may
                \* have (RLIMIT_NOFILE)
    PipeCap     \* how many items a pipe holds

ASSUME PipeCapAssumption == PipeCap \in Nat \ {0}
ASSUME CasesAssumption ==
    \A x \in Cases :
        /\ \A n \in DOMAIN x[1] : \A m \in {x[1][n].l, x[1][n].r} :
                m = 0 \/ m \in (n + 1)..Len(x[1])
        /\ x[2] \in Nat /\ x[2] >= 3

(* No command is the operand of two operators, or of one twice.            *)
ASSUME NothingShared ==
    \A x \in Cases : \A n \in DOMAIN x[1] :
        /\ n \in 1..Len(x[1]) /\ Len(x[1]) \in Nat
        /\ x[1][n].r # 0 => x[1][n].l # x[1][n].r
        /\ \A m \in DOMAIN x[1] \ {n} :
                {x[1][n].l, x[1][n].r} \cap {x[1][m].l, x[1][m].r} \subseteq {0}

Root == 1
Maps == {"inmap", "outmap", "errmap"}
Redirects == {"inred", "outred", "errred"}
Conditionals == {"and", "or", "comma"}
Leaves == {"native", "function", "builtin"}

(* Every class of commands has its number of operands.                     *)
ASSUME OperandsAssumption ==
    \A x \in Cases : \A n \in DOMAIN x[1] :
        /\ x[1][n].op \in {"pipe", "bool"} \cup Maps \cup Redirects \cup Conditionals \cup Leaves
        /\ x[1][n].l = 0 <=> x[1][n].op \in {"bool"} \cup Leaves
        /\ x[1][n].r = 0 <=> x[1][n].op \notin {"pipe"} \cup Conditionals

(* The nodes are one expression, numbered as it reads: all of the left     *)
(* operand comes before the right one.                                     *)
ASSUME PreorderAssumption ==
    \A x \in Cases :
        /\ DOMAIN x[1] = 1..Len(x[1]) /\ Root \in DOMAIN x[1]
        /\ \A n \in DOMAIN x[1] \ {Root} : \E m \in DOMAIN x[1] : n \in {x[1][m].l, x[1][m].r}
        /\ \A n \in DOMAIN x[1] : \A k \in n..(x[1][n].r - 1) :
                x[1][k].l < x[1][n].r /\ (k # n => x[1][k].r < x[1][n].r)

(* Mutant: stderr is forgotten.                                            *)
Desc_NoErr(op) == IF op \in {"inmap", "inred"} THEN "in" ELSE "out"

(* Which of stdin, stdout and stderr a mapping or a redirection replaces.  *)
Desc(op) ==
    IF op \in {"inmap", "inred"} THEN "in" ELSE IF op \in {"outmap", "outred"} THEN "out" ELSE "err"

StdFd == [in |-> 0, out |-> 1, err |-> 2]
Streams == DOMAIN StdFd

(* Open files: the ends of the pipe node n makes (of its fail_pipe if it   *)
(* is a program), the file n opens, and the three the host came with.  0   *)
(* stands for no node.                                                     *)
PipeR(n) == <<n, "r">>
PipeW(n) == <<n, "w">>
OpenFile(n) == <<n, "f">>
Closed == <<0, "closed">>
Tty(k) == <<0, k>>

VARIABLES
    tree,     \* tree[n]: the command at node n (never changes)
    limit,    \* number of descriptors the host may open (never changes)
    pc,       \* pc[n]: how far start_run, finish_run and destruction are
    arg,      \* arg[n]: std: the numbers start_run got, unused: unused_fds
    val,      \* val[n]: what finish_run returns, or a program's exit code
    job,      \* job[n]: the async task, or the program, of node n
    work,     \* work[n]: what a leaf or a pump still has to do
    std,      \* std[n]: the files a program has as stdin, stdout and stderr
    keeps,    \* keeps[n]: every file open in the program of n
    zombies,  \* the nodes whose child has ended and nobody waits for
    fdt,      \* fdt[fd]: the file the host has at fd, or Closed
    own,      \* own[n][s]: the number in wrapper s of node n, or -1
    buf,      \* buf[n]: items in the pipe n has made
    wrote,    \* wrote[n]: items ever written into that pipe (history)
    got,      \* got[n]: items in the string or vector a mapping fills
    host,     \* the program that calls run() on the root
    last      \* command::last_exit_code()

vars == <<tree, limit, pc, arg, val, job, work, std, keeps, zombies, fdt, own,
          buf, wrote, got, host, last>>

fixed == <<tree, limit>>
table == <<fdt, own>>
programs == <<std, keeps, zombies>>
data == <<buf, wrote, got>>
rest == <<fixed, data, host, last>>

Node == DOMAIN tree
Op(n) == tree[n].op
L(n) == tree[n].l
R(n) == tree[n].r

Fd == 0..(limit - 1)
Slots == {"p0", "p1", "fd"} \cup Streams
Inherited ==
    [fd \in Fd |-> IF fd \in 0..2 THEN Tty(CHOOSE k \in Streams : StdFd[k] = fd) ELSE Closed]
NoSlots == [s \in Slots |-> -1]

Init ==
    /\ \E x \in Cases : tree = x[1] /\ limit = x[2]
    /\ pc = [n \in Node |-> IF n = Root THEN "start" ELSE "idle"]
    /\ arg = [n \in Node |-> [std |-> StdFd, unused |-> {}]]
    /\ val = [n \in Node |-> 0]
    /\ job = [n \in Node |-> "none"]
    /\ work = [n \in Node |-> [todo |-> 0, err |-> 0, pend |-> 0, eof |-> TRUE]]
    /\ std = [n \in Node |-> [k \in Streams |-> Closed]]
    /\ keeps = [n \in Node |-> {}]
    /\ zombies = {}
    /\ fdt = Inherited
    /\ own = [n \in Node |-> NoSlots]
    /\ buf = [n \in Node |-> 0]
    /\ wrote = [n \in Node |-> 0]
    /\ got = [n \in Node |-> 1]
    /\ host = "running"
    /\ last = 0

-----------------------------------------------------------------------------
(* Descriptors.                                                            *)

(* The kernel hands out the lowest free numbers.                           *)
Free == {fd \in Fd : fdt[fd] = Closed}
Free1 == Min(Free)
Free2 == Min(Free \ {Free1})
Free3 == Min(Free \ {Free1, Free2})
CanOpen(k) == Cardinality(Free) >= k

(* File f is open in the host or in a program.                             *)
Held(f) ==
    \/ \E fd \in Fd : fdt[fd] = f
    \/ \E m \in Node : f \in keeps[m]

(* pipe_compat: both ends of a new pipe, in wrappers p0 and p1 of n.       *)
OpenPipe(n) ==
    /\ fdt' = [fdt EXCEPT ![Free1] = PipeR(n), ![Free2] = PipeW(n)]
    /\ own' = [own EXCEPT ![n]["p0"] = Free1, ![n]["p1"] = Free2]

(* The destructors of wrappers S of node n.                                *)
Close(n, S) ==
    /\ fdt' = [fd \in Fd |->
                IF \E s \in S : own[n][s] = fd /\ fd \notin 0..2 THEN Closed ELSE fdt[fd]]
    /\ own' = [own EXCEPT ![n] = [s \in Slots |-> IF s \in S THEN -1 ELSE @[s]]]

(* The control of n moves to q, and its operand m is called.               *)
Goto(n, q) == pc' = [pc EXCEPT ![n] = q]
Call(n, q, m, call) == pc' = [pc EXCEPT ![n] = q, ![m] = call]

(* n calls start_run of its operand m.                                     *)
StartOperand(n, q, m, fds, unused) ==
    /\ Call(n, q, m, "start")
    /\ arg' = [arg EXCEPT ![m] = [std |-> fds, unused |-> unused]]

-----------------------------------------------------------------------------
(* start_run of the leaves.                                                *)

Work(n) == [todo |-> tree[n].out, err |-> tree[n].err, pend |-> 0, eof |-> ~tree[n].reads]

StartBool(n) ==
    /\ pc[n] = "start" /\ Op(n) = "bool"
    /\ Goto(n, "up")
    /\ UNCHANGED <<rest, arg, val, job, work, programs, table>>

(* runx, called inside start_run: the leaf runs and then n is up.          *)
StartBuiltin(n) ==
    /\ pc[n] = "start" /\ Op(n) = "builtin"
    /\ Goto(n, "runx")
    /\ job' = [job EXCEPT ![n] = "run"]
    /\ work' = [work EXCEPT ![n] = Work(n)]
    /\ UNCHANGED <<rest, arg, val, programs, table>>

(* The three fcntl(F_DUPFD_CLOEXEC), and the thread that runs the function *)
CanDup(n) == CanOpen(3) /\ \A k \in Streams : fdt[arg[n].std[k]] # Closed

StartFunction(n) ==
    /\ pc[n] = "start" /\ Op(n) = "function" /\ CanDup(n)
    /\ Goto(n, "up")
    /\ LET dup == [in |-> Free1, out |-> Free2, err |-> Free3]
       IN  /\ fdt' = [fd \in Fd |->
                        IF \E k \in Streams : dup[k] = fd
                        THEN fdt[arg[n].std[CHOOSE k \in Streams : dup[k] = fd]] ELSE fdt[fd]]
           /\ own' = [own EXCEPT ![n] = [s \in Slots |-> IF s \in Streams THEN dup[s] ELSE @[s]]]
    /\ job' = [job EXCEPT ![n] = "run"]
    /\ work' = [work EXCEPT ![n] = Work(n)]
    /\ UNCHANGED <<rest, arg, val, programs>>

StartFunctionThrows(n) ==
    /\ pc[n] = "start" /\ Op(n) = "function" /\ ~CanDup(n)
    /\ Goto(n, "threw")
    /\ UNCHANGED <<rest, arg, val, job, work, programs, table>>

(* The table of the forked child: unused_fds closed, then the dup2s in     *)
(* order, each skipped when the number is the standard one already.        *)
ChildTable(n) ==
    LET fds == arg[n].std
        t == [fd \in Fd |-> IF fd \in arg[n].unused THEN Closed ELSE fdt[fd]]
        t0 == [t EXCEPT ![0] = t[fds.in]]
        t1 == [t0 EXCEPT ![1] = t0[fds.out]]
    IN  [t1 EXCEPT ![2] = t1[fds.err]]

(* What execvp does not leave open: the duplicates made for functions.     *)
CloseOnExec(fd) == \E m \in Node, k \in Streams : own[m][k] = fd

(* start_run takes two descriptors for its fail_pipe, to give them back.   *)
CanFork(n) == CanOpen(2) /\ ~tree[n].nofork
CanExec(n) == ~tree[n].bad /\ \A fd \in 0..2 : ChildTable(n)[fd] # Closed
CanSpawn(n) == CanFork(n) /\ CanExec(n)

StartNative(n) ==
    /\ pc[n] = "start" /\ Op(n) = "native" /\ CanSpawn(n)
    /\ Goto(n, "up")
    /\ job' = [job EXCEPT ![n] = "run"]
    /\ work' = [work EXCEPT ![n] = Work(n)]
    /\ std' = [std EXCEPT ![n] = [k \in Streams |-> ChildTable(n)[StdFd[k]]]]
    /\ keeps' = [keeps EXCEPT ![n] =
                    {ChildTable(n)[fd] : fd \in {x \in Fd : ~CloseOnExec(x)}} \ {Closed}]
    /\ UNCHANGED <<rest, arg, val, table, zombies>>

(* There is no pipe; or the child sends its errno and ends, and nobody     *)
(* waits for it.                                                           *)
StartNativeThrows(n) ==
    /\ pc[n] = "start" /\ Op(n) = "native"
    /\ \/ ~CanOpen(2) /\ UNCHANGED zombies
       \/ CanFork(n) /\ ~CanExec(n) /\ zombies' = zombies \cup {n}
    /\ Goto(n, "threw")
    /\ UNCHANGED <<rest, arg, val, job, work, std, keeps, table>>

(* fork() fails, and no wrapper has the ends of the fail_pipe.             *)
ForkFails(n) ==
    /\ pc[n] = "start" /\ Op(n) = "native" /\ CanOpen(2) /\ tree[n].nofork
    /\ Goto(n, "threw")
    /\ fdt' = [fdt EXCEPT ![Free1] = PipeR(n), ![Free2] = PipeW(n)]
    /\ UNCHANGED <<rest, arg, val, job, work, programs, own>>

StartLeaf(n) ==
    \/ StartBool(n) \/ StartBuiltin(n)
    \/ StartFunction(n) \/ StartFunctionThrows(n)
    \/ StartNative(n) \/ StartNativeThrows(n) \/ ForkFails(n)
-----------------------------------------------------------------------------
(* start_run of the commands with operands.                                *)

(* command_pipe: both operands get their own copy of the unused numbers.   *)
StartPipe(n) ==
    /\ pc[n] = "start" /\ Op(n) = "pipe" /\ CanOpen(2)
    /\ OpenPipe(n)
    /\ StartOperand(n, "left", L(n),
            [arg[n].std EXCEPT !.out = Free2], arg[n].unused \cup {Free1})
    /\ UNCHANGED <<rest, val, job, work, programs>>

(* Mutant: the right operand is not told of the end it must close.         *)
StartRightOfPipe_Keeps(n) ==
    /\ pc[n] = "left" /\ Op(n) = "pipe" /\ pc[L(n)] = "up"
    /\ StartOperand(n, "right", R(n), [arg[n].std EXCEPT !.in = own[n].p0], arg[n].unused)
    /\ UNCHANGED <<rest, val, job, work, programs, table>>

(* Mutant: both operands are started before anything is thrown.            *)
StartRightOfPipe_Always(n) ==
    /\ pc[n] = "left" /\ Op(n) = "pipe" /\ pc[L(n)] \in {"up", "threw"}
    /\ StartOperand(n, "right", R(n),
            [arg[n].std EXCEPT !.in = own[n].p0], arg[n].unused \cup {own[n].p1})
    /\ UNCHANGED <<rest, val, job, work, programs, table>>

StartRightOfPipe(n) ==
    /\ pc[n] = "left" /\ Op(n) = "pipe" /\ pc[L(n)] = "up"
    /\ StartOperand(n, "right", R(n),
            [arg[n].std EXCEPT !.in = own[n].p0], arg[n].unused \cup {own[n].p1})
    /\ UNCHANGED <<rest, val, job, work, programs, table>>

(* The array of wrappers goes out of scope, when start_run returns ...     *)
PipeUp(n) ==
    /\ pc[n] = "right" /\ Op(n) = "pipe" /\ pc[R(n)] = "up"
    /\ Close(n, {"p0", "p1"})
    /\ Goto(n, "up")
    /\ UNCHANGED <<rest, arg, val, job, work, programs>>

(* Mutant: bare descriptors, not closed when an operand throws.            *)
PipeThrows_Leak(n) ==
    /\ Op(n) = "pipe"
    /\ \/ pc[n] = "start" /\ ~CanOpen(2)
       \/ pc[n] = "left" /\ pc[L(n)] = "threw"
       \/ pc[n] = "right" /\ pc[R(n)] = "threw"
    /\ Goto(n, "threw")
    /\ UNCHANGED <<rest, arg, val, job, work, programs, table>>

(* ... and when one of its operands throws, or no pipe can be made.        *)
PipeThrows(n) ==
    /\ Op(n) = "pipe"
    /\ \/ pc[n] = "start" /\ ~CanOpen(2)
       \/ pc[n] = "left" /\ pc[L(n)] = "threw"
       \/ pc[n] = "right" /\ pc[R(n)] = "threw"
    /\ Close(n, {"p0", "p1"})
    /\ Goto(n, "threw")
    /\ UNCHANGED <<rest, arg, val, job, work, programs>>

(* The mappings: init_func empties the target of > and >=; the operand     *)
(* gets one end of a pipe and must not keep the other.                     *)
InitFunc(n) ==
    got' = IF Op(n) # "inmap" /\ ~tree[n].append THEN [got EXCEPT ![n] = 0] ELSE got

StartMapping(n) ==
    /\ pc[n] = "start" /\ Op(n) \in Maps /\ CanOpen(2)
    /\ InitFunc(n)
    /\ OpenPipe(n)
    /\ LET theirs == IF Op(n) = "inmap" THEN Free1 ELSE Free2
           ours == IF Op(n) = "inmap" THEN Free2 ELSE Free1
       IN  StartOperand(n, "left", L(n),
                [arg[n].std EXCEPT ![Desc(Op(n))] = theirs], arg[n].unused \cup {ours})
    /\ UNCHANGED <<fixed, buf, wrote, host, last, val, job, work, programs>>

(* Mutant: close_compat(pipefd[1].get()) for close_compat(.release()).     *)
StartPump_Get(n) ==
    /\ pc[n] = "left" /\ Op(n) \in Maps /\ pc[L(n)] = "up"
    /\ job' = [job EXCEPT ![n] = "run"]
    /\ work' = [work EXCEPT ![n].todo = tree[n].out]
    /\ IF Op(n) = "inmap"
       THEN Goto(n, "tail") /\ UNCHANGED fdt
       ELSE Goto(n, "up") /\ fdt' = [fdt EXCEPT ![own[n].p1] = Closed]
    /\ UNCHANGED <<rest, own, arg, val, programs>>

(* The operand runs: the pump is started, with our end of the pipe.  The   *)
(* output mappings close the other end before that, the input mapping at   *)
(* the end of its start_run.                                               *)
StartPump(n) ==
    /\ pc[n] = "left" /\ Op(n) \in Maps /\ pc[L(n)] = "up"
    /\ job' = [job EXCEPT ![n] = "run"]
    /\ work' = [work EXCEPT ![n].todo = tree[n].out]
    /\ IF Op(n) = "inmap"
       THEN Goto(n, "tail") /\ UNCHANGED table
       ELSE Goto(n, "up") /\ Close(n, {"p1"})
    /\ UNCHANGED <<rest, arg, val, programs>>

InMappingUp(n) ==
    /\ pc[n] = "tail"
    /\ Close(n, {"p0"})
    /\ Goto(n, "up")
    /\ UNCHANGED <<rest, arg, val, job, work, programs>>

MappingThrows(n) ==
    /\ Op(n) \in Maps
    /\ \/ pc[n] = "start" /\ ~CanOpen(2) /\ InitFunc(n)
       \/ pc[n] = "left" /\ pc[L(n)] = "threw" /\ UNCHANGED got
    /\ Close(n, {"p0", "p1"})
    /\ Goto(n, "threw")
    /\ UNCHANGED <<fixed, buf, wrote, host, last, arg, val, job, work, programs>>

(* command_redirect: the file goes into a member, which a later run, the   *)
(* end of finish_run or the destructor closes.                             *)
StartRedirect(n) ==
    /\ pc[n] = "start" /\ Op(n) \in Redirects /\ ~tree[n].bad /\ CanOpen(1)
    /\ fdt' = [fdt EXCEPT ![Free1] = OpenFile(n)]
    /\ own' = [own EXCEPT ![n].fd = Free1]
    /\ StartOperand(n, "left", L(n),
            [arg[n].std EXCEPT ![Desc(Op(n))] = Free1], arg[n].unused)
    /\ UNCHANGED <<rest, val, job, work, programs>>

(* command_conditonal: the operands get the same numbers, the right one    *)
(* when its turn comes, in the task that has waited for the left one.      *)
StartConditional(n) ==
    /\ pc[n] = "start" /\ Op(n) \in Conditionals
    /\ StartOperand(n, "left", L(n), arg[n].std, arg[n].unused)
    /\ UNCHANGED <<rest, val, job, work, programs, table>>

ConditionalUp(n) ==
    /\ pc[n] = "left" /\ Op(n) \in Conditionals /\ pc[L(n)] = "up"
    /\ Call(n, "up", L(n), "fin")
    /\ job' = [job EXCEPT ![n] = "left"]
    /\ UNCHANGED <<rest, arg, val, work, programs, table>>

(* Mutant: the file is a local variable of start_run.                      *)
RedirectUp_Local(n) ==
    /\ pc[n] = "left" /\ Op(n) \in Redirects /\ pc[L(n)] = "up"
    /\ Goto(n, "up")
    /\ Close(n, {"fd"})
    /\ UNCHANGED <<rest, arg, val, job, work, programs>>

RedirectUp(n) ==
    /\ pc[n] = "left" /\ Op(n) \in Redirects /\ pc[L(n)] = "up"
    /\ Goto(n, "up")
    /\ UNCHANGED <<rest, arg, val, job, work, programs, table>>

(* The exception of the only, or first, operand passes through; or the     *)
(* file cannot be opened.                                                  *)
PassThrow(n) ==
    /\ \/ pc[n] = "left" /\ Op(n) \in Redirects \cup Conditionals /\ pc[L(n)] = "threw"
       \/ pc[n] = "start" /\ Op(n) \in Redirects /\ (tree[n].bad \/ ~CanOpen(1))
    /\ Goto(n, "threw")
    /\ UNCHANGED <<rest, arg, val, job, work, programs, table>>

StartNode(n) ==
    \/ StartPipe(n) \/ StartRightOfPipe(n) \/ PipeUp(n) \/ PipeThrows(n)
    \/ StartMapping(n) \/ StartPump(n) \/ InMappingUp(n) \/ MappingThrows(n)
    \/ StartRedirect(n) \/ RedirectUp(n) \/ StartConditional(n) \/ ConditionalUp(n)
    \/ PassThrow(n)

-----------------------------------------------------------------------------
(* The task of a conditional.                                              *)

StartRight(op, leftResult) ==
    CASE op = "and" -> leftResult = 0
      [] op = "or" -> leftResult # 0
      [] OTHER -> TRUE

TaskLeftDone(n) ==
    /\ job[n] = "left" /\ pc[L(n)] = "done"
    /\ IF StartRight(Op(n), val[L(n)])
       THEN /\ job' = [job EXCEPT ![n] = "right"]
            /\ pc' = [pc EXCEPT ![R(n)] = "start"]
            /\ arg' = [arg EXCEPT ![R(n)] = arg[n]]
            /\ UNCHANGED val
       ELSE /\ job' = [job EXCEPT ![n] = "done"]
            /\ val' = [val EXCEPT ![n] = val[L(n)]]
            /\ UNCHANGED <<pc, arg>>
    /\ UNCHANGED <<rest, work, programs, table>>

TaskRightUp(n) ==
    /\ job[n] = "right" /\ pc[R(n)] = "up"
    /\ Goto(R(n), "fin")
    /\ UNCHANGED <<rest, arg, val, job, work, programs, table>>

TaskRightDone(n) ==
    /\ job[n] = "right" /\ pc[R(n)] = "done"
    /\ job' = [job EXCEPT ![n] = "done"]
    /\ val' = [val EXCEPT ![n] = val[R(n)]]
    /\ UNCHANGED <<rest, pc, arg, work, programs, table>>

(* An exception of either operand ends the task and is kept in the future. *)
TaskFails(n) ==
    /\ \/ job[n] = "left" /\ pc[L(n)] = "failed"
       \/ job[n] = "right" /\ pc[R(n)] \in {"threw", "failed"}
    /\ job' = [job EXCEPT ![n] = "failed"]
    /\ UNCHANGED <<rest, pc, arg, val, work, programs, table>>

Task(n) == TaskLeftDone(n) \/ TaskRightUp(n) \/ TaskRightDone(n) \/ TaskFails(n)

-----------------------------------------------------------------------------
(* Reading and writing.                                                    *)

AtEof(f) == f[2] = "r" => buf[f[1]] = 0 /\ ~Held(PipeW(f[1]))
CanTake(f) == f[2] = "r" /\ buf[f[1]] > 0
Broken(f) == f[2] = "w" /\ ~Held(PipeR(f[1]))
CanPut(f) == f[2] = "w" => Held(PipeR(f[1])) /\ buf[f[1]] < PipeCap

Take(f) == buf' = [buf EXCEPT ![f[1]] = @ - 1] /\ UNCHANGED wrote
Put(f) ==
    IF f[2] = "w"
    THEN buf' = [buf EXCEPT ![f[1]] = @ + 1] /\ wrote' = [wrote EXCEPT ![f[1]] = @ + 1]
    ELSE UNCHANGED <<buf, wrote>>

(* A leaf copies its input item by item if it echoes, then writes its own  *)
(* output and error output.                                                *)
Running(n) == Op(n) \in Leaves /\ job[n] = "run"

Stream(n, k) ==
    CASE Op(n) = "native" -> std[n][k]
      [] Op(n) = "function" -> fdt[own[n][k]]
      [] OTHER -> fdt[arg[n].std[k]]

Reading(n) == ~work[n].eof /\ work[n].pend = 0
Writing(n, k) ==
    LET w == work[n]
    IN  \/ k = "out" /\ (w.pend > 0 \/ (w.eof /\ w.todo > 0))
        \/ k = "err" /\ w.eof /\ w.pend = 0 /\ w.todo = 0 /\ w.err > 0
Finished(n) == work[n].eof /\ work[n].pend = 0 /\ work[n].todo = 0 /\ work[n].err = 0

LeafReads(n) ==
    /\ Running(n) /\ Reading(n) /\ CanTake(Stream(n, "in"))
    /\ Take(Stream(n, "in"))
    /\ work' = [work EXCEPT ![n].pend = IF tree[n].echo THEN 1 ELSE 0]
    /\ UNCHANGED <<fixed, got, host, last, pc, arg, val, job, programs, table>>

LeafSeesEof(n) ==
    /\ Running(n) /\ Reading(n) /\ AtEof(Stream(n, "in"))
    /\ work' = [work EXCEPT ![n].eof = TRUE]
    /\ UNCHANGED <<rest, pc, arg, val, job, programs, table>>

LeafWrites(n, k) ==
    /\ Running(n) /\ Writing(n, k) /\ CanPut(Stream(n, k))
    /\ Put(Stream(n, k))
    /\ work' = [work EXCEPT ![n] =
            IF @.pend > 0 THEN [@ EXCEPT !.pend = 0]
            ELSE IF k = "out" THEN [@ EXCEPT !.todo = @ - 1] ELSE [@ EXCEPT !.err = @ - 1]]
    /\ UNCHANGED <<fixed, got, host, last, pc, arg, val, job, programs, table>>

(* The process of a program is gone.                                       *)
Sigpipe == -13
ProcessEnds(n, v) ==
    /\ job' = [job EXCEPT ![n] = "exited"]
    /\ val' = [val EXCEPT ![n] = v]
    /\ std' = [std EXCEPT ![n] = [k \in Streams |-> Closed]]
    /\ keeps' = [keeps EXCEPT ![n] = {}]
    /\ UNCHANGED <<rest, pc, arg, work, table, zombies>>

(* A write to a pipe nobody reads: SIGPIPE ends the program, or the host   *)
(* when the leaf runs in it.                                               *)
LeafBreaks(n, k) ==
    /\ Running(n) /\ Writing(n, k) /\ Broken(Stream(n, k))
    /\ IF Op(n) = "native" THEN ProcessEnds(n, Sigpipe)
       ELSE /\ host' = "killed"
            /\ UNCHANGED <<fixed, data, last, pc, arg, val, job, work, programs, table>>

ProgramEnds(n) ==
    /\ Running(n) /\ Finished(n) /\ Op(n) = "native"
    /\ ProcessEnds(n, tree[n].val)

(* call_kill drops the duplicates when the function returns; when it       *)
(* throws they stay with the future.                                       *)
FunctionEnds(n) ==
    /\ Running(n) /\ Finished(n) /\ Op(n) = "function"
    /\ val' = [val EXCEPT ![n] = tree[n].val]
    /\ IF tree[n].bad
       THEN job' = [job EXCEPT ![n] = "failed"] /\ UNCHANGED table
       ELSE job' = [job EXCEPT ![n] = "done"] /\ Close(n, Streams)
    /\ UNCHANGED <<rest, pc, arg, work, programs>>

BuiltinEnds(n) ==
    /\ Running(n) /\ Finished(n) /\ Op(n) = "builtin"
    /\ val' = [val EXCEPT ![n] = tree[n].val]
    /\ job' = [job EXCEPT ![n] = "done"]
    /\ Goto(n, IF tree[n].bad THEN "threw" ELSE "up")
    /\ UNCHANGED <<rest, arg, work, programs, table>>

(* The waiter of command_native.                                           *)
Reap(n) ==
    /\ job[n] = "exited"
    /\ job' = [job EXCEPT ![n] = "reaped"]
    /\ UNCHANGED <<rest, pc, arg, val, work, programs, table>>

Leaf(n) ==
    \/ LeafReads(n) \/ LeafSeesEof(n)
    \/ \E k \in {"out", "err"} : LeafWrites(n, k) \/ LeafBreaks(n, k)
    \/ ProgramEnds(n) \/ FunctionEnds(n) \/ BuiltinEnds(n) \/ Reap(n)

-----------------------------------------------------------------------------
(* The pumps: the lambda f2 of the mappings.                               *)

Pumping(n) == Op(n) \in Maps /\ job[n] = "run"
PumpEnd(n) == IF Op(n) = "inmap" THEN "p1" ELSE "p0"
PumpFile(n) == fdt[own[n][PumpEnd(n)]]

PumpEnds(n, j) ==
    /\ job' = [job EXCEPT ![n] = j]
    /\ Close(n, {PumpEnd(n)})
    /\ UNCHANGED <<rest, pc, arg, val, work, programs>>

Feed(n) ==
    /\ Pumping(n) /\ Op(n) = "inmap" /\ ~tree[n].bad /\ work[n].todo > 0
    /\ CanPut(PumpFile(n))
    /\ Put(PumpFile(n))
    /\ work' = [work EXCEPT ![n].todo = @ - 1]
    /\ UNCHANGED <<fixed, got, host, last, pc, arg, val, job, programs, table>>

FeedBreaks(n) ==
    /\ Pumping(n) /\ Op(n) = "inmap" /\ ~tree[n].bad /\ work[n].todo > 0
    /\ Broken(PumpFile(n))
    /\ host' = "killed"
    /\ UNCHANGED <<fixed, data, last, pc, arg, val, job, work, programs, table>>

Collect(n) ==
    /\ Pumping(n) /\ Op(n) # "inmap" /\ ~tree[n].bad
    /\ CanTake(PumpFile(n))
    /\ Take(PumpFile(n))
    /\ got' = [got EXCEPT ![n] = @ + 1]
    /\ UNCHANGED <<fixed, host, last, pc, arg, val, job, work, programs, table>>

(* Nothing more to feed, or the end of file on what is collected.          *)
PumpDone(n) ==
    /\ Pumping(n) /\ ~tree[n].bad
    /\ IF Op(n) = "inmap" THEN work[n].todo = 0 ELSE AtEof(PumpFile(n))
    /\ PumpEnds(n, "done")

(* The functor of the mapping throws when it is first called, or there is  *)
(* nothing to call it with.                                                *)
PumpFails(n) ==
    /\ Pumping(n) /\ tree[n].bad
    /\ Op(n) = "inmap" \/ CanTake(PumpFile(n)) \/ AtEof(PumpFile(n))
    /\ PumpEnds(n, IF Op(n) = "inmap" \/ CanTake(PumpFile(n)) THEN "failed" ELSE "done")

Pump(n) == Feed(n) \/ FeedBreaks(n) \/ Collect(n) \/ PumpDone(n) \/ PumpFails(n)
-----------------------------------------------------------------------------
(* finish_run.                                                             *)

(* A built-in command or a constant has its result already.                *)
FinishAtOnce(n) ==
    /\ pc[n] = "fin" /\ Op(n) \in {"bool", "builtin"}
    /\ Goto(n, "done")
    /\ val' = [val EXCEPT ![n] = tree[n].val]
    /\ UNCHANGED <<rest, arg, job, work, programs, table>>

(* result.get(): waits for the task, gives its value or its exception, and *)
(* lets go of what the task had kept.                                      *)
FinishGet(n) ==
    /\ pc[n] = "fin" /\ Op(n) \in {"native", "function"} \cup Conditionals
    /\ job[n] \in {"reaped", "done", "failed"}
    /\ Goto(n, IF job[n] = "failed" THEN "failed" ELSE "done")
    /\ Close(n, Streams)
    /\ UNCHANGED <<rest, arg, val, job, work, programs>>

(* Mutant: command_mapping does not wait for its pump.                     *)
FinishOperand_NoWait(n) ==
    /\ pc[n] = "fin" /\ Op(n) \in Maps \cup Redirects \cup {"pipe"}
    /\ Call(n, "finL", L(n), "fin")
    /\ UNCHANGED <<rest, arg, val, job, work, programs, table>>

(* The mappings wait for their pump, whatever became of it, and then go on *)
(* like the others to their operand.                                       *)
FinishOperand(n) ==
    /\ pc[n] = "fin" /\ Op(n) \in Maps \cup Redirects \cup {"pipe"}
    /\ Op(n) \in Maps => job[n] \in {"done", "failed"}
    /\ Call(n, "finL", L(n), "fin")
    /\ UNCHANGED <<rest, arg, val, job, work, programs, table>>

(* Mutant: if (result1 != 0) return result1;                               *)
FinishRight_Short(n) ==
    /\ pc[n] = "finL" /\ Op(n) = "pipe" /\ pc[L(n)] = "done"
    /\ IF val[L(n)] = 0 THEN Call(n, "finR", R(n), "fin") /\ UNCHANGED val
       ELSE Goto(n, "done") /\ val' = [val EXCEPT ![n] = val[L(n)]]
    /\ UNCHANGED <<rest, arg, job, work, programs, table>>

FinishRight(n) ==
    /\ pc[n] = "finL" /\ Op(n) = "pipe" /\ pc[L(n)] = "done"
    /\ Call(n, "finR", R(n), "fin")
    /\ UNCHANGED <<rest, arg, val, job, work, programs, table>>

(* Mutant: the status of the last command, as sh has it without pipefail.  *)
PipeResult_Last(left, right) == right

PipeResult(left, right) == IF left = 0 THEN right ELSE left

FinishPipe(n) ==
    /\ pc[n] = "finR" /\ pc[R(n)] = "done"
    /\ Goto(n, "done")
    /\ val' = [val EXCEPT ![n] = PipeResult(val[L(n)], val[R(n)])]
    /\ UNCHANGED <<rest, arg, job, work, programs, table>>

(* command_redirect closes its file on the way, and in its catch as well.  *)
FinishUnary(n) ==
    /\ pc[n] = "finL" /\ Op(n) \in Maps \cup Redirects /\ pc[L(n)] = "done"
    /\ Goto(n, "done")
    /\ val' = [val EXCEPT ![n] = val[L(n)]]
    /\ Close(n, {"fd"})
    /\ UNCHANGED <<rest, arg, job, work, programs>>

FinishThrows(n) ==
    /\ \/ pc[n] = "finL" /\ pc[L(n)] = "failed"
       \/ pc[n] = "finR" /\ pc[R(n)] = "failed"
    /\ Goto(n, "failed")
    /\ Close(n, {"fd"})
    /\ UNCHANGED <<rest, arg, val, job, work, programs>>

Finish(n) ==
    \/ FinishAtOnce(n) \/ FinishGet(n) \/ FinishOperand(n) \/ FinishRight(n)
    \/ FinishPipe(n) \/ FinishUnary(n) \/ FinishThrows(n)

-----------------------------------------------------------------------------
(* Destruction: the members in reverse order, then the base classes in     *)
(* reverse order.  A future of std::async is joined where it is destroyed. *)

Joined(n) == job[n] \in {"none", "done", "failed", "reaped"}

(* Mutant: the operands of a conditional go before its task is joined.     *)
Destroy_PairFirst(n) ==
    /\ pc[n] = "dtor"
    /\ CASE Op(n) \in {"bool", "builtin"} -> Goto(n, "gone")
         [] Op(n) = "native" -> Joined(n) /\ Goto(n, "gone")
         [] Op(n) = "function" -> Goto(n, "join")
         [] Op(n) \in Conditionals \cup {"pipe"} -> Call(n, "dtorR", R(n), "dtor")
         [] OTHER -> Call(n, "dtorL", L(n), "dtor")
    /\ Close(n, {"fd"})
    /\ UNCHANGED <<rest, arg, val, job, work, programs>>

(* command_async is the last base of a conditional: its task is joined     *)
(* before the operands go.  In a mapping and a function it is a base too,  *)
(* but what the task calls is a member and goes first.                     *)
Destroy(n) ==
    /\ pc[n] = "dtor"
    /\ CASE Op(n) \in {"bool", "builtin"} -> Goto(n, "gone")
         [] Op(n) = "native" -> Joined(n) /\ Goto(n, "gone")
         [] Op(n) = "function" -> Goto(n, "join")
         [] Op(n) \in Conditionals -> Joined(n) /\ Call(n, "dtorR", R(n), "dtor")
         [] Op(n) = "pipe" -> Call(n, "dtorR", R(n), "dtor")
         [] OTHER -> Call(n, "dtorL", L(n), "dtor")
    /\ Close(n, {"fd"})
    /\ UNCHANGED <<rest, arg, val, job, work, programs>>

DestroyLeft(n) ==
    /\ pc[n] = "dtorR" /\ pc[R(n)] = "gone"
    /\ Call(n, "dtorL", L(n), "dtor")
    /\ UNCHANGED <<rest, arg, val, job, work, programs, table>>

OperandsGone(n) ==
    /\ pc[n] = "dtorL" /\ pc[L(n)] = "gone"
    /\ Goto(n, IF Op(n) \in Maps THEN "join" ELSE "gone")
    /\ UNCHANGED <<rest, arg, val, job, work, programs, table>>

Join(n) ==
    /\ pc[n] = "join" /\ Joined(n)
    /\ Goto(n, "gone")
    /\ Close(n, Streams)
    /\ UNCHANGED <<rest, arg, val, job, work, programs>>

Destruction(n) == Destroy(n) \/ DestroyLeft(n) \/ OperandsGone(n) \/ Join(n)

-----------------------------------------------------------------------------
(* The host: run(), and the end of the expression's life.                  *)

RunFinishes ==
    /\ host = "running" /\ pc[Root] = "up"
    /\ Goto(Root, "fin")
    /\ UNCHANGED <<rest, arg, val, job, work, programs, table>>

RunReturns ==
    /\ host = "running" /\ pc[Root] = "done"
    /\ host' = "returned"
    /\ last' = val[Root]
    /\ UNCHANGED <<fixed, data, pc, arg, val, job, work, programs, table>>

RunThrows ==
    /\ host = "running" /\ pc[Root] \in {"threw", "failed"}
    /\ host' = "threw"
    /\ UNCHANGED <<fixed, data, last, pc, arg, val, job, work, programs, table>>

Drop ==
    /\ host \in {"returned", "threw"} /\ pc[Root] \in {"done", "threw", "failed"}
    /\ Goto(Root, "dtor")
    /\ UNCHANGED <<rest, arg, val, job, work, programs, table>>

Over == pc[Root] = "gone" \/ host = "killed"

Terminated == Over /\ UNCHANGED vars

Next ==
    \/ /\ host # "killed"
       /\ \/ RunFinishes \/ RunReturns \/ RunThrows \/ Drop
          \/ \E n \in Node :
                StartLeaf(n) \/ StartNode(n) \/ Task(n) \/ Leaf(n) \/ Pump(n)
                    \/ Finish(n) \/ Destruction(n)
    \/ Terminated

(* Threads and programs run as long as they can: every behaviour is finite *)
(* and nobody waits but for another one, so this is all that is needed.    *)
Spec == Init /\ [][Next]_vars /\ WF_vars(Next)
-----------------------------------------------------------------------------
(* What the expression says.  Operands have greater numbers than their     *)
(* operators, so these functions recurse along the tree.                   *)
Parent(n) == CHOOSE m \in Node : n \in {L(m), R(m)}

Want[n \in Node] ==
    IF n = Root THEN [k \in Streams |-> Tty(k)]
    ELSE LET m == Parent(n)
             w == Want[m]
         IN  IF Op(m) = "inmap" \/ (Op(m) = "pipe" /\ n = R(m)) THEN [w EXCEPT !.in = PipeR(m)]
             ELSE IF Op(m) \in {"pipe", "outmap"} THEN [w EXCEPT !.out = PipeW(m)]
             ELSE IF Op(m) = "errmap" THEN [w EXCEPT !.err = PipeW(m)]
             ELSE IF Op(m) = "inred" THEN [w EXCEPT !.in = OpenFile(m)]
             ELSE IF Op(m) = "outred" THEN [w EXCEPT !.out = OpenFile(m)]
             ELSE IF Op(m) = "errred" THEN [w EXCEPT !.err = OpenFile(m)]
             ELSE w

LeavesOf[n \in Node] ==
    IF L(n) = 0 THEN {n}
    ELSE LeavesOf[L(n)] \cup IF R(n) = 0 THEN {} ELSE LeavesOf[R(n)]

(* The exit status of every subexpression, given those of the programs.    *)
Status[n \in Node] ==
    IF L(n) = 0 THEN IF Op(n) = "native" THEN val[n] ELSE tree[n].val
    ELSE IF \/ R(n) = 0
            \/ Op(n) = "or" /\ Status[L(n)] = 0
            \/ Op(n) \in {"and", "pipe"} /\ Status[L(n)] # 0
         THEN Status[L(n)] ELSE Status[R(n)]

(* The nodes the shell semantics of && || , would run, given the same.     *)
Demanded[n \in Node] ==
    \/ n = Root
    \/ LET m == Parent(n)
       IN  /\ Demanded[m]
           /\ n = R(m) /\ Op(m) = "and" => Status[L(m)] = 0
           /\ n = R(m) /\ Op(m) = "or" => Status[L(m)] # 0

(* The nodes that start_run reaches; the others are left to the tasks.     *)
AtOnce[n \in Node] ==
    n = Root \/ LET m == Parent(n) IN AtOnce[m] /\ ~(Op(m) \in Conditionals /\ n = R(m))

-----------------------------------------------------------------------------
(* The ends of the fail_pipe of a command that cannot be forked.           *)
FailPipe(f) == \E n \in Node : Op(n) = "native" /\ tree[n].nofork /\ f \in {PipeR(n), PipeW(n)}

WrappersOf(fd) == {w \in Node \X Slots : own[w[1]][w[2]] = fd}

(* Every open descriptor but the inherited three belongs to exactly one    *)
(* wrapper, and every wrapper has the file it was made for under its       *)
(* number: nothing is leaked and nothing is closed twice, on any path      *)
(* through start_run and finish_run (ccsh_command.cpp:38-163).  Only the   *)
(* fail_pipe of a failed fork has no wrapper (ccsh_command_posix.cpp:56).  *)
OwnInv ==
    /\ \A fd \in Fd \ (0..2) :
        fdt[fd] # Closed =>
            \/ Cardinality(WrappersOf(fd)) = 1
            \/ WrappersOf(fd) = {} /\ FailPipe(fdt[fd])
    /\ \A n \in Node, s \in Slots :
        own[n][s] # -1 =>
            /\ s = "p0" => fdt[own[n][s]] = PipeR(n)
            /\ s = "p1" => fdt[own[n][s]] = PipeW(n)
            /\ s = "fd" => fdt[own[n][s]] = OpenFile(n)
            /\ s \in Streams => fdt[own[n][s]] # Closed
    /\ \A k \in Streams : fdt[StdFd[k]] = Tty(k)

(* A program, a function or a built-in command reads and writes the files  *)
(* that the expression gives it, although only numbers are passed down     *)
(* and files are opened and closed around it (ccsh_command.cpp:44-45, 66,  *)
(* 89, 113, ccsh_command_posix.cpp:65-75).                                 *)
Wiring == \A n \in Node : Running(n) => \A k \in Streams : Stream(n, k) = Want[n][k]

(* No leaf on the right of && || , runs before all those on the left have  *)
(* ended and been waited for (ccsh_command.hpp:276-283).                   *)
Sequenced ==
    \A n \in Node :
        Op(n) \in Conditionals =>
            \A a \in LeavesOf[L(n)], b \in LeavesOf[R(n)] :
                job[b] # "none" => job[a] \in {"none", "done", "failed", "reaped"}

(* When run() returns, last_exit_code() is the status of the expression in *)
(* terms of its leaves, and exactly the leaves it calls for have been run  *)
(* (ccsh_command_posix.cpp:21-28, ccsh_command.hpp:276-358).               *)
RunDenotes ==
    host = "returned" =>
        /\ last = Status[Root]
        /\ \A n \in Node : Op(n) \in Leaves => ((job[n] # "none") <=> Demanded[n])

(* When the finish_run of > >> >= >>= returns, the string has what it is   *)
(* to keep and everything that was written to the pipe, and nobody is left *)
(* who could write more (ccsh_command.hpp:374-378, ccsh_command.cpp:70-92) *)
OutputComplete ==
    \A n \in Node :
        Op(n) \in {"outmap", "errmap"} /\ pc[n] = "done" /\ ~tree[n].bad =>
            /\ got[n] = (IF tree[n].append THEN 1 ELSE 0) + wrote[n]
            /\ ~Held(PipeW(n))

(* After run() has returned, and after a command is destroyed whatever     *)
(* came of it, no program is unwaited for, no task runs and no descriptor  *)
(* is open (ccsh_command.hpp:121-124, 352-357, 413-427).  What start_run   *)
(* of a program leaves when it throws stays: the fail_pipe, once, after a  *)
(* failed fork, and the child that could not execute its program           *)
(* (ccsh_command_posix.cpp:56, 90-96); never if run() returns.             *)
NothingLeft ==
    /\ host = "returned" => fdt = Inherited /\ zombies = {}
    /\ host = "returned" \/ pc[Root] = "gone" =>
        /\ \A n \in Node : Joined(n)
        /\ \A fd \in Fd :
            \/ fdt[fd] = Inherited[fd]
            \/ FailPipe(fdt[fd]) /\ \A x \in Fd \ {fd} : fdt[x] # fdt[fd]

(* run() throws only if something cannot be started or throws: a missing   *)
(* program, one that cannot be forked, a file that does not open, a        *)
(* throwing function or built-in command.  That is for a host with         *)
(* descriptors enough.                                                     *)
ThrowHasCause == host = "threw" => \E n \in Node : tree[n].bad \/ tree[n].nofork

(* No task uses a functor or an operand that has been destroyed with its   *)
(* command: destruction joins it before (ccsh_command.hpp:269, 360-365).   *)
NoCallAfterDtor ==
    \A n \in Node :
        job[n] \in {"run", "left", "right"} /\ Op(n) # "native" =>
            pc[n] \notin {"dtorR", "dtorL", "join", "gone"}

(* When a leaf that start_run itself starts cannot be started, nothing     *)
(* that comes after it in the expression is, at whatever depth and on      *)
(* whatever side (ccsh_command.cpp:44-45, ccsh_command.hpp:285-286,        *)
(* sample/main.cpp:30: no cow should appear).                              *)
NoCow ==
    \A n, m \in Node :
        {Op(n), Op(m)} \subseteq Leaves /\ AtOnce[n] /\ n < m /\ pc[n] = "threw"
            => job[m] = "none"

(* The command comes to an end and can be destroyed, and the program that  *)
(* uses it lives: nobody waits for somebody who waits for him, and no      *)
(* SIGPIPE ends the host (ccsh_command.cpp:44-66, ccsh_utils.hpp).         *)
RunEnds == <>(Over /\ host # "killed")
=============================================================================
