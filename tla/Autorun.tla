------------------------------ MODULE Autorun -------------------------------
(***************************************************************************)
(* Who runs a command: the handles of include/ccsh/ccsh_command.hpp and    *)
(* the flag that lets a destructor run what nobody has run.                *)
(*                                                                         *)
(* shell() and the operators return a command_runnable, a shared pointer   *)
(* to a new command; cat(), ls(), cd() ... are command_holders, commands   *)
(* themselves.  Both run their command when they are destroyed, so that    *)
(* `shell("ls") | wc();` is a statement that does something.  An operand   *)
(* or a named `command` must not be run that way: its constructors take    *)
(* the flag away, from the original as well as from the copy.              *)
(*                                                                         *)
(* A C++ program is any sequence of these operations.  The end of a full   *)
(* expression or of a scope is a Drop for each of its handles; any order   *)
(* is allowed here, C++ prescribes one for each program.                   *)
(***************************************************************************)
EXTENDS Naturals

CONSTANTS
    Handle,    \* the C++ variables and temporaries there may be at a time
    Node,      \* the command objects that may ever be created
    MaxCalls,  \* bound on the explicit run()s of one command
    None       \* no command

ASSUME NoneAssumption == None \notin Node
ASSUME MaxCallsAssumption == MaxCalls \in Nat

VARIABLES
    kind,      \* kind[h]: what h is, "none" when it is not in use
    of,        \* of[h]: the command h points to or is, or None
    life,      \* life[n]: "unborn", "alive" or "dead"
    holds,     \* holds[n]: n is a command_holder, with its destructor
    parts,     \* parts[n]: the operands of n
    flag,      \* flag[n]: autorun_flag
    calls,     \* calls[n]: run() called on n (history)
    autos,     \* autos[n]: n run by run_autorun (history)
    taken      \* taken[n]: n given to a command or a builder (history)

vars == <<kind, of, life, holds, parts, flag, calls, autos, taken>>

Pointers == {"runnable", "command"}     \* shared pointers to their command
Values == {"holder", "builder"}         \* commands themselves

TypeOK ==
    /\ kind \in [Handle -> Pointers \cup Values \cup {"none"}]
    /\ of \in [Handle -> Node \cup {None}]
    /\ life \in [Node -> {"unborn", "alive", "dead"}]
    /\ holds \in [Node -> BOOLEAN]
    /\ parts \in [Node -> SUBSET Node]
    /\ flag \in [Node -> BOOLEAN]
    /\ calls \in [Node -> 0..MaxCalls]
    /\ autos \in [Node -> Nat]
    /\ taken \in [Node -> BOOLEAN]

Init ==
    /\ kind = [h \in Handle |-> "none"]
    /\ of = [h \in Handle |-> None]
    /\ life = [n \in Node |-> "unborn"]
    /\ holds = [n \in Node |-> FALSE]
    /\ parts = [n \in Node |-> {}]
    /\ flag = [n \in Node |-> FALSE]
    /\ calls = [n \in Node |-> 0]
    /\ autos = [n \in Node |-> 0]
    /\ taken = [n \in Node |-> FALSE]

-----------------------------------------------------------------------------
(* Handle g comes to be a k for command n.                                 *)
Point(g, k, n) ==
    /\ kind[g] = "none"
    /\ kind' = [kind EXCEPT ![g] = k]
    /\ of' = [of EXCEPT ![g] = n]

(* Command n is created; a command_base starts with the flag set.          *)
New(n, isHolder, operands) ==
    /\ life[n] = "unborn"
    /\ life' = [life EXCEPT ![n] = "alive"]
    /\ holds' = [holds EXCEPT ![n] = isHolder]
    /\ parts' = [parts EXCEPT ![n] = operands]

(* shell(), source()                                                       *)
Shell(g, n) ==
    /\ Point(g, "runnable", n)
    /\ New(n, FALSE, {})
    /\ flag' = [flag EXCEPT ![n] = TRUE]
    /\ UNCHANGED <<calls, autos, taken>>

(* cat(), ls(), cd(), pwd() ...                                            *)
Holder(g, n) ==
    /\ Point(g, "holder", n)
    /\ New(n, TRUE, {})
    /\ flag' = [flag EXCEPT ![n] = TRUE]
    /\ UNCHANGED <<calls, autos, taken>>

(* Mutant: no call of no_autorun().                                        *)
FromRunnable_Keeps(h, g) ==
    /\ kind[h] = "runnable"
    /\ Point(g, "command", of[h])
    /\ taken' = [taken EXCEPT ![of[h]] = TRUE]
    /\ UNCHANGED <<life, holds, parts, flag, calls, autos>>

(* command(command_runnable const&)                                        *)
FromRunnable(h, g) ==
    /\ kind[h] = "runnable"
    /\ Point(g, "command", of[h])
    /\ flag' = [flag EXCEPT ![of[h]] = FALSE]
    /\ taken' = [taken EXCEPT ![of[h]] = TRUE]
    /\ UNCHANGED <<life, holds, parts, calls, autos>>

(* Mutant: no cmd.no_autorun(), the original keeps its flag.               *)
FromHolder_Keeps(h, g, n) ==
    /\ kind[h] \in Values
    /\ Point(g, "command", n)
    /\ New(n, TRUE, {})
    /\ flag' = [flag EXCEPT ![n] = FALSE]
    /\ taken' = [taken EXCEPT ![of[h]] = TRUE, ![n] = TRUE]
    /\ UNCHANGED <<calls, autos>>

(* command(command_holder<T> const&): a copy on the heap                   *)
FromHolder(h, g, n) ==
    /\ kind[h] \in Values
    /\ Point(g, "command", n)
    /\ New(n, TRUE, {})
    /\ flag' = [flag EXCEPT ![of[h]] = FALSE, ![n] = FALSE]
    /\ taken' = [taken EXCEPT ![of[h]] = TRUE, ![n] = TRUE]
    /\ UNCHANGED <<calls, autos>>

(* A copy of a command points to the same command.                         *)
Copy(h, g) ==
    /\ kind[h] = "command"
    /\ Point(g, "command", of[h])
    /\ UNCHANGED <<life, holds, parts, flag, calls, autos, taken>>

(* command_builder(command_holder<T> const&): a copy, without the flag     *)
Builder(h, g, n) ==
    /\ kind[h] \in Values
    /\ Point(g, "builder", n)
    /\ New(n, TRUE, {})
    /\ flag' = [flag EXCEPT ![of[h]] = FALSE, ![n] = FALSE]
    /\ taken' = [taken EXCEPT ![of[h]] = TRUE, ![n] = TRUE]
    /\ UNCHANGED <<calls, autos>>

(* a | b, a && b; with a = b the operators of one operand, a > str and the  *)
(* like.  The operands are commands by now.                                *)
Combine(a, b, g, n) ==
    /\ kind[a] = "command" /\ kind[b] = "command"
    /\ Point(g, "runnable", n)
    /\ New(n, FALSE, {of[a], of[b]})
    /\ flag' = [flag EXCEPT ![n] = TRUE]
    /\ UNCHANGED <<calls, autos, taken>>

(* run(), whether it returns or throws: the flag goes first.               *)
Run(h) ==
    /\ kind[h] # "none"
    /\ calls[of[h]] < MaxCalls
    /\ flag' = [flag EXCEPT ![of[h]] = FALSE]
    /\ calls' = [calls EXCEPT ![of[h]] = @ + 1]
    /\ UNCHANGED <<kind, of, life, holds, parts, autos, taken>>

(* The commands that are left when h is gone: what the other handles are   *)
(* or point to, and what these commands hold as operands.                  *)
Closed(S) == \A n \in S : parts[n] \subseteq S
Left(h) ==
    {n \in Node : \A S \in SUBSET Node :
        (\A g \in Handle \ {h} : kind[g] # "none" => of[g] \in S) /\ Closed(S) => n \in S}

(* Mutant: ~command_runnable() = default.                                  *)
Called_Default(h, dying) == {n \in dying : holds[n]}

(* The commands whose run_autorun is called: that of the handle, whether   *)
(* or not others point to it, those of dying holders, and those of the     *)
(* handles in dying commands.                                              *)
Called(h, dying) ==
    {of[h]} \cup {n \in dying : holds[n]} \cup UNION {parts[m] : m \in dying}

(* The destructor of a handle, with all it brings about.                   *)
Drop(h) ==
    /\ kind[h] # "none"
    /\ kind' = [kind EXCEPT ![h] = "none"]
    /\ of' = [of EXCEPT ![h] = None]
    /\ LET dying == {n \in Node : life[n] = "alive"} \ Left(h)
           armed == {n \in Called(h, dying) : flag[n]}
       IN  /\ life' = [n \in Node |-> IF n \in dying THEN "dead" ELSE life[n]]
           /\ holds' = [n \in Node |-> holds[n] /\ n \notin dying]
           /\ parts' = [n \in Node |-> IF n \in dying THEN {} ELSE parts[n]]
           /\ autos' = [n \in Node |-> IF n \in armed THEN autos[n] + 1 ELSE autos[n]]
           /\ flag' = [n \in Node |-> flag[n] /\ n \notin armed]
    /\ UNCHANGED <<calls, taken>>

Next ==
    \/ \E g \in Handle, n \in Node : Shell(g, n) \/ Holder(g, n)
    \/ \E h, g \in Handle : FromRunnable(h, g) \/ Copy(h, g)
    \/ \E h, g \in Handle, n \in Node : FromHolder(h, g, n) \/ Builder(h, g, n)
    \/ \E a, b, g \in Handle, n \in Node : Combine(a, b, g, n)
    \/ \E h \in Handle : Run(h) \/ Drop(h)

Spec == Init /\ [][Next]_vars
-----------------------------------------------------------------------------
(* A command runs by itself once at most, and never when it has been run   *)
(* or has become a part of another command, a named command or a builder,  *)
(* however long its first handle lives on                                  *)
(* (ccsh_command.hpp:46-49, 174-178, 200-203, 215-227).                    *)
NotTwice ==
    \A n \in Node : autos[n] > 0 => autos[n] = 1 /\ calls[n] = 0 /\ ~taken[n]

(* No command is lost: one that is gone has been run, or was taken over by *)
(* something else that is responsible for it.                              *)
NotNever ==
    \A n \in Node : life[n] = "dead" => autos[n] = 1 \/ calls[n] > 0 \/ taken[n]

(* As long as a command is alive, so are its operands, and no operand is   *)
(* armed: dropping a handle in any order runs whole expressions only.      *)
WholeOnly ==
    \A n \in Node :
        life[n] = "alive" => \A m \in parts[n] : life[m] = "alive" /\ ~flag[m]
=============================================================================
