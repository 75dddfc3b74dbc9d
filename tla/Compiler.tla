------------------------------ MODULE Compiler -------------------------------
(***************************************************************************)
(* ccshc, which compiles a script and runs it (cc/ccsh_compiler.cpp):      *)
(* several of its processes, on their command lines and on the temporary   *)
(* file, for which generate_filename draws the same name in every process: *)
(* its generator is never seeded.                                          *)
(***************************************************************************)
EXTENDS Integers, Sequences, SequencesExt

CONSTANTS
    Proc,       \* the processes
    None,
    Word,       \* the arguments there are
    Dashed,     \* the arguments that begin with a dash
    At,         \* those that begin with an @
    Cases       \* what is run: one process after the other or not [serial],
                \* and the arguments of each [argv]

gcc_options_with_args ==
    {"-x", "-o", "-aux-info", "--param", "-D", "-U", "-include", "-imacros", "-MF", "-MT", "-MQ", "-A",
     "-Xpreprocessor", "-Xassembler", "-l", "-T", "-Xlinker", "-u", "-z", "-I", "-iquote", "-isystem",
     "-idirafter", "-iprefix", "-iwithprefix", "-iwithprefixbefore", "-isysroot", "-imultilib", "-L"}

ASSUME ArgumentAssumption ==
    /\ None \notin Proc /\ gcc_options_with_args \subseteq Dashed /\ "-c" \in Dashed
    /\ Dashed \cap At = {}
    /\ None \notin [by : Proc, whole : BOOLEAN]
    /\ None \notin [by : Proc, args : Seq(Word), with : Seq(Word)]
    /\ {"-x", "c++", "-l", "ccsh_lib", "-o", "temp", "-"} \subseteq Word
    /\ \A x \in Cases : x.argv \in [Proc -> Seq(Word)]

VARIABLES
    c,          \* the case (never changes)
    pc,         \* where main() of each process is; "refused": it was thrown
                \* out of running a whole file
    temp,       \* the temporary file: the process whose linker made it, and
                \* whether it is whole; or None
    ran,        \* the program that was run: its file's maker, its arguments
    result      \* the exit code
vars == <<c, pc, temp, ran, result>>

-----------------------------------------------------------------------------
(* Mutant: the argument of an option is taken for the file.                *)
find_file_NoArgs(options) ==
    LET find[i \in 1..(Len(options) + 2)] ==
            IF i > Len(options) THEN i
            ELSE IF options[i] \in Dashed \cup At THEN find[i + 1] ELSE i
    IN  find[1]

(* The place of the file; Len + 1 if there is none, and Len + 2 if the     *)
(* argument of the last option is missing, which find_file steps over.     *)
find_file(options) ==
    LET find[i \in 1..(Len(options) + 2)] ==
            IF i > Len(options) THEN i
            ELSE IF options[i] \in Dashed
                 THEN find[i + IF options[i] \in gcc_options_with_args THEN 2 ELSE 1]
            ELSE IF options[i] \in At THEN find[i + 1] ELSE i
    IN  find[1]

(* main() takes every -c away, also one for the program.                   *)
Args(p) ==
    LET argv == c.argv[p]
        args[i \in 0..Len(argv)] ==
            IF i = 0 THEN << >>
            ELSE IF argv[i] = "-c" THEN args[i - 1] ELSE Append(args[i - 1], argv[i])
    IN  args[Len(argv)]
compile_only(p) == "-c" \in ToSet(c.argv[p])
File(p) == find_file(Args(p))
program_args(p) == SubSeq(Args(p), File(p) + 1, Len(Args(p)))
gcc_args(p) ==
    <<"-x", "c++", "-l", "ccsh_lib">> \o SubSeq(Args(p), 1, File(p) - 1) \o <<"-o", "temp", "-">>

Init ==
    /\ c \in Cases
    /\ pc = [p \in Proc |-> "idle"]
    /\ temp = None
    /\ ran = [p \in Proc |-> None] /\ result = [p \in Proc |-> 0]

Goes(p, to) == pc' = [pc EXCEPT ![p] = to]
Returns(p, code) == result' = [result EXCEPT ![p] = code]

(* The usage is printed, or what is behind the last argument is looked at: *)
(* undefined behaviour, which ends there or in a crash.                    *)
Usage(p) ==
    /\ pc[p] = "idle" /\ File(p) > Len(Args(p))
    /\ Goes(p, "end")
    /\ \E code \in {1} \cup IF File(p) = Len(Args(p)) + 2 THEN {139} ELSE {} : Returns(p, code)
    /\ UNCHANGED <<c, temp, ran>>

Idle(p) == pc[p] \in {"idle", "end", "refused"}
Ready(p) ==
    /\ pc[p] = "idle" /\ File(p) <= Len(Args(p))
    /\ c.serial => \A q \in Proc : Idle(q)

Begin(p) == Ready(p) /\ Goes(p, "compile") /\ UNCHANGED <<c, temp, ran, result>>

(* What is thrown leaves main(), which then removes nothing.               *)
Aborts(p, to) == Goes(p, to) /\ Returns(p, 134) /\ UNCHANGED <<c, temp, ran>>

(* create_directory() throws: there is no /tmp, or a file where the        *)
(* directory is to be.                                                     *)
NoDirectory(p) == Ready(p) /\ Aborts(p, "end")

-----------------------------------------------------------------------------
(* The compiler reads what shebang_remover writes; its linker makes the    *)
(* file anew, fills it, and takes away what is there if it fails.          *)
CompileFails(p) ==
    /\ pc[p] = "compile" /\ Goes(p, "remove") /\ Returns(p, 1)
    /\ UNCHANGED <<c, temp, ran>>

(* c.run() throws: there is no compiler, or no process or pipe for it.     *)
CompilerMissing(p) == pc[p] = "compile" /\ Aborts(p, "end")

LinkBegins(p) ==
    /\ pc[p] = "compile" /\ Goes(p, "link")
    /\ temp' = [by |-> p, whole |-> FALSE]
    /\ UNCHANGED <<c, ran, result>>

LinkFails(p) ==
    /\ pc[p] = "link" /\ Goes(p, "remove") /\ Returns(p, 1)
    /\ temp' = None
    /\ UNCHANGED <<c, ran>>

LinkEnds(p) ==
    /\ pc[p] = "link"
    /\ Goes(p, IF compile_only(p) THEN "remove" ELSE "run")
    /\ temp' = IF temp # None /\ temp.by = p THEN [temp EXCEPT !.whole = TRUE] ELSE temp
    /\ UNCHANGED <<c, ran, result>>

Whole == temp # None /\ temp.whole

Run(p) ==
    /\ pc[p] = "run" /\ Whole
    /\ Goes(p, "remove")
    /\ ran' = [ran EXCEPT ![p] = [by |-> temp.by, args |-> program_args(p), with |-> gcc_args(temp.by)]]
    /\ \E code \in {0, 3} : Returns(p, code)
    /\ UNCHANGED <<c, temp>>

(* shell(temp).run() throws: there is no such file, or one that is half    *)
(* written; or it is whole, and still it cannot be executed, or no process *)
(* or pipe is to be had for it.                                            *)
RunThrows(p) == pc[p] = "run" /\ Aborts(p, IF Whole THEN "refused" ELSE "end")

(* Mutant: the file is left behind by a program that fails.                *)
RemoveTemp_Success(p) ==
    /\ pc[p] = "remove" /\ Goes(p, "end")
    /\ temp' = IF result[p] = 0 THEN None ELSE temp
    /\ UNCHANGED <<c, ran, result>>

RemoveTemp(p) ==
    /\ pc[p] = "remove" /\ Goes(p, "end")
    /\ temp' = None
    /\ UNCHANGED <<c, ran, result>>

Next ==
    \E p \in Proc :
        \/ Usage(p) \/ Begin(p) \/ NoDirectory(p) \/ CompileFails(p) \/ CompilerMissing(p)
        \/ LinkBegins(p) \/ LinkFails(p) \/ LinkEnds(p)
        \/ Run(p) \/ RunThrows(p) \/ RemoveTemp(p)
Spec == Init /\ [][Next]_vars

-----------------------------------------------------------------------------
(* "ccshc [gcc-options] file [file-options]": the file is the first        *)
(* argument that is neither an option nor the argument of one, which it is *)
(* when an odd number of options that want one comes before it.            *)
Before(options, i) ==
    CHOOSE k \in 0..(i - 1) :
        /\ \A j \in (i - k)..(i - 1) : options[j] \in gcc_options_with_args
        /\ k < i - 1 => options[i - k - 1] \notin gcc_options_with_args
IsFile(options, i) == options[i] \notin Dashed \cup At /\ Before(options, i) % 2 = 0

(* A process that has the temporary file to itself runs what it has        *)
(* compiled, compiles with what comes before the file, passes on what      *)
(* comes after it, all but the -c, and succeeds only if it has done so or  *)
(* there is a -c anywhere on the line (ccsh_compiler.cpp:62-75, 94-180).   *)
RunsItsOwn ==
    c.serial => \A p \in Proc :
        /\ ran[p] # None =>
            /\ ran[p].by = p /\ ~compile_only(p)
            /\ \E file \in DOMAIN Args(p) :
                  /\ IsFile(Args(p), file) /\ \A j \in 1..(file - 1) : ~IsFile(Args(p), j)
                  /\ ran[p].args = SubSeq(Args(p), file + 1, Len(Args(p)))
                  /\ SubSeq(ran[p].with, 5, Len(ran[p].with) - 3) = SubSeq(Args(p), 1, file - 1)
        /\ (pc[p] \in {"end", "refused"} /\ result[p] = 0) => ran[p] # None \/ compile_only(p)

(* Whatever happens to the others, when all processes have ended nothing   *)
(* is left of the file, but a whole one whose maker was thrown out of      *)
(* main() when he was to run it (ccsh_compiler.cpp:165-178).               *)
TempGone ==
    (\A p \in Proc : pc[p] \in {"end", "refused"}) =>
        temp = None \/ (temp.whole /\ pc[temp.by] = "refused")
=============================================================================
