----------------------------- MODULE MCCompiler ------------------------------
(***************************************************************************)
(* Compiler.tla for TLC: all command lines of up to four arguments for one *)
(* process that follows another one, and three processes at once.          *)
(***************************************************************************)
EXTENDS Compiler, TLC

CONSTANTS P, Q, R
MCProc == {P, Q, R}
MCWord == gcc_options_with_args \cup {"c++", "ccsh_lib", "temp", "-", "-c", "-O", "@opts", "a"}
MCDashed == gcc_options_with_args \cup {"-c", "-O"}

(* One process has the lines; -c is for the compiler: before the file, and *)
(* not the argument of an option.                                          *)
Lines == BoundedSeq({"-c", "-O", "-I", "@opts", "a"}, 4)
Proper(line) ==
    \A i \in DOMAIN line :
        line[i] = "-c" => {"a", "-I"} \cap {line[j] : j \in 1..(i - 1)} = {}

All(x, y, z) == (P :> x) @@ (Q :> y) @@ (R :> z)
OneByOne == {[serial |-> TRUE, argv |-> All(line, <<"a">>, << >>)] : line \in {l \in Lines : Proper(l)}}
AtOnce == {[serial |-> FALSE, argv |-> All(<<"a">>, x, <<"-I", "a", "a">>)] : x \in {<<"a">>, <<"-c", "a">>}}
MCCases == OneByOne \cup AtOnce
=============================================================================
