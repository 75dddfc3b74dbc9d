------------------------------- MODULE MCGlob --------------------------------
(***************************************************************************)
(* Glob.tla for TLC: every pattern of up to three characters on a disk     *)
(* that stays as it is, and longer ones, also several in one call, while   *)
(* another process creates and removes two files.                          *)
(***************************************************************************)
EXTENDS Glob, TLC

(* The working directory is /w, with a, ab, .b, the directory b with a in  *)
(* it, and two names that multi-byte characters cannot represent.          *)
w == <<"w">>
In(dir, s) == dir \o <<s>>
MCRoot == << >>
MCCwd == <<w>>
Sub == In(MCCwd, <<"b">>)
MCDirs == {MCRoot, MCCwd, Sub}
Odd == <<"U">>
Odder == <<"V">>
MCShort == (Odd :> <<"b", "a">>) @@ (Odder :> None)
MCNodes == {MCRoot, MCCwd, Sub, In(Sub, <<"a">>), In(MCCwd, Odd), In(MCCwd, Odder)}
               \cup {In(MCCwd, s) : s \in {<<"a">>, <<"a", "b">>, <<".", "b">>}}
MCVolatile == {In(Sub, <<"b">>), In(MCCwd, <<"a", "b">>), In(Sub, <<"a">>)}
MCOrder == <<"!", "*", "-", ".", "/", "?", "[", "\\", "]", "a", "b", "w", "~", "U", "V">>

(* A set with a slash in it is cut at the slash: glob.cpp:541.             *)
Whole(p) == ~\E i, j, k \in DOMAIN p : i < j /\ j < k /\ p[i] = "[" /\ p[j] = "/" /\ p[k] = "]"
Short3 == {p \in BoundedSeq({"*", "?", "[", "]", "a", "b", ".", "/"}, 3) : Whole(p)}
Sets == {<<"[", "a", "-", "b", "]">>, <<"[", "!", "a", "]", "*">>, <<"[", "!", "]", "a", "]">>,
         <<"?", "[", "]", "b", "]">>, <<"[", "a", "-", "]">>, <<"*", "*", "[", "!", "b", "-", "w", "]">>}
Home == <<"/", "w">>
Still(ps, home) == {[patterns |-> <<p>>, home |-> home, changes |-> 0] : p \in ps}
Moving ==
    {[patterns |-> ps, home |-> Home, changes |-> 2] :
        ps \in {<< <<"*", "/", "?">> >>, << <<"b", "\\", "*">>, <<"~", "/", "?", "b">> >>,
               << <<"?">>, <<"a", "b">> >>}}
MCCases ==
    Still(Short3 \cup Sets, None) \cup Moving
        \cup Still({<<"~">>, <<"~", "/", "b", "/", "*">>, <<"~", "/", "b", "b">>}, Home)
        \cup Still({<<"~", "/", "a">>}, None)
=============================================================================
