------------------------------ MODULE MCSession ------------------------------
(***************************************************************************)
(* Session.tla for TLC: /h/a/c, /h/b/d, /h/b/.x and /h/b/y., the links     *)
(* /h/a/l to /h/b and /h/b/c to /h/b/d, home in /h/a, and another process  *)
(* that may remove /h/a/c.                                                 *)
(***************************************************************************)
EXTENDS Session, TLC

P(names) == <<"/">> \o names
MCPathOf ==
    "/" :> P(<< >>) @@ "h" :> P(<<"h">>) @@ "a" :> P(<<"h", "a">>) @@ "c" :> P(<<"h", "a", "c">>)
        @@ "b" :> P(<<"h", "b">>) @@ "d" :> P(<<"h", "b", "d">>) @@ "x" :> P(<<"h", "b", ".x">>)
        @@ "y" :> P(<<"h", "b", "y.">>)
MCDir == DOMAIN MCPathOf
MCParent ==
    [e \in MCDir |-> CASE e \in {"a", "b"} -> "h" [] e = "c" -> "a" [] e \in {"d", "x", "y"} -> "b" [] OTHER -> "/"]
MCEntries ==
    [e \in MCDir |->
        CASE e = "/" -> "h" :> "h"
          [] e = "h" -> "a" :> "a" @@ "b" :> "b"
          [] e = "a" -> "c" :> "c" @@ "l" :> "b"
          [] e = "b" -> "d" :> "d" @@ ".x" :> "x" @@ "y." :> "y" @@ "c" :> "d"
          [] OTHER -> << >>]
MCNames == {"PWD", "OLDPWD", "CDPATH", "V"}
MCMortal == {"c"}
MCDotted == {"..", ".x", "y."}

Env(pwd, oldpwd, cdpath) ==
    [n \in MCNames |-> CASE n = "PWD" -> pwd [] n = "OLDPWD" -> oldpwd [] n = "CDPATH" -> cdpath [] OTHER -> Unset]

Ups == {<<"..">>, <<".">>, <<"..", "b">>, <<"l", "..">>, <<"c", "..", "l">>, <<"..", "b", ".x", "..">>,
         <<"..", "b", "y.", "..">>}
Downs == {<<"c">>, <<"d">>, <<"l">>, <<"m">>, <<"l", "d">>}
Absolutes == {P(<<"h", "a">>), P(<<"h", "b", "d">>), P(<<"h", "a", "l">>)}
Last_ == {<<"-">>}

Script(sets, exit, quits) == [sets |-> sets, exit |-> exit, quits |-> quits]
Sets == {Script("V" :> <<"script">>, e, FALSE) : e \in {0, 1}}
Exits == {Script("V" :> <<"script">>, 0, TRUE), Script("V" :> Unset, 0, FALSE)}
Moves == {Script("PWD" :> P(<<"h", "b">>) @@ "OLDPWD" :> P(<<"h", "a">>) @@ "V" :> <<"script">>, 0, FALSE)}

(* Relative names with and without .., absolute ones, and cd - ; names     *)
(* below the directories of CDPATH; a program started without PWD, or with *)
(* one that goes through the link; scripts that fail, call exit, set or    *)
(* unset a variable, or change the directory of their shell.               *)
MCCases ==
    LET Case(dir, env_, args) == [cwd |-> dir, env |-> env_, args |-> args, values |-> {}, scripts |-> {}]
        home == P(<<"h", "a">>)
    IN  {Case("a", Env(home, << >>, << >>), (Ups \ {<<"..">>}) \cup Downs \cup Absolutes \cup Last_),
         Case("a", Env(home, << >>, << >>), Ups \cup Downs),
         Case("b", Env(P(<<"h", "a", "l">>), << >>, <<P(<<"h", "b">>), home>>),
              Downs \cup Absolutes \cup Last_),
         Case("a", Env(home, << >>, <<<<"l">>, home>>), Downs \cup Last_),
         Case("a", Env(<< >>, << >>, << >>), (Ups \ {<<"..">>}) \cup Last_),
         [Case("a", Env(home, << >>, << >>), {<<"..", "b">>} \cup Last_) EXCEPT !.scripts = Moves],
         [Case("a", Env(home, << >>, << >>), {<<"c">>})
            EXCEPT !.scripts = Sets \cup Exits, !.values = {<<"user">>}]}

(* Up twice from a directory in the root.                                  *)
CdUp ==
    {[cwd |-> "h", env |-> Env(P(<<"h">>), << >>, << >>), args |-> {<<"..", "..">>}, values |-> {},
      scripts |-> {}]}
=============================================================================
