----------------------------- MODULE MCDataPath ------------------------------
EXTENDS DataPath

(* Texts of up to four bytes, with every arrangement of line ends; longer  *)
(* ones that fill the buffers; lines as long as a buffer, give or take one.*)
Texts(n) == UNION {[1..k -> {"a", "n", "r"}] : k \in 0..n}
Long == {<<"a", "b", "a", "a", "b", "b", "a">>, <<"a", "b", "n", "a", "r", "n", "b", "a">>,
         <<"a", "b", "a", "b", "n", "n">>}
Lines == {[i \in 1..k |-> IF i % 2 = 0 THEN "a" ELSE "b"] : k \in 0..(BUFSIZ + 1)}
Vectors == UNION {[1..k -> Lines] : k \in 0..2}

Case(from, input, mid, to) ==
    [from |-> from, input |-> input, mid |-> mid, flush |-> "end", ungets |-> 0, late |-> FALSE,
     to |-> to, append |-> FALSE, room |-> 100, signals |-> FALSE]

AllCases ==
    {Case("string", t, "program", "lines") : t \in Texts(4) \cup Long}
    \cup {[Case("vector", v, "program", "string") EXCEPT !.append = TRUE] : v \in Vectors}
    \cup {[Case("istream", t, "program", "ostream") EXCEPT !.append = TRUE, !.room = r] :
            t \in Texts(1) \cup Long, r \in {2, 3, 100}}
    \cup {[Case("string", t, "function", to) EXCEPT !.flush = f, !.ungets = u] :
            t \in Texts(2) \cup Long, to \in {"string", "lines"},
            f \in {"endl", "end", "never"}, u \in {0, 3}}
    \cup {[Case("vector", v, "function", "lines") EXCEPT !.append = TRUE] : v \in Vectors}
    \cup {[Case("string", t, "program", "string") EXCEPT !.signals = TRUE] : t \in Long}
    \cup {Case("string", <<"a", "b", "f", "a", "b">>, "function", "string"),    \* a full buffer ends in 255
          [Case("string", <<"a">>, "function", "string") EXCEPT !.ungets = 1, !.late = TRUE]}
=============================================================================
