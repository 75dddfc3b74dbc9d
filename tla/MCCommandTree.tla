--------------------------- MODULE MCCommandTree ----------------------------
(***************************************************************************)
(* CommandTree.tla for TLC: a notation for expressions, and the sets of    *)
(* expressions of the runs.                                                *)
(***************************************************************************)
EXTENDS CommandTree

(* Nodes are numbered in preorder.                                         *)
LOCAL N(op) ==
    [op |-> op, l |-> 0, r |-> 0, reads |-> FALSE, echo |-> FALSE, out |-> 0, err |-> 0,
     val |-> 0, bad |-> FALSE, nofork |-> FALSE, append |-> FALSE]
LOCAL Shift(t, k) ==
    [i \in 1..Len(t) |-> [t[i] EXCEPT !.l = IF @ = 0 THEN 0 ELSE @ + k,
                                      !.r = IF @ = 0 THEN 0 ELSE @ + k]]
LOCAL Unary(n, t) == <<[n EXCEPT !.l = 2]>> \o Shift(t, 1)
LOCAL Binary(op, t, u) ==
    <<[N(op) EXCEPT !.l = 2, !.r = 2 + Len(t)]>> \o Shift(t, 1) \o Shift(u, 1 + Len(t))

(* The operators of include/ccsh/ccsh_operators.hpp                        *)
Pipe(t, u) == Binary("pipe", t, u)                           \* t | u
And(t, u) == Binary("and", t, u)                             \* t && u
Or(t, u) == Binary("or", t, u)                               \* t || u
Comma(t, u) == Binary("comma", t, u)                         \* t , u
Feed_(k, t) == Unary([N("inmap") EXCEPT !.out = k], t)       \* t < str, k items
Out(t) == Unary(N("outmap"), t)                              \* t > str
OutApp(t) == Unary([N("outmap") EXCEPT !.append = TRUE], t)  \* t >> str
Err(t) == Unary(N("errmap"), t)                              \* t >= str
Dollar(t) == Err(Out(t))                                     \* $(t)
InRed(t) == Unary(N("inred"), t)                             \* t < path
OutRed(t) == Unary(N("outred"), t)                           \* t > path
ErrRed(t) == Unary(N("errred"), t)                           \* t >= path
NoFile(t) == Unary([N("outred") EXCEPT !.bad = TRUE], t)     \* ... not writable
Picky(t) == <<[t[1] EXCEPT !.bad = TRUE]>> \o Tail(t)        \* a functor that throws

(* Leaves: programs that write, copy or digest their input.                *)
Puts(out, err, v) == <<[N("native") EXCEPT !.out = out, !.err = err, !.val = v]>>
Cat == <<[N("native") EXCEPT !.reads = TRUE, !.echo = TRUE]>>
Wc(v) == <<[N("native") EXCEPT !.reads = TRUE, !.out = 1, !.val = v]>>
Exits(v) == Puts(0, 0, v)
Missing == <<[N("native") EXCEPT !.bad = TRUE]>>
Unforked == <<[N("native") EXCEPT !.nofork = TRUE]>>
Bool(v) == <<[N("bool") EXCEPT !.val = v]>>
Function(t) == <<[t[1] EXCEPT !.op = "function"]>>
Builtin(t) == <<[t[1] EXCEPT !.op = "builtin"]>>
Throwing(t) == <<[t[1] EXCEPT !.bad = TRUE]>>

Enough == 16
-----------------------------------------------------------------------------
Programs == {Puts(2, 1, 0), Cat, Wc(1)}

(* Pipes, mappings, redirections, functions and built-in commands, where   *)
(* what the host itself writes to a pipe is read to its end.               *)
Hosted ==
    {Pipe(Function(Puts(2, 1, 0)), x) : x \in {Cat, Wc(0), Function(Wc(2))}}
        \cup {Pipe(Cat, Function(Cat)), Dollar(Function(Puts(1, 1, 0))),
              Pipe(Puts(2, 0, 1), Builtin(Exits(1))), Out(Builtin(Puts(1, 0, 0)))}
Plain ==
    LET ends == Programs \cup {Out(x) : x \in Programs} \cup {OutApp(ErrRed(x)) : x \in Programs}
        pairs == {Pipe(x, y) : x \in ends, y \in ends}
        threes == {Pipe(InRed(Puts(2, 0, 0)), Pipe(x, y)) : x \in Programs, y \in Programs}
                    \cup {Pipe(Pipe(Puts(2, 0, 0), x), y) : x \in Programs, y \in Programs}
        fed == {Feed_(2, x) : x \in {Cat, Out(Wc(0)), Pipe(Cat, Wc(1)), Function(Cat),
                                      Pipe(Wc(0), Exits(0)), Pipe(Cat, ErrRed(OutApp(Cat)))}}
    IN  pairs \cup threes \cup fed \cup {Dollar(Pipe(x, Wc(2))) : x \in ends}

(* && || , over programs, pipes and mappings, alone or redirected, and one *)
(* in another.                                                             *)
Sequences_ ==
    LET ends == {Exits(1), Puts(1, 1, 0), Out(Wc(1)), Bool(0), Function(Exits(0)),
                 Pipe(Puts(1, 0, 1), Wc(0)), Pipe(Exits(0), Wc(2))}
        pairs == UNION {{And(x, y), Or(x, y), Comma(x, y)} : x \in ends, y \in ends}
    IN  pairs \cup {OutRed(x) : x \in pairs}
         \cup {And(Or(Exits(v), x), Or(x, Exits(w))) : v \in 0..1, w \in 0..1, x \in ends}

(* What goes wrong: programs that are missing, files that do not open,     *)
(* functions, built-in commands and functors that throw, and input that    *)
(* nobody reads.                                                           *)
Failing ==
    LET bad == {Missing, Unforked, NoFile(Cat), Throwing(Builtin(Exits(0))), And(Exits(0), Missing)}
        good == {Puts(2, 1, 0), Cat, And(Wc(0), Exits(1)), OutRed(Wc(1))}
        late == {Throwing(Function(Wc(0))), Picky(Out(Puts(2, 0, 0))), Picky(Feed_(1, Cat))}
    IN  {Pipe(x, y) : x \in bad, y \in good \cup bad} \cup {Pipe(y, x) : x \in bad, y \in good}
         \cup UNION {{And(x, y), Or(y, x)} : x \in bad \cup late, y \in good}
         \cup {ErrRed(OutApp(Pipe(x, Cat))) : x \in bad}
         \cup {Pipe(Throwing(Function(Wc(0))), Cat), Pipe(Function(Puts(1, 0, 0)), Exits(0)),
               Feed_(1, Missing), Feed_(1, Exits(0))}

(* Too few descriptors, down to none besides the standard three.           *)
Hungry ==
    {Pipe(Pipe(Cat, Cat), Cat), Pipe(Cat, Dollar(OutRed(Cat))), And(Exits(0), Dollar(Cat)),
     Pipe(Function(Cat), OutRed(Function(Wc(0)))), Feed_(1, Out(Cat))}
Few == 3..12

(* An expression one of whose programs is missing or cannot be forked.     *)
Faulty(t) ==
    UNION {{[t EXCEPT ![n].bad = TRUE], [t EXCEPT ![n].nofork = TRUE]} :
               n \in {m \in DOMAIN t : t[m].op = "native"}}

(* The expressions that run as they read, and those that fail in between.  *)
Sound ==
    ((Plain \cup Hosted \cup UNION {Faulty(t) : t \in Plain}) \X {Enough})
        \cup ((Hungry \cup UNION {Faulty(t) : t \in Hungry}) \X Few)
Unsound == (Sequences_ \cup Failing) \X {Enough}

-----------------------------------------------------------------------------
(* An expression that the library does not run as it reads.                *)
FedOnTheLeft == {<<Pipe(Feed_(1, Cat), Cat), Enough>>}            \* (cat < str) | cat
=============================================================================
