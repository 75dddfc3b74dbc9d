------------------------------ MODULE MCWindows ------------------------------
(***************************************************************************)
(* Windows.tla for TLC: a command whose arguments are all the sequences of *)
(* a letter, a blank, a backslash and a quote, and for cmd.exe also of an  *)
(* ampersand; commands of a pipe and with redirections that two threads    *)
(* start; scripts.                                                         *)
(***************************************************************************)
EXTENDS Windows, TLC

CONSTANTS A, B
MCCommand == {A, B}
MCStd == {"in", "out", "err"}

Strings(n) == BoundedSeq({"a", Backslash, Quote, Space}, n)
ForShell(n) == BoundedSeq({"a", "&", Backslash, Quote, Space}, n)
Empty == [kind |-> "native", argv |-> << <<"p">> >>, std |-> <<"in", "out", "err">>, file |-> None, exits |-> {0}, lines |-> << >>]
Nobody == [Empty EXCEPT !.kind = "none"]
Run(kind, args) == [Empty EXCEPT !.kind = kind, !.argv = @ \o args]

Quoted ==
    {Run("native", <<s>>) : s \in Strings(4)}
        \cup {Run("native", <<s, t>>) : s \in Strings(2), t \in Strings(2)}
        \cup {Run("shell", <<s>>) : s \in ForShell(4)}
        \cup {Run("shell", <<s, t>>) : s \in ForShell(2), t \in ForShell(2)}

Quoting == {[modern |-> TRUE, serial |-> TRUE, cmds |-> (A :> x) @@ (B :> Nobody)] : x \in Quoted}

Writer == [Empty EXCEPT !.std = <<"in", "p1", "err">>, !.exits = {0, 1}]
Reader == [Empty EXCEPT !.std = <<"p0", "out", "err">>]
ToFile == [Empty EXCEPT !.file = "f"]
Script(lines) == [Empty EXCEPT !.kind = "source", !.lines = lines, !.exits = {0, 1}]

Pairs == {<<Writer, Reader>>, <<ToFile, ToFile>>, <<ToFile, Writer>>, 
          <<[Script(<<"ok", "ok">>) EXCEPT !.file = "f"], Nobody>>,
          <<Script(<<"refused", "ok", "bad", "ok">>), Nobody>>,
          <<Script(<<"ok", "ok", "ok">>), Script(<<"ok">>)>>}
Cmds(x) == (A :> x[1]) @@ (B :> x[2])
Concurrent == {[modern |-> m, serial |-> FALSE, cmds |-> Cmds(x)] : m \in BOOLEAN, x \in Pairs}
OneByOne == {[modern |-> FALSE, serial |-> TRUE, cmds |-> Cmds(x)] : x \in Pairs}
MCCases == Quoting \cup Concurrent \cup OneByOne
=============================================================================
