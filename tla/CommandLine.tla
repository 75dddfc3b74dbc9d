----------------------------- MODULE CommandLine -----------------------------
(***************************************************************************)
(* The command lines of the Windows backend (lib/ccsh_command_windows.cpp):*)
(* a process is given one string there, and its C library takes it apart.  *)
(***************************************************************************)
EXTENDS Integers, Sequences, SequencesExt

Backslash == "\\"
Quote == "\""
Space == " "
Tab == "\t"

Backslashes(n) == [i \in 1..n |-> Backslash]
Separated(words) ==
    FlattenSeq([i \in DOMAIN words |-> IF i = 1 THEN words[i] ELSE <<Space>> \o words[i]])

(* Mutant: a quote is escaped, but not the backslashes before it.          *)
ConvertStep_Quote(s, ch) ==
    CASE ch = Backslash -> [s EXCEPT !.count = @ + 1]
      [] ch = Quote -> [line |-> s.line \o Backslashes(s.count + 1) \o <<Quote>>, count |-> 0]
      [] OTHER -> [line |-> s.line \o Backslashes(s.count) \o <<ch>>, count |-> 0]

(* One turn of the loop of convert_arg.                                    *)
ConvertStep(s, ch) ==
    CASE ch = Backslash -> [s EXCEPT !.count = @ + 1]
      [] ch = Quote -> [line |-> s.line \o Backslashes(s.count * 2 + 1) \o <<Quote>>, count |-> 0]
      [] OTHER -> [line |-> s.line \o Backslashes(s.count) \o <<ch>>, count |-> 0]

convert_arg(arg) ==
    LET s == FoldLeft(ConvertStep, [line |-> <<Quote>>, count |-> 0], arg)
    IN  s.line \o Backslashes(s.count * 2) \o <<Quote>>

convert_argv(argv) == Separated([i \in DOMAIN argv |-> convert_arg(argv[i])])

(* The line that command_shell gives cmd.exe /C.                           *)
ShellLine(argv) ==
    <<Quote>>
        \o Separated([i \in DOMAIN argv |->
               IF Space \in ToSet(argv[i]) THEN convert_arg(argv[i]) ELSE argv[i]])
        \o <<Quote>>

-----------------------------------------------------------------------------
(* How a program takes its line apart: 2n backslashes before a quote are n *)
(* and the quote begins or ends a quoted part, 2n+1 are n and a quote.     *)
ParseStep(s, ch) ==
    CASE ch = Backslash -> [s EXCEPT !.count = @ + 1]
      [] ch = Quote ->
            [s EXCEPT !.word = @ \o Backslashes(s.count \div 2)
                               \o (IF s.count % 2 = 1 THEN <<Quote>> ELSE << >>),
                      !.quoted = IF s.count % 2 = 1 THEN @ ELSE ~@,
                      !.begun = TRUE, !.count = 0]
      [] ch \in {Space, Tab} /\ ~s.quoted ->
            [s EXCEPT !.argv = IF s.begun \/ s.count > 0
                               THEN Append(@, s.word \o Backslashes(s.count)) ELSE @,
                      !.word = << >>, !.begun = FALSE, !.count = 0]
      [] OTHER ->
            [s EXCEPT !.word = Append(@ \o Backslashes(s.count), ch), !.begun = TRUE, !.count = 0]

Parsed(line) ==
    FoldLeft(ParseStep, [argv |-> << >>, word |-> << >>, quoted |-> FALSE, begun |-> FALSE, count |-> 0],
             line \o <<Space>>).argv

(* cmd.exe takes the outer quotes away.  What it reads itself, outside     *)
(* quotes, of which it knows no escaped ones, or anywhere, is not passed   *)
(* on: only the text before it is taken for the program's.                 *)
Special == {"&", "|", "<", ">", "^"}
Anywhere == {"%", "\n", "\r"}

CmdText(line) ==
    LET quoted[i \in 0..Len(line)] == IF i = 0 THEN FALSE ELSE quoted[i - 1] # (line[i] = Quote)
        cuts == {i \in DOMAIN line : line[i] \in Anywhere \/ (line[i] \in Special /\ ~quoted[i])}
    IN  IF cuts = {} THEN line ELSE SubSeq(line, 1, Min(cuts) - 1)

CmdRuns(line) == Parsed(CmdText(SubSeq(line, 2, Len(line) - 1)))
=============================================================================
