------------------------------ MODULE DataPath -------------------------------
(***************************************************************************)
(* The bytes that go through (c < source) > sink: the functors of          *)
(* lib/ccsh_operators.cpp at both ends, the pumps of lib/ccsh_command.cpp  *)
(* that call them with a buffer of BUFSIZ bytes, the two pipes, and c      *)
(* between them: a program that copies its input in pieces of its own      *)
(* choice, or a function that does so through ifdstream and ofdstream.     *)
(*                                                                         *)
(*   source -> piece -> pipe1 -> held / get area -> put area -> pipe2      *)
(*          -> line_splitter -> sink                                       *)
(*                                                                         *)
(* A byte is "a", "b", the newline "n", the carriage return "r", or "f",   *)
(* the byte 255.  Lines are sequences of bytes.                            *)
(***************************************************************************)
EXTENDS Integers, Sequences, FiniteSetsExt, SequencesExt

CONSTANTS
    BUFSIZ,     \* the size of the pumps' and of the streams' buffers
    PutBack,    \* put_back_size
    PIPESIZE,   \* the capacity of a pipe
    Cases       \* the expressions and inputs to be run: records
                \*   from   "string", "vector" or "istream", with its input
                \*   mid    "program" or "function"
                \*   flush  when the function flushes: "endl", "end", "never"
                \*   ungets how many characters the function puts back
                \*   late   it does so after the end of its input as well
                \*   to     "string", "lines" or "ostream"
                \*   append FALSE for > and >=, TRUE for >> and >>=
                \*   room   how many bytes the ostream takes
                \*   signals  handlers of the host interrupt its writes

ASSUME SizesAssumption ==
    /\ BUFSIZ \in Nat /\ PutBack \in Nat /\ PIPESIZE \in Nat
    /\ 0 < PutBack /\ PutBack < BUFSIZ /\ 0 < PIPESIZE

ASSUME CasesAssumption ==
    LET Byte == {"a", "b", "n", "r", "f"}
    IN  \A x \in Cases :
            /\ x.from \in {"string", "vector", "istream"}
            /\ x.input \in IF x.from = "vector" THEN Seq(Seq(Byte)) ELSE Seq(Byte)
            /\ x.mid \in {"program", "function"} /\ x.to \in {"string", "lines", "ostream"}
            /\ x.ungets \in Nat /\ x.room \in Nat
            /\ {x.append, x.late, x.signals} \subseteq BOOLEAN

Junk == "?"             \* memory that nobody has written

VARIABLES
    c,          \* the case that is run (never changes)
    source,     \* what is left in the string, the vector or the istream
    failbit,    \* the istream has failed
    feed,       \* the input pump: "call", "write" or "done"
    piece,      \* what it is writing
    pipe1, pipe2,
    pc,         \* the program or function: "read" | "put", "flush", "eof", "done"
    held,       \* what the program has read, the character the function got
    mem,        \* ifdstreambuf::buffer_
    eback, gptr, egptr,
    back,       \* how many characters are put back at the moment
    budget,     \* how many the function will still put back
    seen,       \* the characters it has got, and ...
    put,        \* ofdstreambuf: pbase() to pptr()
    flushing,   \* what do_flush is writing
    badbit,     \* the ofdstream has failed
    collect,    \* the output pump: "read" or "done"
    taken,      \* every byte it has read (history)
    temp,       \* line_splitter::temp
    sink        \* the string, the lines or the contents of the ostream

feeding == <<source, failbit, feed, piece>>
getting == <<mem, eback, gptr, egptr, back, budget, seen>>
putting == <<put, flushing, badbit>>
collecting == <<collect, taken, temp, sink>>
vars == <<c, feeding, pipe1, pipe2, pc, held, getting, putting, collecting>>

First(s, k) == SubSeq(s, 1, k)
From(s, k) == SubSeq(s, k + 1, Len(s))
Least(i, j) == IF i < j THEN i ELSE j

(* What the sink has before: one line, or one byte.                        *)
Old == IF c.to = "lines" THEN <<<<"a">>>> ELSE <<"a">>
Kept == IF c.append THEN Old ELSE << >>

Init ==
    /\ c \in Cases
    /\ source = c.input /\ failbit = FALSE
    /\ feed = "call" /\ piece = << >>
    /\ pipe1 = << >> /\ pipe2 = << >>
    /\ pc = "read" /\ held = << >>
    /\ mem = [i \in 0..(BUFSIZ - 1) |-> Junk]
    /\ eback = BUFSIZ /\ gptr = BUFSIZ /\ egptr = BUFSIZ
    /\ back = 0 /\ budget = c.ungets /\ seen = << >>
    /\ put = << >> /\ flushing = << >> /\ badbit = FALSE
    /\ collect = "read" /\ taken = << >> /\ temp = << >>
    /\ sink = Kept

-----------------------------------------------------------------------------
(* The sources.  Each functor gets a buffer and its size s and gives the   *)
(* bytes it has put there; [left] is what is left of its source.           *)

StringSource(str, s) ==
    [bytes |-> First(str, Least(Len(str), s)), left |-> From(str, Least(Len(str), s))]

(* A line that leaves room for its newline is given with it; a longer one  *)
(* in pieces.                                                              *)
VectorSource(vec, s) ==
    IF vec = << >> THEN [bytes |-> << >>, left |-> vec]
    ELSE LET str == Head(vec)
         IN  IF Len(str) < s
             THEN [bytes |-> Append(str, "n"), left |-> Tail(vec)]
             ELSE [bytes |-> First(str, s), left |-> <<From(str, s)>> \o Tail(vec)]

(* Mutant: if (is.read(str, n)) return n; else return -1;                  *)
StreamSource_Whole(str, s) ==
    IF Len(str) >= s THEN StringSource(str, s) ELSE [bytes |-> << >>, left |-> << >>]

(* A read that comes to the end gives what there was; the next one gives   *)
(* -1, as a failed stream reads nothing.                                   *)
StreamSource(str, s) == StringSource(str, s)

Source(s) ==
    CASE c.from = "string" -> StringSource(source, s)
      [] c.from = "vector" -> VectorSource(source, s)
      [] c.from = "istream" ->
            IF failbit THEN [bytes |-> << >>, left |-> source] ELSE StreamSource(source, s)

(* One call of the functor: nothing more ends the pump.                    *)
FeedCall ==
    /\ feed = "call"
    /\ LET given == Source(BUFSIZ)
       IN  /\ source' = given.left
           /\ piece' = given.bytes
           /\ feed' = IF given.bytes = << >> THEN "done" ELSE "write"
           /\ failbit' = (failbit \/ (c.from = "istream" /\ Len(given.bytes) < BUFSIZ))
    /\ UNCHANGED <<c, pipe1, pipe2, pc, held, getting, putting, collecting>>

Room(p) == PIPESIZE - Len(p)

(* write(2) blocks until it has written everything, or until a signal     *)
(* comes when it has written something: nobody looks at the count it       *)
(* returns, here and in do_flush.                                          *)
Rests(bytes, k) == {From(bytes, k)} \cup (IF c.signals THEN {<< >>} ELSE {})

FeedWrite ==
    /\ feed = "write" /\ Room(pipe1) > 0
    /\ LET k == Least(Room(pipe1), Len(piece))
       IN  /\ pipe1' = pipe1 \o First(piece, k)
           /\ piece' \in Rests(piece, k)
           /\ feed' = IF piece' = << >> THEN "call" ELSE "write"
    /\ UNCHANGED <<c, source, failbit, pipe2, pc, held, getting, putting, collecting>>

Over == collect = "done"

Feed == FeedCall \/ FeedWrite

(* Mutant: the pump's end of the pipe lives as long as the future.         *)
AtEof1_Open == pipe1 = << >> /\ feed = "done" /\ Over

(* The pump has closed its end when it was done.                           *)
AtEof1 == pipe1 = << >> /\ feed = "done"
AtEof2 == pipe2 = << >> /\ pc = "done"
-----------------------------------------------------------------------------
(* c is a program.                                                         *)

ProgramReads ==
    /\ c.mid = "program" /\ pc = "read" /\ held = << >> /\ pipe1 # << >>
    /\ held' = pipe1 /\ pipe1' = << >>
    /\ UNCHANGED <<c, feeding, pipe2, pc, getting, putting, collecting>>

ProgramWrites ==
    /\ c.mid = "program" /\ held # << >>
    /\ \E k \in 1..Least(Len(held), Room(pipe2)) :
        /\ pipe2' = pipe2 \o First(held, k)
        /\ held' = From(held, k)
    /\ UNCHANGED <<c, feeding, pipe1, pc, getting, putting, collecting>>

ProgramEnds ==
    /\ c.mid = "program" /\ pc = "read" /\ held = << >> /\ AtEof1
    /\ pc' = "done"
    /\ UNCHANGED <<c, feeding, pipe1, pipe2, held, getting, putting, collecting>>

Program == ProgramReads \/ ProgramWrites \/ ProgramEnds

-----------------------------------------------------------------------------
(* c is a function that copies character by character.                     *)

(* sbumpc with something in the get area.                                  *)
Got(m, g) ==
    /\ gptr' = g + 1
    /\ IF back > 0
       THEN /\ back' = back - 1
            /\ seen' = [seen EXCEPT ![Len(seen) - back + 1] = m[g]]
            /\ UNCHANGED <<pc, held>>
       ELSE /\ seen' = Append(seen, m[g])
            /\ held' = <<m[g]>>
            /\ pc' = "put"
            /\ UNCHANGED back

GetBuffered ==
    /\ c.mid = "function" /\ pc = "read" /\ gptr < egptr
    /\ Got(mem, gptr)
    /\ UNCHANGED <<c, feeding, pipe1, pipe2, mem, eback, egptr, budget, putting, collecting>>

(* Where a fill begins: behind the characters to be put back, except for   *)
(* the first one; and the memory once these have been moved to the front,  *)
(* which for a fill of fewer than PutBack bytes is some from before it.    *)
Start == IF eback = 0 THEN PutBack ELSE 0

(* Mutant: memmove(base, egptr() - put_back_size - 1, put_back_size).      *)
Moved_Early ==
    [i \in DOMAIN mem |->
        IF i >= Start THEN mem[i]
        ELSE IF egptr - PutBack + i - 1 < 0 THEN Junk ELSE mem[egptr - PutBack + i - 1]]

Moved ==
    [i \in DOMAIN mem |->
        IF i >= Start THEN mem[i]
        ELSE IF egptr - PutBack + i < 0 THEN Junk ELSE mem[egptr - PutBack + i]]

(* underflow().                                                            *)
Underflow ==
    /\ c.mid = "function" /\ pc = "read" /\ gptr = egptr /\ pipe1 # << >>
    /\ LET n == Least(BUFSIZ - Start, Len(pipe1))
           m == [i \in DOMAIN mem |->
                    IF i \in Start..(Start + n - 1) THEN pipe1[i - Start + 1] ELSE Moved[i]]
       IN  /\ mem' = m
           /\ pipe1' = From(pipe1, n)
           /\ eback' = 0
           /\ egptr' = Start + n
           /\ Got(m, Start)
    /\ UNCHANGED <<c, feeding, pipe2, budget, putting, collecting>>

(* At the end of the input the pointers stay, and what they point to has   *)
(* been moved nevertheless.                                                *)
UnderflowEof ==
    /\ c.mid = "function" /\ pc = "read" /\ gptr = egptr /\ AtEof1
    /\ mem' = Moved
    /\ pc' = "eof"
    /\ UNCHANGED <<c, feeding, pipe1, pipe2, held, eback, gptr, egptr, back, budget, seen,
                   putting, collecting>>

(* unget(): as far as the characters go that it has got.                   *)
Unget ==
    /\ c.mid = "function" /\ (pc = "read" \/ (pc = "eof" /\ c.late))
    /\ budget > 0 /\ back < Least(PutBack, Len(seen))
    /\ eback < gptr
    /\ budget' = budget - 1 /\ back' = back + 1 /\ gptr' = gptr - 1
    /\ pc' = "read"
    /\ UNCHANGED <<c, feeding, pipe1, pipe2, held, mem, eback, egptr, seen, putting, collecting>>

(* sputc: epptr() leaves one place for overflow().                         *)
PutBuffered ==
    /\ pc = "put" /\ (badbit \/ Len(put) < BUFSIZ - 1)
    /\ put' = IF badbit THEN put ELSE put \o held
    /\ pc' = IF ~badbit /\ held = <<"n">> /\ c.flush = "endl" THEN "flush" ELSE "read"
    /\ held' = << >>
    /\ UNCHANGED <<c, feeding, pipe1, pipe2, getting, flushing, badbit, collecting>>

(* overflow(c): the character goes to the last place and all are flushed.  *)
Overflow ==
    /\ pc = "put" /\ ~badbit /\ Len(put) = BUFSIZ - 1
    /\ flushing' = put \o held /\ put' = << >> /\ pc' = "overflow"
    /\ UNCHANGED <<c, feeding, pipe1, pipe2, held, getting, badbit, collecting>>

(* sync(), of a std::endl or std::flush.                                   *)
Sync ==
    /\ pc = "flush"
    /\ flushing' = put /\ put' = << >> /\ pc' = "sync"
    /\ UNCHANGED <<c, feeding, pipe1, pipe2, held, getting, badbit, collecting>>

(* do_flush: the write.                                                    *)
FlushWrites ==
    /\ pc \in {"overflow", "sync", "last"} /\ flushing # << >> /\ Room(pipe2) > 0
    /\ LET k == Least(Room(pipe2), Len(flushing))
       IN  pipe2' = pipe2 \o First(flushing, k) /\ flushing' \in Rests(flushing, k)
    /\ UNCHANGED <<c, feeding, pipe1, pc, held, getting, put, badbit, collecting>>

(* overflow returns the character, and as a char 255 is eof; the newline   *)
(* of a std::endl that did not fit is flushed again, for nothing.          *)
Flushed ==
    /\ pc \in {"overflow", "sync"} /\ flushing = << >>
    /\ badbit' = (pc = "overflow" /\ held = <<"f">>)
    /\ pc' = "read"
    /\ held' = << >>
    /\ UNCHANGED <<c, feeding, pipe1, pipe2, getting, put, flushing, collecting>>

(* The function returns: nothing flushes the stream that it leaves.        *)
FunctionFlushes ==
    /\ pc = "eof" /\ c.flush # "never"
    /\ flushing' = put /\ put' = << >> /\ pc' = "last"
    /\ UNCHANGED <<c, feeding, pipe1, pipe2, held, getting, badbit, collecting>>

FunctionEnds ==
    /\ \/ pc = "eof" /\ c.flush = "never"
       \/ pc = "last" /\ flushing = << >>
    /\ pc' = "done"
    /\ UNCHANGED <<c, feeding, pipe1, pipe2, held, getting, putting, collecting>>

Function ==
    \/ GetBuffered \/ Underflow \/ UnderflowEof \/ Unget \/ PutBuffered \/ Overflow
    \/ Sync \/ FlushWrites \/ Flushed \/ FunctionFlushes \/ FunctionEnds

-----------------------------------------------------------------------------
(* The sinks.                                                              *)

Chomp(line) == IF line # << >> /\ Last(line) = "r" THEN Front(line) ELSE line

(* Mutant: without temp.clear().                                           *)
Splitter_NoClear(s, bytes) ==
    FoldLeft(LAMBDA acc, b :
                IF b = "n" THEN [lines |-> Append(acc.lines, Chomp(acc.temp)), temp |-> acc.temp]
                ELSE [acc EXCEPT !.temp = Append(@, b)],
             [lines |-> << >>, temp |-> s], bytes)

(* line_splitter::operator() on a piece, with temp = s before it.          *)
Splitter(s, bytes) ==
    FoldLeft(LAMBDA acc, b :
                IF b = "n" THEN [lines |-> Append(acc.lines, Chomp(acc.temp)), temp |-> << >>]
                ELSE [acc EXCEPT !.temp = Append(@, b)],
             [lines |-> << >>, temp |-> s], bytes)

StringSink(bytes) == sink' = sink \o bytes /\ UNCHANGED temp

LinesSink(bytes) ==
    LET r == Splitter(temp, bytes) IN sink' = sink \o r.lines /\ temp' = r.temp

(* os.write: a stream that cannot take everything takes what it can and    *)
(* has failed; the pump does not look at what its functor returns.         *)
StreamSink(bytes) ==
    /\ sink' = sink \o IF Len(taken) > c.room THEN << >>
                       ELSE First(bytes, Least(Len(bytes), c.room - Len(taken)))
    /\ UNCHANGED temp

(* read_compat and the call of the functor.                                *)
Collect ==
    /\ collect = "read" /\ pipe2 # << >>
    /\ LET bytes == First(pipe2, Least(BUFSIZ, Len(pipe2)))
       IN  /\ pipe2' = From(pipe2, Len(bytes))
           /\ taken' = taken \o bytes
           /\ CASE c.to = "string" -> StringSink(bytes)
                [] c.to = "lines" -> LinesSink(bytes)
                [] c.to = "ostream" -> StreamSink(bytes)
    /\ UNCHANGED <<c, feeding, pipe1, pc, held, getting, putting, collect>>

CollectEnds ==
    /\ collect = "read" /\ AtEof2
    /\ collect' = "done"
    /\ UNCHANGED <<c, feeding, pipe1, pipe2, pc, held, getting, putting, taken, temp, sink>>

Next == Feed \/ Program \/ Function \/ Collect \/ CollectEnds \/ (Over /\ UNCHANGED vars)

(* The pumps, the program and the function run whenever they can.          *)
Spec == Init /\ [][Next]_vars /\ WF_vars(Next)
-----------------------------------------------------------------------------
(* The bytes of a source, and the lines of a text: what follows the last   *)
(* newline is no line.                                                     *)
Bytes(from, s) ==
    IF from = "vector" THEN FlattenSeq([i \in DOMAIN s |-> Append(s[i], "n")]) ELSE s

Newlines(s) == {i \in DOMAIN s : s[i] = "n"}

LinesOf(s) ==
    [k \in 1..Cardinality(Newlines(s)) |->
        LET end == CHOOSE i \in Newlines(s) : Cardinality({j \in Newlines(s) : j < i}) = k - 1
            begin == Max({0} \cup {j \in Newlines(s) : j < end})
            line == SubSeq(s, begin + 1, end - 1)
        IN  IF line # << >> /\ line[Len(line)] = "r" THEN SubSeq(line, 1, Len(line) - 1) ELSE line]

Input == Bytes(c.from, c.input)
Matched(s, t) ==
    FoldLeft(LAMBDA k, b : IF k < Len(s) /\ s[k + 1] = b THEN k + 1 ELSE k, 0, t)

(* At the end the sink has everything that c has flushed, once and in      *)
(* order: the bytes, as many as the ostream takes, or exactly the lines    *)
(* that are complete; and the source has nothing left.  A write cut short  *)
(* by a signal loses bytes, but those that arrive are still in order       *)
(* (ccsh_operators.cpp:14-205, ccsh_command.cpp:56-87,                     *)
(* test_mapping.cpp:17, 45-62).  Not so when overflow() has been called    *)
(* with the byte 255, which sets badbit (ccsh_fdstream.cpp:34).            *)
Delivered ==
    Over /\ ~badbit =>
        LET all == First(Input, Len(Input) - Len(put))
        IN  IF c.signals THEN Matched(taken, Input) = Len(taken)
            ELSE /\ source = << >>
                 /\ sink = Kept \o CASE c.to = "string" -> all
                                       [] c.to = "lines" -> LinesOf(all)
                                       [] c.to = "ostream" -> First(all, Least(c.room, Len(all)))

(* A line is delivered as soon as its newline has been read, once, and as  *)
(* it is whatever pieces it came in (ccsh_utils.hpp:132-150).              *)
SplitAtOnce ==
    c.to = "lines" => sink = Kept \o LinesOf(taken) /\ "n" \notin ToSet(temp)

(* A character that is put back and got again is the same one, across      *)
(* refills of the buffer too (ccsh_fdstream.cpp:48-53); not so when it is  *)
(* put back at the end of the input (48-64), where the memory has been     *)
(* moved and the pointers have not.                                        *)
PutBackKept ==
    c.mid = "function" /\ ~c.signals /\ ~c.late => seen = First(Input, Len(seen))

(* Neither the pumps nor c wait for ever.                                  *)
PathEnds == <>Over
=============================================================================
