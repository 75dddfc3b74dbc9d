------------------------------- MODULE Dirent --------------------------------
(***************************************************************************)
(* The directory streams of the Windows build (lib/cygwin/dirent.h) over   *)
(* the system's search handles, and the file system that both they and     *)
(* glob() look at.  A node is the sequence of the names that lead to it    *)
(* from the root; a name and a path are sequences of characters.           *)
(***************************************************************************)
EXTENDS Integers, Sequences, FiniteSets, SequencesExt

CONSTANTS
    None,
    Root,       \* the node above all others
    Cwd,        \* the node of the working directory
    Dirs,       \* the nodes that are directories, if they are there
    Short       \* of each name that multi-byte characters cannot represent,
                \* the 8+3 name the file system gives it; or None

ASSUME NodeAssumption == Root = << >> /\ {Root, Cwd} \subseteq Dirs

DotNames == {<<".">>, <<".", ".">>}
Names(disk, dir) ==
    {Last(n) : n \in {m \in disk : m # Root /\ Front(m) = dir}} \cup (IF dir = Root THEN {} ELSE DotNames)

-----------------------------------------------------------------------------
(* The node that a path leads to; a name stands for its short form too.    *)
Step(disk, node, name) ==
    IF node = None \/ node \notin Dirs THEN None
    ELSE IF name = <<".">> THEN node
    ELSE IF name = <<".", ".">> THEN IF node = Root THEN Root ELSE Front(node)
    ELSE LET child == {m \in disk : m # Root /\ Front(m) = node
                           /\ (Last(m) = name \/ (Last(m) \in DOMAIN Short /\ Short[Last(m)] = name))}
         IN  IF child = {} THEN None ELSE CHOOSE m \in child : TRUE

Pieces(path) ==     \* between the slashes
    LET s == FoldLeft(LAMBDA p, ch : IF ch = "/" THEN Append(p, << >>)
                                     ELSE [p EXCEPT ![Len(p)] = Append(@, ch)],
                      << << >> >>, path)
    IN  SelectSeq(s, LAMBDA p : p # << >>)

Resolve(disk, path) ==
    LET node == FoldLeft(LAMBDA n, name : Step(disk, n, name),
                         IF path # << >> /\ path[1] = "/" THEN Root ELSE Cwd, Pieces(path))
    IN  IF path # << >> /\ Last(path) = "/" /\ node \notin Dirs THEN None ELSE node

-----------------------------------------------------------------------------
(* Whether opendir, and under it _wopendir, has a stream to return.        *)
opens(disk, node) == node \in Dirs /\ Names(disk, node) # {}

(* A stream whose first entry the system has handed out with the handle.   *)
dirent_first(disk, node, first) ==
    [node |-> node, cached |-> TRUE, data |-> first, left |-> Names(disk, node) \ {first}, handle |-> TRUE]

(* What the next dirent_next may hand out.                                 *)
Nexts(s) == IF s.cached THEN {s.data} ELSE IF s.handle /\ s.left # {} THEN s.left ELSE {None}

(* Mutant: the handle that is closed at the end of the directory is kept.  *)
dirent_next_Kept(s, next) ==
    [s EXCEPT !.cached = FALSE, !.data = next, !.left = @ \ {next}]

dirent_next(s, next) ==
    [s EXCEPT !.cached = FALSE, !.data = next, !.left = @ \ {next}, !.handle = @ /\ next # None]

(* The name readdir gives.                                                 *)
d_name(name) ==
    IF name \notin DOMAIN Short THEN name ELSE IF Short[name] # None THEN Short[name] ELSE <<"?">>

(* What reading an entry and what closing the stream give back.            *)
ClosedByNext(s, next) == IF ~s.cached /\ s.handle /\ next = None THEN 1 ELSE 0
ClosedByClosedir(s) == IF s.handle THEN 1 ELSE 0
=============================================================================
