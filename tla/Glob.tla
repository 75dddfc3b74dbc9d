-------------------------------- MODULE Glob ---------------------------------
(***************************************************************************)
(* The paths of a wrapped program on Windows: fs::expand (ccsh_utils.cpp)  *)
(* calls glob() (lib/cygwin/glob.cpp) for each, which walks directories    *)
(* that another process changes meanwhile.  The flags are the ones that    *)
(* expand_helper gives, GLOB_NOCHECK | GLOB_TILDE; paths stay shorter than *)
(* MAXPATHLEN and allocations succeed.                                     *)
(***************************************************************************)
EXTENDS Dirent

CONSTANTS
    Order,      \* the characters, as strcmp orders them
    Cases,      \* what is expanded [patterns], the value of HOME or None
                \* [home], and how often the disk may change [changes]
    Nodes,      \* what is on the disk at first
    Volatile    \* what another process creates and removes

ASSUME NameAssumption ==
    /\ None \notin DotNames /\ Root \notin Volatile
    /\ \A n \in (Nodes \cup Volatile) \ {Root} : Last(n) # None

VARIABLES
    c,          \* the case (never changes)
    disk,       \* the nodes that are there
    changes,    \* how often it has changed
    pc,         \* "glob": about to call glob(); "look": in glob2; "read": in
                \* the loop of glob3, or at the end; "end"
    at,         \* in "look": the path so far and the pattern that is left
    stack,      \* the directories open in glob3, the innermost last
    handles,    \* the search handles open in the system
    found,      \* gl_pathv
    paths,      \* what has been expanded so far
    expanded    \* history: for each pattern, the nodes that were there all
                \* the time, those that were there at some time, the paths
vars == <<c, disk, changes, pc, at, stack, handles, found, paths, expanded>>

Ord(ch) == CHOOSE i \in DOMAIN Order : Order[i] = ch
Current == Len(expanded)

-----------------------------------------------------------------------------
(* The compiled pattern: a character, or a meta character or a set.        *)
Lit(ch) == [is |-> "char", ch |-> ch]
M_ALL == [is |-> "all"]
M_ONE == [is |-> "one"]
M_SET(not, members) == [is |-> "set", not |-> not, members |-> members]
ismeta(e) == e.is # "char"

(* The members of the set that begins at q, and the place behind its end;  *)
(* a lone character is a range from it to itself.                          *)
Members(p, q) ==
    LET from[i \in DOMAIN p] ==
            LET ranged == p[i + 1] = "-" /\ p[i + 2] # "]"
                next == i + IF ranged THEN 3 ELSE 1
                this == {<<p[i], IF ranged THEN p[i + 2] ELSE p[i]>>}
            IN  IF p[next] = "]" THEN [set |-> this, next |-> next + 1]
                ELSE LET more == from[next] IN [set |-> this \cup more.set, next |-> more.next]
    IN  from[q]

(* glob0's loop: what it makes of the characters from q on.                *)
Compile(p) ==
    LET from[q \in 1..(Len(p) + 1)] ==
            LET first == q + IF q < Len(p) /\ p[q + 1] = "!" THEN 2 ELSE 1
                closed == \E i \in (first + 1)..Len(p) : p[i] = "]"
                m == Members(p, first)
                more == from[q + 1]
            IN  IF q > Len(p) THEN << >>
                ELSE CASE p[q] = "?" -> <<M_ONE>> \o more
                       [] p[q] = "*" -> IF more # << >> /\ more[1] = M_ALL THEN more ELSE <<M_ALL>> \o more
                       [] p[q] = "[" /\ closed -> <<M_SET(first = q + 2, m.set)>> \o from[m.next]
                       [] OTHER -> <<Lit(p[q])>> \o more
    IN  from[1]

(* ~, and ~user too, is HOME (only the system's own idea of the profile    *)
(* directory is left out).                                                 *)
globtilde(pattern) ==
    IF pattern # << >> /\ pattern[1] = "~" /\ c.home # None
    THEN LET slash == {i \in DOMAIN pattern : pattern[i] = "/"}
         IN  c.home \o IF slash = {} THEN << >>
                       ELSE SubSeq(pattern, CHOOSE i \in slash : \A j \in slash : i <= j, Len(pattern))
    ELSE pattern

(* Whether the name from i on matches the pattern from j on.               *)
match(name, pat) ==
    LET from[i \in 1..(Len(name) + 1), j \in 1..(Len(pat) + 1)] ==
            IF j > Len(pat) THEN i > Len(name)
            ELSE CASE pat[j].is = "all" -> \E k \in i..(Len(name) + 1) : from[k, j + 1]
                   [] pat[j].is = "one" -> i <= Len(name) /\ from[i + 1, j + 1]
                   [] pat[j].is = "set" ->
                        /\ i <= Len(name)
                        /\ pat[j].not # \E r \in pat[j].members : Ord(name[i]) \in Ord(r[1])..Ord(r[2])
                        /\ from[i + 1, j + 1]
                   [] OTHER -> i <= Len(name) /\ name[i] = pat[j].ch /\ from[i + 1, j + 1]
    IN  from[1, 1]

(* compare, as qsort takes it.                                             *)
Before(s, t) ==
    \/ IsStrictPrefix(s, t)
    \/ \E i \in DOMAIN s \cap DOMAIN t :
          Ord(s[i]) < Ord(t[i]) /\ SubSeq(s, 1, i - 1) = SubSeq(t, 1, i - 1)
Sorted(s) == SortSeq(s, Before)

-----------------------------------------------------------------------------
Init ==
    /\ c \in Cases
    /\ disk = Nodes /\ changes = 0
    /\ pc = "glob" /\ at = None
    /\ stack = << >> /\ handles = 0
    /\ found = << >> /\ paths = << >> /\ expanded = << >>

(* path::generic_string: a backslash is a slash, so glob() sees no quotes. *)
generic_string(p) == [i \in DOMAIN p |-> IF p[i] = "\\" THEN "/" ELSE p[i]]
Pattern(i) == generic_string(c.patterns[i])

Begin ==
    /\ pc = "glob"
    /\ LET i == Current + 1
           p == Compile(globtilde(Pattern(i)))
       IN  IF i > Len(c.patterns) THEN pc' = "end" /\ UNCHANGED <<at, expanded, found>>
           ELSE /\ IF p = << >> THEN pc' = "read" /\ at' = None
                   ELSE pc' = "look" /\ at' = [path |-> << >>, pattern |-> p]
                /\ found' = << >>
                /\ expanded' = Append(expanded, [kept |-> disk, seen |-> disk, paths |-> << >>])
    /\ UNCHANGED <<c, disk, changes, stack, handles, paths>>

(* glob2's loop: segments without meta characters are copied, with the     *)
(* slashes behind them; [end] is the end of the first one that has one.    *)
Descend(a) ==
    LET seps == {i \in DOMAIN a.pattern : a.pattern[i] = Lit("/")}
        metas == {i \in DOMAIN a.pattern : ismeta(a.pattern[i])}
        copied == {i \in seps : \A j \in metas : i < j}
        past == CHOOSE i \in copied \cup {0} : \A j \in copied : j <= i
        ends == {i \in seps : i > past}
        end == IF ends = {} THEN Len(a.pattern) ELSE (CHOOSE i \in ends : \A j \in ends : i <= j) - 1
        upto == IF metas = {} THEN Len(a.pattern) ELSE past
    IN  [path |-> a.path \o [i \in 1..upto |-> a.pattern[i].ch],
         segment |-> IF metas = {} THEN << >> ELSE SubSeq(a.pattern, past + 1, end),
         rest |-> IF metas = {} THEN << >> ELSE SubSeq(a.pattern, end + 1, Len(a.pattern))]

LookLeaf ==
    /\ pc = "look"
    /\ LET d == Descend(at)
       IN  /\ d.segment = << >>
           /\ found' = IF Resolve(disk, d.path) # None THEN Append(found, d.path) ELSE found
    /\ pc' = "read" /\ at' = None
    /\ UNCHANGED <<c, disk, changes, stack, handles, paths, expanded>>

(* glob3, up to its loop; g_opendir takes the empty path for ".".          *)
LookDir ==
    /\ pc = "look"
    /\ LET d == Descend(at)
           node == Resolve(disk, d.path)
       IN  /\ d.segment # << >>
           /\ IF opens(disk, node)
              THEN \E first \in Names(disk, node) :
                      /\ stack' = Append(stack, [path |-> d.path, segment |-> d.segment, rest |-> d.rest,
                                                 dir |-> dirent_first(disk, node, first)])
                      /\ handles' = handles + 1
              ELSE UNCHANGED <<stack, handles>>
    /\ pc' = "read" /\ at' = None
    /\ UNCHANGED <<c, disk, changes, found, paths, expanded>>

(* An entry: a dot at its beginning is matched literally only.             *)
Read ==
    /\ pc = "read" /\ stack # << >>
    /\ LET f == Last(stack)
       IN  \E next \in Nexts(f.dir) \ {None} :
              LET name == d_name(next)
                  taken == /\ name[1] = "." => f.segment[1] = Lit(".")
                           /\ match(name, f.segment)
              IN  /\ stack' = [stack EXCEPT ![Len(stack)].dir = dirent_next(@, next)]
                  /\ IF taken THEN pc' = "look" /\ at' = [path |-> f.path \o name, pattern |-> f.rest]
                     ELSE UNCHANGED <<pc, at>>
    /\ UNCHANGED <<c, disk, changes, handles, found, paths, expanded>>

ReadEnd ==
    /\ pc = "read" /\ stack # << >>
    /\ LET s == Last(stack).dir
       IN  /\ Nexts(s) = {None}
           /\ handles' = handles - ClosedByNext(s, None) - ClosedByClosedir(dirent_next(s, None))
    /\ stack' = Front(stack)
    /\ UNCHANGED <<c, disk, changes, pc, at, found, paths, expanded>>

(* Mutant: what has been found is not sorted.                              *)
Result_AsFound == IF found = << >> THEN <<Pattern(Current)>> ELSE found

(* glob0's end.                                                            *)
Result == IF found = << >> THEN <<Pattern(Current)>> ELSE Sorted(found)

(* expand_helper copies and frees.                                         *)
Finish ==
    /\ pc = "read" /\ stack = << >>
    /\ pc' = "glob"
    /\ expanded' = [expanded EXCEPT ![Current].paths = Result]
    /\ paths' = paths \o Result
    /\ UNCHANGED <<c, disk, changes, at, stack, handles, found>>

(* Another process: whether an open handle still hands out what is gone,   *)
(* and already what is new, is up to the file system.                      *)
Change ==
    /\ pc \in {"look", "read"} /\ changes < c.changes
    /\ changes' = changes + 1
    /\ \E v \in Volatile :
          /\ Front(v) \in disk
          /\ \A n \in disk : ~IsStrictPrefix(v, n)
          /\ disk' = IF v \in disk THEN disk \ {v} ELSE disk \cup {v}
          /\ expanded' = [expanded EXCEPT ![Current].kept = @ \cap disk', ![Current].seen = @ \cup disk']
          /\ \E told \in SUBSET {i \in DOMAIN stack : stack[i].dir.node = Front(v) /\ stack[i].dir.handle} :
                stack' = [i \in DOMAIN stack |->
                            IF i \notin told THEN stack[i]
                            ELSE [stack[i] EXCEPT !.dir.left = IF v \in disk THEN @ \ {Last(v)}
                                                               ELSE @ \cup {Last(v)}]]
    /\ UNCHANGED <<c, pc, at, handles, found, paths>>

Done == pc = "end" /\ UNCHANGED vars
Next == Begin \/ LookLeaf \/ LookDir \/ Read \/ ReadEnd \/ Finish \/ Change \/ Done
Spec == Init /\ [][Next]_vars

-----------------------------------------------------------------------------
(* What a pattern means, from its characters: p matches s.                 *)
SetEnd(p, i) ==     \* the ] of the [ at i; 0 if there is none
    LET from == i + IF i < Len(p) /\ p[i + 1] = "!" THEN 3 ELSE 2
        ends == {j \in from..Len(p) : p[j] = "]"}
    IN  IF ends = {} THEN 0 ELSE CHOOSE j \in ends : \A k \in ends : j <= k
InSet(ch, body) ==
    LET ranges == {k \in 2..(Len(body) - 1) : body[k] = "-"}
    IN  \/ \E k \in DOMAIN body : body[k] = ch /\ {k - 1, k, k + 1} \cap ranges = {}
        \/ \E k \in ranges : Ord(ch) \in Ord(body[k - 1])..Ord(body[k + 1])

Means(p, s) ==
    LET from[i \in 1..(Len(p) + 1), k \in 1..(Len(s) + 1)] ==
            IF i > Len(p) THEN k > Len(s)
            ELSE LET e == SetEnd(p, i)
                     not == e > 0 /\ p[i + 1] = "!"
                 IN  CASE p[i] = "*" -> from[i + 1, k] \/ (k <= Len(s) /\ from[i, k + 1])
                       [] p[i] = "?" -> k <= Len(s) /\ from[i + 1, k + 1]
                       [] p[i] = "[" /\ e > 0 ->
                            /\ k <= Len(s) /\ from[e + 1, k + 1]
                            /\ not # InSet(s[k], SubSeq(p, i + IF not THEN 2 ELSE 1, e - 1))
                       [] OTHER -> k <= Len(s) /\ s[k] = p[i] /\ from[i + 1, k + 1]
    IN  from[1, 1]

Magic(seg) == \E i \in DOMAIN seg : seg[i] \in {"*", "?"} \/ (seg[i] = "[" /\ SetEnd(seg, i) > 0)

(* The paths that a pattern stands for on a disk, from the part that is    *)
(* settled: in each part with magic, the names that it matches, hidden     *)
(* ones only if it begins with a dot; the others stand for themselves.     *)
Stands(on, path, p) ==
    LET ends == {i \in DOMAIN p : p[i] = "/" \/ i = Len(p)}
        upto[i \in 0..Len(p)] ==
            LET parts == {j \in ends : j < i}
                from == IF parts = {} THEN 0 ELSE CHOOSE j \in parts : \A k \in parts : k <= j
                slash == IF i > 0 /\ p[i] = "/" THEN <<"/">> ELSE << >>
                seg == SubSeq(p, from + 1, i - Len(slash))
                step(q) ==
                    LET node == Resolve(on, q)
                    IN  IF ~Magic(seg) THEN {seg}
                        ELSE IF node \notin Dirs THEN {}
                        ELSE {n \in {d_name(m) : m \in Names(on, node)} :
                                Means(seg, n) /\ (n[1] = "." => seg[1] = ".")}
            IN  IF i = 0 THEN {path}
                ELSE UNION {{q \o n \o slash : n \in step(q)} : q \in upto[from]}
    IN  {q \in upto[Len(p)] : Resolve(on, q) # None}

Expected(on, p) ==
    LET slash == SelectInSeq(p, LAMBDA ch : ch = "/")
    IN  IF p = << >> THEN {}
        ELSE IF p[1] # "~" \/ c.home = None THEN Stands(on, << >>, p)
        ELSE IF slash = 0 THEN Stands(on, c.home, << >>)
        ELSE Stands(on, Append(c.home, "/"), SubSeq(p, slash + 1, Len(p)))

(* The program gets, for each path in turn, all that match and were there  *)
(* during the whole walk, only what matches and was there at some time of  *)
(* it, in the order of strcmp; and the path as it is if there is nothing   *)
(* (ccsh_utils.cpp:16-46, glob.cpp:175-802).                               *)
Expands ==
    LET settled == IF pc = "glob" \/ pc = "end" THEN Current ELSE Current - 1
    IN  /\ paths = FlattenSeq([i \in 1..settled |-> expanded[i].paths])
        /\ \A i \in 1..settled :
              LET e == expanded[i]
                  kept == Expected(e.kept, Pattern(i))
              IN  \/ e.paths = <<Pattern(i)>> /\ kept = {}
                  \/ /\ e.paths # << >>
                     /\ kept \subseteq ToSet(e.paths)
                     /\ ToSet(e.paths) \subseteq Expected(e.seen, Pattern(i))
                     /\ \A j \in 2..Len(e.paths) : ~Before(e.paths[j], e.paths[j - 1])

(* A search handle is given back to the system once: no more and no less   *)
(* are open than there are directories whose end has not been seen, and    *)
(* none when glob() is over (dirent.h:545-679, glob.cpp:642-689).          *)
HandlesClosed ==
    /\ handles = Cardinality({i \in DOMAIN stack : stack[i].dir.handle})
    /\ pc \in {"glob", "end"} => handles = 0
=============================================================================
