-------------------------------- MODULE Paths --------------------------------
(***************************************************************************)
(* fs::path and the operations of lib/ccsh_filesystem.cpp on it.  A path   *)
(* is the sequence of its elements; that of an absolute one is "/" first.  *)
(* The library builds with std::experimental::filesystem, whose operator/  *)
(* puts strings together whatever they are, and whose remove_filename      *)
(* takes the separator away too.                                           *)
(***************************************************************************)
EXTENDS Integers, Sequences, SequencesExt

CONSTANT Dotted     \* the names of two characters with a dot for one of them

ASSUME DottedAssumption == ".." \in Dotted /\ "/" \notin Dotted

Root == "/"
IsAbsolute(p) == p # << >> /\ p[1] = Root

(* p / q: "/a" / "/b" is "/a/b", and "/a" / "/" is "/a/", which ends in an *)
(* empty name, for which the iterators give ".".                           *)
Join(p, q) ==
    CASE p = << >> -> q
      [] p # << >> /\ q = <<Root>> -> Append(p, ".")
      [] p # << >> /\ IsAbsolute(q) /\ Len(q) > 1 -> p \o Tail(q)
      [] OTHER -> p \o q

(* Not only ".." is spared of the names of two characters, also .x and x.; *)
(* the root, for which slash was meant to stand, is not.                   *)
Spared == {"."} \cup Dotted

(* Mutant: the name before .. stays.                                       *)
NormalStep_Keep(p, i, temp) ==
    IF p[i] = "." /\ i # 1 /\ i # Len(p) THEN temp ELSE Append(temp, p[i])

(* One turn of the loop of self_lexically_normal: ignore "." except at     *)
(* start and last, ignore a name and a following "..".                     *)
NormalStep(p, i, temp) ==
    CASE p[i] = "." /\ i # 1 /\ i # Len(p) -> temp
      [] p[i] = ".." /\ temp # << >> /\ Last(temp) \notin Spared ->
            IF Len(temp) = 1 /\ i + 1 = Len(p) /\ Last(p) = "." THEN <<".">> ELSE Front(temp)
      [] OTHER -> Append(temp, p[i])

self_lexically_normal(p) ==
    IF p = << >> THEN p
    ELSE LET temp == FoldLeftDomain(LAMBDA t, i : NormalStep(p, i, t), << >>, p)
         IN  IF temp = << >> THEN <<".">> ELSE temp

(* How many elements p and q have in common at the start.                  *)
mismatch(p, q) ==
    CHOOSE k \in 0..Len(p) :
        /\ k <= Len(q) /\ \A i \in 1..k : p[i] = q[i]
        /\ k < Len(p) /\ k < Len(q) => p[k + 1] # q[k + 1]

(* Mutant: the elements of the base that are left over are passed over.    *)
self_lexically_relative_Down(p, base) ==
    LET k == mismatch(p, base) IN SubSeq(p, k, Len(p))

(* A "." for every element of the base that is left.                       *)
self_lexically_relative(p, base) ==
    LET k == mismatch(p, base)
    IN  IF k = 0 THEN << >>
        ELSE IF k = Len(p) /\ k = Len(base) THEN <<".">>
        ELSE [i \in 1..(Len(base) - k) |-> "."] \o SubSeq(p, k + 1, Len(p))

-----------------------------------------------------------------------------
(* What the operations above are there for: the path without . and .., as  *)
(* long as no link is among the names, and the path that an absolute or a  *)
(* relative one stands for in the directory cwd.                           *)
Plain(p) ==
    FoldLeft(LAMBDA t, name :
                CASE name = "." -> t
                  [] name = ".." -> IF Len(t) > 1 THEN Front(t) ELSE t
                  [] OTHER -> Append(t, name),
             << >>, p)

From(cwd, p) == IF IsAbsolute(p) THEN p ELSE cwd \o p
=============================================================================
