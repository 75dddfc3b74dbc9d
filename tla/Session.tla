------------------------------- MODULE Session -------------------------------
(***************************************************************************)
(* What the commands of one program share: its working directory and its   *)
(* environment.  The main thread runs cd, pwd and assignments to variables *)
(* (lib/builtins, lib/ccsh_utils*.cpp); a sourced script (command_source   *)
(* of lib/ccsh_command_posix.cpp) runs in a child with a copy of both, and *)
(* a task of the program applies the environment that the child prints,    *)
(* variable by variable, while the main thread may go on, as in            *)
(* source(script) | cd(dir).  Another process may remove directories.      *)
(***************************************************************************)
EXTENDS Paths, FiniteSets

CONSTANTS
    Dir,        \* the directories; "/" is the root
    None,
    PathOf,     \* PathOf[d]: the absolute path of d without links
    Parent,     \* Parent[d]: the directory .. of d
    Entries,    \* Entries[d]: a function from names to directories, with
                \* links to directories elsewhere among them
    Home,       \* the directory get_home() names
    Mortal,     \* the directories that another process may remove
    Names,      \* the variables
    Cases       \* what is run: the first directory [cwd] and environment
                \* [env], the arguments of cd [args], the values that the
                \* program gives to the variable V [values], and the scripts,
                \* by the variables they set or unset, their exit codes, and
                \* whether they end by calling exit [scripts]

ASSUME TreeAssumption ==
    /\ Root \in Dir /\ Home \in Dir /\ None \notin Dir /\ Mortal \subseteq Dir \ {Root}
    /\ PathOf \in [Dir -> Seq(STRING)] /\ Parent \in [Dir -> Dir]
    /\ \A d \in Dir : \A name \in DOMAIN Entries[d] : Entries[d][name] \in Dir

(* The path of a directory is that of the one it is in and the name of its *)
(* entry there, which is not a link.                                       *)
ASSUME PathAssumption ==
    /\ PathOf[Root] = <<Root>>
    /\ \A d \in Dir \ {Root} : \E name \in DOMAIN Entries[Parent[d]] \ {Root, ".", ".."} :
          Entries[Parent[d]][name] = d /\ PathOf[d] = Append(PathOf[Parent[d]], name)

ASSUME CasesAssumption ==
    /\ {"PWD", "OLDPWD", "CDPATH"} \subseteq Names
    /\ \A x \in Cases : x.env = [n \in Names |-> x.env[n]]

VARIABLES
    c,          \* the case (never changes)
    cwd,        \* the working directory
    live,       \* the directories there are
    env,        \* the environment; << >> for a variable that is not set
    pc,         \* the main thread: "idle", or where bindpwd has come
    op,         \* the cd under way, or the last that changed the directory
    tcwd,       \* bindpwd's copy of the name of the directory
    out,        \* what the cd under way has printed: a path or << >>
    status,     \* what became of it: "ok", "fail" or "threw"
    src,        \* the sourced script, and the task that applies its environment
    synced,     \* PWD has been set by cd or pwd, not by a script (history)
    returns,    \* so has OLDPWD, from a PWD that was right (history)
    alone       \* nothing but the script has touched the environment (history)

history == <<synced, returns, alone>>
vars == <<c, cwd, live, env, pc, op, tcwd, out, status, src, history>>

Unset == << >>
NoVariables == [n \in Names |-> Unset]
NoScript ==
    [st |-> "none", before |-> NoVariables, left |-> NoVariables, todo |-> {}, exit |-> 0,
     quits |-> FALSE, stopped |-> FALSE]
NoCd(d) == [dir |-> << >>, logical |-> TRUE, from |-> d]

Init ==
    /\ c \in Cases
    /\ cwd = c.cwd /\ env = c.env /\ live = Dir
    /\ pc = "idle" /\ op = NoCd(cwd)
    /\ tcwd = << >> /\ out = << >> /\ status = "ok"
    /\ src = NoScript
    /\ synced = FALSE /\ returns = FALSE /\ alone = TRUE

-----------------------------------------------------------------------------
(* The kernel's: the directory a path names, seen from directory d.        *)
Step(d, name) ==
    CASE d = None -> None
      [] d # None /\ name = Root -> Root
      [] d # None /\ name = "." -> d
      [] d # None /\ name = ".." -> IF d \in live THEN Parent[d] ELSE None
      [] OTHER -> IF d \in live /\ name \in DOMAIN Entries[d] /\ Entries[d][name] \in live
                  THEN Entries[d][name] ELSE None
Resolve(d, p) == IF p = << >> THEN None ELSE FoldLeft(Step, d, p)

Rmdir(d) ==
    /\ d \in Mortal \cap live /\ \A e \in live \ {d, Root} : Parent[e] # d
    /\ live' = live \ {d}
    /\ UNCHANGED <<c, cwd, env, pc, op, tcwd, out, status, src, history>>

-----------------------------------------------------------------------------
(* fs::weakly_canonical and fs::relative: the part of the path that there  *)
(* is without its links, and the rest of it as it reads.                   *)
weakly_canonical(p) ==
    LET there == {k \in 1..Len(p) : Resolve(cwd, SubSeq(p, 1, k)) # None}
        k == CHOOSE k \in there : \A j \in there : j <= k
        head == PathOf[Resolve(cwd, SubSeq(p, 1, k))]
        tail == SubSeq(p, k + 1, Len(p))
    IN  IF there = {} THEN self_lexically_normal(p)
        ELSE IF {".", ".."} \cap ToSet(tail) = {} THEN Join(head, tail)
        ELSE self_lexically_normal(Join(head, tail))

relative(p, base) == self_lexically_relative(weakly_canonical(p), weakly_canonical(base))

(* The directory the prompt shows.                                         *)
get_current_path_abbreviated ==
    IF PathOf[cwd] = PathOf[Home] THEN <<"~">>
    ELSE Join(<<"~">>, relative(PathOf[cwd], PathOf[Home]))

-----------------------------------------------------------------------------
(* cd.                                                                     *)

(* Where change_to_directory goes, or None: with -L to the path without .. *)
(* and, if this is not a directory, where -P goes.                         *)
change_to_directory(newdir, logical) ==
    LET lexical == self_lexically_normal(Join(PathOf[cwd], newdir))
    IN  IF logical /\ Resolve(cwd, lexical) # None THEN Resolve(cwd, lexical)
        ELSE Resolve(cwd, newdir)

(* Mutant: the directory itself before those of CDPATH.                    *)
Tries_DirFirst(dir) ==
    IF dir = <<"-">> THEN <<env["OLDPWD"]>>
    ELSE <<dir>> \o [i \in DOMAIN env["CDPATH"] |-> Join(env["CDPATH"][i], dir)]

(* What runx tries in turn: below the directories of CDPATH, of which      *)
(* strtok_r skips the empty ones, also if dir is absolute.                 *)
Tries(dir) ==
    IF dir = <<"-">> THEN <<env["OLDPWD"]>>
    ELSE [i \in DOMAIN env["CDPATH"] |-> Join(env["CDPATH"][i], dir)] \o <<dir>>

Found(dir, logical) ==
    {i \in DOMAIN Tries(dir) : change_to_directory(Tries(dir)[i], logical) # None}

NoOldpwd(dir) == dir = <<"-">> /\ env["OLDPWD"] = Unset

(* The name of the directory, if it is not the one that was asked for.     *)
Printed(dir, logical, i, new) ==
    CASE dir = <<"-">> -> Tries(dir)[i]
      [] dir # <<"-">> /\ i = Len(Tries(dir)) -> << >>
      [] OTHER -> IF logical THEN PathOf[new] ELSE Tries(dir)[i]

CdMoves(dir, logical) ==
    /\ pc = "idle" /\ ~NoOldpwd(dir) /\ cwd \in live
    /\ Found(dir, logical) # {}
    /\ LET i == CHOOSE i \in Found(dir, logical) : \A j \in Found(dir, logical) : i <= j
       IN  /\ cwd' = change_to_directory(Tries(dir)[i], logical)
           /\ out' = Printed(dir, logical, i, cwd')
    /\ op' = [dir |-> dir, logical |-> logical, from |-> cwd]
    /\ pc' = "cwd" /\ synced' = FALSE /\ returns' = (Resolve(cwd, env["PWD"]) = cwd)
    /\ UNCHANGED <<c, live, env, tcwd, status, src, alone>>

(* The directory cannot be changed; or the current one is gone, and        *)
(* get_current_path() throws before anything is tried.                     *)
CdFails(dir, logical) ==
    /\ pc = "idle"
    /\ NoOldpwd(dir) \/ cwd \notin live \/ Found(dir, logical) = {}
    /\ status' = IF ~NoOldpwd(dir) /\ cwd \notin live THEN "threw" ELSE "fail"
    /\ UNCHANGED <<c, cwd, live, env, pc, op, tcwd, out, src, history>>

Ends(s) ==
    /\ pc' = "idle" /\ status' = s
    /\ tcwd' = << >> /\ out' = << >> /\ op' = NoCd(op.from)

(* Mutant: the name is taken before the directory is changed.              *)
BindCwd_Before ==
    /\ pc = "cwd"
    /\ pc' = "old" /\ tcwd' = PathOf[op.from]
    /\ UNCHANGED <<c, cwd, live, env, op, out, status, src, history>>

(* bindpwd: the name of the directory, ...                                 *)
BindCwd ==
    /\ pc = "cwd"
    /\ IF cwd \in live THEN pc' = "old" /\ tcwd' = PathOf[cwd] /\ UNCHANGED <<op, out, status>>
       ELSE Ends("threw")
    /\ UNCHANGED <<c, cwd, live, env, src, history>>

(* Mutant: OLDPWD becomes the new directory.                               *)
BindOld_New ==
    /\ pc = "old"
    /\ IF op.logical /\ cwd \notin live THEN Ends("ok") /\ UNCHANGED <<env, alone>>
       ELSE IF env["PWD"] = Unset THEN Ends("threw") /\ UNCHANGED <<env, alone>>
       ELSE /\ env' = [env EXCEPT !["OLDPWD"] = tcwd]
            /\ alone' = FALSE /\ pc' = "new" /\ UNCHANGED <<op, tcwd, out, status>>
    /\ returns' = (returns /\ pc' = "new")
    /\ UNCHANGED <<c, cwd, live, src, synced>>

(* ... which -L looks up once more; OLDPWD, of a PWD that must be there; ..*)
BindOld ==
    /\ pc = "old"
    /\ IF op.logical /\ cwd \notin live THEN Ends("ok") /\ UNCHANGED <<env, alone>>
       ELSE IF env["PWD"] = Unset THEN Ends("threw") /\ UNCHANGED <<env, alone>>
       ELSE /\ env' = [env EXCEPT !["OLDPWD"] = env["PWD"]]
            /\ alone' = FALSE /\ pc' = "new" /\ UNCHANGED <<op, tcwd, out, status>>
    /\ returns' = (returns /\ pc' = "new")
    /\ UNCHANGED <<c, cwd, live, src, synced>>

(* ... and PWD.                                                            *)
BindNew ==
    /\ pc = "new"
    /\ env' = [env EXCEPT !["PWD"] = tcwd]
    /\ Ends("ok")
    /\ synced' = TRUE /\ alone' = FALSE
    /\ UNCHANGED <<c, cwd, live, src, returns>>

(* setenv() has no memory for either: bindpwd stops where it is.           *)
BindFails ==
    /\ pc \in {"old", "new"}
    /\ pc = "old" => env["PWD"] # Unset /\ (op.logical => cwd \in live)
    /\ Ends("fail")
    /\ returns' = (returns /\ pc # "old")
    /\ UNCHANGED <<c, cwd, live, env, src, synced, alone>>

(* pwd, which with -L sets PWD to what it prints.                          *)
Pwd(verbatim) ==
    /\ pc = "idle"
    /\ IF cwd \in live
       THEN /\ status' = "ok"
            /\ env' = IF verbatim THEN [env EXCEPT !["PWD"] = PathOf[cwd]] ELSE env
            /\ synced' = (synced \/ verbatim) /\ alone' = (alone /\ ~verbatim)
            /\ UNCHANGED returns
       ELSE /\ status' = IF verbatim THEN "threw" ELSE "fail"
            /\ UNCHANGED <<env, history>>
    /\ UNCHANGED <<c, cwd, live, pc, op, tcwd, out, src>>

(* A pwd whose setenv() fails, and an env_var::set, after which only the   *)
(* caller knows of it.                                                     *)
Changeless(s) ==
    /\ pc = "idle" /\ status' = s
    /\ UNCHANGED <<c, cwd, live, env, pc, op, tcwd, out, src, history>>
PwdFails == cwd \in live /\ Changeless("fail")
SetThrows == Changeless("threw")

(* env_var::set.                                                           *)
Set(name, value, overwrite) ==
    /\ pc = "idle"
    /\ env' = IF overwrite \/ env[name] = Unset THEN [env EXCEPT ![name] = value] ELSE env
    /\ alone' = FALSE
    /\ UNCHANGED <<c, cwd, live, pc, op, tcwd, out, status, src, synced, returns>>

-----------------------------------------------------------------------------
(* command_source.                                                         *)

(* A shell is started with the environment and told to print it when the   *)
(* script is over; [left] is the environment that it leaves.               *)
SourceStarts(script) ==
    /\ pc = "idle" /\ src.st = "none"
    /\ src' = [st |-> "script", todo |-> {}, exit |-> script.exit, quits |-> script.quits,
               stopped |-> FALSE, before |-> env,
               left |-> [n \in Names |-> IF n \in DOMAIN script.sets THEN script.sets[n] ELSE env[n]]]
    /\ alone' = TRUE
    /\ UNCHANGED <<c, cwd, live, env, pc, op, tcwd, out, status, synced, returns>>

(* There is no pipe, no shell, or no thread for the task; in the last case *)
(* the shell runs the script, and finds nobody to print to.                *)
SourceThrows == src.st = "none" /\ Changeless("threw")

Prints == src.exit = 0 /\ ~src.quits
Killed == 141       \* the shell's code for a printenv that SIGPIPE has ended

(* Mutant: . script ; printenv -0                                          *)
ScriptEnds_Always ==
    /\ src.st = "script"
    /\ src' = [src EXCEPT !.st = "apply", !.todo = {n \in Names : src.left[n] # Unset}]
    /\ UNCHANGED <<c, cwd, live, env, pc, op, tcwd, out, status, history>>

(* . script && (printenv -0) >&fd: all the variables that are set, unless  *)
(* the script fails or leaves by exit, or nobody reads any more.           *)
ScriptEnds ==
    /\ src.st = "script"
    /\ src' = [src EXCEPT !.st = "apply",
                          !.todo = IF Prints /\ ~src.stopped THEN {n \in Names : src.left[n] # Unset} ELSE {},
                          !.exit = IF Prints /\ src.stopped THEN Killed ELSE @]
    /\ UNCHANGED <<c, cwd, live, env, pc, op, tcwd, out, status, history>>

(* env_applier: env_putter for one of them.                                *)
Apply(n) ==
    /\ src.st = "apply" /\ n \in src.todo
    /\ env' = [env EXCEPT ![n] = src.left[n]]
    /\ src' = [src EXCEPT !.todo = @ \ {n}]
    /\ synced' = (synced /\ n # "PWD")
    /\ returns' = (returns /\ n # "OLDPWD" /\ ~(n = "PWD" /\ pc \in {"cwd", "old"}))
    /\ UNCHANGED <<c, cwd, live, pc, op, tcwd, out, status, alone>>

(* The task ends before the end of its input: a signal interrupts read(),  *)
(* or setenv() has no memory.  printenv may have written all by then.      *)
ApplierStops ==
    /\ (src.st = "script" /\ ~src.stopped) \/ src.todo # {}
    /\ \E code \in {src.exit} \cup IF src.st = "apply" THEN {Killed} ELSE {} :
          src' = [src EXCEPT !.stopped = TRUE, !.todo = {}, !.exit = code]
    /\ UNCHANGED <<c, cwd, live, env, pc, op, tcwd, out, status, history>>

(* finish_run waits for the task, whatever it has thrown, and the shell.   *)
SourceEnds ==
    /\ pc = "idle" /\ src.st = "apply" /\ src.todo = {}
    /\ src' = NoScript
    /\ status' = IF src.exit = 0 THEN "ok" ELSE "fail"
    /\ UNCHANGED <<c, cwd, live, env, pc, op, tcwd, out, history>>

Next ==
    \/ \E dir \in c.args, logical \in BOOLEAN : CdMoves(dir, logical) \/ CdFails(dir, logical)
    \/ BindCwd \/ BindOld \/ BindNew \/ BindFails
    \/ PwdFails \/ \E verbatim \in BOOLEAN : Pwd(verbatim)
    \/ \E value \in c.values, overwrite \in BOOLEAN : Set("V", value, overwrite) \/ SetThrows
    \/ \E script \in c.scripts : SourceStarts(script) \/ SourceThrows
    \/ ScriptEnds \/ ApplierStops \/ SourceEnds
    \/ \E n \in Names : Apply(n)
    \/ \E d \in Dir : Rmdir(d)

Spec == Init /\ [][Next]_vars

-----------------------------------------------------------------------------
(* After cd or pwd, PWD is the name of the working directory, until a      *)
(* script's environment is applied (cd.cpp:73-91, pwd.cpp:47-49).          *)
PwdTracks == pc = "idle" /\ synced => env["PWD"] = PathOf[cwd] \/ cwd \notin live

(* A cd goes to the directory that POSIX has it go to when PWD is the name *)
(* of the working directory, as bindpwd sets it: below the first directory *)
(* of CDPATH where there is one, unless dir begins with /, . or .., else   *)
(* to dir itself; -L takes away . and .. before it follows links, -P       *)
(* afterwards (cd.cpp:21-70, 93-121, 156-187).                             *)
Meant(p, logical) ==
    LET lexical == Plain(From(PathOf[cwd], p))
    IN  IF logical /\ Resolve(cwd, lexical) # None THEN Resolve(cwd, lexical)
        ELSE Resolve(cwd, p)

CdStep ==
    op'.dir # <<"-">> =>
        LET dir == op'.dir
            below == {i \in DOMAIN env["CDPATH"] :
                        dir[1] \notin {Root, ".", ".."} /\ Meant(env["CDPATH"][i] \o dir, op'.logical) # None}
        IN  cwd' = IF below = {} THEN Meant(dir, op'.logical)
                   ELSE Meant(env["CDPATH"][CHOOSE i \in below : \A j \in below : i <= j] \o dir,
                              op'.logical)
CdGoesThere == [][pc = "idle" /\ pc' = "cwd" => CdStep]_vars

(* cd - goes back to where the last cd came from (cd.cpp:84, 146-155).     *)
CdBack ==
    [][pc = "idle" /\ pc' = "cwd" /\ op'.dir = <<"-">> /\ returns => cwd' = op.from]_vars

(* When a script has been sourced and nothing else has changed variables   *)
(* meanwhile, every variable that it has left set is as it has left it, or *)
(* all are as before when it has failed or left by exit; a task that stops *)
(* half-way leaves each one old or new (ccsh_command_posix.cpp:165-189).   *)
Exported == [n \in Names |-> IF src.left[n] = Unset THEN src.before[n] ELSE src.left[n]]
Sourced ==
    src.st = "apply" /\ src.todo = {} /\ alone =>
        IF src.stopped THEN \A n \in Names : env[n] \in {src.before[n], Exported[n]}
        ELSE env = IF Prints THEN Exported ELSE src.before

(* Below the home directory the prompt shows ~ and what leads from there   *)
(* to the working directory (ccsh_utils.cpp:63-74, ccsh_filesystem.cpp:    *)
(* 131-145).                                                               *)
Abbreviated ==
    LET shown == get_current_path_abbreviated
    IN  cwd \in live /\ Home \in live /\ IsPrefix(PathOf[Home], PathOf[cwd])
            => Plain(PathOf[Home] \o Tail(shown)) = PathOf[cwd] /\ shown[1] = "~"
=============================================================================
