# A TLA+ development of ccsh

ccsh is a C++ library that runs programs with the syntax of a shell: `cat() < str | wc() > file`
builds a tree of command objects, and running the root starts processes, threads and pipes all over
the tree. This directory holds TLA+ models of that machinery, TLC runs of them, and proofs for TLAPS.
Paths below are relative to `src/`; line numbers are those of the modelled commit.

## 1. The system: inventory

| Part | State | Operations | Interacts with |
|---|---|---|---|
| Native commands (`lib/ccsh_command_posix.cpp:48-113`) | fail pipe, child process, future of the exit code | `start_run`, `finish_run`, the waiter's `waitpid` | kernel; every start_run of other threads, through descriptor inheritance |
| Expression tree (`include/ccsh/ccsh_command.hpp`, `lib/ccsh_command.cpp`) | per node: open wrappers, future, result; per process: the descriptor table | `start_run`/`finish_run` of pipe, mapping, redirection, `&&` `\|\|` `,`, function, built-in, constant; destructors | parents call operands; async tasks (pump, function, conditional) run beside the caller |
| Autorun (`command_base`, `command_runnable`, `command_holder`, `command_builder`) | `autorun_flag` per node, reference counts, `last_exit_code` | copy, conversion, `run`, destructors that run the command | operators hand nodes over and must disarm the old handle |
| Mapping functors (`lib/ccsh_operators.cpp`, `line_splitter` in `ccsh_utils.hpp`) | position in a string or vector, unfinished line | called by the pumps with pieces of up to BUFSIZ bytes | pumps; the caller's strings and vectors |
| `fd_streambuf` (`lib/ccsh_fdstream.cpp`) | get area, put area | underflow, overflow, sync | functions and built-ins that use streams on their descriptors |
| `cd`, `pwd` (`lib/builtins`) | working directory, PWD, OLDPWD | `runx` | environment, file system, other processes |
| Scripts and variables (`command_source`, `env_applier`, `env_var`) | a pipe, the environment of the whole process | run `sh`, read its environment, `setenv` in a task | the main thread, which reads and sets variables meanwhile |
| Paths (`lib/ccsh_filesystem.cpp`) | none | `lexically_normal`, `lexically_relative`, `canonical`, `relative`, `expand` | `cd`, the prompt, glob(3) |
| Windows backend (`lib/ccsh_command_windows.cpp`, `lib/ccsh_utils_windows.cpp`) | handles, attribute lists, inheritance marks, a named pipe | quoting, `CreateProcessW`, waiters, `env_applier` | the system; starts of other threads, through handle inheritance |
| `glob` and `dirent` for Windows (`lib/cygwin`) | open directories, search handles, the paths found | `glob`, `opendir`, `readdir`, `closedir` | `expand`; other processes that change the directories |
| `ccshc` (`cc/ccsh_compiler.cpp`) | a temporary file | parse the command line, compile, run, remove | other `ccshc`, through the file's name |
| `command_fd`, `CWrapper`, interactive shell, wrappers of programs, helper headers, sample and tests | | see section 6 | |

What is hard here:

* **Descriptors are passed down as numbers.** A wrapper owns a number, `start_run` hands it on, and a
  forked program inherits every open descriptor that is not in `unused_fds`. A forgotten number, a number
  used after it was closed, or an end held by a process nobody thought of shows as a hang, an `EBADF`,
  or output in the wrong place, and only in some trees.
* **Threads.** Waiters, pumps, functions and conditionals are `std::async` tasks. The task of a conditional
  walks the right part of the tree while the main thread is elsewhere in `start_run` or `finish_run`.
* **Exceptions.** Any `start_run` may throw while other parts of the tree are running; functions and functors
  throw in tasks and the exception comes back from a future, perhaps.
* **Destruction.** A tree may be destroyed while its tasks run; what joins them is the destructor of a future
  in a base class or a member, so the order of members matters.
* **Limits and pieces.** Pipes hold so many bytes, buffers so many, a process so many descriptors; a line, a
  put-back character or a command-line argument may end anywhere in a piece.
* **Shared surroundings.** The environment, the working directory, the directories `glob` walks and the
  temporary file of `ccshc` are changed by others between two steps of the code.

What makes each part right: a native command reports a program that could not be run as a `stdc_error`, one that
runs without a waiter as the `std::system_error` of `std::async`, and everything else as an exit code; an
expression connects its programs as it reads, ends, returns the status the shell rules give, leaves nothing open
or running when `run()` returns, and does not harm its host; a command runs exactly once (autorun); a mapping
or a stream delivers every byte once and splits lines at line ends only; `cd` goes where POSIX says and PWD
and OLDPWD follow; a script's environment arrives in full, or up to the place where the task that applies it has
stopped; a program gets the arguments and handles it was meant to have; `expand` gives what matches; `ccshc` runs
what it has compiled, and cleans up unless an exception takes it out of `main`.

## 2. Modules

| Module | Content |
|---|---|
| `Launch` | what `command_native` promises: `start_run` throws a `stdc_error` and the program never runs (`Throw`), or returns and there is a process whose end `finish_run` tells (`Return`), or throws something else and leaves a process nobody waits for (`Abandon`) |
| `Native`, `MCNative`, `Native_proofs` | the fail-pipe protocol, several commands started by threads of one host; it refines `Launch` |
| `CommandTree`, `MCCommandTree`, `CommandTree_proofs` | expressions: the classes of `ccsh_command.hpp` over a table of descriptors; the MC module has a notation for expressions and the sets of them that are run |
| `Autorun`, `MCAutorun`, `Autorun_proofs` | handles of commands, and what their destructors run |
| `DataPath`, `MCDataPath`, `DataPath_proofs` | the bytes of `(c < source) > sink`: functors, pumps, pipes, and `ifdstream`/`ofdstream` in a function between them |
| `Paths` | paths as sequences, and the operations of `ccsh_filesystem.cpp` |
| `Session`, `MCSession`, `Session_proofs` | working directory and environment of one process: `cd`, `pwd`, assignments, sourced scripts, the prompt; uses `Paths` |
| `CommandLine` | the quoting of Windows command lines, and how a program takes them apart |
| `Windows`, `MCWindows`, `Windows_proofs` | starting and finishing commands on Windows; uses `CommandLine` |
| `Dirent` | directory streams over search handles, and the file system beneath |
| `Glob`, `MCGlob`, `Glob_proofs` | `expand()` and `glob()`; uses `Dirent` |
| `Compiler`, `MCCompiler`, `Compiler_proofs` | several `ccshc` |

An MC module gives constants their values and sets of cases for TLC, nothing else. `CommandTree` takes the
start of a program as one step; `Native`, which refines `Launch`, is why it may; the third outcome of `Launch`, for which the
host must be out of threads, is left to `Native`. `CommandTree` counts items and not bytes; `DataPath` has the bytes, for one node with both mappings. An operator whose
comment begins with "Mutant" is a plausible slip in the definition its name is taken from; `PROJECT.json` says
which property fails when it takes that definition's place.

### Native

`thr[c]` is the program counter of the thread in `start_run` of command `c`, `img[c]` that of its child up to
`execvp`, `holds[p]` the ends of fail pipes open in process `p`. Every call that can fail has a
failing action (`PipeFails`, `ForkFails`, `SetUpFails`, `ExecFails`, and `AsyncFails` for `std::async` without a thread for
the waiter, which is `thr[c] = "nowaiter"`); `read` of the fail pipe can only be interrupted, and is repeated. `SignalKills` may strike at any moment
between fork and exit, and `fork` copies all that the host holds at that moment, which is how a thread's
child gets hold of another thread's write end. `Serial` is the constant that says whether one thread does all
the starting (no `&&`, `||`, `,`), `SigchldIgnored` whether `waitpid` can find the status at all.

### CommandTree

An expression is a sequence of nodes, `tree`; `pc[n]` is where `start_run`, `finish_run` or the destruction
of node `n` is. Threads need no names: a caller is suspended in its node while the operand's `pc` moves, and
each task is `job[n]` of its node. The table of the host is `fdt` (number to file), the wrappers are
`own[n]`: `p0`, `p1` for the array returned by `pipe_compat`, `fd` for the member of `command_redirect`, and
`in`, `out`, `err` for the duplicates a `command_function` makes. A forked program has its three streams in
`std[n]` and all files it has open in `keeps[n]`, computed by `ChildTable` from the table of that moment, the
numbers in `unused_fds` and the three `dup2`. A start of a program takes two free numbers for its fail pipe. It gives
them back, except when `fork()` fails (`ForkFails`): then both stay in the table, and no wrapper has them (`FailPipe`).
A child that could not execute its program is in `zombies`, as nobody waits for it.

| Code | Actions |
|---|---|
| `command_pipe::start_run`, `finish_run` | `StartPipe`, `StartRightOfPipe`, `PipeUp`, `PipeThrows`; `FinishOperand`, `FinishRight`, `FinishPipe`, `FinishThrows` |
| the three mappings, and their pumps `f2` | `StartMapping`, `StartPump`, `InMappingUp`, `MappingThrows`; `Feed`, `FeedBreaks`, `Collect`, `PumpDone`, `PumpFails`; `FinishOperand`, `FinishUnary` |
| `command_redirect` | `StartRedirect`, `RedirectUp`, `PassThrow`; `FinishOperand`, `FinishUnary`, `FinishThrows` |
| `command_conditonal` and its three heirs | `StartConditional`, `ConditionalUp`, `PassThrow`; the task: `TaskLeftDone`, `TaskRightUp`, `TaskRightDone`, `TaskFails`; `FinishGet` |
| `command_native` | `StartNative`, `StartNativeThrows`, `ForkFails` (`CanFork`, `CanExec`), `Reap`, `FinishGet` |
| `command_function`, `call_kill` | `StartFunction`, `StartFunctionThrows`, `FunctionEnds`, `FinishGet` |
| `command_builtin`, `command_bool` | `StartBuiltin`, `BuiltinEnds`, `StartBool`, `FinishAtOnce` |
| destructors | `Destroy`, `DestroyLeft`, `OperandsGone`, `Join` |
| `command_base::run`, the caller | `RunFinishes`, `RunReturns`, `RunThrows`, `Drop` |
| what the leaves do (external) | `LeafReads`, `LeafSeesEof`, `LeafWrites`, `LeafBreaks`, `ProgramEnds` |

A leaf is described by whether it reads its input, whether it copies it to its output, how many items it
writes to stdout and stderr, its exit code, whether it is `bad` (missing, or throwing), and for a program whether its
`fork()` will fail (`nofork`). Items stand for
any number of bytes; their content is not modelled. Reading and writing a terminal or a file always
succeeds. A write into a pipe without readers is SIGPIPE, which ends a program and, from a pump, a
function or a built-in, the host.

Simplifications: the expression is run once, by one thread, and no node is shared between two operators;
failures of `std::async` (for that of `command_native` see `Native`), and of `read` and `write` other than SIGPIPE, are left out; in the expressions with stale
numbers, `unused_fds` might name the child's own fail pipe, which is not pursued. `command_fd` is left out: no operator
builds one.

### Autorun

A handle `h` is a C++ variable or temporary: `kind[h]` is its class and `of[h]` the command it points to or,
for a `command_holder` or `command_builder`, is. A command has `life`, its operands `parts`, its `flag`
(`autorun_flag`), and `holds`, which says whether its class is a holder, whose destructor runs it too. Three
histories serve the properties: `calls` counts explicit `run()`s, `autos` those by `run_autorun`, `taken`
says whether the command was given to a named `command`, an operator or a builder.

| Code (`ccsh_command.hpp`) | Actions |
|---|---|
| `shell()`, `source()`; `cat()`, `ls()`, `cd()` ... | `Shell`; `Holder` |
| `command(command_runnable const&)`, `command(command_holder<T> const&)`, the copy of a `command` | `FromRunnable`, `FromHolder`, `Copy` |
| `command_builder(command_holder<T> const&)` | `Builder` |
| the operators | `Combine`; both operands are the same handle for the operators of one operand |
| `run()` | `Run`: the flag is reset before anything can throw |
| all destructors | `Drop`, with `Left` (what other handles still reach) and `Called` (whose `run_autorun` is called) |

Destroying the last handle of an expression destroys the whole expression, one step here: destructors of
handles inside the expression are part of it. Handles may be dropped in any order, which includes the order
C++ prescribes. A move leaves as many handles as before and is a renaming; it is left out. What an expression
does when it is run is the business of `CommandTree`.

### DataPath

A case names the source (string, vector of lines, istream) and its contents, whether a program or a function
copies, how often a function flushes and how many characters it puts back, and the sink (string, lines,
ostream, appended to or emptied before). Bytes are letters, newline, carriage return and the byte 255.

| Code | Actions and operators |
|---|---|
| the functors of `<` and `<<` (`ccsh_operators.cpp:14-118`), the input pump | `StringSource`, `VectorSource`, `StreamSource`; `FeedCall`, `FeedWrite` |
| `line_splitter`, the functors of `>`, `>>`, `>=`, `>>=`, the output pump | `Splitter`, `StringSink`, `LinesSink`, `StreamSink`; `Collect`, `CollectEnds` |
| `fd_streambuf::underflow`, `sbumpc`, `unget` | `Underflow`, `UnderflowEof`, `Moved` (the memmove), `GetBuffered`, `Unget` |
| `overflow`, `sputc`, `sync`, `do_flush` | `Overflow`, `PutBuffered`, `Sync`, `FlushWrites`, `Flushed`, `FunctionFlushes` |
| what a program does (external) | `ProgramReads`, `ProgramWrites`, `ProgramEnds` |

A read takes any number of bytes that the pipe has; a write puts what there is room for until it is done, or
is cut short by a signal in the cases that say so. Memory never written is `Junk`.

### Paths and Session

`fs::path` is the sequence of its elements. `cwd` and `live` are directories, `env` maps variables to paths
or values. The main thread is `pc`: a `cd` is `CdMoves` (the whole search through `CDPATH` and the `chdir`) and
then the three calls of `bindpwd`, `BindCwd`, `BindOld`, `BindNew`, between which the other actors move: `Rmdir`,
another process; `Apply`, the task of `command_source`, one variable at a time. `CdFails`, `Pwd`, `Set` and
`SourceStarts` to `SourceEnds` are the other operations. What fails has its action: `BindFails` and `PwdFails` for a `setenv` in
`bindpwd` and `pwd`, `SetThrows` for `env_var::set`, `SourceThrows` for a script without a pipe, a shell or a thread for the task, and
`ApplierStops` for the task, whose `read` is not repeated when a signal interrupts it and whose `setenv` may throw: it ends with part of
the variables set, `finish_run` does not ask why, and the shell's `printenv` may die of SIGPIPE. A script has an exit code, may
leave by `exit` (`quits`), after which nothing is printed, and sets or unsets variables; `printenv` does not
print an unset one, so the host keeps its old value. `Resolve` is the kernel's path walk with links and is external.
`Meant` in the properties is POSIX's description of where `cd` goes when PWD is the name of the working directory, and shares
nothing with `change_to_directory`; `CdGoesThere` looks below the directories of CDPATH for operands that begin with neither `/` nor `.` nor `..`.
`Dotted` is what `lexically_normal` spares: with `..` all names of two characters of which one is a dot.

### CommandLine and Windows

`convert_arg` and `ShellLine` build lines, `Parsed` and `CmdRuns` are what the receiving C library and `cmd.exe` do
with them (external). `CmdText` is what `cmd.exe` leaves of a line: outside quotes `& | < > ^` end the program's part of it (`Special`),
and `%` and line ends do so anywhere (`Anywhere`); what comes after is not pursued. In `Windows`, `pc[t]` is the thread that starts and finishes command `t`; `list[t]` its
attribute list, `marked[t]` the number of its inherit helpers, `inherit` the handles marked in the host, `pipe`,
`sent` and `got` the named pipe of a script, and `env` what has been set. A script has the lines that `SET` prints, each of which sets a variable, is
refused, or has no `=`; the pipe's buffer holds `Buffer` of them.

| Code (`ccsh_command_windows.cpp`) | Actions |
|---|---|
| `CreateProcessWithExplicitHandlesW` | `ListStep`, `Create`, `Clean` |
| `inherit_helper`, before Vista | `Mark`, `Create`, `Unmark` |
| `start_run` of `command_native`, `command_redirect`, `command_source` | `Open`, `Begin` (both with `CreatesPipe`); `Started`: returns, or throws for want of a thread for the waiter or for `env_applier` |
| `wait_helper`, `finish_run`, the destructors | `Wait`, `Finish`, `Destroy` |
| `env_applier` | `Connect`; `Apply`: `Puts` one line, or stops at a line without `=`, at the end of `SET` or at a failing `ReadFile`, and `Disconnects`; the shell's `SET`: `SetConnects`, `SetWrites`, which waits while the buffer is full |

### Dirent and Glob

A stream of `Dirent` holds whether the system's handle is open, the entry that came with it (`cached`) and the
names that are left; `dirent_next` and `closedir` say which handles they close. `Glob` follows `glob0` to `glob3`:
`Begin` (tilde and compilation), `LookLeaf` and `LookDir` (`glob2`, `glob3` up to its loop), `Read`, `ReadEnd` (the loop over
entries), `Finish`. The recursion of `glob2` and `glob3` is `stack`. `Change` is another process. The properties
have their own definition of what a pattern means, `Means` and `Stands`, from its characters.

### Compiler

`pc[p]` is `main()` of process `p`; `temp` is the one temporary file, which `generate_filename` names alike in all
processes, by its maker and whether it is whole. `find_file` is the parsing of options. Compiling and linking may fail. Three calls may
throw, which ends the process at once (`Aborts`): `create_directory` (`NoDirectory`), the run of the compiler (`CompilerMissing`),
and the run of the program (`RunThrows`), of a file that is not whole, or of a whole one that cannot be executed or has no process or pipe (`"refused"`).

## 3. Runs

Every run ends within two minutes.

| Run | What it asks |
|---|---|
| `native_threads` | two threads, every failure (also of `std::async`), SIGKILL at any time, programs that end: `ThrowMeansNotRun` (the exception's type tells whether the program has run), `ReturnMeansProcess`, `ZeroMeansSuccess`, `HostClean`; the protocol implements `Launch` (`ImplementsLaunch`), and every future becomes ready (`ResultComes`) |
| `native_serial` | one thread, three commands that may never end, SIGCHLD ignored: no stranger holds a write end (`NoStranger`), every `start_run` ends (`StartEnds`) |
| `expressions` | 121 expressions of pipes, mappings, redirections, functions and built-ins; 484 variants of those without functions and built-ins, in which one program is missing or cannot be forked; and five with their 16 variants under each limit of 3 to 12 descriptors: every descriptor has one owner, but the fail pipe of a failed fork (`OwnInv`), every leaf its files (`Wiring`), a filled string is complete when it is promised (`OutputComplete`), nothing is left afterwards but that fail pipe and the child of a failed exec, and nothing at all when `run()` returns (`NothingLeft`), no hang and no SIGPIPE for the host (`RunEnds`) |
| `conditionals` | `&&`, `\|\|`, `,` over seven operands, redirected and nested, and 138 expressions with something missing, not to be forked, unwritable, throwing or unread: `Sequenced`, `RunDenotes` (exit code and who has run), `ThrowHasCause`, `NoCow` (no later leaf is started after one that could not be, except by the task of a conditional), `NoCallAfterDtor` |
| `autorun` | programs with three handles and four commands: a command runs by itself once at most and never after it was run or taken over (`NotTwice`), is not lost (`NotNever`), and operands live and stay unarmed (`WholeOnly`) |
| `data_path` | 402 cases of source, copier and sink: what arrives is what was sent (`Delivered`), lines come out as soon as they are complete (`SplitAtOnce`), a character put back is got again (`PutBackKept`), nobody waits for ever (`PathEnds`) |
| `session` | seven cases of environment, arguments and scripts, where everything may fail: `CdGoesThere`, `CdBack` (`cd -`), `PwdTracks`, `Sourced` (the variables a script leaves set arrive, or, when the task stops, each is new or old), `Abbreviated` (the prompt) |
| `windows` | every argument of up to four characters out of a letter, a blank, a backslash and a quote, and for `cmd.exe` an ampersand (`ArgsArrive`); pairs of commands started by two threads where every call may fail: `InheritsExactly`, `HostClean`, `AppliesInFull` (a script changes nothing, or all it can up to the first line without `=`, or, if `ReadFile` fails, a beginning of that), `FinishEnds` (`finish_run` returns, except in two named ways, `Stuck`) |
| `compiler` | all command lines of up to four arguments, and three processes at once, where every step may fail: `RunsItsOwn`, `TempGone` (no file is left but a whole one whose maker was thrown out of running it) |
| `glob` | all patterns of up to three characters and some longer ones, on a disk with hidden and unrepresentable names, with two changes during a walk: `Expands` (all that was there throughout, nothing that never was, sorted), `HandlesClosed` |

Two runs are expected to end in a violation.

| Run | What happens |
|---|---|
| `fed_on_the_left` | `(cat() < str) \| cat()` hangs: the pump's write end (`ccsh_command.cpp:67`) is open when the second `cat` is forked (line 45) and is in nobody's `unused_fds`; the second `cat` keeps the pipe open that the first one reads to its end |
| `cd_up` | `cd("../..")` from `/h` stays where it is: `lexically_normal` compares with a `slash` that is defined as `'.'` (`ccsh_filesystem.cpp:34, 195`), removes the root and leaves the empty path |

**What the passing runs leave out.** In `expressions` everything the host writes is read, and no input mapping is
on the left of a pipe; in `conditionals` no conditional is below a pipe or a mapping, and no mapping or function is
running when a later operand throws. Inside that class the properties hold; the class is the precise statement
of what the library can be relied on for. Outside it, the same model shows:

* `(f | cat()) > str` hangs when f throws: `call_kill` drops the duplicated descriptors on a normal return only, the
  pump waits for `cat`, and `cat` for the descriptor kept in the result nobody has asked for yet;
* `(a && b) | (c && (d > str))` writes the output of b into str: the task of `&&` keeps the number of a pipe that is
  closed when `command_pipe::start_run` returns, and the number is given to the pipe of `> str`;
* `true < str` kills the calling program with SIGPIPE;
* `(a > str) | nosuch`: `run()` throws while the pump runs, and unwinding destroys the functor that it calls
  (`ccsh_command.hpp:364`) before the future that joins it.

Likewise `session` has no `..` above a directory in the root, and asks for the prompt below the home directory only;
`Delivered` ends with the badbit of a byte 255 in `overflow`, `PutBackKept` with a character put back at the end of the input;
`InheritsExactly` is promised before Vista for one starting thread only. `FinishEnds` excepts what `Stuck` says: `SET` came before
`ConnectNamedPipe`, which gave up, and has more to write than the pipe's buffer holds, or the script has ended without `SET`, and `ConnectNamedPipe`
waits for it; both happen in `windows`. `ArgsArrive` is for the arguments for `cmd.exe` that satisfy `ForCmd`: what `cmd.exe` reads itself does
not stand outside quotes, quotes come with a blank only, and none is empty. `RunsItsOwn` follows the code in that a `-c` anywhere
on the line, also among the program's arguments, means to compile only, and is for one process after the other, since two at a time may run each other's program.

**Bounds.** `PipeCap = 1` in `CommandTree`: a pipe of one item blocks its writer at every chance; a larger one only
removes interleavings in which somebody waits. Programs write up to two items, so that a writer is met blocked and
unblocked. Expressions have up to seven nodes and nest every operator in every other one on some path; 16
descriptors are more than any needs, and 3 are the inherited ones alone. `Autorun` needs three handles for two operands
and their expression, four commands for two holders and the copies made of them; handles and commands are
interchangeable, hence the symmetry. Two or three native commands suffice for `Native`: its hazards are between
one command and a foreign child. `DataPath` has buffers of 3 bytes, 2 put-back places and texts and lines up to one byte
more than a buffer (seven or eight bytes for refills): line ends and buffer ends meet in every way. `Session` has
eight directories with two links, one of them into a directory with a name that begins with a dot and one that ends with one.
The named pipe of `Windows` holds fewer lines than the longest script prints. `Windows` and
`Compiler` have two and three actors, as what goes wrong is between two. Arguments of four characters have every
run of backslashes before a quote, after one and at the end. `Glob` allows two changes to three files: one to
create or remove what is being walked and one to undo it.

**Fairness.** `Native`: the scheduler runs every thread of the host and every child up to its `execvp`
(`WF` of `Start`, `Child`, `Waitpid` for each command). `Spec` does not oblige a program to end, `FiniteSpec`
does, and the runs say which they use. `CommandTree` and `DataPath`: weak fairness of `Next` as a whole. The work
there is bounded, so every behaviour is finite unless it stops for want of an enabled step, and a step
that stays possible is not taken away by others: fairness per thread would show nothing more. `Windows`: weak fairness
of each command's start, of its host side and of its program, which are scheduled by the system and end.
Where a hang is what a property is about, the deadlock check is off and the liveness property reports it.
`Session`, `Compiler`, `Glob` and `Autorun` promise nothing by a deadline and have none.

## 4. Proofs

`Native_proofs` proves, for any set of commands, exit codes and signals, under the assumptions named in
`Native` only:

* `TypeCorrect`, `ThrowSafe`, `ReturnSafe`, `ZeroSafe`, `HostSafe`, `SerialSafe`: the invariants of the
  runs `native_threads` and `native_serial`;
* `Implements`: `Spec` refines `Launch!Spec`, by showing that initial states map to initial states and every
  step maps to a step of `Launch` or to a stutter; `AsyncFails` is a step of `Abandon`.

None of the invariants is inductive. `IInv` adds what the thread and the child of one command know of each
other (`SameCommand`: an error is sent only by a child that has not executed its program, a thread that has
thrown has seen one sent, a reaped child has a returned `start_run`), who may hold which end of a pipe
(`Holders`: a child that has not come to `execvp` or its end holds its own write end, so an end of file
cannot be read too early) and, for a single thread, that it is in one `start_run` at a time and so no foreign
child ever holds a write end (`Alone`). TLC had confirmed `IInv` on three commands before it was proved.

`Autorun_proofs` proves, for any sets of handles and commands, `TypeCorrect`, `RunsOnce`, `RunsAtAll` and
`OperandsQuiet`, the four invariants of the run `autorun`. `NotTwice` alone is not inductive: nothing in it
says that a command whose flag is set has not been run before. The invariant adds `Armed` (an armed command
is alive, has not been run, has exactly its first handle, and is nobody's operand), `Disarmed` (one that is
not armed has been run or taken over) and `Alive` (handles and operands refer to living commands). The step
that carries the proof is `DropFacts`: of all the commands whose destructors run, only that of the dropped
handle can be armed, and if it is, it dies.

`CommandTree_proofs` proves `Owned`: `OwnInv` for every expression without a shared command (`NothingShared`) and every
limit of at least three descriptors, also for those outside the class of the runs. Its assumptions are the first three of
`CommandTree`. The invariant has two halves. The table (`Table`): every open number but the first three has an owner or is the fail
pipe of a program that cannot be forked, no number has two owners, and each wrapper has its file. It is kept by closing the wrappers of a node (`CloseKeeps`), for
which nobody else may have the number, and by opening (`OpenKeeps`), for which the node must have had no wrapper: a
wrapper that is overwritten would leak. That is what the control half is for: `Fresh` (no wrapper and no task before
`start_run`) and `InTurn` (what is below a node that has not begun has not begun either, and the right operand waits),
from which follows that no node is started twice. `Family`, that two nodes have no operand in common, is where
`NothingShared` is used. Every action is one of three kinds of control step (`Alone`, `Still`, `Calling`) and keeps the
table (`Kept`); `TreeStep` puts the halves together.

Its second part proves `InSequence`, `Denotes`, `Clean` and `NoCowAppears` (`Sequenced`, `RunDenotes`, `NothingLeft`,
`NoCow`), again for every expression without a shared command. Two assumptions are added, and TLC evaluates them on all cases:
`OperandsAssumption`, that a class has a fixed number of operands (the constructors of `ccsh_command.hpp` take no other),
and `PreorderAssumption`, that `tree` is one expression with its nodes numbered in the order in which they are read, which is a
choice of names. `NothingShared` is a restriction: it excludes `c | c` with one command object. The invariant, `Sound`, consists of

* `IInv` of the first part;
* `Local`, what is true of a node and its operands: which places each class can be at with which state of its task
  (`Kind`), where the operands are while they are called (`Calls`), that after `start_run` both operands of a pipe have been started
  (`Up`), what the task of a conditional has run and got (`TaskDone`), that the value of a node is what its class makes of
  those of its operands (`Done`), and that nothing is destroyed before it has been joined (`Gone`);
* `Wrapped`: which wrappers a node still has at which place (`Holds`), from which follows that none is left at the end;
* `InOrder` and `UpFirst`, which are about whole subexpressions: the right operand of a conditional is untouched until all
  that is under the left one has settled and been joined; the right operand of a pipe is untouched until all that the left
  one starts at once has been started. `Sequenced` speaks of leaves any number of levels below and needs both;
* `Returned`, what `run` gives back once the root is destroyed.

The lemmas `LeafTurns`, `NodeTurns`, `TaskTurns` and `FinishTurns` reduce every action to one description of what a node may do next
(`Turn`), so that each conjunct is proved preserved once and not thirty times. What is `Under` a node is the least set that
has the node and is closed under operands, so an induction over the expression is the choice of a set (`ByOperands`).
`LeavesOf`, `AtOnce`, `Status` and `Demanded` are recursive functions over the nodes: that a function with such an equation
exists is built from its largest node downwards (`Downward`, `StatusDefined`, `DemandedRan`), and what the invariant says
of the states reached (`Says`, `Ran`) is compared with it node by node.

The second half of `CommandTree_proofs` is about the four invariants that do not hold for all expressions, and says for which they do.

`WiredUp`, `Filled` and `HasCause` (`Wiring`, `OutputComplete`, `ThrowHasCause`) are proved for the expressions in which no pipe and
no mapping contains `&&`, `||` or `,` (`Pipelines`); conditionals may contain pipes, mappings and each other, and be redirected. The
restriction is the library's: the task of a conditional calls `start_run` with the numbers it was given, while `command_pipe` and
the mappings close theirs as soon as their own `start_run` is over. A redirection closes its file in `finish_run`, hence may contain what it
likes. `HasCause` also wants three descriptors for each command besides the inherited ones (`Roomy`): below that an `open` or a `pipe`
fails for a reason that is not in the expression. The cause is a command that is missing, does not open, throws, or cannot be forked. `NotCalled` (`NoCallAfterDtor`) holds for every expression until `run()` has thrown, and after
that if there is no mapping and no function (`Quietly`). Section 3 has expressions outside these classes for which the four fail.
The invariants build on `Sound`:

* `Orderly`, about the control: an operand is inside `start_run` only while its operator is in the call (`Nested`), `finish_run` comes
  after it (`Resumes`), and what is below a conditional or a redirection that has ended has ended too (`EndsBelow`). What follows is
  `Unneeded`: when a wrapper is closed, nobody in the subexpression that was given its number is in `start_run` or will be.
* `Numbered`, about the numbers: a command in `start_run` has been given, for each stream, a number under which the file is found that
  `Want` names, and the `unused_fds` it was told to close are wrappers of operators above it (`Gets`). No wrapper is both used
  and unused by one command (`Exclusive`), so that the child's `dup2` and `close` leave it with exactly these files (`Child`, `Wired`).
* `Flows`, about the items: nobody writes to a pipe before its mapping begins (`NotYet`), what an output mapping has in its string and
  in its pipe is what was kept and what was written (`Count`), and a pump ends only when the pipe is empty and no writer is left, neither in
  the host nor in a program, and none can come (`Drained`).
* `Blamed`: who has thrown or failed has a cause in the expression. What remains to be shown is that `start_run` never lacks a descriptor:
  no command has more than three wrappers filled (`WrapperOf`), the one that is starting has none, and so three numbers are free (`Room`).
* `Standing`: no destructor runs before `run()` has ended.

`Clean` (`NothingLeft`) rests on `Sound` and on what a `start_run` that throws may leave (`Left`). Numbers without a wrapper (`Stray`) are
ends of fail pipes, each in the table once; they, and the children in `zombies`, are of programs whose start has thrown, which are
in `threw` or being destroyed from then on (`Blown`, `BlownStays`). When `run()` returns, all that has begun is done, so there are none (`LeftNone`); the rest
of the table has wrappers or is inherited (`NoneOwned`, `Standard`, `LeftClean`).

`Want` is another recursive function, from the root to the leaves; `WantDefined` shows that it exists, and `Wanted` reads off what each operator
gives to its operands.

`Windows_proofs` proves `Inherits`, `LeavesClean` and `AppliesAll` (`InheritsExactly`, `HostClean`, which does not cover the named pipe of a script,
that nothing closes, and `AppliesInFull`), the three invariants of `windows` that are about more than one call, for any number of commands. `IInv` consists of what each place of `start_run` implies for list and marks
(`Places`), for process, handles and file (`Process`), what has been written and applied of a script's environment (`Applied`),
that two redirections never share a handle (`Distinct`), who has marked what (`Marks`), and that a serial host starts one
command at a time (`Alone`), without which a process on XP inherits what another start has marked.
It also proves `ArgumentsArrive` (`ArgsArrive`) for argument lists of any length and content (`ArgumentAssumption`: they are sequences of
characters). `Runs(a, s, b)` says that the reader of a command line goes from state `a` to `b` over the text `s`, and such runs can be
put one after the other (`RunsOn`). `Reads(A, line, arg)`: a reader that begins anew comes over `line` to the word `arg`, whatever it has
read before. By induction over the characters that is so of what `convert_arg` gives (`QuotedReads`: the reader is always behind by the
backslashes that `convert_arg` has counted), and of an argument that `cmd.exe` is given bare (`BareReads`), and by induction over
the arguments of the whole line (`LineArrives`). For `cmd.exe` the invariant has a condition, `ForCmd`: an argument without a blank goes there
without quotes, so an empty one is lost, a quote in it is taken away, and a tab or one of `& | < > ^` ends it; in an argument with a blank
these are safe as long as no argument of the line has a quote, of which `cmd.exe` knows no escaped ones; `%` and line ends are not safe anywhere. Under `ForCmd`
nothing is cut from the line.

`Compiler_proofs` proves `Cleared` (`TempGone`): when any number of `ccshc` have ended, the only file that may be there is a whole one whose
maker was thrown out of running it. The invariant `Tended` says that the maker
of the file that is there has not passed its removal, or has left it whole; a process that is thrown out of running a file that is not whole skips the removal,
but such a file is one another process is still linking. It also proves `RunsWhatItMade` (`RunsItsOwn`), for command lines of any
length: a process that runs a program runs its own with what follows the file, and one that succeeds has done so or was given a `-c`, which
`find_file` finds anywhere on the line. `SInv` says what each place implies for a process that has the file to itself (`Serial`). That `find_file` gives what the
usage promises is `FindsFile`, by induction from the end of the line (`Finds`: its loop in single steps): the place it looks at comes
after an even run of options that want an argument (`RunOf`), and nothing before is a file. `Gets` reads the arguments back from the
command line of the compiler. `ArgumentAssumption` says what a command line is: a sequence of words, which `None` is not.

`DataPath_proofs` proves `AllDelivered`, `Lines` and `PutBackIsKept`, all three invariants of `data_path`, for buffers and
pipes of any size, inputs of any length and every case. Its assumptions are `SizesAssumption` (`put_back_size`, which is 8, is positive and
smaller than BUFSIZ, which the C standard wants to be 256 at least) and `CasesAssumption` (what a case is). `IInv` has
five parts. `Control` is the types and what each place of the pumps and of the function implies. `Flow` is the heart: `Whole`,
the text that has been taken followed by what is in every buffer on the way back to the source (a character that the
function holds, put back or not, counts once), is the input, unless a signal or `badbit` is the reason, and then is what is left
of it (`Sub`: an increasing map of positions). Every action is shown to move bytes from one stretch of the way to
the next, or to lose a piece for one of these reasons (`Moves`); `MovesOn` lifts that to the whole. `Sunk` says that the sink has what its
functor makes of everything taken; for lines that is `Splits`: what `line_splitter` adds for a piece and what it keeps are
what the lines of the longer text have more. `Gotten` and `Behind` are about putting back: what the function has got and
what is to come are the input, and the last `put_back_size` characters got lie behind the pointer in the get area, which
is what `memmove` in `underflow` is for and what fails once the end of the input has been seen (hence `~late`). None of `Delivered`,
`SplitAtOnce` and `PutBackKept` is inductive by itself: they speak of the end, or of the sink, and say nothing of the buffers.
TLC had checked `IInv` on all cases of `MCDataPath` before.

Lines, flattened vectors and what is left of a text are computed by folds and by a recursive function, over inputs of any length.
The library's induction theorems cannot be used here, but what they say of numbers can be had from the fact that they
are well founded: `LeastOf` (a set of numbers has a least one) and `UpTo` (induction up to n, by the least number that is not in a
set). `FoldExists` builds with `UpTo` the function a fold chooses, and `MatchedSteps`, `FlatSteps` and `SplitSteps` then state what
a fold does as a finite run of single steps, one per element.

`Session_proofs` proves `Tracked` and `SourcedAll` (`PwdTracks` and `Sourced`) for every tree of directories, any values of variables
and any scripts (`CasesAssumption` says that PWD, OLDPWD and CDPATH are variables and that an environment gives each a value or leaves it
unset). `Sourced` speaks of all three outcomes: a script that prints its environment and a task that reads it to the end, after which every variable that the
script has left set is as it has left it; a script that fails or leaves by `exit`, after which nothing has changed; and a
task that stops half-way, after which each variable is old or new. The invariant adds `Binding` (while `bindpwd` is under way, what it has read is the name of the directory the
process is in) and `Applied` (until the task stops, what a script leaves differs from the environment exactly in what the task has still to set). `PromptRight` (`Abbreviated`) rests
on another invariant, `Rooted`: a directory that is there is in one that is there, since `Rmdir` takes empty ones only. By `PathAssumption`
(a path is that of the parent and one name more) the names of a path then lead from the root to its directory (`Chain`), wherever
the kernel starts (`ResolvesTo`), so `weakly_canonical` changes nothing, and `self_lexically_relative` takes away the home's path.

`CdGoesThere` and `CdBack` are not true of every argument and environment (`cd_up`, section 5), so their theorems say when they are.
What a cd should do is `Meant` and `CdStep`, the rules of POSIX with the name of the working directory for PWD; a PWD that the user has set to another name
of it is outside.
`CdRight` is about one step: the cd goes where it should if it is `Proper`, that is if CDPATH is empty or the operand does not begin with `.` or `..`, which the
library looks up there and POSIX does not, if, with -L, every `..` of what is tried has a name before
it that can be taken away (`Climbs`), and an absolute path begins with a name that is in no directory but the root (`Own`), since
the library looks it up below the working directory, and below those of CDPATH, first. The proof shows that a run of
`self_lexically_normal` over such a path passes through the states of a run of `Plain` (`SameWay`; a `.` at the end is all they differ in), that
the kernel follows one path after another (`ResolveJoined`) and comes to the same directory from everywhere on an absolute one (`FromRoot`,
`OwnRest`), and that the first hit of `runx` is then the right one (`RelativeGoes`, `AbsoluteGoes`). `CdAlwaysRight` is `Spec => CdGoesThere`
for programs all of whose cds are `Proper` wherever they are; the two cases of the run that have a CDPATH are such programs. `CdReturns` and `CdAlwaysReturns` are
the same for `cd -`. The invariant is `Remembers`: when `returns` says so, the path in OLDPWD, or in PWD while `bindpwd` has not come to it, leads
to the directory that the last cd came from or nowhere; a directory removed meanwhile makes it lead nowhere, and nowhere else (`Shrinks`).
`CdAlwaysReturns` speaks of programs that are never in the root, whose name is no path that `cd -L -` finds again; all cases of `session` satisfy
what it asks of tree and environment.

`Glob_proofs` proves `AllClosed` (`HandlesClosed`) for every pattern, disk and interference. `IInv` says that no directory is open outside `glob()`,
that a stream hands out names only, and that the open handles are those of the directories in `stack` whose end has not been
seen; `NameAssumption` says that what is on the disk, or comes there, has a name. TLC had checked `IInv` on the run before. `Expands` is not
proved: it compares two recursive readings of a pattern, `Compile` with `match` and `Means` with `Stands`.

Checked with TLC only: all liveness (`StartEnds`, `ResultComes`, `RunEnds`, `PathEnds`, `FinishEnds`), which needs fairness and
`ENABLED` and is beyond the prover; and `Expands`, see above.

## 5. Divergences seen while modelling that no run states

* An `ofdstream` that gets the byte 255 when its buffer is full fails, and drops what follows (`ccsh_fdstream.cpp:34`); a
  character put back at the end of the input may be another one (48-64); `underflow` takes a failed read for the end.
* `replace()` does not end when the replacement contains what is replaced.
* POSIX: a failed `fork()` leaves both ends of the fail pipe open for good (`ccsh_command_posix.cpp:56`); a child that could not execute
  its program is never waited for (96); when `std::async` has no thread, the program runs unwaited (111). The task that
  applies a script's environment stops at an interrupted `read` or a failing `setenv` (176, 185), and nobody hears of it (`result.wait()`); variables that
  the script has unset keep their values.
* Windows: a script that ends without its `SET` makes `finish_run` wait for ever, and so does a `SET` that is earlier than `ConnectNamedPipe` and has
  more than the 16 KB of the pipe's buffer to write (313, 353); the handle of the named pipe is never closed; a line of `SET` without `=`, such as
  the second line of a value, ends the task with half of the variables set (302, 325); a second
  redirection to a file that is open fails unnoticed, as it is opened without sharing; a quote in an argument of a
  script may hide its `&&`; `& | < > ^ %` in an argument of `shell()` are read by `cmd.exe`; `env_var::get` is wrong for values of exactly BUFSIZ characters.
* `cd` searches CDPATH also for operands that begin with `.` or `..`; it takes the physical name of the working directory, not PWD, for the one that
  `..` is taken away from; `lexically_normal` keeps a name of two characters with a dot in it, such as `y.`, before a `..` (`ccsh_filesystem.cpp:192-201`).
* `cd -L` puts an absolute path behind the working directory first: `cd("/")` stays where it is, and `cd("/a")` goes to `a` below it if there
  is one (`operator/` of `std::experimental::filesystem`).
* `glob`: `~user` is the home of the user who runs the program; `GLOB_NOCHECK` gives back the pattern with the `~` in it;
  `*` and `?` in HOME are patterns; a set with a slash is cut there; a backslash never quotes, since `generic_string` makes
  it a slash; what `glob()` returns is not looked at by `expand`.
* `ccshc`: all processes have the same temporary name; a `-c` among the program's arguments is taken for the compiler's; a program that
  was compiled but cannot be started, as in a `/tmp` mounted `noexec`, takes the process out of `main` with its file left behind (`ccsh_compiler.cpp:166-178`).

## 6. Not modelled, and the plan

What is left, in this order:

1. Nodes shared by two operators (`c | c` with one command object) and second runs of one expression: the trees become
   graphs, `NothingShared` goes, and `Owned` with it.
2. `last_exit_code` written by several threads, together with 1.
3. Built-in commands with more output than a pipe holds, which block `start_run`; the library's own print one line.
4. A daemon started by a sourced script, which keeps the pipe open; a script is one step of `Session` now.
5. A proof of `Expands`.

Partly modelled: paths (`expand` on POSIX is glob(3), an external library), `glob` and `dirent` (what `expand` reaches with
its two flags; braces, the other flags, `scandir`, `rewinddir` and `glob_pattern_p` are called by nobody here).

Left out for good: `command_fd`, which no operator builds; the wrappers of programs (each method appends constant
switches to the arguments); the interactive shell (the interpreter is an external program); the template machinery of
`CWrapper.hpp`, whose ownership is what `own` models; the helper headers (stateless); the data race of `setenv` and `getenv`
below the step in which `Session` reads or sets a variable; sample and tests, which were read for what they expect.
