# Katara in TLA+

Katara is a compiler, interpreter and debugger for a Go-like language: packages
are scanned, parsed, type-checked and turned into an intermediate representation
(IR), which is lowered, optimised, interpreted, debugged, or translated to x86_64
machine code that the program runs in its own memory. This directory holds TLA+
models of the parts that are hard to test, from the scanner to the machine code, the
TLC configurations that check them on small instances, and TLAPS proofs about nine of
them: the debugger, its command-line session, the parallel moves, the order of type
checking, the ownership of shared pointers, the checker of the IR with the dominator
tree it asks, the register allocation, the translation of instructions, and the encoder with
the linker.

Paths below are paths of the repository (`src/...`). `PROJECT.json` maps every
definition that models code to the lines it stands for.

Contents: [the system](#the-system) · [the modules](#the-modules) ·
[the runs](#the-runs) · [known deviations](#known-deviations) ·
[the proofs](#the-proofs) · [only model-checked](#only-model-checked) ·
[not modelled](#not-modelled) · [plan](#plan)

## The system

Only one part is concurrent, the debugger with the command that drives it; the
rest is a pipeline of sequential stages whose difficulty lies in the order in
which they visit things, in inputs nobody wrote a test for, and in the protocols that
the code they generate has to follow.

| component | state it keeps | operations | what is hard | what makes it correct | module |
|---|---|---|---|---|---|
| `src/ir/interpreter/debugger.*` | `exec_state_`, `exec_thread_`, `mutex_`, `cond_`, observer; the interpreter | `Run`, `StepIn/Over/Out`, `Pause`, `AwaitPause`, `AwaitTermination`, `PauseAndAwait`, `stack`, `heap`, `exit_code`; thread `Execute` | two threads, a condition variable, joins, a request racing the step in progress | the state says who drives the program; a pause costs one instruction; a thread is joined before it is replaced; waits end; the observer is called once | `Debugger` |
| `src/cmd/katara-ir/debug.cc` | the debugger and the REPL | `run`, `pause`, `step...`, `print ...`, exit | handlers look, release the lock, then act; observer on the other thread; destruction order | no handler reaches a `fail()`; nothing reads a stack that is in use or empty; commands return | `DebugSession` |
| `src/cmd/repl.*` | command, history, cursor, prompt flag | key presses, `InterruptOutput`, `Run` | unsigned cursor and history positions; output from another thread | the cursor stays in the command; the history cursor in the history | – |
| `src/ir/interpreter/{interpreter,stack,heap}.*` | stack of frames, heap | one step per instruction, calls, returns, `Malloc`, `Free`, loads, stores | what the checker lets through | no operand is missing when it is read | `CheckedFunc`, `BuiltFunc` |
| `src/ir/representation/` | program, functions, blocks, dominator tree | add blocks and edges, `DominatorOf` with `UpdateDominatorTree` | semidominators; order of unordered sets | dominators equal their definition | `DominatorTree` |
| `src/ir/analyzers/`, `src/ir/processors/phi_resolver.cc` | live ranges, interference graph, colors | fixpoint over blocks, graph building, greedy coloring, phis to movs | values live around loops, values defined together, phis in parallel | ranges are liveness; a read finds what was written | `RegisterAllocation` |
| `src/ir/check/`, `src/lang/processors/ir/check/` | issues | check every instruction, and that values are defined before use | definitions through dominators | what passes runs | `CheckedFunc`, `BuiltFunc` |
| `src/ir/serialization/`, `src/lang/processors/ir/serialization/` | scanner position, name tables, work deferred until a name is known | scan, parse, print | the printer and three parsers should agree (for strings and type IDs they do not); text edited by hand | print then parse is the identity, or an issue; nothing is read as something else | `IrScanner`, `IrText`, `IrFile` |
| `src/lang/processors/packages/` | packages by path, issues | `LoadPackage`, `LoadMainPackage`, importer | recursion through imports, missing packages, cycles | a package is loaded once and is complete when used | – |
| `src/lang/processors/scanner,parser/` | position, token; AST | scan, parse, recover | resynchronisation after errors; tokens that depend on the context | nothing is dropped silently; the parser ends; programs get their tree | `Scanner`, `Parser` |
| `src/lang/processors/type_checker/` | `TypeInfo`, actions of `Coordinator`, scopes | resolve identifiers, order package level declarations, check bodies | order of dependent declarations, loops, constants | what is used was defined before; what is accepted can be built | `Coordinator`, `ExprHandler`, `StmtHandler` |
| `src/lang/processors/ir/builder/` | context of blocks, variables and scopes | IR for every statement and expression | who owns a counted pointer; deletes at every way out of a scope | the function computes what is written and releases its variables | `ExprBuilder`, `StmtBuilder`, `SharedPointer` |
| `src/lang/runtime/shared_pointer.ir`, `src/lang/processors/ir/lowerers/` | control blocks with strong and weak counts | make, copy, delete, validate | destructors that recurse, weak pointers to what is destroyed | counts equal owners; nothing freed is used; what loses its last owner is freed | `SharedPointer` |
| `src/lang/processors/ir/optimizers/` | value usage information | shared to unique pointers, unique pointers to locals, removal of unused functions | pointers that escape | the program behaves as before | – |
| `src/x86_64/ir_translator/` | colors, contexts, temporaries | translate functions, calls, instructions, moves | operands in every combination of places, saved registers, temporaries | the code computes what the instruction does; what lives on is kept | `InstrTranslator`, `ParallelMove` |
| `src/x86_64/machine_code/`, `src/x86_64/instrs/` | code bytes, patches | encode, link | prefixes and short forms; patches before and after their targets | the processor reads what was written | `MachineCode`, `X86Decoder` |
| `src/common/`, `src/lang/representation/constants/` | | big integers, memory mappings, graphs, positions, flags, file systems | widths and signs | arithmetic modulo 2^w | `Atomics` |
| `src/cmd/` | | `build`, `run`, `doc`, `check`, `format`, `interpret`, `debug` | stages that fail | exit codes | stages in `FrontEnd` |

How the parts meet: the commands call the stages one after the other. The type
checker calls back into the package manager to import. The IR builder emits
pointer instructions that the lowerers turn into calls of the runtime; the
interpreter's heap detects what the generated code does wrong with memory. The
translator takes colors from the register allocator and hands sets of moves to
`GenerateMovs`. The REPL and the debugger's execution thread meet in the
termination observer that `debug.cc` installs.

Every hazard is listed in `PROJECT.json` under "hazards", at the line where it bites,
with the properties that watch it.

## The modules

Modules that compose others: `DebugSession` extends `Debugger`, `Debugger` implements
`ProgramControl`; `CheckedFunc` extends `DominatorTree`; `IrFile` extends `IrText` and
instantiates `IrScanner`; `Parser` extends `Scanner`; `MachineCode` extends `X86Decoder`;
`FrontEnd` extends everything of the front end. The modules named `MC...` hold the inputs
of the runs.

### ProgramControl, Debugger, DebugSession

`ProgramControl` is what the debugger promises to somebody who does not know
about threads: a program is paused, running or terminated; a resumed program
pauses when its command is done, when a pause is requested, or it terminates,
and after a request at most one more step is made.

`Debugger` is `debugger.cc`. `mutex` is `mutex_` with its holder; `execState`, `observer` are
the members; `thread` is the program counter of the execution thread (`begin`: in `Execute`
before the lock; `step`: about to execute an instruction with the lock released; `decide`: about
to take the lock and decide how to go on; `observe`; `done`: not joined yet; `none`: not
joinable); `client` is the program counter of the one thread that calls the public methods
(`starting`: between the checks of `StartExecution` and the join of an old thread; `spawning`:
between that join and the assignment of the new thread, which ends the process, `aborted`, if
the old one is joinable still; `asleep`/`woken`: in `cond_.wait`; `joining`: in the `join` of
the await functions, *with the mutex held*; `failed`: in `fail()`). `depth` is the depth of the
interpreter's stack, the only thing the debugger sees of the program: an instruction leaves it,
deepens it, or pops it, and the program has completed at depth 0. The lock scopes of the code
are the atomic steps, but what happens outside the lock, `ExecuteStep`, the observer, the join
in `StartExecution`, are steps of their own. `executed`, `late` and `observed` are counters that
only the properties read (steps of this run, steps after `Pause`, calls of the observer),
capped.

`DebugSession` extends `Debugger` and replaces the arbitrary client by the
handlers of `debug.cc`: each handler is a sequence of debugger calls with the
lock released between them. `SessionInit` is `Debug`, `InstallObserver` the
observer of lines 243-249, which locks the mutex for the exit code.
`CallAwaitPauseInDestructor` is where `~Debugger` begins to wait, and `DestroyMembers` the end of
the destructor, once `AwaitPause` has returned.

### ParallelMove

`ParallelMove` is `GenerateMovs`: the partition of the moves into those that are
in no cycle and those that are (`PartitionRound`, `PartitionEnds`), the choice of
the next move (`IsNextMove`) or swap, the xchg that shortens a cycle, and the
temporary register for moves and swaps from memory to memory and for wide
immediates, free or pushed and popped. `content` is what each location would hold
if the instructions emitted so far were executed from a state in which every
location holds its own name; so the generated code is executed while it is
generated, and correctness is a statement about `content`.

### SharedPointer

`SharedPointer` composes three pieces of code: the builder's ownership protocol
(which expression yields a fresh reference and which statement deletes one), the
lowering of pointer instructions to calls, and the runtime functions
`copy_shared`, `delete_strong_shared`, `delete_weak_shared`,
`validate_weak_shared` and the `make` functions. A program is any sequence of declarations
and assignments over `Vars` followed by the end of its scope; an action is the
straight-line code up to the next call of a delete function, and `todo` is the program's
stack of work, with the frames of nested destructors in front. `MCSharedPointer` names
four variables (data, pointer to data, weak pointer, pointer to pointer), the smallest set
with every kind of pointer assignment.

### Coordinator

`Coordinator` is `coordinator.cc`: which actions a declaration becomes and what they
wait for (`FindActionsForTypeDecl` and its siblings), the passes over the three groups
of actions (`Complete`, `NextPass`, `NextGroup`), `FindLoop` with its stack when a pass
makes no progress (`FollowPrerequisite`, `CloseLoop`, `ReportLoop`), and the execution of
the ordered actions. A package is any sequence of declarations of at most `N` objects
that mention each other. Of what an action does to the type information, two things
are kept: whether it reports an issue, and whether it looks at an underlying type or a
signature that no action has set yet, which the code dereferences. The first ends the
execution with `failed`, the second with `crashed`.

### DominatorTree, CheckedFunc

`DominatorTree` is `Func::UpdateDominatorTree` with its three stages: the search
(`Visit` pushes the unseen children in any order, as they come from an unordered set),
the semidominators from the last block to the first (`FindImplicitIDom`), the
dominators that differ from them from the first to the last (`FindExplicitIDom`). The
forest that `Link` builds is the part of the search tree whose blocks were processed;
`Compress` changes no answer of `Eval`, which is stated on the tree. `depthFirst` is
an observation for the properties: whether the tree is one of a depth-first search.

`CheckedFunc` extends it with a function's way through `katara-ir interpret`: the
parser connects the blocks, the checker decides with `CheckValuesInFunc` and
`CheckBlock`, and the interpreter executes what it accepts. An instruction is a phi or
a `mov`, which stands for every instruction with at most one used and one computed
value. So the checker's rules and the interpreter's steps, which never call each
other, are held against each other: no accepted function may reach an operand that is
not in `computed_values`, a phi without a value for the previous block, or the exit
without a return. The tree is computed by the checker on its first question; the model
computes it as soon as the blocks are connected and adds the instructions
afterwards, which changes no answer because instructions are no input of it.

### IrScanner, IrText, IrFile

`IrScanner` is the scanner of the IR's text format, from characters to tokens. `IrText` is
`print.cc` and the parsers that read what it writes, `func_parser.cc`, `constant_parser.cc` and
`type_parser.cc`, with the types, constants and instructions that
`src/lang/processors/ir/serialization` adds by overriding them. The reader is the record that
the parsers share: position, blocks and values by number, and the work that waits until a name
is known. `IrFile` is a function's way through a file: written (`WriteFile`), possibly edited
(`Edit`: at any position, one token is lost, or replaced by one of the short sequences in `Spares`,
or has such a sequence put behind it, or the text ends there; the spares are punctuation, numbers,
names and given types), read behind other functions (`Read` with an
offset for the function numbers), and, for every short text, scanned.

### Scanner, Parser

`Scanner` splits characters into tokens on demand: whether a newline is a semicolon depends
on the token before, and whether `>>` is one token on what the parser asks for.
`Parser` writes each parse function of `parser.cc` down as a sequence of steps (take a
token, call a function, choose by the token, repeat while, report and skip), and `Run`
carries them out: what a failed step reports, what it skips, and that the function returns
null then. So error recovery is in the model as it is in the code. A file is a program
printed from a tree, or a scrap of arbitrary characters at a place where a construct may begin.

### Atomics, LangTypes, ExprHandler, StmtHandler, ExprBuilder, StmtBuilder, BuiltFunc, LangMeaning, FrontEnd

A function's way from the parser to the interpreter. `Atomics` is the arithmetic of
`src/common/atomics` and of constants, for widths that are a constant; `LangTypes` the
types and the questions asked of them; `ExprHandler` and `StmtHandler` the type checker,
which gives every expression its info or reports; `ExprBuilder` and `StmtBuilder` the IR
builder, which keeps the current block (or none), the contexts with their variables, and
the blocks of the loops around; `BuiltFunc` the checkers of the IR and the interpreter on
what a built function consists of, with the owners of every object counted. `FrontEnd`
has a step for each stage (`CheckTypes`, `BuildIr`, `CheckIr`, `RunFunc`) and says how each
may end. `LangMeaning` is the reference: it follows the checked statements themselves,
without blocks, copies and owners. The stages do not share code in the model either, so
`FrontEnd`'s properties hold four parts of the program against one another and against
the meaning of the language.

Where the IR checker finds issues, the model's way ends, though the program only prints
them when asked to (`CheckIr` debug option): what it would execute then is not a function.

### RegisterAllocation

The functions given to the translator: `Propagate` is the worklist of `live_range_analyzer.cc`
(any block of the queue first, as the code's set is unordered), `BuildGraph` the interference
graph, `ColorValue` the greedy coloring in any order, with the argument registers asked for
first, and `Enter` starts the allocated function, whose phis have become movs in the parents
(`ResolvePhisInFunc`), beside the IR. Where phis are resolved with undefined behavior, a
function's way ends before the coloring, in the phase `undefined`. A register holds a token that
says which dynamic value was written to it; so `ReadsAreRight` compares every read on every path
with the IR, and does not depend on how liveness is found. `IsFunc` says which functions are
meant: those in which blocks, phis, definitions and uses are as `ir/check/checker.cc` demands,
with no more arguments than `OperandForArg` knows. It asks for definitions before uses on every
path, which is what the checker's dominators stand for.

### InstrTranslator

How each IR instruction becomes x86-64 instructions once its operands have their places:
the instruction translators, temporaries with their pushes and pops, calls, returns,
prologue and epilogue. The emitted code runs on a small machine (registers, slots of the
frame, a stack, memory), and `TranslatedRight` compares the result with what the IR
instruction computes and what lives on with what it was. 64 bits stand for 4 bits and 32
and 8 bits for 2, which keeps the one difference that the code asks about, constants that
fit into 32 bits and constants that do not.

The translators share their parts as the code's do: `GenerateMov` and `InTmp`
(`TemporaryReg::ForOperand`: an operand, moved to a temporary where the instruction cannot
take it), `Save` and `Restore` around what a temporary is used for, `MovAndApply` for the
instructions that move one operand to the result and apply the other. `Prepare` may return any
temporary that the search through unordered sets may return. `IsInstr` says which instructions
are meant: operands of the sizes that the IR checker demands, one that is not a constant
where a comment of the translators assumes it (arithmetic_logic_instrs_translator.cc:228),
results in places of their own and apart from what lives on, as register allocation leaves
them, and no more arguments and results than `OperandForArg` and `OperandForResult` know.

### X86Decoder, MachineCode

`MachineCode` is every instruction class with the checks of its constructor and its
`Encode`, the layout of functions and blocks, and the linker's patches. `X86Decoder` is
the processor, not a part of the repository: it reads the linked bytes back, and
`RunsAsWritten` compares what it reads with the instructions. Programs may contain
instructions of a form in `Misencoded`; the property is silent about these and only these,
and says of every instruction around them that it is where it should be.
`IsInstr` and `IsOperand` are what the constructors accept; `IsProgram` adds that a program
only refers to functions and blocks it has, as `func_addrs_.at()` demands, and that declared
functions lie within 2 GB of the memory, which nothing in the code checks (see
[known deviations](#known-deviations)). `ApplyPatch` applies one patch: the patches of
`Linker::ApplyPatches` write to different bytes, so their order does not matter.

## The runs

| run | question | states |
|---|---|---|
| `debugger` | does the debugger keep its promises to a client that calls anything at any time? | 8,196 |
| `debug_session` | do the look-then-act handlers ever reach a `fail()`, an empty stack, or an exit with a live thread, and do they return? | 6,114 |
| `parallel_move` | is the emitted sequence one parallel move, for every set of moves? | 57,866 |
| `shared_pointer` | do counts match owners, is nothing used after it is freed, is nothing left behind? | 115,804 |
| `coordinator` | is the order a topological one, is a reported loop real and are its members in one, is everything processed? | 829,523 |
| `checked_func` | are dominators right, and does what the checker accepts run? | 1,529,260 |
| `ir_text` | does the text say what the function is, and is what is read what the text says? | 229,912 |
| `parser` | is a program given its tree, is nothing dropped silently, does the parser end? | 104,795 |
| `front_end` | is what the type checker accepts built, does it compute what is written, are variables released? | 29,446 |
| `register_allocation` | are live ranges liveness, do reads find what was written? | 35,185 |
| `instr_translator` | does the code compute what the IR instruction computes, wherever operands are? | 98,308 |
| `machine_code` | does the processor read what was encoded and linked, is only full memory refused? | 23,351 |

Each property has a mutant: a plausible mistake in one of the modelled functions with which the
run finds the property violated.

**Bounds.**
- `Debugger`, `DebugSession`: `MaxDepth = 3` gives a caller, a callee and a callee of the
  callee, which is what separates step in, over and out, for any number of steps
  (the counters saturate, the program is unbounded in time).
- `ParallelMove`: three registers, of which one is in no move, and two stack slots give cycles
  of length two to four, chains that hang on cycles, two cycles at once, memory-to-memory
  moves and swaps, an uninvolved register that is free or live; immediates of both
  widths. What a larger instance would add is covered by the proofs.
- `SharedPointer`: five blocks are the four variables and what two statements allocate
  on top; the longest ownership chain (variable, pointer, pointed pointer, data) needs four.
- `Coordinator`: three objects with three mentions give self-references, loops of two and
  three, ways into a loop from outside, and every order of the declarations; the two
  actions of a type make up to six actions. The proofs cover the rest.
- `CheckedFunc`: four blocks with five edges give diamonds, loops with one or two entries,
  and blocks the entry does not reach; `MaxWrong` allows one block whose last instruction
  alone is a reason for rejection. Two instructions are a definition and a use (or two
  definitions, or a phi that uses itself), and the checker's rules relate no more than two.
  Blocks are numbered in the order in which they are first named, since the code never
  compares numbers. The proofs cover graphs and functions of every size.
- `IrFile`: every instruction, type and constant of the format by itself, pairs of blocks of
  which one uses what the other defines, in both orders, edits at every token, and every
  text of up to four characters over twelve that the scanner tells apart, since its
  look-ahead is one character and its longest special form two.
- `Parser`: three characters (`ScrapLength`; one may be a whole word) at four places
  where different parse functions begin, a switch on one line among them, two (`ShortScrap`) at
  three more inside of them;
  programs with every construct, and with three operators of every precedence.
- `FrontEnd`: 5,308 functions: expressions of depth two over every operator, sequences of
  two or three statements from every kind, pointers, nested scopes and loops. Widths 3, 4,
  5 and 6 for 8 to 64 bits: the edges of a type are near and 8 < 16 < 32 < 64 is kept.
  `MaxRounds = 4` rounds of loops, `MaxSteps = 200` instructions; a run that takes longer
  is not compared.
- `RegisterAllocation`: 290 functions, straight lines with calls of two results, four
  arguments, diamonds, critical edges, loops with two phis, a block that is its own parent
  (without phis it is run, with them it is undefined), nested loops; every order of worklist
  and coloring. The proofs cover all other functions.
- `InstrTranslator`: 20,975 instructions; five registers of which two are saved by the
  callee, two slots; operands equal or different, constants narrow and wide, also as
  addresses, nothing, one register, all registers or everything live through the
  instruction. The proofs cover all other instructions and numbers of registers.
- `MachineCode`: operands at the corners of the encoding (accumulator, stack and base
  pointer, r8 to r15, no, short and long displacements, immediates of either sign and every
  width); layouts of two functions with two blocks; `Capacity = 36` bytes, so that some
  programs fill the memory to its last byte and are taken, and others are refused for the byte
  behind a patch or behind a last ModRM; each misencoded instruction by itself. The proofs cover all
  other operands, programs and capacities.

**Fairness.** `Debugger`: the execution thread and a client that is blocked inside a call
are weakly fair (`WF`): the operating system schedules both threads. A client between two
calls is not (nobody has to call anything), spurious wake-ups are possible but not
promised, and the program need not terminate. `AwaitReturns` is therefore stated for a
program that has completed or that was asked to pause. `DebugSession` assumes the same
of the execution thread and of handlers; the user may stop typing. `RegisterAllocation` is
weakly fair in its own loop (`Allocate`), which one thread executes; `AllocationEnds` says
that the fixpoint, the graph and the coloring terminate.

**Deadlock** is not checked where the system may stop: a client that called
`fail()`, a session that has ended, a finished generator, a program that ended.
`NeverStuck`, `AwaitReturns` and `WaitsEndOrMeetObserver` say what a deadlock check would;
`Coordinator` is checked for deadlock.

## Known deviations

Where the code does not do what a property asks for, the case is named and excluded, in one of
three ways: by a disjunct or an antecedent of the property itself (most of those below), by the
inputs of the run or the hypothesis of a theorem (`LowSpec`, `OwningProgram`, `Exprs`,
`IsProgram`), or by a state in which the model stops and of which the properties say less
(`crashed` of `Coordinator`, `undefined` of `RegisterAllocation`, the unsupported and undefined
operations of `FrontEnd`). Some names are wide: `KnownGap` and the cases of `ComputesAsWritten`
are about a whole function, so that nothing is said of what else is in it. A property does not
catch the mistake that it names; the hazards in `PROJECT.json` have a note where that is so. The
exclusions are what a reader who wants to repair something should look at.

**Debugger session.** `AwaitPause` joins the execution thread while it holds `mutex_`
(debugger.cc:111-112), and the observer that `debug.cc` installs (243-249) takes that mutex: a
`pause`, or the exit of the session, that meets the end of the program blocks for ever
(`ObserverMeetsJoin`). The observer also captures a reference to the local `repl` of
`HandleDebuggerCommands`, which is destroyed before `~Debugger` waits for the thread: an
observer that is called by then uses an object that is gone. The model has the observer's use of
the debugger, not that of the REPL, and so no property is about it.

**Parallel moves.** mov_generator.cc:392 passes a register's number where a color is expected.
They agree for rax, rcx, rdx and rbx only; otherwise the temporary that is written is not the
one that was checked and saved. The properties are stated for an uninvolved register of which
number and color agree (`LowSpec`). `call_generator.cc`, the only caller, has a register on one
side of every move and never asks for that temporary.

**Shared pointers.** The strong count of a destroyed element stays 1 (shared_pointer.ir:62), so
that a block whose element was destroyed before its last weak pointer is deleted is never freed
(`LastWeakAfterElement`; `NothingElseIsAbandoned` shows that it is the only way to lose a block).
A pointer read through a pointer is not copied (expr_builder.cc:192), unlike one read from a
variable; the second delete uses freed memory. And because the strong count of a destroyed
element stays 1, a store through a weak pointer that outlived it is not rejected; if the element
is itself a pointer, the store deletes it a second time (with the variables `p`, `wp` and `pp`
of types `*`, `weak *` and `**` and six blocks TLC finds `NoUseAfterFree` violated). The run's
weak pointer leads to data, where this does no harm.

**Order of type checking.** The action that sets a type's underlying type defines nothing
and nothing waits for it (coordinator.cc:140-144): a constant of that type may be
processed before, and `DeclHandler::ProcessConstant` then dereferences a null pointer
(`FollowsNull`, phase `crashed`).

**Dominators.** `FindDFSTree` marks blocks as seen when it pushes them (func.cc:237), so that
its tree need not be depth-first; from five blocks and six edges on the dominators can be
wrong, and the checker then accepts a function that reads a value which is not computed on
one of the paths.

**IR text.** A phi's text does not name its origins, a panic's not its reason; a string of more
than three characters is printed as `...`, and quotes and backslashes in a string are printed as
they are (values.cc:14-20), so that it may come back as other tokens; an entry block that is not
the first one is not recognised; a value used in a block before the one that defines it has no
type there (`Unfaithful`). The type parser returns the types of strings and type IDs without
going past their name (type_parser.cc:30-34 and 41-45): a text with one of them is refused with
an issue (`HasStringType`). Writing a type of which a part is a null pointer crashes
(types.cc:22-26): such functions are not printed (`RefStringFails`). A type missing after a
colon is no issue, a constant that does not fit is cut to its type, and the type given at a
later mention of a value is not compared (`MissingType`, `CutConstant`, `IsLaterMention`). Three
malformed texts crash the parser: a constant without a type (`NoTypeOfConstant`), a shared
pointer that is neither strong nor weak (`NeitherStrongNorWeak`), and a type of which a part
could not be read where an issue's message spells it out, through `RefString` (`UnreadablePart`;
constant_parser.cc:133-141, func_parser.cc:995-998). A text's last token is read differently at
the very end of the file when it is a blank, an arrow, or an unterminated string
(`EndIsNoDifferent`).

**Parser.** An expression list that is empty is no issue (parser.cc:775-780, `DropsEmptyList`):
`var x =` with nothing behind is dropped where a semicolon or the end of a block follows, and
`case :` with the rest of its line and the switch it is in (597-600). A block cut off by the end
of the file repeats for ever; blocks that end on the line of their last statement,
`fallthrough`, escapes in literals, `default` behind a case, and `>>>` that closes three type
argument lists are rejected or misread (`KnownDeviation`). Comments become tokens that the
parser rejects.

**Front end.** What the type checker accepts and the builder does not build (`KnownGap`):
comparisons are not checked at all; constants of different types or divided by zero; `!` on
numbers; untyped constants as arguments; index, conversion, literal and `len`, which yield no
value; generic calls; variables of the package; `nil` without a type and several values of one
call; objects without a type; operators of assignments; returns without values and functions
that end without one; dead code and loops that never continue; an else-if with an initial
statement; a name declared twice. What is built but computes something else
(`ComputesAsWritten`): constants out of the range of their type, comparisons of constants
(always false), `switch` (no code), copies of a nil pointer (an access to address 0,
shared_pointer.ir:17), pointers read through pointers. Pointers among the values that an
expression statement drops are never deleted (stmt_builder.cc:321).

**Register allocation.** Five shapes: phis that read one another (the movs should be
parallel, phi_resolver.cc:30), phis behind critical edges, phis whose result is not used, results of
a call that are not used (interference_graph_builder.cc:25), and arguments whose value got
another color than its register (nothing moves them). And in a block that is its own parent,
`ResolvePhisInBlock` inserts movs into the vector of instructions over which it iterates
(phi_resolver.cc:16-31), which is undefined; the model stops there (`InsertsIntoItself`).

**Instructions.** Ten cases (`KnownDefect`): `bool_not` complements all bits; `not` and
`neg` work on the operand; multiplications of 8 bits, to the frame, or onto their first factor;
two memory operands tested on the wrong operand; temporaries of the wrong size; a
temporary that holds an operand when every register is live; unsigned constants that are
sign-extended; moves of arguments or results over one another; a constant address cut to 32
bits (data_instrs_translator.cc:56); the order of the epilogue's pops and the missing room
for slots.

**Encoder.** `Misencoded`: the short `xchg` drops a prefix bit for r8 to r15; a multiplication
by the constant one keeps the old result; a 64-bit `mov` of a 32-bit immediate is zero-extended
(data_instrs.cc:72) or fills half of a memory operand; a `mov` of a function reference stores
four bytes of a distance. The linker cuts a distance off at 32 bits without a check
(linker.cc:38); `run.cc` links `malloc` and `free` of the compiler itself, and whether they are
near enough to the executable memory is left to the loader. `IsProgram` assumes it. Code that
fits is refused when it ends with the last byte of the memory and its last instruction has a
patch there or ends in ModRM or SIB, because the encoder takes the address behind them
(control_flow_instrs.cc:29, instr_encoder.cc:104; `AsksForOneMore`).

## The proofs

TLAPS checks `DebuggerProofs`, `ParallelMoveProofs`, `CoordinatorProofs`,
`SharedPointerProofs`, `CheckedFuncProofs`, `RegisterAllocationProofs`, `InstrTranslatorProofs`
and `MachineCodeProofs`; what they prove holds for every value of the constants, under the
assumptions that the modules name (`ASSUME`), which TLC evaluates in the runs.

**DebuggerProofs.** No assumption on `MaxDepth` or the observers beyond those the module
declares. The inductive invariant `IInv` adds to the type invariant how the two program
counters, the mutex and `exec_state_` constrain each other: who is between `starting` and the
spawn while nobody else may start, that the execution thread is one of `begin`, `step`, `decide`
exactly while the state is running or pausing, that a joining client holds the mutex and a
thread it joins has left its loop, and that a late step is only possible while pausing. None of
the stated properties is inductive by itself: each is about one of the two threads and breaks
unless one knows where the other one is. `TypeCorrect`, `DriverMatches`, `PromptPause`,
`ObserverOnce`, `NoWakeUpIsLost` and `ThreadNeverOverwritten` follow from it: that a waiting
client is woken by each of the ways in which a run ends, and that no thread is assigned to while
it is joinable, which `StartExecution` does not check again after it has released the mutex;
`Refinement` proves that every step maps to a step of `ProgramControl` or a stutter.

The second half of the module is about `DebugSession`. `SessionIsClient`: every step of the
session is a step of the debugger with some client, or leaves the debugger alone; so the
invariant above holds in a session. On top of it `SInv` says what each handler knows at each of
its points: what it has seen while it held the mutex stays true after it released it, because
the execution thread can bring a program to rest but not out of it. `HandlersNeverFail`,
`FrameExists` and `AtRestWhenDestroyed` follow. This is the argument a reader of `debug.cc` has
to make for each of its unlocked look-then-act sequences.

**ParallelMoveProofs.** Proved for every finite set of registers, stack slots,
immediates and every set of moves with distinct results, under
`TmpKeepsNumber`, that is, some uninvolved register has its number as its color; without it
the properties are false (see [known deviations](#known-deviations)). The invariant is a
conjunction of named parts: what phase the sets belong to (`PhaseInv`), that the moves left
have distinct results (`OperationsInv`, `MovesInv`), that a cycle operand's result is read by
exactly one other (`CyclesInv`, `ClosedCycles`, which is a pigeonhole argument on
finite sets), what free registers and the temporary may hold (`FreeInv`, `TmpInv`),
that every value still to be moved is where it will be read
(`ValuesAreWhereRead`) and that every result written holds its value (`DoneInv`).
`Parallel` (the emitted instructions are one parallel move and spare live registers),
`ClosedAlways`, `WhereRead` and `Progress` (the `fail` at the end of the loop is
unreachable) follow.

**CoordinatorProofs.** For packages of any size (`N`, `MaxUses`). `IInv` has a part for each
thing the coordinator relies on without saying so: `PassInv` (what is completed is in order and
counted in `defined_objects`), `LoopInv` (a search for a loop starts after a whole pass without
progress), `OrderInv` (what an action in order mentions is defined by one before it, as long as
no loop was reported), `FoundInv` (each declaration has its actions, in its group), `PlacedInv`
and `DefinedInv` (no action of a finished group is left out, and what is in order counts as
defined), `IssueInv` (an unexpected dependency was reported), `DistinctInv` (an object is
defined by one action of its group), `StackInv` (the search's stack is a chain of dependencies).
`OrderIsTopological`, `ReportedLoopIsReal` and `AllProcessed` follow from them.
`LoopMembersAreExplained` needs two more arguments. That a member of a reported loop depends on
itself is an induction along the stack, made as a minimal counterexample by the well-foundedness
of the naturals (`SmallestElement`, `ClosedChain`). That the search only ends without a loop
when none exists is about the largest closed set that avoids an object
(`NothingDependsOnItself`), and that an issue has then been reported before (`StuckWithoutLoop`)
that what blocks a group is defined by a later one, which `FindActionsForConstDecl` and its
siblings report.

**SharedPointerProofs.** For any finite set of variables, any number of blocks and pointers of
any depth, under the hypothesis `OwningProgram` of each theorem: a weak pointer leads to data,
and the pointer behind a pointer is not used as a value (the kind of expression `deref_pointer`,
see [known deviations](#known-deviations)). `CountsAreOwners`, `NothingIsUsedAfterFree` and
`OnlyLastWeakAbandons` follow from an invariant in parts. `CountInv` counts owners by kind:
variables, elements of blocks, values on their way in the work that is left (`todo`), addresses
that an assignment still uses, and the frames of nested destructors; strong counts of a
destroyed block and of one whose destructor is running are pinned as well, which
`CountsMatchOwners` alone does not say. `TypingInv` says that a pointer leads to a block of its
type, without which a destructor could be the wrong one or missing. `ShapeInv` says that an
assignment is the last work to be done, so that whatever is deleted before it, recursively, can
neither destroy the block it stores to nor what it stores: both are among the owners. `ScopeInv`
says that the variables in scope are distinct and hold their addresses. The proof has a lemma
for each action on what it does to the number of owners; `AssignEvaluated` does it for all kinds
of left-hand sides and values at once. `OnlyLastWeakAbandons` is about steps: an abandoned block is
in no count (`AbandonedAreGone`), and each action either leaves its owners alone (`StatementKeeps`,
`AssignmentKeeps`, `FinishKeeps`) or ends the last of them and frees it (`DeleteStrongKeeps`,
`DeleteWeakKeeps`), but for the weak deletion of an element that is destroyed.

**CheckedFuncProofs.** The first half is about `DominatorTree`: that `UpdateDominatorTree` computes
dominators, for any finite set of blocks and any edges. It is the argument of Lengauer and
Tarjan, made for this code. `Leads` says that there is a path around a block without
mentioning paths: every set that is closed under edges and begins at the entry has its end.
What the model computes in rounds (`Reached`) is that, since rounds that find nothing new find
nothing more (`RoundsSaturate`). `SearchInv` is what a depth-first search keeps: numbers rise along
the tree, and an edge to a higher number goes down the tree (`DownTheTree`), which is the property
that the search of func.cc:237 loses when a block is pushed by an outer one first.
`SemidominatorIsRight` and `ImplicitStep` say that the second stage finds the
semidominators and, with `EvalInside`, the block of the smallest one between;
`ExplicitStep` that the third finds a dominator (`FinalDominates`) that every other one
dominates (`FinalIsImmediate`).

The second half follows a function from the parser to the interpreter, for any number of
instructions and values as well: `DominatorTreeIsRight`, `TreeThrowsForUnreachedParent` and
`CheckerIsSound`, each for functions whose search was depth-first, as in the properties. The
inductive invariant `FuncInv` has the parts of the tree and one for the interpreter, `RunInv`:
`computed_values` has the arguments and every value whose definition was passed (`Passed`):
above in the current block, or in the previous block or one that dominates it.
`AcceptedFuncRuns` is not inductive because it only looks at the operand that is missing now.
The step that needs a theorem about graphs is the jump: what dominates the next block also
dominates, or is, the one before (`DominatesParent`); a phi's operand is found because the
checker moves its use to the end of the origin.

**RegisterAllocationProofs.** For every set of functions that satisfies `FuncsAssumption` (each
is what the checker demands, `IsFunc`): any number of blocks, loops, values, phis and results,
every order of the worklist and of the coloring, and every path. `AllocationInv` has three
parts. `RangesInv`: each range lies within what is live by paths, what is defined or used in a
block has its place in it (`Sound`), and a parent that was not told a block's entry set has that
block in the queue (`Told`); an empty queue then leaves exactly the liveness by paths
(`LiveRangesAreRight`, by `LiveIsEntry`: the blocks that know a value is live are closed against
the paths). `ColorsInv`: values with an edge have different colors (`ColorDiffers`). `RunInv`:
in front of an instruction, all that is live there and defined on every path to it is in the
register of its color (`LiveHold`); after the first `j` movs, so are the results of the first
`j` phis, and what leaves the block (`Moved`). The lemma between them is `LiveTogether`: two
values live at one place have an edge, which is an induction from the end of a block, since an
edge is only added where one of them begins to be live. Functions whose phis are resolved with
undefined behavior are not run, so that `AllocatedReadsAreRight` is silent about them. Each of
the five shapes (see [known deviations](#known-deviations)) is used at one place of the proof,
and nothing else is assumed: `SwappedPhis` and `UnusedPhi` for a mov, `CriticalPhi` for where
the movs are, `UnusedResult` for instructions with several results, `ArgElsewhere` on entry.
`AllocatedReadsAreRight` follows.

**InstrTranslatorProofs.** `TranslationIsRight` is `TranslatedRight` for every number of
registers from three on, any slots, argument, result and callee-saved registers, and every set
of instructions (`InstrsAssumption`), so for all values, all operands and whatever is live. The
machine is executable, so TLC only follows it; a proof has to say what code does without
executing it. `Runs(c, x, y)` does: there is a trace of machines from `x` to `y` along the
instructions of `c`, each of which its constructor accepts. `ThenRuns` joins two pieces. Most
code neither jumps nor calls, and `Gives` says what it does whatever is on the stack; each
instruction of the machine has a lemma in this form. `Temporary` is what the search for a
temporary guarantees: one that is not saved holds nothing that is read or lives on;
`SomeTemporary` that with three registers there always is one, so that the `fail` of
`TemporaryReg::Prepare` is unreachable; `OperandInTmp` what code between saving and restoring
one does. With them each translator has its lemma (`IntSubTranslates`, `LoadTranslates`, ...),
four of them by `ApplyGives`. Calls save and restore any number of registers; the traces of the
pushes and pops are written down (`PushAllRuns`, `PopAllRuns`), which needs no induction. A
frame saves at most one, because more than one callee-saved register is a known defect. Each of
the ten defects is used in the lemmas of the translators it names, and nowhere else. The
inductive invariant is then short, `OnTheWay`: the code that is left takes the machine to a
state that is right. It quantifies over traces, which TLC cannot enumerate; TLC checks its
consequence, `TranslatedRight`, on every instruction of the run.

**MachineCodeProofs.** `LinkedCodeIsRight` and `OnlyFullMemory` are the two properties of
`MachineCode` for every capacity, all instructions (`IsInstr`) and all programs (`IsProgram`) of
`MachineCodeAssumption`. Two arguments meet. The one is about single instructions: the bytes of
`Encode(i)`, wherever they lie, are read by `Decode` as `i` (`InstrReads`), and as a jump or
call to the address when the last four hold the distance (`ReferenceReads`). It is made once for
the parts `InstrEncoder` puts together, a "form": no opcode is taken for a prefix
(`FirstOpcodeByte`), prefixes give the size and the extension bits back (`ReadPrefixesOf`),
ModRM, SIB and displacement give the operand back, for every base, index, scale and displacement
(`ReadMemory`, `ReadRegister`; this is where `rsp`, `rbp`, `r12` and `r13` are told apart), and
the immediate follows (`ReadFormImm`). What is left for each class of instructions is its
opcode. The other is the inductive invariant `MachineCodeInv`: instructions lie one behind the
other without a gap (`StartsInv`), the bytes of each are in the code except for the four of a
reference (`BytesInv`), and each reference is either still in the list of patches or its
distance is in these four (`RefsInv`). `RunsAsWritten` is not inductive because it says nothing
before everything is linked. Applying a patch keeps it because the four bytes lie within one
instruction and instructions do not overlap (`ApplyPatchInv`). `AddressInv` has that what is
referred to has an address when the linker asks for it, near enough for 32 bits; `TodoInv`
counts the bytes written, from which `RefusesOnlyFullMemory` follows, since the views of the
patches and the address behind ModRM and SIB ask for at most one byte more than the instruction
has (`Room`). `Misencoded` is used where it is named:
for `xchg`, `imul` and `mov`. TLC has checked `MachineCodeInv` in every state of the run.

## Only model-checked

Liveness under fairness is beyond the prover: `AwaitReturns`, `WaitsEndOrMeetObserver`,
`AllocationEnds`. So is induction over data: what a recursive definition computes for every
input cannot be proved with the installed provers, and the modules that follow trees
recursively (`Parser`, `IrText`, `FrontEnd` and those it extends) are checked on enumerated
inputs. Of the decoder in `X86Decoder` nothing is proved but that it reads what the encoder
writes: that it reads as a processor does is for the reader to compare with the manual.

## Not modelled

See "components" in `PROJECT.json` for every part and its reason. In short: formatting
and the documentation generator, flags and file systems (I/O and text); containers and
accessors; package loading, scopes of identifiers, the call graph and the pointer
optimisers, and the line editor, which are in the plan. Within the modelled parts:

- `Debugger`: what the program computes. `DebugSession`: the words of commands.
- `ParallelMove`: operand sizes. `InstrTranslator`: the maps from IR to x86 numbers;
  division and shifts, for which the code emits nothing.
- `SharedPointer`: calls, control flow and strings (calls and control flow are in
  `FrontEnd`, with counted owners but without the runtime's code).
- `CheckedFunc`: types, values and calls (types and values are in `BuiltFunc`).
- `Parser`: positions and the wording of issues.
- `FrontEnd`: selections, function literals, type switches, methods, struct fields, the
  elements of container types and weak pointers; a variable name is used for one object of a
  function. Operations that the interpreter does not implement (negation of integers,
  Boolean operators, strings) are built and checked but not run, and a shift by more than
  the width is undefined and not compared.

## Plan

What is left, in the order of its worth:

1. `IdentifierResolver` and `PackageManager`, composed with `Coordinator`, so that
   its inputs come from resolved packages; selections of methods and their types.
2. Unique pointers, the two pointer optimisers and their lowering, as refinements of
   `SharedPointer`; calls and control flow in its ownership protocol.
3. `Repl` composed with `DebugSession`; `FuncCallGraph` and the removal of functions.
