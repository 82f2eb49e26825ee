------------------------------ MODULE Debugger ------------------------------
(***************************************************************************)
(* ir_interpreter::Debugger (src/src/ir/interpreter/debugger.{h,cc}): an   *)
(* interpreter whose program runs on its own thread, exec_thread_, while   *)
(* one client thread starts it, pauses it, waits for it and inspects it.   *)
(* The two share exec_state_ and termination_observer_ under mutex_ and    *)
(* meet on the condition variable cond_.                                   *)
(*                                                                         *)
(* A critical section that neither waits nor joins is one action guarded   *)
(* by mutex = "free". StartExecution, AwaitPause and AwaitTermination keep *)
(* mutex_ while they join exec_thread_: those sections are several steps,  *)
(* with mutex = "client" in between.                                       *)
(*                                                                         *)
(* The interpreted program is any program: an instruction leaves the stack *)
(* as it is, calls (depth + 1) or returns (depth - 1); it has completed    *)
(* when the entry function's frame is gone.                                *)
(***************************************************************************)
EXTENDS Integers

CONSTANTS
  MaxDepth,    \* bound on the depth of the interpreter stack
  Observers    \* what SetTerminationObserver may install: "quiet" touches
               \* only the client's data, "exit_code" calls exit_code()

ASSUME MaxDepthAssumption == MaxDepth \in Nat \ {0}
ASSUME ObserversAssumption == Observers \subseteq {"quiet", "exit_code"}

ExecutionState == {"kRunning", "kPausing", "kPaused", "kTerminated"}
ExecutionCommand == {"kRun", "kStepIn", "kStepOver", "kStepOut"}

VARIABLES
  mutex,      \* holder of mutex_ between steps: "free" or "client"
  execState,  \* exec_state_
  observer,   \* termination_observer_, "none" when empty
  thread,     \* exec_thread_ and its program counter; "none": not joinable
  command,    \* Execute's parameter
  base,       \* Execute's initial_stack_depth
  called,     \* Execute's local copy of the observer
  depth,      \* stack_.depth()
  client,     \* program counter of the client thread
  awaiting,   \* the method whose cond_.wait the client is in, or "none"
  observed,   \* history: how often an observer was called
  executed,   \* history: instructions of this run, counted up to 2
  late        \* history: instructions since Pause() asked this run to pause,
              \* counted up to 2, or -1 if it did not ask

execVars == <<thread, command, base, called, depth>>
clientVars == <<client, awaiting>>
history == <<observed, executed, late>>
vars == <<mutex, execState, observer, execVars, clientVars, history>>

Threads == {"none", "begin", "step", "decide", "observe", "done"}
Clients == {"idle", "starting", "spawning", "asleep", "woken", "joining", "failed", "aborted"}

Inspectable == {"kPaused", "kTerminated"}

TypeOK ==
  /\ mutex \in {"free", "client"}
  /\ execState \in ExecutionState
  /\ observer \in Observers \cup {"none"}
  /\ thread \in Threads
  /\ command \in ExecutionCommand
  /\ base \in 0..MaxDepth
  /\ called \in Observers \cup {"none"}
  /\ depth \in 0..MaxDepth
  /\ client \in Clients
  /\ awaiting \in {"none", "AwaitPause", "AwaitTermination"}
  /\ observed \in {0, 1, 2}
  /\ executed \in {0, 1, 2}
  /\ late \in {-1, 0, 1, 2}

(* The Interpreter constructor pushes the entry function's frame. *)
Init ==
  /\ mutex = "free"
  /\ execState = "kPaused"
  /\ observer = "none"
  /\ thread = "none"
  /\ command = "kRun"
  /\ base = 1
  /\ called = "none"
  /\ depth = 1
  /\ client = "idle"
  /\ awaiting = "none"
  /\ observed = 0
  /\ executed = 0
  /\ late = -1

Capped(n) == IF n < 2 THEN n + 1 ELSE 2

Alive == client \notin {"failed", "aborted"}      \* both end the whole process
Joinable == thread # "none"
HasProgramCompleted == depth = 0
Requested == late >= 0

-----------------------------------------------------------------------------
(* The client thread: one action per public method, or per part of one.    *)

SetTerminationObserver(o) ==
  /\ client = "idle" /\ mutex = "free"
  /\ observer' = o
  /\ UNCHANGED <<mutex, execState, execVars, clientVars, history>>

(* Run, StepIn, StepOver and StepOut lock mutex_ and check the state ...   *)
StartExecution ==
  /\ client = "idle" /\ mutex = "free"
  /\ execState = "kPaused"
  /\ mutex' = "client"
  /\ client' = "starting"
  /\ UNCHANGED <<execState, observer, execVars, awaiting, history>>

StartExecutionFails ==
  /\ client = "idle" /\ mutex = "free"
  /\ execState # "kPaused"
  /\ client' = "failed"
  /\ UNCHANGED <<mutex, execState, observer, execVars, awaiting, history>>

(* ... join the thread of the previous run, if there is one ...            *)
JoinBeforeStart ==
  /\ client = "starting"
  /\ thread \in {"none", "done"}
  /\ thread' = "none"
  /\ client' = "spawning"
  /\ UNCHANGED <<mutex, execState, observer, command, base, called, depth,
                 awaiting, history>>

(* ... and assign a new thread, on Execute(c), to exec_thread_. The         *)
(* assignment to a std::thread that is joinable calls std::terminate.      *)
Spawn(c) ==
  /\ client = "spawning"
  /\ IF Joinable
       THEN /\ client' = "aborted"
            /\ UNCHANGED <<mutex, execState, execVars, executed, late>>
       ELSE /\ execState' = "kRunning"
            /\ thread' = "begin"
            /\ command' = c
            /\ executed' = 0 /\ late' = -1
            /\ mutex' = "free"
            /\ client' = "idle"
            /\ UNCHANGED <<base, called, depth>>
  /\ UNCHANGED <<observer, awaiting, observed>>

(* mutant: the state says paused before the thread has stopped *)
PauseAtOnce ==
  /\ client = "idle" /\ mutex = "free"
  /\ execState = "kRunning"
  /\ execState' = "kPaused"
  /\ late' = 0
  /\ UNCHANGED <<mutex, observer, execVars, clientVars, observed, executed>>

(* Pause, which returns at once unless the program runs.                   *)
Pause ==
  /\ client = "idle" /\ mutex = "free"
  /\ execState = "kRunning"
  /\ execState' = "kPausing"
  /\ late' = 0
  /\ UNCHANGED <<mutex, observer, execVars, clientVars, observed, executed>>

(* AwaitPause and AwaitTermination differ in their predicate only. The     *)
(* predicate is evaluated before the first wait and after each wake-up.    *)
Accepts(method, state) ==
  \/ method = "AwaitPause" /\ state \in {"kPaused", "kTerminated"}
  \/ method = "AwaitTermination" /\ state = "kTerminated"

Await(method) ==
  /\ client = "idle" /\ mutex = "free"
  /\ awaiting' = method
  /\ IF Accepts(method, execState)
       THEN mutex' = "client" /\ client' = "joining"
       ELSE mutex' = "free" /\ client' = "asleep"
  /\ UNCHANGED <<execState, observer, execVars, history>>

AwaitPause == Await("AwaitPause")
AwaitTermination == Await("AwaitTermination")

WakeUp ==
  /\ client = "woken" /\ mutex = "free"
  /\ IF Accepts(awaiting, execState)
       THEN mutex' = "client" /\ client' = "joining"
       ELSE mutex' = "free" /\ client' = "asleep"
  /\ UNCHANGED <<execState, observer, execVars, awaiting, history>>

(* A condition variable may wake its waiter for no reason.                 *)
SpuriousWakeUp ==
  /\ client = "asleep"
  /\ client' = "woken"
  /\ UNCHANGED <<mutex, execState, observer, execVars, awaiting, history>>

(* exec_thread_.join(), if joinable, with mutex_ held until it returns.    *)
JoinInAwait ==
  /\ client = "joining"
  /\ thread \in {"none", "done"}
  /\ thread' = "none"
  /\ mutex' = "free"
  /\ client' = "idle"
  /\ awaiting' = "none"
  /\ UNCHANGED <<execState, observer, command, base, called, depth, history>>

-----------------------------------------------------------------------------
(* The execution thread: Debugger::Execute.                                *)

ExecuteBegin ==
  /\ Alive /\ thread = "begin"
  /\ base' = depth
  /\ thread' = "step"
  /\ UNCHANGED <<mutex, execState, observer, command, called, depth, clientVars, history>>

(* ExecuteStep runs without the lock. *)
ExecuteStep ==
  /\ Alive /\ thread = "step"
  /\ depth' \in {d \in {depth - 1, depth, depth + 1} : d <= MaxDepth}
  /\ thread' = "decide"
  /\ executed' = Capped(executed)
  /\ late' = IF Requested THEN Capped(late) ELSE late
  /\ UNCHANGED <<mutex, execState, observer, command, base, called, clientVars,
                 observed>>

(* mutant: stepping over a call also leaves the caller's frame *)
StepOverLeavesFrame(c, d0) ==
  \/ c = "kStepIn"
  \/ c \in {"kStepOver", "kStepOut"} /\ depth < d0

ExecutedCommand(c, d0) ==
  \/ c = "kStepIn"
  \/ c = "kStepOver" /\ depth <= d0
  \/ c = "kStepOut"  /\ depth < d0

(* cond_.notify_all() *)
NotifyAll ==
  /\ client' = IF client = "asleep" THEN "woken" ELSE client
  /\ UNCHANGED awaiting

ReportTermination ==
  /\ Alive /\ thread = "decide" /\ mutex = "free"
  /\ HasProgramCompleted
  /\ execState' = "kTerminated"
  /\ called' = observer
  /\ thread' = "observe"
  /\ NotifyAll
  /\ UNCHANGED <<mutex, observer, command, base, depth, history>>

(* mutant: the waiter is not notified of the end of a step *)
ReportCommandSilently ==
  /\ Alive /\ thread = "decide" /\ mutex = "free"
  /\ ~HasProgramCompleted /\ ExecutedCommand(command, base)
  /\ execState' = "kPaused"
  /\ thread' = "done"
  /\ UNCHANGED <<mutex, observer, command, base, called, depth, clientVars, history>>

ReportCommandExecuted ==
  /\ Alive /\ thread = "decide" /\ mutex = "free"
  /\ ~HasProgramCompleted /\ ExecutedCommand(command, base)
  /\ execState' = "kPaused"
  /\ thread' = "done"
  /\ NotifyAll
  /\ UNCHANGED <<mutex, observer, command, base, called, depth, history>>

(* mutant: the waiter is not notified *)
HonourPauseSilently ==
  /\ Alive /\ thread = "decide" /\ mutex = "free"
  /\ ~HasProgramCompleted /\ ~ExecutedCommand(command, base)
  /\ execState = "kPausing"
  /\ execState' = "kPaused"
  /\ thread' = "done"
  /\ UNCHANGED <<mutex, observer, command, base, called, depth, clientVars, history>>

(* mutant: the observer is told about a pause as well *)
HonourPauseLoudly ==
  /\ Alive /\ thread = "decide" /\ mutex = "free"
  /\ ~HasProgramCompleted /\ ~ExecutedCommand(command, base)
  /\ execState = "kPausing"
  /\ execState' = "kPaused"
  /\ called' = observer
  /\ thread' = "observe"
  /\ NotifyAll
  /\ UNCHANGED <<mutex, observer, command, base, depth, history>>

HonourPause ==
  /\ Alive /\ thread = "decide" /\ mutex = "free"
  /\ ~HasProgramCompleted /\ ~ExecutedCommand(command, base)
  /\ execState = "kPausing"
  /\ execState' = "kPaused"
  /\ thread' = "done"
  /\ NotifyAll
  /\ UNCHANGED <<mutex, observer, command, base, called, depth, history>>

(* mutant: the request is looked at only after another instruction *)
KeepRunningPastRequest ==
  /\ Alive /\ thread = "decide" /\ mutex = "free"
  /\ ~HasProgramCompleted /\ ~ExecutedCommand(command, base)
  /\ thread' = "step"
  /\ UNCHANGED <<mutex, execState, observer, command, base, called, depth,
                 clientVars, history>>

(* mutant: a completed program is stepped on *)
KeepRunningPastCompletion ==
  /\ Alive /\ thread = "decide" /\ mutex = "free"
  /\ ~ExecutedCommand(command, base)
  /\ execState # "kPausing"
  /\ thread' = "step"
  /\ UNCHANGED <<mutex, execState, observer, command, base, called, depth,
                 clientVars, history>>

KeepRunning ==
  /\ Alive /\ thread = "decide" /\ mutex = "free"
  /\ ~HasProgramCompleted /\ ~ExecutedCommand(command, base)
  /\ execState # "kPausing"
  /\ thread' = "step"
  /\ UNCHANGED <<mutex, execState, observer, command, base, called, depth,
                 clientVars, history>>

(* The observer runs after mutex_ is released; one that calls exit_code()  *)
(* has to lock it again.                                                   *)
CallObserver ==
  /\ Alive /\ thread = "observe"
  /\ called = "exit_code" => mutex = "free" /\ execState = "kTerminated"
  /\ observed' = IF called = "none" THEN observed ELSE Capped(observed)
  /\ thread' = "done"
  /\ UNCHANGED <<mutex, execState, observer, command, base, called, depth,
                 clientVars, executed, late>>

-----------------------------------------------------------------------------
ClientCalls ==
  \/ \E o \in Observers \cup {"none"} : SetTerminationObserver(o)
  \/ StartExecution
  \/ StartExecutionFails
  \/ Pause
  \/ AwaitPause
  \/ AwaitTermination

ClientProceeds ==
  \/ JoinBeforeStart
  \/ \E c \in ExecutionCommand : Spawn(c)
  \/ WakeUp
  \/ JoinInAwait

Execute ==
  \/ ExecuteBegin
  \/ ExecuteStep
  \/ ReportTermination
  \/ ReportCommandExecuted
  \/ HonourPause
  \/ KeepRunning
  \/ CallObserver

Next == ClientCalls \/ ClientProceeds \/ SpuriousWakeUp \/ Execute

(* Both threads keep being scheduled; a client between two calls may stay  *)
(* there for ever, and a condition variable need not wake up by itself.    *)
Fairness == WF_vars(ClientProceeds) /\ WF_vars(Execute)

Spec == Init /\ [][Next]_vars
FairSpec == Spec /\ Fairness

-----------------------------------------------------------------------------
(* The program is driven by the execution thread exactly while exec_state_  *)
(* says so: what stack() and heap() hand out in kPaused or kTerminated has  *)
(* no concurrent writer, and kRunning always has a thread behind it.        *)
DriverMatchesState ==
  execState \in {"kRunning", "kPausing"} <=> thread \in {"begin", "step", "decide"}

(* A client sleeps in cond_.wait only while there is something to wait for: *)
(* whichever way a run ends, also the end of a step that nobody asked to    *)
(* pause, no change to a state it waits for goes unnoticed.                 *)
NoLostWakeUp == client = "asleep" => ~Accepts(awaiting, execState)

(* No std::thread is assigned to or destroyed while it is joinable, which   *)
(* would end the process.                                                  *)
NeverAborted == client # "aborted"

(* Pause() costs at most one more instruction, whatever the interleaving of *)
(* the request with the step in progress.                                   *)
PauseIsPrompt == late <= 1

(* The observer installed when the program completed is called once, before *)
(* any join of the execution thread returns; no observer is called earlier. *)
ObserverCalledOnce ==
  /\ observed <= 1
  /\ observed = 1 => execState = "kTerminated" /\ called # "none"
  /\ execState = "kTerminated" /\ thread \in {"none", "done"} /\ called # "none"
       => observed = 1

(* Every wait ends that should: AwaitPause once the caller asked for a pause, *)
(* and AwaitPause and AwaitTermination once the program has completed.       *)
AwaitReturns ==
  (/\ client \in {"asleep", "woken"}
   /\ HasProgramCompleted \/ (Requested /\ awaiting = "AwaitPause"))
    ~> (client = "idle")

Control == INSTANCE ProgramControl WITH
  status <- CASE execState = "kPaused" -> "paused"
              [] execState = "kTerminated" -> "terminated"
              [] OTHER -> "running",
  progress <- executed > 0,
  requested <- Requested,
  base <- IF thread = "begin" THEN depth ELSE base   \* Execute reads it first

(* Threads, lock and condition variable add up to the sequential promise.   *)
ImplementsProgramControl == Control!Spec
=============================================================================
