---------------------------- MODULE DebugSession ----------------------------
(***************************************************************************)
(* `katara-ir debug` (src/src/cmd/katara-ir/debug.cc): the command thread  *)
(* reads commands in the REPL and its handlers call the Debugger; the      *)
(* termination observer, which the execution thread calls, interrupts the  *)
(* REPL's output and asks the Debugger for the exit code. When the REPL    *)
(* returns it is destroyed, and after it the Debugger.                     *)
(*                                                                         *)
(* A handler is a sequence of Debugger calls, each of which locks mutex_   *)
(* for itself; the execution thread may run between any two of them.       *)
(***************************************************************************)
EXTENDS Debugger

VARIABLES
  handler,   \* what the command thread does next
  chosen     \* the command a handler is about to start

sessionVars == <<handler, chosen>>

Handlers ==
  {"install",                                     \* before the REPL runs
   "prompt",                                      \* in REPL::Run, reading
   "check", "pause", "await", "start",            \* run, pause and step
   "location", "frame", "stack",                  \* print
   "exit", "exitAwait", "destroying", "ended"}    \* after REPL::Run returned

SessionInit ==
  /\ Init
  /\ handler = "install"
  /\ chosen = "none"

Calls(to, c) == handler' = to /\ chosen' = c

(* execution_state(): what a handler sees is the state at this moment.      *)
Looks == client = "idle" /\ mutex = "free" /\ UNCHANGED vars

InstallObserver(o) ==
  /\ handler = "install"
  /\ SetTerminationObserver(o)
  /\ Calls("prompt", "none")

(* HandleRunCommand: start a paused program; wait for a pausing one first.  *)
HandleRunCommand ==
  /\ handler = "prompt"
  /\ Looks
  /\ CASE execState = "kPausing" -> Calls("await", "kRun")
       [] execState = "kPaused" -> Calls("start", "kRun")
       [] OTHER -> Calls("prompt", "none")

(* HandlePauseCommand and ~Debugger both call PauseAndAwait: Pause, which   *)
(* leaves a program that does not run alone, and then AwaitPause.           *)
HandlePauseCommand ==
  /\ handler = "prompt"
  /\ Looks
  /\ Calls("pause", "none")

CallPause ==
  /\ handler \in {"pause", "exit"}
  /\ Pause \/ (execState # "kRunning" /\ Looks)
  /\ Calls(IF handler = "pause" THEN "await" ELSE "exitAwait", "none")

CallAwaitPause ==
  /\ handler = "await"
  /\ AwaitPause
  /\ Calls("check", chosen)

(* Both handlers look at the state again once AwaitPause has returned.      *)
CheckAfterAwait ==
  /\ handler = "check"
  /\ Looks
  /\ IF chosen = "none" \/ execState = "kTerminated"
       THEN Calls("prompt", "none")
       ELSE Calls("start", chosen)

(* mutant: the command is passed on whatever the state is *)
StepWithoutLooking(c) ==
  /\ handler = "prompt"
  /\ Looks
  /\ Calls("start", c)

(* HandleStepCommand refuses unless the program is paused.                  *)
HandleStepCommand(c) ==
  /\ handler = "prompt"
  /\ Looks
  /\ IF execState = "kPaused" THEN Calls("start", c) ELSE Calls("prompt", "none")

CallStart ==
  /\ handler = "start"
  /\ StartExecution \/ StartExecutionFails
  /\ UNCHANGED sessionVars

(* The handler returns to the REPL when the new thread is running.          *)
Started ==
  /\ handler = "start"
  /\ Spawn(chosen)
  /\ Calls("prompt", "none")

(* HandlePrintCommand: a first look at the state, a second one for what     *)
(* needs a current frame, and then stack() or heap(), which fail() if the   *)
(* program is not at rest.                                                  *)
HandlePrintCommand(what) ==
  /\ handler = "prompt"
  /\ Looks
  /\ IF execState \in Inspectable THEN Calls(what, "none") ELSE Calls("prompt", "none")

(* mutant: a terminated program's location is printed like a paused one's *)
PrintAnyLocation ==
  /\ handler = "location"
  /\ Looks
  /\ Calls("frame", "none")

LookBeforeFrame ==
  /\ handler = "location"
  /\ Looks
  /\ Calls(IF execState = "kTerminated" THEN "prompt" ELSE "frame", "none")

Inspect ==
  /\ handler \in {"frame", "stack"}
  /\ client = "idle" /\ mutex = "free"
  /\ execState \in Inspectable
  /\ UNCHANGED vars
  /\ Calls("prompt", "none")

(* The exit command or the end of the input: ~REPL, then ~Debugger.         *)
Exit ==
  /\ handler = "prompt"
  /\ Looks
  /\ Calls("exit", "none")

(* mutant: the destructor asks for the pause and does not wait for it *)
DestroyWithoutAwait ==
  /\ handler = "exitAwait"
  /\ Looks
  /\ Calls("destroying", "none")

CallAwaitPauseInDestructor ==
  /\ handler = "exitAwait"
  /\ AwaitPause
  /\ Calls("destroying", "none")

(* When it has returned the members go; a std::thread that is destroyed     *)
(* while it is joinable calls std::terminate.                              *)
DestroyMembers ==
  /\ handler = "destroying" /\ client = "idle"
  /\ client' = IF Joinable THEN "aborted" ELSE "idle"
  /\ UNCHANGED <<mutex, execState, observer, execVars, awaiting, history>>
  /\ Calls("ended", "none")

Command ==
  \/ HandleRunCommand
  \/ HandlePauseCommand
  \/ \E c \in {"kStepIn", "kStepOver", "kStepOut"} : HandleStepCommand(c)
  \/ \E what \in {"location", "stack"} : HandlePrintCommand(what)
  \/ Exit

Handler ==
  \/ \E o \in Observers : InstallObserver(o)
  \/ CallPause
  \/ CallAwaitPause
  \/ CheckAfterAwait
  \/ CallStart
  \/ Started
  \/ LookBeforeFrame
  \/ Inspect
  \/ CallAwaitPauseInDestructor
  \/ DestroyMembers
  \/ (JoinBeforeStart \/ WakeUp \/ JoinInAwait) /\ UNCHANGED sessionVars

SessionNext ==
  \/ Command
  \/ Handler
  \/ SpuriousWakeUp /\ UNCHANGED sessionVars
  \/ Execute /\ UNCHANGED sessionVars

SessionVars == <<vars, sessionVars>>

SessionSpec == SessionInit /\ [][SessionNext]_SessionVars

(* The user may stop typing; the handlers and both threads are scheduled.   *)
FairSessionSpec ==
  SessionSpec /\ WF_SessionVars(Handler) /\ WF_SessionVars(Execute /\ UNCHANGED sessionVars)

-----------------------------------------------------------------------------
(* A handler looks at the state, releases mutex_ and acts on what it saw.   *)
(* That is safe because only the command thread takes the program out of    *)
(* rest: no handler ever reaches a fail() of the Debugger, nor an end of    *)
(* the process because of a thread that was not joined.                    *)
NoHandlerFails ==
  /\ client # "failed" /\ NeverAborted
  /\ handler \in {"frame", "stack"} => execState \in Inspectable

(* depth() - 1 of an empty stack is 2^64 - 1: a handler that prints the     *)
(* current frame finds one.                                                 *)
PrintedFrameExists == handler = "frame" => depth > 0

(* The destructor leaves no execution thread behind: once it has returned,  *)
(* the program is at rest for ever.                                         *)
DestroyedAtRest ==
  handler = "ended" => thread = "none" /\ execState \in Inspectable

(* The one way a wait never ends: AwaitPause joins the execution thread     *)
(* with mutex_ locked, and that thread is in the observer, which asks for   *)
(* the exit code and waits for mutex_.                                      *)
ObserverMeetsJoin ==
  client = "joining" /\ thread = "observe" /\ called = "exit_code"

(* A pause command returns to the prompt and the destructor returns, unless *)
(* the observer that debug.cc installs meets the join.                      *)
WaitsEndOrMeetObserver ==
  (handler \in {"await", "exitAwait"})
    ~> (handler \in {"prompt", "ended"} \/ ObserverMeetsJoin)
=============================================================================
