--------------------------- MODULE DebuggerProofs ---------------------------
(***************************************************************************)
(* Safety of the debugger for every bound on the stack and every set of    *)
(* observers, the proof that it implements ProgramControl, and the proof   *)
(* that the command handlers of katara-ir debug are a client of it, none   *)
(* of which acts on a state that is no longer what it saw.                 *)
(***************************************************************************)
EXTENDS DebugSession, TLAPS

(* mutex_ is kept across steps by a client that joins, and only while the   *)
(* program is at rest. Nobody can start a thread between its join and its   *)
(* assignment.                                                             *)
LockInv ==
  /\ mutex = "client" <=> client \in {"starting", "spawning", "joining"}
  /\ client \in {"starting", "spawning"} => execState = "kPaused"
  /\ client = "spawning" => thread = "none"
  /\ client = "joining" => execState \in Inspectable

(* What the program counter of the execution thread says about the state    *)
(* and about the program.                                                   *)
ThreadInv ==
  /\ execState = "kPaused" => thread \in {"none", "done"} /\ depth > 0
  /\ execState = "kTerminated" => depth = 0
  /\ thread = "observe" => execState = "kTerminated"
  /\ thread \in {"begin", "step"} => depth > 0

(* A run that goes on has been asked to pause iff exec_state_ says so, and  *)
(* it has executed nothing since unless it is about to look.                *)
RequestInv ==
  /\ thread \in {"begin", "step", "decide"} => (Requested <=> execState = "kPausing")
  /\ thread \in {"begin", "step"} => late <= 0
  /\ late <= 1

(* A run steps on only if it has not carried out its command.               *)
CommandInv ==
  /\ thread = "begin" => executed = 0
  /\ thread = "decide" => executed > 0
  /\ thread = "step" /\ executed > 0 => ~ExecutedCommand(command, base)

ObserverInv ==
  /\ observed <= 1
  /\ observed = 1 => execState = "kTerminated" /\ called # "none" /\ thread # "observe"
  /\ execState = "kTerminated" /\ thread \in {"none", "done"} /\ called # "none"
       => observed = 1

IInv ==
  /\ TypeOK
  /\ DriverMatchesState
  /\ LockInv
  /\ ThreadInv
  /\ RequestInv
  /\ CommandInv
  /\ ObserverInv
  /\ NoLostWakeUp
  /\ NeverAborted

USE DEF ExecutionState, ExecutionCommand, Threads, Clients, Inspectable

LEMMA InitIInv == Init => IInv
  BY MaxDepthAssumption
  DEF Init, IInv, TypeOK, DriverMatchesState, LockInv, ThreadInv, RequestInv,
      CommandInv, ObserverInv, Requested, NoLostWakeUp, NeverAborted

LEMMA NextIInv == IInv /\ [Next]_vars => IInv'
<1> SUFFICES ASSUME IInv, [Next]_vars
             PROVE  IInv'
  OBVIOUS
<1> USE MaxDepthAssumption
    DEF IInv, TypeOK, DriverMatchesState, LockInv, ThreadInv, RequestInv, CommandInv,
        ObserverInv, execVars, clientVars, history, Joinable, Alive, HasProgramCompleted,
        Capped, NotifyAll, ExecutedCommand, Requested, NoLostWakeUp, NeverAborted, Accepts
<1>1. ASSUME NEW o \in Observers \cup {"none"}, SetTerminationObserver(o)
      PROVE  IInv'
  BY <1>1 DEF SetTerminationObserver
<1>2. CASE StartExecution
  BY <1>2 DEF StartExecution
<1>3. CASE StartExecutionFails
  BY <1>3 DEF StartExecutionFails
<1>4. CASE Pause
  BY <1>4 DEF Pause
<1>5. ASSUME NEW m \in {"AwaitPause", "AwaitTermination"}, Await(m)
      PROVE  IInv'
  BY <1>5 DEF Await, Accepts
<1>6. CASE JoinBeforeStart
  BY <1>6 DEF JoinBeforeStart
<1>7. ASSUME NEW c \in ExecutionCommand, Spawn(c)
      PROVE  IInv'
  BY <1>7 DEF Spawn
<1>8. CASE WakeUp
  BY <1>8 DEF WakeUp, Accepts
<1>9. CASE JoinInAwait
  BY <1>9 DEF JoinInAwait
<1>10. CASE SpuriousWakeUp
  BY <1>10 DEF SpuriousWakeUp
<1>11. CASE ExecuteBegin
  BY <1>11 DEF ExecuteBegin
<1>12. CASE ExecuteStep
  BY <1>12 DEF ExecuteStep
<1>13. CASE ReportTermination
  BY <1>13 DEF ReportTermination
<1>14. CASE ReportCommandExecuted
  BY <1>14 DEF ReportCommandExecuted
<1>15. CASE HonourPause
  BY <1>15 DEF HonourPause
<1>16. CASE KeepRunning
  BY <1>16 DEF KeepRunning
<1>17. CASE CallObserver
  BY <1>17 DEF CallObserver
<1>18. CASE UNCHANGED vars
  BY <1>18 DEF vars
<1> QED
  BY <1>1, <1>2, <1>3, <1>4, <1>5, <1>6, <1>7, <1>8, <1>9, <1>10, <1>11, <1>12,
     <1>13, <1>14, <1>15, <1>16, <1>17, <1>18
  DEF Next, ClientCalls, ClientProceeds, Execute, AwaitPause, AwaitTermination

(* Every reachable state satisfies the inductive invariant.                 *)
THEOREM Invariance == Spec => []IInv
  BY InitIInv, NextIInv, PTL DEF Spec

(* Every variable keeps to its type, the depth of the stack included: no    *)
(* instruction is executed after the last frame is gone.                    *)
THEOREM TypeCorrect == Spec => []TypeOK
<1>1. IInv => TypeOK
  BY DEF IInv
<1> QED
  BY Invariance, <1>1, PTL

(* What stack() and heap() return has no concurrent writer while the state  *)
(* allows it to be returned.                                                *)
THEOREM DriverMatches == Spec => []DriverMatchesState
<1>1. IInv => DriverMatchesState
  BY DEF IInv
<1> QED
  BY Invariance, <1>1, PTL

(* A request to pause costs at most one more instruction.                   *)
THEOREM PromptPause == Spec => []PauseIsPrompt
<1>1. IInv => PauseIsPrompt
  BY DEF IInv, RequestInv, PauseIsPrompt
<1> QED
  BY Invariance, <1>1, PTL

(* The termination observer is called once, after termination, before any   *)
(* join of the execution thread returns.                                    *)
THEOREM ObserverOnce == Spec => []ObserverCalledOnce
<1>1. IInv => ObserverCalledOnce
  BY DEF IInv, ObserverInv, ObserverCalledOnce
<1> QED
  BY Invariance, <1>1, PTL

(* No client sleeps past a state it waits for.                              *)
THEOREM NoWakeUpIsLost == Spec => []NoLostWakeUp
<1>1. IInv => NoLostWakeUp
  BY DEF IInv
<1> QED
  BY Invariance, <1>1, PTL

(* A new thread is never assigned to one that is joinable: from the join on *)
(* the lock is held and the program at rest.                               *)
THEOREM ThreadNeverOverwritten == Spec => []NeverAborted
<1>1. IInv => NeverAborted
  BY DEF IInv
<1> QED
  BY Invariance, <1>1, PTL

-----------------------------------------------------------------------------
(* The refinement of ProgramControl. *)

LEMMA InitMaps == Init => Control!Init
  BY DEF Init, Control!Init, Requested

(* The steps of the client that the sequential promise does not see. *)
LEMMA ClientStutters ==
  ASSUME IInv,
         \/ \E o \in Observers \cup {"none"} : SetTerminationObserver(o)
         \/ StartExecution \/ StartExecutionFails
         \/ AwaitPause \/ AwaitTermination \/ WakeUp \/ SpuriousWakeUp
  PROVE  UNCHANGED Control!vars
  BY DEF SetTerminationObserver, StartExecution, StartExecutionFails, AwaitPause,
     AwaitTermination, Await, WakeUp, SpuriousWakeUp, Control!vars, execVars, history,
     Requested

(* Joining a finished thread is not seen either. *)
LEMMA JoinStutters ==
  ASSUME IInv, JoinBeforeStart \/ JoinInAwait
  PROVE  UNCHANGED Control!vars
  BY DEF JoinBeforeStart, JoinInAwait, Control!vars, history, Requested

LEMMA NextMaps ==
  ASSUME IInv, [Next]_vars
  PROVE  [Control!Next]_(Control!vars)
<1> USE MaxDepthAssumption
    DEF IInv, TypeOK, DriverMatchesState, ThreadInv, RequestInv, CommandInv,
        execVars, clientVars, history, Joinable, Alive, HasProgramCompleted,
        Capped, Requested, Control!vars
<1>1. CASE Pause
  <2>1. Control!RequestPause
    BY <1>1 DEF Pause, Control!RequestPause
  <2> QED
    BY <2>1 DEF Control!Next
<1>2. ASSUME NEW c \in ExecutionCommand, Spawn(c)
      PROVE  Control!Next
  <2>1. execState = "kPaused" /\ thread = "none"
    BY <1>2 DEF Spawn, LockInv
  <2>2. Control!Resume(c)
    BY <1>2, <2>1 DEF Spawn, Control!Resume
  <2> QED
    BY <2>2 DEF Control!Next, Control!Commands
<1>3. CASE ExecuteBegin
  BY <1>3 DEF ExecuteBegin
<1>4. CASE ExecuteStep
  <2>1. Control!Advance
    BY <1>4 DEF ExecuteStep, Control!Advance, Control!Satisfied, ExecutedCommand
  <2> QED
    BY <2>1 DEF Control!Next
<1>5. CASE ReportTermination
  <2>1. Control!Finish
    BY <1>5 DEF ReportTermination, NotifyAll, Control!Finish
  <2> QED
    BY <2>1 DEF Control!Next
<1>6. CASE ReportCommandExecuted \/ HonourPause
  <2>1. Control!Suspend
    BY <1>6 DEF ReportCommandExecuted, HonourPause, NotifyAll, Control!Suspend,
       Control!Satisfied, ExecutedCommand
  <2> QED
    BY <2>1 DEF Control!Next
<1>7. CASE KeepRunning
  BY <1>7 DEF KeepRunning
<1>8. CASE CallObserver
  BY <1>8 DEF CallObserver
<1>9. CASE UNCHANGED vars
  BY <1>9 DEF vars
<1> QED
  BY <1>1, <1>2, <1>3, <1>4, <1>5, <1>6, <1>7, <1>8, <1>9, ClientStutters, JoinStutters
  DEF Next, ClientCalls, ClientProceeds, Execute

(* Two threads, a lock and a condition variable implement the sequential    *)
(* promise: every run stops for a reason and exactly where its command says.*)
THEOREM Refinement == Spec => ImplementsProgramControl
  BY Invariance, InitMaps, NextMaps, PTL
  DEF Spec, ImplementsProgramControl, Control!Spec

-----------------------------------------------------------------------------
(* The command handlers.                                                   *)

(* What a handler knows of the program after it has looked and released the *)
(* lock: the execution thread can take a program to rest, but not out of it.*)
SeenInv ==
  /\ handler = "start" => chosen \in ExecutionCommand /\ execState = "kPaused"
  /\ handler = "frame" => execState = "kPaused"
  /\ handler \in {"location", "stack"} => execState \in Inspectable
  /\ handler = "check" /\ client = "idle" => execState \in Inspectable
  /\ handler = "destroying" /\ client = "idle" => thread = "none" /\ execState \in Inspectable

(* Where the command thread is inside a call of the debugger: a start, or   *)
(* the wait whose handler has noted already what it does next.              *)
CallInv ==
  /\ client # "failed"
  /\ client \in {"starting", "spawning"} => handler = "start"
  /\ handler = "start" => client \in {"idle", "starting", "spawning"}
  /\ client \in {"asleep", "woken", "joining"} => handler \in {"check", "destroying"}

SInv ==
  /\ IInv
  /\ handler \in Handlers /\ chosen \in ExecutionCommand \cup {"none"}
  /\ SeenInv
  /\ CallInv
  /\ DestroyedAtRest

(* The invariant of a session holds when the command begins.                *)
LEMMA SessionInitInv == SessionInit => SInv
  BY InitIInv DEF SessionInit, Init, SInv, SeenInv, CallInv, DestroyedAtRest, Handlers

(* Every step of a handler is a step that a client of the debugger may make,*)
(* the destruction of its members included: nothing is joinable any more.  *)
LEMMA SessionStepIsClientStep ==
  ASSUME SInv, [SessionNext]_SessionVars
  PROVE  [Next]_vars
<1>1. CASE Command
  BY <1>1 DEF Command, HandleRunCommand, HandlePauseCommand, HandleStepCommand,
     HandlePrintCommand, Exit, Looks
<1>2. CASE Started
  <2>1. chosen \in ExecutionCommand /\ Spawn(chosen)
    BY <1>2 DEF Started, SInv, SeenInv
  <2> QED
    BY <2>1 DEF Next, ClientProceeds
<1>6. CASE DestroyMembers
  <2>1. client' = client
    BY <1>6 DEF DestroyMembers, SInv, SeenInv, Joinable
  <2> QED
    BY <1>6, <2>1 DEF DestroyMembers, vars, clientVars
<1>3. CASE Handler /\ ~Started /\ ~DestroyMembers
  BY <1>3 DEF Handler, InstallObserver, CallPause, CallAwaitPause, CheckAfterAwait,
     CallStart, LookBeforeFrame, Inspect, CallAwaitPauseInDestructor, Looks,
     Next, ClientCalls, ClientProceeds
<1>4. CASE (SpuriousWakeUp \/ Execute) /\ UNCHANGED sessionVars
  BY <1>4 DEF Next
<1>5. CASE UNCHANGED SessionVars
  BY <1>5 DEF SessionVars
<1> QED
  BY <1>1, <1>2, <1>3, <1>4, <1>5, <1>6 DEF SessionNext

LEMMA SessionNextInv == SInv /\ [SessionNext]_SessionVars => SInv'
<1> SUFFICES ASSUME SInv, [SessionNext]_SessionVars
             PROVE  SInv'
  OBVIOUS
<1>0. IInv'
  BY SessionStepIsClientStep, NextIInv DEF SInv
<1> USE <1>0 DEF SInv, SeenInv, CallInv, DestroyedAtRest, Handlers, Calls, Looks
<1>1. CASE Command
  BY <1>1 DEF Command, HandleRunCommand, HandlePauseCommand, HandleStepCommand,
     HandlePrintCommand, Exit, vars, execVars, clientVars
<1>2. ASSUME NEW o \in Observers, InstallObserver(o)
      PROVE  SInv'
  BY <1>2 DEF InstallObserver, SetTerminationObserver, clientVars, execVars
<1>3. CASE CallPause
  BY <1>3 DEF CallPause, Pause, vars, execVars, clientVars
<1>4. CASE CallAwaitPause \/ CallAwaitPauseInDestructor
  BY <1>4 DEF CallAwaitPause, CallAwaitPauseInDestructor, AwaitPause, Await, execVars
<1>5. CASE CheckAfterAwait \/ LookBeforeFrame \/ Inspect
  BY <1>5 DEF CheckAfterAwait, LookBeforeFrame, Inspect, vars, execVars, clientVars
<1>6. CASE CallStart
  BY <1>6 DEF CallStart, StartExecution, StartExecutionFails, sessionVars, execVars
<1>7. CASE Started
  BY <1>7 DEF Started, Spawn
<1>12. CASE DestroyMembers
  BY <1>12 DEF DestroyMembers, Joinable, execVars
<1>8. CASE (JoinBeforeStart \/ WakeUp \/ JoinInAwait) /\ UNCHANGED sessionVars
  BY <1>8 DEF JoinBeforeStart, WakeUp, Accepts, JoinInAwait, IInv, LockInv,
     sessionVars, clientVars, execVars
<1>9. CASE SpuriousWakeUp /\ UNCHANGED sessionVars
  BY <1>9 DEF SpuriousWakeUp, sessionVars, execVars
<1>10. CASE Execute /\ UNCHANGED sessionVars
  \* A program at rest has no thread that could make one of these steps but the
  \* call of the observer, which changes no state.
  BY <1>10 DEF Execute, ExecuteBegin, ExecuteStep, ReportTermination,
     ReportCommandExecuted, HonourPause, KeepRunning, CallObserver, NotifyAll,
     sessionVars, clientVars, IInv, ThreadInv, DriverMatchesState
<1>11. CASE UNCHANGED SessionVars
  BY <1>11 DEF SessionVars, sessionVars, vars, execVars, clientVars
<1> QED
  BY <1>1, <1>2, <1>3, <1>4, <1>5, <1>6, <1>7, <1>8, <1>9, <1>10, <1>11, <1>12
  DEF SessionNext, Handler

LEMMA SessionInvariance == SessionSpec => []SInv
  BY SessionInitInv, SessionNextInv, PTL DEF SessionSpec

(* A session makes only steps that a client of the debugger may make, so    *)
(* that all that is proved of the debugger holds of it.                     *)
THEOREM SessionIsClient == SessionSpec => Spec
<1>1. SessionInit => Init
  BY DEF SessionInit
<1>2. SInv /\ [SessionNext]_SessionVars => [Next]_vars
  BY SessionStepIsClientStep
<1> QED
  BY <1>1, <1>2, SessionInvariance, PTL DEF SessionSpec, Spec

(* The handlers look at the state, release the lock and act on what they    *)
(* saw, and never reach a fail() of the debugger.                           *)
THEOREM HandlersNeverFail == SessionSpec => []NoHandlerFails
<1>1. SInv => NoHandlerFails
  BY DEF SInv, SeenInv, CallInv, IInv, NoHandlerFails
<1> QED
  BY <1>1, SessionInvariance, PTL

(* A handler that prints the current frame finds one on the stack.          *)
THEOREM FrameExists == SessionSpec => []PrintedFrameExists
<1>1. SInv => PrintedFrameExists
  BY DEF SInv, SeenInv, IInv, ThreadInv, TypeOK, PrintedFrameExists
<1> QED
  BY <1>1, SessionInvariance, PTL

(* When the destructor has returned, no execution thread is left.           *)
THEOREM AtRestWhenDestroyed == SessionSpec => []DestroyedAtRest
<1>1. SInv => DestroyedAtRest
  BY DEF SInv
<1> QED
  BY <1>1, SessionInvariance, PTL
=============================================================================
