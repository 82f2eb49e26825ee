--------------------------- MODULE ProgramControl ---------------------------
(***************************************************************************)
(* What ir_interpreter::Debugger promises its caller, with no threads, no  *)
(* lock and no condition variable: one interpreted program, which is       *)
(* paused, running or terminated, is resumed by a command, advances one    *)
(* instruction at a time while it runs, and stops only for a reason.       *)
(*                                                                         *)
(* Debugger.tla is the detailed specification and implements this one.     *)
(***************************************************************************)
EXTENDS Integers

CONSTANT MaxDepth   \* bound on the depth of the interpreter stack, positive

Commands == {"kRun", "kStepIn", "kStepOver", "kStepOut"}

VARIABLES
  status,     \* "paused", "running" or "terminated"
  depth,      \* depth of the interpreter stack; 0 once the program completed
  command,    \* the command of the current (or last) run
  base,       \* the depth of the stack when that run began
  progress,   \* TRUE once the run has executed an instruction
  requested   \* TRUE once the caller asked this run to pause

vars == <<status, depth, command, base, progress, requested>>

(***************************************************************************)
(* The command is carried out: StepIn after any instruction, StepOver when *)
(* the stack is back at its initial depth, StepOut when the frame is left. *)
(***************************************************************************)
Satisfied(c, d, d0) ==
  \/ c = "kStepIn"
  \/ c = "kStepOver" /\ d <= d0
  \/ c = "kStepOut"  /\ d < d0

Init ==
  /\ status = "paused"
  /\ depth = 1
  /\ command = "kRun"
  /\ base = 1
  /\ progress = FALSE
  /\ requested = FALSE

Resume(c) ==
  /\ status = "paused"
  /\ status' = "running"
  /\ command' = c
  /\ base' = depth
  /\ progress' = FALSE
  /\ requested' = FALSE
  /\ UNCHANGED depth

RequestPause ==
  /\ status = "running"
  /\ requested' = TRUE
  /\ UNCHANGED <<status, depth, command, base, progress>>

(* One instruction, which a run executes only if it is its first one or the *)
(* command is not carried out yet.                                          *)
Advance ==
  /\ status = "running"
  /\ depth > 0
  /\ progress => ~Satisfied(command, depth, base)
  /\ depth' \in {depth - 1, depth, depth + 1} \cap 0..MaxDepth
  /\ progress' = TRUE
  /\ UNCHANGED <<status, command, base, requested>>

(* A run stops before the end only when its command is carried out or when *)
(* the caller asked for it, and never without executing an instruction.    *)
Suspend ==
  /\ status = "running"
  /\ depth > 0
  /\ progress
  /\ requested \/ Satisfied(command, depth, base)
  /\ status' = "paused"
  /\ UNCHANGED <<depth, command, base, progress, requested>>

Finish ==
  /\ status = "running"
  /\ depth = 0
  /\ status' = "terminated"
  /\ UNCHANGED <<depth, command, base, progress, requested>>

Next ==
  \/ \E c \in Commands : Resume(c)
  \/ RequestPause
  \/ Advance
  \/ Suspend
  \/ Finish

Spec == Init /\ [][Next]_vars
=============================================================================
