----------------------------- MODULE ShowProtocol -----------------------------
(***************************************************************************)
(* What a Show controller (core/show_controller.py) promises whoever       *)
(* watches its state: which states follow which, and that there is a run   *)
(* task behind a Show that runs, one at a time, and none once an abort is  *)
(* over.  Nothing is in it about sessions, cues, inputs or who calls.      *)
(*                                                                         *)
(* There is one way out of this: a run task that is being cancelled may    *)
(* set FAULTED over the STOPPING of the abort that waits for it, which     *)
(* lets a second abort in beside the first.  From then on only what the    *)
(* controller checks before it acts is promised: its other assignments     *)
(* are made whatever the state is by then.                                 *)
(*                                                                         *)
(* ShowRun and TriggerEngine both implement it: the first with all that    *)
(* arm, the run and abort do, the second with everybody who may call them  *)
(* (their properties are named KeepsProtocol).                             *)
(***************************************************************************)

VARIABLES
  state,     \* ShowController.state
  driven,    \* the run task that was started last is not done
  overruled  \* history: a run task has set FAULTED over STOPPING

vars == <<state, driven, overruled>>

Init == state = "IDLE" /\ ~driven /\ ~overruled

Arm == state = "IDLE" /\ state' = "PREPARING" /\ UNCHANGED <<driven, overruled>>

\* What had to be prepared was, or was not.
ArmEnds ==
  /\ state = "PREPARING"
  /\ state' \in {"ARMED", "IDLE"}
  /\ UNCHANGED <<driven, overruled>>

\* No run starts while there is still a task of the one before.
Start ==
  /\ state = "ARMED" /\ (~driven \/ overruled)
  /\ state' = "RUNNING" /\ driven'
  /\ UNCHANGED overruled

Hold == state = "RUNNING" /\ state' = "HOLDING" /\ UNCHANGED <<driven, overruled>>

\* The run task ends a Show that runs or is held, well or by an error.
RunEnds ==
  /\ state \in {"RUNNING", "HOLDING"} /\ driven
  /\ state' \in {"IDLE", "FAULTED"} /\ ~driven'
  /\ UNCHANGED overruled

\* The run task is cancelled, and may be over at once or take its time.
Abort ==
  /\ state \in {"RUNNING", "HOLDING", "FAULTED"}
  /\ state' = "STOPPING"
  /\ driven' => driven
  /\ UNCHANGED overruled

\* A cancelled run task says nothing of the Show any more, unless it ends with the
\* error of a cue all the same.
RunCancelled ==
  /\ state = "STOPPING" /\ driven /\ ~driven'
  /\ \/ UNCHANGED <<state, overruled>>
     \/ state' = "FAULTED" /\ overruled'

\* The Show is IDLE again when its run task is over, never before.
AbortEnds ==
  /\ state = "STOPPING" /\ ~driven
  /\ state' = "IDLE"
  /\ UNCHANGED <<driven, overruled>>

\* The ends of arms, runs and aborts that nobody expects any more.
Unchecked ==
  /\ overruled
  /\ state' \in {state, "ARMED", "IDLE", "FAULTED"}
  /\ driven' => driven
  /\ UNCHANGED overruled

Next ==
  \/ Arm \/ ArmEnds \/ Start \/ Hold \/ RunEnds
  \/ Abort \/ RunCancelled \/ AbortEnds \/ Unchecked

Spec == Init /\ [][Next]_vars
=============================================================================
