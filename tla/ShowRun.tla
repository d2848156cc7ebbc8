------------------------------- MODULE ShowRun -------------------------------
(***************************************************************************)
(* A Show: the Scheduler's state machine (core/show_controller.py), what   *)
(* arming, running and aborting mean (apps/scheduler/runtime.py) and the   *)
(* executor of its Timeline (core/timeline_executor.py), against Device    *)
(* Runtimes that answer over HTTP and announce completions over a          *)
(* WebSocket each.                                                         *)
(*                                                                         *)
(* The Scheduler lives in one asyncio loop; one action stands for what a   *)
(* coroutine does between two suspensions.  The Runtimes are seen through  *)
(* their control sessions and through CommandContract, which DeviceRuntime *)
(* implements; none restarts during a Show.  An answer may be lost on its  *)
(* way when the request was not, and a request that was sent arrives even  *)
(* if its sender was cancelled.  Users act through the loop.               *)
(*                                                                         *)
(* A firing <<n, c>> is the cue c in run n; its request id is "n:c".  Time *)
(* is left out: any cue may come too late once its dependencies are done.  *)
(* So are the stop commands of an abort, which change nothing here that a  *)
(* Runtime might not do by itself (see DeviceRuntime).                     *)
(*                                                                         *)
(* arm, the run task and abort set the state of the Show when they end,    *)
(* whatever it is by then; so there may be several of each under way.      *)
(***************************************************************************)
EXTENDS Naturals, Sequences

CONSTANTS
  Runtimes,     \* the Scheduler's clients
  Cues,         \* the cues of its Timeline
  RuntimeOf,    \* cue -> runtime
  DependsOn,    \* cue -> the sequence of cues it depends on
  AbortCues,    \* the cues whose late policy is "abort", the others "skip"
  Ends,         \* the outcomes that accepted commands come to
  MaxRuns,      \* bound of the number of runs
  MaxArms,      \* bound of the number of arms under way at once
  MaxAborts,    \* bound of the number of aborts under way at once
  MaxSessions,  \* bound of the number of sessions a Runtime issues
  MaxBreaks,    \* bound of the number of event streams that go wrong
  None          \* no outcome

Runs == 1..MaxRuns
Firings == Runs \X Cues

ASSUME TimelineAssumption ==
  /\ RuntimeOf \in [Cues -> Runtimes]
  /\ DependsOn \in [Cues -> Seq(Cues)]
  /\ AbortCues \subseteq Cues
\* (With none there is nothing to prepare, and no cue that could fire.)
ASSUME RuntimesAssumption == Runtimes # {}
ASSUME EndsAssumption == Ends \subseteq {"SUCCEEDED", "FAILED", "CANCELLED", "EXPIRED"}
ASSUME NoneAssumption ==
  None \notin {"SUCCEEDED", "FAILED", "CANCELLED", "EXPIRED", "REJECTED", "SKIPPED", "UNKNOWN"}
ASSUME ShowBoundsAssumption ==
  /\ MaxRuns \in Nat /\ MaxArms \in Nat /\ MaxAborts \in Nat
  /\ MaxSessions \in Nat /\ MaxBreaks \in Nat

VARIABLES
  show,            \* ShowController.state
  hold_requested,  \* ShowController._hold_requested
  run,             \* ShowController._run_task: the number of the last run that was started
  overruled,       \* history: a run task has set FAULTED over STOPPING
  task,            \* where the run task of each run is
  preparing,       \* the runtimes that each arm under way has still to acquire
  aborting,        \* where each abort is
  awaited,         \* the run whose task it cancelled
  left,            \* the sessions it has listed and not yet taken
  session_ids,     \* SchedulerRuntimeApp._session_ids: runtime -> session, 0: none
  cue,             \* where the coroutine of each firing is
  outcome,         \* TimelineExecutor.outcomes; not None: its done event is set
  payload,         \* what its future was resolved with
  stream,          \* <<run, runtime>> -> the event stream of its listener
  breaks,          \* how many streams went wrong
  request,         \* what became of the request of each firing
  quoted,          \* the session it quotes
  event,           \* its completion event: handled by the listener, or lost on the way
  result,          \* what the Runtime says of the request, see CommandContract
  issued,          \* the last session each Runtime issued to the Scheduler
  control          \* the session in control, 0: none or another client's

Contract == INSTANCE CommandContract WITH RequestIds <- Firings

showVars    == <<show, hold_requested, run, overruled>>
taskVars    == <<task, stream>>
armVars     == <<preparing, aborting, awaited, left>>
cueVars     == <<cue, outcome, payload>>
netVars     == <<request, quoted, event>>
sessionVars == <<session_ids, issued, control>>
vars == <<showVars, taskVars, armVars, cueVars, breaks, netVars, result, sessionVars>>

ShowStates == {"IDLE", "PREPARING", "ARMED", "RUNNING", "HOLDING", "STOPPING", "FAULTED"}

Home(f) == RuntimeOf[f[2]]
Stream(f) == <<f[1], Home(f)>>
Dependency(f, i) == <<f[1], DependsOn[f[2]][i]>>
Prerequisites(f) == DOMAIN DependsOn[f[2]]

\* The coroutine of f may still do something.
Active(f) == cue[f] \in {"waiting", "submitting", "asking", "awaiting"}

\* f waits for a future that listeners can resolve.
Open(f) == cue[f] \in {"asking", "awaiting"} /\ payload[f] = None

Concluded(f) == result[f] \notin {"unknown", "pending"}

\* An exception has left the coroutine of a cue of run n.
Raised(n) == \E c \in Cues : cue[<<n, c>>] = "dead"

Live(n) == task[n] \in {"starting", "cues", "closing"}
Driven == run # 0 /\ Live(run)

\* Some call that it counts is free to be made, the first one.
Free(calls, none, i) == calls[i] = none /\ \A j \in 1..(i - 1) : calls[j] # none

-----------------------------------------------------------------------------
Init ==
  /\ show = "IDLE" /\ hold_requested = FALSE /\ run = 0 /\ overruled = FALSE
  /\ task = [n \in Runs |-> "none"]
  /\ preparing = [i \in 1..MaxArms |-> {}]
  /\ aborting = [k \in 1..MaxAborts |-> "none"]
  /\ awaited = [k \in 1..MaxAborts |-> 0]
  /\ left = [k \in 1..MaxAborts |-> {}]
  /\ session_ids = [rt \in Runtimes |-> 0]
  /\ cue = [f \in Firings |-> "none"]
  /\ outcome = [f \in Firings |-> None]
  /\ payload = [f \in Firings |-> None]
  /\ stream = [s \in Runs \X Runtimes |-> "off"]
  /\ breaks = 0
  /\ request = [f \in Firings |-> "none"]
  /\ quoted = [f \in Firings |-> 0]
  /\ event = [f \in Firings |-> "none"]
  /\ Contract!Init
  /\ issued = [rt \in Runtimes |-> 0]
  /\ control = [rt \in Runtimes |-> 0]

-----------------------------------------------------------------------------
\* The Show.

Arm(i) ==
  /\ show = "IDLE"
  /\ Free(preparing, {}, i)
  /\ show' = "PREPARING"
  /\ preparing' = [preparing EXCEPT ![i] = Runtimes]
  /\ UNCHANGED <<hold_requested, run, overruled, taskVars, aborting, awaited, left, cueVars,
                 breaks, netVars, result, sessionVars>>

\* A Runtime gives a new session, which replaces whatever it had.
Acquire(rt) ==
  /\ issued[rt] < MaxSessions
  /\ issued' = [issued EXCEPT ![rt] = @ + 1]
  /\ control' = [control EXCEPT ![rt] = issued'[rt]]

\* (mutant of PrepareOne: a session that is already there is kept)
PrepareKeepsSession(i, rt) ==
  /\ rt \in preparing[i]
  /\ Acquire(rt)
  /\ session_ids' = [session_ids EXCEPT ![rt] = IF @ = 0 THEN issued'[rt] ELSE @]
  /\ preparing' = [preparing EXCEPT ![i] = @ \ {rt}]
  /\ show' = IF preparing'[i] = {} THEN "ARMED" ELSE show
  /\ UNCHANGED <<hold_requested, run, overruled, taskVars, aborting, awaited, left, cueVars,
                 breaks, netVars, result>>

\* _prepare acquires one Runtime after the other; the last one arms the Show.
PrepareOne(i, rt) ==
  /\ rt \in preparing[i]
  /\ Acquire(rt)
  /\ session_ids' = [session_ids EXCEPT ![rt] = issued'[rt]]
  /\ preparing' = [preparing EXCEPT ![i] = @ \ {rt}]
  /\ show' = IF preparing'[i] = {} THEN "ARMED" ELSE show
  /\ UNCHANGED <<hold_requested, run, overruled, taskVars, aborting, awaited, left, cueVars,
                 breaks, netVars, result>>

\* A Runtime is not reached, or its answer is lost.  What was acquired before
\* stays acquired.
PrepareFails(i, rt) ==
  /\ rt \in preparing[i]
  /\ Acquire(rt) \/ UNCHANGED <<issued, control>>
  /\ show' = "IDLE"
  /\ preparing' = [preparing EXCEPT ![i] = {}]
  /\ UNCHANGED <<hold_requested, run, overruled, taskVars, aborting, awaited, left, cueVars,
                 breaks, netVars, result, session_ids>>

Start ==
  /\ show = "ARMED"
  /\ run < MaxRuns
  /\ run' = run + 1
  /\ hold_requested' = FALSE
  /\ show' = "RUNNING"
  /\ task' = [task EXCEPT ![run'] = "starting"]
  /\ UNCHANGED <<overruled, stream, armVars, cueVars, breaks, netVars, result, sessionVars>>

Hold ==
  /\ show = "RUNNING"
  /\ hold_requested' = TRUE
  /\ show' = "HOLDING"
  /\ UNCHANGED <<run, overruled, taskVars, armVars, cueVars, breaks, netVars, result,
                 sessionVars>>

CanAbort == show \in {"RUNNING", "HOLDING", "FAULTED"}

\* The listeners of run n are cancelled.
StreamsOff(n) ==
  stream' = [s \in Runs \X Runtimes |-> IF s[1] = n THEN "off" ELSE stream[s]]

TaskTo(n, to) == task' = [task EXCEPT ![n] = to]

\* abort waits for the run task of run n and will then stop and release all.
AbortBegins(k, n) ==
  /\ CanAbort
  /\ Free(aborting, "none", k)
  /\ show' = "STOPPING"
  /\ aborting' = [aborting EXCEPT ![k] = "stopping"]
  /\ awaited' = [awaited EXCEPT ![k] = n]
  /\ StreamsOff(n)
  /\ UNCHANGED <<hold_requested, run, overruled, preparing, left, outcome, payload, breaks,
                 netVars, result, sessionVars>>

\* (mutant of Abort: the gather's cues outlive the run task)
AbortRunTaskOnly(k) ==
  /\ AbortBegins(k, run)
  /\ TaskTo(run, "ended")
  /\ UNCHANGED cue

\* abort cancels the run task if it is not done.  In the middle of its gather that cancels
\* the cues.  If one has raised and its gather has not been told, the run task is not
\* cancelled itself: it ends with that cue's exception; if its gather has been told, the
\* other cues are left alone.
Abort(k) ==
  /\ AbortBegins(k, run)
  /\ \/ /\ task[run] = "cues"
        /\ Raised(run) => \E c \in Cues : Active(<<run, c>>)
        /\ cue' = [f \in Firings |->
                     IF f[1] = run /\ Active(f) THEN "cancelled" ELSE cue[f]]
        /\ TaskTo(run, IF Raised(run) THEN "closing" ELSE "ended")
     \/ /\ task[run] # "cues" \/ Raised(run)
        /\ TaskTo(run, "ended")
        /\ UNCHANGED cue

\* The sessions that abort k has still to take out of the dict and to release.  It lists
\* them after its stop commands, and takes the first at once.
Listed(k) ==
  IF aborting[k] = "stopping" THEN {rt \in Runtimes : session_ids[rt] # 0} ELSE left[k]

\* _stop_all is called when the run task is over.
Stopped(k) == aborting[k] # "none" /\ ~Live(awaited[k])

AbortIsOver(k) ==
  /\ aborting' = [aborting EXCEPT ![k] = "none"]
  /\ awaited' = [awaited EXCEPT ![k] = 0]
  /\ left' = [left EXCEPT ![k] = {}]
  /\ UNCHANGED <<hold_requested, run, overruled, taskVars, preparing, cueVars, breaks, netVars,
                 result, sessionVars>>

\* One session is given back after the other; a Runtime that is not reached keeps it.
ReleaseOne(k, rt) ==
  /\ Stopped(k)
  /\ rt \in Listed(k)
  /\ session_ids[rt] # 0
  /\ aborting' = [aborting EXCEPT ![k] = "releasing"]
  /\ left' = [left EXCEPT ![k] = Listed(k) \ {rt}]
  /\ session_ids' = [session_ids EXCEPT ![rt] = 0]
  /\ \/ control' = [control EXCEPT ![rt] = IF @ = session_ids[rt] THEN 0 ELSE @]
     \/ UNCHANGED control
  /\ UNCHANGED <<showVars, taskVars, preparing, awaited, cueVars, breaks, netVars, result,
                 issued>>

\* Another abort has taken a listed session out of the dict: KeyError.
AbortRaises(k) ==
  /\ Stopped(k)
  /\ \E rt \in Listed(k) : session_ids[rt] = 0
  /\ AbortIsOver(k)
  /\ UNCHANGED show

AbortEnds(k) ==
  /\ Stopped(k)
  /\ Listed(k) = {}
  /\ AbortIsOver(k)
  /\ show' = "IDLE"

-----------------------------------------------------------------------------
\* The run task of run n: snapshots, then the cues beside the listeners, then the end of
\* the listeners, then the verdict.

SnapshotFails(n) ==
  /\ task[n] = "starting"
  /\ TaskTo(n, "ended")
  /\ show' = "FAULTED"
  /\ UNCHANGED <<hold_requested, run, overruled, stream, armVars, cueVars, breaks, netVars,
                 result, sessionVars>>

CuesStart(n) ==
  /\ task[n] = "starting"
  /\ TaskTo(n, "cues")
  /\ stream' = [s \in Runs \X Runtimes |-> IF s[1] = n THEN "open" ELSE stream[s]]
  /\ cue' = [f \in Firings |-> IF f[1] = n THEN "waiting" ELSE cue[f]]
  /\ UNCHANGED <<showVars, armVars, outcome, payload, breaks, netVars, result, sessionVars>>

\* The gather ends when all cues are done or as soon as one has raised; the
\* others are then left alone.
CuesEnd(n) ==
  /\ task[n] = "cues"
  /\ Raised(n) \/ \A c \in Cues : cue[<<n, c>>] = "done"
  /\ TaskTo(n, "closing")
  /\ StreamsOff(n)
  /\ UNCHANGED <<showVars, armVars, cueVars, breaks, netVars, result, sessionVars>>

\* (mutant of Failures: only an explicit failure counts)
FailuresNarrow(n) == {c \in Cues : outcome[<<n, c>>] = "FAILED"}

Failures(n) == {c \in Cues : outcome[<<n, c>>] \notin {"SUCCEEDED", "SKIPPED"}}

\* (mutant of Close: a held Show is not ended)
CloseHeldOpen(n) ==
  /\ task[n] = "closing"
  /\ TaskTo(n, "ended")
  /\ show' = IF Raised(n) \/ Failures(n) # {} THEN "FAULTED"
             ELSE IF show = "RUNNING" THEN "IDLE" ELSE show
  /\ overruled' = (overruled \/ (show = "STOPPING" /\ show' = "FAULTED"))
  /\ UNCHANGED <<hold_requested, run, stream, armVars, cueVars, breaks, netVars, result,
                 sessionVars>>

\* _run raises if a cue has failed, and _drive tells the state machine, whatever its state.
Close(n) ==
  /\ task[n] = "closing"
  /\ TaskTo(n, "ended")
  /\ show' = IF Raised(n) \/ Failures(n) # {} THEN "FAULTED"
             ELSE IF show \in {"RUNNING", "HOLDING"} THEN "IDLE" ELSE show
  /\ overruled' = (overruled \/ (show = "STOPPING" /\ show' = "FAULTED"))
  /\ UNCHANGED <<hold_requested, run, stream, armVars, cueVars, breaks, netVars, result,
                 sessionVars>>

-----------------------------------------------------------------------------
\* The coroutine of one cue (TimelineExecutor._run_cue).

\* _finish sets the outcome and, with it, the done event.
FinishCue(f, o) ==
  /\ cue' = [cue EXCEPT ![f] = "done"]
  /\ outcome' = [outcome EXCEPT ![f] = o]

Moves(f, to) == cue' = [cue EXCEPT ![f] = to] /\ UNCHANGED outcome

\* (mutant of Ready: a dependency need only be done)
ReadyOnDone(f) == \A i \in Prerequisites(f) : outcome[Dependency(f, i)] # None

\* Dependencies are awaited in the order in which the cue lists them.
Ready(f) == \A i \in Prerequisites(f) : outcome[Dependency(f, i)] = "SUCCEEDED"

Unmet(f) ==
  \E i \in Prerequisites(f) :
    /\ outcome[Dependency(f, i)] \notin {None, "SUCCEEDED"}
    /\ \A j \in 1..(i - 1) : outcome[Dependency(f, j)] = "SUCCEEDED"

\* A dependency did not succeed, the cue is late, or the Show is held.
Skip(f) ==
  /\ cue[f] = "waiting"
  /\ Unmet(f) \/ (Ready(f) /\ (f[2] \notin AbortCues \/ hold_requested))
  /\ FinishCue(f, "SKIPPED")
  /\ UNCHANGED <<payload, netVars>>

LateAborts(f) ==
  /\ cue[f] = "waiting"
  /\ Ready(f)
  /\ f[2] \in AbortCues
  /\ cue' = [cue EXCEPT ![f] = "dead"]
  /\ outcome' = [outcome EXCEPT ![f] = "FAILED"]
  /\ UNCHANGED <<payload, netVars>>

\* Nothing is awaited between the look at hold_requested and the request.  The
\* session is looked up only now.
Fire(f) ==
  /\ cue[f] = "waiting"
  /\ Ready(f)
  /\ ~hold_requested
  /\ session_ids[Home(f)] # 0
  /\ Moves(f, "submitting")
  /\ request' = [request EXCEPT ![f] = "sent"]
  /\ quoted' = [quoted EXCEPT ![f] = session_ids[Home(f)]]
  /\ UNCHANGED <<payload, event>>

\* An abort has taken the session out of the dict: KeyError.
FireFails(f) ==
  /\ cue[f] = "waiting"
  /\ Ready(f)
  /\ ~hold_requested
  /\ session_ids[Home(f)] = 0
  /\ Moves(f, "dead")
  /\ UNCHANGED <<payload, netVars>>

\* The answer is an error: the Runtime has refused the session or the command.
SubmitRefused(f) ==
  /\ cue[f] = "submitting"
  /\ request[f] = "refused" \/ result[f] = "REJECTED"
  /\ FinishCue(f, "FAILED")
  /\ UNCHANGED <<payload, netVars>>

\* The answer is the record of a command that had ended.
SubmitConcluded(f) ==
  /\ cue[f] = "submitting"
  /\ Concluded(f) /\ result[f] # "REJECTED"
  /\ FinishCue(f, result[f])
  /\ UNCHANGED <<payload, netVars>>

\* The answer is the record of a command that had not ended when it was sent.
\* The future is registered and the Runtime is asked once more.
SubmitAccepted(f) ==
  /\ cue[f] = "submitting"
  /\ result[f] \notin {"unknown", "REJECTED"}
  /\ Moves(f, "asking")
  /\ UNCHANGED <<payload, netVars>>

\* (mutant of Known: the second question is not asked)
KnownFromEvent(f) == payload[f]

\* (mutant of Known: TERMINAL is taken for success)
KnownTerminal(f) ==
  IF payload[f] # None THEN payload[f] ELSE IF Concluded(f) THEN "SUCCEEDED" ELSE None

\* get_command answers.  A future that is resolved by now needs no waiting.
Known(f) ==
  IF payload[f] # None THEN payload[f] ELSE IF Concluded(f) THEN result[f] ELSE None

\* The way back of an answer that the command is pending is part of awaiting.
AskReturns(f) ==
  /\ cue[f] = "asking"
  /\ IF Known(f) = None THEN Moves(f, "awaiting") ELSE FinishCue(f, Known(f))
  /\ UNCHANGED <<payload, netVars>>

Awaken(f) ==
  /\ cue[f] = "awaiting"
  /\ payload[f] # None
  /\ FinishCue(f, payload[f])
  /\ UNCHANGED <<payload, netVars>>

\* The connection breaks or times out.  Only an answer with an error status is
\* caught (RuntimeCommandError); the request may have arrived or still arrive.
HttpFails(f) ==
  /\ cue[f] \in {"submitting", "asking"}
  /\ Moves(f, "dead")
  /\ UNCHANGED <<payload, netVars>>

Gate(f) == Skip(f) \/ LateAborts(f) \/ Fire(f) \/ FireFails(f)

Answer(f) ==
  SubmitRefused(f) \/ SubmitConcluded(f) \/ SubmitAccepted(f) \/ AskReturns(f) \/ HttpFails(f)

RunCue(f) ==
  /\ Gate(f) \/ Answer(f) \/ Awaken(f)
  /\ UNCHANGED <<showVars, taskVars, armVars, breaks, result, sessionVars>>

-----------------------------------------------------------------------------
\* The listeners of a run (TimelineExecutor._listen).

\* A completion event resolves the future of its command, if it is registered.
Hear(f) ==
  /\ stream[Stream(f)] # "off"
  /\ Concluded(f)
  /\ event[f] = "none"
  /\ event' = [event EXCEPT ![f] = "heard"]
  /\ payload' = [payload EXCEPT ![f] = IF Open(f) THEN result[f] ELSE @]
  /\ UNCHANGED <<showVars, taskVars, armVars, cue, outcome, breaks, request, quoted, result,
                 sessionVars>>

\* The stream ends: a listener that is told to resync gives up every future of
\* the run, one whose connection breaks gives up silently.
StreamEnds(n, rt) ==
  /\ stream[<<n, rt>>] # "off"
  /\ breaks < MaxBreaks
  /\ breaks' = breaks + 1
  /\ stream' = [stream EXCEPT ![<<n, rt>>] = "off"]
  /\ \/ payload' = [f \in Firings |->
                      IF f[1] = n /\ Open(f) THEN "UNKNOWN" ELSE payload[f]]
     \/ UNCHANGED payload
  /\ UNCHANGED <<showVars, task, armVars, cue, outcome, netVars, result, sessionVars>>

\* The Runtime takes the connection and has something to replay, before anything
\* else is sent; it subscribes the client only when that is sent.
ReplayBegins(n, rt) ==
  /\ stream[<<n, rt>>] = "open"
  /\ \A c \in Cues : RuntimeOf[c] = rt => event[<<n, c>>] = "none"
  /\ breaks < MaxBreaks
  /\ breaks' = breaks + 1
  /\ stream' = [stream EXCEPT ![<<n, rt>>] = "replaying"]
  /\ UNCHANGED <<showVars, task, armVars, cueVars, netVars, result, sessionVars>>

ReplayEnds(n, rt) ==
  /\ stream[<<n, rt>>] = "replaying"
  /\ stream' = [stream EXCEPT ![<<n, rt>>] = "open"]
  /\ UNCHANGED <<showVars, task, armVars, cueVars, breaks, netVars, result, sessionVars>>

-----------------------------------------------------------------------------
\* The Runtimes.

\* A request arrives.  It is taken or rejected for good if its session is still
\* in control.
Receive(f) ==
  /\ request[f] = "sent"
  /\ IF control[Home(f)] = quoted[f]
     THEN /\ request' = [request EXCEPT ![f] = "taken"]
          /\ Contract!Accept(f) \/ Contract!Refuse(f)
     ELSE /\ request' = [request EXCEPT ![f] = "refused"]
          /\ UNCHANGED result
  /\ UNCHANGED <<showVars, taskVars, armVars, cueVars, breaks, quoted, event, sessionVars>>

\* A command ends.  Its completion is published to those who have subscribed.
Conclude(f) ==
  /\ Contract!Resolve(f)
  /\ result'[f] \in Ends
  /\ event' = [event EXCEPT ![f] = IF stream[Stream(f)] = "replaying" THEN "lost" ELSE @]
  /\ UNCHANGED <<showVars, taskVars, armVars, cueVars, breaks, request, quoted, sessionVars>>

\* The session expires -- nobody renews it -- or another client takes over.
LoseControl(rt) ==
  /\ control[rt] # 0
  /\ control' = [control EXCEPT ![rt] = 0]
  /\ UNCHANGED <<showVars, taskVars, armVars, cueVars, breaks, netVars, result,
                 session_ids, issued>>

-----------------------------------------------------------------------------
Prepare(i) == \E rt \in Runtimes : PrepareOne(i, rt) \/ PrepareFails(i, rt)
StopAll(k) == AbortEnds(k) \/ AbortRaises(k) \/ \E rt \in Runtimes : ReleaseOne(k, rt)
RunTask(n) == SnapshotFails(n) \/ CuesStart(n) \/ CuesEnd(n) \/ Close(n)
Listen(n, rt) == StreamEnds(n, rt) \/ ReplayBegins(n, rt) \/ ReplayEnds(n, rt)

Next ==
  \/ Start \/ Hold
  \/ \E i \in 1..MaxArms : Arm(i) \/ Prepare(i)
  \/ \E k \in 1..MaxAborts : Abort(k) \/ StopAll(k)
  \/ \E n \in Runs : RunTask(n) \/ \E rt \in Runtimes : Listen(n, rt)
  \/ \E rt \in Runtimes : LoseControl(rt)
  \/ \E f \in Firings : RunCue(f) \/ Hear(f) \/ Receive(f) \/ Conclude(f)

Spec == Init /\ [][Next]_vars

\* The loop runs its tasks, every HTTP call ends (its timeout is five seconds), a stream
\* that does not break delivers what was not lost, a replay ends, and a command that was
\* accepted ends (EveryCommandEnds of DeviceRuntime).  Users and other clients owe nothing.
\* A cue and its command take finitely many steps: that they go on as long as some of them
\* can is all that is asked of them.
Fairness ==
  /\ \A i \in 1..MaxArms : WF_vars(Prepare(i))
  /\ \A k \in 1..MaxAborts : WF_vars(StopAll(k))
  /\ \A n \in Runs : WF_vars(RunTask(n))
  /\ WF_vars(\E n \in Runs, rt \in Runtimes : ReplayEnds(n, rt))
  /\ WF_vars(\E f \in Firings : RunCue(f))
  /\ WF_vars(\E f \in Firings : Hear(f))
  /\ WF_vars(\E f \in Firings : Receive(f) \/ Conclude(f))

FairSpec == Spec /\ Fairness

-----------------------------------------------------------------------------
Outcomes == Contract!Resolutions \cup {"REJECTED", "SKIPPED", "UNKNOWN", None}

TypeOK ==
  /\ show \in ShowStates /\ hold_requested \in BOOLEAN /\ run \in 0..MaxRuns
  /\ overruled \in BOOLEAN
  /\ task \in [Runs -> {"none", "starting", "cues", "closing", "ended"}]
  /\ preparing \in [1..MaxArms -> SUBSET Runtimes]
  /\ aborting \in [1..MaxAborts -> {"none", "stopping", "releasing"}]
  /\ awaited \in [1..MaxAborts -> 0..MaxRuns]
  /\ left \in [1..MaxAborts -> SUBSET Runtimes]
  /\ session_ids \in [Runtimes -> 0..MaxSessions]
  /\ cue \in [Firings -> {"none", "waiting", "submitting", "asking", "awaiting",
                          "done", "dead", "cancelled"}]
  /\ outcome \in [Firings -> Outcomes]
  /\ payload \in [Firings -> Outcomes]
  /\ stream \in [Runs \X Runtimes -> {"off", "open", "replaying"}]
  /\ breaks \in 0..MaxBreaks
  /\ request \in [Firings -> {"none", "sent", "taken", "refused"}]
  /\ quoted \in [Firings -> 0..MaxSessions]
  /\ event \in [Firings -> {"none", "heard", "lost"}]
  /\ result \in [Firings -> Contract!Resolutions \cup {"unknown", "pending", "REJECTED"}]
  /\ issued \in [Runtimes -> 0..MaxSessions]
  /\ control \in [Runtimes -> 0..MaxSessions]

\* No request leaves the Scheduler before every dependency of its cue has
\* succeeded at its Runtime, in this very run (depends_on is "a hard wait").
DependenciesFirst ==
  \A f \in Firings :
    request[f] # "none" =>
      \A i \in Prerequisites(f) : result[Dependency(f, i)] = "SUCCEEDED"

\* What the executor writes down of a cue is what the Runtime says, whichever
\* of the answer to the submission, the second question and the event came
\* first; and a cue written down as skipped has sent nothing.
OutcomeIsTrue ==
  \A f \in Firings :
    /\ outcome[f] \in {"SUCCEEDED", "CANCELLED", "EXPIRED"} => outcome[f] = result[f]
    /\ outcome[f] = "SKIPPED" => request[f] = "none"

\* Only a run in which an exception has left a cue can leave others behind: a
\* run that ended well, or that an abort cancelled in time, leaves nothing that
\* could still submit.
QuietAfterRun ==
  \A f \in Firings :
    Active(f) /\ task[f[1]] # "cues" => \E c \in Cues : cue[<<f[1], c>>] = "dead"

\* A Show that runs or is held has the run task that was started last, and it is live,
\* whatever aborts and earlier runs do.
RunningIsDriven == show \in {"RUNNING", "HOLDING"} => Driven

\* The other way round: a live run task is the one of the Show that runs or is held, or
\* the one that an abort waits for, which will end with the exception of a cue.
OneRun ==
  \A n \in Runs :
    Live(n) =>
      /\ n = run
      /\ show \in {"RUNNING", "HOLDING"} \/ (show = "STOPPING" /\ task[n] = "closing" /\ Raised(n))

\* Exactly one arm is under way while the Show is PREPARING, and none otherwise.
OneArm ==
  /\ \A i, j \in 1..MaxArms : preparing[i] # {} /\ preparing[j] # {} => i = j
  /\ \A i \in 1..MaxArms : preparing[i] # {} => show = "PREPARING"
  /\ show = "PREPARING" => \E i \in 1..MaxArms : preparing[i] # {}

\* Exactly one abort is under way while the Show is STOPPING, and none otherwise.
OneAbort ==
  /\ \A j, k \in 1..MaxAborts : aborting[j] # "none" /\ aborting[k] # "none" => j = k
  /\ \A k \in 1..MaxAborts : aborting[k] # "none" => show = "STOPPING"
  /\ show = "STOPPING" => \E k \in 1..MaxAborts : aborting[k] # "none"

\* From ARMED to the end of the run, the Scheduler quotes for each Runtime the
\* last session that it gave, never one of an earlier arming or none at all.
ArmedHoldsSessions ==
  show \in {"ARMED", "RUNNING", "HOLDING"} =>
    \A rt \in Runtimes : session_ids[rt] # 0 /\ session_ids[rt] = issued[rt]

\* The Show, its run task, its arms and aborts and its sessions agree, as long as no run
\* task has set FAULTED over an abort (show_controller.py:91-93 under :106).
ShowInv ==
  /\ TypeOK
  /\ RunningIsDriven
  /\ overruled \/ (OneRun /\ OneArm /\ OneAbort /\ ArmedHoldsSessions)

Settled(f) ==
  \/ outcome[f] = "SUCCEEDED" /\ result[f] = "SUCCEEDED"
  \/ outcome[f] = "SKIPPED" /\ request[f] = "none"

\* A run task that ends and does not fault its Show leaves it with each cue of the run
\* confirmed as succeeded by its Runtime, or skipped and never asked for.
SuccessMeansDone ==
  [][\A n \in Runs :
       Live(n) /\ task'[n] = "ended" /\ show' \notin {"FAULTED", "STOPPING"} =>
         \A c \in Cues : Settled(<<n, c>>)]_vars

\* A cue waits for an event that its listener will not see: it was published in the middle
\* of a replay (server.py:176-179), or the stream has ended.  Nothing else is asked.
Stuck(f) ==
  /\ cue[f] = "awaiting"
  /\ payload[f] = None
  /\ event[f] = "lost" \/ stream[Stream(f)] = "off"

\* A run comes to an end, whatever the Runtimes answer, unless one of its cues waits for an
\* event that was lost: no interleaving of answer, event and second question leaves a cue
\* waiting for an event that has passed (timeline_executor.py:140-153).
RunEnds ==
  (show \in {"RUNNING", "HOLDING"}) ~>
    (show \notin {"RUNNING", "HOLDING"} \/ \E c \in Cues : Stuck(<<run, c>>))

\* Arming and aborting come to an end, unless two aborts take the sessions from each other.
TransitionsEnd ==
  (show \in {"PREPARING", "STOPPING"}) ~> (show \notin {"PREPARING", "STOPPING"} \/ overruled)

\* Whatever a Show has begun ends.
ShowEnds == RunEnds /\ TransitionsEnd

-----------------------------------------------------------------------------
\* The Show as its watchers see it.
Protocol == INSTANCE ShowProtocol WITH state <- show, driven <- Driven

\* Whatever becomes of cues, sessions and streams, the Show goes through its states as
\* the controller promises, with one run task at a time (show_controller.py:62-110), until
\* a run task sets FAULTED over an abort, and from then on as far as it is checked.
KeepsProtocol == Protocol!Spec
=============================================================================
