----------------------------- MODULE ShowRunProofs -----------------------------
(***************************************************************************)
(* Theorems about ShowRun, for every Timeline -- any cues, on any          *)
(* Runtimes, with any dependencies -- and every number of runs, of arms and   *)
(* aborts at once, of sessions and of streams that go wrong.               *)
(***************************************************************************)
EXTENDS ShowRun, Integers, TLAPS

USE DEF showVars, taskVars, armVars, cueVars, netVars, sessionVars

\* A coroutine that has not begun, or waits for its dependencies, has asked for nothing;
\* one that has an outcome is over; what its future was resolved with is what the
\* Runtime says, or that nobody knows.
CueIs(f) ==
  /\ cue[f] \in {"none", "waiting"} => outcome[f] = None /\ request[f] = "none"
  /\ outcome[f] # None => cue[f] \in {"done", "dead"}
  /\ cue[f] \in {"asking", "awaiting"} => result[f] \notin {"unknown", "REJECTED"}
  /\ request[f] # "taken" => result[f] = "unknown"
  /\ payload[f] \in {None, "UNKNOWN"} \/ (payload[f] = result[f] /\ Concluded(f))

\* The coroutines of a run come with its listeners.
Fresh(f) == task[f[1]] \in {"none", "starting"}

CuesKept == \A f \in Firings : CueIs(f) /\ (Fresh(f) => cue[f] = "none")

\* Runs are started in their order.
RunsCounted == \A n \in Runs : task[n] = "none" <=> run < n

\* The sessions that an arm has acquired so far are the latest ones.
SessionsKept ==
  /\ \A i \in 1..MaxArms : preparing[i] # {} =>
       \A rt \in Runtimes \ preparing[i] : session_ids[rt] # 0 /\ session_ids[rt] = issued[rt]
  /\ ArmedHoldsSessions

\* An abort waits for the run that was started last.
AbortOfRun == \A k \in 1..MaxAborts : aborting[k] # "none" => awaited[k] = run

\* The sessions that an abort has listed are still there.
ListKept ==
  \A k \in 1..MaxAborts : aborting[k] = "releasing" => \A rt \in left[k] : session_ids[rt] # 0

\* What the controller keeps as long as no run task sets FAULTED over an abort.
InOrder == OneRun /\ OneArm /\ OneAbort /\ AbortOfRun /\ ListKept /\ SessionsKept

IInv ==
  /\ TypeOK /\ RunningIsDriven /\ RunsCounted /\ CuesKept
  /\ OutcomeIsTrue /\ DependenciesFirst /\ QuietAfterRun
  /\ overruled \/ InOrder

-----------------------------------------------------------------------------
\* A cue's dependencies are cues of the same run.
LEMMA DependencyType ==
  ASSUME NEW f \in Firings, NEW i \in Prerequisites(f)
  PROVE  Dependency(f, i) \in Firings
<1>1. f[1] \in Runs /\ f[2] \in Cues
  BY DEF Firings
<1>2. DependsOn[f[2]] \in Seq(Cues)
  BY <1>1, TimelineAssumption
<1>3. DependsOn[f[2]][i] \in Cues
  BY <1>2 DEF Prerequisites
<1> QED
  BY <1>1, <1>3 DEF Dependency, Firings

\* The coroutine of one cue acts: the others do not, and what it knows it has from the
\* Runtime or from its future.
CueActs(f) ==
  /\ \A g \in Firings \ {f} :
       /\ cue'[g] = cue[g] /\ outcome'[g] = outcome[g]
       /\ request'[g] = request[g] /\ quoted'[g] = quoted[g]
  /\ cue[f] \in {"waiting", "submitting", "asking", "awaiting"}
  /\ UNCHANGED <<payload, event, result>>
  /\ \/ /\ cue'[f] = "done" /\ outcome'[f] # None /\ UNCHANGED request
        /\ \/ cue[f] = "waiting" /\ outcome'[f] = "SKIPPED"
           \/ cue[f] = "submitting" /\ outcome'[f] = "FAILED"
           \/ outcome'[f] = result[f] /\ Concluded(f)
           \/ outcome'[f] = payload[f]
     \/ /\ cue'[f] = "dead" /\ UNCHANGED request
        /\ outcome'[f] \in {outcome[f], "FAILED"}
     \/ /\ cue[f] = "waiting" /\ cue'[f] = "submitting" /\ outcome'[f] = outcome[f]
        /\ Ready(f) /\ request'[f] = "sent"
     \/ /\ cue[f] \in {"submitting", "asking"} /\ cue'[f] \in {"asking", "awaiting"}
        /\ outcome'[f] = outcome[f] /\ UNCHANGED request
        /\ cue[f] = "asking" \/ result[f] \notin {"unknown", "REJECTED"}

LEMMA RunCueIs ==
  ASSUME TypeOK, NEW f \in Firings, RunCue(f)
  PROVE  CueActs(f)
<1>a. /\ cue \in [Firings -> {"none", "waiting", "submitting", "asking", "awaiting",
                              "done", "dead", "cancelled"}]
      /\ outcome \in [Firings -> Outcomes]
      /\ request \in [Firings -> {"none", "sent", "taken", "refused"}]
      /\ quoted \in [Firings -> 0..MaxSessions]
      /\ result[f] \in {"SUCCEEDED", "FAILED", "CANCELLED", "EXPIRED", "unknown", "pending",
                        "REJECTED"}
  BY DEF TypeOK, Contract!Resolutions
<1>1. CASE Gate(f)
  BY <1>1, <1>a, NoneAssumption
     DEF Gate, Skip, LateAborts, Fire, FireFails, FinishCue, Moves, CueActs, RunCue
<1>2. CASE Answer(f)
  BY <1>2, <1>a, NoneAssumption
     DEF Answer, SubmitRefused, SubmitConcluded, SubmitAccepted, AskReturns, HttpFails, FinishCue,
         Moves, Known, Concluded, CueActs, RunCue
<1>3. CASE Awaken(f)
  BY <1>3, <1>a DEF Awaken, FinishCue, CueActs, RunCue
<1> QED
  BY <1>1, <1>2, <1>3 DEF RunCue

\* What most steps leave alone: what is known of cues and commands.
LEMMA CueFrame ==
  ASSUME [Next]_vars
  PROVE  \/ UNCHANGED <<cue, outcome, payload, request, result>>
         \/ \E n \in Runs : CuesStart(n)
         \/ \E k \in 1..MaxAborts : Abort(k)
         \/ \E n \in Runs, rt \in Runtimes : StreamEnds(n, rt)
         \/ \E f \in Firings : RunCue(f) \/ Hear(f) \/ Receive(f) \/ Conclude(f)
<1>1. ASSUME NEW i \in 1..MaxArms, Arm(i) \/ Prepare(i)
      PROVE  UNCHANGED <<cue, outcome, payload, request, result>>
  BY <1>1 DEF Arm, Prepare, PrepareOne, PrepareFails
<1>2. ASSUME NEW k \in 1..MaxAborts, StopAll(k)
      PROVE  UNCHANGED <<cue, outcome, payload, request, result>>
  BY <1>2 DEF StopAll, ReleaseOne, AbortRaises, AbortEnds, AbortIsOver
<1>3. ASSUME NEW n \in Runs, RunTask(n), ~CuesStart(n)
      PROVE  UNCHANGED <<cue, outcome, payload, request, result>>
  BY <1>3 DEF RunTask, SnapshotFails, CuesEnd, Close
<1>4. ASSUME NEW n \in Runs, NEW rt \in Runtimes, Listen(n, rt), ~StreamEnds(n, rt)
      PROVE  UNCHANGED <<cue, outcome, payload, request, result>>
  BY <1>4 DEF Listen, ReplayBegins, ReplayEnds
<1>5. ASSUME Start \/ Hold \/ (\E rt \in Runtimes : LoseControl(rt)) \/ UNCHANGED vars
      PROVE  UNCHANGED <<cue, outcome, payload, request, result>>
  BY <1>5 DEF Start, Hold, LoseControl, vars
<1> QED
  BY <1>1, <1>2, <1>3, <1>4, <1>5 DEF Next

\* What most steps leave alone: the Show, its tasks and its sessions.
LEMMA ShowFrame ==
  ASSUME [Next]_vars
  PROVE  \/ UNCHANGED <<show, run, overruled, task, preparing, aborting, awaited, left,
                        session_ids, issued>>
         \/ Start \/ Hold
         \/ \E i \in 1..MaxArms : Arm(i) \/ Prepare(i)
         \/ \E k \in 1..MaxAborts : Abort(k) \/ StopAll(k)
         \/ \E n \in Runs : RunTask(n)
<1>1. ASSUME NEW f \in Firings, RunCue(f) \/ Hear(f) \/ Receive(f) \/ Conclude(f)
      PROVE  UNCHANGED <<show, run, overruled, task, preparing, aborting, awaited, left,
                         session_ids, issued>>
  BY <1>1 DEF RunCue, Hear, Receive, Conclude
<1>2. ASSUME NEW n \in Runs, NEW rt \in Runtimes, Listen(n, rt)
      PROVE  UNCHANGED <<show, run, overruled, task, preparing, aborting, awaited, left,
                         session_ids, issued>>
  BY <1>2 DEF Listen, StreamEnds, ReplayBegins, ReplayEnds
<1>3. ASSUME (\E rt \in Runtimes : LoseControl(rt)) \/ UNCHANGED vars
      PROVE  UNCHANGED <<show, run, overruled, task, preparing, aborting, awaited, left,
                         session_ids, issued>>
  BY <1>3 DEF LoseControl, vars
<1> QED
  BY <1>1, <1>2, <1>3 DEF Next

\* A request is taken or refused; a command ends.  What had ended stays as it was.
LEMMA ResultStays ==
  ASSUME TypeOK, [Next]_vars
  PROVE  \A f \in Firings :
           Concluded(f) => result'[f] = result[f] /\ Concluded(f)'
<1>1. \A f \in Firings : Receive(f) =>
        UNCHANGED result \/ (result[f] = "unknown" /\ \A g \in Firings \ {f} : result'[g] = result[g])
  BY DEF Receive, Contract!Accept, Contract!Refuse, TypeOK
<1>2. \A f \in Firings : Conclude(f) =>
        result[f] = "pending" /\ \A g \in Firings \ {f} : result'[g] = result[g]
  BY DEF Conclude, Contract!Resolve, TypeOK
<1>3. ASSUME NEW f \in Firings, RunCue(f) \/ Hear(f) PROVE UNCHANGED result
  BY <1>3 DEF RunCue, Hear
<1>4. ASSUME NEW k \in 1..MaxAborts, Abort(k) PROVE UNCHANGED result
  BY <1>4 DEF Abort, AbortBegins
<1>5. ASSUME NEW n \in Runs, CuesStart(n) \/ \E rt \in Runtimes : StreamEnds(n, rt)
      PROVE  UNCHANGED result
  BY <1>5 DEF CuesStart, StreamEnds
<1> QED
  BY <1>1, <1>2, <1>3, <1>4, <1>5, CueFrame DEF Concluded

\* Every step keeps the types and the bounds.
LEMMA TypeStep == TypeOK /\ [Next]_vars => TypeOK'
<1> SUFFICES ASSUME TypeOK, [Next]_vars PROVE TypeOK'
  OBVIOUS
<1>a. run \in Nat /\ breaks \in Nat /\ MaxRuns \in Nat /\ MaxSessions \in Nat /\ MaxBreaks \in Nat
  BY ShowBoundsAssumption DEF TypeOK
<1>1. CASE Start \/ Hold
  <2>1. CASE Start
    <3>1. run' = run + 1 /\ run < MaxRuns /\ task' = [task EXCEPT ![run'] = "starting"]
      BY <2>1 DEF Start
    <3>2. run' \in 0..MaxRuns
      BY <3>1, <1>a
    <3>3. /\ hold_requested' \in BOOLEAN /\ show' = "RUNNING"
          /\ UNCHANGED <<overruled, preparing, aborting, awaited, left, cue, outcome, payload,
                         stream, breaks, request, quoted, event, result, session_ids, issued,
                         control>>
      BY <2>1 DEF Start
    <3> QED
      BY <3>1, <3>2, <3>3 DEF TypeOK, ShowStates
  <2>2. CASE Hold
    BY <2>2, <1>a DEF TypeOK, ShowStates, Hold
  <2> QED
    BY <1>1, <2>1, <2>2
<1>2. ASSUME NEW i \in 1..MaxArms, NEW rt \in Runtimes,
             Arm(i) \/ PrepareOne(i, rt) \/ PrepareFails(i, rt)
      PROVE  TypeOK'
  <2>1. /\ Acquire(rt) => /\ issued' \in [Runtimes -> 0..MaxSessions]
                          /\ control' \in [Runtimes -> 0..MaxSessions]
                          /\ issued'[rt] \in 0..MaxSessions
    <3> SUFFICES ASSUME Acquire(rt)
                 PROVE  /\ issued' \in [Runtimes -> 0..MaxSessions]
                        /\ control' \in [Runtimes -> 0..MaxSessions]
                        /\ issued'[rt] \in 0..MaxSessions
      OBVIOUS
    <3>1. /\ issued' = [issued EXCEPT ![rt] = issued[rt] + 1]
          /\ issued[rt] + 1 \in 0..MaxSessions
      BY <1>a DEF Acquire, TypeOK
    <3>2. issued \in [Runtimes -> 0..MaxSessions] /\ control \in [Runtimes -> 0..MaxSessions]
      BY DEF TypeOK
    <3>3. control' = [control EXCEPT ![rt] = issued'[rt]]
      BY DEF Acquire
    <3> QED
      BY <3>1, <3>2, <3>3
  <2>2. CASE Arm(i)
    BY <2>2, <1>a DEF Arm, TypeOK, ShowStates
  <2>3. CASE PrepareOne(i, rt)
    BY <2>1, <2>3 DEF PrepareOne, TypeOK, ShowStates
  <2>4. CASE PrepareFails(i, rt)
    BY <2>1, <2>4 DEF PrepareFails, TypeOK, ShowStates
  <2> QED
    BY <1>2, <2>2, <2>3, <2>4
<1>3. ASSUME NEW k \in 1..MaxAborts, Abort(k) PROVE TypeOK'
  <2>1. /\ task' \in [Runs -> {"none", "starting", "cues", "closing", "ended"}]
        /\ cue' \in [Firings -> {"none", "waiting", "submitting", "asking", "awaiting",
                                 "done", "dead", "cancelled"}]
    <3>1. /\ task \in [Runs -> {"none", "starting", "cues", "closing", "ended"}]
          /\ cue \in [Firings -> {"none", "waiting", "submitting", "asking", "awaiting",
                                  "done", "dead", "cancelled"}]
      BY DEF TypeOK
    <3>2. \E to \in {"closing", "ended"} : task' = [task EXCEPT ![run] = to]
      BY <1>3 DEF Abort, TaskTo
    <3>3. \/ cue' = cue
          \/ cue' = [f \in Firings |-> IF f[1] = run /\ Active(f) THEN "cancelled" ELSE cue[f]]
      BY <1>3 DEF Abort
    <3> QED
      BY <3>1, <3>2, <3>3
  <2> QED
    BY <1>3, <2>1, <1>a DEF TypeOK, ShowStates, Abort, AbortBegins, StreamsOff
<1>4. ASSUME NEW k \in 1..MaxAborts, StopAll(k) PROVE TypeOK'
  <2>1. Listed(k) \in SUBSET Runtimes
    BY DEF Listed, TypeOK
  <2>2. ASSUME NEW rt \in Runtimes, ReleaseOne(k, rt) PROVE TypeOK'
    <3>1. /\ aborting' = [aborting EXCEPT ![k] = "releasing"]
          /\ left' = [left EXCEPT ![k] = Listed(k) \ {rt}]
          /\ session_ids' = [session_ids EXCEPT ![rt] = 0]
          /\ \E s \in 0..MaxSessions : control' = [control EXCEPT ![rt] = s]
      <4>1. control[rt] \in 0..MaxSessions /\ 0 \in 0..MaxSessions
        BY <1>a DEF TypeOK
      <4>2. \/ control' = [control EXCEPT ![rt] = IF control[rt] = session_ids[rt] THEN 0
                                                 ELSE control[rt]]
            \/ control' = control
        BY <2>2 DEF ReleaseOne
      <4>3. control = [control EXCEPT ![rt] = control[rt]]
        BY DEF TypeOK
      <4> QED
        BY <2>2, <4>1, <4>2, <4>3 DEF ReleaseOne
    <3> QED
      BY <2>1, <2>2, <3>1, <1>a DEF ReleaseOne, TypeOK
  <2>3. CASE AbortRaises(k)
    BY <2>3, <1>a DEF AbortRaises, AbortIsOver, TypeOK
  <2>4. CASE AbortEnds(k)
    BY <2>4, <1>a DEF AbortEnds, AbortIsOver, TypeOK, ShowStates
  <2> QED
    BY <1>4, <2>2, <2>3, <2>4 DEF StopAll
<1>5. ASSUME NEW n \in Runs, RunTask(n) PROVE TypeOK'
  <2>1. CASE SnapshotFails(n)
    BY <2>1, <1>a DEF SnapshotFails, TaskTo, TypeOK, ShowStates
  <2>2. CASE CuesStart(n)
    BY <2>2, <1>a DEF CuesStart, TaskTo, TypeOK
  <2>3. CASE CuesEnd(n)
    BY <2>3, <1>a DEF CuesEnd, TaskTo, StreamsOff, TypeOK
  <2>4. CASE Close(n)
    BY <2>4, <1>a DEF Close, TaskTo, TypeOK, ShowStates
  <2> QED
    BY <1>5, <2>1, <2>2, <2>3, <2>4 DEF RunTask
<1>6. ASSUME NEW n \in Runs, NEW rt \in Runtimes, Listen(n, rt) PROVE TypeOK'
  <2>1. CASE StreamEnds(n, rt)
    BY <2>1, <1>a DEF StreamEnds, TypeOK, Outcomes
  <2>2. CASE ReplayBegins(n, rt) \/ ReplayEnds(n, rt)
    <3>1. /\ \E to \in {"open", "replaying"} : stream' = [stream EXCEPT ![<<n, rt>>] = to]
          /\ breaks' \in 0..MaxBreaks
          /\ UNCHANGED <<show, hold_requested, run, overruled, task, preparing, aborting, awaited,
                         left, cue, outcome, payload, request, quoted, event, result,
                         session_ids, issued, control>>
      BY <2>2, <1>a DEF ReplayBegins, ReplayEnds, TypeOK
    <3> QED
      BY <3>1 DEF TypeOK
  <2> QED
    BY <1>6, <2>1, <2>2 DEF Listen
<1>7. ASSUME NEW rt \in Runtimes, LoseControl(rt) PROVE TypeOK'
  BY <1>7, <1>a DEF LoseControl, TypeOK
<1>8. ASSUME NEW f \in Firings, RunCue(f) PROVE TypeOK'
  <2>1. Home(f) \in Runtimes
    BY TimelineAssumption DEF Home, Firings
  <2>2. session_ids[Home(f)] \in 0..MaxSessions
    BY <2>1 DEF TypeOK
  <2>a. UNCHANGED <<show, hold_requested, run, overruled, task, stream, preparing, aborting,
                    awaited, left, breaks, result, session_ids, issued, control>>
    BY <1>8 DEF RunCue
  <2>b. /\ cue' \in [Firings -> {"none", "waiting", "submitting", "asking", "awaiting",
                                 "done", "dead", "cancelled"}]
        /\ outcome' \in [Firings -> Outcomes]
        /\ payload' \in [Firings -> Outcomes]
        /\ request' \in [Firings -> {"none", "sent", "taken", "refused"}]
        /\ quoted' \in [Firings -> 0..MaxSessions]
        /\ event' \in [Firings -> {"none", "heard", "lost"}]
        => TypeOK'
    BY <2>a DEF TypeOK
  <2>3. CASE Gate(f)
    <3>1. /\ UNCHANGED <<payload, event>>
          /\ \E to \in {"submitting", "done", "dead"} : cue' = [cue EXCEPT ![f] = to]
          /\ outcome' = outcome \/ \E o \in Outcomes : outcome' = [outcome EXCEPT ![f] = o]
          /\ request' = request \/ request' = [request EXCEPT ![f] = "sent"]
          /\ quoted' = quoted \/ quoted' = [quoted EXCEPT ![f] = session_ids[Home(f)]]
      BY <2>3
         DEF Gate, Skip, LateAborts, Fire, FireFails, FinishCue, Moves, Outcomes,
             Contract!Resolutions
    <3>2. cue' \in [Firings -> {"none", "waiting", "submitting", "asking", "awaiting",
                                "done", "dead", "cancelled"}]
      BY <3>1 DEF TypeOK
    <3>3. outcome' \in [Firings -> Outcomes]
      BY <3>1 DEF TypeOK
    <3>4. request' \in [Firings -> {"none", "sent", "taken", "refused"}]
      BY <3>1 DEF TypeOK
    <3>5. quoted' \in [Firings -> 0..MaxSessions]
      BY <3>1, <2>2 DEF TypeOK
    <3> QED
      BY <2>b, <3>1, <3>2, <3>3, <3>4, <3>5 DEF TypeOK
  <2>4. CASE Answer(f) \/ Awaken(f)
    <3>1. /\ result[f] \in {"SUCCEEDED", "FAILED", "CANCELLED", "EXPIRED", "unknown", "pending",
                            "REJECTED"}
          /\ payload[f] \in Outcomes
          /\ {"SUCCEEDED", "FAILED", "CANCELLED", "EXPIRED", "REJECTED", None} \subseteq Outcomes
      BY DEF TypeOK, Outcomes, Contract!Resolutions
    <3>2. Known(f) \in Outcomes /\ (Concluded(f) => result[f] \in Outcomes)
      BY <3>1 DEF Known, Concluded
    <3>3. /\ UNCHANGED <<payload, request, quoted, event>>
          /\ \E to \in {"asking", "awaiting", "done", "dead"} : cue' = [cue EXCEPT ![f] = to]
          /\ outcome' = outcome \/ \E o \in Outcomes : outcome' = [outcome EXCEPT ![f] = o]
      BY <2>4, <3>1, <3>2
         DEF Answer, SubmitRefused, SubmitConcluded, SubmitAccepted, AskReturns, HttpFails, Awaken,
             FinishCue, Moves
    <3>4. cue' \in [Firings -> {"none", "waiting", "submitting", "asking", "awaiting",
                                "done", "dead", "cancelled"}]
      BY <3>3 DEF TypeOK
    <3>5. outcome' \in [Firings -> Outcomes]
      BY <3>3 DEF TypeOK
    <3> QED
      BY <2>b, <3>3, <3>4, <3>5 DEF TypeOK
  <2> QED
    BY <1>8, <2>3, <2>4 DEF RunCue
<1>9. ASSUME NEW f \in Firings, Hear(f) PROVE TypeOK'
  BY <1>9 DEF Hear, Concluded, TypeOK, Outcomes, Contract!Resolutions
<1>10. ASSUME NEW f \in Firings, Receive(f) PROVE TypeOK'
  <2>1. \E to \in {"taken", "refused"} : request' = [request EXCEPT ![f] = to]
    BY <1>10 DEF Receive
  <2>2. result' = result \/ \E r \in {"pending", "REJECTED"} : result' = [result EXCEPT ![f] = r]
    BY <1>10 DEF Receive, Contract!Accept, Contract!Refuse
  <2>3. request' \in [Firings -> {"none", "sent", "taken", "refused"}]
    BY <2>1 DEF TypeOK
  <2>4. result' \in [Firings -> Contract!Resolutions \cup {"unknown", "pending", "REJECTED"}]
    BY <2>2 DEF TypeOK
  <2> QED
    BY <1>10, <2>3, <2>4 DEF Receive, TypeOK
<1>11. ASSUME NEW f \in Firings, Conclude(f) PROVE TypeOK'
  BY <1>11 DEF Conclude, Contract!Resolve, TypeOK, Contract!Resolutions
<1>12. CASE UNCHANGED vars
  BY <1>12 DEF vars, TypeOK
<1>13. ASSUME NEW i \in 1..MaxArms, Arm(i) PROVE TypeOK'
  BY <1>13, <1>a DEF Arm, TypeOK, ShowStates
<1> QED
  BY <1>1, <1>2, <1>3, <1>4, <1>5, <1>6, <1>7, <1>8, <1>9, <1>10, <1>11, <1>12, <1>13
     DEF Next, Prepare

\* Every step keeps the runs in their order, and a Show that runs with its run task.
LEMMA RunStep == IInv /\ [Next]_vars => RunsCounted' /\ RunningIsDriven'
<1> SUFFICES ASSUME IInv, [Next]_vars PROVE RunsCounted' /\ RunningIsDriven'
  OBVIOUS
<1>a. TypeOK /\ RunsCounted /\ RunningIsDriven /\ run \in Nat /\ MaxRuns \in Nat
  BY ShowBoundsAssumption DEF IInv, TypeOK
<1>1. CASE Start
  <2>1. run' = run + 1 /\ run' \in Runs /\ task' = [task EXCEPT ![run'] = "starting"]
    BY <1>1, <1>a DEF Start, Runs
  <2>2. RunsCounted'
    BY <2>1, <1>a DEF RunsCounted, TypeOK, Runs
  <2>3. RunningIsDriven'
    BY <2>1, <1>a DEF RunningIsDriven, Driven, Live, TypeOK
  <2> QED
    BY <2>2, <2>3
<1>2. ASSUME Hold \/ (\E i \in 1..MaxArms : Arm(i) \/ Prepare(i))
             \/ (\E k \in 1..MaxAborts : StopAll(k))
      PROVE  RunsCounted' /\ RunningIsDriven'
  <2>1. /\ UNCHANGED <<run, task>>
        /\ show' \in {"RUNNING", "HOLDING"} => show \in {"RUNNING", "HOLDING"}
    BY <1>2
       DEF Hold, Arm, Prepare, PrepareOne, PrepareFails, StopAll, ReleaseOne, AbortRaises,
           AbortEnds, AbortIsOver
  <2> QED
    BY <2>1, <1>a DEF RunsCounted, RunningIsDriven, Driven, Live
<1>3. ASSUME NEW k \in 1..MaxAborts, Abort(k) PROVE RunsCounted' /\ RunningIsDriven'
  <2>1. /\ show' = "STOPPING" /\ UNCHANGED run
        /\ \E to \in {"closing", "ended"} : task' = [task EXCEPT ![run] = to]
    BY <1>3 DEF Abort, AbortBegins, TaskTo
  <2> QED
    BY <2>1, <1>a DEF RunsCounted, RunningIsDriven, TypeOK
<1>4. ASSUME NEW n \in Runs, RunTask(n) PROVE RunsCounted' /\ RunningIsDriven'
  <2>1. /\ UNCHANGED run /\ task[n] \in {"starting", "cues", "closing"}
        /\ \E to \in {"cues", "closing", "ended"} :
             /\ task' = [task EXCEPT ![n] = to]
             /\ show' \in {"RUNNING", "HOLDING"} =>
                  show \in {"RUNNING", "HOLDING"} /\ to # "ended"
    BY <1>4 DEF RunTask, SnapshotFails, CuesStart, CuesEnd, Close, TaskTo
  <2>2. RunsCounted'
    BY <2>1, <1>a DEF RunsCounted, TypeOK
  <2>3. RunningIsDriven'
    BY <2>1, <1>a DEF RunningIsDriven, Driven, Live, TypeOK
  <2> QED
    BY <2>2, <2>3
<1>5. CASE UNCHANGED <<show, run, task>>
  BY <1>5, <1>a DEF RunsCounted, RunningIsDriven, Driven, Live
<1> QED
  BY <1>1, <1>2, <1>3, <1>4, <1>5, ShowFrame

\* Every step keeps the coroutines what they are.
LEMMA CueStep == IInv /\ [Next]_vars => CuesKept'
<1> SUFFICES ASSUME IInv, [Next]_vars, NEW f \in Firings
             PROVE  CueIs(f)' /\ (Fresh(f)' => cue'[f] = "none")
  BY DEF CuesKept
<1>a. /\ TypeOK /\ CuesKept /\ CueIs(f) /\ (Fresh(f) => cue[f] = "none")
      /\ f[1] \in Runs /\ RunsCounted
  BY DEF IInv, CuesKept, TypeOK, Firings
<1>b. Concluded(f) => result'[f] = result[f] /\ Concluded(f)'
  BY <1>a, ResultStays
<1>c. Fresh(f)' => Fresh(f)
  <2>1. CASE Start
    <3>1. \A n \in Runs : task'[n] # task[n] => run < n
      BY <2>1, <1>a, ShowBoundsAssumption DEF Start, TypeOK, Runs
    <3> QED
      BY <3>1, <1>a DEF Fresh, RunsCounted
  <2>2. ASSUME NEW n \in Runs, RunTask(n) PROVE Fresh(f)' => Fresh(f)
    <3>1. \E to \in {"cues", "closing", "ended"} : task' = [task EXCEPT ![n] = to]
      BY <2>2 DEF RunTask, SnapshotFails, CuesStart, CuesEnd, Close, TaskTo
    <3> QED
      BY <3>1, <1>a DEF Fresh, TypeOK
  <2>3. ASSUME NEW k \in 1..MaxAborts, Abort(k) PROVE Fresh(f)' => Fresh(f)
    <3>1. \E to \in {"closing", "ended"} : task' = [task EXCEPT ![run] = to]
      BY <2>3 DEF Abort, TaskTo
    <3> QED
      BY <3>1, <1>a DEF Fresh, TypeOK
  <2>4. CASE UNCHANGED task
    BY <2>4 DEF Fresh
  <2> QED
    BY <2>1, <2>2, <2>3, <2>4, ShowFrame
       DEF Hold, Arm, Prepare, PrepareOne, PrepareFails, StopAll, ReleaseOne, AbortRaises,
           AbortEnds, AbortIsOver
<1>1. ASSUME NEW g \in Firings, RunCue(g) PROVE CueIs(f)' /\ (Fresh(f)' => cue'[f] = "none")
  <2>1. CueActs(g)
    BY <1>1, <1>a, RunCueIs DEF RunCue
  <2>3. CASE f # g
    BY <2>1, <1>c, <2>3, <1>a DEF CueActs, CueIs, Concluded
  <2>4. CASE f = g
    BY <2>1, <1>c, <2>4, <1>a DEF CueActs, CueIs, Concluded
  <2> QED
    BY <2>3, <2>4
<1>2. ASSUME NEW n \in Runs, CuesStart(n) PROVE CueIs(f)' /\ (Fresh(f)' => cue'[f] = "none")
  <2>1. /\ task[n] = "starting" /\ task' = [task EXCEPT ![n] = "cues"]
        /\ cue' = [g \in Firings |-> IF g[1] = n THEN "waiting" ELSE cue[g]]
        /\ UNCHANGED <<outcome, payload, request, result>>
    BY <1>2 DEF CuesStart, TaskTo
  <2> QED
    BY <2>1, <1>a DEF TypeOK, Fresh, CueIs, Concluded
<1>3. ASSUME NEW k \in 1..MaxAborts, Abort(k) PROVE CueIs(f)' /\ (Fresh(f)' => cue'[f] = "none")
  <2>1. /\ cue'[f] = cue[f] \/ (Active(f) /\ cue'[f] = "cancelled")
        /\ UNCHANGED <<outcome, payload, request, result>>
    BY <1>3, <1>a DEF Abort, AbortBegins
  <2> QED
    BY <2>1, <1>a, <1>c DEF Active, CueIs, Concluded
<1>4. ASSUME NEW g \in Firings, Hear(g) PROVE CueIs(f)' /\ (Fresh(f)' => cue'[f] = "none")
  BY <1>4, <1>a DEF Hear, Fresh, CueIs, Concluded, TypeOK
<1>5. ASSUME NEW n \in Runs, NEW rt \in Runtimes, StreamEnds(n, rt)
      PROVE  CueIs(f)' /\ (Fresh(f)' => cue'[f] = "none")
  BY <1>5, <1>a DEF StreamEnds, Fresh, CueIs, Concluded, TypeOK
<1>6. ASSUME NEW g \in Firings, Receive(g) \/ Conclude(g)
      PROVE  CueIs(f)' /\ (Fresh(f)' => cue'[f] = "none")
  <2>1. UNCHANGED <<cue, outcome, payload, task>>
    BY <1>6 DEF Receive, Conclude
  <2>2. CASE f = g /\ Receive(g)
    BY <2>1, <2>2, <1>a, <1>b
       DEF Receive, Contract!Accept, Contract!Refuse, Fresh, CueIs, TypeOK
  <2>3. CASE f = g /\ Conclude(g)
    BY <2>1, <2>3, <1>a, <1>b
       DEF Conclude, Contract!Resolve, Contract!Resolutions, Fresh, CueIs, TypeOK
  <2>4. CASE f # g
    <3>1. request'[f] = request[f] /\ result'[f] = result[f]
      BY <2>4, <1>6, <1>a
         DEF Receive, Conclude, Contract!Accept, Contract!Refuse, Contract!Resolve, TypeOK
    <3> QED
      BY <2>1, <3>1, <1>a DEF Fresh, CueIs, Concluded
  <2> QED
    BY <1>6, <2>2, <2>3, <2>4
<1>7. CASE UNCHANGED <<cue, outcome, payload, request, result>>
  BY <1>7, <1>a, <1>c DEF CueIs, Concluded
<1> QED
  BY <1>1, <1>2, <1>3, <1>4, <1>5, <1>6, <1>7, CueFrame

\* Every step keeps the outcomes true: they are written once, from what the Runtime says.
LEMMA TrueStep == IInv /\ [Next]_vars => OutcomeIsTrue'
<1> SUFFICES ASSUME IInv, [Next]_vars, NEW f \in Firings
             PROVE  /\ outcome'[f] \in {"SUCCEEDED", "CANCELLED", "EXPIRED"} =>
                         outcome'[f] = result'[f]
                    /\ outcome'[f] = "SKIPPED" => request'[f] = "none"
  BY DEF OutcomeIsTrue
<1>a. /\ TypeOK /\ CueIs(f)
      /\ outcome[f] \in {"SUCCEEDED", "CANCELLED", "EXPIRED"} => outcome[f] = result[f]
      /\ outcome[f] = "SKIPPED" => request[f] = "none"
      /\ result[f] \in {"SUCCEEDED", "FAILED", "CANCELLED", "EXPIRED", "unknown", "pending",
                        "REJECTED"}
  BY DEF IInv, CuesKept, OutcomeIsTrue, TypeOK, Contract!Resolutions
<1>b. Concluded(f) => result'[f] = result[f]
  BY <1>a, ResultStays
<1>1. ASSUME NEW g \in Firings, RunCue(g)
      PROVE  /\ outcome'[f] \in {"SUCCEEDED", "CANCELLED", "EXPIRED"} =>
                  outcome'[f] = result'[f]
             /\ outcome'[f] = "SKIPPED" => request'[f] = "none"
  <2>1. CueActs(g)
    BY <1>1, <1>a, RunCueIs
  <2>2. CASE f # g
    BY <2>1, <2>2, <1>a DEF CueActs
  <2>3. CASE f = g
    BY <2>1, <2>3, <1>a, NoneAssumption DEF CueActs, CueIs, Concluded
  <2> QED
    BY <2>2, <2>3
<1>2. CASE UNCHANGED <<outcome, request>>
  BY <1>2, <1>a, <1>b DEF Concluded
<1>3. ASSUME NEW g \in Firings, Receive(g)
      PROVE  /\ outcome'[f] \in {"SUCCEEDED", "CANCELLED", "EXPIRED"} =>
                  outcome'[f] = result'[f]
             /\ outcome'[f] = "SKIPPED" => request'[f] = "none"
  <2>1. UNCHANGED outcome /\ (request'[f] # request[f] => request[f] = "sent")
    BY <1>3, <1>a DEF Receive, TypeOK
  <2> QED
    BY <2>1, <1>a, <1>b DEF Concluded
<1> QED
  BY <1>1, <1>2, <1>3, CueFrame
     DEF Abort, AbortBegins, CuesStart, StreamEnds, Hear, Conclude

\* Every step keeps the dependencies first: a request leaves when they are written down as
\* succeeded, which by OutcomeIsTrue they are, and what has succeeded stays so.
LEMMA FirstStep == IInv /\ [Next]_vars => DependenciesFirst'
<1> SUFFICES ASSUME IInv, [Next]_vars, NEW f \in Firings, request'[f] # "none",
                    NEW i \in Prerequisites(f)
             PROVE  result'[Dependency(f, i)] = "SUCCEEDED"
  BY DEF DependenciesFirst, Prerequisites, Dependency
<1> DEFINE d == Dependency(f, i)
<1>1. TypeOK /\ d \in Firings
  BY DependencyType DEF IInv
<1>2. result[d] = "SUCCEEDED" => result'[d] = "SUCCEEDED"
  BY <1>1, ResultStays DEF Concluded
<1>3. request[f] # "none" => result[d] = "SUCCEEDED"
  BY DEF IInv, DependenciesFirst
<1>4. outcome[d] = "SUCCEEDED" => result[d] = "SUCCEEDED"
  BY <1>1 DEF IInv, OutcomeIsTrue
<1>5. ASSUME NEW g \in Firings, RunCue(g) PROVE result[d] = "SUCCEEDED"
  <2>1. CueActs(g)
    BY <1>5, <1>1, RunCueIs
  <2>2. CASE request'[f] = request[f]
    BY <2>2, <1>3
  <2>3. CASE request'[f] # request[f]
    <3>1. f = g /\ Ready(f)
      BY <2>1, <2>3 DEF CueActs
    <3> QED
      BY <3>1, <1>4 DEF Ready
  <2> QED
    BY <2>2, <2>3
<1>6. ASSUME NEW g \in Firings, Receive(g) PROVE request[f] # "none"
  BY <1>6, <1>1 DEF Receive, TypeOK
<1>7. CASE UNCHANGED request
  BY <1>7, <1>2, <1>3
<1> QED
  BY <1>2, <1>3, <1>5, <1>6, <1>7, CueFrame
     DEF Abort, AbortBegins, CuesStart, StreamEnds, Hear, Conclude

\* An exception that has left a coroutine stays, and only the start of the cues activates
\* coroutines.
LEMMA CuesGoOn ==
  ASSUME IInv, [Next]_vars, NEW f \in Firings
  PROVE  /\ cue[f] = "dead" => cue'[f] = "dead"
         /\ Active(f)' => Active(f) \/ CuesStart(f[1])
<1>a. TypeOK /\ (Fresh(f) => cue[f] = "none")
  BY DEF IInv, CuesKept
<1>1. ASSUME NEW g \in Firings, RunCue(g)
      PROVE  cue'[f] = cue[f] \/ Active(f)
  <2>1. CueActs(g)
    BY <1>1, <1>a, RunCueIs
  <2> QED
    BY <2>1 DEF CueActs, Active
<1>2. ASSUME NEW n \in Runs, CuesStart(n)
      PROVE  /\ cue[f] = "dead" => cue'[f] = "dead"
             /\ Active(f)' => Active(f) \/ CuesStart(f[1])
  BY <1>2, <1>a DEF CuesStart, Fresh, Active
<1>3. ASSUME NEW k \in 1..MaxAborts, Abort(k)
      PROVE  cue'[f] = cue[f] \/ (Active(f) /\ cue'[f] = "cancelled")
  BY <1>3, <1>a DEF Abort
<1>4. CASE UNCHANGED cue
  BY <1>4 DEF Active
<1> QED
  BY <1>1, <1>2, <1>3, <1>4, CueFrame DEF Active, StreamEnds, Hear, Receive, Conclude

\* A run in which an exception has left a cue stays one.
LEMMA RaisedStays ==
  ASSUME IInv, [Next]_vars, NEW n \in Runs, Raised(n)
  PROVE  Raised(n)'
<1>1. PICK c \in Cues : cue[<<n, c>>] = "dead"
  BY DEF Raised
<1>2. <<n, c>> \in Firings
  BY DEF Firings
<1> QED
  BY <1>1, <1>2, CuesGoOn DEF Raised

\* Every step keeps the quiet: the gather is left when all are done, when one has raised, or
\* when an abort cancels what is left.
LEMMA QuietStep == IInv /\ [Next]_vars => QuietAfterRun'
<1> SUFFICES ASSUME IInv, [Next]_vars, NEW f \in Firings, Active(f)', task'[f[1]] # "cues"
             PROVE  Raised(f[1])'
  BY DEF QuietAfterRun, Raised
<1>a. TypeOK /\ f[1] \in Runs /\ f[2] \in Cues /\ f = <<f[1], f[2]>>
  BY DEF IInv, Firings
<1>1. Active(f)
  <2>1. CuesStart(f[1]) => task'[f[1]] = "cues"
    BY <1>a DEF CuesStart, TaskTo, TypeOK
  <2> QED
    BY <2>1, CuesGoOn
<1>2. Raised(f[1]) => Raised(f[1])'
  BY <1>a, RaisedStays
<1>3. CASE task[f[1]] # "cues"
  BY <1>1, <1>2, <1>3 DEF IInv, QuietAfterRun, Raised
<1>4. CASE task[f[1]] = "cues"
  <2>1. ASSUME NEW k \in 1..MaxAborts, Abort(k) PROVE Raised(f[1])
    <3>1. f[1] = run
      BY <2>1, <1>4, <1>a DEF Abort, TaskTo, TypeOK
    <3>2. cue'[f] = cue[f]
      BY <2>1, <1>a, <1>1 DEF Abort, Active
    <3> QED
      BY <2>1, <3>1, <3>2, <1>4, <1>1 DEF Abort, Active
  <2>2. ASSUME NEW n \in Runs, RunTask(n) PROVE Raised(f[1])
    <3>1. n = f[1]
      BY <2>2, <1>4, <1>a DEF RunTask, SnapshotFails, CuesStart, CuesEnd, Close, TaskTo, TypeOK
    <3>2. CuesEnd(n)
      BY <2>2, <3>1, <1>4 DEF RunTask, SnapshotFails, CuesStart, Close
    <3> QED
      BY <3>1, <3>2, <1>1, <1>a DEF CuesEnd, Active
  <2>3. ~Start
    BY <1>4, <1>a, ShowBoundsAssumption DEF IInv, RunsCounted, Start, Runs, TypeOK
  <2>4. task' # task
    BY <1>4
  <2> QED
    BY <2>1, <2>2, <2>3, <2>4, <1>2, ShowFrame
       DEF Hold, Arm, Prepare, PrepareOne, PrepareFails, StopAll, ReleaseOne, AbortRaises,
           AbortEnds, AbortIsOver
<1> QED
  BY <1>3, <1>4

-----------------------------------------------------------------------------
\* The controller in order.

\* An arm's step leaves the runs and the aborts alone.
LEMMA ArmOrder ==
  ASSUME IInv, InOrder, NEW i \in 1..MaxArms, Arm(i) \/ Prepare(i)
  PROVE  InOrder'
<1>a. /\ TypeOK /\ OneRun /\ OneArm /\ OneAbort /\ AbortOfRun /\ ListKept /\ SessionsKept
  BY DEF IInv, InOrder
<1>1. CASE Arm(i)
  <2>1. /\ show = "IDLE" /\ show' = "PREPARING" /\ preparing' = [preparing EXCEPT ![i] = Runtimes]
        /\ UNCHANGED <<run, task, aborting, awaited, left, session_ids, issued, cue>>
    BY <1>1 DEF Arm
  <2>2. \A j \in 1..MaxArms : preparing[j] = {}
    BY <2>1, <1>a DEF OneArm
  <2>3. \A k \in 1..MaxAborts : aborting[k] = "none"
    BY <2>1, <1>a DEF OneAbort
  <2>4. \A n \in Runs : ~Live(n)
    BY <2>1, <1>a DEF OneRun
  <2>5. OneArm' /\ SessionsKept'
    BY <2>1, <2>2, <1>a, RuntimesAssumption DEF OneArm, SessionsKept, ArmedHoldsSessions, TypeOK
  <2>6. OneRun' /\ OneAbort' /\ AbortOfRun' /\ ListKept'
    BY <2>1, <2>3, <2>4 DEF OneRun, Live, OneAbort, AbortOfRun, ListKept
  <2> QED
    BY <2>5, <2>6 DEF InOrder
<1>2. ASSUME NEW rt \in Runtimes, PrepareOne(i, rt) \/ PrepareFails(i, rt) PROVE InOrder'
  <2>1. /\ rt \in preparing[i] /\ show = "PREPARING" /\ show' \in {"ARMED", "IDLE", show}
        /\ UNCHANGED <<run, task, aborting, awaited, left, cue>>
    BY <1>2, <1>a DEF PrepareOne, PrepareFails, OneArm
  <2>2. \A j \in (1..MaxArms) \ {i} : preparing[j] = {}
    BY <2>1, <1>a DEF OneArm
  <2>3. OneRun' /\ OneAbort' /\ AbortOfRun' /\ ListKept'
    BY <2>1, <1>a DEF OneRun, Live, Raised, OneAbort, AbortOfRun, ListKept
  <2>4. CASE PrepareOne(i, rt)
    <3>1. issued[rt] \in Nat /\ issued' = [issued EXCEPT ![rt] = issued[rt] + 1]
      BY <2>4, <1>a DEF PrepareOne, Acquire, TypeOK
    <3>2. /\ issued'[rt] # 0 /\ session_ids'[rt] = issued'[rt]
          /\ \A s \in Runtimes \ {rt} : issued'[s] = issued[s] /\ session_ids'[s] = session_ids[s]
      BY <3>1, <2>4, <1>a DEF PrepareOne, TypeOK
    <3>3. /\ preparing'[i] = preparing[i] \ {rt}
          /\ \A j \in (1..MaxArms) \ {i} : preparing'[j] = {}
          /\ show' = IF preparing'[i] = {} THEN "ARMED" ELSE "PREPARING"
      BY <2>1, <2>2, <2>4, <1>a DEF PrepareOne, TypeOK
    <3>4. OneArm'
      BY <3>3 DEF OneArm
    <3>5. \A s \in Runtimes \ preparing'[i] : session_ids'[s] # 0 /\ session_ids'[s] = issued'[s]
      BY <3>2, <3>3, <2>1, <1>a DEF SessionsKept
    <3>6. SessionsKept'
      BY <3>3, <3>5 DEF SessionsKept, ArmedHoldsSessions
    <3> QED
      BY <2>3, <3>4, <3>6 DEF InOrder
  <2>5. CASE PrepareFails(i, rt)
    <3>1. show' = "IDLE" /\ \A j \in 1..MaxArms : preparing'[j] = {}
      BY <2>2, <2>5, <1>a DEF PrepareFails, TypeOK
    <3> QED
      BY <3>1, <2>3 DEF InOrder, OneArm, SessionsKept, ArmedHoldsSessions
  <2> QED
    BY <1>2, <2>4, <2>5
<1> QED
  BY <1>1, <1>2 DEF Prepare

\* A run begins, goes on or ends a Show that no abort is about to end.
LEMMA RunOrder ==
  ASSUME IInv, InOrder, Start \/ Hold \/ \E n \in Runs : RunTask(n)
  PROVE  overruled' \/ InOrder'
<1>a. /\ TypeOK /\ OneRun /\ OneArm /\ OneAbort /\ AbortOfRun /\ ListKept /\ SessionsKept
      /\ UNCHANGED <<preparing, aborting, awaited, left, session_ids, issued>>
      /\ \A n \in Runs : Raised(n) => Raised(n)'
  BY RaisedStays
     DEF IInv, InOrder, Start, Hold, RunTask, SnapshotFails, CuesStart, CuesEnd, Close, Next
<1>1. CASE Start
  <2>1. show = "ARMED" /\ show' = "RUNNING" /\ run' \in Runs /\ task' = [task EXCEPT ![run'] = "starting"]
    BY <1>1, <1>a, ShowBoundsAssumption DEF Start, TypeOK, Runs
  <2>2. OneRun'
    BY <2>1, <1>a DEF OneRun, Live, TypeOK
  <2>3. OneArm' /\ OneAbort' /\ AbortOfRun' /\ ListKept' /\ SessionsKept'
    BY <2>1, <1>a DEF OneArm, OneAbort, AbortOfRun, ListKept, SessionsKept, ArmedHoldsSessions
  <2> QED
    BY <2>2, <2>3 DEF InOrder
<1>2. CASE Hold
  <2>1. show = "RUNNING" /\ show' = "HOLDING" /\ UNCHANGED <<run, task>>
    BY <1>2 DEF Hold
  <2>2. OneRun'
    BY <2>1, <1>a DEF OneRun, Live
  <2>3. OneArm' /\ OneAbort' /\ AbortOfRun' /\ ListKept' /\ SessionsKept'
    BY <2>1, <1>a DEF OneArm, OneAbort, AbortOfRun, ListKept, SessionsKept, ArmedHoldsSessions
  <2> QED
    BY <2>2, <2>3 DEF InOrder
<1>3. ASSUME NEW n \in Runs, CuesStart(n) \/ CuesEnd(n) PROVE InOrder'
  <2>1. /\ \E to \in {"cues", "closing"} : task' = [task EXCEPT ![n] = to]
        /\ UNCHANGED <<show, run>> /\ Live(n) /\ task[n] # "closing"
    BY <1>3 DEF CuesStart, CuesEnd, TaskTo, Live
  <2>2. show \in {"RUNNING", "HOLDING"} /\ n = run
    BY <2>1, <1>a DEF OneRun
  <2>3. OneRun'
    BY <2>1, <2>2, <1>a DEF OneRun, Live, TypeOK
  <2>4. OneArm' /\ OneAbort' /\ AbortOfRun' /\ ListKept' /\ SessionsKept'
    BY <2>1, <1>a DEF OneArm, OneAbort, AbortOfRun, ListKept, SessionsKept, ArmedHoldsSessions
  <2> QED
    BY <2>3, <2>4 DEF InOrder
<1>4. ASSUME NEW n \in Runs, SnapshotFails(n) \/ Close(n) PROVE overruled' \/ InOrder'
  <2>1. /\ task' = [task EXCEPT ![n] = "ended"] /\ UNCHANGED run /\ Live(n)
        /\ task[n] # "closing" => show' = "FAULTED"
        /\ Raised(n) => show' = "FAULTED"
        /\ show \in {"RUNNING", "HOLDING"} => show' \in {"FAULTED", "IDLE"}
        /\ task[n] = "closing" /\ show = "STOPPING" /\ show' = "FAULTED" => overruled'
    BY <1>4 DEF SnapshotFails, Close, TaskTo, Live
  <2>2. n = run /\ (show \in {"RUNNING", "HOLDING"} \/ (show = "STOPPING" /\ task[n] = "closing" /\ Raised(n)))
    BY <2>1, <1>a DEF OneRun
  <2>3. CASE show \in {"RUNNING", "HOLDING"}
    <3>1. OneRun'
      BY <2>1, <2>2, <1>a DEF OneRun, Live, TypeOK
    <3>2. OneArm' /\ OneAbort' /\ AbortOfRun' /\ ListKept' /\ SessionsKept'
      BY <2>1, <2>3, <1>a DEF OneArm, OneAbort, AbortOfRun, ListKept, SessionsKept, ArmedHoldsSessions
    <3> QED
      BY <3>1, <3>2 DEF InOrder
  <2> QED
    BY <2>1, <2>2, <2>3
<1> QED
  BY <1>1, <1>2, <1>3, <1>4 DEF RunTask

\* An abort begins where there is none, waits for the run and leaves none behind.
LEMMA AbortOrder ==
  ASSUME IInv, InOrder, NEW k \in 1..MaxAborts, Abort(k) \/ StopAll(k)
  PROVE  InOrder'
<1>a. /\ TypeOK /\ OneRun /\ OneArm /\ OneAbort /\ AbortOfRun /\ ListKept /\ SessionsKept
      /\ UNCHANGED <<run, preparing, issued>>
      /\ \A n \in Runs : Raised(n) => Raised(n)'
  BY RaisedStays
     DEF IInv, InOrder, Abort, AbortBegins, StopAll, ReleaseOne, AbortRaises, AbortEnds,
         AbortIsOver, Next
<1>1. CASE Abort(k)
  <2>1. /\ show \in {"RUNNING", "HOLDING", "FAULTED"} /\ show' = "STOPPING"
        /\ aborting' = [aborting EXCEPT ![k] = "stopping"]
        /\ awaited' = [awaited EXCEPT ![k] = run]
        /\ UNCHANGED session_ids
        /\ \/ task' = [task EXCEPT ![run] = "ended"]
           \/ task' = [task EXCEPT ![run] = "closing"] /\ task[run] = "cues" /\ Raised(run)
    BY <1>1 DEF Abort, AbortBegins, CanAbort, TaskTo
  <2>2. OneRun'
    <3>1. ASSUME NEW n \in Runs, Live(n)' PROVE Live(n)
      BY <2>1, <3>1, <1>a DEF Live, TypeOK
    <3>2. ASSUME NEW n \in Runs, Live(n)'
          PROVE  n = run' /\ show' = "STOPPING" /\ task'[n] = "closing" /\ Raised(n)'
      <4>1. n = run
        BY <3>1, <3>2, <1>a DEF OneRun
      <4> QED
        BY <2>1, <3>2, <4>1, <1>a DEF Live, TypeOK
    <3> QED
      BY <3>2 DEF OneRun
  <2>3. OneAbort' /\ AbortOfRun' /\ ListKept'
    BY <2>1, <1>a DEF OneAbort, AbortOfRun, ListKept, TypeOK
  <2>4. OneArm' /\ SessionsKept'
    BY <2>1, <1>a DEF OneArm, SessionsKept, ArmedHoldsSessions
  <2> QED
    BY <2>2, <2>3, <2>4 DEF InOrder
<1>2. CASE StopAll(k)
  <2>1. /\ aborting[k] # "none" /\ ~Live(awaited[k]) /\ show = "STOPPING" /\ UNCHANGED task
    BY <1>2, <1>a
       DEF StopAll, ReleaseOne, AbortRaises, AbortEnds, AbortIsOver, Stopped, OneAbort
  <2>2. \A n \in Runs : ~Live(n)
    BY <2>1, <1>a DEF AbortOfRun, OneRun
  <2>3. OneRun'
    BY <2>1, <2>2 DEF OneRun, Live
  <2>4. CASE \E rt \in Runtimes : ReleaseOne(k, rt)
    <3>1. /\ aborting' = [aborting EXCEPT ![k] = "releasing"] /\ UNCHANGED <<show, awaited>>
      BY <2>4 DEF ReleaseOne
    <3>2. \A rt \in left'[k] : session_ids'[rt] # 0
      <4>1. PICK rt \in Runtimes : ReleaseOne(k, rt)
        BY <2>4
      <4>2. left'[k] = Listed(k) \ {rt} /\ session_ids' = [session_ids EXCEPT ![rt] = 0]
        BY <4>1, <1>a DEF ReleaseOne, TypeOK
      <4>3. \A s \in Listed(k) : s \in Runtimes /\ session_ids[s] # 0
        BY <2>1, <1>a DEF Listed, ListKept, TypeOK
      <4> QED
        BY <4>2, <4>3, <1>a DEF TypeOK
    <3>3. OneAbort' /\ AbortOfRun'
      BY <2>1, <3>1, <1>a DEF OneAbort, AbortOfRun, TypeOK
    <3>4. ListKept'
      BY <2>1, <3>1, <3>2, <1>a DEF OneAbort, ListKept, TypeOK
    <3>5. OneAbort' /\ AbortOfRun' /\ ListKept'
      BY <3>3, <3>4
    <3>6. OneArm' /\ SessionsKept'
      BY <2>1, <3>1, <1>a DEF OneArm, SessionsKept, ArmedHoldsSessions
    <3> QED
      BY <2>3, <3>5, <3>6 DEF InOrder
  <2>5. CASE AbortEnds(k)
    <3>1. /\ aborting' = [aborting EXCEPT ![k] = "none"] /\ show' = "IDLE"
          /\ awaited' = [awaited EXCEPT ![k] = 0]
      BY <2>5 DEF AbortEnds, AbortIsOver
    <3>2. OneAbort' /\ AbortOfRun' /\ ListKept'
      BY <2>1, <3>1, <1>a DEF OneAbort, AbortOfRun, ListKept, TypeOK
    <3>3. OneArm' /\ SessionsKept'
      BY <2>1, <3>1, <1>a DEF OneArm, SessionsKept, ArmedHoldsSessions
    <3> QED
      BY <2>3, <3>2, <3>3 DEF InOrder
  <2>6. ~AbortRaises(k)
    BY <1>a DEF AbortRaises, Stopped, Listed, ListKept, TypeOK
  <2> QED
    BY <1>2, <2>4, <2>5, <2>6 DEF StopAll
<1> QED
  BY <1>1, <1>2

\* Every step keeps the controller in order, up to the one that overrules an abort.
LEMMA OrderStep == IInv /\ [Next]_vars => (overruled \/ InOrder)'
<1> SUFFICES ASSUME IInv, [Next]_vars PROVE overruled' \/ InOrder'
  OBVIOUS
<1>1. CASE overruled
  BY <1>1, ShowFrame
     DEF Start, Hold, Arm, Prepare, PrepareOne, PrepareFails, Abort, AbortBegins, StopAll, ReleaseOne,
         AbortRaises, AbortEnds, AbortIsOver, RunTask, SnapshotFails, CuesStart, CuesEnd, Close
<1>2. CASE InOrder
  <2>1. CASE UNCHANGED <<show, run, overruled, task, preparing, aborting, awaited, left, session_ids,
                         issued>>
    <3>1. \A n \in Runs : Raised(n) => Raised(n)'
      BY RaisedStays
    <3> QED
      BY <2>1, <3>1, <1>2
         DEF InOrder, OneRun, Live, OneArm, OneAbort, AbortOfRun, ListKept, SessionsKept,
             ArmedHoldsSessions
  <2> QED
    BY <2>1, <1>2, ShowFrame, ArmOrder, RunOrder, AbortOrder
<1> QED
  BY <1>1, <1>2 DEF IInv

-----------------------------------------------------------------------------
\* The Scheduler starts idle, with no session and no run.
LEMMA InitShow == Init => IInv
<1> SUFFICES ASSUME Init PROVE IInv
  OBVIOUS
<1>1. TypeOK
  <2>1. None \in Outcomes /\ 0 \in 0..MaxSessions /\ 0 \in 0..MaxRuns /\ 0 \in 0..MaxBreaks
    BY ShowBoundsAssumption DEF Outcomes
  <2> QED
    BY <2>1 DEF Init, Contract!Init, TypeOK, ShowStates
<1>2. RunningIsDriven /\ RunsCounted
  BY ShowBoundsAssumption DEF Init, RunningIsDriven, RunsCounted, Runs
<1>3. CuesKept
  BY DEF Init, Contract!Init, CuesKept, CueIs, Fresh
<1>4. OutcomeIsTrue /\ DependenciesFirst /\ QuietAfterRun
  BY NoneAssumption DEF Init, OutcomeIsTrue, DependenciesFirst, QuietAfterRun, Active
<1>5. InOrder
  BY DEF Init, InOrder, OneRun, Live, OneArm, OneAbort, AbortOfRun, ListKept, SessionsKept,
         ArmedHoldsSessions
<1> QED
  BY <1>1, <1>2, <1>3, <1>4, <1>5 DEF IInv

LEMMA ShowIsKept == Spec => []IInv
<1>1. IInv /\ [Next]_vars => IInv'
  BY TypeStep, RunStep, CueStep, TrueStep, FirstStep, QuietStep, OrderStep DEF IInv
<1> QED
  BY InitShow, <1>1, PTL DEF Spec

\* A Show that runs or is held is driven by the live run task that was started last,
\* whatever happens; and until a run task sets FAULTED over an abort, nothing else is live,
\* at most one arm or abort is under way, and from ARMED on the Scheduler holds the last
\* session of every Runtime (show_controller.py:62-110, runtime.py:77-145).
THEOREM ShowIsWhole == Spec => []ShowInv
<1>1. IInv => ShowInv
  BY DEF IInv, ShowInv, InOrder, SessionsKept
<1> QED
  BY <1>1, ShowIsKept, PTL

\* What the executor writes down of a cue is what the Runtime says, whichever of the answer
\* to the submission, the second question and the event came first
\* (timeline_executor.py _run_cue, _listen).
THEOREM OutcomesAreTrue == Spec => []OutcomeIsTrue
<1>1. IInv => OutcomeIsTrue
  BY DEF IInv
<1> QED
  BY <1>1, ShowIsKept, PTL

\* No request leaves the Scheduler before the dependencies of its cue have succeeded at
\* their Runtimes, in the same run (timeline_executor.py _run_cue).
THEOREM DependenciesComeFirst == Spec => []DependenciesFirst
<1>1. IInv => DependenciesFirst
  BY DEF IInv
<1> QED
  BY <1>1, ShowIsKept, PTL

\* A run that ended well, or that an abort cancelled in time, leaves no coroutine that could
\* still submit (show_controller.py:101-110, timeline_executor.py:49-71).
THEOREM RunsLeaveNothing == Spec => []QuietAfterRun
<1>1. IInv => QuietAfterRun
  BY DEF IInv
<1> QED
  BY <1>1, ShowIsKept, PTL

\* A run task that ends without faulting its Show leaves every cue of its run confirmed as
\* succeeded by its Runtime, or skipped and never asked for (timeline_executor.py run,
\* show_controller.py:84-93), whatever other runs and aborts are under way.
THEOREM IdleMeansDone == Spec => SuccessMeansDone
<1> DEFINE Done ==
      \A n \in Runs :
        Live(n) /\ task'[n] = "ended" /\ show' \notin {"FAULTED", "STOPPING"} =>
          \A c \in Cues : Settled(<<n, c>>)
<1>1. IInv /\ [Next]_vars => [Done]_vars
  <2> SUFFICES ASSUME IInv, [Next]_vars, NEW n \in Runs, Live(n), task'[n] = "ended",
                      show' \notin {"FAULTED", "STOPPING"}, NEW c \in Cues
               PROVE  Settled(<<n, c>>)
    OBVIOUS
  <2>a. TypeOK /\ OutcomeIsTrue /\ <<n, c>> \in Firings
    BY DEF IInv, Firings
  <2>1. \A k \in 1..MaxAborts : ~Abort(k)
    BY DEF Abort, AbortBegins
  <2>2. task'[n] # task[n]
    BY DEF Live
  <2>3. ~Start
    BY <2>a, <2>2, ShowBoundsAssumption DEF Start, TypeOK, Runs
  <2>4. PICK m \in Runs : RunTask(m)
    BY <2>1, <2>2, <2>3, ShowFrame
       DEF Hold, Arm, Prepare, PrepareOne, PrepareFails, StopAll, ReleaseOne, AbortRaises,
           AbortEnds, AbortIsOver
  <2>5. m = n
    BY <2>2, <2>4, <2>a DEF RunTask, SnapshotFails, CuesStart, CuesEnd, Close, TaskTo, TypeOK
  <2>6. Close(n)
    BY <2>4, <2>5, <2>a DEF RunTask, SnapshotFails, CuesStart, CuesEnd, TaskTo, TypeOK
  <2>7. outcome[<<n, c>>] \in {"SUCCEEDED", "SKIPPED"}
    BY <2>6 DEF Close, Failures
  <2> QED
    BY <2>7, <2>a DEF OutcomeIsTrue, Settled
<1> QED
  BY <1>1, ShowIsKept, PTL DEF Spec, SuccessMeansDone

\* The Runtimes of a Show keep the contract that DeviceRuntime implements: a request is
\* answered once, and its answer stays.  The Scheduler is checked against no less than a
\* Runtime may do (device_runtime.py submit_command, ledger.py begin).
THEOREM RuntimesKeepContract == Spec => Contract!Spec
<1>1. Init => Contract!Init
  BY DEF Init
<1>2. [Next]_vars => [Contract!Next]_result
  <2> SUFFICES ASSUME [Next]_vars PROVE Contract!Next \/ UNCHANGED result
    OBVIOUS
  <2>1. ASSUME NEW f \in Firings, Receive(f) PROVE Contract!Next \/ UNCHANGED result
    BY <2>1 DEF Receive, Contract!Next
  <2>2. ASSUME NEW f \in Firings, Conclude(f) PROVE Contract!Next
    BY <2>2 DEF Conclude, Contract!Next
  <2> QED
    BY <2>1, <2>2, CueFrame DEF CuesStart, Abort, AbortBegins, StreamEnds, RunCue, Hear
<1> QED
  BY <1>1, <1>2, PTL DEF Spec, Contract!Spec

\* Every step of a Show is one of the protocol, or nothing that its watchers see: the run
\* task begins and ends its cues, and Runtimes and streams act, behind it.
LEMMA ProtocolStep == IInv /\ [Next]_vars => [Protocol!Next]_<<show, Driven, overruled>>
<1> SUFFICES ASSUME IInv, [Next]_vars
             PROVE  Protocol!Next \/ UNCHANGED <<show, Driven, overruled>>
  OBVIOUS
<1>a. /\ TypeOK /\ RunningIsDriven /\ (overruled \/ InOrder)
      /\ run \in Nat /\ (run # 0 => run \in Runs)
  BY ShowBoundsAssumption DEF IInv, TypeOK, Runs
<1>1. ASSUME NEW i \in 1..MaxArms, Arm(i) PROVE Protocol!Next
  BY <1>1 DEF Arm, Driven, Live, Protocol!Next, Protocol!Arm
<1>2. ASSUME NEW i \in 1..MaxArms, NEW rt \in Runtimes, PrepareOne(i, rt) \/ PrepareFails(i, rt)
      PROVE  Protocol!Next \/ UNCHANGED <<show, Driven, overruled>>
  <2>1. /\ show' \in {"ARMED", "IDLE", show} /\ UNCHANGED <<run, task, overruled>>
        /\ InOrder => show = "PREPARING"
    BY <1>2 DEF PrepareOne, PrepareFails, InOrder, OneArm
  <2> QED
    BY <2>1, <1>a DEF Driven, Live, Protocol!Next, Protocol!ArmEnds, Protocol!Unchecked
<1>3. CASE Start
  <2>1. /\ show = "ARMED" /\ show' = "RUNNING" /\ UNCHANGED overruled
        /\ run' \in Nat \ {0} /\ task'[run'] = "starting"
    BY <1>3, <1>a, ShowBoundsAssumption DEF Start, TypeOK, Runs
  <2>2. InOrder => ~Driven
    BY <2>1, <1>a DEF InOrder, OneRun, Driven
  <2> QED
    BY <2>1, <2>2, <1>a DEF Driven, Live, Protocol!Next, Protocol!Start
<1>4. CASE Hold
  BY <1>4 DEF Hold, Driven, Live, Protocol!Next, Protocol!Hold
<1>5. ASSUME NEW k \in 1..MaxAborts, Abort(k) PROVE Protocol!Next
  <2>1. /\ show \in {"RUNNING", "HOLDING", "FAULTED"} /\ show' = "STOPPING"
        /\ UNCHANGED <<run, overruled>>
        /\ \/ task' = [task EXCEPT ![run] = "ended"]
           \/ task' = [task EXCEPT ![run] = "closing"] /\ task[run] = "cues"
    BY <1>5 DEF Abort, AbortBegins, CanAbort, TaskTo
  <2>2. Driven' => Driven
    BY <2>1, <1>a DEF Driven, Live, TypeOK
  <2> QED
    BY <2>1, <2>2 DEF Protocol!Next, Protocol!Abort
<1>6. ASSUME NEW k \in 1..MaxAborts, StopAll(k)
      PROVE  Protocol!Next \/ UNCHANGED <<show, Driven, overruled>>
  <2>1. /\ show' \in {show, "IDLE"} /\ UNCHANGED <<run, task, overruled>>
        /\ aborting[k] # "none" /\ ~Live(awaited[k])
    BY <1>6 DEF StopAll, ReleaseOne, AbortRaises, AbortEnds, AbortIsOver, Stopped
  <2>2. InOrder => show = "STOPPING" /\ ~Driven
    BY <2>1 DEF InOrder, OneAbort, AbortOfRun, Driven
  <2> QED
    BY <2>1, <2>2, <1>a DEF Driven, Live, Protocol!Next, Protocol!AbortEnds, Protocol!Unchecked
<1>7. ASSUME NEW n \in Runs, CuesStart(n) \/ CuesEnd(n)
      PROVE  UNCHANGED <<show, Driven, overruled>>
  <2>1. /\ \E to \in {"cues", "closing"} : task' = [task EXCEPT ![n] = to]
        /\ Live(n) /\ UNCHANGED <<show, run, overruled>>
    BY <1>7 DEF CuesStart, CuesEnd, TaskTo, Live
  <2> QED
    BY <2>1, <1>a DEF Driven, Live, TypeOK
<1>8. ASSUME NEW n \in Runs, SnapshotFails(n) \/ Close(n)
      PROVE  Protocol!Next \/ UNCHANGED <<show, Driven, overruled>>
  <2>1. /\ task' = [task EXCEPT ![n] = "ended"] /\ UNCHANGED run /\ Live(n)
        /\ show' \in {show, "IDLE", "FAULTED"}
        /\ show \in {"RUNNING", "HOLDING"} => show' \in {"IDLE", "FAULTED"}
        /\ show \notin {"RUNNING", "HOLDING"} => show' \in {show, "FAULTED"}
        /\ task[n] = "closing" =>
             overruled' = (overruled \/ (show = "STOPPING" /\ show' = "FAULTED"))
        /\ task[n] # "closing" => UNCHANGED overruled
    BY <1>8 DEF SnapshotFails, Close, TaskTo, Live
  <2>2. Driven' => Driven
    BY <2>1, <1>a DEF Driven, Live, TypeOK
  <2>3. CASE overruled
    <3>1. UNCHANGED overruled
      BY <2>1, <2>3, <1>a DEF TypeOK
    <3> QED
      BY <2>1, <2>2, <2>3, <3>1 DEF Protocol!Next, Protocol!Unchecked
  <2>4. CASE ~overruled
    <3>1. /\ n = run /\ Driven
          /\ show \in {"RUNNING", "HOLDING"} \/ (show = "STOPPING" /\ task[n] = "closing")
      BY <2>1, <2>4, <1>a, ShowBoundsAssumption DEF InOrder, OneRun, Driven, Runs
    <3>2. ~Driven'
      BY <2>1, <3>1, <1>a DEF Driven, Live, TypeOK
    <3>3. CASE show \in {"RUNNING", "HOLDING"}
      <4>1. UNCHANGED overruled
        BY <2>1, <2>4, <3>3, <1>a DEF TypeOK
      <4> QED
        BY <2>1, <3>1, <3>2, <3>3, <4>1 DEF Protocol!Next, Protocol!RunEnds
    <3>4. CASE show = "STOPPING" /\ task[n] = "closing"
      <4>1. UNCHANGED <<show, overruled>> \/ (show' = "FAULTED" /\ overruled')
        BY <2>1, <2>4, <3>4, <1>a DEF TypeOK
      <4> QED
        BY <3>1, <3>2, <3>4, <4>1 DEF Protocol!Next, Protocol!RunCancelled
    <3> QED
      BY <3>1, <3>3, <3>4
  <2> QED
    BY <2>3, <2>4
<1>9. CASE UNCHANGED <<show, run, task, overruled>>
  BY <1>9 DEF Driven, Live
<1> QED
  BY <1>1, <1>2, <1>3, <1>4, <1>5, <1>6, <1>7, <1>8, <1>9, ShowFrame DEF Prepare, RunTask

\* With all that a Show does at its Runtimes, it implements the protocol of its controller:
\* no run beside another and none left behind by an abort, until a run task sets FAULTED
\* over an abort, and from then on what arm, start, hold and abort check before they act
\* (show_controller.py:62-110).
THEOREM ShowKeepsProtocol == Spec => KeepsProtocol
<1>1. Init => Protocol!Init
  BY DEF Init, Driven, Protocol!Init
<1> QED
  BY <1>1, ProtocolStep, ShowIsKept, PTL DEF Spec, KeepsProtocol, Protocol!Spec, Protocol!vars
=============================================================================
