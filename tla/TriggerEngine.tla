---------------------------- MODULE TriggerEngine ----------------------------
(***************************************************************************)
(* Inputs that start, hold and abort a Show: the TriggerEngine             *)
(* (core/trigger_engine.py) in front of the ShowController                 *)
(* (core/show_controller.py), with a window beside them                    *)
(* (ui/scheduler_window.py).                                               *)
(*                                                                         *)
(* Arming, aborting and the run task are coroutines: each is shown by its  *)
(* first and its last step, and sets the state of the Show at its end,     *)
(* whatever it is by then (ShowRun has what is between).  A handler runs   *)
(* through the triggers without a pause, so nothing else happens in the    *)
(* loop meanwhile -- unless a trigger aborts, and the handler waits.  The  *)
(* window calls hold() from its own thread, between any two steps of the   *)
(* loop (SpecWithWindow).  Times are multiples of a unit in which windows  *)
(* are given.                                                              *)
(***************************************************************************)
EXTENDS Integers, Sequences, FiniteSets

CONSTANTS
  Triggers,     \* the registered triggers, in order
  Events,       \* inputs: source, type, value
  AnySource,    \* TriggerCondition.source is None
  MaxTime,      \* bound of the clock
  MaxInputs,    \* bound of the number of inputs
  MaxArms,      \* bound of the number of armings
  MaxHands,     \* bound of the number of people who abort by hand at once
  None          \* no time yet; no handler

ShowStates == {"IDLE", "PREPARING", "ARMED", "RUNNING", "HOLDING", "STOPPING", "FAULTED"}
Ids == DOMAIN Triggers

ASSUME TriggersAssumption ==
  /\ Triggers \in Seq({Triggers[t] : t \in Ids})
  /\ \A t \in Ids :
       /\ Triggers[t].action \in {"start", "hold", "abort"}
       /\ Triggers[t].show_states \subseteq ShowStates
       /\ Triggers[t].debounce \in Nat /\ Triggers[t].cooldown \in Nat
ASSUME TriggerBoundsAssumption ==
  MaxTime \in Nat /\ MaxInputs \in Nat /\ MaxArms \in Nat /\ MaxHands \in Nat

VARIABLES
  show,          \* ShowController.state
  overruled,     \* history: a run task has set FAULTED over STOPPING
  live,          \* the run tasks that are not done, by the number of their run
  cancelled,     \* those of them that an abort has cancelled
  preparing,     \* how many coroutines are in arm
  aborts,        \* those in abort: a handler's or a person's, and the run it waits for
  arms, runs,    \* how often the Show was armed and started; _run_task is that of the last run
  now,           \* the clock
  inputs,        \* tasks of the loop that have not begun: events, in order
  received,      \* how many inputs there were
  handler,       \* the handler that has the loop, or None
  last_matched,  \* TriggerEngine._last_matched_at
  last_fired,    \* TriggerEngine._last_fired_at
  matched,       \* history: the latest match of each trigger
  fired,         \* history: the latest firing of each trigger
  window         \* where the window's hold() is: idle, tested

showVars   == <<show, overruled, live, cancelled, preparing, aborts, arms, runs>>
inputVars  == <<inputs, received>>
engineVars == <<last_matched, last_fired, matched, fired>>
vars == <<showVars, now, inputVars, handler, engineVars, window>>

-----------------------------------------------------------------------------
\* The Show.  Loop actions need the loop; a handler has it until it waits.

LoopIsFree == handler = None

\* Who aborts by hand, beside the handlers.
Hands == [at : {0}, hand : 1..MaxHands]

ArmStart ==
  /\ LoopIsFree
  /\ show = "IDLE" /\ arms + preparing < MaxArms
  /\ show' = "PREPARING"
  /\ preparing' = preparing + 1
  /\ UNCHANGED <<overruled, live, cancelled, aborts, arms, runs>>

ArmEnds ==
  /\ LoopIsFree
  /\ preparing > 0
  /\ preparing' = preparing - 1
  /\ \/ show' = "ARMED" /\ arms' = arms + 1
     \/ show' = "IDLE" /\ UNCHANGED arms
  /\ UNCHANGED <<overruled, live, cancelled, aborts, runs>>

StartAllowed == show = "ARMED"

Start ==
  /\ runs' = runs + 1
  /\ show' = "RUNNING"
  /\ live' = live \cup {runs'}
  /\ UNCHANGED <<overruled, cancelled, preparing, aborts, arms>>

Hold ==
  /\ show' = "HOLDING"
  /\ UNCHANGED <<overruled, live, cancelled, preparing, aborts, arms, runs>>

\* (mutant of AbortAllowed: an abort may be asked for twice)
AbortAnything == show # "IDLE"

AbortAllowed == show \in {"RUNNING", "HOLDING", "FAULTED"}

\* (mutant of Abort: the state is set when the abort is over, not when it begins)
AbortUnannounced(who) ==
  /\ cancelled' = cancelled \cup (live \cap {runs})
  /\ aborts' = aborts \cup {[by |-> who, run |-> runs]}
  /\ UNCHANGED <<show, overruled, live, preparing, arms, runs>>

\* The first half of abort, up to its first await.
Abort(who) ==
  /\ show' = "STOPPING"
  /\ cancelled' = cancelled \cup (live \cap {runs})
  /\ aborts' = aborts \cup {[by |-> who, run |-> runs]}
  /\ UNCHANGED <<overruled, live, preparing, arms, runs>>

\* The second half, when the run task is over and everything is stopped.
AbortIsOver(a) ==
  /\ LoopIsFree
  /\ a.run \notin live
  /\ aborts' = aborts \ {a}
  /\ UNCHANGED <<overruled, live, cancelled, preparing, arms, runs>>

AbortEnds(a) == AbortIsOver(a) /\ show' = "IDLE"

\* Where aborts can be side by side, any of them may find its sessions gone (see ShowRun).
AbortRaises(a) == AbortIsOver(a) /\ overruled /\ UNCHANGED show

\* _drive: cancelled, completed, or failed.  A run task that was cancelled may end with the
\* exception of a cue all the same (see Abort of ShowRun).
RunEnds(n) ==
  /\ LoopIsFree
  /\ live' = live \ {n}
  /\ cancelled' = cancelled \ {n}
  /\ \/ n \in cancelled /\ UNCHANGED show
     \/ n \notin cancelled /\ show' = IF show \in {"RUNNING", "HOLDING"} THEN "IDLE" ELSE show
     \/ show' = "FAULTED"
  /\ overruled' = (overruled \/ (show = "STOPPING" /\ show' = "FAULTED"))
  /\ UNCHANGED <<preparing, aborts, arms, runs>>

-----------------------------------------------------------------------------
\* condition_matches.  A value is <<"number", n>>, <<"boolean", 0 or 1>>, the text of a
\* number <<"numeral", n>> or another text <<"text", s>>.

\* float() takes all but the last.
Numeric(v) == v[1] # "text"

\* Python compares numbers and booleans by value, and neither with a text.
Same(a, b) == a[2] = b[2] /\ (a[1] = b[1] \/ {a[1], b[1]} = {"number", "boolean"})

Compares(comparator, a, b) ==
  CASE comparator = "eq"  -> Same(a, b)
    [] comparator = "ne"  -> ~Same(a, b)
    [] comparator = "gt"  -> Numeric(a) /\ Numeric(b) /\ a[2] > b[2]
    [] comparator = "gte" -> Numeric(a) /\ Numeric(b) /\ a[2] >= b[2]
    [] comparator = "lt"  -> Numeric(a) /\ Numeric(b) /\ a[2] < b[2]
    [] comparator = "lte" -> Numeric(a) /\ Numeric(b) /\ a[2] <= b[2]

Matches(t, e) ==
  LET c == Triggers[t]
  IN  /\ c.source \in {AnySource, e.source}
      /\ c.type = e.type
      /\ Compares(c.comparator, e.value, c.value)

-----------------------------------------------------------------------------
\* TriggerEngine.handle.

\* An endpoint or a button has an event; its handler is a task of the loop.
Receive(e) ==
  /\ received < MaxInputs
  /\ received' = received + 1
  /\ inputs' = Append(inputs, e)
  /\ UNCHANGED <<showVars, now, handler, engineVars, window>>

HandleBegins ==
  /\ LoopIsFree /\ inputs # <<>>
  /\ handler' = [event |-> Head(inputs), now |-> now, at |-> 1,
                 id |-> received - Len(inputs)]
  /\ inputs' = Tail(inputs)
  /\ UNCHANGED <<showVars, now, received, engineVars, window>>

HandleEnds ==
  /\ handler # None
  /\ handler.at > Len(Triggers)
  /\ handler' = None
  /\ UNCHANGED <<showVars, now, inputVars, engineVars, window>>

Within(last, moment, width) == last # None /\ moment - last < width

NextTrigger == handler' = [handler EXCEPT !.at = @ + 1]

Later(a, b) == IF a # None /\ a > b THEN a ELSE b

Match(t) ==
  /\ last_matched' = [last_matched EXCEPT ![t] = handler.now]
  /\ matched' = [matched EXCEPT ![t] = Later(@, handler.now)]

\* (mutant of Quiet: the debounce window is not applied)
QuietNever(t) == FALSE

Quiet(t) == Within(last_matched[t], handler.now, Triggers[t].debounce)

\* (mutant of Cooling: the other window)
CoolingDebounced(t) == Within(last_fired[t], handler.now, Triggers[t].debounce)

Cooling(t) == Within(last_fired[t], handler.now, Triggers[t].cooldown)

Eligible(t) ==
  /\ Matches(t, handler.event) /\ ~Quiet(t)
  /\ show \in Triggers[t].show_states
  /\ ~Cooling(t)

Allowed(t) ==
  CASE Triggers[t].action = "start" -> StartAllowed
    [] Triggers[t].action = "hold"  -> show = "RUNNING"
    [] Triggers[t].action = "abort" -> AbortAllowed

Fires(t, moment) ==
  /\ last_fired' = [last_fired EXCEPT ![t] = moment]
  /\ fired' = [fired EXCEPT ![t] = Later(@, moment)]

\* (mutant of ConsiderInVain: an action that raises ends the handler)
ConsiderNoFurther ==
  /\ handler # None /\ handler.at \in Ids
  /\ LET t == handler.at
     IN  /\ ~(Eligible(t) /\ Allowed(t))
         /\ IF Matches(t, handler.event) THEN Match(t) ELSE UNCHANGED <<last_matched, matched>>
         /\ handler' = IF Eligible(t) THEN None ELSE [handler EXCEPT !.at = @ + 1]
  /\ UNCHANGED <<showVars, now, inputVars, last_fired, fired, window>>

\* The trigger does not match, is suppressed, or its action raises; a match is
\* remembered all the same.
ConsiderInVain ==
  /\ handler # None /\ handler.at \in Ids
  /\ LET t == handler.at
     IN  /\ ~(Eligible(t) /\ Allowed(t))
         /\ IF Matches(t, handler.event) THEN Match(t) ELSE UNCHANGED <<last_matched, matched>>
  /\ NextTrigger
  /\ UNCHANGED <<showVars, now, inputVars, last_fired, fired, window>>

ConsiderAndAct ==
  /\ handler # None /\ handler.at \in Ids
  /\ LET t == handler.at
     IN  /\ Eligible(t) /\ Allowed(t)
         /\ \/ Triggers[t].action = "start" /\ Start
            \/ Triggers[t].action = "hold" /\ Hold
         /\ Match(t) /\ Fires(t, handler.now)
  /\ NextTrigger
  /\ UNCHANGED <<now, inputVars, window>>

\* The handler waits for the abort and gives the loop away.
ConsiderAndAbort ==
  /\ handler # None /\ handler.at \in Ids
  /\ LET t == handler.at
     IN  /\ Eligible(t) /\ Allowed(t)
         /\ Triggers[t].action = "abort"
         /\ Abort(handler)
         /\ Match(t)
  /\ handler' = None
  /\ UNCHANGED <<now, inputVars, last_fired, fired, window>>

\* It goes on, with the time it had read when it began.  An abort that raised is not a
\* firing.
Resume(a) ==
  /\ a.by.at # 0
  /\ \/ AbortEnds(a) /\ Fires(a.by.at, a.by.now)
     \/ AbortRaises(a) /\ UNCHANGED <<last_fired, fired>>
  /\ handler' = [a.by EXCEPT !.at = @ + 1]
  /\ UNCHANGED <<now, inputVars, last_matched, matched, window>>

-----------------------------------------------------------------------------
\* Whoever arms and aborts by hand, and the window's hold button.

Others == UNCHANGED <<now, inputVars, handler, engineVars, window>>

AbortByHand ==
  /\ LoopIsFree /\ AbortAllowed
  /\ \E who \in Hands : (\A a \in aborts : a.by # who) /\ Abort(who)

Operator == (ArmStart \/ AbortByHand) /\ Others

AbortOfHandEnds(a) == a.by.at = 0 /\ (AbortEnds(a) \/ AbortRaises(a))

Concludes == (ArmEnds \/ \E a \in aborts : AbortOfHandEnds(a)) /\ Others

RunTaskEnds(n) == RunEnds(n) /\ Others

\* hold() on the window's thread: the test of the state, the flag, the state.
WindowHold ==
  /\ \/ window = "idle" /\ show = "RUNNING" /\ window' = "tested" /\ UNCHANGED showVars
     \/ window = "tested" /\ window' = "idle" /\ Hold
  /\ UNCHANGED <<now, inputVars, handler, engineVars>>

Tick ==
  /\ now < MaxTime
  /\ now' = now + 1
  /\ UNCHANGED <<showVars, inputVars, handler, engineVars, window>>

Init ==
  /\ show = "IDLE" /\ overruled = FALSE
  /\ live = {} /\ cancelled = {} /\ preparing = 0 /\ aborts = {}
  /\ arms = 0 /\ runs = 0 /\ now = 0
  /\ inputs = <<>> /\ received = 0 /\ handler = None
  /\ last_matched = [t \in Ids |-> None] /\ last_fired = [t \in Ids |-> None]
  /\ matched = [t \in Ids |-> None] /\ fired = [t \in Ids |-> None]
  /\ window = "idle"

Handle == HandleBegins \/ HandleEnds \/ ConsiderInVain \/ ConsiderAndAct \/ ConsiderAndAbort

Next ==
  \/ \E e \in Events : Receive(e)
  \/ Handle
  \/ \E a \in aborts : Resume(a)
  \/ Operator \/ Concludes
  \/ \E n \in live : RunTaskEnds(n)
  \/ Tick

\* Tasks of the loop run, a cancelled run task ends, and what arm and abort wait for
\* is bounded by HTTP timeouts.
Fairness ==
  /\ WF_vars(Handle)
  /\ WF_vars(\E a \in aborts : Resume(a))
  /\ WF_vars(Concludes)
  /\ WF_vars(\E n \in cancelled : RunTaskEnds(n))

Spec == Init /\ [][Next]_vars /\ Fairness

\* With the window open, and its button used.
NextWithWindow == Next \/ WindowHold

SpecWithWindow == Init /\ [][NextWithWindow]_vars /\ Fairness

-----------------------------------------------------------------------------
TypeOK ==
  /\ show \in ShowStates /\ overruled \in BOOLEAN
  /\ live \subseteq 1..runs /\ cancelled \subseteq live
  /\ preparing \in 0..MaxArms /\ arms \in 0..MaxArms /\ runs \in 0..MaxArms
  /\ now \in 0..MaxTime /\ received \in 0..MaxInputs
  /\ inputs \in Seq(Events)
  /\ handler # None => handler.event \in Events /\ handler.at \in 1..(Len(Triggers) + 1)
  /\ \A a \in aborts : a.run \in 1..runs /\ (a.by \in Hands \/ a.by.at \in Ids)
  /\ \A t \in Ids : {last_matched[t], last_fired[t], matched[t], fired[t]} \subseteq
                     (0..MaxTime) \cup {None}
  /\ window \in {"idle", "tested"}

\* However often and from wherever a start comes, a Show is run once per arming
\* (show_controller.py:1-4).
OneRunPerArming == runs <= arms

\* A Show that runs or is held has a run task that nobody has cancelled, through every
\* arming, abort and end of a run.  The window's hold() breaks this
\* (scheduler_window.py:151).
RunningIsDriven == show \in {"RUNNING", "HOLDING"} => runs \in live \ cancelled

\* Two aborts never run side by side -- the second stop_all would pop the sessions of the
\* first from under it (apps/scheduler/runtime.py:139) -- and no run beside another, until
\* a run task sets FAULTED over an abort (show_controller.py:91-93).
OneAtATime == overruled \/ (Cardinality(aborts) <= 1 /\ live \subseteq {runs})

\* No input, and no number of handlers at once, brings the Show where the buttons
\* alone could not: not into a second run, a second abort or a run without a task.
TriggerInv == TypeOK /\ OneRunPerArming /\ OneAtATime /\ RunningIsDriven

\* No registered trigger before i may make its handler wait.
NoAbortBefore(i) == \A s \in Ids : s < i => Triggers[s].action # "abort"

\* Within the debounce window of the latest input that matched a trigger, the trigger
\* does not start, hold or abort the Show, however many handlers there are
\* (trigger_engine.py:47-51).  Of a trigger behind an abort this cannot be said: a
\* handler that waited writes its old time over that of a later match.
DebounceIsQuiet ==
  [][handler # None /\ show' # show /\ NoAbortBefore(handler.at) =>
       ~Within(matched[handler.at], handler.now, Triggers[handler.at].debounce)]_vars

\* Two firings of a trigger are a cooldown apart, although an abort is only noted as fired
\* when it has ended (trigger_engine.py:59-61, 75): no other passes its test meanwhile,
\* until a run task sets FAULTED over an abort.
CooldownHolds ==
  [][~overruled =>
       \A t \in Ids :
         last_fired'[t] # last_fired[t] =>
           ~Within(fired[t], last_fired'[t], Triggers[t].cooldown)]_vars

\* An input for which an abort is registered without windows and states ends the
\* run, whatever other triggers it meets before and whatever they raise
\* (trigger_engine.py:63-73).
AlwaysAborts(e) ==
  \E t \in Ids :
    /\ Matches(t, e) /\ Triggers[t].action = "abort" /\ Triggers[t].show_states = ShowStates
    /\ Triggers[t].debounce = 0 /\ Triggers[t].cooldown = 0

AbortInputEndsRun ==
  \A e \in {f \in Events : AlwaysAborts(f)} :
    (\E i \in DOMAIN inputs : inputs[i] = e) ~> (show \notin {"RUNNING", "HOLDING"})

-----------------------------------------------------------------------------
\* The Show as its watchers see it.
Protocol == INSTANCE ShowProtocol WITH state <- show, driven <- runs \in live

\* Whatever inputs, handlers and people do to a Show, and in whichever order, it goes
\* through its states as the controller promises: a run is only started when the task of
\* the one before is over, also after an abort that others overtook -- until a run task
\* sets FAULTED over an abort (show_controller.py:62-110, trigger_engine.py:63-73).
KeepsProtocol == Protocol!Spec
=============================================================================
