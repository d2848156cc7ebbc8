-------------------------- MODULE TriggerEngineProofs --------------------------
(***************************************************************************)
(* Theorems about TriggerEngine, for every list of triggers and every      *)
(* value of its bounds.                                                    *)
(***************************************************************************)
EXTENDS TriggerEngine, FiniteSetTheorems, TLAPS

USE DEF showVars, inputVars, engineVars

Handlers == [event : Events, now : 0..MaxTime, at : 1..(Len(Triggers) + 1), id : Int]
Times == (0..MaxTime) \cup {None}

\* TypeOK, and what a handler, an abort and the tables of times are made of.
ShowTyped ==
  /\ show \in ShowStates /\ overruled \in BOOLEAN
  /\ live \subseteq 1..runs /\ cancelled \subseteq live
  /\ preparing \in 0..MaxArms /\ arms \in 0..MaxArms /\ runs \in 0..MaxArms
  /\ \A a \in aborts :
       /\ a.run \in 1..runs
       /\ a.by \in Hands \/ (a.by \in Handlers /\ a.by.at \in Ids)

InputsTyped ==
  /\ now \in 0..MaxTime /\ received \in 0..MaxInputs /\ inputs \in Seq(Events)
  /\ handler \in Handlers \cup {None}
  /\ window \in {"idle", "tested"}

TablesTyped ==
  /\ last_matched \in [Ids -> Times] /\ last_fired \in [Ids -> Times]
  /\ matched \in [Ids -> Times] /\ fired \in [Ids -> Times]

EngineTyped == ShowTyped /\ InputsTyped /\ TablesTyped

\* A Show is armed and run so often, and who runs it is there.
RunsCounted ==
  /\ arms + preparing <= MaxArms
  /\ runs <= arms
  /\ show = "ARMED" => runs < arms
  /\ show = "FAULTED" => runs > 0

\* Which coroutines there are by the state of the Show: one arm, one abort, and one run
\* task, that of the last run.
InOrder ==
  /\ preparing = IF show = "PREPARING" THEN 1 ELSE 0
  /\ \A n \in live : n = runs /\ (show \in {"RUNNING", "HOLDING"} \/ n \in cancelled)
  /\ \A n \in cancelled : show = "STOPPING"
  /\ show = "STOPPING" => aborts # {}
  /\ \A a \in aborts : show = "STOPPING" /\ a.run = runs
  /\ \A a, b \in aborts : a = b

\* The order is lost when a run task sets FAULTED over an abort; the rest never is.
ShowControlled == RunsCounted /\ RunningIsDriven /\ (overruled \/ InOrder)

\* A handler that waits for an abort waits at its trigger.
WaitersAbort == \A a \in aborts : a.by \in Handlers => Triggers[a.by.at].action = "abort"

IInvShow == EngineTyped /\ ShowControlled /\ WaitersAbort

NotAfter(times, moment) == \A t \in Ids : times[t] # None => times[t] <= moment

\* A handler that has not waited is not older than any match.
MatchesKept ==
  /\ \A t \in Ids : NoAbortBefore(t) => last_matched[t] = matched[t]
  /\ NotAfter(matched, now)
  /\ handler # None /\ NoAbortBefore(handler.at) => NotAfter(matched, handler.now)

\* A handler that may fire is not older than any firing, and one that waits will not be.
FiringsKept ==
  /\ last_fired = fired
  /\ handler # None /\ show # "IDLE" => NotAfter(fired, handler.now)
  /\ \A a \in aborts : a.by \in Handlers =>
       /\ NotAfter(fired, a.by.now)
       /\ ~Within(fired[a.by.at], a.by.now, Triggers[a.by.at].cooldown)

TimesKept ==
  /\ MatchesKept
  /\ NotAfter(fired, now)
  /\ handler # None => handler.now <= now
  /\ \A a \in aborts : a.by \in Handlers => a.by.now <= now
  /\ overruled \/ FiringsKept

IInv == IInvShow /\ TimesKept

-----------------------------------------------------------------------------
\* The triggers are a sequence, so that a handler that has passed one of them is at the
\* next or past the last.
LEMMA IdsAre == Len(Triggers) \in Nat /\ Ids = 1..Len(Triggers)
BY TriggersAssumption DEF Ids

\* Noting a time for a trigger, or the later of two, leaves a table of times.
LEMMA NotedTimes ==
  ASSUME NEW table \in [Ids -> Times], NEW t \in Ids, NEW moment \in 0..MaxTime
  PROVE  /\ [table EXCEPT ![t] = moment] \in [Ids -> Times]
         /\ [table EXCEPT ![t] = Later(@, moment)] \in [Ids -> Times]
<1>1. table[t] \in Times /\ moment \in Times /\ Later(table[t], moment) \in Times
  BY DEF Times, Later
<1> QED
  BY <1>1

\* A match leaves both tables of matches what they are.
LEMMA MatchTyped ==
  ASSUME EngineTyped, handler # None, NEW t \in Ids, Match(t)
  PROVE  last_matched' \in [Ids -> Times] /\ matched' \in [Ids -> Times]
<1>1. handler.now \in 0..MaxTime
  BY DEF EngineTyped, InputsTyped, Handlers
<1> QED
  BY <1>1, NotedTimes DEF EngineTyped, TablesTyped, Match

\* A firing leaves both tables of firings what they are.
LEMMA FiresTyped ==
  ASSUME EngineTyped, NEW t \in Ids, NEW moment \in 0..MaxTime, Fires(t, moment)
  PROVE  last_fired' \in [Ids -> Times] /\ fired' \in [Ids -> Times]
BY NotedTimes DEF EngineTyped, TablesTyped, Fires

\* A handler that has done with one trigger is at the next, or past the last.
LEMMA NextTriggerTyped ==
  ASSUME NEW h \in Handlers, h.at \in Ids
  PROVE  /\ [h EXCEPT !.at = @ + 1] \in Handlers
         /\ [h EXCEPT !.at = @ + 1].at = h.at + 1
         /\ [h EXCEPT !.at = @ + 1].now = h.now
         /\ h.at + 1 \in 1..(Len(Triggers) + 1)
BY IdsAre DEF Handlers

\* People are not handlers: they have no trigger.
LEMMA HandsAreNoHandlers ==
  /\ \A who \in Hands : who.at = 0 /\ who \notin Handlers
  /\ \A h \in Handlers : h.at # 0
BY IdsAre DEF Hands, Handlers

LEMMA ShowInit == Init => IInvShow
<1> SUFFICES ASSUME Init PROVE IInvShow
  OBVIOUS
<1>1. ShowTyped
  <2>1. /\ show = "IDLE" /\ overruled = FALSE /\ live = {} /\ cancelled = {}
        /\ preparing = 0 /\ aborts = {} /\ arms = 0 /\ runs = 0
    BY DEF Init
  <2>2. preparing \in 0..MaxArms /\ arms \in 0..MaxArms /\ runs \in 0..MaxArms
    BY <2>1, TriggerBoundsAssumption
  <2>3. show \in ShowStates /\ overruled \in BOOLEAN
    BY <2>1 DEF ShowStates
  <2>4. live \subseteq 1..runs /\ cancelled \subseteq live
    BY <2>1
  <2> QED
    BY <2>1, <2>2, <2>3, <2>4 DEF ShowTyped
<1>2. InputsTyped
  BY TriggerBoundsAssumption DEF Init, InputsTyped
<1>3. TablesTyped
  BY DEF Init, TablesTyped, Times
<1>4. ShowControlled /\ WaitersAbort
  BY TriggerBoundsAssumption DEF Init, ShowControlled, RunsCounted, RunningIsDriven, InOrder, WaitersAbort
<1> QED
  BY <1>1, <1>2, <1>3, <1>4 DEF IInvShow, EngineTyped

\* What is typed is what TypeOK says.
LEMMA TypedIsOK == EngineTyped => TypeOK
<1> SUFFICES ASSUME EngineTyped PROVE TypeOK
  OBVIOUS
<1>1. handler # None => handler.event \in Events /\ handler.at \in 1..(Len(Triggers) + 1)
  BY DEF EngineTyped, InputsTyped, Handlers
<1>2. \A t \in Ids : {last_matched[t], last_fired[t], matched[t], fired[t]} \subseteq Times
  BY DEF EngineTyped, TablesTyped
<1> QED
  BY <1>1, <1>2 DEF EngineTyped, ShowTyped, InputsTyped, TypeOK, Times

-----------------------------------------------------------------------------
\* What each operation on the Show keeps.
Kept == ShowTyped /\ ShowControlled /\ WaitersAbort

LEMMA ArmKeeps == Kept /\ (ArmStart \/ ArmEnds) => Kept'
<1> SUFFICES ASSUME Kept, ArmStart \/ ArmEnds PROVE Kept'
  OBVIOUS
<1>1. /\ preparing \in Nat /\ arms \in Nat /\ runs \in Nat
      /\ UNCHANGED <<overruled, live, cancelled, aborts, runs>>
  BY TriggerBoundsAssumption DEF Kept, ShowTyped, ArmStart, ArmEnds
<1>2. ShowTyped' /\ RunsCounted'
  BY <1>1, TriggerBoundsAssumption
     DEF Kept, ShowTyped, ShowStates, ShowControlled, RunsCounted, ArmStart, ArmEnds
<1>3. RunningIsDriven' /\ (overruled \/ InOrder)'
  BY <1>1 DEF Kept, ShowControlled, RunningIsDriven, InOrder, ArmStart, ArmEnds
<1> QED
  BY <1>1, <1>2, <1>3 DEF Kept, ShowControlled, WaitersAbort

LEMMA StartKeeps == Kept /\ StartAllowed /\ Start => Kept'
<1> SUFFICES ASSUME Kept, StartAllowed, Start PROVE Kept'
  OBVIOUS
<1>1. /\ preparing \in Nat /\ arms \in Nat /\ runs \in Nat
      /\ live \subseteq 1..runs /\ cancelled \subseteq live
      /\ show = "ARMED" /\ show' = "RUNNING" /\ runs' = runs + 1 /\ live' = live \cup {runs + 1}
      /\ UNCHANGED <<overruled, cancelled, preparing, aborts, arms>>
  BY TriggerBoundsAssumption DEF Kept, ShowTyped, StartAllowed, Start
<1>2. ShowTyped' /\ RunsCounted'
  BY <1>1, TriggerBoundsAssumption
     DEF Kept, ShowTyped, ShowStates, ShowControlled, RunsCounted
<1>3. RunningIsDriven' /\ (overruled \/ InOrder)'
  <2>1. runs' \in live' \ cancelled'
    BY <1>1
  <2>2. overruled \/ live = {}
    BY <1>1 DEF Kept, ShowControlled, InOrder
  <2> QED
    BY <1>1, <2>1, <2>2 DEF Kept, ShowControlled, RunningIsDriven, InOrder
<1> QED
  BY <1>1, <1>2, <1>3 DEF Kept, ShowControlled, WaitersAbort

LEMMA HoldKeeps == Kept /\ show = "RUNNING" /\ Hold => Kept'
<1> SUFFICES ASSUME Kept, show = "RUNNING", Hold PROVE Kept'
  OBVIOUS
<1>1. show' = "HOLDING" /\ UNCHANGED <<overruled, live, cancelled, preparing, aborts, arms, runs>>
  BY DEF Hold
<1>2. ShowTyped' /\ RunsCounted'
  BY <1>1 DEF Kept, ShowTyped, ShowStates, ShowControlled, RunsCounted
<1>3. RunningIsDriven' /\ (overruled \/ InOrder)'
  BY <1>1 DEF Kept, ShowControlled, RunningIsDriven, InOrder
<1> QED
  BY <1>1, <1>2, <1>3 DEF Kept, ShowControlled, WaitersAbort

LEMMA AbortKeeps ==
  ASSUME Kept, AbortAllowed, NEW who, Abort(who),
         who \in Hands \/ (who \in Handlers /\ who.at \in Ids
                            /\ Triggers[who.at].action = "abort")
  PROVE  Kept'
<1> DEFINE mine == [by |-> who, run |-> runs]
<1>1. /\ runs \in Nat /\ live \subseteq 1..runs /\ cancelled \subseteq live
      /\ show \in {"RUNNING", "HOLDING", "FAULTED"} /\ show' = "STOPPING"
      /\ cancelled' = cancelled \cup (live \cap {runs})
      /\ aborts' = aborts \cup {mine} /\ mine.by = who /\ mine.run = runs
      /\ UNCHANGED <<overruled, live, preparing, arms, runs>>
  BY TriggerBoundsAssumption DEF Kept, ShowTyped, AbortAllowed, Abort
<1>2. runs \in 1..runs
  BY <1>1 DEF Kept, ShowControlled, RunsCounted, RunningIsDriven
<1> HIDE DEF mine
<1>3. \A a \in aborts' :
        /\ a.run \in 1..runs'
        /\ a.by \in Hands \/ (a.by \in Handlers /\ a.by.at \in Ids)
  BY <1>1, <1>2 DEF Kept, ShowTyped
<1>4. ShowTyped' /\ RunsCounted'
  BY <1>1, <1>3 DEF Kept, ShowTyped, ShowStates, ShowControlled, RunsCounted
<1>5. ASSUME ~overruled PROVE InOrder'
  <2>1. InOrder /\ aborts = {}
    BY <1>1, <1>5 DEF Kept, ShowControlled, InOrder
  <2> QED
    BY <1>1, <2>1 DEF InOrder
<1>6. RunningIsDriven'
  BY <1>1 DEF RunningIsDriven
<1>7. WaitersAbort'
  BY <1>1, HandsAreNoHandlers DEF Kept, WaitersAbort
<1> QED
  BY <1>1, <1>4, <1>5, <1>6, <1>7 DEF Kept, ShowControlled

LEMMA AbortEndKeeps ==
  ASSUME Kept, NEW a \in aborts, AbortEnds(a) \/ AbortRaises(a)
  PROVE  Kept'
<1>1. /\ a.run \notin live /\ aborts' = aborts \ {a}
      /\ show' = "IDLE" \/ (overruled /\ show' = show)
      /\ UNCHANGED <<overruled, live, cancelled, preparing, arms, runs>>
  BY DEF AbortEnds, AbortRaises, AbortIsOver
<1>2. ShowTyped' /\ RunsCounted'
  BY <1>1 DEF Kept, ShowTyped, ShowStates, ShowControlled, RunsCounted
<1>3. RunningIsDriven'
  BY <1>1 DEF Kept, ShowControlled, RunningIsDriven
<1>4. ASSUME ~overruled PROVE InOrder'
  <2>1. InOrder /\ show' = "IDLE" /\ show = "STOPPING" /\ a.run = runs /\ aborts' = {}
    BY <1>1, <1>4 DEF Kept, ShowControlled, InOrder
  <2>2. live = {} /\ cancelled = {}
    BY <1>1, <2>1 DEF Kept, ShowTyped, InOrder
  <2> QED
    BY <1>1, <2>1, <2>2 DEF InOrder
<1> QED
  BY <1>1, <1>2, <1>3, <1>4 DEF Kept, ShowControlled, WaitersAbort

LEMMA RunEndKeeps ==
  ASSUME Kept, NEW n \in live, RunEnds(n)
  PROVE  Kept'
<1>1. /\ live' = live \ {n} /\ cancelled' = cancelled \ {n}
      /\ \/ n \in cancelled /\ show' = show
         \/ n \notin cancelled /\ show' = IF show \in {"RUNNING", "HOLDING"} THEN "IDLE" ELSE show
         \/ show' = "FAULTED"
      /\ overruled' = (overruled \/ (show = "STOPPING" /\ show' = "FAULTED"))
      /\ UNCHANGED <<preparing, aborts, arms, runs>>
  BY DEF RunEnds
<1>2. n \in 1..runs /\ runs \in Nat
  BY TriggerBoundsAssumption DEF Kept, ShowTyped
<1>3. ShowTyped' /\ RunsCounted'
  BY <1>1, <1>2 DEF Kept, ShowTyped, ShowStates, ShowControlled, RunsCounted
<1>4. RunningIsDriven'
  BY <1>1 DEF Kept, ShowControlled, RunningIsDriven
<1>5. ASSUME ~overruled' PROVE InOrder'
  <2>1. InOrder /\ ~overruled /\ n = runs /\ live' = {} /\ cancelled' = {}
    BY <1>1, <1>5 DEF Kept, ShowTyped, ShowControlled, InOrder
  <2>2. show \in {"RUNNING", "HOLDING"} \/ (n \in cancelled /\ show = "STOPPING" /\ show' = show)
    BY <1>1, <1>5, <2>1 DEF InOrder
  <2> QED
    BY <1>1, <2>1, <2>2 DEF InOrder
<1> QED
  BY <1>1, <1>3, <1>4, <1>5 DEF Kept, ShowControlled, WaitersAbort

\* Every step keeps the Show and the coroutines that work on it in agreement.
LEMMA ShowStep == IInvShow /\ [Next]_vars => Kept'
<1> SUFFICES ASSUME IInvShow, [Next]_vars PROVE Kept'
  OBVIOUS
<1>a. Kept /\ InputsTyped
  BY DEF Kept, IInvShow, EngineTyped
<1>1. CASE UNCHANGED showVars
  BY <1>1, <1>a
     DEF Kept, ShowTyped, ShowControlled, RunsCounted, RunningIsDriven, InOrder, WaitersAbort
<1>2. CASE ConsiderAndAct
  BY <1>2, <1>a, StartKeeps, HoldKeeps DEF ConsiderAndAct, Allowed
<1>3. CASE ConsiderAndAbort
  <2>1. /\ AbortAllowed /\ Abort(handler) /\ handler \in Handlers /\ handler.at \in Ids
        /\ Triggers[handler.at].action = "abort"
    BY <1>3, <1>a DEF ConsiderAndAbort, Allowed, InputsTyped
  <2> QED
    BY <2>1, <1>a, AbortKeeps
<1>4. ASSUME NEW a \in aborts, Resume(a) PROVE Kept'
  BY <1>4, <1>a, AbortEndKeeps DEF Resume
<1>5. CASE Operator
  <2>1. CASE AbortByHand
    <3>1. PICK who \in Hands : Abort(who)
      BY <2>1 DEF AbortByHand
    <3> QED
      BY <2>1, <3>1, <1>a, AbortKeeps DEF AbortByHand
  <2> QED
    BY <1>5, <2>1, <1>a, ArmKeeps DEF Operator
<1>6. CASE Concludes
  <2>1. ASSUME NEW a \in aborts, AbortOfHandEnds(a) PROVE Kept'
    BY <2>1, <1>a, AbortEndKeeps DEF AbortOfHandEnds
  <2> QED
    BY <1>6, <2>1, <1>a, ArmKeeps DEF Concludes
<1>7. ASSUME NEW n \in live, RunTaskEnds(n) PROVE Kept'
  BY <1>7, <1>a, RunEndKeeps DEF RunTaskEnds
<1> QED
  BY <1>1, <1>2, <1>3, <1>4, <1>5, <1>6, <1>7
     DEF Next, Handle, Receive, HandleBegins, HandleEnds, ConsiderInVain, Tick, vars

\* Every step keeps the types of the inputs, of the handler and of the tables.
LEMMA TypedStep == IInvShow /\ [Next]_vars => InputsTyped' /\ TablesTyped'
<1> SUFFICES ASSUME IInvShow, [Next]_vars PROVE InputsTyped' /\ TablesTyped'
  OBVIOUS
<1>a. EngineTyped /\ ShowTyped /\ InputsTyped /\ TablesTyped
  BY DEF IInvShow, EngineTyped
<1>1. ASSUME NEW e \in Events, Receive(e) PROVE InputsTyped' /\ TablesTyped'
  <2>1. inputs' \in Seq(Events) /\ received' \in 0..MaxInputs
    BY <1>1, <1>a, TriggerBoundsAssumption DEF Receive, InputsTyped
  <2> QED
    BY <1>1, <1>a, <2>1 DEF Receive, InputsTyped, TablesTyped
<1>2. CASE HandleBegins
  <2>1. inputs' \in Seq(Events) /\ Head(inputs) \in Events /\ Len(inputs) \in Nat
    BY <1>2, <1>a DEF HandleBegins, InputsTyped
  <2>2. handler' \in Handlers
    BY <1>2, <1>a, <2>1, IdsAre DEF HandleBegins, InputsTyped, Handlers
  <2> QED
    BY <1>2, <1>a, <2>1, <2>2 DEF HandleBegins, InputsTyped, TablesTyped
<1>3. CASE handler' \in {handler, None} /\ UNCHANGED <<now, inputVars, engineVars, window>>
  BY <1>3, <1>a DEF InputsTyped, TablesTyped
<1>4. CASE ConsiderInVain
  <2>1. handler \in Handlers /\ handler.at \in Ids /\ handler' \in Handlers
    BY <1>4, <1>a, NextTriggerTyped DEF ConsiderInVain, NextTrigger, InputsTyped
  <2>2. last_matched' \in [Ids -> Times] /\ matched' \in [Ids -> Times]
    <3>1. CASE Match(handler.at)
      BY <1>4, <1>a, <2>1, <3>1, MatchTyped DEF ConsiderInVain
    <3> QED
      BY <1>4, <1>a, <3>1 DEF ConsiderInVain, TablesTyped
  <2> QED
    BY <1>4, <1>a, <2>1, <2>2 DEF ConsiderInVain, InputsTyped, TablesTyped
<1>5. CASE ConsiderAndAct
  <2>1. /\ handler \in Handlers /\ handler.at \in Ids /\ handler' \in Handlers
        /\ handler.now \in 0..MaxTime
    BY <1>5, <1>a, NextTriggerTyped DEF ConsiderAndAct, NextTrigger, InputsTyped, Handlers
  <2>2. last_matched' \in [Ids -> Times] /\ matched' \in [Ids -> Times]
    BY <1>5, <1>a, <2>1, MatchTyped DEF ConsiderAndAct
  <2>3. last_fired' \in [Ids -> Times] /\ fired' \in [Ids -> Times]
    BY <1>5, <1>a, <2>1, FiresTyped DEF ConsiderAndAct
  <2> QED
    BY <1>5, <1>a, <2>1, <2>2, <2>3 DEF ConsiderAndAct, InputsTyped, TablesTyped
<1>6. CASE ConsiderAndAbort
  <2>1. last_matched' \in [Ids -> Times] /\ matched' \in [Ids -> Times]
    BY <1>6, <1>a, MatchTyped DEF ConsiderAndAbort
  <2> QED
    BY <1>6, <1>a, <2>1 DEF ConsiderAndAbort, InputsTyped, TablesTyped
<1>7. ASSUME NEW a \in aborts, Resume(a) PROVE InputsTyped' /\ TablesTyped'
  <2>1. a.by \in Handlers /\ a.by.at \in Ids /\ a.by.now \in 0..MaxTime
    BY <1>7, <1>a, HandsAreNoHandlers DEF Resume, ShowTyped, Handlers
  <2>2. handler' \in Handlers
    BY <1>7, <2>1, NextTriggerTyped DEF Resume
  <2>3. last_fired' \in [Ids -> Times] /\ fired' \in [Ids -> Times]
    BY <1>7, <1>a, <2>1, FiresTyped DEF Resume, TablesTyped
  <2> QED
    BY <1>7, <1>a, <2>2, <2>3 DEF Resume, InputsTyped, TablesTyped
<1>8. CASE Tick
  BY <1>8, <1>a, TriggerBoundsAssumption DEF Tick, InputsTyped, TablesTyped
<1> QED
  BY <1>1, <1>2, <1>3, <1>4, <1>5, <1>6, <1>7, <1>8
     DEF Next, Handle, HandleEnds, Operator, Concludes, RunTaskEnds, Others, vars

\* However armings, runs, aborts and handlers are interleaved, the state of the Show tells
\* which coroutines work on it, as long as no run task sets FAULTED over an abort; and
\* whatever happens, a Show that runs or is held has a run task that nobody has cancelled,
\* and is run once per arming (show_controller.py:62-110).
THEOREM ShowIsControlled == Spec => []IInvShow
<1>1. IInvShow /\ [Next]_vars => IInvShow'
  BY TypedStep, ShowStep DEF IInvShow, EngineTyped, Kept
<1> QED
  BY ShowInit, <1>1, PTL DEF Spec

\* No input, and no number of handlers at once, brings about a second run of one arming or
\* a Show that runs without a task; and none a second abort or run beside another, unless
\* a run task has set FAULTED over an abort (trigger_engine.py:42-75,
\* show_controller.py:75-110).
THEOREM TriggersAreHarmless == Spec => []TriggerInv
<1>1. IInvShow => TriggerInv
  <2> SUFFICES ASSUME IInvShow PROVE OneAtATime
    BY TypedIsOK
       DEF IInvShow, ShowControlled, RunsCounted, TriggerInv, OneRunPerArming
  <2>1. CASE overruled
    BY <2>1 DEF OneAtATime
  <2>2. CASE ~overruled /\ aborts = {}
    BY <2>2, FS_EmptySet DEF IInvShow, ShowControlled, InOrder, OneAtATime
  <2>3. CASE ~overruled /\ aborts # {}
    <3>1. PICK who \in aborts : TRUE
      BY <2>3
    <3>2. aborts = {who} /\ live \subseteq {runs}
      BY <2>3, <3>1 DEF IInvShow, ShowControlled, InOrder
    <3>3. Cardinality(aborts) = 1
      BY <3>2, FS_Singleton
    <3> QED
      BY <3>2, <3>3 DEF OneAtATime
  <2> QED
    BY <2>1, <2>2, <2>3
<1> QED
  BY <1>1, ShowIsControlled, PTL

\* Without the window, no Show runs or is held with nobody to end it
\* (show_controller.py:84-110).
THEOREM ShowIsDriven == Spec => []RunningIsDriven
<1>1. IInvShow => RunningIsDriven
  BY DEF IInvShow, ShowControlled
<1> QED
  BY <1>1, ShowIsControlled, PTL

-----------------------------------------------------------------------------
\* Noting a time that no noted one is after: the later of the two is the new one, and
\* nothing noted is after it.
LEMMA NotedIsLatest ==
  ASSUME NEW table \in [Ids -> Times], NEW t \in Ids, NEW moment \in 0..MaxTime,
         NotAfter(table, moment)
  PROVE  /\ [table EXCEPT ![t] = Later(@, moment)] = [table EXCEPT ![t] = moment]
         /\ NotAfter([table EXCEPT ![t] = moment], moment)
<1>1. Later(table[t], moment) = moment
  BY TriggerBoundsAssumption DEF NotAfter, Later, Times
<1> QED
  BY <1>1, TriggerBoundsAssumption DEF NotAfter

\* Noting a time of the past, or the later of it and the noted one, keeps a table in the
\* past.
LEMMA NotedIsPast ==
  ASSUME NEW table \in [Ids -> Times], NEW t \in Ids, NEW moment \in 0..MaxTime,
         NEW later \in 0..MaxTime, moment <= later, NotAfter(table, later)
  PROVE  NotAfter([table EXCEPT ![t] = Later(@, moment)], later)
<1>1. Later(table[t], moment) # None => Later(table[t], moment) <= later
  BY DEF NotAfter, Later
<1> QED
  BY <1>1 DEF NotAfter

\* What is after no earlier moment is after no later one.
LEMMA NotAfterLater ==
  ASSUME NEW table \in [Ids -> Times], NEW moment \in Nat, NEW later \in Nat,
         moment <= later, NotAfter(table, moment)
  PROVE  NotAfter(table, later)
<1> SUFFICES ASSUME NEW t \in Ids, table[t] # None PROVE table[t] <= later
  BY DEF NotAfter
<1>1. table[t] \in Nat /\ table[t] <= moment
  BY TriggerBoundsAssumption DEF NotAfter, Times
<1> QED
  BY <1>1

\* No trigger before the next one may abort only if none before this one may.
LEMMA NoAbortBeforeNext ==
  ASSUME NEW i \in Ids
  PROVE  NoAbortBefore(i + 1) <=> NoAbortBefore(i) /\ Triggers[i].action # "abort"
BY IdsAre DEF NoAbortBefore

\* A match by a handler: a table of the past stays in the past, and for a handler that
\* has not waited, the two tables of matches stay the same where they were.
LEMMA MatchKeepsTimes ==
  ASSUME EngineTyped, TimesKept, handler # None, handler.at \in Ids, Match(handler.at)
  PROVE  /\ \A t \in Ids : NoAbortBefore(t) => last_matched'[t] = matched'[t]
         /\ NotAfter(matched', now)
         /\ NoAbortBefore(handler.at) => NotAfter(matched', handler.now)
<1> DEFINE at == handler.at
           moment == handler.now
<1>1. /\ at \in Ids /\ moment \in 0..MaxTime /\ now \in 0..MaxTime /\ moment <= now
      /\ matched \in [Ids -> Times] /\ last_matched \in [Ids -> Times]
  BY DEF EngineTyped, InputsTyped, TablesTyped, Handlers, TimesKept
<1>2. /\ matched' = [matched EXCEPT ![at] = Later(@, moment)]
      /\ last_matched' = [last_matched EXCEPT ![at] = moment]
  BY DEF Match
<1>3. NotAfter(matched', now)
  BY <1>1, <1>2, NotedIsPast DEF TimesKept, MatchesKept
<1>4. ASSUME NoAbortBefore(at)
      PROVE  NotAfter(matched', moment) /\ matched' = [matched EXCEPT ![at] = moment]
  <2>1. NotAfter(matched, moment)
    BY <1>4 DEF TimesKept, MatchesKept
  <2>2. /\ [matched EXCEPT ![at] = Later(@, moment)] = [matched EXCEPT ![at] = moment]
        /\ NotAfter([matched EXCEPT ![at] = moment], moment)
    BY <1>1, <2>1, NotedIsLatest
  <2> QED
    BY <1>2, <2>2 DEF NotAfter
<1>5. ASSUME NEW t \in Ids, NoAbortBefore(t) PROVE last_matched'[t] = matched'[t]
  <2>1. CASE t = at
    BY <1>1, <1>2, <1>4, <1>5, <2>1
  <2>2. CASE t # at
    BY <1>1, <1>2, <1>5, <2>2 DEF TimesKept, MatchesKept
  <2> QED
    BY <2>1, <2>2
<1> QED
  BY <1>3, <1>4, <1>5

\* A firing at a moment of the past, be it the latest or not, is in the past; at a moment
\* that no firing is after, what is noted is the latest.
LEMMA FiresKeepsTimes ==
  ASSUME EngineTyped, TimesKept, NEW t \in Ids, NEW moment \in 0..MaxTime,
         moment <= now, Fires(t, moment)
  PROVE  /\ NotAfter(fired', now)
         /\ last_fired = fired /\ NotAfter(fired, moment) =>
              last_fired' = fired' /\ NotAfter(fired', moment)
<1>1. /\ fired \in [Ids -> Times] /\ now \in 0..MaxTime /\ NotAfter(fired, now)
      /\ fired' = [fired EXCEPT ![t] = Later(@, moment)]
      /\ last_fired' = [last_fired EXCEPT ![t] = moment]
  BY DEF EngineTyped, InputsTyped, TablesTyped, TimesKept, Fires
<1>2. NotAfter(fired', now)
  BY <1>1, NotedIsPast
<1>3. ASSUME last_fired = fired, NotAfter(fired, moment)
      PROVE  last_fired' = fired' /\ NotAfter(fired', moment)
  <2>1. /\ [fired EXCEPT ![t] = Later(@, moment)] = [fired EXCEPT ![t] = moment]
        /\ NotAfter([fired EXCEPT ![t] = moment], moment)
    BY <1>1, <1>3, NotedIsLatest
  <2> QED
    BY <1>1, <1>3, <2>1
<1> QED
  BY <1>2, <1>3

\* Steps that pass no trigger and note nothing keep the times in order, if they bring the
\* Show out of IDLE only while nobody has the loop.
LEMMA TimesFrame ==
  ASSUME IInv, UNCHANGED <<now, engineVars>>, handler' \in {handler, None},
         \A a \in aborts' : a \in aborts \/ a.by \notin Handlers,
         overruled => overruled',
         handler' = None \/ show' = show
  PROVE  TimesKept'
<1>1. MatchesKept'
  BY DEF IInv, TimesKept, MatchesKept, NotAfter
<1>2. ASSUME FiringsKept PROVE FiringsKept'
  BY <1>2 DEF FiringsKept, NotAfter, Within
<1> QED
  BY <1>1, <1>2 DEF IInv, TimesKept, NotAfter

\* Every step keeps the times of the handlers and those in the tables in order.
LEMMA TimesStep == IInv /\ [Next]_vars => TimesKept'
<1> SUFFICES ASSUME IInv, [Next]_vars PROVE TimesKept'
  OBVIOUS
<1>a. /\ EngineTyped /\ ShowControlled /\ WaitersAbort /\ TimesKept
      /\ now \in 0..MaxTime
      /\ matched \in [Ids -> Times] /\ fired \in [Ids -> Times]
      /\ handler # None => handler \in Handlers /\ handler.now \in 0..MaxTime
      /\ \A a \in aborts : a.by \in Handlers =>
           a.by.now \in 0..MaxTime /\ a.by.at \in Ids
  BY HandsAreNoHandlers
     DEF IInv, IInvShow, EngineTyped, ShowTyped, InputsTyped, TablesTyped, Handlers
<1>b. 0..MaxTime \subseteq Nat
  BY TriggerBoundsAssumption
<1>1. ASSUME NEW e \in Events, Receive(e) PROVE TimesKept'
  BY <1>1, TimesFrame DEF Receive
<1>2. CASE HandleBegins
  <2>1. handler'.now = now /\ UNCHANGED <<now, showVars, engineVars>>
    BY <1>2 DEF HandleBegins
  <2>2. NotAfter(matched', handler'.now) /\ NotAfter(fired', handler'.now)
        /\ handler'.now <= now'
    BY <2>1, <1>a, <1>b DEF TimesKept, MatchesKept, NotAfter
  <2>3. MatchesKept'
    BY <2>1, <2>2, <1>a DEF TimesKept, MatchesKept, NotAfter
  <2>4. ASSUME FiringsKept PROVE FiringsKept'
    BY <2>1, <2>2, <2>4 DEF FiringsKept, NotAfter, Within
  <2> QED
    BY <2>1, <2>2, <2>3, <2>4, <1>a DEF TimesKept, NotAfter
<1>3. CASE HandleEnds
  BY <1>3, TimesFrame DEF HandleEnds
<1>4. CASE Operator
  <2>1. /\ handler' = None /\ UNCHANGED <<now, engineVars, overruled>>
        /\ handler = None
    BY <1>4 DEF Operator, ArmStart, AbortByHand, Abort, Others, LoopIsFree
  <2>2. \A a \in aborts' : a \in aborts \/ a.by \notin Handlers
    BY <1>4, HandsAreNoHandlers DEF Operator, ArmStart, AbortByHand, Abort, Others
  <2> QED
    BY <2>1, <2>2, TimesFrame
<1>5. CASE Concludes
  <2>1. /\ handler' = None /\ UNCHANGED <<now, engineVars, overruled>>
        /\ aborts' \subseteq aborts /\ handler = None
    BY <1>5 DEF Concludes, ArmEnds, AbortOfHandEnds, AbortEnds, AbortRaises, AbortIsOver,
                Others, LoopIsFree
  <2> QED
    BY <2>1, TimesFrame
<1>6. ASSUME NEW n \in live, RunTaskEnds(n) PROVE TimesKept'
  <2>1. /\ handler' = None /\ UNCHANGED <<now, engineVars, aborts>>
        /\ overruled => overruled' /\ handler = None
    BY <1>6 DEF RunTaskEnds, RunEnds, Others, LoopIsFree
  <2> QED
    BY <2>1, TimesFrame
<1>7. CASE Tick
  <2>1. now' = now + 1 /\ UNCHANGED <<showVars, handler, engineVars>>
    BY <1>7 DEF Tick
  <2>2. NotAfter(matched', now') /\ NotAfter(fired', now')
    BY <2>1, <1>a, <1>b, NotAfterLater DEF TimesKept, MatchesKept, NotAfter, Times
  <2>3. /\ handler' # None => handler'.now <= now'
        /\ \A a \in aborts' : a.by \in Handlers => a.by.now <= now'
    BY <2>1, <1>a, <1>b DEF TimesKept
  <2>4. MatchesKept'
    BY <2>1, <2>2, <1>a DEF TimesKept, MatchesKept, NotAfter
  <2>5. ASSUME FiringsKept PROVE FiringsKept'
    BY <2>1, <2>5 DEF FiringsKept, NotAfter, Within
  <2> QED
    BY <2>1, <2>2, <2>3, <2>4, <2>5, <1>a DEF TimesKept
<1>8. CASE ConsiderInVain
  <2>1. /\ handler \in Handlers /\ handler.at \in Ids /\ handler' = [handler EXCEPT !.at = @ + 1]
        /\ handler # None
        /\ UNCHANGED <<showVars, now, last_fired, fired>>
        /\ Match(handler.at) \/ UNCHANGED <<last_matched, matched>>
    BY <1>8, <1>a DEF ConsiderInVain, NextTrigger
  <2>2. handler'.now = handler.now /\ handler'.at = handler.at + 1
    BY <2>1, NextTriggerTyped
  <2>3. /\ \A t \in Ids : NoAbortBefore(t) => last_matched'[t] = matched'[t]
        /\ NotAfter(matched', now)
        /\ NoAbortBefore(handler.at) => NotAfter(matched', handler.now)
    <3>1. CASE Match(handler.at)
      BY <3>1, <2>1, <1>a, MatchKeepsTimes
    <3>2. CASE UNCHANGED <<last_matched, matched>>
      BY <3>2, <2>1, <1>a DEF TimesKept, MatchesKept, NotAfter
    <3> QED
      BY <2>1, <3>1, <3>2
  <2>4. NoAbortBefore(handler'.at) => NoAbortBefore(handler.at)
    BY <2>1, <2>2, NoAbortBeforeNext
  <2>5. MatchesKept'
    BY <2>1, <2>2, <2>3, <2>4 DEF MatchesKept, NotAfter
  <2>6. ASSUME FiringsKept PROVE FiringsKept'
    BY <2>1, <2>2, <2>6 DEF FiringsKept, NotAfter, Within
  <2> QED
    BY <2>1, <2>2, <2>5, <2>6, <1>a DEF TimesKept, NotAfter
<1>9. CASE ConsiderAndAct
  <2> DEFINE at == handler.at
             moment == handler.now
  <2>1. /\ handler \in Handlers /\ at \in Ids /\ handler' = [handler EXCEPT !.at = @ + 1]
        /\ handler # None
        /\ Match(at) /\ Fires(at, moment) /\ UNCHANGED <<now, aborts, overruled>>
        /\ show \in {"ARMED", "RUNNING"}
    BY <1>9, <1>a DEF ConsiderAndAct, NextTrigger, Allowed, StartAllowed, Start, Hold
  <2>2. handler'.now = moment /\ handler'.at = at + 1
    BY <2>1, NextTriggerTyped
  <2>3. moment \in 0..MaxTime /\ moment <= now
    BY <2>1, <1>a DEF TimesKept
  <2>4. /\ \A t \in Ids : NoAbortBefore(t) => last_matched'[t] = matched'[t]
        /\ NotAfter(matched', now)
        /\ NoAbortBefore(at) => NotAfter(matched', moment)
    BY <2>1, <1>a, MatchKeepsTimes
  <2>5. MatchesKept'
    BY <2>1, <2>2, <2>4, NoAbortBeforeNext DEF MatchesKept, NotAfter
  <2>6. NotAfter(fired', now)
    BY <2>1, <2>3, <1>a, FiresKeepsTimes
  <2>7. ASSUME ~overruled PROVE FiringsKept'
    <3>1. last_fired = fired /\ NotAfter(fired, moment) /\ aborts = {}
      BY <2>1, <2>7, <1>a DEF TimesKept, FiringsKept, ShowControlled, InOrder
    <3>2. last_fired' = fired' /\ NotAfter(fired', moment)
      BY <2>1, <2>3, <3>1, <1>a, FiresKeepsTimes
    <3> QED
      BY <2>1, <2>2, <3>1, <3>2 DEF FiringsKept, NotAfter
  <2> QED
    BY <2>1, <2>2, <2>3, <2>5, <2>6, <2>7, <1>a DEF TimesKept, NotAfter
<1>10. CASE ConsiderAndAbort
  <2> DEFINE at == handler.at
  <2>1. /\ handler # None /\ handler \in Handlers /\ at \in Ids /\ handler' = None /\ Match(at)
        /\ ~Cooling(at) /\ show \in {"RUNNING", "HOLDING", "FAULTED"}
        /\ aborts' = aborts \cup {[by |-> handler, run |-> runs]}
        /\ UNCHANGED <<now, overruled, last_fired, fired>>
    BY <1>10, <1>a DEF ConsiderAndAbort, Eligible, Allowed, AbortAllowed, Abort
  <2>2. \A a \in aborts' : a \in aborts \/ a.by = handler
    BY <2>1
  <2>3. MatchesKept'
    BY <2>1, <1>a, MatchKeepsTimes DEF MatchesKept, NotAfter
  <2>4. ASSUME ~overruled PROVE FiringsKept'
    <3>1. FiringsKept /\ NotAfter(fired, handler.now)
      BY <2>1, <2>4, <1>a DEF TimesKept, FiringsKept
    <3>2. ~Within(fired[at], handler.now, Triggers[at].cooldown)
      BY <2>1, <3>1 DEF Cooling, FiringsKept
    <3> QED
      BY <2>1, <2>2, <3>1, <3>2 DEF FiringsKept, NotAfter, Within
  <2> QED
    BY <2>1, <2>2, <2>3, <2>4, <1>a DEF TimesKept, NotAfter
<1>11. ASSUME NEW a \in aborts, Resume(a) PROVE TimesKept'
  <2>1. /\ a.by \in Handlers /\ a.by.at \in Ids /\ Triggers[a.by.at].action = "abort"
        /\ a.by.now \in 0..MaxTime /\ a.by.now <= now
    BY <1>11, <1>a, HandsAreNoHandlers
       DEF Resume, EngineTyped, ShowTyped, WaitersAbort, TimesKept
  <2>2. /\ handler' = [a.by EXCEPT !.at = @ + 1] /\ aborts' = aborts \ {a}
        /\ UNCHANGED <<now, last_matched, matched, overruled>>
        /\ \/ show' = "IDLE" /\ Fires(a.by.at, a.by.now)
           \/ overruled /\ UNCHANGED <<last_fired, fired>>
    BY <1>11 DEF Resume, AbortEnds, AbortRaises, AbortIsOver
  <2>3. handler'.now = a.by.now /\ handler'.at = a.by.at + 1
    BY <2>1, <2>2, NextTriggerTyped
  <2>4. ~NoAbortBefore(handler'.at)
    BY <2>1, <2>3, NoAbortBeforeNext
  <2>5. MatchesKept'
    BY <2>2, <2>4, <1>a DEF TimesKept, MatchesKept, NotAfter
  <2>6. NotAfter(fired', now)
    BY <2>1, <2>2, <1>a, FiresKeepsTimes DEF TimesKept, NotAfter
  <2>7. ASSUME ~overruled PROVE FiringsKept'
    <3>1. last_fired = fired /\ NotAfter(fired, a.by.now) /\ aborts' = {}
      BY <2>1, <2>2, <2>7, <1>a DEF TimesKept, FiringsKept, ShowControlled, InOrder
    <3>2. last_fired' = fired'
      BY <2>1, <2>2, <2>7, <3>1, <1>a, FiresKeepsTimes
    <3> QED
      BY <2>2, <2>7, <3>1, <3>2 DEF FiringsKept
  <2> QED
    BY <2>1, <2>2, <2>3, <2>5, <2>6, <2>7, <1>a DEF TimesKept, NotAfter
<1>12. CASE UNCHANGED vars
  BY <1>12, TimesFrame DEF vars
<1> QED
  BY <1>1, <1>2, <1>3, <1>4, <1>5, <1>6, <1>7, <1>8, <1>9, <1>10, <1>11, <1>12
     DEF Next, Handle

\* The times are in order from the beginning on.
LEMMA TimesAreKept == Spec => []IInv
<1>1. Init => IInv
  BY ShowInit DEF IInv, Init, TimesKept, MatchesKept, FiringsKept, NotAfter
<1>2. IInv /\ [Next]_vars => IInv'
  BY TypedStep, ShowStep, TimesStep DEF IInv, IInvShow, EngineTyped, Kept
<1> QED
  BY <1>1, <1>2, PTL DEF Spec

\* Two firings of any trigger are its cooldown apart, also when one of them waited for
\* an abort and other handlers came between, as long as no run task has set FAULTED over
\* an abort (trigger_engine.py:59-75, show_controller.py:91-93).
THEOREM CooldownIsKept == Spec => CooldownHolds
<1> DEFINE Apart == ~overruled =>
                      \A t \in Ids : last_fired'[t] # last_fired[t] =>
                        ~Within(fired[t], last_fired'[t], Triggers[t].cooldown)
<1>1. IInv /\ [Next]_vars => [Apart]_vars
  <2> SUFFICES ASSUME IInv, [Next]_vars, ~overruled, NEW t \in Ids,
                      last_fired'[t] # last_fired[t]
               PROVE  ~Within(fired[t], last_fired'[t], Triggers[t].cooldown)
    OBVIOUS
  <2>a. FiringsKept /\ last_fired = fired /\ last_fired \in [Ids -> Times]
    BY DEF IInv, TimesKept, FiringsKept, IInvShow, EngineTyped, TablesTyped
  <2>1. CASE ConsiderAndAct
    <3>1. t = handler.at /\ last_fired'[t] = handler.now /\ ~Cooling(t)
      BY <2>1, <2>a DEF ConsiderAndAct, Fires, Eligible
    <3> QED
      BY <3>1, <2>a DEF Cooling
  <2>2. ASSUME NEW a \in aborts, Resume(a)
        PROVE  ~Within(fired[t], last_fired'[t], Triggers[t].cooldown)
    <3>1. t = a.by.at /\ last_fired'[t] = a.by.now
      BY <2>2, <2>a DEF Resume, Fires, AbortRaises
    <3>2. a.by \in Handlers
      BY <2>2, HandsAreNoHandlers DEF Resume, IInv, IInvShow, EngineTyped, ShowTyped
    <3> QED
      BY <3>1, <3>2, <2>a DEF FiringsKept
  <2>3. ConsiderAndAct \/ (\E a \in aborts : Resume(a)) \/ UNCHANGED last_fired
    BY DEF Next, Handle, Receive, HandleBegins, HandleEnds, ConsiderInVain, ConsiderAndAbort,
           Operator, Concludes, RunTaskEnds, Others, Tick, vars
  <2> QED
    BY <2>1, <2>2, <2>3
<1> QED
  BY <1>1, TimesAreKept, PTL DEF Spec, CooldownHolds

\* No trigger that an older handler cannot overtake changes the Show within its debounce
\* window (trigger_engine.py:48-51).
THEOREM DebounceIsKept == Spec => DebounceIsQuiet
<1> DEFINE Calm == handler # None /\ show' # show /\ NoAbortBefore(handler.at) =>
                     ~Within(matched[handler.at], handler.now,
                             Triggers[handler.at].debounce)
<1>1. IInv /\ [Next]_vars => [Calm]_vars
  <2> SUFFICES ASSUME IInv, [Next]_vars, handler # None, show' # show,
                      NoAbortBefore(handler.at)
               PROVE  ~Within(matched[handler.at], handler.now,
                              Triggers[handler.at].debounce)
    OBVIOUS
  <2>1. ConsiderAndAct \/ ConsiderAndAbort
    BY DEF Next, Handle, Receive, HandleBegins, HandleEnds, ConsiderInVain, Operator,
           Concludes, RunTaskEnds, Resume, AbortEnds, AbortRaises, AbortIsOver,
           AbortOfHandEnds, AbortByHand, ArmStart, ArmEnds, RunEnds, LoopIsFree, Tick, vars
  <2>2. handler.at \in Ids /\ ~Quiet(handler.at)
    BY <2>1 DEF ConsiderAndAct, ConsiderAndAbort, Eligible
  <2>3. last_matched[handler.at] = matched[handler.at]
    BY <2>2 DEF IInv, TimesKept, MatchesKept
  <2> QED
    BY <2>2, <2>3 DEF Quiet
<1> QED
  BY <1>1, TimesAreKept, PTL DEF Spec, DebounceIsQuiet

-----------------------------------------------------------------------------
\* What the watchers of the Show see.
watched == <<show, runs \in live, overruled>>

\* Every step is one of the protocol, or nothing that is watched: inputs come, and handlers
\* pass over triggers or wait.
LEMMA ProtocolStep == IInvShow /\ [Next]_vars => [Protocol!Next]_watched
<1> SUFFICES ASSUME IInvShow, [Next]_vars
             PROVE  Protocol!Next \/ UNCHANGED watched
  BY DEF watched
<1>a. /\ ShowTyped /\ RunsCounted /\ RunningIsDriven /\ (overruled \/ InOrder)
      /\ runs \in Nat /\ live \subseteq 1..runs
  BY TriggerBoundsAssumption DEF IInvShow, ShowControlled, EngineTyped, ShowTyped
<1>1. ASSUME AbortAllowed, NEW who, Abort(who) PROVE Protocol!Abort
  BY <1>1 DEF AbortAllowed, Abort, Protocol!Abort
<1>2. ASSUME NEW a \in aborts, AbortEnds(a) \/ AbortRaises(a)
      PROVE  Protocol!AbortEnds \/ Protocol!Unchecked
  <2>a. show' \in {show, "IDLE"} /\ UNCHANGED <<overruled, live, runs>>
    BY <1>2 DEF AbortEnds, AbortRaises, AbortIsOver
  <2>1. CASE overruled
    BY <2>a, <2>1 DEF Protocol!Unchecked
  <2>2. CASE ~overruled
    <3>1. show = "STOPPING" /\ a.run = runs /\ AbortEnds(a)
      BY <1>a, <1>2, <2>2 DEF InOrder, AbortRaises
    <3> QED
      BY <3>1 DEF AbortEnds, AbortIsOver, Protocol!AbortEnds
  <2> QED
    BY <2>1, <2>2
<1>3. ASSUME ArmStart PROVE Protocol!Next
  BY <1>3 DEF ArmStart, Protocol!Next, Protocol!Arm
<1>4. ASSUME ArmEnds PROVE Protocol!Next
  <2>1. CASE overruled
    BY <1>4, <2>1 DEF ArmEnds, Protocol!Next, Protocol!Unchecked
  <2>2. CASE ~overruled
    <3>1. show = "PREPARING"
      BY <1>a, <1>4, <2>2 DEF ArmEnds, InOrder
    <3> QED
      BY <1>4, <3>1 DEF ArmEnds, Protocol!Next, Protocol!ArmEnds
  <2> QED
    BY <2>1, <2>2
<1>5. ASSUME StartAllowed, Start PROVE Protocol!Next
  <2>1. overruled \/ runs \notin live
    BY <1>a, <1>5 DEF StartAllowed, InOrder
  <2>2. runs' \in live'
    BY <1>5 DEF Start
  <2> QED
    BY <1>5, <2>1, <2>2 DEF StartAllowed, Start, Protocol!Next, Protocol!Start
<1>6. ASSUME show = "RUNNING", Hold PROVE Protocol!Next
  BY <1>6 DEF Hold, Protocol!Next, Protocol!Hold
<1>7. ASSUME NEW n \in live, RunEnds(n) PROVE Protocol!Next
  <2>1. CASE overruled
    BY <1>7, <2>1 DEF RunEnds, Protocol!Next, Protocol!Unchecked
  <2>2. CASE ~overruled
    <3>1. n = runs /\ runs \notin live' /\ show \in {"RUNNING", "HOLDING", "STOPPING"}
      BY <1>a, <1>7, <2>2 DEF RunEnds, InOrder
    <3>2. CASE show \in {"RUNNING", "HOLDING"}
      <4>1. n \notin cancelled
        BY <1>a, <3>1, <3>2 DEF RunningIsDriven
      <4>2. show' \in {"IDLE", "FAULTED"} /\ UNCHANGED overruled /\ runs \in live
        <5>1. show' \in {"IDLE", "FAULTED"} /\ runs' = runs
          BY <1>7, <3>1, <3>2, <4>1 DEF RunEnds
        <5>2. overruled' = (overruled \/ (show = "STOPPING" /\ show' = "FAULTED"))
          BY <1>7 DEF RunEnds
        <5>3. overruled \in BOOLEAN /\ overruled' \in BOOLEAN
          BY <1>a, <5>2 DEF ShowTyped
        <5> QED
          BY <1>7, <3>1, <3>2, <5>1, <5>2, <5>3
      <4>3. runs' \notin live'
        BY <1>7, <3>1 DEF RunEnds
      <4>4. Protocol!RunEnds
        BY <3>2, <4>2, <4>3 DEF Protocol!RunEnds
      <4> QED
        BY <4>4 DEF Protocol!Next
    <3>3. CASE show = "STOPPING"
      <4>1. /\ runs \in live /\ runs' \notin live'
            /\ UNCHANGED <<show, overruled>> \/ (show' = "FAULTED" /\ overruled')
        <5>1. show' \in {show, "FAULTED"} /\ runs' = runs
          BY <1>7, <3>3 DEF RunEnds
        <5>2. overruled' = (overruled \/ (show = "STOPPING" /\ show' = "FAULTED"))
          BY <1>7 DEF RunEnds
        <5>3. overruled \in BOOLEAN /\ overruled' \in BOOLEAN
          BY <1>a, <5>2 DEF ShowTyped
        <5> QED
          BY <1>7, <3>1, <3>3, <5>1, <5>2, <5>3
      <4>2. Protocol!RunCancelled
        BY <3>3, <4>1 DEF Protocol!RunCancelled
      <4> QED
        BY <4>2 DEF Protocol!Next
    <3> QED
      BY <3>1, <3>2, <3>3
  <2> QED
    BY <2>1, <2>2
<1>8. CASE UNCHANGED showVars
  BY <1>8 DEF watched
<1>9. ConsiderAndAct => Protocol!Next
  BY <1>5, <1>6 DEF ConsiderAndAct, Allowed
<1>10. ConsiderAndAbort => Protocol!Next
  BY <1>1 DEF ConsiderAndAbort, Allowed, Protocol!Next
<1>11. ASSUME NEW a \in aborts, Resume(a) PROVE Protocol!Next
  BY <1>2, <1>11 DEF Resume, Protocol!Next
<1>12. Operator => Protocol!Next
  BY <1>1, <1>3 DEF Operator, AbortByHand, Protocol!Next
<1>13. Concludes => Protocol!Next
  BY <1>2, <1>4 DEF Concludes, AbortOfHandEnds, Protocol!Next
<1>14. ASSUME NEW n \in live, RunTaskEnds(n) PROVE Protocol!Next
  BY <1>7, <1>14 DEF RunTaskEnds
<1>15. \/ UNCHANGED showVars \/ ConsiderAndAct \/ ConsiderAndAbort
       \/ \E a \in aborts : Resume(a)
       \/ Operator \/ Concludes \/ \E n \in live : RunTaskEnds(n)
  BY DEF Next, Handle, Receive, HandleBegins, HandleEnds, ConsiderInVain, Tick, vars
<1> QED
  BY <1>8, <1>9, <1>10, <1>11, <1>12, <1>13, <1>14, <1>15

\* Whatever inputs and handlers there are, the Show goes through its states as its
\* controller promises, and a run begins only when the task of the last one is over, until
\* a run task sets FAULTED over an abort (show_controller.py:62-110,
\* trigger_engine.py:63-73).
THEOREM TriggersKeepProtocol == Spec => KeepsProtocol
<1>1. Init => Protocol!Init
  BY DEF Init, Protocol!Init
<1>2. [Protocol!Next]_watched => [Protocol!Next]_(Protocol!vars)
  BY DEF watched, Protocol!vars
<1> QED
  BY <1>1, <1>2, ProtocolStep, ShowIsControlled, PTL DEF Spec, KeepsProtocol, Protocol!Spec
=============================================================================
