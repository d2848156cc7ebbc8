------------------------- MODULE DeviceRuntimeProofs -------------------------
(***************************************************************************)
(* Theorems about DeviceRuntime, for every value of its constants.         *)
(***************************************************************************)
EXTENDS DeviceRuntime, TLAPS

USE DEF configVars, ledgerVars, runnerVars, sessionVars

\* Bumping within the bound stays within the bound, and increases exactly the
\* generations of the runners that were bumped.
LEMMA BumpedType ==
  ASSUME generation \in [Targets -> 1..MaxGeneration],
         NEW ts \in SUBSET Targets, CanBump(ts)
  PROVE  /\ Bumped(ts) \in [Targets -> 1..MaxGeneration]
         /\ \A t \in ts : Bumped(ts)[t] = generation[t] + 1
         /\ \A t \in Targets \ ts : Bumped(ts)[t] = generation[t]
<1>1. \A t \in Targets : Bumped(ts)[t] = IF t \in ts THEN generation[t] + 1 ELSE generation[t]
  BY DEF Bumped
<1>2. ASSUME NEW t \in Targets PROVE Bumped(ts)[t] \in 1..MaxGeneration
  <2>1. generation[t] \in 1..MaxGeneration
    OBVIOUS
  <2>2. t \in ts => generation[t] < MaxGeneration
    BY DEF CanBump
  <2> QED
    BY <1>1, <2>1, <2>2, BoundsAssumption
<1>3. Bumped(ts) \in [Targets -> 1..MaxGeneration]
  BY <1>2 DEF Bumped
<1> QED
  BY <1>1, <1>3

\* Recording an apply attempt keeps the journal typed and within its limit.
LEMMA RecordType ==
  ASSUME Config!ConfigTypeOK, NEW rev \in Revisions,
         NEW outcome \in Config!ApplyOutcomes, Config!Record(rev, outcome),
         JournalLimit \in Nat \ {0}
  PROVE  journal' \in Seq(Config!ApplyRecords) /\ Len(journal') <= JournalLimit
<1> DEFINE entry == [revision |-> rev, outcome |-> outcome]
           longer == Append(journal, entry)
<1>1. entry \in Config!ApplyRecords
  BY DEF Config!ApplyRecords
<1>2. journal \in Seq(Config!ApplyRecords) /\ Len(journal) <= JournalLimit
  BY DEF Config!ConfigTypeOK
<1>3. longer \in Seq(Config!ApplyRecords) /\ Len(longer) = Len(journal) + 1
  BY <1>1, <1>2
<1>4. CASE Len(longer) > JournalLimit
  <2>1. journal' = Tail(longer)
    BY <1>4 DEF Config!Record
  <2>2. longer # <<>>
    BY <1>3, <1>2
  <2>3. Tail(longer) \in Seq(Config!ApplyRecords) /\ Len(Tail(longer)) = Len(longer) - 1
    BY <1>3, <2>2
  <2> QED
    BY <2>1, <2>3, <1>3, <1>2
<1>5. CASE ~(Len(longer) > JournalLimit)
  <2>1. journal' = longer
    BY <1>5 DEF Config!Record
  <2> QED
    BY <2>1, <1>3, <1>5, <1>2
<1> QED
  BY <1>4, <1>5

-----------------------------------------------------------------------------
\* The fields of a record, and what finishing makes of it.
Finished(rec, outcome, achieved) ==
  [rec EXCEPT !.status = "TERMINAL", !.outcome = outcome, !.achieved = achieved]

\* A recorded command names one of the Runtime's targets, so that its runner and
\* that runner's generation are defined (submit_command refuses other targets).
LEMMA TargetOfType ==
  ASSUME TypeOK, NEW c \in Commands
  PROVE  /\ command[c] \in Records
         /\ TargetOf(c) \in Targets
         /\ generation[TargetOf(c)] \in 1..MaxGeneration
<1>1. command[c] \in Records
  BY DEF TypeOK
<1>2. TargetOf(c) \in Targets
  BY <1>1, ContentsAssumption DEF Records, AllContents, TargetOf
<1> QED
  BY <1>1, <1>2 DEF TypeOK

\* _finish changes the record it concludes and no other.
LEMMA FinishRecord ==
  ASSUME TypeOK, NEW c \in Commands, NEW events, NEW outcome \in Outcomes,
         NEW achieved \in Requirements \cup {None},
         Finish(c, events, outcome, achieved)
  PROVE  /\ Commands' = Commands
         /\ command'[c] = Finished(command[c], outcome, achieved)
         /\ command'[c] \in Records
         /\ \A d \in Commands \ {c} : command'[d] = command[d]
         /\ \A d \in Commands : TargetOf(d)' = TargetOf(d)
<1>1. command' = [command EXCEPT ![c] = Finished(command[c], outcome, achieved)]
  BY DEF Finish, Finished
<1>2. command \in [Commands -> Records]
  BY DEF TypeOK
<1>3. Finished(command[c], outcome, achieved) \in Records
  BY <1>2 DEF Finished, Records, Statuses
<1>4. Commands' = Commands
  BY <1>1, <1>2 DEF Commands
<1>5. command'[c] = Finished(command[c], outcome, achieved)
      /\ \A d \in Commands \ {c} : command'[d] = command[d]
  BY <1>1, <1>2
<1>6. command'[c].content = command[c].content
  BY <1>5, <1>2 DEF Finished, Records
<1> QED
  BY <1>3, <1>4, <1>5, <1>6 DEF TargetOf

\* _finish leaves every variable in its type, whatever outcome it is given.
LEMMA FinishType ==
  ASSUME TypeOK, NEW c \in Commands, NEW events \in Seq(Statuses \cup Outcomes),
         NEW outcome \in Outcomes, NEW achieved \in Requirements \cup {None},
         Finish(c, events, outcome, achieved)
  PROVE  TypeOK'
<1>1. /\ Commands' = Commands
      /\ command' \in [Commands' -> Records]
  <2>1. command' = [command EXCEPT ![c] = Finished(command[c], outcome, achieved)]
    BY DEF Finish, Finished
  <2> QED
    BY <2>1, FinishRecord DEF TypeOK, Commands
<1>2. published' \in [Commands -> Seq(Statuses \cup Outcomes)]
  <2>1. published[c] \in Seq(Statuses \cup Outcomes)
    BY DEF TypeOK
  <2>2. <<outcome>> \in Seq(Statuses \cup Outcomes)
    OBVIOUS
  <2>3. published[c] \o events \o <<outcome>> \in Seq(Statuses \cup Outcomes)
    BY <2>1, <2>2
  <2> QED
    BY <2>3 DEF TypeOK, Finish
<1>3. active' \in [Targets -> CommandIds \cup {None}]
  BY DEF TypeOK, Finish
<1>4. deadline' \in [DOMAIN deadline' -> 0..ObserveTimeout]
      /\ DOMAIN deadline' \subseteq Commands
  BY DEF TypeOK, Finish, Drop
<1>5. Config!ConfigTypeOK'
  BY DEF TypeOK, Finish, Config!ConfigTypeOK
<1> QED
  BY <1>1, <1>2, <1>3, <1>4, <1>5 DEF TypeOK, Finish

\* begin opens one record, under an id that had none.
LEMMA BeginType ==
  ASSUME TypeOK, NEW r \in RequestIds, NEW s \in SessionIds,
         NEW c \in CommandIds \ Commands, NEW record \in Records,
         NEW events \in Seq(Statuses \cup Outcomes),
         Begin(r, s, c, record, events)
  PROVE  /\ byRequest' \in [DOMAIN byRequest' -> CommandIds]
         /\ DOMAIN byRequest' \subseteq RequestIds
         /\ Commands' = Commands \cup {c}
         /\ Commands' \subseteq CommandIds
         /\ command' \in [Commands' -> Records]
         /\ owner' \in [Commands' -> SessionIds]
         /\ published' \in [Commands' -> Seq(Statuses \cup Outcomes)]
         /\ command'[c] = record /\ owner'[c] = s /\ published'[c] = events
         /\ \A d \in Commands : /\ command'[d] = command[d]
                                /\ owner'[d] = owner[d]
                                /\ published'[d] = published[d]
<1>1. byRequest' \in [DOMAIN byRequest' -> CommandIds]
      /\ DOMAIN byRequest' = DOMAIN byRequest \cup {r}
  BY DEF TypeOK, Begin, Put
<1>2. /\ command' \in [Commands \cup {c} -> Records]
      /\ DOMAIN command' = Commands \cup {c}
      /\ command'[c] = record
      /\ \A d \in Commands : command'[d] = command[d]
  <2>1. command \in [DOMAIN command -> Records]
    BY DEF TypeOK, Commands
  <2>2. command' = Put(command, c, record)
    BY DEF Begin
  <2> QED
    BY <2>1, <2>2 DEF Commands, Put
<1>3. /\ owner' \in [Commands \cup {c} -> SessionIds]
      /\ owner'[c] = s
      /\ \A d \in Commands : owner'[d] = owner[d]
  <2>1. owner \in [DOMAIN owner -> SessionIds] /\ DOMAIN owner = Commands
    BY DEF TypeOK
  <2>2. owner' = Put(owner, c, s)
    BY DEF Begin
  <2> QED
    BY <2>1, <2>2 DEF Put
<1>4. /\ published' \in [Commands \cup {c} -> Seq(Statuses \cup Outcomes)]
      /\ published'[c] = events
      /\ \A d \in Commands : published'[d] = published[d]
  <2>1. published \in [DOMAIN published -> Seq(Statuses \cup Outcomes)]
        /\ DOMAIN published = Commands
    BY DEF TypeOK
  <2>2. published' = Put(published, c, events)
    BY DEF Begin
  <2> QED
    BY <2>1, <2>2 DEF Put
<1> QED
  BY <1>1, <1>2, <1>3, <1>4 DEF TypeOK, Commands

\* The record of a new request, refused or dispatching.
LEMMA NewRecordType ==
  ASSUME NEW r \in RequestIds, NEW k \in Contents, NEW g \in Nat,
         NEW status \in {"TERMINAL", "DISPATCHING"},
         NEW outcome \in {"REJECTED", None}
  PROVE  [request |-> r, content |-> k, status |-> status, outcome |-> outcome,
          achieved |-> None, generation |-> g] \in Records
  BY DEF Records, Statuses, Outcomes

-----------------------------------------------------------------------------
\* Each action preserves TypeOK.

\* A Runtime that has just been constructed is well typed (__init__).
LEMMA InitType == Init => TypeOK
<1> SUFFICES ASSUME Init PROVE TypeOK
  OBVIOUS
<1>1. boot \in 1..MaxBoots /\ ttl \in Nat
  BY BoundsAssumption DEF Init
<1>2. generation \in [Targets -> 1..MaxGeneration]
  BY BoundsAssumption DEF Init
<1>3. Config!ConfigTypeOK
  BY JournalAssumption DEF Init, Config!ConfigInit, Config!ConfigTypeOK
<1>4. /\ byRequest \in [DOMAIN byRequest -> CommandIds] /\ DOMAIN byRequest = {}
      /\ Commands = {} /\ command \in [Commands -> Records]
      /\ deadline \in [DOMAIN deadline -> 0..ObserveTimeout] /\ DOMAIN deadline = {}
      /\ owner \in [Commands -> SessionIds]
      /\ published \in [Commands -> Seq(Statuses \cup Outcomes)]
  BY DEF Init, Empty, Commands
<1> QED
  BY <1>1, <1>2, <1>3, <1>4 DEF TypeOK, Init

\* A Runtime that is started again is well typed: it begins with nothing.
LEMMA RestartType == ASSUME TypeOK, Restart PROVE TypeOK'
<1>1. boot' \in 1..MaxBoots /\ ttl' \in Nat
  BY BoundsAssumption DEF Restart, TypeOK
<1>2. generation' \in [Targets -> 1..MaxGeneration]
  BY BoundsAssumption DEF Restart
<1>3. Config!ConfigTypeOK'
  BY JournalAssumption DEF Restart, Config!ConfigForgotten, Config!ConfigTypeOK
<1>4. /\ byRequest' \in [DOMAIN byRequest' -> CommandIds] /\ DOMAIN byRequest' = {}
      /\ Commands' = {} /\ command' \in [Commands' -> Records]
      /\ deadline' \in [DOMAIN deadline' -> 0..ObserveTimeout] /\ DOMAIN deadline' = {}
      /\ owner' \in [Commands' -> SessionIds]
      /\ published' \in [Commands' -> Seq(Statuses \cup Outcomes)]
  BY DEF Restart, Empty, Commands
<1> QED
  BY <1>1, <1>2, <1>3, <1>4 DEF TypeOK, Restart

\* submit_command keeps the types, whether the runner refuses or takes the command.
LEMMA SubmitType ==
  ASSUME TypeOK, NEW r \in RequestIds, NEW k \in Contents, NEW s \in SessionIds,
         NEW c \in CommandIds, Submit(r, k, s, c)
  PROVE  TypeOK'
<1>1. k.target \in Targets
  BY ContentsAssumption DEF AllContents
<1>2. CASE SubmitRejected(r, k, s, c)
  <2> DEFINE rec == [request |-> r, content |-> k, status |-> "TERMINAL",
                     outcome |-> "REJECTED", achieved |-> None,
                     generation |-> generation[k.target]]
  <2>1. generation[k.target] \in Nat
    BY <1>1 DEF TypeOK
  <2>2. rec \in Records
    BY <2>1, NewRecordType
  <2>3. <<"REJECTED">> \in Seq(Statuses \cup Outcomes)
    BY DEF Outcomes
  <2>4. Begin(r, s, c, rec, <<"REJECTED">>) /\ c \in CommandIds \ Commands
    BY <1>2 DEF SubmitRejected, New
  <2> HIDE DEF rec
  <2>5. /\ byRequest' \in [DOMAIN byRequest' -> CommandIds]
        /\ DOMAIN byRequest' \subseteq RequestIds
        /\ Commands' = Commands \cup {c}
        /\ Commands' \subseteq CommandIds
        /\ command' \in [Commands' -> Records]
        /\ owner' \in [Commands' -> SessionIds]
        /\ published' \in [Commands' -> Seq(Statuses \cup Outcomes)]
    BY <2>2, <2>3, <2>4, BeginType
  <2>6. Config!ConfigTypeOK'
    BY <1>2 DEF TypeOK, SubmitRejected, Config!ConfigTypeOK
  <2> QED
    BY <1>2, <2>5, <2>6 DEF TypeOK, SubmitRejected
<1>3. CASE SubmitDispatching(r, k, s, c)
  <2> DEFINE rec == [request |-> r, content |-> k, status |-> "DISPATCHING",
                     outcome |-> None, achieved |-> None,
                     generation |-> generation'[k.target]]
  <2>1. generation' \in [Targets -> 1..MaxGeneration]
    <3>1. Preempts(k) \subseteq Targets
      BY <1>1 DEF Preempts
    <3> QED
      BY <1>3, <3>1, BumpedType DEF TypeOK, SubmitDispatching
  <2>2. rec \in Records
    <3>1. generation'[k.target] \in Nat
      BY <2>1, <1>1
    <3> QED
      BY <3>1, NewRecordType
  <2>3. <<"DISPATCHING">> \in Seq(Statuses \cup Outcomes)
    BY DEF Statuses
  <2>4. Begin(r, s, c, rec, <<"DISPATCHING">>) /\ c \in CommandIds \ Commands
    BY <1>3 DEF SubmitDispatching, New
  <2> HIDE DEF rec
  <2>5. /\ byRequest' \in [DOMAIN byRequest' -> CommandIds]
        /\ DOMAIN byRequest' \subseteq RequestIds
        /\ Commands' = Commands \cup {c}
        /\ Commands' \subseteq CommandIds
        /\ command' \in [Commands' -> Records]
        /\ owner' \in [Commands' -> SessionIds]
        /\ published' \in [Commands' -> Seq(Statuses \cup Outcomes)]
    BY <2>2, <2>3, <2>4, BeginType
  <2>6. Config!ConfigTypeOK'
    BY <1>3 DEF TypeOK, SubmitDispatching, Config!ConfigTypeOK
  <2>7. active' \in [Targets -> CommandIds \cup {None}]
    BY <1>3 DEF TypeOK, SubmitDispatching
  <2> QED
    BY <1>3, <2>1, <2>5, <2>6, <2>7 DEF TypeOK, SubmitDispatching
<1> QED
  BY <1>2, <1>3 DEF Submit

\* So does every turn of the runner: the end of execute and the observer's loop.
LEMMA RunType ==
  ASSUME TypeOK, NEW c \in CommandIds, Run(c)
  PROVE  TypeOK'
<1>1. c \in Commands
  BY DEF Run, ExecuteReturns, ExecuteRaises, Executing, Observe, ObserveExpires,
         ObserveCancels, ObserveSucceeds, ObserveRaises, ObserveSleeps, MayAsk, Observing
<1>2. /\ <<>> \in Seq(Statuses \cup Outcomes)
      /\ <<"DISPATCHED">> \in Seq(Statuses \cup Outcomes)
      /\ <<"DISPATCHED", "ACKNOWLEDGED">> \in Seq(Statuses \cup Outcomes)
      /\ <<"DISPATCHED", "ACKNOWLEDGED", "OBSERVING">> \in Seq(Statuses \cup Outcomes)
  BY DEF Statuses
<1>3. /\ {"SUCCEEDED", "FAILED", "CANCELLED", "EXPIRED"} \subseteq Outcomes
      /\ {"dispatched", "acknowledged", "observed", None} = Requirements \cup {None}
  BY DEF Outcomes, Requirements
<1>4. CASE \E events \in {<<>>, <<"DISPATCHED">>, <<"DISPATCHED", "ACKNOWLEDGED">>},
              outcome \in {"SUCCEEDED", "FAILED", "CANCELLED", "EXPIRED"},
              achieved \in {"dispatched", "acknowledged", "observed", None} :
                Finish(c, events, outcome, achieved)
  BY <1>1, <1>2, <1>3, <1>4, FinishType
<1>5. CASE ObserveSleeps(c)
  <2>1. TimeLeft(c) \in 0..ObserveTimeout
    BY TimesAssumption DEF TypeOK, TimeLeft
  <2>2. /\ deadline' \in [DOMAIN deadline' -> 0..ObserveTimeout]
        /\ DOMAIN deadline' \subseteq Commands
    BY <1>1, <1>5, <2>1 DEF TypeOK, ObserveSleeps, Put
  <2>3. UNCHANGED command /\ Commands' = Commands /\ Config!ConfigTypeOK'
    BY <1>5 DEF ObserveSleeps, TypeOK, Config!ConfigTypeOK, Commands
  <2> QED
    BY <1>5, <2>2, <2>3 DEF TypeOK, ObserveSleeps
<1>6. CASE /\ command' = [command EXCEPT ![c].status = "OBSERVING"]
           /\ published' = [published EXCEPT
                 ![c] = @ \o <<"DISPATCHED", "ACKNOWLEDGED", "OBSERVING">>]
           /\ UNCHANGED <<boot, byRequest, owner, runnerVars, sessionVars,
                          configVars>>
  <2>1. command \in [Commands -> Records] /\ command[c] \in Records
    BY <1>1 DEF TypeOK
  <2>2. [command[c] EXCEPT !.status = "OBSERVING"] \in Records
    BY <2>1 DEF Records, Statuses
  <2>3. command' \in [Commands -> Records] /\ Commands' = Commands
    <3>1. command' = [command EXCEPT ![c] = [command[c] EXCEPT !.status = "OBSERVING"]]
      BY <1>6
    <3> QED
      BY <3>1, <2>1, <2>2 DEF Commands
  <2>4. published' \in [Commands -> Seq(Statuses \cup Outcomes)]
    <3>1. published[c] \in Seq(Statuses \cup Outcomes)
      BY <1>1 DEF TypeOK
    <3>2. published[c] \o <<"DISPATCHED", "ACKNOWLEDGED", "OBSERVING">>
            \in Seq(Statuses \cup Outcomes)
      BY <3>1, <1>2
    <3> QED
      BY <1>6, <3>2 DEF TypeOK
  <2>5. Config!ConfigTypeOK'
    BY <1>6 DEF TypeOK, Config!ConfigTypeOK
  <2> QED
    BY <1>6, <2>3, <2>4, <2>5 DEF TypeOK
<1> QED
  BY <1>4, <1>5, <1>6
  DEF Run, ExecuteReturns, ExecuteRaises, Observe, ObserveExpires, ObserveCancels,
      ObserveSucceeds, ObserveRaises

\* The actions that leave the ledger alone: sessions, configuration, clock.
LEMMA SessionType ==
  ASSUME TypeOK, NEW s \in SessionIds,
         (\E d \in Ttls : AcquireSession(s, d)) \/ RenewSession(s) \/ LapseSession(s)
           \/ ReleaseSession(s)
  PROVE  TypeOK'
<1>1. generation' \in [Targets -> 1..MaxGeneration]
  BY BumpedType DEF TypeOK, AcquireSession, RenewSession, LapseSession, ReleaseSession
<1>2. ttl' \in Nat /\ session' \in SessionIds \cup {None} /\ issued' \subseteq SessionIds
  BY TimesAssumption DEF TypeOK, AcquireSession, RenewSession, LapseSession, ReleaseSession
<1>3. UNCHANGED <<boot, byRequest, command, owner, published, active, deadline,
                  staged, active_revision, journal>>
  BY DEF AcquireSession, RenewSession, LapseSession, ReleaseSession
<1>4. Config!ConfigTypeOK' /\ Commands' = Commands
  BY <1>3 DEF TypeOK, Config!ConfigTypeOK, Commands
<1> QED
  BY <1>1, <1>2, <1>3, <1>4 DEF TypeOK

\* Staging and applying a configuration keep the types (stage_config, apply_config).
LEMMA ConfigurationType ==
  ASSUME TypeOK, NEW rev \in Revisions,
         StageConfig(rev) \/ \E expected \in Revisions \cup {None} : Apply(rev, expected)
  PROVE  TypeOK'
<1>1. generation' \in [Targets -> 1..MaxGeneration]
  BY BumpedType
  DEF TypeOK, StageConfig, Apply, ApplyConfigRejected, ApplyConfigSucceeds
<1>2. UNCHANGED <<boot, byRequest, command, owner, published, active, deadline,
                  session, ttl, issued>>
  BY DEF StageConfig, Apply, ApplyConfigRejected, ApplyConfigSucceeds
<1>3. Config!ConfigTypeOK'
  <2>1. CASE StageConfig(rev)
    BY <2>1 DEF TypeOK, StageConfig, Config!Stage, Config!ConfigTypeOK
  <2>2. ASSUME NEW expected \in Revisions \cup {None}, Apply(rev, expected)
        PROVE  Config!ConfigTypeOK'
    <3>1. /\ rev \in staged /\ staged' = staged
          /\ active_revision' \in {rev, active_revision}
          /\ Config!Record(rev, "REJECTED") \/ Config!Record(rev, "SUCCEEDED")
      BY <2>2 DEF Apply, ApplyConfigRejected, ApplyConfigSucceeds, Config!ApplyRefused,
                  Config!ApplyCommitted
    <3>2. {"REJECTED", "SUCCEEDED"} \subseteq Config!ApplyOutcomes
      BY DEF Config!ApplyOutcomes
    <3>3. journal' \in Seq(Config!ApplyRecords) /\ Len(journal') <= JournalLimit
      BY <3>1, <3>2, RecordType, JournalAssumption DEF TypeOK
    <3> QED
      BY <3>1, <3>3 DEF TypeOK, Config!ConfigTypeOK
  <2> QED
    BY <2>1, <2>2
<1>4. Commands' = Commands
  BY <1>2 DEF Commands
<1> QED
  BY <1>1, <1>2, <1>3, <1>4 DEF TypeOK

\* The clock only counts timers down: sessions and observers stay in their range.
LEMMA TickType == ASSUME TypeOK, Tick PROVE TypeOK'
<1>1. ttl' \in Nat
  BY DEF TypeOK, Tick, Earlier
<1>2. deadline' \in [DOMAIN deadline -> 0..ObserveTimeout]
  <2>1. \A c \in DOMAIN deadline : deadline[c] \in 0..ObserveTimeout
    BY DEF TypeOK
  <2>2. \A c \in DOMAIN deadline : Earlier(deadline[c]) \in 0..ObserveTimeout
    BY <2>1, TimesAssumption DEF Earlier
  <2> QED
    BY <2>2 DEF Tick
<1>3. Config!ConfigTypeOK' /\ Commands' = Commands
  BY DEF TypeOK, Tick, Config!ConfigTypeOK, Commands
<1> QED
  BY <1>1, <1>2, <1>3 DEF TypeOK, Tick

\* What leaves every variable alone leaves the types alone.
LEMMA StutterType == ASSUME TypeOK, UNCHANGED vars PROVE TypeOK'
<1>1. Config!ConfigTypeOK' /\ Commands' = Commands
  BY DEF TypeOK, vars, Config!ConfigTypeOK, Commands
<1> QED
  BY <1>1 DEF TypeOK, vars

\* TypeOK is inductive: one case per operation of the Runtime.
LEMMA StepType == TypeOK /\ [Next]_vars => TypeOK'
<1> SUFFICES ASSUME TypeOK, [Next]_vars PROVE TypeOK'
  OBVIOUS
<1>1. CASE \E r \in RequestIds, k \in Contents, s \in SessionIds, c \in CommandIds :
             Submit(r, k, s, c)
  BY <1>1, SubmitType
<1>2. CASE \E c \in CommandIds : Run(c)
  BY <1>2, RunType
<1>3. CASE \E s \in SessionIds :
             \/ \E d \in Ttls : AcquireSession(s, d)
             \/ RenewSession(s) \/ LapseSession(s) \/ ReleaseSession(s)
  BY <1>3, SessionType
<1>4. CASE \E rev \in Revisions :
             StageConfig(rev) \/ \E expected \in Revisions \cup {None} : Apply(rev, expected)
  BY <1>4, ConfigurationType
<1>5. CASE Tick
  BY <1>5, TickType
<1>6. CASE Restart
  BY <1>6, RestartType
<1>7. CASE UNCHANGED vars
  BY <1>7, StutterType
<1> QED
  BY <1>1, <1>2, <1>3, <1>4, <1>5, <1>6, <1>7 DEF Next

\* Every variable keeps its type in every behaviour, for every number of
\* targets, commands, sessions, revisions and boots.
THEOREM TypeCorrect == Spec => []TypeOK
<1>1. Init => TypeOK
  BY InitType
<1>2. TypeOK /\ [Next]_vars => TypeOK'
  BY StepType
<1> QED
  BY <1>1, <1>2, PTL DEF Spec

-----------------------------------------------------------------------------
\* Controlled is inductive.

\* When nothing that Controlled speaks of changes but the session, and that at
\* most to nobody, Controlled is kept.
LEMMA QuietControl ==
  ASSUME Controlled, UNCHANGED <<command, generation, active, owner>>,
         session' \in {session, None}
  PROVE  Controlled'
  BY DEF Controlled, NoneAhead, CurrentCommandIsActive, CurrentCommandIsOwners,
         Commands, Live, Ended, Stale, TargetOf

\* When every runner is bumped, every command falls behind.
LEMMA BumpStales ==
  ASSUME TypeOK, Controlled, UNCHANGED command, CanBump(Targets),
         generation' = Bumped(Targets)
  PROVE  \A c \in Commands : c \in Commands' /\ Stale(c)' /\ NoneAhead'
<1>1. \A t \in Targets : generation'[t] = generation[t] + 1 /\ generation[t] \in Nat
  BY BumpedType DEF TypeOK
<1>2. ASSUME NEW c \in Commands
      PROVE  /\ command[c].generation \in Nat
             /\ command[c].generation < generation'[TargetOf(c)]
  <2>1. command[c].generation \in Nat
    BY TargetOfType DEF Records
  <2>2. command[c].generation <= generation[TargetOf(c)]
    BY DEF Controlled, NoneAhead
  <2> QED
    BY <1>1, <2>1, <2>2, TargetOfType
<1>3. Commands' = Commands /\ \A c \in Commands : TargetOf(c)' = TargetOf(c)
  BY DEF Commands, TargetOf
<1>4. \A c \in Commands : generation'[TargetOf(c)] \in Nat
  BY <1>1, TargetOfType
<1>5. \A c \in Commands : Stale(c)'
  BY <1>2, <1>3, <1>4 DEF Stale
<1>6. NoneAhead'
  BY <1>2, <1>3, <1>4 DEF NoneAhead
<1> QED
  BY <1>3, <1>5, <1>6

\* After a bump of every runner nobody has a current command, and Controlled holds
\* whoever holds control (acquire, release, apply).
LEMMA BumpControl ==
  ASSUME TypeOK, Controlled, UNCHANGED command, CanBump(Targets),
         generation' = Bumped(Targets)
  PROVE  Controlled'
<1>1. Commands' = Commands
  BY DEF Commands
<1>2. NoneAhead'
  BY <1>1, BumpStales DEF NoneAhead
<1> QED
  BY <1>1, <1>2, BumpStales DEF Controlled, CurrentCommandIsActive, CurrentCommandIsOwners

\* Concluding a command keeps Controlled: _finish clears the runner only when the
\* concluded record is the one it has ("if self._active is record").
LEMMA FinishControl ==
  ASSUME TypeOK, Controlled, NEW c \in Commands, NEW events, NEW outcome \in Outcomes,
         NEW achieved \in Requirements \cup {None},
         Finish(c, events, outcome, achieved)
  PROVE  Controlled'
<1>1. /\ Commands' = Commands
      /\ \A d \in Commands \ {c} : command'[d] = command[d]
      /\ \A d \in Commands : TargetOf(d)' = TargetOf(d)
      /\ command'[c] = Finished(command[c], outcome, achieved)
      /\ command[c] \in Records
  BY FinishRecord, TargetOfType
<1>2. Ended(c)' /\ command'[c].generation = command[c].generation
  BY <1>1 DEF Ended, Finished, Records
<1>3. UNCHANGED <<generation, owner, session>>
  BY DEF Finish
<1>4. NoneAhead'
  BY <1>1, <1>2, <1>3 DEF Controlled, NoneAhead
<1>5. ASSUME NEW d \in Commands, Live(d)', ~Stale(d)'
      PROVE  active'[TargetOf(d)'] = d /\ session' \in {None, owner'[d]}
  <2>1. d # c
    BY <1>2, <1>5 DEF Live
  <2>2. Live(d) /\ ~Stale(d)
    BY <1>1, <1>3, <1>5, <2>1 DEF Live, Ended, Stale
  <2>3. active[TargetOf(d)] = d /\ session \in {None, owner[d]}
    BY <2>2 DEF Controlled, CurrentCommandIsActive, CurrentCommandIsOwners
  <2>4. active'[TargetOf(d)] = d
    BY <2>1, <2>3, TargetOfType DEF Finish, TypeOK
  <2> QED
    BY <1>1, <1>3, <2>3, <2>4
<1> QED
  BY <1>1, <1>4, <1>5 DEF Controlled, CurrentCommandIsActive, CurrentCommandIsOwners

\* Every turn of the runner keeps Controlled.
LEMMA RunControl ==
  ASSUME TypeOK, Controlled, NEW c \in CommandIds, Run(c)
  PROVE  Controlled'
<1>1. c \in Commands
  BY DEF Run, ExecuteReturns, ExecuteRaises, Executing, Observe, ObserveExpires,
         ObserveCancels, ObserveSucceeds, ObserveRaises, ObserveSleeps, MayAsk, Observing
<1>2. /\ {"SUCCEEDED", "FAILED", "CANCELLED", "EXPIRED"} \subseteq Outcomes
      /\ {"dispatched", "acknowledged", "observed", None} = Requirements \cup {None}
  BY DEF Outcomes, Requirements
<1>3. CASE \E events \in {<<>>, <<"DISPATCHED">>, <<"DISPATCHED", "ACKNOWLEDGED">>},
              outcome \in {"SUCCEEDED", "FAILED", "CANCELLED", "EXPIRED"},
              achieved \in {"dispatched", "acknowledged", "observed", None} :
                Finish(c, events, outcome, achieved)
  BY <1>1, <1>2, <1>3, FinishControl
<1>4. CASE ObserveSleeps(c)
  BY <1>4, QuietControl DEF ObserveSleeps
<1>5. CASE /\ Executing(c)
           /\ command' = [command EXCEPT ![c].status = "OBSERVING"]
           /\ UNCHANGED <<boot, byRequest, owner, runnerVars, sessionVars,
                          configVars>>
  <2>1. /\ Commands' = Commands
        /\ \A d \in Commands \ {c} : command'[d] = command[d]
        /\ command'[c] = [command[c] EXCEPT !.status = "OBSERVING"]
    BY <1>1, <1>5 DEF TypeOK, Commands
  <2>2. /\ command'[c].content = command[c].content
        /\ command'[c].generation = command[c].generation
    BY <1>1, <2>1, TargetOfType DEF Records
  <2>3. \A d \in Commands : Live(d)' => Live(d)
    BY <1>5, <2>1 DEF Live, Ended, Executing
  <2>4. \A d \in Commands : TargetOf(d)' = TargetOf(d) /\ (Stale(d)' <=> Stale(d))
    BY <1>5, <2>1, <2>2 DEF Stale, TargetOf
  <2>5. NoneAhead'
    BY <1>5, <2>1, <2>2, <2>4 DEF Controlled, NoneAhead
  <2> QED
    BY <1>5, <2>1, <2>3, <2>4, <2>5
    DEF Controlled, CurrentCommandIsActive, CurrentCommandIsOwners
<1> QED
  BY <1>3, <1>4, <1>5
  DEF Run, ExecuteReturns, ExecuteRaises, Observe, ObserveExpires, ObserveCancels,
      ObserveSucceeds, ObserveRaises

\* A new command, refused or dispatching, joins those there are: if it lives it
\* is the active one, its session is the one in control, and whatever was current
\* on its target has been bumped.
LEMMA SubmitControl ==
  ASSUME TypeOK, Controlled,
         NEW r \in RequestIds, NEW k \in Contents, NEW s \in SessionIds,
         NEW c \in CommandIds, Submit(r, k, s, c)
  PROVE  Controlled'
<1>1. k.target \in Targets
  BY ContentsAssumption DEF AllContents
<1>2. CASE SubmitRejected(r, k, s, c)
  <2>1. /\ Commands' = Commands \cup {c} /\ c \notin Commands
        /\ command'[c].status = "TERMINAL"
        /\ command'[c].content = k
        /\ command'[c].generation = generation[k.target]
        /\ \A d \in Commands : command'[d] = command[d] /\ owner'[d] = owner[d]
    BY <1>2 DEF TypeOK, SubmitRejected, New, Begin, Put, Commands
  <2>2. UNCHANGED <<generation, active, session>>
    BY <1>2 DEF SubmitRejected
  <2>3. ~Live(c)'
    BY <2>1 DEF Live, Ended
  <2>4. \A d \in Commands : /\ TargetOf(d)' = TargetOf(d)
                            /\ Live(d)' <=> Live(d)
                            /\ Stale(d)' <=> Stale(d)
    BY <2>1, <2>2 DEF TargetOf, Live, Ended, Stale
  <2>5. NoneAhead'
    <3>1. command'[c].generation <= generation'[TargetOf(c)']
      BY <1>1, <2>1, <2>2 DEF TypeOK, TargetOf
    <3> QED
      BY <2>1, <2>2, <2>4, <3>1 DEF Controlled, NoneAhead
  <2> QED
    BY <2>1, <2>2, <2>3, <2>4, <2>5
    DEF Controlled, CurrentCommandIsActive, CurrentCommandIsOwners
<1>3. CASE SubmitDispatching(r, k, s, c)
  <2>1. /\ Commands' = Commands \cup {c} /\ c \notin Commands
        /\ command'[c].content = k
        /\ command'[c].generation = generation'[k.target]
        /\ owner'[c] = s
        /\ \A d \in Commands : command'[d] = command[d] /\ owner'[d] = owner[d]
    BY <1>3 DEF TypeOK, SubmitDispatching, New, Begin, Put, Commands
  <2>2. /\ session' = session /\ session = s
        /\ active'[k.target] = c
        /\ \A t \in Targets \ {k.target} :
             active'[t] = active[t] /\ generation'[t] = generation[t]
    BY <1>1, <1>3 DEF TypeOK, SubmitDispatching, New, Valid, Bumped, Preempts
  <2>3. \A d \in Commands : TargetOf(d)' = TargetOf(d) /\ (Live(d)' <=> Live(d))
    BY <2>1 DEF TargetOf, Live, Ended
  <2>4. \A t \in Targets : generation[t] \in Nat /\ generation'[t] \in Nat
                           /\ generation'[t] >= generation[t]
    BY <1>3 DEF TypeOK, SubmitDispatching, Bumped
  <2>5. NoneAhead'
    <3>1. command'[c].generation <= generation'[TargetOf(c)']
      BY <1>1, <2>1, <2>4 DEF TargetOf
    <3>2. ASSUME NEW d \in Commands
          PROVE  command'[d].generation <= generation'[TargetOf(d)']
      <4>1. command[d].generation \in Nat /\ TargetOf(d) \in Targets
        BY TargetOfType DEF Records
      <4>2. command[d].generation <= generation[TargetOf(d)]
        BY DEF Controlled, NoneAhead
      <4> QED
        BY <2>1, <2>3, <2>4, <4>1, <4>2
    <3> QED
      BY <2>1, <3>1, <3>2 DEF NoneAhead
  <2>6. ASSUME NEW d \in Commands, Live(d)', ~Stale(d)'
        PROVE  TargetOf(d) # k.target /\ Live(d) /\ ~Stale(d)
    <3>1. Live(d)
      BY <2>3, <2>6
    <3>2. command[d].generation \in Nat /\ TargetOf(d) \in Targets
      BY TargetOfType DEF Records
    <3>3. command[d].generation <= generation[TargetOf(d)]
      BY DEF Controlled, NoneAhead
    <3>4. command[d].generation = generation'[TargetOf(d)]
      BY <2>1, <2>3, <2>6 DEF Stale
    <3>5. ~Stale(d)
      BY <2>4, <3>2, <3>3, <3>4 DEF Stale
    <3>6. ASSUME TargetOf(d) = k.target PROVE FALSE
      <4>1. active[k.target] = d
        BY <3>1, <3>5, <3>6 DEF Controlled, CurrentCommandIsActive
      <4>2. Busy(k.target)
        BY <3>1, <4>1, NoneAssumption DEF Busy, Live, TypeOK
      <4>3. generation'[k.target] = generation[k.target] + 1
        BY <1>1, <1>3, <4>2 DEF SubmitDispatching, Bumped, Preempts
      <4> QED
        BY <2>4, <3>2, <3>3, <3>4, <3>6, <4>3
    <3> QED
      BY <3>1, <3>5, <3>6
  <2>7. CurrentCommandIsActive'
    <3>1. TargetOf(c)' = k.target
      BY <2>1 DEF TargetOf
    <3>2. ASSUME NEW d \in Commands, Live(d)', ~Stale(d)'
          PROVE  active'[TargetOf(d)'] = d
      <4>1. active[TargetOf(d)] = d
        BY <2>6, <3>2 DEF Controlled, CurrentCommandIsActive
      <4> QED
        BY <2>2, <2>3, <2>6, <3>2, <4>1, TargetOfType
    <3> QED
      BY <2>1, <2>2, <3>1, <3>2 DEF CurrentCommandIsActive
  <2>8. CurrentCommandIsOwners'
    <3>1. ASSUME NEW d \in Commands, Live(d)', ~Stale(d)'
          PROVE  session' \in {None, owner'[d]}
      BY <2>1, <2>2, <2>6, <3>1 DEF Controlled, CurrentCommandIsOwners
    <3> QED
      BY <2>1, <2>2, <3>1 DEF CurrentCommandIsOwners
  <2> QED
    BY <2>5, <2>7, <2>8 DEF Controlled
<1> QED
  BY <1>2, <1>3 DEF Submit

\* Controlled is inductive relative to TypeOK: one case per operation.
LEMMA StepControl == TypeOK /\ Controlled /\ [Next]_vars => Controlled'
<1> SUFFICES ASSUME TypeOK, Controlled, [Next]_vars PROVE Controlled'
  OBVIOUS
<1>1. CASE \E r \in RequestIds, k \in Contents, s \in SessionIds, c \in CommandIds :
             Submit(r, k, s, c)
  BY <1>1, SubmitControl
<1>2. CASE \E c \in CommandIds : Run(c)
  BY <1>2, RunControl
<1>3. CASE \E s \in SessionIds, d \in Ttls : AcquireSession(s, d)
  BY <1>3, BumpControl DEF AcquireSession
<1>4. CASE \E s \in SessionIds : RenewSession(s)
  BY <1>4, QuietControl DEF RenewSession
<1>5. CASE \E s \in SessionIds : LapseSession(s)
  BY <1>5, QuietControl DEF LapseSession
<1>6. CASE \E s \in SessionIds : ReleaseSession(s)
  BY <1>6, BumpControl DEF ReleaseSession
<1>7. CASE \E rev \in Revisions : StageConfig(rev)
  BY <1>7, QuietControl DEF StageConfig
<1>8. CASE \E rev \in Revisions, expected \in Revisions \cup {None} : Apply(rev, expected)
  BY <1>8, QuietControl, BumpControl
  DEF Apply, ApplyConfigRejected, ApplyConfigSucceeds
<1>9. CASE Tick
  BY <1>9, QuietControl DEF Tick
<1>10. CASE Restart
  BY <1>10 DEF Restart, Empty, Controlled, NoneAhead, CurrentCommandIsActive,
               CurrentCommandIsOwners, Commands
<1>11. CASE UNCHANGED vars
  BY <1>11, QuietControl DEF vars
<1> QED
  BY <1>1, <1>2, <1>3, <1>4, <1>5, <1>6, <1>7, <1>8, <1>9, <1>10, <1>11 DEF Next

\* Every command that can still succeed by observation is the one its runner
\* calls active and belongs to the session in control.
LEMMA ControlIsKept == Spec => []Controlled
<1>1. Init => Controlled
  BY DEF Init, Empty, Controlled, NoneAhead, CurrentCommandIsActive,
         CurrentCommandIsOwners, Commands
<1>2. TypeOK /\ Controlled /\ [Next]_vars => Controlled'
  BY StepControl
<1> QED
  BY <1>1, <1>2, TypeCorrect, PTL DEF Spec

\* With its types, it is what the runs check: nothing that is preempted, taken over or
\* invalidated comes back (target_runner.py:53-54, device_runtime.py:209-214).
THEOREM ControlIsExclusive == Spec => []ControlInv
<1>1. TypeOK /\ Controlled => ControlInv
  BY DEF ControlInv
<1> QED
  BY <1>1, TypeCorrect, ControlIsKept, PTL

\* A target never has two commands of its current generation in flight.
THEOREM OneCurrentCommandAlways == Spec => []OneCurrentCommand
<1>1. Controlled => OneCurrentCommand
  BY DEF Controlled, CurrentCommandIsActive, OneCurrentCommand
<1> QED
  BY <1>1, ControlIsKept, PTL

-----------------------------------------------------------------------------
\* The ledger and the events.

Silent(events) == \A i \in DOMAIN events : events[i] \notin Outcomes

\* Joining two event lists without a completion gives one without a completion.
LEMMA SilentConcat ==
  ASSUME NEW e \in Seq(Statuses \cup Outcomes), NEW f \in Seq(Statuses \cup Outcomes),
         Silent(e), Silent(f)
  PROVE  e \o f \in Seq(Statuses \cup Outcomes) /\ Silent(e \o f)
<1>1. /\ e \o f \in Seq(Statuses \cup Outcomes)
      /\ Len(e \o f) = Len(e) + Len(f)
  OBVIOUS
<1>2. ASSUME NEW i \in DOMAIN (e \o f) PROVE (e \o f)[i] \notin Outcomes
  <2>1. i \in 1..(Len(e) + Len(f))
    BY <1>1
  <2>2. CASE i <= Len(e)
    <3>1. (e \o f)[i] = e[i] /\ i \in DOMAIN e
      BY <2>1, <2>2
    <3> QED
      BY <3>1 DEF Silent
  <2>3. CASE i > Len(e)
    <3>1. (e \o f)[i] = f[i - Len(e)] /\ i - Len(e) \in DOMAIN f
      BY <2>1, <2>3
    <3> QED
      BY <3>1 DEF Silent
  <2> QED
    BY <2>1, <2>2, <2>3
<1> QED
  BY <1>1, <1>2 DEF Silent

\* A completion after a silent list is its only completion and its last event.
LEMMA CompletionLast ==
  ASSUME NEW e \in Seq(Statuses \cup Outcomes), Silent(e), NEW outcome \in Outcomes,
         NEW said, said = e \o <<outcome>>
  PROVE  /\ {i \in DOMAIN said : said[i] \in Outcomes} = {Len(said)}
         /\ said[Len(said)] = outcome
<1>1. /\ said \in Seq(Statuses \cup Outcomes)
      /\ Len(said) = Len(e) + 1
      /\ said[Len(e) + 1] = outcome
      /\ \A i \in 1..Len(e) : said[i] = e[i]
  OBVIOUS
<1>2. \A i \in 1..Len(e) : said[i] \notin Outcomes
  BY <1>1 DEF Silent
<1>3. DOMAIN said = 1..(Len(e) + 1) /\ Len(e) \in Nat
  BY <1>1
<1>4. {i \in DOMAIN said : said[i] \in Outcomes} = {Len(e) + 1}
  BY <1>1, <1>2, <1>3
<1> QED
  BY <1>1, <1>4

NewRecord(r, k, status, outcome, g) ==
  [request |-> r, content |-> k, status |-> status, outcome |-> outcome,
   achieved |-> None, generation |-> g]

\* What a step can do to the ledger.
LedgerUntouched == UNCHANGED <<byRequest, command, published>>

Opens(r, k, c) ==
  /\ r \notin DOMAIN byRequest
  /\ c \notin Commands
  /\ DOMAIN byRequest' = DOMAIN byRequest \cup {r}
  /\ byRequest'[r] = c
  /\ \A q \in DOMAIN byRequest : byRequest'[q] = byRequest[q]
  /\ Commands' = Commands \cup {c}
  /\ \A d \in Commands : command'[d] = command[d] /\ published'[d] = published[d]
  /\ \E g \in Nat :
       \/ /\ command'[c] = NewRecord(r, k, "TERMINAL", "REJECTED", g)
          /\ published'[c] = <<"REJECTED">>
       \/ /\ command'[c] = NewRecord(r, k, "DISPATCHING", None, g)
          /\ published'[c] = <<"DISPATCHING">>

Announces(c, events) ==
  /\ published' = [published EXCEPT ![c] = @ \o events]
  /\ events \in Seq(Statuses \cup Outcomes)
  /\ Silent(events)

Moves(c) ==
  /\ Executing(c)
  /\ command[c].content.requirement = "observed"
  /\ command' = [command EXCEPT ![c].status = "OBSERVING"]
  /\ \E events : Announces(c, events)
  /\ UNCHANGED byRequest

Concludes(c) ==
  /\ Live(c)
  /\ \E events \in Seq(Statuses \cup Outcomes), outcome \in Outcomes \ {"REJECTED"},
        achieved \in Requirements \cup {None} :
       /\ Silent(events)
       /\ achieved # None <=> outcome = "SUCCEEDED"
       /\ achieved # None => achieved = command[c].content.requirement
       /\ Finish(c, events, outcome, achieved)

\* A command runs to an end, moves on to being observed, or nothing is recorded.
LEMMA RunLedger ==
  ASSUME TypeOK, LedgerInv, NEW c \in CommandIds, Run(c)
  PROVE  Concludes(c) \/ Moves(c) \/ LedgerUntouched
<1>1. /\ <<>> \in Seq(Statuses \cup Outcomes)
      /\ <<"DISPATCHED">> \in Seq(Statuses \cup Outcomes)
      /\ <<"DISPATCHED", "ACKNOWLEDGED">> \in Seq(Statuses \cup Outcomes)
      /\ <<"DISPATCHED", "ACKNOWLEDGED", "OBSERVING">> \in Seq(Statuses \cup Outcomes)
  BY DEF Statuses
<1>2. /\ Silent(<<>>)
      /\ Silent(<<"DISPATCHED">>)
      /\ Silent(<<"DISPATCHED", "ACKNOWLEDGED">>)
      /\ Silent(<<"DISPATCHED", "ACKNOWLEDGED", "OBSERVING">>)
  BY DEF Silent, Outcomes
<1>3. /\ {"SUCCEEDED", "FAILED", "CANCELLED", "EXPIRED"} \subseteq Outcomes \ {"REJECTED"}
      /\ {"dispatched", "acknowledged", "observed", None} = Requirements \cup {None}
  BY DEF Outcomes, Requirements
<1>4. /\ None # "dispatched" /\ None # "acknowledged" /\ None # "observed"
  BY NoneAssumption DEF Requirements
<1>5. ASSUME Executing(c), Finish(c, <<>>, "FAILED", None)
      PROVE  Concludes(c)
  BY <1>1, <1>2, <1>3, <1>5 DEF Concludes, Executing, Live, Ended
<1>6. ASSUME Executing(c), command[c].content.requirement = "dispatched",
             Finish(c, <<"DISPATCHED">>, "SUCCEEDED", "dispatched")
      PROVE  Concludes(c)
  BY <1>1, <1>2, <1>3, <1>4, <1>6 DEF Concludes, Executing, Live, Ended
<1>7. ASSUME Executing(c), command[c].content.requirement = "acknowledged",
             Finish(c, <<"DISPATCHED", "ACKNOWLEDGED">>, "SUCCEEDED", "acknowledged")
      PROVE  Concludes(c)
  BY <1>1, <1>2, <1>3, <1>4, <1>7 DEF Concludes, Executing, Live, Ended
<1>8. ASSUME Executing(c), command' = [command EXCEPT ![c].status = "OBSERVING"],
             published' = [published EXCEPT
                             ![c] = @ \o <<"DISPATCHED", "ACKNOWLEDGED", "OBSERVING">>],
             command[c].content.requirement = "observed", UNCHANGED byRequest
      PROVE  Moves(c)
  BY <1>1, <1>2, <1>8 DEF Moves, Announces
<1>9. ASSUME Observing(c), NEW outcome \in {"FAILED", "CANCELLED", "EXPIRED"},
             Finish(c, <<>>, outcome, None)
      PROVE  Concludes(c)
  BY <1>1, <1>2, <1>3, <1>9 DEF Concludes, Observing, Live, Ended
<1>10. ASSUME Observing(c), Finish(c, <<>>, "SUCCEEDED", "observed")
       PROVE  Concludes(c)
  <2>1. command[c].content.requirement = "observed"
    BY <1>10 DEF LedgerInv, ObservedOnRequest, Observing
  <2> QED
    BY <1>1, <1>2, <1>3, <1>4, <1>10, <2>1 DEF Concludes, Observing, Live, Ended
<1>11. CASE ExecuteReturns(c)
  BY <1>6, <1>7, <1>8, <1>11 DEF ExecuteReturns
<1>12. CASE ExecuteRaises(c)
  BY <1>5, <1>12 DEF ExecuteRaises
<1>13. CASE ObserveExpires(c) \/ ObserveCancels(c) \/ ObserveRaises(c)
  BY <1>9, <1>13 DEF ObserveExpires, ObserveCancels, ObserveRaises, MayAsk
<1>14. CASE ObserveSucceeds(c)
  BY <1>10, <1>14 DEF ObserveSucceeds, MayAsk
<1>15. CASE ObserveSleeps(c)
  BY <1>15 DEF ObserveSleeps, LedgerUntouched
<1> QED
  BY <1>11, <1>12, <1>13, <1>14, <1>15 DEF Run, Observe

\* submit_command opens exactly one entry of the ledger (begin).
LEMMA SubmitLedger ==
  ASSUME TypeOK, NEW r \in RequestIds, NEW k \in Contents, NEW s \in SessionIds,
         NEW c \in CommandIds, Submit(r, k, s, c)
  PROVE  Opens(r, k, c)
<1>1. k.target \in Targets
  BY ContentsAssumption DEF AllContents
<1>2. ASSUME NEW record, NEW events, New(r, s, c), Begin(r, s, c, record, events)
      PROVE  /\ r \notin DOMAIN byRequest
             /\ c \notin Commands
             /\ DOMAIN byRequest' = DOMAIN byRequest \cup {r}
             /\ byRequest'[r] = c
             /\ \A q \in DOMAIN byRequest : byRequest'[q] = byRequest[q]
             /\ Commands' = Commands \cup {c}
             /\ \A d \in Commands : command'[d] = command[d] /\ published'[d] = published[d]
             /\ command'[c] = record
             /\ published'[c] = events
  BY <1>2 DEF TypeOK, New, Begin, Put, Commands
<1>3. CASE SubmitRejected(r, k, s, c)
  <2>1. generation[k.target] \in Nat
    BY <1>1 DEF TypeOK
  <2> QED
    BY <1>2, <1>3, <2>1 DEF SubmitRejected, Opens, NewRecord
<1>4. CASE SubmitDispatching(r, k, s, c)
  <2>1. generation'[k.target] \in Nat
    BY <1>1, <1>4 DEF TypeOK, SubmitDispatching, Bumped
  <2> QED
    BY <1>2, <1>4, <2>1 DEF SubmitDispatching, Opens, NewRecord
<1> QED
  BY <1>3, <1>4 DEF Submit

\* Everything a step of the Runtime can do to its ledger.
LEMMA StepLedger ==
  ASSUME TypeOK, LedgerInv, [Next]_vars
  PROVE  \/ LedgerUntouched /\ boot' = boot
         \/ Restart
         \/ /\ boot' = boot
            /\ \E r \in RequestIds, k \in Contents, c \in CommandIds : Opens(r, k, c)
         \/ boot' = boot /\ \E c \in CommandIds : Moves(c) \/ Concludes(c)
<1>1. CASE \E r \in RequestIds, k \in Contents, s \in SessionIds, c \in CommandIds :
             Submit(r, k, s, c)
  BY <1>1, SubmitLedger DEF Submit, SubmitRejected, SubmitDispatching
<1>2. CASE \E c \in CommandIds : Run(c)
  <2>1. boot' = boot
    BY <1>2 DEF Run, ExecuteReturns, ExecuteRaises, Observe, ObserveExpires, ObserveCancels,
                ObserveSucceeds, ObserveRaises, ObserveSleeps, Finish
  <2> QED
    BY <1>2, <2>1, RunLedger
<1>3. CASE \E s \in SessionIds :
             \/ \E d \in Ttls : AcquireSession(s, d)
             \/ RenewSession(s) \/ LapseSession(s) \/ ReleaseSession(s)
  BY <1>3 DEF AcquireSession, RenewSession, LapseSession, ReleaseSession, LedgerUntouched
<1>4. CASE \E rev \in Revisions :
             StageConfig(rev) \/ \E expected \in Revisions \cup {None} : Apply(rev, expected)
  BY <1>4 DEF StageConfig, Apply, ApplyConfigRejected, ApplyConfigSucceeds, LedgerUntouched
<1>5. CASE Tick
  BY <1>5 DEF Tick, LedgerUntouched
<1>6. CASE UNCHANGED vars
  BY <1>6 DEF vars, LedgerUntouched
<1> QED
  BY <1>1, <1>2, <1>3, <1>4, <1>5, <1>6 DEF Next

\* Operations on sessions, configuration and clock do not disturb the ledger.
LEMMA UntouchedLedger == ASSUME LedgerInv, LedgerUntouched PROVE LedgerInv'
  BY DEF LedgerInv, LedgerUntouched, OneCommandPerRequest, CompletionAnnouncedOnce,
         AchievedAsRequired, ObservedOnRequest, Commands, Ended

\* A new entry is consistent: its request id was free and its command id fresh.
LEMMA OpensLedger ==
  ASSUME TypeOK, LedgerInv, NEW r \in RequestIds, NEW k \in Contents,
         NEW c \in CommandIds, Opens(r, k, c)
  PROVE  LedgerInv'
<1>1. /\ Commands' = Commands \cup {c} /\ c \notin Commands
      /\ \A d \in Commands : command'[d] = command[d] /\ published'[d] = published[d]
  BY DEF Opens
<1>2. OneCommandPerRequest'
  <2>1. /\ r \notin DOMAIN byRequest /\ DOMAIN byRequest' = DOMAIN byRequest \cup {r}
        /\ byRequest'[r] = c
        /\ \A q \in DOMAIN byRequest : byRequest'[q] = byRequest[q]
        /\ command'[c].request = r
    BY DEF Opens, NewRecord
  <2> QED
    BY <1>1, <2>1 DEF LedgerInv, OneCommandPerRequest
<1>3. PICK g \in Nat :
        \/ /\ command'[c] = NewRecord(r, k, "TERMINAL", "REJECTED", g)
           /\ published'[c] = <<"REJECTED">>
        \/ /\ command'[c] = NewRecord(r, k, "DISPATCHING", None, g)
           /\ published'[c] = <<"DISPATCHING">>
  BY DEF Opens
<1>4. CompletionAnnouncedOnce'
  <2>1. CASE /\ command'[c] = NewRecord(r, k, "TERMINAL", "REJECTED", g)
             /\ published'[c] = <<"REJECTED">>
    <3>1. Ended(c)' /\ command'[c].outcome = "REJECTED"
      BY <2>1 DEF Ended, NewRecord
    <3>2. /\ DOMAIN published'[c] = {1} /\ Len(published'[c]) = 1
          /\ published'[c][1] = "REJECTED" /\ "REJECTED" \in Outcomes
      BY <2>1 DEF Outcomes
    <3> QED
      BY <1>1, <3>1, <3>2 DEF LedgerInv, CompletionAnnouncedOnce, Ended
  <2>2. CASE /\ command'[c] = NewRecord(r, k, "DISPATCHING", None, g)
             /\ published'[c] = <<"DISPATCHING">>
    <3>1. ~Ended(c)'
      BY <2>2 DEF Ended, NewRecord
    <3>2. /\ DOMAIN published'[c] = {1}
          /\ published'[c][1] = "DISPATCHING" /\ "DISPATCHING" \notin Outcomes
      BY <2>2 DEF Outcomes
    <3> QED
      BY <1>1, <3>1, <3>2 DEF LedgerInv, CompletionAnnouncedOnce, Ended
  <2> QED
    BY <1>3, <2>1, <2>2
<1>5. AchievedAsRequired' /\ ObservedOnRequest'
  <2>1. /\ command'[c].outcome # None <=> command'[c].status = "TERMINAL"
        /\ command'[c].achieved = None
        /\ command'[c].outcome # "SUCCEEDED"
        /\ command'[c].outcome = "REJECTED" => published'[c] = <<"REJECTED">>
        /\ command'[c].status # "OBSERVING"
    BY <1>3, NoneAssumption DEF NewRecord, Outcomes
  <2> QED
    BY <1>1, <2>1 DEF LedgerInv, AchievedAsRequired, ObservedOnRequest, Ended
<1> QED
  BY <1>2, <1>4, <1>5 DEF LedgerInv

\* Moving on to OBSERVING announces no completion and records no outcome.
LEMMA MovesLedger ==
  ASSUME TypeOK, LedgerInv, NEW c \in CommandIds, Moves(c)
  PROVE  LedgerInv'
<1>1. c \in Commands /\ ~Ended(c) /\ command[c].content.requirement = "observed"
  BY DEF Moves, Executing, Ended
<1>2. /\ Commands' = Commands /\ byRequest' = byRequest
      /\ \A d \in Commands \ {c} : command'[d] = command[d]
      /\ command'[c] = [command[c] EXCEPT !.status = "OBSERVING"]
  BY <1>1 DEF Moves, TypeOK, Commands
<1>3. /\ command[c] \in Records
      /\ command'[c].request = command[c].request
      /\ command'[c].content = command[c].content
      /\ command'[c].outcome = command[c].outcome
      /\ command'[c].achieved = command[c].achieved
      /\ command'[c].status = "OBSERVING"
  BY <1>1, <1>2, TargetOfType DEF Records
<1>4. OneCommandPerRequest'
  <2>1. \A d \in Commands : command'[d].request = command[d].request
    BY <1>2, <1>3
  <2>2. \A q \in DOMAIN byRequest : byRequest[q] \in Commands
    BY DEF LedgerInv, OneCommandPerRequest
  <2> QED
    BY <1>2, <2>1, <2>2 DEF LedgerInv, OneCommandPerRequest
<1>5. PICK events : Announces(c, events)
  BY DEF Moves
<1>6. /\ \A d \in Commands \ {c} : published'[d] = published[d]
      /\ published'[c] = published[c] \o events
  BY <1>1, <1>5 DEF Announces, TypeOK
<1>7. Silent(published'[c])
  <2>1. published[c] \in Seq(Statuses \cup Outcomes) /\ Silent(published[c])
    BY <1>1 DEF TypeOK, LedgerInv, CompletionAnnouncedOnce, Silent
  <2> QED
    BY <1>5, <1>6, <2>1, SilentConcat DEF Announces
<1>8. CompletionAnnouncedOnce'
  <2>1. ~Ended(c)'
    BY <1>3 DEF Ended
  <2> QED
    BY <1>2, <1>6, <1>7, <2>1 DEF LedgerInv, CompletionAnnouncedOnce, Silent, Ended
<1>9. AchievedAsRequired' /\ ObservedOnRequest'
  <2>1. command[c].outcome = None /\ command[c].achieved = None
    BY <1>1, NoneAssumption DEF LedgerInv, AchievedAsRequired, Outcomes
  <2>2. None # "REJECTED" /\ None # "SUCCEEDED"
    BY NoneAssumption DEF Outcomes
  <2>3. \A d \in Commands \ {c} : command'[d] = command[d] /\ published'[d] = published[d]
    BY <1>2, <1>6
  <2>4. /\ command'[c].outcome = None /\ command'[c].achieved = None
        /\ command'[c].status = "OBSERVING"
        /\ command'[c].content.requirement = "observed"
    BY <1>1, <1>3, <2>1
  <2>5. AchievedAsRequired'
    <3> DEFINE OK(d) == /\ command[d].outcome # None <=> command[d].status = "TERMINAL"
                        /\ command[d].achieved # None <=> command[d].outcome = "SUCCEEDED"
                        /\ command[d].achieved # None =>
                             command[d].achieved = command[d].content.requirement
                        /\ command[d].outcome = "REJECTED" => published[d] = <<"REJECTED">>
    <3>1. \A d \in Commands : OK(d)
      BY DEF LedgerInv, AchievedAsRequired, Ended
    <3>2. OK(c)'
      BY <2>2, <2>4
    <3>3. \A d \in Commands \ {c} : OK(d)'
      BY <2>3, <3>1
    <3>4. \A d \in Commands' : OK(d)'
      BY <1>2, <3>2, <3>3
    <3> QED
      BY <3>4 DEF AchievedAsRequired, Ended
  <2>6. ObservedOnRequest'
    BY <1>2, <2>3, <2>4 DEF LedgerInv, ObservedOnRequest
  <2> QED
    BY <2>5, <2>6
<1> QED
  BY <1>4, <1>8, <1>9 DEF LedgerInv

\* Concluding a command that had not ended announces one completion, the last
\* event of the command, with the outcome on record (_finish, _on_command_change).
LEMMA ConcludesLedger ==
  ASSUME TypeOK, LedgerInv, NEW c \in CommandIds, Concludes(c)
  PROVE  LedgerInv'
<1>1. c \in Commands /\ ~Ended(c)
  BY DEF Concludes, Live
<1>2. PICK events \in Seq(Statuses \cup Outcomes), outcome \in Outcomes \ {"REJECTED"},
           achieved \in Requirements \cup {None} :
        /\ Silent(events)
        /\ achieved # None <=> outcome = "SUCCEEDED"
        /\ achieved # None => achieved = command[c].content.requirement
        /\ Finish(c, events, outcome, achieved)
  BY DEF Concludes
<1>3. /\ Commands' = Commands
      /\ \A d \in Commands \ {c} : command'[d] = command[d]
      /\ command'[c] = Finished(command[c], outcome, achieved)
      /\ command[c] \in Records
  BY <1>1, <1>2, FinishRecord, TargetOfType
<1>4. /\ command'[c].request = command[c].request
      /\ command'[c].content = command[c].content
      /\ command'[c].outcome = outcome
      /\ command'[c].achieved = achieved
      /\ command'[c].status = "TERMINAL"
  BY <1>3 DEF Finished, Records
<1>5. OneCommandPerRequest'
  <2>1. \A d \in Commands : command'[d].request = command[d].request
    BY <1>3, <1>4
  <2>2. \A q \in DOMAIN byRequest : byRequest[q] \in Commands
    BY DEF LedgerInv, OneCommandPerRequest
  <2>3. byRequest' = byRequest
    BY <1>2 DEF Finish
  <2> QED
    BY <1>3, <2>1, <2>2, <2>3 DEF LedgerInv, OneCommandPerRequest
<1>6. /\ \A d \in Commands \ {c} : published'[d] = published[d]
      /\ published'[c] = published[c] \o events \o <<outcome>>
  BY <1>1, <1>2 DEF Finish, TypeOK
<1>7. CompletionAnnouncedOnce'
  <2>1. published[c] \in Seq(Statuses \cup Outcomes) /\ Silent(published[c])
    BY <1>1 DEF TypeOK, LedgerInv, CompletionAnnouncedOnce, Silent
  <2>2. /\ published[c] \o events \in Seq(Statuses \cup Outcomes)
        /\ Silent(published[c] \o events)
    BY <1>2, <2>1, SilentConcat
  <2>3. /\ {i \in DOMAIN published'[c] : published'[c][i] \in Outcomes}
             = {Len(published'[c])}
        /\ published'[c][Len(published'[c])] = outcome
    <3> DEFINE before == published[c] \o events
               said == published'[c]
    <3>1. before \in Seq(Statuses \cup Outcomes) /\ Silent(before)
      BY <2>2
    <3>2. said = before \o <<outcome>> /\ outcome \in Outcomes
      BY <1>2, <1>6
    <3> HIDE DEF before, said
    <3>3. {i \in DOMAIN said : said[i] \in Outcomes} = {Len(said)} /\ said[Len(said)] = outcome
      BY <3>1, <3>2, CompletionLast
    <3> QED
      BY <3>3 DEF said
  <2>4. Ended(c)' /\ \A d \in Commands \ {c} : Ended(d)' <=> Ended(d)
    BY <1>3, <1>4 DEF Ended
  <2> QED
    <3>1. ASSUME NEW d \in Commands \ {c}
          PROVE  /\ published'[d] = published[d] /\ command'[d].outcome = command[d].outcome
                 /\ Ended(d)' <=> Ended(d)
      BY <1>3, <1>6, <2>4
    <3>2. command'[c].outcome = outcome
      BY <1>4
    <3> QED
      BY <1>3, <2>3, <2>4, <3>1, <3>2 DEF LedgerInv, CompletionAnnouncedOnce
<1>8. AchievedAsRequired' /\ ObservedOnRequest'
  <2>1. outcome # None
    BY <1>2, NoneAssumption
  <2>2. ASSUME NEW d \in Commands \ {c}
        PROVE  published'[d] = published[d] /\ command'[d] = command[d]
    BY <1>3, <1>6
  <2>3. ObservedOnRequest'
    BY <1>3, <1>4, <2>2 DEF LedgerInv, ObservedOnRequest
  <2>4. outcome # "REJECTED" /\ (achieved # None <=> outcome = "SUCCEEDED")
        /\ (achieved # None => achieved = command[c].content.requirement)
    BY <1>2
  <2>5. AchievedAsRequired'
    BY <1>3, <1>4, <2>1, <2>2, <2>4 DEF LedgerInv, AchievedAsRequired, Ended
  <2> QED
    BY <2>3, <2>5
<1> QED
  BY <1>5, <1>7, <1>8 DEF LedgerInv

\* A ledger that was just emptied satisfies everything.
LEMMA EmptyLedger ==
  ASSUME byRequest = Empty, command = Empty
  PROVE  LedgerInv
  BY DEF Empty, LedgerInv, OneCommandPerRequest, CompletionAnnouncedOnce,
         AchievedAsRequired, ObservedOnRequest, Commands

\* LedgerInv is inductive relative to TypeOK.
LEMMA StepLedgerInv == TypeOK /\ LedgerInv /\ [Next]_vars => LedgerInv'
<1> SUFFICES ASSUME TypeOK, LedgerInv, [Next]_vars PROVE LedgerInv'
  OBVIOUS
<1>1. CASE LedgerUntouched
  BY <1>1, UntouchedLedger
<1>2. CASE Restart
  BY <1>2 DEF Restart, Empty, LedgerInv, OneCommandPerRequest, CompletionAnnouncedOnce,
              AchievedAsRequired, ObservedOnRequest, Commands
<1>3. CASE \E r \in RequestIds, k \in Contents, c \in CommandIds : Opens(r, k, c)
  BY <1>3, OpensLedger
<1>4. CASE \E c \in CommandIds : Moves(c) \/ Concludes(c)
  BY <1>4, MovesLedger, ConcludesLedger
<1> QED
  BY <1>1, <1>2, <1>3, <1>4, StepLedger

\* A request id is executed at most once, its end is announced exactly once and
\* last, with the outcome on record, and achieved is what was asked for.
THEOREM LedgerIsConsistent == Spec => []LedgerInv
<1>1. Init => LedgerInv
  BY EmptyLedger DEF Init
<1>2. TypeOK /\ LedgerInv /\ [Next]_vars => LedgerInv'
  BY StepLedgerInv
<1> QED
  BY <1>1, <1>2, TypeCorrect, PTL DEF Spec

-----------------------------------------------------------------------------
\* What no step may do.

\* A record that has ended is not touched again: only a live command moves on or
\* is concluded, and the ledger forgets nothing while the process lives.
THEOREM OutcomesAreFinal == Spec => TerminalIsFinal
<1> DEFINE Kept == \A c \in Commands :
                     Ended(c) /\ boot' = boot =>
                       c \in Commands' /\ command'[c] = command[c] /\ published'[c] = published[c]
<1>1. ASSUME TypeOK, LedgerInv, [Next]_vars PROVE Kept
  <2>1. CASE LedgerUntouched
    BY <2>1 DEF LedgerUntouched, Commands
  <2>2. CASE Restart
    <3>1. boot' # boot
      BY <1>1, <2>2 DEF Restart, TypeOK
    <3> QED
      BY <3>1
  <2>3. CASE \E r \in RequestIds, k \in Contents, c \in CommandIds : Opens(r, k, c)
    BY <2>3 DEF Opens
  <2>4. ASSUME NEW c \in CommandIds, Moves(c) \/ Concludes(c) PROVE Kept
    <3>1. c \in Commands /\ ~Ended(c)
      BY <2>4 DEF Moves, Executing, Concludes, Live, Ended
    <3>2. \A d \in Commands \ {c} :
            d \in Commands' /\ command'[d] = command[d] /\ published'[d] = published[d]
      <4>1. CASE Moves(c)
        BY <1>1, <3>1, <4>1 DEF Moves, Announces, TypeOK, Commands
      <4>2. CASE Concludes(c)
        BY <1>1, <3>1, <4>2 DEF Concludes, Finish, TypeOK, Commands
      <4> QED
        BY <2>4, <4>1, <4>2
    <3> QED
      BY <3>1, <3>2
  <2> QED
    BY <1>1, <2>1, <2>2, <2>3, <2>4, StepLedger
<1>2. TypeOK /\ LedgerInv /\ [Next]_vars => [Kept]_vars
  BY <1>1
<1> QED
  BY <1>2, TypeCorrect, LedgerIsConsistent, PTL DEF Spec, TerminalIsFinal

\* A success by observation is credited to the latest command of the target only,
\* and to nobody but the holder of control.
THEOREM ObservationIsOfLatest == Spec => ObservedSuccessIsLatest
<1> DEFINE Credited == \A c \in Commands :
             Live(c) /\ boot' = boot /\ command'[c].achieved = "observed" =>
               /\ active[TargetOf(c)] = c
               /\ session \in {None, owner[c]}
               /\ \A d \in Commands \ {c} :
                    Live(d) /\ TargetOf(d) = TargetOf(c) => Stale(d)
<1>1. ASSUME TypeOK, LedgerInv, Controlled, [Next]_vars,
             NEW c \in Commands, Live(c), boot' = boot, command'[c].achieved = "observed"
      PROVE  ~Stale(c)
  <2>1. command[c].achieved = None /\ None # "observed"
    BY <1>1, NoneAssumption
    DEF LedgerInv, AchievedAsRequired, Live, Outcomes, Requirements
  <2>2. command'[c] # command[c]
    BY <1>1, <2>1
  <2>3. CASE \E d \in CommandIds : Run(d)
    <3>1. PICK d \in CommandIds : Run(d)
      BY <2>3
    <3>2. ASSUME NEW e \in Commands, NEW events, NEW outcome \in Outcomes,
                 NEW achieved \in Requirements \cup {None},
                 Finish(e, events, outcome, achieved)
          PROVE  e = c /\ achieved = "observed"
      <4>1. /\ command'[e] = Finished(command[e], outcome, achieved)
            /\ \A x \in Commands \ {e} : command'[x] = command[x]
            /\ command[e] \in Records
        BY <1>1, <3>2, FinishRecord, TargetOfType
      <4> QED
        BY <1>1, <2>2, <4>1 DEF Finished, Records
    <3>3. {"SUCCEEDED", "FAILED", "CANCELLED", "EXPIRED"} \subseteq Outcomes
          /\ {"dispatched", "acknowledged", "observed"} = Requirements
      BY DEF Outcomes, Requirements
    <3>4. CASE ExecuteReturns(d)
      <4>1. d \in Commands
        BY <3>4 DEF ExecuteReturns, Executing
      <4>2. ~Finish(d, <<"DISPATCHED">>, "SUCCEEDED", "dispatched")
            /\ ~Finish(d, <<"DISPATCHED", "ACKNOWLEDGED">>, "SUCCEEDED", "acknowledged")
        BY <3>2, <3>3, <4>1
      <4>3. command' = [command EXCEPT ![d].status = "OBSERVING"]
        BY <3>4, <4>2 DEF ExecuteReturns
      <4>4. command'[c].achieved = command[c].achieved
        BY <1>1, <4>3, TargetOfType DEF TypeOK, Records, Commands
      <4> QED
        BY <1>1, <2>1, <4>4
    <3>5. CASE ExecuteRaises(d) \/ ObserveExpires(d) \/ ObserveCancels(d) \/ ObserveRaises(d)
      BY <2>1, <3>2, <3>3, <3>5
      DEF ExecuteRaises, Executing, ObserveExpires, ObserveCancels, ObserveRaises, MayAsk,
          Observing
    <3>6. CASE ObserveSucceeds(d)
      <4>1. d \in Commands /\ ~Stale(d)
        BY <3>6 DEF ObserveSucceeds, MayAsk, Observing
      <4>2. d = c
        BY <3>2, <3>3, <3>6, <4>1 DEF ObserveSucceeds
      <4> QED
        BY <4>1, <4>2
    <3>7. CASE ObserveSleeps(d)
      BY <2>2, <3>7 DEF ObserveSleeps
    <3> QED
      BY <3>1, <3>4, <3>5, <3>6, <3>7 DEF Run, Observe
  <2>4. CASE \E r \in RequestIds, k \in Contents, s \in SessionIds, d \in CommandIds :
               Submit(r, k, s, d)
    <3>1. \E r \in RequestIds, k \in Contents, d \in CommandIds : Opens(r, k, d)
      BY <1>1, <2>4, SubmitLedger
    <3> QED
      BY <1>1, <2>2, <3>1 DEF Opens
  <2>5. CASE Restart
    BY <1>1, <2>5 DEF Restart, TypeOK
  <2>6. CASE \E s \in SessionIds :
               \/ \E d \in Ttls : AcquireSession(s, d)
               \/ RenewSession(s) \/ LapseSession(s) \/ ReleaseSession(s)
    BY <2>2, <2>6 DEF AcquireSession, RenewSession, LapseSession, ReleaseSession
  <2>7. CASE \E rev \in Revisions :
               StageConfig(rev) \/ \E x \in Revisions \cup {None} : Apply(rev, x)
    BY <2>2, <2>7 DEF StageConfig, Apply, ApplyConfigRejected, ApplyConfigSucceeds
  <2>8. CASE Tick \/ UNCHANGED vars
    BY <2>2, <2>8 DEF Tick, vars
  <2> QED
    BY <1>1, <2>3, <2>4, <2>5, <2>6, <2>7, <2>8 DEF Next
<1>2. ASSUME Controlled, NEW c \in Commands, Live(c), ~Stale(c)
      PROVE  /\ active[TargetOf(c)] = c
             /\ session \in {None, owner[c]}
             /\ \A d \in Commands \ {c} : Live(d) /\ TargetOf(d) = TargetOf(c) => Stale(d)
  BY <1>2 DEF Controlled, CurrentCommandIsActive, CurrentCommandIsOwners
<1>3. TypeOK /\ LedgerInv /\ Controlled /\ [Next]_vars => [Credited]_vars
  BY <1>1, <1>2
<1> QED
  BY <1>3, TypeCorrect, LedgerIsConsistent, ControlIsKept, PTL
  DEF Spec, ObservedSuccessIsLatest

\* An Apply that takes effect leaves no current command in flight: the guard sees
\* every one of them as busy.
THEOREM ApplyLeavesNothingCurrent == Spec => ApplyInvalidates
<1> DEFINE Invalidated == active_revision' # active_revision /\ boot' = boot =>
                            \A c \in Commands : Live(c) => Stale(c)
<1>1. ASSUME TypeOK, Controlled, [Next]_vars, active_revision' # active_revision, boot' = boot,
             NEW c \in Commands, Live(c)
      PROVE  Stale(c)
  <2>1. Quiet
    <3>1. CASE \E r \in RequestIds, k \in Contents, s \in SessionIds, d \in CommandIds :
                 Submit(r, k, s, d)
      BY <1>1, <3>1 DEF Submit, SubmitRejected, SubmitDispatching
    <3>2. CASE \E d \in CommandIds : Run(d)
      BY <1>1, <3>2 DEF Run, ExecuteReturns, ExecuteRaises, Observe, ObserveExpires,
                        ObserveCancels, ObserveSucceeds, ObserveRaises, ObserveSleeps, Finish
    <3>3. CASE \E s \in SessionIds :
                 \/ \E d \in Ttls : AcquireSession(s, d)
                 \/ RenewSession(s) \/ LapseSession(s) \/ ReleaseSession(s)
      BY <1>1, <3>3 DEF AcquireSession, RenewSession, LapseSession, ReleaseSession
    <3>4. CASE \E rev \in Revisions : StageConfig(rev)
      BY <1>1, <3>4 DEF StageConfig, Config!Stage
    <3>5. CASE \E rev \in Revisions, expected \in Revisions \cup {None} : Apply(rev, expected)
      BY <1>1, <3>5
      DEF Apply, ApplyConfigRejected, ApplyConfigSucceeds, Config!ApplyRefused
    <3>6. CASE Restart
      BY <1>1, <3>6 DEF Restart, TypeOK
    <3>7. CASE Tick \/ UNCHANGED vars
      BY <1>1, <3>7 DEF Tick, vars
    <3> QED
      BY <1>1, <3>1, <3>2, <3>3, <3>4, <3>5, <3>6, <3>7 DEF Next
  <2>2. ASSUME ~Stale(c) PROVE FALSE
    <3>1. active[TargetOf(c)] = c
      BY <1>1, <2>2 DEF Controlled, CurrentCommandIsActive
    <3>2. c # None
      BY <1>1, NoneAssumption DEF TypeOK
    <3>3. Busy(TargetOf(c))
      BY <1>1, <3>1, <3>2 DEF Busy, Live
    <3> QED
      BY <1>1, <2>1, <3>3, TargetOfType DEF Quiet
  <2> QED
    BY <2>2
<1>2. TypeOK /\ Controlled /\ [Next]_vars => [Invalidated]_vars
  BY <1>1
<1> QED
  BY <1>2, TypeCorrect, ControlIsKept, PTL DEF Spec, ApplyInvalidates

-----------------------------------------------------------------------------
\* The Runtime implements CommandContract.

\* What leaves the ledger alone changes no answer a client can get.
LEMMA SameResult ==
  ASSUME LedgerInv, byRequest' = byRequest,
         \A c \in Commands : /\ Ended(c)' <=> Ended(c)
                             /\ command'[c].outcome = command[c].outcome
  PROVE  \A r \in RequestIds : ResultOf(r)' = ResultOf(r)
<1>1. \A r \in DOMAIN byRequest : byRequest[r] \in Commands
  BY DEF LedgerInv, OneCommandPerRequest
<1> QED
  BY <1>1 DEF ResultOf

\* A new entry answers one unknown request: refused for good, or pending.
LEMMA OpensResult ==
  ASSUME TypeOK, LedgerInv, NEW r \in RequestIds, NEW k \in Contents,
         NEW c \in CommandIds, Opens(r, k, c)
  PROVE  /\ ResultOf(r) = "unknown"
         /\ ResultOf(r)' \in {"pending", "REJECTED"}
         /\ \A q \in RequestIds \ {r} : ResultOf(q)' = ResultOf(q)
<1>1. ResultOf(r) = "unknown"
  BY DEF Opens, ResultOf
<1>2. ResultOf(r)' \in {"pending", "REJECTED"}
  <2>1. r \in DOMAIN byRequest' /\ byRequest'[r] = c
    BY DEF Opens
  <2>2. \/ command'[c].status = "TERMINAL" /\ command'[c].outcome = "REJECTED"
        \/ command'[c].status = "DISPATCHING"
    BY DEF Opens, NewRecord
  <2> QED
    BY <2>1, <2>2 DEF ResultOf, Ended
<1>3. ASSUME NEW q \in RequestIds \ {r} PROVE ResultOf(q)' = ResultOf(q)
  <2>1. /\ q \in DOMAIN byRequest' <=> q \in DOMAIN byRequest
        /\ q \in DOMAIN byRequest => /\ byRequest'[q] = byRequest[q]
                                     /\ byRequest[q] \in Commands
    BY DEF Opens, LedgerInv, OneCommandPerRequest
  <2>2. \A d \in Commands : command'[d] = command[d]
    BY DEF Opens
  <2> QED
    BY <2>1, <2>2 DEF ResultOf, Ended
<1> QED
  BY <1>1, <1>2, <1>3

\* Concluding a command resolves its own request and no other.
LEMMA ConcludesResult ==
  ASSUME TypeOK, LedgerInv, NEW c \in CommandIds, Concludes(c),
         NEW r, r = command[c].request
  PROVE  /\ r \in RequestIds
         /\ ResultOf(r) = "pending"
         /\ ResultOf(r)' \in {"SUCCEEDED", "FAILED", "CANCELLED", "EXPIRED"}
         /\ \A q \in RequestIds \ {r} : ResultOf(q)' = ResultOf(q)
<1>1. c \in Commands /\ ~Ended(c)
  BY DEF Concludes, Live
<1>2. r \in RequestIds /\ r \in DOMAIN byRequest /\ byRequest[r] = c
  BY <1>1, TargetOfType DEF LedgerInv, OneCommandPerRequest, Records
<1>3. PICK events \in Seq(Statuses \cup Outcomes), outcome \in Outcomes \ {"REJECTED"},
           achieved \in Requirements \cup {None} : Finish(c, events, outcome, achieved)
  BY DEF Concludes
<1>4. /\ \A d \in Commands \ {c} : command'[d] = command[d]
      /\ command'[c] = Finished(command[c], outcome, achieved)
      /\ command[c] \in Records
      /\ byRequest' = byRequest
  <2>1. byRequest' = byRequest
    BY <1>3 DEF Finish
  <2> QED
    BY <1>1, <1>3, <2>1, FinishRecord, TargetOfType
<1>5. command'[c].status = "TERMINAL" /\ command'[c].outcome = outcome
  BY <1>4 DEF Finished, Records
<1>6. ResultOf(r) = "pending"
  BY <1>1, <1>2 DEF ResultOf
<1>7. ResultOf(r)' = outcome
  BY <1>2, <1>4, <1>5 DEF ResultOf, Ended
<1>8. ASSUME NEW q \in RequestIds \ {r} PROVE ResultOf(q)' = ResultOf(q)
  <2>1. q \in DOMAIN byRequest => byRequest[q] \in Commands \ {c}
    BY <1>2 DEF LedgerInv, OneCommandPerRequest
  <2> QED
    BY <1>4, <2>1 DEF ResultOf, Ended
<1> QED
  BY <1>2, <1>3, <1>6, <1>7, <1>8 DEF Outcomes

\* Every step of the Runtime is a step of the contract, or leaves it alone.
LEMMA StepContract ==
  TypeOK /\ LedgerInv /\ [Next]_vars => Contract!Next \/ UNCHANGED Results
<1> SUFFICES ASSUME TypeOK, LedgerInv, [Next]_vars
             PROVE  Contract!Next \/ UNCHANGED Results
  OBVIOUS
<1>1. CASE LedgerUntouched
  <2>1. \A r \in RequestIds : ResultOf(r)' = ResultOf(r)
    BY <1>1, SameResult DEF LedgerUntouched, Ended
  <2> QED
    BY <2>1 DEF Results
<1>2. CASE Restart
  <2>1. \A r \in RequestIds : ResultOf(r)' = "unknown"
    BY <1>2 DEF Restart, Empty, ResultOf
  <2> QED
    BY <2>1 DEF Contract!Next, Contract!Forget, Results
<1>3. ASSUME NEW r \in RequestIds, NEW k \in Contents, NEW c \in CommandIds, Opens(r, k, c)
      PROVE  Contract!Next
  <2>1. /\ Results[r] = "unknown"
        /\ Results' = [Results EXCEPT ![r] = ResultOf(r)']
        /\ ResultOf(r)' \in {"pending", "REJECTED"}
    BY <1>3, OpensResult DEF Results
  <2>2. Contract!Accept(r) \/ Contract!Refuse(r)
    BY <2>1 DEF Contract!Accept, Contract!Refuse
  <2> QED
    BY <2>2 DEF Contract!Next
<1>4. ASSUME NEW c \in CommandIds, Moves(c)
      PROVE  UNCHANGED Results
  <2>1. /\ \A d \in Commands \ {c} : command'[d] = command[d]
        /\ c \in Commands /\ command[c] \in Records /\ command[c].status = "DISPATCHING"
        /\ command'[c] = [command[c] EXCEPT !.status = "OBSERVING"]
    BY <1>4, TargetOfType DEF Moves, Executing, TypeOK, Commands
  <2>2. command'[c].status = "OBSERVING" /\ command'[c].outcome = command[c].outcome
    BY <2>1 DEF Records
  <2>3. \A d \in Commands : /\ Ended(d)' <=> Ended(d)
                            /\ command'[d].outcome = command[d].outcome
    BY <2>1, <2>2 DEF Ended
  <2>4. \A r \in RequestIds : ResultOf(r)' = ResultOf(r)
    BY <1>4, <2>3, SameResult DEF Moves
  <2> QED
    BY <2>4 DEF Results
<1>5. ASSUME NEW c \in CommandIds, Concludes(c)
      PROVE  Contract!Next
  <2> PICK r : r = command[c].request
    OBVIOUS
  <2>1. /\ r \in RequestIds
        /\ Results[r] = "pending"
        /\ Results' = [Results EXCEPT ![r] = ResultOf(r)']
        /\ ResultOf(r)' \in Contract!Resolutions
    BY <1>5, ConcludesResult DEF Results, Contract!Resolutions
  <2>2. Contract!Resolve(r)
    BY <2>1 DEF Contract!Resolve
  <2> QED
    BY <2>1, <2>2 DEF Contract!Next
<1> QED
  BY <1>1, <1>2, <1>3, <1>4, <1>5, StepLedger

\* Every behaviour of the Runtime is one of the contract: a request id is
\* answered at most once per boot, refused for good or accepted and resolved.
THEOREM RuntimeImplementsContract == Spec => ImplementsContract
<1>1. Init => Contract!Init
  BY DEF Init, Empty, Contract!Init, Results, ResultOf
<1>2. TypeOK /\ LedgerInv /\ [Next]_vars => [Contract!Next]_Results
  BY StepContract
<1> QED
  BY <1>1, <1>2, TypeCorrect, LedgerIsConsistent, PTL
  DEF Spec, ImplementsContract, Contract!Spec

-----------------------------------------------------------------------------
\* Recording an attempt keeps the journal in agreement with the revision in force: a
\* success becomes both, and what is forgotten is older than what is kept.
LEMMA RecordAgrees ==
  ASSUME Config!ConfigTypeOK, JournalNamesActive, NEW rev, NEW outcome,
         Config!Record(rev, outcome),
         active_revision' = IF outcome = "SUCCEEDED" THEN rev ELSE active_revision
  PROVE  JournalNamesActive'
<1> DEFINE entry == [revision |-> rev, outcome |-> outcome]
           longer == Append(journal, entry)
           n == Len(journal)
<1>a. journal \in Seq(Config!ApplyRecords) /\ n \in Nat
  BY DEF Config!ConfigTypeOK
<1>1. /\ longer \in Seq(Config!ApplyRecords \cup {entry}) /\ Len(longer) = n + 1
      /\ \A i \in 1..n : longer[i] = journal[i]
      /\ longer[n + 1] = entry /\ entry.revision = rev /\ entry.outcome = outcome
  BY <1>a
<1>2. PICK d \in {0, 1} : /\ Len(journal') = n + 1 - d /\ Len(journal') > 0
                          /\ DOMAIN journal' = 1..(n + 1 - d)
                          /\ \A i \in 1..(n + 1 - d) : journal'[i] = longer[i + d]
  <2> HIDE DEF longer
  <2>1. CASE Len(longer) > JournalLimit
    <3>1. journal' = Tail(longer) /\ longer # <<>> /\ n > 0
      BY <2>1, <1>1, <1>a, JournalAssumption DEF Config!Record, longer
    <3> QED
      BY <3>1, <1>1, <1>a
  <2>2. CASE ~(Len(longer) > JournalLimit)
    <3>1. journal' = longer
      BY <2>2 DEF Config!Record, longer
    <3> QED
      BY <3>1, <1>1, <1>a
  <2> QED
    BY <2>1, <2>2
<1> HIDE DEF longer, entry
<1>3. SUFFICES ASSUME NEW i \in 1..(n + 1 - d), journal'[i].outcome = "SUCCEEDED",
                      \A j \in 1..(n + 1 - d) : journal'[j].outcome = "SUCCEEDED" => j <= i
               PROVE  journal'[i].revision = active_revision'
  BY <1>2 DEF JournalNamesActive, Config!JournalNamesActive, Config!Successes
<1>4. CASE outcome = "SUCCEEDED"
  <2>1. n + 1 - d \in 1..(n + 1 - d) /\ journal'[n + 1 - d] = entry
    BY <1>1, <1>2, <1>a
  <2>2. i = n + 1 - d
    BY <2>1, <1>1, <1>2, <1>3, <1>4, <1>a
  <2> QED
    BY <2>1, <2>2, <1>1, <1>4
<1>5. CASE outcome # "SUCCEEDED"
  <2>1. i + d \in 1..n
    BY <1>1, <1>2, <1>3, <1>5, <1>a
  <2>2. journal[i + d] = journal'[i]
    BY <2>1, <1>1, <1>2, <1>3
  <2>3. ASSUME NEW j \in 1..n, journal[j].outcome = "SUCCEEDED" PROVE j <= i + d
    <3>1. CASE j > d
      <4>1. j - d \in 1..(n + 1 - d) /\ journal'[j - d] = journal[j]
        BY <3>1, <1>1, <1>2, <1>a
      <4> QED
        BY <4>1, <2>3, <1>3, <1>2, <1>a
    <3>2. CASE ~(j > d)
      BY <3>2, <1>2, <1>3, <1>a
    <3> QED
      BY <3>1, <3>2
  <2>4. journal[i + d].revision = active_revision
    BY <2>1, <2>2, <2>3, <1>3, <1>a
       DEF JournalNamesActive, Config!JournalNamesActive, Config!Successes
  <2> QED
    BY <2>2, <2>4, <1>5
<1> QED
  BY <1>4, <1>5

\* The journal never contradicts the revision in force: the latest success it still holds is
\* the active one, whatever was refused or forgotten since (ConfigService._record, apply).
THEOREM JournalAgrees == Spec => []JournalNamesActive
<1>1. Init => JournalNamesActive
  BY DEF Init, Config!ConfigInit, JournalNamesActive, Config!JournalNamesActive,
         Config!Successes
<1>2. TypeOK /\ JournalNamesActive /\ [Next]_vars => JournalNamesActive'
  <2> SUFFICES ASSUME TypeOK, JournalNamesActive, [Next]_vars PROVE JournalNamesActive'
    OBVIOUS
  <2>1. CASE UNCHANGED <<active_revision, journal>>
    BY <2>1 DEF JournalNamesActive, Config!JournalNamesActive, Config!Successes
  <2>2. ASSUME NEW rev \in Revisions, NEW expected \in Revisions \cup {None},
               Apply(rev, expected)
        PROVE  JournalNamesActive'
    <3>1. CASE ApplyConfigRejected(rev, expected)
      <4>1. Config!Record(rev, "REJECTED") /\ active_revision' = active_revision
        BY <3>1 DEF ApplyConfigRejected, Config!ApplyRefused
      <4> QED
        BY <4>1, RecordAgrees DEF TypeOK
    <3>2. CASE ApplyConfigSucceeds(rev, expected)
      <4>1. Config!Record(rev, "SUCCEEDED") /\ active_revision' = rev
        BY <3>2 DEF ApplyConfigSucceeds, Config!ApplyCommitted
      <4> QED
        BY <4>1, RecordAgrees DEF TypeOK
    <3> QED
      BY <2>2, <3>1, <3>2 DEF Apply
  <2>3. CASE Restart
    BY <2>3 DEF Restart, Config!ConfigForgotten, JournalNamesActive,
                Config!JournalNamesActive, Config!Successes
  <2>4. ASSUME NEW c \in CommandIds, Run(c) PROVE UNCHANGED <<active_revision, journal>>
    BY <2>4 DEF Run, ExecuteReturns, ExecuteRaises, Observe, ObserveExpires, ObserveCancels,
                ObserveSucceeds, ObserveRaises, ObserveSleeps, Finish
  <2>5. ASSUME NEW r \in RequestIds, NEW k \in Contents, NEW s \in SessionIds,
               NEW c \in CommandIds, Submit(r, k, s, c)
        PROVE  UNCHANGED <<active_revision, journal>>
    BY <2>5 DEF Submit, SubmitRejected, SubmitDispatching
  <2>6. ASSUME NEW s \in SessionIds, NEW d \in Ttls,
               AcquireSession(s, d)
        PROVE  UNCHANGED <<active_revision, journal>>
    BY <2>6 DEF AcquireSession
  <2>7. ASSUME NEW s \in SessionIds, RenewSession(s) \/ LapseSession(s) \/ ReleaseSession(s)
        PROVE  UNCHANGED <<active_revision, journal>>
    BY <2>7 DEF RenewSession, LapseSession, ReleaseSession
  <2>8. ASSUME (\E rev \in Revisions : StageConfig(rev)) \/ Tick \/ UNCHANGED vars
        PROVE  UNCHANGED <<active_revision, journal>>
    BY <2>8 DEF StageConfig, Config!Stage, Tick, vars
  <2> QED
    BY <2>1, <2>2, <2>3, <2>4, <2>5, <2>6, <2>7, <2>8 DEF Next
<1> QED
  BY <1>1, <1>2, TypeCorrect, PTL DEF Spec
=============================================================================
