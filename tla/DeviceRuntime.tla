---------------------------- MODULE DeviceRuntime ----------------------------
(***************************************************************************)
(* One Device Runtime (core/device_runtime.py) with its command ledger, its *)
(* control sessions, one runner per target and its configuration.           *)
(*                                                                         *)
(* The Runtime lives in one asyncio loop.  A coroutine is interrupted only *)
(* where it really suspends, so one action stands for everything between   *)
(* two suspensions: a command suspends in adapter.execute (its status is   *)
(* DISPATCHING) and between two polls of its completion (OBSERVING).  The  *)
(* statuses QUEUED, DISPATCHED and ACKNOWLEDGED come and go inside a step; *)
(* they are seen in the events only.                                       *)
(*                                                                         *)
(* Left out: a request that raises or is answered from the ledger without  *)
(* changing anything (unknown target, no session, a foreign session, a     *)
(* request id used for other contents, a resubmission) -- a stutter.  The  *)
(* CancelledError handlers run only while the loop is torn down, after     *)
(* which nobody reads what they wrote: Restart covers that.                *)
(***************************************************************************)
EXTENDS Naturals, Sequences

CONSTANTS
  Targets,         \* the targets the Runtime has an adapter for
  NormalActions,   \* declared actions of priority "normal", params included
  ControlActions,  \* declared actions of priority "control" (stop)
  ForeignActions,  \* actions no manifest declares
  Contents,        \* the request contents that clients send
  RequestIds,      \* the request ids that clients choose
  CommandIds,      \* what new_command_id() hands out
  SessionIds,      \* what new_control_session_id() hands out
  Ttls,            \* the lifetimes that clients ask for, in ticks; 0: none given
  DefaultTtl,      \* DEFAULT_TTL_S, in ticks
  ObserveTimeout,  \* OBSERVE_TIMEOUT_S, in ticks
  Revisions,       \* configuration revision ids
  JournalLimit,    \* bound of the apply journal
  MaxGeneration,   \* bound of every execution_generation
  MaxBoots,        \* bound of the number of times the Runtime starts
  None

Requirements == {"dispatched", "acknowledged", "observed"}
Outcomes == {"SUCCEEDED", "FAILED", "CANCELLED", "EXPIRED", "REJECTED"}

\* What the fingerprint of a request compares.
AllContents ==
  [target : Targets,
   action : NormalActions \cup ControlActions \cup ForeignActions,
   requirement : Requirements]

ASSUME ContentsAssumption == Contents \subseteq AllContents
ASSUME ActionsAssumption ==
  /\ NormalActions \cap ControlActions = {}
  /\ ForeignActions \cap (NormalActions \cup ControlActions) = {}
ASSUME NoneAssumption ==
  None \notin CommandIds \cup SessionIds \cup Outcomes \cup Requirements
ASSUME TimesAssumption ==
  /\ Ttls \subseteq Nat
  /\ DefaultTtl \in Nat \ {0}
  /\ ObserveTimeout \in Nat \ {0}
ASSUME JournalAssumption == JournalLimit \in Nat \ {0}
ASSUME BoundsAssumption == MaxGeneration \in Nat \ {0} /\ MaxBoots \in Nat \ {0}

VARIABLES
  boot,        \* how many times the Runtime has started
  byRequest,   \* CommandLedger._by_request_id: request id -> command id
  command,     \* CommandLedger._by_command_id: command id -> CommandRecord
  active,      \* TargetRunner._active: target -> command id or None
  generation,  \* TargetRunner.execution_generation: target -> number
  deadline,    \* ticks an observer has left: command id -> number
  session,     \* ControlSessionManager._active: session id or None
  ttl,         \* ticks until that session expires
  issued,      \* the session ids handed out so far, ids are never reused
  staged, active_revision, journal,   \* ConfigService, see ConfigRegister
  owner,       \* history: the session each command was submitted with
  published    \* history: the events of each command, a command.completed
               \* event standing as its outcome, any other as its status
               \* (owner and published are forgotten with the records)

Config == INSTANCE ConfigRegister

ledgerVars  == <<byRequest, command, owner, published>>
runnerVars  == <<active, generation, deadline>>
sessionVars == <<session, ttl, issued>>
configVars  == <<staged, active_revision, journal>>
vars == <<boot, ledgerVars, runnerVars, sessionVars, configVars>>

Statuses == {"QUEUED", "DISPATCHING", "DISPATCHED", "ACKNOWLEDGED",
             "OBSERVING", "TERMINAL"}

Records ==
  [request : RequestIds,
   content : Contents,
   status : Statuses,
   outcome : Outcomes \cup {None},
   achieved : Requirements \cup {None},
   generation : Nat]

-----------------------------------------------------------------------------
\* A Python dict is a function whose domain grows and shrinks.
Put(f, x, v) == [y \in DOMAIN f \cup {x} |-> IF y = x THEN v ELSE f[y]]
Drop(f, x) == [y \in DOMAIN f \ {x} |-> f[y]]
Empty == [x \in {} |-> None]

Commands == DOMAIN command
TargetOf(c) == command[c].content.target
Ended(c) == command[c].status = "TERMINAL"
Stale(c) == command[c].generation # generation[TargetOf(c)]

Busy(t) == active[t] # None /\ ~Ended(active[t])
IsControl(k) == k.action \in ControlActions
Declared(k) == k.action \in NormalActions \cup ControlActions

\* The bound of the generations.
CanBump(ts) == \A t \in ts : generation[t] < MaxGeneration

\* (mutant of Bumped: bump_generation forgets to count)
BumpedNot(ts) == generation

\* bump_generation on each runner of ts.
Bumped(ts) ==
  [t \in Targets |-> IF t \in ts THEN generation[t] + 1 ELSE generation[t]]

\* ControlSessionManager.validate.
Valid(s) == session = s /\ ttl > 0

-----------------------------------------------------------------------------
Init ==
  /\ boot = 1
  /\ byRequest = Empty /\ command = Empty /\ owner = Empty /\ published = Empty
  /\ active = [t \in Targets |-> None]
  /\ generation = [t \in Targets |-> 1]
  /\ deadline = Empty
  /\ session = None /\ ttl = 0
  /\ issued = {}
  /\ Config!ConfigInit

\* The process dies and is started again: everything it kept was in memory.
\* Ids are random, so the session ids of the past are not handed out again.
Restart ==
  /\ boot < MaxBoots
  /\ boot' = boot + 1
  /\ byRequest' = Empty /\ command' = Empty /\ owner' = Empty /\ published' = Empty
  /\ active' = [t \in Targets |-> None]
  /\ generation' = [t \in Targets |-> 1]
  /\ deadline' = Empty
  /\ session' = None /\ ttl' = 0
  /\ Config!ConfigForgotten
  /\ UNCHANGED issued

-----------------------------------------------------------------------------
\* Commands: submission.

\* (mutant of New: the ledger does not look the request id up)
NewUnchecked(r, s, c) == Valid(s) /\ c \in CommandIds \ Commands

\* The session is valid and the ledger has not seen the request id: begin
\* opens a record under a new command id.
New(r, s, c) ==
  /\ Valid(s)
  /\ r \notin DOMAIN byRequest
  /\ c \in CommandIds \ Commands

Begin(r, s, c, record, events) ==
  /\ byRequest' = Put(byRequest, r, c)
  /\ command' = Put(command, c, record)
  /\ owner' = Put(owner, c, s)
  /\ published' = Put(published, c, events)

\* The runner refuses a new request: the refusal is recorded and announced.
SubmitRejected(r, k, s, c) ==
  /\ New(r, s, c)
  /\ Declared(k) => Busy(k.target) /\ ~IsControl(k)
  /\ Begin(r, s, c,
           [request |-> r, content |-> k, status |-> "TERMINAL",
            outcome |-> "REJECTED", achieved |-> None,
            generation |-> generation[k.target]],
           <<"REJECTED">>)
  /\ UNCHANGED <<boot, runnerVars, sessionVars, configVars>>

\* The targets whose running command a new command preempts.
Preempts(k) == IF Busy(k.target) THEN {k.target} ELSE {}

\* The runner takes a new request and suspends in adapter.execute.  A control
\* action preempts the command in flight by bumping the generation first.
SubmitDispatching(r, k, s, c) ==
  /\ New(r, s, c)
  /\ Declared(k)
  /\ Busy(k.target) => IsControl(k)
  /\ CanBump(Preempts(k))
  /\ generation' = Bumped(Preempts(k))
  /\ active' = [active EXCEPT ![k.target] = c]
  /\ Begin(r, s, c,
           [request |-> r, content |-> k, status |-> "DISPATCHING",
            outcome |-> None, achieved |-> None,
            generation |-> generation'[k.target]],
           <<"DISPATCHING">>)
  /\ UNCHANGED <<boot, deadline, sessionVars, configVars>>

-----------------------------------------------------------------------------
\* Commands: execution.

\* (mutant of Finish: the fields are set, _touch is forgotten)
FinishUnannounced(c, events, outcome, achieved) ==
  /\ command' = [command EXCEPT ![c].status = "TERMINAL",
                                ![c].outcome = outcome,
                                ![c].achieved = achieved]
  /\ published' = [published EXCEPT ![c] = @ \o events]
  /\ active' = [active EXCEPT ![TargetOf(c)] = IF @ = c THEN None ELSE @]
  /\ deadline' = Drop(deadline, c)
  /\ UNCHANGED <<boot, byRequest, owner, generation, sessionVars, configVars>>

\* TargetRunner._finish, after the status events that precede it.
Finish(c, events, outcome, achieved) ==
  /\ command' = [command EXCEPT ![c].status = "TERMINAL",
                                ![c].outcome = outcome,
                                ![c].achieved = achieved]
  /\ published' = [published EXCEPT ![c] = @ \o events \o <<outcome>>]
  /\ active' = [active EXCEPT ![TargetOf(c)] = IF @ = c THEN None ELSE @]
  /\ deadline' = Drop(deadline, c)
  /\ UNCHANGED <<boot, byRequest, owner, generation, sessionVars, configVars>>

Executing(c) == c \in Commands /\ command[c].status = "DISPATCHING"

\* adapter.execute returns: the command reaches DISPATCHED and, unless that is
\* all its sender asked for, ACKNOWLEDGED and OBSERVING.
ExecuteReturns(c) ==
  /\ Executing(c)
  /\ \/ /\ command[c].content.requirement = "dispatched"
        /\ Finish(c, <<"DISPATCHED">>, "SUCCEEDED", "dispatched")
     \/ /\ command[c].content.requirement = "acknowledged"
        /\ Finish(c, <<"DISPATCHED", "ACKNOWLEDGED">>, "SUCCEEDED", "acknowledged")
     \/ /\ command[c].content.requirement = "observed"
        /\ command' = [command EXCEPT ![c].status = "OBSERVING"]
        /\ published' = [published EXCEPT
                           ![c] = @ \o <<"DISPATCHED", "ACKNOWLEDGED", "OBSERVING">>]
        /\ UNCHANGED <<boot, byRequest, owner, runnerVars, sessionVars,
                       configVars>>

\* adapter.execute raises: the adapter's fault is the command's outcome.
ExecuteRaises(c) == Executing(c) /\ Finish(c, <<>>, "FAILED", None)

\* (mutant of Observing: the observer's loop forgets to return once it finished)
ObservingOn(c) ==
  /\ c \in Commands
  /\ command[c].content.requirement = "observed"
  /\ command[c].status \in {"OBSERVING", "TERMINAL"}

Observing(c) == c \in Commands /\ command[c].status = "OBSERVING"

\* (mutant of TimeLeft: every turn of the loop takes a new deadline)
TimeLeftAnew(c) == ObserveTimeout

\* The observer takes its deadline from the clock when it first runs.
TimeLeft(c) == IF c \in DOMAIN deadline THEN deadline[c] ELSE ObserveTimeout

\* One turn of the observer's loop.  It looks at the clock, then at the
\* generation, then asks the adapter, and sleeps if there is nothing to say.
ObserveExpires(c) ==
  Observing(c) /\ TimeLeft(c) = 0 /\ Finish(c, <<>>, "EXPIRED", None)

ObserveCancels(c) ==
  /\ Observing(c)
  /\ TimeLeft(c) > 0
  /\ Stale(c)
  /\ Finish(c, <<>>, "CANCELLED", None)

\* (mutant of MayAsk: the generation is not compared before the adapter is asked)
MayAskStale(c) == Observing(c) /\ TimeLeft(c) > 0

MayAsk(c) == Observing(c) /\ TimeLeft(c) > 0 /\ ~Stale(c)

ObserveSucceeds(c) == MayAsk(c) /\ Finish(c, <<>>, "SUCCEEDED", "observed")

ObserveRaises(c) == MayAsk(c) /\ Finish(c, <<>>, "FAILED", None)

ObserveSleeps(c) ==
  /\ MayAsk(c)
  /\ deadline' = Put(deadline, c, TimeLeft(c))
  /\ UNCHANGED <<boot, ledgerVars, active, generation, sessionVars, configVars>>

Observe(c) ==
  \/ ObserveExpires(c)
  \/ ObserveCancels(c)
  \/ ObserveSucceeds(c)
  \/ ObserveRaises(c)
  \/ ObserveSleeps(c)

-----------------------------------------------------------------------------
\* Control sessions.

\* (mutant of AcquireSession: a handover leaves the runners alone)
AcquireSessionQuietly(s, d) ==
  /\ s \in SessionIds \ issued
  /\ session' = s
  /\ ttl' = IF d = 0 THEN DefaultTtl ELSE d
  /\ issued' = issued \cup {s}
  /\ UNCHANGED <<boot, ledgerVars, runnerVars, configVars>>

\* Taking control bumps every runner and replaces whatever session there was.
AcquireSession(s, d) ==
  /\ s \in SessionIds \ issued
  /\ CanBump(Targets)
  /\ generation' = Bumped(Targets)
  /\ session' = s
  /\ ttl' = IF d = 0 THEN DefaultTtl ELSE d
  /\ issued' = issued \cup {s}
  /\ UNCHANGED <<boot, ledgerVars, active, deadline, configVars>>

RenewSession(s) ==
  /\ Valid(s)
  /\ ttl' = DefaultTtl
  /\ UNCHANGED <<boot, ledgerVars, runnerVars, session, issued, configVars>>

\* A command or a renewal quotes the active session after it expired.
LapseSession(s) ==
  /\ session = s
  /\ ttl = 0
  /\ session' = None
  /\ UNCHANGED <<boot, ledgerVars, runnerVars, ttl, issued, configVars>>

\* A client gives back a session.  The manager ignores one that is not active;
\* the runners are bumped all the same.
ReleaseSession(s) ==
  /\ s \in issued
  /\ CanBump(Targets)
  /\ session' = IF session = s THEN None ELSE session
  /\ ttl' = IF session = s THEN 0 ELSE ttl
  /\ generation' = Bumped(Targets)
  /\ UNCHANGED <<boot, ledgerVars, active, deadline, issued, configVars>>

-----------------------------------------------------------------------------
\* Configuration, with the default guard: no target is busy.

StageConfig(rev) ==
  Config!Stage(rev) /\ UNCHANGED <<boot, ledgerVars, runnerVars, sessionVars>>

Quiet == \A t \in Targets : ~Busy(t)

ApplyConfigRejected(rev, expected) ==
  /\ ~Config!Expected(expected) \/ ~Quiet
  /\ Config!ApplyRefused(rev, "REJECTED")
  /\ UNCHANGED <<boot, ledgerVars, runnerVars, sessionVars>>

ApplyConfigSucceeds(rev, expected) ==
  /\ Quiet
  /\ Config!ApplyCommitted(rev, expected)
  /\ CanBump(Targets)
  /\ generation' = Bumped(Targets)
  /\ UNCHANGED <<boot, ledgerVars, active, deadline, sessionVars>>

-----------------------------------------------------------------------------
\* The Runtime's clock: every timer that runs comes one tick nearer.
Earlier(n) == IF n > 0 THEN n - 1 ELSE 0

Tick ==
  /\ ttl > 0 \/ \E c \in DOMAIN deadline : deadline[c] > 0
  /\ ttl' = Earlier(ttl)
  /\ deadline' = [c \in DOMAIN deadline |-> Earlier(deadline[c])]
  /\ UNCHANGED <<boot, ledgerVars, active, generation, session, issued,
                 configVars>>

Submit(r, k, s, c) == SubmitRejected(r, k, s, c) \/ SubmitDispatching(r, k, s, c)

Run(c) == ExecuteReturns(c) \/ ExecuteRaises(c) \/ Observe(c)

Apply(rev, expected) ==
  ApplyConfigRejected(rev, expected) \/ ApplyConfigSucceeds(rev, expected)

Next ==
  \/ \E r \in RequestIds, k \in Contents, s \in SessionIds, c \in CommandIds :
       Submit(r, k, s, c)
  \/ \E c \in CommandIds : Run(c)
  \/ \E s \in SessionIds, d \in Ttls : AcquireSession(s, d)
  \/ \E s \in SessionIds : RenewSession(s) \/ LapseSession(s) \/ ReleaseSession(s)
  \/ \E rev \in Revisions : StageConfig(rev)
  \/ \E rev \in Revisions, expected \in Revisions \cup {None} : Apply(rev, expected)
  \/ Tick
  \/ Restart

Spec == Init /\ [][Next]_vars

\* The loop runs its tasks, an adapter's execute ends sooner or later (every
\* I/O it awaits has a timeout) and the clock advances.  An observer that wakes
\* up takes its deadline, and ends when it is late or stale; whether the adapter
\* ever reports completion is the device's affair and is not assumed.
ObserveStarts(c) == c \notin DOMAIN deadline /\ Observe(c)

Fairness ==
  /\ WF_vars(Tick)
  /\ \A c \in CommandIds :
       /\ WF_vars(ExecuteReturns(c) \/ ExecuteRaises(c))
       /\ WF_vars(ObserveStarts(c))
       /\ WF_vars(ObserveExpires(c) \/ ObserveCancels(c))

FairSpec == Spec /\ Fairness

-----------------------------------------------------------------------------
(***************************************************************************)
(* Properties.                                                             *)
(***************************************************************************)

Live(c) == c \in Commands /\ ~Ended(c)

\* The type of every variable (all the fields the Runtime's objects keep).
TypeOK ==
  /\ boot \in 1..MaxBoots
  /\ byRequest \in [DOMAIN byRequest -> CommandIds]
  /\ DOMAIN byRequest \subseteq RequestIds
  /\ command \in [Commands -> Records]
  /\ Commands \subseteq CommandIds
  /\ active \in [Targets -> CommandIds \cup {None}]
  /\ generation \in [Targets -> 1..MaxGeneration]
  /\ deadline \in [DOMAIN deadline -> 0..ObserveTimeout]
  /\ DOMAIN deadline \subseteq Commands
  /\ session \in SessionIds \cup {None}
  /\ ttl \in Nat
  /\ issued \subseteq SessionIds
  /\ owner \in [Commands -> SessionIds]
  /\ published \in [Commands -> Seq(Statuses \cup Outcomes)]
  /\ Config!ConfigTypeOK

\* A target executes one command at a time: of the commands that have not
\* ended, at most one carries the target's current generation.  Several may
\* overlap in time -- a stop runs beside the move it preempted, and a new move
\* starts before the observer of the old one has woken up -- but all others are
\* stale (TargetRunner.submit, bump_generation).
OneCurrentCommand ==
  \A c, d \in Commands :
    /\ Live(c) /\ ~Stale(c)
    /\ Live(d) /\ ~Stale(d)
    /\ TargetOf(c) = TargetOf(d)
    => c = d

\* The runner knows the command that is running: busy, which refuses the next
\* move and every Apply, cannot miss one (TargetRunner._active, _finish).
CurrentCommandIsActive ==
  \A c \in Commands : Live(c) /\ ~Stale(c) => active[TargetOf(c)] = c

\* Control is exclusive: a command that can still succeed by observation was
\* submitted by the session that holds control now, or nobody holds it (the
\* session expired).  A handover leaves no current command of the previous
\* holder behind (acquire_control_session, release_control_session).
CurrentCommandIsOwners ==
  \A c \in Commands : Live(c) /\ ~Stale(c) => session \in {None, owner[c]}

\* No command is ahead of its runner: its generation is one the runner had, so
\* that every bump leaves all of them behind (bump_generation).
NoneAhead == \A c \in Commands : command[c].generation <= generation[TargetOf(c)]

\* The inductive invariant behind the exclusive execution of commands.
Controlled == NoneAhead /\ CurrentCommandIsActive /\ CurrentCommandIsOwners

\* Every variable has its type, no command of an old generation comes back, and the
\* current one is the runner's and belongs to whoever is in control.
ControlInv == TypeOK /\ Controlled

\* A request id is executed at most once: the ledger maps it to one command
\* that carries it, however often and by whomever it is sent again, refusals
\* included (CommandLedger.begin).
OneCommandPerRequest ==
  /\ \A r \in DOMAIN byRequest :
       byRequest[r] \in Commands /\ command[byRequest[r]].request = r
  /\ \A c \in Commands :
       command[c].request \in DOMAIN byRequest /\ byRequest[command[c].request] = c

\* Whoever listens hears of the end of a command exactly once, after everything
\* else about it, and hears the outcome that the record tells a client who asks
\* (_on_command_change): a Timeline waits for nothing else.
CompletionAnnouncedOnce ==
  \A c \in Commands :
    LET said == published[c]
        completions == {i \in DOMAIN said : said[i] \in Outcomes}
    IN  IF Ended(c)
        THEN completions = {Len(said)} /\ said[Len(said)] = command[c].outcome
        ELSE completions = {}

\* A command has an outcome once it ended, what is said to have been achieved is
\* what was asked for, and a refused command never reached its adapter.
AchievedAsRequired ==
  \A c \in Commands :
    /\ command[c].outcome # None <=> Ended(c)
    /\ command[c].achieved # None <=> command[c].outcome = "SUCCEEDED"
    /\ command[c].achieved # None => command[c].achieved = command[c].content.requirement
    /\ command[c].outcome = "REJECTED" => published[c] = <<"REJECTED">>

\* Only what was asked to be observed is observed (TargetRunner.submit).
ObservedOnRequest ==
  \A c \in Commands :
    command[c].status = "OBSERVING" => command[c].content.requirement = "observed"

\* The inductive invariant of the ledger and the events: what a client may ask,
\* what it hears and what the record says agree, through refusals, repetitions
\* and two tasks that may conclude one command.
LedgerInv ==
  OneCommandPerRequest /\ CompletionAnnouncedOnce /\ AchievedAsRequired /\ ObservedOnRequest

\* An outcome is final: two tasks of the same command -- the handler and the
\* observer, or the observer of a preempted command and the stop -- never both
\* conclude it, and its record never changes afterwards (within one boot).
TerminalIsFinal ==
  [][\A c \in Commands :
       Ended(c) /\ boot' = boot =>
         c \in Commands' /\ command'[c] = command[c] /\ published'[c] = published[c]]_vars

\* Once a Runtime has applied a configuration, no command accepted under the
\* old one is current: those still in flight are all stale (apply_config,
\* _default_apply_guard, _on_config_applied).
ApplyInvalidates ==
  [][active_revision' # active_revision /\ boot' = boot =>
       \A c \in Commands : Live(c) => Stale(c)]_vars

\* A success by observation is evidence about that very command: the adapter is
\* only asked, and can only answer for, the latest command its target was given
\* (active), and that one's sender still has control or nobody has.  What a
\* preempted command left the device doing is never credited to it, nor what the
\* next command does (TargetRunner._observe).
ObservedSuccessIsLatest ==
  [][\A c \in Commands :
       Live(c) /\ boot' = boot /\ command'[c].achieved = "observed" =>
         /\ active[TargetOf(c)] = c
         /\ session \in {None, owner[c]}
         /\ \A d \in Commands \ {c} :
              Live(d) /\ TargetOf(d) = TargetOf(c) => Stale(d)]_vars

\* The journal names the revision in force (ConfigService._record, apply).
JournalNamesActive == Config!JournalNamesActive

\* Every command that is accepted ends, whatever its device does: a move that
\* never completes, is preempted or loses its session does not hang.
EveryCommandEnds == \A c \in CommandIds : Live(c) ~> ~Live(c)

-----------------------------------------------------------------------------
\* The Runtime as its clients see it.

ResultOf(r) ==
  IF r \notin DOMAIN byRequest THEN "unknown"
  ELSE IF Ended(byRequest[r]) THEN command[byRequest[r]].outcome
  ELSE "pending"

Results == [r \in RequestIds |-> ResultOf(r)]

Contract == INSTANCE CommandContract WITH result <- Results

\* The Runtime keeps its contract with the senders of commands.
ImplementsContract == Contract!Spec

=============================================================================
