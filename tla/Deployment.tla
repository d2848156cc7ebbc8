------------------------------ MODULE Deployment ------------------------------
(***************************************************************************)
(* Configurations on their way to the Runtimes: the SettingCoordinator     *)
(* (apps/setting/coordinator.py) and the MQTT adapter of one Runtime       *)
(* (transport/mqtt_adapter.py) both stage and apply revisions at the       *)
(* ConfigService of each Runtime (core/config_service.py), which makes     *)
(* them wait for one another with a lock.                                  *)
(*                                                                         *)
(* Here an apply guard may suspend, as its type allows (ConfigRegister has *)
(* the register of a Runtime whose guard does not).  A revision is a       *)
(* number; its kind and content, the journal and the times are left out.   *)
(* The broker and the client library are external: a message of a          *)
(* connection that broke may still be taken from the library's queue, and  *)
(* a retained message is sent again to whoever subscribes, with the flag   *)
(* that a subscriber who was there does not see.                           *)
(***************************************************************************)
EXTENDS Integers, Sequences

CONSTANTS
  Runtimes,      \* the Runtimes, in the coordinator's order
  Managed,       \* the Runtime with an MQTT adapter
  MaxRevisions,  \* bound of the revisions that are staged
  MaxDeploys,    \* bound of the deployments
  MaxRequests,   \* bound of the MQTT requests
  MaxBreaks,     \* bound of lost connections and restarts
  None           \* no revision, no deployment, no outcome

Names == {Runtimes[i] : i \in DOMAIN Runtimes}
Revisions == 1..MaxRevisions

\* A guard returns, or raises FusionError -- the Scheduler's when a Show is not idle, that
\* of a Device Runtime when a target is busy -- or something else.
GuardOutcomes == {"SUCCEEDED", "REJECTED", "FAILED"}

Outcomes == GuardOutcomes \cup {None}

\* RuntimeDeployment, and a Deployment with the place its coroutine is at.
ResultRecords ==
  [staged : BOOLEAN, revision : Revisions \cup {None}, outcome : Outcomes]
DeployRecords ==
  [apply : BOOLEAN, results : Seq(ResultRecords), revision : Revisions \cup {None},
   waiting : BOOLEAN]

ASSUME DeploymentAssumption ==
  /\ Runtimes \in Seq(Names)
  /\ \A i, j \in DOMAIN Runtimes : Runtimes[i] = Runtimes[j] => i = j
  /\ Managed \in Names
  /\ {MaxRevisions, MaxDeploys, MaxRequests, MaxBreaks} \subseteq Nat
  /\ None \notin GuardOutcomes \cup DeployRecords

VARIABLES
  minted,    \* revision ids handed out
  staged,    \* ConfigService._staged of each Runtime
  active,    \* ConfigService._active_revision_id
  calls,     \* tasks in apply, in the order of the lock's queue
  deploy,    \* the deployment under way: apply, its next Runtime and results, or None
  deploys,   \* how many there were
  report,    \* the latest Deployment that was returned
  link,      \* whether the adapter's connection stands
  loop,      \* the adapter's message loop: off, idle, applying
  reporting, \* its status task is alive
  inbox,     \* messages of the connection that were not taken yet
  kept,      \* the request the broker retains, or None
  requests,  \* the requests published so far
  status,    \* the active revision of the retained status
  breaks,    \* lost connections and restarts so far
  committed, \* history: what came into force on each Runtime, and for whom: setting, mqtt, nobody
  executed   \* history: how often each request was carried out

configVars  == <<staged, active, calls, committed>>
settingVars == <<deploy, deploys, report>>
adapterVars == <<link, loop, reporting, inbox, status>>
mqttVars    == <<adapterVars, kept, requests, executed>>
vars == <<minted, configVars, settingVars, mqttVars, breaks>>

-----------------------------------------------------------------------------
\* ConfigService.

Stage(name) ==
  /\ minted < MaxRevisions
  /\ minted' = minted + 1
  /\ staged' = [staged EXCEPT ![name] = @ \cup {minted'}]

Known(name, rev) == rev \in staged[name]

Call(name, rev, expected, by) ==
  calls' = [calls EXCEPT ![name] =
              Append(@, [revision |-> rev, expected |-> expected, by |-> by, inside |-> FALSE])]

\* (mutant of LockFree: there is no lock)
LockFreeAlways(name) == TRUE

LockFree(name) == \A i \in DOMAIN calls[name] : ~calls[name][i].inside

Omitting(s, i) == SubSeq(s, 1, i - 1) \o SubSeq(s, i + 1, Len(s))

Without(name, i) == [calls EXCEPT ![name] = Omitting(@, i)]

\* (mutant of LoopEnds: the loop waits on for messages of the lost connection)
LoopWaitsOn ==
  /\ loop' = "idle"
  /\ inbox' = <<>>
  /\ link' = FALSE /\ reporting' = FALSE

\* What is raised out of the message loop ends the connection; after a delay the
\* adapter connects again.
LoopEnds ==
  /\ loop' = "off"
  /\ inbox' = <<>>
  /\ link' = FALSE /\ reporting' = FALSE

\* The status is published; or that raises, and the broker may have it all the same.
Told == status' = active'[Managed]
NotTold == status' = status \/ (link /\ Told)

\* What the caller gets: the coordinator notes it and goes on; the adapter publishes
\* the response and the status, if it can, and takes the next message.
Result(outcome) ==
  [deploy EXCEPT !.results = Append(@, [staged |-> TRUE, revision |-> deploy.revision,
                                        outcome |-> outcome]),
                 !.revision = None, !.waiting = FALSE]

Answer(call, outcome) ==
  CASE call.by = "setting" ->
         deploy' = Result(outcome) /\ UNCHANGED adapterVars
    [] call.by = "mqtt" ->
         /\ \/ link /\ Told /\ loop' = "idle" /\ UNCHANGED <<link, reporting, inbox>>
            \/ NotTold /\ LoopEnds
         /\ UNCHANGED deploy
    [] call.by = "nobody" -> UNCHANGED <<deploy, adapterVars>>

\* The lock is had, in the order of the queue; the expected revision is compared.
Enter(name) ==
  /\ LockFree(name)
  /\ \E i \in DOMAIN calls[name] :
       LET call == calls[name][i]
       IN  /\ ~call.inside
           /\ \A j \in 1..(i - 1) : calls[name][j].inside
           /\ IF call.expected \in {None, active[name]}
              THEN /\ calls' = [calls EXCEPT ![name][i].inside = TRUE]
                   /\ UNCHANGED <<active, deploy, adapterVars>>
              ELSE /\ calls' = Without(name, i)
                   /\ UNCHANGED active
                   /\ Answer(call, "REJECTED")
  /\ UNCHANGED <<minted, staged, committed, deploys, report, kept, requests, executed, breaks>>

\* (mutant of GuardEnds: a guard that breaks leaves the lock taken)
GuardEndsLocked(name) ==
  /\ \E i \in DOMAIN calls[name], outcome \in GuardOutcomes :
       LET call == calls[name][i]
       IN  /\ call.inside /\ call.by # "stuck"
           /\ IF outcome = "SUCCEEDED"
              THEN /\ active' = [active EXCEPT ![name] = call.revision]
                   /\ committed' = [committed EXCEPT ![name] = @ \cup {<<call.revision, call.by>>}]
              ELSE UNCHANGED <<active, committed>>
           /\ calls' = IF outcome = "FAILED"
                       THEN [calls EXCEPT ![name][i].by = "stuck"]
                       ELSE Without(name, i)
           /\ Answer(call, outcome)
  /\ UNCHANGED <<minted, staged, deploys, report, kept, requests, executed, breaks>>

\* The guard returns, refuses or breaks; the lock is released.
GuardEnds(name) ==
  /\ \E i \in DOMAIN calls[name], outcome \in GuardOutcomes :
       LET call == calls[name][i]
       IN  /\ call.inside
           /\ IF outcome = "SUCCEEDED"
              THEN /\ active' = [active EXCEPT ![name] = call.revision]
                   /\ committed' = [committed EXCEPT ![name] = @ \cup {<<call.revision, call.by>>}]
              ELSE UNCHANGED <<active, committed>>
           /\ calls' = Without(name, i)
           /\ Answer(call, outcome)
  /\ UNCHANGED <<minted, staged, deploys, report, kept, requests, executed, breaks>>

-----------------------------------------------------------------------------
\* SettingCoordinator.deploy: one Runtime after the other.

Setting == UNCHANGED <<active, committed, mqttVars, breaks>>

Begin(apply) ==
  /\ deploy = None /\ deploys < MaxDeploys
  /\ deploy' = [apply |-> apply, results |-> <<>>, revision |-> None, waiting |-> FALSE]
  /\ deploys' = deploys + 1
  /\ UNCHANGED <<minted, staged, calls, report>> /\ Setting

Turn(name) ==
  /\ deploy # None
  /\ Len(deploy.results) < Len(Runtimes)
  /\ name = Runtimes[Len(deploy.results) + 1]

\* The answer comes, or the request or the answer is lost.
DeployStage(name) ==
  /\ Turn(name) /\ deploy.revision = None
  /\ \/ /\ Stage(name)
        /\ deploy' = IF deploy.apply
                     THEN [deploy EXCEPT !.revision = minted']
                     ELSE [deploy EXCEPT !.results = Append(@,
                             [staged |-> TRUE, revision |-> minted', outcome |-> None])]
     \/ /\ Stage(name) \/ UNCHANGED <<minted, staged>>
        /\ deploy' = [deploy EXCEPT !.results = Append(@,
                        [staged |-> FALSE, revision |-> None, outcome |-> None])]
  /\ UNCHANGED <<calls, deploys, report>> /\ Setting

DeployApply(name) ==
  /\ Turn(name) /\ deploy.revision # None /\ ~deploy.waiting
  /\ \/ /\ Known(name, deploy.revision)
        /\ Call(name, deploy.revision, None, "setting")
        /\ deploy' = [deploy EXCEPT !.waiting = TRUE]
     \/ /\ deploy' = Result("FAILED")
        /\ UNCHANGED calls
  /\ UNCHANGED <<minted, staged, deploys, report>> /\ Setting

\* The client's timeout; the Runtime goes on.
DeployTimesOut(name) ==
  /\ Turn(name) /\ deploy.waiting
  /\ deploy' = Result("FAILED")
  /\ calls' = [calls EXCEPT ![name] =
                 [i \in DOMAIN @ |-> IF @[i].by = "setting" THEN [@[i] EXCEPT !.by = "nobody"]
                                                            ELSE @[i]]]
  /\ UNCHANGED <<minted, staged, deploys, report>> /\ Setting

DeployEnds ==
  /\ deploy # None
  /\ Len(deploy.results) = Len(Runtimes)
  /\ report' = deploy.results
  /\ deploy' = None
  /\ UNCHANGED <<minted, staged, calls, deploys>> /\ Setting

\* (mutant of Overall: a Runtime that did not stage is not counted)
OverallOfAttempted(results) ==
  LET attempted == {results[i].outcome : i \in DOMAIN results} \ {None}
  IN  IF attempted = {} THEN "STAGED"
      ELSE IF attempted = {"SUCCEEDED"} THEN "SUCCEEDED"
      ELSE IF "SUCCEEDED" \in attempted THEN "PARTIAL"
      ELSE "FAILED"

\* Deployment.overall.
Overall(results) ==
  LET attempted == {results[i].outcome : i \in DOMAIN results} \ {None}
  IN  IF \E i \in DOMAIN results : ~results[i].staged THEN "FAILED"
      ELSE IF attempted = {} THEN "STAGED"
      ELSE IF attempted = {"SUCCEEDED"} THEN "SUCCEEDED"
      ELSE IF "SUCCEEDED" \in attempted THEN "PARTIAL"
      ELSE "FAILED"

-----------------------------------------------------------------------------
\* MqttSettingAdapter.

\* A requester expects nothing, or what the retained status told it.
Requests ==
  [kind : {"stage", "text", "list"}, revision : {None}, expected : {None}] \cup
  [kind : {"apply"}, revision : 1..minted, expected : {None, status}]

\* Somebody publishes a request, perhaps retained.  A subscriber of the moment gets it
\* as a live message.
Publish(request, retained) ==
  /\ requests < MaxRequests
  /\ requests' = requests + 1
  /\ executed' = Append(executed, 0)
  /\ LET message == [kind |-> request.kind, revision |-> request.revision,
                     expected |-> request.expected, id |-> requests', retain |-> FALSE]
     IN  /\ inbox' = IF link THEN Append(inbox, message) ELSE inbox
         /\ kept' = IF retained THEN message ELSE kept
  /\ UNCHANGED <<minted, configVars, settingVars, link, loop, reporting, status, breaks>>

\* _connect_and_serve up to its message loop.
Connect ==
  /\ loop = "off"
  /\ link' = TRUE
  /\ loop' = "idle" /\ reporting' = TRUE
  /\ status' = active[Managed]
  /\ inbox' = IF kept = None THEN <<>> ELSE <<[kept EXCEPT !.retain = TRUE]>>
  /\ UNCHANGED <<minted, configVars, settingVars, kept, requests, executed, breaks>>

Lose ==
  /\ link /\ breaks < MaxBreaks
  /\ link' = FALSE
  /\ breaks' = breaks + 1
  /\ UNCHANGED <<minted, configVars, settingVars, loop, reporting, inbox, kept, requests, status, executed>>

Notice ==
  /\ loop = "idle" /\ ~link
  /\ LoopEnds
  /\ UNCHANGED <<minted, configVars, settingVars, kept, requests, status, executed, breaks>>

StatusLoop ==
  /\ loop # "off" /\ link /\ reporting
  /\ status' = active[Managed]
  /\ UNCHANGED <<minted, configVars, settingVars, link, loop, reporting, inbox, kept, requests,
                 executed, breaks>>

\* A status that cannot be published ends the status task.  Nobody looks at it: if the
\* connection stands, the message loop goes on without it.
StatusFails ==
  /\ loop # "off" /\ reporting
  /\ reporting' = FALSE
  /\ status' = status \/ (link /\ status' = active[Managed])
  /\ UNCHANGED <<minted, configVars, settingVars, link, loop, inbox, kept, requests, executed, breaks>>

Ignored(message) == message.retain \/ message.kind = "text"

Took(message) ==
  /\ loop = "idle" /\ inbox # <<>>
  /\ message = Head(inbox)
  /\ UNCHANGED <<settingVars, active, committed, kept, requests, breaks>>

HandleIgnored ==
  /\ inbox # <<>> /\ Took(Head(inbox)) /\ Ignored(Head(inbox))
  /\ inbox' = Tail(inbox)
  /\ UNCHANGED <<minted, staged, calls, link, loop, reporting, status, executed>>

\* A payload that is not an object raises before the handler's try.
HandleList ==
  /\ inbox # <<>> /\ Took(Head(inbox)) /\ ~Ignored(Head(inbox))
  /\ Head(inbox).kind = "list"
  /\ LoopEnds
  /\ UNCHANGED <<minted, staged, calls, status, executed>>

Executes(message) == executed' = [executed EXCEPT ![message.id] = @ + 1]

\* The response, or the error, is published; or that raises, as it does when the
\* connection is gone.
HandleStage ==
  /\ inbox # <<>> /\ Took(Head(inbox)) /\ ~Ignored(Head(inbox))
  /\ Head(inbox).kind = "stage"
  /\ Stage(Managed)
  /\ Executes(Head(inbox))
  /\ \/ link /\ inbox' = Tail(inbox) /\ UNCHANGED <<link, loop, reporting>>
     \/ LoopEnds
  /\ UNCHANGED <<calls, status>>

HandleApply ==
  /\ inbox # <<>> /\ Took(Head(inbox)) /\ ~Ignored(Head(inbox))
  /\ Head(inbox).kind = "apply"
  /\ IF Known(Managed, Head(inbox).revision)
     THEN /\ Call(Managed, Head(inbox).revision, Head(inbox).expected, "mqtt")
          /\ Executes(Head(inbox))
          /\ loop' = "applying" /\ inbox' = Tail(inbox)
          /\ UNCHANGED <<link, reporting, status>>
     ELSE /\ UNCHANGED <<calls, executed>>
          /\ \/ link /\ Told /\ inbox' = Tail(inbox) /\ UNCHANGED <<link, loop, reporting>>
             \/ NotTold /\ LoopEnds
  /\ UNCHANGED <<minted, staged>>

-----------------------------------------------------------------------------
\* A Runtime's process is started anew; nothing of its configuration is on disk.
Restart(name) ==
  /\ breaks < MaxBreaks
  /\ breaks' = breaks + 1
  /\ staged' = [staged EXCEPT ![name] = {}]
  /\ active' = [active EXCEPT ![name] = None]
  /\ calls' = [calls EXCEPT ![name] = <<>>]
  /\ deploy' = IF deploy # None /\ Turn(name) /\ deploy.waiting THEN Result("FAILED") ELSE deploy
  /\ IF name = Managed THEN LoopEnds ELSE UNCHANGED <<link, loop, reporting, inbox>>
  /\ UNCHANGED <<minted, committed, deploys, report, kept, requests, status, executed>>

Init ==
  /\ minted = 0
  /\ staged = [n \in Names |-> {}] /\ active = [n \in Names |-> None]
  /\ calls = [n \in Names |-> <<>>] /\ committed = [n \in Names |-> {}]
  /\ deploy = None /\ deploys = 0 /\ report = <<>>
  /\ link = FALSE /\ loop = "off" /\ reporting = FALSE /\ inbox = <<>> /\ kept = None /\ requests = 0
  /\ status = None /\ executed = <<>>
  /\ breaks = 0

Deploys ==
  \/ \E apply \in BOOLEAN : Begin(apply)
  \/ \E n \in Names : DeployStage(n) \/ DeployApply(n) \/ DeployTimesOut(n)
  \/ DeployEnds

Handles == HandleIgnored \/ HandleList \/ HandleStage \/ HandleApply

Next ==
  \/ \E n \in Names : Enter(n) \/ GuardEnds(n) \/ Restart(n)
  \/ Deploys
  \/ \E request \in Requests, retained \in BOOLEAN : Publish(request, retained)
  \/ Connect \/ Lose \/ Notice \/ StatusLoop \/ StatusFails \/ Handles

\* Guards end and the lock is fair; the adapter connects again, its message loop runs, and
\* so does its status task as long as it lives.
Fairness ==
  /\ \A n \in Names : WF_vars(Enter(n)) /\ WF_vars(GuardEnds(n))
  /\ WF_vars(Connect) /\ WF_vars(Notice) /\ WF_vars(StatusLoop) /\ WF_vars(Handles)
  /\ \A n \in Names : WF_vars(DeployTimesOut(n))

Spec == Init /\ [][Next]_vars /\ Fairness

-----------------------------------------------------------------------------
TypeOK ==
  /\ minted \in 0..MaxRevisions
  /\ \A n \in Names :
       /\ staged[n] \subseteq Revisions
       /\ active[n] \in staged[n] \cup {None}
       /\ \A i \in DOMAIN calls[n] : calls[n][i].revision \in staged[n]
  /\ link \in BOOLEAN /\ reporting \in BOOLEAN /\ loop \in {"off", "idle", "applying"}
  /\ status \in Revisions \cup {None}
  /\ deploy \in DeployRecords \cup {None} /\ report \in Seq(ResultRecords)

\* Who applied a revision: the coordinator, or an apply that it no longer waits for.
BySetting == {"setting", "nobody"}

\* No apply of the coordinator has put a revision in force anywhere, and none is under way
\* that still might.
Untouched(rev) ==
  \A n \in Names :
    /\ \A who \in BySetting : <<rev, who>> \notin committed[n]
    /\ \A k \in DOMAIN calls[n] : calls[n][k].by \in BySetting => calls[n][k].revision # rev

\* A deployment that is reported as SUCCEEDED was put in force on every Runtime by its own
\* applies, and a PARTIAL one on some, whatever was lost, restarted or applied by others
\* meanwhile; one that is only STAGED was put in force on none, nor is an apply of it under
\* way that still might (contracts/deployment.py:33-44; section 15 of the specification).
OverallIsHonest ==
  LET applied(i) == <<report[i].revision, "setting">> \in committed[Runtimes[i]]
  IN  /\ Overall(report) = "SUCCEEDED" => \A i \in DOMAIN Runtimes : applied(i)
      /\ Overall(report) = "PARTIAL" => \E i \in DOMAIN Runtimes : applied(i)
      /\ Overall(report) = "STAGED" =>
           \A i \in DOMAIN report : Untouched(report[i].revision)

\* A revision comes into force only while the one its caller expected is in force,
\* although the comparison is made before a guard that may suspend
\* (config_service.py:81-99; section 15: "apply lock and expected_active_revision").
ExpectedIsReplaced ==
  [][\A n \in Names :
       active'[n] # active[n] /\ active'[n] # None =>
         \E i \in DOMAIN calls[n] :
           /\ calls[n][i].inside /\ calls[n][i].revision = active'[n]
           /\ calls[n][i].expected \in {None, active[n]}]_vars

\* A request is carried out at most once, however often the connection breaks, also
\* when the broker keeps it and sends it again (mqtt_adapter.py:19-23, 162-164).
ExecutedOnce == \A i \in DOMAIN executed : executed[i] <= 1

\* What is claimed of deployments and requests is true of the Runtimes.
DeploymentInv == TypeOK /\ OverallIsHonest /\ ExecutedOnce

\* Every apply ends, whatever became of the one that had the lock and of its caller
\* (config_service.py:81-102).
AppliesEnd == \A n \in Names : (calls[n] # <<>>) ~> (calls[n] = <<>>)

\* The status the broker retains comes to name the revision in force, through lost
\* connections, restarts and payloads that break the message loop -- unless the status
\* task has died of a publication that the connection survived: then it may stay wrong
\* as long as that stands (mqtt_adapter.py:133-180).
StatusConverges ==
  (status # active[Managed]) ~> (status = active[Managed] \/ (link /\ ~reporting))
=============================================================================
