---------------------------- MODULE DeploymentProofs ----------------------------
(***************************************************************************)
(* Theorems about Deployment, for every list of Runtimes and every value   *)
(* of its bounds.                                                          *)
(***************************************************************************)
EXTENDS Deployment, SequenceTheorems, TLAPS

USE DEF configVars, settingVars, adapterVars, mqttVars

RevisionOrNone == Revisions \cup {None}

Callers == {"setting", "mqtt", "nobody"}

CallRecords ==
  [revision : Revisions, expected : RevisionOrNone, by : Callers, inside : BOOLEAN]

Messages ==
  [kind : {"stage", "text", "list", "apply"}, revision : RevisionOrNone, expected : RevisionOrNone,
   id : Nat, retain : BOOLEAN]

\* The registers and the queues of the locks.
ConfigTyped ==
  /\ minted \in 0..MaxRevisions
  /\ staged \in [Names -> SUBSET Revisions]
  /\ active \in [Names -> RevisionOrNone]
  /\ calls \in [Names -> Seq(CallRecords)]
  /\ committed \in [Names -> SUBSET (Revisions \X Callers)]
  /\ \A n \in Names :
       /\ active[n] \in staged[n] \cup {None}
       /\ \A i \in DOMAIN calls[n] : calls[n][i].revision \in staged[n]

SettingTyped == deploy \in DeployRecords \cup {None} /\ report \in Seq(ResultRecords)

MqttTyped ==
  /\ link \in BOOLEAN /\ loop \in {"off", "idle", "applying"} /\ reporting \in BOOLEAN
  /\ inbox \in Seq(Messages) /\ kept \in Messages \cup {None}
  /\ requests \in Nat /\ status \in RevisionOrNone
  /\ executed \in Seq(Nat) /\ Len(executed) = requests

\* The lock of a Runtime is had by one apply at a time, and nobody replaces the revision
\* it was compared with.
LockIsHeld ==
  \A n \in Names :
    /\ \A i \in DOMAIN calls[n] :
         calls[n][i].inside => calls[n][i].expected \in {None, active[n]}
    /\ \A i, j \in DOMAIN calls[n] : calls[n][i].inside /\ calls[n][j].inside => i = j

\* The coordinator waits for one apply, on the Runtime whose turn it is.
SettingWaits ==
  /\ \A n \in Names : \A i \in DOMAIN calls[n] :
       calls[n][i].by = "setting" =>
         deploy.waiting /\ Turn(n) /\ calls[n][i].revision = deploy.revision
  /\ \A n \in Names : \A i, j \in DOMAIN calls[n] :
       calls[n][i].by = "setting" /\ calls[n][j].by = "setting" => i = j

\* Results are those of the first Runtimes, and a success was put in force there by the
\* coordinator.
ResultsHold(results, inForce) ==
  /\ Len(results) <= Len(Runtimes)
  /\ \A i \in DOMAIN results :
       results[i].outcome = "SUCCEEDED" =>
         <<results[i].revision, "setting">> \in inForce[Runtimes[i]]

\* What was staged was tried where that was asked for, and nothing otherwise.
AllTried(results) == \A i \in DOMAIN results : results[i].staged => results[i].outcome # None
NoneTried(results) ==
  \A i \in DOMAIN results : results[i].staged => results[i].outcome = None

HonestSoFar(d, inForce) ==
  /\ ResultsHold(d.results, inForce)
  /\ d.apply => AllTried(d.results)
  /\ ~d.apply => NoneTried(d.results) /\ d.revision = None
  /\ d.waiting => d.revision # None
  /\ Len(d.results) = Len(Runtimes) => d.revision = None

DeployHonest ==
  /\ deploy # None => HonestSoFar(deploy, committed)
  /\ ResultsHold(report, committed)
  /\ AllTried(report) \/ NoneTried(report)
  /\ report = <<>> \/ Len(report) = Len(Runtimes)

\* Revisions are new when they are staged; what a deployment only staged, the coordinator
\* never tries to apply, then or later.
Minted(results) == \A i \in DOMAIN results : results[i].staged => results[i].revision \in 1..minted
NoneTouched(results) ==
  \A i \in DOMAIN results : results[i].staged => Untouched(results[i].revision)

RevisionsMinted ==
  \A n \in Names :
    staged[n] \subseteq 1..minted /\ \A c \in committed[n] : c[1] \in 1..minted

StagedOnly ==
  /\ deploy # None =>
       /\ Minted(deploy.results)
       /\ deploy.revision # None =>
            /\ deploy.revision \in 1..minted
            /\ \A i \in DOMAIN report : report[i].staged => report[i].revision # deploy.revision
       /\ ~deploy.apply => NoneTouched(deploy.results)
  /\ Minted(report)
  /\ NoneTried(report) => NoneTouched(report)

\* A live message in the inbox is the only one of its request, which was not carried
\* out.
RequestsOnce ==
  /\ kept # None => kept.id \in 1..requests
  /\ \A i \in DOMAIN inbox :
       /\ inbox[i].id \in 1..requests
       /\ ~inbox[i].retain => executed[inbox[i].id] = 0
  /\ \A i, j \in DOMAIN inbox :
       ~inbox[i].retain /\ ~inbox[j].retain /\ inbox[i].id = inbox[j].id => i = j
  /\ ExecutedOnce

IInv ==
  /\ ConfigTyped /\ SettingTyped /\ MqttTyped
  /\ LockIsHeld /\ SettingWaits /\ DeployHonest /\ RevisionsMinted /\ StagedOnly /\ RequestsOnce

-----------------------------------------------------------------------------
\* What is left of a sequence without one of its elements: the rest, in order.
LEMMA OmittingIs ==
  ASSUME NEW S, NEW s \in Seq(S), NEW i \in DOMAIN s
  PROVE  /\ Omitting(s, i) \in Seq(S)
         /\ DOMAIN Omitting(s, i) = 1..(Len(s) - 1)
         /\ \A j \in 1..(Len(s) - 1) :
              /\ (IF j < i THEN j ELSE j + 1) \in DOMAIN s
              /\ Omitting(s, i)[j] = s[IF j < i THEN j ELSE j + 1]
<1>1. DOMAIN s = 1..Len(s) /\ Len(s) \in Nat /\ i \in 1..Len(s)
  BY LenProperties
<1> DEFINE a == SubSeq(s, 1, i - 1)
           b == SubSeq(s, i + 1, Len(s))
<1>2. /\ a \in Seq(S) /\ Len(a) = i - 1
      /\ \A j \in 1..(i - 1) : a[j] = s[j]
  BY <1>1
<1>3. /\ b \in Seq(S) /\ Len(b) = Len(s) - i
      /\ \A j \in 1..(Len(s) - i) : b[j] = s[i + j]
  BY <1>1
<1>4. Omitting(s, i) = a \o b
  BY DEF Omitting
<1> HIDE DEF a, b
<1>5. /\ a \o b \in Seq(S) /\ Len(a \o b) = Len(a) + Len(b)
      /\ \A j \in 1..(Len(a) + Len(b)) :
           (a \o b)[j] = IF j <= Len(a) THEN a[j] ELSE b[j - Len(a)]
  BY <1>2, <1>3, ConcatProperties
<1>6. Len(a) + Len(b) = Len(s) - 1 /\ DOMAIN (a \o b) = 1..(Len(s) - 1)
  <2>1. DOMAIN (a \o b) = 1..Len(a \o b)
    BY <1>5, LenProperties
  <2>2. Len(a) + Len(b) = Len(s) - 1
    BY <1>1, <1>2, <1>3
  <2> QED
    BY <1>5, <2>1, <2>2
<1>7. ASSUME NEW j \in 1..(Len(s) - 1)
      PROVE  /\ (IF j < i THEN j ELSE j + 1) \in DOMAIN s
             /\ (a \o b)[j] = s[IF j < i THEN j ELSE j + 1]
  <2>1. (a \o b)[j] = IF j <= i - 1 THEN a[j] ELSE b[j - (i - 1)]
    BY <1>1, <1>2, <1>5, <1>6
  <2>2. CASE j < i
    <3>1. j \in 1..(i - 1) /\ j \in 1..Len(s)
      BY <2>2, <1>1
    <3> QED
      BY <2>1, <2>2, <3>1, <1>1, <1>2
  <2>3. CASE ~(j < i)
    <3>1. j - (i - 1) \in 1..(Len(s) - i) /\ i + (j - (i - 1)) = j + 1 /\ j + 1 \in 1..Len(s)
          /\ ~(j <= i - 1)
      BY <2>3, <1>1
    <3>2. (a \o b)[j] = b[j - (i - 1)] /\ b[j - (i - 1)] = s[i + (j - (i - 1))]
      BY <2>1, <3>1, <1>3
    <3> QED
      BY <2>3, <3>1, <3>2, <1>1
  <2> QED
    BY <2>2, <2>3
<1> QED
  BY <1>4, <1>5, <1>6, <1>7

\* An apply leaves its queue: the calls of the others stay, in order.
LEMMA WithoutType ==
  ASSUME ConfigTyped, NEW name \in Names, NEW i \in DOMAIN calls[name],
         calls' = Without(name, i)
  PROVE  /\ calls' \in [Names -> Seq(CallRecords)]
         /\ \A n \in Names \ {name} : calls'[n] = calls[n]
         /\ \A j \in DOMAIN calls'[name] :
              /\ j \in Nat
              /\ (IF j < i THEN j ELSE j + 1) \in DOMAIN calls[name]
              /\ calls'[name][j] = calls[name][IF j < i THEN j ELSE j + 1]
<1> DEFINE s == calls[name]
<1>1. calls \in [Names -> Seq(CallRecords)] /\ s \in Seq(CallRecords) /\ Len(s) \in Nat
  BY LenProperties DEF ConfigTyped
<1>2. /\ Omitting(s, i) \in Seq(CallRecords)
      /\ DOMAIN Omitting(s, i) = 1..(Len(s) - 1)
      /\ \A j \in 1..(Len(s) - 1) :
           /\ (IF j < i THEN j ELSE j + 1) \in DOMAIN s
           /\ Omitting(s, i)[j] = s[IF j < i THEN j ELSE j + 1]
  BY <1>1, OmittingIs
<1>3. calls' = [calls EXCEPT ![name] = Omitting(s, i)]
  BY DEF Without
<1>4. calls'[name] = Omitting(s, i)
  BY <1>1, <1>3
<1>5. /\ calls' \in [Names -> Seq(CallRecords)]
      /\ \A n \in Names \ {name} : calls'[n] = calls[n]
  BY <1>1, <1>2, <1>3
<1>6. \A j \in 1..(Len(s) - 1) : j \in Nat
  BY <1>1
<1> HIDE DEF s
<1> QED
  BY <1>2, <1>4, <1>5, <1>6 DEF s

\* An apply is called: it is the last of the queue.
LEMMA CallType ==
  ASSUME ConfigTyped, NEW name \in Names, NEW rev \in Revisions,
         NEW expected \in RevisionOrNone, NEW by \in Callers,
         Call(name, rev, expected, by)
  PROVE  /\ calls' \in [Names -> Seq(CallRecords)]
         /\ \A n \in Names \ {name} : calls'[n] = calls[n]
         /\ DOMAIN calls[name] = 1..Len(calls[name]) /\ Len(calls[name]) \in Nat
         /\ DOMAIN calls'[name] = 1..(Len(calls[name]) + 1)
         /\ \A j \in DOMAIN calls[name] : calls'[name][j] = calls[name][j]
         /\ calls'[name][Len(calls[name]) + 1] =
              [revision |-> rev, expected |-> expected, by |-> by, inside |-> FALSE]
<1> DEFINE c == [revision |-> rev, expected |-> expected, by |-> by, inside |-> FALSE]
<1>1. calls \in [Names -> Seq(CallRecords)] /\ calls[name] \in Seq(CallRecords)
      /\ c \in CallRecords
  BY DEF ConfigTyped, CallRecords
<1>2. calls' = [calls EXCEPT ![name] = Append(calls[name], c)]
  BY DEF Call
<1> HIDE DEF c
<1>3. calls'[name] = Append(calls[name], c) /\ Append(calls[name], c) \in Seq(CallRecords)
  BY <1>1, <1>2
<1>4. /\ calls' \in [Names -> Seq(CallRecords)]
      /\ \A n \in Names \ {name} : calls'[n] = calls[n]
  BY <1>1, <1>2, <1>3
<1> QED
  BY <1>1, <1>3, <1>4, LenProperties, AppendProperties DEF c

\* The calls of the coordinator are nobody's when it no longer waits for them.
LEMMA OrphanType ==
  ASSUME ConfigTyped, NEW name \in Names, DeployTimesOut(name)
  PROVE  /\ calls' \in [Names -> Seq(CallRecords)]
         /\ \A n \in Names \ {name} : calls'[n] = calls[n]
         /\ DOMAIN calls'[name] = DOMAIN calls[name]
         /\ \A j \in DOMAIN calls[name] :
              /\ calls'[name][j].revision = calls[name][j].revision
              /\ calls'[name][j].expected = calls[name][j].expected
              /\ calls'[name][j].inside = calls[name][j].inside
              /\ calls'[name][j].by # "setting"
              /\ calls'[name][j].by \in BySetting => calls[name][j].by \in BySetting
<1> DEFINE orphan(c) == IF c.by = "setting" THEN [c EXCEPT !.by = "nobody"] ELSE c
           s == calls[name]
           o == [i \in DOMAIN s |-> orphan(s[i])]
<1>1. calls \in [Names -> Seq(CallRecords)] /\ s \in Seq(CallRecords)
  BY DEF ConfigTyped
<1>2. \A c \in CallRecords :
        /\ orphan(c) \in CallRecords /\ orphan(c).revision = c.revision
        /\ orphan(c).expected = c.expected /\ orphan(c).inside = c.inside
        /\ orphan(c).by # "setting"
        /\ orphan(c).by \in BySetting => c.by \in BySetting
  BY DEF CallRecords, Callers, BySetting
<1>3. calls' = [calls EXCEPT ![name] = o]
  BY DEF DeployTimesOut
<1>4. \A j \in DOMAIN s : s[j] \in CallRecords
  BY <1>1
<1>5. o \in Seq(CallRecords)
  <2>1. DOMAIN s = 1..Len(s) /\ Len(s) \in Nat
    BY <1>1, LenProperties
  <2>2. o \in [1..Len(s) -> CallRecords]
    BY <2>1, <1>2, <1>4
  <2> QED
    BY <2>1, <2>2, IsASeq
<1>6. DOMAIN o = DOMAIN s /\ \A j \in DOMAIN s : o[j] = orphan(s[j])
  OBVIOUS
<1> HIDE DEF orphan, o
<1> QED
  BY <1>1, <1>2, <1>3, <1>4, <1>5, <1>6

GoesInside(name, i) == calls' = [calls EXCEPT ![name][i].inside = TRUE]

\* The lock is had: one call of the queue is inside, and is what it was otherwise.
LEMMA InsideType ==
  ASSUME ConfigTyped, NEW name \in Names, NEW i \in DOMAIN calls[name],
         GoesInside(name, i)
  PROVE  /\ calls' \in [Names -> Seq(CallRecords)]
         /\ \A n \in Names \ {name} : calls'[n] = calls[n]
         /\ DOMAIN calls'[name] = DOMAIN calls[name]
         /\ \A j \in DOMAIN calls[name] :
              /\ calls'[name][j].revision = calls[name][j].revision
              /\ calls'[name][j].expected = calls[name][j].expected
              /\ calls'[name][j].inside = (calls[name][j].inside \/ j = i)
              /\ calls'[name][j].by = calls[name][j].by
<1> DEFINE s == calls[name]
           c == [s[i] EXCEPT !.inside = TRUE]
           t == [s EXCEPT ![i] = c]
<1>1. calls \in [Names -> Seq(CallRecords)] /\ s \in Seq(CallRecords)
  BY DEF ConfigTyped
<1>2. \A j \in DOMAIN s : s[j] \in CallRecords
  BY <1>1
<1>3. /\ c \in CallRecords /\ c.revision = s[i].revision /\ c.expected = s[i].expected
      /\ c.inside = TRUE /\ c.by = s[i].by
  BY <1>2 DEF CallRecords
<1>4. /\ t \in Seq(CallRecords) /\ DOMAIN t = DOMAIN s /\ t[i] = c
      /\ \A j \in DOMAIN s \ {i} : t[j] = s[j]
  BY <1>1, <1>3, ExceptSeq
<1>5. calls' = [calls EXCEPT ![name] = t]
  BY DEF GoesInside
<1>6. \A j \in DOMAIN s : s[j].inside \in BOOLEAN
  BY <1>2 DEF CallRecords
<1>7. calls'[name] = t
  BY <1>1, <1>5
<1>8. /\ calls' \in [Names -> Seq(CallRecords)]
      /\ \A n \in Names \ {name} : calls'[n] = calls[n]
  BY <1>1, <1>4, <1>5
<1> HIDE DEF c, t
<1>9. ASSUME NEW j \in DOMAIN s
      PROVE  /\ t[j].revision = s[j].revision /\ t[j].expected = s[j].expected
             /\ t[j].inside = (s[j].inside \/ j = i) /\ t[j].by = s[j].by
  <2>1. CASE j = i
    BY <2>1, <1>3, <1>4
  <2>2. CASE j # i
    BY <2>2, <1>4, <1>6
  <2> QED
    BY <2>1, <2>2
<1> QED
  BY <1>4, <1>7, <1>8, <1>9

\* Messages are taken from the head of the inbox.
LEMMA InboxType ==
  ASSUME MqttTyped, inbox # <<>>
  PROVE  /\ Head(inbox) \in Messages /\ Tail(inbox) \in Seq(Messages)
         /\ DOMAIN inbox = 1..Len(inbox) /\ Len(inbox) \in Nat \ {0}
         /\ Head(inbox) = inbox[1] /\ DOMAIN Tail(inbox) = 1..(Len(inbox) - 1)
         /\ \A j \in 1..(Len(inbox) - 1) : Tail(inbox)[j] = inbox[j + 1]
<1>1. inbox \in Seq(Messages)
  BY DEF MqttTyped
<1> QED
  BY <1>1, HeadTailProperties, LenProperties, EmptySeq

\* A staged revision is new and within the bound.
LEMMA StageType ==
  ASSUME ConfigTyped, NEW name \in Names, Stage(name), UNCHANGED <<active, calls, committed>>
  PROVE  ConfigTyped' /\ minted' \in Revisions
<1>1. minted' \in Revisions /\ minted' \in 0..MaxRevisions
  BY DeploymentAssumption DEF ConfigTyped, Stage, Revisions
<1>2. /\ staged' \in [Names -> SUBSET Revisions]
      /\ \A n \in Names : staged[n] \subseteq staged'[n]
  BY <1>1 DEF ConfigTyped, Stage
<1> QED
  BY <1>1, <1>2 DEF ConfigTyped

\* Every step keeps the registers and the queues of the locks what they are.
LEMMA ConfigStep == IInv /\ [Next]_vars => ConfigTyped'
<1> SUFFICES ASSUME IInv, [Next]_vars PROVE ConfigTyped'
  OBVIOUS
<1>a. ConfigTyped /\ MqttTyped /\ SettingTyped
  BY DEF IInv
<1>b. \A n \in Names : \A i \in DOMAIN calls[n] :
        calls[n][i] \in CallRecords /\ calls[n][i].revision \in staged[n]
        /\ calls[n][i].revision \in Revisions
  <2> SUFFICES ASSUME NEW n \in Names, NEW i \in DOMAIN calls[n]
               PROVE  calls[n][i] \in CallRecords /\ calls[n][i].revision \in staged[n]
                      /\ calls[n][i].revision \in Revisions
    OBVIOUS
  <2>1. calls[n] \in Seq(CallRecords)
    BY <1>a DEF ConfigTyped
  <2>2. calls[n][i] \in CallRecords
    BY <2>1
  <2> QED
    BY <2>2, <1>a DEF ConfigTyped, CallRecords
<1>1. ASSUME NEW n \in Names, Enter(n) PROVE ConfigTyped'
  <2>1. PICK i \in DOMAIN calls[n] :
          calls' = [calls EXCEPT ![n][i].inside = TRUE] \/ calls' = Without(n, i)
    BY <1>1 DEF Enter
  <2>2. UNCHANGED <<minted, staged, active, committed>>
    BY <1>1 DEF Enter
  <2>3. CASE calls' = [calls EXCEPT ![n][i].inside = TRUE]
    <3>1. /\ calls' \in [Names -> Seq(CallRecords)]
          /\ \A m \in Names \ {n} : calls'[m] = calls[m]
          /\ DOMAIN calls'[n] = DOMAIN calls[n]
          /\ \A j \in DOMAIN calls[n] : calls'[n][j].revision = calls[n][j].revision
      BY <2>3, <1>a, InsideType DEF GoesInside
    <3> QED
      BY <2>2, <3>1, <1>a, <1>b DEF ConfigTyped
  <2>4. CASE calls' = Without(n, i)
    <3>1. /\ calls' \in [Names -> Seq(CallRecords)]
          /\ \A m \in Names : \A j \in DOMAIN calls'[m] : calls'[m][j].revision \in staged[m]
      BY <2>4, <1>a, <1>b, WithoutType
    <3> QED
      BY <2>2, <3>1, <1>a DEF ConfigTyped
  <2> QED
    BY <2>1, <2>3, <2>4
<1>2. ASSUME NEW n \in Names, GuardEnds(n) PROVE ConfigTyped'
  <2>1. PICK i \in DOMAIN calls[n] :
          /\ calls' = Without(n, i)
          /\ \/ /\ active' = [active EXCEPT ![n] = calls[n][i].revision]
                /\ committed' = [committed EXCEPT ![n] =
                                   @ \cup {<<calls[n][i].revision, calls[n][i].by>>}]
             \/ UNCHANGED <<active, committed>>
    BY <1>2 DEF GuardEnds
  <2>2. UNCHANGED <<minted, staged>>
    BY <1>2 DEF GuardEnds
  <2>3. /\ calls' \in [Names -> Seq(CallRecords)]
        /\ \A m \in Names : \A j \in DOMAIN calls'[m] : calls'[m][j].revision \in staged[m]
    <3>1. calls' = Without(n, i)
      BY <2>1
    <3> QED
      BY <3>1, <1>a, <1>b, WithoutType
  <2>4. /\ active' \in [Names -> RevisionOrNone] /\ committed' \in [Names -> SUBSET (Revisions \X Callers)]
        /\ \A m \in Names : active'[m] \in staged[m] \cup {None}
    <3>1. CASE UNCHANGED <<active, committed>>
      BY <3>1, <1>a DEF ConfigTyped
    <3>2. CASE /\ active' = [active EXCEPT ![n] = calls[n][i].revision]
               /\ committed' = [committed EXCEPT ![n] =
                                  @ \cup {<<calls[n][i].revision, calls[n][i].by>>}]
      <4>1. /\ calls[n][i].revision \in Revisions /\ calls[n][i].revision \in staged[n]
            /\ calls[n][i].by \in Callers
        BY <1>b DEF CallRecords
      <4>2. active' \in [Names -> RevisionOrNone] /\ committed' \in [Names -> SUBSET (Revisions \X Callers)]
        BY <3>2, <4>1, <1>a DEF ConfigTyped, RevisionOrNone
      <4>3. \A m \in Names : active'[m] \in staged[m] \cup {None}
        BY <3>2, <4>1, <1>a DEF ConfigTyped
      <4> QED
        BY <4>2, <4>3
    <3> QED
      BY <2>1, <3>1, <3>2
  <2> QED
    BY <2>2, <2>3, <2>4, <1>a DEF ConfigTyped
<1>3. ASSUME NEW n \in Names, Restart(n) PROVE ConfigTyped'
  <2>1. /\ staged' = [staged EXCEPT ![n] = {}] /\ active' = [active EXCEPT ![n] = None]
        /\ calls' = [calls EXCEPT ![n] = <<>>] /\ UNCHANGED <<minted, committed>>
    BY <1>3 DEF Restart
  <2>2. <<>> \in Seq(CallRecords) /\ DOMAIN <<>> = {}
    OBVIOUS
  <2> QED
    BY <2>1, <2>2, <1>a DEF ConfigTyped, RevisionOrNone
<1>4. ASSUME NEW n \in Names, DeployStage(n) PROVE ConfigTyped'
  <2>1. UNCHANGED <<active, calls, committed>>
    BY <1>4 DEF DeployStage, Setting
  <2>2. Stage(n) \/ UNCHANGED <<minted, staged>>
    BY <1>4 DEF DeployStage
  <2> QED
    BY <2>1, <2>2, <1>a, StageType DEF ConfigTyped
<1>5. ASSUME NEW n \in Names, NEW rev \in staged[n], NEW expected \in RevisionOrNone,
             NEW by \in Callers, Call(n, rev, expected, by),
             UNCHANGED <<minted, staged, active, committed>>
      PROVE  ConfigTyped'
  <2>1. rev \in Revisions
    BY <1>a DEF ConfigTyped
  <2>2. /\ calls' \in [Names -> Seq(CallRecords)]
        /\ \A m \in Names : \A j \in DOMAIN calls'[m] : calls'[m][j].revision \in staged[m]
    <3>1. /\ calls' \in [Names -> Seq(CallRecords)]
          /\ \A m \in Names \ {n} : calls'[m] = calls[m]
          /\ DOMAIN calls[n] = 1..Len(calls[n]) /\ Len(calls[n]) \in Nat
          /\ DOMAIN calls'[n] = 1..(Len(calls[n]) + 1)
          /\ \A j \in DOMAIN calls[n] : calls'[n][j] = calls[n][j]
          /\ calls'[n][Len(calls[n]) + 1] =
               [revision |-> rev, expected |-> expected, by |-> by, inside |-> FALSE]
      BY <1>5, <2>1, <1>a, CallType
    <3>2. \A j \in DOMAIN calls'[n] : j \in DOMAIN calls[n] \/ j = Len(calls[n]) + 1
      BY <3>1
    <3>3. calls'[n][Len(calls[n]) + 1].revision \in staged[n]
      BY <3>1
    <3> QED
      BY <3>1, <3>2, <3>3, <1>b
  <2> QED
    BY <2>2, <1>5, <1>a DEF ConfigTyped
<1>6. ASSUME NEW n \in Names, DeployApply(n) PROVE ConfigTyped'
  <2>1. UNCHANGED <<minted, staged, active, committed>>
    BY <1>6 DEF DeployApply, Setting
  <2>2. \/ UNCHANGED calls
        \/ /\ Known(n, deploy.revision)
           /\ Call(n, deploy.revision, None, "setting")
    BY <1>6 DEF DeployApply
  <2>3. CASE UNCHANGED calls
    BY <2>1, <2>3, <1>a DEF ConfigTyped
  <2> QED
    BY <2>1, <2>2, <2>3, <1>5 DEF Known, RevisionOrNone, Callers
<1>7. ASSUME NEW n \in Names, DeployTimesOut(n) PROVE ConfigTyped'
  <2>1. UNCHANGED <<minted, staged, active, committed>>
    BY <1>7 DEF DeployTimesOut, Setting
  <2>2. /\ calls' \in [Names -> Seq(CallRecords)]
        /\ \A m \in Names \ {n} : calls'[m] = calls[m]
        /\ DOMAIN calls'[n] = DOMAIN calls[n]
        /\ \A j \in DOMAIN calls[n] : calls'[n][j].revision = calls[n][j].revision
    BY <1>7, <1>a, OrphanType
  <2> QED
    BY <2>1, <2>2, <1>a, <1>b DEF ConfigTyped
<1>8. CASE HandleStage
  <2>1. Stage(Managed) /\ UNCHANGED <<active, calls, committed>>
    BY <1>8 DEF HandleStage, Took
  <2> QED
    BY <2>1, <1>a, StageType, DeploymentAssumption
<1>9. CASE HandleApply
  <2>1. UNCHANGED <<minted, staged, active, committed>>
    BY <1>9 DEF HandleApply, Took
  <2>2. Head(inbox).expected \in RevisionOrNone
    BY <1>9, <1>a, InboxType DEF HandleApply, Messages
  <2>3. \/ UNCHANGED calls
        \/ Known(Managed, Head(inbox).revision)
             /\ Call(Managed, Head(inbox).revision, Head(inbox).expected, "mqtt")
    BY <1>9 DEF HandleApply
  <2>4. CASE UNCHANGED calls
    BY <2>1, <2>4, <1>a DEF ConfigTyped
  <2> QED
    BY <2>1, <2>2, <2>3, <2>4, <1>5, DeploymentAssumption DEF Known, Callers
<1>10. ASSUME UNCHANGED <<minted, configVars>> PROVE ConfigTyped'
  BY <1>10, <1>a DEF ConfigTyped
<1> QED
  BY <1>1, <1>2, <1>3, <1>4, <1>6, <1>7, <1>8, <1>9, <1>10
     DEF Next, Deploys, Handles, Begin, DeployEnds, Setting, Publish, Connect, Lose, Notice,
         StatusLoop, StatusFails, HandleIgnored, HandleList, Took, vars

\* Every step keeps the lock with one apply, and what that one was compared with in force.
LEMMA LockStep == IInv /\ [Next]_vars => LockIsHeld'
<1> SUFFICES ASSUME IInv, [Next]_vars PROVE LockIsHeld'
  OBVIOUS
<1>a. ConfigTyped /\ LockIsHeld /\ MqttTyped
  BY DEF IInv
<1>1. ASSUME NEW n \in Names, Enter(n) PROVE LockIsHeld'
  <2>1. PICK i \in DOMAIN calls[n] :
          /\ \A j \in DOMAIN calls[n] : ~calls[n][j].inside
          /\ \/ /\ calls' = [calls EXCEPT ![n][i].inside = TRUE]
                /\ calls[n][i].expected \in {None, active[n]}
             \/ calls' = Without(n, i)
    BY <1>1 DEF Enter, LockFree
  <2>2. UNCHANGED active
    BY <1>1 DEF Enter
  <2>3. CASE calls' = [calls EXCEPT ![n][i].inside = TRUE]
             /\ calls[n][i].expected \in {None, active[n]}
    <3>1. /\ \A m \in Names \ {n} : calls'[m] = calls[m]
          /\ DOMAIN calls'[n] = DOMAIN calls[n]
          /\ \A j \in DOMAIN calls[n] :
               /\ calls'[n][j].expected = calls[n][j].expected
               /\ calls'[n][j].inside = (calls[n][j].inside \/ j = i)
      <4>1. GoesInside(n, i)
        BY <2>3 DEF GoesInside
      <4> QED
        BY <4>1, <1>a, InsideType
    <3> QED
      BY <2>1, <2>2, <2>3, <3>1, <1>a DEF LockIsHeld
  <2>4. CASE calls' = Without(n, i)
    <3>1. /\ \A m \in Names \ {n} : calls'[m] = calls[m]
          /\ \A j \in DOMAIN calls'[n] :
               /\ (IF j < i THEN j ELSE j + 1) \in DOMAIN calls[n]
               /\ calls'[n][j] = calls[n][IF j < i THEN j ELSE j + 1]
      BY <2>4, <1>a, WithoutType, Zenon
    <3>2. \A j \in DOMAIN calls'[n] : ~calls'[n][j].inside
      BY <3>1, <2>1
    <3> QED
      BY <3>1, <3>2, <2>2, <1>a DEF LockIsHeld
  <2> QED
    BY <2>1, <2>3, <2>4
<1>2. ASSUME NEW n \in Names, GuardEnds(n) PROVE LockIsHeld'
  <2>1. PICK i \in DOMAIN calls[n] : calls[n][i].inside /\ calls' = Without(n, i)
    BY <1>2 DEF GuardEnds
  <2>2. \A m \in Names \ {n} : active'[m] = active[m]
    BY <1>2, <1>a DEF GuardEnds, ConfigTyped
  <2>3. \A j \in DOMAIN calls'[n] : ~calls'[n][j].inside
    <3> SUFFICES ASSUME NEW j \in DOMAIN calls'[n] PROVE ~calls'[n][j].inside
      OBVIOUS
    <3> DEFINE k == IF j < i THEN j ELSE j + 1
    <3>1. k \in DOMAIN calls[n] /\ calls'[n][j] = calls[n][k] /\ j \in Nat
      BY <2>1, <1>a, WithoutType
    <3>2. k # i
      BY <3>1
    <3> QED
      BY <2>1, <3>1, <3>2, <1>a DEF LockIsHeld
  <2>4. \A m \in Names \ {n} : calls'[m] = calls[m]
    BY <2>1, <1>a, WithoutType
  <2> QED
    BY <2>2, <2>3, <2>4, <1>a DEF LockIsHeld
<1>3. ASSUME NEW n \in Names, Restart(n) PROVE LockIsHeld'
  <2>1. active' = [active EXCEPT ![n] = None] /\ calls' = [calls EXCEPT ![n] = <<>>]
    BY <1>3 DEF Restart
  <2>2. /\ DOMAIN calls'[n] = {}
        /\ \A m \in Names \ {n} : calls'[m] = calls[m] /\ active'[m] = active[m]
    BY <2>1, <1>a DEF ConfigTyped
  <2> QED
    BY <2>2, <1>a DEF LockIsHeld
<1>4. ASSUME NEW n \in Names, NEW rev \in staged[n], NEW expected \in RevisionOrNone,
             NEW by \in Callers, Call(n, rev, expected, by),
             UNCHANGED active
      PROVE  LockIsHeld'
  <2>1. rev \in Revisions
    BY <1>a DEF ConfigTyped
  <2>2. /\ calls' \in [Names -> Seq(CallRecords)]
        /\ \A m \in Names \ {n} : calls'[m] = calls[m]
        /\ DOMAIN calls[n] = 1..Len(calls[n]) /\ Len(calls[n]) \in Nat
        /\ DOMAIN calls'[n] = 1..(Len(calls[n]) + 1)
        /\ \A j \in DOMAIN calls[n] : calls'[n][j] = calls[n][j]
        /\ calls'[n][Len(calls[n]) + 1] =
             [revision |-> rev, expected |-> expected, by |-> by, inside |-> FALSE]
    BY <1>4, <2>1, <1>a, CallType
  <2>3. \A j \in DOMAIN calls'[n] : calls'[n][j].inside => j \in DOMAIN calls[n]
    <3>1. ~calls'[n][Len(calls[n]) + 1].inside
      BY <2>2
    <3>2. \A j \in DOMAIN calls'[n] : j \in DOMAIN calls[n] \/ j = Len(calls[n]) + 1
      BY <2>2
    <3> QED
      BY <3>1, <3>2
  <2>4. \A j \in DOMAIN calls'[n] : calls'[n][j].inside =>
          j \in DOMAIN calls[n] /\ calls'[n][j] = calls[n][j]
    BY <2>2, <2>3
  <2>5. \A m \in Names \ {n} : calls'[m] = calls[m]
    BY <2>2
  <2> QED
    BY <2>4, <2>5, <1>4, <1>a DEF LockIsHeld
<1>5. ASSUME UNCHANGED <<calls, active>> PROVE LockIsHeld'
  BY <1>5, <1>a DEF LockIsHeld
<1>6. ASSUME NEW n \in Names, DeployApply(n) PROVE LockIsHeld'
  <2>1. UNCHANGED active
    BY <1>6 DEF DeployApply, Setting
  <2>2. \/ UNCHANGED calls
        \/ /\ Known(n, deploy.revision)
           /\ Call(n, deploy.revision, None, "setting")
    BY <1>6 DEF DeployApply
  <2> QED
    BY <2>1, <2>2, <1>4, <1>5 DEF Known, RevisionOrNone, Callers
<1>7. ASSUME NEW n \in Names, DeployTimesOut(n) PROVE LockIsHeld'
  <2>1. UNCHANGED active
    BY <1>7 DEF DeployTimesOut, Setting
  <2> QED
    <3>1. /\ \A m \in Names \ {n} : calls'[m] = calls[m]
          /\ DOMAIN calls'[n] = DOMAIN calls[n]
          /\ \A j \in DOMAIN calls[n] : calls'[n][j].expected = calls[n][j].expected
                                       /\ calls'[n][j].inside = calls[n][j].inside
      BY <1>7, <1>a, OrphanType
    <3> QED
      BY <2>1, <3>1, <1>a DEF LockIsHeld
<1>8. CASE HandleApply
  <2>1. UNCHANGED active
    BY <1>8 DEF HandleApply, Took
  <2>2. Head(inbox).expected \in RevisionOrNone
    BY <1>8, <1>a, InboxType DEF HandleApply, Messages
  <2>3. \/ UNCHANGED calls
        \/ Known(Managed, Head(inbox).revision)
             /\ Call(Managed, Head(inbox).revision, Head(inbox).expected, "mqtt")
    BY <1>8 DEF HandleApply
  <2> QED
    BY <2>1, <2>2, <2>3, <1>4, <1>5, DeploymentAssumption DEF Known, Callers
<1> QED
  BY <1>1, <1>2, <1>3, <1>5, <1>6, <1>7, <1>8
     DEF Next, Deploys, Handles, Begin, DeployStage, DeployEnds, Setting, Publish, Connect,
         Lose, Notice, StatusLoop, StatusFails, HandleIgnored, HandleList, HandleStage, Took, vars

-----------------------------------------------------------------------------
\* The coordinator notes a result and has nothing to wait for.
LEMMA ResultIs ==
  ASSUME deploy \in DeployRecords, NEW outcome \in GuardOutcomes
  PROVE  /\ Result(outcome) \in DeployRecords
         /\ Result(outcome).results =
              Append(deploy.results, [staged |-> TRUE, revision |-> deploy.revision,
                                      outcome |-> outcome])
         /\ [staged |-> TRUE, revision |-> deploy.revision, outcome |-> outcome] \in ResultRecords
         /\ Result(outcome).apply = deploy.apply
         /\ Result(outcome).revision = None /\ Result(outcome).waiting = FALSE
<1> DEFINE e == [staged |-> TRUE, revision |-> deploy.revision, outcome |-> outcome]
<1>1. e \in ResultRecords
  BY DEF DeployRecords, ResultRecords, Outcomes
<1>2. Append(deploy.results, e) \in Seq(ResultRecords)
  BY <1>1 DEF DeployRecords
<1>3. Result(outcome) = [deploy EXCEPT !.results = Append(deploy.results, e),
                                       !.revision = None, !.waiting = FALSE]
  BY DEF Result
<1> HIDE DEF e
<1>4. /\ Result(outcome) \in DeployRecords
      /\ Result(outcome).results = Append(deploy.results, e)
      /\ Result(outcome).apply = deploy.apply
      /\ Result(outcome).revision = None /\ Result(outcome).waiting = FALSE
  BY <1>2, <1>3 DEF DeployRecords, RevisionOrNone
<1> QED
  BY <1>1, <1>4 DEF e

\* Who is answered goes on: the coordinator with a result, the adapter with its loop.
LEMMA AnswerIs ==
  ASSUME NEW call \in CallRecords, NEW outcome, Answer(call, outcome)
  PROVE  /\ call.by = "setting" => deploy' = Result(outcome)
         /\ call.by # "setting" => deploy' = deploy
         /\ inbox' = inbox \/ inbox' = <<>>
         /\ status' = status \/ status' = active'[Managed]
         /\ loop' = loop \/ loop' \in {"idle", "off"}
         /\ link' = link \/ link' = FALSE
         /\ reporting' = reporting \/ reporting' = FALSE
BY DEF Answer, CallRecords, Callers, Told, NotTold, LoopEnds

\* How an apply ends, at the lock or with its guard.
LEMMA EndsWithAnswer ==
  ASSUME ConfigTyped, NEW n \in Names, Enter(n) \/ GuardEnds(n)
  PROVE  \/ /\ UNCHANGED <<deploy, adapterVars>>
            /\ \E i \in DOMAIN calls[n] : calls' = [calls EXCEPT ![n][i].inside = TRUE]
         \/ \E i \in DOMAIN calls[n], outcome \in GuardOutcomes :
              /\ calls[n][i] \in CallRecords
              /\ calls' = Without(n, i) /\ Answer(calls[n][i], outcome)
              /\ outcome = "SUCCEEDED" =>
                   <<calls[n][i].revision, calls[n][i].by>> \in committed'[n]
<1>1. ASSUME NEW i \in DOMAIN calls[n] PROVE calls[n][i] \in CallRecords
  BY DEF ConfigTyped
<1>2. CASE Enter(n)
  <2>1. PICK i \in DOMAIN calls[n] :
          \/ calls' = [calls EXCEPT ![n][i].inside = TRUE]
               /\ UNCHANGED <<deploy, adapterVars>>
          \/ calls' = Without(n, i) /\ Answer(calls[n][i], "REJECTED")
    BY <1>2 DEF Enter
  <2> QED
    BY <2>1, <1>1 DEF GuardOutcomes
<1>3. CASE GuardEnds(n)
  <2>1. PICK i \in DOMAIN calls[n], outcome \in GuardOutcomes :
          /\ calls' = Without(n, i) /\ Answer(calls[n][i], outcome)
          /\ outcome = "SUCCEEDED" =>
               committed' = [committed EXCEPT ![n] =
                               @ \cup {<<calls[n][i].revision, calls[n][i].by>>}]
    BY <1>3 DEF GuardEnds
  <2>2. outcome = "SUCCEEDED" => <<calls[n][i].revision, calls[n][i].by>> \in committed'[n]
    BY <2>1 DEF ConfigTyped
  <2> QED
    BY <2>1, <2>2, <1>1
<1> QED
  BY <1>2, <1>3

\* Every step keeps the deployment under way and the latest report what they are.
LEMMA SettingStep == IInv /\ [Next]_vars => SettingTyped'
<1> SUFFICES ASSUME IInv, [Next]_vars PROVE SettingTyped'
  OBVIOUS
<1>a. ConfigTyped /\ SettingTyped /\ SettingWaits
  BY DEF IInv
<1>b. deploy # None => deploy \in DeployRecords
  BY <1>a DEF SettingTyped
<1>1. ASSUME NEW n \in Names, Enter(n) \/ GuardEnds(n) PROVE SettingTyped'
  <2>1. UNCHANGED report
    BY <1>1 DEF Enter, GuardEnds
  <2>2. CASE UNCHANGED deploy
    BY <2>1, <2>2, <1>a DEF SettingTyped
  <2>3. ASSUME NEW i \in DOMAIN calls[n], NEW outcome \in GuardOutcomes,
               calls[n][i] \in CallRecords, Answer(calls[n][i], outcome)
        PROVE  SettingTyped'
    <3>1. CASE calls[n][i].by = "setting"
      <4>1. deploy \in DeployRecords /\ deploy' = Result(outcome)
        BY <3>1, <2>3, <1>a, <1>b, AnswerIs DEF SettingWaits, Turn
      <4> QED
        BY <4>1, <2>1, <1>a, ResultIs DEF SettingTyped
    <3>2. CASE calls[n][i].by # "setting"
      BY <3>2, <2>1, <2>3, <1>a, AnswerIs DEF SettingTyped
    <3> QED
      BY <3>1, <3>2
  <2> QED
    BY <1>1, <2>2, <2>3, <1>a, EndsWithAnswer
<1>2. ASSUME NEW n \in Names, Restart(n) PROVE SettingTyped'
  <2>1. UNCHANGED report
    BY <1>2 DEF Restart
  <2>2. deploy' = deploy \/ (deploy # None /\ deploy' = Result("FAILED"))
    BY <1>2 DEF Restart
  <2> QED
    BY <2>1, <2>2, <1>a, <1>b, ResultIs DEF SettingTyped, GuardOutcomes
<1>3. ASSUME NEW apply \in BOOLEAN, Begin(apply) PROVE SettingTyped'
  <2>1. <<>> \in Seq(ResultRecords)
    OBVIOUS
  <2> QED
    BY <1>3, <2>1, <1>a DEF Begin, SettingTyped, DeployRecords, RevisionOrNone
<1>4. ASSUME NEW n \in Names, DeployStage(n) PROVE SettingTyped'
  <2>1. deploy \in DeployRecords /\ UNCHANGED report
    BY <1>4, <1>b DEF DeployStage, Turn
  <2>2. ASSUME NEW e \in ResultRecords
        PROVE  [deploy EXCEPT !.results = Append(@, e)] \in DeployRecords
    BY <2>1 DEF DeployRecords
  <2>3. /\ Stage(n) => minted' \in RevisionOrNone
        /\ [staged |-> FALSE, revision |-> None, outcome |-> None] \in ResultRecords
        /\ minted' \in RevisionOrNone =>
             [staged |-> TRUE, revision |-> minted', outcome |-> None] \in ResultRecords
    BY <1>4, <1>a, StageType
       DEF RevisionOrNone, ResultRecords, Outcomes, DeployStage, Setting
  <2>4. minted' \in RevisionOrNone => [deploy EXCEPT !.revision = minted'] \in DeployRecords
    BY <2>1 DEF DeployRecords, RevisionOrNone
  <2>5. deploy' \in DeployRecords
    BY <1>4, <2>2, <2>3, <2>4 DEF DeployStage
  <2> QED
    BY <2>1, <2>5, <1>a DEF SettingTyped
<1>5. ASSUME NEW n \in Names, DeployApply(n) \/ DeployTimesOut(n) PROVE SettingTyped'
  <2>1. deploy \in DeployRecords /\ UNCHANGED report
    BY <1>5, <1>b DEF DeployApply, DeployTimesOut, Turn
  <2>2. deploy' = [deploy EXCEPT !.waiting = TRUE] \/ deploy' = Result("FAILED")
    BY <1>5 DEF DeployApply, DeployTimesOut
  <2>3. [deploy EXCEPT !.waiting = TRUE] \in DeployRecords
    BY <2>1 DEF DeployRecords
  <2> QED
    BY <2>1, <2>2, <2>3, <1>a, ResultIs DEF SettingTyped, GuardOutcomes
<1>6. CASE DeployEnds
  BY <1>6, <1>b DEF DeployEnds, SettingTyped, DeployRecords
<1>7. ASSUME UNCHANGED settingVars PROVE SettingTyped'
  BY <1>7, <1>a DEF SettingTyped
<1> QED
  BY <1>1, <1>2, <1>3, <1>4, <1>5, <1>6, <1>7
     DEF Next, Deploys, Handles, Publish, Connect, Lose, Notice, StatusLoop, StatusFails,
         HandleIgnored, HandleList, HandleStage, HandleApply, Took, vars

\* A request is carried out: its count goes up, the others' stay.
LEMMA ExecutesIs ==
  ASSUME MqttTyped, NEW message \in Messages, message.id \in 1..requests, Executes(message)
  PROVE  /\ executed' \in Seq(Nat) /\ Len(executed') = Len(executed)
         /\ DOMAIN executed' = 1..requests /\ DOMAIN executed = 1..requests
         /\ executed'[message.id] = executed[message.id] + 1
         /\ \A i \in 1..requests \ {message.id} : executed'[i] = executed[i]
<1>1. executed \in Seq(Nat) /\ DOMAIN executed = 1..requests /\ Len(executed) = requests
  BY LenProperties DEF MqttTyped
<1>2. \A i \in DOMAIN executed : executed[i] \in Nat
  BY <1>1, ElementOfSeq
<1>3. executed[message.id] + 1 \in Nat /\ message.id \in DOMAIN executed
  BY <1>1, <1>2
<1>4. executed' = [executed EXCEPT ![message.id] = executed[message.id] + 1]
  BY DEF Executes
<1>5. ASSUME NEW i \in DOMAIN executed, NEW k \in Nat
      PROVE  LET t == [executed EXCEPT ![i] = k]
             IN  /\ t \in Seq(Nat) /\ Len(t) = Len(executed)
                 /\ DOMAIN t = DOMAIN executed /\ t[i] = k
                 /\ \A j \in DOMAIN executed \ {i} : t[j] = executed[j]
  BY <1>1, ExceptSeq, Zenon
<1> QED
  BY <1>1, <1>3, <1>4, <1>5

\* The message of a request that is published.
Published(request, message) ==
  /\ message \in Messages /\ message.id = requests + 1 /\ ~message.retain
  /\ inbox' = IF link THEN Append(inbox, message) ELSE inbox
  /\ kept' \in {message, kept}

LEMMA PublishIs ==
  ASSUME ConfigTyped, MqttTyped, NEW request \in Requests, NEW retained \in BOOLEAN,
         Publish(request, retained)
  PROVE  \E message : Published(request, message)
<1> DEFINE message == [kind |-> request.kind, revision |-> request.revision,
                       expected |-> request.expected, id |-> requests', retain |-> FALSE]
<1>1. requests' = requests + 1 /\ requests' \in Nat
  BY DEF Publish, MqttTyped
<1>2. 1..minted \subseteq Revisions
  BY DeploymentAssumption DEF ConfigTyped, Revisions
<1>3. /\ request.kind \in {"stage", "text", "list", "apply"}
      /\ request.revision \in RevisionOrNone /\ request.expected \in RevisionOrNone
  BY <1>2 DEF Requests, MqttTyped, RevisionOrNone
<1>4. message \in Messages
  BY <1>1, <1>3 DEF Messages
<1>5. inbox' = IF link THEN Append(inbox, message) ELSE inbox
  BY DEF Publish
<1>6. kept' \in {message, kept}
  BY DEF Publish
<1>7. message.id = requests + 1 /\ ~message.retain
  BY <1>1
<1> HIDE DEF message
<1> QED
  BY <1>4, <1>5, <1>6, <1>7 DEF Published

\* The inbox after it was connected: what the broker keeps, marked as such.
LEMMA ConnectIs ==
  ASSUME MqttTyped, Connect
  PROVE  /\ inbox' \in Seq(Messages)
         /\ \A i \in DOMAIN inbox' :
              /\ i = 1 /\ inbox'[i].retain
              /\ kept # None /\ inbox'[i].id = kept.id
<1>1. CASE kept = None
  BY <1>1 DEF Connect
<1>2. CASE kept # None
  <2> DEFINE m == [kept EXCEPT !.retain = TRUE]
  <2>1. m \in Messages /\ m.retain /\ m.id = kept.id
    BY <1>2 DEF MqttTyped, Messages
  <2>2. inbox' = <<m>>
    BY <1>2 DEF Connect
  <2> HIDE DEF m
  <2> QED
    BY <1>2, <2>1, <2>2
<1> QED
  BY <1>1, <1>2

\* Every step keeps the adapter's connection and messages what they are.
LEMMA MqttStep == IInv /\ [Next]_vars => MqttTyped'
<1> SUFFICES ASSUME IInv, [Next]_vars PROVE MqttTyped'
  OBVIOUS
<1>a. ConfigTyped /\ MqttTyped /\ RequestsOnce
  BY DEF IInv
<1>b. /\ <<>> \in Seq(Messages)
      /\ active[Managed] \in RevisionOrNone /\ active'[Managed] \in RevisionOrNone
  BY <1>a, ConfigStep, DeploymentAssumption DEF ConfigTyped
<1>c. inbox # <<>> => Tail(inbox) \in Seq(Messages) /\ Head(inbox) \in Messages
                      /\ Head(inbox).id \in 1..requests
  BY <1>a, InboxType DEF RequestsOnce
<1>1. ASSUME NEW n \in Names, Enter(n) \/ GuardEnds(n) PROVE MqttTyped'
  <2>1. UNCHANGED <<kept, requests, executed>>
    BY <1>1 DEF Enter, GuardEnds
  <2>3. CASE UNCHANGED adapterVars
    BY <2>1, <2>3, <1>a DEF MqttTyped
  <2>4. ASSUME NEW c \in CallRecords, NEW outcome, Answer(c, outcome) PROVE MqttTyped'
    BY <2>1, <2>4, <1>a, <1>b, AnswerIs DEF MqttTyped
  <2> QED
    BY <1>1, <2>3, <2>4, <1>a, EndsWithAnswer
<1>2. ASSUME NEW n \in Names, Restart(n) PROVE MqttTyped'
  BY <1>2, <1>a, <1>b DEF Restart, LoopEnds, MqttTyped
<1>3. ASSUME NEW request \in Requests, NEW retained \in BOOLEAN, Publish(request, retained)
      PROVE  MqttTyped'
  <2>1. PICK message : Published(request, message)
    BY <1>3, <1>a, PublishIs
  <2>2. inbox' \in Seq(Messages) /\ kept' \in Messages \cup {None}
    BY <2>1, <1>a DEF Published, MqttTyped
  <2>3. /\ executed' \in Seq(Nat) /\ Len(executed') = Len(executed) + 1
        /\ requests' = requests + 1
    BY <1>3, <1>a, AppendProperties DEF Publish, MqttTyped
  <2> QED
    BY <1>3, <2>2, <2>3, <1>a DEF Publish, MqttTyped
<1>4. CASE Connect
  BY <1>4, <1>a, <1>b, ConnectIs DEF Connect, MqttTyped
<1>5. CASE Lose \/ Notice \/ StatusLoop \/ StatusFails
  BY <1>5, <1>a, <1>b DEF Lose, Notice, StatusLoop, StatusFails, LoopEnds, MqttTyped
<1>6. CASE HandleIgnored \/ HandleList
  BY <1>6, <1>a, <1>b, <1>c DEF HandleIgnored, HandleList, Took, LoopEnds, MqttTyped
<1>7. CASE HandleStage
  <2>1. executed' \in Seq(Nat) /\ Len(executed') = Len(executed)
    BY <1>7, <1>a, <1>c, ExecutesIs DEF HandleStage
  <2> QED
    BY <1>7, <2>1, <1>a, <1>b, <1>c DEF HandleStage, Took, LoopEnds, MqttTyped
<1>8. CASE HandleApply
  <2>1. executed' \in Seq(Nat) /\ Len(executed') = Len(executed)
    BY <1>8, <1>a, <1>c, ExecutesIs DEF HandleApply, MqttTyped
  <2> QED
    BY <1>8, <2>1, <1>a, <1>b, <1>c DEF HandleApply, Took, LoopEnds, Told, NotTold, MqttTyped
<1>9. ASSUME UNCHANGED mqttVars PROVE MqttTyped'
  BY <1>9, <1>a DEF MqttTyped
<1> QED
  BY <1>1, <1>2, <1>3, <1>4, <1>5, <1>6, <1>7, <1>8, <1>9
     DEF Next, Deploys, Handles, Begin, DeployStage, DeployApply, DeployTimesOut, DeployEnds,
         Setting, vars

\* No apply is waited for by the coordinator.
NobodyWaits == \A n \in Names : \A i \in DOMAIN calls[n] : calls[n][i].by # "setting"

\* The coordinator waits on one Runtime at a time.
LEMMA WaitsOnTurn ==
  ASSUME SettingWaits, NEW n \in Names, Turn(n)
  PROVE  \A m \in Names \ {n} : \A i \in DOMAIN calls[m] : calls[m][i].by # "setting"
BY DEF SettingWaits, Turn

\* Every step leaves the coordinator waiting for at most one apply, the one it called.
LEMMA WaitsStep == IInv /\ [Next]_vars => SettingWaits'
<1> SUFFICES ASSUME IInv, [Next]_vars PROVE SettingWaits'
  OBVIOUS
<1>a. ConfigTyped /\ SettingTyped /\ MqttTyped /\ SettingWaits /\ DeployHonest
  BY DEF IInv
<1>b. NobodyWaits' => SettingWaits'
  BY DEF NobodyWaits, SettingWaits
<1>c. deploy = None \/ ~deploy.waiting \/ ~(\E n \in Names : Turn(n)) => NobodyWaits
  BY <1>a DEF NobodyWaits, SettingWaits, Turn
<1>d. UNCHANGED calls /\ NobodyWaits => NobodyWaits'
  BY DEF NobodyWaits
<1>1. ASSUME NEW n \in Names, Enter(n) \/ GuardEnds(n) PROVE SettingWaits'
  <2>1. ASSUME UNCHANGED deploy, NEW i \in DOMAIN calls[n],
               calls' = [calls EXCEPT ![n][i].inside = TRUE]
        PROVE  SettingWaits'
    <3>1. /\ \A m \in Names \ {n} : calls'[m] = calls[m]
          /\ DOMAIN calls'[n] = DOMAIN calls[n]
          /\ \A j \in DOMAIN calls[n] :
               calls'[n][j].revision = calls[n][j].revision /\ calls'[n][j].by = calls[n][j].by
      BY <2>1, <1>a, InsideType DEF GoesInside
    <3> QED
      BY <2>1, <3>1, <1>a DEF SettingWaits, Turn
  <2>2. ASSUME NEW i \in DOMAIN calls[n], NEW outcome \in GuardOutcomes,
               calls[n][i] \in CallRecords, calls' = Without(n, i), Answer(calls[n][i], outcome)
        PROVE  SettingWaits'
    <3>1. /\ \A m \in Names \ {n} : calls'[m] = calls[m]
          /\ \A j \in DOMAIN calls'[n] :
               /\ j \in Nat
               /\ (IF j < i THEN j ELSE j + 1) \in DOMAIN calls[n]
               /\ calls'[n][j] = calls[n][IF j < i THEN j ELSE j + 1]
      BY <2>2, <1>a, WithoutType
    <3>2. i \in Nat
      BY <1>a DEF ConfigTyped
    <3>3. CASE calls[n][i].by = "setting"
      <4>1. \A m \in Names \ {n} : \A j \in DOMAIN calls'[m] : calls'[m][j].by # "setting"
        BY <3>1, <3>3, <1>a, WaitsOnTurn DEF SettingWaits
      <4>2. ASSUME NEW j \in DOMAIN calls'[n] PROVE calls'[n][j].by # "setting"
        <5> DEFINE k == IF j < i THEN j ELSE j + 1
        <5>1. k \in DOMAIN calls[n] /\ calls'[n][j] = calls[n][k] /\ k # i
          BY <3>1, <3>2
        <5> QED
          BY <5>1, <3>3, <1>a DEF SettingWaits
      <4> QED
        BY <4>1, <4>2, <1>b DEF NobodyWaits
    <3>4. CASE calls[n][i].by # "setting"
      <4>1. deploy' = deploy
        BY <2>2, <3>4, AnswerIs
      <4>2. \A m \in Names : \A j \in DOMAIN calls'[m] :
              calls'[m][j].by = "setting" =>
                deploy.waiting /\ Turn(m) /\ calls'[m][j].revision = deploy.revision
        BY <3>1, <1>a DEF SettingWaits
      <4>3. \A j, k \in DOMAIN calls'[n] :
              calls'[n][j].by = "setting" /\ calls'[n][k].by = "setting" => j = k
        <5> SUFFICES ASSUME NEW j \in DOMAIN calls'[n], NEW k \in DOMAIN calls'[n],
                            calls'[n][j].by = "setting", calls'[n][k].by = "setting"
                     PROVE  j = k
          OBVIOUS
        <5>1. (IF j < i THEN j ELSE j + 1) = (IF k < i THEN k ELSE k + 1)
          BY <3>1, <1>a DEF SettingWaits
        <5> QED
          BY <5>1, <3>1, <3>2
      <4> QED
        BY <3>1, <4>1, <4>2, <4>3, <1>a DEF SettingWaits, Turn
    <3> QED
      BY <3>3, <3>4
  <2> QED
    BY <1>1, <2>1, <2>2, <1>a, EndsWithAnswer
<1>2. ASSUME NEW n \in Names, Restart(n) PROVE SettingWaits'
  <2>1. DOMAIN calls'[n] = {} /\ \A m \in Names \ {n} : calls'[m] = calls[m]
    BY <1>2, <1>a DEF Restart, ConfigTyped
  <2>2. CASE deploy # None /\ Turn(n)
    BY <2>1, <2>2, <1>a, <1>b, WaitsOnTurn DEF NobodyWaits
  <2>3. CASE deploy' = deploy
    BY <2>1, <2>3, <1>a DEF SettingWaits, Turn
  <2> QED
    BY <1>2, <2>2, <2>3 DEF Restart
<1>3. ASSUME NEW apply \in BOOLEAN, Begin(apply) PROVE SettingWaits'
  BY <1>3, <1>b, <1>c, <1>d DEF Begin
<1>4. ASSUME NEW n \in Names, DeployStage(n) PROVE SettingWaits'
  BY <1>4, <1>a, <1>b, <1>c, <1>d DEF DeployStage, DeployHonest, HonestSoFar
<1>5. ASSUME NEW n \in Names, DeployApply(n) PROVE SettingWaits'
  <2>1. NobodyWaits /\ deploy \in DeployRecords
    BY <1>5, <1>a, <1>c DEF DeployApply, Turn, SettingTyped
  <2>2. CASE UNCHANGED calls
    BY <2>1, <2>2, <1>b, <1>d
  <2>3. CASE /\ Known(n, deploy.revision) /\ Call(n, deploy.revision, None, "setting")
             /\ deploy' = [deploy EXCEPT !.waiting = TRUE]
    <3>1. /\ deploy' \in DeployRecords /\ deploy'.waiting
          /\ deploy'.revision = deploy.revision /\ deploy'.results = deploy.results
      BY <2>1, <2>3 DEF DeployRecords
    <3>2. Turn(n)'
      BY <1>5, <3>1, DeploymentAssumption DEF DeployApply, Turn
    <3>3. deploy.revision \in Revisions
      BY <2>3, <1>a DEF Known, ConfigTyped
    <3>4. /\ \A m \in Names \ {n} : calls'[m] = calls[m]
          /\ DOMAIN calls[n] = 1..Len(calls[n]) /\ Len(calls[n]) \in Nat
          /\ DOMAIN calls'[n] = 1..(Len(calls[n]) + 1)
          /\ \A j \in DOMAIN calls[n] : calls'[n][j] = calls[n][j]
          /\ calls'[n][Len(calls[n]) + 1] =
               [revision |-> deploy.revision, expected |-> None, by |-> "setting",
                inside |-> FALSE]
      <4>1. None \in RevisionOrNone /\ "setting" \in Callers
        BY DEF RevisionOrNone, Callers
      <4> QED
        BY <2>3, <3>3, <4>1, <1>a, CallType
    <3>5. \A j \in DOMAIN calls'[n] : j \in DOMAIN calls[n] \/ j = Len(calls[n]) + 1
      BY <3>4
    <3>6. /\ \A m \in Names \ {n} : \A j \in DOMAIN calls'[m] : calls'[m][j].by # "setting"
          /\ \A j \in DOMAIN calls'[n] : calls'[n][j].by = "setting" => j = Len(calls[n]) + 1
      BY <2>1, <3>4, <3>5 DEF NobodyWaits
    <3>7. calls'[n][Len(calls[n]) + 1].revision = deploy'.revision
      BY <3>1, <3>4
    <3> QED
      BY <3>1, <3>2, <3>6, <3>7 DEF SettingWaits
  <2> QED
    BY <1>5, <2>2, <2>3 DEF DeployApply
<1>6. ASSUME NEW n \in Names, DeployTimesOut(n) PROVE SettingWaits'
  <2>1. /\ \A m \in Names \ {n} : calls'[m] = calls[m]
        /\ DOMAIN calls'[n] = DOMAIN calls[n]
        /\ \A j \in DOMAIN calls[n] : calls'[n][j].by # "setting"
    BY <1>6, <1>a, OrphanType
  <2>2. \A m \in Names \ {n} : \A j \in DOMAIN calls[m] : calls[m][j].by # "setting"
    BY <1>6, <1>a, WaitsOnTurn DEF DeployTimesOut
  <2> QED
    BY <2>1, <2>2, <1>b DEF NobodyWaits
<1>7. CASE DeployEnds
  <2>1. ~(\E n \in Names : Turn(n))
    BY <1>7, <1>a DEF DeployEnds, Turn
  <2> QED
    BY <1>7, <2>1, <1>b, <1>c, <1>d DEF DeployEnds
<1>8. CASE HandleApply
  <2>1. UNCHANGED deploy
    BY <1>8 DEF HandleApply, Took
  <2>2. CASE UNCHANGED calls
    BY <2>1, <2>2, <1>a DEF SettingWaits, Turn
  <2>3. CASE /\ Known(Managed, Head(inbox).revision)
             /\ Call(Managed, Head(inbox).revision, Head(inbox).expected, "mqtt")
    <3>1. Head(inbox).revision \in Revisions /\ Managed \in Names
      BY <2>3, <1>a, DeploymentAssumption DEF Known, ConfigTyped
    <3>2. Head(inbox).expected \in RevisionOrNone
      BY <1>8, <1>a, InboxType DEF HandleApply, Messages
    <3>3. /\ \A m \in Names \ {Managed} : calls'[m] = calls[m]
          /\ DOMAIN calls[Managed] = 1..Len(calls[Managed]) /\ Len(calls[Managed]) \in Nat
          /\ DOMAIN calls'[Managed] = 1..(Len(calls[Managed]) + 1)
          /\ \A j \in DOMAIN calls[Managed] : calls'[Managed][j] = calls[Managed][j]
          /\ calls'[Managed][Len(calls[Managed]) + 1] =
               [revision |-> Head(inbox).revision, expected |-> Head(inbox).expected,
                by |-> "mqtt", inside |-> FALSE]
      BY <2>3, <3>1, <3>2, <1>a, CallType DEF Callers
    <3>4. \A j \in DOMAIN calls'[Managed] :
            j \in DOMAIN calls[Managed] \/ j = Len(calls[Managed]) + 1
      BY <3>3
    <3>5. calls'[Managed][Len(calls[Managed]) + 1].by # "setting"
      BY <3>3
    <3>6. \A j \in DOMAIN calls'[Managed] : calls'[Managed][j].by = "setting" =>
            j \in DOMAIN calls[Managed] /\ calls'[Managed][j] = calls[Managed][j]
      BY <3>3, <3>4, <3>5
    <3>7. \A m \in Names \ {Managed} : calls'[m] = calls[m]
      BY <3>3
    <3> QED
      BY <3>6, <3>7, <2>1, <1>a DEF SettingWaits, Turn
  <2> QED
    BY <1>8, <2>2, <2>3 DEF HandleApply
<1>9. ASSUME UNCHANGED <<calls, deploy>> PROVE SettingWaits'
  BY <1>9, <1>a DEF SettingWaits, Turn
<1> QED
  BY <1>1, <1>2, <1>3, <1>4, <1>5, <1>6, <1>7, <1>8, <1>9
     DEF Next, Deploys, Handles, Publish, Connect, Lose, Notice, StatusLoop, StatusFails,
         HandleIgnored, HandleList, HandleStage, Took, vars

-----------------------------------------------------------------------------
\* What was in force on a Runtime stays known to have been.
LEMMA CommittedGrows ==
  ASSUME ConfigTyped, [Next]_vars
  PROVE  \A n \in Names : committed[n] \subseteq committed'[n]
<1>1. ASSUME NEW n \in Names, GuardEnds(n)
      PROVE  \A m \in Names : committed[m] \subseteq committed'[m]
  <2>1. \/ UNCHANGED committed
        \/ \E c : committed' = [committed EXCEPT ![n] = @ \cup {c}]
    BY <1>1 DEF GuardEnds
  <2> QED
    BY <2>1 DEF ConfigTyped
<1> QED
  BY <1>1
     DEF Next, Deploys, Handles, Enter, Restart, Begin, DeployStage, DeployApply, DeployTimesOut,
         DeployEnds, Setting, Publish, Connect, Lose, Notice, StatusLoop, StatusFails,
         HandleIgnored, HandleList, HandleStage, HandleApply, Took, vars

\* The element after the last one, and the others as they were.
LEMMA AppendIs ==
  ASSUME NEW S, NEW s \in Seq(S), NEW e \in S
  PROVE  /\ Append(s, e) \in Seq(S) /\ Len(Append(s, e)) = Len(s) + 1
         /\ DOMAIN s = 1..Len(s) /\ Len(s) \in Nat
         /\ DOMAIN Append(s, e) = 1..(Len(s) + 1)
         /\ \A i \in DOMAIN s : Append(s, e)[i] = s[i]
         /\ Append(s, e)[Len(s) + 1] = e
BY AppendProperties, LenProperties

\* Results that hold still do when more was in force.
LEMMA HonestStays ==
  ASSUME NEW d \in DeployRecords, NEW old, NEW new, HonestSoFar(d, old),
         \A n \in Names : old[n] \subseteq new[n]
  PROVE  HonestSoFar(d, new)
<1>1. \A i \in DOMAIN d.results : i \in DOMAIN Runtimes
  <2>1. d.results \in Seq(ResultRecords) /\ Len(d.results) <= Len(Runtimes)
    BY DEF DeployRecords, HonestSoFar, ResultsHold
  <2>2. /\ DOMAIN d.results = 1..Len(d.results) /\ Len(d.results) \in Nat
        /\ DOMAIN Runtimes = 1..Len(Runtimes) /\ Len(Runtimes) \in Nat
    BY <2>1, DeploymentAssumption, LenProperties
  <2> QED
    BY <2>1, <2>2
<1> QED
  BY <1>1 DEF HonestSoFar, ResultsHold, Names

\* The next Runtime's result is noted.
LEMMA HonestGrows ==
  ASSUME NEW d \in DeployRecords, NEW old, NEW new, HonestSoFar(d, old),
         \A n \in Names : old[n] \subseteq new[n],
         Len(d.results) < Len(Runtimes),
         NEW e \in ResultRecords,
         e.outcome = "SUCCEEDED" =>
           <<e.revision, "setting">> \in new[Runtimes[Len(d.results) + 1]],
         e.staged => (d.apply <=> e.outcome # None),
         NEW t, t.results = Append(d.results, e), t.apply = d.apply, t.revision = None,
         t.waiting = FALSE
  PROVE  HonestSoFar(t, new)
<1>1. /\ Len(t.results) = Len(d.results) + 1
      /\ DOMAIN d.results = 1..Len(d.results) /\ Len(d.results) \in Nat
      /\ DOMAIN t.results = 1..(Len(d.results) + 1)
      /\ \A i \in DOMAIN d.results : t.results[i] = d.results[i]
      /\ t.results[Len(d.results) + 1] = e
  <2>1. d.results \in Seq(ResultRecords)
    BY DEF DeployRecords
  <2> QED
    BY <2>1, AppendIs
<1>2. \A i \in DOMAIN t.results : i \in DOMAIN d.results \/ i = Len(d.results) + 1
  BY <1>1
<1>3. HonestSoFar(d, new)
  BY HonestStays
<1>4. Len(t.results) <= Len(Runtimes)
  BY <1>1, DeploymentAssumption
<1>5. ResultsHold(t.results, new)
  BY <1>1, <1>2, <1>3, <1>4 DEF HonestSoFar, ResultsHold
<1>6. d.apply \in BOOLEAN
  BY DEF DeployRecords
<1>7. t.apply => AllTried(t.results)
  BY <1>1, <1>2, <1>3, <1>6 DEF HonestSoFar, AllTried
<1>8. ~t.apply => NoneTried(t.results)
  BY <1>1, <1>2, <1>3, <1>6 DEF HonestSoFar, NoneTried
<1> QED
  BY <1>5, <1>7, <1>8 DEF HonestSoFar

\* An apply of the coordinator has a result.
LEMMA ResultIsHonest ==
  ASSUME deploy \in DeployRecords, NEW new, HonestSoFar(deploy, committed),
         \A n \in Names : committed[n] \subseteq new[n],
         NEW n \in Names, Turn(n), deploy.revision # None, NEW outcome \in GuardOutcomes,
         outcome = "SUCCEEDED" => <<deploy.revision, "setting">> \in new[n]
  PROVE  HonestSoFar(Result(outcome), new)
<1> DEFINE e == [staged |-> TRUE, revision |-> deploy.revision, outcome |-> outcome]
<1>1. /\ e \in ResultRecords /\ Result(outcome).results = Append(deploy.results, e)
      /\ Result(outcome).apply = deploy.apply
      /\ Result(outcome).revision = None /\ Result(outcome).waiting = FALSE
  BY ResultIs
<1>2. e.revision = deploy.revision /\ e.outcome = outcome /\ e.outcome # None
  BY DeploymentAssumption
<1>3. deploy.apply
  BY DEF HonestSoFar, DeployRecords
<1>4. n = Runtimes[Len(deploy.results) + 1] /\ Len(deploy.results) < Len(Runtimes)
  BY DEF Turn
<1> HIDE DEF e
<1> QED
  BY <1>1, <1>2, <1>3, <1>4, HonestGrows

\* Every step keeps what is claimed of a deployment, under way or over, true.
LEMMA HonestStep == IInv /\ [Next]_vars => DeployHonest'
<1> SUFFICES ASSUME IInv, [Next]_vars PROVE DeployHonest'
  OBVIOUS
<1>a. ConfigTyped /\ SettingTyped /\ SettingWaits /\ DeployHonest
  BY DEF IInv
<1>b. deploy # None => deploy \in DeployRecords /\ HonestSoFar(deploy, committed)
  BY <1>a DEF SettingTyped, DeployHonest
<1>c. \A n \in Names : committed[n] \subseteq committed'[n]
  BY <1>a, CommittedGrows
<1>d. deploy # None => HonestSoFar(deploy, committed')
  BY <1>b, <1>c, HonestStays
<1>e. ResultsHold(report, committed')
  <2>1. \A i \in DOMAIN report : i \in DOMAIN Runtimes
    BY <1>a, DeploymentAssumption DEF SettingTyped, DeployHonest, ResultsHold
  <2> QED
    BY <2>1, <1>a, <1>c DEF DeployHonest, ResultsHold, Names
<1>f. ASSUME UNCHANGED report, deploy' # None => HonestSoFar(deploy', committed')
      PROVE  DeployHonest'
  BY <1>f, <1>a, <1>e DEF DeployHonest
<1>1. ASSUME NEW n \in Names, Enter(n) \/ GuardEnds(n) PROVE DeployHonest'
  <2>1. UNCHANGED report
    BY <1>1 DEF Enter, GuardEnds
  <2>2. CASE UNCHANGED deploy
    BY <2>1, <2>2, <1>d, <1>f
  <2>3. ASSUME NEW i \in DOMAIN calls[n], NEW outcome \in GuardOutcomes,
               calls[n][i] \in CallRecords, Answer(calls[n][i], outcome),
               outcome = "SUCCEEDED" =>
                 <<calls[n][i].revision, calls[n][i].by>> \in committed'[n]
        PROVE  DeployHonest'
    <3>1. CASE calls[n][i].by = "setting"
      <4>1. /\ deploy.waiting /\ Turn(n) /\ calls[n][i].revision = deploy.revision
            /\ deploy # None
        BY <3>1, <1>a DEF SettingWaits, Turn
      <4>2. deploy.revision # None
        BY <4>1, <1>b DEF HonestSoFar
      <4>3. HonestSoFar(Result(outcome), committed')
        BY <3>1, <4>1, <4>2, <2>3, <1>b, <1>c, ResultIsHonest
      <4> QED
        BY <4>3, <3>1, <2>1, <2>3, <1>f, AnswerIs
    <3>2. CASE calls[n][i].by # "setting"
      BY <3>2, <2>2, <2>3, AnswerIs
    <3> QED
      BY <3>1, <3>2
  <2> QED
    BY <1>1, <2>2, <2>3, <1>a, EndsWithAnswer
<1>2. ASSUME NEW n \in Names, Restart(n) PROVE DeployHonest'
  <2>1. CASE deploy # None /\ Turn(n) /\ deploy.waiting
    <3>1. deploy.revision # None
      BY <2>1, <1>b DEF HonestSoFar
    <3>2. HonestSoFar(Result("FAILED"), committed')
      BY <2>1, <3>1, <1>b, <1>c, ResultIsHonest DEF GuardOutcomes
    <3> QED
      BY <1>2, <2>1, <3>2, <1>f DEF Restart
  <2>2. CASE ~(deploy # None /\ Turn(n) /\ deploy.waiting)
    BY <1>2, <2>2, <1>d, <1>f DEF Restart
  <2> QED
    BY <2>1, <2>2
<1>3. ASSUME NEW apply \in BOOLEAN, Begin(apply) PROVE DeployHonest'
  <2>1. /\ deploy'.results = <<>> /\ deploy'.apply = apply /\ deploy'.revision = None
        /\ deploy'.waiting = FALSE
    BY <1>3 DEF Begin
  <2>2. HonestSoFar(deploy', committed')
    BY <2>1, DeploymentAssumption DEF HonestSoFar, ResultsHold, AllTried, NoneTried
  <2> QED
    BY <1>3, <2>2, <1>f DEF Begin
<1>4. ASSUME NEW n \in Names, DeployStage(n) PROVE DeployHonest'
  <2>1. /\ deploy \in DeployRecords /\ HonestSoFar(deploy, committed) /\ deploy.revision = None
        /\ Len(deploy.results) < Len(Runtimes) /\ UNCHANGED report
    BY <1>4, <1>b DEF DeployStage, Turn
  <2>2. deploy.waiting = FALSE
    BY <2>1 DEF HonestSoFar, DeployRecords
  <2>3. ASSUME NEW e \in ResultRecords, e.outcome = None, e.staged => ~deploy.apply,
               deploy' = [deploy EXCEPT !.results = Append(@, e)]
        PROVE  HonestSoFar(deploy', committed')
    <3>1. /\ deploy'.results = Append(deploy.results, e) /\ deploy'.apply = deploy.apply
          /\ deploy'.revision = None /\ deploy'.waiting = FALSE
      BY <2>1, <2>2, <2>3 DEF DeployRecords
    <3>2. e.outcome # "SUCCEEDED" /\ (e.staged => (deploy.apply <=> e.outcome # None))
      BY <2>3, DeploymentAssumption DEF GuardOutcomes
    <3> QED
      BY <2>1, <2>3, <3>1, <3>2, <1>c, HonestGrows
  <2>4. CASE Stage(n)
             /\ deploy' = IF deploy.apply
                          THEN [deploy EXCEPT !.revision = minted']
                          ELSE [deploy EXCEPT !.results = Append(@,
                                  [staged |-> TRUE, revision |-> minted', outcome |-> None])]
    <3>1. minted' \in Revisions
      BY <1>4, <2>4, <1>a, StageType DEF DeployStage, Setting
    <3>2. [staged |-> TRUE, revision |-> minted', outcome |-> None] \in ResultRecords
      BY <3>1 DEF ResultRecords, Outcomes
    <3>3. CASE deploy.apply
      <4>1. /\ deploy'.results = deploy.results /\ deploy'.apply = deploy.apply
            /\ deploy'.waiting = FALSE
        BY <2>1, <2>2, <2>4, <3>3 DEF DeployRecords
      <4>2. Len(deploy.results) # Len(Runtimes) /\ deploy # None
        <5>1. Len(deploy.results) \in Nat /\ Len(Runtimes) \in Nat
          BY <2>1, DeploymentAssumption, LenProperties DEF DeployRecords
        <5> QED
          BY <5>1, <2>1, <1>4 DEF DeployStage, Turn
      <4>3. HonestSoFar(deploy, committed')
        BY <4>2, <1>d
      <4>4. HonestSoFar(deploy', committed')
        BY <3>3, <4>1, <4>2, <4>3 DEF HonestSoFar
      <4> QED
        BY <2>1, <4>4, <1>f
    <3>4. CASE ~deploy.apply
      BY <2>1, <2>3, <2>4, <3>2, <3>4, <1>f
    <3> QED
      BY <3>3, <3>4
  <2>5. CASE deploy' = [deploy EXCEPT !.results = Append(@,
                          [staged |-> FALSE, revision |-> None, outcome |-> None])]
    <3>1. [staged |-> FALSE, revision |-> None, outcome |-> None] \in ResultRecords
      BY DEF ResultRecords, Outcomes
    <3> QED
      BY <2>1, <2>3, <2>5, <3>1, <1>f
  <2> QED
    BY <1>4, <2>4, <2>5 DEF DeployStage
<1>5. ASSUME NEW n \in Names, DeployApply(n) \/ DeployTimesOut(n) PROVE DeployHonest'
  <2>1. deploy \in DeployRecords /\ HonestSoFar(deploy, committed) /\ Turn(n) /\ UNCHANGED report
    BY <1>5, <1>b DEF DeployApply, DeployTimesOut, Turn
  <2>2. deploy.revision # None
    BY <1>5, <2>1 DEF DeployApply, DeployTimesOut, HonestSoFar
  <2>3. CASE deploy' = Result("FAILED")
    BY <2>1, <2>2, <2>3, <1>c, <1>f, ResultIsHonest DEF GuardOutcomes
  <2>4. CASE deploy' = [deploy EXCEPT !.waiting = TRUE]
    <3>1. /\ deploy'.results = deploy.results /\ deploy'.apply = deploy.apply
          /\ deploy'.revision = deploy.revision
      BY <2>1, <2>4 DEF DeployRecords
    <3>2. deploy # None
      BY <2>1 DEF Turn
    <3> QED
      BY <2>1, <2>2, <3>1, <3>2, <1>d, <1>f DEF HonestSoFar
  <2> QED
    BY <1>5, <2>3, <2>4 DEF DeployApply, DeployTimesOut
<1>6. CASE DeployEnds
  <2>1. /\ report' = deploy.results /\ deploy' = None /\ Len(report') = Len(Runtimes)
        /\ HonestSoFar(deploy, committed') /\ deploy.apply \in BOOLEAN
    BY <1>6, <1>b, <1>d DEF DeployEnds, DeployRecords
  <2> QED
    BY <2>1 DEF DeployHonest, HonestSoFar
<1>7. ASSUME UNCHANGED settingVars PROVE DeployHonest'
  BY <1>7, <1>d, <1>f
<1> QED
  BY <1>1, <1>2, <1>3, <1>4, <1>5, <1>6, <1>7
     DEF Next, Deploys, Handles, Publish, Connect, Lose, Notice, StatusLoop, StatusFails,
         HandleIgnored, HandleList, HandleStage, HandleApply, Took, vars

-----------------------------------------------------------------------------
\* A revision is new when it is staged, and known before it is applied.
LEMMA MintStep ==
  IInv /\ [Next]_vars => RevisionsMinted' /\ 1..minted \subseteq 1..minted'
<1> SUFFICES ASSUME IInv, [Next]_vars
             PROVE  RevisionsMinted' /\ 1..minted \subseteq 1..minted'
  OBVIOUS
<1>a. ConfigTyped /\ RevisionsMinted /\ minted \in Nat
  BY DeploymentAssumption DEF IInv, ConfigTyped
<1>1. ASSUME NEW n \in Names, Stage(n), UNCHANGED committed
      PROVE  RevisionsMinted' /\ 1..minted \subseteq 1..minted'
  <2>1. minted' = minted + 1 /\ staged' = [staged EXCEPT ![n] = @ \cup {minted + 1}]
    BY <1>1 DEF Stage
  <2> QED
    BY <2>1, <1>1, <1>a DEF RevisionsMinted, ConfigTyped
<1>2. ASSUME NEW n \in Names, GuardEnds(n) PROVE RevisionsMinted' /\ UNCHANGED minted
  <2>1. PICK i \in DOMAIN calls[n] :
          \/ committed' = [committed EXCEPT ![n] =
                             @ \cup {<<calls[n][i].revision, calls[n][i].by>>}]
          \/ UNCHANGED committed
    BY <1>2 DEF GuardEnds
  <2>2. calls[n][i].revision \in 1..minted
    BY <1>a DEF ConfigTyped, RevisionsMinted
  <2>3. UNCHANGED <<minted, staged>>
    BY <1>2 DEF GuardEnds
  <2>4. ASSUME NEW m \in Names, NEW c \in committed'[m] PROVE c[1] \in 1..minted
    <3>1. c \in committed[m] \/ c = <<calls[n][i].revision, calls[n][i].by>>
      <4> DEFINE pair == <<calls[n][i].revision, calls[n][i].by>>
      <4>1. \/ committed' = [committed EXCEPT ![n] = @ \cup {pair}]
            \/ UNCHANGED committed
        BY <2>1
      <4> HIDE DEF pair
      <4>2. committed'[m] \subseteq committed[m] \cup {pair}
        BY <4>1, <1>a DEF ConfigTyped
      <4> QED
        BY <4>2, <2>4 DEF pair
    <3> QED
      BY <3>1, <2>2, <1>a DEF RevisionsMinted
  <2> QED
    BY <2>3, <2>4, <1>a DEF RevisionsMinted
<1>3. ASSUME NEW n \in Names, Restart(n) PROVE RevisionsMinted' /\ UNCHANGED minted
  BY <1>3, <1>a DEF Restart, RevisionsMinted, ConfigTyped
<1>4. ASSUME UNCHANGED <<minted, staged, committed>> PROVE RevisionsMinted' /\ UNCHANGED minted
  BY <1>4, <1>a DEF RevisionsMinted
<1>5. CASE HandleStage
  BY <1>5, <1>1, DeploymentAssumption DEF HandleStage, Took
<1>6. ASSUME NEW n \in Names, DeployStage(n)
      PROVE  RevisionsMinted' /\ 1..minted \subseteq 1..minted'
  BY <1>6, <1>1, <1>4 DEF DeployStage, Setting
<1> QED
  BY <1>2, <1>3, <1>4, <1>5, <1>6
     DEF Next, Deploys, Handles, Enter, Begin, DeployApply, DeployTimesOut, DeployEnds, Setting,
         Publish, Connect, Lose, Notice, StatusLoop, StatusFails, HandleIgnored, HandleList,
         HandleApply, Took, vars

\* What the coordinator has not tried to apply it does not, unless it is about to; an apply
\* by MQTT is none of its.
LEMMA UntouchedStays ==
  ASSUME IInv, [Next]_vars, NEW rev, Untouched(rev),
         deploy # None /\ deploy.revision # None => deploy.revision # rev
  PROVE  Untouched(rev)'
<1>a. ConfigTyped /\ MqttTyped
  BY DEF IInv
<1>1. ASSUME NEW n \in Names, Enter(n) PROVE Untouched(rev)'
  <2>1. UNCHANGED committed
    BY <1>1 DEF Enter
  <2>2. PICK i \in DOMAIN calls[n] : GoesInside(n, i) \/ calls' = Without(n, i)
    BY <1>1 DEF Enter, GoesInside
  <2>3. CASE GoesInside(n, i)
    BY <2>1, <2>3, <1>a, InsideType DEF Untouched
  <2>4. CASE calls' = Without(n, i)
    BY <2>1, <2>4, <1>a, WithoutType DEF Untouched
  <2> QED
    BY <2>2, <2>3, <2>4
<1>2. ASSUME NEW n \in Names, GuardEnds(n) PROVE Untouched(rev)'
  <2>1. PICK i \in DOMAIN calls[n] :
          /\ calls' = Without(n, i)
          /\ \/ committed' = [committed EXCEPT ![n] =
                                @ \cup {<<calls[n][i].revision, calls[n][i].by>>}]
             \/ UNCHANGED committed
    BY <1>2 DEF GuardEnds
  <2>2. ASSUME NEW m \in Names, NEW who \in BySetting PROVE <<rev, who>> \notin committed'[m]
    <3>1. <<rev, who>> \notin committed[m]
      BY DEF Untouched
    <3>2. <<rev, who>> # <<calls[n][i].revision, calls[n][i].by>>
      BY DEF Untouched
    <3> DEFINE pair == <<calls[n][i].revision, calls[n][i].by>>
    <3>3. \/ committed' = [committed EXCEPT ![n] = @ \cup {pair}]
          \/ UNCHANGED committed
      BY <2>1
    <3>4. <<rev, who>> # pair
      BY <3>2
    <3> HIDE DEF pair
    <3>5. committed'[m] \subseteq committed[m] \cup {pair}
      BY <3>3, <1>a DEF ConfigTyped
    <3> QED
      BY <3>1, <3>4, <3>5
  <2>3. \A m \in Names : \A k \in DOMAIN calls'[m] :
          calls'[m][k].by \in BySetting => calls'[m][k].revision # rev
    BY <2>1, <1>a, WithoutType DEF Untouched
  <2> QED
    BY <2>2, <2>3 DEF Untouched
<1>3. ASSUME NEW n \in Names, Restart(n) PROVE Untouched(rev)'
  <2>1. UNCHANGED committed /\ calls' = [calls EXCEPT ![n] = <<>>]
    BY <1>3 DEF Restart
  <2>2. DOMAIN calls'[n] = {} /\ \A m \in Names \ {n} : calls'[m] = calls[m]
    BY <2>1, <1>a DEF ConfigTyped
  <2> QED
    BY <2>1, <2>2 DEF Untouched
<1>4. ASSUME NEW n \in Names, NEW r \in staged[n], NEW expected \in RevisionOrNone,
             NEW by \in Callers, Call(n, r, expected, by), UNCHANGED committed,
             by = "mqtt" \/ r # rev
      PROVE  Untouched(rev)'
  <2>1. r \in Revisions
    BY <1>a DEF ConfigTyped
  <2>2. /\ \A m \in Names \ {n} : calls'[m] = calls[m]
        /\ DOMAIN calls[n] = 1..Len(calls[n]) /\ Len(calls[n]) \in Nat
        /\ DOMAIN calls'[n] = 1..(Len(calls[n]) + 1)
        /\ \A j \in DOMAIN calls[n] : calls'[n][j] = calls[n][j]
        /\ calls'[n][Len(calls[n]) + 1] =
             [revision |-> r, expected |-> expected, by |-> by, inside |-> FALSE]
    BY <1>4, <2>1, <1>a, CallType
  <2>3. \A j \in DOMAIN calls'[n] : j \in DOMAIN calls[n] \/ j = Len(calls[n]) + 1
    BY <2>2
  <2>4. LET c == calls'[n][Len(calls[n]) + 1] IN c.by \in BySetting => c.revision # rev
    BY <2>2, <1>4 DEF BySetting
  <2> QED
    BY <2>2, <2>3, <2>4, <1>4 DEF Untouched
<1>5. ASSUME NEW n \in Names, DeployApply(n) PROVE Untouched(rev)'
  <2>1. deploy # None /\ deploy.revision # None /\ UNCHANGED committed
    BY <1>5 DEF DeployApply, Turn, Setting
  <2>2. \/ UNCHANGED calls
        \/ Known(n, deploy.revision) /\ Call(n, deploy.revision, None, "setting")
    BY <1>5 DEF DeployApply
  <2>3. CASE UNCHANGED calls
    BY <2>1, <2>3 DEF Untouched
  <2> QED
    BY <2>1, <2>2, <2>3, <1>4 DEF Known, RevisionOrNone, Callers
<1>6. ASSUME NEW n \in Names, DeployTimesOut(n) PROVE Untouched(rev)'
  <2>1. UNCHANGED committed
    BY <1>6 DEF DeployTimesOut, Setting
  <2> QED
    BY <1>6, <2>1, <1>a, OrphanType DEF Untouched
<1>7. CASE HandleApply
  <2>1. UNCHANGED committed
    BY <1>7 DEF HandleApply, Took
  <2>2. Head(inbox).expected \in RevisionOrNone
    BY <1>7, <1>a, InboxType DEF HandleApply, Messages
  <2>3. \/ UNCHANGED calls
        \/ Known(Managed, Head(inbox).revision)
             /\ Call(Managed, Head(inbox).revision, Head(inbox).expected, "mqtt")
    BY <1>7 DEF HandleApply
  <2>4. CASE UNCHANGED calls
    BY <2>1, <2>4 DEF Untouched
  <2> QED
    BY <2>1, <2>2, <2>3, <2>4, <1>4, DeploymentAssumption DEF Known, Callers
<1>8. ASSUME UNCHANGED <<calls, committed>> PROVE Untouched(rev)'
  BY <1>8 DEF Untouched
<1> QED
  BY <1>1, <1>2, <1>3, <1>5, <1>6, <1>7, <1>8
     DEF Next, Deploys, Handles, Begin, DeployStage, DeployEnds, Setting, Publish, Connect, Lose,
         Notice, StatusLoop, StatusFails, HandleIgnored, HandleList, HandleStage, Took, vars

\* How a step changes the deployment under way.
Answered == \E outcome \in GuardOutcomes :
              deploy # None /\ deploy.revision # None /\ deploy' = Result(outcome)

LEMMA DeployChanges ==
  IInv /\ [Next]_vars =>
    \/ UNCHANGED <<deploy, report>>
    \/ UNCHANGED report /\ (\E apply \in BOOLEAN : Begin(apply))
    \/ UNCHANGED report /\ (\E n \in Names : DeployStage(n))
    \/ UNCHANGED report /\ deploy # None /\ deploy' = [deploy EXCEPT !.waiting = TRUE]
    \/ UNCHANGED report /\ Answered
    \/ DeployEnds
<1> SUFFICES ASSUME IInv, [Next]_vars
             PROVE  \/ UNCHANGED <<deploy, report>>
                    \/ UNCHANGED report /\ (\E apply \in BOOLEAN : Begin(apply))
                    \/ UNCHANGED report /\ (\E n \in Names : DeployStage(n))
                    \/ UNCHANGED report /\ deploy # None /\ deploy' = [deploy EXCEPT !.waiting = TRUE]
                    \/ UNCHANGED report /\ Answered
                    \/ DeployEnds
  OBVIOUS
<1>a. ConfigTyped /\ SettingWaits
  BY DEF IInv
<1>b. deploy # None /\ deploy.waiting => deploy.revision # None
  BY DEF IInv, DeployHonest, HonestSoFar
<1>1. ASSUME NEW n \in Names, Enter(n) \/ GuardEnds(n)
      PROVE  UNCHANGED report /\ (UNCHANGED deploy \/ Answered)
  <2>1. UNCHANGED report
    BY <1>1 DEF Enter, GuardEnds
  <2>2. ASSUME NEW i \in DOMAIN calls[n], NEW outcome \in GuardOutcomes,
               calls[n][i] \in CallRecords, Answer(calls[n][i], outcome)
        PROVE  UNCHANGED deploy \/ Answered
    BY <2>2, <1>a, <1>b, AnswerIs DEF SettingWaits, Turn, Answered
  <2> QED
    BY <1>1, <1>a, <2>1, <2>2, EndsWithAnswer
<1>2. ASSUME NEW n \in Names, Restart(n)
      PROVE  UNCHANGED report /\ (UNCHANGED deploy \/ Answered)
  BY <1>2, <1>b DEF Restart, Answered, GuardOutcomes
<1>3. ASSUME NEW n \in Names, DeployApply(n) \/ DeployTimesOut(n)
      PROVE  /\ UNCHANGED report
             /\ Answered \/ (deploy # None /\ deploy' = [deploy EXCEPT !.waiting = TRUE])
  BY <1>3, <1>b DEF DeployApply, DeployTimesOut, Turn, Answered, GuardOutcomes
<1> QED
  BY <1>1, <1>2, <1>3
     DEF Next, Deploys, Handles, Begin, DeployStage, Publish, Connect, Lose, Notice, StatusLoop,
         StatusFails, HandleIgnored, HandleList, HandleStage, HandleApply, Took, vars

\* Nothing is known of a revision before it is staged.
LEMMA NewIsUntouched ==
  ASSUME IInv, NEW n \in Names, Stage(n), UNCHANGED <<calls, committed>>
  PROVE  /\ minted' = minted + 1 /\ minted' \in 1..minted' /\ minted' \notin 1..minted
         /\ \A rev : rev = minted' => Untouched(rev)'
<1>1. ConfigTyped /\ RevisionsMinted /\ minted \in Nat
  BY DeploymentAssumption DEF IInv, ConfigTyped
<1>2. minted' = minted + 1
  BY DEF Stage
<1>3. \A m \in Names : \A c \in committed[m] : c[1] # minted'
  BY <1>1, <1>2 DEF RevisionsMinted
<1>4. \A m \in Names : \A k \in DOMAIN calls[m] : calls[m][k].revision # minted'
  BY <1>1, <1>2 DEF ConfigTyped, RevisionsMinted
<1>5. \A m \in Names, who \in BySetting : <<minted', who>> \notin committed[m]
  BY <1>3
<1>6. ASSUME NEW rev, rev = minted' PROVE Untouched(rev)'
  BY <1>4, <1>5, <1>6 DEF Untouched
<1> QED
  BY <1>1, <1>2, <1>6

\* Every step keeps what was only staged out of the coordinator's hands.
LEMMA StagedStep == IInv /\ [Next]_vars => StagedOnly'
<1> SUFFICES ASSUME IInv, [Next]_vars PROVE StagedOnly'
  OBVIOUS
<1>a. /\ ConfigTyped /\ StagedOnly /\ DeployHonest /\ 1..minted \subseteq 1..minted'
      /\ deploy # None => deploy \in DeployRecords
  BY MintStep DEF IInv, SettingTyped
<1>b. Minted(report)' \/ report' # report
  BY <1>a DEF StagedOnly, Minted
<1>c. ASSUME UNCHANGED report, NoneTried(report) PROVE NoneTouched(report)'
  <2>1. ASSUME NEW i \in DOMAIN report, report[i].staged, NEW rev, rev = report[i].revision
        PROVE  Untouched(rev)'
    <3>1. Untouched(rev)
      BY <1>a, <1>c, <2>1 DEF StagedOnly, NoneTouched
    <3>2. deploy # None /\ deploy.revision # None => deploy.revision # rev
      BY <1>a, <2>1 DEF StagedOnly
    <3> QED
      BY <3>1, <3>2, UntouchedStays
  <2> QED
    BY <1>c, <2>1 DEF NoneTouched, Untouched
<1>d. ASSUME deploy # None
      PROVE  /\ Minted(deploy.results) /\ \A i \in DOMAIN deploy.results :
                  deploy.results[i].staged => deploy.results[i].revision \in 1..minted'
             /\ ~deploy.apply => deploy.revision = None /\ \A i \in DOMAIN deploy.results :
                  deploy.results[i].staged =>
                    \A rev : rev = deploy.results[i].revision => Untouched(rev)'
  <2>1. Minted(deploy.results) /\ (~deploy.apply => NoneTouched(deploy.results))
    BY <1>a, <1>d DEF StagedOnly
  <2>2. ~deploy.apply => deploy.revision = None
    BY <1>a, <1>d DEF DeployHonest, HonestSoFar
  <2>3. ASSUME ~deploy.apply, NEW i \in DOMAIN deploy.results, deploy.results[i].staged,
               NEW rev, rev = deploy.results[i].revision
        PROVE  Untouched(rev)'
    <3>1. Untouched(rev)
      BY <2>1, <2>3 DEF NoneTouched
    <3> QED
      BY <3>1, <2>2, <2>3, UntouchedStays
  <2> QED
    BY <2>1, <2>2, <2>3, <1>a DEF Minted
<1>e. ASSUME UNCHANGED report,
             deploy' # None =>
               /\ Minted(deploy.results)'
               /\ deploy'.revision # None =>
                    /\ deploy'.revision \in 1..minted'
                    /\ \A i \in DOMAIN report : report[i].staged =>
                         report[i].revision # deploy'.revision
               /\ ~deploy'.apply => NoneTouched(deploy.results)'
      PROVE  StagedOnly'
  <2>1. NoneTried(report)' => NoneTried(report)
    BY <1>e DEF NoneTried
  <2> QED
    BY <1>b, <1>c, <1>e, <2>1 DEF StagedOnly
<1>1. CASE UNCHANGED <<deploy, report>>
  BY <1>1, <1>a, <1>d, <1>e DEF StagedOnly, Minted, NoneTouched
<1>2. ASSUME NEW apply \in BOOLEAN, Begin(apply), UNCHANGED report PROVE StagedOnly'
  <2>1. deploy'.results = <<>> /\ deploy'.revision = None
    BY <1>2 DEF Begin
  <2> QED
    BY <1>2, <1>e, <2>1 DEF Minted, NoneTouched
<1>3. ASSUME NEW n \in Names, DeployStage(n), UNCHANGED report PROVE StagedOnly'
  <2>1. /\ deploy # None /\ deploy \in DeployRecords /\ deploy.revision = None
        /\ UNCHANGED <<calls, committed>> /\ deploy.results \in Seq(ResultRecords)
    BY <1>3, <1>a DEF DeployStage, Turn, Setting, DeployRecords
  <2>2. ASSUME NEW e \in ResultRecords, deploy' = [deploy EXCEPT !.results = Append(@, e)],
               e.staged => /\ e.revision \in 1..minted'
                           /\ \A rev : rev = e.revision => Untouched(rev)'
        PROVE  StagedOnly'
    <3>1. /\ deploy'.results = Append(deploy.results, e) /\ deploy'.revision = None
          /\ deploy'.apply = deploy.apply
      BY <2>1, <2>2 DEF DeployRecords
    <3>2. /\ \A i \in DOMAIN Append(deploy.results, e) :
               \/ i \in DOMAIN deploy.results /\ Append(deploy.results, e)[i] = deploy.results[i]
               \/ Append(deploy.results, e)[i] = e
      <4>1. /\ DOMAIN deploy.results = 1..Len(deploy.results) /\ Len(deploy.results) \in Nat
            /\ DOMAIN Append(deploy.results, e) = 1..(Len(deploy.results) + 1)
            /\ \A i \in DOMAIN deploy.results : Append(deploy.results, e)[i] = deploy.results[i]
            /\ Append(deploy.results, e)[Len(deploy.results) + 1] = e
        BY <2>1, AppendIs
      <4> QED
        BY <4>1
    <3>3. Minted(deploy.results)'
      BY <1>d, <2>1, <2>2, <3>1, <3>2 DEF Minted
    <3>4. ~deploy.apply => NoneTouched(deploy.results)'
      BY <1>d, <2>1, <2>2, <3>1, <3>2 DEF NoneTouched
    <3> QED
      BY <1>3, <1>e, <3>1, <3>3, <3>4
  <2>3. CASE Stage(n) /\ deploy.apply /\ deploy' = [deploy EXCEPT !.revision = minted']
    <3>1. minted' \in 1..minted' /\ minted' \notin 1..minted
      BY <2>1, <2>3, NewIsUntouched
    <3>2. minted' \in RevisionOrNone
      BY <2>1, <2>3, <1>a, <1>3, StageType DEF RevisionOrNone, DeployStage, Setting
    <3>3. /\ deploy'.results = deploy.results /\ deploy'.revision = minted'
          /\ deploy'.apply = deploy.apply
      BY <2>1, <2>3, <3>2 DEF DeployRecords
    <3>4. \A i \in DOMAIN report : report[i].staged => report[i].revision # minted'
      BY <1>a, <3>1 DEF StagedOnly, Minted
    <3>5. Minted(deploy.results)'
      BY <1>d, <2>1, <3>3 DEF Minted
    <3> QED
      BY <1>3, <1>e, <2>3, <3>1, <3>3, <3>4, <3>5
  <2>4. CASE Stage(n) /\ deploy' = [deploy EXCEPT !.results = Append(@,
                           [staged |-> TRUE, revision |-> minted', outcome |-> None])]
    <3>1. minted' \in 1..minted' /\ (\A rev : rev = minted' => Untouched(rev)')
      BY <2>1, <2>4, NewIsUntouched
    <3>2. [staged |-> TRUE, revision |-> minted', outcome |-> None] \in ResultRecords
      <4>1. minted' \in Revisions
        BY <2>1, <2>4, <1>a, <1>3, StageType DEF DeployStage, Setting
      <4> QED
        BY <4>1 DEF ResultRecords, Outcomes
    <3> QED
      BY <2>2, <2>4, <3>1, <3>2
  <2>5. CASE deploy' = [deploy EXCEPT !.results = Append(@,
                          [staged |-> FALSE, revision |-> None, outcome |-> None])]
    <3>1. [staged |-> FALSE, revision |-> None, outcome |-> None] \in ResultRecords
      BY DEF ResultRecords, Outcomes
    <3> QED
      BY <2>2, <2>5, <3>1
  <2> QED
    BY <1>3, <2>3, <2>4, <2>5 DEF DeployStage
<1>4. ASSUME deploy # None, deploy' = [deploy EXCEPT !.waiting = TRUE], UNCHANGED report
      PROVE  StagedOnly'
  <2>1. /\ deploy'.results = deploy.results /\ deploy'.revision = deploy.revision
        /\ deploy'.apply = deploy.apply
    BY <1>4, <1>a DEF DeployRecords
  <2> QED
    BY <1>4, <1>a, <1>d, <1>e, <2>1 DEF StagedOnly, Minted, NoneTouched
<1>5. ASSUME Answered, UNCHANGED report PROVE StagedOnly'
  <2>1. PICK outcome \in GuardOutcomes :
          deploy # None /\ deploy.revision # None /\ deploy' = Result(outcome)
    BY <1>5 DEF Answered
  <2> DEFINE e == [staged |-> TRUE, revision |-> deploy.revision, outcome |-> outcome]
  <2>2. /\ deploy'.results = Append(deploy.results, e) /\ deploy'.apply = deploy.apply
        /\ deploy'.revision = None /\ deploy.results \in Seq(ResultRecords)
        /\ e \in ResultRecords
    BY <2>1, <1>a, ResultIs DEF DeployRecords
  <2>3. deploy.apply
    BY <2>1, <1>a, <1>d DEF DeployRecords
  <2>4. e.revision \in 1..minted'
    BY <2>1, <1>a DEF StagedOnly
  <2> HIDE DEF e
  <2>5. /\ DOMAIN deploy.results = 1..Len(deploy.results) /\ Len(deploy.results) \in Nat
        /\ DOMAIN Append(deploy.results, e) = 1..(Len(deploy.results) + 1)
        /\ \A i \in DOMAIN deploy.results : Append(deploy.results, e)[i] = deploy.results[i]
        /\ Append(deploy.results, e)[Len(deploy.results) + 1] = e
    BY <2>2, AppendIs
  <2>6. \A i \in DOMAIN Append(deploy.results, e) :
          i \in DOMAIN deploy.results \/ i = Len(deploy.results) + 1
    BY <2>5
  <2>7. Minted(deploy.results)'
    BY <1>d, <2>1, <2>2, <2>4, <2>5, <2>6 DEF Minted
  <2> QED
    BY <1>5, <1>e, <2>2, <2>3, <2>7
<1>6. CASE DeployEnds
  <2>1. deploy # None /\ report' = deploy.results /\ deploy' = None
    BY <1>6 DEF DeployEnds
  <2>2. Minted(report)'
    BY <1>d, <2>1 DEF Minted
  <2>3. ASSUME NoneTried(report)' PROVE NoneTouched(report)'
    <3>1. CASE deploy.apply
      <4>1. \A i \in DOMAIN deploy.results : ~deploy.results[i].staged
        BY <1>a, <2>1, <2>3, <3>1 DEF DeployHonest, HonestSoFar, AllTried, NoneTried
      <4> QED
        BY <2>1, <4>1 DEF NoneTouched
    <3>2. CASE ~deploy.apply
      BY <1>d, <2>1, <3>2 DEF NoneTouched
    <3> QED
      BY <3>1, <3>2
  <2> QED
    BY <2>1, <2>2, <2>3 DEF StagedOnly
<1> QED
  BY <1>1, <1>2, <1>3, <1>4, <1>5, <1>6, DeployChanges

-----------------------------------------------------------------------------
\* Messages that are given up or taken leave the others as they were.
LEMMA InboxShrinks ==
  ASSUME RequestsOnce, MqttTyped, UNCHANGED <<kept, requests, executed>>,
         inbox' \in {inbox, <<>>} \/ (inbox # <<>> /\ inbox' = Tail(inbox))
  PROVE  RequestsOnce'
<1>1. CASE inbox' = inbox
  BY <1>1 DEF RequestsOnce, ExecutedOnce
<1>2. CASE inbox' = <<>>
  BY <1>2 DEF RequestsOnce, ExecutedOnce
<1>3. CASE inbox # <<>> /\ inbox' = Tail(inbox)
  <2>1. \A i \in DOMAIN inbox' : i + 1 \in DOMAIN inbox /\ inbox'[i] = inbox[i + 1] /\ i \in Nat
    <3>1. /\ DOMAIN inbox = 1..Len(inbox) /\ Len(inbox) \in Nat
          /\ DOMAIN inbox' = 1..(Len(inbox) - 1)
          /\ \A j \in 1..(Len(inbox) - 1) : inbox'[j] = inbox[j + 1]
      BY <1>3, InboxType
    <3> QED
      BY <3>1
  <2>2. \A i \in DOMAIN inbox' :
          /\ inbox'[i].id \in 1..requests
          /\ ~inbox'[i].retain => executed[inbox'[i].id] = 0
    BY <2>1 DEF RequestsOnce
  <2>3. \A i, j \in DOMAIN inbox' :
          ~inbox'[i].retain /\ ~inbox'[j].retain /\ inbox'[i].id = inbox'[j].id => i = j
    <3> SUFFICES ASSUME NEW i \in DOMAIN inbox', NEW j \in DOMAIN inbox', ~inbox'[i].retain,
                        ~inbox'[j].retain, inbox'[i].id = inbox'[j].id
                 PROVE  i = j
      OBVIOUS
    <3>1. i + 1 = j + 1
      BY <2>1 DEF RequestsOnce
    <3> QED
      BY <2>1, <3>1
  <2> QED
    BY <2>2, <2>3 DEF RequestsOnce, ExecutedOnce
<1> QED
  BY <1>1, <1>2, <1>3

\* The live message at the head of the inbox is carried out.
LEMMA HeadIsExecuted ==
  ASSUME RequestsOnce, MqttTyped, inbox # <<>>, ~Head(inbox).retain, Executes(Head(inbox)),
         UNCHANGED <<kept, requests>>, inbox' \in {Tail(inbox), <<>>}
  PROVE  RequestsOnce'
<1> DEFINE h == Head(inbox).id
<1>1. /\ Head(inbox) = inbox[1] /\ 1 \in DOMAIN inbox /\ Head(inbox) \in Messages
      /\ DOMAIN Tail(inbox) = 1..(Len(inbox) - 1) /\ DOMAIN inbox = 1..Len(inbox)
      /\ \A i \in DOMAIN Tail(inbox) :
           i + 1 \in DOMAIN inbox /\ Tail(inbox)[i] = inbox[i + 1] /\ i \in Nat \ {0}
  BY InboxType
<1>2. h \in 1..requests /\ executed[h] = 0
  BY <1>1 DEF RequestsOnce
<1>3. /\ DOMAIN executed' = 1..requests /\ DOMAIN executed = 1..requests
      /\ executed'[h] = executed[h] + 1
      /\ \A i \in 1..requests \ {h} : executed'[i] = executed[i]
  BY <1>1, <1>2, ExecutesIs
<1>4. \A i \in DOMAIN executed' : executed'[i] <= 1
  BY <1>2, <1>3 DEF RequestsOnce, ExecutedOnce
<1>5. \A i \in DOMAIN Tail(inbox) :
        /\ Tail(inbox)[i].id \in 1..requests
        /\ ~Tail(inbox)[i].retain => Tail(inbox)[i].id # h
                                     /\ executed'[Tail(inbox)[i].id] = 0
  <2> SUFFICES ASSUME NEW i \in DOMAIN Tail(inbox)
               PROVE  /\ Tail(inbox)[i].id \in 1..requests
                      /\ ~Tail(inbox)[i].retain => Tail(inbox)[i].id # h
                                                   /\ executed'[Tail(inbox)[i].id] = 0
    OBVIOUS
  <2>1. i + 1 \in DOMAIN inbox /\ Tail(inbox)[i] = inbox[i + 1] /\ i + 1 # 1
    BY <1>1
  <2>2. ~Tail(inbox)[i].retain => Tail(inbox)[i].id # h /\ executed[Tail(inbox)[i].id] = 0
    BY <1>1, <2>1 DEF RequestsOnce
  <2>3. Tail(inbox)[i].id \in 1..requests
    BY <2>1 DEF RequestsOnce
  <2> QED
    BY <1>3, <2>2, <2>3
<1>6. \A i, j \in DOMAIN Tail(inbox) :
        ~Tail(inbox)[i].retain /\ ~Tail(inbox)[j].retain
          /\ Tail(inbox)[i].id = Tail(inbox)[j].id => i = j
  <2> SUFFICES ASSUME NEW i \in DOMAIN Tail(inbox), NEW j \in DOMAIN Tail(inbox),
                      ~Tail(inbox)[i].retain, ~Tail(inbox)[j].retain,
                      Tail(inbox)[i].id = Tail(inbox)[j].id
               PROVE  i = j
    OBVIOUS
  <2>1. i + 1 = j + 1
    BY <1>1 DEF RequestsOnce
  <2> QED
    BY <1>1, <2>1
<1>7. kept' # None => kept'.id \in 1..requests'
  BY DEF RequestsOnce
<1> HIDE DEF h
<1>8. CASE inbox' = Tail(inbox)
  BY <1>4, <1>5, <1>6, <1>7, <1>8 DEF RequestsOnce, ExecutedOnce
<1>9. CASE inbox' = <<>>
  BY <1>4, <1>7, <1>9 DEF RequestsOnce, ExecutedOnce
<1> QED
  BY <1>8, <1>9

\* Every step keeps every request carried out at most once.
LEMMA RequestsStep == IInv /\ [Next]_vars => RequestsOnce'
<1> SUFFICES ASSUME IInv, [Next]_vars PROVE RequestsOnce'
  OBVIOUS
<1>a. ConfigTyped /\ MqttTyped /\ RequestsOnce
  BY DEF IInv
<1>1. ASSUME NEW n \in Names, Enter(n) \/ GuardEnds(n) PROVE RequestsOnce'
  <2>1. UNCHANGED <<kept, requests, executed>>
    BY <1>1 DEF Enter, GuardEnds
  <2>2. inbox' = inbox \/ inbox' = <<>>
    BY <1>1, <1>a, EndsWithAnswer, AnswerIs
  <2> QED
    BY <2>1, <2>2, <1>a, InboxShrinks
<1>2. ASSUME NEW n \in Names, Restart(n) PROVE RequestsOnce'
  BY <1>2, <1>a, InboxShrinks DEF Restart, LoopEnds
<1>3. ASSUME NEW request \in Requests, NEW retained \in BOOLEAN, Publish(request, retained)
      PROVE  RequestsOnce'
  <2>1. PICK message : Published(request, message)
    BY <1>3, <1>a, PublishIs
  <2>2. /\ message \in Messages /\ message.id = requests + 1 /\ ~message.retain
        /\ inbox' = IF link THEN Append(inbox, message) ELSE inbox
        /\ kept' \in {message, kept}
    BY <2>1 DEF Published
  <2>3. /\ executed' = Append(executed, 0) /\ requests' = requests + 1 /\ requests \in Nat
        /\ executed \in Seq(Nat) /\ Len(executed) = requests /\ inbox \in Seq(Messages)
    BY <1>3, <1>a DEF Publish, MqttTyped
  <2>4. /\ DOMAIN executed' = 1..(requests + 1) /\ DOMAIN executed = 1..requests
        /\ \A i \in 1..requests : executed'[i] = executed[i]
        /\ executed'[requests + 1] = 0
    <3>1. 0 \in Nat
      OBVIOUS
    <3> QED
      BY <2>3, <3>1, AppendIs
  <2>5. kept' # None => kept'.id \in 1..requests'
    BY <2>2, <2>3, <1>a DEF RequestsOnce
  <2>6. ExecutedOnce'
    BY <2>3, <2>4, <1>a DEF RequestsOnce, ExecutedOnce
  <2>7. \A i \in DOMAIN inbox :
          /\ inbox[i].id \in 1..requests /\ inbox[i].id \in 1..requests'
          /\ ~inbox[i].retain => executed'[inbox[i].id] = 0
    BY <2>3, <2>4, <1>a DEF RequestsOnce
  <2>8. CASE inbox' = inbox
    BY <2>5, <2>6, <2>7, <2>8, <1>a DEF RequestsOnce
  <2>9. CASE inbox' = Append(inbox, message)
    <3>1. /\ DOMAIN inbox = 1..Len(inbox) /\ Len(inbox) \in Nat
          /\ DOMAIN inbox' = 1..(Len(inbox) + 1)
          /\ \A i \in DOMAIN inbox : inbox'[i] = inbox[i]
          /\ inbox'[Len(inbox) + 1] = message
      BY <2>2, <2>3, <2>9, AppendIs
    <3>2. \A i \in DOMAIN inbox' : i \in DOMAIN inbox \/ i = Len(inbox) + 1
      BY <3>1
    <3>3. \A i \in DOMAIN inbox' :
            /\ inbox'[i].id \in 1..requests'
            /\ ~inbox'[i].retain => executed'[inbox'[i].id] = 0
      BY <2>2, <2>3, <2>4, <2>7, <3>1, <3>2
    <3>4. \A i \in DOMAIN inbox : inbox'[i].id # requests + 1
      BY <2>3, <2>7, <3>1
    <3>5. \A i, j \in DOMAIN inbox' :
            ~inbox'[i].retain /\ ~inbox'[j].retain /\ inbox'[i].id = inbox'[j].id => i = j
      BY <2>2, <3>1, <3>2, <3>4, <1>a DEF RequestsOnce
    <3> QED
      BY <2>5, <2>6, <3>3, <3>5 DEF RequestsOnce
  <2> QED
    BY <2>2, <2>8, <2>9
<1>4. CASE Connect
  <2>1. UNCHANGED <<kept, requests, executed>>
    BY <1>4 DEF Connect
  <2> QED
    BY <1>4, <2>1, <1>a, ConnectIs DEF RequestsOnce, ExecutedOnce
<1>5. CASE Lose \/ Notice \/ StatusLoop \/ StatusFails
  BY <1>5, <1>a, InboxShrinks DEF Lose, Notice, StatusLoop, StatusFails, LoopEnds
<1>6. CASE HandleIgnored \/ HandleList
  BY <1>6, <1>a, InboxShrinks DEF HandleIgnored, HandleList, Took, LoopEnds
<1>7. CASE HandleStage
  BY <1>7, <1>a, HeadIsExecuted DEF HandleStage, Took, LoopEnds, Ignored
<1>8. CASE HandleApply
  BY <1>8, <1>a, HeadIsExecuted, InboxShrinks DEF HandleApply, Took, LoopEnds, Ignored
<1>9. CASE UNCHANGED mqttVars
  BY <1>9, <1>a, InboxShrinks
<1> QED
  BY <1>1, <1>2, <1>3, <1>4, <1>5, <1>6, <1>7, <1>8, <1>9
     DEF Next, Deploys, Handles, Begin, DeployStage, DeployApply, DeployTimesOut, DeployEnds,
         Setting, vars

-----------------------------------------------------------------------------
\* The Runtimes, the coordinator and the adapter start with nothing under way.
LEMMA InitIsKept == Init => IInv
<1> SUFFICES ASSUME Init PROVE IInv
  OBVIOUS
<1>1. ConfigTyped
  BY DeploymentAssumption DEF Init, ConfigTyped, RevisionOrNone
<1>2. SettingTyped
  BY DEF Init, SettingTyped
<1>3. MqttTyped
  <2>1. <<>> \in Seq(Messages) /\ <<>> \in Seq(Nat) /\ Len(<<>>) = 0
    BY EmptySeq
  <2> QED
    BY <2>1 DEF Init, MqttTyped, RevisionOrNone
<1>4. LockIsHeld /\ SettingWaits
  BY DEF Init, LockIsHeld, SettingWaits
<1>7. RevisionsMinted /\ StagedOnly
  BY DEF Init, RevisionsMinted, StagedOnly, Minted, NoneTouched
<1>5. DeployHonest
  BY DeploymentAssumption DEF Init, DeployHonest, ResultsHold, AllTried, NoneTried
<1>6. RequestsOnce
  BY DEF Init, RequestsOnce, ExecutedOnce
<1> QED
  BY <1>1, <1>2, <1>3, <1>4, <1>5, <1>6, <1>7 DEF IInv

LEMMA DeploymentIsKept == Spec => []IInv
<1>1. IInv /\ [Next]_vars => IInv'
  BY ConfigStep, SettingStep, MqttStep, LockStep, WaitsStep, HonestStep, MintStep, StagedStep,
     RequestsStep DEF IInv
<1> QED
  BY <1>1, InitIsKept, PTL DEF Spec

\* What a deployment reports and how often a request is carried out is true of the
\* Runtimes: SUCCEEDED means that an apply of the deployment put its revision in force on
\* every Runtime, at some time since it was deployed, PARTIAL that one did on some, and
\* STAGED that the coordinator has applied none of its revisions and will not, whatever
\* was lost, timed out, restarted or applied by others
\* (coordinator.py:28-58, contracts/deployment.py:33-44, mqtt_adapter.py:159-216).
THEOREM DeploymentsAreHonest == Spec => []DeploymentInv
<1>1. IInv => TypeOK
  BY DEF IInv, ConfigTyped, SettingTyped, MqttTyped, TypeOK, RevisionOrNone
<1>2. ASSUME IInv PROVE OverallIsHonest
  <2>1. ResultsHold(report, committed) /\ report \in Seq(ResultRecords)
    BY <1>2 DEF IInv, DeployHonest, SettingTyped
  <2>2. \A i \in DOMAIN report : report[i] \in ResultRecords
    BY <2>1
  <2>3. \A i \in DOMAIN report : report[i].staged \in BOOLEAN
    BY <2>2 DEF ResultRecords
  <2> DEFINE attempted == {report[i].outcome : i \in DOMAIN report} \ {None}
             applied(i) == <<report[i].revision, "setting">> \in committed[Runtimes[i]]
  <2>4. ASSUME Overall(report) \in {"SUCCEEDED", "PARTIAL"}
        PROVE  "SUCCEEDED" \in attempted /\ ~NoneTried(report) /\ DOMAIN report = DOMAIN Runtimes
    <3>1. "SUCCEEDED" \in attempted /\ \A i \in DOMAIN report : report[i].staged
      BY <2>4 DEF Overall
    <3>2. ~NoneTried(report) /\ report # <<>>
      BY <3>1 DEF NoneTried
    <3>3. Len(report) = Len(Runtimes)
      BY <1>2, <3>2 DEF IInv, DeployHonest
    <3> QED
      BY <3>1, <3>2, <3>3, <2>1, LenProperties, DeploymentAssumption
  <2>5. ASSUME Overall(report) = "SUCCEEDED" PROVE \A i \in DOMAIN Runtimes : applied(i)
    <3>1. attempted = {"SUCCEEDED"} /\ \A i \in DOMAIN report : report[i].staged
      BY <2>5 DEF Overall
    <3>2. AllTried(report)
      BY <1>2, <2>4, <2>5 DEF IInv, DeployHonest
    <3>3. \A i \in DOMAIN report : report[i].outcome = "SUCCEEDED"
      BY <3>1, <3>2 DEF AllTried
    <3> QED
      BY <2>1, <2>4, <2>5, <3>3 DEF ResultsHold
  <2>6. ASSUME Overall(report) = "PARTIAL" PROVE \E i \in DOMAIN Runtimes : applied(i)
    <3>1. PICK i \in DOMAIN report : report[i].outcome = "SUCCEEDED"
      BY <2>4, <2>6
    <3>2. applied(i)
      BY <2>1, <3>1 DEF ResultsHold
    <3> QED
      BY <2>4, <2>6, <3>2
  <2>7. ASSUME Overall(report) = "STAGED"
        PROVE  \A i \in DOMAIN report : Untouched(report[i].revision)
    <3>1. attempted = {} /\ \A i \in DOMAIN report : report[i].staged
      BY <2>7 DEF Overall
    <3>2. NoneTried(report)
      BY <3>1 DEF NoneTried
    <3> QED
      BY <1>2, <3>1, <3>2 DEF IInv, StagedOnly, NoneTouched
  <2> QED
    BY <2>5, <2>6, <2>7 DEF OverallIsHonest
<1>3. IInv => ExecutedOnce
  BY DEF IInv, RequestsOnce
<1> QED
  BY <1>1, <1>2, <1>3, DeploymentIsKept, PTL DEF DeploymentInv

\* A guard that suspends between the comparison and the commit does not let another
\* apply in between: what is replaced is what the caller expected
\* (config_service.py:81-102).
THEOREM WhatWasExpectedIsReplaced == Spec => ExpectedIsReplaced
<1> DEFINE Replaced ==
             \A n \in Names :
               active'[n] # active[n] /\ active'[n] # None =>
                 \E i \in DOMAIN calls[n] :
                   /\ calls[n][i].inside /\ calls[n][i].revision = active'[n]
                   /\ calls[n][i].expected \in {None, active[n]}
<1>1. ASSUME IInv, [Next]_vars PROVE Replaced
  <2>a. ConfigTyped /\ LockIsHeld
    BY <1>1 DEF IInv
  <2>1. ASSUME NEW m \in Names, GuardEnds(m) PROVE Replaced
    <3>1. PICK i \in DOMAIN calls[m] :
            /\ calls[m][i].inside
            /\ UNCHANGED active \/ active' = [active EXCEPT ![m] = calls[m][i].revision]
      BY <2>1 DEF GuardEnds
    <3>2. calls[m][i].expected \in {None, active[m]}
      BY <3>1, <2>a DEF LockIsHeld
    <3> QED
      BY <3>1, <3>2, <2>a DEF ConfigTyped
  <2>2. ASSUME NEW m \in Names, Restart(m) PROVE Replaced
    BY <2>2, <2>a DEF Restart, ConfigTyped
  <2>3. CASE UNCHANGED active
    BY <2>3
  <2> QED
    BY <1>1, <2>1, <2>2, <2>3
       DEF Next, Deploys, Handles, Enter, Begin, DeployStage, DeployApply, DeployTimesOut,
           DeployEnds, Setting, Publish, Connect, Lose, Notice, StatusLoop, StatusFails, HandleIgnored,
           HandleList, HandleStage, HandleApply, Took, vars
<1>2. IInv /\ [Next]_vars => [Replaced]_vars
  BY <1>1
<1> QED
  BY <1>2, DeploymentIsKept, PTL DEF ExpectedIsReplaced, Spec
=============================================================================
