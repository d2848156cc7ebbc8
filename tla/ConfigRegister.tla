--------------------------- MODULE ConfigRegister ---------------------------
(***************************************************************************)
(* The configuration a Runtime keeps (core/config_service.py), seen by its *)
(* callers: Stage and Apply are single steps.  A Runtime whose apply guard *)
(* never suspends -- every guard in the repository -- has exactly these    *)
(* steps, because the apply lock is then free whenever it is asked for.    *)
(*                                                                         *)
(* A revision id is a model value; the hash, the content and the times of  *)
(* a revision are left out.                                                *)
(***************************************************************************)
EXTENDS Naturals, Sequences

CONSTANTS
  Revisions,     \* the revision ids new_id("cfgrev") may hand out
  JournalLimit,  \* how many ApplyRecords the journal keeps, at least one
  None           \* no revision

VARIABLES
  staged,           \* the revisions that were staged
  active_revision,  \* the revision in force, or None
  journal           \* the last JournalLimit apply attempts, oldest first

ApplyOutcomes == {"SUCCEEDED", "REJECTED", "FAILED"}

ApplyRecords == [revision : Revisions, outcome : ApplyOutcomes]

ConfigTypeOK ==
  /\ staged \subseteq Revisions
  /\ active_revision \in staged \cup {None}
  /\ journal \in Seq(ApplyRecords)
  /\ Len(journal) <= JournalLimit

ConfigInit ==
  /\ staged = {}
  /\ active_revision = None
  /\ journal = <<>>

\* Nothing of it is on disk: a restart of the process forgets all of it.
ConfigForgotten ==
  /\ staged' = {}
  /\ active_revision' = None
  /\ journal' = <<>>

-----------------------------------------------------------------------------

\* A new revision id each time, even for the same content.
Stage(rev) ==
  /\ rev \in Revisions \ staged
  /\ staged' = staged \cup {rev}
  /\ UNCHANGED <<active_revision, journal>>

\* (mutant of Record: the wrong end of the journal is cut)
RecordOldest(rev, outcome) ==
  LET longer == Append(journal, [revision |-> rev, outcome |-> outcome])
  IN  journal' = IF Len(longer) > JournalLimit THEN journal ELSE longer

\* Append an apply attempt and forget what exceeds the limit.
Record(rev, outcome) ==
  LET longer == Append(journal, [revision |-> rev, outcome |-> outcome])
  IN  journal' = IF Len(longer) > JournalLimit THEN Tail(longer) ELSE longer

Expected(expected) == expected \in {None, active_revision}

\* The attempt is refused, by the expected revision or by the guard, or the
\* guard itself breaks: only the journal tells.
ApplyRefused(rev, outcome) ==
  /\ rev \in staged
  /\ Record(rev, outcome)
  /\ UNCHANGED <<staged, active_revision>>

ApplyCommitted(rev, expected) ==
  /\ rev \in staged
  /\ Expected(expected)
  /\ active_revision' = rev
  /\ Record(rev, "SUCCEEDED")
  /\ UNCHANGED staged

-----------------------------------------------------------------------------

Successes == {i \in DOMAIN journal : journal[i].outcome = "SUCCEEDED"}

\* The journal never contradicts the revision in force: the latest success it
\* still holds is the active revision, whatever was refused or forgotten since.
JournalNamesActive ==
  \A i \in Successes :
    (\A j \in Successes : j <= i) => journal[i].revision = active_revision

=============================================================================
