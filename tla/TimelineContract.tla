-------------------------- MODULE TimelineContract --------------------------
(***************************************************************************)
(* Which Timelines a Scheduler takes (contracts/timeline.py,               *)
(* apps/scheduler/runtime.py:60-64): validate_timeline, with its           *)
(* depth-first search for cycles, against what it is to find.              *)
(*                                                                         *)
(* A timeline is a sequence of cues, each with its id and, in order, the   *)
(* ids it depends on.                                                      *)
(***************************************************************************)
LOCAL INSTANCE Naturals
LOCAL INSTANCE FiniteSets
LOCAL INSTANCE Sequences
LOCAL INSTANCE SequencesExt

CueIds(timeline) == {timeline[i].id : i \in DOMAIN timeline}

\* The graph is a dict: of two cues with one id the last counts.
GraphOf(timeline) ==
  [id \in CueIds(timeline) |->
     LET last == CHOOSE i \in DOMAIN timeline :
                   timeline[i].id = id /\ \A j \in DOMAIN timeline : timeline[j].id = id => j <= i
     IN  timeline[last].depends_on]

\* visit(node): gray while its dependencies are looked at, black afterwards; a gray
\* dependency closes a cycle.
RECURSIVE Visit(_, _, _)
Visit(graph, search, node) ==
  LET look(s, dep) ==
        IF dep \notin DOMAIN graph THEN s
        ELSE IF s.color[dep] = "gray" THEN [s EXCEPT !.cycles = @ + 1]
        ELSE IF s.color[dep] = "white" THEN Visit(graph, s, dep)
        ELSE s
      after == FoldLeft(look, [search EXCEPT !.color[node] = "gray"], graph[node])
  IN  [after EXCEPT !.color[node] = "black"]

\* _find_cycles, over the ids in the order of the dict.
Cycles(timeline) ==
  LET graph == GraphOf(timeline)
      start(s, cue) == IF s.color[cue.id] = "white" THEN Visit(graph, s, cue.id) ELSE s
  IN  FoldLeft(start, [color |-> [id \in DOMAIN graph |-> "white"], cycles |-> 0], timeline).cycles

Duplicates(timeline) ==
  {i \in DOMAIN timeline : \E j \in 1..(i - 1) : timeline[j].id = timeline[i].id}

Dangling(timeline) ==
  {i \in DOMAIN timeline : \E dep \in ToSet(timeline[i].depends_on) : dep \notin CueIds(timeline)}

\* load_timeline takes it.
Valid(timeline) ==
  Duplicates(timeline) = {} /\ Dangling(timeline) = {} /\ Cycles(timeline) = 0

-----------------------------------------------------------------------------
\* What a run needs: distinct cues, and an order in which each comes after all that it
\* depends on, without which some would wait for each other for ever.
Executable(timeline) ==
  /\ Cardinality(CueIds(timeline)) = Len(timeline)
  /\ \E place \in [CueIds(timeline) -> 1..Len(timeline)] :
       \A i \in DOMAIN timeline : \A dep \in ToSet(timeline[i].depends_on) :
         dep \in CueIds(timeline) /\ place[dep] < place[timeline[i].id]

\* Bounds of the assumption.
SmallIds == 1..3
SmallCues == [id : SmallIds, depends_on : UNION {[1..n -> 1..4] : n \in 0..2}]

\* Of all timelines of up to three cues with up to two dependencies each, exactly the
\* executable ones are taken, whatever order the search meets them in
\* (contracts/timeline.py:68-111).
ASSUME ValidIsExecutable ==
  \A n \in 0..3 : \A timeline \in [1..n -> SmallCues] : Valid(timeline) <=> Executable(timeline)
=============================================================================
