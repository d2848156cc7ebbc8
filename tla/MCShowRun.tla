------------------------------ MODULE MCShowRun ------------------------------
(* Small Timelines for the model checker, and which ones a Scheduler takes. *)
EXTENDS ShowRun, TimelineContract

CONSTANTS r1, r2, c1, c2, c3

\* One Runtime; c2 waits for c1.
ChainRuntime == [c \in {c1, c2} |-> r1]
ChainDepends == [c \in {c1, c2} |-> IF c = c2 THEN <<c1>> ELSE <<>>]

\* c3 waits for c1 and for c2, one of them on another Runtime.
JoinRuntime == [c \in {c1, c2, c3} |-> IF c = c2 THEN r2 ELSE r1]
JoinDepends == [c \in {c1, c2, c3} |-> IF c = c3 THEN <<c1, c2>> ELSE <<>>]

=============================================================================
