--------------------------- MODULE CommandContract ---------------------------
(***************************************************************************)
(* What a Device Runtime promises the sender of a command, with nothing    *)
(* about targets, sessions or generations in it: a request id is answered  *)
(* at most once.  It is unknown until the Runtime records it; it is then   *)
(* either refused for good or pending; a pending request is resolved once, *)
(* to one outcome that never changes.  The record does not outlive the     *)
(* process: a restart forgets all of it.                                   *)
(*                                                                         *)
(* DeviceRuntime implements this specification (its theorem and its run    *)
(* are named ImplementsContract).                                          *)
(***************************************************************************)

CONSTANTS RequestIds

VARIABLE result   \* what the Runtime would answer about each request id

Resolutions == {"SUCCEEDED", "FAILED", "CANCELLED", "EXPIRED"}

Init == result = [r \in RequestIds |-> "unknown"]

Accept(r) ==
  /\ result[r] = "unknown"
  /\ result' = [result EXCEPT ![r] = "pending"]

Refuse(r) ==
  /\ result[r] = "unknown"
  /\ result' = [result EXCEPT ![r] = "REJECTED"]

Resolve(r) ==
  /\ result[r] = "pending"
  /\ \E outcome \in Resolutions : result' = [result EXCEPT ![r] = outcome]

Forget == result' = [r \in RequestIds |-> "unknown"]

Next == Forget \/ \E r \in RequestIds : Accept(r) \/ Refuse(r) \/ Resolve(r)

Spec == Init /\ [][Next]_result

=============================================================================
