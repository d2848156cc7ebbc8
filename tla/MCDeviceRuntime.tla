--------------------------- MODULE MCDeviceRuntime ---------------------------
(***************************************************************************)
(* Instances of DeviceRuntime for TLC.  Actions are strings, ids are model *)
(* values; each constant of a run is defined here and named in its .cfg.   *)
(***************************************************************************)
EXTENDS DeviceRuntime, TLC

CONSTANTS t1, t2, r1, r2, r3, c1, c2, c3, s1, s2, rev1, rev2

Ask(t, action, requirement) ==
  [target |-> t, action |-> action, requirement |-> requirement]

\* One target: what a Scheduler or a Motor window sends it, and a stop.
MotorContents ==
  {Ask(t1, "move", "observed"), Ask(t1, "move", "acknowledged"),
   Ask(t1, "stop", "acknowledged"), Ask(t1, "dance", "dispatched")}

\* Two targets: a move whose observer outlives a stop, the stop, and a move of the other.
PairContents ==
  {Ask(t1, "move", "observed"), Ask(t1, "stop", "dispatched"),
   Ask(t2, "move", "acknowledged")}

RequestSymmetry == Permutations({r1, r2, r3}) \cup Permutations({c1, c2, c3})
               \cup Permutations({s1, s2})

=============================================================================
