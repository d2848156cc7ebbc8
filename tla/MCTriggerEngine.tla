--------------------------- MODULE MCTriggerEngine ---------------------------
(***************************************************************************)
(* Instances of TriggerEngine for TLC.  "go" starts an armed Show as       *)
(* main_endpoints.py has it, with windows; "panic" holds it, and when it   *)
(* is loud it goes on, past a hold that may raise, to an abort; "stop"     *)
(* goes on, when its handler has waited for the abort, to a hold.  The     *)
(* assumptions of InputFraming, where inputs come from, are checked too.   *)
(***************************************************************************)
EXTENDS TriggerEngine, InputFraming

MCTriggers ==
  << [source |-> AnySource, type |-> "go", comparator |-> "eq", value |-> <<"boolean", 1>>,
      action |-> "start", show_states |-> {"ARMED", "FAULTED"}, debounce |-> 1, cooldown |-> 2],
     [source |-> "panel", type |-> "panic", comparator |-> "gt", value |-> <<"number", 0>>,
      action |-> "hold", show_states |-> ShowStates, debounce |-> 0, cooldown |-> 0],
     [source |-> AnySource, type |-> "panic", comparator |-> "gte", value |-> <<"number", 2>>,
      action |-> "abort", show_states |-> ShowStates, debounce |-> 0, cooldown |-> 0],
     [source |-> AnySource, type |-> "stop", comparator |-> "ne", value |-> <<"text", "no">>,
      action |-> "abort", show_states |-> ShowStates, debounce |-> 0, cooldown |-> 2],
     [source |-> "remote", type |-> "stop", comparator |-> "eq", value |-> <<"text", "now">>,
      action |-> "hold", show_states |-> {"RUNNING"}, debounce |-> 2, cooldown |-> 0] >>

MCEvents ==
  { [source |-> "panel", type |-> "go", value |-> <<"number", 1>>],
    [source |-> "panel", type |-> "panic", value |-> <<"number", 1>>],
    [source |-> "panel", type |-> "panic", value |-> <<"numeral", 2>>],
    [source |-> "remote", type |-> "stop", value |-> <<"text", "now">>] }
=============================================================================
