----------------------------- MODULE ProcessFsm -----------------------------
(***************************************************************************)
(* The process state machine of the controller                             *)
(* (src/core/process_state_machine.cpp) as one pure operator: what         *)
(* ProcessStateMachine::apply answers and leaves behind for every state,   *)
(* stop flag, trigger and set of guards.                                   *)
(***************************************************************************)

ProcessStates == {"Idle", "Scanning", "Processing", "Alarm", "Stopping"}

ProcessTriggers == {"Start", "LinesComplete", "Stop", "Abort", "ResultReady",
                    "Fault", "ClearAlarm", "StageStopped"}

(* kReason* codes; Accepted stands for a Result that holds a value. *)
Accepted == "Accepted"
Reasons == {Accepted, "IllegalTransition", "ControlStateDenied", "ActiveAlarm",
            "InvalidWafer", "AlarmNotCleared"}

TransitionGuards ==
  [control_allows_start : BOOLEAN, has_active_alarm : BOOLEAN,
   wafer_valid : BOOLEAN, more_wafers_pending : BOOLEAN,
   alarm_cause_cleared : BOOLEAN]

(* TransitionGuards{}: every field at the default that lets Start through. *)
DefaultGuards ==
  [control_allows_start |-> TRUE, has_active_alarm |-> FALSE,
   wafer_valid |-> TRUE, more_wafers_pending |-> FALSE,
   alarm_cause_cleared |-> TRUE]

(* Mutant: a late result is still legal while Stopping. *)
LegalTriggersLateResult(state) ==
  CASE state = "Idle"       -> {"Start"}
    [] state = "Scanning"   -> {"LinesComplete", "Stop", "Abort", "Fault"}
    [] state = "Processing" -> {"ResultReady", "Fault", "Abort"}
    [] state = "Alarm"      -> {"ClearAlarm"}
    [] state = "Stopping"   -> {"StageStopped", "ResultReady"}

(* The triggers each state's switch has a case for. *)
LegalTriggers(state) ==
  CASE state = "Idle"       -> {"Start"}
    [] state = "Scanning"   -> {"LinesComplete", "Stop", "Abort", "Fault"}
    [] state = "Processing" -> {"ResultReady", "Fault", "Abort"}
    [] state = "Alarm"      -> {"ClearAlarm"}
    [] state = "Stopping"   -> {"StageStopped"}

(* The guards of a Start in Idle, in the order the code tests them. *)
StartVerdict(g) ==
  CASE ~ g.control_allows_start -> "ControlStateDenied"
    [] g.control_allows_start /\ g.has_active_alarm -> "ActiveAlarm"
    [] g.control_allows_start /\ ~ g.has_active_alarm /\ ~ g.wafer_valid -> "InvalidWafer"
    [] g.control_allows_start /\ ~ g.has_active_alarm /\ g.wafer_valid -> Accepted

(* The reason apply() answers with. *)
Verdict(state, trigger, g) ==
  IF trigger \notin LegalTriggers(state) THEN "IllegalTransition"
  ELSE IF trigger = "Start" THEN StartVerdict(g)
  ELSE IF trigger = "ClearAlarm" /\ ~ g.alarm_cause_cleared THEN "AlarmNotCleared"
  ELSE Accepted

(* The state an accepted trigger leads to. *)
Target(state, stop, trigger, g) ==
  CASE trigger = "Start"         -> "Scanning"
    [] trigger = "LinesComplete" -> "Processing"
    [] trigger = "Stop"          -> state
    [] trigger = "Abort"         -> "Stopping"
    [] trigger = "Fault"         -> "Alarm"
    [] trigger = "ClearAlarm"    -> "Idle"
    [] trigger = "StageStopped"  -> "Idle"
    [] trigger = "ResultReady"   ->
         IF g.more_wafers_pending /\ ~ stop THEN "Scanning" ELSE "Idle"

(* What an accepted trigger does to stop_after_wafer_: Start, StageStopped
   and a ResultReady that ends the run reset it, Stop sets it, and every
   other trigger leaves it alone (ClearAlarm included). *)
StopFlagAfter(state, stop, trigger, g) ==
  CASE trigger = "Stop" -> TRUE
    [] trigger \in {"Start", "StageStopped"} -> FALSE
    [] trigger = "ResultReady" -> stop /\ Target(state, stop, trigger, g) = "Scanning"
    [] trigger \in {"LinesComplete", "Abort", "Fault", "ClearAlarm"} -> stop

(* ProcessStateMachine::apply: a rejected trigger changes nothing. *)
Apply(state, stop, trigger, g) ==
  LET verdict == Verdict(state, trigger, g)
  IN  [verdict |-> verdict,
       state   |-> IF verdict = Accepted THEN Target(state, stop, trigger, g) ELSE state,
       stop    |-> IF verdict = Accepted THEN StopFlagAfter(state, stop, trigger, g) ELSE stop]
=============================================================================
