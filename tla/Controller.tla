----------------------------- MODULE Controller -----------------------------
(***************************************************************************)
(* The controller (src/core/controller.cpp): the state only its own thread *)
(* writes, and one action for each piece of work that thread can be handed.*)
(* The actions are the bodies run_on_controller_thread executes; who posts *)
(* them, and in what order, is left open here (any order), and is fixed by *)
(* the modules that compose the controller with its threads.               *)
(***************************************************************************)
EXTENDS ProcessFsm

CONSTANTS WaferIds,   \* the non-empty wafer ids of a StartCommand
          NoWafer,    \* the empty wafer id
          AlarmIds    \* the ALIDs raised through the AlarmManager

ASSUME NoWaferAssumption == NoWafer \notin WaferIds

Sources == {"Ui", "Cli", "SecsGem"}
ControlModes == {"Offline", "OnlineLocal", "OnlineRemote"}

VARIABLES state,             \* fsm_.state() and its published copy state_
          stop_after_wafer,  \* fsm_.stop_after_wafer_
          control_mode, has_active_alarm, current_wafer_id,
          active_alarms      \* AlarmManager::active_, the ids

controllerVars == <<state, stop_after_wafer, control_mode, has_active_alarm,
                    current_wafer_id, active_alarms>>
-----------------------------------------------------------------------------
control_allows_start(mode, source) ==
  IF mode = "OnlineRemote" THEN source = "SecsGem" ELSE source # "SecsGem"

control_allows_host_command(mode, source) ==
  source # "SecsGem" \/ mode = "OnlineRemote"

control_allows_set_mode(requested, current, source) ==
  source = "SecsGem" => requested = "Offline" \/ current = "Offline"

StartGuards(source, wafer) ==
  [DefaultGuards EXCEPT !.control_allows_start = control_allows_start(control_mode, source),
                        !.has_active_alarm = has_active_alarm,
                        !.wafer_valid = wafer # NoWafer]

ResultGuards(more) == [DefaultGuards EXCEPT !.more_wafers_pending = more]

(* Whether the state machine takes a trigger in the current state. *)
Takes(trigger, g) == Verdict(state, trigger, g) = Accepted

(* Controller::transition *)
Transition(trigger, g) ==
  /\ state' = Apply(state, stop_after_wafer, trigger, g).state
  /\ stop_after_wafer' = Apply(state, stop_after_wafer, trigger, g).stop
-----------------------------------------------------------------------------
ControllerInit ==
  /\ state = "Idle"
  /\ stop_after_wafer = FALSE
  /\ control_mode = "OnlineLocal"
  /\ has_active_alarm = FALSE
  /\ current_wafer_id = NoWafer
  /\ active_alarms = {}

(* handle_command, StartCommand. The scan driver is started by the module
   that owns the scan thread. *)
HandleStart(source, wafer) ==
  /\ Transition("Start", StartGuards(source, wafer))
  /\ current_wafer_id' = IF Takes("Start", StartGuards(source, wafer))
                         THEN wafer ELSE current_wafer_id
  /\ UNCHANGED <<control_mode, has_active_alarm, active_alarms>>

(* handle_command, StopCommand. *)
HandleStop(source) ==
  /\ IF control_allows_host_command(control_mode, source)
     THEN Transition("Stop", DefaultGuards)
     ELSE UNCHANGED <<state, stop_after_wafer>>
  /\ UNCHANGED <<control_mode, has_active_alarm, current_wafer_id, active_alarms>>

(* handle_command, AbortCommand, up to the request to the scan driver. *)
AbortTaken(source) ==
  control_allows_host_command(control_mode, source) /\ Takes("Abort", DefaultGuards)

HandleAbort(source) ==
  /\ IF control_allows_host_command(control_mode, source)
     THEN Transition("Abort", DefaultGuards)
     ELSE UNCHANGED <<state, stop_after_wafer>>
  /\ UNCHANGED <<control_mode, has_active_alarm, current_wafer_id, active_alarms>>

(* handle_command, ClearAlarmCommand: every active alarm goes with it. *)
HandleClearAlarm(source) ==
  /\ IF /\ control_allows_host_command(control_mode, source)
        /\ Takes("ClearAlarm", DefaultGuards)
     THEN /\ Transition("ClearAlarm", DefaultGuards)
          /\ has_active_alarm' = FALSE
          /\ active_alarms' = {}
     ELSE UNCHANGED <<state, stop_after_wafer, has_active_alarm, active_alarms>>
  /\ UNCHANGED <<control_mode, current_wafer_id>>

(* handle_command, SetControlModeCommand. *)
HandleSetControlMode(source, mode) ==
  /\ control_mode' = IF control_allows_set_mode(mode, control_mode, source)
                     THEN mode ELSE control_mode
  /\ UNCHANGED <<state, stop_after_wafer, has_active_alarm, current_wafer_id,
                 active_alarms>>

(* notify_scan_complete *)
ScanComplete ==
  /\ Transition("LinesComplete", DefaultGuards)
  /\ UNCHANGED <<control_mode, has_active_alarm, current_wafer_id, active_alarms>>

(* A fault the state machine takes raises the alarm; one it rejects leaves no
   trace in the AlarmManager (the common part of notify_processing_result and
   notify_fault). *)
RaiseAlarm(id) ==
  IF Takes("Fault", DefaultGuards)
  THEN /\ Transition("Fault", DefaultGuards)
       /\ has_active_alarm' = TRUE
       /\ active_alarms' = active_alarms \union {id}
  ELSE UNCHANGED <<state, stop_after_wafer, has_active_alarm, active_alarms>>

(* notify_processing_result with raised_alarm_id set, and without. *)
ProcessingAlarm(id) ==
  /\ RaiseAlarm(id)
  /\ UNCHANGED <<control_mode, current_wafer_id>>

ProcessingResult(more) ==
  /\ Transition("ResultReady", ResultGuards(more))
  /\ UNCHANGED <<control_mode, has_active_alarm, current_wafer_id, active_alarms>>

(* notify_fault *)
NotifyFault(id) ==
  /\ RaiseAlarm(id)
  /\ UNCHANGED <<control_mode, current_wafer_id>>

(* notify_stage_stopped *)
StageStopped ==
  /\ Transition("StageStopped", DefaultGuards)
  /\ UNCHANGED <<control_mode, has_active_alarm, current_wafer_id, active_alarms>>

HandleCommand(source) ==
  \/ \E wafer \in WaferIds \union {NoWafer} : HandleStart(source, wafer)
  \/ HandleStop(source)
  \/ HandleAbort(source)
  \/ HandleClearAlarm(source)
  \/ \E mode \in ControlModes : HandleSetControlMode(source, mode)

HandleNotification ==
  \/ ScanComplete
  \/ \E id \in AlarmIds : ProcessingAlarm(id) \/ NotifyFault(id)
  \/ \E more \in BOOLEAN : ProcessingResult(more)
  \/ StageStopped

(* AlarmManager::set and clear called by another thread: the scan thread raises
   and clears alarms without the controller; here it may be any alarm. *)
AlarmTableChanges ==
  /\ \E id \in AlarmIds : active_alarms' \in {active_alarms \union {id}, active_alarms \ {id}}
  /\ UNCHANGED <<state, stop_after_wafer, control_mode, has_active_alarm, current_wafer_id>>

ControllerNext ==
  \/ \E source \in Sources : HandleCommand(source)
  \/ HandleNotification
  \/ AlarmTableChanges

ControllerSpec == ControllerInit /\ [][ControllerNext]_controllerVars
-----------------------------------------------------------------------------
(* Every variable of the controller holds a value of its C++ type. *)
ControllerTypeOK ==
  /\ state \in ProcessStates
  /\ stop_after_wafer \in BOOLEAN
  /\ control_mode \in ControlModes
  /\ has_active_alarm \in BOOLEAN
  /\ current_wafer_id \in WaferIds \union {NoWafer}
  /\ active_alarms \in SUBSET AlarmIds

(* A run in progress belongs to a wafer: Scanning, Processing and Stopping are
   only reached through a Start that named one, so ScanComplete and RunAborted
   never announce an empty wafer id. *)
RunHasWafer ==
  state \in {"Scanning", "Processing", "Stopping"} => current_wafer_id # NoWafer
=============================================================================
