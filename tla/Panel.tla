------------------------------- MODULE Panel -------------------------------
(***************************************************************************)
(* The operator panel (src/app_qt) on the machine it builds: the GUI       *)
(* thread with its event queue, the pool threads that run the operator's   *)
(* commands, the bridge from the machine's bus, and the controller and     *)
(* processing threads as far as the panel can see them.                    *)
(*                                                                         *)
(* A piece of work of the controller changes its state at once (Controller)*)
(* but is seen step by step: steps holds the stores to the copies other    *)
(* threads read and the events, in the order the code makes them.          *)
(*                                                                         *)
(* The panel has no host link: every command is the operator's.            *)
(***************************************************************************)
EXTENDS Controller, Integers, Sequences, FiniteSets

CONSTANTS
    MaxClicks,      \* bound: commands the operator gives
    MaxPosts,       \* bound: the machine goes on while fewer events wait for the GUI thread
    MaxBuilds       \* bound: machines built, the first included

ASSUME PanelAssumption ==
    /\ {MaxClicks, MaxPosts, MaxBuilds} \subseteq Nat \ {0}
    /\ NoWafer = 0 /\ WaferIds = 1..MaxClicks /\ "ScanStall" \in AlarmIds
    /\ "none" \notin AlarmIds

VARIABLES
    live,           \* state_, control_mode_ and has_active_alarm_ as other threads read them
    steps,          \* what the controller thread still has to do of its current work
    wafers_started, \* MachineRuntime::wafers_started_
    unpublished,    \* what the processing thread still has to publish of a wafer
    stalled,        \* the scan thread is between raising and clearing ScanStall
    runtime_,       \* the number of the machine, 0 for none
    built,          \* machines built so far
    completed,      \* history: the wafer of the last run once its result was taken, NoWafer before
    posts,          \* the events in the queue of the GUI thread
    calls,          \* the commands given and not yet reported to the GUI thread
    clicks,         \* commands given so far
    in_flight_,
    gui,            \* the GUI thread: where it is, and the snapshot it is reading
    dialog,         \* is a dialog open
    panel,          \* buttons, menu and labels
    banner,         \* the alarm banner and alarm_text_
    view            \* the wafer's label, its numbers, and its map

machineVars == <<controllerVars, live, steps, wafers_started, unpublished, stalled, runtime_, built, completed>>
windowVars == <<in_flight_, gui, dialog, panel, banner, view>>
vars == <<machineVars, posts, calls, clicks, windowVars>>

-----------------------------------------------------------------------------
(* What the panel offers. *)

rules_for(s, mode, alarm) ==
    [can_start |-> s = "Idle" /\ ~alarm /\ mode # "OnlineRemote",
     can_stop |-> s = "Scanning",
     can_abort |-> s \in {"Scanning", "Processing"},
     can_clear_alarm |-> s = "Alarm",
     can_change_mode |-> s \in {"Idle", "Alarm"}]

NoRules == [can_start |-> FALSE, can_stop |-> FALSE, can_abort |-> FALSE,
            can_clear_alarm |-> FALSE, can_change_mode |-> FALSE]

NoAlarmText == "none"
EmptyView == [wafer |-> NoWafer, numbers |-> NoWafer, map |-> NoWafer]
Fresh == [state |-> "Idle", mode |-> "OnlineLocal", alarm |-> FALSE]
GuiAt(at) == [at |-> at, snap |-> Fresh]

\* The window before its first rebuild().
Init ==
    /\ ControllerInit
    /\ live = Fresh /\ steps = <<>> /\ wafers_started = 0 /\ unpublished = <<>>
    /\ stalled = FALSE
    /\ runtime_ = 0 /\ built = 0 /\ completed = NoWafer
    /\ posts = <<>> /\ calls = {} /\ clicks = 0
    /\ in_flight_ = 0 /\ gui = GuiAt("build") /\ dialog = FALSE
    /\ panel = [rules |-> NoRules, menus |-> TRUE, process |-> "Idle", mode |-> "OnlineLocal"]
    /\ banner = [shown |-> FALSE, text |-> NoAlarmText]
    /\ view = EmptyView

-----------------------------------------------------------------------------
(* The controller thread, step by step. *)

Store(field, value) == [op |-> "store", field |-> field, value |-> value]
Publish(event, about) == [op |-> "publish", field |-> event, value |-> about]
Answer(id) == [op |-> "answer", field |-> "call", value |-> id]

\* Controller::transition: the copy first, then the event.
TransitionSteps ==
    IF state' = state THEN <<>> ELSE <<Store("state", state'), Publish("StateChanged", 0)>>

\* handle_command, after the transition.
StartSteps ==
    IF state' = state THEN <<>> ELSE <<Publish("ScanStarted", current_wafer_id')>>
ClearSteps ==
    IF state' = state THEN <<>>
    ELSE <<Store("alarm", FALSE)>>
         \o [i \in 1..Cardinality(active_alarms) |-> Publish("AlarmCleared", 0)]
ModeSteps(mode) == <<Store("mode", mode), Publish("ControlStateChanged", 0)>>

\* notify_processing_result, after the transition.
FaultSteps(id) ==
    IF state' = state THEN <<>> ELSE <<Store("alarm", TRUE), Publish("AlarmSet", id)>>

\* Controller::submit_command on the controller thread, for a call of a pool thread.
HandleCall(c) ==
    /\ c.at = "pool" /\ c.api = runtime_ /\ steps = <<>>
    /\ \/ /\ c.command = "Start" /\ HandleStart("Ui", c.wafer)
          /\ steps' = TransitionSteps \o StartSteps \o <<Answer(c.id)>>
       \/ /\ c.command = "Stop" /\ HandleStop("Ui")
          /\ steps' = TransitionSteps \o <<Answer(c.id)>>
       \/ /\ c.command = "Abort" /\ HandleAbort("Ui")
          /\ steps' = TransitionSteps \o <<Answer(c.id)>>
       \/ /\ c.command = "ClearAlarm" /\ HandleClearAlarm("Ui")
          /\ steps' = TransitionSteps \o ClearSteps \o <<Answer(c.id)>>
       \/ /\ c.command \in ControlModes /\ HandleSetControlMode("Ui", c.command)
          /\ steps' = ModeSteps(c.command) \o <<Answer(c.id)>>
    /\ completed' = IF c.command = "Start" /\ state' # state THEN NoWafer ELSE completed
    /\ calls' = (calls \ {c}) \union {[c EXCEPT !.at = "posted"]}
    /\ UNCHANGED <<live, wafers_started, unpublished, stalled, runtime_, built, posts, clicks,
                   windowVars>>

\* The scan and processing threads report.  After a wafer's result has been taken
\* the processing thread still publishes it, before it turns to the next wafer.
Fails(id) ==
    /\ state = "Processing" /\ unpublished = <<>> /\ ProcessingAlarm(id)
    /\ steps' = TransitionSteps \o FaultSteps(id)
    /\ UNCHANGED <<unpublished, completed>>

\* Mutant: the map is not published.
ToPublish_mapless(w) == <<Publish("WaferResultReady", w)>>

ToPublish(w) == <<Publish("WaferResultReady", w), Publish("WaferMapReady", w)>>

Completes ==
    /\ state = "Processing" /\ unpublished = <<>> /\ ProcessingResult(FALSE)
    /\ steps' = TransitionSteps
    /\ completed' = current_wafer_id /\ unpublished' = ToPublish(current_wafer_id)

Reports ==
    /\ runtime_ # 0 /\ steps = <<>>
    /\ \/ /\ state = "Scanning" /\ ~stalled /\ ScanComplete
          /\ steps' = TransitionSteps /\ UNCHANGED <<unpublished, completed>>
       \/ \E id \in AlarmIds \ {"ScanStall"} : Fails(id)
       \/ Completes
       \/ /\ state = "Stopping" /\ ~stalled /\ unpublished = <<>> /\ StageStopped
          /\ steps' = TransitionSteps \o <<Publish("RunAborted", current_wafer_id)>>
          /\ UNCHANGED <<unpublished, completed>>
    /\ UNCHANGED <<live, wafers_started, stalled, runtime_, built, posts, calls, clicks, windowVars>>

-----------------------------------------------------------------------------
(* The bridge: what it queues for the GUI thread when the machine publishes. *)

Post(kind, about) == [kind |-> kind, about |-> about]

\* The signals of the bridge that have a slot in the window (alarmCleared has none).
Emits ==
    [StateChanged |-> <<"machineChanged">>, ControlStateChanged |-> <<"machineChanged">>,
     ScanStarted |-> <<"scanStarted">>, RunAborted |-> <<"runAborted">>,
     AlarmSet |-> <<"alarmSet", "machineChanged">>, AlarmCleared |-> <<"machineChanged">>,
     WaferResultReady |-> <<"resultReady">>, WaferMapReady |-> <<"mapReady">>]

\* Mutant: a change of the process state is not passed on.
Signals_mute(e) ==
    IF e.field = "StateChanged" THEN <<>>
    ELSE [i \in DOMAIN Emits[e.field] |-> Post(Emits[e.field][i], e.value)]

Signals(e) == [i \in DOMAIN Emits[e.field] |-> Post(Emits[e.field][i], e.value)]

ControllerSteps ==
    /\ steps # <<>> /\ steps' = Tail(steps) /\ Len(posts) < MaxPosts
    /\ LET s == Head(steps)
       IN  /\ live' = IF s.op = "store" THEN [live EXCEPT ![s.field] = s.value] ELSE live
           /\ posts' = IF s.op = "publish" THEN posts \o Signals(s) ELSE posts
           /\ wafers_started' = IF s.op = "publish" /\ s.field = "ScanStarted"
                                THEN wafers_started + 1 ELSE wafers_started
           /\ calls' = IF s.op = "answer"
                       THEN {IF c.id = s.value THEN [c EXCEPT !.at = "answered"] ELSE c : c \in calls}
                       ELSE calls
    /\ UNCHANGED <<controllerVars, unpublished, stalled, runtime_, built, completed, clicks, windowVars>>

WorkerPublishes ==
    /\ unpublished # <<>> /\ unpublished' = Tail(unpublished) /\ Len(posts) < MaxPosts
    /\ posts' = posts \o Signals(Head(unpublished))
    /\ UNCHANGED <<controllerVars, live, steps, wafers_started, stalled, runtime_, built, completed, calls, clicks,
                   windowVars>>

\* The scan thread raises and clears ScanStall itself: neither the process state
\* nor has_active_alarm_ knows of it.
ScanStalls ==
    /\ runtime_ # 0 /\ Len(posts) < MaxPosts /\ stalled' = ~stalled
    /\ IF stalled
       THEN /\ active_alarms' = active_alarms \ {"ScanStall"}
            /\ posts' = posts \o Signals(Publish("AlarmCleared", 0))
       ELSE /\ state = "Scanning"
            /\ active_alarms' = active_alarms \union {"ScanStall"}
            /\ posts' = posts \o Signals(Publish("AlarmSet", "ScanStall"))
    /\ UNCHANGED <<state, stop_after_wafer, control_mode, has_active_alarm, current_wafer_id, live,
                   steps, wafers_started, unpublished, runtime_, built, completed, calls, clicks,
                   windowVars>>

-----------------------------------------------------------------------------
(* The GUI thread. *)

Looping == gui.at = "loop"


\* The slots that only set what the window shows.
Shows(e) ==
    /\ e.kind \in {"scanStarted", "runAborted", "resultReady", "mapReady", "alarmSet"}
    /\ view' = CASE e.kind = "scanStarted" -> [EmptyView EXCEPT !.wafer = e.about]
                 [] e.kind = "resultReady" -> [view EXCEPT !.wafer = e.about, !.numbers = e.about]
                 [] e.kind = "mapReady" -> [view EXCEPT !.map = e.about]
                 [] OTHER -> view
    /\ banner' = IF e.kind = "alarmSet" THEN [shown |-> TRUE, text |-> e.about] ELSE banner
    /\ UNCHANGED <<in_flight_, gui>>

\* machineChanged, and QFutureWatcher::finished, end in refresh().
StartsRefresh(e) ==
    /\ e.kind \in {"machineChanged", "finished"}
    /\ in_flight_' = IF e.kind = "finished" THEN in_flight_ - 1 ELSE in_flight_
    /\ gui' = GuiAt("refresh")
    /\ UNCHANGED <<view, banner>>

GuiTakes ==
    /\ Looping /\ posts # <<>> /\ posts' = Tail(posts)
    /\ Shows(Head(posts)) \/ StartsRefresh(Head(posts))
    /\ UNCHANGED <<machineVars, calls, clicks, dialog, panel>>

\* refresh() reads the snapshot value by value (MachineApi::snapshot) ...
RefreshReads ==
    /\ runtime_ # 0
    /\ \/ gui.at = "refresh" /\ gui' = [at |-> "mode", snap |-> [gui.snap EXCEPT !.state = live.state]]
       \/ gui.at = "mode" /\ gui' = [at |-> "alarm", snap |-> [gui.snap EXCEPT !.mode = live.mode]]
    /\ UNCHANGED <<machineVars, posts, calls, clicks, in_flight_, dialog, panel, banner, view>>

\* ... and sets buttons, menu, labels and banner from it.
refresh ==
    /\ \/ /\ runtime_ # 0 /\ gui.at = "alarm"
          /\ LET rules == rules_for(gui.snap.state, gui.snap.mode, live.alarm)
             IN  panel' = [rules |-> rules, menus |-> rules.can_change_mode /\ in_flight_ = 0,
                           process |-> gui.snap.state, mode |-> gui.snap.mode]
          /\ banner' = [banner EXCEPT !.shown = IF live.alarm THEN @ \/ banner.text # NoAlarmText
                                                ELSE FALSE]
       \/ /\ runtime_ = 0 /\ gui.at = "refresh"
          /\ panel' = [panel EXCEPT !.rules = NoRules, !.menus = TRUE]
          /\ UNCHANGED banner
    /\ gui' = GuiAt("loop")
    /\ UNCHANGED <<machineVars, posts, calls, clicks, in_flight_, dialog, view>>

\* run_command
run_command(command, wafer) ==
    /\ Looping /\ ~dialog /\ runtime_ # 0 /\ clicks < MaxClicks
    /\ clicks' = clicks + 1 /\ in_flight_' = in_flight_ + 1
    /\ calls' = calls \union
           {[id |-> clicks + 1, command |-> command, wafer |-> wafer, api |-> runtime_, at |-> "pool"]}
    /\ UNCHANGED <<machineVars, posts, gui, dialog, banner, view>>

on_start == panel.rules.can_start /\ run_command("Start", wafers_started + 1) /\ UNCHANGED panel
on_stop == panel.rules.can_stop /\ run_command("Stop", NoWafer) /\ UNCHANGED panel
on_abort == panel.rules.can_abort /\ run_command("Abort", NoWafer) /\ UNCHANGED panel
on_clear == panel.rules.can_clear_alarm /\ run_command("ClearAlarm", NoWafer) /\ UNCHANGED panel

\* The box shows the chosen mode before the machine has it.
on_mode_changed(mode) ==
    /\ panel.rules.can_change_mode /\ run_command(mode, NoWafer)
    /\ panel' = [panel EXCEPT !.mode = mode]

\* The pool thread has its answer; QFutureWatcher::finished is queued.
CallReturns(c) ==
    /\ c.at = "answered"
    /\ calls' = calls \ {c} /\ posts' = Append(posts, Post("finished", c.id))
    /\ UNCHANGED <<machineVars, clicks, windowVars>>

-----------------------------------------------------------------------------
(* Building the machine. *)

\* on_load_config, on_settings: the dialog's own loop goes on with the queue.
OpensDialog ==
    /\ Looping /\ ~dialog /\ panel.menus /\ built < MaxBuilds
    /\ dialog' = TRUE
    /\ UNCHANGED <<machineVars, posts, calls, clicks, in_flight_, gui, panel, banner, view>>

\* The dialog is given up, its file cannot be read, or rebuild() refuses.
DialogEnds ==
    /\ Looping /\ dialog /\ dialog' = FALSE
    /\ UNCHANGED <<machineVars, posts, calls, clicks, in_flight_, gui, panel, banner, view>>

\* Mutant: a command in flight does not hold the machine.
MayRebuild_always == TRUE

MayRebuild == in_flight_ = 0

\* rebuild(): bridge and machine go, what is queued stays; then a new machine, or
\* none (ok).  The first one is built by main().
rebuild(ok) ==
    /\ gui.at = "build" \/ (Looping /\ dialog)
    /\ MayRebuild /\ built < MaxBuilds
    /\ dialog' = FALSE
    /\ view' = EmptyView /\ banner' = [shown |-> FALSE, text |-> NoAlarmText]
    /\ steps' = <<>> /\ unpublished' = <<>> /\ stalled' = FALSE
    /\ state' = "Idle" /\ stop_after_wafer' = FALSE /\ control_mode' = "OnlineLocal"
    /\ has_active_alarm' = FALSE /\ current_wafer_id' = NoWafer /\ active_alarms' = {}
    /\ live' = Fresh /\ wafers_started' = 0
    /\ built' = built + 1 /\ completed' = NoWafer
    /\ runtime_' = IF ok THEN built + 1 ELSE 0
    /\ gui' = GuiAt("refresh")
    /\ UNCHANGED <<posts, calls, clicks, in_flight_, panel>>

-----------------------------------------------------------------------------
MachineNext ==
    \/ \E c \in calls : HandleCall(c) \/ CallReturns(c)
    \/ ControllerSteps \/ WorkerPublishes

GuiNext == GuiTakes \/ RefreshReads \/ refresh

OperatorNext ==
    \/ on_start \/ on_stop \/ on_abort \/ on_clear
    \/ \E mode \in ControlModes : on_mode_changed(mode)
    \/ OpensDialog \/ DialogEnds
    \/ \E ok \in BOOLEAN : rebuild(ok)

Next == MachineNext \/ GuiNext \/ OperatorNext \/ Reports \/ ScanStalls

Spec == Init /\ [][Next]_vars

-----------------------------------------------------------------------------
(* Properties. *)

\* The GUI thread has caught up with the machine.
CaughtUp == Looping /\ posts = <<>> /\ steps = <<>> /\ unpublished = <<>>

\* FR-UI-1: once the GUI thread has caught up, the panel agrees with the machine.
\* The buttons offer what the state machine would take, the banner shows exactly
\* the alarm the machine has stopped for and, with no command in flight, the mode is the machine's and
\* the menu open when it may be, although refresh() reads the machine value by
\* value while it moves on, and events queue behind each other and behind a
\* machine that no longer exists.
PanelFollowsMachine ==
    CaughtUp =>
        IF runtime_ = 0 THEN panel.rules = NoRules /\ panel.menus
        ELSE /\ panel.rules.can_start <=> Takes("Start", StartGuards("Ui", wafers_started + 1))
             /\ panel.rules.can_stop => Takes("Stop", DefaultGuards)
             /\ panel.rules.can_abort <=> Takes("Abort", DefaultGuards)
             /\ panel.rules.can_clear_alarm <=> Takes("ClearAlarm", DefaultGuards)
             /\ panel.process = state
             /\ banner.shown <=> has_active_alarm
             /\ banner.shown => banner.text \in active_alarms
             /\ in_flight_ = 0 => /\ panel.mode = control_mode
                                  /\ panel.menus <=> state \in {"Idle", "Alarm"}

\* A completed run, until another Start is accepted, ends with its own wafer's
\* label, numbers and map on the panel.  Each result is published after the
\* controller has taken it, so the next run may be announced before it and the
\* labels change back in between; once that run has completed they are right.
ResultIsShown ==
    CaughtUp /\ completed # NoWafer =>
        view = [wafer |-> completed, numbers |-> completed, map |-> completed]

\* rebuild(): "Refused while a command is in flight."  The machine a pool thread
\* was given is the one that exists, and every command given is counted until
\* its report has been handled.
CommandsKeepMachine ==
    /\ \A c \in calls : c.api = runtime_
    /\ in_flight_ = Cardinality(calls)
                    + Cardinality({i \in DOMAIN posts : posts[i].kind = "finished"})
=============================================================================
