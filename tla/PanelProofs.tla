----------------------------- MODULE PanelProofs -----------------------------
(***************************************************************************)
(* What the operator's window promises: it never replaces the machine      *)
(* under a command, and once the GUI thread has caught up it shows the     *)
(* machine's state, its alarm and its last wafer, whatever the number of   *)
(* commands, of machines and of events that wait.                          *)
(***************************************************************************)
EXTENDS Panel, TLAPS

-----------------------------------------------------------------------------
(* The controller thread's steps. *)

(* What the controller thread publishes, and what the processing thread does. *)
Events == {"StateChanged", "ControlStateChanged", "ScanStarted", "RunAborted", "AlarmSet",
           "AlarmCleared"}
ResultEvents == {"WaferResultReady", "WaferMapReady"}

(* The events the bridge answers with machineChanged. *)
ChangeEvents == {"StateChanged", "ControlStateChanged", "AlarmSet", "AlarmCleared"}
LiveFields == {"state", "mode", "alarm"}
Values == ProcessStates \union ControlModes \union BOOLEAN \union AlarmIds \union Nat

StoreSet == [op : {"store"}, field : LiveFields, value : Values]
PublishSet == [op : {"publish"}, field : Events, value : Values]
AnswerSet == [op : {"answer"}, field : {"call"}, value : Values]
ResultSet == [op : {"publish"}, field : ResultEvents, value : Values]
StepSet == StoreSet \union PublishSet \union AnswerSet

(* The step ends in a refresh() of the panel. *)
Refreshes(s) == s.op = "publish" /\ s.field \in ChangeEvents

(* A value stored is the machine's, and an event that ends in refresh() follows. *)
StoresRight(q, s, m, a) ==
  \A i \in DOMAIN q : q[i].op = "store" =>
    /\ q[i].field = "state" => q[i].value = s
    /\ q[i].field = "mode" => q[i].value = m
    /\ q[i].field = "alarm" => q[i].value = a
    /\ \E j \in DOMAIN q : j > i /\ Refreshes(q[j])

Stores(q, f) == \E i \in DOMAIN q : q[i].op = "store" /\ q[i].field = f
NoStart(q) == \A i \in DOMAIN q : q[i].op = "publish" => q[i].field # "ScanStarted"
AlarmsAmong(q, A) ==
  \A i \in DOMAIN q : q[i].op = "publish" /\ q[i].field = "AlarmSet" => q[i].value \in A
SetsAlarm(q) == \E i \in DOMAIN q : q[i].op = "publish" /\ q[i].field = "AlarmSet"

LiveInv ==
  /\ StoresRight(steps, state, control_mode, has_active_alarm)
  /\ live.state = state \/ Stores(steps, "state")
  /\ live.mode = control_mode \/ Stores(steps, "mode")
  /\ live.alarm = has_active_alarm \/ Stores(steps, "alarm")

-----------------------------------------------------------------------------
(* The events in the GUI thread's queue. *)

PostKinds == {"machineChanged", "scanStarted", "runAborted", "alarmSet", "resultReady",
              "mapReady", "finished"}
PostSet == [kind : PostKinds, about : Values]

Holds(q, K) == \E i \in DOMAIN q : q[i].kind \in K

(* The last event of these kinds is this one. *)
LastOf(q, K, p) ==
  \E i \in DOMAIN q : q[i] = p /\ \A j \in DOMAIN q : j > i => q[j].kind \notin K

(* What is shown once the queue is empty: the last event of these kinds sets it,
   or it is shown already and none of them is left. *)
Ends(q, K, p, shown) == LastOf(q, K, p) \/ (~ Holds(q, K) /\ shown)

(* The banner's text is followed by a refresh(). *)
AlarmsRefresh(q) ==
  \A i \in DOMAIN q : q[i].kind = "alarmSet" =>
    \E j \in DOMAIN q : j > i /\ q[j].kind = "machineChanged"

(* A refresh() is to come. *)
RefreshAhead(q) == \E i \in DOMAIN q : Refreshes(q[i])
Due == Holds(posts, {"machineChanged"}) \/ RefreshAhead(steps)

-----------------------------------------------------------------------------
(* The kinds of values. *)

Snapshots == [state : ProcessStates, mode : ControlModes, alarm : BOOLEAN]
RuleSet == [can_start : BOOLEAN, can_stop : BOOLEAN, can_abort : BOOLEAN,
            can_clear_alarm : BOOLEAN, can_change_mode : BOOLEAN]

MachineTypes ==
  /\ state \in ProcessStates /\ control_mode \in ControlModes /\ current_wafer_id \in Nat
  /\ live \in Snapshots /\ steps \in Seq(StepSet) /\ unpublished \in Seq(ResultSet)
  /\ wafers_started \in Nat /\ runtime_ \in Nat /\ built \in Nat /\ completed \in Nat

WindowTypes ==
  /\ posts \in Seq(PostSet) /\ clicks \in Nat
  /\ gui \in [at : {"build", "loop", "refresh", "mode", "alarm"}, snap : Snapshots]
  /\ panel \in [rules : RuleSet, menus : BOOLEAN, process : ProcessStates, mode : ControlModes]
  /\ banner \in [shown : BOOLEAN, text : Values \union {NoAlarmText}]
  /\ view \in [wafer : Values, numbers : Values, map : Values]

-----------------------------------------------------------------------------
(* The alarm of the machine, and the banner. *)

AlarmInv ==
  /\ has_active_alarm = (state = "Alarm")
  /\ stalled => state \in {"Scanning", "Stopping"}
  /\ IsFiniteSet(active_alarms) /\ active_alarms \subseteq AlarmIds
  /\ AlarmsRefresh(posts)
  /\ state = "Alarm" =>
       /\ active_alarms # {}
       /\ AlarmsAmong(steps, active_alarms)
       /\ \/ SetsAlarm(steps)
          \/ \E a \in active_alarms :
               Ends(posts, {"alarmSet"}, Post("alarmSet", a), banner.text = a)

-----------------------------------------------------------------------------
(* The panel. *)

ShowsLive ==
  /\ panel.rules = rules_for(live.state, live.mode, live.alarm)
  /\ panel.process = live.state
  /\ banner.shown = live.alarm
  /\ in_flight_ = 0 => /\ panel.mode = live.mode
                       /\ panel.menus = (live.state \in {"Idle", "Alarm"})

FreshInv ==
  /\ gui.at = "build" => runtime_ = 0
  /\ runtime_ = 0 /\ gui.at = "loop" => panel.rules = NoRules /\ panel.menus
  /\ runtime_ # 0 /\ ~ Due =>
       /\ gui.at \in {"mode", "alarm"} => gui.snap.state = live.state
       /\ gui.at = "alarm" => gui.snap.mode = live.mode
       /\ gui.at = "loop" => ShowsLive

-----------------------------------------------------------------------------
(* The last wafer. *)

LabelsEnd(w) == Ends(posts, {"scanStarted", "resultReady"}, Post("resultReady", w),
                     view.wafer = w /\ view.numbers = w)
MapEnds(w) == Ends(posts, {"scanStarted", "mapReady"}, Post("mapReady", w), view.map = w)

ResultInv ==
  completed # NoWafer =>
    /\ NoStart(steps)
    /\ \/ unpublished = ToPublish(completed)
       \/ unpublished = <<Publish("WaferMapReady", completed)>> /\ LabelsEnd(completed)
       \/ unpublished = <<>> /\ LabelsEnd(completed) /\ MapEnds(completed)

-----------------------------------------------------------------------------
(* The commands. *)

CallSet == [id : 1..clicks, command : {"Start", "Stop", "Abort", "ClearAlarm"} \union ControlModes,
            wafer : Nat, api : Nat, at : {"pool", "posted", "answered"}]

Finished(q) == {i \in DOMAIN q : q[i].kind = "finished"}

CommandInv ==
  /\ calls \subseteq CallSet /\ IsFiniteSet(calls)
  /\ \A c, d \in calls : c.id = d.id => c = d
  /\ CommandsKeepMachine

(* The machine, the queue and the window, without the count of the commands. *)
ShownInv == MachineTypes /\ WindowTypes /\ LiveInv /\ AlarmInv /\ FreshInv /\ ResultInv

PanelInv == ShownInv /\ CommandInv

-----------------------------------------------------------------------------
(* Sequences, element by element. *)

LEMMA Joined ==
  ASSUME NEW S, NEW p \in Seq(S), NEW q \in Seq(S)
  PROVE  /\ p \o q \in Seq(S) /\ Len(p) \in Nat /\ Len(q) \in Nat
         /\ DOMAIN p = 1..Len(p) /\ DOMAIN q = 1..Len(q) /\ DOMAIN (p \o q) = 1..(Len(p) + Len(q))
         /\ \A i \in DOMAIN p : i \in DOMAIN (p \o q) /\ (p \o q)[i] = p[i]
         /\ \A i \in DOMAIN q : i + Len(p) \in DOMAIN (p \o q) /\ (p \o q)[i + Len(p)] = q[i]
         /\ \A i \in DOMAIN (p \o q) :
              \/ i \in DOMAIN p /\ (p \o q)[i] = p[i]
              \/ i - Len(p) \in DOMAIN q /\ (p \o q)[i] = q[i - Len(p)] /\ i > Len(p)
  OBVIOUS

LEMMA Rest ==
  ASSUME NEW S, NEW q \in Seq(S), q # <<>>
  PROVE  /\ Tail(q) \in Seq(S) /\ Head(q) = q[1] /\ 1 \in DOMAIN q /\ Head(q) \in S
         /\ \A i \in DOMAIN q : i \in Nat /\ i >= 1
         /\ \A i \in DOMAIN Tail(q) : i \in Nat /\ i + 1 \in DOMAIN q /\ Tail(q)[i] = q[i + 1]
         /\ \A i \in DOMAIN q : i # 1 => i - 1 \in DOMAIN Tail(q) /\ Tail(q)[i - 1] = q[i]
  OBVIOUS

-----------------------------------------------------------------------------
(* Steps. *)

LEMMA StepsJoin ==
  ASSUME NEW p \in Seq(StepSet), NEW q \in Seq(StepSet), NEW s, NEW m, NEW a,
         StoresRight(p, s, m, a), StoresRight(q, s, m, a)
  PROVE  /\ p \o q \in Seq(StepSet) /\ StoresRight(p \o q, s, m, a)
         /\ \A f \in LiveFields : Stores(p, f) \/ Stores(q, f) => Stores(p \o q, f)
<1> DEFINE r == p \o q
<1>1. /\ r \in Seq(StepSet) /\ Len(p) \in Nat
      /\ \A i \in DOMAIN p : i \in Nat /\ i <= Len(p) /\ i \in DOMAIN r /\ r[i] = p[i]
      /\ \A i \in DOMAIN q : i \in Nat /\ i + Len(p) \in DOMAIN r /\ r[i + Len(p)] = q[i]
      /\ \A i \in DOMAIN r :
           \/ i \in DOMAIN p /\ r[i] = p[i]
           \/ i - Len(p) \in DOMAIN q /\ r[i] = q[i - Len(p)] /\ i \in Nat
  BY Joined
<1> HIDE DEF r
<1>2. ASSUME NEW i \in DOMAIN r, r[i].op = "store"
      PROVE  /\ r[i].field = "state" => r[i].value = s
             /\ r[i].field = "mode" => r[i].value = m
             /\ r[i].field = "alarm" => r[i].value = a
             /\ \E j \in DOMAIN r : j > i /\ Refreshes(r[j])
  <2>1. CASE i \in DOMAIN p /\ r[i] = p[i]
    <3>1. PICK j \in DOMAIN p : j > i /\ Refreshes(p[j])
      BY <1>2, <2>1 DEF StoresRight
    <3>2. j \in DOMAIN r /\ r[j] = p[j]
      BY <1>1
    <3> QED
      BY <1>2, <2>1, <3>1, <3>2 DEF StoresRight
  <2>2. CASE i - Len(p) \in DOMAIN q /\ r[i] = q[i - Len(p)] /\ i \in Nat
    <3>1. PICK j \in DOMAIN q : j > i - Len(p) /\ Refreshes(q[j])
      BY <1>2, <2>2 DEF StoresRight
    <3>2. j + Len(p) \in DOMAIN r /\ r[j + Len(p)] = q[j] /\ j + Len(p) > i
      BY <1>1, <2>2, <3>1
    <3> QED
      BY <1>2, <2>2, <3>1, <3>2 DEF StoresRight
  <2> QED
    BY <1>1, <2>1, <2>2
<1>3. StoresRight(r, s, m, a)
  BY <1>2 DEF StoresRight
<1>4. ASSUME NEW f \in LiveFields, Stores(p, f) \/ Stores(q, f) PROVE Stores(r, f)
  <2>1. CASE Stores(p, f)
    <3>1. PICK i \in DOMAIN p : p[i].op = "store" /\ p[i].field = f
      BY <2>1 DEF Stores
    <3> QED
      BY <1>1, <3>1 DEF Stores
  <2>2. CASE Stores(q, f)
    <3>1. PICK i \in DOMAIN q : q[i].op = "store" /\ q[i].field = f
      BY <2>2 DEF Stores
    <3> QED
      BY <1>1, <3>1 DEF Stores
  <2> QED
    BY <1>4, <2>1, <2>2
<1> QED
  BY <1>1, <1>3, <1>4 DEF r

LEMMA FiltersJoin ==
  ASSUME NEW p \in Seq(StepSet), NEW q \in Seq(StepSet), NEW A
  PROVE  /\ NoStart(p) /\ NoStart(q) => NoStart(p \o q)
         /\ AlarmsAmong(p, A) /\ AlarmsAmong(q, A) => AlarmsAmong(p \o q, A)
         /\ SetsAlarm(q) => SetsAlarm(p \o q)
<1>1. /\ \A i \in DOMAIN q : i + Len(p) \in DOMAIN (p \o q) /\ (p \o q)[i + Len(p)] = q[i]
      /\ \A i \in DOMAIN (p \o q) :
           \/ i \in DOMAIN p /\ (p \o q)[i] = p[i]
           \/ i - Len(p) \in DOMAIN q /\ (p \o q)[i] = q[i - Len(p)]
  BY Joined
<1>2. NoStart(p) /\ NoStart(q) => NoStart(p \o q)
  BY <1>1 DEF NoStart
<1>3. AlarmsAmong(p, A) /\ AlarmsAmong(q, A) => AlarmsAmong(p \o q, A)
  BY <1>1 DEF AlarmsAmong
<1>4. SetsAlarm(q) => SetsAlarm(p \o q)
  BY <1>1 DEF SetsAlarm
<1> QED
  BY <1>2, <1>3, <1>4

(* Two or more pieces of steps, each with its stores in order. *)
Right(q, s, m, a) == q \in Seq(StepSet) /\ StoresRight(q, s, m, a)

LEMMA OneStep ==
  ASSUME NEW e \in PublishSet \union AnswerSet, NEW s, NEW m, NEW a
  PROVE  /\ Right(<<e>>, s, m, a)
         /\ (e.op = "publish" => e.field # "ScanStarted") => NoStart(<<e>>)
         /\ \A A : (e.op = "publish" => e.field # "AlarmSet") => AlarmsAmong(<<e>>, A)
<1>1. <<e>> \in Seq(StepSet) /\ DOMAIN <<e>> = {1} /\ <<e>>[1] = e /\ e.op # "store"
  BY DEF StepSet, PublishSet, AnswerSet
<1> QED
  BY <1>1 DEF Right, StoresRight, NoStart, AlarmsAmong

LEMMA NoSteps ==
  ASSUME NEW s, NEW m, NEW a, NEW A
  PROVE  Right(<<>>, s, m, a) /\ NoStart(<<>>) /\ AlarmsAmong(<<>>, A)
  BY DEF Right, StoresRight, NoStart, AlarmsAmong

(* A store and the event that follows it. *)
LEMMA StoreThenEvent ==
  ASSUME NEW f \in LiveFields, NEW v \in Values, NEW e \in ChangeEvents, NEW w \in Values,
         NEW s, NEW m, NEW a,
         f = "state" => v = s, f = "mode" => v = m, f = "alarm" => v = a
  PROVE  LET q == <<Store(f, v), Publish(e, w)>>
         IN  /\ Right(q, s, m, a) /\ Stores(q, f) /\ NoStart(q)
             /\ \A A : (e = "AlarmSet" => w \in A) => AlarmsAmong(q, A)
             /\ e = "AlarmSet" => SetsAlarm(q)
<1> DEFINE q == <<Store(f, v), Publish(e, w)>>
<1>1. /\ Store(f, v) \in StepSet /\ Publish(e, w) \in StepSet /\ Refreshes(Publish(e, w))
      /\ Store(f, v).op = "store" /\ Store(f, v).field = f /\ Store(f, v).value = v
      /\ Publish(e, w).op = "publish" /\ Publish(e, w).field = e /\ Publish(e, w).value = w
      /\ e # "ScanStarted"
  BY DEF Store, Publish, StepSet, StoreSet, PublishSet, ChangeEvents, Events, Refreshes
<1>2. /\ q \in Seq(StepSet) /\ DOMAIN q = {1, 2}
      /\ q[1] = Store(f, v) /\ q[2] = Publish(e, w)
  BY <1>1
<1> HIDE DEF q
<1>3. Right(q, s, m, a)
  BY <1>1, <1>2 DEF Right, StoresRight
<1>4. Stores(q, f) /\ NoStart(q)
  BY <1>1, <1>2 DEF Stores, NoStart
<1>5. ASSUME NEW A, e = "AlarmSet" => w \in A PROVE AlarmsAmong(q, A)
  BY <1>1, <1>2, <1>5 DEF AlarmsAmong
<1>6. e = "AlarmSet" => SetsAlarm(q)
  BY <1>1, <1>2 DEF SetsAlarm
<1> QED
  BY <1>3, <1>4, <1>5, <1>6 DEF q

LEMMA RightJoin ==
  ASSUME NEW p, NEW q, NEW s, NEW m, NEW a, Right(p, s, m, a), Right(q, s, m, a)
  PROVE  /\ Right(p \o q, s, m, a)
         /\ \A f \in LiveFields : Stores(p, f) \/ Stores(q, f) => Stores(p \o q, f)
         /\ NoStart(p) /\ NoStart(q) => NoStart(p \o q)
         /\ \A A : AlarmsAmong(p, A) /\ AlarmsAmong(q, A) => AlarmsAmong(p \o q, A)
         /\ SetsAlarm(q) => SetsAlarm(p \o q)
  BY StepsJoin, FiltersJoin DEF Right

LEMMA TransitionStepsRight ==
  ASSUME state' \in ProcessStates, NEW m, NEW a, NEW A
  PROVE  /\ Right(TransitionSteps, state', m, a) /\ NoStart(TransitionSteps)
         /\ AlarmsAmong(TransitionSteps, A)
         /\ state' # state => Stores(TransitionSteps, "state")
<1>1. CASE state' = state
  BY <1>1, NoSteps DEF TransitionSteps
<1>2. CASE state' # state
  <2>1. TransitionSteps = <<Store("state", state'), Publish("StateChanged", 0)>>
    BY <1>2 DEF TransitionSteps
  <2>2. /\ "state" \in LiveFields /\ state' \in Values /\ "StateChanged" \in ChangeEvents /\ 0 \in Values
        /\ "state" # "mode" /\ "state" # "alarm" /\ "StateChanged" # "AlarmSet"
    BY DEF LiveFields, Values, ChangeEvents
  <2> QED
    BY <2>1, <2>2, StoreThenEvent
<1> QED
  BY <1>1, <1>2

LEMMA ModeStepsRight ==
  ASSUME NEW mode \in ControlModes, NEW s, NEW a, NEW A
  PROVE  /\ Right(ModeSteps(mode), s, mode, a) /\ NoStart(ModeSteps(mode))
         /\ AlarmsAmong(ModeSteps(mode), A) /\ Stores(ModeSteps(mode), "mode")
<1>1. /\ "mode" \in LiveFields /\ mode \in Values /\ "ControlStateChanged" \in ChangeEvents
      /\ 0 \in Values /\ "mode" # "state" /\ "mode" # "alarm" /\ "ControlStateChanged" # "AlarmSet"
  BY DEF LiveFields, Values, ChangeEvents
<1> QED
  BY <1>1, StoreThenEvent DEF ModeSteps

LEMMA FaultStepsRight ==
  ASSUME NEW id \in AlarmIds, NEW s, NEW m, state' # state
  PROVE  /\ Right(FaultSteps(id), s, m, TRUE) /\ NoStart(FaultSteps(id))
         /\ \A A : id \in A => AlarmsAmong(FaultSteps(id), A)
         /\ Stores(FaultSteps(id), "alarm") /\ SetsAlarm(FaultSteps(id))
<1>1. /\ "alarm" \in LiveFields /\ TRUE \in Values /\ "AlarmSet" \in ChangeEvents
      /\ id \in Values /\ "alarm" # "state" /\ "alarm" # "mode"
  BY DEF LiveFields, Values, ChangeEvents
<1>2. FaultSteps(id) = <<Store("alarm", TRUE), Publish("AlarmSet", id)>>
  BY Zenon DEF FaultSteps
<1> QED
  BY <1>1, <1>2, StoreThenEvent, Zenon

(* The alarm flag is cleared first, and one event or more follow: there is an
   alarm to clear. *)
LEMMA ClearStepsRight ==
  ASSUME Cardinality(active_alarms) \in Nat \ {0}, NEW s, NEW m, NEW A, state' # state
  PROVE  /\ Right(ClearSteps, s, m, FALSE) /\ NoStart(ClearSteps)
         /\ AlarmsAmong(ClearSteps, A) /\ Stores(ClearSteps, "alarm")
<1> DEFINE n == Cardinality(active_alarms)
           st == Store("alarm", FALSE)
           e == Publish("AlarmCleared", 0)
           events == [i \in 1..n |-> e]
           all == <<st>> \o events
<1>1. ClearSteps = all
  BY DEF ClearSteps
<1>2. /\ st \in StepSet /\ st.op = "store"
      /\ st.field = "alarm" /\ st.value = FALSE
      /\ e \in StepSet /\ e.op = "publish" /\ e.field = "AlarmCleared" /\ Refreshes(e)
  BY DEF Store, Publish, StepSet, StoreSet, PublishSet, LiveFields, Values, ChangeEvents, Events,
         Refreshes
<1>3. n \in Nat /\ n > 0
  OBVIOUS
<1> HIDE DEF n, e, st
<1>4. events \in Seq(StepSet) /\ Len(events) = n /\ \A i \in 1..n : events[i] = e
  BY <1>2, <1>3
<1>5. <<st>> \in Seq(StepSet) /\ Len(<<st>>) = 1
  BY <1>2
<1> HIDE DEF events
<1>6. /\ all \in Seq(StepSet) /\ DOMAIN all = 1..(1 + n) /\ all[1] = st
      /\ \A i \in DOMAIN all : i # 1 => all[i] = e
  BY <1>3, <1>4, <1>5
<1> HIDE DEF all
<1>7. 2 \in DOMAIN all /\ all[2] = e /\ 1 \in DOMAIN all
  BY <1>3, <1>6
<1>8. StoresRight(all, s, m, FALSE)
  <2> SUFFICES ASSUME NEW i \in DOMAIN all, all[i].op = "store"
               PROVE  /\ all[i].field = "state" => all[i].value = s
                      /\ all[i].field = "mode" => all[i].value = m
                      /\ all[i].field = "alarm" => all[i].value = FALSE
                      /\ \E j \in DOMAIN all : j > i /\ Refreshes(all[j])
    BY Zenon DEF StoresRight
  <2>1. i = 1
    BY <1>2, <1>6
  <2>2. 2 > i
    BY <2>1
  <2>3. all[i] = st
    BY <1>6, <2>1
  <2> QED
    BY <1>2, <1>7, <2>2, <2>3
<1>9. NoStart(all) /\ AlarmsAmong(all, A) /\ Stores(all, "alarm")
  BY <1>2, <1>6, <1>7 DEF NoStart, AlarmsAmong, Stores
<1> QED
  BY <1>1, <1>6, <1>8, <1>9, Zenon DEF Right

-----------------------------------------------------------------------------
INSTANCE FiniteSetTheorems

(* A piece of work of the controller: its state changes, and its steps are laid out. *)

Works ==
  /\ state' \in ProcessStates /\ control_mode' \in ControlModes
  /\ has_active_alarm' = (state' = "Alarm")
  /\ steps = <<>> /\ Right(steps', state', control_mode', has_active_alarm')
  /\ state' # state => Stores(steps', "state")
  /\ control_mode' # control_mode => Stores(steps', "mode")
  /\ has_active_alarm' # has_active_alarm => Stores(steps', "alarm")
  /\ stalled' = stalled /\ (stalled => state' \in {"Scanning", "Stopping"})
  /\ state' = "Alarm" => AlarmsAmong(steps', active_alarms')

(* What the triggers that the panel's machine uses do to the state. *)
LEMMA Triggers ==
  ASSUME state \in ProcessStates
  PROVE  /\ \A w : Takes("Start", StartGuards("Ui", w)) => state = "Idle"
         /\ \A w : Transition("Start", StartGuards("Ui", w)) =>
              state' = IF Takes("Start", StartGuards("Ui", w)) THEN "Scanning" ELSE state
         /\ Transition("Stop", DefaultGuards) => state' = state
         /\ Takes("Abort", DefaultGuards) <=> state \in {"Scanning", "Processing"}
         /\ Transition("Abort", DefaultGuards) =>
              state' = IF state \in {"Scanning", "Processing"} THEN "Stopping" ELSE state
         /\ Takes("ClearAlarm", DefaultGuards) <=> state = "Alarm"
         /\ Transition("ClearAlarm", DefaultGuards) =>
              state' = IF state = "Alarm" THEN "Idle" ELSE state
         /\ Transition("LinesComplete", DefaultGuards) =>
              state' = IF state = "Scanning" THEN "Processing" ELSE state
         /\ Takes("Fault", DefaultGuards) <=> state \in {"Scanning", "Processing"}
         /\ Transition("Fault", DefaultGuards) =>
              state' = IF state \in {"Scanning", "Processing"} THEN "Alarm" ELSE state
         /\ Transition("ResultReady", ResultGuards(FALSE)) =>
              state' = IF state = "Processing" THEN "Idle" ELSE state
         /\ Transition("StageStopped", DefaultGuards) =>
              state' = IF state = "Stopping" THEN "Idle" ELSE state
<1> DEFINE plain == {"Stop", "Abort", "LinesComplete", "Fault", "StageStopped", "ClearAlarm"}
<1>1. ASSUME NEW t \in plain
      PROVE  Verdict(state, t, DefaultGuards) = Accepted <=> t \in LegalTriggers(state)
  BY DEF Verdict, Accepted, DefaultGuards
<1>2. \A t \in plain : /\ Takes(t, DefaultGuards) <=> t \in LegalTriggers(state)
                       /\ Transition(t, DefaultGuards) =>
                            state' = IF t \in LegalTriggers(state)
                                     THEN Target(state, stop_after_wafer, t, DefaultGuards)
                                     ELSE state
  BY <1>1 DEF Takes, Transition, Apply
<1>3. /\ "Abort" \in LegalTriggers(state) <=> state \in {"Scanning", "Processing"}
      /\ "Fault" \in LegalTriggers(state) <=> state \in {"Scanning", "Processing"}
      /\ "StageStopped" \in LegalTriggers(state) <=> state = "Stopping"
      /\ "LinesComplete" \in LegalTriggers(state) <=> state = "Scanning"
      /\ "ClearAlarm" \in LegalTriggers(state) <=> state = "Alarm"
      /\ "ResultReady" \in LegalTriggers(state) <=> state = "Processing"
      /\ "Start" \in LegalTriggers(state) <=> state = "Idle"
  BY DEF LegalTriggers, ProcessStates
<1>4. /\ Takes("Abort", DefaultGuards) <=> state \in {"Scanning", "Processing"}
      /\ Takes("ClearAlarm", DefaultGuards) <=> state = "Alarm"
      /\ Takes("Fault", DefaultGuards) <=> state \in {"Scanning", "Processing"}
  BY <1>2, <1>3
<1>5. /\ Transition("Stop", DefaultGuards) => state' = state
      /\ Transition("Abort", DefaultGuards) =>
           state' = IF state \in {"Scanning", "Processing"} THEN "Stopping" ELSE state
      /\ Transition("ClearAlarm", DefaultGuards) =>
           state' = IF state = "Alarm" THEN "Idle" ELSE state
  BY <1>2, <1>3 DEF Target
<1>6. /\ Transition("LinesComplete", DefaultGuards) =>
           state' = IF state = "Scanning" THEN "Processing" ELSE state
      /\ Transition("Fault", DefaultGuards) =>
           state' = IF state \in {"Scanning", "Processing"} THEN "Alarm" ELSE state
      /\ Transition("StageStopped", DefaultGuards) =>
           state' = IF state = "Stopping" THEN "Idle" ELSE state
  BY <1>2, <1>3 DEF Target
<1>7. Transition("ResultReady", ResultGuards(FALSE)) =>
        state' = IF state = "Processing" THEN "Idle" ELSE state
  <2>1. Verdict(state, "ResultReady", ResultGuards(FALSE)) = Accepted <=> state = "Processing"
    BY <1>3 DEF Verdict, Accepted
  <2>2. ResultGuards(FALSE).more_wafers_pending = FALSE
    BY DEF ResultGuards, DefaultGuards
  <2> QED
    BY <2>1, <2>2, Zenon DEF Transition, Apply, Target
<1>8. ASSUME NEW w, NEW g, g = StartGuards("Ui", w)
      PROVE  /\ Takes("Start", g) => state = "Idle"
             /\ Transition("Start", g) =>
                  state' = IF Takes("Start", g) THEN "Scanning" ELSE state
  <2>1. Verdict(state, "Start", g) = Accepted => state = "Idle"
    BY <1>3 DEF Verdict, Accepted
  <2> QED
    BY <2>1 DEF Takes, Transition, Apply, Target
<1>9. \A w : /\ Takes("Start", StartGuards("Ui", w)) => state = "Idle"
             /\ Transition("Start", StartGuards("Ui", w)) =>
                  state' = IF Takes("Start", StartGuards("Ui", w)) THEN "Scanning" ELSE state
  BY <1>8
<1> QED
  BY <1>4, <1>5, <1>6, <1>7, <1>9, Zenon

LEMMA AlarmsCounted ==
  ASSUME IsFiniteSet(active_alarms), active_alarms # {}
  PROVE  Cardinality(active_alarms) \in Nat \ {0}
  BY FS_CardinalityType, FS_EmptySet

LEMMA AnswerLast ==
  ASSUME NEW id \in Nat, NEW p, NEW s, NEW m, NEW a, Right(p, s, m, a)
  PROVE  LET q == p \o <<Answer(id)>>
         IN  /\ Right(q, s, m, a)
             /\ \A f \in LiveFields : Stores(p, f) => Stores(q, f)
             /\ NoStart(p) => NoStart(q)
             /\ \A A : AlarmsAmong(p, A) => AlarmsAmong(q, A)
<1>1. Answer(id) \in AnswerSet /\ Answer(id).op # "publish"
  BY DEF Answer, AnswerSet, Values
<1>2. /\ Right(<<Answer(id)>>, s, m, a) /\ NoStart(<<Answer(id)>>)
      /\ \A A : AlarmsAmong(<<Answer(id)>>, A)
  BY <1>1, OneStep, Zenon
<1> QED
  BY <1>2, RightJoin, Zenon

(* One command on the controller thread. *)
LEMMA CallWorks ==
  ASSUME MachineTypes, AlarmInv, CommandInv, NEW c \in calls, HandleCall(c)
  PROVE  /\ Works /\ current_wafer_id' \in Nat
         /\ state' = "Alarm" => state = "Alarm" /\ active_alarms' = active_alarms
         /\ active_alarms' \in {active_alarms, {}}
         /\ completed' = NoWafer \/ (completed' = completed /\ NoStart(steps'))
<1>1. /\ state \in ProcessStates /\ control_mode \in ControlModes /\ current_wafer_id \in Nat
      /\ has_active_alarm = (state = "Alarm") /\ steps = <<>>
      /\ stalled' = stalled /\ (stalled => state \in {"Scanning", "Stopping"})
      /\ c.id \in Nat /\ c.wafer \in Nat
      /\ "state" \in LiveFields /\ "mode" \in LiveFields /\ "alarm" \in LiveFields
  BY DEF HandleCall, MachineTypes, AlarmInv, CommandInv, CallSet, WindowTypes, LiveFields
<1>2. CASE c.command = "Start" /\ HandleStart("Ui", c.wafer)
           /\ steps' = TransitionSteps \o StartSteps \o <<Answer(c.id)>>
  <2>1. /\ UNCHANGED <<control_mode, has_active_alarm, active_alarms>>
        /\ state' = state \/ (state = "Idle" /\ state' = "Scanning")
        /\ state' # state => completed' = NoWafer
        /\ state' = state => completed' = completed
        /\ current_wafer_id' \in Nat /\ state' \in ProcessStates
    BY <1>1, <1>2, Triggers, Zenon DEF HandleStart, HandleCall, ProcessStates
  <2>2. /\ Right(TransitionSteps, state', control_mode', has_active_alarm')
        /\ NoStart(TransitionSteps) /\ AlarmsAmong(TransitionSteps, active_alarms')
        /\ state' # state => Stores(TransitionSteps, "state")
    BY <2>1, TransitionStepsRight, Zenon
  <2>3. /\ Right(StartSteps, state', control_mode', has_active_alarm')
        /\ state' = state => NoStart(StartSteps)
        /\ AlarmsAmong(StartSteps, active_alarms')
    <3>1. CASE state' = state
      BY <3>1, NoSteps, Zenon DEF StartSteps
    <3>2. CASE state' # state
      <4>1. Publish("ScanStarted", current_wafer_id') \in PublishSet
        BY <2>1 DEF Publish, PublishSet, Events, Values
      <4>2. Publish("ScanStarted", current_wafer_id').field # "AlarmSet"
        BY DEF Publish
      <4> QED
        BY <3>2, <4>1, <4>2, OneStep, Zenon DEF StartSteps
    <3> QED
      BY <3>1, <3>2
  <2>4. /\ Right(TransitionSteps \o StartSteps, state', control_mode', has_active_alarm')
        /\ state' = state => NoStart(TransitionSteps \o StartSteps)
        /\ AlarmsAmong(TransitionSteps \o StartSteps, active_alarms')
        /\ state' # state => Stores(TransitionSteps \o StartSteps, "state")
    BY <1>1, <2>2, <2>3, RightJoin, Zenon
  <2>5. /\ Right(steps', state', control_mode', has_active_alarm')
        /\ state' = state => NoStart(steps')
        /\ AlarmsAmong(steps', active_alarms')
        /\ state' # state => Stores(steps', "state")
    BY <1>1, <1>2, <2>4, AnswerLast, Zenon
  <2>6. /\ has_active_alarm' = (state' = "Alarm")
        /\ stalled => state' \in {"Scanning", "Stopping"}
    BY <1>1, <2>1
  <2> QED
    BY <1>1, <2>1, <2>5, <2>6, Zenon DEF Works
<1>3. CASE /\ \/ c.command = "Stop" /\ HandleStop("Ui")
              \/ c.command = "Abort" /\ HandleAbort("Ui")
           /\ steps' = TransitionSteps \o <<Answer(c.id)>>
  <2>1. /\ UNCHANGED <<control_mode, has_active_alarm, active_alarms, current_wafer_id>>
        /\ state' = state \/ (state \in {"Scanning", "Processing"} /\ state' = "Stopping")
        /\ completed' = completed /\ state' \in ProcessStates
    BY <1>1, <1>3, Triggers, Zenon
       DEF HandleStop, HandleAbort, HandleCall, ProcessStates, control_allows_host_command
  <2>2. /\ Right(TransitionSteps, state', control_mode', has_active_alarm')
        /\ NoStart(TransitionSteps) /\ AlarmsAmong(TransitionSteps, active_alarms')
        /\ state' # state => Stores(TransitionSteps, "state")
    BY <2>1, TransitionStepsRight
  <2>3. /\ Right(steps', state', control_mode', has_active_alarm')
        /\ NoStart(steps') /\ AlarmsAmong(steps', active_alarms')
        /\ state' # state => Stores(steps', "state")
    BY <1>1, <1>3, <2>2, AnswerLast, Zenon
  <2>4. /\ has_active_alarm' = (state' = "Alarm")
        /\ stalled => state' \in {"Scanning", "Stopping"}
    BY <1>1, <2>1
  <2> QED
    BY <1>1, <2>1, <2>3, <2>4, Zenon DEF Works
<1>4. CASE c.command = "ClearAlarm" /\ HandleClearAlarm("Ui")
           /\ steps' = TransitionSteps \o ClearSteps \o <<Answer(c.id)>>
  <2>1. /\ UNCHANGED <<control_mode, current_wafer_id>> /\ completed' = completed
        /\ state' = IF state = "Alarm" THEN "Idle" ELSE state
        /\ IF state = "Alarm" THEN has_active_alarm' = FALSE /\ active_alarms' = {}
           ELSE UNCHANGED <<has_active_alarm, active_alarms>>
        /\ state' \in ProcessStates
    BY <1>1, <1>4, Triggers, Zenon
       DEF HandleClearAlarm, HandleCall, ProcessStates, control_allows_host_command
  <2>2. /\ Right(TransitionSteps, state', control_mode', has_active_alarm')
        /\ NoStart(TransitionSteps) /\ AlarmsAmong(TransitionSteps, active_alarms')
        /\ state' # state => Stores(TransitionSteps, "state")
    BY <2>1, TransitionStepsRight
  <2>3. /\ Right(ClearSteps, state', control_mode', has_active_alarm')
        /\ NoStart(ClearSteps) /\ AlarmsAmong(ClearSteps, active_alarms')
        /\ state' # state => Stores(ClearSteps, "alarm")
    <3>1. CASE state' = state
      BY <3>1, NoSteps DEF ClearSteps
    <3>2. CASE state' # state
      <4>1. state = "Alarm" /\ has_active_alarm' = FALSE
        BY <2>1, <3>2, Zenon
      <4>2. Cardinality(active_alarms) \in Nat \ {0}
        BY <4>1, AlarmsCounted DEF AlarmInv
      <4> QED
        BY <3>2, <4>1, <4>2, ClearStepsRight, Zenon
    <3> QED
      BY <3>1, <3>2, Zenon
  <2>4. LET q == TransitionSteps \o ClearSteps
        IN  /\ Right(q, state', control_mode', has_active_alarm')
            /\ NoStart(q) /\ AlarmsAmong(q, active_alarms')
            /\ state' # state => Stores(q, "state") /\ Stores(q, "alarm")
    BY <1>1, <2>2, <2>3, RightJoin, Zenon
  <2>5. /\ Right(steps', state', control_mode', has_active_alarm')
        /\ NoStart(steps') /\ AlarmsAmong(steps', active_alarms')
        /\ state' # state => Stores(steps', "state") /\ Stores(steps', "alarm")
    BY <1>1, <1>4, <2>4, AnswerLast, Zenon
  <2>6. /\ has_active_alarm' = (state' = "Alarm")
        /\ stalled => state' \in {"Scanning", "Stopping"}
        /\ has_active_alarm' # has_active_alarm => state' # state
    BY <1>1, <2>1, Zenon
  <2> QED
    BY <1>1, <2>1, <2>5, <2>6, Zenon DEF Works
<1>5. CASE c.command \in ControlModes /\ HandleSetControlMode("Ui", c.command)
           /\ steps' = ModeSteps(c.command) \o <<Answer(c.id)>>
  <2>1. /\ UNCHANGED <<state, has_active_alarm, active_alarms, current_wafer_id>>
        /\ control_mode' = c.command /\ completed' = completed
    BY <1>1, <1>5, Zenon DEF HandleSetControlMode, HandleCall, control_allows_set_mode, ControlModes
  <2>2. /\ Right(ModeSteps(c.command), state', control_mode', has_active_alarm')
        /\ NoStart(ModeSteps(c.command)) /\ AlarmsAmong(ModeSteps(c.command), active_alarms')
        /\ Stores(ModeSteps(c.command), "mode")
    BY <1>5, <2>1, ModeStepsRight, Zenon
  <2>3. /\ Right(steps', state', control_mode', has_active_alarm')
        /\ NoStart(steps') /\ AlarmsAmong(steps', active_alarms')
        /\ Stores(steps', "mode")
    BY <1>1, <1>5, <2>2, AnswerLast, Zenon
  <2> QED
    BY <1>1, <1>5, <2>1, <2>3, Zenon DEF Works
<1> QED
  BY <1>2, <1>3, <1>4, <1>5, Zenon DEF HandleCall

(* One report of the scan thread or the processing thread. *)
LEMMA ReportWorks ==
  ASSUME MachineTypes, AlarmInv, Reports
  PROVE  /\ Works /\ current_wafer_id' = current_wafer_id /\ NoStart(steps')
         /\ \/ active_alarms' = active_alarms /\ state' # "Alarm"
            \/ /\ state' = "Alarm" /\ SetsAlarm(steps')
               /\ \E id \in AlarmIds : active_alarms' = active_alarms \union {id}
         /\ \/ UNCHANGED <<unpublished, completed>>
            \/ completed' = current_wafer_id /\ unpublished' = ToPublish(completed')
<1>1. /\ state \in ProcessStates /\ control_mode \in ControlModes /\ current_wafer_id \in Nat
      /\ has_active_alarm = (state = "Alarm") /\ steps = <<>>
      /\ stalled' = stalled /\ (stalled => state \in {"Scanning", "Stopping"})
      /\ "state" \in LiveFields /\ "mode" \in LiveFields /\ "alarm" \in LiveFields
  BY DEF Reports, MachineTypes, AlarmInv, LiveFields
<1>2. ASSUME NEW id \in AlarmIds, Fails(id)
      PROVE  /\ Works /\ current_wafer_id' = current_wafer_id /\ NoStart(steps')
             /\ state' = "Alarm" /\ SetsAlarm(steps')
             /\ active_alarms' = active_alarms \union {id}
             /\ UNCHANGED <<unpublished, completed>>
  <2>1. /\ state = "Processing" /\ state' = "Alarm" /\ has_active_alarm' = TRUE
        /\ active_alarms' = active_alarms \union {id}
        /\ UNCHANGED <<control_mode, current_wafer_id, unpublished, completed>>
        /\ state' \in ProcessStates
        /\ steps' = TransitionSteps \o FaultSteps(id)
    BY <1>1, <1>2, Triggers, Zenon DEF Fails, ProcessingAlarm, RaiseAlarm, ProcessStates
  <2>2. /\ Right(TransitionSteps, state', control_mode', TRUE)
        /\ NoStart(TransitionSteps) /\ AlarmsAmong(TransitionSteps, active_alarms')
        /\ Stores(TransitionSteps, "state")
    BY <2>1, TransitionStepsRight, Zenon
  <2>3. /\ Right(FaultSteps(id), state', control_mode', TRUE)
        /\ NoStart(FaultSteps(id)) /\ AlarmsAmong(FaultSteps(id), active_alarms')
        /\ Stores(FaultSteps(id), "alarm") /\ SetsAlarm(FaultSteps(id))
    BY <2>1, FaultStepsRight, Zenon
  <2>4. /\ Right(steps', state', control_mode', TRUE)
        /\ NoStart(steps') /\ AlarmsAmong(steps', active_alarms')
        /\ Stores(steps', "state") /\ Stores(steps', "alarm") /\ SetsAlarm(steps')
    BY <1>1, <2>1, <2>2, <2>3, RightJoin, Zenon
  <2>5. has_active_alarm' = (state' = "Alarm") /\ ~ stalled
    BY <1>1, <2>1, Zenon
  <2>6. Right(steps', state', control_mode', has_active_alarm')
    BY <2>1, <2>4, Zenon
  <2> QED
    BY <1>1, <2>1, <2>4, <2>5, <2>6, Zenon DEF Works
<1>3. ASSUME NEW q, steps' = TransitionSteps \o q, q = <<>> \/ q = <<Publish("RunAborted", current_wafer_id)>>,
             UNCHANGED <<control_mode, has_active_alarm, current_wafer_id, active_alarms>>,
             state' \in ProcessStates, state # "Alarm", state' # "Alarm",
             stalled => state' \in {"Scanning", "Stopping"}
      PROVE  Works /\ NoStart(steps')
  <2>1. /\ Right(TransitionSteps, state', control_mode', has_active_alarm')
        /\ NoStart(TransitionSteps)
        /\ state' # state => Stores(TransitionSteps, "state")
    BY <1>3, TransitionStepsRight
  <2>2. Right(q, state', control_mode', has_active_alarm') /\ NoStart(q)
    <3>1. CASE q = <<>>
      BY <3>1, NoSteps
    <3>2. CASE q = <<Publish("RunAborted", current_wafer_id)>>
      <4>1. /\ Publish("RunAborted", current_wafer_id) \in PublishSet
            /\ Publish("RunAborted", current_wafer_id).field # "ScanStarted"
        BY <1>1, Zenon DEF Publish, PublishSet, Events, Values
      <4> QED
        BY <3>2, <4>1, OneStep, Zenon
    <3> QED
      BY <1>3, <3>1, <3>2
  <2>3. /\ Right(steps', state', control_mode', has_active_alarm') /\ NoStart(steps')
        /\ state' # state => Stores(steps', "state")
    BY <1>1, <1>3, <2>1, <2>2, RightJoin, Zenon
  <2>4. has_active_alarm' = (state' = "Alarm")
    BY <1>1, <1>3
  <2> QED
    BY <1>1, <1>3, <2>3, <2>4, Zenon DEF Works
<1>4. TransitionSteps \o <<>> = TransitionSteps
  <2>1. TransitionSteps = <<>> \/ TransitionSteps = <<Store("state", state'), Publish("StateChanged", 0)>>
    BY DEF TransitionSteps
  <2> QED
    BY <2>1
<1>5. CASE state = "Scanning" /\ ~ stalled /\ ScanComplete
           /\ steps' = TransitionSteps /\ UNCHANGED <<unpublished, completed>>
  <2>1. state' = "Processing" /\ state' \in ProcessStates
    BY <1>1, <1>5, Triggers, Zenon DEF ScanComplete, ProcessStates
  <2>2. Works /\ NoStart(steps')
    BY <1>3, <1>4, <1>5, <2>1, Zenon DEF ScanComplete
  <2> QED
    BY <1>5, <2>1, <2>2, Zenon DEF ScanComplete
<1>6. CASE Completes
  <2>1. state' = "Idle" /\ state' \in ProcessStates /\ ~ stalled
    BY <1>1, <1>6, Triggers, Zenon DEF Completes, ProcessingResult, ProcessStates
  <2>2. Works /\ NoStart(steps')
    BY <1>3, <1>4, <1>6, <2>1, Zenon DEF Completes, ProcessingResult
  <2> QED
    BY <1>6, <2>1, <2>2, Zenon DEF Completes, ProcessingResult
<1>7. CASE /\ state = "Stopping" /\ ~stalled /\ unpublished = <<>> /\ StageStopped
           /\ steps' = TransitionSteps \o <<Publish("RunAborted", current_wafer_id)>>
           /\ UNCHANGED <<unpublished, completed>>
  <2>1. state' = "Idle" /\ state' \in ProcessStates
    BY <1>1, <1>7, Triggers, Zenon DEF StageStopped, ProcessStates
  <2>2. Works /\ NoStart(steps')
    BY <1>3, <1>7, <2>1, Zenon DEF StageStopped
  <2> QED
    BY <1>7, <2>1, <2>2, Zenon DEF StageStopped
<1> QED
  BY <1>2, <1>5, <1>6, <1>7, Zenon DEF Reports

-----------------------------------------------------------------------------
(* What a piece of work keeps. *)

LEMMA WorkKeepsLive ==
  ASSUME LiveInv, Works, live' = live
  PROVE  LiveInv'
<1>1. /\ live.state = state /\ live.mode = control_mode /\ live.alarm = has_active_alarm
  BY DEF LiveInv, Works, Stores
<1>2. StoresRight(steps', state', control_mode', has_active_alarm')
  BY DEF Works, Right
<1>3. /\ live'.state = state' \/ Stores(steps', "state")
      /\ live'.mode = control_mode' \/ Stores(steps', "mode")
      /\ live'.alarm = has_active_alarm' \/ Stores(steps', "alarm")
  BY <1>1 DEF Works
<1> QED
  BY <1>2, <1>3, Zenon DEF LiveInv

LEMMA WorkKeepsFresh ==
  ASSUME FreshInv, steps = <<>>, UNCHANGED <<posts, live, runtime_, gui, panel, banner, in_flight_>>
  PROVE  FreshInv'
<1>1. Due => Due'
  BY DEF Due, Holds, RefreshAhead
<1>2. ShowsLive' <=> ShowsLive
  BY DEF ShowsLive
<1> QED
  BY <1>1, <1>2, Zenon DEF FreshInv

LEMMA CallKeepsShown ==
  ASSUME ShownInv, CommandInv, NEW c \in calls, HandleCall(c)
  PROVE  ShownInv'
<1>1. /\ Works /\ current_wafer_id' \in Nat
      /\ state' = "Alarm" => state = "Alarm" /\ active_alarms' = active_alarms
      /\ active_alarms' \in {active_alarms, {}}
      /\ completed' = NoWafer \/ (completed' = completed /\ NoStart(steps'))
  BY CallWorks DEF ShownInv
<1>2. UNCHANGED <<live, wafers_started, unpublished, runtime_, built, posts, clicks, windowVars>>
  BY Zenon DEF HandleCall
<1>3. MachineTypes' /\ WindowTypes'
  BY <1>1, <1>2, PanelAssumption DEF ShownInv, MachineTypes, WindowTypes, Works, Right, windowVars
<1>4. LiveInv'
  BY <1>1, <1>2, WorkKeepsLive, Zenon DEF ShownInv
<1>5. FreshInv'
  BY <1>1, <1>2, WorkKeepsFresh, Zenon DEF ShownInv, Works, windowVars
<1>6. AlarmInv'
  <2>1. IsFiniteSet(active_alarms') /\ active_alarms' \subseteq AlarmIds
    BY <1>1, FS_EmptySet, Zenon DEF ShownInv, AlarmInv
  <2>2. AlarmsRefresh(posts)'
    BY <1>2 DEF ShownInv, AlarmInv, AlarmsRefresh
  <2>3. ASSUME state' = "Alarm"
        PROVE  /\ active_alarms' # {}
               /\ \E a \in active_alarms' :
                    Ends(posts', {"alarmSet"}, Post("alarmSet", a), banner'.text = a)
    <3>1. active_alarms' = active_alarms /\ posts' = posts /\ banner' = banner /\ state = "Alarm"
      BY <1>1, <1>2, <2>3, Zenon DEF windowVars
    <3>2. ~ SetsAlarm(steps)
      BY <1>1 DEF Works, SetsAlarm
    <3> QED
      BY <3>1, <3>2, Zenon DEF ShownInv, AlarmInv
  <2> QED
    BY <1>1, <2>1, <2>2, <2>3, Zenon DEF AlarmInv, Works
<1>7. ResultInv'
  <2> SUFFICES ASSUME completed' # NoWafer PROVE ResultInv'
    BY DEF ResultInv
  <2>1. completed' = completed /\ NoStart(steps') /\ UNCHANGED <<posts, view, unpublished>>
    BY <1>1, <1>2 DEF windowVars
  <2> QED
    BY <2>1 DEF ShownInv, ResultInv, LabelsEnd, MapEnds
<1> QED
  BY <1>3, <1>4, <1>5, <1>6, <1>7, Zenon DEF ShownInv

LEMMA ReportKeepsShown ==
  ASSUME ShownInv, Reports
  PROVE  ShownInv'
<1>1. /\ Works /\ current_wafer_id' = current_wafer_id /\ NoStart(steps')
      /\ \/ active_alarms' = active_alarms /\ state' # "Alarm"
         \/ /\ state' = "Alarm" /\ SetsAlarm(steps')
            /\ \E id \in AlarmIds : active_alarms' = active_alarms \union {id}
      /\ \/ UNCHANGED <<unpublished, completed>>
         \/ completed' = current_wafer_id /\ unpublished' = ToPublish(completed')
  BY ReportWorks, Zenon DEF ShownInv
<1>2. UNCHANGED <<live, wafers_started, runtime_, built, posts, clicks, windowVars>>
  BY Zenon DEF Reports
<1>3. MachineTypes' /\ WindowTypes'
  <2>1. \A w \in Nat : ToPublish(w) \in Seq(ResultSet)
    <3> SUFFICES ASSUME NEW w \in Nat PROVE ToPublish(w) \in Seq(ResultSet)
      BY Zenon
    <3>1. Publish("WaferResultReady", w) \in ResultSet /\ Publish("WaferMapReady", w) \in ResultSet
      BY DEF Publish, ResultSet, ResultEvents, Values
    <3> QED
      BY <3>1 DEF ToPublish
  <2>2. completed' \in Nat /\ unpublished' \in Seq(ResultSet)
    BY <1>1, <2>1, Zenon DEF ShownInv, MachineTypes
  <2> QED
    BY <1>1, <1>2, <2>2, Zenon DEF ShownInv, MachineTypes, WindowTypes, Works, Right, windowVars
<1>4. LiveInv'
  BY <1>1, <1>2, WorkKeepsLive, Zenon DEF ShownInv
<1>5. FreshInv'
  BY <1>1, <1>2, WorkKeepsFresh, Zenon DEF ShownInv, Works, windowVars
<1>6. AlarmInv'
  <2>1. IsFiniteSet(active_alarms') /\ active_alarms' \subseteq AlarmIds
    BY <1>1, FS_AddElement DEF ShownInv, AlarmInv
  <2>2. AlarmsRefresh(posts)'
    BY <1>2 DEF ShownInv, AlarmInv, AlarmsRefresh
  <2>3. ASSUME state' = "Alarm"
        PROVE  active_alarms' # {} /\ SetsAlarm(steps')
    BY <1>1, <2>3, Zenon
  <2> QED
    BY <1>1, <2>1, <2>2, <2>3, Zenon DEF AlarmInv, Works
<1>7. ResultInv'
  BY <1>1, <1>2, Zenon DEF ShownInv, ResultInv, LabelsEnd, MapEnds, windowVars
<1> QED
  BY <1>3, <1>4, <1>5, <1>6, <1>7, Zenon DEF ShownInv

-----------------------------------------------------------------------------
(* The queue of the GUI thread. *)

LEMMA PostsJoin ==
  ASSUME NEW q \in Seq(PostSet), NEW r \in Seq(PostSet)
  PROVE  /\ q \o r \in Seq(PostSet)
         /\ \A K : Holds(q \o r, K) <=> Holds(q, K) \/ Holds(r, K)
         /\ AlarmsRefresh(q) /\ AlarmsRefresh(r) => AlarmsRefresh(q \o r)
         /\ \A K, p, shown : /\ LastOf(r, K, p) => Ends(q \o r, K, p, shown)
                             /\ Ends(q, K, p, shown) /\ ~ Holds(r, K) => Ends(q \o r, K, p, shown)
<1> DEFINE b == q \o r
<1>1. /\ b \in Seq(PostSet) /\ Len(q) \in Nat
      /\ \A i \in DOMAIN q : i \in Nat /\ i <= Len(q) /\ i \in DOMAIN b /\ b[i] = q[i]
      /\ \A i \in DOMAIN r : i \in Nat /\ i + Len(q) \in DOMAIN b /\ b[i + Len(q)] = r[i]
      /\ \A i \in DOMAIN b :
           \/ i \in DOMAIN q /\ b[i] = q[i] /\ i \in Nat
           \/ i - Len(q) \in DOMAIN r /\ b[i] = r[i - Len(q)] /\ i \in Nat
  BY Joined
<1> HIDE DEF b
<1>2. ASSUME NEW K PROVE Holds(b, K) <=> Holds(q, K) \/ Holds(r, K)
  BY <1>1, Zenon DEF Holds
<1>3. ASSUME AlarmsRefresh(q), AlarmsRefresh(r) PROVE AlarmsRefresh(b)
  <2> SUFFICES ASSUME NEW i \in DOMAIN b, b[i].kind = "alarmSet"
               PROVE  \E j \in DOMAIN b : j > i /\ b[j].kind = "machineChanged"
    BY DEF AlarmsRefresh
  <2>1. CASE i \in DOMAIN q /\ b[i] = q[i]
    <3>1. PICK j \in DOMAIN q : j > i /\ q[j].kind = "machineChanged"
      BY <1>3, <2>1, Zenon DEF AlarmsRefresh
    <3> QED
      BY <1>1, <3>1, Zenon
  <2>2. CASE i - Len(q) \in DOMAIN r /\ b[i] = r[i - Len(q)] /\ i \in Nat
    <3>1. PICK j \in DOMAIN r : j > i - Len(q) /\ r[j].kind = "machineChanged"
      BY <1>3, <2>2, Zenon DEF AlarmsRefresh
    <3>2. j + Len(q) > i /\ j + Len(q) \in DOMAIN b /\ b[j + Len(q)].kind = "machineChanged"
      BY <1>1, <2>2, <3>1
    <3> QED
      BY <3>2
  <2> QED
    BY <1>1, <2>1, <2>2, Zenon
<1>4. ASSUME NEW K, NEW p, LastOf(r, K, p) PROVE LastOf(b, K, p)
  <2>1. PICK i \in DOMAIN r : r[i] = p /\ \A j \in DOMAIN r : j > i => r[j].kind \notin K
    BY <1>4, Zenon DEF LastOf
  <2>2. i + Len(q) \in DOMAIN b /\ b[i + Len(q)] = p /\ i \in Nat /\ i > 0
    BY <1>1, <2>1
  <2>3. ASSUME NEW j \in DOMAIN b, j > i + Len(q) PROVE b[j].kind \notin K
    <3>1. j - Len(q) \in DOMAIN r /\ b[j] = r[j - Len(q)] /\ j - Len(q) > i
      BY <1>1, <2>2, <2>3
    <3> QED
      BY <2>1, <3>1, Zenon
  <2> QED
    BY <2>2, <2>3 DEF LastOf
<1>5. ASSUME NEW K, NEW p, LastOf(q, K, p), ~ Holds(r, K) PROVE LastOf(b, K, p)
  <2>1. PICK i \in DOMAIN q : q[i] = p /\ \A j \in DOMAIN q : j > i => q[j].kind \notin K
    BY <1>5, Zenon DEF LastOf
  <2>2. i \in DOMAIN b /\ b[i] = p
    BY <1>1, <2>1, Zenon
  <2>3. ASSUME NEW j \in DOMAIN b, j > i PROVE b[j].kind \notin K
    BY <1>1, <1>5, <2>1, <2>3, Zenon DEF Holds
  <2> QED
    BY <2>2, <2>3, Zenon DEF LastOf
<1>6. ASSUME NEW K, NEW p, NEW shown
      PROVE  /\ LastOf(r, K, p) => Ends(b, K, p, shown)
             /\ Ends(q, K, p, shown) /\ ~ Holds(r, K) => Ends(b, K, p, shown)
  BY <1>2, <1>4, <1>5, Zenon DEF Ends
<1> QED
  BY <1>1, <1>2, <1>3, <1>6, Zenon DEF b

LEMMA PostsRest ==
  ASSUME NEW q \in Seq(PostSet), q # <<>>
  PROVE  /\ Tail(q) \in Seq(PostSet) /\ Head(q) \in PostSet
         /\ \A K : Holds(q, K) <=> Holds(Tail(q), K) \/ Head(q).kind \in K
         /\ AlarmsRefresh(q) => /\ AlarmsRefresh(Tail(q))
                                /\ Head(q).kind = "alarmSet" => Holds(Tail(q), {"machineChanged"})
         /\ \A K, p : LastOf(q, K, p) => LastOf(Tail(q), K, p) \/ (Head(q) = p /\ ~ Holds(Tail(q), K))
<1> DEFINE t == Tail(q)
<1>1. /\ t \in Seq(PostSet) /\ Head(q) = q[1] /\ 1 \in DOMAIN q /\ Head(q) \in PostSet
      /\ \A i \in DOMAIN q : i \in Nat /\ i >= 1
      /\ \A i \in DOMAIN t : i \in Nat /\ i + 1 \in DOMAIN q /\ t[i] = q[i + 1]
      /\ \A i \in DOMAIN q : i # 1 => i - 1 \in DOMAIN t /\ t[i - 1] = q[i]
  BY Rest
<1> HIDE DEF t
<1>2. ASSUME NEW K PROVE Holds(q, K) <=> Holds(t, K) \/ Head(q).kind \in K
  BY <1>1, Zenon DEF Holds
<1>3. ASSUME AlarmsRefresh(q)
      PROVE  AlarmsRefresh(t) /\ (Head(q).kind = "alarmSet" => Holds(t, {"machineChanged"}))
  <2>1. ASSUME NEW i \in DOMAIN t, t[i].kind = "alarmSet"
        PROVE  \E j \in DOMAIN t : j > i /\ t[j].kind = "machineChanged"
    <3>1. PICK j \in DOMAIN q : j > i + 1 /\ q[j].kind = "machineChanged"
      BY <1>1, <1>3, <2>1, Zenon DEF AlarmsRefresh
    <3>2. j - 1 \in DOMAIN t /\ t[j - 1] = q[j] /\ j - 1 > i
      BY <1>1, <3>1
    <3> QED
      BY <3>1, <3>2, Zenon
  <2>2. ASSUME Head(q).kind = "alarmSet" PROVE Holds(t, {"machineChanged"})
    <3>1. PICK j \in DOMAIN q : j > 1 /\ q[j].kind = "machineChanged"
      BY <1>1, <1>3, <2>2, Zenon DEF AlarmsRefresh
    <3>2. j - 1 \in DOMAIN t /\ t[j - 1] = q[j]
      BY <1>1, <3>1
    <3> QED
      BY <3>1, <3>2, Zenon DEF Holds
  <2> QED
    BY <2>1, <2>2, Zenon DEF AlarmsRefresh
<1>4. ASSUME NEW K, NEW p, LastOf(q, K, p)
      PROVE  LastOf(t, K, p) \/ (Head(q) = p /\ ~ Holds(t, K))
  <2>1. PICK i \in DOMAIN q : q[i] = p /\ \A j \in DOMAIN q : j > i => q[j].kind \notin K
    BY <1>4, Zenon DEF LastOf
  <2>2. CASE i = 1
    <3>1. ASSUME NEW j \in DOMAIN t PROVE t[j].kind \notin K
      <4>1. j + 1 \in DOMAIN q /\ t[j] = q[j + 1] /\ j + 1 > i
        BY <1>1, <2>2
      <4> QED
        BY <2>1, <4>1, Zenon
    <3> QED
      BY <1>1, <2>1, <2>2, <3>1, Zenon DEF Holds
  <2>3. CASE i # 1
    <3>1. i - 1 \in DOMAIN t /\ t[i - 1] = p /\ i \in Nat
      BY <1>1, <2>1, <2>3, Zenon
    <3>2. ASSUME NEW j \in DOMAIN t, j > i - 1 PROVE t[j].kind \notin K
      <4>1. j + 1 \in DOMAIN q /\ t[j] = q[j + 1] /\ j + 1 > i
        BY <1>1, <3>1, <3>2
      <4> QED
        BY <2>1, <4>1, Zenon
    <3> QED
      BY <3>1, <3>2, Zenon DEF LastOf
  <2> QED
    BY <2>2, <2>3
<1> QED
  BY <1>1, <1>2, <1>3, <1>4, Zenon DEF t

(* What is shown in the end is the same after the first event has been handled. *)
LEMMA EndsRest ==
  ASSUME NEW q \in Seq(PostSet), q # <<>>, NEW K, NEW p, NEW before \in BOOLEAN, NEW after \in BOOLEAN,
         Ends(q, K, p, before), Head(q) = p => after, Head(q).kind \notin K /\ before => after
  PROVE  Ends(Tail(q), K, p, after)
  BY PostsRest, Zenon DEF Ends

LEMMA OnePost ==
  ASSUME NEW k \in PostKinds \ {"alarmSet"}, NEW v \in Values, NEW q,
         q = [i \in DOMAIN <<k>> |-> Post(<<k>>[i], v)]
  PROVE  /\ q \in Seq(PostSet) /\ AlarmsRefresh(q)
         /\ \A K : Holds(q, K) <=> k \in K
         /\ \A K : LastOf(q, K, Post(k, v))
<1>1. /\ DOMAIN q = {1} /\ q[1] = Post(k, v) /\ q = <<Post(k, v)>>
      /\ Post(k, v) \in PostSet /\ Post(k, v).kind = k
  BY DEF Post, PostSet
<1>2. q \in Seq(PostSet)
  BY <1>1
<1> QED
  BY <1>1, <1>2 DEF AlarmsRefresh, Holds, LastOf

LEMMA AlarmPosts ==
  ASSUME NEW v \in Values, NEW q, NEW ks, ks = <<"alarmSet", "machineChanged">>,
         q = [i \in DOMAIN ks |-> Post(ks[i], v)]
  PROVE  /\ q \in Seq(PostSet) /\ AlarmsRefresh(q)
         /\ \A K : Holds(q, K) <=> ("alarmSet" \in K \/ "machineChanged" \in K)
         /\ LastOf(q, {"alarmSet"}, Post("alarmSet", v))
<1>1. /\ DOMAIN ks = {1, 2} /\ ks[1] = "alarmSet" /\ ks[2] = "machineChanged"
  OBVIOUS
<1>2. /\ DOMAIN q = {1, 2} /\ q[1] = Post("alarmSet", v) /\ q[2] = Post("machineChanged", v)
      /\ Post("alarmSet", v) \in PostSet /\ Post("alarmSet", v).kind = "alarmSet"
      /\ Post("machineChanged", v) \in PostSet /\ Post("machineChanged", v).kind = "machineChanged"
  BY <1>1, Zenon DEF Post, PostSet, PostKinds
<1>3. q \in Seq(PostSet)
  <2>1. q = <<Post("alarmSet", v), Post("machineChanged", v)>>
    BY <1>1, <1>2
  <2> QED
    BY <1>2, <2>1
<1> QED
  BY <1>2, <1>3 DEF AlarmsRefresh, Holds, LastOf

(* What the bridge queues for each event. *)
LEMMA SignalsOf ==
  ASSUME NEW e \in PublishSet \union ResultSet
  PROVE  /\ Signals(e) \in Seq(PostSet) /\ AlarmsRefresh(Signals(e))
         /\ ~ Holds(Signals(e), {"finished"})
         /\ Holds(Signals(e), {"machineChanged"}) <=> e.field \in ChangeEvents
         /\ e.field # "AlarmSet" => ~ Holds(Signals(e), {"alarmSet"})
         /\ e.field \notin {"ScanStarted", "WaferResultReady"} =>
              ~ Holds(Signals(e), {"scanStarted", "resultReady"})
         /\ e.field \notin {"ScanStarted", "WaferMapReady"} =>
              ~ Holds(Signals(e), {"scanStarted", "mapReady"})
         /\ e.field = "AlarmSet" => LastOf(Signals(e), {"alarmSet"}, Post("alarmSet", e.value))
         /\ e.field = "WaferResultReady" =>
              LastOf(Signals(e), {"scanStarted", "resultReady"}, Post("resultReady", e.value))
         /\ e.field = "WaferMapReady" =>
              LastOf(Signals(e), {"scanStarted", "mapReady"}, Post("mapReady", e.value))
<1>1. e.value \in Values /\ e.field \in Events \union ResultEvents
  BY Zenon DEF PublishSet, ResultSet
<1>2. CASE e.field = "AlarmSet"
  <2>1. Emits[e.field] = <<"alarmSet", "machineChanged">>
    BY <1>2 DEF Emits
  <2>2. Signals(e) = [i \in DOMAIN <<"alarmSet", "machineChanged">> |->
                        Post(<<"alarmSet", "machineChanged">>[i], e.value)]
    BY <2>1, Zenon DEF Signals
  <2> QED
    BY <1>1, <1>2, <2>2, AlarmPosts, Zenon DEF ChangeEvents
<1>3. CASE e.field # "AlarmSet"
  <2>1. PICK k \in PostKinds \ {"alarmSet"} :
          /\ Emits[e.field] = <<k>>
          /\ k = "machineChanged" <=> e.field \in ChangeEvents
          /\ k = "scanStarted" <=> e.field = "ScanStarted"
          /\ k = "resultReady" <=> e.field = "WaferResultReady"
          /\ k = "mapReady" <=> e.field = "WaferMapReady"
          /\ k # "finished"
    <3>1. CASE e.field \in {"StateChanged", "ControlStateChanged", "AlarmCleared"}
      BY <3>1 DEF Emits, PostKinds, ChangeEvents
    <3>2. CASE e.field = "ScanStarted"
      BY <3>2 DEF Emits, PostKinds, ChangeEvents
    <3>3. CASE e.field = "RunAborted"
      BY <3>3 DEF Emits, PostKinds, ChangeEvents
    <3>4. CASE e.field = "WaferResultReady"
      BY <3>4 DEF Emits, PostKinds, ChangeEvents
    <3>5. CASE e.field = "WaferMapReady"
      BY <3>5 DEF Emits, PostKinds, ChangeEvents
    <3> QED
      BY <1>1, <1>3, <3>1, <3>2, <3>3, <3>4, <3>5, Zenon DEF Events, ResultEvents
  <2>2. Signals(e) = [i \in DOMAIN <<k>> |-> Post(<<k>>[i], e.value)]
    BY <2>1, Zenon DEF Signals
  <2>3. /\ Signals(e) \in Seq(PostSet) /\ AlarmsRefresh(Signals(e))
        /\ \A K : Holds(Signals(e), K) <=> k \in K
        /\ \A K : LastOf(Signals(e), K, Post(k, e.value))
    BY <1>1, <2>2, OnePost, Zenon
  <2> QED
    BY <1>3, <2>1, <2>3, Zenon
<1> QED
  BY <1>2, <1>3, Zenon

-----------------------------------------------------------------------------
(* The controller thread goes on. *)

LEMMA StepsRest ==
  ASSUME NEW q \in Seq(StepSet), q # <<>>, NEW s, NEW m, NEW a, StoresRight(q, s, m, a)
  PROVE  /\ Tail(q) \in Seq(StepSet) /\ Head(q) \in StepSet /\ StoresRight(Tail(q), s, m, a)
         /\ \A f \in LiveFields :
              Stores(q, f) => Stores(Tail(q), f) \/ (Head(q).op = "store" /\ Head(q).field = f)
         /\ Head(q).op = "store" => /\ Head(q).field = "state" => Head(q).value = s
                                    /\ Head(q).field = "mode" => Head(q).value = m
                                    /\ Head(q).field = "alarm" => Head(q).value = a
                                    /\ RefreshAhead(Tail(q))
         /\ RefreshAhead(q) => RefreshAhead(Tail(q)) \/ Refreshes(Head(q))
         /\ NoStart(q) => /\ NoStart(Tail(q))
                          /\ Head(q).op = "publish" => Head(q).field # "ScanStarted"
         /\ \A A : AlarmsAmong(q, A) =>
              /\ AlarmsAmong(Tail(q), A)
              /\ Head(q).op = "publish" /\ Head(q).field = "AlarmSet" => Head(q).value \in A
         /\ SetsAlarm(q) => SetsAlarm(Tail(q)) \/ (Head(q).op = "publish" /\ Head(q).field = "AlarmSet")
<1> DEFINE t == Tail(q)
<1>1. /\ t \in Seq(StepSet) /\ Head(q) = q[1] /\ 1 \in DOMAIN q /\ Head(q) \in StepSet
      /\ \A i \in DOMAIN q : i \in Nat /\ i >= 1
      /\ \A i \in DOMAIN t : i \in Nat /\ i + 1 \in DOMAIN q /\ t[i] = q[i + 1]
      /\ \A i \in DOMAIN q : i # 1 => i - 1 \in DOMAIN t /\ t[i - 1] = q[i]
  BY Rest, Zenon
<1> HIDE DEF t
<1>2. StoresRight(t, s, m, a)
  <2> SUFFICES ASSUME NEW i \in DOMAIN t, t[i].op = "store"
               PROVE  /\ t[i].field = "state" => t[i].value = s
                      /\ t[i].field = "mode" => t[i].value = m
                      /\ t[i].field = "alarm" => t[i].value = a
                      /\ \E j \in DOMAIN t : j > i /\ Refreshes(t[j])
    BY Zenon DEF StoresRight
  <2>1. i + 1 \in DOMAIN q /\ t[i] = q[i + 1] /\ i \in Nat
    BY <1>1, Zenon
  <2>2. PICK j \in DOMAIN q : j > i + 1 /\ Refreshes(q[j])
    BY <2>1, Zenon DEF StoresRight
  <2>3. j - 1 \in DOMAIN t /\ t[j - 1] = q[j] /\ j - 1 > i
    BY <1>1, <2>1, <2>2
  <2> QED
    BY <2>1, <2>2, <2>3, Zenon DEF StoresRight
<1>3. ASSUME NEW f \in LiveFields, Stores(q, f)
      PROVE  Stores(t, f) \/ (Head(q).op = "store" /\ Head(q).field = f)
  BY <1>1, <1>3 DEF Stores
<1>4. ASSUME Head(q).op = "store"
      PROVE  /\ Head(q).field = "state" => Head(q).value = s
             /\ Head(q).field = "mode" => Head(q).value = m
             /\ Head(q).field = "alarm" => Head(q).value = a
             /\ RefreshAhead(t)
  <2>1. PICK j \in DOMAIN q : j > 1 /\ Refreshes(q[j])
    BY <1>1, <1>4 DEF StoresRight
  <2>2. j - 1 \in DOMAIN t /\ t[j - 1] = q[j]
    BY <1>1, <2>1
  <2>3. RefreshAhead(t)
    BY <2>1, <2>2 DEF RefreshAhead
  <2> QED
    BY <1>1, <1>4, <2>3 DEF StoresRight
<1>5. RefreshAhead(q) => RefreshAhead(t) \/ Refreshes(Head(q))
  BY <1>1, Zenon DEF RefreshAhead
<1>6. NoStart(q) => NoStart(t) /\ (Head(q).op = "publish" => Head(q).field # "ScanStarted")
  BY <1>1 DEF NoStart
<1>7. ASSUME NEW A, AlarmsAmong(q, A)
      PROVE  /\ AlarmsAmong(t, A)
             /\ Head(q).op = "publish" /\ Head(q).field = "AlarmSet" => Head(q).value \in A
  BY <1>1, <1>7 DEF AlarmsAmong
<1>8. SetsAlarm(q) => SetsAlarm(t) \/ (Head(q).op = "publish" /\ Head(q).field = "AlarmSet")
  BY <1>1 DEF SetsAlarm
<1> QED
  BY <1>1, <1>2, <1>3, <1>4, <1>5, <1>6, <1>7, <1>8, Zenon DEF t

LEMMA StoreKeepsShown ==
  ASSUME ShownInv, ControllerSteps, Head(steps).op = "store"
  PROVE  ShownInv'
<1> DEFINE s == Head(steps)
<1>1. /\ steps # <<>> /\ steps' = Tail(steps)
      /\ live' = [live EXCEPT ![s.field] = s.value]
      /\ UNCHANGED <<posts, wafers_started>>
      /\ UNCHANGED <<controllerVars, unpublished, stalled, runtime_, built, completed, clicks, windowVars>>
  BY DEF ControllerSteps
<1>2. /\ steps' \in Seq(StepSet) /\ s \in StoreSet
      /\ StoresRight(steps', state, control_mode, has_active_alarm)
      /\ \A f \in LiveFields : Stores(steps, f) => Stores(steps', f) \/ s.field = f
      /\ s.field = "state" => s.value = state
      /\ s.field = "mode" => s.value = control_mode
      /\ s.field = "alarm" => s.value = has_active_alarm
      /\ RefreshAhead(steps')
      /\ NoStart(steps) => NoStart(steps')
      /\ AlarmsAmong(steps, active_alarms) => AlarmsAmong(steps', active_alarms)
      /\ SetsAlarm(steps) => SetsAlarm(steps')
  <2>1. /\ steps \in Seq(StepSet) /\ StoresRight(steps, state, control_mode, has_active_alarm)
    BY DEF ShownInv, MachineTypes, LiveInv
  <2>2. s \in StepSet
    BY <1>1, <2>1, StepsRest
  <2>3. s \in StoreSet
    BY <2>2, Zenon DEF StepSet, PublishSet, AnswerSet
  <2> QED
    BY <1>1, <2>1, <2>3, StepsRest
<1> HIDE DEF s
<1>3. /\ s.field \in LiveFields /\ live \in Snapshots
      /\ state \in ProcessStates /\ control_mode \in ControlModes /\ has_active_alarm \in BOOLEAN
  BY <1>2, Zenon DEF StoreSet, ShownInv, MachineTypes, AlarmInv
<1>4. /\ s.field = "state" => live'.state = state /\ live'.mode = live.mode /\ live'.alarm = live.alarm
      /\ s.field = "mode" => live'.mode = control_mode /\ live'.state = live.state /\ live'.alarm = live.alarm
      /\ s.field = "alarm" =>
           live'.alarm = has_active_alarm /\ live'.state = live.state /\ live'.mode = live.mode
      /\ live' \in Snapshots
  <2>1. CASE s.field = "state"
    BY <1>1, <1>2, <1>3, <2>1, Zenon DEF Snapshots
  <2>2. CASE s.field = "mode"
    BY <1>1, <1>2, <1>3, <2>2, Zenon DEF Snapshots
  <2>3. CASE s.field = "alarm"
    BY <1>1, <1>2, <1>3, <2>3, Zenon DEF Snapshots
  <2> QED
    BY <1>3, <2>1, <2>2, <2>3, Zenon DEF LiveFields
<1>5. MachineTypes' /\ WindowTypes'
  BY <1>1, <1>2, <1>4, Zenon DEF ShownInv, MachineTypes, WindowTypes, controllerVars, windowVars
<1>6. LiveInv'
  <2>1. UNCHANGED <<state, control_mode, has_active_alarm>>
    BY <1>1, Zenon DEF controllerVars
  <2>2. /\ live'.state = state \/ Stores(steps', "state")
        /\ live'.mode = control_mode \/ Stores(steps', "mode")
        /\ live'.alarm = has_active_alarm \/ Stores(steps', "alarm")
    BY <1>2, <1>3, <1>4, Zenon DEF ShownInv, LiveInv, LiveFields
  <2> QED
    BY <1>2, <2>1, <2>2, Zenon DEF LiveInv
<1>7. AlarmInv'
  BY <1>1, <1>2, Zenon DEF ShownInv, AlarmInv, controllerVars, windowVars
<1>8. FreshInv'
  <2>1. Due'
    BY <1>2, Zenon DEF Due
  <2> QED
    BY <1>1, <2>1, Zenon DEF ShownInv, FreshInv, windowVars
<1>9. ResultInv'
  BY <1>1, <1>2, Zenon DEF ShownInv, ResultInv, LabelsEnd, MapEnds, windowVars
<1> QED
  BY <1>5, <1>6, <1>7, <1>8, <1>9 DEF ShownInv

LEMMA PublishKeepsShown ==
  ASSUME ShownInv, ControllerSteps, Head(steps).op = "publish"
  PROVE  ShownInv'
<1> DEFINE s == Head(steps)
           r == Signals(s)
<1>1. /\ steps # <<>> /\ steps' = Tail(steps) /\ posts' = posts \o r
      /\ wafers_started' \in {wafers_started, wafers_started + 1}
      /\ UNCHANGED <<live, controllerVars, unpublished, stalled, runtime_, built, completed, clicks, windowVars>>
  BY Zenon DEF ControllerSteps
<1>2. /\ steps' \in Seq(StepSet) /\ s \in PublishSet
      /\ StoresRight(steps', state, control_mode, has_active_alarm)
      /\ \A f \in LiveFields : Stores(steps, f) => Stores(steps', f)
      /\ RefreshAhead(steps) => RefreshAhead(steps') \/ Refreshes(s)
      /\ NoStart(steps) => NoStart(steps') /\ s.field # "ScanStarted"
      /\ AlarmsAmong(steps, active_alarms) =>
           AlarmsAmong(steps', active_alarms) /\ (s.field = "AlarmSet" => s.value \in active_alarms)
      /\ SetsAlarm(steps) => SetsAlarm(steps') \/ s.field = "AlarmSet"
  <2>1. /\ steps \in Seq(StepSet) /\ StoresRight(steps, state, control_mode, has_active_alarm)
    BY Zenon DEF ShownInv, MachineTypes, LiveInv
  <2>2. s \in StepSet
    BY <1>1, <2>1, StepsRest, Zenon
  <2>3. s \in PublishSet /\ s.op # "store"
    BY <2>2, Zenon DEF StepSet, StoreSet, AnswerSet
  <2> QED
    BY <1>1, <2>1, <2>3, StepsRest, Zenon
<1>3. /\ r \in Seq(PostSet) /\ AlarmsRefresh(r)
      /\ Refreshes(s) => Holds(r, {"machineChanged"})
      /\ s.field # "AlarmSet" => ~ Holds(r, {"alarmSet"})
      /\ s.field # "ScanStarted" => ~ Holds(r, {"scanStarted", "resultReady"})
      /\ s.field # "ScanStarted" => ~ Holds(r, {"scanStarted", "mapReady"})
      /\ s.field = "AlarmSet" => LastOf(r, {"alarmSet"}, Post("alarmSet", s.value))
  <2>1. s.field \in Events
    BY <1>2, Zenon DEF PublishSet
  <2> QED
    BY <1>2, <2>1, SignalsOf, Zenon DEF Refreshes, Events
<1> HIDE DEF s, r
<1>4. /\ posts \in Seq(PostSet) /\ wafers_started \in Nat
      /\ UNCHANGED <<state, control_mode, has_active_alarm, active_alarms, current_wafer_id>>
  BY <1>1, Zenon DEF ShownInv, MachineTypes, WindowTypes, controllerVars
<1>5. MachineTypes' /\ WindowTypes'
  <2>1. posts' \in Seq(PostSet) /\ wafers_started' \in Nat
    BY <1>1, <1>3, <1>4, PostsJoin
  <2> QED
    BY <1>1, <1>2, <1>4, <2>1, Zenon DEF ShownInv, MachineTypes, WindowTypes, windowVars
<1>6. LiveInv'
  BY <1>1, <1>2, <1>4, Zenon DEF ShownInv, LiveInv, LiveFields
<1>7. AlarmInv'
  <2>1. AlarmsRefresh(posts')
    BY <1>1, <1>3, <1>4, PostsJoin, Zenon DEF ShownInv, AlarmInv
  <2>2. ASSUME state = "Alarm"
        PROVE  /\ AlarmsAmong(steps', active_alarms)
               /\ \/ SetsAlarm(steps')
                  \/ \E a \in active_alarms :
                       Ends(posts', {"alarmSet"}, Post("alarmSet", a), banner.text = a)
    <3>1. /\ AlarmsAmong(steps, active_alarms)
          /\ \/ SetsAlarm(steps)
             \/ \E a \in active_alarms :
                  Ends(posts, {"alarmSet"}, Post("alarmSet", a), banner.text = a)
      BY <2>2, Zenon DEF ShownInv, AlarmInv
    <3>2. CASE s.field = "AlarmSet"
      <4>1. s.value \in active_alarms /\ LastOf(r, {"alarmSet"}, Post("alarmSet", s.value))
        BY <1>2, <1>3, <3>1, <3>2, Zenon
      <4>2. Ends(posts', {"alarmSet"}, Post("alarmSet", s.value), banner.text = s.value)
        BY <1>1, <1>3, <1>4, <4>1, PostsJoin, Zenon
      <4> QED
        BY <1>2, <3>1, <4>1, <4>2, Zenon
    <3>3. CASE s.field # "AlarmSet"
      <4>1. ASSUME NEW a \in active_alarms,
                   Ends(posts, {"alarmSet"}, Post("alarmSet", a), banner.text = a)
            PROVE  Ends(posts', {"alarmSet"}, Post("alarmSet", a), banner.text = a)
        BY <1>1, <1>3, <1>4, <3>3, <4>1, PostsJoin, Zenon
      <4> QED
        BY <1>2, <3>1, <3>3, <4>1, Zenon
    <3> QED
      BY <3>2, <3>3, Zenon
  <2> QED
    BY <1>1, <1>4, <2>1, <2>2, Zenon DEF ShownInv, AlarmInv, windowVars
<1>8. FreshInv'
  <2>1. Holds(posts', {"machineChanged"}) <=>
          Holds(posts, {"machineChanged"}) \/ Holds(r, {"machineChanged"})
    BY <1>1, <1>3, <1>4, PostsJoin, Zenon
  <2>2. Due => Due'
    BY <1>2, <1>3, <2>1, Zenon DEF Due
  <2>3. ShowsLive' <=> ShowsLive
    BY <1>1, Zenon DEF ShowsLive, windowVars
  <2> QED
    BY <1>1, <2>2, <2>3, Zenon DEF ShownInv, FreshInv, windowVars
<1>9. ResultInv'
  <2> SUFFICES ASSUME completed' # NoWafer PROVE ResultInv'
    BY Zenon DEF ResultInv
  <2>1. /\ completed' = completed /\ UNCHANGED <<unpublished, view>> /\ NoStart(steps)
        /\ \/ unpublished = ToPublish(completed)
           \/ unpublished = <<Publish("WaferMapReady", completed)>> /\ LabelsEnd(completed)
           \/ unpublished = <<>> /\ LabelsEnd(completed) /\ MapEnds(completed)
    BY <1>1, Zenon DEF ShownInv, ResultInv, windowVars
  <2>2. NoStart(steps') /\ s.field # "ScanStarted"
    BY <1>2, <2>1, Zenon
  <2>3. LabelsEnd(completed) => LabelsEnd(completed)'
    BY <1>1, <1>3, <1>4, <2>1, <2>2, PostsJoin, Zenon DEF LabelsEnd
  <2>4. MapEnds(completed) => MapEnds(completed)'
    BY <1>1, <1>3, <1>4, <2>1, <2>2, PostsJoin, Zenon DEF MapEnds
  <2> QED
    BY <2>1, <2>2, <2>3, <2>4, Zenon DEF ResultInv
<1> QED
  BY <1>5, <1>6, <1>7, <1>8, <1>9, Zenon DEF ShownInv

LEMMA AnswerKeepsShown ==
  ASSUME ShownInv, ControllerSteps, Head(steps).op = "answer"
  PROVE  ShownInv'
<1> DEFINE s == Head(steps)
<1>1. /\ steps # <<>> /\ steps' = Tail(steps)
      /\ UNCHANGED <<live, posts, wafers_started>>
      /\ UNCHANGED <<controllerVars, unpublished, stalled, runtime_, built, completed, clicks, windowVars>>
  BY Zenon DEF ControllerSteps
<1>2. /\ steps' \in Seq(StepSet)
      /\ StoresRight(steps', state, control_mode, has_active_alarm)
      /\ \A f \in LiveFields : Stores(steps, f) => Stores(steps', f)
      /\ RefreshAhead(steps) => RefreshAhead(steps')
      /\ NoStart(steps) => NoStart(steps')
      /\ AlarmsAmong(steps, active_alarms) => AlarmsAmong(steps', active_alarms)
      /\ SetsAlarm(steps) => SetsAlarm(steps')
  <2>1. /\ steps \in Seq(StepSet) /\ StoresRight(steps, state, control_mode, has_active_alarm)
    BY DEF ShownInv, MachineTypes, LiveInv
  <2>2. s.op # "store" /\ s.op # "publish" /\ ~ Refreshes(s)
    BY Zenon DEF Refreshes
  <2> QED
    BY <1>1, <2>1, <2>2, StepsRest, Zenon
<1> HIDE DEF s
<1>3. MachineTypes' /\ WindowTypes'
  BY <1>1, <1>2, Zenon DEF ShownInv, MachineTypes, WindowTypes, controllerVars, windowVars
<1>4. LiveInv'
  BY <1>1, <1>2, Zenon DEF ShownInv, LiveInv, LiveFields, controllerVars
<1>5. AlarmInv'
  BY <1>1, <1>2, Zenon DEF ShownInv, AlarmInv, controllerVars, windowVars
<1>6. FreshInv'
  <2>1. Due => Due'
    BY <1>1, <1>2, Zenon DEF Due
  <2>2. ShowsLive' <=> ShowsLive
    BY <1>1, Zenon DEF ShowsLive, windowVars
  <2> QED
    BY <1>1, <2>1, <2>2, Zenon DEF ShownInv, FreshInv, windowVars
<1>7. ResultInv'
  BY <1>1, <1>2, Zenon DEF ShownInv, ResultInv, LabelsEnd, MapEnds, windowVars
<1> QED
  BY <1>3, <1>4, <1>5, <1>6, <1>7, Zenon DEF ShownInv

LEMMA StepKeepsShown ==
  ASSUME ShownInv, ControllerSteps
  PROVE  ShownInv'
<1>1. Head(steps) \in StepSet
  BY Rest, Zenon DEF ShownInv, MachineTypes, ControllerSteps
<1>2. Head(steps).op \in {"store", "publish", "answer"}
  BY <1>1, Zenon DEF StepSet, StoreSet, PublishSet, AnswerSet
<1> QED
  BY <1>2, StoreKeepsShown, PublishKeepsShown, AnswerKeepsShown, Zenon

(* Events that only reach the queue: the machine and the window stay as they are. *)
LEMMA QueuedKeepsFresh ==
  ASSUME ShownInv, NEW r \in Seq(PostSet), posts' = posts \o r,
         UNCHANGED <<live, steps, runtime_, gui, panel, banner, in_flight_>>
  PROVE  FreshInv'
<1>1. Holds(posts, {"machineChanged"}) => Holds(posts', {"machineChanged"})
  BY PostsJoin DEF ShownInv, WindowTypes
<1>2. Due => Due'
  BY <1>1, Zenon DEF Due
<1>3. ShowsLive' <=> ShowsLive
  BY DEF ShowsLive
<1> QED
  BY <1>2, <1>3, Zenon DEF ShownInv, FreshInv

(* The processing thread publishes the result, then the map. *)
LEMMA WorkerKeepsShown ==
  ASSUME ShownInv, WorkerPublishes
  PROVE  ShownInv'
<1> DEFINE e == Head(unpublished)
           r == Signals(e)
<1>1. /\ unpublished # <<>> /\ unpublished' = Tail(unpublished) /\ posts' = posts \o r
      /\ UNCHANGED <<controllerVars, live, steps, wafers_started, stalled, runtime_, built, completed, clicks, windowVars>>
  BY Zenon DEF WorkerPublishes
<1>2. unpublished' \in Seq(ResultSet) /\ e \in ResultSet /\ posts \in Seq(PostSet)
  BY <1>1, Rest, Zenon DEF ShownInv, MachineTypes, WindowTypes
<1>3. /\ r \in Seq(PostSet) /\ AlarmsRefresh(r) /\ ~ Holds(r, {"alarmSet"})
      /\ e.field = "WaferMapReady" => ~ Holds(r, {"scanStarted", "resultReady"})
      /\ e.field = "WaferResultReady" =>
           LastOf(r, {"scanStarted", "resultReady"}, Post("resultReady", e.value))
      /\ e.field = "WaferMapReady" => LastOf(r, {"scanStarted", "mapReady"}, Post("mapReady", e.value))
  <2>1. e.field \in ResultEvents /\ "AlarmSet" \notin ResultEvents
    BY <1>2, Zenon DEF ResultSet, ResultEvents
  <2> QED
    BY <1>2, <2>1, SignalsOf, Zenon
<1> HIDE DEF r
<1>4. MachineTypes' /\ WindowTypes'
  <2>1. posts' \in Seq(PostSet)
    BY <1>1, <1>2, <1>3, PostsJoin, Zenon
  <2> QED
    BY <1>1, <1>2, <2>1, Zenon DEF ShownInv, MachineTypes, WindowTypes, controllerVars, windowVars
<1>5. LiveInv'
  BY <1>1, Zenon DEF ShownInv, LiveInv, controllerVars
<1>6. AlarmInv'
  <2>1. AlarmsRefresh(posts')
    BY <1>1, <1>2, <1>3, PostsJoin, Zenon DEF ShownInv, AlarmInv
  <2>2. ASSUME NEW a \in active_alarms,
               Ends(posts, {"alarmSet"}, Post("alarmSet", a), banner.text = a)
        PROVE  Ends(posts', {"alarmSet"}, Post("alarmSet", a), banner.text = a)
    BY <1>1, <1>2, <1>3, <2>2, PostsJoin, Zenon
  <2> QED
    BY <1>1, <2>1, <2>2, Zenon DEF ShownInv, AlarmInv, controllerVars, windowVars
<1>7. FreshInv'
  BY <1>1, <1>3, QueuedKeepsFresh, Zenon DEF windowVars
<1>8. ResultInv'
  <2> SUFFICES ASSUME completed' # NoWafer PROVE ResultInv'
    BY Zenon DEF ResultInv
  <2>1. completed' = completed /\ UNCHANGED <<steps, view>> /\ NoStart(steps)
    BY <1>1, Zenon DEF ShownInv, ResultInv, windowVars
  <2>2. CASE unpublished = ToPublish(completed)
    <3>1. /\ e = Publish("WaferResultReady", completed)
          /\ unpublished' = <<Publish("WaferMapReady", completed)>>
      BY <1>1, <2>2 DEF ToPublish
    <3>2. e.field = "WaferResultReady" /\ e.value = completed
      BY <3>1 DEF Publish
    <3>3. LabelsEnd(completed)'
      BY <1>1, <1>2, <1>3, <2>1, <3>2, PostsJoin, Zenon DEF LabelsEnd
    <3> QED
      BY <2>1, <3>1, <3>3, Zenon DEF ResultInv
  <2>3. CASE unpublished = <<Publish("WaferMapReady", completed)>> /\ LabelsEnd(completed)
    <3>1. e = Publish("WaferMapReady", completed) /\ unpublished' = <<>>
      BY <1>1, <2>3
    <3>2. e.field = "WaferMapReady" /\ e.value = completed
      BY <3>1 DEF Publish
    <3>3. LabelsEnd(completed)'
      BY <1>1, <1>2, <1>3, <2>1, <2>3, <3>2, PostsJoin, Zenon DEF LabelsEnd
    <3>4. MapEnds(completed)'
      BY <1>1, <1>2, <1>3, <2>1, <3>2, PostsJoin, Zenon DEF MapEnds
    <3> QED
      BY <2>1, <3>1, <3>3, <3>4, Zenon DEF ResultInv
  <2> QED
    BY <1>1, <2>1, <2>2, <2>3, Zenon DEF ShownInv, ResultInv
<1> QED
  BY <1>4, <1>5, <1>6, <1>7, <1>8, Zenon DEF ShownInv

(* The scan thread raises ScanStall, or clears it. *)
LEMMA StallKeepsShown ==
  ASSUME ShownInv, ScanStalls
  PROVE  ShownInv'
<1>1. PICK e \in {Publish("AlarmCleared", 0), Publish("AlarmSet", "ScanStall")} :
        /\ posts' = posts \o Signals(e)
        /\ stalled => active_alarms' = active_alarms \ {"ScanStall"}
        /\ ~ stalled => active_alarms' = active_alarms \union {"ScanStall"} /\ state = "Scanning"
        /\ stalled' = ~ stalled
        /\ UNCHANGED <<state, stop_after_wafer, control_mode, has_active_alarm, current_wafer_id, live,
                       steps, wafers_started, unpublished, runtime_, built, completed, clicks, windowVars>>
  BY Zenon DEF ScanStalls
<1>2. e \in PublishSet /\ "ScanStall" \in AlarmIds /\ e.field \in {"AlarmCleared", "AlarmSet"}
  BY PanelAssumption DEF Publish, PublishSet, Events, Values
<1>3. posts \in Seq(PostSet)
  BY Zenon DEF ShownInv, WindowTypes
<1> DEFINE r == Signals(e)
<1>4. /\ r \in Seq(PostSet) /\ AlarmsRefresh(r)
      /\ ~ Holds(r, {"scanStarted", "resultReady"}) /\ ~ Holds(r, {"scanStarted", "mapReady"})
  BY <1>2, SignalsOf, Zenon
<1> HIDE DEF r
<1>5. posts' = posts \o r
  BY <1>1, Zenon DEF r
<1>6. state # "Alarm"
  BY <1>1, Zenon DEF ShownInv, AlarmInv
<1>7. MachineTypes' /\ WindowTypes'
  <2>1. posts' \in Seq(PostSet)
    BY <1>3, <1>4, <1>5, PostsJoin, Zenon
  <2> QED
    BY <1>1, <2>1, Zenon DEF ShownInv, MachineTypes, WindowTypes, windowVars
<1>8. LiveInv'
  BY <1>1, Zenon DEF ShownInv, LiveInv
<1>9. AlarmInv'
  <2>1. AlarmsRefresh(posts')
    BY <1>3, <1>4, <1>5, PostsJoin, Zenon DEF ShownInv, AlarmInv
  <2>2. IsFiniteSet(active_alarms') /\ active_alarms' \subseteq AlarmIds
    BY <1>1, <1>2, FS_AddElement, FS_RemoveElement DEF ShownInv, AlarmInv
  <2> QED
    BY <1>1, <1>6, <2>1, <2>2, Zenon DEF ShownInv, AlarmInv
<1>10. FreshInv'
  BY <1>1, <1>4, <1>5, QueuedKeepsFresh, Zenon DEF windowVars
<1>11. ResultInv'
  <2>1. \A w : LabelsEnd(w) => LabelsEnd(w)'
    BY <1>1, <1>3, <1>4, <1>5, PostsJoin DEF LabelsEnd, windowVars
  <2>2. \A w : MapEnds(w) => MapEnds(w)'
    BY <1>1, <1>3, <1>4, <1>5, PostsJoin DEF MapEnds, windowVars
  <2> QED
    BY <1>1, <2>1, <2>2, Zenon DEF ShownInv, ResultInv
<1> QED
  BY <1>7, <1>8, <1>9, <1>10, <1>11, Zenon DEF ShownInv

-----------------------------------------------------------------------------
(* The GUI thread. *)

LEMMA TakesKeepsShown ==
  ASSUME ShownInv, GuiTakes
  PROVE  ShownInv'
<1> DEFINE e == Head(posts)
<1>1. /\ gui.at = "loop" /\ posts # <<>> /\ posts' = Tail(posts)
      /\ Shows(e) \/ StartsRefresh(e)
      /\ UNCHANGED <<machineVars, clicks, dialog, panel>>
  BY DEF GuiTakes, Looping
<1>2. UNCHANGED <<controllerVars, live, steps, wafers_started, unpublished, stalled, runtime_, built, completed>>
  BY <1>1, Zenon DEF machineVars
<1>3. /\ posts \in Seq(PostSet) /\ posts' \in Seq(PostSet) /\ e \in PostSet
      /\ \A K : Holds(posts, K) <=> Holds(posts', K) \/ e.kind \in K
      /\ AlarmsRefresh(posts')
      /\ e.kind = "alarmSet" => Holds(posts', {"machineChanged"})
  <2>1. posts \in Seq(PostSet) /\ AlarmsRefresh(posts)
    BY DEF ShownInv, WindowTypes, AlarmInv
  <2> QED
    BY <1>1, <2>1, PostsRest, Zenon
<1> HIDE DEF e
<1>4. /\ view' = IF e.kind = "scanStarted" THEN [EmptyView EXCEPT !.wafer = e.about]
                 ELSE IF e.kind = "resultReady" THEN [view EXCEPT !.wafer = e.about, !.numbers = e.about]
                 ELSE IF e.kind = "mapReady" THEN [view EXCEPT !.map = e.about]
                 ELSE view
      /\ banner' = IF e.kind = "alarmSet" THEN [shown |-> TRUE, text |-> e.about] ELSE banner
  <2>1. CASE Shows(e)
    BY <2>1 DEF Shows
  <2>2. CASE StartsRefresh(e)
    BY <2>2 DEF StartsRefresh
  <2> QED
    BY <1>1, <2>1, <2>2, Zenon
<1>5. \/ e.kind \notin {"machineChanged", "finished"} /\ UNCHANGED <<in_flight_, gui>>
      \/ gui' = GuiAt("refresh")
  BY <1>1, Zenon DEF Shows, StartsRefresh
<1>6. /\ view \in [wafer : Values, numbers : Values, map : Values]
      /\ EmptyView \in [wafer : Values, numbers : Values, map : Values]
      /\ e.about \in Values
  BY <1>3, PanelAssumption, Zenon DEF ShownInv, WindowTypes, EmptyView, Values, PostSet
<1>7. view' \in [wafer : Values, numbers : Values, map : Values]
  BY <1>4, <1>6, Zenon
<1>8. /\ e.kind = "resultReady" => view'.wafer = e.about /\ view'.numbers = e.about /\ view'.map = view.map
      /\ e.kind = "mapReady" => view'.map = e.about /\ view'.wafer = view.wafer /\ view'.numbers = view.numbers
      /\ e.kind \notin {"scanStarted", "resultReady", "mapReady"} => view' = view
  BY <1>4, <1>6, Zenon
<1>9. MachineTypes' /\ WindowTypes'
  <2>1. gui' \in [at : {"build", "loop", "refresh", "mode", "alarm"}, snap : Snapshots]
    <3>1. GuiAt("refresh") \in [at : {"build", "loop", "refresh", "mode", "alarm"}, snap : Snapshots]
      BY DEF GuiAt, Fresh, Snapshots, ProcessStates, ControlModes
    <3> QED
      BY <1>5, <3>1, Zenon DEF ShownInv, WindowTypes
  <2>2. banner' \in [shown : BOOLEAN, text : Values \union {NoAlarmText}]
    BY <1>4, <1>6, Zenon DEF ShownInv, WindowTypes
  <2> QED
    BY <1>1, <1>2, <1>3, <1>7, <2>1, <2>2, Zenon DEF ShownInv, MachineTypes, WindowTypes, controllerVars
<1>10. LiveInv'
  BY <1>2, Zenon DEF ShownInv, LiveInv, controllerVars
<1>11. AlarmInv'
  <2>1. ASSUME NEW a \in active_alarms,
               Ends(posts, {"alarmSet"}, Post("alarmSet", a), banner.text = a)
        PROVE  Ends(posts', {"alarmSet"}, Post("alarmSet", a), banner'.text = a)
    <3>1. e = Post("alarmSet", a) => banner'.text = a
      BY <1>4 DEF Post
    <3>2. e.kind \notin {"alarmSet"} /\ banner.text = a => banner'.text = a
      BY <1>4
    <3> QED
      BY <1>1, <1>3, <2>1, <3>1, <3>2, EndsRest, Zenon DEF e
  <2> QED
    BY <1>2, <1>3, <2>1, Zenon DEF ShownInv, AlarmInv, controllerVars
<1>12. FreshInv'
  <2>1. CASE gui' = GuiAt("refresh")
    <3>1. gui'.at = "refresh"
      BY <2>1, Zenon DEF GuiAt
    <3> QED
      BY <3>1, Zenon DEF FreshInv
  <2>2. CASE e.kind \notin {"machineChanged", "finished"} /\ UNCHANGED <<in_flight_, gui>>
    <3>1. Due => Due'
      BY <1>2, <1>3, <2>2, Zenon DEF Due
    <3>2. ~ Due' => banner' = banner
      BY <1>3, <1>4, Zenon DEF Due
    <3>3. ~ Due' => (ShowsLive' <=> ShowsLive)
      BY <1>1, <1>2, <2>2, <3>2, Zenon DEF ShowsLive
    <3> QED
      BY <1>1, <1>2, <2>2, <3>1, <3>3, Zenon DEF ShownInv, FreshInv
  <2> QED
    BY <1>5, <2>1, <2>2, Zenon
<1>13. ResultInv'
  <2>1. ASSUME NEW w \in Nat, LabelsEnd(w)
        PROVE  Ends(posts', {"scanStarted", "resultReady"}, Post("resultReady", w),
                    view'.wafer = w /\ view'.numbers = w)
    <3>1. e = Post("resultReady", w) => view'.wafer = w /\ view'.numbers = w
      BY <1>8 DEF Post
    <3>2. e.kind \notin {"scanStarted", "resultReady"} /\ view.wafer = w /\ view.numbers = w =>
            view'.wafer = w /\ view'.numbers = w
      BY <1>8
    <3> QED
      BY <1>1, <1>3, <2>1, <3>1, <3>2, EndsRest, Zenon DEF e, LabelsEnd
  <2>2. ASSUME NEW w \in Nat, MapEnds(w)
        PROVE  Ends(posts', {"scanStarted", "mapReady"}, Post("mapReady", w), view'.map = w)
    <3>1. e = Post("mapReady", w) => view'.map = w
      BY <1>8 DEF Post
    <3>2. e.kind \notin {"scanStarted", "mapReady"} /\ view.map = w => view'.map = w
      BY <1>8
    <3> QED
      BY <1>1, <1>3, <2>2, <3>1, <3>2, EndsRest, Zenon DEF e, MapEnds
  <2>3. completed \in Nat /\ UNCHANGED <<completed, unpublished, steps>>
    BY <1>2, Zenon DEF ShownInv, MachineTypes
  <2> QED
    BY <2>1, <2>2, <2>3, Zenon DEF ShownInv, ResultInv, LabelsEnd, MapEnds
<1> QED
  BY <1>9, <1>10, <1>11, <1>12, <1>13, Zenon DEF ShownInv

(* Steps of the GUI thread that leave the machine, the queue, the view and the
   text of the banner alone. *)
LEMMA QuietKeepsShown ==
  ASSUME ShownInv, WindowTypes', FreshInv', UNCHANGED <<machineVars, posts, view>>,
         banner'.text = banner.text
  PROVE  ShownInv'
<1>1. MachineTypes' /\ LiveInv' /\ ResultInv'
  BY Zenon DEF ShownInv, MachineTypes, LiveInv, ResultInv, LabelsEnd, MapEnds, machineVars, controllerVars
<1>2. AlarmInv'
  BY Zenon DEF ShownInv, AlarmInv, machineVars, controllerVars
<1> QED
  BY <1>1, <1>2, Zenon DEF ShownInv

(* MachineApi::snapshot, value by value: what was read and has changed since is
   followed by another refresh(). *)
LEMMA ReadsKeepShown ==
  ASSUME ShownInv, RefreshReads
  PROVE  ShownInv'
<1>1. /\ runtime_ # 0 /\ UNCHANGED <<machineVars, posts, in_flight_, panel, banner, view, clicks>>
      /\ \/ /\ gui.at = "refresh"
            /\ gui' = [at |-> "mode", snap |-> [gui.snap EXCEPT !.state = live.state]]
         \/ /\ gui.at = "mode"
            /\ gui' = [at |-> "alarm", snap |-> [gui.snap EXCEPT !.mode = live.mode]]
  BY DEF RefreshReads
<1>2. /\ gui.snap \in Snapshots /\ live \in Snapshots
      /\ UNCHANGED <<live, runtime_, steps, posts>>
  BY <1>1 DEF ShownInv, MachineTypes, WindowTypes, machineVars
<1>3. WindowTypes'
  <2>1. gui' \in [at : {"build", "loop", "refresh", "mode", "alarm"}, snap : Snapshots]
    BY <1>1, <1>2 DEF Snapshots
  <2> QED
    BY <1>1, <2>1, Zenon DEF ShownInv, WindowTypes
<1>4. FreshInv'
  <2>1. CASE gui.at = "refresh"
    <3>1. gui'.at = "mode" /\ gui'.snap.state = live.state
      BY <1>1, <1>2, <2>1 DEF Snapshots
    <3> QED
      BY <1>2, <3>1, Zenon DEF FreshInv
  <2>2. CASE gui.at = "mode"
    <3>1. gui'.at = "alarm" /\ gui'.snap.state = gui.snap.state /\ gui'.snap.mode = live.mode
      BY <1>1, <1>2, <2>2 DEF Snapshots
    <3>2. Due' <=> Due
      BY <1>2 DEF Due
    <3> QED
      BY <1>1, <1>2, <2>2, <3>1, <3>2, Zenon DEF ShownInv, FreshInv
  <2> QED
    BY <1>1, <2>1, <2>2, Zenon
<1> QED
  BY <1>1, <1>3, <1>4, QuietKeepsShown, Zenon

(* With no refresh() to come, the machine's alarm has its text on the banner. *)
LEMMA AlarmHasText ==
  ASSUME ShownInv, ~ Due
  PROVE  /\ live.state = state /\ live.mode = control_mode /\ live.alarm = has_active_alarm
         /\ state = "Alarm" => banner.text \in active_alarms /\ banner.text # NoAlarmText
<1>1. live.state = state /\ live.mode = control_mode /\ live.alarm = has_active_alarm
  <2>1. ~ \E i \in DOMAIN steps : steps[i].op = "store"
    BY Zenon DEF ShownInv, LiveInv, StoresRight, Due, RefreshAhead
  <2> QED
    BY <2>1, Zenon DEF ShownInv, LiveInv, Stores
<1>2. ASSUME state = "Alarm"
      PROVE  banner.text \in active_alarms /\ banner.text # NoAlarmText
  <2>1. ~ SetsAlarm(steps)
    BY Zenon DEF Due, RefreshAhead, Refreshes, SetsAlarm, ChangeEvents
  <2>2. PICK a \in active_alarms : Ends(posts, {"alarmSet"}, Post("alarmSet", a), banner.text = a)
    BY <1>2, <2>1, Zenon DEF ShownInv, AlarmInv
  <2>3. ~ \E i \in DOMAIN posts : posts[i].kind = "alarmSet"
    BY Zenon DEF ShownInv, AlarmInv, AlarmsRefresh, Due, Holds
  <2>4. banner.text = a
    BY <2>2, <2>3 DEF Ends, LastOf, Post
  <2> QED
    BY <2>4, PanelAssumption, Zenon DEF ShownInv, AlarmInv, NoAlarmText
<1> QED
  BY <1>1, <1>2, Zenon

(* refresh() itself. *)
LEMMA RefreshKeepsShown ==
  ASSUME ShownInv, refresh
  PROVE  ShownInv'
<1> DEFINE rules == rules_for(gui.snap.state, gui.snap.mode, live.alarm)
<1>1. /\ UNCHANGED <<machineVars, posts, clicks, in_flight_, view>> /\ gui' = GuiAt("loop")
      /\ \/ /\ runtime_ # 0 /\ gui.at = "alarm"
            /\ panel' = [rules |-> rules, menus |-> rules.can_change_mode /\ in_flight_ = 0,
                         process |-> gui.snap.state, mode |-> gui.snap.mode]
            /\ banner' = [banner EXCEPT !.shown = IF live.alarm THEN @ \/ banner.text # NoAlarmText
                                                  ELSE FALSE]
         \/ /\ runtime_ = 0 /\ gui.at = "refresh"
            /\ panel' = [panel EXCEPT !.rules = NoRules, !.menus = TRUE]
            /\ UNCHANGED banner
  BY Zenon DEF refresh
<1>2. /\ gui.snap \in Snapshots /\ live \in Snapshots
      /\ panel \in [rules : RuleSet, menus : BOOLEAN, process : ProcessStates, mode : ControlModes]
      /\ banner \in [shown : BOOLEAN, text : Values \union {NoAlarmText}]
      /\ UNCHANGED <<live, runtime_, steps, posts, state, has_active_alarm>>
  BY <1>1, Zenon DEF ShownInv, MachineTypes, WindowTypes, machineVars, controllerVars
<1>3. /\ rules \in RuleSet /\ NoRules \in RuleSet
      /\ rules.can_change_mode = (gui.snap.state \in {"Idle", "Alarm"})
  BY DEF rules_for, NoRules, RuleSet
<1>4. gui' \in [at : {"build", "loop", "refresh", "mode", "alarm"}, snap : Snapshots] /\ gui'.at = "loop"
  BY <1>1, Zenon DEF GuiAt, Fresh, Snapshots, ProcessStates, ControlModes
<1>5. Due' <=> Due
  BY <1>2 DEF Due
<1>6. CASE runtime_ # 0
  <2>1. /\ gui.at = "alarm"
        /\ panel' = [rules |-> rules, menus |-> rules.can_change_mode /\ in_flight_ = 0,
                     process |-> gui.snap.state, mode |-> gui.snap.mode]
        /\ banner' = [banner EXCEPT !.shown = IF live.alarm THEN @ \/ banner.text # NoAlarmText
                                              ELSE FALSE]
    BY <1>1, <1>6, Zenon
  <2> HIDE DEF rules
  <2>2. panel' \in [rules : RuleSet, menus : BOOLEAN, process : ProcessStates, mode : ControlModes]
    BY <1>2, <1>3, <2>1, Zenon DEF Snapshots
  <2>3. /\ banner' \in [shown : BOOLEAN, text : Values \union {NoAlarmText}]
        /\ banner'.text = banner.text
        /\ banner'.shown = (live.alarm /\ (banner.shown \/ banner.text # NoAlarmText))
    BY <1>2, <2>1, Zenon DEF Snapshots
  <2>4. ASSUME ~ Due PROVE ShowsLive'
    <3>1. gui.snap.state = live.state /\ gui.snap.mode = live.mode
      BY <1>6, <2>1, <2>4, Zenon DEF ShownInv, FreshInv
    <3>2. banner'.shown = live.alarm
      <4>1. live.alarm => banner.text # NoAlarmText
        BY <2>4, AlarmHasText, Zenon DEF ShownInv, AlarmInv
      <4> QED
        BY <1>2, <2>3, <4>1, Zenon DEF Snapshots
    <3>3. panel'.rules = rules_for(live.state, live.mode, live.alarm) /\ panel'.process = live.state
      BY <2>1, <3>1, Zenon DEF rules
    <3>4. in_flight_ = 0 => panel'.mode = live.mode /\ panel'.menus = (live.state \in {"Idle", "Alarm"})
      <4>1. panel'.mode = gui.snap.mode /\ panel'.menus = (rules.can_change_mode /\ in_flight_ = 0)
        BY <2>1, Zenon
      <4>2. in_flight_ = 0 => panel'.menus = (gui.snap.state \in {"Idle", "Alarm"})
        <5>1. rules.can_change_mode \in BOOLEAN
          BY <1>3, Zenon DEF RuleSet
        <5>2. in_flight_ = 0 => panel'.menus = rules.can_change_mode
          BY <4>1, <5>1, Zenon
        <5> QED
          BY <1>3, <5>2
      <4> QED
        BY <3>1, <4>1, <4>2, Zenon
    <3> QED
      BY <1>1, <1>2, <3>2, <3>3, <3>4, Zenon DEF ShowsLive
  <2>5. WindowTypes'
    BY <1>1, <1>4, <2>2, <2>3, Zenon DEF ShownInv, WindowTypes
  <2>6. FreshInv'
    BY <1>2, <1>4, <1>5, <1>6, <2>4, Zenon DEF FreshInv
  <2> QED
    BY <1>1, <2>3, <2>5, <2>6, QuietKeepsShown, Zenon
<1>7. CASE runtime_ = 0
  <2>1. panel' = [panel EXCEPT !.rules = NoRules, !.menus = TRUE] /\ UNCHANGED banner
    BY <1>1, <1>7
  <2> HIDE DEF rules
  <2>2. /\ panel' \in [rules : RuleSet, menus : BOOLEAN, process : ProcessStates, mode : ControlModes]
        /\ panel'.rules = NoRules /\ panel'.menus
    BY <1>2, <1>3, <2>1, Zenon
  <2>3. WindowTypes'
    BY <1>1, <1>4, <2>1, <2>2, Zenon DEF ShownInv, WindowTypes
  <2>4. FreshInv'
    BY <1>2, <1>4, <1>7, <2>2, Zenon DEF FreshInv
  <2> QED
    BY <1>1, <2>1, <2>3, <2>4, QuietKeepsShown, Zenon
<1> QED
  BY <1>6, <1>7, Zenon

(* The operator gives a command. *)
LEMMA ClicksKeepShown ==
  ASSUME ShownInv, in_flight_ \in Nat, NEW command, NEW wafer, run_command(command, wafer),
         \/ UNCHANGED panel
         \/ \E mode \in ControlModes : panel' = [panel EXCEPT !.mode = mode]
  PROVE  ShownInv'
<1>1. /\ gui.at = "loop" /\ runtime_ # 0
      /\ clicks' = clicks + 1 /\ in_flight_' = in_flight_ + 1
      /\ UNCHANGED <<machineVars, posts, gui, banner, view>>
  BY DEF run_command, Looping
<1>2. /\ panel \in [rules : RuleSet, menus : BOOLEAN, process : ProcessStates, mode : ControlModes]
      /\ UNCHANGED <<live, runtime_, steps, posts>> /\ clicks \in Nat
  BY <1>1 DEF ShownInv, WindowTypes, machineVars
<1>3. /\ panel' \in [rules : RuleSet, menus : BOOLEAN, process : ProcessStates, mode : ControlModes]
      /\ panel'.rules = panel.rules /\ panel'.process = panel.process
  BY <1>2
<1>4. WindowTypes'
  BY <1>1, <1>2, <1>3 DEF ShownInv, WindowTypes
<1>5. FreshInv'
  <2>1. (Due' <=> Due) /\ in_flight_' # 0
    BY <1>1, <1>2 DEF Due
  <2>2. ShowsLive => ShowsLive'
    BY <1>1, <1>2, <1>3, <2>1, Zenon DEF ShowsLive
  <2> QED
    BY <1>1, <1>2, <2>1, <2>2, Zenon DEF ShownInv, FreshInv
<1> QED
  BY <1>1, <1>4, <1>5, QuietKeepsShown, Zenon

(* The dialog opens and ends. *)
LEMMA DialogKeepsShown ==
  ASSUME ShownInv, OpensDialog \/ DialogEnds
  PROVE  ShownInv'
<1>1. UNCHANGED <<machineVars, posts, clicks, in_flight_, gui, panel, banner, view>>
  BY Zenon DEF OpensDialog, DialogEnds
<1>2. WindowTypes' /\ FreshInv'
  BY <1>1, Zenon DEF ShownInv, WindowTypes, FreshInv, ShowsLive, Due, machineVars
<1> QED
  BY <1>1, <1>2, QuietKeepsShown, Zenon

(* A report of a command joins the queue. *)
LEMMA ReturnKeepsShown ==
  ASSUME ShownInv, NEW c, c.id \in Nat, CallReturns(c)
  PROVE  ShownInv'
<1> DEFINE r == <<Post("finished", c.id)>>
<1>1. posts' = posts \o r /\ UNCHANGED <<machineVars, clicks, windowVars>>
  BY DEF CallReturns, ShownInv, WindowTypes
<1>2. UNCHANGED <<controllerVars, live, steps, wafers_started, unpublished, stalled, runtime_, built, completed>>
  BY <1>1, Zenon DEF machineVars
<1>3. /\ r \in Seq(PostSet) /\ AlarmsRefresh(r) /\ ~ Holds(r, {"alarmSet"})
      /\ ~ Holds(r, {"scanStarted", "resultReady"}) /\ ~ Holds(r, {"scanStarted", "mapReady"})
  BY DEF Post, PostSet, PostKinds, Values, AlarmsRefresh, Holds
<1> HIDE DEF r
<1>4. posts \in Seq(PostSet)
  BY Zenon DEF ShownInv, WindowTypes
<1>5. MachineTypes' /\ WindowTypes'
  <2>1. posts' \in Seq(PostSet)
    BY <1>1, <1>3, <1>4, PostsJoin, Zenon
  <2> QED
    BY <1>1, <1>2, <2>1, Zenon DEF ShownInv, MachineTypes, WindowTypes, windowVars, controllerVars
<1>6. LiveInv'
  BY <1>2, Zenon DEF ShownInv, LiveInv, controllerVars
<1>7. AlarmInv'
  <2>1. AlarmsRefresh(posts')
    BY <1>1, <1>3, <1>4, PostsJoin, Zenon DEF ShownInv, AlarmInv
  <2>2. \A a : Ends(posts, {"alarmSet"}, Post("alarmSet", a), banner.text = a) =>
               Ends(posts', {"alarmSet"}, Post("alarmSet", a), banner'.text = a)
    BY <1>1, <1>3, <1>4, PostsJoin, Zenon DEF windowVars
  <2> QED
    BY <1>2, <2>1, <2>2, Zenon DEF ShownInv, AlarmInv, controllerVars
<1>8. FreshInv'
  BY <1>1, <1>2, <1>3, QueuedKeepsFresh, Zenon DEF windowVars
<1>9. ResultInv'
  <2>1. \A w : LabelsEnd(w) => LabelsEnd(w)'
    BY <1>1, <1>3, <1>4, PostsJoin, Zenon DEF LabelsEnd, windowVars
  <2>2. \A w : MapEnds(w) => MapEnds(w)'
    BY <1>1, <1>3, <1>4, PostsJoin, Zenon DEF MapEnds, windowVars
  <2> QED
    BY <1>2, <2>1, <2>2, Zenon DEF ShownInv, ResultInv
<1> QED
  BY <1>5, <1>6, <1>7, <1>8, <1>9, Zenon DEF ShownInv

(* rebuild(): everything of the old machine is gone but the events it queued. *)
LEMMA RebuildKeepsShown ==
  ASSUME ShownInv, NEW ok \in BOOLEAN, rebuild(ok)
  PROVE  ShownInv'
<1>1. /\ gui' = GuiAt("refresh") /\ live' = Fresh /\ steps' = <<>> /\ unpublished' = <<>>
      /\ state' = "Idle" /\ control_mode' = "OnlineLocal" /\ has_active_alarm' = FALSE
      /\ current_wafer_id' = NoWafer /\ active_alarms' = {} /\ stalled' = FALSE
      /\ wafers_started' = 0 /\ built' = built + 1 /\ completed' = NoWafer
      /\ runtime_' = IF ok THEN built + 1 ELSE 0
      /\ view' = EmptyView /\ banner' = [shown |-> FALSE, text |-> NoAlarmText]
      /\ UNCHANGED <<posts, clicks, in_flight_, panel>>
  BY Zenon DEF rebuild
<1>2. /\ GuiAt("refresh") \in [at : {"build", "loop", "refresh", "mode", "alarm"}, snap : Snapshots]
      /\ GuiAt("refresh").at = "refresh" /\ Fresh \in Snapshots
      /\ EmptyView \in [wafer : Values, numbers : Values, map : Values]
      /\ Fresh.state = "Idle" /\ Fresh.mode = "OnlineLocal" /\ Fresh.alarm = FALSE
  BY PanelAssumption, Zenon DEF GuiAt, Fresh, Snapshots, ProcessStates, ControlModes, EmptyView, Values
<1>3. MachineTypes'
  <2>1. built' \in Nat /\ runtime_' \in Nat
    BY <1>1 DEF ShownInv, MachineTypes
  <2>2. /\ state' \in ProcessStates /\ control_mode' \in ControlModes
        /\ steps' \in Seq(StepSet) /\ unpublished' \in Seq(ResultSet)
        /\ current_wafer_id' \in Nat /\ completed' \in Nat /\ wafers_started' \in Nat
    BY <1>1, PanelAssumption DEF ProcessStates, ControlModes
  <2> QED
    BY <1>1, <1>2, <2>1, <2>2, Zenon DEF MachineTypes
<1>4. WindowTypes'
  BY <1>1, <1>2, Zenon DEF ShownInv, WindowTypes
<1>5. LiveInv'
  <2>1. StoresRight(steps, state, control_mode, has_active_alarm)'
    BY <1>1 DEF StoresRight
  <2>2. live'.state = state' /\ live'.mode = control_mode' /\ live'.alarm = has_active_alarm'
    BY <1>1, <1>2, Zenon
  <2> QED
    BY <2>1, <2>2, Zenon DEF LiveInv
<1>6. AlarmInv'
  <2>1. IsFiniteSet({})
    BY FS_EmptySet, Zenon
  <2> QED
    BY <1>1, <2>1, Zenon DEF ShownInv, AlarmInv
<1>7. FreshInv'
  BY <1>1, <1>2, Zenon DEF FreshInv
<1>8. ResultInv'
  BY <1>1, Zenon DEF ResultInv
<1> QED
  BY <1>3, <1>4, <1>5, <1>6, <1>7, <1>8, Zenon DEF ShownInv

-----------------------------------------------------------------------------
(* Commands: how many are given, and how many reports are queued. *)

LEMMA Renamed ==
  ASSUME NEW S, NEW T, IsFiniteSet(S), NEW f \in [S -> T],
         \A x, y \in S : f[x] = f[y] => x = y, \A t \in T : \E x \in S : f[x] = t
  PROVE  IsFiniteSet(T) /\ Cardinality(T) = Cardinality(S)
<1>1. f \in Injection(S, T)
  BY DEF Injection, IsInjective
<1>2. f \in Surjection(S, T)
  BY Zenon DEF Surjection
<1>3. ExistsBijection(S, T)
  BY <1>1, <1>2, Zenon DEF ExistsBijection, Bijection
<1> QED
  BY <1>3, FS_Bijection, Zenon

(* Reports are counted however the queue moves. *)
LEMMA FinishedCount ==
  ASSUME NEW q \in Seq(PostSet)
  PROVE  IsFiniteSet(Finished(q)) /\ Cardinality(Finished(q)) \in Nat
<1>1. Len(q) \in Nat /\ Finished(q) \in SUBSET (1..Len(q))
  BY DEF Finished
<1>2. IsFiniteSet(1..Len(q))
  BY <1>1, FS_Interval
<1>3. IsFiniteSet(Finished(q))
  BY <1>1, <1>2, FS_Subset, Zenon
<1> QED
  BY <1>3, FS_CardinalityType, Zenon

LEMMA FinishedJoin ==
  ASSUME NEW q \in Seq(PostSet), NEW r \in Seq(PostSet), ~ Holds(r, {"finished"})
  PROVE  Finished(q \o r) = Finished(q)
  BY Joined DEF Finished, Holds

LEMMA FinishedAppend ==
  ASSUME NEW q \in Seq(PostSet), NEW v
  PROVE  Cardinality(Finished(Append(q, Post("finished", v)))) = Cardinality(Finished(q)) + 1
<1> DEFINE p == Post("finished", v)
           n == Len(q) + 1
<1>1. p.kind = "finished"
  BY Zenon DEF Post
<1> HIDE DEF p
<1>2. /\ n \in Nat /\ n \notin DOMAIN q /\ DOMAIN Append(q, p) = DOMAIN q \union {n}
      /\ Append(q, p)[n] = p /\ \A i \in DOMAIN q : Append(q, p)[i] = q[i]
  OBVIOUS
<1> HIDE DEF n
<1>3. Finished(Append(q, p)) = Finished(q) \union {n} /\ n \notin Finished(q)
  BY <1>1, <1>2, Zenon DEF Finished
<1>4. IsFiniteSet(Finished(q))
  BY FinishedCount, Zenon
<1>5. Cardinality(Finished(Append(q, p))) = Cardinality(Finished(q)) + 1
  BY <1>3, <1>4, FS_AddElement, Zenon
<1> QED
  BY <1>5, Zenon DEF p

LEMMA FinishedRest ==
  ASSUME NEW q \in Seq(PostSet), q # <<>>
  PROVE  Cardinality(Finished(Tail(q))) =
           IF Head(q).kind = "finished" THEN Cardinality(Finished(q)) - 1 ELSE Cardinality(Finished(q))
<1> DEFINE t == Tail(q)
           T == Finished(q) \ {1}
           f == [i \in Finished(t) |-> i + 1]
<1>1. /\ t \in Seq(PostSet) /\ Head(q) = q[1] /\ 1 \in DOMAIN q
      /\ \A i \in DOMAIN q : i \in Nat /\ i >= 1
      /\ \A i \in DOMAIN t : i \in Nat /\ i + 1 \in DOMAIN q /\ i >= 1 /\ t[i] = q[i + 1]
      /\ \A i \in DOMAIN q : i # 1 => i - 1 \in DOMAIN t /\ t[i - 1] = q[i]
  BY Rest
<1>2. IsFiniteSet(Finished(t)) /\ IsFiniteSet(Finished(q))
  BY <1>1, FinishedCount, Zenon
<1> HIDE DEF t
<1>3. f \in [Finished(t) -> T]
  BY <1>1 DEF Finished
<1>4. \A x, y \in Finished(t) : f[x] = f[y] => x = y
  BY <1>1 DEF Finished
<1>5. ASSUME NEW j \in T PROVE \E i \in Finished(t) : f[i] = j
  <2>1. j \in DOMAIN q /\ q[j].kind = "finished" /\ j # 1
    BY DEF Finished
  <2>2. j \in Nat /\ j - 1 \in DOMAIN t /\ t[j - 1] = q[j]
    BY <1>1, <2>1, Zenon
  <2>3. j - 1 \in Finished(t) /\ (j - 1) + 1 = j
    BY <2>1, <2>2 DEF Finished
  <2> QED
    BY <2>3
<1> HIDE DEF f
<1>6. Cardinality(T) = Cardinality(Finished(t))
  BY <1>2, <1>3, <1>4, <1>5, Renamed, Zenon
<1>7. 1 \in Finished(q) <=> Head(q).kind = "finished"
  BY <1>1, Zenon DEF Finished
<1>8. Cardinality(T) = IF 1 \in Finished(q) THEN Cardinality(Finished(q)) - 1
                       ELSE Cardinality(Finished(q))
  BY <1>2, FS_RemoveElement, Zenon
<1> QED
  BY <1>6, <1>7, <1>8, Zenon DEF t

(* in_flight_ counts. *)
LEMMA InFlight ==
  ASSUME CommandInv, posts \in Seq(PostSet)
  PROVE  /\ Cardinality(calls) \in Nat /\ Cardinality(Finished(posts)) \in Nat
         /\ in_flight_ = Cardinality(calls) + Cardinality(Finished(posts))
         /\ in_flight_ \in Nat
         /\ in_flight_ = 0 => calls = {}
<1>1. Cardinality(calls) \in Nat /\ (Cardinality(calls) = 0 => calls = {})
  BY FS_CardinalityType, FS_EmptySet, Zenon DEF CommandInv
<1>2. Cardinality(Finished(posts)) \in Nat
  BY FinishedCount, Zenon
<1>3. in_flight_ = Cardinality(calls) + Cardinality(Finished(posts))
  BY Zenon DEF CommandInv, CommandsKeepMachine, Finished
<1> QED
  BY <1>1, <1>2, <1>3

(* No command moves, and reports neither come nor go. *)
LEMMA IdleKeepsCommands ==
  ASSUME CommandInv, UNCHANGED <<calls, clicks, in_flight_, runtime_>>,
         Cardinality(Finished(posts')) = Cardinality(Finished(posts))
  PROVE  CommandInv'
  BY Zenon DEF CommandInv, CommandsKeepMachine, CallSet, Finished

(* One command moves on. *)
LEMMA CallKeepsCommands ==
  ASSUME CommandInv, NEW c \in calls, NEW d \in CallSet, d.id = c.id, d.api = c.api,
         calls' = (calls \ {c}) \union {d},
         UNCHANGED <<clicks, in_flight_, runtime_, posts>>
  PROVE  CommandInv'
<1>1. IsFiniteSet(calls) /\ calls \subseteq CallSet /\ \A x, y \in calls : x.id = y.id => x = y
  BY Zenon DEF CommandInv
<1>2. d \notin calls \ {c}
  BY <1>1, Zenon
<1>3. Cardinality(calls \ {c}) = Cardinality(calls) - 1 /\ IsFiniteSet(calls \ {c})
  BY <1>1, FS_RemoveElement, Zenon
<1>4. /\ Cardinality((calls \ {c}) \union {d}) = Cardinality(calls \ {c}) + 1
      /\ IsFiniteSet((calls \ {c}) \union {d})
  BY <1>2, <1>3, FS_AddElement, Zenon
<1>5. Cardinality(calls) \in Nat
  BY <1>1, FS_CardinalityType, Zenon
<1>6. Cardinality(calls') = Cardinality(calls) /\ IsFiniteSet(calls')
  BY <1>3, <1>4, <1>5
<1>7. calls' \subseteq CallSet'
  BY <1>1, Zenon DEF CallSet
<1>8. \A x, y \in calls' : x.id = y.id => x = y
  BY <1>1
<1>9. CommandsKeepMachine'
  BY <1>6, Zenon DEF CommandInv, CommandsKeepMachine
<1> QED
  BY <1>6, <1>7, <1>8, <1>9, Zenon DEF CommandInv

(* Controller::submit_command takes a call; the controller thread answers it. *)
LEMMA HandleKeepsCommands ==
  ASSUME CommandInv, NEW c \in calls, HandleCall(c)
  PROVE  CommandInv'
<1> DEFINE d == [c EXCEPT !.at = "posted"]
<1>1. /\ calls' = (calls \ {c}) \union {d}
      /\ UNCHANGED <<clicks, in_flight_, runtime_, posts>>
  BY DEF HandleCall, windowVars
<1>2. c \in CallSet
  BY DEF CommandInv
<1>3. d \in CallSet /\ d.id = c.id /\ d.api = c.api
  BY <1>2 DEF CallSet
<1> HIDE DEF d
<1> QED
  BY <1>1, <1>3, CallKeepsCommands, Zenon

LEMMA StepKeepsCommands ==
  ASSUME ShownInv, CommandInv, ControllerSteps
  PROVE  CommandInv'
<1> DEFINE s == Head(steps)
<1>1. /\ steps # <<>> /\ UNCHANGED <<clicks, in_flight_, runtime_>>
      /\ posts' = IF s.op = "publish" THEN posts \o Signals(s) ELSE posts
      /\ calls' = IF s.op = "answer"
                  THEN {IF c.id = s.value THEN [c EXCEPT !.at = "answered"] ELSE c : c \in calls}
                  ELSE calls
  BY DEF ControllerSteps, windowVars
<1>2. s \in StepSet /\ posts \in Seq(PostSet)
  BY <1>1, Rest, Zenon DEF ShownInv, MachineTypes, WindowTypes
<1> HIDE DEF s
<1>3. CASE s.op = "answer"
  <2>1. UNCHANGED posts
    BY <1>1, <1>3, Zenon
  <2>2. CASE \E c \in calls : c.id = s.value
    <3>1. PICK c \in calls : c.id = s.value
      BY <2>2
    <3> DEFINE d == [c EXCEPT !.at = "answered"]
    <3>2. \A x, y \in calls : x.id = y.id => x = y
      BY DEF CommandInv
    <3>3. calls' = (calls \ {c}) \union {d}
      BY <1>1, <1>3, <3>1, <3>2, Zenon
    <3>4. c \in CallSet
      BY DEF CommandInv
    <3>5. d \in CallSet /\ d.id = c.id /\ d.api = c.api
      BY <3>4, Zenon DEF CallSet
    <3> HIDE DEF d
    <3> QED
      BY <1>1, <2>1, <3>3, <3>5, CallKeepsCommands, Zenon
  <2>3. CASE ~ \E c \in calls : c.id = s.value
    <3>1. calls' = calls
      BY <1>1, <1>3, <2>3, Zenon
    <3> QED
      BY <1>1, <2>1, <3>1, IdleKeepsCommands, Zenon
  <2> QED
    BY <2>2, <2>3, Zenon
<1>4. CASE s.op # "answer"
  <2>1. Finished(posts') = Finished(posts)
    <3>1. CASE s.op = "publish"
      <4>1. s \in PublishSet
        BY <1>2, <3>1, Zenon DEF StepSet, StoreSet, AnswerSet
      <4>2. Signals(s) \in Seq(PostSet) /\ ~ Holds(Signals(s), {"finished"})
        BY <4>1, SignalsOf, Zenon
      <4> QED
        BY <1>1, <1>2, <3>1, <4>2, FinishedJoin, Zenon
    <3> QED
      BY <1>1, <3>1, Zenon
  <2> QED
    BY <1>1, <1>4, <2>1, IdleKeepsCommands, Zenon
<1> QED
  BY <1>3, <1>4, Zenon

(* The other threads' events are no reports. *)
LEMMA EventsKeepCommands ==
  ASSUME ShownInv, CommandInv, WorkerPublishes \/ ScanStalls
  PROVE  CommandInv'
<1>1. PICK e \in PublishSet \union ResultSet : posts' = posts \o Signals(e)
  <2>1. CASE WorkerPublishes
    <3>1. unpublished # <<>> /\ posts' = posts \o Signals(Head(unpublished))
      BY <2>1, Zenon DEF WorkerPublishes
    <3>2. Head(unpublished) \in ResultSet
      BY <3>1, Rest, Zenon DEF ShownInv, MachineTypes
    <3> QED
      BY <3>1, <3>2, Zenon
  <2>2. CASE ScanStalls
    <3>1. Publish("AlarmCleared", 0) \in PublishSet /\ Publish("AlarmSet", "ScanStall") \in PublishSet
      BY PanelAssumption, Zenon DEF Publish, PublishSet, Events, Values
    <3> QED
      BY <2>2, <3>1, Zenon DEF ScanStalls
  <2> QED
    BY <2>1, <2>2, Zenon
<1>2. UNCHANGED <<calls, clicks, in_flight_, runtime_>>
  BY Zenon DEF WorkerPublishes, ScanStalls, windowVars
<1>3. Signals(e) \in Seq(PostSet) /\ ~ Holds(Signals(e), {"finished"}) /\ posts \in Seq(PostSet)
  BY SignalsOf, Zenon DEF ShownInv, WindowTypes
<1>4. Finished(posts') = Finished(posts)
  BY <1>1, <1>3, FinishedJoin, Zenon
<1> QED
  BY <1>2, <1>4, IdleKeepsCommands, Zenon

(* The pool thread's command becomes a report in the queue. *)
LEMMA ReturnKeepsCommands ==
  ASSUME ShownInv, CommandInv, NEW c \in calls, CallReturns(c)
  PROVE  CommandInv'
<1>1. /\ calls' = calls \ {c} /\ posts' = Append(posts, Post("finished", c.id))
      /\ UNCHANGED <<clicks, in_flight_, runtime_>>
  BY Zenon DEF CallReturns, machineVars, windowVars
<1>2. IsFiniteSet(calls) /\ posts \in Seq(PostSet)
  BY Zenon DEF ShownInv, WindowTypes, CommandInv
<1>3. IsFiniteSet(calls') /\ Cardinality(calls') = Cardinality(calls) - 1
  BY <1>1, <1>2, FS_RemoveElement, Zenon
<1>4. Cardinality(Finished(posts')) = Cardinality(Finished(posts)) + 1
  BY <1>1, <1>2, FinishedAppend, Zenon
<1>5. in_flight_' = Cardinality(calls') + Cardinality(Finished(posts'))
  BY <1>1, <1>2, <1>3, <1>4, InFlight
<1>6. /\ calls' \subseteq CallSet' /\ \A x, y \in calls' : x.id = y.id => x = y
      /\ \A x \in calls' : x.api = runtime_'
  BY <1>1, Zenon DEF CommandInv, CommandsKeepMachine, CallSet
<1> QED
  BY <1>3, <1>5, <1>6, Zenon DEF CommandInv, CommandsKeepMachine, Finished

(* The GUI thread handles an event: a report is counted off. *)
LEMMA TakesKeepsCommands ==
  ASSUME ShownInv, CommandInv, GuiTakes
  PROVE  CommandInv'
<1>1. /\ posts # <<>> /\ posts' = Tail(posts) /\ UNCHANGED <<calls, clicks, runtime_>>
      /\ in_flight_' = IF Head(posts).kind = "finished" THEN in_flight_ - 1 ELSE in_flight_
  BY Zenon DEF GuiTakes, Shows, StartsRefresh, machineVars
<1>2. posts \in Seq(PostSet)
  BY Zenon DEF ShownInv, WindowTypes
<1>3. in_flight_' = Cardinality(calls') + Cardinality(Finished(posts'))
  BY <1>1, <1>2, InFlight, FinishedRest
<1>4. /\ calls' \subseteq CallSet' /\ IsFiniteSet(calls') /\ \A x, y \in calls' : x.id = y.id => x = y
      /\ \A x \in calls' : x.api = runtime_'
  BY <1>1, Zenon DEF CommandInv, CommandsKeepMachine, CallSet
<1> QED
  BY <1>3, <1>4, Zenon DEF CommandInv, CommandsKeepMachine, Finished

(* run_command *)
LEMMA ClicksKeepCommands ==
  ASSUME ShownInv, CommandInv, NEW wafer \in Nat,
         NEW command \in {"Start", "Stop", "Abort", "ClearAlarm"} \union ControlModes,
         run_command(command, wafer)
  PROVE  CommandInv'
<1> DEFINE c == [id |-> clicks + 1, command |-> command, wafer |-> wafer, api |-> runtime_,
                 at |-> "pool"]
<1>1. /\ clicks' = clicks + 1 /\ in_flight_' = in_flight_ + 1 /\ calls' = calls \union {c}
      /\ UNCHANGED <<runtime_, posts>>
  BY Zenon DEF run_command, machineVars
<1>2. clicks \in Nat /\ runtime_ \in Nat /\ posts \in Seq(PostSet)
  BY Zenon DEF ShownInv, MachineTypes, WindowTypes
<1>3. c \in CallSet' /\ c.id = clicks + 1 /\ c.api = runtime_
  BY <1>1, <1>2 DEF CallSet
<1> HIDE DEF c
<1>4. calls \subseteq CallSet' /\ \A x \in calls : x.id \in Nat /\ x.id # clicks + 1
  BY <1>1, <1>2 DEF CommandInv, CallSet
<1>5. c \notin calls /\ IsFiniteSet(calls)
  BY <1>3, <1>4, Zenon DEF CommandInv
<1>6. Cardinality(calls') = Cardinality(calls) + 1 /\ IsFiniteSet(calls')
  BY <1>1, <1>5, FS_AddElement, Zenon
<1>7. in_flight_' = Cardinality(calls') + Cardinality(Finished(posts'))
  BY <1>1, <1>2, <1>6, InFlight
<1>8. \A x, y \in calls' : x.id = y.id => x = y
  BY <1>1, <1>3, <1>4, Zenon DEF CommandInv
<1>9. calls' \subseteq CallSet' /\ \A x \in calls' : x.api = runtime_'
  BY <1>1, <1>3, <1>4, Zenon DEF CommandInv, CommandsKeepMachine
<1> QED
  BY <1>6, <1>7, <1>8, <1>9, Zenon DEF CommandInv, CommandsKeepMachine, Finished

(* rebuild() is refused while a command is in flight: no call is left behind. *)
LEMMA RebuildKeepsCommands ==
  ASSUME ShownInv, CommandInv, NEW ok \in BOOLEAN, rebuild(ok)
  PROVE  CommandInv'
<1>1. in_flight_ = 0 /\ UNCHANGED <<calls, clicks, in_flight_, posts>>
  BY Zenon DEF rebuild, MayRebuild
<1>2. calls = {}
  BY <1>1, InFlight, Zenon DEF ShownInv, WindowTypes
<1> QED
  BY <1>1, <1>2, Zenon DEF CommandInv, CommandsKeepMachine, Finished

-----------------------------------------------------------------------------
(* The invariant, and what follows from it. *)

LEMMA PanelInit ==
  ASSUME Init
  PROVE  ShownInv /\ CommandInv
<1>1. /\ state = "Idle" /\ control_mode = "OnlineLocal" /\ has_active_alarm = FALSE
      /\ current_wafer_id = 0 /\ active_alarms = {} /\ live = Fresh /\ steps = <<>>
      /\ wafers_started = 0 /\ unpublished = <<>> /\ stalled = FALSE
      /\ runtime_ = 0 /\ built = 0 /\ completed = 0 /\ posts = <<>> /\ calls = {} /\ clicks = 0
      /\ in_flight_ = 0 /\ gui = GuiAt("build")
      /\ panel = [rules |-> NoRules, menus |-> TRUE, process |-> "Idle", mode |-> "OnlineLocal"]
      /\ banner = [shown |-> FALSE, text |-> NoAlarmText] /\ view = EmptyView
  BY PanelAssumption, Zenon DEF Init, ControllerInit
<1>2. /\ Fresh \in Snapshots /\ Fresh.state = "Idle" /\ Fresh.mode = "OnlineLocal"
      /\ Fresh.alarm = FALSE /\ NoRules \in RuleSet
  BY Zenon DEF Fresh, Snapshots, ProcessStates, ControlModes, NoRules, RuleSet
<1>3. MachineTypes
  BY <1>1, <1>2 DEF MachineTypes, ProcessStates, ControlModes
<1>4. WindowTypes
  <2>1. /\ gui \in [at : {"build", "loop", "refresh", "mode", "alarm"}, snap : Snapshots]
        /\ gui.at = "build"
    BY <1>1, <1>2, Zenon DEF GuiAt
  <2>2. panel \in [rules : RuleSet, menus : BOOLEAN, process : ProcessStates, mode : ControlModes]
    BY <1>1, <1>2, Zenon DEF ProcessStates, ControlModes
  <2>3. view \in [wafer : Values, numbers : Values, map : Values]
    BY <1>1, PanelAssumption, Zenon DEF EmptyView, Values
  <2> QED
    BY <1>1, <2>1, <2>2, <2>3 DEF WindowTypes
<1>5. LiveInv
  <2>1. StoresRight(steps, state, control_mode, has_active_alarm)
    BY <1>1 DEF StoresRight
  <2>2. live.state = state /\ live.mode = control_mode /\ live.alarm = has_active_alarm
    BY <1>1, <1>2, Zenon
  <2> QED
    BY <2>1, <2>2, Zenon DEF LiveInv
<1>6. AlarmInv
  <2>1. has_active_alarm = (state = "Alarm") /\ state # "Alarm"
    BY <1>1, Zenon
  <2>2. IsFiniteSet(active_alarms) /\ active_alarms \subseteq AlarmIds
    BY <1>1, FS_EmptySet, Zenon
  <2>3. AlarmsRefresh(posts)
    BY <1>1 DEF AlarmsRefresh
  <2> QED
    BY <1>1, <2>1, <2>2, <2>3, Zenon DEF AlarmInv
<1>7. FreshInv
  BY <1>1, Zenon DEF FreshInv, GuiAt
<1>8. ResultInv
  BY <1>1, PanelAssumption, Zenon DEF ResultInv
<1>9. CommandInv
  <2>1. Finished(posts) = {}
    BY <1>1 DEF Finished
  <2> QED
    BY <1>1, <2>1, FS_EmptySet DEF CommandInv, CommandsKeepMachine, Finished
<1> QED
  BY <1>3, <1>4, <1>5, <1>6, <1>7, <1>8, <1>9, Zenon DEF ShownInv

LEMMA PanelStep ==
  ASSUME ShownInv, CommandInv, [Next]_vars
  PROVE  ShownInv' /\ CommandInv'
<1>1. in_flight_ \in Nat /\ wafers_started \in Nat /\ posts \in Seq(PostSet)
  BY InFlight, Zenon DEF ShownInv, MachineTypes, WindowTypes
<1>2. ASSUME NEW c \in calls, HandleCall(c) PROVE ShownInv' /\ CommandInv'
  BY <1>2, CallKeepsShown, HandleKeepsCommands, Zenon
<1>3. ASSUME NEW c \in calls, CallReturns(c) PROVE ShownInv' /\ CommandInv'
  <2>1. c.id \in Nat
    BY DEF CommandInv, CallSet, ShownInv, WindowTypes
  <2> QED
    BY <1>3, <2>1, ReturnKeepsShown, ReturnKeepsCommands, Zenon
<1>4. CASE ControllerSteps
  BY <1>4, StepKeepsShown, StepKeepsCommands, Zenon
<1>5. CASE WorkerPublishes
  BY <1>5, WorkerKeepsShown, EventsKeepCommands, Zenon
<1>6. CASE GuiTakes
  BY <1>6, TakesKeepsShown, TakesKeepsCommands, Zenon
<1>7. CASE RefreshReads \/ refresh
  <2>1. UNCHANGED <<calls, clicks, in_flight_, runtime_, posts>>
    BY <1>7, Zenon DEF RefreshReads, refresh, machineVars
  <2>2. CommandInv'
    BY <2>1, IdleKeepsCommands, Zenon
  <2> QED
    BY <1>7, <2>2, ReadsKeepShown, RefreshKeepsShown, Zenon
<1>8. CASE on_start \/ on_stop \/ on_abort \/ on_clear
  <2>1. PICK command \in {"Start", "Stop", "Abort", "ClearAlarm"}, wafer \in Nat :
          run_command(command, wafer) /\ UNCHANGED panel
    <3>1. NoWafer \in Nat /\ wafers_started + 1 \in Nat
      BY <1>1, PanelAssumption
    <3> QED
      BY <1>8, <3>1, Zenon DEF on_start, on_stop, on_abort, on_clear
  <2> QED
    BY <1>1, <2>1, ClicksKeepShown, ClicksKeepCommands, Zenon
<1>9. ASSUME NEW mode \in ControlModes, on_mode_changed(mode) PROVE ShownInv' /\ CommandInv'
  <2>1. run_command(mode, 0) /\ panel' = [panel EXCEPT !.mode = mode]
    BY <1>9, PanelAssumption, Zenon DEF on_mode_changed
  <2> QED
    BY <1>1, <2>1, ClicksKeepShown, ClicksKeepCommands, Zenon
<1>10. CASE OpensDialog \/ DialogEnds
  <2>1. UNCHANGED <<calls, clicks, in_flight_, runtime_, posts>>
    BY <1>10, Zenon DEF OpensDialog, DialogEnds, machineVars
  <2>2. CommandInv'
    BY <2>1, IdleKeepsCommands
  <2> QED
    BY <1>10, <2>2, DialogKeepsShown, Zenon
<1>11. ASSUME NEW ok \in BOOLEAN, rebuild(ok) PROVE ShownInv' /\ CommandInv'
  BY <1>11, RebuildKeepsShown, RebuildKeepsCommands, Zenon
<1>12. CASE Reports
  <2>1. UNCHANGED <<calls, clicks, in_flight_, runtime_, posts>>
    BY <1>12, Zenon DEF Reports, windowVars
  <2>2. CommandInv'
    BY <2>1, IdleKeepsCommands
  <2> QED
    BY <1>12, <2>2, ReportKeepsShown, Zenon
<1>13. CASE ScanStalls
  BY <1>13, StallKeepsShown, EventsKeepCommands, Zenon
<1>14. CASE UNCHANGED vars
  <2>1. UNCHANGED <<machineVars, posts, calls, clicks, in_flight_, gui, panel, banner, view>>
    BY <1>14, Zenon DEF vars, windowVars
  <2>2. UNCHANGED runtime_ /\ WindowTypes' /\ FreshInv'
    BY <2>1, Zenon DEF ShownInv, WindowTypes, FreshInv, ShowsLive, Due, machineVars
  <2>3. ShownInv'
    BY <2>1, <2>2, QuietKeepsShown, Zenon
  <2> QED
    BY <2>1, <2>2, <2>3, IdleKeepsCommands, Zenon
<1> QED
  BY <1>2, <1>3, <1>4, <1>5, <1>6, <1>7, <1>8, <1>9, <1>10, <1>11, <1>12, <1>13, <1>14
  DEF Next, MachineNext, GuiNext, OperatorNext

(* The buttons against the state machine's guards. *)
LEMMA RulesAgree ==
  ASSUME state \in ProcessStates, has_active_alarm \in BOOLEAN, NEW w \in Nat \ {0}
  PROVE  LET rules == rules_for(state, control_mode, has_active_alarm)
         IN  /\ rules.can_start <=> Takes("Start", StartGuards("Ui", w))
             /\ rules.can_stop => Takes("Stop", DefaultGuards)
             /\ rules.can_abort <=> Takes("Abort", DefaultGuards)
             /\ rules.can_clear_alarm <=> Takes("ClearAlarm", DefaultGuards)
<1>1. /\ "Start" \in LegalTriggers(state) <=> state = "Idle"
      /\ state = "Scanning" => "Stop" \in LegalTriggers(state)
  BY DEF LegalTriggers, ProcessStates
<1>2. /\ StartGuards("Ui", w).control_allows_start = (control_mode # "OnlineRemote")
      /\ StartGuards("Ui", w).has_active_alarm = has_active_alarm
      /\ StartGuards("Ui", w).wafer_valid = TRUE
  BY PanelAssumption, Zenon DEF StartGuards, DefaultGuards, control_allows_start
<1>3. Takes("Start", StartGuards("Ui", w)) <=>
        state = "Idle" /\ ~ has_active_alarm /\ control_mode # "OnlineRemote"
  <2> DEFINE g == StartGuards("Ui", w)
  <2>1. StartVerdict(g) = Accepted <=>
          g.control_allows_start /\ ~ g.has_active_alarm /\ g.wafer_valid
    BY <1>2, Zenon DEF StartVerdict, Accepted
  <2>2. Verdict(state, "Start", g) = IF state = "Idle" THEN StartVerdict(g) ELSE "IllegalTransition"
    BY <1>1, Zenon DEF Verdict
  <2> HIDE DEF g
  <2>3. Takes("Start", g) <=> state = "Idle" /\ StartVerdict(g) = Accepted
    BY <2>2, Zenon DEF Takes, Accepted
  <2> QED
    BY <1>2, <2>1, <2>3, Zenon DEF g
<1>4. state = "Scanning" => Takes("Stop", DefaultGuards)
  BY <1>1, Zenon DEF Takes, Verdict, Accepted, DefaultGuards
<1> QED
  BY <1>3, <1>4, Triggers, Zenon DEF rules_for

LEMMA InvFollows ==
  ASSUME ShownInv
  PROVE  PanelFollowsMachine
<1> SUFFICES ASSUME CaughtUp
             PROVE  IF runtime_ = 0 THEN panel.rules = NoRules /\ panel.menus
                    ELSE /\ panel.rules.can_start <=> Takes("Start", StartGuards("Ui", wafers_started + 1))
                         /\ panel.rules.can_stop => Takes("Stop", DefaultGuards)
                         /\ panel.rules.can_abort <=> Takes("Abort", DefaultGuards)
                         /\ panel.rules.can_clear_alarm <=> Takes("ClearAlarm", DefaultGuards)
                         /\ panel.process = state
                         /\ banner.shown <=> has_active_alarm
                         /\ banner.shown => banner.text \in active_alarms
                         /\ in_flight_ = 0 => /\ panel.mode = control_mode
                                              /\ panel.menus <=> state \in {"Idle", "Alarm"}
  BY Zenon DEF PanelFollowsMachine
<1>1. gui.at = "loop" /\ ~ Due
  BY DEF CaughtUp, Looping, Due, Holds, RefreshAhead
<1>2. CASE runtime_ = 0
  BY <1>1, <1>2, Zenon DEF ShownInv, FreshInv
<1>3. CASE runtime_ # 0
  <2>1. /\ live.state = state /\ live.mode = control_mode /\ live.alarm = has_active_alarm
        /\ state = "Alarm" => banner.text \in active_alarms
    BY <1>1, AlarmHasText, Zenon
  <2>2. ShowsLive
    BY <1>1, <1>3, Zenon DEF ShownInv, FreshInv
  <2>3. /\ state \in ProcessStates /\ has_active_alarm \in BOOLEAN /\ wafers_started + 1 \in Nat \ {0}
        /\ has_active_alarm => state = "Alarm"
    <3>1. has_active_alarm = (state = "Alarm")
      BY Zenon DEF ShownInv, AlarmInv
    <3>2. state \in ProcessStates /\ wafers_started \in Nat
      BY DEF ShownInv, MachineTypes
    <3>3. has_active_alarm \in BOOLEAN /\ (has_active_alarm => state = "Alarm")
      BY <3>1, Zenon
    <3>4. wafers_started + 1 \in Nat \ {0}
      BY <3>2
    <3> QED
      BY <3>2, <3>3, <3>4, Zenon
  <2>4. panel.rules = rules_for(state, control_mode, has_active_alarm)
    BY <2>1, <2>2, Zenon DEF ShowsLive
  <2>5. /\ panel.rules.can_start <=> Takes("Start", StartGuards("Ui", wafers_started + 1))
        /\ panel.rules.can_stop => Takes("Stop", DefaultGuards)
        /\ panel.rules.can_abort <=> Takes("Abort", DefaultGuards)
        /\ panel.rules.can_clear_alarm <=> Takes("ClearAlarm", DefaultGuards)
    BY <2>3, <2>4, RulesAgree, Zenon
  <2>6. /\ panel.process = state /\ (banner.shown <=> has_active_alarm)
        /\ in_flight_ = 0 => panel.mode = control_mode /\ (panel.menus <=> state \in {"Idle", "Alarm"})
    BY <2>1, <2>2, Zenon DEF ShowsLive
  <2> QED
    BY <1>3, <2>1, <2>3, <2>5, <2>6, Zenon
<1> QED
  BY <1>2, <1>3, Zenon

LEMMA InvShows ==
  ASSUME ShownInv
  PROVE  ResultIsShown
<1> SUFFICES ASSUME CaughtUp, completed # NoWafer
             PROVE  view = [wafer |-> completed, numbers |-> completed, map |-> completed]
  BY DEF ResultIsShown
<1>1. posts = <<>> /\ unpublished = <<>>
  BY Zenon DEF CaughtUp
<1>2. LabelsEnd(completed) /\ MapEnds(completed)
  BY <1>1, Zenon DEF ShownInv, ResultInv, ToPublish
<1>3. view.wafer = completed /\ view.numbers = completed /\ view.map = completed
  BY <1>1, <1>2 DEF LabelsEnd, MapEnds, Ends, LastOf
<1> QED
  BY <1>3, Zenon DEF ShownInv, WindowTypes

(* The inductive invariant of the panel and its machine. *)
THEOREM PanelInvariant == Spec => []PanelInv
<1>1. Init => PanelInv
  BY PanelInit, Zenon DEF PanelInv
<1>2. PanelInv /\ [Next]_vars => PanelInv'
  BY PanelStep DEF PanelInv
<1> QED
  BY <1>1, <1>2, PTL DEF Spec

(* FR-UI-1: with every event handled, the panel shows the machine as it is.  The
   buttons offer what the state machine would take, the banner has the text of an
   active alarm, the menu is open when it may be: for any number of commands, of
   events in the queue and of machines built. *)
THEOREM PanelAgreesWithMachine == Spec => []PanelFollowsMachine
<1>1. PanelInv => PanelFollowsMachine
  BY InvFollows, Zenon DEF PanelInv
<1> QED
  BY <1>1, PanelInvariant, PTL

(* A completed run, until another Start is accepted, ends with its own wafer's label,
   numbers and map on the panel, in whatever order the controller's and the processing
   thread's events came. *)
THEOREM LastResultStays == Spec => []ResultIsShown
<1>1. PanelInv => ResultIsShown
  BY InvShows, Zenon DEF PanelInv
<1> QED
  BY <1>1, PanelInvariant, PTL

(* MainWindow::rebuild never replaces a machine a pool thread still calls, and
   in_flight_ is exactly the commands not yet reported. *)
THEOREM NoCommandLosesItsMachine == Spec => []CommandsKeepMachine
<1>1. PanelInv => CommandsKeepMachine
  BY DEF PanelInv, CommandInv
<1> QED
  BY <1>1, PanelInvariant, PTL
=============================================================================
