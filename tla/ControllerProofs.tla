-------------------------- MODULE ControllerProofs --------------------------
(***************************************************************************)
(* The controller keeps its invariants for every set of wafer ids and      *)
(* alarm ids, whatever work its thread is handed in whatever order; and    *)
(* the calls to its thread end, shutdown included, and the copies of an    *)
(* alarm agree, for every number of threads, lines, points and runs and    *)
(* every queue capacity.  Last, the invariant about the run that is under  *)
(* way, and the controller's handlers that keep it.                        *)
(***************************************************************************)
EXTENDS MachineRuntime, TLAPS

-----------------------------------------------------------------------------
(* The controller, whoever calls it. *)

(* The inductive invariant. *)
ControllerInv == ControllerTypeOK /\ RunHasWafer

(* ProcessStateMachine::apply ends in a process state and leaves a flag. *)
LEMMA ApplyType ==
  ASSUME NEW s \in ProcessStates, NEW stop \in BOOLEAN, NEW t \in ProcessTriggers,
         NEW g \in TransitionGuards
  PROVE  /\ Apply(s, stop, t, g).state \in ProcessStates
         /\ Apply(s, stop, t, g).stop \in BOOLEAN
  BY Zenon DEF Apply, Target, StopFlagAfter, ProcessStates, ProcessTriggers

(* What apply does to the state, trigger by trigger: the only ways into and
   out of Alarm are Fault and ClearAlarm, and only Start leaves Idle. *)
LEMMA ApplyState ==
  ASSUME NEW s \in ProcessStates, NEW stop \in BOOLEAN, NEW t \in ProcessTriggers,
         NEW g \in TransitionGuards
  PROVE  /\ Verdict(s, t, g) # Accepted => Apply(s, stop, t, g).state = s
         /\ Verdict(s, t, g) = Accepted =>
              /\ Apply(s, stop, t, g).state = Target(s, stop, t, g)
              /\ t \in LegalTriggers(s)
  BY DEF Apply, Verdict, Accepted

(* The guards the handlers build are TransitionGuards. *)
LEMMA GuardTypes ==
  ASSUME ControllerTypeOK, NEW source \in Sources, NEW wafer, NEW more \in BOOLEAN
  PROVE  /\ DefaultGuards \in TransitionGuards
         /\ StartGuards(source, wafer) \in TransitionGuards
         /\ ResultGuards(more) \in TransitionGuards
  BY Zenon DEF DefaultGuards, StartGuards, ResultGuards, TransitionGuards, ControllerTypeOK,
         control_allows_start

LEMMA InitInv == ControllerInit => ControllerInv
  BY Zenon DEF ControllerInit, ControllerInv, ControllerTypeOK, RunHasWafer,
         ProcessStates, ControlModes

LEMMA StartInv ==
  ASSUME ControllerInv, NEW source \in Sources, NEW wafer \in WaferIds \union {NoWafer},
         HandleStart(source, wafer)
  PROVE  ControllerInv'
<1> DEFINE g == StartGuards(source, wafer)
<1>1. g \in TransitionGuards /\ "Start" \in ProcessTriggers
  BY GuardTypes, Zenon DEF ControllerInv, ProcessTriggers
<1>2. CASE Takes("Start", g)
  <2>1. state = "Idle" /\ wafer # NoWafer /\ state' = "Scanning" /\ stop_after_wafer' = FALSE
    BY <1>2, Zenon DEF Takes, HandleStart, Transition, Apply, Verdict, StartVerdict, Target, Accepted,
               StopFlagAfter, StartGuards, DefaultGuards, ControllerInv, ControllerTypeOK,
               ProcessStates, LegalTriggers
  <2> QED
    BY <2>1, <1>2, Zenon DEF HandleStart, ControllerInv, ControllerTypeOK,
                     RunHasWafer, ProcessStates
<1>3. CASE ~ Takes("Start", g)
  <2>1. state' = state /\ stop_after_wafer' = stop_after_wafer
    BY <1>3 DEF Takes, HandleStart, Transition, Apply
  <2> QED
    BY <2>1, <1>3 DEF HandleStart, ControllerInv, ControllerTypeOK, RunHasWafer
<1> QED
  BY <1>2, <1>3

(* A Stop, an Abort, the end of the scan and the end of a stop move the machine
   between states other than Alarm, and out of Idle never. *)
LEMMA PlainTransition ==
  ASSUME ControllerTypeOK, NEW t \in {"Stop", "Abort", "LinesComplete", "StageStopped"},
         Transition(t, DefaultGuards)
  PROVE  /\ state' \in ProcessStates
         /\ stop_after_wafer' \in BOOLEAN
         /\ state' = "Alarm" <=> state = "Alarm"
         /\ state = "Idle" => state' = "Idle"
<1>1. t \in ProcessTriggers /\ DefaultGuards \in TransitionGuards
  BY DEF ProcessTriggers, DefaultGuards, TransitionGuards
<1>2. state' \in ProcessStates /\ stop_after_wafer' \in BOOLEAN
  BY <1>1, ApplyType DEF Transition, ControllerTypeOK
<1>3. CASE Verdict(state, t, DefaultGuards) = Accepted
  <2>1. state' = Target(state, stop_after_wafer, t, DefaultGuards) /\ t \in LegalTriggers(state)
    BY <1>1, <1>3, ApplyState DEF Transition, ControllerTypeOK
  <2>2. state # "Alarm" /\ state # "Idle"
    BY <2>1 DEF LegalTriggers
  <2>3. Target(state, stop_after_wafer, t, DefaultGuards) # "Alarm"
    BY <2>2 DEF Target
  <2> QED
    BY <1>2, <2>1, <2>2, <2>3
<1>4. CASE Verdict(state, t, DefaultGuards) # Accepted
  <2>1. state' = state
    BY <1>1, <1>4, ApplyState DEF Transition, ControllerTypeOK
  <2> QED
    BY <1>2, <2>1
<1> QED
  BY <1>3, <1>4

(* Any handler that makes such a transition, or none, and leaves the rest alone
   preserves the invariant. *)
LEMMA PlainHandlerInv ==
  ASSUME ControllerInv,
         \/ \E t \in {"Stop", "Abort", "LinesComplete", "StageStopped"} : Transition(t, DefaultGuards)
         \/ UNCHANGED <<state, stop_after_wafer>>,
         UNCHANGED <<has_active_alarm, current_wafer_id, active_alarms>>,
         control_mode' \in ControlModes
  PROVE  ControllerInv'
<1>1. /\ state' \in ProcessStates
      /\ stop_after_wafer' \in BOOLEAN
      /\ state' = "Alarm" <=> state = "Alarm"
      /\ state = "Idle" => state' = "Idle"
  BY PlainTransition DEF ControllerInv, ControllerTypeOK
<1>2. CASE state = "Alarm"
  BY <1>1, <1>2 DEF ControllerInv, ControllerTypeOK, RunHasWafer
<1>3. CASE state # "Alarm"
  BY <1>1, <1>3 DEF ControllerInv, ControllerTypeOK, RunHasWafer, ProcessStates
<1> QED
  BY <1>2, <1>3

LEMMA ClearAlarmInv ==
  ASSUME ControllerInv, NEW source \in Sources, HandleClearAlarm(source)
  PROVE  ControllerInv'
<1>1. CASE /\ control_allows_host_command(control_mode, source)
           /\ Takes("ClearAlarm", DefaultGuards)
  <2>1. "ClearAlarm" \in ProcessTriggers /\ DefaultGuards \in TransitionGuards
    BY DEF ProcessTriggers, DefaultGuards, TransitionGuards
  <2>2. state' = "Idle" /\ stop_after_wafer' \in BOOLEAN
    BY <1>1, <2>1, ApplyState, ApplyType
       DEF HandleClearAlarm, Transition, Takes, Target, ControllerInv, ControllerTypeOK
  <2> QED
    BY <1>1, <2>2, Zenon DEF HandleClearAlarm, ControllerInv, ControllerTypeOK,
                     RunHasWafer, ProcessStates
<1>2. CASE ~ (/\ control_allows_host_command(control_mode, source)
              /\ Takes("ClearAlarm", DefaultGuards))
  BY <1>2 DEF HandleClearAlarm, ControllerInv, ControllerTypeOK, RunHasWafer
<1> QED
  BY <1>1, <1>2

LEMMA RaiseAlarmInv ==
  ASSUME ControllerInv, NEW id \in AlarmIds, RaiseAlarm(id),
         UNCHANGED <<control_mode, current_wafer_id>>
  PROVE  ControllerInv'
<1>1. CASE Takes("Fault", DefaultGuards)
  <2>1. "Fault" \in ProcessTriggers /\ DefaultGuards \in TransitionGuards
    BY DEF ProcessTriggers, DefaultGuards, TransitionGuards
  <2>2. state' = "Alarm" /\ stop_after_wafer' \in BOOLEAN
    BY <1>1, <2>1, ApplyState, ApplyType
       DEF RaiseAlarm, Transition, Takes, Target, ControllerInv, ControllerTypeOK
  <2> QED
    BY <1>1, <2>2 DEF RaiseAlarm, ControllerInv, ControllerTypeOK,
                     RunHasWafer, ProcessStates
<1>2. CASE ~ Takes("Fault", DefaultGuards)
  BY <1>2 DEF RaiseAlarm, ControllerInv, ControllerTypeOK, RunHasWafer
<1> QED
  BY <1>1, <1>2

LEMMA ResultInv ==
  ASSUME ControllerInv, NEW more \in BOOLEAN, ProcessingResult(more)
  PROVE  ControllerInv'
<1> DEFINE g == ResultGuards(more)
<1>1. "ResultReady" \in ProcessTriggers /\ g \in TransitionGuards
  BY Zenon DEF ProcessTriggers, ResultGuards, DefaultGuards, TransitionGuards
<1>2. stop_after_wafer' \in BOOLEAN
  BY <1>1, ApplyType DEF ProcessingResult, Transition, ControllerInv, ControllerTypeOK
<1>3. CASE Verdict(state, "ResultReady", g) = Accepted
  <2>1. /\ state' = Target(state, stop_after_wafer, "ResultReady", g)
        /\ "ResultReady" \in LegalTriggers(state)
    BY <1>1, <1>3, ApplyState DEF ProcessingResult, Transition, ControllerInv, ControllerTypeOK
  <2>2. state = "Processing"
    BY <2>1 DEF LegalTriggers, ControllerInv, ControllerTypeOK, ProcessStates
  <2>3. state' \in {"Scanning", "Idle"}
    BY <2>1 DEF Target
  <2> QED
    BY <1>2, <2>2, <2>3 DEF ProcessingResult, ControllerInv, ControllerTypeOK,
                           RunHasWafer, ProcessStates
<1>4. CASE Verdict(state, "ResultReady", g) # Accepted
  <2>1. state' = state
    BY <1>1, <1>4, ApplyState DEF ProcessingResult, Transition, ControllerInv, ControllerTypeOK
  <2> QED
    BY <1>2, <2>1 DEF ProcessingResult, ControllerInv, ControllerTypeOK,
                     RunHasWafer
<1> QED
  BY <1>3, <1>4

LEMMA NextInv == ControllerInv /\ [ControllerNext]_controllerVars => ControllerInv'
<1> SUFFICES ASSUME ControllerInv, [ControllerNext]_controllerVars
             PROVE  ControllerInv'
  OBVIOUS
<1>0. control_mode \in ControlModes
  BY DEF ControllerInv, ControllerTypeOK
<1>1. ASSUME NEW source \in Sources, NEW wafer \in WaferIds \union {NoWafer},
             HandleStart(source, wafer)
      PROVE  ControllerInv'
  BY <1>1, StartInv
<1>2. ASSUME NEW source \in Sources, HandleStop(source)
      PROVE  ControllerInv'
  BY <1>0, <1>2, PlainHandlerInv DEF HandleStop
<1>3. ASSUME NEW source \in Sources, HandleAbort(source)
      PROVE  ControllerInv'
  BY <1>0, <1>3, PlainHandlerInv DEF HandleAbort
<1>4. ASSUME NEW source \in Sources, HandleClearAlarm(source)
      PROVE  ControllerInv'
  BY <1>4, ClearAlarmInv
<1>5. ASSUME NEW source \in Sources, NEW mode \in ControlModes,
             HandleSetControlMode(source, mode)
      PROVE  ControllerInv'
  BY <1>0, <1>5, PlainHandlerInv DEF HandleSetControlMode
<1>6. CASE ScanComplete
  BY <1>0, <1>6, PlainHandlerInv DEF ScanComplete
<1>7. ASSUME NEW id \in AlarmIds, ProcessingAlarm(id)
      PROVE  ControllerInv'
  BY <1>0, <1>7, RaiseAlarmInv DEF ProcessingAlarm
<1>8. ASSUME NEW id \in AlarmIds, NotifyFault(id)
      PROVE  ControllerInv'
  BY <1>0, <1>8, RaiseAlarmInv DEF NotifyFault
<1>9. ASSUME NEW more \in BOOLEAN, ProcessingResult(more)
      PROVE  ControllerInv'
  BY <1>9, ResultInv
<1>10. CASE StageStopped
  BY <1>0, <1>10, PlainHandlerInv DEF StageStopped
<1>11. CASE UNCHANGED controllerVars
  BY <1>11 DEF controllerVars, ControllerInv, ControllerTypeOK, RunHasWafer
<1>12. CASE AlarmTableChanges
  BY <1>12 DEF AlarmTableChanges, ControllerInv, ControllerTypeOK, RunHasWafer
<1> QED
  BY <1>1, <1>2, <1>3, <1>4, <1>5, <1>6, <1>7, <1>8, <1>9, <1>10, <1>11, <1>12
     DEF ControllerNext, HandleCommand, HandleNotification

(* The controller's variables keep the values their types allow, whatever the
   handlers of controller.cpp do. *)
THEOREM ControllerTypeCorrect == ControllerSpec => []ControllerTypeOK
<1>1. ControllerSpec => []ControllerInv
  BY InitInv, NextInv, PTL DEF ControllerSpec
<1>2. ControllerInv => ControllerTypeOK
  BY DEF ControllerInv
<1> QED
  BY <1>1, <1>2, PTL

(* Whatever state a run is in, it has a wafer id to announce (current_wafer_id_
   is set by the accepted Start and never emptied). *)
THEOREM RunAlwaysHasWafer == ControllerSpec => []RunHasWafer
<1>1. ControllerSpec => []ControllerInv
  BY InitInv, NextInv, PTL DEF ControllerSpec
<1>2. ControllerInv => RunHasWafer
  BY DEF ControllerInv
<1> QED
  BY <1>1, <1>2, PTL

-----------------------------------------------------------------------------
(* The calls to the controller thread: the inductive invariants. *)

Blocks == [run : Nat, line : Nat]
Posts == [op : Commands \union {"LinesComplete", "Result", "StageStopped"}, from : Threads,
          arg : Commands \union {"LinesComplete", "StageStopped"} \union Verdicts]
Scans == [pc : {"off", "line", "point", "stalled", "push", "stopped", "complete", "reported"},
          run : Nat, line : Nat, point : Nat, aborted : BOOLEAN]
Workers == [pc : {"off", "idle", "discard", "collect", "analyse", "resulted", "publish", "stopping"},
            run : Nat, lines : Seq(Blocks), verdict : Verdicts]
Jobs == [kind : {"DiscardSamples", "ProcessWafer"}, run : Nat]
Handlers == [pc : {"off", "idle", "starting", "aborting"}, from : Threads]

ThreadTypes ==
  /\ inbox \in Seq(Posts) /\ waiting \in SUBSET Threads
  /\ inbox_closed \in BOOLEAN /\ samples_closed \in BOOLEAN /\ jobs_closed \in BOOLEAN
  /\ ctl \in Handlers /\ scan \in Scans /\ worker \in Workers
  /\ owner \in DOMAIN AfterCall \union {"running", "done"}

(* A thread that waits has one call with the controller: in the inbox, or in
   the handler that is not done yet. *)
OneCallEach ==
  /\ \A i \in DOMAIN inbox : inbox[i].from \in waiting
  /\ \A i, j \in DOMAIN inbox : inbox[i].from = inbox[j].from => i = j
  /\ ctl.pc \in {"starting", "aborting"} =>
       /\ ctl.from \in waiting \intersect Callers
       /\ \A i \in DOMAIN inbox : inbox[i].from # ctl.from

(* What the threads post, and where they are while they wait for it. *)
CallsMatchThreads ==
  /\ \A i \in DOMAIN inbox :
       /\ inbox[i].from \in Callers => inbox[i].op \in Commands
       /\ inbox[i].from = "scan" => inbox[i].op = "LinesComplete"
       /\ inbox[i].from = "worker" =>
            \/ inbox[i].op = "Result" /\ worker.pc = "resulted" /\ inbox[i].arg = worker.verdict
            \/ inbox[i].op = "StageStopped" /\ worker.pc = "stopping"
  /\ "scan" \in waiting => scan.pc = "reported"
  /\ "worker" \in waiting => worker.pc \in {"resulted", "stopping"}

(* How far shutdown has come, and what it has left behind. *)
ShutdownInOrder ==
  /\ owner # "running" => Operators \intersect waiting = {}
  /\ owner \notin {"running", "stopServer"} => Hosts \intersect waiting = {}
  /\ jobs_closed <=> owner \notin {"running", "stopServer", "abortScan", "closeJobs"}
  /\ samples_closed <=> owner \notin {"running", "stopServer", "abortScan", "closeJobs",
                                      "closeSamples"}
  /\ owner \in {"stopController", "joinScan", "closeInbox", "joinController", "done"} =>
       worker.pc = "off"
  /\ owner \in {"closeInbox", "joinController", "done"} => scan.pc = "off"
  /\ inbox_closed <=> owner \in {"joinController", "done"}

QueueTypes == samples \in Seq(Blocks) /\ jobs \in Seq(Jobs) /\ run \in Nat

CallsInv == ThreadTypes /\ OneCallEach /\ CallsMatchThreads /\ ShutdownInOrder

-----------------------------------------------------------------------------
(* Posting to the inbox, and taking from it. *)

LEMMA InboxDomain ==
  ASSUME ThreadTypes
  PROVE  /\ Len(inbox) \in Nat /\ DOMAIN inbox = 1 .. Len(inbox)
         /\ \A i \in DOMAIN inbox : inbox[i] \in Posts /\ inbox[i].from \in Threads
<1>1. inbox \in Seq(Posts)
  BY DEF ThreadTypes
<1>2. \A p \in Posts : p.from \in Threads
  BY DEF Posts
<1> QED
  BY <1>1, <1>2

(* run_on_controller_thread on an open inbox: the call is the last item. *)
LEMMA PostAppends ==
  ASSUME ThreadTypes, NEW t \in Threads, NEW op, NEW arg, ~ inbox_closed, Post(t, op, arg),
         [op |-> op, from |-> t, arg |-> arg] \in Posts
  PROVE  /\ inbox' \in Seq(Posts) /\ waiting' = waiting \union {t} /\ waiting' \in SUBSET Threads
         /\ DOMAIN inbox' = DOMAIN inbox \union {Len(inbox) + 1}
         /\ LET last == inbox'[Len(inbox) + 1]
            IN  last.op = op /\ last.from = t /\ last.arg = arg
         /\ \A i \in DOMAIN inbox : inbox'[i] = inbox[i] /\ i < Len(inbox) + 1
<1> DEFINE e == [op |-> op, from |-> t, arg |-> arg]
<1>1. inbox' = Append(inbox, e) /\ waiting' = waiting \union {t}
  BY DEF Post
<1>2. inbox \in Seq(Posts) /\ e \in Posts /\ waiting \in SUBSET Threads
  BY DEF ThreadTypes
<1> HIDE DEF e
<1>3. /\ inbox' \in Seq(Posts) /\ DOMAIN inbox' = DOMAIN inbox \union {Len(inbox) + 1}
      /\ inbox'[Len(inbox) + 1] = e
      /\ \A i \in DOMAIN inbox : inbox'[i] = inbox[i] /\ i < Len(inbox) + 1
  BY <1>1, <1>2
<1> QED
  BY <1>1, <1>2, <1>3 DEF e

LEMMA PostKeepsCalls ==
  ASSUME ThreadTypes, OneCallEach, NEW t \in Threads, t \notin waiting, NEW op, NEW arg,
         ~ inbox_closed, Post(t, op, arg), UNCHANGED ctl,
         [op |-> op, from |-> t, arg |-> arg] \in Posts
  PROVE  OneCallEach'
<1>1. /\ waiting' = waiting \union {t}
      /\ DOMAIN inbox' = DOMAIN inbox \union {Len(inbox) + 1}
      /\ inbox'[Len(inbox) + 1].from = t
      /\ \A i \in DOMAIN inbox : inbox'[i] = inbox[i]
  BY PostAppends, Zenon
<1>2. \A i \in DOMAIN inbox : inbox[i].from \in waiting /\ inbox[i].from # t
  BY DEF OneCallEach
<1>3. \A i \in DOMAIN inbox' : inbox'[i].from \in waiting'
  BY <1>1, <1>2
<1>4. \A i, j \in DOMAIN inbox' : inbox'[i].from = inbox'[j].from => i = j
  BY <1>1, <1>2 DEF OneCallEach
<1>5. ctl'.pc \in {"starting", "aborting"} =>
        /\ ctl'.from \in waiting' \intersect Callers
        /\ \A i \in DOMAIN inbox' : inbox'[i].from # ctl'.from
  BY <1>1 DEF OneCallEach
<1> QED
  BY <1>3, <1>4, <1>5 DEF OneCallEach

(* Controller::run takes the first item; the others move up. *)
LEMMA TakeMovesUp ==
  ASSUME ThreadTypes, NEW op, Take(op)
  PROVE  /\ 1 \in DOMAIN inbox /\ Head(inbox) = inbox[1] /\ inbox[1].op = op
         /\ inbox[1].from \in Threads
         /\ inbox' \in Seq(Posts)
         /\ \A i \in DOMAIN inbox' : i \in Nat \ {0} /\ i + 1 \in DOMAIN inbox /\ inbox'[i] = inbox[i + 1]
<1>1. inbox \in Seq(Posts) /\ inbox # <<>> /\ inbox' = Tail(inbox) /\ Head(inbox).op = op
  BY DEF ThreadTypes, Take
<1>2. 1 \in DOMAIN inbox /\ inbox[1].from \in Threads
  BY <1>1, InboxDomain
<1> QED
  BY <1>1, <1>2

(* A handler that is done: its caller goes on. *)
LEMMA ReplyKeeps ==
  ASSUME CallsInv, NEW op, Take(op), Reply
  PROVE  CallsInv'
<1>1. /\ 1 \in DOMAIN inbox /\ waiting' = waiting \ {inbox[1].from} /\ UNCHANGED ctl
      /\ inbox' \in Seq(Posts)
      /\ \A i \in DOMAIN inbox' : i \in Nat \ {0} /\ i + 1 \in DOMAIN inbox /\ inbox'[i] = inbox[i + 1]
  BY TakeMovesUp DEF CallsInv, Reply
<1>2. UNCHANGED <<inbox_closed, samples_closed, jobs_closed, scan, worker, owner>>
  BY DEF Take, queueVars
<1>3. ThreadTypes'
  BY <1>1, <1>2 DEF CallsInv, ThreadTypes
<1>4. OneCallEach'
  <2>1. \A i \in DOMAIN inbox' : inbox'[i].from \in waiting'
    BY <1>1 DEF CallsInv, OneCallEach
  <2>2. \A i, j \in DOMAIN inbox' : inbox'[i].from = inbox'[j].from => i = j
    BY <1>1 DEF CallsInv, OneCallEach
  <2>3. ctl'.pc \in {"starting", "aborting"} =>
          /\ ctl'.from \in waiting' \intersect Callers
          /\ \A i \in DOMAIN inbox' : inbox'[i].from # ctl'.from
    BY <1>1 DEF CallsInv, OneCallEach
  <2> QED
    BY <2>1, <2>2, <2>3 DEF OneCallEach
<1>5. CallsMatchThreads'
  BY <1>1, <1>2 DEF CallsInv, CallsMatchThreads
<1>6. ShutdownInOrder'
  BY <1>1, <1>2 DEF CallsInv, ShutdownInOrder
<1> QED
  BY <1>3, <1>4, <1>5, <1>6 DEF CallsInv

(* The handler of a command goes on with the scan driver; its caller waits. *)
LEMMA ContinueKeeps ==
  ASSUME CallsInv, NEW op \in Commands, Take(op), NEW pc \in {"starting", "aborting"}, Continue(pc)
  PROVE  CallsInv'
<1>1. /\ 1 \in DOMAIN inbox /\ inbox[1].op = op /\ inbox[1].from \in Threads
      /\ ctl' = [pc |-> pc, from |-> inbox[1].from] /\ UNCHANGED waiting
      /\ inbox' \in Seq(Posts)
      /\ \A i \in DOMAIN inbox' : i \in Nat \ {0} /\ i + 1 \in DOMAIN inbox /\ inbox'[i] = inbox[i + 1]
  BY TakeMovesUp DEF CallsInv, Continue
<1>2. UNCHANGED <<inbox_closed, samples_closed, jobs_closed, scan, worker, owner>>
  BY DEF Take, queueVars
<1>3. inbox[1].from \in Callers
  <2>1. op \notin {"LinesComplete", "Result", "StageStopped"}
    BY DEF Commands, ControlModes
  <2> QED
    BY <1>1, <2>1 DEF CallsInv, CallsMatchThreads, Threads
<1>4. ThreadTypes'
  <2>1. ctl' \in Handlers
    BY <1>1 DEF Handlers
  <2> QED
    BY <1>1, <1>2, <2>1 DEF CallsInv, ThreadTypes
<1>5. OneCallEach'
  <2>1. \A i \in DOMAIN inbox' : inbox'[i].from \in waiting'
    BY <1>1 DEF CallsInv, OneCallEach
  <2>2. \A i, j \in DOMAIN inbox' : inbox'[i].from = inbox'[j].from => i = j
    BY <1>1 DEF CallsInv, OneCallEach
  <2>3. /\ ctl'.from \in waiting' \intersect Callers
        /\ \A i \in DOMAIN inbox' : inbox'[i].from # ctl'.from
    BY <1>1, <1>3 DEF CallsInv, OneCallEach
  <2> QED
    BY <2>1, <2>2, <2>3, Zenon DEF OneCallEach
<1>6. CallsMatchThreads'
  BY <1>1, <1>2, Zenon DEF CallsInv, CallsMatchThreads
<1>7. ShutdownInOrder'
  BY <1>1, <1>2, Zenon DEF CallsInv, ShutdownInOrder
<1> QED
  BY <1>4, <1>5, <1>6, <1>7 DEF CallsInv

-----------------------------------------------------------------------------
(* The steps of the threads, as far as their calls are concerned. *)

callVars == <<inbox, inbox_closed, waiting, ctl, scan, samples_closed, jobs_closed, worker, owner>>

LEMMA CallsUnchanged == CallsInv /\ UNCHANGED callVars => CallsInv'
  BY DEF CallsInv, callVars, ThreadTypes, OneCallEach, CallsMatchThreads, ShutdownInOrder

(* The scan thread outside a call. *)
LEMMA ScanMoves ==
  ASSUME CallsInv, scan.pc # "off", "scan" \notin waiting, scan' \in Scans,
         UNCHANGED <<inbox, inbox_closed, waiting, ctl, samples_closed, jobs_closed, worker, owner>>
  PROVE  CallsInv'
<1>1. ThreadTypes'
  BY DEF CallsInv, ThreadTypes
<1>2. OneCallEach'
  BY Zenon DEF CallsInv, OneCallEach
<1>3. CallsMatchThreads'
  BY DEF CallsInv, CallsMatchThreads
<1>4. ShutdownInOrder'
  BY DEF CallsInv, ShutdownInOrder
<1> QED
  BY <1>1, <1>2, <1>3, <1>4 DEF CallsInv

(* The worker outside a call. *)
LEMMA WorkerMoves ==
  ASSUME CallsInv, worker.pc # "off", "worker" \notin waiting, worker' \in Workers,
         UNCHANGED <<inbox, inbox_closed, waiting, ctl, scan, samples_closed, jobs_closed, owner>>
  PROVE  CallsInv'
<1>1. ThreadTypes'
  BY DEF CallsInv, ThreadTypes
<1>2. OneCallEach'
  BY Zenon DEF CallsInv, OneCallEach
<1>3. CallsMatchThreads'
  <2>1. \A i \in DOMAIN inbox : inbox[i].from # "worker"
    BY DEF CallsInv, OneCallEach
  <2> QED
    BY <2>1, Zenon DEF CallsInv, CallsMatchThreads
<1>4. ShutdownInOrder'
  BY DEF CallsInv, ShutdownInOrder
<1> QED
  BY <1>1, <1>2, <1>3, <1>4 DEF CallsInv

(* A thread that is not shut down yet posts to an open inbox. *)
LEMMA InboxOpen ==
  ASSUME CallsInv, worker.pc # "off" \/ scan.pc # "off" \/ owner \in {"running", "stopServer"}
  PROVE  ~ inbox_closed
  BY DEF CallsInv, ShutdownInOrder

(* The worker reports to the controller. *)
LEMMA WorkerPosts ==
  ASSUME CallsInv, "worker" \notin waiting, worker.pc # "off", worker' \in Workers,
         NEW op, NEW arg, Post("worker", op, arg),
         [op |-> op, from |-> "worker", arg |-> arg] \in Posts,
         \/ op = "Result" /\ worker'.pc = "resulted" /\ arg = worker'.verdict
         \/ op = "StageStopped" /\ worker'.pc = "stopping",
         UNCHANGED <<inbox_closed, ctl, scan, samples_closed, jobs_closed, owner>>
  PROVE  CallsInv'
<1>0. "worker" \in Threads /\ "worker" \notin Callers /\ ~ inbox_closed
  BY InboxOpen, RuntimeAssumption, Zenon DEF Threads
<1>1. /\ inbox' \in Seq(Posts) /\ waiting' = waiting \union {"worker"} /\ waiting' \in SUBSET Threads
      /\ DOMAIN inbox' = DOMAIN inbox \union {Len(inbox) + 1}
      /\ inbox'[Len(inbox) + 1].op = op /\ inbox'[Len(inbox) + 1].from = "worker"
      /\ inbox'[Len(inbox) + 1].arg = arg
      /\ \A i \in DOMAIN inbox : inbox'[i] = inbox[i]
  BY <1>0, PostAppends, Zenon DEF CallsInv
<1>2. ThreadTypes'
  BY <1>1 DEF CallsInv, ThreadTypes
<1>3. OneCallEach'
  BY <1>0, PostKeepsCalls, Zenon DEF CallsInv
<1>4. CallsMatchThreads'
  <2>1. \A i \in DOMAIN inbox : inbox[i].from # "worker"
    BY Zenon DEF CallsInv, OneCallEach
  <2>2. \A i \in DOMAIN inbox' :
          /\ inbox'[i].from \in Callers => inbox'[i].op \in Commands
          /\ inbox'[i].from = "scan" => inbox'[i].op = "LinesComplete"
    BY <1>0, <1>1, Zenon DEF CallsInv, CallsMatchThreads
  <2>3. \A i \in DOMAIN inbox' : inbox'[i].from = "worker" => i = Len(inbox) + 1
    BY <1>1, <2>1, Zenon
  <2>4. "scan" \in waiting' => scan'.pc = "reported"
    BY <1>1, Zenon DEF CallsInv, CallsMatchThreads
  <2> QED
    BY <1>1, <2>2, <2>3, <2>4 DEF CallsMatchThreads
<1>5. ShutdownInOrder'
  <2>1. \A S : S \subseteq Callers => S \intersect waiting' = S \intersect waiting
    BY <1>0, <1>1
  <2> QED
    BY <2>1, Zenon DEF CallsInv, ShutdownInOrder, Callers
<1> QED
  BY <1>2, <1>3, <1>4, <1>5 DEF CallsInv

(* on_lines_complete_ reports to the controller. *)
LEMMA ReportKeeps ==
  ASSUME CallsInv, ScanReport
  PROVE  CallsInv'
<1>0. /\ "scan" \in Threads /\ "scan" \notin Callers /\ ~ inbox_closed /\ "scan" \notin waiting
      /\ scan'.pc = "reported" /\ scan' \in Scans
      /\ UNCHANGED <<inbox_closed, ctl, samples_closed, jobs_closed, worker, owner>>
  <2>1. scan \in Scans /\ scan.pc = "complete"
    BY DEF CallsInv, ThreadTypes, ScanReport
  <2>2. scan' = [scan EXCEPT !.pc = "reported"]
    BY DEF ScanReport
  <2>3. scan'.pc = "reported" /\ scan' \in Scans
    BY <2>1, <2>2 DEF Scans
  <2> QED
    BY <2>1, <2>3, InboxOpen, RuntimeAssumption
       DEF Threads, CallsInv, CallsMatchThreads, ScanReport, ScanFrame
<1>1. [op |-> "LinesComplete", from |-> "scan", arg |-> "LinesComplete"] \in Posts
  BY <1>0 DEF Posts
<1>2. /\ inbox' \in Seq(Posts) /\ waiting' = waiting \union {"scan"} /\ waiting' \in SUBSET Threads
      /\ DOMAIN inbox' = DOMAIN inbox \union {Len(inbox) + 1}
      /\ inbox'[Len(inbox) + 1].op = "LinesComplete" /\ inbox'[Len(inbox) + 1].from = "scan"
      /\ \A i \in DOMAIN inbox : inbox'[i] = inbox[i]
  BY <1>0, <1>1, PostAppends, Zenon DEF CallsInv, ScanReport
<1>3. ThreadTypes'
  BY <1>0, <1>2 DEF CallsInv, ThreadTypes
<1>4. OneCallEach'
  BY <1>0, <1>1, PostKeepsCalls DEF CallsInv, ScanReport
<1>5. CallsMatchThreads'
  BY <1>0, <1>2 DEF CallsInv, CallsMatchThreads
<1>6. ShutdownInOrder'
  <2>1. \A S : S \subseteq Callers => S \intersect waiting' = S \intersect waiting
    BY <1>0, <1>2
  <2>2. scan.pc # "off" /\ scan'.pc # "off"
    BY <1>0 DEF ScanReport
  <2> QED
    BY <1>0, <2>1, <2>2 DEF CallsInv, ShutdownInOrder, Callers
<1> QED
  BY <1>3, <1>4, <1>5, <1>6 DEF CallsInv

LEMMA SubmitKeeps ==
  ASSUME CallsInv, NEW c \in Callers, NEW command \in Repertoire, Submit(c, command)
  PROVE  CallsInv'
<1>0. /\ c \in Threads /\ c \notin {"scan", "worker"} /\ c \notin waiting /\ command \in Commands
      /\ ~ inbox_closed
      /\ UNCHANGED <<inbox_closed, ctl, scan, samples_closed, jobs_closed, worker, owner>>
  BY InboxOpen, RuntimeAssumption DEF Threads, Submit, queueVars
<1>1. [op |-> command, from |-> c, arg |-> command] \in Posts
  BY <1>0, Zenon DEF Posts
<1>2. /\ inbox' \in Seq(Posts) /\ waiting' = waiting \union {c} /\ waiting' \in SUBSET Threads
      /\ DOMAIN inbox' = DOMAIN inbox \union {Len(inbox) + 1}
      /\ inbox'[Len(inbox) + 1].op = command /\ inbox'[Len(inbox) + 1].from = c
      /\ \A i \in DOMAIN inbox : inbox'[i] = inbox[i]
  BY <1>0, <1>1, PostAppends, Zenon DEF CallsInv, Submit
<1>3. ThreadTypes'
  BY <1>0, <1>2 DEF CallsInv, ThreadTypes
<1>4. OneCallEach'
  BY <1>0, <1>1, PostKeepsCalls, Zenon DEF CallsInv, Submit
<1>5. CallsMatchThreads'
  BY <1>0, <1>2 DEF CallsInv, CallsMatchThreads
<1>6. ShutdownInOrder'
  <2>1. owner = "running" \/ (owner = "stopServer" /\ c \notin Operators)
    BY RuntimeAssumption DEF Submit
  <2> QED
    BY <1>0, <1>2, <2>1 DEF CallsInv, ShutdownInOrder
<1> QED
  BY <1>3, <1>4, <1>5, <1>6 DEF CallsInv

(* The ways the scan thread's record is updated. *)
LEMMA ScanUpdate ==
  ASSUME NEW s \in Scans, NEW n \in Nat,
         NEW pc \in {"off", "line", "point", "stalled", "push", "stopped", "complete", "reported"}
  PROVE  /\ [s EXCEPT !.pc = pc] \in Scans
         /\ [s EXCEPT !.pc = pc, !.aborted = TRUE] \in Scans
         /\ [s EXCEPT !.pc = pc, !.point = n] \in Scans
         /\ [s EXCEPT !.pc = pc, !.line = n] \in Scans
         /\ [s EXCEPT !.pc = pc, !.run = n] \in Scans
         /\ ScanOff \in Scans
<1>1. [s EXCEPT !.pc = pc] \in Scans /\ [s EXCEPT !.pc = pc, !.aborted = TRUE] \in Scans
  BY Zenon DEF Scans
<1>2. [s EXCEPT !.pc = pc, !.point = n] \in Scans /\ [s EXCEPT !.pc = pc, !.line = n] \in Scans
  BY Zenon DEF Scans
<1>3. [s EXCEPT !.pc = pc, !.run = n] \in Scans
  BY Zenon DEF Scans
<1>4. ScanOff \in Scans
  BY DEF Scans, ScanOff
<1> QED
  BY <1>1, <1>2, <1>3, <1>4

(* The end of the handlers of Start and Abort, which drive the scan thread. *)
LEMMA DriverKeeps ==
  ASSUME CallsInv, QueueTypes, ControllerStartScan \/ ControllerRequestAbort
  PROVE  CallsInv'
<1>1. /\ ctl.pc \in {"starting", "aborting"} /\ ctl' = ControllerIdle /\ waiting' = waiting \ {ctl.from}
      /\ UNCHANGED <<inbox, inbox_closed, samples_closed, jobs_closed, worker, owner>>
      /\ \/ UNCHANGED scan
         \/ scan.pc = "off" /\ scan' = [ScanOff EXCEPT !.pc = "line", !.run = run]
  BY DEF ControllerStartScan, ControllerRequestAbort, queueVars
<1>2. ctl.from \in waiting /\ ctl.from \in Callers /\ \A i \in DOMAIN inbox : inbox[i].from # ctl.from
  BY <1>1 DEF CallsInv, OneCallEach
<1>3. owner \in {"running", "stopServer"}
  BY <1>2 DEF CallsInv, ShutdownInOrder, Callers
<1>4. ThreadTypes'
  <2>1. ctl' \in Handlers
    BY <1>1 DEF ControllerIdle, Handlers, Threads
  <2>2. scan' \in Scans
    <3>1. ScanOff \in Scans /\ run \in Nat /\ scan \in Scans
      BY ScanUpdate, Zenon DEF CallsInv, ThreadTypes, QueueTypes, Scans, ScanOff
    <3>2. PICK s \in Scans : s = ScanOff
      BY <3>1
    <3>3. [s EXCEPT !.pc = "line", !.run = run] \in Scans
      BY <3>1, <3>2, Zenon DEF Scans
    <3> QED
      BY <1>1, <3>1, <3>2, <3>3
  <2> QED
    BY <1>1, <2>1, <2>2 DEF CallsInv, ThreadTypes
<1>5. OneCallEach'
  BY <1>1, <1>2 DEF CallsInv, OneCallEach, ControllerIdle
<1>6. CallsMatchThreads'
  BY <1>1 DEF CallsInv, CallsMatchThreads
<1>7. ShutdownInOrder'
  BY <1>1, <1>3 DEF CallsInv, ShutdownInOrder
<1> QED
  BY <1>4, <1>5, <1>6, <1>7 DEF CallsInv

LEMMA ControllerKeepsCalls ==
  ASSUME CallsInv, QueueTypes, ControllerStep
  PROVE  CallsInv'
<1>1. CASE \E op : Take(op) /\ Reply
  BY <1>1, ReplyKeeps
<1>2. CASE Take("Start") /\ Continue("starting")
  BY <1>2, ContinueKeeps DEF Commands
<1>3. CASE Take("Abort") /\ Continue("aborting")
  BY <1>3, ContinueKeeps DEF Commands
<1>4. CASE ControllerStartScan \/ ControllerRequestAbort
  BY <1>4, DriverKeeps
<1>5. CASE ControllerExit
  <2>1. /\ ctl' = [ControllerIdle EXCEPT !.pc = "off"]
        /\ UNCHANGED <<inbox, inbox_closed, waiting, scan, samples_closed, jobs_closed, worker, owner>>
    BY <1>5 DEF ControllerExit, queueVars
  <2>2. ctl' \in Handlers /\ ctl'.pc = "off"
    BY <2>1 DEF ControllerIdle, Handlers, Threads
  <2>3. ThreadTypes' /\ CallsMatchThreads'
    BY <2>1, <2>2 DEF CallsInv, ThreadTypes, CallsMatchThreads
  <2>4. OneCallEach' /\ ShutdownInOrder'
    BY <2>1, <2>2 DEF CallsInv, OneCallEach, ShutdownInOrder
  <2> QED
    BY <2>3, <2>4 DEF CallsInv
<1>6. CASE ControllerStart
  BY <1>1, <1>2, <1>6 DEF ControllerStart
<1>7. CASE ControllerAbort
  BY <1>1, <1>3, <1>7 DEF ControllerAbort
<1>8. CASE ControllerStop \/ ControllerClearAlarm \/ ControllerSetMode
  BY <1>1, <1>8 DEF ControllerStop, ControllerClearAlarm, ControllerSetMode
<1>9. CASE \/ ControllerScanComplete \/ ControllerProcessingAlarm \/ ControllerProcessingResult
           \/ ControllerStageStopped
  BY <1>1, <1>9, Zenon DEF ControllerScanComplete, ControllerProcessingAlarm, ControllerProcessingResult,
                    ControllerStageStopped
<1> QED
  BY <1>4, <1>5, <1>6, <1>7, <1>8, <1>9 DEF ControllerStep

LEMMA ScanKeepsCalls ==
  ASSUME CallsInv, ScanStep
  PROVE  CallsInv'
<1>0. scan \in Scans
  BY DEF CallsInv, ThreadTypes
<1>1. CASE ScanReport
  BY <1>1, ReportKeeps
<1>2. CASE ~ ScanReport
  <2>1. /\ UNCHANGED <<inbox, inbox_closed, waiting, ctl, samples_closed, jobs_closed, worker, owner>>
        /\ scan.pc # "off" /\ "scan" \notin waiting
    BY <1>2 DEF ScanStep, ScanCheck, ScanPoint, ScanStall, ScanStallEnd, ScanPush, ScanStopped,
                ScanQueueJob, ScanFrame, CallsInv, CallsMatchThreads
  <2>2. scan' \in Scans
    <3>1. CASE ScanCheck \/ ScanStall \/ ScanStopped \/ ScanQueueJob
      BY <1>0, <3>1, ScanUpdate, Zenon DEF ScanCheck, ScanStall, ScanStopped, ScanQueueJob
    <3>2. CASE ScanPoint \/ ScanStallEnd
      <4>1. scan.point + 1 \in Nat
        BY <1>0 DEF Scans
      <4>2. PICK n \in Nat, pc \in {"line", "push"} : scan' = [scan EXCEPT !.pc = pc, !.point = n]
        BY <3>2, <4>1, Zenon DEF ScanPoint, ScanStallEnd, NextPoint
      <4> QED
        BY <1>0, <4>2, ScanUpdate, Zenon
    <3>3. CASE ScanPush
      <4>1. \/ scan' = [scan EXCEPT !.pc = "stopped"]
            \/ scan' = [scan EXCEPT !.pc = "line", !.line = scan.line + 1]
            \/ scan' = [scan EXCEPT !.pc = "complete"]
        BY <1>0, <3>3, RuntimeAssumption DEF ScanPush, Scans
      <4>2. PICK n \in Nat : n = scan.line + 1
        BY <1>0 DEF Scans
      <4> QED
        BY <1>0, <4>1, <4>2, Zenon DEF Scans
    <3> QED
      BY <1>2, <3>1, <3>2, <3>3 DEF ScanStep
  <2> QED
    BY <2>1, <2>2, ScanMoves, Zenon
<1> QED
  BY <1>1, <1>2

WorkerPcs == {"off", "idle", "discard", "collect", "analyse", "resulted", "publish", "stopping"}

LEMMA IdleIsWorker == WorkerIdle \in Workers
<1>1. <<>> \in Seq(Blocks) /\ "InSpec" \in Verdicts
  BY DEF Verdicts
<1> QED
  BY <1>1 DEF Workers, WorkerIdle

(* notify_stage_stopped, from the three places that call it. *)
LEMMA ReportStoppedKeeps ==
  ASSUME CallsInv, "worker" \notin waiting, worker.pc # "off", ReportStopped, WorkerFrame
  PROVE  CallsInv'
<1>1. worker \in Workers /\ worker' = [worker EXCEPT !.pc = "stopping", !.lines = <<>>]
  BY DEF CallsInv, ThreadTypes, ReportStopped
<1>2. worker' \in Workers /\ worker'.pc = "stopping"
  <2>1. <<>> \in Seq(Blocks)
    OBVIOUS
  <2> QED
    BY <1>1, <2>1, Zenon DEF Workers
<1>3. [op |-> "StageStopped", from |-> "worker", arg |-> "StageStopped"] \in Posts
  BY DEF Posts, Threads
<1> QED
  BY <1>2, <1>3, WorkerPosts DEF ReportStopped, WorkerFrame

LEMMA WorkerKeepsCalls ==
  ASSUME CallsInv, QueueTypes, WorkerStep
  PROVE  CallsInv'
<1>0. worker \in Workers /\ WorkerIdle \in Workers
  BY IdleIsWorker, Zenon DEF CallsInv, ThreadTypes
<1>1. /\ UNCHANGED <<inbox_closed, ctl, scan, samples_closed, jobs_closed, owner>>
      /\ WorkerFrame /\ "worker" \notin waiting /\ worker.pc # "off"
  BY Zenon DEF WorkerStep, WorkerPop, WorkerExit, WorkerDiscard, WorkerCollect, WorkerCheck, WorkerAnalyse,
         WorkerRecheck, WorkerPublish, WorkerStopped, WorkerFrame, CallsInv, CallsMatchThreads
<1>2. CASE ReportStopped
  BY <1>1, <1>2, ReportStoppedKeeps
<1>3. CASE WorkerAnalyse
  <2>1. PICK v \in Verdicts : /\ Post("worker", "Result", v)
                              /\ worker' = [worker EXCEPT !.pc = "resulted", !.verdict = v, !.lines = <<>>]
    BY <1>3, Zenon DEF WorkerAnalyse
  <2>2. worker' \in Workers /\ worker'.pc = "resulted" /\ worker'.verdict = v
    <3>1. <<>> \in Seq(Blocks)
      OBVIOUS
    <3> QED
      BY <1>0, <2>1, <3>1, Zenon DEF Workers
  <2>3. [op |-> "Result", from |-> "worker", arg |-> v] \in Posts
    BY DEF Posts, Threads
  <2> QED
    BY <1>1, <2>1, <2>2, <2>3, WorkerPosts, Zenon
<1>4. CASE UNCHANGED <<inbox, waiting>> /\ worker' \in Workers
  BY <1>1, <1>4, WorkerMoves
<1>5. ASSUME NEW pc \in WorkerPcs, UNCHANGED <<inbox, waiting>>, worker' = [worker EXCEPT !.pc = pc]
      PROVE  CallsInv'
  <2>1. worker' \in Workers
    BY <1>0, <1>5 DEF Workers, WorkerPcs
  <2> QED
    BY <1>4, <1>5, <2>1
<1>6. CASE WorkerPop
  <2>1. PICK n \in Nat : n = Head(jobs).run
    <3>1. Head(jobs) \in Jobs
      BY <1>6 DEF WorkerPop, QueueTypes
    <3> QED
      BY <3>1 DEF Jobs
  <2>2. PICK pc \in {"discard", "collect"} : worker' = [WorkerIdle EXCEPT !.pc = pc, !.run = n]
    BY <1>6, <2>1, Zenon DEF WorkerPop
  <2>3. PICK w \in Workers : w = WorkerIdle
    BY <1>0
  <2>4. worker' \in Workers
    BY <2>2, <2>3, Zenon DEF Workers
  <2> QED
    BY <1>4, <1>6, <2>4 DEF WorkerPop
<1>7. CASE WorkerExit
  <2>1. PICK w \in Workers : w = WorkerIdle
    BY <1>0
  <2>2. worker' = [w EXCEPT !.pc = "off"]
    BY <1>7, <2>1 DEF WorkerExit
  <2>3. worker' \in Workers
    BY <2>2 DEF Workers
  <2> QED
    BY <1>4, <1>7, <2>3 DEF WorkerExit
<1>8. CASE WorkerDiscard
  BY <1>0, <1>2, <1>4, <1>8 DEF WorkerDiscard
<1>9. CASE WorkerCollect
  <2>1. CASE samples # <<>>
    <3>1. PICK l \in Seq(Blocks) : l = Append(worker.lines, Head(samples))
      <4>1. Head(samples) \in Blocks
        BY <2>1 DEF QueueTypes
      <4>2. worker.lines \in Seq(Blocks)
        BY <1>0 DEF Workers
      <4>3. Append(worker.lines, Head(samples)) \in Seq(Blocks)
        BY <4>1, <4>2
      <4> QED
        BY <4>3, Zenon
    <3>2. worker' = [worker EXCEPT !.lines = l]
      BY <1>9, <2>1, <3>1 DEF WorkerCollect
    <3>3. worker' \in Workers
      BY <1>0, <3>2, Zenon DEF Workers
    <3> QED
      BY <1>4, <1>9, <3>3 DEF WorkerCollect
  <2>2. CASE samples = <<>>
    BY <1>0, <1>4, <1>9, <2>2 DEF WorkerCollect
  <2> QED
    BY <2>1, <2>2
<1>10. CASE WorkerCheck
  BY <1>2, <1>5, <1>10 DEF WorkerCheck, WorkerPcs
<1>11. CASE WorkerRecheck
  BY <1>2, <1>5, <1>11, Zenon DEF WorkerRecheck, WorkerPcs
<1>12. CASE WorkerPublish \/ WorkerStopped
  BY <1>0, <1>4, <1>12 DEF WorkerPublish, WorkerStopped
<1> QED
  BY <1>3, <1>6, <1>7, <1>8, <1>9, <1>10, <1>11, <1>12 DEF WorkerStep

(* shutdown, call by call. *)
LEMMA OwnerKeepsCalls ==
  ASSUME CallsInv, BeginShutdown \/ ShutdownCall
  PROVE  CallsInv'
<1>0. UNCHANGED <<inbox, waiting, ctl, scan, worker>>
  BY Zenon DEF BeginShutdown, ShutdownCall, OwnerFrame
<1>1. OneCallEach' /\ CallsMatchThreads'
  BY <1>0 DEF CallsInv, OneCallEach, CallsMatchThreads
<1>2. CASE BeginShutdown
  <2>1. owner' = "stopServer" /\ owner = "running"
        /\ UNCHANGED <<inbox_closed, samples_closed, jobs_closed>>
    BY <1>2, Zenon DEF BeginShutdown
  <2>2. ThreadTypes'
    BY <1>0, <2>1, Zenon DEF CallsInv, ThreadTypes, AfterCall
  <2>3. ShutdownInOrder'
    BY <1>0, <1>2, <2>1 DEF CallsInv, ShutdownInOrder, BeginShutdown
  <2> QED
    BY <1>1, <2>2, <2>3 DEF CallsInv
<1>3. CASE ShutdownCall
  <2>0. /\ owner \in DOMAIN AfterCall /\ owner' = AfterCall[owner] /\ CallReturns
        /\ jobs_closed' = (jobs_closed \/ owner = "closeJobs")
        /\ samples_closed' = (samples_closed \/ owner = "closeSamples")
        /\ inbox_closed' = (inbox_closed \/ owner = "closeInbox")
    BY <1>3, Zenon DEF ShutdownCall
  <2>1. \/ owner = "stopServer" /\ owner' = "abortScan"
        \/ owner = "abortScan" /\ owner' = "closeJobs"
        \/ owner = "closeJobs" /\ owner' = "closeSamples"
        \/ owner = "closeSamples" /\ owner' = "joinWorker"
        \/ owner = "joinWorker" /\ owner' = "stopController"
        \/ owner = "stopController" /\ owner' = "joinScan"
        \/ owner = "joinScan" /\ owner' = "closeInbox"
        \/ owner = "closeInbox" /\ owner' = "joinController"
        \/ owner = "joinController" /\ owner' = "done"
    BY <2>0 DEF AfterCall
  <2>2. ThreadTypes'
    <3>1. owner' \in DOMAIN AfterCall \union {"running", "done"}
      BY <2>1, Zenon DEF AfterCall
    <3> QED
      BY <1>0, <2>0, <3>1, Zenon DEF CallsInv, ThreadTypes
  <2>3. ShutdownInOrder'
    BY <1>0, <2>0, <2>1, Zenon DEF CallsInv, ThreadTypes, ShutdownInOrder, CallReturns
  <2> QED
    BY <1>1, <2>2, <2>3 DEF CallsInv
<1> QED
  BY <1>2, <1>3

LEMMA QueueTypesKept ==
  ASSUME CallsInv, QueueTypes, Next
  PROVE  QueueTypes'
<1>1. CASE \E c \in Callers, command \in Repertoire : Submit(c, command)
  BY <1>1 DEF Submit, QueueTypes, queueVars, historyVars
<1>2. CASE ControllerStep
  <2>1. UNCHANGED <<samples, jobs>>
    BY <1>2, Zenon DEF ControllerStep, ControllerStart, ControllerStartScan, ControllerStop,
         ControllerAbort, ControllerRequestAbort, ControllerClearAlarm, ControllerSetMode,
         ControllerScanComplete, ControllerProcessingAlarm, ControllerProcessingResult,
         ControllerStageStopped, ControllerExit, Take, queueVars
  <2>2. run' = run \/ run' = run + 1
    BY <1>2, Zenon DEF ControllerStep, ControllerStart, ControllerStartScan, ControllerStop,
         ControllerAbort, ControllerRequestAbort, ControllerClearAlarm, ControllerSetMode,
         ControllerScanComplete, ControllerProcessingAlarm, ControllerProcessingResult,
         ControllerStageStopped, ControllerExit, historyVars
  <2> QED
    BY <2>1, <2>2 DEF QueueTypes
<1>3. CASE ScanStep
  <2>1. UNCHANGED run
    BY <1>3 DEF ScanStep, ScanCheck, ScanPoint, ScanStall, ScanStallEnd, ScanPush, ScanStopped,
                ScanReport, ScanQueueJob, ScanFrame, historyVars
  <2>2. scan \in Scans /\ scan.run \in Nat /\ scan.line \in Nat
    BY DEF CallsInv, ThreadTypes, Scans
  <2>3. samples' \in Seq(Blocks)
    <3>1. CASE ScanPush
      <4>1. PICK b \in Blocks : b = [run |-> scan.run, line |-> scan.line]
        BY <2>2, Zenon DEF Blocks
      <4> QED
        BY <3>1, <4>1 DEF ScanPush, QueueTypes
    <3> QED
      BY <1>3, <3>1 DEF ScanStep, ScanCheck, ScanPoint, ScanStall, ScanStallEnd, ScanStopped,
                        ScanReport, ScanQueueJob, QueueTypes
  <2>4. jobs' \in Seq(Jobs)
    <3>1. ASSUME NEW kind \in {"DiscardSamples", "ProcessWafer"}, PushJob(kind)
          PROVE  jobs' \in Seq(Jobs)
      <4>1. PICK j \in Jobs : j = [kind |-> kind, run |-> scan.run]
        BY <2>2, Zenon DEF Jobs
      <4> QED
        BY <3>1, <4>1 DEF PushJob, QueueTypes
    <3> QED
      BY <1>3, <3>1 DEF ScanStep, ScanCheck, ScanPoint, ScanStall, ScanStallEnd, ScanPush,
                        ScanStopped, ScanReport, ScanQueueJob, QueueTypes
  <2> QED
    BY <2>1, <2>3, <2>4, Zenon DEF QueueTypes
<1>4. CASE WorkerStep
  <2>1. UNCHANGED run
    BY <1>4, Zenon DEF WorkerStep, WorkerPop, WorkerExit, WorkerDiscard, WorkerCollect, WorkerCheck,
                WorkerAnalyse, WorkerRecheck, WorkerPublish, WorkerStopped, WorkerFrame
  <2>2. \/ UNCHANGED samples
        \/ samples # <<>> /\ samples' = Tail(samples)
    BY <1>4, Zenon DEF WorkerStep, WorkerPop, WorkerExit, WorkerDiscard, WorkerCollect, WorkerCheck,
                WorkerAnalyse, WorkerRecheck, WorkerPublish, WorkerStopped
  <2>3. \/ UNCHANGED jobs
        \/ jobs # <<>> /\ jobs' = Tail(jobs)
    BY <1>4, Zenon DEF WorkerStep, WorkerPop, WorkerExit, WorkerDiscard, WorkerCollect, WorkerCheck,
                WorkerAnalyse, WorkerRecheck, WorkerPublish, WorkerStopped
  <2>4. samples' \in Seq(Blocks)
    BY <2>2 DEF QueueTypes
  <2>5. jobs' \in Seq(Jobs)
    BY <2>3 DEF QueueTypes
  <2> QED
    BY <2>1, <2>4, <2>5 DEF QueueTypes
<1>5. CASE BeginShutdown \/ ShutdownCall \/ Terminated
  BY <1>5 DEF BeginShutdown, ShutdownCall, Terminated, OwnerFrame, QueueTypes, vars, queueVars,
              historyVars
<1> QED
  BY <1>1, <1>2, <1>3, <1>4, <1>5 DEF Next

LEMMA CallsInit == Init => CallsInv /\ QueueTypes
<1> SUFFICES ASSUME Init PROVE CallsInv /\ QueueTypes
  OBVIOUS
<1>1. ThreadTypes
  <2>1. inbox \in Seq(Posts)
    BY DEF Init
  <2>2. ctl \in Handlers /\ ScanOff \in Scans
    BY Zenon DEF Init, ControllerIdle, Handlers, Threads, ScanOff, Scans
  <2> QED
    BY <2>1, <2>2, IdleIsWorker, Zenon DEF Init, ThreadTypes
<1>2. OneCallEach /\ CallsMatchThreads
  BY SMTT(20) DEF Init, OneCallEach, CallsMatchThreads, ControllerIdle
<1>3. ShutdownInOrder
  BY DEF Init, ShutdownInOrder
<1>4. QueueTypes
  <2>1. samples = <<>> /\ jobs = <<>> /\ run = 0
    BY DEF Init
  <2> QED
    BY <2>1 DEF QueueTypes
<1> QED
  BY <1>1, <1>2, <1>3, <1>4 DEF CallsInv

LEMMA CallsStep == CallsInv /\ QueueTypes /\ [Next]_vars => CallsInv' /\ QueueTypes'
<1> SUFFICES ASSUME CallsInv, QueueTypes, [Next]_vars PROVE CallsInv' /\ QueueTypes'
  OBVIOUS
<1>1. CASE UNCHANGED vars
  BY <1>1, CallsUnchanged DEF vars, queueVars, historyVars, QueueTypes, callVars
<1>2. CASE Next
  <2>1. QueueTypes'
    BY <1>2, QueueTypesKept
  <2>2. CASE \E c \in Callers, command \in Repertoire : Submit(c, command)
    BY <2>1, <2>2, SubmitKeeps
  <2>3. CASE Terminated
    BY <2>1, <2>3, CallsUnchanged DEF Terminated, vars, queueVars, callVars
  <2> QED
    BY <1>2, <2>1, <2>2, <2>3, ControllerKeepsCalls, ScanKeepsCalls, WorkerKeepsCalls,
       OwnerKeepsCalls DEF Next
<1> QED
  BY <1>1, <1>2

LEMMA CallsAlways == Spec => [](CallsInv /\ QueueTypes)
  BY CallsInit, CallsStep, PTL DEF Spec

(* When the inbox is closed the worker and the scan thread have ended and no
   command is in flight, so nobody is left to wait. *)
LEMMA ClosedInboxIsAlone == CallsInv => NoOrphanedCaller
<1> SUFFICES ASSUME CallsInv, inbox_closed PROVE waiting = {}
  BY DEF NoOrphanedCaller
<1>1. owner \in {"joinController", "done"} /\ worker.pc = "off" /\ scan.pc = "off"
  BY Zenon DEF CallsInv, ShutdownInOrder
<1>2. "worker" \notin waiting /\ "scan" \notin waiting
  BY <1>1 DEF CallsInv, CallsMatchThreads
<1>3. Operators \intersect waiting = {} /\ Hosts \intersect waiting = {}
  BY <1>1 DEF CallsInv, ShutdownInOrder
<1> QED
  BY <1>2, <1>3 DEF CallsInv, ThreadTypes, Threads, Callers

(* Shutdown leaves nobody behind: for every number of threads, capacity of the
   queues and order of the commands, with or without pipelined Starts, no
   thread is left waiting for the future of a call that was posted to, or
   lost by, the closed inbox. *)
THEOREM ShutdownLeavesNobody == Spec => []NoOrphanedCaller
  BY CallsAlways, ClosedInboxIsAlone, PTL

-----------------------------------------------------------------------------
(* The invariant about runs and what belongs to them.  It holds when no Start is
   submitted between a wafer's result and the worker's second look at the
   state. *)

HistoryTypes ==
  /\ state \in ProcessStates
  /\ aborts \in SUBSET (1 .. run)
  /\ announced \in Seq([Announcements -> Nat]) /\ Len(announced) = run

Resting == state \in {"Idle", "Alarm"}

(* The worker has something to do for the run that is under way. *)
WorkerHasRun ==
  \/ worker.pc \in {"discard", "collect", "analyse"}
  \/ worker.pc \in {"resulted", "stopping"} /\ "worker" \in waiting
  \/ worker.pc = "resulted" /\ state = "Stopping"

(* The run under way is in one place: with the scan thread, in the job queue or
   with the worker; and nowhere when the machine rests or has just accepted
   a Start. *)
RunInOnePlace ==
  /\ scan.pc # "off" => /\ scan.run = run /\ jobs = <<>>
                        /\ ~ WorkerHasRun /\ worker.pc # "resulted"
  /\ jobs # <<>> => /\ Len(jobs) = 1 /\ jobs[1].run = run
                    /\ ~ WorkerHasRun /\ worker.pc # "resulted"
  /\ WorkerHasRun => worker.run = run
  /\ Resting \/ ctl.pc = "starting" =>
       /\ scan.pc = "off" /\ jobs = <<>> /\ samples = <<>> /\ ~ WorkerHasRun
  /\ ctl.pc = "starting" => state = "Scanning" /\ worker.pc # "resulted"

(* The state the controller is in, by where the run is. *)
StateFollowsRun ==
  /\ scan.pc \in {"line", "point", "stalled", "push", "stopped", "complete"} =>
       state \in {"Scanning", "Stopping"}
  /\ scan.pc = "reported" =>
       state \in IF "scan" \in waiting THEN {"Scanning", "Stopping"} ELSE {"Processing", "Stopping"}
  /\ jobs # <<>> =>
       state \in IF jobs[1].kind = "ProcessWafer" THEN {"Processing", "Stopping"}
                 ELSE {"Scanning", "Stopping"}
  /\ worker.pc \in {"collect", "analyse"} => state \in {"Processing", "Stopping"}
  /\ worker.pc = "discard" => state \in {"Scanning", "Stopping"}
  /\ worker.pc = "resulted" =>
       state \in IF "worker" \in waiting THEN {"Processing", "Stopping"}
                 ELSE {"Idle", "Alarm", "Stopping"}
  /\ worker.pc = "stopping" /\ "worker" \in waiting => state \in {"Scanning", "Stopping"}

(* A Start is never behind the result of the wafer before it. *)
StartsBeforeResult ==
  /\ \A i \in DOMAIN inbox : inbox[i].op = "Start" /\ worker.pc = "resulted" => "worker" \in waiting
  /\ \A i, j \in DOMAIN inbox : inbox[i].op = "Result" /\ inbox[j].op = "Start" => j < i

(* The blocks in the sample queue continue what the worker has collected. *)
BlocksInOrder ==
  /\ \A i \in DOMAIN worker.lines : worker.lines[i] = [run |-> worker.run, line |-> i - 1]
  /\ worker.lines # <<>> => worker.pc \in {"collect", "analyse"}
  /\ \A i \in DOMAIN samples :
       /\ samples[i].run = run
       /\ worker.pc # "discard" => samples[i].line = Len(worker.lines) + i - 1
  /\ Len(worker.lines) + Len(samples) <= Lines
  /\ scan.pc \in {"line", "point", "stalled", "push"} =>
       /\ scan.line < Lines
       /\ ~ samples_closed => Len(samples) = scan.line
  /\ WorkerHasRun /\ worker.pc \notin {"discard", "collect"} => samples = <<>>

EndEvents == {"ScanComplete", "QualityAlarm", "WaferResultReady", "WaferOutputsWritten"}

(* The run under way has announced nothing that ends it, unless with an Abort. *)
RunNotEnded ==
  /\ ~ Resting => run # 0
  /\ state \in {"Scanning", "Processing"} =>
       run \notin aborts /\ \A e \in EndEvents : announced[run][e] = 0
  /\ state = "Stopping" => run \in aborts

(* What the worker publishes next belongs to a run that ended with a result or
   an alarm. *)
Deliverable(r) ==
  /\ r \in 1 .. run \ aborts
  /\ r = run => Resting
  /\ announced[r]["WaferResultReady"] = 0 /\ announced[r]["WaferOutputsWritten"] = 0
  /\ announced[r]["ScanComplete"] = IF worker.verdict \in QualityAlarms THEN 0 ELSE 1
  /\ announced[r]["QualityAlarm"] = IF worker.verdict \in QualityAlarms THEN 1 ELSE 0

ResultsDeliverable ==
  (worker.pc = "publish" \/ (worker.pc = "resulted" /\ "worker" \notin waiting /\ state # "Stopping"))
    => Deliverable(worker.run)

(* The scan thread's own alarms are gone when the machine rests. *)
AlarmsInTime ==
  state # "Alarm" =>
    active_alarms \subseteq {id \in {"ScanStall", "QueueOverflow"} :
                               IF id = "ScanStall" THEN scan.pc = "stalled" ELSE samples_closed}

RunInv ==
  /\ HistoryTypes /\ RunInOnePlace /\ StateFollowsRun /\ StartsBeforeResult
  /\ BlocksInOrder /\ RunNotEnded /\ AbortIsFinal /\ ResultsDeliverable /\ AlarmsInTime

-----------------------------------------------------------------------------
(* What the triggers do to the state. *)

LEMMA StartEffect ==
  ASSUME state \in ProcessStates, NEW source, NEW wafer, HandleStart(source, wafer)
  PROVE  IF Takes("Start", StartGuards(source, wafer))
         THEN state = "Idle" /\ state' = "Scanning"
         ELSE state' = state
<1>1. Takes("Start", StartGuards(source, wafer)) => state = "Idle"
  BY DEF Takes, Verdict, LegalTriggers, ProcessStates, Accepted
<1>2. state' = IF Takes("Start", StartGuards(source, wafer)) THEN "Scanning" ELSE state
  BY Zenon DEF HandleStart, Transition, Apply, Takes, Target
<1> QED
  BY <1>1, <1>2

LEMMA TriggerEffects ==
  ASSUME state \in ProcessStates
  PROVE  /\ Transition("Stop", DefaultGuards) => state' = state
         /\ Transition("Abort", DefaultGuards) =>
              state' = IF state \in {"Scanning", "Processing"} THEN "Stopping" ELSE state
         /\ Takes("Abort", DefaultGuards) <=> state \in {"Scanning", "Processing"}
         /\ Transition("ClearAlarm", DefaultGuards) =>
              state' = IF state = "Alarm" THEN "Idle" ELSE state
         /\ Transition("LinesComplete", DefaultGuards) =>
              state' = IF state = "Scanning" THEN "Processing" ELSE state
         /\ Transition("Fault", DefaultGuards) =>
              state' = IF state \in {"Scanning", "Processing"} THEN "Alarm" ELSE state
         /\ Takes("Fault", DefaultGuards) <=> state \in {"Scanning", "Processing"}
         /\ Transition("StageStopped", DefaultGuards) =>
              state' = IF state = "Stopping" THEN "Idle" ELSE state
         /\ Takes("StageStopped", DefaultGuards) <=> state = "Stopping"
<1>1. ASSUME NEW t \in {"Stop", "Abort", "LinesComplete", "Fault", "StageStopped", "ClearAlarm"}
      PROVE  Verdict(state, t, DefaultGuards) = Accepted <=> t \in LegalTriggers(state)
  BY Zenon DEF Verdict, Accepted, DefaultGuards
<1>2. ASSUME NEW t \in {"Stop", "Abort", "LinesComplete", "Fault", "StageStopped", "ClearAlarm"},
             Transition(t, DefaultGuards)
      PROVE  state' = IF t \in LegalTriggers(state)
                      THEN Target(state, stop_after_wafer, t, DefaultGuards) ELSE state
  BY <1>1, <1>2 DEF Transition, Apply
<1>3. \A t \in {"Stop", "Abort", "LinesComplete", "Fault", "StageStopped", "ClearAlarm"} :
        Takes(t, DefaultGuards) <=> t \in LegalTriggers(state)
  BY <1>1 DEF Takes
<1>4. /\ "Abort" \in LegalTriggers(state) <=> state \in {"Scanning", "Processing"}
      /\ "Fault" \in LegalTriggers(state) <=> state \in {"Scanning", "Processing"}
      /\ "StageStopped" \in LegalTriggers(state) <=> state = "Stopping"
      /\ "LinesComplete" \in LegalTriggers(state) <=> state = "Scanning"
      /\ "ClearAlarm" \in LegalTriggers(state) <=> state = "Alarm"
  BY DEF LegalTriggers, ProcessStates
<1>5. Transition("Stop", DefaultGuards) => state' = state
  BY <1>2 DEF Target
<1>6. Transition("Abort", DefaultGuards) =>
        state' = IF state \in {"Scanning", "Processing"} THEN "Stopping" ELSE state
  BY <1>2, <1>4 DEF Target
<1>7. Transition("LinesComplete", DefaultGuards) =>
        state' = IF state = "Scanning" THEN "Processing" ELSE state
  BY <1>2, <1>4 DEF Target
<1>8. Transition("Fault", DefaultGuards) =>
        state' = IF state \in {"Scanning", "Processing"} THEN "Alarm" ELSE state
  BY <1>2, <1>4 DEF Target
<1>9. Transition("StageStopped", DefaultGuards) => state' = IF state = "Stopping" THEN "Idle" ELSE state
  BY <1>2, <1>4 DEF Target
<1>10. Transition("ClearAlarm", DefaultGuards) => state' = IF state = "Alarm" THEN "Idle" ELSE state
  BY <1>2, <1>4 DEF Target
<1> QED
  BY <1>3, <1>4, <1>5, <1>6, <1>7, <1>8, <1>9, <1>10, Zenon

LEMMA ResultEffect ==
  ASSUME state \in ProcessStates, Transition("ResultReady", ResultGuards(FALSE))
  PROVE  /\ Takes("ResultReady", ResultGuards(FALSE)) <=> state = "Processing"
         /\ state' = IF state = "Processing" THEN "Idle" ELSE state
<1>1. Takes("ResultReady", ResultGuards(FALSE)) <=> state = "Processing"
  BY DEF Takes, Verdict, LegalTriggers, ProcessStates, Accepted
<1>2. ~ ResultGuards(FALSE).more_wafers_pending
  BY Zenon DEF ResultGuards, DefaultGuards
<1>3. state' = IF Takes("ResultReady", ResultGuards(FALSE))
               THEN Target(state, stop_after_wafer, "ResultReady", ResultGuards(FALSE)) ELSE state
  BY DEF Transition, Apply, Takes
<1>4. Target(state, stop_after_wafer, "ResultReady", ResultGuards(FALSE)) = "Idle"
  BY <1>2 DEF Target
<1> QED
  BY <1>1, <1>3, <1>4, Zenon

-----------------------------------------------------------------------------
(* The copies of the alarm agree, with or without pipelined Starts. *)

(* The inductive invariant. *)
AlarmInv == state \in ProcessStates /\ AlarmCopiesAgree

(* A step that neither enters nor leaves Alarm and lets the alarms be. *)
LEMMA AlarmsLeftAlone ==
  ASSUME AlarmInv, state' \in ProcessStates, state' = "Alarm" <=> state = "Alarm",
         UNCHANGED <<has_active_alarm, active_alarms>>,
         scan.pc = "stalled" => scan'.pc = "stalled", samples_closed => samples_closed'
  PROVE  AlarmInv'
  BY Zenon DEF AlarmInv, AlarmCopiesAgree

(* Fault enters Alarm with an alarm of the processing thread. *)
LEMMA FaultAlarms ==
  ASSUME AlarmInv, NEW id \in QualityAlarms, ProcessingAlarm(id), UNCHANGED <<scan, samples_closed>>
  PROVE  AlarmInv'
<1>0. state \in ProcessStates /\ id \notin {"ScanStall", "QueueOverflow"}
  BY DEF AlarmInv, QualityAlarms
<1>1. CASE Takes("Fault", DefaultGuards)
  <2>1. /\ state' = "Alarm" /\ has_active_alarm' = TRUE
        /\ active_alarms' = active_alarms \union {id}
    BY <1>0, <1>1, TriggerEffects, Zenon DEF ProcessingAlarm, RaiseAlarm
  <2>2. active_alarms' \intersect QualityAlarms # {}
    BY <2>1
  <2>3. "ScanStall" \in active_alarms' => "ScanStall" \in active_alarms
    BY <1>0, <2>1, Zenon
  <2>4. "QueueOverflow" \in active_alarms' => "QueueOverflow" \in active_alarms
    BY <1>0, <2>1, Zenon
  <2>5. "Alarm" \in ProcessStates
    BY DEF ProcessStates
  <2> QED
    BY <2>1, <2>2, <2>3, <2>4, <2>5, Zenon DEF AlarmInv, AlarmCopiesAgree
<1>2. CASE ~ Takes("Fault", DefaultGuards)
  BY <1>2, AlarmsLeftAlone, Zenon DEF ProcessingAlarm, RaiseAlarm, AlarmInv
<1> QED
  BY <1>1, <1>2

(* ClearAlarm leaves Alarm with an empty table. *)
LEMMA ClearedAlarms ==
  ASSUME AlarmInv, NEW source, HandleClearAlarm(source), UNCHANGED <<scan, samples_closed>>
  PROVE  AlarmInv'
<1>0. state \in ProcessStates
  BY DEF AlarmInv
<1>1. CASE /\ control_allows_host_command(control_mode, source)
           /\ Takes("ClearAlarm", DefaultGuards)
  <2>1. state = "Alarm"
    BY <1>0, <1>1 DEF Takes, Verdict, LegalTriggers, ProcessStates, Accepted
  <2>2. state' = "Idle" /\ has_active_alarm' = FALSE /\ active_alarms' = {}
    BY <1>0, <1>1, <2>1, TriggerEffects, Zenon DEF HandleClearAlarm
  <2>3. "Idle" \in ProcessStates
    BY DEF ProcessStates
  <2> QED
    BY <2>2, <2>3 DEF AlarmInv, AlarmCopiesAgree
<1>2. CASE ~ (/\ control_allows_host_command(control_mode, source)
              /\ Takes("ClearAlarm", DefaultGuards))
  BY <1>2, AlarmsLeftAlone, Zenon DEF HandleClearAlarm, AlarmInv
<1> QED
  BY <1>1, <1>2

(* The other handlers stay on their side of Alarm. *)
LEMMA ControllerAlarms ==
  ASSUME AlarmInv, ControllerStep
  PROVE  AlarmInv'
<1>0. state \in ProcessStates /\ \A s \in {"Idle", "Scanning", "Processing", "Stopping"} : s \in ProcessStates
  BY DEF AlarmInv, ProcessStates
<1>1. CASE ControllerStart
  <2>1. UNCHANGED <<scan, samples_closed, has_active_alarm, active_alarms>>
    BY <1>1 DEF ControllerStart, HandleStart, Take, queueVars
  <2>2. (state = "Idle" /\ state' = "Scanning") \/ state' = state
    BY <1>0, <1>1, StartEffect DEF ControllerStart
  <2> QED
    BY <1>0, <2>1, <2>2, AlarmsLeftAlone
<1>2. CASE ControllerStartScan \/ ControllerRequestAbort \/ ControllerExit
  <2>1. UNCHANGED <<samples_closed, state, has_active_alarm, active_alarms>>
    BY <1>2 DEF ControllerStartScan, ControllerRequestAbort, ControllerExit, controllerVars, queueVars
  <2>2. scan.pc = "stalled" => UNCHANGED scan
    BY <1>2 DEF ControllerStartScan, ControllerRequestAbort, ControllerExit
  <2> QED
    BY <1>0, <2>1, <2>2, AlarmsLeftAlone, Zenon
<1>3. CASE ControllerStop \/ ControllerAbort \/ ControllerSetMode
  <2>1. UNCHANGED <<scan, samples_closed, has_active_alarm, active_alarms>>
    BY <1>3, Zenon DEF ControllerStop, ControllerAbort, ControllerSetMode, HandleStop, HandleAbort,
                HandleSetControlMode, Take, queueVars
  <2>2. state' = state \/ (state \in {"Scanning", "Processing"} /\ state' = "Stopping")
    BY <1>0, <1>3, TriggerEffects, Zenon
       DEF ControllerStop, ControllerAbort, ControllerSetMode, HandleStop, HandleAbort,
           HandleSetControlMode
  <2> QED
    BY <1>0, <2>1, <2>2, AlarmsLeftAlone
<1>4. CASE ControllerClearAlarm
  BY <1>4, ClearedAlarms, Zenon DEF ControllerClearAlarm, Take, queueVars
<1>5. CASE ControllerScanComplete \/ ControllerStageStopped
  <2>1. UNCHANGED <<scan, samples_closed, has_active_alarm, active_alarms>>
    BY <1>5, Zenon DEF ControllerScanComplete, ControllerStageStopped, ScanComplete, StageStopped,
                Take, queueVars
  <2>2. \/ state' = state \/ (state = "Scanning" /\ state' = "Processing")
        \/ (state = "Stopping" /\ state' = "Idle")
    BY <1>0, <1>5, TriggerEffects, Zenon
       DEF ControllerScanComplete, ControllerStageStopped, ScanComplete, StageStopped
  <2> QED
    BY <1>0, <2>1, <2>2, AlarmsLeftAlone
<1>6. CASE ControllerProcessingAlarm
  BY <1>6, FaultAlarms, Zenon DEF ControllerProcessingAlarm, Take, queueVars
<1>7. CASE ControllerProcessingResult
  <2>1. UNCHANGED <<scan, samples_closed, has_active_alarm, active_alarms>>
    BY <1>7, Zenon DEF ControllerProcessingResult, ProcessingResult, Take, queueVars
  <2>2. state' = state \/ (state = "Processing" /\ state' = "Idle")
    BY <1>0, <1>7, ResultEffect, Zenon DEF ControllerProcessingResult, ProcessingResult
  <2> QED
    BY <1>0, <2>1, <2>2, AlarmsLeftAlone
<1> QED
  BY <1>1, <1>2, <1>3, <1>4, <1>5, <1>6, <1>7, Zenon DEF ControllerStep

(* The scan thread raises and clears its own alarms only. *)
LEMMA ScanAlarms ==
  ASSUME CallsInv, AlarmInv, ScanStep
  PROVE  AlarmInv'
<1>1. UNCHANGED <<state, has_active_alarm, samples_closed>>
  BY Zenon DEF ScanStep, ScanCheck, ScanPoint, ScanStall, ScanStallEnd, ScanPush, ScanStopped,
         ScanReport, ScanQueueJob, ScanFrame
<1>2. {"ScanStall", "QueueOverflow"} \intersect QualityAlarms = {}
  BY DEF QualityAlarms
<1>3. CASE ScanStall
  <2>1. active_alarms' = active_alarms \union {"ScanStall"}
    BY <1>3 DEF ScanStall
  <2>2. scan'.pc = "stalled"
    BY <1>3 DEF ScanStall, CallsInv, ThreadTypes, Scans
  <2>3. active_alarms' \intersect QualityAlarms = active_alarms \intersect QualityAlarms
    BY <1>2, <2>1
  <2>4. "QueueOverflow" \in active_alarms' => "QueueOverflow" \in active_alarms
    BY <2>1
  <2> QED
    BY <1>1, <2>2, <2>3, <2>4, Zenon DEF AlarmInv, AlarmCopiesAgree
<1>4. CASE ScanStallEnd
  <2>1. active_alarms' = active_alarms \ {"ScanStall"}
    BY <1>4 DEF ScanStallEnd
  <2>2. active_alarms' \intersect QualityAlarms = active_alarms \intersect QualityAlarms
    BY <1>2, <2>1
  <2> QED
    BY <1>1, <2>1, <2>2 DEF AlarmInv, AlarmCopiesAgree
<1>5. CASE ScanPush
  <2>1. \/ active_alarms' = active_alarms
        \/ samples_closed /\ active_alarms' = active_alarms \union {"QueueOverflow"}
    BY <1>5, Zenon DEF ScanPush
  <2>2. active_alarms' \intersect QualityAlarms = active_alarms \intersect QualityAlarms
    BY <1>2, <2>1
  <2>3. "ScanStall" \notin active_alarms
    BY <1>5 DEF ScanPush, AlarmInv, AlarmCopiesAgree
  <2> QED
    BY <1>1, <2>1, <2>2, <2>3 DEF AlarmInv, AlarmCopiesAgree
<1>6. CASE ScanCheck \/ ScanPoint \/ ScanStopped \/ ScanReport \/ ScanQueueJob
  <2>1. scan.pc # "stalled" /\ UNCHANGED active_alarms
    BY <1>6 DEF ScanCheck, ScanPoint, ScanStopped, ScanReport, ScanQueueJob
  <2> QED
    BY <1>1, <2>1, AlarmsLeftAlone, Zenon DEF AlarmInv
<1> QED
  BY <1>3, <1>4, <1>5, <1>6, Zenon DEF ScanStep

LEMMA AlarmStep == CallsInv /\ AlarmInv /\ [Next]_vars => AlarmInv'
<1> SUFFICES ASSUME CallsInv, AlarmInv, [Next]_vars PROVE AlarmInv'
  OBVIOUS
<1>1. CASE \/ \E c \in Callers, command \in Repertoire : Submit(c, command)
           \/ WorkerStep \/ BeginShutdown \/ ShutdownCall \/ Terminated \/ UNCHANGED vars
  <2>1. UNCHANGED <<state, has_active_alarm, active_alarms, scan>>
    BY <1>1, Zenon DEF Submit, WorkerStep, WorkerPop, WorkerExit, WorkerDiscard, WorkerCollect,
         WorkerCheck, WorkerAnalyse, WorkerRecheck, WorkerPublish, WorkerStopped, WorkerFrame,
         BeginShutdown, ShutdownCall, Terminated, OwnerFrame, vars, controllerVars
  <2>2. samples_closed => samples_closed'
    BY <1>1, Zenon DEF Submit, WorkerStep, WorkerPop, WorkerExit, WorkerDiscard, WorkerCollect,
         WorkerCheck, WorkerAnalyse, WorkerRecheck, WorkerPublish, WorkerStopped, WorkerFrame,
         BeginShutdown, ShutdownCall, Terminated, vars, queueVars
  <2> QED
    BY <2>1, <2>2, AlarmsLeftAlone, Zenon DEF AlarmInv
<1> QED
  BY <1>1, ControllerAlarms, ScanAlarms, Zenon DEF Next

(* FR-ALM-1, "an active alarm blocks new scans until cleared", for every set of
   alarms, number of threads, lines, points and runs, with or without pipelined
   Starts, and with the alarms the scan thread raises and clears by itself: the
   Alarm state, has_active_alarm_ and the processing thread's alarms in the
   AlarmManager's table agree, and the scan thread's alarms last no longer than
   the stall or the shutdown that caused them. *)
THEOREM AlarmCopiesAlwaysAgree == Spec => []AlarmCopiesAgree
<1>1. Init => AlarmInv
  <2>1. ASSUME Init PROVE AlarmInv
    <3>1. state = "Idle" /\ has_active_alarm = FALSE /\ active_alarms = {}
      BY <2>1, Zenon DEF Init, ControllerInit
    <3>2. "Idle" \in ProcessStates
      BY DEF ProcessStates
    <3> QED
      BY <3>1, <3>2 DEF AlarmInv, AlarmCopiesAgree
  <2> QED
    BY <2>1
<1>2. AlarmInv => AlarmCopiesAgree
  BY DEF AlarmInv
<1> QED
  BY <1>1, <1>2, AlarmStep, CallsAlways, PTL DEF Spec

-----------------------------------------------------------------------------
(* What an announcement adds to the history. *)
AddedOne(r, e) ==
  /\ announced' \in Seq([Announcements -> Nat]) /\ Len(announced') = run
  /\ \A q \in 1 .. run : \A g \in Announcements :
       announced'[q][g] = IF q = r /\ g = e THEN announced[q][g] + 1 ELSE announced[q][g]

AddedBoth(r, e, a, f, b) ==
  /\ announced' \in Seq([Announcements -> Nat]) /\ Len(announced') = run
  /\ \A q \in 1 .. run : \A g \in Announcements :
       announced'[q][g] = IF q = r /\ g = e THEN announced[q][g] + a
                          ELSE IF q = r /\ g = f THEN announced[q][g] + b
                          ELSE announced[q][g]

AnnounceBoth(r, e, a, f, b) == announced' = [announced EXCEPT ![r][e] = @ + a, ![r][f] = @ + b]

LEMMA AnnounceAt ==
  ASSUME HistoryTypes, run \in Nat, NEW r \in 1 .. run, NEW c \in [Announcements -> Nat],
         announced' = [announced EXCEPT ![r] = c]
  PROVE  /\ announced' \in Seq([Announcements -> Nat]) /\ Len(announced') = run
         /\ \A q \in 1 .. run : announced'[q] = IF q = r THEN c ELSE announced[q]
<1>1. PICK S : S = [Announcements -> Nat]
  BY Zenon
<1>2. announced \in Seq(S) /\ c \in S /\ r \in 1 .. Len(announced) /\ Len(announced) = run
  BY <1>1 DEF HistoryTypes
<1>3. [announced EXCEPT ![r] = c] \in Seq(S) /\ Len([announced EXCEPT ![r] = c]) = Len(announced)
  BY <1>2
<1>4. ASSUME NEW q \in 1 .. run
      PROVE  announced'[q] = IF q = r THEN c ELSE announced[q]
  BY <1>2, <1>4
<1> QED
  BY <1>1, <1>2, <1>3, <1>4

LEMMA AnnounceOne ==
  ASSUME HistoryTypes, run \in Nat, NEW r \in 1 .. run, NEW e \in Announcements, Announce(r, e)
  PROVE  AddedOne(r, e)
<1>1. announced[r] \in [Announcements -> Nat] /\ announced[r][e] + 1 \in Nat
  BY DEF HistoryTypes
<1>2. PICK c \in [Announcements -> Nat] : c = [announced[r] EXCEPT ![e] = announced[r][e] + 1]
  BY <1>1, Zenon
<1>3. announced' = [announced EXCEPT ![r] = c]
  BY <1>2 DEF Announce
<1>4. /\ announced' \in Seq([Announcements -> Nat]) /\ Len(announced') = run
      /\ \A q \in 1 .. run : announced'[q] = IF q = r THEN c ELSE announced[q]
  BY <1>3, AnnounceAt, Zenon
<1>5. \A g \in Announcements : c[g] = IF g = e THEN announced[r][g] + 1 ELSE announced[r][g]
  BY <1>1, <1>2
<1>6. ASSUME NEW q \in 1 .. run, NEW g \in Announcements
      PROVE  announced'[q][g] = IF q = r /\ g = e THEN announced[q][g] + 1 ELSE announced[q][g]
  <2>1. CASE q = r
    BY <1>4, <1>5, <2>1
  <2>2. CASE q # r
    <3>1. announced'[q] = announced[q]
      BY <1>4, <2>2, Zenon
    <3> QED
      BY <2>2, <3>1, Zenon
  <2> QED
    BY <2>1, <2>2, Zenon
<1> QED
  BY <1>4, <1>6 DEF AddedOne

LEMMA AnnounceTwo ==
  ASSUME HistoryTypes, NEW r \in 1 .. run, run \in Nat,
         NEW e \in Announcements, NEW f \in Announcements, e # f, NEW a \in Nat, NEW b \in Nat,
         AnnounceBoth(r, e, a, f, b)
  PROVE  AddedBoth(r, e, a, f, b)
<1>1. /\ announced \in Seq([Announcements -> Nat]) /\ Len(announced) = run
      /\ r \in DOMAIN announced /\ DOMAIN announced = 1 .. run
  BY DEF HistoryTypes
<1>2. announced[r] \in [Announcements -> Nat]
  BY <1>1
<1>3. PICK c \in [Announcements -> Nat] :
        c = [announced[r] EXCEPT ![e] = announced[r][e] + a, ![f] = announced[r][f] + b]
  <2>1. announced[r][e] + a \in Nat /\ announced[r][f] + b \in Nat
    BY <1>2
  <2> QED
    BY <1>2, <2>1, Zenon
<1>4. announced' = [announced EXCEPT ![r] = c]
  <2>1. [announced EXCEPT ![r][e] = @ + a, ![r][f] = @ + b] = [announced EXCEPT ![r] = c]
    BY <1>1, <1>2, <1>3, Zenon
  <2> QED
    BY <2>1 DEF AnnounceBoth
<1>5. /\ announced' \in Seq([Announcements -> Nat]) /\ Len(announced') = run
      /\ \A q \in 1 .. run : announced'[q] = IF q = r THEN c ELSE announced[q]
  BY <1>4, AnnounceAt, Zenon
<1>6. \A g \in Announcements : c[g] = IF g = e THEN announced[r][g] + a
                                       ELSE IF g = f THEN announced[r][g] + b ELSE announced[r][g]
  BY <1>2, <1>3
<1>7. ASSUME NEW q \in 1 .. run, NEW g \in Announcements
      PROVE  announced'[q][g] = IF q = r /\ g = e THEN announced[q][g] + a
                                ELSE IF q = r /\ g = f THEN announced[q][g] + b
                                ELSE announced[q][g]
  <2>1. CASE q = r
    BY <1>5, <1>6, <2>1, Zenon
  <2>2. CASE q # r
    <3>1. announced'[q] = announced[q]
      BY <1>5, <2>2, Zenon
    <3> QED
      BY <2>2, <3>1, Zenon
  <2> QED
    BY <2>1, <2>2, Zenon
<1> QED
  BY <1>5, <1>7 DEF AddedBoth

(* Which thread goes on when a handler is done. *)
LEMMA HandlerFrame ==
  ASSUME CallsInv, StartsBeforeResult, NEW op, Take(op),
         Reply \/ (op \in Commands /\ \E pc \in {"starting", "aborting"} : Continue(pc))
  PROVE  /\ StartsBeforeResult'
         /\ op \in Commands => /\ "scan" \in waiting' <=> "scan" \in waiting
                               /\ "worker" \in waiting' <=> "worker" \in waiting
         /\ op = "LinesComplete" => /\ "scan" \in waiting /\ "scan" \notin waiting'
                                    /\ "worker" \in waiting' <=> "worker" \in waiting
                                    /\ scan.pc = "reported"
         /\ op \in {"Result", "StageStopped"} =>
              /\ "worker" \in waiting /\ "worker" \notin waiting'
              /\ "scan" \in waiting' <=> "scan" \in waiting
         /\ op = "Result" => worker.pc = "resulted" /\ Head(inbox).arg = worker.verdict
         /\ op = "StageStopped" => worker.pc = "stopping"
         /\ op = "Start" /\ worker.pc = "resulted" => "worker" \in waiting
         /\ ctl.pc = "idle" /\ (Reply => ctl' = ctl)
         /\ UNCHANGED <<abort_requested, scan, samples, samples_closed, jobs, worker>>
<1>0. /\ ctl.pc = "idle" /\ (Reply => ctl' = ctl)
      /\ UNCHANGED <<abort_requested, scan, samples, samples_closed, jobs, worker>>
  BY Zenon DEF Take, Reply, queueVars
<1>1. /\ 1 \in DOMAIN inbox /\ Head(inbox) = inbox[1] /\ inbox[1].op = op
      /\ inbox[1].from \in Threads
      /\ \A i \in DOMAIN inbox' : i \in Nat \ {0} /\ i + 1 \in DOMAIN inbox /\ inbox'[i] = inbox[i + 1]
  BY TakeMovesUp, Zenon DEF CallsInv
<1>2. /\ inbox[1].from \in Callers => op \in Commands
      /\ inbox[1].from = "scan" => op = "LinesComplete"
      /\ inbox[1].from = "worker" =>
           \/ op = "Result" /\ worker.pc = "resulted" /\ inbox[1].arg = worker.verdict
           \/ op = "StageStopped" /\ worker.pc = "stopping"
  BY <1>1, Zenon DEF CallsInv, CallsMatchThreads
<1>3. /\ "scan" \notin Callers /\ "worker" \notin Callers
      /\ inbox[1].from \in Callers \/ inbox[1].from = "scan" \/ inbox[1].from = "worker"
      /\ {"Result", "StageStopped", "LinesComplete"} \intersect Commands = {}
  BY <1>1, RuntimeAssumption, Zenon DEF Threads, Commands, ControlModes
<1>4. /\ inbox[1].from \in waiting
      /\ \/ waiting' = waiting \ {inbox[1].from}
         \/ waiting' = waiting /\ op \in Commands
  BY <1>1, Zenon DEF CallsInv, OneCallEach, Reply, Continue
<1>5. /\ op \in Commands => /\ "scan" \in waiting' <=> "scan" \in waiting
                            /\ "worker" \in waiting' <=> "worker" \in waiting
      /\ op = "LinesComplete" => /\ "scan" \in waiting /\ "scan" \notin waiting'
                                 /\ "worker" \in waiting' <=> "worker" \in waiting
      /\ op \in {"Result", "StageStopped"} =>
           /\ "worker" \in waiting /\ "worker" \notin waiting'
           /\ "scan" \in waiting' <=> "scan" \in waiting
  BY <1>2, <1>3, <1>4, Zenon
<1>6. /\ op = "LinesComplete" => scan.pc = "reported"
      /\ op = "Result" => worker.pc = "resulted" /\ Head(inbox).arg = worker.verdict
      /\ op = "StageStopped" => worker.pc = "stopping"
  <2>1. op = "LinesComplete" => scan.pc = "reported"
    BY <1>5, Zenon DEF CallsInv, CallsMatchThreads
  <2> QED
    BY <1>1, <1>2, <1>3, <2>1, Zenon
<1>7. op = "Start" /\ worker.pc = "resulted" => "worker" \in waiting
  BY <1>1, Zenon DEF StartsBeforeResult
<1>8. StartsBeforeResult'
  <2>1. \A i, j \in DOMAIN inbox' : inbox'[i].op = "Result" /\ inbox'[j].op = "Start" => j < i
    <3> SUFFICES ASSUME NEW i \in DOMAIN inbox', NEW j \in DOMAIN inbox',
                        inbox'[i].op = "Result", inbox'[j].op = "Start"
                 PROVE  j < i
      BY Zenon
    <3>1. i + 1 \in DOMAIN inbox /\ j + 1 \in DOMAIN inbox /\ i \in Nat /\ j \in Nat
      BY <1>1, Zenon
    <3>2. inbox[i + 1].op = "Result" /\ inbox[j + 1].op = "Start"
      BY <1>1, Zenon
    <3>3. j + 1 < i + 1
      BY <3>1, <3>2, Zenon DEF StartsBeforeResult
    <3> QED
      BY <3>1, <3>3
  <2>2. ASSUME NEW i \in DOMAIN inbox', inbox'[i].op = "Start", worker'.pc = "resulted"
        PROVE  "worker" \in waiting'
    <3>1. i \in Nat \ {0} /\ i + 1 \in DOMAIN inbox /\ inbox[i + 1].op = "Start"
      BY <1>1, <2>2, Zenon
    <3>2. "worker" \in waiting
      BY <1>0, <2>2, <3>1 DEF StartsBeforeResult
    <3>3. op # "Result"
      <4>1. op = "Result" => i + 1 < 1
        BY <1>1, <3>1, Zenon DEF StartsBeforeResult
      <4> QED
        BY <3>1, <4>1
    <3>4. op # "StageStopped"
      BY <1>0, <1>6, <2>2, Zenon
    <3> QED
      BY <1>2, <1>3, <1>4, <3>2, <3>3, <3>4, Zenon
  <2> QED
    BY <2>1, <2>2 DEF StartsBeforeResult
<1> QED
  BY <1>0, <1>5, <1>6, <1>7, <1>8, Zenon

(* A step that leaves the run alone. *)
LEMMA RunUnchanged ==
  ASSUME RunInv,
         UNCHANGED <<state, run, aborts, announced, scan, jobs, samples, samples_closed, worker,
                     active_alarms>>,
         "scan" \in waiting' <=> "scan" \in waiting,
         "worker" \in waiting' <=> "worker" \in waiting,
         ctl'.pc = "starting" => ctl.pc = "starting",
         StartsBeforeResult'
  PROVE  RunInv'
<1>1. HistoryTypes' /\ (Resting' <=> Resting) /\ (WorkerHasRun' <=> WorkerHasRun)
  BY Zenon DEF RunInv, HistoryTypes, Resting, WorkerHasRun
<1>2. RunInOnePlace'
  BY <1>1, Zenon DEF RunInv, RunInOnePlace
<1>3. StateFollowsRun'
  BY Zenon DEF RunInv, StateFollowsRun
<1>4. BlocksInOrder'
  BY <1>1, Zenon DEF RunInv, BlocksInOrder
<1>5. RunNotEnded' /\ AbortIsFinal' /\ AlarmsInTime'
  BY <1>1, Zenon DEF RunInv, RunNotEnded, AbortIsFinal, AlarmsInTime
<1>6. ResultsDeliverable'
  BY <1>1 DEF RunInv, ResultsDeliverable, Deliverable
<1> QED
  BY <1>1, <1>2, <1>3, <1>4, <1>5, <1>6, Zenon DEF RunInv

LEMMA RunHasNumber ==
  ASSUME QueueTypes, RunInv, ~ Resting
  PROVE  run \in 1 .. run /\ run \in Nat
<1>1. run \in Nat /\ run # 0
  BY Zenon DEF QueueTypes, RunInv, RunNotEnded
<1> QED
  BY <1>1

LEMMA SubmitKeepsRun ==
  ASSUME CallsInv, RunInv, ~ Pipelined,
         NEW c \in Callers, NEW command \in Repertoire, Submit(c, command)
  PROVE  RunInv'
<1>0. /\ c \in Threads /\ c \notin {"scan", "worker"} /\ ~ inbox_closed
      /\ Post(c, command, command) /\ command \in Commands
      /\ command = "Start" => worker.pc # "resulted"
      /\ UNCHANGED <<state, run, aborts, announced, scan, jobs, samples, samples_closed, worker,
                     active_alarms, ctl>>
  BY RuntimeAssumption, Zenon DEF Submit, CallsInv, ShutdownInOrder, Threads, controllerVars, queueVars,
                           historyVars
<1>1. [op |-> command, from |-> c, arg |-> command] \in Posts
  BY <1>0, Zenon DEF Posts
<1>2. /\ waiting' = waiting \union {c}
      /\ DOMAIN inbox' = DOMAIN inbox \union {Len(inbox) + 1}
      /\ inbox'[Len(inbox) + 1].op = command
      /\ \A i \in DOMAIN inbox : inbox'[i] = inbox[i] /\ i < Len(inbox) + 1
  BY <1>0, <1>1, PostAppends, Zenon DEF CallsInv
<1>3. StartsBeforeResult'
  <2>1. \A i \in DOMAIN inbox : inbox[i].op = "Result" => worker.pc = "resulted"
    BY InboxDomain DEF CallsInv, CallsMatchThreads, Threads, Commands, ControlModes
  <2>2. command # "Result"
    BY <1>0, Zenon DEF Commands, ControlModes
  <2>3. \A i, j \in DOMAIN inbox' : inbox'[i].op = "Result" /\ inbox'[j].op = "Start" => j < i
    BY <1>0, <1>2, <2>1, <2>2, Zenon DEF RunInv, StartsBeforeResult
  <2>4. \A i \in DOMAIN inbox' : inbox'[i].op = "Start" /\ worker'.pc = "resulted" => "worker" \in waiting'
    BY <1>0, <1>2 DEF RunInv, StartsBeforeResult
  <2> QED
    BY <2>3, <2>4, Zenon DEF StartsBeforeResult
<1> QED
  BY <1>0, <1>2, <1>3, RunUnchanged, Zenon

-----------------------------------------------------------------------------
(* The controller's handlers. *)

LEMMA StartKeepsRun ==
  ASSUME CallsInv, QueueTypes, RunInv, ControllerStart
  PROVE  RunInv'
<1> DEFINE taken == Takes("Start", StartGuards(SourceOf(Caller), run + 1))
<1>0. /\ Take("Start") /\ HandleStart(SourceOf(Caller), run + 1) /\ UNCHANGED <<aborts, active_alarms>>
      /\ "Start" \in Commands /\ run \in Nat
  BY DEF ControllerStart, HandleStart, Commands, QueueTypes
<1>1. IF taken THEN state = "Idle" /\ state' = "Scanning" ELSE state' = state
  BY <1>0, StartEffect, Zenon DEF RunInv, HistoryTypes
<1>2. CASE ~ taken
  <2>1. Reply /\ UNCHANGED <<run, announced>>
    BY <1>2 DEF ControllerStart
  <2> QED
    BY <1>0, <1>1, <1>2, <2>1, HandlerFrame, RunUnchanged, Zenon DEF RunInv
<1>3. CASE taken
  <2>0. /\ Continue("starting") /\ run' = run + 1 /\ announced' = Append(announced, NoAnnouncements)
        /\ state = "Idle" /\ state' = "Scanning"
    BY <1>1, <1>3, Zenon DEF ControllerStart
  <2>1. /\ StartsBeforeResult'
        /\ "scan" \in waiting' <=> "scan" \in waiting
        /\ "worker" \in waiting' <=> "worker" \in waiting
        /\ worker.pc = "resulted" => "worker" \in waiting
        /\ UNCHANGED <<scan, samples, samples_closed, jobs, worker>>
    BY <1>0, <2>0, HandlerFrame, Zenon DEF RunInv
  <2>2. /\ scan.pc = "off" /\ jobs = <<>> /\ samples = <<>>
        /\ ~ WorkerHasRun /\ worker.pc # "resulted"
    <3>1. scan.pc = "off" /\ jobs = <<>> /\ samples = <<>> /\ ~ WorkerHasRun
      BY <2>0 DEF RunInv, RunInOnePlace, Resting
    <3> QED
      BY <2>1, <3>1 DEF WorkerHasRun
  <2>3. ~ WorkerHasRun' /\ ~ Resting'
    BY <2>0, <2>1, <2>2, Zenon DEF WorkerHasRun, Resting
  <2>4. /\ announced' \in Seq([Announcements -> Nat]) /\ Len(announced') = run + 1
        /\ \A r \in 1 .. run : announced'[r] = announced[r]
        /\ announced'[run + 1] = NoAnnouncements
    <3>1. NoAnnouncements \in [Announcements -> Nat]
      BY DEF NoAnnouncements
    <3>2. announced \in Seq([Announcements -> Nat]) /\ Len(announced) = run
      BY Zenon DEF RunInv, HistoryTypes
    <3> QED
      BY <1>0, <2>0, <3>1, <3>2
  <2>5. HistoryTypes'
    <3>1. aborts \in SUBSET (1 .. (run + 1))
      BY <1>0 DEF RunInv, HistoryTypes
    <3> QED
      BY <1>0, <2>0, <2>4, <3>1, Zenon DEF HistoryTypes, ProcessStates
  <2>6. RunInOnePlace'
    BY <2>0, <2>1, <2>2, <2>3, Zenon DEF RunInOnePlace
  <2>7. StateFollowsRun'
    BY <2>0, <2>1, <2>2, Zenon DEF StateFollowsRun, WorkerHasRun
  <2>8. BlocksInOrder'
    <3>1. BlocksInOrder /\ worker' = worker /\ samples' = samples /\ scan' = scan
      BY <2>1, Zenon DEF RunInv
    <3>2. \A i \in DOMAIN samples' : FALSE
      BY <2>2, <3>1
    <3>3. scan'.pc \notin {"line", "point", "stalled", "push"}
      BY <2>2, <3>1
    <3> QED
      BY <2>3, <3>1, <3>2, <3>3, Zenon DEF BlocksInOrder
  <2>9. RunNotEnded'
    <3>1. run + 1 # 0 /\ run + 1 \notin aborts
      BY <1>0 DEF RunInv, HistoryTypes
    <3>2. \A e \in EndEvents : announced'[run + 1][e] = 0
      BY <2>4, Zenon DEF EndEvents, NoAnnouncements, Announcements
    <3> QED
      BY <1>0, <2>0, <3>1, <3>2, Zenon DEF RunNotEnded
  <2>10. AbortIsFinal'
    BY <1>0, <2>4 DEF RunInv, HistoryTypes, AbortIsFinal
  <2>11. ResultsDeliverable'
    <3>1. ASSUME worker.pc = "publish" PROVE Deliverable(worker.run)'
      <4>1. Deliverable(worker.run)
        BY <3>1, Zenon DEF RunInv, ResultsDeliverable
      <4>2. worker.run \in (1 .. run) \ aborts /\ worker.run \in 1 .. (run + 1) /\ worker.run # run + 1
        BY <1>0, <4>1, SMTT(20) DEF Deliverable
      <4> QED
        BY <1>0, <2>0, <2>1, <2>4, <4>1, <4>2, Zenon DEF Deliverable
    <3> QED
      BY <2>1, <2>2, <3>1 DEF ResultsDeliverable
  <2>12. AlarmsInTime'
    BY <1>0, <2>0, <2>1, Zenon DEF RunInv, AlarmsInTime
  <2> QED
    BY <2>1, <2>5, <2>6, <2>7, <2>8, <2>9, <2>10, <2>11, <2>12, Zenon DEF RunInv
<1> QED
  BY <1>2, <1>3, Zenon

LEMMA StartScanKeepsRun ==
  ASSUME CallsInv, QueueTypes, RunInv, ControllerStartScan
  PROVE  RunInv'
<1>0. /\ ctl.pc = "starting" /\ ctl' = ControllerIdle /\ scan.pc = "off"
      /\ scan' = [ScanOff EXCEPT !.pc = "line", !.run = run]
      /\ waiting' = waiting \ {ctl.from}
      /\ UNCHANGED <<state, run, aborts, announced, jobs, samples, samples_closed, worker,
                     active_alarms, inbox>>
  BY DEF ControllerStartScan, controllerVars, queueVars, historyVars
<1>1. scan'.pc = "line" /\ scan'.run = run /\ scan'.line = 0
  BY <1>0 DEF ScanOff
<1>2. ctl'.pc = "idle"
  BY <1>0 DEF ControllerIdle
<1>3. "worker" \in waiting' <=> "worker" \in waiting
  BY <1>0, RuntimeAssumption DEF CallsInv, OneCallEach
<1>4. /\ state = "Scanning" /\ jobs = <<>> /\ samples = <<>>
      /\ ~ WorkerHasRun /\ worker.pc # "resulted"
  BY <1>0 DEF RunInv, RunInOnePlace
<1>5. ~ WorkerHasRun' /\ ~ Resting'
  BY <1>0, <1>3, <1>4 DEF WorkerHasRun, Resting
<1>6. HistoryTypes'
  BY <1>0 DEF RunInv, HistoryTypes
<1>7. RunInOnePlace'
  BY <1>0, <1>1, <1>2, <1>4, <1>5 DEF RunInOnePlace
<1>8. StateFollowsRun'
  BY <1>0, <1>1, <1>4 DEF StateFollowsRun, WorkerHasRun
<1>9. BlocksInOrder'
  BY <1>0, <1>1, <1>4, <1>5, RuntimeAssumption DEF RunInv, BlocksInOrder
<1>10. RunNotEnded' /\ AbortIsFinal' /\ AlarmsInTime' /\ StartsBeforeResult'
  BY <1>0, <1>1, <1>3, <1>4, Zenon DEF RunInv, RunNotEnded, Resting, AbortIsFinal, AlarmsInTime, StartsBeforeResult
<1>11. ResultsDeliverable'
  BY <1>0, <1>4 DEF RunInv, ResultsDeliverable, Deliverable, Resting
<1> QED
  BY <1>6, <1>7, <1>8, <1>9, <1>10, <1>11 DEF RunInv

LEMMA QuietHandlersKeepRun ==
  ASSUME CallsInv, RunInv,
         ControllerStop \/ ControllerSetMode \/ ControllerRequestAbort \/ ControllerExit
  PROVE  RunInv'
<1>1. CASE ControllerStop
  <2>1. state' = state
    BY <1>1, TriggerEffects, Zenon DEF ControllerStop, HandleStop, RunInv, HistoryTypes
  <2>2. /\ Take("Stop") /\ Reply /\ "Stop" \in Commands
        /\ UNCHANGED <<run, aborts, announced, active_alarms>>
    BY <1>1, Zenon DEF ControllerStop, HandleStop, historyVars, Commands
  <2> QED
    BY <2>1, <2>2, HandlerFrame, RunUnchanged, Zenon DEF RunInv
<1>2. CASE ControllerSetMode
  <2>1. PICK mode \in ControlModes : Take(mode) /\ HandleSetControlMode(SourceOf(Caller), mode)
    BY <1>2, Zenon DEF ControllerSetMode
  <2>2. mode \in Commands /\ Reply /\ UNCHANGED <<state, run, aborts, announced, active_alarms>>
    BY <1>2, <2>1, Zenon DEF ControllerSetMode, HandleSetControlMode, historyVars, Commands
  <2> QED
    BY <2>1, <2>2, HandlerFrame, RunUnchanged, Zenon DEF RunInv
<1>3. CASE ControllerRequestAbort
  <2>1. /\ waiting' = waiting \ {ctl.from} /\ ctl' = ControllerIdle /\ ctl.from \in Callers
        /\ UNCHANGED <<state, run, aborts, announced, scan, jobs, samples, samples_closed, worker,
                       active_alarms, inbox>>
    BY <1>3, Zenon DEF ControllerRequestAbort, controllerVars, queueVars, historyVars, CallsInv, OneCallEach
  <2>2. /\ "scan" \in waiting' <=> "scan" \in waiting
        /\ "worker" \in waiting' <=> "worker" \in waiting
        /\ ctl'.pc # "starting"
    BY <2>1, RuntimeAssumption, Zenon DEF ControllerIdle
  <2>3. StartsBeforeResult'
    BY <2>1, <2>2, Zenon DEF RunInv, StartsBeforeResult
  <2> QED
    BY <2>1, <2>2, <2>3, RunUnchanged, Zenon
<1>4. CASE ControllerExit
  <2>1. /\ ctl'.pc # "starting"
        /\ UNCHANGED <<state, run, aborts, announced, scan, jobs, samples, samples_closed, worker,
                       active_alarms, inbox, waiting>>
    BY <1>4, Zenon DEF ControllerExit, ControllerIdle, controllerVars, queueVars, historyVars
  <2>2. StartsBeforeResult'
    BY <2>1 DEF RunInv, StartsBeforeResult
  <2> QED
    BY <2>1, <2>2, RunUnchanged
<1> QED
  BY <1>1, <1>2, <1>3, <1>4, Zenon

LEMMA ClearAlarmKeepsRun ==
  ASSUME CallsInv, RunInv, ControllerClearAlarm
  PROVE  RunInv'
<1>0. /\ Take("ClearAlarm") /\ Reply /\ "ClearAlarm" \in Commands /\ UNCHANGED <<run, aborts, announced>>
      /\ state \in ProcessStates
  BY Zenon DEF ControllerClearAlarm, historyVars, Commands, RunInv, HistoryTypes
<1>1. /\ StartsBeforeResult'
      /\ "scan" \in waiting' <=> "scan" \in waiting
      /\ "worker" \in waiting' <=> "worker" \in waiting
      /\ UNCHANGED <<scan, samples, samples_closed, jobs, worker, ctl>>
  BY <1>0, HandlerFrame DEF RunInv
<1>2. \/ UNCHANGED <<state, active_alarms>>
      \/ state = "Alarm" /\ state' = "Idle" /\ active_alarms' = {}
  <2>1. CASE Takes("ClearAlarm", DefaultGuards)
    <3>1. state = "Alarm"
      BY <1>0, <2>1 DEF Takes, Verdict, LegalTriggers, ProcessStates, Accepted
    <3> QED
      BY <1>0, <2>1, <3>1, TriggerEffects DEF ControllerClearAlarm, HandleClearAlarm
  <2>2. CASE ~ Takes("ClearAlarm", DefaultGuards)
    BY <2>2, Zenon DEF ControllerClearAlarm, HandleClearAlarm
  <2> QED
    BY <2>1, <2>2, Zenon
<1>3. CASE UNCHANGED <<state, active_alarms>>
  BY <1>0, <1>1, <1>3, RunUnchanged, Zenon
<1>4. CASE state = "Alarm" /\ state' = "Idle" /\ active_alarms' = {}
  <2>1. /\ Resting' /\ Resting /\ (WorkerHasRun' <=> WorkerHasRun)
        /\ (ctl'.pc = "starting" => ctl.pc = "starting")
    BY <1>1, <1>4, Zenon DEF WorkerHasRun, Resting
  <2>2. HistoryTypes'
    BY <1>0, <1>4, Zenon DEF RunInv, HistoryTypes, ProcessStates
  <2>3. RunInOnePlace'
    BY <1>0, <1>1, <1>4, <2>1, Zenon DEF RunInv, RunInOnePlace
  <2>4. StateFollowsRun'
    BY <1>0, <1>1, <1>4, Zenon DEF RunInv, StateFollowsRun
  <2>5. BlocksInOrder'
    BY <1>0, <1>1, <2>1, Zenon DEF RunInv, BlocksInOrder
  <2>6. RunNotEnded' /\ AbortIsFinal' /\ AlarmsInTime'
    BY <1>0, <1>4, <2>1, Zenon DEF RunInv, RunNotEnded, AbortIsFinal, AlarmsInTime
  <2>7. ResultsDeliverable'
    BY <1>0, <1>1, <1>4, <2>1, Zenon DEF RunInv, ResultsDeliverable, Deliverable
  <2> QED
    BY <1>1, <2>2, <2>3, <2>4, <2>5, <2>6, <2>7, Zenon DEF RunInv
<1> QED
  BY <1>2, <1>3, <1>4

LEMMA AbortKeepsRun ==
  ASSUME CallsInv, QueueTypes, RunInv, ControllerAbort
  PROVE  RunInv'
<1>0. /\ Take("Abort") /\ "Abort" \in Commands /\ UNCHANGED <<run, announced, active_alarms>>
      /\ state \in ProcessStates /\ HandleAbort(SourceOf(Caller)) /\ run \in Nat
  BY Zenon DEF ControllerAbort, HandleAbort, Commands, RunInv, HistoryTypes, QueueTypes
<1>1. CASE ~ AbortTaken(SourceOf(Caller))
  <2>1. Reply /\ UNCHANGED aborts
    BY <1>1, Zenon DEF ControllerAbort
  <2>2. state' = state
    BY <1>0, <1>1, TriggerEffects, Zenon DEF HandleAbort, AbortTaken
  <2> QED
    BY <1>0, <2>1, <2>2, HandlerFrame, RunUnchanged, Zenon DEF RunInv
<1>2. CASE AbortTaken(SourceOf(Caller))
  <2>0. /\ Continue("aborting") /\ aborts' = aborts \union {run}
        /\ state \in {"Scanning", "Processing"} /\ state' = "Stopping"
    BY <1>0, <1>2, TriggerEffects, Zenon DEF ControllerAbort, HandleAbort, AbortTaken
  <2>1. /\ StartsBeforeResult'
        /\ "scan" \in waiting' <=> "scan" \in waiting
        /\ "worker" \in waiting' <=> "worker" \in waiting
        /\ UNCHANGED <<scan, samples, samples_closed, jobs, worker>>
        /\ ctl'.pc = "aborting"
    BY <1>0, <2>0, HandlerFrame, Zenon DEF RunInv, Continue
  <2>2. ~ Resting' /\ ~ Resting /\ (WorkerHasRun' <=> WorkerHasRun)
    BY <2>0, <2>1, Zenon DEF RunInv, StateFollowsRun, WorkerHasRun, Resting
  <2>3. /\ run # 0 /\ run \in 1 .. run /\ \A e \in EndEvents : announced[run][e] = 0
    <3>1. run # 0 /\ \A e \in EndEvents : announced[run][e] = 0
      BY <2>0, <2>2 DEF RunInv, RunNotEnded
    <3>2. run \in 1 .. run
      BY <2>2, RunHasNumber, Zenon
    <3> QED
      BY <3>1, <3>2, Zenon
  <2>4. HistoryTypes'
    BY <1>0, <2>0, <2>3, Zenon DEF RunInv, HistoryTypes, ProcessStates
  <2>5. RunInOnePlace'
    BY <1>0, <2>1, <2>2, Zenon DEF RunInv, RunInOnePlace
  <2>6. StateFollowsRun'
    BY <2>0, <2>1, Zenon DEF RunInv, StateFollowsRun
  <2>7. BlocksInOrder'
    BY <1>0, <2>1, <2>2, Zenon DEF RunInv, BlocksInOrder
  <2>8. RunNotEnded' /\ AbortIsFinal'
    BY <1>0, <2>0, <2>3, Zenon DEF RunInv, RunNotEnded, AbortIsFinal, EndEvents
  <2>9. ResultsDeliverable'
    <3>1. ASSUME worker.pc = "publish" PROVE Deliverable(worker.run)'
      <4>1. Deliverable(worker.run)
        BY <3>1 DEF RunInv, ResultsDeliverable
      <4>2. worker.run # run
        BY <2>2, <4>1, Zenon DEF Deliverable
      <4> QED
        BY <1>0, <2>0, <2>1, <4>1, <4>2, Zenon DEF Deliverable
    <3> QED
      BY <2>0, <2>1, <3>1, Zenon DEF ResultsDeliverable
  <2>10. AlarmsInTime'
    BY <1>0, <2>0, <2>1, Zenon DEF RunInv, AlarmsInTime
  <2> QED
    BY <2>1, <2>4, <2>5, <2>6, <2>7, <2>8, <2>9, <2>10, Zenon DEF RunInv
<1> QED
  BY <1>1, <1>2, Zenon

LEMMA ScanCompleteKeepsRun ==
  ASSUME CallsInv, RunInv, ControllerScanComplete
  PROVE  RunInv'
<1>0. /\ Take("LinesComplete") /\ Reply /\ UNCHANGED <<run, aborts, announced, active_alarms>>
      /\ state \in ProcessStates
      /\ state' = IF state = "Scanning" THEN "Processing" ELSE state
  BY TriggerEffects, Zenon DEF ControllerScanComplete, ScanComplete, historyVars, RunInv, HistoryTypes
<1>1. /\ StartsBeforeResult'
      /\ "scan" \in waiting /\ "scan" \notin waiting' /\ scan.pc = "reported"
      /\ "worker" \in waiting' <=> "worker" \in waiting
      /\ UNCHANGED <<scan, samples, samples_closed, jobs, worker, ctl>> /\ ctl.pc = "idle"
  BY <1>0, HandlerFrame, Zenon DEF RunInv
<1>2. /\ state \in {"Scanning", "Stopping"} /\ state' \in {"Processing", "Stopping"}
      /\ state' = "Stopping" <=> state = "Stopping"
  BY <1>0, <1>1, Zenon DEF RunInv, StateFollowsRun
<1>3. ~ Resting' /\ ~ Resting /\ (WorkerHasRun' <=> WorkerHasRun)
  BY <1>1, <1>2 DEF WorkerHasRun, Resting
<1>4. HistoryTypes'
  BY <1>0, <1>2, Zenon DEF RunInv, HistoryTypes, ProcessStates
<1>5. RunInOnePlace'
  BY <1>0, <1>1, <1>3, Zenon DEF RunInv, RunInOnePlace
<1>6. StateFollowsRun'
  <2>1. jobs = <<>> /\ ~ WorkerHasRun /\ worker.pc # "resulted"
    BY <1>1, Zenon DEF RunInv, RunInOnePlace
  <2> QED
    BY <1>1, <1>2, <2>1, Zenon DEF StateFollowsRun, WorkerHasRun
<1>7. BlocksInOrder'
  BY <1>0, <1>1, <1>3, Zenon DEF RunInv, BlocksInOrder
<1>8. RunNotEnded' /\ AbortIsFinal' /\ AlarmsInTime'
  BY <1>0, <1>1, <1>2, <1>3, Zenon DEF RunInv, RunNotEnded, AbortIsFinal, AlarmsInTime
<1>9. ResultsDeliverable'
  BY <1>0, <1>1, <1>2, <1>3, Zenon DEF RunInv, ResultsDeliverable, Deliverable
<1> QED
  BY <1>1, <1>4, <1>5, <1>6, <1>7, <1>8, <1>9, Zenon DEF RunInv

(* notify_processing_result, whichever way: the run ends unless it was aborted,
   with the announcement that fits the verdict. *)
EndOf(verdict) == IF verdict \in QualityAlarms THEN "QualityAlarm" ELSE "ScanComplete"

LEMMA ResultHandled ==
  ASSUME CallsInv, QueueTypes, RunInv, Take("Result"), Reply, UNCHANGED <<run, aborts>>,
         announced' \in Seq([Announcements -> Nat]), Len(announced') = run,
         \A q \in 1 .. run : \A e \in EndEvents :
           announced'[q][e] = announced[q][e] +
             IF q = run /\ state = "Processing" /\ e = EndOf(worker.verdict) THEN 1 ELSE 0,
         IF state = "Processing" THEN state' \in {"Idle", "Alarm"} ELSE state' = state,
         state' # "Alarm" => active_alarms' = active_alarms
  PROVE  RunInv'
<1>1. /\ StartsBeforeResult'
      /\ "worker" \in waiting /\ "worker" \notin waiting' /\ worker.pc = "resulted"
      /\ "scan" \in waiting' <=> "scan" \in waiting
      /\ UNCHANGED <<scan, samples, samples_closed, jobs, worker, ctl>> /\ ctl.pc = "idle"
  BY HandlerFrame, Zenon DEF RunInv
<1>2. state \in {"Processing", "Stopping"} /\ ~ Resting
  BY <1>1, Zenon DEF RunInv, StateFollowsRun, Resting
<1>3. WorkerHasRun /\ worker.run = run /\ run \in 1 .. run /\ samples = <<>>
  <2>1. WorkerHasRun
    BY <1>1, Zenon DEF WorkerHasRun
  <2>2. worker.run = run
    BY <2>1, Zenon DEF RunInv, RunInOnePlace
  <2>3. samples = <<>>
    BY <1>1, <2>1, Zenon DEF RunInv, BlocksInOrder
  <2> QED
    BY <1>2, <2>1, <2>2, <2>3, RunHasNumber, Zenon
<1>4. scan.pc = "off" /\ jobs = <<>>
  BY <1>1, Zenon DEF RunInv, RunInOnePlace
<1>5. /\ state = "Processing" => ~ WorkerHasRun' /\ Resting'
      /\ state = "Stopping" => WorkerHasRun' /\ ~ Resting'
  BY <1>1, Zenon DEF WorkerHasRun, Resting
<1>6. HistoryTypes'
  BY <1>2, Zenon DEF RunInv, HistoryTypes, ProcessStates
<1>7. RunInOnePlace'
  BY <1>1, <1>2, <1>3, <1>4, <1>5, Zenon DEF RunInOnePlace
<1>8. StateFollowsRun'
  BY <1>1, <1>2, <1>4, Zenon DEF StateFollowsRun
<1>9. BlocksInOrder'
  BY <1>1, <1>3, <1>4, Zenon DEF RunInv, BlocksInOrder
<1>10. RunNotEnded'
  BY <1>2, <1>3, <1>5, Zenon DEF RunInv, RunNotEnded, Resting
<1>11. AbortIsFinal'
  <2> SUFFICES ASSUME NEW r \in aborts, NEW e \in EndEvents PROVE announced'[r][e] = 0
    BY Zenon DEF AbortIsFinal, EndEvents
  <2>1. r \in 1 .. run /\ announced[r][e] = 0
    BY Zenon DEF RunInv, HistoryTypes, AbortIsFinal, EndEvents
  <2>2. r = run => state # "Processing"
    BY Zenon DEF RunInv, RunNotEnded
  <2> DEFINE more == IF r = run /\ state = "Processing" /\ e = EndOf(worker.verdict)
                      THEN 1 ELSE 0
  <2>3. announced'[r][e] = announced[r][e] + more
    BY <2>1, Zenon
  <2>4. more = 0
    BY <2>2, Zenon
  <2> HIDE DEF more
  <2> QED
    BY <2>1, <2>3, <2>4, SMTT(20)
<1>12. ResultsDeliverable'
  <2>1. ASSUME state = "Processing" PROVE Deliverable(worker.run)'
    <3>1. run \notin aborts /\ \A e \in EndEvents : announced[run][e] = 0
      BY <2>1, Zenon DEF RunInv, RunNotEnded
    <3>2. \A e \in EndEvents : announced'[run][e] = IF e = EndOf(worker.verdict) THEN 1 ELSE 0
      BY <1>3, <2>1, <3>1, SMTT(20)
    <3>3. /\ announced'[run]["WaferResultReady"] = 0 /\ announced'[run]["WaferOutputsWritten"] = 0
          /\ announced'[run]["ScanComplete"] = IF worker.verdict \in QualityAlarms THEN 0 ELSE 1
          /\ announced'[run]["QualityAlarm"] = IF worker.verdict \in QualityAlarms THEN 1 ELSE 0
      BY <3>2, Zenon DEF EndEvents, EndOf
    <3> QED
      BY <1>1, <1>3, <1>5, <2>1, <3>1, <3>3, Zenon DEF Deliverable
  <2> QED
    BY <1>1, <1>2, <2>1, Zenon DEF ResultsDeliverable
<1>13. AlarmsInTime'
  BY <1>1, <1>2, Zenon DEF RunInv, AlarmsInTime
<1> QED
  BY <1>1, <1>6, <1>7, <1>8, <1>9, <1>10, <1>11, <1>12, <1>13, Zenon DEF RunInv

LEMMA ResultsKeepRun ==
  ASSUME CallsInv, QueueTypes, RunInv, ControllerProcessingAlarm \/ ControllerProcessingResult
  PROVE  RunInv'
<1>0. /\ Take("Result") /\ Reply /\ UNCHANGED <<run, aborts>> /\ run \in Nat
      /\ HistoryTypes /\ state \in ProcessStates
      /\ announced \in Seq([Announcements -> Nat]) /\ Len(announced) = run
  BY Zenon DEF ControllerProcessingAlarm, ControllerProcessingResult, QueueTypes, RunInv, HistoryTypes
<1>1. /\ worker.pc = "resulted" /\ "worker" \in waiting /\ Head(inbox).arg = worker.verdict
  BY <1>0, HandlerFrame DEF RunInv
<1>2. state \in {"Processing", "Stopping"} /\ run \in 1 .. run
  <2>1. state \in {"Processing", "Stopping"}
    BY <1>1, Zenon DEF RunInv, StateFollowsRun
  <2> QED
    BY <2>1, RunHasNumber, Zenon DEF Resting
<1>3. \A q \in 1 .. run : \A e \in EndEvents : announced[q][e] \in Nat /\ e \in Announcements
  BY <1>0 DEF EndEvents, Announcements
<1>4. CASE ControllerProcessingAlarm
  <2>1. PICK id \in QualityAlarms : Head(inbox).arg = id /\ ProcessingAlarm(id)
    BY <1>4, Zenon DEF ControllerProcessingAlarm
  <2>2. EndOf(worker.verdict) = "QualityAlarm"
    BY <1>1, <2>1, Zenon DEF EndOf
  <2>3. CASE state = "Processing"
    <3>1. Takes("Fault", DefaultGuards)
      BY <1>0, <2>3, TriggerEffects, Zenon
    <3>2. state' = "Alarm"
      BY <1>0, <2>1, <2>3, <3>1, TriggerEffects, Zenon DEF ProcessingAlarm, RaiseAlarm
    <3>3. Announce(run, "QualityAlarm") /\ "QualityAlarm" \in Announcements
      BY <1>4, <3>1, Zenon DEF ControllerProcessingAlarm, Announcements
    <3>4. /\ announced' \in Seq([Announcements -> Nat]) /\ Len(announced') = run
          /\ \A q \in 1 .. run : \A g \in Announcements :
               announced'[q][g] = IF q = run /\ g = "QualityAlarm" THEN announced[q][g] + 1
                                  ELSE announced[q][g]
      <4>1. AddedOne(run, "QualityAlarm")
        BY <1>0, <1>2, <3>3, AnnounceOne, Zenon
      <4> QED
        BY <1>0, <4>1, Zenon DEF AddedOne
    <3>5. \A q \in 1 .. run : \A e \in EndEvents :
            announced'[q][e] = announced[q][e] +
              IF q = run /\ state = "Processing" /\ e = EndOf(worker.verdict) THEN 1 ELSE 0
      <4> SUFFICES ASSUME NEW q \in 1 .. run, NEW e \in EndEvents
                   PROVE  announced'[q][e] = announced[q][e] +
                            IF q = run /\ state = "Processing" /\ e = EndOf(worker.verdict) THEN 1 ELSE 0
        BY Zenon
      <4>1. announced[q][e] + 0 = announced[q][e]
        <5>1. announced[q][e] \in Nat
          BY <1>3, Zenon
        <5> QED
          BY <5>1
      <4>2. announced'[q][e] = IF q = run /\ e = "QualityAlarm" THEN announced[q][e] + 1
                               ELSE announced[q][e]
        BY <1>3, <3>4, Zenon
      <4> QED
        BY <2>2, <2>3, <4>1, <4>2, Zenon
    <3> QED
      BY <1>0, <2>3, <3>2, <3>4, <3>5, ResultHandled, Zenon
  <2>4. CASE state = "Stopping"
    <3>1. ~ Takes("Fault", DefaultGuards)
      BY <1>0, <2>4, TriggerEffects, Zenon
    <3>2. UNCHANGED <<state, active_alarms, announced>>
      BY <1>4, <2>1, <3>1, Zenon DEF ControllerProcessingAlarm, ProcessingAlarm, RaiseAlarm
    <3>3. \A q \in 1 .. run : \A e \in EndEvents :
            announced'[q][e] = announced[q][e] +
              IF q = run /\ state = "Processing" /\ e = EndOf(worker.verdict) THEN 1 ELSE 0
      <4>1. \A q \in 1 .. run : \A e \in EndEvents : announced[q][e] + 0 = announced[q][e]
        BY <1>3
      <4> QED
        BY <2>4, <3>2, <4>1, Zenon
    <3> QED
      BY <1>0, <2>4, <3>2, <3>3, ResultHandled, Zenon
  <2> QED
    BY <1>2, <2>3, <2>4
<1>5. CASE ControllerProcessingResult
  <2>1. /\ Transition("ResultReady", ResultGuards(FALSE)) /\ active_alarms' = active_alarms
        /\ Head(inbox).arg \in {"InSpec", "OutOfSpec"}
    BY <1>5, Zenon DEF ControllerProcessingResult, ProcessingResult
  <2>2. /\ Takes("ResultReady", ResultGuards(FALSE)) <=> state = "Processing"
        /\ state' = IF state = "Processing" THEN "Idle" ELSE state
    BY <1>0, <2>1, ResultEffect, Zenon
  <2>3. EndOf(worker.verdict) = "ScanComplete"
    BY <1>1, <2>1, RuntimeAssumption DEF EndOf, QualityAlarms
  <2>4. PICK a \in Nat, b \in {0, 1} :
          /\ b = IF state = "Processing" THEN 1 ELSE 0
          /\ announced' = [announced EXCEPT ![run]["WaferOutOfSpec"] = @ + a,
                                            ![run]["ScanComplete"] = @ + b]
    BY <1>5, <2>2, Zenon DEF ControllerProcessingResult
  <2>5. /\ "WaferOutOfSpec" \in Announcements /\ "ScanComplete" \in Announcements
        /\ "WaferOutOfSpec" # "ScanComplete" /\ b \in Nat
    BY DEF Announcements
  <2>6. /\ announced' \in Seq([Announcements -> Nat]) /\ Len(announced') = run
        /\ \A q \in 1 .. run : \A g \in Announcements :
             announced'[q][g] = IF q = run /\ g = "WaferOutOfSpec" THEN announced[q][g] + a
                                ELSE IF q = run /\ g = "ScanComplete" THEN announced[q][g] + b
                                ELSE announced[q][g]
    <3>1. HistoryTypes /\ run \in 1 .. run /\ run \in Nat
      BY <1>0, <1>2, Zenon
    <3>2. AnnounceBoth(run, "WaferOutOfSpec", a, "ScanComplete", b)
      BY <2>4 DEF AnnounceBoth
    <3>3. AddedBoth(run, "WaferOutOfSpec", a, "ScanComplete", b)
      BY <2>5, <3>1, <3>2, AnnounceTwo, Zenon
    <3> QED
      BY <3>3 DEF AddedBoth
  <2>7. \A q \in 1 .. run : \A e \in EndEvents :
          announced'[q][e] = announced[q][e] +
            IF q = run /\ state = "Processing" /\ e = EndOf(worker.verdict) THEN 1 ELSE 0
    <3> SUFFICES ASSUME NEW q \in 1 .. run, NEW e \in EndEvents
                 PROVE  announced'[q][e] = announced[q][e] +
                          IF q = run /\ state = "Processing" /\ e = EndOf(worker.verdict) THEN 1 ELSE 0
      BY Zenon
    <3>1. e # "WaferOutOfSpec" /\ e \in Announcements /\ announced[q][e] \in Nat
      BY <1>3, Zenon DEF EndEvents
    <3>2. announced'[q][e] = IF q = run /\ e = "ScanComplete" THEN announced[q][e] + b ELSE announced[q][e]
      BY <2>6, <3>1, Zenon
    <3> QED
      BY <2>3, <2>4, <3>1, <3>2, SMTT(20)
  <2> QED
    BY <1>0, <2>1, <2>2, <2>6, <2>7, ResultHandled, Zenon
<1> QED
  BY <1>4, <1>5, Zenon

LEMMA StageStoppedKeepsRun ==
  ASSUME CallsInv, QueueTypes, RunInv, ControllerStageStopped
  PROVE  RunInv'
<1>0. /\ Take("StageStopped") /\ Reply /\ UNCHANGED <<run, aborts, active_alarms>> /\ run \in Nat
      /\ state' = IF state = "Stopping" THEN "Idle" ELSE state
      /\ Takes("StageStopped", DefaultGuards) <=> state = "Stopping"
  BY TriggerEffects, Zenon DEF ControllerStageStopped, StageStopped, QueueTypes, RunInv, HistoryTypes
<1>1. /\ StartsBeforeResult'
      /\ "worker" \in waiting /\ "worker" \notin waiting' /\ worker.pc = "stopping"
      /\ "scan" \in waiting' <=> "scan" \in waiting
      /\ UNCHANGED <<scan, samples, samples_closed, jobs, worker, ctl>> /\ ctl.pc = "idle"
  BY <1>0, HandlerFrame, Zenon DEF RunInv
<1>2. state \in {"Scanning", "Stopping"} /\ ~ Resting
  BY <1>1 DEF RunInv, StateFollowsRun, Resting
<1>3. WorkerHasRun /\ worker.run = run /\ run \in 1 .. run /\ samples = <<>>
  <2>1. WorkerHasRun
    BY <1>1, Zenon DEF WorkerHasRun
  <2>2. worker.run = run
    BY <2>1, Zenon DEF RunInv, RunInOnePlace
  <2>3. samples = <<>>
    BY <1>1, <2>1, Zenon DEF RunInv, BlocksInOrder
  <2> QED
    BY <1>2, <2>1, <2>2, <2>3, RunHasNumber, Zenon
<1>4. scan.pc = "off" /\ jobs = <<>>
  BY <1>3 DEF RunInv, RunInOnePlace
<1>5. ~ WorkerHasRun'
  BY <1>1, Zenon DEF WorkerHasRun
<1>6. /\ announced' \in Seq([Announcements -> Nat]) /\ Len(announced') = run
      /\ \A q \in 1 .. run : \A e \in EndEvents : announced'[q][e] = announced[q][e]
  <2>1. CASE state = "Stopping"
    <3>1. Announce(run, "RunAborted") /\ "RunAborted" \in Announcements
      BY <1>0, <2>1, Zenon DEF ControllerStageStopped, Announcements
    <3>2. /\ announced' \in Seq([Announcements -> Nat]) /\ Len(announced') = run
          /\ \A q \in 1 .. run : \A g \in Announcements :
               announced'[q][g] = IF q = run /\ g = "RunAborted" THEN announced[q][g] + 1
                                  ELSE announced[q][g]
      BY <1>0, <1>3, <3>1, AnnounceOne, SMTT(20) DEF RunInv, AddedOne
    <3>3. \A e \in EndEvents : e \in Announcements /\ e # "RunAborted"
      BY Zenon DEF EndEvents, Announcements
    <3> QED
      BY <3>2, <3>3, Zenon
  <2>2. CASE state # "Stopping"
    BY <1>0, <2>2, Zenon DEF ControllerStageStopped, RunInv, HistoryTypes
  <2> QED
    BY <2>1, <2>2, Zenon
<1>7. HistoryTypes'
  BY <1>0, <1>2, <1>6, Zenon DEF RunInv, HistoryTypes, ProcessStates
<1>8. RunInOnePlace'
  BY <1>0, <1>1, <1>3, <1>4, <1>5, Zenon DEF RunInOnePlace
<1>9. StateFollowsRun'
  BY <1>1, <1>4, Zenon DEF StateFollowsRun
<1>10. BlocksInOrder'
  BY <1>0, <1>1, <1>3, <1>4, Zenon DEF RunInv, BlocksInOrder
<1>11. RunNotEnded'
  <2>1. state' = state \/ state' = "Idle"
    BY <1>0, Zenon
  <2> QED
    BY <1>0, <1>2, <1>3, <1>6, <2>1, Zenon DEF RunInv, RunNotEnded
<1>12. AbortIsFinal'
  BY <1>0, <1>6, Zenon DEF RunInv, HistoryTypes, AbortIsFinal, EndEvents
<1>13. ResultsDeliverable' /\ AlarmsInTime'
  BY <1>0, <1>1, <1>2 DEF RunInv, ResultsDeliverable, AlarmsInTime
<1> QED
  BY <1>1, <1>7, <1>8, <1>9, <1>10, <1>11, <1>12, <1>13, Zenon DEF RunInv

LEMMA ControllerKeepsRun ==
  ASSUME CallsInv, QueueTypes, RunInv, ControllerStep
  PROVE  RunInv'
  BY StartKeepsRun, StartScanKeepsRun, QuietHandlersKeepRun, AbortKeepsRun, ClearAlarmKeepsRun,
     ScanCompleteKeepsRun, ResultsKeepRun, StageStoppedKeepsRun DEF ControllerStep
=============================================================================
