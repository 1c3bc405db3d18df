--------------------------- MODULE MachineRuntime ---------------------------
(***************************************************************************)
(* The composed machine (src/machine/machine_runtime.cpp): the controller  *)
(* thread and its inbox, the scan thread (src/hw/scan_thread.cpp), the     *)
(* processing worker, the sample queue between the last two, the worker's  *)
(* job queue, the threads that submit commands, and the owner that shuts   *)
(* everything down.                                                        *)
(*                                                                         *)
(* A step of the model is what a thread does between two points where      *)
(* another thread can see or change something it uses.  A call that runs   *)
(* on the controller thread is a post to the inbox followed by a wait for  *)
(* the future.  The queues are used through their contracts (bounded FIFO, *)
(* push waits for room, close lets pop drain); SpscRing and BoundedQueue   *)
(* model how those are implemented.                                        *)
(*                                                                         *)
(* Wafers are numbered in the order their Start is accepted, so a wafer id *)
(* is a run number, and a sample block carries the run it was scanned for  *)
(* (a history tag: the code's block has no wafer id).                      *)
(***************************************************************************)
EXTENDS Controller, Integers, Sequences

CONSTANTS
  Operators,       \* threads that submit commands for the UI or the CLI
  Hosts,           \* threads that submit commands for the GEM service
  Repertoire,      \* the commands these threads submit
  Lines,           \* scan.lines
  Points,          \* points on a scan line
  SampleCapacity,  \* capacity of sample_queue_
  JobCapacity,     \* capacity of jobs_
  InboxCapacity,   \* kInboxCapacity
  MaxRuns,         \* bound: accepted Starts
  Pipelined        \* whether a Start may be submitted while the worker is between
                   \* posting a wafer's result and its second look at the state

Callers == Operators \union Hosts
Threads == Callers \union {"scan", "worker"}
Commands == {"Start", "Stop", "Abort", "ClearAlarm"} \union ControlModes

ASSUME RuntimeAssumption ==
  /\ Lines \in Nat \ {0}
  /\ Points \in Nat \ {0}
  /\ SampleCapacity \in Nat \ {0}
  /\ JobCapacity \in Nat \ {0}
  /\ InboxCapacity \in Nat \ {0}
  /\ MaxRuns \in Nat
  /\ WaferIds = 1 .. MaxRuns
  /\ NoWafer = 0
  /\ {"ScanStall", "QueueOverflow"} \subseteq AlarmIds
  /\ {"InSpec", "OutOfSpec"} \intersect AlarmIds = {}
  /\ Operators \intersect Hosts = {}
  /\ {"scan", "worker"} \intersect Callers = {}
  /\ Repertoire \subseteq Commands
  /\ Pipelined \in BOOLEAN

(* The alarm ids process_wafer raises; a verdict is one of them, or a usable
   result, in or out of specification. *)
QualityAlarms == AlarmIds \ {"ScanStall", "QueueOverflow"}
Verdicts == {"InSpec", "OutOfSpec"} \union QualityAlarms

(* What is announced on the bus for a wafer after its ScanStarted. *)
Announcements == {"ScanComplete", "WaferOutOfSpec", "RunAborted", "QualityAlarm",
                  "WaferResultReady", "WaferOutputsWritten"}

VARIABLES
  inbox, inbox_closed,      \* Controller::inbox_
  waiting,                  \* threads blocked on the future of a posted call
  ctl,                      \* the controller thread inside a handler
  abort_requested,          \* ScanThread::abort_requested_
  scan,                     \* the scan thread
  samples, samples_closed,  \* sample_queue_
  jobs, jobs_closed,        \* jobs_
  worker,                   \* the processing thread
  owner,                    \* how far MachineRuntime::shutdown has come
  run,                      \* accepted Starts so far; the current wafer
  aborts,                   \* history: runs whose Abort was accepted
  announced                 \* history: how often each wafer's events were published

queueVars == <<samples, samples_closed, jobs, jobs_closed>>
historyVars == <<run, aborts, announced>>
vars == <<controllerVars, inbox, inbox_closed, waiting, ctl, abort_requested, scan,
          queueVars, worker, owner, historyVars>>
-----------------------------------------------------------------------------
SourceOf(c) == IF c \in Hosts THEN "SecsGem" ELSE "Ui"

NoAnnouncements == [e \in Announcements |-> 0]
Announce(r, e) == announced' = [announced EXCEPT ![r][e] = @ + 1]

ControllerIdle == [pc |-> "idle", from |-> "worker"]
ScanOff == [pc |-> "off", run |-> 0, line |-> 0, point |-> 0, aborted |-> FALSE]
WorkerIdle == [pc |-> "idle", run |-> 0, lines |-> <<>>, verdict |-> "InSpec"]

Init ==
  /\ ControllerInit
  /\ inbox = <<>> /\ inbox_closed = FALSE
  /\ waiting = {}
  /\ ctl = ControllerIdle
  /\ abort_requested = FALSE
  /\ scan = ScanOff
  /\ samples = <<>> /\ samples_closed = FALSE
  /\ jobs = <<>> /\ jobs_closed = FALSE
  /\ worker = WorkerIdle
  /\ owner = "running"
  /\ run = 0 /\ aborts = {} /\ announced = <<>>
-----------------------------------------------------------------------------
(* run_on_controller_thread up to future.get(): the item is queued, or lost
   if the inbox is closed, and the thread waits either way. *)
Post(thread, op, arg) ==
  /\ IF inbox_closed
     THEN UNCHANGED inbox
     ELSE /\ Len(inbox) < InboxCapacity
          /\ inbox' = Append(inbox, [op |-> op, from |-> thread, arg |-> arg])
  /\ waiting' = waiting \union {thread}

(* MachineApi: a thread submits a command.  An operator thread stops doing so
   when shutdown begins, the I/O thread when the HSMS server has stopped. *)
Submit(c, command) ==
  /\ c \notin waiting
  /\ owner = "running" \/ (c \in Hosts /\ owner = "stopServer")
  /\ command = "Start" => /\ run + Len(inbox) < MaxRuns
                          /\ Pipelined \/ worker.pc # "resulted"
  /\ Post(c, command, command)
  /\ UNCHANGED <<controllerVars, inbox_closed, ctl, abort_requested, scan, queueVars,
                 worker, owner, historyVars>>
-----------------------------------------------------------------------------
(* Controller::run takes the next item ... *)
Take(op) ==
  /\ ctl.pc = "idle"
  /\ inbox # <<>>
  /\ Head(inbox).op = op
  /\ inbox' = Tail(inbox)
  /\ UNCHANGED <<inbox_closed, abort_requested, scan, queueVars, worker, owner>>

(* ... and fulfils its promise. *)
Reply == /\ waiting' = waiting \ {Head(inbox).from}
         /\ UNCHANGED ctl

(* The handler is not done yet: it still has to drive the scan thread. *)
Continue(pc) == /\ ctl' = [pc |-> pc, from |-> Head(inbox).from]
                /\ UNCHANGED waiting

Caller == Head(inbox).from

ControllerStart ==
  /\ Take("Start")
  /\ HandleStart(SourceOf(Caller), run + 1)
  /\ IF Takes("Start", StartGuards(SourceOf(Caller), run + 1))
     THEN /\ run' = run + 1
          /\ announced' = Append(announced, NoAnnouncements)
          /\ Continue("starting")
     ELSE /\ Reply
          /\ UNCHANGED <<run, announced>>
  /\ UNCHANGED aborts

(* Mutant: the promise of an accepted Start is not fulfilled. *)
ControllerStartScanNoReply ==
  /\ ctl.pc = "starting"
  /\ scan.pc = "off"
  /\ abort_requested' = FALSE
  /\ scan' = [ScanOff EXCEPT !.pc = "line", !.run = run]
  /\ ctl' = ControllerIdle
  /\ UNCHANGED <<controllerVars, inbox, inbox_closed, waiting, queueVars, worker, owner,
                 historyVars>>

(* RestartableScanDriver::start: the join waits for the previous scan thread,
   then ScanThread::start clears the abort flag and spawns the next one. *)
ControllerStartScan ==
  /\ ctl.pc = "starting"
  /\ scan.pc = "off"
  /\ abort_requested' = FALSE
  /\ scan' = [ScanOff EXCEPT !.pc = "line", !.run = run]
  /\ waiting' = waiting \ {ctl.from}
  /\ ctl' = ControllerIdle
  /\ UNCHANGED <<controllerVars, inbox, inbox_closed, queueVars, worker, owner, historyVars>>

ControllerStop ==
  /\ Take("Stop") /\ HandleStop(SourceOf(Caller)) /\ Reply
  /\ UNCHANGED historyVars

ControllerAbort ==
  /\ Take("Abort")
  /\ HandleAbort(SourceOf(Caller))
  /\ IF AbortTaken(SourceOf(Caller))
     THEN /\ aborts' = aborts \union {run}
          /\ Continue("aborting")
     ELSE /\ Reply
          /\ UNCHANGED aborts
  /\ UNCHANGED <<run, announced>>

(* scan_driver_.request_abort() at the end of the Abort handler. *)
ControllerRequestAbort ==
  /\ ctl.pc = "aborting"
  /\ abort_requested' = TRUE
  /\ waiting' = waiting \ {ctl.from}
  /\ ctl' = ControllerIdle
  /\ UNCHANGED <<controllerVars, inbox, inbox_closed, scan, queueVars, worker, owner,
                 historyVars>>

ControllerClearAlarm ==
  /\ Take("ClearAlarm") /\ HandleClearAlarm(SourceOf(Caller)) /\ Reply
  /\ UNCHANGED historyVars

ControllerSetMode ==
  /\ \E mode \in ControlModes :
        Take(mode) /\ HandleSetControlMode(SourceOf(Caller), mode)
  /\ Reply
  /\ UNCHANGED historyVars

ControllerScanComplete ==
  /\ Take("LinesComplete") /\ ScanComplete /\ Reply
  /\ UNCHANGED historyVars

(* notify_processing_result with an alarm. *)
ControllerProcessingAlarm ==
  /\ Take("Result") /\ Reply
  /\ \E id \in QualityAlarms : Head(inbox).arg = id /\ ProcessingAlarm(id)
  /\ IF Takes("Fault", DefaultGuards)
     THEN Announce(run, "QualityAlarm") ELSE UNCHANGED announced
  /\ UNCHANGED <<run, aborts>>

(* notify_processing_result with a usable result: WaferOutOfSpec goes out
   before the state machine is asked, ScanComplete after it agreed. *)
ControllerProcessingResult ==
  /\ Take("Result") /\ Reply
  /\ Head(inbox).arg \in {"InSpec", "OutOfSpec"}
  /\ ProcessingResult(FALSE)
  /\ LET outOfSpec == IF Head(inbox).arg = "OutOfSpec" THEN 1 ELSE 0
         complete == IF Takes("ResultReady", ResultGuards(FALSE)) THEN 1 ELSE 0
     IN  announced' = [announced EXCEPT ![run]["WaferOutOfSpec"] = @ + outOfSpec,
                                        ![run]["ScanComplete"] = @ + complete]
  /\ UNCHANGED <<run, aborts>>

ControllerStageStopped ==
  /\ Take("StageStopped") /\ Reply
  /\ IF Takes("StageStopped", DefaultGuards)
     THEN Announce(run, "RunAborted") ELSE UNCHANGED announced
  /\ StageStopped
  /\ UNCHANGED <<run, aborts>>

(* inbox_.pop() on a closed and drained inbox ends Controller::run. *)
ControllerExit ==
  /\ ctl.pc = "idle" /\ inbox = <<>> /\ inbox_closed
  /\ ctl' = [ControllerIdle EXCEPT !.pc = "off"]
  /\ UNCHANGED <<controllerVars, inbox, inbox_closed, waiting, abort_requested, scan,
                 queueVars, worker, owner, historyVars>>

ControllerStep ==
  \/ ControllerStart \/ ControllerStartScan \/ ControllerStop
  \/ ControllerAbort \/ ControllerRequestAbort
  \/ ControllerClearAlarm \/ ControllerSetMode
  \/ ControllerScanComplete \/ ControllerProcessingAlarm \/ ControllerProcessingResult
  \/ ControllerStageStopped \/ ControllerExit
-----------------------------------------------------------------------------
(* What every step of the scan thread leaves alone. *)
ScanFrame ==
  UNCHANGED <<state, stop_after_wafer, control_mode, has_active_alarm, current_wafer_id,
              inbox_closed, ctl, abort_requested, samples_closed, jobs_closed,
              worker, owner, historyVars>>

(* Where the loops of ScanThread::run go after a point. *)
NextPoint ==
  scan' = IF scan.point + 1 < Points
          THEN [scan EXCEPT !.pc = "line", !.point = @ + 1]
          ELSE [scan EXCEPT !.pc = "push", !.point = 0]

(* The abort flag is tested before every point. *)
ScanCheck ==
  /\ scan.pc = "line"
  /\ scan' = IF abort_requested
             THEN [scan EXCEPT !.pc = "push", !.aborted = TRUE]
             ELSE [scan EXCEPT !.pc = "point"]
  /\ UNCHANGED <<active_alarms, inbox, waiting, samples, jobs>>
  /\ ScanFrame

ScanPoint ==
  /\ scan.pc = "point"
  /\ NextPoint
  /\ UNCHANGED <<active_alarms, inbox, waiting, samples, jobs>>
  /\ ScanFrame

(* An injected stage stall: the alarm is set, the thread sleeps, the alarm is
   cleared again. *)
ScanStall ==
  /\ scan.pc = "point"
  /\ scan' = [scan EXCEPT !.pc = "stalled"]
  /\ active_alarms' = active_alarms \union {"ScanStall"}
  /\ UNCHANGED <<inbox, waiting, samples, jobs>>
  /\ ScanFrame

(* Mutant: the stall alarm is not cleared. *)
ScanStallEndNoClear ==
  /\ scan.pc = "stalled"
  /\ NextPoint
  /\ UNCHANGED <<active_alarms, inbox, waiting, samples, jobs>>
  /\ ScanFrame

ScanStallEnd ==
  /\ scan.pc = "stalled"
  /\ NextPoint
  /\ active_alarms' = active_alarms \ {"ScanStall"}
  /\ UNCHANGED <<inbox, waiting, samples, jobs>>
  /\ ScanFrame

(* The line's block, complete or cut short, goes to the sample queue. *)
ScanPush ==
  /\ scan.pc = "push"
  /\ IF samples_closed
     THEN /\ active_alarms' = IF scan.aborted THEN active_alarms
                              ELSE active_alarms \union {"QueueOverflow"}
          /\ UNCHANGED samples
     ELSE /\ Len(samples) < SampleCapacity
          /\ samples' = Append(samples, [run |-> scan.run, line |-> scan.line])
          /\ UNCHANGED active_alarms
  /\ scan' = CASE scan.aborted -> [scan EXCEPT !.pc = "stopped"]
               [] ~ scan.aborted /\ scan.line + 1 < Lines ->
                    [scan EXCEPT !.pc = "line", !.line = @ + 1]
               [] ~ scan.aborted /\ scan.line + 1 >= Lines ->
                    [scan EXCEPT !.pc = "complete"]
  /\ UNCHANGED <<inbox, waiting, jobs>>
  /\ ScanFrame

(* jobs_.push: waits for room, drops the item once the queue is closed. *)
PushJob(kind) ==
  IF jobs_closed
  THEN UNCHANGED jobs
  ELSE /\ Len(jobs) < JobCapacity
       /\ jobs' = Append(jobs, [kind |-> kind, run |-> scan.run])

(* Mutant: the scan thread reports "stage stopped" itself and leaves only the
   discarding to the worker. *)
ScanStoppedReportsItself ==
  /\ scan.pc = "stopped"
  /\ PushJob("DiscardSamples")
  /\ inbox' = Append(inbox, [op |-> "StageStopped", from |-> "scan", arg |-> "StageStopped"])
  /\ scan' = ScanOff
  /\ UNCHANGED <<active_alarms, waiting, samples>>
  /\ ScanFrame

(* on_stopped_: the last thing an aborted scan does. *)
ScanStopped ==
  /\ scan.pc = "stopped"
  /\ PushJob("DiscardSamples")
  /\ scan' = ScanOff
  /\ UNCHANGED <<active_alarms, inbox, waiting, samples>>
  /\ ScanFrame

(* on_lines_complete_: notify_scan_complete, then the job for the worker. *)
ScanReport ==
  /\ scan.pc = "complete"
  /\ Post("scan", "LinesComplete", "LinesComplete")
  /\ scan' = [scan EXCEPT !.pc = "reported"]
  /\ UNCHANGED <<active_alarms, samples, jobs>>
  /\ ScanFrame

(* Mutant: no job follows the end of the scan. *)
ScanQueueJobForgotten ==
  /\ scan.pc = "reported"
  /\ "scan" \notin waiting
  /\ scan' = ScanOff
  /\ UNCHANGED <<active_alarms, inbox, waiting, samples, jobs>>
  /\ ScanFrame

ScanQueueJob ==
  /\ scan.pc = "reported"
  /\ "scan" \notin waiting
  /\ PushJob("ProcessWafer")
  /\ scan' = ScanOff
  /\ UNCHANGED <<active_alarms, inbox, waiting, samples>>
  /\ ScanFrame

ScanStep ==
  \/ ScanCheck \/ ScanPoint \/ ScanStall \/ ScanStallEnd
  \/ ScanPush \/ ScanStopped \/ ScanReport \/ ScanQueueJob
-----------------------------------------------------------------------------
(* What every step of the processing thread leaves alone. *)
WorkerFrame ==
  UNCHANGED <<controllerVars, inbox_closed, ctl, abort_requested, scan,
              samples_closed, jobs_closed, owner, run, aborts>>

(* worker_loop takes the next job, or ends when there can be none. *)
WorkerPop ==
  /\ worker.pc = "idle"
  /\ jobs # <<>>
  /\ jobs' = Tail(jobs)
  /\ worker' = [WorkerIdle EXCEPT
                  !.pc = IF Head(jobs).kind = "DiscardSamples" THEN "discard" ELSE "collect",
                  !.run = Head(jobs).run]
  /\ UNCHANGED <<inbox, waiting, samples, announced>>
  /\ WorkerFrame

(* Mutant: the loop goes on when pop() finds the queue closed. *)
WorkerExitSpins ==
  /\ worker.pc = "idle" /\ jobs = <<>> /\ jobs_closed
  /\ UNCHANGED <<worker, inbox, waiting, samples, jobs, announced>>
  /\ WorkerFrame

WorkerExit ==
  /\ worker.pc = "idle" /\ jobs = <<>> /\ jobs_closed
  /\ worker' = [WorkerIdle EXCEPT !.pc = "off"]
  /\ UNCHANGED <<inbox, waiting, samples, jobs, announced>>
  /\ WorkerFrame

(* notify_stage_stopped, from any of the three places that call it. *)
ReportStopped ==
  /\ Post("worker", "StageStopped", "StageStopped")
  /\ worker' = [worker EXCEPT !.pc = "stopping", !.lines = <<>>]

(* Mutant: the leftover blocks stay where they are. *)
WorkerDiscardNothing ==
  /\ worker.pc = "discard"
  /\ ReportStopped
  /\ UNCHANGED <<samples, jobs, announced>>
  /\ WorkerFrame

(* discard_queued_samples, a block at a time, then the report. *)
WorkerDiscard ==
  /\ worker.pc = "discard"
  /\ IF samples # <<>>
     THEN samples' = Tail(samples) /\ UNCHANGED <<inbox, waiting, worker>>
     ELSE ReportStopped /\ UNCHANGED samples
  /\ UNCHANGED <<jobs, announced>>
  /\ WorkerFrame

(* process_wafer collects scan.lines blocks; an empty queue that is closed
   ends the job. *)
WorkerCollect ==
  /\ worker.pc = "collect" /\ Len(worker.lines) < Lines
  /\ IF samples # <<>>
     THEN /\ samples' = Tail(samples)
          /\ worker' = [worker EXCEPT !.lines = Append(@, Head(samples))]
     ELSE /\ samples_closed
          /\ worker' = WorkerIdle
          /\ UNCHANGED samples
  /\ UNCHANGED <<inbox, waiting, jobs, announced>>
  /\ WorkerFrame

(* The first look at the state, before the analysis. *)
WorkerCheck ==
  /\ worker.pc = "collect" /\ Len(worker.lines) = Lines
  /\ IF state = "Stopping"
     THEN ReportStopped
     ELSE worker' = [worker EXCEPT !.pc = "analyse"] /\ UNCHANGED <<inbox, waiting>>
  /\ UNCHANGED <<samples, jobs, announced>>
  /\ WorkerFrame

(* run_pipeline and the choice of alarm, then notify_processing_result. *)
WorkerAnalyse ==
  /\ worker.pc = "analyse"
  /\ \E verdict \in Verdicts :
        /\ Post("worker", "Result", verdict)
        /\ worker' = [worker EXCEPT !.pc = "resulted", !.verdict = verdict, !.lines = <<>>]
  /\ UNCHANGED <<samples, jobs, announced>>
  /\ WorkerFrame

(* Mutants: no second look at the state; a second look that gives up unless the
   machine is still Processing. *)
WorkerRecheckMissing ==
  /\ worker.pc = "resulted" /\ "worker" \notin waiting
  /\ worker' = [worker EXCEPT !.pc = "publish"]
  /\ UNCHANGED <<inbox, waiting, samples, jobs, announced>>
  /\ WorkerFrame

WorkerRecheckGivesUp ==
  /\ worker.pc = "resulted" /\ "worker" \notin waiting
  /\ IF state = "Processing"
     THEN worker' = [worker EXCEPT !.pc = "publish"] /\ UNCHANGED <<inbox, waiting>>
     ELSE ReportStopped
  /\ UNCHANGED <<samples, jobs, announced>>
  /\ WorkerFrame

(* The second look at the state, after the controller answered. *)
WorkerRecheck ==
  /\ worker.pc = "resulted" /\ "worker" \notin waiting
  /\ IF state = "Stopping"
     THEN ReportStopped
     ELSE worker' = [worker EXCEPT !.pc = "publish"] /\ UNCHANGED <<inbox, waiting>>
  /\ UNCHANGED <<samples, jobs, announced>>
  /\ WorkerFrame

(* WaferResultReady and the wafer map unless an alarm was raised, then the
   output files. *)
WorkerPublish ==
  /\ worker.pc = "publish"
  /\ LET usable == IF worker.verdict \in QualityAlarms THEN 0 ELSE 1
     IN  announced' = [announced EXCEPT ![worker.run]["WaferResultReady"] = @ + usable,
                                        ![worker.run]["WaferOutputsWritten"] = @ + 1]
  /\ worker' = WorkerIdle
  /\ UNCHANGED <<inbox, waiting, samples, jobs>>
  /\ WorkerFrame

WorkerStopped ==
  /\ worker.pc = "stopping" /\ "worker" \notin waiting
  /\ worker' = WorkerIdle
  /\ UNCHANGED <<inbox, waiting, samples, jobs, announced>>
  /\ WorkerFrame

WorkerStep ==
  \/ WorkerPop \/ WorkerExit \/ WorkerDiscard \/ WorkerCollect \/ WorkerCheck
  \/ WorkerAnalyse \/ WorkerRecheck \/ WorkerPublish \/ WorkerStopped
-----------------------------------------------------------------------------
(* Mutant: Controller::stop closes the inbox before it joins the scan thread. *)
AfterCallInboxFirst ==
  [stopServer |-> "abortScan", abortScan |-> "closeJobs", closeJobs |-> "closeSamples",
   closeSamples |-> "joinWorker", joinWorker |-> "stopController",
   stopController |-> "closeInbox", closeInbox |-> "joinScan",
   joinScan |-> "joinController", joinController |-> "done"]

(* MachineRuntime::shutdown with Controller::stop, in the order of its calls. *)
AfterCall ==
  [stopServer |-> "abortScan", abortScan |-> "closeJobs", closeJobs |-> "closeSamples",
   closeSamples |-> "joinWorker", joinWorker |-> "stopController",
   stopController |-> "joinScan", joinScan |-> "closeInbox",
   closeInbox |-> "joinController", joinController |-> "done"]

(* Whether a join can return: server.stop() joins the I/O thread, which may be
   inside a command. *)
CallReturns ==
  /\ owner = "stopServer" => Hosts \intersect waiting = {}
  /\ owner = "joinWorker" => worker.pc = "off"
  /\ owner = "joinScan" => scan.pc = "off"
  /\ owner = "joinController" => ctl.pc = "off"

OwnerFrame ==
  UNCHANGED <<controllerVars, inbox, waiting, ctl, scan, samples, jobs, worker, historyVars>>

(* "Destruction must not race with a caller of api() on another thread"
   (machine_runtime.hpp): it begins when no operator command is in flight. *)
BeginShutdown ==
  /\ owner = "running"
  /\ Operators \intersect waiting = {}
  /\ owner' = "stopServer"
  /\ UNCHANGED <<inbox_closed, abort_requested, samples_closed, jobs_closed>>
  /\ OwnerFrame

ShutdownCall ==
  /\ owner \in DOMAIN AfterCall
  /\ CallReturns
  /\ owner' = AfterCall[owner]
  /\ abort_requested' = (abort_requested \/ owner \in {"abortScan", "stopController"})
  /\ jobs_closed' = (jobs_closed \/ owner = "closeJobs")
  /\ samples_closed' = (samples_closed \/ owner = "closeSamples")
  /\ inbox_closed' = (inbox_closed \/ owner = "closeInbox")
  /\ OwnerFrame

(* The machine has been shut down; nothing happens any more. *)
Terminated == owner = "done" /\ UNCHANGED vars
-----------------------------------------------------------------------------
Next ==
  \/ \E c \in Callers, command \in Repertoire : Submit(c, command)
  \/ ControllerStep \/ ScanStep \/ WorkerStep
  \/ BeginShutdown \/ ShutdownCall \/ Terminated

Spec == Init /\ [][Next]_vars

(* Every thread is scheduled again and again; nobody has to submit a command
   or to begin a shutdown, but a shutdown that has begun goes on.  The handler
   server.stop() posts waits in the I/O thread's FIFO run queue, so commands
   from the host cannot overtake it for ever: shutdown is strongly fair. *)
Fairness ==
  /\ WF_vars(ControllerStep)
  /\ WF_vars(ScanStep)
  /\ WF_vars(WorkerStep)
  /\ SF_vars(ShutdownCall)

FairSpec == Spec /\ Fairness
-----------------------------------------------------------------------------
(* When the machine is ready for the next Start, or waits for ClearAlarm, the
   previous scan thread is past its last push, no block of its run is left in
   the sample queue, and no job is waiting: the machine is as clean as it was
   before the first run.  RestartableScanDriver::start ("this join is short")
   and the next wafer's process_wafer both rely on it. *)
QuietBetweenRuns ==
  state \in {"Idle", "Alarm"} =>
    /\ scan.pc = "off"
    /\ samples = <<>>
    /\ jobs = <<>>

(* process_wafer takes the first scan.lines blocks it finds: they are all of
   its own wafer and in line order, whatever was aborted before.  And "the
   discard cannot eat blocks of a later run": the job that follows an aborted
   scan finds only blocks of that scan, whose thread is past its last push, as
   discard_queued_samples needs: size() must not grow under it. *)
WaferGetsItsOwnLines ==
  /\ \A i \in DOMAIN worker.lines : worker.lines[i] = [run |-> worker.run, line |-> i - 1]
  /\ worker.pc = "discard" =>
       /\ scan.pc = "off"
       /\ \A i \in DOMAIN samples : samples[i].run = worker.run

(* An accepted Abort is final: the run is never reported complete, its result
   is never published and nothing is written for it, wherever the Abort fell
   between the end of the scan and the worker's two looks at the state. *)
AbortIsFinal ==
  \A r \in aborts :
    \A e \in {"ScanComplete", "QualityAlarm", "WaferResultReady", "WaferOutputsWritten"} :
      announced[r][e] = 0

(* Shutdown leaves nobody behind: once the inbox is closed no thread waits for
   a future that will never be set (run_on_controller_thread ignores that its
   push failed and waits for ever). *)
NoOrphanedCaller == inbox_closed => waiting = {}

(* What RestartableScanDriver::start says: "the previous run's thread has
   already reported completion ..., so this join is short". *)
JoinIsShort == ctl.pc = "starting" => scan.pc \in {"off", "reported"}

(* FR-ALM-1, "an active alarm blocks new scans until cleared": the Alarm state,
   the has_active_alarm_ flag that guards Start and the alarms of the processing
   thread in the AlarmManager's table are three copies of the same fact, set and
   cleared in separate places, and they agree.  What else the table holds is the
   scan thread's own: ScanStall only while that thread is stalled, and
   QueueOverflow only once a shutdown has closed the sample queue.  So no alarm
   outlives its cause, and no Alarm state is entered that ClearAlarm cannot leave
   with a clean table. *)
AlarmCopiesAgree ==
  /\ has_active_alarm <=> state = "Alarm"
  /\ state = "Alarm" <=> active_alarms \intersect QualityAlarms # {}
  /\ "ScanStall" \in active_alarms => scan.pc = "stalled"
  /\ "QueueOverflow" \in active_alarms => samples_closed

(* FR-ALM-1: no Start is accepted while any alarm is active, the ones the scan
   thread raises without telling the controller included. *)
StartSeesNoAlarm ==
  [][run' # run => active_alarms = {}]_vars

(* The threads together implement the sequential machine of MachineLifecycle:
   unless a Start is pipelined, what is visible is one wafer after the other,
   one end per wafer, and outputs once and after that end. *)
Lifecycle == INSTANCE MachineLifecycle WITH phase <- state
ImplementsLifecycle == Lifecycle!Spec

(* A wafer that was started is finished, one way or another, and FR-MC-4: an
   aborted run comes to rest, whichever thread has to report it. *)
RunEnds == (state \in {"Scanning", "Processing", "Stopping"})
             ~> (state \in {"Idle", "Alarm"} \/ owner # "running")

(* The transition table's "emit ScanComplete; write outputs": a wafer reported
   complete gets its result files. *)
CompletedIsWritten ==
  \A r \in 1 .. MaxRuns :
    (r <= run /\ announced[r]["ScanComplete"] = 1)
      ~> (owner # "running" \/ (r <= run /\ announced[r]["WaferOutputsWritten"] = 1))

(* Every command is answered, also one that is in flight when shutdown begins. *)
CommandsAnswered == \A c \in Callers : (c \in waiting) ~> (c \notin waiting)

(* FR-MC-6: shutdown ends, in whatever state it finds the threads. *)
ShutdownEnds == (owner # "running") ~> (owner = "done")
=============================================================================
