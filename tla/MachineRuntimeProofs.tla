------------------------ MODULE MachineRuntimeProofs ------------------------
(***************************************************************************)
(* The scan thread and the processing thread keep the invariant about the  *)
(* run that is under way; what the composed machine guarantees follows.    *)
(***************************************************************************)
EXTENDS ControllerProofs

-----------------------------------------------------------------------------
(* The scan thread. *)

(* What holds while the scan thread works, and what no step of it changes. *)
LEMMA ScanHasRun ==
  ASSUME CallsInv, RunInv, ScanStep
  PROVE  /\ scan.pc # "off" /\ scan.run = run /\ jobs = <<>>
         /\ ~ WorkerHasRun /\ worker.pc # "resulted" /\ worker.lines = <<>>
         /\ ~ Resting /\ ctl.pc # "starting"
         /\ state \in {"Scanning", "Processing", "Stopping"}
         /\ UNCHANGED <<state, run, aborts, announced, ctl, samples_closed, worker>>
<1>1. scan.pc # "off" /\ UNCHANGED <<state, run, aborts, announced, ctl, samples_closed, worker>>
  BY DEF ScanStep, ScanCheck, ScanPoint, ScanStall, ScanStallEnd, ScanPush, ScanStopped,
         ScanReport, ScanQueueJob, ScanFrame, historyVars
<1>2. /\ scan.run = run /\ jobs = <<>> /\ ~ WorkerHasRun /\ worker.pc # "resulted"
      /\ ~ Resting /\ ctl.pc # "starting"
  BY <1>1 DEF RunInv, RunInOnePlace
<1>3. worker.lines = <<>>
  BY <1>2 DEF RunInv, BlocksInOrder, WorkerHasRun
<1>4. state \in {"Scanning", "Processing", "Stopping"}
  BY <1>2 DEF RunInv, HistoryTypes, ProcessStates, Resting
<1> QED
  BY <1>1, <1>2, <1>3, <1>4

(* A step of the scan thread that leaves the worker's calls and the job queue
   alone: what is left to show is about the samples, the alarms and where it
   goes. *)
LEMMA ScanGoesOn ==
  ASSUME CallsInv, RunInv, ScanStep, UNCHANGED jobs,
         scan'.pc # "off", scan'.run = scan.run,
         "worker" \in waiting' <=> "worker" \in waiting,
         StartsBeforeResult', AlarmsInTime', BlocksInOrder', StateFollowsRun'
  PROVE  RunInv'
<1>0. /\ scan.pc # "off" /\ scan.run = run /\ jobs = <<>>
      /\ ~ WorkerHasRun /\ worker.pc # "resulted" /\ ~ Resting /\ ctl.pc # "starting"
      /\ UNCHANGED <<state, run, aborts, announced, ctl, worker>>
  BY ScanHasRun
<1>1. ~ Resting' /\ ~ WorkerHasRun'
  BY <1>0 DEF Resting, WorkerHasRun
<1>2. HistoryTypes' /\ RunNotEnded' /\ AbortIsFinal'
  BY <1>0, <1>1 DEF RunInv, HistoryTypes, RunNotEnded, AbortIsFinal
<1>3. RunInOnePlace'
  BY <1>0, <1>1 DEF RunInOnePlace
<1>4. ResultsDeliverable'
  BY <1>0, <1>1 DEF RunInv, ResultsDeliverable, Deliverable
<1> QED
  BY <1>2, <1>3, <1>4 DEF RunInv

LEMMA ScanMovesKeepRun ==
  ASSUME CallsInv, RunInv, ScanCheck \/ ScanPoint \/ ScanStall \/ ScanStallEnd
  PROVE  RunInv'
<1>0. /\ ScanStep /\ scan \in Scans /\ scan.pc \in {"line", "point", "stalled"}
      /\ UNCHANGED <<inbox, waiting, samples, jobs>>
  BY DEF ScanStep, ScanCheck, ScanPoint, ScanStall, ScanStallEnd, CallsInv, ThreadTypes
<1>1. /\ scan.pc # "off" /\ scan.run = run /\ jobs = <<>> /\ worker.lines = <<>>
      /\ ~ WorkerHasRun /\ worker.pc # "resulted"
      /\ UNCHANGED <<state, run, aborts, announced, ctl, samples_closed, worker>>
  BY <1>0, ScanHasRun
<1>2. /\ scan'.pc \in {"line", "point", "stalled", "push"}
      /\ scan'.run = scan.run /\ scan'.line = scan.line
  BY <1>0 DEF ScanCheck, ScanPoint, ScanStall, ScanStallEnd, NextPoint, Scans
<1>3. AlarmsInTime'
  <2>1. CASE ScanStall
    <3>1. scan'.pc = "stalled" /\ active_alarms' = active_alarms \union {"ScanStall"}
      BY <1>0, <2>1 DEF ScanStall, Scans
    <3>2. scan.pc # "stalled"
      BY <2>1 DEF ScanStall
    <3> QED
      BY <1>1, <3>1, <3>2 DEF RunInv, AlarmsInTime
  <2>2. CASE ScanStallEnd
    BY <1>1, <2>2 DEF RunInv, AlarmsInTime, ScanStallEnd
  <2>3. CASE ScanCheck \/ ScanPoint
    BY <1>1, <2>3 DEF RunInv, AlarmsInTime, ScanCheck, ScanPoint
  <2> QED
    BY <2>1, <2>2, <2>3
<1>4. StartsBeforeResult'
  BY <1>0, <1>1 DEF RunInv, StartsBeforeResult
<1>5. BlocksInOrder'
  <2>1. ~ WorkerHasRun'
    BY <1>0, <1>1 DEF WorkerHasRun
  <2> QED
    BY <1>0, <1>1, <1>2, <2>1 DEF RunInv, BlocksInOrder
<1>6. StateFollowsRun'
  BY <1>0, <1>1, <1>2 DEF RunInv, StateFollowsRun
<1> QED
  BY <1>0, <1>2, <1>3, <1>4, <1>5, <1>6, ScanGoesOn

LEMMA ScanPushKeepsRun ==
  ASSUME CallsInv, QueueTypes, RunInv, ScanPush
  PROVE  RunInv'
<1>0. /\ ScanStep /\ scan \in Scans /\ scan.pc = "push" /\ scan.line \in Nat /\ scan.run \in Nat
      /\ UNCHANGED <<inbox, waiting, jobs>>
  BY DEF ScanStep, ScanPush, CallsInv, ThreadTypes, Scans
<1>1. /\ scan.run = run /\ jobs = <<>> /\ worker.lines = <<>>
      /\ ~ WorkerHasRun /\ worker.pc # "resulted"
      /\ UNCHANGED <<state, run, aborts, announced, ctl, samples_closed, worker>>
  BY <1>0, ScanHasRun
<1>2. /\ scan'.run = scan.run
      /\ \/ scan'.pc = "line" /\ scan'.line = scan.line + 1 /\ scan.line + 1 < Lines
         \/ scan'.pc \in {"stopped", "complete"}
  <2>1. CASE scan.aborted
    BY <1>0, <2>1 DEF ScanPush, Scans
  <2>2. CASE ~ scan.aborted /\ scan.line + 1 < Lines
    BY <1>0, <2>2 DEF ScanPush, Scans
  <2>3. CASE ~ scan.aborted /\ scan.line + 1 >= Lines
    BY <1>0, <2>3 DEF ScanPush, Scans
  <2> QED
    BY <1>0, <2>1, <2>2, <2>3, RuntimeAssumption
<1>3. AlarmsInTime'
  BY <1>0, <1>1, <1>2 DEF RunInv, AlarmsInTime, ScanPush
<1>4. StartsBeforeResult'
  BY <1>0, <1>1 DEF RunInv, StartsBeforeResult
<1>5. BlocksInOrder'
  <2>0. ~ WorkerHasRun' /\ worker.pc # "discard" /\ Len(worker.lines) = 0 /\ Len(worker'.lines) = 0
    BY <1>0, <1>1 DEF WorkerHasRun
  <2>1. CASE samples_closed
    <3>1. UNCHANGED samples
      BY <2>1 DEF ScanPush
    <3> QED
      BY <1>1, <1>2, <2>0, <2>1, <3>1 DEF RunInv, BlocksInOrder
  <2>2. CASE ~ samples_closed
    <3>1. PICK b \in Blocks : b.run = scan.run /\ b.line = scan.line /\ samples' = Append(samples, b)
      <4>1. [run |-> scan.run, line |-> scan.line] \in Blocks
        BY <1>0 DEF Blocks
      <4> QED
        BY <2>2, <4>1 DEF ScanPush
    <3>2. samples \in Seq(Blocks) /\ Len(samples) = scan.line /\ scan.line < Lines
      BY <1>0, <2>2 DEF RunInv, BlocksInOrder, QueueTypes
    <3>3. /\ Len(samples') = scan.line + 1 /\ DOMAIN samples' = 1 .. (scan.line + 1)
          /\ samples'[scan.line + 1] = b
          /\ \A i \in 1 .. scan.line : samples'[i] = samples[i]
      BY <1>0, <3>1, <3>2
    <3>4. \A i \in 1 .. scan.line : samples[i].run = run /\ samples[i].line = i - 1
      BY <2>0, <3>2 DEF RunInv, BlocksInOrder
    <3>5. \A i \in DOMAIN samples' : samples'[i].run = run' /\ samples'[i].line = Len(worker'.lines) + i - 1
      <4> SUFFICES ASSUME NEW i \in 1 .. (scan.line + 1)
                   PROVE  samples'[i].run = run' /\ samples'[i].line = Len(worker'.lines) + i - 1
        BY <3>3
      <4>1. CASE i = scan.line + 1
        BY <1>0, <1>1, <2>0, <3>1, <3>3, <4>1
      <4>2. CASE i # scan.line + 1
        <5>1. i \in 1 .. scan.line
          BY <1>0, <4>2
        <5> QED
          BY <1>1, <2>0, <3>3, <3>4, <5>1
      <4> QED
        BY <4>1, <4>2
    <3>6. Len(worker'.lines) + Len(samples') <= Lines
      BY <1>0, <2>0, <3>2, <3>3, RuntimeAssumption
    <3> QED
      BY <1>1, <1>2, <2>0, <3>2, <3>3, <3>5, <3>6 DEF BlocksInOrder
  <2> QED
    BY <2>1, <2>2
<1>6. StateFollowsRun'
  BY <1>0, <1>1, <1>2 DEF RunInv, StateFollowsRun
<1> QED
  BY <1>0, <1>2, <1>3, <1>4, <1>5, <1>6, ScanGoesOn

LEMMA ScanReportKeepsRun ==
  ASSUME CallsInv, QueueTypes, RunInv, ScanReport
  PROVE  RunInv'
<1>0. /\ ScanStep /\ scan \in Scans /\ scan.pc = "complete" /\ ~ inbox_closed
      /\ Post("scan", "LinesComplete", "LinesComplete")
      /\ UNCHANGED <<active_alarms, samples, jobs>>
      /\ scan'.pc = "reported" /\ scan'.run = scan.run
  BY DEF ScanStep, ScanReport, CallsInv, ThreadTypes, Scans, ShutdownInOrder
<1>1. /\ jobs = <<>> /\ worker.lines = <<>> /\ ~ WorkerHasRun /\ worker.pc # "resulted"
      /\ UNCHANGED <<state, run, aborts, announced, ctl, samples_closed, worker>>
  BY <1>0, ScanHasRun
<1>2. [op |-> "LinesComplete", from |-> "scan", arg |-> "LinesComplete"] \in Posts /\ "scan" \in Threads
  BY DEF Posts, Threads
<1>3. /\ waiting' = waiting \union {"scan"}
      /\ DOMAIN inbox' = DOMAIN inbox \union {Len(inbox) + 1}
      /\ inbox'[Len(inbox) + 1].op = "LinesComplete"
      /\ \A i \in DOMAIN inbox : inbox'[i] = inbox[i] /\ i < Len(inbox) + 1
  BY <1>0, <1>2, PostAppends DEF CallsInv
<1>4. StartsBeforeResult'
  BY <1>1, <1>3 DEF RunInv, StartsBeforeResult
<1>5. AlarmsInTime'
  BY <1>0, <1>1 DEF RunInv, AlarmsInTime
<1>6. BlocksInOrder'
  <2>1. ~ WorkerHasRun'
    BY <1>1, <1>3 DEF WorkerHasRun
  <2> QED
    BY <1>0, <1>1, <2>1 DEF RunInv, BlocksInOrder
<1>7. StateFollowsRun'
  BY <1>0, <1>1, <1>3 DEF RunInv, StateFollowsRun
<1> QED
  BY <1>0, <1>3, <1>4, <1>5, <1>6, <1>7, ScanGoesOn

(* on_stopped_ and the end of on_lines_complete_: the run passes to the job
   queue, or is lost with it when the queue is closed. *)
LEMMA ScanEndKeepsRun ==
  ASSUME CallsInv, QueueTypes, RunInv, ScanStopped \/ ScanQueueJob
  PROVE  RunInv'
<1>0. /\ ScanStep /\ scan \in Scans /\ UNCHANGED <<active_alarms, inbox, waiting, samples>>
      /\ scan' = ScanOff
  BY DEF ScanStep, ScanStopped, ScanQueueJob, CallsInv, ThreadTypes
<1>1. /\ scan.run = run /\ jobs = <<>> /\ worker.lines = <<>>
      /\ ~ WorkerHasRun /\ worker.pc # "resulted" /\ ~ Resting /\ ctl.pc # "starting"
      /\ UNCHANGED <<state, run, aborts, announced, ctl, samples_closed, worker>>
  BY <1>0, ScanHasRun
<1>2. scan'.pc = "off"
  BY <1>0 DEF ScanOff
<1>3. jobs' # <<>> =>
        /\ Len(jobs') = 1 /\ jobs'[1].run = run
        /\ state \in IF jobs'[1].kind = "ProcessWafer" THEN {"Processing", "Stopping"}
                     ELSE {"Scanning", "Stopping"}
  <2>1. ASSUME NEW kind, PushJob(kind), jobs' # <<>>
        PROVE  Len(jobs') = 1 /\ jobs'[1].run = run /\ jobs'[1].kind = kind
    <3>1. jobs' = <<[kind |-> kind, run |-> scan.run]>>
      BY <1>1, <2>1 DEF PushJob
    <3> QED
      BY <1>1, <3>1
  <2>2. CASE ScanStopped
    <3>1. state \in {"Scanning", "Stopping"} /\ PushJob("DiscardSamples")
      BY <2>2 DEF ScanStopped, RunInv, StateFollowsRun
    <3> QED
      BY <2>1, <3>1
  <2>3. CASE ScanQueueJob
    <3>1. state \in {"Processing", "Stopping"} /\ PushJob("ProcessWafer")
      BY <2>3 DEF ScanQueueJob, RunInv, StateFollowsRun
    <3> QED
      BY <2>1, <3>1
  <2> QED
    BY <2>2, <2>3
<1>4. ~ Resting' /\ ~ WorkerHasRun'
  BY <1>0, <1>1 DEF Resting, WorkerHasRun
<1>5. HistoryTypes' /\ RunNotEnded' /\ AbortIsFinal'
  BY <1>0, <1>1, <1>4 DEF RunInv, HistoryTypes, RunNotEnded, AbortIsFinal
<1>6. RunInOnePlace'
  BY <1>1, <1>2, <1>3, <1>4 DEF RunInOnePlace
<1>7. StateFollowsRun'
  BY <1>0, <1>1, <1>2, <1>3 DEF RunInv, StateFollowsRun
<1>8. BlocksInOrder'
  BY <1>0, <1>1, <1>2, <1>4 DEF RunInv, BlocksInOrder
<1>9. StartsBeforeResult' /\ ResultsDeliverable'
  BY <1>0, <1>1, <1>4 DEF RunInv, StartsBeforeResult, ResultsDeliverable, Deliverable
<1>10. AlarmsInTime'
  <2>1. scan.pc # "stalled"
    BY DEF ScanStopped, ScanQueueJob
  <2> QED
    BY <1>0, <1>1, <1>2, <2>1 DEF RunInv, AlarmsInTime
<1> QED
  BY <1>5, <1>6, <1>7, <1>8, <1>9, <1>10 DEF RunInv

LEMMA ScanKeepsRun ==
  ASSUME CallsInv, QueueTypes, RunInv, ScanStep
  PROVE  RunInv'
  BY ScanMovesKeepRun, ScanPushKeepsRun, ScanReportKeepsRun, ScanEndKeepsRun DEF ScanStep

-----------------------------------------------------------------------------
(* The processing thread. *)

runVars == <<state, run, aborts, scan, samples_closed, ctl, active_alarms>>

LEMMA WorkerLeavesAlone ==
  ASSUME CallsInv, WorkerStep
  PROVE  /\ UNCHANGED runVars /\ "worker" \notin waiting /\ worker.pc # "off" /\ ~ inbox_closed
         /\ worker \in Workers
         /\ "scan" \in waiting' <=> "scan" \in waiting
<1>1. UNCHANGED runVars /\ "worker" \notin waiting /\ worker.pc # "off" /\ ~ inbox_closed
  BY DEF WorkerStep, WorkerPop, WorkerExit, WorkerDiscard, WorkerCollect, WorkerCheck,
         WorkerAnalyse, WorkerRecheck, WorkerPublish, WorkerStopped, WorkerFrame, runVars,
         controllerVars, CallsInv, CallsMatchThreads, ShutdownInOrder
<1>2. waiting' = waiting \/ waiting' = waiting \union {"worker"}
  BY DEF WorkerStep, WorkerPop, WorkerExit, WorkerDiscard, WorkerCollect, WorkerCheck,
         WorkerAnalyse, WorkerRecheck, WorkerPublish, WorkerStopped, ReportStopped, Post
<1> QED
  BY <1>1, <1>2 DEF CallsInv, ThreadTypes

(* A worker that is done with its job, or has lost it: it is idle, or ends. *)
LEMMA WorkerLetsGo ==
  ASSUME CallsInv, RunInv, WorkerStep, UNCHANGED <<inbox, waiting, jobs, samples, announced>>,
         worker'.pc \in {"idle", "off"}, worker'.lines = <<>>,
         worker.pc \in {"idle", "stopping"} \/ (worker.pc = "collect" /\ samples = <<>>)
  PROVE  RunInv'
<1>0. UNCHANGED runVars /\ "worker" \notin waiting
  BY WorkerLeavesAlone
<1>1. ~ WorkerHasRun' /\ (Resting' <=> Resting)
  BY <1>0 DEF WorkerHasRun, Resting, runVars
<1>2. HistoryTypes' /\ RunNotEnded' /\ AbortIsFinal' /\ AlarmsInTime'
  BY <1>0, <1>1 DEF RunInv, HistoryTypes, RunNotEnded, AbortIsFinal, AlarmsInTime, runVars
<1>3. RunInOnePlace'
  BY <1>0, <1>1 DEF RunInv, RunInOnePlace, runVars
<1>4. StateFollowsRun' /\ StartsBeforeResult' /\ ResultsDeliverable'
  BY <1>0 DEF RunInv, StateFollowsRun, StartsBeforeResult, ResultsDeliverable, runVars
<1>5. BlocksInOrder'
  <2>1. CASE samples = <<>>
    BY <1>0, <1>1, <2>1, RuntimeAssumption DEF RunInv, BlocksInOrder, runVars
  <2>2. CASE worker.pc \in {"idle", "stopping"}
    <3>1. worker.lines = <<>>
      BY <2>2 DEF RunInv, BlocksInOrder
    <3> QED
      BY <1>0, <1>1, <2>2, <3>1 DEF RunInv, BlocksInOrder, runVars
  <2> QED
    BY <2>1, <2>2
<1> QED
  BY <1>2, <1>3, <1>4, <1>5 DEF RunInv

LEMMA WorkerPopKeepsRun ==
  ASSUME CallsInv, QueueTypes, RunInv, WorkerPop
  PROVE  RunInv'
<1>0. /\ WorkerStep /\ worker.pc = "idle" /\ jobs # <<>> /\ jobs' = Tail(jobs)
      /\ UNCHANGED <<inbox, waiting, samples, announced>>
  BY DEF WorkerStep, WorkerPop
<1>1. UNCHANGED runVars /\ "worker" \notin waiting
  BY <1>0, WorkerLeavesAlone
<1>2. /\ scan.pc = "off" /\ Len(jobs) = 1 /\ jobs[1].run = run /\ ~ Resting /\ ctl.pc # "starting"
      /\ worker.lines = <<>>
  BY <1>0 DEF RunInv, RunInOnePlace, BlocksInOrder
<1>3. jobs' = <<>> /\ Head(jobs) = jobs[1]
  BY <1>0, <1>2 DEF QueueTypes
<1>4. /\ worker'.pc = IF jobs[1].kind = "DiscardSamples" THEN "discard" ELSE "collect"
      /\ worker'.run = run /\ worker'.lines = <<>>
  BY <1>2, <1>3 DEF WorkerPop, WorkerIdle
<1>5. jobs[1].kind \in {"DiscardSamples", "ProcessWafer"}
  <2>1. jobs[1] \in Jobs
    BY <1>0, <1>2 DEF QueueTypes
  <2> QED
    BY <2>1 DEF Jobs
<1>6. WorkerHasRun' /\ ~ Resting'
  BY <1>1, <1>2, <1>4 DEF WorkerHasRun, Resting, runVars
<1>7. HistoryTypes' /\ RunNotEnded' /\ AbortIsFinal' /\ AlarmsInTime'
  BY <1>0, <1>1, <1>2, <1>6 DEF RunInv, HistoryTypes, RunNotEnded, AbortIsFinal, AlarmsInTime, runVars
<1>8. RunInOnePlace'
  BY <1>1, <1>2, <1>3, <1>4, <1>6 DEF RunInOnePlace, runVars
<1>9. StateFollowsRun'
  BY <1>0, <1>1, <1>2, <1>3, <1>4, <1>5 DEF RunInv, StateFollowsRun, runVars
<1>10. StartsBeforeResult' /\ ResultsDeliverable'
  BY <1>0, <1>1, <1>4 DEF RunInv, StartsBeforeResult, ResultsDeliverable
<1>11. BlocksInOrder'
  BY <1>0, <1>1, <1>2, <1>4, SMTT(20) DEF RunInv, BlocksInOrder, runVars
<1> QED
  BY <1>7, <1>8, <1>9, <1>10, <1>11 DEF RunInv

(* notify_stage_stopped, from the three places that call it. *)
LEMMA ReportKeepsRun ==
  ASSUME CallsInv, RunInv, WorkerStep, ReportStopped, UNCHANGED <<samples, jobs, announced>>,
         WorkerHasRun, samples = <<>>, state \in {"Scanning", "Stopping"}
  PROVE  RunInv'
<1>0. /\ UNCHANGED runVars /\ "worker" \notin waiting /\ ~ inbox_closed /\ worker \in Workers
      /\ Post("worker", "StageStopped", "StageStopped")
      /\ "scan" \in waiting' <=> "scan" \in waiting
  BY WorkerLeavesAlone DEF ReportStopped
<1>1. worker'.pc = "stopping" /\ worker'.run = worker.run /\ worker'.lines = <<>>
  BY <1>0 DEF ReportStopped, Workers
<1>2. [op |-> "StageStopped", from |-> "worker", arg |-> "StageStopped"] \in Posts /\ "worker" \in Threads
  BY DEF Posts, Threads
<1>3. /\ "worker" \in waiting'
      /\ DOMAIN inbox' = DOMAIN inbox \union {Len(inbox) + 1}
      /\ inbox'[Len(inbox) + 1].op = "StageStopped"
      /\ \A i \in DOMAIN inbox : inbox'[i] = inbox[i] /\ i < Len(inbox) + 1
  BY <1>0, <1>2, PostAppends DEF CallsInv
<1>4. /\ scan.pc = "off" /\ jobs = <<>> /\ worker.run = run /\ ~ Resting /\ ctl.pc # "starting"
  BY DEF RunInv, RunInOnePlace
<1>5. WorkerHasRun' /\ ~ Resting'
  BY <1>0, <1>1, <1>3, <1>4 DEF WorkerHasRun, Resting, runVars
<1>6. HistoryTypes' /\ RunNotEnded' /\ AbortIsFinal' /\ AlarmsInTime'
  BY <1>0, <1>4, <1>5 DEF RunInv, HistoryTypes, RunNotEnded, AbortIsFinal, AlarmsInTime, runVars
<1>7. RunInOnePlace'
  BY <1>0, <1>1, <1>4, <1>5 DEF RunInOnePlace, runVars
<1>8. StateFollowsRun' /\ ResultsDeliverable'
  BY <1>0, <1>1, <1>4 DEF StateFollowsRun, ResultsDeliverable, runVars
<1>9. StartsBeforeResult'
  BY <1>1, <1>3 DEF RunInv, StartsBeforeResult
<1>10. BlocksInOrder'
  BY <1>0, <1>1, <1>4, RuntimeAssumption DEF BlocksInOrder, runVars
<1> QED
  BY <1>6, <1>7, <1>8, <1>9, <1>10 DEF RunInv

LEMMA WorkerDiscardKeepsRun ==
  ASSUME CallsInv, QueueTypes, RunInv, WorkerDiscard
  PROVE  RunInv'
<1>0. /\ WorkerStep /\ worker.pc = "discard" /\ UNCHANGED <<jobs, announced>>
      /\ WorkerHasRun /\ state \in {"Scanning", "Stopping"}
  BY DEF WorkerStep, WorkerDiscard, WorkerHasRun, RunInv, StateFollowsRun
<1>1. CASE samples = <<>>
  <2>1. ReportStopped /\ UNCHANGED samples
    BY <1>1 DEF WorkerDiscard
  <2> QED
    BY <1>0, <1>1, <2>1, ReportKeepsRun
<1>2. CASE samples # <<>>
  <2>1. samples' = Tail(samples) /\ UNCHANGED <<inbox, waiting, worker>>
    BY <1>2 DEF WorkerDiscard
  <2>2. UNCHANGED runVars
    BY <1>0, WorkerLeavesAlone
  <2>3. (WorkerHasRun' <=> WorkerHasRun) /\ (Resting' <=> Resting)
    BY <2>1, <2>2 DEF WorkerHasRun, Resting, runVars
  <2>4. /\ HistoryTypes' /\ StateFollowsRun' /\ StartsBeforeResult' /\ RunNotEnded'
        /\ AbortIsFinal' /\ AlarmsInTime' /\ ResultsDeliverable'
    BY <1>0, <2>1, <2>2, <2>3 DEF RunInv, HistoryTypes, StateFollowsRun, StartsBeforeResult,
         RunNotEnded, AbortIsFinal, AlarmsInTime, ResultsDeliverable, runVars
  <2>5. RunInOnePlace'
    BY <1>0, <2>1, <2>2, <2>3 DEF RunInv, RunInOnePlace, runVars
  <2>6. BlocksInOrder'
    <3>1. /\ Len(samples) \in Nat /\ Len(samples') = Len(samples) - 1
          /\ \A i \in DOMAIN samples' : i + 1 \in DOMAIN samples /\ samples'[i] = samples[i + 1]
      BY <1>2, <2>1 DEF QueueTypes
    <3>2. worker.lines = <<>> /\ Len(worker.lines) = 0
      BY <1>0 DEF RunInv, BlocksInOrder
    <3>3. scan.pc = "off"
      BY <1>0 DEF RunInv, RunInOnePlace
    <3>4. \A i \in DOMAIN samples' : samples'[i].run = run
      BY <3>1 DEF RunInv, BlocksInOrder
    <3>5. Len(worker.lines) + Len(samples') <= Lines
      BY <3>1, <3>2, RuntimeAssumption DEF RunInv, BlocksInOrder
    <3> QED
      BY <1>0, <2>1, <2>2, <3>2, <3>3, <3>4, <3>5 DEF BlocksInOrder, runVars
  <2> QED
    BY <2>4, <2>5, <2>6 DEF RunInv
<1> QED
  BY <1>1, <1>2

LEMMA WorkerCollectKeepsRun ==
  ASSUME CallsInv, QueueTypes, RunInv, WorkerCollect
  PROVE  RunInv'
<1>0. /\ WorkerStep /\ worker.pc = "collect" /\ UNCHANGED <<inbox, waiting, jobs, announced>>
      /\ WorkerHasRun /\ worker \in Workers
  BY DEF WorkerStep, WorkerCollect, WorkerHasRun, CallsInv, ThreadTypes
<1>1. CASE samples = <<>>
  <2>1. worker'.pc = "idle" /\ worker'.lines = <<>> /\ UNCHANGED samples
    BY <1>1 DEF WorkerCollect, WorkerIdle
  <2> QED
    BY <1>0, <1>1, <2>1, WorkerLetsGo
<1>2. CASE samples # <<>>
  <2>1. /\ samples' = Tail(samples) /\ worker'.pc = "collect" /\ worker'.run = worker.run
        /\ worker'.lines = Append(worker.lines, Head(samples))
    BY <1>0, <1>2 DEF WorkerCollect, Workers
  <2>2. UNCHANGED runVars
    BY <1>0, WorkerLeavesAlone
  <2>3. WorkerHasRun' /\ (Resting' <=> Resting)
    BY <2>1, <2>2 DEF WorkerHasRun, Resting, runVars
  <2>4. scan.pc = "off" /\ jobs = <<>> /\ worker.run = run /\ ~ Resting /\ ctl.pc # "starting"
    BY <1>0 DEF RunInv, RunInOnePlace
  <2>5. HistoryTypes' /\ RunNotEnded' /\ AbortIsFinal' /\ AlarmsInTime'
    BY <1>0, <2>2, <2>3 DEF RunInv, HistoryTypes, RunNotEnded, AbortIsFinal, AlarmsInTime, runVars
  <2>6. StateFollowsRun' /\ StartsBeforeResult' /\ ResultsDeliverable'
    BY <1>0, <2>1, <2>2 DEF RunInv, StateFollowsRun, StartsBeforeResult, ResultsDeliverable, runVars
  <2>7. RunInOnePlace'
    BY <1>0, <2>1, <2>2, <2>3, <2>4 DEF RunInOnePlace, runVars
  <2>8. BlocksInOrder'
    <3>0. PICK n \in Nat : n = Len(worker.lines)
      BY <1>0 DEF Workers
    <3>1. /\ Len(samples) \in Nat /\ Len(samples') = Len(samples) - 1 /\ 1 \in DOMAIN samples
          /\ Head(samples) = samples[1] /\ samples[1] \in Blocks
          /\ \A i \in DOMAIN samples' : i + 1 \in DOMAIN samples /\ samples'[i] = samples[i + 1] /\ i \in Nat
      BY <1>2, <2>1 DEF QueueTypes
    <3>2. /\ DOMAIN worker.lines = 1 .. n /\ DOMAIN worker'.lines = 1 .. (n + 1) /\ Len(worker'.lines) = n + 1
          /\ \A i \in 1 .. n : worker'.lines[i] = worker.lines[i]
          /\ worker'.lines[n + 1] = samples[1]
      <4>1. worker.lines \in Seq(Blocks)
        BY <1>0 DEF Workers
      <4> QED
        BY <2>1, <3>0, <3>1, <4>1
    <3>3. samples[1].run = run /\ samples[1].line = n
      BY <1>0, <3>0, <3>1, SMTT(20) DEF RunInv, BlocksInOrder
    <3>4. samples[1] = [run |-> run, line |-> n]
      BY <3>1, <3>3 DEF Blocks
    <3>5. \A i \in DOMAIN worker'.lines : worker'.lines[i] = [run |-> worker'.run, line |-> i - 1]
      <4> SUFFICES ASSUME NEW i \in 1 .. (n + 1)
                   PROVE  worker'.lines[i] = [run |-> worker'.run, line |-> i - 1]
        BY <3>2
      <4>1. CASE i = n + 1
        <5>1. i - 1 = n
          BY <4>1
        <5> QED
          BY <2>1, <2>4, <3>2, <3>4, <4>1, <5>1
      <4>2. CASE i # n + 1
        <5>1. i \in 1 .. n
          BY <4>2
        <5>2. worker.lines[i] = [run |-> worker.run, line |-> i - 1]
          BY <3>2, <5>1 DEF RunInv, BlocksInOrder
        <5> QED
          BY <2>1, <3>2, <5>1, <5>2
      <4> QED
        BY <4>1, <4>2
    <3>6. \A i \in DOMAIN samples' : samples'[i].run = run /\ samples'[i].line = (n + 1) + i - 1
      <4> SUFFICES ASSUME NEW i \in DOMAIN samples'
                   PROVE  samples'[i].run = run /\ samples'[i].line = (n + 1) + i - 1
        OBVIOUS
      <4>1. i + 1 \in DOMAIN samples /\ samples'[i] = samples[i + 1] /\ i \in Nat
        BY <3>1
      <4>2. samples[i + 1].run = run /\ samples[i + 1].line = n + (i + 1) - 1
        BY <1>0, <3>0, <4>1 DEF RunInv, BlocksInOrder
      <4> QED
        BY <4>1, <4>2
    <3>7. (n + 1) + Len(samples') <= Lines
      BY <3>0, <3>1, RuntimeAssumption DEF RunInv, BlocksInOrder
    <3> QED
      BY <2>1, <2>2, <2>3, <2>4, <3>2, <3>5, <3>6, <3>7 DEF BlocksInOrder, runVars
  <2> QED
    BY <2>5, <2>6, <2>7, <2>8 DEF RunInv
<1> QED
  BY <1>1, <1>2

LEMMA WorkerCheckKeepsRun ==
  ASSUME CallsInv, QueueTypes, RunInv, WorkerCheck
  PROVE  RunInv'
<1>0. /\ WorkerStep /\ worker.pc = "collect" /\ Len(worker.lines) = Lines
      /\ UNCHANGED <<samples, jobs, announced>>
      /\ WorkerHasRun /\ worker \in Workers
  BY DEF WorkerStep, WorkerCheck, WorkerHasRun, CallsInv, ThreadTypes
<1>1. samples = <<>>
  BY <1>0, RuntimeAssumption, SMTT(20) DEF RunInv, BlocksInOrder, QueueTypes
<1>2. CASE state = "Stopping"
  <2>1. ReportStopped
    BY <1>2 DEF WorkerCheck
  <2> QED
    BY <1>0, <1>1, <1>2, <2>1, ReportKeepsRun
<1>3. CASE state # "Stopping"
  <2>1. /\ worker'.pc = "analyse" /\ worker'.run = worker.run /\ worker'.lines = worker.lines
        /\ UNCHANGED <<inbox, waiting>>
    BY <1>0, <1>3 DEF WorkerCheck, Workers
  <2>2. UNCHANGED runVars
    BY <1>0, WorkerLeavesAlone
  <2>3. WorkerHasRun' /\ (Resting' <=> Resting)
    BY <2>1, <2>2 DEF WorkerHasRun, Resting, runVars
  <2>4. scan.pc = "off" /\ jobs = <<>> /\ worker.run = run /\ ~ Resting /\ ctl.pc # "starting"
    BY <1>0 DEF RunInv, RunInOnePlace
  <2>5. HistoryTypes' /\ RunNotEnded' /\ AbortIsFinal' /\ AlarmsInTime'
    BY <1>0, <2>2, <2>3 DEF RunInv, HistoryTypes, RunNotEnded, AbortIsFinal, AlarmsInTime, runVars
  <2>6. StateFollowsRun' /\ StartsBeforeResult' /\ ResultsDeliverable'
    BY <1>0, <2>1, <2>2 DEF RunInv, StateFollowsRun, StartsBeforeResult, ResultsDeliverable, runVars
  <2>7. RunInOnePlace'
    BY <1>0, <2>1, <2>2, <2>3, <2>4 DEF RunInOnePlace, runVars
  <2>8. BlocksInOrder'
    BY <1>0, <1>1, <2>1, <2>2, <2>4 DEF RunInv, BlocksInOrder, runVars
  <2> QED
    BY <2>5, <2>6, <2>7, <2>8 DEF RunInv
<1> QED
  BY <1>2, <1>3

LEMMA WorkerAnalyseKeepsRun ==
  ASSUME CallsInv, QueueTypes, RunInv, WorkerAnalyse
  PROVE  RunInv'
<1>0. /\ WorkerStep /\ worker.pc = "analyse" /\ UNCHANGED <<samples, jobs, announced>>
      /\ WorkerHasRun
  BY DEF WorkerStep, WorkerAnalyse, WorkerHasRun
<1>1. /\ UNCHANGED runVars /\ ~ inbox_closed /\ worker \in Workers
      /\ "scan" \in waiting' <=> "scan" \in waiting
  BY <1>0, WorkerLeavesAlone
<1>2. PICK v \in Verdicts : /\ Post("worker", "Result", v)
                            /\ worker' = [worker EXCEPT !.pc = "resulted", !.verdict = v, !.lines = <<>>]
  BY DEF WorkerAnalyse
<1>3. worker'.pc = "resulted" /\ worker'.run = worker.run /\ worker'.lines = <<>>
  BY <1>1, <1>2 DEF Workers
<1>4. [op |-> "Result", from |-> "worker", arg |-> v] \in Posts /\ "worker" \in Threads
  BY DEF Posts, Threads
<1>5. /\ "worker" \in waiting'
      /\ DOMAIN inbox' = DOMAIN inbox \union {Len(inbox) + 1}
      /\ inbox'[Len(inbox) + 1].op = "Result"
      /\ \A i \in DOMAIN inbox : inbox'[i] = inbox[i] /\ i < Len(inbox) + 1
  BY <1>1, <1>2, <1>4, PostAppends DEF CallsInv
<1>6. /\ scan.pc = "off" /\ jobs = <<>> /\ worker.run = run /\ ~ Resting /\ ctl.pc # "starting"
      /\ samples = <<>> /\ state \in {"Processing", "Stopping"}
  BY <1>0 DEF RunInv, RunInOnePlace, BlocksInOrder, StateFollowsRun
<1>7. WorkerHasRun' /\ ~ Resting'
  BY <1>1, <1>3, <1>5, <1>6 DEF WorkerHasRun, Resting, runVars
<1>8. HistoryTypes' /\ RunNotEnded' /\ AbortIsFinal' /\ AlarmsInTime'
  BY <1>0, <1>1, <1>6, <1>7 DEF RunInv, HistoryTypes, RunNotEnded, AbortIsFinal, AlarmsInTime, runVars
<1>9. RunInOnePlace'
  BY <1>0, <1>1, <1>3, <1>6, <1>7 DEF RunInOnePlace, runVars
<1>10. StateFollowsRun' /\ ResultsDeliverable'
  BY <1>0, <1>1, <1>3, <1>5, <1>6 DEF StateFollowsRun, ResultsDeliverable, runVars
<1>11. StartsBeforeResult'
  <2>1. \A i \in DOMAIN inbox' : inbox'[i].op = "Start" => i \in DOMAIN inbox /\ inbox[i].op = "Start"
    BY <1>5
  <2>2. \A i \in DOMAIN inbox : i \in Nat /\ inbox[i].op # "Result"
    BY <1>0, InboxDomain DEF CallsInv, CallsMatchThreads, Threads, Commands, ControlModes
  <2>3. \A i \in DOMAIN inbox' : inbox'[i].op = "Result" => i = Len(inbox) + 1
    BY <1>5, <2>2
  <2> QED
    BY <1>5, <2>1, <2>3 DEF StartsBeforeResult
<1>12. BlocksInOrder'
  BY <1>0, <1>1, <1>3, <1>6, RuntimeAssumption, SMTT(20) DEF BlocksInOrder, runVars
<1> QED
  BY <1>8, <1>9, <1>10, <1>11, <1>12 DEF RunInv

LEMMA WorkerRecheckKeepsRun ==
  ASSUME CallsInv, QueueTypes, RunInv, WorkerRecheck
  PROVE  RunInv'
<1>0. /\ WorkerStep /\ worker.pc = "resulted" /\ "worker" \notin waiting
      /\ UNCHANGED <<samples, jobs, announced>> /\ worker \in Workers
  BY DEF WorkerStep, WorkerRecheck, CallsInv, ThreadTypes
<1>1. CASE state = "Stopping"
  <2>1. ReportStopped /\ WorkerHasRun
    BY <1>0, <1>1 DEF WorkerRecheck, WorkerHasRun
  <2>2. samples = <<>>
    BY <1>0, <2>1 DEF RunInv, BlocksInOrder
  <2> QED
    BY <1>0, <1>1, <2>1, <2>2, ReportKeepsRun
<1>2. CASE state # "Stopping"
  <2>1. /\ worker'.pc = "publish" /\ worker'.run = worker.run /\ worker'.lines = worker.lines
        /\ worker'.verdict = worker.verdict /\ UNCHANGED <<inbox, waiting>>
    BY <1>0, <1>2 DEF WorkerRecheck, Workers
  <2>2. UNCHANGED runVars
    BY <1>0, WorkerLeavesAlone
  <2>3. ~ WorkerHasRun' /\ ~ WorkerHasRun /\ (Resting' <=> Resting)
    BY <1>0, <1>2, <2>1, <2>2 DEF WorkerHasRun, Resting, runVars
  <2>4. HistoryTypes' /\ RunNotEnded' /\ AbortIsFinal' /\ AlarmsInTime'
    BY <1>0, <2>2, <2>3 DEF RunInv, HistoryTypes, RunNotEnded, AbortIsFinal, AlarmsInTime, runVars
  <2>5. StateFollowsRun' /\ StartsBeforeResult'
    BY <1>0, <2>1, <2>2 DEF RunInv, StateFollowsRun, StartsBeforeResult, runVars
  <2>6. RunInOnePlace'
    BY <1>0, <2>1, <2>2, <2>3 DEF RunInv, RunInOnePlace, runVars
  <2>7. BlocksInOrder'
    BY <1>0, <2>1, <2>2, <2>3 DEF RunInv, BlocksInOrder, runVars
  <2>8. ResultsDeliverable'
    <3>1. Deliverable(worker.run)
      BY <1>0, <1>2 DEF RunInv, ResultsDeliverable
    <3>2. Deliverable(worker.run)'
      BY <1>0, <2>1, <2>2, <2>3, <3>1 DEF Deliverable, runVars
    <3> QED
      BY <3>2 DEF ResultsDeliverable
  <2> QED
    BY <2>4, <2>5, <2>6, <2>7, <2>8 DEF RunInv
<1> QED
  BY <1>1, <1>2

LEMMA PublishEffect ==
  ASSUME QueueTypes, RunInv, WorkerPublish
  PROVE  /\ worker.run \in (1 .. run) \ aborts /\ (worker.run = run => Resting)
         /\ announced' \in Seq([Announcements -> Nat]) /\ Len(announced') = run
         /\ \A q \in 1 .. run : \A g \in Announcements :
              announced'[q][g] =
                IF q = worker.run /\ g = "WaferResultReady"
                THEN announced[q][g] + (IF worker.verdict \in QualityAlarms THEN 0 ELSE 1)
                ELSE IF q = worker.run /\ g = "WaferOutputsWritten" THEN announced[q][g] + 1
                ELSE announced[q][g]
<1>1. worker.run \in (1 .. run) \ aborts /\ (worker.run = run => Resting)
  BY DEF WorkerPublish, RunInv, ResultsDeliverable, Deliverable
<1>2. PICK a \in Nat : a = IF worker.verdict \in QualityAlarms THEN 0 ELSE 1
  OBVIOUS
<1>3. AnnounceBoth(worker.run, "WaferResultReady", a, "WaferOutputsWritten", 1)
  BY <1>2 DEF WorkerPublish, AnnounceBoth
<1>4. /\ "WaferResultReady" \in Announcements /\ "WaferOutputsWritten" \in Announcements
      /\ "WaferResultReady" # "WaferOutputsWritten" /\ 1 \in Nat
  BY DEF Announcements
<1>5. /\ announced' \in Seq([Announcements -> Nat]) /\ Len(announced') = run
      /\ \A q \in 1 .. run : \A g \in Announcements :
           announced'[q][g] = IF q = worker.run /\ g = "WaferResultReady" THEN announced[q][g] + a
                              ELSE IF q = worker.run /\ g = "WaferOutputsWritten" THEN announced[q][g] + 1
                              ELSE announced[q][g]
  BY <1>1, <1>3, <1>4, AnnounceTwo DEF RunInv, QueueTypes, AddedBoth
<1> QED
  BY <1>1, <1>2, <1>5

LEMMA WorkerPublishKeepsRun ==
  ASSUME CallsInv, QueueTypes, RunInv, WorkerPublish
  PROVE  RunInv'
<1>0. /\ WorkerStep /\ worker.pc = "publish" /\ UNCHANGED <<inbox, waiting, samples, jobs>>
      /\ worker'.pc = "idle" /\ worker'.lines = <<>>
  BY DEF WorkerStep, WorkerPublish, WorkerIdle
<1>1. UNCHANGED runVars /\ "worker" \notin waiting
  BY <1>0, WorkerLeavesAlone
<1>2. /\ worker.run \in (1 .. run) \ aborts /\ (worker.run = run => Resting)
      /\ announced' \in Seq([Announcements -> Nat]) /\ Len(announced') = run
      /\ \A q \in 1 .. run : q # worker.run =>
           \A g \in Announcements : announced'[q][g] = announced[q][g]
  BY PublishEffect
<1>3. ~ WorkerHasRun' /\ ~ WorkerHasRun /\ (Resting' <=> Resting) /\ worker.lines = <<>>
  BY <1>0, <1>1 DEF WorkerHasRun, Resting, runVars, RunInv, BlocksInOrder
<1>4. HistoryTypes'
  BY <1>1, <1>2 DEF RunInv, HistoryTypes, runVars
<1>5. RunInOnePlace'
  BY <1>0, <1>1, <1>3 DEF RunInv, RunInOnePlace, runVars
<1>6. StateFollowsRun' /\ StartsBeforeResult' /\ ResultsDeliverable' /\ AlarmsInTime'
  <2>1. StateFollowsRun' /\ AlarmsInTime'
    BY <1>0, <1>1 DEF RunInv, StateFollowsRun, AlarmsInTime, runVars
  <2>2. StartsBeforeResult' /\ ResultsDeliverable'
    BY <1>0, <1>1 DEF RunInv, StartsBeforeResult, ResultsDeliverable, runVars
  <2> QED
    BY <2>1, <2>2
<1>7. BlocksInOrder'
  BY <1>0, <1>1, <1>3, SMTT(20) DEF RunInv, BlocksInOrder, runVars
<1>8. \A e \in EndEvents : e \in Announcements
  BY DEF EndEvents, Announcements
<1>9. RunNotEnded'
  <2>1. ASSUME state \in {"Scanning", "Processing"}
        PROVE  run \notin aborts /\ \A e \in EndEvents : announced'[run][e] = 0
    <3>1. run # worker.run /\ run \in 1 .. run
      BY <1>2, <2>1, RunHasNumber DEF Resting
    <3> QED
      BY <1>2, <1>8, <2>1, <3>1 DEF RunInv, RunNotEnded
  <2> QED
    BY <1>1, <1>3, <2>1 DEF RunInv, RunNotEnded, runVars
<1>10. AbortIsFinal'
  <2> SUFFICES ASSUME NEW r \in aborts, NEW e \in EndEvents PROVE announced'[r][e] = 0
    BY <1>1 DEF AbortIsFinal, EndEvents, runVars
  <2>1. r \in 1 .. run /\ r # worker.run /\ announced[r][e] = 0
    BY <1>2 DEF RunInv, HistoryTypes, AbortIsFinal, EndEvents
  <2> QED
    BY <1>2, <1>8, <2>1
<1> QED
  BY <1>4, <1>5, <1>6, <1>7, <1>9, <1>10 DEF RunInv

LEMMA WorkerKeepsRun ==
  ASSUME CallsInv, QueueTypes, RunInv, WorkerStep
  PROVE  RunInv'
<1>1. CASE WorkerExit \/ WorkerStopped
  BY <1>1, WorkerLetsGo DEF WorkerExit, WorkerStopped, WorkerIdle
<1> QED
  BY <1>1, WorkerPopKeepsRun, WorkerDiscardKeepsRun, WorkerCollectKeepsRun, WorkerCheckKeepsRun,
     WorkerAnalyseKeepsRun, WorkerRecheckKeepsRun, WorkerPublishKeepsRun DEF WorkerStep

MachineInv == CallsInv /\ QueueTypes /\ RunInv

LEMMA MachineInit == Init => MachineInv
<1> SUFFICES ASSUME Init PROVE MachineInv
  OBVIOUS
<1>1. CallsInv /\ QueueTypes
  BY CallsInit
<1>2. /\ state = "Idle" /\ run = 0 /\ aborts = {} /\ announced = <<>> /\ active_alarms = {}
      /\ inbox = <<>> /\ waiting = {} /\ samples = <<>> /\ jobs = <<>>
      /\ scan.pc = "off" /\ worker.pc = "idle" /\ worker.lines = <<>> /\ ctl.pc = "idle"
  BY DEF Init, ControllerInit, ScanOff, WorkerIdle, ControllerIdle
<1>3. ~ WorkerHasRun /\ Resting
  BY <1>2 DEF WorkerHasRun, Resting
<1>4. HistoryTypes
  BY <1>2 DEF HistoryTypes, ProcessStates
<1>5. RunInOnePlace /\ StateFollowsRun /\ StartsBeforeResult
  BY <1>2, <1>3 DEF RunInOnePlace, StateFollowsRun, StartsBeforeResult
<1>6. BlocksInOrder
  BY <1>2, <1>3, RuntimeAssumption DEF BlocksInOrder
<1>7. RunNotEnded /\ AbortIsFinal /\ ResultsDeliverable /\ AlarmsInTime
  BY <1>2, <1>3 DEF RunNotEnded, AbortIsFinal, ResultsDeliverable, AlarmsInTime
<1> QED
  BY <1>1, <1>4, <1>5, <1>6, <1>7 DEF MachineInv, RunInv

LEMMA OwnerKeepsRun ==
  ASSUME CallsInv, RunInv, BeginShutdown \/ ShutdownCall
  PROVE  RunInv'
<1>0. /\ UNCHANGED <<state, run, aborts, announced, scan, jobs, samples, worker, active_alarms,
                     waiting, inbox, ctl>>
      /\ samples_closed => samples_closed'
  <2>1. UNCHANGED <<state, run, aborts, announced, scan, jobs, samples, worker, active_alarms,
                    waiting, inbox, ctl>>
    BY DEF BeginShutdown, ShutdownCall, OwnerFrame, controllerVars, historyVars
  <2>2. samples_closed => samples_closed'
    BY DEF BeginShutdown, ShutdownCall
  <2> QED
    BY <2>1, <2>2
<1>1. (WorkerHasRun' <=> WorkerHasRun) /\ (Resting' <=> Resting)
  BY <1>0 DEF WorkerHasRun, Resting
<1>2. /\ HistoryTypes' /\ StartsBeforeResult' /\ RunNotEnded' /\ AbortIsFinal' /\ StateFollowsRun'
  BY <1>0, <1>1 DEF RunInv, HistoryTypes, StartsBeforeResult, RunNotEnded, AbortIsFinal, StateFollowsRun
<1>3. RunInOnePlace'
  BY <1>0, <1>1 DEF RunInv, RunInOnePlace
<1>4. BlocksInOrder' /\ AlarmsInTime'
  BY <1>0, <1>1 DEF RunInv, BlocksInOrder, AlarmsInTime
<1>5. ResultsDeliverable'
  BY <1>0, <1>1 DEF RunInv, ResultsDeliverable, Deliverable
<1> QED
  BY <1>2, <1>3, <1>4, <1>5 DEF RunInv

LEMMA MachineStep == ~ Pipelined /\ MachineInv /\ [Next]_vars => MachineInv'
<1> SUFFICES ASSUME ~ Pipelined, MachineInv, [Next]_vars PROVE MachineInv'
  OBVIOUS
<1>0. CallsInv /\ QueueTypes /\ RunInv /\ CallsInv' /\ QueueTypes'
  BY CallsStep DEF MachineInv
<1>1. CASE UNCHANGED vars
  <2>1. UNCHANGED <<state, run, aborts, announced, scan, jobs, samples, samples_closed, worker,
                    active_alarms, waiting, inbox, ctl>>
    BY <1>1 DEF vars, controllerVars, queueVars, historyVars
  <2>2. StartsBeforeResult'
    BY <1>0, <2>1 DEF RunInv, StartsBeforeResult
  <2> QED
    BY <1>0, <2>1, <2>2, RunUnchanged DEF MachineInv
<1>2. CASE \E c \in Callers, command \in Repertoire : Submit(c, command)
  BY <1>0, <1>2, SubmitKeepsRun DEF MachineInv
<1>3. CASE ControllerStep \/ ScanStep \/ WorkerStep \/ BeginShutdown \/ ShutdownCall
  BY <1>0, <1>3, ControllerKeepsRun, ScanKeepsRun, WorkerKeepsRun, OwnerKeepsRun DEF MachineInv
<1> QED
  BY <1>1, <1>2, <1>3 DEF Next, Terminated

LEMMA MachineAlways == ASSUME ~ Pipelined PROVE Spec => []MachineInv
<1>1. MachineInv /\ [Next]_vars => MachineInv'
  BY MachineStep
<1> QED
  BY <1>1, MachineInit, PTL DEF Spec

(* For every number of lines, points, threads and runs and every capacity: when
   the controller is Idle or in Alarm the scan thread of the last run has
   ended and both queues are empty, so RestartableScanDriver::start finds
   nothing of an earlier run.  The threads that submit commands must not send
   a Start between a wafer's result and the worker's second look (~ Pipelined);
   the run JoinNotShort shows what happens when they do. *)
THEOREM AlwaysQuietBetweenRuns == ASSUME ~ Pipelined PROVE Spec => []QuietBetweenRuns
<1>1. MachineInv => QuietBetweenRuns
  BY DEF MachineInv, RunInv, RunInOnePlace, Resting, QuietBetweenRuns
<1> QED
  BY <1>1, MachineAlways, PTL

(* As long as nobody pipelines a Start, process_wafer collects the lines of its
   own wafer, all of them in order, and discard_queued_samples finds only blocks
   of the aborted run. *)
THEOREM WaferAlwaysGetsItsOwnLines == ASSUME ~ Pipelined PROVE Spec => []WaferGetsItsOwnLines
<1>1. MachineInv => WaferGetsItsOwnLines
  BY DEF MachineInv, RunInv, RunInOnePlace, BlocksInOrder, WorkerHasRun, WaferGetsItsOwnLines
<1> QED
  BY <1>1, MachineAlways, PTL

(* As long as nobody pipelines a Start, a run whose Abort was accepted never
   announces an end, a result or outputs: the worker's two looks at the state and
   the controller's refusal of a late result suffice, wherever the Abort falls. *)
THEOREM AbortIsAlwaysFinal == ASSUME ~ Pipelined PROVE Spec => []AbortIsFinal
<1>1. MachineInv => AbortIsFinal
  BY DEF MachineInv, RunInv
<1> QED
  BY <1>1, MachineAlways, PTL

(* "so this join is short": as long as nobody pipelines a Start, the driver's
   join in front of a new scan finds the old thread gone. *)
THEOREM JoinIsShortUnlessPipelined == ASSUME ~ Pipelined PROVE Spec => []JoinIsShort
<1>1. MachineInv => JoinIsShort
  BY DEF MachineInv, RunInv, RunInOnePlace, JoinIsShort
<1> QED
  BY <1>1, MachineAlways, PTL

(* The Start handler only looks at has_active_alarm_, which the scan thread's
   own alarms never set; the table is empty all the same. *)
LEMMA StartNeedsQuietAlarms ==
  ASSUME MachineInv, Next, run' # run
  PROVE  active_alarms = {}
<1>1. ControllerStart /\ Takes("Start", StartGuards(SourceOf(Caller), run + 1))
  BY DEF Next, Submit, ControllerStep, ControllerStart, ControllerStartScan, ControllerStop,
         ControllerAbort, ControllerRequestAbort, ControllerClearAlarm, ControllerSetMode,
         ControllerScanComplete, ControllerProcessingAlarm, ControllerProcessingResult,
         ControllerStageStopped, ControllerExit, ScanStep, ScanCheck, ScanPoint, ScanStall,
         ScanStallEnd, ScanPush, ScanStopped, ScanReport, ScanQueueJob, ScanFrame, WorkerStep,
         WorkerPop, WorkerExit, WorkerDiscard, WorkerCollect, WorkerCheck, WorkerAnalyse,
         WorkerRecheck, WorkerPublish, WorkerStopped, WorkerFrame, BeginShutdown, ShutdownCall,
         OwnerFrame, Terminated, vars, historyVars
<1>2. state = "Idle" /\ Take("Start")
  BY <1>1, StartEffect DEF ControllerStart, MachineInv, RunInv, HistoryTypes
<1>3. scan.pc = "off"
  BY <1>2 DEF MachineInv, RunInv, RunInOnePlace, Resting
<1>4. ~ samples_closed
  <2>1. 1 \in DOMAIN inbox /\ inbox[1].op = "Start" /\ inbox[1].from \in Threads
    BY <1>2, TakeMovesUp DEF MachineInv, CallsInv
  <2>2. inbox[1].from \in Callers /\ inbox[1].from \in waiting
    BY <2>1 DEF MachineInv, CallsInv, CallsMatchThreads, OneCallEach, Threads
  <2>3. owner \in {"running", "stopServer"}
    BY <2>2 DEF MachineInv, CallsInv, ShutdownInOrder, Callers
  <2> QED
    BY <2>3 DEF MachineInv, CallsInv, ShutdownInOrder
<1> QED
  BY <1>2, <1>3, <1>4 DEF MachineInv, RunInv, AlarmsInTime

(* FR-ALM-1 for the alarms of every thread: as long as nobody pipelines a Start,
   one is accepted only when the AlarmManager's table is empty. *)
THEOREM StartNeverOverlooksAlarm == ASSUME ~ Pipelined PROVE Spec => StartSeesNoAlarm
<1>1. MachineInv /\ [Next]_vars => [run' # run => active_alarms = {}]_vars
  BY StartNeedsQuietAlarms DEF vars
<1>2. Spec => []MachineInv
  BY MachineAlways
<1>3. Spec => [][Next]_vars
  BY PTL DEF Spec
<1> QED
  BY <1>1, <1>2, <1>3, PTL DEF StartSeesNoAlarm

-----------------------------------------------------------------------------
(* The refinement of MachineLifecycle. *)

lifeVars == <<state, run, aborts, announced>>

(* An announcement that adds nothing to one of its two counters. *)
LEMMA AnnounceNothing ==
  ASSUME HistoryTypes, run \in Nat, NEW r \in 1 .. run,
         NEW e \in Announcements, NEW f \in Announcements, e # f, NEW a \in Nat,
         AnnounceBoth(r, e, a, f, 0)
  PROVE  /\ announced' = [announced EXCEPT ![r][e] = @ + a]
         /\ a = 0 => announced' = announced
<1>1. /\ announced \in Seq([Announcements -> Nat]) /\ Len(announced) = run
      /\ announced[r] \in [Announcements -> Nat] /\ r \in DOMAIN announced
  BY DEF HistoryTypes
<1>2. announced[r][e] \in Nat /\ announced[r][f] \in Nat /\ announced[r][f] + 0 = announced[r][f]
  BY <1>1
<1>3. PICK c : c = [announced[r] EXCEPT ![e] = announced[r][e] + a]
  OBVIOUS
<1>4. [announced[r] EXCEPT ![e] = announced[r][e] + a, ![f] = announced[r][f] + 0] = c
  BY <1>1, <1>2, <1>3
<1>5. announced' = [announced EXCEPT ![r] = [announced[r] EXCEPT ![e] = announced[r][e] + a,
                                                              ![f] = announced[r][f] + 0]]
  BY <1>1 DEF AnnounceBoth
<1>6. announced' = [announced EXCEPT ![r][e] = @ + a]
  BY <1>3, <1>4, <1>5
<1>7. ASSUME a = 0 PROVE announced' = announced
  <2>1. c = announced[r]
    BY <1>1, <1>2, <1>3, <1>7
  <2> QED
    BY <1>1, <1>4, <1>5, <2>1
<1> QED
  BY <1>6, <1>7

LEMMA ResultRefines ==
  ASSUME MachineInv, ControllerProcessingAlarm \/ ControllerProcessingResult
  PROVE  Lifecycle!Fail \/ Lifecycle!Complete \/ Lifecycle!LateResult \/ UNCHANGED lifeVars
<1>0. /\ Take("Result") /\ Reply /\ UNCHANGED <<run, aborts>> /\ run \in Nat
      /\ HistoryTypes /\ state \in ProcessStates
  BY DEF ControllerProcessingAlarm, ControllerProcessingResult, MachineInv, QueueTypes, RunInv,
         HistoryTypes
<1>1. state \in {"Processing", "Stopping"} /\ run \in 1 .. run
  <2>1. worker.pc = "resulted" /\ "worker" \in waiting
    BY <1>0, HandlerFrame DEF MachineInv, RunInv
  <2>2. state \in {"Processing", "Stopping"}
    BY <2>1 DEF MachineInv, RunInv, StateFollowsRun
  <2> QED
    BY <2>2, RunHasNumber DEF MachineInv, Resting
<1>2. CASE ControllerProcessingAlarm
  <2>1. PICK id \in QualityAlarms : ProcessingAlarm(id)
    BY <1>2 DEF ControllerProcessingAlarm
  <2>2. Takes("Fault", DefaultGuards) <=> state = "Processing"
    BY <1>0, <1>1, TriggerEffects
  <2>3. CASE state = "Processing"
    <3>1. state' = "Alarm"
      BY <1>0, <2>1, <2>2, <2>3, TriggerEffects DEF ProcessingAlarm, RaiseAlarm
    <3> QED
      BY <1>0, <1>2, <2>2, <2>3, <3>1 DEF ControllerProcessingAlarm, Announce, Lifecycle!Fail
  <2>4. CASE state = "Stopping"
    BY <1>0, <1>2, <2>1, <2>2, <2>4 DEF ControllerProcessingAlarm, ProcessingAlarm, RaiseAlarm, lifeVars
  <2> QED
    BY <1>1, <2>3, <2>4
<1>3. CASE ControllerProcessingResult
  <2>1. Transition("ResultReady", ResultGuards(FALSE))
    BY <1>3 DEF ControllerProcessingResult, ProcessingResult
  <2>2. /\ Takes("ResultReady", ResultGuards(FALSE)) <=> state = "Processing"
        /\ state' = IF state = "Processing" THEN "Idle" ELSE state
    BY <1>0, <2>1, ResultEffect
  <2>3. PICK a \in 0 .. 1 : a = IF Head(inbox).arg = "OutOfSpec" THEN 1 ELSE 0
    OBVIOUS
  <2>4. PICK b \in 0 .. 1 : b = IF state = "Processing" THEN 1 ELSE 0
    OBVIOUS
  <2>5. announced' = [announced EXCEPT ![run]["WaferOutOfSpec"] = @ + a,
                                       ![run]["ScanComplete"] = @ + b]
    BY <1>3, <2>2, <2>3, <2>4 DEF ControllerProcessingResult
  <2>6. CASE state = "Processing"
    BY <1>0, <2>2, <2>4, <2>5, <2>6 DEF Lifecycle!Complete
  <2>7. CASE state = "Stopping"
    <3>1. AnnounceBoth(run, "WaferOutOfSpec", a, "ScanComplete", 0)
      BY <2>4, <2>5, <2>7 DEF AnnounceBoth
    <3>2. /\ "WaferOutOfSpec" \in Announcements /\ "ScanComplete" \in Announcements
          /\ "WaferOutOfSpec" # "ScanComplete" /\ a \in Nat
      BY DEF Announcements
    <3>3. /\ announced' = [announced EXCEPT ![run]["WaferOutOfSpec"] = @ + a]
          /\ a = 0 => announced' = announced
      BY <1>0, <1>1, <3>1, <3>2, AnnounceNothing
    <3>4. CASE a = 0
      BY <1>0, <2>2, <2>7, <3>3, <3>4 DEF lifeVars
    <3>5. CASE a = 1
      BY <1>0, <2>2, <2>7, <3>3, <3>5 DEF Lifecycle!LateResult
    <3> QED
      BY <3>4, <3>5
  <2> QED
    BY <1>1, <2>6, <2>7
<1> QED
  BY <1>2, <1>3

LEMMA ControllerRefines ==
  ASSUME MachineInv, ControllerStep
  PROVE  Lifecycle!Next \/ UNCHANGED lifeVars
<1>0. state \in ProcessStates
  BY DEF MachineInv, RunInv, HistoryTypes
<1>1. CASE ControllerStart
  <2>1. HandleStart(SourceOf(Caller), run + 1)
    BY <1>1 DEF ControllerStart
  <2>2. IF Takes("Start", StartGuards(SourceOf(Caller), run + 1))
        THEN state = "Idle" /\ state' = "Scanning" ELSE state' = state
    BY <1>0, <2>1, StartEffect
  <2>3. CASE Takes("Start", StartGuards(SourceOf(Caller), run + 1))
    <3>1. Lifecycle!Start
      BY <1>1, <2>2, <2>3 DEF ControllerStart, Lifecycle!Start, NoAnnouncements, Announcements,
                              Lifecycle!Announcements
    <3> QED
      BY <3>1 DEF Lifecycle!Next
  <2>4. CASE ~ Takes("Start", StartGuards(SourceOf(Caller), run + 1))
    BY <1>1, <2>2, <2>4 DEF ControllerStart, lifeVars
  <2> QED
    BY <2>3, <2>4
<1>2. CASE ControllerStartScan \/ ControllerRequestAbort \/ ControllerExit \/ ControllerSetMode
  BY <1>2 DEF ControllerStartScan, ControllerRequestAbort, ControllerExit, ControllerSetMode,
              HandleSetControlMode, controllerVars, historyVars, lifeVars
<1>3. CASE ControllerStop
  BY <1>0, <1>3, TriggerEffects DEF ControllerStop, HandleStop, historyVars, lifeVars
<1>4. CASE ControllerAbort
  <2>1. CASE AbortTaken(SourceOf(Caller))
    <3>1. Lifecycle!Abort
      BY <1>0, <1>4, <2>1, TriggerEffects DEF ControllerAbort, HandleAbort, AbortTaken, Lifecycle!Abort
    <3> QED
      BY <3>1 DEF Lifecycle!Next
  <2>2. CASE ~ AbortTaken(SourceOf(Caller))
    BY <1>0, <1>4, <2>2, TriggerEffects DEF ControllerAbort, HandleAbort, AbortTaken, lifeVars
  <2> QED
    BY <2>1, <2>2
<1>5. CASE ControllerClearAlarm
  <2>1. UNCHANGED state \/ (state = "Alarm" /\ state' = "Idle")
    BY <1>0, <1>5, TriggerEffects DEF ControllerClearAlarm, HandleClearAlarm
  <2>2. CASE state = "Alarm" /\ state' = "Idle"
    <3>1. Lifecycle!ClearAlarm
      BY <1>5, <2>2 DEF ControllerClearAlarm, historyVars, Lifecycle!ClearAlarm
    <3> QED
      BY <3>1 DEF Lifecycle!Next
  <2> QED
    BY <1>5, <2>1, <2>2 DEF ControllerClearAlarm, historyVars, lifeVars
<1>6. CASE ControllerScanComplete
  <2>1. state' = IF state = "Scanning" THEN "Processing" ELSE state
    BY <1>0, <1>6, TriggerEffects DEF ControllerScanComplete, ScanComplete
  <2>2. CASE state = "Scanning"
    <3>1. Lifecycle!LinesComplete
      BY <1>6, <2>1, <2>2 DEF ControllerScanComplete, historyVars, Lifecycle!LinesComplete
    <3> QED
      BY <3>1 DEF Lifecycle!Next
  <2> QED
    BY <1>6, <2>1, <2>2 DEF ControllerScanComplete, historyVars, lifeVars
<1>7. CASE ControllerProcessingAlarm \/ ControllerProcessingResult
  BY <1>7, ResultRefines DEF Lifecycle!Next
<1>8. CASE ControllerStageStopped
  <2>1. /\ state' = IF state = "Stopping" THEN "Idle" ELSE state
        /\ Takes("StageStopped", DefaultGuards) <=> state = "Stopping"
    BY <1>0, <1>8, TriggerEffects DEF ControllerStageStopped, StageStopped
  <2>2. CASE state = "Stopping"
    <3>1. Lifecycle!Stopped
      BY <1>8, <2>1, <2>2 DEF ControllerStageStopped, Announce, Lifecycle!Stopped
    <3> QED
      BY <3>1 DEF Lifecycle!Next
  <2> QED
    BY <1>8, <2>1, <2>2 DEF ControllerStageStopped, lifeVars
<1> QED
  BY <1>1, <1>2, <1>3, <1>4, <1>5, <1>6, <1>7, <1>8 DEF ControllerStep

LEMMA WorkerRefines ==
  ASSUME MachineInv, WorkerStep
  PROVE  Lifecycle!Next \/ UNCHANGED lifeVars
<1>0. UNCHANGED <<state, run, aborts>>
  BY WorkerLeavesAlone DEF MachineInv, runVars
<1>1. CASE WorkerPublish
  <2>1. Deliverable(worker.run)
    BY <1>1 DEF WorkerPublish, MachineInv, RunInv, ResultsDeliverable
  <2>2. PICK r \in 1 .. run : r = worker.run
    BY <2>1 DEF Deliverable
  <2>3. PICK u \in 0 .. 1 : u = IF worker.verdict \in QualityAlarms THEN 0 ELSE 1
    OBVIOUS
  <2>4. announced' = [announced EXCEPT ![r]["WaferResultReady"] = @ + u,
                                       ![r]["WaferOutputsWritten"] = @ + 1]
    BY <1>1, <2>2, <2>3 DEF WorkerPublish
  <2>5. /\ announced[r]["WaferOutputsWritten"] = 0 /\ announced[r]["ScanComplete"] = u
        /\ announced[r]["ScanComplete"] + announced[r]["QualityAlarm"] = 1
    BY <2>1, <2>2, <2>3 DEF Deliverable
  <2>6. Lifecycle!Deliver(r)
    BY <1>0, <2>4, <2>5 DEF Lifecycle!Deliver
  <2> QED
    BY <2>6 DEF Lifecycle!Next
<1>2. CASE ~ WorkerPublish
  BY <1>0, <1>2 DEF WorkerStep, WorkerPop, WorkerExit, WorkerDiscard, WorkerCollect, WorkerCheck,
                    WorkerAnalyse, WorkerRecheck, WorkerStopped, lifeVars
<1> QED
  BY <1>1, <1>2

(* As long as nobody pipelines a Start, the state the controller publishes and the
   events on the bus are those of the sequential machine of MachineLifecycle, in
   every interleaving of the threads: one wafer after the other, one end for each,
   outputs once and after that end. *)
THEOREM RuntimeImplementsLifecycle == ASSUME ~ Pipelined PROVE Spec => ImplementsLifecycle
<1>1. Init => Lifecycle!Init
  BY DEF Init, ControllerInit, Lifecycle!Init
<1>2. MachineInv /\ [Next]_vars => [Lifecycle!Next]_(Lifecycle!lifecycleVars)
  <2> SUFFICES ASSUME MachineInv, [Next]_vars PROVE Lifecycle!Next \/ UNCHANGED lifeVars
    BY DEF lifeVars, Lifecycle!lifecycleVars
  <2>1. CASE UNCHANGED vars
    BY <2>1 DEF vars, controllerVars, historyVars, lifeVars
  <2>2. CASE (\E c \in Callers, command \in Repertoire : Submit(c, command)) \/ BeginShutdown \/ ShutdownCall
    BY <2>2 DEF Submit, BeginShutdown, ShutdownCall, OwnerFrame, controllerVars, historyVars, lifeVars
  <2>3. CASE ScanStep
    BY <2>3, ScanHasRun DEF MachineInv, lifeVars
  <2> QED
    BY <2>1, <2>2, <2>3, ControllerRefines, WorkerRefines DEF Next, Terminated
<1>3. Spec => []MachineInv
  BY MachineAlways
<1> QED
  BY <1>1, <1>2, <1>3, PTL DEF Spec, ImplementsLifecycle, Lifecycle!Spec
=============================================================================
