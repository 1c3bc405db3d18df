-------------------------- MODULE MachineLifecycle --------------------------
(***************************************************************************)
(* What the machine promises to whoever watches its state and its events,  *)
(* with no threads and no queues: wafers are measured one after the other, *)
(* each run ends in one way, and its outputs follow its end.  This is the  *)
(* specification MachineRuntime is shown to implement.                     *)
(***************************************************************************)
EXTENDS Naturals, Sequences

VARIABLES phase,     \* the process state
          run,       \* wafers started
          aborts,    \* runs whose Abort was accepted
          announced  \* for each run, how often each event was published

lifecycleVars == <<phase, run, aborts, announced>>

Announcements == {"ScanComplete", "WaferOutOfSpec", "RunAborted", "QualityAlarm",
                  "WaferResultReady", "WaferOutputsWritten"}

Init ==
  /\ phase = "Idle"
  /\ run = 0
  /\ aborts = {}
  /\ announced = <<>>

Start ==
  /\ phase = "Idle" /\ phase' = "Scanning"
  /\ run' = run + 1
  /\ announced' = Append(announced, [e \in Announcements |-> 0])
  /\ UNCHANGED aborts

LinesComplete ==
  /\ phase = "Scanning" /\ phase' = "Processing"
  /\ UNCHANGED <<run, aborts, announced>>

Abort ==
  /\ phase \in {"Scanning", "Processing"} /\ phase' = "Stopping"
  /\ aborts' = aborts \union {run}
  /\ UNCHANGED <<run, announced>>

Stopped ==
  /\ phase = "Stopping" /\ phase' = "Idle"
  /\ announced' = [announced EXCEPT ![run]["RunAborted"] = @ + 1]
  /\ UNCHANGED <<run, aborts>>

(* The result of the wafer just processed, in or out of specification. *)
Complete ==
  /\ phase = "Processing" /\ phase' = "Idle"
  /\ \E flag \in 0 .. 1 :
       announced' = [announced EXCEPT ![run]["WaferOutOfSpec"] = @ + flag,
                                      ![run]["ScanComplete"] = @ + 1]
  /\ UNCHANGED <<run, aborts>>

(* A flagged result that comes too late, after an Abort: WaferOutOfSpec goes
   out, nothing else happens. *)
LateResult ==
  /\ phase = "Stopping"
  /\ announced' = [announced EXCEPT ![run]["WaferOutOfSpec"] = @ + 1]
  /\ UNCHANGED <<phase, run, aborts>>

Fail ==
  /\ phase = "Processing" /\ phase' = "Alarm"
  /\ announced' = [announced EXCEPT ![run]["QualityAlarm"] = @ + 1]
  /\ UNCHANGED <<run, aborts>>

ClearAlarm ==
  /\ phase = "Alarm" /\ phase' = "Idle"
  /\ UNCHANGED <<run, aborts, announced>>

(* The outputs of a run that ended with a result or an alarm: once, and with
   WaferResultReady only if there is a result. *)
Deliver(r) ==
  /\ announced[r]["WaferOutputsWritten"] = 0
  /\ announced[r]["ScanComplete"] + announced[r]["QualityAlarm"] = 1
  /\ announced' = [announced EXCEPT ![r]["WaferResultReady"] = @ + announced[r]["ScanComplete"],
                                    ![r]["WaferOutputsWritten"] = @ + 1]
  /\ UNCHANGED <<phase, run, aborts>>

Next ==
  \/ Start \/ LinesComplete \/ Abort \/ Stopped \/ Complete \/ LateResult
  \/ Fail \/ ClearAlarm
  \/ \E r \in 1 .. run : Deliver(r)

Spec == Init /\ [][Next]_lifecycleVars
=============================================================================
