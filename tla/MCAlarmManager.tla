--------------------------- MODULE MCAlarmManager ---------------------------
(* Two threads raise and clear alarms, as the controller and the scan thread
   do, while the owner ends the subscription of the host link and makes that
   of the panel. *)
EXTENDS AlarmManager

MCTypes == {"AlarmSet", "AlarmCleared"}
MCThreads == {"controller", "scan", "owner"}
MCUsers == {"controller", "scan"}
MCIds == {"hostCleared", "panelSet"}
MCTypeOf == [d \in MCIds |-> IF d = "hostCleared" THEN "AlarmCleared" ELSE "AlarmSet"]
MCSubscribed == [y \in MCTypes |-> IF y = "AlarmSet" THEN <<>> ELSE <<"hostCleared">>]
=============================================================================
