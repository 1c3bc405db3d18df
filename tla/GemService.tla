----------------------------- MODULE GemService -----------------------------
(***************************************************************************)
(* The GEM service (secsgem/gem/gem_service) on the I/O thread: whether    *)
(* the host is communicating, the requests it has not answered, and the    *)
(* mode S1F17 goes back to.  The service sends nothing itself: it posts    *)
(* work to the I/O thread's first-in first-out queue, ready.               *)
(*                                                                         *)
(* Messages are told apart by what the service does with them.  Status     *)
(* queries and remote commands change nothing here and are answered        *)
(* ("query").  Report contents are left out.                               *)
(***************************************************************************)
EXTENDS Integers, Sequences

CONSTANTS
    AllowHostOnline     \* comm.allow_host_online

VARIABLES
    ready,              \* asio::io_context: the handlers that can run, in order
    comm_,
    open_requests_,
    preferred_online_mode_,
    control_mode,       \* of the controller
    operator_mode       \* history: the online mode the operator last used

gemVars == <<comm_, open_requests_, preferred_online_mode_, control_mode, operator_mode>>

ControlModes == {"Offline", "OnlineLocal", "OnlineRemote"}
Messages == {"S1F13", "query", "S1F15", "S1F17", "faulty", "acknowledge"}

GemInit ==
    /\ comm_ = "NotCommunicating"
    /\ open_requests_ = {}
    /\ preferred_online_mode_ = "OnlineLocal"
    /\ control_mode = "OnlineLocal"
    /\ operator_mode = "OnlineLocal"

\* What is posted.  of: the connection the message belongs to.
Reply(frame, of) == IF frame.w THEN <<[kind |-> "reply", system |-> frame.system, of |-> of]>>
                    ELSE <<>>
Request(w, of) == [kind |-> "request", w |-> w, of |-> of]
ModeChanged(mode) == [kind |-> "task", reports |-> 1, mode |-> mode]

-----------------------------------------------------------------------------
(* The service as the handler of the HSMS server. *)

\* on_session_state()
on_session_state(connection) ==
    /\ comm_' = IF connection = "Selected" THEN comm_ ELSE "NotCommunicating"
    /\ open_requests_' = IF connection = "Selected" THEN open_requests_ ELSE {}
    /\ UNCHANGED <<preferred_online_mode_, control_mode, operator_mode>>

\* on_transaction_timeout(): S9F9 for each request that is known.
on_transaction_timeout(system, of) ==
    /\ ready' = IF system \in open_requests_ THEN Append(ready, Request(FALSE, of)) ELSE ready
    /\ open_requests_' = open_requests_ \ {system}
    /\ UNCHANGED <<comm_, preferred_online_mode_, control_mode, operator_mode>>

\* S6F12 or S5F2.
TakesReply(d) ==
    /\ d.reply
    /\ open_requests_' = open_requests_ \ {d.frame.system}
    /\ UNCHANGED <<ready, comm_, preferred_online_mode_, control_mode, operator_mode>>

\* S9F1, S9F3, S9F5, S9F7 and S9F11.
TakesFaulty(d, of) ==
    /\ ~d.reply /\ d.frame.message = "faulty"
    /\ ready' = Append(ready, Request(FALSE, of))
    /\ UNCHANGED gemVars

TakesEstablish(d, of) ==
    /\ ~d.reply /\ d.frame.message = "S1F13"
    /\ comm_' = "Communicating"
    /\ ready' = ready \o Reply(d.frame, of)
    /\ UNCHANGED <<open_requests_, preferred_online_mode_, control_mode, operator_mode>>

TakesQuery(d, of) ==
    /\ ~d.reply /\ d.frame.message = "query"
    /\ ready' = ready \o Reply(d.frame, of)
    /\ UNCHANGED gemVars

\* An acknowledgement that answers no open request is ignored.
IgnoresStray(d) ==
    /\ ~d.reply /\ d.frame.message = "acknowledge"
    /\ UNCHANGED <<ready, gemVars>>

handle_offline_request(d, of) ==
    /\ ~d.reply /\ d.frame.message = "S1F15"
    /\ control_mode' = "Offline"
    /\ ready' = Append(ready, ModeChanged("Offline")) \o Reply(d.frame, of)
    /\ UNCHANGED <<comm_, open_requests_, preferred_online_mode_, operator_mode>>

\* One step, though an operator's switch may come between the look at the mode and
\* set_control_mode(): the controller refuses a host's online mode unless the mode is
\* Offline, so the switch only changes the code of the answer, which is not followed.
handle_online_request(d, of) ==
    /\ ~d.reply /\ d.frame.message = "S1F17"
    /\ IF AllowHostOnline /\ control_mode = "Offline"
       THEN /\ control_mode' = preferred_online_mode_
            /\ ready' = Append(ready, ModeChanged(preferred_online_mode_)) \o Reply(d.frame, of)
       ELSE /\ ready' = ready \o Reply(d.frame, of)
            /\ UNCHANGED control_mode
    /\ UNCHANGED <<comm_, open_requests_, preferred_online_mode_, operator_mode>>

on_data(d, of) ==
    \/ TakesReply(d) \/ TakesFaulty(d, of) \/ TakesEstablish(d, of) \/ TakesQuery(d, of)
    \/ IgnoresStray(d) \/ handle_offline_request(d, of) \/ handle_online_request(d, of)

-----------------------------------------------------------------------------
(* The service as a subscriber of the machine's events. *)

\* A posted event: one report (two for a result out of specification), sent only
\* while communicating.
RunsTask(task, of) ==
    /\ preferred_online_mode_' = IF task.mode \in ControlModes \ {"Offline"} THEN task.mode
                                 ELSE preferred_online_mode_
    /\ ready' = Tail(ready) \o IF comm_ = "Communicating"
                               THEN [i \in 1..task.reports |-> Request(TRUE, of)] ELSE <<>>
    /\ UNCHANGED <<comm_, open_requests_, control_mode, operator_mode>>

\* on_sent: a request with the W-bit went out.
on_sent(system) ==
    /\ open_requests_' = open_requests_ \union {system}
    /\ UNCHANGED <<comm_, preferred_online_mode_, control_mode, operator_mode>>

\* Some thread publishes an event or an alarm.
MachineEvent(reports) ==
    /\ ready' = Append(ready, [kind |-> "task", reports |-> reports, mode |-> "none"])
    /\ UNCHANGED gemVars

\* The operator switches the control mode.  One handler of the controller thread stores
\* it, publishes the change and posts the event's work; the host's changes run on that
\* thread too, so none comes in between.
OperatorSetsMode(mode) ==
    /\ control_mode' = mode
    /\ operator_mode' = IF mode = "Offline" THEN operator_mode ELSE mode
    /\ ready' = Append(ready, ModeChanged(mode))
    /\ UNCHANGED <<comm_, open_requests_, preferred_online_mode_>>
=============================================================================
