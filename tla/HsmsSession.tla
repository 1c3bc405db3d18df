---------------------------- MODULE HsmsSession ----------------------------
(***************************************************************************)
(* The HSMS session (secsgem/hsms/session, connection_state, timers): the  *)
(* passive side of one host connection.  The I/O thread calls it; a call   *)
(* is one step, except on_bytes(), which is one step per frame of the read *)
(* so that a read may hold any frames.  Between its first and last step    *)
(* only on_bytes() goes on.                                                *)
(*                                                                         *)
(* A timer is the time left, 0 when it has expired and Stopped when it is  *)
(* not running; Elapse lets one unit of time pass.                         *)
(***************************************************************************)
EXTENDS Integers, Sequences, FiniteSets

CONSTANTS
    T3, T6, T7, T8, LinktestInterval,   \* durations, in units of time
    SystemModulus,                      \* system bytes are 0..SystemModulus - 1
    MaxOpen,                            \* max_open_transactions
    MaxFrames                           \* bound: frames sent and delivered by one read

ASSUME SessionAssumption ==
    /\ {T3, T6, T7, T8, LinktestInterval, MaxOpen, MaxFrames} \subseteq Nat
    /\ SystemModulus \in Nat /\ SystemModulus > MaxOpen + 2

VARIABLES
    state,              \* fsm_
    t6_, t7_, t8_,
    idle,               \* now - last_activity_, up to LinktestInterval
    pending_linktest_,  \* 0: none
    transactions_,      \* the time each open request has left, by system bytes
    next_system_bytes_,
    partial,            \* decoder_.has_partial()
    call,               \* "bytes" inside on_bytes(), else "none"
    out                 \* the SessionOutput of the latest call

timerVars == <<t6_, t7_, t8_>>
sessionVars == <<state, timerVars, idle, pending_linktest_, transactions_,
                 next_system_bytes_, partial, call, out>>

ConnectionStates == {"NotConnected", "NotSelected", "Selected"}
Stopped == -1
Timer(duration) == Stopped..duration
Systems == 1..SystemModulus - 1
Closed == [s \in Systems |-> Stopped]
Open == {s \in Systems : transactions_[s] # Stopped}

NoOutput == [to_send |-> <<>>, deliveries |-> <<>>, timed_out |-> {}, close |-> FALSE]
Control(stype, system) == [stype |-> stype, system |-> system]
Sends(stype, system) == out' = [out EXCEPT !.to_send = Append(@, Control(stype, system))]

SessionInit ==
    /\ state = "NotConnected"
    /\ t6_ = Stopped /\ t7_ = Stopped /\ t8_ = Stopped
    /\ idle = 0 /\ pending_linktest_ = 0
    /\ transactions_ = Closed
    /\ next_system_bytes_ = 1
    /\ partial = FALSE /\ call = "none" /\ out = NoOutput

\* One unit of time passes between two calls.
Elapse ==
    LET Left(t) == IF t > 0 THEN t - 1 ELSE t
    IN  /\ call = "none"
        /\ t6_' = Left(t6_) /\ t7_' = Left(t7_) /\ t8_' = Left(t8_)
        /\ transactions_' = [s \in Systems |-> Left(transactions_[s])]
        /\ idle' = IF idle < LinktestInterval THEN idle + 1 ELSE idle
        /\ UNCHANGED <<state, pending_linktest_, next_system_bytes_, partial, call, out>>

-----------------------------------------------------------------------------
(* Connecting and disconnecting. *)

\* Mutant: the transactions of the old connection are kept.
reset_link_state_keeps ==
    /\ t6_' = Stopped /\ t8_' = Stopped
    /\ pending_linktest_' = 0 /\ partial' = FALSE
    /\ UNCHANGED transactions_

\* reset_link_state(), but for t7_, which on_connect() starts again.
reset_link_state ==
    /\ t6_' = Stopped /\ t8_' = Stopped
    /\ pending_linktest_' = 0 /\ partial' = FALSE
    /\ transactions_' = Closed

on_connect ==
    /\ call = "none" /\ state = "NotConnected"
    /\ state' = "NotSelected"
    /\ reset_link_state
    /\ idle' = 0 /\ t7_' = T7 /\ out' = NoOutput
    /\ UNCHANGED <<next_system_bytes_, call>>

Disconnects ==
    /\ state' = "NotConnected"
    /\ reset_link_state
    /\ t7_' = Stopped

on_disconnect ==
    /\ call = "none"
    /\ IF state = "NotConnected"
       THEN UNCHANGED <<state, timerVars, pending_linktest_, transactions_, partial>>
       ELSE Disconnects
    /\ UNCHANGED <<idle, next_system_bytes_, call, out>>

close_connection ==
    /\ Disconnects
    /\ out' = [out EXCEPT !.close = TRUE]
    /\ UNCHANGED next_system_bytes_

-----------------------------------------------------------------------------
(* on_bytes(). *)

\* Mutant: whatever the host sends restarts T3.
BytesArrive_restarts ==
    /\ call = "none" /\ state # "NotConnected"
    /\ call' = "bytes" /\ idle' = 0 /\ out' = NoOutput
    /\ transactions_' = [s \in Systems |-> IF s \in Open THEN T3 ELSE Stopped]
    /\ UNCHANGED <<state, timerVars, pending_linktest_, next_system_bytes_, partial>>

\* A read whose frames all have a legal length.
BytesArrive ==
    /\ call = "none" /\ state # "NotConnected"
    /\ call' = "bytes" /\ idle' = 0 /\ out' = NoOutput
    /\ UNCHANGED <<state, timerVars, pending_linktest_, transactions_, next_system_bytes_, partial>>

\* A length below the header or above the maximum: nothing of the read is used.
FramingError ==
    /\ call = "none" /\ state # "NotConnected"
    /\ idle' = 0
    /\ Disconnects
    /\ out' = [NoOutput EXCEPT !.close = TRUE]
    /\ UNCHANGED <<next_system_bytes_, call>>

\* The read is used up; what is left over is the beginning of a frame.
BytesEnd(rest) ==
    /\ call = "bytes" /\ call' = "none"
    /\ partial' = rest
    /\ t8_' = IF rest THEN T8 ELSE Stopped
    /\ UNCHANGED <<state, t6_, t7_, idle, pending_linktest_, transactions_, next_system_bytes_, out>>

\* The frames that are answered by a Reject.req and change nothing.
Rejected(f) ==
    \/ f.stype \in {"badPType", "badSType", "SelectRsp", "DeselectRsp"}
    \/ f.stype = "Data" /\ state # "Selected"
    \/ f.stype = "LinktestRsp" /\ f.system # pending_linktest_
    \/ f.stype = "LinktestRsp" /\ pending_linktest_ = 0

RejectsFrame(f) ==
    /\ Rejected(f)
    /\ Sends("RejectReq", f.system)
    /\ UNCHANGED <<state, timerVars, pending_linktest_, transactions_, next_system_bytes_, partial>>

\* A secondary message with the system bytes of an open request answers it.
TakesData(f) ==
    /\ f.stype = "Data" /\ state = "Selected"
    /\ LET answers == ~f.primary /\ f.system \in Open
       IN  /\ transactions_' = IF answers THEN [transactions_ EXCEPT ![f.system] = Stopped]
                               ELSE transactions_
           /\ out' = [out EXCEPT !.deliveries = Append(@, [frame |-> f, reply |-> answers])]
    /\ UNCHANGED <<state, timerVars, pending_linktest_, next_system_bytes_, partial>>

TakesSelect(f) ==
    /\ f.stype = "SelectReq"
    /\ state' = "Selected"
    /\ t7_' = IF state = "NotSelected" THEN Stopped ELSE t7_
    /\ Sends("SelectRsp", f.system)
    /\ UNCHANGED <<t6_, t8_, pending_linktest_, transactions_, next_system_bytes_, partial>>

\* Mutant: the open requests are kept.
TakesDeselect_keeps(f) ==
    /\ f.stype = "DeselectReq"
    /\ state' = "NotSelected"
    /\ t7_' = IF state = "Selected" THEN T7 ELSE t7_
    /\ Sends("DeselectRsp", f.system)
    /\ UNCHANGED <<t6_, t8_, pending_linktest_, transactions_, next_system_bytes_, partial>>

TakesDeselect(f) ==
    /\ f.stype = "DeselectReq"
    /\ state' = "NotSelected"
    /\ transactions_' = IF state = "Selected" THEN Closed ELSE transactions_
    /\ t7_' = IF state = "Selected" THEN T7 ELSE t7_
    /\ Sends("DeselectRsp", f.system)
    /\ UNCHANGED <<t6_, t8_, pending_linktest_, next_system_bytes_, partial>>

AnswersLinktest(f) ==
    /\ f.stype = "LinktestReq"
    /\ Sends("LinktestRsp", f.system)
    /\ UNCHANGED <<state, timerVars, pending_linktest_, transactions_, next_system_bytes_, partial>>

EndsLinktest(f) ==
    IF pending_linktest_ # 0 /\ pending_linktest_ = f.system
    THEN pending_linktest_' = 0 /\ t6_' = Stopped
    ELSE UNCHANGED <<pending_linktest_, t6_>>

TakesLinktestRsp(f) ==
    /\ f.stype = "LinktestRsp" /\ ~Rejected(f)
    /\ EndsLinktest(f)
    /\ UNCHANGED <<state, t7_, t8_, transactions_, next_system_bytes_, partial, out>>

\* The peer refused something the machine sent.
TakesReject(f) ==
    /\ f.stype = "RejectReq"
    /\ EndsLinktest(f)
    /\ transactions_' = IF f.system \in Open THEN [transactions_ EXCEPT ![f.system] = Stopped]
                        ELSE transactions_
    /\ UNCHANGED <<state, t7_, t8_, next_system_bytes_, partial, out>>

\* The rest of the read is discarded with the connection.
TakesSeparate(f) ==
    /\ f.stype = "SeparateReq"
    /\ close_connection

handle_frame(f) ==
    /\ call = "bytes" /\ Len(out.to_send) + Len(out.deliveries) < MaxFrames
    /\ \/ RejectsFrame(f) \/ TakesData(f) \/ TakesSelect(f) \/ TakesDeselect(f)
       \/ AnswersLinktest(f) \/ TakesLinktestRsp(f) \/ TakesReject(f) \/ TakesSeparate(f)
    /\ call' = IF f.stype = "SeparateReq" THEN "none" ELSE "bytes"
    /\ UNCHANGED idle

-----------------------------------------------------------------------------
(* Sending. *)

\* ++next_system_bytes_
Following(system) == (system + 1) % SystemModulus

\* Mutant: the number of a linktest under way is not looked at.
InUse_requests(expired) == Open \ expired

\* The numbers a new message must not use, once the expired requests are forgotten.
InUse(expired) == (Open \ expired) \union {pending_linktest_}

\* allocate_system_bytes(): the first free number from next_system_bytes_ on.
Allocates(s, inUse) ==
    LET Ahead(r) == (r - next_system_bytes_) % SystemModulus
    IN  /\ s \in Systems \ inUse
        /\ \A r \in Systems \ inUse : Ahead(s) <= Ahead(r)
        /\ next_system_bytes_' = Following(s)

\* on_tick(): a timer that closes the connection.
TickCloses ==
    /\ call = "none" /\ state # "NotConnected"
    /\ \/ state = "NotSelected" /\ t7_ = 0
       \/ t8_ = 0
       \/ pending_linktest_ # 0 /\ t6_ = 0
    /\ Disconnects
    /\ out' = [NoOutput EXCEPT !.close = TRUE]
    /\ UNCHANGED <<idle, next_system_bytes_, call>>

\* on_tick(): expired requests are reported, an idle link is tested.
TickGoesOn ==
    /\ call = "none" /\ state # "NotConnected"
    /\ ~(state = "NotSelected" /\ t7_ = 0) /\ t8_ # 0 /\ ~(pending_linktest_ # 0 /\ t6_ = 0)
    /\ LET expired == {s \in Open : transactions_[s] = 0}
           report == [NoOutput EXCEPT !.timed_out = expired]
       IN  /\ transactions_' = [s \in Systems |-> IF s \in expired THEN Stopped ELSE transactions_[s]]
           /\ IF state = "Selected" /\ pending_linktest_ = 0 /\ idle = LinktestInterval
              THEN \E s \in Systems :
                       /\ Allocates(s, InUse(expired))
                       /\ pending_linktest_' = s /\ t6_' = T6 /\ idle' = 0
                       /\ out' = [report EXCEPT !.to_send = <<Control("LinktestReq", s)>>]
              ELSE /\ out' = report
                   /\ UNCHANGED <<pending_linktest_, t6_, idle, next_system_bytes_>>
    /\ UNCHANGED <<state, t7_, t8_, partial, call>>

\* send_request(); w: with the W-bit.  The message may turn out not to fit in a
\* frame (fits), after its number was taken.
send_request(w, fits) ==
    /\ call = "none"
    /\ IF state = "Selected" /\ (w => Cardinality(Open) < MaxOpen)
       THEN \E s \in Systems :
                /\ Allocates(s, InUse({}))
                /\ IF fits
                   THEN /\ out' = [NoOutput EXCEPT !.to_send = <<Control("Data", s)>>]
                        /\ transactions_' = IF w THEN [transactions_ EXCEPT ![s] = T3]
                                            ELSE transactions_
                        /\ idle' = 0
                   ELSE out' = NoOutput /\ UNCHANGED <<transactions_, idle>>
       ELSE out' = NoOutput /\ UNCHANGED <<transactions_, idle, next_system_bytes_>>
    /\ UNCHANGED <<state, timerVars, pending_linktest_, partial, call>>

\* Mutant: a reply is sent in every state.
send_reply_anytime(system, fits) ==
    /\ call = "none"
    /\ out' = IF fits THEN [NoOutput EXCEPT !.to_send = <<Control("Data", system)>>] ELSE NoOutput
    /\ UNCHANGED <<state, timerVars, idle, pending_linktest_, transactions_,
                   next_system_bytes_, partial, call>>

\* send_reply(): the system bytes of the request are echoed.
send_reply(system, fits) ==
    /\ call = "none"
    /\ out' = IF state = "Selected" /\ fits
              THEN [NoOutput EXCEPT !.to_send = <<Control("Data", system)>>] ELSE NoOutput
    /\ UNCHANGED <<state, timerVars, idle, pending_linktest_, transactions_,
                   next_system_bytes_, partial, call>>

-----------------------------------------------------------------------------
STypes == {"Data", "SelectReq", "SelectRsp", "DeselectReq", "DeselectRsp", "LinktestReq",
           "LinktestRsp", "RejectReq", "SeparateReq", "badPType", "badSType"}

\* The calls a server may make, in any order and with any frames.
SessionNext ==
    \/ on_connect \/ on_disconnect \/ BytesArrive \/ FramingError \/ TickCloses \/ TickGoesOn
    \/ Elapse
    \/ \E rest \in BOOLEAN : BytesEnd(rest)
    \/ \E stype \in STypes, system \in 0..SystemModulus - 1, primary \in BOOLEAN :
           handle_frame([stype |-> stype, system |-> system, primary |-> primary])
    \/ \E w, fits \in BOOLEAN : send_request(w, fits)
    \/ \E system \in 0..SystemModulus - 1, fits \in BOOLEAN : send_reply(system, fits)

SessionSpec == SessionInit /\ [][SessionNext]_sessionVars

\* A read has finitely many frames, the server's timer keeps ticking and time
\* keeps passing, whatever the host sends.
FairSessionSpec ==
    /\ SessionSpec
    /\ WF_sessionVars(\E rest \in BOOLEAN : BytesEnd(rest))
    /\ SF_sessionVars(TickCloses \/ TickGoesOn)
    /\ SF_sessionVars(Elapse)

-----------------------------------------------------------------------------
(* Properties. *)

SessionTypeOK ==
    /\ state \in ConnectionStates
    /\ t6_ \in Timer(T6) /\ t7_ \in Timer(T7) /\ t8_ \in Timer(T8)
    /\ idle \in 0..LinktestInterval
    /\ pending_linktest_ \in 0..SystemModulus - 1
    /\ next_system_bytes_ \in 0..SystemModulus - 1
    /\ transactions_ \in [Systems -> Timer(T3)]
    /\ partial \in BOOLEAN /\ call \in {"none", "bytes"}

\* Whatever calls and frames came before, exactly the timers run that the state
\* needs: T7 while connected and not selected, T6 while a linktest is under way,
\* T8 while a frame is unfinished; without a link nothing is, and a request is
\* open only while selected, so nothing of one selection survives into the next.
TimersFollowState ==
    /\ t7_ # Stopped <=> state = "NotSelected"
    /\ t6_ # Stopped <=> pending_linktest_ # 0
    /\ t8_ # Stopped <=> partial
    /\ state = "NotConnected" => pending_linktest_ = 0 /\ ~partial
    /\ Open # {} => state = "Selected"

\* FR-HSMS-5: the numbers of all that is open differ, across the wrap of the
\* counter, and the open requests stay within their bound.
NumbersDiffer ==
    /\ pending_linktest_ \notin Open
    /\ Cardinality(Open) <= MaxOpen

\* T7: a host that does not select is dropped; T3: every open request ends, answered
\* or reported.  Both also when the host keeps the link busy with other messages.
TimeoutsEnd ==
    /\ state = "NotSelected" ~> state # "NotSelected"
    /\ \A s \in Systems : s \in Open ~> s \notin Open
=============================================================================
