------------------------- MODULE HsmsSessionProofs -------------------------
(***************************************************************************)
(* The HSMS session, for all durations, counter widths, bounds and frames: *)
(* its timers follow its state.  That its open numbers differ is proved at *)
(* the end of HsmsServerProofs.                                            *)
(*                                                                         *)
(* Then what HsmsServerProofs builds on: the invariant of the server, and  *)
(* what each call into the session and each piece of posted work does to   *)
(* the state that invariant speaks of.                                     *)
(***************************************************************************)
EXTENDS HsmsServer, TLAPS

(* Sequences, element by element. *)

LEMMA TailOfSeq ==
    ASSUME NEW S, NEW q \in Seq(S), q # <<>>
    PROVE  /\ Head(q) = q[1] /\ Head(q) \in S /\ Len(q) \in Nat /\ Len(q) >= 1
           /\ Tail(q) \in Seq(S) /\ Len(Tail(q)) = Len(q) - 1
           /\ \A i \in 1..Len(Tail(q)) : Tail(q)[i] = q[i + 1]
  OBVIOUS

LEMMA AppendToSeq ==
    ASSUME NEW S, NEW q \in Seq(S), NEW x \in S
    PROVE  /\ Append(q, x) \in Seq(S) /\ Len(q) \in Nat /\ Len(Append(q, x)) = Len(q) + 1
           /\ \A i \in 1..Len(q) : Append(q, x)[i] = q[i]
           /\ Append(q, x)[Len(q) + 1] = x
  OBVIOUS

LEMMA ConcatOfSeqs ==
    ASSUME NEW S, NEW q \in Seq(S), NEW p \in Seq(S)
    PROVE  /\ q \o p \in Seq(S) /\ Len(q \o p) = Len(q) + Len(p)
           /\ \A i \in 1..Len(q \o p) : (q \o p)[i] = IF i <= Len(q) THEN q[i] ELSE p[i - Len(q)]
  OBVIOUS

LEMMA EmptyIsSeq == ASSUME NEW S PROVE <<>> \in Seq(S)
  OBVIOUS

LEMMA FunctionIsSeq == ASSUME NEW S, NEW n \in Nat, NEW f \in [1..n -> S] PROVE f \in Seq(S)
  OBVIOUS

-----------------------------------------------------------------------------
(* The session. *)

\* on_bytes() only goes on while there is a link.
LinkDuringCall == call = "bytes" => state # "NotConnected"

LinkInv == SessionTypeOK /\ TimersFollowState /\ LinkDuringCall

\* The parts of the state the invariants are about.
linkVars == <<state, timerVars, idle, pending_linktest_, transactions_,
              next_system_bytes_, partial, call>>

Frames == [stype : STypes, system : 0..SystemModulus - 1, primary : BOOLEAN]

-----------------------------------------------------------------------------
(* The constants, the counter and the table of open requests. *)

LEMMA Constants ==
    /\ T3 \in Nat /\ T6 \in Nat /\ T7 \in Nat /\ T8 \in Nat
    /\ LinktestInterval \in Nat /\ MaxOpen \in Nat
    /\ SystemModulus \in Nat /\ SystemModulus > MaxOpen + 2
  BY SessionAssumption

LEMMA TimerValues == \A d \in Nat : Stopped \in Timer(d) /\ d \in Timer(d) /\ d # Stopped
  BY DEF Stopped, Timer

LEMMA FollowingType == \A s \in Systems : Following(s) \in 0..SystemModulus - 1
  BY SessionAssumption DEF Following, Systems

\* How the table's changes show in the set of open requests.
LEMMA TableClears ==
  ASSUME transactions_' = Closed
  PROVE  transactions_' \in [Systems -> Timer(T3)] /\ Open' = {}
<1>1. transactions_' \in [Systems -> Timer(T3)]
  BY Constants, TimerValues DEF Closed
<1>2. Open' = {}
  BY DEF Open, Closed
<1> QED BY <1>1, <1>2

LEMMA TableErases ==
  ASSUME transactions_ \in [Systems -> Timer(T3)], NEW s \in Systems,
         transactions_' = [transactions_ EXCEPT ![s] = Stopped]
  PROVE  transactions_' \in [Systems -> Timer(T3)] /\ Open' = Open \ {s}
<1>1. transactions_' \in [Systems -> Timer(T3)]
  BY Constants, TimerValues
<1>2. Open' = Open \ {s}
  BY DEF Open
<1> QED BY <1>1, <1>2

LEMMA TableAdds ==
  ASSUME transactions_ \in [Systems -> Timer(T3)], NEW s \in Systems,
         transactions_' = [transactions_ EXCEPT ![s] = T3]
  PROVE  transactions_' \in [Systems -> Timer(T3)] /\ Open' = Open \union {s}
<1>1. transactions_' \in [Systems -> Timer(T3)]
  BY Constants, TimerValues
<1>2. Open' = Open \union {s}
  BY Constants, TimerValues DEF Open
<1> QED BY <1>1, <1>2

\* What on_tick() does to it.
LEMMA TableForgets ==
  ASSUME transactions_ \in [Systems -> Timer(T3)], NEW expired,
         transactions_' = [s \in Systems |-> IF s \in expired THEN Stopped ELSE transactions_[s]]
  PROVE  transactions_' \in [Systems -> Timer(T3)] /\ Open' = Open \ expired
<1>1. transactions_' \in [Systems -> Timer(T3)]
  BY Constants, TimerValues
<1>2. Open' = Open \ expired
  BY DEF Open
<1> QED BY <1>1, <1>2

-----------------------------------------------------------------------------
(* The timers follow the state. *)

LEMMA LinkUnchanged == LinkInv /\ UNCHANGED linkVars => LinkInv'
  BY DEF LinkInv, linkVars, timerVars, SessionTypeOK, TimersFollowState, LinkDuringCall, Open

LEMMA LinkInitially == SessionInit => LinkInv
<1> SUFFICES ASSUME SessionInit PROVE LinkInv OBVIOUS
<1>1. SessionTypeOK
  <2>1. state \in ConnectionStates
    BY DEF SessionInit, ConnectionStates
  <2>2. t6_ \in Timer(T6) /\ t7_ \in Timer(T7) /\ t8_ \in Timer(T8)
    BY Constants, TimerValues DEF SessionInit
  <2>3. idle \in 0..LinktestInterval
    BY Constants DEF SessionInit
  <2>4. pending_linktest_ \in 0..SystemModulus - 1 /\ next_system_bytes_ \in 0..SystemModulus - 1
    BY Constants DEF SessionInit
  <2>5. transactions_ \in [Systems -> Timer(T3)]
    BY Constants, TimerValues DEF SessionInit, Closed
  <2>6. partial \in BOOLEAN /\ call \in {"none", "bytes"}
    BY DEF SessionInit
  <2> QED BY <2>1, <2>2, <2>3, <2>4, <2>5, <2>6 DEF SessionTypeOK
<1>2. Open = {}
  BY DEF SessionInit, Open, Closed
<1>3. TimersFollowState
  BY <1>2 DEF SessionInit, TimersFollowState
<1>4. LinkDuringCall
  BY DEF SessionInit, LinkDuringCall
<1> QED BY <1>1, <1>3, <1>4 DEF LinkInv

\* A lost link leaves nothing running.
LEMMA DisconnectsClean ==
  ASSUME LinkInv, Disconnects, idle' \in 0..LinktestInterval,
         next_system_bytes_' = next_system_bytes_, call' = "none"
  PROVE  LinkInv'
<1>1. transactions_' \in [Systems -> Timer(T3)] /\ Open' = {}
  BY TableClears DEF Disconnects, reset_link_state
<1>2. SessionTypeOK'
  <2>1. partial' \in BOOLEAN
    BY DEF Disconnects, reset_link_state
  <2>2. t6_' \in Timer(T6) /\ t7_' \in Timer(T7) /\ t8_' \in Timer(T8)
    BY Constants, TimerValues DEF Disconnects, reset_link_state
  <2>3. pending_linktest_' \in 0..SystemModulus - 1
    BY Constants DEF Disconnects, reset_link_state
  <2>4. state' \in ConnectionStates
    BY DEF Disconnects, ConnectionStates
  <2>5. call' \in {"none", "bytes"} /\ next_system_bytes_' \in 0..SystemModulus - 1
    BY DEF LinkInv, SessionTypeOK
  <2> QED BY <1>1, <2>1, <2>2, <2>3, <2>4, <2>5 DEF SessionTypeOK
<1>3. TimersFollowState'
  BY <1>1 DEF TimersFollowState, Disconnects, reset_link_state
<1>4. LinkDuringCall'
  BY DEF LinkDuringCall
<1> QED BY <1>2, <1>3, <1>4 DEF LinkInv

LEMMA ConnectKeepsLink == LinkInv /\ on_connect => LinkInv'
<1> SUFFICES ASSUME LinkInv, on_connect PROVE LinkInv' OBVIOUS
<1>1. transactions_' \in [Systems -> Timer(T3)] /\ Open' = {}
  BY TableClears DEF on_connect, reset_link_state
<1>2. SessionTypeOK'
  <2>1. partial' \in BOOLEAN
    BY DEF on_connect, reset_link_state
  <2>2. t6_' \in Timer(T6) /\ t7_' \in Timer(T7) /\ t8_' \in Timer(T8)
    BY Constants, TimerValues DEF on_connect, reset_link_state
  <2>3. pending_linktest_' \in 0..SystemModulus - 1 /\ idle' \in 0..LinktestInterval
    BY Constants DEF on_connect, reset_link_state
  <2>4. state' \in ConnectionStates
    BY DEF on_connect, ConnectionStates
  <2>5. call' \in {"none", "bytes"} /\ next_system_bytes_' \in 0..SystemModulus - 1
    BY DEF on_connect, LinkInv, SessionTypeOK
  <2> QED BY <1>1, <2>1, <2>2, <2>3, <2>4, <2>5 DEF SessionTypeOK
<1>3. TimersFollowState'
  BY <1>1, Constants, TimerValues DEF TimersFollowState, on_connect, reset_link_state
<1>4. LinkDuringCall'
  BY DEF LinkDuringCall, on_connect
<1> QED BY <1>2, <1>3, <1>4 DEF LinkInv

\* The ways a link is lost: all of them go through Disconnects.
LEMMA LossKeepsLink == LinkInv /\ (on_disconnect \/ FramingError \/ TickCloses) => LinkInv'
<1> SUFFICES ASSUME LinkInv, on_disconnect \/ FramingError \/ TickCloses PROVE LinkInv' OBVIOUS
<1>1. 0 \in 0..LinktestInterval /\ idle \in 0..LinktestInterval
  BY Constants DEF LinkInv, SessionTypeOK
<1>2. CASE on_disconnect /\ state = "NotConnected"
  BY <1>2, LinkUnchanged DEF on_disconnect, linkVars, timerVars
<1>3. CASE on_disconnect /\ state # "NotConnected"
  BY <1>1, <1>3, DisconnectsClean DEF on_disconnect
<1>4. CASE FramingError
  BY <1>1, <1>4, DisconnectsClean DEF FramingError
<1>5. CASE TickCloses
  BY <1>1, <1>5, DisconnectsClean DEF TickCloses
<1> QED BY <1>2, <1>3, <1>4, <1>5

\* Steps that change neither the connection nor the timers.
LEMMA QuietKeepsLink ==
  ASSUME LinkInv, UNCHANGED <<state, timerVars, pending_linktest_, partial>>,
         transactions_' \in [Systems -> Timer(T3)], Open' # {} => state = "Selected",
         idle' \in 0..LinktestInterval, next_system_bytes_' \in 0..SystemModulus - 1,
         call' \in {"none", "bytes"}, call' = "bytes" => state # "NotConnected"
  PROVE  LinkInv'
<1>1. SessionTypeOK'
  BY DEF LinkInv, SessionTypeOK, timerVars
<1>2. TimersFollowState'
  BY DEF LinkInv, TimersFollowState, timerVars
<1>3. LinkDuringCall'
  BY DEF LinkDuringCall
<1> QED BY <1>1, <1>2, <1>3 DEF LinkInv

LEMMA ElapseKeepsLink == LinkInv /\ Elapse => LinkInv'
<1> SUFFICES ASSUME LinkInv, Elapse PROVE LinkInv' OBVIOUS
<1> DEFINE Left(t) == IF t > 0 THEN t - 1 ELSE t
<1>1. \A d \in Nat : \A t \in Timer(d) : Left(t) \in Timer(d) /\ (Left(t) = Stopped <=> t = Stopped)
  BY DEF Timer, Stopped
<1>2. t6_' = Left(t6_) /\ t7_' = Left(t7_) /\ t8_' = Left(t8_)
      /\ transactions_' = [s \in Systems |-> Left(transactions_[s])]
  BY DEF Elapse
<1>3. t6_' \in Timer(T6) /\ (t6_' = Stopped <=> t6_ = Stopped)
  BY <1>1, <1>2, Constants DEF LinkInv, SessionTypeOK
<1>4. t7_' \in Timer(T7) /\ (t7_' = Stopped <=> t7_ = Stopped)
  BY <1>1, <1>2, Constants DEF LinkInv, SessionTypeOK
<1>5. t8_' \in Timer(T8) /\ (t8_' = Stopped <=> t8_ = Stopped)
  BY <1>1, <1>2, Constants DEF LinkInv, SessionTypeOK
<1>6. transactions_' \in [Systems -> Timer(T3)] /\ Open' = Open
  <2>1. \A s \in Systems : Left(transactions_[s]) \in Timer(T3)
                          /\ (Left(transactions_[s]) = Stopped <=> transactions_[s] = Stopped)
    BY <1>1, Constants DEF LinkInv, SessionTypeOK
  <2> HIDE DEF Left
  <2> QED BY <1>2, <2>1 DEF Open
<1> HIDE DEF Left
<1>7. idle' \in 0..LinktestInterval
  BY Constants DEF Elapse, LinkInv, SessionTypeOK
<1>8. SessionTypeOK'
  BY <1>3, <1>4, <1>5, <1>6, <1>7 DEF Elapse, LinkInv, SessionTypeOK
<1>9. TimersFollowState'
  BY <1>3, <1>4, <1>5, <1>6 DEF Elapse, LinkInv, TimersFollowState
<1>10. LinkDuringCall'
  BY DEF Elapse, LinkInv, LinkDuringCall
<1> QED BY <1>8, <1>9, <1>10 DEF LinkInv

LEMMA ReadKeepsLink ==
  ASSUME LinkInv, NEW rest \in BOOLEAN, BytesArrive \/ BytesEnd(rest)
  PROVE  LinkInv'
<1>1. CASE BytesArrive
  <2>1. transactions_' \in [Systems -> Timer(T3)] /\ Open' = Open /\ idle' \in 0..LinktestInterval
    BY <1>1, Constants DEF BytesArrive, LinkInv, SessionTypeOK, Open
  <2> QED BY <1>1, <2>1, QuietKeepsLink
          DEF BytesArrive, LinkInv, SessionTypeOK, TimersFollowState
<1>2. CASE BytesEnd(rest)
  <2>1. t8_' \in Timer(T8) /\ (t8_' # Stopped <=> partial') /\ partial' \in BOOLEAN
    BY <1>2, Constants, TimerValues DEF BytesEnd
  <2>2. Open' = Open
    BY <1>2 DEF BytesEnd, Open
  <2>3. state # "NotConnected"
    BY <1>2 DEF BytesEnd, LinkInv, LinkDuringCall
  <2>4. SessionTypeOK'
    BY <1>2, <2>1 DEF BytesEnd, LinkInv, SessionTypeOK
  <2>5. TimersFollowState'
    BY <1>2, <2>1, <2>2, <2>3 DEF BytesEnd, LinkInv, TimersFollowState
  <2>6. LinkDuringCall'
    BY <1>2 DEF BytesEnd, LinkDuringCall
  <2> QED BY <2>4, <2>5, <2>6 DEF LinkInv
<1> QED BY <1>1, <1>2

\* A linktest and its timer end together.
LEMMA LinktestEnds ==
  ASSUME LinkInv, NEW f, EndsLinktest(f)
  PROVE  /\ t6_' \in Timer(T6) /\ pending_linktest_' \in 0..SystemModulus - 1
         /\ t6_' # Stopped <=> pending_linktest_' # 0
  BY Constants, TimerValues DEF EndsLinktest, LinkInv, SessionTypeOK, TimersFollowState

LEMMA FrameKeepsLink ==
  ASSUME LinkInv, NEW f, handle_frame(f)
  PROVE  LinkInv'
<1>1. /\ call = "bytes" /\ state \in {"NotSelected", "Selected"} /\ idle' \in 0..LinktestInterval
      /\ call' \in {"none", "bytes"}
  BY DEF handle_frame, LinkInv, LinkDuringCall, SessionTypeOK, ConnectionStates
<1>2. CASE RejectsFrame(f) \/ AnswersLinktest(f)
  <2>1. Open' = Open /\ UNCHANGED <<transactions_, next_system_bytes_>>
    BY <1>2 DEF RejectsFrame, AnswersLinktest, Open
  <2> QED BY <1>1, <1>2, <2>1, QuietKeepsLink
          DEF RejectsFrame, AnswersLinktest, LinkInv, SessionTypeOK, TimersFollowState
<1>3. CASE TakesData(f)
  <2>1. transactions_' \in [Systems -> Timer(T3)]
    BY <1>3, TableErases DEF TakesData, LinkInv, SessionTypeOK, Open
  <2> QED BY <1>1, <1>3, <2>1, QuietKeepsLink DEF TakesData, LinkInv, SessionTypeOK
<1>4. CASE TakesSelect(f)
  <2>1. Open' = Open
    BY <1>4 DEF TakesSelect, Open
  <2>2. t7_' = Stopped
    BY <1>1, <1>4 DEF TakesSelect, LinkInv, TimersFollowState
  <2>3. SessionTypeOK'
    BY <1>1, <1>4, <2>2, Constants, TimerValues
       DEF TakesSelect, LinkInv, SessionTypeOK, ConnectionStates
  <2>4. TimersFollowState'
    BY <1>4, <2>1, <2>2 DEF TakesSelect, LinkInv, TimersFollowState
  <2>5. LinkDuringCall'
    BY <1>4 DEF TakesSelect, LinkDuringCall
  <2> QED BY <2>3, <2>4, <2>5 DEF LinkInv
<1>5. CASE TakesDeselect(f)
  <2>1. transactions_' \in [Systems -> Timer(T3)] /\ Open' = {}
    <3>1. CASE state = "Selected"
      BY <1>5, <3>1, TableClears DEF TakesDeselect
    <3>2. CASE state # "Selected"
      BY <1>5, <3>2 DEF TakesDeselect, LinkInv, SessionTypeOK, TimersFollowState, Open
    <3> QED BY <3>1, <3>2
  <2>2. t7_' \in Timer(T7) /\ t7_' # Stopped
    BY <1>1, <1>5, Constants, TimerValues DEF TakesDeselect, LinkInv, SessionTypeOK, TimersFollowState
  <2>3. SessionTypeOK'
    BY <1>1, <1>5, <2>1, <2>2 DEF TakesDeselect, LinkInv, SessionTypeOK, ConnectionStates
  <2>4. TimersFollowState'
    BY <1>5, <2>1, <2>2 DEF TakesDeselect, LinkInv, TimersFollowState
  <2>5. LinkDuringCall'
    BY <1>5 DEF TakesDeselect, LinkDuringCall
  <2> QED BY <2>3, <2>4, <2>5 DEF LinkInv
<1>6. CASE TakesLinktestRsp(f) \/ TakesReject(f)
  <2>1. transactions_' \in [Systems -> Timer(T3)] /\ Open' \subseteq Open
    <3>1. CASE transactions_' = transactions_
      BY <3>1 DEF LinkInv, SessionTypeOK, Open
    <3>2. CASE f.system \in Open /\ transactions_' = [transactions_ EXCEPT ![f.system] = Stopped]
      BY <3>2, TableErases DEF LinkInv, SessionTypeOK, Open
    <3> QED BY <1>6, <3>1, <3>2 DEF TakesLinktestRsp, TakesReject
  <2>2. EndsLinktest(f) /\ UNCHANGED <<state, t7_, t8_, next_system_bytes_, partial>>
    BY <1>6 DEF TakesLinktestRsp, TakesReject
  <2>3. SessionTypeOK'
    BY <1>1, <2>1, <2>2, LinktestEnds DEF LinkInv, SessionTypeOK
  <2>4. TimersFollowState'
    BY <1>1, <2>1, <2>2, LinktestEnds DEF LinkInv, TimersFollowState
  <2>5. LinkDuringCall'
    BY <1>1, <2>2 DEF LinkDuringCall
  <2> QED BY <2>3, <2>4, <2>5 DEF LinkInv
<1>7. CASE TakesSeparate(f)
  BY <1>1, <1>7, DisconnectsClean DEF TakesSeparate, close_connection, handle_frame
<1> QED BY <1>2, <1>3, <1>4, <1>5, <1>6, <1>7 DEF handle_frame

\* A number that allocate_system_bytes() returns is in range, and so is the counter.
LEMMA AllocatesType ==
  ASSUME NEW inUse, NEW s \in Systems, Allocates(s, inUse)
  PROVE  /\ s \in 0..SystemModulus - 1 /\ s # 0 /\ s \notin inUse
         /\ next_system_bytes_' \in 0..SystemModulus - 1
  BY FollowingType, Constants DEF Allocates, Systems

LEMMA TickKeepsLink == LinkInv /\ TickGoesOn => LinkInv'
<1> SUFFICES ASSUME LinkInv, TickGoesOn PROVE LinkInv' OBVIOUS
<1> DEFINE expired == {s \in Open : transactions_[s] = 0}
<1>1. transactions_' = [s \in Systems |-> IF s \in expired THEN Stopped ELSE transactions_[s]]
  BY DEF TickGoesOn
<1>2. transactions_' \in [Systems -> Timer(T3)] /\ Open' \subseteq Open
  BY <1>1, TableForgets DEF LinkInv, SessionTypeOK
<1>3. CASE state = "Selected" /\ pending_linktest_ = 0 /\ idle = LinktestInterval
  <2>1. PICK s \in Systems : /\ Allocates(s, InUse(expired))
                             /\ pending_linktest_' = s /\ t6_' = T6 /\ idle' = 0
    BY <1>3 DEF TickGoesOn
  <2>2. /\ pending_linktest_' \in 0..SystemModulus - 1 /\ pending_linktest_' # 0
        /\ next_system_bytes_' \in 0..SystemModulus - 1
    BY <2>1, AllocatesType
  <2>3. t6_' \in Timer(T6) /\ t6_' # Stopped /\ idle' \in 0..LinktestInterval
    BY <2>1, Constants, TimerValues
  <2>4. UNCHANGED <<state, t7_, t8_, partial, call>>
    BY DEF TickGoesOn
  <2>5. SessionTypeOK'
    BY <1>2, <2>2, <2>3, <2>4 DEF LinkInv, SessionTypeOK
  <2>6. TimersFollowState'
    BY <1>2, <1>3, <2>2, <2>3, <2>4 DEF LinkInv, TimersFollowState
  <2>7. LinkDuringCall'
    BY <2>4 DEF LinkInv, LinkDuringCall
  <2> QED BY <2>5, <2>6, <2>7 DEF LinkInv
<1>4. CASE ~(state = "Selected" /\ pending_linktest_ = 0 /\ idle = LinktestInterval)
  <2>1. UNCHANGED <<state, timerVars, pending_linktest_, partial, idle, next_system_bytes_, call>>
    BY <1>4 DEF TickGoesOn, timerVars
  <2> QED BY <1>2, <2>1, QuietKeepsLink
          DEF LinkInv, SessionTypeOK, TimersFollowState, LinkDuringCall
<1> QED BY <1>3, <1>4

LEMMA SendKeepsLink ==
  ASSUME LinkInv, NEW w \in BOOLEAN, NEW fits \in BOOLEAN, send_request(w, fits)
  PROVE  LinkInv'
<1>1. UNCHANGED <<state, timerVars, pending_linktest_, partial, call>> /\ call = "none"
  BY DEF send_request
<1>2. CASE state = "Selected" /\ (w => Cardinality(Open) < MaxOpen)
  <2>1. PICK s \in Systems :
            /\ Allocates(s, InUse({}))
            /\ \/ /\ transactions_' = IF w THEN [transactions_ EXCEPT ![s] = T3] ELSE transactions_
                  /\ idle' = 0
               \/ UNCHANGED <<transactions_, idle>>
    BY <1>2 DEF send_request
  <2>2. transactions_' \in [Systems -> Timer(T3)]
    BY <2>1, TableAdds DEF LinkInv, SessionTypeOK
  <2>3. idle' \in 0..LinktestInterval
    BY <2>1, Constants DEF LinkInv, SessionTypeOK
  <2> QED BY <1>1, <1>2, <2>1, <2>2, <2>3, AllocatesType, QuietKeepsLink
<1>3. CASE ~(state = "Selected" /\ (w => Cardinality(Open) < MaxOpen))
  <2>1. UNCHANGED <<transactions_, idle, next_system_bytes_>>
    BY <1>3 DEF send_request
  <2> QED BY <1>1, <2>1, LinkUnchanged DEF linkVars
<1> QED BY <1>2, <1>3

-----------------------------------------------------------------------------
LEMMA LinkStep == LinkInv /\ [SessionNext]_sessionVars => LinkInv'
<1> SUFFICES ASSUME LinkInv, [SessionNext]_sessionVars PROVE LinkInv' OBVIOUS
<1>1. CASE on_connect
  BY <1>1, ConnectKeepsLink
<1>2. CASE on_disconnect \/ FramingError \/ TickCloses
  BY <1>2, LossKeepsLink
<1>3. CASE BytesArrive
  BY <1>3, ReadKeepsLink
<1>4. CASE \E rest \in BOOLEAN : BytesEnd(rest)
  BY <1>4, ReadKeepsLink
<1>5. CASE \E f \in Frames : handle_frame(f)
  BY <1>5, FrameKeepsLink
<1>6. CASE TickGoesOn
  BY <1>6, TickKeepsLink
<1>7. CASE Elapse
  BY <1>7, ElapseKeepsLink
<1>8. CASE \E w, fits \in BOOLEAN : send_request(w, fits)
  BY <1>8, SendKeepsLink
<1>9. CASE \E system \in 0..SystemModulus - 1, fits \in BOOLEAN : send_reply(system, fits)
  BY <1>9, LinkUnchanged DEF send_reply, linkVars
<1>10. CASE UNCHANGED sessionVars
  BY <1>10, LinkUnchanged DEF sessionVars, linkVars
<1>11. \A stype \in STypes, system \in 0..SystemModulus - 1, primary \in BOOLEAN :
           [stype |-> stype, system |-> system, primary |-> primary] \in Frames
  BY DEF Frames
<1> QED BY <1>1, <1>2, <1>3, <1>4, <1>5, <1>6, <1>7, <1>8, <1>9, <1>10, <1>11 DEF SessionNext

(* The session's variables keep their types, whatever the server calls and the
   host sends: in particular the counter of system bytes stays within its width. *)
THEOREM SessionTypeCorrect == SessionSpec => []SessionTypeOK
<1>1. LinkInv => SessionTypeOK
  BY DEF LinkInv
<1> QED BY LinkInitially, LinkStep, <1>1, PTL DEF SessionSpec

(* Exactly the timers run that the connection state, the linktest and the
   unfinished frame need, and a request is open only while selected. *)
THEOREM TimersAlwaysFollowState == SessionSpec => []TimersFollowState
<1>1. LinkInv => TimersFollowState
  BY DEF LinkInv
<1> QED BY LinkInitially, LinkStep, <1>1, PTL DEF SessionSpec

-----------------------------------------------------------------------------
(* The server: the inductive invariant. *)

HostSystems == {f.system : f \in HostFrames}

\* The handlers that wait for the I/O thread.
Work ==
    [kind : {"read"}, gen : Nat, ok : BOOLEAN]
    \union [kind : {"reply"}, system : HostSystems, of : Nat]
    \union [kind : {"request"}, w : BOOLEAN, of : Nat]
    \union [kind : {"task"}, reports : 1..2, mode : ControlModes \union {"none"}]

Sent == [stype : STypes, system : Systems \union HostSystems]
Deliveries == [frame : HostFrames, reply : BOOLEAN]
Outputs ==
    [to_send : Seq(Sent), deliveries : Seq(Deliveries), timed_out : SUBSET Systems, close : BOOLEAN]

Stages ==
    [at : {"rest", "bytes", "deliver", "stopped"},
     then : {"none", "read", "tick", "request", "reply"}, w : BOOLEAN]

ReadsUpTo(q, g) == \A i \in DOMAIN q : q[i].kind = "read" => q[i].gen <= g
WritesUpTo(W, g) == W \in [Generations -> Nat] /\ \A h \in Generations : h > g => W[h] = 0
GemTypes == control_mode \in ControlModes /\ preferred_online_mode_ \in ControlModes

ServerTypes ==
    /\ ready \in Seq(Work) /\ out \in Outputs /\ io \in Stages /\ GemTypes
    /\ socket \in BOOLEAN /\ writing \in BOOLEAN
    /\ generation \in Nat /\ write_queue \in Seq(Nat)
    /\ reads \subseteq 0..generation
    /\ ReadsUpTo(ready, generation) /\ WritesUpTo(writes, generation)

GenerationBounded ==
    /\ generation \in Generations
    /\ socket => generation <= 2 * MaxConnections
    /\ io.at # "stopped" => generation <= 2 * MaxConnections + 1

\* The session and the socket agree, but for the end of an apply() that closes.
StagesFollowSession ==
    /\ io.at = "bytes" <=> call = "bytes"
    /\ io.at = "bytes" => io.then = "read" /\ ~out.close
    /\ io.at \in {"bytes", "deliver"} => socket
    /\ io.at = "deliver" => (out.close <=> state = "NotConnected")
    /\ io.at # "deliver" => (socket <=> state # "NotConnected")

ReadAt(q, g, i) == q[i].kind = "read" /\ q[i].gen = g
NoReadIn(q, g) == \A i \in DOMAIN q : ~ReadAt(q, g, i)
OneReadIn(q, g) == \E i \in DOMAIN q : \A j \in DOMAIN q : ReadAt(q, g, j) <=> j = i

\* Work for a connection other than g.
StaleAt(q, g, i) == q[i].kind \in {"request", "reply"} /\ q[i].of # g
NoStaleIn(q, g) == \A i \in DOMAIN q : ~StaleAt(q, g, i)
StaleBeforeRead(q, g) == \A i, j \in DOMAIN q : StaleAt(q, g, i) /\ ReadAt(q, g, j) => i < j

\* The read of the connection is in flight or has completed, or it is being handled.
ReadUnderWay ==
    IF socket /\ ~(io.at \in {"bytes", "deliver"} /\ io.then = "read")
    THEN \/ generation \in reads /\ NoReadIn(ready, generation)
         \/ generation \notin reads /\ OneReadIn(ready, generation)
    ELSE generation \notin reads /\ NoReadIn(ready, generation)

WriteUnderWay ==
    /\ writes[generation] = IF writing THEN 1 ELSE 0
    /\ writing => socket /\ write_queue # <<>>
    /\ write_queue # <<>> => writing \/ (io.at = "deliver" /\ out.close)

\* What was posted for an earlier connection is ahead of everything the host of this
\* one has sent, so it is gone before this host can have selected.
StaleWorkFirst ==
    /\ StaleBeforeRead(ready, generation)
    /\ state = "Selected" \/ io.at = "bytes" => NoStaleIn(ready, generation)

JustSent ==
    IF io.at = "deliver" /\ io.then = "request" /\ io.w /\ out.to_send # <<>>
    THEN {out.to_send[1].system} ELSE {}

\* No delivered reply and no reported timeout is of a request that is open.
AnswersClosed ==
    /\ \A i \in DOMAIN out.deliveries :
           out.deliveries[i].reply => out.deliveries[i].frame.system \notin Open
    /\ out.timed_out \intersect Open = {}

\* A request the session has just opened is known once on_sent runs.
RequestsKnown == Open \subseteq open_requests_ \union JustSent

ServerInv ==
    /\ LinkInv /\ ServerTypes /\ GenerationBounded /\ StagesFollowSession
    /\ ReadUnderWay /\ WriteUnderWay /\ StaleWorkFirst /\ MessagesStayInConnection /\ AnswersClosed /\ RequestsKnown

-----------------------------------------------------------------------------
(* What happens to the queue of ready handlers. *)

\* From q to r nothing about reads and stale work gets worse.
QueueKeeps(q, r, g) ==
    /\ r \in Seq(Work)
    /\ ReadsUpTo(q, g) => ReadsUpTo(r, g)
    /\ NoReadIn(q, g) => NoReadIn(r, g)
    /\ OneReadIn(q, g) => OneReadIn(r, g)
    /\ NoStaleIn(q, g) => NoStaleIn(r, g)
    /\ StaleBeforeRead(q, g) => StaleBeforeRead(r, g)

\* Work that the service posts for the connection g.
Posted(p, g) == p \in Seq(Work) /\ \A i \in DOMAIN p : p[i].kind # "read" /\ ~StaleAt(p, g, i)

LEMMA PostingKeeps ==
    ASSUME NEW q \in Seq(Work), NEW p, NEW g \in Nat, Posted(p, g)
    PROVE  QueueKeeps(q, q \o p, g)
<1> DEFINE r == q \o p
<1>1. /\ r \in Seq(Work) /\ Len(r) = Len(q) + Len(p)
      /\ \A i \in 1..Len(r) : r[i] = IF i <= Len(q) THEN q[i] ELSE p[i - Len(q)]
      /\ Len(q) \in Nat /\ Len(p) \in Nat
  BY ConcatOfSeqs DEF Posted
<1>2. DOMAIN q = 1..Len(q) /\ DOMAIN p = 1..Len(p) /\ DOMAIN r = 1..Len(r)
  BY <1>1 DEF Posted
<1> HIDE DEF r
<1>3. \A i \in DOMAIN r : \/ i \in DOMAIN q /\ r[i] = q[i]
                          \/ i \notin DOMAIN q /\ Len(q) < i /\ r[i].kind # "read" /\ ~StaleAt(r, g, i)
  <2> SUFFICES ASSUME NEW i \in DOMAIN r
               PROVE  \/ i \in DOMAIN q /\ r[i] = q[i]
                      \/ i \notin DOMAIN q /\ Len(q) < i /\ r[i].kind # "read" /\ ~StaleAt(r, g, i)
    OBVIOUS
  <2>1. CASE i <= Len(q)
    BY <1>1, <1>2, <2>1
  <2>2. CASE ~(i <= Len(q))
    <3>1. i - Len(q) \in DOMAIN p /\ r[i] = p[i - Len(q)] /\ Len(q) < i
      BY <1>1, <1>2, <2>2
    <3> QED
      BY <1>2, <2>2, <3>1 DEF Posted, StaleAt
  <2> QED
    BY <2>1, <2>2
<1>4. DOMAIN q \subseteq DOMAIN r /\ \A i \in DOMAIN q : r[i] = q[i]
  BY <1>1, <1>2
<1>5. ReadsUpTo(q, g) => ReadsUpTo(r, g)
  BY <1>3 DEF ReadsUpTo
<1>6. NoReadIn(q, g) => NoReadIn(r, g)
  BY <1>3 DEF NoReadIn, ReadAt
<1>7. OneReadIn(q, g) => OneReadIn(r, g)
  BY <1>3, <1>4 DEF OneReadIn, ReadAt
<1>8. NoStaleIn(q, g) => NoStaleIn(r, g)
  BY <1>3 DEF NoStaleIn, StaleAt
<1>9. StaleBeforeRead(q, g) => StaleBeforeRead(r, g)
  BY <1>3 DEF StaleBeforeRead, StaleAt, ReadAt
<1> QED
  BY <1>1, <1>5, <1>6, <1>7, <1>8, <1>9 DEF QueueKeeps, r

LEMMA TakingKeeps ==
    ASSUME NEW q \in Seq(Work), q # <<>>, NEW g \in Nat, ~ReadAt(q, g, 1)
    PROVE  QueueKeeps(q, Tail(q), g)
<1> DEFINE r == Tail(q)
<1>1. /\ r \in Seq(Work) /\ Len(q) \in Nat /\ Len(q) >= 1 /\ Len(r) = Len(q) - 1
      /\ \A i \in 1..Len(r) : r[i] = q[i + 1]
  BY TailOfSeq
<1>2. DOMAIN q = 1..Len(q) /\ DOMAIN r = 1..Len(r)
  BY <1>1
<1> HIDE DEF r
<1>3. \A i \in DOMAIN r : i \in Int /\ i + 1 \in DOMAIN q /\ r[i] = q[i + 1]
  BY <1>1, <1>2
<1>4. \A i \in DOMAIN q : i = 1 \/ (i - 1 \in DOMAIN r /\ i \in Int)
  BY <1>1, <1>2
<1>5. ReadsUpTo(q, g) => ReadsUpTo(r, g)
  BY <1>3 DEF ReadsUpTo
<1>6. NoReadIn(q, g) => NoReadIn(r, g)
  BY <1>3 DEF NoReadIn, ReadAt
<1>7. OneReadIn(q, g) => OneReadIn(r, g)
  <2> SUFFICES ASSUME OneReadIn(q, g) PROVE OneReadIn(r, g)
    OBVIOUS
  <2>1. PICK i \in DOMAIN q : \A j \in DOMAIN q : ReadAt(q, g, j) <=> j = i
    BY DEF OneReadIn
  <2>2. i # 1
    BY <2>1
  <2>3. i - 1 \in DOMAIN r /\ i \in Int
    BY <1>4, <2>2
  <2>4. \A j \in DOMAIN r : ReadAt(r, g, j) <=> j = i - 1
    BY <1>3, <2>1, <2>3 DEF ReadAt
  <2> QED
    BY <2>3, <2>4 DEF OneReadIn
<1>8. NoStaleIn(q, g) => NoStaleIn(r, g)
  BY <1>3 DEF NoStaleIn, StaleAt
<1>9. StaleBeforeRead(q, g) => StaleBeforeRead(r, g)
  <2> SUFFICES ASSUME StaleBeforeRead(q, g), NEW i \in DOMAIN r, NEW j \in DOMAIN r,
                      StaleAt(r, g, i), ReadAt(r, g, j)
               PROVE  i < j
    BY DEF StaleBeforeRead
  <2>1. i + 1 < j + 1
    BY <1>3 DEF StaleBeforeRead, StaleAt, ReadAt
  <2> QED
    BY <1>3, <2>1
<1> QED
  BY <1>1, <1>5, <1>6, <1>7, <1>8, <1>9 DEF QueueKeeps, r

\* The read of the connection is taken: it was the only one, and nothing stale is behind it.
LEMMA TakingRead ==
    ASSUME NEW q \in Seq(Work), q # <<>>, NEW g \in Nat, ReadAt(q, g, 1)
    PROVE  /\ Tail(q) \in Seq(Work) /\ ~NoReadIn(q, g)
           /\ ReadsUpTo(q, g) => ReadsUpTo(Tail(q), g)
           /\ OneReadIn(q, g) => NoReadIn(Tail(q), g)
           /\ StaleBeforeRead(q, g) => NoStaleIn(Tail(q), g)
<1> DEFINE r == Tail(q)
<1>1. /\ r \in Seq(Work) /\ Len(q) \in Nat /\ Len(q) >= 1 /\ Len(r) = Len(q) - 1
      /\ \A i \in 1..Len(r) : r[i] = q[i + 1]
  BY TailOfSeq
<1>2. DOMAIN q = 1..Len(q) /\ DOMAIN r = 1..Len(r)
  BY <1>1
<1> HIDE DEF r
<1>3. \A i \in DOMAIN r : i \in Nat /\ i # 0 /\ i + 1 \in DOMAIN q /\ r[i] = q[i + 1] /\ i + 1 # 1
  BY <1>1, <1>2
<1>4. 1 \in DOMAIN q
  BY <1>1, <1>2
<1>5. ReadsUpTo(q, g) => ReadsUpTo(r, g)
  BY <1>3 DEF ReadsUpTo
<1>6. OneReadIn(q, g) => NoReadIn(r, g)
  BY <1>3, <1>4 DEF OneReadIn, NoReadIn, ReadAt
<1>7. StaleBeforeRead(q, g) => NoStaleIn(r, g)
  <2> SUFFICES ASSUME StaleBeforeRead(q, g), NEW i \in DOMAIN r, StaleAt(r, g, i) PROVE FALSE
    BY DEF NoStaleIn
  <2>1. i + 1 < 1
    BY <1>3, <1>4 DEF StaleBeforeRead, StaleAt, ReadAt
  <2> QED
    BY <1>3, <2>1
<1> QED
  BY <1>1, <1>4, <1>5, <1>6, <1>7 DEF r, NoReadIn

\* A read completes.
LEMMA CompletingKeeps ==
    ASSUME NEW q \in Seq(Work), NEW g \in Nat, NEW x \in Work, x.kind = "read", x.gen <= g
    PROVE  /\ Append(q, x) \in Seq(Work)
           /\ ReadsUpTo(q, g) => ReadsUpTo(Append(q, x), g)
           /\ NoReadIn(q, g) => IF x.gen = g THEN OneReadIn(Append(q, x), g)
                                ELSE NoReadIn(Append(q, x), g)
           /\ OneReadIn(q, g) /\ x.gen # g => OneReadIn(Append(q, x), g)
           /\ NoStaleIn(q, g) => NoStaleIn(Append(q, x), g)
           /\ StaleBeforeRead(q, g) => StaleBeforeRead(Append(q, x), g)
<1> DEFINE r == Append(q, x)
<1>1. /\ r \in Seq(Work) /\ Len(q) \in Nat /\ Len(r) = Len(q) + 1
      /\ \A i \in 1..Len(q) : r[i] = q[i]
      /\ r[Len(q) + 1] = x
  BY AppendToSeq
<1>2. DOMAIN q = 1..Len(q) /\ DOMAIN r = 1..Len(r)
  BY <1>1
<1> HIDE DEF r
<1>3. \A i \in DOMAIN r : i \in Nat /\ \/ i \in DOMAIN q /\ r[i] = q[i] /\ i < Len(q) + 1
                                       \/ i = Len(q) + 1 /\ r[i] = x /\ i \notin DOMAIN q
  BY <1>1, <1>2
<1>4. Len(q) + 1 \in DOMAIN r /\ Len(q) + 1 \notin DOMAIN q /\ DOMAIN q \subseteq DOMAIN r
  BY <1>1, <1>2
<1>5. ReadsUpTo(q, g) => ReadsUpTo(r, g)
  BY <1>3 DEF ReadsUpTo
<1>6. NoReadIn(q, g) /\ x.gen = g => OneReadIn(r, g)
  BY <1>1, <1>3, <1>4, SMTT(20) DEF NoReadIn, OneReadIn, ReadAt
<1>7. NoReadIn(q, g) /\ x.gen # g => NoReadIn(r, g)
  BY <1>3 DEF NoReadIn, ReadAt
<1>8. OneReadIn(q, g) /\ x.gen # g => OneReadIn(r, g)
  <2> SUFFICES ASSUME OneReadIn(q, g), x.gen # g PROVE OneReadIn(r, g)
    OBVIOUS
  <2>1. PICK i \in DOMAIN q : \A j \in DOMAIN q : ReadAt(q, g, j) <=> j = i
    BY DEF OneReadIn
  <2>2. \A j \in DOMAIN r : ReadAt(r, g, j) <=> j = i
    BY <1>3, <2>1 DEF ReadAt
  <2> QED
    BY <1>4, <2>1, <2>2 DEF OneReadIn
<1>9. NoStaleIn(q, g) => NoStaleIn(r, g)
  BY <1>3 DEF NoStaleIn, StaleAt
<1>10. StaleBeforeRead(q, g) => StaleBeforeRead(r, g)
  <2> SUFFICES ASSUME StaleBeforeRead(q, g), NEW i \in DOMAIN r, NEW j \in DOMAIN r,
                      StaleAt(r, g, i), ReadAt(r, g, j)
               PROVE  i < j
    BY DEF StaleBeforeRead
  <2>1. i \in DOMAIN q /\ r[i] = q[i] /\ i < Len(q) + 1
    BY <1>3 DEF StaleAt
  <2> QED
    BY <1>3, <2>1 DEF StaleBeforeRead, StaleAt, ReadAt
<1> QED
  BY <1>1, <1>5, <1>6, <1>7, <1>8, <1>9, <1>10 DEF r

\* To a connection that has just begun all that is left of earlier ones is old.
LEMMA NewConnectionQueue ==
    ASSUME NEW q \in Seq(Work), NEW g \in Nat, ReadsUpTo(q, g)
    PROVE  ReadsUpTo(q, g + 1) /\ NoReadIn(q, g + 1) /\ StaleBeforeRead(q, g + 1)
<1>1. \A i \in DOMAIN q : q[i] \in Work /\ (q[i].kind = "read" => q[i].gen \in Nat)
  <2>1. \A i \in DOMAIN q : q[i] \in Work
    OBVIOUS
  <2>2. \A x \in Work : x.kind = "read" => x.gen \in Nat
    BY DEF Work
  <2> QED
    BY <2>1, <2>2
<1>2. \A i \in DOMAIN q : ~ReadAt(q, g + 1, i)
  BY <1>1 DEF ReadsUpTo, ReadAt
<1>3. ReadsUpTo(q, g + 1)
  BY <1>1 DEF ReadsUpTo
<1> QED
  BY <1>2, <1>3 DEF NoReadIn, StaleBeforeRead

-----------------------------------------------------------------------------
(* The writes in flight. *)


LEMMA WriteBegins ==
    ASSUME NEW g \in Generations, NEW W, WritesUpTo(W, g)
    PROVE  WritesUpTo([W EXCEPT ![g] = @ + 1], g) /\ [W EXCEPT ![g] = @ + 1][g] = W[g] + 1
  BY DEF WritesUpTo, Generations

LEMMA WriteEnds ==
    ASSUME NEW g \in Generations, NEW W, WritesUpTo(W, g), NEW h \in Generations, W[h] > 0
    PROVE  /\ WritesUpTo([W EXCEPT ![h] = @ - 1], g)
           /\ [W EXCEPT ![h] = @ - 1][g] = IF h = g THEN W[g] - 1 ELSE W[g]
  BY DEF WritesUpTo, Generations

LEMMA NewConnectionWrites ==
    ASSUME NEW W, NEW g \in Generations, g + 1 \in Generations, WritesUpTo(W, g)
    PROVE  WritesUpTo(W, g + 1) /\ W[g + 1] = 0
  BY DEF WritesUpTo, Generations

LEMMA NoneInFlight == \A g \in Generations : WritesUpTo(NoWrites, g) /\ NoWrites[g] = 0
  BY DEF WritesUpTo, NoWrites

-----------------------------------------------------------------------------
(* What the session's calls return. *)

LEMMA NoOutputIs ==
    /\ NoOutput \in Outputs /\ [NoOutput EXCEPT !.close = TRUE] \in Outputs
    /\ NoOutput.to_send = <<>> /\ NoOutput.deliveries = <<>> /\ NoOutput.timed_out = {} /\ ~NoOutput.close
<1>1. <<>> \in Seq(Sent) /\ <<>> \in Seq(Deliveries)
  BY EmptyIsSeq
<1> QED
  BY <1>1 DEF NoOutput, Outputs

LEMMA OneControl ==
    ASSUME NEW t \in STypes, NEW n \in Systems \union HostSystems, NEW o \in Outputs
    PROVE  /\ <<Control(t, n)>> # <<>> /\ <<Control(t, n)>>[1].system = n
           /\ [o EXCEPT !.to_send = <<Control(t, n)>>] \in Outputs
<1>1. Control(t, n) \in Sent /\ Control(t, n).system = n
  BY DEF Control, Sent
<1>2. <<Control(t, n)>> \in Seq(Sent)
  BY <1>1
<1> QED
  BY <1>1, <1>2 DEF Outputs

LEMMA SendsOne ==
    ASSUME out \in Outputs, NEW t \in STypes, NEW n \in Systems \union HostSystems, Sends(t, n)
    PROVE  /\ out' \in Outputs /\ out'.deliveries = out.deliveries
           /\ out'.timed_out = out.timed_out /\ out'.close = out.close
<1>1. Control(t, n) \in Sent
  BY DEF Control, Sent
<1>2. out.to_send \in Seq(Sent)
  BY DEF Outputs
<1>3. Append(out.to_send, Control(t, n)) \in Seq(Sent)
  BY <1>1, <1>2, AppendToSeq
<1> QED
  BY <1>3 DEF Sends, Outputs

LEMMA FrameEffect ==
    ASSUME LinkInv, out \in Outputs, ~out.close, AnswersClosed, NEW f \in HostFrames, handle_frame(f)
    PROVE  /\ out' \in Outputs /\ Open' \subseteq Open /\ AnswersClosed'
           /\ call' \in {"bytes", "none"}
           /\ call' = "bytes" => ~out'.close /\ state' # "NotConnected"
           /\ call' = "none" => out'.close /\ state' = "NotConnected"
<1>1. f.system \in Systems \union HostSystems
  BY DEF HostSystems
<1>2. transactions_ \in [Systems -> Timer(T3)] /\ state # "NotConnected"
  BY DEF LinkInv, SessionTypeOK, LinkDuringCall, handle_frame
<1>3. call' = IF f.stype = "SeparateReq" THEN "none" ELSE "bytes"
  BY DEF handle_frame
<1>4. ASSUME Open' \subseteq Open, out'.deliveries = out.deliveries, out'.timed_out = out.timed_out
      PROVE  AnswersClosed'
  BY <1>4 DEF AnswersClosed
<1>5. CASE RejectsFrame(f) \/ AnswersLinktest(f)
  <2>1. out' \in Outputs /\ out'.deliveries = out.deliveries
        /\ out'.timed_out = out.timed_out /\ out'.close = out.close
    BY <1>1, <1>5, SendsOne DEF RejectsFrame, AnswersLinktest, STypes
  <2>2. Open' = Open /\ state' = state
    BY <1>5 DEF RejectsFrame, AnswersLinktest, Open
  <2>3. f.stype # "SeparateReq"
    BY <1>5 DEF RejectsFrame, Rejected, AnswersLinktest
  <2> QED
    BY <1>2, <1>3, <1>4, <2>1, <2>2, <2>3
<1>6. CASE TakesData(f)
  <2> DEFINE answers == ~f.primary /\ f.system \in Open
             d == [frame |-> f, reply |-> answers]
  <2>1. /\ f.stype = "Data" /\ state' = state
        /\ transactions_' = IF answers THEN [transactions_ EXCEPT ![f.system] = Stopped]
                            ELSE transactions_
        /\ out' = [out EXCEPT !.deliveries = Append(@, d)]
    BY <1>6 DEF TakesData
  <2>2. d \in Deliveries /\ d.frame = f /\ d.reply = answers
    BY DEF Deliveries
  <2> HIDE DEF d
  <2>3. out.deliveries \in Seq(Deliveries)
    BY DEF Outputs
  <2>4. /\ Append(out.deliveries, d) \in Seq(Deliveries)
        /\ \A i \in DOMAIN Append(out.deliveries, d) :
               \/ i \in DOMAIN out.deliveries /\ Append(out.deliveries, d)[i] = out.deliveries[i]
               \/ Append(out.deliveries, d)[i] = d
    <3>1. /\ Append(out.deliveries, d) \in Seq(Deliveries) /\ Len(out.deliveries) \in Nat
          /\ Len(Append(out.deliveries, d)) = Len(out.deliveries) + 1
          /\ \A i \in 1..Len(out.deliveries) : Append(out.deliveries, d)[i] = out.deliveries[i]
          /\ Append(out.deliveries, d)[Len(out.deliveries) + 1] = d
      BY <2>2, <2>3, AppendToSeq
    <3>2. /\ DOMAIN Append(out.deliveries, d) = 1..Len(Append(out.deliveries, d))
          /\ DOMAIN out.deliveries = 1..Len(out.deliveries)
      BY <2>3, <3>1
    <3> QED
      BY <3>1, <3>2
  <2>5. /\ out' \in Outputs /\ out'.deliveries = Append(out.deliveries, d)
        /\ out'.timed_out = out.timed_out /\ out'.close = out.close
    BY <2>1, <2>4 DEF Outputs
  <2>6. Open' \subseteq Open /\ (answers => f.system \notin Open')
    <3>1. CASE answers
      <4>1. f.system \in Systems
        BY <3>1 DEF Open
      <4> QED
        BY <1>2, <2>1, <3>1, <4>1, TableErases
    <3>2. CASE ~answers
      BY <2>1, <3>2 DEF Open
    <3> QED
      BY <3>1, <3>2
  <2>7. AnswersClosed'
    <3>1. \A i \in DOMAIN out'.deliveries :
              out'.deliveries[i].reply => out'.deliveries[i].frame.system \notin Open'
      BY <2>2, <2>4, <2>5, <2>6 DEF AnswersClosed
    <3>2. out'.timed_out \intersect Open' = {}
      BY <2>5, <2>6 DEF AnswersClosed
    <3> QED
      BY <3>1, <3>2 DEF AnswersClosed
  <2> QED
    BY <1>2, <1>3, <2>1, <2>5, <2>6, <2>7
<1>7. CASE TakesSelect(f) \/ TakesDeselect(f)
  <2>1. out' \in Outputs /\ out'.deliveries = out.deliveries
        /\ out'.timed_out = out.timed_out /\ out'.close = out.close
    BY <1>1, <1>7, SendsOne DEF TakesSelect, TakesDeselect, STypes
  <2>2. Open' \subseteq Open
    BY <1>7, TableClears DEF TakesSelect, TakesDeselect, Open
  <2>3. f.stype # "SeparateReq" /\ state' # "NotConnected"
    BY <1>7 DEF TakesSelect, TakesDeselect
  <2> QED
    BY <1>3, <1>4, <2>1, <2>2, <2>3
<1>8. CASE TakesLinktestRsp(f) \/ TakesReject(f)
  <2>1. out' = out /\ state' = state /\ f.stype # "SeparateReq"
    BY <1>8 DEF TakesLinktestRsp, TakesReject
  <2>2. Open' \subseteq Open
    <3>1. CASE TakesReject(f) /\ f.system \in Open
      <4>1. f.system \in Systems /\ transactions_' = [transactions_ EXCEPT ![f.system] = Stopped]
        BY <3>1 DEF TakesReject, Open
      <4> QED
        BY <1>2, <4>1, TableErases
    <3>2. CASE ~(TakesReject(f) /\ f.system \in Open)
      BY <1>8, <3>2 DEF TakesLinktestRsp, TakesReject, Open
    <3> QED
      BY <3>1, <3>2
  <2> QED
    BY <1>2, <1>3, <1>4, <2>1, <2>2
<1>9. CASE TakesSeparate(f)
  <2>1. f.stype = "SeparateReq" /\ state' = "NotConnected" /\ transactions_' = Closed
        /\ out' = [out EXCEPT !.close = TRUE]
    BY <1>9 DEF TakesSeparate, close_connection, Disconnects, reset_link_state
  <2>2. /\ out' \in Outputs /\ out'.deliveries = out.deliveries
        /\ out'.timed_out = out.timed_out /\ out'.close
    BY <2>1 DEF Outputs
  <2>3. Open' = {}
    BY <2>1, TableClears
  <2> QED
    BY <1>3, <1>4, <2>1, <2>2, <2>3
<1> QED
  BY <1>5, <1>6, <1>7, <1>8, <1>9 DEF handle_frame

LEMMA TickEffect ==
    ASSUME LinkInv, TickCloses \/ TickGoesOn
    PROVE  /\ out' \in Outputs /\ Open' \subseteq Open /\ AnswersClosed' /\ call' = "none"
           /\ out'.close <=> state' = "NotConnected"
           /\ state' = "Selected" => state = "Selected"
<1>1. CASE TickCloses
  <2>1. /\ state' = "NotConnected" /\ transactions_' = Closed /\ call' = "none"
        /\ out' = [NoOutput EXCEPT !.close = TRUE]
    BY <1>1 DEF TickCloses, Disconnects, reset_link_state
  <2>2. out' \in Outputs /\ out'.close /\ out'.deliveries = <<>> /\ out'.timed_out = {}
    BY <2>1, NoOutputIs DEF NoOutput
  <2>3. Open' = {}
    BY <2>1, TableClears
  <2> QED
    BY <2>1, <2>2, <2>3 DEF AnswersClosed
<1>2. CASE TickGoesOn
  <2> DEFINE expired == {s \in Open : transactions_[s] = 0}
             report == [NoOutput EXCEPT !.timed_out = expired]
  <2>1. /\ state' = state /\ state # "NotConnected" /\ call' = "none"
        /\ transactions_' = [s \in Systems |-> IF s \in expired THEN Stopped ELSE transactions_[s]]
        /\ \/ \E s \in Systems : out' = [report EXCEPT !.to_send = <<Control("LinktestReq", s)>>]
           \/ out' = report
    BY <1>2 DEF TickGoesOn
  <2>2. expired \subseteq Systems
    BY DEF Open
  <2>3. Open' = Open \ expired
    BY <2>1, TableForgets DEF LinkInv, SessionTypeOK
  <2> HIDE DEF expired
  <2>4. /\ report \in Outputs /\ ~report.close /\ report.deliveries = <<>>
        /\ report.timed_out = expired
    BY <2>2, NoOutputIs DEF NoOutput, Outputs
  <2>5. out' \in Outputs /\ ~out'.close /\ out'.deliveries = <<>> /\ out'.timed_out = expired
    <3>1. CASE out' = report
      BY <3>1, <2>4
    <3>2. ASSUME NEW s \in Systems, out' = [report EXCEPT !.to_send = <<Control("LinktestReq", s)>>]
          PROVE  out' \in Outputs /\ ~out'.close /\ out'.deliveries = <<>> /\ out'.timed_out = expired
      <4>1. out' \in Outputs
        BY <2>4, <3>2, OneControl DEF STypes
      <4>2. ~out'.close /\ out'.deliveries = <<>> /\ out'.timed_out = expired
        BY <2>4, <3>2 DEF Outputs
      <4> QED
        BY <4>1, <4>2
    <3> QED
      BY <2>1, <3>1, <3>2
  <2>6. AnswersClosed'
    BY <2>3, <2>5 DEF AnswersClosed
  <2>7. Open' \subseteq Open
    BY <2>3
  <2> QED
    BY <2>1, <2>5, <2>6, <2>7
<1> QED
  BY <1>1, <1>2

\* send_request() sends only when selected; the number of a request that is to be answered
\* is that of the first frame.
LEMMA RequestEffect ==
    ASSUME LinkInv, NEW w \in BOOLEAN, NEW fits \in BOOLEAN, send_request(w, fits)
    PROVE  /\ out' \in Outputs /\ ~out'.close /\ out'.deliveries = <<>> /\ out'.timed_out = {}
           /\ state' = state /\ call' = "none" /\ call = "none"
           /\ state # "Selected" => out'.to_send = <<>>
           /\ \/ Open' \subseteq Open
              \/ w /\ out'.to_send # <<>> /\ Open' \subseteq Open \union {out'.to_send[1].system}
<1>1. state' = state /\ call' = "none" /\ call = "none"
  BY DEF send_request
<1>2. CASE out' = NoOutput /\ transactions_' = transactions_
  BY <1>1, <1>2, NoOutputIs DEF Open
<1>3. ASSUME NEW s \in Systems, state = "Selected",
             out' = [NoOutput EXCEPT !.to_send = <<Control("Data", s)>>],
             transactions_' = IF w THEN [transactions_ EXCEPT ![s] = T3] ELSE transactions_
      PROVE  /\ out' \in Outputs /\ ~out'.close /\ out'.deliveries = <<>> /\ out'.timed_out = {}
             /\ \/ Open' \subseteq Open
                \/ w /\ out'.to_send # <<>> /\ Open' \subseteq Open \union {out'.to_send[1].system}
  <2>1. out' \in Outputs /\ <<Control("Data", s)>> # <<>> /\ <<Control("Data", s)>>[1].system = s
    BY <1>3, OneControl, NoOutputIs DEF STypes
  <2>2. /\ ~out'.close /\ out'.deliveries = <<>> /\ out'.timed_out = {}
        /\ out'.to_send = <<Control("Data", s)>>
    BY <1>3 DEF NoOutput
  <2>3. CASE w
    <3>1. Open' = Open \union {s}
      BY <1>3, <2>3, TableAdds DEF LinkInv, SessionTypeOK
    <3> QED
      BY <2>1, <2>2, <2>3, <3>1
  <2>4. CASE ~w
    BY <1>3, <2>1, <2>2, <2>4 DEF Open
  <2> QED
    BY <2>3, <2>4
<1>4. \/ out' = NoOutput /\ transactions_' = transactions_
      \/ /\ state = "Selected"
         /\ \E s \in Systems :
                /\ out' = [NoOutput EXCEPT !.to_send = <<Control("Data", s)>>]
                /\ transactions_' = IF w THEN [transactions_ EXCEPT ![s] = T3] ELSE transactions_
  BY DEF send_request
<1> QED
  BY <1>1, <1>2, <1>3, <1>4

LEMMA ReplyEffect ==
    ASSUME LinkInv, NEW n \in HostSystems, NEW fits \in BOOLEAN, send_reply(n, fits)
    PROVE  /\ out' \in Outputs /\ ~out'.close /\ out'.deliveries = <<>> /\ out'.timed_out = {}
           /\ state' = state /\ call' = "none" /\ call = "none" /\ Open' = Open /\ LinkInv'
           /\ state # "Selected" => out'.to_send = <<>>
<1>1. /\ state' = state /\ call' = "none" /\ call = "none"
      /\ \/ out' = NoOutput
         \/ state = "Selected" /\ out' = [NoOutput EXCEPT !.to_send = <<Control("Data", n)>>]
  BY DEF send_reply
<1>2. Open' = Open
  BY DEF send_reply, Open
<1>3. LinkInv'
  BY LinkUnchanged DEF send_reply, linkVars
<1>4. CASE out' = NoOutput
  BY <1>1, <1>2, <1>3, <1>4, NoOutputIs
<1>5. CASE state = "Selected" /\ out' = [NoOutput EXCEPT !.to_send = <<Control("Data", n)>>]
  <2>1. out' \in Outputs
    BY <1>5, OneControl, NoOutputIs DEF STypes
  <2>2. ~out'.close /\ out'.deliveries = <<>> /\ out'.timed_out = {}
    BY <1>5 DEF NoOutput
  <2> QED
    BY <1>1, <1>2, <1>3, <1>5, <2>1, <2>2
<1> QED
  BY <1>1, <1>4, <1>5

-----------------------------------------------------------------------------
(* What the service posts. *)

LEMMA PostedOne ==
    ASSUME NEW x \in Work, NEW g, x.kind # "read", x.kind \in {"request", "reply"} => x.of = g
    PROVE  Posted(<<x>>, g)
<1>1. <<x>> \in Seq(Work) /\ DOMAIN <<x>> = {1} /\ <<x>>[1] = x
  OBVIOUS
<1> QED
  BY <1>1 DEF Posted, StaleAt

LEMMA PostedNone == \A g : Posted(<<>>, g)
<1>1. <<>> \in Seq(Work) /\ DOMAIN <<>> = {}
  BY EmptyIsSeq
<1> QED
  BY <1>1 DEF Posted

LEMMA RequestPosted == \A w \in BOOLEAN, g \in Nat : Request(w, g) \in Work /\ Posted(<<Request(w, g)>>, g)
<1> SUFFICES ASSUME NEW w \in BOOLEAN, NEW g \in Nat
             PROVE  Request(w, g) \in Work /\ Posted(<<Request(w, g)>>, g)
  OBVIOUS
<1>1. Request(w, g) \in Work /\ Request(w, g).kind = "request" /\ Request(w, g).of = g
  BY DEF Request, Work
<1> QED
  BY <1>1, PostedOne

LEMMA ReplyPosted == \A f \in HostFrames, g \in Nat : Posted(Reply(f, g), g)
<1> SUFFICES ASSUME NEW f \in HostFrames, NEW g \in Nat PROVE Posted(Reply(f, g), g)
  OBVIOUS
<1> DEFINE x == [kind |-> "reply", system |-> f.system, of |-> g]
<1>1. x \in Work /\ x.kind = "reply" /\ x.of = g
  BY DEF Work, HostSystems
<1>2. Posted(<<x>>, g)
  BY <1>1, PostedOne
<1> QED
  BY <1>2, PostedNone DEF Reply

LEMMA TaskPosted ==
    ASSUME NEW n \in 1..2, NEW m \in ControlModes \union {"none"}, NEW g
    PROVE  /\ [kind |-> "task", reports |-> n, mode |-> m] \in Work
           /\ Posted(<<[kind |-> "task", reports |-> n, mode |-> m]>>, g)
<1> DEFINE x == [kind |-> "task", reports |-> n, mode |-> m]
<1>1. x \in Work /\ x.kind = "task"
  BY DEF Work
<1> QED
  BY <1>1, PostedOne

LEMMA AppendIsPosting == \A q \in Seq(Work), x \in Work : Append(q, x) = q \o <<x>>
  OBVIOUS

LEMMA KeepsChain ==
    ASSUME NEW q, NEW r, NEW t, NEW g, QueueKeeps(q, r, g), QueueKeeps(r, t, g)
    PROVE  QueueKeeps(q, t, g)
  BY DEF QueueKeeps

LEMMA KeepsSelf ==
    ASSUME NEW q \in Seq(Work), NEW g PROVE QueueKeeps(q, q, g)
  BY DEF QueueKeeps

\* A delivered message: only its own work is posted, and only an answered request is forgotten.
LEMMA DataEffect ==
    ASSUME ready \in Seq(Work), generation \in Nat, GemTypes,
           NEW d \in Deliveries, on_data(d, generation)
    PROVE  /\ QueueKeeps(ready, ready', generation) /\ GemTypes'
           /\ \/ open_requests_' = open_requests_
              \/ d.reply /\ open_requests_' = open_requests_ \ {d.frame.system}
<1>1. d.frame \in HostFrames
  BY DEF Deliveries
<1>2. QueueKeeps(ready, ready \o Reply(d.frame, generation), generation)
  BY <1>1, ReplyPosted, PostingKeeps
<1>3. ASSUME NEW m \in ControlModes
      PROVE  QueueKeeps(ready, Append(ready, ModeChanged(m)) \o Reply(d.frame, generation), generation)
  <2>1. ModeChanged(m) \in Work
    <3>1. 1 \in 1..2 /\ m \in ControlModes \union {"none"}
      OBVIOUS
    <3> QED
      BY <3>1, TaskPosted DEF ModeChanged
  <2>2. Append(ready, ModeChanged(m)) = ready \o <<ModeChanged(m)>>
    BY <2>1, AppendIsPosting
  <2>3. QueueKeeps(ready, Append(ready, ModeChanged(m)), generation)
    <3>1. 1 \in 1..2 /\ m \in ControlModes \union {"none"}
      OBVIOUS
    <3>2. Posted(<<ModeChanged(m)>>, generation)
      BY <3>1, TaskPosted DEF ModeChanged
    <3> QED
      BY <2>2, <3>2, PostingKeeps
  <2>4. Append(ready, ModeChanged(m)) \in Seq(Work)
    BY <2>3 DEF QueueKeeps
  <2>5. QueueKeeps(Append(ready, ModeChanged(m)),
                   Append(ready, ModeChanged(m)) \o Reply(d.frame, generation), generation)
    BY <1>1, <2>4, ReplyPosted, PostingKeeps
  <2> QED
    BY <2>3, <2>5, KeepsChain
<1>4. CASE TakesReply(d)
  BY <1>4, KeepsSelf DEF TakesReply, GemTypes
<1>5. CASE TakesFaulty(d, generation)
  <2>1. ready' = ready \o <<Request(FALSE, generation)>> /\ UNCHANGED gemVars
    BY <1>5, RequestPosted, AppendIsPosting DEF TakesFaulty
  <2>2. QueueKeeps(ready, ready', generation)
    BY <2>1, RequestPosted, PostingKeeps
  <2> QED
    BY <2>1, <2>2 DEF gemVars, GemTypes
<1>6. CASE TakesEstablish(d, generation)
  BY <1>2, <1>6 DEF TakesEstablish, GemTypes
<1>7. CASE TakesQuery(d, generation)
  BY <1>2, <1>7 DEF TakesQuery, gemVars, GemTypes
<1>8. CASE IgnoresStray(d)
  BY <1>8, KeepsSelf DEF IgnoresStray, gemVars, GemTypes
<1>9. CASE handle_offline_request(d, generation)
  <2>1. "Offline" \in ControlModes
    BY DEF ControlModes
  <2> QED
    BY <1>3, <1>9, <2>1 DEF handle_offline_request, GemTypes
<1>10. CASE handle_online_request(d, generation)
  BY <1>2, <1>3, <1>10 DEF handle_online_request, GemTypes
<1> QED
  BY <1>4, <1>5, <1>6, <1>7, <1>8, <1>9, <1>10 DEF on_data

\* A posted event runs: its reports are for the connection there is now.
LEMMA TaskEffect ==
    ASSUME ready \in Seq(Work), ready # <<>>, Head(ready).kind = "task",
           generation \in Nat, GemTypes, RunsTask(Head(ready), generation)
    PROVE  QueueKeeps(ready, ready', generation) /\ GemTypes' /\ open_requests_' = open_requests_
<1> DEFINE task == Head(ready)
           reports == [i \in 1..task.reports |-> Request(TRUE, generation)]
<1>1. task = ready[1] /\ task \in Work /\ Tail(ready) \in Seq(Work)
  BY TailOfSeq
<1>2. task.reports \in 1..2
  BY <1>1 DEF Work
<1>3. ~ReadAt(ready, generation, 1)
  BY <1>1 DEF ReadAt
<1>4. QueueKeeps(ready, Tail(ready), generation)
  BY <1>3, TakingKeeps
<1> HIDE DEF task
<1>5. Posted(reports, generation)
  <2>1. DOMAIN reports = 1..task.reports /\ \A i \in DOMAIN reports : reports[i] = Request(TRUE, generation)
    OBVIOUS
  <2>2. reports \in Seq(Work)
    <3>1. reports \in [1..task.reports -> Work]
      BY RequestPosted
    <3>2. task.reports \in Nat
      BY <1>2
    <3>3. \E n \in Nat : reports \in [1..n -> Work]
      BY <3>1, <3>2
    <3> HIDE DEF reports
    <3> QED
      BY <3>3, FunctionIsSeq
  <2>3. Request(TRUE, generation).kind = "request" /\ Request(TRUE, generation).of = generation
    BY DEF Request
  <2> QED
    BY <2>1, <2>2, <2>3 DEF Posted, StaleAt
<1>6. QueueKeeps(Tail(ready), ready', generation)
  BY <1>1, <1>5, PostedNone, PostingKeeps DEF RunsTask, task
<1>7. QueueKeeps(ready, ready', generation)
  BY <1>4, <1>6, KeepsChain
<1> QED
  BY <1>7 DEF RunsTask, GemTypes, ControlModes

\* notify_state() and on_session_state() change the open requests only to wipe them out, and
\* not when the session is selected.
LEMMA NotifyEffect ==
    ASSUME GemTypes, NEW now, notify_state(now)
    PROVE  GemTypes' /\ (now = "Selected" => open_requests_' = open_requests_)
  BY DEF notify_state, on_session_state, gemVars, GemTypes

-----------------------------------------------------------------------------
(* apply() up to its deliveries. *)

LEMMA AppliesEffect ==
    ASSUME ServerTypes, generation \in Generations, WriteUnderWay, MessagesStayInConnection,
           socket, io.at # "deliver",
           out' \in Outputs, generation' = generation, socket' = socket,
           NEW of, NEW then, NEW w, of = generation \/ out'.to_send = <<>>,
           Applies(of, then, w)
    PROVE  /\ write_queue' \in Seq(Nat) /\ writing' \in BOOLEAN
           /\ WritesUpTo(writes', generation) /\ MessagesStayInConnection'
           /\ io' = [at |-> "deliver", then |-> then, w |-> w]
           /\ WriteUnderWay'
<1> DEFINE more == [i \in DOMAIN out'.to_send |-> of]
<1>1. /\ write_queue' = write_queue \o more
      /\ IF ~out'.close /\ write_queue' # <<>> /\ ~writing
         THEN /\ writing' = TRUE /\ writes' = [writes EXCEPT ![generation] = @ + 1]
         ELSE UNCHANGED <<writing, writes>>
      /\ io' = [at |-> "deliver", then |-> then, w |-> w]
  BY DEF Applies, write_next
<1>2. out'.to_send \in Seq(Sent)
  BY DEF Outputs
<1>3. more \in Seq(Nat) /\ \A i \in DOMAIN more : more[i] = generation
  <2>1. CASE out'.to_send = <<>>
    BY <2>1
  <2>2. CASE of = generation
    <3>1. more \in [1..Len(out'.to_send) -> Nat]
      BY <1>2, <2>2 DEF ServerTypes
    <3>2. Len(out'.to_send) \in Nat
      BY <1>2
    <3> QED
      BY <2>2, <3>1, <3>2, FunctionIsSeq
  <2> QED
    BY <2>1, <2>2
<1> HIDE DEF more
<1>4. write_queue \in Seq(Nat) /\ generation \in Nat /\ writing \in BOOLEAN
      /\ WritesUpTo(writes, generation)
  BY DEF ServerTypes
<1>5. /\ write_queue' \in Seq(Nat) /\ Len(write_queue') = Len(write_queue) + Len(more)
      /\ \A i \in 1..Len(write_queue') :
             write_queue'[i] = IF i <= Len(write_queue) THEN write_queue[i] ELSE more[i - Len(write_queue)]
  BY <1>1, <1>3, <1>4, ConcatOfSeqs
<1>6. /\ DOMAIN write_queue' = 1..Len(write_queue') /\ DOMAIN more = 1..Len(more)
      /\ DOMAIN write_queue = 1..Len(write_queue)
      /\ Len(more) \in Nat /\ Len(write_queue) \in Nat
  BY <1>3, <1>4, <1>5
<1>7. MessagesStayInConnection'
  <2>1. \A i \in DOMAIN write_queue' : write_queue'[i] = generation
    <3> SUFFICES ASSUME NEW i \in DOMAIN write_queue' PROVE write_queue'[i] = generation
      OBVIOUS
    <3>1. CASE i <= Len(write_queue)
      BY <1>5, <1>6, <3>1 DEF MessagesStayInConnection
    <3>2. CASE ~(i <= Len(write_queue))
      <4>1. i - Len(write_queue) \in DOMAIN more
        BY <1>5, <1>6, <3>2
      <4> QED
        BY <1>3, <1>5, <1>6, <3>2, <4>1
    <3> QED
      BY <3>1, <3>2
  <2> QED
    BY <2>1 DEF MessagesStayInConnection
<1>8. write_queue # <<>> => write_queue' # <<>>
  BY <1>4, <1>5, <1>6
<1>9. writing => write_queue # <<>>
  BY DEF WriteUnderWay
<1>10. CASE ~out'.close /\ write_queue' # <<>> /\ ~writing
  <2>1. writing' = TRUE /\ writes' = [writes EXCEPT ![generation] = @ + 1]
    BY <1>1, <1>10
  <2>2. WritesUpTo(writes', generation) /\ writes'[generation] = writes[generation] + 1
    BY <1>4, <2>1, WriteBegins
  <2>3. writes'[generation] = 1
    <3>1. writes[generation] = 0
      BY <1>10 DEF WriteUnderWay
    <3> QED
      BY <2>2, <3>1
  <2>4. WriteUnderWay'
    BY <1>10, <2>1, <2>3 DEF WriteUnderWay
  <2> QED
    BY <1>1, <1>5, <1>7, <2>1, <2>2, <2>4
<1>11. CASE ~(~out'.close /\ write_queue' # <<>> /\ ~writing)
  <2>1. writing' = writing /\ writes' = writes /\ io'.at = "deliver"
    BY <1>1, <1>11
  <2>2. WriteUnderWay'
    BY <1>8, <1>9, <1>11, <2>1 DEF WriteUnderWay
  <2> QED
    BY <1>1, <1>4, <1>5, <1>7, <2>1, <2>2
<1> QED
  BY <1>10, <1>11
=============================================================================
