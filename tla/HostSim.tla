------------------------------ MODULE HostSim ------------------------------
(***************************************************************************)
(* The host simulator (host_sim): main() parses a script and Runner        *)
(* executes it, one command after the other, over a HostClient.            *)
(*                                                                         *)
(* The machine at the other end may send any frame of the scenario at any  *)
(* time, close or reset the connection and refuse a new one.  Frames       *)
(* arrive in order; a read returns any number of those that are there.     *)
(* Time is not counted: a wait may end at any moment at which nothing      *)
(* matches.                                                                *)
(***************************************************************************)
EXTENDS HostScript

CONSTANTS
    Scenarios,      \* [text, variables, meant, says]: a script, the values given to it, the
                    \* commands its author meant (<<>> if it is not a script) and what the
                    \* machine may send: [stype, byte3, device, message, answers]
    DefaultDevice,  \* --device
    MaxFrames,      \* frames the machine sends in a run
    MaxAsks         \* how often expect-status can ask in its time, 200 ms apart

VARIABLES
    scenario,
    exit_code,      \* of the process, or Running
    commands, pc,   \* the parsed script and the command being executed
    phase,          \* "next" | "wait" | "pause": where in that command
    sys,            \* system bytes of the command's request
    asks,           \* requests sent by this expect-status
    queue_, control_, auto_ack_, closed_, next_sys_, last_event_, last_alarm_,
    socket,         \* HostClient: [open, closed, number], number counts the connections
    net,            \* frames on their way to the host
    peer_open, frames_left,
    sent,           \* history: what the host sent, with the command and the connection
    read,           \* history: the messages read in this connection
    taken           \* history: for each command, the message it took

runnerVars == <<commands, pc, phase, sys, asks, auto_ack_, last_event_, last_alarm_, exit_code>>
receivedVars == <<queue_, control_, closed_, read>>
machineVars == <<peer_open, frames_left>>
vars == <<scenario, runnerVars, receivedVars, machineVars, next_sys_, socket, net, sent, taken>>

Running == 99
NoMessage == make(0, 0, FALSE, <<>>)

\* main() has parsed the script; one that does not parse ends the process.
Init ==
    /\ \E s \in Scenarios : \E parsed \in {parse_script(s.text, s.variables)} :
         /\ scenario = s
         /\ exit_code = IF parsed = <<>> THEN 2 ELSE Running
         /\ commands = IF parsed = <<>> THEN <<>> ELSE parsed[1]
    /\ pc = 1 /\ phase = "next" /\ sys = 0 /\ asks = 0
    /\ queue_ = <<>> /\ control_ = <<>> /\ auto_ack_ = TRUE /\ closed_ = TRUE /\ next_sys_ = 1
    /\ last_event_ = <<>> /\ last_alarm_ = <<>>
    /\ socket = [open |-> FALSE, closed |-> FALSE, number |-> 0]
    /\ net = <<>> /\ peer_open = FALSE /\ frames_left = MaxFrames
    /\ sent = <<>> /\ read = <<>> /\ taken = <<>>

-----------------------------------------------------------------------------
(* The machine (external). *)

\* A reply carries the system bytes of a request of this connection, a request its own.
MachineSends(what) ==
    /\ peer_open /\ frames_left > 0
    /\ \E number \in IF what.answers
                     THEN {sent[i].sys : i \in {j \in DOMAIN sent : sent[j].number = socket.number}}
                     ELSE {100 + frames_left} :
         net' = Append(net, [stype |-> what.stype, byte3 |-> what.byte3, sys |-> number,
                             device |-> what.device, message |-> what.message, uid |-> frames_left])
    /\ frames_left' = frames_left - 1
    /\ UNCHANGED <<scenario, runnerVars, receivedVars, next_sys_, socket, peer_open, sent, taken>>

\* After a reset, what was not read is lost.
MachineCloses ==
    /\ peer_open /\ peer_open' = FALSE
    /\ net' \in {net, <<>>}
    /\ UNCHANGED <<scenario, runnerVars, receivedVars, next_sys_, socket, frames_left, sent, taken>>

-----------------------------------------------------------------------------
(* HostClient and the plumbing of Runner. *)

\* What the host writes; a command's own frames and its answers to the machine.
Frame(what, stype, device, number, message) ==
    [what |-> what, stype |-> stype, device |-> device, sys |-> number, message |-> message,
     step |-> pc, number |-> socket.number]
DataFrame(what, device, number, message) == Frame(what, "Data", device, number, message)
ControlFrame(what, stype, number) == Frame(what, stype, kControlSessionId, number, NoMessage)

\* send_bytes(): into a closed connection a write may still succeed, and is lost.  A write
\* returns: the machine goes on reading (asio::write has no deadline).
CanSend == socket.open
MustSend == socket.open /\ peer_open

IsData(f) == f.stype = "Data"

\* Mutant: an answer nobody asked for.
AnswerTo_always(f) ==
    CASE f.stype = "LinktestReq" -> <<ControlFrame("answer", "LinktestRsp", f.sys)>>
      [] IsData(f) /\ auto_ack_ /\ f.message.stream = 6 /\ f.message.function = 11 ->
           <<DataFrame("answer", f.device, f.sys, make_s6f12(0))>>
      [] OTHER -> <<>>

\* on_frame() and reply(): what the host answers by itself.
AnswerTo(f) ==
    CASE f.stype = "LinktestReq" -> <<ControlFrame("answer", "LinktestRsp", f.sys)>>
      [] IsData(f) /\ auto_ack_ /\ f.message.w_bit /\ f.message.stream = 6
           /\ f.message.function = 11 -> <<DataFrame("answer", f.device, f.sys, make_s6f12(0))>>
      [] IsData(f) /\ auto_ack_ /\ f.message.w_bit /\ f.message.stream = 5
           /\ f.message.function = 1 -> <<DataFrame("answer", f.device, f.sys, make_s5f2(0))>>
      [] OTHER -> <<>>

\* pump(): the frames of one read, each queued and answered; an undecodable message is only
\* logged.  A framing error loses the frames of its read.
Pumps ==
    LET fits(k) == \A i \in 1..k : net[i].stype /= "Garbage"
    IN \/ \E k \in DOMAIN net :
            LET got == SubSeq(net, 1, k)
                data == SelectSeq(got, IsData)
                answers == FlattenSeq([i \in 1..k |-> AnswerTo(got[i])])
            IN /\ fits(k)
               /\ net' = SubSeq(net, k + 1, Len(net))
               /\ queue_' = queue_ \o data /\ read' = read \o data
               /\ control_' = control_ \o SelectSeq(got, LAMBDA f : f.stype \notin {"Data", "Undecodable"})
               /\ sent' \in {sent \o answers} \union (IF MustSend THEN {} ELSE {sent})
               /\ UNCHANGED <<closed_, socket>>
       \/ /\ ~fits(Len(net)) \/ (net = <<>> /\ ~peer_open)
          /\ socket' = [socket EXCEPT !.closed = TRUE]
          /\ closed_' = TRUE
          /\ net' = <<>>
          /\ UNCHANGED <<queue_, control_, read, sent>>

Passes ==
    /\ pc' = pc + 1 /\ phase' = "next"
    /\ UNCHANGED <<exit_code, commands, sys, asks>>

\* run() closes the connection and main() returns 1.
FailsWith(s) ==
    /\ exit_code' = 1
    /\ socket' = [s EXCEPT !.open = FALSE]
    /\ peer_open' = FALSE /\ net' = <<>>
    /\ UNCHANGED <<commands, pc, phase, sys, asks, frames_left>>
Fails == FailsWith(socket)

NothingReceived == UNCHANGED receivedVars
KeepsNotes == UNCHANGED <<auto_ack_, last_event_, last_alarm_>>

-----------------------------------------------------------------------------
(* main() and run(). *)

Current == commands[pc]
Executing(kinds) == exit_code = Running /\ pc \in DOMAIN commands /\ Current.kind \in kinds
Starting(kinds) == Executing(kinds) /\ phase = "next"

\* Every command passed: close, and return 0 whatever is still queued.
Finishes ==
    /\ exit_code = Running /\ pc = Len(commands) + 1
    /\ exit_code' = 0
    /\ socket' = [socket EXCEPT !.open = FALSE] /\ peer_open' = FALSE /\ net' = <<>>
    /\ UNCHANGED <<scenario, commands, pc, phase, sys, asks, next_sys_, sent, taken, receivedVars,
                   frames_left>>
    /\ KeepsNotes

-----------------------------------------------------------------------------
(* The commands that do not wait. *)

\* A new connection starts with empty queues; the system bytes go on.
do_connect ==
    /\ Starting({"Connect"})
    /\ \/ /\ socket' = [open |-> TRUE, closed |-> FALSE, number |-> socket.number + 1]
          /\ closed_' = FALSE
          /\ queue_' = <<>> /\ control_' = <<>> /\ read' = <<>>
          /\ net' = <<>> /\ peer_open' = TRUE
          /\ Passes /\ UNCHANGED frames_left
       \/ FailsWith([open |-> FALSE, closed |-> FALSE, number |-> socket.number]) /\ NothingReceived
    /\ KeepsNotes /\ UNCHANGED <<scenario, next_sys_, sent, taken>>

do_disconnect ==
    /\ Starting({"Disconnect"})
    /\ socket' = [socket EXCEPT !.open = FALSE] /\ peer_open' = FALSE /\ net' = <<>>
    /\ closed_' = TRUE
    /\ Passes /\ KeepsNotes
    /\ UNCHANGED <<scenario, next_sys_, sent, taken, queue_, control_, read, frames_left>>

\* send_frame() and what follows it: the frame is out, or the command fails.
SendOr(frame, then) ==
    \/ CanSend /\ sent' = Append(sent, frame) /\ then /\ UNCHANGED <<socket, net, machineVars>>
    \/ ~MustSend /\ Fails /\ UNCHANGED sent

\* Mutant: every message of a send asks for a reply.
AsksForReply_always(c) == c.w_bit = <<>> \/ c.w_bit[1]

\* Primaries ask for a reply unless the line says otherwise.
AsksForReply(c) == IF c.w_bit = <<>> THEN c.function % 2 = 1 ELSE c.w_bit[1]

\* do_send(): a body that cannot be encoded fails before the system bytes are used.
do_send ==
    LET c == Current
        device == IF c.device = <<>> THEN DefaultDevice ELSE c.device[1]
    IN /\ Starting({"Send"})
       /\ IF c.body /= <<>> /\ ~encode(c.body[1]).ok
          THEN Fails /\ UNCHANGED <<sent, next_sys_>>
          ELSE /\ next_sys_' = next_sys_ + 1
               /\ SendOr(DataFrame("own", device, next_sys_,
                                   make(c.stream, c.function, AsksForReply(c), c.body)),
                         Passes)
       /\ NothingReceived /\ KeepsNotes /\ UNCHANGED <<scenario, taken>>

\* separate and raw.
do_separate ==
    /\ Starting({"Separate"})
    /\ next_sys_' = next_sys_ + 1
    /\ SendOr(ControlFrame("own", "SeparateReq", next_sys_), Passes)
    /\ NothingReceived /\ KeepsNotes /\ UNCHANGED <<scenario, taken>>

do_raw ==
    /\ Starting({"Raw"})
    /\ SendOr(Frame("raw", "Raw", 0, 0, NoMessage), Passes)
    /\ NothingReceived /\ KeepsNotes /\ UNCHANGED <<scenario, taken, next_sys_>>

do_auto_ack ==
    /\ Starting({"AutoAck"})
    /\ auto_ack_' = Current.flag
    /\ Passes /\ NothingReceived
    /\ UNCHANGED <<scenario, last_event_, last_alarm_, next_sys_, sent, taken, socket, net, machineVars>>

\* The item an assert is about, <<>> if there is none.
Asserted(c) ==
    CASE c.field[1] = "event." ->
           IF last_event_ = <<>> THEN <<>> ELSE find_event_field(last_event_[1], c.field[2])
      [] c.field[1] = "alarm." /\ last_alarm_ /= <<>> ->
           CASE c.field[2] = "ALID" -> <<U4(last_alarm_[1].alid)>>
             [] c.field[2] = "ALCD" -> <<Item("U1", <<last_alarm_[1].alcd>>)>>
             [] c.field[2] = "ALTX" -> <<Ascii(last_alarm_[1].altx)>>
             [] OTHER -> <<>>
      [] OTHER -> <<>>

AssertHolds(c) ==
    \E value \in Range(Asserted(c)) :
        LET number == as_number(value)
            near(distance) == /\ number /= <<>>
                              /\ number[1] \in (c.number - distance)..(c.number + distance)
            equal == CASE c.value_is_number -> near(0)
                       [] ~c.value_is_number /\ is_ascii(value) -> value.entries = c.text
                       [] ~c.value_is_number /\ value.format = "BOOLEAN" ->
                            (number /= <<>> /\ number[1] /= 0) = (c.text = TrueText)
                       [] OTHER -> FALSE
        IN IF c.op = "Within" THEN near(c.tolerance) ELSE equal = (c.op = "Equal")

do_assert ==
    /\ Starting({"Assert"})
    /\ IF AssertHolds(Current) THEN Passes /\ UNCHANGED <<socket, net, machineVars>> ELSE Fails
    /\ NothingReceived /\ KeepsNotes /\ UNCHANGED <<scenario, next_sys_, sent, taken>>

-----------------------------------------------------------------------------
(* The commands that wait. *)

Handshakes == {"Select", "Deselect", "Linktest"}
Waits == {"Expect", "ExpectNo", "WaitEvent", "WaitAlarm", "ExpectClosed", "Sleep"}
Request == [Select |-> "SelectReq", Deselect |-> "DeselectReq", Linktest |-> "LinktestReq"]
Response == [Select |-> "SelectRsp", Deselect |-> "DeselectRsp", Linktest |-> "LinktestRsp"]

\* do_handshake() and do_expect_status(): send the request, then wait for its answer.
Asks(frame) ==
    /\ next_sys_' = next_sys_ + 1 /\ sys' = next_sys_
    /\ asks' = asks + 1
    /\ \/ /\ CanSend /\ sent' = Append(sent, frame) /\ phase' = "wait"
          /\ UNCHANGED <<exit_code, commands, pc, socket, net, machineVars>>
       \/ /\ ~MustSend /\ exit_code' = 1
          /\ socket' = [socket EXCEPT !.open = FALSE] /\ peer_open' = FALSE /\ net' = <<>>
          /\ UNCHANGED <<commands, pc, phase, sent, frames_left>>
    /\ NothingReceived /\ KeepsNotes /\ UNCHANGED <<scenario, taken>>

StartsHandshake ==
    Starting(Handshakes) /\ Asks(ControlFrame("own", Request[Current.kind], next_sys_))
StartsStatus ==
    Starting({"ExpectStatus"}) /\ Asks(DataFrame("own", DefaultDevice, next_sys_, make_s1f3(<<Current.id>>)))

StartsWait ==
    /\ Starting(Waits)
    /\ phase' = "wait"
    /\ NothingReceived /\ KeepsNotes
    /\ UNCHANGED <<scenario, exit_code, commands, pc, sys, asks, next_sys_, sent, taken, socket, net,
                   machineVars>>

\* Mutant: any answer will do.
IsAnswer_any(f) == TRUE

IsAnswer(f) == f.sys = sys

\* The predicate each wait gives to wait_message() or wait_control().
Wanted(f) ==
    LET c == Current
        SFIs(s, n) == f.message.stream = s /\ f.message.function = n
    IN CASE c.kind \in Handshakes -> f.stype = Response[c.kind] /\ IsAnswer(f)
         [] c.kind \in {"Expect", "ExpectNo"} -> SFIs(c.stream, c.function)
         [] c.kind = "WaitEvent" ->
              /\ SFIs(6, 11)
              /\ \E event \in Range(parse_event_body(f.message.body)) :
                   /\ event.ceid = c.id
                   /\ \A i \in DOMAIN c.event_filters :
                        \E field \in Range(find_event_field(event, c.event_filters[i].name)) :
                            item_equals_text(field, c.event_filters[i].value)
         [] c.kind = "WaitAlarm" ->
              /\ SFIs(5, 1)
              /\ \E alarm \in Range(parse_alarm_body(f.message.body)) :
                   alarm.alid = c.id /\ (alarm.alcd >= 128) = c.alarm_set
         [] c.kind = "ExpectStatus" -> phase = "wait" /\ SFIs(1, 4) /\ IsAnswer(f)
         [] OTHER -> FALSE

Inbox == IF Current.kind \in Handshakes THEN control_ ELSE queue_
NoneWanted == \A i \in DOMAIN Inbox : ~Wanted(Inbox[i])

matches_body(pattern, m) ==
    \/ pattern = <<>>
    \/ IF m.body = <<>> THEN pattern[1].kind = "AnyItem" ELSE matches(pattern[1], m.body[1])

\* What a command makes of the message it took.
Accepts(f) ==
    LET c == Current
        body == f.message.body
    IN CASE c.kind \in {"Select", "Deselect"} -> f.byte3 = c.status
         [] c.kind = "Expect" -> matches_body(c.pattern, f.message)
         [] c.kind = "ExpectNo" -> FALSE
         [] c.kind = "ExpectStatus" -> /\ body /= <<>> /\ ListOf(body[1], 1)
                                       /\ matches(c.pattern[1], body[1].entries[1])
         [] OTHER -> TRUE

Waiting == Executing(Handshakes \union Waits \union {"ExpectStatus"}) /\ phase \in {"wait", "pause"}

\* Mutant: the first message of the queue goes, whichever matched.
Erased_first(box, i) == Tail(box)

Erased(box, i) == RemoveAt(box, i)

\* The first match is taken and the others stay; expect-status asks again while it has time.
Takes ==
    /\ Waiting
    /\ \E i \in DOMAIN Inbox :
       LET f == Inbox[i]
       IN /\ Wanted(f) /\ \A j \in 1..(i - 1) : ~Wanted(Inbox[j])
          /\ IF Current.kind \in Handshakes
             THEN control_' = Erased(control_, i) /\ UNCHANGED queue_
             ELSE queue_' = Erased(queue_, i) /\ UNCHANGED control_
          /\ taken' = Append(taken, [step |-> pc, frame |-> f, number |-> socket.number])
          /\ last_event_' = IF Current.kind = "WaitEvent" THEN parse_event_body(f.message.body)
                            ELSE last_event_
          /\ last_alarm_' = IF Current.kind = "WaitAlarm" THEN parse_alarm_body(f.message.body)
                            ELSE last_alarm_
          /\ \/ /\ Accepts(f)
                /\ pc' = pc + 1 /\ phase' = "next" /\ asks' = 0
                /\ UNCHANGED <<exit_code, commands, sys, socket, net, machineVars>>
             \/ ~Accepts(f) /\ Fails
             \/ /\ Current.kind = "ExpectStatus" /\ ~Accepts(f) /\ asks < MaxAsks
                /\ phase' = "pause"
                /\ UNCHANGED <<exit_code, commands, pc, sys, asks, socket, net, machineVars>>
    /\ UNCHANGED <<scenario, auto_ack_, closed_, next_sys_, sent, read>>

\* expect-no and sleep pass when their wait ends, expect-closed if the connection is closed.
EndsWait ==
    /\ IF \/ Current.kind \in {"ExpectNo", "Sleep"}
          \/ Current.kind = "ExpectClosed" /\ closed_
       THEN Passes /\ UNCHANGED <<socket, net, machineVars>>
       ELSE Fails
    /\ NothingReceived /\ KeepsNotes /\ UNCHANGED <<scenario, next_sys_, sent, taken>>

\* Mutant: a control message is waited for without a deadline.
GivesUp_waits ==
    Waiting /\ NoneWanted /\ phase = "wait" /\ (closed_ \/ Current.kind \notin Handshakes) /\ EndsWait

\* Nothing matches, and the connection is closed or the time is over.
GivesUp == Waiting /\ NoneWanted /\ phase = "wait" /\ EndsWait

\* The pause of expect-status is over.
AsksAgain ==
    /\ Waiting /\ phase = "pause"
    /\ Asks(DataFrame("own", DefaultDevice, next_sys_, make_s1f3(<<Current.id>>)))

\* Otherwise the wait, or the pause, reads.
WaitReads ==
    /\ Waiting /\ NoneWanted /\ ~closed_
    /\ Pumps
    /\ UNCHANGED <<scenario, runnerVars, machineVars, next_sys_, taken>>

-----------------------------------------------------------------------------
HostNext ==
    \/ Finishes
    \/ do_connect \/ do_disconnect \/ do_send \/ do_separate \/ do_raw \/ do_auto_ack \/ do_assert
    \/ StartsHandshake \/ StartsStatus \/ StartsWait
    \/ Takes \/ GivesUp \/ AsksAgain \/ WaitReads

Next ==
    \/ HostNext
    \/ \E what \in scenario.says : MachineSends(what)
    \/ MachineCloses

\* The simulator is one thread that always runs on: every read has a deadline, and a write
\* returns as long as the machine reads.
Spec == Init /\ [][Next]_vars /\ WF_vars(HostNext)

-----------------------------------------------------------------------------
(* Properties. *)

Meant == scenario.meant
Own == {i \in DOMAIN sent : sent[i].what /= "answer"}
TakenBy(step) == {taken[i] : i \in {j \in DOMAIN taken : taken[j].step = step}}
AskedBy(step, t) == \E i \in Own : /\ sent[i].step = step /\ sent[i].sys = t.frame.sys
                                   /\ sent[i].number = t.number

\* The machine gets from the host, its automatic answers aside, what the script's author
\* wrote: the messages of the send commands in order, each once, with the item, W-bit and
\* device of its line and a system-byte number that no other request of the run has, whatever
\* arrives and is answered in between.  Of a text that is not a script nothing is executed
\* (parse_script(), main()'s exit code 2).
SentAsMeant ==
    /\ commands = Meant
    /\ Meant = <<>> => exit_code = 2 /\ socket.number = 0
    /\ \A i \in Own : \A j \in Own : i < j =>
         /\ \/ sent[i].step < sent[j].step
            \/ sent[i].step = sent[j].step /\ Meant[sent[i].step].kind = "ExpectStatus"
         /\ sent[i].what = "own" => sent[i].sys /= sent[j].sys
    /\ \A n \in 1..(pc - 1) :
         Meant[n].kind \in {"Send", "Raw", "Separate"} => \E i \in Own : sent[i].step = n
    /\ \A i \in Own : Meant[sent[i].step].kind = "Send" =>
         LET c == Meant[sent[i].step]
         IN /\ sent[i].message = make(c.stream, c.function,
                                      c.w_bit = <<TRUE>> \/ (c.w_bit = <<>> /\ c.function % 2 = 1), c.body)
            /\ sent[i].device = IF c.device = <<>> THEN DefaultDevice ELSE c.device[1]

\* A passed command is evidence: a handshake or expect-status got the answer to a request it
\* sent itself, on the connection it sent it on, with the status or value its line asks for;
\* expect took a message with its stream, function and body; wait-event one with its event and
\* every field it asks for, wait-alarm one with its alarm, set or cleared as it says;
\* expect-no took none.  No message counts for two commands.
PassedForCause ==
    /\ \A i \in 1..(pc - 1) :
        LET c == Meant[i]
            HasSF(t, s, f) == t.frame.message.stream = s /\ t.frame.message.function = f
            Shows(event, filter) == LET field == find_event_field(event, filter.name)
                                    IN field /= <<>> /\ item_equals_text(field[1], filter.value)
        IN CASE c.kind \in Handshakes ->
                  \E t \in TakenBy(i) : /\ t.frame.stype = Response[c.kind] /\ AskedBy(i, t)
                                        /\ c.kind = "Linktest" \/ t.frame.byte3 = c.status
             [] c.kind = "Expect" ->
                  \E t \in TakenBy(i) : HasSF(t, c.stream, c.function) /\ matches_body(c.pattern, t.frame.message)
             [] c.kind = "WaitEvent" ->
                  \E t \in TakenBy(i) :
                      LET event == parse_event_body(t.frame.message.body)[1]
                      IN HasSF(t, 6, 11) /\ event.ceid = c.id
                           /\ \A filter \in Range(c.event_filters) : Shows(event, filter)
             [] c.kind = "WaitAlarm" ->
                  \E t \in TakenBy(i) :
                      LET alarm == parse_alarm_body(t.frame.message.body)[1]
                      IN HasSF(t, 5, 1) /\ alarm.alid = c.id /\ (alarm.alcd >= 128) = c.alarm_set
             [] c.kind = "ExpectStatus" ->
                  \E t \in TakenBy(i) : /\ HasSF(t, 1, 4) /\ AskedBy(i, t)
                                        /\ matches(c.pattern[1], t.frame.message.body[1].entries[1])
             [] c.kind = "ExpectNo" -> TakenBy(i) = {}
             [] OTHER -> TRUE
    /\ \A i, j \in DOMAIN taken : i /= j => taken[i].frame.uid /= taken[j].frame.uid

\* The queue holds the messages read on this connection that no command took, in the order
\* they came: a wait neither loses nor reorders nor repeats what it does not want, and nothing
\* of an earlier connection is left.
QueueIsWhatWasRead ==
    queue_ = SelectSeq(read, LAMBDA f : \A i \in DOMAIN taken : taken[i].frame.uid /= f.uid)

\* With auto-ack on throughout, the machine's T3 timers are safe: every event and alarm read
\* that asks for a reply got one, and only one, with its own system bytes and device, and the
\* host answers nothing else but Linktest.req.
AnsweredOnce ==
    LET answers == {i \in DOMAIN sent : sent[i].what = "answer" /\ sent[i].number = socket.number}
        Asking(f) == /\ f.message.w_bit
                     /\ <<f.message.stream, f.message.function>> \in {<<6, 11>>, <<5, 1>>}
        Answers(s, f) == /\ s.sys = f.sys /\ s.device = f.device /\ s.message.stream = f.message.stream
                         /\ s.message.function = f.message.function + 1 /\ ~s.message.w_bit
    IN (\A i \in DOMAIN Meant : Meant[i].flag) =>
         /\ \A i \in answers : \A j \in answers : i /= j => sent[i].sys /= sent[j].sys
         /\ \A i \in answers :
              \/ \E f \in Range(read) : Asking(f) /\ Answers(sent[i], f)
              \/ sent[i].stype = "LinktestRsp"
         /\ peer_open => \A f \in Range(read) : Asking(f) => \E i \in answers : Answers(sent[i], f)

\* Whatever the machine sends or withholds, as long as it goes on reading (CanSend), the
\* simulator ends with an exit code: every wait has a deadline.
HostEnds == <>(exit_code /= Running)
=============================================================================
