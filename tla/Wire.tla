-------------------------------- MODULE Wire --------------------------------
(***************************************************************************)
(* One connection, byte by byte: a side writes messages, the network cuts  *)
(* the bytes into reads of any size, and the other side makes frames and   *)
(* messages of them again.  The host writes what its user likes, bytes     *)
(* that are no frame included; the machine writes what its builders make   *)
(* and answers every message it gets.                                      *)
(*                                                                         *)
(* Each behaviour carries one conversation in one direction.  What a side  *)
(* writes does not depend on how its bytes are cut, so all of it is in     *)
(* the stream before the first read.                                       *)
(***************************************************************************)
EXTENDS HostPattern

CONSTANTS
    Conversations,      \* sequences of [kind, ...]: what a side writes
    DeviceId,           \* comm.device_id
    MaxBodyBytes        \* GemConfig::max_body_bytes

VARIABLES
    script,             \* what is still to be written
    written,            \* history: what was written, with its bytes
    stream,             \* bytes in the network
    decoder,            \* of the reader
    received            \* history: the frames the reader made

vars == <<script, written, stream, decoder, received>>

Init ==
    /\ script \in Conversations
    /\ written = <<>> /\ stream = <<>> /\ received = <<>>
    /\ decoder = NewDecoder

-----------------------------------------------------------------------------
(* Writing. *)

\* The body of a message: an item that cannot be encoded is not sent.
BodyOf(m) == IF m.body = <<>> THEN Encoded(<<>>) ELSE encode(m.body[1])

Puts(kind, m, body) ==
    LET frame == make_data_frame(DeviceId, m.stream, m.function, m.w_bit, Len(written) + 1, body)
    IN /\ stream' = stream \o encode_frame(frame)
       /\ written' = Append(written, [kind |-> kind, message |-> m, bytes |-> encode_frame(frame)])

\* The host's do_send().  The host knows no limit.
do_send(m) ==
    IF BodyOf(m).ok THEN Puts("message", m, BodyOf(m).bytes) ELSE UNCHANGED <<stream, written>>

\* Session::send_request() and send_reply(): what is too large for a frame is not sent.
Fits(body) == kHeaderSize + Len(body) <= MaxFrameBytes

queue_data(m) ==
    IF BodyOf(m).ok /\ Fits(BodyOf(m).bytes) THEN Puts("report", m, BodyOf(m).bytes)
    ELSE UNCHANGED <<stream, written>>

\* Session::send_control().
SendsControl(type) ==
    LET bytes == encode_frame(make_control_frame(type, Len(written) + 1, 0, 0))
    IN /\ stream' = stream \o bytes
       /\ written' = Append(written, [kind |-> "control", stype |-> SType[type], bytes |-> bytes])

\* The host's raw command, or a data message whose body is raw.
SendsRaw(bytes) ==
    /\ stream' = stream \o bytes
    /\ written' = Append(written, [kind |-> "raw", bytes |-> bytes])

Writes ==
    /\ script /= <<>>
    /\ \/ Head(script).kind = "message" /\ do_send(Head(script).message)
       \/ Head(script).kind = "report" /\ queue_data(Head(script).message)
       \/ Head(script).kind = "control" /\ SendsControl(Head(script).stype)
       \/ Head(script).kind = "raw" /\ SendsRaw(Head(script).bytes)
    /\ script' = Tail(script)
    /\ UNCHANGED <<decoder, received>>

-----------------------------------------------------------------------------
(* Reading: Session::on_bytes() and HostClient::read().  A framing error closes the        *)
(* connection, so what is still in the network is lost.                                    *)

Reads(n) ==
    /\ script = <<>> /\ ~decoder.failed_ /\ n <= Len(stream)
    /\ LET fed == feed(decoder, SubSeq(stream, 1, n))
       IN /\ decoder' = fed.decoder
          /\ received' = received \o fed.frames
          /\ stream' = IF fed.decoder.failed_ THEN <<>> ELSE SubSeq(stream, n + 1, Len(stream))
    /\ UNCHANGED <<script, written>>

Next == Writes \/ \E n \in 1..Len(stream) : Reads(n)

Spec == Init /\ [][Next]_vars

-----------------------------------------------------------------------------
(* What the machine makes of a data frame: GemService::on_data(). *)

\* The function of the S9 message that refuses the frame; 0 when it is handled.
Refusal(frame) ==
    LET parsed == to_message(frame)
    IN IF frame.header.session_id /= DeviceId THEN 1
       ELSE IF Len(frame.body) > MaxBodyBytes THEN 11
       ELSE IF ~parsed.ok THEN 7
       ELSE CASE check(parsed.message) = "kOk" -> 0
              [] check(parsed.message) = "kUnknownStream" -> 3
              [] check(parsed.message) = "kUnknownFunction" -> 5
              [] check(parsed.message) = "kIllegalData" -> 7

\* status_value(): the format of a status variable; an unknown one is an empty list.
status_value(svid) ==
    CASE svid \in {4001, 4002, 4004} -> Item("U1", <<1>>)
      [] svid \in {4003, 4010} -> Ascii(Text)
      [] svid \in 4005..4008 -> Item("F4", <<1069547520>>)
      [] svid = 4009 -> Item("U2", <<7>>)
      [] svid \in {4011, 4012} -> U4(70000)
      [] OTHER -> List(<<>>)

handle_status_request(m) ==
    LET asked == parse_svid_body(m.body)[1]
        svids == IF asked = <<>> THEN status_variables ELSE asked
    IN make_s1f4([i \in DOMAIN svids |-> status_value(svids[i])])

\* Names of remote commands and of their parameters: texts that differ.
START == <<65>>
CLEAR_ALARM == <<67>>
RemoteCommands == {START, CLEAR_ALARM, <<66>>, <<83>>}
WAFER_ID == <<87>>
CASSETTE_ID == <<75>>
ALID == <<76>>

\* 1 to 32 letters, digits, '_' and '-'.
valid_wafer_id(id) ==
    Len(id) \in 1..32 /\ Range(id) \subseteq (65..90) \union (97..122) \union (48..57) \union {95, 45}

known_alid(alid) == alid \in 1001..1008

is_u32(item) == item.format \in {"U1", "U2", "U4"} /\ count(item) = 1

\* CPACK of parameter p of a command: 0 ok, 1 unknown name, 2 illegal value, 3 illegal format;
\* given: a wafer id was accepted before.
ParamAck(rcmd, p, given) ==
    CASE rcmd = START /\ p.name = WAFER_ID ->
           IF given THEN 2 ELSE IF p.value.format /= "A" THEN 3
           ELSE IF valid_wafer_id(p.value.entries) THEN 0 ELSE 2
      [] rcmd = START /\ p.name = CASSETTE_ID -> 2
      [] rcmd = CLEAR_ALARM /\ p.name = ALID ->
           IF ~is_u32(p.value) THEN 3 ELSE IF known_alid(p.value.entries[1]) THEN 0 ELSE 2
      [] OTHER -> 1

\* HCACK and the acknowledgements: 1 unknown command, 2 cannot be done now (also when the
\* machine refuses), 3 a parameter is wrong or missing, 4 accepted and 0 done.
execute_command(command, remote, accepted) ==
    LET Accepts(j) == ParamAck(command.rcmd, command.params[j], FALSE) = 0
        acks == [i \in DOMAIN command.params |->
                   [name |-> command.params[i].name,
                    cpack |-> ParamAck(command.rcmd, command.params[i], \E j \in 1..i - 1 : Accepts(j))]]
    IN CASE command.rcmd \notin RemoteCommands -> [hcack |-> 1, acks |-> <<>>]
         [] command.rcmd \in RemoteCommands /\ ~remote -> [hcack |-> 2, acks |-> <<>>]
         [] OTHER ->
              [acks |-> acks,
               hcack |-> IF \/ \E i \in DOMAIN acks : acks[i].cpack /= 0
                            \/ command.rcmd = START /\ acks = <<>> THEN 3
                         ELSE IF ~accepted THEN 2
                         ELSE IF command.rcmd = START THEN 4 ELSE 0]

\* The control mode and what the machine says are MachineRuntime's; here they are any.
handle_remote_command(m) ==
    {LET done == execute_command(parse_command_body(m.body)[1], remote, accepted)
     IN make_s2f42(done.hcack, done.acks) : remote, accepted \in BOOLEAN}

\* handle_message(): the answers a handled message may get.
handle_message(m) ==
    LET sf == <<m.stream, m.function>>
    IN CASE sf = <<1, 1>> -> {make_s1f2}
         [] sf = <<1, 3>> -> {handle_status_request(m)}
         [] sf = <<1, 13>> -> {make_s1f14(0)}
         [] sf = <<1, 15>> -> {make_s1f16(0)}
         [] sf = <<1, 17>> -> {make_s1f18(onlack) : onlack \in 0..2}
         [] sf = <<2, 41>> -> handle_remote_command(m)
         [] OTHER -> {}

on_data(frame) ==
    IF Refusal(frame) /= 0 THEN {make_s9(Refusal(frame), header_bytes(frame.header))}
    ELSE handle_message(to_message(frame).message)

\* Mutant: the result's report leaves out one value.
EventReport_short(ceid) ==
    LET F4 == Item("F4", <<1069547520>>)
        U1 == Item("U1", <<2>>)
    IN CASE ceid \in {2001, 2002, 2008} -> [rptid |-> 3002, values |-> <<U1, U1>>]
         [] ceid = 2004 -> [rptid |-> 3003, values |-> <<Ascii(Text), U1, U1>>]
         [] ceid \in {2005, 2006} ->
              [rptid |-> 3001, values |-> <<Ascii(Text), U1, F4, F4, F4, Item("BOOLEAN", <<1>>)>>]

\* on_process_state_changed(), on_control_state_changed(), on_scan_started(), on_result()
\* and on_run_aborted(): the report of an event.
EventReport(ceid) ==
    LET F4 == Item("F4", <<1069547520>>)
        U1 == Item("U1", <<2>>)
    IN CASE ceid \in {2001, 2002, 2008} -> [rptid |-> 3002, values |-> <<U1, U1>>]
         [] ceid = 2004 -> [rptid |-> 3003, values |-> <<Ascii(Text), U1, U1>>]
         [] ceid \in {2005, 2006} ->
              [rptid |-> 3001,
               values |-> <<Ascii(Text), U1, F4, F4, F4, F4, Item("BOOLEAN", <<1>>)>>]

send_event(dataid, ceid) == make_s6f11(dataid, ceid, <<EventReport(ceid)>>)

\* on_alarm(): the top bit of ALCD says set or cleared.
send_alarm(set, alid) == make_s5f1((IF set THEN 128 ELSE 0) + 1, alid, Text)

-----------------------------------------------------------------------------
(* Properties. *)

Whole(k) == Len(FlattenSeq([i \in 1..k |-> written[i].bytes]))
Delivered == Whole(Len(written)) - Len(stream)

\* What a reader should see of an item: every element, but a boolean as 0 or 1.
RECURSIVE AsSeen(_)
AsSeen(item) ==
    Item(item.format, [i \in DOMAIN item.entries |->
        CASE is_list(item) -> AsSeen(item.entries[i])
          [] item.format = "BOOLEAN" -> IF item.entries[i] = 0 THEN 0 ELSE 1
          [] OTHER -> item.entries[i]])

Sees(frame, what) ==
    CASE what.kind \in {"message", "report"} ->
           to_message(frame) =
             [ok |-> TRUE,
              message |-> [what.message EXCEPT !.body = [i \in DOMAIN @ |-> AsSeen(@[i])]]]
      [] what.kind = "control" -> frame.header.stype = what.stype /\ ~to_message(frame).ok
      [] what.kind = "raw" -> encode_frame(frame) = what.bytes

\* However the bytes of a conversation are cut into reads, the reader has made a frame of
\* every piece that arrived whole, in order, and of nothing else, and each frame is the
\* message that was written: encode(), encode_frame(), feed() and to_message() undo each
\* other across every cut.  Only a framing error ends this, and then what was made is a
\* prefix of what was written.
DeliveredAsSent ==
    /\ Len(received) <= Len(written)
    /\ \A i \in DOMAIN received : Sees(received[i], written[i])
    /\ ~decoder.failed_ =>
         /\ \A k \in DOMAIN written : Whole(k) <= Delivered <=> k <= Len(received)
         /\ decoder.buffer_ = SubSeq(FlattenSeq([i \in DOMAIN written |-> written[i].bytes]),
                                     Whole(Len(received)) + 1, Delivered)

\* frame_decoder.hpp: the length is checked as soon as its four bytes are in, so the decoder
\* has failed exactly when a bad length has arrived, and never holds more than one frame of
\* the largest size: a frame still to come cannot have a length that is refused later.
\* Only a host can send one; queue_data() keeps the machine from it.
LengthsChecked ==
    LET buffered == decoder.buffer_
    IN /\ ~decoder.failed_ => /\ Len(buffered) < kLengthFieldSize + MaxFrameBytes
                              /\ Len(buffered) >= kLengthFieldSize =>
                                   load_be(SubSeq(buffered, 1, kLengthFieldSize))
                                     \in kHeaderSize..MaxFrameBytes
       /\ decoder.failed_ => \E i \in DOMAIN written :
            /\ written[i].kind \in {"message", "raw"}
            /\ load_be(SubSeq(written[i].bytes, 1, kLengthFieldSize))
                 \notin kHeaderSize..MaxFrameBytes

\* Bytes that decode are an item the codec can write again: at most as many bytes, and they
\* decode to the same item.  So nothing a host sends can be held by the machine and not be
\* sent back, lists nested to the limit included.
DecodedCanBeEncoded ==
    \A i \in DOMAIN received :
        LET decoded == decode_body(received[i].body)
            again == encode(decoded.item)
        IN decoded.ok => /\ again.ok /\ Len(again.bytes) <= Len(received[i].body)
                         /\ decode_body(again.bytes).item = AsSeen(decoded.item)

\* Whatever message the machine gets, legal or not, each answer it may give is a message the
\* host's catalogue takes, after its own trip over the wire, and answers that message; and a
\* command is done or accepted only with every one of its parameters acknowledged as good.
\* An answer too large for a frame is not sent, and then the host hears nothing: this happens
\* to the answer to a status request for very many variables, and to no other.
AnswersAreLegal ==
    \A i \in DOMAIN received : received[i].header.stype = SType.Data =>
        \A answer \in on_data(received[i]) :
            LET sent == make_data_frame(DeviceId, answer.stream, answer.function, answer.w_bit,
                                        1, BodyOf(answer).bytes)
                seen == to_message(sent)
            IN /\ BodyOf(answer).ok
               /\ Fits(BodyOf(answer).bytes) \/ <<answer.stream, answer.function>> = <<1, 4>>
               /\ Fits(BodyOf(answer).bytes) => seen.ok /\ HostTakes(seen.message)
               /\ answer.stream /= 9 => answer.function = received[i].header.byte3 + 1
               /\ <<answer.stream, answer.function>> = <<2, 42>> =>
                    LET ack == parse_command_ack_body(seen.message.body)[1]
                        command == parse_command_body(to_message(received[i]).message.body)[1]
                    IN ack.hcack \in {0, 4} =>
                         /\ Len(ack.params) = Len(command.params)
                         /\ \A p \in Range(ack.params) : p.cpack = 0

\* Every event and alarm the machine reports is a message the host's catalogue takes, and
\* the host finds every field of the event's report layout under its name.
ReportsCanBeRead ==
    \A i \in DOMAIN received : written[i].kind = "report" =>
        LET m == to_message(received[i]).message
            event == parse_event_body(m.body)[1]
        IN /\ HostTakes(m) /\ m.w_bit
           /\ m.stream = 6 => \A name \in Range(report_fields(report_for_event(event.ceid))) :
                find_event_field(event, name) /= <<>>
           /\ m.stream = 6 => event.reports[1].rptid = report_for_event(event.ceid)

\* The host can read whatever the machine says.  An answer to any message, legal or not, is
\* legal in the host's catalogue and of the right function, unless it is a status answer too
\* large for comm.max_frame_bytes, which stays unsent.  In a report the values the
\* handlers list agree with report_for_event() and report_fields().
HostCanRead == AnswersAreLegal /\ ReportsCanBeRead
=============================================================================
