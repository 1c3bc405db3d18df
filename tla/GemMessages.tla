---------------------------- MODULE GemMessages ----------------------------
(***************************************************************************)
(* The GEM messages (secsgem/gem/messages, identifiers) and the catalogue  *)
(* that says which of them a side takes (secsgem/secs2/message_factory).   *)
(* A body, and the result of a parser, is a sequence of at most one value. *)
(***************************************************************************)
EXTENDS FrameDecoder

make(s, f, w, b) == [stream |-> s, function |-> f, w_bit |-> w, body |-> b]
Binary(byte) == Item("B", <<byte>>)
Ascii(text) == Item("A", text)
U4(v) == Item("U4", <<v>>)

-----------------------------------------------------------------------------
(* Item predicates and body parsers. *)

ListOf(item, n) == is_list(item) /\ count(item) = n
is_ascii(item) == item.format = "A"
is_byte(item) == item.format = "B" /\ count(item) = 1

\* Any integer width; negative numbers are refused.
collect_uints(item) ==
    IF \/ item.format \in {"U1", "U2", "U4", "U8"}
       \/ item.format \in SignedFormats /\ \A i \in DOMAIN item.entries : item.entries[i] >= 0
    THEN <<item.entries>> ELSE <<>>

\* Every non-negative number of the model is below 2^32.
one_u32(item) ==
    LET v == collect_uints(item) IN IF v /= <<>> /\ Len(v[1]) = 1 THEN v[1] ELSE <<>>

parse_command_body(body) ==
    IF /\ body /= <<>> /\ ListOf(body[1], 2)
       /\ is_ascii(body[1].entries[1]) /\ is_list(body[1].entries[2])
       /\ \A i \in DOMAIN body[1].entries[2].entries :
            LET pair == body[1].entries[2].entries[i] IN ListOf(pair, 2) /\ is_ascii(pair.entries[1])
    THEN <<[rcmd |-> body[1].entries[1].entries,
            params |-> [i \in DOMAIN body[1].entries[2].entries |->
                        [name |-> body[1].entries[2].entries[i].entries[1].entries,
                         value |-> body[1].entries[2].entries[i].entries[2]]]]>>
    ELSE <<>>

\* An item of the list may hold several SVIDs.
parse_svid_body(body) ==
    IF /\ body /= <<>> /\ is_list(body[1])
       /\ \A i \in DOMAIN body[1].entries : collect_uints(body[1].entries[i]) /= <<>>
    THEN <<FlattenSeq([i \in DOMAIN body[1].entries |-> collect_uints(body[1].entries[i])[1]])>>
    ELSE <<>>

parse_event_body(body) ==
    IF /\ body /= <<>> /\ ListOf(body[1], 3)
       /\ one_u32(body[1].entries[1]) /= <<>> /\ one_u32(body[1].entries[2]) /= <<>>
       /\ is_list(body[1].entries[3])
       /\ \A i \in DOMAIN body[1].entries[3].entries :
            LET rpt == body[1].entries[3].entries[i]
            IN ListOf(rpt, 2) /\ one_u32(rpt.entries[1]) /= <<>> /\ is_list(rpt.entries[2])
    THEN <<[dataid |-> one_u32(body[1].entries[1])[1], ceid |-> one_u32(body[1].entries[2])[1],
            reports |-> [i \in DOMAIN body[1].entries[3].entries |->
                         [rptid |-> one_u32(body[1].entries[3].entries[i].entries[1])[1],
                          values |-> body[1].entries[3].entries[i].entries[2].entries]]]>>
    ELSE <<>>

parse_alarm_body(body) ==
    IF /\ body /= <<>> /\ ListOf(body[1], 3)
       /\ is_byte(body[1].entries[1]) /\ one_u32(body[1].entries[2]) /= <<>>
       /\ is_ascii(body[1].entries[3])
    THEN <<[alcd |-> body[1].entries[1].entries[1], alid |-> one_u32(body[1].entries[2])[1],
            altx |-> body[1].entries[3].entries]>>
    ELSE <<>>

parse_command_ack_body(body) ==
    IF /\ body /= <<>> /\ ListOf(body[1], 2)
       /\ is_byte(body[1].entries[1]) /\ is_list(body[1].entries[2])
       /\ \A i \in DOMAIN body[1].entries[2].entries :
            LET pair == body[1].entries[2].entries[i]
            IN ListOf(pair, 2) /\ is_ascii(pair.entries[1]) /\ is_byte(pair.entries[2])
    THEN <<[hcack |-> body[1].entries[1].entries[1],
            params |-> [i \in DOMAIN body[1].entries[2].entries |->
                        [name |-> body[1].entries[2].entries[i].entries[1].entries,
                         cpack |-> body[1].entries[2].entries[i].entries[2].entries[1]]]]>>
    ELSE <<>>

parse_ack_body(body) ==
    IF body /= <<>> /\ is_byte(body[1]) THEN <<body[1].entries[1]>> ELSE <<>>

identity_ok(item) == ListOf(item, 2) /\ is_ascii(item.entries[1]) /\ is_ascii(item.entries[2])
comm_request_ok(body) == body = <<>> \/ ListOf(body[1], 0) \/ identity_ok(body[1])
s1f14_ok(body) == /\ body /= <<>> /\ ListOf(body[1], 2) /\ is_byte(body[1].entries[1])
                  /\ ListOf(body[1].entries[2], 0) \/ identity_ok(body[1].entries[2])
s9_ok(body) == body /= <<>> /\ body[1].format = "B" /\ count(body[1]) = 10

-----------------------------------------------------------------------------
(* Builders. *)

Text == <<83, 45, 49>>
identity_item == List(<<Ascii(Text), Ascii(Text)>>)

make_s1f1 == make(1, 1, TRUE, <<>>)
make_s1f2 == make(1, 2, FALSE, <<identity_item>>)
make_s1f3(svids) == make(1, 3, TRUE, <<List([i \in DOMAIN svids |-> U4(svids[i])])>>)
make_s1f4(values) == make(1, 4, FALSE, <<List(values)>>)
make_s1f13 == make(1, 13, TRUE, <<List(<<>>)>>)
make_s1f14(commack) == make(1, 14, FALSE, <<List(<<Binary(commack), identity_item>>)>>)
make_s1f15 == make(1, 15, TRUE, <<>>)
make_s1f16(oflack) == make(1, 16, FALSE, <<Binary(oflack)>>)
make_s1f17 == make(1, 17, TRUE, <<>>)
make_s1f18(onlack) == make(1, 18, FALSE, <<Binary(onlack)>>)
make_s2f41(rcmd, params) ==
    make(2, 41, TRUE, <<List(<<Ascii(rcmd),
        List([i \in DOMAIN params |-> List(<<Ascii(params[i].name), params[i].value>>)])>>)>>)

make_s2f42(hcack, acks) ==
    make(2, 42, FALSE, <<List(<<Binary(hcack),
        List([i \in DOMAIN acks |-> List(<<Ascii(acks[i].name), Binary(acks[i].cpack)>>)])>>)>>)
make_s5f1(alcd, alid, altx) ==
    make(5, 1, TRUE, <<List(<<Binary(alcd), U4(alid), Ascii(altx)>>)>>)
make_s5f2(ackc5) == make(5, 2, FALSE, <<Binary(ackc5)>>)
make_s6f11(dataid, ceid, reports) ==
    make(6, 11, TRUE, <<List(<<U4(dataid), U4(ceid),
        List([i \in DOMAIN reports |-> List(<<U4(reports[i].rptid), List(reports[i].values)>>)])>>)>>)
make_s6f12(ackc6) == make(6, 12, FALSE, <<Binary(ackc6)>>)
make_s9(function, header) == make(9, function, FALSE, <<Item("B", header)>>)

-----------------------------------------------------------------------------
(* Identifiers. *)

status_variables == [i \in 1..12 |-> 4000 + i]
report_fields(rptid) ==
    CASE rptid = 3001 -> <<"WAFER_ID", "SLOT", "STRESS_MPA", "STRESS_UNC_MPA", "CURVATURE",
                           "FIT_RMS_UM", "OUT_OF_SPEC">>
      [] rptid = 3002 -> <<"CONTROL_STATE", "PROCESS_STATE">>
      [] rptid = 3003 -> <<"WAFER_ID", "SLOT", "NUM_LINES">>
      [] OTHER -> <<>>
report_for_event(ceid) == CASE ceid \in {2001, 2002, 2008} -> 3002
                            [] ceid = 2004 -> 3003
                            [] ceid \in {2005, 2006} -> 3001
                            [] OTHER -> 0

-----------------------------------------------------------------------------
(* Catalogues: for a stream and function, whether the body is legal. *)

EquipmentTakes(m) ==
    LET sf == <<m.stream, m.function>>
    IN CASE sf \in {<<1, 1>>, <<1, 15>>, <<1, 17>>} -> m.body = <<>>
         [] sf = <<1, 3>> -> parse_svid_body(m.body) /= <<>>
         [] sf = <<1, 13>> -> comm_request_ok(m.body)
         [] sf = <<2, 41>> -> parse_command_body(m.body) /= <<>>
         [] sf \in {<<5, 2>>, <<6, 12>>} -> parse_ack_body(m.body) /= <<>>
         [] OTHER -> FALSE
EquipmentKnows == {<<1, 1>>, <<1, 3>>, <<1, 13>>, <<1, 15>>, <<1, 17>>, <<2, 41>>, <<5, 2>>,
                   <<6, 12>>}

HostTakes(m) ==
    LET sf == <<m.stream, m.function>>
    IN CASE sf = <<1, 2>> -> m.body /= <<>> /\ identity_ok(m.body[1])
         [] sf = <<1, 4>> -> m.body /= <<>> /\ is_list(m.body[1])
         [] sf = <<1, 14>> -> s1f14_ok(m.body)
         [] sf \in {<<1, 16>>, <<1, 18>>} -> parse_ack_body(m.body) /= <<>>
         [] sf = <<2, 42>> -> parse_command_ack_body(m.body) /= <<>>
         [] sf = <<5, 1>> -> parse_alarm_body(m.body) /= <<>>
         [] sf = <<6, 11>> -> parse_event_body(m.body) /= <<>>
         [] sf \in {9} \X {1, 3, 5, 7, 9, 11} -> s9_ok(m.body)
         [] OTHER -> FALSE

\* MessageFactory::check().
check(m) == IF <<m.stream, m.function>> \in EquipmentKnows
            THEN IF EquipmentTakes(m) THEN "kOk" ELSE "kIllegalData"
            ELSE IF \E known \in EquipmentKnows : known[1] = m.stream
            THEN "kUnknownFunction" ELSE "kUnknownStream"
=============================================================================
