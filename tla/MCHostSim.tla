------------------------------ MODULE MCHostSim ------------------------------
(* Scenarios for model checking HostSim. *)
EXTENDS HostSim

\* How a script writes a pattern, an item among them.
RECURSIVE TextOf(_)
TextOf(p) ==
    LET Array(item) == <<T(item.format), T("[")>>
                         \o [i \in DOMAIN item.entries |->
                               IF item.format = "BOOLEAN" /\ item.entries[i] = 1 THEN T("true")
                               ELSE N(item.entries[i])] \o <<T("]")>>
    IN CASE p.kind = "AnyItem" -> <<T("*")>>
         [] p.kind \in {"AnyOfFormat", "AnyList"} -> <<T(p.format), T("["), T("*"), T("]")>>
         [] p.kind = "List" -> <<T("L"), T("[")>>
              \o FlattenSeq([i \in DOMAIN p.children |-> TextOf(p.children[i])]) \o <<T("]")>>
         [] p.kind = "Exact" -> IF is_ascii(p.exact[1]) /\ p.exact[1].entries /= <<>>
                                THEN <<T("A"), Str(p.exact[1].entries)>> ELSE Array(p.exact[1])

PList(children) == Pattern("List", "L", children, <<>>)
Star(format) == Pattern(IF format = "L" THEN "AnyList" ELSE "AnyOfFormat", format, <<>>, <<>>)

\* A step is <<its line, the command meant>>.
Step(verb, words, command) == <<<<T(verb)>> \o words, command>>
Plain(verb, kind) == Step(verb, <<>>, [NoCommand EXCEPT !.kind = kind])
Connect == Step("connect", <<Named("$", "PORT", <<>>)>>, [NoCommand EXCEPT !.kind = "Connect"])
\* send SxFy [W | nowait] [device=N] [item], with w, device and items <<>> where left out.
SendAs(s, f, w, device, items) ==
    Step("send",
         <<SF(s, f)>> \o [i \in DOMAIN w |-> Opt(IF w[i] THEN "W" ELSE "nowait", <<>>)]
           \o [i \in DOMAIN device |-> Opt("device", device)]
           \o FlattenSeq([i \in DOMAIN items |-> TextOf(items[i])]),
         [NoCommand EXCEPT !.kind = "Send", !.stream = s, !.function = f, !.w_bit = w,
                           !.device = device, !.body = [i \in DOMAIN items |-> to_item(items[i])]])
Send(s, f, p) == SendAs(s, f, <<>>, <<>>, <<p>>)
Expect(s, f, p) ==
    Step("expect", <<SF(s, f), Opt("timeout", <<2, 1000>>)>> \o TextOf(p),
         [NoCommand EXCEPT !.kind = "Expect", !.stream = s, !.function = f, !.timeout = 2000,
                           !.pattern = <<p>>])
ExpectNo(s, f) ==
    Step("expect-no", <<SF(s, f)>>,
         [NoCommand EXCEPT !.kind = "ExpectNo", !.stream = s, !.function = f, !.timeout = 1000])
Status(svid, p) ==
    Step("expect-status", <<N(svid)>> \o TextOf(p),
         [NoCommand EXCEPT !.kind = "ExpectStatus", !.id = svid, !.pattern = <<p>>])
WaitEvent(ceid, filters) ==
    Step("wait-event", <<N(ceid)>> \o filters,
         [NoCommand EXCEPT !.kind = "WaitEvent", !.id = ceid, !.event_filters = filters])
WaitAlarm(alid, set) ==
    Step("wait-alarm", <<N(alid), T(IF set THEN "set" ELSE "clear")>>,
         [NoCommand EXCEPT !.kind = "WaitAlarm", !.id = alid, !.alarm_set = set])
Asserts(field, words, as) == Step("assert", <<field>> \o words, as)
AssertOf(field) == [NoCommand EXCEPT !.kind = "Assert", !.field = <<field.word, field.name>>]
AutoAck(on) ==
    Step("auto-ack", <<T(IF on THEN "on" ELSE "off")>>,
         [NoCommand EXCEPT !.kind = "AutoAck", !.flag = on])
Within(ms, step) ==   \* the step with a timeout= after its first arguments
    LET k == CASE step[2].kind = "ExpectClosed" -> 1
               [] step[2].kind = "WaitAlarm" -> 3
               [] OTHER -> 2
    IN <<SubSeq(step[1], 1, k) \o <<Opt("timeout", <<ms, 1>>)>> \o SubSeq(step[1], k + 1, Len(step[1])),
         [step[2] EXCEPT !.timeout = ms]>>
Sleep == Step("sleep", <<Named("duration", "", <<500, 1>>)>>,
              [NoCommand EXCEPT !.kind = "Sleep", !.timeout = 500])
WithStatus(verb, kind, n) == Step(verb, <<Opt("status", <<n>>)>>,
                                  [NoCommand EXCEPT !.kind = kind, !.status = n])
RawBytes == Step("raw", <<N(0), N(255)>>, [NoCommand EXCEPT !.kind = "Raw", !.raw = <<0, 255>>])

Scenario(steps, says) ==
    [text |-> [i \in DOMAIN steps |-> steps[i][1]], variables |-> [PORT |-> N(5000)],
     meant |-> [i \in DOMAIN steps |-> [steps[i][2] EXCEPT !.line = i]], says |-> says]
NoScript(lines) == [text |-> lines, variables |-> [PORT |-> N(5000)], meant |-> <<>>, says |-> {}]

-----------------------------------------------------------------------------
Control(stype, status, answers) ==
    [stype |-> stype, byte3 |-> status, device |-> kControlSessionId, message |-> NoMessage,
     answers |-> answers]
Says(m, answers) ==
    [stype |-> "Data", byte3 |-> 0, device |-> DefaultDevice, message |-> m, answers |-> answers]
OfDevice(n, frame) == [frame EXCEPT !.device = n]
Garbage == Control("Garbage", 0, FALSE)
Undecodable == Control("Undecodable", 0, FALSE)

Event(ceid, w, slot) ==
    make(6, 11, w, make_s6f11(1, ceid, <<[rptid |-> 3003,
        values |-> <<Ascii(<<87>>), Item("U1", <<slot>>), Item("U2", <<12>>)>>]>>).body)
Alarm(alcd, alid) == make_s5f1(alcd, alid, <<88>>)

Simple == {AnyItem, Star("L"), Star("U4"), Star("A"), Exact(U4(7)), Exact(Ascii(<<65, 66>>)),
           Exact(Ascii(<<>>)), Exact(Item("I1", <<-128, 127>>)), Exact(Item("U2", <<65535>>)),
           Exact(Item("BOOLEAN", <<1, 0>>)), Exact(Item("F8", <<3>>)), PList(<<>>)}
Patterns == Simple \union {PList(<<Exact(U4(1)), p>>) : p \in Simple}
              \union {PList(<<PList(<<Star("A"), AnyItem>>), Exact(Binary(0))>>)}
Items == {p \in Simple : p.kind = "Exact"}
           \union {PList(<<>>), PList(<<Exact(U4(1)), PList(<<Exact(Ascii(<<65>>)), PList(<<>>)>>)>>)}
Bodies == {<<>>, <<U4(7)>>, <<Ascii(<<65, 66>>)>>, <<List(<<U4(1), U4(7)>>)>>}

BadLines == {<<T("jump")>>, <<T("send"), SF(128, 1)>>, <<T("send"), SF(1, 3), Opt("device", <<65536>>)>>,
    <<T("send"), SF(1, 3), Opt("retry", <<1>>)>>, <<T("send"), SF(1, 3), T("*")>>,
    <<T("send"), SF(1, 3), T("L"), T("["), T("*"), T("]")>>,
    <<T("send"), SF(1, 3), T("U1"), T("["), N(256), T("]")>>,
    <<T("send"), SF(1, 3), T("U1"), T("["), N(-1), T("]")>>,
    <<T("send"), SF(1, 3), T("U4"), T("["), N(1)>>, <<T("send"), SF(1, 3), T("L"), T("["), T("U4")>>,
    <<T("send"), SF(1, 3), T("A"), T("["), N(1), T("]")>>, <<T("send"), SF(1, 3), T("Q"), T("[")>>,
    <<T("expect"), SF(1, 4), T("*"), T("*")>>, <<T("expect"), SF(1, 4), Opt("timeout", <<-1, 1>>)>>,
    <<T("expect-status"), N(4001)>>, <<T("wait-alarm"), N(1001), T("on")>>,
    <<T("wait-event"), N(2004), T("SLOT")>>, <<T("select"), Opt("status", <<256>>)>>,
    <<T("assert"), Named("event.", "SLOT", <<>>), T("within"), N(1), Named("+-", "", <<-1>>)>>,
    <<T("assert"), T("SLOT"), T("=="), N(1)>>, <<T("raw"), N(256)>>, <<T("raw")>>,
    <<T("connect"), Named("$", "HOST", <<>>)>>, <<T("connect"), N(65536)>>, <<T("auto-ack")>>}

Slot == Named("event.", "SLOT", <<>>)
Alid == Named("alarm.", "ALID", <<>>)
Altx == Named("alarm.", "ALTX", <<>>)
InSlot(n) == <<Named("field=", "WAFER_ID", <<87>>), Named("field=", "SLOT", <<48 + n>>)>>
Events == {OfDevice(3, Says(Event(2004, TRUE, 1), FALSE)), Says(Event(2004, FALSE, 2), FALSE),
           Says(Alarm(129, 1001), FALSE), Says(Alarm(1, 1001), FALSE)}
Links == {Control("SelectRsp", 0, TRUE), Control("SelectRsp", 1, TRUE),
          Control("LinktestRsp", 0, TRUE), Control("DeselectRsp", 0, TRUE), Control("DeselectRsp", 1, TRUE),
          Control("LinktestReq", 0, FALSE), Garbage}
Status4(v) == Says(make_s1f4(<<Item("U1", <<v>>)>>), TRUE)

\* Several messages, with every W-bit and device; then messages with events, alarms and
\* linktests to be answered between them, over one connection and over two.
Flags == {<<>>, <<TRUE>>, <<FALSE>>}
Sends == {<<Connect, SendAs(1, f, w, d, <<>>), SendAs(6, 12, v, <<65535>>, <<Exact(Binary(0))>>),
            Within(20, WaitEvent(2004, <<>>)), SendAs(1, 13, <<FALSE>>, d, <<>>)>> :
              f \in {3, 4}, w \in Flags, v \in Flags, d \in {<<>>, <<7>>}}
Requests == {OfDevice(3, Says(Event(2004, TRUE, 1), FALSE)), Says(Alarm(129, 1001), FALSE),
             Control("LinktestReq", 0, FALSE), Control("LinktestRsp", 0, TRUE)}
Talks == {<<Connect, SendAs(1, 3, <<>>, <<>>, <<>>), Sleep, SendAs(2, 41, <<FALSE>>, <<7>>, <<Exact(U4(7))>>),
            WaitEvent(2004, <<>>), SendAs(6, 12, <<>>, <<>>, <<Exact(Binary(0))>>)>>,
          <<Connect, SendAs(1, 1, <<>>, <<>>, <<>>), Plain("linktest", "Linktest"), Connect,
            SendAs(1, 1, <<>>, <<>>, <<>>), RawBytes, SendAs(1, 2, <<TRUE>>, <<0>>, <<PList(<<>>)>>),
            Plain("separate", "Separate")>>}

MCScenarios ==
    {Scenario(<<Connect, Send(1, 3, p)>>, {}) : p \in Items}
      \union {Scenario(<<Connect, Expect(1, 4, p)>>, {Says(make(1, 4, FALSE, b), FALSE) : b \in Bodies}) :
                p \in Patterns}
      \union {NoScript(<<<<T("disconnect"), T("#"), T("jump")>>, <<T("#")>>, line>>) : line \in BadLines}
      \union {Scenario(s, {OfDevice(3, Says(Event(2004, TRUE, 1), FALSE))}) : s \in Sends}
      \union {Scenario(s, Requests) : s \in Talks}
      \union {Scenario(s, Links) : s \in
                {<<Connect, Plain("select", "Select"), Plain("linktest", "Linktest"),
                   Plain("deselect", "Deselect")>>,
                 <<Connect, WithStatus("select", "Select", 1), WithStatus("deselect", "Deselect", 1),
                   Plain("separate", "Separate"), Within(100, Plain("expect-closed", "ExpectClosed"))>>,
                 <<Connect, Plain("separate", "Separate"), Plain("expect-closed", "ExpectClosed")>>,
                 <<Connect, Plain("linktest", "Linktest"), Connect, Plain("linktest", "Linktest")>>}}
      \union {Scenario(s, Events) : s \in
                {<<Connect, Within(50, ExpectNo(6, 11)), Within(2000, WaitAlarm(1001, TRUE)),
                   Asserts(Altx, <<T("=="), Str(<<88>>)>>, [AssertOf(Altx) EXCEPT !.text = <<88>>])>>,
                 <<Connect, Within(300, WaitEvent(2004, InSlot(2))),
                   Asserts(Slot, <<T("within"), N(1), Named("+-", "", <<1>>)>>,
                          [AssertOf(Slot) EXCEPT !.op = "Within", !.number = 1, !.tolerance = 1]),
                   WaitEvent(2004, InSlot(1))>>,
                 <<Connect, WaitEvent(2004, <<>>), Plain("disconnect", "Disconnect"), Connect,
                   WaitAlarm(1001, FALSE)>>,
                 <<Connect, AutoAck(FALSE), Sleep, WaitEvent(2004, <<>>),
                   Asserts(Alid, <<T("!="), N(1)>>,
                          [AssertOf(Alid) EXCEPT !.op = "NotEqual", !.number = 1, !.value_is_number = TRUE])>>}}
      \union {Scenario(<<Connect, RawBytes, Within(400, Status(4001, Exact(Item("U1", <<3>>)))), ExpectNo(6, 11)>>,
                       {Status4(1), Status4(3), Says(Event(2004, TRUE, 1), FALSE), Undecodable})}
      \union {Scenario(<<Plain("linktest", "Linktest")>>, {}), Scenario(<<ExpectNo(1, 4)>>, {})}
=============================================================================
