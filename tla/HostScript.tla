----------------------------- MODULE HostScript -----------------------------
(***************************************************************************)
(* The script language of the host simulator (host_sim/script).  A script  *)
(* is a sequence of lines, a line a sequence of tokens; the commands of a  *)
(* script are <<commands>>, or <<>> if some line does not parse.           *)
(***************************************************************************)
EXTENDS HostPattern

Opt(name, value) == [word |-> "option", name |-> name, value |-> value]
SF(stream, function) == [word |-> "SxFy", name |-> "", value |-> <<stream, function>>]
Named(word, name, value) == [word |-> word, name |-> name, value |-> value]

\* struct Command and its defaults; times are in milliseconds.
NoCommand ==
    [kind |-> "Disconnect", line |-> 0, status |-> 0, stream |-> 0, function |-> 0,
     w_bit |-> <<>>, device |-> <<>>, body |-> <<>>, pattern |-> <<>>, timeout |-> 5000, id |-> 0,
     event_filters |-> <<>>, alarm_set |-> TRUE, field |-> <<>>, op |-> "Equal", number |-> 0,
     tolerance |-> 0, text |-> <<>>, value_is_number |-> FALSE, flag |-> TRUE, raw |-> <<>>]

strip_comment(line) ==
    LET hash == SelectInSeq(line, LAMBDA t : t.word = "#")
    IN IF hash = 0 THEN line ELSE SubSeq(line, 1, hash - 1)

\* <<the line with every $NAME replaced>>, or <<>> if one is unknown.
substitute(line, variables) ==
    IF \E i \in DOMAIN line : line[i].word = "$" /\ line[i].name \notin DOMAIN variables THEN <<>>
    ELSE <<[i \in DOMAIN line |->
              IF line[i].word = "$" THEN variables[line[i].name] ELSE line[i]]>>

parse_uint(t) == t.word = "number" /\ t.value[1] >= 0
parse_sf(t) == t.word = "SxFy" /\ t.value[1] \in 0..127 /\ t.value[2] \in 0..255

\* <<milliseconds>> of a number and its unit in milliseconds; the limit is on the number.
parse_duration(value) ==
    IF Len(value) = 2 /\ value[1] \in 0..3600000 THEN <<value[1] * value[2]>> ELSE <<>>

\* The leading options; the rest is item text, filters or an error of the caller.
NoOptions == [ok |-> TRUE, timeout |-> <<>>, device |-> <<>>, status |-> <<>>, w_bit |-> <<>>,
              rest |-> <<>>]
RECURSIVE take_options(_, _)
take_options(ts, opts) ==
    IF ts = <<>> \/ Head(ts).word /= "option" THEN [opts EXCEPT !.rest = ts]
    ELSE LET t == Head(ts)
             number(high) == Len(t.value) = 1 /\ t.value[1] \in 0..high
         IN CASE t.name = "nowait" -> take_options(Tail(ts), [opts EXCEPT !.w_bit = <<FALSE>>])
              [] t.name = "W" -> take_options(Tail(ts), [opts EXCEPT !.w_bit = <<TRUE>>])
              [] t.name = "timeout" /\ parse_duration(t.value) /= <<>> ->
                   take_options(Tail(ts), [opts EXCEPT !.timeout = parse_duration(t.value)])
              [] t.name = "device" /\ number(65535) ->
                   take_options(Tail(ts), [opts EXCEPT !.device = t.value])
              [] t.name = "status" /\ number(255) ->
                   take_options(Tail(ts), [opts EXCEPT !.status = t.value])
              [] OTHER -> [opts EXCEPT !.ok = FALSE]

Timeout(opts, default) == IF opts.timeout = <<>> THEN default ELSE opts.timeout[1]

-----------------------------------------------------------------------------
(* The branches of parse_script().  rest is the line after its verb. *)

Command(kind) == <<[NoCommand EXCEPT !.kind = kind]>>

\* connect HOST:PORT, with the host left out.
ParseConnect(rest) ==
    IF Len(rest) = 1 /\ parse_uint(rest[1]) /\ rest[1].value[1] <= 65535 THEN Command("Connect")
    ELSE <<>>

ParseHandshake(kind, rest) ==
    LET opts == take_options(rest, NoOptions)
    IN IF opts.ok /\ opts.rest = <<>>
       THEN <<[NoCommand EXCEPT !.kind = kind,
                                !.status = IF opts.status = <<>> THEN 0 ELSE opts.status[1]]>>
       ELSE <<>>

ReadText(kind, ts) == IF kind = "Send" THEN parse_item(ts) ELSE parse_pattern(ts)

\* send, expect and expect-no.
ParseMessage(kind, rest) ==
    LET opts == take_options(Tail(rest), NoOptions)
        read == ReadText(kind, opts.rest)
    IN IF rest = <<>> \/ ~parse_sf(rest[1]) \/ ~opts.ok \/ (opts.rest /= <<>> /\ read = <<>>)
       THEN <<>>
       ELSE <<[NoCommand EXCEPT !.kind = kind, !.stream = rest[1].value[1],
                 !.function = rest[1].value[2], !.w_bit = opts.w_bit, !.device = opts.device,
                 !.timeout = Timeout(opts, IF kind = "ExpectNo" THEN 1000 ELSE 5000),
                 !.body = IF kind = "Send" /\ opts.rest /= <<>> THEN read ELSE <<>>,
                 !.pattern = IF kind /= "Send" /\ opts.rest /= <<>> THEN read ELSE <<>>]>>

ParseWaitEvent(rest) ==
    LET opts == take_options(Tail(rest), NoOptions)
    IN IF \/ rest = <<>> \/ ~parse_uint(rest[1]) \/ ~opts.ok
          \/ \E i \in DOMAIN opts.rest : opts.rest[i].word /= "field=" \/ opts.rest[i].value = <<>>
       THEN <<>>
       ELSE <<[NoCommand EXCEPT !.kind = "WaitEvent", !.id = rest[1].value[1],
                 !.timeout = Timeout(opts, 5000), !.event_filters = opts.rest]>>

ParseWaitAlarm(rest) ==
    LET opts == take_options(SubSeq(rest, 3, Len(rest)), NoOptions)
    IN IF \/ Len(rest) < 2 \/ ~parse_uint(rest[1]) \/ rest[2].word \notin {"set", "clear"}
          \/ ~opts.ok \/ opts.rest /= <<>>
       THEN <<>>
       ELSE <<[NoCommand EXCEPT !.kind = "WaitAlarm", !.id = rest[1].value[1],
                 !.alarm_set = (rest[2].word = "set"), !.timeout = Timeout(opts, 5000)]>>

ParseExpectClosed(rest) ==
    LET opts == take_options(rest, NoOptions)
    IN IF opts.ok /\ opts.rest = <<>>
       THEN <<[NoCommand EXCEPT !.kind = "ExpectClosed", !.timeout = Timeout(opts, 5000)]>>
       ELSE <<>>

ParseExpectStatus(rest) ==
    LET opts == take_options(Tail(rest), NoOptions)
    IN IF rest = <<>> \/ ~parse_uint(rest[1]) \/ ~opts.ok \/ parse_pattern(opts.rest) = <<>>
       THEN <<>>
       ELSE <<[NoCommand EXCEPT !.kind = "ExpectStatus", !.id = rest[1].value[1],
                 !.pattern = parse_pattern(opts.rest), !.timeout = Timeout(opts, 5000)]>>

\* assert event.F or alarm.F within C +-T, == V, != V; V is a number, a string or a word.
ParseAssert(rest) ==
    LET op == IF Len(rest) >= 3 THEN rest[2].word ELSE "none"
        read == [NoCommand EXCEPT !.kind = "Assert", !.field = <<rest[1].word, rest[1].name>>]
    IN CASE rest = <<>> \/ rest[1].word \notin {"event.", "alarm."} -> <<>>
         [] op = "within" ->
              IF /\ Len(rest) = 4 /\ rest[3].word = "number"
                 /\ rest[4].word = "+-" /\ Len(rest[4].value) = 1 /\ rest[4].value[1] >= 0
              THEN <<[read EXCEPT !.op = "Within", !.number = rest[3].value[1],
                                  !.tolerance = rest[4].value[1]]>>
              ELSE <<>>
         [] op \in {"==", "!="} ->
              <<[read EXCEPT !.op = IF op = "==" THEN "Equal" ELSE "NotEqual",
                   !.value_is_number = (rest[3].word = "number"),
                   !.number = IF rest[3].word = "number" THEN rest[3].value[1] ELSE 0,
                   !.text = IF rest[3].word = "string" THEN rest[3].value
                            ELSE IF rest[3].word = "true" THEN TrueText ELSE <<>>]>>
         [] OTHER -> <<>>

ParseRaw(rest) ==
    IF rest = <<>> \/ \E i \in DOMAIN rest : ~parse_uint(rest[i]) \/ rest[i].value[1] > 255 THEN <<>>
    ELSE <<[NoCommand EXCEPT !.kind = "Raw", !.raw = [i \in DOMAIN rest |-> rest[i].value[1]]]>>

ParseSleep(rest) ==
    LET d == IF Len(rest) = 1 THEN parse_duration(rest[1].value) ELSE <<>>
    IN IF d = <<>> THEN <<>> ELSE <<[NoCommand EXCEPT !.kind = "Sleep", !.timeout = d[1]]>>

\* One line.  The words after linktest, separate and disconnect are not looked at.
ParseLine(verb, rest) ==
    CASE verb = "connect" -> ParseConnect(rest)
      [] verb = "select" -> ParseHandshake("Select", rest)
      [] verb = "deselect" -> ParseHandshake("Deselect", rest)
      [] verb = "linktest" -> Command("Linktest")
      [] verb = "separate" -> Command("Separate")
      [] verb = "disconnect" -> Command("Disconnect")
      [] verb = "send" -> ParseMessage("Send", rest)
      [] verb = "expect" -> ParseMessage("Expect", rest)
      [] verb = "expect-no" -> ParseMessage("ExpectNo", rest)
      [] verb = "wait-event" -> ParseWaitEvent(rest)
      [] verb = "wait-alarm" -> ParseWaitAlarm(rest)
      [] verb = "expect-closed" -> ParseExpectClosed(rest)
      [] verb = "expect-status" -> ParseExpectStatus(rest)
      [] verb = "assert" -> ParseAssert(rest)
      [] verb = "auto-ack" ->
           IF Len(rest) = 1 /\ rest[1].word \in {"on", "off"}
           THEN <<[NoCommand EXCEPT !.kind = "AutoAck", !.flag = (rest[1].word = "on")]>> ELSE <<>>
      [] verb = "sleep" -> ParseSleep(rest)
      [] verb = "raw" -> ParseRaw(rest)
      [] OTHER -> <<>>

RECURSIVE ParseLines(_, _, _, _)
ParseLines(lines, number, variables, commands) ==
    IF number > Len(lines) THEN <<commands>>
    ELSE LET stripped == strip_comment(lines[number])
             line == substitute(stripped, variables)
             command == ParseLine(line[1][1].word, Tail(line[1]))
         IN IF stripped = <<>> THEN ParseLines(lines, number + 1, variables, commands)
            ELSE IF line = <<>> \/ command = <<>> THEN <<>>
            ELSE ParseLines(lines, number + 1, variables,
                            Append(commands, [command[1] EXCEPT !.line = number]))

parse_script(lines, variables) == ParseLines(lines, 1, variables, <<>>)
=============================================================================
