----------------------------- MODULE HostPattern -----------------------------
(***************************************************************************)
(* Items and patterns as a script of the host simulator writes them        *)
(* (host_sim/pattern), and how the simulator looks at received items.      *)
(*                                                                         *)
(* A text is a sequence of tokens [word, name, value]: a format name, "[", *)
(* "]", "*", a number, a string, an option...; value is a sequence of      *)
(* integers, for a string its characters.  A float stands for itself.      *)
(***************************************************************************)
EXTENDS GemMessages

T(word) == [word |-> word, name |-> "", value |-> <<>>]
N(number) == [word |-> "number", name |-> "", value |-> <<number>>]
Str(text) == [word |-> "string", name |-> "", value |-> text]

SyntaxError == [ok |-> FALSE]

\* struct Pattern; exact holds the item of an Exact pattern.
Pattern(kind, format, children, exact) ==
    [kind |-> kind, format |-> format, children |-> children, exact |-> exact]
AnyItem == Pattern("AnyItem", "L", <<>>, <<>>)
Exact(item) == Pattern("Exact", "L", <<>>, <<item>>)
Parsed(p, rest) == [ok |-> TRUE, pattern |-> p, rest |-> rest]

format_from_name(word) ==
    IF word = "BOOL" THEN <<"BOOLEAN">>
    ELSE IF word \in Formats \ {"J"} THEN <<word>> ELSE <<>>

-----------------------------------------------------------------------------
(* The parser.  Each operator returns what it read and the tokens that remain. *)

\* parse_unsigned(), parse_signed(), parse_float() and the words of a BOOLEAN: the element
\* a word of an array stands for, if it is one of the format.
Element(format, t) ==
    LET number == t.word = "number"
        within(low, high) == number /\ t.value[1] \in low..high
    IN CASE format = "BOOLEAN" ->
              IF t.word = "true" \/ within(1, 1) THEN <<1>>
              ELSE IF t.word = "false" \/ within(0, 0) THEN <<0>> ELSE <<>>
         [] \/ format \in {"B", "U1"} /\ within(0, 255)
            \/ format = "U2" /\ within(0, 65535)
            \/ format \in {"U4", "U8"} /\ number /\ t.value[1] >= 0
            \/ format = "I1" /\ within(-128, 127)
            \/ format = "I2" /\ within(-32768, 32767)
            \/ format \in {"I4", "I8", "F4", "F8"} /\ number -> t.value
         [] OTHER -> <<>>

\* read_words() takes every word up to the bracket, collect() and parse_array() make the item.
parse_array(format, ts) ==
    LET close == SelectInSeq(ts, LAMBDA t : t.word = "]")
        words == SubSeq(ts, 1, close - 1)
        read == [i \in DOMAIN words |-> Element(format, words[i])]
    IN IF close = 0 \/ (format = "A" /\ words /= <<>>) \/ \E i \in DOMAIN read : read[i] = <<>>
       THEN SyntaxError
       ELSE Parsed(Exact(Item(format, [i \in DOMAIN read |-> read[i][1]])),
                   SubSeq(ts, close + 1, Len(ts)))

RECURSIVE parse_node(_, _)

RECURSIVE parse_list(_, _, _)
parse_list(ts, wild, children) ==
    IF ts = <<>> THEN SyntaxError
    ELSE IF Head(ts).word = "]" THEN Parsed(Pattern("List", "L", children, <<>>), Tail(ts))
    ELSE LET child == parse_node(ts, wild)
         IN IF child.ok THEN parse_list(child.rest, wild, Append(children, child.pattern)) ELSE child

StarPattern(format) ==
    Pattern(IF format = "L" THEN "AnyList" ELSE "AnyOfFormat", format, <<>>, <<>>)

\* After "[" a star stands for the whole contents and must be closed at once.
parse_node(ts, wild) ==
    LET Word(i) == IF i \in DOMAIN ts THEN ts[i].word ELSE "end"
        After(n) == SubSeq(ts, n + 1, Len(ts))
        format == format_from_name(Word(1))
    IN CASE Word(1) = "*" -> IF wild THEN Parsed(AnyItem, After(1)) ELSE SyntaxError
         [] Word(1) /= "*" /\ format = <<>> -> SyntaxError
         [] format = <<"A">> /\ Word(2) = "string" -> Parsed(Exact(Ascii(ts[2].value)), After(2))
         [] format /= <<>> /\ Word(2) = "[" /\ Word(3) = "*" ->
              IF wild /\ Word(4) = "]" THEN Parsed(StarPattern(format[1]), After(4)) ELSE SyntaxError
         [] format = <<"L">> /\ Word(2) = "[" /\ Word(3) /= "*" -> parse_list(After(2), wild, <<>>)
         [] format \notin {<<>>, <<"L">>} /\ Word(2) = "[" /\ Word(3) /= "*" ->
              parse_array(format[1], After(2))
         [] OTHER -> SyntaxError

parse_all(ts, wild) ==
    LET node == parse_node(ts, wild)
    IN IF node.ok /\ node.rest /= <<>> THEN SyntaxError ELSE node

RECURSIVE to_item(_)
to_item(p) ==
    IF p.kind = "Exact" THEN p.exact[1]
    ELSE List([i \in DOMAIN p.children |-> to_item(p.children[i])])

\* Both return a sequence of at most one value; an item has no wildcards.
parse_item(ts) == LET p == parse_all(ts, FALSE) IN IF p.ok THEN <<to_item(p.pattern)>> ELSE <<>>
parse_pattern(ts) == LET p == parse_all(ts, TRUE) IN IF p.ok THEN <<p.pattern>> ELSE <<>>

RECURSIVE matches(_, _)
matches(p, item) ==
    CASE p.kind = "AnyItem" -> TRUE
      [] p.kind = "AnyOfFormat" -> item.format = p.format
      [] p.kind = "AnyList" -> is_list(item)
      [] p.kind = "Exact" -> item = p.exact[1]
      [] p.kind = "List" -> /\ is_list(item) /\ count(item) = Len(p.children)
                            /\ \A i \in DOMAIN p.children : matches(p.children[i], item.entries[i])

-----------------------------------------------------------------------------
(* Looking at received items (runner.cpp). *)

\* The first element of anything but text and lists.
as_number(item) ==
    IF item.format \in {"L", "A"} \/ count(item) = 0 THEN <<>> ELSE <<item.entries[1]>>

\* A text holds the number n if it is the digit n; TrueText is the word true.
TrueText == <<116>>
Digits(text) == IF Len(text) = 1 /\ text[1] \in 48..57 THEN <<text[1] - 48>> ELSE <<>>

item_equals_text(item, text) ==
    CASE is_ascii(item) -> item.entries = text
      [] as_number(item) = <<>> /\ ~is_ascii(item) -> FALSE
      [] item.format = "BOOLEAN" /\ as_number(item) /= <<>> ->
           (item.entries[1] /= 0) = (text = TrueText)
      [] OTHER -> as_number(item) = Digits(text)

\* find_event_field(): the value of a field, looked up by its name in the first report with it.
find_event_field(event, name) ==
    LET has == SelectSeq(event.reports, LAMBDA r : name \in Range(report_fields(r.rptid)))
        index == CHOOSE i \in DOMAIN report_fields(has[1].rptid) :
                    report_fields(has[1].rptid)[i] = name
    IN IF has /= <<>> /\ index <= Len(has[1].values) THEN <<has[1].values[index]>> ELSE <<>>
=============================================================================
