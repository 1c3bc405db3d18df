------------------------------- MODULE MCWire -------------------------------
(* Conversations for model checking Wire. *)
EXTENDS Wire

RECURSIVE Nested(_)
Nested(n) == List(IF n = 1 THEN <<>> ELSE <<Nested(n - 1)>>)

\* Elements at the edges of every format.
Elements(f) ==
    CASE f = "I1" -> {-128, -1, 0, 127}
      [] f = "I2" -> {-32768, -1, 255, 32767}
      [] f \in {"I4", "I8"} -> {-2147483647, -256, 65536, 2147483647}
      [] f = "U2" -> {0, 256, 65535}
      [] f \in {"U4", "U8", "F4", "F8"} -> {0, 255, 16777216, 2147483647}
      [] OTHER -> {0, 1, 255}

Arrays == {Item(f, <<v>>) : f \in {"I1"}, v \in Elements("I1")} \union
          UNION {{Item(f, <<>>)} \union {Item(f, <<v>>) : v \in Elements(f)}
                   \union {Item(f, <<v, 1>>) : v \in Elements(f)} : f \in Formats \ {"L", "J"}}
Lists == {List(<<>>), List(<<List(<<>>), U4(7)>>), List(<<U4(1), Ascii(Text), List(<<Binary(2)>>)>>),
          Nested(kMaxNestingDepth - 1), Nested(kMaxNestingDepth), Nested(kMaxNestingDepth + 1),
          List(<<U4(1), Nested(kMaxNestingDepth)>>),
          Ascii([i \in 1..256 |-> 65])}

Message(m) == [kind |-> "message", message |-> m]
Raw(b) == [kind |-> "raw", bytes |-> b]
DataFrame(device, s, f, bytes) == encode_frame(make_data_frame(device, s, f, TRUE, 1, bytes))

\* Messages with every item as their body, under numbers the catalogue knows and not.
Carrying == {Message(make(1, 3, TRUE, <<item>>)) : item \in Arrays \union Lists}
              \union {Message(make(s, f, FALSE, <<List(<<>>)>>)) :
                        s \in {0, 1, 2, 5, 127}, f \in {0, 1, 13, 14, 15, 41, 255}}

Param(n, v) == [name |-> n, value |-> v]

\* Bodies the machine takes whose answers are long: as many status values as fit a frame, one
\* more, and a command with many parameters.  And a body too large for any frame.
Large == {make(1, 3, TRUE, <<List(<<Item("U2", [i \in 1..n |-> 4005])>>)>>) : n \in 48..49}
           \union {make_s2f41(START, [i \in 1..30 |-> Param(<<>>, Ascii(<<>>))]),
                   make(1, 3, TRUE, <<Ascii([i \in 1..(MaxFrameBytes - kHeaderSize) |-> 65])>>)}

FromHost == {make_s1f1, make_s1f13, make_s1f15, make_s1f17, make_s5f2(0), make_s6f12(0),
             make_s1f3(<<>>), make_s1f3(<<4001, 4012, 9>>), make(1, 13, TRUE, <<>>),
             make_s2f41(Text, <<>>), make_s2f41(START, <<Param(<<>>, Nested(3))>>),
             make_s2f41(<<66>>, <<>>), make_s2f41(START, <<>>), make_s2f41(CLEAR_ALARM, <<>>),
             make(2, 41, TRUE, <<List(<<Ascii(Text), List(<<Ascii(Text)>>)>>)>>)} \union Large

\* Commands with one or two parameters, right and wrong.
Values == {Ascii(Text), Ascii(<<>>), Ascii(<<65, 47>>), Ascii([i \in 1..33 |-> 65]),
           U4(1001), U4(1009), Item("U2", <<1008>>), Item("U1", <<1, 2>>)}
Commanding ==
    {make_s2f41(c, <<Param(n, v)>>) : c \in {START, CLEAR_ALARM, <<66>>},
                                      n \in {WAFER_ID, CASSETTE_ID, ALID}, v \in Values}
      \union {make_s2f41(START, <<Param(WAFER_ID, v), Param(n, Ascii(Text))>>) :
                n \in {WAFER_ID, ALID}, v \in Values}

FromMachine == {send_event(1, ceid) : ceid \in {2001, 2002, 2004, 2005, 2006, 2008}}
                 \union {send_alarm(set, 1001) : set \in BOOLEAN}
Reported(m) == [kind |-> "report", message |-> m]

\* Bodies over the bytes that matter: format codes, lengths, data.
Alphabet == {0, 1, 2, 3, 33, 37, 65, 105, 113, 165, 177}
RawBodies == {<<a>> : a \in Alphabet} \union {<<a, b>> : a \in Alphabet, b \in Alphabet}
               \union {<<a, b, c>> : a \in Alphabet, b \in {0, 1, 2}, c \in Alphabet}
               \union {<<1, a, b, c, d>> : a \in 1..2, b \in {1, 33, 165}, c \in 0..2, d \in {0, 1}}
               \union {[i \in 1..(2 * n) |-> IF i = 2 * n THEN 0 ELSE 1] :
                         n \in (kMaxNestingDepth - 1)..(kMaxNestingDepth + 2)}
RawFrames == {DataFrame(DeviceId, 1, 3, b) : b \in RawBodies}
               \union {DataFrame(DeviceId + 1, 1, 1, <<>>)}
BadFrames == {store_be(length, 4) \o <<1, 2>> : length \in {0, 9, MaxFrameBytes + 1, 2147483647}}

Few == {Message(make_s1f1), Message(make_s1f3(<<4001>>)), [kind |-> "control", stype |-> "LinktestReq"],
        Raw(DataFrame(DeviceId, 1, 3, <<1>>))}

MCConversations ==
    {<<c>> : c \in Carrying} \union {<<Message(m)>> : m \in FromHost \union Commanding}
      \union {<<Reported(m)>> : m \in FromMachine}
      \union {<<Raw(b)>> : b \in RawFrames \union BadFrames}
      \union {<<a, b, c>> : a \in Few, b \in Few, c \in Few \union {Raw(r) : r \in BadFrames}}
=============================================================================
