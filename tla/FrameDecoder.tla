---------------------------- MODULE FrameDecoder ----------------------------
(***************************************************************************)
(* HSMS frames, their bytes, and the decoder that cuts a stream of bytes   *)
(* back into frames (secsgem/hsms/frame, frame_decoder, data_message).  A  *)
(* decoder is the record of its members; feed() returns the frames with    *)
(* the decoder it leaves.                                                  *)
(***************************************************************************)
EXTENDS Secs2

CONSTANTS
    MaxFrameBytes       \* comm.max_frame_bytes

kLengthFieldSize == 4
kHeaderSize == 10
kControlSessionId == 65535

SType == [Data |-> 0, SelectReq |-> 1, SelectRsp |-> 2, DeselectReq |-> 3, DeselectRsp |-> 4,
          LinktestReq |-> 5, LinktestRsp |-> 6, RejectReq |-> 7, SeparateReq |-> 9]

make_control_frame(type, system, b2, b3) ==
    [header |-> [session_id |-> kControlSessionId, byte2 |-> b2, byte3 |-> b3, ptype |-> 0,
                 stype |-> SType[type], system_bytes |-> system],
     body |-> <<>>]

make_data_frame(session, stream, function, w, system, bytes) ==
    [header |-> [session_id |-> session, byte2 |-> (stream % 128) + (IF w THEN 128 ELSE 0),
                 byte3 |-> function, ptype |-> 0, stype |-> SType.Data,
                 system_bytes |-> system],
     body |-> bytes]

header_bytes(h) == store_be(h.session_id, 2) \o <<h.byte2, h.byte3, h.ptype, h.stype>>
                     \o store_be(h.system_bytes, 4)

\* Every body of the model fits the 32-bit length.
encode_frame(frame) ==
    store_be(kHeaderSize + Len(frame.body), kLengthFieldSize) \o header_bytes(frame.header)
      \o frame.body

-----------------------------------------------------------------------------
NewDecoder == [buffer_ |-> <<>>, failed_ |-> FALSE]

\* Mutant: the body ends at the length, counted from the front of the buffer.
FrameAt_short(bytes, length) ==
    LET h == SubSeq(bytes, kLengthFieldSize + 1, kLengthFieldSize + kHeaderSize)
    IN [header |-> [session_id |-> load_be(SubSeq(h, 1, 2)), byte2 |-> h[3], byte3 |-> h[4],
                    ptype |-> h[5], stype |-> h[6], system_bytes |-> load_be(SubSeq(h, 7, 10))],
        body |-> SubSeq(bytes, kLengthFieldSize + kHeaderSize + 1, length)]

FrameAt(bytes, length) ==
    LET h == SubSeq(bytes, kLengthFieldSize + 1, kLengthFieldSize + kHeaderSize)
    IN [header |-> [session_id |-> load_be(SubSeq(h, 1, 2)), byte2 |-> h[3], byte3 |-> h[4],
                    ptype |-> h[5], stype |-> h[6], system_bytes |-> load_be(SubSeq(h, 7, 10))],
        body |-> SubSeq(bytes, kLengthFieldSize + kHeaderSize + 1, kLengthFieldSize + length)]

\* Mutant: the length field is not counted.
BadLength_loose(length) == length < kHeaderSize \/ length > MaxFrameBytes + kLengthFieldSize

BadLength(length) == length < kHeaderSize \/ length > MaxFrameBytes

RECURSIVE TakeFrames(_, _)

\* The loop of feed().  A bad length loses the frames taken before it in the same call.
TakeFrames(bytes, taken) ==
    IF Len(bytes) < kLengthFieldSize
    THEN [frames |-> taken, decoder |-> [buffer_ |-> bytes, failed_ |-> FALSE]]
    ELSE LET length == load_be(SubSeq(bytes, 1, kLengthFieldSize))
         IN IF BadLength(length)
            THEN [frames |-> <<>>, decoder |-> [buffer_ |-> bytes, failed_ |-> TRUE]]
            ELSE IF Len(bytes) < kLengthFieldSize + length
            THEN [frames |-> taken, decoder |-> [buffer_ |-> bytes, failed_ |-> FALSE]]
            ELSE TakeFrames(SubSeq(bytes, kLengthFieldSize + length + 1, Len(bytes)),
                            Append(taken, FrameAt(bytes, length)))

feed(decoder, bytes) ==
    IF decoder.failed_ THEN [frames |-> <<>>, decoder |-> decoder]
    ELSE TakeFrames(decoder.buffer_ \o bytes, <<>>)

-----------------------------------------------------------------------------
(* Data messages.  A body is a sequence of at most one item. *)

\* data_message.cpp to_message().
to_message(frame) ==
    LET h == frame.header
        body == decode_body(frame.body)
    IN IF h.stype /= SType.Data THEN Err("kErrNotADataFrame")
       ELSE IF frame.body /= <<>> /\ ~body.ok THEN body
       ELSE [ok |-> TRUE,
             message |-> [stream |-> h.byte2 % 128, function |-> h.byte3,
                          w_bit |-> h.byte2 >= 128,
                          body |-> IF frame.body = <<>> THEN <<>> ELSE <<body.item>>]]
=============================================================================
