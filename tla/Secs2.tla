------------------------------- MODULE Secs2 -------------------------------
(***************************************************************************)
(* SECS-II items and their bytes on the wire (secsgem/secs2/item, codec).  *)
(* An item is a list of items or an array of elements of one format.  An   *)
(* ASCII character is its code; a float is its bit pattern, as memcpy      *)
(* takes it.  TLC's integers have 32 bits, so the elements of the 4- and   *)
(* 8-byte formats lie between -2^31 and 2^31 - 1 here.                     *)
(***************************************************************************)
EXTENDS Integers, Sequences, SequencesExt

CONSTANTS
    kMaxNestingDepth    \* 32 in the code

kMaxItemLength == 16777215

\* enum class Format.
Codes == [L |-> 0, B |-> 8, BOOLEAN |-> 9, A |-> 16, J |-> 17, I8 |-> 24, I1 |-> 25, I2 |-> 26,
          I4 |-> 28, F8 |-> 32, F4 |-> 36, U8 |-> 40, U1 |-> 41, U2 |-> 42, U4 |-> 44]
Formats == DOMAIN Codes
is_supported(format) == format /= "J"
SignedFormats == {"I1", "I2", "I4", "I8"}

element_size(format) == CASE format = "L" -> 0
                          [] format \in {"B", "BOOLEAN", "A", "J", "I1", "U1"} -> 1
                          [] format \in {"I2", "U2"} -> 2
                          [] format \in {"I4", "U4", "F4"} -> 4
                          [] format \in {"I8", "U8", "F8"} -> 8

Item(f, v) == [format |-> f, entries |-> v]
List(items) == Item("L", items)
is_list(item) == item.format = "L"
count(item) == Len(item.entries)

-----------------------------------------------------------------------------
(* Big-endian elements. *)

load_be(bytes) == FoldLeft(LAMBDA v, b : v * 256 + b, 0, bytes)

\* Byte i of width, most significant first: v >> (8 * (width - i)).  TLA+'s \div
\* rounds down, so the bytes of a negative number are those of its unsigned twin.
store_be(v, width) ==
    [i \in 1..width |-> IF width - i > 3 THEN IF v < 0 THEN 255 ELSE 0
                        ELSE (v \div 256 ^ (width - i)) % 256]

element_from_bytes(format, bytes) ==
    IF format \in SignedFormats /\ bytes[1] >= 128
    THEN -1 - load_be([i \in DOMAIN bytes |-> 255 - bytes[i]])
    ELSE load_be(bytes)

element_to_bytes(format, v) ==
    IF format = "BOOLEAN" THEN <<IF v /= 0 THEN 1 ELSE 0>> ELSE store_be(v, element_size(format))

-----------------------------------------------------------------------------
(* Decoding.  A result is [ok, item, rest] or [ok, error]; rest is what the  *)
(* reader has left.                                                          *)

Err(what) == [ok |-> FALSE, error |-> what]
Decoded(it, left) == [ok |-> TRUE, item |-> it, rest |-> left]

\* The formats parse_format() knows for a code: one at most.
parse_format(code) == {f \in Formats : Codes[f] = code /\ is_supported(f)}

build_array(format, bytes) ==
    LET size == element_size(format)
    IN Item(format, [i \in 1..(Len(bytes) \div size) |->
                     element_from_bytes(format, SubSeq(bytes, (i - 1) * size + 1, i * size))])

RECURSIVE decode_at_depth(_, _)
RECURSIVE decode_children(_, _, _, _)

\* The loop over a list's items.
decode_children(n, bytes, depth, items) ==
    IF n = 0 THEN Decoded(List(items), bytes)
    ELSE LET child == decode_at_depth(bytes, depth + 1)
         IN IF child.ok THEN decode_children(n - 1, child.rest, depth, Append(items, child.item))
            ELSE child

\* Mutant: one list too many is let in.
decode_list_deep(length, rest, depth) ==
    IF depth > kMaxNestingDepth THEN Err("kErrTooDeep")
    ELSE IF length > Len(rest) \div 2 THEN Err("kErrListCountTooLarge")
    ELSE decode_children(length, rest, depth, <<>>)

decode_list(length, rest, depth) ==
    IF depth >= kMaxNestingDepth THEN Err("kErrTooDeep")
    ELSE IF length > Len(rest) \div 2 THEN Err("kErrListCountTooLarge")
    ELSE decode_children(length, rest, depth, <<>>)

decode_array(format, length, rest) ==
    IF length > Len(rest) THEN Err("kErrTruncated")
    ELSE IF length % element_size(format) /= 0 THEN Err("kErrBadLength")
    ELSE Decoded(build_array(format, SubSeq(rest, 1, length)),
                 SubSeq(rest, length + 1, Len(rest)))

decode_at_depth(bytes, depth) ==
    IF bytes = <<>> THEN Err("kErrTruncated")
    ELSE LET length_bytes == bytes[1] % 4
             known == parse_format(bytes[1] \div 4)
             format == CHOOSE f \in known : TRUE
             length == load_be(SubSeq(bytes, 2, 1 + length_bytes))
             rest == SubSeq(bytes, 2 + length_bytes, Len(bytes))
         IN IF length_bytes = 0 THEN Err("kErrBadLengthBytes")
            ELSE IF known = {} THEN Err("kErrUnsupportedFormat")
            ELSE IF Len(bytes) - 1 < length_bytes THEN Err("kErrTruncated")
            ELSE IF format = "L" THEN decode_list(length, rest, depth)
            ELSE decode_array(format, length, rest)

decode_body(bytes) ==
    LET decoded == decode_at_depth(bytes, 0)
    IN IF decoded.ok /\ decoded.rest /= <<>> THEN Err("kErrTrailingBytes") ELSE decoded

-----------------------------------------------------------------------------
(* Encoding.  A result is [ok, bytes] or [ok, error]. *)

Encoded(out) == [ok |-> TRUE, bytes |-> out]

\* The header of an item whose length field says length: the fewest length bytes do.
encode_header(format, length) ==
    LET length_bytes == IF length > 65535 THEN 3 ELSE IF length > 255 THEN 2 ELSE 1
    IN <<Codes[format] * 4 + length_bytes>> \o store_be(length, length_bytes)

append_array(item) ==
    LET size == element_size(item.format)
    IN [k \in 1..(count(item) * size) |->
        element_to_bytes(item.format, item.entries[((k - 1) \div size) + 1])[((k - 1) % size) + 1]]

RECURSIVE encode_at_depth(_, _)
RECURSIVE encode_children(_, _, _)

\* The loop over a list's items.
encode_children(items, depth, out) ==
    IF items = <<>> THEN Encoded(out)
    ELSE LET child == encode_at_depth(Head(items), depth + 1)
         IN IF child.ok THEN encode_children(Tail(items), depth, out \o child.bytes) ELSE child

encode_at_depth(item, depth) ==
    LET length == IF is_list(item) THEN count(item) ELSE count(item) * element_size(item.format)
        header == encode_header(item.format, length)
    IN IF is_list(item) /\ depth >= kMaxNestingDepth THEN Err("kErrTooDeep")
       ELSE IF ~is_supported(item.format) THEN Err("kErrUnsupportedFormat")
       ELSE IF length > kMaxItemLength THEN Err("kErrTooLong")
       ELSE IF is_list(item) THEN encode_children(item.entries, depth, header)
       ELSE Encoded(header \o append_array(item))

encode(item) == encode_at_depth(item, 0)
=============================================================================
