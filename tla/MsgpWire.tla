------------------------------ MODULE MsgpWire ------------------------------
(***************************************************************************)
(* The msgpack wire format, as the github.com/tinylib/msgp primitives used *)
(* by the generated code of cache.go write and read it.  A message is a    *)
(* sequence of bytes (integers in 0..255).  Writers return the bytes they  *)
(* append; a reader returns [ok, v, rest]: whether it succeeded, the value *)
(* read and the bytes after it.  On failure the value is the zero value    *)
(* the library returns with its error, and rest is empty.                  *)
(*                                                                         *)
(* Integers are kept within TLC's 32-bit range, so 9-byte (64-bit) values *)
(* are written by the same branches but never occur in a checked message.  *)
(***************************************************************************)
EXTENDS Integers, Sequences, SequencesExt

MaxInt32 == 2147483647
MinInt32 == -2147483647 - 1

\* Big-endian k-byte two's complement of n (\div floors, % is non-negative).
BE(n, k) == [j \in 1 .. k |-> (n \div 256^(k - j)) % 256]

\* Value of big-endian bytes, unsigned and two's complement.
UVal(bs) == FoldLeft(LAMBDA acc, x : acc * 256 + x, 0, bs)
SVal(bs) == (bs[1] - (IF bs[1] >= 128 THEN 256 ELSE 0)) * 256^(Len(bs) - 1)
            + UVal(Tail(bs))

Have(b, n) == Len(b) >= n
Drop(b, n) == SubSeq(b, n + 1, Len(b))
Fail(zero) == [ok |-> FALSE, v |-> zero, rest |-> <<>>]
Read(v, b, n) == [ok |-> TRUE, v |-> v, rest |-> Drop(b, n)]

-----------------------------------------------------------------------------
(* Writers.                                                                *)

\* msgp.AppendString: fixstr up to 31 bytes, then str8, str16, str32.
AppendString(s) ==
    LET n == Len(s) IN
    (IF n <= 31 THEN <<160 + n>>
     ELSE IF n <= 255 THEN <<217, n>>
     ELSE IF n <= 65535 THEN <<218>> \o BE(n, 2)
     ELSE <<219>> \o BE(n, 4)) \o s

\* msgp.AppendUint64 (AppendByte is AppendUint8, which widens to it).
AppendUint(u) ==
    IF u <= 127 THEN <<u>>
    ELSE IF u <= 255 THEN <<204, u>>
    ELSE IF u <= 65535 THEN <<205>> \o BE(u, 2)
    ELSE <<206>> \o BE(u, 4)

\* msgp.AppendInt64: the shortest signed form; non-negative values above
\* 127 use the signed int16/int32/int64 forms, not the unsigned ones.
AppendInt(i) ==
    IF i >= 0
    THEN IF i <= 127 THEN <<i>>
         ELSE IF i <= 32767 THEN <<209>> \o BE(i, 2)
         ELSE IF i <= MaxInt32 THEN <<210>> \o BE(i, 4)
         ELSE <<211>> \o BE(i, 8)
    ELSE IF i >= -32 THEN <<256 + i>>
         ELSE IF i >= -128 THEN <<208, 256 + i>>
         ELSE IF i >= -32768 THEN <<209>> \o BE(i, 2)
         ELSE IF i >= MinInt32 THEN <<210>> \o BE(i, 4)
         ELSE <<211>> \o BE(i, 8)

\* msgp.AppendMapHeader and msgp.AppendArrayHeader.
AppendMapHeader(n) ==
    IF n <= 15 THEN <<128 + n>>
    ELSE IF n <= 65535 THEN <<222>> \o BE(n, 2) ELSE <<223>> \o BE(n, 4)
AppendArrayHeader(n) ==
    IF n <= 15 THEN <<144 + n>>
    ELSE IF n <= 65535 THEN <<220>> \o BE(n, 2) ELSE <<221>> \o BE(n, 4)

\* Upper bounds the generated Msgsize methods add up.
ByteSize         == 2
IntSize          == 9
StringPrefixSize == 5
ArrayHeaderSize  == 5

-----------------------------------------------------------------------------
(* Readers.                                                                *)

\* Header width of a string whose first byte is l (0: not a string).
StrHeader(l) ==
    CASE l \in 160 .. 191 -> 1 [] l = 217 -> 2 [] l = 218 -> 3 [] l = 219 -> 5
      [] OTHER -> 0

\* msgp.ReadStringBytes; ReadMapKeyZC reads a key the same way (it also
\* takes bin keys, which no writer here produces).
ReadStringBytes(b) ==
    LET h == IF b = <<>> THEN 0 ELSE StrHeader(b[1])
        n == IF h = 1 THEN b[1] - 160 ELSE UVal(SubSeq(b, 2, h))
    IN  IF h = 0 \/ ~Have(b, h) \/ ~Have(b, h + n) THEN Fail(<<>>)
        ELSE Read(SubSeq(b, h + 1, h + n), b, h + n)

\* Width of an integer whose first byte is l (0: not an integer).
IntWidth(l) ==
    CASE l <= 127 \/ l >= 224 -> 1
      [] l \in {204, 208} -> 2 [] l \in {205, 209} -> 3
      [] l \in {206, 210} -> 5 [] l \in {207, 211} -> 9
      [] OTHER -> 0

\* msgp.ReadInt64Bytes (ReadIntBytes on 64-bit): any integer form.
ReadIntBytes(b) ==
    LET l == b[1]
        w == IntWidth(l)
    IN  IF b = <<>> \/ w = 0 \/ ~Have(b, w) THEN Fail(0)
        ELSE Read(CASE l <= 127 -> l
                    [] l >= 224 -> l - 256
                    [] l \in 204 .. 207 -> UVal(SubSeq(b, 2, w))
                    [] OTHER -> SVal(SubSeq(b, 2, w)), b, w)

\* msgp.ReadByteBytes = ReadUint8Bytes: an unsigned form whose value fits
\* a byte; a larger value is an overflow error.
ReadByteBytes(b) ==
    LET l == b[1]
        r == ReadIntBytes(b)
    IN  IF b = <<>> \/ ~(l <= 127 \/ l \in 204 .. 207) \/ ~r.ok \/ r.v > 255
        THEN Fail(0) ELSE r

\* msgp.ReadMapHeaderBytes and msgp.ReadArrayHeaderBytes.
ReadHeader(b, fix, c16, c32) ==
    IF b = <<>> THEN Fail(0)
    ELSE IF b[1] \in fix .. fix + 15 THEN Read(b[1] - fix, b, 1)
    ELSE IF b[1] = c16 /\ Have(b, 3) THEN Read(UVal(SubSeq(b, 2, 3)), b, 3)
    ELSE IF b[1] = c32 /\ Have(b, 5) THEN Read(UVal(SubSeq(b, 2, 5)), b, 5)
    ELSE Fail(0)
ReadMapHeaderBytes(b)   == ReadHeader(b, 128, 222, 223)
ReadArrayHeaderBytes(b) == ReadHeader(b, 144, 220, 221)

\* One object header in msgp.Skip: the bytes it takes (a string's bytes
\* included) and how many nested objects follow it.  Handles nil, the
\* booleans, integers, strings, and fixed-size arrays and maps; no message
\* checked here holds another type.
SkipStep(b) ==
    LET l == b[1]
        w == IntWidth(l)
        s == ReadStringBytes(b)
    IN  CASE l \in {192, 194, 195} -> [ok |-> TRUE, w |-> 1, more |-> 0]
          [] l \in 144 .. 159      -> [ok |-> TRUE, w |-> 1, more |-> l - 144]
          [] l \in 128 .. 143      -> [ok |-> TRUE, w |-> 1, more |-> 2 * (l - 128)]
          [] w > 0                 -> [ok |-> Have(b, w), w |-> w, more |-> 0]
          [] OTHER                 -> [ok |-> s.ok, w |-> Len(b) - Len(s.rest), more |-> 0]
=============================================================================
