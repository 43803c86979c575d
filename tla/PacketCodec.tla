----------------------------- MODULE PacketCodec ----------------------------
(***************************************************************************)
(* The packet codec of conn/codec: packets of a type byte, a length of      *)
(* three bytes and the data, one after another on a stream.  The size of a  *)
(* byte is a constant (256 in the code), so that packets of the maximal     *)
(* size stay small enough to be checked.                                    *)
(***************************************************************************)
EXTENDS Naturals, Sequences

CONSTANTS
  ByteSize,      \* number of values of a byte
  PacketTypes,   \* types Encode is called with, as bytes
  Payloads,      \* data Encode is called with
  MaxPackets     \* bound: packets on the stream

ASSUME PacketAssumption ==
  /\ ByteSize \in Nat \ {0, 1} /\ MaxPackets \in Nat
  /\ PacketTypes \subseteq Nat /\ Payloads \subseteq Seq(0..(ByteSize - 1))

VARIABLES
  sent,          \* the packets encoded so far
  stream         \* their bytes

packetVars == <<sent, stream>>

HeadLength == 4
MaxPacketSize == ByteSize * ByteSize * ByteSize
Handshake == 1
Data == 4

IntToBytes(n) ==
  <<(n \div (ByteSize * ByteSize)) % ByteSize, (n \div ByteSize) % ByteSize, n % ByteSize>>

\* Mutant: the bytes of the length are read the other way round.
BytesToIntLittle(b) == (b[3] * ByteSize + b[2]) * ByteSize + b[1]

BytesToInt(b) == (b[1] * ByteSize + b[2]) * ByteSize + b[3]

\* ParseHeader of a header of HeadLength bytes: the error, the type and the size.
ParseHeader(header) ==
  LET size == BytesToInt(Tail(header)) IN
  [err |-> IF header[1] \notin Handshake..Data THEN "wrong packet type"
           ELSE IF size > MaxPacketSize THEN "packet size exceed" ELSE "",
   type |-> header[1], size |-> size]

\* Decode: the packets that are complete, unless some header is wrong.
DecodePackets[buf \in Seq(Nat)] ==
  IF Len(buf) < HeadLength THEN [err |-> "", packets |-> <<>>]
  ELSE LET h == ParseHeader(SubSeq(buf, 1, HeadLength))
           end == HeadLength + h.size
           p == [type |-> h.type, data |-> SubSeq(buf, HeadLength + 1, end)]
       IN IF h.err # "" THEN [err |-> h.err, packets |-> <<>>]
          ELSE IF end > Len(buf) THEN [err |-> "", packets |-> <<>>]
          ELSE LET more == DecodePackets[SubSeq(buf, end + 1, Len(buf))] IN
               IF more.err # "" THEN more
               ELSE [err |-> "", packets |-> <<p>> \o more.packets]

\* Encode: a packet of a known type and of at most the maximal size.
EncodePacket(typ, d) ==
  /\ Len(sent) < MaxPackets
  /\ typ \in Handshake..Data /\ Len(d) <= MaxPacketSize
  /\ sent' = Append(sent, [type |-> typ, data |-> d])
  /\ stream' = stream \o <<typ>> \o IntToBytes(Len(d)) \o d

PacketInit == sent = <<>> /\ stream = <<>>
PacketNext == \E typ \in PacketTypes, d \in Payloads : EncodePacket(typ, d)
PacketSpec == PacketInit /\ [][PacketNext]_packetVars

-----------------------------------------------------------------------------
\* The place on the stream where the n-th packet ends, and the packets before a cut.
EndOf[n \in 0..Len(sent)] ==
  IF n = 0 THEN 0 ELSE EndOf[n - 1] + HeadLength + Len(sent[n].data)
Complete(cut) ==
  CHOOSE n \in 0..Len(sent) : EndOf[n] <= cut /\ (n = Len(sent) \/ EndOf[n + 1] > cut)

\* Wherever a read cuts the stream, Decode finds exactly the packets that are complete
\* by then, with their types and data, and no error: a cut inside a header or inside
\* data neither invents nor loses a packet.  The maximal size itself does not fit the
\* three bytes of the length, so the property is about smaller packets.
FramesSurvive ==
  (\A i \in 1..Len(sent) : Len(sent[i].data) < MaxPacketSize) =>
    \A cut \in 0..Len(stream) :
      DecodePackets[SubSeq(stream, 1, cut)] =
        [err |-> "", packets |-> SubSeq(sent, 1, Complete(cut))]
=============================================================================
