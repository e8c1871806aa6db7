---------------------------- MODULE QuicPayload ----------------------------
(***************************************************************************)
(* quicGenerator.js: the QUIC Initial packet that generateQUICPayload      *)
(* makes for a server name, with the frames of level 4, the only one asked *)
(* for. Buffers are sequences of bytes. Random bytes and the bytes of the  *)
(* name are the numbers 256 and 257, since only their places matter, and a *)
(* name is its length. The sealed payload is kept in the clear: whoever    *)
(* sees the packet derives its keys from the connection id.                *)
(***************************************************************************)
EXTENDS Integers, Sequences, FiniteSetsExt

RandomByte == 256
NameByte == 257
Bytes(b, n) == [i \in 1 .. n |-> b]

\* n in big endian: setUint16, setUint32.
U16(n) == <<(n \div 256) % 256, n % 256>>
U32(n) == <<(n \div 16777216) % 256, (n \div 65536) % 256, (n \div 256) % 256, n % 256>>

\* A length over 255 is cut to its last byte.
quicStr8(data) == <<Len(data) % 256>> \o data
quicStr16(data) == U16(Len(data)) \o data

quicVarintLength(x) ==
    CASE x < 64 -> 1
      [] x >= 64 /\ x < 16384 -> 2
      [] x >= 16384 -> 4

\* Mutant: 64 still goes into one byte.
quicVarintLate(x) ==
    CASE x <= 64 -> <<x>>
      [] x > 64 /\ x < 16384 -> [U16(x) EXCEPT ![1] = @ + 64]
      [] x >= 16384 -> [U32(x) EXCEPT ![1] = @ + 128]

\* The top two bits of the first byte tell the length.
quicVarint(x) ==
    CASE x < 64 -> <<x>>
      [] x >= 64 /\ x < 16384 -> [U16(x) EXCEPT ![1] = @ + 64]
      [] x >= 16384 -> [U32(x) EXCEPT ![1] = @ + 128]

-----------------------------------------------------------------------------
(* The ClientHello, which has a random and a server name and nothing else. *)

quicTlsExt(code, content) == U16(code) \o U16(Len(content)) \o content

quicTlsExtSni(n) ==
    LET sni == quicStr16(Bytes(NameByte, n))
    IN  quicTlsExt(0, U16(Len(sni) + 1) \o <<0>> \o sni)

quicTlsClientHelloSniOnly(n) ==
    LET body == <<3, 3>> \o Bytes(RandomByte, 32) \o <<0, 0, 0, 0>>
                \o quicStr16(quicTlsExtSni(n))
    IN  [U32(Len(body)) EXCEPT ![1] = 1] \o body

quicCryptoFrame(data, offset) ==
    <<6>> \o quicVarint(offset) \o quicVarint(Len(data)) \o data

\* Bytes from..to-1 of a buffer, counted from 0: ArrayBuffer.slice.
Slice(data, from, to) == SubSeq(data, from + 1, to)

\* Mutant: the frame starts after the length of the extensions.
SecondFrameStartShort(hello) ==
    Min({p \in 44 .. Len(hello) - 1 : hello[p + 1] # 0})

\* The second frame starts at byte 38, behind the random, or, with the zeroes
\* skipped, at the first byte that is not one.
SecondFrameStart(hello) ==
    Min({p \in 38 .. Len(hello) - 1 : hello[p + 1] # 0})

quicTlsClientHelloToFrames(hello) ==
    LET p2s == SecondFrameStart(hello)
    IN  quicCryptoFrame(Slice(hello, 0, 1), 0)
        \o quicCryptoFrame(Slice(hello, p2s, Len(hello)), p2s)
-----------------------------------------------------------------------------
(* The packet.                                                             *)

PknLength == 1
TagLength == 16

\* The padding reaches padto, or passes it by one byte where no number of
\* bytes reaches it because the length field grows; at least 20 bytes follow
\* the header, for the sample of the header protection.
quicMeasureLengths(dcid, scid, token, payload, padto) ==
    LET base == 8 + dcid + scid + token + PknLength
        LengthBytes(pad) == quicVarintLength(PknLength + payload + pad + TagLength)
        Overall(pad) == base + LengthBytes(pad) + payload + pad + TagLength
        \* The loop goes down from the first guess.
        Reached == Max({0} \cup {p \in 0 .. padto : p + Overall(0) <= padto
                                                    /\ Overall(p) <= padto})
        Padded == IF Overall(0) >= padto THEN 0
                  ELSE IF Overall(Reached) < padto THEN Reached + 1 ELSE Reached
        padding == IF PknLength + payload + Padded + TagLength < 20
                   THEN 20 - PknLength - payload - TagLength ELSE Padded
    IN  [total |-> Overall(padding),
         header |-> base + LengthBytes(padding),
         padding |-> padding]

\* Connection ids of one byte and of none, no token, packet number 0. The
\* first byte is 0xC0 + PknLength - 1.
quicInitial(payload, padto) ==
    LET lengths == quicMeasureLengths(1, 0, 0, Len(payload), padto)
    IN  [header |-> <<192, 0, 0, 0, 1>> \o quicStr8(<<RandomByte>>) \o quicStr8(<<>>)
                    \o quicStr8(<<>>)
                    \o quicVarint(PknLength + Len(payload) + lengths.padding + TagLength)
                    \o <<0>>,
         sealed |-> payload \o Bytes(0, lengths.padding),
         lengths |-> lengths]

generateQUICPayload(n) ==
    quicInitial(quicTlsClientHelloToFrames(quicTlsClientHelloSniOnly(n)), 0)
-----------------------------------------------------------------------------
(* What a reader of the packet sees, after RFC 9000.                       *)

\* The variable-length integer at place i, and the place behind it.
ReadVarint(s, i) ==
    CASE s[i] < 64 -> [value |-> s[i], next |-> i + 1]
      [] s[i] >= 64 /\ s[i] < 128 ->
           [value |-> (s[i] - 64) * 256 + s[i + 1], next |-> i + 2]
      [] s[i] >= 128 ->
           [value |-> (((s[i] - 128) * 256 + s[i + 1]) * 256 + s[i + 2]) * 256 + s[i + 3],
            next |-> i + 4]

ReadFrame(s, i) ==
    LET offset == ReadVarint(s, i + 1)
        length == ReadVarint(s, offset.next)
        next == length.next + length.value
    IN  [offset |-> offset.value, data |-> SubSeq(s, length.next, next - 1), next |-> next]

\* The length field counts what follows it, and the two frames fill the
\* payload.
PacketExact(p) ==
    LET length == ReadVarint(p.header, 10)
        second == ReadFrame(p.sealed, ReadFrame(p.sealed, 1).next)
    IN  /\ length.value = Len(p.header) - length.next + 1 + Len(p.sealed) + TagLength
        /\ second.next = Len(p.sealed) + 1
        /\ p.lengths.total = Len(p.header) + Len(p.sealed) + TagLength
        /\ p.lengths.header = Len(p.header)

\* A reader that puts the frames in their places, over zeroes, has all of the
\* ClientHello that follows its random, the name included.
SniCarried(p, hello) ==
    LET first == ReadFrame(p.sealed, 1)
        second == ReadFrame(p.sealed, first.next)
        At(f, i) == IF i \in f.offset + 1 .. f.offset + Len(f.data)
                    THEN f.data[i - f.offset] ELSE 0
    IN  /\ \A i \in {1} \cup 39 .. Len(hello) : At(first, i) + At(second, i) = hello[i]
        /\ second.offset + Len(second.data) = Len(hello)
=============================================================================
