------------------------- MODULE QuicPayloadProofs -------------------------
(***************************************************************************)
(* The variable-length integers of quicGenerator.js, for every number that *)
(* they have room for, and the packet it makes for a name of every length: *)
(* that its lengths are exact and that the name can be read from it.       *)
(***************************************************************************)
EXTENDS QuicPayload, TLAPS

\* Writing a number digit by digit in base 256 loses nothing.
LEMMA TwoBytes ==
  ASSUME NEW x \in Nat, x < 65536
  PROVE  /\ U16(x) = <<x \div 256, x % 256>>
         /\ x \div 256 \in 0 .. 255
         /\ x % 256 \in 0 .. 255
         /\ 256 * (x \div 256) + (x % 256) = x
<1>1. x \div 256 \in 0 .. 255
  BY SMT
<1>2. (x \div 256) % 256 = x \div 256
  BY <1>1, SMT
<1> QED
  BY <1>1, <1>2, SMT DEF U16

\* Numbers below it fit: two bits of the 32 tell the length.
Room == 1073741824

\* The same with four digits.
LEMMA FourBytes ==
  ASSUME NEW x \in Nat, x < Room
  PROVE  /\ (x \div 16777216) % 256 \in 0 .. 63
         /\ (x \div 65536) % 256 \in 0 .. 255
         /\ (x \div 256) % 256 \in 0 .. 255
         /\ x % 256 \in 0 .. 255
         /\ ((((x \div 16777216) % 256) * 256 + ((x \div 65536) % 256)) * 256
              + ((x \div 256) % 256)) * 256 + (x % 256) = x
<1>1. x \div 16777216 \in 0 .. 63
  BY SMT DEF Room
<1>2. (x \div 16777216) % 256 = x \div 16777216
  BY <1>1, SMT
<1>3. /\ (x \div 65536) % 256 \in 0 .. 255
      /\ (x \div 256) % 256 \in 0 .. 255
      /\ x % 256 \in 0 .. 255
  BY SMT
<1>4. (((x \div 16777216) * 256 + ((x \div 65536) % 256)) * 256
        + ((x \div 256) % 256)) * 256 + (x % 256) = x
  BY SMT
<1> QED
  BY <1>1, <1>2, <1>3, <1>4

\* A sequence is known by its length and its bytes.
IsBytes(s, n) == s \in Seq(Nat) /\ Len(s) = n

\* The bytes of a variable-length integer.
LEMMA VarintBytes ==
  ASSUME NEW x \in Nat, x < Room
  PROVE  /\ IsBytes(quicVarint(x), quicVarintLength(x))
         /\ quicVarintLength(x) \in {1, 2, 4}
<1>1. CASE x < 64
  BY <1>1 DEF quicVarint, quicVarintLength, IsBytes
<1>2. CASE x >= 64 /\ x < 16384
  <2>1. quicVarint(x) = [U16(x) EXCEPT ![1] = @ + 64] /\ quicVarintLength(x) = 2
    BY <1>2 DEF quicVarint, quicVarintLength
  <2>2. PICK a \in Nat, b \in Nat : U16(x) = <<a, b>>
    BY TwoBytes, <1>2
  <2>3. quicVarint(x) = <<a + 64, b>> /\ a + 64 \in Nat
    BY <2>1, <2>2
  <2>4. IsBytes(<<a + 64, b>>, 2)
    BY <2>3 DEF IsBytes
  <2> QED
    BY <2>1, <2>3, <2>4
<1>3. CASE x >= 16384
  <2>1. quicVarint(x) = [U32(x) EXCEPT ![1] = @ + 128] /\ quicVarintLength(x) = 4
    BY <1>3 DEF quicVarint, quicVarintLength
  <2>2. PICK a \in Nat, b \in Nat, c \in Nat, d \in Nat : U32(x) = <<a, b, c, d>>
    BY FourBytes DEF U32
  <2>3. quicVarint(x) = <<a + 128, b, c, d>> /\ a + 128 \in Nat
    BY <2>1, <2>2
  <2>4. IsBytes(<<a + 128, b, c, d>>, 4)
    BY <2>3 DEF IsBytes
  <2> QED
    BY <2>1, <2>3, <2>4
<1> QED
  BY <1>1, <1>2, <1>3

(* Whoever reads a variable-length integer, after RFC 9000, wherever it stands
   in a packet, gets the number that quicVarint wrote, and goes on behind it;
   quicVarintLength, by which the lengths of the packet are measured, counts
   the bytes it takes.                                                     *)
THEOREM VarintsAreRead ==
  ASSUME NEW x \in Nat, x < Room, NEW s, NEW i \in Nat,
         \A j \in 1 .. Len(quicVarint(x)) : s[i + j - 1] = quicVarint(x)[j]
  PROVE  /\ ReadVarint(s, i).value = x
         /\ ReadVarint(s, i).next = i + Len(quicVarint(x))
         /\ Len(quicVarint(x)) = quicVarintLength(x)
<1>1. CASE x < 64
  <2>1. quicVarint(x) = <<x>> /\ quicVarintLength(x) = 1
    BY <1>1 DEF quicVarint, quicVarintLength
  <2>2. s[i] = x
    BY <2>1
  <2>3. ReadVarint(s, i) = [value |-> x, next |-> i + 1]
    BY <1>1, <2>2 DEF ReadVarint
  <2> QED
    BY <2>1, <2>3
<1>2. CASE x >= 64 /\ x < 16384
  <2> DEFINE a == x \div 256
             b == x % 256
  <2>1. /\ U16(x) = <<a, b>>
        /\ a \in 0 .. 255 /\ b \in 0 .. 255 /\ 256 * a + b = x
    BY TwoBytes, <1>2
  <2> HIDE DEF a, b
  <2>2. a < 64
    BY <1>2, <2>1
  <2>3. quicVarint(x) = <<a + 64, b>> /\ quicVarintLength(x) = 2
    BY <1>2, <2>1 DEF quicVarint, quicVarintLength
  <2>4. s[i] = a + 64 /\ s[i + 1] = b
    BY <2>3
  <2>5. s[i] \in Nat /\ (s[i] - 64) * 256 + s[i + 1] = x /\ s[i] >= 64 /\ s[i] < 128
    BY <2>1, <2>2, <2>4
  <2>6. ReadVarint(s, i) = [value |-> x, next |-> i + 2]
    BY <2>5 DEF ReadVarint
  <2> QED
    BY <2>3, <2>6
<1>3. CASE x >= 16384
  <2> DEFINE a == (x \div 16777216) % 256
             b == (x \div 65536) % 256
             c == (x \div 256) % 256
             d == x % 256
  <2>1. /\ U32(x) = <<a, b, c, d>>
        /\ a \in 0 .. 63 /\ b \in 0 .. 255 /\ c \in 0 .. 255 /\ d \in 0 .. 255
        /\ ((a * 256 + b) * 256 + c) * 256 + d = x
    BY FourBytes DEF U32
  <2> HIDE DEF a, b, c, d
  <2>2. quicVarint(x) = <<a + 128, b, c, d>> /\ quicVarintLength(x) = 4
    BY <1>3, <2>1 DEF quicVarint, quicVarintLength
  <2>3. s[i] = a + 128 /\ s[i + 1] = b /\ s[i + 2] = c /\ s[i + 3] = d
    BY <2>2
  <2>4. /\ (((s[i] - 128) * 256 + s[i + 1]) * 256 + s[i + 2]) * 256 + s[i + 3] = x
        /\ s[i] >= 128
    BY <2>1, <2>3
  <2>5. ReadVarint(s, i) = [value |-> x, next |-> i + 4]
    BY <2>4 DEF ReadVarint
  <2> QED
    BY <2>2, <2>5
<1> QED
  BY <1>1, <1>2, <1>3
-----------------------------------------------------------------------------
(***************************************************************************)
(* The packet for a name of any length that the two bytes of the length of *)
(* the extensions have room for. A sequence is known by its length and its *)
(* bytes, one concatenation at a time.                                     *)
(***************************************************************************)

Names == 0 .. 65526

\* A sequence r, of two joined.
Joins(r, s, t, a, b) ==
    /\ IsBytes(r, a + b)
    /\ \A i \in 1 .. a : r[i] = s[i]
    /\ \A i \in 1 .. b : r[a + i] = t[i]

LEMMA Joined ==
  ASSUME NEW a \in Nat, NEW b \in Nat, NEW s, NEW t, IsBytes(s, a), IsBytes(t, b)
  PROVE  Joins(s \o t, s, t, a, b)
<1>1. s \in Seq(Nat) /\ t \in Seq(Nat) /\ Len(s) = a /\ Len(t) = b
  BY DEF IsBytes
<1>2. s \o t \in Seq(Nat) /\ Len(s \o t) = a + b
  BY <1>1
<1>3. \A i \in 1 .. a : (s \o t)[i] = s[i]
  BY <1>1
<1>4. \A i \in 1 .. b : (s \o t)[a + i] = t[i]
  BY <1>1
<1> QED
  BY <1>2, <1>3, <1>4 DEF IsBytes, Joins

LEMMA JoinedBytes ==
  ASSUME NEW a \in Nat, NEW b \in Nat, NEW s, NEW t, IsBytes(s, a), IsBytes(t, b),
         NEW n, n = a + b
  PROVE  IsBytes(s \o t, n)
<1>1. Joins(s \o t, s, t, a, b)
  BY Joined
<1> QED
  BY <1>1 DEF Joins

LEMMA BytesOf ==
  ASSUME NEW b \in Nat, NEW n \in Nat
  PROVE  IsBytes(Bytes(b, n), n) /\ \A i \in 1 .. n : Bytes(b, n)[i] = b
  BY DEF Bytes, IsBytes

LEMMA Digits ==
  ASSUME NEW x \in Nat
  PROVE  /\ IsBytes(U16(x), 2) /\ U16(x)[1] = (x \div 256) % 256 /\ U16(x)[2] = x % 256
         /\ IsBytes(U32(x), 4)
  BY DEF U16, U32, IsBytes

\* A part of a sequence.
LEMMA Part ==
  ASSUME NEW n \in Nat, NEW s, IsBytes(s, n), NEW i \in 1 .. n, NEW j \in 1 .. n, i <= j
  PROVE  /\ IsBytes(SubSeq(s, i, j), j - i + 1)
         /\ \A k \in 1 .. j - i + 1 : SubSeq(s, i, j)[k] = s[i + k - 1]
<1>1. s \in Seq(Nat) /\ Len(s) = n
  BY DEF IsBytes
<1>2. Len(SubSeq(s, i, j)) = j - i + 1 /\ SubSeq(s, i, j) \in Seq(Nat)
  BY <1>1
<1>3. \A k \in 1 .. j - i + 1 : SubSeq(s, i, j)[k] = s[i + k - 1]
  BY <1>1
<1> QED
  BY <1>2, <1>3 DEF IsBytes

\* The extensions: only their lengths matter, and that they are bytes.
LEMMA Extension ==
  ASSUME NEW n \in Nat
  PROVE  IsBytes(quicTlsExtSni(n), n + 9)
<1> DEFINE name == Bytes(NameByte, n)
           sni == U16(n) \o name
           head == U16(n + 3) \o <<0>>
           content == head \o sni
           code == U16(0) \o U16(n + 5)
<1>1. IsBytes(name, n)
  BY BytesOf DEF NameByte
<1>2. IsBytes(sni, n + 2)
  <2> HIDE DEF name
  <2>1. IsBytes(U16(n), 2)
    BY Digits
  <2> QED
    BY <1>1, <2>1, JoinedBytes
<1>3. IsBytes(head, 3)
  <2>1. IsBytes(<<0>>, 1)
    BY DEF IsBytes
  <2>2. IsBytes(U16(n + 3), 2)
    BY Digits
  <2> QED
    BY <2>1, <2>2, JoinedBytes
<1>4. IsBytes(content, n + 5)
  <2> HIDE DEF sni, head
  <2>1. n + 5 = 3 + (n + 2)
    OBVIOUS
  <2> QED
    BY <1>2, <1>3, <2>1, JoinedBytes
<1>5. IsBytes(code, 4)
  <2>1. IsBytes(U16(0), 2) /\ IsBytes(U16(n + 5), 2)
    BY Digits
  <2> QED
    BY <2>1, JoinedBytes
<1>6. IsBytes(code \o content, n + 9)
  <2> HIDE DEF code, content
  <2>1. n + 9 = 4 + (n + 5)
    OBVIOUS
  <2> QED
    BY <1>4, <1>5, <2>1, JoinedBytes
<1>7. quicTlsExtSni(n) = code \o content
  <2>1. Len(name) = n /\ Len(sni) + 1 = n + 3 /\ Len(content) = n + 5
    BY <1>1, <1>2, <1>4 DEF IsBytes
  <2>2. quicStr16(name) = sni
    BY <2>1 DEF quicStr16
  <2>3. quicTlsExtSni(n) = quicTlsExt(0, U16(Len(sni) + 1) \o <<0>> \o sni)
    BY <2>2 DEF quicTlsExtSni
  <2>4. quicTlsExtSni(n) = quicTlsExt(0, content)
    BY <2>1, <2>3
  <2> HIDE DEF content, sni, name
  <2> QED
    BY <2>1, <2>4 DEF quicTlsExt
<1> QED
  BY <1>6, <1>7

\* The ClientHello: its type, the zeroes behind its random, and the length of
\* the extensions at the places 43 and 44.
LEMMA Hello ==
  ASSUME NEW n \in Names
  PROVE  /\ IsBytes(quicTlsClientHelloSniOnly(n), n + 53)
         /\ quicTlsClientHelloSniOnly(n)[1] = 1
         /\ \A i \in 39 .. 42 : quicTlsClientHelloSniOnly(n)[i] = 0
         /\ quicTlsClientHelloSniOnly(n)[43] = (n + 9) \div 256
         /\ quicTlsClientHelloSniOnly(n)[44] = (n + 9) % 256
<1> DEFINE extensions == quicStr16(quicTlsExtSni(n))
           front == <<3, 3>> \o Bytes(RandomByte, 32)
           zeroes == <<0, 0, 0, 0>>
           fixed == front \o zeroes
           body == fixed \o extensions
           head == [U32(n + 49) EXCEPT ![1] = 1]
           hello == head \o body
<1>0. n \in Nat /\ ((n + 9) \div 256) % 256 = (n + 9) \div 256
  BY SMT DEF Names
<1>1. /\ IsBytes(extensions, n + 11)
      /\ extensions[1] = (n + 9) \div 256 /\ extensions[2] = (n + 9) % 256
  <2>1. IsBytes(quicTlsExtSni(n), n + 9) /\ Len(quicTlsExtSni(n)) = n + 9
    BY <1>0, Extension DEF IsBytes
  <2>2. extensions = U16(n + 9) \o quicTlsExtSni(n)
    BY <2>1 DEF quicStr16
  <2>3. /\ IsBytes(U16(n + 9), 2)
        /\ U16(n + 9)[1] = (n + 9) \div 256 /\ U16(n + 9)[2] = (n + 9) % 256
    BY <1>0, Digits
  <2> HIDE DEF extensions
  <2>4. Joins(extensions, U16(n + 9), quicTlsExtSni(n), 2, n + 9)
    BY <1>0, <2>1, <2>2, <2>3, Joined
  <2>5. 2 + (n + 9) = n + 11 /\ 1 \in 1 .. 2 /\ 2 \in 1 .. 2
    BY <1>0
  <2> QED
    BY <2>3, <2>4, <2>5 DEF Joins
<1>2. IsBytes(front, 34)
  <2>1. IsBytes(<<3, 3>>, 2)
    BY DEF IsBytes
  <2>2. IsBytes(Bytes(RandomByte, 32), 32)
    BY BytesOf DEF RandomByte
  <2> QED
    BY <2>1, <2>2, JoinedBytes
<1>3. IsBytes(zeroes, 4) /\ \A i \in 1 .. 4 : zeroes[i] = 0
  BY DEF IsBytes
<1>4. Joins(fixed, front, zeroes, 34, 4)
  <2> HIDE DEF front, zeroes
  <2> QED
    BY <1>2, <1>3, Joined
<1> HIDE DEF fixed, zeroes, extensions
<1>5. IsBytes(fixed, 38) /\ \A i \in 1 .. 4 : fixed[34 + i] = 0
  <2>1. IsBytes(fixed, 34 + 4)
    BY <1>4 DEF Joins
  <2>2. \A i \in 1 .. 4 : fixed[34 + i] = 0
    BY <1>3, <1>4 DEF Joins
  <2> QED
    BY <2>1, <2>2
<1>6. Joins(body, fixed, extensions, 38, n + 11)
  BY <1>0, <1>1, <1>5, Joined
<1>7. IsBytes(head, 4) /\ head[1] = 1
  <2>1. IsBytes(U32(n + 49), 4)
    BY <1>0, Digits
  <2> QED
    BY <2>1 DEF IsBytes
<1> HIDE DEF body
<1>8. /\ IsBytes(body, n + 49)
      /\ \A i \in 1 .. 4 : body[34 + i] = 0
      /\ body[39] = (n + 9) \div 256 /\ body[40] = (n + 9) % 256
  <2>1. 38 + (n + 11) = n + 49
    BY <1>0
  <2>2. \A i \in 1 .. 4 : body[34 + i] = 0
    BY <1>5, <1>6 DEF Joins
  <2>3. body[38 + 1] = extensions[1] /\ body[38 + 2] = extensions[2]
    BY <1>0, <1>6 DEF Joins
  <2> QED
    BY <1>1, <1>6, <2>1, <2>2, <2>3 DEF Joins
<1>9. quicTlsClientHelloSniOnly(n) = hello
  <2>1. Len(body) = n + 49
    BY <1>8 DEF IsBytes
  <2>2. quicTlsClientHelloSniOnly(n) = [U32(Len(body)) EXCEPT ![1] = 1] \o body
    BY DEF quicTlsClientHelloSniOnly, body, fixed, zeroes, extensions
  <2> QED
    BY <2>1, <2>2
<1> HIDE DEF head
<1>10. Joins(hello, head, body, 4, n + 49)
  BY <1>0, <1>7, <1>8, Joined
<1> HIDE DEF hello
<1>11. IsBytes(hello, n + 53) /\ hello[1] = 1
  <2>1. 4 + (n + 49) = n + 53
    BY <1>0
  <2> QED
    BY <1>7, <1>10, <2>1 DEF Joins
<1>12. hello[43] = (n + 9) \div 256 /\ hello[44] = (n + 9) % 256
  <2>1. hello[4 + 39] = body[39] /\ hello[4 + 40] = body[40]
    BY <1>0, <1>10 DEF Joins
  <2> QED
    BY <1>8, <2>1
<1>13. \A i \in 39 .. 42 : hello[i] = 0
  <2>1. \A i \in 35 .. 38 : hello[4 + i] = body[i]
    BY <1>0, <1>10 DEF Joins
  <2>2. \A i \in 35 .. 38 : body[i] = 0
    <3>1. \A i \in 35 .. 38 : i - 34 \in 1 .. 4 /\ 34 + (i - 34) = i
      OBVIOUS
    <3> QED
      BY <1>8, <3>1
  <2>3. \A i \in 39 .. 42 : i - 4 \in 35 .. 38 /\ 4 + (i - 4) = i
    OBVIOUS
  <2> QED
    BY <2>1, <2>2, <2>3
<1> QED
  BY <1>9, <1>11, <1>12, <1>13

\* The second frame starts at the length of the extensions, or at its second
\* byte where the first is zero.
Start(n) == IF n + 9 < 256 THEN 43 ELSE 42

LEMMA Started ==
  ASSUME NEW n \in Names
  PROVE  SecondFrameStart(quicTlsClientHelloSniOnly(n)) = Start(n)
<1> DEFINE hello == quicTlsClientHelloSniOnly(n)
           nonzero == {p \in 38 .. Len(hello) - 1 : hello[p + 1] # 0}
<1>0. n \in Nat
  BY DEF Names
<1>1. /\ IsBytes(hello, n + 53)
      /\ \A i \in 39 .. 42 : hello[i] = 0
      /\ hello[43] = (n + 9) \div 256 /\ hello[44] = (n + 9) % 256
  BY Hello
<1> HIDE DEF hello
<1>5. Len(hello) = n + 53
  BY <1>1 DEF IsBytes
<1>2. \A p \in 38 .. 41 : hello[p + 1] = 0
  <2>1. \A p \in 38 .. 41 : p + 1 \in 39 .. 42
    OBVIOUS
  <2> QED
    BY <1>0, <1>1, <1>5, <2>1
<1>3. CASE n + 9 < 256
  <2>1. hello[43] = 0 /\ hello[44] # 0
    BY <1>0, <1>1, <1>5, <1>3, SMT
  <2>2. 43 \in nonzero
    BY <1>0, <1>1, <1>5, <2>1
  <2>3. \A p \in nonzero : p >= 43
    BY <1>0, <1>1, <1>5, <1>2, <2>1
  <2>4. Min(nonzero) = 43
    BY <2>2, <2>3 DEF Min
  <2> QED
    BY <1>3, <2>4 DEF SecondFrameStart, Start, hello
<1>4. CASE n + 9 >= 256
  <2>1. hello[43] # 0
    BY <1>0, <1>1, <1>5, <1>4, SMT
  <2>2. 42 \in nonzero
    BY <1>0, <1>1, <1>5, <2>1
  <2>3. \A p \in nonzero : p >= 42
    BY <1>0, <1>1, <1>5, <1>2, <2>1
  <2>4. Min(nonzero) = 42
    BY <2>2, <2>3 DEF Min
  <2> QED
    BY <1>0, <1>1, <1>5, <1>4, <2>4 DEF SecondFrameStart, Start, hello
<1> QED
  BY <1>0, <1>1, <1>5, <1>3, <1>4

\* A frame at place i of a sequence: its data have m bytes and the offset o,
\* which takes one byte.
FrameAt(s, i, data, m, o) ==
    /\ i \in Nat /\ m \in Nat /\ m < Room /\ o \in 0 .. 63
    /\ s[i + 1] = o
    /\ \A j \in 1 .. quicVarintLength(m) : s[i + 1 + j] = quicVarint(m)[j]
    /\ \A k \in 1 .. m : s[i + 1 + quicVarintLength(m) + k] = data[k]

LEMMA FrameMade ==
  ASSUME NEW m \in Nat, m < Room, NEW o \in 0 .. 63, NEW data, IsBytes(data, m)
  PROVE  /\ IsBytes(quicCryptoFrame(data, o), 2 + quicVarintLength(m) + m)
         /\ FrameAt(quicCryptoFrame(data, o), 1, data, m, o)
<1> DEFINE v == quicVarintLength(m)
           size == quicVarint(m)
           start == <<6>> \o <<o>>
           front == start \o size
           frame == front \o data
<1>1. v \in Nat /\ IsBytes(size, v)
  BY VarintBytes
<1>2. frame = quicCryptoFrame(data, o)
  <2>1. Len(data) = m
    BY DEF IsBytes
  <2>2. quicVarint(o) = <<o>>
    BY DEF quicVarint
  <2> QED
    BY <2>1, <2>2 DEF quicCryptoFrame
<1>3. IsBytes(start, 2) /\ start[2] = o
  <2>1. IsBytes(<<6>>, 1) /\ IsBytes(<<o>>, 1) /\ <<o>>[1] = o
    BY DEF IsBytes
  <2>2. Joins(start, <<6>>, <<o>>, 1, 1)
    BY <2>1, Joined
  <2> HIDE DEF start
  <2>3. IsBytes(start, 1 + 1) /\ start[1 + 1] = o
    BY <2>1, <2>2 DEF Joins
  <2> QED
    BY <2>3
<1> HIDE DEF start, size, v
<1>4. Joins(front, start, size, 2, v)
  BY <1>1, <1>3, Joined
<1> HIDE DEF front
<1>5. Joins(frame, front, data, 2 + v, m)
  <2>1. IsBytes(front, 2 + v)
    BY <1>4 DEF Joins
  <2> QED
    BY <1>1, <2>1, Joined
<1> HIDE DEF frame
<1>6. IsBytes(frame, 2 + v + m)
  BY <1>5 DEF Joins
<1>7. frame[1 + 1] = o
  <2>1. frame[2] = front[2] /\ front[2] = start[2]
    BY <1>1, <1>4, <1>5 DEF Joins
  <2> QED
    BY <1>3, <2>1
<1>8. \A j \in 1 .. v : frame[1 + 1 + j] = size[j]
  <2> SUFFICES ASSUME NEW j \in 1 .. v PROVE frame[1 + 1 + j] = size[j]
    OBVIOUS
  <2>1. front[2 + j] = size[j]
    BY <1>4 DEF Joins
  <2>2. frame[2 + j] = front[2 + j]
    BY <1>1, <1>5 DEF Joins
  <2> QED
    BY <2>1, <2>2
<1>9. \A k \in 1 .. m : frame[1 + 1 + v + k] = data[k]
  BY <1>1, <1>5 DEF Joins
<1>10. FrameAt(frame, 1, data, m, o)
  BY <1>7, <1>8, <1>9 DEF FrameAt, v, size
<1> QED
  BY <1>2, <1>6, <1>10 DEF v

LEMMA FrameRead ==
  ASSUME NEW s, NEW i, NEW data, NEW m, NEW o, FrameAt(s, i, data, m, o)
  PROVE  /\ ReadFrame(s, i).offset = o
         /\ ReadFrame(s, i).next = i + 2 + quicVarintLength(m) + m
         /\ ReadFrame(s, i).data = SubSeq(s, i + 2 + quicVarintLength(m),
                                             i + 1 + quicVarintLength(m) + m)
<1> DEFINE v == quicVarintLength(m)
           offset == ReadVarint(s, i + 1)
           length == ReadVarint(s, offset.next)
<1>0. i \in Nat /\ m \in Nat /\ m < Room /\ o \in 0 .. 63
  BY DEF FrameAt
<1>1. v \in Nat /\ Len(quicVarint(m)) = v
  BY <1>0, VarintBytes DEF IsBytes
<1>2. offset.value = o /\ offset.next = i + 2
  <2>1. s[i + 1] = o /\ o < 64
    BY <1>0 DEF FrameAt
  <2>2. offset = [value |-> o, next |-> (i + 1) + 1]
    BY <1>0, <2>1 DEF ReadVarint
  <2> QED
    BY <1>0, <2>2
<1>3. length.value = m /\ length.next = i + 2 + v
  <2>1. \A j \in 1 .. Len(quicVarint(m)) : s[(i + 2) + j - 1] = quicVarint(m)[j]
    <3> SUFFICES ASSUME NEW j \in 1 .. v PROVE s[(i + 2) + j - 1] = quicVarint(m)[j]
      BY <1>1
    <3>1. s[i + 1 + j] = quicVarint(m)[j]
      BY DEF FrameAt
    <3>2. i + 1 + j = (i + 2) + j - 1
      BY <1>0, <1>1
    <3> QED
      BY <3>1, <3>2
  <2>2. /\ ReadVarint(s, i + 2).value = m
        /\ ReadVarint(s, i + 2).next = (i + 2) + Len(quicVarint(m))
    <3>1. i + 2 \in Nat
      BY <1>0
    <3> QED
      BY <1>0, <2>1, <3>1, VarintsAreRead, Zenon
  <2> QED
    BY <1>0, <1>1, <1>2, <2>2
<1>4. /\ ReadFrame(s, i).offset = offset.value
      /\ ReadFrame(s, i).next = length.next + length.value
      /\ ReadFrame(s, i).data = SubSeq(s, length.next, (length.next + length.value) - 1)
  BY Zenon DEF ReadFrame
<1> HIDE DEF offset, length
<1>5. /\ length.next + length.value = i + 2 + v + m
      /\ (length.next + length.value) - 1 = i + 1 + v + m
  BY <1>0, <1>1, <1>3
<1>6. ReadFrame(s, i).data = SubSeq(s, i + 2 + v, i + 1 + v + m)
  BY <1>3, <1>4, <1>5, Zenon
<1> QED
  BY <1>2, <1>4, <1>5, <1>6, Zenon

\* A frame stays what it is in a longer sequence.
LEMMA FrameKept ==
  ASSUME NEW m \in Nat, NEW o, NEW data, NEW s, NEW i \in Nat, i > 0,
         FrameAt(s, i, data, m, o),
         NEW r, NEW t, NEW a \in Nat, NEW b \in Nat, Joins(r, s, t, a, b),
         i + 1 + quicVarintLength(m) + m <= a
  PROVE  FrameAt(r, i, data, m, o)
<1> DEFINE v == quicVarintLength(m)
<1>0. m < Room /\ o \in 0 .. 63
  BY DEF FrameAt
<1>1. v \in Nat /\ v > 0
  BY <1>0, VarintBytes
<1>2. r[i + 1] = s[i + 1]
  BY <1>1 DEF Joins
<1>3. \A j \in 1 .. v : r[i + 1 + j] = s[i + 1 + j]
  BY <1>1 DEF Joins
<1>4. \A k \in 1 .. m : r[i + 1 + v + k] = s[i + 1 + v + k]
  BY <1>1 DEF Joins
<1> QED
  BY <1>0, <1>2, <1>3, <1>4 DEF FrameAt

LEMMA FrameBehind ==
  ASSUME NEW m \in Nat, NEW o, NEW data, NEW t, FrameAt(t, 1, data, m, o),
         NEW r, NEW s, NEW a \in Nat, NEW b \in Nat, Joins(r, s, t, a, b),
         2 + quicVarintLength(m) + m <= b
  PROVE  FrameAt(r, a + 1, data, m, o)
<1> DEFINE v == quicVarintLength(m)
<1>0. m < Room /\ o \in 0 .. 63 /\ a + 1 \in Nat
  BY DEF FrameAt
<1>1. v \in Nat /\ v > 0
  BY <1>0, VarintBytes
<1>2. \A x \in 1 .. b : r[a + x] = t[x]
  BY DEF Joins
<1>3. r[(a + 1) + 1] = t[1 + 1]
  <2>1. r[a + 2] = t[2]
    BY <1>1, <1>2
  <2> QED
    BY <2>1
<1>4. \A j \in 1 .. v : r[(a + 1) + 1 + j] = t[1 + 1 + j]
  <2> SUFFICES ASSUME NEW j \in 1 .. v PROVE r[(a + 1) + 1 + j] = t[1 + 1 + j]
    OBVIOUS
  <2>1. r[a + (2 + j)] = t[2 + j]
    BY <1>1, <1>2
  <2>2. a + (2 + j) = (a + 1) + 1 + j /\ 2 + j = 1 + 1 + j
    BY <1>1
  <2> QED
    BY <2>1, <2>2
<1>5. \A k \in 1 .. m : r[(a + 1) + 1 + v + k] = t[1 + 1 + v + k]
  <2> SUFFICES ASSUME NEW k \in 1 .. m PROVE r[(a + 1) + 1 + v + k] = t[1 + 1 + v + k]
    OBVIOUS
  <2>1. r[a + (2 + v + k)] = t[2 + v + k]
    BY <1>1, <1>2
  <2>2. a + (2 + v + k) = (a + 1) + 1 + v + k /\ 2 + v + k = 1 + 1 + v + k
    BY <1>1
  <2> QED
    BY <2>1, <2>2
<1> QED
  BY <1>0, <1>3, <1>4, <1>5 DEF FrameAt

\* The two frames: the first byte of the ClientHello, and the Rest(n) bytes
\* from the length of the extensions on.
Rest(n) == n + 53 - Start(n)
FramesLength(n) == 6 + quicVarintLength(Rest(n)) + Rest(n)

LEMMA RestFits ==
  ASSUME NEW n \in Names
  PROVE  /\ n \in Nat /\ Start(n) \in {42, 43}
         /\ Rest(n) \in Nat /\ Rest(n) >= 10 /\ Rest(n) < 65600
         /\ quicVarintLength(Rest(n)) \in {1, 2, 4}
         /\ FramesLength(n) \in Nat /\ FramesLength(n) >= 17 /\ FramesLength(n) < 65700
<1>1. n \in Nat /\ n <= 65526
  BY DEF Names
<1>2. Start(n) \in {42, 43}
  BY DEF Start
<1>3. Rest(n) \in Nat /\ Rest(n) >= 10 /\ Rest(n) < 65600
  BY <1>1, <1>2 DEF Rest
<1>4. quicVarintLength(Rest(n)) \in {1, 2, 4}
  BY <1>3, VarintBytes DEF Room
<1> QED
  BY <1>1, <1>2, <1>3, <1>4 DEF FramesLength

LEMMA Frames ==
  ASSUME NEW n \in Names
  PROVE  LET hello == quicTlsClientHelloSniOnly(n)
             frames == quicTlsClientHelloToFrames(hello)
         IN  /\ IsBytes(frames, FramesLength(n))
             /\ FrameAt(frames, 1, Slice(hello, 0, 1), 1, 0)
             /\ FrameAt(frames, 5, Slice(hello, Start(n), n + 53), Rest(n), Start(n))
<1> DEFINE hello == quicTlsClientHelloSniOnly(n)
           rest == Rest(n)
           start == Start(n)
           one == Slice(hello, 0, 1)
           two == Slice(hello, start, n + 53)
           f1 == quicCryptoFrame(one, 0)
           f2 == quicCryptoFrame(two, start)
           frames == f1 \o f2
           v == quicVarintLength(rest)
<1>1. /\ n \in Nat /\ start \in {42, 43} /\ start \in 0 .. 63
      /\ rest \in Nat /\ rest >= 10 /\ rest < Room /\ rest = n + 53 - start
      /\ v \in Nat
  BY RestFits DEF Room, Rest
<1>2. IsBytes(hello, n + 53) /\ Len(hello) = n + 53
  BY Hello DEF IsBytes
<1> HIDE DEF hello, rest, start, v
<1>3. IsBytes(one, 1)
  <2>1. 1 \in 1 .. n + 53 /\ n + 53 \in Nat /\ 1 <= 1
    BY <1>1
  <2>2. IsBytes(SubSeq(hello, 1, 1), 1 - 1 + 1)
    BY <1>2, <2>1, Part, Zenon
  <2>3. one = SubSeq(hello, 0 + 1, 1)
    BY DEF Slice
  <2>4. 1 - 1 + 1 = 1 /\ 0 + 1 = 1
    OBVIOUS
  <2> HIDE DEF one
  <2> QED
    BY <2>2, <2>3, <2>4, Zenon
<1>4. IsBytes(two, rest)
  <2>1. /\ start + 1 \in 1 .. n + 53 /\ n + 53 \in 1 .. n + 53 /\ start + 1 <= n + 53
        /\ (n + 53) - (start + 1) + 1 = rest
    BY <1>1
  <2>2. IsBytes(SubSeq(hello, start + 1, n + 53), (n + 53) - (start + 1) + 1)
    BY <1>1, <1>2, <2>1, Part
  <2>3. two = SubSeq(hello, start + 1, n + 53)
    BY DEF Slice
  <2> QED
    BY <2>1, <2>2, <2>3
<1> HIDE DEF one, two
<1>5. quicVarintLength(1) = 1
  BY DEF quicVarintLength
<1>6. IsBytes(f1, 4) /\ FrameAt(f1, 1, one, 1, 0)
  <2>1. 1 < Room /\ 0 \in 0 .. 63
    BY DEF Room
  <2>2. IsBytes(f1, 2 + quicVarintLength(1) + 1) /\ FrameAt(f1, 1, one, 1, 0)
    BY <1>3, <2>1, FrameMade
  <2> QED
    BY <1>5, <2>2
<1>7. IsBytes(f2, 2 + v + rest) /\ FrameAt(f2, 1, two, rest, start)
  BY <1>1, <1>4, FrameMade DEF v
<1> HIDE DEF f1, f2
<1>8. Joins(frames, f1, f2, 4, 2 + v + rest)
  BY <1>1, <1>6, <1>7, Joined
<1> HIDE DEF frames
<1>9. IsBytes(frames, FramesLength(n))
  <2>1. 4 + (2 + v + rest) = FramesLength(n)
    BY <1>1 DEF FramesLength, v, rest
  <2> QED
    BY <1>8, <2>1 DEF Joins
<1>10. FrameAt(frames, 1, one, 1, 0)
  <2>1. 1 + 1 + quicVarintLength(1) + 1 <= 4 /\ 1 < Room /\ 2 + v + rest \in Nat
    BY <1>1, <1>5 DEF Room
  <2> QED
    BY <1>6, <1>8, <2>1, FrameKept
<1>11. FrameAt(frames, 5, two, rest, start)
  <2>1. 2 + quicVarintLength(rest) + rest <= 2 + v + rest /\ 2 + v + rest \in Nat
    BY <1>1 DEF v
  <2>2. FrameAt(frames, 4 + 1, two, rest, start)
    BY <1>1, <1>7, <1>8, <2>1, FrameBehind
  <2> QED
    BY <2>2
<1>12. quicTlsClientHelloToFrames(hello) = frames
  <2>1. SecondFrameStart(hello) = start
    BY Started DEF hello, start
  <2> QED
    BY <1>2, <2>1, Zenon DEF quicTlsClientHelloToFrames, frames, f1, f2, one, two
<1> QED
  BY <1>9, <1>10, <1>11, <1>12, Zenon DEF hello, one, two, rest, start

\* The packet is measured without padding: the frames alone are long enough.
LEMMA Measured ==
  ASSUME NEW P \in Nat, P >= 3, P + 17 < Room
  PROVE  quicMeasureLengths(1, 0, 0, P, 0)
           = [total |-> 26 + quicVarintLength(P + 17) + P,
              header |-> 10 + quicVarintLength(P + 17),
              padding |-> 0]
<1> DEFINE w == quicVarintLength(P + 17)
<1>1. w \in Nat
  BY VarintBytes
<1>2. 1 + P + 0 + 16 = P + 17 /\ 8 + 1 + 0 + 0 + 1 = 10
  OBVIOUS
<1>3. quicVarintLength(1 + P + 0 + 16) = w
  BY <1>2, Zenon
<1> HIDE DEF w
<1>4. 10 + w + P + 0 + 16 = 26 + w + P /\ 26 + w + P >= 0 /\ ~(1 + P + 0 + 16 < 20)
  BY <1>1
<1> QED
  BY <1>1, <1>2, <1>3, <1>4 DEF quicMeasureLengths, PknLength, TagLength, w

\* The number of bytes that the length field of the packet takes.
Width(n) == quicVarintLength(FramesLength(n) + 17)

\* The packet in its parts: a header of nine bytes, the length field and the
\* packet number; the two frames; and the lengths that were measured.
PacketMade(n, p, hello) ==
    /\ IsBytes(p.header, 10 + Width(n))
    /\ \A j \in 1 .. Width(n) : p.header[9 + j] = quicVarint(FramesLength(n) + 17)[j]
    /\ IsBytes(p.sealed, FramesLength(n))
    /\ FrameAt(p.sealed, 1, Slice(hello, 0, 1), 1, 0)
    /\ FrameAt(p.sealed, 5, Slice(hello, Start(n), n + 53), Rest(n), Start(n))
    /\ p.lengths.total = 26 + Width(n) + FramesLength(n)
    /\ p.lengths.header = 10 + Width(n)

LEMMA Packet ==
  ASSUME NEW n \in Names
  PROVE  PacketMade(n, generateQUICPayload(n), quicTlsClientHelloSniOnly(n))
<1> DEFINE hello == quicTlsClientHelloSniOnly(n)
           frames == quicTlsClientHelloToFrames(hello)
           P == FramesLength(n)
           w == Width(n)
           size == quicVarint(P + 17)
           one == Slice(hello, 0, 1)
           two == Slice(hello, Start(n), n + 53)
           dcid == quicStr8(<<RandomByte>>)
           none == quicStr8(<<>>)
           h1 == <<192, 0, 0, 0, 1>> \o dcid
           h2 == h1 \o none
           h3 == h2 \o none
           h4 == h3 \o size
           h5 == h4 \o <<0>>
           pad == Bytes(0, 0)
           sealed == frames \o pad
           lengths == quicMeasureLengths(1, 0, 0, P, 0)
<1>1. /\ n \in Nat /\ P \in Nat /\ P >= 17 /\ P < 65700
      /\ Start(n) \in {42, 43} /\ Rest(n) \in Nat /\ Rest(n) < Room
      /\ P = 6 + quicVarintLength(Rest(n)) + Rest(n) /\ quicVarintLength(Rest(n)) \in Nat
  BY RestFits DEF Room, FramesLength
<1>2. /\ IsBytes(frames, P)
      /\ FrameAt(frames, 1, one, 1, 0)
      /\ FrameAt(frames, 5, two, Rest(n), Start(n))
  BY Frames, Zenon
<1>3. IsBytes(size, w) /\ w \in Nat
  <2>1. P + 17 \in Nat /\ P + 17 < Room
    BY <1>1 DEF Room
  <2> QED
    BY <2>1, VarintBytes DEF Width
<1>4. /\ lengths.total = 26 + w + P /\ lengths.header = 10 + w
      /\ lengths.padding = 0
  <2>1. lengths = [total |-> 26 + w + P, header |-> 10 + w, padding |-> 0]
    <3>1. P \in Nat /\ P >= 3 /\ P + 17 < Room
      BY <1>1 DEF Room
    <3>2. w = quicVarintLength(P + 17)
      BY DEF Width
    <3> HIDE DEF P, w
    <3> QED
      BY <3>1, <3>2, Measured
  <2> HIDE DEF lengths, w, P
  <2> QED
    BY <2>1, Zenon
<1> HIDE DEF size, w, P, one, two, frames, hello
<1>5. IsBytes(dcid, 2) /\ IsBytes(none, 1)
  BY DEF quicStr8, RandomByte, IsBytes
<1>6. IsBytes(<<192, 0, 0, 0, 1>>, 5) /\ IsBytes(<<0>>, 1)
  BY DEF IsBytes
<1> HIDE DEF dcid, none
<1>7. IsBytes(h1, 7)
  BY <1>5, <1>6, JoinedBytes
<1> HIDE DEF h1
<1>8. IsBytes(h2, 8)
  BY <1>5, <1>7, JoinedBytes
<1> HIDE DEF h2
<1>9. IsBytes(h3, 9)
  BY <1>5, <1>8, JoinedBytes
<1> HIDE DEF h3
<1>10. Joins(h4, h3, size, 9, w)
  BY <1>3, <1>9, Joined
<1> HIDE DEF h4
<1>11. Joins(h5, h4, <<0>>, 9 + w, 1)
  <2>1. IsBytes(h4, 9 + w) /\ 9 + w \in Nat
    BY <1>3, <1>10 DEF Joins
  <2> QED
    BY <1>6, <2>1, Joined
<1> HIDE DEF h5
<1>12. IsBytes(h5, 10 + w)
  <2>1. (9 + w) + 1 = 10 + w
    BY <1>3
  <2> QED
    BY <1>11, <2>1 DEF Joins
<1>13. \A j \in 1 .. w : h5[9 + j] = size[j]
  <2> SUFFICES ASSUME NEW j \in 1 .. w PROVE h5[9 + j] = size[j]
    OBVIOUS
  <2>1. h4[9 + j] = size[j]
    BY <1>10 DEF Joins
  <2>2. 9 + j \in 1 .. 9 + w
    BY <1>3
  <2>3. h5[9 + j] = h4[9 + j]
    BY <1>11, <2>2 DEF Joins
  <2> QED
    BY <2>1, <2>3
<1>14. Joins(sealed, frames, pad, P, 0)
  <2>1. IsBytes(pad, 0)
    BY BytesOf
  <2> QED
    BY <1>1, <1>2, <2>1, Joined
<1> HIDE DEF sealed, pad
<1>15. IsBytes(sealed, P)
  <2>1. P + 0 = P
    BY <1>1
  <2> QED
    BY <1>14, <2>1 DEF Joins
<1>16. FrameAt(sealed, 1, one, 1, 0)
  <2>1. 1 + 1 + quicVarintLength(1) + 1 <= P /\ 1 < Room
    BY <1>1 DEF Room, quicVarintLength
  <2> QED
    BY <1>1, <1>2, <1>14, <2>1, FrameKept
<1>17. FrameAt(sealed, 5, two, Rest(n), Start(n))
  <2>1. 5 + 1 + quicVarintLength(Rest(n)) + Rest(n) <= P
    BY <1>1
  <2> QED
    BY <1>1, <1>2, <1>14, <2>1, FrameKept
<1>18. generateQUICPayload(n) = [header |-> h5, sealed |-> sealed, lengths |-> lengths]
  <2>1. Len(frames) = P
    BY <1>2 DEF IsBytes
  <2>2. 1 + P + 0 + 16 = P + 17
    BY <1>1
  <2>3. quicVarint(PknLength + P + lengths.padding + TagLength) = size
    BY <1>4, <2>2, Zenon DEF PknLength, TagLength, size
  <2>4. Bytes(0, lengths.padding) = pad
    BY <1>4, Zenon DEF pad
  <2>5. generateQUICPayload(n)
          = [header |-> <<192, 0, 0, 0, 1>> \o dcid \o none \o none
                        \o quicVarint(PknLength + P + lengths.padding + TagLength) \o <<0>>,
             sealed |-> frames \o Bytes(0, lengths.padding),
             lengths |-> lengths]
    BY <2>1, Zenon DEF generateQUICPayload, quicInitial, frames, hello, dcid, none
  <2> QED
    BY <2>3, <2>4, <2>5, Zenon DEF h1, h2, h3, h4, h5, sealed
<1> HIDE DEF lengths
<1> DEFINE p == [header |-> h5, sealed |-> sealed, lengths |-> lengths]
<1>19. p.header = h5 /\ p.sealed = sealed /\ p.lengths = lengths
  OBVIOUS
<1> HIDE DEF p
<1>20. PacketMade(n, p, hello)
  BY <1>4, <1>12, <1>13, <1>15, <1>16, <1>17, <1>19, Zenon
  DEF PacketMade, one, two, size, w, P
<1> QED
  BY <1>18, <1>20, Zenon DEF p, hello
\* What a reader finds in the packet: the number in its length field, and its
\* two frames.
LEMMA PacketRead ==
  ASSUME NEW n \in Names, NEW p, NEW hello, PacketMade(n, p, hello), IsBytes(hello, n + 53)
  PROVE  LET length == ReadVarint(p.header, 10)
             first == ReadFrame(p.sealed, 1)
             second == ReadFrame(p.sealed, first.next)
         IN  /\ length.value = FramesLength(n) + 17 /\ length.next = 10 + Width(n)
             /\ first.offset = 0 /\ first.next = 5
             /\ Len(first.data) = 1 /\ first.data[1] = hello[1]
             /\ second.offset = Start(n) /\ second.next = FramesLength(n) + 1
             /\ Len(second.data) = Rest(n)
             /\ \A k \in 1 .. Rest(n) : second.data[k] = hello[Start(n) + k]
<1> DEFINE s == p.sealed
           P == FramesLength(n)
           w == Width(n)
           v == quicVarintLength(Rest(n))
           one == Slice(hello, 0, 1)
           two == Slice(hello, Start(n), n + 53)
           length == ReadVarint(p.header, 10)
           first == ReadFrame(s, 1)
           second == ReadFrame(s, 5)
<1>1. /\ n \in Nat /\ P \in Nat /\ P >= 17 /\ P + 17 < Room
      /\ Start(n) \in {42, 43} /\ Rest(n) = n + 53 - Start(n) /\ Rest(n) >= 10
      /\ Rest(n) \in Nat /\ Rest(n) < Room
      /\ v \in Nat /\ P = 6 + v + Rest(n)
  BY RestFits DEF Room, FramesLength, Rest
<1>2. /\ IsBytes(p.header, 10 + w) /\ IsBytes(s, P)
      /\ \A j \in 1 .. w : p.header[9 + j] = quicVarint(P + 17)[j]
      /\ FrameAt(s, 1, one, 1, 0) /\ FrameAt(s, 5, two, Rest(n), Start(n))
  BY Zenon DEF PacketMade
<1>3. IsBytes(quicVarint(P + 17), w) /\ w \in Nat /\ Len(quicVarint(P + 17)) = w
  <2>1. IsBytes(quicVarint(P + 17), w) /\ w \in Nat
    BY <1>1, VarintBytes DEF Width
  <2> QED
    BY <2>1 DEF IsBytes
<1> HIDE DEF s, P, w, v, one, two, first, second
<1>4. length.value = P + 17 /\ length.next = 10 + w
  <2>1. \A j \in 1 .. Len(quicVarint(P + 17)) : p.header[10 + j - 1] = quicVarint(P + 17)[j]
    <3> SUFFICES ASSUME NEW j \in 1 .. w PROVE p.header[10 + j - 1] = quicVarint(P + 17)[j]
      BY <1>3
    <3>1. 10 + j - 1 = 9 + j
      BY <1>3
    <3> QED
      BY <1>2, <3>1
  <2>2. P + 17 \in Nat /\ P + 17 < Room /\ 10 \in Nat
    BY <1>1
  <2> DEFINE x == P + 17
             h == p.header
  <2> HIDE DEF x, h
  <2>3. ReadVarint(h, 10).value = x /\ ReadVarint(h, 10).next = 10 + Len(quicVarint(x))
    BY <2>1, <2>2, VarintsAreRead DEF x, h
  <2>4. length.value = P + 17 /\ length.next = 10 + Len(quicVarint(P + 17))
    BY <2>3, Zenon DEF x, h
  <2> QED
    BY <1>3, <2>4
<1> HIDE DEF length
<1>5. first.offset = 0 /\ first.next = 5 /\ first.data = SubSeq(s, 4, 4)
  <2>1. /\ first.offset = 0
        /\ first.next = 1 + 2 + quicVarintLength(1) + 1
        /\ first.data = SubSeq(s, 1 + 2 + quicVarintLength(1), 1 + 1 + quicVarintLength(1) + 1)
    <3>1. FrameAt(s, 1, one, 1, 0)
      BY <1>2
    <3> QED
      BY <3>1, FrameRead, SMT DEF first
  <2>2. /\ 1 + 2 + quicVarintLength(1) + 1 = 5 /\ 1 + 2 + quicVarintLength(1) = 4
        /\ 1 + 1 + quicVarintLength(1) + 1 = 4
    BY DEF quicVarintLength
  <2> QED
    BY <2>1, <2>2, Zenon
<1>6. Len(first.data) = 1 /\ first.data[1] = hello[1]
  <2>1. 4 \in 1 .. P /\ 4 <= 4 /\ 4 - 4 + 1 = 1 /\ 1 \in 1 .. 4 - 4 + 1 /\ 4 + 1 - 1 = 4
    BY <1>1
  <2>6. IsBytes(s, P) /\ P \in Nat
    BY <1>1, <1>2
  <2>7. /\ IsBytes(SubSeq(s, 4, 4), 4 - 4 + 1)
        /\ SubSeq(s, 4, 4)[1] = s[4 + 1 - 1]
    BY <2>1, <2>6, Part
  <2>2. /\ IsBytes(first.data, 4 - 4 + 1)
        /\ first.data[1] = s[4 + 1 - 1]
    BY <1>5, <2>7, Zenon
  <2>3. s[4] = one[1]
    <3>1. 1 + 1 + quicVarintLength(1) + 1 = 4 /\ 1 \in 1 .. 1
      BY DEF quicVarintLength
    <3>2. s[1 + 1 + quicVarintLength(1) + 1] = one[1]
      BY <1>2, <3>1, Zenon DEF FrameAt
    <3> QED
      BY <3>1, <3>2, Zenon
  <2>4. one[1] = hello[1]
    <3>1. 1 \in 1 .. n + 53 /\ n + 53 \in Nat /\ 1 <= 1 /\ 1 \in 1 .. 1 - 1 + 1
          /\ 1 + 1 - 1 = 1 /\ 0 + 1 = 1
      BY <1>1
    <3>2. SubSeq(hello, 1, 1)[1] = hello[1 + 1 - 1]
      BY <3>1, Part, Zenon
    <3> QED
      BY <3>1, <3>2, Zenon DEF one, Slice
  <2>5. Len(first.data) = 1
    BY <2>1, <2>2 DEF IsBytes
  <2> QED
    BY <2>1, <2>2, <2>3, <2>4, <2>5, Zenon
<1>7. /\ second.offset = Start(n) /\ second.next = P + 1
      /\ second.data = SubSeq(s, 7 + v, P)
  <2>1. /\ second.offset = Start(n)
        /\ second.next = 5 + 2 + v + Rest(n)
        /\ second.data = SubSeq(s, 5 + 2 + v, 5 + 1 + v + Rest(n))
    <3>1. FrameAt(s, 5, two, Rest(n), Start(n))
      BY <1>2
    <3> QED
      BY <3>1, FrameRead, SMT DEF second, v
  <2>2. /\ 5 + 2 + v + Rest(n) = P + 1 /\ 5 + 2 + v = 7 + v
        /\ 5 + 1 + v + Rest(n) = P
    BY <1>1
  <2> QED
    BY <2>1, <2>2, Zenon
<1>8. /\ IsBytes(second.data, Rest(n))
      /\ \A k \in 1 .. Rest(n) : second.data[k] = s[6 + v + k]
  <2>1. /\ 7 + v \in 1 .. P /\ P \in 1 .. P /\ 7 + v <= P
        /\ P - (7 + v) + 1 = Rest(n)
        /\ \A k \in 1 .. Rest(n) : 7 + v + k - 1 = 6 + v + k
    BY <1>1
  <2>2. /\ IsBytes(SubSeq(s, 7 + v, P), P - (7 + v) + 1)
        /\ \A k \in 1 .. P - (7 + v) + 1 : SubSeq(s, 7 + v, P)[k] = s[7 + v + k - 1]
    <3>1. IsBytes(s, P) /\ P \in Nat
      BY <1>1, <1>2
    <3> QED
      BY <2>1, <3>1, Part
  <2>3. /\ IsBytes(second.data, Rest(n))
        /\ \A k \in 1 .. Rest(n) : second.data[k] = s[7 + v + k - 1]
    BY <1>7, <2>1, <2>2, Zenon
  <2> QED
    BY <2>1, <2>3, Zenon
<1>9. \A k \in 1 .. Rest(n) : two[k] = hello[Start(n) + k]
  <2>1. /\ Start(n) + 1 \in 1 .. n + 53 /\ n + 53 \in 1 .. n + 53 /\ n + 53 \in Nat
        /\ Start(n) + 1 <= n + 53
        /\ (n + 53) - (Start(n) + 1) + 1 = Rest(n)
        /\ \A k \in 1 .. Rest(n) : Start(n) + 1 + k - 1 = Start(n) + k
    BY <1>1
  <2>2. \A k \in 1 .. (n + 53) - (Start(n) + 1) + 1 :
           SubSeq(hello, Start(n) + 1, n + 53)[k] = hello[Start(n) + 1 + k - 1]
    BY <2>1, Part
  <2>3. two = SubSeq(hello, Start(n) + 1, n + 53)
    BY DEF two, Slice
  <2>4. \A k \in 1 .. Rest(n) : two[k] = hello[Start(n) + 1 + k - 1]
    BY <2>1, <2>2, <2>3, Zenon
  <2> QED
    BY <2>1, <2>4, Zenon
<1>10. \A k \in 1 .. Rest(n) : second.data[k] = hello[Start(n) + k]
  <2> SUFFICES ASSUME NEW k \in 1 .. Rest(n) PROVE second.data[k] = hello[Start(n) + k]
    OBVIOUS
  <2>1. s[5 + 1 + v + k] = two[k]
    BY <1>2, Zenon DEF FrameAt, v
  <2>2. 5 + 1 + v + k = 6 + v + k
    BY <1>1
  <2> QED
    BY <1>8, <1>9, <2>1, <2>2, Zenon
<1>11. Len(second.data) = Rest(n)
  BY <1>8 DEF IsBytes
<1> QED
  BY <1>4, <1>5, <1>6, <1>7, <1>10, <1>11, Zenon DEF length, first, second, s, P, w

(* The lengths that quicMeasureLengths counts are those of the packet that
   quicInitial makes: its length field counts what follows it, and the two
   frames fill its payload, whatever the length of the name.               *)
THEOREM PacketsAreExact ==
  ASSUME NEW n \in Names
  PROVE  PacketExact(generateQUICPayload(n))
<1> DEFINE p == generateQUICPayload(n)
           hello == quicTlsClientHelloSniOnly(n)
           P == FramesLength(n)
           w == Width(n)
           length == ReadVarint(p.header, 10)
           second == ReadFrame(p.sealed, ReadFrame(p.sealed, 1).next)
<1>1. PacketMade(n, p, hello) /\ IsBytes(hello, n + 53)
  BY Packet, Hello, Zenon
<1>2. P \in Nat /\ w \in Nat
  <2>1. P \in Nat /\ P + 17 \in Nat /\ P + 17 < Room
    BY RestFits DEF Room
  <2> QED
    BY <2>1, VarintBytes DEF Width
<1> HIDE DEF p, hello
<1>3. length.value = P + 17 /\ length.next = 10 + w /\ second.next = P + 1
  BY <1>1, PacketRead, Zenon
<1>4. /\ Len(p.header) = 10 + w /\ Len(p.sealed) = P
      /\ p.lengths.total = 26 + w + P /\ p.lengths.header = 10 + w
  BY <1>1, Zenon DEF PacketMade, IsBytes
<1> HIDE DEF P, w, length, second
<1>5. length.value = Len(p.header) - length.next + 1 + Len(p.sealed) + TagLength
  BY <1>2, <1>3, <1>4 DEF TagLength
<1>6. p.lengths.total = Len(p.header) + Len(p.sealed) + TagLength
  BY <1>2, <1>4 DEF TagLength
<1>7. second.next = Len(p.sealed) + 1 /\ p.lengths.header = Len(p.header)
  BY <1>3, <1>4, Zenon
<1> QED
  BY <1>5, <1>6, <1>7, Zenon DEF PacketExact, p, length, second

(* The name that the administrator gave is in the packet: a reader that puts
   the two frames in their places has all of the ClientHello that follows its
   random, for a name of any length.                                       *)
THEOREM NamesAreCarried ==
  ASSUME NEW n \in Names
  PROVE  SniCarried(generateQUICPayload(n), quicTlsClientHelloSniOnly(n))
<1> DEFINE p == generateQUICPayload(n)
           hello == quicTlsClientHelloSniOnly(n)
           first == ReadFrame(p.sealed, 1)
           second == ReadFrame(p.sealed, first.next)
           At(f, i) == IF i \in f.offset + 1 .. f.offset + Len(f.data)
                       THEN f.data[i - f.offset] ELSE 0
<1>1. PacketMade(n, p, hello)
  BY Packet, Zenon
<1>2. /\ IsBytes(hello, n + 53)
      /\ \A i \in 39 .. 42 : hello[i] = 0
      /\ hello[43] = (n + 9) \div 256
  BY Hello, Zenon
<1>3. /\ n \in Nat /\ Start(n) \in {42, 43} /\ Rest(n) = n + 53 - Start(n)
      /\ Rest(n) \in Nat
  BY RestFits DEF Rest
<1>4. Start(n) = 43 => hello[43] = 0
  <2>1. ASSUME Start(n) = 43 PROVE n + 9 < 256
    BY <1>3, <2>1 DEF Start
  <2>2. ASSUME Start(n) = 43 PROVE (n + 9) \div 256 = 0
    BY <1>3, <2>1, <2>2, SMT
  <2> QED
    BY <1>2, <2>2, Zenon
<1> HIDE DEF p, hello
<1>5. hello \in Seq(Nat) /\ Len(hello) = n + 53 /\ \A i \in 1 .. n + 53 : hello[i] \in Nat
  <2>1. hello \in Seq(Nat) /\ Len(hello) = n + 53
    BY <1>2 DEF IsBytes
  <2> QED
    BY <2>1
<1>6. /\ first.offset = 0 /\ Len(first.data) = 1 /\ first.data[1] = hello[1]
      /\ second.offset = Start(n) /\ Len(second.data) = Rest(n)
      /\ \A k \in 1 .. Rest(n) : second.data[k] = hello[Start(n) + k]
  <2>1. IsBytes(hello, n + 53)
    BY <1>2
  <2> QED
    BY <1>1, <2>1, PacketRead
<1> HIDE DEF first, second
<1>7. second.offset + Len(second.data) = Len(hello)
  BY <1>3, <1>5, <1>6
<1>8. ASSUME NEW i \in {1} \cup 39 .. Len(hello)
      PROVE  At(first, i) + At(second, i) = hello[i]
  <2>1. CASE i = 1
    <3>1. At(first, i) = hello[1] /\ At(second, i) = 0
      BY <1>3, <1>6, <2>1
    <3>2. hello[1] \in Nat
      BY <1>3, <1>5
    <3> QED
      BY <2>1, <3>1, <3>2
  <2>2. CASE i \in 39 .. Start(n)
    <3>1. At(first, i) = 0 /\ At(second, i) = 0
      BY <1>3, <1>6, <2>2
    <3>2. hello[i] = 0
      BY <1>2, <1>3, <1>4, <2>2
    <3> QED
      BY <3>1, <3>2
  <2>3. CASE i \in Start(n) + 1 .. n + 53
    <3>1. At(first, i) = 0
      BY <1>3, <1>6, <2>3
    <3>2. i - Start(n) \in 1 .. Rest(n) /\ Start(n) + (i - Start(n)) = i
      BY <1>3, <2>3
    <3>3. At(second, i) = second.data[i - Start(n)]
      BY <1>3, <1>6, <2>3
    <3>4. second.data[i - Start(n)] = hello[i]
      BY <1>6, <3>2
    <3>5. hello[i] \in Nat
      BY <1>3, <1>5, <2>3
    <3> QED
      BY <3>1, <3>3, <3>4, <3>5
  <2> QED
    BY <1>3, <1>5, <2>1, <2>2, <2>3
<1> QED
  BY <1>7, <1>8, Zenon DEF SniCarried, p, hello, first, second
=============================================================================
