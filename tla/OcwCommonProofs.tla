-------------------------- MODULE OcwCommonProofs --------------------------
(***************************************************************************)
(* The grpc-web frames of ocw-common for messages and trailers of every    *)
(* length that fits four bytes, and every size of a byte.  The lemmas say  *)
(* that four bytes spell a length in one way only, which bytes are where   *)
(* in a frame, and what decode_frame makes of any prefix of a reply; the   *)
(* invariants then follow a call from its request to its result.           *)
(***************************************************************************)
EXTENDS OcwCommon, TLAPS, SequenceTheorems

-----------------------------------------------------------------------------
(* Lengths in four bytes.                                                  *)

LEMMA Bases ==
  /\ Base \in Nat /\ Base >= 2 /\ DEADLINE \in Nat /\ MaxElapsed \in Nat
  /\ \A b \in Byte : b \in Nat /\ b < Base
  /\ 0 \in Byte /\ Base \div 2 \in Byte
BY CommonAssumption DEF Byte

\* A number and a byte after it are told apart from every other such pair.
LEMMA OneDigit ==
  ASSUME NEW x \in Nat, NEW y \in Nat, NEW r \in Byte, NEW s \in Byte,
         x * Base + r = y * Base + s
  PROVE  x = y /\ r = s
<1>1. Base \in Nat /\ r \in Nat /\ s \in Nat /\ r < Base /\ s < Base
  BY Bases
<1>2. ASSUME NEW u \in Nat, NEW v \in Nat, u < v
      PROVE  u * Base + Base <= v * Base
  <2>1. u + 1 <= v
    BY <1>2
  <2>2. (u + 1) * Base <= v * Base
    BY <1>1, <1>2, <2>1
  <2>3. (u + 1) * Base = u * Base + Base
    BY <1>1
  <2>4. QED
    BY <2>2, <2>3
<1>3. x * Base \in Nat /\ y * Base \in Nat
  BY <1>1
<1>4. ~(x < y) /\ ~(y < x)
  BY <1>1, <1>2, <1>3
<1>5. x = y
  BY <1>4
<1>6. QED
  BY <1>1, <1>3, <1>5

LEMMA get_u32_Injective ==
  ASSUME NEW b \in [1 .. 4 -> Byte], NEW c \in [1 .. 4 -> Byte], get_u32(b) = get_u32(c)
  PROVE  b = c
<1>1. /\ b[1] \in Byte /\ b[2] \in Byte /\ b[3] \in Byte /\ b[4] \in Byte
      /\ c[1] \in Byte /\ c[2] \in Byte /\ c[3] \in Byte /\ c[4] \in Byte
      /\ b[1] \in Nat /\ b[2] \in Nat /\ b[3] \in Nat
      /\ c[1] \in Nat /\ c[2] \in Nat /\ c[3] \in Nat
  BY Bases
<1> DEFINE b2 == b[1] * Base + b[2]
           b3 == b2 * Base + b[3]
           c2 == c[1] * Base + c[2]
           c3 == c2 * Base + c[3]
<1>2. b2 \in Nat /\ c2 \in Nat
  BY <1>1, Bases
<1>3. b3 \in Nat /\ c3 \in Nat
  <2> HIDE DEF b2, c2
  <2>1. QED
    BY <1>1, <1>2, Bases
<1>4. b3 * Base + b[4] = c3 * Base + c[4]
  BY DEF get_u32
<1> HIDE DEF b3, c3
<1>5. b3 = c3 /\ b[4] = c[4]
  BY <1>1, <1>3, <1>4, OneDigit
<1>6. b2 * Base + b[3] = c2 * Base + c[3]
  BY <1>5 DEF b3, c3
<1> HIDE DEF b2, c2
<1>7. b2 = c2 /\ b[3] = c[3]
  BY <1>1, <1>2, <1>6, OneDigit
<1>8. b[1] * Base + b[2] = c[1] * Base + c[2]
  BY <1>7 DEF b2, c2
<1>9. b[1] = c[1] /\ b[2] = c[2]
  BY <1>1, <1>8, OneDigit
<1>10. \A i \in 1 .. 4 : b[i] = c[i]
  BY <1>5, <1>7, <1>9
<1>11. QED
  BY <1>10

\* the lowest byte of a number
Low(n) == n % Base

\* A number is what High leaves of it and its lowest byte.
LEMMA HighLow ==
  ASSUME NEW n \in Nat
  PROVE  /\ High(n) \in Nat /\ Low(n) \in Byte /\ Low(n) \in Nat
         /\ n = High(n) * Base + Low(n)
<1> DEFINE q == High(n)
           r == Low(n)
<1>1. Base \in Nat /\ Base > 0
  BY Bases
<1>2. q \in Nat /\ q = n \div Base
  BY <1>1 DEF High
<1>3. r \in 0 .. Base - 1 /\ r \in Nat /\ r = n % Base
  BY <1>1 DEF Low
<1> HIDE DEF q, r
<1>4. n = q * Base + r
  BY <1>1, <1>2, <1>3
<1>5. QED
  BY <1>2, <1>3, <1>4 DEF q, r, Byte

LEMMA HighBound ==
  ASSUME NEW n \in Nat, NEW k \in Nat, n < k * Base
  PROVE  High(n) < k
<1>1. High(n) \in Nat /\ High(n) * Base \in Nat
  <2>1. High(n) \in Nat
    BY HighLow
  <2>2. QED
    BY <2>1, Bases
<1>2. High(n) * Base <= n
  <2>1. Low(n) \in Nat /\ n = High(n) * Base + Low(n)
    BY HighLow
  <2>2. QED
    BY <1>1, <2>1
<1>3. ASSUME k <= High(n) PROVE FALSE
  <2>1. k * Base <= High(n) * Base
    BY <1>1, <1>3, Bases
  <2>2. QED
    BY <1>1, <1>2, <2>1, Bases
<1>4. QED
  BY <1>1, <1>3

\* put_u32 spells the length: get_u32 reads it back.
LEMMA put_u32_Spells ==
  ASSUME NEW n \in Nat, n < Base * Base * Base * Base
  PROVE  put_u32(n) \in [1 .. 4 -> Byte] /\ get_u32(put_u32(n)) = n
<1> DEFINE h == High(n)
           hh == High(h)
           hhh == High(hh)
           b1 == Low(hhh)
           b2 == Low(hh)
           b3 == Low(h)
           b4 == Low(n)
<1>1. h \in Nat /\ b4 \in Byte /\ n = h * Base + b4
  BY HighLow
<1>2. h < Base * Base * Base
  BY Bases, HighBound
<1> HIDE DEF h
<1>3. hh \in Nat /\ b3 \in Byte /\ h = hh * Base + b3
  BY <1>1, HighLow
<1>4. hh < Base * Base
  BY <1>1, <1>2, Bases, HighBound
<1> HIDE DEF hh
<1>5. hhh \in Nat /\ b2 \in Byte /\ hh = hhh * Base + b2
  BY <1>3, HighLow
<1>6. hhh < Base
  BY <1>3, <1>4, Bases, HighBound
<1> HIDE DEF hhh
<1>7. b1 = hhh /\ b1 \in Byte
  BY <1>5, <1>6, Bases DEF Byte, Low
<1>8. put_u32(n) = <<b1, b2, b3, b4>>
  BY DEF put_u32, Low, hhh, hh, h
<1> HIDE DEF b1, b2, b3, b4
<1>9. put_u32(n) \in [1 .. 4 -> Byte]
  <2>1. \A i \in 1 .. 4 : <<b1, b2, b3, b4>>[i] \in Byte
    BY <1>1, <1>3, <1>5, <1>7
  <2>2. QED
    BY <1>8, <2>1
<1>10. get_u32(put_u32(n)) = ((b1 * Base + b2) * Base + b3) * Base + b4
  BY <1>8 DEF get_u32
<1>11. QED
  BY <1>1, <1>3, <1>5, <1>7, <1>9, <1>10

\* So the length bytes of the protocol are there, and put_u32 writes them.
LEMMA LengthBytesExist ==
  ASSUME NEW n \in Nat, n < Base * Base * Base * Base
  PROVE  /\ LengthBytes(n) \in [1 .. 4 -> Byte] /\ get_u32(LengthBytes(n)) = n
         /\ put_u32(n) = LengthBytes(n)
<1>1. put_u32(n) \in [1 .. 4 -> Byte] /\ get_u32(put_u32(n)) = n
  BY put_u32_Spells
<1>2. LengthBytes(n) = CHOOSE b \in [1 .. 4 -> Byte] : n = get_u32(b)
  BY DEF LengthBytes, get_u32
<1>3. LengthBytes(n) \in [1 .. 4 -> Byte] /\ get_u32(LengthBytes(n)) = n
  BY <1>1, <1>2
<1>4. QED
  BY <1>1, <1>3, get_u32_Injective

-----------------------------------------------------------------------------
(* Frames.                                                                 *)

\* Four length bytes are a sequence.
LEMMA FourBytes ==
  ASSUME NEW b \in [1 .. 4 -> Byte]
  PROVE  b \in Seq(Byte) /\ Len(b) = 4
<1>1. b \in Seq(Byte)
  BY SeqDef
<1>2. Len(b) \in Nat /\ DOMAIN b = 1 .. Len(b) /\ DOMAIN b = 1 .. 4
  BY <1>1, LenProperties
<1>3. QED
  BY <1>1, <1>2

\* The bytes of two sequences, one after the other.
LEMMA BytesConcat ==
  ASSUME NEW s \in Seq(Byte), NEW t \in Seq(Byte)
  PROVE  /\ s \o t \in Seq(Byte) /\ Len(s \o t) = Len(s) + Len(t)
         /\ Len(s) \in Nat /\ Len(t) \in Nat
         /\ \A i \in 1 .. Len(s) : (s \o t)[i] = s[i]
         /\ \A i \in 1 .. Len(t) : (s \o t)[Len(s) + i] = t[i]
<1>1. Len(s) \in Nat /\ Len(t) \in Nat
  BY LenProperties
<1>2. /\ s \o t \in Seq(Byte) /\ Len(s \o t) = Len(s) + Len(t)
      /\ \A i \in 1 .. Len(s) + Len(t) :
            (s \o t)[i] = IF i <= Len(s) THEN s[i] ELSE t[i - Len(s)]
  BY ConcatProperties, Zenon
<1>3. ASSUME NEW i \in 1 .. Len(s) PROVE (s \o t)[i] = s[i]
  BY <1>1, <1>2
<1>4. ASSUME NEW i \in 1 .. Len(t) PROVE (s \o t)[Len(s) + i] = t[i]
  <2>1. /\ Len(s) + i \in 1 .. Len(s) + Len(t) /\ ~(Len(s) + i <= Len(s))
        /\ (Len(s) + i) - Len(s) = i
    BY <1>1
  <2>2. (s \o t)[Len(s) + i] = t[(Len(s) + i) - Len(s)]
    BY <1>2, <2>1
  <2>3. QED
    BY <2>1, <2>2
<1>5. QED
  BY <1>1, <1>2, <1>3, <1>4

\* Where the parts of a header and a payload are.
LEMMA Parts ==
  ASSUME NEW flag \in Byte, NEW b \in [1 .. 4 -> Byte], NEW p \in Seq(Byte)
  PROVE  LET f == <<flag>> \o b \o p IN
         /\ f \in Seq(Byte) /\ Len(f) = 5 + Len(p)
         /\ f[2] = b[1] /\ f[3] = b[2] /\ f[4] = b[3] /\ f[5] = b[4]
         /\ \A i \in 1 .. Len(p) : f[5 + i] = p[i]
<1> DEFINE g == <<flag>>
           h == g \o b
           f == h \o p
<1>1. g \in Seq(Byte) /\ Len(g) = 1
  OBVIOUS
<1>2. b \in Seq(Byte) /\ Len(b) = 4 /\ Len(p) \in Nat
  BY FourBytes, LenProperties
<1> HIDE DEF g
<1>3. /\ h \in Seq(Byte) /\ Len(h) = Len(g) + Len(b)
      /\ \A i \in 1 .. Len(b) : h[Len(g) + i] = b[i]
  BY <1>1, <1>2, BytesConcat, Zenon
<1>4. Len(h) = 5 /\ h[2] = b[1] /\ h[3] = b[2] /\ h[4] = b[3] /\ h[5] = b[4]
  <2> HIDE DEF h
  <2>1. QED
    BY <1>1, <1>2, <1>3
<1> HIDE DEF h
<1>5. /\ f \in Seq(Byte) /\ Len(f) = Len(h) + Len(p)
      /\ \A i \in 1 .. Len(h) : f[i] = h[i]
      /\ \A i \in 1 .. Len(p) : f[Len(h) + i] = p[i]
  BY <1>3, BytesConcat, Zenon
<1> HIDE DEF f
<1>6. /\ f \in Seq(Byte) /\ Len(f) = 5 + Len(p)
      /\ f[2] = b[1] /\ f[3] = b[2] /\ f[4] = b[3] /\ f[5] = b[4]
      /\ \A i \in 1 .. Len(p) : f[5 + i] = p[i]
  BY <1>4, <1>5
<1>7. QED
  BY <1>6, Zenon DEF f, h, g

\* What the messages and the trailers are.
LEMMA Payloads ==
  ASSUME NEW p \in Messages \cup TrailerTexts
  PROVE  /\ p \in Seq(Byte) /\ Len(p) \in Nat /\ Len(p) < Base * Base * Base * Base /\ p # None
         /\ \A flag : Frame(flag, p) = <<flag>> \o LengthBytes(Len(p)) \o p
         /\ LengthBytes(Len(p)) \in [1 .. 4 -> Byte] /\ get_u32(LengthBytes(Len(p))) = Len(p)
         /\ put_u32(Len(p)) = LengthBytes(Len(p))
<1>1. p \in Seq(Byte) /\ Len(p) < Base * Base * Base * Base /\ p # None
  BY CommonAssumption, NoneAssumption
<1>2. Len(p) \in Nat
  BY <1>1, LenProperties
<1>3. \A flag : Frame(flag, p) = <<flag>> \o LengthBytes(Len(p)) \o p
  BY <1>1 DEF Frame
<1>4. QED
  BY <1>1, <1>2, <1>3, LengthBytesExist

\* A frame: its bytes, its length, its length bytes, its payload.
LEMMA FrameParts ==
  ASSUME NEW p \in Messages \cup TrailerTexts, NEW flag \in Byte
  PROVE  LET f == Frame(flag, p) IN
         /\ f \in Seq(Byte) /\ Len(f) = 5 + Len(p)
         /\ get_u32(<<f[2], f[3], f[4], f[5]>>) = Len(p)
         /\ \A i \in 1 .. Len(p) : f[5 + i] = p[i]
<1> DEFINE b == LengthBytes(Len(p))
           f == Frame(flag, p)
<1>1. /\ p \in Seq(Byte) /\ f = <<flag>> \o b \o p
      /\ b \in [1 .. 4 -> Byte] /\ get_u32(b) = Len(p)
  BY Payloads
<1> HIDE DEF b, f
<1>2. /\ f \in Seq(Byte) /\ Len(f) = 5 + Len(p)
      /\ f[2] = b[1] /\ f[3] = b[2] /\ f[4] = b[3] /\ f[5] = b[4]
      /\ \A i \in 1 .. Len(p) : f[5 + i] = p[i]
  BY <1>1, Parts, Zenon
<1>3. get_u32(<<f[2], f[3], f[4], f[5]>>) = get_u32(b)
  BY <1>2 DEF get_u32
<1>4. QED
  BY <1>1, <1>2, <1>3, Zenon DEF f

\* Two messages with the same frame are the same message.
LEMMA FrameInjective ==
  ASSUME NEW p \in Messages, NEW q \in Messages, Frame(0, p) = Frame(0, q)
  PROVE  p = q
<1>1. /\ p \in Seq(Byte) /\ q \in Seq(Byte) /\ Len(p) \in Nat /\ Len(q) \in Nat
      /\ 0 \in Byte /\ p \in Messages \cup TrailerTexts /\ q \in Messages \cup TrailerTexts
  BY Payloads, Bases
<1>2. Len(Frame(0, p)) = 5 + Len(p) /\ \A i \in 1 .. Len(p) : Frame(0, p)[5 + i] = p[i]
  BY <1>1, FrameParts, Zenon
<1>3. Len(Frame(0, q)) = 5 + Len(q) /\ \A i \in 1 .. Len(q) : Frame(0, q)[5 + i] = q[i]
  BY <1>1, FrameParts, Zenon
<1>4. Len(p) = Len(q)
  BY <1>1, <1>2, <1>3
<1>5. \A i \in 1 .. Len(p) : p[i] = q[i]
  BY <1>2, <1>3, <1>4
<1>6. QED
  BY <1>1, <1>4, <1>5, SeqEqual

\* encode_body writes the protocol's frame.
LEMMA EncodedIsFrame ==
  ASSUME NEW p \in Messages
  PROVE  encode_body(p) = Frame(0, p) /\ encode_body(p) \in Seq(Byte)
<1>1. encode_body(p) = Frame(0, p)
  BY Payloads DEF encode_body
<1>2. QED
  BY <1>1, FrameParts, Bases

-----------------------------------------------------------------------------
(* What decode_frame makes of a body.                                      *)

\* Part of a byte sequence.
LEMMA BytesSubSeq ==
  ASSUME NEW s \in Seq(Byte), NEW m \in Nat, m >= 1, NEW n \in Nat, n <= Len(s)
  PROVE  /\ SubSeq(s, m, n) \in Seq(Byte)
         /\ Len(SubSeq(s, m, n)) = IF m <= n THEN n - m + 1 ELSE 0
         /\ \A i \in 1 .. n - m + 1 : SubSeq(s, m, n)[i] = s[m + i - 1]
<1>1. \A i \in m .. n : s[i] \in Byte
  <2> SUFFICES ASSUME NEW i \in m .. n PROVE s[i] \in Byte
    OBVIOUS
  <2>1. i \in 1 .. Len(s)
    BY LenProperties
  <2>2. QED
    BY <2>1, ElementOfSeq
<1>2. m \in Int /\ n \in Int
  OBVIOUS
<1>3. QED
  BY <1>1, <1>2, SubSeqProperties

\* A body that begins like a frame with payload p is taken for p, when p is a
\* message and a second header follows.
LEMMA DecodesFirstFrame ==
  ASSUME NEW body \in Seq(Byte), NEW p \in Messages \cup TrailerTexts, Len(body) >= 5,
         get_u32(<<body[2], body[3], body[4], body[5]>>) = Len(p),
         \A i \in 1 .. Len(p) : 5 + i <= Len(body) => body[5 + i] = p[i]
  PROVE  decode_frame(body) = IF Len(body) < 10 + Len(p) \/ p \notin Messages THEN Panicked
                              ELSE Decoded(p, Remaining(body, 10 + Len(p)))
<1> DEFINE head == SubSeq(body, 2, 5)
           len == get_u32(head)
           message == SubSeq(body, 6, 5 + len)
<1>1. Len(body) \in Nat /\ p \in Seq(Byte) /\ Len(p) \in Nat
  BY LenProperties, Payloads
<1>2. head[1] = body[2] /\ head[2] = body[3] /\ head[3] = body[4] /\ head[4] = body[5]
  <2>1. \A i \in 1 .. 5 - 2 + 1 : head[i] = body[2 + i - 1]
    BY <1>1, BytesSubSeq
  <2> HIDE DEF head
  <2>2. QED
    BY <2>1
<1>3. len = Len(p)
  <2> HIDE DEF head
  <2>1. QED
    BY <1>2 DEF get_u32
<1>4. decode_frame(body) = IF Len(body) < 10 + len \/ message \notin Messages THEN Panicked
                           ELSE Decoded(message, Remaining(body, 10 + len))
  BY <1>1 DEF decode_frame
<1> HIDE DEF len
<1>5. CASE Len(body) < 10 + Len(p)
  BY <1>3, <1>4, <1>5
<1>6. CASE ~(Len(body) < 10 + Len(p))
  <2> DEFINE end == 5 + Len(p)
             s == SubSeq(body, 6, end)
  <2>1. message = s
    BY <1>3
  <2>2. end \in Nat /\ end <= Len(body) /\ end = 5 + Len(p)
    BY <1>1, <1>6
  <2> HIDE DEF end
  <2>3. /\ s \in Seq(Byte)
        /\ Len(s) = IF 6 <= end THEN end - 6 + 1 ELSE 0
        /\ \A i \in 1 .. end - 6 + 1 : s[i] = body[6 + i - 1]
    BY <2>2, BytesSubSeq
  <2> HIDE DEF s
  <2>4. Len(s) = Len(p)
    BY <1>1, <2>2, <2>3
  <2>5. ASSUME NEW i \in 1 .. Len(p) PROVE s[i] = p[i]
    <3>1. i \in 1 .. end - 6 + 1 /\ 6 + i - 1 = 5 + i /\ 5 + i <= Len(body)
      BY <1>1, <2>2
    <3>2. QED
      BY <2>3, <3>1
  <2>6. s = p
    BY <1>1, <2>3, <2>4, <2>5, SeqEqual
  <2>7. message = p
    BY <2>1, <2>6
  <2> HIDE DEF message
  <2>8. QED
    BY <1>3, <1>4, <1>6, <2>7
<1>7. QED
  BY <1>5, <1>6

\* The same for a body that breaks off after n bytes of a frame and what follows.
LEMMA DecodesPrefix ==
  ASSUME NEW p \in Messages \cup TrailerTexts, NEW flag \in Byte, NEW rest \in Seq(Byte),
         NEW n \in Nat, n <= 5 + Len(p) + Len(rest)
  PROVE  LET body == SubSeq(Frame(flag, p) \o rest, 1, n)
         IN  /\ body \in Seq(Byte) /\ Len(body) = n
             /\ \A i \in 1 .. n : body[i] = (Frame(flag, p) \o rest)[i]
             /\ decode_frame(body) = IF n < 10 + Len(p) \/ p \notin Messages THEN Panicked
                                     ELSE Decoded(p, Remaining(body, 10 + Len(p)))
<1> DEFINE f == Frame(flag, p)
           r == f \o rest
           body == SubSeq(r, 1, n)
<1>1. /\ f \in Seq(Byte) /\ Len(f) = 5 + Len(p)
      /\ get_u32(<<f[2], f[3], f[4], f[5]>>) = Len(p)
      /\ \A i \in 1 .. Len(p) : f[5 + i] = p[i]
  BY FrameParts, Zenon
<1>2. Len(p) \in Nat /\ Len(rest) \in Nat
  BY Payloads, LenProperties
<1> HIDE DEF f
<1>3. /\ r \in Seq(Byte) /\ Len(r) = Len(f) + Len(rest)
      /\ \A i \in 1 .. Len(f) : r[i] = f[i]
  BY <1>1, BytesConcat, Zenon
<1> HIDE DEF r
<1>4. n <= Len(r)
  BY <1>1, <1>2, <1>3
<1>5. /\ body \in Seq(Byte) /\ Len(body) = IF 1 <= n THEN n - 1 + 1 ELSE 0
      /\ \A i \in 1 .. n - 1 + 1 : body[i] = r[1 + i - 1]
  <2>1. 1 \in Nat /\ 1 >= 1
    OBVIOUS
  <2>2. QED
    BY <1>3, <1>4, <2>1, BytesSubSeq, Zenon
<1> HIDE DEF body
<1>6. Len(body) = n /\ \A i \in 1 .. n : body[i] = r[i]
  BY <1>5
<1>7. decode_frame(body) = IF n < 10 + Len(p) \/ p \notin Messages THEN Panicked
                           ELSE Decoded(p, Remaining(body, 10 + Len(p)))
  <2>1. CASE n < 5
    <3>1. decode_frame(body) = Panicked
      BY <1>6, <2>1 DEF decode_frame
    <3>2. QED
      BY <1>2, <2>1, <3>1
  <2>2. CASE n >= 5
    <3>1. body[2] = f[2] /\ body[3] = f[3] /\ body[4] = f[4] /\ body[5] = f[5]
      BY <1>1, <1>2, <1>3, <1>6, <2>2
    <3>2. get_u32(<<body[2], body[3], body[4], body[5]>>) = Len(p)
      BY <1>1, <3>1
    <3>3. ASSUME NEW i \in 1 .. Len(p), 5 + i <= n PROVE body[5 + i] = p[i]
      <4>1. 5 + i \in 1 .. n /\ 5 + i \in 1 .. Len(f)
        BY <1>1, <1>2, <3>3
      <4>2. QED
        BY <1>1, <1>3, <1>6, <4>1
    <3>4. QED
      BY <1>5, <1>6, <2>2, <3>2, <3>3, DecodesFirstFrame
  <2>3. QED
    BY <2>1, <2>2
<1>8. QED
  BY <1>5, <1>6, <1>7, Zenon DEF body, r, f

-----------------------------------------------------------------------------
(* Replies.                                                                *)

\* The frames a reply may have, and its bytes.
LEMMA ReplyFrames ==
  ASSUME NEW a \in Replies
  PROVE  /\ a.message \in Messages \cup {None} /\ a.trailers \in TrailerTexts \cup {None}
         /\ Bytes(a) = Frame(0, a.message) \o Frame(Base \div 2, a.trailers)
         /\ \A flag : Frame(flag, None) = <<>>
         /\ Frame(0, a.message) \in Seq(Byte) /\ Frame(Base \div 2, a.trailers) \in Seq(Byte)
<1>1. a.message \in Messages \cup {None} /\ a.trailers \in TrailerTexts \cup {None}
  BY DEF Replies
<1>2. \A flag : Frame(flag, None) = <<>>
  BY DEF Frame
<1>3. ASSUME NEW p \in Messages \cup TrailerTexts \cup {None}, NEW flag \in Byte
      PROVE  Frame(flag, p) \in Seq(Byte)
  <2>1. CASE p = None
    <3>1. Frame(flag, p) = <<>>
      BY <2>1 DEF Frame
    <3>2. <<>> \in Seq(Byte)
      OBVIOUS
    <3>3. QED
      BY <3>1, <3>2
  <2>2. CASE p \in Messages \cup TrailerTexts
    BY <2>2, FrameParts, Zenon
  <2>3. QED
    BY <2>1, <2>2
<1>4. QED
  BY <1>1, <1>2, <1>3, Bases DEF Bytes

\* A reply that lacks a frame is never decoded, however much of it came.
LEMMA HalfReplyPanics ==
  ASSUME NEW a \in Replies, None \in {a.message, a.trailers},
         NEW n \in Nat, n <= Len(Bytes(a))
  PROVE  /\ SubSeq(Bytes(a), 1, n) \in Seq(Byte)
         /\ decode_frame(SubSeq(Bytes(a), 1, n)) = Panicked
<1> DEFINE f == Frame(0, a.message)
           g == Frame(Base \div 2, a.trailers)
<1>1. /\ a.message \in Messages \cup {None} /\ a.trailers \in TrailerTexts \cup {None}
      /\ Bytes(a) = f \o g /\ f \in Seq(Byte) /\ g \in Seq(Byte)
      /\ \A flag : Frame(flag, None) = <<>>
  BY ReplyFrames
<1>2. 0 \in Byte /\ Base \div 2 \in Byte /\ <<>> \in Seq(Byte) /\ Len(<<>>) = 0
  BY Bases
<1>3. ASSUME NEW p \in Messages \cup TrailerTexts, NEW flag \in Byte, Bytes(a) = Frame(flag, p)
      PROVE  /\ SubSeq(Bytes(a), 1, n) \in Seq(Byte)
             /\ decode_frame(SubSeq(Bytes(a), 1, n)) = Panicked
  <2> DEFINE e == <<>>
             h == Frame(flag, p)
  <2>1. h \in Seq(Byte) /\ Len(h) = 5 + Len(p)
    BY FrameParts, Zenon
  <2>2. Bytes(a) = h \o e
    <3>1. h \o <<>> = h
      BY <2>1, ConcatEmptySeq
    <3>2. QED
      BY <1>3, <3>1
  <2>3. Len(p) \in Nat /\ e \in Seq(Byte) /\ Len(e) = 0
    BY <1>2, Payloads
  <2> HIDE DEF e
  <2>4. n <= 5 + Len(p) + Len(e) /\ n < 10 + Len(p)
    BY <1>3, <2>1, <2>3
  <2>5. /\ SubSeq(h \o e, 1, n) \in Seq(Byte)
        /\ decode_frame(SubSeq(h \o e, 1, n))
              = IF n < 10 + Len(p) \/ p \notin Messages THEN Panicked
                ELSE Decoded(p, Remaining(SubSeq(h \o e, 1, n), 10 + Len(p)))
    BY <2>3, <2>4, DecodesPrefix, Zenon
  <2>6. QED
    BY <2>2, <2>4, <2>5
<1>4. CASE a.message # None
  <2>1. a.message \in Messages \cup TrailerTexts /\ g = <<>>
    BY <1>1, <1>4
  <2>2. f \o g = f
    BY <1>1, <2>1, ConcatEmptySeq
  <2>3. QED
    BY <1>1, <1>2, <1>3, <2>1, <2>2
<1>5. CASE a.message = None /\ a.trailers # None
  <2>1. a.trailers \in Messages \cup TrailerTexts /\ f = <<>>
    BY <1>1, <1>5
  <2>2. f \o g = g
    BY <1>1, <2>1, ConcatEmptySeq
  <2>3. QED
    BY <1>1, <1>2, <1>3, <2>1, <2>2
<1>6. CASE a.message = None /\ a.trailers = None
  <2>1. f = <<>> /\ g = <<>>
    BY <1>1, <1>6
  <2>2. Bytes(a) = <<>>
    BY <1>1, <2>1, ConcatEmptySeq
  <2>3. n = 0
    BY <1>2, <2>2
  <2>4. SubSeq(Bytes(a), 1, n) = <<>>
    BY <2>3, SubSeqEmpty
  <2>5. decode_frame(<<>>) = Panicked
    BY <1>2 DEF decode_frame
  <2>6. QED
    BY <1>2, <2>4, <2>5
<1>7. QED
  BY <1>4, <1>5, <1>6

\* A reply with both frames is decoded once its message and the header of the
\* trailers are there; what there is of the trailers comes with it.
LEMMA FullReplyDecodes ==
  ASSUME NEW a \in Replies, None \notin {a.message, a.trailers},
         NEW n \in Nat, n <= Len(Bytes(a))
  PROVE  LET d == decode_frame(SubSeq(Bytes(a), 1, n))
             k == 10 + Len(a.message)
         IN  /\ SubSeq(Bytes(a), 1, n) \in Seq(Byte)
             /\ n < k => d = Panicked
             /\ n >= k => /\ d = Decoded(a.message, SubSeq(a.trailers, 1, n - k))
                          /\ n - k \in Nat /\ n - k <= Len(a.trailers)
             /\ Len(Bytes(a)) = k + Len(a.trailers)
             /\ Len(a.message) \in Nat /\ a.trailers \in Seq(Byte)
<1> DEFINE m == a.message
           t == a.trailers
           f == Frame(0, m)
           g == Frame(Base \div 2, t)
           k == 10 + Len(m)
           body == SubSeq(f \o g, 1, n)
<1>1. /\ m \in Messages /\ m \in Messages \cup TrailerTexts /\ t \in Messages \cup TrailerTexts
      /\ Bytes(a) = f \o g
  BY ReplyFrames
<1>2. /\ Len(m) \in Nat /\ Len(t) \in Nat /\ t \in Seq(Byte)
      /\ 0 \in Byte /\ Base \div 2 \in Byte
  BY <1>1, Payloads, Bases
<1>3. f \in Seq(Byte) /\ Len(f) = 5 + Len(m)
  BY <1>1, <1>2, FrameParts, Zenon
<1>4. g \in Seq(Byte) /\ Len(g) = 5 + Len(t) /\ \A i \in 1 .. Len(t) : g[5 + i] = t[i]
  BY <1>1, <1>2, FrameParts, Zenon
<1>5. /\ Len(f \o g) = Len(f) + Len(g)
      /\ \A i \in 1 .. Len(g) : (f \o g)[Len(f) + i] = g[i]
  BY <1>3, <1>4, BytesConcat, Zenon
<1> HIDE DEF m, t, f, g
<1>6. Len(Bytes(a)) = k + Len(t) /\ n <= 5 + Len(m) + Len(g)
  <2>1. Len(Bytes(a)) = Len(f) + Len(g)
    BY <1>1, <1>5
  <2>2. QED
    BY <1>2, <1>3, <1>4, <2>1
<1>7. /\ body \in Seq(Byte) /\ Len(body) = n
      /\ \A i \in 1 .. n : body[i] = (f \o g)[i]
      /\ decode_frame(body) = IF n < 10 + Len(m) \/ m \notin Messages THEN Panicked
                              ELSE Decoded(m, Remaining(body, 10 + Len(m)))
  <2>1. m \in Messages \cup TrailerTexts /\ 0 \in Byte /\ g \in Seq(Byte)
        /\ n <= 5 + Len(m) + Len(g)
    BY <1>1, <1>2, <1>4, <1>6
  <2>2. body = SubSeq(Frame(0, m) \o g, 1, n)
    BY DEF f
  <2>3. /\ SubSeq(Frame(0, m) \o g, 1, n) \in Seq(Byte)
        /\ Len(SubSeq(Frame(0, m) \o g, 1, n)) = n
        /\ \A i \in 1 .. n : SubSeq(Frame(0, m) \o g, 1, n)[i] = (Frame(0, m) \o g)[i]
    BY <2>1, DecodesPrefix, Zenon
  <2>4. decode_frame(SubSeq(Frame(0, m) \o g, 1, n))
           = IF n < 10 + Len(m) \/ m \notin Messages THEN Panicked
             ELSE Decoded(m, Remaining(SubSeq(Frame(0, m) \o g, 1, n), 10 + Len(m)))
    BY <2>1, DecodesPrefix, Zenon
  <2> HIDE DEF body
  <2>5. QED
    BY <2>2, <2>3, <2>4, Zenon DEF f
<1> DEFINE r == f \o g
<1>8. Bytes(a) = r /\ SubSeq(Bytes(a), 1, n) = body
  BY <1>1
<1>9. /\ \A i \in 1 .. n : body[i] = r[i]
      /\ \A i \in 1 .. Len(g) : r[Len(f) + i] = g[i]
  BY <1>5, <1>7
<1> HIDE DEF r, body
<1>10. ASSUME n >= k
       PROVE  Remaining(body, k) = SubSeq(t, 1, n - k) /\ n - k \in Nat /\ n - k <= Len(t)
  <2> DEFINE from == k + 1
             len == n - k
             s == SubSeq(body, from, n)
             u == SubSeq(t, 1, len)
  <2>1. /\ from \in Nat /\ from >= 1 /\ from = 11 + Len(m)
        /\ len \in Nat /\ len <= Len(t) /\ len = n - k /\ n <= Len(body) /\ n = from - 1 + len
    BY <1>2, <1>6, <1>7, <1>8, <1>10
  <2>2. Remaining(body, k) = s
    BY <1>7 DEF Remaining
  <2> HIDE DEF from, len
  <2>3. /\ s \in Seq(Byte) /\ Len(s) = IF from <= n THEN n - from + 1 ELSE 0
        /\ \A i \in 1 .. n - from + 1 : s[i] = body[from + i - 1]
    BY <1>7, <2>1, BytesSubSeq
  <2>4. /\ u \in Seq(Byte) /\ Len(u) = IF 1 <= len THEN len - 1 + 1 ELSE 0
        /\ \A i \in 1 .. len - 1 + 1 : u[i] = t[1 + i - 1]
    BY <1>2, <2>1, BytesSubSeq
  <2> HIDE DEF s, u
  <2>5. Len(s) = len /\ Len(u) = len
    <3>1. len \in Nat /\ from \in Nat /\ n = from - 1 + len
      BY <2>1
    <3>2. Len(s) = len
      BY <2>3, <3>1
    <3>3. Len(u) = len
      BY <2>4, <3>1
    <3>4. QED
      BY <3>2, <3>3
  <2>6. ASSUME NEW i \in 1 .. len PROVE s[i] = u[i]
    <3>1. /\ i \in 1 .. n - from + 1 /\ i \in 1 .. len - 1 + 1 /\ 1 + i - 1 = i
          /\ from + i - 1 \in 1 .. n /\ from + i - 1 = Len(f) + (5 + i)
          /\ 5 + i \in 1 .. Len(g) /\ i \in 1 .. Len(t)
      BY <1>2, <1>3, <1>4, <2>1
    <3>2. s[i] = body[from + i - 1] /\ body[from + i - 1] = r[Len(f) + (5 + i)]
      BY <1>9, <2>3, <3>1
    <3>3. r[Len(f) + (5 + i)] = g[5 + i] /\ g[5 + i] = t[i]
      BY <1>4, <1>9, <3>1
    <3>4. u[i] = t[i]
      BY <2>4, <3>1
    <3>5. QED
      BY <3>2, <3>3, <3>4
  <2>7. s = u
    BY <2>3, <2>4, <2>5, <2>6, SeqEqual
  <2>8. QED
    BY <2>1, <2>2, <2>7 DEF u, len
<1>11. n >= k => decode_frame(body) = Decoded(m, SubSeq(t, 1, n - k))
  <2> SUFFICES ASSUME n >= k PROVE decode_frame(body) = Decoded(m, SubSeq(t, 1, n - k))
    OBVIOUS
  <2>1. decode_frame(body) = Decoded(m, Remaining(body, 10 + Len(m)))
    BY <1>1, <1>2, <1>7
  <2>2. QED
    BY <1>10, <2>1
<1>12. n < k => decode_frame(body) = Panicked
  BY <1>7
<1>13. QED
  BY <1>2, <1>6, <1>7, <1>8, <1>10, <1>11, <1>12 DEF m, t

-----------------------------------------------------------------------------
(* A call, from its request to its result.                                 *)

\* the request is that of the message that was asked
RequestInv == asked # None => request = encode_body(asked)

\* A body is read of a reply with status 200, and there is no result before.
ReadingInv ==
    /\ phase \in {"sending", "waiting", "reading"} => result.status # "decoded"
    /\ phase = "reading" => reply \in Replies /\ reply.code = 200

CallInv == TypeOK /\ RequestInv /\ ReadingInv /\ DecodedIsReply /\ GoodReplyDecodes

\* The statuses of results.
LEMMA ResultStatus ==
  /\ \A e : Failed(e).status = e
  /\ Panicked.status = "panic"
  /\ \A m, t : Decoded(m, t).status = "decoded" /\ Decoded(m, t).message = m
               /\ Decoded(m, t).trailers = t
BY DEF Failed, Panicked, Decoded

LEMMA CallInit == Init => CallInv
<1> SUFFICES ASSUME Init PROVE CallInv
  OBVIOUS
<1>1. result.status = "none" /\ 0 \in 0 .. MaxElapsed /\ <<>> \in Seq(Byte)
  BY ResultStatus, Bases DEF Init
<1>2. TypeOK
  BY <1>1 DEF Init, TypeOK, Results
<1>3. QED
  BY <1>1, <1>2 DEF Init, CallInv, RequestInv, ReadingInv, DecodedIsReply, GoodReplyDecodes

\* What decode_body makes of a prefix of a reply's body: a panic, or the reply.
LEMMA CollectResult ==
  ASSUME NEW a \in Replies, NEW n \in 0 .. Len(Bytes(a)), NEW form \in Forms(a, n),
         NEW got, got = SubSeq(Bytes(a), 1, n), NEW d,
         d = decode_body([form |-> form, bytes |-> got], GrpcWebContentType(a.content_type))
  PROVE  /\ got \in Seq(Byte) /\ d.status \in Results
         /\ d.status = "decoded" =>
               /\ d.message = a.message /\ a.trailers # None
               /\ Len(d.trailers) <= Len(a.trailers)
               /\ d.trailers = SubSeq(a.trailers, 1, Len(d.trailers))
         /\ (/\ a.content_type \in {"application/grpc-web", "application/grpc-web+proto",
                                    "application/grpc-web-text+proto"}
             /\ None \notin {a.message, a.trailers} /\ got = Bytes(a))
            => d = Decoded(a.message, a.trailers)
<1> DEFINE df == decode_frame(got)
           good == a.content_type \in {"application/grpc-web", "application/grpc-web+proto",
                                       "application/grpc-web-text+proto"}
<1>1. Bytes(a) \in Seq(Byte) /\ Len(Bytes(a)) \in Nat /\ n \in Nat /\ n <= Len(Bytes(a))
  <2>1. Bytes(a) \in Seq(Byte)
    <3> DEFINE f == Frame(0, a.message)
               g == Frame(Base \div 2, a.trailers)
    <3>1. f \in Seq(Byte) /\ g \in Seq(Byte) /\ Bytes(a) = f \o g
      BY ReplyFrames
    <3> HIDE DEF f, g
    <3>2. QED
      BY <3>1, BytesConcat
  <2>2. Len(Bytes(a)) \in Nat
    BY <2>1, LenProperties
  <2>3. QED
    BY <2>1, <2>2
<1>2. d = df \/ d = Panicked
  BY DEF decode_body
<1>3. good /\ n = Len(Bytes(a)) => d = df
  BY DEF decode_body, Forms, GrpcWebContentType, TextTypes
<1>4. got = Bytes(a) => n = Len(Bytes(a))
  <2>1. 1 \in Nat /\ 1 >= 1
    OBVIOUS
  <2>2. Len(got) = IF 1 <= n THEN n - 1 + 1 ELSE 0
    BY <1>1, <2>1, BytesSubSeq
  <2>3. QED
    BY <1>1, <2>2
<1>5. CASE None \in {a.message, a.trailers}
  <2>1. got \in Seq(Byte) /\ df = Panicked
    BY <1>1, <1>5, HalfReplyPanics
  <2>2. d = Panicked
    BY <1>2, <2>1
  <2>3. QED
    BY <1>5, <2>1, <2>2, ResultStatus DEF Results
<1>6. CASE None \notin {a.message, a.trailers}
  <2> DEFINE k == 10 + Len(a.message)
             t == SubSeq(a.trailers, 1, n - k)
  <2>1. /\ got \in Seq(Byte) /\ n < k => df = Panicked
        /\ n >= k => /\ df = Decoded(a.message, t)
                     /\ n - k \in Nat /\ n - k <= Len(a.trailers)
        /\ Len(Bytes(a)) = k + Len(a.trailers)
        /\ Len(a.message) \in Nat /\ a.trailers \in Seq(Byte) /\ got \in Seq(Byte)
    BY <1>1, <1>6, FullReplyDecodes, Zenon
  <2>2. Len(a.trailers) \in Nat /\ k \in Nat
    BY <2>1, LenProperties
  <2> HIDE DEF k, df
  <2>3. n >= k => Len(t) = n - k
    <3> SUFFICES ASSUME n >= k PROVE Len(t) = n - k
      OBVIOUS
    <3> DEFINE l == n - k
    <3>1. l \in Nat /\ l <= Len(a.trailers)
      BY <2>1, Zenon
    <3> HIDE DEF l
    <3>2. Len(SubSeq(a.trailers, 1, l)) = IF 1 <= l THEN l - 1 + 1 ELSE 0
      BY <2>1, <3>1, BytesSubSeq
    <3>3. Len(SubSeq(a.trailers, 1, l)) = l
      BY <3>1, <3>2
    <3>4. QED
      BY <3>3 DEF l
  <2>4. d.status = "decoded" => n >= k /\ d = Decoded(a.message, t)
    BY <1>1, <1>2, <2>1, <2>2, ResultStatus
  <2>5. d.status \in Results
    BY <1>1, <1>2, <2>1, <2>2, ResultStatus DEF Results
  <2>6. d.status = "decoded" =>
               /\ d.message = a.message /\ a.trailers # None
               /\ Len(d.trailers) <= Len(a.trailers)
               /\ d.trailers = SubSeq(a.trailers, 1, Len(d.trailers))
    <3> SUFFICES ASSUME d.status = "decoded"
                 PROVE  /\ d.message = a.message /\ a.trailers # None
                        /\ Len(d.trailers) <= Len(a.trailers)
                        /\ d.trailers = SubSeq(a.trailers, 1, Len(d.trailers))
      OBVIOUS
    <3>1. /\ d.message = a.message /\ d.trailers = SubSeq(a.trailers, 1, n - k)
          /\ Len(SubSeq(a.trailers, 1, n - k)) = n - k /\ n - k <= Len(a.trailers)
      <4>1. n >= k /\ d = Decoded(a.message, t)
        BY <2>4
      <4>2. Len(t) = n - k /\ n - k <= Len(a.trailers)
        BY <2>1, <2>3, <4>1, Zenon
      <4>3. d.message = a.message /\ d.trailers = t
        BY <4>1 DEF Decoded
      <4>4. QED
        BY <4>2, <4>3
    <3>2. Len(d.trailers) = n - k
      BY <3>1
    <3>3. QED
      BY <1>6, <3>1, <3>2
  <2>7. good /\ got = Bytes(a) => d = Decoded(a.message, a.trailers)
    <3> SUFFICES ASSUME good, got = Bytes(a) PROVE d = Decoded(a.message, a.trailers)
      OBVIOUS
    <3>1. n = Len(Bytes(a)) /\ d = df
      BY <1>3, <1>4
    <3>2. n >= k /\ n - k = Len(a.trailers)
      BY <2>1, <2>2, <3>1
    <3>3. t = SubSeq(a.trailers, 1, Len(a.trailers))
      BY <3>2
    <3>4. SubSeq(a.trailers, 1, Len(a.trailers)) = a.trailers
      BY <2>1, SubSeqFull
    <3> HIDE DEF t
    <3>5. QED
      BY <2>1, <3>1, <3>2, <3>3, <3>4
  <2>8. QED
    BY <2>1, <2>5, <2>6, <2>7
<1>7. QED
  BY <1>5, <1>6

\* Steps that write neither the request, the reply nor the result, and do not end
\* the call or start to read.
LEMMA CallGoesOn ==
  ASSUME CallInv, UNCHANGED <<request, asked, reply, received, result>>,
         \/ phase = "sending" /\ phase' = "waiting"
         \/ phase = "done" /\ phase' = "idle"
         \/ phase' = phase,
         elapsed' \in 0 .. MaxElapsed
  PROVE  CallInv'
<1>1. TypeOK'
  BY DEF CallInv, TypeOK, Replies, Results, Byte
<1>2. RequestInv' /\ ReadingInv'
  BY DEF CallInv, RequestInv, ReadingInv, encode_body, put_u32, High, Replies
<1>3. DecodedIsReply'
  BY DEF CallInv, DecodedIsReply
<1>4. GoodReplyDecodes'
  <2>1. (phase = "done")' => phase = "done"
    OBVIOUS
  <2>2. QED
    BY <2>1, SMTT(30) DEF CallInv, GoodReplyDecodes, Bytes, Frame, LengthBytes, Decoded, Byte
<1>5. QED
  BY <1>1, <1>2, <1>3, <1>4 DEF CallInv

\* Steps that end the call with a failure before a body is read.
LEMMA CallFails ==
  ASSUME CallInv, NEW r, Ends(r), r.status \in Results \ {"decoded"},
         reply # None => ~(/\ reply.code = 200
                           /\ reply.content_type \in
                                {"application/grpc-web", "application/grpc-web+proto",
                                 "application/grpc-web-text+proto"}),
         UNCHANGED <<elapsed, request, asked, reply, received>>
  PROVE  CallInv'
<1>1. phase' = "done" /\ result' = r /\ result'.status # "decoded"
  BY DEF Ends
<1>2. TypeOK'
  BY <1>1 DEF CallInv, TypeOK, Replies, Results, Byte
<1>3. RequestInv' /\ ReadingInv'
  BY <1>1 DEF CallInv, RequestInv, ReadingInv, encode_body, put_u32, High
<1>4. DecodedIsReply' /\ GoodReplyDecodes'
  BY <1>1 DEF DecodedIsReply, GoodReplyDecodes
<1>5. QED
  BY <1>2, <1>3, <1>4 DEF CallInv

LEMMA CallFetch ==
  ASSUME CallInv, NEW input \in Messages, Fetch(input)
  PROVE  CallInv'
<1>1. /\ phase' = "sending" /\ elapsed' = 0 /\ asked' = input
      /\ request' = encode_body(input) /\ reply' = None /\ received' = <<>>
      /\ result'.status = "none"
  BY ResultStatus DEF Fetch
<1>2. /\ request' \in Seq(Byte) /\ received' \in Seq(Byte) /\ elapsed' \in 0 .. MaxElapsed
      /\ result'.status \in Results
  <2>1. request' \in Seq(Byte)
    BY <1>1, EncodedIsFrame
  <2>2. received' \in Seq(Byte)
    BY <1>1
  <2>3. elapsed' \in 0 .. MaxElapsed
    BY <1>1, Bases
  <2>4. QED
    BY <1>1, <2>1, <2>2, <2>3 DEF Results
<1>3. TypeOK'
  BY <1>1, <1>2 DEF TypeOK
<1>4. RequestInv'
  BY <1>1 DEF RequestInv
<1>5. ReadingInv' /\ DecodedIsReply' /\ GoodReplyDecodes'
  BY <1>1 DEF ReadingInv, DecodedIsReply, GoodReplyDecodes
<1>6. QED
  BY <1>3, <1>4, <1>5 DEF CallInv

LEMMA CallAnswered == CallInv /\ ServiceAnswers => CallInv'
<1> SUFFICES ASSUME CallInv, ServiceAnswers PROVE CallInv'
  OBVIOUS
<1>1. /\ phase = "waiting" /\ reply' \in Replies
      /\ UNCHANGED <<phase, elapsed, request, asked, received, result>>
  BY DEF ServiceAnswers
<1>2. TypeOK'
  BY <1>1 DEF CallInv, TypeOK
<1>3. RequestInv' /\ ReadingInv'
  BY <1>1 DEF CallInv, RequestInv, ReadingInv
<1>4. DecodedIsReply' /\ GoodReplyDecodes'
  BY <1>1 DEF CallInv, ReadingInv, DecodedIsReply, GoodReplyDecodes
<1>5. QED
  BY <1>2, <1>3, <1>4 DEF CallInv

LEMMA CallHeaders == CallInv /\ HandleHeaders => CallInv'
<1> SUFFICES ASSUME CallInv, HandleHeaders PROVE CallInv'
  OBVIOUS
<1>1. /\ phase = "waiting" /\ reply # None /\ reply \in Replies
      /\ UNCHANGED <<elapsed, request, asked, reply, received>>
  BY DEF HandleHeaders, CallInv, TypeOK
<1>2. CASE HeadersResult(reply) = {} /\ phase' = "reading" /\ UNCHANGED result
  <2>1. reply.code = 200
    BY <1>2 DEF HeadersResult
  <2>2. TypeOK'
    BY <1>1, <1>2 DEF CallInv, TypeOK
  <2>3. RequestInv' /\ ReadingInv'
    BY <1>1, <1>2, <2>1 DEF CallInv, RequestInv, ReadingInv
  <2>4. DecodedIsReply' /\ GoodReplyDecodes'
    BY <1>1, <1>2 DEF CallInv, DecodedIsReply, GoodReplyDecodes
  <2>5. QED
    BY <2>2, <2>3, <2>4 DEF CallInv
<1>3. ASSUME NEW r \in HeadersResult(reply), Ends(r) PROVE CallInv'
  <2>1. \/ reply.content_type = None /\ r = Panicked
        \/ reply.code # 200 /\ r = Failed("Unknown")
    BY <1>3 DEF HeadersResult
  <2>2. r.status \in Results \ {"decoded"}
    BY <2>1, ResultStatus DEF Results
  <2>3. ~(/\ reply.code = 200
          /\ reply.content_type \in {"application/grpc-web", "application/grpc-web+proto",
                                     "application/grpc-web-text+proto"})
    BY <2>1, NoneAssumption
  <2>4. QED
    BY <1>1, <1>3, <2>2, <2>3, CallFails
<1>4. QED
  BY <1>2, <1>3 DEF HandleHeaders

LEMMA CallCollect == CallInv /\ Collect => CallInv'
<1> SUFFICES ASSUME CallInv, Collect PROVE CallInv'
  OBVIOUS
<1>1. /\ phase = "reading" /\ reply \in Replies /\ reply.code = 200
      /\ UNCHANGED <<elapsed, request, asked, reply>>
  BY DEF Collect, CallInv, ReadingInv
<1>2. PICK n \in 0 .. Len(Bytes(reply)) : \E form \in Forms(reply, n) :
         /\ received' = SubSeq(Bytes(reply), 1, n)
         /\ Ends(decode_body([form |-> form, bytes |-> received'],
                             GrpcWebContentType(reply.content_type)))
  BY Zenon DEF Collect
<1>3. PICK form \in Forms(reply, n) :
         /\ received' = SubSeq(Bytes(reply), 1, n)
         /\ phase' = "done"
         /\ result' = decode_body([form |-> form, bytes |-> received'],
                                  GrpcWebContentType(reply.content_type))
  BY <1>2, Zenon DEF Ends
<1>4. /\ received' \in Seq(Byte) /\ result'.status \in Results
      /\ result'.status = "decoded" =>
            /\ result'.message = reply.message /\ reply.trailers # None
            /\ Len(result'.trailers) <= Len(reply.trailers)
            /\ result'.trailers = SubSeq(reply.trailers, 1, Len(result'.trailers))
      /\ (/\ reply.content_type \in {"application/grpc-web", "application/grpc-web+proto",
                                     "application/grpc-web-text+proto"}
          /\ None \notin {reply.message, reply.trailers} /\ received' = Bytes(reply))
         => result' = Decoded(reply.message, reply.trailers)
  BY <1>1, <1>3, CollectResult, SMTT(30)
<1>5. TypeOK'
  BY <1>1, <1>3, <1>4 DEF CallInv, TypeOK
<1>6. RequestInv' /\ ReadingInv'
  BY <1>1, <1>3 DEF CallInv, RequestInv, ReadingInv
<1>7. DecodedIsReply'
  BY <1>1, <1>4 DEF DecodedIsReply
<1>8. GoodReplyDecodes'
  <2>1. Bytes(reply)' = Bytes(reply) /\ Decoded(reply.message, reply.trailers)'
           = Decoded(reply.message, reply.trailers)
    BY <1>1 DEF Bytes, Frame, LengthBytes, Decoded, Byte
  <2>2. QED
    BY <1>1, <1>4, <2>1 DEF GoodReplyDecodes
<1>9. QED
  BY <1>5, <1>6, <1>7, <1>8 DEF CallInv

LEMMA CallStep == CallInv /\ [Next]_vars => CallInv'
<1> SUFFICES ASSUME CallInv, [Next]_vars PROVE CallInv'
  OBVIOUS
<1>1. elapsed \in 0 .. MaxElapsed
  BY DEF CallInv, TypeOK
<1>2. ASSUME NEW input \in Messages, Fetch(input) PROVE CallInv'
  BY <1>2, CallFetch
<1>3. CASE Send
  BY <1>1, <1>3, CallGoesOn DEF Send
<1>4. CASE ServiceAnswers
  BY <1>4, CallAnswered
<1>5. CASE HandleHeaders
  BY <1>5, CallHeaders
<1>6. CASE ConnectionBreaks
  <2>1. Failed("IoError").status \in Results \ {"decoded"}
    BY ResultStatus DEF Results
  <2>2. QED
    BY <1>6, <2>1, CallFails DEF ConnectionBreaks
<1>7. CASE DeadlineReached
  <2> DEFINE e == IF phase = "sending" THEN "IoError" ELSE "DeadlineReached"
  <2>1. Failed(e).status \in Results \ {"decoded"}
    BY ResultStatus DEF Results
  <2>2. QED
    BY <1>7, <2>1, CallFails DEF DeadlineReached
<1>8. CASE Collect
  BY <1>8, CallCollect
<1>9. CASE Tick
  <2>1. elapsed' \in 0 .. MaxElapsed
    BY <1>1, <1>9, Bases DEF Tick
  <2>2. QED
    BY <1>9, <2>1, CallGoesOn DEF Tick
<1>10. CASE Return
  BY <1>1, <1>10, CallGoesOn DEF Return
<1>11. CASE UNCHANGED vars
  BY <1>1, <1>11, CallGoesOn DEF vars
<1>12. QED
  BY <1>2, <1>3, <1>4, <1>5, <1>6, <1>7, <1>8, <1>9, <1>10, <1>11 DEF Next

LEMMA CallAlways == Spec => []CallInv
BY CallInit, CallStep, PTL DEF Spec

\* Every variable keeps its type: what is sent and received is bytes.
THEOREM CommonTypeCorrect == Spec => []TypeOK
<1>1. CallInv => TypeOK
  BY DEF CallInv
<1>2. QED
  BY <1>1, CallAlways, PTL

\* encode_body: a service that reads the request by the protocol finds the
\* message that was asked, and no other, for messages of every length that fits
\* the four length bytes.
THEOREM RequestIsReadBackHolds == Spec => []RequestIsReadBack
<1>1. CallInv => RequestIsReadBack
  <2> SUFFICES ASSUME CallInv, asked # None PROVE ServiceReads(request) = {asked}
    BY DEF RequestIsReadBack
  <2>1. asked \in Messages /\ request = encode_body(asked)
    BY DEF CallInv, TypeOK, RequestInv
  <2>2. request = Frame(0, asked)
    BY <2>1, EncodedIsFrame
  <2>3. \A m \in Messages : request = Frame(0, m) => m = asked
    BY <2>1, <2>2, FrameInjective
  <2>4. QED
    BY <2>1, <2>2, <2>3 DEF ServiceReads
<1>2. QED
  BY <1>1, CallAlways, PTL

\* decode_body never makes a message of a reply that is cut before its trailers,
\* that lacks a frame or that reports an error: what it returns is the reply's own
\* message with what has come of its trailers.
THEOREM DecodedIsReplyHolds == Spec => []DecodedIsReply
<1>1. CallInv => DecodedIsReply
  BY DEF CallInv
<1>2. QED
  BY <1>1, CallAlways, PTL

\* A whole reply with status 200 in a known encoding is decoded, message and
\* trailers, empty ones included.
THEOREM GoodReplyDecodesHolds == Spec => []GoodReplyDecodes
<1>1. CallInv => GoodReplyDecodes
  BY DEF CallInv
<1>2. QED
  BY <1>1, CallAlways, PTL
=============================================================================
