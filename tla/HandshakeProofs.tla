---------------------------- MODULE HandshakeProofs ----------------------------
(***************************************************************************)
(* For every duration, every size of a byte, of the socket's buffer and of *)
(* the timeout: the server reads what the client sent, and on a            *)
(* non-blocking socket it waits no more than once for each byte.           *)
(***************************************************************************)
EXTENDS Handshake, SequenceTheorems, TLAPS

(* htonl() and ntohl() *)

\* Division as the integers have it.
LEMMA DivMod ==
    ASSUME NEW m \in Nat \ {0}, NEW a \in Nat
    PROVE  /\ a \div m \in Nat
           /\ a % m \in 0..(m - 1)
           /\ a = m * (a \div m) + (a % m)
  OBVIOUS

\* A quotient and a remainder are the only ones.
LEMMA DivUnique ==
    ASSUME NEW m \in Nat \ {0}, NEW q \in Nat, NEW r \in 0..(m - 1),
           NEW d \in Nat, NEW e \in 0..(m - 1), m * d + e = m * q + r
    PROVE  d = q /\ e = r
  <1>1. ASSUME NEW x \in Nat, NEW y \in Nat, NEW f \in 0..(m - 1), NEW g \in 0..(m - 1),
               m * x + f = m * y + g
        PROVE  ~(x < y)
    <2> SUFFICES ASSUME x < y PROVE FALSE
      BY Zenon
    <2> DEFINE z == y - x - 1
               mx == m * x
               mz == m * z
               my == m * y
    <2>1. z \in Nat /\ y = x + 1 + z
      OBVIOUS
    <2> HIDE DEF z
    <2>2. mx \in Nat /\ mz \in Nat
      BY <2>1
    <2>3. my = mx + m + mz
      BY <2>1
    <2>4. mx + f = my + g
      BY Zenon, <1>1
    <2> HIDE DEF mx, mz, my
    <2> QED
      BY <2>2, <2>3, <2>4
  <1>2. d = q
    BY <1>1
  <1> QED
    BY <1>2

\* n \div (a * b) is (n \div a) \div b.
LEMMA DivDiv ==
    ASSUME NEW a \in Nat \ {0}, NEW b \in Nat \ {0}, NEW n \in Nat
    PROVE  n \div (a * b) = (n \div a) \div b
  <1> DEFINE q == n \div a
             r == n % a
             s == q \div b
             t == q % b
             u == n \div (a * b)
             v == n % (a * b)
  <1>1. q \in Nat /\ r \in 0..(a - 1) /\ n = a * q + r
    BY Zenon, DivMod
  <1> HIDE DEF q, r
  <1>2. s \in Nat /\ t \in 0..(b - 1) /\ q = b * s + t
    BY Zenon, DivMod, <1>1
  <1> HIDE DEF s, t
  <1>3. a * b \in Nat \ {0}
    OBVIOUS
  <1>4. u \in Nat /\ v \in 0..(a * b - 1) /\ n = (a * b) * u + v
    BY Zenon, DivMod, <1>3
  <1> HIDE DEF u, v
  <1> DEFINE w == a * t + r
             ab == a * b
             at == a * t
             abs == ab * s
  <1>5. n = ab * s + w
    BY <1>1, <1>2
  <1>6. at \in Nat /\ at =< ab - a
    <2>1. (b - 1 - t) \in Nat
      BY <1>2
    <2>2. a * (b - 1 - t) \in Nat
      BY <2>1
    <2>3. a * (b - 1 - t) = ab - a - at
      BY <1>2
    <2>4. at \in Nat
      BY <1>2
    <2> DEFINE x == a * (b - 1 - t)
    <2>5. x \in Nat /\ x = ab - a - at
      BY Zenon, <2>2, <2>3
    <2> HIDE DEF x, at, ab
    <2> QED
      BY <1>3, <2>4, <2>5 DEF ab
  <1>7. w \in 0..(ab - 1)
    <2>1. w = at + r
      BY Zenon
    <2>2. ab \in Nat
      BY Zenon, <1>3
    <2> HIDE DEF w, at, ab
    <2> QED
      BY <1>1, <1>6, <2>1, <2>2
  <1>8. ab \in Nat \ {0} /\ v \in 0..(ab - 1) /\ ab * u + v = ab * s + w
    BY Zenon, <1>3, <1>4, <1>5
  <1> HIDE DEF w, ab
  <1>9. u = s
    BY Zenon, <1>2, <1>4, <1>7, <1>8, DivUnique
  <1> QED
    BY Zenon, <1>9 DEF u, s, q

\* A number below m * k has a quotient below k.
LEMMA DivBound ==
    ASSUME NEW m \in Nat \ {0}, NEW k \in Nat, NEW a \in Nat, a < m * k
    PROVE  a \div m < k
  <1> DEFINE d == a \div m
             e == a % m
             md == m * d
             mk == m * k
  <1>1. d \in Nat /\ e \in 0..(m - 1) /\ a = md + e
    BY Zenon, DivMod
  <1> HIDE DEF d, e
  <1> SUFFICES ASSUME d >= k PROVE FALSE
    BY <1>1 DEF d
  <1>2. (d - k) \in Nat
    BY <1>1
  <1>3. m * (d - k) \in Nat
    BY <1>2
  <1> DEFINE x == m * (d - k)
  <1>4. x \in Nat /\ md = mk + x /\ mk \in Nat
    BY <1>1, <1>3
  <1>5. a < mk
    BY Zenon
  <1> HIDE DEF x, md, mk
  <1> QED
    BY <1>1, <1>4, <1>5

\* ntohl() undoes htonl() on a uint32_t.
LEMMA NetworkOrder ==
    ASSUME NEW n \in 0..(Base * Base * Base * Base - 1)
    PROVE  /\ \A i \in 1..4 : htonl(n)[i] \in Byte
           /\ ntohl(htonl(n)) = n
  <1> DEFINE B == Base
             n1 == n \div B
             n2 == n1 \div B
             n3 == n2 \div B
             b4 == n % B
             b3 == n1 % B
             b2 == n2 % B
             b1 == n3 % B
  <1>0. B \in Nat \ {0, 1}
    BY Zenon, HandshakeAssumption DEF B
  <1>p. /\ B * B \in Nat \ {0} /\ B * B * B \in Nat \ {0}
        /\ B * B * B * B \in Nat
        /\ B * B * B * B = B * (B * B * B) /\ B * B * B = B * (B * B)
    <2>1. B * B \in Nat \ {0}
      BY <1>0
    <2> DEFINE C == B * B
    <2> HIDE DEF C
    <2>2. C * B \in Nat \ {0} /\ C * B = B * C
      BY <1>0, <2>1 DEF C
    <2> DEFINE D == C * B
    <2>3. D \in Nat \ {0}
      BY Zenon, <2>2
    <2> HIDE DEF D
    <2>4. D * B \in Nat /\ D * B = B * D
      BY <1>0, <2>3
    <2> QED
      BY <2>1, <2>2, <2>4, Zenon DEF C, D
  <1>n. n \in Nat /\ n < B * B * B * B
    BY <1>p DEF B
  <1> HIDE DEF B
  <1>1. n1 \in Nat /\ b4 \in 0..(B - 1) /\ n = B * n1 + b4
    BY Zenon, <1>0, <1>n, DivMod
  <1>d1. n1 < B * B * B
    BY Zenon, <1>0, <1>n, <1>p, DivBound
  <1>w2. n \div (B * B) = n2
    BY Zenon, <1>0, <1>n, DivDiv
  <1>w3. n \div (B * B * B) = (n \div (B * B)) \div B
    BY Zenon, <1>0, <1>n, <1>p, DivDiv
  <1> HIDE DEF n1, b4
  <1>2. n2 \in Nat /\ b3 \in 0..(B - 1) /\ n1 = B * n2 + b3
    BY Zenon, <1>0, <1>1, DivMod
  <1>d2. n2 < B * B
    BY Zenon, <1>0, <1>1, <1>d1, <1>p, DivBound
  <1> HIDE DEF n2, b3
  <1>3. n3 \in Nat /\ b2 \in 0..(B - 1) /\ n2 = B * n3 + b2
    BY Zenon, <1>0, <1>2, DivMod
  <1>d3. n3 < B
    BY Zenon, <1>0, <1>2, <1>d2, <1>p, DivBound
  <1>w. n \div (B * B * B) = n3
    BY Zenon, <1>w2, <1>w3
  <1> HIDE DEF n3, b2
  <1>4. b1 = n3
    <2>1. n3 = B * 0 + n3 /\ n3 \in 0..(B - 1)
      BY <1>0, <1>3, <1>d3
    <2>2. n3 \div B \in Nat /\ b1 \in 0..(B - 1) /\ n3 = B * (n3 \div B) + b1
      BY Zenon, <1>0, <1>3, DivMod
    <2> DEFINE z == n3 \div B
    <2>3. z \in Nat /\ B * z + b1 = B * 0 + n3
      BY Zenon, <2>1, <2>2
    <2> HIDE DEF z, b1
    <2> QED
      BY <1>0, <2>1, <2>2, <2>3, DivUnique
  <1> HIDE DEF b1
  <1>5. /\ htonl(n)[1] = n3 /\ htonl(n)[2] = b2
        /\ htonl(n)[3] = b3 /\ htonl(n)[4] = b4
    <2>1. /\ htonl(n)[1] = (n \div (B * B * B)) % B
          /\ htonl(n)[2] = (n \div (B * B)) % B
          /\ htonl(n)[3] = (n \div B) % B
          /\ htonl(n)[4] = (n \div 1) % B
      BY DEF htonl, Weight, B
    <2>2. n \div 1 = n
      BY <1>n
    <2> QED
      BY <2>1, <2>2, <1>w, <1>w2, <1>4, Zenon DEF b1, b2, b3, b4, n1
  <1>6. \A i \in 1..4 : htonl(n)[i] \in Byte
    <2>1. n3 \in Byte /\ b2 \in Byte /\ b3 \in Byte /\ b4 \in Byte
      BY <1>0, <1>1, <1>2, <1>3, <1>d3 DEF Byte, B
    <2>2. \A i \in 1..4 : i \in {1, 2, 3, 4}
      OBVIOUS
    <2> QED
      BY <1>5, <2>1, <2>2, Zenon
  <1>7. ntohl(htonl(n)) = n3 * (B * B * B) + b2 * (B * B) + b3 * B + b4
    BY Zenon, <1>5 DEF ntohl, Weight, B
  <1>8. n = n3 * (B * B * B) + b2 * (B * B) + b3 * B + b4
    <2>1. n = B * (B * (B * n3 + b2) + b3) + b4
      BY Zenon, <1>1, <1>2, <1>3
    <2> QED
      BY <1>0, <1>1, <1>2, <1>3, <2>1
  <1> QED
    BY Zenon, <1>6, <1>7, <1>8

\* What send() takes of a buffer, and what recv() leaves on the wire.
LEMMA Cut ==
    ASSUME NEW S, NEW s \in Seq(S), NEW m \in 0..Len(s), NEW n \in m..Len(s)
    PROVE  /\ SubSeq(s, m + 1, n) \in Seq(S)
           /\ Len(SubSeq(s, m + 1, n)) = n - m
           /\ \A i \in 1..(n - m) : SubSeq(s, m + 1, n)[i] = s[m + i]
  <1>1. \A i \in (m + 1)..n : s[i] \in S
    OBVIOUS
  <1>2. /\ SubSeq(s, m + 1, n) \in Seq(S)
        /\ Len(SubSeq(s, m + 1, n)) = IF m + 1 =< n THEN n - (m + 1) + 1 ELSE 0
        /\ \A i \in 1..(n - (m + 1) + 1) : SubSeq(s, m + 1, n)[i] = s[m + 1 + i - 1]
    BY <1>1, SubSeqProperties
  <1>3. n - (m + 1) + 1 = n - m /\ \A i \in Int : m + 1 + i - 1 = m + i
    OBVIOUS
  <1>4. Len(SubSeq(s, m + 1, n)) = n - m
    <2>1. CASE m + 1 =< n
      BY Zenon, <1>2, <1>3, <2>1
    <2>2. CASE ~(m + 1 =< n)
      <3>1. n - m = 0
        BY <2>2
      <3> QED
        BY Zenon, <1>2, <2>2, <3>1
    <2> QED
      BY Zenon, <2>1, <2>2
  <1>5. ASSUME NEW i \in 1..(n - m)
        PROVE  SubSeq(s, m + 1, n)[i] = s[m + i]
    <2>1. SubSeq(s, m + 1, n)[i] = s[m + 1 + i - 1]
      BY Zenon, <1>2, <1>3, <1>5
    <2>2. m + 1 + i - 1 = m + i
      OBVIOUS
    <2> QED
      BY Zenon, <2>1, <2>2
  <1> QED
    BY Zenon, <1>2, <1>4, <1>5

\* The five bytes, and what recv_handshake() makes of them.
LEMMA EncodeFacts ==
    ASSUME TypeOK
    PROVE  /\ Encode \in Seq(Byte) /\ Len(Encode) = Length
           /\ Encode[1] = IF reverse THEN 1 ELSE 0
           /\ \A i \in 1..4 : Encode[i + 1] = htonl(duration)[i]
  <1>1. duration \in 0..(Base * Base * Base * Base - 1)
    BY Zenon, HandshakeAssumption DEF TypeOK
  <1>2. \A i \in 1..4 : htonl(duration)[i] \in Byte
    BY Zenon, <1>1, NetworkOrder
  <1>3. htonl(duration) \in Seq(Byte) /\ Len(htonl(duration)) = 4
    <2>1. htonl(duration) \in [1..4 -> Byte]
      BY Zenon, <1>2 DEF htonl
    <2> HIDE DEF htonl
    <2> QED
      BY <2>1
  <1>4. <<IF reverse THEN 1 ELSE 0>> \in Seq(Byte)
    BY HandshakeAssumption DEF Byte
  <1> DEFINE s1 == <<IF reverse THEN 1 ELSE 0>>
             s2 == htonl(duration)
  <1>5. /\ Len(s1) = 1 /\ s1[1] = IF reverse THEN 1 ELSE 0
        /\ s1 \in Seq(Byte) /\ s2 \in Seq(Byte) /\ Len(s2) = 4
    BY Zenon, <1>3, <1>4
  <1> HIDE DEF s1, s2
  <1>6. /\ s1 \o s2 \in Seq(Byte) /\ Len(s1 \o s2) = Len(s1) + Len(s2)
        /\ \A i \in 1..(Len(s1) + Len(s2)) :
              (s1 \o s2)[i] = IF i <= Len(s1) THEN s1[i] ELSE s2[i - Len(s1)]
    BY Zenon, <1>5, ConcatProperties
  <1>7. \A i \in 1..4 : (s1 \o s2)[i + 1] = s2[i]
    BY <1>5, <1>6
  <1>8. /\ Len(s1 \o s2) = 5
        /\ (s1 \o s2)[1] = s1[1]
    BY <1>5, <1>6
  <1>9. Encode = s1 \o s2
    BY Zenon DEF Encode, s1, s2
  <1> QED
    BY Zenon, <1>5, <1>6, <1>7, <1>8, <1>9 DEF Length, s2

\* Decode() undoes Encode.
LEMMA DecodeEncode ==
    ASSUME TypeOK, NEW b \in Seq(Byte), Len(b) = Length,
           \A i \in 1..Length : b[i] = Encode[i]
    PROVE  Decode(b) = [reverse |-> reverse, duration |-> duration]
  <1>1. /\ Tail(b)[1] = b[2] /\ Tail(b)[2] = b[3]
        /\ Tail(b)[3] = b[4] /\ Tail(b)[4] = b[5]
    <2>1. b # <<>>
      BY DEF Length
    <2> QED
      <3> DEFINE t == Tail(b)
      <3>1. Len(t) = Len(b) - 1 /\ \A i \in 1..Len(t) : t[i] = b[i + 1]
        BY Zenon, <2>1, HeadTailProperties
      <3> HIDE DEF t
      <3>2. t[1] = b[2] /\ t[2] = b[3] /\ t[3] = b[4] /\ t[4] = b[5]
        BY <3>1 DEF Length
      <3> QED
        BY <3>2, Zenon DEF t
  <1>2. /\ b[1] = Encode[1] /\ b[2] = Encode[2] /\ b[3] = Encode[3]
        /\ b[4] = Encode[4] /\ b[5] = Encode[5]
    BY DEF Length
  <1>3. /\ Encode[2] = htonl(duration)[1] /\ Encode[3] = htonl(duration)[2]
        /\ Encode[4] = htonl(duration)[3] /\ Encode[5] = htonl(duration)[4]
    <2>1. /\ Encode[1 + 1] = htonl(duration)[1] /\ Encode[2 + 1] = htonl(duration)[2]
          /\ Encode[3 + 1] = htonl(duration)[3] /\ Encode[4 + 1] = htonl(duration)[4]
      BY EncodeFacts
    <2> QED
      BY <2>1
  <1>4. ntohl(Tail(b)) = ntohl(htonl(duration))
    BY <1>1, <1>2, <1>3, Zenon DEF ntohl
  <1>5. ntohl(htonl(duration)) = duration
    BY Zenon, NetworkOrder, HandshakeAssumption DEF TypeOK
  <1>6. (b[1] # 0) = reverse
    BY <1>2, EncodeFacts DEF TypeOK
  <1> QED
    BY Zenon, <1>4, <1>5, <1>6 DEF Decode

--------------------------------------------------------------------------------
(* The invariant *)

\* The stream: what was sent and is not received is on the wire, in order, and
\* the handshake's bytes come before the payload's.
Stream ==
    /\ Len(got) + Len(wire) = sent + payload
    /\ payload > 0 \/ cpc = "ok" => sent = Length
    /\ cpc \in {"send", "poll"} => sent < Length
    /\ \A i \in 1..Len(got) : got[i] = Encode[i]
    /\ \A i \in 1..Len(wire) :
          Len(got) + i =< Length => wire[i] = Encode[Len(got) + i]
    /\ spc = "ok" => Len(got) = Length
    /\ spc \in {"recv", "poll"} => Len(got) < Length

\* The waits: each byte received paid for at most one, and a recv() that will not
\* return EAGAIN may still owe the last.
Waits ==
    nonBlocking =>
        /\ spc = "recv" =>
               stalled =< (Len(got) + (IF Nothing THEN 0 ELSE 1)) * Timeout
        /\ spc = "poll" =>
               waited =< Timeout /\ stalled =< Len(got) * Timeout + waited
        /\ StallPerByte

Inv == TypeOK /\ Stream /\ Waits

\* The inductive invariant holds at the start.
LEMMA InitInv == Init => Inv
  <1> SUFFICES ASSUME Init PROVE Inv
    BY Zenon
  <1> USE HandshakeAssumption DEF Init
  <1>1. TypeOK
    BY DEF TypeOK, Length
  <1>2. Stream
    BY DEF Stream, Length
  <1>3. Waits
    BY DEF Waits, StallPerByte, Length, Nothing
  <1> QED
    BY Zenon, <1>1, <1>2, <1>3 DEF Inv

\* send() appends the bytes it takes to the wire.
LEMMA SendBytes ==
    ASSUME TypeOK, ClientSend
    PROVE  \E n \in 1..(Length - sent) :
              /\ n =< Space /\ sent' = sent + n
              /\ cpc' = (IF sent + n = Length THEN "ok" ELSE "send")
              /\ wire' \in Seq(Byte) /\ Len(wire') = Len(wire) + n
              /\ \A i \in 1..Len(wire) : wire'[i] = wire[i]
              /\ \A i \in 1..n : wire'[Len(wire) + i] = Encode[sent + i]
  <1> PICK n \in 1..(Length - sent) :
          /\ n =< Space
          /\ wire' = wire \o SubSeq(Encode, sent + 1, sent + n)
          /\ sent' = sent + n
          /\ cpc' = (IF sent + n = Length THEN "ok" ELSE "send")
    BY Zenon DEF ClientSend
  <1> DEFINE out == SubSeq(Encode, sent + 1, sent + n)
  <1>1. wire \in Seq(Byte) /\ Encode \in Seq(Byte) /\ Len(Encode) = Length
    BY Zenon, EncodeFacts DEF TypeOK
  <1>2. /\ sent \in 0..Len(Encode) /\ sent + n \in sent..Len(Encode)
        /\ (sent + n) - sent = n
    BY <1>1 DEF TypeOK, Length
  <1>3. /\ out \in Seq(Byte) /\ Len(out) = (sent + n) - sent
        /\ \A i \in 1..((sent + n) - sent) : out[i] = Encode[sent + i]
    BY Zenon, <1>1, <1>2, Cut
  <1>4. Len(out) = n /\ \A i \in 1..n : out[i] = Encode[sent + i]
    BY Zenon, <1>2, <1>3
  <1>5. wire' = wire \o out
    BY Zenon
  <1> HIDE DEF out
  <1>c. /\ wire \o out \in Seq(Byte) /\ Len(wire \o out) = Len(wire) + Len(out)
        /\ \A i \in 1..(Len(wire) + Len(out)) :
              (wire \o out)[i] = IF i <= Len(wire) THEN wire[i] ELSE out[i - Len(wire)]
    BY Zenon, <1>1, <1>3, ConcatProperties
  <1>6. /\ wire' \in Seq(Byte) /\ Len(wire') = Len(wire) + n
        /\ \A i \in 1..(Len(wire) + n) :
              wire'[i] = IF i <= Len(wire) THEN wire[i] ELSE out[i - Len(wire)]
    BY <1>c, <1>4, <1>5, Zenon
  <1>n. n \in Nat /\ Len(wire) \in Nat
    BY <1>1, <1>2
  <1>7. \A i \in 1..Len(wire) : wire'[i] = wire[i]
    BY <1>n, <1>6
  <1>8. \A i \in 1..n : wire'[Len(wire) + i] = out[i]
    <2> TAKE i \in 1..n
    <2>1. /\ Len(wire) + i \in 1..(Len(wire) + n) /\ ~(Len(wire) + i <= Len(wire))
          /\ (Len(wire) + i) - Len(wire) = i
      BY <1>n
    <2>2. wire'[Len(wire) + i] = IF Len(wire) + i <= Len(wire) THEN wire[Len(wire) + i]
                                 ELSE out[(Len(wire) + i) - Len(wire)]
      BY <1>6, <2>1, Zenon
    <2> QED
      BY <2>1, <2>2, Zenon
  <1> QED
    BY Zenon, <1>4, <1>6, <1>7, <1>8

\* recv() takes the first bytes off the wire.
LEMMA RecvBytes ==
    ASSUME TypeOK, ServerRecv
    PROVE  \E n \in 1..(Length - Len(got)) :
              /\ n =< Len(wire)
              /\ spc' = (IF Len(got) + n = Length THEN "ok" ELSE "recv")
              /\ got' \in Seq(Byte) /\ Len(got') = Len(got) + n
              /\ \A i \in 1..Len(got) : got'[i] = got[i]
              /\ \A i \in 1..n : got'[Len(got) + i] = wire[i]
              /\ wire' \in Seq(Byte) /\ Len(wire') = Len(wire) - n
              /\ \A i \in 1..(Len(wire) - n) : wire'[i] = wire[n + i]
  <1> PICK n \in 1..(Length - Len(got)) :
          /\ n =< Len(wire)
          /\ got' = got \o SubSeq(wire, 1, n)
          /\ wire' = SubSeq(wire, n + 1, Len(wire))
          /\ spc' = (IF Len(got) + n = Length THEN "ok" ELSE "recv")
    BY Zenon DEF ServerRecv
  <1> DEFINE in == SubSeq(wire, 0 + 1, n)
  <1>1. wire \in Seq(Byte) /\ got \in Seq(Byte) /\ Len(wire) \in Nat /\ Len(got) \in Nat
    BY DEF TypeOK
  <1>2. n \in Nat /\ n - 0 = n /\ \A i \in Int : 0 + i = i
    BY <1>1 DEF Length
  <1>3. /\ in \in Seq(Byte) /\ Len(in) = n - 0
        /\ \A i \in 1..(n - 0) : in[i] = wire[0 + i]
    <2>1. 0 \in 0..Len(wire) /\ n \in 0..Len(wire)
      BY <1>1, <1>2
    <2> QED
      BY Zenon, <1>1, <2>1, Cut
  <1>4. Len(in) = n /\ \A i \in 1..n : in[i] = wire[i]
    BY <1>2, <1>3
  <1>5. got' = got \o in
    OBVIOUS
  <1> HIDE DEF in
  <1>6. /\ got' \in Seq(Byte) /\ Len(got') = Len(got) + n
        /\ \A i \in 1..(Len(got) + n) :
              got'[i] = IF i <= Len(got) THEN got[i] ELSE in[i - Len(got)]
    BY <1>1, <1>3, <1>4, <1>5, ConcatProperties
  <1>7. \A i \in 1..Len(got) : got'[i] = got[i]
    BY <1>1, <1>2, <1>6
  <1>8. \A i \in 1..n : got'[Len(got) + i] = in[i]
    BY <1>1, <1>2, <1>6
  <1>9. /\ wire' \in Seq(Byte) /\ Len(wire') = Len(wire) - n
        /\ \A i \in 1..(Len(wire) - n) : wire'[i] = wire[n + i]
    <2>1. n \in 0..Len(wire) /\ Len(wire) \in n..Len(wire)
      BY <1>1, <1>2
    <2> QED
      BY <1>1, <2>1, Cut
  <1> QED
    BY Zenon, <1>4, <1>6, <1>7, <1>8, <1>9

\* Every step keeps every variable in its domain,
LEMMA TypeStep == Inv /\ [Next]_vars => TypeOK'
  <1> SUFFICES ASSUME Inv, [Next]_vars PROVE TypeOK'
    BY Zenon
  <1> USE HandshakeAssumption DEF Inv, TypeOK, Length, clientVars, serverVars
  <1>1. CASE ClientSend
    <2>1. PICK n \in 1..(Length - sent) :
             /\ n =< Space /\ sent' = sent + n
             /\ cpc' = (IF sent + n = Length THEN "ok" ELSE "send")
             /\ wire' \in Seq(Byte) /\ Len(wire') = Len(wire) + n
      BY Zenon, <1>1, SendBytes
    <2> QED
      BY <1>1, <2>1 DEF ClientSend, Space
  <1>2. CASE ClientPoll \/ ClientPollReady \/ ClientClose
    BY Zenon, <1>2 DEF ClientPoll, ClientPollReady, ClientClose
  <1>3. CASE ClientPayload
    BY <1>3 DEF ClientPayload, Space
  <1>4. CASE ServerRecv
    <2>1. PICK n \in 1..(Length - Len(got)) :
             /\ n =< Len(wire)
             /\ spc' = (IF Len(got) + n = Length THEN "ok" ELSE "recv")
             /\ got' \in Seq(Byte) /\ Len(got') = Len(got) + n
             /\ wire' \in Seq(Byte) /\ Len(wire') = Len(wire) - n
      BY Zenon, <1>4, RecvBytes
    <2> QED
      BY <1>4, <2>1 DEF ServerRecv
  <1>5. CASE ServerRecvFails \/ ServerPoll \/ ServerPollReady \/ ServerPollTimeout
    BY <1>5 DEF ServerRecvFails, ServerPoll, ServerPollReady, ServerPollTimeout
  <1>6. CASE ServerPollInterrupted
    BY Zenon, <1>6 DEF ServerPollInterrupted
  <1>7. CASE Tick
    BY <1>7 DEF Tick
  <1>8. CASE Idle \/ UNCHANGED vars
    BY Zenon, <1>8 DEF Idle, vars
  <1> QED
    BY Zenon, <1>1, <1>2, <1>3, <1>4, <1>5, <1>6, <1>7, <1>8 DEF Next, Client, Server

\* and the bytes received, on the wire and still to be sent those of the handshake.
LEMMA StreamStep == Inv /\ [Next]_vars => Stream'
  <1> SUFFICES ASSUME Inv, [Next]_vars PROVE Stream'
    BY Zenon
  <1>t. TypeOK /\ TypeOK' /\ Stream
    BY Zenon, TypeStep DEF Inv
  <1>e. Encode' = Encode
    BY DEF Encode, Next, Client, Server, ClientSend, ClientPoll, ClientPollReady,
           ClientPayload, ClientClose, ServerRecv, ServerRecvFails, ServerPoll,
           ServerPollReady, ServerPollTimeout, ServerPollInterrupted, Tick, Idle,
           clientVars, vars
  <1>l. /\ wire \in Seq(Byte) /\ got \in Seq(Byte)
        /\ Len(wire) \in Nat /\ Len(got) \in Nat /\ sent \in 0..5 /\ payload \in Nat
    BY <1>t, HandshakeAssumption DEF TypeOK, Length
  <1>1. CASE ClientSend
    <2>1. PICK n \in 1..(Length - sent) :
              /\ n =< Space /\ sent' = sent + n
              /\ cpc' = (IF sent + n = Length THEN "ok" ELSE "send")
              /\ wire' \in Seq(Byte) /\ Len(wire') = Len(wire) + n
              /\ \A i \in 1..Len(wire) : wire'[i] = wire[i]
              /\ \A i \in 1..n : wire'[Len(wire) + i] = Encode[sent + i]
      BY Zenon, <1>1, <1>t, SendBytes
    <2>2. /\ cpc = "send" /\ UNCHANGED <<payload, got, spc>>
      BY Zenon, <1>1 DEF ClientSend, serverVars
    <2>3. payload = 0 /\ Len(got) + Len(wire) = sent
      BY <1>t, <1>l, <2>2 DEF Stream, Length
    <2>4. \A i \in 1..Len(wire') :
             Len(got) + i =< Length => wire'[i] = Encode[Len(got) + i]
      <3> SUFFICES ASSUME NEW i \in 1..Len(wire'), Len(got) + i =< Length
                   PROVE  wire'[i] = Encode[Len(got) + i]
        BY Zenon
      <3>1. CASE i =< Len(wire)
        BY <1>t, <1>l, <2>1, <3>1 DEF Stream
      <3>2. CASE i > Len(wire)
        <4>1. i - Len(wire) \in 1..n /\ Len(wire) + (i - Len(wire)) = i
          BY <1>l, <2>1, <3>2 DEF Length
        <4>2. sent + (i - Len(wire)) = Len(got) + i
          BY <1>l, <2>1, <2>3
        <4>3. wire'[Len(wire) + (i - Len(wire))] = Encode[sent + (i - Len(wire))]
          BY Zenon, <2>1, <4>1
        <4> QED
          BY Zenon, <4>1, <4>2, <4>3
      <3> QED
        BY <1>l, <2>1, <3>1, <3>2
    <2> QED
      <3>1. /\ Len(got') + Len(wire') = sent' + payload'
            /\ payload' = 0
            /\ cpc' = "ok" => sent' = Length
            /\ cpc' \in {"send", "poll"} => sent' < Length
        BY <1>l, <2>1, <2>2, <2>3 DEF Length
      <3> QED
        BY <1>t, <1>e, <2>2, <2>4, <3>1 DEF Stream
  <1>2. CASE ClientPoll \/ ClientPollReady \/ ClientClose
    BY Zenon, <1>2, <1>t, <1>e
       DEF ClientPoll, ClientPollReady, ClientClose, Stream, serverVars
  <1>3. CASE ClientPayload
    <2>1. PICK b \in Byte : wire' = Append(wire, b)
      BY Zenon, <1>3 DEF ClientPayload
    <2>2. Len(wire') = Len(wire) + 1 /\ \A i \in 1..Len(wire) : wire'[i] = wire[i]
      BY <1>l, <2>1
    <2>3. /\ cpc = "ok" /\ cpc' = cpc /\ payload' = payload + 1
          /\ UNCHANGED <<sent, got, spc>> /\ sent = Length
      BY Zenon, <1>3, <1>t DEF ClientPayload, serverVars, Stream
    <2>4. \A i \in 1..Len(wire') :
             Len(got) + i =< Length => wire'[i] = Encode[Len(got) + i]
      <3> SUFFICES ASSUME NEW i \in 1..Len(wire'), Len(got) + i =< Length
                   PROVE  wire'[i] = Encode[Len(got) + i]
        BY Zenon
      <3>1. i \in 1..Len(wire)
        BY <1>t, <1>l, <2>2, <2>3 DEF Stream, Length
      <3> QED
        BY Zenon, <1>t, <2>2, <3>1 DEF Stream
    <2> QED
      BY <1>t, <1>e, <1>l, <2>2, <2>3, <2>4 DEF Stream
  <1>4. CASE ServerRecv
    <2>1. PICK n \in 1..(Length - Len(got)) :
              /\ n =< Len(wire)
              /\ spc' = (IF Len(got) + n = Length THEN "ok" ELSE "recv")
              /\ got' \in Seq(Byte) /\ Len(got') = Len(got) + n
              /\ \A i \in 1..Len(got) : got'[i] = got[i]
              /\ \A i \in 1..n : got'[Len(got) + i] = wire[i]
              /\ wire' \in Seq(Byte) /\ Len(wire') = Len(wire) - n
              /\ \A i \in 1..(Len(wire) - n) : wire'[i] = wire[n + i]
      BY Zenon, <1>4, <1>t, RecvBytes
    <2>2. UNCHANGED <<cpc, sent, payload>>
      BY Zenon, <1>4 DEF ServerRecv, clientVars
    <2>n. n \in Nat /\ n > 0 /\ Len(got) + n =< 5
      BY <1>l, <2>1 DEF Length
    <2>3. \A i \in 1..Len(got') : got'[i] = Encode[i]
      <3> SUFFICES ASSUME NEW i \in 1..Len(got') PROVE got'[i] = Encode[i]
        BY Zenon
      <3>1. CASE i =< Len(got)
        BY <1>t, <1>l, <2>1, <3>1 DEF Stream
      <3>2. CASE i > Len(got)
        <4>1. /\ i - Len(got) \in 1..n /\ Len(got) + (i - Len(got)) = i /\ i =< 5
              /\ i - Len(got) \in 1..Len(wire)
          BY <1>l, <2>1, <2>n, <3>2
        <4>2. got'[Len(got) + (i - Len(got))] = wire[i - Len(got)]
          BY Zenon, <2>1, <4>1
        <4>3. wire[i - Len(got)] = Encode[Len(got) + (i - Len(got))]
          BY Zenon, <1>t, <4>1 DEF Stream, Length
        <4> QED
          BY Zenon, <4>1, <4>2, <4>3
      <3> QED
        BY <1>l, <2>1, <3>1, <3>2
    <2>4. \A i \in 1..Len(wire') :
             Len(got') + i =< Length => wire'[i] = Encode[Len(got') + i]
      <3> SUFFICES ASSUME NEW i \in 1..Len(wire'), Len(got') + i =< Length
                   PROVE  wire'[i] = Encode[Len(got') + i]
        BY Zenon
      <3>1. /\ n + i \in 1..Len(wire) /\ Len(got) + (n + i) = Len(got') + i
            /\ i \in 1..(Len(wire) - n)
        BY <1>l, <2>1, <2>n
      <3>2. wire[n + i] = Encode[Len(got) + (n + i)]
        BY Zenon, <1>t, <3>1 DEF Stream
      <3> QED
        BY Zenon, <2>1, <3>1, <3>2
    <2> QED
      <3>1. /\ Len(got') + Len(wire') = sent' + payload'
            /\ spc' = "ok" => Len(got') = Length
            /\ spc' \in {"recv", "poll"} => Len(got') < Length
        <4>1. Len(got) + Len(wire) = sent + payload
          BY Zenon, <1>t DEF Stream
        <4>2. /\ Len(got') = Len(got) + n /\ Len(wire') = Len(wire) - n
              /\ spc' = (IF Len(got) + n = 5 THEN "ok" ELSE "recv")
          BY Zenon, <2>1 DEF Length
        <4>3. PICK g, w \in Nat : g = Len(got) /\ w = Len(wire)
          BY Zenon, <1>l
        <4>4. (g + n) + (w - n) = g + w
          BY <2>n, <4>3
        <4>5. Len(got') + Len(wire') = sent' + payload'
          BY Zenon, <2>2, <4>1, <4>2, <4>3, <4>4
        <4>6. CASE g + n = 5
          BY Zenon, <4>2, <4>3, <4>5, <4>6 DEF Length
        <4>7. CASE g + n < 5
          BY Zenon, <2>n, <4>2, <4>3, <4>5, <4>7 DEF Length
        <4> QED
          BY <2>n, <4>3, <4>6, <4>7
      <3> QED
        BY Zenon, <1>t, <1>e, <2>2, <2>3, <2>4, <3>1 DEF Stream
  <1>5. CASE ServerRecvFails \/ ServerPoll \/ ServerPollReady \/ ServerPollTimeout
    BY Zenon, <1>5, <1>t, <1>e DEF ServerRecvFails, ServerPoll, ServerPollReady,
       ServerPollTimeout, Stream, clientVars
  <1>6. CASE ServerPollInterrupted \/ Tick \/ Idle \/ UNCHANGED vars
    BY Zenon, <1>6, <1>t, <1>e DEF ServerPollInterrupted, Tick, Idle, Stream, vars,
       clientVars, serverVars
  <1> QED
    BY Zenon, <1>1, <1>2, <1>3, <1>4, <1>5, <1>6 DEF Next, Client, Server

\* Every wait is paid for by the byte that ends it.
LEMMA WaitsStep == Inv /\ [Next]_vars => Waits'
  <1> SUFFICES ASSUME Inv, [Next]_vars PROVE Waits'
    BY Zenon
  <1>b. nonBlocking' = nonBlocking
    BY Zenon DEF Next, Client, Server, ClientSend, ClientPoll, ClientPollReady,
         ClientPayload, ClientClose, ServerRecv, ServerRecvFails, ServerPoll,
         ServerPollReady, ServerPollTimeout, ServerPollInterrupted, Tick, Idle,
         serverVars, vars
  <1> SUFFICES ASSUME nonBlocking PROVE Waits'
    BY Zenon, <1>b DEF Waits
  <1> DEFINE G == Len(got)
             T == Timeout
             GT == G * T
  <1>t. /\ TypeOK /\ TypeOK' /\ Stream /\ Stream' /\ Waits
        /\ wire \in Seq(Byte) /\ G \in 0..5 /\ T \in Nat /\ T > 0
        /\ stalled \in Nat /\ waited \in Nat
    <2>1. TypeOK /\ TypeOK' /\ Stream /\ Stream' /\ Waits
      BY Zenon, TypeStep, StreamStep DEF Inv
    <2>2. /\ wire \in Seq(Byte) /\ got \in Seq(Byte) /\ G =< 5
          /\ stalled \in Nat /\ waited \in Nat
      BY Zenon, <2>1 DEF TypeOK, Length
    <2>3. Len(got) \in Nat
      BY Zenon, <2>2, LenProperties
    <2>4. \A n \in Nat : n =< 5 => n \in 0..5
      OBVIOUS
    <2>5. T \in Nat /\ T > 0
      BY HandshakeAssumption
    <2> QED
      BY <2>1, <2>2, <2>3, <2>4, <2>5, Zenon
  <1>g. /\ GT \in Nat
        /\ (G + 0) * T = GT /\ (G + 1) * T = GT + T
        /\ G < Length => GT + T =< Length * T
        /\ Length * T = 5 * T
    <2>1. CASE G = 0
      BY <1>t, <2>1 DEF Length
    <2>2. CASE G = 1
      BY <1>t, <2>2 DEF Length
    <2>3. CASE G = 2
      BY <1>t, <2>3 DEF Length
    <2>4. CASE G = 3
      BY <1>t, <2>4 DEF Length
    <2>5. CASE G = 4
      BY <1>t, <2>5 DEF Length
    <2>6. CASE G = 5
      BY <1>t, <2>6 DEF Length
    <2> QED
      BY <1>t, <2>1, <2>2, <2>3, <2>4, <2>5, <2>6
  <1>w. /\ spc = "recv" => stalled =< (IF Nothing THEN GT ELSE GT + T)
        /\ spc = "poll" => waited =< T /\ stalled =< GT + waited
        /\ stalled =< 5 * T
        /\ spc \in {"recv", "poll"} => GT + T =< 5 * T
    BY Zenon, <1>t, <1>g DEF Waits, StallPerByte, Stream
  \* A step that leaves got alone: what is left to show.
  <1>k. ASSUME got' = got,
               spc' = "recv" => stalled' =< (IF Nothing' THEN GT ELSE GT + T),
               spc' = "poll" => waited' =< T /\ stalled' =< GT + waited',
               stalled' =< 5 * T
        PROVE  Waits'
    BY Zenon, <1>k, <1>g DEF Waits, StallPerByte
  <1> HIDE DEF GT
  <1>1. CASE Client
    <2>1. UNCHANGED <<got, spc, waited, stalled>>
      BY Zenon, <1>1 DEF Client, ClientSend, ClientPoll, ClientPollReady, ClientPayload,
           ClientClose, serverVars
    <2>2. ~Nothing => ~Nothing'
      <3>1. CASE ClientSend
        <4>1. PICK n \in 1..(Length - sent) : Len(wire') = Len(wire) + n
          BY Zenon, <1>t, <3>1, SendBytes
        <4>2. wire' # <<>>
          BY <1>t, <4>1 DEF TypeOK, Length
        <4> QED
          BY Zenon, <4>2 DEF Nothing
      <3>2. CASE ClientPayload
        BY <1>t, <3>2 DEF ClientPayload, Nothing
      <3>3. CASE ClientPoll \/ ClientPollReady \/ ClientClose
        BY Zenon, <3>3 DEF ClientPoll, ClientPollReady, ClientClose, Nothing
      <3> QED
        BY Zenon, <1>1, <3>1, <3>2, <3>3 DEF Client
    <2> QED
      BY <1>t, <1>g, <1>w, <1>k, <2>1, <2>2
  <1>2. CASE ServerRecv
    <2>1. /\ UNCHANGED <<waited, stalled, cpc>> /\ spc = "recv" /\ wire # <<>>
          /\ spc' # "poll" /\ Len(got') \in Int /\ Len(got') >= G + 1
      <3>1. PICK n \in 1..(Length - Len(got)) :
              /\ n =< Len(wire)
              /\ spc' = (IF Len(got) + n = Length THEN "ok" ELSE "recv")
              /\ Len(got') = Len(got) + n
        BY Zenon, <1>2, <1>t, RecvBytes
      <3>2. UNCHANGED <<waited, stalled, cpc>> /\ spc = "recv"
        BY Zenon, <1>2 DEF ServerRecv, clientVars
      <3> QED
        BY <1>t, <3>1, <3>2
    <2>2. stalled =< GT + T
      BY Zenon, <1>w, <2>1 DEF Nothing
    <2> DEFINE H == Len(got')
    <2>3. H \in 0..5
      <3>1. got' \in Seq(Byte) /\ Len(got') =< 5
        BY Zenon, <1>t DEF TypeOK, Length
      <3>2. Len(got') \in Nat
        BY Zenon, <3>1, LenProperties
      <3>3. \A n \in Nat : n =< 5 => n \in 0..5
        OBVIOUS
      <3> QED
        BY <3>1, <3>2, <3>3, Zenon
    <2>4. H * T >= GT + T /\ H * T \in Nat /\ (H + 0) * T = H * T /\ (H + 1) * T = H * T + T
      <3>1. (H - G - 1) \in Nat /\ H = G + 1 + (H - G - 1)
        BY <1>t, <2>1, <2>3
      <3>2. (H - G - 1) * T \in Nat
        BY <1>t, <3>1
      <3>3. H * T = (G + 1) * T + (H - G - 1) * T
        BY <1>t, <2>3
      <3>4. H * T \in Nat /\ (H + 0) * T = H * T /\ (H + 1) * T = H * T + T
        BY <1>t, <2>3
      <3> DEFINE a == (H - G - 1) * T
                 b == H * T
                 c == (G + 1) * T
      <3>5. a \in Nat /\ b = c + a /\ c = GT + T
        BY Zenon, <1>g, <3>2, <3>3
      <3> HIDE DEF a, b, c
      <3>6. b >= GT + T
        BY <1>g, <1>t, <3>5
      <3> QED
        BY Zenon, <3>4, <3>6 DEF b
    <2> DEFINE HT == H * T
    <2>5. HT \in Nat /\ HT >= GT + T
      BY Zenon, <2>4
    <2>6. stalled' =< (H + (IF Nothing' THEN 0 ELSE 1)) * Timeout
      <3>1. stalled =< HT /\ stalled =< HT + T
        <4> HIDE DEF HT
        <4> QED
          BY <1>t, <1>g, <2>2, <2>5
      <3> QED
        BY Zenon, <2>1, <2>4, <3>1
    <2>7. stalled' =< Length * Timeout
      BY Zenon, <1>w, <1>g, <2>1
    <2> QED
      BY Zenon, <2>1, <2>6, <2>7 DEF Waits, StallPerByte
  <1>3. CASE ServerRecvFails \/ ServerPollTimeout \/ ServerPollInterrupted
    BY Zenon, <1>3, <1>k, <1>w
       DEF ServerRecvFails, ServerPollTimeout, ServerPollInterrupted
  <1>4. CASE ServerPoll
    BY <1>4, <1>k, <1>w, <1>t, <1>g DEF ServerPoll
  <1>5. CASE ServerPollReady
    <2>1. ~Nothing' /\ UNCHANGED <<got, waited, stalled>> /\ spc' = "recv" /\ spc = "poll"
      BY Zenon, <1>5 DEF ServerPollReady, Nothing, clientVars
    <2> QED
      BY <1>k, <1>w, <1>t, <1>g, <2>1
  <1>6. CASE Tick
    <2>1. /\ UNCHANGED <<got, spc>> /\ spc = "poll" /\ waited < T
          /\ waited' = waited + 1 /\ stalled' = stalled + 1
      BY Zenon, <1>6 DEF Tick, serverVars
    <2> QED
      BY <1>k, <1>w, <1>t, <1>g, <2>1
  <1>7. CASE Idle \/ UNCHANGED vars
    <2>1. UNCHANGED <<got, spc, waited, stalled, wire, cpc>>
      BY Zenon, <1>7 DEF Idle, vars, serverVars, clientVars
    <2>2. Nothing' = Nothing
      BY Zenon, <2>1 DEF Nothing
    <2> QED
      BY Zenon, <1>k, <1>w, <2>1, <2>2
  <1> QED
    BY Zenon, <1>1, <1>2, <1>3, <1>4, <1>5, <1>6, <1>7 DEF Next, Server

\* The inductive invariant holds in every reachable state.
THEOREM Invariance == Spec => []Inv
  <1>1. Inv /\ [Next]_vars => Inv'
    BY Zenon, TypeStep, StreamStep, WaitsStep DEF Inv
  <1> QED
    BY InitInv, <1>1, PTL DEF Spec

--------------------------------------------------------------------------------
(* The theorems *)

\* For every duration that is a uint32_t: a server that accepts the handshake
\* has read the client's direction and duration, in whatever pieces the five
\* bytes arrived, and none of the payload behind them.
THEOREM HandshakeAlwaysExact == Spec => []HandshakeExact
  <1>1. Inv => HandshakeExact
    <2> SUFFICES ASSUME Inv, spc = "ok"
                 PROVE  /\ Decode(got) = [reverse |-> reverse, duration |-> duration]
                        /\ sent = Length /\ Len(wire) = payload
      BY Zenon DEF Inv, HandshakeExact
    <2>1. /\ got \in Seq(Byte) /\ Len(got) = Length
          /\ \A i \in 1..Length : got[i] = Encode[i]
      BY Zenon DEF Inv, TypeOK, Stream
    <2>2. Decode(got) = [reverse |-> reverse, duration |-> duration]
      BY Zenon, <2>1, DecodeEncode DEF Inv
    <2>3. sent = Length /\ Len(wire) = payload
      <3>1. /\ 5 + Len(wire) = sent + payload /\ Len(wire) \in Nat
            /\ sent \in 0..5 /\ payload \in Nat
            /\ payload > 0 => sent = 5
        BY <2>1, HandshakeAssumption DEF Inv, TypeOK, Stream, Length
      <3> QED
        BY <3>1 DEF Length
    <2> QED
      BY Zenon, <2>2, <2>3
  <1> QED
    BY Invariance, <1>1, PTL

\* For every timeout: on a non-blocking socket the server waits for the
\* handshake no longer than the timeout of recv_all() for each of its bytes.
THEOREM StallAlwaysPerByte == Spec => []StallPerByte
  <1>1. Inv => StallPerByte
    BY Zenon DEF Inv, Waits, StallPerByte
  <1> QED
    BY Invariance, <1>1, PTL
================================================================================
