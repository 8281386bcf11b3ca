----------------------------- MODULE MqttProofs -----------------------------
(***************************************************************************)
(* What the announcer's client knows of its connection, and what becomes   *)
(* of the messages, for every message, length of a packet and number of    *)
(* faults.                                                                 *)
(***************************************************************************)
EXTENDS MqttAnnouncer, TLAPS

Lengths == {n \in Nat : n < 268435456}
Bytes == 0 .. 255

-----------------------------------------------------------------------------
(* Lengths                                                                 *)

(* A number is the sum of its digits, of seven bits each.                  *)
LEMMA DigitsOf ==
  ASSUME NEW n \in Lengths
  PROVE  /\ n = (n % 128) + 128 * ((n \div 128) % 128) + 16384 * ((n \div 16384) % 128)
                + 2097152 * ((n \div 2097152) % 128)
         /\ n < 128 => n \div 128 = 0
         /\ n < 16384 => n \div 16384 = 0
         /\ n < 2097152 => n \div 2097152 = 0
<1>0. n \in Lengths
  OBVIOUS
<1>1. n \in Nat /\ n < 268435456
  BY <1>0, SMT DEF Lengths
<1>2. n = 128 * (n \div 128) + (n % 128) /\ n \div 128 \in Nat /\ n % 128 \in 0 .. 127
  BY <1>1, SMT
<1>3. n \div 16384 = (n \div 128) \div 128 /\ n \div 2097152 = (n \div 16384) \div 128
  BY <1>1, SMT
<1>4. n \div 16384 \in Nat /\ n \div 2097152 \in 0 .. 127
  BY <1>1, SMT
<1>5. n \div 128 = 128 * (n \div 16384) + ((n \div 128) % 128)
  BY <1>2, <1>3, SMT
<1>6. n \div 16384 = 128 * (n \div 2097152) + ((n \div 16384) % 128)
  BY <1>3, <1>4, SMT
<1>7. (n \div 2097152) % 128 = n \div 2097152
  BY <1>4, SMT
<1> QED BY <1>1, <1>2, <1>4, <1>5, <1>6, <1>7, SMT

(* The number with these digits.                                           *)
Composed(d) == d[1] + 128 * d[2] + 16384 * d[3] + 2097152 * d[4]

(* These digits at the beginning of s, all but the last of them marked.    *)
Marked(s, d, e) == (\A i \in 1 .. e - 1 : s[i] = d[i] + 128) /\ s[e] = d[e]

(* The digits that are sent, and the marks on all but the last.            *)
LEMMA EncodeIs ==
  ASSUME NEW n \in Lengths
  PROVE  /\ EncodedLen(n) \in 1 .. 4
         /\ Encode(n) \in Seq(Bytes) /\ Len(Encode(n)) = EncodedLen(n)
         /\ \E d \in [1 .. 4 -> 0 .. 127] :
              /\ n = Composed(d)
              /\ \A i \in 1 .. 4 : i > EncodedLen(n) => d[i] = 0
              /\ Marked(Encode(n), d, EncodedLen(n))
<1> DEFINE d == [i \in 1 .. 4 |-> (n \div Weight[i]) % 128]
<1>0. n \in Lengths
  OBVIOUS
<1>1. n \in Nat /\ EncodedLen(n) \in 1 .. 4
  BY <1>0, SMT DEF Lengths, EncodedLen
<1>2. d[1] = n % 128 /\ d[2] = (n \div 128) % 128 /\ d[3] = (n \div 16384) % 128
      /\ d[4] = (n \div 2097152) % 128
  <2>1. n \div 1 = n
    BY <1>1, SMT
  <2> QED BY <2>1, SMT DEF Weight
<1>3. d \in [1 .. 4 -> 0 .. 127]
  <2>1. \A i \in 1 .. 4 : Weight[i] \in Nat \ {0}
    BY SMT DEF Weight
  <2>2. \A i \in 1 .. 4 : (n \div Weight[i]) % 128 \in 0 .. 127
    BY <1>1, <2>1, SMT
  <2> QED BY <2>2
<1>4. \A i \in 1 .. EncodedLen(n) :
        Encode(n)[i] = d[i] + (IF i < EncodedLen(n) THEN 128 ELSE 0)
  BY <1>1 DEF Encode
<1>5. DOMAIN Encode(n) = 1 .. EncodedLen(n)
      /\ Encode(n) = [i \in 1 .. EncodedLen(n) |-> Encode(n)[i]]
  BY DEF Encode
<1> HIDE DEF d
<1>6. \A i \in 1 .. EncodedLen(n) : Encode(n)[i] \in Bytes
  BY <1>1, <1>3, <1>4, SMT DEF Bytes
<1>7. Encode(n) \in Seq(Bytes) /\ Len(Encode(n)) = EncodedLen(n)
  BY <1>1, <1>5, <1>6
<1>8. n = Composed(d)
  BY <1>2, DigitsOf, SMT DEF Composed
<1>9. \A i \in 1 .. 4 : i > EncodedLen(n) => d[i] = 0
  <2>1. /\ EncodedLen(n) < 2 => n < 128
        /\ EncodedLen(n) < 3 => n < 16384
        /\ EncodedLen(n) < 4 => n < 2097152
    BY <1>1, SMT DEF EncodedLen
  <2>2. /\ n < 128 => n \div 128 = 0
        /\ n < 16384 => n \div 16384 = 0
        /\ n < 2097152 => n \div 2097152 = 0
    BY <1>0, DigitsOf, SMT
  <2>3. /\ EncodedLen(n) < 2 => d[2] = 0
        /\ EncodedLen(n) < 3 => d[3] = 0
        /\ EncodedLen(n) < 4 => d[4] = 0
    BY <1>1, <1>2, <2>1, <2>2, SMT
  <2> QED BY <1>1, <2>3, SMT
<1>10. Marked(Encode(n), d, EncodedLen(n))
  BY <1>1, <1>3, <1>4, SMT DEF Marked
<1> QED BY <1>1, <1>3, <1>7, <1>8, <1>9, <1>10

(* The least of a few numbers.                                             *)
LEMMA LeastOfFew ==
  ASSUME NEW S \in SUBSET (1 .. 4), NEW m \in S, \A k \in S : m <= k
  PROVE  Min(S) = m
<1>1. \A k \in S : (\A y \in S : k <= y) => k = m
  OBVIOUS
<1> QED BY <1>1 DEF Min

(* A digit with its mark, and without it.                                  *)
LEMMA Unmarked ==
  ASSUME NEW v \in 0 .. 127
  PROVE  (v + 128) % 128 = v /\ v % 128 = v /\ v * 1 = v
BY SMT

(* Where digits end, whatever is behind.                                   *)
LEMMA DigitsEnd ==
  ASSUME NEW e \in 1 .. 4, NEW d \in [1 .. 4 -> 0 .. 127], NEW s, Marked(s, d, e),
         NEW most \in e .. 4
  PROVE  e \in {i \in 1 .. most : s[i] < 128}
         /\ \A k \in {i \in 1 .. most : s[i] < 128} : k \in 1 .. 4 /\ e <= k
<1>1. \A i \in 1 .. e : d[i] \in 0 .. 127
  OBVIOUS
<1>2. s[e] < 128
  BY <1>1 DEF Marked
<1>3. ASSUME NEW k \in 1 .. most, s[k] < 128, k < e
      PROVE  FALSE
  <2>1. d[k] \in 0 .. 127 /\ s[k] = d[k] + 128
    BY <1>1, <1>3 DEF Marked
  <2> QED BY <1>3, <2>1
<1> QED BY <1>2, <1>3

(* So many of the bytes that come are taken.                               *)
LEMMA DigitsTaken ==
  ASSUME NEW e \in 1 .. 4, NEW d \in [1 .. 4 -> 0 .. 127], NEW s, Marked(s, d, e),
         Len(s) \in Nat, Len(s) >= e
  PROVE  Ends(s) # {} /\ DecodedLen(s) = e
<1>1. PICK most \in e .. 4 : most = MinOf(4, Len(s))
  <2>1. MinOf(4, Len(s)) \in e .. 4
    BY DEF MinOf
  <2> QED BY <2>1
<1>2. Ends(s) = {i \in 1 .. most : s[i] < 128}
  BY <1>1, Zenon DEF Ends
<1>3. e \in Ends(s) /\ \A k \in Ends(s) : k \in 1 .. 4 /\ e <= k
  BY <1>2, DigitsEnd, Zenon
<1>4. Min(Ends(s)) = e
  <2>1. Ends(s) \in SUBSET (1 .. 4)
    BY <1>3, Zenon
  <2> QED BY <1>3, <2>1, LeastOfFew, Zenon
<1> QED BY <1>3, <1>4, Zenon DEF DecodedLen

(* What they mean.                                                         *)
LEMMA DigitsMean ==
  ASSUME NEW e \in 1 .. 4, NEW d \in [1 .. 4 -> 0 .. 127], NEW s,
         \A i \in 1 .. 4 : i > e => d[i] = 0, Marked(s, d, e)
  PROVE  DecodedValue(s, e) = Composed(d)
<1>1. ASSUME NEW i \in 1 .. e
      PROVE  s[i] % 128 = d[i]
  <2>1. d[i] \in 0 .. 127 /\ (s[i] = d[i] \/ s[i] = d[i] + 128)
    BY DEF Marked
  <2> QED BY <2>1, Unmarked
<1>2. /\ d[1] \in 0 .. 127 /\ s[1] % 128 = d[1]
      /\ d[2] \in 0 .. 127 /\ (IF 2 <= e THEN s[2] % 128 = d[2] ELSE d[2] = 0)
      /\ d[3] \in 0 .. 127 /\ (IF 3 <= e THEN s[3] % 128 = d[3] ELSE d[3] = 0)
      /\ d[4] \in 0 .. 127 /\ (IF 4 <= e THEN s[4] % 128 = d[4] ELSE d[4] = 0)
  BY <1>1
<1> QED BY <1>2, SMT DEF DecodedValue, Weight, Composed

(* Two texts with the same digits.                                         *)
LEMMA SameDigits ==
  ASSUME NEW e \in 1 .. 4, NEW d, NEW s, NEW t, Marked(t, d, e), \A i \in 1 .. e : s[i] = t[i]
  PROVE  Marked(s, d, e)
BY DEF Marked

(* The digits of a length are taken for that length.                       *)
LEMMA DecodeEncoded ==
  ASSUME NEW n \in Lengths, NEW s, Len(s) \in Nat, Len(s) >= EncodedLen(n),
         \A i \in 1 .. EncodedLen(n) : s[i] = Encode(n)[i]
  PROVE  Decode(s) = [whole |-> TRUE, len |-> EncodedLen(n), value |-> n]
<1>1. PICK d \in [1 .. 4 -> 0 .. 127] :
              /\ n = Composed(d)
              /\ \A i \in 1 .. 4 : i > EncodedLen(n) => d[i] = 0
              /\ Marked(Encode(n), d, EncodedLen(n))
  BY EncodeIs
<1>2. EncodedLen(n) \in 1 .. 4
  BY EncodeIs
<1>3. Marked(s, d, EncodedLen(n))
  BY <1>1, <1>2, SameDigits
<1>4. Ends(s) # {} /\ DecodedLen(s) = EncodedLen(n)
  BY <1>2, <1>3, DigitsTaken
<1>5. DecodedValue(s, EncodedLen(n)) = n
  BY <1>1, <1>2, <1>3, DigitsMean
<1> QED BY <1>4, <1>5 DEF Decode

-----------------------------------------------------------------------------
(* What the client reads                                                   *)

(* A few numbers have a least one.                                         *)
LEMMA LeastExists ==
  ASSUME NEW S \in SUBSET (1 .. 4), S # {}
  PROVE  Min(S) \in S
<1>1. PICK m \in S : \A k \in S : m <= k
  <2>1. CASE 1 \in S
    BY <2>1
  <2>2. CASE 1 \notin S /\ 2 \in S
    BY <2>2
  <2>3. CASE 1 \notin S /\ 2 \notin S /\ 3 \in S
    BY <2>3
  <2>4. CASE 1 \notin S /\ 2 \notin S /\ 3 \notin S
    <3>1. \A k \in S : k = 4
      BY <2>4
    <3>2. 4 \in S
      BY <3>1, Zenon
    <3> QED BY <3>1, <3>2
  <2> QED BY <2>1, <2>2, <2>3, <2>4
<1> QED BY <1>1, LeastOfFew

(* No more bytes are taken for a length than there are, nor more than four. *)
LEMMA DecodeTakes ==
  ASSUME NEW s \in Seq(Bytes)
  PROVE  Decode(s).len \in 0 .. Len(s) /\ Decode(s).value \in Nat
<1>1. PICK most \in 0 .. 4 : most = MinOf(4, Len(s)) /\ most <= Len(s)
  <2>1. PICK l \in Nat : l = Len(s)
    OBVIOUS
  <2>2. MinOf(4, l) \in 0 .. 4 /\ MinOf(4, l) <= l
    BY DEF MinOf
  <2> QED BY <2>1, <2>2
<1>2. Ends(s) \in SUBSET (1 .. most)
  BY <1>1, Zenon DEF Ends
<1>3. DecodedLen(s) \in 0 .. most
  <2>1. CASE Ends(s) = {}
    BY <1>1, <2>1 DEF DecodedLen
  <2>2. CASE Ends(s) # {}
    <3>1. Ends(s) \in SUBSET (1 .. 4)
      <4>1. 1 .. most \subseteq 1 .. 4
        OBVIOUS
      <4> QED BY <1>2, <4>1, Zenon
    <3>2. Min(Ends(s)) \in 1 .. most
      BY <1>2, <2>2, <3>1, LeastExists, Zenon
    <3> QED BY <2>2, <3>2 DEF DecodedLen
  <2> QED BY <2>1, <2>2
<1>4. \A l \in 0 .. most : DecodedValue(s, l) \in Nat
  <2> SUFFICES ASSUME NEW l \in 0 .. most
               PROVE  DecodedValue(s, l) \in Nat
    OBVIOUS
  <2>1. \A i \in 1 .. 4 : i <= l => i \in 1 .. Len(s)
    BY <1>1
  <2>2. ASSUME NEW i \in 1 .. 4, i <= l
        PROVE  s[i] % 128 \in Nat
    <3>1. s[i] \in Bytes
      BY <2>1, <2>2
    <3>2. PICK b \in Nat : b = s[i]
      <4>1. Bytes \subseteq Nat
        BY DEF Bytes
      <4> QED BY <3>1, <4>1, Zenon
    <3>3. b % 128 \in Nat
      BY SMT
    <3> QED BY <3>2, <3>3
  <2>3. /\ 1 <= l => s[1] % 128 \in Nat
        /\ 2 <= l => s[2] % 128 \in Nat
        /\ 3 <= l => s[3] % 128 \in Nat
        /\ 4 <= l => s[4] % 128 \in Nat
    BY <2>2
  <2>4. PICK b1 \in Nat, b2 \in Nat, b3 \in Nat, b4 \in Nat :
          /\ 1 <= l => s[1] % 128 = b1
          /\ 2 <= l => s[2] % 128 = b2
          /\ 3 <= l => s[3] % 128 = b3
          /\ 4 <= l => s[4] % 128 = b4
    BY <2>3
  <2>5. DecodedValue(s, l) = (IF 1 <= l THEN b1 * Weight[1] ELSE 0)
          + (IF 2 <= l THEN b2 * Weight[2] ELSE 0) + (IF 3 <= l THEN b3 * Weight[3] ELSE 0)
          + (IF 4 <= l THEN b4 * Weight[4] ELSE 0)
    BY <2>4, Zenon DEF DecodedValue
  <2>6. b1 * Weight[1] \in Nat /\ b2 * Weight[2] \in Nat /\ b3 * Weight[3] \in Nat
        /\ b4 * Weight[4] \in Nat
    BY SMT DEF Weight
  <2>7. PICK w1 \in Nat, w2 \in Nat, w3 \in Nat, w4 \in Nat :
          /\ w1 = (IF 1 <= l THEN b1 * Weight[1] ELSE 0)
          /\ w2 = (IF 2 <= l THEN b2 * Weight[2] ELSE 0)
          /\ w3 = (IF 3 <= l THEN b3 * Weight[3] ELSE 0)
          /\ w4 = (IF 4 <= l THEN b4 * Weight[4] ELSE 0)
    <3>1. \A c \in BOOLEAN, w \in Nat : (IF c THEN w ELSE 0) \in Nat
      BY SMT
    <3>2. (1 <= l) \in BOOLEAN /\ (2 <= l) \in BOOLEAN /\ (3 <= l) \in BOOLEAN /\ (4 <= l) \in BOOLEAN
      BY SMT
    <3> QED BY <2>6, <3>1, <3>2, Zenon
  <2>8. DecodedValue(s, l) = w1 + w2 + w3 + w4
    BY <2>5, <2>7, Zenon
  <2> QED BY <2>8
<1>5. DecodedLen(s) \in 0 .. Len(s)
  BY <1>1, <1>3
<1> QED BY <1>3, <1>4, <1>5 DEF Decode

(* A packet that is read takes no more than has come.                      *)
LEMMA ReadTakes ==
  ASSUME inbox \in Seq(Bytes), NEW k \in 0 .. Len(inbox)
  PROVE  ReadPacket(k).used \in 0 .. Len(inbox)
<1> DEFINE s == SubSeq(inbox, 1, k)
<1>1. s \in Seq(Bytes) /\ Len(s) = k
  OBVIOUS
<1>2. CASE s = <<>>
  BY <1>2 DEF ReadPacket
<1>3. CASE s # <<>>
  <2>1. Tail(s) \in Seq(Bytes) /\ Len(Tail(s)) = k - 1
    BY <1>1, <1>3
  <2>2. PICK l \in 0 .. k - 1, v \in Nat : l = Decode(Tail(s)).len /\ v = Decode(Tail(s)).value
    BY <2>1, DecodeTakes
  <2>3. ReadPacket(k).used = 1 + l \/ (ReadPacket(k).used = 1 + l + v /\ 1 + l + v <= k)
    BY <1>3, <2>2 DEF ReadPacket
  <2> QED BY <2>2, <2>3
<1> QED BY <1>2, <1>3

(***************************************************************************)
(* All that looks like a CONNACK is one that refuses the session.          *)
(***************************************************************************)
RefusedOnly(s) ==
  \A i \in 1 .. Len(s) : Type(s[i]) = CONNACK =>
    i + 3 <= Len(s) /\ s[i] = 32 /\ s[i + 1] = 2 /\ s[i + 2] = 0 /\ s[i + 3] = 3

(* Two short lengths.                                                      *)
LEMMA ShortLengths ==
  /\ 0 \in Lengths /\ EncodedLen(0) = 1 /\ Encode(0) = <<0>>
  /\ 2 \in Lengths /\ EncodedLen(2) = 1 /\ Encode(2) = <<2>>
<1>1. 0 \in Lengths /\ 2 \in Lengths
  BY SMT DEF Lengths
<1>2. EncodedLen(0) = 1 /\ EncodedLen(2) = 1
  BY SMT DEF EncodedLen
<1>3. Weight[1] = 1 /\ (0 \div 1) % 128 = 0 /\ (2 \div 1) % 128 = 2
  BY SMT DEF Weight
<1>4. Encode(0) = [i \in 1 .. 1 |-> 0]
  <2>1. \A i \in 1 .. 1 : i = 1
    OBVIOUS
  <2>2. \A i \in 1 .. 1 : ((0 \div Weight[i]) % 128) + (IF i < 1 THEN 128 ELSE 0) = 0
    BY <1>3, <2>1
  <2> QED BY <1>2, <2>2 DEF Encode
<1>5. Encode(2) = [i \in 1 .. 1 |-> 2]
  <2>1. \A i \in 1 .. 1 : i = 1
    OBVIOUS
  <2>2. \A i \in 1 .. 1 : ((2 \div Weight[i]) % 128) + (IF i < 1 THEN 128 ELSE 0) = 2
    BY <1>3, <2>1
  <2> QED BY <1>2, <2>2 DEF Encode
<1> QED BY <1>1, <1>2, <1>4, <1>5

(* A byte that says how long a short packet is, and none at all.           *)
LEMMA DecodeShort ==
  ASSUME NEW s \in Seq(Bytes)
  PROVE  /\ s = <<>> => Decode(s).len = 0 /\ Decode(s).value = 0
         /\ s # <<>> /\ s[1] = 2 => Decode(s).len = 1 /\ Decode(s).value = 2
         /\ s # <<>> /\ s[1] = 0 => Decode(s).len = 1 /\ Decode(s).value = 0
<1>1. CASE s = <<>>
  <2>1. Decode(s).len = 0
    <3>1. Decode(s).len \in 0 .. Len(s) /\ Len(s) = 0
      BY <1>1, DecodeTakes
    <3> QED BY <3>1
  <2>2. Decode(s).len = DecodedLen(s) /\ Decode(s).value = DecodedValue(s, DecodedLen(s))
    BY DEF Decode
  <2>3. DecodedValue(s, 0) = 0
    BY DEF DecodedValue
  <2> QED BY <1>1, <2>1, <2>2, <2>3
<1>2. CASE s # <<>>
  <2>1. Len(s) \in Nat /\ Len(s) >= 1
    BY <1>2
  <2>2. s[1] = 2 => Decode(s) = [whole |-> TRUE, len |-> 1, value |-> 2]
    <3> SUFFICES ASSUME s[1] = 2
                 PROVE  Decode(s) = [whole |-> TRUE, len |-> 1, value |-> 2]
      OBVIOUS
    <3>1. \A i \in 1 .. EncodedLen(2) : s[i] = Encode(2)[i]
      BY ShortLengths
    <3> QED BY <2>1, <3>1, ShortLengths, DecodeEncoded
  <2>3. s[1] = 0 => Decode(s) = [whole |-> TRUE, len |-> 1, value |-> 0]
    <3> SUFFICES ASSUME s[1] = 0
                 PROVE  Decode(s) = [whole |-> TRUE, len |-> 1, value |-> 0]
      OBVIOUS
    <3>1. \A i \in 1 .. EncodedLen(0) : s[i] = Encode(0)[i]
      BY ShortLengths
    <3> QED BY <2>1, <3>1, ShortLengths, DecodeEncoded
  <2> QED BY <1>2, <2>2, <2>3
<1> QED BY <1>1, <1>2

(* A refusal, or what is read of the beginning of one, opens no session.   *)
LEMMA NotAccepted ==
  /\ DeserializeConnack(<<32, 0>>) # 0
  /\ DeserializeConnack(<<32, 2, 0, 3>>) # 0
<1>1. Rest(<<32, 0>>) = <<>>
  <2>1. Tail(<<32, 0>>) = <<0>> /\ <<0>> \in Seq(Bytes)
    BY DEF Bytes
  <2>2. Decode(<<0>>).len = 1
    BY <2>1, DecodeShort
  <2>3. Rest(<<32, 0>>) = SubSeq(<<32, 0>>, 3, 2)
    BY <2>1, <2>2 DEF Rest
  <2> QED BY <2>3
<1>2. Rest(<<32, 2, 0, 3>>) = <<0, 3>>
  <2>1. Tail(<<32, 2, 0, 3>>) = <<2, 0, 3>> /\ <<2, 0, 3>> \in Seq(Bytes)
    BY DEF Bytes
  <2>2. Decode(<<2, 0, 3>>).len = 1
    BY <2>1, DecodeShort
  <2>3. Rest(<<32, 2, 0, 3>>) = SubSeq(<<32, 2, 0, 3>>, 3, 4)
    BY <2>1, <2>2 DEF Rest
  <2> QED BY <2>3
<1> QED BY <1>1, <1>2 DEF DeserializeConnack

(* What two sequences are, one behind the other.                           *)
LEMMA Joined ==
  ASSUME NEW S, NEW a \in Seq(S), NEW b \in Seq(S)
  PROVE  /\ a \o b \in Seq(S) /\ Len(a \o b) = Len(a) + Len(b)
         /\ \A i \in 1 .. Len(a) : (a \o b)[i] = a[i]
         /\ \A i \in 1 .. Len(b) : (a \o b)[Len(a) + i] = b[i]
<1>1. a \o b \in Seq(S) /\ Len(a \o b) = Len(a) + Len(b)
  OBVIOUS
<1>2. \A i \in 1 .. Len(a) : (a \o b)[i] = a[i]
  OBVIOUS
<1>3. ASSUME NEW i \in 1 .. Len(b)
      PROVE  (a \o b)[Len(a) + i] = b[i]
  <2>1. Len(a) \in Nat /\ Len(b) \in Nat
    OBVIOUS
  <2>2. PICK m \in Nat, n \in Nat : m = Len(a) /\ n = Len(b)
    BY <2>1
  <2>3. m + i \in m + 1 .. m + n /\ (m + i) - m = i
    BY <2>2
  <2>4. (a \o b)[m + i] = b[(m + i) - m]
    BY <2>2, <2>3
  <2> QED BY <2>2, <2>3, <2>4
<1> QED BY <1>1, <1>2, <1>3

(* Two bytes, and more behind them.                                        *)
LEMMA Parts ==
  ASSUME NEW a \in Bytes, NEW b \in Bytes, NEW r \in Seq(Bytes)
  PROVE  /\ <<a>> \o <<b>> \o r \in Seq(Bytes) /\ Len(<<a>> \o <<b>> \o r) = 2 + Len(r)
         /\ (<<a>> \o <<b>> \o r)[1] = a /\ (<<a>> \o <<b>> \o r)[2] = b
         /\ \A i \in 1 .. Len(r) : (<<a>> \o <<b>> \o r)[2 + i] = r[i]
<1>0. <<a>> \in Seq(Bytes) /\ <<b>> \in Seq(Bytes) /\ Len(<<a>>) = 1 /\ Len(<<b>>) = 1 
    /\ <<a>>[1] = a /\ <<b>>[1] = b
  OBVIOUS
<1>1. PICK h \in Seq(Bytes) : h = <<a>> \o <<b>> /\ Len(h) = 2 /\ h[1] = a /\ h[2] = b
  <2>1. <<a>> \o <<b>> \in Seq(Bytes) /\ Len(<<a>> \o <<b>>) = 2 /\ (<<a>> \o <<b>>)[1] = a /\ (<<a>> \o <<b>>)[2] = b
    BY <1>0
  <2> QED BY <2>1
<1>2. /\ h \o r \in Seq(Bytes) /\ Len(h \o r) = 2 + Len(r)
      /\ \A i \in 1 .. 2 : (h \o r)[i] = h[i]
      /\ \A i \in 1 .. Len(r) : (h \o r)[2 + i] = r[i]
  <2>1. h \in Seq(Bytes) /\ r \in Seq(Bytes)
    OBVIOUS
  <2>2. /\ h \o r \in Seq(Bytes) /\ Len(h \o r) = Len(h) + Len(r)
        /\ \A i \in 1 .. Len(h) : (h \o r)[i] = h[i]
        /\ \A i \in 1 .. Len(r) : (h \o r)[Len(h) + i] = r[i]
    BY ONLY <2>1, Joined, SMT
  <2> QED BY <1>1, <2>2, Zenon
<1>3. 1 \in 1 .. 2 /\ 2 \in 1 .. 2
  OBVIOUS
<1> QED BY <1>1, <1>2, <1>3, Zenon

(* Short sequences, spelled out.                                           *)
LEMMA NoneOfThem ==
  ASSUME NEW u \in Seq(Bytes), Len(u) = 0
  PROVE  u = <<>>
OBVIOUS

LEMMA TwoOfThem ==
  ASSUME NEW u \in Seq(Bytes), Len(u) = 2
  PROVE  u = <<u[1], u[2]>>
OBVIOUS

LEMMA Spelled ==
  ASSUME NEW a \in Bytes, NEW b \in Bytes, NEW c \in Bytes, NEW d \in Bytes
  PROVE  /\ <<a>> \o <<b>> \o <<>> = <<a, b>>
         /\ <<a>> \o <<b>> \o <<c, d>> = <<a, b, c, d>>
<1>2. ASSUME NEW u \in Seq(Bytes), Len(u) = 4
      PROVE  u = <<u[1], u[2], u[3], u[4]>>
  BY <1>2
<1>3. <<a>> \o <<b>> \o <<>> = <<a, b>>
  <2>1. <<>> \in Seq(Bytes) /\ Len(<<>>) = 0
    OBVIOUS
  <2>2. PICK u : u = <<a>> \o <<b>> \o <<>>
    OBVIOUS
  <2>3. u \in Seq(Bytes) /\ Len(u) = 2 /\ u[1] = a /\ u[2] = b
    BY <2>1, <2>2, Parts
  <2> QED BY <2>2, <2>3, TwoOfThem
<1>4. <<a>> \o <<b>> \o <<c, d>> = <<a, b, c, d>>
  <2>1. PICK r \in Seq(Bytes) : r = <<c, d>> /\ Len(r) = 2 /\ r[1] = c /\ r[2] = d
    <3>1. <<c, d>> \in Seq(Bytes) /\ Len(<<c, d>>) = 2 /\ <<c, d>>[1] = c /\ <<c, d>>[2] = d
      OBVIOUS
    <3> QED BY <3>1
  <2>2. PICK u : u = <<a>> \o <<b>> \o r
    OBVIOUS
  <2>3. /\ u \in Seq(Bytes) /\ Len(u) = 2 + Len(r) /\ u[1] = a /\ u[2] = b
        /\ \A i \in 1 .. Len(r) : u[2 + i] = r[i]
    BY <2>2, Parts
  <2>4. Len(u) = 4 /\ u[3] = c /\ u[4] = d
    BY <2>1, <2>3
  <2> QED BY <1>2, <2>1, <2>2, <2>3, <2>4
<1> QED BY <1>3, <1>4

(* The fields of what readPacket() returns.                                *)
LEMMA FieldsOf ==
  ASSUME NEW r, NEW t, NEW p, NEW u, r = [type |-> t, packet |-> p, used |-> u]
  PROVE  r.type = t /\ r.packet = p /\ r.used = u
OBVIOUS

(* What is read of a packet that is whole and fits the buffer.             *)
Copied(s, v, l) == <<s[1]>> \o Encode(v) \o SubSeq(s, 1 + l + 1, 1 + l + v)

(* A packet of that type has been read in full.                            *)
LEMMA ReadsWhole ==
  ASSUME NEW k, SubSeq(inbox, 1, k) # <<>>, ReadPacket(k).type = CONNACK
  PROVE  \E s, v, l :
           /\ s = SubSeq(inbox, 1, k) /\ v = Decode(Tail(s)).value /\ l = Decode(Tail(s)).len
           /\ ~(1 + l + v > k)
           /\ Type(s[1]) = CONNACK
           /\ ReadPacket(k).packet = Copied(s, v, l)
<1>0. PICK s, v, l : s = SubSeq(inbox, 1, k) /\ v = Decode(Tail(s)).value /\ l = Decode(Tail(s)).len
  OBVIOUS
<1>1. CASE 1 + Len(Encode(v)) + v > MaxPacket \/ 1 + l + v > k
   <2>1. ReadPacket(k) = [type |-> -1, packet |-> <<>>, used |-> 1 + l]
     BY <1>0, <1>1, Zenon DEF ReadPacket
   <2>2. ReadPacket(k).type = -1
     BY <2>1
   <2> QED BY <2>2 DEF CONNACK
<1>2. CASE ~(1 + Len(Encode(v)) + v > MaxPacket \/ 1 + l + v > k)
   <2>1. PICK t, u : t = Type(s[1]) /\ u = 1 + l + v
     OBVIOUS
   <2>2. ReadPacket(k) = [type |-> t, packet |-> Copied(s, v, l), used |-> u]
     BY <1>0, <1>2, <2>1, Zenon DEF ReadPacket, Copied
   <2>3. ReadPacket(k).type = t /\ ReadPacket(k).packet = Copied(s, v, l)
     BY ONLY <2>2, FieldsOf, Zenon
   <2>4. ~(1 + l + v > k) /\ Type(s[1]) = CONNACK
     BY ONLY <1>2, <2>1, <2>3, ReadPacket(k).type = CONNACK, Zenon
   <2> QED BY ONLY <1>0, <2>3, <2>4, Zenon
<1> QED BY <1>1, <1>2

(* As long as the server only refuses, no answer that is read opens a      *)
(* session, however much of it has come.                                   *)
LEMMA RefusalIsRead ==
  ASSUME inbox \in Seq(Bytes), RefusedOnly(inbox), NEW k \in 0 .. Len(inbox),
         ReadPacket(k).type = CONNACK
  PROVE  DeserializeConnack(ReadPacket(k).packet) # 0
<1>1. /\ SubSeq(inbox, 1, k) \in Seq(Bytes) /\ Len(SubSeq(inbox, 1, k)) = k
      /\ \A i \in 1 .. k : SubSeq(inbox, 1, k)[i] = inbox[i]
  OBVIOUS
<1>2. SubSeq(inbox, 1, k) # <<>> /\ k \in Nat /\ k >= 1
  <2>1. ASSUME SubSeq(inbox, 1, k) = <<>>
        PROVE  FALSE
    <3>1. ReadPacket(k) = [type |-> -1, packet |-> <<>>, used |-> 0]
      BY <2>1, Zenon DEF ReadPacket
    <3>2. ReadPacket(k).type = -1
      BY <3>1
    <3> QED BY <3>2 DEF CONNACK
  <2> QED BY <1>1, <2>1
<1>3. PICK s, v, l :
        /\ s = SubSeq(inbox, 1, k) /\ v = Decode(Tail(s)).value /\ l = Decode(Tail(s)).len
        /\ ~(1 + l + v > k)
        /\ Type(s[1]) = CONNACK
        /\ ReadPacket(k).packet = Copied(s, v, l)
  BY <1>2, ReadsWhole, Zenon
<1>4. /\ s \in Seq(Bytes) /\ Len(s) = k /\ s # <<>>
      /\ \A i \in 1 .. k : s[i] = inbox[i]
  BY <1>1, <1>2, <1>3
<1>5. 4 <= Len(inbox) /\ inbox[1] = 32 /\ inbox[2] = 2 /\ inbox[3] = 0 /\ inbox[4] = 3
  <2>1. Type(inbox[1]) = CONNACK /\ 1 \in 1 .. Len(inbox)
    BY <1>2, <1>3, <1>4
  <2> QED BY <2>1 DEF RefusedOnly
<1>6. Tail(s) \in Seq(Bytes) /\ Len(Tail(s)) = k - 1
      /\ \A i \in 1 .. k - 1 : Tail(s)[i] = s[i + 1]
  BY <1>2, <1>4
<1>7. s[1] = 32 /\ 32 \in Bytes /\ 2 \in Bytes /\ 0 \in Bytes
  BY <1>2, <1>4, <1>5 DEF Bytes
<1>8. CASE k = 1
  <2>1. Tail(s) = <<>>
    <3>1. Len(Tail(s)) = 0
      BY <1>6, <1>8
    <3> QED BY <1>6, <3>1, NoneOfThem
  <2>2. l = 0 /\ v = 0
    BY <1>3, <2>1, <1>6, DecodeShort
  <2>3. SubSeq(s, 2, 1) = <<>>
    BY <1>4
  <2>4. ReadPacket(k).packet = <<32>> \o <<0>> \o <<>>
    <3>1. 1 + l + 1 = 2 /\ 1 + l + v = 1
      BY <2>2
    <3> QED BY ONLY <1>3, <1>7, <2>2, <2>3, <3>1, ShortLengths, Zenon DEF Copied
  <2>5. <<32>> \o <<0>> \o <<>> = <<32, 0>>
    BY <1>7, Spelled
  <2> QED BY <2>4, <2>5, NotAccepted
<1>9. CASE k > 1
  <2>1. Tail(s) # <<>> /\ Tail(s)[1] = 2
    BY <1>2, <1>4, <1>5, <1>6, <1>9
  <2>2. l = 1 /\ v = 2
    BY <1>3, <2>1, <1>6, DecodeShort
  <2>3. k >= 4
    BY <1>2, <1>3, <2>2
  <2>4. PICK r \in Seq(Bytes) : r = SubSeq(s, 3, 4) /\ Len(r) = 2 /\ r[1] = 0 /\ r[2] = 3
    <3>1. /\ SubSeq(s, 3, 4) \in Seq(Bytes) /\ Len(SubSeq(s, 3, 4)) = 2
          /\ SubSeq(s, 3, 4)[1] = s[3] /\ SubSeq(s, 3, 4)[2] = s[4]
      BY <1>4, <2>3
    <3>2. s[3] = 0 /\ s[4] = 3
      BY <1>4, <1>5, <2>3
    <3> QED BY <3>1, <3>2
  <2>5. ReadPacket(k).packet = <<32>> \o <<2>> \o r
    <3>1. 1 + l + 1 = 3 /\ 1 + l + v = 4
      BY <2>2
    <3> QED BY ONLY <1>3, <1>7, <2>2, <2>4, <3>1, ShortLengths, Zenon DEF Copied
  <2>6. <<32>> \o <<2>> \o r = <<32, 2, 0, 3>>
    <3>1. r = <<0, 3>>
      BY <2>4, TwoOfThem
    <3>2. 3 \in Bytes
      BY DEF Bytes
    <3> QED BY <1>7, <3>1, <3>2, Spelled
  <2> QED BY <2>5, <2>6, NotAccepted
<1> QED BY <1>2, <1>8, <1>9

-----------------------------------------------------------------------------
(* The session                                                             *)

(* A call of connect() is made, and waits, only while the client does not  *)
(* count as connected; behind it somebody waits for it.                    *)
CallInv ==
  /\ pc \in {"connect", "sendConnect", "wait"} => ~isconnected /\ job \in {"start", "first", "second"}
  /\ pc = "publish" => job \in {"first", "second"}

(* A server that has no session has answered nothing but refusals on this  *)
(* connection.                                                             *)
InboxInv ==
  /\ inbox \in Seq(Bytes)
  /\ tcp = "open" /\ ~session => RefusedOnly(inbox)

SessionInv == isconnected \in BOOLEAN /\ CallInv /\ InboxInv /\ SessionKnown

(* What is left of the refusals when some bytes have been read.            *)
LEMMA RefusalsLeft ==
  ASSUME NEW s \in Seq(Bytes), NEW n \in 0 .. Len(s)
  PROVE  /\ SubSeq(s, n + 1, Len(s)) \in Seq(Bytes)
         /\ RefusedOnly(s) => RefusedOnly(SubSeq(s, n + 1, Len(s)))
<1>1. PICK l \in Nat : l = Len(s)
  OBVIOUS
<1>2. PICK r \in Seq(Bytes) : /\ r = SubSeq(s, n + 1, l) /\ Len(r) = l - n
                              /\ \A i \in 1 .. l - n : r[i] = s[n + i]
  <2>1. /\ SubSeq(s, n + 1, l) \in Seq(Bytes) /\ Len(SubSeq(s, n + 1, l)) = l - n
        /\ \A i \in 1 .. l - n : SubSeq(s, n + 1, l)[i] = s[n + i]
    BY <1>1
  <2> QED BY <2>1
<1>3. ASSUME RefusedOnly(s), NEW i \in 1 .. l - n, Type(r[i]) = CONNACK
      PROVE  i + 3 <= l - n /\ r[i] = 32 /\ r[i + 1] = 2 /\ r[i + 2] = 0 /\ r[i + 3] = 3
  <2>1. n + i \in 1 .. l /\ r[i] = s[n + i]
    BY <1>1, <1>2
  <2>2. /\ n + i + 3 <= l /\ s[n + i] = 32 /\ s[n + i + 1] = 2 /\ s[n + i + 2] = 0
        /\ s[n + i + 3] = 3
    BY <1>1, <1>3, <2>1 DEF RefusedOnly
  <2>3. i + 1 \in 1 .. l - n /\ i + 2 \in 1 .. l - n /\ i + 3 \in 1 .. l - n
    BY <1>1, <2>2
  <2>4. r[i + 1] = s[n + (i + 1)] /\ r[i + 2] = s[n + (i + 2)] /\ r[i + 3] = s[n + (i + 3)]
    BY <1>2, <2>3
  <2>5. n + (i + 1) = n + i + 1 /\ n + (i + 2) = n + i + 2 /\ n + (i + 3) = n + i + 3
    BY <1>1
  <2> QED BY <1>1, <2>1, <2>2, <2>3, <2>4, <2>5
<1>4. RefusedOnly(s) => RefusedOnly(r)
  BY <1>2, <1>3 DEF RefusedOnly
<1> QED BY <1>1, <1>2, <1>4

(* One more refusal.                                                       *)
LEMMA RefusalMore ==
  ASSUME NEW s \in Seq(Bytes), RefusedOnly(s)
  PROVE  s \o <<32, 2, 0, 3>> \in Seq(Bytes) /\ RefusedOnly(s \o <<32, 2, 0, 3>>)
<1>1. PICK q \in Seq(Bytes) : /\ q = <<32, 2, 0, 3>> /\ Len(q) = 4
                              /\ q[1] = 32 /\ q[2] = 2 /\ q[3] = 0 /\ q[4] = 3
  <2>1. <<32, 2, 0, 3>> \in Seq(Bytes)
    BY DEF Bytes
  <2> QED BY <2>1
<1>2. PICK l \in Nat : l = Len(s)
  OBVIOUS
<1>3. PICK t \in Seq(Bytes) : t = s \o q /\ Len(t) = l + 4
                              /\ (\A i \in 1 .. l : t[i] = s[i])
                              /\ (\A i \in 1 .. 4 : t[l + i] = q[i])
  <2>1. /\ s \o q \in Seq(Bytes) /\ Len(s \o q) = Len(s) + Len(q)
        /\ \A i \in 1 .. Len(s) : (s \o q)[i] = s[i]
        /\ \A i \in 1 .. Len(q) : (s \o q)[Len(s) + i] = q[i]
    BY Joined, SMT
  <2> QED BY <1>1, <1>2, <2>1
<1>4. ASSUME NEW i \in 1 .. l + 4, Type(t[i]) = CONNACK
      PROVE  i + 3 <= l + 4 /\ t[i] = 32 /\ t[i + 1] = 2 /\ t[i + 2] = 0 /\ t[i + 3] = 3
  <2>1. CASE i \in 1 .. l
    <3>1. t[i] = s[i]
      BY <1>3, <2>1
    <3>2. i + 3 <= l /\ s[i] = 32 /\ s[i + 1] = 2 /\ s[i + 2] = 0 /\ s[i + 3] = 3
      BY <1>2, <1>4, <2>1, <3>1 DEF RefusedOnly
    <3>3. i + 1 \in 1 .. l /\ i + 2 \in 1 .. l /\ i + 3 \in 1 .. l
      BY <2>1, <3>2
    <3>4. t[i + 1] = s[i + 1] /\ t[i + 2] = s[i + 2] /\ t[i + 3] = s[i + 3]
      BY <1>3, <3>3
    <3> QED BY <2>1, <3>1, <3>2, <3>4
  <2>2. CASE i = l + 1
    <3>1. i + 1 = l + 2 /\ i + 2 = l + 3 /\ i + 3 = l + 4
      BY <2>2
    <3>2. t[l + 1] = q[1] /\ t[l + 2] = q[2] /\ t[l + 3] = q[3] /\ t[l + 4] = q[4]
      <4>1. 1 \in 1 .. 4 /\ 2 \in 1 .. 4 /\ 3 \in 1 .. 4 /\ 4 \in 1 .. 4
        OBVIOUS
      <4> QED BY <1>3, <4>1, Zenon
    <3> QED BY <1>1, <2>2, <3>1, <3>2
  <2>3. CASE i \in {l + 2, l + 3, l + 4}
    <3>1. t[i] \in {0, 2, 3}
      <4>1. t[l + 2] = q[2] /\ t[l + 3] = q[3] /\ t[l + 4] = q[4]
        BY <1>3
      <4> QED BY <1>1, <2>3, <4>1
    <3>2. \A b \in {0, 2, 3} : Type(b) # CONNACK
      BY DEF Type, CONNACK
    <3> QED BY <1>4, <3>1, <3>2
  <2> QED BY <1>2, <2>1, <2>2, <2>3
<1>5. RefusedOnly(t)
  BY <1>3, <1>4 DEF RefusedOnly
<1> QED BY <1>1, <1>3, <1>5

(* A new connection has no answers on it.                                  *)
LEMMA NewStreamFits ==
  ASSUME NEW t, NewStream(t)
  PROVE  InboxInv'
<1>1. inbox' = <<>>
  BY DEF NewStream
<1>2. <<>> \in Seq(Bytes) /\ RefusedOnly(<<>>)
  BY DEF RefusedOnly
<1> QED BY <1>1, <1>2 DEF InboxInv

(* Reading takes answers off.                                              *)
LEMMA ReadingFits ==
  ASSUME InboxInv, NEW k \in InTime, Received(ReadPacket(k))
  PROVE  InboxInv' /\ UNCHANGED <<tcp, session>>
<1>1. k \in 0 .. Len(inbox) /\ inbox \in Seq(Bytes)
  BY DEF InTime, InboxInv
<1>2. PICK n \in 0 .. Len(inbox) : n = ReadPacket(k).used
  BY <1>1, ReadTakes
<1>3. inbox' = SubSeq(inbox, n + 1, Len(inbox)) /\ UNCHANGED <<tcp, session>>
  BY <1>2, Zenon DEF Received
<1>4. PICK s \in Seq(Bytes) : s = SubSeq(inbox, n + 1, Len(inbox)) /\ (RefusedOnly(inbox) => RefusedOnly(s))
  BY <1>1, RefusalsLeft
<1>5. inbox' = s
  BY <1>3, <1>4
<1> QED BY <1>3, <1>4, <1>5 DEF InboxInv

(* Nothing has changed on the connection.                                  *)
LEMMA SameFits ==
  ASSUME SessionInv, UNCHANGED <<tcp, inbox, session>>
  PROVE  InboxInv' /\ (isconnected' = isconnected => SessionKnown')
BY DEF SessionInv, InboxInv, SessionKnown, RefusedOnly

(* It begins so.                                                           *)
LEMMA SessionInit == Init => SessionInv
<1> SUFFICES ASSUME Init
             PROVE  SessionInv
  OBVIOUS
<1>1. isconnected = FALSE /\ pc = "connect" /\ job = "start" /\ inbox = <<>> /\ tcp = "closed"
  BY DEF Init, ClientInit
<1>2. <<>> \in Seq(Bytes)
  OBVIOUS
<1> QED BY <1>1, <1>2 DEF SessionInv, CallInv, InboxInv, SessionKnown

(* Every step keeps it.                                                    *)
LEMMA SessionStep == SessionInv /\ [Next]_vars => SessionInv'
<1> SUFFICES ASSUME SessionInv, [Next]_vars
             PROVE  SessionInv'
  OBVIOUS
<1>0. isconnected \in BOOLEAN /\ CallInv /\ InboxInv /\ SessionKnown
  BY DEF SessionInv
<1>1. CASE Announce
  <2>1. UNCHANGED <<tcp, inbox, session, isconnected>>
    BY <1>1 DEF Announce, stream, client
  <2>2. CallInv'
    BY <1>0, <1>1 DEF Announce, SendMessage, CallInv, client
  <2> QED BY <1>0, <2>1, <2>2, SameFits DEF SessionInv
<1>2. CASE Run
  <2>1. UNCHANGED <<tcp, inbox, session, isconnected>>
    BY <1>2 DEF Run, stream, client
  <2>2. CallInv'
    BY <1>2 DEF Run, CallInv
  <2> QED BY <1>0, <2>1, <2>2, SameFits DEF SessionInv
<1>3. CASE Connect
  <2>1. pc = "connect" /\ ~isconnected /\ job \in {"start", "first", "second"}
        /\ UNCHANGED <<isconnected, job>>
    BY <1>0, <1>3 DEF Connect, CallInv, client
  <2>2. CallInv'
    <3>1. pc' \in {"sendConnect", "idle", "publish"} /\ (pc' = "publish" => job = "first")
      BY <1>3, <2>1 DEF Connect, Return
    <3> QED BY <2>1, <3>1 DEF CallInv
  <2>3. InboxInv'
    <3>1. UNCHANGED stream \/ NewStream("closed") \/ NewStream("open")
      BY <1>3 DEF Connect
    <3>2. CASE UNCHANGED stream
      BY <3>2, SameFits DEF stream
    <3> QED BY <3>1, <3>2, NewStreamFits
  <2> QED BY <2>1, <2>2, <2>3 DEF SessionInv, SessionKnown
<1>4. CASE StartSession
  <2>1. pc = "sendConnect" /\ ~isconnected /\ job \in {"start", "first", "second"}
    BY <1>0, <1>4 DEF StartSession, SendConnect, CallInv
  <2>2. UNCHANGED <<tcp, inbox, session, isconnected, job>>
    BY <1>4 DEF StartSession, SendConnect, SendPacket, client
  <2>3. pc' \in {"wait", "idle", "publish"} /\ (pc' = "publish" => job = "first")
    BY <1>4, <2>1 DEF StartSession, SendConnect, Return
  <2>4. CallInv'
    BY <2>1, <2>2, <2>3 DEF CallInv
  <2> QED BY <1>0, <2>2, <2>4, SameFits DEF SessionInv
<1>5. CASE AwaitSession
  <2>1. pc = "wait" /\ ~isconnected /\ job \in {"start", "first", "second"} /\ job' = job
    BY <1>0, <1>5 DEF AwaitSession, Wait, CallInv
  <2>2. CASE Return(FALSE) /\ UNCHANGED <<stream, client, faults>>
    <3>1. UNCHANGED <<tcp, inbox, session, isconnected>>
      BY <2>2 DEF stream, client
    <3>2. CallInv'
      BY <2>1, <2>2, <3>1 DEF CallInv, Return
    <3> QED BY <1>0, <3>1, <3>2, SameFits DEF SessionInv
  <2>3. ASSUME NEW k \in InTime, Received(ReadPacket(k)),
               IF ReadPacket(k).type # CONNACK THEN UNCHANGED <<isconnected, pc>>
               ELSE /\ isconnected' = (DeserializeConnack(ReadPacket(k).packet) = 0)
                    /\ IF isconnected' THEN Return(TRUE) ELSE Return(FALSE)
        PROVE  SessionInv'
    <3>1. InboxInv' /\ UNCHANGED <<tcp, session>>
      BY <1>0, <2>3, ReadingFits
    <3>2. CASE UNCHANGED <<isconnected, pc>>
      BY <1>0, <2>1, <3>1, <3>2 DEF SessionInv, CallInv, SessionKnown
    <3>3. CASE /\ ReadPacket(k).type = CONNACK
               /\ isconnected' = (DeserializeConnack(ReadPacket(k).packet) = 0)
               /\ IF isconnected' THEN Return(TRUE) ELSE Return(FALSE)
      <4>1. isconnected' \in BOOLEAN
        BY <3>3
      <4>2. CallInv'
        BY <2>1, <3>3 DEF CallInv, Return
      <4>3. ASSUME isconnected', tcp' = "open", ~session'
            PROVE  FALSE
        <5>1. inbox \in Seq(Bytes) /\ RefusedOnly(inbox)
          BY <1>0, <3>1, <4>3 DEF InboxInv
        <5>2. k \in 0 .. Len(inbox)
          BY <5>1 DEF InTime
        <5>3. DeserializeConnack(ReadPacket(k).packet) # 0
          BY <3>3, <5>1, <5>2, RefusalIsRead
        <5> QED BY <3>3, <4>3, <5>3
      <4> QED BY <3>1, <4>1, <4>2, <4>3 DEF SessionInv, SessionKnown
    <3> QED BY <2>3, <3>2, <3>3
  <2> QED BY <1>5, <2>2, <2>3, Zenon DEF AwaitSession, Wait
<1>6. CASE PublishMessage
  <2>1. pc = "publish" /\ job \in {"first", "second"}
    BY <1>0, <1>6 DEF PublishMessage, Publish, CallInv
  <2>2. UNCHANGED <<tcp, inbox, session>> /\ (isconnected' = isconnected \/ isconnected)
        /\ isconnected' \in BOOLEAN
    BY <1>0, <1>6 DEF PublishMessage, Publish, SendPacket, stream, client
  <2>3. Done \/ TryAgain
    BY <1>6, Zenon DEF PublishMessage, Publish
  <2>4. CallInv'
    BY <2>1, <2>2, <2>3 DEF Done, TryAgain, CallInv
  <2>5. SessionKnown'
    BY <1>0, <2>2 DEF SessionKnown
  <2> QED BY <2>2, <2>4, <2>5, SameFits DEF SessionInv
<1>7. CASE Goodbye
  <2>1. UNCHANGED <<tcp, inbox, session>> /\ isconnected' = FALSE /\ pc' = "idle"
    BY <1>7 DEF Goodbye, Disconnect, SendPacket
  <2> QED BY <2>1, SameFits DEF SessionInv, CallInv, SessionKnown
<1>8. CASE Cycle
  <2>1. isconnected' = isconnected /\ pc' \in {"yield", "keepalive", "idle"}
    BY <1>8 DEF Cycle, Yield, Keepalive
  <2>2. InboxInv' /\ UNCHANGED <<tcp, session>>
    <3>1. CASE Yield
      BY <1>0, <3>1, ReadingFits DEF Yield
    <3>2. CASE Keepalive
      <4>1. UNCHANGED <<tcp, inbox, session>>
        BY <3>2 DEF Keepalive, SendPacket, stream
      <4> QED BY <4>1, SameFits
    <3> QED BY <1>8, <3>1, <3>2 DEF Cycle
  <2> QED BY <1>0, <2>1, <2>2 DEF SessionInv, CallInv, SessionKnown
<1>9. CASE ServerServes
  <2>1. UNCHANGED <<isconnected, pc, job>>
    BY <1>9 DEF ServerServes, Serve, client
  <2>2. CallInv'
    BY <1>0, <2>1 DEF CallInv
  <2>3. PICK n \in FirstLen(wire) :
          \/ Answer(n, <<>>, TRUE)
          \/ ~session /\ Answer(n, <<CONNACK * 16, 2, 0, 0>>, TRUE)
          \/ ~session /\ Answer(n, <<CONNACK * 16, 2, 0, 3>>, FALSE)
          \/ Answer(n, <<PINGRESP * 16, 0>>, TRUE)
          \/ NewStream("broken")
    BY <1>9, Zenon DEF ServerServes, Serve
  <2>4. CASE NewStream("broken")
    <3>1. tcp' = "broken"
      BY <2>4 DEF NewStream
    <3> QED BY <1>0, <2>1, <2>2, <2>4, <3>1, NewStreamFits DEF SessionInv, SessionKnown
  <2>5. ASSUME NEW q \in Seq(Bytes), Answer(n, q, TRUE)
        PROVE  SessionInv'
    <3>1. inbox' = inbox \o q /\ session'
      BY <2>5 DEF Answer
    <3>2. inbox \o q \in Seq(Bytes)
      BY <1>0 DEF InboxInv
    <3> QED BY <1>0, <2>1, <2>2, <3>1, <3>2 DEF SessionInv, InboxInv, SessionKnown
  <2>6. CASE ~session /\ Answer(n, <<CONNACK * 16, 2, 0, 3>>, FALSE)
    <3>1. tcp = "open"
      BY <1>9 DEF ServerServes, Serve
    <3>2. CONNACK * 16 = 32
      BY DEF CONNACK
    <3>3. inbox' = inbox \o <<32, 2, 0, 3>> /\ tcp' = tcp
      BY <2>6, <3>2 DEF Answer
    <3>4. inbox \in Seq(Bytes) /\ RefusedOnly(inbox)
      BY <1>0, <2>6, <3>1 DEF InboxInv
    <3>5. PICK s \in Seq(Bytes) : s = inbox \o <<32, 2, 0, 3>> /\ RefusedOnly(s)
      BY <3>4, RefusalMore
    <3>6. InboxInv'
      BY <3>3, <3>5 DEF InboxInv
    <3>7. ~isconnected
      BY <1>0, <2>6, <3>1 DEF SessionKnown
    <3> QED BY <1>0, <2>1, <2>2, <3>6, <3>7 DEF SessionInv, SessionKnown
  <2>7. <<>> \in Seq(Bytes) /\ <<CONNACK * 16, 2, 0, 0>> \in Seq(Bytes) /\ <<PINGRESP * 16, 0>> \in Seq(Bytes)
    BY DEF CONNACK, PINGRESP, Bytes
  <2> QED BY <2>3, <2>4, <2>5, <2>6, <2>7, Zenon
<1>10. CASE Fault
  <2>1. CASE NetworkFault /\ UNCHANGED job
    <3>1. UNCHANGED <<isconnected, pc, job>>
      BY <2>1 DEF NetworkFault, client
    <3>2. UNCHANGED stream \/ NewStream("broken")
      BY <2>1 DEF NetworkFault, LinkChanges, AddressChanges, Break
    <3>3. CallInv'
      BY <1>0, <3>1 DEF CallInv
    <3>4. CASE UNCHANGED stream
      BY <1>0, <3>1, <3>3, <3>4, SameFits DEF stream, SessionInv
    <3>5. CASE NewStream("broken")
      <4>1. tcp' = "broken"
        BY <3>5 DEF NewStream
      <4> QED BY <1>0, <3>1, <3>3, <3>5, <4>1, NewStreamFits DEF SessionInv, SessionKnown
    <3> QED BY <3>2, <3>4, <3>5
  <2>2. CASE (Heal \/ Expire) /\ UNCHANGED job
    <3>1. UNCHANGED <<isconnected, pc, job, tcp, inbox, session>>
      BY <2>2 DEF Heal, Expire, client, stream
    <3>2. CallInv'
      BY <1>0, <3>1 DEF CallInv
    <3> QED BY <1>0, <3>1, <3>2, SameFits DEF SessionInv
  <2>3. CASE Reset
    <3>1. isconnected' = FALSE /\ pc' = "connect" /\ job' = "start" /\ NewStream("closed")
      BY <2>3 DEF Reset
    <3> QED BY <3>1, NewStreamFits DEF SessionInv, CallInv, SessionKnown
  <2> QED BY <1>10, <2>1, <2>2, <2>3 DEF Fault
<1>11. CASE UNCHANGED vars
  <2>1. UNCHANGED <<isconnected, pc, job, tcp, inbox, session>>
    BY <1>11 DEF vars, client, stream
  <2>2. CallInv'
    BY <1>0, <2>1 DEF CallInv
  <2> QED BY <1>0, <2>1, <2>2, SameFits DEF SessionInv
<1> QED BY <1>1, <1>2, <1>3, <1>4, <1>5, <1>6, <1>7, <1>8, <1>9, <1>10, <1>11 DEF Next, Node

(***************************************************************************)
(* A client that counts as connected has a session on the connection it    *)
(* uses, as long as that is not broken: an answer that is cut off, or one  *)
(* that refuses, is never taken for one that accepts (waitfor() and        *)
(* connect(), MQTTClient.h:706), whatever the messages and however often   *)
(* the network changes.                                                    *)
(***************************************************************************)
THEOREM ConnectedHasSession == Spec => []SessionKnown
<1>1. SessionInv => SessionKnown
  BY DEF SessionInv
<1> QED BY <1>1, SessionInit, SessionStep, PTL DEF Spec

-----------------------------------------------------------------------------
(* Packets, and how they are read                                          *)

(* Sequences of the same elements are the same.                            *)
LEMMA SameSeq ==
  ASSUME NEW S, NEW a \in Seq(S), NEW b \in Seq(S), Len(a) = Len(b),
         \A i \in 1 .. Len(a) : a[i] = b[i]
  PROVE  a = b
OBVIOUS

(* A part of a sequence, by where it begins and how long it is.            *)
LEMMA Piece ==
  ASSUME NEW S, NEW s \in Seq(S), NEW x \in Nat, NEW y \in Nat, x + y <= Len(s)
  PROVE  /\ SubSeq(s, x + 1, x + y) \in Seq(S) /\ Len(SubSeq(s, x + 1, x + y)) = y
         /\ \A i \in 1 .. y : SubSeq(s, x + 1, x + y)[i] = s[x + i]
<1>1. PICK l \in Nat : l = Len(s)
  OBVIOUS
<1>2. SubSeq(s, x + 1, x + y) \in Seq(S)
  BY <1>1
<1>3. Len(SubSeq(s, x + 1, x + y)) = y
  BY <1>1
<1>4. ASSUME NEW i \in 1 .. y
      PROVE  SubSeq(s, x + 1, x + y)[i] = s[x + i]
  <2>1. SubSeq(s, x + 1, x + y)[i] = s[(x + 1) + i - 1] /\ (x + 1) + i - 1 = x + i
    BY <1>1
  <2> QED BY <2>1
<1> QED BY <1>2, <1>3, <1>4

(* What stands in a sequence from a place on is what is cut out there.     *)
LEMMA CutOut ==
  ASSUME NEW S, NEW s \in Seq(S), NEW c \in Seq(S), NEW x \in Nat, NEW y \in Nat,
         y = Len(c), x + y <= Len(s), \A i \in 1 .. y : s[x + i] = c[i]
  PROVE  SubSeq(s, x + 1, x + y) = c
<1>1. SubSeq(s, x + 1, x + y) \in Seq(S) /\ Len(SubSeq(s, x + 1, x + y)) = y
  BY Piece, SMT
<1>2. \A i \in 1 .. y : SubSeq(s, x + 1, x + y)[i] = s[x + i]
  BY Piece, SMT
<1> QED BY <1>1, <1>2, SameSeq

(* Three sequences, one behind the other, and what can be cut out of them. *)
InParts(s, a, b, c) ==
  /\ Len(s) = Len(a) + Len(b) + Len(c)
  /\ \A i \in 1 .. Len(a) : s[i] = a[i]
  /\ \A i \in 1 .. Len(b) : s[Len(a) + i] = b[i]
  /\ SubSeq(s, Len(a) + 1, Len(a) + Len(b)) = b
  /\ SubSeq(s, Len(a) + Len(b) + 1, Len(a) + Len(b) + Len(c)) = c

(* Such a sequence comes of appending them.                                *)
LEMMA ThreeParts ==
  ASSUME NEW S, NEW a \in Seq(S), NEW b \in Seq(S), NEW c \in Seq(S)
  PROVE  a \o b \o c \in Seq(S) /\ InParts(a \o b \o c, a, b, c)
<1>1. PICK x \in Nat, y \in Nat, z \in Nat : x = Len(a) /\ y = Len(b) /\ z = Len(c)
  OBVIOUS
<1>2. PICK h \in Seq(S) : /\ h = a \o b /\ Len(h) = x + y
                          /\ \A i \in 1 .. x : h[i] = a[i]
                          /\ \A i \in 1 .. y : h[x + i] = b[i]
  <2>1. a \o b \in Seq(S) /\ Len(a \o b) = x + y
    BY <1>1
  <2>2. \A i \in 1 .. x : (a \o b)[i] = a[i]
    BY <1>1
  <2>3. \A i \in 1 .. y : (a \o b)[x + i] = b[i]
    BY <1>1, Joined, SMT
  <2> QED BY <2>1, <2>2, <2>3
<1>3. PICK s \in Seq(S) : /\ s = h \o c /\ Len(s) = x + y + z
                          /\ \A i \in 1 .. x + y : s[i] = h[i]
                          /\ \A i \in 1 .. z : s[x + y + i] = c[i]
  <2>1. h \o c \in Seq(S) /\ Len(h \o c) = x + y + z
    BY <1>1, <1>2
  <2>2. \A i \in 1 .. x + y : (h \o c)[i] = h[i]
    BY <1>1, <1>2
  <2>3. \A i \in 1 .. z : (h \o c)[x + y + i] = c[i]
    <3>1. \A i \in 1 .. Len(c) : (h \o c)[Len(h) + i] = c[i]
      BY Joined, SMT
    <3> QED BY <1>1, <1>2, <3>1
  <2> QED BY <2>1, <2>2, <2>3
<1>4. \A i \in 1 .. x : s[i] = a[i]
  BY <1>2, <1>3
<1>5. \A i \in 1 .. y : s[x + i] = b[i]
  <2> SUFFICES ASSUME NEW i \in 1 .. y
               PROVE  s[x + i] = b[i]
    OBVIOUS
  <2>1. x + i \in 1 .. x + y
    OBVIOUS
  <2> QED BY <1>2, <1>3, <2>1
<1>6. SubSeq(s, x + 1, x + y) = b
  <2>1. x + y <= Len(s)
    BY <1>3
  <2> QED BY <1>1, <1>5, <2>1, CutOut, SMT
<1>7. SubSeq(s, x + y + 1, x + y + z) = c
  <2>1. PICK n \in Nat : n = x + y
    OBVIOUS
  <2>2. n + z <= Len(s)
    BY <1>3, <2>1
  <2>3. \A i \in 1 .. z : s[n + i] = c[i]
    BY <1>3, <2>1
  <2>4. s \in Seq(S) /\ c \in Seq(S) /\ n \in Nat /\ z \in Nat /\ z = Len(c)
    BY <1>1
  <2>5. SubSeq(s, n + 1, n + z) = c
    BY <2>2, <2>3, <2>4, CutOut, Zenon
  <2> QED BY <2>1, <2>5
<1>8. InParts(s, a, b, c)
  BY <1>1, <1>3, <1>4, <1>5, <1>6, <1>7 DEF InParts
<1> QED BY <1>2, <1>3, <1>8

(* A packet: its first byte, the length of the rest, and the rest.         *)
Made(h, r) == <<h>> \o Encode(Len(r)) \o r

WellMade(p, h, r, l) ==
  /\ l \in 1 .. 4 /\ Len(p) = 1 + l + Len(r)
  /\ p[1] = h
  /\ \A i \in 1 .. l : p[1 + i] = Encode(Len(r))[i]
  /\ SubSeq(p, 2 + l, 1 + l + Len(r)) = r

(* A packet that is made has its parts where they belong.                  *)
LEMMA MadeIs ==
  ASSUME NEW h \in Bytes, NEW r \in Seq(Bytes), Len(r) \in Lengths
  PROVE  Made(h, r) \in Seq(Bytes) /\ WellMade(Made(h, r), h, r, EncodedLen(Len(r)))
<1>1. PICK n \in Lengths : n = Len(r)
  OBVIOUS
<1>2. PICK l \in 1 .. 4 : l = EncodedLen(n) /\ Encode(n) \in Seq(Bytes) /\ Len(Encode(n)) = l
  BY EncodeIs
<1>3. PICK a \in Seq(Bytes), b \in Seq(Bytes) : /\ a = <<h>> /\ Len(a) = 1 /\ a[1] = h
                                                /\ b = Encode(n) /\ Len(b) = l
  <2>1. <<h>> \in Seq(Bytes) /\ Len(<<h>>) = 1 /\ <<h>>[1] = h
    OBVIOUS
  <2> QED BY <1>2, <2>1
<1>4. PICK s \in Seq(Bytes) : s = a \o b \o r /\ InParts(s, a, b, r)
  <2>1. a \in Seq(Bytes) /\ b \in Seq(Bytes) /\ r \in Seq(Bytes)
    OBVIOUS
  <2> QED BY <2>1, ThreeParts, Zenon
<1>5. s = Made(h, r)
  BY <1>1, <1>3, <1>4 DEF Made
<1>6. Len(s) = 1 + l + Len(r) /\ s[1] = h
  BY <1>3, <1>4 DEF InParts
<1>8. \A i \in 1 .. l : s[1 + i] = Encode(n)[i]
  BY <1>3, <1>4 DEF InParts
<1>9. SubSeq(s, 2 + l, 1 + l + Len(r)) = r
  <2>1. 1 + l + 1 = 2 + l
    OBVIOUS
  <2> QED BY <1>3, <1>4, <2>1, Zenon DEF InParts
<1>10. WellMade(s, h, r, l)
  BY <1>1, <1>6, <1>8, <1>9 DEF WellMade
<1> QED BY <1>1, <1>2, <1>5, <1>10, Zenon

(* A packet is found at the beginning of a stream.                         *)
LEMMA FirstIs ==
  ASSUME NEW w \in Seq(Bytes), NEW p \in Seq(Bytes), NEW h, NEW r \in Seq(Bytes), NEW l,
         Len(r) \in Lengths, l = EncodedLen(Len(r)), WellMade(p, h, r, l),
         Len(p) <= Len(w), \A j \in 1 .. Len(p) : w[j] = p[j]
  PROVE  FirstLen(w) = {Len(p)} /\ SubSeq(w, 1, Len(p)) = p
<1>1. PICK n \in Lengths : n = Len(r)
  OBVIOUS
<1>2. n \in Nat /\ l \in 1 .. 4 /\ Len(p) = 1 + l + n /\ \A i \in 1 .. l : p[1 + i] = Encode(n)[i]
  <2>1. n \in Nat
    BY DEF Lengths
  <2> QED BY <1>1, <2>1 DEF WellMade
<1>3. PICK m \in Nat : m = Len(w) /\ 1 + l + n <= m
  BY <1>2
<1>4. Tail(w) \in Seq(Bytes) /\ Len(Tail(w)) = m - 1 /\ \A i \in 1 .. m - 1 : Tail(w)[i] = w[i + 1]
  BY <1>2, <1>3
<1>5. \A i \in 1 .. l : Tail(w)[i] = Encode(n)[i]
  <2> SUFFICES ASSUME NEW i \in 1 .. l
               PROVE  Tail(w)[i] = Encode(n)[i]
    OBVIOUS
  <2>1. i \in 1 .. m - 1 /\ 1 + i \in 1 .. 1 + l + n /\ i + 1 = 1 + i
    BY <1>2, <1>3
  <2> QED BY <1>2, <1>4, <2>1
<1>6. Decode(Tail(w)) = [whole |-> TRUE, len |-> l, value |-> n]
  <2>1. Len(Tail(w)) \in Nat /\ Len(Tail(w)) >= l
    BY <1>2, <1>3, <1>4
  <2> QED BY <1>1, <1>5, <2>1, DecodeEncoded
<1>7. FirstLen(w) = {1 + l + n} \intersect 1 .. m
  <2>1. PICK d : d = Decode(Tail(w)) /\ d.whole = TRUE /\ d.len = l /\ d.value = n
    BY <1>6
  <2>2. w # <<>>
    BY <1>2, <1>3
  <2>3. {e \in {d} : e.whole} = {d}
    BY <2>1
  <2>4. {1 + e.len + e.value : e \in {d}} = {1 + l + n}
    BY <2>1
  <2> QED BY <1>3, <2>1, <2>2, <2>3, <2>4, Zenon DEF FirstLen
<1>8. {1 + l + n} \intersect 1 .. m = {1 + l + n}
  BY <1>2, <1>3
<1>9. SubSeq(w, 1, 1 + l + n) = p
  <2>1. PICK k \in Nat : k = 1 + l + n
    BY <1>2
  <2>2. SubSeq(w, 1, k) \in Seq(Bytes) /\ Len(SubSeq(w, 1, k)) = k
        /\ \A i \in 1 .. k : SubSeq(w, 1, k)[i] = w[i]
    BY <1>3, <2>1
  <2>3. SubSeq(w, 1, k) = p
    BY <1>2, <2>1, <2>2, SameSeq
  <2> QED BY <2>1, <2>3
<1> QED BY <1>2, <1>7, <1>8, <1>9

(* What is behind the length is the rest.                                  *)
LEMMA RestIs ==
  ASSUME NEW p \in Seq(Bytes), NEW h, NEW r \in Seq(Bytes), NEW l,
         Len(r) \in Lengths, l = EncodedLen(Len(r)), WellMade(p, h, r, l)
  PROVE  Rest(p) = r
<1>1. PICK n \in Lengths : n = Len(r)
  OBVIOUS
<1>2. n \in Nat /\ l \in 1 .. 4 /\ Len(p) = 1 + l + n /\ \A i \in 1 .. l : p[1 + i] = Encode(n)[i]
  <2>1. n \in Nat
    BY DEF Lengths
  <2> QED BY <1>1, <2>1 DEF WellMade
<1>4. Tail(p) \in Seq(Bytes) /\ Len(Tail(p)) = l + n /\ \A i \in 1 .. l + n : Tail(p)[i] = p[i + 1]
  BY <1>2
<1>5. \A i \in 1 .. l : Tail(p)[i] = Encode(n)[i]
  BY <1>2, <1>4
<1>6. Decode(Tail(p)) = [whole |-> TRUE, len |-> l, value |-> n]
  <2>1. Len(Tail(p)) \in Nat /\ Len(Tail(p)) >= l
    BY <1>2, <1>4
  <2> QED BY <1>1, <1>5, <2>1, DecodeEncoded
<1>7. Decode(Tail(p)).len = l
  BY <1>6
<1>8. Rest(p) = SubSeq(p, 2 + l, 1 + l + n)
  BY <1>2, <1>7, Zenon DEF Rest
<1> QED BY <1>1, <1>8 DEF WellMade

(* The lengths that two bytes can say, and those bytes.                    *)
TopicLengths == {n \in Nat : n < 65536}

(* They say it.                                                            *)
LEMMA TwoBytes ==
  ASSUME NEW n \in TopicLengths
  PROVE  n \div 256 \in Bytes /\ n % 256 \in Bytes /\ 256 * (n \div 256) + (n % 256) = n
<1>1. n % 256 \in 0 .. 255 /\ 256 * (n \div 256) + (n % 256) = n
  BY SMT DEF TopicLengths
<1>2. n \div 256 \in 0 .. 255
  BY SMT DEF TopicLengths
<1> QED BY <1>1, <1>2 DEF Bytes

(* A message in a packet is read as it was written.                        *)
LEMMA TopicIs ==
  ASSUME NEW t \in Seq(Bytes), NEW y \in Seq(Bytes), NEW b1 \in Bytes, NEW b2 \in Bytes,
         b1 = Len(t) \div 256, b2 = Len(t) % 256, 256 * b1 + b2 = Len(t)
  PROVE  /\ WriteString(t) \o y \in Seq(Bytes)
         /\ Len(WriteString(t) \o y) = 2 + Len(t) + Len(y)
         /\ ReadInt(WriteString(t) \o y) = Len(t)
         /\ SubSeq(WriteString(t) \o y, 3, 2 + Len(t)) = t
         /\ SubSeq(WriteString(t) \o y, 3 + Len(t), Len(WriteString(t) \o y)) = y
<1>1. PICK n \in Nat, m \in Nat : n = Len(t) /\ m = Len(y)
  OBVIOUS
<1>4. PICK a \in Seq(Bytes) : a = WriteInt(n) /\ Len(a) = 2 /\ a[1] = b1 /\ a[2] = b2
  <2>1. <<b1, b2>> \in Seq(Bytes) /\ Len(<<b1, b2>>) = 2 /\ <<b1, b2>>[1] = b1 /\ <<b1, b2>>[2] = b2
    OBVIOUS
  <2>2. WriteInt(n) = <<b1, b2>>
    BY <1>1, Zenon DEF WriteInt
  <2> QED BY <2>1, <2>2
<1>5. PICK r \in Seq(Bytes) : r = a \o t \o y /\ InParts(r, a, t, y)
  <2>1. a \in Seq(Bytes) /\ t \in Seq(Bytes) /\ y \in Seq(Bytes)
    OBVIOUS
  <2> QED BY <2>1, ThreeParts, Zenon
<1>6. r = WriteString(t) \o y
  BY <1>1, <1>4, <1>5, Zenon DEF WriteString
<1>7. Len(r) = 2 + n + m /\ r[1] = b1 /\ r[2] = b2
  <2>1. Len(r) = 2 + n + m
    BY <1>1, <1>4, <1>5 DEF InParts
  <2>2. \A i \in 1 .. 2 : r[i] = a[i]
    BY <1>4, <1>5 DEF InParts
  <2> QED BY <1>4, <2>1, <2>2
<1>8. ReadInt(r) = n
  BY <1>1, <1>7 DEF ReadInt
<1>9. SubSeq(r, 3, 2 + n) = t /\ SubSeq(r, 3 + n, Len(r)) = y
  <2>1. 2 + 1 = 3 /\ 2 + n + 1 = 3 + n
    OBVIOUS
  <2>2. SubSeq(r, 2 + 1, 2 + n) = t /\ SubSeq(r, 2 + n + 1, 2 + n + m) = y
    BY <1>1, <1>4, <1>5, Zenon DEF InParts
  <2> QED BY <1>7, <2>1, <2>2
<1> QED BY <1>1, <1>6, <1>7, <1>8, <1>9

(***************************************************************************)
(* What the client sends, and the messages in it: one in a packet of that  *)
(* type, none in the others.                                               *)
(***************************************************************************)
PlainTypes == {16, 192, 224}

SentPlain(p, s) ==
  \E h \in PlainTypes, r \in Seq(Bytes) : Len(r) \in Lengths /\ p = Made(h, r) /\ s = <<>>

SentMessage(p, s) ==
  \E t \in Seq(Bytes), y \in Seq(Bytes) :
    /\ Len(t) \in TopicLengths /\ Len(WriteString(t) \o y) \in Lengths
    /\ p = Made(48, WriteString(t) \o y)
    /\ s = <<[topic |-> t, payload |-> y]>>

Sent(p, s) == SentPlain(p, s) \/ SentMessage(p, s)

(* It begins with its type and is found at the beginning of a stream.      *)
Found(p, h) ==
  /\ p \in Seq(Bytes) /\ Len(p) \in Nat /\ Len(p) >= 2 /\ p[1] = h
  /\ \A w \in Seq(Bytes) :
       Len(p) <= Len(w) /\ (\A j \in 1 .. Len(p) : w[j] = p[j])
         => FirstLen(w) = {Len(p)} /\ SubSeq(w, 1, Len(p)) = p

(* A packet that is made is found, and its rest is what was put in.        *)
LEMMA MadeFound ==
  ASSUME NEW h \in Bytes, NEW r \in Seq(Bytes), Len(r) \in Lengths
  PROVE  Found(Made(h, r), h) /\ Rest(Made(h, r)) = r
<1>1. PICK p, l : p \in Seq(Bytes) /\ p = Made(h, r) /\ l = EncodedLen(Len(r)) /\ WellMade(p, h, r, l)
  BY MadeIs, Zenon
<1>2. Len(p) \in Nat /\ Len(p) >= 2 /\ p[1] = h
  <2>1. Len(p) \in Nat /\ Len(r) \in Nat
    OBVIOUS
  <2>2. l \in 1 .. 4 /\ Len(p) = 1 + l + Len(r) /\ p[1] = h
    BY <1>1, Zenon DEF WellMade
  <2> QED BY ONLY <2>1, <2>2
<1>3. ASSUME NEW w \in Seq(Bytes), Len(p) <= Len(w), \A j \in 1 .. Len(p) : w[j] = p[j]
      PROVE  FirstLen(w) = {Len(p)} /\ SubSeq(w, 1, Len(p)) = p
  BY <1>1, <1>3, FirstIs
<1>4. Rest(p) = r
  BY <1>1, RestIs
<1> QED BY <1>1, <1>2, <1>3, <1>4, Zenon DEF Found

(* One without a message has another type.                                 *)
LEMMA PlainReads ==
  ASSUME NEW p, NEW s, SentPlain(p, s)
  PROVE  s = <<>> /\ \E h \in PlainTypes : Found(p, h)
<1>1. PICK h \in PlainTypes, r \in Seq(Bytes) : Len(r) \in Lengths /\ p = Made(h, r) /\ s = <<>>
  BY Zenon DEF SentPlain
<1>2. h \in Bytes
  BY DEF Bytes, PlainTypes
<1> QED BY <1>1, <1>2, MadeFound, Zenon

(* One with a message has it.                                              *)
LEMMA MessageReads ==
  ASSUME NEW p, NEW s, SentMessage(p, s)
  PROVE  Found(p, 48) /\ HasTopic(p) /\ s = <<DeserializePublish(p)>>
<1>1. PICK t \in Seq(Bytes), y \in Seq(Bytes) :
        /\ Len(t) \in TopicLengths /\ Len(WriteString(t) \o y) \in Lengths
        /\ p = Made(48, WriteString(t) \o y)
        /\ s = <<[topic |-> t, payload |-> y]>>
  BY Zenon DEF SentMessage
<1>2. PICK b1 \in Bytes, b2 \in Bytes : b1 = Len(t) \div 256 /\ b2 = Len(t) % 256 /\ 256 * b1 + b2 = Len(t)
  BY <1>1, TwoBytes, SMT
<1>3. PICK r \in Seq(Bytes) :
         /\ r = WriteString(t) \o y
         /\ Len(r) = 2 + Len(t) + Len(y)
         /\ ReadInt(r) = Len(t)
         /\ SubSeq(r, 3, 2 + Len(t)) = t
         /\ SubSeq(r, 3 + Len(t), Len(r)) = y
  <2>1. /\ WriteString(t) \o y \in Seq(Bytes)
        /\ Len(WriteString(t) \o y) = 2 + Len(t) + Len(y)
        /\ ReadInt(WriteString(t) \o y) = Len(t)
        /\ SubSeq(WriteString(t) \o y, 3, 2 + Len(t)) = t
        /\ SubSeq(WriteString(t) \o y, 3 + Len(t), Len(WriteString(t) \o y)) = y
    BY <1>2, TopicIs, SMT
  <2> QED BY <2>1, Zenon
<1>4. 48 \in Bytes
  BY DEF Bytes
<1>5. Found(p, 48) /\ Rest(p) = r
  <2>1. p = Made(48, r) /\ Len(r) \in Lengths
    BY <1>1, <1>3, Zenon
  <2> QED BY <1>4, <2>1, MadeFound, Zenon
<1>6. HasTopic(p)
  <2>1. Len(t) \in Nat /\ Len(y) \in Nat
    OBVIOUS
  <2> QED BY ONLY <1>3, <1>5, <2>1 DEF HasTopic
<1>7. DeserializePublish(p) = [topic |-> t, payload |-> y]
  BY ONLY <1>3, <1>5, Zenon DEF DeserializePublish
<1> QED BY ONLY <1>1, <1>5, <1>6, <1>7, Zenon

-----------------------------------------------------------------------------
(* The wire                                                                *)

(* What a message says.                                                    *)
Contents == [topic : Seq(Bytes), payload : Seq(Bytes)]

(* What is sent is found, and of its type if it has a message.             *)
LEMMA SentType ==
  ASSUME NEW p, NEW s, Sent(p, s)
  PROVE  /\ p \in Seq(Bytes) /\ Len(p) \in Nat /\ Len(p) >= 2
         /\ s \in Seq(Contents) /\ Len(s) \in {0, 1}
         /\ \E h : Found(p, h)
         /\ p[1] = 48 => HasTopic(p) /\ s = <<DeserializePublish(p)>>
         /\ p[1] # 48 => s = <<>>
<1>1. CASE SentPlain(p, s)
  <2>1. PICK h \in PlainTypes : s = <<>> /\ Found(p, h)
    BY <1>1, PlainReads
  <2>2. p \in Seq(Bytes) /\ Len(p) \in Nat /\ Len(p) >= 2 /\ p[1] = h
    BY <2>1 DEF Found
  <2>3. p[1] # 48
    BY <2>2 DEF PlainTypes
  <2>4. s \in Seq(Contents) /\ Len(s) = 0
    BY <2>1
  <2> QED BY <2>1, <2>2, <2>3, <2>4
<1>2. CASE SentMessage(p, s)
  <2>1. Found(p, 48) /\ HasTopic(p) /\ s = <<DeserializePublish(p)>>
    BY <1>2, MessageReads
  <2>2. p \in Seq(Bytes) /\ Len(p) \in Nat /\ Len(p) >= 2 /\ p[1] = 48
    BY <2>1 DEF Found
  <2>3. s \in Seq(Contents) /\ Len(s) = 1
    <3>1. PICK t \in Seq(Bytes), y \in Seq(Bytes) : s = <<[topic |-> t, payload |-> y]>>
      BY <1>2, Zenon DEF SentMessage
    <3>2. [topic |-> t, payload |-> y] \in Contents
      BY DEF Contents
    <3> QED BY ONLY <3>1, <3>2
  <2> QED BY <2>1, <2>2, <2>3
<1> QED BY <1>1, <1>2 DEF Sent

(***************************************************************************)
(* A packet p with its messages s, behind i bytes of w and j messages of u.*)
(***************************************************************************)
At(w, u, i, j, p, s) ==
  /\ i + Len(p) <= Len(w) /\ \A m \in 1 .. Len(p) : w[i + m] = p[m]
  /\ j + Len(s) <= Len(u) /\ \A m \in 1 .. Len(s) : u[j + m] = s[m]

(***************************************************************************)
(* How the bytes w were cut into packets when they were sent: B has the    *)
(* bounds of the packets, counted from the beginning of the connection, as *)
(* has o of the first byte; K and e count the messages.                    *)
(***************************************************************************)
Cuts(w, u, o, e, B, K) ==
  /\ o \in Nat /\ e \in Nat /\ B \subseteq 0 .. o + Len(w) /\ K \in [B -> Nat]
  /\ o \in B /\ K[o] = e
  /\ o + Len(w) \in B /\ K[o + Len(w)] = e + Len(u)
  /\ \A x, y \in B : x <= y => K[x] <= K[y]
  /\ \A x \in B : x >= o /\ x < o + Len(w) =>
       \E p, s : /\ Sent(p, s) /\ At(w, u, x - o, K[x] - e, p, s)
                 /\ x + Len(p) \in B /\ K[x + Len(p)] = K[x] + Len(s)

Wire(w, u) ==
  /\ w \in Seq(Bytes) /\ u \in Seq(Contents)
  /\ \E o, e, B, K : Cuts(w, u, o, e, B, K)

(* What is left when something has been taken off.                         *)
LEMMA Left ==
  ASSUME NEW S, NEW w \in Seq(S), NEW n \in 0 .. Len(w)
  PROVE  /\ SubSeq(w, n + 1, Len(w)) \in Seq(S)
         /\ Len(SubSeq(w, n + 1, Len(w))) = Len(w) - n
         /\ \A m \in 1 .. Len(w) - n : SubSeq(w, n + 1, Len(w))[m] = w[n + m]
<1>1. PICK l \in Nat : l = Len(w)
  OBVIOUS
<1>2. PICK y \in Nat : n + y = l
  <2>1. n \in 0 .. l
    BY <1>1
  <2>2. l - n \in Nat /\ n + (l - n) = l
    BY <2>1
  <2> QED BY <2>2
<1>3. n \in Nat /\ n + y <= Len(w)
  BY <1>1, <1>2
<1>4. /\ SubSeq(w, n + 1, n + y) \in Seq(S) /\ Len(SubSeq(w, n + 1, n + y)) = y
      /\ \A i \in 1 .. y : SubSeq(w, n + 1, n + y)[i] = w[n + i]
  BY <1>3, Piece, SMT
<1>5. n + y = Len(w) /\ Len(w) - n = y
  BY <1>1, <1>2
<1> QED BY <1>4, <1>5

(* A packet that is not among what is taken off stays.                     *)
LEMMA AtLater ==
  ASSUME NEW w \in Seq(Bytes), NEW u \in Seq(Contents), NEW i \in Nat, NEW j \in Nat, NEW p, NEW s,
         Len(p) \in Nat, Len(s) \in Nat, At(w, u, i, j, p, s),
         NEW n \in 0 .. i, NEW d \in 0 .. j
  PROVE  At(SubSeq(w, n + 1, Len(w)), SubSeq(u, d + 1, Len(u)), i - n, j - d, p, s)
<1>1. PICK l \in Nat, k \in Nat : l = Len(w) /\ k = Len(u)
  OBVIOUS
<1>2. /\ i + Len(p) <= l /\ \A m \in 1 .. Len(p) : w[i + m] = p[m]
      /\ j + Len(s) <= k /\ \A m \in 1 .. Len(s) : u[j + m] = s[m]
  BY <1>1 DEF At
<1>3. n \in 0 .. Len(w) /\ d \in 0 .. Len(u)
  BY <1>1, <1>2
<1>4. PICK w1 \in Seq(Bytes), u1 \in Seq(Contents) :
        /\ w1 = SubSeq(w, n + 1, Len(w)) /\ Len(w1) = l - n
        /\ \A m \in 1 .. l - n : w1[m] = w[n + m]
        /\ u1 = SubSeq(u, d + 1, Len(u)) /\ Len(u1) = k - d
        /\ \A m \in 1 .. k - d : u1[m] = u[d + m]
  <2>1. /\ SubSeq(w, n + 1, Len(w)) \in Seq(Bytes) /\ Len(SubSeq(w, n + 1, Len(w))) = l - n
        /\ \A m \in 1 .. l - n : SubSeq(w, n + 1, Len(w))[m] = w[n + m]
    <3>1. /\ SubSeq(w, n + 1, Len(w)) \in Seq(Bytes) /\ Len(SubSeq(w, n + 1, Len(w))) = Len(w) - n
          /\ \A m \in 1 .. Len(w) - n : SubSeq(w, n + 1, Len(w))[m] = w[n + m]
      BY <1>3, Left, SMT
    <3> QED BY <1>1, <3>1, Zenon
  <2>2. /\ SubSeq(u, d + 1, Len(u)) \in Seq(Contents) /\ Len(SubSeq(u, d + 1, Len(u))) = k - d
        /\ \A m \in 1 .. k - d : SubSeq(u, d + 1, Len(u))[m] = u[d + m]
    BY <1>1, <1>3, Left, SMT
  <2>3. PICK w1 \in Seq(Bytes) : /\ w1 = SubSeq(w, n + 1, Len(w)) /\ Len(w1) = l - n
                                /\ \A m \in 1 .. l - n : w1[m] = w[n + m]
    BY <2>1
  <2>4. PICK u1 \in Seq(Contents) : /\ u1 = SubSeq(u, d + 1, Len(u)) /\ Len(u1) = k - d
                                   /\ \A m \in 1 .. k - d : u1[m] = u[d + m]
    BY <2>2
  <2> QED BY <2>3, <2>4
<1>5. ASSUME NEW m \in 1 .. Len(p)
      PROVE  w1[(i - n) + m] = p[m]
  <2>1. (i - n) + m \in 1 .. l - n /\ n + ((i - n) + m) = i + m
    BY <1>2
  <2> QED BY <1>2, <1>4, <2>1
<1>6. ASSUME NEW m \in 1 .. Len(s)
      PROVE  u1[(j - d) + m] = s[m]
  <2>1. (j - d) + m \in 1 .. k - d /\ d + ((j - d) + m) = j + m
    BY <1>2
  <2> QED BY <1>2, <1>4, <2>1
<1>7. (i - n) + Len(p) <= Len(w1) /\ (j - d) + Len(s) <= Len(u1)
  <2>1. (i - n) + Len(p) <= l - n /\ (j - d) + Len(s) <= k - d
    BY <1>2
  <2> QED BY <1>4, <2>1
<1>8. At(w1, u1, i - n, j - d, p, s)
  BY <1>5, <1>6, <1>7 DEF At
<1> QED BY <1>4, <1>8

(* What comes behind it leaves it where it is.                             *)
LEMMA AtMore ==
  ASSUME NEW w \in Seq(Bytes), NEW u \in Seq(Contents), NEW i \in Nat, NEW j \in Nat, NEW p, NEW s,
         Len(p) \in Nat, Len(s) \in Nat, At(w, u, i, j, p, s),
         NEW q \in Seq(Bytes), NEW v \in Seq(Contents)
  PROVE  At(w \o q, u \o v, i, j, p, s)
<1>1. PICK l \in Nat, k \in Nat, g \in Nat, h \in Nat :
        l = Len(w) /\ k = Len(u) /\ g = Len(q) /\ h = Len(v)
  OBVIOUS
<1>2. /\ i + Len(p) <= l /\ \A m \in 1 .. Len(p) : w[i + m] = p[m]
      /\ j + Len(s) <= k /\ \A m \in 1 .. Len(s) : u[j + m] = s[m]
  BY <1>1 DEF At
<1>4. PICK w1, u1 : /\ w1 = w \o q /\ Len(w1) = l + g /\ \A m \in 1 .. l : w1[m] = w[m]
                    /\ u1 = u \o v /\ Len(u1) = k + h /\ \A m \in 1 .. k : u1[m] = u[m]
  <2>1. Len(w \o q) = l + g /\ \A m \in 1 .. l : (w \o q)[m] = w[m]
    BY <1>1, Joined, SMT
  <2>2. Len(u \o v) = k + h /\ \A m \in 1 .. k : (u \o v)[m] = u[m]
    BY <1>1, Joined, SMT
  <2> QED BY <2>1, <2>2, Zenon
<1>5. ASSUME NEW m \in 1 .. Len(p)
      PROVE  w1[i + m] = p[m]
  <2>1. i + m \in 1 .. l
    BY <1>2
  <2> QED BY <1>2, <1>4, <2>1
<1>6. ASSUME NEW m \in 1 .. Len(s)
      PROVE  u1[j + m] = s[m]
  <2>1. j + m \in 1 .. k
    BY <1>2
  <2> QED BY <1>2, <1>4, <2>1
<1>7. i + Len(p) <= Len(w1) /\ j + Len(s) <= Len(u1)
  BY <1>2, <1>4
<1>8. At(w1, u1, i, j, p, s)
  BY <1>5, <1>6, <1>7 DEF At
<1> QED BY <1>4, <1>8

(* And is behind it.                                                       *)
LEMMA AtEnd ==
  ASSUME NEW w \in Seq(Bytes), NEW u \in Seq(Contents), NEW q \in Seq(Bytes), NEW v \in Seq(Contents)
  PROVE  At(w \o q, u \o v, Len(w), Len(u), q, v)
<1>1. Len(w \o q) = Len(w) + Len(q) /\ \A m \in 1 .. Len(q) : (w \o q)[Len(w) + m] = q[m]
  BY Joined, SMT
<1>2. Len(u \o v) = Len(u) + Len(v) /\ \A m \in 1 .. Len(v) : (u \o v)[Len(u) + m] = v[m]
  BY Joined, SMT
<1>3. Len(w) \in Nat /\ Len(q) \in Nat /\ Len(u) \in Nat /\ Len(v) \in Nat
  OBVIOUS
<1> QED BY <1>1, <1>2, <1>3 DEF At

(* Nothing is on the wire of a new connection.                             *)
LEMMA WireNew == Wire(<<>>, <<>>)
<1> DEFINE B == {0}
           K == [x \in B |-> 0]
<1>1. Len(<<>>) = 0 /\ <<>> \in Seq(Bytes) /\ <<>> \in Seq(Contents)
  OBVIOUS
<1>2. B \subseteq 0 .. 0 /\ K \in [B -> Nat] /\ 0 \in B /\ K[0] = 0
  OBVIOUS
<1>3. \A x, y \in B : x <= y => K[x] <= K[y]
  OBVIOUS
<1>4. \A x \in B : ~(x < 0)
  OBVIOUS
<1>5. Cuts(<<>>, <<>>, 0, 0, B, K)
  <2> HIDE DEF B, K
  <2> QED BY <1>1, <1>2, <1>3, <1>4 DEF Cuts
<1> QED BY <1>1, <1>5, Zenon DEF Wire

(* A packet more on its way.                                               *)
LEMMA WireMore ==
  ASSUME NEW w, NEW u, Wire(w, u), NEW q, NEW v, Sent(q, v)
  PROVE  Wire(w \o q, u \o v)
<1>1. w \in Seq(Bytes) /\ u \in Seq(Contents)
  BY DEF Wire
<1>2. q \in Seq(Bytes) /\ v \in Seq(Contents) /\ Len(q) >= 2
  BY SentType
<1>3. PICK o, e, B, K : Cuts(w, u, o, e, B, K)
  BY Zenon DEF Wire
<1>4. PICK l \in Nat, k \in Nat, g \in Nat, h \in Nat :
        l = Len(w) /\ k = Len(u) /\ g = Len(q) /\ h = Len(v) /\ g >= 2
  BY <1>1, <1>2
<1>5. /\ o \in Nat /\ e \in Nat /\ B \subseteq 0 .. o + l /\ K \in [B -> Nat]
      /\ o \in B /\ K[o] = e
      /\ o + l \in B /\ K[o + l] = e + k
      /\ \A x, y \in B : x <= y => K[x] <= K[y]
  BY <1>3, <1>4, Zenon DEF Cuts
<1>6. PICK f \in Nat, c \in Nat : f = o + l + g /\ c = e + k + h
  BY <1>5
<1> DEFINE B2 == B \union {f}
           K2 == [x \in B2 |-> IF x \in B THEN K[x] ELSE c]
<1>7. f \notin B /\ B2 \subseteq 0 .. f /\ \A x \in B : x \in Nat /\ x < f
  <2>1. ASSUME NEW x \in B
        PROVE  x \in Nat /\ x < f
    <3>1. x \in 0 .. o + l
      BY <1>5
    <3> QED BY <1>4, <1>5, <1>6, <3>1
  <2>2. f \notin B
    BY <2>1
  <2>3. \A x \in B2 : x \in 0 .. f
    BY <2>1
  <2> QED BY <2>1, <2>2, <2>3
<1>8. K2 \in [B2 -> Nat] /\ K2[f] = c /\ \A x \in B : K2[x] = K[x]
  BY <1>5, <1>7
<1>9. \A x \in B : x \in Nat /\ x <= o + l /\ K[x] \in Nat /\ K[x] <= e + k
  <2> SUFFICES ASSUME NEW x \in B
               PROVE  x \in Nat /\ x <= o + l /\ K[x] \in Nat /\ K[x] <= e + k
    OBVIOUS
  <2>1. x \in 0 .. o + l /\ K[x] \in Nat
    BY <1>5
  <2>2. x \in Nat /\ x <= o + l
    BY <1>5, <2>1
  <2>3. K[x] <= K[o + l]
    BY <1>5, <2>2
  <2> QED BY <1>5, <2>1, <2>2, <2>3
<1>10. \A x, y \in B2 : x <= y => K2[x] <= K2[y]
  <2> SUFFICES ASSUME NEW x \in B2, NEW y \in B2, x <= y
               PROVE  K2[x] <= K2[y]
    OBVIOUS
  <2> HIDE DEF K2
  <2>1. CASE x \in B /\ y \in B
    BY <1>5, <1>8, <2>1
  <2>2. CASE x \in B /\ y = f
    <3>1. K2[x] = K[x] /\ K2[y] = c /\ K[x] \in Nat /\ K[x] <= e + k
      BY <1>8, <1>9, <2>2
    <3> QED BY <1>5, <1>6, <3>1
  <2>3. CASE x = f /\ y = f
    BY <1>8, <2>3
  <2>4. ~(x = f /\ y \in B)
    BY <1>6, <1>7
  <2> QED BY <2>1, <2>2, <2>3, <2>4
<1>11. Len(w \o q) = l + g /\ w \o q \in Seq(Bytes) /\ Len(u \o v) = k + h /\ u \o v \in Seq(Contents)
  BY <1>1, <1>2, <1>4
<1>12. ASSUME NEW x \in B2, x >= o, x < f
       PROVE  \E p, s : /\ Sent(p, s) /\ At(w \o q, u \o v, x - o, K2[x] - e, p, s)
                        /\ x + Len(p) \in B2 /\ K2[x + Len(p)] = K2[x] + Len(s)
  <2> HIDE DEF K2
  <2>1. CASE x < o + l
    <3>1. x \in B /\ K2[x] = K[x]
      BY <1>6, <1>8, <2>1, <1>5
    <3>2. PICK p, s : /\ Sent(p, s) /\ At(w, u, x - o, K[x] - e, p, s)
                      /\ x + Len(p) \in B /\ K[x + Len(p)] = K[x] + Len(s)
      BY <1>3, <1>4, <1>12, <2>1, <3>1 DEF Cuts
    <3>3. Len(p) \in Nat /\ Len(s) \in Nat
      BY <3>2, SentType
    <3>4. x - o \in Nat /\ K[x] - e \in Nat
      <4>1. x \in Nat /\ K[x] \in Nat
        BY <1>9, <3>1
      <4>2. K[o] <= K[x]
        BY <1>5, <1>12, <3>1
      <4> QED BY <1>5, <1>12, <4>1, <4>2
    <3>5. At(w \o q, u \o v, x - o, K[x] - e, p, s)
      BY <1>1, <1>2, <3>2, <3>3, <3>4, AtMore
    <3>6. x + Len(p) \in B2 /\ K2[x + Len(p)] = K2[x] + Len(s)
      BY <1>8, <3>1, <3>2
    <3> QED BY <3>1, <3>2, <3>5, <3>6
  <2>2. CASE x >= o + l
    <3>1. x = o + l /\ x \in B
      BY <1>5, <1>6, <1>9, <1>12, <2>2
    <3>2. x - o = l /\ K2[x] - e = k /\ K2[x] = e + k
      BY <1>5, <1>8, <3>1
    <3>3. At(w \o q, u \o v, l, k, q, v)
      BY <1>1, <1>2, <1>4, AtEnd
    <3>4. x + Len(q) \in B2 /\ K2[x + Len(q)] = K2[x] + Len(v)
      <4>1. x + Len(q) = f
        BY <1>4, <1>6, <3>1
      <4> QED BY <1>4, <1>6, <1>8, <3>2, <4>1
    <3> QED BY <3>2, <3>3, <3>4
  <2>3. x \in Nat
    BY <1>6, <1>9
  <2> QED BY <1>5, <2>1, <2>2, <2>3
<1>13. Cuts(w \o q, u \o v, o, e, B2, K2)
  <2>1. f = o + Len(w \o q) /\ c = e + Len(u \o v)
    BY <1>5, <1>6, <1>11
  <2>2. o \in B2 /\ K2[o] = e
    BY <1>5, <1>8
  <2>3. f \in B2
    OBVIOUS
  <2> HIDE DEF K2, B2
  <2>4. B2 \subseteq 0 .. o + Len(w \o q)
    BY <1>7, <2>1
  <2>5. o + Len(w \o q) \in B2 /\ K2[o + Len(w \o q)] = e + Len(u \o v)
    BY <1>8, <2>1, <2>3
  <2>6. \A x \in B2 : x >= o /\ x < o + Len(w \o q) =>
          \E p, s : /\ Sent(p, s) /\ At(w \o q, u \o v, x - o, K2[x] - e, p, s)
                    /\ x + Len(p) \in B2 /\ K2[x + Len(p)] = K2[x] + Len(s)
    BY <1>12, <2>1, Zenon
  <2>7. o \in Nat /\ e \in Nat
    BY <1>5
  <2>8. K2 \in [B2 -> Nat]
    BY <1>8
  <2> QED BY ONLY <1>10, <2>2, <2>4, <2>5, <2>6, <2>7, <2>8, Zenon DEF Cuts
<1> QED BY <1>11, <1>13, Zenon DEF Wire

(* The first packet leaves the wire.                                       *)
LEMMA WireFirst ==
  ASSUME NEW w, NEW u, Wire(w, u), w # <<>>
  PROVE  \E p, s : /\ Sent(p, s) /\ At(w, u, 0, 0, p, s)
                   /\ Wire(SubSeq(w, Len(p) + 1, Len(w)), SubSeq(u, Len(s) + 1, Len(u)))
<1>1. w \in Seq(Bytes) /\ u \in Seq(Contents)
  BY DEF Wire
<1>3. PICK o, e, B, K : Cuts(w, u, o, e, B, K)
  BY Zenon DEF Wire
<1>4. PICK l \in Nat, k \in Nat : l = Len(w) /\ k = Len(u) /\ l > 0
  BY <1>1
<1>5. /\ o \in Nat /\ e \in Nat /\ B \subseteq 0 .. o + l /\ K \in [B -> Nat]
      /\ o \in B /\ K[o] = e
      /\ o + l \in B /\ K[o + l] = e + k
      /\ \A x, y \in B : x <= y => K[x] <= K[y]
  BY <1>3, <1>4, Zenon DEF Cuts
<1>6. \A x \in B : x >= o /\ x < o + l =>
       \E p, s : /\ Sent(p, s) /\ At(w, u, x - o, K[x] - e, p, s)
                 /\ x + Len(p) \in B /\ K[x + Len(p)] = K[x] + Len(s)
  BY <1>3, <1>4, Zenon DEF Cuts
<1>7. PICK p, s : /\ Sent(p, s) /\ At(w, u, 0, 0, p, s)
                  /\ o + Len(p) \in B /\ K[o + Len(p)] = e + Len(s)
  <2>1. o >= o /\ o < o + l /\ o - o = 0 /\ e - e = 0
    BY <1>4, <1>5
  <2>2. \E p, s : /\ Sent(p, s) /\ At(w, u, o - o, K[o] - e, p, s)
                  /\ o + Len(p) \in B /\ K[o + Len(p)] = K[o] + Len(s)
    BY <1>5, <1>6, <2>1
  <2> QED BY <1>5, <2>1, <2>2
<1>8. PICK n \in Nat, d \in Nat : n = Len(p) /\ d = Len(s) /\ n <= l /\ d <= k
  <2>1. Len(p) \in Nat /\ Len(s) \in Nat
    BY <1>7, SentType
  <2>2. 0 + Len(p) <= l /\ 0 + Len(s) <= k
    BY <1>4, <1>7 DEF At
  <2> QED BY <2>1, <2>2
<1>9. PICK w1 \in Seq(Bytes), u1 \in Seq(Contents), a \in Nat, b \in Nat :
        /\ w1 = SubSeq(w, n + 1, Len(w)) /\ a = Len(w1) /\ a = l - n
        /\ u1 = SubSeq(u, d + 1, Len(u)) /\ b = Len(u1) /\ b = k - d
  <2>1. n \in 0 .. Len(w) /\ d \in 0 .. Len(u)
    BY <1>4, <1>8
  <2>2. SubSeq(w, n + 1, Len(w)) \in Seq(Bytes) /\ Len(SubSeq(w, n + 1, Len(w))) = Len(w) - n
    BY <1>1, <2>1, Left, SMT
  <2>3. SubSeq(u, d + 1, Len(u)) \in Seq(Contents) /\ Len(SubSeq(u, d + 1, Len(u))) = Len(u) - d
    BY <1>1, <2>1, Left, SMT
  <2>4. Len(w) - n \in Nat /\ Len(u) - d \in Nat
    BY <1>4, <1>8
  <2> QED BY <1>4, <2>2, <2>3, <2>4
<1>10. PICK o1 \in Nat, e1 \in Nat : o1 = o + n /\ e1 = e + d /\ o1 \in B /\ K[o1] = e1
  BY <1>5, <1>7, <1>8
<1>11. o1 + a = o + l /\ e1 + b = e + k
  <2>1. o \in Nat /\ e \in Nat /\ o1 = o + n /\ e1 = e + d /\ a = l - n /\ b = k - d
    BY <1>5, <1>9, <1>10
  <2> QED BY ONLY <2>1, l \in Nat, k \in Nat, n \in Nat, d \in Nat
<1>12. ASSUME NEW x \in B, x >= o1, x < o1 + a
       PROVE  \E p1, s1 : /\ Sent(p1, s1) /\ At(w1, u1, x - o1, K[x] - e1, p1, s1)
                          /\ x + Len(p1) \in B /\ K[x + Len(p1)] = K[x] + Len(s1)
  <2>1. x \in Nat /\ K[x] \in Nat /\ K[x] >= e1
    <3>1. x \in 0 .. o + l /\ K[x] \in Nat
      BY <1>5
    <3>2. K[o1] <= K[x]
      BY <1>5, <1>10, <1>12
    <3> QED BY <1>10, <3>1, <3>2
  <2>2. x >= o /\ x < o + l
    BY <1>5, <1>8, <1>10, <1>11, <1>12, <2>1
  <2>3. PICK p1, s1 : /\ Sent(p1, s1) /\ At(w, u, x - o, K[x] - e, p1, s1)
                      /\ x + Len(p1) \in B /\ K[x + Len(p1)] = K[x] + Len(s1)
    BY <1>6, <2>2
  <2>4. Len(p1) \in Nat /\ Len(s1) \in Nat
    BY <2>3, SentType
  <2>5. PICK i \in Nat, j \in Nat : /\ i = x - o /\ j = K[x] - e /\ n \in 0 .. i /\ d \in 0 .. j
                                   /\ i - n = x - o1 /\ j - d = K[x] - e1
    <3>1. PICK i \in Nat : i = x - o /\ n \in 0 .. i /\ i - n = x - o1
      <4>1. o \in Nat /\ x \in Nat /\ x >= o + n /\ o1 = o + n
        BY <1>5, <1>10, <1>12, <2>1
      <4> QED BY ONLY <4>1, n \in Nat
    <3>2. PICK j \in Nat : j = K[x] - e /\ d \in 0 .. j /\ j - d = K[x] - e1
      <4>1. e \in Nat /\ K[x] \in Nat /\ K[x] >= e + d /\ e1 = e + d
        BY <1>5, <1>10, <2>1
      <4> QED BY ONLY <4>1, d \in Nat
    <3> QED BY <3>1, <3>2
  <2>6. At(w, u, i, j, p1, s1)
    BY <2>3, <2>5
  <2>7. At(w1, u1, i - n, j - d, p1, s1)
    BY <1>1, <1>9, <2>4, <2>5, <2>6, AtLater
  <2> QED BY <2>3, <2>5, <2>7
<1>13. Cuts(w1, u1, o1, e1, B, K)
  <2>1. B \subseteq 0 .. o1 + a /\ o1 + a \in B /\ K[o1 + a] = e1 + b
    BY <1>5, <1>11
  <2> QED BY <1>5, <1>9, <1>10, <1>12, <2>1, Zenon DEF Cuts
<1>14. Wire(w1, u1)
  BY <1>13, Zenon DEF Wire
<1> QED BY <1>7, <1>8, <1>9, <1>14

(* A packet that the client builds is one, or nothing.                     *)
LEMMA SerializeIs ==
  ASSUME NEW h \in Bytes, NEW r \in Seq(Bytes)
  PROVE  \/ Serialize(h, r) = <<>>
         \/ Len(r) \in Lengths /\ Serialize(h, r) = Made(h, r)
<1>1. PICK n \in Nat : n = Len(r)
  OBVIOUS
<1>2. PacketLen(n) <= MaxPacket => n \in Lengths
  <2>1. PacketLen(n) \in Nat /\ PacketLen(n) > n
    BY SMT DEF PacketLen
  <2> QED BY <2>1, PacketAssumption, SMT DEF Lengths
<1>3. ~(PacketLen(n) > MaxPacket) => PacketLen(n) <= MaxPacket
  <2>1. PacketLen(n) \in Nat
    BY SMT DEF PacketLen
  <2> QED BY ONLY <2>1, PacketAssumption, SMT
<1>4. CASE PacketLen(n) > MaxPacket
  BY <1>1, <1>4, Zenon DEF Serialize
<1>5. CASE ~(PacketLen(n) > MaxPacket)
  <2>1. Serialize(h, r) = Made(h, r)
    BY <1>1, <1>5, Zenon DEF Serialize, Made
  <2> QED BY <1>1, <1>2, <1>3, <1>5, <2>1, Zenon
<1> QED BY <1>4, <1>5

(* The packets of connect(), keepalive() and disconnect().                 *)
LEMMA PlainIs ==
  ASSUME NEW h \in PlainTypes, NEW r \in Seq(Bytes)
  PROVE  Serialize(h, r) = <<>> \/ Sent(Serialize(h, r), <<>>)
<1>1. h \in Bytes
  BY DEF Bytes, PlainTypes
<1>2. CASE Serialize(h, r) = <<>>
  BY <1>2
<1>3. CASE Len(r) \in Lengths /\ Serialize(h, r) = Made(h, r)
  <2>1. SentPlain(Made(h, r), <<>>)
    BY <1>3, Zenon DEF SentPlain
  <2> QED BY <1>3, <2>1, Zenon DEF Sent
<1> QED BY <1>1, <1>2, <1>3, SerializeIs, Zenon

(* Two of them have no rest.                                               *)
LEMMA ZeroIs ==
  ASSUME NEW t \in {PINGREQ, DISCONNECT}
  PROVE  SerializeZero(t) = <<>> \/ Sent(SerializeZero(t), <<>>)
<1>1. PICK h \in PlainTypes : h = t * 16
  BY DEF PINGREQ, DISCONNECT, PlainTypes
<1>2. PICK r \in Seq(Bytes) : r = <<>>
  <2>1. <<>> \in Seq(Bytes)
    OBVIOUS
  <2> QED BY <2>1
<1>3. SerializeZero(t) = Serialize(h, r)
  BY <1>1, <1>2, Zenon DEF SerializeZero
<1> QED BY <1>3, PlainIs, Zenon

(* Bytes behind bytes are bytes.                                           *)
LEMMA BytesJoined == \A a, b \in Seq(Bytes) : a \o b \in Seq(Bytes)
OBVIOUS

(* The packet of connect().                                                *)
LEMMA ConnectIs == SerializeConnect = <<>> \/ Sent(SerializeConnect, <<>>)
<1>1. /\ <<77, 81, 84, 84>> \in Seq(Bytes) /\ <<4, 2>> \in Seq(Bytes) /\ <<>> \in Seq(Bytes)
      /\ Len(<<77, 81, 84, 84>>) = 4 /\ Len(<<>>) = 0
  BY DEF Bytes
<1>2. WriteInt(60) \in Seq(Bytes) /\ WriteInt(4) \in Seq(Bytes) /\ WriteInt(0) \in Seq(Bytes)
  <2>1. ASSUME NEW n \in {0, 4, 60}
        PROVE  WriteInt(n) \in Seq(Bytes)
    <3>1. n \div 256 \in Bytes /\ n % 256 \in Bytes
      BY SMT DEF Bytes
    <3> QED BY <3>1 DEF WriteInt
  <2> QED BY <2>1
<1>3. WriteString(<<77, 81, 84, 84>>) \in Seq(Bytes) /\ WriteString(<<>>) \in Seq(Bytes)
  <2>1. WriteString(<<77, 81, 84, 84>>) = WriteInt(4) \o <<77, 81, 84, 84>>
    BY <1>1, Zenon DEF WriteString
  <2>2. WriteString(<<>>) = WriteInt(0) \o <<>>
    BY <1>1, Zenon DEF WriteString
  <2> QED BY <1>1, <1>2, <2>1, <2>2, BytesJoined, Zenon
<1>4. PICK r \in Seq(Bytes) :
        r = WriteString(<<77, 81, 84, 84>>) \o <<4, 2>> \o WriteInt(60) \o WriteString(<<>>)
  BY <1>1, <1>2, <1>3, BytesJoined, Zenon
<1>5. SerializeConnect = Serialize(16, r)
  <2>1. CONNECT * 16 = 16
    BY DEF CONNECT
  <2> QED BY <1>4, <2>1, Zenon DEF SerializeConnect
<1>6. 16 \in PlainTypes
  BY DEF PlainTypes
<1> QED BY <1>5, <1>6, PlainIs, Zenon

(* The packet of a message.                                                *)
LEMMA PublishIs ==
  ASSUME NEW t \in Seq(Bytes), NEW y \in Seq(Bytes), Len(t) \in TopicLengths
  PROVE  \/ SerializePublish(t, y) = <<>>
         \/ Sent(SerializePublish(t, y), <<[topic |-> t, payload |-> y]>>)
<1>1. PICK b1 \in Bytes, b2 \in Bytes : b1 = Len(t) \div 256 /\ b2 = Len(t) % 256 /\ 256 * b1 + b2 = Len(t)
  BY TwoBytes, SMT
<1>2. WriteString(t) \o y \in Seq(Bytes)
  BY <1>1, TopicIs, SMT
<1>3. PUBLISH * 16 = 48 /\ 48 \in Bytes
  BY DEF PUBLISH, Bytes
<1>4. \/ Serialize(48, WriteString(t) \o y) = <<>>
      \/ /\ Len(WriteString(t) \o y) \in Lengths
         /\ Serialize(48, WriteString(t) \o y) = Made(48, WriteString(t) \o y)
  BY <1>2, <1>3, SerializeIs, Zenon
<1>5. SerializePublish(t, y) = Serialize(48, WriteString(t) \o y)
  BY <1>3, Zenon DEF SerializePublish
<1> QED BY ONLY <1>4, <1>5, t \in Seq(Bytes), y \in Seq(Bytes), Len(t) \in TopicLengths, Zenon
        DEF Sent, SentMessage

-----------------------------------------------------------------------------
(* What the client sends                                                   *)

(* All of a sequence, and nothing of it.                                   *)
LEMMA WholeAndNothing ==
  ASSUME NEW S, NEW s \in Seq(S)
  PROVE  SubSeq(s, 1, Len(s)) = s /\ SubSeq(s, 1, 0) = <<>> /\ s \o <<>> = s
<1>1. PICK l \in Nat : l = Len(s)
  OBVIOUS
<1>2. SubSeq(s, 1, l) = s
  BY <1>1
<1>3. SubSeq(s, 1, 0) = <<>>
  OBVIOUS
<1>4. s \o <<>> = s
  <2>1. s \o <<>> \in Seq(S) /\ Len(s \o <<>>) = l /\ \A i \in 1 .. l : (s \o <<>>)[i] = s[i]
    BY <1>1
  <2> QED BY <1>1, <2>1, SameSeq, SMT
<1> QED BY <1>1, <1>2, <1>3, <1>4

(* At most all of a packet leaves.                                         *)
LEMMA TakenIs ==
  ASSUME NEW p, Len(p) \in Nat, NEW n \in Taken(p)
  PROVE  n \in 0 .. Len(p)
BY DEF Taken

(* What sendPacket() leaves on the wire is packets still, unless it tore   *)
(* one.                                                                    *)
LEMMA Sending ==
  ASSUME cut \in BOOLEAN, ~cut => Wire(wire, underway),
         NEW p, NEW s, (p = <<>> /\ s = <<>>) \/ Sent(p, s),
         NEW n \in Taken(p), SendPacket(p, n),
         ~cut => underway' = IF n = Len(p) /\ tcp = "open" THEN underway \o s ELSE underway
  PROVE  cut' \in BOOLEAN /\ (cut => cut') /\ (~cut' => Wire(wire', underway'))
<1>1. p \in Seq(Bytes) /\ s \in Seq(Contents) /\ Len(p) \in Nat
  <2>1. <<>> \in Seq(Bytes) /\ <<>> \in Seq(Contents) /\ Len(<<>>) = 0
    OBVIOUS
  <2> QED BY <2>1, SentType
<1>2. n \in 0 .. Len(p)
  BY <1>1, TakenIs
<1>3. cut' = (cut \/ n \in 1 .. Len(p) - 1)
  BY DEF SendPacket
<1>4. wire' = IF tcp = "open" THEN wire \o SubSeq(p, 1, n) ELSE wire
  BY DEF SendPacket
<1>5. ASSUME ~cut'
      PROVE  Wire(wire', underway')
  <2>1. ~cut /\ Wire(wire, underway) /\ (n = 0 \/ n = Len(p))
    <3>1. ~cut /\ n \notin 1 .. Len(p) - 1
      BY <1>3, <1>5
    <3> QED BY <1>1, <1>2, <3>1
  <2>2. wire \in Seq(Bytes) /\ underway \in Seq(Contents)
    BY <2>1 DEF Wire
  <2>3. wire \o <<>> = wire /\ underway \o <<>> = underway
    BY <2>2, WholeAndNothing
  <2>4. SubSeq(p, 1, Len(p)) = p /\ SubSeq(p, 1, 0) = <<>>
    BY <1>1, WholeAndNothing
  <2>5. CASE tcp # "open"
    BY <1>4, <2>1, <2>5
  <2>6. CASE tcp = "open" /\ n = Len(p) /\ p # <<>>
    <3>1. Sent(p, s) /\ wire' = wire \o p /\ underway' = underway \o s
      BY <1>4, <2>1, <2>4, <2>6
    <3> QED BY <2>1, <3>1, WireMore
  <2>7. CASE tcp = "open" /\ n # Len(p)
    <3>1. n = 0 /\ wire' = wire \o <<>> /\ underway' = underway
      BY <1>4, <2>1, <2>4, <2>7
    <3> QED BY <2>1, <2>3, <3>1
  <2>8. CASE tcp = "open" /\ p = <<>>
    <3>1. ~Sent(p, s) 
      <4>1. Len(<<>>) = 0
        OBVIOUS
      <4> QED BY <2>8, <4>1, SentType
    <3>2. n = 0 /\ s = <<>> /\ Len(p) = 0
      BY <1>2, <2>8, <3>1
    <3>3. wire' = wire \o <<>> /\ underway' = underway \o <<>>
      BY <1>4, <2>1, <2>4, <2>8, <3>2
    <3> QED BY <2>1, <2>3, <3>3
  <2> QED BY <2>5, <2>6, <2>7, <2>8
<1> QED BY <1>3, <1>5

(* The server takes the first packet as it was sent.                       *)
LEMMA Taking ==
  ASSUME NEW w, NEW u, Wire(w, u), NEW n \in FirstLen(w)
  PROVE  LET p == SubSeq(w, 1, n)
             r == SubSeq(w, n + 1, Len(w))
         IN  /\ p[1] # 48 => Wire(r, u)
             /\ p[1] = 48 => u # <<>> /\ Head(u) = DeserializePublish(p) /\ Wire(r, Tail(u))
<1>1. w \in Seq(Bytes) /\ u \in Seq(Contents)
  BY DEF Wire
<1>2. w # <<>>
  BY DEF FirstLen
<1>3. PICK p, s : /\ Sent(p, s) /\ At(w, u, 0, 0, p, s)
                  /\ Wire(SubSeq(w, Len(p) + 1, Len(w)), SubSeq(u, Len(s) + 1, Len(u)))
  BY <1>2, WireFirst
<1>4. /\ p \in Seq(Bytes) /\ Len(p) \in Nat /\ Len(p) >= 2
      /\ s \in Seq(Contents) /\ Len(s) \in {0, 1}
      /\ \E h : Found(p, h)
      /\ p[1] = 48 => HasTopic(p) /\ s = <<DeserializePublish(p)>>
      /\ p[1] # 48 => s = <<>>
  BY <1>3, SentType
<1>5. Len(p) <= Len(w) /\ \A j \in 1 .. Len(p) : w[j] = p[j]
  <2>1. 0 + Len(p) = Len(p) /\ \A j \in 1 .. Len(p) : 0 + j = j
    BY <1>4
  <2> QED BY <1>3, <2>1 DEF At
<1>6. FirstLen(w) = {Len(p)} /\ SubSeq(w, 1, Len(p)) = p
  BY <1>1, <1>4, <1>5 DEF Found
<1>7. n = Len(p) /\ SubSeq(w, 1, n) = p
  BY <1>6
<1>8. ASSUME p[1] # 48
      PROVE  Wire(SubSeq(w, n + 1, Len(w)), u)
  <2>1. s = <<>> /\ Len(s) = 0 /\ Len(s) + 1 = 1
    BY <1>4, <1>8
  <2>2. SubSeq(u, 1, Len(u)) = u
    BY <1>1, WholeAndNothing
  <2> QED BY <1>3, <1>7, <2>1, <2>2
<1>9. ASSUME p[1] = 48
      PROVE  /\ u # <<>> /\ Head(u) = DeserializePublish(p)
             /\ Wire(SubSeq(w, n + 1, Len(w)), Tail(u))
  <2>1. PICK m : s = <<m>> /\ m = DeserializePublish(p)
    BY <1>4, <1>9
  <2>2. Len(s) = 1 /\ s[1] = m
    BY <2>1
  <2>3. 1 <= Len(u) /\ u[1] = m
    <3>1. 0 + Len(s) <= Len(u) /\ \A i \in 1 .. Len(s) : u[0 + i] = s[i]
      BY <1>3 DEF At
    <3> QED BY <2>2, <3>1
  <2>4. u # <<>> /\ Head(u) = m
    BY <1>1, <2>3
  <2>5. SubSeq(u, Len(s) + 1, Len(u)) = Tail(u)
    <3>1. Len(s) + 1 = 2
      BY <2>2
    <3>2. SubSeq(u, 2, Len(u)) = Tail(u)
      BY <1>1, <2>3
    <3> QED BY <3>1, <3>2
  <2> QED BY <1>3, <1>7, <2>1, <2>4, <2>5
<1> QED BY <1>7, <1>8, <1>9

(* The call that is made, and the message it is about.                     *)
MessagesInv ==
  /\ msg \in 0 .. Len(Topic)
  /\ job \in {"none", "start", "first", "second"}
  /\ job \in {"first", "second"} => msg > 0
  /\ pc = "started" => job = "start"

(* Unless one was torn, what is on the wire is the packets that were sent, *)
(* with the messages in them in their order.                               *)
WireInv ==
  /\ cut \in BOOLEAN
  /\ ~cut => Wire(wire, underway)
  /\ \E S : received \in Seq(S)

Inv == SessionInv /\ MessagesInv /\ WireInv

(* Where connect() returns to.                                             *)
LEMMA Returning ==
  ASSUME NEW connected \in BOOLEAN, job \in {"start", "first", "second"}, Return(connected)
  PROVE  (pc' = "started" => job = "start") /\ (pc' # "idle" => pc' \in {"started", "publish"})
<1>1. CASE job = "start"
  BY <1>1 DEF Return
<1>2. CASE job = "first"
  BY <1>2 DEF Return
<1>3. CASE job = "second"
  BY <1>3 DEF Return
<1> QED BY <1>1, <1>2, <1>3

(* Every step keeps a message with the call it is part of.                 *)
LEMMA MessagesStep ==
  ASSUME SessionInv, MessagesInv, [Next]_vars
  PROVE  MessagesInv'
<1>0. Len(Topic) \in Nat /\ CallInv
  BY MessagesAssumption DEF SessionInv
<1>1. CASE Announce
  BY <1>0, <1>1 DEF Announce, SendMessage, MessagesInv
<1>2. CASE Run
  BY <1>2 DEF Run, Others, MessagesInv
<1>3. CASE Connect
  <2>1. UNCHANGED <<msg, job>> /\ (pc' = "sendConnect" \/ Return(FALSE)) /\ pc = "connect"
    BY <1>3 DEF Connect, Others
  <2> QED BY <1>0, <2>1, Returning DEF MessagesInv, CallInv
<1>4. CASE StartSession
  <2>1. UNCHANGED <<msg, job>> /\ (pc' = "wait" \/ Return(FALSE)) /\ pc = "sendConnect"
    BY <1>4 DEF StartSession, SendConnect, Others
  <2> QED BY <1>0, <2>1, Returning DEF MessagesInv, CallInv
<1>5. CASE AwaitSession
  <2>1. UNCHANGED <<msg, job>> /\ (pc' = pc \/ Return(TRUE) \/ Return(FALSE)) /\ pc = "wait"
    BY <1>5 DEF AwaitSession, Wait, Others
  <2> QED BY <1>0, <2>1, Returning DEF MessagesInv, CallInv
<1>6. CASE PublishMessage
  <2>1. UNCHANGED msg /\ (Done \/ TryAgain) /\ pc = "publish"
    BY <1>6 DEF PublishMessage, Publish, Others
  <2> QED BY <1>0, <2>1 DEF Done, TryAgain, MessagesInv, CallInv
<1>7. CASE Goodbye \/ Cycle
  BY <1>7 DEF Goodbye, Disconnect, Cycle, Yield, Keepalive, Others, MessagesInv
<1>8. CASE ServerServes
  BY <1>8 DEF ServerServes, Serve, MessagesInv
<1>9. CASE Fault
  BY <1>9 DEF Fault, NetworkFault, Heal, Expire, Reset, Others, MessagesInv
<1>10. CASE UNCHANGED vars
  BY <1>10 DEF vars, MessagesInv
<1> QED BY <1>1, <1>2, <1>3, <1>4, <1>5, <1>6, <1>7, <1>8, <1>9, <1>10 DEF Next, Node

-----------------------------------------------------------------------------
(* The steps                                                               *)

(* What a step of the node does to what is on its way: nothing, but that a *)
(* packet may be torn; a new connection; or a message more.                *)
Nothing == underway' = underway /\ cut \in BOOLEAN /\ (cut => cut')

Anew == wire' = <<>> /\ underway' = <<>> /\ cut' = FALSE

OneMore == underway' = Append(underway, Message(msg)) /\ cut' = cut /\ Trying /\ ~Trying'

(* A new connection.                                                       *)
LEMMA AnewFits ==
  ASSUME NEW t, NewStream(t)
  PROVE  Anew /\ cut' \in BOOLEAN /\ Wire(wire', underway')
BY WireNew DEF NewStream, Anew

(* A packet without a message.                                             *)
LEMMA SendingPlain ==
  ASSUME WireInv, NEW p, p = <<>> \/ Sent(p, <<>>), NEW n \in Taken(p), SendPacket(p, n),
         UNCHANGED underway
  PROVE  Nothing /\ cut' \in BOOLEAN /\ (~cut' => Wire(wire', underway'))
<1>1. cut \in BOOLEAN /\ (~cut => Wire(wire, underway))
  BY DEF WireInv
<1>2. ~cut => underway \o <<>> = underway
  BY <1>1, WholeAndNothing DEF Wire
<1>3. ~cut => underway' = IF n = Len(p) /\ tcp = "open" THEN underway \o <<>> ELSE underway
  BY <1>2
<1>4. cut' \in BOOLEAN /\ (cut => cut') /\ (~cut' => Wire(wire', underway'))
  BY <1>1, <1>3, Sending, Zenon
<1> QED BY <1>1, <1>4 DEF Nothing

(* A message that the node has got is one that can be sent.                *)
LEMMA MessageIs ==
  ASSUME MessagesInv, msg > 0
  PROVE  /\ Message(msg) \in Contents
         /\ Packet = <<>> \/ Sent(Packet, <<Message(msg)>>)
<1>1. msg \in DOMAIN Topic /\ msg \in DOMAIN Payload
  BY MessagesAssumption DEF MessagesInv
<1>2. Topic[msg] \in Seq(Bytes) /\ Payload[msg] \in Seq(Bytes)
  <2>1. Topic \in Seq(Seq(Bytes)) /\ Payload \in Seq(Seq(Bytes))
    BY MessagesAssumption DEF Bytes
  <2> QED BY <1>1, <2>1
<1>3. Len(Topic[msg]) \in TopicLengths
  <2>1. Len(Topic[msg]) \in Nat
    BY <1>2
  <2> QED BY <1>1, <2>1, MessagesAssumption DEF TopicLengths
<1>4. Packet = <<>> \/ Sent(Packet, <<[topic |-> Topic[msg], payload |-> Payload[msg]]>>)
  BY <1>2, <1>3, PublishIs, Zenon DEF Packet
<1>5. [topic |-> Topic[msg], payload |-> Payload[msg]] \in Contents
  BY <1>2 DEF Contents
<1> QED BY <1>4, <1>5 DEF Message

(* connect() sends its packet.                                             *)
LEMMA StepStartSession ==
  ASSUME WireInv, StartSession
  PROVE  Nothing /\ cut' \in BOOLEAN /\ (~cut' => Wire(wire', underway'))
<1>1. PICK n \in Taken(SerializeConnect) : SendPacket(SerializeConnect, n) /\ UNCHANGED underway
  BY Zenon DEF StartSession, SendConnect
<1> QED BY <1>1, ConnectIs, SendingPlain, Zenon

(* disconnect() sends its packet.                                          *)
LEMMA StepGoodbye ==
  ASSUME WireInv, Goodbye
  PROVE  Nothing /\ cut' \in BOOLEAN /\ (~cut' => Wire(wire', underway'))
<1>1. PICK n \in Taken(SerializeZero(DISCONNECT)) :
        SendPacket(SerializeZero(DISCONNECT), n) /\ UNCHANGED underway
  BY Zenon DEF Goodbye, Disconnect
<1> QED BY <1>1, ZeroIs, SendingPlain, Zenon

(* A cycle of yield() reads, or asks whether the server is there.          *)
LEMMA StepCycle ==
  ASSUME WireInv, Cycle
  PROVE  Nothing /\ cut' \in BOOLEAN /\ (~cut' => Wire(wire', underway'))
<1>1. CASE Yield
  <2>1. UNCHANGED <<wire, underway, cut>>
    BY <1>1 DEF Yield, Received
  <2> QED BY <2>1 DEF Nothing, WireInv
<1>2. CASE Keepalive /\ Due
  <2>1. PICK n \in Taken(SerializeZero(PINGREQ)) :
          SendPacket(SerializeZero(PINGREQ), n) /\ UNCHANGED underway
    BY <1>2, Zenon DEF Keepalive
  <2> QED BY <2>1, ZeroIs, SendingPlain, Zenon
<1>3. CASE Keepalive /\ ~Due
  <2>1. UNCHANGED <<wire, underway, cut>>
    BY <1>3 DEF Keepalive, stream
  <2> QED BY <2>1 DEF Nothing, WireInv
<1> QED BY <1>1, <1>2, <1>3 DEF Cycle

(* publish() brings its message on the wire, or leaves it.                 *)
LEMMA StepPublish ==
  ASSUME Inv, PublishMessage
  PROVE  (Nothing \/ OneMore) /\ cut' \in BOOLEAN /\ (~cut' => Wire(wire', underway'))
<1>1. msg > 0 /\ cut \in BOOLEAN /\ (~cut => Wire(wire, underway)) /\ Trying
  BY DEF Inv, SessionInv, CallInv, MessagesInv, WireInv, PublishMessage, Publish, Trying
<1>2. Message(msg) \in Contents /\ (Packet = <<>> \/ Sent(Packet, <<Message(msg)>>))
  BY <1>1, MessageIs DEF Inv
<1>3. CASE ~isconnected \/ Packet = <<>>
  <2>1. UNCHANGED <<wire, underway, cut>>
    BY <1>3 DEF PublishMessage, Publish, stream
  <2> QED BY <1>1, <2>1 DEF Nothing
<1>4. CASE ~(~isconnected \/ Packet = <<>>)
  <2>1. PICK n \in Taken(Packet) :
          /\ SendPacket(Packet, n)
          /\ underway' = IF n = Len(Packet) /\ tcp = "open" THEN Append(underway, Message(msg))
                         ELSE underway
          /\ n = Len(Packet) => Done
    BY <1>4, Zenon DEF PublishMessage, Publish
  <2>2. ~cut => Append(underway, Message(msg)) = underway \o <<Message(msg)>>
    BY <1>1 DEF Wire
  <2>3. ~cut => underway' = IF n = Len(Packet) /\ tcp = "open" THEN underway \o <<Message(msg)>>
                            ELSE underway
    BY <2>1, <2>2
  <2>4. Sent(Packet, <<Message(msg)>>)
    BY <1>2, <1>4
  <2>5. cut' \in BOOLEAN /\ (cut => cut') /\ (~cut' => Wire(wire', underway'))
    BY <1>1, <2>1, <2>3, <2>4, Sending, Zenon
  <2>6. CASE n = Len(Packet) /\ tcp = "open"
    <3>1. ~Trying'
      BY <2>1, <2>6 DEF Done, Trying
    <3>2. cut' = cut
      <4>1. Len(Packet) \in Nat
        BY <2>4, SentType
      <4>2. n \notin 1 .. Len(Packet) - 1
        BY <2>6, <4>1
      <4> QED BY <1>1, <2>1, <4>2 DEF SendPacket
    <3>3. OneMore
      BY <1>1, <2>1, <2>6, <3>1, <3>2 DEF OneMore
    <3> QED BY <2>5, <3>3
  <2>7. CASE ~(n = Len(Packet) /\ tcp = "open")
    BY <1>1, <2>1, <2>5, <2>7 DEF Nothing
  <2> QED BY <2>6, <2>7
<1> QED BY <1>3, <1>4

(* Every step but those that announce or receive a message.                *)
Shape ==
  /\ (Nothing \/ Anew \/ OneMore)
  /\ UNCHANGED <<msg, received>> /\ (Trying' => Trying)
  /\ cut' \in BOOLEAN /\ (~cut' => Wire(wire', underway'))

(* A step that sends nothing.                                              *)
LEMMA UnchangedStream ==
  ASSUME WireInv, UNCHANGED stream
  PROVE  Nothing /\ cut' \in BOOLEAN /\ (~cut' => Wire(wire', underway'))
<1>1. UNCHANGED <<wire, underway, cut>>
  BY DEF stream
<1> QED BY <1>1 DEF Nothing, WireInv

(* The steps of the node.                                                  *)
LEMMA NodeShape ==
  ASSUME Inv, Node
  PROVE  Shape
<1>0. WireInv /\ CallInv
  BY DEF Inv, SessionInv
<1>1. CASE Connect
  <2>1. (UNCHANGED stream \/ \E t : NewStream(t)) /\ UNCHANGED <<msg, received>> /\ (Trying' => Trying)
    BY <1>1 DEF Connect, Others, Trying
  <2> QED BY <1>0, <2>1, UnchangedStream, AnewFits DEF Shape
<1>2. CASE StartSession
  <2>1. UNCHANGED <<msg, received>> /\ (Trying' => Trying)
    BY <1>2 DEF StartSession, SendConnect, Others, Trying
  <2> QED BY <1>0, <1>2, <2>1, StepStartSession DEF Shape
<1>3. CASE AwaitSession
  <2>1. UNCHANGED <<msg, received>> /\ (Trying' => Trying)
    BY <1>3 DEF AwaitSession, Wait, Others, Trying
  <2>2. UNCHANGED <<wire, underway, cut>>
    BY <1>3 DEF AwaitSession, Wait, stream, Received
  <2>3. Nothing /\ cut' \in BOOLEAN /\ (~cut' => Wire(wire', underway'))
    BY <1>0, <2>2 DEF Nothing, WireInv
  <2> QED BY <2>1, <2>3 DEF Shape
<1>4. CASE PublishMessage
  <2>1. UNCHANGED <<msg, received>> /\ Trying
    BY <1>0, <1>4 DEF PublishMessage, Publish, Others, Trying, CallInv
  <2> QED BY <1>4, <2>1, StepPublish DEF Shape
<1>5. CASE Goodbye
  <2>1. UNCHANGED <<msg, received>> /\ (Trying' => Trying)
    BY <1>5 DEF Goodbye, Disconnect, Others, Trying
  <2> QED BY <1>0, <1>5, <2>1, StepGoodbye DEF Shape
<1>6. CASE Cycle
  <2>1. UNCHANGED <<msg, received>> /\ (Trying' => Trying)
    BY <1>6 DEF Cycle, Yield, Keepalive, Others, Trying
  <2> QED BY <1>0, <1>6, <2>1, StepCycle DEF Shape
<1> QED BY <1>1, <1>2, <1>3, <1>4, <1>5, <1>6 DEF Node

(* What happens between and around them.                                   *)
LEMMA OtherShape ==
  ASSUME Inv, Run \/ Fault \/ UNCHANGED vars
  PROVE  Shape
<1>0. WireInv
  BY DEF Inv
<1>1. CASE Run \/ UNCHANGED vars
  <2>1. UNCHANGED <<msg, received>> /\ (Trying' => Trying) /\ UNCHANGED stream
    BY <1>1 DEF Run, Others, Trying, vars
  <2> QED BY <1>0, <2>1, UnchangedStream DEF Shape
<1>2. CASE NetworkFault /\ UNCHANGED job /\ Others
  <2>1. (UNCHANGED stream \/ \E t : NewStream(t)) /\ UNCHANGED <<msg, received>> /\ (Trying' => Trying)
    BY <1>2 DEF NetworkFault, LinkChanges, AddressChanges, Break, Others, Trying
  <2> QED BY <1>0, <2>1, UnchangedStream, AnewFits DEF Shape
<1>3. CASE (Heal \/ Expire) /\ UNCHANGED job /\ Others
  <2>1. UNCHANGED stream /\ UNCHANGED <<msg, received>> /\ (Trying' => Trying)
    BY <1>3 DEF Heal, Expire, Others, Trying
  <2> QED BY <1>0, <2>1, UnchangedStream DEF Shape
<1>4. CASE Reset
  <2>1. (\E t : NewStream(t)) /\ UNCHANGED <<msg, received>> /\ (Trying' => Trying)
    BY <1>4 DEF Reset, Trying
  <2> QED BY <2>1, AnewFits DEF Shape
<1> QED BY <1>1, <1>2, <1>3, <1>4 DEF Fault

(* The server takes a packet.                                              *)
TakesFirst ==
  /\ ~cut => underway # <<>> /\ received' = Append(received, Head(underway)) /\ underway' = Tail(underway)
  /\ \E x : received' = Append(received, x)
  /\ cut' = cut

(* Its message is the first of those on the wire, unless one was torn.     *)
LEMMA ServeShape ==
  ASSUME Inv, ServerServes
  PROVE  /\ UNCHANGED <<msg, Trying>>
         /\ cut' \in BOOLEAN /\ (~cut' => Wire(wire', underway'))
         /\ \/ TakesFirst
            \/ UNCHANGED received /\ (Nothing \/ Anew)
<1>0. cut \in BOOLEAN /\ (~cut => Wire(wire, underway))
  BY DEF Inv, WireInv
<1>1. UNCHANGED <<msg, Trying>>
  BY DEF ServerServes, Serve, Trying
<1> DEFINE P(n) == SubSeq(wire, 1, n)
           R(n) == SubSeq(wire, n + 1, Len(wire))
<1>2. PICK n \in FirstLen(wire) :
        \/ /\ P(n)[1] = PUBLISH * 16 /\ wire' = R(n) /\ UNCHANGED cut
           /\ received' = Append(received, DeserializePublish(P(n)))
           /\ underway' = IF underway = <<>> THEN <<>> ELSE Tail(underway)
        \/ /\ P(n)[1] = CONNECT * 16 \/ P(n)[1] = PINGREQ * 16
           /\ wire' = R(n) /\ UNCHANGED <<cut, underway, received>>
        \/ NewStream("broken") /\ UNCHANGED received
  BY DEF ServerServes, Serve, Answer
<1>3. ~cut => /\ P(n)[1] # 48 => Wire(R(n), underway)
              /\ P(n)[1] = 48 => /\ underway # <<>> /\ Head(underway) = DeserializePublish(P(n))
                                 /\ Wire(R(n), Tail(underway))
  BY <1>0, Taking
<1>4. PUBLISH * 16 = 48 /\ CONNECT * 16 # 48 /\ PINGREQ * 16 # 48
  BY DEF PUBLISH, CONNECT, PINGREQ
<1> HIDE DEF P, R
<1>5. CASE /\ P(n)[1] = PUBLISH * 16 /\ wire' = R(n) /\ UNCHANGED cut
           /\ received' = Append(received, DeserializePublish(P(n)))
           /\ underway' = IF underway = <<>> THEN <<>> ELSE Tail(underway)
  <2>1. \E x : received' = Append(received, x)
    BY <1>5
  <2>2. ~cut => /\ underway # <<>> /\ received' = Append(received, Head(underway))
                /\ underway' = Tail(underway) /\ Wire(wire', underway')
    BY <1>3, <1>4, <1>5
  <2>3. TakesFirst
    BY <1>5, <2>1, <2>2 DEF TakesFirst
  <2> QED BY <1>0, <1>1, <1>5, <2>2, <2>3
<1>6. CASE /\ P(n)[1] = CONNECT * 16 \/ P(n)[1] = PINGREQ * 16
           /\ wire' = R(n) /\ UNCHANGED <<cut, underway, received>>
  <2>1. Nothing
    BY <1>0, <1>6 DEF Nothing
  <2>2. ~cut => Wire(wire', underway')
    BY <1>3, <1>4, <1>6
  <2> QED BY <1>0, <1>1, <1>6, <2>1, <2>2
<1>7. CASE NewStream("broken") /\ UNCHANGED received
  BY <1>1, <1>7, AnewFits
<1> QED BY <1>2, <1>5, <1>6, <1>7

(* Every step leaves packets on the wire, unless it tears one.             *)
LEMMA WireStep ==
  ASSUME Inv, [Next]_vars
  PROVE  WireInv'
<1>0. WireInv
  BY DEF Inv
<1>1. PICK S : received \in Seq(S)
  BY <1>0 DEF WireInv
<1>2. CASE UNCHANGED received /\ cut' \in BOOLEAN /\ (~cut' => Wire(wire', underway'))
  BY <1>1, <1>2 DEF WireInv
<1>3. CASE Announce
  <2>1. UNCHANGED stream /\ UNCHANGED received
    BY <1>3 DEF Announce
  <2> QED BY <1>0, <1>2, <2>1, UnchangedStream
<1>4. CASE Node \/ Run \/ Fault \/ UNCHANGED vars
  BY <1>2, <1>4, NodeShape, OtherShape DEF Shape
<1>5. CASE ServerServes
  <2>1. cut' \in BOOLEAN /\ (~cut' => Wire(wire', underway'))
    BY <1>5, ServeShape
  <2>2. UNCHANGED received \/ \E x : received' = Append(received, x)
    BY <1>5, ServeShape DEF TakesFirst
  <2>3. CASE \E x : received' = Append(received, x)
    <3>1. PICK x : received' = Append(received, x)
      BY <2>3
    <3>2. received \in Seq(S \union {x})
      BY <1>1
    <3>3. received' \in Seq(S \union {x})
      BY <3>1, <3>2
    <3> QED BY <2>1, <3>3 DEF WireInv
  <2> QED BY <1>2, <2>1, <2>2, <2>3
<1> QED BY <1>3, <1>4, <1>5 DEF Next

(* It begins with all of this.                                             *)
LEMMA InvInit == Init => Inv
<1> SUFFICES ASSUME Init
             PROVE  Inv
  OBVIOUS
<1>1. MessagesInv
  BY MessagesAssumption DEF Init, MessagesInv
<1>2. WireInv
  <2>1. wire = <<>> /\ underway = <<>> /\ cut = FALSE /\ received = <<>>
    BY DEF Init, ClientInit
  <2>2. received \in Seq({})
    BY <2>1
  <2> QED BY <2>1, <2>2, WireNew DEF WireInv
<1> QED BY <1>1, <1>2, SessionInit DEF Inv

(* Every step keeps it.                                                    *)
LEMMA InvStep == Inv /\ [Next]_vars => Inv'
BY SessionStep, MessagesStep, WireStep DEF Inv

-----------------------------------------------------------------------------

(* What is left of a queue, in its order.                                  *)
Remains(q, r) ==
  \E at \in [DOMAIN r -> DOMAIN q] :
    /\ \A j, k \in DOMAIN at : j < k => at[j] < at[k]
    /\ \A k \in DOMAIN at : r[k] = q[at[k]]

(* The first part of a queue.                                              *)
LEMMA FirstPartRemains ==
  ASSUME NEW S, NEW a \in Seq(S), NEW b \in Seq(S)
  PROVE  Remains(a \o b, a)
<1>1. PICK l \in Nat, q \in Seq(S) : l = Len(a) /\ q = a \o b /\ Len(q) >= l /\ \A i \in 1 .. l : q[i] = a[i]
  <2>1. a \o b \in Seq(S) /\ Len(a \o b) = Len(a) + Len(b) /\ \A i \in 1 .. Len(a) : (a \o b)[i] = a[i]
    BY Joined, SMT
  <2>2. Len(a) \in Nat /\ Len(b) \in Nat /\ Len(a) + Len(b) >= Len(a)
    OBVIOUS
  <2> QED BY <2>1, <2>2
<1> DEFINE at == [k \in 1 .. l |-> k]
<1>2. DOMAIN a = 1 .. l /\ DOMAIN q = 1 .. Len(q)
  BY <1>1
<1>3. at \in [DOMAIN a -> DOMAIN q]
  <2>1. \A k \in 1 .. l : k \in 1 .. Len(q)
    BY <1>1
  <2> QED BY <1>2, <2>1
<1>4. \A j, k \in DOMAIN at : j < k => at[j] < at[k]
  OBVIOUS
<1>5. \A k \in DOMAIN at : a[k] = q[at[k]]
  BY <1>1
<1> HIDE DEF at
<1> QED BY <1>1, <1>3, <1>4, <1>5, Zenon DEF Remains

(* The second part.                                                        *)
LEMMA SecondPartRemains ==
  ASSUME NEW S, NEW a \in Seq(S), NEW b \in Seq(S)
  PROVE  Remains(a \o b, b)
<1>1. PICK l \in Nat, m \in Nat, q \in Seq(S) :
        /\ l = Len(a) /\ m = Len(b) /\ q = a \o b /\ Len(q) = l + m
        /\ \A i \in 1 .. m : q[l + i] = b[i]
  <2>1. a \o b \in Seq(S) /\ Len(a \o b) = Len(a) + Len(b) /\ \A i \in 1 .. Len(b) : (a \o b)[Len(a) + i] = b[i]
    BY Joined, SMT
  <2>2. Len(a) \in Nat /\ Len(b) \in Nat
    OBVIOUS
  <2> QED BY <2>1, <2>2
<1> DEFINE at == [k \in 1 .. m |-> l + k]
<1>2. DOMAIN b = 1 .. m /\ DOMAIN q = 1 .. l + m
  BY <1>1
<1>3. at \in [DOMAIN b -> DOMAIN q]
  <2>1. \A k \in 1 .. m : l + k \in 1 .. l + m
    OBVIOUS
  <2> QED BY <1>2, <2>1
<1>4. \A j, k \in DOMAIN at : j < k => at[j] < at[k]
  OBVIOUS
<1>5. \A k \in DOMAIN at : b[k] = q[at[k]]
  BY <1>1
<1> HIDE DEF at
<1> QED BY <1>1, <1>3, <1>4, <1>5, Zenon DEF Remains

(* Either part, both, or nothing.                                          *)
LEMMA PartsRemain ==
  ASSUME NEW S, NEW a \in Seq(S), NEW b \in Seq(S), NEW c \in {a, <<>>}, NEW d \in {b, <<>>}
  PROVE  Remains(a \o b, c \o d)
<1>1. a \o b \in Seq(S) /\ <<>> \in Seq(S)
  OBVIOUS
<1>2. (a \o b) \o <<>> = a \o b /\ a \o <<>> = a /\ <<>> \o <<>> = <<>>
  BY <1>1, WholeAndNothing
<1>3. <<>> \o b = b /\ <<>> \o (a \o b) = a \o b
  OBVIOUS
<1>4. CASE c = a /\ d = b
  <2>1. Remains((a \o b) \o <<>>, a \o b)
    BY <1>1, FirstPartRemains
  <2> QED BY <1>2, <1>4, <2>1
<1>5. CASE c = a /\ d = <<>>
  BY <1>2, <1>5, FirstPartRemains
<1>6. CASE c = <<>> /\ d = b
  BY <1>3, <1>6, SecondPartRemains
<1>7. CASE c = <<>> /\ d = <<>>
  <2>1. Remains(<<>> \o (a \o b), <<>>)
    BY <1>1, FirstPartRemains
  <2> QED BY <1>2, <1>3, <1>7, <2>1
<1> QED BY <1>4, <1>5, <1>6, <1>7

(* The queue of the promise: what is on the wire, and what is being tried. *)
Under == IF cut THEN <<>> ELSE underway

Tried == IF Trying THEN <<Message(msg)>> ELSE <<>>

Queue == Under \o Tried

(* It is a queue of messages.                                              *)
LEMMA QueueType ==
  ASSUME Inv
  PROVE  Under \in Seq(Contents) /\ Tried \in Seq(Contents)
<1>1. ~cut => underway \in Seq(Contents)
  BY DEF Inv, WireInv, Wire
<1>2. Trying => Message(msg) \in Contents
  BY MessageIs DEF Inv, MessagesInv, Trying
<1> QED BY <1>1, <1>2 DEF Under, Tried

(* A queue that lost something is what the promise allows.                 *)
LEMMA LessIs ==
  ASSUME Remains(Queue, Queue'), UNCHANGED msg
  PROVE  Promise!Less
BY DEF Promise!Less, Remains, Queue, Under, Tried

(* A message is tried until it is given up.                                *)
LEMMA TriedLess ==
  ASSUME UNCHANGED msg, Trying' => Trying
  PROVE  Tried' \in {Tried, <<>>}
BY DEF Tried, Message

(* The node announces a message.                                           *)
LEMMA AnnounceKept ==
  ASSUME Inv, Announce
  PROVE  Promise!Announce
<1>1. UNCHANGED <<underway, cut, received>> /\ msg' = msg + 1 /\ ~Trying
  BY DEF Announce, stream, Inv, MessagesInv, Trying
<1>2. Under' = Under /\ Tried = <<>>
  BY <1>1 DEF Under, Tried
<1>3. Under \in Seq(Contents)
  BY QueueType
<1>4. Queue = Under
  BY <1>2, <1>3, WholeAndNothing DEF Queue
<1>5. Queue' = Queue \/ (Queue' # <<>> /\ Front(Queue') = Queue)
  <2>1. CASE Trying'
    <3>1. PICK m : Queue' = Under \o <<m>>
      BY <1>2, <2>1 DEF Queue, Tried
    <3>2. Under \in Seq(Contents \union {m})
      BY <1>3
    <3>3. Under \o <<m>> # <<>> /\ Front(Under \o <<m>>) = Under
      <4>1. PICK l \in Nat : l = Len(Under)
        BY <3>2
      <4>2. /\ Under \o <<m>> \in Seq(Contents \union {m}) /\ Len(Under \o <<m>>) = l + 1
            /\ \A i \in 1 .. l : (Under \o <<m>>)[i] = Under[i]
        BY <3>2, <4>1
      <4>3. Front(Under \o <<m>>) = SubSeq(Under \o <<m>>, 1, l)
        BY <4>2 DEF Front
      <4>4. SubSeq(Under \o <<m>>, 1, l) = Under
        BY <3>2, <4>1, <4>2
      <4> QED BY <4>2, <4>3, <4>4
    <3> QED BY <1>4, <3>1, <3>3
  <2>2. CASE ~Trying'
    <3>1. Queue' = Under \o <<>>
      BY <1>2, <2>2 DEF Queue, Tried
    <3> QED BY <1>3, <1>4, <3>1, WholeAndNothing
  <2> QED BY <2>1, <2>2
<1> QED BY <1>1, <1>5 DEF Promise!Announce, Promise!Front, Front, Queue, Under, Tried

(* A step that neither announces nor receives loses messages at most.      *)
LEMMA ShapeKept ==
  ASSUME Inv, Shape
  PROVE  [Promise!AnnounceNext]_(Promise!announcements)
<1>1. UNCHANGED <<msg, received>> /\ Tried' \in {Tried, <<>>} /\ cut \in BOOLEAN /\ cut' \in BOOLEAN
  BY TriedLess DEF Shape, Inv, WireInv
<1>2. Under \in Seq(Contents) /\ Tried \in Seq(Contents)
  BY QueueType
<1>3. ASSUME Under' \in {Under, <<>>}
      PROVE  Promise!Less
  <2>1. Remains(Queue, Queue')
    BY <1>1, <1>2, <1>3, PartsRemain DEF Queue
  <2> QED BY <1>1, <2>1, LessIs
<1>4. CASE Nothing \/ Anew
  <2>1. Under' \in {Under, <<>>}
    BY <1>1, <1>4 DEF Nothing, Anew, Under
  <2> QED BY <1>1, <1>3, <2>1
       DEF Promise!AnnounceNext, Promise!Lose, Promise!Tear, Promise!Renew
<1>5. CASE OneMore
  <2>1. cut' = cut /\ Tried = <<Message(msg)>> /\ Tried' = <<>>
    BY <1>5 DEF OneMore, Tried
  <2>2. CASE cut
    <3>1. Under' \in {Under, <<>>}
      BY <2>1, <2>2 DEF Under
    <3> QED BY <1>1, <1>3, <2>1, <3>1 DEF Promise!AnnounceNext, Promise!Lose
  <2>3. CASE ~cut
    <3>1. Under = underway /\ Under' = Append(underway, Message(msg))
      BY <1>5, <2>1, <2>3 DEF OneMore, Under
    <3>2. Append(underway, Message(msg)) \o <<>> = underway \o <<Message(msg)>>
      BY <1>2, <2>1, <3>1
    <3>3. Queue' = Queue
      BY <2>1, <3>1, <3>2 DEF Queue
    <3> QED BY <1>1, <2>1, <3>3 DEF Promise!announcements, Queue, Under, Tried
  <2> QED BY <1>1, <2>2, <2>3
<1> QED BY <1>4, <1>5 DEF Shape

(* The server receives the first message of the queue.                     *)
LEMMA ServeKept ==
  ASSUME Inv, ServerServes
  PROVE  [Promise!AnnounceNext]_(Promise!announcements)
<1>1. UNCHANGED <<msg, Trying>> /\ cut' \in BOOLEAN /\ (~cut' => Wire(wire', underway'))
  BY ServeShape
<1>2. CASE UNCHANGED received /\ (Nothing \/ Anew)
  <2>1. Shape
    BY <1>1, <1>2 DEF Shape
  <2> QED BY <2>1, ShapeKept
<1>3. CASE TakesFirst
  <2>1. Tried' = Tried /\ cut' = cut /\ cut \in BOOLEAN
    BY <1>1, <1>3 DEF TakesFirst, Tried, Message, Inv, WireInv
  <2>2. Under \in Seq(Contents) /\ Tried \in Seq(Contents)
    BY QueueType
  <2>3. CASE cut
    <3>1. Under' = Under
      BY <2>1, <2>3 DEF Under
    <3>2. Remains(Queue, Queue')
      BY <2>1, <2>2, <3>1, PartsRemain DEF Queue
    <3>3. Promise!Less
      BY <1>1, <3>2, LessIs
    <3>4. Front(received') = received
      <4>1. PICK S, x : received \in Seq(S) /\ received' = Append(received, x)
        BY <1>3 DEF Inv, WireInv, TakesFirst
      <4>2. received \in Seq(S \union {x})
        BY <4>1
      <4>3. PICK l \in Nat : l = Len(received)
        BY <4>2
      <4>4. /\ Append(received, x) \in Seq(S \union {x}) /\ Len(Append(received, x)) = l + 1
        BY <4>2, <4>3
      <4>5. Front(Append(received, x)) = SubSeq(Append(received, x), 1, l)
        BY <4>4 DEF Front
      <4>6. SubSeq(Append(received, x), 1, l) = received
        BY <4>2, <4>3, <4>4
      <4> QED BY <4>1, <4>5, <4>6
    <3> QED BY <2>1, <2>3, <3>3, <3>4 DEF Promise!AnnounceNext, Promise!Garbled, Promise!Front, Front
  <2>4. CASE ~cut
    <3>1. /\ underway # <<>> /\ received' = Append(received, Head(underway))
          /\ underway' = Tail(underway) /\ Under = underway /\ Under' = Tail(underway)
      BY <1>3, <2>1, <2>4 DEF TakesFirst, Under
    <3>2. /\ Under \o Tried # <<>> /\ Head(Under \o Tried) = Head(Under)
          /\ Tail(Under \o Tried) = Tail(Under) \o Tried
      <4> HIDE DEF Under, Tried
      <4> QED BY <2>2, <3>1
    <3>3. Queue # <<>> /\ received' = Append(received, Head(Queue)) /\ Queue' = Tail(Queue)
      BY <2>1, <3>1, <3>2 DEF Queue
    <3> QED BY <1>1, <2>1, <3>3 DEF Promise!AnnounceNext, Promise!Take, Queue, Under, Tried
  <2> QED BY <2>1, <2>3, <2>4
<1> QED BY <1>2, <1>3, ServeShape

(***************************************************************************)
(* Messages arrive in the order in which they were announced, each once at *)
(* most and as it was announced, over breaking connections, second tries   *)
(* and resets, for every list of messages and every length of the buffer:  *)
(* what the client has sent is cut by the server into the packets it was   *)
(* made of, as long as none was torn on the connection.                    *)
(***************************************************************************)
THEOREM MessagesKeepOrder == Spec => KeepsAnnouncePromise
<1>1. Init => Promise!Start
  <2> SUFFICES ASSUME Init
               PROVE  Promise!Start
    OBVIOUS
  <2>1. msg = 0 /\ received = <<>> /\ cut = FALSE /\ underway = <<>> /\ ~Trying
    BY DEF Init, ClientInit, Trying
  <2>2. <<>> \o <<>> = <<>>
    OBVIOUS
  <2> QED BY <2>1, <2>2 DEF Promise!Start
<1>2. Inv /\ [Next]_vars => [Promise!AnnounceNext]_(Promise!announcements)
  <2> SUFFICES ASSUME Inv, [Next]_vars
               PROVE  [Promise!AnnounceNext]_(Promise!announcements)
    OBVIOUS
  <2>1. CASE Announce
    BY <2>1, AnnounceKept DEF Promise!AnnounceNext
  <2>2. CASE ServerServes
    BY <2>2, ServeKept
  <2>3. CASE Node \/ Run \/ Fault \/ UNCHANGED vars
    BY <2>3, NodeShape, OtherShape, ShapeKept
  <2> QED BY <2>1, <2>2, <2>3 DEF Next
<1> QED BY <1>1, <1>2, InvInit, InvStep, PTL DEF Spec, KeepsAnnouncePromise, Promise!AnnounceSpec

=============================================================================
