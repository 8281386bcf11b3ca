-------------------------- MODULE LineEditorProofs --------------------------
(***************************************************************************)
(* The history of the line editor is a chain of whole lines, the terminal  *)
(* shows the line, and the editor keeps what EditorPromise says, for every *)
(* length of the line, the ring and the prompt, whatever the commands are  *)
(* and whatever keys come.                                                 *)
(***************************************************************************)
EXTENDS LineEditor, TLAPS, WellFoundedInduction, FiniteSetTheorems, SequenceTheorems,
        FunctionTheorems

(* Numbers have a least one.                                               *)
LEMMA LeastNat ==
  ASSUME NEW S, S \subseteq Nat, S # {}
  PROVE  \E x \in S : \A y \in S : x <= y
<1>1. \A x, y \in Nat : <<x, y>> \in OpToRel(<, Nat) <=> x < y
  BY Zenon DEF OpToRel
<1> DEFINE R == OpToRel(<, Nat)
<1>2. PICK x \in S : \A y \in S : ~(<<y, x>> \in R)
  BY NatLessThanWellFounded, WFMin
<1>3. \A y \in S : ~(y < x)
  BY <1>1, <1>2, Zenon
<1> QED BY <1>3

(* A walk up to n, as a function that is defined by its own values.        *)
WalksTo(h, n, f) == f = [i \in 0 .. n |-> IF i = 0 THEN h.begin ELSE Behind(h, f[i - 1])]

(* There is one for every n.                                               *)
LEMMA WalkExists ==
  ASSUME NEW h
  PROVE  \A n \in Nat : \E f : WalksTo(h, n, f)
<1> DEFINE S == {n \in Nat : ~\E f : WalksTo(h, n, f)}
<1>1. CASE S = {}
  BY <1>1
<1>2. CASE S # {}
  <2>1. PICK n \in S : \A m \in S : n <= m
    BY <1>2, LeastNat
  <2>2. CASE n = 0
    <3> DEFINE f == [i \in 0 .. 0 |-> h.begin]
    <3>1. WalksTo(h, 0, f)
      BY DEF WalksTo
    <3> QED BY <2>1, <2>2, <3>1
  <2>3. CASE n # 0
    <3>1. n - 1 \in Nat /\ n - 1 \notin S
      BY <2>1, <2>3
    <3>2. PICK f : WalksTo(h, n - 1, f)
      BY <3>1
    <3> DEFINE g == [i \in 0 .. n |-> IF i = n THEN Behind(h, f[n - 1]) ELSE f[i]]
    <3>3. \A i \in 0 .. n - 1 : g[i] = f[i] /\ f[i] = IF i = 0 THEN h.begin ELSE Behind(h, f[i - 1])
      <4>1. \A i \in 0 .. n - 1 : i \in 0 .. n /\ i # n
        BY <2>1
      <4>2. \A i \in 0 .. n - 1 : f[i] = IF i = 0 THEN h.begin ELSE Behind(h, f[i - 1])
        BY <3>2, Zenon DEF WalksTo
      <4> QED BY <4>1, <4>2, Zenon
    <3>4. \A i \in 0 .. n : g[i] = IF i = 0 THEN h.begin ELSE Behind(h, g[i - 1])
      <4> SUFFICES ASSUME NEW i \in 0 .. n
                   PROVE  g[i] = IF i = 0 THEN h.begin ELSE Behind(h, g[i - 1])
        OBVIOUS
      <4> HIDE DEF g
      <4>1. CASE i = n
        <5>1. g[n] = Behind(h, f[n - 1]) /\ n - 1 \in 0 .. n - 1
          BY <2>1, <2>3 DEF g
        <5> QED BY <2>3, <3>3, <4>1, <5>1
      <4>2. CASE i # n
        <5>1. i \in 0 .. n - 1 /\ (i # 0 => i - 1 \in 0 .. n - 1)
          BY <2>1, <4>2
        <5> QED BY <3>3, <5>1
      <4> QED BY <4>1, <4>2
    <3>5. WalksTo(h, n, g)
      <4>1. g = [i \in 0 .. n |-> g[i]]
        OBVIOUS
      <4> HIDE DEF g
      <4> QED BY <3>4, <4>1, Zenon DEF WalksTo
    <3> QED BY <2>1, <3>5
  <2> QED BY <2>2, <2>3
<1> QED BY <1>1, <1>2

(* The walk goes from one record to the one behind.                        *)
LEMMA WalkIs ==
  ASSUME NEW h
  PROVE  /\ Walk(h)[0] = h.begin
         /\ \A i \in 0 .. RingLen : i # 0 => Walk(h)[i] = Behind(h, Walk(h)[i - 1])
<1>1. RingLen \in Nat
  BY EditorAssumption
<1>2. WalksTo(h, RingLen, Walk(h))
  <2>1. \E f : WalksTo(h, RingLen, f)
    BY <1>1, WalkExists
  <2>2. Walk(h) = CHOOSE f : WalksTo(h, RingLen, f)
    BY DEF Walk, WalksTo
  <2> QED BY <2>1, <2>2
<1>3. \A i \in 0 .. RingLen : Walk(h)[i] = IF i = 0 THEN h.begin ELSE Behind(h, Walk(h)[i - 1])
  BY <1>2, Zenon DEF WalksTo
<1> QED BY <1>1, <1>3

-----------------------------------------------------------------------------
(* The chain of records                                                    *)

(* The beginnings of the records, the oldest first, are at distances from  *)
(* the beginning of the ring that grow by what each record takes; the last *)
(* distance is that of the end, where a zero stands.                       *)
Histories == [buf : [0 .. RingLen - 1 -> Nat], begin : 0 .. RingLen - 1, end : 0 .. RingLen - 1, cur : Nat]

At(h, x) == h.buf[Wrap(h.begin + x)]

Chain(h, n, d) ==
  /\ n \in 0 .. RingLen - 1 /\ d \in [0 .. n -> 0 .. RingLen - 1]
  /\ d[0] = 0
  /\ \A i, j \in 0 .. n : i < j => d[i] < d[j]
  /\ \A i \in 0 .. n : i <= d[i]
  /\ \A i \in 0 .. n : i < n => /\ d[i + 1] = d[i] + At(h, d[i]) + 1
                                /\ At(h, d[i]) \in 1 .. LineLen - 1
  /\ h.end = Wrap(h.begin + d[n]) /\ h.buf[h.end] = 0

(* The sizes, as the assumptions have them.                                *)
LEMMA RingIs == RingLen \in Nat /\ RingLen > 1 /\ LineLen \in Nat /\ LineLen > 0
BY EditorAssumption

(* Places in the ring.                                                     *)
LEMMA WrapIs ==
  ASSUME NEW b \in 0 .. RingLen - 1, NEW x \in 0 .. RingLen - 1
  PROVE  /\ Wrap(b + x) \in 0 .. RingLen - 1
         /\ Wrap(b + x) \in {b + x, b + x - RingLen}
BY RingIs DEF Wrap

(* Two ways round the ring are one.                                        *)
LEMMA WrapMore ==
  ASSUME NEW b \in 0 .. RingLen - 1, NEW x \in Nat, NEW y \in Nat, x + y \in 0 .. RingLen - 1
  PROVE  Wrap(Wrap(b + x) + y) = Wrap(b + (x + y))
<1>1. CASE b + x >= RingLen
  BY <1>1, RingIs DEF Wrap
<1>2. CASE b + x < RingLen
  <2>1. Wrap(b + x) = b + x
    BY <1>2, RingIs DEF Wrap
  <2>2. (b + x) + y = b + (x + y)
    BY RingIs
  <2> QED BY <2>1, <2>2
<1> QED BY <1>1, <1>2, RingIs

(* Places at different distances are different.                            *)
LEMMA WrapApart ==
  ASSUME NEW b \in 0 .. RingLen - 1, NEW x \in 0 .. RingLen - 1, NEW y \in 0 .. RingLen - 1, x # y
  PROVE  Wrap(b + x) # Wrap(b + y)
BY RingIs DEF Wrap

(* Every place of the ring is a distance away.                             *)
LEMMA WrapBack ==
  ASSUME NEW b \in 0 .. RingLen - 1, NEW p \in 0 .. RingLen - 1
  PROVE  \E x \in 0 .. RingLen - 1 : p = Wrap(b + x)
<1>1. CASE p >= b
  <2>1. p - b \in 0 .. RingLen - 1 /\ p = Wrap(b + (p - b))
    BY <1>1, RingIs DEF Wrap
  <2> QED BY <2>1
<1>2. CASE p < b
  <2>1. p - b + RingLen \in 0 .. RingLen - 1 /\ p = Wrap(b + (p - b + RingLen))
    BY <1>2, RingIs DEF Wrap
  <2> QED BY <2>1
<1> QED BY <1>1, <1>2, RingIs

(* Behind a record of the chain is the next.                               *)
LEMMA BehindIs ==
  ASSUME NEW h \in Histories, NEW n, NEW d, Chain(h, n, d), NEW k \in 0 .. n, k < n
  PROVE  /\ Behind(h, Wrap(h.begin + d[k])) = Wrap(h.begin + d[k + 1])
         /\ At(h, d[k]) \in 1 .. RingLen - 2
<1>0. RingLen \in Nat /\ n \in Nat /\ n < RingLen /\ h.begin \in 0 .. RingLen - 1 /\ k + 1 \in 0 .. n
  BY RingIs DEF Chain, Histories
<1>1. /\ d[k] \in Nat /\ At(h, d[k]) + 1 \in Nat
      /\ d[k + 1] = d[k] + (At(h, d[k]) + 1) /\ d[k + 1] \in 0 .. RingLen - 1
      /\ At(h, d[k]) \in 1 .. RingLen - 2
  <2>1. d[k] \in 0 .. RingLen - 1 /\ d[k + 1] \in 0 .. RingLen - 1
    BY <1>0 DEF Chain
  <2>2. d[k + 1] = d[k] + At(h, d[k]) + 1 /\ At(h, d[k]) \in 1 .. LineLen - 1
    BY DEF Chain
  <2>3. At(h, d[k]) \in Nat
    BY <2>2, RingIs
  <2> QED BY <1>0, <2>1, <2>2, <2>3
<1>2. Wrap(Wrap(h.begin + d[k]) + (At(h, d[k]) + 1)) = Wrap(h.begin + d[k + 1])
  BY <1>0, <1>1, WrapMore
<1>3. Behind(h, Wrap(h.begin + d[k])) = Wrap(Wrap(h.begin + d[k]) + (At(h, d[k]) + 1))
  <2>1. Wrap(h.begin + d[k]) \in Nat /\ At(h, d[k]) \in Nat
    <3>1. At(h, d[k]) \in 1 .. LineLen - 1 /\ d[k] \in 0 .. RingLen - 1
      BY DEF Chain
    <3> QED BY <1>0, <3>1, WrapIs, RingIs
  <2>2. Wrap(h.begin + d[k]) + At(h, d[k]) + 1 = Wrap(h.begin + d[k]) + (At(h, d[k]) + 1)
    BY <2>1
  <2> QED BY <2>2 DEF Behind, At
<1> QED BY <1>1, <1>2, <1>3

(* The walk comes along the chain.                                         *)
LEMMA WalkAlong ==
  ASSUME NEW h \in Histories, NEW n, NEW d, Chain(h, n, d)
  PROVE  \A i \in 0 .. n : Walk(h)[i] = Wrap(h.begin + d[i])
<1>0. RingLen \in Nat /\ n \in Nat /\ n < RingLen /\ h.begin \in 0 .. RingLen - 1
  BY RingIs DEF Chain, Histories
<1> DEFINE S == {i \in 0 .. n : Walk(h)[i] # Wrap(h.begin + d[i])}
<1>1. CASE S = {}
  BY <1>1
<1>2. CASE S # {}
  <2>1. PICK i \in S : \A j \in S : i <= j
    <3>1. S \subseteq Nat
      BY <1>0
    <3> QED BY <1>2, <3>1, LeastNat
  <2>2. i \in 0 .. n /\ Walk(h)[i] # Wrap(h.begin + d[i])
    OBVIOUS
  <2>3. i # 0
    <3>1. d[0] = 0 /\ Wrap(h.begin + 0) = h.begin
      BY <1>0 DEF Chain, Wrap
    <3> QED BY <2>2, <3>1, WalkIs
  <2>4. PICK k \in 0 .. n : k = i - 1 /\ k < n /\ i = k + 1
    BY <1>0, <2>2, <2>3
  <2>5. Walk(h)[k] = Wrap(h.begin + d[k])
    BY <1>0, <2>1, <2>4
  <2>6. Walk(h)[i] = Behind(h, Walk(h)[k])
    BY <1>0, <2>3, <2>4, WalkIs
  <2>7. Behind(h, Wrap(h.begin + d[k])) = Wrap(h.begin + d[i])
    BY <2>4, BehindIs
  <2> QED BY <2>2, <2>5, <2>6, <2>7
<1> QED BY <1>1, <1>2

(* The records are those of the chain.                                     *)
LEMMA CountIs ==
  ASSUME NEW h \in Histories, NEW n, NEW d, Chain(h, n, d)
  PROVE  Count(h) = n
<1>1. n \in 0 .. RingLen /\ n \in Nat /\ RingLen \in Nat
  BY RingIs DEF Chain
<1>2. h.buf[Walk(h)[n]] = 0
  <2>1. n \in 0 .. n
    BY <1>1
  <2>2. Walk(h)[n] = Wrap(h.begin + d[n])
    BY <2>1, WalkAlong
  <2> QED BY <2>2 DEF Chain
<1>3. \A m \in 0 .. n - 1 : h.buf[Walk(h)[m]] # 0
  <2> SUFFICES ASSUME NEW m \in 0 .. n - 1
               PROVE  h.buf[Walk(h)[m]] # 0
    OBVIOUS
  <2>1. m \in 0 .. n /\ m < n
    BY <1>1
  <2>2. At(h, d[m]) \in 1 .. LineLen - 1
    BY <2>1 DEF Chain
  <2>3. At(h, d[m]) # 0
    BY <2>2, RingIs
  <2> QED BY <2>1, <2>3, WalkAlong DEF At
<1>4. \A m \in 0 .. RingLen : /\ h.buf[Walk(h)[m]] = 0
                              /\ \A k \in 0 .. m - 1 : h.buf[Walk(h)[k]] # 0
                              => m = n
  <2> SUFFICES ASSUME NEW m \in 0 .. RingLen, h.buf[Walk(h)[m]] = 0,
                      \A k \in 0 .. m - 1 : h.buf[Walk(h)[k]] # 0
               PROVE  m = n
    OBVIOUS
  <2>1. ~(m < n)
    BY <1>1, <1>3
  <2>2. ~(n < m)
    BY <1>1, <1>2
  <2> QED BY <1>1, <2>1, <2>2
<1> DEFINE P(m) == h.buf[Walk(h)[m]] = 0 /\ \A k \in 0 .. m - 1 : h.buf[Walk(h)[k]] # 0
<1>5. Count(h) = CHOOSE m \in 0 .. RingLen : P(m)
  BY DEF Count
<1>6. P(n) /\ \A m \in 0 .. RingLen : P(m) => m = n
  BY <1>2, <1>3, <1>4
<1> HIDE DEF P
<1> QED BY <1>1, <1>5, <1>6

(* The records that the searches see are those of the chain.               *)
LEMMA RecordsAre ==
  ASSUME NEW h \in Histories, NEW n, NEW d, Chain(h, n, d)
  PROVE  /\ Records(h) \in Seq(0 .. RingLen - 1) /\ Len(Records(h)) = n
         /\ \A i \in 1 .. n : Records(h)[i] = Wrap(h.begin + d[i - 1])
<1>1. n \in Nat /\ RingLen \in Nat /\ h.begin \in 0 .. RingLen - 1
  BY RingIs DEF Chain, Histories
<1>2. Records(h) = [i \in 1 .. n |-> Walk(h)[i - 1]]
  BY CountIs DEF Records
<1>3. \A i \in 1 .. n : Walk(h)[i - 1] = Wrap(h.begin + d[i - 1]) /\ Walk(h)[i - 1] \in 0 .. RingLen - 1
  <2> SUFFICES ASSUME NEW i \in 1 .. n
               PROVE  Walk(h)[i - 1] = Wrap(h.begin + d[i - 1]) /\ Walk(h)[i - 1] \in 0 .. RingLen - 1
    OBVIOUS
  <2>1. i - 1 \in 0 .. n /\ d[i - 1] \in 0 .. RingLen - 1
    BY <1>1 DEF Chain
  <2> QED BY <1>1, <2>1, WalkAlong, WrapIs
<1> QED BY <1>1, <1>2, <1>3

(* What every operation keeps.                                             *)
Kept(h) == h \in Histories /\ \E n, d : Chain(h, n, d) /\ h.cur <= n

(* A place between the beginnings of a record and of the next.             *)
Within(h, d, k, p) == \E x \in 0 .. RingLen - 1 : d[k] <= x /\ x < d[k + 1] /\ p = Wrap(h.begin + x)

(* There are the bytes of the record.                                      *)
LEMMA BytesAre ==
  ASSUME NEW h \in Histories, NEW n, NEW d, Chain(h, n, d), NEW k \in 0 .. n, k < n
  PROVE  \A p \in RecordBytes(h, Wrap(h.begin + d[k])) : Within(h, d, k, p)
<1> SUFFICES ASSUME NEW p \in RecordBytes(h, Wrap(h.begin + d[k]))
             PROVE  Within(h, d, k, p)
  OBVIOUS
<1>0. RingLen \in Nat /\ n \in Nat /\ h.begin \in 0 .. RingLen - 1 /\ k + 1 \in 0 .. n
  BY RingIs DEF Chain, Histories
<1>1. d[k] \in 0 .. RingLen - 1 /\ d[k + 1] \in 0 .. RingLen - 1
  BY <1>0 DEF Chain
<1>2. d[k + 1] = d[k] + At(h, d[k]) + 1 /\ At(h, d[k]) \in 1 .. RingLen - 2
  BY BehindIs DEF Chain
<1>3. PICK m \in 0 .. At(h, d[k]) : p = Wrap(Wrap(h.begin + d[k]) + m)
  BY DEF RecordBytes, At
<1>4. d[k] + m \in 0 .. RingLen - 1 /\ d[k] <= d[k] + m /\ d[k] + m < d[k + 1] /\ d[k] \in Nat /\ m \in Nat
  BY <1>0, <1>1, <1>2
<1>5. p = Wrap(h.begin + (d[k] + m))
  BY <1>0, <1>3, <1>4, WrapMore
<1> QED BY <1>4, <1>5 DEF Within

(* So the history is a chain as long as it has been kept.                  *)
LEMMA KeptIsChain ==
  ASSUME Kept(hist)
  PROVE  HistoryIsChain
<1>1. PICK n, d : Chain(hist, n, d) /\ hist.cur <= n
  BY DEF Kept
<1>2. /\ hist \in Histories /\ RingLen \in Nat /\ n \in Nat /\ hist.begin \in 0 .. RingLen - 1
      /\ n \in 0 .. n
  <2>1. hist \in Histories
    BY DEF Kept
  <2>2. hist.begin \in 0 .. RingLen - 1
    BY <2>1 DEF Histories
  <2>3. RingLen \in Nat /\ n \in 0 .. RingLen - 1
    BY <1>1, RingIs DEF Chain
  <2> QED BY <2>1, <2>2, <2>3
<1>3. PICK r \in Seq(0 .. RingLen - 1) : /\ r = Records(hist) /\ Len(r) = n
                                         /\ \A i \in 1 .. n : r[i] = Wrap(hist.begin + d[i - 1])
  BY <1>1, <1>2, RecordsAre
<1>4. hist.end = IF r = <<>> THEN hist.begin ELSE Behind(hist, Last(r))
  <2>1. CASE n = 0
    <3>1. d[0] = 0 /\ hist.end = Wrap(hist.begin + 0)
      BY <1>1, <2>1 DEF Chain
    <3>2. hist.end = hist.begin
      BY <1>2, <3>1 DEF Wrap
    <3> QED BY <1>3, <2>1, <3>2
  <2>2. CASE n # 0
    <3>1. PICK k \in 0 .. n : k = n - 1 /\ k < n /\ k + 1 = n
      BY <1>2, <2>2
    <3>2. Behind(hist, Wrap(hist.begin + d[k])) = Wrap(hist.begin + d[n])
      BY <1>1, <1>2, <3>1, BehindIs
    <3>3. r # <<>> /\ Last(r) = Wrap(hist.begin + d[k])
      <4>1. n \in 1 .. n
        BY <1>2, <2>2
      <4> QED BY <1>3, <3>1, <4>1 DEF Last
    <3> QED BY <1>1, <3>2, <3>3 DEF Chain
  <2> QED BY <2>1, <2>2
<1>5. ASSUME NEW i \in 1 .. n
      PROVE  /\ hist.buf[r[i]] \in 1 .. RingLen - 2
             /\ hist.end \notin RecordBytes(hist, r[i])
             /\ \A j \in 1 .. n : i # j => RecordBytes(hist, r[i]) \cap RecordBytes(hist, r[j]) = {}
  <2>1. PICK k \in 0 .. n : k = i - 1 /\ k < n /\ k + 1 = i
    BY <1>2
  <2>2. r[i] = Wrap(hist.begin + d[k])
    BY <1>3, <2>1
  <2>3. hist.buf[r[i]] \in 1 .. RingLen - 2
    <3>1. At(hist, d[k]) \in 1 .. RingLen - 2
      BY <1>1, <1>2, <2>1, BehindIs
    <3> QED BY <2>2, <3>1 DEF At
  <2>4. \A x, y \in 0 .. n : x < y => d[x] < d[y]
    BY <1>1 DEF Chain
  <2>5. \A x \in 0 .. n : d[x] \in 0 .. RingLen - 1
    BY <1>1 DEF Chain
  <2>6. hist.end \notin RecordBytes(hist, r[i])
    <3> SUFFICES ASSUME hist.end \in RecordBytes(hist, r[i])
                 PROVE  FALSE
      OBVIOUS
    <3>1. PICK x \in 0 .. RingLen - 1 : x < d[k + 1] /\ hist.end = Wrap(hist.begin + x)
      <4>1. hist.end \in RecordBytes(hist, Wrap(hist.begin + d[k]))
        BY <2>2
      <4>2. Within(hist, d, k, hist.end)
        BY <1>1, <1>2, <2>1, <4>1, BytesAre
      <4> QED BY <4>2 DEF Within
    <3>2. d[k + 1] <= d[n]
      <4>1. k + 1 \in 0 .. n /\ (k + 1 = n \/ k + 1 < n)
        BY <1>2, <2>1
      <4>2. d[k + 1] \in Nat
        BY <1>2, <2>5, <4>1
      <4> QED BY <1>2, <2>4, <2>5, <4>1, <4>2
    <3>3. x # d[n] /\ d[n] \in 0 .. RingLen - 1
      <4>1. d[n] \in 0 .. RingLen - 1 /\ d[k + 1] \in 0 .. RingLen - 1
        BY <1>2, <2>1, <2>5
      <4> QED BY <1>2, <3>1, <3>2, <4>1
    <3>4. hist.end = Wrap(hist.begin + d[n])
      BY <1>1 DEF Chain
    <3> QED BY <1>2, <3>1, <3>3, <3>4, WrapApart
  <2>7. ASSUME NEW j \in 1 .. n, i # j
        PROVE  RecordBytes(hist, r[i]) \cap RecordBytes(hist, r[j]) = {}
    <3> SUFFICES ASSUME NEW p \in RecordBytes(hist, r[i]), p \in RecordBytes(hist, r[j])
                 PROVE  FALSE
      OBVIOUS
    <3>1. PICK m \in 0 .. n : m = j - 1 /\ m < n /\ m + 1 = j
      BY <1>2
    <3>2. r[j] = Wrap(hist.begin + d[m])
      BY <1>3, <3>1
    <3>3. PICK x \in 0 .. RingLen - 1 : d[k] <= x /\ x < d[k + 1] /\ p = Wrap(hist.begin + x)
      <4>1. p \in RecordBytes(hist, Wrap(hist.begin + d[k]))
        BY <2>2
      <4>2. Within(hist, d, k, p)
        BY <1>1, <1>2, <2>1, <4>1, BytesAre
      <4> QED BY <4>2 DEF Within
    <3>4. PICK y \in 0 .. RingLen - 1 : d[m] <= y /\ y < d[m + 1] /\ p = Wrap(hist.begin + y)
      <4>1. p \in RecordBytes(hist, Wrap(hist.begin + d[m]))
        BY <3>2
      <4>2. Within(hist, d, m, p)
        BY <1>1, <1>2, <3>1, <4>1, BytesAre
      <4> QED BY <4>2 DEF Within
    <3>5. x = y
      BY <1>2, <3>3, <3>4, WrapApart
    <3>6. k + 1 \in 0 .. n /\ m + 1 \in 0 .. n
      BY <1>2, <2>1, <3>1
    <3>7. d[k] \in Int /\ d[m] \in Int /\ d[k + 1] \in Int /\ d[m + 1] \in Int /\ x \in Int
      BY <1>2, <2>5, <3>6
    <3>8. d[k] < d[m + 1] /\ d[m] < d[k + 1]
      <4>1. d[k] <= x /\ x < d[k + 1] /\ d[m] <= x /\ x < d[m + 1]
        BY <3>3, <3>4, <3>5
      <4>2. \A v, w \in Int : v <= x /\ x < w => v < w
        BY <3>7
      <4> QED BY <3>7, <4>1, <4>2, Zenon
    <3>9. k < m \/ m < k
      BY <1>2, <2>1, <2>7, <3>1
    <3>10. CASE k < m
      <4>1. k + 1 = m \/ k + 1 < m
        BY <1>2, <3>10
      <4>2. d[k + 1] <= d[m]
        BY <2>4, <3>6, <3>7, <4>1
      <4> QED BY <3>7, <3>8, <4>2
    <3>11. CASE m < k
      <4>1. m + 1 = k \/ m + 1 < k
        BY <1>2, <3>11
      <4>2. d[m + 1] <= d[k]
        BY <2>4, <3>6, <3>7, <4>1
      <4> QED BY <3>7, <3>8, <4>2
    <3> QED BY <3>9, <3>10, <3>11
  <2> QED BY <2>3, <2>6, <2>7
<1>6. DOMAIN r = 1 .. n
  BY <1>3
<1>7. hist.buf[hist.end] = 0 /\ hist.cur <= Len(r)
  BY <1>1, <1>3 DEF Chain
<1>8. /\ hist.buf[hist.end] = 0
      /\ hist.end = IF r = <<>> THEN hist.begin ELSE Behind(hist, Last(r))
      /\ \A i \in DOMAIN r :
           /\ hist.buf[r[i]] \in 1 .. RingLen - 2
           /\ hist.end \notin RecordBytes(hist, r[i])
           /\ \A j \in DOMAIN r : i # j => RecordBytes(hist, r[i]) \cap RecordBytes(hist, r[j]) = {}
      /\ hist.cur <= Len(r)
  BY <1>4, <1>5, <1>6, <1>7, Zenon
<1>9. r = Records(hist)
  BY <1>3
<1> QED BY <1>8, <1>9, Zenon DEF HistoryIsChain

-----------------------------------------------------------------------------
(* Erasing and saving                                                      *)

(* Without its n oldest records the history is a chain still.              *)
LEMMA ErasedIs ==
  ASSUME NEW h \in Histories, NEW n, NEW d, Chain(h, n, d), NEW e \in 0 .. n
  PROVE  /\ EraseOlder(h, e) \in Histories
         /\ EraseOlder(h, e).buf = h.buf /\ EraseOlder(h, e).end = h.end
         /\ EraseOlder(h, e).begin = Wrap(h.begin + d[e])
         /\ Chain(EraseOlder(h, e), n - e, [i \in 0 .. n - e |-> d[i + e] - d[e]])
<1>0. /\ RingLen \in Nat /\ n \in Nat /\ n < RingLen /\ h.begin \in 0 .. RingLen - 1
      /\ n \in 0 .. n /\ e \in Nat
  BY RingIs DEF Chain, Histories
<1>1. Walk(h)[e] = Wrap(h.begin + d[e])
  BY WalkAlong
<1>2. /\ \A i \in 0 .. n : d[i] \in 0 .. RingLen - 1
      /\ \A i, j \in 0 .. n : i < j => d[i] < d[j]
  BY DEF Chain
<1>3. Wrap(h.begin + d[e]) \in 0 .. RingLen - 1
  BY <1>0, <1>2, WrapIs
<1>4. PICK s \in Histories : s = EraseOlder(h, e) /\ s.buf = h.buf /\ s.end = h.end /\ s.begin = Wrap(h.begin + d[e])
  <2>1. EraseOlder(h, e) = [h EXCEPT !.begin = Wrap(h.begin + d[e])]
    BY <1>1 DEF EraseOlder
  <2>2. \A b \in 0 .. RingLen - 1 : LET s == [h EXCEPT !.begin = b]
                                    IN  s \in Histories /\ s.buf = h.buf /\ s.end = h.end /\ s.begin = b
    BY DEF Histories
  <2> QED BY <1>3, <2>1, <2>2
<1> DEFINE m == n - e
           f == [i \in 0 .. m |-> d[i + e] - d[e]]
<1>5. m \in 0 .. RingLen - 1 /\ m \in Nat
  BY <1>0
<1>6. ASSUME NEW i \in 0 .. m
      PROVE  /\ i + e \in 0 .. n /\ f[i] = d[i + e] - d[e] /\ f[i] \in 0 .. RingLen - 1
             /\ d[e] \in Nat /\ d[e] + f[i] = d[i + e] /\ d[i + e] \in 0 .. RingLen - 1
             /\ Wrap(s.begin + f[i]) = Wrap(h.begin + d[i + e])
  <2>1. i + e \in 0 .. n /\ f[i] = d[i + e] - d[e]
    BY <1>0
  <2>2. d[i + e] \in 0 .. RingLen - 1 /\ d[e] \in 0 .. RingLen - 1
    BY <1>2, <2>1
  <2>3. d[e] <= d[i + e]
    <3>1. i = 0 \/ e < i + e
      BY <1>0, <1>5
    <3>2. CASE i = 0
      <4>1. i + e = e
        BY <1>0, <3>2
      <4> QED BY <1>0, <2>2, <4>1
    <3>3. CASE e < i + e
      BY <1>2, <2>1, <2>2, <3>3
    <3> QED BY <3>1, <3>2, <3>3
  <2>4. f[i] \in 0 .. RingLen - 1 /\ d[e] + f[i] = d[i + e] /\ d[e] \in Nat /\ f[i] \in Nat
    BY <1>0, <2>1, <2>2, <2>3
  <2>5. Wrap(Wrap(h.begin + d[e]) + f[i]) = Wrap(h.begin + d[i + e])
    BY <1>0, <2>2, <2>4, WrapMore
  <2> QED BY <1>4, <2>1, <2>2, <2>4, <2>5
<1>7. f \in [0 .. m -> 0 .. RingLen - 1]
  BY <1>6
<1>8. f[0] = 0
  <2>1. 0 \in 0 .. m /\ 0 + e = e
    BY <1>0, <1>5
  <2>2. d[e] \in Int /\ f[0] = d[e] - d[e]
    BY <1>6, <2>1
  <2> QED BY <2>2
<1> HIDE DEF f
<1>9. \A i, j \in 0 .. m : i < j => f[i] < f[j]
  <2> SUFFICES ASSUME NEW i \in 0 .. m, NEW j \in 0 .. m, i < j
               PROVE  f[i] < f[j]
    OBVIOUS
  <2>1. i + e \in 0 .. n /\ j + e \in 0 .. n /\ i + e < j + e
    BY <1>0, <1>5, <1>6
  <2>2. d[i + e] < d[j + e]
    BY <1>2, <2>1
  <2>3. /\ f[i] = d[i + e] - d[e] /\ f[j] = d[j + e] - d[e]
        /\ d[e] \in Int /\ d[i + e] \in Int /\ d[j + e] \in Int
    BY <1>0, <1>6
  <2> QED BY <2>2, <2>3
<1>10. \A i \in 0 .. m : i <= f[i]
  <2> DEFINE S == {i \in 0 .. m : ~(i <= f[i])}
  <2>1. CASE S = {}
    BY <2>1
  <2>2. CASE S # {}
    <3>1. PICK i \in S : \A j \in S : i <= j
      <4>1. S \subseteq Nat
        BY <1>5
      <4> QED BY <2>2, <4>1, LeastNat
    <3>2. i # 0
      BY <1>8
    <3>3. i - 1 \in 0 .. m /\ i - 1 < i /\ i \in 0 .. m
      BY <1>5, <3>2
    <3>4. i - 1 <= f[i - 1]
      BY <1>5, <3>1, <3>3
    <3>5. f[i - 1] < f[i] /\ f[i] \in Int /\ f[i - 1] \in Int
      BY <1>0, <1>7, <1>9, <3>3
    <3>6. i <= f[i]
      BY <1>5, <3>3, <3>4, <3>5
    <3> QED BY <3>6
  <2> QED BY <2>1, <2>2
<1>11. \A i \in 0 .. m : i < m => f[i + 1] = f[i] + At(s, f[i]) + 1 /\ At(s, f[i]) \in 1 .. LineLen - 1
  <2> SUFFICES ASSUME NEW i \in 0 .. m, i < m
               PROVE  f[i + 1] = f[i] + At(s, f[i]) + 1 /\ At(s, f[i]) \in 1 .. LineLen - 1
    OBVIOUS
  <2>1. PICK k \in 0 .. n : k = i + e /\ k < n /\ (i + 1) + e = k + 1 /\ i + 1 \in 0 .. m
    BY <1>0, <1>5
  <2>2. d[k + 1] = d[k] + At(h, d[k]) + 1 /\ At(h, d[k]) \in 1 .. LineLen - 1
    BY <2>1 DEF Chain
  <2>3. At(s, f[i]) = At(h, d[k])
    BY <1>4, <1>6, <2>1 DEF At
  <2>4. /\ f[i] = d[k] - d[e] /\ f[i + 1] = d[k + 1] - d[e]
        /\ d[e] \in Int /\ d[k] \in Int /\ d[k + 1] \in Int
    <3>1. f[i] = d[k] - d[e] /\ d[e] \in Nat /\ d[k] \in 0 .. RingLen - 1
      BY <1>6, <2>1
    <3>2. f[i + 1] = d[(i + 1) + e] - d[e] /\ d[(i + 1) + e] \in 0 .. RingLen - 1
      BY <1>6, <2>1
    <3> QED BY <1>0, <2>1, <3>1, <3>2
  <2>5. At(h, d[k]) \in Int
    BY <2>2, RingIs
  <2> QED BY <2>2, <2>3, <2>4, <2>5
<1>12. s.end = Wrap(s.begin + f[m]) /\ s.buf[s.end] = 0
  <2>1. m \in 0 .. m /\ m + e = n
    BY <1>0, <1>5
  <2>2. Wrap(s.begin + f[m]) = Wrap(h.begin + d[n])
    BY <1>6, <2>1
  <2> QED BY <1>4, <2>2 DEF Chain
<1>13. Chain(s, m, f)
  BY <1>5, <1>7, <1>8, <1>9, <1>10, <1>11, <1>12 DEF Chain
<1> QED BY <1>4, <1>13 DEF f

(* There is room if the bytes of the records, the new one and the zero at  *)
(* the end fit into the ring.                                              *)
LEMMA RoomIs ==
  ASSUME NEW h \in Histories, NEW n, NEW d, Chain(h, n, d), NEW len \in Nat, len <= RingLen - 2
  PROVE  IsSpaceForNew(h, len) <=> d[n] + len + 1 <= RingLen - 1
<1>0. /\ RingLen \in Nat /\ n \in Nat /\ h.begin \in 0 .. RingLen - 1
      /\ n \in 0 .. n /\ d[n] \in 0 .. RingLen - 1
  BY RingIs DEF Chain, Histories
<1>1. h.end = Wrap(h.begin + d[n]) /\ h.end \in {h.begin + d[n], h.begin + d[n] - RingLen} /\ h.end \in 0 .. RingLen - 1
  BY <1>0, WrapIs DEF Chain
<1>2. h.begin = Wrap(h.begin + 0)
  BY <1>0 DEF Wrap
<1>3. ASSUME d[n] + len + 1 <= RingLen - 1
      PROVE  IsSpaceForNew(h, len)
  <2>1. CASE h.begin + d[n] >= RingLen
    <3>0. PICK x \in Int : x = h.begin + d[n]
      BY <1>0
    <3>1. h.end = h.begin + d[n] - RingLen
      BY <1>0, <1>1, <2>1, <3>0 DEF Wrap
    <3>2. h.end < h.begin /\ h.begin - h.end - 1 > len
      BY <1>0, <1>3, <3>1
    <3> QED BY <3>2 DEF IsSpaceForNew
  <2>2. CASE ~(h.begin + d[n] >= RingLen)
    <3>0. PICK x \in Int : x = h.begin + d[n]
      BY <1>0
    <3>1. h.end = h.begin + d[n]
      BY <1>0, <1>1, <2>2, <3>0 DEF Wrap
    <3>2. h.end >= h.begin /\ RingLen - h.end + h.begin - 1 > len
      BY <1>0, <1>3, <3>1
    <3> QED BY <3>2 DEF IsSpaceForNew
  <2> QED BY <2>1, <2>2
<1>4. ASSUME IsSpaceForNew(h, len)
      PROVE  d[n] + len + 1 <= RingLen - 1
  <2>1. CASE h.buf[h.begin] = 0
    <3>1. n = 0
      <4> SUFFICES ASSUME n # 0
                   PROVE  FALSE
        OBVIOUS
      <4>1. 0 \in 0 .. n /\ 0 < n
        BY <1>0
      <4>2. At(h, d[0]) \in 1 .. LineLen - 1 /\ d[0] = 0
        BY <4>1 DEF Chain
      <4>3. At(h, d[0]) = 0
        BY <1>2, <2>1, <4>2 DEF At
      <4> QED BY <4>2, <4>3, RingIs
    <3>2. d[n] = 0
      BY <3>1 DEF Chain
    <3> QED BY <1>0, <3>2
  <2>2. CASE h.end >= h.begin /\ RingLen - h.end + h.begin - 1 > len
    BY <1>0, <1>1, <2>2
  <2>3. CASE h.end < h.begin /\ h.begin - h.end - 1 > len
    BY <1>0, <1>1, <2>3
  <2> QED BY <1>4, <2>1, <2>2, <2>3 DEF IsSpaceForNew
<1> QED BY <1>3, <1>4

(* As many of the oldest records are erased as have to be.                 *)
Enough(n, d, len, e) == d[n] - d[e] + len + 1 <= RingLen - 1

LEMMA MadeIs ==
  ASSUME NEW h \in Histories, NEW n, NEW d, Chain(h, n, d), NEW len \in Nat, len <= RingLen - 2
  PROVE  \E e \in 0 .. n : /\ MakeSpace(h, len) = EraseOlder(h, e) /\ Enough(n, d, len, e)
                           /\ \A m \in 0 .. e - 1 : ~Enough(n, d, len, m)
<1>0. RingLen \in Nat /\ n \in Nat /\ n \in 0 .. n /\ \A k \in 0 .. n : d[k] \in 0 .. RingLen - 1
  BY RingIs DEF Chain
<1> DEFINE P(e) == IsSpaceForNew(EraseOlder(h, e), len)
           S == {e \in 0 .. n : P(e)}
<1>1. \A e \in 0 .. n : P(e) <=> Enough(n, d, len, e)
  <2> SUFFICES ASSUME NEW e \in 0 .. n
               PROVE  P(e) <=> Enough(n, d, len, e)
    OBVIOUS
  <2>1. PICK s, m, f : /\ s = EraseOlder(h, e) /\ m = n - e /\ s \in Histories /\ Chain(s, m, f)
                       /\ f = [i \in 0 .. n - e |-> d[i + e] - d[e]]
    BY ErasedIs
  <2>2. f[m] = d[n] - d[e]
    <3>1. m \in 0 .. n - e /\ m + e = n
      BY <1>0, <2>1
    <3> QED BY <2>1, <3>1
  <2>3. IsSpaceForNew(s, len) <=> f[m] + len + 1 <= RingLen - 1
    BY <2>1, RoomIs
  <2> QED BY <2>1, <2>2, <2>3 DEF Enough
<1>2. n \in S
  <2>1. d[n] - d[n] = 0
    BY <1>0
  <2>2. Enough(n, d, len, n)
    BY <1>0, <2>1 DEF Enough
  <2> QED BY <1>0, <1>1, <2>2
<1> HIDE DEF P
<1>3. PICK l \in S : \A e \in S : l <= e
  <2>1. S \subseteq Nat /\ S # {}
    BY <1>0, <1>2
  <2> QED BY <2>1, LeastNat
<1>4. l \in 0 .. n /\ P(l) /\ \A m \in 0 .. l - 1 : ~P(m)
  <2>1. l \in 0 .. n /\ P(l)
    OBVIOUS
  <2>2. \A m \in 0 .. l - 1 : m \in 0 .. n /\ ~(l <= m)
    BY <1>0, <2>1
  <2> QED BY <1>3, <2>1, <2>2
<1> DEFINE c == CHOOSE e \in 0 .. n : P(e) /\ \A m \in 0 .. e - 1 : ~P(m)
<1>5. c \in 0 .. n /\ P(c) /\ \A m \in 0 .. c - 1 : ~P(m)
  BY <1>4, Zenon
<1>6. MakeSpace(h, len) = EraseOlder(h, c)
  BY CountIs, Zenon DEF MakeSpace, P
<1> HIDE DEF c
<1>7. \A m \in 0 .. c - 1 : m \in 0 .. n
  BY <1>0, <1>5
<1> QED BY <1>1, <1>5, <1>6, <1>7

(* A line ends inside the buffer.                                          *)
Lines == {l \in [0 .. LineLen - 1 -> Nat] : l[LineLen - 1] = 0}

(* The bytes before the place where a record is written are left alone.    *)
LEMMA SparedIs ==
  ASSUME NEW b \in 0 .. RingLen - 1, NEW x \in Nat, NEW y \in 0 .. RingLen - 1, NEW len \in Nat,
         x < y, y + len + 1 \in 0 .. RingLen - 1
  PROVE  ~(Wrap(Wrap(b + x) + RingLen - Wrap(b + y) - 1) < len)
<1>0. RingLen \in Nat
  BY RingIs
<1>1. CASE b + y < RingLen
  BY <1>0, <1>1 DEF Wrap
<1>2. CASE b + x < RingLen /\ b + y >= RingLen
  BY <1>0, <1>2 DEF Wrap
<1>3. CASE b + x >= RingLen
  BY <1>0, <1>3 DEF Wrap
<1> QED BY <1>0, <1>1, <1>2, <1>3

(* The characters of a record are written one by one behind its length.    *)
LEMMA PlacedIs ==
  ASSUME NEW b \in 0 .. RingLen - 1, NEW y \in 0 .. RingLen - 1, NEW k \in Nat, k >= 1, y + k \in 0 .. RingLen - 1
  PROVE  Wrap(Wrap(b + (y + k)) + RingLen - Wrap(b + y) - 1) = k - 1
<1>0. RingLen \in Nat
  BY RingIs
<1>1. CASE b + y < RingLen /\ b + (y + k) < RingLen
  BY <1>0, <1>1 DEF Wrap
<1>2. CASE b + y < RingLen /\ b + (y + k) >= RingLen
  BY <1>0, <1>2 DEF Wrap
<1>3. CASE b + y >= RingLen
  BY <1>0, <1>3 DEF Wrap
<1> QED BY <1>0, <1>1, <1>2, <1>3

(* The record that is written behind the last one.                         *)
Put(s, l, len) ==
  LET at(p) == Wrap(p + RingLen - s.end - 1)
      copied == [p \in DOMAIN s.buf |-> IF at(p) < len THEN l[at(p)] ELSE s.buf[p]]
      end == Wrap(s.end + len + 1)
  IN  [s EXCEPT !.buf = [copied EXCEPT ![s.end] = len, ![end] = 0], !.end = end, !.cur = 0]

(* The line of a record.                                                   *)
Text(h, x) == [k \in 1 .. At(h, x) |-> At(h, x + k)]

(* It makes one more line.                                                 *)
Added(s, g, n, d, f, l, len) ==
  /\ g \in Histories /\ Chain(g, n + 1, f)
  /\ \A i \in 0 .. n : f[i] = d[i]
  /\ \A i \in 0 .. n : i < n => Text(g, d[i]) = Text(s, d[i])
  /\ Text(g, d[n]) = TextOf(l, len)

(* So what it was before is kept, and the line is the last of the new chain. *)
LEMMA PutIs ==
  ASSUME NEW s \in Histories, NEW n, NEW d, Chain(s, n, d), NEW l \in Lines, NEW len \in 1 .. LineLen - 1,
         d[n] + len + 1 \in 0 .. RingLen - 1
  PROVE  \E f : Added(s, Put(s, l, len), n, d, f, l, len)
<1>0. RingLen \in Nat /\ RingLen > 1 /\ LineLen \in Nat /\ len \in Nat
  BY RingIs
<1> DEFINE at(p) == Wrap(p + RingLen - s.end - 1)
           copied == [p \in DOMAIN s.buf |-> IF at(p) < len THEN l[at(p)] ELSE s.buf[p]]
           end == Wrap(s.end + len + 1)
           buf == [copied EXCEPT ![s.end] = len, ![end] = 0]
           g == [s EXCEPT !.buf = buf, !.end = end, !.cur = 0]
<1>2. Put(s, l, len) = g
  BY DEF Put
<1>3. /\ s.begin \in 0 .. RingLen - 1 /\ s.end \in 0 .. RingLen - 1
      /\ s.buf \in [0 .. RingLen - 1 -> Nat]
  BY DEF Histories
<1>4. PICK b \in 0 .. RingLen - 1, y \in 0 .. RingLen - 1, z \in 0 .. RingLen - 1 :
        b = s.begin /\ y = d[n] /\ z = y + len + 1 /\ s.end = Wrap(b + y) /\ n \in 0 .. RingLen - 1
  <2>1. d[n] \in 0 .. RingLen - 1 /\ s.end = Wrap(s.begin + d[n]) /\ n \in 0 .. RingLen - 1
    <3>1. n \in 0 .. n /\ n \in 0 .. RingLen - 1
      BY <1>0 DEF Chain
    <3> QED BY <3>1 DEF Chain
  <2> QED BY <1>3, <2>1
<1>5. end = Wrap(b + z) /\ end \in 0 .. RingLen - 1 /\ s.end # end
  <2>1. y + (len + 1) \in 0 .. RingLen - 1 /\ len + 1 \in Nat /\ y \in Nat /\ z = y + (len + 1)
    BY <1>0, <1>4
  <2>2. Wrap(Wrap(b + y) + (len + 1)) = Wrap(b + z)
    BY <2>1, WrapMore
  <2>3. Wrap(b + y) \in Nat /\ Wrap(b + y) + len + 1 = Wrap(b + y) + (len + 1)
    BY <1>0, WrapIs
  <2>4. end = Wrap(b + z)
    BY <1>4, <2>2, <2>3
  <2>5. y # z
    BY <1>0, <1>4
  <2>6. Wrap(b + y) # Wrap(b + z) /\ Wrap(b + z) \in 0 .. RingLen - 1
    BY <2>5, WrapIs, WrapApart
  <2> QED BY <1>4, <2>4, <2>6, Zenon
<1>6. copied \in [0 .. RingLen - 1 -> Nat]
  <2> SUFFICES ASSUME NEW p \in 0 .. RingLen - 1
               PROVE  (IF at(p) < len THEN l[at(p)] ELSE s.buf[p]) \in Nat
    BY <1>3
  <2>1. at(p) \in Nat
    <3>1. PICK v \in 0 .. RingLen - 1 : v = s.end
      BY <1>3
    <3>2. Wrap(p + RingLen - v - 1) \in Nat
      BY <1>0, <3>1 DEF Wrap
    <3> QED BY <3>1, <3>2
  <2> HIDE DEF at
  <2>2. CASE at(p) < len
    <3>1. at(p) \in 0 .. LineLen - 1
      BY <1>0, <2>1, <2>2
    <3> QED BY <2>2, <3>1 DEF Lines
  <2> QED BY <1>3, <2>2
<1>7. buf \in [0 .. RingLen - 1 -> Nat] /\ buf[s.end] = len /\ buf[end] = 0
  <2> HIDE DEF copied, end
  <2> QED BY <1>0, <1>3, <1>5, <1>6
<1>8. ASSUME NEW x \in 0 .. RingLen - 1, x < y
      PROVE  buf[Wrap(b + x)] = s.buf[Wrap(b + x)]
  <2>1. Wrap(b + x) \in 0 .. RingLen - 1 /\ Wrap(b + x) # s.end /\ Wrap(b + x) # end
    <3>1. x # y /\ x # z
      BY <1>0, <1>4, <1>8
    <3>2. Wrap(b + x) \in 0 .. RingLen - 1 /\ Wrap(b + x) # Wrap(b + y) /\ Wrap(b + x) # Wrap(b + z)
      BY <3>1, WrapIs, WrapApart
    <3> QED BY <1>4, <1>5, <3>2, Zenon
  <2>2. ~(at(Wrap(b + x)) < len)
    <3>1. ~(Wrap(Wrap(b + x) + RingLen - Wrap(b + y) - 1) < len)
      BY <1>0, <1>4, <1>8, SparedIs
    <3> QED BY <1>4, <3>1
  <2> HIDE DEF at, end
  <2>3. copied[Wrap(b + x)] = s.buf[Wrap(b + x)]
    BY <1>3, <2>1, <2>2
  <2> HIDE DEF copied
  <2> QED BY <1>6, <2>1, <2>3
<1>14. ASSUME NEW k \in 1 .. len
       PROVE  buf[Wrap(b + (y + k))] = l[k - 1]
  <2>1. y + k \in 0 .. RingLen - 1 /\ y + k # y /\ y + k # z /\ k \in Nat /\ k >= 1
    BY <1>0, <1>4
  <2>2. PICK p \in 0 .. RingLen - 1 : p = Wrap(b + (y + k)) /\ p # s.end /\ p # end
    <3>1. /\ Wrap(b + (y + k)) \in 0 .. RingLen - 1 /\ Wrap(b + (y + k)) # Wrap(b + y)
          /\ Wrap(b + (y + k)) # Wrap(b + z)
      BY <2>1, WrapIs, WrapApart
    <3> QED BY <1>4, <1>5, <3>1, Zenon
  <2>3. at(p) = k - 1
    BY <1>4, <2>1, <2>2, PlacedIs
  <2> HIDE DEF at, end
  <2>4. copied[p] = l[k - 1]
    <3>1. k - 1 < len
      BY <1>0
    <3> QED BY <1>3, <2>2, <2>3, <3>1
  <2> HIDE DEF copied
  <2> QED BY <1>6, <2>2, <2>4
<1> HIDE DEF buf, end, at, copied
<1>9. /\ g \in Histories /\ g.buf = buf /\ g.begin = b /\ g.end = end
  BY <1>0, <1>4, <1>5, <1>7 DEF Histories
<1> HIDE DEF g
<1>10. /\ n + 1 \in 0 .. RingLen - 1 /\ n \in Nat /\ n \in 0 .. n
  <2>1. n \in 0 .. RingLen - 1 /\ n \in 0 .. n
    BY <1>0, <1>4
  <2>2. n <= d[n]
    BY <2>1 DEF Chain
  <2> QED BY <1>0, <1>4, <2>1, <2>2
<1> DEFINE f == [i \in 0 .. n + 1 |-> IF i = n + 1 THEN z ELSE d[i]]
<1>11. f[n + 1] = z /\ \A i \in 0 .. n : f[i] = d[i] /\ d[i] \in 0 .. RingLen - 1 /\ f[i] <= y
  <2>1. f[n + 1] = z /\ \A i \in 0 .. n : f[i] = d[i]
    BY <1>10
  <2>2. \A i \in 0 .. n : d[i] \in 0 .. RingLen - 1
    BY DEF Chain
  <2>3. \A i \in 0 .. n : i = n \/ i < n
    BY <1>10
  <2>4. \A i \in 0 .. n : i < n => d[i] < d[n]
    BY <1>10 DEF Chain
  <2>5. \A i \in 0 .. n : d[i] <= y
    BY <1>0, <1>4, <2>2, <2>3, <2>4
  <2> QED BY <2>1, <2>2, <2>5
<1>12. f \in [0 .. n + 1 -> 0 .. RingLen - 1]
  <2>1. \A i \in 0 .. n + 1 : i = n + 1 \/ i \in 0 .. n
    BY <1>10
  <2>2. \A i \in 0 .. n + 1 : f[i] \in 0 .. RingLen - 1
    BY <1>4, <1>11, <2>1
  <2> QED BY <2>2
<1> HIDE DEF f
<1>13. Chain(g, n + 1, f)
  <2>1. f[0] = 0
    BY <1>10, <1>11 DEF Chain
  <2>2. \A i, j \in 0 .. n + 1 : i < j => f[i] < f[j]
    <3> SUFFICES ASSUME NEW i \in 0 .. n + 1, NEW j \in 0 .. n + 1, i < j
                 PROVE  f[i] < f[j]
      OBVIOUS
    <3>1. i \in 0 .. n /\ (j \in 0 .. n \/ j = n + 1)
      BY <1>10
    <3>2. CASE j \in 0 .. n
      BY <1>11, <3>1, <3>2 DEF Chain
    <3>3. CASE j = n + 1
      <4>1. f[i] \in Int /\ f[i] <= y
        BY <1>11, <3>1
      <4> QED BY <1>0, <1>4, <1>11, <3>3, <4>1
    <3> QED BY <3>1, <3>2, <3>3
  <2>3. \A i \in 0 .. n + 1 : i <= f[i]
    <3> SUFFICES ASSUME NEW i \in 0 .. n + 1
                 PROVE  i <= f[i]
      OBVIOUS
    <3>1. CASE i \in 0 .. n
      BY <1>11, <3>1 DEF Chain
    <3>2. CASE i = n + 1
      <4>1. n <= y
        BY <1>4, <1>10 DEF Chain
      <4> QED BY <1>0, <1>4, <1>10, <1>11, <3>2, <4>1
    <3> QED BY <1>10, <3>1, <3>2
  <2>4. ASSUME NEW i \in 0 .. n + 1, i < n + 1
        PROVE  f[i + 1] = f[i] + At(g, f[i]) + 1 /\ At(g, f[i]) \in 1 .. LineLen - 1
    <3>1. CASE i = n
      <4>1. At(g, f[i]) = len /\ f[i] = y /\ f[i + 1] = z
        BY <1>4, <1>7, <1>9, <1>10, <1>11, <3>1 DEF At
      <4> QED BY <1>0, <1>4, <4>1
    <3>2. CASE i # n
      <4>1. i \in 0 .. n /\ i < n /\ i + 1 \in 0 .. n
        BY <1>10, <2>4, <3>2
      <4>2. d[i + 1] = d[i] + At(s, d[i]) + 1 /\ At(s, d[i]) \in 1 .. LineLen - 1
        BY <4>1 DEF Chain
      <4>3. d[i] < d[n] /\ d[i] \in 0 .. RingLen - 1
        BY <1>10, <4>1 DEF Chain
      <4>4. At(g, d[i]) = At(s, d[i])
        BY <1>4, <1>8, <1>9, <4>3 DEF At
      <4> QED BY <1>11, <4>1, <4>2, <4>4
    <3> QED BY <3>1, <3>2
  <2>5. g.end = Wrap(g.begin + f[n + 1]) /\ g.buf[g.end] = 0
    BY <1>5, <1>7, <1>9, <1>11
  <2> QED BY <1>10, <1>12, <2>1, <2>2, <2>3, <2>4, <2>5 DEF Chain
<1>15. \A i \in 0 .. n : i < n => Text(g, d[i]) = Text(s, d[i])
  <2> SUFFICES ASSUME NEW i \in 0 .. n, i < n
               PROVE  Text(g, d[i]) = Text(s, d[i])
    OBVIOUS
  <2>1. /\ i + 1 \in 0 .. n /\ d[i] \in 0 .. RingLen - 1 /\ d[i + 1] \in 0 .. RingLen - 1 /\ d[i + 1] <= y
        /\ d[i + 1] = d[i] + At(s, d[i]) + 1 /\ At(s, d[i]) \in 1 .. LineLen - 1
    <3>1. i + 1 \in 0 .. n
      BY <1>10
    <3>2. d[i] \in 0 .. RingLen - 1 /\ d[i + 1] \in 0 .. RingLen - 1 /\ d[i + 1] <= y
      BY <1>11, <3>1
    <3> QED BY <3>1, <3>2 DEF Chain
  <2>2. \A m \in 0 .. At(s, d[i]) : d[i] + m \in 0 .. RingLen - 1 /\ d[i] + m < y
    BY <1>0, <1>4, <2>1
  <2>3. \A x \in 0 .. RingLen - 1 : x < y => At(g, x) = At(s, x)
    BY <1>4, <1>8, <1>9 DEF At
  <2>4. d[i] \in 0 .. RingLen - 1 /\ d[i] < y
    BY <1>0, <1>4, <2>1
  <2>5. At(g, d[i]) = At(s, d[i]) /\ \A m \in 1 .. At(s, d[i]) : At(g, d[i] + m) = At(s, d[i] + m)
    BY <2>1, <2>2, <2>3, <2>4
  <2> QED BY <2>5 DEF Text
<1>16. Text(g, d[n]) = TextOf(l, len)
  <2>1. At(g, d[n]) = len
    BY <1>4, <1>7, <1>9 DEF At
  <2>2. \A k \in 1 .. len : At(g, d[n] + k) = l[k - 1]
    BY <1>4, <1>9, <1>14 DEF At
  <2> QED BY <2>1, <2>2 DEF Text, TextOf
<1>17. Added(s, g, n, d, f, l, len)
  BY <1>9, <1>11, <1>13, <1>15, <1>16 DEF Added
<1> QED BY <1>2, <1>17

(* What a search gives back.                                               *)
Found(a) ==
  /\ Kept(a.hist) /\ a.line \in Lines
  /\ a.len \in Int /\ (a.len >= 0 => a.len \in 0 .. LineLen - 1)

(* A record is copied into a line.                                         *)
LEMMA CopiedIs ==
  ASSUME NEW h \in Histories, NEW n, NEW d, Chain(h, n, d), NEW k \in 0 .. n, k < n, NEW l \in Lines
  PROVE  LET p == Wrap(h.begin + d[k])
         IN  Copied(h, p, l) \in Lines /\ h.buf[p] \in 1 .. LineLen - 1
<1> DEFINE p == Wrap(h.begin + d[k])
<1>1. RingLen \in Nat /\ LineLen \in Nat /\ LineLen > 0 /\ h.begin \in 0 .. RingLen - 1
  BY RingIs DEF Histories
<1>2. d[k] \in 0 .. RingLen - 1 /\ h.buf[p] \in 1 .. LineLen - 1 /\ h.buf[p] \in 1 .. RingLen - 2
  BY BehindIs DEF Chain, At
<1>3. p \in 0 .. RingLen - 1
  BY <1>1, <1>2, WrapIs
<1> HIDE DEF p
<1>4. ASSUME NEW i \in 0 .. LineLen - 1
      PROVE  (IF i < h.buf[p] THEN h.buf[Wrap(p + 1 + i)] ELSE l[i]) \in Nat
  <2>1. CASE i < h.buf[p]
    <3>1. Wrap(p + 1 + i) \in 0 .. RingLen - 1
      BY <1>1, <1>2, <1>3, <2>1 DEF Wrap
    <3> QED BY <2>1, <3>1 DEF Histories
  <2>2. CASE ~(i < h.buf[p])
    BY <2>2 DEF Lines
  <2> QED BY <2>1, <2>2
<1>5. DOMAIN l = 0 .. LineLen - 1 /\ l[LineLen - 1] = 0
  BY DEF Lines
<1>6. Copied(h, p, l) \in [0 .. LineLen - 1 -> Nat]
  BY <1>4, <1>5 DEF Copied
<1>7. Copied(h, p, l)[LineLen - 1] = 0
  <2>1. ~(LineLen - 1 < h.buf[p]) /\ LineLen - 1 \in 0 .. LineLen - 1
    BY <1>1, <1>2
  <2> QED BY <1>5, <2>1 DEF Copied
<1> QED BY <1>2, <1>6, <1>7 DEF Lines, p

(* Only the place in the history changes.                                  *)
LEMMA BrowsedIs ==
  ASSUME NEW h \in Histories, NEW n, NEW d, Chain(h, n, d), NEW c \in 0 .. n
  PROVE  Kept([h EXCEPT !.cur = c])
<1> DEFINE g == [h EXCEPT !.cur = c]
<1>1. n \in Nat /\ c \in Nat
  BY RingIs DEF Chain
<1>2. g \in Histories /\ g.buf = h.buf /\ g.begin = h.begin /\ g.end = h.end /\ g.cur = c
  BY <1>1 DEF Histories
<1> HIDE DEF g
<1>3. \A x : At(g, x) = At(h, x)
  BY <1>2 DEF At
<1>4. Chain(g, n, d)
  BY <1>2, <1>3 DEF Chain
<1> QED BY <1>1, <1>2, <1>4 DEF Kept, g

(* Towards older lines, and towards newer ones: what is found is a line.   *)
LEMMA UpIs ==
  ASSUME NEW h, Kept(h), NEW l \in Lines
  PROVE  Found(RestoreUp(h, l))
<1>1. PICK n, d : Chain(h, n, d) /\ h.cur <= n
  BY DEF Kept
<1>2. /\ h \in Histories /\ n \in Nat /\ h.cur \in Nat /\ RingLen \in Nat /\ LineLen \in Nat /\ LineLen > 0
  <2>1. h \in Histories
    BY DEF Kept
  <2>2. h.cur \in Nat
    BY <2>1 DEF Histories
  <2>3. RingLen \in Nat /\ n \in 0 .. RingLen - 1
    BY <1>1, RingIs DEF Chain
  <2> QED BY <2>1, <2>2, <2>3, RingIs
<1>3. PICK r \in Seq(0 .. RingLen - 1) : /\ r = Records(h) /\ Len(r) = n
                                         /\ \A i \in 1 .. n : r[i] = Wrap(h.begin + d[i - 1])
  BY <1>1, <1>2, RecordsAre
<1>4. CASE h.cur >= n
  <2>1. RestoreUp(h, l) = Answer(h, l, -1)
    BY <1>3, <1>4 DEF RestoreUp
  <2> QED BY <2>1 DEF Found, Answer
<1>5. CASE ~(h.cur >= n)
  <2> DEFINE g == [h EXCEPT !.cur = @ + 1]
             clear == [i \in DOMAIN l |-> 0]
  <2>1. PICK k \in 0 .. n : k = n - h.cur - 1 /\ k < n /\ n - h.cur \in 1 .. n /\ h.cur + 1 \in 0 .. n
    BY <1>2, <1>5
  <2>2. r[n - h.cur] = Wrap(h.begin + d[k])
    BY <1>3, <2>1
  <2>3. RestoreUp(h, l) = Answer(g, Copied(h, r[n - h.cur], clear), h.buf[r[n - h.cur]])
    BY <1>3, <1>5 DEF RestoreUp
  <2>4. clear \in Lines
    BY <1>2 DEF Lines
  <2> HIDE DEF clear
  <2>5. g = [h EXCEPT !.cur = h.cur + 1]
    BY <1>2 DEF Histories
  <2>6. Kept(g)
    BY <1>1, <1>2, <2>1, <2>5, BrowsedIs
  <2>7. /\ Copied(h, Wrap(h.begin + d[k]), clear) \in Lines
        /\ h.buf[Wrap(h.begin + d[k])] \in 1 .. LineLen - 1
    BY <1>1, <1>2, <2>1, <2>4, CopiedIs
  <2> HIDE DEF g
  <2>8. /\ RestoreUp(h, l).hist = g /\ RestoreUp(h, l).line \in Lines
        /\ RestoreUp(h, l).len \in 1 .. LineLen - 1
    BY <2>2, <2>3, <2>7 DEF Answer
  <2> QED BY <1>2, <2>6, <2>8 DEF Found
<1> QED BY <1>4, <1>5

LEMMA DownIs ==
  ASSUME NEW h, Kept(h), NEW l \in Lines
  PROVE  Found(RestoreDown(h, l))
<1>1. PICK n, d : Chain(h, n, d) /\ h.cur <= n
  BY DEF Kept
<1>2. /\ h \in Histories /\ n \in Nat /\ h.cur \in Nat /\ RingLen \in Nat /\ LineLen \in Nat /\ LineLen > 0
  <2>1. h \in Histories
    BY DEF Kept
  <2>2. h.cur \in Nat
    BY <2>1 DEF Histories
  <2>3. RingLen \in Nat /\ n \in 0 .. RingLen - 1
    BY <1>1, RingIs DEF Chain
  <2> QED BY <2>1, <2>2, <2>3, RingIs
<1>3. PICK r \in Seq(0 .. RingLen - 1) : /\ r = Records(h) /\ Len(r) = n
                                         /\ \A i \in 1 .. n : r[i] = Wrap(h.begin + d[i - 1])
  BY <1>1, <1>2, RecordsAre
<1> DEFINE g == [h EXCEPT !.cur = @ - 1]
<1>4. CASE h.cur = 0
  <2>1. RestoreDown(h, l) = Answer(h, l, 0)
    BY <1>4 DEF RestoreDown
  <2> QED BY <1>2, <2>1 DEF Found, Answer
<1>5. CASE h.cur # 0
  <2>1. PICK c \in 0 .. n : c = h.cur - 1 /\ c < n
    BY <1>1, <1>2, <1>5
  <2>2. g = [h EXCEPT !.cur = c] /\ g.cur = c
    BY <1>2, <2>1 DEF Histories
  <2>3. Kept(g)
    BY <1>1, <1>2, <2>2, BrowsedIs
  <2>4. CASE c = 0
    <3>1. RestoreDown(h, l) = Answer(g, l, 0)
      BY <1>5, <2>2, <2>4 DEF RestoreDown
    <3> HIDE DEF g
    <3> QED BY <1>2, <2>3, <3>1 DEF Found, Answer
  <2>5. CASE c # 0
    <3>0. n \in Nat /\ c \in 1 .. n
      BY <1>2, <2>1, <2>5
    <3>1. PICK k \in 0 .. n : k = n - c /\ k < n /\ n - c + 1 \in 1 .. n /\ (n - c + 1) - 1 = k
      BY ONLY <3>0
    <3>2. r[n - c + 1] = Wrap(h.begin + d[k])
      BY <1>3, <3>1
    <3>3. RestoreDown(h, l) = Answer(g, Copied(h, r[n - c + 1], l), h.buf[r[n - c + 1]])
      BY <1>3, <1>5, <2>2, <2>5 DEF RestoreDown
    <3>4. /\ Copied(h, Wrap(h.begin + d[k]), l) \in Lines
          /\ h.buf[Wrap(h.begin + d[k])] \in 1 .. LineLen - 1
      BY <1>1, <1>2, <3>1, CopiedIs
    <3> HIDE DEF g
    <3>5. /\ RestoreDown(h, l).hist = g /\ RestoreDown(h, l).line \in Lines
          /\ RestoreDown(h, l).len \in 1 .. LineLen - 1
      BY <3>2, <3>3, <3>4 DEF Answer
    <3> QED BY <1>2, <2>3, <3>5 DEF Found
  <2> QED BY <2>4, <2>5
<1> QED BY <1>4, <1>5

-----------------------------------------------------------------------------
(* The terminal and the buffer                                             *)

Terminals == [row : [Columns -> Int], col : Int]

(* The terminal shows the line and the cursor behind the prompt.           *)
Shows(t, l, len, cur) ==
  /\ t.col = PromptLen + cur
  /\ \A i \in 0 .. len - 1 : t.row[PromptLen + i] = l[i]
  /\ len > 0 => \A c \in Columns : c >= PromptLen + len => t.row[c] = 0

(* The sizes of the terminal.                                              *)
LEMMA SizesAre == PromptLen \in Nat /\ LineLen \in Nat /\ LineLen > 0 /\ Columns = 0 .. PromptLen + LineLen
BY EditorAssumption DEF Columns

(* The cursor moves.                                                       *)
LEMMA MovedIs ==
  ASSUME NEW t \in Terminals, NEW n \in Int
  PROVE  /\ MoveCursor(t, n) \in Terminals /\ MoveCursor(t, n).row = t.row /\ MoveCursor(t, n).col = t.col + n
         /\ ResetCursor(t) \in Terminals /\ ResetCursor(t).row = t.row /\ ResetCursor(t).col = PromptLen
<1>1. t.col \in Int /\ PromptLen \in Int
  BY SizesAre DEF Terminals
<1>2. MoveCursor(t, n) = [t EXCEPT !.col = t.col + n]
  BY DEF MoveCursor
<1>3. \A c \in Int : LET u == [t EXCEPT !.col = c] IN u \in Terminals /\ u.row = t.row /\ u.col = c
  BY DEF Terminals
<1> QED BY <1>1, <1>2, <1>3 DEF ResetCursor

(* A line is shown when it is printed from a place before which it is.     *)
LEMMA PrintedIs ==
  ASSUME NEW t \in Terminals, NEW l \in Lines, NEW len \in 0 .. LineLen - 1,
         NEW pos \in 0 .. len, NEW cur \in 0 .. len
  PROVE  /\ PrintLine(t, l, len, pos, cur) \in Terminals
         /\ t.col = PromptLen + pos /\ (\A i \in 0 .. pos - 1 : t.row[PromptLen + i] = l[i])
              => Shows(PrintLine(t, l, len, pos, cur), l, len, cur)
<1>0. /\ PromptLen \in Nat /\ LineLen \in Nat /\ Columns = 0 .. PromptLen + LineLen
      /\ len \in Nat /\ pos \in Nat /\ cur \in Nat /\ t.col \in Int /\ t.row \in [Columns -> Int]
  BY SizesAre DEF Terminals
<1> DEFINE row == [c \in Columns |-> IF c < t.col THEN t.row[c]
                                     ELSE IF pos + c - t.col < len THEN l[pos + c - t.col] ELSE 0]
<1>1. row \in [Columns -> Int]
  <2> SUFFICES ASSUME NEW c \in Columns
               PROVE  (IF c < t.col THEN t.row[c]
                       ELSE IF pos + c - t.col < len THEN l[pos + c - t.col] ELSE 0) \in Int
    OBVIOUS
  <2>1. CASE ~(c < t.col) /\ pos + c - t.col < len
    <3>1. pos + c - t.col \in 0 .. LineLen - 1
      BY <1>0, <2>1
    <3> QED BY <2>1, <3>1 DEF Lines
  <2>2. CASE c < t.col
    BY <1>0, <2>2
  <2>3. CASE ~(c < t.col) /\ ~(pos + c - t.col < len)
    BY <2>3
  <2> QED BY <2>1, <2>2, <2>3
<1>2. \A c \in Columns : row[c] = IF c < t.col THEN t.row[c]
                                  ELSE IF pos + c - t.col < len THEN l[pos + c - t.col] ELSE 0
  OBVIOUS
<1>3. PrintLine(t, l, len, pos, cur) = MoveCursor(ResetCursor([t EXCEPT !.row = row]), cur)
  BY DEF PrintLine
<1> HIDE DEF row
<1>4. PICK u \in Terminals : u = PrintLine(t, l, len, pos, cur) /\ u.row = row /\ u.col = PromptLen + cur
  <2>1. PICK v \in Terminals : v = [t EXCEPT !.row = row] /\ v.row = row
    <3>1. \A x \in [Columns -> Int] : [t EXCEPT !.row = x] \in Terminals /\ [t EXCEPT !.row = x].row = x
      BY DEF Terminals
    <3> QED BY <1>1, <3>1
  <2>2. PICK w \in Terminals : w = ResetCursor(v) /\ w.row = row /\ w.col = PromptLen
    BY <1>0, <2>1, MovedIs
  <2>3. cur \in Int
    BY <1>0
  <2> QED BY <1>3, <2>1, <2>2, <2>3, MovedIs
<1>5. ASSUME t.col = PromptLen + pos, \A i \in 0 .. pos - 1 : t.row[PromptLen + i] = l[i]
      PROVE  Shows(u, l, len, cur)
  <2>1. ASSUME NEW i \in 0 .. len - 1
        PROVE  u.row[PromptLen + i] = l[i]
    <3>1. PromptLen + i \in Columns
      BY <1>0
    <3>2. CASE i < pos
      BY <1>0, <1>2, <1>4, <1>5, <3>1, <3>2
    <3>3. CASE ~(i < pos)
      <4>1. ~(PromptLen + i < t.col) /\ pos + (PromptLen + i) - t.col = i
        BY <1>0, <1>5, <3>3
      <4> QED BY <1>0, <1>2, <1>4, <3>1, <4>1
    <3> QED BY <3>2, <3>3
  <2>2. ASSUME NEW c \in Columns, c >= PromptLen + len
        PROVE  u.row[c] = 0
    <3>1. ~(c < t.col) /\ ~(pos + c - t.col < len)
      BY <1>0, <1>5, <2>2
    <3> QED BY <1>2, <1>4, <3>1
  <2> QED BY <1>4, <2>1, <2>2 DEF Shows
<1> QED BY <1>4, <1>5

(* Text is inserted.                                                       *)
LEMMA InsertedIs ==
  ASSUME NEW l \in Lines, NEW len \in 0 .. LineLen - 1, NEW cur \in 0 .. len, NEW s \in Seq(Nat),
         Fits(len, s)
  PROVE  /\ InsertText(l, len, cur, s) \in Lines
         /\ \A i \in 0 .. cur - 1 : InsertText(l, len, cur, s)[i] = l[i]
         /\ len + Len(s) \in 0 .. LineLen - 1 /\ cur + Len(s) \in 0 .. len + Len(s)
<1>0. /\ LineLen \in Nat /\ LineLen > 0 /\ DOMAIN l = 0 .. LineLen - 1 /\ l[LineLen - 1] = 0
      /\ len \in Nat /\ cur \in Nat
  BY SizesAre DEF Lines
<1>1. PICK m \in Nat : m = Len(s) /\ len + m < LineLen
  BY DEF Fits
<1> DEFINE f == InsertText(l, len, cur, s)
<1>2. DOMAIN f = 0 .. LineLen - 1 /\ \A i \in 0 .. LineLen - 1 :
        f[i] = IF i < cur THEN l[i]
               ELSE IF i < cur + m THEN s[i - cur + 1]
               ELSE IF i < len + m THEN l[i - m]
               ELSE IF i = len + m THEN 0 ELSE l[i]
  BY <1>0, <1>1 DEF InsertText
<1>3. f = [i \in 0 .. LineLen - 1 |-> f[i]]
  BY <1>0, <1>1 DEF InsertText
<1> HIDE DEF f
<1>4. ASSUME NEW i \in 0 .. LineLen - 1
      PROVE  f[i] \in Nat
  <2>1. l[i] \in Nat
    BY DEF Lines
  <2>2. CASE i < cur
    BY <1>2, <2>1, <2>2
  <2>3. CASE ~(i < cur) /\ i < cur + m
    <3>1. i - cur + 1 \in 1 .. m
      BY <1>0, <2>3
    <3>2. s[i - cur + 1] \in Nat
      BY <1>1, <3>1
    <3> QED BY <1>2, <2>3, <3>2
  <2>4. CASE ~(i < cur) /\ ~(i < cur + m) /\ i < len + m
    <3>1. i - m \in 0 .. LineLen - 1
      BY <1>0, <1>1, <2>4
    <3>2. l[i - m] \in Nat
      BY <3>1 DEF Lines
    <3> QED BY <1>2, <2>4, <3>2
  <2>5. CASE ~(i < cur) /\ ~(i < cur + m) /\ ~(i < len + m)
    BY <1>2, <2>1, <2>5
  <2> QED BY <2>2, <2>3, <2>4, <2>5
<1>5. f \in [0 .. LineLen - 1 -> Nat]
  BY <1>3, <1>4
<1>6. f[LineLen - 1] = 0
  <2>1. ~(LineLen - 1 < cur) /\ ~(LineLen - 1 < cur + m) /\ ~(LineLen - 1 < len + m) /\ LineLen - 1 \in 0 .. LineLen - 1
    BY <1>0, <1>1
  <2> QED BY <1>0, <1>2, <2>1
<1>7. \A i \in 0 .. cur - 1 : f[i] = l[i]
  <2>1. \A i \in 0 .. cur - 1 : i \in 0 .. LineLen - 1 /\ i < cur
    BY <1>0
  <2> QED BY <1>2, <2>1
<1>8. len + m \in 0 .. LineLen - 1 /\ cur + m \in 0 .. len + m
  BY <1>0, <1>1
<1> QED BY <1>1, <1>5, <1>6, <1>7, <1>8 DEF Lines, f

(* A character is removed.                                                 *)
LEMMA RemovedIs ==
  ASSUME NEW l \in Lines, NEW len \in 0 .. LineLen - 1, NEW cur \in 1 .. len
  PROVE  /\ Removed(l, len, cur) \in Lines
         /\ \A i \in 0 .. cur - 2 : Removed(l, len, cur)[i] = l[i]
<1>0. /\ LineLen \in Nat /\ LineLen > 0 /\ DOMAIN l = 0 .. LineLen - 1 /\ l[LineLen - 1] = 0
      /\ len \in Nat /\ cur \in Nat
  BY SizesAre DEF Lines
<1>1. ASSUME NEW i \in 0 .. LineLen - 1
      PROVE  (IF i = len THEN 0 ELSE IF i \in cur - 1 .. len - 1 THEN l[i + 1] ELSE l[i]) \in Nat
  <2>1. i \in cur - 1 .. len - 1 => i + 1 \in 0 .. LineLen - 1
    BY <1>0
  <2> QED BY <2>1 DEF Lines
<1>2. Removed(l, len, cur) \in [0 .. LineLen - 1 -> Nat]
  BY <1>0, <1>1 DEF Removed
<1>3. Removed(l, len, cur)[LineLen - 1] = 0
  BY <1>0 DEF Removed
<1>4. \A i \in 0 .. cur - 2 : Removed(l, len, cur)[i] = l[i]
  BY <1>0 DEF Removed
<1> QED BY <1>2, <1>3, <1>4 DEF Lines

(* The line without everything before the cursor ends in its buffer.       *)
LEMMA RemovedAllIs ==
  ASSUME NEW l \in Lines, NEW len \in 0 .. LineLen - 1, NEW cur \in 0 .. len
  PROVE  RemovedAll(l, len, cur) \in Lines
<1>0. /\ LineLen \in Nat /\ LineLen > 0 /\ DOMAIN l = 0 .. LineLen - 1 /\ l[LineLen - 1] = 0
      /\ len \in Nat /\ cur \in Nat
  BY SizesAre DEF Lines
<1>1. ASSUME NEW i \in 0 .. LineLen - 1
      PROVE  (IF i <= len - cur THEN l[i + cur] ELSE IF i <= len THEN 0 ELSE l[i]) \in Nat
  <2>1. i <= len - cur => i + cur \in 0 .. LineLen - 1
    BY <1>0
  <2> QED BY <2>1 DEF Lines
<1>2. RemovedAll(l, len, cur) \in [0 .. LineLen - 1 -> Nat]
  BY <1>0, <1>1 DEF RemovedAll
<1>3. RemovedAll(l, len, cur)[LineLen - 1] = 0
  <2>1. CASE LineLen - 1 <= len - cur
    <3>1. LineLen - 1 + cur = LineLen - 1
      BY <1>0, <2>1
    <3> QED BY <1>0, <2>1, <3>1 DEF RemovedAll
  <2>2. CASE ~(LineLen - 1 <= len - cur)
    BY <1>0, <2>2 DEF RemovedAll
  <2> QED BY <2>1, <2>2
<1> QED BY <1>2, <1>3 DEF Lines

(* The terminal goes back.                                                 *)
LEMMA BackIs ==
  ASSUME NEW t \in Terminals, NEW n \in Nat
  PROVE  /\ Backspaces(t, n) \in Terminals
         /\ n <= t.col => /\ Backspaces(t, n).col = t.col - n
                          /\ \A c \in Columns : c < t.col - n => Backspaces(t, n).row[c] = t.row[c]
<1>0. t.col \in Int /\ t.row \in [Columns -> Int] /\ Columns \subseteq Nat
  BY SizesAre DEF Terminals
<1> DEFINE row == [c \in Columns |-> IF c \in t.col - n .. t.col - 1 \/ (c = 0 /\ n > t.col) THEN 0 ELSE t.row[c]]
<1>1. row \in [Columns -> Int]
  BY <1>0
<1>2. \A c \in Columns : c < t.col - n /\ n <= t.col => row[c] = t.row[c]
  BY <1>0
<1>3. Backspaces(t, n) = [row |-> row, col |-> IF n > t.col THEN 0 ELSE t.col - n]
  BY DEF Backspaces
<1> HIDE DEF row
<1> QED BY <1>0, <1>1, <1>2, <1>3 DEF Terminals

-----------------------------------------------------------------------------
(* The completion                                                          *)

Word == Seq(Characters)

LEMMA SeqOver ==
  ASSUME NEW S, NEW T, NEW q \in Seq(S), \A i \in 1 .. Len(q) : q[i] \in T
  PROVE  q \in Seq(T)
OBVIOUS

(* The commands are words.                                                 *)
LEMMA CharactersAre ==
  /\ Characters \subseteq Nat \ {0} /\ Letters \subseteq Characters
  /\ Keywords \in Seq(Word) /\ \A c \in DOMAIN Subwords : Subwords[c] \in Seq(Word)
<1> DEFINE N == Nat \ {0}
           L == ToSet(Keywords) \union UNION {ToSet(Subwords[c]) : c \in DOMAIN Subwords}
           D == UNION {ToSet(w) : w \in L}
<1>1. Characters = Letters \union D
  BY DEF Characters
<1>2. Letters \subseteq N /\ Keywords \in Seq(Seq(N)) /\ \A c \in DOMAIN Subwords : Subwords[c] \in Seq(Seq(N))
  BY EditorAssumption, KeywordsAssumption
<1>3. ASSUME NEW T, NEW q \in Seq(T)
      PROVE  (\A x \in ToSet(q) : x \in T) /\ \A i \in 1 .. Len(q) : q[i] \in ToSet(q)
  BY DEF ToSet
<1>4. \A w \in L : w \in Seq(N)
  <2>1. \A w \in ToSet(Keywords) : w \in Seq(N)
    BY <1>2, <1>3
  <2>2. \A c \in DOMAIN Subwords : \A w \in ToSet(Subwords[c]) : w \in Seq(N)
    BY <1>2, <1>3
  <2> QED BY <2>1, <2>2
<1>5. \A w \in L : ToSet(w) \subseteq N /\ ToSet(w) \subseteq D
  BY <1>3, <1>4
<1>6. D \subseteq N
  BY <1>5
<1>7. \A w \in L : w \in Word
  <2> SUFFICES ASSUME NEW w \in L
               PROVE  w \in Word
    OBVIOUS
  <2>1. w \in Seq(N) /\ ToSet(w) \subseteq Characters
    BY <1>1, <1>4, <1>5
  <2>2. \A i \in 1 .. Len(w) : w[i] \in Characters
    BY <1>3, <2>1
  <2> HIDE DEF L, N
  <2> QED BY <2>1, <2>2 DEF Word
<1>8. ASSUME NEW q \in Seq(Seq(N)), ToSet(q) \subseteq L
      PROVE  q \in Seq(Word)
  <2>1. \A i \in 1 .. Len(q) : q[i] \in Word
    BY <1>3, <1>7, <1>8
  <2> QED BY ONLY <2>1, <1>8, SeqOver
<1>9. Keywords \in Seq(Word)
  <2>1. ToSet(Keywords) \subseteq L
    OBVIOUS
  <2> QED BY <1>2, <1>8, <2>1
<1>10. \A c \in DOMAIN Subwords : Subwords[c] \in Seq(Word)
  <2>1. \A c \in DOMAIN Subwords : ToSet(Subwords[c]) \subseteq L
    OBVIOUS
  <2> QED BY <1>2, <1>8, <2>1
<1> QED BY <1>1, <1>2, <1>6, <1>9, <1>10

(* There is a number of characters that words have in common.              *)
LEMMA CommonIs ==
  ASSUME NEW arr, arr \subseteq Word, arr # {}
  PROVE  CommonLen(arr) \in 0 .. Len(CHOOSE s \in arr : TRUE)
<1> DEFINE same(n) == (\A s \in arr : n <= Len(s)) /\ \A s, t \in arr : SubSeq(s, 1, n) = SubSeq(t, 1, n)
           S == {n \in Nat : ~same(n + 1)}
<1>1. PICK w \in arr : w = CHOOSE s \in arr : TRUE
  OBVIOUS
<1>2. Len(w) \in S
  <2>1. Len(w) \in Nat
    BY DEF Word
  <2>2. ~(Len(w) + 1 <= Len(w))
    BY <2>1
  <2> QED BY <2>1, <2>2
<1>3. PICK n \in S : \A m \in S : n <= m
  BY <1>2, LeastNat
<1>4. n \in 0 .. Len(w)
  BY <1>2, <1>3
<1>5. same(n)
  <2>1. CASE n = 0
    <3>1. \A s \in arr : 0 <= Len(s) /\ SubSeq(s, 1, 0) = <<>>
      BY DEF Word
    <3> QED BY <2>1, <3>1
  <2>2. CASE n # 0
    <3>1. n - 1 \in Nat /\ ~(n <= n - 1) /\ (n - 1) + 1 = n
      BY <2>2
    <3> HIDE DEF same
    <3>2. n - 1 \notin S
      BY <1>3, <3>1
    <3> QED BY <3>1, <3>2
  <2> QED BY <2>1, <2>2
<1>6. ~same(n + 1)
  OBVIOUS
<1>7. CommonLen(arr) = CHOOSE m \in 0 .. Len(w) : same(m) /\ ~same(m + 1)
  BY <1>1, Zenon DEF CommonLen
<1> HIDE DEF same
<1>8. CommonLen(arr) \in 0 .. Len(w)
  BY <1>4, <1>5, <1>6, <1>7
<1> QED BY <1>1, <1>8

(* A word of the line ends in it.                                          *)
LEMMA CStringIs ==
  ASSUME NEW l \in Lines, NEW p \in 0 .. LineLen - 1
  PROVE  CString(l, p) \in Seq(Nat)
<1>0. LineLen \in Nat /\ LineLen > 0 /\ l[LineLen - 1] = 0 /\ l \in [0 .. LineLen - 1 -> Nat]
  BY SizesAre DEF Lines
<1> DEFINE S == {e \in p .. LineLen - 1 : l[e] = 0}
<1>1. PICK n \in S : \A e \in S : n <= e
  <2>1. S \subseteq Nat /\ LineLen - 1 \in S
    BY <1>0
  <2> QED BY <2>1, LeastNat
<1>2. n \in p .. LineLen - 1 /\ l[n] = 0 /\ \A i \in p .. n - 1 : l[i] # 0
  <2>1. \A i \in p .. n - 1 : i \in p .. LineLen - 1 /\ ~(n <= i)
    BY <1>0
  <2> QED BY <1>1, <2>1
<1> DEFINE end == CHOOSE e \in p .. LineLen - 1 : l[e] = 0 /\ \A i \in p .. e - 1 : l[i] # 0
<1>3. end \in p .. LineLen - 1
  BY <1>2, Zenon
<1>4. CString(l, p) = [i \in 1 .. end - p |-> l[p + i - 1]]
  BY DEF CString
<1> HIDE DEF end
<1>5. \A i \in 1 .. end - p : p + i - 1 \in 0 .. LineLen - 1
  BY <1>0, <1>3
<1>6. end - p \in Nat /\ \A i \in 1 .. end - p : l[p + i - 1] \in Nat
  BY <1>0, <1>3, <1>5
<1> QED BY <1>4, <1>6

(* The words before a place, and the last of them.                         *)
LEMMA SplitIs ==
  ASSUME NEW l \in Lines, NEW limit \in 0 .. LineLen - 1
  PROVE  \E n \in Nat : /\ Split(l, limit).status \in {-1, n}
                        /\ Split(l, limit).words = [i \in 1 .. n |-> CString(l, Nth(WordBegins(l, limit), i))]
                        /\ n > 0 => Split(l, limit).words[n] \in Seq(Nat)
<1> DEFINE B == WordBegins(l, limit)
           n == Cardinality(B)
<1>0. LineLen \in Nat /\ limit \in Nat
  BY SizesAre
<1>1. B \subseteq 0 .. limit - 1
  BY DEF WordBegins
<1>2. IsFiniteSet(B) /\ n \in Nat
  <2>1. IsFiniteSet(0 .. limit - 1)
    BY <1>0, FS_Interval
  <2> QED BY <1>1, <2>1, FS_Subset, FS_CardinalityType
<1>3. /\ Split(l, limit).status \in {-1, n}
      /\ Split(l, limit).words = [i \in 1 .. n |-> CString(l, Nth(B, i))]
  BY DEF Split
<1> HIDE DEF B
<1>4. ASSUME n > 0
      PROVE  CString(l, Nth(B, n)) \in Seq(Nat)
  <2>1. B # {}
    BY <1>4, FS_EmptySet
  <2> DEFINE S == {limit - p : p \in B}
  <2>2. PICK m \in S : \A x \in S : m <= x
    <3>1. \A p \in 0 .. limit - 1 : limit - p \in Nat
      BY <1>0
    <3>2. \A p \in B : limit - p \in Nat
      BY <1>1, <3>1
    <3> HIDE DEF n
    <3>3. S \subseteq Nat /\ S # {}
      BY <2>1, <3>2
    <3> QED BY <3>3, LeastNat
  <2>3. PICK p \in B : m = limit - p
    OBVIOUS
  <2>4. \A q \in B : q <= p
    <3> SUFFICES ASSUME NEW q \in B
                 PROVE  q <= p
      OBVIOUS
    <3>1. limit - p <= limit - q
      BY <2>2, <2>3
    <3>2. p \in Int /\ q \in Int
      BY <1>1
    <3> QED BY <1>0, <3>1, <3>2
  <2>5. {q \in B : q <= p} = B
    BY <2>4
  <2>6. \E x \in B : Cardinality({q \in B : q <= x}) = n
    BY <2>5
  <2>7. Nth(B, n) \in B
    BY <2>6 DEF Nth
  <2>8. Nth(B, n) \in 0 .. LineLen - 1
    <3>1. \A x \in 0 .. limit - 1 : x \in 0 .. LineLen - 1
      BY <1>0
    <3> QED BY <1>1, <2>7, <3>1, Zenon
  <2> QED BY <2>8, CStringIs
<1>5. n > 0 => Split(l, limit).words[n] \in Seq(Nat)
  BY <1>2, <1>3, <1>4
<1> QED BY <1>2, <1>3, <1>5 DEF B

(* What the completion looks for.                                          *)
LEMMA BegunIs ==
  ASSUME line \in Lines, cursor \in 0 .. LineLen - 1, ~Overrun
  PROVE  LET s == Begun(Split(line, cursor))
         IN  s.status \in Int /\ (s.status > 0 => s.words[s.status] \in Seq(Nat))
<1>1. PICK n \in Nat : /\ Split(line, cursor).status \in {-1, n}
                       /\ Split(line, cursor).words = [i \in 1 .. n |-> CString(line, Nth(WordBegins(line, cursor), i))]
                       /\ n > 0 => Split(line, cursor).words[n] \in Seq(Nat)
  BY SplitIs
<1>2. CASE cursor = 0 \/ line[cursor - 1] = 0
  <2>1. Split(line, cursor).status = n
    BY <1>1, <1>2 DEF Overrun
  <2>2. PICK w : w = Split(line, cursor).words /\ Append(w, <<>>)[n + 1] = <<>>
    <3> DEFINE v == [i \in 1 .. n |-> CString(line, Nth(WordBegins(line, cursor), i))]
               X == {v[i] : i \in 1 .. n} \union {<<>>}
    <3>1. v \in Seq(X) /\ Len(v) = n
      OBVIOUS
    <3> HIDE DEF v, X
    <3>2. Append(v, <<>>)[n + 1] = <<>>
      BY <3>1
    <3> QED BY <1>1, <3>2 DEF v
  <2>3. Begun(Split(line, cursor)) = [status |-> n + 1, words |-> Append(w, <<>>)]
    BY <1>2, <2>1, <2>2 DEF Begun
  <2> DEFINE u == [status |-> n + 1, words |-> Append(w, <<>>)]
  <2>4. u.status = n + 1 /\ u.words = Append(w, <<>>)
    OBVIOUS
  <2>5. <<>> \in Seq(Nat)
    OBVIOUS
  <2>6. Begun(Split(line, cursor)) = u
    BY <2>3
  <2> HIDE DEF u
  <2>7. u.words[u.status] = <<>>
    BY <2>2, <2>4, Zenon
  <2>8. u.status \in Int
    BY <2>4
  <2>9. u.words[u.status] \in Seq(Nat)
    BY <2>5, <2>7
  <2> QED BY <2>6, <2>8, <2>9
<1>3. CASE ~(cursor = 0 \/ line[cursor - 1] = 0)
  <2>1. Begun(Split(line, cursor)) = Split(line, cursor)
    BY <1>3 DEF Begun
  <2> QED BY <1>1, <2>1
<1> QED BY <1>2, <1>3

(* The words a completion offers; all commands have nothing in common.     *)
LEMMA OfferedIs ==
  ASSUME NEW n \in Int, NEW ws
  PROVE  /\ Completions(n, ws) \subseteq Word
         /\ n <= 0 => CommonLen(Completions(n, ws)) = 0
<1>0. Keywords \in Seq(Word) /\ NumOfCmd \in Nat /\ NumOfCmd <= Len(Keywords)
  BY KeywordsAssumption, CharactersAre
<1>1. ASSUME NEW q \in Seq(Word)
      PROVE  ToSet(q) \subseteq Word
  BY DEF ToSet
<1>2. Offered \in Seq(Word)
  BY <1>0 DEF Offered
<1>3. \A w \in DOMAIN Subwords : Subwords[w] \in Seq(Word)
  BY CharactersAre
<1>4. ToSet(Offered) \subseteq Word /\ \A w \in DOMAIN Subwords : ToSet(Subwords[w]) \subseteq Word
  BY <1>1, <1>2, <1>3
<1>5. CommonLen(ToSet(Offered)) = 0
  BY KeywordsAssumption
<1>6. CASE n = 1
  <2>1. Completions(n, ws) = {s \in ToSet(Offered) : IsPrefix(ws[n], s)} /\ ~(n <= 0)
    BY <1>6 DEF Completions
  <2> QED BY <1>4, <2>1
<1>7. CASE n > 1 /\ ws[1] \in DOMAIN Subwords
  <2>1. Completions(n, ws) = {s \in ToSet(Subwords[ws[1]]) : IsPrefix(ws[n], s)} /\ ~(n <= 0)
    BY <1>7 DEF Completions
  <2> QED BY <1>4, <1>7, <2>1
<1>8. CASE n # 1 /\ ~(n > 1 /\ ws[1] \in DOMAIN Subwords)
  <2>1. Completions(n, ws) = ToSet(Offered)
    BY <1>8 DEF Completions
  <2> QED BY <1>4, <1>5, <2>1
<1> QED BY <1>6, <1>7, <1>8

(* The rest of a word is text.                                             *)
LEMMA MissingIs ==
  ASSUME NEW w \in Word, NEW len \in 0 .. Len(w), NEW last \in Seq(Nat)
  PROVE  Missing(w, len, last) \in Seq(Characters)
<1>1. PICK m \in Nat : m = Len(last)
  OBVIOUS
<1>2. Len(w) \in Nat /\ \A i \in 1 .. Len(w) : w[i] \in Characters
  BY DEF Word
<1>3. Missing(w, len, last) = SubSeq(w, m + 1, len)
  BY <1>1 DEF Missing
<1>4. SubSeq(w, m + 1, len) \in Seq(Characters)
  <2>1. CASE m >= len
    <3>1. SubSeq(w, m + 1, len) = <<>>
      BY <1>2, <2>1 DEF Word
    <3> QED BY <3>1
  <2>2. CASE m < len
    <3>1. w \in Seq(Characters) /\ m + 1 \in 1 .. Len(w) + 1
      BY <1>2, <2>2 DEF Word
    <3> QED BY <1>2, <3>1
  <2> QED BY <1>1, <2>1, <2>2
<1> QED BY <1>3, <1>4

LEMMA TextAre ==
  ASSUME NEW a \in Seq(Characters \union {0})
  PROVE  a \in Seq(Nat) /\ \A i \in DOMAIN a : a[i] \in Characters \union {0}
<1>1. Characters \union {0} \subseteq Nat
  BY CharactersAre
<1> QED BY <1>1

(* A completion inserts a text that fits, or nothing, and prints the line  *)
(* behind the prompt that is there or behind a new one.                    *)
Inserts(a, t) ==
  /\ a \in Seq(Characters \union {0}) /\ Fits(cmdlen, a)
  /\ t \in {screen, PrintPrompt(NewLine(screen))}
  /\ (line' = line /\ a = <<>>) \/ line' = InsertText(line, cmdlen, cursor, a)
  /\ cmdlen' = cmdlen + Len(a) /\ cursor' = cursor + Len(a)
  /\ screen' = PrintLine(ResetCursor(t), line', cmdlen', 0, cursor')

LEMMA CompletedIs ==
  ASSUME line \in Lines, cmdlen \in 0 .. LineLen - 1, cursor \in 0 .. cmdlen, Complete
  PROVE  UNCHANGED <<line, cmdlen, cursor, screen>> \/ \E a, t : Inserts(a, t)
<1> DEFINE s == Begun(Split(line, cursor))
           arr == Completions(s.status, s.words)
           single == \A v, w \in arr : v = w
           len == CommonLen(arr)
           rest == IF len > 0 THEN Missing(CHOOSE w \in arr : TRUE, len, s.words[s.status]) ELSE <<>>
           one == len > 0 /\ Fits(cmdlen, rest)
           two == len > 0 /\ single /\ Fits(IF one THEN cmdlen + Len(rest) ELSE cmdlen, <<0>>)
           added == (IF one THEN rest ELSE <<>>) \o (IF two THEN <<0>> ELSE <<>>)
           shown == IF single THEN screen ELSE PrintPrompt(NewLine(screen))
<1>1. /\ ~Overrun
      /\ IF arr = {} THEN UNCHANGED <<line, cmdlen, cursor, screen>>
         ELSE /\ line' = IF one \/ two THEN InsertText(line, cmdlen, cursor, added) ELSE line
              /\ cmdlen' = cmdlen + Len(added)
              /\ cursor' = cursor + Len(added)
              /\ screen' = PrintLine(ResetCursor(shown), line', cmdlen', 0, cursor')
  BY DEF Complete
<1>2. LineLen \in Nat /\ cmdlen \in Nat /\ cmdlen < LineLen /\ cursor \in 0 .. LineLen - 1
  BY SizesAre
<1>3. s.status \in Int /\ (s.status > 0 => s.words[s.status] \in Seq(Nat))
  BY <1>1, <1>2, BegunIs
<1>4. arr \subseteq Word /\ (s.status <= 0 => len = 0)
  BY <1>3, OfferedIs
<1> HIDE DEF s
<1>5. CASE arr = {}
  BY <1>1, <1>5
<1>6. CASE arr # {}
  <2> DEFINE first == CHOOSE w \in arr : TRUE
  <2>1. first \in Word /\ len \in 0 .. Len(first) /\ Len(first) \in Nat
    <3>1. first \in arr
      BY <1>6
    <3>2. len \in 0 .. Len(first)
      BY <1>4, <1>6, CommonIs
    <3> QED BY <1>4, <3>1, <3>2 DEF Word
  <2> HIDE DEF first, len, arr
  <2>2. rest \in Seq(Characters)
    <3>1. CASE len > 0
      <4>1. s.words[s.status] \in Seq(Nat)
        BY <1>3, <1>4, <3>1
      <4>2. rest = Missing(first, len, s.words[s.status])
        BY <3>1 DEF first
      <4> QED BY <2>1, <4>1, <4>2, MissingIs
    <3>2. CASE ~(len > 0)
      BY <3>2
    <3> QED BY <3>1, <3>2
  <2> HIDE DEF rest, single
  <2>3. PICK m \in Nat : m = Len(rest)
    BY <2>2
  <2>4. /\ one => cmdlen + m < LineLen
        /\ two /\ one => cmdlen + m + 1 < LineLen
        /\ two /\ ~one => cmdlen + 1 < LineLen
    <3>1. Len(<<0>>) = 1
      OBVIOUS
    <3> QED BY <2>3, <3>1 DEF Fits
  <2> HIDE DEF one, two, added
  <2>5. PICK p, q : /\ p = (IF one THEN rest ELSE <<>>) /\ q = (IF two THEN <<0>> ELSE <<>>)
                    /\ added = p \o q
    BY DEF added
  <2>6. /\ p \in Seq(Characters \union {0}) /\ q \in Seq(Characters \union {0})
        /\ Len(p) = (IF one THEN m ELSE 0) /\ Len(q) = (IF two THEN 1 ELSE 0)
    <3>1. /\ <<0>> \in Seq(Characters \union {0}) /\ <<>> \in Seq(Characters \union {0})
          /\ Len(<<0>>) = 1 /\ Len(<<>>) = 0
      OBVIOUS
    <3>2. rest \in Seq(Characters \union {0})
      BY <2>2
    <3>3. p \in Seq(Characters \union {0}) /\ Len(p) = (IF one THEN m ELSE 0)
      <4>1. CASE one
        <5>1. p = rest
          BY <2>5, <4>1
        <5> QED BY ONLY <2>3, <3>2, <4>1, <5>1
      <4>2. CASE ~one
        BY ONLY <2>5, <3>1, <4>2
      <4> QED BY <4>1, <4>2
    <3>4. q \in Seq(Characters \union {0}) /\ Len(q) = (IF two THEN 1 ELSE 0)
      <4>1. CASE two
        BY ONLY <2>5, <3>1, <4>1
      <4>2. CASE ~two
        BY ONLY <2>5, <3>1, <4>2
      <4> QED BY <4>1, <4>2
    <3> QED BY <3>3, <3>4
  <2>7. added \in Seq(Characters \union {0}) /\ Len(added) = Len(p) + Len(q)
    BY <2>5, <2>6
  <2>8. cmdlen + Len(added) < LineLen
    BY <1>2, <2>4, <2>6, <2>7
  <2>9. ~one /\ ~two => added = <<>>
    BY <2>5
  <2>10. (line' = line /\ added = <<>>) \/ line' = InsertText(line, cmdlen, cursor, added)
    BY <1>1, <1>6, <2>9
  <2>11. shown \in {screen, PrintPrompt(NewLine(screen))}
    OBVIOUS
  <2>12. /\ cmdlen' = cmdlen + Len(added) /\ cursor' = cursor + Len(added)
        /\ screen' = PrintLine(ResetCursor(shown), line', cmdlen', 0, cursor')
    BY <1>1, <1>6
  <2>13. Inserts(added, shown)
    BY <2>7, <2>8, <2>10, <2>11, <2>12 DEF Inserts, Fits
  <2> QED BY <2>13
<1> QED BY <1>5, <1>6

-----------------------------------------------------------------------------
(* What the lines of the history are, and which of them a new one leaves   *)

(* The text of a line, as a sequence.                                      *)
LEMMA TextIs ==
  ASSUME NEW l \in Lines, NEW len \in 0 .. LineLen - 1
  PROVE  /\ TextOf(l, len) \in Seq(Nat) /\ Len(TextOf(l, len)) = len
         /\ \A i \in 1 .. len : TextOf(l, len)[i] = l[i - 1]
<1>1. len \in Nat /\ \A i \in 1 .. len : i - 1 \in 0 .. LineLen - 1
  BY SizesAre
<1>2. \A i \in 1 .. len : l[i - 1] \in Nat
  BY <1>1 DEF Lines
<1> QED BY <1>1, <1>2 DEF TextOf

(* The lines of a chain.                                                   *)
LEMMA LinesAre ==
  ASSUME NEW h \in Histories, NEW n, NEW d, Chain(h, n, d)
  PROVE  /\ n \in Nat /\ LinesIn(h) \in Seq(Seq(Nat)) /\ Len(LinesIn(h)) = n
         /\ \A i \in 1 .. n : LinesIn(h)[i] = Text(h, d[i - 1]) /\ Len(LinesIn(h)[i]) = At(h, d[i - 1])
<1>0. RingLen \in Nat /\ n \in Nat /\ h.begin \in 0 .. RingLen - 1 /\ h.buf \in [0 .. RingLen - 1 -> Nat]
  BY RingIs DEF Chain, Histories
<1> DEFINE r == Records(h)
<1>1. r \in Seq(0 .. RingLen - 1) /\ Len(r) = n /\ \A i \in 1 .. n : r[i] = Wrap(h.begin + d[i - 1])
  BY RecordsAre
<1>2. LinesIn(h) = [i \in 1 .. n |-> RecordText(h, r[i])]
  <2>1. DOMAIN r = 1 .. n
    BY <1>1
  <2> QED BY <2>1 DEF LinesIn
<1> HIDE DEF r
<1>3. ASSUME NEW i \in 1 .. n
      PROVE  RecordText(h, r[i]) = Text(h, d[i - 1]) /\ Text(h, d[i - 1]) \in Seq(Nat)
             /\ Len(Text(h, d[i - 1])) = At(h, d[i - 1])
  <2>1. PICK k \in 0 .. n : k = i - 1 /\ k < n /\ k + 1 \in 0 .. n
    BY <1>0
  <2>2. /\ d[k] \in 0 .. RingLen - 1 /\ d[k + 1] \in 0 .. RingLen - 1 /\ d[k + 1] = d[k] + At(h, d[k]) + 1
        /\ At(h, d[k]) \in 1 .. RingLen - 2
    BY <2>1, BehindIs DEF Chain
  <2>3. \A m \in 1 .. At(h, d[k]) : d[k] + m \in 0 .. RingLen - 1 /\ m \in Nat /\ d[k] \in Nat
    <3>1. PICK x, y, a \in Int : x = d[k] /\ y = d[k + 1] /\ a = At(h, d[k])
      BY <1>0, <2>2
    <3>2. x \in 0 .. RingLen - 1 /\ y \in 0 .. RingLen - 1 /\ y = x + a + 1
      BY <2>2, <3>1
    <3>3. \A m \in 1 .. a : x + m \in 0 .. RingLen - 1 /\ m \in Nat /\ x \in Nat
      BY <1>0, <3>2
    <3> QED BY <3>1, <3>3
  <2>4. \A m \in 1 .. At(h, d[k]) : Wrap(Wrap(h.begin + d[k]) + m) = Wrap(h.begin + (d[k] + m))
    BY <1>0, <2>3, WrapMore
  <2>5. RecordText(h, r[i]) = [m \in 1 .. At(h, d[k]) |-> h.buf[Wrap(Wrap(h.begin + d[k]) + m)]]
    BY <1>1, <2>1 DEF RecordText, At
  <2>6. RecordText(h, r[i]) = Text(h, d[k])
    BY <2>4, <2>5 DEF Text, At
  <2>7. \A m \in 1 .. At(h, d[k]) : At(h, d[k] + m) \in Nat
    BY <1>0, <2>3, WrapIs DEF At
  <2>8. Text(h, d[k]) \in Seq(Nat) /\ Len(Text(h, d[k])) = At(h, d[k])
    <3>1. At(h, d[k]) \in Nat
      BY <1>0, <2>2
    <3> QED BY <2>7, <3>1 DEF Text
  <2> QED BY <2>1, <2>6, <2>8
<1>4. \A i \in 1 .. n : LinesIn(h)[i] = Text(h, d[i - 1]) /\ Len(LinesIn(h)[i]) = At(h, d[i - 1]) /\ LinesIn(h)[i] \in Seq(Nat)
  BY <1>2, <1>3
<1>5. LinesIn(h) \in [1 .. n -> Seq(Nat)]
  BY <1>2, <1>4
<1>6. LinesIn(h) \in Seq(Seq(Nat)) /\ Len(LinesIn(h)) = n
  BY <1>0, <1>5
<1> QED BY <1>0, <1>4, <1>6

(* They do not depend on the place in the history.                         *)
LEMMA BrowsedLines ==
  ASSUME NEW h \in Histories, NEW n, NEW d, Chain(h, n, d), NEW c \in Nat
  PROVE  [h EXCEPT !.cur = c].cur = c /\ LinesIn([h EXCEPT !.cur = c]) = LinesIn(h)
<1> DEFINE g == [h EXCEPT !.cur = c]
<1>1. g \in Histories /\ g.buf = h.buf /\ g.begin = h.begin /\ g.end = h.end /\ g.cur = c
  BY DEF Histories
<1> HIDE DEF g
<1>2. \A x : At(g, x) = At(h, x)
  BY <1>1 DEF At
<1>3. Chain(g, n, d)
  BY <1>1, <1>2 DEF Chain
<1>4. n \in Nat /\ Len(LinesIn(g)) = n /\ Len(LinesIn(h)) = n /\ LinesIn(g) \in Seq(Seq(Nat)) /\ LinesIn(h) \in Seq(Seq(Nat))
  BY <1>1, <1>3, LinesAre
<1>5. \A i \in 1 .. n : LinesIn(g)[i] = Text(g, d[i - 1]) /\ LinesIn(h)[i] = Text(h, d[i - 1])
  BY <1>1, <1>3, LinesAre
<1>6. \A x : Text(g, x) = Text(h, x)
  BY <1>2 DEF Text
<1>7. LinesIn(g) = LinesIn(h)
  BY <1>4, <1>5, <1>6
<1> QED BY <1>1, <1>7 DEF g

(* D are the sums of what the lines take.                                  *)
Sums(s, D) ==
  /\ D \in [0 .. Len(s) -> Nat] /\ D[0] = 0
  /\ \A i \in 1 .. Len(s) : D[i] = D[i - 1] + Len(s[i]) + 1

(* They grow.                                                              *)
LEMMA SumsGrow ==
  ASSUME NEW s \in Seq(Seq(Nat)), NEW D, Sums(s, D), NEW i \in 0 .. Len(s), NEW j \in 0 .. Len(s), i <= j
  PROVE  D[i] \in Nat /\ D[j] \in Nat /\ D[i] <= D[j]
<1> DEFINE n == Len(s)
           W == {k \in 0 .. n : i <= k /\ ~(D[i] <= D[k])}
<1>0. n \in Nat /\ \A k \in 1 .. n : Len(s[k]) \in Nat
  OBVIOUS
<1>1. (\A k \in 0 .. n : D[k] \in Nat) /\ \A k \in 1 .. n : D[k] = D[k - 1] + Len(s[k]) + 1
  BY DEF Sums
<1>2. CASE W = {}
  BY <1>1, <1>2
<1>3. CASE W # {}
  <2>1. PICK k \in W : \A m \in W : k <= m
    <3>1. W \subseteq Nat
      BY <1>0
    <3> HIDE DEF W
    <3> QED BY <1>3, <3>1, LeastNat
  <2>2. k \in 0 .. n /\ i <= k /\ ~(D[i] <= D[k])
    OBVIOUS
  <2>3. k # i
    BY <1>1, <2>2
  <2>4. k - 1 \in 0 .. n /\ i <= k - 1 /\ ~(k <= k - 1) /\ k \in 1 .. n
    BY <1>0, <2>2, <2>3
  <2>5. D[i] <= D[k - 1]
    BY <2>1, <2>4
  <2>6. D[k] = D[k - 1] + Len(s[k]) + 1 /\ Len(s[k]) \in Nat /\ D[k] \in Nat /\ D[k - 1] \in Nat /\ D[i] \in Nat
    BY <1>0, <1>1, <2>2, <2>4
  <2> QED BY <2>2, <2>5, <2>6
<1> QED BY <1>2, <1>3

(* A byte of a line is a number below the sum.                             *)
LEMMA BytesCount ==
  ASSUME NEW s \in Seq(Seq(Nat)), NEW D, Sums(s, D)
  PROVE  Promise!Bytes(s) = 1 + D[Len(s)]
<1> DEFINE n == Len(s)
           S == UNION {{i} \X (0 .. Len(s[i])) : i \in DOMAIN s}
           T == 0 .. D[n] - 1
           f == [x \in S |-> D[x[1] - 1] + x[2]]
<1>0. n \in Nat /\ DOMAIN s = 1 .. n /\ \A i \in 1 .. n : Len(s[i]) \in Nat
  OBVIOUS
<1>1. /\ \A i \in 0 .. n : D[i] \in Nat
      /\ D[0] = 0
      /\ \A i \in 1 .. n : D[i] = D[i - 1] + Len(s[i]) + 1
  BY DEF Sums
<1> HIDE DEF n
<1>2. \A i \in 1 .. n : i - 1 \in 0 .. n /\ i \in 0 .. n
  BY <1>0
<1>3. ASSUME NEW i \in 0 .. n, NEW j \in 0 .. n, i <= j
      PROVE  D[i] <= D[j]
  BY <1>3, SumsGrow DEF n
<1>4. ASSUME NEW x \in S
      PROVE  /\ x[1] \in 1 .. n /\ x[2] \in Nat /\ x = <<x[1], x[2]>>
             /\ x[2] <= Len(s[x[1]])
             /\ f[x] = D[x[1] - 1] + x[2] /\ f[x] \in Nat
             /\ D[x[1] - 1] <= f[x] /\ f[x] < D[x[1]]
  <2>1. PICK i \in 1 .. n : x \in {i} \X (0 .. Len(s[i]))
    BY <1>0
  <2>2. x[1] = i /\ x[2] \in 0 .. Len(s[i]) /\ x = <<x[1], x[2]>>
    BY <2>1
  <2>3. D[i] = D[i - 1] + Len(s[i]) + 1 /\ D[i - 1] \in Nat /\ Len(s[i]) \in Nat
    BY <1>0, <1>1, <1>2
  <2>4. f[x] = D[x[1] - 1] + x[2]
    OBVIOUS
  <2> HIDE DEF f
  <2> QED BY <2>2, <2>3, <2>4
<1>5. ASSUME NEW i \in 1 .. n, NEW k \in 0 .. Len(s[i])
      PROVE  <<i, k>> \in S
  <2>1. i \in DOMAIN s /\ <<i, k>> \in {i} \X (0 .. Len(s[i]))
    BY <1>0
  <2> QED BY <2>1, Zenon
<1>6. DOMAIN f = S
  OBVIOUS
<1> HIDE DEF S, f
<1>7. f \in [S -> T]
  <2>1. \A x \in S : f[x] \in T
    <3> SUFFICES ASSUME NEW x \in S
                 PROVE  f[x] \in T
      OBVIOUS
    <3>1. x[1] \in 0 .. n /\ n \in 0 .. n /\ x[1] <= n
      BY <1>0, <1>4
    <3>2. D[x[1]] <= D[n] /\ D[x[1]] \in Nat /\ D[n] \in Nat
      BY <1>1, <1>3, <3>1
    <3>3. f[x] \in Nat /\ f[x] < D[x[1]]
      BY <1>4
    <3> QED BY <3>2, <3>3
  <2>2. f = [x \in S |-> f[x]]
    BY <1>6 DEF f
  <2> QED BY <2>1, <2>2
<1>8. ASSUME NEW x \in S, NEW y \in S, f[x] = f[y]
      PROVE  x = y
  <2>0. /\ x[1] \in 1 .. n /\ y[1] \in 1 .. n /\ x[2] \in Nat /\ y[2] \in Nat
        /\ x = <<x[1], x[2]>> /\ y = <<y[1], y[2]>>
        /\ f[x] = D[x[1] - 1] + x[2] /\ f[y] = D[y[1] - 1] + y[2] /\ f[x] \in Nat
        /\ D[x[1] - 1] <= f[x] /\ f[x] < D[x[1]] /\ D[y[1] - 1] <= f[y] /\ f[y] < D[y[1]]
    BY <1>4
  <2>1. ~(x[1] < y[1])
    <3> SUFFICES ASSUME x[1] < y[1]
                 PROVE  FALSE
      OBVIOUS
    <3>0. n \in Nat /\ \A i, j \in 1 .. n : i < j => i \in 0 .. n /\ j - 1 \in 0 .. n /\ i <= j - 1
      BY <1>0
    <3>1. x[1] \in 0 .. n /\ y[1] - 1 \in 0 .. n /\ x[1] <= y[1] - 1
      BY <2>0, <3>0
    <3>2. D[x[1]] <= D[y[1] - 1] /\ D[x[1]] \in Nat /\ D[y[1] - 1] \in Nat
      BY <1>1, <1>3, <3>1
    <3> QED BY <1>8, <2>0, <3>2
  <2>2. ~(y[1] < x[1])
    <3> SUFFICES ASSUME y[1] < x[1]
                 PROVE  FALSE
      OBVIOUS
    <3>0. n \in Nat /\ \A i, j \in 1 .. n : i < j => i \in 0 .. n /\ j - 1 \in 0 .. n /\ i <= j - 1
      BY <1>0
    <3>1. y[1] \in 0 .. n /\ x[1] - 1 \in 0 .. n /\ y[1] <= x[1] - 1
      BY <2>0, <3>0
    <3>2. D[y[1]] <= D[x[1] - 1] /\ D[y[1]] \in Nat /\ D[x[1] - 1] \in Nat
      BY <1>1, <1>3, <3>1
    <3> QED BY <1>8, <2>0, <3>2
  <2>3. x[1] = y[1]
    BY <1>0, <2>0, <2>1, <2>2
  <2>4. D[x[1] - 1] \in Nat
    BY <1>1, <1>2, <2>0
  <2>5. x[2] = y[2]
    <3>1. D[x[1] - 1] + x[2] = D[x[1] - 1] + y[2] /\ x[2] \in Nat /\ y[2] \in Nat
      BY <1>8, <2>0, <2>3
    <3> HIDE DEF S
    <3> QED BY ONLY <2>4, <3>1
  <2> QED BY <2>0, <2>3, <2>5
<1>9. ASSUME NEW t \in T
      PROVE  \E x \in S : f[x] = t
  <2>0. t \in Nat /\ t < D[n] /\ n \in 0 .. n
    BY <1>0, <1>1
  <2> DEFINE W == {i \in 0 .. n : t < D[i]}
  <2>1. PICK i \in W : \A m \in W : i <= m
    <3>1. W \subseteq Nat /\ W # {}
      BY <1>0, <2>0
    <3> HIDE DEF W
    <3> QED BY <3>1, LeastNat
  <2>2. i \in 0 .. n /\ t < D[i]
    OBVIOUS
  <2>3. i # 0
    BY <1>1, <2>0, <2>2
  <2>4. i \in 1 .. n /\ i - 1 \in 0 .. n /\ ~(i <= i - 1)
    BY <1>0, <2>2, <2>3
  <2>5. ~(t < D[i - 1])
    BY <2>1, <2>4
  <2> DEFINE k == t - D[i - 1]
  <2>6. k \in 0 .. Len(s[i]) /\ D[i - 1] + k = t
    <3>1. D[i] = D[i - 1] + Len(s[i]) + 1 /\ D[i - 1] \in Nat /\ Len(s[i]) \in Nat
      BY <1>0, <1>1, <2>4
    <3> QED BY <2>0, <2>2, <2>5, <3>1
  <2> HIDE DEF k
  <2>7. <<i, k>> \in S
    BY <1>5, <2>4, <2>6
  <2>8. f[<<i, k>>] = t
    <3>1. <<i, k>>[1] = i /\ <<i, k>>[2] = k
      OBVIOUS
    <3>2. f[<<i, k>>] = D[<<i, k>>[1] - 1] + <<i, k>>[2]
      BY <1>4, <2>7
    <3> QED BY <2>6, <3>1, <3>2
  <2> QED BY <2>7, <2>8
<1>10. f \in Bijection(S, T)
  BY <1>7, <1>8, <1>9 DEF Bijection, Injection, Surjection, IsInjective
<1>11. Cardinality(S) = D[n]
  <2>1. D[n] \in Nat
    BY <1>0, <1>1
  <2>2. IsFiniteSet(T) /\ Cardinality(T) = D[n]
    <3>1. PICK m \in Nat : m = D[n]
      BY <2>1
    <3>2. IsFiniteSet(0 .. m - 1) /\ Cardinality(0 .. m - 1) = IF 0 > m - 1 THEN 0 ELSE m - 1 - 0 + 1
      <4>1. 0 \in Int /\ m - 1 \in Int
        OBVIOUS
      <4> QED BY ONLY <4>1, FS_Interval
    <3>3. Cardinality(0 .. m - 1) = m
      BY <3>2
    <3> QED BY <3>1, <3>2, <3>3
  <2>3. ExistsBijection(S, T)
    BY <1>10 DEF ExistsBijection
  <2>4. ExistsBijection(T, S)
    BY <2>3, Fun_ExistsBijSymmetric
  <2> QED BY <2>2, <2>4, FS_Bijection
<1>12. Promise!Cardinality(S) = Cardinality(S)
  BY DEF Promise!Cardinality, Cardinality
<1>13. Promise!Bytes(s) = 1 + Promise!Cardinality(S)
  BY DEF Promise!Bytes, S
<1> QED BY <1>11, <1>12, <1>13 DEF n

(* A sequence without its first elements.                                  *)
LEMMA SuffixIs ==
  ASSUME NEW T, NEW s \in Seq(T), NEW i \in 1 .. Len(s)
  PROVE  LET r == SubSeq(s, i, Len(s))
         IN  r \in Seq(T) /\ Len(r) = Len(s) - i + 1 /\ \A j \in 1 .. Len(s) - i + 1 : r[j] = s[i + j - 1]
<1>1. i \in Int /\ Len(s) \in Int /\ i <= Len(s) /\ \A j \in i .. Len(s) : s[j] \in T
  OBVIOUS
<1> QED BY <1>1, SubSeqProperties

(* What the lines from one on take.                                        *)
LEMMA RestBytes ==
  ASSUME NEW s \in Seq(Seq(Nat)), NEW E, Sums(s, E), NEW i \in 1 .. Len(s)
  PROVE  Promise!Bytes(SubSeq(s, i, Len(s))) = 1 + (E[Len(s)] - E[i - 1])
<1> DEFINE n == Len(s)
           r == SubSeq(s, i, n)
           m == n - i + 1
           D == [j \in 0 .. m |-> E[(i - 1) + j] - E[i - 1]]
<1>0. n \in Nat /\ m \in Nat /\ i - 1 \in 0 .. n /\ \A j \in 1 .. n : Len(s[j]) \in Nat
  OBVIOUS
<1>1. r \in Seq(Seq(Nat)) /\ Len(r) = m /\ \A j \in 1 .. m : r[j] = s[i + j - 1]
  BY SuffixIs
<1> HIDE DEF r
<1>2. ASSUME NEW j \in 0 .. m
      PROVE  /\ (i - 1) + j \in 0 .. n /\ D[j] = E[(i - 1) + j] - E[i - 1] /\ D[j] \in Nat
             /\ E[(i - 1) + j] \in Nat /\ E[i - 1] \in Nat
  <2>1. (i - 1) + j \in 0 .. n /\ i - 1 <= (i - 1) + j
    BY <1>0
  <2>2. E[(i - 1) + j] \in Nat /\ E[i - 1] \in Nat /\ E[i - 1] <= E[(i - 1) + j]
    BY <1>0, <2>1, SumsGrow
  <2>3. D[j] = E[(i - 1) + j] - E[i - 1]
    OBVIOUS
  <2> HIDE DEF D
  <2> QED BY <2>1, <2>2, <2>3
<1>3. DOMAIN D = 0 .. m /\ D = [j \in 0 .. m |-> D[j]]
  OBVIOUS
<1> HIDE DEF D
<1>4. D \in [0 .. m -> Nat]
  BY <1>2, <1>3
<1>5. D[0] = 0
  <2>1. 0 \in 0 .. m /\ (i - 1) + 0 = i - 1
    BY <1>0
  <2> QED BY <1>2, <2>1
<1>6. ASSUME NEW j \in 1 .. m
      PROVE  D[j] = D[j - 1] + Len(r[j]) + 1
  <2>1. j \in 0 .. m /\ j - 1 \in 0 .. m /\ (i - 1) + j \in 1 .. n /\ ((i - 1) + j) - 1 = (i - 1) + (j - 1) /\ i + j - 1 = (i - 1) + j
    BY <1>0
  <2>2. E[(i - 1) + j] = E[((i - 1) + j) - 1] + Len(s[(i - 1) + j]) + 1
    BY <2>1 DEF Sums
  <2>3. D[j] = E[(i - 1) + j] - E[i - 1] /\ D[j - 1] = E[(i - 1) + (j - 1)] - E[i - 1]
        /\ E[(i - 1) + j] \in Nat /\ E[(i - 1) + (j - 1)] \in Nat /\ E[i - 1] \in Nat
    BY <1>2, <2>1
  <2>4. Len(r[j]) = Len(s[(i - 1) + j]) /\ Len(r[j]) \in Nat
    BY <1>0, <1>1, <2>1
  <2>5. E[((i - 1) + j) - 1] = E[(i - 1) + (j - 1)]
    BY <2>1
  <2>6. PICK x, y, z, v \in Nat : /\ x = E[(i - 1) + j] /\ y = E[(i - 1) + (j - 1)] /\ z = E[i - 1]
                                 /\ v = Len(r[j])
    BY <2>3, <2>4
  <2>7. x = y + v + 1 /\ D[j] = x - z /\ D[j - 1] = y - z
    BY <2>2, <2>3, <2>4, <2>5, <2>6, Zenon
  <2>8. x - z = (y - z) + v + 1
    BY <2>7
  <2> QED BY <2>6, <2>7, <2>8, Zenon
<1>7. Sums(r, D)
  BY <1>1, <1>4, <1>5, <1>6 DEF Sums
<1>8. Promise!Bytes(r) = 1 + D[m]
  BY <1>1, <1>7, BytesCount
<1>9. D[m] = E[n] - E[i - 1]
  <2>1. m \in 0 .. m /\ (i - 1) + m = n
    BY <1>0
  <2> QED BY <1>2, <2>1
<1> QED BY <1>8, <1>9 DEF r

(* What the lines of a chain and one more take.                            *)
LEMMA AllSums ==
  ASSUME NEW h \in Histories, NEW n, NEW d, Chain(h, n, d), NEW t \in Seq(Nat)
  PROVE  LET all == Append(LinesIn(h), t)
             E == [k \in 0 .. n + 1 |-> IF k = n + 1 THEN d[n] + Len(t) + 1 ELSE d[k]]
         IN  all \in Seq(Seq(Nat)) /\ Len(all) = n + 1 /\ Sums(all, E)
<1> DEFINE all == Append(LinesIn(h), t)
           E == [k \in 0 .. n + 1 |-> IF k = n + 1 THEN d[n] + Len(t) + 1 ELSE d[k]]
<1>0. /\ n \in Nat /\ LinesIn(h) \in Seq(Seq(Nat)) /\ Len(LinesIn(h)) = n
      /\ \A i \in 1 .. n : Len(LinesIn(h)[i]) = At(h, d[i - 1])
  BY LinesAre
<1>1. /\ all \in Seq(Seq(Nat)) /\ Len(all) = n + 1 /\ all[n + 1] = t /\ \A i \in 1 .. n : all[i] = LinesIn(h)[i]
  BY <1>0
<1> HIDE DEF all
<1>2. RingLen \in Nat /\ \A k \in 0 .. n : d[k] \in 0 .. RingLen - 1 /\ d[k] \in Nat
  BY RingIs DEF Chain
<1>3. E[n + 1] = d[n] + Len(t) + 1 /\ \A k \in 0 .. n : E[k] = d[k]
  BY <1>0
<1>4. E = [k \in 0 .. n + 1 |-> E[k]]
  OBVIOUS
<1> HIDE DEF E
<1>5. E \in [0 .. n + 1 -> Nat]
  <2>1. Len(t) \in Nat /\ n \in 0 .. n /\ \A k \in 0 .. n + 1 : k = n + 1 \/ k \in 0 .. n
    BY <1>0
  <2>2. \A k \in 0 .. n + 1 : E[k] \in Nat
    BY <1>2, <1>3, <2>1
  <2> QED BY <1>4, <2>2
<1>6. E[0] = 0
  <2>1. 0 \in 0 .. n
    BY <1>0
  <2> QED BY <1>3, <2>1 DEF Chain
<1>7. ASSUME NEW i \in 1 .. n + 1
      PROVE  E[i] = E[i - 1] + Len(all[i]) + 1
  <2>1. CASE i = n + 1
    <3>1. i - 1 = n /\ n \in 0 .. n
      BY <1>0, <2>1
    <3> QED BY <1>1, <1>3, <2>1, <3>1
  <2>2. CASE i # n + 1
    <3>1. PICK k \in 0 .. n : k = i - 1 /\ k < n /\ k + 1 = i /\ i \in 1 .. n /\ i \in 0 .. n
      BY <1>0, <2>2
    <3>2. d[k + 1] = d[k] + At(h, d[k]) + 1
      BY <3>1 DEF Chain
    <3>3. Len(all[i]) = At(h, d[k])
      BY <1>0, <1>1, <3>1
    <3> QED BY <1>3, <3>1, <3>2, <3>3
  <2> QED BY <2>1, <2>2
<1>8. Sums(all, E)
  BY <1>1, <1>5, <1>6, <1>7 DEF Sums
<1> QED BY <1>1, <1>8 DEF all, E

(* Of the lines and the new one the promise keeps those that the ring has  *)
(* the bytes for.                                                          *)
LEMMA FromIs ==
  ASSUME NEW h \in Histories, NEW n, NEW d, Chain(h, n, d), NEW t \in Seq(Nat), NEW len \in Nat,
         len = Len(t), len >= 1, len <= RingLen - 2, NEW e \in 0 .. n, Enough(n, d, len, e),
         \A m \in 0 .. e - 1 : ~Enough(n, d, len, m)
  PROVE  LET all == Append(LinesIn(h), t)
         IN  Promise!Remember(LinesIn(h), t) = SubSeq(all, e + 1, Len(all))
<1> DEFINE all == Append(LinesIn(h), t)
           E == [k \in 0 .. n + 1 |-> IF k = n + 1 THEN d[n] + Len(t) + 1 ELSE d[k]]
           B(i) == Promise!Bytes(SubSeq(all, i, Len(all)))
           P(i) == B(i) <= RingLen /\ (i > 1 => B(i - 1) > RingLen)
<1>0. RingLen \in Nat /\ n \in Nat /\ n \in 0 .. n /\ \A k \in 0 .. n : d[k] \in 0 .. RingLen - 1
  BY RingIs DEF Chain
<1>1. all \in Seq(Seq(Nat)) /\ Len(all) = n + 1 /\ Sums(all, E)
  BY AllSums
<1>2. Promise!Remember(LinesIn(h), t) = SubSeq(all, CHOOSE i \in DOMAIN all : P(i), Len(all))
  <2>1. t # <<>> /\ ~(Len(t) > RingLen - 2)
    BY <1>0
  <2> QED BY <2>1, Zenon DEF Promise!Remember
<1>3. E[n + 1] = d[n] + len + 1 /\ \A k \in 0 .. n : E[k] = d[k]
  BY <1>0
<1> HIDE DEF all, E
<1>4. ASSUME NEW i \in 1 .. n + 1
      PROVE  /\ i - 1 \in 0 .. n /\ B(i) \in Int
             /\ B(i) <= RingLen <=> Enough(n, d, len, i - 1)
             /\ B(i) > RingLen <=> ~Enough(n, d, len, i - 1)
  <2>1. B(i) = 1 + (E[Len(all)] - E[i - 1])
    BY <1>1, RestBytes
  <2>2. i - 1 \in 0 .. n
    BY <1>0
  <2>3. d[n] \in Nat /\ d[i - 1] \in Nat /\ E[i - 1] = d[i - 1] /\ E[Len(all)] = d[n] + len + 1
    BY <1>0, <1>1, <1>3, <2>2
  <2>4. B(i) = 1 + ((d[n] + len + 1) - d[i - 1])
    BY <2>1, <2>3
  <2>5. PICK x, y, z \in Int : x = B(i) /\ y = d[n] /\ z = d[i - 1]
    BY <2>3, <2>4
  <2> HIDE DEF B
  <2>7. x = 1 + ((y + len + 1) - z)
    BY <2>4, <2>5
  <2>6. (x <= RingLen <=> y - z + len + 1 <= RingLen - 1) /\ (x > RingLen <=> ~(y - z + len + 1 <= RingLen - 1))
    BY ONLY <1>0, <2>7, len \in Nat, x \in Int, y \in Int, z \in Int
  <2> QED BY <2>2, <2>5, <2>6 DEF Enough
<1>5. DOMAIN all = 1 .. n + 1
  BY <1>1
<1> HIDE DEF B
<1>6. e + 1 \in 1 .. n + 1 /\ P(e + 1)
  <2>1. e + 1 \in 1 .. n + 1 /\ (e + 1) - 1 = e
    BY <1>0
  <2>2. B(e + 1) <= RingLen
    BY <1>4, <2>1
  <2>3. ASSUME e + 1 > 1
        PROVE  B((e + 1) - 1) > RingLen
    <3>1. e \in 1 .. n + 1 /\ e - 1 \in 0 .. e - 1
      BY <1>0, <2>3
    <3> QED BY <1>4, <2>1, <3>1
  <2> QED BY <2>1, <2>2, <2>3
<1>7. ASSUME NEW j \in 1 .. n + 1, P(j)
      PROVE  j = e + 1
  <2>1. ~(j < e + 1)
    <3> SUFFICES ASSUME j < e + 1
                 PROVE  FALSE
      OBVIOUS
    <3>1. j - 1 \in 0 .. e - 1
      BY <1>0
    <3> QED BY <1>4, <1>7, <3>1
  <2>2. ~(j > e + 1)
    <3> SUFFICES ASSUME j > e + 1
                 PROVE  FALSE
      OBVIOUS
    <3>1. PICK k \in 0 .. n : k = (j - 1) - 1 /\ e <= k /\ j - 1 \in 1 .. n + 1 /\ j > 1
      BY <1>0
    <3>2. ~Enough(n, d, len, k)
      BY <1>4, <1>7, <3>1
    <3>3. d[e] <= d[k] /\ d[e] \in Nat /\ d[k] \in Nat /\ d[n] \in Nat
      <4>1. CASE e = k
        BY <1>0, <4>1
      <4>2. CASE e # k
        <5>1. e < k
          BY <1>0, <3>1, <4>2
        <5>2. d[e] < d[k]
          BY <5>1 DEF Chain
        <5> QED BY <1>0, <5>2
      <4> QED BY <4>1, <4>2
    <3> QED BY <1>0, <3>2, <3>3 DEF Enough
  <2> QED BY <1>0, <2>1, <2>2
<1> HIDE DEF P
<1>8. (CHOOSE i \in DOMAIN all : P(i)) = e + 1
  BY <1>5, <1>6, <1>7
<1> QED BY <1>2, <1>8 DEF all

(* Without the oldest records the lines of the others are the same.        *)
LEMMA KeptText ==
  ASSUME NEW h \in Histories, NEW n, NEW d, Chain(h, n, d), NEW e \in 0 .. n, NEW s,
         s.buf = h.buf, s.begin = Wrap(h.begin + d[e]), NEW i \in 0 .. n - e, i < n - e
  PROVE  Text(s, d[i + e] - d[e]) = Text(h, d[i + e])
<1>0. RingLen \in Nat /\ n \in Nat /\ h.begin \in 0 .. RingLen - 1
  BY RingIs DEF Chain, Histories
<1>1. PICK k \in 0 .. n : k = i + e /\ k < n /\ k + 1 \in 0 .. n /\ e <= k
  BY <1>0
<1>2. /\ d[e] \in 0 .. RingLen - 1 /\ d[k] \in 0 .. RingLen - 1 /\ d[k + 1] \in 0 .. RingLen - 1
      /\ d[k + 1] = d[k] + At(h, d[k]) + 1 /\ At(h, d[k]) \in 1 .. RingLen - 2
  BY <1>1, BehindIs DEF Chain
<1>3. d[e] <= d[k]
  <2>1. CASE e = k
    BY <1>2, <2>1
  <2>2. CASE e # k
    <3>1. e < k
      BY <1>0, <1>1, <2>2
    <3>2. d[e] < d[k]
      BY <3>1 DEF Chain
    <3> QED BY <1>0, <1>2, <3>2
  <2> QED BY <2>1, <2>2
<1>4. \A m \in 0 .. At(h, d[k]) : At(s, (d[k] - d[e]) + m) = At(h, d[k] + m)
  <2> SUFFICES ASSUME NEW m \in 0 .. At(h, d[k])
               PROVE  At(s, (d[k] - d[e]) + m) = At(h, d[k] + m)
    OBVIOUS
  <2>1. PICK y \in Nat : y = (d[k] - d[e]) + m
    BY <1>0, <1>2, <1>3
  <2>2. d[e] + y \in 0 .. RingLen - 1 /\ d[e] + y = d[k] + m /\ d[e] \in Nat
    BY <1>0, <1>2, <1>3, <2>1
  <2>3. Wrap(Wrap(h.begin + d[e]) + y) = Wrap(h.begin + (d[e] + y))
    BY <1>0, <2>2, WrapMore
  <2> QED BY <2>1, <2>2, <2>3 DEF At
<1>5. (d[k] - d[e]) + 0 = d[k] - d[e] /\ d[k] + 0 = d[k] /\ 0 \in 0 .. At(h, d[k])
  BY <1>0, <1>2
<1>6. At(s, d[k] - d[e]) = At(h, d[k])
  BY <1>4, <1>5
<1>7. \A m \in 1 .. At(h, d[k]) : At(s, (d[k] - d[e]) + m) = At(h, d[k] + m)
  BY <1>0, <1>2, <1>4
<1> QED BY <1>1, <1>6, <1>7 DEF Text

(* A line that is saved is remembered.                                     *)
LEMMA RememberIs ==
  ASSUME NEW h \in Histories, NEW n, NEW d, Chain(h, n, d), NEW l \in Lines, NEW len \in 1 .. LineLen - 1
  PROVE  /\ SaveLine(h, l, len) \in Histories
         /\ \E m, f : Chain(SaveLine(h, l, len), m, f)
         /\ LinesIn(SaveLine(h, l, len)) = Promise!Remember(LinesIn(h), TextOf(l, len))
<1> DEFINE t == TextOf(l, len)
           all == Append(LinesIn(h), t)
<1>0. /\ RingLen \in Nat /\ RingLen > 1 /\ LineLen \in Nat /\ len \in Nat /\ len >= 1 /\ n \in Nat
      /\ len \in 0 .. LineLen - 1 /\ n \in 0 .. n /\ \A k \in 0 .. n : d[k] \in 0 .. RingLen - 1
  BY RingIs DEF Chain
<1>1. t \in Seq(Nat) /\ Len(t) = len
  BY <1>0, TextIs
<1> HIDE DEF t
<1>2. CASE len > RingLen - 2
  <2>1. SaveLine(h, l, len) = h
    BY <1>2 DEF SaveLine
  <2>2. Promise!Remember(LinesIn(h), t) = LinesIn(h)
    BY <1>1, <1>2 DEF Promise!Remember
  <2> QED BY <2>1, <2>2 DEF t
<1>3. CASE ~(len > RingLen - 2)
  <2>0. len <= RingLen - 2
    BY <1>0, <1>3
  <2>1. PICK e \in 0 .. n : /\ MakeSpace(h, len) = EraseOlder(h, e) /\ Enough(n, d, len, e)
                            /\ \A m \in 0 .. e - 1 : ~Enough(n, d, len, m)
    BY <1>0, <2>0, MadeIs
  <2>2. PICK s, f : /\ s = EraseOlder(h, e) /\ s \in Histories /\ Chain(s, n - e, f)
                    /\ s.buf = h.buf /\ s.begin = Wrap(h.begin + d[e])
                    /\ f = [i \in 0 .. n - e |-> d[i + e] - d[e]]
    <3>1. PICK s : s = EraseOlder(h, e)
      OBVIOUS
    <3>2. PICK f : f = [i \in 0 .. n - e |-> d[i + e] - d[e]]
      OBVIOUS
    <3>3. /\ s \in Histories /\ s.buf = h.buf /\ s.begin = Wrap(h.begin + d[e])
          /\ Chain(s, n - e, f)
      BY <3>1, <3>2, ErasedIs
    <3> QED BY <3>1, <3>2, <3>3
  <2>3. PICK m \in Nat : m = n - e /\ m \in 0 .. m
    BY <1>0
  <2>4. f[m] + len + 1 \in 0 .. RingLen - 1
    <3>1. f[m] = d[n] - d[e]
      <4>1. m \in 0 .. n - e /\ m + e = n
        BY <1>0, <2>3
      <4> QED BY <2>2, <4>1
    <3>2. f[m] \in 0 .. RingLen - 1
      BY <2>2, <2>3 DEF Chain
    <3>3. d[n] - d[e] + len + 1 <= RingLen - 1
      BY <2>1 DEF Enough
    <3> QED BY <1>0, <3>1, <3>2, <3>3
  <2>5. SaveLine(h, l, len) = Put(s, l, len)
    BY <1>3, <2>1, <2>2 DEF SaveLine, Put
  <2>6. PICK g, c : g = Put(s, l, len) /\ Added(s, g, m, f, c, l, len)
    BY <2>2, <2>3, <2>4, PutIs
  <2>7. g \in Histories /\ Chain(g, m + 1, c)
    BY <2>6 DEF Added
  <2>8. LinesIn(g) \in Seq(Seq(Nat)) /\ Len(LinesIn(g)) = m + 1 /\ \A i \in 1 .. m + 1 : LinesIn(g)[i] = Text(g, c[i - 1])
    <3>1. PICK k : k = m + 1 /\ Chain(g, k, c)
      BY <2>7
    <3>2. g \in Histories /\ Chain(g, k, c)
      BY <2>7, <3>1
    <3>3. LinesIn(g) \in Seq(Seq(Nat)) /\ Len(LinesIn(g)) = k /\ \A i \in 1 .. k : LinesIn(g)[i] = Text(g, c[i - 1])
      BY ONLY <3>2, LinesAre
    <3> QED BY <3>1, <3>3, Zenon
  <2>9. /\ LinesIn(h) \in Seq(Seq(Nat)) /\ Len(LinesIn(h)) = n
        /\ \A i \in 1 .. n : LinesIn(h)[i] = Text(h, d[i - 1])
    BY LinesAre
  <2>10. /\ all \in Seq(Seq(Nat)) /\ Len(all) = n + 1 /\ all[n + 1] = t
         /\ \A i \in 1 .. n : all[i] = Text(h, d[i - 1])
    BY <1>0, <1>1, <2>9
  <2> HIDE DEF all
  <2> DEFINE r == SubSeq(all, e + 1, Len(all))
  <2>11. r \in Seq(Seq(Nat)) /\ Len(r) = m + 1 /\ \A j \in 1 .. m + 1 : r[j] = all[(e + 1) + j - 1]
    <3>1. e + 1 \in 1 .. Len(all) /\ Len(all) - (e + 1) + 1 = m + 1
      BY <1>0, <2>3, <2>10
    <3> QED BY <2>10, <3>1, SuffixIs
  <2> HIDE DEF r
  <2>12. ASSUME NEW j \in 1 .. m + 1
         PROVE  r[j] = LinesIn(g)[j]
    <3>1. LinesIn(g)[j] = Text(g, c[j - 1]) /\ r[j] = all[(e + 1) + j - 1]
      BY <2>8, <2>11
    <3>2. CASE j = m + 1
      <4>1. (e + 1) + j - 1 = n + 1 /\ j - 1 = m
        BY <1>0, <2>3, <3>2
      <4>2. c[m] = f[m] /\ Text(g, f[m]) = TextOf(l, len)
        BY <2>3, <2>6 DEF Added
      <4> QED BY <2>10, <3>1, <4>1, <4>2 DEF t
    <3>3. CASE j # m + 1
      <4>1. PICK i \in 0 .. m : i = j - 1 /\ i < m
        BY <2>3, <3>3
      <4>2. (e + 1) + j - 1 = (i + e) + 1 /\ (i + e) + 1 \in 1 .. n /\ ((i + e) + 1) - 1 = i + e
            /\ i \in 0 .. n - e /\ i < n - e
        BY <1>0, <2>3, <4>1
      <4>3. r[j] = Text(h, d[i + e])
        BY <2>10, <3>1, <4>2
      <4>4. c[i] = f[i] /\ Text(g, f[i]) = Text(s, f[i]) /\ f[i] = d[i + e] - d[e]
        BY <2>2, <2>6, <4>1, <4>2 DEF Added
      <4>5. Text(s, d[i + e] - d[e]) = Text(h, d[i + e])
        BY <2>2, <4>2, KeptText
      <4> QED BY <3>1, <4>1, <4>3, <4>4, <4>5
    <3> QED BY <3>2, <3>3
  <2>13. r = LinesIn(g)
    BY <2>8, <2>11, <2>12
  <2>14. Promise!Remember(LinesIn(h), t) = r
    BY <1>0, <1>1, <2>0, <2>1, FromIs DEF all, r
  <2> QED BY <2>5, <2>6, <2>7, <2>13, <2>14 DEF t
<1> QED BY <1>2, <1>3

-----------------------------------------------------------------------------
(* The steps                                                               *)

(* The complaint, the prompt and an erased end are rows of the terminal.   *)
LEMMA RowsAre ==
  ASSUME NEW t \in Terminals
  PROVE  /\ NewLine(t) \in Terminals /\ NewLine(t).col = 0
         /\ Complaint(t) \in Terminals /\ Complaint(t).col = 0
         /\ PrintPrompt(t) \in Terminals /\ PrintPrompt(t).col = t.col + PromptLen
         /\ ClearToEnd(t) \in Terminals /\ ClearToEnd(t).col = t.col
         /\ \A c \in Columns : ClearToEnd(t).row[c] = (IF c >= t.col THEN 0 ELSE t.row[c])
<1>0. t.col \in Int /\ t.row \in [Columns -> Int] /\ PromptLen \in Int
  BY SizesAre DEF Terminals
<1>1. /\ [c \in Columns |-> 0] \in [Columns -> Int]
      /\ [c \in Columns |-> -1] \in [Columns -> Int]
      /\ [c \in Columns |-> IF c \in t.col .. t.col + PromptLen - 1 THEN -1 ELSE t.row[c]] \in [Columns -> Int]
      /\ [c \in Columns |-> IF c >= t.col THEN 0 ELSE t.row[c]] \in [Columns -> Int]
  BY <1>0
<1>2. \A f \in [Columns -> Int], x \in Int :
        LET u == [row |-> f, col |-> x] IN u \in Terminals /\ u.col = x
  BY DEF Terminals
<1>3. \A f \in [Columns -> Int] :
        LET u == [t EXCEPT !.row = f] IN u \in Terminals /\ u.col = t.col /\ u.row = f
  BY DEF Terminals
<1>4. NewLine(t) \in Terminals /\ NewLine(t).col = 0
  BY <1>1, <1>2 DEF NewLine, BlankRow
<1>5. Complaint(t) \in Terminals /\ Complaint(t).col = 0
  BY <1>1, <1>2 DEF Complaint
<1>6. PrintPrompt(t) \in Terminals /\ PrintPrompt(t).col = t.col + PromptLen
  BY <1>0, <1>1, <1>2 DEF PrintPrompt
<1>7. /\ ClearToEnd(t) \in Terminals /\ ClearToEnd(t).col = t.col
      /\ ClearToEnd(t).row = [c \in Columns |-> IF c >= t.col THEN 0 ELSE t.row[c]]
  BY <1>1, <1>3 DEF ClearToEnd
<1> QED BY <1>4, <1>5, <1>6, <1>7

(* The line is in its buffer, the history is kept, and after a prompt the  *)
(* terminal shows the line.                                                *)
LineInv == line \in Lines /\ cmdlen \in 0 .. LineLen - 1 /\ cursor \in 0 .. cmdlen

ScreenInv == screen \in Terminals /\ (prompted => Shows(screen, line, cmdlen, cursor))

IInv == LineInv /\ Kept(hist) /\ ScreenInv

(* An empty history is a chain of none.                                    *)
LEMMA NewIs == Kept(NewHistory)
<1>0. RingLen \in Nat /\ RingLen > 1
  BY RingIs
<1> DEFINE b == [p \in 0 .. RingLen - 1 |-> 0]
           d == [i \in 0 .. 0 |-> 0]
<1>1. b \in [0 .. RingLen - 1 -> Nat] /\ b[0] = 0 /\ 0 \in 0 .. RingLen - 1
  BY <1>0
<1> HIDE DEF b
<1>2. NewHistory = [buf |-> b, begin |-> 0, end |-> 0, cur |-> 0]
  BY DEF NewHistory, b
<1>3. /\ NewHistory \in Histories /\ NewHistory.buf = b /\ NewHistory.begin = 0 /\ NewHistory.end = 0
      /\ NewHistory.cur = 0
  BY <1>1, <1>2 DEF Histories
<1>4. Wrap(0 + 0) = 0
  BY <1>0 DEF Wrap
<1>5. Chain(NewHistory, 0, d)
  <2>1. d \in [0 .. 0 -> 0 .. RingLen - 1] /\ d[0] = 0 /\ \A i \in 0 .. 0 : i = 0
    BY <1>1
  <2> HIDE DEF d
  <2> QED BY <1>0, <1>1, <1>3, <1>4, <2>1 DEF Chain
<1>6. NewHistory.cur <= 0
  BY <1>3
<1> QED BY <1>3, <1>5, <1>6 DEF Kept

(* A buffer of zeros and a blank terminal.                                 *)
LEMMA ClearIs == [i \in 0 .. LineLen - 1 |-> 0] \in Lines
BY SizesAre DEF Lines

LEMMA FreshIs ==
  /\ [row |-> BlankRow, col |-> 0] \in Terminals
  /\ 0 \in 0 .. LineLen - 1 /\ 0 \in 0 .. 0
<1>1. BlankRow \in [Columns -> Int]
  BY DEF BlankRow
<1> QED BY <1>1, SizesAre DEF Terminals

(* The invariant holds after a reset,                                      *)
LEMMA InitIInv == Init => IInv
<1> SUFFICES ASSUME Init
             PROVE  IInv
  OBVIOUS
<1>1. LineInv
  BY ClearIs, FreshIs DEF Init, LineInv
<1>2. Kept(hist)
  BY NewIs DEF Init
<1>3. ScreenInv
  BY FreshIs DEF Init, ScreenInv
<1> QED BY <1>1, <1>2, <1>3 DEF IInv

LEMMA ResetIInv == IInv /\ Reset => IInv'
<1> SUFFICES ASSUME Reset
             PROVE  IInv'
  OBVIOUS
<1>1. LineInv'
  BY ClearIs, FreshIs DEF Reset, LineInv
<1>2. Kept(hist)'
  BY NewIs DEF Reset
<1>3. ScreenInv'
  BY FreshIs DEF Reset, ScreenInv
<1> QED BY <1>1, <1>2, <1>3 DEF IInv

(* What the steps have in common.                                          *)
LEMMA SizesOf ==
  ASSUME IInv
  PROVE  /\ line \in Lines /\ Kept(hist) /\ screen \in Terminals
         /\ LineLen \in Nat /\ PromptLen \in Nat /\ cmdlen \in Nat /\ cursor \in Nat
         /\ cursor <= cmdlen /\ cmdlen < LineLen
         /\ cmdlen \in 0 .. LineLen - 1 /\ cursor \in 0 .. cmdlen
         /\ prompted => Shows(screen, line, cmdlen, cursor)
BY SizesAre DEF IInv, LineInv, ScreenInv

(* and every key keeps it.                                                 *)
LEMMA TypeIInv ==
  ASSUME IInv, NEW ch \in Nat, Type(ch)
  PROVE  IInv'
<1>0. /\ line \in Lines /\ cmdlen \in 0 .. LineLen - 1 /\ cursor \in 0 .. cmdlen
      /\ cmdlen \in Nat /\ cursor \in Nat /\ LineLen \in Nat /\ screen \in Terminals
  BY SizesOf
<1>1. <<ch>> \in Seq(Nat) /\ Len(<<ch>>) = 1
  OBVIOUS
<1>2. /\ line' = InsertText(line, cmdlen, cursor, <<ch>>) /\ Fits(cmdlen, <<ch>>)
      /\ cmdlen' = cmdlen + 1 /\ cursor' = cursor + 1
      /\ screen' = PrintLine(screen, line', cmdlen', cursor' - 1, cursor')
      /\ hist' = hist /\ prompted' = prompted
  BY DEF Type, Editing
<1>3. /\ line' \in Lines /\ (\A i \in 0 .. cursor - 1 : line'[i] = line[i])
      /\ cmdlen' \in 0 .. LineLen - 1 /\ cursor' \in 0 .. cmdlen'
  BY <1>0, <1>1, <1>2, InsertedIs
<1>4. cursor' - 1 = cursor /\ cursor \in 0 .. cmdlen'
  BY <1>0, <1>2
<1>5. screen' \in Terminals
  BY <1>0, <1>2, <1>3, <1>4, PrintedIs
<1>6. ASSUME prompted
      PROVE  Shows(screen, line, cmdlen, cursor)'
  <2>1. Shows(screen, line, cmdlen, cursor)
    BY <1>6, SizesOf
  <2>2. screen.col = PromptLen + cursor /\ \A i \in 0 .. cmdlen - 1 : screen.row[PromptLen + i] = line[i]
    BY <2>1 DEF Shows
  <2>3. \A i \in 0 .. cursor - 1 : i \in 0 .. cmdlen - 1
    BY <1>0
  <2>4. \A i \in 0 .. cursor - 1 : screen.row[PromptLen + i] = line'[i]
    BY <1>3, <2>2, <2>3
  <2>5. Shows(screen', line', cmdlen', cursor')
    BY <1>0, <1>2, <1>3, <1>4, <2>2, <2>4, PrintedIs
  <2> QED BY <2>5 DEF Shows
<1> QED BY <1>2, <1>3, <1>5, <1>6, SizesOf DEF IInv, LineInv, ScreenInv

(* A line that is printed from a place inside what the terminal shows.     *)
LEMMA ReprintedIs ==
  ASSUME NEW t \in Terminals, NEW l \in Lines, NEW len \in 0 .. LineLen - 1,
         NEW pos \in 0 .. len, NEW cur \in 0 .. len,
         NEW u \in Terminals, NEW m \in Lines, NEW mlen \in 0 .. LineLen - 1, NEW mcur \in 0 .. mlen,
         pos <= mcur, Shows(u, m, mlen, mcur), t.col = PromptLen + pos,
         \A c \in Columns : c < PromptLen + pos => t.row[c] = u.row[c],
         \A i \in 0 .. pos - 1 : l[i] = m[i]
  PROVE  Shows(PrintLine(t, l, len, pos, cur), l, len, cur)
<1>0. /\ PromptLen \in Nat /\ LineLen \in Nat /\ Columns = 0 .. PromptLen + LineLen /\ pos \in Nat
      /\ mlen \in Nat /\ mcur \in Nat /\ mcur <= mlen /\ mlen < LineLen
  BY SizesAre
<1>1. ASSUME NEW i \in 0 .. pos - 1
      PROVE  t.row[PromptLen + i] = l[i]
  <2>1. PromptLen + i \in Columns /\ PromptLen + i < PromptLen + pos /\ i \in 0 .. mlen - 1
    BY <1>0
  <2>2. u.row[PromptLen + i] = m[i]
    BY <2>1 DEF Shows
  <2> QED BY <2>1, <2>2
<1> QED BY <1>1, PrintedIs

LEMMA RuboutIInv ==
  ASSUME IInv, Rubout
  PROVE  IInv'
<1>0. /\ line \in Lines /\ cmdlen \in 0 .. LineLen - 1 /\ cursor \in 0 .. cmdlen
      /\ cmdlen \in Nat /\ cursor \in Nat /\ LineLen \in Nat /\ PromptLen \in Nat
      /\ cursor <= cmdlen /\ cmdlen < LineLen /\ screen \in Terminals
  BY SizesOf
<1>1. hist' = hist /\ prompted' = prompted
  BY DEF Rubout, Editing
<1>2. CASE cursor > 0
  <2>1. /\ line' = Removed(line, cmdlen, cursor)
        /\ cmdlen' = cmdlen - 1 /\ cursor' = cursor - 1
        /\ screen' = PrintLine(Backspaces(screen, 1), line', cmdlen', cursor', cursor')
    BY <1>2 DEF Rubout
  <2>2. cursor \in 1 .. cmdlen /\ cmdlen' \in 0 .. LineLen - 1 /\ cursor' \in 0 .. cmdlen'
    BY <1>0, <1>2, <2>1
  <2>3. line' \in Lines /\ \A i \in 0 .. cursor' - 1 : line'[i] = line[i]
    <3>1. \A i \in 0 .. cursor' - 1 : i \in 0 .. cursor - 2
      BY <1>0, <2>1
    <3> QED BY <1>0, <2>1, <2>2, <3>1, RemovedIs
  <2>4. PICK t \in Terminals : t = Backspaces(screen, 1)
    BY <1>0, BackIs
  <2>5. screen' \in Terminals
    BY <2>1, <2>2, <2>3, <2>4, PrintedIs
  <2>6. ASSUME prompted
        PROVE  Shows(screen', line', cmdlen', cursor')
    <3>1. Shows(screen, line, cmdlen, cursor) /\ screen.col = PromptLen + cursor
      BY <2>6, SizesOf DEF Shows
    <3>2. 1 <= screen.col /\ screen.col - 1 = PromptLen + cursor'
      BY <1>0, <1>2, <2>1, <3>1
    <3>3. t.col = PromptLen + cursor' /\ \A c \in Columns : c < PromptLen + cursor' => t.row[c] = screen.row[c]
      BY <1>0, <2>4, <3>2, BackIs
    <3>4. cursor' <= cursor
      BY <1>0, <2>1
    <3>5. Shows(PrintLine(t, line', cmdlen', cursor', cursor'), line', cmdlen', cursor')
      BY <1>0, <2>2, <2>3, <3>1, <3>3, <3>4, ReprintedIs
    <3> QED BY <2>1, <2>4, <3>5
  <2>7. prompted' => Shows(screen, line, cmdlen, cursor)'
    BY <1>1, <2>6 DEF Shows
  <2> QED BY <1>1, <2>2, <2>3, <2>5, <2>7, SizesOf DEF IInv, LineInv, ScreenInv
<1>3. CASE ~(cursor > 0)
  <2>1. screen' = PrintLine(screen, line, cmdlen, cursor, cursor) /\ UNCHANGED <<line, cmdlen, cursor>>
    BY <1>3 DEF Rubout
  <2>2. screen' \in Terminals
    BY <1>0, <2>1, PrintedIs
  <2>3. ASSUME prompted
        PROVE  Shows(screen', line, cmdlen, cursor)
    <3>1. Shows(screen, line, cmdlen, cursor) /\ screen.col = PromptLen + cursor
      BY <2>3, SizesOf DEF Shows
    <3>2. \A i \in 0 .. cursor - 1 : i \in 0 .. cmdlen - 1
      BY <1>0
    <3>3. \A i \in 0 .. cursor - 1 : screen.row[PromptLen + i] = line[i]
      BY <3>1, <3>2 DEF Shows
    <3> QED BY <1>0, <2>1, <3>1, <3>3, PrintedIs
  <2>4. prompted' => Shows(screen, line, cmdlen, cursor)'
    BY <1>1, <2>1, <2>3 DEF Shows
  <2> QED BY <1>0, <1>1, <2>1, <2>2, <2>4, SizesOf DEF IInv, LineInv, ScreenInv
<1> QED BY <1>2, <1>3

LEMMA EraseLineIInv ==
  ASSUME IInv, EraseLine
  PROVE  IInv'
<1>0. /\ line \in Lines /\ cmdlen \in 0 .. LineLen - 1 /\ cursor \in 0 .. cmdlen
      /\ cmdlen \in Nat /\ cursor \in Nat /\ LineLen \in Nat /\ PromptLen \in Nat
      /\ cursor <= cmdlen /\ cmdlen < LineLen /\ screen \in Terminals
  BY SizesOf
<1>1. /\ line' = RemovedAll(line, cmdlen, cursor)
      /\ cmdlen' = cmdlen - cursor /\ cursor' = 0
      /\ screen' = PrintLine(Backspaces(screen, cursor), line', cmdlen', 0, 0)
      /\ hist' = hist /\ prompted' = prompted
  BY DEF EraseLine, Editing
<1>2. line' \in Lines /\ cmdlen' \in 0 .. LineLen - 1 /\ cursor' \in 0 .. cmdlen' /\ 0 \in 0 .. cmdlen'
  <2>1. line' \in Lines
    BY <1>0, <1>1, RemovedAllIs
  <2> QED BY <1>0, <1>1, <2>1
<1>3. PICK t \in Terminals : t = Backspaces(screen, cursor)
  BY <1>0, BackIs
<1>4. screen' \in Terminals
  BY <1>1, <1>2, <1>3, PrintedIs
<1>5. ASSUME prompted
      PROVE  Shows(screen', line', cmdlen', cursor')
  <2>1. screen.col = PromptLen + cursor
    BY <1>5, SizesOf DEF Shows
  <2>2. cursor <= screen.col /\ screen.col - cursor = PromptLen + 0
    BY <1>0, <2>1
  <2>3. t.col = PromptLen + 0
    BY <1>0, <1>3, <2>2, BackIs
  <2>4. \A i \in 0 .. 0 - 1 : t.row[PromptLen + i] = line'[i]
    OBVIOUS
  <2> QED BY <1>1, <1>2, <1>3, <2>3, <2>4, PrintedIs
<1>6. prompted' => Shows(screen, line, cmdlen, cursor)'
  BY <1>1, <1>5 DEF Shows
<1> QED BY <1>1, <1>2, <1>4, <1>6, SizesOf DEF IInv, LineInv, ScreenInv

LEMMA KillLineIInv ==
  ASSUME IInv, KillLine
  PROVE  IInv'
<1>0. /\ line \in Lines /\ cmdlen \in 0 .. LineLen - 1 /\ cursor \in 0 .. cmdlen
      /\ cmdlen \in Nat /\ cursor \in Nat /\ LineLen \in Nat /\ PromptLen \in Nat
      /\ cursor <= cmdlen /\ cmdlen < LineLen /\ screen \in Terminals
  BY SizesOf
<1>1. /\ cmdlen' = cursor /\ screen' = ClearToEnd(screen) /\ line' = line /\ cursor' = cursor
      /\ hist' = hist /\ prompted' = prompted
  BY DEF KillLine, Editing
<1>2. cmdlen' \in 0 .. LineLen - 1 /\ cursor' \in 0 .. cmdlen'
  BY <1>0, <1>1
<1>3. /\ screen' \in Terminals /\ screen'.col = screen.col
      /\ \A c \in Columns : screen'.row[c] = (IF c >= screen.col THEN 0 ELSE screen.row[c])
  BY <1>0, <1>1, RowsAre
<1>4. ASSUME prompted
      PROVE  Shows(screen', line', cmdlen', cursor')
  <2>1. screen.col = PromptLen + cursor /\ \A i \in 0 .. cmdlen - 1 : screen.row[PromptLen + i] = line[i]
    BY <1>4, SizesOf DEF Shows
  <2>2. ASSUME NEW i \in 0 .. cursor - 1
        PROVE  screen'.row[PromptLen + i] = line[i]
    <3>1. PromptLen + i \in Columns /\ ~(PromptLen + i >= screen.col) /\ i \in 0 .. cmdlen - 1
      BY <1>0, <2>1, SizesAre
    <3> QED BY <1>3, <2>1, <3>1
  <2>3. \A c \in Columns : c >= PromptLen + cursor => screen'.row[c] = 0
    BY <1>3, <2>1
  <2> QED BY <1>1, <1>3, <2>1, <2>2, <2>3 DEF Shows
<1>5. prompted' => Shows(screen, line, cmdlen, cursor)'
  BY <1>1, <1>4 DEF Shows
<1> QED BY <1>0, <1>1, <1>2, <1>3, <1>5, SizesOf DEF IInv, LineInv, ScreenInv

(* Only the cursor moves.                                                  *)
LEMMA MovesIInv ==
  ASSUME IInv, ToEnd \/ ToBegin \/ Right \/ Left, UNCHANGED <<line, cmdlen, hist, prompted>>
  PROVE  IInv'
<1>0. /\ line \in Lines /\ cmdlen \in 0 .. LineLen - 1 /\ cursor \in 0 .. cmdlen
      /\ cmdlen \in Nat /\ cursor \in Nat /\ LineLen \in Nat /\ PromptLen \in Nat
      /\ cursor <= cmdlen /\ cmdlen < LineLen /\ screen \in Terminals
  BY SizesOf
<1>1. /\ cursor' \in 0 .. cmdlen /\ screen' \in Terminals /\ screen'.row = screen.row
      /\ prompted => screen'.col = PromptLen + cursor'
  <2>0. prompted => screen.col = PromptLen + cursor
    BY SizesOf DEF Shows
  <2>1. ASSUME NEW n \in Int, screen' = MoveCursor(screen, n), cursor' = cursor + n, cursor' \in 0 .. cmdlen
        PROVE  /\ cursor' \in 0 .. cmdlen /\ screen' \in Terminals /\ screen'.row = screen.row
               /\ prompted => screen'.col = PromptLen + cursor'
    <3>1. screen' \in Terminals /\ screen'.row = screen.row /\ screen'.col = screen.col + n
      BY <1>0, <2>1, MovedIs
    <3> QED BY <1>0, <2>0, <2>1, <3>1
  <2>2. CASE ToEnd
    <3>1. /\ cmdlen - cursor \in Int /\ screen' = MoveCursor(screen, cmdlen - cursor)
          /\ cursor' = cursor + (cmdlen - cursor) /\ cursor' \in 0 .. cmdlen
      BY <1>0, <2>2 DEF ToEnd
    <3> QED BY <2>1, <3>1
  <2>3. CASE ToBegin
    <3>1. screen' = ResetCursor(screen) /\ cursor' = 0
      BY <2>3 DEF ToBegin
    <3> QED BY <1>0, <3>1, MovedIs
  <2>4. CASE (Right /\ cursor < cmdlen) \/ (Left /\ cursor > 0)
    <3>1. \/ screen' = MoveCursor(screen, 1) /\ cursor' = cursor + 1 /\ cursor' \in 0 .. cmdlen
          \/ screen' = MoveCursor(screen, -1) /\ cursor' = cursor + (-1) /\ cursor' \in 0 .. cmdlen
      BY <1>0, <2>4 DEF Right, Left
    <3>2. 1 \in Int /\ -1 \in Int
      OBVIOUS
    <3> QED BY <2>1, <3>1, <3>2
  <2>5. CASE (Right /\ ~(cursor < cmdlen)) \/ (Left /\ ~(cursor > 0))
    <3>1. UNCHANGED <<cursor, screen>>
      BY <2>5 DEF Right, Left
    <3> QED BY <1>0, <2>0, <3>1
  <2> QED BY <2>2, <2>3, <2>4, <2>5
<1>2. prompted => Shows(screen', line', cmdlen', cursor')
  BY <1>1, SizesOf DEF Shows
<1>3. prompted' => Shows(screen, line, cmdlen, cursor)'
  BY <1>2 DEF Shows
<1> QED BY <1>0, <1>1, <1>3, SizesOf DEF IInv, LineInv, ScreenInv

(* A line of the history takes the place of the line.                      *)
LEMMA SearchIInv ==
  ASSUME IInv, NEW r, Found(r), Search(r), prompted' = prompted
  PROVE  IInv'
<1>0. screen \in Terminals /\ line \in Lines /\ LineLen \in Nat
  BY SizesOf
<1>1. Kept(hist')
  BY DEF Search, Found
<1>2. CASE r.len >= 0
  <2>1. /\ line' = r.line /\ cmdlen' = r.len /\ cursor' = r.len
        /\ screen' = PrintLine(ResetCursor(screen), r.line, r.len, 0, r.len)
    BY <1>2 DEF Search
  <2>2. r.line \in Lines /\ r.len \in 0 .. LineLen - 1 /\ 0 \in 0 .. r.len /\ r.len \in 0 .. r.len
    BY <1>0, <1>2 DEF Found
  <2>3. PICK t \in Terminals : t = ResetCursor(screen) /\ t.col = PromptLen + 0
    <3>1. ResetCursor(screen).col = PromptLen + 0
      BY <1>0, MovedIs, SizesAre
    <3> QED BY <1>0, <3>1, MovedIs
  <2>4. \A i \in 0 .. 0 - 1 : t.row[PromptLen + i] = r.line[i]
    OBVIOUS
  <2>5. screen' \in Terminals /\ Shows(screen', line', cmdlen', cursor')
    BY <2>1, <2>2, <2>3, <2>4, PrintedIs
  <2>6. Shows(screen, line, cmdlen, cursor)'
    BY <2>5 DEF Shows
  <2> QED BY <1>1, <2>1, <2>2, <2>5, <2>6 DEF IInv, LineInv, ScreenInv
<1>3. CASE ~(r.len >= 0)
  <2>1. UNCHANGED <<line, cmdlen, cursor, screen>>
    BY <1>3 DEF Search
  <2> QED BY <1>1, <2>1 DEF IInv, LineInv, ScreenInv, Shows
<1> QED BY <1>2, <1>3

(* Both directions of the history.                                         *)
LEMMA BrowsingIInv ==
  ASSUME IInv, Search(RestoreUp(hist, line)) \/ Search(RestoreDown(hist, line)), prompted' = prompted
  PROVE  IInv'
<1>1. Found(RestoreUp(hist, line)) /\ Found(RestoreDown(hist, line))
  BY SizesOf, UpIs, DownIs
<1> QED BY <1>1, SearchIInv

(* Nothing of the line changes.                                            *)
LEMMA StillIInv ==
  ASSUME IInv, UNCHANGED <<line, cmdlen, cursor, hist, screen, prompted>>
  PROVE  IInv'
BY DEF IInv, LineInv, ScreenInv, Shows

LEMMA EscapeProcessIInv ==
  ASSUME IInv, EscapeProcess
  PROVE  IInv'
<1>1. CASE Sequel("bracket") \/ Sequel("home") \/ Sequel("end")
  BY <1>1, StillIInv DEF Sequel
<1>2. CASE Ends /\ (Search(RestoreUp(hist, line)) \/ Search(RestoreDown(hist, line)))
  BY <1>2, BrowsingIInv DEF Ends
<1>3. CASE Ends /\ (ToEnd \/ ToBegin \/ Right \/ Left) /\ UNCHANGED <<line, cmdlen, hist>>
  BY <1>3, MovesIInv DEF Ends
<1>4. CASE Ends /\ Still
  BY <1>4, StillIInv DEF Ends, Still
<1> QED BY <1>1, <1>2, <1>3, <1>4 DEF EscapeProcess

LEMMA CompleteIInv ==
  ASSUME IInv, Complete
  PROVE  IInv'
<1>0. /\ line \in Lines /\ cmdlen \in 0 .. LineLen - 1 /\ cursor \in 0 .. cmdlen
      /\ cmdlen \in Nat /\ cursor \in Nat /\ LineLen \in Nat /\ screen \in Terminals
  BY SizesOf
<1>1. hist' = hist /\ prompted' = prompted
  BY DEF Complete, Editing
<1>2. CASE UNCHANGED <<line, cmdlen, cursor, screen>>
  BY <1>1, <1>2, StillIInv
<1>3. ASSUME NEW a, NEW t, Inserts(a, t)
      PROVE  IInv'
  <2>1. /\ a \in Seq(Nat) /\ Fits(cmdlen, a)
        /\ (line' = line /\ a = <<>>) \/ line' = InsertText(line, cmdlen, cursor, a)
        /\ cmdlen' = cmdlen + Len(a) /\ cursor' = cursor + Len(a)
        /\ screen' = PrintLine(ResetCursor(t), line', cmdlen', 0, cursor')
    BY <1>3, TextAre DEF Inserts
  <2>2. t \in Terminals
    BY <1>0, <1>3, RowsAre DEF Inserts
  <2>3. line' \in Lines /\ cmdlen' \in 0 .. LineLen - 1 /\ cursor' \in 0 .. cmdlen' /\ 0 \in 0 .. cmdlen'
    <3>1. CASE line' = InsertText(line, cmdlen, cursor, a)
      <4>1. line' \in Lines /\ cmdlen' \in 0 .. LineLen - 1 /\ cursor' \in 0 .. cmdlen'
        BY <1>0, <2>1, <3>1, InsertedIs
      <4> QED BY <1>0, <4>1
    <3>2. CASE line' = line /\ a = <<>>
      <4>1. Len(a) = 0
        BY <3>2
      <4> QED BY <1>0, <2>1, <3>2, <4>1
    <3> QED BY <2>1, <3>1, <3>2
  <2>4. PICK u \in Terminals : u = ResetCursor(t) /\ u.col = PromptLen + 0
    <3>1. ResetCursor(t).col = PromptLen + 0
      BY <2>2, MovedIs, SizesAre
    <3> QED BY <2>2, <3>1, MovedIs
  <2>5. \A i \in 0 .. 0 - 1 : u.row[PromptLen + i] = line'[i]
    OBVIOUS
  <2>6. screen' \in Terminals /\ Shows(screen', line', cmdlen', cursor')
    BY <2>1, <2>3, <2>4, <2>5, PrintedIs
  <2>7. Shows(screen, line, cmdlen, cursor)'
    BY <2>6 DEF Shows
  <2> QED BY <1>1, <2>3, <2>6, <2>7, SizesOf DEF IInv, LineInv, ScreenInv
<1> QED BY <1>0, <1>2, <1>3, CompletedIs

LEMMA EnterIInv ==
  ASSUME IInv, Enter
  PROVE  IInv'
<1>0. /\ line \in Lines /\ cmdlen \in 0 .. LineLen - 1 /\ Kept(hist) /\ screen \in Terminals
      /\ PromptLen \in Nat /\ LineLen \in Nat /\ LineLen > 0
  BY SizesOf, SizesAre
<1>1. PICK h : /\ h = (IF cmdlen > 0 THEN SaveLine(hist, line, cmdlen) ELSE hist)
               /\ hist' = [h EXCEPT !.cur = 0]
  BY DEF Enter
<1>2. h \in Histories /\ \E n, d : Chain(h, n, d)
  <2>0. PICK n, d : Chain(hist, n, d) /\ hist \in Histories
    BY <1>0 DEF Kept
  <2>1. CASE cmdlen > 0
    <3>1. cmdlen \in 1 .. LineLen - 1
      BY <1>0, <2>1
    <3> QED BY <1>0, <1>1, <2>0, <2>1, <3>1, RememberIs
  <2>2. CASE ~(cmdlen > 0)
    BY <1>1, <2>0, <2>2
  <2> QED BY <2>1, <2>2
<1>3. Kept(hist')
  <2>1. PICK n, d : Chain(h, n, d)
    BY <1>2
  <2>2. 0 \in 0 .. n
    BY <2>1, RingIs DEF Chain
  <2> QED BY <1>1, <1>2, <2>1, <2>2, BrowsedIs
<1>4. LineInv'
  BY ClearIs, FreshIs DEF Enter, LineInv
<1>5. PICK t \in Terminals : t.col = 0 /\ screen' = PrintPrompt(t)
  BY <1>0, RowsAre DEF Enter
<1>6. screen' \in Terminals /\ screen'.col = PromptLen + 0
  BY <1>0, <1>5, RowsAre
<1>7. Shows(screen, line, cmdlen, cursor)'
  BY <1>6 DEF Enter, Shows
<1> QED BY <1>3, <1>4, <1>6, <1>7 DEF IInv, ScreenInv

(* So does every step.                                                     *)
LEMMA NextIInv == IInv /\ [Next]_vars => IInv'
<1> SUFFICES ASSUME IInv, [Next]_vars
             PROVE  IInv'
  OBVIOUS
<1>1. ASSUME NEW ch \in Letters \union {0}, Type(ch)
      PROVE  IInv'
  <2>1. ch \in Nat
    BY EditorAssumption
  <2> QED BY <1>1, <2>1, TypeIInv
<1>2. CASE Rubout
  BY <1>2, RuboutIInv
<1>3. CASE EraseLine
  BY <1>3, EraseLineIInv
<1>4. CASE KillLine
  BY <1>4, KillLineIInv
<1>5. CASE MoveKey
  BY <1>5, MovesIInv DEF MoveKey, Editing
<1>6. CASE HistoryKey
  BY <1>6, BrowsingIInv DEF HistoryKey
<1>7. CASE Escape
  BY <1>7, StillIInv DEF Escape
<1>8. CASE EscapeProcess
  BY <1>8, EscapeProcessIInv
<1>9. CASE Complete
  BY <1>9, CompleteIInv
<1>10. CASE Enter
  BY <1>10, EnterIInv
<1>11. CASE Reset
  BY <1>11, ResetIInv
<1>12. CASE UNCHANGED vars
  BY <1>12, StillIInv DEF vars
<1> QED BY <1>1, <1>2, <1>3, <1>4, <1>5, <1>6, <1>7, <1>8, <1>9, <1>10, <1>11, <1>12 DEF Next

(* The invariant.                                                          *)
LEMMA EditorInvariant == Spec => []IInv
<1>1. Init => IInv
  BY InitIInv
<1>2. IInv /\ [Next]_vars => IInv'
  BY NextIInv
<1> QED BY <1>1, <1>2, PTL DEF Spec

(***************************************************************************)
(* However often the ring has gone round and whatever was erased, saved or *)
(* browsed, the records are whole lines that share no byte and end at the  *)
(* zero where the searches stop.                                           *)
(***************************************************************************)
THEOREM HistoryStaysChain == Spec => []HistoryIsChain
<1>1. IInv => HistoryIsChain
  BY KeptIsChain DEF IInv
<1> QED BY <1>1, EditorInvariant, PTL

(***************************************************************************)
(* Whatever keys edited, completed or recalled the line, the terminal      *)
(* shows it and the cursor as the editor has them, and the line ends in    *)
(* its buffer.                                                             *)
(***************************************************************************)
THEOREM ScreenIsTrue == Spec => []ScreenShowsLine
<1>1. IInv => ScreenShowsLine
  BY DEF IInv, LineInv, ScreenInv, ScreenShowsLine, Lines, Shows
<1> QED BY <1>1, EditorInvariant, PTL

-----------------------------------------------------------------------------
(* What the editor promises                                                *)

UpTo(S, p) == {q \in S : q <= p}

(* The nth of some numbers is there and there is one.                      *)
Ordinal(S, n) ==
  /\ \E p \in S : Cardinality(UpTo(S, p)) = n
  /\ \A p, q \in S : p < q => Cardinality(UpTo(S, p)) < Cardinality(UpTo(S, q))
  /\ \A p, q \in S : Cardinality(UpTo(S, p)) = n /\ Cardinality(UpTo(S, q)) = n => p = q

(* Of a finite set of numbers there are as many up to the nth.             *)
LEMMA NthIs ==
  ASSUME NEW S, S \subseteq Nat, IsFiniteSet(S), NEW n \in 1 .. Cardinality(S)
  PROVE  Ordinal(S, n)
<1>0. Cardinality(S) \in Nat /\ n \in Nat
  BY FS_CardinalityType
<1>1. \A p : IsFiniteSet(UpTo(S, p)) /\ Cardinality(UpTo(S, p)) \in Nat
  <2> SUFFICES ASSUME NEW p
               PROVE  IsFiniteSet(UpTo(S, p)) /\ Cardinality(UpTo(S, p)) \in Nat
    OBVIOUS
  <2>1. UpTo(S, p) \in SUBSET S
    BY DEF UpTo
  <2>2. IsFiniteSet(UpTo(S, p))
    BY <2>1, FS_Subset
  <2> QED BY <2>2, FS_CardinalityType
<1>2. ASSUME NEW p \in S, NEW q \in S, p < q
      PROVE  Cardinality(UpTo(S, p)) < Cardinality(UpTo(S, q))
  <2>1. UpTo(S, p) \in SUBSET UpTo(S, q) /\ q \in UpTo(S, q) /\ q \notin UpTo(S, p)
    <3>1. p \in Nat /\ q \in Nat /\ ~(q <= p)
      BY <1>2
    <3>2. \A x \in S : x <= p => x <= q
      BY <1>2, <3>1
    <3>3. q <= q
      BY <3>1
    <3> QED BY <3>1, <3>2, <3>3 DEF UpTo
  <2>2. Cardinality(UpTo(S, p)) <= Cardinality(UpTo(S, q)) /\ Cardinality(UpTo(S, p)) # Cardinality(UpTo(S, q))
    <3>1. UpTo(S, p) # UpTo(S, q)
      BY <2>1
    <3> QED BY <1>1, <2>1, <3>1, FS_Subset
  <2> QED BY <1>1, <2>2
<1>3. \E p \in S : Cardinality(UpTo(S, p)) = n
  <2> DEFINE T == {p \in S : n <= Cardinality(UpTo(S, p))}
  <2>1. T # {}
    <3> DEFINE D == {Cardinality(S) - Cardinality(UpTo(S, p)) : p \in S}
    <3>1. \A p \in S : Cardinality(UpTo(S, p)) <= Cardinality(S)
      <4>1. \A p : UpTo(S, p) \in SUBSET S
        BY DEF UpTo
      <4> QED BY <4>1, FS_Subset
    <3>2. D \subseteq Nat
      BY <1>0, <1>1, <3>1
    <3>3. S # {}
      BY <1>0, FS_EmptySet
    <3>4. PICK m \in D : \A x \in D : m <= x
      <4>1. D # {}
        BY <3>3
      <4> HIDE DEF D
      <4> QED BY <3>2, <4>1, LeastNat
    <3>5. PICK p \in S : m = Cardinality(S) - Cardinality(UpTo(S, p))
      OBVIOUS
    <3>6. \A q \in S : q <= p
      <4> SUFFICES ASSUME NEW q \in S, p < q
                   PROVE  FALSE
        OBVIOUS
      <4>1. Cardinality(UpTo(S, p)) < Cardinality(UpTo(S, q))
        BY <1>2
      <4>2. m <= Cardinality(S) - Cardinality(UpTo(S, q))
        BY <3>4
      <4> QED BY <1>0, <1>1, <3>5, <4>1, <4>2
    <3>7. UpTo(S, p) = S
      BY <3>6 DEF UpTo
    <3>8. n <= Cardinality(UpTo(S, p))
      BY <1>0, <3>7
    <3> QED BY <3>8
  <2>2. PICK p \in T : \A q \in T : p <= q
    <3>1. T \subseteq Nat
      OBVIOUS
    <3> HIDE DEF T
    <3> QED BY <2>1, <3>1, LeastNat
  <2>3. Cardinality(UpTo(S, p)) <= n
    <3> DEFINE B == UpTo(S, p) \ {p}
    <3>1. Cardinality(UpTo(S, p)) = Cardinality(B) + 1
      <4>1. p \in UpTo(S, p)
        BY DEF UpTo
      <4>2. Cardinality(B) = Cardinality(UpTo(S, p)) - 1
        BY <1>1, <4>1, FS_RemoveElement
      <4> QED BY <1>1, <4>2
    <3>2. CASE B = {}
      BY <1>0, <3>1, <3>2, FS_EmptySet
    <3>3. CASE B # {}
      <4> DEFINE D == {p - q : q \in B}
      <4>1. \A q \in B : q \in S /\ q < p /\ p - q \in Nat
        BY DEF UpTo
      <4>2. PICK m \in D : \A x \in D : m <= x
        <5>1. D \subseteq Nat /\ D # {}
          BY <3>3, <4>1
        <5> HIDE DEF D
        <5> QED BY <5>1, LeastNat
      <4>3. PICK q \in B : m = p - q
        OBVIOUS
      <4>4. \A x \in B : x <= q
        <5> SUFFICES ASSUME NEW x \in B
                     PROVE  x <= q
          OBVIOUS
        <5>1. p - q <= p - x
          BY <4>2, <4>3
        <5>2. p \in Nat /\ q \in Nat /\ x \in Nat
          BY <4>1
        <5> QED BY <5>1, <5>2
      <4>5. UpTo(S, q) = B
        <5>0. q \in Nat /\ p \in Nat /\ q < p
          BY <4>1
        <5>1. \A x \in S : x <= q => x <= p /\ x # p
          BY <5>0
        <5>2. \A x \in B : x \in S
          BY <4>1
        <5> HIDE DEF B
        <5>3. \A x \in S : x <= q => x \in B
          BY <5>1 DEF B, UpTo
        <5> QED BY <4>4, <5>2, <5>3 DEF UpTo
      <4>6. q \notin T
        <5>1. q \in Nat /\ p \in Nat /\ q < p
          BY <4>1
        <5>2. ~(p <= q)
          BY <5>1
        <5> QED BY <2>2, <5>2
      <4>7. Cardinality(UpTo(S, q)) < n
        BY <1>0, <1>1, <4>1, <4>6
      <4> QED BY <1>0, <1>1, <3>1, <4>5, <4>7
    <3> QED BY <3>2, <3>3
  <2> QED BY <1>0, <1>1, <2>3
<1>4. \A p, q \in S : Cardinality(UpTo(S, p)) = n /\ Cardinality(UpTo(S, q)) = n => p = q
  <2> SUFFICES ASSUME NEW p \in S, NEW q \in S, Cardinality(UpTo(S, p)) = n, Cardinality(UpTo(S, q)) = n
               PROVE  p = q
    OBVIOUS
  <2>1. ~(p < q) /\ ~(q < p)
    BY <1>0, <1>2
  <2> QED BY <2>1
<1> QED BY <1>2, <1>3, <1>4 DEF Ordinal

(* A word begins in the text where it begins in the buffer.                *)
LEMMA StartsAre ==
  ASSUME NEW l \in Lines, NEW len \in 0 .. LineLen - 1
  PROVE  Promise!Starts(TextOf(l, len)) = {p + 1 : p \in WordBegins(l, len)}
<1> DEFINE t == TextOf(l, len)
<1>0. len \in Nat /\ LineLen \in Nat /\ DOMAIN t = 1 .. len /\ \A i \in 1 .. len : t[i] = l[i - 1]
  BY TextIs, SizesAre DEF TextOf
<1> HIDE DEF t
<1>1. ASSUME NEW p \in 0 .. len - 1
      PROVE  /\ p + 1 \in 1 .. len /\ (p + 1 = 1 <=> p = 0) /\ (p + 1) - 1 = p
             /\ t[p + 1] = l[p] /\ (p # 0 => t[p] = l[p - 1])
  <2>1. p + 1 \in 1 .. len /\ (p # 0 => p \in 1 .. len) /\ (p + 1) - 1 = p
    BY <1>0
  <2>2. t[p + 1] = l[(p + 1) - 1] /\ (p # 0 => t[p] = l[p - 1])
    BY <1>0, <2>1
  <2> QED BY <2>1, <2>2
<1>2. \A p \in 0 .. len - 1 : p + 1 \in Promise!Starts(t) <=> p \in WordBegins(l, len)
  BY <1>0, <1>1 DEF Promise!Starts, WordBegins
<1>3. \A x \in Promise!Starts(t) : x - 1 \in 0 .. len - 1 /\ (x - 1) + 1 = x
  BY <1>0 DEF Promise!Starts
<1>4. \A x \in Promise!Starts(t) : x \in {p + 1 : p \in WordBegins(l, len)}
  <2> SUFFICES ASSUME NEW x \in Promise!Starts(t)
               PROVE  \E p \in WordBegins(l, len) : x = p + 1
    OBVIOUS
  <2> QED BY <1>2, <1>3
<1>5. \A p \in WordBegins(l, len) : p + 1 \in Promise!Starts(t)
  BY <1>2 DEF WordBegins
<1> QED BY <1>4, <1>5 DEF t

(* As many numbers are the successors of some.                             *)
LEMMA ShiftedIs ==
  ASSUME NEW S, S \subseteq Int, IsFiniteSet(S)
  PROVE  IsFiniteSet({p + 1 : p \in S}) /\ Cardinality({p + 1 : p \in S}) = Cardinality(S)
<1> DEFINE T == {p + 1 : p \in S}
           f == [p \in S |-> p + 1]
<1>1. f \in [S -> T] /\ \A x, y \in S : f[x] = f[y] => x = y
  OBVIOUS
<1>2. \A y \in T : \E x \in S : f[x] = y
  OBVIOUS
<1>3. f \in Bijection(S, T)
  BY <1>1, <1>2 DEF Bijection, Injection, Surjection, IsInjective
<1> QED BY <1>3, FS_Bijection DEF ExistsBijection

(* So the nth word of the text is the nth word of the buffer.              *)
LEMMA PlacesAre ==
  ASSUME NEW l \in Lines, NEW len \in 0 .. LineLen - 1
  PROVE  LET B == WordBegins(l, len)
             A == Promise!Starts(TextOf(l, len))
         IN  /\ IsFiniteSet(B) /\ B \subseteq 0 .. len - 1
             /\ Cardinality(B) \in Nat /\ Cardinality(A) = Cardinality(B)
             /\ \A n \in 1 .. Cardinality(B) :
                  /\ Nth(B, n) \in B /\ Cardinality(UpTo(B, Nth(B, n))) = n
                  /\ (CHOOSE p \in A : Cardinality({q \in A : q <= p}) = n) = Nth(B, n) + 1
<1> DEFINE B == WordBegins(l, len)
           A == Promise!Starts(TextOf(l, len))
<1>0. len \in Nat
  BY SizesAre
<1>1. B \subseteq 0 .. len - 1
  BY DEF WordBegins
<1>2. IsFiniteSet(B) /\ Cardinality(B) \in Nat /\ B \subseteq Nat
  <2>1. IsFiniteSet(0 .. len - 1)
    BY <1>0, FS_Interval
  <2>2. 0 .. len - 1 \subseteq Nat
    OBVIOUS
  <2> QED BY <1>1, <2>1, <2>2, FS_Subset, FS_CardinalityType
<1>3. A = {p + 1 : p \in B}
  BY StartsAre
<1> HIDE DEF A, B
<1>4. IsFiniteSet(A) /\ Cardinality(A) = Cardinality(B) /\ A \subseteq Nat
  <2>1. A \subseteq Nat /\ B \subseteq Int
    BY <1>2, <1>3
  <2> QED BY <1>2, <1>3, <2>1, ShiftedIs
<1>5. ASSUME NEW p \in B
      PROVE  Cardinality(UpTo(A, p + 1)) = Cardinality(UpTo(B, p)) /\ p + 1 \in A
  <2>1. UpTo(A, p + 1) = {q + 1 : q \in UpTo(B, p)}
    <3>1. \A q \in B : q + 1 <= p + 1 <=> q <= p
      BY <1>2
    <3> QED BY <1>3, <3>1 DEF UpTo
  <2>2. IsFiniteSet(UpTo(B, p)) /\ UpTo(B, p) \subseteq Int
    <3>1. UpTo(B, p) \in SUBSET B
      BY DEF UpTo
    <3>2. \A x \in UpTo(B, p) : x \in Int
      BY <1>2 DEF UpTo
    <3> QED BY <1>2, <3>1, <3>2, FS_Subset
  <2>3. Cardinality({q + 1 : q \in UpTo(B, p)}) = Cardinality(UpTo(B, p))
    BY <2>2, ShiftedIs
  <2> QED BY <1>3, <2>1, <2>3
<1>6. ASSUME NEW n \in 1 .. Cardinality(B)
      PROVE  /\ Nth(B, n) \in B /\ Cardinality(UpTo(B, Nth(B, n))) = n
             /\ (CHOOSE p \in A : Cardinality({q \in A : q <= p}) = n) = Nth(B, n) + 1
  <2>0. Ordinal(B, n) /\ Ordinal(A, n)
    BY ONLY <1>2, <1>4, NthIs, n \in 1 .. Cardinality(B)
  <2>1. \E p \in B : Cardinality(UpTo(B, p)) = n
    BY <2>0 DEF Ordinal
  <2>2. Nth(B, n) \in B /\ Cardinality(UpTo(B, Nth(B, n))) = n
    BY <2>1 DEF Nth, UpTo
  <2>3. Nth(B, n) + 1 \in A /\ Cardinality(UpTo(A, Nth(B, n) + 1)) = n
    BY <1>5, <2>2
  <2>4. \A p \in A : Cardinality(UpTo(A, p)) = n => p = Nth(B, n) + 1
    BY <2>0, <2>3 DEF Ordinal
  <2>5. (CHOOSE p \in A : Cardinality(UpTo(A, p)) = n) = Nth(B, n) + 1
    BY <2>3, <2>4
  <2> QED BY <2>2, <2>5 DEF UpTo
<1> QED BY <1>1, <1>2, <1>4, <1>6 DEF A, B

(* A word of the buffer ends at the next zero.                             *)
LEMMA CStringEnds ==
  ASSUME NEW l \in Lines, NEW p \in 0 .. LineLen - 1
  PROVE  \E e \in p .. LineLen - 1 : /\ l[e] = 0 /\ \A i \in p .. e - 1 : l[i] # 0
                                    /\ CString(l, p) = [i \in 1 .. e - p |-> l[p + i - 1]]
<1>0. LineLen \in Nat /\ LineLen > 0 /\ l[LineLen - 1] = 0 /\ l \in [0 .. LineLen - 1 -> Nat]
  BY SizesAre DEF Lines
<1> DEFINE S == {e \in p .. LineLen - 1 : l[e] = 0}
<1>1. PICK n \in S : \A e \in S : n <= e
  <2>1. S \subseteq Nat /\ LineLen - 1 \in S
    BY <1>0
  <2> QED BY <2>1, LeastNat
<1>2. n \in p .. LineLen - 1 /\ l[n] = 0 /\ \A i \in p .. n - 1 : l[i] # 0
  <2>1. \A i \in p .. n - 1 : i \in p .. LineLen - 1 /\ ~(n <= i)
    BY <1>0
  <2> QED BY <1>1, <2>1
<1> DEFINE end == CHOOSE e \in p .. LineLen - 1 : l[e] = 0 /\ \A i \in p .. e - 1 : l[i] # 0
<1>3. end \in p .. LineLen - 1 /\ l[end] = 0 /\ \A i \in p .. end - 1 : l[i] # 0
  BY <1>2, Zenon
<1>4. CString(l, p) = [i \in 1 .. end - p |-> l[p + i - 1]]
  BY DEF CString
<1> HIDE DEF end
<1> QED BY <1>3, <1>4

(* Where a word of the text ends.                                          *)
WordEnds(t, p, e) == (\A i \in p .. e : t[i] # 0) /\ (e = Len(t) \/ t[e + 1] = 0)

(* So there is one end, the one that the promise chooses.                  *)
LEMMA WordEndIs ==
  ASSUME NEW t \in Seq(Nat), NEW p \in 1 .. Len(t), NEW e \in p .. Len(t), WordEnds(t, p, e)
  PROVE  Promise!Word(t, p) = SubSeq(t, p, e)
<1> DEFINE end == CHOOSE x \in p .. Len(t) : (\A i \in p .. x : t[i] # 0) /\ (x = Len(t) \/ t[x + 1] = 0)
<1>1. end \in p .. Len(t) /\ WordEnds(t, p, end)
  BY Zenon DEF WordEnds
<1>2. Promise!Word(t, p) = SubSeq(t, p, end)
  BY DEF Promise!Word
<1> HIDE DEF end
<1>3. end = e
  <2>1. ~(end < e)
    <3> SUFFICES ASSUME end < e
                 PROVE  FALSE
      OBVIOUS
    <3>1. end + 1 \in p .. e /\ end # Len(t)
      BY <1>1
    <3> QED BY <1>1, <3>1 DEF WordEnds
  <2>2. ~(e < end)
    <3> SUFFICES ASSUME e < end
                 PROVE  FALSE
      OBVIOUS
    <3>1. e + 1 \in p .. end /\ e # Len(t)
      BY <1>1
    <3> QED BY <1>1, <3>1 DEF WordEnds
  <2> QED BY <1>1, <2>1, <2>2
<1> QED BY <1>2, <1>3

(* A word of the text is the word of the buffer, but for a tail behind the *)
(* end of the line.                                                        *)
LEMMA WordIs ==
  ASSUME NEW l \in Lines, NEW len \in 0 .. LineLen - 1, NEW p \in WordBegins(l, len)
  PROVE  LET t == TextOf(l, len)
             w == Promise!Word(t, p + 1)
         IN  /\ w \in Seq(Nat) /\ CString(l, p) \in Seq(Nat)
             /\ IsPrefix(w, CString(l, p))
             /\ w # CString(l, p) =>
                  l[len] # 0 /\ Last(t) # 0 /\ \A q \in WordBegins(l, len) : q <= p
<1> DEFINE t == TextOf(l, len)
<1>0. /\ LineLen \in Nat /\ len \in Nat /\ len < LineLen /\ l \in [0 .. LineLen - 1 -> Nat]
      /\ p \in 0 .. len - 1 /\ p \in 0 .. LineLen - 1 /\ l[p] # 0
  BY SizesAre DEF Lines, WordBegins
<1>1. t \in Seq(Nat) /\ Len(t) = len /\ \A i \in 1 .. len : t[i] = l[i - 1]
  BY TextIs
<1> HIDE DEF t
<1>2. PICK e \in p .. LineLen - 1 : /\ l[e] = 0 /\ \A i \in p .. e - 1 : l[i] # 0
                                    /\ CString(l, p) = [i \in 1 .. e - p |-> l[p + i - 1]]
  BY <1>0, CStringEnds
<1>3. e \in Int /\ p < e
  BY <1>0, <1>2
<1>4. CString(l, p) \in Seq(Nat) /\ Len(CString(l, p)) = e - p
  <2>1. \A i \in 1 .. e - p : p + i - 1 \in 0 .. LineLen - 1
    BY <1>0, <1>3
  <2>2. \A i \in 1 .. e - p : l[p + i - 1] \in Nat
    BY <1>0, <2>1
  <2>3. e - p \in Nat
    BY <1>0, <1>3
  <2> QED BY <1>2, <2>2, <2>3
<1> DEFINE x == IF e <= len THEN e ELSE len
<1>5. x \in p + 1 .. len /\ x <= e /\ (e <= len => x = e) /\ (e > len => x = len)
  BY <1>0, <1>3
<1> HIDE DEF x
<1>6. WordEnds(t, p + 1, x)
  <2>1. \A i \in p + 1 .. x : i \in 1 .. len /\ i - 1 \in p .. e - 1
    BY <1>0, <1>3, <1>5
  <2>2. \A i \in p + 1 .. x : t[i] # 0
    BY <1>1, <1>2, <2>1
  <2>3. x # len => t[x + 1] = 0
    <3> SUFFICES ASSUME x # len
                 PROVE  t[x + 1] = 0
      OBVIOUS
    <3>1. x + 1 \in 1 .. len /\ (x + 1) - 1 = e
      BY <1>0, <1>3, <1>5
    <3>2. t[x + 1] = l[(x + 1) - 1]
      BY <1>1, <3>1
    <3> QED BY <1>2, <3>1, <3>2
  <2> QED BY <1>1, <2>2, <2>3 DEF WordEnds
<1>7. Promise!Word(t, p + 1) = SubSeq(t, p + 1, x)
  <2>1. p + 1 \in 1 .. Len(t) /\ x \in p + 1 .. Len(t)
    BY <1>0, <1>1, <1>5
  <2> QED BY <1>1, <1>6, <2>1, WordEndIs
<1> DEFINE w == Promise!Word(t, p + 1)
<1>8. w \in Seq(Nat) /\ Len(w) = x - p /\ \A i \in 1 .. x - p : w[i] = l[p + i - 1]
  <2>1. p + 1 \in Nat /\ x \in Nat /\ p + 1 <= x + 1 /\ x <= Len(t) /\ p + 1 >= 1
    BY <1>0, <1>1, <1>5
  <2>2. SubSeq(t, p + 1, x) \in Seq(Nat) /\ Len(SubSeq(t, p + 1, x)) = x - p
    BY <1>0, <1>1, <2>1
  <2>3. \A i \in 1 .. x - p : p + i \in 1 .. len /\ (p + i) - 1 = p + i - 1
    BY <1>0, <1>5
  <2>4. \A i \in 1 .. x - p : SubSeq(t, p + 1, x)[i] = t[p + i]
    BY <1>0, <1>1, <2>1, <2>3
  <2>5. \A i \in 1 .. x - p : t[p + i] = l[p + i - 1]
    BY <1>1, <2>3
  <2> QED BY <1>7, <2>2, <2>4, <2>5
<1> HIDE DEF w
<1>9. \A i \in 1 .. x - p : i \in 1 .. e - p /\ CString(l, p)[i] = w[i]
  <2>1. \A i \in 1 .. x - p : i \in 1 .. e - p
    BY <1>0, <1>3, <1>5
  <2> QED BY <1>2, <1>8, <2>1
<1>10. IsPrefix(w, CString(l, p))
  <2>1. Len(w) <= Len(CString(l, p)) /\ x - p \in Nat
    BY <1>0, <1>3, <1>4, <1>5, <1>8
  <2>2. SubSeq(w, 1, Len(w)) = SubSeq(CString(l, p), 1, Len(w))
    BY <1>4, <1>8, <1>9, <2>1
  <2> QED BY <2>1, <2>2 DEF IsPrefix
<1>11. w # CString(l, p) => l[len] # 0 /\ Last(t) # 0 /\ \A q \in WordBegins(l, len) : q <= p
  <2> SUFFICES ASSUME w # CString(l, p)
               PROVE  l[len] # 0 /\ Last(t) # 0 /\ \A q \in WordBegins(l, len) : q <= p
    OBVIOUS
  <2>1. e > len
    <3> SUFFICES ASSUME e <= len
                 PROVE  FALSE
      BY <1>0, <1>3
    <3>1. x = e /\ e - p \in Nat
      BY <1>0, <1>3, <1>5
    <3>2. Len(w) = Len(CString(l, p)) /\ \A i \in 1 .. Len(w) : w[i] = CString(l, p)[i]
      BY <1>4, <1>8, <1>9, <3>1
    <3>3. w = CString(l, p)
      BY ONLY <1>4, <1>8, <3>2
    <3> QED BY <3>3
  <2>2. len \in p .. e - 1 /\ len - 1 \in p .. e - 1 /\ len \in 1 .. len
    BY <1>0, <1>3, <2>1
  <2>3. Last(t) = l[len - 1]
    BY <1>1, <2>2 DEF Last
  <2>4. \A q \in WordBegins(l, len) : q <= p
    <3> SUFFICES ASSUME NEW q \in WordBegins(l, len), q > p
                 PROVE  FALSE
      BY <1>0 DEF WordBegins
    <3>1. q \in 0 .. len - 1 /\ (q = 0 \/ l[q - 1] = 0)
      BY DEF WordBegins
    <3>2. q # 0 /\ q - 1 \in p .. e - 1
      BY <1>0, <1>3, <2>1, <3>1
    <3> QED BY <1>2, <3>1, <3>2
  <2> QED BY <1>2, <2>2, <2>3, <2>4
<1> QED BY <1>4, <1>8, <1>10, <1>11 DEF t, w

(* The words that the editor executes are the words of the text; only the  *)
(* last may have a tail.                                                   *)
SameWords(l, len) ==
  LET t == TextOf(l, len)
      n == Cardinality(WordBegins(l, len))
      W == Promise!Words(t)
      v == Split(l, len).words
  IN  /\ n \in Nat /\ W \in Seq(Seq(Nat)) /\ Len(W) = n /\ v \in Seq(Seq(Nat)) /\ Len(v) = n
      /\ Split(l, len).status = (IF n >= TokenNmb THEN -1 ELSE n)
      /\ \A i \in 1 .. n : IsPrefix(W[i], v[i])
      /\ \A i \in 1 .. n : W[i] # v[i] => l[len] # 0 /\ Last(t) # 0 /\ i = n

(* The words of the text are the words that split() finds.                 *)
LEMMA WordsAre ==
  ASSUME NEW l \in Lines, NEW len \in 0 .. LineLen - 1
  PROVE  SameWords(l, len)
<1> DEFINE t == TextOf(l, len)
           B == WordBegins(l, len)
           n == Cardinality(B)
           W == Promise!Words(t)
           v == Split(l, len).words
           A == Promise!Starts(t)
<1>1. /\ IsFiniteSet(B) /\ B \subseteq 0 .. len - 1 /\ n \in Nat /\ Cardinality(A) = n
      /\ \A i \in 1 .. n :
           /\ Nth(B, i) \in B /\ Cardinality(UpTo(B, Nth(B, i))) = i
           /\ (CHOOSE p \in A : Cardinality({q \in A : q <= p}) = i) = Nth(B, i) + 1
  BY PlacesAre
<1>2. W = [i \in 1 .. n |-> Promise!Word(t, Nth(B, i) + 1)]
  <2> DEFINE nth(i) == CHOOSE p \in A : Cardinality({q \in A : q <= p}) = i
  <2>1. W = [i \in 1 .. Cardinality(A) |-> Promise!Word(t, nth(i))]
    BY DEF Promise!Words, Promise!Cardinality, Cardinality
  <2>2. \A i \in 1 .. n : nth(i) = Nth(B, i) + 1
    BY <1>1
  <2> HIDE DEF nth, W, A, B, t
  <2>3. W = [i \in 1 .. n |-> Promise!Word(t, nth(i))]
    BY <1>1, <2>1
  <2> QED BY <2>2, <2>3
<1>3. v = [i \in 1 .. n |-> CString(l, Nth(B, i))] /\ Split(l, len).status = (IF n >= TokenNmb THEN -1 ELSE n)
  BY DEF Split
<1>4. ASSUME NEW p \in B
      PROVE  /\ Promise!Word(t, p + 1) \in Seq(Nat) /\ CString(l, p) \in Seq(Nat)
             /\ IsPrefix(Promise!Word(t, p + 1), CString(l, p))
             /\ Promise!Word(t, p + 1) # CString(l, p) =>
                  l[len] # 0 /\ Last(t) # 0 /\ \A q \in B : q <= p
  BY WordIs
<1> HIDE DEF t, B, W, v, A
<1>5. ASSUME NEW i \in 1 .. n
      PROVE  /\ W[i] \in Seq(Nat) /\ v[i] \in Seq(Nat) /\ IsPrefix(W[i], v[i])
             /\ W[i] # v[i] => l[len] # 0 /\ Last(t) # 0 /\ i = n
  <2>1. Nth(B, i) \in B /\ Cardinality(UpTo(B, Nth(B, i))) = i
    BY <1>1
  <2>2. W[i] = Promise!Word(t, Nth(B, i) + 1) /\ v[i] = CString(l, Nth(B, i))
    BY <1>2, <1>3
  <2>3. (\A q \in B : q <= Nth(B, i)) => i = n
    <3> SUFFICES ASSUME \A q \in B : q <= Nth(B, i)
                 PROVE  i = n
      OBVIOUS
    <3>1. UpTo(B, Nth(B, i)) = B
      BY DEF UpTo
    <3> QED BY <2>1, <3>1
  <2> QED BY <1>4, <2>1, <2>2, <2>3
<1>6. W \in Seq(Seq(Nat)) /\ Len(W) = n /\ v \in Seq(Seq(Nat)) /\ Len(v) = n
  <2>1. DOMAIN W = 1 .. n /\ DOMAIN v = 1 .. n
    BY <1>2, <1>3
  <2>2. (\A i \in 1 .. n : W[i] \in Seq(Nat)) /\ \A i \in 1 .. n : v[i] \in Seq(Nat)
    BY <1>5
  <2>3. W = [i \in 1 .. n |-> W[i]] /\ v = [i \in 1 .. n |-> v[i]]
    BY <1>2, <1>3, <2>1
  <2>4. n \in Nat
    BY <1>1
  <2> HIDE DEF n
  <2>5. W \in [1 .. n -> Seq(Nat)] /\ v \in [1 .. n -> Seq(Nat)]
    BY <2>2, <2>3
  <2> QED BY <2>4, <2>5
<1> QED BY <1>1, <1>3, <1>5, <1>6 DEF SameWords, t, B, W, v

(* What Enter executes of a line.                                          *)
LEMMA RunsAre ==
  ASSUME line \in Lines, cmdlen \in 0 .. LineLen - 1
  PROVE  LET s == Split(line, cmdlen)
             W == Promise!Words(TextOf(line, cmdlen))
         IN  IF Len(W) \in 1 .. TokenNmb - 1
             THEN s.status > 0 /\ Promise!Runs(W, s.words)
             ELSE ~(s.status > 0)
<1> DEFINE s == Split(line, cmdlen)
           t == TextOf(line, cmdlen)
           W == Promise!Words(t)
           n == Cardinality(WordBegins(line, cmdlen))
           v == s.words
<1>1. /\ n \in Nat /\ W \in Seq(Seq(Nat)) /\ Len(W) = n /\ v \in Seq(Seq(Nat)) /\ Len(v) = n
      /\ s.status = (IF n >= TokenNmb THEN -1 ELSE n)
      /\ \A i \in 1 .. n : IsPrefix(W[i], v[i])
      /\ \A i \in 1 .. n : W[i] # v[i] => line[cmdlen] # 0 /\ Last(t) # 0 /\ i = n
  BY WordsAre DEF SameWords
<1>2. TokenNmb \in Nat
  BY EditorAssumption
<1>3. Promise!Runs(W, v) <=>
        IF line[cmdlen] = 0 \/ W = <<>> \/ Last(t) = 0 THEN v = W
        ELSE Len(v) = Len(W) /\ Front(v) = Front(W) /\ IsPrefix(Last(W), Last(v))
  BY DEF Promise!Runs, Promise!Last, Promise!Front, Promise!IsPrefix, Last, Front, IsPrefix
<1> HIDE DEF s, t, W, n, v
<1>4. Promise!Runs(W, v)
  <2>1. CASE W = v
    <3>1. W # <<>> => IsPrefix(Last(W), Last(v))
      <4>1. W # <<>> => n \in 1 .. n
        BY <1>1
      <4> QED BY <1>1, <4>1 DEF Last
    <3> QED BY <1>3, <2>1, <3>1
  <2>2. CASE W # v
    <3>1. PICK i \in 1 .. n : W[i] # v[i]
      BY <1>1, <2>2
    <3>2. i = n /\ n \in 1 .. n /\ line[cmdlen] # 0 /\ Last(t) # 0 /\ W # <<>>
      BY <1>1, <3>1
    <3>3. \A j \in 1 .. n - 1 : W[j] = v[j]
      BY <1>1
    <3>4. Front(v) = Front(W)
      <4>1. Front(W) = SubSeq(W, 1, n - 1) /\ Front(v) = SubSeq(v, 1, n - 1)
        BY <1>1 DEF Front
      <4> QED BY <1>1, <3>2, <3>3, <4>1
    <3>5. IsPrefix(Last(W), Last(v))
      BY <1>1, <3>2 DEF Last
    <3> QED BY <1>1, <1>3, <3>2, <3>4, <3>5
  <2> QED BY <2>1, <2>2
<1> QED BY <1>1, <1>2, <1>4 DEF s, t, W, v

(* A text with others in place of the characters between two places.       *)
Joined(u, t, a, b, s) ==
  /\ u \in Seq(Nat) /\ Len(u) = a + Len(s) + Len(t) - b
  /\ \A i \in 1 .. a : u[i] = t[i]
  /\ \A i \in 1 .. Len(s) : u[a + i] = s[i]
  /\ \A i \in 1 .. Len(t) - b : u[a + Len(s) + i] = t[b + i]

LEMMA JoinIs ==
  ASSUME NEW t \in Seq(Nat), NEW a \in 0 .. Len(t), NEW b \in a .. Len(t), NEW s \in Seq(Nat)
  PROVE  Joined(SubSeq(t, 1, a) \o s \o SubSeq(t, b + 1, Len(t)), t, a, b, s)
<1> DEFINE x == SubSeq(t, 1, a)
           y == SubSeq(t, b + 1, Len(t))
           v == x \o s
           u == v \o y
<1>0. Len(t) \in Nat /\ a \in Nat /\ b \in Nat /\ Len(s) \in Nat /\ a <= Len(t) /\ b <= Len(t)
  OBVIOUS
<1>1. x \in Seq(Nat) /\ Len(x) = a /\ \A i \in 1 .. a : x[i] = t[i]
  BY <1>0
<1>2. y \in Seq(Nat) /\ Len(y) = Len(t) - b /\ \A i \in 1 .. Len(t) - b : y[i] = t[b + i]
  <2>1. /\ b + 1 \in Int /\ Len(t) \in Int /\ \A i \in b + 1 .. Len(t) : t[i] \in Nat
        /\ Len(t) - (b + 1) + 1 = Len(t) - b
    BY <1>0
  <2>2. /\ y \in Seq(Nat) /\ Len(y) = IF b + 1 <= Len(t) THEN Len(t) - (b + 1) + 1 ELSE 0
        /\ \A i \in 1 .. Len(t) - (b + 1) + 1 : y[i] = t[(b + 1) + i - 1]
    BY <2>1, SubSeqProperties
  <2>3. Len(y) = Len(t) - b
    BY <1>0, <2>2
  <2>4. \A i \in 1 .. Len(t) - b : (b + 1) + i - 1 = b + i
    BY <1>0
  <2> HIDE DEF y
  <2> QED BY <2>1, <2>2, <2>3, <2>4
<1> HIDE DEF x, y
<1>3. v \in Seq(Nat) /\ Len(v) = a + Len(s) /\ (\A i \in 1 .. a : v[i] = x[i]) /\ \A i \in 1 .. Len(s) : v[a + i] = s[i]
  <2>1. v \in Seq(Nat) /\ Len(v) = a + Len(s) /\ \A i \in 1 .. a + Len(s) : v[i] = IF i <= a THEN x[i] ELSE s[i - a]
    BY <1>1, ConcatProperties
  <2>2. \A i \in 1 .. a : v[i] = x[i]
    BY <1>0, <2>1
  <2>3. \A i \in 1 .. Len(s) : a + i \in 1 .. a + Len(s) /\ ~(a + i <= a) /\ (a + i) - a = i
    BY <1>0
  <2> HIDE DEF v
  <2> QED BY <2>1, <2>2, <2>3
<1> HIDE DEF v
<1>4. u \in Seq(Nat) /\ Len(u) = a + Len(s) + Len(t) - b
  BY <1>0, <1>2, <1>3
<1>5. \A i \in 1 .. a + Len(s) : u[i] = v[i]
  BY <1>0, <1>2, <1>3
<1>6. \A i \in 1 .. Len(t) - b : u[a + Len(s) + i] = y[i]
  <2>1. \A i \in 1 .. Len(t) - b : a + Len(s) + i \in 1 .. Len(u) /\ ~(a + Len(s) + i <= a + Len(s)) /\ (a + Len(s) + i) - (a + Len(s)) = i
    BY <1>0, <1>4
  <2> QED BY <1>2, <1>3, <2>1
<1>7. \A i \in 1 .. a : u[i] = t[i]
  <2>1. \A i \in 1 .. a : i \in 1 .. a + Len(s)
    BY <1>0
  <2> QED BY <1>1, <1>3, <1>5, <2>1
<1>8. \A i \in 1 .. Len(s) : u[a + i] = s[i]
  <2>1. \A i \in 1 .. Len(s) : a + i \in 1 .. a + Len(s)
    BY <1>0
  <2> QED BY <1>3, <1>5, <2>1
<1>9. \A i \in 1 .. Len(t) - b : u[a + Len(s) + i] = t[b + i]
  BY <1>2, <1>6
<1>10. Joined(u, t, a, b, s)
  BY <1>4, <1>7, <1>8, <1>9 DEF Joined
<1> QED BY <1>10 DEF v, x, y

(* The beginning of a sequence.                                            *)
LEMMA PrefixIs ==
  ASSUME NEW t \in Seq(Nat), NEW a \in 0 .. Len(t)
  PROVE  SubSeq(t, 1, a) \in Seq(Nat) /\ Len(SubSeq(t, 1, a)) = a /\ \A i \in 1 .. a : SubSeq(t, 1, a)[i] = t[i]
<1>0. Len(t) \in Nat /\ a \in Nat /\ a <= Len(t)
  OBVIOUS
<1> QED BY <1>0

(* The text that microrl_insert_text() leaves.                             *)
LEMMA InsertedText ==
  ASSUME NEW l \in Lines, NEW len \in 0 .. LineLen - 1, NEW cur \in 0 .. len, NEW s \in Seq(Nat),
         Fits(len, s)
  PROVE  LET m == InsertText(l, len, cur, s)
             t == TextOf(l, len)
             u == TextOf(m, len + Len(s))
         IN  /\ u \in Seq(Nat) /\ Len(t) = len /\ Len(u) = len + Len(s)
             /\ u = SubSeq(t, 1, cur) \o s \o SubSeq(t, cur + 1, Len(t))
             /\ SubSeq(u, cur + 1, cur + Len(s)) = s
             /\ m[len + Len(s)] = 0
<1> DEFINE m == InsertText(l, len, cur, s)
           t == TextOf(l, len)
           u == TextOf(m, len + Len(s))
           k == Len(s)
           w == SubSeq(t, 1, cur) \o s \o SubSeq(t, cur + 1, Len(t))
<1>0. /\ LineLen \in Nat /\ len \in Nat /\ cur \in Nat /\ cur <= len /\ k \in Nat /\ len + k < LineLen
      /\ l \in [0 .. LineLen - 1 -> Nat]
  BY SizesAre DEF Lines, Fits
<1>1. m \in Lines /\ len + k \in 0 .. LineLen - 1
  BY InsertedIs
<1>2. t \in Seq(Nat) /\ Len(t) = len /\ \A i \in 1 .. len : t[i] = l[i - 1]
  BY TextIs
<1>3. u \in Seq(Nat) /\ Len(u) = len + k /\ \A i \in 1 .. len + k : u[i] = m[i - 1]
  BY <1>1, TextIs
<1>4. \A j \in 0 .. LineLen - 1 : m[j] = IF j < cur THEN l[j]
                      ELSE IF j < cur + k THEN s[j - cur + 1]
                      ELSE IF j < len + k THEN l[j - k]
                      ELSE IF j = len + k THEN 0 ELSE l[j]
  BY <1>0 DEF InsertText
<1>5. /\ w \in Seq(Nat) /\ Len(w) = cur + k + len - cur
      /\ \A i \in 1 .. cur : w[i] = t[i]
      /\ \A i \in 1 .. k : w[cur + i] = s[i]
      /\ \A i \in 1 .. len - cur : w[cur + k + i] = t[cur + i]
  <2>1. cur \in 0 .. Len(t) /\ cur \in cur .. Len(t)
    BY <1>0, <1>2
  <2> HIDE DEF t
  <2>2. Joined(w, t, cur, cur, s)
    BY <1>2, <2>1, JoinIs
  <2> HIDE DEF w
  <2> QED BY <1>2, <2>2 DEF Joined
<1> HIDE DEF m, t, u, k, w
<1>6. ASSUME NEW i \in 1 .. len + k
      PROVE  u[i] = w[i]
  <2>0. i - 1 \in 0 .. LineLen - 1 /\ u[i] = m[i - 1]
    <3>1. i - 1 \in 0 .. LineLen - 1
      BY <1>0
    <3>2. u[i] = m[i - 1]
      BY <1>3
    <3> QED BY <3>1, <3>2
  <2>1. CASE i <= cur
    <3>1. i - 1 < cur /\ i \in 1 .. cur /\ i \in 1 .. len
      BY <1>0, <2>1
    <3> QED BY <1>2, <1>4, <1>5, <2>0, <3>1
  <2>2. CASE i > cur /\ i <= cur + k
    <3>1. ~(i - 1 < cur) /\ i - 1 < cur + k /\ i - cur \in 1 .. k /\ cur + (i - cur) = i /\ i - 1 - cur + 1 = i - cur
      BY <1>0, <2>2
    <3>2. w[i] = s[i - cur]
      BY <1>5, <3>1
    <3>3. m[i - 1] = s[i - 1 - cur + 1]
      BY <1>4, <2>0, <3>1
    <3> QED BY <2>0, <3>1, <3>2, <3>3
  <2>3. CASE i > cur + k
    <3> DEFINE j == i - (cur + k)
    <3>1. /\ ~(i - 1 < cur) /\ ~(i - 1 < cur + k) /\ i - 1 < len + k
          /\ j \in 1 .. len - cur /\ cur + k + j = i /\ i - 1 - k = (cur + j) - 1 /\ cur + j \in 1 .. len
      BY <1>0, <2>3
    <3> HIDE DEF j
    <3>2. w[i] = t[cur + j]
      BY <1>5, <3>1
    <3>3. m[i - 1] = l[i - 1 - k]
      BY <1>4, <2>0, <3>1
    <3>4. t[cur + j] = l[(cur + j) - 1]
      BY <1>2, <3>1
    <3> QED BY <2>0, <3>1, <3>2, <3>3, <3>4
  <2> QED BY <1>0, <2>1, <2>2, <2>3
<1>7. u = w
  <2>1. Len(w) = len + k
    BY <1>0, <1>5
  <2> QED BY <1>3, <1>5, <1>6, <2>1
<1>8. SubSeq(u, cur + 1, cur + k) = s
  <2>1. SubSeq(w, cur + 1, cur + k) \in Seq(Nat) /\ Len(SubSeq(w, cur + 1, cur + k)) = k
    <3>1. /\ cur + 1 \in 1 .. Len(w) + 1 /\ cur + k \in cur .. Len(w) /\ (cur + k) - (cur + 1) + 1 = k
          /\ \A i \in cur + 1 .. cur + k : i \in 1 .. Len(w)
      BY <1>0, <1>5
    <3>2. \A i \in cur + 1 .. cur + k : w[i] \in Nat
      BY <1>5, <3>1
    <3>3. cur + 1 \in Int /\ cur + k \in Int
      BY <1>0
    <3> QED BY <1>0, <3>1, <3>2, <3>3, SubSeqProperties
  <2>2. \A i \in 1 .. k : SubSeq(w, cur + 1, cur + k)[i] = w[cur + i]
    BY <1>0, <1>5
  <2>3. s \in Seq(Nat) /\ Len(s) = k
    BY DEF k
  <2>4. \A i \in 1 .. k : SubSeq(w, cur + 1, cur + k)[i] = s[i]
    BY <1>5, <2>2
  <2>5. SubSeq(w, cur + 1, cur + k) = s
    BY <2>1, <2>3, <2>4
  <2> QED BY <1>7, <2>5
<1>9. m[len + k] = 0
  <2>1. ~(len + k < cur) /\ ~(len + k < cur + k) /\ ~(len + k < len + k)
    BY <1>0
  <2> QED BY <1>1, <1>4, <2>1
<1> QED BY <1>2, <1>3, <1>7, <1>8, <1>9 DEF m, t, u, k, w

(* The text without some characters before the cursor.                     *)
LEMMA ErasedText ==
  ASSUME NEW l \in Lines, NEW m \in Lines, NEW len \in 0 .. LineLen - 1, NEW cur \in 0 .. len, NEW n \in 1 .. cur,
         \A i \in 0 .. cur - n - 1 : m[i] = l[i], \A i \in cur - n .. len - n : m[i] = l[i + n]
  PROVE  LET t == TextOf(l, len)
         IN  /\ TextOf(m, len - n) = SubSeq(t, 1, cur - n) \o SubSeq(t, cur + 1, Len(t))
             /\ m[len - n] = l[len]
<1> DEFINE t == TextOf(l, len)
           u == TextOf(m, len - n)
           w == SubSeq(t, 1, cur - n) \o <<>> \o SubSeq(t, cur + 1, Len(t))
<1>0. LineLen \in Nat /\ len \in Nat /\ cur \in Nat /\ cur <= len /\ n \in Nat /\ n > 0 /\ n <= cur /\ len - n \in 0 .. LineLen - 1
  BY SizesAre
<1>1. t \in Seq(Nat) /\ Len(t) = len /\ \A i \in 1 .. len : t[i] = l[i - 1]
  BY TextIs
<1>2. u \in Seq(Nat) /\ Len(u) = len - n /\ \A i \in 1 .. len - n : u[i] = m[i - 1]
  BY <1>0, TextIs
<1> HIDE DEF t, u
<1>3. cur - n \in 0 .. Len(t) /\ cur \in cur - n .. Len(t) /\ <<>> \in Seq(Nat) /\ Len(<<>>) = 0
  BY <1>0, <1>1
<1>4. /\ w \in Seq(Nat) /\ Len(w) = cur - n + Len(<<>>) + Len(t) - cur
      /\ \A i \in 1 .. cur - n : w[i] = t[i]
      /\ \A i \in 1 .. Len(t) - cur : w[cur - n + Len(<<>>) + i] = t[cur + i]
  <2>1. Joined(w, t, cur - n, cur, <<>>)
    BY <1>1, <1>3, JoinIs, Zenon
  <2> HIDE DEF w
  <2> QED BY <2>1, Zenon DEF Joined
<1> HIDE DEF w
<1>5. ASSUME NEW i \in 1 .. len - n
      PROVE  u[i] = w[i]
  <2>1. CASE i <= cur - n
    <3>1. i \in 1 .. cur - n /\ i - 1 \in 0 .. cur - n - 1 /\ i \in 1 .. len
      BY <1>0, <2>1
    <3> QED BY <1>1, <1>2, <1>4, <3>1
  <2>2. CASE i > cur - n
    <3> DEFINE j == i - (cur - n)
    <3>1. /\ j \in 1 .. Len(t) - cur /\ cur - n + Len(<<>>) + j = i /\ i - 1 \in cur - n .. len - n
          /\ i - 1 + n = (cur + j) - 1 /\ cur + j \in 1 .. len
      BY <1>0, <1>1, <1>3, <2>2
    <3> HIDE DEF j
    <3>2. w[i] = t[cur + j] /\ t[cur + j] = l[(cur + j) - 1]
      BY <1>1, <1>4, <3>1
    <3>3. u[i] = l[i - 1 + n]
      BY <1>2, <3>1
    <3> QED BY <3>1, <3>2, <3>3
  <2> QED BY <1>0, <2>1, <2>2
<1>6. u = w
  <2>1. Len(w) = len - n
    BY <1>0, <1>1, <1>3, <1>4
  <2> QED BY <1>2, <1>4, <1>5, <2>1
<1>7. w = SubSeq(t, 1, cur - n) \o SubSeq(t, cur + 1, Len(t))
  <2>1. SubSeq(t, 1, cur - n) \in Seq(Nat)
    BY <1>0, <1>1
  <2>2. SubSeq(t, 1, cur - n) \o <<>> = SubSeq(t, 1, cur - n)
    BY <2>1, ConcatEmptySeq
  <2> QED BY <2>2 DEF w
<1>8. m[len - n] = l[len]
  <2>1. len - n \in cur - n .. len - n /\ len - n + n = len
    BY <1>0
  <2> QED BY <2>1
<1> QED BY <1>6, <1>7, <1>8 DEF t, u

(* A key that leaves the line alone moves the cursor.                      *)
LEMMA MovePromise ==
  ASSUME IInv, cursor' \in 0 .. cmdlen, UNCHANGED <<line, cmdlen, hist>>, ran' = <<>>
  PROVE  Promise!Move
<1>1. Len(TextOf(line, cmdlen)) = cmdlen
  BY SizesOf, TextIs
<1> QED BY <1>1 DEF Promise!Move

(* The keys that move it.                                                  *)
LEMMA MovesPromise ==
  ASSUME IInv, ToEnd \/ ToBegin \/ Right \/ Left, UNCHANGED <<line, cmdlen, hist>>, ran' = <<>>
  PROVE  Promise!Move
<1>1. cursor' \in 0 .. cmdlen
  BY SizesOf DEF ToEnd, ToBegin, Right, Left
<1> QED BY <1>1, MovePromise

(* Characters are inserted at the cursor,                                  *)
LEMMA InsertPromise ==
  ASSUME IInv, NEW s \in Seq(Nat), \A i \in DOMAIN s : s[i] \in Characters \union {0}, Fits(cmdlen, s),
         line' = InsertText(line, cmdlen, cursor, s), cmdlen' = cmdlen + Len(s), cursor' = cursor + Len(s),
         hist' = hist, ran' = <<>>
  PROVE  Promise!Insert
<1> DEFINE t == TextOf(line, cmdlen)
           m == InsertText(line, cmdlen, cursor, s)
           u == TextOf(m, cmdlen + Len(s))
<1>0. /\ line \in Lines /\ LineLen \in Nat /\ cmdlen \in Nat /\ cursor \in Nat /\ cursor <= cmdlen
      /\ cmdlen \in 0 .. LineLen - 1 /\ cursor \in 0 .. cmdlen /\ Len(s) \in Nat
      /\ cmdlen + Len(s) < LineLen
  BY SizesOf DEF Fits
<1>1. /\ u \in Seq(Nat) /\ Len(t) = cmdlen /\ Len(u) = cmdlen + Len(s)
      /\ u = SubSeq(t, 1, cursor) \o s \o SubSeq(t, cursor + 1, Len(t))
      /\ SubSeq(u, cursor + 1, cursor + Len(s)) = s
      /\ m[cmdlen + Len(s)] = 0
  BY <1>0, InsertedText
<1>7. TextOf(line, cmdlen)' = u /\ line' = m
  OBVIOUS
<1> HIDE DEF t, u, m
<1>2. Len(u) - Len(t) = Len(s) /\ cursor + Len(u) - Len(t) = cursor + Len(s) /\ Len(u) \in Len(t) .. LineLen - 1
  BY <1>0, <1>1
<1>3. SubSeq(u, cursor + 1, cursor + Len(u) - Len(t)) = s
  BY <1>1, <1>2
<1>5. Promise!Typed = s
  BY <1>3, <1>7 DEF Promise!Typed, t
<1>6. (line[cmdlen] # 0)' = FALSE
  BY <1>1, <1>7
<1> QED BY <1>1, <1>2, <1>5, <1>6, <1>7 DEF Promise!Insert, t

(* or go from before it.                                                   *)
LEMMA ErasePromise ==
  ASSUME IInv, NEW n \in 1 .. cursor, line' \in Lines, cmdlen' = cmdlen - n, cursor' = cursor - n,
         \A i \in 0 .. cursor - n - 1 : line'[i] = line[i], \A i \in cursor - n .. cmdlen - n : line'[i] = line[i + n],
         hist' = hist, ran' = <<>>
  PROVE  Promise!Erase
<1>0. line \in Lines /\ cmdlen \in 0 .. LineLen - 1 /\ cursor \in 0 .. cmdlen
  BY SizesOf
<1>1. /\ TextOf(line', cmdlen - n) = SubSeq(TextOf(line, cmdlen), 1, cursor - n)
                                        \o SubSeq(TextOf(line, cmdlen), cursor + 1, Len(TextOf(line, cmdlen)))
      /\ line'[cmdlen - n] = line[cmdlen]
  BY <1>0, ErasedText
<1> QED BY <1>1 DEF Promise!Erase

(* ^K.                                                                     *)
LEMMA KillPromise ==
  ASSUME IInv, KillLine
  PROVE  Promise!Kill
<1> DEFINE t == TextOf(line, cmdlen)
           u == TextOf(line, cursor)
<1>0. /\ line \in Lines /\ LineLen \in Nat /\ cmdlen \in Nat /\ cursor \in Nat /\ cursor <= cmdlen
      /\ cmdlen \in 0 .. LineLen - 1 /\ cursor \in 0 .. cmdlen /\ cursor \in 0 .. LineLen - 1
  BY SizesOf
<1>1. t \in Seq(Nat) /\ Len(t) = cmdlen /\ \A i \in 1 .. cmdlen : t[i] = line[i - 1]
  BY <1>0, TextIs
<1>2. u \in Seq(Nat) /\ Len(u) = cursor /\ \A i \in 1 .. cursor : u[i] = line[i - 1]
  BY <1>0, TextIs
<1>3. cmdlen' = cursor /\ line' = line /\ cursor' = cursor /\ hist' = hist /\ ran' = <<>>
  BY DEF KillLine, Editing
<1>4. TextOf(line, cmdlen)' = u
  BY <1>3
<1> HIDE DEF t, u
<1>5. u = SubSeq(t, 1, cursor)
  <2> DEFINE v == SubSeq(t, 1, cursor)
  <2>1. cursor \in 0 .. Len(t)
    BY <1>0, <1>1
  <2>2. v \in Seq(Nat) /\ Len(v) = cursor /\ \A i \in 1 .. cursor : v[i] = t[i]
    BY ONLY <1>1, <2>1, PrefixIs
  <2>3. \A i \in 1 .. cursor : i \in 1 .. cmdlen
    BY <1>0
  <2> HIDE DEF v
  <2>4. \A i \in 1 .. cursor : u[i] = v[i]
    BY <1>1, <1>2, <2>2, <2>3
  <2>5. u = v
    BY <1>2, <2>2, <2>4
  <2> QED BY <2>5 DEF v
<1>6. cursor < Len(t) => t[cursor + 1] = line[cursor]
  <2> SUFFICES ASSUME cursor < Len(t)
               PROVE  t[cursor + 1] = line[cursor]
    OBVIOUS
  <2>1. cursor + 1 \in 1 .. cmdlen /\ (cursor + 1) - 1 = cursor
    BY <1>0, <1>1
  <2>2. t[cursor + 1] = line[(cursor + 1) - 1]
    BY <1>1, <2>1
  <2> QED BY <2>1, <2>2
<1>7. ~(cursor < Len(t)) => cursor = cmdlen
  BY <1>0, <1>1
<1>8. (line[cmdlen] # 0)' <=> line[cursor] # 0
  BY <1>3
<1>9. (line[cmdlen] # 0)' = IF cursor < Len(t) THEN t[cursor + 1] # 0 ELSE line[cmdlen] # 0
  BY <1>6, <1>7, <1>8
<1> QED BY <1>3, <1>4, <1>5, <1>9 DEF Promise!Kill, t

(* A character.                                                            *)
LEMMA TypePromise ==
  ASSUME IInv, NEW ch \in Letters \union {0}, Type(ch)
  PROVE  Promise!Insert
<1>1. /\ line' = InsertText(line, cmdlen, cursor, <<ch>>) /\ Fits(cmdlen, <<ch>>)
      /\ cmdlen' = cmdlen + 1 /\ cursor' = cursor + 1 /\ hist' = hist /\ ran' = <<>>
  BY DEF Type, Editing
<1>2. ch \in Characters \union {0} /\ ch \in Nat
  BY CharactersAre
<1>3. <<ch>> \in Seq(Nat) /\ Len(<<ch>>) = 1 /\ \A i \in DOMAIN <<ch>> : <<ch>>[i] \in Characters \union {0}
  BY <1>2
<1> QED BY <1>1, <1>3, InsertPromise

(* ^I.                                                                     *)
LEMMA CompletePromise ==
  ASSUME IInv, Complete
  PROVE  Promise!Insert \/ Promise!Move
<1>0. /\ line \in Lines /\ cmdlen \in 0 .. LineLen - 1 /\ cursor \in 0 .. cmdlen
      /\ cmdlen \in Nat /\ cursor \in Nat
  BY SizesOf
<1>1. hist' = hist /\ ran' = <<>>
  BY DEF Complete, Editing
<1>2. CASE UNCHANGED <<line, cmdlen, cursor, screen>>
  BY <1>0, <1>1, <1>2, MovePromise
<1>3. ASSUME NEW a, NEW t, Inserts(a, t)
      PROVE  Promise!Insert \/ Promise!Move
  <2>1. /\ a \in Seq(Nat) /\ (\A i \in DOMAIN a : a[i] \in Characters \union {0}) /\ Fits(cmdlen, a)
        /\ (line' = line /\ a = <<>>) \/ line' = InsertText(line, cmdlen, cursor, a)
        /\ cmdlen' = cmdlen + Len(a) /\ cursor' = cursor + Len(a)
    BY <1>3, TextAre DEF Inserts
  <2>2. CASE line' = InsertText(line, cmdlen, cursor, a)
    BY <1>1, <2>1, <2>2, InsertPromise
  <2>3. CASE line' = line /\ a = <<>>
    <3>1. Len(a) = 0
      BY <2>3
    <3>2. cmdlen' = cmdlen /\ cursor' = cursor
      BY <1>0, <2>1, <3>1
    <3> QED BY <1>0, <1>1, <2>3, <3>2, MovePromise
  <2> QED BY <2>1, <2>2, <2>3
<1> QED BY <1>0, <1>2, <1>3, CompletedIs

(* Backspace.                                                              *)
LEMMA RuboutPromise ==
  ASSUME IInv, Rubout
  PROVE  Promise!Erase \/ Promise!Move
<1>0. /\ line \in Lines /\ cmdlen \in 0 .. LineLen - 1 /\ cursor \in 0 .. cmdlen
      /\ cmdlen \in Nat /\ cursor \in Nat /\ LineLen \in Nat /\ cursor <= cmdlen /\ cmdlen < LineLen
      /\ line \in [0 .. LineLen - 1 -> Nat]
  BY SizesOf DEF Lines
<1>1. hist' = hist /\ ran' = <<>>
  BY DEF Rubout, Editing
<1>2. CASE cursor > 0
  <2>1. line' = Removed(line, cmdlen, cursor) /\ cmdlen' = cmdlen - 1 /\ cursor' = cursor - 1
    BY <1>2 DEF Rubout
  <2>2. 1 \in 1 .. cursor /\ cursor \in 1 .. cmdlen
    BY <1>0, <1>2
  <2>3. line' \in Lines
    BY <1>0, <2>1, <2>2, RemovedIs
  <2>4. \A i \in 0 .. LineLen - 1 : line'[i] =
          IF i = cmdlen THEN 0 ELSE IF i \in cursor - 1 .. cmdlen - 1 THEN line[i + 1] ELSE line[i]
    BY <1>0, <2>1 DEF Removed
  <2>5. \A i \in 0 .. cursor - 1 - 1 : line'[i] = line[i]
    <3>1. \A i \in 0 .. cursor - 1 - 1 : i \in 0 .. LineLen - 1 /\ i # cmdlen /\ ~(i \in cursor - 1 .. cmdlen - 1)
      BY <1>0
    <3> QED BY <2>4, <3>1
  <2>6. \A i \in cursor - 1 .. cmdlen - 1 : line'[i] = line[i + 1]
    <3>1. \A i \in cursor - 1 .. cmdlen - 1 : i \in 0 .. LineLen - 1 /\ i # cmdlen
      BY <1>0, <1>2
    <3> QED BY <2>4, <3>1
  <2> QED BY <1>1, <2>1, <2>2, <2>3, <2>5, <2>6, ErasePromise
<1>3. CASE ~(cursor > 0)
  <2>1. UNCHANGED <<line, cmdlen, cursor>>
    BY <1>3 DEF Rubout
  <2> QED BY <1>0, <1>1, <2>1, MovePromise
<1> QED BY <1>2, <1>3

(* ^U.                                                                     *)
LEMMA EraseLinePromise ==
  ASSUME IInv, EraseLine
  PROVE  Promise!Erase \/ Promise!Move
<1>0. /\ line \in Lines /\ cmdlen \in 0 .. LineLen - 1 /\ cursor \in 0 .. cmdlen
      /\ cmdlen \in Nat /\ cursor \in Nat /\ LineLen \in Nat /\ cursor <= cmdlen /\ cmdlen < LineLen
      /\ line \in [0 .. LineLen - 1 -> Nat]
  BY SizesOf DEF Lines
<1>1. /\ line' = RemovedAll(line, cmdlen, cursor) /\ cmdlen' = cmdlen - cursor /\ cursor' = 0
      /\ hist' = hist /\ ran' = <<>>
  BY DEF EraseLine, Editing
<1>2. line' \in Lines
  BY <1>0, <1>1, RemovedAllIs
<1>3. \A i \in 0 .. LineLen - 1 : line'[i] =
        IF i <= cmdlen - cursor THEN line[i + cursor] ELSE IF i <= cmdlen THEN 0 ELSE line[i]
  BY <1>0, <1>1 DEF RemovedAll
<1>4. CASE cursor > 0
  <2>1. cursor \in 1 .. cursor /\ cursor' = cursor - cursor
    BY <1>0, <1>1, <1>4
  <2>2. \A i \in 0 .. cursor - cursor - 1 : line'[i] = line[i]
    BY <1>0
  <2>3. \A i \in cursor - cursor .. cmdlen - cursor : line'[i] = line[i + cursor]
    <3>1. \A i \in cursor - cursor .. cmdlen - cursor : i \in 0 .. LineLen - 1 /\ i <= cmdlen - cursor
      BY <1>0
    <3> QED BY <1>3, <3>1
  <2> QED BY <1>1, <1>2, <2>1, <2>2, <2>3, ErasePromise
<1>5. CASE ~(cursor > 0)
  <2>0. cursor = 0
    BY <1>0, <1>5
  <2>1. line' = line
    <3>1. \A i \in 0 .. LineLen - 1 : (i <= cmdlen - cursor <=> i <= cmdlen) /\ i + cursor = i
      BY <1>0, <2>0
    <3>2. \A i \in 0 .. LineLen - 1 : line'[i] = line[i]
      BY <1>3, <3>1
    <3> QED BY <1>0, <1>2, <3>2 DEF Lines
  <2>2. cmdlen' = cmdlen /\ cursor' = cursor
    BY <1>0, <1>1, <2>0
  <2> QED BY <1>0, <1>1, <2>1, <2>2, MovePromise
<1> QED BY <1>4, <1>5

(* A record that is copied into a line is the text of the line.            *)
LEMMA CopiedText ==
  ASSUME NEW h \in Histories, NEW n, NEW d, Chain(h, n, d), NEW k \in 0 .. n, k < n, NEW l \in Lines
  PROVE  LET p == Wrap(h.begin + d[k])
         IN  /\ TextOf(Copied(h, p, l), h.buf[p]) = LinesIn(h)[k + 1]
             /\ Copied(h, p, l)[h.buf[p]] = l[h.buf[p]]
             /\ h.buf[p] \in 1 .. LineLen - 1 /\ Len(LinesIn(h)[k + 1]) = h.buf[p]
<1> DEFINE p == Wrap(h.begin + d[k])
           c == Copied(h, p, l)
<1>0. RingLen \in Nat /\ LineLen \in Nat /\ n \in Nat /\ h.begin \in 0 .. RingLen - 1 /\ k + 1 \in 1 .. n /\ (k + 1) - 1 = k
  BY RingIs DEF Chain, Histories
<1>1. /\ d[k] \in 0 .. RingLen - 1 /\ d[k + 1] \in 0 .. RingLen - 1 /\ d[k + 1] = d[k] + At(h, d[k]) + 1
      /\ At(h, d[k]) \in 1 .. RingLen - 2 /\ At(h, d[k]) \in 1 .. LineLen - 1 /\ At(h, d[k]) = h.buf[p]
  <2>1. k + 1 \in 0 .. n
    BY <1>0
  <2>2. /\ d[k] \in 0 .. RingLen - 1 /\ d[k + 1] \in 0 .. RingLen - 1 /\ d[k + 1] = d[k] + At(h, d[k]) + 1
        /\ At(h, d[k]) \in 1 .. LineLen - 1
    BY <2>1 DEF Chain
  <2>3. At(h, d[k]) \in 1 .. RingLen - 2
    BY BehindIs
  <2> QED BY <2>2, <2>3 DEF At
<1>2. LinesIn(h)[k + 1] = Text(h, d[k]) /\ Len(LinesIn(h)[k + 1]) = h.buf[p]
  <2>1. \A i \in 1 .. n : LinesIn(h)[i] = Text(h, d[i - 1]) /\ Len(LinesIn(h)[i]) = At(h, d[i - 1])
    BY LinesAre
  <2>2. LinesIn(h)[k + 1] = Text(h, d[(k + 1) - 1]) /\ Len(LinesIn(h)[k + 1]) = At(h, d[(k + 1) - 1])
    BY ONLY <1>0, <2>1
  <2>3. d[(k + 1) - 1] = d[k]
    BY <1>0
  <2> QED BY <1>1, <2>2, <2>3, Zenon
<1>3. p \in 0 .. RingLen - 1 /\ p = Wrap(h.begin + d[k])
  BY <1>0, <1>1, WrapIs
<1>4. \A m \in 1 .. At(h, d[k]) : d[k] + m \in 0 .. RingLen - 1 /\ m \in Nat /\ d[k] \in Nat
  <2>1. PICK x, y, a \in Int : x = d[k] /\ y = d[k + 1] /\ a = At(h, d[k])
    BY <1>0, <1>1
  <2>2. x \in 0 .. RingLen - 1 /\ y \in 0 .. RingLen - 1 /\ y = x + a + 1
    BY <1>1, <2>1
  <2>3. \A m \in 1 .. a : x + m \in 0 .. RingLen - 1 /\ m \in Nat /\ x \in Nat
    BY <1>0, <2>2
  <2> QED BY <2>1, <2>3
<1> HIDE DEF p
<1>5. \A m \in 1 .. At(h, d[k]) : Wrap(p + m) = Wrap(h.begin + (d[k] + m))
  BY <1>0, <1>3, <1>4, WrapMore
<1>6. \A i \in 0 .. LineLen - 1 : c[i] = IF i < h.buf[p] THEN h.buf[Wrap(p + 1 + i)] ELSE l[i]
  BY DEF Copied, Lines
<1> HIDE DEF c
<1>7. \A m \in 1 .. At(h, d[k]) : c[m - 1] = At(h, d[k] + m)
  <2> SUFFICES ASSUME NEW m \in 1 .. At(h, d[k])
               PROVE  c[m - 1] = At(h, d[k] + m)
    OBVIOUS
  <2>1. m - 1 \in 0 .. LineLen - 1 /\ m - 1 < h.buf[p] /\ p + 1 + (m - 1) = p + m
    BY <1>0, <1>1, <1>3
  <2>2. c[m - 1] = h.buf[Wrap(p + m)]
    BY <1>6, <2>1
  <2> QED BY <1>5, <2>2 DEF At
<1>8. TextOf(c, h.buf[p]) = Text(h, d[k])
  BY <1>1, <1>7 DEF TextOf, Text
<1>9. c[h.buf[p]] = l[h.buf[p]]
  <2>1. h.buf[p] \in 0 .. LineLen - 1 /\ ~(h.buf[p] < h.buf[p])
    BY <1>0, <1>1
  <2> QED BY <1>6, <2>1
<1> QED BY <1>1, <1>2, <1>8, <1>9 DEF p, c

(* ^P, or the arrow up.                                                    *)
LEMMA UpPromise ==
  ASSUME IInv, Search(RestoreUp(hist, line)), ran' = <<>>
  PROVE  Promise!Older \/ Promise!Move
<1>0. /\ line \in Lines /\ Kept(hist) /\ cmdlen \in 0 .. LineLen - 1 /\ cursor \in 0 .. cmdlen
      /\ LineLen \in Nat /\ LineLen > 0
  BY SizesOf, SizesAre
<1>1. PICK n, d : Chain(hist, n, d) /\ hist.cur <= n
  BY <1>0 DEF Kept
<1>2. hist \in Histories /\ n \in Nat /\ hist.cur \in Nat /\ RingLen \in Nat
  <2>1. hist \in Histories
    BY <1>0 DEF Kept
  <2>2. hist.cur \in Nat /\ RingLen \in Nat
    BY <2>1, RingIs DEF Histories
  <2> QED BY <1>1, <2>1, <2>2, LinesAre
<1>3. PICK r \in Seq(0 .. RingLen - 1) : /\ r = Records(hist) /\ Len(r) = n
                                         /\ \A i \in 1 .. n : r[i] = Wrap(hist.begin + d[i - 1])
  BY <1>1, <1>2, RecordsAre
<1>4. CASE hist.cur >= n
  <2>1. RestoreUp(hist, line) = Answer(hist, line, -1)
    BY <1>3, <1>4 DEF RestoreUp
  <2>2. RestoreUp(hist, line).hist = hist /\ ~(RestoreUp(hist, line).len >= 0)
    BY <2>1 DEF Answer
  <2>3. UNCHANGED <<line, cmdlen, cursor, hist>>
    BY <2>2 DEF Search
  <2> QED BY <1>0, <2>3, MovePromise
<1>5. CASE ~(hist.cur >= n)
  <2> DEFINE g == [hist EXCEPT !.cur = @ + 1]
             clear == [i \in DOMAIN line |-> 0]
  <2>1. PICK k \in 0 .. n : /\ k = n - hist.cur - 1 /\ k < n /\ n - hist.cur \in 1 .. n /\ hist.cur < n
                            /\ k + 1 = n - hist.cur
    BY <1>2, <1>5
  <2>2. PICK p : p = Wrap(hist.begin + d[k]) /\ r[n - hist.cur] = p
    BY <1>3, <2>1
  <2>3. RestoreUp(hist, line) = Answer(g, Copied(hist, p, clear), hist.buf[p])
    BY <1>3, <1>5, <2>2 DEF RestoreUp
  <2>4. clear \in Lines /\ \A i \in 0 .. LineLen - 1 : clear[i] = 0
    BY <1>0 DEF Lines
  <2> HIDE DEF clear
  <2>5. g = [hist EXCEPT !.cur = hist.cur + 1] /\ hist.cur + 1 \in Nat
    BY <1>2 DEF Histories
  <2>6. g.cur = hist.cur + 1 /\ LinesIn(g) = LinesIn(hist)
    BY <1>1, <1>2, <2>5, BrowsedLines
  <2> HIDE DEF g
  <2>7. /\ TextOf(Copied(hist, p, clear), hist.buf[p]) = LinesIn(hist)[k + 1]
        /\ Copied(hist, p, clear)[hist.buf[p]] = clear[hist.buf[p]]
        /\ hist.buf[p] \in 1 .. LineLen - 1 /\ Len(LinesIn(hist)[k + 1]) = hist.buf[p]
    <3>1. n \in Nat /\ hist \in Histories /\ Chain(hist, n, d) /\ k \in 0 .. n /\ k < n
      BY <1>1, <1>2, <2>1
    <3> QED BY ONLY <2>2, <2>4, <3>1, CopiedText
  <2>8. hist.buf[p] >= 0 /\ hist.buf[p] \in 0 .. LineLen - 1
    BY <1>0, <2>7
  <2>9. /\ hist' = g /\ line' = Copied(hist, p, clear) /\ cmdlen' = hist.buf[p] /\ cursor' = hist.buf[p]
    BY <2>3, <2>8 DEF Search, Answer
  <2>10. Len(LinesIn(hist)) = n
    BY <1>1, <1>2, LinesAre
  <2>11. (line[cmdlen] # 0)' = FALSE
    BY <2>4, <2>7, <2>8, <2>9
  <2>12. TextOf(line, cmdlen)' = LinesIn(hist)[Len(LinesIn(hist)) - hist.cur] /\ cursor' = Len(TextOf(line, cmdlen)')
    BY <2>1, <2>7, <2>9, <2>10
  <2>13. hist.cur < Len(LinesIn(hist)) /\ hist'.cur = hist.cur + 1 /\ LinesIn(hist)' = LinesIn(hist)
    BY <2>1, <2>6, <2>9, <2>10
  <2> QED BY <2>11, <2>12, <2>13 DEF Promise!Older
<1> QED BY <1>4, <1>5

(* ^N, or the arrow down.                                                  *)
LEMMA DownPromise ==
  ASSUME IInv, Search(RestoreDown(hist, line)), ran' = <<>>
  PROVE  Promise!Newer
<1>0. /\ line \in Lines /\ Kept(hist) /\ LineLen \in Nat /\ LineLen > 0
  BY SizesOf, SizesAre
<1>1. PICK n, d : Chain(hist, n, d) /\ hist.cur <= n
  BY <1>0 DEF Kept
<1>2. hist \in Histories /\ n \in Nat /\ hist.cur \in Nat /\ RingLen \in Nat
  <2>1. hist \in Histories
    BY <1>0 DEF Kept
  <2>2. hist.cur \in Nat /\ RingLen \in Nat
    BY <2>1, RingIs DEF Histories
  <2> QED BY <1>1, <2>1, <2>2, LinesAre
<1>3. PICK r \in Seq(0 .. RingLen - 1) : /\ r = Records(hist) /\ Len(r) = n
                                         /\ \A i \in 1 .. n : r[i] = Wrap(hist.begin + d[i - 1])
  BY <1>1, <1>2, RecordsAre
<1>4. \A l : TextOf(l, 0) = <<>> /\ Len(<<>>) = 0
  BY DEF TextOf
<1>5. (line[cmdlen] # 0)' \in BOOLEAN
  OBVIOUS
<1>6. CASE hist.cur = 0
  <2>1. RestoreDown(hist, line) = Answer(hist, line, 0)
    BY <1>6 DEF RestoreDown
  <2>2. hist' = hist /\ cmdlen' = 0 /\ cursor' = 0
    BY <2>1 DEF Search, Answer
  <2>3. TextOf(line, cmdlen)' = <<>> /\ cursor' = Len(TextOf(line, cmdlen)')
    BY <1>4, <2>2
  <2> QED BY <1>5, <1>6, <2>2, <2>3 DEF Promise!Newer
<1>7. CASE hist.cur # 0
  <2> DEFINE g == [hist EXCEPT !.cur = @ - 1]
  <2>1. PICK c \in 0 .. n : c = hist.cur - 1 /\ c < n /\ c \in Nat
    BY <1>1, <1>2, <1>7
  <2>2. g = [hist EXCEPT !.cur = c]
    BY <1>2, <2>1 DEF Histories
  <2>3. g.cur = c /\ LinesIn(g) = LinesIn(hist)
    BY <1>1, <1>2, <2>1, <2>2, BrowsedLines
  <2>4. Len(LinesIn(hist)) = n
    BY <1>1, <1>2, LinesAre
  <2>5. CASE c = 0
    <3>1. RestoreDown(hist, line) = Answer(g, line, 0)
      BY <1>7, <2>3, <2>5 DEF RestoreDown
    <3> HIDE DEF g
    <3>2. hist' = g /\ cmdlen' = 0 /\ cursor' = 0
      BY <3>1 DEF Search, Answer
    <3>3. TextOf(line, cmdlen)' = <<>> /\ cursor' = Len(TextOf(line, cmdlen)')
      BY <1>4, <3>2
    <3>4. hist'.cur = 0 /\ hist'.cur = hist.cur - 1 /\ LinesIn(hist)' = LinesIn(hist)
      BY <2>1, <2>3, <2>5, <3>2
    <3> QED BY <1>5, <1>7, <3>2, <3>3, <3>4 DEF Promise!Newer
  <2>6. CASE c # 0
    <3>1. PICK k \in 0 .. n : k = n - c /\ k < n /\ n - c + 1 \in 1 .. n /\ (n - c + 1) - 1 = k /\ k + 1 = n - c + 1
      BY <1>2, <2>1, <2>6
    <3>2. PICK p : p = Wrap(hist.begin + d[k]) /\ r[n - c + 1] = p
      BY <1>3, <3>1
    <3>3. RestoreDown(hist, line) = Answer(g, Copied(hist, p, line), hist.buf[p])
      BY <1>3, <1>7, <2>3, <2>6, <3>2 DEF RestoreDown
    <3> HIDE DEF g
    <3>4. /\ TextOf(Copied(hist, p, line), hist.buf[p]) = LinesIn(hist)[k + 1]
          /\ hist.buf[p] \in 1 .. LineLen - 1 /\ Len(LinesIn(hist)[k + 1]) = hist.buf[p]
      <4>1. hist \in Histories /\ Chain(hist, n, d) /\ k \in 0 .. n /\ k < n /\ line \in Lines
        BY <1>0, <1>1, <1>2, <3>1
      <4>2. p = Wrap(hist.begin + d[k])
        BY <3>2
      <4> QED BY ONLY <4>1, <4>2, CopiedText
    <3>5. hist.buf[p] >= 0
      BY <1>0, <3>4
    <3>6. /\ hist' = g /\ line' = Copied(hist, p, line) /\ cmdlen' = hist.buf[p] /\ cursor' = hist.buf[p]
      BY <3>3, <3>5 DEF Search, Answer
    <3>7. hist'.cur = c /\ LinesIn(hist)' = LinesIn(hist)
      BY <2>3, <3>6
    <3>8. TextOf(line, cmdlen)' = LinesIn(hist)[Len(LinesIn(hist)) - hist'.cur + 1] /\ cursor' = Len(TextOf(line, cmdlen)')
      BY <2>4, <3>1, <3>4, <3>6, <3>7
    <3>9. hist'.cur # 0 /\ hist'.cur = hist.cur - 1
      BY <2>1, <2>6, <3>7
    <3> QED BY <1>5, <1>7, <3>7, <3>8, <3>9 DEF Promise!Newer
  <2> QED BY <2>5, <2>6
<1> QED BY <1>6, <1>7

(* ^P and ^N,                                                              *)
LEMMA HistoryKeyPromise ==
  ASSUME IInv, HistoryKey
  PROVE  Promise!Older \/ Promise!Newer \/ Promise!Move
<1>1. ran' = <<>> /\ (Search(RestoreUp(hist, line)) \/ Search(RestoreDown(hist, line)))
  BY DEF HistoryKey
<1> QED BY <1>1, UpPromise, DownPromise

(* and what comes after an escape.                                         *)
LEMMA EscapeProcessPromise ==
  ASSUME IInv, EscapeProcess \/ Escape
  PROVE  Promise!Older \/ Promise!Newer \/ Promise!Move
<1>1. ran' = <<>>
  BY DEF EscapeProcess, Escape, Sequel, Ends
<1>2. CASE UNCHANGED <<line, cmdlen, cursor, hist>>
  <2>1. cursor' \in 0 .. cmdlen
    BY <1>2, SizesOf
  <2> QED BY <1>1, <1>2, <2>1, MovePromise
<1>3. CASE (ToEnd \/ ToBegin \/ Right \/ Left) /\ UNCHANGED <<line, cmdlen, hist>>
  BY <1>1, <1>3, MovesPromise
<1>4. CASE Search(RestoreUp(hist, line)) \/ Search(RestoreDown(hist, line))
  BY <1>1, <1>4, UpPromise, DownPromise
<1> QED BY <1>2, <1>3, <1>4 DEF EscapeProcess, Escape, Sequel, Ends, Still

(* Enter.                                                                  *)
LEMMA EnterPromise ==
  ASSUME IInv, Enter
  PROVE  Promise!Enter
<1> DEFINE t == TextOf(line, cmdlen)
           s == Split(line, cmdlen)
           W == Promise!Words(t)
<1>0. /\ line \in Lines /\ Kept(hist) /\ LineLen \in Nat /\ LineLen > 0
      /\ cmdlen \in Nat /\ cmdlen \in 0 .. LineLen - 1
  BY SizesOf, SizesAre
<1>1. PICK n, d : Chain(hist, n, d) /\ hist \in Histories
  BY <1>0 DEF Kept
<1>2. PICK h : /\ h = (IF cmdlen > 0 THEN SaveLine(hist, line, cmdlen) ELSE hist)
               /\ hist' = [h EXCEPT !.cur = 0]
  BY DEF Enter
<1>3. /\ h \in Histories /\ \E m, f : Chain(h, m, f)
      /\ LinesIn(h) = Promise!Remember(LinesIn(hist), t)
  <2>1. CASE cmdlen > 0
    <3>1. cmdlen \in 1 .. LineLen - 1
      BY <1>0, <2>1
    <3> QED BY <1>0, <1>1, <1>2, <2>1, <3>1, RememberIs
  <2>2. CASE ~(cmdlen > 0)
    <3>1. cmdlen = 0 /\ t \in Seq(Nat) /\ Len(t) = 0
      BY <1>0, <2>2, TextIs
    <3>2. t = <<>>
      BY <3>1
    <3>3. Promise!Remember(LinesIn(hist), t) = LinesIn(hist)
      BY <3>2 DEF Promise!Remember
    <3> QED BY <1>1, <1>2, <2>2, <3>3
  <2> QED BY <2>1, <2>2
<1>4. hist'.cur = 0 /\ LinesIn(hist') = LinesIn(h)
  BY <1>2, <1>3, BrowsedLines
<1>5. IF Len(W) \in 1 .. TokenNmb - 1
      THEN s.status > 0 /\ Promise!Runs(W, s.words)
      ELSE ~(s.status > 0)
  BY <1>0, RunsAre
<1>6. /\ ran' = (IF s.status > 0 THEN s.words ELSE <<>>)
      /\ cmdlen' = 0 /\ cursor' = 0 /\ line' = [i \in 0 .. LineLen - 1 |-> 0]
  BY DEF Enter
<1>7. line'[0] = 0 /\ line'[cmdlen'] = 0
  BY <1>0, <1>6
<1>8. TextOf(line, cmdlen)' = <<>>
  BY <1>6 DEF TextOf
<1>9. LinesIn(hist)' = Promise!Remember(LinesIn(hist), t) /\ (hist.cur)' = 0 /\ (line[cmdlen] # 0)' = FALSE
  BY <1>3, <1>4, <1>7
<1> HIDE DEF s, W
<1>10. IF Len(W) \in 1 .. TokenNmb - 1 THEN Promise!Runs(W, ran') ELSE ran' = <<>>
  BY <1>5, <1>6
<1> QED BY <1>6, <1>8, <1>9, <1>10 DEF Promise!Enter, t, W

(* There are no lines in an empty history.                                 *)
LEMMA NoLines == LinesIn(NewHistory) = <<>> /\ NewHistory.cur = 0
<1>1. PICK n, d : Chain(NewHistory, n, d) /\ NewHistory \in Histories
  BY NewIs DEF Kept
<1>2. RingLen \in Nat /\ RingLen > 1 /\ n \in Nat /\ 0 \in 0 .. n
  BY <1>1, RingIs DEF Chain
<1>3. At(NewHistory, d[0]) = 0
  <2>1. d[0] = 0 /\ NewHistory.begin = 0 /\ NewHistory.buf = [p \in 0 .. RingLen - 1 |-> 0]
    BY <1>1 DEF Chain, NewHistory
  <2>2. Wrap(0 + 0) = 0 /\ 0 \in 0 .. RingLen - 1
    BY <1>2 DEF Wrap
  <2> QED BY <2>1, <2>2 DEF At
<1>4. n = 0
  <2>1. ~(0 < n)
    <3> SUFFICES ASSUME 0 < n
                 PROVE  FALSE
      OBVIOUS
    <3>1. At(NewHistory, d[0]) \in 1 .. LineLen - 1
      BY <1>1, <1>2 DEF Chain
    <3> QED BY <1>3, <3>1, RingIs
  <2> QED BY <1>2, <2>1
<1>5. LinesIn(NewHistory) \in Seq(Seq(Nat)) /\ Len(LinesIn(NewHistory)) = 0
  BY <1>1, <1>4, LinesAre
<1>6. LinesIn(NewHistory) = <<>>
  BY <1>5
<1> QED BY <1>6 DEF NewHistory

(* A reset.                                                                *)
LEMMA ResetPromise ==
  ASSUME Reset
  PROVE  Promise!PowerUp
<1>1. /\ cmdlen' = 0 /\ cursor' = 0 /\ hist' = NewHistory /\ ran' = <<>>
      /\ line' = [i \in 0 .. LineLen - 1 |-> 0]
  BY DEF Reset
<1>2. line'[cmdlen'] = 0
  BY <1>1, SizesAre
<1>3. TextOf(line, cmdlen)' = <<>>
  BY <1>1 DEF TextOf
<1>4. LinesIn(hist)' = <<>> /\ (hist.cur)' = 0 /\ (line[cmdlen] # 0)' = FALSE
  BY <1>1, <1>2, NoLines
<1> QED BY <1>1, <1>3, <1>4 DEF Promise!PowerUp

(* and the beginning.                                                      *)
LEMMA InitPromise == Init => Promise!Start
<1> SUFFICES ASSUME Init
             PROVE  Promise!Start
  OBVIOUS
<1>1. /\ cmdlen = 0 /\ cursor = 0 /\ hist = NewHistory /\ ran = <<>>
      /\ line = [i \in 0 .. LineLen - 1 |-> 0]
  BY DEF Init
<1>2. line[cmdlen] = 0
  BY <1>1, SizesAre
<1>3. TextOf(line, cmdlen) = <<>>
  BY <1>1 DEF TextOf
<1>4. LinesIn(hist) = <<>> /\ hist.cur = 0 /\ (line[cmdlen] # 0) = FALSE
  BY <1>1, <1>2, NoLines
<1> QED BY <1>1, <1>3, <1>4 DEF Promise!Start

(* Every key does what the promise allows.                                 *)
LEMMA NextPromise == IInv /\ [Next]_vars => [Promise!Edit]_(Promise!editor)
<1> SUFFICES ASSUME IInv, [Next]_vars
             PROVE  Promise!Edit \/ UNCHANGED Promise!editor
  OBVIOUS
<1>1. ASSUME NEW ch \in Letters \union {0}, Type(ch)
      PROVE  Promise!Edit
  BY <1>1, TypePromise DEF Promise!Edit
<1>2. CASE Rubout
  BY <1>2, RuboutPromise DEF Promise!Edit
<1>3. CASE EraseLine
  BY <1>3, EraseLinePromise DEF Promise!Edit
<1>4. CASE KillLine
  BY <1>4, KillPromise DEF Promise!Edit
<1>5. CASE MoveKey
  BY <1>5, MovesPromise DEF MoveKey, Editing, Promise!Edit
<1>6. CASE HistoryKey
  BY <1>6, HistoryKeyPromise DEF Promise!Edit
<1>7. CASE Escape \/ EscapeProcess
  BY <1>7, EscapeProcessPromise DEF Promise!Edit
<1>8. CASE Complete
  BY <1>8, CompletePromise DEF Promise!Edit
<1>9. CASE Enter
  BY <1>9, EnterPromise DEF Promise!Edit
<1>10. CASE Reset
  BY <1>10, ResetPromise DEF Promise!Edit
<1>11. CASE UNCHANGED vars
  BY <1>11 DEF vars, Promise!editor
<1> QED BY <1>1, <1>2, <1>3, <1>4, <1>5, <1>6, <1>7, <1>8, <1>9, <1>10, <1>11 DEF Next

(***************************************************************************)
(* With its ring, its buffer and its escape sequences the editor does what *)
(* EditorPromise says of a line, a history and words: every key is one of  *)
(* its steps or changes nothing that it speaks of.                         *)
(***************************************************************************)
THEOREM EditorKeepsPromise == Spec => KeepsEditorPromise
<1>1. Init => Promise!Start
  BY InitPromise
<1>2. IInv /\ [Next]_vars => [Promise!Edit]_(Promise!editor)
  BY NextPromise
<1> QED BY <1>1, <1>2, EditorInvariant, PTL DEF Spec, KeepsEditorPromise, Promise!EditorSpec

=============================================================================
