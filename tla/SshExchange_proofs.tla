------------------------- MODULE SshExchange_proofs -------------------------
(***************************************************************************)
(* Theorems about the key exchange between the two ends of SshSession.tla, *)
(* as long as no SendPacket fails inside the server (the random generator, *)
(* the HMAC or AES): such a failure leaves half an exchange on the wire.   *)
(***************************************************************************)
EXTENDS SshSession_proofs
-----------------------------------------------------------------------------
(* Queues *)

\* Whether a is never behind b in a queue.
Leads(q, a, b) == \A i, j \in DOMAIN q : q[i].msg = a /\ q[j].msg = b => i < j

Lacks(q, m) == \A i \in DOMAIN q : q[i].msg # m

SealedWith(q, k) == \A i \in DOMAIN q : q[i].key = k

\* Every packet of q has the keys its receiver, now at k, will hold by then.
Keyed(q, k) == \A i \in DOMAIN q : q[i].key = k + Count(SubSeq(q, 1, i - 1), "newkeys")

LEMMA Domain == ASSUME NEW S, NEW q \in Seq(S) PROVE DOMAIN q = 1..Len(q) /\ Len(q) \in Nat
  OBVIOUS

\* A packet that is there counts.
LEMMA CountSome ==
  ASSUME NEW S, Sized(S), NEW q \in Seq(S), NEW i \in DOMAIN q
  PROVE  Count(q, q[i].msg) >= 1
  <1>. DEFINE m == q[i].msg
              front == SubSeq(q, 1, i - 1)
              tail == SubSeq(q, i, Len(q))
  <1>0. i \in 1..Len(q) /\ Len(q) \in Nat /\ q[i] \in S
    OBVIOUS
  <1>1. /\ front \in Seq(S)
        /\ tail \in Seq(S) /\ tail # <<>> /\ Head(tail) = q[i]
    BY <1>0
  <1>2. front \o tail = q
    <2>. DEFINE k == i - 1
    <2>1. 1 \in 1..(Len(q) + 1) /\ k \in (1 - 1)..Len(q) /\ Len(q) \in k..Len(q)
      BY <1>0
    <2>. HIDE DEF k
    <2>2. SubSeq(q, 1, k) \o SubSeq(q, k + 1, Len(q)) = SubSeq(q, 1, Len(q))
      BY <2>1, ConcatAdjacentSubSeq
    <2>3. k = i - 1 /\ k + 1 = i
      BY <1>0 DEF k
    <2>. QED  BY <2>2, <2>3, SubSeqFull
  <1>. HIDE DEF front, tail, m
  <1>3. Count(q, m) = Count(front, m) + Count(tail, m)
    <2>1. Count(front \o tail, m) = Count(front, m) + Count(tail, m)
      BY <1>1, CountConcat
    <2>. QED  BY <1>2, <2>1
  <1>4. Count(tail, m) = One(q[i], m) + Count(Tail(tail), m)
    BY <1>1, CountTail
  <1>5. Count(front, m) \in Nat /\ Count(Tail(tail), m) \in Nat
    BY <1>1, CountNat, HeadTailProperties
  <1>6. One(q[i], m) = 1
    BY DEF One, m
  <1>7. Count(q, m) >= 1
    BY <1>3, <1>4, <1>5, <1>6
  <1>. QED  BY <1>7 DEF m

\* What does not count is not there, and the other way round.
LEMMA CountLacks ==
  ASSUME NEW S, Sized(S), NEW q \in Seq(S), NEW m
  PROVE  Lacks(q, m) <=> Count(q, m) = 0
  <1>1. ASSUME Lacks(q, m) PROVE Count(q, m) = 0
    BY <1>1, Domain, CountNone DEF Lacks
  <1>2. ASSUME Count(q, m) = 0 PROVE Lacks(q, m)
    BY <1>2, CountSome DEF Lacks
  <1>. QED  BY <1>1, <1>2

\* A packet taken from the front: it has the keys the receiver is at,
LEMMA KeyedTail ==
  ASSUME NEW S, Sized(S), NEW q \in Seq(S), q # <<>>, NEW k \in Nat, Keyed(q, k)
  PROVE  Head(q).key = k /\ Keyed(Tail(q), k + One(Head(q), "newkeys"))
  <1>. DEFINE r == Tail(q)
  <1>1. /\ Head(q) = q[1] /\ Head(q) \in S /\ Len(q) \in Nat /\ Len(q) >= 1
        /\ r \in Seq(S) /\ Len(r) = Len(q) - 1 /\ \A i \in 1..Len(r) : r[i] = q[i + 1]
        /\ DOMAIN q = 1..Len(q) /\ DOMAIN r = 1..Len(r)
    BY HeadTailProperties
  <1>. HIDE DEF r
  <1>2. Head(q).key = k
    <2>1. 1 \in DOMAIN q /\ SubSeq(q, 1, 1 - 1) = <<>>
      BY <1>1
    <2>2. q[1].key = k + Count(<<>>, "newkeys")
      BY <2>1 DEF Keyed
    <2>. QED  BY <1>1, <2>2, CountEmpty
  <1>3. ASSUME NEW i \in DOMAIN r
        PROVE  r[i].key = k + One(Head(q), "newkeys") + Count(SubSeq(r, 1, i - 1), "newkeys")
    <2>. DEFINE u == SubSeq(q, 1, i)
                v == SubSeq(r, 1, i - 1)
    <2>1. i \in 1..Len(r) /\ i + 1 \in DOMAIN q /\ (i + 1) - 1 = i /\ i \in 1..Len(q)
      BY <1>1
    <2>2. r[i].key = k + Count(u, "newkeys")
      <3>1. q[i + 1].key = k + Count(SubSeq(q, 1, (i + 1) - 1), "newkeys")
        BY <2>1 DEF Keyed
      <3>. QED  BY <1>1, <2>1, <3>1
    <2>3. u \in Seq(S) /\ u # <<>> /\ Head(u) = q[1]
      BY <1>1, <2>1
    <2>4. Tail(u) = v
      <3>1. /\ Tail(u) \in Seq(S) /\ Len(Tail(u)) = i - 1
            /\ \A j \in 1..(i - 1) : Tail(u)[j] = q[j + 1]
        BY <1>1, <2>1
      <3>2. v \in Seq(S) /\ Len(v) = i - 1 /\ \A j \in 1..(i - 1) : v[j] = r[j]
        BY <1>1, <2>1
      <3>3. \A j \in 1..(i - 1) : Tail(u)[j] = v[j]
        <4>1. \A j \in 1..(i - 1) : j \in 1..Len(r)
          BY <1>1, <2>1
        <4>. QED  BY <1>1, <3>1, <3>2, <4>1
      <3>. DEFINE w == Tail(u)
      <3>4. w \in Seq(S) /\ Len(w) = Len(v) /\ \A j \in 1..Len(w) : w[j] = v[j]
        BY <3>1, <3>2, <3>3
      <3>. HIDE DEF w, v
      <3>5. w = v
        BY <3>2, <3>4, SeqEqual
      <3>. QED  BY <3>5 DEF w
    <2>5. v \in Seq(S)
      BY <1>1, <2>1
    <2>. HIDE DEF u, v
    <2>6. Count(u, "newkeys") = One(q[1], "newkeys") + Count(v, "newkeys")
      BY <2>3, <2>4, CountTail
    <2>7. Count(v, "newkeys") \in Nat
      BY <2>5, CountNat
    <2>8. r[i].key = k + One(q[1], "newkeys") + Count(v, "newkeys")
      BY <2>2, <2>6, <2>7 DEF One
    <2>. QED  BY <1>1, <2>8 DEF v
  <1>4. Keyed(r, k + One(Head(q), "newkeys"))
    BY <1>3 DEF Keyed
  <1>. QED  BY <1>2, <1>4 DEF r

\* and packets added at the end have the keys it will be at after all the others;
\* of several only the last may be NEWKEYS.
LEMMA KeyedConcat ==
  ASSUME NEW S, Sized(S), NEW q \in Seq(S), NEW t \in Seq(S), NEW k \in Nat, Keyed(q, k),
         NEW l, l = k + Count(q, "newkeys"), \A i \in DOMAIN t : t[i].key = l,
         \A i \in DOMAIN t : t[i].msg = "newkeys" => i = Len(t)
  PROVE  Keyed(q \o t, k)
  <1>. DEFINE u == q \o t
  <1>1. /\ Len(q) \in Nat /\ Len(t) \in Nat /\ u \in Seq(S) /\ Len(u) = Len(q) + Len(t)
        /\ DOMAIN q = 1..Len(q) /\ DOMAIN t = 1..Len(t) /\ DOMAIN u = 1..Len(u)
    BY ConcatProperties
  <1>2. ASSUME NEW i \in 1..Len(q)
        PROVE  u[i].key = k + Count(SubSeq(u, 1, i - 1), "newkeys")
    <2>1. u[i] = q[i]
      BY <1>1, ConcatProperties
    <2>2. SubSeq(u, 1, i - 1) = SubSeq(q, 1, i - 1)
      <3>1. CASE i = 1
        BY <3>1
      <3>2. CASE i # 1
        <4>1. 1 \in 1..Len(q) /\ i - 1 \in 1..Len(q)
          BY <3>2
        <4>. QED  BY <4>1, SubSeqOfConcat1
      <3>. QED  BY <3>1, <3>2
    <2>3. q[i].key = k + Count(SubSeq(q, 1, i - 1), "newkeys")
      BY <1>1 DEF Keyed
    <2>. QED  BY <2>1, <2>2, <2>3
  <1>3. ASSUME NEW j \in 1..Len(t)
        PROVE  u[Len(q) + j].key = k + Count(SubSeq(u, 1, Len(q) + j - 1), "newkeys")
    <2>. DEFINE v == SubSeq(t, 1, j - 1)
                w == SubSeq(u, 1, Len(q) + j - 1)
    <2>1. u[Len(q) + j] = t[j]
      <3>1. Len(q) + j \in 1..(Len(q) + Len(t)) /\ ~(Len(q) + j <= Len(q))
            /\ (Len(q) + j) - Len(q) = j
        BY <1>1
      <3>. QED  BY <3>1, ConcatProperties
    <2>2. v \in Seq(S) /\ Len(v) = j - 1 /\ \A i \in 1..(j - 1) : v[i] = t[i]
      BY <1>1
    <2>3. w = q \o v
      <3>1. w \in Seq(S) /\ Len(w) = Len(q) + j - 1
            /\ \A i \in 1..(Len(q) + j - 1) : w[i] = u[i]
        BY <1>1
      <3>2. q \o v \in Seq(S) /\ Len(q \o v) = Len(q) + j - 1
        BY <1>1, <2>2, ConcatProperties
      <3>3. ASSUME NEW i \in 1..(Len(q) + j - 1) PROVE w[i] = (q \o v)[i]
        <4>1. i \in 1..(Len(q) + Len(t)) /\ i \in 1..(Len(q) + Len(v))
          BY <1>1, <2>2
        <4>2. u[i] = IF i <= Len(q) THEN q[i] ELSE t[i - Len(q)]
          BY <4>1, ConcatProperties
        <4>. HIDE DEF v
        <4>3. (q \o v)[i] = IF i <= Len(q) THEN q[i] ELSE v[i - Len(q)]
          BY <4>1, <2>2, ConcatProperties
        <4>4. i > Len(q) => v[i - Len(q)] = t[i - Len(q)]
          BY <1>1, <2>2
        <4>5. w[i] = u[i]
          BY <3>1
        <4>. QED  BY <1>1, <4>2, <4>3, <4>4, <4>5
      <3>. DEFINE x == q \o v
      <3>4. x \in Seq(S) /\ Len(x) = Len(w) /\ \A i \in 1..Len(w) : w[i] = x[i]
        BY <3>1, <3>2, <3>3
      <3>. HIDE DEF x, w
      <3>5. w = x
        BY <3>1, <3>4, SeqEqual
      <3>. QED  BY <3>5 DEF x
    <2>. HIDE DEF v, w
    <2>4. Count(w, "newkeys") = Count(q, "newkeys") + Count(v, "newkeys")
      BY <2>2, <2>3, CountConcat
    <2>5. Count(v, "newkeys") = 0
      <3>1. \A i \in 1..Len(v) : v[i].msg # "newkeys"
        BY <1>1, <2>2
      <3>. QED  BY <2>2, <3>1, CountNone
    <2>6. Count(q, "newkeys") \in Nat
      BY CountNat
    <2>7. t[j].key = l
      BY <1>1
    <2>8. u[Len(q) + j].key = k + Count(w, "newkeys")
      BY <2>1, <2>4, <2>5, <2>6, <2>7
    <2>. QED  BY <2>8 DEF w
  <1>. HIDE DEF u
  <1>4. ASSUME NEW i \in DOMAIN u
        PROVE  u[i].key = k + Count(SubSeq(u, 1, i - 1), "newkeys")
    <2>1. CASE i <= Len(q)
      <3>1. i \in 1..Len(q)
        BY <1>1, <2>1
      <3>. QED  BY <1>2, <3>1
    <2>2. CASE i > Len(q)
      <3>. DEFINE j == i - Len(q)
      <3>1. j \in 1..Len(t) /\ Len(q) + j = i
        BY <1>1, <2>2
      <3>. HIDE DEF j
      <3>. QED  BY <1>3, <3>1
    <2>. QED  BY <1>1, <2>1, <2>2
  <1>5. Keyed(u, k)
    BY <1>4 DEF Keyed
  <1>. QED  BY <1>5 DEF u

LEMMA LeadsTail ==
  ASSUME NEW S, NEW q \in Seq(S), q # <<>>, NEW a, NEW b, Leads(q, a, b)
  PROVE  Leads(Tail(q), a, b) /\ (Head(q).msg = b => Lacks(q, a))
  <1>. DEFINE r == Tail(q)
  <1>1. /\ Head(q) = q[1] /\ Len(q) \in Nat /\ Len(q) >= 1
        /\ r \in Seq(S) /\ Len(r) = Len(q) - 1 /\ \A i \in 1..Len(r) : r[i] = q[i + 1]
        /\ DOMAIN q = 1..Len(q) /\ DOMAIN r = 1..Len(r)
    BY HeadTailProperties
  <1>. HIDE DEF r
  <1>2. ASSUME NEW i \in DOMAIN r, NEW j \in DOMAIN r, r[i].msg = a, r[j].msg = b
        PROVE  i < j
    <2>1. i + 1 \in DOMAIN q /\ j + 1 \in DOMAIN q /\ r[i] = q[i + 1] /\ r[j] = q[j + 1]
      BY <1>1
    <2>2. i + 1 < j + 1
      BY <1>2, <2>1 DEF Leads
    <2>. QED  BY <1>1, <2>2
  <1>3. Leads(r, a, b)
    BY <1>2 DEF Leads
  <1>4. ASSUME Head(q).msg = b, NEW i \in DOMAIN q PROVE q[i].msg # a
    <2>1. 1 \in DOMAIN q /\ q[1].msg = b /\ ~(i < 1)
      BY <1>1, <1>4
    <2>. QED  BY <2>1 DEF Leads
  <1>. QED  BY <1>3, <1>4 DEF r, Lacks

LEMMA LeadsConcat ==
  ASSUME NEW S, NEW q \in Seq(S), NEW t \in Seq(S), NEW a, NEW b,
         Leads(q, a, b), Leads(t, a, b), Lacks(t, a) \/ Lacks(q, b)
  PROVE  Leads(q \o t, a, b)
  <1>. DEFINE u == q \o t
  <1>1. /\ Len(q) \in Nat /\ Len(t) \in Nat /\ Len(u) = Len(q) + Len(t)
        /\ DOMAIN q = 1..Len(q) /\ DOMAIN t = 1..Len(t) /\ DOMAIN u = 1..Len(u)
    BY ConcatProperties
  <1>2. \A i \in 1..(Len(q) + Len(t)) : u[i] = IF i <= Len(q) THEN q[i] ELSE t[i - Len(q)]
    BY ConcatProperties
  <1>. HIDE DEF u
  <1>3. ASSUME NEW i \in DOMAIN u, NEW j \in DOMAIN u, u[i].msg = a, u[j].msg = b
        PROVE  i < j
    <2>0. i \in 1..(Len(q) + Len(t)) /\ j \in 1..(Len(q) + Len(t))
      BY <1>1
    <2>1. CASE i <= Len(q) /\ j <= Len(q)
      BY <1>1, <1>2, <1>3, <2>0, <2>1 DEF Leads
    <2>2. CASE i <= Len(q) /\ j > Len(q)
      BY <1>1, <2>0, <2>2
    <2>3. CASE i > Len(q) /\ j <= Len(q)
      <3>1. i - Len(q) \in DOMAIN t /\ t[i - Len(q)].msg = a /\ j \in DOMAIN q /\ q[j].msg = b
        BY <1>1, <1>2, <1>3, <2>0, <2>3
      <3>. QED  BY <3>1 DEF Lacks
    <2>4. CASE i > Len(q) /\ j > Len(q)
      <3>1. /\ i - Len(q) \in DOMAIN t /\ t[i - Len(q)].msg = a
            /\ j - Len(q) \in DOMAIN t /\ t[j - Len(q)].msg = b
        BY <1>1, <1>2, <1>3, <2>0, <2>4
      <3>2. i - Len(q) < j - Len(q)
        BY <3>1 DEF Leads
      <3>. QED  BY <1>1, <2>0, <3>2
    <2>. QED  BY <1>1, <2>0, <2>1, <2>2, <2>3, <2>4
  <1>4. Leads(u, a, b)
    BY <1>3 DEF Leads
  <1>. QED  BY <1>4 DEF u

\* Of the packets in front of one there are no more than there are.
LEMMA CountFront ==
  ASSUME NEW S, Sized(S), NEW q \in Seq(S), NEW i \in DOMAIN q, NEW m
  PROVE  Count(SubSeq(q, 1, i - 1), m) \in Nat /\ Count(SubSeq(q, 1, i - 1), m) <= Count(q, m)
  <1>. DEFINE k == i - 1
              front == SubSeq(q, 1, k)
              tail == SubSeq(q, k + 1, Len(q))
  <1>0. i \in 1..Len(q) /\ Len(q) \in Nat
    OBVIOUS
  <1>1. front \in Seq(S) /\ tail \in Seq(S)
    BY <1>0
  <1>2. front \o tail = q
    <2>1. 1 \in 1..(Len(q) + 1) /\ k \in (1 - 1)..Len(q) /\ Len(q) \in k..Len(q)
      BY <1>0
    <2>. HIDE DEF k
    <2>2. SubSeq(q, 1, k) \o SubSeq(q, k + 1, Len(q)) = SubSeq(q, 1, Len(q))
      BY <2>1, ConcatAdjacentSubSeq
    <2>. QED  BY <2>2, SubSeqFull
  <1>. HIDE DEF front, tail
  <1>3. Count(q, m) = Count(front, m) + Count(tail, m)
    <2>1. Count(front \o tail, m) = Count(front, m) + Count(tail, m)
      BY <1>1, CountConcat
    <2>. QED  BY <1>2, <2>1
  <1>4. Count(front, m) \in Nat /\ Count(tail, m) \in Nat
    BY <1>1, CountNat
  <1>. QED  BY <1>3, <1>4 DEF front, k

\* In a queue a leads b and b leads c, and the keys change as it is read from k on.
Ordered(q, a, b, c, k) == Leads(q, a, b) /\ Leads(q, b, c) /\ Keyed(q, k)

LEMMA OrderedTail ==
  ASSUME NEW S, Sized(S), NEW q \in Seq(S), q # <<>>, NEW k \in Nat,
         NEW a, NEW b, NEW c, Ordered(q, a, b, c, k)
  PROVE  /\ Head(q).key = k
         /\ Ordered(Tail(q), a, b, c, k + One(Head(q), "newkeys"))
         /\ Head(q).msg = b => Count(q, a) = 0
         /\ Head(q).msg = c => Count(q, b) = 0
  <1>1. Head(q).key = k /\ Keyed(Tail(q), k + One(Head(q), "newkeys"))
    BY KeyedTail DEF Ordered
  <1>2. Leads(Tail(q), a, b) /\ (Head(q).msg = b => Lacks(q, a))
    BY LeadsTail DEF Ordered
  <1>3. Leads(Tail(q), b, c) /\ (Head(q).msg = c => Lacks(q, b))
    BY LeadsTail DEF Ordered
  <1>4. (Lacks(q, a) => Count(q, a) = 0) /\ (Lacks(q, b) => Count(q, b) = 0)
    BY CountLacks
  <1>. QED  BY <1>1, <1>2, <1>3, <1>4 DEF Ordered

\* What t may be to go to the end of a queue that is ordered and stay so.
Follows(q, t, a, b, c, l) ==
    /\ SealedWith(t, l)
    /\ \A i \in DOMAIN t : t[i].msg = "newkeys" => i = Len(t)
    /\ Leads(t, a, b) /\ (Lacks(t, a) \/ Count(q, b) = 0)
    /\ Leads(t, b, c) /\ (Lacks(t, b) \/ Count(q, c) = 0)

LEMMA OrderedConcat ==
  ASSUME NEW S, Sized(S), NEW q \in Seq(S), NEW t \in Seq(S), NEW k \in Nat,
         NEW a, NEW b, NEW c, Ordered(q, a, b, c, k),
         NEW l, l = k + Count(q, "newkeys"), Follows(q, t, a, b, c, l)
  PROVE  Ordered(q \o t, a, b, c, k)
  <1>1. Keyed(q \o t, k)
    <2>1. /\ \A i \in DOMAIN t : t[i].key = l
          /\ \A i \in DOMAIN t : t[i].msg = "newkeys" => i = Len(t)
      BY DEF Follows, SealedWith
    <2>2. Keyed(q, k)
      BY DEF Ordered
    <2>. QED  BY <2>1, <2>2, KeyedConcat
  <1>2. (Count(q, b) = 0 => Lacks(q, b)) /\ (Count(q, c) = 0 => Lacks(q, c))
    BY CountLacks
  <1>3. Leads(q \o t, a, b)
    <2>1. Leads(q, a, b) /\ Leads(t, a, b) /\ (Lacks(t, a) \/ Lacks(q, b))
      BY <1>2 DEF Follows, Ordered
    <2>. QED  BY <2>1, LeadsConcat
  <1>4. Leads(q \o t, b, c)
    <2>1. Leads(q, b, c) /\ Leads(t, b, c) /\ (Lacks(t, b) \/ Lacks(q, c))
      BY <1>2 DEF Follows, Ordered
    <2>. QED  BY <2>1, LeadsConcat
  <1>. QED  BY <1>1, <1>3, <1>4 DEF Ordered

\* Packets that have to do with neither order nor keys may follow anything.
LEMMA AsideFollows ==
  ASSUME NEW S, Sized(S), NEW q \in Seq(S), NEW t \in Seq(S), NEW a, NEW b, NEW c, NEW l,
         SealedWith(t, l), "newkeys" \in {a, b, c},
         Lacks(t, a), Lacks(t, b), Lacks(t, c)
  PROVE  /\ Follows(q, t, a, b, c, l)
         /\ Count(q \o t, a) = Count(q, a)
         /\ Count(q \o t, b) = Count(q, b)
         /\ Count(q \o t, c) = Count(q, c)
  <1>2. Follows(q, t, a, b, c, l)
    BY DEF Follows, Lacks, Leads
  <1>3. ASSUME NEW m, Lacks(t, m) PROVE Count(q \o t, m) = Count(q, m)
    <2>1. Count(t, m) = 0
      BY <1>3, CountLacks
    <2>2. Count(q \o t, m) = Count(q, m) + Count(t, m)
      BY CountConcat
    <2>. QED  BY <2>1, <2>2, CountNat
  <1>. QED  BY <1>2, <1>3

LEMMA OneFollows ==
  ASSUME NEW S, Sized(S), NEW q \in Seq(S), NEW p \in S, NEW a, NEW b, NEW c, NEW l,
         a # b, b # c, p.key = l, p.msg = a => Count(q, b) = 0, p.msg = b => Count(q, c) = 0
  PROVE  Follows(q, <<p>>, a, b, c, l)
  <1>. DEFINE t == <<p>>
  <1>1. t \in Seq(S) /\ Len(t) = 1 /\ DOMAIN t = {1} /\ t[1] = p
    OBVIOUS
  <1>. HIDE DEF t
  <1>2. (p.msg # a => Lacks(t, a)) /\ (p.msg # b => Lacks(t, b))
    BY <1>1 DEF Lacks
  <1>3. a # b => Leads(t, a, b)
    BY <1>1 DEF Leads
  <1>4. b # c => Leads(t, b, c)
    BY <1>1 DEF Leads
  <1>. QED  BY <1>1, <1>2, <1>3, <1>4 DEF Follows, SealedWith, t
-----------------------------------------------------------------------------
(* The invariant: what has been sent and received of the running exchange *)

\* As numbers, so that they can be added to the packets under way.
AskedUp == IF cl.kex \in {"init", "guessed", "dh"} THEN 1 ELSE 0
GivenUp == IF cl.kex \in {"guessed", "dh"} THEN 1 ELSE 0
Leading == IF cl.kex = "newkeys" THEN 1 ELSE 0
Seen    == IF cl.peerInit \/ cl.kex \in {"dh", "newkeys"} THEN 1 ELSE 0
Answers == IF kexInitSent \/ kex = "WAIT_DH" THEN 1 ELSE 0
Waiting == IF kex = "WAIT_DH" THEN 1 ELSE 0
Behind  == IF kex = "WAIT_NEWKEYS" THEN 1 ELSE 0
Skips   == IF ignoreNextKexPacket THEN 1 ELSE 0

\* Whether a wrong guess is under way.
Misled(q) == \E i \in DOMAIN q : q[i].msg = "kexinit" /\ q[i].arg = "wrong guess"
Wrong == IF Misled(c2s) THEN 1 ELSE 0

\* The server's side of the exchange.
ServerKeys ==
    /\ kexNo = outKeys /\ outKeys = inKeys + Behind
    /\ Behind = 1 => pendKeys = outKeys
    /\ Skips = 1 => Waiting = 1
    /\ kexInitSent <=> kex = "WAIT_KEXINIT"
    /\ kexInitSent => outKeys = 0
    /\ state = "VERSION" => kex = "IDLE" /\ outKeys = 0
    /\ state \in {"VERSION", "KEX"} => inKeys = 0

\* The client's.
ClientKeys ==
    /\ cl.peerInit => cl.kex \in {"idle", "init"}
    /\ cl.out = cl.in + Leading
    /\ cl.out <= outKeys

\* What the client has sent of its exchanges the server has used or will receive,
Upstream ==
    /\ Count(c2s, "newkeys") + inKeys = cl.out
    /\ Count(c2s, "kexinit") + outKeys + Waiting = cl.out + AskedUp
    /\ Count(c2s, "kexdh") + outKeys = cl.out + GivenUp + Wrong + Skips

\* and the other way round.
Downstream ==
    /\ Count(s2c, "kexinit") + cl.in + Seen = outKeys + Answers
    /\ Count(s2c, "kexdh-reply") + cl.out = outKeys
    /\ Count(s2c, "newkeys") + cl.in = outKeys

InOrderUp == Ordered(c2s, "newkeys", "kexinit", "kexdh", inKeys)
InOrderDown == Ordered(s2c, "kexinit", "kexdh-reply", "newkeys", cl.in)

Exchange ==
    Open => /\ ServerKeys /\ ClientKeys /\ Upstream /\ InOrderUp
            /\ ~Gone => Downstream /\ InOrderDown

\* The numbers these equations are about.
KexNumbers ==
    /\ Count(c2s, "newkeys") \in Nat /\ Count(c2s, "kexinit") \in Nat
    /\ Count(c2s, "kexdh") \in Nat /\ Count(s2c, "kexinit") \in Nat
    /\ Count(s2c, "kexdh-reply") \in Nat /\ Count(s2c, "newkeys") \in Nat
    /\ inKeys \in Nat /\ outKeys \in Nat /\ cl.out \in Nat /\ cl.in \in Nat
    /\ AskedUp \in {0, 1} /\ GivenUp \in {0, 1} /\ Leading \in {0, 1} /\ Seen \in {0, 1}
    /\ Answers \in {0, 1} /\ Waiting \in {0, 1} /\ Behind \in {0, 1} /\ Skips \in {0, 1}
    /\ Wrong \in {0, 1}

LEMMA SoundNumbers == ASSUME Sound PROVE KexNumbers
  <1>1. KeyTypeOK /\ Queued /\ cl \in ClientState
    BY DEF Sound, SessionTypeOK, TypeOK
  <1>2. \A m : Count(c2s, m) \in Nat /\ Count(s2c, m) \in Nat
    BY <1>1, CountsAreNumbers DEF Queued
  <1>3. inKeys \in Nat /\ outKeys \in Nat /\ cl.out \in Nat /\ cl.in \in Nat
    BY <1>1, ClientFields DEF KeyTypeOK
  <1>. QED  BY <1>2, <1>3 DEF KexNumbers, AskedUp, GivenUp, Leading, Seen, Answers, Waiting,
            Behind, Skips, Wrong

\* What the exchange needs of a step that has nothing to do with it.
KexVarsKept == UNCHANGED <<kexVars, keyVars>> /\ cl'.kex = cl.kex
               /\ cl'.peerInit = cl.peerInit /\ cl'.out = cl.out /\ cl'.in = cl.in
StateKept == /\ Open' => Open
             /\ state' = "VERSION" => state = "VERSION"
             /\ state' \in {"VERSION", "KEX"} => state \in {"VERSION", "KEX"}
             /\ Gone => Gone'
UpKept ==
    /\ Count(c2s', "newkeys") = Count(c2s, "newkeys")
    /\ Count(c2s', "kexinit") = Count(c2s, "kexinit")
    /\ Count(c2s', "kexdh") = Count(c2s, "kexdh")
    /\ Misled(c2s') <=> Misled(c2s)
    /\ Ordered(c2s', "newkeys", "kexinit", "kexdh", inKeys)
DownKept ==
    /\ Count(s2c', "kexinit") = Count(s2c, "kexinit")
    /\ Count(s2c', "kexdh-reply") = Count(s2c, "kexdh-reply")
    /\ Count(s2c', "newkeys") = Count(s2c, "newkeys")
    /\ Ordered(s2c', "kexinit", "kexdh-reply", "newkeys", cl.in)

LEMMA ExchangeKept ==
  ASSUME Exchange, KexVarsKept, StateKept, Open' => UpKept, Open' /\ ~Gone' => DownKept
  PROVE  Exchange'
  <1>. SUFFICES ASSUME Open'
                PROVE  /\ ServerKeys' /\ ClientKeys' /\ Upstream' /\ InOrderUp'
                       /\ ~Gone' => Downstream' /\ InOrderDown'
    BY DEF Exchange
  <1>1. /\ ServerKeys /\ ClientKeys /\ Upstream /\ InOrderUp
        /\ ~Gone => Downstream /\ InOrderDown
    BY DEF Exchange, StateKept
  <1>2. UNCHANGED <<kex, kexInitSent, ignoreNextKexPacket, kexNo, inKeys, outKeys, pendKeys>>
    BY DEF KexVarsKept, kexVars, keyVars
  <1>3. cl'.kex = cl.kex /\ cl'.peerInit = cl.peerInit /\ cl'.out = cl.out /\ cl'.in = cl.in
    BY DEF KexVarsKept
  <1>4. /\ AskedUp' = AskedUp /\ GivenUp' = GivenUp /\ Leading' = Leading /\ Seen' = Seen
        /\ Answers' = Answers /\ Waiting' = Waiting /\ Behind' = Behind /\ Skips' = Skips
        /\ Wrong' = Wrong
    BY <1>2, <1>3 DEF AskedUp, GivenUp, Leading, Seen, Answers, Waiting, Behind, Skips, Wrong,
       UpKept
  <1>5. ServerKeys'
    BY <1>1, <1>2, <1>4 DEF ServerKeys, StateKept
  <1>6. ClientKeys'
    BY <1>1, <1>2, <1>3, <1>4 DEF ClientKeys
  <1>7. Upstream' /\ InOrderUp'
    BY <1>1, <1>2, <1>3, <1>4 DEF Upstream, InOrderUp, UpKept
  <1>8. ASSUME ~Gone' PROVE Downstream' /\ InOrderDown'
    BY <1>1, <1>2, <1>3, <1>4, <1>8 DEF Downstream, InOrderDown, DownKept, StateKept
  <1>. QED  BY <1>5, <1>6, <1>7, <1>8
-----------------------------------------------------------------------------
(* The client's steps *)

LEMMA ClientPacketSized == Sized(ClientPacket)
  BY DEF Sized, ClientPacket

LEMMA PacketSized == Sized(Packet)
  BY DEF Sized, Packet

LEMMA CTyped ==
  ASSUME cl \in ClientState, NEW m \in ClientMsgs \cup {"version"}, NEW n \in Nat,
         NEW a \in Details
  PROVE  /\ C(m, n, a) \in ClientPacket /\ C(m, n, a).msg = m
         /\ C(m, n, a).key = cl.out /\ C(m, n, a).arg = a
  BY ClientFields DEF C, ClientPacket

LEMMA MisledConcat ==
  ASSUME NEW S, NEW q \in Seq(S), NEW t \in Seq(S)
  PROVE  Misled(q \o t) <=> Misled(q) \/ Misled(t)
  <1>. DEFINE u == q \o t
  <1>1. /\ Len(q) \in Nat /\ Len(t) \in Nat /\ Len(u) = Len(q) + Len(t)
        /\ DOMAIN q = 1..Len(q) /\ DOMAIN t = 1..Len(t) /\ DOMAIN u = 1..Len(u)
    BY ConcatProperties
  <1>2. \A i \in 1..(Len(q) + Len(t)) : u[i] = IF i <= Len(q) THEN q[i] ELSE t[i - Len(q)]
    BY ConcatProperties
  <1>. HIDE DEF u
  <1>. DEFINE Bad(p) == p.msg = "kexinit" /\ p.arg = "wrong guess"
  <1>3. Misled(q) <=> \E i \in 1..Len(q) : Bad(q[i])
    BY <1>1 DEF Misled
  <1>4. Misled(t) <=> \E i \in 1..Len(t) : Bad(t[i])
    BY <1>1 DEF Misled
  <1>5. Misled(u) <=> \E i \in 1..(Len(q) + Len(t)) : Bad(u[i])
    BY <1>1 DEF Misled
  <1>. HIDE DEF Bad
  <1>6. ASSUME NEW i \in 1..(Len(q) + Len(t)), Bad(u[i])
        PROVE  (\E j \in 1..Len(q) : Bad(q[j])) \/ (\E j \in 1..Len(t) : Bad(t[j]))
    <2>1. CASE i <= Len(q)
      <3>1. i \in 1..Len(q) /\ u[i] = q[i]
        BY <1>1, <1>2, <2>1
      <3>. QED  BY <1>6, <3>1
    <2>2. CASE i > Len(q)
      <3>1. i - Len(q) \in 1..Len(t) /\ u[i] = t[i - Len(q)]
        BY <1>1, <1>2, <2>2
      <3>. QED  BY <1>6, <3>1
    <2>. QED  BY <1>1, <2>1, <2>2
  <1>7. ASSUME NEW j \in 1..Len(q), Bad(q[j]) PROVE \E i \in 1..(Len(q) + Len(t)) : Bad(u[i])
    <2>1. j \in 1..(Len(q) + Len(t)) /\ u[j] = q[j]
      BY <1>1, <1>2
    <2>. QED  BY <1>7, <2>1
  <1>8. ASSUME NEW j \in 1..Len(t), Bad(t[j]) PROVE \E i \in 1..(Len(q) + Len(t)) : Bad(u[i])
    <2>. DEFINE i == Len(q) + j
    <2>1. i \in 1..(Len(q) + Len(t)) /\ u[i] = t[j]
      <3>1. i \in 1..(Len(q) + Len(t)) /\ ~(i <= Len(q)) /\ i - Len(q) = j
        BY <1>1
      <3>. QED  BY <1>2, <3>1
    <2>. HIDE DEF i
    <2>. QED  BY <1>8, <2>1
  <1>9. Misled(u) <=> Misled(q) \/ Misled(t)
    BY <1>3, <1>4, <1>5, <1>6, <1>7, <1>8
  <1>. QED  BY <1>9 DEF u

LEMMA MisledTail ==
  ASSUME NEW S, Sized(S), NEW q \in Seq(S), q # <<>>
  PROVE  /\ ~(Head(q).msg = "kexinit" /\ Head(q).arg = "wrong guess")
              => (Misled(q) <=> Misled(Tail(q)))
         /\ Head(q).msg = "kexinit" /\ Head(q).arg = "wrong guess" => Misled(q)
         /\ Misled(q) => Count(q, "kexinit") > 0
  <1>. DEFINE r == Tail(q)
  <1>1. /\ Head(q) = q[1] /\ Len(q) \in Nat /\ Len(q) >= 1
        /\ r \in Seq(S) /\ Len(r) = Len(q) - 1 /\ \A i \in 1..Len(r) : r[i] = q[i + 1]
        /\ DOMAIN q = 1..Len(q) /\ DOMAIN r = 1..Len(r)
    BY HeadTailProperties
  <1>. HIDE DEF r
  <1>. DEFINE Bad(p) == p.msg = "kexinit" /\ p.arg = "wrong guess"
  <1>2. Misled(q) <=> \E i \in 1..Len(q) : Bad(q[i])
    BY <1>1 DEF Misled
  <1>3. Misled(r) <=> \E i \in 1..Len(r) : Bad(r[i])
    BY <1>1 DEF Misled
  <1>4. Misled(q) => Count(q, "kexinit") > 0
    <2>1. ASSUME NEW i \in DOMAIN q, q[i].msg = "kexinit" PROVE Count(q, "kexinit") > 0
      <3>1. Count(q, q[i].msg) >= 1
        BY CountSome
      <3>. QED  BY <2>1, <3>1, CountNat
    <2>. QED  BY <2>1 DEF Misled
  <1>5. Bad(Head(q)) => Misled(q)
    <2>1. 1 \in 1..Len(q)
      BY <1>1
    <2>. QED  BY <1>1, <1>2, <2>1
  <1>6. ASSUME ~Bad(Head(q)) PROVE Misled(q) <=> Misled(r)
    <2>. HIDE DEF Bad
    <2>1. ASSUME NEW i \in 1..Len(q), Bad(q[i]) PROVE \E j \in 1..Len(r) : Bad(r[j])
      <3>1. i # 1
        BY <1>1, <1>6, <2>1
      <3>. DEFINE j == i - 1
      <3>2. j \in 1..Len(r) /\ j + 1 = i
        BY <1>1, <3>1
      <3>. HIDE DEF j
      <3>3. r[j] = q[i]
        BY <1>1, <3>2
      <3>. QED  BY <2>1, <3>2, <3>3
    <2>2. ASSUME NEW j \in 1..Len(r), Bad(r[j]) PROVE \E i \in 1..Len(q) : Bad(q[i])
      <3>. DEFINE i == j + 1
      <3>1. i \in 1..Len(q) /\ r[j] = q[i]
        BY <1>1
      <3>. HIDE DEF i
      <3>. QED  BY <2>2, <3>1
    <2>. QED  BY <1>2, <1>3, <2>1, <2>2
  <1>. QED  BY <1>4, <1>5, <1>6 DEF r

\* Sealed with the client's keys, and nothing the exchange is about.
Beside(t) == \A i \in DOMAIN t : /\ t[i].key = cl.out
                                 /\ t[i].msg \notin {"newkeys", "kexinit", "kexdh"}

LEMMA PostKeeps ==
  ASSUME Sound, Exchange, NEW t \in Seq(ClientPacket), Post(t), Beside(t), Open
  PROVE  UpKept /\ (~Gone => DownKept)
  <1>1. c2s' = c2s \o t /\ s2c' = s2c /\ c2s \in Seq(ClientPacket) /\ KexNumbers
    BY SoundNumbers DEF Post, Sound, SessionTypeOK
  <1>2. Upstream /\ InOrderUp /\ (~Gone => InOrderDown)
    BY DEF Exchange
  <1>3. /\ Follows(c2s, t, "newkeys", "kexinit", "kexdh", cl.out)
        /\ Count(c2s \o t, "newkeys") = Count(c2s, "newkeys")
        /\ Count(c2s \o t, "kexinit") = Count(c2s, "kexinit")
        /\ Count(c2s \o t, "kexdh") = Count(c2s, "kexdh")
    <2>1. /\ SealedWith(t, cl.out)
          /\ Lacks(t, "newkeys") /\ Lacks(t, "kexinit") /\ Lacks(t, "kexdh")
      BY DEF Beside, SealedWith, Lacks
    <2>2. "newkeys" \in {"newkeys", "kexinit", "kexdh"} /\ c2s \in Seq(ClientPacket)
      BY <1>1
    <2>3. SealedWith(t, cl.out) /\ Lacks(t, "newkeys") /\ Lacks(t, "kexinit") /\ Lacks(t, "kexdh")
      BY <2>1
    <2>4. Sized(ClientPacket) /\ t \in Seq(ClientPacket)
      BY ClientPacketSized
    <2>. QED  BY ONLY <2>2, <2>3, <2>4, AsideFollows
  <1>4. Ordered(c2s \o t, "newkeys", "kexinit", "kexdh", inKeys)
    <2>1. cl.out = inKeys + Count(c2s, "newkeys") /\ inKeys \in Nat
      BY <1>1, <1>2 DEF Upstream, KexNumbers
    <2>. QED  BY <1>1, <1>2, <1>3, <2>1, ClientPacketSized, OrderedConcat DEF InOrderUp
  <1>5. Misled(c2s \o t) <=> Misled(c2s)
    <2>1. ~Misled(t)
      BY DEF Beside, Misled
    <2>. QED  BY <1>1, <2>1, MisledConcat
  <1>6. UpKept
    BY <1>1, <1>3, <1>4, <1>5 DEF UpKept
  <1>7. ~Gone => DownKept
    BY <1>1, <1>2 DEF DownKept, InOrderDown
  <1>. QED  BY <1>6, <1>7

\* The client's steps that are no part of the exchange.
LEMMA ClientBeside ==
  ASSUME Sound, Exchange, Served,
         \/ ClientHello \/ ClientProceeds \/ ClientAdjusts \/ ClientEof \/ ClientClose
         \/ ClientLeaves \/ \E n \in DataSizes : ClientTypes(n)
  PROVE  Exchange'
  <1>1. cl \in ClientState
    BY DEF Sound, SessionTypeOK
  <1>2. KexVarsKept
    <2>1. /\ cl'.kex = cl.kex /\ cl'.peerInit = cl.peerInit
          /\ cl'.out = cl.out /\ cl'.in = cl.in
      <3>1. CASE ClientProceeds
        <4>1. Proceeds
          BY <3>1, ProceedsAs
        <4>. QED  BY <1>1, <4>1 DEF Proceeds, ClientState
      <3>2. CASE ClientHello \/ ClientAdjusts \/ ClientEof \/ ClientClose \/ ClientLeaves
        BY <1>1, <3>2 DEF ClientHello, ClientAdjusts, ClientEof, ClientClose, ClientLeaves,
           ClientState
      <3>3. CASE \E n \in DataSizes : ClientTypes(n)
        BY <1>1, <3>3 DEF ClientTypes, ClientState
      <3>. QED  BY <3>1, <3>2, <3>3
    <2>. QED  BY <2>1 DEF KexVarsKept, Served, vars, kexVars, keyVars
  <1>3. StateKept
    <2>1. state' = state
      BY DEF Served, vars
    <2>2. ~Gone
      <3>1. CASE ClientProceeds \/ \E n \in DataSizes : ClientTypes(n)
        BY <3>1 DEF ClientProceeds, ClientTypes, MayUseChannel, MaySend, Gone
      <3>2. CASE ClientHello \/ ClientAdjusts \/ ClientEof \/ ClientClose \/ ClientLeaves
        BY <3>2 DEF ClientHello, ClientAdjusts, ClientEof, ClientClose, ClientLeaves,
           MayUseChannel, MaySend, Gone
      <3>. QED  BY <3>1, <3>2
    <2>. QED  BY <2>1, <2>2 DEF StateKept, Open
  <1>4. \E t \in Seq(ClientPacket) : Post(t) /\ Beside(t)
    <2>0. /\ "" \in Details /\ "ssh2" \in Details /\ "resize" \in Details /\ "shell" \in Details
          /\ Tries \subseteq Details /\ DataSizes \subseteq Nat /\ ClientWindow \in Nat /\ 0 \in Nat
      <3>1. ClientWindow \in Nat /\ DataSizes \subseteq Nat /\ Tries \subseteq {"right", "wrong"}
        BY ConnAssumption, SessionAssumption
      <3>. QED  BY <3>1 DEF Details
    <2>1. ASSUME NEW m \in {"version", "service", "userauth", "open", "data", "adjust", "eof",
                            "close", "disconnect"},
                 NEW n \in Nat, NEW a \in Details, Post(<<C(m, n, a)>>)
          PROVE  \E t \in Seq(ClientPacket) : Post(t) /\ Beside(t)
      <3>. DEFINE p == C(m, n, a)
                  t == <<p>>
      <3>1. m \in ClientMsgs \cup {"version"} /\ m \notin {"newkeys", "kexinit", "kexdh"}
        BY DEF ClientMsgs
      <3>2. p \in ClientPacket /\ p.msg = m /\ p.key = cl.out
        BY <1>1, <3>1, CTyped
      <3>. HIDE DEF p
      <3>3. t \in Seq(ClientPacket) /\ DOMAIN t = {1} /\ t[1] = p
        BY <3>2
      <3>4. Beside(t)
        BY <3>1, <3>2, <3>3 DEF Beside
      <3>5. Post(t)
        BY <2>1 DEF p
      <3>. QED  BY <3>3, <3>4, <3>5
    <2>2. CASE ClientHello
      BY <2>0, <2>1, <2>2 DEF ClientHello
    <2>3. CASE ClientEof
      BY <2>0, <2>1, <2>3 DEF ClientEof
    <2>4. CASE ClientClose
      BY <2>0, <2>1, <2>4 DEF ClientClose
    <2>5. CASE ClientLeaves
      BY <2>0, <2>1, <2>5 DEF ClientLeaves
    <2>6. CASE ClientAdjusts
      <3>1. ClientWindow - cl.grant \in Nat
        <4>1. cl.grant \in 0..ClientWindow
          BY <1>1, ClientFields
        <4>2. ClientWindow \in Nat
          BY <2>0
        <4>. QED  BY ONLY <4>1, <4>2
      <3>. QED  BY <2>0, <2>1, <2>6, <3>1 DEF ClientAdjusts
    <2>7. ASSUME NEW n \in DataSizes, ClientTypes(n)
          PROVE  \E t \in Seq(ClientPacket) : Post(t) /\ Beside(t)
      BY <2>0, <2>1, <2>7 DEF ClientTypes
    <2>8. CASE ClientProceeds
      <3>1. Proceeds
        BY <2>8, ProceedsAs
      <3>2. CASE Post(<<C("request", 0, "resize"), C("request", 0, "shell")>>)
        <4>. DEFINE p == C("request", 0, "resize")
                    r == C("request", 0, "shell")
                    t == <<p, r>>
        <4>1. "request" \in ClientMsgs \cup {"version"}
              /\ "resize" \in Details /\ "shell" \in Details /\ 0 \in Nat
          BY <2>0 DEF ClientMsgs
        <4>7. cl.out \in Nat
          BY <1>1, ClientFields
        <4>2. p \in ClientPacket /\ p.msg = "request" /\ p.key = cl.out
          BY <4>1, <4>7 DEF C, ClientPacket
        <4>6. r \in ClientPacket /\ r.msg = "request" /\ r.key = cl.out
          BY <4>1, <4>7 DEF C, ClientPacket
        <4>. HIDE DEF p, r
        <4>3. t \in Seq(ClientPacket) /\ DOMAIN t = {1, 2} /\ t[1] = p /\ t[2] = r
          BY <4>2, <4>6
        <4>4. Beside(t)
          BY <4>2, <4>3, <4>6 DEF Beside
        <4>5. Post(t)
          BY <3>2 DEF p, r
        <4>. QED  BY <4>3, <4>4, <4>5
      <3>3. CASE \/ Post(<<C("service", 0, "")>>) \/ Post(<<C("open", ClientWindow, "")>>)
                 \/ \E try \in Tries : Post(<<C("userauth", 0, try)>>)
        BY <2>0, <2>1, <3>3
      <3>. QED  BY <3>1, <3>2, <3>3 DEF Proceeds
    <2>. QED  BY <2>2, <2>3, <2>4, <2>5, <2>6, <2>7, <2>8
  <1>5. Open' => UpKept /\ (~Gone' => DownKept)
    BY <1>3, <1>4, PostKeeps DEF StateKept
  <1>. QED  BY <1>2, <1>3, <1>5, ExchangeKept

\* What posting packets does to the stream to the server.
LEMMA PostOrders ==
  ASSUME Sound, Exchange, Open, NEW t \in Seq(ClientPacket), Post(t),
         Follows(c2s, t, "newkeys", "kexinit", "kexdh", cl.out)
  PROVE  /\ Count(c2s', "newkeys") = Count(c2s, "newkeys") + Count(t, "newkeys")
         /\ Count(c2s', "kexinit") = Count(c2s, "kexinit") + Count(t, "kexinit")
         /\ Count(c2s', "kexdh") = Count(c2s, "kexdh") + Count(t, "kexdh")
         /\ Ordered(c2s', "newkeys", "kexinit", "kexdh", inKeys)
         /\ Misled(c2s') <=> Misled(c2s) \/ Misled(t)
  <1>1. c2s' = c2s \o t /\ c2s \in Seq(ClientPacket) /\ KexNumbers
    BY SoundNumbers DEF Post, Sound, SessionTypeOK
  <1>2. Upstream /\ Ordered(c2s, "newkeys", "kexinit", "kexdh", inKeys)
    BY DEF Exchange, InOrderUp
  <1>3. cl.out = inKeys + Count(c2s, "newkeys") /\ inKeys \in Nat
    BY ONLY <1>1, <1>2 DEF Upstream, KexNumbers
  <1>4. Ordered(c2s \o t, "newkeys", "kexinit", "kexdh", inKeys)
    BY <1>1, <1>2, <1>3, ClientPacketSized, OrderedConcat
  <1>5. \A m : Count(c2s \o t, m) = Count(c2s, m) + Count(t, m)
    BY <1>1, ClientPacketSized, CountConcat
  <1>6. Misled(c2s \o t) <=> Misled(c2s) \/ Misled(t)
    BY <1>1, MisledConcat
  <1>. QED  BY <1>1, <1>4, <1>5, <1>6

\* A client's KEXINIT, alone or with a guess behind it.
Asks(t, guess) ==
    /\ Count(t, "newkeys") = 0 /\ Count(t, "kexinit") = 1
    /\ Count(t, "kexdh") = IF guess = "none" THEN 0 ELSE 1
    /\ Misled(t) <=> guess = "wrong"
    /\ Follows(c2s, t, "newkeys", "kexinit", "kexdh", cl.out)

LEMMA Asking ==
  ASSUME cl \in ClientState, NEW guess \in {"none", "right", "wrong"}, ClientKexInit(guess),
         Count(c2s, "kexinit") = 0, Count(c2s, "kexdh") = 0
  PROVE  \E t \in Seq(ClientPacket) : Post(t) /\ Asks(t, guess)
  <1>. DEFINE a == IF guess = "wrong" THEN "wrong guess" ELSE "match"
              p == C("kexinit", 0, a)
              r == C("kexdh", 0, "")
              one == <<p>>
              two == <<p, r>>
  <1>0. /\ "kexinit" \in ClientMsgs \cup {"version"} /\ "kexdh" \in ClientMsgs \cup {"version"}
        /\ "" \in Details /\ a \in Details /\ 0 \in Nat /\ cl.out \in Nat
    BY ClientFields DEF ClientMsgs, Details
  <1>1. p \in ClientPacket /\ p.msg = "kexinit" /\ p.key = cl.out /\ p.arg = a
    <2>. HIDE DEF a
    <2>. QED  BY <1>0 DEF C, ClientPacket
  <1>2. r \in ClientPacket /\ r.msg = "kexdh" /\ r.key = cl.out /\ r.arg = ""
    BY <1>0 DEF C, ClientPacket
  <1>3. IF guess = "none" THEN Post(one) ELSE Post(two)
    <2>1. CASE guess = "none"
      BY <2>1 DEF ClientKexInit
    <2>2. CASE guess = "right"
      BY <2>2 DEF ClientKexInit
    <2>3. CASE guess = "wrong"
      BY <2>3 DEF ClientKexInit
    <2>. QED  BY <2>1, <2>2, <2>3
  <1>4. a = "wrong guess" <=> guess = "wrong"
    OBVIOUS
  <1>. HIDE DEF p, r, a
  <1>5. one \in Seq(ClientPacket) /\ DOMAIN one = {1} /\ one[1] = p /\ Len(one) = 1
    BY ONLY <1>1
  <1>6. /\ two \in Seq(ClientPacket) /\ DOMAIN two = {1, 2} /\ two[1] = p /\ two[2] = r
        /\ Len(two) = 2
    <2>1. p \in ClientPacket /\ r \in ClientPacket
      BY <1>1, <1>2
    <2>2. two \in Seq(ClientPacket) /\ DOMAIN two = {1, 2} /\ two[1] = p /\ two[2] = r
      BY ONLY <2>1
    <2>3. Len(two) = 2
      OBVIOUS
    <2>. QED  BY <2>2, <2>3
  <1>7. \A m : Count(one, m) = One(p, m)
    BY ONLY <1>1, ClientPacketSized, CountOne
  <1>8. \A m : Count(two, m) = One(p, m) + One(r, m)
    <2>1. two = Append(one, r)
      OBVIOUS
    <2>2. \A m : Count(Append(one, r), m) = Count(one, m) + One(r, m)
      <3>. HIDE DEF one
      <3>. QED  BY ONLY <1>2, <1>5, ClientPacketSized, CountAppend
    <2>. HIDE DEF one, two
    <2>. QED  BY ONLY <1>7, <2>1, <2>2
  <1>. HIDE DEF one, two
  <1>9. /\ One(p, "newkeys") = 0 /\ One(p, "kexinit") = 1 /\ One(p, "kexdh") = 0
        /\ One(r, "newkeys") = 0 /\ One(r, "kexinit") = 0 /\ One(r, "kexdh") = 1
    BY ONLY <1>1, <1>2 DEF One
  <1>10. CASE guess = "none"
    <2>1. Count(one, "newkeys") = 0 /\ Count(one, "kexinit") = 1 /\ Count(one, "kexdh") = 0
      BY <1>7, <1>9
    <2>2. Misled(one) <=> guess = "wrong"
      BY <1>1, <1>4, <1>5 DEF Misled
    <2>3. Follows(c2s, one, "newkeys", "kexinit", "kexdh", cl.out)
      BY <1>1, <1>5 DEF Follows, SealedWith, Leads, Lacks
    <2>. QED  BY <1>3, <1>5, <1>10, <2>1, <2>2, <2>3 DEF Asks
  <1>11. CASE guess # "none"
    <2>1. Count(two, "newkeys") = 0 /\ Count(two, "kexinit") = 1 /\ Count(two, "kexdh") = 1
      BY <1>8, <1>9
    <2>2. Misled(two) <=> guess = "wrong"
      <3>1. Misled(two) <=> a = "wrong guess"
        BY ONLY <1>1, <1>2, <1>6 DEF Misled
      <3>. QED  BY <1>4, <3>1
    <2>3. Follows(c2s, two, "newkeys", "kexinit", "kexdh", cl.out)
      <3>1. SealedWith(two, cl.out)
        BY ONLY <1>1, <1>2, <1>6 DEF SealedWith
      <3>2. Lacks(two, "newkeys")
        BY ONLY <1>1, <1>2, <1>6 DEF Lacks
      <3>3. Leads(two, "kexinit", "kexdh")
        <4>1. two[1].msg # "kexdh" /\ two[2].msg # "kexinit"
          BY ONLY <1>1, <1>2, <1>6
        <4>2. \A i, j \in {1, 2} : i < j \/ i = 2 \/ j = 1
          OBVIOUS
        <4>. QED  BY ONLY <1>6, <4>1, <4>2 DEF Leads
      <3>4. Leads(two, "newkeys", "kexinit")
        BY <3>2 DEF Leads, Lacks
      <3>5. \A i \in DOMAIN two : two[i].msg = "newkeys" => i = Len(two)
        BY <3>2 DEF Lacks
      <3>. QED  BY <3>1, <3>2, <3>3, <3>4, <3>5 DEF Follows
    <2>. QED  BY <1>3, <1>6, <1>11, <2>1, <2>2, <2>3 DEF Asks
  <1>. QED  BY <1>10, <1>11

\* The client starts an exchange only when none is under way at either end.
LEMMA ClientAsks ==
  ASSUME Sound, Exchange, Served, NEW guess \in Guesses, ClientKexInit(guess)
  PROVE  Exchange'
  <1>. SUFFICES ASSUME Open'
                PROVE  /\ ServerKeys' /\ ClientKeys' /\ Upstream' /\ InOrderUp'
                       /\ ~Gone' => Downstream' /\ InOrderDown'
    BY DEF Exchange
  <1>1. /\ UNCHANGED <<state, kex, kexInitSent, ignoreNextKexPacket, kexNo, inKeys, outKeys,
                       pendKeys>>
        /\ Open
    BY DEF Served, vars, kexVars, keyVars, Open
  <1>2. /\ ServerKeys /\ ClientKeys /\ Upstream
        /\ Ordered(c2s, "newkeys", "kexinit", "kexdh", inKeys)
        /\ ~Gone => Downstream /\ InOrderDown
    BY <1>1 DEF Exchange, InOrderUp
  <1>3. KexNumbers /\ cl \in ClientState
    BY SoundNumbers DEF Sound, SessionTypeOK
  <1>4. guess \in {"none", "right", "wrong"} /\ cl.kex = "idle" /\ ~Gone
    BY SessionAssumption DEF ClientKexInit, Gone
  <1>5. AskedUp = 0 /\ GivenUp = 0 /\ Leading = 0 /\ Seen = IF cl.peerInit THEN 1 ELSE 0
    BY <1>4 DEF AskedUp, GivenUp, Leading, Seen
  <1>6. Waiting = 0 /\ Count(c2s, "kexinit") = 0 /\ cl.out = outKeys
    BY ONLY <1>2, <1>3, <1>5 DEF KexNumbers, ClientKeys, Upstream
  <1>7. ~Misled(c2s)
    <2>1. c2s \in Seq(ClientPacket)
      BY DEF Sound, SessionTypeOK
    <2>2. CASE c2s = <<>>
      BY <2>2 DEF Misled
    <2>3. CASE c2s # <<>>
      <3>1. Misled(c2s) => Count(c2s, "kexinit") > 0
        BY ONLY <2>1, <2>3, ClientPacketSized, MisledTail
      <3>. QED  BY <3>1, <1>6
    <2>. QED  BY <2>2, <2>3
  <1>8. Wrong = 0 /\ Skips = 0 /\ Count(c2s, "kexdh") = 0
    <2>1. Wrong = 0
      BY <1>7 DEF Wrong
    <2>2. Skips = 0
      BY <1>2, <1>3, <1>6 DEF ServerKeys, KexNumbers
    <2>. QED  BY ONLY <1>2, <1>3, <1>5, <1>6, <2>1, <2>2 DEF KexNumbers, Upstream
  <1>9. PICK t \in Seq(ClientPacket) : Post(t) /\ Asks(t, guess)
    BY <1>3, <1>4, <1>6, <1>8, Asking
  <1>10. /\ Count(c2s', "newkeys") = Count(c2s, "newkeys") + Count(t, "newkeys")
         /\ Count(c2s', "kexinit") = Count(c2s, "kexinit") + Count(t, "kexinit")
         /\ Count(c2s', "kexdh") = Count(c2s, "kexdh") + Count(t, "kexdh")
         /\ Ordered(c2s', "newkeys", "kexinit", "kexdh", inKeys)
         /\ Misled(c2s') <=> Misled(c2s) \/ Misled(t)
    BY <1>1, <1>9, PostOrders DEF Asks
  <1>11. /\ cl'.kex = IF guess # "right" THEN "init" ELSE IF cl.peerInit THEN "dh" ELSE "guessed"
         /\ cl'.peerInit = (cl.peerInit /\ guess # "right")
         /\ cl'.out = cl.out /\ cl'.in = cl.in /\ cl'.step = cl.step
    BY <1>3 DEF ClientKexInit, ClientState
  <1>12. /\ AskedUp' = 1 /\ GivenUp' = (IF guess = "right" THEN 1 ELSE 0)
         /\ Leading' = 0 /\ Seen' = Seen
         /\ Wrong' = IF guess = "wrong" THEN 1 ELSE 0
    <2>1. AskedUp' = 1 /\ GivenUp' = (IF guess = "right" THEN 1 ELSE 0) /\ Leading' = 0
      BY <1>4, <1>11 DEF AskedUp, GivenUp, Leading
    <2>2. Seen' = Seen
      BY <1>5, <1>11 DEF Seen
    <2>3. Wrong' = IF guess = "wrong" THEN 1 ELSE 0
      BY <1>7, <1>9, <1>10 DEF Wrong, Asks
    <2>. QED  BY <2>1, <2>2, <2>3
  <1>13. Answers' = Answers /\ Waiting' = Waiting /\ Behind' = Behind /\ Skips' = Skips
    BY <1>1 DEF Answers, Waiting, Behind, Skips
  <1>14. ServerKeys'
    BY <1>1, <1>2, <1>13 DEF ServerKeys
  <1>15. ClientKeys'
    BY <1>1, <1>2, <1>5, <1>11, <1>12 DEF ClientKeys
  <1>16. Upstream'
    <2>1. /\ Count(t, "newkeys") = 0 /\ Count(t, "kexinit") = 1
          /\ Count(t, "kexdh") = IF guess = "none" THEN 0 ELSE 1
      BY <1>9 DEF Asks
    <2>2. UNCHANGED <<inKeys, outKeys>>
      BY <1>1
    <2>3. Count(t, "kexdh") = GivenUp' + Wrong'
      BY <1>4, <1>12, <2>1
    <2>4. /\ Count(c2s, "newkeys") + inKeys = cl.out /\ Count(c2s, "kexinit") = 0
          /\ Count(c2s, "kexdh") = 0 /\ Waiting' = 0 /\ Skips' = 0 /\ cl.out = outKeys
      BY <1>2, <1>6, <1>8, <1>13 DEF Upstream
    <2>5. /\ cl'.out = cl.out /\ AskedUp' = 1 /\ GivenUp' \in {0, 1} /\ Wrong' \in {0, 1}
      BY <1>11, <1>12
    <2>6. Count(c2s, "newkeys") \in Nat /\ outKeys \in Nat
      BY <1>3 DEF KexNumbers
    <2>7. Count(c2s', "newkeys") + inKeys' = cl'.out
      BY ONLY <1>10, <2>1, <2>2, <2>4, <2>5, <2>6
    <2>8. Count(c2s', "kexinit") + outKeys' + Waiting' = cl'.out + AskedUp'
      BY ONLY <1>10, <2>1, <2>2, <2>4, <2>5, <2>6
    <2>9. Count(c2s', "kexdh") + outKeys' = cl'.out + GivenUp' + Wrong' + Skips'
      BY ONLY <1>10, <2>1, <2>2, <2>3, <2>4, <2>5, <2>6
    <2>. QED  BY <2>7, <2>8, <2>9 DEF Upstream
  <1>17. InOrderUp'
    BY <1>1, <1>10 DEF InOrderUp
  <1>18. Downstream' /\ InOrderDown'
    <2>1. s2c' = s2c
      BY <1>9 DEF Post
    <2>. QED  BY <1>1, <1>2, <1>4, <1>11, <1>12, <1>13, <2>1 DEF Downstream, InOrderDown
  <1>. QED  BY <1>14, <1>15, <1>16, <1>17, <1>18

\* A lone KEXDH_INIT, once the server's KEXINIT has come.
LEMMA ClientSendsDh == ASSUME Sound, Exchange, Served, ClientKexDh PROVE Exchange'
  <1>. SUFFICES ASSUME Open'
                PROVE  /\ ServerKeys' /\ ClientKeys' /\ Upstream' /\ InOrderUp'
                       /\ ~Gone' => Downstream' /\ InOrderDown'
    BY DEF Exchange
  <1>1. /\ UNCHANGED <<state, kex, kexInitSent, ignoreNextKexPacket, kexNo, inKeys, outKeys,
                       pendKeys>>
        /\ Open
    BY DEF Served, vars, kexVars, keyVars, Open
  <1>2. /\ ServerKeys /\ ClientKeys /\ Upstream
        /\ Ordered(c2s, "newkeys", "kexinit", "kexdh", inKeys)
        /\ ~Gone => Downstream /\ InOrderDown
    BY <1>1 DEF Exchange, InOrderUp
  <1>3. KexNumbers /\ cl \in ClientState
    BY SoundNumbers DEF Sound, SessionTypeOK
  <1>4. cl.kex = "init" /\ cl.peerInit /\ ~Gone
    BY DEF ClientKexDh, Gone
  <1>5. AskedUp = 1 /\ GivenUp = 0 /\ Leading = 0 /\ Seen = 1
    BY <1>4 DEF AskedUp, GivenUp, Leading, Seen
  <1>. DEFINE p == C("kexdh", 0, "")
              t == <<p>>
  <1>6. p \in ClientPacket /\ p.msg = "kexdh" /\ p.key = cl.out
    <2>1. cl.out \in Nat /\ "kexdh" \in ClientMsgs /\ "" \in Details
      BY <1>3, ClientFields DEF ClientMsgs, Details
    <2>. QED  BY <2>1 DEF C, ClientPacket
  <1>7. Post(t)
    BY DEF ClientKexDh
  <1>. HIDE DEF p
  <1>8. t \in Seq(ClientPacket) /\ DOMAIN t = {1} /\ t[1] = p
    BY <1>6
  <1>9. Follows(c2s, t, "newkeys", "kexinit", "kexdh", cl.out)
    <2>1. c2s \in Seq(ClientPacket)
      BY DEF Sound, SessionTypeOK
    <2>. QED  BY ONLY <1>6, <2>1, ClientPacketSized, OneFollows
  <1>10. Count(t, "newkeys") = 0 /\ Count(t, "kexinit") = 0 /\ Count(t, "kexdh") = 1
    <2>1. \A m : Count(t, m) = One(p, m)
      BY ONLY <1>6, ClientPacketSized, CountOne
    <2>. QED  BY <1>6, <2>1 DEF One
  <1>11. ~Misled(t)
    BY <1>6, <1>8 DEF Misled
  <1>. HIDE DEF t
  <1>12. /\ Count(c2s', "newkeys") = Count(c2s, "newkeys")
         /\ Count(c2s', "kexinit") = Count(c2s, "kexinit")
         /\ Count(c2s', "kexdh") = Count(c2s, "kexdh") + 1
         /\ Ordered(c2s', "newkeys", "kexinit", "kexdh", inKeys)
         /\ Misled(c2s') <=> Misled(c2s)
    <2>1. /\ Count(c2s', "newkeys") = Count(c2s, "newkeys") + Count(t, "newkeys")
          /\ Count(c2s', "kexinit") = Count(c2s, "kexinit") + Count(t, "kexinit")
          /\ Count(c2s', "kexdh") = Count(c2s, "kexdh") + Count(t, "kexdh")
          /\ Ordered(c2s', "newkeys", "kexinit", "kexdh", inKeys)
          /\ Misled(c2s') <=> Misled(c2s) \/ Misled(t)
      BY <1>1, <1>7, <1>8, <1>9, PostOrders
    <2>2. Count(c2s, "newkeys") \in Nat /\ Count(c2s, "kexinit") \in Nat
      BY <1>3 DEF KexNumbers
    <2>. QED  BY ONLY <1>10, <1>11, <2>1, <2>2
  <1>13. /\ cl'.kex = "dh" /\ cl'.peerInit = FALSE
         /\ cl'.out = cl.out /\ cl'.in = cl.in /\ cl'.step = cl.step
    BY <1>3 DEF ClientKexDh, ClientState
  <1>14. AskedUp' = 1 /\ GivenUp' = 1 /\ Leading' = 0 /\ Seen' = 1
    BY <1>13 DEF AskedUp, GivenUp, Leading, Seen
  <1>15. /\ Answers' = Answers /\ Waiting' = Waiting /\ Behind' = Behind /\ Skips' = Skips
         /\ Wrong' = Wrong
    BY <1>1, <1>12 DEF Answers, Waiting, Behind, Skips, Wrong
  <1>16. ServerKeys'
    BY <1>1, <1>2, <1>15 DEF ServerKeys
  <1>17. ClientKeys'
    BY <1>1, <1>2, <1>5, <1>13, <1>14 DEF ClientKeys
  <1>18. Upstream'
    <2>1. UNCHANGED <<inKeys, outKeys>> /\ KexNumbers
      BY <1>1, <1>3
    <2>. QED  BY ONLY <1>2, <1>5, <1>12, <1>13, <1>14, <1>15, <2>1 DEF KexNumbers, Upstream
  <1>19. InOrderUp'
    BY <1>1, <1>12 DEF InOrderUp
  <1>20. Downstream' /\ InOrderDown'
    <2>1. s2c' = s2c
      BY <1>7 DEF Post
    <2>. QED  BY <1>1, <1>2, <1>4, <1>5, <1>13, <1>14, <1>15, <2>1 DEF Downstream, InOrderDown
  <1>. QED  BY <1>16, <1>17, <1>18, <1>19, <1>20

\* What the client finds at the head of its queue, and what is left behind it.
Front(p) ==
    /\ p \in Packet /\ s2c' = Tail(s2c) /\ cl' = Taken(p)
    /\ c2s' = IF p.msg = "kexdh-reply" THEN Append(c2s, C("newkeys", 0, "")) ELSE c2s
    /\ Count(s2c, "kexinit") = One(p, "kexinit") + Count(s2c', "kexinit")
    /\ Count(s2c, "kexdh-reply") = One(p, "kexdh-reply") + Count(s2c', "kexdh-reply")
    /\ Count(s2c, "newkeys") = One(p, "newkeys") + Count(s2c', "newkeys")
    /\ Count(s2c', "kexinit") \in Nat /\ Count(s2c', "kexdh-reply") \in Nat
    /\ Count(s2c', "newkeys") \in Nat
    /\ Ordered(s2c', "kexinit", "kexdh-reply", "newkeys", cl.in + One(p, "newkeys"))
    /\ p.msg = "kexdh-reply" => Count(s2c, "kexinit") = 0
    /\ p.msg = "newkeys" => Count(s2c, "kexdh-reply") = 0

LEMMA ClientFront ==
  ASSUME Sound, Exchange, ClientReceives, Open
  PROVE  Front(Head(s2c))
  <1>. DEFINE p == Head(s2c)
              q == Tail(s2c)
  <1>1. s2c \in Seq(Packet) /\ s2c # <<>> /\ cl.in \in Nat
    BY ClientFields DEF Sound, SessionTypeOK, ClientReceives
  <1>2. p \in Packet /\ q \in Seq(Packet)
    BY <1>1, HeadTailProperties
  <1>3. Ordered(s2c, "kexinit", "kexdh-reply", "newkeys", cl.in)
    BY DEF Exchange, InOrderDown, ClientReceives, Gone
  <1>4. /\ Ordered(q, "kexinit", "kexdh-reply", "newkeys", cl.in + One(p, "newkeys"))
        /\ p.msg = "kexdh-reply" => Count(s2c, "kexinit") = 0
        /\ p.msg = "newkeys" => Count(s2c, "kexdh-reply") = 0
    BY ONLY <1>1, <1>3, PacketSized, OrderedTail
  <1>5. \A m : Count(s2c, m) = One(p, m) + Count(q, m)
    BY ONLY <1>1, PacketSized, CountTail
  <1>6. \A m : Count(q, m) \in Nat
    <2>. HIDE DEF q
    <2>. QED  BY ONLY <1>2, PacketSized, CountNat
  <1>7. /\ s2c' = q /\ cl' = Taken(p)
        /\ c2s' = IF p.msg = "kexdh-reply" THEN Append(c2s, C("newkeys", 0, "")) ELSE c2s
    BY DEF ClientReceives
  <1>. HIDE DEF p
  <1>8. Front(p)
    BY <1>2, <1>4, <1>5, <1>6, <1>7 DEF Front
  <1>. QED  BY <1>8 DEF p

\* The state the client's reading of a packet starts from.
Reader ==
    /\ KexNumbers /\ cl \in ClientState /\ ServerKeys /\ ClientKeys
    /\ Upstream /\ Downstream /\ ~Gone
    /\ UNCHANGED <<state, kex, kexInitSent, ignoreNextKexPacket, kexNo, inKeys, outKeys,
                   pendKeys>>

\* The server's KEXINIT.
LEMMA ClientTakesInit ==
  ASSUME Reader, InOrderUp, NEW p, Front(p), p.msg = "kexinit"
  PROVE  ServerKeys' /\ ClientKeys' /\ Upstream' /\ InOrderUp' /\ Downstream' /\ InOrderDown'
  <1>1. One(p, "kexinit") = 1 /\ One(p, "kexdh-reply") = 0 /\ One(p, "newkeys") = 0
    BY DEF One
  <1>2. Seen = 0 /\ cl.peerInit = FALSE /\ cl.kex \in {"idle", "init", "guessed"}
    <2>1. kexInitSent => outKeys = 0 /\ Answers = 1
      BY DEF Reader, ServerKeys, Answers
    <2>2. ~kexInitSent => Answers = Waiting
      BY DEF Answers, Waiting
    <2>3. Leading + AskedUp \in {0, 1}
      BY DEF Leading, AskedUp
    <2>4. Count(s2c, "kexinit") >= 1
      BY <1>1 DEF Front
    <2>5. /\ Count(s2c, "kexinit") + cl.in + Seen = outKeys + Answers
          /\ Count(c2s, "kexinit") + outKeys + Waiting = cl.out + AskedUp
          /\ cl.out = cl.in + Leading
      BY DEF Reader, Upstream, Downstream, ClientKeys
    <2>6. KexNumbers
      BY DEF Reader
    <2>7. CASE kexInitSent
      <3>1. Seen = 0
        BY ONLY <2>1, <2>4, <2>5, <2>6, <2>7 DEF KexNumbers
      <3>. QED  BY <3>1 DEF Seen, Reader, ClientState
    <2>8. CASE ~kexInitSent
      <3>1. Seen = 0
        BY ONLY <2>2, <2>3, <2>4, <2>5, <2>6, <2>8 DEF KexNumbers
      <3>. QED  BY <3>1 DEF Seen, Reader, ClientState
    <2>. QED  BY <2>7, <2>8
  <1>3. /\ cl'.kex = IF cl.kex = "guessed" THEN "dh" ELSE cl.kex
        /\ cl'.peerInit = (cl.kex # "guessed")
        /\ cl'.out = cl.out /\ cl'.in = cl.in /\ cl'.step = cl.step
    <2>1. cl' = IF cl.kex = "guessed" THEN [cl EXCEPT !.kex = "dh"]
                ELSE [cl EXCEPT !.peerInit = TRUE]
      BY DEF Front, Taken
    <2>2. cl \in ClientState
      BY DEF Reader
    <2>. QED  BY <1>2, <2>1, <2>2 DEF ClientState
  <1>4. /\ AskedUp' = AskedUp /\ GivenUp' = GivenUp /\ Leading' = 0 /\ Leading = 0
        /\ Seen' = 1
    BY <1>2, <1>3 DEF AskedUp, GivenUp, Leading, Seen
  <1>5. c2s' = c2s
    BY DEF Front
  <1>6. /\ Answers' = Answers /\ Waiting' = Waiting /\ Behind' = Behind /\ Skips' = Skips
        /\ Wrong' = Wrong
    BY <1>5 DEF Reader, Answers, Waiting, Behind, Skips, Wrong
  <1>7. ServerKeys'
    BY <1>6 DEF Reader, ServerKeys
  <1>8. ClientKeys'
    BY <1>2, <1>3, <1>4 DEF Reader, ClientKeys
  <1>9. Upstream' /\ InOrderUp'
    BY <1>3, <1>4, <1>5, <1>6 DEF Reader, Upstream, InOrderUp
  <1>10. Downstream'
    <2>1. /\ Count(s2c, "kexinit") = 1 + Count(s2c', "kexinit")
          /\ Count(s2c, "kexdh-reply") = Count(s2c', "kexdh-reply")
          /\ Count(s2c, "newkeys") = Count(s2c', "newkeys")
          /\ Count(s2c', "kexinit") \in Nat
      BY <1>1 DEF Front
    <2>2. KexNumbers /\ Downstream /\ outKeys' = outKeys
      BY DEF Reader
    <2>. QED  BY ONLY <1>2, <1>3, <1>4, <1>6, <2>1, <2>2 DEF KexNumbers, Downstream
  <1>11. InOrderDown'
    <2>1. cl.in + One(p, "newkeys") = cl'.in
      BY <1>1, <1>3 DEF Reader, KexNumbers
    <2>. QED  BY <2>1 DEF Front, InOrderDown
  <1>. QED  BY <1>7, <1>8, <1>9, <1>10, <1>11

\* The server's NEWKEYS: the client's exchange is over.
LEMMA ClientTakesKeys ==
  ASSUME Reader, InOrderUp, NEW p, Front(p), p.msg = "newkeys"
  PROVE  ServerKeys' /\ ClientKeys' /\ Upstream' /\ InOrderUp' /\ Downstream' /\ InOrderDown'
  <1>1. One(p, "kexinit") = 0 /\ One(p, "kexdh-reply") = 0 /\ One(p, "newkeys") = 1
    BY DEF One
  <1>2. Leading = 1 /\ cl.out = cl.in + 1 /\ cl.kex = "newkeys" /\ cl.peerInit = FALSE
    <2>1. Count(s2c, "newkeys") >= 1 /\ Count(s2c, "kexdh-reply") = 0
      BY <1>1 DEF Front
    <2>2. /\ Count(s2c, "kexdh-reply") + cl.out = outKeys
          /\ Count(s2c, "newkeys") + cl.in = outKeys
          /\ cl.out = cl.in + Leading
      BY DEF Reader, Downstream, ClientKeys
    <2>3. KexNumbers
      BY DEF Reader
    <2>4. Leading = 1 /\ cl.out = cl.in + 1
      BY ONLY <2>1, <2>2, <2>3 DEF KexNumbers
    <2>5. cl.kex = "newkeys"
      BY <2>4 DEF Leading
    <2>. QED  BY <2>4, <2>5 DEF Reader, ClientKeys, ClientState
  <1>3. /\ cl'.kex = "idle" /\ cl'.peerInit = FALSE
        /\ cl'.out = cl.out /\ cl'.in = cl.in + 1 /\ cl'.step = cl.step
    <2>1. cl' = [cl EXCEPT !.kex = "idle", !.in = cl.out]
      BY DEF Front, Taken
    <2>2. cl \in ClientState
      BY DEF Reader
    <2>. QED  BY <1>2, <2>1, <2>2 DEF ClientState
  <1>4. /\ AskedUp = 0 /\ GivenUp = 0 /\ Leading = 1 /\ Seen = 1
        /\ AskedUp' = 0 /\ GivenUp' = 0 /\ Leading' = 0 /\ Seen' = 0
    BY <1>2, <1>3 DEF AskedUp, GivenUp, Leading, Seen
  <1>5. c2s' = c2s
    BY DEF Front
  <1>6. /\ Answers' = Answers /\ Waiting' = Waiting /\ Behind' = Behind /\ Skips' = Skips
        /\ Wrong' = Wrong
    BY <1>5 DEF Reader, Answers, Waiting, Behind, Skips, Wrong
  <1>7. ServerKeys'
    BY <1>6 DEF Reader, ServerKeys
  <1>8. ClientKeys'
    <2>1. cl'.out = cl'.in + Leading' /\ cl'.out <= outKeys'
      BY <1>2, <1>3, <1>4 DEF Reader, ClientKeys, KexNumbers
    <2>. QED  BY <1>3, <2>1 DEF ClientKeys
  <1>9. Upstream' /\ InOrderUp'
    BY <1>3, <1>4, <1>5, <1>6 DEF Reader, Upstream, InOrderUp
  <1>10. Downstream'
    <2>1. /\ Count(s2c, "kexinit") = Count(s2c', "kexinit")
          /\ Count(s2c, "kexdh-reply") = Count(s2c', "kexdh-reply")
          /\ Count(s2c, "newkeys") = 1 + Count(s2c', "newkeys")
          /\ Count(s2c', "newkeys") \in Nat
      BY <1>1 DEF Front
    <2>2. KexNumbers /\ Downstream /\ outKeys' = outKeys
      BY DEF Reader
    <2>. QED  BY ONLY <1>2, <1>3, <1>4, <1>6, <2>1, <2>2 DEF KexNumbers, Downstream
  <1>11. InOrderDown'
    <2>1. cl.in + One(p, "newkeys") = cl'.in
      BY <1>1, <1>3 DEF Reader, KexNumbers
    <2>. QED  BY <2>1 DEF Front, InOrderDown
  <1>. QED  BY <1>7, <1>8, <1>9, <1>10, <1>11

\* The server's KEXDH_REPLY, which the client answers with its NEWKEYS.
LEMMA ClientTakesReply ==
  ASSUME Sound, Exchange, Open, Reader, InOrderUp, NEW p, Front(p), p.msg = "kexdh-reply"
  PROVE  ServerKeys' /\ ClientKeys' /\ Upstream' /\ InOrderUp' /\ Downstream' /\ InOrderDown'
  <1>1. One(p, "kexinit") = 0 /\ One(p, "kexdh-reply") = 1 /\ One(p, "newkeys") = 0
    BY DEF One
  <1>2. KexNumbers /\ Upstream /\ Downstream /\ cl.out = cl.in + Leading
    BY DEF Reader, ClientKeys
  <1>3. Count(s2c, "kexdh-reply") >= 1 /\ Count(s2c, "kexinit") = 0
    <2>1. Count(s2c, "kexdh-reply") = 1 + Count(s2c', "kexdh-reply")
      BY <1>1 DEF Front
    <2>2. Count(s2c', "kexdh-reply") \in Nat /\ Count(s2c, "kexinit") = 0
      BY DEF Front
    <2>. QED  BY ONLY <2>1, <2>2
  <1>4. /\ AskedUp = 1 /\ outKeys = cl.out + 1 /\ Waiting = 0 /\ Leading = 0 /\ cl.out = cl.in
        /\ Count(c2s, "kexinit") = 0 /\ Seen = 1 /\ Answers = 0
    <2>1. AskedUp = 1 => Leading = 0
      BY DEF AskedUp, Leading
    <2>2. /\ AskedUp = 1 /\ outKeys = cl.out + 1 /\ Waiting = 0 /\ Count(c2s, "kexinit") = 0
      BY ONLY <1>2, <1>3 DEF KexNumbers, Upstream, Downstream
    <2>. QED  BY ONLY <1>2, <1>3, <2>1, <2>2 DEF KexNumbers, Downstream
  <1>5. Wrong = 0 /\ Skips = 0
    <2>1. c2s \in Seq(ClientPacket)
      BY DEF Sound, SessionTypeOK
    <2>2. ~Misled(c2s)
      <3>1. CASE c2s = <<>>
        BY <3>1 DEF Misled
      <3>2. CASE c2s # <<>>
        <4>1. Misled(c2s) => Count(c2s, "kexinit") > 0
          BY ONLY <2>1, <3>2, ClientPacketSized, MisledTail
        <4>. QED  BY <4>1, <1>4
      <3>. QED  BY <3>1, <3>2
    <2>3. Skips = 0
      BY <1>2, <1>4 DEF Reader, ServerKeys, KexNumbers
    <2>. QED  BY <2>2, <2>3 DEF Wrong
  <1>6. GivenUp = 1 /\ Count(c2s, "kexdh") = 0
    BY ONLY <1>2, <1>4, <1>5 DEF KexNumbers, Upstream
  <1>7. cl.kex = "dh" /\ cl.peerInit = FALSE
    <2>1. cl.kex \in {"guessed", "dh"}
      BY <1>6 DEF GivenUp
    <2>2. cl.peerInit = FALSE
      BY <2>1 DEF Reader, ClientKeys, ClientState
    <2>. QED  BY <1>4, <2>1, <2>2 DEF Seen
  <1>8. /\ cl'.kex = "newkeys" /\ cl'.peerInit = FALSE
        /\ cl'.out = cl.out + 1 /\ cl'.in = cl.in /\ cl'.step = cl.step
    <2>1. cl' = [cl EXCEPT !.kex = "newkeys", !.out = @ + 1]
      BY DEF Front, Taken
    <2>2. cl \in ClientState
      BY DEF Reader
    <2>. QED  BY <1>7, <2>1, <2>2 DEF ClientState
  <1>9. AskedUp' = 0 /\ GivenUp' = 0 /\ Leading' = 1 /\ Seen' = 1
    BY <1>8 DEF AskedUp, GivenUp, Leading, Seen
  <1>. DEFINE r == C("newkeys", 0, "")
              t == <<r>>
  <1>10. r \in ClientPacket /\ r.msg = "newkeys" /\ r.key = cl.out
    <2>1. cl.out \in Nat /\ "newkeys" \in ClientMsgs /\ "" \in Details
      BY <1>2 DEF ClientMsgs, Details, KexNumbers
    <2>. QED  BY <2>1 DEF C, ClientPacket
  <1>11. c2s' = Append(c2s, r) /\ c2s \in Seq(ClientPacket)
    BY DEF Front, Sound, SessionTypeOK
  <1>. HIDE DEF r
  <1>12. t \in Seq(ClientPacket) /\ DOMAIN t = {1} /\ t[1] = r
    BY <1>10
  <1>13. c2s' = c2s \o t
    BY <1>10, <1>11
  <1>14. Follows(c2s, t, "newkeys", "kexinit", "kexdh", cl.out)
    BY ONLY <1>4, <1>10, <1>11, ClientPacketSized, OneFollows
  <1>15. ~Misled(t)
    BY <1>10, <1>12 DEF Misled
  <1>16. \A m : Count(c2s', m) = Count(c2s, m) + One(r, m)
    <2>1. \A m : Count(Append(c2s, r), m) = Count(c2s, m) + One(r, m)
      BY ONLY <1>10, <1>11, ClientPacketSized, CountAppend
    <2>. QED  BY <1>11, <2>1
  <1>. HIDE DEF t
  <1>17. InOrderUp'
    <2>1. cl.out = inKeys + Count(c2s, "newkeys") /\ inKeys \in Nat
      BY ONLY <1>2 DEF Upstream, KexNumbers
    <2>2. Ordered(c2s, "newkeys", "kexinit", "kexdh", inKeys)
      BY DEF InOrderUp
    <2>3. Ordered(c2s \o t, "newkeys", "kexinit", "kexdh", inKeys)
      BY ONLY <1>11, <1>12, <1>14, <2>1, <2>2, ClientPacketSized, OrderedConcat
    <2>. QED  BY <1>13, <2>3 DEF InOrderUp, Reader
  <1>18. Misled(c2s') <=> Misled(c2s)
    <2>1. Misled(c2s \o t) <=> Misled(c2s) \/ Misled(t)
      BY ONLY <1>11, <1>12, MisledConcat
    <2>. QED  BY <1>13, <1>15, <2>1
  <1>19. /\ Answers' = Answers /\ Waiting' = Waiting /\ Behind' = Behind /\ Skips' = Skips
         /\ Wrong' = Wrong
    BY <1>18 DEF Reader, Answers, Waiting, Behind, Skips, Wrong
  <1>20. ServerKeys'
    BY <1>19 DEF Reader, ServerKeys
  <1>21. ClientKeys'
    <2>1. cl'.out = cl'.in + Leading' /\ cl'.out <= outKeys'
      BY <1>2, <1>4, <1>8, <1>9 DEF Reader, KexNumbers
    <2>. QED  BY <1>8, <2>1 DEF ClientKeys
  <1>22. UNCHANGED <<inKeys, outKeys>>
    BY DEF Reader
  <1>23. Upstream'
    <2>1. One(r, "newkeys") = 1 /\ One(r, "kexinit") = 0 /\ One(r, "kexdh") = 0
      BY <1>10 DEF One
    <2>2. /\ Count(c2s', "newkeys") = Count(c2s, "newkeys") + 1
          /\ Count(c2s', "kexinit") = 0 /\ Count(c2s', "kexdh") = 0
      BY <1>4, <1>6, <1>16, <2>1
    <2>. QED  BY ONLY <1>2, <1>4, <1>5, <1>8, <1>9, <1>19, <1>22, <2>2 DEF KexNumbers, Upstream
  <1>24. Downstream'
    <2>1. /\ Count(s2c', "kexinit") = 0
          /\ Count(s2c, "kexdh-reply") = 1 + Count(s2c', "kexdh-reply")
          /\ Count(s2c, "newkeys") = Count(s2c', "newkeys")
          /\ Count(s2c', "kexdh-reply") \in Nat
      <3>1. /\ Count(s2c, "kexinit") = 0 + Count(s2c', "kexinit")
            /\ Count(s2c, "kexdh-reply") = 1 + Count(s2c', "kexdh-reply")
            /\ Count(s2c, "newkeys") = 0 + Count(s2c', "newkeys")
        BY <1>1 DEF Front
      <3>2. /\ Count(s2c', "kexinit") \in Nat /\ Count(s2c', "kexdh-reply") \in Nat
            /\ Count(s2c', "newkeys") \in Nat
        BY DEF Front
      <3>. QED  BY ONLY <1>3, <3>1, <3>2
    <2>. QED  BY ONLY <1>2, <1>3, <1>4, <1>8, <1>9, <1>19, <1>22, <2>1
              DEF KexNumbers, Downstream
  <1>25. InOrderDown'
    <2>1. cl.in + One(p, "newkeys") = cl'.in
      BY <1>1, <1>2, <1>8 DEF KexNumbers
    <2>. QED  BY <2>1 DEF Front, InOrderDown
  <1>. QED  BY <1>17, <1>20, <1>21, <1>23, <1>24, <1>25

\* Any packet: one that is no part of the exchange leaves it as it is.
LEMMA ClientTakesAny == ASSUME Sound, Exchange, Served, ClientReceives PROVE Exchange'
  <1>. SUFFICES ASSUME Open' PROVE Exchange'
    BY DEF Exchange
  <1>. DEFINE p == Head(s2c)
  <1>1. /\ UNCHANGED <<state, kex, kexInitSent, ignoreNextKexPacket, kexNo, inKeys, outKeys,
                       pendKeys>>
        /\ Open /\ UNCHANGED <<kexVars, keyVars>>
    BY DEF Served, vars, kexVars, keyVars, Open
  <1>2. Front(p)
    BY <1>1, ClientFront
  <1>3. ~Gone
    BY DEF ClientReceives, Gone
  <1>4. Reader /\ InOrderUp
    BY <1>1, <1>3, SoundNumbers DEF Reader, Exchange, Sound, SessionTypeOK
  <1>. HIDE DEF p
  <1>5. CASE p.msg \in KexMsgs
    <2>1. ServerKeys' /\ ClientKeys' /\ Upstream' /\ InOrderUp' /\ Downstream' /\ InOrderDown'
      <3>1. p.msg \in {"kexinit", "kexdh-reply", "newkeys"}
        BY <1>5 DEF KexMsgs
      <3>. QED  BY <1>1, <1>2, <1>4, <3>1, ClientTakesInit, ClientTakesReply, ClientTakesKeys
    <2>. QED  BY <2>1 DEF Exchange
  <1>6. CASE p.msg \notin KexMsgs
    <2>1. p.msg \notin {"kexinit", "kexdh-reply", "newkeys"}
      BY <1>6 DEF KexMsgs
    <2>2. KexVarsKept
      <3>1. /\ cl'.kex = cl.kex /\ cl'.peerInit = cl.peerInit
            /\ cl'.out = cl.out /\ cl'.in = cl.in
        BY <1>2, <1>4, <2>1 DEF Front, Taken, Reader, ClientState
      <3>. QED  BY <1>1, <3>1 DEF KexVarsKept
    <2>3. StateKept
      BY <1>1, <1>3 DEF StateKept
    <2>4. UpKept
      <3>1. c2s' = c2s
        BY <1>2, <2>1 DEF Front
      <3>. QED  BY <1>4, <3>1 DEF UpKept, InOrderUp
    <2>5. DownKept
      <3>1. One(p, "kexinit") = 0 /\ One(p, "kexdh-reply") = 0 /\ One(p, "newkeys") = 0
        BY <2>1 DEF One
      <3>2. cl.in + One(p, "newkeys") = cl.in
        BY <1>4, <3>1 DEF Reader, KexNumbers
      <3>3. Ordered(s2c', "kexinit", "kexdh-reply", "newkeys", cl.in)
        BY <1>2, <3>2 DEF Front
      <3>4. /\ Count(s2c, "kexinit") = 0 + Count(s2c', "kexinit")
            /\ Count(s2c, "kexdh-reply") = 0 + Count(s2c', "kexdh-reply")
            /\ Count(s2c, "newkeys") = 0 + Count(s2c', "newkeys")
        BY <1>2, <3>1 DEF Front
      <3>5. /\ Count(s2c', "kexinit") \in Nat /\ Count(s2c', "kexdh-reply") \in Nat
            /\ Count(s2c', "newkeys") \in Nat
        BY <1>2 DEF Front
      <3>6. /\ Count(s2c', "kexinit") = Count(s2c, "kexinit")
            /\ Count(s2c', "kexdh-reply") = Count(s2c, "kexdh-reply")
            /\ Count(s2c', "newkeys") = Count(s2c, "newkeys")
        BY ONLY <3>4, <3>5
      <3>. QED  BY ONLY <3>3, <3>6 DEF DownKept
    <2>. QED  BY <2>2, <2>3, <2>4, <2>5, ExchangeKept
  <1>. QED  BY <1>5, <1>6

LEMMA ClientExchanges == ASSUME Sound, Exchange, ClientStep PROVE Exchange'
  <1>1. Served
    BY DEF ClientStep, Served
  <1>2. CASE ClientReceives
    BY <1>1, <1>2, ClientTakesAny
  <1>3. CASE ClientKexDh
    BY <1>1, <1>3, ClientSendsDh
  <1>4. CASE \E guess \in Guesses : ClientKexInit(guess)
    BY <1>1, <1>4, ClientAsks
  <1>5. CASE \/ ClientHello \/ ClientProceeds \/ ClientAdjusts \/ ClientEof \/ ClientClose
             \/ ClientLeaves \/ \E n \in DataSizes : ClientTypes(n)
    BY <1>1, <1>5, ClientBeside
  <1>. QED  BY <1>2, <1>3, <1>4, <1>5 DEF ClientStep
-----------------------------------------------------------------------------
(* The server's steps *)

\* What the server sends goes to the end of the client's queue.
LEMMA SendOrders ==
  ASSUME s2c \in Seq(Packet), KexNumbers, Downstream, InOrderDown, NEW t \in Seq(Packet),
         s2c' = s2c \o t, Follows(s2c, t, "kexinit", "kexdh-reply", "newkeys", outKeys)
  PROVE  /\ Count(s2c', "kexinit") = Count(s2c, "kexinit") + Count(t, "kexinit")
         /\ Count(s2c', "kexdh-reply") = Count(s2c, "kexdh-reply") + Count(t, "kexdh-reply")
         /\ Count(s2c', "newkeys") = Count(s2c, "newkeys") + Count(t, "newkeys")
         /\ Ordered(s2c', "kexinit", "kexdh-reply", "newkeys", cl.in)
  <1>1. outKeys = cl.in + Count(s2c, "newkeys") /\ cl.in \in Nat
    BY ONLY KexNumbers, Downstream DEF Downstream, KexNumbers
  <1>2. Ordered(s2c, "kexinit", "kexdh-reply", "newkeys", cl.in)
    BY DEF InOrderDown
  <1>3. Ordered(s2c \o t, "kexinit", "kexdh-reply", "newkeys", cl.in)
    BY <1>1, <1>2, PacketSized, OrderedConcat
  <1>4. \A m : Count(s2c \o t, m) = Count(s2c, m) + Count(t, m)
    BY PacketSized, CountConcat
  <1>. QED  BY <1>3, <1>4

\* Packets that are no part of the exchange.
LEMMA SendKeeps ==
  ASSUME s2c \in Seq(Packet), KexNumbers, Downstream, InOrderDown, tx' \in Seq(Packet),
         Wire, OnWire(ServerMsgs \ KexMsgs)
  PROVE  DownKept
  <1>. DEFINE t == tx'
  <1>1. /\ t \in Seq(Packet) /\ s2c' = s2c \o t
        /\ SealedWith(t, outKeys)
        /\ Lacks(t, "kexinit") /\ Lacks(t, "kexdh-reply") /\ Lacks(t, "newkeys")
    BY DEF Wire, OnWire, SealedWith, Lacks, KexMsgs
  <1>. HIDE DEF t
  <1>2. "newkeys" \in {"kexinit", "kexdh-reply", "newkeys"} /\ s2c \in Seq(Packet)
    OBVIOUS
  <1>3. /\ Follows(s2c, t, "kexinit", "kexdh-reply", "newkeys", outKeys)
        /\ Count(s2c \o t, "kexinit") = Count(s2c, "kexinit")
        /\ Count(s2c \o t, "kexdh-reply") = Count(s2c, "kexdh-reply")
        /\ Count(s2c \o t, "newkeys") = Count(s2c, "newkeys")
    BY ONLY <1>1, <1>2, PacketSized, AsideFollows
  <1>4. Ordered(s2c', "kexinit", "kexdh-reply", "newkeys", cl.in)
    BY <1>1, <1>3, SendOrders
  <1>. QED  BY <1>1, <1>3, <1>4 DEF DownKept

\* What the server finds at the head of its queue, and what is left behind it.
Arrived(p) ==
    /\ p \in Upward /\ c2s' = Tail(c2s) /\ p.key = inKeys
    /\ Count(c2s, "newkeys") = One(p, "newkeys") + Count(c2s', "newkeys")
    /\ Count(c2s, "kexinit") = One(p, "kexinit") + Count(c2s', "kexinit")
    /\ Count(c2s, "kexdh") = One(p, "kexdh") + Count(c2s', "kexdh")
    /\ Count(c2s', "newkeys") \in Nat /\ Count(c2s', "kexinit") \in Nat
    /\ Count(c2s', "kexdh") \in Nat
    /\ Ordered(c2s', "newkeys", "kexinit", "kexdh", inKeys + One(p, "newkeys"))
    /\ p.msg = "kexinit" => Count(c2s, "newkeys") = 0
    /\ p.msg = "kexdh" => Count(c2s, "kexinit") = 0
    /\ Misled(c2s) => Count(c2s, "kexinit") > 0
    /\ Misled(c2s') => Count(c2s', "kexinit") > 0
    /\ p.msg = "kexinit" /\ p.arg = "wrong guess" => Misled(c2s)
    /\ ~(p.msg = "kexinit" /\ p.arg = "wrong guess") => (Misled(c2s) <=> Misled(c2s'))

LEMMA ServerFront ==
  ASSUME Sound, Exchange, Open, c2s # <<>>, c2s' = Tail(c2s)
  PROVE  Arrived(Head(c2s))
  <1>. DEFINE p == Head(c2s)
              q == Tail(c2s)
  <1>1. c2s \in Seq(ClientPacket) /\ c2s # <<>> /\ inKeys \in Nat
    BY SoundNumbers DEF Sound, SessionTypeOK, KexNumbers
  <1>2. p \in ClientPacket /\ q \in Seq(ClientPacket)
    BY <1>1, HeadTailProperties
  <1>3. p \in Upward
    BY <1>1, HeadTailProperties DEF Sound, Queued
  <1>4. Ordered(c2s, "newkeys", "kexinit", "kexdh", inKeys)
    BY DEF Exchange, InOrderUp
  <1>5. /\ p.key = inKeys
        /\ Ordered(q, "newkeys", "kexinit", "kexdh", inKeys + One(p, "newkeys"))
        /\ p.msg = "kexinit" => Count(c2s, "newkeys") = 0
        /\ p.msg = "kexdh" => Count(c2s, "kexinit") = 0
    BY ONLY <1>1, <1>4, ClientPacketSized, OrderedTail
  <1>6. \A m : Count(c2s, m) = One(p, m) + Count(q, m)
    BY ONLY <1>1, ClientPacketSized, CountTail
  <1>7. /\ ~(p.msg = "kexinit" /\ p.arg = "wrong guess") => (Misled(c2s) <=> Misled(q))
        /\ p.msg = "kexinit" /\ p.arg = "wrong guess" => Misled(c2s)
        /\ Misled(c2s) => Count(c2s, "kexinit") > 0
    BY ONLY <1>1, ClientPacketSized, MisledTail
  <1>. HIDE DEF p, q
  <1>8. \A m : Count(q, m) \in Nat
    BY ONLY <1>2, ClientPacketSized, CountNat
  <1>9. Misled(q) => Count(q, "kexinit") > 0
    <2>1. CASE q = <<>>
      <3>1. ~Misled(<<>>)
        BY DEF Misled
      <3>. QED  BY ONLY <2>1, <3>1
    <2>2. CASE q # <<>>
      BY ONLY <1>2, <2>2, ClientPacketSized, MisledTail
    <2>. QED  BY <2>1, <2>2
  <1>10. c2s' = q
    BY DEF q
  <1>11. Arrived(p)
    BY <1>3, <1>5, <1>6, <1>7, <1>8, <1>9, <1>10 DEF Arrived
  <1>. QED  BY <1>11 DEF p

\* A step of the server that is no part of the exchange.
LEMMA ServerBeside ==
  ASSUME Sound, Exchange, cl' = cl, tx' \in Seq(Packet), Wire, OnWire(ServerMsgs \ KexMsgs),
         UNCHANGED <<kexVars, keyVars>>, Open' => Open,
         state' \in {state, "CLOSED", "CONN"}, Open' => UpKept
  PROVE  Exchange'
  <1>1. KexVarsKept
    BY DEF KexVarsKept
  <1>2. StateKept
    BY DEF StateKept, Open, Gone
  <1>3. ASSUME Open', ~Gone' PROVE DownKept
    <2>1. Open /\ ~Gone /\ s2c \in Seq(Packet) /\ KexNumbers
      BY <1>3, SoundNumbers DEF Gone, Sound, SessionTypeOK
    <2>2. Downstream /\ InOrderDown
      BY <2>1 DEF Exchange
    <2>. QED  BY <2>1, <2>2, SendKeeps
  <1>. QED  BY <1>1, <1>2, <1>3, ExchangeKept

\* The queue to the server when nothing is taken from it,
LEMMA UpStays == ASSUME Exchange, Open, c2s' = c2s PROVE UpKept
  BY DEF Exchange, UpKept, InOrderUp

\* or a packet that is no part of the exchange.
LEMMA UpPasses ==
  ASSUME KexNumbers, NEW p, Arrived(p), p.msg \notin {"newkeys", "kexinit", "kexdh"}
  PROVE  UpKept
  <1>1. One(p, "newkeys") = 0 /\ One(p, "kexinit") = 0 /\ One(p, "kexdh") = 0
    BY DEF One
  <1>2. inKeys + One(p, "newkeys") = inKeys
    BY <1>1 DEF KexNumbers
  <1>3. Ordered(c2s', "newkeys", "kexinit", "kexdh", inKeys) /\ (Misled(c2s') <=> Misled(c2s))
    BY <1>2 DEF Arrived
  <1>4. /\ Count(c2s, "newkeys") = 0 + Count(c2s', "newkeys")
        /\ Count(c2s, "kexinit") = 0 + Count(c2s', "kexinit")
        /\ Count(c2s, "kexdh") = 0 + Count(c2s', "kexdh")
    BY <1>1 DEF Arrived
  <1>5. /\ Count(c2s', "newkeys") \in Nat /\ Count(c2s', "kexinit") \in Nat
        /\ Count(c2s', "kexdh") \in Nat
    BY DEF Arrived
  <1>6. /\ Count(c2s', "newkeys") = Count(c2s, "newkeys")
        /\ Count(c2s', "kexinit") = Count(c2s, "kexinit")
        /\ Count(c2s', "kexdh") = Count(c2s, "kexdh")
    BY ONLY <1>4, <1>5
  <1>. QED  BY <1>3, <1>6 DEF UpKept

\* The server as it takes a packet that is part of the exchange.
Server(p) ==
    /\ KexNumbers /\ ServerKeys /\ ClientKeys /\ Upstream /\ Arrived(p)
    /\ ~Gone => Downstream /\ InOrderDown
    /\ s2c \in Seq(Packet) /\ cl' = cl /\ Wire /\ KeyTypeOK /\ KexTypeOK

LEMMA ClientStays ==
  ASSUME cl' = cl
  PROVE  /\ AskedUp' = AskedUp /\ GivenUp' = GivenUp /\ Leading' = Leading /\ Seen' = Seen
         /\ Gone' = Gone
  BY DEF AskedUp, GivenUp, Leading, Seen, Gone

\* The version line, answered with the server's KEXINIT.
LEMMA ServerTakesVersion ==
  ASSUME NEW p, Server(p), p.msg = "version", NEW o \in {"ok", "closed"},
         RecvVersion("ssh2", o), Open'
  PROVE  /\ ServerKeys' /\ ClientKeys' /\ Upstream' /\ InOrderUp'
         /\ ~Gone' => Downstream' /\ InOrderDown'
  <1>1. /\ state = "VERSION" /\ state' = "KEX" /\ kex' = "WAIT_KEXINIT" /\ kexInitSent' = TRUE
        /\ tx' = <<P("kexinit")>>
        /\ UNCHANGED <<ignoreNextKexPacket, kexNo, inKeys, outKeys, pendKeys>>
    BY DEF RecvVersion, SendPacket, Disconnect, Quiet, Open, keyVars
  <1>2. kex = "IDLE" /\ outKeys = 0 /\ inKeys = 0 /\ ~kexInitSent
    BY <1>1 DEF Server, ServerKeys
  <1>3. cl' = cl /\ KexNumbers
    BY DEF Server
  <1>4. Answers = 0 /\ Waiting = 0 /\ Behind = 0 /\ Skips = 0
    <2>1. Answers = 0 /\ Waiting = 0 /\ Behind = 0
      BY <1>2 DEF Answers, Waiting, Behind
    <2>. QED  BY <1>3, <2>1 DEF Server, ServerKeys, KexNumbers
  <1>5. Answers' = 1 /\ Waiting' = 0 /\ Behind' = 0 /\ Skips' = 0
    BY <1>1, <1>4 DEF Answers, Waiting, Behind, Skips
  <1>6. /\ AskedUp' = AskedUp /\ GivenUp' = GivenUp /\ Leading' = Leading /\ Seen' = Seen
        /\ Gone' = Gone
    BY <1>3, ClientStays
  <1>7. UpKept
    <2>1. p.msg \notin {"newkeys", "kexinit", "kexdh"}
      OBVIOUS
    <2>. QED  BY <2>1, UpPasses DEF Server
  <1>8. Wrong' = Wrong
    BY <1>7 DEF Wrong, UpKept
  <1>9. ServerKeys'
    BY <1>1, <1>2, <1>4, <1>5 DEF Server, ServerKeys
  <1>10. ClientKeys'
    BY <1>1, <1>3, <1>6 DEF Server, ClientKeys
  <1>11. Upstream'
    BY <1>1, <1>3, <1>4, <1>5, <1>6, <1>7, <1>8 DEF Server, Upstream, UpKept
  <1>12. InOrderUp'
    BY <1>1, <1>7 DEF InOrderUp, UpKept
  <1>13. ASSUME ~Gone' PROVE Downstream' /\ InOrderDown'
    <2>. DEFINE r == P("kexinit")
                t == <<r>>
    <2>1. Downstream /\ InOrderDown /\ s2c \in Seq(Packet) /\ KexNumbers /\ s2c' = s2c \o t
      BY <1>1, <1>6, <1>13 DEF Server, Wire
    <2>2. r \in Packet /\ r.msg = "kexinit" /\ r.key = outKeys
      BY DEF P, Sealed, Packet, ServerMsgs, KexMsgs, Server, KeyTypeOK
    <2>. HIDE DEF r
    <2>3. t \in Seq(Packet)
      BY <2>2
    <2>4. Count(s2c, "kexdh-reply") = 0
      <3>1. outKeys = 0 /\ Count(s2c, "kexdh-reply") + cl.out = outKeys
        BY <1>2, <2>1 DEF Downstream
      <3>2. Count(s2c, "kexdh-reply") \in Nat /\ cl.out \in Nat
        BY <2>1 DEF KexNumbers
      <3>. QED  BY ONLY <3>1, <3>2
    <2>5. Follows(s2c, t, "kexinit", "kexdh-reply", "newkeys", outKeys)
      BY ONLY <2>1, <2>2, <2>4, PacketSized, OneFollows
    <2>6. \A m : Count(t, m) = One(r, m)
      BY ONLY <2>2, PacketSized, CountOne
    <2>. HIDE DEF t
    <2>7. Count(t, "kexinit") = 1 /\ Count(t, "kexdh-reply") = 0 /\ Count(t, "newkeys") = 0
      BY <2>2, <2>6 DEF One
    <2>8. /\ Count(s2c', "kexinit") = Count(s2c, "kexinit") + Count(t, "kexinit")
          /\ Count(s2c', "kexdh-reply") = Count(s2c, "kexdh-reply") + Count(t, "kexdh-reply")
          /\ Count(s2c', "newkeys") = Count(s2c, "newkeys") + Count(t, "newkeys")
          /\ Ordered(s2c', "kexinit", "kexdh-reply", "newkeys", cl.in)
      BY ONLY <2>1, <2>3, <2>5, SendOrders
    <2>9. outKeys' = outKeys
      BY <1>1
    <2>10. Downstream'
      <3>1. /\ Count(s2c', "kexinit") = Count(s2c, "kexinit") + 1
            /\ Count(s2c', "kexdh-reply") = Count(s2c, "kexdh-reply") + 0
            /\ Count(s2c', "newkeys") = Count(s2c, "newkeys") + 0
        BY <2>7, <2>8
      <3>2. /\ cl'.in = cl.in /\ cl'.out = cl.out /\ outKeys' = outKeys
            /\ Answers = 0 /\ Answers' = 1 /\ Seen' = Seen
        BY <1>3, <1>4, <1>5, <1>6, <2>9
      <3>3. KexNumbers /\ Downstream
        BY <2>1
      <3>. QED  BY ONLY <3>1, <3>2, <3>3 DEF KexNumbers, Downstream
    <2>. QED  BY <1>3, <2>8, <2>10 DEF InOrderDown
  <1>. QED  BY <1>9, <1>10, <1>11, <1>12, <1>13

\* The KEXDH_INIT of a wrong guess, dropped.
LEMMA ServerSkips ==
  ASSUME NEW p, Server(p), p.msg = "kexdh", SkipGuessed("kexdh")
  PROVE  /\ ServerKeys' /\ ClientKeys' /\ Upstream' /\ InOrderUp'
         /\ ~Gone' => Downstream' /\ InOrderDown'
  <1>1. /\ ignoreNextKexPacket = TRUE /\ ignoreNextKexPacket' = FALSE
        /\ tx' = <<>>
        /\ UNCHANGED <<state, kex, kexInitSent, kexNo, inKeys, outKeys, pendKeys>>
    BY DEF SkipGuessed, Guessed, Quiet, keyVars, Server, KexTypeOK
  <1>2. cl' = cl /\ KexNumbers /\ Upstream
    BY DEF Server
  <1>3. Skips = 1 /\ Skips' = 0 /\ Answers' = Answers /\ Waiting' = Waiting /\ Behind' = Behind
    BY <1>1 DEF Skips, Answers, Waiting, Behind
  <1>4. /\ AskedUp' = AskedUp /\ GivenUp' = GivenUp /\ Leading' = Leading /\ Seen' = Seen
        /\ Gone' = Gone
    BY <1>2, ClientStays
  <1>5. One(p, "newkeys") = 0 /\ One(p, "kexinit") = 0 /\ One(p, "kexdh") = 1
    BY DEF One
  <1>6. /\ Count(c2s, "newkeys") = 0 + Count(c2s', "newkeys")
        /\ Count(c2s, "kexinit") = 0 + Count(c2s', "kexinit")
        /\ Count(c2s, "kexdh") = 1 + Count(c2s', "kexdh")
        /\ Count(c2s', "newkeys") \in Nat /\ Count(c2s', "kexinit") \in Nat
        /\ Count(c2s', "kexdh") \in Nat
    BY <1>5 DEF Server, Arrived
  <1>7. Wrong' = Wrong
    BY DEF Wrong, Server, Arrived
  <1>8. ServerKeys'
    BY <1>1, <1>3 DEF Server, ServerKeys
  <1>9. ClientKeys'
    BY <1>1, <1>2, <1>4 DEF Server, ClientKeys
  <1>10. UNCHANGED <<inKeys, outKeys>>
    BY <1>1
  <1>11. Upstream'
    BY ONLY <1>2, <1>3, <1>4, <1>6, <1>7, <1>10 DEF KexNumbers, Upstream
  <1>12. InOrderUp'
    <2>1. inKeys + One(p, "newkeys") = inKeys'
      BY <1>2, <1>5, <1>10 DEF KexNumbers
    <2>. QED  BY <2>1 DEF InOrderUp, Server, Arrived
  <1>13. ASSUME ~Gone' PROVE Downstream' /\ InOrderDown'
    <2>1. s2c' = s2c
      BY <1>1 DEF Server, Wire
    <2>2. Downstream /\ InOrderDown
      BY <1>4, <1>13 DEF Server
    <2>. QED  BY <1>2, <1>3, <1>4, <1>10, <2>1, <2>2 DEF Downstream, InOrderDown
  <1>. QED  BY <1>8, <1>9, <1>11, <1>12, <1>13

\* The client's KEXINIT, answered with the server's unless that is out already.
LEMMA ServerTakesInit ==
  ASSUME NEW p, Server(p), p.msg = "kexinit", p.arg \in {"match", "wrong guess"},
         NEW o \in {"ok", "closed"}, RecvKexInit(p.arg, o), Open'
  PROVE  /\ ServerKeys' /\ ClientKeys' /\ Upstream' /\ InOrderUp'
         /\ ~Gone' => Downstream' /\ InOrderDown'
  <1>1. /\ kex' = "WAIT_DH" /\ kexInitSent' = FALSE
        /\ ignoreNextKexPacket' = IgnoreNext(p.arg)
        /\ tx' = IF kexInitSent THEN <<>> ELSE <<P("kexinit")>>
        /\ UNCHANGED <<state, kexNo, inKeys, outKeys, pendKeys>>
    BY DEF RecvKexInit, SendPacket, Disconnect, Open, keyVars
  <1>2. kex \in {"IDLE", "WAIT_KEXINIT"} /\ state # "VERSION"
    BY DEF RecvKexInit, Handles, Acceptable, KexExpected
  <1>3. cl' = cl /\ KexNumbers /\ Upstream /\ ClientKeys /\ outKeys = inKeys + Behind
    BY DEF Server, ServerKeys
  <1>4. Answers = (IF kexInitSent THEN 1 ELSE 0) /\ Waiting = 0 /\ Behind = 0 /\ Skips = 0
    <2>1. Answers = (IF kexInitSent THEN 1 ELSE 0) /\ Waiting = 0 /\ Behind = 0
      BY <1>2 DEF Answers, Waiting, Behind
    <2>. QED  BY <1>3, <2>1 DEF Server, ServerKeys, KexNumbers
  <1>5. /\ Answers' = 1 /\ Waiting' = 1 /\ Behind' = 0
        /\ Skips' = IF p.arg = "wrong guess" THEN 1 ELSE 0
    BY <1>1 DEF Answers, Waiting, Behind, Skips, IgnoreNext
  <1>6. /\ AskedUp' = AskedUp /\ GivenUp' = GivenUp /\ Leading' = Leading /\ Seen' = Seen
        /\ Gone' = Gone
    BY <1>3, ClientStays
  <1>7. One(p, "newkeys") = 0 /\ One(p, "kexinit") = 1 /\ One(p, "kexdh") = 0
    BY DEF One
  <1>8. /\ Count(c2s, "newkeys") = 0 + Count(c2s', "newkeys")
        /\ Count(c2s, "kexinit") = 1 + Count(c2s', "kexinit")
        /\ Count(c2s, "kexdh") = 0 + Count(c2s', "kexdh")
        /\ Count(c2s', "newkeys") \in Nat /\ Count(c2s', "kexinit") \in Nat
        /\ Count(c2s', "kexdh") \in Nat
    BY <1>7 DEF Server, Arrived
  <1>9. Count(c2s', "kexinit") = 0 /\ AskedUp = 1 /\ cl.out = outKeys
    <2>1. cl.out <= outKeys
      BY <1>3 DEF ClientKeys
    <2>. QED  BY ONLY <1>3, <1>4, <1>8, <2>1 DEF KexNumbers, Upstream
  <1>10. Wrong = (IF p.arg = "wrong guess" THEN 1 ELSE 0) /\ Wrong' = 0
    <2>1. ~Misled(c2s')
      <3>1. Misled(c2s') => Count(c2s', "kexinit") > 0
        BY DEF Server, Arrived
      <3>2. Count(c2s', "kexinit") = 0
        BY <1>9
      <3>. QED  BY ONLY <3>1, <3>2
    <2>2. Misled(c2s) <=> p.arg = "wrong guess"
      BY <2>1 DEF Server, Arrived
    <2>. QED  BY <2>1, <2>2 DEF Wrong
  <1>11. UNCHANGED <<inKeys, outKeys>> /\ cl'.in = cl.in /\ cl'.out = cl.out
    BY <1>1, <1>3
  <1>12. ServerKeys'
    BY <1>1, <1>2, <1>4, <1>5 DEF Server, ServerKeys
  <1>13. ClientKeys'
    BY <1>1, <1>3, <1>6 DEF Server, ClientKeys
  <1>14. Upstream'
    <2>1. Wrong' = 0 /\ Skips' = Wrong
      <3>1. /\ Skips = 0 /\ Skips' = (IF p.arg = "wrong guess" THEN 1 ELSE 0)
            /\ Wrong = (IF p.arg = "wrong guess" THEN 1 ELSE 0) /\ Wrong' = 0
        BY <1>4, <1>5, <1>10
      <3>2. CASE p.arg = "wrong guess"
        <4>1. Skips = 0 /\ Skips' = 1 /\ Wrong = 1 /\ Wrong' = 0
          BY <3>1, <3>2, Zenon
        <4>. QED  BY ONLY <4>1
      <3>3. CASE p.arg # "wrong guess"
        <4>1. Skips = 0 /\ Skips' = 0 /\ Wrong = 0 /\ Wrong' = 0
          BY <3>1, <3>3, Zenon
        <4>. QED  BY ONLY <4>1
      <3>. QED  BY <3>2, <3>3
    <2>2. Upstream /\ KexNumbers /\ Waiting = 0 /\ Waiting' = 1
      BY <1>3, <1>4, <1>5
    <2>6. AskedUp' = AskedUp /\ GivenUp' = GivenUp
      BY <1>6
    <2>3. Count(c2s', "newkeys") + inKeys' = cl'.out
      BY ONLY <1>8, <1>11, <2>2 DEF KexNumbers, Upstream
    <2>4. Count(c2s', "kexinit") + outKeys' + Waiting' = cl'.out + AskedUp'
      BY ONLY <1>8, <1>11, <2>2, <2>6 DEF KexNumbers, Upstream
    <2>5. Count(c2s', "kexdh") + outKeys' = cl'.out + GivenUp' + Wrong' + Skips'
      <3>1. Skips = 0
        BY <1>4
      <3>2. /\ Count(c2s, "kexdh") + outKeys = cl.out + GivenUp + Wrong + Skips
            /\ outKeys' = outKeys /\ cl'.out = cl.out /\ GivenUp' = GivenUp
            /\ Count(c2s, "kexdh") = 0 + Count(c2s', "kexdh")
        BY <1>8, <1>11, <2>2, <2>6 DEF Upstream
      <3>3. /\ Count(c2s', "kexdh") \in Nat /\ outKeys \in Nat /\ cl.out \in Nat
            /\ GivenUp \in Nat /\ Wrong \in Nat
        BY ONLY <1>8, <2>2 DEF KexNumbers
      <3>. QED  BY ONLY <2>1, <3>1, <3>2, <3>3
    <2>. QED  BY <2>3, <2>4, <2>5 DEF Upstream
  <1>15. InOrderUp'
    <2>1. inKeys + One(p, "newkeys") = inKeys'
      <3>1. KexNumbers /\ One(p, "newkeys") = 0 /\ inKeys' = inKeys
        BY <1>3, <1>7, <1>11
      <3>. QED  BY ONLY <3>1 DEF KexNumbers
    <2>. QED  BY <2>1 DEF InOrderUp, Server, Arrived
  <1>16. ASSUME ~Gone' PROVE Downstream' /\ InOrderDown'
    <2>1. Downstream /\ InOrderDown /\ s2c \in Seq(Packet) /\ KexNumbers /\ s2c' = s2c \o tx'
      BY <1>6, <1>16 DEF Server, Wire
    <2>2. CASE kexInitSent
      <3>1. s2c' = s2c
        <4>1. tx' = <<>>
          BY <1>1, <2>2
        <4>. QED  BY ONLY <2>1, <4>1
      <3>2. Answers' = Answers
        BY <1>4, <1>5, <2>2
      <3>. QED  BY <1>6, <1>11, <2>1, <3>1, <3>2 DEF Downstream, InOrderDown
    <2>3. CASE ~kexInitSent
      <3>. DEFINE r == P("kexinit")
                  t == <<r>>
      <3>1. s2c' = s2c \o t
        BY <1>1, <2>1, <2>3
      <3>2. r \in Packet /\ r.msg = "kexinit" /\ r.key = outKeys
        BY DEF P, Sealed, Packet, ServerMsgs, KexMsgs, Server, KeyTypeOK
      <3>. HIDE DEF r
      <3>3. t \in Seq(Packet)
        BY ONLY <3>2
      <3>4. Count(s2c, "kexdh-reply") = 0
        BY ONLY <1>9, <2>1 DEF KexNumbers, Downstream
      <3>5. Follows(s2c, t, "kexinit", "kexdh-reply", "newkeys", outKeys)
        BY ONLY <2>1, <3>2, <3>4, PacketSized, OneFollows
      <3>6. \A m : Count(t, m) = One(r, m)
        BY ONLY <3>2, PacketSized, CountOne
      <3>. HIDE DEF t
      <3>7. Count(t, "kexinit") = 1 /\ Count(t, "kexdh-reply") = 0 /\ Count(t, "newkeys") = 0
        BY <3>2, <3>6 DEF One
      <3>8. /\ Count(s2c', "kexinit") = Count(s2c, "kexinit") + Count(t, "kexinit")
            /\ Count(s2c', "kexdh-reply") = Count(s2c, "kexdh-reply") + Count(t, "kexdh-reply")
            /\ Count(s2c', "newkeys") = Count(s2c, "newkeys") + Count(t, "newkeys")
            /\ Ordered(s2c', "kexinit", "kexdh-reply", "newkeys", cl.in)
        BY ONLY <2>1, <3>1, <3>3, <3>5, SendOrders
      <3>9. /\ Count(s2c', "kexinit") = Count(s2c, "kexinit") + 1
            /\ Count(s2c', "kexdh-reply") = Count(s2c, "kexdh-reply") + 0
            /\ Count(s2c', "newkeys") = Count(s2c, "newkeys") + 0
        BY <3>7, <3>8
      <3>10. Answers = 0 /\ Answers' = 1 /\ Seen' = Seen
        BY <1>4, <1>5, <1>6, <2>3
      <3>11. KexNumbers /\ Downstream
        BY <2>1
      <3>12. Downstream'
        BY ONLY <1>11, <3>9, <3>10, <3>11 DEF KexNumbers, Downstream
      <3>. QED  BY <1>3, <3>8, <3>12 DEF InOrderDown
    <2>. QED  BY <2>2, <2>3
  <1>. QED  BY <1>12, <1>13, <1>14, <1>15, <1>16

\* The client's NEWKEYS: the server's exchange is over.
LEMMA ServerTakesKeys ==
  ASSUME NEW p, Server(p), p.msg = "newkeys", RecvNewKeys
  PROVE  /\ ServerKeys' /\ ClientKeys' /\ Upstream' /\ InOrderUp'
         /\ ~Gone' => Downstream' /\ InOrderDown'
  <1>1. /\ kex' = "IDLE" /\ inKeys' = pendKeys
        /\ state' = (IF state = "KEX" THEN "AUTH" ELSE state)
        /\ tx' = <<>>
        /\ UNCHANGED <<kexInitSent, ignoreNextKexPacket, kexNo, outKeys>>
    BY DEF RecvNewKeys
  <1>2. kex = "WAIT_NEWKEYS" /\ state # "VERSION"
    BY DEF RecvNewKeys, Handles, Acceptable, KexExpected
  <1>3. cl' = cl /\ KexNumbers /\ Upstream /\ ClientKeys /\ ServerKeys
    BY DEF Server
  <1>4. Behind = 1 /\ Waiting = 0 /\ ~kexInitSent /\ Answers = 0 /\ Skips = 0
    <2>1. Behind = 1 /\ Waiting = 0
      BY <1>2 DEF Behind, Waiting
    <2>2. ~kexInitSent
      BY <1>2, <1>3 DEF ServerKeys
    <2>3. Skips = 0
      BY <1>3, <2>1 DEF ServerKeys, KexNumbers
    <2>. QED  BY <1>2, <2>1, <2>2, <2>3 DEF Answers
  <1>5. inKeys' = inKeys + 1 /\ inKeys' = outKeys /\ outKeys' = outKeys
    BY <1>1, <1>3, <1>4 DEF ServerKeys, KexNumbers
  <1>6. Behind' = 0 /\ Waiting' = 0 /\ Answers' = 0 /\ Skips' = 0
    <2>1. Skips' = Skips
      BY <1>1 DEF Skips
    <2>. QED  BY <1>1, <1>4, <2>1 DEF Behind, Waiting, Answers
  <1>7. /\ AskedUp' = AskedUp /\ GivenUp' = GivenUp /\ Leading' = Leading /\ Seen' = Seen
        /\ Gone' = Gone
    BY <1>3, ClientStays
  <1>8. One(p, "newkeys") = 1 /\ One(p, "kexinit") = 0 /\ One(p, "kexdh") = 0
    BY DEF One
  <1>9. /\ Count(c2s, "newkeys") = 1 + Count(c2s', "newkeys")
        /\ Count(c2s, "kexinit") = 0 + Count(c2s', "kexinit")
        /\ Count(c2s, "kexdh") = 0 + Count(c2s', "kexdh")
        /\ Count(c2s', "newkeys") \in Nat /\ Count(c2s', "kexinit") \in Nat
        /\ Count(c2s', "kexdh") \in Nat
    BY <1>8 DEF Server, Arrived
  <1>10. Wrong' = Wrong
    BY DEF Wrong, Server, Arrived
  <1>11. cl'.in = cl.in /\ cl'.out = cl.out
    BY <1>3
  <1>12. ServerKeys'
    <2>1. kexNo' = outKeys' /\ outKeys' = inKeys' + Behind'
      BY <1>1, <1>3, <1>5, <1>6 DEF ServerKeys, KexNumbers
    <2>. QED  BY <1>1, <1>2, <1>4, <1>6, <2>1 DEF ServerKeys
  <1>13. ClientKeys'
    BY <1>1, <1>3, <1>5, <1>7 DEF ClientKeys
  <1>14. Upstream'
    <2>1. Upstream /\ KexNumbers
      BY <1>3
    <2>2. Count(c2s', "newkeys") + inKeys' = cl'.out
      BY ONLY <1>5, <1>9, <1>11, <2>1 DEF KexNumbers, Upstream
    <2>3. Count(c2s', "kexinit") + outKeys' + Waiting' = cl'.out + AskedUp'
      BY ONLY <1>4, <1>5, <1>6, <1>7, <1>9, <1>11, <2>1 DEF KexNumbers, Upstream
    <2>4. Count(c2s', "kexdh") + outKeys' = cl'.out + GivenUp' + Wrong' + Skips'
      BY ONLY <1>4, <1>5, <1>6, <1>7, <1>9, <1>10, <1>11, <2>1 DEF KexNumbers, Upstream
    <2>. QED  BY <2>2, <2>3, <2>4 DEF Upstream
  <1>15. InOrderUp'
    <2>1. inKeys + One(p, "newkeys") = inKeys'
      BY <1>5, <1>8
    <2>. QED  BY <2>1 DEF InOrderUp, Server, Arrived
  <1>16. ASSUME ~Gone' PROVE Downstream' /\ InOrderDown'
    <2>1. s2c' = s2c
      BY <1>1 DEF Server, Wire
    <2>2. Downstream /\ InOrderDown
      BY <1>7, <1>16 DEF Server
    <2>3. Answers' = Answers
      BY <1>4, <1>6
    <2>. QED  BY <1>5, <1>7, <1>11, <2>1, <2>2, <2>3 DEF Downstream, InOrderDown
  <1>. QED  BY <1>12, <1>13, <1>14, <1>15, <1>16

\* DoKexDh's two packets at the end of a queue that holds no older NEWKEYS.
LEMMA RepliesFollow ==
  ASSUME s2c \in Seq(Packet), KeyTypeOK, Count(s2c, "newkeys") = 0
  PROVE  /\ KexReplies \in Seq(Packet)
         /\ Follows(s2c, KexReplies, "kexinit", "kexdh-reply", "newkeys", outKeys)
         /\ Count(KexReplies, "kexinit") = 0 /\ Count(KexReplies, "kexdh-reply") = 1
         /\ Count(KexReplies, "newkeys") = 1
  <1>. DEFINE p == P("kexdh-reply")
              r == P("newkeys")
              one == <<p>>
              two == <<p, r>>
  <1>1. /\ p \in Packet /\ p.msg = "kexdh-reply" /\ p.key = outKeys
        /\ r \in Packet /\ r.msg = "newkeys" /\ r.key = outKeys
    BY DEF P, Sealed, Packet, ServerMsgs, KexMsgs, KeyTypeOK
  <1>2. KexReplies = two
    BY DEF KexReplies
  <1>. HIDE DEF p, r
  <1>3. one \in Seq(Packet) /\ DOMAIN one = {1} /\ one[1] = p /\ Len(one) = 1
    BY ONLY <1>1
  <1>4. /\ two \in Seq(Packet) /\ DOMAIN two = {1, 2} /\ two[1] = p /\ two[2] = r
        /\ Len(two) = 2
    <2>1. p \in Packet /\ r \in Packet
      BY <1>1
    <2>2. two \in Seq(Packet) /\ DOMAIN two = {1, 2} /\ two[1] = p /\ two[2] = r
      BY ONLY <2>1
    <2>3. Len(two) = 2
      OBVIOUS
    <2>. QED  BY <2>2, <2>3
  <1>5. \A m : Count(two, m) = One(p, m) + One(r, m)
    <2>1. two = Append(one, r)
      OBVIOUS
    <2>2. \A m : Count(one, m) = One(p, m)
      BY ONLY <1>1, PacketSized, CountOne
    <2>3. \A m : Count(Append(one, r), m) = Count(one, m) + One(r, m)
      <3>. HIDE DEF one
      <3>. QED  BY ONLY <1>1, <1>3, PacketSized, CountAppend
    <2>. HIDE DEF one, two
    <2>. QED  BY ONLY <2>1, <2>2, <2>3
  <1>. HIDE DEF one, two
  <1>6. /\ One(p, "kexinit") = 0 /\ One(p, "kexdh-reply") = 1 /\ One(p, "newkeys") = 0
        /\ One(r, "kexinit") = 0 /\ One(r, "kexdh-reply") = 0 /\ One(r, "newkeys") = 1
    BY ONLY <1>1 DEF One
  <1>7. /\ Count(two, "kexinit") = 0 /\ Count(two, "kexdh-reply") = 1
        /\ Count(two, "newkeys") = 1
    BY ONLY <1>5, <1>6
  <1>8. Follows(s2c, two, "kexinit", "kexdh-reply", "newkeys", outKeys)
    <2>1. SealedWith(two, outKeys)
      BY ONLY <1>1, <1>4 DEF SealedWith
    <2>2. Lacks(two, "kexinit")
      BY ONLY <1>1, <1>4 DEF Lacks
    <2>3. Leads(two, "kexdh-reply", "newkeys")
      <3>1. two[1].msg # "newkeys" /\ two[2].msg # "kexdh-reply"
        BY ONLY <1>1, <1>4
      <3>2. \A i, j \in {1, 2} : i < j \/ i = 2 \/ j = 1
        OBVIOUS
      <3>. QED  BY ONLY <1>4, <3>1, <3>2 DEF Leads
    <2>4. Leads(two, "kexinit", "kexdh-reply")
      BY <2>2 DEF Leads, Lacks
    <2>5. \A i \in DOMAIN two : two[i].msg = "newkeys" => i = Len(two)
      BY ONLY <1>1, <1>4
    <2>. QED  BY <2>1, <2>2, <2>3, <2>4, <2>5 DEF Follows
  <1>. QED  BY <1>2, <1>4, <1>7, <1>8

\* KEXDH_INIT, answered with KEXDH_REPLY and NEWKEYS.
LEMMA ServerTakesDh ==
  ASSUME NEW p, Server(p), p.msg = "kexdh", NEW o \in {"ok", "closed"}, RecvKexDh(o), Open'
  PROVE  /\ ServerKeys' /\ ClientKeys' /\ Upstream' /\ InOrderUp'
         /\ ~Gone' => Downstream' /\ InOrderDown'
  <1>1. /\ kex' = "WAIT_NEWKEYS" /\ kexNo' = kexNo + 1 /\ outKeys' = kexNo + 1
        /\ pendKeys' = kexNo + 1 /\ tx' = KexReplies
        /\ UNCHANGED <<state, inKeys, kexInitSent, ignoreNextKexPacket>>
    BY DEF RecvKexDh, HashExchange, Open
  <1>2. kex = "WAIT_DH" /\ state # "VERSION" /\ ~ignoreNextKexPacket
    BY DEF RecvKexDh, Handles, Acceptable, KexExpected, Guessed
  <1>3. cl' = cl /\ KexNumbers /\ Upstream /\ ClientKeys /\ ServerKeys
    BY DEF Server
  <1>4. Behind = 0 /\ Waiting = 1 /\ ~kexInitSent /\ Answers = 1 /\ Skips = 0
    <2>1. Behind = 0 /\ Waiting = 1 /\ Skips = 0 /\ Answers = 1
      BY <1>2 DEF Behind, Waiting, Skips, Answers
    <2>2. ~kexInitSent
      BY <1>2, <1>3 DEF ServerKeys
    <2>. QED  BY <2>1, <2>2
  <1>5. /\ outKeys' = outKeys + 1 /\ inKeys' = inKeys /\ outKeys = inKeys /\ outKeys = kexNo
        /\ outKeys \in Nat /\ inKeys \in Nat
    BY <1>1, <1>3, <1>4 DEF ServerKeys, KexNumbers
  <1>6. Behind' = 1 /\ Waiting' = 0 /\ Answers' = 0 /\ Skips' = 0
    <2>1. Skips' = Skips
      BY <1>1 DEF Skips
    <2>. QED  BY <1>1, <1>4, <2>1 DEF Behind, Waiting, Answers
  <1>7. /\ AskedUp' = AskedUp /\ GivenUp' = GivenUp /\ Leading' = Leading /\ Seen' = Seen
        /\ Gone' = Gone
    BY <1>3, ClientStays
  <1>8. One(p, "newkeys") = 0 /\ One(p, "kexinit") = 0 /\ One(p, "kexdh") = 1
    BY DEF One
  <1>9. /\ Count(c2s, "newkeys") = 0 + Count(c2s', "newkeys")
        /\ Count(c2s, "kexinit") = 0 + Count(c2s', "kexinit")
        /\ Count(c2s, "kexdh") = 1 + Count(c2s', "kexdh")
        /\ Count(c2s', "newkeys") \in Nat /\ Count(c2s', "kexinit") \in Nat
        /\ Count(c2s', "kexdh") \in Nat
        /\ Count(c2s, "kexinit") = 0
    BY <1>8 DEF Server, Arrived
  <1>10. Wrong' = Wrong
    BY DEF Wrong, Server, Arrived
  <1>11. cl'.in = cl.in /\ cl'.out = cl.out
    BY <1>3
  <1>12. AskedUp = 1 /\ cl.out = outKeys /\ cl.in = outKeys
    <2>1. cl.out <= outKeys /\ cl.out = cl.in + Leading
      BY <1>3 DEF ClientKeys
    <2>2. AskedUp = 1 /\ cl.out = outKeys
      BY ONLY <1>3, <1>4, <1>9, <2>1 DEF KexNumbers, Upstream
    <2>3. Leading = 0
      BY <2>2 DEF AskedUp, Leading
    <2>. QED  BY ONLY <1>3, <2>1, <2>2, <2>3 DEF KexNumbers
  <1>13. ServerKeys'
    <2>1. kexNo' = outKeys' /\ outKeys' = inKeys' + Behind' /\ pendKeys' = outKeys'
      BY <1>1, <1>5, <1>6
    <2>2. kexInitSent' = FALSE
      BY <1>1, <1>4 DEF Server, KexTypeOK
    <2>3. state' \in {"VERSION", "KEX"} => inKeys' = 0
      BY <1>1, <1>3 DEF ServerKeys
    <2>. QED  BY <1>1, <1>2, <1>6, <2>1, <2>2, <2>3 DEF ServerKeys
  <1>14. ClientKeys'
    <2>1. cl'.out <= outKeys'
      BY <1>5, <1>11, <1>12
    <2>. QED  BY <1>3, <1>7, <2>1 DEF ClientKeys
  <1>15. Upstream'
    <2>1. Upstream /\ KexNumbers
      BY <1>3
    <2>2. Count(c2s', "newkeys") + inKeys' = cl'.out
      BY ONLY <1>5, <1>9, <1>11, <2>1 DEF KexNumbers, Upstream
    <2>3. Count(c2s', "kexinit") + outKeys' + Waiting' = cl'.out + AskedUp'
      BY ONLY <1>4, <1>5, <1>6, <1>7, <1>9, <1>11, <2>1 DEF KexNumbers, Upstream
    <2>4. Count(c2s', "kexdh") + outKeys' = cl'.out + GivenUp' + Wrong' + Skips'
      BY ONLY <1>4, <1>5, <1>6, <1>7, <1>9, <1>10, <1>11, <2>1 DEF KexNumbers, Upstream
    <2>. QED  BY <2>2, <2>3, <2>4 DEF Upstream
  <1>16. InOrderUp'
    <2>1. inKeys + One(p, "newkeys") = inKeys'
      BY <1>5, <1>8
    <2>. QED  BY <2>1 DEF InOrderUp, Server, Arrived
  <1>17. ASSUME ~Gone' PROVE Downstream' /\ InOrderDown'
    <2>1. /\ Downstream /\ InOrderDown /\ s2c \in Seq(Packet) /\ KexNumbers /\ KeyTypeOK
          /\ s2c' = s2c \o KexReplies
      BY <1>1, <1>7, <1>17 DEF Server, Wire
    <2>2. Count(s2c, "newkeys") = 0
      <3>1. KexNumbers /\ Downstream /\ cl.in = outKeys
        BY <1>12, <2>1
      <3>. QED  BY ONLY <3>1 DEF KexNumbers, Downstream
    <2>3. /\ KexReplies \in Seq(Packet)
          /\ Follows(s2c, KexReplies, "kexinit", "kexdh-reply", "newkeys", outKeys)
          /\ Count(KexReplies, "kexinit") = 0 /\ Count(KexReplies, "kexdh-reply") = 1
          /\ Count(KexReplies, "newkeys") = 1
      BY ONLY <2>1, <2>2, RepliesFollow
    <2>4. /\ Count(s2c', "kexinit") = Count(s2c, "kexinit") + Count(KexReplies, "kexinit")
          /\ Count(s2c', "kexdh-reply")
               = Count(s2c, "kexdh-reply") + Count(KexReplies, "kexdh-reply")
          /\ Count(s2c', "newkeys") = Count(s2c, "newkeys") + Count(KexReplies, "newkeys")
          /\ Ordered(s2c', "kexinit", "kexdh-reply", "newkeys", cl.in)
      BY ONLY <2>1, <2>3, SendOrders
    <2>5. /\ Count(s2c', "kexinit") = Count(s2c, "kexinit") + 0
          /\ Count(s2c', "kexdh-reply") = Count(s2c, "kexdh-reply") + 1
          /\ Count(s2c', "newkeys") = Count(s2c, "newkeys") + 1
      BY <2>3, <2>4
    <2>6. KexNumbers /\ Downstream /\ Seen' = Seen
      BY <1>7, <2>1
    <2>7. Downstream'
      BY ONLY <1>4, <1>5, <1>6, <1>11, <2>5, <2>6 DEF KexNumbers, Downstream
    <2>. QED  BY <1>3, <2>4, <2>7 DEF InOrderDown
  <1>. QED  BY <1>13, <1>14, <1>15, <1>16, <1>17

\* What the server may send outside of an exchange.
LEMMA NoKexOnWire ==
  ASSUME NEW M, M \subseteq SessionMsgs \cup {"version", "disconnect"}, OnWire(M)
  PROVE  OnWire(ServerMsgs \ KexMsgs)
  <1>1. SessionMsgs \cup {"version", "disconnect"} \subseteq ServerMsgs \ KexMsgs
    BY DEF SessionMsgs, ServerMsgs, KexMsgs
  <1>. QED  BY <1>1, OnWireMore

\* The handlers of the login, the channel and the end but for HandleUserauth,
LEMMA HandlersAnswer ==
  ASSUME NEW o,
         \/ RecvServiceRequest(o)
         \/ \E win, maxPkt : RecvChannelOpen(TRUE, win, maxPkt, o)
         \/ \E type, d : RecvChannelRequest(type, d, d, TRUE, o)
         \/ \E n : RecvData(n) \/ RecvWindowAdjust(n)
         \/ RecvEof \/ RecvClose(o) \/ RecvDisconnect
  PROVE  /\ Open /\ UNCHANGED <<kexVars, keyVars>> /\ OnWire(SessionMsgs)
         /\ state' \in {state, "CLOSED"}
  <1>. DEFINE Good == /\ Open /\ UNCHANGED <<kexVars, keyVars>> /\ OnWire(SessionMsgs)
                      /\ state' \in {state, "CLOSED"}
  <1>0. /\ {"service-accept"} \subseteq SessionMsgs /\ {"open-confirm"} \subseteq SessionMsgs
        /\ {"open-failure"} \subseteq SessionMsgs /\ {"request-success"} \subseteq SessionMsgs
        /\ {"request-failure"} \subseteq SessionMsgs /\ {"close"} \subseteq SessionMsgs
        /\ {} \subseteq SessionMsgs
    BY DEF SessionMsgs
  <1>1. CASE RecvServiceRequest(o)
    <2>1. Onward /\ OnWire({"service-accept"})
      BY <1>1, POnward DEF RecvServiceRequest
    <2>2. OnWire(SessionMsgs)
      BY <1>0, <2>1, OnWireMore
    <2>. QED  BY <1>1, <2>1, <2>2 DEF RecvServiceRequest, Handles, Reading, Open, Onward
  <1>3. ASSUME NEW win, NEW maxPkt, RecvChannelOpen(TRUE, win, maxPkt, o) PROVE Good
    <2>1. Onward /\ (OnWire({"open-confirm"}) \/ OnWire({"open-failure"}))
      BY <1>3, SendOnward, POnward DEF RecvChannelOpen
    <2>2. OnWire(SessionMsgs)
      BY <1>0, <2>1, OnWireMore
    <2>. QED  BY <1>3, <2>1, <2>2 DEF RecvChannelOpen, Handles, Reading, Open, Onward
  <1>4. ASSUME NEW type, NEW d, RecvChannelRequest(type, d, d, TRUE, o) PROVE Good
    <2>. DEFINE m == IF type = "other" THEN "request-failure" ELSE "request-success"
    <2>1. Onward /\ OnWire({m})
      BY <1>4, POnward DEF RecvChannelRequest
    <2>2. {m} \subseteq SessionMsgs
      BY <1>0
    <2>. HIDE DEF m
    <2>3. OnWire(SessionMsgs)
      BY <2>1, <2>2, OnWireMore
    <2>. QED  BY <1>4, <2>1, <2>3 DEF RecvChannelRequest, Handles, Reading, Open, Onward
  <1>5. ASSUME NEW n, RecvData(n) \/ RecvWindowAdjust(n) PROVE Good
    <2>1. Onward /\ OnWire({})
      BY <1>5, QuietOnward DEF RecvData, RecvWindowAdjust
    <2>2. OnWire(SessionMsgs)
      BY <1>0, <2>1, OnWireMore
    <2>. QED  BY <1>5, <2>1, <2>2
              DEF RecvData, RecvWindowAdjust, Handles, Reading, Open, Onward
  <1>6. CASE RecvEof
    <2>1. Onward /\ OnWire({})
      BY <1>6, QuietOnward DEF RecvEof
    <2>2. OnWire(SessionMsgs)
      BY <1>0, <2>1, OnWireMore
    <2>. QED  BY <1>6, <2>1, <2>2 DEF RecvEof, Handles, Reading, Open, Onward
  <1>7. CASE RecvClose(o)
    <2>1. Onward
      BY <1>7, QuietOnward, ReturnOnward DEF RecvClose
    <2>2. tx' \in {<<>>, <<P("close")>>}
      BY <1>7 DEF RecvClose, Quiet
    <2>3. OnWire({"close"})
      BY <2>2 DEF OnWire, P, Sealed
    <2>4. OnWire(SessionMsgs)
      BY <1>0, <2>3, OnWireMore
    <2>. QED  BY <1>7, <2>1, <2>4 DEF RecvClose, Handles, Reading, Open, Onward
  <1>8. CASE RecvDisconnect
    <2>1. tx' = <<>> /\ state' = "CLOSED"
      BY <1>8 DEF RecvDisconnect
    <2>2. OnWire(SessionMsgs)
      BY <2>1 DEF OnWire
    <2>. QED  BY <1>8, <2>1, <2>2 DEF RecvDisconnect, Handles, Reading, Open
  <1>. QED  BY <1>1, <1>3, <1>4, <1>5, <1>6, <1>7, <1>8

\* HandleUserauth itself,
LEMMA UserauthAnswers ==
  ASSUME NEW o, NEW try, RecvUserauth(try, o)
  PROVE  /\ Open /\ UNCHANGED <<kexVars, keyVars>> /\ state' \in {state, "CLOSED", "CONN"}
         /\ \/ OnWire(SessionMsgs)
            \/ OnWire({"disconnect"}) /\ authTries' = authTries + 1 /\ NoMoreTries(authTries')
  <1>0. /\ {"auth-failure"} \subseteq SessionMsgs /\ {"auth-success"} \subseteq SessionMsgs
        /\ {} \subseteq SessionMsgs
    BY DEF SessionMsgs
  <1>1. Open /\ UNCHANGED <<kexVars, keyVars>>
    BY DEF RecvUserauth, Handles, Reading, Open
  <1>2. CASE Quiet
    <2>1. OnWire({})
      BY <1>2, QuietOnward
    <2>2. OnWire(SessionMsgs)
      BY <1>0, <2>1, OnWireMore
    <2>. QED  BY <1>1, <1>2, <2>2 DEF Quiet
  <1>3. CASE SendPacket(state, P("auth-failure"), o)
    <2>1. Onward /\ OnWire({"auth-failure"})
      BY <1>3, POnward
    <2>2. OnWire(SessionMsgs)
      BY <1>0, <2>1, OnWireMore
    <2>. QED  BY <1>1, <2>1, <2>2 DEF Onward
  <1>4. CASE Disconnect(<<>>, o) /\ authTries' = authTries + 1 /\ NoMoreTries(authTries')
    <2>1. Onward /\ OnWire({"disconnect"})
      BY <1>4, DisconnectOnward
    <2>. QED  BY <1>1, <1>4, <2>1 DEF Onward
  <1>5. CASE SendPacket("CONN", P("auth-success"), o)
    <2>1. OnWire({"auth-success"}) /\ state' \in {"CONN", "CLOSED"}
      BY <1>5 DEF SendPacket, OnWire, P, Sealed
    <2>2. OnWire(SessionMsgs)
      BY <1>0, <2>1, OnWireMore
    <2>. QED  BY <1>1, <2>1, <2>2
  <1>. QED  BY <1>2, <1>3, <1>4, <1>5 DEF RecvUserauth

\* all of them,
LEMMA HandlersBeside ==
  ASSUME NEW o,
         \/ RecvServiceRequest(o)
         \/ \E try : RecvUserauth(try, o)
         \/ \E win, maxPkt : RecvChannelOpen(TRUE, win, maxPkt, o)
         \/ \E type, d : RecvChannelRequest(type, d, d, TRUE, o)
         \/ \E n : RecvData(n) \/ RecvWindowAdjust(n)
         \/ RecvEof \/ RecvClose(o) \/ RecvDisconnect
  PROVE  /\ Open /\ UNCHANGED <<kexVars, keyVars>> /\ OnWire(ServerMsgs \ KexMsgs)
         /\ state' \in {state, "CLOSED", "CONN"}
  <1>1. /\ Open /\ UNCHANGED <<kexVars, keyVars>> /\ state' \in {state, "CLOSED", "CONN"}
        /\ OnWire(SessionMsgs) \/ OnWire({"disconnect"})
    BY HandlersAnswer, UserauthAnswers
  <1>2. OnWire(ServerMsgs \ KexMsgs)
    BY <1>1, NoKexOnWire
  <1>. QED  BY <1>1, <1>2

\* and the calls.
LEMMA CallsBeside ==
  ASSUME NEW o, Calls(o) \/ CallsSilently
  PROVE  /\ UNCHANGED <<kexVars, keyVars>> /\ OnWire(ServerMsgs \ KexMsgs)
         /\ state' \in {state, "CLOSED"}
  <1>1. UNCHANGED <<kexVars, keyVars>>
    BY DEF Calls, CallsSilently, AcceptStart, AcceptTimeout, Read, WriteChunk, CloseStart,
           CloseEnd, AcceptReturn, WriteStart, WriteWait, WriteResume, WriteFail, CloseWaited
  <1>2. state' \in {state, "CLOSED"}
    BY CallsMove DEF CallMoves
  <1>3. OnWire(ServerMsgs \ KexMsgs)
    <2>1. \/ OnWire({}) \/ OnWire({"version", "disconnect"}) \/ OnWire({"data", "adjust"})
          \/ OnWire({"exit-status", "eof", "close"})
      BY WireCalls, WireSilently
    <2>2. /\ {"data", "adjust"} \subseteq SessionMsgs
          /\ {"exit-status", "eof", "close"} \subseteq SessionMsgs
      BY DEF SessionMsgs
    <2>. QED  BY <2>1, <2>2, NoKexOnWire
  <1>. QED  BY <1>1, <1>2, <1>3

\* A packet of the client's, whatever it is.
LEMMA ServerTakesAny ==
  ASSUME Sound, Exchange, cl' = cl, tx' \in Seq(Packet), NEW o \in {"ok", "closed"},
         ServerReceives(o)
  PROVE  Exchange'
  <1>. SUFFICES ASSUME Open' PROVE Exchange'
    BY DEF Exchange
  <1>. DEFINE p == Head(c2s)
  <1>1. c2s # <<>> /\ c2s' = Tail(c2s) /\ Handle(p, o) /\ Wire
    BY DEF ServerReceives
  <1>2. p \in Upward
    BY <1>1, HeadTailProperties DEF Sound, Queued
  <1>. HIDE DEF p
  <1>3. \/ p.msg = "version" /\ RecvVersion("ssh2", o)
        \/ p.msg = "kexdh" /\ SkipGuessed("kexdh")
        \/ p.msg # "version" /\ Dispatch(p, o)
    <2>1. ~ \E m, w : RejectPacket(m, w, o)
      BY DEF RejectPacket, Disconnect, Open
    <2>. QED  BY <1>1, <1>2, <2>1, Handling
  <1>. DEFINE Exchanges ==
                \/ p.msg = "version" /\ RecvVersion("ssh2", o)
                \/ p.msg = "kexdh" /\ SkipGuessed("kexdh")
                \/ /\ p.msg = "kexinit" /\ p.arg \in {"match", "wrong guess"}
                   /\ RecvKexInit(p.arg, o)
                \/ p.msg = "kexdh" /\ RecvKexDh(o)
                \/ p.msg = "newkeys" /\ RecvNewKeys
              Passes ==
                /\ p.msg \notin {"newkeys", "kexinit", "kexdh"}
                /\ \/ RecvServiceRequest(o)
                   \/ \E try : RecvUserauth(try, o)
                   \/ \E win, maxPkt : RecvChannelOpen(TRUE, win, maxPkt, o)
                   \/ \E type, d : RecvChannelRequest(type, d, d, TRUE, o)
                   \/ \E n : RecvData(n) \/ RecvWindowAdjust(n)
                   \/ RecvEof \/ RecvClose(o) \/ RecvDisconnect
  <1>4. Exchanges \/ Passes
    <2>1. ASSUME p.msg # "version", Dispatch(p, o) PROVE Exchanges \/ Passes
      BY <1>2, <2>1, Dispatching
    <2>. QED  BY <1>3, <2>1
  <1>5. Open => Arrived(p)
    <2>1. Open => Arrived(Head(c2s))
      BY <1>1, ServerFront
    <2>. QED  BY <2>1 DEF p
  <1>6. CASE Exchanges
    <2>1. Open
      <3>1. Reading
        BY <1>6 DEF RecvVersion, SkipGuessed, RecvKexInit, RecvKexDh, RecvNewKeys, Handles
      <3>. QED  BY <3>1 DEF Reading, Open
    <2>2. Server(p)
      BY <1>1, <1>5, <2>1, SoundNumbers
         DEF Server, Exchange, Sound, SessionTypeOK, TypeOK
    <2>3. /\ ServerKeys' /\ ClientKeys' /\ Upstream' /\ InOrderUp'
          /\ ~Gone' => Downstream' /\ InOrderDown'
      <3>1. CASE p.msg = "version" /\ RecvVersion("ssh2", o)
        BY <2>2, <3>1, ServerTakesVersion
      <3>2. CASE p.msg = "kexdh" /\ SkipGuessed("kexdh")
        BY <2>2, <3>2, ServerSkips
      <3>3. CASE /\ p.msg = "kexinit" /\ p.arg \in {"match", "wrong guess"}
                 /\ RecvKexInit(p.arg, o)
        BY <2>2, <3>3, ServerTakesInit
      <3>4. CASE p.msg = "kexdh" /\ RecvKexDh(o)
        BY <2>2, <3>4, ServerTakesDh
      <3>5. CASE p.msg = "newkeys" /\ RecvNewKeys
        BY <2>2, <3>5, ServerTakesKeys
      <3>. QED  BY <1>6, <3>1, <3>2, <3>3, <3>4, <3>5
    <2>. QED  BY <2>3 DEF Exchange
  <1>7. CASE Passes
    <2>1. /\ Open /\ UNCHANGED <<kexVars, keyVars>> /\ OnWire(ServerMsgs \ KexMsgs)
          /\ state' \in {state, "CLOSED", "CONN"}
      BY <1>7, HandlersBeside
    <2>2. UpKept
      BY <1>5, <1>7, <2>1, SoundNumbers, UpPasses
    <2>. QED  BY <1>1, <2>1, <2>2, ServerBeside
  <1>. QED  BY <1>4, <1>6, <1>7

LEMMA ServerExchanges ==
  ASSUME Sound, Exchange, TypeOK', "local" \notin Faults, ServerStep
  PROVE  Exchange'
  <1>0. cl' = cl /\ tx' \in Seq(Packet)
    BY DEF ServerStep, TypeOK, CallTypeOK
  <1>1. \A o \in Faults : o \in {"ok", "closed"}
    BY SessionAssumption DEF SendResults
  <1>2. CASE ServerLosesClient
    BY <1>2 DEF ServerLosesClient, ConnectionLost, Exchange, Open
  <1>3. ASSUME NEW o \in Faults, ServerReceives(o) PROVE Exchange'
    <2>1. o \in {"ok", "closed"}
      BY <1>1
    <2>. QED  BY <1>0, <1>3, <2>1, ServerTakesAny
  <1>4. ASSUME NEW o, Calls(o) \/ CallsSilently, Wire, c2s' = c2s PROVE Exchange'
    <2>1. /\ UNCHANGED <<kexVars, keyVars>> /\ OnWire(ServerMsgs \ KexMsgs)
          /\ state' \in {state, "CLOSED"}
      BY <1>4, CallsBeside
    <2>2. Open' => Open
      BY <2>1 DEF Open
    <2>3. Open' => UpKept
      BY <1>4, <2>2, UpStays
    <2>. QED  BY <1>0, <1>4, <2>1, <2>2, <2>3, ServerBeside
  <1>5. ASSUME NEW n \in WriteSizes, ServerStartsWrite(n) PROVE Exchange'
    BY <1>4, <1>5 DEF ServerStartsWrite, CallsSilently
  <1>6. ASSUME NEW o \in Faults,
               ServerAccepts(o) \/ ServerReads(o) \/ ServerWrites(o) \/ ServerEndsClose(o)
        PROVE  Exchange'
    <2>1. (Calls(o) \/ CallsSilently) /\ Wire /\ c2s' = c2s
      BY <1>6 DEF ServerAccepts, ServerReads, ServerWrites, ServerEndsClose, Calls, CallsSilently
    <2>. QED  BY <1>4, <2>1
  <1>7. ASSUME NEW o \in Faults, ServerStartsClose(o) PROVE Exchange'
    <2>. DEFINE sent == IF o = "ok" THEN {"exit-status", "eof", "close"} ELSE {}
    <2>1. CloseStart(sent, o) /\ Wire /\ c2s' = c2s
      BY <1>7 DEF ServerStartsClose
    <2>2. sent \in SUBSET {"exit-status", "eof", "close"}
      OBVIOUS
    <2>. HIDE DEF sent
    <2>3. Calls(o)
      BY <2>1, <2>2 DEF Calls
    <2>. QED  BY <1>4, <2>1, <2>3
  <1>. QED  BY <1>2, <1>3, <1>5, <1>6, <1>7 DEF ServerStep
-----------------------------------------------------------------------------
(* The theorems *)

LEMMA SessionInitExchanges == SessionInit => Exchange
  <1>. SUFFICES ASSUME SessionInit PROVE Exchange
    OBVIOUS
  <1>1. c2s = <<>> /\ s2c = <<>>
    BY DEF SessionInit
  <1>2. /\ state = "VERSION" /\ kex = "IDLE" /\ kexInitSent = FALSE
        /\ ignoreNextKexPacket = FALSE
        /\ kexNo = 0 /\ inKeys = 0 /\ outKeys = 0 /\ pendKeys = 0
    BY DEF SessionInit, Init
  <1>3. cl.kex = "idle" /\ cl.peerInit = FALSE /\ cl.out = 0 /\ cl.in = 0
    BY DEF SessionInit
  <1>4. \A m : Count(c2s, m) = 0 /\ Count(s2c, m) = 0
    BY <1>1, CountEmpty
  <1>5. /\ AskedUp = 0 /\ GivenUp = 0 /\ Leading = 0 /\ Seen = 0 /\ Answers = 0
        /\ Waiting = 0 /\ Behind = 0 /\ Skips = 0
    BY <1>2, <1>3 DEF AskedUp, GivenUp, Leading, Seen, Answers, Waiting, Behind, Skips
  <1>6. Wrong = 0
    <2>1. ~Misled(<<>>)
      BY DEF Misled
    <2>. QED  BY <1>1, <2>1 DEF Wrong
  <1>7. ASSUME NEW a, NEW b, NEW c, NEW k PROVE Ordered(<<>>, a, b, c, k)
    BY DEF Ordered, Leads, Keyed
  <1>8. InOrderUp /\ InOrderDown
    BY <1>1, <1>7 DEF InOrderUp, InOrderDown
  <1>9. ServerKeys /\ ClientKeys
    BY <1>2, <1>3, <1>5 DEF ServerKeys, ClientKeys
  <1>10. Upstream /\ Downstream
    BY <1>2, <1>3, <1>4, <1>5, <1>6 DEF Upstream, Downstream
  <1>. QED  BY <1>8, <1>9, <1>10 DEF Exchange

LEMMA ExchangeStill == ASSUME Exchange, UNCHANGED sessionVars PROVE Exchange'
  <1>1. UNCHANGED <<state, kexVars, keyVars, c2s, s2c, cl>>
    BY DEF sessionVars, vars
  <1>2. UNCHANGED <<state, kex, kexInitSent, ignoreNextKexPacket, kexNo, inKeys, outKeys,
                    pendKeys, c2s, s2c, cl>>
    BY <1>1 DEF kexVars, keyVars
  <1>3. /\ AskedUp' = AskedUp /\ GivenUp' = GivenUp /\ Leading' = Leading /\ Seen' = Seen
        /\ Answers' = Answers /\ Waiting' = Waiting /\ Behind' = Behind /\ Skips' = Skips
        /\ Wrong' = Wrong
    BY <1>2 DEF AskedUp, GivenUp, Leading, Seen, Answers, Waiting, Behind, Skips, Wrong
  <1>4. (ServerKeys' <=> ServerKeys) /\ (ClientKeys' <=> ClientKeys)
    BY <1>2, <1>3 DEF ServerKeys, ClientKeys
  <1>5. (Upstream' <=> Upstream) /\ (Downstream' <=> Downstream)
    BY <1>2, <1>3 DEF Upstream, Downstream
  <1>6. (InOrderUp' <=> InOrderUp) /\ (InOrderDown' <=> InOrderDown)
    BY <1>2 DEF InOrderUp, InOrderDown
  <1>7. (Open' <=> Open) /\ (Gone' <=> Gone)
    BY <1>2 DEF Open, Gone
  <1>. QED  BY <1>4, <1>5, <1>6, <1>7 DEF Exchange

Agreed == Sound /\ Exchange

LEMMA AgreedStep ==
  ASSUME "local" \notin Faults, Agreed, [SessionNext]_sessionVars
  PROVE  Agreed'
  <1>. Sound /\ Exchange
    BY DEF Agreed
  <1>1. CASE ClientStep
    BY <1>1, ClientSound, ClientExchanges DEF Agreed
  <1>2. CASE ServerStep
    <2>1. Sound'
      BY <1>2, ServerSound
    <2>2. TypeOK'
      BY <2>1 DEF Sound, SessionTypeOK
    <2>3. Exchange'
      BY <1>2, <2>2, ServerExchanges
    <2>. QED  BY <2>1, <2>3 DEF Agreed
  <1>3. CASE UNCHANGED sessionVars
    BY <1>3, SessionStill, ExchangeStill DEF Agreed
  <1>. QED  BY <1>1, <1>2, <1>3 DEF SessionNext, SessionOver

LEMMA AgreedAlways == ASSUME "local" \notin Faults PROVE SessionSpec => []Agreed
  <1>1. SessionInit => Agreed
    BY SessionInitSound, SessionInitExchanges DEF Agreed
  <1>2. Agreed /\ [SessionNext]_sessionVars => Agreed'
    BY AgreedStep
  <1>. QED  BY <1>1, <1>2, PTL DEF SessionSpec

LEMMA AgreedKeysMatch == Agreed => KeysMatchStream
  <1>. SUFFICES ASSUME Agreed, Alive PROVE
         /\ \A i \in DOMAIN s2c :
              s2c[i].key = cl.in + Count(SubSeq(s2c, 1, i - 1), "newkeys")
         /\ \A i \in DOMAIN c2s :
              c2s[i].key = IF Count(SubSeq(c2s, 1, i - 1), "newkeys") = 0 THEN inKeys
                           ELSE pendKeys
    BY DEF KeysMatchStream
  <1>1. /\ ServerKeys /\ ClientKeys /\ Upstream /\ InOrderUp /\ Downstream /\ InOrderDown
        /\ KexNumbers /\ c2s \in Seq(ClientPacket)
    BY SoundNumbers DEF Agreed, Exchange, Alive, Open, Gone, Sound, SessionTypeOK
  <1>2. Keyed(s2c, cl.in) /\ Keyed(c2s, inKeys)
    BY <1>1 DEF InOrderUp, InOrderDown, Ordered
  <1>3. ASSUME NEW i \in DOMAIN c2s
        PROVE  c2s[i].key = IF Count(SubSeq(c2s, 1, i - 1), "newkeys") = 0 THEN inKeys
                            ELSE pendKeys
    <2>. DEFINE before == Count(SubSeq(c2s, 1, i - 1), "newkeys")
                all == Count(c2s, "newkeys")
    <2>1. c2s[i].key = inKeys + before
      BY <1>2 DEF Keyed
    <2>2. before \in Nat /\ before <= all
      BY ONLY <1>1, <1>3, ClientPacketSized, CountFront
    <2>3. all + inKeys = cl.out /\ all \in Nat
      BY <1>1 DEF Upstream, KexNumbers
    <2>. HIDE DEF before, all
    <2>4. CASE before = 0
      BY <1>1, <2>1, <2>4 DEF KexNumbers, before
    <2>5. CASE before # 0
      <3>1. cl.out <= outKeys /\ outKeys = inKeys + Behind /\ Behind \in {0, 1}
        BY <1>1 DEF ClientKeys, ServerKeys, KexNumbers
      <3>2. inKeys \in Nat /\ outKeys \in Nat /\ cl.out \in Nat
        BY <1>1 DEF KexNumbers
      <3>3. Behind = 1 /\ before = 1
        BY ONLY <2>2, <2>3, <2>5, <3>1, <3>2
      <3>4. pendKeys = inKeys + before
        BY <1>1, <3>1, <3>3 DEF ServerKeys
      <3>. QED  BY <2>1, <2>5, <3>4 DEF before
    <2>. QED  BY <2>4, <2>5
  <1>. QED  BY <1>2, <1>3 DEF Keyed

\* As long as no SendPacket fails inside the server, every packet under way is sealed
\* with the keys its receiver will hold when the packet's turn comes: DoKexDh and
\* ApplyNewKeys switch the directions exactly where the NEWKEYS packets are, over any
\* number of exchanges and for every guess.
THEOREM KeysMatchTheorem ==
  ASSUME "local" \notin Faults PROVE SessionSpec => []KeysMatchStream
  BY AgreedKeysMatch, AgreedAlways, PTL
-----------------------------------------------------------------------------
(* No packet of the client is rejected *)

\* Each packet of an exchange finds the server where it is expected,
LEMMA TakesExpected ==
  ASSUME Sound, Exchange, Open, NEW p, Arrived(p), ~Guessed(p.msg)
  PROVE  KexExpected(p.msg)
  <1>1. ServerKeys /\ ClientKeys /\ Upstream /\ KexNumbers /\ KexTypeOK
    BY SoundNumbers DEF Exchange, Sound, SessionTypeOK, TypeOK
  <1>2. /\ outKeys = inKeys + Behind /\ cl.out <= outKeys
        /\ inKeys \in Nat /\ outKeys \in Nat /\ cl.out \in Nat
        /\ Behind \in {0, 1} /\ Waiting \in {0, 1}
        /\ AskedUp \in {0, 1} /\ GivenUp \in {0, 1}
    BY <1>1 DEF ServerKeys, ClientKeys, KexNumbers
  <1>3. /\ Count(c2s, "newkeys") + inKeys = cl.out
        /\ Count(c2s, "kexinit") + outKeys + Waiting = cl.out + AskedUp
        /\ Count(c2s, "kexdh") + outKeys = cl.out + GivenUp + Wrong + Skips
    BY <1>1 DEF Upstream
  <1>4. /\ Count(c2s, "newkeys") \in Nat /\ Count(c2s, "kexinit") \in Nat
        /\ Count(c2s, "kexdh") \in Nat
    BY <1>1 DEF KexNumbers
  <1>5. CASE p.msg = "kexinit"
    <2>1. Count(c2s, "newkeys") = 0 /\ Count(c2s, "kexinit") = 1 + Count(c2s', "kexinit")
          /\ Count(c2s', "kexinit") \in Nat
      BY <1>5 DEF Arrived, One
    <2>2. Waiting = 0 /\ Behind = 0
      BY ONLY <1>2, <1>3, <2>1
    <2>. QED  BY <1>1, <1>5, <2>2 DEF Waiting, Behind, KexExpected, KexTypeOK, KexStates
  <1>6. CASE p.msg = "kexdh"
    <2>1. Count(c2s, "kexinit") = 0 /\ Count(c2s, "kexdh") = 1 + Count(c2s', "kexdh")
          /\ Count(c2s', "kexdh") \in Nat
      BY <1>6 DEF Arrived, One
    <2>2. Skips = 0
      BY <1>6 DEF Skips, Guessed
    <2>3. Wrong = 0
      <3>1. ~Misled(c2s)
        <4>1. Misled(c2s) => Count(c2s, "kexinit") > 0
          BY DEF Arrived
        <4>. QED  BY ONLY <2>1, <4>1
      <3>. QED  BY <3>1 DEF Wrong
    <2>4. GivenUp = 1 /\ outKeys = cl.out
      BY ONLY <1>2, <1>3, <2>1, <2>2, <2>3
    <2>5. AskedUp = 1
      BY <2>4 DEF GivenUp, AskedUp
    <2>6. Waiting = 1
      BY ONLY <1>2, <1>3, <2>1, <2>4, <2>5
    <2>. QED  BY <1>6, <2>6 DEF Waiting, KexExpected
  <1>7. CASE p.msg = "newkeys"
    <2>1. Count(c2s, "newkeys") = 1 + Count(c2s', "newkeys") /\ Count(c2s', "newkeys") \in Nat
      BY <1>7 DEF Arrived, One
    <2>2. Behind = 1
      BY ONLY <1>2, <1>3, <2>1
    <2>. QED  BY <1>7, <2>2 DEF Behind, KexExpected
  <1>. QED  BY <1>5, <1>6, <1>7 DEF KexExpected

\* and so does each packet of the login and of the session.
LEMMA TakesAcceptable ==
  ASSUME Sound, Exchange, Open, c2s # <<>>, c2s' = Tail(c2s), ~Guessed(Head(c2s).msg)
  PROVE  Acceptable(Head(c2s).msg)
  <1>. DEFINE p == Head(c2s)
  <1>1. Arrived(p)
    BY ServerFront
  <1>2. \A m : Count(c2s, m) = One(p, m) + Count(Tail(c2s), m)
    BY UpwardSized, CountTail DEF Sound, Queued
  <1>3. \A m : Count(Tail(c2s), m) \in Nat /\ Count(s2c, m) \in Nat
    <2>1. Tail(c2s) \in Seq(Upward) /\ s2c \in Seq(Downward)
      BY HeadTailProperties DEF Sound, Queued
    <2>. QED  BY <2>1, CountsAreNumbers
  <1>4. KexExpected(p.msg)
    BY <1>1, TakesExpected
  <1>. HIDE DEF p
  <1>5. Count(c2s, p.msg) >= 1
    <2>1. One(p, p.msg) = 1
      BY DEF One
    <2>2. Count(c2s, p.msg) = 1 + Count(Tail(c2s), p.msg)
      BY <1>2, <2>1
    <2>3. Count(Tail(c2s), p.msg) \in Nat
      BY <1>3
    <2>. QED  BY ONLY <2>2, <2>3
  <1>6. Conversing /\ Progressing /\ cl.step \in {"start", "kex", "service", "auth", "auth-wait",
             "open", "open-wait", "request", "pty-wait", "shell-wait", "session", "gone"}
    BY DEF Sound, Flow, SessionTypeOK, ClientState
  <1>7. CASE p.msg \in {"service", "userauth"}
    <2>1. p.key > 0 /\ p.key = inKeys
      BY <1>1, <1>7 DEF Arrived, Upward, Secured, Posted
    <2>2. state \notin {"VERSION", "KEX"}
      BY <2>1 DEF Exchange, ServerKeys
    <2>3. state \in {"AUTH", "CONN"}
      BY <2>2 DEF Sound, SessionTypeOK, TypeOK, CallTypeOK, States, Open
    <2>. QED  BY <1>4, <1>7, <2>3 DEF Acceptable, p
  <1>8. CASE p.msg = "open"
    <2>1. Count(c2s, "open") + Count(s2c, "open-confirm")
             <= (IF cl.step = "open-wait" THEN 1 ELSE 0)
      BY <1>6 DEF Conversing
    <2>2. Count(c2s, "open") >= 1 /\ Count(s2c, "open-confirm") \in Nat
          /\ Count(c2s, "open") = One(p, "open") + Count(Tail(c2s), "open")
          /\ One(p, "open") \in Nat /\ Count(Tail(c2s), "open") \in Nat
      BY <1>2, <1>3, <1>5, <1>8 DEF One
    <2>3. cl.step = "open-wait"
      BY ONLY <2>1, <2>2
    <2>4. state = "CONN"
      BY <1>6, <2>3 DEF Progressing
    <2>. QED  BY <1>4, <1>8, <2>4 DEF Acceptable, p
  <1>9. CASE p.msg = "request"
    <2>1. Count(c2s, "request") + Count(s2c, "request-success")
             <= (IF cl.step = "pty-wait" THEN 2 ELSE IF cl.step = "shell-wait" THEN 1 ELSE 0)
      BY <1>6 DEF Conversing
    <2>2. Count(c2s, "request") >= 1 /\ Count(s2c, "request-success") \in Nat
          /\ Count(c2s, "request") = One(p, "request") + Count(Tail(c2s), "request")
          /\ One(p, "request") \in Nat /\ Count(Tail(c2s), "request") \in Nat
      BY <1>2, <1>3, <1>5, <1>9 DEF One
    <2>3. cl.step \in {"pty-wait", "shell-wait"}
      BY ONLY <2>1, <2>2
    <2>4. state = "CONN" /\ chanOpen
      BY <1>6, <2>3 DEF Progressing, After
    <2>. QED  BY <1>4, <1>9, <2>4 DEF Acceptable, p
  <1>10. CASE p.msg = "data"
    <2>1. ~Before
      <3>1. Count(c2s, "data") # 0
        <4>1. Count(c2s, "data") >= 1
          BY <1>5, <1>10
        <4>. QED  BY ONLY <4>1
      <3>. QED  BY <1>6, <3>1 DEF Conversing
    <2>2. After \/ Gone
      BY <1>6, <2>1 DEF Before, After, Gone
    <2>3. chanOpen
      BY <1>6, <2>2 DEF Progressing
    <2>. QED  BY <1>4, <1>10, <2>3 DEF Acceptable, p
  <1>. QED  BY <1>4, <1>7, <1>8, <1>9, <1>10 DEF Acceptable, p

LEMMA NoDisconnect ==
  ASSUME NEW M, "disconnect" \notin M, OnWire(M)
  PROVE  ~Sends({"disconnect"})
  BY DEF OnWire, Sends

\* What the handlers of the exchange send.
LEMMA ExchangeAnswers ==
  ASSUME NEW o \in {"ok", "closed"},
         \/ RecvVersion("ssh2", o)
         \/ \E offer \in {"match", "wrong guess"} : RecvKexInit(offer, o)
         \/ RecvKexDh(o) \/ RecvNewKeys \/ SkipGuessed("kexdh")
  PROVE  OnWire(Silent)
  <1>1. {"kexinit", "kexdh-reply", "newkeys"} \subseteq Silent
    BY DEF Silent, ServerMsgs, KexMsgs, ServerKinds
  <1>2. CASE RecvVersion("ssh2", o)
    <2>1. tx' \in {<<>>, <<P("kexinit")>>}
      BY <1>2 DEF RecvVersion, SendPacket
    <2>. QED  BY <1>1, <2>1, FewOnWire
  <1>3. ASSUME NEW offer \in {"match", "wrong guess"}, RecvKexInit(offer, o)
        PROVE  OnWire(Silent)
    <2>1. tx' \in {<<>>, <<P("kexinit")>>}
      BY <1>3 DEF RecvKexInit, SendPacket
    <2>. QED  BY <1>1, <2>1, FewOnWire
  <1>4. CASE RecvKexDh(o)
    <2>1. tx' \in {<<>>, <<P("kexdh-reply")>>, KexReplies}
      BY <1>4 DEF RecvKexDh
    <2>. QED  BY <1>1, <2>1, FewOnWire
  <1>5. CASE RecvNewKeys \/ SkipGuessed("kexdh")
    <2>1. tx' = <<>>
      BY <1>5 DEF RecvNewKeys, SkipGuessed, Quiet
    <2>. QED  BY <2>1, FewOnWire
  <1>. QED  BY <1>2, <1>3, <1>4, <1>5

LEMMA TakesWithoutDisconnect ==
  ASSUME Agreed, NEW o \in {"ok", "closed"}, ServerReceives(o), Sends({"disconnect"})
  PROVE  Head(c2s).msg = "userauth" /\ authTries' = MaxAuthTries
  <1>. DEFINE p == Head(c2s)
  <1>1. Sound /\ Exchange /\ c2s # <<>> /\ c2s' = Tail(c2s) /\ Handle(p, o)
    BY DEF Agreed, ServerReceives
  <1>2. p \in Upward
    BY <1>1, HeadTailProperties DEF Sound, Queued
  <1>3. Open => Arrived(p) /\ (~Guessed(p.msg) => Acceptable(p.msg))
    BY <1>1, ServerFront, TakesAcceptable
  <1>. HIDE DEF p
  <1>4. /\ p.msg \in Posted
        /\ p.msg = "version" => p.arg = "ssh2"
    BY <1>2 DEF Upward
  <1>5. ASSUME NEW m, NEW w, RejectPacket(m, w, o) PROVE Open
    BY <1>5 DEF RejectPacket, Reading, Open
  <1>6. \/ p.msg = "version" /\ RecvVersion("ssh2", o)
        \/ SkipGuessed("kexdh")
        \/ p.msg # "version" /\ Dispatch(p, o)
    <2>1. CASE p.msg = "version"
      BY <1>1, <1>4, <2>1 DEF Handle
    <2>2. CASE p.msg # "version" /\ p.key # inKeys
      <3>1. RejectPacket("unknown", FALSE, o)
        BY <1>1, <2>2 DEF Handle
      <3>2. p.key = inKeys
        BY <1>3, <1>5, <3>1 DEF Arrived
      <3>. QED  BY <2>2, <3>2
    <2>3. CASE p.msg # "version" /\ p.key = inKeys /\ Guessed(p.msg)
      <3>1. SkipGuessed(p.msg)
        BY <1>1, <2>3 DEF Handle
      <3>2. p.msg = "kexdh"
        BY <1>4, <2>3 DEF Guessed, Posted
      <3>. QED  BY <3>1, <3>2
    <2>4. CASE p.msg # "version" /\ p.key = inKeys /\ ~Guessed(p.msg)
      <3>1. RejectPacket(p.msg, TRUE, o) => Acceptable(p.msg)
        BY <1>3, <1>5, <2>4
      <3>2. ~(RejectPacket(p.msg, TRUE, o) /\ Acceptable(p.msg))
        BY DEF RejectPacket
      <3>. QED  BY <1>1, <2>4, <3>1, <3>2 DEF Handle
    <2>. QED  BY <2>1, <2>2, <2>3, <2>4
  <1>7. /\ "disconnect" \notin Silent /\ "disconnect" \notin SessionMsgs
    BY DEF Silent, SessionMsgs
  <1>8. ~OnWire(Silent) /\ ~OnWire(SessionMsgs)
    BY <1>7, NoDisconnect
  <1>9. p.msg # "version" /\ Dispatch(p, o)
    BY <1>6, <1>8, ExchangeAnswers
  <1>10. p.msg = "userauth" /\ RecvUserauth(p.arg, o)
    BY <1>2, <1>8, <1>9, Dispatching, ExchangeAnswers, HandlersAnswer
  <1>11. Open /\ authTries' = authTries + 1 /\ NoMoreTries(authTries')
    BY <1>8, <1>10, UserauthAnswers
  <1>12. authTries < MaxAuthTries /\ authTries \in Nat /\ MaxAuthTries \in Nat
    BY <1>1, <1>11, ConnAssumption
       DEF Sound, Flow, Progressing, SessionTypeOK, TypeOK, AuthTypeOK
  <1>13. authTries' = MaxAuthTries
    BY <1>11, <1>12 DEF NoMoreTries
  <1>. QED  BY <1>10, <1>13 DEF p

\* Only the server takes packets from its queue.
LEMMA NotTaken ==
  ASSUME NEW S, NEW q \in Seq(S), q # <<>>, NEW a, NEW b
  PROVE  /\ q # Tail(q) /\ Append(q, a) # Tail(q)
         /\ q \o <<a>> # Tail(q) /\ q \o <<a, b>> # Tail(q)
  <1>. DEFINE T == S \cup {a, b}
              u == <<a>>
              v == <<a, b>>
              tail == Tail(q)
  <1>1. q \in Seq(T) /\ u \in Seq(T) /\ v \in Seq(T) /\ a \in T
    OBVIOUS
  <1>2. Len(tail) = Len(q) - 1 /\ Len(q) \in Nat
    BY HeadTailProperties
  <1>3. Len(u) = 1 /\ Len(v) = 2
    OBVIOUS
  <1>. HIDE DEF T, u, v, tail
  <1>4. /\ Len(Append(q, a)) = Len(q) + 1
        /\ Len(q \o u) = Len(q) + Len(u) /\ Len(q \o v) = Len(q) + Len(v)
    BY <1>1, ConcatProperties
  <1>5. q # tail /\ Append(q, a) # tail /\ q \o u # tail /\ q \o v # tail
    BY <1>2, <1>3, <1>4
  <1>. QED  BY <1>5 DEF tail, u, v

LEMMA ClientTakesNothing ==
  ASSUME c2s \in Seq(ClientPacket), c2s # <<>>, ClientStep
  PROVE  c2s' # Tail(c2s)
  <1>1. ASSUME NEW a, Post(<<a>>) PROVE c2s' # Tail(c2s)
    BY <1>1, NotTaken DEF Post
  <1>2. ASSUME NEW a, NEW b, Post(<<a, b>>) PROVE c2s' # Tail(c2s)
    BY <1>2, NotTaken DEF Post
  <1>3. CASE ClientReceives
    <2>1. c2s' = Append(c2s, C("newkeys", 0, "")) \/ c2s' = c2s
      BY <1>3 DEF ClientReceives
    <2>. QED  BY <2>1, NotTaken
  <1>4. CASE ClientHello \/ ClientKexDh \/ ClientAdjusts \/ ClientEof \/ ClientClose \/ ClientLeaves
    BY <1>1, <1>4
       DEF ClientHello, ClientKexDh, ClientAdjusts, ClientEof, ClientClose, ClientLeaves
  <1>5. CASE ClientProceeds
    <2>1. Proceeds
      BY <1>5, ProceedsAs
    <2>. QED  BY <1>1, <1>2, <2>1 DEF Proceeds
  <1>6. ASSUME NEW guess \in Guesses, ClientKexInit(guess) PROVE c2s' # Tail(c2s)
    <2>1. guess \in {"none", "right", "wrong"}
      BY SessionAssumption
    <2>2. \/ Post(<<C("kexinit", 0, "match")>>)
          \/ Post(<<C("kexinit", 0, "match"), C("kexdh", 0, "")>>)
          \/ Post(<<C("kexinit", 0, "wrong guess"), C("kexdh", 0, "")>>)
      <3>. DEFINE A == <<C("kexinit", 0, "match")>>
                  B == <<C("kexinit", 0, "match"), C("kexdh", 0, "")>>
                  D == <<C("kexinit", 0, "wrong guess"), C("kexdh", 0, "")>>
      <3>1. Post(CASE guess = "none" -> A [] guess = "right" -> B [] guess = "wrong" -> D)
        BY <1>6 DEF ClientKexInit
      <3>. HIDE DEF A, B, D
      <3>2. Post(A) \/ Post(B) \/ Post(D)
        BY <2>1, <3>1
      <3>. QED  BY <3>2 DEF A, B, D
    <2>. QED  BY <1>1, <1>2, <2>2
  <1>7. ASSUME NEW n \in DataSizes, ClientTypes(n) PROVE c2s' # Tail(c2s)
    BY <1>1, <1>7 DEF ClientTypes
  <1>. QED  BY <1>3, <1>4, <1>5, <1>6, <1>7 DEF ClientStep

LEMMA ServerTakesOnly ==
  ASSUME c2s \in Seq(ClientPacket), c2s # <<>>, c2s' = Tail(c2s), ServerStep
  PROVE  \E o \in Faults : ServerReceives(o)
  <1>1. c2s' # c2s
    BY NotTaken
  <1>. QED  BY <1>1 DEF ServerStep, ServerLosesClient, ServerAccepts, ServerReads, ServerWrites,
            ServerStartsClose, ServerEndsClose, ServerStartsWrite

\* A packet of a conformant client is never answered with a DISCONNECT, but for the
\* last wrong password: whatever the client guesses about the exchange, whenever it
\* starts a rekey and whatever is under way when the session ends, HandlePacket finds
\* the packet's MAC right and the connection in a state that expects it, as long as no
\* SendPacket fails inside the server.
THEOREM NeverRejectedTheorem ==
  ASSUME "local" \notin Faults PROVE SessionSpec => NeverRejected
  <1>. DEFINE Rightly == c2s # <<>> /\ c2s' = Tail(c2s) /\ Sends({"disconnect"})
                         => Head(c2s).msg = "userauth" /\ authTries' = MaxAuthTries
  <1>1. ASSUME Agreed, [SessionNext]_sessionVars PROVE [Rightly]_sessionVars
    <2>. SUFFICES ASSUME SessionNext, c2s # <<>>, c2s' = Tail(c2s), Sends({"disconnect"})
                  PROVE  Head(c2s).msg = "userauth" /\ authTries' = MaxAuthTries
      BY <1>1
    <2>1. c2s \in Seq(ClientPacket)
      BY <1>1 DEF Agreed, Sound, SessionTypeOK
    <2>2. ~ClientStep
      BY <2>1, ClientTakesNothing
    <2>3. ~SessionOver
      <3>1. c2s' # c2s
        BY <2>1, NotTaken
      <3>. QED  BY <3>1 DEF SessionOver, sessionVars
    <2>4. PICK o \in Faults : ServerReceives(o)
      BY <2>1, <2>2, <2>3, ServerTakesOnly DEF SessionNext
    <2>5. o \in {"ok", "closed"}
      BY SessionAssumption DEF SendResults
    <2>. QED  BY <1>1, <2>4, <2>5, TakesWithoutDisconnect
  <1>. QED  BY <1>1, AgreedAlways, PTL DEF SessionSpec, NeverRejected
=============================================================================
