---------------------------- MODULE SshRx_proofs ----------------------------
(***************************************************************************)
(* Theorems about SshRx.tla, for every length of lines, packets, MACs,     *)
(* blocks and buffer that fits its assumption: the buffer never stands     *)
(* full, and how TCP cuts the stream decides what is handled only for a    *)
(* line of more than LineMax bytes (PacketStream.tla).                     *)
(*                                                                         *)
(* The inductive invariant IInv looks at buffer and socket as one sequence *)
(* of bytes, rx \o tcp: the units sent and not yet handled (Streamed).     *)
(***************************************************************************)
EXTENDS SshRx, SequenceTheorems, TLAPS
-----------------------------------------------------------------------------
(* The units *)

LineUnits == [kind : {"line", "version", "oldversion"}, total : Lines, key : {0},
              start : {0}, seq : {0}]
Packets == [kind : {"data", "newkeys"}, total : Totals, key : 0..MaxUnits, start : Nat, seq : Nat]
Units == LineUnits \cup Packets

\* The keys, the place in their key stream and the number of the packet after u.
NextKey(u) == u.key + IF u.kind = "newkeys" THEN 1 ELSE 0
NextStart(u) == IF u.kind \in {"version", "newkeys"} THEN 0 ELSE u.start + u.total
NextSeq(u) == IF u.kind = "version" THEN 0 ELSE u.seq + 1

\* What may follow prev.
Follows(prev, u) ==
    IF prev.kind = "line" THEN u \in LineUnits
    ELSE u \in Packets /\ u.key = NextKey(prev) /\ u.start = NextStart(prev)
                       /\ u.seq = NextSeq(prev)

\* The client sends units one after another as the protocol wants them.
Ordered ==
    /\ sent \in Seq(Units) /\ Len(sent) <= MaxUnits
    /\ \A i \in 1..Len(sent) : sent[i].key < i
    /\ sent # <<>> => sent[1] \in LineUnits
    /\ \A i \in 1..(Len(sent) - 1) : Follows(sent[i], sent[i + 1])

LEMMA SizesAreSizes ==
  /\ \A t \in Lines : t \in Nat \ {0}
  /\ \A t \in Totals : t \in Nat \ {0} /\ t >= Block
  /\ \A k \in 0..MaxUnits : MacLen[k] \in 0..Slack /\ MacLen[k] \in Nat
  /\ 0 \in 0..MaxUnits
  <1>1. ASSUME NEW t \in Lines PROVE t \in Nat \ {0}
    BY RxAssumption
  <1>2. ASSUME NEW t \in Totals PROVE t \in Nat \ {0} /\ t >= Block
    BY RxAssumption
  <1>3. ASSUME NEW k \in 0..MaxUnits PROVE MacLen[k] \in 0..Slack /\ MacLen[k] \in Nat
    BY RxAssumption
  <1>. QED  BY <1>1, <1>2, <1>3, RxAssumption

LEMMA UnitFields ==
  ASSUME NEW u \in Units
  PROVE  /\ u.total \in Nat \ {0} /\ u.key \in 0..MaxUnits /\ u.start \in Nat /\ u.seq \in Nat
         /\ MacLen[u.key] \in 0..Slack
         /\ Size(u) \in Nat \ {0} /\ Size(u) >= u.total
  <1>1. CASE u \in LineUnits
    <2>1. u.total \in Lines /\ u.key = 0 /\ u.start = 0 /\ u.seq = 0 /\ IsLine(u)
      BY <1>1 DEF LineUnits, IsLine
    <2>2. u.total \in Nat \ {0} /\ 0 \in 0..MaxUnits
      BY <2>1, SizesAreSizes
    <2>. QED  BY <2>1, <2>2, SizesAreSizes DEF Size
  <1>2. CASE u \in Packets
    <2>1. u.total \in Totals /\ u.key \in 0..MaxUnits /\ u.start \in Nat /\ u.seq \in Nat
          /\ ~IsLine(u)
      BY <1>2 DEF Packets, IsLine
    <2>2. u.total \in Nat \ {0}
      BY <2>1, SizesAreSizes
    <2>3. MacLen[u.key] \in 0..Slack /\ MacLen[u.key] \in Nat
      BY <2>1, SizesAreSizes
    <2>4. Size(u) = u.total + MacLen[u.key]
      BY <2>1 DEF Size
    <2>5. u.total + MacLen[u.key] \in Nat \ {0} /\ u.total + MacLen[u.key] >= u.total
      BY <2>2, <2>3
    <2>. QED  BY <2>1, <2>2, <2>3, <2>4, <2>5
  <1>. QED  BY <1>1, <1>2 DEF Units

LEMMA LineFields ==
  ASSUME NEW u \in LineUnits
  PROVE  /\ u \in Units /\ IsLine(u) /\ u.kind \in {"line", "version", "oldversion"}
         /\ u.total \in Nat \ {0} /\ Size(u) = u.total
         /\ u.key = 0 /\ u.start = 0 /\ u.seq = 0
  <1>1. u.total \in Lines /\ u.key = 0 /\ u.start = 0 /\ u.seq = 0 /\ IsLine(u)
        /\ u.kind \in {"line", "version", "oldversion"}
    BY DEF LineUnits, IsLine
  <1>2. Size(u) = u.total /\ u.total \in Nat \ {0}
    BY <1>1, SizesAreSizes DEF Size
  <1>. QED  BY <1>1, <1>2 DEF Units

LEMMA PacketFields ==
  ASSUME NEW u \in Packets
  PROVE  /\ u \in Units /\ ~IsLine(u) /\ u.kind \in {"data", "newkeys"}
         /\ u.total >= Block /\ Size(u) = u.total + MacLen[u.key]
  <1>1. u.total \in Totals /\ ~IsLine(u) /\ u.kind \in {"data", "newkeys"}
    BY DEF Packets, IsLine
  <1>. QED  BY <1>1, SizesAreSizes DEF Size, Units
-----------------------------------------------------------------------------
(* The stream of bytes *)

\* Place k of b, if b reaches back to it, holds byte i of unit u.
Stands(b, k, u, i) == k >= 1 => k <= Len(b) /\ b[k][1] = u /\ b[k][2] = i

\* Byte a of unit u at place j of b: the unit is whole around it.
Frame(b, s, j, u, a) ==
    u \in 1..Len(s) /\ a \in 1..Size(s[u]) /\ \A i \in 1..Size(s[u]) : Stands(b, j - a + i, u, i)

Framed(b, s) == \A j \in 1..Len(b) : Frame(b, s, j, b[j][1], b[j][2])

\* After the last byte of a unit comes the first of the next.
Joined(b, s) ==
    \A j \in 1..(Len(b) - 1) :
        b[j][2] = Size(s[b[j][1]]) => b[j + 1][1] = b[j][1] + 1 /\ b[j + 1][2] = 1

\* b are the bytes of the units of s after the first h.
Streamed(b, h, s) ==
    /\ b \in Seq(Byte) /\ h \in 0..Len(s)
    /\ b = <<>> <=> h = Len(s)
    /\ b # <<>> => /\ b[1][1] = h + 1 /\ b[1][2] = 1
                   /\ b[Len(b)][1] = Len(s) /\ b[Len(b)][2] = Size(s[Len(s)])
    /\ Framed(b, s) /\ Joined(b, s)

\* The first unit is there, whole and in its place.
LEMMA FirstUnit ==
  ASSUME NEW s \in Seq(Units), NEW b, NEW h, Streamed(b, h, s), h < Len(s)
  PROVE  /\ Size(s[h + 1]) \in Nat \ {0} /\ Size(s[h + 1]) <= Len(b)
         /\ \A i \in 1..Size(s[h + 1]) : b[i][1] = h + 1 /\ b[i][2] = i
  <1>0. h \in Nat /\ Len(s) \in Nat /\ h + 1 \in 1..Len(s) /\ s[h + 1] \in Units
    BY DEF Streamed
  <1>1. Size(s[h + 1]) \in Nat \ {0}
    BY <1>0, UnitFields
  <1>2. b # <<>> /\ b \in Seq(Byte) /\ h # Len(s)
    BY <1>0 DEF Streamed
  <1>3. 1 \in 1..Len(b) /\ Len(b) \in Nat
    BY <1>2
  <1>4. b[1][1] = h + 1 /\ b[1][2] = 1
    BY <1>2 DEF Streamed
  <1>5. ASSUME NEW i \in 1..Size(s[h + 1])
        PROVE  i <= Len(b) /\ b[i][1] = h + 1 /\ b[i][2] = i
    <2>1. 1 - 1 + i = i /\ i >= 1
      BY <1>1
    <2>2. Frame(b, s, 1, h + 1, 1)
      BY <1>3, <1>4 DEF Streamed, Framed
    <2>3. Stands(b, 1 - 1 + i, h + 1, i)
      BY <2>2 DEF Frame
    <2>. QED  BY ONLY <2>1, <2>3 DEF Stands
  <1>6. Size(s[h + 1]) \in 1..Size(s[h + 1])
    BY <1>1
  <1>. QED  BY <1>1, <1>5, <1>6

LEMMA Shifted ==
  ASSUME NEW j \in Int, NEW a \in Int, NEW i \in Int, NEW n \in Nat, NEW b, NEW c, NEW u,
         Len(b) \in Nat, Len(c) = Len(b) - n, \A k \in 1..Len(c) : c[k] = b[k + n],
         NEW m, m = j + n, Stands(b, m - a + i, u, i)
  PROVE  Stands(c, j - a + i, u, i)
  <1>. DEFINE k == j - a + i
  <1>1. m - a + i = k + n /\ k \in Int
    OBVIOUS
  <1>2. Stands(b, k + n, u, i)
    BY <1>1
  <1>. HIDE DEF k
  <1>3. Stands(c, k, u, i)
    <2>. SUFFICES ASSUME k >= 1 PROVE k <= Len(c) /\ c[k][1] = u /\ c[k][2] = i
      BY DEF Stands
    <2>1. k + n >= 1
      BY <1>1
    <2>2. k + n <= Len(b) /\ b[k + n][1] = u /\ b[k + n][2] = i
      BY <1>2, <2>1 DEF Stands
    <2>3. k \in 1..Len(c)
      BY <1>1, <2>2
    <2>. QED  BY <2>2, <2>3
  <1>. QED  BY <1>3 DEF k

LEMMA Dropped ==
  ASSUME NEW T, NEW b \in Seq(T), NEW n \in Nat, n <= Len(b)
  PROVE  /\ SubSeq(b, n + 1, Len(b)) \in Seq(T)
         /\ Len(SubSeq(b, n + 1, Len(b))) = Len(b) - n
         /\ \A j \in 1..(Len(b) - n) : SubSeq(b, n + 1, Len(b))[j] = b[j + n]
  OBVIOUS

LEMMA Appended ==
  ASSUME NEW T, NEW b \in Seq(T), NEW w \in Seq(T)
  PROVE  /\ b \o w \in Seq(T) /\ Len(b \o w) = Len(b) + Len(w)
         /\ \A j \in 1..Len(b) : (b \o w)[j] = b[j]
         /\ \A i \in 1..Len(w) : (b \o w)[Len(b) + i] = w[i]
  OBVIOUS

\* What is left when it has been taken.
LEMMA UnitTaken ==
  ASSUME NEW s \in Seq(Units), NEW b, NEW h, Streamed(b, h, s), h < Len(s),
         NEW n, n = Size(s[h + 1])
  PROVE  Streamed(SubSeq(b, n + 1, Len(b)), h + 1, s)
  <1>. DEFINE c == SubSeq(b, n + 1, Len(b))
  <1>0. /\ h \in Nat /\ Len(s) \in Nat /\ h + 1 \in 0..Len(s)
        /\ b \in Seq(Byte) /\ Len(b) \in Nat /\ b # <<>>
        /\ n \in Nat \ {0} /\ n <= Len(b) /\ n \in 1..Len(b)
        /\ b[n][1] = h + 1 /\ b[n][2] = n
    <2>1. /\ h \in Nat /\ Len(s) \in Nat /\ h + 1 \in 0..Len(s)
          /\ b \in Seq(Byte) /\ Len(b) \in Nat
      BY DEF Streamed
    <2>2. n \in Nat \ {0} /\ n <= Len(b) /\ \A i \in 1..n : b[i][1] = h + 1 /\ b[i][2] = i
      BY FirstUnit
    <2>3. b # <<>> /\ n \in 1..n /\ n \in 1..Len(b)
      BY ONLY <2>1, <2>2
    <2>. QED  BY ONLY <2>1, <2>2, <2>3
  <1>1. c \in Seq(Byte) /\ Len(c) = Len(b) - n /\ \A j \in 1..Len(c) : c[j] = b[j + n]
    <2>1. c \in Seq(Byte) /\ Len(c) = Len(b) - n /\ \A j \in 1..(Len(b) - n) : c[j] = b[j + n]
      BY ONLY <1>0, Dropped
    <2>. HIDE DEF c
    <2>. QED  BY ONLY <2>1
  <1>1a. Len(c) \in Nat
    BY ONLY <1>0, <1>1
  <1>. HIDE DEF c
  <1>2. Len(b) > n => b[n + 1][1] = h + 2 /\ b[n + 1][2] = 1
    <2>. SUFFICES ASSUME Len(b) > n PROVE b[n + 1][1] = h + 2 /\ b[n + 1][2] = 1
      OBVIOUS
    <2>1. n \in 1..(Len(b) - 1)
      BY <1>0
    <2>2. b[n + 1][1] = b[n][1] + 1 /\ b[n + 1][2] = 1
      BY <1>0, <2>1 DEF Streamed, Joined
    <2>. QED  BY <1>0, <2>2
  <1>3. c = <<>> <=> h + 1 = Len(s)
    <2>1. ASSUME Len(b) = n PROVE h + 1 = Len(s)
      BY <1>0, <2>1 DEF Streamed
    <2>2. ASSUME Len(b) > n PROVE h + 1 # Len(s)
      <3>1. b[n + 1][1] \in 1..Len(s)
        <4>1. n + 1 \in 1..Len(b)
          BY <1>0, <2>2
        <4>. QED  BY <4>1 DEF Streamed, Framed, Frame
      <3>. QED  BY <1>0, <1>2, <2>2, <3>1
    <2>3. c = <<>> <=> Len(b) = n
      BY ONLY <1>0, <1>1, <1>1a
    <2>. QED  BY <1>0, <2>1, <2>2, <2>3
  <1>4. c # <<>> => /\ c[1][1] = h + 1 + 1 /\ c[1][2] = 1
                    /\ c[Len(c)][1] = Len(s) /\ c[Len(c)][2] = Size(s[Len(s)])
    <2>. SUFFICES ASSUME c # <<>>
                  PROVE  /\ c[1][1] = h + 1 + 1 /\ c[1][2] = 1
                         /\ c[Len(c)][1] = Len(s) /\ c[Len(c)][2] = Size(s[Len(s)])
      OBVIOUS
    <2>1. Len(b) > n /\ 1 \in 1..Len(c) /\ Len(c) \in 1..Len(c) /\ Len(c) + n = Len(b)
          /\ 1 + n = n + 1 /\ h + 1 + 1 = h + 2
      <3>1. Len(c) # 0
        BY ONLY <1>1, <1>1a, c # <<>>
      <3>. QED  BY ONLY <1>0, <1>1, <1>1a, <3>1
    <2>2. c[1] = b[n + 1] /\ c[Len(c)] = b[Len(b)]
      BY <1>1, <2>1
    <2>. QED  BY <1>0, <1>2, <2>1, <2>2 DEF Streamed
  <1>5. Framed(c, s)
    <2>. SUFFICES ASSUME NEW j \in 1..Len(c) PROVE Frame(c, s, j, c[j][1], c[j][2])
      BY DEF Framed
    <2>. DEFINE u == c[j][1]
                a == c[j][2]
                m == j + n
    <2>1. m = j + n /\ m \in 1..Len(b) /\ c[j] = b[m] /\ j \in Int
      BY ONLY <1>0, <1>1, <1>1a, j \in 1..Len(c)
    <2>. HIDE DEF m
    <2>2. Frame(b, s, m, u, a)
      BY <2>1 DEF Streamed, Framed
    <2>. HIDE DEF u, a
    <2>3. u \in 1..Len(s) /\ a \in 1..Size(s[u]) /\ s[u] \in Units
      BY <2>2 DEF Frame
    <2>4. Size(s[u]) \in Nat /\ a \in Int
      BY <2>3, UnitFields
    <2>5. ASSUME NEW i \in 1..Size(s[u]) PROVE Stands(c, j - a + i, u, i)
      <3>1. i \in Int
        BY ONLY <2>4, <2>5
      <3>2. Stands(b, m - a + i, u, i)
        BY ONLY <2>2, <2>5 DEF Frame
      <3>. QED  BY ONLY <1>0, <1>1, <2>1, <2>4, <3>1, <3>2, Shifted
    <2>6. Frame(c, s, j, u, a)
      BY <2>3, <2>5 DEF Frame
    <2>. QED  BY <2>6 DEF u, a
  <1>6. Joined(c, s)
    <2>. SUFFICES ASSUME NEW j \in 1..(Len(c) - 1), c[j][2] = Size(s[c[j][1]])
                  PROVE  c[j + 1][1] = c[j][1] + 1 /\ c[j + 1][2] = 1
      BY DEF Joined
    <2>1. /\ j \in 1..Len(c) /\ j + 1 \in 1..Len(c) /\ j + n \in 1..(Len(b) - 1)
          /\ j + n + 1 = j + 1 + n
      <3>. DEFINE l == Len(c)
      <3>1. l \in Nat /\ l + n = Len(b) /\ j \in 1..(l - 1) /\ n \in Nat /\ Len(b) - 1 = l - 1 + n
        BY ONLY <1>0, <1>1, <1>1a, j \in 1..(Len(c) - 1)
      <3>. HIDE DEF l
      <3>2. j \in 1..l /\ j + 1 \in 1..l /\ j + n \in 1..(l - 1 + n) /\ j + n + 1 = j + 1 + n
        BY ONLY <3>1
      <3>. QED  BY ONLY <3>1, <3>2 DEF l
    <2>2. c[j] = b[j + n] /\ c[j + 1] = b[j + n + 1]
      BY <1>1, <2>1
    <2>. QED  BY <2>1, <2>2 DEF Streamed, Joined
  <1>7. Streamed(c, h + 1, s)
    BY ONLY <1>0, <1>1, <1>3, <1>4, <1>5, <1>6 DEF Streamed
  <1>. QED  BY <1>7 DEF c

\* What follows when the client sends unit u.
LEMMA UnitAdded ==
  ASSUME NEW s \in Seq(Units), NEW b, NEW h, Streamed(b, h, s), Len(s) < MaxUnits,
         NEW u \in Units, NEW new,
         new = [i \in 1..Size(u) |-> <<Len(s) + 1, i, "raw">>]
  PROVE  Streamed(b \o new, h, Append(s, u))
  <1>. DEFINE n == Size(u)
              c == b \o new
              r == Append(s, u)
              l == Len(s)
              B == Len(b)
  <1>0. n \in Nat \ {0} /\ l \in Nat /\ b \in Seq(Byte) /\ B \in Nat /\ h \in 0..l /\ MaxUnits \in Nat
    BY UnitFields, RxAssumption DEF Streamed
  <1>1. /\ new \in Seq(Byte) /\ Len(new) = n
        /\ \A i \in 1..n : new[i] = <<l + 1, i, "raw">>
    <2>1. \A i \in 1..n : <<l + 1, i, "raw">> \in Byte
      <3>1. l + 1 \in 1..MaxUnits /\ \A i \in 1..n : i \in Nat
        BY <1>0
      <3>. QED  BY <3>1 DEF Byte
    <2>2. new \in [1..n -> Byte] /\ \A i \in 1..n : new[i] = <<l + 1, i, "raw">>
      BY <2>1
    <2>. HIDE DEF n
    <2>3. new \in Seq(Byte) /\ Len(new) = n
      BY ONLY <1>0, <2>2
    <2>. QED  BY <2>2, <2>3
  <1>2. r \in Seq(Units) /\ Len(r) = l + 1 /\ r[l + 1] = u /\ \A i \in 1..l : r[i] = s[i]
    BY <1>0
  <1>. HIDE DEF n
  <1>3. /\ c \in Seq(Byte) /\ Len(c) = B + n
        /\ \A j \in 1..B : c[j] = b[j]
        /\ \A i \in 1..n : c[B + i] = new[i]
    <2>1. new \in Seq(Byte) /\ Len(new) = n
      BY <1>1
    <2>2. /\ c \in Seq(Byte) /\ Len(c) = B + Len(new)
          /\ \A j \in 1..B : c[j] = b[j]
          /\ \A i \in 1..Len(new) : c[B + i] = new[i]
      <3>1. b \in Seq(Byte) /\ new \in Seq(Byte)
        BY ONLY <1>0, <2>1
      <3>. QED  BY ONLY <3>1, Appended
    <2>. HIDE DEF c, B
    <2>. QED  BY ONLY <2>1, <2>2
  <1>4. \A i \in 1..n : c[B + i][1] = l + 1 /\ c[B + i][2] = i
    <2>. HIDE DEF c
    <2>1. \A i \in 1..n : c[B + i] = <<l + 1, i, "raw">>
      BY ONLY <1>1, <1>3
    <2>. QED  BY ONLY <2>1
  <1>5. 1 \in 1..n /\ n \in 1..n /\ B + n \in Nat /\ B + n # 0
    BY <1>0
  <1>6. Size(r[l + 1]) = n /\ \A i \in 1..l : Size(r[i]) = Size(s[i])
    BY <1>2 DEF n
  <1>. HIDE DEF c, r
  <1>7. /\ c # <<>> /\ h \in 0..Len(r) /\ h # Len(r)
        /\ c[Len(c)][1] = Len(r) /\ c[Len(c)][2] = Size(r[Len(r)])
    <2>1. h # l + 1 /\ h \in 0..(l + 1)
      BY ONLY <1>0
    <2>2. c[B + n][1] = l + 1 /\ c[B + n][2] = n
      BY <1>4, <1>5
    <2>. QED  BY <1>2, <1>3, <1>5, <1>6, <2>1, <2>2
  <1>8. c[1][1] = h + 1 /\ c[1][2] = 1
    <2>1. CASE b = <<>>
      <3>1. B = 0 /\ h = l
        BY <2>1 DEF Streamed
      <3>2. B + 1 = 1
        BY <3>1
      <3>. QED  BY <1>4, <1>5, <3>1, <3>2
    <2>2. CASE b # <<>>
      <3>1. 1 \in 1..B
        BY <1>0, <2>2
      <3>2. b[1][1] = h + 1 /\ b[1][2] = 1
        BY <2>2 DEF Streamed
      <3>. QED  BY <1>3, <3>1, <3>2
    <2>. QED  BY <2>1, <2>2
  <1>9. Framed(c, r)
    <2>1. ASSUME NEW j \in 1..B PROVE Frame(c, r, j, c[j][1], c[j][2])
      <3>. DEFINE v == c[j][1]
                  a == c[j][2]
      <3>1. Frame(b, s, j, v, a)
        BY <1>3, <2>1 DEF Streamed, Framed
      <3>. HIDE DEF v, a
      <3>2. /\ v \in 1..l /\ a \in 1..Size(s[v]) /\ Size(r[v]) = Size(s[v]) /\ s[v] \in Units
        BY <1>6, <3>1 DEF Frame
      <3>3. v \in 1..Len(r) /\ Size(s[v]) \in Nat
        BY <1>0, <1>2, <3>2, UnitFields
      <3>4. ASSUME NEW i \in 1..Size(s[v]) PROVE Stands(c, j - a + i, v, i)
        <4>1. Stands(b, j - a + i, v, i)
          BY ONLY <3>1, <3>4 DEF Frame
        <4>. DEFINE k == j - a + i
        <4>2. k \in Int
          BY ONLY <1>0, <2>1, <3>2, <3>3, <3>4
        <4>. HIDE DEF k
        <4>3. Stands(b, k, v, i)
          BY <4>1 DEF k
        <4>4. Stands(c, k, v, i)
          <5>. SUFFICES ASSUME k >= 1 PROVE k <= Len(c) /\ c[k][1] = v /\ c[k][2] = i
            BY DEF Stands
          <5>1. k <= B /\ b[k][1] = v /\ b[k][2] = i
            BY <4>3 DEF Stands
          <5>2. k \in 1..B /\ k <= B + n
            BY <1>0, <4>2, <5>1
          <5>. QED  BY <1>3, <5>1, <5>2
        <4>. QED  BY <4>4 DEF k
      <3>5. Frame(c, r, j, v, a)
        BY <3>2, <3>3, <3>4 DEF Frame
      <3>. QED  BY <3>5 DEF v, a
    <2>2. ASSUME NEW a \in 1..n PROVE Frame(c, r, B + a, c[B + a][1], c[B + a][2])
      <3>1. c[B + a][1] = l + 1 /\ c[B + a][2] = a
        BY <1>4
      <3>2. ASSUME NEW i \in 1..n PROVE Stands(c, B + a - a + i, l + 1, i)
        <4>1. B + a - a + i = B + i /\ B + i <= B + n
          BY <1>0
        <4>2. c[B + i][1] = l + 1 /\ c[B + i][2] = i /\ B + i <= Len(c)
          BY <1>3, <1>4, <4>1
        <4>. QED  BY <4>1, <4>2 DEF Stands
      <3>3. l + 1 \in 1..Len(r)
        BY <1>0, <1>2
      <3>. QED  BY <1>6, <3>1, <3>2, <3>3 DEF Frame
    <2>3. ASSUME NEW j \in 1..Len(c) PROVE Frame(c, r, j, c[j][1], c[j][2])
      <3>1. CASE j \in 1..B
        BY <2>1, <3>1
      <3>2. CASE j \notin 1..B
        <4>. DEFINE a == j - B
        <4>1. a \in 1..n /\ B + a = j
          BY <1>0, <1>3, <3>2
        <4>. HIDE DEF a
        <4>. QED  BY <2>2, <4>1
      <3>. QED  BY <3>1, <3>2
    <2>. QED  BY <2>3 DEF Framed
  <1>10. Joined(c, r)
    <2>. SUFFICES ASSUME NEW j \in 1..(Len(c) - 1), c[j][2] = Size(r[c[j][1]])
                  PROVE  c[j + 1][1] = c[j][1] + 1 /\ c[j + 1][2] = 1
      BY DEF Joined
    <2>0. j \in Nat /\ j >= 1 /\ j < B + n
      BY <1>0, <1>3
    <2>1. CASE j < B
      <3>1. j \in 1..(B - 1) /\ j \in 1..B /\ j + 1 \in 1..B
        BY <1>0, <2>0, <2>1
      <3>2. c[j] = b[j] /\ c[j + 1] = b[j + 1]
        BY <1>3, <3>1
      <3>3. b[j][1] \in 1..l
        BY <3>1 DEF Streamed, Framed, Frame
      <3>4. b[j][2] = Size(s[b[j][1]])
        BY <1>6, <3>2, <3>3
      <3>. QED  BY <3>1, <3>2, <3>4 DEF Streamed, Joined
    <2>2. CASE j = B
      <3>1. b # <<>> /\ j \in 1..B
        BY <1>0, <2>0, <2>2
      <3>2. c[j][1] = l
        BY <1>3, <2>2, <3>1 DEF Streamed
      <3>. QED  BY <1>4, <1>5, <2>2, <3>2
    <2>3. CASE j > B
      <3>. DEFINE a == j - B
      <3>1. a \in 1..n /\ B + a = j /\ a # n
        BY <1>0, <2>0, <2>3
      <3>. HIDE DEF a
      <3>2. c[j][1] = l + 1 /\ c[j][2] = a
        BY <1>4, <3>1
      <3>. QED  BY <1>6, <3>1, <3>2
    <2>. QED  BY <1>0, <2>0, <2>1, <2>2, <2>3
  <1>11. Streamed(c, h, r)
    BY ONLY <1>3, <1>7, <1>8, <1>9, <1>10 DEF Streamed
  <1>. QED  BY <1>11 DEF c, r

\* Deciphering moves no byte.
LEMMA StreamedStays ==
  ASSUME NEW s, NEW b, NEW h, Streamed(b, h, s), NEW c \in Seq(Byte), Len(c) = Len(b),
         \A j \in 1..Len(b) : c[j][1] = b[j][1] /\ c[j][2] = b[j][2]
  PROVE  Streamed(c, h, s)
  <1>0. b \in Seq(Byte) /\ Len(b) \in Nat
    BY DEF Streamed
  <1>1. c = <<>> <=> b = <<>>
    BY <1>0
  <1>2. b # <<>> => 1 \in 1..Len(b) /\ Len(b) \in 1..Len(b)
    BY <1>0
  <1>3. \A k, u, i : k \in Int /\ Stands(b, k, u, i) => Stands(c, k, u, i)
    <2>. SUFFICES ASSUME NEW k \in Int, NEW u, NEW i, Stands(b, k, u, i), k >= 1
                  PROVE  k <= Len(c) /\ c[k][1] = u /\ c[k][2] = i
      BY DEF Stands
    <2>1. k <= Len(b) /\ b[k][1] = u /\ b[k][2] = i
      BY DEF Stands
    <2>2. k \in 1..Len(b)
      BY <1>0, <2>1
    <2>. QED  BY <2>1, <2>2
  <1>4. Framed(c, s)
    <2>. SUFFICES ASSUME NEW j \in 1..Len(c) PROVE Frame(c, s, j, c[j][1], c[j][2])
      BY DEF Framed
    <2>. DEFINE u == c[j][1]
                a == c[j][2]
    <2>1. Frame(b, s, j, u, a)
      BY DEF Streamed, Framed
    <2>. HIDE DEF u, a
    <2>2. ASSUME NEW i \in 1..Size(s[u]) PROVE Stands(c, j - a + i, u, i)
      <3>1. Stands(b, j - a + i, u, i) /\ a \in Int
        BY ONLY <2>1, <2>2 DEF Frame
      <3>2. j - a + i \in Int
        BY <3>1
      <3>. QED  BY ONLY <1>3, <3>1, <3>2
    <2>3. Frame(c, s, j, u, a)
      BY <2>1, <2>2 DEF Frame
    <2>. QED  BY <2>3 DEF u, a
  <1>5. Joined(c, s)
    <2>. SUFFICES ASSUME NEW j \in 1..(Len(c) - 1), c[j][2] = Size(s[c[j][1]])
                  PROVE  c[j + 1][1] = c[j][1] + 1 /\ c[j + 1][2] = 1
      BY DEF Joined
    <2>1. j \in 1..Len(b) /\ j + 1 \in 1..Len(b) /\ j \in 1..(Len(b) - 1)
      BY <1>0
    <2>. QED  BY <2>1 DEF Streamed, Joined
  <1>. QED  BY <1>1, <1>2, <1>4, <1>5 DEF Streamed
-----------------------------------------------------------------------------
(* The inductive invariant *)

\* The bytes that are not consumed are those of the units not handled.
InStream ==
    /\ rx \in Seq(Byte) /\ tcp \in Seq(Byte) /\ handled \in Seq(Units)
    /\ Streamed(rx \o tcp, Len(handled), sent)

\* Only the block the length was read from is deciphered, and rightly.
Known(j) == rxHaveLen /\ Active /\ j <= Block

Spelled ==
    /\ \A j \in 1..Len(tcp) : tcp[j][3] = "raw"
    /\ \A j \in 1..Len(rx) : (Known(j) => rx[j][3] = "plain") /\ (~Known(j) => rx[j][3] = "raw")

\* The keys, their stream and the counter stand where the next unit begins, or behind its
\* first block.
Keyed ==
    /\ in \in [key : 0..MaxUnits, pos : Nat, seq : Nat]
    /\ state = "VERSION" =>
          /\ in = [key |-> 0, pos |-> 0, seq |-> 0] /\ ~rxHaveLen
          /\ Len(handled) > 0 => sent[Len(handled)].kind = "line"
    /\ state = "PACKETS" =>
          /\ Len(handled) > 0 /\ sent[Len(handled)].kind \in {"version", "data", "newkeys"}
          /\ in.key = NextKey(sent[Len(handled)]) /\ in.seq = NextSeq(sent[Len(handled)])
          /\ Active /\ ~rxHaveLen => in.pos = NextStart(sent[Len(handled)])
          /\ Active /\ rxHaveLen => in.pos = NextStart(sent[Len(handled)]) + Block
          /\ rxHaveLen => Len(rx) >= First /\ Unit.total <= MaxPacket

Shaped ==
    /\ Len(rx) <= RxBuf /\ rxHaveLen \in BOOLEAN /\ work \in BOOLEAN
    /\ state \in {"VERSION", "PACKETS", "CLOSED", "SPOILT"}

IInv == Shaped /\ Ordered /\ InStream /\ Spelled /\ Keyed /\ RoomLeft

\* The unit that comes next.
Due == sent[Len(handled) + 1]

LEMMA TypeFollows == IInv => TypeOK
  <1>. SUFFICES ASSUME IInv PROVE TypeOK
    OBVIOUS
  <1>1. \A j \in DOMAIN rx : rx[j] \in Byte
    BY DEF IInv, InStream
  <1>2. in \in [key : Nat, pos : Nat, seq : Nat]
    <2>1. in \in [key : 0..MaxUnits, pos : Nat, seq : Nat] /\ MaxUnits \in Nat
      BY RxAssumption DEF IInv, Keyed
    <2>2. 0..MaxUnits \subseteq Nat
      BY <2>1
    <2>. QED  BY <2>1, <2>2
  <1>. QED  BY <1>1, <1>2 DEF IInv, Shaped, TypeOK

LEMMA Arithmetic ==
  /\ RxBuf \in Nat /\ RxBuf = MaxPacket + Slack /\ MaxPacket \in Nat /\ Slack \in Nat
  /\ Block \in Nat \ {0} /\ Clear \in Nat \ {0} /\ Clear <= Block /\ Block <= MaxPacket
  /\ LineMax \in Nat \ {0} /\ LineMax <= MaxPacket /\ MaxUnits \in Nat
  /\ First \in Nat \ {0} /\ First <= Block /\ First <= RxBuf /\ LineMax <= RxBuf
  /\ VersionBuf \in Nat /\ LineMax <= VersionBuf
  BY RxAssumption DEF RxBuf, First

LEMMA DueUnit ==
  ASSUME IInv, Len(handled) < Len(sent)
  PROVE  /\ Len(handled) \in Nat /\ Len(sent) \in Nat /\ Len(handled) + 1 \in 1..Len(sent)
         /\ Due \in Units
         /\ state = "VERSION" => Due \in LineUnits
         /\ state = "PACKETS" =>
               /\ Due \in Packets /\ Due.key = in.key /\ Due.seq = in.seq
               /\ Active /\ ~rxHaveLen => in.pos = Due.start
               /\ Active /\ rxHaveLen => in.pos = Due.start + Block
  <1>1. /\ Len(handled) \in Nat /\ Len(sent) \in Nat /\ Len(handled) + 1 \in 1..Len(sent)
        /\ Due \in Units
    BY DEF IInv, InStream, Ordered, Due
  <1>2. CASE Len(handled) = 0
    <2>1. state # "PACKETS"
      BY <1>2 DEF IInv, Keyed
    <2>2. Due \in LineUnits
      BY <1>1, <1>2 DEF IInv, Ordered, Due
    <2>. QED  BY <1>1, <2>1, <2>2
  <1>3. CASE Len(handled) # 0
    <2>. DEFINE h == Len(handled)
    <2>1. h \in 1..(Len(sent) - 1) /\ h > 0
      BY <1>1, <1>3
    <2>2. Follows(sent[h], Due)
      BY <2>1 DEF IInv, Ordered, Due
    <2>3. state = "VERSION" => Due \in LineUnits
      <3>1. state = "VERSION" => sent[h].kind = "line"
        BY <2>1 DEF IInv, Keyed
      <3>. QED  BY <2>2, <3>1 DEF Follows
    <2>4. ASSUME state = "PACKETS"
          PROVE  /\ Due \in Packets /\ Due.key = in.key /\ Due.seq = in.seq
                 /\ Active /\ ~rxHaveLen => in.pos = Due.start
                 /\ Active /\ rxHaveLen => in.pos = Due.start + Block
      <3>1. /\ sent[h].kind # "line" /\ in.key = NextKey(sent[h]) /\ in.seq = NextSeq(sent[h])
            /\ Active /\ ~rxHaveLen => in.pos = NextStart(sent[h])
            /\ Active /\ rxHaveLen => in.pos = NextStart(sent[h]) + Block
        BY <2>4 DEF IInv, Keyed
      <3>2. /\ Due \in Packets /\ Due.key = NextKey(sent[h]) /\ Due.start = NextStart(sent[h])
            /\ Due.seq = NextSeq(sent[h])
        BY <2>2, <3>1 DEF Follows
      <3>. QED  BY <3>1, <3>2
    <2>. QED  BY <1>1, <2>3, <2>4
  <1>. QED  BY <1>2, <1>3

\* The bytes in the buffer begin with those of the unit that is due.
LEMMA RxBegins ==
  ASSUME IInv, rx # <<>>
  PROVE  /\ Len(handled) < Len(sent) /\ Unit = Due
         /\ Len(rx) \in Nat \ {0} /\ Size(Due) \in Nat \ {0}
         /\ Size(Due) <= Len(rx \o tcp)
         /\ \A j \in 1..Len(rx) : j <= Size(Due) => rx[j][1] = Len(handled) + 1 /\ rx[j][2] = j
  <1>. DEFINE b == rx \o tcp
              h == Len(handled)
  <1>1. /\ rx \in Seq(Byte) /\ tcp \in Seq(Byte) /\ Streamed(b, h, sent) /\ sent \in Seq(Units)
    BY DEF IInv, InStream, Ordered
  <1>2. Len(rx) \in Nat \ {0}
    BY <1>1
  <1>3. /\ b \in Seq(Byte) /\ Len(b) = Len(rx) + Len(tcp)
        /\ \A j \in 1..Len(rx) : b[j] = rx[j]
    BY ONLY <1>1, Appended
  <1>4. b # <<>>
    BY <1>1, <1>2
  <1>. HIDE DEF b
  <1>5. h < Len(sent)
    BY <1>1, <1>4 DEF Streamed
  <1>. HIDE DEF h
  <1>6. /\ Size(sent[h + 1]) \in Nat \ {0} /\ Size(sent[h + 1]) <= Len(b)
        /\ \A i \in 1..Size(sent[h + 1]) : b[i][1] = h + 1 /\ b[i][2] = i
    BY ONLY <1>1, <1>5, FirstUnit
  <1>7. Due = sent[h + 1]
    BY DEF Due, h
  <1>8. ASSUME NEW j \in 1..Len(rx), j <= Size(Due) PROVE rx[j][1] = h + 1 /\ rx[j][2] = j
    <2>1. j \in 1..Size(sent[h + 1])
      BY <1>6, <1>7, <1>8
    <2>. QED  BY <1>3, <1>6, <2>1
  <1>9. 1 \in 1..Len(rx) /\ 1 <= Size(Due)
    BY <1>2, <1>6, <1>7
  <1>10. Unit = Due
    BY <1>7, <1>8, <1>9 DEF Unit
  <1>. QED  BY <1>2, <1>5, <1>6, <1>7, <1>8, <1>10 DEF b, h

LEMMA InitInv == Init => IInv
  <1>. SUFFICES ASSUME Init PROVE IInv
    OBVIOUS
  <1>1. /\ sent = <<>> /\ tcp = <<>> /\ rx = <<>> /\ handled = <<>> /\ rxHaveLen = FALSE
        /\ in = [key |-> 0, pos |-> 0, seq |-> 0] /\ state = "VERSION" /\ work = FALSE
    BY DEF Init
  <1>2. /\ Len(<<>>) = 0 /\ <<>> \in Seq(Byte) /\ <<>> \in Seq(Units) /\ <<>> \o <<>> = <<>>
    OBVIOUS
  <1>3. Ordered
    BY <1>1, <1>2, Arithmetic DEF Ordered
  <1>4. InStream
    <2>1. Streamed(<<>>, 0, <<>>)
      BY <1>2 DEF Streamed, Framed, Joined
    <2>. QED  BY <1>1, <1>2, <2>1 DEF InStream
  <1>5. Spelled
    BY <1>1, <1>2 DEF Spelled
  <1>6. Keyed
    BY <1>1, <1>2, Arithmetic DEF Keyed
  <1>7. Shaped /\ RoomLeft
    <2>1. 0 < RxBuf /\ 0 <= RxBuf
      <3>1. RxBuf \in Nat /\ First \in Nat \ {0} /\ First <= RxBuf
        BY Arithmetic
      <3>. QED  BY ONLY <3>1
    <2>2. Len(rx) = 0
      BY <1>1, <1>2
    <2>. QED  BY <1>1, <2>1, <2>2 DEF Shaped, RoomLeft
  <1>. QED  BY <1>3, <1>4, <1>5, <1>6, <1>7 DEF IInv
-----------------------------------------------------------------------------
(* The client and the socket *)

\* What the client may send next.
LEMMA SentFollows ==
  ASSUME IInv, ClientSends
  PROVE  \E u \in Units :
           /\ Len(sent) < MaxUnits /\ sent' = Append(sent, u)
           /\ tcp' = tcp \o [i \in 1..Size(u) |-> <<Len(sent) + 1, i, "raw">>]
           /\ sent = <<>> => u \in LineUnits
           /\ sent # <<>> => Follows(sent[Len(sent)], u)
           /\ u.key < Len(sent) + 1
  <1>. DEFINE first == sent = <<>> \/ (sent # <<>> /\ Last(sent).kind = "line")
              prev == Last(sent)
              fresh == first \/ prev.kind \in {"version", "newkeys"}
              L == [kind : {"line", "version", "oldversion"}, total : Lines, key : {0},
                    start : {0}, seq : {0}]
              P == [kind : {"data", "newkeys"}, total : Totals,
                    key : {prev.key + (IF prev.kind = "newkeys" THEN 1 ELSE 0)},
                    start : {IF fresh THEN 0 ELSE prev.start + prev.total},
                    seq : {IF prev.kind = "version" THEN 0 ELSE prev.seq + 1}]
  <1>1. PICK u \in IF first THEN L ELSE P :
            /\ sent' = Append(sent, u)
            /\ tcp' = tcp \o [i \in 1..Size(u) |-> <<Len(sent) + 1, i, "raw">>]
    BY DEF ClientSends
  <1>2. Len(sent) \in Nat /\ sent \in Seq(Units) /\ Len(sent) < MaxUnits /\ MaxUnits \in Nat
        /\ prev = sent[Len(sent)]
    BY Arithmetic DEF IInv, Ordered, ClientSends, Last
  <1>3. CASE first
    <2>1. u \in LineUnits
      BY <1>1, <1>3 DEF LineUnits
    <2>2. u \in Units /\ u.key = 0
      BY <2>1, LineFields
    <2>3. sent # <<>> => Follows(sent[Len(sent)], u)
      BY <1>2, <1>3, <2>1 DEF Follows
    <2>4. u.key < Len(sent) + 1
      BY <1>2, <2>2
    <2>. QED  BY <1>1, <1>2, <2>1, <2>2, <2>3, <2>4
  <1>4. CASE ~first
    <2>1. sent # <<>> /\ prev.kind # "line" /\ Len(sent) \in 1..Len(sent)
      BY <1>2, <1>4
    <2>2. prev \in Units /\ prev.key < Len(sent)
      BY <1>2, <2>1 DEF IInv, Ordered
    <2>3. prev.total \in Nat /\ prev.key \in Nat /\ prev.start \in Nat /\ prev.seq \in Nat
      <3>1. prev.total \in Nat \ {0} /\ prev.key \in 0..MaxUnits /\ prev.start \in Nat
            /\ prev.seq \in Nat
        BY <2>2, UnitFields
      <3>. QED  BY <1>2, <3>1
    <2>. HIDE DEF prev
    <2>4. u \in P
      BY <1>1, <1>4
    <2>5. /\ u.kind \in {"data", "newkeys"} /\ u.total \in Totals
          /\ u.key = NextKey(prev) /\ u.start = NextStart(prev) /\ u.seq = NextSeq(prev)
          /\ u = [kind |-> u.kind, total |-> u.total, key |-> u.key, start |-> u.start,
                  seq |-> u.seq]
      <3>1. fresh <=> prev.kind \in {"version", "newkeys"}
        BY <1>4
      <3>. HIDE DEF first
      <3>. QED  BY <2>4, <3>1 DEF NextKey, NextStart, NextSeq
    <2>. HIDE DEF first, P
    <2>6. /\ NextKey(prev) \in 0..MaxUnits /\ NextKey(prev) < Len(sent) + 1
          /\ NextStart(prev) \in Nat /\ NextSeq(prev) \in Nat
      <3>1. CASE prev.kind = "newkeys"
        BY <1>2, <2>2, <2>3, <3>1 DEF NextKey, NextStart, NextSeq
      <3>2. CASE prev.kind # "newkeys"
        <4>1. NextKey(prev) = prev.key + 0 /\ prev.start + prev.total \in Nat /\ prev.seq + 1 \in Nat
          BY <2>3, <3>2 DEF NextKey
        <4>2. NextStart(prev) \in {0, prev.start + prev.total} /\ NextSeq(prev) \in {0, prev.seq + 1}
          BY DEF NextStart, NextSeq
        <4>3. prev.key + 0 \in 0..MaxUnits /\ prev.key + 0 < Len(sent) + 1
          BY <1>2, <2>2, <2>3
        <4>. QED  BY ONLY <4>1, <4>2, <4>3
      <3>. QED  BY <3>1, <3>2
    <2>7. u \in Packets
      BY <2>5, <2>6 DEF Packets
    <2>8. Follows(sent[Len(sent)], u)
      BY <1>2, <2>1, <2>5, <2>7 DEF Follows, prev
    <2>9. u \in Units
      BY <2>7 DEF Units
    <2>. QED  BY <1>1, <1>2, <2>1, <2>5, <2>6, <2>8, <2>9
  <1>. QED  BY <1>3, <1>4

\* What the client sends goes behind all that is under way.
LEMMA ClientSendsInv == IInv /\ ClientSends => IInv'
  <1>. SUFFICES ASSUME IInv, ClientSends PROVE IInv'
    OBVIOUS
  <1>1. PICK u \in Units :
           /\ Len(sent) < MaxUnits /\ sent' = Append(sent, u)
           /\ tcp' = tcp \o [i \in 1..Size(u) |-> <<Len(sent) + 1, i, "raw">>]
           /\ sent = <<>> => u \in LineUnits
           /\ sent # <<>> => Follows(sent[Len(sent)], u)
           /\ u.key < Len(sent) + 1
    BY SentFollows
  <1>. DEFINE new == [i \in 1..Size(u) |-> <<Len(sent) + 1, i, "raw">>]
              l == Len(sent)
              h == Len(handled)
  <1>2. rx' = rx /\ rxHaveLen' = rxHaveLen /\ in' = in /\ state' = state /\ work' = work
        /\ handled' = handled
    BY DEF ClientSends
  <1>3. /\ rx \in Seq(Byte) /\ tcp \in Seq(Byte) /\ handled \in Seq(Units)
        /\ sent \in Seq(Units) /\ l \in Nat /\ l < MaxUnits /\ MaxUnits \in Nat
        /\ h \in 0..l /\ Streamed(rx \o tcp, h, sent)
    BY <1>1, Arithmetic DEF IInv, InStream, Ordered, Streamed
  <1>4. /\ sent' \in Seq(Units) /\ Len(sent') = l + 1 /\ sent'[l + 1] = u
        /\ \A i \in 1..l : sent'[i] = sent[i]
    BY <1>1, <1>3
  <1>5. /\ new \in Seq(Byte) /\ Len(new) = Size(u) /\ \A j \in 1..Len(new) : new[j][3] = "raw"
    <2>1. Size(u) \in Nat
      BY UnitFields
    <2>2. \A i \in 1..Size(u) : <<l + 1, i, "raw">> \in Byte
      <3>1. l + 1 \in 1..MaxUnits /\ \A i \in 1..Size(u) : i \in Nat
        BY <1>3, <2>1
      <3>. QED  BY <3>1 DEF Byte
    <2>. DEFINE n == Size(u)
    <2>3. new \in [1..n -> Byte] /\ \A i \in 1..n : new[i][3] = "raw"
      BY <2>2
    <2>. HIDE DEF new
    <2>4. n \in Nat
      BY <2>1
    <2>. HIDE DEF n
    <2>5. new \in Seq(Byte) /\ Len(new) = n
      BY ONLY <2>3, <2>4
    <2>. QED  BY ONLY <2>3, <2>5 DEF n
  <1>6. tcp' = tcp \o new
    BY <1>1
  <1>7. (rx \o tcp) \o new = rx \o (tcp \o new)
    <2>. HIDE DEF new
    <2>1. rx \in Seq(Byte) /\ tcp \in Seq(Byte) /\ new \in Seq(Byte)
      BY ONLY <1>3, <1>5
    <2>. QED  BY ONLY <2>1, ConcatAssociative
  <1>8. Streamed((rx \o tcp) \o new, h, sent')
    <2>. HIDE DEF h
    <2>1. Streamed((rx \o tcp) \o new, h, Append(sent, u))
      BY ONLY <1>3, RxAssumption, u \in Units, UnitAdded DEF l
    <2>. QED  BY <1>1, <2>1
  <1>. HIDE DEF new
  <1>9. InStream'
    <2>1. tcp' \in Seq(Byte)
      BY ONLY <1>3, <1>5, <1>6
    <2>2. Streamed(rx' \o tcp', Len(handled'), sent')
      BY <1>2, <1>6, <1>7, <1>8
    <2>. QED  BY <1>2, <1>3, <2>1, <2>2 DEF InStream
  <1>10. Ordered'
    <2>1. ASSUME NEW i \in 1..Len(sent') PROVE sent'[i].key < i
      <3>1. CASE i \in 1..l
        BY <1>4, <3>1 DEF IInv, Ordered
      <3>2. CASE i \notin 1..l
        <4>1. i = l + 1
          BY <1>3, <1>4, <3>2
        <4>. QED  BY <1>1, <1>4, <4>1
      <3>. QED  BY <3>1, <3>2
    <2>2. sent' # <<>> => sent'[1] \in LineUnits
      <3>1. CASE sent = <<>>
        <4>1. l = 0 /\ l + 1 = 1
          BY <3>1
        <4>. QED  BY <1>1, <1>4, <3>1, <4>1
      <3>2. CASE sent # <<>>
        <4>1. 1 \in 1..l
          BY <1>3, <3>2
        <4>. QED  BY <1>4, <3>2, <4>1 DEF IInv, Ordered
      <3>. QED  BY <3>1, <3>2
    <2>3. ASSUME NEW i \in 1..(Len(sent') - 1) PROVE Follows(sent'[i], sent'[i + 1])
      <3>1. CASE i \in 1..(l - 1)
        <4>1. i \in 1..l /\ i + 1 \in 1..l
          BY <1>3, <3>1
        <4>. QED  BY <1>4, <3>1, <4>1 DEF IInv, Ordered
      <3>2. CASE i \notin 1..(l - 1)
        <4>1. i = l /\ i \in 1..l /\ sent # <<>>
          BY <1>3, <1>4, <3>2
        <4>. QED  BY <1>1, <1>4, <4>1
      <3>. QED  BY <3>1, <3>2
    <2>4. Len(sent') <= MaxUnits
      BY <1>3, <1>4
    <2>. QED  BY <1>4, <2>1, <2>2, <2>3, <2>4 DEF Ordered
  <1>11. Spelled'
    <2>1. ASSUME NEW j \in 1..Len(tcp') PROVE tcp'[j][3] = "raw"
      <3>. DEFINE t == Len(tcp)
      <3>1. /\ Len(tcp') = t + Len(new) /\ t \in Nat /\ Len(new) \in Nat
            /\ \A i \in 1..t : tcp'[i] = tcp[i]
            /\ \A i \in 1..Len(new) : tcp'[t + i] = new[i]
        <4>1. tcp \in Seq(Byte) /\ new \in Seq(Byte)
          BY ONLY <1>3, <1>5
        <4>2. /\ Len(tcp \o new) = Len(tcp) + Len(new)
              /\ \A i \in 1..Len(tcp) : (tcp \o new)[i] = tcp[i]
              /\ \A i \in 1..Len(new) : (tcp \o new)[Len(tcp) + i] = new[i]
          BY ONLY <4>1, Appended
        <4>. QED  BY ONLY <1>6, <4>1, <4>2
      <3>2. CASE j \in 1..t
        BY <3>1, <3>2 DEF IInv, Spelled
      <3>3. CASE j \notin 1..t
        <4>. HIDE DEF t
        <4>. DEFINE i == j - t
        <4>1. i \in 1..Len(new) /\ t + i = j
          BY <3>1, <3>3
        <4>. HIDE DEF i
        <4>. QED  BY <1>5, <3>1, <4>1
      <3>. QED  BY <3>2, <3>3
    <2>. QED  BY <1>2, <2>1 DEF IInv, Spelled, Known, Active
  <1>12. Keyed'
    <2>1. h > 0 => h \in 1..l /\ sent'[h] = sent[h]
      BY <1>3, <1>4
    <2>2. rx # <<>> => Unit' = Unit
      <3>. SUFFICES ASSUME rx # <<>> PROVE Unit' = Unit
        OBVIOUS
      <3>1. h < l /\ 1 \in 1..Len(rx) /\ rx[1][1] = h + 1
        BY RxBegins
      <3>2. rx[1][1] \in 1..l
        BY <1>3, <3>1
      <3>. QED  BY <1>2, <1>4, <3>2 DEF Unit
    <2>3. First \in Nat \ {0} /\ First' = First
      BY <1>2, Arithmetic DEF First, Active
    <2>4. Len(rx) >= First => rx # <<>>
      BY <2>3
    <2>5. state = "PACKETS" => h > 0
      BY DEF IInv, Keyed
    <2>6. Active' = Active
      BY <1>2 DEF Active
    <2>. QED  BY <1>2, <2>1, <2>2, <2>3, <2>4, <2>5, <2>6 DEF IInv, Keyed, NextKey, NextStart, NextSeq
  <1>13. Shaped' /\ RoomLeft'
    BY <1>2 DEF IInv, Shaped, RoomLeft
  <1>. QED  BY <1>9, <1>10, <1>11, <1>12, <1>13 DEF IInv

\* What a read moves from the socket to the buffer stays in its place in the stream.
LEMMA Moved ==
  ASSUME NEW T, NEW b \in Seq(T), NEW w \in Seq(T), NEW n \in 0..Len(w)
  PROVE  (b \o SubSeq(w, 1, n)) \o SubSeq(w, n + 1, Len(w)) = b \o w
  <1>. DEFINE l == SubSeq(w, 1, n)
              r == SubSeq(w, n + 1, Len(w))
  <1>1. l \in Seq(T)
    OBVIOUS
  <1>2. r \in Seq(T)
    <2>1. n \in Nat /\ n <= Len(w)
      OBVIOUS
    <2>. QED  BY ONLY <2>1, w \in Seq(T), Dropped
  <1>3. l \o r = w
    <2>1. 1 \in 1..(Len(w) + 1) /\ n \in (1 - 1)..Len(w) /\ Len(w) \in n..Len(w)
      OBVIOUS
    <2>2. l \o r = SubSeq(w, 1, Len(w))
      BY ONLY <2>1, w \in Seq(T), ConcatAdjacentSubSeq
    <2>. HIDE DEF l, r
    <2>. QED  BY <2>2, SubSeqFull
  <1>. HIDE DEF l, r
  <1>4. (b \o l) \o r = b \o (l \o r)
    BY ONLY <1>1, <1>2, b \in Seq(T), ConcatAssociative
  <1>. QED  BY <1>3, <1>4 DEF l, r

LEMMA ReadInv == IInv /\ Read => IInv'
  <1>. SUFFICES ASSUME IInv, Read PROVE IInv'
    OBVIOUS
  <1>0. RxBuf \in Nat /\ rx \in Seq(Byte) /\ tcp \in Seq(Byte) /\ Len(rx) \in Nat /\ Len(tcp) \in Nat
    BY Arithmetic DEF IInv, InStream
  <1>1. PICK n \in 1..Room :
            /\ n <= Len(tcp)
            /\ rx' = rx \o SubSeq(tcp, 1, n) /\ tcp' = SubSeq(tcp, n + 1, Len(tcp))
    BY DEF Read
  <1>2. /\ sent' = sent /\ rxHaveLen' = rxHaveLen /\ in' = in /\ state' = state
        /\ handled' = handled /\ work' = TRUE /\ state \notin {"CLOSED", "SPOILT"}
    BY DEF Read, Over
  <1>3. n \in Nat /\ n >= 1 /\ n <= RxBuf - Len(rx) /\ n \in 0..Len(tcp)
    BY <1>0, <1>1 DEF Room
  <1>. DEFINE l == SubSeq(tcp, 1, n)
  <1>4. /\ l \in Seq(Byte) /\ Len(l) = n /\ \A i \in 1..n : l[i] = tcp[i]
        /\ rx' \o tcp' = rx \o tcp
    <2>1. /\ l \in Seq(Byte) /\ Len(l) = n /\ \A i \in 1..n : l[i] = tcp[i]
          /\ (rx \o l) \o SubSeq(tcp, n + 1, Len(tcp)) = rx \o tcp
      <3>1. rx \in Seq(Byte) /\ tcp \in Seq(Byte) /\ n \in 0..Len(tcp)
        BY <1>0, <1>3
      <3>2. /\ SubSeq(tcp, 1, n) \in Seq(Byte) /\ Len(SubSeq(tcp, 1, n)) = n
            /\ \A i \in 1..n : SubSeq(tcp, 1, n)[i] = tcp[i]
        BY ONLY <3>1
      <3>3. (rx \o SubSeq(tcp, 1, n)) \o SubSeq(tcp, n + 1, Len(tcp)) = rx \o tcp
        BY ONLY <3>1, Moved
      <3>. QED  BY ONLY <3>2, <3>3
    <2>. QED  BY <1>1, <2>1
  <1>5. /\ tcp' \in Seq(Byte) /\ Len(tcp') = Len(tcp) - n
        /\ \A j \in 1..Len(tcp') : tcp'[j] = tcp[j + n] /\ j + n \in 1..Len(tcp)
    <2>1. /\ tcp' \in Seq(Byte) /\ Len(tcp') = Len(tcp) - n
          /\ \A j \in 1..(Len(tcp) - n) : tcp'[j] = tcp[j + n]
      <3>1. tcp \in Seq(Byte) /\ n \in Nat /\ n <= Len(tcp)
        BY <1>0, <1>3
      <3>. QED  BY ONLY <1>1, <3>1, Dropped
    <2>2. \A j \in 1..(Len(tcp) - n) : j + n \in 1..Len(tcp)
      BY ONLY <1>0, <1>3
    <2>. QED  BY <2>1, <2>2
  <1>6. rx' = rx \o l
    BY <1>1
  <1>. HIDE DEF l
  <1>7. /\ rx' \in Seq(Byte) /\ Len(rx') = Len(rx) + n
        /\ \A j \in 1..Len(rx) : rx'[j] = rx[j]
        /\ \A i \in 1..n : rx'[Len(rx) + i] = tcp[i]
    <2>1. rx \in Seq(Byte) /\ l \in Seq(Byte)
      BY <1>0, <1>4
    <2>2. /\ rx \o l \in Seq(Byte) /\ Len(rx \o l) = Len(rx) + Len(l)
          /\ \A j \in 1..Len(rx) : (rx \o l)[j] = rx[j]
          /\ \A i \in 1..Len(l) : (rx \o l)[Len(rx) + i] = l[i]
      BY ONLY <2>1, Appended
    <2>. QED  BY ONLY <1>4, <1>6, <2>2
  <1>8. InStream'
    BY <1>2, <1>4, <1>5, <1>7 DEF IInv, InStream
  <1>9. First' = First /\ First \in Nat \ {0} /\ Active' = Active
    BY <1>2, Arithmetic DEF First, Active
  <1>10. rxHaveLen => state = "PACKETS" /\ Len(rx) >= First /\ Unit.total <= MaxPacket
    BY <1>2 DEF IInv, Keyed, Shaped
  <1>11. Spelled'
    <2>1. ASSUME NEW j \in 1..Len(tcp') PROVE tcp'[j][3] = "raw"
      BY <1>5 DEF IInv, Spelled
    <2>2. ASSUME NEW j \in 1..Len(rx')
          PROVE  (Known(j) => rx'[j][3] = "plain") /\ (~Known(j) => rx'[j][3] = "raw")
      <3>1. CASE j \in 1..Len(rx)
        BY <1>7, <3>1 DEF IInv, Spelled
      <3>2. CASE j \notin 1..Len(rx)
        <4>. DEFINE i == j - Len(rx)
        <4>1. i \in 1..n /\ Len(rx) + i = j /\ i \in 1..Len(tcp)
          BY <1>0, <1>3, <1>7, <3>2
        <4>. HIDE DEF i
        <4>2. rx'[j][3] = "raw"
          BY <1>7, <4>1 DEF IInv, Spelled
        <4>3. ~Known(j)
          <5>. SUFFICES ASSUME rxHaveLen, Active, j <= Block PROVE FALSE
            BY DEF Known
          <5>1. First = Block /\ Len(rx) >= First
            BY <1>10 DEF First
          <5>. QED  BY <1>0, <3>2, <5>1, Arithmetic
        <4>. QED  BY <4>2, <4>3
      <3>. QED  BY <3>1, <3>2
    <2>3. \A j : Known(j)' <=> Known(j)
      BY <1>2, <1>9 DEF Known
    <2>. QED  BY <2>1, <2>2, <2>3 DEF Spelled
  <1>12. Keyed'
    <2>1. rx # <<>> => Unit' = Unit
      <3>. SUFFICES ASSUME rx # <<>> PROVE Unit' = Unit
        OBVIOUS
      <3>1. 1 \in 1..Len(rx)
        BY <1>0
      <3>. QED  BY <1>2, <1>7, <3>1 DEF Unit
    <2>2. rxHaveLen => rx # <<>> /\ Len(rx') >= First
      BY <1>0, <1>3, <1>7, <1>9, <1>10
    <2>. QED  BY <1>2, <1>9, <1>10, <2>1, <2>2 DEF IInv, Keyed, NextKey, NextStart, NextSeq
  <1>13. Shaped' /\ RoomLeft'
    <2>1. Len(rx') <= RxBuf
      BY <1>0, <1>3, <1>7
    <2>. QED  BY <1>2, <2>1 DEF IInv, Shaped, RoomLeft, RxBuf
  <1>14. Ordered'
    BY <1>2 DEF IInv, Ordered
  <1>. QED  BY <1>8, <1>11, <1>12, <1>13, <1>14 DEF IInv
-----------------------------------------------------------------------------
(* One line or packet *)

LEMMA IdleInv == IInv /\ Idle /\ Len(rx) < RxBuf => IInv'
  <1>. SUFFICES ASSUME IInv, Idle, Len(rx) < RxBuf PROVE IInv'
    OBVIOUS
  <1>1. work' = FALSE /\ UNCHANGED <<sent, tcp, rx, rxHaveLen, in, state, handled>>
    BY DEF Idle
  <1>2. Ordered' /\ InStream'
    BY <1>1 DEF IInv, Ordered, InStream
  <1>3. Spelled'
    BY <1>1 DEF IInv, Spelled, Known, Active
  <1>4. Keyed'
    BY <1>1 DEF IInv, Keyed, NextKey, NextStart, NextSeq, Active, First, Unit
  <1>5. Shaped' /\ RoomLeft'
    BY <1>1 DEF IInv, Shaped, RoomLeft, RxBuf
  <1>. QED  BY <1>2, <1>3, <1>4, <1>5 DEF IInv

\* Nothing is done any more.
Stops ==
    /\ state' \in {"CLOSED", "SPOILT"}
    /\ UNCHANGED <<sent, tcp, rx, rxHaveLen, in, work, handled>>

LEMMA StopsInv == IInv /\ work /\ Stops => IInv'
  <1>. SUFFICES ASSUME IInv, work, Stops PROVE IInv'
    OBVIOUS
  <1>1. state' \in {"CLOSED", "SPOILT"} /\ UNCHANGED <<sent, tcp, rx, rxHaveLen, in, work, handled>>
    BY DEF Stops
  <1>2. Ordered' /\ InStream'
    BY <1>1 DEF IInv, Ordered, InStream
  <1>3. Spelled'
    BY <1>1 DEF IInv, Spelled, Known, Active
  <1>4. Keyed'
    BY <1>1 DEF IInv, Keyed
  <1>5. Shaped' /\ RoomLeft'
    BY <1>1 DEF IInv, Shaped, RoomLeft, RxBuf
  <1>. QED  BY <1>2, <1>3, <1>4, <1>5 DEF IInv

LEMMA ClosesInv == IInv /\ work /\ Closes => IInv'
  BY StopsInv DEF Closes, Stops

\* The first line feed in the buffer, if there is one, ends the line that is due; too many
\* bytes without one belong to a line over the limit.
LEMMA LineEnds ==
  ASSUME IInv, state = "VERSION"
  PROVE  /\ LineFeeds = {} =>
               \/ Len(rx) < LineMax
               \/ Len(handled) < Len(sent) /\ Due \in LineUnits /\ Due.total > LineMax
         /\ LineFeeds # {} =>
               /\ Len(handled) < Len(sent) /\ Due \in LineUnits /\ Unit = Due
               /\ Size(Due) \in 1..Len(rx)
               /\ (CHOOSE j \in LineFeeds : \A i \in LineFeeds : j <= i) = Size(Due)
  <1>0. rx \in Seq(Byte) /\ Len(rx) \in Nat /\ DOMAIN rx = 1..Len(rx) /\ LineMax \in Nat \ {0}
    BY Arithmetic DEF IInv, InStream
  <1>1. CASE rx = <<>>
    <2>1. Len(rx) = 0 /\ DOMAIN rx = {}
      BY <1>0, <1>1
    <2>2. LineFeeds = {}
      BY <2>1 DEF LineFeeds
    <2>. QED  BY <1>0, <2>1, <2>2
  <1>2. CASE rx # <<>>
    <2>. DEFINE n == Size(Due)
                h == Len(handled)
    <2>1. /\ h < Len(sent) /\ Unit = Due /\ n \in Nat \ {0}
          /\ \A j \in 1..Len(rx) : j <= n => rx[j][1] = h + 1 /\ rx[j][2] = j
      BY <1>2, RxBegins
    <2>2. Due \in LineUnits
      BY <2>1, DueUnit
    <2>3. IsLine(Due) /\ n = Due.total
      BY <2>2, LineFields
    <2>4. sent[h + 1] = Due
      BY DEF Due
    <2>. HIDE DEF n, h
    <2>5. ASSUME NEW j \in LineFeeds PROVE j \in 1..Len(rx) /\ n <= j
      <3>1. j \in 1..Len(rx) /\ rx[j][2] = sent[rx[j][1]].total
        BY <1>0 DEF LineFeeds
      <3>2. j <= n => j = n
        BY <2>1, <2>3, <2>4, <3>1
      <3>. QED  BY <1>0, <2>1, <3>1, <3>2
    <2>6. n <= Len(rx) => n \in LineFeeds
      <3>. SUFFICES ASSUME n <= Len(rx) PROVE n \in LineFeeds
        OBVIOUS
      <3>1. n \in 1..Len(rx) /\ n <= n
        BY <1>0, <2>1
      <3>2. rx[n][1] = h + 1 /\ rx[n][2] = n
        BY <2>1, <3>1
      <3>. QED  BY <1>0, <2>3, <2>4, <3>1, <3>2 DEF LineFeeds
    <2>7. LineFeeds = {} => Len(rx) < LineMax \/ Due.total > LineMax
      BY <1>0, <2>1, <2>3, <2>6
    <2>8. ASSUME LineFeeds # {}
          PROVE  n \in 1..Len(rx) /\ (CHOOSE j \in LineFeeds : \A i \in LineFeeds : j <= i) = n
      <3>1. n \in 1..Len(rx)
        <4>1. PICK j \in LineFeeds : TRUE
          BY <2>8
        <4>. QED  BY <1>0, <2>1, <2>5, <4>1
      <3>2. n \in LineFeeds
        BY <1>0, <2>6, <3>1
      <3>3. \A j \in LineFeeds : (\A i \in LineFeeds : j <= i) => j = n
        <4>. SUFFICES ASSUME NEW j \in LineFeeds, j <= n PROVE j = n
          BY <3>2
        <4>. QED  BY <1>0, <2>1, <2>5
      <3>4. \A i \in LineFeeds : n <= i
        BY <2>5
      <3>. QED  BY <3>1, <3>2, <3>3, <3>4
    <2>. QED  BY <2>1, <2>2, <2>7, <2>8 DEF n, h
  <1>. QED  BY <1>1, <1>2

\* Deciphering the buffer leaves the stream what it is.
LEMMA Respelled ==
  ASSUME IInv, NEW s \in Seq(Byte), Len(s) = Len(rx),
         \A j \in 1..Len(rx) : s[j][1] = rx[j][1] /\ s[j][2] = rx[j][2]
  PROVE  Streamed(s \o tcp, Len(handled), sent)
  <1>. DEFINE b == rx \o tcp
              c == s \o tcp
              h == Len(handled)
  <1>0. /\ rx \in Seq(Byte) /\ tcp \in Seq(Byte) /\ Len(rx) \in Nat /\ Len(tcp) \in Nat
        /\ Streamed(b, h, sent)
    BY DEF IInv, InStream
  <1>1. /\ b \in Seq(Byte) /\ Len(b) = Len(rx) + Len(tcp)
        /\ \A j \in 1..Len(rx) : b[j] = rx[j]
        /\ \A i \in 1..Len(tcp) : b[Len(rx) + i] = tcp[i]
    BY ONLY <1>0, Appended
  <1>2. /\ c \in Seq(Byte) /\ Len(c) = Len(rx) + Len(tcp)
        /\ \A j \in 1..Len(rx) : c[j] = s[j]
        /\ \A i \in 1..Len(tcp) : c[Len(rx) + i] = tcp[i]
    <2>1. /\ c \in Seq(Byte) /\ Len(c) = Len(s) + Len(tcp)
          /\ \A j \in 1..Len(s) : c[j] = s[j]
          /\ \A i \in 1..Len(tcp) : c[Len(s) + i] = tcp[i]
      BY ONLY <1>0, s \in Seq(Byte), Appended
    <2>. HIDE DEF c
    <2>. QED  BY <2>1
  <1>. HIDE DEF b, c, h
  <1>3. ASSUME NEW j \in 1..Len(b) PROVE c[j][1] = b[j][1] /\ c[j][2] = b[j][2]
    <2>1. CASE j \in 1..Len(rx)
      BY <1>1, <1>2, <2>1
    <2>2. CASE j \notin 1..Len(rx)
      <3>. DEFINE i == j - Len(rx)
      <3>1. i \in 1..Len(tcp) /\ Len(rx) + i = j
        BY <1>0, <1>1, <2>2
      <3>. HIDE DEF i
      <3>. QED  BY <1>1, <1>2, <3>1
    <2>. QED  BY <2>1, <2>2
  <1>4. Streamed(c, h, sent)
    <2>1. c \in Seq(Byte) /\ Len(c) = Len(b)
      BY <1>1, <1>2
    <2>. QED  BY ONLY <1>0, <1>3, <2>1, StreamedStays
  <1>. QED  BY <1>4 DEF c, h

LEMMA Taken ==
  ASSUME NEW T, NEW s \in Seq(T), NEW w \in Seq(T), NEW n \in Nat, n <= Len(s)
  PROVE  SubSeq(s, n + 1, Len(s)) \o w = SubSeq(s \o w, n + 1, Len(s \o w))
  <1>. DEFINE a == SubSeq(s, n + 1, Len(s))
              b == s \o w
              c == SubSeq(b, n + 1, Len(b))
  <1>1. a \in Seq(T) /\ Len(a) = Len(s) - n /\ \A j \in 1..(Len(s) - n) : a[j] = s[j + n]
    BY Dropped
  <1>2. /\ b \in Seq(T) /\ Len(b) = Len(s) + Len(w)
        /\ \A j \in 1..Len(s) : b[j] = s[j]
        /\ \A i \in 1..Len(w) : b[Len(s) + i] = w[i]
    BY Appended
  <1>0. Len(s) \in Nat /\ Len(w) \in Nat
    OBVIOUS
  <1>. HIDE DEF b
  <1>3. c \in Seq(T) /\ Len(c) = Len(b) - n /\ \A j \in 1..(Len(b) - n) : c[j] = b[j + n]
    <2>1. n <= Len(b)
      BY <1>0, <1>2
    <2>. QED  BY <1>2, <2>1, Dropped
  <1>. HIDE DEF a, c
  <1>4. /\ a \o w \in Seq(T) /\ Len(a \o w) = Len(a) + Len(w)
        /\ \A j \in 1..Len(a) : (a \o w)[j] = a[j]
        /\ \A i \in 1..Len(w) : (a \o w)[Len(a) + i] = w[i]
    <2>1. a \in Seq(T)
      BY <1>1
    <2>. QED  BY ONLY <2>1, w \in Seq(T), Appended
  <1>. DEFINE d == a \o w
  <1>. HIDE DEF d
  <1>5. d \in Seq(T) /\ Len(d) = Len(c)
    BY <1>0, <1>1, <1>2, <1>3, <1>4 DEF d
  <1>6. ASSUME NEW j \in 1..Len(d) PROVE d[j] = c[j]
    <2>0. Len(d) = Len(s) - n + Len(w) /\ Len(a) = Len(s) - n
      BY <1>0, <1>1, <1>4 DEF d
    <2>1. CASE j \in 1..Len(a)
      <3>1. j \in 1..(Len(s) - n) /\ j + n \in 1..Len(s) /\ j \in 1..(Len(b) - n)
        BY <1>0, <1>2, <2>0, <2>1
      <3>2. d[j] = a[j]
        BY <1>4, <2>1 DEF d
      <3>. QED  BY <1>1, <1>2, <1>3, <3>1, <3>2
    <2>2. CASE j \notin 1..Len(a)
      <3>. DEFINE i == j - Len(a)
      <3>1. /\ i \in 1..Len(w) /\ Len(a) + i = j /\ j + n = Len(s) + i
            /\ j \in 1..(Len(b) - n)
        BY <1>0, <1>2, <2>0, <2>2
      <3>. HIDE DEF i
      <3>2. d[Len(a) + i] = w[i]
        BY <1>4, <3>1 DEF d
      <3>. QED  BY <1>2, <1>3, <3>1, <3>2
    <2>. QED  BY <2>1, <2>2
  <1>7. d = c
    BY ONLY <1>3, <1>5, <1>6, SeqEqual
  <1>. QED  BY <1>2, <1>7 DEF a, b, c, d

\* The unit that is due leaves the buffer, handled.
LEMMA Consumed ==
  ASSUME IInv, Len(handled) < Len(sent), NEW s \in Seq(Byte), Len(s) = Len(rx),
         \A j \in 1..Len(rx) : s[j][1] = rx[j][1] /\ s[j][2] = rx[j][2],
         NEW n, n = Size(Due), n <= Len(rx), rx' = SubSeq(s, n + 1, Len(s)),
         handled' = Append(handled, Due), UNCHANGED <<sent, tcp>>
  PROVE  /\ InStream' /\ n \in Nat \ {0} /\ Len(rx') = Len(rx) - n
         /\ \A j \in 1..Len(rx') : rx'[j] = s[j + n] /\ j + n \in 1..Len(rx)
         /\ Len(handled') = Len(handled) + 1 /\ sent'[Len(handled')] = Due
  <1>. DEFINE h == Len(handled)
  <1>0. /\ sent \in Seq(Units) /\ handled \in Seq(Units) /\ tcp \in Seq(Byte)
        /\ Len(rx) \in Nat /\ h \in Nat /\ Due \in Units /\ n \in Nat \ {0}
    <2>1. Due \in Units /\ h \in Nat
      BY DueUnit
    <2>2. n \in Nat \ {0}
      BY <2>1, UnitFields
    <2>. QED  BY <2>1, <2>2 DEF IInv, InStream, Ordered
  <1>1. Due = sent[h + 1]
    BY DEF Due
  <1>2. Streamed(s \o tcp, h, sent)
    BY Respelled
  <1>3. Streamed(SubSeq(s \o tcp, n + 1, Len(s \o tcp)), h + 1, sent)
    <2>. HIDE DEF h
    <2>1. h < Len(sent) /\ n = Size(sent[h + 1])
      BY <1>1 DEF h
    <2>. QED  BY ONLY <1>0, <1>2, <2>1, UnitTaken
  <1>4. rx' \o tcp' = SubSeq(s \o tcp, n + 1, Len(s \o tcp))
    BY ONLY <1>0, s \in Seq(Byte), n <= Len(rx), Len(s) = Len(rx), UNCHANGED <<sent, tcp>>,
            rx' = SubSeq(s, n + 1, Len(s)), Taken
  <1>5. /\ handled' \in Seq(Units) /\ Len(handled') = h + 1
    BY <1>0
  <1>6. /\ rx' \in Seq(Byte) /\ Len(rx') = Len(s) - n
        /\ \A j \in 1..(Len(s) - n) : rx'[j] = s[j + n]
    <2>1. n \in Nat /\ n <= Len(s)
      BY <1>0
    <2>. QED  BY ONLY <2>1, s \in Seq(Byte), rx' = SubSeq(s, n + 1, Len(s)), Dropped
  <1>7. \A j \in 1..(Len(rx) - n) : j + n \in 1..Len(rx)
    BY <1>0
  <1>8. InStream'
    BY <1>0, <1>3, <1>4, <1>5, <1>6 DEF InStream
  <1>. QED  BY <1>0, <1>1, <1>5, <1>6, <1>7, <1>8

LEMMA PartialLineInv ==
  IInv /\ PartialLine =>
    /\ IInv'
    /\ \/ Idle
       \/ Closes /\ ~Over /\ Len(handled) < Len(sent) /\ Due \in LineUnits /\ Due.total > LineMax
  <1>. SUFFICES ASSUME IInv, PartialLine
                PROVE  /\ IInv'
                       /\ \/ Idle
                          \/ /\ Closes /\ ~Over /\ Len(handled) < Len(sent)
                             /\ Due \in LineUnits /\ Due.total > LineMax
    OBVIOUS
  <1>1. /\ Len(rx) \in Nat /\ work /\ ~Over
        /\ IF Len(rx) >= LineMax THEN Closes ELSE Idle
        /\ \/ Len(rx) < LineMax
           \/ Len(handled) < Len(sent) /\ Due \in LineUnits /\ Due.total > LineMax
    BY LineEnds DEF PartialLine, Over, IInv, InStream
  <1>2. CASE Len(rx) >= LineMax
    <2>1. Closes /\ ~(Len(rx) < LineMax)
      BY <1>1, <1>2, Arithmetic
    <2>. QED  BY <1>1, <2>1, ClosesInv
  <1>3. CASE ~(Len(rx) >= LineMax)
    <2>1. Idle /\ Len(rx) < RxBuf
      BY <1>1, <1>3, Arithmetic
    <2>. QED  BY <2>1, IdleInv
  <1>. QED  BY <1>2, <1>3

LEMMA NoHeaderInv == IInv /\ NoHeader => IInv' /\ Idle
  <1>. SUFFICES ASSUME IInv, NoHeader PROVE IInv' /\ Idle
    OBVIOUS
  <1>1. Len(rx) \in Nat
    BY DEF IInv, InStream
  <1>2. Len(rx) < RxBuf
    BY <1>1, Arithmetic DEF NoHeader
  <1>. QED  BY <1>2, IdleInv DEF NoHeader

\* A line is handled; or its version ends the connection or does not fit.
LEMMA WholeLineInv ==
  IInv /\ WholeLine =>
    /\ IInv' /\ Len(handled) < Len(sent) /\ Due \in LineUnits /\ ~Over
    /\ \/ Stops /\ (Due.kind = "oldversion" \/ Due.total > LineMax)
       \/ handled' = Append(handled, Due) /\ Due.kind # "oldversion" /\ sent' = sent /\ ~Over'
  <1>. SUFFICES ASSUME IInv, WholeLine
                PROVE  /\ IInv' /\ Len(handled) < Len(sent) /\ Due \in LineUnits /\ ~Over
                       /\ \/ Stops /\ (Due.kind = "oldversion" \/ Due.total > LineMax)
                          \/ /\ handled' = Append(handled, Due) /\ Due.kind # "oldversion"
                             /\ sent' = sent /\ ~Over'
    OBVIOUS
  <1>. DEFINE n == Size(Due)
  <1>1. /\ Len(handled) < Len(sent) /\ Due \in LineUnits /\ Unit = Due /\ n \in 1..Len(rx)
        /\ (CHOOSE j \in LineFeeds : \A i \in LineFeeds : j <= i) = n
        /\ work /\ state = "VERSION" /\ ~Over
    BY LineEnds DEF WholeLine, Over
  <1>. HIDE DEF n
  <1>2. CASE Stops /\ (Due.kind = "oldversion" \/ Due.total > LineMax)
    <2>1. IInv'
      BY <1>1, <1>2, StopsInv
    <2>. QED  BY <1>1, <1>2, <2>1
  <1>3. CASE /\ Due.kind # "oldversion" /\ LineDone(n)
             /\ state' = IF Due.kind = "version" THEN "PACKETS" ELSE state
    <2>1. /\ state' = IF Due.kind = "version" THEN "PACKETS" ELSE state
          /\ rx' = SubSeq(rx, n + 1, Len(rx)) /\ handled' = Append(handled, Due)
          /\ UNCHANGED <<sent, tcp, rxHaveLen, in, work>>
      BY <1>1, <1>3 DEF LineDone
    <2>2. /\ rx \in Seq(Byte) /\ Len(rx) \in Nat /\ n \in Nat /\ n <= Len(rx) /\ state = "VERSION"
      BY <1>1 DEF IInv, InStream, WholeLine
    <2>3. /\ InStream' /\ n \in Nat \ {0} /\ Len(rx') = Len(rx) - n
          /\ \A j \in 1..Len(rx') : rx'[j] = rx[j + n] /\ j + n \in 1..Len(rx)
          /\ Len(handled') = Len(handled) + 1 /\ sent'[Len(handled')] = Due
      <3>1. n = Size(Due)
        BY DEF n
      <3>. QED  BY ONLY <1>1, <2>1, <2>2, <3>1, IInv, Consumed
    <2>4. /\ in = [key |-> 0, pos |-> 0, seq |-> 0] /\ ~rxHaveLen /\ ~Active
      BY <2>2 DEF IInv, Keyed, Active
    <2>5. Len(handled) \in Nat /\ Len(handled') > 0
      BY <1>1, <2>3, DueUnit
    <2>6. Spelled'
      <3>1. ~Known(0) /\ (\A j : ~Known(j)) /\ (\A j : ~Known(j)')
        BY <2>1, <2>4 DEF Known
      <3>. QED  BY <2>1, <2>3, <3>1 DEF IInv, Spelled
    <2>7. Keyed'
      <3>1. CASE Due.kind = "version"
        <4>1. state' = "PACKETS" /\ NextKey(Due) = 0 /\ NextSeq(Due) = 0 /\ ~Active' /\ ~rxHaveLen'
          <5>1. Due.key = 0
            BY <1>1, LineFields
          <5>. QED  BY <2>1, <2>4, <3>1, <5>1 DEF NextKey, NextSeq, Active
        <4>2. /\ in'.key = 0 /\ in'.seq = 0 /\ in' \in [key : 0..MaxUnits, pos : Nat, seq : Nat]
          BY <2>1, <2>4 DEF IInv, Keyed
        <4>. QED  BY <2>3, <2>5, <3>1, <4>1, <4>2 DEF Keyed, NextKey, NextSeq
      <3>2. CASE Due.kind # "version"
        <4>1. Due.kind = "line"
          BY <1>1, <1>3, <3>2, LineFields
        <4>. QED  BY <2>1, <2>2, <2>3, <2>4, <3>2, <4>1 DEF IInv, Keyed
      <3>. QED  BY <3>1, <3>2
    <2>8. Shaped' /\ RoomLeft'
      <3>1. Len(rx') <= RxBuf
        BY <2>2, <2>3, Arithmetic DEF IInv, Shaped
      <3>. QED  BY <2>1, <2>2, <3>1 DEF IInv, Shaped, RoomLeft, RxBuf, WholeLine
    <2>9. Ordered'
      BY <2>1 DEF IInv, Ordered
    <2>10. ~Over'
      BY <2>1, <2>2 DEF Over
    <2>. QED  BY <1>1, <1>3, <2>1, <2>3, <2>6, <2>7, <2>8, <2>9, <2>10 DEF IInv
  <1>4. \/ Due.kind = "oldversion" /\ Closes
        \/ Due.kind = "line" /\ LineDone(n) /\ UNCHANGED state
        \/ /\ Due.kind = "version"
           /\ \E end \in {1, 2} :
                IF Due.total - end < VersionBuf
                  THEN LineDone(n) /\ state' = "PACKETS"
                  ELSE state' = "SPOILT" /\ UNCHANGED <<sent, tcp, rx, rxHaveLen, in, work, handled>>
    BY <1>1 DEF WholeLine
  <1>5. CASE Due.kind = "oldversion" /\ Closes
    BY <1>2, <1>5 DEF Closes, Stops
  <1>6. CASE Due.kind = "line" /\ LineDone(n) /\ UNCHANGED state
    BY <1>3, <1>6
  <1>7. ASSUME Due.kind = "version", NEW end \in {1, 2},
               IF Due.total - end < VersionBuf
                 THEN LineDone(n) /\ state' = "PACKETS"
                 ELSE state' = "SPOILT" /\ UNCHANGED <<sent, tcp, rx, rxHaveLen, in, work, handled>>
        PROVE  \/ Stops /\ (Due.kind = "oldversion" \/ Due.total > LineMax)
               \/ /\ Due.kind # "oldversion" /\ LineDone(n)
                  /\ state' = IF Due.kind = "version" THEN "PACKETS" ELSE state
    <2>1. CASE Due.total - end < VersionBuf
      BY <1>7, <2>1
    <2>2. CASE ~(Due.total - end < VersionBuf)
      <3>1. Stops
        BY <1>7, <2>2 DEF Stops
      <3>2. Due.total \in Nat
        BY <1>1, LineFields
      <3>3. Due.total > LineMax
        BY <2>2, <3>2, Arithmetic
      <3>. QED  BY <3>1, <3>3
    <2>. QED  BY <2>1, <2>2
  <1>. QED  BY <1>2, <1>3, <1>4, <1>5, <1>6, <1>7

\* Bytes a to b of the buffer are as they came; s has them deciphered and is the buffer else.
RawIn(a, b) == \A j \in 1..Len(rx) : j \in a..b => rx[j][3] = "raw"
Reads(s, a, b) ==
    /\ s \in Seq(Byte) /\ Len(s) = Len(rx)
    /\ \A j \in 1..Len(rx) : s[j][1] = rx[j][1] /\ s[j][2] = rx[j][2]
    /\ \A j \in 1..Len(rx) : j \in a..b => s[j][3] = "plain"
    /\ \A j \in 1..Len(rx) : j \notin a..b => s[j] = rx[j]

\* AES-CTR makes bytes a to b of the packet that is due readable, when the key stream stands
\* where they were sealed.
LEMMA Deciphers ==
  ASSUME IInv, state = "PACKETS", rx # <<>>, NEW a \in Nat \ {0}, NEW b \in Nat,
         b <= Due.total, NEW from, from = Due.start + a - 1,
         RawIn(a, b), NEW s, s = Deciphered(rx, a, b, from)
  PROVE  Reads(s, a, b)
  <1>0. rx \in Seq(Byte) /\ Len(rx) \in Nat /\ DOMAIN rx = 1..Len(rx)
    BY DEF IInv, InStream
  <1>1. /\ Len(handled) < Len(sent) /\ Size(Due) \in Nat \ {0}
        /\ \A j \in 1..Len(rx) : j <= Size(Due) => rx[j][1] = Len(handled) + 1 /\ rx[j][2] = j
    BY RxBegins
  <1>2. Due \in Packets /\ Due.key = in.key /\ sent[Len(handled) + 1] = Due
    BY <1>1, DueUnit DEF Due
  <1>3. Due.total \in Nat /\ Due.start \in Nat /\ Due.total <= Size(Due)
    <2>1. Due \in Units
      BY <1>2, PacketFields
    <2>. QED  BY <2>1, UnitFields
  <1>4. /\ DOMAIN s = 1..Len(rx)
        /\ \A j \in 1..Len(rx) : j \notin a..b => s[j] = rx[j]
    BY <1>0 DEF Deciphered
  <1>5. ASSUME NEW j \in 1..Len(rx), j \in a..b
        PROVE  s[j] = <<rx[j][1], rx[j][2], "plain">>
    <2>1. /\ rx[j][1] = Len(handled) + 1 /\ rx[j][2] = j /\ rx[j][3] = "raw"
      <3>1. j <= Size(Due)
        BY <1>0, <1>1, <1>3, <1>5
      <3>. QED  BY <1>1, <1>5, <3>1 DEF RawIn
    <2>2. j <= Due.total /\ Due.start + j = from + j - a + 1
      BY <1>3, <1>5
    <2>. QED  BY <1>0, <1>2, <1>5, <2>1, <2>2 DEF Deciphered
  <1>6. ASSUME NEW j \in 1..Len(rx)
        PROVE  s[j] \in Byte /\ s[j][1] = rx[j][1] /\ s[j][2] = rx[j][2]
    <2>1. rx[j] \in Byte
      BY <1>0
    <2>2. CASE j \in a..b
      BY <1>5, <2>1, <2>2 DEF Byte
    <2>3. CASE j \notin a..b
      BY <1>4, <2>1, <2>3
    <2>. QED  BY <2>2, <2>3
  <1>7. s \in Seq(Byte) /\ Len(s) = Len(rx)
    <2>1. s = [j \in 1..Len(rx) |-> s[j]]
      BY <1>0 DEF Deciphered
    <2>2. s \in [1..Len(rx) -> Byte]
      BY <1>6, <2>1
    <2>. QED  BY ONLY <1>0, <2>2
  <1>8. \A j \in 1..Len(rx) : j \in a..b => s[j][3] = "plain"
    BY <1>5
  <1>. QED  BY <1>4, <1>6, <1>7, <1>8 DEF Reads

\* A length is always readable, so only one that is out of range ends the connection.
LEMMA HeaderInv ==
  IInv /\ Header =>
    /\ IInv' /\ Len(handled) < Len(sent) /\ Due \in Packets
    /\ \/ Closes /\ ~(Due.total <= MaxPacket)
       \/ UNCHANGED <<sent, handled, state>>
  <1>. SUFFICES ASSUME IInv, Header
                PROVE  /\ IInv' /\ Len(handled) < Len(sent) /\ Due \in Packets
                       /\ \/ Closes /\ ~(Due.total <= MaxPacket)
                          \/ UNCHANGED <<sent, handled, state>>
    OBVIOUS
  <1>. DEFINE s == IF Active THEN Deciphered(rx, 1, Block, in.pos) ELSE rx
  <1>0. /\ rx \in Seq(Byte) /\ Len(rx) \in Nat /\ state = "PACKETS" /\ ~rxHaveLen
        /\ Len(rx) >= First /\ work
    BY DEF IInv, InStream, Header
  <1>1. rx # <<>> /\ 1 \in 1..Len(rx)
    BY <1>0, Arithmetic
  <1>2. /\ Len(handled) < Len(sent) /\ Unit = Due /\ Size(Due) \in Nat \ {0}
        /\ \A j \in 1..Len(rx) : j <= Size(Due) => rx[j][1] = Len(handled) + 1 /\ rx[j][2] = j
    BY <1>1, RxBegins
  <1>3. /\ Due \in Packets /\ Due \in Units /\ Due.total >= Block /\ Due.total \in Nat
        /\ Due.total <= Size(Due) /\ Due.start \in Nat /\ (Active => in.pos = Due.start)
    <2>1. Due \in Packets /\ (Active => in.pos = Due.start)
      BY <1>0, <1>2, DueUnit
    <2>2. Due \in Units /\ Due.total >= Block
      BY <2>1, PacketFields
    <2>. QED  BY <2>1, <2>2, UnitFields
  <1>4. \A j \in 1..Len(rx) : rx[j][3] = "raw"
    BY <1>0 DEF IInv, Spelled, Known
  <1>5. /\ s \in Seq(Byte) /\ Len(s) = Len(rx)
        /\ \A j \in 1..Len(rx) : s[j][1] = rx[j][1] /\ s[j][2] = rx[j][2]
        /\ \A j \in 1..Len(rx) : Active /\ j <= Block => s[j][3] = "plain"
        /\ \A j \in 1..Len(rx) : ~(Active /\ j <= Block) => s[j][3] = "raw"
    <2>1. CASE Active
      <3>. DEFINE a == 1
                  b == Block
      <3>1. a \in Nat \ {0} /\ b \in Nat /\ b <= Due.total /\ in.pos = Due.start + a - 1
        BY <1>3, <2>1, Arithmetic
      <3>2. Reads(s, a, b)
        <4>1. s = Deciphered(rx, a, b, in.pos)
          BY <2>1
        <4>2. RawIn(a, b)
          BY <1>4 DEF RawIn
        <4>3. state = "PACKETS" /\ rx # <<>>
          BY <1>0, <1>1
        <4>. HIDE DEF s, a, b
        <4>. QED  BY ONLY IInv, <3>1, <4>1, <4>2, <4>3, Deciphers
      <3>3. \A j \in 1..Len(rx) : j <= Block <=> j \in 1..Block
        BY <1>0, Arithmetic
      <3>. HIDE DEF s
      <3>. QED  BY <1>4, <2>1, <3>2, <3>3 DEF Reads
    <2>2. CASE ~Active
      <3>1. s = rx
        BY <2>2
      <3>. HIDE DEF s
      <3>. QED  BY <1>0, <1>4, <2>2, <3>1
    <2>. QED  BY <2>1, <2>2
  <1>6. Readable(s, 1, Clear)
    <2>. HIDE DEF s
    <2>. SUFFICES ASSUME NEW j \in 1..Clear
                  PROVE  /\ s[j][1] = s[1][1] /\ s[j][2] = j
                         /\ s[j][3] = IF Active THEN "plain" ELSE "raw"
      BY DEF Readable
    <2>1. j <= First /\ j <= Block /\ j \in Nat /\ j >= 1
      BY Arithmetic, RxAssumption DEF First
    <2>2. j \in 1..Len(rx) /\ j <= Size(Due) /\ 1 <= Size(Due)
      BY <1>0, <1>2, <1>3, <2>1, Arithmetic
    <2>3. rx[j][1] = Len(handled) + 1 /\ rx[j][2] = j /\ rx[1][1] = Len(handled) + 1
      BY <1>1, <1>2, <2>2
    <2>. QED  BY <1>1, <1>5, <2>1, <2>2, <2>3
  <1>7. CASE Due.total <= MaxPacket
    <2>1. /\ rx' = s /\ rxHaveLen' = TRUE
          /\ in' = IF Active THEN [in EXCEPT !.pos = @ + Block] ELSE in
          /\ UNCHANGED <<sent, tcp, state, work, handled>>
      BY <1>2, <1>6, <1>7 DEF Header
    <2>. HIDE DEF s
    <2>2. InStream'
      <3>1. Streamed(s \o tcp, Len(handled), sent)
        BY ONLY IInv, <1>5, Respelled
      <3>. QED  BY <1>5, <2>1, <3>1 DEF IInv, InStream
    <2>3. in \in [key : 0..MaxUnits, pos : Nat, seq : Nat] /\ Block \in Nat
      BY Arithmetic DEF IInv, Keyed
    <2>4. /\ in' \in [key : 0..MaxUnits, pos : Nat, seq : Nat]
          /\ in'.key = in.key /\ in'.seq = in.seq /\ Active' = Active /\ First' = First
          /\ Active => in'.pos = in.pos + Block
      <3>1. CASE Active
        <4>1. in' = [in EXCEPT !.pos = @ + Block]
          BY <2>1, <3>1
        <4>. QED  BY <2>3, <4>1 DEF Active, First
      <3>2. CASE ~Active
        <4>1. in' = in
          BY <2>1, <3>2
        <4>. QED  BY <2>3, <3>2, <4>1 DEF Active, First
      <3>. QED  BY <3>1, <3>2
    <2>5. Spelled'
      <3>1. \A j : Known(j)' <=> Active /\ j <= Block
        BY <2>1, <2>4 DEF Known
      <3>2. \A j \in 1..Len(rx') : /\ (Known(j)' => rx'[j][3] = "plain")
                                   /\ (~Known(j)' => rx'[j][3] = "raw")
        BY <1>5, <2>1, <3>1
      <3>. QED  BY <2>1, <3>2 DEF IInv, Spelled
    <2>6. Keyed'
      <3>1. Unit' = Unit
        BY <1>1, <1>5, <2>1 DEF Unit
      <3>2. Len(rx') >= First' /\ Unit'.total <= MaxPacket
        BY <1>0, <1>2, <1>5, <1>7, <2>1, <2>4, <3>1
      <3>. QED  BY <1>0, <2>1, <2>4, <3>2 DEF IInv, Keyed, NextKey, NextStart, NextSeq
    <2>7. Shaped' /\ RoomLeft' /\ Ordered'
      BY <1>0, <1>5, <2>1 DEF IInv, Shaped, RoomLeft, RxBuf, Ordered
    <2>. QED  BY <1>2, <1>3, <2>1, <2>2, <2>5, <2>6, <2>7 DEF IInv
  <1>8. CASE ~(Due.total <= MaxPacket)
    <2>1. Closes
      BY <1>2, <1>8 DEF Header
    <2>. QED  BY <1>0, <1>2, <1>3, <1>8, <2>1, ClosesInv
  <1>. QED  BY <1>7, <1>8

LEMMA NotAllInv == IInv /\ NotAll => IInv' /\ Idle
  <1>. SUFFICES ASSUME IInv, NotAll PROVE IInv' /\ Idle
    OBVIOUS
  <1>1. state = "PACKETS" /\ rxHaveLen /\ ~(Len(rx) >= Need) /\ Idle /\ Len(rx) \in Nat
    BY DEF IInv, InStream, NotAll, Whole
  <1>2. Len(rx) >= First /\ Unit.total <= MaxPacket
    BY <1>1 DEF IInv, Keyed
  <1>3. rx # <<>>
    BY <1>1, <1>2, Arithmetic
  <1>4. Unit = Due /\ Len(handled) < Len(sent)
    BY <1>3, RxBegins
  <1>5. Due.total \in Nat /\ Due.total <= MaxPacket
    <2>1. Due \in Units
      BY <1>4, DueUnit
    <2>. QED  BY <1>2, <1>4, <2>1, UnitFields
  <1>6. MacLen[in.key] \in 0..Slack
    <2>1. in.key \in 0..MaxUnits
      BY DEF IInv, Keyed
    <2>. QED  BY <2>1, SizesAreSizes
  <1>7. Need = Due.total + MacLen[in.key]
    BY <1>4 DEF Need
  <1>8. Len(rx) < RxBuf
    <2>. DEFINE t == Due.total
                m == MacLen[in.key]
    <2>1. t \in Nat /\ t <= MaxPacket /\ m \in 0..Slack /\ ~(Len(rx) >= t + m)
      BY <1>1, <1>5, <1>6, <1>7
    <2>. HIDE DEF t, m
    <2>. QED  BY <1>1, <2>1, Arithmetic
  <1>. QED  BY <1>1, <1>8, IdleInv

\* The bytes of a whole packet, once the rest is deciphered: as they were sealed.
LEMMA Intact ==
  ASSUME IInv, Packet, Active,
         NEW s, s = Deciphered(rx, Block + 1, Unit.total, in.pos)
  PROVE  /\ s \in Seq(Byte) /\ Len(s) = Len(rx)
         /\ \A j \in 1..Len(rx) : s[j][1] = rx[j][1] /\ s[j][2] = rx[j][2]
         /\ \A j \in 1..Len(rx) : j > Unit.total => s[j] = rx[j]
         /\ Readable(s, 1, Unit.total) /\ Unit.key = in.key /\ Unit.seq = in.seq
         /\ \A j \in (Unit.total + 1)..Need : s[j] = <<s[1][1], j, "raw">>
  <1>0. /\ rx \in Seq(Byte) /\ Len(rx) \in Nat /\ state = "PACKETS" /\ rxHaveLen
        /\ Len(rx) >= Need /\ Len(rx) >= First
    BY DEF IInv, InStream, Packet, Whole, Keyed
  <1>1. rx # <<>> /\ 1 \in 1..Len(rx)
    BY <1>0, Arithmetic
  <1>2. /\ Len(handled) < Len(sent) /\ Unit = Due /\ Size(Due) \in Nat \ {0}
        /\ \A j \in 1..Len(rx) : j <= Size(Due) => rx[j][1] = Len(handled) + 1 /\ rx[j][2] = j
    BY <1>1, RxBegins
  <1>3. /\ Due \in Units /\ Due.total >= Block /\ Due.total \in Nat
        /\ Due.total <= Size(Due) /\ Due.start \in Nat /\ in.pos = Due.start + Block
        /\ Size(Due) = Need /\ Due.key = in.key /\ Due.seq = in.seq
    <2>1. Due \in Packets /\ in.pos = Due.start + Block /\ Due.key = in.key /\ Due.seq = in.seq
      BY <1>0, <1>2, DueUnit
    <2>2. Due \in Units /\ Due.total >= Block /\ Size(Due) = Due.total + MacLen[Due.key]
      BY <2>1, PacketFields
    <2>3. Need = Due.total + MacLen[Due.key]
      BY <1>2, <2>1 DEF Need
    <2>4. Due.total \in Nat /\ Due.total <= Size(Due) /\ Due.start \in Nat
      BY <2>2, UnitFields
    <2>. QED  BY ONLY <2>1, <2>2, <2>3, <2>4
  <1>4. ASSUME NEW j \in 1..Len(rx)
        PROVE  /\ j <= Block => rx[j][3] = "plain"
               /\ j > Block => rx[j][3] = "raw"
    <2>1. Known(j) <=> j <= Block
      BY <1>0 DEF Known
    <2>2. j > Block <=> ~(j <= Block)
      BY <1>0, Arithmetic
    <2>. QED  BY <2>1, <2>2 DEF IInv, Spelled
  <1>. DEFINE t == Due.total
  <1>5. /\ s \in Seq(Byte) /\ Len(s) = Len(rx)
        /\ \A j \in 1..Len(rx) : s[j][1] = rx[j][1] /\ s[j][2] = rx[j][2]
        /\ \A j \in 1..Len(rx) : j \in (Block + 1)..t => s[j][3] = "plain"
        /\ \A j \in 1..Len(rx) : j \notin (Block + 1)..t => s[j] = rx[j]
    <2>. DEFINE a == Block + 1
    <2>1. a \in Nat \ {0} /\ t \in Nat /\ t <= Due.total /\ in.pos = Due.start + a - 1
      BY <1>3, Arithmetic
    <2>2. RawIn(a, t)
      BY <1>0, <1>3, <1>4, Arithmetic DEF RawIn
    <2>3. s = Deciphered(rx, a, t, in.pos)
      BY <1>2
    <2>4. state = "PACKETS" /\ rx # <<>>
      BY <1>0, <1>1
    <2>. HIDE DEF a, t
    <2>5. Reads(s, a, t)
      BY ONLY IInv, <2>1, <2>2, <2>3, <2>4, Deciphers
    <2>. QED  BY <2>5 DEF a, Reads
  <1>6. t \in Nat /\ t >= Block /\ t <= Size(Due) /\ t <= Len(rx) /\ Size(Due) <= Len(rx)
    BY <1>0, <1>2, <1>3
  <1>. HIDE DEF t
  <1>7. s[1][1] = Len(handled) + 1
    BY <1>1, <1>2, <1>5, <1>6
  <1>8. Readable(s, 1, t)
    <2>. SUFFICES ASSUME NEW j \in 1..t
                  PROVE  s[j][1] = s[1][1] /\ s[j][2] = j /\ s[j][3] = "plain"
      BY DEF Readable
    <2>1. j \in 1..Len(rx) /\ j <= Size(Due)
      BY <1>0, <1>2, <1>6
    <2>2. s[j][1] = Len(handled) + 1 /\ s[j][2] = j
      BY <1>2, <1>5, <2>1
    <2>3. s[j][3] = "plain"
      <3>1. CASE j <= Block
        <4>1. j \notin (Block + 1)..t
          BY <1>6, <3>1, Arithmetic
        <4>. QED  BY <1>4, <1>5, <2>1, <3>1, <4>1
      <3>2. CASE ~(j <= Block)
        <4>1. j \in (Block + 1)..t
          BY <1>6, <3>2, Arithmetic
        <4>. QED  BY <1>5, <2>1, <4>1
      <3>. QED  BY <3>1, <3>2
    <2>. QED  BY <1>7, <2>2, <2>3
  <1>9. ASSUME NEW j \in 1..Len(rx), j > t PROVE s[j] = rx[j] /\ rx[j][3] = "raw"
    <2>1. j > Block /\ j \notin (Block + 1)..t
      BY <1>0, <1>6, <1>9, Arithmetic
    <2>. QED  BY <1>4, <1>5, <2>1
  <1>10. ASSUME NEW j \in (t + 1)..Size(Due) PROVE s[j] = <<s[1][1], j, "raw">>
    <2>1. j \in 1..Len(rx) /\ j > t /\ j <= Size(Due)
      BY <1>0, <1>2, <1>6
    <2>2. s[j] = rx[j] /\ rx[j][3] = "raw" /\ rx[j][1] = Len(handled) + 1 /\ rx[j][2] = j
      BY <1>2, <1>9, <2>1
    <2>3. rx[j] \in Byte
      BY <1>0, <2>1
    <2>4. rx[j] = <<rx[j][1], rx[j][2], rx[j][3]>>
      BY <2>3 DEF Byte
    <2>. QED  BY <1>7, <2>2, <2>4
  <1>. QED  BY <1>2, <1>3, <1>5, <1>8, <1>9, <1>10 DEF t

\* A packet that is whole passes the MAC and is handled; the keys then stand at the next.
LEMMA PacketInv ==
  IInv /\ Packet =>
    /\ IInv' /\ Len(handled) < Len(sent) /\ Due \in Packets /\ Due.total <= MaxPacket
    /\ handled' = Append(handled, Due) /\ sent' = sent
    /\ ~Over /\ ~Over'
  <1>. SUFFICES ASSUME IInv, Packet
                PROVE  /\ IInv' /\ Len(handled) < Len(sent) /\ Due \in Packets
                       /\ Due.total <= MaxPacket
                       /\ handled' = Append(handled, Due) /\ sent' = sent
                       /\ ~Over /\ ~Over'
    OBVIOUS
  <1>. DEFINE s == IF Active THEN Deciphered(rx, Block + 1, Unit.total, in.pos) ELSE rx
              n == Size(Due)
              h == Len(handled)
  <1>0. /\ rx \in Seq(Byte) /\ Len(rx) \in Nat /\ state = "PACKETS" /\ rxHaveLen
        /\ Len(rx) >= Need /\ Len(rx) >= First /\ work
        /\ Unit.total <= MaxPacket
    BY DEF IInv, InStream, Packet, Whole, Keyed
  <1>1. rx # <<>> /\ 1 \in 1..Len(rx)
    BY <1>0, Arithmetic
  <1>2. h < Len(sent) /\ Unit = Due
    BY <1>1, RxBegins
  <1>3. /\ Due \in Packets /\ Due.key = in.key /\ Due.seq = in.seq
        /\ (Active => in.pos = Due.start + Block)
        /\ h \in Nat /\ Len(sent) \in Nat /\ h + 1 \in 1..Len(sent)
    BY <1>0, <1>2, DueUnit
  <1>4. /\ Due \in Units /\ Due.kind \in {"data", "newkeys"} /\ Due.total >= Block
        /\ Size(Due) = Need
        /\ Due.total \in Nat /\ Due.key \in Nat /\ Due.start \in Nat /\ Due.seq \in Nat
        /\ Due.total <= n
    <2>1. /\ Due \in Units /\ Due.kind \in {"data", "newkeys"} /\ Due.total >= Block
          /\ Size(Due) = Due.total + MacLen[Due.key]
      BY <1>3, PacketFields
    <2>2. Need = Due.total + MacLen[Due.key]
      BY <1>2, <1>3 DEF Need
    <2>3. /\ Due.total \in Nat \ {0} /\ Due.key \in 0..MaxUnits /\ Due.start \in Nat
          /\ Due.seq \in Nat /\ Due.total <= n
      BY <2>1, UnitFields
    <2>4. Due.key \in Nat
      BY <2>3, Arithmetic
    <2>. QED  BY <2>1, <2>2, <2>3, <2>4
  <1>5. /\ s \in Seq(Byte) /\ Len(s) = Len(rx)
        /\ \A j \in 1..Len(rx) : s[j][1] = rx[j][1] /\ s[j][2] = rx[j][2]
        /\ \A j \in 1..Len(rx) : j > Due.total => s[j] = rx[j]
        /\ handled' = Append(handled, Due) /\ in' = After(Due)
        /\ rx' = SubSeq(s, n + 1, Len(s)) /\ rxHaveLen' = FALSE
        /\ UNCHANGED <<sent, tcp, state, work>>
    <2>1. CASE Active
      <3>. DEFINE d == Deciphered(rx, Block + 1, Unit.total, in.pos)
      <3>1. d = Deciphered(rx, Block + 1, Unit.total, in.pos) /\ s = d
        BY <2>1
      <3>. HIDE DEF d, s
      <3>2. /\ d \in Seq(Byte) /\ Len(d) = Len(rx)
            /\ \A j \in 1..Len(rx) : d[j][1] = rx[j][1] /\ d[j][2] = rx[j][2]
            /\ \A j \in 1..Len(rx) : j > Unit.total => d[j] = rx[j]
            /\ Readable(d, 1, Unit.total) /\ Unit.key = in.key /\ Unit.seq = in.seq
            /\ \A j \in (Unit.total + 1)..Need : d[j] = <<d[1][1], j, "raw">>
        BY <2>1, <3>1, Intact
      <3>3. /\ handled' = Append(handled, Unit) /\ in' = After(Unit)
            /\ rx' = SubSeq(d, Need + 1, Len(d)) /\ rxHaveLen' = FALSE
            /\ UNCHANGED <<sent, tcp, state, work>>
        BY <2>1, <3>2 DEF Packet, d
      <3>. QED  BY <1>2, <1>4, <3>1, <3>2, <3>3
    <2>2. CASE ~Active
      <3>1. s = rx
        BY <2>2
      <3>2. /\ handled' = Append(handled, Unit) /\ in' = After(Unit)
            /\ rx' = SubSeq(rx, Need + 1, Len(rx)) /\ rxHaveLen' = FALSE
            /\ UNCHANGED <<sent, tcp, state, work>>
        BY <2>2 DEF Packet
      <3>. HIDE DEF s
      <3>. QED  BY <1>0, <1>2, <1>4, <3>1, <3>2
    <2>. QED  BY <2>1, <2>2
  <1>. HIDE DEF s
  <1>6. /\ InStream' /\ n \in Nat \ {0} /\ Len(rx') = Len(rx) - n
        /\ \A j \in 1..Len(rx') : rx'[j] = s[j + n] /\ j + n \in 1..Len(rx)
        /\ Len(handled') = h + 1 /\ sent'[Len(handled')] = Due
    <2>1. n = Size(Due) /\ n <= Len(rx) /\ Len(handled) < Len(sent)
      BY <1>0, <1>2, <1>4
    <2>. HIDE DEF n
    <2>2. /\ s \in Seq(Byte) /\ Len(s) = Len(rx)
          /\ \A j \in 1..Len(rx) : s[j][1] = rx[j][1] /\ s[j][2] = rx[j][2]
          /\ rx' = SubSeq(s, n + 1, Len(s)) /\ handled' = Append(handled, Due)
          /\ UNCHANGED <<sent, tcp>>
      BY <1>5 DEF n
    <2>3. /\ InStream' /\ n \in Nat \ {0} /\ Len(rx') = Len(rx) - n
          /\ \A j \in 1..Len(rx') : rx'[j] = s[j + n] /\ j + n \in 1..Len(rx)
          /\ Len(handled') = Len(handled) + 1 /\ sent'[Len(handled')] = Due
      BY ONLY IInv, <2>1, <2>2, Consumed
    <2>. QED  BY <2>3
  <1>. HIDE DEF n
  <1>7. Spelled'
    <2>1. \A j : ~Known(j)'
      BY <1>5 DEF Known
    <2>2. ASSUME NEW j \in 1..Len(rx') PROVE rx'[j][3] = "raw"
      <3>1. j + n \in 1..Len(rx) /\ j + n > Due.total /\ j + n > Block /\ ~(j + n <= Block)
        <4>1. j \in Nat /\ j >= 1 /\ j + n \in 1..Len(rx)
          BY <1>0, <1>6
        <4>. QED  BY <1>4, <1>6, <4>1, Arithmetic
      <3>2. rx'[j] = rx[j + n]
        BY <1>5, <1>6, <3>1
      <3>. QED  BY <3>1, <3>2 DEF IInv, Spelled, Known
    <2>. QED  BY <1>5, <2>1, <2>2 DEF IInv, Spelled
  <1>8. /\ in' \in [key : 0..MaxUnits, pos : Nat, seq : Nat]
        /\ in'.key = NextKey(Due) /\ in'.seq = NextSeq(Due)
        /\ Active' => in'.pos = NextStart(Due)
    <2>1. in \in [key : 0..MaxUnits, pos : Nat, seq : Nat]
      BY DEF IInv, Keyed
    <2>2. CASE Due.kind = "newkeys"
      <3>1. in' = [key |-> in.key + 1, pos |-> 0, seq |-> in.seq + 1]
        BY <1>5, <2>2 DEF After
      <3>2. in.key + 1 \in 0..MaxUnits
        <4>1. Due.key < h + 1 /\ Len(sent) <= MaxUnits
          BY <1>3 DEF IInv, Ordered, Due
        <4>. QED  BY <1>3, <1>4, <4>1, Arithmetic
      <3>. QED  BY <1>3, <2>1, <2>2, <3>1, <3>2 DEF NextKey, NextSeq, NextStart
    <2>3. CASE Due.kind # "newkeys"
      <3>0. Due.kind = "data"
        BY <1>4, <2>3
      <3>1. CASE Active
        <4>1. in' = [in EXCEPT !.pos = @ + (Due.total - Block), !.seq = @ + 1]
          BY <1>5, <2>3, <3>1 DEF After
        <4>2. in.pos + (Due.total - Block) = Due.start + Due.total
          BY <1>3, <1>4, <3>1, Arithmetic
        <4>3. Due.start + Due.total \in Nat
          BY <1>4
        <4>4. /\ in' \in [key : 0..MaxUnits, pos : Nat, seq : Nat]
              /\ in'.key = in.key /\ in'.pos = Due.start + Due.total /\ in'.seq = in.seq + 1
          <5>1. in' = [key |-> in.key, pos |-> Due.start + Due.total, seq |-> in.seq + 1]
            BY <2>1, <4>1, <4>2
          <5>. QED  BY <2>1, <4>3, <5>1
        <4>5. NextKey(Due) = Due.key /\ NextSeq(Due) = Due.seq + 1
              /\ NextStart(Due) = Due.start + Due.total
          BY <1>4, <3>0 DEF NextKey, NextSeq, NextStart
        <4>. QED  BY <1>3, <4>4, <4>5
      <3>2. CASE ~Active
        <4>1. in' = [in EXCEPT !.pos = @ + 0, !.seq = @ + 1]
          BY <1>5, <2>3, <3>2 DEF After
        <4>2. /\ in' \in [key : 0..MaxUnits, pos : Nat, seq : Nat]
              /\ in'.key = in.key /\ in'.seq = in.seq + 1
          <5>1. in.pos + 0 = in.pos
            BY <2>1
          <5>2. in' = [key |-> in.key, pos |-> in.pos, seq |-> in.seq + 1]
            BY ONLY <2>1, <4>1, <5>1
          <5>. QED  BY <2>1, <5>2
        <4>3. NextKey(Due) = Due.key /\ NextSeq(Due) = Due.seq + 1
          BY <1>4, <3>0 DEF NextKey, NextSeq
        <4>4. ~Active'
          BY <3>2, <4>2 DEF Active
        <4>. QED  BY <1>3, <4>2, <4>3, <4>4
      <3>. QED  BY <3>1, <3>2
    <2>. QED  BY <2>2, <2>3
  <1>9. Keyed'
    <2>1. Len(handled') > 0 /\ state' = "PACKETS" /\ ~rxHaveLen'
      BY <1>0, <1>3, <1>5, <1>6
    <2>. QED  BY <1>4, <1>6, <1>8, <2>1 DEF Keyed, NextKey, NextSeq, NextStart
  <1>10. Shaped' /\ RoomLeft' /\ Ordered'
    <2>1. Len(rx') <= RxBuf
      BY <1>0, <1>6, Arithmetic DEF IInv, Shaped
    <2>. QED  BY <1>0, <1>5, <2>1 DEF IInv, Shaped, RoomLeft, RxBuf, Ordered
  <1>11. ~Over /\ ~Over' /\ Due.total <= MaxPacket /\ sent' = sent
    BY <1>0, <1>2, <1>5 DEF Over
  <1>. QED  BY <1>2, <1>3, <1>5, <1>6, <1>7, <1>9, <1>10, <1>11 DEF IInv
-----------------------------------------------------------------------------
(* The theorems *)

LEMMA NextInv == IInv /\ [Next]_vars => IInv'
  <1>. SUFFICES ASSUME IInv, [Next]_vars PROVE IInv'
    OBVIOUS
  <1>1. CASE ClientSends
    BY <1>1, ClientSendsInv
  <1>2. CASE Read
    BY <1>2, ReadInv
  <1>3. CASE PartialLine
    BY <1>3, PartialLineInv
  <1>4. CASE WholeLine
    BY <1>4, WholeLineInv
  <1>5. CASE NoHeader
    BY <1>5, NoHeaderInv
  <1>6. CASE Header
    BY <1>6, HeaderInv
  <1>7. CASE NotAll
    BY <1>7, NotAllInv
  <1>8. CASE Packet
    BY <1>8, PacketInv
  <1>9. CASE UNCHANGED vars
    <2>1. UNCHANGED <<sent, tcp, rx, rxHaveLen, in, state, work, handled>>
      BY <1>9 DEF vars
    <2>2. Ordered' /\ InStream' /\ Shaped' /\ RoomLeft'
      BY <2>1 DEF IInv, Ordered, InStream, Shaped, RoomLeft, RxBuf
    <2>3. Spelled'
      BY <2>1 DEF IInv, Spelled, Known, Active
    <2>4. Keyed'
      BY <2>1 DEF IInv, Keyed, NextKey, NextStart, NextSeq, Active, First, Unit
    <2>. QED  BY <2>2, <2>3, <2>4 DEF IInv
  <1>. QED  BY <1>1, <1>2, <1>3, <1>4, <1>5, <1>6, <1>7, <1>8, <1>9 DEF Next, TryProcessOne

\* Buffer, socket, keys and stream fit together in every state of ProcessInput.
THEOREM InvTheorem == Spec => []IInv
  BY InitInv, NextInv, PTL DEF Spec

\* What TryProcessOne keeps of a connection has its shape, and no read writes behind the
\* buffer (c->rx, SSH_RX_BUF), however the stream is cut.
THEOREM RxTypeTheorem == Spec => []TypeOK
  BY InvTheorem, TypeFollows, PTL

\* ProcessInput is never left with a full buffer in which no line or packet is whole.
THEOREM RoomTheorem == Spec => []RoomLeft
  <1>1. IInv => RoomLeft
    BY DEF IInv
  <1>. QED  BY <1>1, InvTheorem, PTL

LEMMA StreamStep == IInv /\ [Next]_vars => [Stream!Next]_Stream!vars
  <1>. SUFFICES ASSUME IInv, [Next]_vars PROVE [Stream!Next]_Stream!vars
    OBVIOUS
  <1>0. Due = sent[Len(handled) + 1]
    BY DEF Due
  <1>1. ASSUME UNCHANGED <<sent, handled, state>> PROVE UNCHANGED Stream!vars
    BY <1>1 DEF Stream!vars, Over
  <1>2. CASE ClientSends
    <2>1. PICK u \in Units : sent' = Append(sent, u)
      BY <1>2, SentFollows
    <2>2. sent \in Seq(Units)
      BY DEF IInv, Ordered
    <2>3. sent' # <<>> /\ Front(sent') = sent
      <3>1. sent' \in Seq(Units) /\ Len(sent') = Len(sent) + 1 /\ Len(sent) \in Nat
            /\ \A i \in 1..Len(sent) : sent'[i] = sent[i]
        BY <2>1, <2>2
      <3>2. Front(sent') = SubSeq(sent', 1, Len(sent))
        BY <3>1 DEF Front
      <3>3. SubSeq(sent', 1, Len(sent)) = sent
        BY ONLY <2>2, <3>1
      <3>. QED  BY <3>1, <3>2, <3>3
    <2>4. UNCHANGED <<handled, state>>
      BY <1>2 DEF ClientSends
    <2>5. Over' = Over
      BY <2>4 DEF Over
    <2>6. Stream!Send
      BY ONLY <2>3, <2>4, <2>5 DEF Stream!Send, Stream!Front, Front
    <2>. QED  BY <2>6 DEF Stream!Next
  <1>3. CASE Read
    BY <1>1, <1>3 DEF Read
  <1>4. CASE PartialLine
    <2>1. CASE Idle
      BY <1>1, <2>1 DEF Idle
    <2>2. CASE Closes /\ ~Over /\ Len(handled) < Len(sent) /\ Due \in LineUnits /\ Due.total > LineMax
      <3>1. Bad(Due)
        BY <2>2, LineFields DEF Bad
      <3>2. Over' /\ UNCHANGED <<sent, handled>>
        BY <2>2 DEF Closes, Over
      <3>3. Stream!Reject
        BY <1>0, <2>2, <3>1, <3>2 DEF Stream!Reject
      <3>. QED  BY <3>3 DEF Stream!Next
    <2>. QED  BY <1>4, <2>1, <2>2, PartialLineInv
  <1>5. CASE WholeLine
    <2>1. Len(handled) < Len(sent) /\ Due \in LineUnits /\ ~Over
      BY <1>5, WholeLineInv
    <2>2. CASE Stops /\ (Due.kind = "oldversion" \/ Due.total > LineMax)
      <3>1. Bad(Due)
        BY <2>1, <2>2, LineFields DEF Bad, Good
      <3>2. Over' /\ UNCHANGED <<sent, handled>>
        BY <2>2 DEF Stops, Over
      <3>3. Stream!Reject
        BY <1>0, <2>1, <3>1, <3>2 DEF Stream!Reject
      <3>. QED  BY <3>3 DEF Stream!Next
    <2>3. CASE handled' = Append(handled, Due) /\ Due.kind # "oldversion" /\ sent' = sent /\ ~Over'
      <3>1. Good(Due)
        BY <2>1, <2>3, LineFields DEF Good
      <3>2. Over' = Over
        BY <2>1, <2>3 DEF Over
      <3>3. Stream!Handle
        BY ONLY <1>0, <2>1, <2>3, <3>1, <3>2 DEF Stream!Handle
      <3>. QED  BY <3>3 DEF Stream!Next
    <2>. QED  BY <1>5, <2>2, <2>3, WholeLineInv
  <1>6. CASE NoHeader
    BY <1>1, <1>6, NoHeaderInv DEF Idle
  <1>7. CASE Header
    <2>1. Len(handled) < Len(sent) /\ Due \in Packets /\ ~Over
      BY <1>7, HeaderInv DEF Header, Over
    <2>2. CASE Closes /\ ~(Due.total <= MaxPacket)
      <3>1. Bad(Due)
        BY <2>1, <2>2, PacketFields DEF Bad, Good
      <3>2. Over' /\ UNCHANGED <<sent, handled>>
        BY <2>2 DEF Closes, Over
      <3>3. Stream!Reject
        BY <1>0, <2>1, <3>1, <3>2 DEF Stream!Reject
      <3>. QED  BY <3>3 DEF Stream!Next
    <2>3. CASE ~(Closes /\ ~(Due.total <= MaxPacket))
      BY <1>1, <1>7, <2>3, HeaderInv
    <2>. QED  BY <2>2, <2>3
  <1>8. CASE NotAll
    BY <1>1, <1>8, NotAllInv DEF Idle
  <1>9. CASE Packet
    <2>1. /\ Len(handled) < Len(sent) /\ Due \in Packets /\ Due.total <= MaxPacket
          /\ handled' = Append(handled, Due) /\ sent' = sent
          /\ ~Over /\ ~Over'
      BY <1>9, PacketInv
    <2>2. Good(Due)
      BY <2>1, PacketFields DEF Good
    <2>3. Over' = Over
      BY <2>1 DEF Over
    <2>4. Stream!Handle
      BY ONLY <1>0, <2>1, <2>2, <2>3 DEF Stream!Handle
    <2>. QED  BY <2>4 DEF Stream!Next
  <1>10. CASE UNCHANGED vars
    BY <1>1, <1>10 DEF vars
  <1>. QED  BY <1>2, <1>3, <1>4, <1>5, <1>6, <1>7, <1>8, <1>9, <1>10 DEF Next, TryProcessOne

\* ProcessInput and TryProcessOne hand every line and packet of the client on once, whole, in
\* the order sent and deciphered with the keys it was sealed with, wherever TCP cuts the
\* stream and whichever keys change in it; only a bad unit ends the connection.  Which lines
\* of more than LineMax bytes are handled, and which are bad, the cut decides.
THEOREM StreamTheorem == Spec => ImplementsStream
  <1>1. Init => Stream!Init
    BY DEF Init, Stream!Init, Over
  <1>. QED  BY <1>1, StreamStep, InvTheorem, PTL DEF Spec, ImplementsStream, Stream!Spec
=============================================================================
