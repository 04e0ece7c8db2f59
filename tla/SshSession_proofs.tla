------------------------- MODULE SshSession_proofs --------------------------
(***************************************************************************)
(* Theorems about SshSession.tla, for every value of its constants.        *)
(***************************************************************************)
EXTENDS SshSession, SshConn_proofs, WellFoundedInduction
-----------------------------------------------------------------------------
(* Sums *)

\* A set of numbers that is not empty has a least member: the form of induction that
\* the proofs below use, with the set of counterexamples for T.
LEMMA LeastOf ==
  ASSUME NEW T, T \subseteq Nat, T # {}
  PROVE  \E x \in T : \A y \in T : x <= y
  <1>. DEFINE R == {p \in Nat \X Nat : p[1] < p[2]}
  <1>1. IsWellFoundedOn(R, Nat)
    BY NatLessThanWellFounded, Zenon DEF OpToRel
  <1>2. PICK x \in T : \A y \in T : ~(<<y, x>> \in R)
    <2>. HIDE DEF R
    <2>. QED  BY <1>1, WFMin
  <1>3. \A y \in T : ~(y < x)
    BY <1>2
  <1>. QED  BY <1>3

\* The running sums of w.
Runs(f, w) ==
    /\ f \in [0..Len(w) -> Nat] /\ f[0] = 0
    /\ \A i \in 1..Len(w) : f[i] = f[i - 1] + w[i]

LEMMA RunsExist == ASSUME NEW w \in Seq(Nat) PROVE \E f : Runs(f, w)
  <1>. DEFINE Up(n, f) == /\ f \in [0..n -> Nat] /\ f[0] = 0
                          /\ \A i \in 1..n : f[i] = f[i - 1] + w[i]
              T == {n \in 0..Len(w) : ~\E f : Up(n, f)}
  <1>1. T \subseteq Nat
    OBVIOUS
  <1>2. T = {} => \E f : Runs(f, w)
    BY DEF Runs
  <1>3. ASSUME NEW n \in T, \A m \in T : n <= m PROVE FALSE
    <2>1. CASE n = 0
      <3>. DEFINE f == [i \in 0..0 |-> 0]
      <3>1. Up(0, f)
        OBVIOUS
      <3>. QED  BY <2>1, <3>1
    <2>2. CASE n # 0
      <3>1. n - 1 \in 0..Len(w) /\ n - 1 \notin T
        <4>1. n \in 0..Len(w) /\ Len(w) \in Nat
          OBVIOUS
        <4>2. n - 1 \in 0..Len(w)
          BY <4>1, <2>2
        <4>. HIDE DEF T
        <4>. QED  BY <1>3, <4>1, <4>2
      <3>2. PICK g : Up(n - 1, g)
        BY <3>1
      <3>. DEFINE f == [i \in 0..n |-> IF i = n THEN g[n - 1] + w[n] ELSE g[i]]
      <3>3. w[n] \in Nat /\ g[n - 1] \in Nat
        BY <2>2, <3>2
      <3>4. f \in [0..n -> Nat]
        BY <3>2, <3>3
      <3>5. f[0] = 0 /\ \A i \in 1..n : f[i] = f[i - 1] + w[i]
        BY <3>2, <2>2
      <3>. QED  BY <3>4, <3>5
    <2>. QED  BY <2>1, <2>2
  <1>. HIDE DEF T
  <1>. QED  BY <1>1, <1>2, <1>3, LeastOf

LEMMA TallyIs ==
  ASSUME NEW w \in Seq(Nat)
  PROVE  \E f : Runs(f, w) /\ Tally(w) = f[Len(w)]
  <1>. DEFINE Step(f) == [i \in 0..Len(w) |-> IF i = 0 THEN 0 ELSE f[i - 1] + w[i]]
              sum == CHOOSE f : f = Step(f)
  <1>1. PICK g : Runs(g, w)
    BY RunsExist
  <1>2. g = Step(g)
    BY <1>1 DEF Runs
  <1>3. sum = Step(sum)
    BY <1>2
  <1>4. Tally(w) = sum[Len(w)]
    BY DEF Tally
  <1>5. Len(w) \in Nat
    OBVIOUS
  <1>. HIDE DEF sum
  <1>6. \A i \in 0..Len(w) : sum[i] = IF i = 0 THEN 0 ELSE sum[i - 1] + w[i]
    BY <1>3
  <1>. DEFINE T == {i \in 0..Len(w) : sum[i] # g[i]}
  <1>7. ASSUME NEW n \in T, \A m \in T : n <= m PROVE FALSE
    <2>1. n \in 0..Len(w)
      OBVIOUS
    <2>2. CASE n = 0
      BY <2>2, <1>1, <1>6 DEF Runs
    <2>3. CASE n # 0
      <3>1. n - 1 \in 0..Len(w) /\ n \in 1..Len(w)
        BY <2>1, <2>3
      <3>2. n - 1 \notin T
        <4>. HIDE DEF T
        <4>. QED  BY <1>7, <3>1
      <3>3. sum[n - 1] = g[n - 1]
        BY <3>1, <3>2
      <3>4. sum[n] = sum[n - 1] + w[n]
        BY <3>1, <1>6
      <3>5. g[n] = g[n - 1] + w[n]
        BY <3>1, <1>1 DEF Runs
      <3>. QED  BY <3>3, <3>4, <3>5
    <2>. QED  BY <2>2, <2>3
  <1>8. T \subseteq Nat
    OBVIOUS
  <1>9. T = {}
    <2>. HIDE DEF T
    <2>. QED  BY <1>7, <1>8, LeastOf
  <1>10. sum[Len(w)] = g[Len(w)]
    BY <1>9, <1>5
  <1>. QED  BY <1>1, <1>4, <1>10

LEMMA TallyNat == ASSUME NEW w \in Seq(Nat) PROVE Tally(w) \in Nat
  BY TallyIs DEF Runs

\* Two running sums that agree with their sequences shifted by d ...
LEMMA SameRuns ==
  ASSUME NEW v \in Seq(Nat), NEW w \in Seq(Nat), NEW f, NEW g, NEW d \in {0, 1},
         NEW c \in Nat, Runs(f, v), Runs(g, w), Len(v) + d <= Len(w),
         g[d] = c, \A i \in 1..Len(v) : w[i + d] = v[i]
  PROVE  g[Len(v) + d] = f[Len(v)] + c
  <1>. DEFINE T == {i \in 0..Len(v) : g[i + d] # f[i] + c}
  <1>. Len(v) \in Nat /\ Len(w) \in Nat
    OBVIOUS
  <1>1. ASSUME NEW n \in T, \A m \in T : n <= m PROVE FALSE
    <2>1. n \in 0..Len(v) /\ g[n + d] # f[n] + c
      OBVIOUS
    <2>2. CASE n = 0
      BY <2>1, <2>2 DEF Runs
    <2>3. CASE n # 0
      <3>1. n - 1 \in 0..Len(v) /\ n \in 1..Len(v) /\ n + d \in 1..Len(w)
        <4>1. n \in Nat /\ n >= 1 /\ n <= Len(v)
          BY <2>1, <2>3
        <4>2. d \in Nat
          OBVIOUS
        <4>3. n + d \in Nat /\ n + d >= 1 /\ n + d <= Len(w)
          BY <4>1, <4>2
        <4>. QED  BY <4>1, <4>3
      <3>2. n - 1 \notin T
        <4>. HIDE DEF T
        <4>. QED  BY <1>1, <3>1
      <3>3. g[(n - 1) + d] = f[n - 1] + c
        BY <3>1, <3>2
      <3>4. g[n + d] = g[n + d - 1] + w[n + d]
        BY <3>1 DEF Runs
      <3>5. f[n] = f[n - 1] + v[n]
        BY <3>1 DEF Runs
      <3>6. w[n + d] = v[n]
        BY <3>1
      <3>8. v[n] \in Nat
        BY <3>1, ElementOfSeq
      <3>9. f[n - 1] \in Nat
        BY <3>1 DEF Runs
      <3>7. (n - 1) + d = n + d - 1
        BY <3>1
      <3>10. g[n + d] = f[n - 1] + c + v[n]
        BY <3>3, <3>4, <3>6, <3>7
      <3>. QED  BY <2>1, <3>5, <3>8, <3>9, <3>10
    <2>. QED  BY <2>2, <2>3
  <1>2. T \subseteq Nat
    OBVIOUS
  <1>3. T = {}
    <2>. HIDE DEF T
    <2>. QED  BY <1>1, <1>2, LeastOf
  <1>4. Len(v) \in 0..Len(v)
    OBVIOUS
  <1>. QED  BY <1>3, <1>4

LEMMA TallyEmpty == Tally(<<>>) = 0
  <1>1. <<>> \in Seq(Nat) /\ Len(<<>>) = 0
    OBVIOUS
  <1>. QED  BY <1>1, TallyIs DEF Runs

LEMMA TallyAppend ==
  ASSUME NEW w \in Seq(Nat), NEW x \in Nat
  PROVE  Tally(Append(w, x)) = Tally(w) + x
  <1>. DEFINE u == Append(w, x)
  <1>1. u \in Seq(Nat) /\ Len(u) = Len(w) + 1 /\ u[Len(w) + 1] = x /\ Len(w) \in Nat
    OBVIOUS
  <1>2. \A i \in 1..Len(w) : u[i + 0] = w[i]
    OBVIOUS
  <1>3. PICK f : Runs(f, w) /\ Tally(w) = f[Len(w)]
    BY TallyIs
  <1>. HIDE DEF u
  <1>4. PICK g : Runs(g, u) /\ Tally(u) = g[Len(u)]
    BY TallyIs, <1>1
  <1>5. g[0] = 0
    BY <1>4 DEF Runs
  <1>6. g[Len(w) + 0] = f[Len(w)] + 0
    <2>1. 0 \in {0, 1} /\ 0 \in Nat /\ Len(w) + 0 <= Len(u)
      BY <1>1
    <2>. QED  BY <1>1, <1>2, <1>3, <1>4, <1>5, <2>1, SameRuns
  <1>7. f[Len(w)] \in Nat
    BY <1>1, <1>3 DEF Runs
  <1>8. g[Len(u)] = g[Len(u) - 1] + u[Len(u)]
    <2>1. Len(u) \in 1..Len(u)
      BY <1>1
    <2>. QED  BY <1>4, <2>1 DEF Runs
  <1>9. Tally(u) = Tally(w) + x
    BY <1>1, <1>3, <1>4, <1>6, <1>7, <1>8
  <1>. QED  BY <1>9 DEF u

LEMMA TallyTail ==
  ASSUME NEW w \in Seq(Nat), w # <<>>
  PROVE  Tally(w) = Head(w) + Tally(Tail(w))
  <1>. DEFINE u == Tail(w)
  <1>1. /\ u \in Seq(Nat) /\ Len(w) = Len(u) + 1 /\ Len(u) \in Nat
        /\ Head(w) = w[1] /\ w[1] \in Nat
    OBVIOUS
  <1>2. \A i \in 1..Len(u) : w[i + 1] = u[i]
    OBVIOUS
  <1>. HIDE DEF u
  <1>3. PICK f : Runs(f, u) /\ Tally(u) = f[Len(u)]
    BY TallyIs, <1>1
  <1>4. PICK g : Runs(g, w) /\ Tally(w) = g[Len(w)]
    BY TallyIs
  <1>5. g[1] = w[1]
    <2>1. 1 \in 1..Len(w) /\ 1 - 1 = 0
      BY <1>1
    <2>2. g[1] = g[0] + w[1] /\ g[0] = 0
      BY <1>4, <2>1 DEF Runs
    <2>. QED  BY <2>2, <1>1
  <1>6. g[Len(u) + 1] = f[Len(u)] + w[1]
    <2>. DEFINE x == w[1]
    <2>1. 1 \in {0, 1} /\ x \in Nat /\ Len(u) + 1 <= Len(w) /\ g[1] = x
      BY <1>1, <1>5
    <2>. HIDE DEF x
    <2>2. g[Len(u) + 1] = f[Len(u)] + x
      BY <1>1, <1>2, <1>3, <1>4, <2>1, SameRuns
    <2>. QED  BY <2>2 DEF x
  <1>7. f[Len(u)] \in Nat
    BY <1>1, <1>3 DEF Runs
  <1>8. Tally(w) = Head(w) + Tally(u)
    BY <1>1, <1>3, <1>4, <1>6, <1>7
  <1>. QED  BY <1>8 DEF u
-----------------------------------------------------------------------------
(* Counting packets *)

One(p, m) == IF p.msg = m THEN 1 ELSE 0
Bytes(p, m) == IF p.msg = m THEN p.n ELSE 0

\* Packets of any kind: records with a number of bytes.
Sized(S) == \A p \in S : p.n \in Nat

Marks(q, m) == [i \in 1..Len(q) |-> IF q[i].msg = m THEN 1 ELSE 0]
Loads(q, m) == [i \in 1..Len(q) |-> IF q[i].msg = m THEN q[i].n ELSE 0]

LEMMA FunctionIsSeq ==
  ASSUME NEW T, NEW n \in Nat, NEW f \in [1..n -> T]
  PROVE  f \in Seq(T) /\ Len(f) = n
  OBVIOUS

LEMMA MarksLoads ==
  ASSUME NEW S, Sized(S), NEW q \in Seq(S), NEW m
  PROVE  /\ Marks(q, m) \in Seq(Nat) /\ Len(Marks(q, m)) = Len(q)
         /\ Loads(q, m) \in Seq(Nat) /\ Len(Loads(q, m)) = Len(q)
  <1>1. Len(q) \in Nat
    OBVIOUS
  <1>2. \A i \in 1..Len(q) : q[i].n \in Nat
    BY ElementOfSeq DEF Sized
  <1>3. Marks(q, m) \in [1..Len(q) -> Nat]
    BY DEF Marks
  <1>4. Loads(q, m) \in [1..Len(q) -> Nat]
    BY <1>2 DEF Loads
  <1>. QED  BY <1>1, <1>3, <1>4, FunctionIsSeq

LEMMA CountNat ==
  ASSUME NEW S, Sized(S), NEW q \in Seq(S), NEW m
  PROVE  Count(q, m) \in Nat /\ Total(q, m) \in Nat
  <1>1. Marks(q, m) \in Seq(Nat) /\ Loads(q, m) \in Seq(Nat)
    BY MarksLoads
  <1>2. Tally(Marks(q, m)) \in Nat /\ Tally(Loads(q, m)) \in Nat
    BY <1>1, TallyNat
  <1>. QED  BY <1>2 DEF Count, Total, Marks, Loads

LEMMA CountEmpty == \A m : Count(<<>>, m) = 0 /\ Total(<<>>, m) = 0
  <1>. TAKE m
  <1>1. Sized({}) /\ <<>> \in Seq({}) /\ Len(<<>>) = 0
    BY DEF Sized
  <1>2. /\ Marks(<<>>, m) \in Seq(Nat) /\ Len(Marks(<<>>, m)) = 0
        /\ Loads(<<>>, m) \in Seq(Nat) /\ Len(Loads(<<>>, m)) = 0
    BY <1>1, MarksLoads
  <1>3. Marks(<<>>, m) = <<>> /\ Loads(<<>>, m) = <<>>
    BY <1>2, EmptySeq
  <1>. QED  BY <1>3, TallyEmpty DEF Count, Total, Marks, Loads

LEMMA CountAppend ==
  ASSUME NEW S, Sized(S), NEW q \in Seq(S), NEW p \in S, NEW m
  PROVE  /\ Count(Append(q, p), m) = Count(q, m) + One(p, m)
         /\ Total(Append(q, p), m) = Total(q, m) + Bytes(p, m)
  <1>. DEFINE r == Append(q, p)
  <1>1. /\ r \in Seq(S) /\ Len(r) = Len(q) + 1 /\ Len(q) \in Nat
        /\ \A i \in 1..Len(q) : r[i] = q[i]
        /\ r[Len(q) + 1] = p
    BY AppendProperties
  <1>2. p.n \in Nat
    BY DEF Sized
  <1>. HIDE DEF r
  <1>3. Marks(q, m) \in Seq(Nat) /\ Len(Marks(q, m)) = Len(q)
    BY MarksLoads
  <1>4. Loads(q, m) \in Seq(Nat) /\ Len(Loads(q, m)) = Len(q)
    BY MarksLoads
  <1>5. Marks(r, m) \in Seq(Nat) /\ Len(Marks(r, m)) = Len(q) + 1
    BY <1>1, MarksLoads
  <1>6. Loads(r, m) \in Seq(Nat) /\ Len(Loads(r, m)) = Len(q) + 1
    BY <1>1, MarksLoads
  <1>7. Marks(r, m) = Append(Marks(q, m), One(p, m))
    <2>. DEFINE x == One(p, m)
                v == Append(Marks(q, m), x)
    <2>1. x \in Nat
      BY DEF One
    <2>2. /\ v \in Seq(Nat) /\ Len(v) = Len(q) + 1 /\ v[Len(q) + 1] = x
          /\ \A i \in 1..Len(q) : v[i] = Marks(q, m)[i]
      BY <1>3, <2>1, AppendProperties
    <2>3. \A i \in 1..Len(q) : Marks(r, m)[i] = Marks(q, m)[i]
      BY <1>1 DEF Marks
    <2>4. Marks(r, m)[Len(q) + 1] = x
      BY <1>1 DEF Marks, One
    <2>5. \A i \in 1..(Len(q) + 1) : i \in 1..Len(q) \/ i = Len(q) + 1
      BY <1>1
    <2>. HIDE DEF v, x
    <2>6. \A i \in 1..(Len(q) + 1) : Marks(r, m)[i] = v[i]
      BY <2>2, <2>3, <2>4, <2>5
    <2>7. Marks(r, m) = v
      BY <1>5, <2>2, <2>6, SeqEqual
    <2>. QED  BY <2>7 DEF v, x
  <1>8. Loads(r, m) = Append(Loads(q, m), Bytes(p, m))
    <2>. DEFINE x == Bytes(p, m)
                v == Append(Loads(q, m), x)
    <2>1. x \in Nat
      BY <1>2 DEF Bytes
    <2>2. /\ v \in Seq(Nat) /\ Len(v) = Len(q) + 1 /\ v[Len(q) + 1] = x
          /\ \A i \in 1..Len(q) : v[i] = Loads(q, m)[i]
      BY <1>4, <2>1, AppendProperties
    <2>3. \A i \in 1..Len(q) : Loads(r, m)[i] = Loads(q, m)[i]
      BY <1>1 DEF Loads
    <2>4. Loads(r, m)[Len(q) + 1] = x
      BY <1>1 DEF Loads, Bytes
    <2>5. \A i \in 1..(Len(q) + 1) : i \in 1..Len(q) \/ i = Len(q) + 1
      BY <1>1
    <2>. HIDE DEF v, x
    <2>6. \A i \in 1..(Len(q) + 1) : Loads(r, m)[i] = v[i]
      BY <2>2, <2>3, <2>4, <2>5
    <2>7. Loads(r, m) = v
      BY <1>6, <2>2, <2>6, SeqEqual
    <2>. QED  BY <2>7 DEF v, x
  <1>9. One(p, m) \in Nat /\ Bytes(p, m) \in Nat
    BY <1>2 DEF One, Bytes
  <1>10. Tally(Marks(r, m)) = Tally(Marks(q, m)) + One(p, m)
    BY <1>3, <1>7, <1>9, TallyAppend
  <1>11. Tally(Loads(r, m)) = Tally(Loads(q, m)) + Bytes(p, m)
    BY <1>4, <1>8, <1>9, TallyAppend
  <1>. QED  BY <1>10, <1>11 DEF Count, Total, Marks, Loads, r

LEMMA CountTail ==
  ASSUME NEW S, Sized(S), NEW q \in Seq(S), q # <<>>, NEW m
  PROVE  /\ Count(q, m) = One(Head(q), m) + Count(Tail(q), m)
         /\ Total(q, m) = Bytes(Head(q), m) + Total(Tail(q), m)
  <1>. DEFINE r == Tail(q)
  <1>1. /\ r \in Seq(S) /\ Len(r) = Len(q) - 1 /\ Len(r) \in Nat /\ Len(q) \in Nat
        /\ \A i \in 1..Len(r) : r[i] = q[i + 1]
        /\ Head(q) = q[1]
    BY HeadTailProperties, LenProperties
  <1>. HIDE DEF r
  <1>3. /\ Marks(q, m) \in Seq(Nat) /\ Len(Marks(q, m)) = Len(q)
        /\ Loads(q, m) \in Seq(Nat) /\ Len(Loads(q, m)) = Len(q)
    BY MarksLoads
  <1>4. /\ Marks(r, m) \in Seq(Nat) /\ Len(Marks(r, m)) = Len(r)
        /\ Loads(r, m) \in Seq(Nat) /\ Len(Loads(r, m)) = Len(r)
    BY <1>1, MarksLoads
  <1>5. Marks(q, m) # <<>> /\ Loads(q, m) # <<>>
    BY <1>1, <1>3
  <1>6. \A i \in 1..Len(r) : i + 1 \in 1..Len(q)
    BY <1>1
  <1>7. Head(Marks(q, m)) = One(Head(q), m) /\ Head(Loads(q, m)) = Bytes(Head(q), m)
    <2>1. 1 \in 1..Len(q)
      BY <1>1
    <2>2. Marks(q, m)[1] = One(Head(q), m)
      BY <1>1, <2>1 DEF Marks, One
    <2>3. Loads(q, m)[1] = Bytes(Head(q), m)
      BY <1>1, <2>1 DEF Loads, Bytes
    <2>. QED  BY <1>3, <1>5, <2>2, <2>3
  <1>8. Tail(Marks(q, m)) = Marks(r, m)
    <2>1. /\ Tail(Marks(q, m)) \in Seq(Nat) /\ Len(Tail(Marks(q, m))) = Len(r)
          /\ \A i \in 1..Len(r) : Tail(Marks(q, m))[i] = Marks(q, m)[i + 1]
      BY <1>1, <1>3, <1>5, HeadTailProperties
    <2>2. \A i \in 1..Len(r) : Marks(q, m)[i + 1] = Marks(r, m)[i]
      BY <1>1, <1>6 DEF Marks
    <2>. DEFINE v == Tail(Marks(q, m))
    <2>3. v \in Seq(Nat) /\ Len(v) = Len(r) /\ \A i \in 1..Len(r) : v[i] = Marks(r, m)[i]
      BY <2>1, <2>2
    <2>. HIDE DEF v
    <2>4. v = Marks(r, m)
      BY <1>4, <2>3, SeqEqual
    <2>. QED  BY <2>4 DEF v
  <1>9. Tail(Loads(q, m)) = Loads(r, m)
    <2>1. /\ Tail(Loads(q, m)) \in Seq(Nat) /\ Len(Tail(Loads(q, m))) = Len(r)
          /\ \A i \in 1..Len(r) : Tail(Loads(q, m))[i] = Loads(q, m)[i + 1]
      BY <1>1, <1>3, <1>5, HeadTailProperties
    <2>2. \A i \in 1..Len(r) : Loads(q, m)[i + 1] = Loads(r, m)[i]
      BY <1>1, <1>6 DEF Loads
    <2>. QED  BY <1>4, <2>1, <2>2, SeqEqual
  <1>10. Tally(Marks(q, m)) = One(Head(q), m) + Tally(Marks(r, m))
    BY <1>3, <1>5, <1>7, <1>8, TallyTail
  <1>11. Tally(Loads(q, m)) = Bytes(Head(q), m) + Tally(Loads(r, m))
    BY <1>3, <1>5, <1>7, <1>9, TallyTail
  <1>. QED  BY <1>10, <1>11 DEF Count, Total, Marks, Loads, r

LEMMA CountConcat ==
  ASSUME NEW S, Sized(S), NEW q \in Seq(S), NEW r \in Seq(S), NEW m
  PROVE  /\ Count(q \o r, m) = Count(q, m) + Count(r, m)
         /\ Total(q \o r, m) = Total(q, m) + Total(r, m)
  <1>. DEFINE Adds(s) == /\ Count(q \o s, m) = Count(q, m) + Count(s, m)
                         /\ Total(q \o s, m) = Total(q, m) + Total(s, m)
              T == {n \in Nat : \E s \in Seq(S) : Len(s) = n /\ ~Adds(s)}
  <1>1. ASSUME NEW n \in T, \A k \in T : n <= k PROVE FALSE
    <2>1. PICK s \in Seq(S) : Len(s) = n /\ n \in Nat /\ ~Adds(s)
      OBVIOUS
    <2>2. CASE s = <<>>
      <3>1. q \o s = q /\ Count(s, m) = 0 /\ Total(s, m) = 0
        BY <2>2, ConcatEmptySeq, CountEmpty
      <3>2. Count(q, m) \in Nat /\ Total(q, m) \in Nat
        BY CountNat
      <3>. QED  BY <2>1, <3>1, <3>2
    <2>3. CASE s # <<>>
      <3>1. PICK f \in Seq(S), e \in S : s = Append(f, e)
        BY <2>3, SequenceEmptyOrAppend
      <3>2. Len(f) \in Nat /\ Len(f) = n - 1 /\ Len(f) < n
        BY <2>1, <3>1
      <3>3. Adds(f)
        <4>1. Len(f) \notin T
          <5>. HIDE DEF T
          <5>. QED  BY <1>1, <2>1, <3>2
        <4>. QED  BY <3>2, <4>1
      <3>4. q \o s = Append(q \o f, e) /\ q \o f \in Seq(S)
        BY <3>1
      <3>5. /\ Count(q \o s, m) = Count(q \o f, m) + One(e, m)
            /\ Total(q \o s, m) = Total(q \o f, m) + Bytes(e, m)
        <4>. DEFINE u == q \o f
                    v == q \o s
        <4>1. u \in Seq(S) /\ v = Append(u, e)
          BY <3>4
        <4>. HIDE DEF u, v
        <4>2. /\ Count(Append(u, e), m) = Count(u, m) + One(e, m)
              /\ Total(Append(u, e), m) = Total(u, m) + Bytes(e, m)
          BY <4>1, CountAppend
        <4>3. Count(v, m) = Count(u, m) + One(e, m) /\ Total(v, m) = Total(u, m) + Bytes(e, m)
          BY <4>1, <4>2
        <4>. QED  BY <4>3 DEF u, v
      <3>6. /\ Count(s, m) = Count(f, m) + One(e, m)
            /\ Total(s, m) = Total(f, m) + Bytes(e, m)
        BY <3>1, CountAppend
      <3>7. /\ Count(q, m) \in Nat /\ Total(q, m) \in Nat
            /\ Count(f, m) \in Nat /\ Total(f, m) \in Nat
        BY CountNat
      <3>8. One(e, m) \in Nat /\ Bytes(e, m) \in Nat
        BY DEF One, Bytes, Sized
      <3>. QED  BY <2>1, <3>3, <3>5, <3>6, <3>7, <3>8
    <2>. QED  BY <2>2, <2>3
  <1>2. T = {}
    <2>1. T \subseteq Nat
      OBVIOUS
    <2>. HIDE DEF T
    <2>. QED  BY <1>1, <2>1, LeastOf
  <1>3. Len(r) \in Nat
    OBVIOUS
  <1>. QED  BY <1>2, <1>3

\* What one packet and two count.
LEMMA CountOne ==
  ASSUME NEW S, Sized(S), NEW p \in S, NEW m
  PROVE  Count(<<p>>, m) = One(p, m) /\ Total(<<p>>, m) = Bytes(p, m)
  <1>. DEFINE none == <<>>
              u == Append(none, p)
  <1>1. none \in Seq(S) /\ u = <<p>>
    OBVIOUS
  <1>2. One(p, m) \in Nat /\ Bytes(p, m) \in Nat
    BY DEF One, Bytes, Sized
  <1>3. Count(none, m) = 0 /\ Total(none, m) = 0
    BY CountEmpty
  <1>. HIDE DEF none
  <1>4. /\ Count(u, m) = Count(none, m) + One(p, m)
        /\ Total(u, m) = Total(none, m) + Bytes(p, m)
    BY <1>1, CountAppend
  <1>5. Count(u, m) = One(p, m) /\ Total(u, m) = Bytes(p, m)
    BY <1>2, <1>3, <1>4
  <1>. HIDE DEF u
  <1>. QED  BY <1>1, <1>5
-----------------------------------------------------------------------------
(* The invariant: what the queues hold, and what that has to do with both ends *)

\* What the client sends, and what the server may promise in it.
Posted == {"version", "kexinit", "kexdh", "newkeys", "service", "userauth", "open",
           "request", "data", "adjust", "eof", "close", "disconnect"}
Secured == Posted \ {"version", "kexinit", "kexdh", "newkeys"}

Upward == {p \in ClientPacket :
    /\ p.msg \in Posted
    /\ p.msg \in Secured => p.key > 0
    /\ p.msg = "version" => p.arg = "ssh2"
    /\ p.msg = "kexinit" => p.arg \in {"match", "wrong guess"}
    /\ p.msg = "userauth" => p.arg \in {"right", "wrong"}
    /\ p.msg = "request" => p.arg \in {"resize", "shell"}
    /\ p.msg = "open" => p.n = ClientWindow
    /\ p.msg = "data" => p.n \in DataSizes}

Downward == {p \in Packet : p.msg = "open-confirm" => p.n = Window}

Queued == c2s \in Seq(Upward) /\ s2c \in Seq(Downward)

Open == state # "CLOSED"
Gone == cl.step = "gone"
Before == cl.step \in {"start", "kex", "service", "auth", "auth-wait", "open", "open-wait"}
After == cl.step \in {"request", "pty-wait", "shell-wait", "session"}

\* Of a request and its reply one at most is under way, and only while the client
\* waits for it.
Conversing ==
    Open \/ ~Gone =>
    /\ Count(c2s, "service") + Count(s2c, "service-accept")
         <= (IF cl.step = "service" THEN 1 ELSE 0)
    /\ Count(c2s, "userauth") + Count(s2c, "auth-failure") + Count(s2c, "auth-success")
         <= (IF cl.step = "auth-wait" THEN 1 ELSE 0)
    /\ Count(c2s, "open") + Count(s2c, "open-confirm")
         <= (IF cl.step = "open-wait" THEN 1 ELSE 0)
    /\ Count(c2s, "request") + Count(s2c, "request-success")
         <= (IF cl.step = "pty-wait" THEN 2 ELSE IF cl.step = "shell-wait" THEN 1 ELSE 0)
    /\ Before => Count(c2s, "data") = 0

\* How far the server is when the client is at a step.
Progressing ==
    /\ Count(s2c, "disconnect") > 0 => ~Open
    /\ Open /\ (\/ After \/ Gone \/ cl.step \in {"open", "open-wait"}
                \/ Count(s2c, "auth-success") > 0)
       => state = "CONN"
    /\ Before /\ cl.step # "open-wait" => ~chanOpen
    /\ ~Gone /\ Count(c2s, "open") > 0 => ~chanOpen
    /\ After \/ (Gone /\ Open) \/ (~Gone /\ Count(s2c, "open-confirm") > 0) => chanOpen
    /\ shellReady \/ (~Gone /\ Count(c2s, "request") > 0)
       => cl.step \in {"pty-wait", "shell-wait", "session", "gone"}
    /\ pc \in {"ready", "write", "wait"} => shellReady
    /\ Open => authTries < MaxAuthTries
    /\ cl.closeSent => cl.step \in {"session", "gone"}

InCredit == cl.win + Total(c2s, "data") + ring + consumed + Total(s2c, "adjust")
OutCredit == remoteWindow + Total(s2c, "data") + Total(c2s, "adjust")

\* The input credit comes into being with the channel and is not lost while the
\* server reads.
CreditIn ==
    /\ Before => InCredit = 0
    /\ InCredit <= Window
    /\ After /\ Open => InCredit = Window

\* The output credit is the client's grant from the moment it sees the channel open.
CreditOut ==
    /\ Before => /\ Total(s2c, "data") = 0 /\ Total(c2s, "adjust") = 0
                 /\ cl.grant = 0
                 /\ remoteWindow = IF chanOpen THEN ClientWindow ELSE 0
    /\ After => OutCredit <= cl.grant
    /\ After /\ Open => OutCredit = cl.grant
    /\ Gone => OutCredit <= ClientWindow

Flow == Conversing /\ Progressing /\ CreditIn /\ CreditOut /\ NoInputLost
-----------------------------------------------------------------------------
(* What a step does to the queues *)

LEMMA UpwardSized == Sized(Upward)
  BY DEF Sized, Upward, ClientPacket

LEMMA DownwardSized == Sized(Downward)
  BY DEF Sized, Downward, Packet

\* The counts of the queues of a state are numbers.
LEMMA CountsAreNumbers ==
  ASSUME NEW up \in Seq(Upward), NEW down \in Seq(Downward)
  PROVE  \A m : /\ Count(up, m) \in Nat /\ Total(up, m) \in Nat
                /\ Count(down, m) \in Nat /\ Total(down, m) \in Nat
  BY UpwardSized, DownwardSized, CountNat

\* The client posts one packet,
LEMMA PostOne ==
  ASSUME Queued, NEW p \in Upward, Post(<<p>>)
  PROVE  /\ Queued'
         /\ \A m : /\ Count(c2s', m) = Count(c2s, m) + One(p, m)
                   /\ Total(c2s', m) = Total(c2s, m) + Bytes(p, m)
  <1>1. c2s' = Append(c2s, p) /\ s2c' = s2c
    BY DEF Post, Queued
  <1>2. c2s' \in Seq(Upward)
    BY <1>1 DEF Queued
  <1>. QED  BY <1>1, <1>2, UpwardSized, CountAppend DEF Queued

\* or two at once,
LEMMA PostTwo ==
  ASSUME Queued, NEW p \in Upward, NEW r \in Upward, Post(<<p, r>>)
  PROVE  /\ Queued'
         /\ \A m : /\ Count(c2s', m) = Count(c2s, m) + One(p, m) + One(r, m)
                   /\ Total(c2s', m) = Total(c2s, m) + Bytes(p, m) + Bytes(r, m)
  <1>. DEFINE u == Append(c2s, p)
  <1>1. c2s' = Append(u, r) /\ s2c' = s2c
    BY DEF Post, Queued
  <1>2. c2s \in Seq(Upward) /\ u \in Seq(Upward) /\ c2s' \in Seq(Upward)
    BY <1>1 DEF Queued
  <1>3. \A m : /\ Count(u, m) = Count(c2s, m) + One(p, m)
               /\ Total(u, m) = Total(c2s, m) + Bytes(p, m)
    BY <1>2, UpwardSized, CountAppend
  <1>. HIDE DEF u
  <1>4. \A m : /\ Count(c2s', m) = Count(u, m) + One(r, m)
               /\ Total(c2s', m) = Total(u, m) + Bytes(r, m)
    BY <1>1, <1>2, UpwardSized, CountAppend
  <1>. QED  BY <1>1, <1>2, <1>3, <1>4 DEF Queued

\* the client takes one,
LEMMA ClientTakes ==
  ASSUME Queued, s2c # <<>>, s2c' = Tail(s2c)
  PROVE  /\ Head(s2c) \in Downward /\ s2c' \in Seq(Downward)
         /\ \A m : /\ Count(s2c, m) = One(Head(s2c), m) + Count(s2c', m)
                   /\ Total(s2c, m) = Bytes(Head(s2c), m) + Total(s2c', m)
  <1>1. s2c \in Seq(Downward)
    BY DEF Queued
  <1>2. Head(s2c) \in Downward /\ s2c' \in Seq(Downward)
    BY <1>1, HeadTailProperties
  <1>. QED  BY <1>1, <1>2, DownwardSized, CountTail

\* the server takes one,
LEMMA ServerTakes ==
  ASSUME Queued, c2s # <<>>, c2s' = Tail(c2s)
  PROVE  /\ Head(c2s) \in Upward /\ c2s' \in Seq(Upward)
         /\ \A m : /\ Count(c2s, m) = One(Head(c2s), m) + Count(c2s', m)
                   /\ Total(c2s, m) = Bytes(Head(c2s), m) + Total(c2s', m)
  <1>1. c2s \in Seq(Upward)
    BY DEF Queued
  <1>2. Head(c2s) \in Upward /\ c2s' \in Seq(Upward)
    BY <1>1, HeadTailProperties
  <1>. QED  BY <1>1, <1>2, UpwardSized, CountTail

\* the server sends what the step put on the wire.
LEMMA ServerSends ==
  ASSUME Queued, tx' \in Seq(Downward), Wire
  PROVE  /\ s2c' \in Seq(Downward)
         /\ \A m : /\ Count(s2c', m) = Count(s2c, m) + Count(tx', m)
                   /\ Total(s2c', m) = Total(s2c, m) + Total(tx', m)
  <1>1. s2c' = s2c \o tx' /\ s2c \in Seq(Downward)
    BY DEF Wire, Queued
  <1>. DEFINE t == tx'
  <1>2. t \in Seq(Downward) /\ s2c' = s2c \o t
    BY <1>1
  <1>. HIDE DEF t
  <1>3. s2c \o t \in Seq(Downward)
    BY <1>1, <1>2, ConcatProperties
  <1>4. \A m : /\ Count(s2c \o t, m) = Count(s2c, m) + Count(t, m)
               /\ Total(s2c \o t, m) = Total(s2c, m) + Total(t, m)
    BY <1>1, <1>2, DownwardSized, CountConcat
  <1>. QED  BY <1>2, <1>3, <1>4 DEF t
-----------------------------------------------------------------------------
(* The client's steps keep Flow *)

\* What the client may rely on of its own state.
LEMMA ClientFields ==
  ASSUME cl \in ClientState
  PROVE  /\ cl.out \in Nat /\ cl.in \in Nat /\ cl.rekeys \in 0..MaxRekeys
         /\ cl.win \in 0..Window /\ cl.grant \in 0..ClientWindow
         /\ cl.win \in Nat /\ cl.grant \in Nat
  BY ConnAssumption, SessionAssumption DEF ClientState

ClientKinds == {"service", "userauth", "open", "request", "data", "adjust"}
ServerKinds == {"service-accept", "auth-failure", "auth-success", "open-confirm",
                "request-success", "data", "adjust", "disconnect"}

Untouched ==
    UNCHANGED <<state, pc, chanOpen, shellReady, authTries, ring, consumed,
                remoteWindow, delivered>>

\* A step that leaves alone what Flow speaks of, but for the client's first step and
\* its last.
LEMMA FlowAside ==
  ASSUME Flow, Queued, FlowTypeOK, cl \in ClientState, Untouched, typed' = typed,
         cl'.win = cl.win, cl'.grant = cl.grant,
         cl'.closeSent => cl.closeSent \/ cl.step = "session",
         \/ cl'.step = cl.step
         \/ cl.step = "start" /\ cl'.step = "kex"
         \/ cl.step = "session" /\ cl'.step = "gone",
         \A m \in ClientKinds : /\ Count(c2s', m) = Count(c2s, m)
                                /\ Total(c2s', m) = Total(c2s, m),
         \A m \in ServerKinds : /\ Count(s2c', m) = Count(s2c, m)
                                /\ Total(s2c', m) = Total(s2c, m)
  PROVE  Flow'
  <1>1. /\ Count(c2s', "service") = Count(c2s, "service")
        /\ Count(c2s', "userauth") = Count(c2s, "userauth")
        /\ Count(c2s', "open") = Count(c2s, "open")
        /\ Count(c2s', "request") = Count(c2s, "request")
        /\ Count(c2s', "data") = Count(c2s, "data")
        /\ Total(c2s', "data") = Total(c2s, "data")
        /\ Total(c2s', "adjust") = Total(c2s, "adjust")
    BY DEF ClientKinds
  <1>2. /\ Count(s2c', "service-accept") = Count(s2c, "service-accept")
        /\ Count(s2c', "auth-failure") = Count(s2c, "auth-failure")
        /\ Count(s2c', "auth-success") = Count(s2c, "auth-success")
        /\ Count(s2c', "open-confirm") = Count(s2c, "open-confirm")
        /\ Count(s2c', "request-success") = Count(s2c, "request-success")
        /\ Count(s2c', "disconnect") = Count(s2c, "disconnect")
        /\ Total(s2c', "data") = Total(s2c, "data")
        /\ Total(s2c', "adjust") = Total(s2c, "adjust")
    BY DEF ServerKinds
  <1>3. Conversing'
    BY <1>1, <1>2 DEF Flow, Conversing, Untouched, Open, Gone, Before
  <1>4. Progressing'
    BY <1>1, <1>2 DEF Flow, Progressing, Untouched, Open, Gone, Before, After
  <1>5. CreditIn'
    BY <1>1, <1>2 DEF Flow, CreditIn, InCredit, Untouched, Open, Before, After
  <1>6. CreditOut'
    <2>1. cl.grant <= ClientWindow /\ cl.grant \in Nat /\ ClientWindow \in Nat
      BY ClientFields, SessionAssumption, ConnAssumption
    <2>2. OutCredit \in Nat
      <3>1. Total(s2c, "data") \in Nat /\ Total(c2s, "adjust") \in Nat
        BY CountsAreNumbers DEF Queued
      <3>. QED  BY <3>1 DEF OutCredit, FlowTypeOK
    <2>3. OutCredit' = OutCredit
      BY <1>1, <1>2 DEF OutCredit, Untouched
    <2>. QED  BY <1>1, <1>2, <2>1, <2>2, <2>3
              DEF Flow, CreditOut, Untouched, Open, Gone, Before, After
  <1>7. NoInputLost'
    BY <1>1 DEF Flow, NoInputLost, Untouched
  <1>. QED  BY <1>3, <1>4, <1>5, <1>6, <1>7 DEF Flow

\* Those Flow does not speak of.
Asides == {"version", "kexinit", "kexdh", "newkeys", "eof", "close", "disconnect"}

LEMMA CAside ==
  ASSUME cl \in ClientState, NEW m \in Asides, NEW a \in Details,
         m \in Secured => cl.out > 0,
         m = "version" => a = "ssh2",
         m = "kexinit" => a \in {"match", "wrong guess"}
  PROVE  C(m, 0, a) \in Upward /\ C(m, 0, a).msg = m /\ m \notin ClientKinds
  <1>1. /\ m \in Posted /\ m \notin {"userauth", "request", "open", "data"}
        /\ m \notin ClientKinds
    BY DEF Asides, Posted, ClientKinds
  <1>2. m \in ClientMsgs \cup {"version"}
    BY DEF Asides, ClientMsgs
  <1>3. C(m, 0, a) \in ClientPacket
    BY <1>2, ClientFields DEF C, ClientPacket
  <1>4. C(m, 0, a).msg = m /\ C(m, 0, a).key = cl.out /\ C(m, 0, a).arg = a
    BY DEF C
  <1>. QED  BY <1>1, <1>3, <1>4 DEF Upward

\* Posting packets of other kinds does not change the counts Flow speaks of.
LEMMA PostAside ==
  ASSUME Queued, NEW p \in Upward, p.msg \notin ClientKinds,
         \/ Post(<<p>>)
         \/ \E r \in Upward : r.msg \notin ClientKinds /\ Post(<<p, r>>)
  PROVE  /\ Queued'
         /\ \A m \in ClientKinds : /\ Count(c2s', m) = Count(c2s, m)
                                   /\ Total(c2s', m) = Total(c2s, m)
         /\ \A m \in ServerKinds : /\ Count(s2c', m) = Count(s2c, m)
                                   /\ Total(s2c', m) = Total(s2c, m)
  <1>1. s2c' = s2c
    BY DEF Post
  <1>2. \A m : Count(c2s, m) \in Nat /\ Total(c2s, m) \in Nat
    BY CountsAreNumbers DEF Queued
  <1>3. CASE Post(<<p>>)
    <2>1. Queued' /\ \A m : /\ Count(c2s', m) = Count(c2s, m) + One(p, m)
                            /\ Total(c2s', m) = Total(c2s, m) + Bytes(p, m)
      BY <1>3, PostOne
    <2>2. \A m \in ClientKinds : One(p, m) = 0 /\ Bytes(p, m) = 0
      BY DEF One, Bytes
    <2>3. \A m \in ClientKinds : /\ Count(c2s', m) = Count(c2s, m)
                                 /\ Total(c2s', m) = Total(c2s, m)
      BY <1>2, <2>1, <2>2
    <2>. QED  BY <1>1, <2>1, <2>3
  <1>4. ASSUME NEW r \in Upward, r.msg \notin ClientKinds, Post(<<p, r>>)
        PROVE  /\ Queued'
               /\ \A m \in ClientKinds : /\ Count(c2s', m) = Count(c2s, m)
                                         /\ Total(c2s', m) = Total(c2s, m)
    <2>1. Queued' /\ \A m : /\ Count(c2s', m) = Count(c2s, m) + One(p, m) + One(r, m)
                            /\ Total(c2s', m) = Total(c2s, m) + Bytes(p, m) + Bytes(r, m)
      BY <1>4, PostTwo
    <2>2. \A m \in ClientKinds : /\ One(p, m) = 0 /\ Bytes(p, m) = 0
                                 /\ One(r, m) = 0 /\ Bytes(r, m) = 0
      BY <1>4 DEF One, Bytes
    <2>3. \A m \in ClientKinds : /\ Count(c2s', m) = Count(c2s, m)
                                 /\ Total(c2s', m) = Total(c2s, m)
      BY <1>2, <2>1, <2>2
    <2>. QED  BY <2>1, <2>3
  <1>. QED  BY <1>1, <1>3, <1>4

\* What a step of the client leaves alone.
Served == UNCHANGED <<vars, delivered, written>>

LEMMA ServedUntouched == ASSUME Served PROVE Untouched
  BY DEF Served, Untouched, vars, chanVars, flowVars, authVars

\* The invariant of both ends.
Sound == SessionTypeOK /\ Queued /\ Flow

LEMMA SoundParts ==
  ASSUME Sound
  PROVE  TypeOK /\ FlowTypeOK /\ cl \in ClientState /\ Queued /\ Flow
  BY DEF Sound, SessionTypeOK, TypeOK

\* The steps of the client that Flow does not speak of: the key exchange, EOF, CLOSE
\* and the last DISCONNECT.
LEMMA ClientAside ==
  ASSUME Sound, Served, cl.step # "gone",
         \/ ClientHello \/ ClientKexDh \/ ClientEof \/ ClientClose \/ ClientLeaves
         \/ \E guess \in Guesses : ClientKexInit(guess)
  PROVE  Queued' /\ Flow'
  <1>. Untouched /\ FlowTypeOK /\ cl \in ClientState /\ Queued /\ Flow
    BY ServedUntouched, SoundParts
  <1>1. /\ typed' = typed /\ cl'.win = cl.win /\ cl'.grant = cl.grant
        /\ cl'.closeSent => cl.closeSent \/ cl.step = "session"
        /\ \/ cl'.step = cl.step
           \/ cl.step = "start" /\ cl'.step = "kex"
           \/ cl.step = "session" /\ cl'.step = "gone"
    <2>1. CASE ClientHello
      BY <2>1 DEF ClientHello, ClientState
    <2>2. CASE ClientKexDh
      BY <2>2 DEF ClientKexDh, ClientState
    <2>3. CASE ClientEof
      BY <2>3 DEF ClientEof, ClientState
    <2>4. CASE ClientClose
      BY <2>4 DEF ClientClose, ClientState, MayUseChannel
    <2>5. CASE ClientLeaves
      <3>1. cl.step = "session"
        BY <2>5 DEF ClientLeaves, Flow, Progressing
      <3>. QED  BY <2>5, <3>1 DEF ClientLeaves, ClientState
    <2>6. CASE \E guess \in Guesses : ClientKexInit(guess)
      BY <2>6 DEF ClientKexInit, ClientState
    <2>. QED  BY <2>1, <2>2, <2>3, <2>4, <2>5, <2>6
  <1>3. \E p \in Upward : /\ p.msg \notin ClientKinds
                          /\ \/ Post(<<p>>)
                             \/ \E r \in Upward : r.msg \notin ClientKinds /\ Post(<<p, r>>)
    <2>1. CASE ClientHello
      <3>1. "version" \notin Secured /\ "ssh2" \in Details
        BY DEF Secured, Details
      <3>2. C("version", 0, "ssh2") \in Upward /\ C("version", 0, "ssh2").msg \notin ClientKinds
        BY <3>1, CAside DEF Asides
      <3>. QED  BY <2>1, <3>2 DEF ClientHello
    <2>2. CASE ClientKexDh
      <3>1. "kexdh" \notin Secured /\ "" \in Details
        BY DEF Secured, Details
      <3>2. C("kexdh", 0, "") \in Upward /\ C("kexdh", 0, "").msg \notin ClientKinds
        BY <3>1, CAside DEF Asides
      <3>. QED  BY <2>2, <3>2 DEF ClientKexDh
    <2>3. CASE ClientEof
      <3>1. C("eof", 0, "") \in Upward /\ C("eof", 0, "").msg \notin ClientKinds
        <4>1. cl.out > 0 /\ "" \in Details
          BY <2>3 DEF ClientEof, MaySend, MayUseChannel, Details
        <4>. QED  BY <4>1, CAside DEF Asides
      <3>. QED  BY <2>3, <3>1 DEF ClientEof
    <2>4. CASE ClientClose
      <3>1. C("close", 0, "") \in Upward /\ C("close", 0, "").msg \notin ClientKinds
        <4>1. cl.out > 0 /\ "" \in Details
          BY <2>4 DEF ClientClose, MaySend, MayUseChannel, Details
        <4>. QED  BY <4>1, CAside DEF Asides
      <3>. QED  BY <2>4, <3>1 DEF ClientClose
    <2>5. CASE ClientLeaves
      <3>1. C("disconnect", 0, "") \in Upward /\ C("disconnect", 0, "").msg \notin ClientKinds
        <4>1. cl.out > 0 /\ "" \in Details
          BY <2>5 DEF ClientLeaves, MaySend, MayUseChannel, Details
        <4>. QED  BY <4>1, CAside DEF Asides
      <3>. QED  BY <2>5, <3>1 DEF ClientLeaves
    <2>6. ASSUME NEW guess \in Guesses, ClientKexInit(guess)
          PROVE  \E p \in Upward : /\ p.msg \notin ClientKinds
                   /\ \/ Post(<<p>>)
                      \/ \E r \in Upward : r.msg \notin ClientKinds /\ Post(<<p, r>>)
      <3>0. "kexinit" \notin Secured /\ "kexdh" \notin Secured
        BY DEF Secured
      <3>1. \A a \in {"match", "wrong guess"} :
              C("kexinit", 0, a) \in Upward /\ C("kexinit", 0, a).msg \notin ClientKinds
        <4>1. ASSUME NEW a \in {"match", "wrong guess"}
              PROVE  C("kexinit", 0, a) \in Upward /\ C("kexinit", 0, a).msg \notin ClientKinds
          <5>1. a \in Details
            BY DEF Details
          <5>2. "kexinit" \in Asides /\ "kexinit" # "version"
            BY DEF Asides
          <5>. QED  BY <3>0, <5>1, <5>2, CAside, Zenon
        <4>. QED  BY <4>1
      <3>2. C("kexdh", 0, "") \in Upward /\ C("kexdh", 0, "").msg \notin ClientKinds
        <4>1. "" \in Details
          BY DEF Details
        <4>. QED  BY <3>0, <4>1, CAside DEF Asides
      <3>3. guess \in {"none", "right", "wrong"}
        BY SessionAssumption
      <3>. QED  BY <2>6, <3>1, <3>2, <3>3 DEF ClientKexInit
    <2>. QED  BY <2>1, <2>2, <2>3, <2>4, <2>5, <2>6
  <1>4. Queued'
    BY <1>3, PostAside
  <1>5. /\ \A m \in ClientKinds : /\ Count(c2s', m) = Count(c2s, m)
                                  /\ Total(c2s', m) = Total(c2s, m)
        /\ \A m \in ServerKinds : /\ Count(s2c', m) = Count(s2c, m)
                                  /\ Total(s2c', m) = Total(s2c, m)
    BY <1>3, PostAside
  <1>6. Flow'
    BY <1>1, <1>5, FlowAside
  <1>. QED  BY <1>4, <1>6

\* The packets Flow speaks of are among those the client may send.
LEMMA ClientPosts ==
  ASSUME cl \in ClientState, cl.out > 0
  PROVE  /\ C("service", 0, "") \in Upward
         /\ \A try \in Tries : C("userauth", 0, try) \in Upward
         /\ C("open", ClientWindow, "") \in Upward
         /\ C("request", 0, "resize") \in Upward /\ C("request", 0, "shell") \in Upward
         /\ \A n \in DataSizes : C("data", n, "") \in Upward
         /\ \A n \in Nat : C("adjust", n, "") \in Upward
  <1>1. cl.out \in Nat
    BY ClientFields
  <1>3. /\ {"service", "userauth", "open", "request", "data", "adjust"} \subseteq ClientMsgs
        /\ {"service", "userauth", "open", "request", "data", "adjust"} \subseteq Posted
        /\ {"", "right", "wrong", "resize", "shell"} \subseteq Details
        /\ Tries \subseteq {"right", "wrong"} /\ DataSizes \subseteq Nat /\ ClientWindow \in Nat
    BY SessionAssumption, ConnAssumption DEF ClientMsgs, Posted, Details
  <1>4. C("service", 0, "") \in Upward
    BY <1>1, <1>3 DEF C, Upward, ClientPacket
  <1>5. ASSUME NEW try \in Tries PROVE C("userauth", 0, try) \in Upward
    BY <1>1, <1>3 DEF C, Upward, ClientPacket
  <1>6. C("open", ClientWindow, "") \in Upward
    BY <1>1, <1>3 DEF C, Upward, ClientPacket
  <1>7. C("request", 0, "resize") \in Upward /\ C("request", 0, "shell") \in Upward
    BY <1>1, <1>3 DEF C, Upward, ClientPacket
  <1>8. ASSUME NEW n \in DataSizes PROVE C("data", n, "") \in Upward
    BY <1>1, <1>3 DEF C, Upward, ClientPacket
  <1>9. ASSUME NEW n \in Nat PROVE C("adjust", n, "") \in Upward
    BY <1>1, <1>3 DEF C, Upward, ClientPacket
  <1>. QED  BY <1>4, <1>5, <1>6, <1>7, <1>8, <1>9

\* The counts of the kinds Flow speaks of after the queues went from c and s to c2s
\* and s2c: dm more packets of kind m, with dn more bytes, and nothing else.
Added(m, dm, dn) ==
    /\ \A k \in ClientKinds : k # m => /\ Count(c2s', k) = Count(c2s, k)
                                       /\ Total(c2s', k) = Total(c2s, k)
    /\ Count(c2s', m) = Count(c2s, m) + dm /\ Total(c2s', m) = Total(c2s, m) + dn
    /\ \A k \in ServerKinds : Count(s2c', k) = Count(s2c, k) /\ Total(s2c', k) = Total(s2c, k)

LEMMA PostAdds ==
  ASSUME Queued, NEW p \in Upward, Post(<<p>>)
  PROVE  Queued' /\ Added(p.msg, 1, p.n)
  <1>1. Queued' /\ \A m : /\ Count(c2s', m) = Count(c2s, m) + One(p, m)
                          /\ Total(c2s', m) = Total(c2s, m) + Bytes(p, m)
    BY PostOne
  <1>2. \A m : Count(c2s, m) \in Nat /\ Total(c2s, m) \in Nat
    BY CountsAreNumbers DEF Queued
  <1>3. \A m : m # p.msg => One(p, m) = 0 /\ Bytes(p, m) = 0
    BY DEF One, Bytes
  <1>4. One(p, p.msg) = 1 /\ Bytes(p, p.msg) = p.n
    BY DEF One, Bytes
  <1>5. s2c' = s2c
    BY DEF Post
  <1>. QED  BY <1>1, <1>2, <1>3, <1>4, <1>5 DEF Added

\* Logging in: the next request goes out as the client moves on.
LEMMA ClientLogsIn ==
  ASSUME Flow, Queued, FlowTypeOK, cl \in ClientState, Untouched, typed' = typed,
         cl'.win = cl.win, cl'.grant = cl.grant, cl'.closeSent = cl.closeSent,
         NEW m, NEW dm \in Nat, NEW dn \in Nat, Added(m, dm, dn),
         \/ m = "service" /\ dm = 1 /\ cl.step = "kex" /\ cl'.step = "service"
         \/ m = "userauth" /\ dm = 1 /\ cl.step = "auth" /\ cl'.step = "auth-wait"
         \/ m = "open" /\ dm = 1 /\ cl.step = "open" /\ cl'.step = "open-wait"
         \/ m = "request" /\ dm = 2 /\ cl.step = "request" /\ cl'.step = "pty-wait"
  PROVE  Flow'
  <1>1. \A k : /\ Count(c2s, k) \in Nat /\ Total(c2s, k) \in Nat
               /\ Count(s2c, k) \in Nat /\ Total(s2c, k) \in Nat
    BY CountsAreNumbers DEF Queued
  <1>2. /\ Count(c2s', "data") = Count(c2s, "data")
        /\ Total(c2s', "data") = Total(c2s, "data")
        /\ Total(c2s', "adjust") = Total(c2s, "adjust")
    BY DEF ClientKinds, Added
  <1>3. /\ Count(s2c', "service-accept") = Count(s2c, "service-accept")
        /\ Count(s2c', "auth-failure") = Count(s2c, "auth-failure")
        /\ Count(s2c', "auth-success") = Count(s2c, "auth-success")
        /\ Count(s2c', "open-confirm") = Count(s2c, "open-confirm")
        /\ Count(s2c', "request-success") = Count(s2c, "request-success")
        /\ Count(s2c', "disconnect") = Count(s2c, "disconnect")
        /\ Total(s2c', "data") = Total(s2c, "data")
        /\ Total(s2c', "adjust") = Total(s2c, "adjust")
    BY DEF ServerKinds, Added
  <1>4. /\ Count(c2s', "service") = Count(c2s, "service") + (IF m = "service" THEN 1 ELSE 0)
        /\ Count(c2s', "userauth") = Count(c2s, "userauth") + (IF m = "userauth" THEN 1 ELSE 0)
        /\ Count(c2s', "open") = Count(c2s, "open") + (IF m = "open" THEN 1 ELSE 0)
        /\ Count(c2s', "request") = Count(c2s, "request") + (IF m = "request" THEN 2 ELSE 0)
    BY <1>1 DEF ClientKinds, Added
  <1>5. Conversing'
    BY <1>1, <1>2, <1>3, <1>4 DEF Flow, Conversing, Untouched, Open, Gone, Before
  <1>6. Progressing'
    BY <1>1, <1>2, <1>3, <1>4 DEF Flow, Progressing, Conversing, Untouched, Open, Gone, Before,
       After
  <1>7. CreditIn'
    BY <1>2, <1>3 DEF Flow, CreditIn, InCredit, Untouched, Open, Before, After
  <1>8. CreditOut'
    BY <1>2, <1>3 DEF Flow, CreditOut, OutCredit, Untouched, Open, Gone, Before, After
  <1>9. NoInputLost'
    BY <1>2 DEF Flow, NoInputLost, Untouched
  <1>. QED  BY <1>5, <1>6, <1>7, <1>8, <1>9 DEF Flow

\* The four ways ClientProceeds may go.
Proceeds ==
    \/ /\ cl.step = "kex" /\ cl' = [cl EXCEPT !.step = "service"]
       /\ Post(<<C("service", 0, "")>>)
    \/ /\ cl.step = "open" /\ cl' = [cl EXCEPT !.step = "open-wait"]
       /\ Post(<<C("open", ClientWindow, "")>>)
    \/ /\ cl.step = "request" /\ cl' = [cl EXCEPT !.step = "pty-wait"]
       /\ Post(<<C("request", 0, "resize"), C("request", 0, "shell")>>)
    \/ \E try \in Tries : /\ cl.step = "auth" /\ cl' = [cl EXCEPT !.step = "auth-wait"]
                          /\ Post(<<C("userauth", 0, try)>>)

LEMMA ProceedsAs == ASSUME ClientProceeds PROVE Proceeds
  <1>. DEFINE s1 == <<"kex", "service", <<C("service", 0, "")>> >>
              s2 == <<"open", "open-wait", <<C("open", ClientWindow, "")>> >>
              s3 == <<"request", "pty-wait",
                      <<C("request", 0, "resize"), C("request", 0, "shell")>> >>
              s4(try) == <<"auth", "auth-wait", <<C("userauth", 0, try)>> >>
  <1>1. PICK s : /\ s \in {s1, s2, s3} \cup {s4(try) : try \in Tries}
                 /\ cl.step = s[1] /\ cl' = [cl EXCEPT !.step = s[2]] /\ Post(s[3])
    BY Zenon DEF ClientProceeds
  <1>2. CASE s = s1
    BY <1>1, <1>2 DEF Proceeds
  <1>3. CASE s = s2
    BY <1>1, <1>3 DEF Proceeds
  <1>4. CASE s = s3
    BY <1>1, <1>4 DEF Proceeds
  <1>5. ASSUME NEW try \in Tries, s = s4(try)
        PROVE  /\ cl.step = "auth" /\ cl' = [cl EXCEPT !.step = "auth-wait"]
               /\ Post(<<C("userauth", 0, try)>>)
    BY <1>1, <1>5
  <1>6. s \in {s1, s2, s3} \/ \E try \in Tries : s = s4(try)
    BY <1>1
  <1>. QED  BY <1>2, <1>3, <1>4, <1>5, <1>6 DEF Proceeds

LEMMA ClientProceedsFlows ==
  ASSUME Sound, Served, ClientProceeds
  PROVE  Queued' /\ Flow'
  <1>. Untouched /\ FlowTypeOK /\ cl \in ClientState /\ Queued /\ Flow
    BY ServedUntouched, SoundParts
  <1>0. cl.out > 0 /\ typed' = typed
    BY DEF ClientProceeds, MaySend
  <1>1. \A m, n, a : C(m, n, a).msg = m /\ C(m, n, a).n = n
    BY DEF C
  <1>2. ASSUME NEW step, cl' = [cl EXCEPT !.step = step]
        PROVE  /\ cl'.win = cl.win /\ cl'.grant = cl.grant /\ cl'.closeSent = cl.closeSent
               /\ cl'.step = step
    BY <1>2 DEF ClientState
  <1>3. CASE cl.step = "kex" /\ cl' = [cl EXCEPT !.step = "service"]
             /\ Post(<<C("service", 0, "")>>)
    <2>. DEFINE p == C("service", 0, "")
    <2>1. p \in Upward /\ p.msg = "service" /\ p.n = 0
      BY <1>0, <1>1, ClientPosts
    <2>. HIDE DEF p
    <2>2. Queued' /\ Added("service", 1, 0)
      BY <1>3, <2>1, PostAdds DEF p
    <2>. QED  BY <1>0, <1>2, <1>3, <2>2, ClientLogsIn
  <1>4. ASSUME NEW try \in Tries, cl.step = "auth", cl' = [cl EXCEPT !.step = "auth-wait"],
               Post(<<C("userauth", 0, try)>>)
        PROVE  Queued' /\ Flow'
    <2>. DEFINE p == C("userauth", 0, try)
    <2>1. p \in Upward /\ p.msg = "userauth" /\ p.n = 0
      BY <1>0, <1>1, ClientPosts
    <2>. HIDE DEF p
    <2>2. Queued' /\ Added("userauth", 1, 0)
      BY <1>4, <2>1, PostAdds DEF p
    <2>. QED  BY <1>0, <1>2, <1>4, <2>2, ClientLogsIn
  <1>5. CASE cl.step = "open" /\ cl' = [cl EXCEPT !.step = "open-wait"]
             /\ Post(<<C("open", ClientWindow, "")>>)
    <2>. DEFINE p == C("open", ClientWindow, "")
    <2>0. ClientWindow \in Nat
      BY SessionAssumption, ConnAssumption
    <2>1. p \in Upward /\ p.msg = "open" /\ p.n = ClientWindow
      BY <1>0, <1>1, ClientPosts
    <2>. HIDE DEF p
    <2>2. Queued' /\ Added("open", 1, ClientWindow)
      BY <1>5, <2>1, PostAdds DEF p
    <2>. QED  BY <1>0, <1>2, <1>5, <2>0, <2>2, ClientLogsIn
  <1>6. CASE cl.step = "request" /\ cl' = [cl EXCEPT !.step = "pty-wait"]
             /\ Post(<<C("request", 0, "resize"), C("request", 0, "shell")>>)
    <2>. DEFINE p == C("request", 0, "resize")
                r == C("request", 0, "shell")
    <2>1. /\ p \in Upward /\ p.msg = "request" /\ p.n = 0
          /\ r \in Upward /\ r.msg = "request" /\ r.n = 0
      BY <1>0, <1>1, ClientPosts
    <2>2. Post(<<p, r>>)
      BY <1>6
    <2>. HIDE DEF p, r
    <2>3. Queued' /\ \A m : /\ Count(c2s', m) = Count(c2s, m) + One(p, m) + One(r, m)
                            /\ Total(c2s', m) = Total(c2s, m) + Bytes(p, m) + Bytes(r, m)
      BY <2>1, <2>2, PostTwo
    <2>4. \A m : Count(c2s, m) \in Nat /\ Total(c2s, m) \in Nat
      BY CountsAreNumbers DEF Queued
    <2>5. \A m : /\ One(p, m) = (IF m = "request" THEN 1 ELSE 0) /\ Bytes(p, m) = 0
                 /\ One(r, m) = (IF m = "request" THEN 1 ELSE 0) /\ Bytes(r, m) = 0
      BY <2>1 DEF One, Bytes
    <2>6. Queued' /\ Added("request", 2, 0)
      <3>1. s2c' = s2c
        BY <2>2 DEF Post
      <3>2. \A k : k # "request" => /\ Count(c2s', k) = Count(c2s, k)
                                    /\ Total(c2s', k) = Total(c2s, k)
        BY <2>3, <2>4, <2>5
      <3>3. /\ Count(c2s', "request") = Count(c2s, "request") + 2
            /\ Total(c2s', "request") = Total(c2s, "request") + 0
        BY <2>3, <2>4, <2>5
      <3>. QED  BY <2>3, <3>1, <3>2, <3>3 DEF Added
    <2>. QED  BY <1>0, <1>2, <1>6, <2>6, ClientLogsIn
  <1>7. Proceeds
    BY ProceedsAs
  <1>. QED  BY <1>3, <1>4, <1>5, <1>6, <1>7 DEF Proceeds

\* Typing and widening the server's window: credit moves from the client to the wire.
LEMMA ClientTypesFlows ==
  ASSUME Sound, Served, NEW n \in DataSizes, ClientTypes(n)
  PROVE  Queued' /\ Flow'
  <1>. Untouched /\ FlowTypeOK /\ cl \in ClientState /\ Queued /\ Flow
    BY ServedUntouched, SoundParts
  <1>1. /\ cl.out > 0 /\ cl.step = "session" /\ n <= cl.win /\ typed' = typed + n
        /\ ~cl.closeSent
    BY DEF ClientTypes, MayUseChannel, MaySend
  <1>2. /\ cl'.win = cl.win - n /\ cl'.grant = cl.grant /\ cl'.closeSent = cl.closeSent
        /\ cl'.step = cl.step
    BY DEF ClientTypes, ClientState
  <1>3. n \in Nat /\ cl.win \in Nat /\ Window \in Nat
    BY ClientFields, ConnAssumption
  <1>. DEFINE p == C("data", n, "")
  <1>4. p \in Upward
    BY <1>1, ClientPosts
  <1>5. p.msg = "data" /\ p.n = n /\ Post(<<p>>)
    BY DEF C, ClientTypes
  <1>. HIDE DEF p
  <1>6. Queued' /\ Added("data", 1, n)
    BY <1>4, <1>5, PostAdds
  <1>7. \A k : /\ Count(c2s, k) \in Nat /\ Total(c2s, k) \in Nat
               /\ Count(s2c, k) \in Nat /\ Total(s2c, k) \in Nat
    BY CountsAreNumbers DEF Queued
  <1>8. /\ Count(c2s', "service") = Count(c2s, "service")
        /\ Count(c2s', "userauth") = Count(c2s, "userauth")
        /\ Count(c2s', "open") = Count(c2s, "open")
        /\ Count(c2s', "request") = Count(c2s, "request")
        /\ Total(c2s', "adjust") = Total(c2s, "adjust")
        /\ Total(c2s', "data") = Total(c2s, "data") + n
    BY <1>6 DEF ClientKinds, Added
  <1>9. /\ Count(s2c', "service-accept") = Count(s2c, "service-accept")
        /\ Count(s2c', "auth-failure") = Count(s2c, "auth-failure")
        /\ Count(s2c', "auth-success") = Count(s2c, "auth-success")
        /\ Count(s2c', "open-confirm") = Count(s2c, "open-confirm")
        /\ Count(s2c', "request-success") = Count(s2c, "request-success")
        /\ Count(s2c', "disconnect") = Count(s2c, "disconnect")
        /\ Total(s2c', "data") = Total(s2c, "data")
        /\ Total(s2c', "adjust") = Total(s2c, "adjust")
    BY <1>6 DEF ServerKinds, Added
  <1>10. Conversing'
    BY <1>1, <1>2, <1>8, <1>9 DEF Flow, Conversing, Untouched, Open, Gone, Before
  <1>11. Progressing'
    BY <1>1, <1>2, <1>8, <1>9 DEF Flow, Progressing, Untouched, Open, Gone, Before, After
  <1>12. CreditIn'
    <2>1. ring \in Nat /\ consumed \in Nat
      BY ConnAssumption DEF FlowTypeOK
    <2>2. InCredit' = InCredit
      BY <1>2, <1>3, <1>7, <1>8, <1>9, <2>1 DEF InCredit, Untouched
    <2>. QED  BY <1>1, <1>2, <2>2 DEF Flow, CreditIn, Untouched, Open, Before, After
  <1>13. CreditOut'
    <2>1. OutCredit' = OutCredit
      BY <1>8, <1>9 DEF OutCredit, Untouched
    <2>. QED  BY <1>1, <1>2, <2>1 DEF Flow, CreditOut, Untouched, Open, Gone, Before, After
  <1>14. NoInputLost'
    <2>1. typed \in Nat /\ delivered \in Nat /\ ring \in Nat
      BY ConnAssumption, SessionAssumption DEF Sound, SessionTypeOK, FlowTypeOK
    <2>. QED  BY <1>1, <1>3, <1>7, <1>8, <2>1 DEF Flow, NoInputLost, Untouched
  <1>. QED  BY <1>6, <1>10, <1>11, <1>12, <1>13, <1>14 DEF Flow

LEMMA ClientAdjustsFlows ==
  ASSUME Sound, Served, ClientAdjusts
  PROVE  Queued' /\ Flow'
  <1>. Untouched /\ FlowTypeOK /\ cl \in ClientState /\ Queued /\ Flow
    BY ServedUntouched, SoundParts
  <1>1. /\ cl.out > 0 /\ cl.step = "session" /\ cl.grant < ClientWindow /\ typed' = typed
        /\ ~cl.closeSent
    BY DEF ClientAdjusts, MayUseChannel, MaySend
  <1>2. /\ cl'.win = cl.win /\ cl'.grant = ClientWindow /\ cl'.closeSent = cl.closeSent
        /\ cl'.step = cl.step
    BY DEF ClientAdjusts, ClientState
  <1>. DEFINE n == ClientWindow - cl.grant
              p == C("adjust", n, "")
  <1>3. cl.grant \in Nat /\ ClientWindow \in Nat
    BY ClientFields, SessionAssumption, ConnAssumption
  <1>4. n \in Nat /\ cl.grant + n = ClientWindow
    BY <1>1, <1>3
  <1>5. p.msg = "adjust" /\ p.n = n /\ Post(<<p>>)
    BY DEF C, ClientAdjusts
  <1>. HIDE DEF n
  <1>6. p \in Upward
    BY <1>1, <1>4, ClientPosts
  <1>. HIDE DEF p
  <1>7. Queued' /\ Added("adjust", 1, n)
    BY <1>5, <1>6, PostAdds
  <1>8. \A k : /\ Count(c2s, k) \in Nat /\ Total(c2s, k) \in Nat
               /\ Count(s2c, k) \in Nat /\ Total(s2c, k) \in Nat
    BY CountsAreNumbers DEF Queued
  <1>9. /\ Count(c2s', "service") = Count(c2s, "service")
        /\ Count(c2s', "userauth") = Count(c2s, "userauth")
        /\ Count(c2s', "open") = Count(c2s, "open")
        /\ Count(c2s', "request") = Count(c2s, "request")
        /\ Total(c2s', "data") = Total(c2s, "data")
        /\ Total(c2s', "adjust") = Total(c2s, "adjust") + n
    BY <1>7 DEF ClientKinds, Added
  <1>10. /\ Count(s2c', "service-accept") = Count(s2c, "service-accept")
         /\ Count(s2c', "auth-failure") = Count(s2c, "auth-failure")
         /\ Count(s2c', "auth-success") = Count(s2c, "auth-success")
         /\ Count(s2c', "open-confirm") = Count(s2c, "open-confirm")
         /\ Count(s2c', "request-success") = Count(s2c, "request-success")
         /\ Count(s2c', "disconnect") = Count(s2c, "disconnect")
         /\ Total(s2c', "data") = Total(s2c, "data")
         /\ Total(s2c', "adjust") = Total(s2c, "adjust")
    BY <1>7 DEF ServerKinds, Added
  <1>11. Conversing'
    BY <1>1, <1>2, <1>9, <1>10 DEF Flow, Conversing, Untouched, Open, Gone, Before
  <1>12. Progressing'
    BY <1>1, <1>2, <1>9, <1>10 DEF Flow, Progressing, Untouched, Open, Gone, Before, After
  <1>13. CreditIn'
    <2>1. InCredit' = InCredit
      BY <1>2, <1>9, <1>10 DEF InCredit, Untouched
    <2>. QED  BY <1>1, <1>2, <2>1 DEF Flow, CreditIn, Untouched, Open, Before, After
  <1>14. CreditOut'
    <2>1. remoteWindow \in Nat
      BY ConnAssumption DEF FlowTypeOK
    <2>2. OutCredit' = OutCredit + n /\ OutCredit \in Nat
      BY <1>4, <1>8, <1>9, <1>10, <2>1 DEF OutCredit, Untouched
    <2>3. OutCredit <= cl.grant /\ (Open => OutCredit = cl.grant)
      BY <1>1 DEF Flow, CreditOut, After
    <2>4. OutCredit' <= cl'.grant /\ (Open => OutCredit' = cl'.grant)
      BY <1>2, <1>3, <1>4, <2>2, <2>3
    <2>. QED  BY <1>1, <1>2, <2>4 DEF CreditOut, Untouched, Open, Gone, Before, After
  <1>15. NoInputLost'
    BY <1>1, <1>9 DEF Flow, NoInputLost, Untouched
  <1>. QED  BY <1>7, <1>11, <1>12, <1>13, <1>14, <1>15 DEF Flow

\* The counts after the client took a packet of kind m with n bytes.
Dropped(m, n) ==
    /\ \A k \in ServerKinds : k # m => /\ Count(s2c', k) = Count(s2c, k)
                                       /\ Total(s2c', k) = Total(s2c, k)
    /\ Count(s2c, m) = Count(s2c', m) + 1 /\ Total(s2c, m) = Total(s2c', m) + n
    /\ Count(s2c', m) \in Nat /\ Total(s2c', m) \in Nat
    /\ \A k \in ClientKinds : Count(c2s', k) = Count(c2s, k) /\ Total(c2s', k) = Total(c2s, k)

LEMMA ReceiveDrops ==
  ASSUME Queued, cl \in ClientState, ClientReceives
  PROVE  /\ Queued' /\ Head(s2c) \in Downward
         /\ Dropped(Head(s2c).msg, Head(s2c).n)
         /\ cl' = Taken(Head(s2c))
         /\ typed' = typed /\ cl.step # "gone"
  <1>1. s2c # <<>> /\ s2c' = Tail(s2c)
    BY DEF ClientReceives
  <1>. DEFINE p == Head(s2c)
              q == s2c'
  <1>2. /\ p \in Downward /\ q \in Seq(Downward)
        /\ \A m : /\ Count(s2c, m) = One(p, m) + Count(q, m)
                  /\ Total(s2c, m) = Bytes(p, m) + Total(q, m)
    BY <1>1, ClientTakes
  <1>3. c2s' = IF p.msg = "kexdh-reply" THEN Append(c2s, C("newkeys", 0, "")) ELSE c2s
    BY DEF ClientReceives
  <1>4. cl' = Taken(p) /\ typed' = typed /\ cl.step # "gone"
    BY DEF ClientReceives
  <1>. HIDE DEF p
  <1>5. \A m : Count(q, m) \in Nat /\ Total(q, m) \in Nat
    <2>. HIDE DEF q
    <2>. QED  BY <1>2, DownwardSized, CountNat
  <1>6. p.n \in Nat
    BY <1>2, DownwardSized DEF Sized
  <1>7. /\ \A m : m # p.msg => One(p, m) = 0 /\ Bytes(p, m) = 0
        /\ One(p, p.msg) = 1 /\ Bytes(p, p.msg) = p.n
    BY DEF One, Bytes
  <1>8. c2s' \in Seq(Upward) /\ \A k \in ClientKinds : /\ Count(c2s', k) = Count(c2s, k)
                                                       /\ Total(c2s', k) = Total(c2s, k)
    <2>1. CASE p.msg # "kexdh-reply"
      BY <1>3, <2>1 DEF Queued
    <2>2. CASE p.msg = "kexdh-reply"
      <3>. DEFINE r == C("newkeys", 0, "")
      <3>1. "newkeys" \notin Secured /\ "" \in Details
        BY DEF Secured, Details
      <3>2. r \in Upward /\ r.msg \notin ClientKinds
        BY <3>1, CAside DEF Asides
      <3>. HIDE DEF r
      <3>3. c2s' = Append(c2s, r) /\ c2s \in Seq(Upward)
        BY <1>3, <2>2 DEF r, Queued
      <3>4. Append(c2s, r) \in Seq(Upward)
        BY <3>2, <3>3
      <3>5. \A k : /\ Count(Append(c2s, r), k) = Count(c2s, k) + One(r, k)
                   /\ Total(Append(c2s, r), k) = Total(c2s, k) + Bytes(r, k)
        BY <3>2, <3>3, UpwardSized, CountAppend
      <3>6. \A k \in ClientKinds : One(r, k) = 0 /\ Bytes(r, k) = 0
        BY <3>2 DEF One, Bytes
      <3>7. \A k : Count(c2s, k) \in Nat /\ Total(c2s, k) \in Nat
        BY CountsAreNumbers DEF Queued
      <3>. QED  BY <3>3, <3>4, <3>5, <3>6, <3>7
    <2>. QED  BY <2>1, <2>2
  <1>9. Dropped(p.msg, p.n)
    <2>. HIDE DEF q
    <2>1. \A k : k # p.msg => /\ Count(q, k) = Count(s2c, k)
                              /\ Total(q, k) = Total(s2c, k)
      BY <1>2, <1>5, <1>7
    <2>2. /\ Count(s2c, p.msg) = Count(q, p.msg) + 1
          /\ Total(s2c, p.msg) = Total(q, p.msg) + p.n
      BY <1>2, <1>5, <1>6, <1>7
    <2>. QED  BY <1>5, <1>8, <2>1, <2>2 DEF Dropped, q
  <1>. QED  BY <1>2, <1>4, <1>8, <1>9 DEF p, Queued

\* A packet Flow does not speak of.
LEMMA TakenAside ==
  ASSUME Flow, Queued, FlowTypeOK, cl \in ClientState, Untouched, typed' = typed,
         NEW p, cl' = Taken(p), p.msg \notin ServerKinds, Dropped(p.msg, p.n)
  PROVE  Flow'
  <1>1. p.msg \notin {"disconnect", "service-accept", "auth-failure", "auth-success",
                      "open-confirm", "request-success", "adjust", "data"}
    BY DEF ServerKinds
  <1>2. /\ cl'.win = cl.win /\ cl'.grant = cl.grant /\ cl'.closeSent = cl.closeSent
        /\ cl'.step = cl.step
    BY <1>1 DEF Taken, ClientState
  <1>. QED  BY <1>2, FlowAside DEF Dropped

\* A reply to a request of the client, or the notice that it is all over.
LEMMA TakenReply ==
  ASSUME Flow, Queued, FlowTypeOK, cl \in ClientState, Untouched, typed' = typed,
         cl.step # "gone", NEW p, cl' = Taken(p), Dropped(p.msg, p.n),
         p.msg \in {"disconnect", "service-accept", "auth-failure", "auth-success",
                    "open-confirm", "request-success"},
         p \in Downward
  PROVE  Flow'
  <1>. DEFINE step == CASE p.msg = "disconnect" -> "gone"
                        [] p.msg \in {"service-accept", "auth-failure"} -> "auth"
                        [] p.msg = "auth-success" -> "open"
                        [] p.msg = "open-confirm" -> "request"
                        [] p.msg = "request-success" ->
                             IF cl.step = "pty-wait" THEN "shell-wait" ELSE "session"
              win == IF p.msg = "open-confirm" THEN Window ELSE cl.win
              grant == IF p.msg = "open-confirm" THEN ClientWindow ELSE cl.grant
  <1>1. /\ cl'.win = win /\ cl'.grant = grant /\ cl'.closeSent = cl.closeSent
        /\ cl'.step = step
    BY DEF Taken, ClientState, Downward
  <1>2. \A k : /\ Count(c2s, k) \in Nat /\ Total(c2s, k) \in Nat
               /\ Count(s2c, k) \in Nat /\ Total(s2c, k) \in Nat
    BY CountsAreNumbers DEF Queued
  <1>3. /\ Count(c2s', "service") = Count(c2s, "service")
        /\ Count(c2s', "userauth") = Count(c2s, "userauth")
        /\ Count(c2s', "open") = Count(c2s, "open")
        /\ Count(c2s', "request") = Count(c2s, "request")
        /\ Count(c2s', "data") = Count(c2s, "data")
        /\ Total(c2s', "data") = Total(c2s, "data")
        /\ Total(c2s', "adjust") = Total(c2s, "adjust")
    BY DEF ClientKinds, Dropped
  <1>4. Total(s2c', "data") = Total(s2c, "data") /\ Total(s2c', "adjust") = Total(s2c, "adjust")
    BY DEF ServerKinds, Dropped
  <1>. DEFINE Less(m) == /\ p.msg # m => Count(s2c', m) = Count(s2c, m)
                         /\ p.msg = m => Count(s2c', m) = Count(s2c, m) - 1 /\ Count(s2c, m) > 0
  <1>5. ASSUME NEW m \in ServerKinds PROVE Less(m)
    <2>1. CASE p.msg # m
      BY <2>1 DEF Dropped
    <2>2. CASE p.msg = m
      <3>1. Count(s2c, m) = Count(s2c', m) + 1 /\ Count(s2c', m) \in Nat
        BY <2>2 DEF Dropped
      <3>. QED  BY <2>2, <3>1
    <2>. QED  BY <2>1, <2>2
  <1>6. /\ Less("service-accept") /\ Less("auth-failure") /\ Less("auth-success")
        /\ Less("open-confirm") /\ Less("request-success") /\ Less("disconnect")
    <2>. HIDE DEF Less
    <2>. QED  BY <1>5 DEF ServerKinds
  <1>7. \/ p.msg = "disconnect" /\ cl'.step = "gone" /\ ~Open
        \/ p.msg = "service-accept" /\ cl.step = "service" /\ cl'.step = "auth"
        \/ p.msg = "auth-failure" /\ cl.step = "auth-wait" /\ cl'.step = "auth"
        \/ p.msg = "auth-success" /\ cl.step = "auth-wait" /\ cl'.step = "open"
        \/ p.msg = "open-confirm" /\ cl.step = "open-wait" /\ cl'.step = "request"
        \/ p.msg = "request-success" /\ cl.step = "pty-wait" /\ cl'.step = "shell-wait"
        \/ p.msg = "request-success" /\ cl.step = "shell-wait" /\ cl'.step = "session"
    BY <1>1, <1>2, <1>6 DEF Flow, Conversing, Progressing, Gone
  <1>. DEFINE Moves == UNCHANGED <<state, chanOpen, shellReady, authTries, pc>>
  <1>8. Moves
    BY DEF Untouched
  <1>9. Conversing'
    BY <1>2, <1>3, <1>6, <1>7, <1>8 DEF Flow, Conversing, Open, Gone, Before
  <1>10. Progressing'
    BY <1>1, <1>2, <1>3, <1>6, <1>7, <1>8 DEF Flow, Progressing, Conversing, Open, Gone, Before,
       After
  <1>11. CreditIn'
    <2>1. /\ ring \in Nat /\ consumed \in Nat /\ cl.win \in Nat /\ Window \in Nat
          /\ ring' = ring /\ consumed' = consumed /\ state' = state
      BY ClientFields, ConnAssumption DEF FlowTypeOK, Untouched
    <2>2. CASE p.msg = "open-confirm"
      <3>1. InCredit = 0 /\ cl'.win = Window /\ cl'.step = "request"
        BY <1>1, <1>7, <2>2 DEF Flow, CreditIn, Before
      <3>2. Total(c2s, "data") \in Nat /\ Total(s2c, "adjust") \in Nat
        BY <1>2
      <3>3. Total(c2s, "data") = 0 /\ Total(s2c, "adjust") = 0 /\ ring = 0 /\ consumed = 0
        BY <2>1, <3>1, <3>2 DEF InCredit
      <3>4. InCredit' = Window
        BY <1>3, <1>4, <2>1, <3>1, <3>3 DEF InCredit
      <3>. QED  BY <2>1, <3>1, <3>4 DEF CreditIn, Before
    <2>3. CASE p.msg # "open-confirm"
      <3>1. InCredit' = InCredit
        BY <1>1, <1>3, <1>4, <2>1, <2>3 DEF InCredit
      <3>. QED  BY <1>7, <2>1, <2>3, <3>1 DEF Flow, CreditIn, Open, Before, After
    <2>. QED  BY <2>2, <2>3
  <1>12. CreditOut'
    <2>1. /\ remoteWindow \in Nat /\ remoteWindow' = remoteWindow /\ ClientWindow \in Nat
          /\ cl.grant \in Nat /\ cl.grant <= ClientWindow
          /\ state' = state /\ chanOpen' = chanOpen
      BY ClientFields, ConnAssumption, SessionAssumption DEF FlowTypeOK, Untouched
    <2>2. OutCredit' = OutCredit /\ OutCredit \in Nat
      BY <1>2, <1>3, <1>4, <2>1 DEF OutCredit
    <2>3. CASE p.msg = "open-confirm"
      <3>1. chanOpen
        BY <1>6, <1>7, <2>3 DEF Flow, Progressing, Gone
      <3>2. OutCredit = ClientWindow
        BY <1>7, <2>1, <2>3, <3>1 DEF Flow, CreditOut, OutCredit, Before
      <3>. QED  BY <1>1, <1>7, <2>1, <2>2, <2>3, <3>2 DEF CreditOut, Open, Before, After, Gone
    <2>4. CASE p.msg = "disconnect"
      <3>1. Before \/ After
        BY DEF Before, After, ClientState
      <3>2. OutCredit <= ClientWindow
        <4>1. CASE Before
          BY <2>1, <4>1 DEF Flow, CreditOut, OutCredit
        <4>2. CASE After
          BY <2>1, <2>2, <4>2 DEF Flow, CreditOut
        <4>. QED  BY <3>1, <4>1, <4>2
      <3>. QED  BY <1>7, <2>2, <2>4, <3>2 DEF CreditOut, Open, Before, After, Gone
    <2>5. CASE p.msg \notin {"open-confirm", "disconnect"}
      BY <1>1, <1>3, <1>4, <1>7, <2>1, <2>2, <2>5
         DEF Flow, CreditOut, Open, Before, After, Gone
    <2>. QED  BY <2>3, <2>4, <2>5
  <1>13. NoInputLost'
    BY <1>3 DEF Flow, NoInputLost, Untouched
  <1>. QED  BY <1>9, <1>10, <1>11, <1>12, <1>13 DEF Flow

\* Window or output for the client.
LEMMA TakenCredit ==
  ASSUME Flow, Queued, FlowTypeOK, cl \in ClientState, Untouched, typed' = typed,
         NEW p \in Downward, cl' = Taken(p), Dropped(p.msg, p.n),
         p.msg \in {"adjust", "data"}, cl.step # "gone"
  PROVE  Flow'
  <1>1. /\ cl'.win = IF p.msg = "adjust" THEN cl.win + p.n ELSE cl.win
        /\ cl'.grant = IF p.msg = "data" THEN cl.grant - p.n ELSE cl.grant
        /\ cl'.closeSent = cl.closeSent /\ cl'.step = cl.step
    BY DEF Taken, ClientState
  <1>2. \A k : /\ Count(c2s, k) \in Nat /\ Total(c2s, k) \in Nat
               /\ Count(s2c, k) \in Nat /\ Total(s2c, k) \in Nat
    BY CountsAreNumbers DEF Queued
  <1>3. /\ Count(c2s', "service") = Count(c2s, "service")
        /\ Count(c2s', "userauth") = Count(c2s, "userauth")
        /\ Count(c2s', "open") = Count(c2s, "open")
        /\ Count(c2s', "request") = Count(c2s, "request")
        /\ Count(c2s', "data") = Count(c2s, "data")
        /\ Total(c2s', "data") = Total(c2s, "data")
        /\ Total(c2s', "adjust") = Total(c2s, "adjust")
    BY DEF ClientKinds, Dropped
  <1>4. /\ Count(s2c', "service-accept") = Count(s2c, "service-accept")
        /\ Count(s2c', "auth-failure") = Count(s2c, "auth-failure")
        /\ Count(s2c', "auth-success") = Count(s2c, "auth-success")
        /\ Count(s2c', "open-confirm") = Count(s2c, "open-confirm")
        /\ Count(s2c', "request-success") = Count(s2c, "request-success")
        /\ Count(s2c', "disconnect") = Count(s2c, "disconnect")
    BY DEF ServerKinds, Dropped
  <1>5. p.n \in Nat /\ Total(s2c', "adjust") \in Nat /\ Total(s2c', "data") \in Nat
    <2>1. p.n \in Nat
      BY DownwardSized DEF Sized
    <2>2. CASE p.msg = "adjust"
      BY <1>2, <2>1, <2>2 DEF Dropped, ServerKinds
    <2>3. CASE p.msg = "data"
      BY <1>2, <2>1, <2>3 DEF Dropped, ServerKinds
    <2>. QED  BY <2>1, <2>2, <2>3
  <1>6. /\ Total(s2c, "adjust") = Total(s2c', "adjust") + (IF p.msg = "adjust" THEN p.n ELSE 0)
        /\ Total(s2c, "data") = Total(s2c', "data") + (IF p.msg = "data" THEN p.n ELSE 0)
    <2>1. CASE p.msg = "adjust"
      BY <1>2, <1>5, <2>1 DEF Dropped, ServerKinds
    <2>2. CASE p.msg = "data"
      BY <1>2, <1>5, <2>2 DEF Dropped, ServerKinds
    <2>. QED  BY <2>1, <2>2
  <1>7. Conversing'
    BY <1>1, <1>3, <1>4 DEF Flow, Conversing, Untouched, Open, Gone, Before
  <1>8. Progressing'
    BY <1>1, <1>3, <1>4 DEF Flow, Progressing, Untouched, Open, Gone, Before, After
  <1>9. CreditIn'
    <2>1. ring \in Nat /\ consumed \in Nat /\ cl.win \in Nat
      BY ClientFields, ConnAssumption DEF FlowTypeOK
    <2>2. InCredit' = InCredit
      BY <1>1, <1>2, <1>3, <1>5, <1>6, <2>1 DEF InCredit, Untouched
    <2>. QED  BY <1>1, <2>2 DEF Flow, CreditIn, Untouched, Open, Before, After
  <1>10. CreditOut'
    <2>1. /\ remoteWindow \in Nat /\ remoteWindow' = remoteWindow /\ cl.grant \in Nat
          /\ state' = state /\ chanOpen' = chanOpen
      BY ClientFields, ConnAssumption DEF FlowTypeOK, Untouched
    <2>. DEFINE d == IF p.msg = "data" THEN p.n ELSE 0
    <2>2. d \in Nat /\ cl'.grant = cl.grant - d /\ Total(s2c, "data") = Total(s2c', "data") + d
      BY <1>1, <1>5, <1>6, <2>1
    <2>. HIDE DEF d
    <2>3. CASE Before
      <3>1. d = 0 /\ Total(s2c', "data") = 0
        BY <1>5, <2>2, <2>3 DEF Flow, CreditOut
      <3>2. /\ Total(c2s, "adjust") = 0 /\ cl.grant = 0
            /\ remoteWindow = IF chanOpen THEN ClientWindow ELSE 0
        BY <2>3 DEF Flow, CreditOut
      <3>3. cl'.grant = 0 /\ Total(c2s', "adjust") = 0 /\ cl'.step = cl.step
        BY <1>1, <1>3, <2>2, <3>1, <3>2
      <3>4. Before' /\ ~After' /\ ~Gone'
        BY <2>3, <3>3 DEF Before, After, Gone
      <3>. QED  BY <2>1, <3>1, <3>2, <3>3, <3>4 DEF CreditOut
    <2>4. CASE After
      <3>1. OutCredit' + d = OutCredit /\ OutCredit' \in Nat
        BY <1>2, <1>3, <1>5, <2>1, <2>2 DEF OutCredit
      <3>2. OutCredit <= cl.grant /\ (Open => OutCredit = cl.grant)
        BY <2>4 DEF Flow, CreditOut
      <3>3. OutCredit' <= cl'.grant /\ (Open => OutCredit' = cl'.grant)
        BY <2>1, <2>2, <3>1, <3>2
      <3>. QED  BY <1>1, <2>1, <2>4, <3>3 DEF CreditOut, Open, Before, After, Gone
    <2>. QED  BY <2>3, <2>4 DEF Before, After, ClientState
  <1>11. NoInputLost'
    BY <1>3 DEF Flow, NoInputLost, Untouched
  <1>. QED  BY <1>7, <1>8, <1>9, <1>10, <1>11 DEF Flow

LEMMA ClientReceivesFlows ==
  ASSUME Sound, Served, ClientReceives
  PROVE  Queued' /\ Flow'
  <1>. Untouched /\ FlowTypeOK /\ cl \in ClientState /\ Queued /\ Flow
    BY ServedUntouched, SoundParts
  <1>. DEFINE p == Head(s2c)
  <1>1. /\ Queued' /\ p \in Downward /\ Dropped(p.msg, p.n) /\ cl' = Taken(p)
        /\ typed' = typed /\ cl.step # "gone"
    BY ReceiveDrops
  <1>. HIDE DEF p
  <1>2. CASE p.msg \notin ServerKinds
    BY <1>1, <1>2, TakenAside
  <1>3. CASE p.msg \in {"adjust", "data"}
    BY <1>1, <1>3, TakenCredit
  <1>4. CASE p.msg \in {"disconnect", "service-accept", "auth-failure", "auth-success",
                        "open-confirm", "request-success"}
    BY <1>1, <1>4, TakenReply
  <1>. QED  BY <1>1, <1>2, <1>3, <1>4 DEF ServerKinds

LEMMA ClientFlows ==
  ASSUME Sound, ClientStep
  PROVE  Queued' /\ Flow'
  <1>1. Served
    BY DEF ClientStep, Served
  <1>2. CASE ClientReceives
    BY <1>1, <1>2, ClientReceivesFlows
  <1>3. CASE ClientProceeds
    BY <1>1, <1>3, ClientProceedsFlows
  <1>4. CASE ClientAdjusts
    BY <1>1, <1>4, ClientAdjustsFlows
  <1>5. ASSUME NEW n \in DataSizes, ClientTypes(n) PROVE Queued' /\ Flow'
    BY <1>1, <1>5, ClientTypesFlows
  <1>6. CASE \/ ClientHello \/ ClientKexDh \/ ClientEof \/ ClientClose \/ ClientLeaves
             \/ \E guess \in Guesses : ClientKexInit(guess)
    <2>1. cl.step # "gone"
      BY <1>6 DEF ClientHello, ClientKexDh, ClientEof, ClientClose, ClientLeaves,
         ClientKexInit, MayUseChannel, MaySend
    <2>. QED  BY <1>1, <1>6, <2>1, ClientAside
  <1>. QED  BY <1>2, <1>3, <1>4, <1>5, <1>6 DEF ClientStep
-----------------------------------------------------------------------------
(* The client's steps keep their types *)

LEMMA ClientStateTyped ==
  ASSUME Sound, ClientStep
  PROVE  cl' \in ClientState
  <1>. FlowTypeOK /\ cl \in ClientState /\ Queued /\ Flow
    BY SoundParts
  <1>0. /\ cl.out \in Nat /\ cl.in \in Nat /\ cl.rekeys \in 0..MaxRekeys
        /\ cl.win \in 0..Window /\ cl.grant \in 0..ClientWindow
        /\ Window \in Nat /\ ClientWindow \in Nat /\ MaxRekeys \in Nat
    BY ClientFields, ConnAssumption, SessionAssumption
  <1>1. CASE ClientHello
    BY <1>1 DEF ClientHello, ClientState
  <1>2. CASE ClientKexDh
    BY <1>2 DEF ClientKexDh, ClientState
  <1>3. CASE ClientEof
    BY <1>3 DEF ClientEof, ClientState
  <1>4. CASE ClientClose
    BY <1>4 DEF ClientClose, ClientState
  <1>5. CASE ClientLeaves
    BY <1>5 DEF ClientLeaves, ClientState
  <1>6. CASE ClientAdjusts
    <2>1. ClientWindow \in 0..ClientWindow
      BY <1>0
    <2>2. cl' = [cl EXCEPT !.grant = ClientWindow]
      BY <1>6 DEF ClientAdjusts
    <2>. QED  BY <2>1, <2>2 DEF ClientState
  <1>7. ASSUME NEW n \in DataSizes, ClientTypes(n) PROVE cl' \in ClientState
    <2>1. cl.win - n \in 0..Window
      <3>1. n \in Nat /\ n <= cl.win
        BY <1>7, ConnAssumption DEF ClientTypes
      <3>. QED  BY <1>0, <3>1
    <2>. QED  BY <1>7, <2>1 DEF ClientTypes, ClientState
  <1>8. ASSUME NEW guess \in Guesses, ClientKexInit(guess) PROVE cl' \in ClientState
    <2>. DEFINE rekeys == IF cl.out > 0 THEN cl.rekeys + 1 ELSE cl.rekeys
                k == IF guess # "right" THEN "init" ELSE IF cl.peerInit THEN "dh" ELSE "guessed"
                peer == cl.peerInit /\ guess # "right"
    <2>1. rekeys \in 0..MaxRekeys
      <3>1. cl.out > 0 => cl.rekeys < MaxRekeys
        BY <1>8 DEF ClientKexInit
      <3>2. CASE cl.out > 0
        <4>1. cl.rekeys < MaxRekeys
          BY <3>1, <3>2
        <4>2. cl.rekeys + 1 \in 0..MaxRekeys
          BY <1>0, <4>1
        <4>. QED  BY <3>2, <4>2
      <3>3. CASE ~(cl.out > 0)
        BY <1>0, <3>3
      <3>. QED  BY <3>2, <3>3
    <2>2. k \in {"idle", "init", "guessed", "dh", "newkeys"} /\ peer \in BOOLEAN
      OBVIOUS
    <2>3. cl' = [cl EXCEPT !.kex = k, !.peerInit = peer, !.rekeys = rekeys]
      BY <1>8 DEF ClientKexInit
    <2>. HIDE DEF rekeys, k, peer
    <2>. QED  BY <2>1, <2>2, <2>3 DEF ClientState
  <1>9. CASE ClientProceeds
    <2>1. \E s \in {"service", "open-wait", "pty-wait", "auth-wait"} : cl' = [cl EXCEPT !.step = s]
      BY <1>9, ProceedsAs DEF Proceeds
    <2>. QED  BY <2>1 DEF ClientState
  <1>10. CASE ClientReceives
    <2>. DEFINE p == Head(s2c)
    <2>1. /\ p \in Downward /\ Dropped(p.msg, p.n) /\ cl' = Taken(p) /\ cl.step # "gone"
      BY <1>10, ReceiveDrops
    <2>. HIDE DEF p
    <2>2. p.n \in Nat /\ (p.msg = "open-confirm" => p.n = Window)
      BY <2>1 DEF Downward, Packet
    <2>3. \A k : /\ Total(c2s, k) \in Nat /\ Total(s2c, k) \in Nat
      BY CountsAreNumbers DEF Queued
    <2>4. CASE p.msg = "adjust"
      <3>1. Total(s2c, "adjust") = Total(s2c', "adjust") + p.n /\ Total(s2c', "adjust") \in Nat
        BY <2>1, <2>4 DEF Dropped
      <3>2. ring \in Nat /\ consumed \in Nat
        BY ConnAssumption DEF FlowTypeOK
      <3>3. InCredit <= Window
        BY DEF Flow, CreditIn
      <3>4. cl.win + p.n \in 0..Window
        <4>1. Total(c2s, "data") \in Nat
          BY <2>3
        <4>. QED  BY <1>0, <2>2, <3>1, <3>2, <3>3, <4>1 DEF InCredit
      <3>5. cl' = [cl EXCEPT !.win = cl.win + p.n]
        BY <2>1, <2>4 DEF Taken
      <3>. QED  BY <3>4, <3>5 DEF ClientState
    <2>5. CASE p.msg = "data"
      <3>1. Total(s2c, "data") = Total(s2c', "data") + p.n /\ Total(s2c', "data") \in Nat
        BY <2>1, <2>5 DEF Dropped
      <3>2. remoteWindow \in Nat
        BY ConnAssumption DEF FlowTypeOK
      <3>3. p.n <= cl.grant
        <4>1. CASE Before
          BY <1>0, <2>2, <3>1, <4>1 DEF Flow, CreditOut
        <4>2. CASE After
          <5>1. Total(c2s, "adjust") \in Nat
            BY <2>3
          <5>2. OutCredit <= cl.grant
            BY <4>2 DEF Flow, CreditOut
          <5>. QED  BY <1>0, <2>2, <3>1, <3>2, <5>1, <5>2 DEF OutCredit
        <4>. QED  BY <2>1, <4>1, <4>2 DEF Before, After, ClientState
      <3>4. cl.grant - p.n \in 0..ClientWindow
        BY <1>0, <2>2, <3>3
      <3>5. cl' = [cl EXCEPT !.grant = cl.grant - p.n]
        BY <2>1, <2>5 DEF Taken
      <3>. QED  BY <3>4, <3>5 DEF ClientState
    <2>6. CASE p.msg = "open-confirm"
      <3>1. cl' = [cl EXCEPT !.step = "request", !.win = Window, !.grant = ClientWindow]
        BY <2>1, <2>2, <2>6 DEF Taken
      <3>2. Window \in 0..Window /\ ClientWindow \in 0..ClientWindow
        BY <1>0
      <3>. QED  BY <3>1, <3>2 DEF ClientState
    <2>7. CASE p.msg \in {"kexinit", "kexdh-reply", "newkeys"}
      <3>1. \/ cl' = [cl EXCEPT !.kex = "dh"] \/ cl' = [cl EXCEPT !.peerInit = TRUE]
            \/ cl' = [cl EXCEPT !.kex = "newkeys", !.out = cl.out + 1]
            \/ cl' = [cl EXCEPT !.kex = "idle", !.in = cl.out]
        BY <2>1, <2>7 DEF Taken
      <3>2. cl.out + 1 \in Nat
        BY <1>0
      <3>3. CASE cl' = [cl EXCEPT !.kex = "dh"]
        BY <3>3 DEF ClientState
      <3>4. CASE cl' = [cl EXCEPT !.peerInit = TRUE]
        BY <3>4 DEF ClientState
      <3>5. CASE cl' = [cl EXCEPT !.kex = "newkeys", !.out = cl.out + 1]
        BY <3>2, <3>5 DEF ClientState
      <3>6. CASE cl' = [cl EXCEPT !.kex = "idle", !.in = cl.out]
        BY <3>6 DEF ClientState
      <3>. QED  BY <3>1, <3>3, <3>4, <3>5, <3>6
    <2>8. CASE p.msg \notin {"adjust", "data", "open-confirm", "kexinit", "kexdh-reply", "newkeys"}
      <3>1. \/ cl' = cl \/ cl' = [cl EXCEPT !.closeRecv = TRUE]
            \/ \E s \in {"gone", "auth", "open", "shell-wait", "session"} :
                  cl' = [cl EXCEPT !.step = s]
        BY <2>1, <2>8 DEF Taken
      <3>2. CASE cl' = [cl EXCEPT !.closeRecv = TRUE]
        BY <3>2 DEF ClientState
      <3>3. ASSUME NEW s \in {"gone", "auth", "open", "shell-wait", "session"},
                   cl' = [cl EXCEPT !.step = s]
            PROVE  cl' \in ClientState
        BY <3>3 DEF ClientState
      <3>. QED  BY <3>1, <3>2, <3>3
    <2>. QED  BY <2>4, <2>5, <2>6, <2>7, <2>8
  <1>. QED  BY <1>1, <1>2, <1>3, <1>4, <1>5, <1>6, <1>7, <1>8, <1>9, <1>10 DEF ClientStep

\* A step that leaves the server alone.
LEMMA TypeUntouched == ASSUME TypeOK, UNCHANGED vars PROVE TypeOK'
  <1>1. UNCHANGED <<pc, unsent, state, kexVars, keyVars, authVars, chanVars, flowVars, size, tx>>
    BY DEF vars
  <1>2. CallTypeOK'
    BY <1>1 DEF TypeOK, CallTypeOK
  <1>. QED  BY <1>1, <1>2, UnchangedTyped DEF TypeOK

LEMMA ClientSound ==
  ASSUME Sound, ClientStep
  PROVE  Sound'
  <1>1. Queued' /\ Flow'
    BY ClientFlows
  <1>2. cl' \in ClientState
    BY ClientStateTyped
  <1>3. c2s' \in Seq(ClientPacket) /\ s2c' \in Seq(Packet)
    <2>1. Upward \subseteq ClientPacket /\ Downward \subseteq Packet
      BY DEF Upward, Downward
    <2>. QED  BY <1>1, <2>1 DEF Queued
  <1>4. TypeOK'
    BY TypeUntouched DEF Sound, SessionTypeOK, ClientStep
  <1>5. typed' \in 0..MaxTyped
    <2>1. typed \in 0..MaxTyped /\ MaxTyped \in Nat /\ DataSizes \subseteq Nat
      BY ConnAssumption, SessionAssumption DEF Sound, SessionTypeOK
    <2>2. typed' = typed \/ \E n \in DataSizes : typed' = typed + n /\ typed + n <= MaxTyped
      BY DEF ClientStep, ClientReceives, ClientHello, ClientKexDh, ClientProceeds,
             ClientKexInit, ClientTypes, ClientAdjusts, ClientEof, ClientClose, ClientLeaves
    <2>. QED  BY <2>1, <2>2
  <1>6. delivered' \in Nat /\ written' \in 0..MaxWritten
    BY DEF ClientStep, Sound, SessionTypeOK
  <1>. QED  BY <1>1, <1>2, <1>3, <1>4, <1>5, <1>6 DEF Sound, SessionTypeOK
-----------------------------------------------------------------------------
(* The server's steps keep their types *)

\* Which handler the next packet of the stream runs.
LEMMA Handling ==
  ASSUME NEW p \in Upward, NEW o, Handle(p, o)
  PROVE  \/ p.msg = "version" /\ RecvVersion("ssh2", o)
         \/ p.msg # "version" /\ \E m, w : RejectPacket(m, w, o)
         \/ p.msg = "kexdh" /\ SkipGuessed("kexdh")
         \/ /\ p.msg \in Posted \ {"version"} /\ Acceptable(p.msg)
            /\ p.key = inKeys /\ Dispatch(p, o)
  <1>1. p.msg \in Posted /\ (p.msg = "version" => p.arg = "ssh2")
    BY DEF Upward
  <1>2. CASE p.msg = "version"
    BY <1>1, <1>2 DEF Handle
  <1>3. CASE p.msg # "version" /\ p.key # inKeys
    BY <1>3 DEF Handle
  <1>4. CASE p.msg # "version" /\ p.key = inKeys /\ Guessed(p.msg)
    <2>1. SkipGuessed(p.msg)
      BY <1>4 DEF Handle
    <2>2. p.msg = "kexdh"
      BY <1>1, <1>4 DEF Guessed, Posted
    <2>. QED  BY <2>1, <2>2
  <1>5. CASE p.msg # "version" /\ p.key = inKeys /\ ~Guessed(p.msg)
    <2>1. CASE ~Acceptable(p.msg)
      BY <1>5, <2>1 DEF Handle
    <2>2. CASE Acceptable(p.msg)
      BY <1>1, <1>5, <2>2 DEF Handle
    <2>. QED  BY <2>1, <2>2
  <1>. QED  BY <1>2, <1>3, <1>4, <1>5

\* The switch of HandlePacket, one message number at a time.
LEMMA Dispatching ==
  ASSUME NEW p \in Upward, NEW o, Dispatch(p, o), p.msg # "version"
  PROVE  \/ /\ p.msg = "kexinit" /\ p.arg \in {"match", "wrong guess"}
            /\ RecvKexInit(p.arg, o)
         \/ p.msg = "kexdh" /\ RecvKexDh(o)
         \/ p.msg = "newkeys" /\ RecvNewKeys
         \/ p.msg = "service" /\ RecvServiceRequest(o)
         \/ /\ p.msg = "userauth" /\ p.arg \in {"right", "wrong"}
            /\ RecvUserauth(p.arg, o)
         \/ /\ p.msg = "open" /\ p.n = ClientWindow
            /\ RecvChannelOpen(TRUE, ClientWindow, ClientMaxPkt, o)
         \/ /\ p.msg = "request" /\ p.arg \in {"resize", "shell"}
            /\ \E d \in Dims : RecvChannelRequest(p.arg, d, d, TRUE, o)
         \/ p.msg = "data" /\ p.n \in DataSizes /\ RecvData(p.n)
         \/ p.msg = "adjust" /\ p.n \in Nat /\ RecvWindowAdjust(p.n)
         \/ p.msg = "eof" /\ RecvEof
         \/ p.msg = "close" /\ RecvClose(o)
         \/ p.msg = "disconnect" /\ RecvDisconnect
  <1>1. /\ p.msg \in Posted /\ p.n \in Nat
        /\ p.msg = "kexinit" => p.arg \in {"match", "wrong guess"}
        /\ p.msg = "userauth" => p.arg \in {"right", "wrong"}
        /\ p.msg = "request" => p.arg \in {"resize", "shell"}
        /\ p.msg = "open" => p.n = ClientWindow
        /\ p.msg = "data" => p.n \in DataSizes
    BY DEF Upward, ClientPacket
  <1>2. CASE p.msg = "kexinit"
    BY <1>1, <1>2 DEF Dispatch
  <1>3. CASE p.msg = "kexdh"
    BY <1>3 DEF Dispatch
  <1>4. CASE p.msg = "newkeys"
    BY <1>4 DEF Dispatch
  <1>5. CASE p.msg = "service"
    BY <1>5 DEF Dispatch
  <1>6. CASE p.msg = "userauth"
    BY <1>1, <1>6 DEF Dispatch
  <1>7. CASE p.msg = "open"
    BY <1>1, <1>7 DEF Dispatch
  <1>8. CASE p.msg = "request"
    BY <1>1, <1>8 DEF Dispatch
  <1>9. CASE p.msg = "data"
    BY <1>1, <1>9 DEF Dispatch
  <1>10. CASE p.msg = "adjust"
    BY <1>1, <1>10 DEF Dispatch
  <1>11. CASE p.msg = "eof"
    BY <1>11 DEF Dispatch
  <1>12. CASE p.msg = "close"
    BY <1>12 DEF Dispatch
  <1>13. CASE p.msg = "disconnect"
    BY <1>13 DEF Dispatch
  <1>. QED  BY <1>1, <1>2, <1>3, <1>4, <1>5, <1>6, <1>7, <1>8, <1>9, <1>10, <1>11, <1>12, <1>13
            DEF Posted

LEMMA HandleTyped ==
  ASSUME TypeOK, NEW p \in Upward, NEW o \in SendResults, Handle(p, o)
  PROVE  TypeOK'
  <1>1. CASE p.msg = "version" /\ RecvVersion("ssh2", o)
    <2>1. RecvTransport(o)
      BY <1>1 DEF RecvTransport
    <2>. QED  BY <2>1, TypeTransport
  <1>2. ASSUME NEW m, NEW w, RejectPacket(m, w, o) PROVE TypeOK'
    <2>1. RejectPacket("unknown", FALSE, o)
      BY <1>2 DEF RejectPacket, Guessed
    <2>2. RecvTransport(o)
      BY <2>1 DEF RecvTransport
    <2>. QED  BY <2>2, TypeTransport
  <1>3. CASE SkipGuessed("kexdh")
    <2>1. RecvSilently
      BY <1>3 DEF RecvSilently, ClientMsgs
    <2>. QED  BY <2>1, TypeSilent
  <1>4. CASE p.msg # "version" /\ Dispatch(p, o)
    <2>1. CASE \/ p.arg \in {"match", "wrong guess"} /\ RecvKexInit(p.arg, o)
               \/ RecvKexDh(o)
      <3>1. RecvTransport(o)
        BY <2>1 DEF RecvTransport
      <3>. QED  BY <3>1, TypeTransport
    <2>2. CASE RecvNewKeys \/ RecvEof \/ RecvDisconnect
      <3>1. RecvSilently
        BY <2>2 DEF RecvSilently
      <3>. QED  BY <3>1, TypeSilent
    <2>3. CASE p.n \in DataSizes /\ RecvData(p.n)
      <3>1. RecvSilently
        BY <2>3 DEF RecvSilently
      <3>. QED  BY <3>1, TypeSilent
    <2>4. CASE \/ RecvServiceRequest(o) \/ RecvClose(o)
               \/ p.arg \in {"right", "wrong"} /\ RecvUserauth(p.arg, o)
      <3>1. RecvSession(o)
        BY <2>4 DEF RecvSession
      <3>. QED  BY <3>1, TypeSession
    <2>5. CASE RecvChannelOpen(TRUE, ClientWindow, ClientMaxPkt, o)
      <3>1. ClientWindow \in 0..(Mod32 - 1) /\ ClientMaxPkt \in Nat
        BY SessionAssumption, ConnAssumption
      <3>. QED  BY <2>5, <3>1, OpenTyped
    <2>6. ASSUME NEW d \in Dims, RecvChannelRequest(p.arg, d, d, TRUE, o) PROVE TypeOK'
      <3>1. d \in Nat
        BY ConnAssumption
      <3>. QED  BY <2>6, <3>1, RequestTyped
    <2>7. CASE p.n \in Nat /\ RecvWindowAdjust(p.n)
      BY <2>7, AdjustTyped
    <2>. QED  BY <1>4, <2>1, <2>2, <2>3, <2>4, <2>5, <2>6, <2>7, Dispatching
  <1>. QED  BY <1>1, <1>2, <1>3, <1>4, Handling

LEMMA ServerTyped ==
  ASSUME TypeOK, Queued, ServerStep
  PROVE  TypeOK'
  <1>0. Faults \subseteq SendResults
    BY SessionAssumption
  <1>1. CASE ServerLosesClient
    <2>1. RecvSilently
      BY <1>1 DEF ServerLosesClient, RecvSilently
    <2>. QED  BY <2>1, TypeSilent
  <1>2. ASSUME NEW n \in WriteSizes, ServerStartsWrite(n) PROVE TypeOK'
    <2>1. CallsSilently
      BY <1>2 DEF ServerStartsWrite, CallsSilently
    <2>. QED  BY <2>1, TypeCallsSilently
  <1>3. ASSUME NEW o \in Faults, ServerReceives(o) PROVE TypeOK'
    <2>1. c2s # <<>> /\ Handle(Head(c2s), o) /\ c2s \in Seq(Upward)
      BY <1>3 DEF ServerReceives, Queued
    <2>2. Head(c2s) \in Upward
      BY <2>1, HeadTailProperties
    <2>. QED  BY <1>0, <2>1, <2>2, HandleTyped
  <1>4. ASSUME NEW o \in Faults,
               \/ ServerAccepts(o) \/ ServerReads(o) \/ ServerWrites(o)
               \/ ServerStartsClose(o) \/ ServerEndsClose(o)
        PROVE  TypeOK'
    <2>1. Calls(o) \/ CallsSilently
      <3>1. CASE ServerAccepts(o) \/ ServerReads(o) \/ ServerWrites(o) \/ ServerEndsClose(o)
        BY <3>1 DEF ServerAccepts, ServerReads, ServerWrites, ServerEndsClose, Calls, CallsSilently
      <3>2. CASE ServerStartsClose(o)
        <4>. DEFINE sent == IF o = "ok" THEN {"exit-status", "eof", "close"} ELSE {}
        <4>1. sent \in SUBSET {"exit-status", "eof", "close"} /\ CloseStart(sent, o)
          BY <3>2 DEF ServerStartsClose
        <4>. HIDE DEF sent
        <4>. QED  BY <4>1 DEF Calls
      <3>. QED  BY <1>4, <3>1, <3>2
    <2>. QED  BY <1>0, <2>1, TypeCalls, TypeCallsSilently
  <1>. QED  BY <1>1, <1>2, <1>3, <1>4 DEF ServerStep
-----------------------------------------------------------------------------
(* The server's steps keep Flow *)

\* Packets that are not there do not count.
LEMMA CountNone ==
  ASSUME NEW S, Sized(S), NEW q \in Seq(S), NEW m, \A i \in 1..Len(q) : q[i].msg # m
  PROVE  Count(q, m) = 0 /\ Total(q, m) = 0
  <1>. DEFINE Lacks(s) == \A i \in 1..Len(s) : s[i].msg # m
              Zero(s) == Count(s, m) = 0 /\ Total(s, m) = 0
              T == {n \in Nat : \E s \in Seq(S) : Len(s) = n /\ Lacks(s) /\ ~Zero(s)}
  <1>1. ASSUME NEW n \in T, \A k \in T : n <= k PROVE FALSE
    <2>1. PICK s \in Seq(S) : Len(s) = n /\ n \in Nat /\ Lacks(s) /\ ~Zero(s)
      OBVIOUS
    <2>2. CASE s = <<>>
      BY <2>1, <2>2, CountEmpty
    <2>3. CASE s # <<>>
      <3>1. PICK f \in Seq(S), e \in S : s = Append(f, e)
        BY <2>3, SequenceEmptyOrAppend
      <3>2. Len(f) \in Nat /\ Len(s) = Len(f) + 1 /\ Len(f) < n
        BY <2>1, <3>1
      <3>3. Lacks(f) /\ e.msg # m
        <4>1. s[Len(f) + 1] = e /\ \A i \in 1..Len(f) : s[i] = f[i]
          BY <3>1
        <4>. QED  BY <2>1, <3>2, <4>1
      <3>4. Zero(f)
        <4>1. Len(f) \notin T
          <5>. HIDE DEF T
          <5>. QED  BY <1>1, <2>1, <3>2
        <4>. QED  BY <3>2, <3>3, <4>1
      <3>5. /\ Count(s, m) = Count(f, m) + One(e, m)
            /\ Total(s, m) = Total(f, m) + Bytes(e, m)
        BY <3>1, CountAppend
      <3>6. One(e, m) = 0 /\ Bytes(e, m) = 0
        BY <3>3 DEF One, Bytes
      <3>. QED  BY <2>1, <3>4, <3>5, <3>6
    <2>. QED  BY <2>2, <2>3
  <1>2. T = {}
    <2>1. T \subseteq Nat
      OBVIOUS
    <2>. HIDE DEF T
    <2>. QED  BY <1>1, <2>1, LeastOf
  <1>3. Len(q) \in Nat
    OBVIOUS
  <1>. QED  BY <1>2, <1>3

\* The counts Flow speaks of.
Numbers ==
    /\ Count(c2s, "service") \in Nat /\ Count(c2s, "userauth") \in Nat
    /\ Count(c2s, "open") \in Nat /\ Count(c2s, "request") \in Nat
    /\ Count(c2s, "data") \in Nat /\ Total(c2s, "data") \in Nat
    /\ Total(c2s, "adjust") \in Nat /\ Count(s2c, "service-accept") \in Nat
    /\ Count(s2c, "auth-failure") \in Nat /\ Count(s2c, "auth-success") \in Nat
    /\ Count(s2c, "open-confirm") \in Nat /\ Count(s2c, "request-success") \in Nat
    /\ Count(s2c, "disconnect") \in Nat /\ Total(s2c, "data") \in Nat
    /\ Total(s2c, "adjust") \in Nat

LEMMA QueuedNumbers ==
  /\ Queued => Numbers
  /\ Queued' => Numbers'
  <1>1. Queued => Numbers
    BY CountsAreNumbers DEF Queued, Numbers
  <1>2. ASSUME Queued' PROVE Numbers'
    <2>. DEFINE up == c2s'
                down == s2c'
    <2>1. up \in Seq(Upward) /\ down \in Seq(Downward)
      BY <1>2 DEF Queued
    <2>. HIDE DEF up, down
    <2>2. \A k : /\ Count(up, k) \in Nat /\ Total(up, k) \in Nat
                 /\ Count(down, k) \in Nat /\ Total(down, k) \in Nat
      BY <2>1, CountsAreNumbers
    <2>. QED  BY <2>2 DEF Numbers, up, down
  <1>. QED  BY <1>1, <1>2

InSession == {"ready", "write", "wait"}

\* A step of the server that moves neither credit nor bytes, opens nothing and sends
\* nothing Flow speaks of, but for the DISCONNECT that closes the connection.
Idle ==
    /\ UNCHANGED <<chanOpen, shellReady, ring, consumed, remoteWindow>>
    /\ state = "CLOSED" => state' = "CLOSED"
    /\ state = "CONN" => state' \in {"CONN", "CLOSED"}
    /\ pc' \in InSession => pc \in InSession \/ shellReady
    /\ Open' => authTries' = authTries
    /\ \A i \in DOMAIN tx' :
          tx'[i].msg \notin ServerKinds \/ (tx'[i].msg = "disconnect" /\ ~Open')

LEMMA IdleSends ==
  ASSUME TypeOK', Idle, Queued, Wire
  PROVE  /\ s2c' \in Seq(Downward)
         /\ \A k \in ServerKinds : k # "disconnect" \/ Open'
              => Count(s2c', k) = Count(s2c, k) /\ Total(s2c', k) = Total(s2c, k)
  <1>1. tx' \in Seq(Packet)
    BY DEF TypeOK, CallTypeOK
  <1>. DEFINE t == tx'
  <1>2. t \in Seq(Packet) /\ \A i \in DOMAIN t :
            t[i].msg \notin ServerKinds \/ (t[i].msg = "disconnect" /\ ~Open')
    BY <1>1 DEF Idle
  <1>. HIDE DEF t
  <1>3. Len(t) \in Nat /\ DOMAIN t = 1..Len(t) /\ \A i \in 1..Len(t) : t[i] \in Packet
    BY <1>2, ElementOfSeq, LenProperties
  <1>4. \A i \in 1..Len(t) : t[i] \in Downward
    BY <1>2, <1>3 DEF Downward, ServerKinds
  <1>5. t \in Seq(Downward)
    BY <1>2, <1>3, <1>4, FunctionIsSeq, LenProperties
  <1>6. /\ s2c' \in Seq(Downward)
        /\ \A m : /\ Count(s2c', m) = Count(s2c, m) + Count(t, m)
                  /\ Total(s2c', m) = Total(s2c, m) + Total(t, m)
    BY <1>5, ServerSends DEF t
  <1>7. ASSUME NEW k \in ServerKinds, k # "disconnect" \/ Open'
        PROVE  Count(t, k) = 0 /\ Total(t, k) = 0
    <2>1. \A i \in 1..Len(t) : t[i].msg # k
      BY <1>2, <1>3, <1>7
    <2>. QED  BY <1>5, <2>1, DownwardSized, CountNone
  <1>8. \A k : Count(s2c, k) \in Nat /\ Total(s2c, k) \in Nat
    BY CountsAreNumbers DEF Queued
  <1>. QED  BY <1>6, <1>7, <1>8

\* A packet may be lost with the connection.
Shrunk ==
    \A k \in ClientKinds : /\ Count(c2s', k) <= Count(c2s, k)
                           /\ Total(c2s', k) <= Total(c2s, k)
                           /\ Open' => /\ Count(c2s', k) = Count(c2s, k)
                                       /\ Total(c2s', k) = Total(c2s, k)

LEMMA IdleFlows ==
  ASSUME Flow, Queued, FlowTypeOK, cl \in ClientState, UNCHANGED <<cl, typed, delivered>>,
         TypeOK', Idle, Wire, c2s' \in Seq(Upward),
         Shrunk
  PROVE  Queued' /\ Flow'
  <1>1. /\ s2c' \in Seq(Downward)
        /\ \A k \in ServerKinds : k # "disconnect" \/ Open'
              => Count(s2c', k) = Count(s2c, k) /\ Total(s2c', k) = Total(s2c, k)
    BY IdleSends
  <1>2. Queued'
    BY <1>1 DEF Queued
  <1>3. Numbers /\ Numbers'
    BY <1>2, QueuedNumbers
  <1>4. /\ Count(s2c', "service-accept") = Count(s2c, "service-accept")
        /\ Count(s2c', "auth-failure") = Count(s2c, "auth-failure")
        /\ Count(s2c', "auth-success") = Count(s2c, "auth-success")
        /\ Count(s2c', "open-confirm") = Count(s2c, "open-confirm")
        /\ Count(s2c', "request-success") = Count(s2c, "request-success")
        /\ Open' => Count(s2c', "disconnect") = Count(s2c, "disconnect")
        /\ Total(s2c', "data") = Total(s2c, "data")
        /\ Total(s2c', "adjust") = Total(s2c, "adjust")
    BY <1>1 DEF ServerKinds
  <1>5. /\ Count(c2s', "service") <= Count(c2s, "service")
        /\ Count(c2s', "userauth") <= Count(c2s, "userauth")
        /\ Count(c2s', "open") <= Count(c2s, "open")
        /\ Count(c2s', "request") <= Count(c2s, "request")
        /\ Count(c2s', "data") <= Count(c2s, "data")
        /\ Total(c2s', "data") <= Total(c2s, "data")
        /\ Total(c2s', "adjust") <= Total(c2s, "adjust")
        /\ Open' => /\ Total(c2s', "data") = Total(c2s, "data")
                    /\ Total(c2s', "adjust") = Total(c2s, "adjust")
    BY DEF ClientKinds, Shrunk
  <1>6. /\ Open' => Open
        /\ UNCHANGED <<cl, typed, delivered, chanOpen, shellReady, ring, consumed, remoteWindow>>
        /\ ring \in Nat /\ consumed \in Nat /\ remoteWindow \in Nat
        /\ cl.win \in Nat /\ Window \in Nat /\ cl.grant \in Nat /\ ClientWindow \in Nat
    BY ClientFields, ConnAssumption, SessionAssumption DEF Idle, Open, FlowTypeOK
  <1>7. Conversing'
    BY ONLY Flow, <1>3, <1>4, <1>5, <1>6 DEF Numbers, Flow, Conversing, Open, Gone, Before
  <1>8. Progressing'
    <2>1. Count(s2c', "disconnect") > 0 => ~Open'
      BY <1>4, <1>6 DEF Flow, Progressing
    <2>2. Open' => (state = "CONN" => state' = "CONN") /\ authTries' = authTries
      BY DEF Idle, Open
    <2>3. pc' \in {"ready", "write", "wait"} => shellReady'
      BY <1>6 DEF Flow, Progressing, Idle, InSession
    <2>. QED  BY ONLY Flow, <1>3, <1>4, <1>5, <1>6, <2>1, <2>2, <2>3
              DEF Numbers, Flow, Progressing, Gone, Before, After
  <1>9. CreditIn'
    <2>1. InCredit' <= InCredit /\ InCredit' \in Nat /\ InCredit \in Nat
          /\ (Open' => InCredit' = InCredit)
      BY ONLY <1>3, <1>4, <1>5, <1>6 DEF Numbers, InCredit
    <2>. QED  BY <1>6, <2>1 DEF Flow, CreditIn, Before, After
  <1>10. CreditOut'
    <2>1. OutCredit' <= OutCredit /\ OutCredit' \in Nat /\ OutCredit \in Nat
          /\ (Open' => OutCredit' = OutCredit)
      BY ONLY <1>3, <1>4, <1>5, <1>6 DEF Numbers, OutCredit
    <2>2. Total(c2s, "adjust") = 0 => Total(c2s', "adjust") = 0
      BY ONLY <1>3, <1>5 DEF Numbers
    <2>. QED  BY <1>4, <1>6, <2>1, <2>2 DEF Flow, CreditOut, Before, After, Gone
  <1>11. NoInputLost'
    BY <1>5, <1>6 DEF Flow, NoInputLost, Open
  <1>. QED  BY <1>2, <1>7, <1>8, <1>9, <1>10, <1>11 DEF Flow

IdleVars == <<chanOpen, shellReady, ring, consumed, remoteWindow, authTries>>
Silent == ServerMsgs \ (ServerKinds \cup {"disconnect"})

LEMMA OnWireMore ==
  ASSUME NEW M, NEW N, M \subseteq N, OnWire(M)
  PROVE  OnWire(N)
  BY DEF OnWire

\* Nothing, one packet or the two of DoKexDh.
LEMMA FewOnWire ==
  /\ tx' = <<>> => OnWire(Silent)
  /\ \A m \in Silent : tx' = <<P(m)>> => OnWire(Silent)
  /\ tx' = KexReplies => OnWire(Silent)
  <1>1. CASE tx' = <<>>
    BY <1>1 DEF OnWire
  <1>2. ASSUME NEW m \in Silent, tx' = <<P(m)>> PROVE OnWire(Silent)
    BY <1>2 DEF OnWire, P, Sealed
  <1>3. CASE tx' = KexReplies
    <2>1. {"kexdh-reply", "newkeys"} \subseteq Silent
      BY DEF Silent, ServerMsgs, KexMsgs, ServerKinds
    <2>2. OnWire({"kexdh-reply", "newkeys"})
      BY <1>3 DEF OnWire, KexReplies, P, Sealed
    <2>. QED  BY <2>1, <2>2, OnWireMore
  <1>. QED  BY <1>1, <1>2, <1>3

LEMMA IdleOnward ==
  ASSUME UNCHANGED IdleVars, Onward,
         \/ OnWire(Silent)
         \/ OnWire(Silent \cup {"disconnect"}) /\ state' = "CLOSED"
  PROVE  Idle
  <1>1. \A i \in DOMAIN tx' :
            tx'[i].msg \notin ServerKinds \/ (tx'[i].msg = "disconnect" /\ ~Open')
    BY DEF OnWire, Silent, Open
  <1>2. UNCHANGED <<chanOpen, shellReady, ring, consumed, remoteWindow, authTries>>
    BY DEF IdleVars
  <1>3. /\ state = "CLOSED" => state' = "CLOSED"
        /\ state = "CONN" => state' \in {"CONN", "CLOSED"}
        /\ pc' \in InSession => pc \in InSession
    BY DEF Onward, InSession
  <1>. QED  BY <1>1, <1>2, <1>3 DEF Idle

\* The packets of the key exchange, and those that end the channel or the connection.
LEMMA HandleIdle ==
  ASSUME NEW o,
         \/ \E m, w : RejectPacket(m, w, o)
         \/ RecvVersion("ssh2", o)
         \/ \E m : SkipGuessed(m)
         \/ \E offer \in {"match", "wrong guess"} : RecvKexInit(offer, o)
         \/ RecvKexDh(o) \/ RecvNewKeys \/ RecvEof \/ RecvClose(o)
         \/ RecvDisconnect \/ ConnectionLost
  PROVE  Idle
  <1>0. /\ {"kexinit", "kexdh-reply", "newkeys", "close"} \subseteq Silent
        /\ {"disconnect"} \subseteq Silent \cup {"disconnect"}
    BY DEF Silent, ServerMsgs, KexMsgs, SessionMsgs, ServerKinds
  <1>1. ASSUME NEW m, NEW w, RejectPacket(m, w, o) PROVE Idle
    <2>1. Onward /\ OnWire({"disconnect"}) /\ state' = "CLOSED"
      BY <1>1, DisconnectOnward DEF RejectPacket
    <2>2. UNCHANGED IdleVars
      BY <1>1 DEF RejectPacket, IdleVars, chanVars, flowVars, authVars
    <2>3. OnWire(Silent \cup {"disconnect"})
      BY <1>0, <2>1 DEF OnWire
    <2>. QED  BY <2>1, <2>2, <2>3, IdleOnward
  <1>2. CASE RecvVersion("ssh2", o)
    <2>1. SendPacket("KEX", P("kexinit"), o) /\ state = "VERSION"
      BY <1>2 DEF RecvVersion
    <2>2. tx' \in {<<>>, <<P("kexinit")>>} /\ state' \in {"KEX", "CLOSED"}
      BY <2>1 DEF SendPacket
    <2>3. UNCHANGED <<chanOpen, shellReady, ring, consumed, remoteWindow, authTries>>
      BY <1>2 DEF RecvVersion, chanVars, flowVars, authVars
    <2>4. pc' \in InSession => pc \in InSession
      BY <2>1 DEF SendPacket, Return, Unwound, InSession
    <2>5. \A i \in DOMAIN tx' : tx'[i].msg \notin ServerKinds
      <3>1. OnWire(Silent)
        BY <1>0, <2>2, FewOnWire
      <3>. QED  BY <3>1 DEF OnWire, Silent
    <2>. QED  BY <2>1, <2>2, <2>3, <2>4, <2>5 DEF Idle
  <1>3. ASSUME NEW m, SkipGuessed(m) PROVE Idle
    <2>1. Onward /\ OnWire(Silent)
      BY <1>3, QuietOnward DEF SkipGuessed, OnWire
    <2>2. UNCHANGED IdleVars
      BY <1>3 DEF SkipGuessed, IdleVars, chanVars, flowVars, authVars
    <2>. QED  BY <2>1, <2>2, IdleOnward
  <1>4. ASSUME NEW offer \in {"match", "wrong guess"}, RecvKexInit(offer, o) PROVE Idle
    <2>1. Onward
      BY <1>4, KexOnward
    <2>2. UNCHANGED IdleVars
      BY <1>4 DEF RecvKexInit, IdleVars, chanVars, flowVars, authVars
    <2>3. tx' \in {<<>>, <<P("kexinit")>>}
      BY <1>4 DEF RecvKexInit, SendPacket
    <2>4. OnWire(Silent)
      BY <1>0, <2>3, FewOnWire
    <2>. QED  BY <2>1, <2>2, <2>4, IdleOnward
  <1>5. CASE RecvKexDh(o)
    <2>1. Onward
      BY <1>5, KexOnward
    <2>2. UNCHANGED IdleVars
      BY <1>5 DEF RecvKexDh, IdleVars, chanVars, flowVars, authVars
    <2>3. tx' \in {<<>>, <<P("kexdh-reply")>>, KexReplies}
      BY <1>5 DEF RecvKexDh
    <2>4. OnWire(Silent)
      BY <1>0, <2>3, FewOnWire
    <2>. QED  BY <2>1, <2>2, <2>4, IdleOnward
  <1>6. CASE RecvNewKeys
    <2>1. tx' = <<>> /\ pc' = pc /\ state' = IF state = "KEX" THEN "AUTH" ELSE state
      BY <1>6 DEF RecvNewKeys
    <2>2. UNCHANGED <<chanOpen, shellReady, ring, consumed, remoteWindow, authTries>>
      BY <1>6 DEF RecvNewKeys, chanVars, flowVars, authVars
    <2>3. \A i \in DOMAIN tx' : tx'[i].msg \notin ServerKinds
      BY <2>1, FewOnWire DEF OnWire, Silent
    <2>4. /\ state = "CLOSED" => state' = "CLOSED"
          /\ state = "CONN" => state' \in {"CONN", "CLOSED"}
      BY <2>1
    <2>. QED  BY <2>1, <2>2, <2>3, <2>4 DEF Idle
  <1>7. CASE RecvEof
    <2>1. Onward /\ OnWire(Silent)
      BY <1>7, QuietOnward DEF RecvEof, OnWire
    <2>2. UNCHANGED IdleVars
      BY <1>7 DEF RecvEof, IdleVars, flowVars, authVars
    <2>. QED  BY <2>1, <2>2, IdleOnward
  <1>8. CASE RecvClose(o)
    <2>1. Onward
      BY <1>8, QuietOnward, ReturnOnward DEF RecvClose
    <2>2. UNCHANGED IdleVars
      BY <1>8 DEF RecvClose, IdleVars, flowVars, authVars
    <2>3. tx' \in {<<>>, <<P("close")>>}
      BY <1>8 DEF RecvClose, Quiet
    <2>4. OnWire(Silent)
      BY <1>0, <2>3, FewOnWire
    <2>. QED  BY <2>1, <2>2, <2>4, IdleOnward
  <1>9. CASE RecvDisconnect \/ ConnectionLost
    <2>1. Onward /\ tx' = <<>>
      BY <1>9, ReturnOnward DEF RecvDisconnect, ConnectionLost
    <2>2. UNCHANGED IdleVars
      BY <1>9 DEF RecvDisconnect, ConnectionLost, IdleVars, chanVars, flowVars, authVars
    <2>. QED  BY <2>1, <2>2, FewOnWire, IdleOnward
  <1>. QED  BY <1>1, <1>2, <1>3, <1>4, <1>5, <1>6, <1>7, <1>8, <1>9

\* The calls that move no bytes.
LEMMA CallIdle ==
  ASSUME NEW o,
         \/ AcceptStart(o) \/ AcceptReturn \/ AcceptTimeout(o)
         \/ \E n : WriteStart(n)
         \/ WriteWait \/ WriteResume \/ WriteFail
         \/ \E sent : CloseStart(sent, o)
         \/ CloseWaited \/ CloseEnd(o)
  PROVE  Idle
  <1>1. UNCHANGED <<chanOpen, shellReady, ring, consumed, remoteWindow, authTries>>
    BY DEF AcceptStart, AcceptReturn, AcceptTimeout, WriteStart, WriteWait, WriteResume,
           WriteFail, CloseStart, CloseWaited, CloseEnd, chanVars, flowVars, authVars
  <1>2. \A i \in DOMAIN tx' :
            tx'[i].msg \notin ServerKinds \/ (tx'[i].msg = "disconnect" /\ ~Open')
    <2>1. CASE AcceptTimeout(o)
      BY <2>1, DisconnectOnward DEF AcceptTimeout, OnWire, Open
    <2>2. CASE CloseEnd(o)
      BY <2>2 DEF CloseEnd, P, Sealed, Open
    <2>3. ASSUME NEW sent, CloseStart(sent, o)
          PROVE  \A i \in DOMAIN tx' : tx'[i].msg \notin ServerKinds
      <3>. DEFINE M == {"exit-status", "eof", "close"}
      <3>1. \A m \in M : OneOf(m, sent) = <<>> \/ OneOf(m, sent) = <<P(m)>>
        BY DEF OneOf
      <3>2. \A m \in M : P(m).msg \notin ServerKinds
        BY DEF P, Sealed, ServerKinds
      <3>3. tx' = OneOf("exit-status", sent) \o OneOf("eof", sent) \o OneOf("close", sent)
        BY <2>3 DEF CloseStart
      <3>. QED  BY <3>1, <3>2, <3>3
    <2>4. CASE AcceptStart(o)
      BY <2>4 DEF AcceptStart, P, Sealed, ServerKinds
    <2>5. CASE \/ AcceptReturn \/ WriteWait \/ WriteResume \/ WriteFail \/ CloseWaited
               \/ \E n : WriteStart(n)
      BY <2>5 DEF AcceptReturn, WriteStart, WriteWait, WriteResume, WriteFail, CloseWaited
    <2>. QED  BY <2>1, <2>2, <2>3, <2>4, <2>5
  <1>3. /\ state = "CLOSED" => state' = "CLOSED"
        /\ state = "CONN" => state' \in {"CONN", "CLOSED"}
    BY DEF AcceptStart, AcceptReturn, AcceptTimeout, Disconnect, WriteStart, WriteWait,
           WriteResume, WriteFail, CloseStart, CloseWaited, CloseEnd
  <1>4. pc' \in InSession => pc \in InSession \/ shellReady
    BY DEF AcceptStart, AcceptReturn, AcceptTimeout, Disconnect, Return, Unwound, WriteStart,
           WriteWait, WriteResume, WriteFail, CloseStart, CloseWaited, CloseEnd, InSession
  <1>. QED  BY <1>1, <1>2, <1>3, <1>4 DEF Idle

\* The counts after the server took a packet of kind m with n bytes.
Handled(m, n) ==
    /\ \A k \in ClientKinds : k # m => /\ Count(c2s', k) = Count(c2s, k)
                                       /\ Total(c2s', k) = Total(c2s, k)
    /\ Count(c2s, m) = Count(c2s', m) + 1 /\ Total(c2s, m) = Total(c2s', m) + n
    /\ Count(c2s', m) \in Nat /\ Total(c2s', m) \in Nat /\ n \in Nat

LEMMA HandledTakes ==
  ASSUME Queued, c2s # <<>>, c2s' = Tail(c2s)
  PROVE  /\ Head(c2s) \in Upward /\ c2s' \in Seq(Upward)
         /\ Handled(Head(c2s).msg, Head(c2s).n)
  <1>. DEFINE p == Head(c2s)
              q == c2s'
  <1>1. /\ p \in Upward /\ q \in Seq(Upward)
        /\ \A m : /\ Count(c2s, m) = One(p, m) + Count(q, m)
                  /\ Total(c2s, m) = Bytes(p, m) + Total(q, m)
    BY ServerTakes
  <1>. HIDE DEF p, q
  <1>2. \A m : Count(q, m) \in Nat /\ Total(q, m) \in Nat
    BY <1>1, UpwardSized, CountNat
  <1>3. p.n \in Nat
    BY <1>1, UpwardSized DEF Sized
  <1>4. /\ \A m : m # p.msg => One(p, m) = 0 /\ Bytes(p, m) = 0
        /\ One(p, p.msg) = 1 /\ Bytes(p, p.msg) = p.n
    BY DEF One, Bytes
  <1>5. \A k : k # p.msg => Count(q, k) = Count(c2s, k) /\ Total(q, k) = Total(c2s, k)
    BY <1>1, <1>2, <1>4
  <1>6. /\ Count(c2s, p.msg) = Count(q, p.msg) + 1
        /\ Total(c2s, p.msg) = Total(q, p.msg) + p.n
    BY <1>1, <1>2, <1>3, <1>4
  <1>7. Handled(p.msg, p.n)
    BY <1>2, <1>3, <1>5, <1>6 DEF Handled, q
  <1>. QED  BY <1>1, <1>7 DEF p, q

\* The counts after the server sent at most one packet, of kind m with n bytes.
Sent(m, dm, dn) ==
    /\ s2c' \in Seq(Downward)
    /\ \A k \in ServerKinds : k # m => /\ Count(s2c', k) = Count(s2c, k)
                                       /\ Total(s2c', k) = Total(s2c, k)
    /\ Count(s2c', m) = Count(s2c, m) + dm /\ Total(s2c', m) = Total(s2c, m) + dn

LEMMA SentOne ==
  ASSUME Queued, KeyTypeOK, Wire, NEW m \in ServerMsgs, NEW n \in Nat,
         m = "open-confirm" => n = Window
  PROVE  /\ tx' = <<Sealed(m, n)>> => Sent(m, 1, n)
         /\ tx' = <<>> => Sent(m, 0, 0)
  <1>0. \A k : Count(s2c, k) \in Nat /\ Total(s2c, k) \in Nat
    BY CountsAreNumbers DEF Queued
  <1>1. ASSUME tx' = <<Sealed(m, n)>> PROVE Sent(m, 1, n)
    <2>. DEFINE p == Sealed(m, n)
                t == <<p>>
    <2>1. p \in Packet /\ p.msg = m /\ p.n = n
      BY PacketTyped DEF Sealed
    <2>. HIDE DEF p
    <2>2. p \in Downward
      BY <2>1 DEF Downward
    <2>3. t \in Seq(Downward)
      BY <2>2
    <2>4. \A k : Count(t, k) = One(p, k) /\ Total(t, k) = Bytes(p, k)
      BY <2>2, DownwardSized, CountOne
    <2>. HIDE DEF t
    <2>5. tx' = t
      BY <1>1 DEF p, t
    <2>6. /\ s2c' \in Seq(Downward)
          /\ \A k : /\ Count(s2c', k) = Count(s2c, k) + Count(t, k)
                    /\ Total(s2c', k) = Total(s2c, k) + Total(t, k)
      BY <2>3, <2>5, ServerSends
    <2>7. /\ \A k : k # m => One(p, k) = 0 /\ Bytes(p, k) = 0
          /\ One(p, m) = 1 /\ Bytes(p, m) = n
      BY <2>1 DEF One, Bytes
    <2>8. \A k : k # m => Count(s2c', k) = Count(s2c, k) /\ Total(s2c', k) = Total(s2c, k)
      BY <1>0, <2>4, <2>6, <2>7
    <2>9. Count(s2c', m) = Count(s2c, m) + 1 /\ Total(s2c', m) = Total(s2c, m) + n
      BY <1>0, <2>4, <2>6, <2>7
    <2>. QED  BY <2>6, <2>8, <2>9 DEF Sent
  <1>2. ASSUME tx' = <<>> PROVE Sent(m, 0, 0)
    <2>1. s2c \in Seq(Downward) /\ s2c' = s2c \o <<>>
      BY <1>2 DEF Queued, Wire
    <2>2. s2c' = s2c
      BY <2>1, ConcatEmptySeq
    <2>. QED  BY <1>0, <2>1, <2>2 DEF Sent
  <1>. QED  BY <1>1, <1>2

\* A request is answered, or not if the answer cannot be sent.
LEMMA ServerReplies ==
  ASSUME Flow, Queued, Queued', FlowTypeOK, cl \in ClientState, Open,
         UNCHANGED <<cl, typed, delivered, chanOpen, ring, consumed, remoteWindow>>,
         NEW m, NEW n, NEW r, NEW d \in {0, 1}, Handled(m, n), Sent(r, d, 0),
         \/ m = "service" /\ r = "service-accept" /\ state' \in {state, "CLOSED"}
         \/ m = "userauth" /\ r = "auth-failure" /\ state' \in {state, "CLOSED"}
         \/ m = "userauth" /\ r = "auth-success" /\ state' \in {"CONN", "CLOSED"}
         \/ m = "request" /\ r = "request-success" /\ state' \in {state, "CLOSED"},
         shellReady => shellReady', shellReady' => shellReady \/ m = "request",
         pc' \in InSession => pc \in InSession,
         Open' => authTries' < MaxAuthTries
  PROVE  Flow'
  <1>0. Numbers /\ Numbers'
    BY QueuedNumbers
  <1>1. /\ m # "service" => Count(c2s', "service") = Count(c2s, "service")
        /\ m # "userauth" => Count(c2s', "userauth") = Count(c2s, "userauth")
        /\ m # "request" => Count(c2s', "request") = Count(c2s, "request")
        /\ Count(c2s', "open") = Count(c2s, "open")
        /\ Count(c2s', "data") = Count(c2s, "data")
        /\ Total(c2s', "data") = Total(c2s, "data")
        /\ Total(c2s', "adjust") = Total(c2s, "adjust")
    BY DEF ClientKinds, Handled
  <1>2. /\ r # "service-accept" => Count(s2c', "service-accept") = Count(s2c, "service-accept")
        /\ r # "auth-failure" => Count(s2c', "auth-failure") = Count(s2c, "auth-failure")
        /\ r # "auth-success" => Count(s2c', "auth-success") = Count(s2c, "auth-success")
        /\ r # "request-success" => Count(s2c', "request-success") = Count(s2c, "request-success")
        /\ Count(s2c', "open-confirm") = Count(s2c, "open-confirm")
        /\ Count(s2c', "disconnect") = Count(s2c, "disconnect")
        /\ Total(s2c', "data") = Total(s2c, "data")
        /\ Total(s2c', "adjust") = Total(s2c, "adjust")
    BY DEF ServerKinds, Sent
  <1>3. /\ m = "service" => Count(c2s, "service") = Count(c2s', "service") + 1
        /\ m = "userauth" => Count(c2s, "userauth") = Count(c2s', "userauth") + 1
        /\ m = "request" => Count(c2s, "request") = Count(c2s', "request") + 1
    BY DEF Handled
  <1>4. /\ r = "service-accept" => Count(s2c', "service-accept") <= Count(s2c, "service-accept") + 1
        /\ r = "auth-failure" => Count(s2c', "auth-failure") <= Count(s2c, "auth-failure") + 1
        /\ r = "auth-success" => Count(s2c', "auth-success") <= Count(s2c, "auth-success") + 1
        /\ r = "request-success"
           => Count(s2c', "request-success") <= Count(s2c, "request-success") + 1
    <2>1. Count(s2c', r) = Count(s2c, r) + d
      BY DEF Sent
    <2>2. d \in Nat /\ d <= 1
      OBVIOUS
    <2>. QED  BY ONLY <1>0, <2>1, <2>2 DEF Numbers
  <1>5. UNCHANGED <<cl, typed, delivered, chanOpen, ring, consumed, remoteWindow>>
    OBVIOUS
  <1>. DEFINE Cases ==
         \/ m = "service" /\ r = "service-accept" /\ state' \in {state, "CLOSED"}
         \/ m = "userauth" /\ r = "auth-failure" /\ state' \in {state, "CLOSED"}
         \/ m = "userauth" /\ r = "auth-success" /\ state' \in {"CONN", "CLOSED"}
         \/ m = "request" /\ r = "request-success" /\ state' \in {state, "CLOSED"}
  <1>6. Cases
    OBVIOUS
  <1>7. Conversing'
    BY ONLY Flow, Open, <1>0, <1>1, <1>2, <1>3, <1>4, <1>5, <1>6
       DEF Numbers, Flow, Conversing, Open, Gone, Before
  <1>8. Progressing'
    <2>1. /\ Count(c2s', "open") = Count(c2s, "open")
          /\ Count(s2c', "open-confirm") = Count(s2c, "open-confirm")
          /\ Count(s2c', "disconnect") = Count(s2c, "disconnect")
          /\ Count(c2s', "request") > 0 => Count(c2s, "request") > 0
          /\ Count(s2c', "auth-success") > 0 /\ state' # "CLOSED"
             => Count(s2c, "auth-success") > 0 \/ state' = "CONN"
      BY <1>0, <1>1, <1>2, <1>3, <1>6 DEF Numbers
    <2>2. m = "request" => Count(c2s, "request") > 0
      BY <1>0, <1>3 DEF Numbers
    <2>3. state' = state \/ state' \in {"CONN", "CLOSED"}
      BY <1>6
    <2>4. shellReady' => shellReady \/ m = "request"
      OBVIOUS
    <2>5. pc' \in {"ready", "write", "wait"} => shellReady'
      BY DEF Flow, Progressing, InSession
    <2>6. Open' => authTries' < MaxAuthTries
      OBVIOUS
    <2>. QED  BY ONLY Flow, Open, <1>5, <2>1, <2>2, <2>3, <2>4, <2>5, <2>6
              DEF Flow, Progressing, Open, Gone, Before, After
  <1>9. Open' => Open
    OBVIOUS
  <1>10. CreditIn'
    BY ONLY Flow, <1>1, <1>2, <1>5, <1>9 DEF Flow, CreditIn, InCredit, Before, After
  <1>11. CreditOut'
    BY ONLY Flow, <1>1, <1>2, <1>5, <1>9 DEF Flow, CreditOut, OutCredit, Before, After, Gone
  <1>12. NoInputLost'
    BY ONLY Flow, <1>1, <1>5, <1>9 DEF Flow, NoInputLost, Open
  <1>. QED  BY <1>7, <1>8, <1>10, <1>11, <1>12 DEF Flow

\* Where the server was when it took a packet.
Taking == Flow /\ Queued /\ Queued' /\ FlowTypeOK /\ cl \in ClientState /\ Open

\* What a reply whose handler returns its result does.
LEMMA SendPacketDoes ==
  ASSUME NEW s, NEW m, NEW n, NEW o, SendPacket(s, Sealed(m, n), o)
  PROVE  /\ tx' = <<Sealed(m, n)>> \/ tx' = <<>>
         /\ state' \in {s, "CLOSED"}
         /\ pc' \in InSession => pc \in InSession
  BY DEF SendPacket, Return, Unwound, InSession

\* HandleChannelOpen: the client waits for it and grants its window with it.
LEMMA ServerOpens ==
  ASSUME Taking, UNCHANGED <<cl, typed, delivered>>, KeyTypeOK, Wire,
         NEW o, NEW n, Handled("open", n), RecvChannelOpen(TRUE, ClientWindow, ClientMaxPkt, o)
  PROVE  Flow'
  <1>. Flow /\ Queued /\ Queued' /\ FlowTypeOK /\ cl \in ClientState /\ Open
    BY DEF Taking
  <1>0. Numbers /\ Numbers'
    BY QueuedNumbers
  <1>1. /\ Count(c2s', "service") = Count(c2s, "service")
        /\ Count(c2s', "userauth") = Count(c2s, "userauth")
        /\ Count(c2s', "request") = Count(c2s, "request")
        /\ Count(c2s, "open") = Count(c2s', "open") + 1
        /\ Count(c2s', "data") = Count(c2s, "data")
        /\ Total(c2s', "data") = Total(c2s, "data")
        /\ Total(c2s', "adjust") = Total(c2s, "adjust")
    BY DEF ClientKinds, Handled
  <1>2. cl.step = "open-wait" /\ ~chanOpen
    BY ONLY <1>0, <1>1, Flow, Open DEF Numbers, Flow, Conversing, Progressing, Gone
  <1>3. /\ chanOpen' = TRUE /\ remoteWindow' = ClientWindow
        /\ UNCHANGED <<shellReady, ring, consumed, authTries>>
        /\ SendPacket(state, Sealed("open-confirm", Window), o)
    BY <1>2 DEF RecvChannelOpen, authVars
  <1>4. /\ tx' = <<Sealed("open-confirm", Window)>> \/ tx' = <<>>
        /\ state' \in {state, "CLOSED"}
        /\ pc' \in InSession => pc \in InSession
    BY <1>3, SendPacketDoes
  <1>5. PICK d \in {0, 1} : Sent("open-confirm", d, d * Window)
    <2>1. Window \in Nat /\ "open-confirm" \in ServerMsgs
      BY ConnAssumption DEF ServerMsgs, SessionMsgs
    <2>2. 0 * Window = 0 /\ 1 * Window = Window
      BY <2>1
    <2>3. CASE tx' = <<Sealed("open-confirm", Window)>>
      BY <2>1, <2>2, <2>3, SentOne
    <2>4. CASE tx' = <<>>
      BY <2>1, <2>2, <2>4, SentOne
    <2>. QED  BY <1>4, <2>3, <2>4
  <1>6. /\ Count(s2c', "service-accept") = Count(s2c, "service-accept")
        /\ Count(s2c', "auth-failure") = Count(s2c, "auth-failure")
        /\ Count(s2c', "auth-success") = Count(s2c, "auth-success")
        /\ Count(s2c', "request-success") = Count(s2c, "request-success")
        /\ Count(s2c', "disconnect") = Count(s2c, "disconnect")
        /\ Total(s2c', "data") = Total(s2c, "data")
        /\ Total(s2c', "adjust") = Total(s2c, "adjust")
    BY <1>5 DEF ServerKinds, Sent
  <1>7. Count(s2c', "open-confirm") <= Count(s2c, "open-confirm") + 1
    <2>1. Count(s2c', "open-confirm") = Count(s2c, "open-confirm") + d
      BY <1>5 DEF Sent
    <2>2. d \in Nat /\ d <= 1
      OBVIOUS
    <2>. QED  BY ONLY <1>0, <2>1, <2>2 DEF Numbers
  <1>8. UNCHANGED <<cl, typed, delivered>>
    OBVIOUS
  <1>9. Conversing'
    BY ONLY Flow, Open, <1>0, <1>1, <1>2, <1>6, <1>7, <1>8
       DEF Numbers, Flow, Conversing, Open, Gone, Before
  <1>10. Progressing'
    <2>1. pc' \in {"ready", "write", "wait"} => shellReady'
      BY <1>3, <1>4 DEF Flow, Progressing, InSession
    <2>2. Count(c2s', "open") = 0
      <3>1. Count(c2s, "open") + Count(s2c, "open-confirm") <= 1
        BY <1>2 DEF Flow, Conversing
      <3>. QED  BY ONLY <1>0, <1>1, <3>1 DEF Numbers
    <2>. QED  BY ONLY Flow, Open, <1>0, <1>1, <1>2, <1>3, <1>4, <1>6, <1>8, <2>1, <2>2
              DEF Numbers, Flow, Progressing, Open, Gone, Before, After
  <1>11. CreditIn'
    BY ONLY Flow, <1>1, <1>2, <1>3, <1>6, <1>8 DEF Flow, CreditIn, InCredit, Before, After
  <1>12. CreditOut'
    BY ONLY Flow, <1>1, <1>2, <1>3, <1>6, <1>8
       DEF Flow, CreditOut, Before, After, Gone
  <1>13. NoInputLost'
    BY ONLY Flow, Open, <1>1, <1>3, <1>8 DEF Flow, NoInputLost, Open
  <1>. QED  BY <1>9, <1>10, <1>11, <1>12, <1>13 DEF Flow

\* CHANNEL_DATA: the ring has room for all that the client may have sent.
LEMMA ServerTakesData ==
  ASSUME Taking, UNCHANGED <<cl, typed, delivered>>, KeyTypeOK, Wire, delivered \in Nat,
         NEW n \in Nat, Handled("data", n), RecvData(n)
  PROVE  Flow'
  <1>. Flow /\ Queued /\ Queued' /\ FlowTypeOK /\ cl \in ClientState /\ Open
    BY DEF Taking
  <1>0. Numbers /\ Numbers'
    BY QueuedNumbers
  <1>1. /\ Count(c2s', "service") = Count(c2s, "service")
        /\ Count(c2s', "userauth") = Count(c2s, "userauth")
        /\ Count(c2s', "request") = Count(c2s, "request")
        /\ Count(c2s', "open") = Count(c2s, "open")
        /\ Count(c2s, "data") = Count(c2s', "data") + 1
        /\ Total(c2s, "data") = Total(c2s', "data") + n
        /\ Total(c2s', "adjust") = Total(c2s, "adjust")
    BY DEF ClientKinds, Handled
  <1>2. ring' = RingPush(n) /\ tx' = <<>>
        /\ UNCHANGED <<pc, state, shellReady, chanOpen, consumed, remoteWindow, authTries>>
    BY DEF RecvData, Quiet, chanVars, authVars
  <1>3. Sent("data", 0, 0)
    BY <1>2, SentOne DEF ServerMsgs, SessionMsgs
  <1>4. /\ Count(s2c', "service-accept") = Count(s2c, "service-accept")
        /\ Count(s2c', "auth-failure") = Count(s2c, "auth-failure")
        /\ Count(s2c', "auth-success") = Count(s2c, "auth-success")
        /\ Count(s2c', "open-confirm") = Count(s2c, "open-confirm")
        /\ Count(s2c', "request-success") = Count(s2c, "request-success")
        /\ Count(s2c', "disconnect") = Count(s2c, "disconnect")
        /\ Total(s2c', "data") = Total(s2c, "data") + 0
        /\ Total(s2c', "adjust") = Total(s2c, "adjust")
    BY <1>3 DEF ServerKinds, Sent
  <1>5. UNCHANGED <<cl, typed, delivered>>
    OBVIOUS
  <1>6. ring' = ring + n
    <2>1. /\ ring \in Nat /\ consumed \in Nat /\ cl.win \in Nat
          /\ Window \in Nat /\ RingCap \in Nat /\ Window <= RingCap
      BY ClientFields, ConnAssumption, SessionAssumption DEF FlowTypeOK
    <2>2. InCredit <= Window
      BY DEF Flow, CreditIn
    <2>3. ring + n <= RingCap
      BY ONLY <1>0, <1>1, <2>1, <2>2, n \in Nat DEF Numbers, InCredit
    <2>. QED  BY <1>2, <2>3 DEF RingPush, Least
  <1>7. Conversing'
    BY ONLY Flow, Open, <1>0, <1>1, <1>4, <1>5
       DEF Numbers, Flow, Conversing, Open, Gone, Before
  <1>8. Progressing'
    BY ONLY Flow, Open, <1>0, <1>1, <1>2, <1>4, <1>5
       DEF Numbers, Flow, Progressing, Open, Gone, Before, After
  <1>9. CreditIn'
    <2>1. ring \in Nat /\ consumed \in Nat /\ cl.win \in Nat
      BY ClientFields DEF FlowTypeOK
    <2>2. InCredit' = InCredit
      <3>1. /\ cl'.win = cl.win /\ consumed' = consumed
            /\ Total(s2c', "adjust") = Total(s2c, "adjust")
            /\ Total(c2s, "data") = Total(c2s', "data") + n
        BY <1>1, <1>2, <1>4, <1>5
      <3>2. Total(c2s', "data") \in Nat /\ Total(s2c, "adjust") \in Nat
        BY <1>0 DEF Numbers
      <3>. QED  BY ONLY <1>6, <2>1, <3>1, <3>2, n \in Nat DEF InCredit
    <2>. QED  BY <1>2, <1>5, <2>2 DEF Flow, CreditIn, Before, After, Open
  <1>10. CreditOut'
    <2>1. OutCredit' = OutCredit
      BY ONLY <1>0, <1>1, <1>2, <1>4 DEF Numbers, OutCredit
    <2>2. Total(s2c', "data") = Total(s2c, "data")
      BY ONLY <1>0, <1>4 DEF Numbers
    <2>. QED  BY <1>1, <1>2, <1>5, <2>1, <2>2 DEF Flow, CreditOut, Before, After, Gone, Open
  <1>11. NoInputLost'
    <2>1. ring \in Nat
      BY DEF FlowTypeOK
    <2>2. ring + Total(c2s, "data") = ring' + Total(c2s', "data")
      BY ONLY <1>0, <1>1, <1>6, <2>1, n \in Nat DEF Numbers
    <2>3. delivered + ring + Total(c2s, "data") = typed
      BY DEF Flow, NoInputLost, Open
    <2>4. delivered' + ring' + Total(c2s', "data") = typed'
      <3>1. delivered \in Nat /\ delivered' = delivered /\ typed' = typed
        BY <1>5
      <3>2. Total(c2s', "data") \in Nat /\ Total(c2s, "data") \in Nat
        BY <1>0 DEF Numbers
      <3>. QED  BY ONLY <1>1, <1>6, <2>1, <2>3, <3>1, <3>2, n \in Nat
    <2>. QED  BY <2>4 DEF NoInputLost
  <1>. QED  BY <1>7, <1>8, <1>9, <1>10, <1>11 DEF Flow

\* WINDOW_ADJUST: remoteWindow does not wrap.
LEMMA ServerTakesAdjust ==
  ASSUME Taking, UNCHANGED <<cl, typed, delivered>>, KeyTypeOK, Wire,
         NEW n \in Nat, Handled("adjust", n), RecvWindowAdjust(n)
  PROVE  Flow'
  <1>. Flow /\ Queued /\ Queued' /\ FlowTypeOK /\ cl \in ClientState /\ Open
    BY DEF Taking
  <1>0. Numbers /\ Numbers'
    BY QueuedNumbers
  <1>1. /\ Count(c2s', "service") = Count(c2s, "service")
        /\ Count(c2s', "userauth") = Count(c2s, "userauth")
        /\ Count(c2s', "request") = Count(c2s, "request")
        /\ Count(c2s', "open") = Count(c2s, "open")
        /\ Count(c2s', "data") = Count(c2s, "data")
        /\ Total(c2s', "data") = Total(c2s, "data")
        /\ Total(c2s, "adjust") = Total(c2s', "adjust") + n
    BY DEF ClientKinds, Handled
  <1>2. remoteWindow' = Widened(n) /\ tx' = <<>>
        /\ UNCHANGED <<pc, state, shellReady, chanOpen, ring, consumed, authTries>>
    BY DEF RecvWindowAdjust, Quiet, chanVars, authVars
  <1>3. Sent("data", 0, 0)
    BY <1>2, SentOne DEF ServerMsgs, SessionMsgs
  <1>4. /\ Count(s2c', "service-accept") = Count(s2c, "service-accept")
        /\ Count(s2c', "auth-failure") = Count(s2c, "auth-failure")
        /\ Count(s2c', "auth-success") = Count(s2c, "auth-success")
        /\ Count(s2c', "open-confirm") = Count(s2c, "open-confirm")
        /\ Count(s2c', "request-success") = Count(s2c, "request-success")
        /\ Count(s2c', "disconnect") = Count(s2c, "disconnect")
        /\ Total(s2c', "data") = Total(s2c, "data") + 0
        /\ Total(s2c', "adjust") = Total(s2c, "adjust")
    BY <1>3 DEF ServerKinds, Sent
  <1>5. UNCHANGED <<cl, typed, delivered>>
    OBVIOUS
  <1>6. /\ remoteWindow \in Nat /\ remoteWindow < Mod32 /\ ClientWindow \in Nat
        /\ cl.grant \in Nat /\ cl.grant <= ClientWindow
        /\ ClientWindow < Mod32 /\ Mod32 \in Nat /\ Mod32 > 0
    BY ClientFields, ConnAssumption, SessionAssumption DEF FlowTypeOK
  <1>7. remoteWindow' = remoteWindow + n /\ (Before => n = 0)
    <2>1. CASE Before
      <3>1. n = 0
        BY ONLY Flow, <1>0, <1>1, <2>1, n \in Nat DEF Numbers, Flow, CreditOut
      <3>. QED  BY <1>2, <1>6, <3>1 DEF Widened
    <2>2. CASE ~Before
      <3>1. After \/ Gone
        BY <2>2 DEF Before, After, Gone, ClientState
      <3>2. OutCredit <= ClientWindow
        <4>1. CASE After
          <5>1. OutCredit \in Nat
            BY ONLY <1>0, <1>6 DEF Numbers, OutCredit
          <5>2. OutCredit <= cl.grant
            BY <4>1 DEF Flow, CreditOut
          <5>. QED  BY ONLY <1>6, <5>1, <5>2
        <4>2. CASE Gone
          BY <4>2 DEF Flow, CreditOut
        <4>. QED  BY <3>1, <4>1, <4>2
      <3>3. remoteWindow + n <= ClientWindow
        BY ONLY <1>0, <1>1, <1>6, <3>2, n \in Nat DEF Numbers, OutCredit
      <3>4. (remoteWindow + n) % Mod32 = remoteWindow + n
        BY ONLY <1>6, <3>3, n \in Nat
      <3>. QED  BY <1>2, <2>2, <3>4 DEF Widened
    <2>. QED  BY <2>1, <2>2
  <1>8. Conversing'
    BY ONLY Flow, Open, <1>0, <1>1, <1>4, <1>5
       DEF Numbers, Flow, Conversing, Open, Gone, Before
  <1>9. Progressing'
    BY ONLY Flow, Open, <1>0, <1>1, <1>2, <1>4, <1>5
       DEF Numbers, Flow, Progressing, Open, Gone, Before, After
  <1>10. CreditIn'
    BY ONLY Flow, <1>1, <1>2, <1>4, <1>5 DEF Flow, CreditIn, InCredit, Before, After, Open
  <1>11. CreditOut'
    <2>1. OutCredit' = OutCredit
      BY ONLY <1>0, <1>1, <1>4, <1>6, <1>7, n \in Nat DEF Numbers, OutCredit
    <2>2. Total(s2c', "data") = Total(s2c, "data")
      BY ONLY <1>0, <1>4 DEF Numbers
    <2>3. Before => Total(c2s', "adjust") = Total(c2s, "adjust") /\ remoteWindow' = remoteWindow
      BY ONLY <1>0, <1>1, <1>6, <1>7, n \in Nat DEF Numbers
    <2>. QED  BY <1>2, <1>5, <2>1, <2>2, <2>3 DEF Flow, CreditOut, Before, After, Gone, Open
  <1>12. NoInputLost'
    BY ONLY Flow, Open, <1>1, <1>2, <1>5 DEF Flow, NoInputLost, Open
  <1>. QED  BY <1>8, <1>9, <1>10, <1>11, <1>12 DEF Flow

\* SERVICE_REQUEST, USERAUTH_REQUEST and CHANNEL_REQUEST.
LEMMA ServerAnswers ==
  ASSUME Taking, UNCHANGED <<cl, typed, delivered>>, KeyTypeOK, Wire, NEW o, NEW n,
         NEW m, NEW arg, Handled(m, n), Acceptable(m), AuthTypeOK,
         \/ m = "service" /\ RecvServiceRequest(o)
         \/ /\ m = "userauth" /\ arg \in {"right", "wrong"} /\ RecvUserauth(arg, o)
            /\ ~(authTries' = authTries + 1 /\ NoMoreTries(authTries'))
         \/ /\ m = "request" /\ arg \in {"resize", "shell"}
            /\ \E d \in Dims : RecvChannelRequest(arg, d, d, TRUE, o)
  PROVE  Flow'
  <1>. Flow /\ Queued /\ Queued' /\ FlowTypeOK /\ cl \in ClientState /\ Open
    BY DEF Taking
  <1>0. /\ "service-accept" \in ServerMsgs /\ "auth-failure" \in ServerMsgs
        /\ "auth-success" \in ServerMsgs /\ "request-success" \in ServerMsgs
        /\ "service-accept" # "open-confirm" /\ "auth-failure" # "open-confirm"
        /\ "auth-success" # "open-confirm" /\ "request-success" # "open-confirm"
    BY DEF ServerMsgs, SessionMsgs
  <1>1. authTries < MaxAuthTries
    BY DEF Flow, Progressing
  <1>2. ASSUME NEW r \in ServerMsgs, r # "open-confirm", NEW s,
               SendPacket(s, P(r), o)
        PROVE  /\ \E d \in {0, 1} : Sent(r, d, 0)
               /\ state' \in {s, "CLOSED"}
               /\ pc' \in InSession => pc \in InSession
    <2>1. SendPacket(s, Sealed(r, 0), o) /\ 0 \in Nat
      BY <1>2 DEF P
    <2>2. /\ tx' = <<Sealed(r, 0)>> \/ tx' = <<>>
          /\ state' \in {s, "CLOSED"}
          /\ pc' \in InSession => pc \in InSession
      BY <2>1, SendPacketDoes
    <2>3. Sent(r, 1, 0) \/ Sent(r, 0, 0)
      BY <1>2, <2>1, <2>2, SentOne
    <2>. QED  BY <2>2, <2>3
  <1>3. ASSUME m = "service", RecvServiceRequest(o) PROVE Flow'
    <2>1. /\ SendPacket(state, P("service-accept"), o)
          /\ UNCHANGED <<chanOpen, ring, consumed, remoteWindow, shellReady, authTries>>
      BY <1>3 DEF RecvServiceRequest, chanVars, flowVars, authVars
    <2>2. /\ \E d \in {0, 1} : Sent("service-accept", d, 0)
          /\ state' \in {state, "CLOSED"}
          /\ pc' \in InSession => pc \in InSession
      BY <1>0, <1>2, <2>1
    <2>. QED  BY <1>1, <1>3, <2>1, <2>2, ServerReplies
  <1>4. ASSUME m = "userauth", arg \in {"right", "wrong"}, RecvUserauth(arg, o),
               ~(authTries' = authTries + 1 /\ NoMoreTries(authTries'))
        PROVE  Flow'
    <2>1. UNCHANGED <<chanOpen, ring, consumed, remoteWindow, shellReady>>
      BY <1>4 DEF RecvUserauth, chanVars, flowVars
    <2>2. CASE state = "CONN" /\ Quiet /\ UNCHANGED authVars
      <3>1. /\ tx' = <<>> /\ state' \in {state, "CLOSED"} /\ pc' = pc /\ authTries' = authTries
        BY <2>2 DEF Quiet, authVars
      <3>2. \E d \in {0, 1} : Sent("auth-failure", d, 0)
        <4>1. Sent("auth-failure", 0, 0)
          BY <1>0, <3>1, SentOne
        <4>. QED  BY <4>1
      <3>. QED  BY <1>1, <1>4, <2>1, <3>1, <3>2, ServerReplies
    <2>3. CASE arg = "right" /\ SendPacket("CONN", P("auth-success"), o) /\ UNCHANGED authTries
      <3>1. /\ \E d \in {0, 1} : Sent("auth-success", d, 0)
            /\ state' \in {"CONN", "CLOSED"}
            /\ pc' \in InSession => pc \in InSession
        BY <1>0, <1>2, <2>3
      <3>. QED  BY <1>1, <1>4, <2>1, <2>3, <3>1, ServerReplies
    <2>4. CASE /\ authTries' = authTries + 1 /\ ~NoMoreTries(authTries')
               /\ SendPacket(state, P("auth-failure"), o)
      <3>1. /\ \E d \in {0, 1} : Sent("auth-failure", d, 0)
            /\ state' \in {state, "CLOSED"}
            /\ pc' \in InSession => pc \in InSession
        BY <1>0, <1>2, <2>4
      <3>2. authTries' < MaxAuthTries
        BY <2>4, ConnAssumption DEF NoMoreTries, AuthTypeOK
      <3>. QED  BY <1>4, <2>1, <3>1, <3>2, ServerReplies
    <2>. QED  BY <1>4, <2>2, <2>3, <2>4 DEF RecvUserauth
  <1>5. ASSUME m = "request", arg \in {"resize", "shell"}, NEW d \in Dims, RecvChannelRequest(arg, d, d, TRUE, o) PROVE Flow'
    <2>1. UNCHANGED <<chanOpen, ring, consumed, remoteWindow, authTries>>
      BY <1>5 DEF RecvChannelRequest, flowVars, authVars
    <2>2. shellReady => shellReady'
      BY <1>5 DEF RecvChannelRequest
    <2>3. SendPacket(state, P("request-success"), o)
      <3>1. arg # "other"
        BY <1>5
      <3>. QED  BY <1>5, <3>1 DEF RecvChannelRequest
    <2>4. /\ \E e \in {0, 1} : Sent("request-success", e, 0)
          /\ state' \in {state, "CLOSED"}
          /\ pc' \in InSession => pc \in InSession
      BY <1>0, <1>2, <2>3
    <2>. QED  BY <1>1, <1>5, <2>1, <2>2, <2>4, ServerReplies
  <1>. QED  BY <1>3, <1>4, <1>5

\* What the server drops or answers with DISCONNECT, and the handlers of HandleIdle.
LEMMA ServerIdles ==
  ASSUME Flow, Queued, TypeOK, TypeOK', cl \in ClientState,
         UNCHANGED <<cl, typed, delivered>>, Wire, Idle,
         NEW m, NEW n, Handled(m, n), c2s' \in Seq(Upward), m \notin ClientKinds \/ ~Open'
  PROVE  Queued' /\ Flow'
  <1>1. FlowTypeOK
    BY DEF TypeOK
  <1>2. Shrunk
    <2>1. \A k : Count(c2s, k) \in Nat /\ Total(c2s, k) \in Nat
      BY CountsAreNumbers DEF Queued
    <2>2. SUFFICES ASSUME NEW k \in ClientKinds
                   PROVE  /\ Count(c2s', k) <= Count(c2s, k)
                          /\ Total(c2s', k) <= Total(c2s, k)
                          /\ Open' => /\ Count(c2s', k) = Count(c2s, k)
                                      /\ Total(c2s', k) = Total(c2s, k)
      BY DEF Shrunk
    <2>3. CASE k # m
      BY <2>1, <2>3 DEF Handled
    <2>4. CASE k = m
      <3>1. ~Open'
        BY <2>2, <2>4
      <3>2. /\ Count(c2s, k) = Count(c2s', k) + 1 /\ Total(c2s, k) = Total(c2s', k) + n
            /\ Count(c2s', k) \in Nat /\ Total(c2s', k) \in Nat /\ n \in Nat
        BY <2>4 DEF Handled
      <3>3. Count(c2s', k) <= Count(c2s, k) /\ Total(c2s', k) <= Total(c2s, k)
        BY ONLY <3>2
      <3>. QED  BY <3>1, <3>3
    <2>. QED  BY <2>3, <2>4
  <1>. QED  BY <1>1, <1>2, IdleFlows

LEMMA ServerReceivesFlows ==
  ASSUME Flow, Queued, TypeOK, TypeOK', cl \in ClientState, delivered \in Nat,
         UNCHANGED <<cl, typed>>, NEW o, ServerReceives(o)
  PROVE  Queued' /\ Flow'
  <1>. DEFINE p == Head(c2s)
  <1>1. /\ c2s # <<>> /\ c2s' = Tail(c2s) /\ Handle(p, o) /\ Wire
        /\ UNCHANGED <<cl, typed, delivered>>
    BY DEF ServerReceives
  <1>2. p \in Upward /\ c2s' \in Seq(Upward) /\ Handled(p.msg, p.n)
    BY <1>1, HandledTakes
  <1>3. KeyTypeOK /\ FlowTypeOK /\ AuthTypeOK
    BY DEF TypeOK
  <1>4. p.n \in Nat
    BY <1>2, UpwardSized DEF Sized
  <1>. HIDE DEF p
  <1>5. ASSUME Idle, p.msg \notin ClientKinds \/ ~Open' PROVE Queued' /\ Flow'
    BY <1>1, <1>2, <1>5, ServerIdles
  <1>6. ASSUME NEW m, NEW w, RejectPacket(m, w, o) PROVE Queued' /\ Flow'
    <2>1. state' = "CLOSED"
      BY <1>6 DEF RejectPacket, Disconnect
    <2>. QED  BY <1>5, <1>6, <2>1, HandleIdle DEF Open
  <1>7. ASSUME p.msg \in Posted \ ClientKinds,
               \/ RecvVersion("ssh2", o) \/ SkipGuessed("kexdh")
               \/ p.arg \in {"match", "wrong guess"} /\ RecvKexInit(p.arg, o)
               \/ RecvKexDh(o) \/ RecvNewKeys \/ RecvEof \/ RecvClose(o) \/ RecvDisconnect
        PROVE  Queued' /\ Flow'
    <2>1. Idle
      BY <1>7, HandleIdle
    <2>. QED  BY <1>5, <1>7, <2>1
  <1>8. ASSUME p.msg \in ClientKinds, Acceptable(p.msg), Dispatch(p, o)
        PROVE  Queued' /\ Flow'
    <2>0. p.msg # "version"
      BY <1>8 DEF ClientKinds
    <2>1. \/ p.msg = "service" /\ RecvServiceRequest(o)
          \/ /\ p.msg = "userauth" /\ p.arg \in {"right", "wrong"}
             /\ RecvUserauth(p.arg, o)
          \/ p.msg = "open" /\ RecvChannelOpen(TRUE, ClientWindow, ClientMaxPkt, o)
          \/ /\ p.msg = "request" /\ p.arg \in {"resize", "shell"}
             /\ \E d \in Dims : RecvChannelRequest(p.arg, d, d, TRUE, o)
          \/ p.msg = "data" /\ RecvData(p.n)
          \/ p.msg = "adjust" /\ RecvWindowAdjust(p.n)
      BY <1>2, <1>8, <2>0, Dispatching DEF ClientKinds
    <2>2. Open
      BY <2>1 DEF RecvServiceRequest, RecvUserauth, RecvChannelOpen, RecvChannelRequest,
                  RecvData, RecvWindowAdjust, Handles, Reading, Open
    <2>3. CASE /\ p.msg = "userauth" /\ RecvUserauth(p.arg, o)
               /\ authTries' = authTries + 1 /\ NoMoreTries(authTries')
      <3>1. Disconnect(<<>>, o)
        <4>1. authTries' # authTries
          BY <1>3, <2>3 DEF AuthTypeOK
        <4>. QED  BY <2>3, <4>1 DEF RecvUserauth, authVars
      <3>2. Onward /\ OnWire({"disconnect"}) /\ state' = "CLOSED"
        BY <3>1, DisconnectOnward
      <3>3. UNCHANGED <<chanOpen, shellReady, ring, consumed, remoteWindow>>
        BY <2>3 DEF RecvUserauth, chanVars, flowVars
      <3>4. /\ \A i \in DOMAIN tx' : tx'[i].msg = "disconnect"
            /\ pc' \in InSession => pc \in InSession
        BY <3>2 DEF OnWire, Onward, InSession
      <3>5. Idle
        BY <3>2, <3>3, <3>4 DEF Idle, Open
      <3>. QED  BY <1>5, <3>2, <3>5 DEF Open
    <2>4. CASE ~(/\ p.msg = "userauth" /\ RecvUserauth(p.arg, o)
                 /\ authTries' = authTries + 1 /\ NoMoreTries(authTries'))
      <3>1. Queued'
        <4>1. PICK m \in ServerMsgs, n \in Nat :
                /\ m = "open-confirm" => n = Window
                /\ tx' = <<>> \/ tx' = <<Sealed(m, n)>>
          <5>0. /\ {"service-accept", "auth-failure", "auth-success", "request-success",
                    "open-confirm", "open-failure"} \subseteq ServerMsgs
                /\ 0 \in Nat /\ Window \in Nat
            BY ConnAssumption DEF ServerMsgs, SessionMsgs
          <5>1. CASE p.msg = "service"
            BY <2>1, <5>0, <5>1 DEF RecvServiceRequest, SendPacket, P
          <5>2. CASE p.msg = "userauth" /\ ~(authTries' = authTries + 1 /\ NoMoreTries(authTries'))
            BY <2>1, <5>0, <5>2 DEF RecvUserauth, SendPacket, Quiet, P
          <5>3. CASE p.msg = "open"
            BY <2>1, <5>0, <5>3 DEF RecvChannelOpen, SendPacket, P
          <5>4. CASE p.msg = "request"
            BY <2>1, <5>0, <5>4 DEF RecvChannelRequest, SendPacket, P
          <5>5. CASE p.msg \in {"data", "adjust"}
            BY <2>1, <5>0, <5>5 DEF RecvData, RecvWindowAdjust, Quiet
          <5>. QED  BY <1>8, <2>1, <2>4, <5>1, <5>2, <5>3, <5>4, <5>5 DEF ClientKinds
        <4>2. Sent(m, 1, n) \/ Sent(m, 0, 0)
          BY <1>1, <1>3, <4>1, SentOne
        <4>. QED  BY <1>2, <4>2 DEF Sent, Queued
      <3>2. Taking
        BY <1>3, <2>2, <3>1 DEF Taking
      <3>3. CASE p.msg \in {"service", "userauth", "request"}
        <4>. DEFINE m == p.msg
                    n == p.n
                    arg == p.arg
        <4>1. /\ Handled(m, n) /\ Acceptable(m)
              /\ \/ m = "service" /\ RecvServiceRequest(o)
                 \/ /\ m = "userauth" /\ arg \in {"right", "wrong"} /\ RecvUserauth(arg, o)
                    /\ ~(authTries' = authTries + 1 /\ NoMoreTries(authTries'))
                 \/ /\ m = "request" /\ arg \in {"resize", "shell"}
                    /\ \E d \in Dims : RecvChannelRequest(arg, d, d, TRUE, o)
          BY <1>2, <1>8, <2>1, <2>4, <3>3
        <4>. HIDE DEF m, n, arg
        <4>. QED  BY <1>1, <1>3, <3>1, <3>2, <4>1, ServerAnswers
      <3>4. CASE p.msg = "open"
        <4>. DEFINE n == p.n
        <4>1. n \in Nat /\ Handled("open", n) /\ RecvChannelOpen(TRUE, ClientWindow, ClientMaxPkt, o)
          BY <1>2, <1>4, <2>1, <3>4
        <4>. HIDE DEF n
        <4>. QED  BY <1>1, <1>3, <3>1, <3>2, <4>1, ServerOpens
      <3>5. CASE p.msg = "data"
        <4>. DEFINE n == p.n
        <4>1. n \in Nat /\ Handled("data", n) /\ RecvData(n)
          BY <1>2, <1>4, <2>1, <3>5
        <4>. HIDE DEF n
        <4>. QED  BY <1>1, <1>3, <3>1, <3>2, <4>1, ServerTakesData
      <3>6. CASE p.msg = "adjust"
        <4>. DEFINE n == p.n
        <4>1. n \in Nat /\ Handled("adjust", n) /\ RecvWindowAdjust(n)
          BY <1>2, <1>4, <2>1, <3>6
        <4>. HIDE DEF n
        <4>. QED  BY <1>1, <1>3, <3>1, <3>2, <4>1, ServerTakesAdjust
      <3>. QED  BY <1>8, <3>1, <3>3, <3>4, <3>5, <3>6 DEF ClientKinds
    <2>. QED  BY <2>3, <2>4
  <1>9. p.msg = "version" \/ p.msg = "kexdh" => p.msg \in Posted \ ClientKinds
    BY DEF Posted, ClientKinds
  <1>. QED
    <2>1. CASE p.msg = "version" /\ RecvVersion("ssh2", o)
      BY <1>7, <1>9, <2>1
    <2>2. CASE p.msg = "kexdh" /\ SkipGuessed("kexdh")
      BY <1>7, <1>9, <2>2
    <2>3. ASSUME p.msg \in Posted \ {"version"}, Acceptable(p.msg), Dispatch(p, o)
          PROVE  Queued' /\ Flow'
      <3>1. CASE p.msg \in ClientKinds
        BY <1>8, <2>3, <3>1
      <3>2. CASE p.msg \notin ClientKinds
        <4>1. /\ p.msg \in Posted \ ClientKinds
              /\ \/ p.arg \in {"match", "wrong guess"} /\ RecvKexInit(p.arg, o)
                 \/ RecvKexDh(o) \/ RecvNewKeys \/ RecvEof \/ RecvClose(o) \/ RecvDisconnect
          BY <1>2, <2>3, <3>2, Dispatching DEF ClientKinds
        <4>. QED  BY <1>7, <4>1
      <3>. QED  BY <3>1, <3>2
    <2>. QED  BY <1>1, <1>2, <1>6, <2>1, <2>2, <2>3, Handling

\* SshRead: what it takes from the ring it keeps in consumed or grants again.
LEMMA ServerReadsFlows ==
  ASSUME Flow, Queued, TypeOK, cl \in ClientState, UNCHANGED <<cl, typed>>,
         delivered \in Nat, NEW o, ServerReads(o)
  PROVE  Queued' /\ Flow' /\ delivered' \in Nat
  <1>. DEFINE n == Least(ring, ReadMax)
              total == (consumed + n) % Mod32
              again == AdjustDue(total) /\ o = "ok"
  <1>. FlowTypeOK /\ KeyTypeOK /\ Wire
    BY DEF TypeOK, ServerReads
  <1>0. Numbers
    BY QueuedNumbers
  <1>1. /\ pc = "ready" /\ UNCHANGED <<cl, typed, c2s>>
        /\ UNCHANGED <<pc, shellReady, chanOpen, remoteWindow, authTries>>
        /\ ring' = ring - n /\ delivered' = delivered + ring - ring'
        /\ state' \in {state, "CLOSED"}
        /\ \/ consumed' = 0 /\ tx' = <<Sealed("adjust", total)>>
           \/ consumed' = total /\ tx' = <<>>
    BY DEF ServerReads, Read, StillConsumed, chanVars, authVars
  <1>2. /\ ring \in Nat /\ consumed \in Nat /\ cl.win \in Nat /\ Window \in Nat
        /\ Window < Mod32 /\ Mod32 \in Nat /\ remoteWindow \in Nat
    BY ClientFields, ConnAssumption, SessionAssumption DEF FlowTypeOK
  <1>3. n \in Nat /\ n <= ring
    BY <1>2, ConnAssumption DEF Least
  <1>. HIDE DEF n
  <1>4. total = consumed + n
    <2>1. InCredit <= Window
      BY DEF Flow, CreditIn
    <2>2. consumed + n < Mod32
      BY ONLY <1>0, <1>2, <1>3, <2>1 DEF Numbers, InCredit
    <2>. QED  BY <1>2, <1>3, <2>2
  <1>. HIDE DEF total
  <1>5. PICK t \in {0, total} : /\ consumed' = consumed + n - t
                                /\ s2c' \in Seq(Downward)
                                /\ \E d : Sent("adjust", d, t)
    <2>1. total \in Nat /\ "adjust" \in ServerMsgs
      BY <1>2, <1>3, <1>4 DEF ServerMsgs, SessionMsgs
    <2>2. CASE consumed' = 0 /\ tx' = <<Sealed("adjust", total)>>
      <3>1. Sent("adjust", 1, total) /\ s2c' \in Seq(Downward)
        BY <2>1, <2>2, SentOne DEF Sent
      <3>2. consumed' = consumed + n - total
        BY <1>2, <1>3, <1>4, <2>2
      <3>. QED  BY <3>1, <3>2
    <2>3. CASE consumed' = total /\ tx' = <<>>
      <3>1. Sent("adjust", 0, 0) /\ s2c' \in Seq(Downward)
        BY <2>1, <2>3, SentOne DEF Sent
      <3>2. consumed' = consumed + n - 0
        BY <1>2, <1>3, <1>4, <2>3
      <3>. QED  BY <3>1, <3>2
    <2>. QED  BY <1>1, <2>2, <2>3
  <1>6. Queued'
    BY <1>1, <1>5 DEF Queued
  <1>7. Numbers'
    BY <1>6, QueuedNumbers
  <1>8. /\ Count(s2c', "service-accept") = Count(s2c, "service-accept")
        /\ Count(s2c', "auth-failure") = Count(s2c, "auth-failure")
        /\ Count(s2c', "auth-success") = Count(s2c, "auth-success")
        /\ Count(s2c', "open-confirm") = Count(s2c, "open-confirm")
        /\ Count(s2c', "request-success") = Count(s2c, "request-success")
        /\ Count(s2c', "disconnect") = Count(s2c, "disconnect")
        /\ Total(s2c', "data") = Total(s2c, "data")
        /\ Total(s2c', "adjust") = Total(s2c, "adjust") + t
    BY <1>5 DEF ServerKinds, Sent
  <1>9. shellReady /\ ~Before
    BY <1>1 DEF Flow, Progressing, Before
  <1>10. Conversing'
    BY ONLY Flow, <1>1, <1>8, <1>9 DEF Flow, Conversing, Open, Gone, Before
  <1>11. Progressing'
    BY ONLY Flow, <1>1, <1>8, <1>9 DEF Flow, Progressing, Open, Gone, Before, After
  <1>12. t \in Nat /\ consumed' \in Nat
    BY <1>1, <1>2, <1>3, <1>4, <1>5
  <1>13. CreditIn'
    <2>1. InCredit' = InCredit
      <3>1. /\ cl'.win = cl.win /\ Total(c2s', "data") = Total(c2s, "data")
            /\ ring' = ring - n /\ Total(s2c', "adjust") = Total(s2c, "adjust") + t
        BY <1>1, <1>8
      <3>2. Total(c2s, "data") \in Nat /\ Total(s2c, "adjust") \in Nat
        BY <1>0 DEF Numbers
      <3>3. consumed' = consumed + n - t
        BY <1>5
      <3>4. ring' + consumed' + Total(s2c', "adjust") = ring + consumed + Total(s2c, "adjust")
        BY ONLY <1>2, <1>3, <1>12, <3>1, <3>2, <3>3
      <3>5. ring' \in Nat
        BY ONLY <1>2, <1>3, <3>1
      <3>. QED  BY ONLY <1>2, <1>12, <3>1, <3>2, <3>4, <3>5 DEF InCredit
    <2>. QED  BY <1>1, <2>1 DEF Flow, CreditIn, Before, After, Open
  <1>14. CreditOut'
    <2>1. OutCredit' = OutCredit
      BY <1>1, <1>8 DEF OutCredit
    <2>. QED  BY <1>1, <1>9, <2>1 DEF Flow, CreditOut, Before, After, Gone, Open
  <1>15. NoInputLost'
    <2>1. delivered' + ring' = delivered + ring
      BY ONLY <1>1, <1>2, <1>3, delivered \in Nat
    <2>. QED  BY <1>1, <2>1 DEF Flow, NoInputLost, Open
  <1>16. delivered' \in Nat
    BY <1>1, <1>2, <1>3
  <1>. QED  BY <1>6, <1>10, <1>11, <1>13, <1>14, <1>15, <1>16 DEF Flow

\* SshWrite sends no more than remoteWindow and takes it off.
LEMMA ServerChunkFlows ==
  ASSUME Flow, Queued, TypeOK, cl \in ClientState, Wire,
         UNCHANGED <<cl, typed, c2s, delivered>>, NEW o, WriteChunk(o)
  PROVE  Queued' /\ Flow'
  <1>. DEFINE chunk == Least(Least(unsent, remoteWindow), Least(remoteMaxPkt, DataChunk))
  <1>. FlowTypeOK /\ KeyTypeOK /\ CallTypeOK
    BY DEF TypeOK
  <1>0. Numbers
    BY QueuedNumbers
  <1>1. /\ pc = "write" /\ UNCHANGED <<cl, typed, delivered, c2s>>
        /\ UNCHANGED <<shellReady, chanOpen, ring, consumed, authTries>>
        /\ state' \in {state, "CLOSED"} /\ pc' \in {"ready", "write"}
        /\ \/ remoteWindow' = remoteWindow - chunk /\ tx' = <<Sealed("data", chunk)>>
           \/ remoteWindow' = remoteWindow /\ tx' = <<>>
    BY DEF WriteChunk, chanVars, authVars
  <1>2. /\ remoteWindow \in Nat /\ unsent \in Nat /\ remoteMaxPkt \in Nat
        /\ DataChunk \in Nat
    BY ConnAssumption DEF FlowTypeOK, CallTypeOK
  <1>3. chunk \in Nat /\ chunk <= remoteWindow
    BY <1>2 DEF Least
  <1>. HIDE DEF chunk
  <1>4. PICK t \in {0, chunk} : /\ t + remoteWindow' = remoteWindow
                                /\ s2c' \in Seq(Downward)
                                /\ \E d : Sent("data", d, t)
    <2>1. "data" \in ServerMsgs
      BY DEF ServerMsgs, SessionMsgs
    <2>2. CASE remoteWindow' = remoteWindow - chunk /\ tx' = <<Sealed("data", chunk)>>
      <3>1. Sent("data", 1, chunk) /\ s2c' \in Seq(Downward)
        BY <1>3, <2>1, <2>2, SentOne DEF Sent
      <3>2. chunk + remoteWindow' = remoteWindow
        BY <1>2, <1>3, <2>2
      <3>. QED  BY <3>1, <3>2
    <2>3. CASE remoteWindow' = remoteWindow /\ tx' = <<>>
      <3>1. Sent("data", 0, 0) /\ s2c' \in Seq(Downward)
        BY <2>1, <2>3, SentOne DEF Sent
      <3>2. 0 + remoteWindow' = remoteWindow
        BY <1>2, <2>3
      <3>. QED  BY <3>1, <3>2
    <2>. QED  BY <1>1, <2>2, <2>3
  <1>5. Queued'
    BY <1>1, <1>4 DEF Queued
  <1>6. Numbers'
    BY <1>5, QueuedNumbers
  <1>7. /\ Count(s2c', "service-accept") = Count(s2c, "service-accept")
        /\ Count(s2c', "auth-failure") = Count(s2c, "auth-failure")
        /\ Count(s2c', "auth-success") = Count(s2c, "auth-success")
        /\ Count(s2c', "open-confirm") = Count(s2c, "open-confirm")
        /\ Count(s2c', "request-success") = Count(s2c, "request-success")
        /\ Count(s2c', "disconnect") = Count(s2c, "disconnect")
        /\ Total(s2c', "data") = Total(s2c, "data") + t
        /\ Total(s2c', "adjust") = Total(s2c, "adjust")
    BY <1>4 DEF ServerKinds, Sent
  <1>8. shellReady /\ ~Before
    BY <1>1 DEF Flow, Progressing, Before
  <1>9. Conversing'
    BY ONLY Flow, <1>1, <1>7, <1>8 DEF Flow, Conversing, Open, Gone, Before
  <1>10. Progressing'
    BY ONLY Flow, <1>1, <1>7, <1>8 DEF Flow, Progressing, Open, Gone, Before, After
  <1>11. CreditIn'
    <2>1. InCredit' = InCredit
      BY <1>1, <1>7 DEF InCredit
    <2>. QED  BY <1>1, <2>1 DEF Flow, CreditIn, Before, After, Open
  <1>12. t \in Nat /\ remoteWindow' \in Nat
    BY <1>1, <1>2, <1>3, <1>4
  <1>13. CreditOut'
    <2>1. OutCredit' = OutCredit
      <3>1. /\ Total(c2s', "adjust") = Total(c2s, "adjust")
            /\ remoteWindow = t + remoteWindow'
            /\ Total(s2c', "data") = Total(s2c, "data") + t
        BY <1>1, <1>4, <1>7
      <3>2. Total(c2s, "adjust") \in Nat /\ Total(s2c, "data") \in Nat
        BY <1>0 DEF Numbers
      <3>3. remoteWindow' + Total(s2c', "data") = remoteWindow + Total(s2c, "data")
        BY ONLY <1>2, <1>12, <3>1, <3>2
      <3>. QED  BY ONLY <3>1, <3>3 DEF OutCredit
    <2>. QED  BY <1>1, <1>8, <2>1 DEF Flow, CreditOut, Before, After, Gone, Open
  <1>14. NoInputLost'
    BY <1>1 DEF Flow, NoInputLost, Open
  <1>. QED  BY <1>5, <1>9, <1>10, <1>11, <1>13, <1>14 DEF Flow

LEMMA ServerFlows ==
  ASSUME Flow, Queued, TypeOK, TypeOK', cl \in ClientState, delivered \in Nat, ServerStep
  PROVE  Queued' /\ Flow' /\ delivered' \in Nat
  <1>. UNCHANGED <<cl, typed>>
    BY DEF ServerStep
  <1>1. ASSUME Idle, Wire, UNCHANGED <<c2s, delivered>> PROVE Queued' /\ Flow' /\ delivered' \in Nat
    <2>1. FlowTypeOK
      BY DEF TypeOK
    <2>2. c2s' \in Seq(Upward)
      BY <1>1 DEF Queued
    <2>3. Shrunk
      <3>1. \A k : Count(c2s, k) \in Nat /\ Total(c2s, k) \in Nat
        BY CountsAreNumbers DEF Queued
      <3>2. c2s' = c2s
        BY <1>1
      <3>. QED  BY <3>1, <3>2 DEF Shrunk
    <2>4. UNCHANGED <<cl, typed, delivered>>
      BY <1>1
    <2>. QED  BY <1>1, <2>1, <2>2, <2>3, <2>4, IdleFlows
  <1>2. CASE ServerLosesClient
    <2>1. Idle
      BY <1>2, HandleIdle DEF ServerLosesClient
    <2>. QED  BY <1>1, <1>2, <2>1 DEF ServerLosesClient
  <1>3. ASSUME NEW n \in WriteSizes, ServerStartsWrite(n)
        PROVE  Queued' /\ Flow' /\ delivered' \in Nat
    <2>1. Idle
      BY <1>3, CallIdle DEF ServerStartsWrite
    <2>. QED  BY <1>1, <1>3, <2>1 DEF ServerStartsWrite
  <1>4. ASSUME NEW o \in Faults, ServerReceives(o)
        PROVE  Queued' /\ Flow' /\ delivered' \in Nat
    <2>1. delivered' = delivered
      BY <1>4 DEF ServerReceives
    <2>. QED  BY <1>4, <2>1, ServerReceivesFlows
  <1>5. ASSUME NEW o \in Faults, ServerReads(o)
        PROVE  Queued' /\ Flow' /\ delivered' \in Nat
    BY <1>5, ServerReadsFlows
  <1>6. ASSUME NEW o \in Faults, ServerWrites(o)
        PROVE  Queued' /\ Flow' /\ delivered' \in Nat
    <2>1. Wire /\ UNCHANGED <<c2s, delivered>>
      BY <1>6 DEF ServerWrites
    <2>2. CASE WriteChunk(o)
      <3>1. UNCHANGED <<cl, typed, c2s, delivered>>
        BY <2>1
      <3>. QED  BY <2>1, <2>2, <3>1, ServerChunkFlows
    <2>3. CASE WriteWait \/ WriteResume \/ WriteFail
      <3>1. Idle
        BY <2>3, CallIdle
      <3>. QED  BY <1>1, <2>1, <3>1
    <2>. QED  BY <1>6, <2>2, <2>3 DEF ServerWrites
  <1>7. ASSUME NEW o \in Faults,
               ServerAccepts(o) \/ ServerStartsClose(o) \/ ServerEndsClose(o)
        PROVE  Queued' /\ Flow' /\ delivered' \in Nat
    <2>1. Wire /\ UNCHANGED <<c2s, delivered>>
      BY <1>7 DEF ServerAccepts, ServerStartsClose, ServerEndsClose
    <2>2. \/ AcceptStart(o) \/ AcceptReturn \/ AcceptTimeout(o)
          \/ \E sent : CloseStart(sent, o)
          \/ CloseWaited \/ CloseEnd(o)
      <3>1. CASE ServerAccepts(o) \/ ServerEndsClose(o)
        BY <3>1 DEF ServerAccepts, ServerEndsClose
      <3>2. CASE ServerStartsClose(o)
        <4>. DEFINE sent == IF o = "ok" THEN {"exit-status", "eof", "close"} ELSE {}
        <4>1. CloseStart(sent, o)
          BY <3>2 DEF ServerStartsClose
        <4>. HIDE DEF sent
        <4>. QED  BY <4>1
      <3>. QED  BY <1>7, <3>1, <3>2
    <2>3. Idle
      BY <2>2, CallIdle
    <2>. QED  BY <1>1, <2>1, <2>3
  <1>. QED  BY <1>2, <1>3, <1>4, <1>5, <1>6, <1>7 DEF ServerStep

LEMMA ServerSound ==
  ASSUME Sound, ServerStep
  PROVE  Sound'
  <1>1. TypeOK /\ Flow /\ Queued /\ cl \in ClientState /\ delivered \in Nat
    BY SoundParts DEF Sound, SessionTypeOK
  <1>2. TypeOK'
    BY <1>1, ServerTyped
  <1>3. Queued' /\ Flow' /\ delivered' \in Nat
    BY <1>1, <1>2, ServerFlows
  <1>4. cl' \in ClientState /\ typed' \in 0..MaxTyped
    <2>1. cl' = cl /\ typed' = typed
      BY DEF ServerStep
    <2>. QED  BY <2>1 DEF Sound, SessionTypeOK
  <1>5. written' \in 0..MaxWritten
    <2>1. written \in 0..MaxWritten
      BY DEF Sound, SessionTypeOK
    <2>2. \/ written' = written
          \/ \E n \in WriteSizes : written' = written + n /\ written + n <= MaxWritten
      BY DEF ServerStep, ServerLosesClient, ServerReceives, ServerAccepts, ServerReads,
             ServerWrites, ServerStartsClose, ServerEndsClose, ServerStartsWrite
    <2>. QED  BY <2>1, <2>2, ConnAssumption, SessionAssumption
  <1>6. c2s' \in Seq(ClientPacket) /\ s2c' \in Seq(Packet)
    <2>. DEFINE up == c2s'
                down == s2c'
    <2>1. up \in Seq(Upward) /\ down \in Seq(Downward)
      BY <1>3 DEF Queued
    <2>. HIDE DEF up, down
    <2>2. Upward \subseteq ClientPacket /\ Downward \subseteq Packet
      BY DEF Upward, Downward
    <2>3. up \in Seq(ClientPacket) /\ down \in Seq(Packet)
      BY <2>1, <2>2
    <2>. QED  BY <2>3 DEF up, down
  <1>7. SessionTypeOK'
    BY <1>2, <1>3, <1>4, <1>5, <1>6 DEF SessionTypeOK
  <1>. QED  BY <1>3, <1>7 DEF Sound
-----------------------------------------------------------------------------
(* The theorems *)

LEMMA SessionInitSound == SessionInit => Sound
  <1>. SUFFICES ASSUME SessionInit PROVE Sound
    OBVIOUS
  <1>1. TypeOK
    BY TypeInit DEF SessionInit
  <1>2. /\ c2s = <<>> /\ s2c = <<>>
        /\ cl = [step |-> "start", kex |-> "idle", peerInit |-> FALSE, out |-> 0, in |-> 0,
                 win |-> 0, grant |-> 0, eof |-> FALSE, closeSent |-> FALSE,
                 closeRecv |-> FALSE, rekeys |-> 0]
        /\ typed = 0 /\ delivered = 0 /\ written = 0
    BY DEF SessionInit
  <1>3. cl \in ClientState
    BY <1>2, ConnAssumption, SessionAssumption DEF ClientState
  <1>4. SessionTypeOK
    BY <1>1, <1>2, <1>3, SessionAssumption DEF SessionTypeOK
  <1>5. Queued
    BY <1>2 DEF Queued
  <1>6. \A m : /\ Count(c2s, m) = 0 /\ Total(c2s, m) = 0
               /\ Count(s2c, m) = 0 /\ Total(s2c, m) = 0
    BY <1>2, CountEmpty
  <1>7. /\ state = "VERSION" /\ pc = "start" /\ authTries = 0 /\ chanOpen = FALSE
        /\ shellReady = FALSE /\ ring = 0 /\ consumed = 0 /\ remoteWindow = 0
    BY DEF SessionInit, Init
  <1>8. Conversing
    BY <1>2, <1>6 DEF Conversing, Before
  <1>9. Progressing
    BY <1>2, <1>6, <1>7, ConnAssumption DEF Progressing, Open, Gone, Before, After
  <1>10. CreditIn
    BY <1>2, <1>6, <1>7, ConnAssumption DEF CreditIn, InCredit, Before, After
  <1>11. CreditOut
    BY <1>2, <1>6, <1>7 DEF CreditOut, Before, After, Gone
  <1>12. NoInputLost
    BY <1>2, <1>6, <1>7 DEF NoInputLost
  <1>. QED  BY <1>4, <1>5, <1>8, <1>9, <1>10, <1>11, <1>12 DEF Sound, Flow

LEMMA SessionStill == ASSUME Sound, UNCHANGED sessionVars PROVE Sound'
  <1>1. /\ UNCHANGED vars
        /\ UNCHANGED <<c2s, s2c, cl, typed, delivered, written>>
    BY DEF sessionVars
  <1>2. TypeOK'
    BY <1>1, TypeUntouched DEF Sound, SessionTypeOK
  <1>3. SessionTypeOK'
    BY <1>1, <1>2 DEF Sound, SessionTypeOK
  <1>4. Queued'
    BY <1>1 DEF Sound, Queued
  <1>5. UNCHANGED <<state, pc, chanOpen, shellReady, authTries, ring, consumed, remoteWindow>>
    BY <1>1 DEF vars, chanVars, flowVars, authVars
  <1>6. Flow'
    BY <1>1, <1>5 DEF Sound, Flow, Conversing, Progressing, CreditIn, CreditOut, InCredit,
       OutCredit, NoInputLost, Open, Gone, Before, After
  <1>. QED  BY <1>3, <1>4, <1>6 DEF Sound

LEMMA SoundAlways == SessionSpec => []Sound
  <1>1. Sound /\ [SessionNext]_sessionVars => Sound'
    BY ClientSound, ServerSound, SessionStill DEF SessionNext, SessionOver
  <1>. QED  BY <1>1, SessionInitSound, PTL DEF SessionSpec

\* The two ends and the packets between them keep to their types; above all the
\* client's window stays within SSH_LOCAL_WINDOW (WINDOW_ADJUST never grants more than
\* was read) and its grant never falls below zero (SshWrite never overruns it),
\* whatever fails, and however often keys are changed.
THEOREM SessionTypeTheorem == SessionSpec => []SessionTypeOK
  <1>1. Sound => SessionTypeOK
    BY DEF Sound
  <1>. QED  BY <1>1, SoundAlways, PTL

\* While the channel is open the input credit adds up to SSH_LOCAL_WINDOW: SshRead and
\* HandlePacket lose none of it and create none.
THEOREM InputCreditTheorem == SessionSpec => []InputCreditConserved
  <1>1. Sound => InputCreditConserved
    BY DEF Sound, Flow, CreditIn, InCredit, InputCreditConserved, Alive, Open, After
  <1>. QED  BY <1>1, SoundAlways, PTL

\* RingPush never has to drop a byte: what the client typed is under way, in the
\* ring, or was returned by SshRead, once.
THEOREM NoInputLostTheorem == SessionSpec => []NoInputLost
  <1>1. Sound => NoInputLost
    BY DEF Sound, Flow
  <1>. QED  BY <1>1, SoundAlways, PTL

\* remoteWindow, with the output and the adjustments under way, is exactly what the
\* client granted: SshWrite never sends more, and the addition of a
\* CHANNEL_WINDOW_ADJUST never wraps around.
THEOREM OutputCreditTheorem == SessionSpec => []OutputCreditConserved
  <1>1. Sound => OutputCreditConserved
    BY DEF Sound, Flow, CreditOut, OutCredit, OutputCreditConserved, Alive, Open, After
  <1>. QED  BY <1>1, SoundAlways, PTL
=============================================================================
