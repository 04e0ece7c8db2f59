------------------------ MODULE ConsoleInput_proofs -------------------------
(***************************************************************************)
(* Theorems about ConsoleInput.tla and the decoder of KeyDecoder.tla, for  *)
(* every value of their constants.                                         *)
(***************************************************************************)
EXTENDS ConsoleInput, FiniteSetTheorems, SequenceTheorems, WellFoundedInduction, TLAPS
-----------------------------------------------------------------------------
(* One byte or key after another *)

\* A set of numbers that is not empty has a least member.
LEMMA LeastOf ==
  ASSUME NEW T, T \subseteq Nat, T # {}
  PROVE  \E x \in T : \A y \in T : x <= y
  <1>. DEFINE R == {p \in Nat \X Nat : p[1] < p[2]}
  <1>1. IsWellFoundedOn(R, Nat)
    BY NatLessThanWellFounded, Zenon DEF OpToRel
  <1>2. PICK x \in T : \A y \in T : ~(<<y, x>> \in R)
    <2>. HIDE DEF R
    <2>. QED  BY <1>1, WFMin
  <1>3. \A y \in T : ~(y < x)
    BY <1>2
  <1>. QED  BY <1>3

\* run[i] is what f makes of s and the first i elements of w.
Ran(run, f, s, w) ==
    /\ run = [i \in 0..Len(w) |-> run[i]] /\ run[0] = s
    /\ \A i \in 1..Len(w) : run[i] = f[<<run[i - 1], w[i]>>]

LEMMA RanExists ==
  ASSUME NEW T, NEW w \in Seq(T), NEW f, NEW s
  PROVE  \E run : Ran(run, f, s, w)
  <1>. DEFINE Up(n, g) == /\ g = [i \in 0..n |-> g[i]] /\ g[0] = s
                          /\ \A i \in 1..n : g[i] = f[<<g[i - 1], w[i]>>]
              N == {n \in 0..Len(w) : ~\E g : Up(n, g)}
  <1>0. Len(w) \in Nat
    OBVIOUS
  <1>1. N \subseteq Nat
    BY <1>0
  <1>2. ASSUME N = {} PROVE \E run : Ran(run, f, s, w)
    <2>1. Len(w) \in 0..Len(w)
      BY <1>0
    <2>2. PICK run : Up(Len(w), run)
      BY <1>2, <2>1
    <2>3. Ran(run, f, s, w)
      BY <2>2 DEF Ran
    <2>. QED  BY <2>3
  <1>3. ASSUME NEW n \in N, \A m \in N : n <= m PROVE FALSE
    <2>0. n \in 0..Len(w) /\ ~\E g : Up(n, g)
      OBVIOUS
    <2>1. CASE n = 0
      <3>. DEFINE g == [i \in 0..0 |-> s]
      <3>1. Up(0, g)
        OBVIOUS
      <3>. QED  BY <2>0, <2>1, <3>1
    <2>2. CASE n # 0
      <3>1. n - 1 \in 0..Len(w) /\ n \in 1..Len(w) /\ n \in Nat
        BY <1>0, <2>0, <2>2
      <3>2. n - 1 \notin N
        <4>. HIDE DEF N
        <4>. QED  BY <1>3, <3>1
      <3>3. PICK g : Up(n - 1, g)
        BY <3>1, <3>2
      <3>. DEFINE last == f[<<g[n - 1], w[n]>>]
                  h == [i \in 0..n |-> IF i = n THEN last ELSE g[i]]
      <3>. HIDE DEF last
      <3>4. h = [i \in 0..n |-> h[i]] /\ h[0] = s
        BY <2>2, <3>1, <3>3
      <3>5. ASSUME NEW i \in 1..n PROVE h[i] = f[<<h[i - 1], w[i]>>]
        <4>1. i - 1 \in 0..n /\ i - 1 # n /\ i \in 0..n
          BY <3>1
        <4>2. h[i - 1] = g[i - 1]
          BY <4>1
        <4>3. CASE i = n
          BY <4>1, <4>2, <4>3 DEF last
        <4>4. CASE i # n
          <5>1. i \in 1..(n - 1)
            BY <3>1, <4>4
          <5>2. g[i] = f[<<g[i - 1], w[i]>>]
            BY <3>3, <5>1
          <5>. QED  BY <4>1, <4>2, <4>4, <5>2
        <4>. QED  BY <4>3, <4>4
      <3>6. Up(n, h)
        <4>. HIDE DEF h
        <4>. QED  BY <3>4, <3>5
      <3>. QED  BY <2>0, <3>6
    <2>. QED  BY <2>1, <2>2
  <1>. HIDE DEF N
  <1>. QED  BY <1>1, <1>2, <1>3, LeastOf

\* The form of the two definitions by recursion.
LEMMA RunIsRan ==
  ASSUME NEW T, NEW w \in Seq(T), NEW f, NEW s, NEW run,
         run = CHOOSE g : g = [i \in 0..Len(w) |-> IF i = 0 THEN s ELSE f[<<g[i - 1], w[i]>>]]
  PROVE  Ran(run, f, s, w)
  <1>. DEFINE Step(g) == [i \in 0..Len(w) |-> IF i = 0 THEN s ELSE f[<<g[i - 1], w[i]>>]]
  <1>0. Len(w) \in Nat
    OBVIOUS
  <1>1. PICK r : Ran(r, f, s, w)
    BY RanExists
  <1>2. r = Step(r)
    <2>1. \A i \in 0..Len(w) : i # 0 => i \in 1..Len(w)
      BY <1>0
    <2>2. \A i \in 0..Len(w) : r[i] = IF i = 0 THEN s ELSE f[<<r[i - 1], w[i]>>]
      BY <1>1, <2>1 DEF Ran
    <2>3. r = [i \in 0..Len(w) |-> r[i]]
      BY <1>1 DEF Ran
    <2>. QED  BY <2>2, <2>3
  <1>3. run = Step(run)
    BY <1>2
  <1>4. DOMAIN run = 0..Len(w) /\ run = [i \in 0..Len(w) |-> run[i]]
    BY <1>3
  <1>5. \A i \in 0..Len(w) : run[i] = IF i = 0 THEN s ELSE f[<<run[i - 1], w[i]>>]
    BY <1>3
  <1>6. 0 \in 0..Len(w) /\ \A i \in 1..Len(w) : i \in 0..Len(w) /\ i # 0
    BY <1>0
  <1>. QED  BY <1>4, <1>5, <1>6 DEF Ran

\* What holds at first and is kept at each step holds in the end; P[i] is the set of
\* the values allowed after i steps.
LEMMA RanKeeps ==
  ASSUME NEW T, NEW w \in Seq(T), NEW f, NEW s, NEW run, Ran(run, f, s, w),
         NEW P, s \in P[0],
         \A i \in 1..Len(w) : \A x \in P[i - 1] : f[<<x, w[i]>>] \in P[i]
  PROVE  run[Len(w)] \in P[Len(w)]
  <1>. DEFINE N == {n \in 0..Len(w) : run[n] \notin P[n]}
  <1>0. Len(w) \in Nat
    OBVIOUS
  <1>1. ASSUME NEW n \in N, \A m \in N : n <= m PROVE FALSE
    <2>0. n \in 0..Len(w) /\ run[n] \notin P[n]
      OBVIOUS
    <2>1. n # 0
      BY <2>0 DEF Ran
    <2>2. n - 1 \in 0..Len(w) /\ n \in 1..Len(w)
      BY <1>0, <2>0, <2>1
    <2>3. n - 1 \notin N
      <3>. HIDE DEF N
      <3>. QED  BY <1>1, <2>2
    <2>4. run[n - 1] \in P[n - 1]
      BY <2>2, <2>3
    <2>5. f[<<run[n - 1], w[n]>>] \in P[n]
      BY <2>2, <2>4
    <2>6. run[n] = f[<<run[n - 1], w[n]>>]
      BY <2>2 DEF Ran
    <2>. QED  BY <2>0, <2>5, <2>6
  <1>2. N \subseteq Nat
    BY <1>0
  <1>3. N = {}
    <2>. HIDE DEF N
    <2>. QED  BY <1>1, <1>2, LeastOf
  <1>. QED  BY <1>0, <1>3
-----------------------------------------------------------------------------
(* The decoder *)

\* Every line of characters has been ended, and LastWasCr says whether the last
\* character was a carriage return.
Paired(d) == d.unended = 0 /\ (d.lastWasCr <=> d.last = "CR")

\* The decoders there are.
Sane == {d \in Decoder : Len(d.esc) < EscMax /\ Paired(d)}

LEMMA KeyBytes ==
  /\ Bytes \ {"ESC", "LF", "DEL", "lead1", "lead2", "lead3"} \subseteq Keys
  /\ {"CR", "BS", "SCAN_ESC", "UP", "HOME", "F1", "utf8", "e", "t"} \subseteq Keys
  /\ "none" \notin Bytes
  BY DEF Keys, Bytes

LEMMA DecodedFields ==
  ASSUME NEW d \in Decoder, NEW k \in Keys \cup {"none"}
  PROVE  /\ Decoded(d, k) \in Decoder
         /\ Decoded(d, k).esc = d.esc /\ Decoded(d, k).last = d.last
         /\ Decoded(d, k).lastWasCr = d.lastWasCr
         /\ Decoded(d, k).unended = d.unended - (IF k = "CR" THEN 1 ELSE 0)
  <1>. DEFINE out == IF k = "none" THEN d.out ELSE Append(d.out, k)
              n == IF k = "CR" THEN d.unended - 1 ELSE d.unended
  <1>1. d.out \in Seq(Keys) /\ d.unended \in Int
    BY DEF Decoder
  <1>2. out \in Seq(Keys)
    <2>1. k # "none" => k \in Keys
      OBVIOUS
    <2>. QED  BY <1>1, <2>1
  <1>3. n \in Int /\ n = d.unended - (IF k = "CR" THEN 1 ELSE 0)
    BY <1>1
  <1>4. Decoded(d, k) = [d EXCEPT !.out = out, !.unended = n]
    BY DEF Decoded, Decoder
  <1>. HIDE DEF out, n
  <1>. QED  BY <1>2, <1>3, <1>4 DEF Decoder

\* A key that is not Enter.
LEMMA DecodedSane ==
  ASSUME NEW d \in Sane, NEW k \in Keys \cup {"none"}, k # "CR"
  PROVE  Decoded(d, k) \in Sane
  <1>1. d \in Decoder /\ d.unended = 0
    BY DEF Sane, Paired
  <1>2. /\ Decoded(d, k) \in Decoder /\ Decoded(d, k).esc = d.esc
        /\ Decoded(d, k).last = d.last /\ Decoded(d, k).lastWasCr = d.lastWasCr
        /\ Decoded(d, k).unended = 0
    BY <1>1, DecodedFields
  <1>. QED  BY <1>2 DEF Sane, Paired

\* A character, once it has been met.
LEMMA FeedCharSane ==
  ASSUME NEW d \in Sane, NEW b \in Bytes \ {"ESC", "lead1", "lead2", "lead3"}
  PROVE  FeedChar(Met(d, b), b) \in Sane
  <1>. DEFINE m == Met(d, b)
  <1>0. /\ d \in Decoder /\ Len(d.esc) < EscMax /\ d.unended = 0
        /\ d.lastWasCr \in BOOLEAN /\ (d.lastWasCr <=> d.last = "CR")
    BY DEF Sane, Decoder, Paired
  <1>1. /\ m \in Decoder /\ m.esc = d.esc /\ m.last = b /\ m.lastWasCr = d.lastWasCr
        /\ m.unended = IF EndsLine(d.last, b) THEN 1 ELSE 0
    <2>. DEFINE n == IF EndsLine(d.last, b) THEN d.unended + 1 ELSE d.unended
    <2>1. n \in Int /\ n = IF EndsLine(d.last, b) THEN 1 ELSE 0
      BY <1>0
    <2>2. m = [d EXCEPT !.last = b, !.unended = n]
      BY <1>0 DEF Met, Decoder
    <2>. HIDE DEF n, m
    <2>. QED  BY <1>0, <2>1, <2>2 DEF Decoder
  <1>. HIDE DEF m
  \* The flag is set as it should be, and Enter, if one is due, is decoded.
  <1>2. ASSUME NEW f \in BOOLEAN, f <=> b = "CR", NEW k \in Keys \cup {"none"},
               k = "CR" <=> EndsLine(d.last, b)
        PROVE  Decoded([m EXCEPT !.lastWasCr = f], k) \in Sane
    <2>. DEFINE e == [m EXCEPT !.lastWasCr = f]
    <2>1. /\ e \in Decoder /\ e.esc = d.esc /\ e.last = b /\ e.lastWasCr = f
          /\ e.unended = m.unended
      BY <1>1 DEF Decoder
    <2>. HIDE DEF e
    <2>2. /\ Decoded(e, k) \in Decoder /\ Decoded(e, k).esc = d.esc
          /\ Decoded(e, k).last = b /\ Decoded(e, k).lastWasCr = f
          /\ Decoded(e, k).unended = m.unended - (IF k = "CR" THEN 1 ELSE 0)
      BY <2>1, DecodedFields
    <2>3. Decoded(e, k).unended = 0
      BY <1>1, <1>2, <2>2
    <2>4. Decoded(e, k) \in Sane
      BY <1>0, <1>2, <2>2, <2>3 DEF Sane, Paired
    <2>. QED  BY <2>4 DEF e
  <1>3. CASE b = "CR"
    <2>1. FeedChar(m, b) = Decoded([m EXCEPT !.lastWasCr = TRUE], "CR")
      BY <1>3 DEF FeedChar
    <2>2. EndsLine(d.last, b) /\ "CR" \in Keys
      BY <1>3, KeyBytes DEF EndsLine
    <2>. QED  BY <1>2, <1>3, <2>1, <2>2 DEF m
  <1>4. CASE b = "LF" /\ m.lastWasCr
    <2>. DEFINE e == [m EXCEPT !.lastWasCr = FALSE]
    <2>1. FeedChar(m, b) = e
      BY <1>4 DEF FeedChar
    <2>2. ~EndsLine(d.last, b)
      BY <1>0, <1>1, <1>4 DEF EndsLine
    <2>3. /\ e \in Decoder /\ e.esc = d.esc /\ e.last = b /\ e.lastWasCr = FALSE
          /\ e.unended = 0
      BY <1>1, <2>2 DEF Decoder
    <2>. HIDE DEF e
    <2>4. e \in Sane
      BY <1>0, <1>4, <2>3 DEF Sane, Paired
    <2>. QED  BY <2>1, <2>4 DEF m
  <1>5. CASE b = "LF" /\ ~m.lastWasCr
    <2>1. FeedChar(m, b) = Decoded(m, "CR")
      BY <1>5 DEF FeedChar
    <2>2. EndsLine(d.last, b) /\ "CR" \in Keys
      BY <1>0, <1>1, <1>5, KeyBytes DEF EndsLine
    <2>3. m = [m EXCEPT !.lastWasCr = FALSE]
      BY <1>0, <1>1, <1>5 DEF Decoder
    <2>4. Decoded([m EXCEPT !.lastWasCr = FALSE], "CR") \in Sane
      BY <1>2, <1>5, <2>2
    <2>. QED  BY <2>1, <2>3, <2>4 DEF m
  <1>6. CASE b \notin {"CR", "LF"}
    <2>. DEFINE k == IF b = "DEL" THEN "BS" ELSE b
    <2>1. FeedChar(m, b) = Decoded([m EXCEPT !.lastWasCr = FALSE], k)
      BY <1>6 DEF FeedChar
    <2>2. k \in Keys /\ k # "CR" /\ ~EndsLine(d.last, b)
      BY <1>6, KeyBytes DEF EndsLine
    <2>. HIDE DEF k
    <2>3. Decoded([m EXCEPT !.lastWasCr = FALSE], k) \in Sane
      BY <1>2, <1>6, <2>2
    <2>. QED  BY <2>1, <2>3 DEF m
  <1>. QED  BY <1>3, <1>4, <1>5, <1>6

LEMMA FeedFreshSane ==
  ASSUME NEW d \in Sane, NEW b \in Bytes \ {"ESC"}
  PROVE  FeedFresh(d, b) \in Sane
  <1>0. d \in Decoder /\ Len(d.esc) < EscMax /\ Paired(d)
    BY DEF Sane
  <1>1. ASSUME NEW n \in 0..3, NEW a \in BOOLEAN
        PROVE  [d EXCEPT !.need = n, !.astral = a] \in Sane
    <2>. DEFINE e == [d EXCEPT !.need = n, !.astral = a]
    <2>1. /\ e \in Decoder /\ e.esc = d.esc /\ e.last = d.last
          /\ e.unended = d.unended /\ e.lastWasCr = d.lastWasCr
      BY <1>0 DEF Decoder
    <2>. HIDE DEF e
    <2>2. e \in Sane
      BY <1>0, <2>1 DEF Sane, Paired
    <2>. QED  BY <2>2 DEF e
  <1>2. 1 \in 0..3 /\ 2 \in 0..3 /\ 3 \in 0..3
    OBVIOUS
  <1>3. CASE b = "lead1"
    <2>1. FeedFresh(d, b) = [d EXCEPT !.need = 1, !.astral = FALSE]
      BY <1>3 DEF FeedFresh
    <2>. QED  BY <1>1, <1>2, <2>1
  <1>4. CASE b = "lead2"
    <2>1. FeedFresh(d, b) = [d EXCEPT !.need = 2, !.astral = FALSE]
      BY <1>4 DEF FeedFresh
    <2>. QED  BY <1>1, <1>2, <2>1
  <1>5. CASE b = "lead3"
    <2>1. FeedFresh(d, b) = [d EXCEPT !.need = 3, !.astral = TRUE]
      BY <1>5 DEF FeedFresh
    <2>. QED  BY <1>1, <1>2, <2>1
  <1>6. CASE b \notin {"lead1", "lead2", "lead3"}
    <2>1. FeedFresh(d, b) = FeedChar(Met(d, b), b)
      BY <1>6 DEF FeedFresh
    <2>. QED  BY <1>6, <2>1, FeedCharSane
  <1>. QED  BY <1>3, <1>4, <1>5, <1>6

LEMMA FeedPlainSane ==
  ASSUME NEW d \in Sane, NEW b \in Bytes
  PROVE  FeedPlain(d, b) \in Sane
  <1>0. d \in Decoder /\ Len(d.esc) < EscMax /\ Paired(d) /\ d.need \in 0..3
    BY DEF Sane, Decoder
  <1>1. CASE b = "ESC"
    <2>. DEFINE e == [d EXCEPT !.esc = <<b>>]
    <2>1. <<b>> \in Seq(Bytes) /\ Len(<<b>>) = 1
      OBVIOUS
    <2>2. e \in Decoder /\ e.esc = <<b>> /\ e.unended = d.unended /\ e.last = d.last /\ e.lastWasCr = d.lastWasCr
      BY <1>0, <2>1 DEF Decoder
    <2>3. FeedPlain(d, b) = e
      BY <1>1 DEF FeedPlain
    <2>. HIDE DEF e
    <2>4. e \in Sane
      <3>1. Len(e.esc) < EscMax
        BY <2>1, <2>2, EscMaxAssumption
      <3>. QED  BY <1>0, <2>2, <3>1 DEF Sane, Paired
    <2>. QED  BY <2>3, <2>4
  <1>2. CASE b = "cont" /\ d.need > 0
    <2>. DEFINE e == [d EXCEPT !.need = @ - 1]
                k == IF d.need = 1 /\ ~d.astral THEN "utf8" ELSE "none"
    <2>1. e \in Decoder /\ e.esc = d.esc /\ e.unended = d.unended /\ e.last = d.last /\ e.lastWasCr = d.lastWasCr
      <3>1. d.need - 1 \in 0..3
        BY <1>0, <1>2
      <3>. QED  BY <1>0, <3>1 DEF Decoder
    <2>2. FeedPlain(d, b) = Decoded(e, k)
      BY <1>2 DEF FeedPlain
    <2>3. k \in Keys \cup {"none"} /\ k # "CR"
      BY KeyBytes
    <2>. HIDE DEF e, k
    <2>4. e \in Sane
      BY <1>0, <2>1 DEF Sane, Paired
    <2>. QED  BY <2>2, <2>3, <2>4, DecodedSane
  <1>3. CASE b # "ESC" /\ ~(b = "cont" /\ d.need > 0)
    <2>. DEFINE e == [d EXCEPT !.need = 0]
    <2>1. e \in Decoder /\ e.esc = d.esc /\ e.unended = d.unended /\ e.last = d.last /\ e.lastWasCr = d.lastWasCr
      BY <1>0 DEF Decoder
    <2>2. FeedPlain(d, b) = FeedFresh(e, b)
      BY <1>3 DEF FeedPlain
    <2>. HIDE DEF e
    <2>3. e \in Sane
      BY <1>0, <2>1 DEF Sane, Paired
    <2>. QED  BY <1>3, <2>2, <2>3, FeedFreshSane
  <1>. QED  BY <1>1, <1>2, <1>3

\* The decoder with another escape buffer.
LEMMA EscapedSane ==
  ASSUME NEW d \in Sane, NEW e \in Seq(Bytes), Len(e) < EscMax
  PROVE  [d EXCEPT !.esc = e] \in Sane
  <1>. DEFINE x == [d EXCEPT !.esc = e]
  <1>1. x \in Decoder /\ x.esc = e /\ x.unended = d.unended /\ x.last = d.last /\ x.lastWasCr = d.lastWasCr
    BY DEF Sane, Decoder
  <1>. HIDE DEF x
  <1>2. x \in Sane
    BY <1>1 DEF Sane, Paired
  <1>. QED  BY <1>2 DEF x

LEMMA FeedEscapeSane ==
  ASSUME NEW d \in Sane, d.esc # <<>>, NEW b \in Bytes
  PROVE  FeedEscape(d, b) \in Sane
  <1>. DEFINE e == Append(d.esc, b)
              closed == [d EXCEPT !.esc = <<>>]
  <1>1. d.esc \in Seq(Bytes) /\ Len(d.esc) \in Nat /\ Len(d.esc) # 0
    BY DEF Sane, Decoder
  <1>2. e \in Seq(Bytes) /\ Len(e) \in Nat /\ Len(e) >= 2
    BY <1>1
  <1>2a. (Len(e) = 2 \/ Len(e) > 2) /\ ~(Len(e) = 2 /\ Len(e) > 2)
    BY <1>1
  <1>3. closed \in Sane
    <2>1. <<>> \in Seq(Bytes) /\ Len(<<>>) < EscMax
      BY EscMaxAssumption
    <2>. QED  BY <2>1, EscapedSane
  <1>4. /\ CsiKey(e) \in Keys \cup {"none"} /\ CsiKey(e) # "CR"
        /\ Ss3Key(b) \in Keys \cup {"none"} /\ Ss3Key(b) # "CR"
    BY KeyBytes DEF CsiKey, Ss3Key
  <1>. HIDE DEF e, closed
  <1>. DEFINE kept == [d EXCEPT !.esc = IF Len(e) >= EscMax THEN <<>> ELSE e]
  <1>5. FeedEscape(d, b) =
          CASE Len(e) = 2 /\ b \in {"[", "O"} -> [d EXCEPT !.esc = e]
            [] Len(e) = 2 /\ b \notin {"[", "O"} ->
                  FeedPlain(Decoded(closed, "SCAN_ESC"), b)
            [] Len(e) > 2 /\ e[2] = "O" -> Decoded(closed, Ss3Key(b))
            [] Len(e) > 2 /\ e[2] = "[" /\ b \in Finals ->
                  Decoded(closed, CsiKey(e))
            [] OTHER -> kept
    BY DEF FeedEscape, e, closed
  <1>. HIDE DEF kept
  <1>6. CASE Len(e) = 2 /\ b \in {"[", "O"}
    <2>1. [d EXCEPT !.esc = e] \in Sane
      BY <1>2, <1>6, EscapedSane, EscMaxAssumption
    <2>. QED  BY <1>5, <1>6, <2>1
  <1>7. CASE Len(e) = 2 /\ b \notin {"[", "O"}
    <2>1. Decoded(closed, "SCAN_ESC") \in Sane
      BY <1>3, DecodedSane, KeyBytes
    <2>2. FeedPlain(Decoded(closed, "SCAN_ESC"), b) \in Sane
      BY <2>1, FeedPlainSane
    <2>. QED  BY <1>5, <1>7, <2>2
  <1>8. CASE Len(e) > 2
    <2>1. Decoded(closed, Ss3Key(b)) \in Sane /\ Decoded(closed, CsiKey(e)) \in Sane
      BY <1>3, <1>4, DecodedSane
    <2>2. kept \in Sane
      <3>1. CASE Len(e) >= EscMax
        <4>1. kept = closed
          BY <3>1 DEF kept, closed
        <4>. QED  BY <1>3, <4>1
      <3>2. CASE ~(Len(e) >= EscMax)
        <4>1. kept = [d EXCEPT !.esc = e]
          BY <3>2 DEF kept
        <4>2. Len(e) < EscMax
          BY <1>2, <3>2, EscMaxAssumption
        <4>. QED  BY <1>2, <4>1, <4>2, EscapedSane
      <3>. QED  BY <3>1, <3>2
    <2>3. ~(Len(e) = 2)
      BY ONLY <1>8, <1>2a
    <2>4. CASE e[2] = "O"
      <3>1. FeedEscape(d, b) = Decoded(closed, Ss3Key(b))
        BY <1>5, <1>8, <2>3, <2>4
      <3>. QED  BY <2>1, <3>1
    <2>5. CASE e[2] = "[" /\ b \in Finals
      <3>1. FeedEscape(d, b) = Decoded(closed, CsiKey(e))
        BY <1>5, <1>8, <2>3, <2>5
      <3>. QED  BY <2>1, <3>1
    <2>6. CASE ~(e[2] = "O") /\ ~(e[2] = "[" /\ b \in Finals)
      <3>1. FeedEscape(d, b) = kept
        BY <1>5, <1>8, <2>3, <2>6
      <3>. QED  BY <2>2, <3>1
    <2>. QED  BY <2>4, <2>5, <2>6
  <1>. QED  BY ONLY <1>6, <1>7, <1>8, <1>2a

LEMMA FeedByteSane ==
  ASSUME NEW d \in Sane, NEW b \in Bytes
  PROVE  FeedByte(d, b) \in Sane
  BY FeedPlainSane, FeedEscapeSane DEF FeedByte

\* Any number of bytes.
LEMMA FeedBytesSane ==
  ASSUME NEW d \in Sane, NEW bs \in Seq(Bytes)
  PROVE  FeedBytes(d, bs) \in Sane
  <1>. DEFINE feed == [x \in Decoder \X Bytes |-> FeedByte(x[1], x[2])]
              run == CHOOSE g : g = [i \in 0..Len(bs) |->
                                       IF i = 0 THEN d ELSE feed[<<g[i - 1], bs[i]>>]]
              P == [i \in 0..Len(bs) |-> Sane]
  <1>0. Len(bs) \in Nat
    OBVIOUS
  <1>1. FeedBytes(d, bs) = run[Len(bs)]
    BY DEF FeedBytes
  <1>2. \A x \in Sane : \A b \in Bytes : feed[<<x, b>>] \in Sane
    <2>1. \A x \in Sane : \A b \in Bytes : feed[<<x, b>>] = FeedByte(x, b)
      BY DEF Sane
    <2>. HIDE DEF feed
    <2>. QED  BY <2>1, FeedByteSane
  <1>. HIDE DEF feed
  <1>3. Ran(run, feed, d, bs)
    <2>1. run = CHOOSE g : g = [i \in 0..Len(bs) |->
                                  IF i = 0 THEN d ELSE feed[<<g[i - 1], bs[i]>>]]
      OBVIOUS
    <2>. HIDE DEF run
    <2>. QED  BY <2>1, RunIsRan
  <1>. HIDE DEF run
  <1>4. d \in P[0] /\ P[Len(bs)] = Sane
    BY <1>0
  <1>5. \A i \in 1..Len(bs) : \A x \in P[i - 1] : feed[<<x, bs[i]>>] \in P[i]
    <2>1. \A i \in 1..Len(bs) : P[i] = Sane /\ P[i - 1] = Sane /\ bs[i] \in Bytes
      BY <1>0
    <2>. HIDE DEF P
    <2>. QED  BY <1>2, <2>1
  <1>. HIDE DEF P
  <1>6. run[Len(bs)] \in P[Len(bs)]
    BY <1>3, <1>4, <1>5, RanKeeps
  <1>. QED  BY <1>1, <1>4, <1>6

LEMMA FlushEscSane ==
  ASSUME NEW d \in Sane, d.esc # <<>>
  PROVE  FlushEsc(d) \in Sane
  <1>1. [d EXCEPT !.esc = <<>>] \in Sane
    <2>1. <<>> \in Seq(Bytes) /\ Len(<<>>) < EscMax
      BY EscMaxAssumption
    <2>. QED  BY <2>1, EscapedSane
  <1>2. Decoded([d EXCEPT !.esc = <<>>], "SCAN_ESC") \in Sane
    BY <1>1, DecodedSane, KeyBytes
  <1>3. Tail(d.esc) \in Seq(Bytes)
    BY HeadTailProperties DEF Sane, Decoder
  <1>. QED  BY <1>2, <1>3, FeedBytesSane DEF FlushEsc
-----------------------------------------------------------------------------
(* The ring *)

Rings == {r \in [keys : Seq(Keys), heard : Nat] : Len(r.keys) < KeyRing}

\* The places among the first i keys of ks where Ctrl-C was typed.
Breaks(ks, i) == {j \in 1..i : ks[j] = "^C"}

\* How many handlers of either form have to hear of n Ctrl-C.
Owed(n) == IF Registered(BreakForms) THEN n ELSE 0

LEMMA BreaksCounted ==
  ASSUME NEW ks \in Seq(Keys), NEW i \in 1..Len(ks)
  PROVE  /\ Cardinality(Breaks(ks, i - 1)) \in Nat
         /\ Cardinality(Breaks(ks, i)) =
              Cardinality(Breaks(ks, i - 1)) + IF ks[i] = "^C" THEN 1 ELSE 0
  <1>. DEFINE A == Breaks(ks, i - 1)
              B == Breaks(ks, i)
  <1>0. i \in Nat /\ i - 1 \in Int
    OBVIOUS
  <1>1. IsFiniteSet(A) /\ Cardinality(A) \in Nat
    <2>1. A \subseteq 1..(i - 1) /\ IsFiniteSet(1..(i - 1))
      BY <1>0, FS_Interval DEF Breaks
    <2>. HIDE DEF A
    <2>. QED  BY <2>1, FS_Subset, FS_CardinalityType
  <1>2. i \notin A /\ B = IF ks[i] = "^C" THEN A \cup {i} ELSE A
    BY <1>0 DEF Breaks
  <1>. HIDE DEF A, B
  <1>3. Cardinality(A \cup {i}) = Cardinality(A) + 1
    BY <1>1, <1>2, FS_AddElement
  <1>4. CASE ks[i] = "^C"
    BY <1>1, <1>2, <1>3, <1>4 DEF A, B
  <1>5. CASE ks[i] # "^C"
    <2>1. B = A
      BY <1>2, <1>5
    <2>. QED  BY <1>1, <1>5, <2>1 DEF A, B
  <1>. QED  BY <1>4, <1>5

\* One key: the ring takes it or drops it, and a Ctrl-C is heard either way.
LEMMA PushKeyRing ==
  ASSUME NEW r \in Rings, NEW k \in Keys
  PROVE  /\ PushKey(r, k) \in Rings
         /\ PushKey(r, k).heard = r.heard + Owed(IF k = "^C" THEN 1 ELSE 0)
         /\ Len(r.keys) < KeyRing - 1 => PushKey(r, k).keys = Append(r.keys, k)
  <1>. DEFINE q == IF Len(r.keys) < KeyRing - 1 THEN Append(r.keys, k) ELSE r.keys
              h == r.heard + IF k = "^C" /\ Registered(BreakForms) THEN 1 ELSE 0
  <1>0. /\ r.keys \in Seq(Keys) /\ Len(r.keys) \in Nat /\ Len(r.keys) < KeyRing
        /\ r.heard \in Nat /\ KeyRing \in Nat
    BY InputAssumption DEF Rings
  <1>1. q \in Seq(Keys) /\ Len(q) < KeyRing
    <2>1. Len(Append(r.keys, k)) = Len(r.keys) + 1 /\ Append(r.keys, k) \in Seq(Keys)
      BY <1>0
    <2>2. CASE Len(r.keys) < KeyRing - 1
      BY <1>0, <2>1, <2>2
    <2>3. CASE ~(Len(r.keys) < KeyRing - 1)
      BY <1>0, <2>3
    <2>. QED  BY <2>2, <2>3
  <1>2. h \in Nat /\ h = r.heard + Owed(IF k = "^C" THEN 1 ELSE 0)
    BY <1>0 DEF Owed
  <1>3. PushKey(r, k) = [keys |-> q, heard |-> h]
    BY DEF PushKey
  <1>4. Len(r.keys) < KeyRing - 1 => q = Append(r.keys, k)
    OBVIOUS
  <1>. HIDE DEF q, h
  <1>5. /\ PushKey(r, k) \in [keys : Seq(Keys), heard : Nat]
        /\ PushKey(r, k).keys = q /\ PushKey(r, k).heard = h
    BY <1>1, <1>2, <1>3
  <1>. QED  BY <1>1, <1>2, <1>4, <1>5 DEF Rings

\* PushKeys is a run of PushKey.
LEMMA PushKeysRun ==
  ASSUME NEW r \in Rings, NEW ks \in Seq(Keys)
  PROVE  \E run, push : /\ Ran(run, push, r, ks) /\ PushKeys(r, ks) = run[Len(ks)]
                        /\ \A x \in Rings : \A k \in Keys : push[<<x, k>>] = PushKey(x, k)
  <1>. DEFINE push == [x \in [keys : Seq(Keys), heard : Nat] \X Keys |-> PushKey(x[1], x[2])]
              run == CHOOSE g : g = [i \in 0..Len(ks) |->
                                       IF i = 0 THEN r ELSE push[<<g[i - 1], ks[i]>>]]
  <1>1. PushKeys(r, ks) = run[Len(ks)]
    BY DEF PushKeys
  <1>2. \A x \in Rings : \A k \in Keys : push[<<x, k>>] = PushKey(x, k)
    BY DEF Rings
  <1>. HIDE DEF push
  <1>3. Ran(run, push, r, ks)
    <2>1. run = CHOOSE g : g = [i \in 0..Len(ks) |->
                                  IF i = 0 THEN r ELSE push[<<g[i - 1], ks[i]>>]]
      OBVIOUS
    <2>. HIDE DEF run
    <2>. QED  BY <2>1, RunIsRan
  <1>. HIDE DEF run
  <1>. QED  BY <1>1, <1>2, <1>3

\* However full the ring, every Ctrl-C among the keys is heard by who registered for it.
LEMMA PushKeysRing ==
  ASSUME NEW q \in Seq(Keys), Len(q) < KeyRing, NEW ks \in Seq(Keys)
  PROVE  /\ PushKeys([keys |-> q, heard |-> 0], ks) \in Rings
         /\ PushKeys([keys |-> q, heard |-> 0], ks).heard =
              Owed(Cardinality(Breaks(ks, Len(ks))))
  <1>. DEFINE r == [keys |-> q, heard |-> 0]
              P == [i \in 0..Len(ks) |->
                      {x \in Rings : x.heard = Owed(Cardinality(Breaks(ks, i)))}]
  <1>0. Len(ks) \in Nat /\ 0 \in Nat
    OBVIOUS
  <1>1. r \in Rings
    BY <1>0 DEF Rings
  <1>2. r \in P[0]
    <2>1. Breaks(ks, 0) = {}
      BY DEF Breaks
    <2>2. Owed(Cardinality(Breaks(ks, 0))) = 0
      BY <2>1, FS_EmptySet DEF Owed
    <2>3. P[0] = {x \in Rings : x.heard = Owed(Cardinality(Breaks(ks, 0)))}
      BY <1>0
    <2>. QED  BY <1>1, <2>2, <2>3
  <1>3. PICK run, push : /\ Ran(run, push, r, ks) /\ PushKeys(r, ks) = run[Len(ks)]
                         /\ \A x \in Rings : \A k \in Keys : push[<<x, k>>] = PushKey(x, k)
    <2>. HIDE DEF r
    <2>. QED  BY <1>1, PushKeysRun
  <1>4. ASSUME NEW i \in 1..Len(ks), NEW x \in P[i - 1] PROVE push[<<x, ks[i]>>] \in P[i]
    <2>. DEFINE b == Cardinality(Breaks(ks, i - 1))
                o == IF ks[i] = "^C" THEN 1 ELSE 0
    <2>1. i \in 0..Len(ks) /\ i - 1 \in 0..Len(ks) /\ ks[i] \in Keys
      BY <1>0
    <2>2. /\ x \in Rings /\ x.heard = Owed(b)
          /\ P[i] = {y \in Rings : y.heard = Owed(Cardinality(Breaks(ks, i)))}
      BY <2>1
    <2>. HIDE DEF P, b
    <2>3. b \in Nat /\ Cardinality(Breaks(ks, i)) = b + o
      BY BreaksCounted DEF b
    <2>4. Owed(b) + Owed(o) = Owed(b + o)
      BY <2>3 DEF Owed
    <2>. HIDE DEF o
    <2>5. /\ push[<<x, ks[i]>>] = PushKey(x, ks[i]) /\ PushKey(x, ks[i]) \in Rings
          /\ PushKey(x, ks[i]).heard = x.heard + Owed(o)
      BY <1>3, <2>1, <2>2, PushKeyRing DEF o
    <2>. QED  BY ONLY <2>2, <2>3, <2>4, <2>5
  <1>5. P[Len(ks)] = {x \in Rings : x.heard = Owed(Cardinality(Breaks(ks, Len(ks))))}
    BY <1>0
  <1>. HIDE DEF P, r
  <1>6. run[Len(ks)] \in P[Len(ks)]
    BY <1>2, <1>3, <1>4, RanKeeps
  <1>7. PushKeys(r, ks) \in Rings
        /\ PushKeys(r, ks).heard = Owed(Cardinality(Breaks(ks, Len(ks))))
    BY <1>3, <1>5, <1>6
  <1>. QED  BY <1>7 DEF r

LEMMA TwoTyped ==
  ASSUME NEW T, NEW a \in T, NEW b \in T
  PROVE  Append(<<a>>, b) = <<a, b>> /\ Len(<<a>>) = 1
  <1>1. <<a>> \in Seq(T) /\ <<a, b>> \in Seq(T) /\ Len(<<a>>) = 1 /\ Len(<<a, b>>) = 2
    OBVIOUS
  <1>2. Append(<<a>>, b) \in Seq(T) /\ Len(Append(<<a>>, b)) = 2
    BY <1>1
  <1>3. \A i \in 1..2 : Append(<<a>>, b)[i] = <<a, b>>[i]
    BY <1>1
  <1>. QED  BY <1>1, <1>2, <1>3, SeqEqual

LEMMA ThreeTyped ==
  ASSUME NEW T, NEW a \in T, NEW b \in T, NEW c \in T
  PROVE  Append(<<a, b>>, c) = <<a, b, c>> /\ Len(<<a, b>>) = 2
  <1>1. /\ <<a, b>> \in Seq(T) /\ Len(<<a, b>>) = 2
        /\ <<a, b, c>> \in Seq(T) /\ Len(<<a, b, c>>) = 3
    OBVIOUS
  <1>2. Append(<<a, b>>, c) \in Seq(T) /\ Len(Append(<<a, b>>, c)) = 3
    BY <1>1
  <1>3. \A i \in 1..3 : Append(<<a, b>>, c)[i] = <<a, b, c>>[i]
    BY <1>1
  <1>. QED  BY <1>1, <1>2, <1>3, SeqEqual

\* The whole line fits in an empty ring.
LEMMA LineTyped ==
  ASSUME NEW w \in Seq(Keys), w = ExitLine
  PROVE  PushKeys([keys |-> <<>>, heard |-> 0], w).keys = w
  <1>. DEFINE r == [keys |-> <<>>, heard |-> 0]
  <1>0. /\ Len(w) = 3 /\ KeyRing \in Nat /\ KeyRing > 3
        /\ w[1] = "e" /\ w[2] = "t" /\ w[3] = "CR"
        /\ "e" \in Keys /\ "t" \in Keys /\ "CR" \in Keys
    BY InputAssumption, KeyBytes DEF ExitLine
  <1>1. r \in Rings /\ r.keys = <<>>
    <2>1. <<>> \in Seq(Keys) /\ 0 \in Nat /\ Len(<<>>) = 0
      OBVIOUS
    <2>. QED  BY <1>0, <2>1 DEF Rings
  <1>2. PICK run, push : /\ Ran(run, push, r, w)
                         /\ PushKeys(r, w) = run[Len(w)]
                         /\ \A x \in Rings : \A k \in Keys : push[<<x, k>>] = PushKey(x, k)
    <2>. HIDE DEF r
    <2>. QED  BY <1>1, PushKeysRun
  <1>. HIDE DEF r
  <1>3. run[0] = r /\ \A i \in 1..3 : run[i] = push[<<run[i - 1], w[i]>>]
    BY <1>0, <1>2 DEF Ran
  <1>4. run[1] \in Rings /\ run[1].keys = <<"e">>
    <2>1. run[1] = PushKey(r, "e")
      BY <1>0, <1>1, <1>2, <1>3
    <2>2. Len(r.keys) < KeyRing - 1 /\ Append(r.keys, "e") = <<"e">>
      BY <1>0, <1>1
    <2>. QED  BY <1>0, <1>1, <2>1, <2>2, PushKeyRing
  <1>5. run[2] \in Rings /\ run[2].keys = <<"e", "t">>
    <2>1. run[2] = PushKey(run[1], "t")
      BY <1>0, <1>2, <1>3, <1>4
    <2>2. Len(<<"e">>) = 1 /\ Append(<<"e">>, "t") = <<"e", "t">>
      BY ONLY <1>0, TwoTyped
    <2>3. 1 < KeyRing - 1
      BY <1>0
    <2>. QED  BY ONLY <1>0, <1>4, <2>1, <2>2, <2>3, PushKeyRing
  <1>6. run[3].keys = <<"e", "t", "CR">>
    <2>1. run[3] = PushKey(run[2], "CR")
      BY <1>0, <1>2, <1>3, <1>5
    <2>2. Len(<<"e", "t">>) = 2 /\ Append(<<"e", "t">>, "CR") = <<"e", "t", "CR">>
      BY ONLY <1>0, ThreeTyped
    <2>3. 2 < KeyRing - 1
      BY <1>0
    <2>. QED  BY ONLY <1>0, <1>5, <2>1, <2>2, <2>3, PushKeyRing
  <1>. QED  BY <1>0, <1>2, <1>6 DEF ExitLine, r

LEMMA ExitLineTyped ==
  /\ ExitLine \in Seq(Keys) /\ Len(ExitLine) < KeyRing
  /\ PushKeys([keys |-> <<>>, heard |-> 0], ExitLine).keys = ExitLine
  <1>1. ExitLine \in Seq(Keys) /\ Len(ExitLine) < KeyRing
    BY InputAssumption, KeyBytes DEF ExitLine
  <1>. QED  BY <1>1, LineTyped
-----------------------------------------------------------------------------
(* The inductive invariant *)

\* What may be left of the line that is typed for the Shell.
Rests == {ExitLine, <<"t", "CR">>, <<"CR">>, <<>>}

\* The line is typed only once the connection is gone, and alone.
Alone == exitInjects > 0 => disconnected /\ keys \in Rests

IInv == TypeOK /\ decoder \in Sane /\ Alone /\ CtrlCHeard

\* What PumpInput makes of a state in which IInv holds.
PumpedOK(p) ==
    /\ p.wire \in {wire, <<>>}
    /\ p.decoder \in Sane /\ p.decoder.out = <<>>
    /\ p.keys \in Seq(Keys) /\ Len(p.keys) < KeyRing
    /\ p.n \in 0..MaxInjects
    /\ p.unheard = 0
    /\ p.disconnected \in BOOLEAN /\ p.due \in BOOLEAN
    /\ p.n > 0 => p.disconnected /\ p.keys \in Rests

LEMMA InjectedLine ==
  ASSUME exitInjects \in 0..MaxInjects, NEW ks \in Seq(Keys), Len(ks) < KeyRing
  PROVE  /\ Injected(ks).keys \in Seq(Keys) /\ Len(Injected(ks).keys) < KeyRing
         /\ Injected(ks).n \in 0..MaxInjects
         /\ \/ Injected(ks).keys = ExitLine
            \/ Injected(ks).keys = ks /\ Injected(ks).n = exitInjects
  <1>1. CASE MayInject(ks)
    <2>1. Injected(ks) = [keys |-> PushKeys([keys |-> <<>>, heard |-> 0], ExitLine).keys,
                          n |-> exitInjects + 1]
      BY <1>1 DEF Injected, MayInject
    <2>2. Injected(ks).keys = ExitLine /\ Injected(ks).n = exitInjects + 1
      BY ONLY <2>1, ExitLineTyped
    <2>3. exitInjects + 1 \in 0..MaxInjects
      BY <1>1, InputAssumption DEF MayInject
    <2>. QED  BY ONLY <2>2, <2>3, ExitLineTyped
  <1>2. CASE ~MayInject(ks)
    <2>1. Injected(ks) = [keys |-> ks, n |-> exitInjects]
      BY <1>2 DEF Injected
    <2>. QED  BY <2>1
  <1>. QED  BY <1>1, <1>2

LEMMA StillInjectingOK ==
  ASSUME IInv, disconnected
  PROVE  PumpedOK(StillInjecting)
  <1>1. /\ exitInjects \in 0..MaxInjects /\ keys \in Seq(Keys) /\ Len(keys) < KeyRing
        /\ decoder \in Sane /\ decoder.out = <<>> /\ unheard = 0 /\ breakDue \in BOOLEAN
        /\ exitInjects > 0 => keys \in Rests
    BY DEF IInv, TypeOK, Alone, CtrlCHeard
  <1>. DEFINE inj == Injected(keys)
  <1>2. StillInjecting =
          [wire |-> wire, decoder |-> decoder, keys |-> inj.keys, n |-> inj.n,
           unheard |-> unheard, disconnected |-> TRUE, due |-> breakDue]
    BY DEF StillInjecting
  <1>3. /\ inj.keys \in Seq(Keys) /\ Len(inj.keys) < KeyRing /\ inj.n \in 0..MaxInjects
        /\ inj.keys = ExitLine \/ (inj.keys = keys /\ inj.n = exitInjects)
    BY ONLY <1>1, InjectedLine
  <1>. HIDE DEF inj
  <1>4. inj.n > 0 => inj.keys \in Rests
    BY ONLY <1>1, <1>3 DEF Rests
  <1>. QED  BY ONLY <1>1, <1>2, <1>3, <1>4 DEF PumpedOK

LEMMA ReadingOK ==
  ASSUME IInv, ~disconnected, NEW full \in BOOLEAN, NEW late \in BOOLEAN
  PROVE  PumpedOK(Reading(full, late))
  <1>1. /\ exitInjects \in 0..MaxInjects /\ keys \in Seq(Keys) /\ Len(keys) < KeyRing
        /\ decoder \in Sane /\ wire \in Seq(Bytes) /\ unheard = 0
        /\ breakDue \in BOOLEAN /\ gone \in BOOLEAN /\ exitInjects = 0
    <2>1. wire \in Seq(Bytes)
      BY InputAssumption DEF IInv, TypeOK
    <2>2. exitInjects = 0
      BY InputAssumption DEF IInv, TypeOK, Alone
    <2>. QED  BY <2>1, <2>2 DEF IInv, TypeOK, CtrlCHeard
  <1>. DEFINE read == FeedBytes(decoder, wire)
              vanished == gone /\ (wire = <<>> \/ full)
              d == IF vanished THEN read ELSE LateFlush(read, late)
              r == PushKeys([keys |-> keys, heard |-> 0], d.out)
              inj == IF vanished THEN Injected(r.keys)
                     ELSE [keys |-> r.keys, n |-> exitInjects]
              typedBreaks == Cardinality({i \in DOMAIN d.out : d.out[i] = "^C"})
              owed == IF Registered(BreakForms) THEN typedBreaks ELSE 0
              kept == [d EXCEPT !.out = <<>>]
  <1>2. Reading(full, late) =
          [wire |-> <<>>, decoder |-> kept, keys |-> inj.keys, n |-> inj.n,
           unheard |-> unheard + owed - r.heard,
           disconnected |-> vanished, due |-> breakDue /\ ~vanished]
    BY DEF Reading
  <1>3. vanished \in BOOLEAN
    BY <1>1
  <1>4. read \in Sane
    BY <1>1, FeedBytesSane
  <1>. HIDE DEF read, vanished
  <1>5. d \in Sane
    <2>1. LateFlush(read, late) \in Sane
      BY <1>4, FlushEscSane DEF LateFlush
    <2>. QED  BY <1>4, <2>1
  <1>. HIDE DEF d
  <1>6. d.out \in Seq(Keys) /\ kept \in Sane /\ kept.out = <<>>
    <2>1. d \in Decoder /\ <<>> \in Seq(Keys)
      BY <1>5 DEF Sane
    <2>2. /\ kept \in Decoder /\ kept.out = <<>> /\ kept.esc = d.esc
          /\ kept.unended = d.unended /\ kept.last = d.last /\ kept.lastWasCr = d.lastWasCr
      BY <2>1 DEF Decoder
    <2>. HIDE DEF kept
    <2>. QED  BY <1>5, <2>1, <2>2 DEF Sane, Decoder, Paired
  <1>7. /\ r \in Rings /\ r.heard = Owed(Cardinality(Breaks(d.out, Len(d.out))))
    BY ONLY <1>1, <1>6, PushKeysRing
  <1>8. unheard + owed - r.heard = 0
    <2>1. Breaks(d.out, Len(d.out)) = {i \in DOMAIN d.out : d.out[i] = "^C"}
      BY <1>6 DEF Breaks
    <2>2. r.heard = owed
      BY <1>7, <2>1 DEF Owed
    <2>3. r.heard \in Nat
      BY <1>7 DEF Rings
    <2>. HIDE DEF r, owed
    <2>. QED  BY ONLY <1>1, <2>2, <2>3
  <1>. HIDE DEF r, kept, owed
  <1>9. r.keys \in Seq(Keys) /\ Len(r.keys) < KeyRing
    BY <1>7 DEF Rings
  <1>10. /\ inj.keys \in Seq(Keys) /\ Len(inj.keys) < KeyRing /\ inj.n \in 0..MaxInjects
         /\ inj.n > 0 => vanished /\ inj.keys \in Rests
    <2>1. CASE vanished
      <3>1. inj = Injected(r.keys)
        BY <2>1
      <3>2. /\ inj.keys \in Seq(Keys) /\ Len(inj.keys) < KeyRing /\ inj.n \in 0..MaxInjects
            /\ inj.keys = ExitLine \/ inj.n = exitInjects
        BY ONLY <1>1, <1>9, <3>1, InjectedLine
      <3>. HIDE DEF inj
      <3>. QED  BY ONLY <1>1, <2>1, <3>2 DEF Rests
    <2>2. CASE ~vanished
      <3>1. inj.keys = r.keys /\ inj.n = exitInjects
        BY <2>2
      <3>. HIDE DEF inj
      <3>. QED  BY ONLY <1>1, <1>9, <3>1
    <2>. QED  BY <2>1, <2>2
  <1>. HIDE DEF inj
  <1>. QED  BY ONLY <1>1, <1>2, <1>3, <1>6, <1>8, <1>10 DEF PumpedOK

LEMMA PumpedIsOK ==
  ASSUME IInv, NEW full \in BOOLEAN, NEW late \in BOOLEAN
  PROVE  PumpedOK(Pumped(full, late))
  <1>1. disconnected \in BOOLEAN
    BY DEF IInv, TypeOK
  <1>2. CASE disconnected
    BY <1>2, StillInjectingOK DEF Pumped
  <1>3. CASE ~disconnected
    BY <1>3, ReadingOK DEF Pumped
  <1>. QED  BY <1>1, <1>2, <1>3
-----------------------------------------------------------------------------
(* Every step keeps it *)

\* The two halves of TypeOK: what PumpInput works on, and the Shell.
ShimTypes ==
    /\ typed \in 0..MaxTyped
    /\ wire \in Seq(TypedBytes) /\ Len(wire) <= typed
    /\ gone \in BOOLEAN /\ disconnected \in BOOLEAN /\ breakDue \in BOOLEAN
    /\ decoder \in Sane /\ decoder.out = <<>>
    /\ keys \in Seq(Keys) /\ Len(keys) < KeyRing
    /\ notify \in [1..MaxNotify -> Forms \cup {"free"}]
    /\ exitInjects \in 0..MaxInjects
    /\ unheard = 0
    /\ exitInjects > 0 => disconnected /\ keys \in Rests

ShellTypes ==
    /\ signalled \in BOOLEAN /\ local \in {"none", "pressed", "read"}
    /\ shell \in {"prompt", "command", "exited"}
    /\ line \in Seq(Keys \cup {"other"}) /\ eaten \in 0..MaxEaten

LEMMA Halves == IInv <=> ShimTypes /\ ShellTypes
  <1>1. ASSUME IInv PROVE ShimTypes /\ ShellTypes
    BY <1>1 DEF IInv, TypeOK, Alone, CtrlCHeard, ShimTypes, ShellTypes
  <1>2. ASSUME ShimTypes, ShellTypes PROVE IInv
    <2>1. /\ decoder.esc \in Seq(Bytes) /\ Len(decoder.esc) < EscMax
          /\ decoder.need \in 0..3 /\ decoder.astral \in BOOLEAN
          /\ decoder.lastWasCr \in BOOLEAN
          /\ decoder.last \in Bytes \cup {"none"} /\ decoder.unended \in Int
      BY <1>2 DEF ShimTypes, Sane, Decoder
    <2>2. Alone /\ CtrlCHeard /\ decoder \in Sane /\ unheard \in Int
      BY <1>2 DEF ShimTypes, Alone, CtrlCHeard
    <2>3. TypeOK
      BY <1>2, <2>1, <2>2 DEF ShimTypes, ShellTypes, TypeOK
    <2>. QED  BY <2>2, <2>3 DEF IInv
  <1>. QED  BY <1>1, <1>2

LEMMA HalvesNext == ShimTypes' /\ ShellTypes' => IInv'
  BY Halves, PTL

\* What is left of the line after one key has been read is still a rest of it.
LEMMA RestsShrink ==
  ASSUME NEW ks \in Rests, ks # <<>>
  PROVE  Tail(ks) \in Rests
  <1>1. Tail(<<"e", "t", "CR">>) = <<"t", "CR">>
    OBVIOUS
  <1>2. Tail(<<"t", "CR">>) = <<"CR">>
    OBVIOUS
  <1>3. Tail(<<"CR">>) = <<>>
    OBVIOUS
  <1>. QED  BY <1>1, <1>2, <1>3 DEF Rests, ExitLine

LEMMA SuffixByElements ==
  ASSUME NEW T, NEW s \in Seq(T), NEW t \in Seq(T), Len(s) <= Len(t),
         \A i \in 1..Len(s) : s[i] = t[Len(t) - Len(s) + i]
  PROVE  IsSuffix(s, t)
  <1>0. Len(s) \in Nat /\ Len(t) \in Nat
    OBVIOUS
  <1>1. /\ Reverse(s) \in Seq(T) /\ Len(Reverse(s)) = Len(s)
        /\ Reverse(t) \in Seq(T) /\ Len(Reverse(t)) = Len(t)
        /\ \A j \in 1..Len(s) : Reverse(s)[j] = s[(Len(s) - j) + 1]
        /\ \A j \in 1..Len(t) : Reverse(t)[j] = t[(Len(t) - j) + 1]
    BY <1>0 DEF Reverse
  <1>2. ASSUME NEW j \in 1..Len(s) PROVE Reverse(s)[j] = Reverse(t)[j]
    <2>1. (Len(s) - j) + 1 \in 1..Len(s) /\ j \in 1..Len(t)
      BY <1>0
    <2>2. Len(t) - Len(s) + ((Len(s) - j) + 1) = (Len(t) - j) + 1
      BY <1>0
    <2>. QED  BY <1>1, <2>1, <2>2
  <1>3. SubSeq(Reverse(s), 1, Len(s)) = SubSeq(Reverse(t), 1, Len(s))
    BY <1>0, <1>1, <1>2
  <1>. QED  BY <1>1, <1>3 DEF IsSuffix, IsPrefix

LEMMA RestsAreSuffixes ==
  ASSUME NEW ks \in Rests
  PROVE  IsSuffix(ks, ExitLine)
  <1>0. /\ ExitLine \in Seq(Keys) /\ Len(ExitLine) = 3
        /\ ExitLine[1] = "e" /\ ExitLine[2] = "t" /\ ExitLine[3] = "CR"
    BY KeyBytes DEF ExitLine
  <1>1. /\ ks \in Seq(Keys) /\ Len(ks) \in Nat /\ Len(ks) <= 3
        /\ \A i \in 1..Len(ks) : ks[i] = ExitLine[3 - Len(ks) + i]
    <2>1. CASE ks = ExitLine
      <3>1. \A i \in 1..3 : 3 - 3 + i = i
        OBVIOUS
      <3>2. Len(ks) = 3 /\ 3 \in Nat /\ 3 <= 3
        BY <1>0, <2>1
      <3>. QED  BY <1>0, <2>1, <3>1, <3>2
    <2>2. CASE ks = <<"t", "CR">>
      BY <1>0, <2>2, KeyBytes
    <2>3. CASE ks = <<"CR">>
      BY <1>0, <2>3, KeyBytes
    <2>4. CASE ks = <<>>
      BY <2>4
    <2>. QED  BY <2>1, <2>2, <2>3, <2>4 DEF Rests
  <1>. QED  BY ONLY <1>0, <1>1, SuffixByElements

\* The ring after PumpInput's caller: all that was there, or all but the first key.
LEMMA KeysLeft ==
  ASSUME NEW p, PumpedOK(p), NEW ks, ks = p.keys \/ (p.keys # <<>> /\ ks = Tail(p.keys))
  PROVE  ks \in Seq(Keys) /\ Len(ks) < KeyRing /\ (p.n > 0 => ks \in Rests)
  <1>1. p.keys \in Seq(Keys) /\ Len(p.keys) < KeyRing /\ (p.n > 0 => p.keys \in Rests)
    BY DEF PumpedOK
  <1>2. CASE ks = p.keys
    BY <1>1, <1>2
  <1>3. CASE p.keys # <<>> /\ ks = Tail(p.keys)
    <2>1. Tail(p.keys) \in Seq(Keys) /\ Len(Tail(p.keys)) = Len(p.keys) - 1
      BY <1>1, <1>3, HeadTailProperties
    <2>2. Len(ks) < KeyRing
      BY <1>1, <1>3, <2>1, InputAssumption
    <2>. QED  BY <1>1, <1>3, <2>1, <2>2, RestsShrink
  <1>. QED  BY <1>2, <1>3

LEMMA PumpKeeps ==
  ASSUME IInv, NEW p, PumpedOK(p), NEW ks, PumpInput(p, ks),
         ks = p.keys \/ (p.keys # <<>> /\ ks = Tail(p.keys))
  PROVE  ShimTypes'
  <1>1. ks \in Seq(Keys) /\ Len(ks) < KeyRing /\ (p.n > 0 => ks \in Rests)
    BY KeysLeft
  <1>2. ShimTypes
    BY Halves
  <1>3. wire' \in Seq(TypedBytes) /\ Len(wire') <= typed'
    <2>1. /\ wire \in Seq(TypedBytes) /\ Len(wire) <= typed /\ typed \in Nat
          /\ typed' = typed /\ wire' \in {wire, <<>>}
      BY <1>2 DEF ShimTypes, PumpInput, PumpedOK
    <2>2. CASE wire' = wire
      BY <2>1, <2>2
    <2>3. CASE wire' = <<>>
      <3>1. <<>> \in Seq(TypedBytes) /\ Len(<<>>) = 0
        OBVIOUS
      <3>. QED  BY <2>1, <2>3, <3>1
    <2>. QED  BY <2>1, <2>2, <2>3
  <1>4. /\ decoder' \in Sane /\ decoder'.out = <<>> /\ keys' = ks /\ exitInjects' = p.n
        /\ p.n \in 0..MaxInjects /\ unheard' = 0 /\ disconnected' = p.disconnected
        /\ disconnected' \in BOOLEAN /\ breakDue' \in BOOLEAN
        /\ p.n > 0 => p.disconnected
    BY DEF PumpInput, PumpedOK
  <1>5. /\ typed' \in 0..MaxTyped /\ gone' \in BOOLEAN
        /\ notify' \in [1..MaxNotify -> Forms \cup {"free"}]
    BY <1>2 DEF ShimTypes, PumpInput
  <1>. QED  BY ONLY <1>1, <1>3, <1>4, <1>5 DEF ShimTypes

LEMMA InitInv == Init => IInv
  <1>. SUFFICES ASSUME Init PROVE IInv
    OBVIOUS
  <1>1. NewDecoder \in Sane /\ NewDecoder.out = <<>>
    <2>1. NewDecoder \in Decoder /\ <<>> \in Seq(Bytes) /\ Len(<<>>) = 0
      BY DEF NewDecoder, Decoder
    <2>. QED  BY <2>1, EscMaxAssumption DEF NewDecoder, Sane, Paired
  <1>0. /\ MaxTyped \in Nat /\ MaxInjects \in Nat /\ MaxEaten \in Nat
        /\ KeyRing \in Nat /\ KeyRing > 0
    BY InputAssumption, ExitLineTyped
  <1>2. /\ <<>> \in Seq(TypedBytes) /\ <<>> \in Seq(Keys) /\ <<>> \in Seq(Keys \cup {"other"})
        /\ Len(<<>>) = 0
    OBVIOUS
  <1>3. notify \in [1..MaxNotify -> Forms \cup {"free"}]
    BY DEF Init
  <1>4. 0 \in 0..MaxTyped /\ 0 \in 0..MaxInjects /\ 0 \in 0..MaxEaten
    BY <1>0
  <1>5. ShimTypes
    <2>1. /\ typed = 0 /\ wire = <<>> /\ gone = FALSE /\ disconnected = FALSE
          /\ breakDue = FALSE /\ decoder = NewDecoder /\ keys = <<>>
          /\ exitInjects = 0 /\ unheard = 0
      BY DEF Init
    <2>2. typed \in 0..MaxTyped /\ wire \in Seq(TypedBytes) /\ Len(wire) <= typed
      BY ONLY <1>2, <1>4, <2>1
    <2>3. decoder \in Sane /\ decoder.out = <<>>
      BY ONLY <1>1, <2>1
    <2>4. keys \in Seq(Keys) /\ Len(keys) < KeyRing /\ exitInjects \in 0..MaxInjects
      BY ONLY <1>0, <1>2, <1>4, <2>1
    <2>5. ~(exitInjects > 0)
      BY <2>1
    <2>. QED  BY ONLY <1>3, <2>1, <2>2, <2>3, <2>4, <2>5 DEF ShimTypes
  <1>6. ShellTypes
    BY <1>2, <1>4 DEF Init, ShellTypes
  <1>. QED  BY <1>5, <1>6, Halves

LEMMA ExtendedLine ==
  ASSUME ShellTypes, NEW k \in Keys
  PROVE  Extended(k) \in Seq(Keys \cup {"other"})
  <1>1. /\ line \in Seq(Keys \cup {"other"}) /\ <<"other">> \in Seq(Keys \cup {"other"})
        /\ Append(line, k) \in Seq(Keys \cup {"other"})
    BY DEF ShellTypes
  <1>. QED  BY <1>1 DEF Extended

LEMMA GatherKeeps ==
  ASSUME ShellTypes, NEW k \in Keys, Gather(k)
  PROVE  /\ line' \in Seq(Keys \cup {"other"})
         /\ shell' \in {"prompt", "command", "exited"}
  <1>1. CASE k # "CR" /\ line' = Extended(k) /\ UNCHANGED shell
    <2>1. Extended(k) \in Seq(Keys \cup {"other"})
      BY ExtendedLine
    <2>. QED  BY <1>1, <2>1 DEF ShellTypes
  <1>2. CASE /\ k = "CR" /\ line' = <<>>
             /\ shell' = CASE line = Front(ExitLine) -> "exited"
                           [] line = <<>> -> "prompt"
                           [] OTHER -> "command"
    <2>1. <<>> \in Seq(Keys \cup {"other"})
      OBVIOUS
    <2>. QED  BY <1>2, <2>1
  <1>. QED  BY <1>1, <1>2 DEF Gather

LEMMA WaitKeyNotifyInv ==
  ASSUME IInv, NEW full \in BOOLEAN, NEW late \in BOOLEAN, WaitKeyNotify(full, late)
  PROVE  IInv'
  <1>. DEFINE p == Pumped(full, late)
  <1>1. PumpedOK(p)
    BY PumpedIsOK
  <1>2. /\ PumpInput(p, p.keys)
        /\ signalled' = (p.keys # <<>> \/ (p.disconnected /\ local = "pressed"))
        /\ UNCHANGED <<shell, line, eaten, local>>
    BY DEF WaitKeyNotify
  <1>. HIDE DEF p
  <1>3. ShimTypes'
    BY <1>1, <1>2, PumpKeeps
  <1>4. ShellTypes'
    <2>1. signalled' \in BOOLEAN
      BY ONLY <1>1, <1>2 DEF PumpedOK
    <2>2. ShellTypes
      BY Halves
    <2>. QED  BY ONLY <1>2, <2>1, <2>2 DEF ShellTypes
  <1>. QED  BY <1>3, <1>4, HalvesNext

LEMMA LocalReadKeeps ==
  ASSUME ShellTypes, NEW p, LocalRead(p)
  PROVE  local' \in {"none", "pressed", "read"}
  BY DEF ShellTypes, LocalRead

LEMMA ReadKeyInv ==
  ASSUME IInv, NEW full \in BOOLEAN, NEW late \in BOOLEAN, ReadKey(full, late)
  PROVE  IInv'
  <1>. DEFINE p == Pumped(full, late)
  <1>1. PumpedOK(p)
    BY PumpedIsOK
  <1>2. /\ signalled' = FALSE /\ UNCHANGED eaten
        /\ \/ /\ p.keys # <<>>
              /\ PumpInput(p, Tail(p.keys))
              /\ Gather(Head(p.keys))
              /\ UNCHANGED local
           \/ /\ p.keys = <<>>
              /\ PumpInput(p, p.keys)
              /\ LocalRead(p)
              /\ UNCHANGED <<shell, line>>
    BY DEF ReadKey
  <1>. HIDE DEF p
  <1>3. ShellTypes /\ p.keys \in Seq(Keys)
    BY <1>1, Halves DEF PumpedOK
  <1>4. CASE p.keys # <<>> /\ PumpInput(p, Tail(p.keys)) /\ Gather(Head(p.keys))
             /\ UNCHANGED local
    <2>1. ShimTypes'
      BY <1>1, <1>4, PumpKeeps
    <2>2. Head(p.keys) \in Keys
      BY ONLY <1>3, <1>4, HeadTailProperties
    <2>3. /\ line' \in Seq(Keys \cup {"other"})
          /\ shell' \in {"prompt", "command", "exited"}
      BY ONLY <1>3, <1>4, <2>2, GatherKeeps
    <2>4. ShellTypes'
      BY ONLY <1>2, <1>3, <1>4, <2>3 DEF ShellTypes
    <2>. QED  BY <2>1, <2>4, HalvesNext
  <1>5. CASE PumpInput(p, p.keys) /\ LocalRead(p) /\ UNCHANGED <<shell, line>>
    <2>1. ShimTypes'
      BY <1>1, <1>5, PumpKeeps
    <2>2. local' \in {"none", "pressed", "read"}
      BY ONLY <1>3, <1>5, LocalReadKeeps
    <2>3. ShellTypes'
      BY ONLY <1>2, <1>3, <1>5, <2>2 DEF ShellTypes
    <2>. QED  BY <2>1, <2>3, HalvesNext
  <1>. QED  BY <1>2, <1>4, <1>5

LEMMA CommandReadsKeyInv ==
  ASSUME IInv, NEW full \in BOOLEAN, NEW late \in BOOLEAN, CommandReadsKey(full, late)
  PROVE  IInv'
  <1>. DEFINE p == Pumped(full, late)
  <1>1. PumpedOK(p)
    BY PumpedIsOK
  <1>2. /\ UNCHANGED <<signalled, shell, line>>
        /\ \/ /\ p.keys # <<>>
              /\ PumpInput(p, Tail(p.keys))
              /\ eaten' = IF eaten < MaxEaten THEN eaten + 1 ELSE eaten
              /\ UNCHANGED local
           \/ /\ p.keys = <<>>
              /\ PumpInput(p, p.keys)
              /\ LocalRead(p)
              /\ UNCHANGED eaten
    BY DEF CommandReadsKey
  <1>. HIDE DEF p
  <1>3. ShellTypes
    BY Halves
  <1>4. ShimTypes'
    BY <1>1, <1>2, PumpKeeps
  <1>5. eaten' \in 0..MaxEaten
    BY ONLY <1>2, <1>3, InputAssumption DEF ShellTypes
  <1>6. local' \in {"none", "pressed", "read"}
    <2>1. CASE UNCHANGED local
      BY ONLY <1>3, <2>1 DEF ShellTypes
    <2>2. CASE LocalRead(p)
      BY ONLY <1>3, <2>2, LocalReadKeeps
    <2>. QED  BY <1>2, <2>1, <2>2
  <1>7. ShellTypes'
    BY ONLY <1>2, <1>3, <1>5, <1>6 DEF ShellTypes
  <1>. QED  BY <1>4, <1>7, HalvesNext

\* A step that leaves the shim, its wire and the notifications alone.
LEMMA ShimStays ==
  ASSUME ShimTypes, UNCHANGED <<typed, wire, gone, shim, notify>>
  PROVE  ShimTypes'
  BY DEF ShimTypes, shim

LEMMA ShellStays ==
  ASSUME ShellTypes, UNCHANGED <<signalled, shell, line, eaten, local>>
  PROVE  ShellTypes'
  BY DEF ShellTypes

LEMMA CommandEndsInv ==
  ASSUME IInv, CommandEnds
  PROVE  IInv'
  <1>1. ShimTypes'
    BY Halves, ShimStays DEF CommandEnds
  <1>2. ShellTypes'
    BY Halves DEF CommandEnds, ShellTypes
  <1>. QED  BY <1>1, <1>2, HalvesNext

LEMMA InResetInv ==
  ASSUME IInv, InReset
  PROVE  IInv'
  <1>1. ShimTypes /\ ShellTypes
    BY Halves
  <1>2. ResetDecoder(decoder) \in Sane /\ ResetDecoder(decoder).out = <<>>
    <2>. DEFINE x == ResetDecoder(decoder)
    <2>1. decoder \in Sane /\ decoder \in Decoder /\ decoder.out = <<>>
      BY <1>1 DEF ShimTypes, Sane
    <2>2. <<>> \in Seq(Bytes) /\ Len(<<>>) < EscMax /\ 0 \in 0..3
      BY EscMaxAssumption
    <2>3. /\ x \in Decoder /\ x.out = <<>> /\ x.esc = <<>>
          /\ x.unended = decoder.unended /\ x.last = decoder.last /\ x.lastWasCr = decoder.lastWasCr
      BY <2>1, <2>2 DEF ResetDecoder, Decoder
    <2>. HIDE DEF x
    <2>4. x \in Sane
      BY <2>1, <2>2, <2>3 DEF Sane, Paired
    <2>. QED  BY <2>3, <2>4 DEF x
  <1>3. ShimTypes'
    <2>1. <<>> \in Seq(Keys) /\ Len(<<>>) < KeyRing /\ <<>> \in Rests
      BY ExitLineTyped, InputAssumption DEF Rests
    <2>. QED  BY <1>1, <1>2, <2>1 DEF InReset, ShimTypes
  <1>4. ShellTypes'
    <2>1. eaten' \in 0..MaxEaten
      BY <1>1, InputAssumption DEF InReset, ShellTypes
    <2>. QED  BY <1>1, <2>1 DEF InReset, ShellTypes
  <1>. QED  BY <1>3, <1>4, HalvesNext

LEMMA RegisterNotifyInv ==
  ASSUME IInv, NEW k \in Forms, RegisterNotify(k)
  PROVE  IInv'
  <1>1. ShimTypes /\ ShellTypes
    BY Halves
  <1>2. PICK i \in DOMAIN notify : notify' = [notify EXCEPT ![i] = k]
    BY DEF RegisterNotify
  <1>3. notify' \in [1..MaxNotify -> Forms \cup {"free"}]
    BY <1>1, <1>2 DEF ShimTypes
  <1>4. ShimTypes'
    BY <1>1, <1>3 DEF RegisterNotify, ShimTypes, shim
  <1>5. ShellTypes'
    BY <1>1, ShellStays DEF RegisterNotify
  <1>. QED  BY <1>4, <1>5, HalvesNext

LEMMA UnregisterNotifyInv ==
  ASSUME IInv, NEW i \in DOMAIN notify, UnregisterNotify(i)
  PROVE  IInv'
  <1>1. ShimTypes /\ ShellTypes
    BY Halves
  <1>2. notify' \in [1..MaxNotify -> Forms \cup {"free"}]
    BY <1>1 DEF ShimTypes, UnregisterNotify
  <1>3. ShimTypes'
    BY <1>1, <1>2 DEF UnregisterNotify, ShimTypes, shim
  <1>4. ShellTypes'
    BY <1>1, ShellStays DEF UnregisterNotify
  <1>. QED  BY <1>3, <1>4, HalvesNext

LEMMA OutputFailsInv ==
  ASSUME IInv, OutputFails
  PROVE  IInv'
  <1>1. ShimTypes /\ ShellTypes
    BY Halves
  <1>2. ShimTypes'
    BY <1>1 DEF OutputFails, ShimTypes
  <1>3. ShellTypes'
    BY <1>1, ShellStays DEF OutputFails
  <1>. QED  BY <1>2, <1>3, HalvesNext

LEMMA ClientTypesInv ==
  ASSUME IInv, NEW b \in TypedBytes, ClientTypes(b)
  PROVE  IInv'
  <1>1. ShimTypes /\ ShellTypes
    BY Halves
  <1>2. wire' \in Seq(TypedBytes) /\ Len(wire') <= typed' /\ typed' \in 0..MaxTyped
    <2>1. /\ wire \in Seq(TypedBytes) /\ Len(wire) \in Nat /\ Len(wire) <= typed
          /\ typed \in 0..MaxTyped /\ typed < MaxTyped /\ typed' = typed + 1
          /\ wire' = Append(wire, b) /\ MaxTyped \in Nat
      BY <1>1, InputAssumption DEF ShimTypes, ClientTypes
    <2>2. wire' \in Seq(TypedBytes) /\ Len(wire') = Len(wire) + 1
      BY <2>1
    <2>. QED  BY <2>1, <2>2
  <1>3. ShimTypes'
    BY <1>1, <1>2 DEF ClientTypes, ShimTypes, shim
  <1>4. ShellTypes'
    BY <1>1, ShellStays DEF ClientTypes
  <1>. QED  BY <1>3, <1>4, HalvesNext

LEMMA ClientVanishesInv ==
  ASSUME IInv, ClientVanishes
  PROVE  IInv'
  <1>1. ShimTypes /\ ShellTypes
    BY Halves
  <1>2. ShimTypes'
    BY <1>1 DEF ClientVanishes, ShimTypes, shim
  <1>3. ShellTypes'
    BY <1>1, ShellStays DEF ClientVanishes
  <1>. QED  BY <1>2, <1>3, HalvesNext

LEMMA LocalKeyPressedInv ==
  ASSUME IInv, LocalKeyPressed
  PROVE  IInv'
  <1>1. ShimTypes'
    BY Halves, ShimStays DEF LocalKeyPressed
  <1>2. ShellTypes'
    BY Halves DEF LocalKeyPressed, ShellTypes
  <1>. QED  BY <1>1, <1>2, HalvesNext

LEMMA NextInv == IInv /\ [Next]_vars => IInv'
  <1>. SUFFICES ASSUME IInv, [Next]_vars PROVE IInv'
    OBVIOUS
  <1>1. ASSUME NEW full \in BOOLEAN, NEW late \in BOOLEAN, WaitKeyNotify(full, late)
        PROVE  IInv'
    BY <1>1, WaitKeyNotifyInv
  <1>2. ASSUME NEW full \in BOOLEAN, NEW late \in BOOLEAN, ReadKey(full, late)
        PROVE  IInv'
    BY <1>2, ReadKeyInv
  <1>3. ASSUME NEW full \in BOOLEAN, NEW late \in BOOLEAN, CommandReadsKey(full, late)
        PROVE  IInv'
    BY <1>3, CommandReadsKeyInv
  <1>4. CASE CommandEnds
    BY <1>4, CommandEndsInv
  <1>5. CASE InReset
    BY <1>5, InResetInv
  <1>6. ASSUME NEW k \in Forms, RegisterNotify(k) PROVE IInv'
    BY <1>6, RegisterNotifyInv
  <1>7. ASSUME NEW i \in DOMAIN notify, UnregisterNotify(i) PROVE IInv'
    BY <1>7, UnregisterNotifyInv
  <1>8. CASE OutputFails
    BY <1>8, OutputFailsInv
  <1>9. ASSUME NEW b \in TypedBytes, ClientTypes(b) PROVE IInv'
    BY <1>9, ClientTypesInv
  <1>10. CASE ClientVanishes
    BY <1>10, ClientVanishesInv
  <1>11. CASE LocalKeyPressed
    BY <1>11, LocalKeyPressedInv
  <1>12. CASE UNCHANGED vars
    <2>1. ShimTypes'
      BY <1>12, Halves, ShimStays DEF vars
    <2>2. ShellTypes'
      BY <1>12, Halves, ShellStays DEF vars
    <2>. QED  BY <2>1, <2>2, HalvesNext
  <1>. QED
    BY <1>1, <1>2, <1>3, <1>4, <1>5, <1>6, <1>7, <1>8, <1>9, <1>10, <1>11, <1>12 DEF Next
-----------------------------------------------------------------------------
(* The theorems *)

LEMMA Inductive == Spec => []IInv
  BY InitInv, NextInv, PTL DEF Spec

\* Type correctness: the ring never fills its last slot, an escape sequence never
\* outgrows its buffer whatever bytes arrive, and InjectExit stops at its limit.
THEOREM InputTypeTheorem == Spec => []TypeOK
  <1>1. IInv => TypeOK
    BY DEF IInv
  <1>. QED  BY <1>1, Inductive, PTL

\* FeedByte ends each line of characters once: a line feed is swallowed exactly when
\* the last character before it was a carriage return, whatever resets and timeouts
\* of an open escape, and however many escapes and UTF-8 sequences, come between.
THEOREM LineEndsTheorem == Spec => []LineEndsKept
  <1>1. IInv => LineEndsKept
    BY DEF IInv, Sane, Paired, LineEndsKept
  <1>. QED  BY <1>1, Inductive, PTL

\* PushKey and PushKeyData notify before they look at the ring: no Ctrl-C typed for
\* a registered handler is missed, in a ring of any size and however full it is.
THEOREM CtrlCTheorem == Spec => []CtrlCHeard
  <1>1. IInv => CtrlCHeard
    BY DEF IInv
  <1>. QED  BY <1>1, Inductive, PTL

\* InjectExit types its line only into an empty ring and only once nothing more is
\* read from the client: what the ring holds from then on is a rest of that line.
THEOREM ExitLineTheorem == Spec => []ExitLineIntact
  <1>1. IInv => ExitLineIntact
    BY RestsAreSuffixes DEF IInv, Alone, ExitLineIntact
  <1>. QED  BY <1>1, Inductive, PTL
=============================================================================
