--------------------------- MODULE Server_proofs ---------------------------
(***************************************************************************)
(* Proofs about Server.tla, for every set of handles, buffer and chunk     *)
(* size, limit and list of candidates.                                     *)
(*                                                                         *)
(* The inductive invariant IInv adds to the properties where the main loop *)
(* can be while a call of net.c waits (Control), whose a session's things  *)
(* are (Owned) and which events and tokens a connection may have (Wired).  *)
(* The last part proves that the server keeps its promise, Service.tla.    *)
(***************************************************************************)
EXTENDS Server, SequenceTheorems, TLAPS

USE TcpAssumption, ServerAssumption

----------------------------------------------------------------------------
\* The inductive invariant.

InSession == pc \in {"login", "install", "shell", "removing", "message", "closing"}
HasConsole == pc \in {"shell", "removing"}

\* Where a call of net.c may wait, by where EfiMain is.
Control ==
    /\ pc = "start" => at = "idle" /\ ret = "none" /\ listen = None
    /\ pc = "listen" => at \in {"idle", "configuring"}
    /\ pc \in {"loop", "stopped"} => at = "idle"
    /\ pc = "accept" => at \in {"idle", "accepting", "aborting", "closing", "destroying"}
    /\ InSession => at \in {"idle", "writing", "cancelling"}
    /\ pc = "disconnect" => at \in {"idle", "cancelRx", "closing", "destroying"}
    /\ pc = "accept" /\ at \in {"closing", "destroying"} => ret = "error"
    /\ ret = "aborted" => pc \in {"accept", "stopped"} /\ at = "idle"
    /\ pc # "stopped" => failures < MaxFailures
    /\ running => cand <= Len(Candidates)

\* When there are a connection, an SSH connection and the shim.
Owned ==
    /\ conn.Tcp => \/ InSession \/ at \in {"cancelRx", "closing", "destroying"}
                   \/ pc = "accept" /\ at = "idle" /\ ret = "ok"
    /\ InSession \/ (pc = "accept" /\ at = "idle" /\ ret = "ok") => conn.Tcp
    /\ ssh # "none" <=> InSession
    /\ shim.Protocols <=> HasConsole
    /\ IF HasConsole THEN WaitEvents \subseteq events /\ shim.Old = Local
       ELSE WaitEvents \cap events = {} /\ table = Local
    /\ crc = table

\* Events, tokens and the connection.
Wired ==
    /\ "accept" \in events => at \in {"accepting", "aborting"}
    /\ "tx" \in events => at \in {"writing", "cancelling"}
    /\ "close" \in events => at = "closing"
    /\ "rx" \in events => conn.Tcp /\ at # "destroying"
    /\ conn.Tcp /\ at \notin {"closing", "destroying"} => "rx" \in events
    /\ at \in {"cancelRx", "closing", "destroying"} => conn.Tcp
    /\ at \in {"closing", "destroying"} => ~conn.RxPosted
    /\ conn.Tcp <=> conn.Handle # None
    /\ conn.RxPosted => conn.Tcp /\ conn.RxAvail = 0
    /\ ~conn.Tcp => tok["rx"] = "free" /\ tok["tx"] = "free" /\ tok["close"] = "free"
    /\ tok["rx"] = "held" => conn.RxAvail = 0
    /\ at \in {"writing", "cancelling"} => left <= asked

\* The accept token and the children.
Accounted ==
    /\ tok["accept"] # "free" => at \in {"accepting", "aborting"} \/ (ret = "aborted" /\ pc = "accept")
    /\ tok["accept"] = "done" => newChild \in Handles
    /\ children \subseteq {listen, conn.Handle}
          \cup (IF tok["accept"] = "done" \/ (ret = "aborted" /\ tok["accept"] = "free")
                  THEN {newChild} ELSE {})

IInv == TypeOK /\ Control /\ Owned /\ Wired /\ Accounted /\ NoDanglingToken

----------------------------------------------------------------------------
\* The pieces of net.c that several actions share, by what they leave behind.

Toks == [Tokens -> {"free", "held", "done", "failed"}]

\* What DestroyChild leaves: no connection and none of its tokens.
Gone ==
    /\ at' = "idle" /\ conn' \in NetConn
    /\ conn'.Tcp = FALSE /\ conn'.Handle = None /\ conn'.RxPosted = FALSE /\ conn'.RxAvail = 0
    /\ events' = events /\ children' = children \ {conn.Handle}
    /\ tok' \in Toks /\ tok'["accept"] = tok["accept"]
    /\ tok'["rx"] = "free" /\ tok'["tx"] = "free" /\ tok'["close"] = "free"
    /\ stuck' = stuck \ {"rx", "tx"}
    /\ chunk' = <<>> /\ handed' = 0 /\ asked' = 0 /\ got' = <<>> /\ out' = <<>>

\* What a step of NetCloseConn before it leaves: the wait for Close, or its end.
Parting ==
    /\ at' \in {"closing", "destroying"} /\ conn' \in NetConn
    /\ conn'.Tcp = conn.Tcp /\ conn'.Handle = conn.Handle /\ conn'.RxPosted = FALSE
    /\ conn'.RxAvail = conn.RxAvail /\ conn'.RxOff = conn.RxOff /\ conn'.RxBuf = conn.RxBuf
    /\ events' = IF at' = "closing" THEN events \cup {"close"} ELSE events \ {"rx", "close"}
    /\ tok' \in Toks /\ tok'["accept"] = tok["accept"] /\ tok'["tx"] = tok["tx"]
    /\ tok'["rx"] \in {"free", tok["rx"]}
    /\ tok'["rx"] = "held" => "rx" \in stuck'
    /\ stuck' \in {stuck, stuck \cup {"rx"}}
    /\ UNCHANGED <<children, stream>>

LEMMA DestroyChildMeans ==
    ASSUME TypeOK, DestroyChild PROVE Gone
<1>1. conn' \in NetConn /\ conn'.Tcp = FALSE /\ conn'.Handle = None
      /\ conn'.RxPosted = FALSE /\ conn'.RxAvail = 0
  <2>1. conn' = [Handle |-> None, Tcp |-> FALSE, RxPosted |-> FALSE, Closed |-> TRUE,
                 RxAvail |-> 0, RxOff |-> 0, RxBuf |-> <<>>]
    BY DEF DestroyChild, NoConn
  <2>2. <<>> \in Seq(Nat)
    OBVIOUS
  <2> QED BY <2>1, <2>2 DEF NetConn
<1>2. /\ tok' \in Toks /\ tok'["accept"] = tok["accept"]
      /\ tok'["rx"] = "free" /\ tok'["tx"] = "free" /\ tok'["close"] = "free"
  BY DEF DestroyChild, TypeOK, DriverTypeOK, Toks, Tokens
<1> QED BY <1>1, <1>2 DEF DestroyChild, Gone

\* The end of NetCloseConn's waits leaves the fields of the connection.
LEMMA EventsClosedMeans ==
    ASSUME TypeOK, EventsClosed
    PROVE  /\ at' = "destroying" /\ events' = events \ {"rx", "close"} /\ conn' \in NetConn
           /\ conn'.Tcp = conn.Tcp /\ conn'.Handle = conn.Handle /\ conn'.RxPosted = FALSE
           /\ conn'.RxAvail = conn.RxAvail /\ conn'.RxOff = conn.RxOff /\ conn'.RxBuf = conn.RxBuf
           /\ UNCHANGED <<children, stream>>
<1>1. conn' = [conn EXCEPT !.RxPosted = FALSE, !.Closed = TRUE] /\ conn \in NetConn
  BY DEF EventsClosed, TypeOK, ConnTypeOK
<1>2. conn' \in NetConn /\ conn'.Tcp = conn.Tcp /\ conn'.Handle = conn.Handle /\ conn'.RxPosted = FALSE
  BY <1>1 DEF NetConn
<1>3. conn'.RxAvail = conn.RxAvail /\ conn'.RxOff = conn.RxOff /\ conn'.RxBuf = conn.RxBuf
  BY <1>1 DEF NetConn
<1> QED BY <1>2, <1>3 DEF EventsClosed

LEMMA CloseStartMeans ==
    ASSUME TypeOK, NEW taken \in BOOLEAN, CloseStart(taken) PROVE Parting
<1>1. stuck' = (IF taken THEN stuck ELSE stuck \cup {"rx"}) /\ tok \in Toks
  BY DEF CloseStart, TypeOK, DriverTypeOK, Toks
<1>2. CASE EventsClosed /\ tok' = [tok EXCEPT !["rx"] = IF taken THEN "free" ELSE @]
  <2>1. tok' \in Toks /\ tok'["accept"] = tok["accept"] /\ tok'["tx"] = tok["tx"]
        /\ tok'["rx"] = IF taken THEN "free" ELSE tok["rx"]
    BY <1>1, <1>2 DEF Toks, Tokens
  <2>2. tok'["rx"] \in {"free", tok["rx"]} /\ (tok'["rx"] = "held" => "rx" \in stuck')
        /\ stuck' \in {stuck, stuck \cup {"rx"}}
    BY <1>1, <2>1
  <2>3. EventsClosed
    BY <1>2
  <2> QED BY <2>1, <2>2, <2>3, EventsClosedMeans DEF Parting
<1>3. CASE /\ at' = "closing"
           /\ tok' = [tok EXCEPT !["close"] = "held", !["rx"] = IF taken THEN "free" ELSE @]
           /\ events' = events \cup {"close"}
           /\ conn' = [conn EXCEPT !.RxPosted = FALSE]
           /\ UNCHANGED <<children, stream>>
  <2>1. tok' \in Toks /\ tok'["accept"] = tok["accept"] /\ tok'["tx"] = tok["tx"]
        /\ tok'["rx"] = IF taken THEN "free" ELSE tok["rx"]
    BY <1>1, <1>3 DEF Toks, Tokens
  <2>2. /\ conn' \in NetConn
        /\ conn'.Tcp = conn.Tcp /\ conn'.Handle = conn.Handle /\ conn'.RxPosted = FALSE
        /\ conn'.RxAvail = conn.RxAvail /\ conn'.RxOff = conn.RxOff /\ conn'.RxBuf = conn.RxBuf
    BY <1>3 DEF TypeOK, ConnTypeOK, NetConn
  <2> QED BY <1>1, <1>3, <2>1, <2>2 DEF Parting
<1> QED BY <1>2, <1>3 DEF CloseStart

\* A receive token the driver still holds is one whose Cancel it has ignored.
LEMMA CloseEndsMeans ==
    ASSUME TypeOK, Wired, NoDanglingToken, CloseEnds PROVE Parting
<1>1. /\ at = "closing" /\ EventsClosed /\ stuck' = stuck /\ tok \in Toks
      /\ tok' = [tok EXCEPT !["close"] = IF @ = "held" THEN @ ELSE "free"]
  BY DEF CloseEnds, TypeOK, DriverTypeOK, Toks
<1>2. tok' \in Toks /\ tok'["accept"] = tok["accept"] /\ tok'["tx"] = tok["tx"] /\ tok'["rx"] = tok["rx"]
  BY <1>1 DEF Toks, Tokens
<1>3. tok["rx"] = "held" => "rx" \in stuck
  BY <1>1 DEF Wired, NoDanglingToken, InUse, Tokens
<1> QED BY <1>1, <1>2, <1>3, EventsClosedMeans DEF Parting

\* What a read leaves.
ReadStep ==
    /\ conn' \in NetConn /\ conn'.Tcp = conn.Tcp /\ conn'.Handle = conn.Handle
    /\ conn'.RxOff + conn'.RxAvail <= Len(conn'.RxBuf) \/ conn'.RxAvail = 0
    /\ conn'.RxPosted => conn'.RxAvail = 0
    /\ tok' \in Toks /\ \A k \in Tokens \ {"rx"} : tok'[k] = tok[k]
    /\ tok'["rx"] = "held" => conn'.RxAvail = 0 /\
         (conn'.RxPosted \/ (tok["rx"] = "held" /\ ~conn.RxPosted))
    /\ got' \in Seq(Nat) /\ ret' \in {"none", "lost", "data"}

LEMMA TakenMeans ==
    ASSUME TypeOK, NEW max \in Nat, NEW c \in NetConn, Taken(c, max),
           c.RxOff + c.RxAvail <= Len(c.RxBuf) \/ c.RxAvail = 0
    PROVE  /\ conn' \in NetConn /\ conn'.Tcp = c.Tcp /\ conn'.Handle = c.Handle
           /\ conn'.RxPosted = c.RxPosted /\ conn'.Closed = c.Closed
           /\ conn'.RxOff + conn'.RxAvail <= Len(conn'.RxBuf) \/ conn'.RxAvail = 0
           /\ conn'.RxAvail <= c.RxAvail
           /\ got' \in Seq(Nat) /\ ret' \in {"none", "lost", "data"}
<1> DEFINE n == Least(c.RxAvail, max)
<1>1. n \in Nat /\ n <= c.RxAvail
  BY DEF Least, NetConn
<1>2. CASE n = 0
  <2>1. conn' = c /\ got' = got /\ ret' \in {"none", "lost"}
    BY <1>2 DEF Taken
  <2>2. conn'.RxAvail <= c.RxAvail
    BY <2>1 DEF NetConn
  <2> QED BY <2>1, <2>2 DEF TypeOK, StreamTypeOK
<1>3. CASE n # 0
  <2>1. /\ conn' = [c EXCEPT !.RxOff = c.RxOff + n, !.RxAvail = c.RxAvail - n]
        /\ got' = got \o SubSeq(c.RxBuf, c.RxOff + 1, c.RxOff + n) /\ ret' = "data"
    BY <1>3 DEF Taken
  <2>2. c.RxOff + n <= Len(c.RxBuf) /\ c.RxOff \in Nat /\ c.RxAvail \in Nat /\ c.RxBuf \in Seq(Nat)
    BY <1>1, <1>3 DEF NetConn
  <2>3. SubSeq(c.RxBuf, c.RxOff + 1, c.RxOff + n) \in Seq(Nat)
    <3> HIDE DEF n
    <3>1. ASSUME NEW i \in (c.RxOff + 1)..(c.RxOff + n) PROVE c.RxBuf[i] \in Nat
      <4>1. i \in 1..Len(c.RxBuf)
        BY <2>2, <1>1
      <4> DEFINE b == c.RxBuf
      <4>2. b \in Seq(Nat) /\ i \in 1..Len(b)
        BY <2>2, <4>1
      <4> HIDE DEF b
      <4>3. b[i] \in Nat
        BY <4>2
      <4> QED BY <4>3 DEF b
    <3> QED BY <3>1, <2>2, <1>1, SubSeqProperties
  <2>4. got' \in Seq(Nat)
    BY <2>1, <2>3, ConcatProperties DEF TypeOK, StreamTypeOK
  <2> HIDE DEF n
  <2>5. c.RxOff + n \in Nat /\ c.RxAvail - n \in Nat
    BY <2>2, <1>1
  <2>6. conn' \in NetConn /\ conn'.RxOff = c.RxOff + n /\ conn'.RxAvail = c.RxAvail - n
        /\ conn'.RxBuf = c.RxBuf /\ conn'.Tcp = c.Tcp /\ conn'.Handle = c.Handle
        /\ conn'.RxPosted = c.RxPosted /\ conn'.Closed = c.Closed
    <3>1. conn' \in NetConn
      BY <2>1, <2>5 DEF NetConn
    <3>2. conn'.RxOff = c.RxOff + n /\ conn'.RxAvail = c.RxAvail - n /\ conn'.RxBuf = c.RxBuf
      BY <2>1 DEF NetConn
    <3>3. conn'.Tcp = c.Tcp /\ conn'.Handle = c.Handle
      BY <2>1 DEF NetConn
    <3>4. conn'.RxPosted = c.RxPosted /\ conn'.Closed = c.Closed
      BY <2>1 DEF NetConn
    <3> QED BY <3>1, <3>2, <3>3, <3>4
  <2>7. conn'.RxOff + conn'.RxAvail <= Len(conn'.RxBuf) /\ conn'.RxAvail <= c.RxAvail
    <3> DEFINE a == c.RxAvail  r == c.RxOff
    <3>1. n \in Nat /\ a \in Nat /\ r \in Nat /\ n <= a /\ a # 0
      BY <2>2, <1>1, <1>3
    <3>2. r + a <= Len(c.RxBuf) /\ conn'.RxOff = r + n /\ conn'.RxAvail = a - n
          /\ Len(conn'.RxBuf) = Len(c.RxBuf)
      BY <2>6, <3>1
    <3> HIDE DEF a, r, n
    <3>3. (r + n) + (a - n) = r + a /\ a - n <= a
      BY <3>1
    <3> QED BY <3>2, <3>3 DEF a
  <2> QED BY <2>1, <2>4, <2>6, <2>7
<1> QED BY <1>2, <1>3

LEMMA ReadMeans ==
    ASSUME TypeOK, Wired, NEW max \in Nat, NetRead(max) PROVE ReadStep
<1>1. CASE /\ conn.RxAvail > 0 \/ IF conn.RxPosted THEN tok["rx"] = "held" ELSE conn.Closed
           /\ Taken(conn, max) /\ UNCHANGED tok
  BY <1>1, TakenMeans DEF ReadStep, TypeOK, DriverTypeOK, ConnTypeOK, Wired, Toks, NetConn
<1>2. CASE conn.RxAvail = 0 /\ Taken([conn EXCEPT !.RxPosted = TRUE], max) /\ tok' = [tok EXCEPT !["rx"] = "held"]
  <2> DEFINE c == [conn EXCEPT !.RxPosted = TRUE]
  <2>1. c \in NetConn /\ c.Tcp = conn.Tcp /\ c.Handle = conn.Handle /\ c.RxPosted = TRUE
        /\ c.RxAvail = 0
    BY <1>2 DEF TypeOK, ConnTypeOK, NetConn
  <2>2. tok' \in Toks /\ \A k \in Tokens \ {"rx"} : tok'[k] = tok[k]
    BY <1>2 DEF TypeOK, DriverTypeOK, Toks, Tokens
  <2> HIDE DEF c
  <2> QED BY <1>2, <2>1, <2>2, TakenMeans DEF ReadStep, NetConn, c
<1>3. CASE conn.RxAvail = 0 /\ Taken([conn EXCEPT !.Closed = TRUE], max) /\ UNCHANGED tok
  <2> DEFINE c == [conn EXCEPT !.Closed = TRUE]
  <2>1. c \in NetConn /\ c.Tcp = conn.Tcp /\ c.Handle = conn.Handle
        /\ c.RxPosted = conn.RxPosted /\ c.RxAvail = 0
    BY <1>3 DEF TypeOK, ConnTypeOK, NetConn
  <2> HIDE DEF c
  <2>2. /\ conn' \in NetConn /\ conn'.Tcp = c.Tcp /\ conn'.Handle = c.Handle
        /\ conn'.RxPosted = c.RxPosted /\ conn'.RxAvail <= c.RxAvail
        /\ got' \in Seq(Nat) /\ ret' \in {"none", "lost", "data"}
    BY <1>3, <2>1, TakenMeans DEF c
  <2>3. conn'.RxAvail = 0
    BY <2>1, <2>2 DEF NetConn
  <2> QED BY <1>3, <2>1, <2>2, <2>3 DEF ReadStep, TypeOK, DriverTypeOK, Toks
<1>4. CASE conn.RxAvail = 0 /\ Taken(Filled, max) /\ tok' = [tok EXCEPT !["rx"] = "free"]
  <2>1. /\ Filled \in NetConn /\ Filled.Tcp = conn.Tcp /\ Filled.Handle = conn.Handle
        /\ Filled.RxPosted = FALSE /\ Filled.RxOff = 0 /\ Filled.RxAvail = Len(Filled.RxBuf)
    <3>1. Len(conn.RxBuf) \in Nat
      BY DEF TypeOK, ConnTypeOK, NetConn
    <3>2. Filled = [conn EXCEPT !.RxPosted = FALSE, !.RxAvail = Len(conn.RxBuf), !.RxOff = 0]
      BY DEF Filled
    <3>3. Filled \in NetConn
      BY <3>1, <3>2 DEF TypeOK, ConnTypeOK, NetConn
    <3> QED BY <3>2, <3>3 DEF TypeOK, ConnTypeOK, NetConn
  <2>2. tok' \in Toks /\ tok'["rx"] = "free" /\ \A k \in Tokens \ {"rx"} : tok'[k] = tok[k]
    BY <1>4 DEF TypeOK, DriverTypeOK, Toks, Tokens
  <2> QED BY <1>4, <2>1, <2>2, TakenMeans DEF ReadStep, NetConn
<1>5. CASE conn.RxAvail = 0 /\ Taken([conn EXCEPT !.RxPosted = FALSE, !.Closed = TRUE], max)
           /\ tok' = [tok EXCEPT !["rx"] = "free"]
  <2> DEFINE c == [conn EXCEPT !.RxPosted = FALSE, !.Closed = TRUE]
  <2>1. c \in NetConn /\ c.Tcp = conn.Tcp /\ c.Handle = conn.Handle /\ c.RxPosted = FALSE
        /\ c.RxAvail = 0
    BY <1>5 DEF TypeOK, ConnTypeOK, NetConn
  <2>2. tok' \in Toks /\ tok'["rx"] = "free" /\ \A k \in Tokens \ {"rx"} : tok'[k] = tok[k]
    BY <1>5 DEF TypeOK, DriverTypeOK, Toks, Tokens
  <2> HIDE DEF c
  <2> QED BY <1>5, <2>1, <2>2, TakenMeans DEF ReadStep, NetConn, c
<1> QED BY <1>1, <1>2, <1>3, <1>4, <1>5 DEF NetRead

SameConn ==
    /\ conn' \in NetConn /\ conn'.Tcp = conn.Tcp /\ conn'.Handle = conn.Handle
    /\ conn'.RxPosted = conn.RxPosted /\ conn'.RxAvail = conn.RxAvail
    /\ conn'.RxOff = conn.RxOff /\ conn'.RxBuf = conn.RxBuf

\* A write is over, well or badly.
TxOver ==
    /\ at' = "idle" /\ ret' \in {"lost", "ok"} /\ left' \in Nat
    /\ SameConn /\ events' = events \ {"tx"}
    /\ tok' \in Toks /\ \A k \in Tokens \ {"tx"} : tok'[k] = tok[k]
    /\ tok'["tx"] = "held" => "tx" \in stuck' /\ tok["tx"] = "held"
    /\ stuck' \in {stuck, stuck \cup {"tx"}} /\ chunk' = chunk

\* A chunk is on its way.
TxOn ==
    /\ at' = "writing" /\ ret' = ret /\ left' \in Nat /\ left' <= asked'
    /\ SameConn /\ events' = events \cup {"tx"}
    /\ tok' \in Toks /\ \A k \in Tokens \ {"tx"} : tok'[k] = tok[k]
    /\ tok'["tx"] = "held" /\ stuck' = stuck /\ chunk' \in Seq(Nat)

LEMMA BytesTyped ==
    ASSUME NEW a \in Nat \ {0}, NEW b \in Nat, a <= b + 1
    PROVE  /\ Bytes(a, b) \in Seq(Nat) /\ Len(Bytes(a, b)) = b - a + 1
           /\ \A i \in 1..(b - a + 1) : Bytes(a, b)[i] = a + i - 1
<1> DEFINE f == [i \in 1..(b - a + 1) |-> a + i - 1]
<1>1. b - a + 1 \in Nat
  OBVIOUS
<1>2. \A i \in 1..(b - a + 1) : a + i - 1 \in Nat
  OBVIOUS
<1>3. f \in Seq(Nat) /\ Len(f) = b - a + 1
  <2> HIDE DEF f
  <2>1. f \in [1..(b - a + 1) -> Nat]
    BY <1>2 DEF f
  <2> QED BY <2>1, <1>1
<1> QED BY <1>3 DEF Bytes

\* A write that leaves the connection as it was or closed.
LEMMA ClosedOrNot ==
    ASSUME TypeOK, conn' \in {conn, [conn EXCEPT !.Closed = TRUE]} PROVE SameConn
BY DEF TypeOK, ConnTypeOK, NetConn, SameConn

LEMMA NatDifference == ASSUME NEW a \in Nat, NEW b \in Nat, b <= a PROVE a - b \in Nat
OBVIOUS

LEMMA TransmitsMeans ==
    ASSUME TypeOK, NEW n \in Nat \ {0}, asked' \in Nat, n <= asked', Transmits(n), stuck' = stuck
    PROVE  TxOver \/ TxOn
<1>1. CASE /\ Returns("lost") /\ left' = 0
           /\ conn' \in {conn, [conn EXCEPT !.Closed = TRUE]}
           /\ events' = events \ {"tx"} /\ tok' = [tok EXCEPT !["tx"] = "free"]
           /\ UNCHANGED chunk
  <2>1. SameConn
    BY <1>1, ClosedOrNot
  <2>2. tok' \in Toks /\ tok'["tx"] = "free" /\ \A k \in Tokens \ {"tx"} : tok'[k] = tok[k]
    BY <1>1 DEF TypeOK, DriverTypeOK, Toks, Tokens
  <2> QED BY <1>1, <2>1, <2>2 DEF TxOver, Returns
<1>2. CASE /\ Waits("writing") /\ left' = n
           /\ chunk' = Bytes(asked' - n + 1, asked' - n + Least(n, ChunkSize))
           /\ events' = events \cup {"tx"} /\ tok' = [tok EXCEPT !["tx"] = "held"]
           /\ UNCHANGED conn
  <2>1. SameConn
    BY <1>2, ClosedOrNot
  <2>2. tok' \in Toks /\ tok'["tx"] = "held" /\ \A k \in Tokens \ {"tx"} : tok'[k] = tok[k]
    BY <1>2 DEF TypeOK, DriverTypeOK, Toks, Tokens
  <2>3. Least(n, ChunkSize) \in Nat
    BY DEF Least
  <2>4. chunk' \in Seq(Nat)
    <3> DEFINE d == asked' - n  m == Least(n, ChunkSize)
    <3>1. d \in Nat
      BY NatDifference
    <3>2. chunk' = Bytes(d + 1, d + m)
      BY <1>2
    <3>3. m \in Nat
      BY <2>3
    <3> HIDE DEF d, m
    <3>4. d + 1 \in Nat \ {0} /\ d + m \in Nat /\ d + 1 <= d + m + 1
      BY <3>1, <3>3
    <3> QED BY <3>2, <3>4, BytesTyped
  <2> QED BY <1>2, <2>1, <2>2, <2>4 DEF TxOn, Waits
<1> QED BY <1>1, <1>2 DEF Transmits

LEMMA WriteMeans ==
    ASSUME TypeOK, Wired, NoDanglingToken, NEW n \in 1..(MaxOut - asked), NetWrite(n)
    PROVE  (TxOver \/ TxOn) /\ asked' \in Nat
<1>1. asked' \in Nat /\ n \in Nat \ {0} /\ n <= asked'
  BY DEF TypeOK, StreamTypeOK, NetWrite
<1>2. CASE conn.Closed
  <2>1. /\ at = "idle" /\ at' = "idle" /\ ret' = "lost"
        /\ UNCHANGED <<left, conn, events, tok, chunk, stuck>>
    BY <1>2 DEF NetWrite, Returns
  <2>2. SameConn
    BY <2>1, ClosedOrNot
  <2>3. "tx" \notin events /\ (tok["tx"] = "held" => "tx" \in stuck)
    BY <2>1 DEF Wired, NoDanglingToken, InUse, Tokens
  <2> QED BY <1>1, <2>1, <2>2, <2>3 DEF TxOver, TypeOK, CallTypeOK, DriverTypeOK, Toks
<1>3. CASE ~conn.Closed
  BY <1>1, <1>3, TransmitsMeans DEF NetWrite
<1> QED BY <1>2, <1>3

LEMMA TransmittedMeans ==
    ASSUME TypeOK, Wired, Transmitted
    PROVE  (TxOver \/ TxOn) /\ asked' = asked
<1>1. CASE tok["tx"] = "done" /\ left > Len(chunk) /\ Transmits(left - Len(chunk))
  <2>1. left - Len(chunk) \in Nat \ {0} /\ left - Len(chunk) <= asked' /\ asked' \in Nat
    BY <1>1 DEF TypeOK, CallTypeOK, StreamTypeOK, Transmitted, Wired
  <2> QED BY <1>1, <2>1, TransmitsMeans DEF Transmitted
<1>2. CASE /\ tok["tx"] = "done" /\ left <= Len(chunk) /\ Returns("ok") /\ left' = 0
           /\ events' = events \ {"tx"} /\ tok' = [tok EXCEPT !["tx"] = "free"]
           /\ UNCHANGED <<conn, chunk>>
  <2>1. SameConn
    BY <1>2, ClosedOrNot
  <2>2. tok' \in Toks /\ tok'["tx"] = "free" /\ \A k \in Tokens \ {"tx"} : tok'[k] = tok[k]
    BY <1>2 DEF TypeOK, DriverTypeOK, Toks, Tokens
  <2> QED BY <1>2, <2>1, <2>2 DEF TxOver, Returns, Transmitted
<1>3. CASE tok["tx"] = "failed" /\ WriteLost /\ tok' = [tok EXCEPT !["tx"] = "free"] /\ UNCHANGED chunk
  <2>1. SameConn
    BY <1>3, ClosedOrNot DEF WriteLost
  <2>2. tok' \in Toks /\ tok'["tx"] = "free" /\ \A k \in Tokens \ {"tx"} : tok'[k] = tok[k]
    BY <1>3 DEF TypeOK, DriverTypeOK, Toks, Tokens
  <2> QED BY <1>3, <2>1, <2>2 DEF TxOver, Returns, Transmitted, WriteLost
<1> QED BY <1>1, <1>2, <1>3 DEF Transmitted

LEMMA WriteCancelledMeans ==
    ASSUME TypeOK, WriteCancelled PROVE TxOver
<1>1. SameConn
  BY ClosedOrNot DEF WriteCancelled, WriteLost
<1>2. CASE tok["tx"] = "held"
  <2>1. stuck' = stuck \cup {"tx"} /\ tok' = tok
    BY <1>2 DEF WriteCancelled
  <2> QED BY <1>1, <1>2, <2>1 DEF WriteCancelled, WriteLost, TxOver, Returns, stream,
         TypeOK, DriverTypeOK, Toks
<1>3. CASE tok["tx"] # "held"
  <2>0. tok' = [tok EXCEPT !["tx"] = "free"] /\ stuck' = stuck
    BY <1>3 DEF WriteCancelled
  <2>1. tok' \in Toks /\ tok'["tx"] = "free" /\ \A k \in Tokens \ {"tx"} : tok'[k] = tok[k]
    BY <2>0 DEF TypeOK, DriverTypeOK, Toks, Tokens
  <2> QED BY <1>1, <2>0, <2>1 DEF WriteCancelled, WriteLost, TxOver, Returns, stream
<1> QED BY <1>2, <1>3

\* How NetAccept ends when a connection has come: it is opened, or refused for want of
\* its protocol, or closed for want of an event.
Accepting ==
    /\ tok' \in Toks /\ tok'["accept"] = "free"
    /\ tok'["rx"] = tok["rx"] /\ tok'["tx"] = tok["tx"]
Opened ==
    /\ at' = "idle" /\ ret' = "ok" /\ Accepting /\ tok'["close"] = tok["close"]
    /\ conn' \in NetConn /\ conn'.Tcp = TRUE /\ conn'.Handle = newChild
    /\ conn'.RxPosted = FALSE /\ conn'.RxAvail = 0
    /\ events' = (events \ {"accept"}) \cup {"rx"} /\ UNCHANGED children
Refused ==
    /\ at' = "idle" /\ ret' = "error" /\ Accepting /\ tok'["close"] = tok["close"]
    /\ conn' \in NetConn /\ conn'.Tcp = FALSE /\ conn'.Handle = None
    /\ conn'.RxPosted = FALSE /\ conn'.RxAvail = 0
    /\ events' = events \ {"accept"} /\ children' = children \ {newChild}
Unread ==
    /\ at' \in {"closing", "destroying"} /\ ret' = "error" /\ Accepting
    /\ tok'["close"] = "held" \/ at' = "destroying"
    /\ conn' \in NetConn /\ conn'.Tcp = TRUE /\ conn'.Handle = newChild
    /\ conn'.RxPosted = FALSE /\ conn'.RxAvail = 0
    /\ events' = IF at' = "closing" THEN (events \ {"accept"}) \cup {"close"} ELSE events \ {"accept"}
    /\ UNCHANGED children

LEMMA AcceptedMeans ==
    ASSUME TypeOK, Accepted PROVE Opened \/ Refused \/ Unread
<1>1. <<>> \in Seq(Nat)
  OBVIOUS
<1>2. newChild \in Handles \cup {None} /\ tok \in Toks
  BY DEF TypeOK, DriverTypeOK, Toks
<1>3. CASE /\ Returns("ok") /\ conn' = [NoConn EXCEPT !.Handle = newChild, !.Tcp = TRUE]
           /\ events' = (events \ {"accept"}) \cup {"rx"}
           /\ tok' = [tok EXCEPT !["accept"] = "free"] /\ UNCHANGED children
  <2>1. conn' = [Handle |-> newChild, Tcp |-> TRUE, RxPosted |-> FALSE, Closed |-> FALSE,
                 RxAvail |-> 0, RxOff |-> 0, RxBuf |-> <<>>]
    BY <1>3 DEF NoConn
  <2>2. Accepting /\ tok'["close"] = tok["close"]
    BY <1>2, <1>3 DEF Accepting, Toks, Tokens
  <2>3. conn' \in NetConn
    BY <1>1, <1>2, <2>1 DEF NetConn
  <2>4. conn'.Tcp = TRUE /\ conn'.Handle = newChild /\ conn'.RxPosted = FALSE /\ conn'.RxAvail = 0
    BY <2>1
  <2>5. /\ at' = "idle" /\ ret' = "ok"
        /\ events' = (events \ {"accept"}) \cup {"rx"} /\ children' = children
    BY <1>3 DEF Returns
  <2> QED BY <2>2, <2>3, <2>4, <2>5 DEF Opened
<1>4. CASE /\ Returns("error") /\ conn' = NoConn
           /\ events' = events \ {"accept"} /\ tok' = [tok EXCEPT !["accept"] = "free"]
           /\ children' = children \ {newChild}
  <2>2. Accepting /\ tok'["close"] = tok["close"]
    BY <1>2, <1>4 DEF Accepting, Toks, Tokens
  <2>3. /\ conn' \in NetConn /\ conn'.Tcp = FALSE /\ conn'.Handle = None
        /\ conn'.RxPosted = FALSE /\ conn'.RxAvail = 0
    BY <1>1, <1>4 DEF NoConn, NetConn
  <2>4. /\ at' = "idle" /\ ret' = "error"
        /\ events' = events \ {"accept"} /\ children' = children \ {newChild}
    BY <1>4 DEF Returns
  <2> QED BY <2>2, <2>3, <2>4 DEF Refused
<1>5. CASE /\ at' = "closing" /\ ret' = "error"
           /\ conn' = [NoConn EXCEPT !.Handle = newChild, !.Tcp = TRUE]
           /\ events' = (events \ {"accept"}) \cup {"close"}
           /\ tok' = [tok EXCEPT !["accept"] = "free", !["close"] = "held"]
           /\ UNCHANGED children
  <2>1. conn' = [Handle |-> newChild, Tcp |-> TRUE, RxPosted |-> FALSE, Closed |-> FALSE,
                 RxAvail |-> 0, RxOff |-> 0, RxBuf |-> <<>>]
    BY <1>5 DEF NoConn
  <2>2. Accepting /\ tok'["close"] = "held"
    BY <1>2, <1>5 DEF Accepting, Toks, Tokens
  <2>3. conn' \in NetConn
    BY <1>1, <1>2, <2>1 DEF NetConn
  <2>4. conn'.Tcp = TRUE /\ conn'.Handle = newChild /\ conn'.RxPosted = FALSE /\ conn'.RxAvail = 0
    BY <2>1
  <2>5. /\ at' = "closing" /\ ret' = "error"
        /\ events' = (events \ {"accept"}) \cup {"close"} /\ children' = children
    BY <1>5
  <2> QED BY <2>2, <2>3, <2>4, <2>5 DEF Unread
<1>6. CASE /\ at' = "destroying" /\ ret' = "error"
           /\ conn' = [NoConn EXCEPT !.Handle = newChild, !.Tcp = TRUE, !.Closed = TRUE]
           /\ events' = events \ {"accept"}
           /\ tok' = [tok EXCEPT !["accept"] = "free"]
           /\ UNCHANGED children
  <2>1. conn' = [Handle |-> newChild, Tcp |-> TRUE, RxPosted |-> FALSE, Closed |-> TRUE,
                 RxAvail |-> 0, RxOff |-> 0, RxBuf |-> <<>>]
    BY <1>6 DEF NoConn
  <2>2. Accepting
    BY <1>2, <1>6 DEF Accepting, Toks, Tokens
  <2>3. conn' \in NetConn
    BY <1>1, <1>2, <2>1 DEF NetConn
  <2>4. conn'.Tcp = TRUE /\ conn'.Handle = newChild /\ conn'.RxPosted = FALSE /\ conn'.RxAvail = 0
    BY <2>1
  <2>5. /\ at' = "destroying" /\ ret' = "error"
        /\ events' = events \ {"accept"} /\ children' = children
    BY <1>6
  <2> QED BY <2>2, <2>3, <2>4, <2>5 DEF Unread
<1> QED BY <1>3, <1>4, <1>5, <1>6 DEF Accepted

LEMMA CandidatesTyped == Len(Candidates) \in Nat /\ Candidates \in Seq({"file", "volume"})
<1> DEFINE a == IF ShellPath THEN <<"file">> ELSE <<>>
           f == [i \in 1..(OwnFiles + FixedFiles) |-> "file"]
<1>1. a \in Seq({"file", "volume"}) /\ <<"volume">> \in Seq({"file", "volume"})
  <2>1. /\ <<"file">> \in Seq({"file", "volume"}) /\ <<"volume">> \in Seq({"file", "volume"})
        /\ <<>> \in Seq({"file", "volume"})
    OBVIOUS
  <2>2. a \in {<<"file">>, <<>>}
    OBVIOUS
  <2> HIDE DEF a
  <2> QED BY <2>1, <2>2
<1>2. f \in Seq({"file", "volume"})
  <2>1. OwnFiles + FixedFiles \in Nat
    OBVIOUS
  <2>2. f \in [1..(OwnFiles + FixedFiles) -> {"file", "volume"}]
    OBVIOUS
  <2> HIDE DEF f
  <2> QED BY <2>1, <2>2
<1> HIDE DEF a, f
<1>3. a \o <<"volume">> \in Seq({"file", "volume"})
  BY <1>1, ConcatProperties
<1>4. (a \o <<"volume">>) \o f \in Seq({"file", "volume"})
  BY <1>2, <1>3, ConcatProperties
<1>5. Candidates = (a \o <<"volume">>) \o f
  BY DEF Candidates, a, f
<1> QED BY <1>4, <1>5, LenProperties

LEMMA DriverReceivesMeans ==
    ASSUME TypeOK, Wired, DriverReceives
    PROVE  /\ conn' \in NetConn /\ handed' \in Nat
           /\ conn'.Tcp = conn.Tcp /\ conn'.Handle = conn.Handle
           /\ conn'.RxPosted = conn.RxPosted /\ conn'.RxAvail = 0 /\ conn.RxAvail = 0
<1>1. PICK n \in 0..Least(RxSize, MaxIn - handed) :
        conn' = [conn EXCEPT !.RxBuf = Bytes(handed + 1, handed + n)] /\ handed' = handed + n
  BY DEF DriverReceives
<1>2. n \in Nat /\ handed \in Nat /\ handed' \in Nat
  BY <1>1 DEF TypeOK, StreamTypeOK, Least
<1>3. Bytes(handed + 1, handed + n) \in Seq(Nat)
  <2>1. handed + 1 \in Nat \ {0} /\ handed + n \in Nat /\ handed + 1 <= handed + n + 1
    BY <1>2
  <2> QED BY <2>1, BytesTyped
<1>4. conn.RxAvail = 0
  BY DEF DriverReceives, Wired
<1> QED BY <1>1, <1>2, <1>3, <1>4 DEF TypeOK, ConnTypeOK, NetConn

LEMMA DriverTransmitsMeans ==
    ASSUME TypeOK, DriverTransmits PROVE out' \in Seq(Nat)
<1>1. out \in Seq(Nat) /\ chunk \in Seq(Nat) /\ Len(chunk) \in Nat
  BY DEF TypeOK, StreamTypeOK
<1>2. CASE out' = out \o chunk
  BY <1>1, <1>2, ConcatProperties
<1>3. ASSUME NEW n \in 0..Len(chunk), out' = out \o SubSeq(chunk, 1, n) PROVE out' \in Seq(Nat)
  <2>1. n \in Nat /\ \A i \in 1..n : chunk[i] \in Nat
    BY <1>1
  <2>2. SubSeq(chunk, 1, n) \in Seq(Nat)
    BY <1>1, <2>1, SubSeqProperties
  <2> QED BY <1>1, <1>3, <2>2, ConcatProperties
<1> QED BY <1>2, <1>3 DEF DriverTransmits

LEMMA TryImageMainTypeOK == ASSUME IInv, TryImage PROVE MainTypeOK'
<1>1. cand' \in 1..(Len(Candidates) + 1)
  BY CandidatesTyped DEF IInv, TypeOK, MainTypeOK, TryImage, Launched, NextCandidate
<1> QED BY <1>1 DEF IInv, TypeOK, MainTypeOK, TryImage, Launched, NextCandidate, tcpVars, Tokens, WaitEvents, Fields

LEMMA ShellExitsMainTypeOK == ASSUME IInv, ShellExits PROVE MainTypeOK'
<1>1. cand' \in 1..(Len(Candidates) + 1)
  BY CandidatesTyped DEF IInv, TypeOK, MainTypeOK, Control, ShellExits, Launched, NextCandidate
<1> QED BY <1>1 DEF IInv, TypeOK, MainTypeOK, ShellExits, Launched, NextCandidate, tcpVars, Tokens, WaitEvents, Fields

LEMMA ShimInstallMainTypeOK == ASSUME IInv, ShimInstall PROVE MainTypeOK'
<1>1. table' \in [Fields -> {"local", "shim"}] /\ crc' = table'
  BY DEF ShimInstall
<1>2. shim' \in [Installed : BOOLEAN, Old : [Fields -> {"local", "shim"}], Protocols : BOOLEAN]
  BY DEF ShimInstall, IInv, TypeOK, MainTypeOK
<1>3. cand' \in 1..(Len(Candidates) + 1)
  BY CandidatesTyped DEF ShimInstall
<1> QED BY <1>1, <1>2, <1>3 DEF ShimInstall, IInv, TypeOK, MainTypeOK

LEMMA StartDriverTypeOK == ASSUME IInv, Start PROVE DriverTypeOK'
<1>1. CASE UNCHANGED tcpVars
  BY <1>1 DEF IInv, TypeOK, DriverTypeOK, tcpVars, driver
<1>2. CASE ListenStart
  BY <1>2 DEF ListenStart, IInv, TypeOK, DriverTypeOK
<1> QED BY <1>1, <1>2 DEF Start

LEMMA AbortEndsDriverTypeOK == ASSUME IInv, AbortEnds, UNCHANGED main PROVE DriverTypeOK'
<1>1. tok' \in Toks /\ stuck' \subseteq Tokens
  BY DEF AbortEnds, IInv, TypeOK, DriverTypeOK, Toks, Tokens
<1> QED BY <1>1 DEF AbortEnds, IInv, TypeOK, DriverTypeOK, Toks

LEMMA DriverReceivesConnTypeOK == ASSUME IInv, DriverReceives, UNCHANGED main PROVE ConnTypeOK'
BY DriverReceivesMeans DEF IInv, ConnTypeOK

LEMMA DriverReceivesStreamTypeOK == ASSUME IInv, DriverReceives, UNCHANGED main PROVE StreamTypeOK'
BY DriverReceivesMeans DEF IInv, TypeOK, StreamTypeOK, DriverReceives

LEMMA DriverReceivesOwned == ASSUME IInv, DriverReceives, UNCHANGED main PROVE Owned'
BY DriverReceivesMeans DEF IInv, Owned, InSession, HasConsole, DriverReceives, call, main

LEMMA DriverReceivesNoDangling ==
    ASSUME IInv, DriverReceives, UNCHANGED main PROVE NoDanglingToken'
<1>1. /\ tok' = [tok EXCEPT !["rx"] = "done"] /\ conn'.RxPosted = conn.RxPosted
      /\ at' = at /\ events' = events /\ stuck' = stuck
      /\ tok \in [Tokens -> {"free", "held", "done", "failed"}]
  BY DriverReceivesMeans DEF DriverReceives, IInv, TypeOK, DriverTypeOK, call
<1>2. \A k \in Tokens : tok'[k] = "held" => tok[k] = "held"
  BY <1>1
<1> QED BY <1>1, <1>2 DEF IInv, NoDanglingToken, InUse

LEMMA ShimRemoveNoDangling == ASSUME IInv, ShimRemove PROVE NoDanglingToken'
<1>1. /\ events' = events \ WaitEvents
      /\ tok' = tok /\ conn' = conn /\ at' = at /\ stuck' = stuck
  BY DEF ShimRemove, call, driver
<1>2. Tokens \cap WaitEvents = {}
  BY DEF Tokens, WaitEvents
<1> QED BY <1>1, <1>2 DEF IInv, NoDanglingToken, InUse

LEMMA DriverTransmitsStreamTypeOK == ASSUME IInv, DriverTransmits, UNCHANGED main PROVE StreamTypeOK'
BY DriverTransmitsMeans DEF IInv, TypeOK, StreamTypeOK, DriverTransmits

LEMMA SshReadsMeans == ASSUME IInv, SshReads PROVE ReadStep
BY ReadMeans DEF IInv, SshReads

----------------------------------------------------------------------------
\* Each action keeps the invariant.

USE DEF IInv, TypeOK, CallTypeOK, DriverTypeOK, ConnTypeOK, StreamTypeOK,
        MainTypeOK, Control, InSession, Owned, HasConsole, Wired, Tokens,
        WaitEvents, call, driver, stream, tcpVars, main, Returns, Waits

LEMMA StartKeeps ==
    ASSUME IInv, Start PROVE IInv'
<1>1. CallTypeOK'
  BY DEF Start, ListenStart, Places
<1>2. DriverTypeOK'
  BY StartDriverTypeOK
<1>3. ConnTypeOK'
  BY DEF Start, ListenStart
<1>4. StreamTypeOK'
  BY DEF Start, ListenStart
<1>5. MainTypeOK'
  BY DEF Start, ListenStart, Fields
<1>6. Control'
  BY DEF Start, ListenStart
<1>7. Owned'
  BY DEF Start, ListenStart
<1>8. Wired'
  BY DEF Start, ListenStart
<1>9. Accounted'
  BY DEF Start, ListenStart, Accounted
<1>10. NoDanglingToken'
  BY DEF Start, ListenStart, NoDanglingToken, InUse
<1> QED BY <1>1, <1>2, <1>3, <1>4, <1>5, <1>6, <1>7, <1>8, <1>9, <1>10 DEF IInv, TypeOK

LEMMA ListeningKeeps ==
    ASSUME IInv, Listening PROVE IInv'
<1>1. CallTypeOK'
  BY DEF Listening, Places
<1>2. DriverTypeOK'
  BY DEF Listening
<1>3. ConnTypeOK'
  BY DEF Listening
<1>4. StreamTypeOK'
  BY DEF Listening
<1>5. MainTypeOK'
  BY DEF Listening, Fields
<1>6. Control'
  BY DEF Listening
<1>7. Owned'
  BY DEF Listening
<1>8. Wired'
  BY DEF Listening
<1>9. Accounted'
  BY DEF Listening, Accounted
<1>10. NoDanglingToken'
  BY DEF Listening, NoDanglingToken, InUse
<1> QED BY <1>1, <1>2, <1>3, <1>4, <1>5, <1>6, <1>7, <1>8, <1>9, <1>10 DEF IInv, TypeOK

LEMMA CallAcceptKeeps ==
    ASSUME IInv, CallAccept PROVE IInv'
<1>1. CallTypeOK'
  BY DEF CallAccept, AcceptStart, Places
<1>2. DriverTypeOK'
  BY DEF CallAccept, AcceptStart
<1>3. ConnTypeOK'
  BY DEF CallAccept, AcceptStart
<1>4. StreamTypeOK'
  BY DEF CallAccept, AcceptStart
<1>5. MainTypeOK'
  BY DEF CallAccept, AcceptStart, Fields
<1>6. Control'
  BY DEF CallAccept, AcceptStart
<1>7. Owned'
  BY DEF CallAccept, AcceptStart
<1>8. Wired'
  BY DEF CallAccept, AcceptStart
<1>9. Accounted'
  BY DEF CallAccept, AcceptStart, Accounted
<1>10. NoDanglingToken'
  BY DEF CallAccept, AcceptStart, NoDanglingToken, InUse
<1> QED BY <1>1, <1>2, <1>3, <1>4, <1>5, <1>6, <1>7, <1>8, <1>9, <1>10 DEF IInv, TypeOK

LEMMA StopServerKeeps ==
    ASSUME IInv, StopServer PROVE IInv'
<1>1. CallTypeOK'
  BY DEF StopServer, ListenStopped, Places
<1>2. DriverTypeOK'
  BY DEF StopServer, ListenStopped
<1>3. ConnTypeOK'
  BY DEF StopServer, ListenStopped
<1>4. StreamTypeOK'
  BY DEF StopServer, ListenStopped
<1>5. MainTypeOK'
  BY DEF StopServer, ListenStopped, Fields
<1>6. Control'
  BY DEF StopServer, ListenStopped
<1>7. Owned'
  BY DEF StopServer, ListenStopped
<1>8. Wired'
  BY DEF StopServer, ListenStopped
<1>9. Accounted'
  BY DEF StopServer, ListenStopped, Accounted
<1>10. NoDanglingToken'
  BY DEF StopServer, ListenStopped, NoDanglingToken, InUse
<1> QED BY <1>1, <1>2, <1>3, <1>4, <1>5, <1>6, <1>7, <1>8, <1>9, <1>10 DEF IInv, TypeOK

LEMMA AcceptAgainKeeps ==
    ASSUME IInv, AcceptAgain PROVE IInv'
<1>1. CallTypeOK'
  BY DEF AcceptAgain, Places
<1>2. DriverTypeOK'
  BY DEF AcceptAgain
<1>3. ConnTypeOK'
  BY DEF AcceptAgain
<1>4. StreamTypeOK'
  BY DEF AcceptAgain
<1>5. MainTypeOK'
  BY DEF AcceptAgain, Fields
<1>6. Control'
  BY DEF AcceptAgain
<1>7. Owned'
  BY DEF AcceptAgain
<1>8. Wired'
  BY DEF AcceptAgain
<1>9. Accounted'
  BY DEF AcceptAgain, Accounted
<1>10. NoDanglingToken'
  BY DEF AcceptAgain, NoDanglingToken, InUse
<1> QED BY <1>1, <1>2, <1>3, <1>4, <1>5, <1>6, <1>7, <1>8, <1>9, <1>10 DEF IInv, TypeOK

LEMMA NewSessionKeeps ==
    ASSUME IInv, NewSession PROVE IInv'
<1>1. CASE pc' = "login" /\ ssh' = "open" /\ UNCHANGED tcpVars
  <2>1. CallTypeOK'
    BY <1>1 DEF NewSession, Places
  <2>2. DriverTypeOK'
    BY <1>1 DEF NewSession
  <2>3. ConnTypeOK'
    BY <1>1 DEF NewSession
  <2>4. StreamTypeOK'
    BY <1>1 DEF NewSession
  <2>5. MainTypeOK'
    BY <1>1 DEF NewSession, Fields
  <2>6. Control'
    BY <1>1 DEF NewSession
  <2>7. Owned'
    BY <1>1 DEF NewSession
  <2>8. Wired'
    BY <1>1 DEF NewSession
  <2>9. Accounted'
    BY <1>1 DEF NewSession, Accounted
  <2>10. NoDanglingToken'
    BY <1>1 DEF NewSession, NoDanglingToken, InUse
  <2> QED BY <2>1, <2>2, <2>3, <2>4, <2>5, <2>6, <2>7, <2>8, <2>9, <2>10 DEF IInv, TypeOK
<1>2. CASE /\ pc' = "disconnect"
           /\ CloseConn
           /\ UNCHANGED ssh
           /\ conn.RxPosted
           /\ at' = "cancelRx"
           /\ UNCHANGED <<conn, events, children, tok, stuck, stream>>
  <2>1. CallTypeOK'
    BY <1>2 DEF NewSession, CloseConn, Places
  <2>2. DriverTypeOK'
    BY <1>2 DEF NewSession, CloseConn
  <2>3. ConnTypeOK'
    BY <1>2 DEF NewSession, CloseConn
  <2>4. StreamTypeOK'
    BY <1>2 DEF NewSession, CloseConn
  <2>5. MainTypeOK'
    BY <1>2 DEF NewSession, CloseConn, Fields
  <2>6. Control'
    BY <1>2 DEF NewSession, CloseConn
  <2>7. Owned'
    BY <1>2 DEF NewSession, CloseConn
  <2>8. Wired'
    BY <1>2 DEF NewSession, CloseConn
  <2>9. Accounted'
    BY <1>2 DEF NewSession, CloseConn, Accounted
  <2>10. NoDanglingToken'
    BY <1>2 DEF NewSession, CloseConn, NoDanglingToken, InUse
  <2> QED BY <2>1, <2>2, <2>3, <2>4, <2>5, <2>6, <2>7, <2>8, <2>9, <2>10 DEF IInv, TypeOK
<1>3. CASE pc' = "disconnect" /\ CloseConn /\ UNCHANGED ssh /\ Parting
  <2>1. CallTypeOK'
    BY <1>3 DEF NewSession, CloseConn, Parting, Toks, Places
  <2>2. DriverTypeOK'
    BY <1>3 DEF NewSession, CloseConn, Parting, Toks
  <2>3. ConnTypeOK'
    BY <1>3 DEF NewSession, CloseConn, Parting, Toks
  <2>4. StreamTypeOK'
    BY <1>3 DEF NewSession, CloseConn, Parting, Toks
  <2>5. MainTypeOK'
    BY <1>3 DEF NewSession, CloseConn, Parting, Toks, Fields
  <2>6. Control'
    BY <1>3 DEF NewSession, CloseConn, Parting, Toks
  <2>7. Owned'
    BY <1>3 DEF NewSession, CloseConn, Parting, Toks
  <2>8. Wired'
    BY <1>3 DEF NewSession, CloseConn, Parting, Toks
  <2>9. Accounted'
    BY <1>3 DEF NewSession, CloseConn, Parting, Toks, Accounted
  <2>10. NoDanglingToken'
    BY <1>3 DEF NewSession, CloseConn, Parting, Toks, NoDanglingToken, InUse
  <2> QED BY <2>1, <2>2, <2>3, <2>4, <2>5, <2>6, <2>7, <2>8, <2>9, <2>10 DEF IInv, TypeOK
<1> QED BY <1>1, <1>2, <1>3, CloseStartMeans DEF IInv, NewSession, CloseConn

LEMMA LoggedInKeeps ==
    ASSUME IInv, LoggedIn PROVE IInv'
<1>1. CallTypeOK'
  BY DEF LoggedIn, SshUsable, Places
<1>2. DriverTypeOK'
  BY DEF LoggedIn, SshUsable
<1>3. ConnTypeOK'
  BY DEF LoggedIn, SshUsable
<1>4. StreamTypeOK'
  BY DEF LoggedIn, SshUsable
<1>5. MainTypeOK'
  BY DEF LoggedIn, SshUsable, Fields
<1>6. Control'
  BY DEF LoggedIn, SshUsable
<1>7. Owned'
  BY DEF LoggedIn, SshUsable
<1>8. Wired'
  BY DEF LoggedIn, SshUsable
<1>9. Accounted'
  BY DEF LoggedIn, SshUsable, Accounted
<1>10. NoDanglingToken'
  BY DEF LoggedIn, SshUsable, NoDanglingToken, InUse
<1> QED BY <1>1, <1>2, <1>3, <1>4, <1>5, <1>6, <1>7, <1>8, <1>9, <1>10 DEF IInv, TypeOK

LEMMA InstallFailsKeeps ==
    ASSUME IInv, InstallFails PROVE IInv'
<1>1. CallTypeOK'
  BY DEF InstallFails, Local, Places
<1>2. DriverTypeOK'
  BY DEF InstallFails, Local
<1>3. ConnTypeOK'
  BY DEF InstallFails, Local
<1>4. StreamTypeOK'
  BY DEF InstallFails, Local
<1>5. MainTypeOK'
  BY DEF InstallFails, Local, Fields
<1>6. Control'
  BY DEF InstallFails, Local
<1>7. Owned'
  BY DEF InstallFails, Local
<1>8. Wired'
  BY DEF InstallFails, Local
<1>9. Accounted'
  BY DEF InstallFails, Local, Accounted
<1>10. NoDanglingToken'
  BY DEF InstallFails, Local, NoDanglingToken, InUse
<1> QED BY <1>1, <1>2, <1>3, <1>4, <1>5, <1>6, <1>7, <1>8, <1>9, <1>10 DEF IInv, TypeOK

LEMMA ShimInstallKeeps ==
    ASSUME IInv, ShimInstall PROVE IInv'
<1>1. CallTypeOK'
  BY DEF ShimInstall, Local, Places
<1>2. DriverTypeOK'
  BY DEF ShimInstall, Local
<1>3. ConnTypeOK'
  BY DEF ShimInstall, Local
<1>4. StreamTypeOK'
  BY DEF ShimInstall, Local
<1>5. MainTypeOK'
  BY ShimInstallMainTypeOK
<1>6. Control'
  BY DEF ShimInstall, Local
<1>7. Owned'
  BY DEF ShimInstall, Local
<1>8. Wired'
  BY DEF ShimInstall, Local
<1>9. Accounted'
  BY DEF ShimInstall, Local, Accounted
<1>10. NoDanglingToken'
  BY DEF ShimInstall, Local, NoDanglingToken, InUse
<1> QED BY <1>1, <1>2, <1>3, <1>4, <1>5, <1>6, <1>7, <1>8, <1>9, <1>10 DEF IInv, TypeOK

LEMMA TryImageKeeps ==
    ASSUME IInv, TryImage PROVE IInv'
<1>1. CallTypeOK'
  BY DEF TryImage, Launched, NextCandidate, Places
<1>2. DriverTypeOK'
  BY DEF TryImage, Launched, NextCandidate
<1>3. ConnTypeOK'
  BY DEF TryImage, Launched, NextCandidate
<1>4. StreamTypeOK'
  BY DEF TryImage, Launched, NextCandidate
<1>5. MainTypeOK'
  BY TryImageMainTypeOK
<1>6. Control'
  BY DEF TryImage, Launched, NextCandidate
<1>7. Owned'
  BY DEF TryImage, Launched, NextCandidate
<1>8. Wired'
  BY DEF TryImage, Launched, NextCandidate
<1>9. Accounted'
  BY DEF TryImage, Launched, NextCandidate, Accounted
<1>10. NoDanglingToken'
  BY DEF TryImage, Launched, NextCandidate, NoDanglingToken, InUse
<1> QED BY <1>1, <1>2, <1>3, <1>4, <1>5, <1>6, <1>7, <1>8, <1>9, <1>10 DEF IInv, TypeOK

LEMMA ShellExitsKeeps ==
    ASSUME IInv, ShellExits PROVE IInv'
<1>1. CallTypeOK'
  BY DEF ShellExits, Launched, NextCandidate, Places
<1>2. DriverTypeOK'
  BY DEF ShellExits, Launched, NextCandidate
<1>3. ConnTypeOK'
  BY DEF ShellExits, Launched, NextCandidate
<1>4. StreamTypeOK'
  BY DEF ShellExits, Launched, NextCandidate
<1>5. MainTypeOK'
  BY ShellExitsMainTypeOK
<1>6. Control'
  BY DEF ShellExits, Launched, NextCandidate
<1>7. Owned'
  BY DEF ShellExits, Launched, NextCandidate
<1>8. Wired'
  BY DEF ShellExits, Launched, NextCandidate
<1>9. Accounted'
  BY DEF ShellExits, Launched, NextCandidate, Accounted
<1>10. NoDanglingToken'
  BY DEF ShellExits, Launched, NextCandidate, NoDanglingToken, InUse
<1> QED BY <1>1, <1>2, <1>3, <1>4, <1>5, <1>6, <1>7, <1>8, <1>9, <1>10 DEF IInv, TypeOK

LEMMA ShimRemoveKeeps ==
    ASSUME IInv, ShimRemove PROVE IInv'
<1>1. CallTypeOK'
  BY DEF ShimRemove, Local, Places
<1>2. DriverTypeOK'
  BY DEF ShimRemove, Local
<1>3. ConnTypeOK'
  BY DEF ShimRemove, Local
<1>4. StreamTypeOK'
  BY DEF ShimRemove, Local
<1>5. MainTypeOK'
  BY DEF ShimRemove, Local, Fields
<1>6. Control'
  BY DEF ShimRemove, Local
<1>7. Owned'
  BY DEF ShimRemove, Local
<1>8. Wired'
  BY DEF ShimRemove, Local
<1>9. Accounted'
  BY DEF ShimRemove, Local, Accounted
<1>10. NoDanglingToken'
  BY ShimRemoveNoDangling
<1> QED BY <1>1, <1>2, <1>3, <1>4, <1>5, <1>6, <1>7, <1>8, <1>9, <1>10 DEF IInv, TypeOK

LEMMA MessageSentKeeps ==
    ASSUME IInv, MessageSent PROVE IInv'
<1>1. CallTypeOK'
  BY DEF MessageSent, Places
<1>2. DriverTypeOK'
  BY DEF MessageSent
<1>3. ConnTypeOK'
  BY DEF MessageSent
<1>4. StreamTypeOK'
  BY DEF MessageSent
<1>5. MainTypeOK'
  BY DEF MessageSent, Fields
<1>6. Control'
  BY DEF MessageSent
<1>7. Owned'
  BY DEF MessageSent
<1>8. Wired'
  BY DEF MessageSent
<1>9. Accounted'
  BY DEF MessageSent, Accounted
<1>10. NoDanglingToken'
  BY DEF MessageSent, NoDanglingToken, InUse
<1> QED BY <1>1, <1>2, <1>3, <1>4, <1>5, <1>6, <1>7, <1>8, <1>9, <1>10 DEF IInv, TypeOK

LEMMA SessionEndsKeeps ==
    ASSUME IInv, SessionEnds PROVE IInv'
<1>1. CASE /\ conn.RxPosted
           /\ at' = "cancelRx"
           /\ UNCHANGED <<conn, events, children, tok, stuck, stream>>
  <2>1. CallTypeOK'
    BY <1>1 DEF SessionEnds, CloseConn, Places
  <2>2. DriverTypeOK'
    BY <1>1 DEF SessionEnds, CloseConn
  <2>3. ConnTypeOK'
    BY <1>1 DEF SessionEnds, CloseConn
  <2>4. StreamTypeOK'
    BY <1>1 DEF SessionEnds, CloseConn
  <2>5. MainTypeOK'
    BY <1>1 DEF SessionEnds, CloseConn, Fields
  <2>6. Control'
    BY <1>1 DEF SessionEnds, CloseConn
  <2>7. Owned'
    BY <1>1 DEF SessionEnds, CloseConn
  <2>8. Wired'
    BY <1>1 DEF SessionEnds, CloseConn
  <2>9. Accounted'
    BY <1>1 DEF SessionEnds, CloseConn, Accounted
  <2>10. NoDanglingToken'
    BY <1>1 DEF SessionEnds, CloseConn, NoDanglingToken, InUse
  <2> QED BY <2>1, <2>2, <2>3, <2>4, <2>5, <2>6, <2>7, <2>8, <2>9, <2>10 DEF IInv, TypeOK
<1>2. CASE Parting
  <2>1. CallTypeOK'
    BY <1>2 DEF SessionEnds, CloseConn, Parting, Toks, Places
  <2>2. DriverTypeOK'
    BY <1>2 DEF SessionEnds, CloseConn, Parting, Toks
  <2>3. ConnTypeOK'
    BY <1>2 DEF SessionEnds, CloseConn, Parting, Toks
  <2>4. StreamTypeOK'
    BY <1>2 DEF SessionEnds, CloseConn, Parting, Toks
  <2>5. MainTypeOK'
    BY <1>2 DEF SessionEnds, CloseConn, Parting, Toks, Fields
  <2>6. Control'
    BY <1>2 DEF SessionEnds, CloseConn, Parting, Toks
  <2>7. Owned'
    BY <1>2 DEF SessionEnds, CloseConn, Parting, Toks
  <2>8. Wired'
    BY <1>2 DEF SessionEnds, CloseConn, Parting, Toks
  <2>9. Accounted'
    BY <1>2 DEF SessionEnds, CloseConn, Parting, Toks, Accounted
  <2>10. NoDanglingToken'
    BY <1>2 DEF SessionEnds, CloseConn, Parting, Toks, NoDanglingToken, InUse
  <2> QED BY <2>1, <2>2, <2>3, <2>4, <2>5, <2>6, <2>7, <2>8, <2>9, <2>10 DEF IInv, TypeOK
<1> QED BY <1>1, <1>2, CloseStartMeans DEF IInv, SessionEnds, CloseConn

LEMMA DisconnectedKeeps ==
    ASSUME IInv, Disconnected PROVE IInv'
<1>1. CallTypeOK'
  BY DEF Disconnected, Places
<1>2. DriverTypeOK'
  BY DEF Disconnected
<1>3. ConnTypeOK'
  BY DEF Disconnected
<1>4. StreamTypeOK'
  BY DEF Disconnected
<1>5. MainTypeOK'
  BY DEF Disconnected, Fields
<1>6. Control'
  BY DEF Disconnected
<1>7. Owned'
  BY DEF Disconnected
<1>8. Wired'
  BY DEF Disconnected
<1>9. Accounted'
  BY DEF Disconnected, Accounted
<1>10. NoDanglingToken'
  BY DEF Disconnected, NoDanglingToken, InUse
<1> QED BY <1>1, <1>2, <1>3, <1>4, <1>5, <1>6, <1>7, <1>8, <1>9, <1>10 DEF IInv, TypeOK

LEMMA SshReadsKeeps ==
    ASSUME IInv, SshReads PROVE IInv'
<1>0. at = "idle" /\ conn.Tcp /\ SshRuns /\ SshUsable /\ UNCHANGED <<at, tries, left,
      listen, events, children, newChild, stuck, quitKey, chunk, handed, asked, out,
      main>>
  BY DEF SshReads, NetRead, main
<1>1. CASE ReadStep
  <2>1. CallTypeOK'
    BY <1>0, <1>1 DEF SshRuns, SshUsable, ReadStep, Toks, Places
  <2>2. DriverTypeOK'
    BY <1>0, <1>1 DEF SshRuns, SshUsable, ReadStep, Toks
  <2>3. ConnTypeOK'
    BY <1>0, <1>1 DEF SshRuns, SshUsable, ReadStep, Toks
  <2>4. StreamTypeOK'
    BY <1>0, <1>1 DEF SshRuns, SshUsable, ReadStep, Toks
  <2>5. MainTypeOK'
    BY <1>0, <1>1 DEF SshRuns, SshUsable, ReadStep, Toks, Fields
  <2>6. Control'
    BY <1>0, <1>1 DEF SshRuns, SshUsable, ReadStep, Toks
  <2>7. Owned'
    BY <1>0, <1>1 DEF SshRuns, SshUsable, ReadStep, Toks
  <2>8. Wired'
    BY <1>0, <1>1 DEF SshRuns, SshUsable, ReadStep, Toks
  <2>9. Accounted'
    BY <1>0, <1>1 DEF SshRuns, SshUsable, ReadStep, Toks, Accounted
  <2>10. NoDanglingToken'
    BY <1>0, <1>1 DEF SshRuns, SshUsable, ReadStep, Toks, NoDanglingToken, InUse
  <2> QED BY <2>1, <2>2, <2>3, <2>4, <2>5, <2>6, <2>7, <2>8, <2>9, <2>10 DEF IInv, TypeOK
<1> QED BY <1>1, SshReadsMeans

LEMMA SshWritesKeeps ==
    ASSUME IInv, SshWrites PROVE IInv'
<1>1. CASE TxOver /\ asked' \in Nat
  <2>1. CallTypeOK'
    BY <1>1 DEF SshWrites, SshRuns, SshUsable, NetWrite, TxOver, SameConn, Toks, Places
  <2>2. DriverTypeOK'
    BY <1>1 DEF SshWrites, SshRuns, SshUsable, NetWrite, TxOver, SameConn, Toks
  <2>3. ConnTypeOK'
    BY <1>1 DEF SshWrites, SshRuns, SshUsable, NetWrite, TxOver, SameConn, Toks
  <2>4. StreamTypeOK'
    BY <1>1 DEF SshWrites, SshRuns, SshUsable, NetWrite, TxOver, SameConn, Toks
  <2>5. MainTypeOK'
    BY <1>1 DEF SshWrites, SshRuns, SshUsable, NetWrite, TxOver, SameConn, Toks, Fields
  <2>6. Control'
    BY <1>1 DEF SshWrites, SshRuns, SshUsable, NetWrite, TxOver, SameConn, Toks
  <2>7. Owned'
    BY <1>1 DEF SshWrites, SshRuns, SshUsable, NetWrite, TxOver, SameConn, Toks
  <2>8. Wired'
    BY <1>1 DEF SshWrites, SshRuns, SshUsable, NetWrite, TxOver, SameConn, Toks
  <2>9. Accounted'
    BY <1>1 DEF SshWrites, SshRuns, SshUsable, NetWrite, TxOver, SameConn, Toks, Accounted
  <2>10. NoDanglingToken'
    BY <1>1 DEF SshWrites, SshRuns, SshUsable, NetWrite, TxOver, SameConn, Toks, NoDanglingToken, InUse
  <2> QED BY <2>1, <2>2, <2>3, <2>4, <2>5, <2>6, <2>7, <2>8, <2>9, <2>10 DEF IInv, TypeOK
<1>2. CASE TxOn /\ asked' \in Nat
  <2>1. CallTypeOK'
    BY <1>2 DEF SshWrites, SshRuns, SshUsable, NetWrite, TxOn, SameConn, Toks, Places
  <2>2. DriverTypeOK'
    BY <1>2 DEF SshWrites, SshRuns, SshUsable, NetWrite, TxOn, SameConn, Toks
  <2>3. ConnTypeOK'
    BY <1>2 DEF SshWrites, SshRuns, SshUsable, NetWrite, TxOn, SameConn, Toks
  <2>4. StreamTypeOK'
    BY <1>2 DEF SshWrites, SshRuns, SshUsable, NetWrite, TxOn, SameConn, Toks
  <2>5. MainTypeOK'
    BY <1>2 DEF SshWrites, SshRuns, SshUsable, NetWrite, TxOn, SameConn, Toks, Fields
  <2>6. Control'
    BY <1>2 DEF SshWrites, SshRuns, SshUsable, NetWrite, TxOn, SameConn, Toks
  <2>7. Owned'
    BY <1>2 DEF SshWrites, SshRuns, SshUsable, NetWrite, TxOn, SameConn, Toks
  <2>8. Wired'
    BY <1>2 DEF SshWrites, SshRuns, SshUsable, NetWrite, TxOn, SameConn, Toks
  <2>9. Accounted'
    BY <1>2 DEF SshWrites, SshRuns, SshUsable, NetWrite, TxOn, SameConn, Toks, Accounted
  <2>10. NoDanglingToken'
    BY <1>2 DEF SshWrites, SshRuns, SshUsable, NetWrite, TxOn, SameConn, Toks, NoDanglingToken, InUse
  <2> QED BY <2>1, <2>2, <2>3, <2>4, <2>5, <2>6, <2>7, <2>8, <2>9, <2>10 DEF IInv, TypeOK
<1> QED BY <1>1, <1>2, WriteMeans DEF IInv, SshWrites

LEMMA SshEndsKeeps ==
    ASSUME IInv, SshEnds PROVE IInv'
<1>1. CallTypeOK'
  BY DEF SshEnds, SshRuns, SshUsable, Places
<1>2. DriverTypeOK'
  BY DEF SshEnds, SshRuns, SshUsable
<1>3. ConnTypeOK'
  BY DEF SshEnds, SshRuns, SshUsable
<1>4. StreamTypeOK'
  BY DEF SshEnds, SshRuns, SshUsable
<1>5. MainTypeOK'
  BY DEF SshEnds, SshRuns, SshUsable, Fields
<1>6. Control'
  BY DEF SshEnds, SshRuns, SshUsable
<1>7. Owned'
  BY DEF SshEnds, SshRuns, SshUsable
<1>8. Wired'
  BY DEF SshEnds, SshRuns, SshUsable
<1>9. Accounted'
  BY DEF SshEnds, SshRuns, SshUsable, Accounted
<1>10. NoDanglingToken'
  BY DEF SshEnds, SshRuns, SshUsable, NoDanglingToken, InUse
<1> QED BY <1>1, <1>2, <1>3, <1>4, <1>5, <1>6, <1>7, <1>8, <1>9, <1>10 DEF IInv, TypeOK

LEMMA ConfiguredKeeps ==
    ASSUME IInv, Configured, UNCHANGED main PROVE IInv'
<1>1. CallTypeOK'
  BY DEF Configured, Places
<1>2. DriverTypeOK'
  BY DEF Configured
<1>3. ConnTypeOK'
  BY DEF Configured
<1>4. StreamTypeOK'
  BY DEF Configured
<1>5. MainTypeOK'
  BY DEF Configured, Fields
<1>6. Control'
  BY DEF Configured
<1>7. Owned'
  BY DEF Configured
<1>8. Wired'
  BY DEF Configured
<1>9. Accounted'
  BY DEF Configured, Accounted
<1>10. NoDanglingToken'
  BY DEF Configured, NoDanglingToken, InUse
<1> QED BY <1>1, <1>2, <1>3, <1>4, <1>5, <1>6, <1>7, <1>8, <1>9, <1>10 DEF IInv, TypeOK

LEMMA ConfigureAgainKeeps ==
    ASSUME IInv, ConfigureAgain, UNCHANGED main PROVE IInv'
<1>1. CallTypeOK'
  BY DEF ConfigureAgain, Places
<1>2. DriverTypeOK'
  BY DEF ConfigureAgain
<1>3. ConnTypeOK'
  BY DEF ConfigureAgain
<1>4. StreamTypeOK'
  BY DEF ConfigureAgain
<1>5. MainTypeOK'
  BY DEF ConfigureAgain, Fields
<1>6. Control'
  BY DEF ConfigureAgain
<1>7. Owned'
  BY DEF ConfigureAgain
<1>8. Wired'
  BY DEF ConfigureAgain
<1>9. Accounted'
  BY DEF ConfigureAgain, Accounted
<1>10. NoDanglingToken'
  BY DEF ConfigureAgain, NoDanglingToken, InUse
<1> QED BY <1>1, <1>2, <1>3, <1>4, <1>5, <1>6, <1>7, <1>8, <1>9, <1>10 DEF IInv, TypeOK

LEMMA ConfigureFailsKeeps ==
    ASSUME IInv, ConfigureFails, UNCHANGED main PROVE IInv'
<1>1. CallTypeOK'
  BY DEF ConfigureFails, ListenStopped, Places
<1>2. DriverTypeOK'
  BY DEF ConfigureFails, ListenStopped
<1>3. ConnTypeOK'
  BY DEF ConfigureFails, ListenStopped
<1>4. StreamTypeOK'
  BY DEF ConfigureFails, ListenStopped
<1>5. MainTypeOK'
  BY DEF ConfigureFails, ListenStopped, Fields
<1>6. Control'
  BY DEF ConfigureFails, ListenStopped
<1>7. Owned'
  BY DEF ConfigureFails, ListenStopped
<1>8. Wired'
  BY DEF ConfigureFails, ListenStopped
<1>9. Accounted'
  BY DEF ConfigureFails, ListenStopped, Accounted
<1>10. NoDanglingToken'
  BY DEF ConfigureFails, ListenStopped, NoDanglingToken, InUse
<1> QED BY <1>1, <1>2, <1>3, <1>4, <1>5, <1>6, <1>7, <1>8, <1>9, <1>10 DEF IInv, TypeOK

LEMMA AcceptedKeeps ==
    ASSUME IInv, Accepted, UNCHANGED main PROVE IInv'
<1>0. at = "accepting" /\ tok["accept"] = "done" /\ UNCHANGED <<tries, left, listen,
      newChild, stuck, quitKey, stream, main>>
  BY DEF Accepted, main
<1>1. CASE Opened
  <2>1. CallTypeOK'
    BY <1>0, <1>1 DEF Opened, Accepting, Toks, Places
  <2>2. DriverTypeOK'
    BY <1>0, <1>1 DEF Opened, Accepting, Toks
  <2>3. ConnTypeOK'
    BY <1>0, <1>1 DEF Opened, Accepting, Toks
  <2>4. StreamTypeOK'
    BY <1>0, <1>1 DEF Opened, Accepting, Toks
  <2>5. MainTypeOK'
    BY <1>0, <1>1 DEF Opened, Accepting, Toks, Fields
  <2>6. Control'
    BY <1>0, <1>1 DEF Opened, Accepting, Toks
  <2>7. Owned'
    BY <1>0, <1>1 DEF Opened, Accepting, Toks
  <2>8. Wired'
    <3>1. newChild # None /\ newChild \in Handles
      BY <1>0 DEF IInv, Accounted
    <3>2. "rx" \in events' /\ "tx" \notin events' /\ "close" \notin events' /\ "accept" \notin events'
      BY <1>0, <1>1 DEF IInv, Wired, Opened
    <3>3. conn'.Tcp /\ conn'.Handle # None /\ conn'.RxPosted = FALSE /\ conn'.RxAvail = 0 /\ at' = "idle"
      BY <1>1, <3>1 DEF Opened
    <3> QED BY <3>2, <3>3 DEF Wired
  <2>9. Accounted'
    BY <1>0, <1>1 DEF Opened, Accepting, Toks, Accounted
  <2>10. NoDanglingToken'
    BY <1>0, <1>1 DEF Opened, Accepting, Toks, NoDanglingToken, InUse
  <2> QED BY <2>1, <2>2, <2>3, <2>4, <2>5, <2>6, <2>7, <2>8, <2>9, <2>10 DEF IInv, TypeOK
<1>2. CASE Refused
  <2>1. CallTypeOK'
    BY <1>0, <1>2 DEF Refused, Accepting, Toks, Places
  <2>2. DriverTypeOK'
    BY <1>0, <1>2 DEF Refused, Accepting, Toks
  <2>3. ConnTypeOK'
    BY <1>0, <1>2 DEF Refused, Accepting, Toks
  <2>4. StreamTypeOK'
    BY <1>0, <1>2 DEF Refused, Accepting, Toks
  <2>5. MainTypeOK'
    BY <1>0, <1>2 DEF Refused, Accepting, Toks, Fields
  <2>6. Control'
    BY <1>0, <1>2 DEF Refused, Accepting, Toks
  <2>7. Owned'
    BY <1>0, <1>2 DEF Refused, Accepting, Toks
  <2>8. Wired'
    BY <1>0, <1>2 DEF Refused, Accepting, Toks
  <2>9. Accounted'
    BY <1>0, <1>2 DEF Refused, Accepting, Toks, Accounted
  <2>10. NoDanglingToken'
    BY <1>0, <1>2 DEF Refused, Accepting, Toks, NoDanglingToken, InUse
  <2> QED BY <2>1, <2>2, <2>3, <2>4, <2>5, <2>6, <2>7, <2>8, <2>9, <2>10 DEF IInv, TypeOK
<1>3. CASE Unread
  <2>1. CallTypeOK'
    BY <1>0, <1>3 DEF Unread, Accepting, Toks, Places
  <2>2. DriverTypeOK'
    BY <1>0, <1>3 DEF Unread, Accepting, Toks
  <2>3. ConnTypeOK'
    BY <1>0, <1>3 DEF Unread, Accepting, Toks
  <2>4. StreamTypeOK'
    BY <1>0, <1>3 DEF Unread, Accepting, Toks
  <2>5. MainTypeOK'
    BY <1>0, <1>3 DEF Unread, Accepting, Toks, Fields
  <2>6. Control'
    BY <1>0, <1>3 DEF Unread, Accepting, Toks
  <2>7. Owned'
    BY <1>0, <1>3 DEF Unread, Accepting, Toks
  <2>8. Wired'
    <3>1. newChild # None /\ newChild \in Handles
      BY <1>0 DEF IInv, Accounted
    <3>3. conn'.Tcp /\ conn'.Handle # None /\ conn'.RxPosted = FALSE /\ conn'.RxAvail = 0
          /\ at' \in {"closing", "destroying"}
      BY <1>3, <3>1 DEF Unread
    <3>2. /\ "tx" \notin events' /\ "accept" \notin events' /\ "rx" \notin events'
          /\ "close" \in events' => at' = "closing"
      BY <1>0, <1>3 DEF IInv, Wired, Unread
    <3> QED BY <3>2, <3>3 DEF Wired
  <2>9. Accounted'
    BY <1>0, <1>3 DEF Unread, Accepting, Toks, Accounted
  <2>10. NoDanglingToken'
    BY <1>0, <1>3 DEF Unread, Accepting, Toks, NoDanglingToken, InUse
  <2> QED BY <2>1, <2>2, <2>3, <2>4, <2>5, <2>6, <2>7, <2>8, <2>9, <2>10 DEF IInv, TypeOK
<1> QED BY <1>1, <1>2, <1>3, AcceptedMeans DEF IInv

LEMMA AcceptFailedKeeps ==
    ASSUME IInv, AcceptFailed, UNCHANGED main PROVE IInv'
<1>1. CallTypeOK'
  BY DEF AcceptFailed, Places
<1>2. DriverTypeOK'
  BY DEF AcceptFailed
<1>3. ConnTypeOK'
  BY DEF AcceptFailed
<1>4. StreamTypeOK'
  BY DEF AcceptFailed
<1>5. MainTypeOK'
  BY DEF AcceptFailed, Fields
<1>6. Control'
  BY DEF AcceptFailed
<1>7. Owned'
  BY DEF AcceptFailed
<1>8. Wired'
  BY DEF AcceptFailed
<1>9. Accounted'
  BY DEF AcceptFailed, Accounted
<1>10. NoDanglingToken'
  BY DEF AcceptFailed, NoDanglingToken, InUse
<1> QED BY <1>1, <1>2, <1>3, <1>4, <1>5, <1>6, <1>7, <1>8, <1>9, <1>10 DEF IInv, TypeOK

LEMMA AcceptAbortedKeeps ==
    ASSUME IInv, AcceptAborted, UNCHANGED main PROVE IInv'
<1>1. CallTypeOK'
  BY DEF AcceptAborted, Places
<1>2. DriverTypeOK'
  BY DEF AcceptAborted
<1>3. ConnTypeOK'
  BY DEF AcceptAborted
<1>4. StreamTypeOK'
  BY DEF AcceptAborted
<1>5. MainTypeOK'
  BY DEF AcceptAborted, Fields
<1>6. Control'
  BY DEF AcceptAborted
<1>7. Owned'
  BY DEF AcceptAborted
<1>8. Wired'
  BY DEF AcceptAborted
<1>9. Accounted'
  BY DEF AcceptAborted, Accounted
<1>10. NoDanglingToken'
  BY DEF AcceptAborted, NoDanglingToken, InUse
<1> QED BY <1>1, <1>2, <1>3, <1>4, <1>5, <1>6, <1>7, <1>8, <1>9, <1>10 DEF IInv, TypeOK

LEMMA AbortEndsKeeps ==
    ASSUME IInv, AbortEnds, UNCHANGED main PROVE IInv'
<1>1. CallTypeOK'
  BY DEF AbortEnds, Places
<1>2. DriverTypeOK'
  BY AbortEndsDriverTypeOK
<1>3. ConnTypeOK'
  BY DEF AbortEnds
<1>4. StreamTypeOK'
  BY DEF AbortEnds
<1>5. MainTypeOK'
  BY DEF AbortEnds, Fields
<1>6. Control'
  BY DEF AbortEnds
<1>7. Owned'
  BY DEF AbortEnds
<1>8. Wired'
  BY DEF AbortEnds
<1>9. Accounted'
  BY DEF AbortEnds, Accounted
<1>10. NoDanglingToken'
  BY DEF AbortEnds, NoDanglingToken, InUse
<1> QED BY <1>1, <1>2, <1>3, <1>4, <1>5, <1>6, <1>7, <1>8, <1>9, <1>10 DEF IInv, TypeOK

LEMMA TransmittedKeeps ==
    ASSUME IInv, Transmitted, UNCHANGED main PROVE IInv'
<1>1. CASE TxOver /\ asked' = asked
  <2>1. CallTypeOK'
    BY <1>1 DEF Transmitted, TxOver, SameConn, Toks, Places
  <2>2. DriverTypeOK'
    BY <1>1 DEF Transmitted, TxOver, SameConn, Toks
  <2>3. ConnTypeOK'
    BY <1>1 DEF Transmitted, TxOver, SameConn, Toks
  <2>4. StreamTypeOK'
    BY <1>1 DEF Transmitted, TxOver, SameConn, Toks
  <2>5. MainTypeOK'
    BY <1>1 DEF Transmitted, TxOver, SameConn, Toks, Fields
  <2>6. Control'
    BY <1>1 DEF Transmitted, TxOver, SameConn, Toks
  <2>7. Owned'
    BY <1>1 DEF Transmitted, TxOver, SameConn, Toks
  <2>8. Wired'
    BY <1>1 DEF Transmitted, TxOver, SameConn, Toks
  <2>9. Accounted'
    BY <1>1 DEF Transmitted, TxOver, SameConn, Toks, Accounted
  <2>10. NoDanglingToken'
    BY <1>1 DEF Transmitted, TxOver, SameConn, Toks, NoDanglingToken, InUse
  <2> QED BY <2>1, <2>2, <2>3, <2>4, <2>5, <2>6, <2>7, <2>8, <2>9, <2>10 DEF IInv, TypeOK
<1>2. CASE TxOn /\ asked' = asked
  <2>1. CallTypeOK'
    BY <1>2 DEF Transmitted, TxOn, SameConn, Toks, Places
  <2>2. DriverTypeOK'
    BY <1>2 DEF Transmitted, TxOn, SameConn, Toks
  <2>3. ConnTypeOK'
    BY <1>2 DEF Transmitted, TxOn, SameConn, Toks
  <2>4. StreamTypeOK'
    BY <1>2 DEF Transmitted, TxOn, SameConn, Toks
  <2>5. MainTypeOK'
    BY <1>2 DEF Transmitted, TxOn, SameConn, Toks, Fields
  <2>6. Control'
    BY <1>2 DEF Transmitted, TxOn, SameConn, Toks
  <2>7. Owned'
    BY <1>2 DEF Transmitted, TxOn, SameConn, Toks
  <2>8. Wired'
    BY <1>2 DEF Transmitted, TxOn, SameConn, Toks
  <2>9. Accounted'
    BY <1>2 DEF Transmitted, TxOn, SameConn, Toks, Accounted
  <2>10. NoDanglingToken'
    BY <1>2 DEF Transmitted, TxOn, SameConn, Toks, NoDanglingToken, InUse
  <2> QED BY <2>1, <2>2, <2>3, <2>4, <2>5, <2>6, <2>7, <2>8, <2>9, <2>10 DEF IInv, TypeOK
<1> QED BY <1>1, <1>2, TransmittedMeans DEF IInv, Transmitted

LEMMA WriteTimesOutKeeps ==
    ASSUME IInv, WriteTimesOut, UNCHANGED main PROVE IInv'
<1>1. CallTypeOK'
  BY DEF WriteTimesOut, Places
<1>2. DriverTypeOK'
  BY DEF WriteTimesOut
<1>3. ConnTypeOK'
  BY DEF WriteTimesOut
<1>4. StreamTypeOK'
  BY DEF WriteTimesOut
<1>5. MainTypeOK'
  BY DEF WriteTimesOut, Fields
<1>6. Control'
  BY DEF WriteTimesOut
<1>7. Owned'
  BY DEF WriteTimesOut
<1>8. Wired'
  BY DEF WriteTimesOut
<1>9. Accounted'
  BY DEF WriteTimesOut, Accounted
<1>10. NoDanglingToken'
  BY DEF WriteTimesOut, NoDanglingToken, InUse
<1> QED BY <1>1, <1>2, <1>3, <1>4, <1>5, <1>6, <1>7, <1>8, <1>9, <1>10 DEF IInv, TypeOK

LEMMA WriteCancelledKeeps ==
    ASSUME IInv, WriteCancelled, UNCHANGED main PROVE IInv'
<1>1. CASE TxOver
  <2>1. CallTypeOK'
    BY <1>1 DEF WriteCancelled, TxOver, SameConn, Toks, Places
  <2>2. DriverTypeOK'
    BY <1>1 DEF WriteCancelled, TxOver, SameConn, Toks
  <2>3. ConnTypeOK'
    BY <1>1 DEF WriteCancelled, TxOver, SameConn, Toks
  <2>4. StreamTypeOK'
    BY <1>1 DEF WriteCancelled, TxOver, SameConn, Toks
  <2>5. MainTypeOK'
    BY <1>1 DEF WriteCancelled, TxOver, SameConn, Toks, Fields
  <2>6. Control'
    BY <1>1 DEF WriteCancelled, TxOver, SameConn, Toks
  <2>7. Owned'
    BY <1>1 DEF WriteCancelled, TxOver, SameConn, Toks
  <2>8. Wired'
    BY <1>1 DEF WriteCancelled, TxOver, SameConn, Toks
  <2>9. Accounted'
    BY <1>1 DEF WriteCancelled, TxOver, SameConn, Toks, Accounted
  <2>10. NoDanglingToken'
    BY <1>1 DEF WriteCancelled, TxOver, SameConn, Toks, NoDanglingToken, InUse
  <2> QED BY <2>1, <2>2, <2>3, <2>4, <2>5, <2>6, <2>7, <2>8, <2>9, <2>10 DEF IInv, TypeOK
<1> QED BY <1>1, WriteCancelledMeans DEF IInv, WriteCancelled

LEMMA RxCancelledKeeps ==
    ASSUME IInv, RxCancelled, UNCHANGED main PROVE IInv'
<1>0. at = "cancelRx" /\ UNCHANGED <<ret, tries, left, listen, newChild, quitKey, main>>
  BY DEF RxCancelled, main
<1>1. CASE Parting
  <2>1. CallTypeOK'
    BY <1>0, <1>1 DEF Parting, Toks, Places
  <2>2. DriverTypeOK'
    BY <1>0, <1>1 DEF Parting, Toks
  <2>3. ConnTypeOK'
    BY <1>0, <1>1 DEF Parting, Toks
  <2>4. StreamTypeOK'
    BY <1>0, <1>1 DEF Parting, Toks
  <2>5. MainTypeOK'
    BY <1>0, <1>1 DEF Parting, Toks, Fields
  <2>6. Control'
    BY <1>0, <1>1 DEF Parting, Toks
  <2>7. Owned'
    BY <1>0, <1>1 DEF Parting, Toks
  <2>8. Wired'
    <3>1. /\ conn.RxAvail \in Nat /\ conn'.RxAvail = conn.RxAvail /\ conn'.RxPosted = FALSE
          /\ conn'.Tcp = conn.Tcp /\ conn'.Handle = conn.Handle
      BY <1>1 DEF Parting, IInv, TypeOK, ConnTypeOK, NetConn
    <3>2. conn.Tcp
      BY <1>0 DEF IInv, Wired
    <3>3. tok'["rx"] = "held" => conn'.RxAvail = 0
      BY <1>1, <3>1 DEF Parting, IInv, Wired
    <3>4. /\ "accept" \notin events' /\ "tx" \notin events' /\ at' \in {"closing", "destroying"}
          /\ "rx" \notin events' \/ at' = "closing"
          /\ "close" \notin events' \/ at' = "closing"
      BY <1>0, <1>1 DEF Parting, IInv, Wired
    <3>5. conn'.Tcp <=> conn'.Handle # None
      BY <3>1 DEF IInv, Wired
    <3> QED BY <3>1, <3>2, <3>3, <3>4, <3>5 DEF Wired
  <2>9. Accounted'
    BY <1>0, <1>1 DEF Parting, Toks, Accounted
  <2>10. NoDanglingToken'
    BY <1>0, <1>1 DEF Parting, Toks, NoDanglingToken, InUse
  <2> QED BY <2>1, <2>2, <2>3, <2>4, <2>5, <2>6, <2>7, <2>8, <2>9, <2>10 DEF IInv, TypeOK
<1> QED BY <1>1, CloseStartMeans DEF IInv, RxCancelled

LEMMA CloseEndsKeeps ==
    ASSUME IInv, CloseEnds, UNCHANGED main PROVE IInv'
<1>0. at = "closing" /\ UNCHANGED <<ret, tries, left, listen, newChild, quitKey, main>>
  BY DEF CloseEnds, main
<1>1. CASE Parting
  <2>1. CallTypeOK'
    BY <1>0, <1>1 DEF Parting, Toks, Places
  <2>2. DriverTypeOK'
    BY <1>0, <1>1 DEF Parting, Toks
  <2>3. ConnTypeOK'
    BY <1>0, <1>1 DEF Parting, Toks
  <2>4. StreamTypeOK'
    BY <1>0, <1>1 DEF Parting, Toks
  <2>5. MainTypeOK'
    BY <1>0, <1>1 DEF Parting, Toks, Fields
  <2>6. Control'
    BY <1>0, <1>1 DEF Parting, Toks
  <2>7. Owned'
    BY <1>0, <1>1 DEF Parting, Toks
  <2>8. Wired'
    <3>1. /\ conn.RxAvail \in Nat /\ conn'.RxAvail = conn.RxAvail /\ conn'.RxPosted = FALSE
          /\ conn'.Tcp = conn.Tcp /\ conn'.Handle = conn.Handle
      BY <1>1 DEF Parting, IInv, TypeOK, ConnTypeOK, NetConn
    <3>2. conn.Tcp
      BY <1>0 DEF IInv, Wired
    <3>3. tok'["rx"] = "held" => conn'.RxAvail = 0
      BY <1>1, <3>1 DEF Parting, IInv, Wired
    <3>4. /\ "accept" \notin events' /\ "tx" \notin events' /\ at' \in {"closing", "destroying"}
          /\ "rx" \notin events' \/ at' = "closing"
          /\ "close" \notin events' \/ at' = "closing"
      BY <1>0, <1>1 DEF Parting, IInv, Wired
    <3>5. conn'.Tcp <=> conn'.Handle # None
      BY <3>1 DEF IInv, Wired
    <3> QED BY <3>1, <3>2, <3>3, <3>4, <3>5 DEF Wired
  <2>9. Accounted'
    BY <1>0, <1>1 DEF Parting, Toks, Accounted
  <2>10. NoDanglingToken'
    BY <1>0, <1>1 DEF Parting, Toks, NoDanglingToken, InUse
  <2> QED BY <2>1, <2>2, <2>3, <2>4, <2>5, <2>6, <2>7, <2>8, <2>9, <2>10 DEF IInv, TypeOK
<1> QED BY <1>1, CloseEndsMeans DEF IInv

LEMMA DestroyChildKeeps ==
    ASSUME IInv, DestroyChild, UNCHANGED main PROVE IInv'
<1>0. at = "destroying" /\ UNCHANGED <<ret, tries, left, listen, newChild, quitKey, main>>
  BY DEF DestroyChild, main
<1>1. CASE Gone
  <2>1. CallTypeOK'
    BY <1>0, <1>1 DEF Gone, Toks, Places
  <2>2. DriverTypeOK'
    BY <1>0, <1>1 DEF Gone, Toks
  <2>3. ConnTypeOK'
    BY <1>0, <1>1 DEF Gone, Toks
  <2>4. StreamTypeOK'
    BY <1>0, <1>1 DEF Gone, Toks
  <2>5. MainTypeOK'
    BY <1>0, <1>1 DEF Gone, Toks, Fields
  <2>6. Control'
    BY <1>0, <1>1 DEF Gone, Toks
  <2>7. Owned'
    BY <1>0, <1>1 DEF Gone, Toks
  <2>8. Wired'
    BY <1>0, <1>1 DEF Gone, Toks
  <2>9. Accounted'
    BY <1>0, <1>1 DEF Gone, Toks, Accounted
  <2>10. NoDanglingToken'
    <3>1. at = "destroying" /\ tok["accept"] = tok'["accept"] /\ ("accept" \in stuck => "accept" \in stuck')
      BY <1>0, <1>1 DEF Gone
    <3>2. tok'["rx"] = "free" /\ tok'["tx"] = "free" /\ tok'["close"] = "free"
      BY <1>1 DEF Gone
    <3>3. tok["accept"] = "held" => "accept" \in stuck
      BY <3>1 DEF IInv, NoDanglingToken, InUse, Tokens
    <3> QED BY <3>1, <3>2, <3>3 DEF NoDanglingToken, Tokens
  <2> QED BY <2>1, <2>2, <2>3, <2>4, <2>5, <2>6, <2>7, <2>8, <2>9, <2>10 DEF IInv, TypeOK
<1> QED BY <1>1, DestroyChildMeans DEF IInv, DestroyChild

LEMMA DriverAcceptsKeeps ==
    ASSUME IInv, DriverAccepts, UNCHANGED main PROVE IInv'
<1>1. CallTypeOK'
  BY DEF DriverAccepts, Places
<1>2. DriverTypeOK'
  BY DEF DriverAccepts
<1>3. ConnTypeOK'
  BY DEF DriverAccepts
<1>4. StreamTypeOK'
  BY DEF DriverAccepts
<1>5. MainTypeOK'
  BY DEF DriverAccepts, Fields
<1>6. Control'
  BY DEF DriverAccepts
<1>7. Owned'
  BY DEF DriverAccepts
<1>8. Wired'
  BY DEF DriverAccepts
<1>9. Accounted'
  BY DEF DriverAccepts, Accounted
<1>10. NoDanglingToken'
  BY DEF DriverAccepts, NoDanglingToken, InUse
<1> QED BY <1>1, <1>2, <1>3, <1>4, <1>5, <1>6, <1>7, <1>8, <1>9, <1>10 DEF IInv, TypeOK

LEMMA DriverReceivesKeeps ==
    ASSUME IInv, DriverReceives, UNCHANGED main PROVE IInv'
<1>1. CallTypeOK'
  BY DEF DriverReceives, Bytes, Least, Places
<1>2. DriverTypeOK'
  BY DEF DriverReceives, Bytes, Least
<1>3. ConnTypeOK'
  BY DriverReceivesConnTypeOK
<1>4. StreamTypeOK'
  BY DriverReceivesStreamTypeOK
<1>5. MainTypeOK'
  BY DEF DriverReceives, Bytes, Least, Fields
<1>6. Control'
  BY DEF DriverReceives, Bytes, Least
<1>7. Owned'
  BY DriverReceivesOwned
<1>8. Wired'
  BY DEF DriverReceives, Bytes, Least
<1>9. Accounted'
  BY DEF DriverReceives, Bytes, Least, Accounted
<1>10. NoDanglingToken'
  BY DriverReceivesNoDangling
<1> QED BY <1>1, <1>2, <1>3, <1>4, <1>5, <1>6, <1>7, <1>8, <1>9, <1>10 DEF IInv, TypeOK

LEMMA DriverTransmitsKeeps ==
    ASSUME IInv, DriverTransmits, UNCHANGED main PROVE IInv'
<1>1. CallTypeOK'
  BY DEF DriverTransmits, Places
<1>2. DriverTypeOK'
  BY DEF DriverTransmits
<1>3. ConnTypeOK'
  BY DEF DriverTransmits
<1>4. StreamTypeOK'
  BY DriverTransmitsStreamTypeOK
<1>5. MainTypeOK'
  BY DEF DriverTransmits, Fields
<1>6. Control'
  BY DEF DriverTransmits
<1>7. Owned'
  BY DEF DriverTransmits
<1>8. Wired'
  BY DEF DriverTransmits
<1>9. Accounted'
  BY DEF DriverTransmits, Accounted
<1>10. NoDanglingToken'
  BY DEF DriverTransmits, NoDanglingToken, InUse
<1> QED BY <1>1, <1>2, <1>3, <1>4, <1>5, <1>6, <1>7, <1>8, <1>9, <1>10 DEF IInv, TypeOK

LEMMA DriverClosesKeeps ==
    ASSUME IInv, DriverCloses, UNCHANGED main PROVE IInv'
<1>1. CallTypeOK'
  BY DEF DriverCloses, Places
<1>2. DriverTypeOK'
  BY DEF DriverCloses
<1>3. ConnTypeOK'
  BY DEF DriverCloses
<1>4. StreamTypeOK'
  BY DEF DriverCloses
<1>5. MainTypeOK'
  BY DEF DriverCloses, Fields
<1>6. Control'
  BY DEF DriverCloses
<1>7. Owned'
  BY DEF DriverCloses
<1>8. Wired'
  BY DEF DriverCloses
<1>9. Accounted'
  BY DEF DriverCloses, Accounted
<1>10. NoDanglingToken'
  BY DEF DriverCloses, NoDanglingToken, InUse
<1> QED BY <1>1, <1>2, <1>3, <1>4, <1>5, <1>6, <1>7, <1>8, <1>9, <1>10 DEF IInv, TypeOK

LEMMA DriverFailsKeeps ==
    ASSUME IInv, DriverFails, UNCHANGED main PROVE IInv'
<1>1. CallTypeOK'
  BY DEF DriverFails, Places
<1>2. DriverTypeOK'
  BY DEF DriverFails
<1>3. ConnTypeOK'
  BY DEF DriverFails
<1>4. StreamTypeOK'
  BY DEF DriverFails
<1>5. MainTypeOK'
  BY DEF DriverFails, Fields
<1>6. Control'
  BY DEF DriverFails
<1>7. Owned'
  BY DEF DriverFails
<1>8. Wired'
  BY DEF DriverFails
<1>9. Accounted'
  BY DEF DriverFails, Accounted
<1>10. NoDanglingToken'
  BY DEF DriverFails, NoDanglingToken, InUse
<1> QED BY <1>1, <1>2, <1>3, <1>4, <1>5, <1>6, <1>7, <1>8, <1>9, <1>10 DEF IInv, TypeOK

LEMMA KeyPressedKeeps ==
    ASSUME IInv, KeyPressed, UNCHANGED main PROVE IInv'
<1>1. CallTypeOK'
  BY DEF KeyPressed, Places
<1>2. DriverTypeOK'
  BY DEF KeyPressed
<1>3. ConnTypeOK'
  BY DEF KeyPressed
<1>4. StreamTypeOK'
  BY DEF KeyPressed
<1>5. MainTypeOK'
  BY DEF KeyPressed, Fields
<1>6. Control'
  BY DEF KeyPressed
<1>7. Owned'
  BY DEF KeyPressed
<1>8. Wired'
  BY DEF KeyPressed
<1>9. Accounted'
  BY DEF KeyPressed, Accounted
<1>10. NoDanglingToken'
  BY DEF KeyPressed, NoDanglingToken, InUse
<1> QED BY <1>1, <1>2, <1>3, <1>4, <1>5, <1>6, <1>7, <1>8, <1>9, <1>10 DEF IInv, TypeOK

HIDE DEF IInv, TypeOK, CallTypeOK, DriverTypeOK, ConnTypeOK, StreamTypeOK,
        MainTypeOK, Control, InSession, Owned, HasConsole, Wired, Tokens,
        WaitEvents, call, driver, stream, tcpVars, main, Returns, Waits

----------------------------------------------------------------------------
\* The invariant holds.

LEMMA InitIInv == Init => IInv
<1> SUFFICES ASSUME Init PROVE IInv
  OBVIOUS
<1>1. <<>> \in Seq(Nat)
  OBVIOUS
<1>2. NoConn \in NetConn /\ NoConn.Tcp = FALSE /\ NoConn.Handle = None /\ NoConn.RxPosted = FALSE
      /\ NoConn.RxAvail = 0
  BY <1>1 DEF NoConn, NetConn
<1>3. CallTypeOK /\ DriverTypeOK
  <2>1. CallTypeOK
    BY DEF Init, TcpInit, CallTypeOK, Places
  <2>2. tok \in [Tokens -> {"free", "held", "done", "failed"}]
    BY DEF Init, TcpInit
  <2>3. quitKey \in BOOLEAN
    BY DEF Init, TcpInit
  <2> QED BY <2>1, <2>2, <2>3 DEF Init, TcpInit, DriverTypeOK
<1>4. ConnTypeOK /\ StreamTypeOK
  BY <1>1, <1>2 DEF Init, TcpInit, ConnTypeOK, StreamTypeOK
<1>5. MainTypeOK
  <2>1. shim \in [Installed : BOOLEAN, Old : [Fields -> {"local", "shim"}], Protocols : BOOLEAN]
    BY DEF Init, Local
  <2>2. cand \in 1..(Len(Candidates) + 1)
    BY CandidatesTyped DEF Init
  <2>3. table \in [Fields -> {"local", "shim"}] /\ crc \in [Fields -> {"local", "shim"}]
    BY DEF Init, Local
  <2>4. events \subseteq Tokens \cup WaitEvents
    BY DEF Init, TcpInit
  <2>5. failures \in 0..MaxFailures
    BY DEF Init
  <2>6. running \in BOOLEAN
    BY DEF Init
  <2>7. pc = "start" /\ ssh = "none" /\ status = "ok"
    BY DEF Init
  <2> QED BY <2>1, <2>2, <2>3, <2>4, <2>5, <2>6, <2>7 DEF MainTypeOK
<1>6. Control /\ Owned /\ Wired
  BY <1>2 DEF Init, TcpInit, Control, Owned, Wired, InSession, HasConsole, WaitEvents, Tokens
<1>7. Accounted /\ NoDanglingToken
  BY DEF Init, TcpInit, Accounted, NoDanglingToken, Tokens
<1> QED BY <1>3, <1>4, <1>5, <1>6, <1>7 DEF IInv, TypeOK

LEMMA StutterKeeps == ASSUME IInv, UNCHANGED vars PROVE IInv'
BY DEF vars, tcpVars, call, driver, stream, main, IInv, TypeOK, CallTypeOK, DriverTypeOK,
       ConnTypeOK, StreamTypeOK, MainTypeOK, Control, InSession, Owned, HasConsole, Wired,
       Accounted, NoDanglingToken, InUse

LEMMA NextIInv == IInv /\ [Next]_vars => IInv'
<1> SUFFICES ASSUME IInv, [Next]_vars PROVE IInv'
  OBVIOUS
<1>1. CASE MainLoop
  BY <1>1, StartKeeps, ListeningKeeps, CallAcceptKeeps, StopServerKeeps, AcceptAgainKeeps,
     NewSessionKeeps, LoggedInKeeps, InstallFailsKeeps, ShimInstallKeeps, TryImageKeeps,
     ShimRemoveKeeps, MessageSentKeeps, SessionEndsKeeps, DisconnectedKeeps DEF MainLoop
<1>2. CASE SshReads \/ SshWrites \/ SshEnds \/ ShellExits
  BY <1>2, SshReadsKeeps, SshWritesKeeps, SshEndsKeeps, ShellExitsKeeps
<1>3. CASE Waiting /\ UNCHANGED main
  BY <1>3, ConfiguredKeeps, ConfigureAgainKeeps, ConfigureFailsKeeps, AcceptedKeeps,
     AcceptFailedKeeps, AcceptAbortedKeeps, AbortEndsKeeps, TransmittedKeeps, WriteTimesOutKeeps,
     WriteCancelledKeeps, RxCancelledKeeps, CloseEndsKeeps, DestroyChildKeeps DEF Waiting
<1>4. CASE Driver /\ UNCHANGED main
  BY <1>4, DriverAcceptsKeeps, DriverReceivesKeeps, DriverTransmitsKeeps, DriverClosesKeeps,
     DriverFailsKeeps, KeyPressedKeeps DEF Driver
<1>5. CASE UNCHANGED vars
  BY <1>5, StutterKeeps
<1> QED BY <1>1, <1>2, <1>3, <1>4, <1>5 DEF Next

LEMMA AlwaysIInv == Spec => []IInv
BY InitIInv, NextIInv, PTL DEF Spec

----------------------------------------------------------------------------
\* The theorems.

\* The state keeps its types; in particular no accept failure is counted past the limit
\* that stops the server, and no NetRead goes past the bytes of its Receive.
THEOREM TypeTheorem == Spec => []TypeOK
BY AlwaysIInv, PTL DEF IInv

\* The driver holds no token whose frame NetAccept, NetWrite or NetCloseConn has left or
\* whose event is closed, except one whose Cancel it has ignored for as long as they wait
\* and, between net.c:324 and 333, a close token it has not answered.
THEOREM TokenTheorem == Spec => []NoDanglingToken
BY AlwaysIInv, PTL DEF IInv

\* No TCP child gets lost over failed and repeated accepts, except one that comes while
\* NetAccept is being aborted.
THEOREM ChildTheorem == Spec => []NoChildLost
<1>1. IInv => NoChildLost
  BY DEF IInv, Accounted, NoChildLost
<1> QED BY <1>1, AlwaysIInv, PTL

\* Whatever failed in a session, nothing of it is left when the main loop of EfiMain
\* waits for the next client or has stopped.
THEOREM CleanTheorem == Spec => []CleanBetweenClients
<1>1. IInv => CleanBetweenClients
  <2> SUFFICES ASSUME IInv, pc \in {"loop", "stopped"} \/ at = "accepting" PROVE CleanBetweenClients
    BY DEF CleanBetweenClients
  <2>1. pc \in {"loop", "stopped", "accept"} /\ ~InSession /\ ~HasConsole
    BY DEF IInv, Control, InSession, HasConsole, TypeOK, MainTypeOK
  <2>2. ~conn.Tcp
    BY <2>1 DEF IInv, Control, Owned
  <2>3. ssh = "none" /\ ~shim.Protocols /\ table = Local /\ WaitEvents \cap events = {}
    BY <2>1 DEF IInv, Owned
  <2>4. "tx" \notin events /\ "close" \notin events /\ "rx" \notin events
    BY <2>1, <2>2 DEF IInv, Control, Wired
  <2>5. events \subseteq {"accept"}
    BY <2>3, <2>4 DEF IInv, TypeOK, MainTypeOK, Tokens, WaitEvents
  <2>6. \A k \in Tokens \ {"accept"} : tok[k] = "free"
    BY <2>2 DEF IInv, Wired, Tokens
  <2> QED BY <2>2, <2>3, <2>5, <2>6 DEF CleanBetweenClients
<1> QED BY <1>1, AlwaysIInv, PTL

\* The system table names the shim only while its protocols, its events and the
\* connection under it are there, and its checksum is up to date.
THEOREM ConsoleTheorem == Spec => []ConsoleBacked
<1>1. IInv => ConsoleBacked
  <2> SUFFICES ASSUME IInv, NEW f \in Fields, table[f] = "shim"
               PROVE  shim.Protocols /\ WaitEvents \subseteq events /\ ssh # "none" /\ conn.Tcp
    BY DEF ConsoleBacked, IInv, Owned
  <2>1. table # Local
    BY DEF Local
  <2>2. HasConsole
    BY <2>1 DEF IInv, Owned
  <2> QED BY <2>2 DEF IInv, Owned, HasConsole, InSession
<1> QED BY <1>1, AlwaysIInv, PTL
----------------------------------------------------------------------------
\* Server.tla implements Service.tla: every step of the server is a step of the promise or
\* leaves phase and bytes alone.  The invariant Counted says which numbers the bytes in the
\* receive buffer and in the chunk under way have, in relation to what NetRead has returned
\* and to what has gone out.

\* The bytes of buf after the first off are the next n after those of got.
Follows(buf, off, n) == \A j \in 1..n : buf[off + j] = Len(got) + j

\* Until NetCloseConn, each byte the driver has handed out was returned by NetRead or is in
\* the buffer, behind a completed token or readable.
CountedIn ==
    conn.Tcp /\ at \notin {"closing", "destroying"} =>
        /\ tok["rx"] # "free" => conn.RxPosted
        /\ IF tok["rx"] = "done"
             THEN handed = Len(got) + Len(conn.RxBuf) /\ Follows(conn.RxBuf, 0, Len(conn.RxBuf))
             ELSE handed = Len(got) + conn.RxAvail /\ Follows(conn.RxBuf, conn.RxOff, conn.RxAvail)

\* A Transmit under way takes the bytes after those that went out.
ChunkNext == \A i \in 1..Len(chunk) : chunk[i] = Len(out) + i

\* A NetWrite that goes well leaves nothing unsent; a Transmit that outlives its NetWrite
\* belongs to a connection that is lost.
CountedOut ==
    /\ tok["tx"] = "held" => Len(chunk) <= ChunkSize /\ ChunkNext
    /\ at \in {"writing", "cancelling"} =>
         /\ Len(chunk) <= left
         /\ tok["tx"] = "held" => asked - left = Len(out)
         /\ tok["tx"] = "done" => asked - left + Len(chunk) = Len(out)
    /\ at = "idle" /\ conn.Tcp /\ tok["tx"] = "held" => ret = "lost"
    /\ at = "idle" /\ conn.Tcp /\ ret # "lost" => asked = Len(out)

\* A connection begins with nothing sent and nothing received.
CountedAnew == ~conn.Tcp => got = <<>> /\ out = <<>> /\ handed = 0 /\ asked = 0

Counted == CountedIn /\ CountedOut /\ CountedAnew

----------------------------------------------------------------------------
\* Lemmas about the bytes.

LEMMA LongerMeans ==
    ASSUME NEW s \in Seq(Nat), NEW t \in Seq(Nat), \A i \in 1..Len(t) : t[i] = Len(s) + i
    PROVE  s \o t = Promise!Longer(s, Len(t))
<1> DEFINE u == [i \in 1..Len(t) |-> Len(s) + i]
<1>1. Len(t) \in Nat /\ Len(s) \in Nat /\ \A i \in 1..Len(t) : Len(s) + i \in Nat
  OBVIOUS
<1>2. u \in Seq(Nat) /\ Len(u) = Len(t) /\ \A i \in 1..Len(t) : u[i] = Len(s) + i
  <2>1. u \in [1..Len(t) -> Nat] /\ \A i \in 1..Len(t) : u[i] = Len(s) + i
    BY <1>1
  <2> HIDE DEF u
  <2> QED BY <2>1, <1>1
<1> HIDE DEF u
<1>3. t = u
  <2>1. \A i \in 1..Len(t) : t[i] = u[i]
    BY <1>2
  <2> QED BY <1>2, <2>1, SeqEqual
<1> QED BY <1>3 DEF Promise!Longer, u

LEMMA TakenCounts ==
    ASSUME TypeOK, NEW c \in NetConn, NEW max \in 1..RxSize, Taken(c, max),
           c.RxOff + c.RxAvail <= Len(c.RxBuf) \/ c.RxAvail = 0,
           handed = Len(got) + c.RxAvail, Follows(c.RxBuf, c.RxOff, c.RxAvail)
    PROVE  /\ got' = got \/ \E n \in 1..RxSize : got' = Promise!Longer(got, n)
           /\ conn'.RxPosted = c.RxPosted
           /\ handed = Len(got') + conn'.RxAvail
           /\ Follows(conn.RxBuf, conn.RxOff, conn.RxAvail)'
<1> DEFINE n == Least(c.RxAvail, max)
<1>1. n \in Nat /\ n <= c.RxAvail /\ n <= RxSize /\ max \in Nat
  <2>1. c.RxAvail \in Nat /\ max \in Nat /\ max <= RxSize /\ RxSize \in Nat
    BY DEF NetConn
  <2> QED BY <2>1 DEF Least
<1>2. CASE n = 0
  <2>1. conn' = c /\ got' = got
    BY <1>2 DEF Taken
  <2> QED BY <2>1 DEF Follows
<1>3. CASE n # 0
  <2>1. /\ conn' = [c EXCEPT !.RxOff = c.RxOff + n, !.RxAvail = c.RxAvail - n]
        /\ got' = got \o SubSeq(c.RxBuf, c.RxOff + 1, c.RxOff + n)
    BY <1>3 DEF Taken
  <2>2. c.RxOff + n <= Len(c.RxBuf) /\ c.RxOff \in Nat /\ c.RxAvail \in Nat /\ c.RxBuf \in Seq(Nat)
    BY <1>1, <1>3 DEF NetConn
  <2>3. got \in Seq(Nat) /\ Len(got) \in Nat
    BY DEF TypeOK, StreamTypeOK
  <2> HIDE DEF n
  <2>4. /\ conn'.RxOff = c.RxOff + n /\ conn'.RxAvail = c.RxAvail - n
        /\ conn'.RxBuf = c.RxBuf /\ conn'.RxPosted = c.RxPosted
    BY <2>1 DEF NetConn
  <2> DEFINE t == SubSeq(c.RxBuf, c.RxOff + 1, c.RxOff + n)
  <2>5. t \in Seq(Nat) /\ Len(t) = n /\ \A i \in 1..n : t[i] = c.RxBuf[c.RxOff + i]
    <3>1. \A i \in (c.RxOff + 1)..(c.RxOff + n) : c.RxBuf[i] \in Nat
      <4> TAKE i \in (c.RxOff + 1)..(c.RxOff + n)
      <4>1. i \in 1..Len(c.RxBuf)
        BY <2>2, <1>1
      <4> QED BY <4>1, <2>2, ElementOfSeq
    <3>2. c.RxOff + 1 \in Int /\ c.RxOff + n \in Int
      BY <2>2, <1>1
    <3>3. c.RxOff + 1 <= c.RxOff + n /\ (c.RxOff + n) - (c.RxOff + 1) + 1 = n
      BY <2>2, <1>1, <1>3
    <3>4. \A i \in 1..n : t[i] = c.RxBuf[(c.RxOff + 1) + i - 1]
      BY <3>1, <3>2, <3>3, SubSeqProperties
    <3>5. \A i \in 1..n : (c.RxOff + 1) + i - 1 = c.RxOff + i
      BY <2>2, <1>1
    <3>6. t \in Seq(Nat) /\ Len(t) = n
      BY <3>1, <3>2, <3>3, SubSeqProperties
    <3> QED BY <3>4, <3>5, <3>6
  <2>6. \A i \in 1..n : c.RxBuf[c.RxOff + i] = Len(got) + i
    BY <1>1, <2>2 DEF Follows
  <2> HIDE DEF t
  <2>7. got' = got \o t
    BY <2>1 DEF t
  <2>8. got' = Promise!Longer(got, n)
    BY <2>3, <2>5, <2>6, <2>7, LongerMeans
  <2>9. Len(got') = Len(got) + n
    BY <2>3, <2>5, <2>7, ConcatProperties
  <2>10. handed = Len(got') + conn'.RxAvail
    BY <2>2, <2>3, <2>4, <2>9, <1>1
  <2>11. \A j \in 1..(c.RxAvail - n) : c.RxBuf[c.RxOff + n + j] = Len(got) + n + j
    <3> TAKE j \in 1..(c.RxAvail - n)
    <3> DEFINE a == c.RxAvail  r == c.RxOff
    <3>0. n \in Nat /\ a \in Nat /\ r \in Nat /\ n <= a /\ j \in 1..(a - n)
      BY <1>1, <2>2
    <3> HIDE DEF a, r, n
    <3>1. n + j \in 1..a /\ r + (n + j) = r + n + j
      BY <3>0
    <3> USE DEF a, r
    <3>2. c.RxBuf[c.RxOff + (n + j)] = Len(got) + (n + j)
      BY <3>1 DEF Follows
    <3> QED BY <3>1, <3>2, <2>3, <1>1
  <2>12. Follows(conn.RxBuf, conn.RxOff, conn.RxAvail)'
    BY <2>4, <2>9, <2>11 DEF Follows
  <2>13. n \in 1..RxSize
    BY <1>1, <1>3
  <2> QED BY <2>4, <2>8, <2>10, <2>12, <2>13
<1> QED BY <1>2, <1>3

LEMMA ReadsCount ==
    ASSUME IInv, Counted, SshReads
    PROVE  CountedIn' /\ (got' = got \/ \E n \in 1..RxSize : got' = Promise!Longer(got, n))
<1>1. PICK max \in 1..RxSize : NetRead(max)
  BY DEF SshReads
<1>2. /\ at = "idle" /\ at' = "idle" /\ conn.Tcp /\ handed' = handed /\ tok \in Toks
      /\ TypeOK /\ Wired /\ CountedIn
  BY <1>1 DEF NetRead, IInv, TypeOK, DriverTypeOK, Toks, Counted
<1>3. /\ conn \in NetConn
      /\ conn.RxOff + conn.RxAvail <= Len(conn.RxBuf) \/ conn.RxAvail = 0
      /\ got \in Seq(Nat) /\ Len(got) \in Nat
  BY <1>2 DEF TypeOK, ConnTypeOK, StreamTypeOK
<1> SUFFICES ASSUME NEW c \in NetConn, Taken(c, max),
                    c.RxOff + c.RxAvail <= Len(c.RxBuf) \/ c.RxAvail = 0,
                    handed = Len(got) + c.RxAvail, Follows(c.RxBuf, c.RxOff, c.RxAvail),
                    tok'["rx"] # "done", tok'["rx"] # "free" => c.RxPosted
             PROVE  CountedIn' /\ (got' = got \/ \E n \in 1..RxSize : got' = Promise!Longer(got, n))
  <2>1. CASE /\ conn.RxAvail > 0 \/ IF conn.RxPosted THEN tok["rx"] = "held" ELSE conn.Closed
             /\ Taken(conn, max) /\ UNCHANGED tok
    <3>1. tok["rx"] # "done" /\ (tok["rx"] # "free" => conn.RxPosted)
      BY <1>2, <2>1 DEF CountedIn, Wired
    <3>2. handed = Len(got) + conn.RxAvail /\ Follows(conn.RxBuf, conn.RxOff, conn.RxAvail)
      BY <1>2, <3>1 DEF CountedIn
    <3> QED BY <1>3, <2>1, <3>1, <3>2
  <2>2. CASE conn.RxAvail = 0 /\ ~conn.RxPosted
    <3>1. tok["rx"] = "free" /\ handed = Len(got)
      BY <1>2, <1>3, <2>2 DEF CountedIn
    <3>2. ASSUME Taken([conn EXCEPT !.RxPosted = TRUE], max), tok' = [tok EXCEPT !["rx"] = "held"]
          PROVE  CountedIn' /\ (got' = got \/ \E n \in 1..RxSize : got' = Promise!Longer(got, n))
      <4> DEFINE d == [conn EXCEPT !.RxPosted = TRUE]
      <4>1. d \in NetConn /\ d.RxPosted = TRUE /\ d.RxAvail = 0
        BY <1>3, <2>2 DEF NetConn
      <4>2. tok'["rx"] = "held"
        BY <1>2, <3>2 DEF Toks, Tokens
      <4>3. Taken(d, max)
        BY <3>2
      <4> HIDE DEF d
      <4>4. Follows(d.RxBuf, d.RxOff, d.RxAvail) /\ handed = Len(got) + d.RxAvail
        BY <4>1, <3>1, <1>3 DEF Follows
      <4> QED BY <4>1, <4>2, <4>3, <4>4
    <3>3. ASSUME Taken([conn EXCEPT !.Closed = TRUE], max), tok' = tok
          PROVE  CountedIn' /\ (got' = got \/ \E n \in 1..RxSize : got' = Promise!Longer(got, n))
      <4> DEFINE d == [conn EXCEPT !.Closed = TRUE]
      <4>1. d \in NetConn /\ d.RxAvail = 0
        BY <1>3, <2>2 DEF NetConn
      <4>3. Taken(d, max)
        BY <3>3
      <4> HIDE DEF d
      <4>4. Follows(d.RxBuf, d.RxOff, d.RxAvail) /\ handed = Len(got) + d.RxAvail
        BY <4>1, <3>1, <1>3 DEF Follows
      <4> QED BY <3>1, <3>3, <4>1, <4>3, <4>4
    <3>4. CASE \/ conn.RxAvail > 0 \/ IF conn.RxPosted THEN tok["rx"] = "held" ELSE conn.Closed
      BY <1>1, <2>1, <2>2, <3>2, <3>3, <3>4 DEF NetRead
    <3>5. CASE ~(\/ conn.RxAvail > 0 \/ IF conn.RxPosted THEN tok["rx"] = "held" ELSE conn.Closed)
      BY <1>1, <2>2, <3>2, <3>3, <3>5 DEF NetRead
    <3> QED BY <3>4, <3>5
  <2>3. CASE conn.RxAvail = 0 /\ conn.RxPosted /\ tok["rx"] = "done" /\ Taken(Filled, max)
             /\ tok' = [tok EXCEPT !["rx"] = "free"]
    <3>1. handed = Len(got) + Len(conn.RxBuf) /\ Follows(conn.RxBuf, 0, Len(conn.RxBuf))
      BY <1>2, <2>3 DEF CountedIn
    <3>2. /\ Filled \in NetConn /\ Filled.RxOff = 0
          /\ Filled.RxAvail = Len(conn.RxBuf) /\ Filled.RxBuf = conn.RxBuf
      <4>1. Len(conn.RxBuf) \in Nat
        BY <1>3 DEF NetConn
      <4> QED BY <4>1, <1>3 DEF Filled, NetConn
    <3>3. tok'["rx"] = "free"
      BY <1>2, <2>3 DEF Toks, Tokens
    <3>4. Filled.RxOff + Filled.RxAvail <= Len(Filled.RxBuf)
      BY <3>2, <1>3 DEF NetConn
    <3> HIDE DEF Filled
    <3> QED BY <2>3, <3>1, <3>2, <3>3, <3>4
  <2>4. CASE conn.RxAvail = 0 /\ conn.RxPosted /\ tok["rx"] = "failed"
             /\ Taken([conn EXCEPT !.RxPosted = FALSE, !.Closed = TRUE], max)
             /\ tok' = [tok EXCEPT !["rx"] = "free"]
    <3> DEFINE d == [conn EXCEPT !.RxPosted = FALSE, !.Closed = TRUE]
    <3>1. d \in NetConn /\ d.RxAvail = 0
      BY <1>3, <2>4 DEF NetConn
    <3>2. tok'["rx"] = "free"
      BY <1>2, <2>4 DEF Toks, Tokens
    <3>3. Taken(d, max)
      BY <2>4
    <3>4. handed = Len(got)
      BY <1>2, <1>3, <2>4 DEF CountedIn
    <3> HIDE DEF d
    <3>5. Follows(d.RxBuf, d.RxOff, d.RxAvail) /\ handed = Len(got) + d.RxAvail
      BY <3>1, <3>4, <1>3 DEF Follows
    <3> QED BY <3>1, <3>2, <3>3, <3>5
  <2> QED BY <1>1, <2>1, <2>2, <2>3, <2>4 DEF NetRead
<1>4. /\ got' = got \/ \E n \in 1..RxSize : got' = Promise!Longer(got, n)
      /\ conn'.RxPosted = c.RxPosted
      /\ handed = Len(got') + conn'.RxAvail
      /\ Follows(conn.RxBuf, conn.RxOff, conn.RxAvail)'
  BY <1>2, TakenCounts
<1> QED BY <1>2, <1>4 DEF CountedIn

----------------------------------------------------------------------------
\* Counted is invariant.

\* What a step keeps that has nothing to do with the bytes.
Frame ==
    /\ UNCHANGED <<conn, chunk, handed, asked, got, out>>
    /\ tok'["rx"] = tok["rx"] /\ tok'["tx"] = tok["tx"]
    /\ at' \in {"writing", "cancelling"} => at \in {"writing", "cancelling"} /\ left' = left
    /\ conn.Tcp /\ at \in {"closing", "destroying"} => at' \in {"closing", "destroying"}
    /\ conn.Tcp /\ at' = "idle" => at = "idle" /\ ret' = ret

LEMMA FrameCounts == ASSUME Counted, Frame PROVE Counted'
<1>1. CountedIn'
  BY DEF Counted, CountedIn, Frame, Follows
<1>2. CountedOut'
  BY DEF Counted, CountedOut, ChunkNext, Frame
<1>3. CountedAnew'
  BY DEF Counted, CountedAnew, Frame
<1> QED BY <1>1, <1>2, <1>3 DEF Counted

LEMMA GoneCounts == ASSUME Gone PROVE Counted'
BY DEF Gone, Counted, CountedIn, CountedOut, CountedAnew

LEMMA PartingCounts ==
    ASSUME IInv, Counted, Parting PROVE Counted'
<1>1. CountedIn'
  BY DEF Parting, CountedIn
<1>2. CountedOut'
  BY DEF Parting, Counted, CountedOut, ChunkNext, stream
<1>3. CountedAnew'
  BY DEF Parting, Counted, CountedAnew, stream
<1> QED BY <1>1, <1>2, <1>3 DEF Counted

LEMMA AcceptedCounts ==
    ASSUME IInv, Counted, Accepted PROVE Counted'
<1>1. /\ ~conn.Tcp /\ UNCHANGED stream /\ tok["rx"] = "free" /\ tok["tx"] = "free"
      /\ got = <<>> /\ out = <<>> /\ handed = 0 /\ asked = 0
  BY DEF Accepted, IInv, Control, InSession, Owned, Wired, TypeOK, MainTypeOK, Counted, CountedAnew
<1>2. /\ tok'["rx"] = "free" /\ tok'["tx"] = "free" /\ conn'.RxAvail = 0
      /\ at' \in {"idle", "closing", "destroying"}
  BY <1>1, AcceptedMeans DEF IInv, Opened, Refused, Unread, Accepting
<1>3. CountedIn'
  BY <1>1, <1>2 DEF CountedIn, Follows, stream
<1>4. CountedOut'
  BY <1>1, <1>2 DEF CountedOut, stream
<1>5. CountedAnew'
  BY <1>1 DEF CountedAnew, stream
<1> QED BY <1>3, <1>4, <1>5 DEF Counted

LEMMA DriverReceivesCounts ==
    ASSUME IInv, Counted, DriverReceives PROVE Counted'
<1>1. PICK n \in 0..Least(RxSize, MaxIn - handed) :
        conn' = [conn EXCEPT !.RxBuf = Bytes(handed + 1, handed + n)] /\ handed' = handed + n
  BY DEF DriverReceives
<1>2. n \in Nat /\ handed \in Nat /\ got \in Seq(Nat) /\ Len(got) \in Nat
  BY <1>1 DEF IInv, TypeOK, StreamTypeOK, Least
<1>3. handed + 1 \in Nat \ {0} /\ handed + n \in Nat /\ handed + 1 <= handed + n + 1
  BY <1>2
<1>4. /\ conn'.RxBuf = Bytes(handed + 1, handed + n) /\ conn'.Tcp = conn.Tcp
      /\ conn'.RxPosted = conn.RxPosted
  BY <1>1 DEF IInv, TypeOK, ConnTypeOK, NetConn
<1>5. Len(conn'.RxBuf) = n /\ \A j \in 1..n : conn'.RxBuf[j] = handed + j
  <2> DEFINE a == handed + 1  b == handed + n
  <2>1. a \in Nat \ {0} /\ b \in Nat /\ a <= b + 1 /\ conn'.RxBuf = Bytes(a, b)
    BY <1>3, <1>4
  <2>2. b - a + 1 = n /\ \A j \in 1..n : a + j - 1 = handed + j
    BY <1>2
  <2> HIDE DEF a, b
  <2>3. /\ Len(Bytes(a, b)) = b - a + 1
        /\ \A j \in 1..(b - a + 1) : Bytes(a, b)[j] = a + j - 1
    BY <2>1, BytesTyped
  <2> QED BY <2>1, <2>2, <2>3
<1>6. /\ tok["rx"] = "held" /\ tok'["rx"] = "done" /\ tok'["tx"] = tok["tx"] /\ conn.Tcp
      /\ conn.RxAvail = 0
      /\ UNCHANGED <<at, ret, left, chunk, asked, got, out>>
  BY DEF DriverReceives, IInv, Wired, TypeOK, DriverTypeOK, Tokens, call
<1>7. CountedIn'
  <2> SUFFICES ASSUME at \notin {"closing", "destroying"} PROVE CountedIn'
    BY <1>6 DEF CountedIn
  <2>1. conn.RxPosted /\ handed = Len(got)
    BY <1>2, <1>6 DEF Counted, CountedIn
  <2>2. \A j \in 1..n : conn'.RxBuf[0 + j] = Len(got) + j
    BY <1>2, <1>5, <2>1
  <2>3. Follows(conn.RxBuf, 0, Len(conn.RxBuf))'
    BY <1>5, <1>6, <2>2 DEF Follows
  <2>4. handed' = Len(got') + Len(conn'.RxBuf)
    BY <1>1, <1>5, <1>6, <2>1
  <2> QED BY <1>4, <1>6, <2>1, <2>3, <2>4 DEF CountedIn
<1>8. CountedOut' /\ CountedAnew'
  BY <1>4, <1>6 DEF Counted, CountedOut, CountedAnew, ChunkNext
<1> QED BY <1>7, <1>8 DEF Counted

LEMMA DriverFailsCounts ==
    ASSUME IInv, Counted, DriverFails PROVE Counted'
<1>1. PICK k \in {"accept", "rx", "close"} : tok[k] = "held" /\ tok' = [tok EXCEPT ![k] = "failed"]
  BY DEF DriverFails
<1>2. /\ tok'["tx"] = tok["tx"]
      /\ tok'["rx"] = tok["rx"] \/ (tok["rx"] = "held" /\ tok'["rx"] = "failed")
  BY <1>1 DEF IInv, TypeOK, DriverTypeOK, Tokens
<1>3. UNCHANGED <<at, ret, left, conn, chunk, handed, asked, got, out>>
  BY DEF DriverFails, call, stream
<1>4. CountedIn'
  BY <1>2, <1>3 DEF Counted, CountedIn, Follows
<1>5. CountedOut' /\ CountedAnew'
  BY <1>2, <1>3 DEF Counted, CountedOut, CountedAnew, ChunkNext
<1> QED BY <1>4, <1>5 DEF Counted

LEMMA DriverTransmitsCounts ==
    ASSUME IInv, Counted, DriverTransmits
    PROVE  Counted' /\ (out' = out \/ \E n \in 1..ChunkSize : out' = Promise!Longer(out, n))
<1>1. /\ out \in Seq(Nat) /\ chunk \in Seq(Nat) /\ Len(out) \in Nat /\ Len(chunk) \in Nat
      /\ left \in Nat /\ asked \in Nat
  BY DEF IInv, TypeOK, StreamTypeOK, CallTypeOK
<1>2. /\ tok["tx"] = "held" /\ Len(chunk) <= ChunkSize /\ ChunkNext
      /\ tok'["rx"] = tok["rx"] /\ tok'["tx"] \in {"done", "failed"} /\ conn.Tcp
      /\ UNCHANGED <<at, ret, left, conn, chunk, handed, asked, got>>
  BY DEF DriverTransmits, Counted, CountedOut, IInv, Wired, TypeOK, DriverTypeOK, Tokens, call
<1>3. PICK n \in 0..Len(chunk) : /\ out' = out \o SubSeq(chunk, 1, n)
                                 /\ tok'["tx"] = "done" => n = Len(chunk)
  <2>1. CASE out' = out \o chunk
    <3>1. SubSeq(chunk, 1, Len(chunk)) = chunk
      <4>1. \A i \in 1..Len(chunk) : chunk[i] \in Nat
        BY <1>1, ElementOfSeq
      <4> DEFINE t == SubSeq(chunk, 1, Len(chunk))
      <4>2. t \in Seq(Nat) /\ Len(t) = Len(chunk) /\ \A i \in 1..Len(chunk) : t[i] = chunk[i]
        <5>1. t \in Seq(Nat) /\ Len(t) = IF 1 <= Len(chunk) THEN Len(chunk) - 1 + 1 ELSE 0
          BY <1>1, <4>1, SubSeqProperties
        <5>2. \A i \in 1..(Len(chunk) - 1 + 1) : t[i] = chunk[1 + i - 1]
          BY <1>1, <4>1, SubSeqProperties
        <5>3. Len(chunk) - 1 + 1 = Len(chunk) /\ \A i \in 1..Len(chunk) : 1 + i - 1 = i
          BY <1>1
        <5> HIDE DEF t
        <5>4. Len(t) = Len(chunk)
          BY <1>1, <5>1
        <5> QED BY <5>1, <5>2, <5>3, <5>4
      <4> HIDE DEF t
      <4>3. t = chunk
        BY <1>1, <4>2, SeqEqual
      <4> QED BY <4>3 DEF t
    <3>2. Len(chunk) \in 0..Len(chunk) /\ out' = out \o SubSeq(chunk, 1, Len(chunk))
      BY <1>1, <2>1, <3>1
    <3> QED BY <3>2
  <2>2. CASE /\ \E n \in 0..Len(chunk) : out' = out \o SubSeq(chunk, 1, n)
             /\ tok' = [tok EXCEPT !["tx"] = "failed"]
    <3>1. tok'["tx"] = "failed"
      BY <2>2 DEF IInv, TypeOK, DriverTypeOK, Tokens
    <3> QED BY <2>2, <3>1
  <2> QED BY <2>1, <2>2 DEF DriverTransmits
<1> DEFINE t == SubSeq(chunk, 1, n)
<1>4. t \in Seq(Nat) /\ Len(t) = n /\ \A i \in 1..n : t[i] = chunk[i]
  <2>1. \A i \in 1..n : chunk[i] \in Nat
    <3> TAKE i \in 1..n
    <3>1. i \in 1..Len(chunk)
      BY <1>1
    <3> QED BY <1>1, <3>1, ElementOfSeq
  <2>2. t \in Seq(Nat) /\ Len(t) = IF 1 <= n THEN n - 1 + 1 ELSE 0
    BY <2>1, SubSeqProperties
  <2>3. \A i \in 1..(n - 1 + 1) : t[i] = chunk[1 + i - 1]
    BY <2>1, SubSeqProperties
  <2>4. n - 1 + 1 = n /\ \A i \in 1..n : 1 + i - 1 = i
    BY <1>1
  <2> HIDE DEF t
  <2> QED BY <1>1, <2>2, <2>3, <2>4
<1> HIDE DEF t
<1>5. out' = out \o t
  BY <1>3 DEF t
<1>6. \A i \in 1..n : t[i] = Len(out) + i
  <2> TAKE i \in 1..n
  <2>1. i \in 1..Len(chunk)
    BY <1>1
  <2>2. chunk[i] = Len(out) + i
    BY <1>2, <2>1 DEF ChunkNext
  <2> QED BY <1>4, <2>2
<1>7. out' = Promise!Longer(out, n) /\ Len(out') = Len(out) + n
  BY <1>1, <1>4, <1>5, <1>6, LongerMeans, ConcatProperties
<1>8. out' = out \/ \E m \in 1..ChunkSize : out' = Promise!Longer(out, m)
  <2>1. CASE n = 0
    <3>1. t = <<>>
      BY <1>4, <2>1, EmptySeq
    <3> QED BY <1>1, <1>5, <3>1, ConcatEmptySeq
  <2>2. CASE n # 0
    <3>1. n \in 1..ChunkSize
      BY <1>1, <1>2, <2>2
    <3> QED BY <1>7, <3>1
  <2> QED BY <2>1, <2>2
<1>9. CountedIn' /\ CountedAnew'
  BY <1>2 DEF Counted, CountedIn, CountedAnew, Follows
<1>10. CountedOut'
  <2>1. at = "idle" => ret = "lost"
    BY <1>2 DEF Counted, CountedOut
  <2>2. at \in {"writing", "cancelling"} => Len(chunk) <= left /\ asked - left = Len(out)
    BY <1>2 DEF Counted, CountedOut
  <2>3. tok'["tx"] = "done" => Len(out') = Len(out) + Len(chunk)
    BY <1>3, <1>7
  <2>4. at' = at /\ ret' = ret /\ left' = left /\ chunk' = chunk /\ asked' = asked /\ tok'["tx"] # "held"
    BY <1>2
  <2>5. asked - left = Len(out) /\ tok'["tx"] = "done" => asked - left + Len(chunk) = Len(out')
    BY <2>3, <1>1
  <2> QED BY <2>1, <2>2, <2>4, <2>5 DEF CountedOut
<1> QED BY <1>8, <1>9, <1>10 DEF Counted

LEMMA TransmitsCounts ==
    ASSUME TypeOK, NEW n \in Nat \ {0}, asked' \in Nat, n <= asked', asked' - n = Len(out),
           Transmits(n), out' = out
    PROVE  CountedOut'
<1>1. tok \in Toks /\ Len(out) \in Nat
  BY DEF TypeOK, DriverTypeOK, StreamTypeOK, Toks
<1>2. CASE /\ Returns("lost") /\ left' = 0
           /\ conn' \in {conn, [conn EXCEPT !.Closed = TRUE]}
           /\ events' = events \ {"tx"} /\ tok' = [tok EXCEPT !["tx"] = "free"]
           /\ UNCHANGED chunk
  <2>1. tok'["tx"] = "free" /\ at' = "idle" /\ ret' = "lost"
    BY <1>1, <1>2 DEF Toks, Tokens, Returns
  <2> QED BY <2>1 DEF CountedOut
<1>3. CASE /\ Waits("writing") /\ left' = n
           /\ chunk' = Bytes(asked' - n + 1, asked' - n + Least(n, ChunkSize))
           /\ events' = events \cup {"tx"} /\ tok' = [tok EXCEPT !["tx"] = "held"]
           /\ UNCHANGED conn
  <2> DEFINE m == Least(n, ChunkSize)
  <2>1. m \in Nat /\ m <= n /\ m <= ChunkSize
    BY DEF Least
  <2>2. chunk' = Bytes(Len(out) + 1, Len(out) + m)
    BY <1>3
  <2> HIDE DEF m
  <2>3. Len(chunk') = m /\ \A i \in 1..m : chunk'[i] = Len(out) + i
    <3> DEFINE a == Len(out) + 1  b == Len(out) + m
    <3>1. a \in Nat \ {0} /\ b \in Nat /\ a <= b + 1 /\ chunk' = Bytes(a, b)
      BY <1>1, <2>1, <2>2
    <3>2. b - a + 1 = m /\ \A j \in 1..m : a + j - 1 = Len(out) + j
      BY <1>1, <2>1
    <3> HIDE DEF a, b
    <3>3. /\ Len(chunk') = b - a + 1
          /\ \A j \in 1..(b - a + 1) : chunk'[j] = a + j - 1
      BY <3>1, BytesTyped
    <3> QED BY <3>2, <3>3
  <2>4. tok'["tx"] = "held" /\ at' = "writing" /\ left' = n
    BY <1>1, <1>3 DEF Toks, Tokens, Waits
  <2>5. ChunkNext' /\ Len(chunk') <= ChunkSize /\ Len(chunk') <= left'
    BY <2>1, <2>3, <2>4 DEF ChunkNext
  <2>6. asked' - left' = Len(out')
    BY <2>4
  <2> QED BY <2>4, <2>5, <2>6 DEF CountedOut
<1> QED BY <1>2, <1>3 DEF Transmits


\* The steps of NetWrite leave what comes in alone.
LEMMA WritingCounts ==
    ASSUME IInv, Counted, TxOver \/ TxOn, UNCHANGED <<handed, got, out>>, conn.Tcp,
           at \notin {"closing", "destroying"}
    PROVE  CountedIn' /\ CountedAnew'
<1>1. SameConn /\ tok'["rx"] = tok["rx"]
  BY DEF TxOver, TxOn, Tokens
<1> QED BY <1>1 DEF Counted, CountedIn, CountedAnew, SameConn, Follows

LEMMA WritesCount ==
    ASSUME IInv, Counted, SshWrites PROVE Counted'
<1>1. PICK n \in 1..(MaxOut - asked) : NetWrite(n)
  BY DEF SshWrites
<1>2. /\ at = "idle" /\ conn.Tcp /\ ret # "lost" /\ TypeOK /\ Wired /\ NoDanglingToken
      /\ UNCHANGED <<handed, got, out>> /\ asked' = asked + n /\ stuck' = stuck
  BY <1>1 DEF SshWrites, SshUsable, NetWrite, IInv
<1>3. (TxOver \/ TxOn) /\ asked' \in Nat
  BY <1>1, <1>2, WriteMeans
<1>4. CountedIn' /\ CountedAnew'
  BY <1>2, <1>3, WritingCounts
<1>5. /\ n \in Nat \ {0} /\ n <= asked' /\ asked' - n = Len(out) /\ tok["tx"] # "held"
  <2>1. asked = Len(out) /\ tok["tx"] # "held"
    BY <1>2 DEF Counted, CountedOut
  <2>2. asked \in Nat
    BY <1>2 DEF TypeOK, StreamTypeOK
  <2> QED BY <1>2, <2>1, <2>2
<1>6. CountedOut'
  <2>1. CASE conn.Closed
    <3>1. at' = "idle" /\ ret' = "lost" /\ tok' = tok
      BY <1>1, <1>2, <2>1 DEF NetWrite, Returns
    <3> QED BY <1>5, <3>1 DEF CountedOut
  <2>2. CASE ~conn.Closed
    <3>1. Transmits(n)
      BY <1>1, <2>2 DEF NetWrite
    <3> QED BY <1>2, <1>3, <1>5, <3>1, TransmitsCounts
  <2> QED BY <2>1, <2>2
<1> QED BY <1>4, <1>6 DEF Counted

LEMMA TransmittedCounts ==
    ASSUME IInv, Counted, Transmitted PROVE Counted'
<1>1. /\ at = "writing" /\ tok["tx"] # "held" /\ asked' = asked /\ stuck' = stuck
      /\ UNCHANGED <<handed, got, out>> /\ TypeOK /\ Wired
  BY DEF Transmitted, IInv
<1>2. conn.Tcp
  BY <1>1 DEF IInv, Control, InSession, Owned, TypeOK, MainTypeOK
<1>3. CountedIn' /\ CountedAnew'
  BY <1>1, <1>2, WritingCounts, TransmittedMeans
<1>4. /\ left \in Nat /\ Len(chunk) \in Nat /\ asked \in Nat /\ left <= asked /\ Len(chunk) <= left
      /\ Len(out) \in Nat
      /\ tok["tx"] = "done" => asked - left + Len(chunk) = Len(out)
  BY <1>1 DEF TypeOK, CallTypeOK, StreamTypeOK, Wired, Counted, CountedOut
<1>5. CASE tok["tx"] = "done" /\ left > Len(chunk) /\ Transmits(left - Len(chunk))
  <2> DEFINE n == left - Len(chunk)
  <2>1. n \in Nat \ {0} /\ n <= asked' /\ asked' - n = Len(out) /\ asked' \in Nat
    BY <1>1, <1>4, <1>5
  <2>2. Transmits(n)
    BY <1>5
  <2> HIDE DEF n
  <2>3. CountedOut'
    BY <1>1, <2>1, <2>2, TransmitsCounts
  <2> QED BY <1>3, <2>3 DEF Counted
<1>6. CASE /\ tok["tx"] = "done" /\ left <= Len(chunk) /\ Returns("ok") /\ left' = 0
           /\ events' = events \ {"tx"} /\ tok' = [tok EXCEPT !["tx"] = "free"]
           /\ UNCHANGED <<conn, chunk>>
  <2>1. tok'["tx"] = "free" /\ at' = "idle"
    BY <1>1, <1>6 DEF TypeOK, DriverTypeOK, Tokens, Returns
  <2>2. asked' = Len(out')
    BY <1>1, <1>4, <1>6
  <2> QED BY <1>3, <2>1, <2>2 DEF Counted, CountedOut
<1>7. CASE tok["tx"] = "failed" /\ WriteLost /\ tok' = [tok EXCEPT !["tx"] = "free"]
           /\ UNCHANGED chunk
  <2>1. tok'["tx"] = "free" /\ at' = "idle" /\ ret' = "lost"
    BY <1>1, <1>7 DEF TypeOK, DriverTypeOK, Tokens, Returns, WriteLost
  <2> QED BY <1>3, <2>1 DEF Counted, CountedOut
<1> QED BY <1>5, <1>6, <1>7 DEF Transmitted

LEMMA WriteCancelledCounts ==
    ASSUME IInv, Counted, WriteCancelled, UNCHANGED main PROVE Counted'
<1>1. /\ at = "cancelling" /\ at' = "idle" /\ ret' = "lost" /\ TypeOK
      /\ UNCHANGED <<chunk, handed, asked, got, out>>
  BY DEF WriteCancelled, WriteLost, Returns, stream, IInv
<1>2. conn.Tcp
  BY <1>1 DEF IInv, Control, InSession, Owned, TypeOK, MainTypeOK
<1>3. CountedIn' /\ CountedAnew'
  BY <1>1, <1>2, WritingCounts, WriteCancelledMeans
<1>4. tok'["tx"] = "held" => tok["tx"] = "held"
  BY <1>1, WriteCancelledMeans DEF TxOver
<1>5. CountedOut'
  BY <1>1, <1>4 DEF Counted, CountedOut, ChunkNext
<1> QED BY <1>3, <1>5 DEF Counted

----------------------------------------------------------------------------
\* The phase.

Quiet ==
    /\ UNCHANGED <<got, out, table>> /\ conn'.Tcp = conn.Tcp
    /\ pc' = "stopped" <=> pc = "stopped"

LEMMA QuietStep == ASSUME Quiet PROVE UNCHANGED <<Phase, got, out>>
BY DEF Quiet, Phase

LEMMA PhaseWaiting ==
    ASSUME IInv, ~conn.Tcp, pc # "stopped" PROVE Phase = "waiting"
<1>1. table = Local
  BY DEF IInv, Owned, InSession, HasConsole
<1> QED BY <1>1 DEF Phase, Local

LEMMA PhaseServing ==
    ASSUME IInv, conn.Tcp PROVE Phase \in {"serving", "redirected"}
<1>1. pc # "stopped"
  BY DEF IInv, Control, InSession, Owned
<1> QED BY <1>1 DEF Phase

LEMMA PhaseLocal ==
    ASSUME IInv, conn.Tcp, ~HasConsole PROVE Phase = "serving"
<1>1. pc # "stopped" /\ table = Local
  BY DEF IInv, Control, InSession, Owned
<1> QED BY <1>1 DEF Phase, Local

----------------------------------------------------------------------------
\* Each action is a step of the promise or none.

Served == Promise!Next \/ UNCHANGED <<Phase, got, out>>
Serves == Counted' /\ Served

LEMMA FrameServes == ASSUME Counted, Frame, Quiet PROVE Serves
BY FrameCounts, QuietStep DEF Serves, Served

LEMMA QuietServes == ASSUME Counted', Quiet PROVE Serves
BY QuietStep DEF Serves, Served

LEMMA StopServes ==
    ASSUME IInv, Counted, Frame, ~conn.Tcp, pc # "stopped", pc' = "stopped" PROVE Serves
<1>1. Phase = "waiting" /\ Phase' = "stopped" /\ UNCHANGED <<got, out>>
  BY PhaseWaiting DEF Phase, Frame
<1> QED BY <1>1, FrameCounts DEF Serves, Served, Promise!Next, Promise!Stop

LEMMA GoneServes ==
    ASSUME IInv, Counted, Gone, conn.Tcp, ~HasConsole, UNCHANGED table, pc' # "stopped"
    PROVE  Serves
<1>1. Phase = "serving" /\ table = Local
  BY PhaseLocal DEF IInv, Owned
<1>2. Phase' = "waiting"
  BY <1>1 DEF Phase, Gone, Local
<1>3. got' = <<>> /\ out' = <<>>
  BY DEF Gone
<1> QED BY <1>1, <1>2, <1>3, GoneCounts DEF Serves, Served, Promise!Next, Promise!Dismiss

LEMMA PartingServes ==
    ASSUME IInv, Counted, Parting, UNCHANGED table, pc # "stopped", pc' # "stopped"
    PROVE  Serves
<1>1. Quiet
  BY DEF Quiet, Parting, stream
<1> QED BY <1>1, PartingCounts, QuietServes

\* NetCloseConn, called when there is a connection and the console is given back.
LEMMA CloseConnServes ==
    ASSUME IInv, Counted, CloseConn, ~HasConsole, UNCHANGED table, pc # "stopped", pc' # "stopped"
    PROVE  Serves
<1>1. CASE conn.RxPosted /\ at' = "cancelRx" /\ UNCHANGED <<conn, events, children, tok, stuck, stream>>
  BY <1>1, FrameServes DEF CloseConn, Frame, Quiet, stream
<1>2. CASE ~conn.RxPosted /\ CloseStart(TRUE)
  <2>1. Parting
    BY <1>2, CloseStartMeans DEF IInv
  <2> QED BY <2>1, PartingServes
<1> QED BY <1>1, <1>2 DEF CloseConn

LEMMA AcceptedServes ==
    ASSUME IInv, Counted, Accepted, UNCHANGED main PROVE Serves
<1>1. /\ pc = "accept" /\ pc' = pc /\ ~conn.Tcp /\ UNCHANGED <<got, out, table>>
      /\ table = Local
  BY DEF Accepted, main, stream, IInv, Control, InSession, HasConsole, Owned, TypeOK, MainTypeOK
<1>2. CASE conn'.Tcp
  <2>1. Phase = "waiting" /\ Phase' = "serving"
    BY <1>1, <1>2, PhaseWaiting DEF Phase, Local
  <2> QED BY <1>1, <2>1, AcceptedCounts DEF Serves, Served, Promise!Next, Promise!Admit
<1>3. CASE ~conn'.Tcp
  <2>1. conn'.Tcp = conn.Tcp
    <3>1. conn.Tcp \in BOOLEAN /\ conn'.Tcp \in BOOLEAN
      BY AcceptedMeans DEF IInv, TypeOK, ConnTypeOK, NetConn, Opened, Refused, Unread
    <3> QED BY <1>1, <1>3, <3>1
  <2> QED BY <1>1, <2>1, AcceptedCounts, QuietServes DEF Quiet
<1> QED BY <1>2, <1>3

LEMMA SshReadsServes ==
    ASSUME IInv, Counted, SshReads PROVE Serves
<1>1. /\ UNCHANGED <<at, left, chunk, handed, asked, out, main>> /\ conn.Tcp /\ at = "idle"
      /\ SshUsable /\ TypeOK /\ Wired
  BY DEF SshReads, NetRead, IInv
<1>2. CountedIn' /\ (got' = got \/ \E n \in 1..RxSize : got' = Promise!Longer(got, n))
  BY ReadsCount
<1>3. conn'.Tcp = conn.Tcp /\ tok'["tx"] = tok["tx"]
  BY SshReadsMeans DEF ReadStep, Tokens
<1>4. CountedOut' /\ CountedAnew'
  BY <1>1, <1>3 DEF Counted, CountedOut, CountedAnew, ChunkNext, SshUsable
<1>5. Counted'
  BY <1>2, <1>4 DEF Counted
<1>6. UNCHANGED <<out, table, pc>>
  BY <1>1 DEF main
<1>7. CASE got' = got
  BY <1>3, <1>5, <1>6, <1>7, QuietServes DEF Quiet
<1>8. ASSUME NEW n \in 1..RxSize, got' = Promise!Longer(got, n) PROVE Serves
  <2>1. Phase \in {"serving", "redirected"} /\ Phase' = Phase
    BY <1>1, <1>3, <1>6, PhaseServing DEF Phase
  <2>2. n \in 1..(RxSize + ChunkSize)
    OBVIOUS
  <2>4. Promise!Receive
    BY <1>6, <1>8, <2>1, <2>2 DEF Promise!Receive
  <2> QED BY <1>5, <2>4 DEF Serves, Served, Promise!Next
<1> QED BY <1>2, <1>7, <1>8

LEMMA DriverTransmitsServes ==
    ASSUME IInv, Counted, DriverTransmits, UNCHANGED main PROVE Serves
<1>1. Counted' /\ (out' = out \/ \E n \in 1..ChunkSize : out' = Promise!Longer(out, n))
  BY DriverTransmitsCounts
<1>2. UNCHANGED <<conn, got, table, pc>> /\ conn.Tcp
  BY DEF DriverTransmits, main, IInv, Wired
<1>3. CASE out' = out
  BY <1>1, <1>2, <1>3, QuietServes DEF Quiet
<1>4. ASSUME NEW n \in 1..ChunkSize, out' = Promise!Longer(out, n) PROVE Serves
  <2>1. Phase \in {"serving", "redirected"} /\ Phase' = Phase
    BY <1>2, PhaseServing DEF Phase
  <2>2. n \in 1..(RxSize + ChunkSize)
    OBVIOUS
  <2>4. Promise!Send
    BY <1>2, <1>4, <2>1, <2>2 DEF Promise!Send
  <2> QED BY <1>1, <2>4 DEF Serves, Served, Promise!Next
<1> QED BY <1>1, <1>3, <1>4

LEMMA MainLoopServes ==
    ASSUME IInv, Counted, MainLoop PROVE Serves
<1> USE DEF Frame, Quiet, tcpVars, call, driver, stream
<1>1. CASE Start
  <2>1. ~conn.Tcp /\ pc = "start" /\ UNCHANGED <<conn, tok, stream, table>>
    BY <1>1 DEF Start, ListenStart, IInv, Control, Owned, InSession
  <2>2. Frame
    <3>1. at' \in {"idle", "configuring"} \/ UNCHANGED tcpVars
      BY <1>1 DEF Start, ListenStart, Returns, Waits
    <3> QED BY <2>1, <3>1
  <2> QED BY <1>1, <2>1, <2>2, FrameServes, StopServes DEF Start
<1>2. CASE Listening
  <2>1. ~conn.Tcp
    BY <1>2 DEF Listening, IInv, Owned, InSession
  <2> QED BY <1>2, <2>1, FrameServes, StopServes DEF Listening
<1>3. CASE CallAccept
  <2>1. ~conn.Tcp /\ at = "idle" /\ at' \in {"idle", "accepting"}
    BY <1>3 DEF CallAccept, AcceptStart, Returns, Waits, IInv, Owned, InSession
  <2>2. tok'["rx"] = tok["rx"] /\ tok'["tx"] = tok["tx"]
    BY <1>3 DEF CallAccept, AcceptStart, IInv, TypeOK, DriverTypeOK, Tokens
  <2>3. UNCHANGED <<conn, stream, table>> /\ pc = "loop" /\ pc' = "accept"
    BY <1>3 DEF CallAccept, AcceptStart
  <2> QED BY <2>1, <2>2, <2>3, FrameServes
<1>4. CASE StopServer
  <2>1. ~conn.Tcp /\ pc = "accept" /\ pc' = "stopped"
    BY <1>4 DEF StopServer, IInv, Owned, InSession
  <2>2. tok'["rx"] = tok["rx"] /\ tok'["tx"] = tok["tx"]
    BY <1>4 DEF StopServer, ListenStopped, IInv, TypeOK, DriverTypeOK, Tokens
  <2> QED BY <1>4, <2>1, <2>2, StopServes DEF StopServer
<1>5. CASE AcceptAgain
  BY <1>5, FrameServes DEF AcceptAgain
<1>6. CASE NewSession
  <2>1. CASE pc' = "login" /\ UNCHANGED tcpVars
    BY <1>6, <2>1, FrameServes DEF NewSession
  <2>2. CASE pc' = "disconnect" /\ CloseConn
    BY <1>6, <2>2, CloseConnServes DEF NewSession, HasConsole
  <2> QED BY <1>6, <2>1, <2>2 DEF NewSession
<1>7. CASE LoggedIn \/ InstallFails \/ TryImage \/ MessageSent \/ Disconnected
  BY <1>7, FrameServes DEF LoggedIn, InstallFails, TryImage, Launched, NextCandidate, MessageSent,
     Disconnected
<1>8. CASE ShimInstall
  <2>1. Frame /\ pc = "install" /\ pc' = "shell" /\ UNCHANGED <<conn, got, out>>
    BY <1>8 DEF ShimInstall
  <2>2. conn.Tcp /\ ~HasConsole
    BY <2>1 DEF IInv, Owned, InSession, HasConsole
  <2>3. \E f \in Fields : table'[f] = "shim"
    BY <1>8 DEF ShimInstall, Fields
  <2>4. Phase = "serving" /\ Phase' = "redirected"
    BY <2>1, <2>2, <2>3, PhaseLocal DEF Phase
  <2> QED BY <2>1, <2>4, FrameCounts DEF Serves, Served, Promise!Next, Promise!Redirect
<1>9. CASE ShimRemove
  <2>1. Frame /\ pc = "removing" /\ pc' \in {"message", "closing"} /\ UNCHANGED <<conn, got, out>>
    BY <1>9 DEF ShimRemove
  <2>2. conn.Tcp /\ table' = Local
    BY <1>9, <2>1 DEF ShimRemove, IInv, Owned, InSession, HasConsole
  <2>3. Phase \in {"serving", "redirected"} /\ Phase' = "serving"
    BY <2>1, <2>2, PhaseServing DEF Phase, Local
  <2>4. CASE Phase = "redirected"
    BY <2>1, <2>3, <2>4, FrameCounts DEF Serves, Served, Promise!Next, Promise!GiveBack
  <2>5. CASE Phase = "serving"
    BY <2>1, <2>3, <2>5, FrameCounts DEF Serves, Served
  <2> QED BY <2>3, <2>4, <2>5
<1>10. CASE SessionEnds
  BY <1>10, CloseConnServes DEF SessionEnds, HasConsole
<1> QED BY <1>1, <1>2, <1>3, <1>4, <1>5, <1>6, <1>7, <1>8, <1>9, <1>10 DEF MainLoop

LEMMA WaitingServes ==
    ASSUME IInv, Counted, Waiting, UNCHANGED main PROVE Serves
<1> USE DEF main, Frame, Quiet, tcpVars, call, driver, stream, Returns, Waits
<1>1. at \in {"configuring", "accepting", "aborting"} => ~conn.Tcp
  BY DEF IInv, Control, Owned, InSession, TypeOK, MainTypeOK
<1>2. at \in {"cancelRx", "closing", "destroying"} => conn.Tcp /\ ~HasConsole /\ pc # "stopped"
  BY DEF IInv, Control, Wired, InSession, HasConsole, TypeOK, MainTypeOK
<1>3. CASE Configured \/ ConfigureAgain \/ AcceptAborted \/ WriteTimesOut
  BY <1>1, <1>3, FrameServes DEF Configured, ConfigureAgain, AcceptAborted, WriteTimesOut
<1>4. CASE ConfigureFails \/ AcceptFailed \/ AbortEnds
  <2>1. tok'["rx"] = tok["rx"] /\ tok'["tx"] = tok["tx"]
    BY <1>4 DEF ConfigureFails, ListenStopped, AcceptFailed, AbortEnds, IInv, TypeOK, DriverTypeOK,
       Tokens
  <2>2. /\ at' = "idle" /\ UNCHANGED <<conn, stream>>
        /\ at \in {"configuring", "accepting", "aborting"}
    BY <1>4 DEF ConfigureFails, AcceptFailed, AbortEnds
  <2> QED BY <1>1, <2>1, <2>2, FrameServes
<1>5. CASE Accepted
  BY <1>5, AcceptedServes
<1>6. CASE Transmitted
  <2>1. conn'.Tcp = conn.Tcp /\ UNCHANGED <<got, out>>
    BY <1>6, TransmittedMeans DEF Transmitted, TxOver, TxOn, SameConn, IInv
  <2> QED BY <1>6, <2>1, TransmittedCounts, QuietServes
<1>7. CASE WriteCancelled
  <2>1. conn'.Tcp = conn.Tcp /\ UNCHANGED <<got, out>>
    BY <1>7, WriteCancelledMeans DEF WriteCancelled, TxOver, SameConn, IInv
  <2> QED BY <1>7, <2>1, WriteCancelledCounts, QuietServes
<1>8. CASE RxCancelled \/ CloseEnds
  <2>1. Parting /\ at \in {"cancelRx", "closing"}
    BY <1>8, CloseStartMeans, CloseEndsMeans DEF RxCancelled, CloseEnds, IInv
  <2> QED BY <1>2, <2>1, PartingServes
<1>9. CASE DestroyChild
  <2>1. Gone /\ at = "destroying"
    BY <1>9, DestroyChildMeans DEF DestroyChild, IInv
  <2> QED BY <1>2, <2>1, GoneServes
<1> QED BY <1>3, <1>4, <1>5, <1>6, <1>7, <1>8, <1>9 DEF Waiting

LEMMA DriverServes ==
    ASSUME IInv, Counted, Driver, UNCHANGED main PROVE Serves
<1> USE DEF main, Frame, Quiet, tcpVars, call, driver, stream
<1>1. CASE DriverAccepts \/ DriverCloses
  <2>1. tok'["rx"] = tok["rx"] /\ tok'["tx"] = tok["tx"]
    BY <1>1 DEF DriverAccepts, DriverCloses, IInv, TypeOK, DriverTypeOK, Tokens
  <2> QED BY <1>1, <2>1, FrameServes DEF DriverAccepts, DriverCloses
<1>2. CASE KeyPressed
  BY <1>2, FrameServes DEF KeyPressed
<1>3. CASE DriverReceives
  <2>1. conn'.Tcp = conn.Tcp /\ UNCHANGED <<got, out>>
    BY <1>3, DriverReceivesMeans DEF DriverReceives, IInv
  <2> QED BY <1>3, <2>1, DriverReceivesCounts, QuietServes
<1>4. CASE DriverTransmits
  BY <1>4, DriverTransmitsServes
<1>5. CASE DriverFails
  BY <1>5, DriverFailsCounts, QuietServes DEF DriverFails
<1> QED BY <1>1, <1>2, <1>3, <1>4, <1>5 DEF Driver

----------------------------------------------------------------------------
\* The theorem.

LEMMA InitServes == Init => Counted /\ Promise!Init
<1> SUFFICES ASSUME Init PROVE Counted /\ Promise!Init
  OBVIOUS
<1>1. conn.Tcp = FALSE /\ got = <<>> /\ out = <<>> /\ handed = 0 /\ asked = 0
      /\ at = "idle" /\ tok["tx"] = "free" /\ pc = "start"
  BY DEF Init, TcpInit, NoConn, Tokens
<1>2. Counted
  BY <1>1 DEF Counted, CountedIn, CountedOut, CountedAnew
<1>3. Phase = "waiting"
  BY <1>1, InitIInv, PhaseWaiting
<1> QED BY <1>1, <1>2, <1>3 DEF Promise!Init

LEMMA NextServes == IInv /\ Counted /\ [Next]_vars => Counted' /\ [Promise!Next]_(Promise!vars)
<1> SUFFICES ASSUME IInv, Counted, [Next]_vars PROVE Serves
  BY DEF Serves, Served, Promise!vars
<1>1. CASE MainLoop
  BY <1>1, MainLoopServes
<1>2. CASE SshReads
  BY <1>2, SshReadsServes
<1>3. CASE SshWrites
  <2>1. UNCHANGED <<got, out, main>> /\ conn'.Tcp = conn.Tcp
    <3>1. PICK n \in 1..(MaxOut - asked) : NetWrite(n)
      BY <1>3 DEF SshWrites
    <3>2. TxOver \/ TxOn
      BY <3>1, WriteMeans DEF IInv
    <3> QED BY <1>3, <3>1, <3>2 DEF SshWrites, NetWrite, TxOver, TxOn, SameConn
  <2> QED BY <1>3, <2>1, WritesCount, QuietServes DEF Quiet, main
<1>4. CASE SshEnds \/ ShellExits
  BY <1>4, FrameServes DEF SshEnds, ShellExits, Launched, NextCandidate, Frame, Quiet, tcpVars, call,
     driver, stream
<1>5. CASE Waiting /\ UNCHANGED main
  BY <1>5, WaitingServes
<1>6. CASE Driver /\ UNCHANGED main
  BY <1>6, DriverServes
<1>7. CASE UNCHANGED vars
  BY <1>7, FrameServes DEF Frame, Quiet, vars, main, tcpVars, call, driver, stream
<1> QED BY <1>1, <1>2, <1>3, <1>4, <1>5, <1>6, <1>7 DEF Next

\* The server keeps the promise of Service.tla: one client at a time, the console its own
\* while it is served and given back in every case, its bytes in order and without a gap
\* over the tokens, the timeouts and the failed writes of net.c.
THEOREM ServiceTheorem == Spec => ImplementsService
<1>1. Init => Counted /\ Promise!Init
  BY InitServes
<1>2. IInv /\ Counted /\ [Next]_vars => Counted' /\ [Promise!Next]_(Promise!vars)
  BY NextServes
<1> QED BY <1>1, <1>2, AlwaysIInv, PTL DEF Spec, ImplementsService, Promise!Spec
=============================================================================
