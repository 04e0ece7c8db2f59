------------------------------ MODULE TcpConn ------------------------------
(***************************************************************************)
(* The TCP side of the server, src/files/net.c: the listener, the one      *)
(* connection (struct NET_CONN) and the calls NetListenStart, NetAccept,   *)
(* NetRead, NetWrite and NetCloseConn, against the firmware's TCP4 driver. *)
(*                                                                         *)
(* A call is split where it waits: at says which loop it is in.  The       *)
(* driver works on its own, between any two steps of the program (network  *)
(* timers and Poll): it completes a token it holds, well or badly, or not  *)
(* at all.  A wait with a limit may run out at any time before that.       *)
(* Server.tla is the caller.                                               *)
(***************************************************************************)
EXTENDS Integers, Sequences

CONSTANTS
    Handles,        \* handles the driver may give to its children
    None,           \* NULL
    RxSize,         \* NET_RX_SIZE
    ChunkSize,      \* the most one Transmit takes (8192)
    MaxTries,       \* Configure attempts while there is no address (240)
    MaxIn, MaxOut   \* BOUNDS: bytes per connection and direction

ASSUME TcpAssumption ==
    /\ None \notin Handles
    /\ RxSize \in Nat \ {0} /\ ChunkSize \in Nat \ {0} /\ MaxTries \in Nat \ {0}
    /\ MaxIn \in Nat /\ MaxOut \in Nat

VARIABLES
    at,         \* where the running call waits, "idle" outside net.c
    ret,        \* what the last call returned
    tries,      \* Configure attempts of NetListenStart
    left,       \* bytes the running NetWrite has still to send
    listen,     \* mListenHandle
    conn,       \* the NET_CONN; RxBuf holds the bytes of one Receive
    events,     \* events the program has created and not closed
    children,   \* TCP4 children that exist in the driver
    tok,        \* each completion token, as the driver sees it
    newChild,   \* NewChildHandle of the accept token
    stuck,      \* tokens whose Cancel the driver has not answered in time
    quitKey,    \* ESC or q waits in the local keyboard's buffer
    chunk,      \* bytes of the Transmit under way
    handed,     \* bytes of the client the driver has handed out
    asked,      \* bytes NetWrite has been asked to send
    got,        \* what NetRead has returned so far: the numbers of the bytes
    out         \* what has gone out to the client, likewise

call == <<at, ret, tries, left>>
driver == <<children, tok, newChild, stuck>>
stream == <<chunk, handed, asked, got, out>>
tcpVars == <<call, listen, conn, events, driver, quitKey, stream>>

Tokens == {"accept", "rx", "tx", "close"}
Places == {"idle", "configuring", "accepting", "aborting", "writing", "cancelling",
           "cancelRx", "closing", "destroying"}
\* The waits that have a limit.
Timed == {"aborting", "writing", "cancelling", "cancelRx", "closing"}

NetConn == [Handle : Handles \cup {None}, Tcp : BOOLEAN, RxPosted : BOOLEAN, Closed : BOOLEAN,
            RxAvail : Nat, RxOff : Nat, RxBuf : Seq(Nat)]
NoConn == [Handle |-> None, Tcp |-> FALSE, RxPosted |-> FALSE, Closed |-> FALSE,
           RxAvail |-> 0, RxOff |-> 0, RxBuf |-> <<>>]

TcpInit ==
    /\ at = "idle" /\ ret = "none" /\ tries = 0 /\ left = 0
    /\ listen = None /\ conn = NoConn /\ events = {} /\ children = {}
    /\ tok = [k \in Tokens |-> "free"] /\ newChild = None /\ stuck = {}
    /\ quitKey = FALSE
    /\ chunk = <<>> /\ handed = 0 /\ asked = 0 /\ got = <<>> /\ out = <<>>

Least(a, b) == IF a < b THEN a ELSE b
\* The bytes numbered a to b of a stream.
Bytes(a, b) == [i \in 1..(b - a + 1) |-> a + i - 1]

Returns(r) == at' = "idle" /\ ret' = r
\* The call goes on to wait at p.
Waits(p) == at' = p /\ UNCHANGED ret

----------------------------------------------------------------------------
\* NetListenStart and NetListenStop.

\* Configure(NULL) takes back the driver's token, DestroyChild the child.
ListenStopped ==
    /\ listen' = None
    /\ children' = children \ {listen}
    /\ tok' = [tok EXCEPT !["accept"] = "free"]
    /\ stuck' = stuck \ {"accept"}

\* No service binding, no child, or no protocol on it (the child is destroyed).
ListenStart ==
    /\ at = "idle"
    /\ \/ Returns("error") /\ listen' = None /\ UNCHANGED <<children, tries>>
       \/ \E h \in Handles \ children :
            /\ Waits("configuring") /\ tries' = 0
            /\ listen' = h /\ children' = children \cup {h}
    /\ UNCHANGED <<left, conn, events, tok, newChild, stuck, quitKey, stream>>

Configured ==
    /\ at = "configuring" /\ Returns("ok")
    /\ UNCHANGED <<tries, left, listen, conn, events, driver, quitKey, stream>>

\* The next attempt, while DHCP runs (EFI_NO_MAPPING).
ConfigureAgain ==
    /\ at = "configuring" /\ ~quitKey
    /\ tries + 1 < MaxTries
    /\ tries' = tries + 1
    /\ UNCHANGED <<at, ret, left, listen, conn, events, driver, quitKey, stream>>

\* An error, an ESC or q on the local console, or the last attempt.
ConfigureFails ==
    /\ at = "configuring" /\ Returns("error") /\ ListenStopped
    /\ quitKey' \in {quitKey, FALSE}
    /\ UNCHANGED <<tries, left, conn, events, newChild, stream>>

----------------------------------------------------------------------------
\* NetCloseConn.

\* Mutant: the receive event is never closed.
EventsClosed_RxLeft ==
    /\ at' = "destroying"
    /\ events' = events \ {"close"}
    /\ conn' = [conn EXCEPT !.RxPosted = FALSE, !.Closed = TRUE]
    /\ UNCHANGED <<children, stream>>

\* The close token's event is closed, and its frame is gone; then the receive event.
EventsClosed ==
    /\ at' = "destroying"
    /\ events' = events \ {"rx", "close"}
    /\ conn' = [conn EXCEPT !.RxPosted = FALSE, !.Closed = TRUE]
    /\ UNCHANGED <<children, stream>>

\* The driver lets go of what it still holds of the connection, and of the child; a
\* token that completes inside DestroyChild has completed just before.  What the
\* structure held is dead until NetAccept clears it; the next client's bytes are
\* counted from 1.
DestroyChild ==
    /\ at = "destroying" /\ at' = "idle"
    /\ children' = children \ {conn.Handle}
    /\ tok' = [tok EXCEPT !["rx"] = "free", !["tx"] = "free", !["close"] = "free"]
    /\ stuck' = stuck \ {"rx", "tx"}
    /\ conn' = [NoConn EXCEPT !.Closed = TRUE]
    /\ chunk' = <<>> /\ handed' = 0 /\ asked' = 0 /\ got' = <<>> /\ out' = <<>>
    /\ UNCHANGED <<ret, tries, left, listen, events, newChild, quitKey>>

\* Close is called on a connection that has not failed; no event, or a Close
\* that is refused, skips the wait.  taken: the receive token has come back.
CloseStart(taken) ==
    /\ stuck' = IF taken THEN stuck ELSE stuck \cup {"rx"}
    /\ \/ EventsClosed /\ tok' = [tok EXCEPT !["rx"] = IF taken THEN "free" ELSE @]
       \/ /\ ~conn.Closed
          /\ at' = "closing"
          /\ tok' = [tok EXCEPT !["close"] = "held", !["rx"] = IF taken THEN "free" ELSE @]
          /\ events' = events \cup {"close"}
          /\ conn' = [conn EXCEPT !.RxPosted = FALSE]
          /\ UNCHANGED <<children, stream>>

\* A receive token that is posted is cancelled first.
CloseConn ==
    /\ at = "idle" /\ conn.Tcp /\ ret' = "ok"
    /\ \/ conn.RxPosted /\ at' = "cancelRx" /\ UNCHANGED <<conn, events, children, tok, stuck, stream>>
       \/ ~conn.RxPosted /\ CloseStart(TRUE)
    /\ UNCHANGED <<tries, left, listen, newChild, quitKey>>

\* The receive token is back, or the driver has not answered within 500 ms.
RxCancelled ==
    /\ at = "cancelRx" /\ CloseStart(tok["rx"] # "held")
    /\ UNCHANGED <<ret, tries, left, listen, newChild, quitKey>>

\* Mutant: the wait for Close has no limit.
CloseEnds_Forever ==
    /\ at = "closing" /\ tok["close"] # "held" /\ EventsClosed
    /\ tok' = [tok EXCEPT !["close"] = "free"]
    /\ UNCHANGED <<ret, tries, left, listen, newChild, stuck, quitKey>>

\* Close has completed, or 3 s have passed: nobody cancels the close token, the driver
\* keeps one it has not answered until DestroyChild.
CloseEnds ==
    /\ at = "closing" /\ EventsClosed
    /\ tok' = [tok EXCEPT !["close"] = IF @ = "held" THEN @ ELSE "free"]
    /\ UNCHANGED <<ret, tries, left, listen, newChild, stuck, quitKey>>

----------------------------------------------------------------------------
\* NetAccept.

\* No event, or a refused Accept: an error.
AcceptStart ==
    /\ at = "idle"
    /\ \/ Returns("error") /\ UNCHANGED <<events, tok>>
       \/ /\ Waits("accepting")
          /\ events' = events \cup {"accept"} /\ tok' = [tok EXCEPT !["accept"] = "held"]
    /\ UNCHANGED <<tries, left, listen, conn, children, newChild, stuck, quitKey, stream>>

\* Mutant: the child whose protocol cannot be opened is forgotten.
Accepted_ChildKept ==
    /\ at = "accepting" /\ tok["accept"] = "done"
    /\ Returns("error")
    /\ conn' = NoConn /\ events' = events \ {"accept"}
    /\ tok' = [tok EXCEPT !["accept"] = "free"]
    /\ UNCHANGED <<tries, left, listen, children, newChild, stuck, quitKey, stream>>

\* The connection of the accept token is opened; or its protocol cannot be, and the
\* child is destroyed; or there is no receive event, and it is closed again.
Accepted ==
    /\ at = "accepting" /\ tok["accept"] = "done"
    /\ \/ /\ Returns("ok")
          /\ conn' = [NoConn EXCEPT !.Handle = newChild, !.Tcp = TRUE]
          /\ events' = (events \ {"accept"}) \cup {"rx"}
          /\ tok' = [tok EXCEPT !["accept"] = "free"]
          /\ UNCHANGED children
       \/ /\ Returns("error")
          /\ conn' = NoConn
          /\ events' = events \ {"accept"}
          /\ tok' = [tok EXCEPT !["accept"] = "free"]
          /\ children' = children \ {newChild}
       \/ /\ at' = "closing" /\ ret' = "error"
          /\ conn' = [NoConn EXCEPT !.Handle = newChild, !.Tcp = TRUE]
          /\ events' = (events \ {"accept"}) \cup {"close"}
          /\ tok' = [tok EXCEPT !["accept"] = "free", !["close"] = "held"]
          /\ UNCHANGED children
       \/ /\ at' = "destroying" /\ ret' = "error"
          /\ conn' = [NoConn EXCEPT !.Handle = newChild, !.Tcp = TRUE, !.Closed = TRUE]
          /\ events' = events \ {"accept"}
          /\ tok' = [tok EXCEPT !["accept"] = "free"]
          /\ UNCHANGED children
    /\ UNCHANGED <<tries, left, listen, newChild, stuck, quitKey, stream>>

AcceptFailed ==
    /\ at = "accepting" /\ tok["accept"] = "failed" /\ Returns("error")
    /\ events' = events \ {"accept"} /\ tok' = [tok EXCEPT !["accept"] = "free"]
    /\ UNCHANGED <<tries, left, listen, conn, children, newChild, stuck, quitKey, stream>>

\* NetLocalAbortRequested finds a key after CheckEvent has found nothing: Cancel.
AcceptAborted ==
    /\ at = "accepting" /\ quitKey /\ quitKey' = FALSE
    /\ tok["accept"] = "held"
    /\ Waits("aborting")
    /\ UNCHANGED <<tries, left, listen, conn, events, driver, stream>>

\* The token is back or 100 polls have passed.  Nobody looks at what the token
\* says: a connection that came in the meantime stays with the driver.
AbortEnds ==
    /\ at = "aborting" /\ Returns("aborted")
    /\ events' = events \ {"accept"}
    /\ IF tok["accept"] = "held"
         THEN stuck' = stuck \cup {"accept"} /\ UNCHANGED tok
         ELSE tok' = [tok EXCEPT !["accept"] = "free"] /\ UNCHANGED stuck
    /\ UNCHANGED <<tries, left, listen, conn, children, newChild, quitKey, stream>>

----------------------------------------------------------------------------
\* NetRead: at most max bytes, "none" or "lost".  The Poll after a Receive is posted
\* is a step of the driver: what it completes, the next call finds.

\* The end of NetRead, with the connection as c.
Taken(c, max) ==
    LET n == Least(c.RxAvail, max)
    IN IF n = 0
         THEN conn' = c /\ ret' = (IF c.Closed THEN "lost" ELSE "none") /\ UNCHANGED got
         ELSE /\ conn' = [c EXCEPT !.RxOff = @ + n, !.RxAvail = @ - n]
              /\ got' = got \o SubSeq(c.RxBuf, c.RxOff + 1, c.RxOff + n)
              /\ ret' = "data"

\* A completed token's bytes become readable.
Filled == [conn EXCEPT !.RxPosted = FALSE, !.RxAvail = Len(conn.RxBuf), !.RxOff = 0]

NetRead(max) ==
    /\ at = "idle" /\ conn.Tcp
    /\ \/ /\ conn.RxAvail > 0 \/ IF conn.RxPosted THEN tok["rx"] = "held" ELSE conn.Closed
          /\ Taken(conn, max) /\ UNCHANGED tok
       \/ /\ conn.RxAvail = 0 /\ ~conn.RxPosted /\ ~conn.Closed
          /\ \/ Taken([conn EXCEPT !.RxPosted = TRUE], max) /\ tok' = [tok EXCEPT !["rx"] = "held"]
             \/ Taken([conn EXCEPT !.Closed = TRUE], max) /\ UNCHANGED tok
       \/ /\ conn.RxAvail = 0 /\ conn.RxPosted /\ tok["rx"] \in {"done", "failed"}
          /\ IF tok["rx"] = "done"
               THEN Taken(Filled, max)
               ELSE Taken([conn EXCEPT !.RxPosted = FALSE, !.Closed = TRUE], max)
          /\ tok' = [tok EXCEPT !["rx"] = "free"]
    /\ UNCHANGED <<at, tries, left, listen, events, children, newChild, stuck, quitKey,
                   chunk, handed, asked, out>>

----------------------------------------------------------------------------
\* NetWrite.

\* Mutant: each chunk is taken from the start of the buffer.
Transmits_SameChunk(n) ==
    /\ Waits("writing") /\ left' = n
    /\ chunk' = Bytes(asked + 1, asked + Least(n, ChunkSize))
    /\ events' = events \cup {"tx"} /\ tok' = [tok EXCEPT !["tx"] = "held"]
    /\ UNCHANGED conn

\* The next chunk of the n bytes that are left.  Without an event the call gives up
\* and the connection stays open; a refused Transmit closes it.
Transmits(n) ==
    LET sent == asked' - n
    IN \/ /\ Returns("lost") /\ left' = 0
          /\ conn' \in {conn, [conn EXCEPT !.Closed = TRUE]}
          /\ events' = events \ {"tx"} /\ tok' = [tok EXCEPT !["tx"] = "free"]
          /\ UNCHANGED chunk
       \/ /\ Waits("writing") /\ left' = n
          /\ chunk' = Bytes(sent + 1, sent + Least(n, ChunkSize))
          /\ events' = events \cup {"tx"} /\ tok' = [tok EXCEPT !["tx"] = "held"]
          /\ UNCHANGED conn

NetWrite(n) ==
    /\ at = "idle" /\ conn.Tcp
    /\ asked' = asked + n
    /\ IF conn.Closed
         THEN Returns("lost") /\ UNCHANGED <<left, conn, events, tok, chunk>>
         ELSE Transmits(n)
    /\ UNCHANGED <<tries, listen, children, newChild, stuck, quitKey, handed, got, out>>

\* The call fails: the token is the driver's no more, the connection closed.
WriteLost ==
    /\ Returns("lost") /\ left' = 0
    /\ conn' = [conn EXCEPT !.Closed = TRUE]
    /\ events' = events \ {"tx"}

\* A token that has completed: the next chunk, the end of the call, or an error.
Transmitted ==
    /\ at = "writing" /\ tok["tx"] # "held"
    /\ UNCHANGED asked
    /\ \/ tok["tx"] = "done" /\ left > Len(chunk) /\ Transmits(left - Len(chunk))
       \/ /\ tok["tx"] = "done" /\ left <= Len(chunk)
          /\ Returns("ok") /\ left' = 0
          /\ events' = events \ {"tx"} /\ tok' = [tok EXCEPT !["tx"] = "free"]
          /\ UNCHANGED <<conn, chunk>>
       \/ /\ tok["tx"] = "failed" /\ WriteLost
          /\ tok' = [tok EXCEPT !["tx"] = "free"] /\ UNCHANGED chunk
    /\ UNCHANGED <<tries, listen, children, newChild, stuck, quitKey, handed, got, out>>

\* Mutant: the call returns without cancelling the token.
WriteTimesOut_NoCancel ==
    /\ at = "writing" /\ tok["tx"] = "held"
    /\ WriteLost
    /\ UNCHANGED <<tries, listen, driver, quitKey, stream>>

\* Mutant: no time limit.
WriteTimesOut_Never == FALSE /\ UNCHANGED tcpVars

\* 30 s have passed: Cancel.
WriteTimesOut ==
    /\ at = "writing" /\ Waits("cancelling")
    /\ tok["tx"] = "held"
    /\ UNCHANGED <<tries, left, listen, conn, events, driver, quitKey, stream>>

\* The token is back, or another second has passed; the write has failed either way.
WriteCancelled ==
    /\ at = "cancelling" /\ WriteLost
    /\ IF tok["tx"] = "held"
         THEN stuck' = stuck \cup {"tx"} /\ UNCHANGED tok
         ELSE tok' = [tok EXCEPT !["tx"] = "free"] /\ UNCHANGED stuck
    /\ UNCHANGED <<tries, listen, children, newChild, quitKey, stream>>

Waiting ==
    \/ Configured \/ ConfigureAgain \/ ConfigureFails
    \/ Accepted \/ AcceptFailed \/ AcceptAborted \/ AbortEnds
    \/ Transmitted \/ WriteTimesOut \/ WriteCancelled
    \/ RxCancelled \/ CloseEnds \/ DestroyChild

----------------------------------------------------------------------------
\* The driver and the keyboard.

DriverAccepts ==
    /\ tok["accept"] = "held"
    /\ \E h \in Handles \ children :
         newChild' = h /\ children' = children \cup {h}
    /\ tok' = [tok EXCEPT !["accept"] = "done"]
    /\ UNCHANGED <<call, listen, conn, events, stuck, quitKey, stream>>

\* The next bytes of the client, into the buffer the token names.
DriverReceives ==
    /\ tok["rx"] = "held"
    /\ \E n \in 0..Least(RxSize, MaxIn - handed) :
         /\ conn' = [conn EXCEPT !.RxBuf = Bytes(handed + 1, handed + n)]
         /\ handed' = handed + n
    /\ tok' = [tok EXCEPT !["rx"] = "done"]
    /\ UNCHANGED <<call, listen, events, children, newChild, stuck, quitKey, chunk, asked, got, out>>

\* A Transmit ends: with the chunk on its way, or with some of it and an error.
DriverTransmits ==
    /\ tok["tx"] = "held"
    /\ \/ out' = out \o chunk /\ tok' = [tok EXCEPT !["tx"] = "done"]
       \/ /\ \E n \in 0..Len(chunk) : out' = out \o SubSeq(chunk, 1, n)
          /\ tok' = [tok EXCEPT !["tx"] = "failed"]
    /\ UNCHANGED <<call, listen, conn, events, children, newChild, stuck, quitKey,
                   chunk, handed, asked, got>>

DriverCloses ==
    /\ tok["close"] = "held" /\ tok' = [tok EXCEPT !["close"] = "done"]
    /\ UNCHANGED <<call, listen, conn, events, children, newChild, stuck, quitKey, stream>>

\* An error, or the answer to Cancel.
DriverFails ==
    /\ \E k \in {"accept", "rx", "close"} :
         tok[k] = "held" /\ tok' = [tok EXCEPT ![k] = "failed"]
    /\ UNCHANGED <<call, listen, conn, events, children, newChild, stuck, quitKey, stream>>

KeyPressed ==
    /\ ~quitKey /\ quitKey' = TRUE
    /\ UNCHANGED <<call, listen, conn, events, driver, stream>>

Driver == DriverAccepts \/ DriverReceives \/ DriverTransmits \/ DriverCloses \/ DriverFails \/ KeyPressed
----------------------------------------------------------------------------
\* Types, and reads that stay within what the driver delivered; Server.tla says what
\* events is.

CallTypeOK ==
    /\ at \in Places /\ ret \in {"none", "data", "lost", "ok", "error", "aborted"}
    /\ tries \in 0..(MaxTries - 1) /\ left \in Nat

DriverTypeOK ==
    /\ listen \in Handles \cup {None} /\ newChild \in Handles \cup {None}
    /\ children \subseteq Handles
    /\ tok \in [Tokens -> {"free", "held", "done", "failed"}] /\ stuck \subseteq Tokens
    /\ quitKey \in BOOLEAN

ConnTypeOK ==
    /\ conn \in NetConn
    /\ conn.RxOff + conn.RxAvail <= Len(conn.RxBuf) \/ conn.RxAvail = 0

StreamTypeOK ==
    /\ chunk \in Seq(Nat) /\ handed \in Nat /\ asked \in Nat
    /\ got \in Seq(Nat) /\ out \in Seq(Nat)
=============================================================================
