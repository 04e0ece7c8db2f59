----------------------------- MODULE SshSession -----------------------------
(***************************************************************************)
(* The server connection of SshConn.tla, a conformant SSH client, and the  *)
(* TCP stream between them as two queues of packets.                       *)
(*                                                                         *)
(* The client is external: it does what RFC 4253, 4252 and 4254 let a      *)
(* client do and what src/README.md supports (password login, one session  *)
(* with a terminal, rekeying started by the client).  It may guess the key *)
(* exchange, rightly or wrongly, sends nothing but key exchange packets    *)
(* between its KEXINIT and its NEWKEYS, and keeps to its channel window.   *)
(***************************************************************************)
EXTENDS SshConn

CONSTANTS
    Faults,         \* the SendResults that occur
    Timeouts,       \* whether the server's timeouts may fire
    ClientCloses,   \* whether the client may send EOF and CLOSE on its own
    ShellExits,     \* whether the caller may close the session
    Guesses,        \* the client's guesses, a subset of {"none", "right", "wrong"}
    Tries,          \* the passwords it tries, a subset of {"right", "wrong"}
    ClientWindow,   \* the window the client grants for the server's output
    ClientMaxPkt,   \* the largest packet it accepts
    MaxTyped,       \* BOUND: bytes the client types
    MaxWritten,     \* BOUND: bytes the server's caller writes
    MaxRekeys       \* BOUND: key exchanges after the first

ASSUME SessionAssumption ==
    /\ Faults \subseteq SendResults
    /\ Timeouts \in BOOLEAN /\ ClientCloses \in BOOLEAN /\ ShellExits \in BOOLEAN
    /\ Guesses \subseteq {"none", "right", "wrong"} /\ Tries \subseteq {"right", "wrong"}
    /\ Window <= RingCap /\ Window < Mod32
    /\ ClientWindow \in 1..(Mod32 - 1) /\ ClientMaxPkt \in Nat
    /\ MaxTyped \in Nat /\ MaxWritten \in Nat /\ MaxRekeys \in Nat

VARIABLES
    c2s, s2c,       \* the packets under way to the server and to the client
    cl,             \* the client, see ClientState
    typed,          \* bytes the client has typed
    delivered,      \* bytes SshRead has returned
    written         \* bytes passed to SshWrite

sessionVars == <<vars, c2s, s2c, cl, typed, delivered, written>>

ClientState ==
    [step : {"start", "kex", "service", "auth", "auth-wait", "open", "open-wait",
             "request", "pty-wait", "shell-wait", "session", "gone"},
     kex : {"idle",         \* no exchange under way
            "init",         \* KEXINIT sent
            "guessed",      \* KEXINIT sent and, rightly guessing, KEXDH_INIT
            "dh",           \* KEXDH_INIT sent and the server's KEXINIT received
            "newkeys"},     \* NEWKEYS sent, the server's awaited
     peerInit : BOOLEAN,    \* the server's KEXINIT has come and is not used yet
     out : Nat, in : Nat,   \* keys for sending and for receiving
     win : 0..Window,       \* bytes it may still send
     grant : 0..ClientWindow, \* bytes the server may still send
     eof : BOOLEAN, closeSent : BOOLEAN, closeRecv : BOOLEAN,
     rekeys : 0..MaxRekeys]

Details == {"", "ssh2", "match", "wrong guess", "right", "wrong", "resize", "shell"}
ClientPacket == [msg : ClientMsgs \cup {"version"}, key : Nat, n : Nat, arg : Details]
-----------------------------------------------------------------------------
(* The client *)

C(m, n, arg) == [msg |-> m, key |-> cl.out, n |-> n, arg |-> arg]
Post(ps) == c2s' = c2s \o ps /\ UNCHANGED s2c

\* No exchange stands between its KEXINIT and its NEWKEYS.
MaySend == cl.step # "gone" /\ cl.out > 0 /\ cl.kex \in {"idle", "newkeys"}
MayUseChannel == MaySend /\ cl.step = "session" /\ ~cl.closeSent

ClientHello ==
    /\ cl.step = "start"
    /\ cl' = [cl EXCEPT !.step = "kex"]
    /\ Post(<<C("version", 0, "ssh2")>>)
    /\ UNCHANGED typed

\* The first exchange and the later ones.
ClientKexInit(guess) ==
    /\ cl.step \notin {"start", "gone"} /\ cl.kex = "idle"
    /\ cl.out > 0 => cl.rekeys < MaxRekeys
    /\ cl' = [cl EXCEPT !.kex = IF guess # "right" THEN "init"
                                ELSE IF cl.peerInit THEN "dh" ELSE "guessed",
                        !.peerInit = @ /\ guess # "right",
                        !.rekeys = IF cl.out > 0 THEN @ + 1 ELSE @]
    /\ Post(CASE guess = "none" -> <<C("kexinit", 0, "match")>>
              [] guess = "right" -> <<C("kexinit", 0, "match"), C("kexdh", 0, "")>>
              [] guess = "wrong" -> <<C("kexinit", 0, "wrong guess"), C("kexdh", 0, "")>>)
    /\ UNCHANGED typed

ClientKexDh ==
    /\ cl.step # "gone" /\ cl.kex = "init" /\ cl.peerInit
    /\ cl' = [cl EXCEPT !.kex = "dh", !.peerInit = FALSE]
    /\ Post(<<C("kexdh", 0, "")>>)
    /\ UNCHANGED typed

\* The next step of logging in and starting the shell.
ClientProceeds ==
    /\ MaySend
    /\ \E s \in {<<"kex", "service", <<C("service", 0, "")>> >>,
                 <<"open", "open-wait", <<C("open", ClientWindow, "")>> >>,
                 <<"request", "pty-wait",
                   <<C("request", 0, "resize"), C("request", 0, "shell")>> >>}
                \cup {<<"auth", "auth-wait", <<C("userauth", 0, try)>> >> : try \in Tries} :
          cl.step = s[1] /\ cl' = [cl EXCEPT !.step = s[2]] /\ Post(s[3])
    /\ UNCHANGED typed

ClientTypes(n) ==
    /\ MayUseChannel /\ ~cl.eof
    /\ n <= cl.win /\ typed + n <= MaxTyped
    /\ typed' = typed + n
    /\ cl' = [cl EXCEPT !.win = @ - n]
    /\ Post(<<C("data", n, "")>>)

ClientAdjusts ==
    /\ MayUseChannel /\ cl.grant < ClientWindow
    /\ cl' = [cl EXCEPT !.grant = ClientWindow]
    /\ Post(<<C("adjust", ClientWindow - cl.grant, "")>>)
    /\ UNCHANGED typed

ClientEof ==
    /\ ClientCloses /\ MayUseChannel /\ ~cl.eof
    /\ cl' = [cl EXCEPT !.eof = TRUE]
    /\ Post(<<C("eof", 0, "")>>)
    /\ UNCHANGED typed

\* On its own, or in answer to the server's CLOSE.
ClientClose ==
    /\ MayUseChannel /\ (ClientCloses \/ cl.closeRecv)
    /\ cl' = [cl EXCEPT !.closeSent = TRUE]
    /\ Post(<<C("close", 0, "")>>)
    /\ UNCHANGED typed

ClientLeaves ==
    /\ MaySend /\ cl.closeSent /\ cl.closeRecv
    /\ cl' = [cl EXCEPT !.step = "gone"]
    /\ Post(<<C("disconnect", 0, "")>>)
    /\ UNCHANGED typed

\* What a packet from the server does to the client.
Taken(p) ==
    CASE p.msg = "disconnect"   -> [cl EXCEPT !.step = "gone"]
      [] p.msg = "kexinit" /\ cl.kex = "guessed" -> [cl EXCEPT !.kex = "dh"]
      [] p.msg = "kexinit" /\ cl.kex # "guessed" -> [cl EXCEPT !.peerInit = TRUE]
      [] p.msg = "kexdh-reply"  -> [cl EXCEPT !.kex = "newkeys", !.out = @ + 1]
      [] p.msg = "newkeys"      -> [cl EXCEPT !.kex = "idle", !.in = cl.out]
      [] p.msg \in {"service-accept", "auth-failure"} -> [cl EXCEPT !.step = "auth"]
      [] p.msg = "auth-success" -> [cl EXCEPT !.step = "open"]
      [] p.msg = "open-confirm" ->
            [cl EXCEPT !.step = "request", !.win = p.n, !.grant = ClientWindow]
      [] p.msg = "request-success" ->
            [cl EXCEPT !.step = IF @ = "pty-wait" THEN "shell-wait" ELSE "session"]
      [] p.msg = "adjust"       -> [cl EXCEPT !.win = @ + p.n]
      [] p.msg = "data"         -> [cl EXCEPT !.grant = @ - p.n]
      [] p.msg = "close"        -> [cl EXCEPT !.closeRecv = TRUE]
      [] OTHER                  -> cl

\* The client answers KEXDH_REPLY with NEWKEYS, still under its old keys.
ClientReceives ==
    /\ cl.step # "gone" /\ s2c # <<>>
    /\ cl' = Taken(Head(s2c))
    /\ s2c' = Tail(s2c)
    /\ c2s' = IF Head(s2c).msg = "kexdh-reply" THEN Append(c2s, C("newkeys", 0, ""))
              ELSE c2s
    /\ UNCHANGED typed

ClientStep ==
    /\ \/ ClientReceives \/ ClientHello \/ ClientKexDh \/ ClientProceeds
       \/ \E guess \in Guesses : ClientKexInit(guess)
       \/ \E n \in DataSizes : ClientTypes(n)
       \/ ClientAdjusts \/ ClientEof \/ ClientClose \/ ClientLeaves
    /\ UNCHANGED <<vars, delivered, written>>
-----------------------------------------------------------------------------
(* The server *)

\* HandlePacket's dispatch of a packet that has passed its checks.
Dispatch(p, o) ==
    CASE p.msg = "kexinit"    -> RecvKexInit(p.arg, o)
      [] p.msg = "kexdh"      -> RecvKexDh(o)
      [] p.msg = "newkeys"    -> RecvNewKeys
      [] p.msg = "service"    -> RecvServiceRequest(o)
      [] p.msg = "userauth"   -> RecvUserauth(p.arg, o)
      [] p.msg = "open"       -> RecvChannelOpen(TRUE, p.n, ClientMaxPkt, o)
      [] p.msg = "request"    -> \E d \in Dims : RecvChannelRequest(p.arg, d, d, TRUE, o)
      [] p.msg = "data"       -> RecvData(p.n)
      [] p.msg = "adjust"     -> RecvWindowAdjust(p.n)
      [] p.msg = "eof"        -> RecvEof
      [] p.msg = "close"      -> RecvClose(o)
      [] p.msg = "disconnect" -> RecvDisconnect

\* What TryProcessOne and HandlePacket do with the next packet of the stream: under
\* other keys its MAC is wrong and it might as well be of no known kind.
Handle(p, o) ==
    IF p.msg = "version" THEN RecvVersion(p.arg, o)
    ELSE IF p.key # inKeys THEN RejectPacket("unknown", FALSE, o)
    ELSE IF Guessed(p.msg) THEN SkipGuessed(p.msg)
    ELSE IF ~Acceptable(p.msg) THEN RejectPacket(p.msg, TRUE, o)
    ELSE Dispatch(p, o)

Wire == s2c' = s2c \o tx'

ServerReceives(o) ==
    /\ c2s # <<>> /\ Handle(Head(c2s), o)
    /\ c2s' = Tail(c2s) /\ Wire
    /\ UNCHANGED <<delivered, written>>

\* The stream ends when the client has gone, or when the network fails.
ServerLosesClient ==
    /\ \/ cl.step = "gone" /\ c2s = <<>>
       \/ "closed" \in Faults
    /\ ConnectionLost /\ Wire
    /\ UNCHANGED <<c2s, delivered, written>>

ServerAccepts(o) ==
    /\ AcceptStart(o) \/ AcceptReturn \/ (Timeouts /\ AcceptTimeout(o))
    /\ Wire /\ UNCHANGED <<c2s, delivered, written>>

ServerReads(o) ==
    /\ Read(o)
    /\ delivered' = delivered + ring - ring'
    /\ Wire /\ UNCHANGED <<c2s, written>>

ServerStartsWrite(n) ==
    /\ written + n <= MaxWritten
    /\ WriteStart(n)
    /\ written' = written + n
    /\ Wire /\ UNCHANGED <<c2s, delivered>>

ServerWrites(o) ==
    /\ \/ WriteWait \/ WriteResume \/ WriteChunk(o)
       \/ WriteFail /\ (Timeouts \/ ~Writable)
    /\ Wire /\ UNCHANGED <<c2s, delivered, written>>

ServerStartsClose(o) ==
    /\ ShellExits \/ pc = "quit" \/ ~Writable
    /\ CloseStart(IF o = "ok" THEN {"exit-status", "eof", "close"} ELSE {}, o)
    /\ Wire /\ UNCHANGED <<c2s, delivered, written>>

ServerEndsClose(o) ==
    /\ \/ CloseWaited /\ (Timeouts \/ closeRecv)
       \/ CloseEnd(o)
    /\ Wire /\ UNCHANGED <<c2s, delivered, written>>

ServerStep ==
    /\ \/ ServerLosesClient
       \/ \E o \in Faults :
            \/ ServerReceives(o) \/ ServerAccepts(o) \/ ServerReads(o) \/ ServerWrites(o)
            \/ ServerStartsClose(o) \/ ServerEndsClose(o)
       \/ \E n \in WriteSizes : ServerStartsWrite(n)
    /\ UNCHANGED <<cl, typed>>
-----------------------------------------------------------------------------
(* Properties *)

SessionTypeOK ==
    /\ TypeOK /\ cl \in ClientState
    /\ c2s \in Seq(ClientPacket) /\ s2c \in Seq(Packet)
    /\ typed \in 0..MaxTyped /\ delivered \in Nat /\ written \in 0..MaxWritten

\* The sum of a sequence of numbers.
Tally(w) ==
    LET sum[i \in 0..Len(w)] == IF i = 0 THEN 0 ELSE sum[i - 1] + w[i]
    IN sum[Len(w)]

\* The bytes in the packets of one kind in a queue, and their number.
Total(q, msg) == Tally([i \in 1..Len(q) |-> IF q[i].msg = msg THEN q[i].n ELSE 0])
Count(q, msg) == Tally([i \in 1..Len(q) |-> IF q[i].msg = msg THEN 1 ELSE 0])

Alive == state # "CLOSED" /\ cl.step # "gone"

\* Every packet under way is sealed with the keys its receiver will hold when the
\* packet's turn comes: NEWKEYS, and nothing else, separates two key sets, in both
\* directions (the order of the sends and the switch in DoKexDh, ApplyNewKeys).
KeysMatchStream ==
    Alive =>
    /\ \A i \in DOMAIN s2c :
         s2c[i].key = cl.in + Count(SubSeq(s2c, 1, i - 1), "newkeys")
    /\ \A i \in DOMAIN c2s :
         c2s[i].key = IF Count(SubSeq(c2s, 1, i - 1), "newkeys") = 0 THEN inKeys
                      ELSE pendKeys

\* SSH_LOCAL_WINDOW bytes of input credit exist once the channel is open: the
\* client's, and those in flight, in the ring, read but not yet returned
\* (c->consumed) or on their way back.  So the ring never drops a byte.
InputCreditConserved ==
    Alive /\ cl.step \in {"request", "pty-wait", "shell-wait", "session"}
    => cl.win + Total(c2s, "data") + ring + consumed + Total(s2c, "adjust") = Window

\* Every typed byte is on its way, in the ring, or has been read once.
NoInputLost == state # "CLOSED" => typed = delivered + ring + Total(c2s, "data")

\* The server's view of the client's window never exceeds what the client granted:
\* with the output and the adjustments in flight it is exactly the grant.
OutputCreditConserved ==
    Alive /\ cl.step \in {"request", "pty-wait", "shell-wait", "session"}
    => remoteWindow + Total(s2c, "data") + Total(c2s, "adjust") = cl.grant

\* A packet from this client never makes the server disconnect, but for the last
\* wrong password: not a guessed key exchange, not
\* a rekey at any point, not what is still under way when the session ends.
NeverRejected ==
    [][c2s # <<>> /\ c2s' = Tail(c2s) /\ Sends({"disconnect"})
       => Head(c2s).msg = "userauth" /\ authTries' = MaxAuthTries]_sessionVars

\* Between the server's KEXINIT and its NEWKEYS the client sees key exchange packets
\* only (and a DISCONNECT).
InExchange == cl.peerInit \/ cl.kex \in {"dh", "newkeys"}
RekeyUndisturbed ==
    InExchange /\ s2c # <<>> => Head(s2c).msg \in KexMsgs \cup {"disconnect"}
-----------------------------------------------------------------------------
SessionInit ==
    /\ Init
    /\ c2s = <<>> /\ s2c = <<>>
    /\ cl = [step |-> "start", kex |-> "idle", peerInit |-> FALSE, out |-> 0, in |-> 0,
             win |-> 0, grant |-> 0, eof |-> FALSE, closeSent |-> FALSE,
             closeRecv |-> FALSE, rekeys |-> 0]
    /\ typed = 0 /\ delivered = 0 /\ written = 0

SessionOver == pc = "done" /\ UNCHANGED sessionVars

SessionNext == ClientStep \/ ServerStep \/ SessionOver

SessionSpec == SessionInit /\ [][SessionNext]_sessionVars

\* Fairness.  The client finishes what it has begun (its log-in, a key exchange, an
\* answer that is due) and reads its socket, but need not type, rekey or close.
ClientMust ==
    /\ \/ ClientReceives \/ ClientHello \/ ClientKexDh \/ ClientProceeds \/ ClientAdjusts
       \/ cl.out = 0 /\ \E guess \in Guesses : ClientKexInit(guess)
       \/ cl.closeRecv /\ ClientClose
       \/ ClientLeaves
    /\ UNCHANGED <<vars, delivered, written>>

\* The server's caller reads the terminal again and again (the Shell polls its
\* keyboard) and every call goes on; it need not write or close.  ServerReceives
\* is strongly fair: a packet that has arrived is handled by the next ProcessInput
\* a call makes, though no call may be inside ProcessInput all the time.
ServerMust ==
    /\ \/ cl.step = "gone" /\ ServerLosesClient
       \/ \E o \in Faults :
            \/ ServerAccepts(o) \/ ServerReads(o) \/ ServerWrites(o)
            \/ pc = "quit" /\ ServerStartsClose(o)
            \/ (pc # "ready" \/ state = "CLOSED") /\ ServerEndsClose(o)
    /\ UNCHANGED <<cl, typed>>
ServerReceivesNext == (\E o \in Faults : ServerReceives(o)) /\ UNCHANGED <<cl, typed>>

FairSessionSpec ==
    /\ SessionSpec
    /\ WF_sessionVars(ClientMust)
    /\ WF_sessionVars(ServerMust)
    /\ SF_sessionVars(ServerReceivesNext)

\* A client that knows the password gets its shell, whatever it guesses about the
\* key exchange and whoever sends KEXINIT first.
ShellStarts == <>shellReady

\* SshWrite returns: the wait for window and keys ends although the server that
\* waits has to answer the client's rekey itself.
WritesReturn == pc \in {"write", "wait"} ~> pc \notin {"write", "wait"}

\* A client whose window is used up gets window again while the session lasts.
InputResumes == cl.win = 0 /\ cl.step = "session" ~> cl.win > 0 \/ state = "CLOSED"

\* The same as long as the client starts no rekey (a rekey may hold the adjustment
\* back for good, see InputResumes): the reads of the caller alone bring new window.
InputResumesUnlessRekeyed ==
    cl.win = 0 /\ cl.step = "session" ~> cl.win > 0 \/ state = "CLOSED" \/ cl.rekeys > 0

\* SshClose gets through, and the client learns of it.
CloseReturns == pc = "close" ~> pc = "done" /\ cl.step = "gone"
=============================================================================
