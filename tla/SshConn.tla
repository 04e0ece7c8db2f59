------------------------------ MODULE SshConn ------------------------------
(***************************************************************************)
(* The SSH server connection of src/files/ssh.c: struct SSH_CONN, the      *)
(* packet handlers ProcessInput runs and the calls of its one user         *)
(* (SshAccept, SshRead, SshWrite, SshClose, SshPoll).                       *)
(*                                                                         *)
(* The code is single threaded.  An action is one packet handled, or one   *)
(* stretch of an API call between two points where ProcessInput may run.   *)
(* The client is arbitrary here: any packet may arrive whenever the server *)
(* reads.  SshSession.tla puts a conformant client at the other end.       *)
(*                                                                         *)
(* Cryptography is abstract: a key set is the number of the key exchange   *)
(* that produced it, 0 is "no keys" (plaintext).  Payload bytes are counts.*)
(***************************************************************************)
EXTENDS Integers, Sequences

CONSTANTS
    MaxAuthTries,   \* SSH_MAX_AUTH_TRIES of config.h
    Window,         \* SSH_LOCAL_WINDOW, what the client may send unconfirmed
    RingCap,        \* SSH_IN_RING - 1, the bytes inRing can hold
    ReadMax,        \* size of the buffer SshRead fills (256 in PumpInput)
    DataChunk,      \* SSH_DATA_CHUNK, the most SshWrite puts in a packet
    Mod32,          \* 2^32: remoteWindow and consumed are UINT32
    DataSizes,      \* payload sizes of CHANNEL_DATA packets that arrive
    Grants,         \* client window sizes and increments that arrive
    PktLimits,      \* the client's maximum packet sizes that arrive
    Dims,           \* terminal columns and rows that arrive
    WriteSizes,     \* lengths the caller passes to SshWrite
    MaxKex          \* BOUND: key exchanges per connection

ASSUME ConnAssumption ==
    /\ MaxAuthTries \in Nat \ {0}
    /\ Window \in Nat \ {0}
    /\ RingCap \in Nat \ {0}
    /\ ReadMax \in Nat \ {0}
    /\ DataChunk \in Nat \ {0}
    /\ Mod32 \in Nat \ {0}
    /\ DataSizes \subseteq Nat
    /\ Grants \subseteq 0..(Mod32 - 1)
    /\ PktLimits \subseteq Nat
    /\ Dims \subseteq Nat
    /\ WriteSizes \subseteq Nat \ {0}
    /\ MaxKex \in Nat

VARIABLES
    pc,             \* where the one caller is, see PCs
    unsent,         \* bytes the running SshWrite still has to send
    state,          \* SSH_STATE
    kex,            \* KEX_STATE
    kexInitSent,
    ignoreNextKexPacket,
    kexNo,          \* exchange hashes computed so far
    sessionId,      \* the exchange whose hash is the session id, 0 if none
    inKeys,         \* c->in: keys incoming packets are checked with
    outKeys,        \* c->out: keys outgoing packets are sealed with
    pendKeys,       \* c->pendKey, pendIv, pendMac
    authenticated,
    authTries,
    chanOpen,
    shellReady,
    remoteEof,
    closeSent,
    closeRecv,
    ring,           \* bytes in inRing
    consumed,       \* bytes read and not yet returned to the client's window
    remoteWindow,
    remoteMaxPkt,
    size,           \* <<cols, rows>>
    tx              \* the packets the last step put on the wire, in order

kexVars  == <<kex, kexInitSent, ignoreNextKexPacket>>
keyVars  == <<kexNo, sessionId, inKeys, outKeys, pendKeys>>
authVars == <<authenticated, authTries>>
chanVars == <<chanOpen, shellReady, remoteEof, closeSent, closeRecv>>
flowVars == <<ring, consumed, remoteWindow, remoteMaxPkt>>
vars == <<pc, unsent, state, kexVars, keyVars, authVars, chanVars, flowVars,
          size, tx>>

States == {"VERSION", "KEX", "AUTH", "CONN", "CLOSED"}
KexStates == {"IDLE", "WAIT_KEXINIT", "WAIT_DH", "WAIT_NEWKEYS"}

\* start: SshNew returned;  accept: in SshAccept;  ready: between calls of the
\* session;  write, wait: in SshWrite, outside and inside its ProcessInput;
\* close: in the wait of SshClose;  quit: SshClose is next, or at its end;
\* done: SshClose returned.
PCs == {"start", "accept", "ready", "write", "wait", "close", "quit", "done"}

ClientMsgs == {"disconnect", "ignore", "kexinit", "kexdh", "newkeys", "service",
               "userauth", "global", "open", "request", "data", "adjust",
               "eof", "close", "unknown", "unknown-kex"}
KexMsgs == {"kexinit", "kexdh-reply", "newkeys"}
SessionMsgs == {"service-accept", "auth-failure", "auth-success",
                "open-confirm", "open-failure", "request-success",
                "request-failure", "data", "adjust", "exit-status", "eof",
                "close"}
ServerMsgs == KexMsgs \cup SessionMsgs
                \cup {"version", "disconnect", "global-failure", "unimplemented"}

\* What a SendPacket comes to: sent, a local failure (the random generator, the
\* HMAC or AES) that leaves the connection as it was, a failed write.
SendResults == {"ok", "local", "closed"}

Packet == [msg : ServerMsgs, key : Nat, n : Nat]

Least(a, b) == IF a <= b THEN a ELSE b

CallTypeOK == pc \in PCs /\ unsent \in Nat /\ state \in States /\ tx \in Seq(Packet)
KexTypeOK ==
    kex \in KexStates /\ kexInitSent \in BOOLEAN /\ ignoreNextKexPacket \in BOOLEAN
KeyTypeOK ==
    /\ kexNo \in Nat /\ sessionId \in Nat
    /\ inKeys \in Nat /\ outKeys \in Nat /\ pendKeys \in Nat
AuthTypeOK == authenticated \in BOOLEAN /\ authTries \in Nat
ChanTypeOK ==
    /\ chanOpen \in BOOLEAN /\ shellReady \in BOOLEAN /\ remoteEof \in BOOLEAN
    /\ closeSent \in BOOLEAN /\ closeRecv \in BOOLEAN
FlowTypeOK ==
    /\ ring \in 0..RingCap /\ consumed \in 0..(Mod32 - 1)
    /\ remoteWindow \in 0..(Mod32 - 1) /\ remoteMaxPkt \in Nat
SizeTypeOK == size \in (1..999) \X (1..999)

TypeOK ==
    /\ CallTypeOK /\ KexTypeOK /\ KeyTypeOK /\ AuthTypeOK
    /\ ChanTypeOK /\ FlowTypeOK /\ SizeTypeOK
-----------------------------------------------------------------------------
(* Sending *)

Sealed(m, n) == [msg |-> m, key |-> outKeys, n |-> n]
P(m) == Sealed(m, 0)

\* A handler that returns -1, or leaves the connection closed, makes ProcessInput
\* and with it the API call that runs it return -1.
Unwound ==
    IF pc \in {"accept", "close"} THEN "quit" ELSE IF pc = "wait" THEN "ready" ELSE pc

Return(ok) ==
    /\ pc' = IF ok /\ state' # "CLOSED" THEN pc ELSE Unwound
    /\ unsent' = IF pc' = pc THEN unsent ELSE 0

\* SendPacket as the last call of a handler that moved the connection to s.
SendPacket(s, p, o) ==
    /\ tx' = IF o = "ok" THEN <<p>> ELSE <<>>
    /\ state' = IF o = "closed" THEN "CLOSED" ELSE s
    /\ Return(o = "ok")

\* Disconnect: the notice is sent if it can be, the connection is closed anyway.
\* before holds what the same handler has sent already.
Disconnect(before, o) ==
    /\ tx' = IF o = "ok" THEN Append(before, P("disconnect")) ELSE before
    /\ state' = "CLOSED"
    /\ Return(FALSE)

\* A handler that sends nothing and returns 0.
Quiet == tx' = <<>> /\ UNCHANGED <<pc, unsent, state>>

\* Variants named <definition>_<fault> are the definition with a plausible mistake.
\* No action uses them; they show which mistakes the properties notice.
CanSendNow_AnyKex == state = "CONN" /\ chanOpen /\ ~closeSent
CanSendNow_AfterClose ==
    state = "CONN" /\ chanOpen /\ kex \in {"IDLE", "WAIT_NEWKEYS"}

CanSendNow ==
    state = "CONN" /\ chanOpen /\ ~closeSent /\ kex \in {"IDLE", "WAIT_NEWKEYS"}
-----------------------------------------------------------------------------
(* Receiving: TryProcessOne and HandlePacket *)

\* ProcessInput runs in every call of the API except between the chunks of a
\* write that does not have to wait.
Reading_WhenClosed == pc \in {"accept", "ready", "wait", "close"}
Reading_NotInWait == pc \in {"accept", "ready", "close"} /\ state # "CLOSED"
Reading_NotInClose == pc \in {"accept", "ready", "wait"} /\ state # "CLOSED"

Reading == pc \in {"accept", "ready", "wait", "close"} /\ state # "CLOSED"

\* HandlePacket's first test: message numbers 30 to 49 after a wrong guess.
Guessed_Never(m) == FALSE

Guessed(m) == ignoreNextKexPacket /\ m \in {"kexdh", "unknown-kex"}

\* The checks of HandlePacket that end in Disconnect when they fail.
KexExpected(m) ==
    /\ m = "kexinit" => kex \in {"IDLE", "WAIT_KEXINIT"}
    /\ m = "kexdh" => kex = "WAIT_DH"
    /\ m = "newkeys" => kex = "WAIT_NEWKEYS"

Acceptable_AnyKexInit(m) ==
    /\ m \in {"kexdh", "newkeys"} => KexExpected(m)
    /\ m \in {"service", "userauth"} => state \in {"AUTH", "CONN"}
    /\ m \in {"open", "request"} => state = "CONN"
    /\ m \in {"request", "data"} => chanOpen

Acceptable_AnyNewKeys(m) ==
    /\ m \in {"kexinit", "kexdh"} => KexExpected(m)
    /\ m \in {"service", "userauth"} => state \in {"AUTH", "CONN"}
    /\ m \in {"open", "request"} => state = "CONN"
    /\ m \in {"request", "data"} => chanOpen

Acceptable_AuthInKex(m) ==
    /\ KexExpected(m)
    /\ m \in {"service", "userauth"} => state \in {"KEX", "AUTH", "CONN"}
    /\ m \in {"open", "request"} => state = "CONN"
    /\ m \in {"request", "data"} => chanOpen

Acceptable_OpenInAuth(m) ==
    /\ KexExpected(m)
    /\ m \in {"service", "userauth"} => state \in {"AUTH", "CONN"}
    /\ m \in {"open", "request"} => state \in {"AUTH", "CONN"}
    /\ m \in {"request", "data"} => chanOpen

Acceptable(m) ==
    /\ KexExpected(m)
    /\ m \in {"service", "userauth"} => state \in {"AUTH", "CONN"}
    /\ m \in {"open", "request"} => state = "CONN"
    /\ m \in {"request", "data"} => chanOpen

Handles(m) == Reading /\ state # "VERSION" /\ ~Guessed(m) /\ Acceptable(m)

\* A packet that fails its framing, padding or MAC check, or is not well formed
\* where the handler insists on it, or comes when it is not acceptable.
RejectPacket(m, wellFormed, o) ==
    /\ Reading /\ state # "VERSION" /\ ~Guessed(m)
    /\ ~(wellFormed /\ Acceptable(m))
    /\ Disconnect(<<>>, o)
    /\ UNCHANGED <<kexVars, keyVars, authVars, chanVars, flowVars, size>>

\* The packet a wrong guess announced is dropped.
SkipGuessed(m) ==
    /\ Reading /\ state # "VERSION" /\ Guessed(m)
    /\ ignoreNextKexPacket' = FALSE
    /\ Quiet
    /\ UNCHANGED <<kex, kexInitSent, keyVars, authVars, chanVars, flowVars, size>>

\* The transport fails or ends: rd returns -1.
ConnectionLost ==
    /\ Reading
    /\ state' = "CLOSED" /\ tx' = <<>> /\ Return(FALSE)
    /\ UNCHANGED <<kexVars, keyVars, authVars, chanVars, flowVars, size>>

\* A line before the client's version line is skipped, a version that is not 2.0
\* or a line of 255 bytes without an end closes the connection, the version line
\* starts the key exchange with our KEXINIT.
RecvVersion(line, o) ==
    /\ Reading /\ state = "VERSION"
    /\ \/ line = "other" /\ Quiet /\ UNCHANGED kexVars
       \/ line = "refused" /\ Disconnect(<<>>, o) /\ UNCHANGED kexVars
       \/ /\ line = "ssh2"
          /\ kex' = "WAIT_KEXINIT"
          /\ \/ kexInitSent' = TRUE /\ SendPacket("KEX", P("kexinit"), o)
             \/ kexInitSent' = FALSE /\ o = "local" /\ SendPacket("KEX", P("kexinit"), o)
          /\ UNCHANGED ignoreNextKexPacket
    /\ UNCHANGED <<keyVars, authVars, chanVars, flowVars, size>>

RecvDisconnect ==
    /\ Handles("disconnect")
    /\ state' = "CLOSED" /\ tx' = <<>> /\ Return(FALSE)
    /\ UNCHANGED <<kexVars, keyVars, authVars, chanVars, flowVars, size>>

\* IGNORE, DEBUG, UNIMPLEMENTED, EXT_INFO, CHANNEL_EXTENDED_DATA
RecvIgnored ==
    /\ Handles("ignore")
    /\ Quiet
    /\ UNCHANGED <<kexVars, keyVars, authVars, chanVars, flowVars, size>>

\* Any message number HandlePacket does not know ("unknown-kex": one of 30 to 49).
RecvUnknown(m, o) ==
    /\ m \in {"unknown", "unknown-kex"} /\ Handles(m)
    /\ SendPacket(state, P("unimplemented"), o)
    /\ UNCHANGED <<kexVars, keyVars, authVars, chanVars, flowVars, size>>

\* Negotiate's verdict on a guess that comes with the client's KEXINIT.
IgnoreNext_Always(offer) == TRUE

IgnoreNext(offer) == offer = "wrong guess"

\* The server answers a KEXINIT with its own unless it sent one first (SendKexInit
\* may fail before or after it sets kexInitSent), then negotiates: no common
\* algorithm closes the connection, a wrong guess drops the next packet.
RecvKexInit(offer, o) ==
    LET answer == IF kexInitSent THEN <<>> ELSE <<P("kexinit")>>
    IN /\ Handles("kexinit")
       /\ \/ /\ o = "ok" /\ offer # "refused"
             /\ kex' = "WAIT_DH"
             /\ kexInitSent' = FALSE
             /\ ignoreNextKexPacket' = IgnoreNext(offer)
             /\ tx' = answer
             /\ UNCHANGED <<state, pc, unsent>>
          \/ /\ o = "ok" /\ offer = "refused"
             /\ kexInitSent' = FALSE /\ ignoreNextKexPacket' \in BOOLEAN
             /\ \E notice \in SendResults : Disconnect(answer, notice)
             /\ UNCHANGED kex
          \/ /\ o # "ok" /\ ~kexInitSent
             /\ kexInitSent' \in IF o = "local" THEN BOOLEAN ELSE {TRUE}
             /\ SendPacket(state, P("kexinit"), o)
             /\ UNCHANGED <<kex, ignoreNextKexPacket>>
    /\ UNCHANGED <<keyVars, authVars, chanVars, flowVars, size>>

KexReplies_Swapped == <<P("newkeys"), P("kexdh-reply")>>

KexReplies == <<P("kexdh-reply"), P("newkeys")>>

\* The first exchange hash of the connection is the session id.
HashExchange ==
    /\ kexNo < MaxKex
    /\ kexNo' = kexNo + 1
    /\ sessionId' = IF sessionId = 0 THEN kexNo + 1 ELSE sessionId

\* DoKexDh: KEXDH_REPLY and NEWKEYS go out under the old keys, then the outgoing
\* direction switches and the incoming keys wait for the client's NEWKEYS.
RecvKexDh(o) ==
    /\ Handles("kexdh") /\ HashExchange
    /\ \/ /\ o = "ok"
          /\ tx' = KexReplies
          /\ outKeys' = kexNo + 1 /\ pendKeys' = kexNo + 1
          /\ kex' = "WAIT_NEWKEYS"
          /\ UNCHANGED <<state, pc, unsent>>
       \/ /\ o # "ok"
          /\ tx' \in {<<>>, <<P("kexdh-reply")>>}
          /\ state' = IF o = "closed" THEN "CLOSED" ELSE state
          /\ Return(FALSE)
          /\ UNCHANGED <<outKeys, pendKeys, kex>>
    /\ UNCHANGED <<inKeys, kexInitSent, ignoreNextKexPacket, authVars, chanVars,
                   flowVars, size>>

\* DoKexDh or ApplyNewKeys fail inside the cryptography: before the exchange hash
\* (an invalid client value, the client's keys cannot be set), or after it (signing
\* fails, or our own keys cannot be set although the replies are out).
RecvKexFails(m, o) ==
    /\ m \in {"kexdh", "newkeys"} /\ Handles(m)
    /\ \/ Disconnect(<<>>, o) /\ UNCHANGED <<kexNo, sessionId>>
       \/ /\ m = "kexdh" /\ HashExchange
          /\ \E before \in {<<>>, KexReplies} : Disconnect(before, o)
    /\ UNCHANGED <<kexVars, inKeys, outKeys, pendKeys, authVars, chanVars, flowVars, size>>

\* ApplyNewKeys
RecvNewKeys ==
    /\ Handles("newkeys")
    /\ inKeys' = pendKeys /\ pendKeys' = 0
    /\ kex' = "IDLE"
    /\ state' = IF state = "KEX" THEN "AUTH" ELSE state
    /\ tx' = <<>>
    /\ UNCHANGED <<pc, unsent, kexInitSent, ignoreNextKexPacket, kexNo, sessionId,
                   outKeys, authVars, chanVars, flowVars, size>>
-----------------------------------------------------------------------------
(* Authentication and the one session channel *)

RecvServiceRequest(o) ==
    /\ Handles("service")
    /\ SendPacket(state, P("service-accept"), o)
    /\ UNCHANGED <<kexVars, keyVars, authVars, chanVars, flowVars, size>>

NoMoreTries_OffByOne(tries) == tries > MaxAuthTries

NoMoreTries(tries) == tries >= MaxAuthTries

\* HandleUserauth.  try is "other" for any method but a well formed password,
\* which is refused and not counted.
RecvUserauth(try, o) ==
    /\ Handles("userauth")
    /\ \/ state = "CONN" /\ Quiet /\ UNCHANGED authVars
       \/ /\ state = "AUTH" /\ try = "other"
          /\ SendPacket(state, P("auth-failure"), o)
          /\ UNCHANGED authVars
       \/ /\ state = "AUTH" /\ try = "right"
          /\ authenticated' = TRUE
          /\ SendPacket("CONN", P("auth-success"), o)
          /\ UNCHANGED authTries
       \/ /\ state = "AUTH" /\ try = "wrong"
          /\ authTries' = authTries + 1
          /\ IF NoMoreTries(authTries')
             THEN Disconnect(<<>>, o)
             ELSE SendPacket(state, P("auth-failure"), o)
          /\ UNCHANGED authenticated
    /\ UNCHANGED <<kexVars, keyVars, chanVars, flowVars, size>>

RecvGlobalRequest(wantReply, o) ==
    /\ Handles("global")
    /\ IF wantReply THEN SendPacket(state, P("global-failure"), o) ELSE Quiet
    /\ UNCHANGED <<kexVars, keyVars, authVars, chanVars, flowVars, size>>

\* HandleChannelOpen: one session channel per connection, never closed and
\* opened again (chanOpen is not reset).
RecvChannelOpen(session, win, maxPkt, o) ==
    /\ Handles("open")
    /\ \/ /\ session /\ ~chanOpen
          /\ chanOpen' = TRUE
          /\ remoteWindow' = win /\ remoteMaxPkt' = maxPkt
          /\ closeSent' = FALSE /\ closeRecv' = FALSE /\ remoteEof' = FALSE
          /\ SendPacket(state, Sealed("open-confirm", Window), o)
          /\ UNCHANGED <<shellReady, ring, consumed>>
       \/ /\ ~(session /\ ~chanOpen)
          /\ SendPacket(state, P("open-failure"), o)
          /\ UNCHANGED <<chanVars, flowVars>>
    /\ UNCHANGED <<kexVars, keyVars, authVars, size>>

Fits_Zero(d) == d < 1000

Fits(d) == d > 0 /\ d < 1000

\* HandleChannelRequest: "resize" is a pty-req or window-change with its dimensions,
\* "env" also stands for a window-change cut short, which is accepted, and "other"
\* for a pty-req cut short, which is refused.  A dimension outside 1..999 leaves that dimension alone.
RecvChannelRequest(type, cols, rows, wantReply, o) ==
    /\ Handles("request")
    /\ shellReady' = (shellReady \/ type = "shell")
    /\ size' = IF type = "resize"
               THEN <<IF Fits(cols) THEN cols ELSE size[1],
                      IF Fits(rows) THEN rows ELSE size[2]>>
               ELSE size
    /\ IF wantReply
       THEN SendPacket(state, P(IF type = "other" THEN "request-failure"
                                ELSE "request-success"), o)
       ELSE Quiet
    /\ UNCHANGED <<kexVars, keyVars, authVars, chanOpen, remoteEof, closeSent,
                   closeRecv, flowVars>>

RingPush_Short(n) == Least(ring + n, Window - 1)

\* What does not fit in the ring is dropped.
RingPush(n) == Least(ring + n, RingCap)

RecvData(n) ==
    /\ Handles("data")
    /\ ring' = RingPush(n)
    /\ Quiet
    /\ UNCHANGED <<kexVars, keyVars, authVars, chanVars, consumed, remoteWindow,
                   remoteMaxPkt, size>>

Widened_Replaced(add) == add

Widened(add) == (remoteWindow + add) % Mod32

RecvWindowAdjust(add) ==
    /\ Handles("adjust")
    /\ remoteWindow' = Widened(add)
    /\ Quiet
    /\ UNCHANGED <<kexVars, keyVars, authVars, chanVars, ring, consumed,
                   remoteMaxPkt, size>>

RecvEof ==
    /\ Handles("eof")
    /\ remoteEof' = TRUE
    /\ Quiet
    /\ UNCHANGED <<kexVars, keyVars, authVars, chanOpen, shellReady, closeSent,
                   closeRecv, flowVars, size>>

\* The answer's fate is ignored: closeSent is set whether it went out or not.
RecvClose(o) ==
    /\ Handles("close")
    /\ closeRecv' = TRUE
    /\ \/ /\ chanOpen /\ ~closeSent
          /\ closeSent' = TRUE
          /\ tx' = IF o = "ok" THEN <<P("close")>> ELSE <<>>
          /\ state' = IF o = "closed" THEN "CLOSED" ELSE state
          /\ Return(TRUE)
       \/ ~(chanOpen /\ ~closeSent) /\ Quiet /\ UNCHANGED closeSent
    /\ UNCHANGED <<kexVars, keyVars, authVars, chanOpen, shellReady, remoteEof,
                   flowVars, size>>
-----------------------------------------------------------------------------
(* The calls of the API *)

\* SshAccept starts by sending the version line.
AcceptStart(o) ==
    /\ pc = "start"
    /\ pc' = IF o = "closed" THEN "quit" ELSE "accept"
    /\ state' = IF o = "closed" THEN "CLOSED" ELSE state
    /\ tx' = IF o = "closed" THEN <<>> ELSE <<P("version")>>
    /\ UNCHANGED <<unsent, kexVars, keyVars, authVars, chanVars, flowVars, size>>

\* SshAccept returns 0 once a shell was requested.
AcceptReturn ==
    /\ pc = "accept" /\ state # "CLOSED" /\ shellReady
    /\ pc' = "ready" /\ tx' = <<>>
    /\ UNCHANGED <<unsent, state, kexVars, keyVars, authVars, chanVars, flowVars, size>>

\* Nothing arrived for SSH_ACCEPT_TIMEOUT_MS.
AcceptTimeout(o) ==
    /\ pc = "accept" /\ state # "CLOSED" /\ ~shellReady
    /\ Disconnect(<<>>, o)
    /\ UNCHANGED <<kexVars, keyVars, authVars, chanVars, flowVars, size>>

AdjustDue_Late(total) == total > Window /\ CanSendNow
StillConsumed_NotReset(total, adjusted) == total

AdjustDue(total) == total >= Window \div 2 /\ CanSendNow
StillConsumed(total, adjusted) == IF adjusted THEN 0 ELSE total

\* SshRead after its ProcessInput, when the ring is not empty.  (When it is empty
\* SshRead returns 0 or -1 and changes nothing.)
Read(o) ==
    LET n == Least(ring, ReadMax)
        total == (consumed + n) % Mod32
    IN /\ pc = "ready" /\ ring > 0
       /\ ring' = ring - n
       /\ consumed' = StillConsumed(total, AdjustDue(total) /\ o = "ok")
       /\ \/ /\ AdjustDue(total) /\ o = "ok"
             /\ tx' = <<Sealed("adjust", total)>>
             /\ UNCHANGED state
          \/ /\ ~(AdjustDue(total) /\ o = "ok")
             /\ tx' = <<>>
             /\ state' = IF AdjustDue(total) /\ o = "closed" THEN "CLOSED" ELSE state
    /\ UNCHANGED <<pc, unsent, kexVars, keyVars, authVars, chanVars, remoteWindow,
                   remoteMaxPkt, size>>

\* The channel a write can go on with: the first part of SshWrite's loop test.
Writable == state = "CONN" /\ chanOpen /\ ~closeSent /\ ~closeRecv
MustWait == ~CanSendNow \/ remoteWindow = 0

WriteStart(n) ==
    /\ pc = "ready"
    /\ pc' = "write" /\ unsent' = n /\ tx' = <<>>
    /\ UNCHANGED <<state, kexVars, keyVars, authVars, chanVars, flowVars, size>>

WriteWait ==
    /\ pc = "write" /\ Writable /\ MustWait
    /\ pc' = "wait" /\ tx' = <<>>
    /\ UNCHANGED <<unsent, state, kexVars, keyVars, authVars, chanVars, flowVars, size>>

\* ProcessInput has read what there was; SshWrite tests its loop condition again.
WriteResume ==
    /\ pc = "wait"
    /\ pc' = "write" /\ tx' = <<>>
    /\ UNCHANGED <<unsent, state, kexVars, keyVars, authVars, chanVars, flowVars, size>>

\* SSH_WRITE_TIMEOUT_MS without room for this chunk, or the channel is gone.
WriteFail ==
    /\ \/ pc = "wait" /\ Writable /\ MustWait
       \/ pc = "write" /\ ~Writable
    /\ pc' = "ready" /\ unsent' = 0 /\ tx' = <<>>
    /\ UNCHANGED <<state, kexVars, keyVars, authVars, chanVars, flowVars, size>>

WriteChunk(o) ==
    LET chunk == Least(Least(unsent, remoteWindow), Least(remoteMaxPkt, DataChunk))
    IN /\ pc = "write" /\ Writable /\ ~MustWait
       /\ \/ /\ o = "ok"
             /\ tx' = <<Sealed("data", chunk)>>
             /\ remoteWindow' = remoteWindow - chunk
             /\ unsent' = unsent - chunk
             /\ pc' = IF unsent' = 0 THEN "ready" ELSE "write"
             /\ UNCHANGED state
          \/ /\ o # "ok"
             /\ tx' = <<>>
             /\ state' = IF o = "closed" THEN "CLOSED" ELSE state
             /\ pc' = "ready" /\ unsent' = 0
             /\ UNCHANGED remoteWindow
    /\ UNCHANGED <<kexVars, keyVars, authVars, chanVars, ring, consumed,
                   remoteMaxPkt, size>>

OneOf(m, sent) == IF m \in sent THEN <<P(m)>> ELSE <<>>

\* SshClose on an open channel: exit status, EOF and CLOSE, whichever of them can
\* be sent (sent), and then a wait for the client's CLOSE.
CloseStart(sent, o) ==
    /\ pc \in {"ready", "quit"}
    /\ state = "CONN" /\ chanOpen /\ ~closeSent
    /\ tx' = OneOf("exit-status", sent) \o OneOf("eof", sent) \o OneOf("close", sent)
    /\ o = "closed" => "close" \notin sent
    /\ closeSent' = TRUE
    /\ state' = IF o = "closed" THEN "CLOSED" ELSE state
    /\ pc' = IF state' = "CLOSED" THEN "quit" ELSE "close"
    /\ UNCHANGED <<unsent, kexVars, keyVars, authVars, chanOpen, shellReady,
                   remoteEof, closeRecv, flowVars, size>>

\* The wait ends with the client's CLOSE, or after SSH_CLOSE_TIMEOUT_MS.
CloseWaited ==
    /\ pc = "close"
    /\ pc' = "quit" /\ tx' = <<>>
    /\ UNCHANGED <<unsent, state, kexVars, keyVars, authVars, chanVars, flowVars, size>>

\* The end of SshClose.
CloseEnd(o) ==
    /\ pc \in {"ready", "quit"}
    /\ ~(state = "CONN" /\ chanOpen /\ ~closeSent)
    /\ pc' = "done" /\ unsent' = 0
    /\ state' = "CLOSED"
    /\ tx' = IF state # "CLOSED" /\ o = "ok" THEN <<P("disconnect")>> ELSE <<>>
    /\ UNCHANGED <<kexVars, keyVars, authVars, chanVars, flowVars, size>>
-----------------------------------------------------------------------------
Init ==
    /\ pc = "start" /\ unsent = 0
    /\ state = "VERSION" /\ kex = "IDLE"
    /\ kexInitSent = FALSE /\ ignoreNextKexPacket = FALSE
    /\ kexNo = 0 /\ sessionId = 0 /\ inKeys = 0 /\ outKeys = 0 /\ pendKeys = 0
    /\ authenticated = FALSE /\ authTries = 0
    /\ chanOpen = FALSE /\ shellReady = FALSE /\ remoteEof = FALSE
    /\ closeSent = FALSE /\ closeRecv = FALSE
    /\ ring = 0 /\ consumed = 0 /\ remoteWindow = 0 /\ remoteMaxPkt = 0
    /\ size = <<80, 25>>
    /\ tx = <<>>

\* The packets whose handling sends something, and those whose handling does not.
\* (Rejecting does not depend on the packet, except on whether it may be the one a
\* wrong guess announced; unacceptable or malformed makes no difference.)
RecvTransport(o) ==
    \/ \E m \in {"kexdh", "unknown"} : RejectPacket(m, FALSE, o)
    \/ \E line \in {"other", "refused", "ssh2"} : RecvVersion(line, o)
    \/ \E offer \in {"refused", "wrong guess", "match"} : RecvKexInit(offer, o)
    \/ RecvKexDh(o)
    \/ \E m \in {"kexdh", "newkeys"} : RecvKexFails(m, o)
    \/ \E m \in {"unknown", "unknown-kex"} : RecvUnknown(m, o)

RecvSession(o) ==
    \/ RecvServiceRequest(o)
    \/ \E try \in {"other", "right", "wrong"} : RecvUserauth(try, o)
    \/ \E wantReply \in BOOLEAN : RecvGlobalRequest(wantReply, o)
    \/ \E session \in BOOLEAN, win \in Grants, maxPkt \in PktLimits :
          RecvChannelOpen(session, win, maxPkt, o)
    \/ \E wantReply \in BOOLEAN :
          \/ \E cols, rows \in Dims : RecvChannelRequest("resize", cols, rows, wantReply, o)
          \/ \E type \in {"shell", "env", "other"} :
                RecvChannelRequest(type, 0, 0, wantReply, o)
    \/ RecvClose(o)

RecvSilently ==
    \/ \E m \in ClientMsgs : SkipGuessed(m)
    \/ ConnectionLost \/ RecvDisconnect \/ RecvIgnored \/ RecvNewKeys
    \/ \E n \in DataSizes : RecvData(n)
    \/ \E add \in Grants : RecvWindowAdjust(add)
    \/ RecvEof

Calls(o) ==
    \/ AcceptStart(o) \/ AcceptTimeout(o)
    \/ Read(o)
    \/ WriteChunk(o)
    \/ \E sent \in SUBSET {"exit-status", "eof", "close"} : CloseStart(sent, o)
    \/ CloseEnd(o)

CallsSilently ==
    \/ AcceptReturn
    \/ \E n \in WriteSizes : WriteStart(n)
    \/ WriteWait \/ WriteResume \/ WriteFail
    \/ CloseWaited

\* SshFree: the connection is over.
Terminated == pc = "done" /\ UNCHANGED vars

Next ==
    \/ \E o \in SendResults : RecvTransport(o) \/ RecvSession(o) \/ Calls(o)
    \/ RecvSilently \/ CallsSilently \/ Terminated

Spec == Init /\ [][Next]_vars
-----------------------------------------------------------------------------
(* Properties *)

\* The two directions change keys one after the other: we are ahead of the client
\* exactly while its NEWKEYS is awaited (DoKexDh, ApplyNewKeys), and the keys that
\* wait for it are the ones the outgoing direction already uses.
KeysInStep ==
    /\ inKeys <= outKeys /\ outKeys <= kexNo
    /\ kex = "WAIT_NEWKEYS" <=> inKeys < outKeys
    /\ kex = "WAIT_NEWKEYS" => pendKeys = outKeys

\* Authentication and the session run over keys in both directions, bound to the
\* first exchange hash of the connection (haveSessionId is tested before it is set).
SecuredFirst ==
    /\ state \in {"AUTH", "CONN"} => inKeys > 0 /\ outKeys > 0
    /\ sessionId = IF kexNo = 0 THEN 0 ELSE 1

\* No channel, no input and no running session without an accepted password.
ShellNeedsPassword ==
    /\ \/ chanOpen \/ shellReady \/ ring > 0 \/ state = "CONN"
       \/ pc \in {"ready", "write", "wait", "close"}
       => authenticated
    /\ authenticated => state \in {"CONN", "CLOSED"} /\ inKeys > 0

\* Nothing that belongs to authentication or to the session leaves in plaintext.
SealedSession ==
    \A i \in DOMAIN tx : tx[i].msg \in SessionMsgs => tx[i].key > 0

Sends(msgs) == \E i \in DOMAIN tx' : tx'[i].msg \in msgs

\* A closed connection stays closed and sends nothing, whatever a handler or call
\* that was under way still does (HandleUserauth, SshClose and SshRead go on after
\* a SendPacket that closed the connection).
ClosedIsFinal == [][state = "CLOSED" => state' = "CLOSED" /\ tx' = <<>>]_vars

\* After our CHANNEL_CLOSE the channel carries no data, window, EOF, exit status or
\* second CLOSE (closeSent in CanSendNow, SshClose and the CHANNEL_CLOSE handler).
SilentAfterClose ==
    [][closeSent => ~Sends({"data", "adjust", "exit-status", "eof", "close"})]_vars

\* Between our KEXINIT and our NEWKEYS a running session sends no channel data and
\* no window (CanSendNow).
DataWaitsForKeys == [][kex = "WAIT_DH" => ~Sends({"data", "adjust"})]_vars

\* How far the connection is in terms of RemoteLogin.tla.
Stage ==
    IF shellReady THEN "shell"
    ELSE IF authenticated THEN "login"
    ELSE IF inKeys > 0 THEN "keyed" ELSE "clear"

Promise == INSTANCE RemoteLogin WITH
    MaxTries <- MaxAuthTries, stage <- Stage, refused <- authTries, over <- state = "CLOSED"

\* What the connection promises its caller: the handlers together implement
\* RemoteLogin.tla, a password accepted under keys before there is a shell and
\* SSH_MAX_AUTH_TRIES refusals at most.
KeepsPromise == Promise!Spec
=============================================================================
