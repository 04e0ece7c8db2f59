--------------------------- MODULE SshConn_proofs ---------------------------
(***************************************************************************)
(* Theorems about SshConn.tla, for every value of its constants.           *)
(***************************************************************************)
EXTENDS SshConn, SequenceTheorems, TLAPS
-----------------------------------------------------------------------------
(* Lemmas about sending, used by every handler *)

\* x % n is a remainder.
LEMMA ModRange == ASSUME NEW x \in Nat PROVE x % Mod32 \in 0..(Mod32 - 1)
  BY ConnAssumption

\* What is sealed is a packet.
LEMMA PacketTyped ==
  ASSUME KeyTypeOK, NEW m \in ServerMsgs, NEW n \in Nat
  PROVE  Sealed(m, n) \in Packet
  BY DEF KeyTypeOK, Sealed, Packet

\* The packets without a payload.
LEMMA PTyped == ASSUME KeyTypeOK, NEW m \in ServerMsgs PROVE P(m) \in Packet
  BY PacketTyped DEF P

LEMMA ReturnTyped ==
  ASSUME CallTypeOK, NEW ok, Return(ok)
  PROVE  pc' \in PCs /\ unsent' \in Nat
  BY DEF CallTypeOK, Return, Unwound, PCs

LEMMA SendTyped ==
  ASSUME CallTypeOK, NEW s \in States, NEW p \in Packet, NEW o, SendPacket(s, p, o)
  PROVE  CallTypeOK'
  <1>1. pc' \in PCs /\ unsent' \in Nat
    BY ReturnTyped DEF SendPacket
  <1>2. state' \in States
    BY DEF SendPacket, States
  <1>3. tx' \in Seq(Packet)
    BY DEF SendPacket
  <1>. QED  BY <1>1, <1>2, <1>3 DEF CallTypeOK

LEMMA DisconnectTyped ==
  ASSUME CallTypeOK, KeyTypeOK, NEW before \in Seq(Packet), NEW o, Disconnect(before, o)
  PROVE  CallTypeOK'
  <1>1. pc' \in PCs /\ unsent' \in Nat
    BY ReturnTyped DEF Disconnect
  <1>2. state' \in States
    BY DEF Disconnect, States
  <1>3. P("disconnect") \in Packet
    BY PTyped DEF ServerMsgs
  <1>4. tx' \in Seq(Packet)
    BY <1>3 DEF Disconnect
  <1>. QED  BY <1>1, <1>2, <1>4 DEF CallTypeOK

LEMMA QuietTyped == ASSUME CallTypeOK, Quiet PROVE CallTypeOK'
  BY DEF CallTypeOK, Quiet

\* A step keeps the types of what it leaves alone.
LEMMA UnchangedTyped ==
  ASSUME TypeOK
  PROVE  /\ UNCHANGED kexVars => KexTypeOK'
         /\ UNCHANGED keyVars => KeyTypeOK'
         /\ UNCHANGED authVars => AuthTypeOK'
         /\ UNCHANGED chanVars => ChanTypeOK'
         /\ UNCHANGED flowVars => FlowTypeOK'
         /\ UNCHANGED size => SizeTypeOK'
  BY DEF TypeOK, KexTypeOK, KeyTypeOK, AuthTypeOK, ChanTypeOK, FlowTypeOK, SizeTypeOK,
         kexVars, keyVars, authVars, chanVars, flowVars
-----------------------------------------------------------------------------
(* Type correctness *)

LEMMA TypeInit == Init => TypeOK
  <1>1. Init => SizeTypeOK /\ CallTypeOK
    BY DEF Init, SizeTypeOK, CallTypeOK, PCs, States
  <1>2. Init => FlowTypeOK
    BY ConnAssumption DEF Init, FlowTypeOK
  <1>3. Init => KexTypeOK /\ AuthTypeOK
    <2>1. Init => kex \in KexStates /\ authTries \in Nat
      BY DEF Init, KexStates
    <2>2. Init => /\ kexInitSent \in BOOLEAN /\ ignoreNextKexPacket \in BOOLEAN
                  /\ authenticated \in BOOLEAN
      BY Zenon DEF Init
    <2>. QED  BY <2>1, <2>2 DEF KexTypeOK, AuthTypeOK
  <1>5. Init => ChanTypeOK
    BY Zenon DEF Init, ChanTypeOK
  <1>4. Init => KeyTypeOK
    BY DEF Init, KeyTypeOK
  <1>. QED  BY <1>1, <1>2, <1>3, <1>4, <1>5 DEF TypeOK

\* Every action keeps the types: first what arrives on the transport layer,
LEMMA TypeTransport ==
  ASSUME TypeOK, NEW o \in SendResults, RecvTransport(o)
  PROVE  TypeOK'
  <1>. CallTypeOK /\ KexTypeOK /\ KeyTypeOK
    BY DEF TypeOK
  <1>0. <<>> \in Seq(Packet) /\ KexReplies \in Seq(Packet)
    <2>1. P("kexdh-reply") \in Packet /\ P("newkeys") \in Packet
      BY PTyped DEF ServerMsgs, KexMsgs
    <2>. QED  BY <2>1 DEF KexReplies
  <1>1. ASSUME NEW m, NEW w, RejectPacket(m, w, o) PROVE TypeOK'
    <2>1. CallTypeOK'
      BY <1>1, <1>0, DisconnectTyped DEF RejectPacket
    <2>. QED  BY <1>1, <2>1, UnchangedTyped DEF RejectPacket, TypeOK
  <1>2. ASSUME NEW line, RecvVersion(line, o) PROVE TypeOK'
    <2>1. P("kexinit") \in Packet /\ "KEX" \in States
      BY PTyped DEF ServerMsgs, KexMsgs, States
    <2>2. CallTypeOK'
      BY <1>2, <1>0, <2>1, DisconnectTyped, SendTyped, QuietTyped DEF RecvVersion
    <2>3. KexTypeOK'
      BY <1>2, UnchangedTyped DEF RecvVersion, KexTypeOK, KexStates
    <2>. QED  BY <1>2, <2>2, <2>3, UnchangedTyped DEF RecvVersion, TypeOK
  <1>3. ASSUME NEW offer, RecvKexInit(offer, o) PROVE TypeOK'
    <2>1. P("kexinit") \in Packet
      BY PTyped DEF ServerMsgs, KexMsgs
    <2>2. (IF kexInitSent THEN <<>> ELSE <<P("kexinit")>>) \in Seq(Packet)
      BY <2>1
    <2>3. CallTypeOK'
      BY <1>3, <2>1, <2>2, DisconnectTyped, SendTyped DEF RecvKexInit, CallTypeOK
    <2>4. KexTypeOK'
      BY <1>3 DEF RecvKexInit, IgnoreNext, KexTypeOK, KexStates
    <2>. QED  BY <1>3, <2>3, <2>4, UnchangedTyped DEF RecvKexInit, TypeOK
  <1>4. CASE RecvKexDh(o)
    <2>1. pc' \in PCs /\ unsent' \in Nat
      BY <1>4, ReturnTyped DEF RecvKexDh, CallTypeOK
    <2>2. state' \in States
      BY <1>4 DEF RecvKexDh, CallTypeOK, States
    <2>3. tx' \in Seq(Packet)
      <3>1. P("kexdh-reply") \in Packet
        BY PTyped DEF ServerMsgs, KexMsgs
      <3>2. <<P("kexdh-reply")>> \in Seq(Packet)
        BY <3>1
      <3>3. tx' \in {KexReplies, <<>>, <<P("kexdh-reply")>>}
        BY <1>4 DEF RecvKexDh
      <3>. QED  BY <3>3, <1>0, <3>2
    <2>4. KexTypeOK'
      BY <1>4 DEF RecvKexDh, KexTypeOK, KexStates
    <2>5. KeyTypeOK'
      <3>1. kexNo + 1 \in Nat
        BY DEF KeyTypeOK
      <3>2. /\ kexNo' = kexNo + 1 /\ sessionId' \in {kexNo + 1, sessionId}
            /\ inKeys' = inKeys /\ outKeys' \in {kexNo + 1, outKeys}
            /\ pendKeys' \in {kexNo + 1, pendKeys}
        BY <1>4 DEF RecvKexDh, HashExchange
      <3>. QED  BY <3>1, <3>2 DEF KeyTypeOK
    <2>. QED  BY <1>4, <2>1, <2>2, <2>3, <2>4, <2>5, UnchangedTyped DEF RecvKexDh, TypeOK, CallTypeOK
  <1>5. ASSUME NEW m, RecvKexFails(m, o) PROVE TypeOK'
    <2>1. CallTypeOK'
      BY <1>5, <1>0, DisconnectTyped DEF RecvKexFails
    <2>2. KeyTypeOK'
      <3>1. /\ kexNo' \in {kexNo, kexNo + 1} /\ sessionId' \in {sessionId, kexNo + 1}
            /\ UNCHANGED <<inKeys, outKeys, pendKeys>>
        BY <1>5 DEF RecvKexFails, HashExchange
      <3>. QED  BY <3>1 DEF KeyTypeOK
    <2>. QED  BY <1>5, <2>1, <2>2, UnchangedTyped DEF RecvKexFails, TypeOK
  <1>6. ASSUME NEW m, RecvUnknown(m, o) PROVE TypeOK'
    <2>1. P("unimplemented") \in Packet
      BY PTyped DEF ServerMsgs
    <2>2. CallTypeOK'
      BY <1>6, <2>1, SendTyped DEF RecvUnknown, CallTypeOK
    <2>. QED  BY <1>6, <2>2, UnchangedTyped DEF RecvUnknown, TypeOK
  <1>. QED  BY <1>1, <1>2, <1>3, <1>4, <1>5, <1>6 DEF RecvTransport

\* The packets that carry numbers: CHANNEL_OPEN, CHANNEL_REQUEST, WINDOW_ADJUST.
LEMMA OpenTyped ==
  ASSUME TypeOK, NEW session, NEW win \in 0..(Mod32 - 1), NEW maxPkt \in Nat,
         NEW o \in SendResults, RecvChannelOpen(session, win, maxPkt, o)
  PROVE  TypeOK'
  <1>. CallTypeOK /\ KexTypeOK /\ KeyTypeOK /\ AuthTypeOK /\ ChanTypeOK /\ FlowTypeOK /\ SizeTypeOK
    BY DEF TypeOK
  <1>0. /\ state \in States /\ P("open-failure") \in Packet
        /\ Sealed("open-confirm", Window) \in Packet
    BY PTyped, PacketTyped, ConnAssumption DEF ServerMsgs, SessionMsgs, CallTypeOK
  <1>1. CallTypeOK'
    BY <1>0, SendTyped DEF RecvChannelOpen
  <1>2. ChanTypeOK'
    BY Zenon DEF RecvChannelOpen, chanVars, ChanTypeOK
  <1>3. FlowTypeOK'
    BY ConnAssumption DEF RecvChannelOpen, flowVars, FlowTypeOK
  <1>. QED  BY <1>1, <1>2, <1>3, UnchangedTyped DEF RecvChannelOpen, TypeOK

LEMMA RequestTyped ==
  ASSUME TypeOK, NEW type, NEW cols \in Nat, NEW rows \in Nat, NEW wantReply,
         NEW o \in SendResults, RecvChannelRequest(type, cols, rows, wantReply, o)
  PROVE  TypeOK'
  <1>. CallTypeOK /\ KexTypeOK /\ KeyTypeOK /\ AuthTypeOK /\ ChanTypeOK /\ FlowTypeOK /\ SizeTypeOK
    BY DEF TypeOK
  <1>0. /\ state \in States /\ P("request-failure") \in Packet
        /\ P("request-success") \in Packet
    BY PTyped DEF ServerMsgs, SessionMsgs, CallTypeOK
  <1>1. CallTypeOK'
    BY <1>0, SendTyped, QuietTyped DEF RecvChannelRequest
  <1>2. ChanTypeOK'
    <2>1. (shellReady \/ type = "shell") \in BOOLEAN
      OBVIOUS
    <2>. QED  BY <2>1, Zenon DEF RecvChannelRequest, ChanTypeOK
  <1>3. SizeTypeOK'
    <2>. DEFINE w == IF Fits(cols) THEN cols ELSE size[1]
                h == IF Fits(rows) THEN rows ELSE size[2]
    <2>1. size' \in {size, <<w, h>>}
      BY DEF RecvChannelRequest
    <2>2. size[1] \in 1..999 /\ size[2] \in 1..999
      BY DEF SizeTypeOK
    <2>3. w \in 1..999
      BY ONLY <2>2 DEF Fits
    <2>4. h \in 1..999
      BY ONLY <2>2 DEF Fits
    <2>. HIDE DEF w, h
    <2>5. <<w, h>> \in (1..999) \X (1..999)
      <3>. DEFINE dim == 1..999
      <3>1. w \in dim /\ h \in dim
        BY ONLY <2>3, <2>4
      <3>. HIDE DEF dim
      <3>2. <<w, h>> \in dim \X dim
        BY ONLY <3>1, Zenon
      <3>. QED  BY ONLY <3>2 DEF dim
    <2>. QED  BY <2>1, <2>5 DEF SizeTypeOK
  <1>. QED  BY <1>1, <1>2, <1>3, UnchangedTyped DEF RecvChannelRequest, TypeOK

LEMMA AdjustTyped ==
  ASSUME TypeOK, NEW add \in Nat, RecvWindowAdjust(add)
  PROVE  TypeOK'
  <1>. CallTypeOK /\ KexTypeOK /\ KeyTypeOK /\ AuthTypeOK /\ ChanTypeOK /\ FlowTypeOK /\ SizeTypeOK
    BY DEF TypeOK
  <1>1. Widened(add) \in 0..(Mod32 - 1)
    <2>1. remoteWindow + add \in Nat
      BY ConnAssumption DEF FlowTypeOK
    <2>. QED  BY <2>1, ModRange DEF Widened
  <1>2. FlowTypeOK'
    BY <1>1 DEF RecvWindowAdjust, FlowTypeOK
  <1>. QED  BY <1>2, QuietTyped, UnchangedTyped DEF RecvWindowAdjust, TypeOK

\* then what belongs to authentication and to the session,
LEMMA TypeSession ==
  ASSUME TypeOK, NEW o \in SendResults, RecvSession(o)
  PROVE  TypeOK'
  <1>. CallTypeOK /\ KexTypeOK /\ KeyTypeOK /\ AuthTypeOK /\ ChanTypeOK /\ FlowTypeOK /\ SizeTypeOK
    BY DEF TypeOK
  <1>0. /\ state \in States /\ "CONN" \in States
        /\ P("service-accept") \in Packet /\ P("auth-failure") \in Packet
        /\ P("auth-success") \in Packet /\ P("global-failure") \in Packet
        /\ P("open-failure") \in Packet /\ P("request-failure") \in Packet
        /\ P("request-success") \in Packet /\ P("close") \in Packet
        /\ Sealed("open-confirm", Window) \in Packet
    BY PTyped, PacketTyped, ConnAssumption DEF ServerMsgs, SessionMsgs, CallTypeOK, States
  <1>1. CASE RecvServiceRequest(o)
    <2>1. CallTypeOK'
      BY <1>1, <1>0, SendTyped DEF RecvServiceRequest
    <2>. QED  BY <1>1, <2>1, UnchangedTyped DEF RecvServiceRequest, TypeOK
  <1>2. ASSUME NEW try, RecvUserauth(try, o) PROVE TypeOK'
    <2>1. CallTypeOK'
      <3>1. \/ Quiet \/ Disconnect(<<>>, o)
            \/ SendPacket(state, P("auth-failure"), o)
            \/ SendPacket("CONN", P("auth-success"), o)
        BY <1>2 DEF RecvUserauth
      <3>2. <<>> \in Seq(Packet)
        OBVIOUS
      <3>. QED  BY <3>1, <3>2, <1>0, SendTyped, DisconnectTyped, QuietTyped
    <2>2. AuthTypeOK'
      <3>1. authTries' \in {authTries, authTries + 1}
        BY <1>2 DEF RecvUserauth, authVars
      <3>2. authTries' \in Nat
        BY <3>1 DEF AuthTypeOK
      <3>3. authenticated' \in BOOLEAN
        BY <1>2, Zenon DEF RecvUserauth, authVars, AuthTypeOK
      <3>. QED  BY <3>2, <3>3 DEF AuthTypeOK
    <2>. QED  BY <1>2, <2>1, <2>2, UnchangedTyped DEF RecvUserauth, TypeOK
  <1>3. ASSUME NEW wantReply, RecvGlobalRequest(wantReply, o) PROVE TypeOK'
    <2>1. CallTypeOK'
      BY <1>3, <1>0, SendTyped, QuietTyped DEF RecvGlobalRequest
    <2>. QED  BY <1>3, <2>1, UnchangedTyped DEF RecvGlobalRequest, TypeOK
  <1>4. ASSUME NEW session, NEW win \in Grants, NEW maxPkt \in PktLimits,
               RecvChannelOpen(session, win, maxPkt, o)
        PROVE TypeOK'
    <2>1. win \in 0..(Mod32 - 1) /\ maxPkt \in Nat
      BY ConnAssumption
    <2>. QED  BY <1>4, <2>1, OpenTyped
  <1>5. ASSUME NEW type, NEW cols \in Nat, NEW rows \in Nat, NEW wantReply,
               RecvChannelRequest(type, cols, rows, wantReply, o)
        PROVE TypeOK'
    BY <1>5, RequestTyped
  <1>6. CASE RecvClose(o)
    <2>1. CallTypeOK'
      <3>1. CASE Quiet
        BY <3>1, QuietTyped
      <3>2. CASE ~Quiet
        <4>1. pc' \in PCs /\ unsent' \in Nat
          BY <1>6, <3>2, ReturnTyped DEF RecvClose
        <4>2. state' \in {"CLOSED", state} /\ tx' \in {<<>>, <<P("close")>>}
          BY <1>6, <3>2 DEF RecvClose
        <4>3. state' \in States
          BY <4>2, <1>0 DEF States
        <4>4. <<>> \in Seq(Packet) /\ <<P("close")>> \in Seq(Packet)
          BY <1>0
        <4>. QED  BY <4>1, <4>2, <4>3, <4>4 DEF CallTypeOK
      <3>. QED  BY <3>1, <3>2
    <2>2. ChanTypeOK'
      BY <1>6, Zenon DEF RecvClose, ChanTypeOK
    <2>. QED  BY <1>6, <2>1, <2>2, UnchangedTyped DEF RecvClose, TypeOK
  <1>7. 0 \in Nat /\ Dims \subseteq Nat
    BY ConnAssumption
  <1>. QED  BY <1>1, <1>2, <1>3, <1>4, <1>5, <1>6, <1>7 DEF RecvSession

\* what is handled without an answer,
LEMMA TypeSilent ==
  ASSUME TypeOK, RecvSilently
  PROVE  TypeOK'
  <1>. CallTypeOK /\ KexTypeOK /\ KeyTypeOK /\ AuthTypeOK /\ ChanTypeOK /\ FlowTypeOK /\ SizeTypeOK
    BY DEF TypeOK
  <1>1. ASSUME NEW m, SkipGuessed(m) PROVE TypeOK'
    <2>1. KexTypeOK'
      BY <1>1, Zenon DEF SkipGuessed, KexTypeOK
    <2>. QED  BY <1>1, <2>1, QuietTyped, UnchangedTyped DEF SkipGuessed, TypeOK
  <1>2. CASE ConnectionLost \/ RecvDisconnect
    <2>1. pc' \in PCs /\ unsent' \in Nat
      BY <1>2, ReturnTyped DEF ConnectionLost, RecvDisconnect
    <2>2. CallTypeOK'
      <3>1. state' = "CLOSED" /\ tx' = <<>>
        BY <1>2 DEF ConnectionLost, RecvDisconnect
      <3>. QED  BY <2>1, <3>1 DEF CallTypeOK, States
    <2>. QED  BY <1>2, <2>2, UnchangedTyped DEF ConnectionLost, RecvDisconnect, TypeOK
  <1>3. CASE RecvIgnored
    BY <1>3, QuietTyped, UnchangedTyped DEF RecvIgnored, TypeOK
  <1>4. CASE RecvNewKeys
    <2>1. CallTypeOK'
      BY <1>4 DEF RecvNewKeys, CallTypeOK, States
    <2>2. KexTypeOK'
      <3>1. kex' \in KexStates
        BY <1>4 DEF RecvNewKeys, KexStates
      <3>. QED  BY <1>4, <3>1 DEF RecvNewKeys, KexTypeOK
    <2>3. KeyTypeOK'
      BY <1>4 DEF RecvNewKeys, KeyTypeOK
    <2>. QED  BY <1>4, <2>1, <2>2, <2>3, UnchangedTyped DEF RecvNewKeys, TypeOK
  <1>5. ASSUME NEW n \in DataSizes, RecvData(n) PROVE TypeOK'
    <2>1. FlowTypeOK'
      BY <1>5, ConnAssumption DEF RecvData, RingPush, Least, FlowTypeOK
    <2>. QED  BY <1>5, <2>1, QuietTyped, UnchangedTyped DEF RecvData, TypeOK
  <1>6. ASSUME NEW add \in Grants, RecvWindowAdjust(add) PROVE TypeOK'
    <2>1. add \in Nat
      BY ConnAssumption
    <2>. QED  BY <1>6, <2>1, AdjustTyped
  <1>7. CASE RecvEof
    <2>1. ChanTypeOK'
      BY <1>7, Zenon DEF RecvEof, ChanTypeOK
    <2>. QED  BY <1>7, <2>1, QuietTyped, UnchangedTyped DEF RecvEof, TypeOK
  <1>. QED  BY <1>1, <1>2, <1>3, <1>4, <1>5, <1>6, <1>7 DEF RecvSilently

\* what the calls of the API do,
LEMMA TypeCalls ==
  ASSUME TypeOK, NEW o \in SendResults, Calls(o)
  PROVE  TypeOK'
  <1>. CallTypeOK /\ KexTypeOK /\ KeyTypeOK /\ AuthTypeOK /\ ChanTypeOK /\ FlowTypeOK /\ SizeTypeOK
    BY DEF TypeOK
  <1>. /\ <<>> \in Seq(Packet)
       /\ \A p \in Packet : <<p>> \in Seq(Packet)
    OBVIOUS
  <1>0. /\ P("version") \in Packet /\ P("exit-status") \in Packet /\ P("eof") \in Packet
        /\ P("close") \in Packet /\ P("disconnect") \in Packet
    BY PTyped DEF ServerMsgs, SessionMsgs
  <1>1. CASE AcceptStart(o)
    <2>1. /\ pc' \in {"quit", "accept"} /\ unsent' = unsent
          /\ state' \in {"CLOSED", state} /\ tx' \in {<<>>, <<P("version")>>}
      BY <1>1 DEF AcceptStart
    <2>2. pc' \in PCs /\ state' \in States
      BY <2>1 DEF CallTypeOK, PCs, States
    <2>3. CallTypeOK'
      BY <2>1, <2>2, <1>0 DEF CallTypeOK
    <2>. QED  BY <1>1, <2>3, UnchangedTyped DEF AcceptStart, TypeOK
  <1>2. CASE AcceptTimeout(o)
    <2>1. CallTypeOK'
      BY <1>2, DisconnectTyped DEF AcceptTimeout
    <2>. QED  BY <1>2, <2>1, UnchangedTyped DEF AcceptTimeout, TypeOK
  <1>3. CASE Read(o)
    <2>. DEFINE n == Least(ring, ReadMax)
                total == (consumed + n) % Mod32
    <2>1. n \in 0..ring
      BY ConnAssumption DEF Least, FlowTypeOK
    <2>2. total \in 0..(Mod32 - 1)
      <3>1. consumed + n \in Nat
        BY <2>1 DEF FlowTypeOK
      <3>. QED  BY <3>1, ModRange
    <2>. HIDE DEF n, total
    <2>3. /\ ring' = ring - n /\ consumed' \in {0, total}
          /\ tx' \in {<<>>, <<Sealed("adjust", total)>>} /\ state' \in {"CLOSED", state}
          /\ UNCHANGED <<pc, unsent, remoteWindow, remoteMaxPkt>>
      BY <1>3 DEF Read, n, total, StillConsumed
    <2>4. FlowTypeOK'
      BY <2>1, <2>2, <2>3, ConnAssumption DEF FlowTypeOK
    <2>5. Sealed("adjust", total) \in Packet
      BY <2>2, PacketTyped, ConnAssumption DEF ServerMsgs, SessionMsgs
    <2>6. CallTypeOK'
      <3>1. state' \in States
        BY <2>3 DEF CallTypeOK, States
      <3>. QED  BY <2>3, <2>5, <3>1 DEF CallTypeOK
    <2>. QED  BY <1>3, <2>4, <2>6, UnchangedTyped DEF Read, TypeOK
  <1>4. CASE WriteChunk(o)
    <2>. DEFINE chunk == Least(Least(unsent, remoteWindow), Least(remoteMaxPkt, DataChunk))
    <2>1. chunk \in Nat /\ chunk <= unsent /\ chunk <= remoteWindow
      BY ConnAssumption DEF Least, FlowTypeOK, CallTypeOK
    <2>. HIDE DEF chunk
    <2>2. /\ remoteWindow' \in {remoteWindow, remoteWindow - chunk}
          /\ unsent' \in {0, unsent - chunk} /\ pc' \in {"ready", "write"}
          /\ tx' \in {<<>>, <<Sealed("data", chunk)>>} /\ state' \in {"CLOSED", state}
          /\ UNCHANGED <<ring, consumed, remoteMaxPkt>>
      BY <1>4 DEF WriteChunk, chunk
    <2>3. FlowTypeOK'
      BY <2>1, <2>2, ConnAssumption DEF FlowTypeOK
    <2>4. Sealed("data", chunk) \in Packet
      BY <2>1, PacketTyped DEF ServerMsgs, SessionMsgs
    <2>5. CallTypeOK'
      <3>1. pc' \in PCs /\ state' \in States
        BY <2>2 DEF CallTypeOK, PCs, States
      <3>2. unsent' \in Nat
        BY <2>1, <2>2 DEF CallTypeOK
      <3>. QED  BY <2>2, <2>4, <3>1, <3>2 DEF CallTypeOK
    <2>. QED  BY <1>4, <2>3, <2>5, UnchangedTyped DEF WriteChunk, TypeOK
  <1>5. ASSUME NEW sent, CloseStart(sent, o) PROVE TypeOK'
    <2>1. OneOf("exit-status", sent) \in Seq(Packet) /\ OneOf("eof", sent) \in Seq(Packet)
          /\ OneOf("close", sent) \in Seq(Packet)
      BY <1>0 DEF OneOf
    <2>2. tx' \in Seq(Packet)
      BY <1>5, <2>1 DEF CloseStart
    <2>3. pc' \in {"quit", "close"} /\ unsent' = unsent /\ state' \in {"CLOSED", state}
      BY <1>5 DEF CloseStart
    <2>4. pc' \in PCs /\ state' \in States
      BY <2>3 DEF CallTypeOK, PCs, States
    <2>5. CallTypeOK'
      BY <2>2, <2>3, <2>4 DEF CallTypeOK
    <2>6. ChanTypeOK'
      BY <1>5, Zenon DEF CloseStart, ChanTypeOK
    <2>. QED  BY <1>5, <2>5, <2>6, UnchangedTyped DEF CloseStart, TypeOK
  <1>6. CASE CloseEnd(o)
    <2>1. pc' = "done" /\ unsent' = 0 /\ state' = "CLOSED" /\ tx' \in {<<>>, <<P("disconnect")>>}
      BY <1>6 DEF CloseEnd
    <2>2. pc' \in PCs /\ state' \in States
      BY <2>1 DEF PCs, States
    <2>3. CallTypeOK'
      BY <2>1, <2>2, <1>0 DEF CallTypeOK
    <2>. QED  BY <1>6, <2>3, UnchangedTyped DEF CloseEnd, TypeOK
  <1>. QED  BY <1>1, <1>2, <1>3, <1>4, <1>5, <1>6 DEF Calls

\* and the steps of the calls that only move the caller on.
LEMMA TypeCallsSilently ==
  ASSUME TypeOK, CallsSilently
  PROVE  TypeOK'
  <1>1. UNCHANGED <<kexVars, keyVars, authVars, chanVars, flowVars, size>>
    BY DEF CallsSilently, AcceptReturn, WriteStart, WriteWait, WriteResume, WriteFail,
           CloseWaited
  <1>2. /\ pc' \in {"ready", "write", "wait", "quit"} /\ tx' = <<>> /\ state' = state
        /\ unsent' \in {0, unsent} \cup WriteSizes
    BY DEF CallsSilently, AcceptReturn, WriteStart, WriteWait, WriteResume, WriteFail,
           CloseWaited
  <1>3. CallTypeOK'
    <2>1. unsent' \in Nat
      BY <1>2, ConnAssumption DEF TypeOK, CallTypeOK
    <2>2. pc' \in PCs /\ tx' \in Seq(Packet)
      BY <1>2 DEF PCs
    <2>. QED  BY <1>2, <2>1, <2>2 DEF TypeOK, CallTypeOK
  <1>. QED  BY <1>1, <1>3, UnchangedTyped DEF TypeOK

LEMMA TypeNext == TypeOK /\ [Next]_vars => TypeOK'
  <1>. SUFFICES ASSUME TypeOK, [Next]_vars PROVE TypeOK'
    OBVIOUS
  <1>1. CASE UNCHANGED vars
    BY <1>1, UnchangedTyped DEF vars, TypeOK, CallTypeOK
  <1>2. CASE Next
    BY <1>1, <1>2, TypeTransport, TypeSession, TypeSilent, TypeCalls, TypeCallsSilently
       DEF Next, Terminated
  <1>. QED  BY <1>1, <1>2

\* Every variable of SSH_CONN keeps its range: the ring never holds more than
\* SSH_IN_RING - 1 bytes (RingPush), the window arithmetic stays in UINT32
\* (SshRead, SshWrite, WINDOW_ADJUST), the terminal within 1..999 (HandleChannelRequest).
THEOREM TypeCorrect == Spec => []TypeOK
  BY TypeInit, TypeNext, PTL DEF Spec
-----------------------------------------------------------------------------
(* What a step puts on the wire *)

\* Where a step leaves the connection and its caller when it is no milestone.
Onward ==
    /\ state' \in {state, "CLOSED"}
    /\ \/ pc' = pc
       \/ pc \in {"accept", "close"} /\ pc' = "quit"
       \/ pc = "wait" /\ pc' = "ready"

\* Every packet of the step is sealed with the current outgoing keys, and only
\* messages of msgs are among them.
OnWire(msgs) ==
    \A i \in DOMAIN tx' : tx'[i].key = outKeys /\ tx'[i].msg \in msgs

LEMMA ReturnOnward ==
  ASSUME NEW ok, Return(ok), state' \in {state, "CLOSED"}
  PROVE  Onward
  BY DEF Return, Unwound, Onward

LEMMA SendOnward ==
  ASSUME NEW m, NEW n, NEW o, SendPacket(state, Sealed(m, n), o)
  PROVE  Onward /\ OnWire({m})
  <1>1. Onward
    BY ReturnOnward DEF SendPacket
  <1>2. OnWire({m})
    BY DEF SendPacket, Sealed, OnWire
  <1>. QED  BY <1>1, <1>2

LEMMA POnward ==
  ASSUME NEW m, NEW o, SendPacket(state, P(m), o)
  PROVE  Onward /\ OnWire({m})
  BY SendOnward DEF P

LEMMA DisconnectOnward ==
  ASSUME NEW o, Disconnect(<<>>, o)
  PROVE  Onward /\ OnWire({"disconnect"}) /\ state' = "CLOSED"
  <1>1. Onward
    BY ReturnOnward DEF Disconnect
  <1>2. OnWire({"disconnect"})
    BY DEF Disconnect, P, Sealed, OnWire
  <1>. QED  BY <1>1, <1>2 DEF Disconnect

LEMMA QuietOnward == ASSUME Quiet PROVE Onward /\ OnWire({})
  BY DEF Quiet, Onward, OnWire

LEMMA WireTransport ==
  ASSUME NEW o, RecvTransport(o)
  PROVE  Reading /\ OnWire(ServerMsgs \ SessionMsgs)
  <1>. DEFINE Others == ServerMsgs \ SessionMsgs
  <1>0. {"disconnect", "unimplemented", "kexinit", "kexdh-reply", "newkeys"} \subseteq Others
    BY DEF ServerMsgs, SessionMsgs, KexMsgs
  <1>. SUFFICES Reading /\ OnWire({"disconnect", "unimplemented", "kexinit", "kexdh-reply", "newkeys"})
    BY <1>0 DEF OnWire
  <1>1. ASSUME NEW m, NEW w, RejectPacket(m, w, o) PROVE Reading /\ OnWire({"disconnect"})
    BY <1>1, DisconnectOnward DEF RejectPacket
  <1>2. ASSUME NEW line, RecvVersion(line, o)
        PROVE  Reading /\ OnWire({"disconnect", "kexinit"})
    <2>1. CASE Quiet \/ Disconnect(<<>>, o)
      BY <1>2, <2>1, DisconnectOnward, QuietOnward DEF RecvVersion, OnWire
    <2>2. CASE SendPacket("KEX", P("kexinit"), o)
      BY <1>2, <2>2 DEF RecvVersion, SendPacket, OnWire, P, Sealed
    <2>. QED  BY <1>2, <2>1, <2>2 DEF RecvVersion
  <1>3. ASSUME NEW offer, RecvKexInit(offer, o)
        PROVE  Reading /\ OnWire({"disconnect", "kexinit"})
    <2>1. Reading
      BY <1>3 DEF RecvKexInit, Handles
    <2>. DEFINE answer == IF kexInitSent THEN <<>> ELSE <<P("kexinit")>>
    <2>2. tx' \in {<<>>, <<P("kexinit")>>, answer, Append(answer, P("disconnect"))}
      BY <1>3 DEF RecvKexInit, SendPacket, Disconnect
    <2>3. answer \in {<<>>, <<P("kexinit")>>}
      OBVIOUS
    <2>. HIDE DEF answer
    <2>4. tx' \in {<<>>, <<P("kexinit")>>, Append(<<>>, P("disconnect")),
                  Append(<<P("kexinit")>>, P("disconnect"))}
      BY <2>2, <2>3
    <2>. QED  BY <2>1, <2>4 DEF OnWire, P, Sealed
  <1>4. CASE RecvKexDh(o)
    <2>1. Reading
      BY <1>4 DEF RecvKexDh, Handles
    <2>2. tx' \in {<<>>, <<P("kexdh-reply")>>, KexReplies}
      BY <1>4 DEF RecvKexDh
    <2>. QED  BY <2>1, <2>2 DEF OnWire, KexReplies, P, Sealed
  <1>5. ASSUME NEW m, RecvKexFails(m, o)
        PROVE  Reading /\ OnWire({"disconnect", "kexdh-reply", "newkeys"})
    <2>1. Reading
      BY <1>5 DEF RecvKexFails, Handles
    <2>2. PICK before \in {<<>>, KexReplies} : Disconnect(before, o)
      BY <1>5 DEF RecvKexFails
    <2>3. tx' \in {<<>>, Append(<<>>, P("disconnect")), KexReplies,
                  Append(KexReplies, P("disconnect"))}
      BY <2>2 DEF Disconnect
    <2>. QED  BY <2>1, <2>3 DEF OnWire, KexReplies, P, Sealed
  <1>6. ASSUME NEW m, RecvUnknown(m, o) PROVE Reading /\ OnWire({"unimplemented"})
    BY <1>6, POnward DEF RecvUnknown, Handles
  <1>. QED  BY <1>1, <1>2, <1>3, <1>4, <1>5, <1>6 DEF RecvTransport, OnWire

AuthMsgs == {"service-accept", "auth-failure", "auth-success"}
ChanMsgs == {"open-confirm", "open-failure", "request-success", "request-failure"}

LEMMA WireSession ==
  ASSUME NEW o, RecvSession(o)
  PROVE  /\ Reading
         /\ \/ OnWire({"disconnect", "global-failure"})
            \/ OnWire(AuthMsgs \cup {"disconnect"}) /\ state \in {"AUTH", "CONN"}
            \/ OnWire(ChanMsgs) /\ state = "CONN"
            \/ OnWire({"close"}) /\ chanOpen /\ ~closeSent
  <1>1. CASE RecvServiceRequest(o)
    BY <1>1, POnward DEF RecvServiceRequest, Handles, Acceptable, OnWire, AuthMsgs
  <1>2. ASSUME NEW try, RecvUserauth(try, o)
        PROVE  Reading /\ OnWire(AuthMsgs \cup {"disconnect"}) /\ state \in {"AUTH", "CONN"}
    <2>1. Reading /\ state \in {"AUTH", "CONN"}
      BY <1>2 DEF RecvUserauth, Handles, Acceptable
    <2>2. CASE Quiet \/ Disconnect(<<>>, o) \/ SendPacket(state, P("auth-failure"), o)
      BY <2>1, <2>2, DisconnectOnward, QuietOnward, POnward DEF OnWire, AuthMsgs
    <2>3. CASE SendPacket("CONN", P("auth-success"), o)
      BY <2>1, <2>3 DEF SendPacket, OnWire, P, Sealed, AuthMsgs
    <2>. QED  BY <1>2, <2>2, <2>3 DEF RecvUserauth
  <1>3. ASSUME NEW wantReply, RecvGlobalRequest(wantReply, o)
        PROVE  Reading /\ OnWire({"global-failure"})
    BY <1>3, POnward, QuietOnward DEF RecvGlobalRequest, Handles, OnWire
  <1>4. ASSUME NEW session, NEW win, NEW maxPkt, RecvChannelOpen(session, win, maxPkt, o)
        PROVE  Reading /\ OnWire(ChanMsgs) /\ state = "CONN"
    BY <1>4, SendOnward, POnward DEF RecvChannelOpen, Handles, Acceptable, OnWire, ChanMsgs
  <1>5. ASSUME NEW type, NEW cols, NEW rows, NEW wantReply,
               RecvChannelRequest(type, cols, rows, wantReply, o)
        PROVE  Reading /\ OnWire(ChanMsgs) /\ state = "CONN"
    BY <1>5, POnward, QuietOnward DEF RecvChannelRequest, Handles, Acceptable, OnWire, ChanMsgs
  <1>6. CASE RecvClose(o)
    <2>1. CASE Quiet
      BY <1>6, <2>1, QuietOnward DEF RecvClose, Handles, OnWire
    <2>2. CASE ~Quiet
      <3>1. Reading /\ chanOpen /\ ~closeSent /\ tx' \in {<<>>, <<P("close")>>}
        BY <1>6, <2>2 DEF RecvClose, Handles
      <3>. QED  BY <3>1 DEF OnWire, P, Sealed
    <2>. QED  BY <2>1, <2>2
  <1>. QED  BY <1>1, <1>2, <1>3, <1>4, <1>5, <1>6, Zenon DEF RecvSession, OnWire

LEMMA WireCalls ==
  ASSUME NEW o, Calls(o)
  PROVE  \/ OnWire({"version", "disconnect"}) /\ (state = "CLOSED" => tx' = <<>> \/ pc = "start")
         \/ OnWire({"data", "adjust"}) /\ CanSendNow
         \/ OnWire({"exit-status", "eof", "close"}) /\ state = "CONN" /\ chanOpen /\ ~closeSent
  <1>1. CASE AcceptStart(o)
    BY <1>1 DEF AcceptStart, OnWire, P, Sealed
  <1>2. CASE AcceptTimeout(o)
    BY <1>2, DisconnectOnward DEF AcceptTimeout, OnWire
  <1>3. CASE Read(o)
    BY <1>3 DEF Read, AdjustDue, OnWire, Sealed
  <1>4. CASE WriteChunk(o)
    BY <1>4 DEF WriteChunk, MustWait, OnWire, Sealed
  <1>5. ASSUME NEW sent, CloseStart(sent, o)
        PROVE  /\ OnWire({"exit-status", "eof", "close"})
               /\ state = "CONN" /\ chanOpen /\ ~closeSent
    BY <1>5 DEF CloseStart, OneOf, OnWire, P, Sealed
  <1>6. CASE CloseEnd(o)
    BY <1>6 DEF CloseEnd, OnWire, P, Sealed
  <1>. QED  BY <1>1, <1>2, <1>3, <1>4, <1>5, <1>6 DEF Calls

LEMMA WireSilently ==
  ASSUME RecvSilently \/ CallsSilently
  PROVE  OnWire({}) /\ tx' = <<>>
  <1>1. tx' = <<>>
    BY DEF RecvSilently, CallsSilently, SkipGuessed, ConnectionLost, RecvDisconnect,
           RecvIgnored, RecvNewKeys, RecvData, RecvWindowAdjust, RecvEof, Quiet,
           AcceptReturn, WriteStart, WriteWait, WriteResume, WriteFail, CloseWaited
  <1>. QED  BY <1>1 DEF OnWire
-----------------------------------------------------------------------------
(* Safety *)

\* Before the version exchange no key exchange has begun, and SshAccept is called
\* on a connection that is as SshNew made it.
Fresh ==
    /\ state = "VERSION" => kex = "IDLE"
    /\ pc = "start" => state = "VERSION"

\* The inductive invariant of the server.  KeysInStep needs Fresh (the version line
\* starts a key exchange, so none may be half done), SecuredFirst needs KeysInStep
\* (the keys a NEWKEYS brings into use are younger than key set 0), and
\* ShellNeedsPassword needs SecuredFirst.
Safe == TypeOK /\ Fresh /\ KeysInStep /\ SecuredFirst /\ ShellNeedsPassword

LEMMA SafeInit == Init => Safe
  <1>1. Init => TypeOK
    BY TypeInit
  <1>2. Init => Fresh /\ KeysInStep /\ SecuredFirst
    BY DEF Init, Fresh, KeysInStep, SecuredFirst
  <1>3. Init => ShellNeedsPassword
    <2>1. Init => /\ ~(chanOpen \/ shellReady \/ authenticated)
                  /\ state # "CONN" /\ pc \notin {"ready", "write", "wait", "close"}
      BY DEF Init
    <2>2. Init => ~(ring > 0)
      BY DEF Init
    <2>. QED  BY <2>1, <2>2 DEF ShellNeedsPassword
  <1>. QED  BY <1>1, <1>2, <1>3 DEF Safe

\* The steps that are no milestone of the key exchange or the login.
Ordinary ==
    /\ UNCHANGED <<kexNo, sessionId, inKeys, outKeys, pendKeys, authenticated>>
    /\ \/ kex' = kex
       \/ kex' = "WAIT_DH" /\ kex \in {"IDLE", "WAIT_KEXINIT"} /\ state # "VERSION"
    /\ state' \in {state, "CLOSED"}
    /\ pc' = "start" => pc = "start" /\ state' = state

LEMMA OrdinaryKeeps ==
  ASSUME Fresh, KeysInStep, SecuredFirst, Ordinary
  PROVE  Fresh' /\ KeysInStep' /\ SecuredFirst'
  <1>1. Fresh'
    BY DEF Fresh, Ordinary
  <1>2. KeysInStep'
    BY DEF KeysInStep, Ordinary
  <1>3. SecuredFirst'
    BY DEF SecuredFirst, Ordinary
  <1>. QED  BY <1>1, <1>2, <1>3

\* Reading is over before SshAccept is called and once the connection is closed.
LEMMA OnwardOrdinary ==
  ASSUME Reading, Onward, UNCHANGED <<kex, keyVars, authenticated>>
  PROVE  Ordinary
  BY DEF Reading, Onward, Ordinary, keyVars

LEMMA KexOnward ==
  ASSUME NEW o,
         \/ \E offer : RecvKexInit(offer, o)
         \/ RecvKexDh(o)
         \/ \E m : RecvKexFails(m, o)
  PROVE  Onward
  <1>1. CASE UNCHANGED <<state, pc, unsent>>
    BY <1>1 DEF Onward
  <1>2. ASSUME NEW t, NEW notice, Disconnect(t, notice) PROVE Onward
    BY <1>2, ReturnOnward DEF Disconnect
  <1>3. CASE SendPacket(state, P("kexinit"), o)
    BY <1>3, POnward
  <1>4. CASE Return(FALSE) /\ state' \in {state, "CLOSED"}
    BY <1>4, ReturnOnward
  <1>. QED  BY <1>1, <1>2, <1>3, <1>4 DEF RecvKexInit, RecvKexDh, RecvKexFails

LEMMA TransportKeeps ==
  ASSUME Safe, NEW o, RecvTransport(o)
  PROVE  Fresh' /\ KeysInStep' /\ SecuredFirst'
  <1>. Fresh /\ KeysInStep /\ SecuredFirst /\ KeyTypeOK
    BY DEF Safe, TypeOK
  <1>0. Reading
    BY WireTransport
  <1>1. ASSUME NEW m, NEW w, RejectPacket(m, w, o) PROVE Ordinary
    BY <1>0, <1>1, DisconnectOnward, OnwardOrdinary DEF RejectPacket, kexVars, authVars
  <1>2. ASSUME NEW line, RecvVersion(line, o)
        PROVE  Fresh' /\ KeysInStep' /\ SecuredFirst'
    <2>0. state = "VERSION" /\ UNCHANGED <<keyVars, authenticated>>
      BY <1>2 DEF RecvVersion, authVars
    <2>1. CASE (Quiet \/ Disconnect(<<>>, o)) /\ kex' = kex
      <3>1. state' \in {state, "CLOSED"} /\ pc' \in {pc, "quit", "ready"} /\ pc # "start"
        BY <1>0, <2>1, QuietOnward, DisconnectOnward DEF Onward, Reading
      <3>. QED  BY <2>0, <2>1, <3>1 DEF Fresh, KeysInStep, SecuredFirst, keyVars
    <2>2. CASE kex' = "WAIT_KEXINIT" /\ SendPacket("KEX", P("kexinit"), o)
      <3>1. state' \in {"KEX", "CLOSED"} /\ pc' # "start"
        BY <1>0, <2>2 DEF SendPacket, Return, Unwound, Reading
      <3>. QED  BY <2>0, <2>2, <3>1 DEF Fresh, KeysInStep, SecuredFirst, keyVars
    <2>. QED  BY <1>2, <2>1, <2>2 DEF RecvVersion, kexVars
  <1>3. ASSUME NEW offer, RecvKexInit(offer, o) PROVE Ordinary
    <2>1. Onward
      BY <1>3, KexOnward
    <2>2. UNCHANGED <<keyVars, authenticated>>
      BY <1>3 DEF RecvKexInit, authVars
    <2>3. \/ kex' = kex
          \/ kex' = "WAIT_DH" /\ kex \in {"IDLE", "WAIT_KEXINIT"} /\ state # "VERSION"
      BY <1>3 DEF RecvKexInit, Handles, Acceptable, KexExpected
    <2>. QED  BY <1>0, <2>1, <2>2, <2>3 DEF Ordinary, Onward, Reading, keyVars
  <1>4. CASE RecvKexDh(o)
    <2>1. Onward
      BY <1>4, KexOnward
    <2>2. pc' # "start" /\ state' # "VERSION"
      BY <1>0, <1>4, <2>1 DEF RecvKexDh, Handles, Onward, Reading
    <2>3. kex = "WAIT_DH" /\ inKeys = outKeys
      BY <1>4 DEF RecvKexDh, Handles, Acceptable, KexExpected, KeysInStep, KeyTypeOK
    <2>4. /\ kexNo' = kexNo + 1
          /\ sessionId' = IF sessionId = 0 THEN kexNo + 1 ELSE sessionId
          /\ inKeys' = inKeys /\ state' \in {state, "CLOSED"}
          /\ \/ outKeys' = kexNo + 1 /\ pendKeys' = kexNo + 1 /\ kex' = "WAIT_NEWKEYS"
             \/ UNCHANGED <<outKeys, pendKeys, kex>>
      BY <1>4, <2>1 DEF RecvKexDh, HashExchange, Onward
    <2>5. Fresh'
      BY <2>2 DEF Fresh
    <2>6. KeysInStep'
      BY <2>3, <2>4 DEF KeysInStep, KeyTypeOK
    <2>7. SecuredFirst'
      BY <2>3, <2>4 DEF KeysInStep, SecuredFirst, KeyTypeOK
    <2>. QED  BY <2>5, <2>6, <2>7
  <1>5. ASSUME NEW m, RecvKexFails(m, o)
        PROVE  Fresh' /\ KeysInStep' /\ SecuredFirst'
    <2>1. Onward
      BY <1>5, KexOnward
    <2>2. pc' # "start" /\ state' = "CLOSED"
      BY <1>0, <1>5, <2>1 DEF RecvKexFails, Disconnect, Onward, Reading
    <2>3. /\ UNCHANGED <<inKeys, outKeys, pendKeys, kex>>
          /\ \/ UNCHANGED <<kexNo, sessionId>>
             \/ /\ kexNo' = kexNo + 1
                /\ sessionId' = IF sessionId = 0 THEN kexNo + 1 ELSE sessionId
      BY <1>5 DEF RecvKexFails, HashExchange, kexVars
    <2>4. Fresh' /\ KeysInStep'
      BY <2>2, <2>3 DEF Fresh, KeysInStep, KeyTypeOK
    <2>5. SecuredFirst'
      BY <2>2, <2>3 DEF SecuredFirst, KeyTypeOK
    <2>. QED  BY <2>4, <2>5
  <1>6. ASSUME NEW m, RecvUnknown(m, o) PROVE Ordinary
    BY <1>0, <1>6, POnward, OnwardOrdinary DEF RecvUnknown, kexVars, authVars
  <1>. QED  BY <1>1, <1>2, <1>3, <1>4, <1>5, <1>6, OrdinaryKeeps DEF RecvTransport

\* What the packets of authentication and session do to the phase.
LogsIn ==
    /\ state = "AUTH" /\ state' \in {"CONN", "CLOSED"}
    /\ authenticated' = TRUE
    /\ pc' = pc \/ pc' = Unwound

LEMMA SessionMoves ==
  ASSUME NEW o, RecvSession(o)
  PROVE  /\ Reading /\ UNCHANGED <<kexVars, keyVars>>
         /\ (Onward /\ UNCHANGED authenticated) \/ LogsIn
  <1>0. Reading
    BY WireSession
  <1>1. CASE RecvServiceRequest(o)
    BY <1>0, <1>1, POnward DEF RecvServiceRequest, authVars
  <1>2. ASSUME NEW try, RecvUserauth(try, o)
        PROVE  /\ UNCHANGED <<kexVars, keyVars>>
               /\ (Onward /\ UNCHANGED authenticated) \/ LogsIn
    <2>1. CASE UNCHANGED authenticated /\ (Quiet \/ Disconnect(<<>>, o))
      BY <1>2, <2>1, QuietOnward, DisconnectOnward DEF RecvUserauth
    <2>2. CASE UNCHANGED authenticated /\ SendPacket(state, P("auth-failure"), o)
      BY <1>2, <2>2, POnward DEF RecvUserauth
    <2>3. CASE state = "AUTH" /\ authenticated' = TRUE /\ SendPacket("CONN", P("auth-success"), o)
      BY <1>2, <2>3 DEF RecvUserauth, SendPacket, Return, LogsIn
    <2>. QED  BY <1>2, <2>1, <2>2, <2>3 DEF RecvUserauth, authVars
  <1>3. ASSUME NEW wantReply, RecvGlobalRequest(wantReply, o)
        PROVE  UNCHANGED <<kexVars, keyVars, authenticated>> /\ Onward
    BY <1>3, POnward, QuietOnward DEF RecvGlobalRequest, authVars
  <1>4. ASSUME NEW session, NEW win, NEW maxPkt, RecvChannelOpen(session, win, maxPkt, o)
        PROVE  UNCHANGED <<kexVars, keyVars, authenticated>> /\ Onward
    BY <1>4, SendOnward, POnward DEF RecvChannelOpen, authVars
  <1>5. ASSUME NEW type, NEW cols, NEW rows, NEW wantReply,
               RecvChannelRequest(type, cols, rows, wantReply, o)
        PROVE  UNCHANGED <<kexVars, keyVars, authenticated>> /\ Onward
    BY <1>5, POnward, QuietOnward DEF RecvChannelRequest, authVars
  <1>6. CASE RecvClose(o)
    <2>1. CASE Quiet
      BY <1>0, <1>6, <2>1, QuietOnward DEF RecvClose, authVars
    <2>2. CASE ~Quiet
      <3>1. Return(TRUE) /\ state' \in {state, "CLOSED"}
        BY <1>6, <2>2 DEF RecvClose
      <3>. QED  BY <1>0, <1>6, <3>1, ReturnOnward DEF RecvClose, authVars
    <2>. QED  BY <2>1, <2>2
  <1>. QED  BY <1>0, <1>1, <1>2, <1>3, <1>4, <1>5, <1>6, Zenon DEF RecvSession

LEMMA SessionKeeps ==
  ASSUME Safe, NEW o, RecvSession(o)
  PROVE  Fresh' /\ KeysInStep' /\ SecuredFirst'
  <1>. Fresh /\ KeysInStep /\ SecuredFirst
    BY DEF Safe
  <1>1. CASE Onward /\ UNCHANGED authenticated
    BY <1>1, SessionMoves, OnwardOrdinary, OrdinaryKeeps DEF kexVars
  <1>2. CASE LogsIn
    <2>1. pc' # "start"
      BY <1>2, SessionMoves DEF LogsIn, Unwound, Reading
    <2>. QED  BY <1>2, <2>1, SessionMoves
              DEF LogsIn, Fresh, KeysInStep, SecuredFirst, kexVars, keyVars
  <1>. QED  BY <1>1, <1>2, SessionMoves

\* The silent packets: only NEWKEYS moves the key exchange.
LEMMA SilentMoves ==
  ASSUME RecvSilently
  PROVE  /\ Reading
         /\ \/ Onward /\ UNCHANGED <<kex, keyVars, authenticated, shellReady>>
            \/ RecvNewKeys
  <1>1. ASSUME NEW m, SkipGuessed(m)
        PROVE  Reading /\ Onward /\ UNCHANGED <<kex, keyVars, authenticated, shellReady>>
    BY <1>1, QuietOnward DEF SkipGuessed, authVars, chanVars
  <1>2. CASE ConnectionLost \/ RecvDisconnect
    BY <1>2, ReturnOnward DEF ConnectionLost, RecvDisconnect, Handles, kexVars, authVars, chanVars
  <1>3. CASE RecvIgnored
    BY <1>3, QuietOnward DEF RecvIgnored, Handles, kexVars, authVars, chanVars
  <1>4. CASE RecvNewKeys
    BY <1>4 DEF RecvNewKeys, Handles
  <1>5. ASSUME NEW n, RecvData(n)
        PROVE  Reading /\ Onward /\ UNCHANGED <<kex, keyVars, authenticated, shellReady>>
    BY <1>5, QuietOnward DEF RecvData, Handles, kexVars, authVars, chanVars
  <1>6. ASSUME NEW add, RecvWindowAdjust(add)
        PROVE  Reading /\ Onward /\ UNCHANGED <<kex, keyVars, authenticated, shellReady>>
    BY <1>6, QuietOnward DEF RecvWindowAdjust, Handles, kexVars, authVars, chanVars
  <1>7. CASE RecvEof
    BY <1>7, QuietOnward DEF RecvEof, Handles, kexVars, authVars
  <1>. QED  BY <1>1, <1>2, <1>3, <1>4, <1>5, <1>6, <1>7, Zenon DEF RecvSilently

LEMMA SilentKeeps ==
  ASSUME Safe, RecvSilently
  PROVE  Fresh' /\ KeysInStep' /\ SecuredFirst'
  <1>. Fresh /\ KeysInStep /\ SecuredFirst /\ KeyTypeOK
    BY DEF Safe, TypeOK
  <1>1. CASE Onward /\ UNCHANGED <<kex, keyVars, authenticated>>
    BY <1>1, SilentMoves, OnwardOrdinary, OrdinaryKeeps
  <1>2. CASE RecvNewKeys
    <2>1. /\ inKeys' = pendKeys /\ kex' = "IDLE" /\ kex = "WAIT_NEWKEYS"
          /\ UNCHANGED <<pc, kexNo, sessionId, outKeys>>
          /\ state' = (IF state = "KEX" THEN "AUTH" ELSE state)
          /\ pc # "start"
      BY <1>2 DEF RecvNewKeys, Handles, Acceptable, KexExpected, Reading
    <2>2. Fresh'
      BY <2>1 DEF Fresh
    <2>3. KeysInStep'
      BY <2>1 DEF KeysInStep, KeyTypeOK
    <2>4. SecuredFirst'
      BY <2>1 DEF KeysInStep, SecuredFirst, KeyTypeOK
    <2>. QED  BY <2>2, <2>3, <2>4
  <1>. QED  BY <1>1, <1>2, SilentMoves

\* The calls leave keys and authentication alone, and run a session only where
\* SshAccept returned one.
CallMoves ==
    /\ UNCHANGED <<kex, keyVars, authenticated, chanOpen, shellReady>>
    /\ state' \in {state, "CLOSED"} /\ pc' # "start"
    /\ pc' \in {"ready", "write", "wait"} => shellReady \/ pc \in {"ready", "write", "wait"}
    /\ pc' = "close" => pc = "close" \/ state = "CONN"

LEMMA CallsMove ==
  ASSUME NEW o, Calls(o) \/ CallsSilently
  PROVE  CallMoves
  <1>1. CASE CallsSilently
    BY <1>1 DEF CallsSilently, AcceptReturn, WriteStart, WriteWait, WriteResume, WriteFail,
           CloseWaited, CallMoves, kexVars, authVars, chanVars
  <1>2. CASE AcceptStart(o)
    BY <1>2 DEF AcceptStart, CallMoves, kexVars, authVars, chanVars
  <1>3. CASE AcceptTimeout(o)
    BY <1>3, DisconnectOnward DEF AcceptTimeout, Onward, CallMoves, kexVars, authVars, chanVars
  <1>4. CASE Read(o)
    BY <1>4 DEF Read, CallMoves, kexVars, authVars, chanVars
  <1>5. CASE WriteChunk(o)
    BY <1>5 DEF WriteChunk, CallMoves, kexVars, authVars, chanVars
  <1>6. ASSUME NEW sent, CloseStart(sent, o) PROVE CallMoves
    BY <1>6 DEF CloseStart, CallMoves, kexVars, authVars
  <1>7. CASE CloseEnd(o)
    BY <1>7 DEF CloseEnd, CallMoves, kexVars, authVars, chanVars
  <1>. QED  BY <1>1, <1>2, <1>3, <1>4, <1>5, <1>6, <1>7 DEF Calls

LEMMA CallsKeep ==
  ASSUME Safe, NEW o, Calls(o) \/ CallsSilently
  PROVE  Fresh' /\ KeysInStep' /\ SecuredFirst'
  <1>1. Ordinary
    BY CallsMove DEF CallMoves, Ordinary, keyVars
  <1>. QED  BY <1>1, OrdinaryKeeps DEF Safe

LEMMA KeysNext ==
  Safe /\ [Next]_vars => Fresh' /\ KeysInStep' /\ SecuredFirst'
  <1>. SUFFICES ASSUME Safe, [Next]_vars PROVE Fresh' /\ KeysInStep' /\ SecuredFirst'
    OBVIOUS
  <1>1. CASE UNCHANGED vars
    BY <1>1 DEF vars, kexVars, keyVars, Safe, Fresh, KeysInStep, SecuredFirst
  <1>2. CASE Next
    BY <1>1, <1>2, TransportKeeps, SessionKeeps, SilentKeeps, CallsKeep DEF Next, Terminated
  <1>. QED  BY <1>1, <1>2

\* The transport layer moves a login neither on nor back.
LEMMA PasswordTransport ==
  ASSUME Safe, NEW o, RecvTransport(o)
  PROVE  ShellNeedsPassword'
  <1>1. UNCHANGED <<inKeys, authenticated, chanOpen, shellReady, ring>>
    <2>1. UNCHANGED <<authVars, chanVars, flowVars>>
      BY DEF RecvTransport, RejectPacket, RecvVersion, RecvKexInit, RecvKexDh, RecvKexFails,
             RecvUnknown
    <2>2. UNCHANGED inKeys
      BY DEF RecvTransport, RejectPacket, RecvVersion, RecvKexInit, RecvKexDh, RecvKexFails,
             RecvUnknown, keyVars
    <2>. QED  BY <2>1, <2>2 DEF authVars, chanVars, flowVars
  <1>2. /\ state' \in {state, "CLOSED"} \/ (state = "VERSION" /\ state' = "KEX")
        /\ pc' = pc \/ pc' = "quit" \/ (pc = "wait" /\ pc' = "ready")
    <2>1. ASSUME NEW line, RecvVersion(line, o)
          PROVE  /\ state' \in {state, "CLOSED"} \/ (state = "VERSION" /\ state' = "KEX")
                 /\ pc' = pc \/ pc' = "quit" \/ (pc = "wait" /\ pc' = "ready")
      BY <2>1, QuietOnward, DisconnectOnward
         DEF RecvVersion, SendPacket, Return, Unwound, Onward
    <2>2. ASSUME NEW m, NEW w, RejectPacket(m, w, o) PROVE Onward
      BY <2>2, DisconnectOnward DEF RejectPacket
    <2>3. ASSUME NEW m, RecvUnknown(m, o) PROVE Onward
      BY <2>3, POnward DEF RecvUnknown
    <2>. QED  BY <2>1, <2>2, <2>3, KexOnward DEF RecvTransport, Onward
  <1>. QED  BY <1>1, <1>2 DEF Safe, ShellNeedsPassword

\* A channel is opened and a shell started only in state CONN.
LEMMA PasswordSession ==
  ASSUME Safe, NEW o, RecvSession(o)
  PROVE  ShellNeedsPassword'
  <1>1. UNCHANGED inKeys
    BY SessionMoves DEF keyVars
  <1>2. UNCHANGED ring /\ (chanOpen' \/ shellReady' => chanOpen \/ shellReady \/ state = "CONN")
    <2>1. ASSUME NEW session, NEW win, NEW maxPkt, RecvChannelOpen(session, win, maxPkt, o)
          PROVE  UNCHANGED ring /\ state = "CONN"
      BY <2>1 DEF RecvChannelOpen, Handles, Acceptable, flowVars
    <2>2. ASSUME NEW type, NEW cols, NEW rows, NEW wantReply,
                 RecvChannelRequest(type, cols, rows, wantReply, o)
          PROVE  UNCHANGED ring /\ state = "CONN"
      BY <2>2 DEF RecvChannelRequest, Handles, Acceptable, flowVars
    <2>3. CASE RecvServiceRequest(o)
      BY <2>3 DEF RecvServiceRequest, chanVars, flowVars
    <2>4. ASSUME NEW try, RecvUserauth(try, o)
          PROVE  UNCHANGED <<ring, chanOpen, shellReady>>
      BY <2>4 DEF RecvUserauth, chanVars, flowVars
    <2>5. ASSUME NEW wantReply, RecvGlobalRequest(wantReply, o)
          PROVE  UNCHANGED <<ring, chanOpen, shellReady>>
      BY <2>5 DEF RecvGlobalRequest, chanVars, flowVars
    <2>6. CASE RecvClose(o)
      BY <2>6 DEF RecvClose, flowVars
    <2>. QED  BY <2>1, <2>2, <2>3, <2>4, <2>5, <2>6, Zenon DEF RecvSession
  <1>3. CASE Onward /\ UNCHANGED authenticated
    BY <1>1, <1>2, <1>3 DEF Onward, Safe, ShellNeedsPassword
  <1>4. CASE LogsIn
    BY <1>1, <1>2, <1>4, SessionMoves DEF LogsIn, Safe, ShellNeedsPassword, SecuredFirst
  <1>. QED  BY <1>3, <1>4, SessionMoves

\* Input is buffered only for an open channel.
LEMMA PasswordSilent ==
  ASSUME Safe, RecvSilently
  PROVE  ShellNeedsPassword'
  <1>1. UNCHANGED <<chanOpen, shellReady>>
    BY DEF RecvSilently, SkipGuessed, ConnectionLost, RecvDisconnect, RecvIgnored, RecvNewKeys,
           RecvData, RecvWindowAdjust, RecvEof, chanVars
  <1>2. ring' = ring \/ chanOpen
    BY DEF RecvSilently, SkipGuessed, ConnectionLost, RecvDisconnect, RecvIgnored, RecvNewKeys,
           RecvData, RecvWindowAdjust, RecvEof, Handles, Acceptable, flowVars
  <1>3. CASE Onward /\ UNCHANGED <<keyVars, authenticated>>
    BY <1>1, <1>2, <1>3 DEF Onward, keyVars, Safe, ShellNeedsPassword
  <1>4. CASE RecvNewKeys
    <2>1. /\ UNCHANGED <<ring, authenticated, pc>>
          /\ inKeys' = pendKeys /\ kex = "WAIT_NEWKEYS"
          /\ state' = (IF state = "KEX" THEN "AUTH" ELSE state)
      BY <1>4 DEF RecvNewKeys, Handles, Acceptable, KexExpected, flowVars, authVars
    <2>2. inKeys' > 0
      BY <2>1 DEF Safe, TypeOK, KeyTypeOK, KeysInStep
    <2>. QED  BY <1>1, <2>1, <2>2 DEF Safe, ShellNeedsPassword
  <1>. QED  BY <1>3, <1>4, SilentMoves

LEMMA PasswordCalls ==
  ASSUME Safe, NEW o, Calls(o) \/ CallsSilently
  PROVE  ShellNeedsPassword'
  <1>1. ring' = ring \/ ring > 0
    BY DEF Calls, CallsSilently, AcceptStart, AcceptTimeout, Read, WriteChunk, CloseStart,
           CloseEnd, AcceptReturn, WriteStart, WriteWait, WriteResume, WriteFail, CloseWaited,
           flowVars
  <1>. QED  BY <1>1, CallsMove DEF CallMoves, keyVars, Safe, ShellNeedsPassword

LEMMA SafeNext == Safe /\ [Next]_vars => Safe'
  <1>. SUFFICES ASSUME Safe, [Next]_vars PROVE Safe'
    OBVIOUS
  <1>1. TypeOK'
    BY TypeNext DEF Safe
  <1>2. ShellNeedsPassword'
    <2>1. CASE UNCHANGED vars
      BY <2>1 DEF vars, keyVars, authVars, chanVars, flowVars, Safe, ShellNeedsPassword
    <2>2. CASE Next
      BY <2>1, <2>2, PasswordTransport, PasswordSession, PasswordSilent, PasswordCalls
         DEF Next, Terminated
    <2>. QED  BY <2>1, <2>2
  <1>. QED  BY <1>1, <1>2, KeysNext DEF Safe

LEMMA SafeAlways == Spec => []Safe
  BY SafeInit, SafeNext, PTL DEF Spec

\* DoKexDh and ApplyNewKeys switch the two directions one after the other, in every
\* interleaving of packets and calls.
THEOREM KeysAlwaysInStep == Spec => []KeysInStep
  <1>1. Safe => KeysInStep
    BY DEF Safe
  <1>. QED  BY <1>1, SafeAlways, PTL

\* Authentication and session run over keys in both directions, and the session id
\* stays the hash of the first exchange however often keys are exchanged.
THEOREM AlwaysSecuredFirst == Spec => []SecuredFirst
  <1>1. Safe => SecuredFirst
    BY DEF Safe
  <1>. QED  BY <1>1, SafeAlways, PTL

\* No sequence of packets opens the channel, buffers input or makes SshAccept return
\* a session before HandleUserauth accepted the password.
THEOREM ShellAlwaysNeedsPassword == Spec => []ShellNeedsPassword
  <1>1. Safe => ShellNeedsPassword
    BY DEF Safe
  <1>. QED  BY <1>1, SafeAlways, PTL
-----------------------------------------------------------------------------
(* What leaves the server, and when *)

\* A Next step is silent, or one of the three kinds that send.
LEMMA WireNext ==
  ASSUME Next
  PROVE  \/ OnWire({}) /\ tx' = <<>>
         \/ UNCHANGED vars
         \/ \E o \in SendResults : RecvTransport(o) \/ RecvSession(o) \/ Calls(o)
  BY WireSilently DEF Next, Terminated

\* Where session messages leave, the outgoing direction has keys.
LEMMA SealedNext ==
  Safe /\ SealedSession /\ [Next]_vars => SealedSession'
  <1>. SUFFICES ASSUME Safe, SealedSession, [Next]_vars PROVE SealedSession'
    OBVIOUS
  <1>0. KeyTypeOK /\ KeysInStep /\ SecuredFirst /\ ShellNeedsPassword
    BY DEF Safe, TypeOK
  <1>1. authenticated \/ state \in {"AUTH", "CONN"} => outKeys > 0
    BY <1>0 DEF KeyTypeOK, KeysInStep, SecuredFirst, ShellNeedsPassword
  <1>2. chanOpen => outKeys > 0
    BY <1>0, <1>1 DEF ShellNeedsPassword
  <1>3. ASSUME NEW msgs, OnWire(msgs), outKeys > 0 \/ msgs \cap SessionMsgs = {}
        PROVE  SealedSession'
    BY <1>3 DEF OnWire, SealedSession
  <1>4. CASE UNCHANGED vars
    BY <1>4 DEF vars, SealedSession
  <1>5. ASSUME NEW o, RecvTransport(o) PROVE SealedSession'
    BY <1>3, <1>5, WireTransport
  <1>6. ASSUME NEW o, RecvSession(o) PROVE SealedSession'
    <2>1. {"disconnect", "global-failure"} \cap SessionMsgs = {}
      BY DEF SessionMsgs
    <2>. QED  BY <1>1, <1>2, <1>3, <1>6, <2>1, WireSession
  <1>7. ASSUME NEW o, Calls(o) PROVE SealedSession'
    <2>1. {"version", "disconnect"} \cap SessionMsgs = {}
      BY DEF SessionMsgs
    <2>. QED  BY <1>1, <1>3, <1>7, <2>1, WireCalls DEF CanSendNow
  <1>8. CASE Next
    BY <1>3, <1>4, <1>5, <1>6, <1>7, <1>8, WireNext
  <1>. QED  BY <1>4, <1>8

\* Nothing that belongs to authentication or to the session leaves in plaintext.
THEOREM SessionAlwaysSealed == Spec => []SealedSession
  <1>1. Init => SealedSession
    BY DEF Init, SealedSession
  <1>. QED  BY <1>1, SafeAlways, SealedNext, PTL DEF Spec

\* Whatever a handler or call does after a SendPacket that closed the connection, it
\* sends nothing more and does not reopen it.
THEOREM ClosedStaysFinal == Spec => ClosedIsFinal
  <1>1. ASSUME Safe, state = "CLOSED", [Next]_vars
        PROVE  (state' = "CLOSED" /\ tx' = <<>>) \/ UNCHANGED vars
    <2>1. ~Reading /\ pc # "start"
      BY <1>1 DEF Reading, Safe, Fresh
    <2>2. ASSUME NEW o, Calls(o) PROVE state' = "CLOSED" /\ tx' = <<>>
      BY <1>1, <2>1, <2>2, CallsMove
         DEF CallMoves, Calls, AcceptStart, AcceptTimeout, Read, AdjustDue, CanSendNow,
             WriteChunk, Writable, CloseStart, CloseEnd
    <2>3. CASE CallsSilently
      BY <1>1, <2>3, CallsMove, WireSilently DEF CallMoves
    <2>. QED  BY <1>1, <2>1, <2>2, <2>3, WireTransport, WireSession, SilentMoves
              DEF Next, Terminated
  <1>2. Safe /\ [Next]_vars => [state = "CLOSED" => state' = "CLOSED" /\ tx' = <<>>]_vars
    BY <1>1
  <1>. QED  BY <1>2, SafeAlways, PTL DEF Spec, ClosedIsFinal

\* CanSendNow, the test of SshClose and the CHANNEL_CLOSE handler keep the channel
\* silent once our CHANNEL_CLOSE is out.
THEOREM ChannelSilentAfterClose == Spec => SilentAfterClose
  <1>. DEFINE After == {"data", "adjust", "exit-status", "eof", "close"}
  <1>1. ASSUME closeSent, Next PROVE ~Sends(After) \/ UNCHANGED vars
    <2>1. ASSUME NEW msgs, OnWire(msgs), msgs \cap After = {} PROVE ~Sends(After)
      BY <2>1 DEF OnWire, Sends
    <2>2. ASSUME NEW o, RecvTransport(o) PROVE ~Sends(After)
      <3>1. (ServerMsgs \ SessionMsgs) \cap After = {}
        BY DEF SessionMsgs
      <3>. QED  BY <2>1, <2>2, <3>1, WireTransport
    <2>3. ASSUME NEW o, RecvSession(o) PROVE ~Sends(After)
      <3>1. /\ {"disconnect", "global-failure"} \cap After = {}
            /\ (AuthMsgs \cup {"disconnect"}) \cap After = {}
            /\ ChanMsgs \cap After = {}
        BY DEF AuthMsgs, ChanMsgs
      <3>. QED  BY <1>1, <2>1, <2>3, <3>1, WireSession
    <2>4. ASSUME NEW o, Calls(o) PROVE ~Sends(After)
      <3>1. {"version", "disconnect"} \cap After = {}
        OBVIOUS
      <3>. QED  BY <1>1, <2>1, <2>4, <3>1, WireCalls DEF CanSendNow
    <2>. QED  BY <1>1, <2>1, <2>2, <2>3, <2>4, WireNext
  <1>2. [Next]_vars => [closeSent => ~Sends(After)]_vars
    BY <1>1
  <1>. QED  BY <1>2, PTL DEF Spec, SilentAfterClose

\* While a key exchange holds our KEXINIT unanswered by our NEWKEYS, SshWrite and
\* SshRead send nothing on the channel.
THEOREM DataAlwaysWaitsForKeys == Spec => DataWaitsForKeys
  <1>. DEFINE Channel == {"data", "adjust"}
  <1>1. ASSUME kex = "WAIT_DH", Next PROVE ~Sends(Channel) \/ UNCHANGED vars
    <2>1. ASSUME NEW msgs, OnWire(msgs), msgs \cap Channel = {} PROVE ~Sends(Channel)
      BY <2>1 DEF OnWire, Sends
    <2>2. ASSUME NEW o, RecvTransport(o) PROVE ~Sends(Channel)
      <3>1. (ServerMsgs \ SessionMsgs) \cap Channel = {}
        BY DEF SessionMsgs
      <3>. QED  BY <2>1, <2>2, <3>1, WireTransport
    <2>3. ASSUME NEW o, RecvSession(o) PROVE ~Sends(Channel)
      <3>1. /\ {"disconnect", "global-failure"} \cap Channel = {}
            /\ (AuthMsgs \cup {"disconnect"}) \cap Channel = {}
            /\ ChanMsgs \cap Channel = {} /\ {"close"} \cap Channel = {}
        BY DEF AuthMsgs, ChanMsgs
      <3>. QED  BY <2>1, <2>3, <3>1, WireSession
    <2>4. ASSUME NEW o, Calls(o) PROVE ~Sends(Channel)
      <3>1. /\ {"version", "disconnect"} \cap Channel = {}
            /\ {"exit-status", "eof", "close"} \cap Channel = {}
        OBVIOUS
      <3>. QED  BY <1>1, <2>1, <2>4, <3>1, WireCalls DEF CanSendNow
    <2>. QED  BY <1>1, <2>1, <2>2, <2>3, <2>4, WireNext
  <1>2. [Next]_vars => [kex = "WAIT_DH" => ~Sends(Channel)]_vars
    BY <1>1
  <1>. QED  BY <1>2, PTL DEF Spec, DataWaitsForKeys
-----------------------------------------------------------------------------
(* The server implements RemoteLogin *)

promised == <<inKeys, authenticated, shellReady, authTries>>

\* A step that touches nothing of the promise ends the connection or stutters.
LEMMA PromiseFrame ==
  ASSUME UNCHANGED promised, state' \in {state, "CLOSED"}
  PROVE  [Promise!Next]_Promise!vars
  <1>1. UNCHANGED <<Stage, authTries>>
    BY DEF promised, Stage
  <1>2. CASE state' = state
    BY <1>1, <1>2 DEF Promise!vars
  <1>3. CASE state # "CLOSED" /\ state' = "CLOSED"
    BY <1>1, <1>3 DEF Promise!Next, Promise!End
  <1>. QED  BY <1>2, <1>3

LEMMA PromiseTransport ==
  ASSUME Safe, NEW o, RecvTransport(o)
  PROVE  [Promise!Next]_Promise!vars
  <1>1. UNCHANGED <<Stage, authTries>>
    <2>1. UNCHANGED authVars /\ UNCHANGED chanVars
      BY DEF RecvTransport, RejectPacket, RecvVersion, RecvKexInit, RecvKexDh, RecvKexFails,
             RecvUnknown
    <2>2. UNCHANGED inKeys
      BY DEF RecvTransport, RejectPacket, RecvVersion, RecvKexInit, RecvKexDh, RecvKexFails,
             RecvUnknown, keyVars
    <2>. QED  BY <2>1, <2>2 DEF authVars, chanVars, Stage
  <1>2. state # "CLOSED"
    BY WireTransport DEF Reading
  <1>3. CASE state' = "CLOSED"
    BY <1>1, <1>2, <1>3 DEF Promise!Next, Promise!End
  <1>4. CASE state' # "CLOSED"
    BY <1>1, <1>2, <1>4 DEF Promise!vars
  <1>. QED  BY <1>3, <1>4

\* Passwords are looked at in state AUTH, under keys; a shell starts in CONN.
LEMMA PromiseSession ==
  ASSUME Safe, NEW o, RecvSession(o)
  PROVE  [Promise!Next]_Promise!vars
  <1>0. Reading /\ UNCHANGED inKeys
    BY SessionMoves DEF keyVars
  <1>1. ASSUME NEW try, RecvUserauth(try, o)
        PROVE  [Promise!Next]_Promise!vars
    <2>0. UNCHANGED shellReady /\ state \in {"AUTH", "CONN"}
      BY <1>1 DEF RecvUserauth, chanVars, Handles, Acceptable
    <2>1. CASE UNCHANGED <<authenticated, authTries>> /\ state' \in {state, "CLOSED"}
      BY <1>0, <2>0, <2>1, PromiseFrame DEF promised
    <2>2. state = "AUTH" => Stage = "keyed"
      BY DEF Safe, ShellNeedsPassword, SecuredFirst, Stage
    <2>3. CASE /\ state = "AUTH" /\ authenticated' = TRUE /\ UNCHANGED authTries
               /\ state' \in {"CONN", "CLOSED"}
      <3>1. ~shellReady
        BY <2>3 DEF Safe, ShellNeedsPassword
      <3>2. Stage' = "login"
        BY <2>0, <2>3, <3>1 DEF Stage
      <3>. QED  BY <2>2, <2>3, <3>2 DEF Promise!Next, Promise!LogIn, Promise!Advance
    <2>4. CASE /\ state = "AUTH" /\ UNCHANGED authenticated /\ authTries' = authTries + 1
               /\ NoMoreTries(authTries') => state' = "CLOSED"
      <3>1. UNCHANGED Stage
        BY <1>0, <2>0, <2>4 DEF Stage
      <3>. QED  BY <2>2, <2>4, <3>1 DEF Promise!Next, Promise!Refuse, NoMoreTries
    <2>. QED  BY <1>1, <2>1, <2>3, <2>4
              DEF RecvUserauth, Quiet, SendPacket, Disconnect, authVars
  <1>2. ASSUME NEW type, NEW cols, NEW rows, NEW wantReply,
               RecvChannelRequest(type, cols, rows, wantReply, o)
        PROVE  [Promise!Next]_Promise!vars
    <2>0. UNCHANGED <<authenticated, authTries>> /\ chanOpen /\ state' \in {state, "CLOSED"}
      BY <1>2, POnward, QuietOnward
         DEF RecvChannelRequest, authVars, Handles, Acceptable, Onward
    <2>1. CASE UNCHANGED shellReady
      BY <1>0, <2>0, <2>1, PromiseFrame DEF promised
    <2>2. CASE ~UNCHANGED shellReady
      <3>1. ~shellReady /\ shellReady'
        <4>1. shellReady \in BOOLEAN /\ shellReady' = (shellReady \/ type = "shell")
          BY <1>2, Zenon DEF RecvChannelRequest, Safe, TypeOK, ChanTypeOK
        <4>. QED  BY <2>2, <4>1
      <3>2. authenticated /\ state # "CLOSED"
        BY <1>0, <2>0 DEF Safe, ShellNeedsPassword, Reading
      <3>3. Stage = "login" /\ Stage' = "shell"
        BY <3>1, <3>2 DEF Stage
      <3>. QED  BY <2>0, <3>2, <3>3 DEF Promise!Next, Promise!OpenShell, Promise!Advance
    <2>. QED  BY <2>1, <2>2
  <1>3. CASE UNCHANGED <<authenticated, authTries, shellReady>> /\ state' \in {state, "CLOSED"}
    BY <1>0, <1>3, PromiseFrame DEF promised
  <1>4. CASE RecvServiceRequest(o)
    BY <1>3, <1>4, POnward DEF RecvServiceRequest, authVars, chanVars, Onward
  <1>5. ASSUME NEW wantReply, RecvGlobalRequest(wantReply, o)
        PROVE  [Promise!Next]_Promise!vars
    BY <1>3, <1>5, POnward, QuietOnward DEF RecvGlobalRequest, authVars, chanVars, Onward
  <1>6. ASSUME NEW session, NEW win, NEW maxPkt, RecvChannelOpen(session, win, maxPkt, o)
        PROVE  [Promise!Next]_Promise!vars
    BY <1>3, <1>6, SendOnward, POnward DEF RecvChannelOpen, authVars, chanVars, Onward
  <1>7. CASE RecvClose(o)
    BY <1>3, <1>7 DEF RecvClose, Quiet, authVars
  <1>. QED  BY <1>1, <1>2, <1>4, <1>5, <1>6, <1>7, Zenon DEF RecvSession

\* The first NEWKEYS of the client brings the keys.
LEMMA PromiseSilent ==
  ASSUME Safe, RecvSilently
  PROVE  [Promise!Next]_Promise!vars
  <1>0. UNCHANGED authTries
    BY DEF RecvSilently, SkipGuessed, ConnectionLost, RecvDisconnect, RecvIgnored, RecvNewKeys,
           RecvData, RecvWindowAdjust, RecvEof, authVars
  <1>1. CASE Onward /\ UNCHANGED <<keyVars, authenticated, shellReady>>
    BY <1>0, <1>1, PromiseFrame DEF Onward, keyVars, promised
  <1>2. CASE RecvNewKeys
    <2>1. /\ UNCHANGED <<authenticated, shellReady>>
          /\ inKeys' = pendKeys /\ kex = "WAIT_NEWKEYS" /\ state # "CLOSED"
          /\ state' = (IF state = "KEX" THEN "AUTH" ELSE state)
      BY <1>2 DEF RecvNewKeys, Handles, Reading, Acceptable, KexExpected, chanVars, authVars
    <2>2. inKeys' > 0 /\ (inKeys > 0 \/ inKeys = 0)
      BY <2>1 DEF Safe, TypeOK, KeyTypeOK, KeysInStep
    <2>3. Stage' = Stage \/ (Stage = "clear" /\ Stage' = "keyed")
      BY <2>1, <2>2 DEF Stage
    <2>. QED  BY <1>0, <2>1, <2>3
              DEF Promise!Next, Promise!GetKeys, Promise!Advance, Promise!vars
  <1>. QED  BY <1>1, <1>2, SilentMoves

LEMMA PromiseCalls ==
  ASSUME NEW o, Calls(o) \/ CallsSilently
  PROVE  [Promise!Next]_Promise!vars
  <1>1. UNCHANGED authTries
    BY DEF Calls, CallsSilently, AcceptStart, AcceptTimeout, Read, WriteChunk, CloseStart,
           CloseEnd, AcceptReturn, WriteStart, WriteWait, WriteResume, WriteFail, CloseWaited,
           authVars
  <1>. QED  BY <1>1, CallsMove, PromiseFrame DEF CallMoves, keyVars, promised

\* The handlers of ssh.c together implement RemoteLogin: no order of packets, rekeyings,
\* failures and calls gives more password guesses, or a shell on other terms.
THEOREM PromiseKept == Spec => KeepsPromise
  <1>1. Init => Promise!Init
    BY DEF Init, Promise!Init, Stage
  <1>2. Safe /\ [Next]_vars => [Promise!Next]_Promise!vars
    <2>. SUFFICES ASSUME Safe, [Next]_vars PROVE [Promise!Next]_Promise!vars
      OBVIOUS
    <2>1. CASE UNCHANGED vars
      BY <2>1, PromiseFrame DEF vars, keyVars, authVars, chanVars, promised
    <2>2. CASE Next
      BY <2>1, <2>2, PromiseTransport, PromiseSession, PromiseSilent, PromiseCalls
         DEF Next, Terminated
    <2>. QED  BY <2>1, <2>2
  <1>. QED  BY <1>1, <1>2, SafeAlways, PTL DEF Spec, KeepsPromise, Promise!Spec
=============================================================================
