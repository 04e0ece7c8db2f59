------------------------------- MODULE SshRx -------------------------------
(***************************************************************************)
(* Input assembly of src/files/ssh.c: ProcessInput and TryProcessOne turn  *)
(* the bytes NetRead brings, cut anywhere, into version lines and packets. *)
(* A read may bring the end of one packet and the start of the next, which *)
(* may be sealed with other keys; the first block is decrypted in place    *)
(* before the rest has come.                                               *)
(*                                                                         *)
(* A byte is <<u, i, d>>: byte i of the unit numbered u, and whether it is *)
(* as it came ("raw"), rightly deciphered ("plain") or spoilt ("garbage"). *)
(* The cipher is AES-CTR: byte i of a packet is deciphered by the keys it  *)
(* was sealed with at the same position of their key stream, once.         *)
(***************************************************************************)
EXTENDS Integers, Sequences, SequencesExt

CONSTANTS
    LineMax,        \* bytes without a line feed that are too many (255)
    VersionBuf,     \* sizeof clientVersion (256)
    Clear, Block,   \* bytes a length is read from: 4 in the clear, 16 enciphered
    MaxPacket,      \* SSH_MAX_PACKET
    Slack,          \* SSH_RX_BUF - SSH_MAX_PACKET
    MacLen,         \* macLen of each generation of keys, 0 in the clear
    Lines, Totals,  \* lengths of lines and packets (without MAC) the client sends
    MaxUnits        \* BOUND: lines and packets the client sends

ASSUME RxAssumption ==
    /\ LineMax \in Nat \ {0} /\ MaxPacket \in Nat \ {0} /\ MaxUnits \in Nat
    /\ Clear \in Nat \ {0} /\ Block \in Nat \ {0}
    /\ Slack \in Nat /\ MacLen \in [0..MaxUnits -> 0..Slack] /\ MacLen[0] = 0
    /\ VersionBuf \in Nat /\ LineMax <= VersionBuf
    /\ Lines \subseteq Nat \ {0} /\ LineMax <= MaxPacket
    \* rxPktLen, at least 5, and 4 make a multiple of 8 or 16, or are refused.
    /\ Clear <= Block /\ Block <= MaxPacket
    /\ Totals \subseteq Nat /\ \A t \in Totals : t >= Block

VARIABLES
    sent,       \* units the client has sent: [kind, total, key, start, seq]
    tcp,        \* bytes under way
    rx,         \* c->rx, rxLen of its bytes
    rxHaveLen,  \* c->rxHaveLen; rxPktLen is that of the unit rx begins with
    in,         \* c->in: [key, pos in its key stream, seq]
    state,      \* ST_VERSION, "PACKETS" (all later ones), ST_CLOSED or "SPOILT"
    work,       \* is the inner loop of ProcessInput running?
    handled     \* units handled so far

Byte == (1..MaxUnits) \X Nat \X {"raw", "plain", "garbage"}

vars == <<sent, tcp, rx, rxHaveLen, in, state, work, handled>>

\* Mutant: the buffer holds a packet but not its MAC.
RxBuf_NoMac == MaxPacket
RxBuf == MaxPacket + Slack

Init ==
    /\ sent = <<>> /\ tcp = <<>> /\ rx = <<>> /\ rxHaveLen = FALSE
    /\ in = [key |-> 0, pos |-> 0, seq |-> 0]
    /\ state = "VERSION" /\ work = FALSE /\ handled = <<>>

----------------------------------------------------------------------------
\* The client: lines, the last of them its version, then packets; NEWKEYS ends the
\* use of its keys.  start is where the unit begins in the key stream.

IsLine(u) == u.kind \in {"line", "version", "oldversion"}

\* What the program may do with a unit: handle it, or end the connection.  With a line
\* over LineMax it does either, by where the line is cut.
Good(u) == u.kind # "oldversion" /\ (IsLine(u) \/ u.total <= MaxPacket)
Bad(u) == ~Good(u) \/ (IsLine(u) /\ u.total > LineMax)

Size(u) == u.total + (IF IsLine(u) THEN 0 ELSE MacLen[u.key])

ClientSends ==
    /\ Len(sent) < MaxUnits
    /\ LET first == sent = <<>> \/ (sent # <<>> /\ Last(sent).kind = "line")
           prev == Last(sent)
           fresh == first \/ prev.kind \in {"version", "newkeys"}
       IN \E u \in
            IF first
              THEN [kind : {"line", "version", "oldversion"}, total : Lines, key : {0},
                    start : {0}, seq : {0}]
              ELSE [kind : {"data", "newkeys"}, total : Totals,
                    key : {prev.key + (IF prev.kind = "newkeys" THEN 1 ELSE 0)},
                    start : {IF fresh THEN 0 ELSE prev.start + prev.total},
                    seq : {IF prev.kind = "version" THEN 0 ELSE prev.seq + 1}] :
            /\ sent' = Append(sent, u)
            /\ tcp' = tcp \o [i \in 1..Size(u) |-> <<Len(sent) + 1, i, "raw">>]
    /\ UNCHANGED <<rx, rxHaveLen, in, state, work, handled>>

----------------------------------------------------------------------------
\* ProcessInput.

\* Mutant: every read may fill the whole buffer.
Room_Whole == RxBuf
Room == RxBuf - Len(rx)

\* Closed, or memory overwritten: what the program does from here on is not claimed.
Over == state \in {"CLOSED", "SPOILT"}

\* Between two reads the inner loop has done what it can; without room nothing is read.
Read ==
    /\ ~Over /\ ~work /\ Len(rx) < RxBuf
    /\ \E n \in 1..Room :
         /\ n <= Len(tcp)
         /\ rx' = rx \o SubSeq(tcp, 1, n) /\ tcp' = SubSeq(tcp, n + 1, Len(tcp))
    /\ work' = TRUE
    /\ UNCHANGED <<sent, rxHaveLen, in, state, handled>>

\* TryProcessOne.

Unit == sent[rx[1][1]]
Active == in.key > 0

\* Bytes a to b of the buffer through AES-CTR, from where the key stream stands.
Deciphered(s, a, b, from) ==
    [j \in DOMAIN s |->
        IF j \notin a..b THEN s[j]
        ELSE LET u == sent[s[j][1]]
                 right == /\ s[j][3] = "raw" /\ u.key = in.key
                          /\ s[j][2] <= u.total /\ u.start + s[j][2] = from + j - a + 1
             IN <<s[j][1], s[j][2], IF right THEN "plain" ELSE "garbage">>]

\* The unit's bytes a to b are in their places, readable.
Readable(s, a, b) ==
    \A j \in a..b : s[j][1] = s[1][1] /\ s[j][2] = j
                    /\ s[j][3] = IF Active THEN "plain" ELSE "raw"

\* A line feed is the last byte of its line.
LineFeeds == {j \in DOMAIN rx : IsLine(sent[rx[j][1]]) /\ rx[j][2] = sent[rx[j][1]].total}

Idle == work' = FALSE /\ UNCHANGED <<sent, tcp, rx, rxHaveLen, in, state, handled>>
Closes == state' = "CLOSED" /\ UNCHANGED <<sent, tcp, rx, rxHaveLen, in, work, handled>>

\* No whole line yet: wait, or give up on one that is too long.
PartialLine ==
    /\ work /\ state = "VERSION" /\ LineFeeds = {}
    /\ IF Len(rx) >= LineMax THEN Closes ELSE Idle

\* The unit has been handled, the buffer's first n bytes are dropped.
LineDone(n) ==
    /\ handled' = Append(handled, Unit)
    /\ rx' = SubSeq(rx, n + 1, Len(rx))
    /\ UNCHANGED <<sent, tcp, rxHaveLen, in, work>>

\* A whole line, however long: SSH 2.0 ends the version exchange, another SSH version
\* the connection, anything else is skipped.  The version is copied without its LF or
\* CR LF; one that does not fit with its 0 overwrites what is behind clientVersion.
WholeLine ==
    /\ work /\ state = "VERSION" /\ LineFeeds # {}
    /\ LET n == CHOOSE j \in LineFeeds : \A i \in LineFeeds : j <= i
       IN \/ Unit.kind = "oldversion" /\ Closes
          \/ Unit.kind = "line" /\ LineDone(n) /\ UNCHANGED state
          \/ /\ Unit.kind = "version"
             /\ \E end \in {1, 2} :
                  IF Unit.total - end < VersionBuf
                    THEN LineDone(n) /\ state' = "PACKETS"
                    ELSE /\ state' = "SPOILT"
                         /\ UNCHANGED <<sent, tcp, rx, rxHaveLen, in, work, handled>>

First == IF Active THEN Block ELSE Clear

\* Too few bytes to know the packet's length.
NoHeader ==
    /\ work /\ state = "PACKETS" /\ ~rxHaveLen /\ Len(rx) < First
    /\ Idle

\* The length is read, its block deciphered in place; a length that is out of range
\* ends the connection, as does one that is unreadable (at the latest by the MAC).
Header ==
    /\ work /\ state = "PACKETS" /\ ~rxHaveLen /\ Len(rx) >= First
    /\ LET s == IF Active THEN Deciphered(rx, 1, Block, in.pos) ELSE rx
       IN IF Readable(s, 1, Clear) /\ Unit.total <= MaxPacket
            THEN /\ rx' = s /\ rxHaveLen' = TRUE
                 /\ in' = IF Active THEN [in EXCEPT !.pos = @ + Block] ELSE in
                 /\ UNCHANGED <<sent, tcp, state, work, handled>>
            ELSE Closes

Need == Unit.total + MacLen[in.key]

\* Mutant: one byte more is waited for.
Whole_OneMore == Len(rx) > Need
Whole == Len(rx) >= Need

NotAll ==
    /\ work /\ state = "PACKETS" /\ rxHaveLen /\ ~Whole
    /\ Idle

\* The keys' state once packet u has been handled; NEWKEYS takes the next keys and
\* goes on counting packets (ApplyNewKeys).
\* Mutant: the new keys go on where the old key stream stood.
After_PosKept(u) ==
    [key |-> in.key + (IF u.kind = "newkeys" THEN 1 ELSE 0),
     pos |-> in.pos + (IF Active THEN u.total - Block ELSE 0), seq |-> in.seq + 1]
After(u) ==
    IF u.kind = "newkeys" THEN [key |-> in.key + 1, pos |-> 0, seq |-> in.seq + 1]
    ELSE [in EXCEPT !.pos = @ + (IF Active THEN u.total - Block ELSE 0), !.seq = @ + 1]

\* The rest is deciphered, the MAC checked, the packet handled and taken from the
\* buffer.  A packet that is not as it was sealed fails the MAC.
Packet ==
    /\ work /\ state = "PACKETS" /\ rxHaveLen /\ Whole
    /\ LET u == Unit
           s == IF Active THEN Deciphered(rx, Block + 1, u.total, in.pos) ELSE rx
           intact == /\ Readable(s, 1, u.total) /\ u.key = in.key /\ u.seq = in.seq
                     /\ \A j \in (u.total + 1)..Need : s[j] = <<s[1][1], j, "raw">>
       IN IF Active /\ ~intact THEN Closes
          ELSE /\ handled' = Append(handled, u)
               /\ in' = After(u)
               /\ rx' = SubSeq(s, Need + 1, Len(s))
               /\ rxHaveLen' = FALSE
               /\ UNCHANGED <<sent, tcp, state, work>>

TryProcessOne == PartialLine \/ WholeLine \/ NoHeader \/ Header \/ NotAll \/ Packet

Next == ClientSends \/ Read \/ TryProcessOne

Spec == Init /\ [][Next]_vars
\* The caller goes on to poll.
FairSpec == Spec /\ WF_vars(Read) /\ WF_vars(TryProcessOne)

----------------------------------------------------------------------------
\* The state has its shape and the buffer never overflows.
TypeOK ==
    /\ Len(rx) <= RxBuf /\ \A j \in DOMAIN rx : rx[j] \in Byte
    /\ rxHaveLen \in BOOLEAN /\ work \in BOOLEAN
    /\ state \in {"VERSION", "PACKETS", "CLOSED", "SPOILT"}
    /\ in \in [key : Nat, pos : Nat, seq : Nat]

\* The buffer never stands full of bytes that nothing can be done with: however the
\* stream is cut, the packet it begins with fits, its MAC included (SSH_RX_BUF).
RoomLeft == ~work => Len(rx) < RxBuf

\* The promise of PacketStream.tla: every cut of the stream gives the same packets, and
\* the same lines up to LineMax bytes.
Stream == INSTANCE PacketStream WITH over <- Over
ImplementsStream == Stream!Spec

\* What has been sent is handled some day, unless the connection has ended or spoilt.
AllHandled == \A n \in 1..MaxUnits : Len(sent) >= n ~> Len(handled) >= n \/ Over
=============================================================================
