----------------------------- MODULE KeyDecoder -----------------------------
(***************************************************************************)
(* The escape-sequence, UTF-8 and line-end decoder of ConsoleShim.c: how   *)
(* the bytes of the channel become the keys the Shell reads.               *)
(*                                                                         *)
(* A byte is a representative of its class:                                *)
(*   "ESC" "[" "O" "A" "~" "1" "^C" "CR" "LF" "DEL"  themselves            *)
(*   "z"      any other printable byte (a final byte of a CSI sequence)    *)
(*   "lead1" "lead2" "lead3"   a UTF-8 lead byte that wants 1..3 more      *)
(*   "cont"   a continuation byte 0x80..0xBF                               *)
(* A decoder is a record: the fields of CONSOLE_SHIM it works on, the keys *)
(* decoded and not yet pushed (out), and two histories that no code reads. *)
(* The bytes outside every escape and UTF-8 sequence are characters: last  *)
(* is the last of them, unended the lines they have ended less the times   *)
(* Enter has been decoded.                                                 *)
(***************************************************************************)
EXTENDS Integers, Sequences, SequencesExt

CONSTANT EscMax     \* sizeof(S->Esc), 24 in the code

ASSUME EscMaxAssumption == EscMax \in Nat /\ EscMax > 2

Bytes == {"ESC", "[", "O", "A", "z", "~", "1", "^C", "CR", "LF", "DEL",
          "lead1", "lead2", "lead3", "cont"}

\* The bytes that end a CSI sequence, 0x40..0x7E.
Finals == {"[", "O", "A", "z", "~"}

Keys == (Bytes \ {"ESC", "LF", "DEL", "lead1", "lead2", "lead3"}) \cup
        {"SCAN_ESC", "UP", "HOME", "F1", "BS", "utf8", "e", "t"}

Decoder == [esc : Seq(Bytes), need : 0..3, astral : BOOLEAN, lastWasCr : BOOLEAN,
            out : Seq(Keys), last : Bytes \cup {"none"}, unended : Int]

NewDecoder == [esc |-> <<>>, need |-> 0, astral |-> FALSE, lastWasCr |-> FALSE,
               out |-> <<>>, last |-> "none", unended |-> 0]

\* PushKey for the decoder: "none" is SCAN_NULL of an unknown sequence.
Decoded(d, k) ==
    [d EXCEPT !.out = IF k = "none" THEN @ ELSE Append(@, k),
              !.unended = IF k = "CR" THEN @ - 1 ELSE @]

\* HandleCsi: the key of a complete ESC [ ... sequence.
CsiKey(esc) ==
    LET digits == SubSeq(esc, 3, Len(esc) - 1)
    IN  CASE Last(esc) = "A" -> "UP"
          [] Last(esc) = "~" /\ digits = <<"1">> -> "HOME"
          [] Last(esc) = "~" /\ digits = <<"1", "1">> -> "F1"
          [] OTHER -> "none"

Ss3Key(b) == IF b = "A" THEN "UP" ELSE "none"

\* A line of characters ends at a carriage return, and at a line feed that does not
\* follow one.
EndsLine(last, b) == b = "CR" \/ (b = "LF" /\ last # "CR")

\* Character b has been met.
Met(d, b) ==
    [d EXCEPT !.last = b, !.unended = IF EndsLine(d.last, b) THEN @ + 1 ELSE @]

\* Mutant: a character after the carriage return does not clear the flag.
FeedChar_FlagKept(d, b) ==
    CASE b = "CR" -> Decoded([d EXCEPT !.lastWasCr = TRUE], "CR")
      [] b = "LF" /\ d.lastWasCr -> [d EXCEPT !.lastWasCr = FALSE]
      [] b = "LF" /\ ~d.lastWasCr -> Decoded(d, "CR")
      [] OTHER -> Decoded(d, IF b = "DEL" THEN "BS" ELSE b)

\* A character.  Escapes, UTF-8 sequences and resets leave LastWasCr alone.
FeedChar(d, b) ==
    CASE b = "CR" -> Decoded([d EXCEPT !.lastWasCr = TRUE], "CR")
      [] b = "LF" /\ d.lastWasCr -> [d EXCEPT !.lastWasCr = FALSE]
      [] b = "LF" /\ ~d.lastWasCr -> Decoded(d, "CR")
      [] OTHER -> Decoded([d EXCEPT !.lastWasCr = FALSE], IF b = "DEL" THEN "BS" ELSE b)

\* A byte that starts something: no escape and no UTF-8 sequence is open.
FeedFresh(d, b) ==
    CASE b = "lead1" -> [d EXCEPT !.need = 1, !.astral = FALSE]
      [] b = "lead2" -> [d EXCEPT !.need = 2, !.astral = FALSE]
      [] b = "lead3" -> [d EXCEPT !.need = 3, !.astral = TRUE]
      [] OTHER -> FeedChar(Met(d, b), b)

\* FeedByte with no escape open.
FeedPlain(d, b) ==
    CASE b = "ESC" -> [d EXCEPT !.esc = <<b>>]
      [] b = "cont" /\ d.need > 0 ->
            Decoded([d EXCEPT !.need = @ - 1],
                    IF d.need = 1 /\ ~d.astral THEN "utf8" ELSE "none")
      [] OTHER -> FeedFresh([d EXCEPT !.need = 0], b)

\* FeedByte inside an escape: e is the buffer with the byte added.
FeedEscape(d, b) ==
    LET e == Append(d.esc, b)
        closed == [d EXCEPT !.esc = <<>>]
    IN  CASE Len(e) = 2 /\ b \in {"[", "O"} -> [d EXCEPT !.esc = e]
          [] Len(e) = 2 /\ b \notin {"[", "O"} ->
                FeedPlain(Decoded(closed, "SCAN_ESC"), b)
          [] Len(e) > 2 /\ e[2] = "O" -> Decoded(closed, Ss3Key(b))
          [] Len(e) > 2 /\ e[2] = "[" /\ b \in Finals ->
                Decoded(closed, CsiKey(e))
          [] OTHER -> [d EXCEPT !.esc = IF Len(e) >= EscMax THEN <<>> ELSE e]

FeedByte(d, b) == IF d.esc = <<>> THEN FeedPlain(d, b) ELSE FeedEscape(d, b)

\* A sequence of bytes, one after another.
FeedBytes(start, bs) ==
    LET feed == [x \in Decoder \X Bytes |-> FeedByte(x[1], x[2])]
        fed[i \in 0..Len(bs)] == IF i = 0 THEN start ELSE feed[<<fed[i - 1], bs[i]>>]
    IN  fed[Len(bs)]

\* FlushEsc: deliver ESC itself and replay the rest as plain bytes.
FlushEsc(d) ==
    FeedBytes(Decoded([d EXCEPT !.esc = <<>>], "SCAN_ESC"), Tail(d.esc))

\* ShimInReset's part: LastWasCr is not among what it clears.
ResetDecoder(d) == [d EXCEPT !.esc = <<>>, !.need = 0]
=============================================================================
