--------------------------- MODULE PacketStream ---------------------------
(***************************************************************************)
(* What SshConn.tla and SshSession.tla assume of the way packets reach     *)
(* their handlers: each unit the client sends (a line or a packet) is      *)
(* handled once, whole and in order, however TCP cuts the bytes, and only  *)
(* a bad unit ends the connection.  A unit may be good and bad: then the   *)
(* answer depends on the cut, and nothing is promised after a bad one.     *)
(* SshRx.tla implements it (ImplementsStream there).                       *)
(***************************************************************************)
EXTENDS Naturals, Sequences, SequencesExt

CONSTANTS
    Good(_),    \* may the unit be handled?
    Bad(_)      \* may it end the connection?

VARIABLES
    sent,       \* units the client has sent
    handled,    \* units handled
    over        \* the connection has ended, or a bad unit has done worse

vars == <<sent, handled, over>>

Init == sent = <<>> /\ handled = <<>> /\ over = FALSE

Send == sent' # <<>> /\ Front(sent') = sent /\ UNCHANGED <<handled, over>>

Handle ==
    /\ ~over /\ Len(handled) < Len(sent)
    /\ LET u == sent[Len(handled) + 1]
       IN /\ Good(u)
          /\ handled' = Append(handled, u)
    /\ UNCHANGED <<sent, over>>

Reject ==
    /\ ~over /\ Len(handled) < Len(sent) /\ Bad(sent[Len(handled) + 1])
    /\ over' = TRUE /\ UNCHANGED <<sent, handled>>

Next == Send \/ Handle \/ Reject

Spec == Init /\ [][Next]_vars
=============================================================================
