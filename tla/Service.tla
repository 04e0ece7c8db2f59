------------------------------ MODULE Service ------------------------------
(***************************************************************************)
(* What the server promises, after the flow in the comment at the head of  *)
(* src/files/SshShellServer.c: it serves one client at a time; a client is *)
(* served first and has the console only while it is served; the server    *)
(* goes on, or stops, only between clients.  What the client has typed     *)
(* comes in and what it is sent goes out in order, without a gap, and each *)
(* client's bytes are its own.                                             *)
(* Server.tla implements it (ImplementsService there).                     *)
(***************************************************************************)
EXTENDS Naturals, Sequences

CONSTANT MaxStep    \* the most bytes one step moves

VARIABLES
    phase,      \* waiting, serving, redirected (the client has the console), stopped
    received,   \* numbers of the client's bytes that were read, in order of reading
    sent        \* numbers of the bytes that went out to the client

vars == <<phase, received, sent>>

Init == phase = "waiting" /\ received = <<>> /\ sent = <<>>

\* s with its next n numbers.
Longer(s, n) == s \o [i \in 1..n |-> Len(s) + i]

Admit == phase = "waiting" /\ phase' = "serving" /\ UNCHANGED <<received, sent>>

Redirect == phase = "serving" /\ phase' = "redirected" /\ UNCHANGED <<received, sent>>

GiveBack == phase = "redirected" /\ phase' = "serving" /\ UNCHANGED <<received, sent>>

Dismiss == phase = "serving" /\ phase' = "waiting" /\ received' = <<>> /\ sent' = <<>>

Stop == phase = "waiting" /\ phase' = "stopped" /\ UNCHANGED <<received, sent>>

Receive ==
    /\ phase \in {"serving", "redirected"}
    /\ \E n \in 1..MaxStep : received' = Longer(received, n)
    /\ UNCHANGED <<phase, sent>>

Send ==
    /\ phase \in {"serving", "redirected"}
    /\ \E n \in 1..MaxStep : sent' = Longer(sent, n)
    /\ UNCHANGED <<phase, received>>

Next == Admit \/ Redirect \/ GiveBack \/ Dismiss \/ Stop \/ Receive \/ Send

Spec == Init /\ [][Next]_vars
=============================================================================
