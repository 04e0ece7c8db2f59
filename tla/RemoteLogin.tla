----------------------------- MODULE RemoteLogin -----------------------------
(***************************************************************************)
(* What an SSH connection promises the program that serves it, without the *)
(* protocol: a shell comes after an accepted password, a password is only  *)
(* looked at once both directions have keys, at most MaxTries wrong ones   *)
(* are refused, and a connection that is over stays as it is.  Any step    *)
(* may also be the connection's last.                                      *)
(* SshConn.tla implements it (KeepsPromise there).                         *)
(***************************************************************************)
EXTENDS Naturals

CONSTANT MaxTries   \* a positive number

VARIABLES
    stage,      \* clear, keyed, login (password accepted), shell (asked for)
    refused,    \* wrong passwords so far
    over        \* the connection has ended

vars == <<stage, refused, over>>

Init == stage = "clear" /\ refused = 0 /\ over = FALSE

Advance(from, to) ==
    /\ ~over /\ stage = from
    /\ stage' = to
    /\ over' \in BOOLEAN
    /\ UNCHANGED refused

GetKeys == Advance("clear", "keyed")
LogIn == Advance("keyed", "login")
OpenShell == Advance("login", "shell")

\* The last refusal ends the connection.
Refuse ==
    /\ ~over /\ stage = "keyed"
    /\ refused' = refused + 1
    /\ over' \in BOOLEAN /\ (refused' >= MaxTries => over')
    /\ UNCHANGED stage

End == ~over /\ over' = TRUE /\ UNCHANGED <<stage, refused>>

Next == GetKeys \/ LogIn \/ OpenShell \/ Refuse \/ End

Spec == Init /\ [][Next]_vars
=============================================================================
