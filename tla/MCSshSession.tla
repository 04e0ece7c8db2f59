---------------------------- MODULE MCSshSession ----------------------------
(* The model checker's bound for runs of SshSession in which the server may   *)
(* send without end.                                                          *)
EXTENDS SshSession

\* BOUND: packets under way to the client.
WireBound == Len(s2c) <= 3
=============================================================================
