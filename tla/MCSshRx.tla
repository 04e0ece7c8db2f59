------------------------------ MODULE MCSshRx ------------------------------
(***************************************************************************)
(* SshRx with a MAC that gets longer at the second key exchange, as from   *)
(* hmac-sha2-256 to hmac-sha2-512.                                         *)
(***************************************************************************)
EXTENDS SshRx

MacLens == [k \in 0..MaxUnits |-> IF k > 2 THEN 2 ELSE k]
=============================================================================
