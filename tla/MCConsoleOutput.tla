--------------------------- MODULE MCConsoleOutput ---------------------------
(* ConsoleOutput with three terminals: one too small to be believed, one as *)
(* small as the shim believes, one larger than the default.                 *)
EXTENDS ConsoleOutput

MCMinSize == [cols |-> 3, rows |-> 2]
MCDefaultSize == [cols |-> 4, rows |-> 2]
MCSizes == {[cols |-> 2, rows |-> 2], MCMinSize, [cols |-> 5, rows |-> 3]}
=============================================================================
