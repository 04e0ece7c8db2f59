------------------------------ MODULE Server ------------------------------
(***************************************************************************)
(* The main loop of src/files/SshShellServer.c with the calls it makes:    *)
(* the TCP connection of TcpConn.tla, the SSH connection as far as it uses *)
(* that (SshConn.tla has the rest), ShimInstall and ShimRemove of          *)
(* ConsoleShim.c, and the search for a Shell.  Any call may fail.          *)
(*                                                                         *)
(* The system table's six console fields are table; crc is the table its   *)
(* checksum was last computed for.  ssh.c reads and writes whenever it     *)
(* runs: in SshAccept, under the Shell, in the shim's flushes, in SshWrite *)
(* and SshClose.  Once a read or a write has answered "lost" it is         *)
(* ST_CLOSED and calls net.c no more (ClosedIsFinal of SshConn.tla).       *)
(***************************************************************************)
EXTENDS TcpConn

CONSTANTS
    MaxFailures,    \* accept failures in a row that end the server (5)
    ShellPath,      \* is there a -s path?
    OwnFiles,       \* candidate files beside the program, 0 if it has no path (2)
    FixedFiles      \* candidate files at fixed places (7)

ASSUME ServerAssumption ==
    /\ MaxFailures \in Nat \ {0}
    /\ ShellPath \in BOOLEAN /\ OwnFiles \in Nat /\ FixedFiles \in Nat

VARIABLES
    pc,         \* where EfiMain is
    failures,
    ssh,        \* the SSH_CONN: "none", "open" or "closed" (ST_CLOSED)
    table,      \* whose console each field of the system table names
    crc,        \* the table of the last FixCrc
    shim,       \* [Installed, Old: the fields saved, Protocols: on its handle]
    cand,       \* the candidate LaunchShell is at
    running,    \* has it started the image?
    status      \* what LaunchShell returned

main == <<pc, failures, ssh, table, crc, shim, cand, running, status>>
vars == <<tcpVars, main>>

Fields == {"ConIn", "ConOut", "StdErr", "ConsoleInHandle", "ConsoleOutHandle",
           "StandardErrorHandle"}
Local == [f \in Fields |-> "local"]
WaitEvents == {"WaitForKey", "WaitForKeyEx"}

\* The images LaunchShell tries: the -s path, the firmware volumes, the files.
Candidates ==
    (IF ShellPath THEN <<"file">> ELSE <<>>) \o <<"volume">>
    \o [i \in 1..(OwnFiles + FixedFiles) |-> "file"]

Init ==
    /\ TcpInit
    /\ pc = "start" /\ failures = 0 /\ ssh = "none"
    /\ table = Local /\ crc = Local
    /\ shim = [Installed |-> FALSE, Old |-> Local, Protocols |-> FALSE]
    /\ cand = 1 /\ running = FALSE /\ status = "ok"

----------------------------------------------------------------------------
\* Start and end.

\* Wrong arguments or no memory end the program, else it goes on to listen.
Start ==
    /\ pc = "start"
    /\ \/ pc' = "stopped" /\ UNCHANGED tcpVars
       \/ pc' = "listen" /\ ListenStart
    /\ UNCHANGED <<failures, ssh, table, crc, shim, cand, running, status>>

Listening ==
    /\ pc = "listen" /\ at = "idle"
    /\ pc' = IF ret = "ok" THEN "loop" ELSE "stopped"
    /\ UNCHANGED <<tcpVars, failures, ssh, table, crc, shim, cand, running, status>>

CallAccept ==
    /\ pc = "loop" /\ pc' = "accept" /\ AcceptStart
    /\ UNCHANGED <<failures, ssh, table, crc, shim, cand, running, status>>

\* ESC or q, or too many failures: NetListenStop and out of the loop.
StopServer ==
    /\ pc = "accept" /\ at = "idle"
    /\ ret = "aborted" \/ (ret = "error" /\ failures + 1 >= MaxFailures)
    /\ pc' = "stopped"
    /\ failures' = IF ret = "error" THEN failures + 1 ELSE failures
    /\ ListenStopped
    /\ UNCHANGED <<call, conn, events, newChild, quitKey, stream, ssh, table, crc, shim,
                   cand, running, status>>

\* Mutant: one failure too many is forgiven.
AcceptAgain_OneMore ==
    /\ pc = "accept" /\ at = "idle" /\ ret = "error" /\ failures + 1 <= MaxFailures
    /\ pc' = "loop" /\ failures' = failures + 1
    /\ UNCHANGED <<tcpVars, ssh, table, crc, shim, cand, running, status>>

AcceptAgain ==
    /\ pc = "accept" /\ at = "idle" /\ ret = "error" /\ failures + 1 < MaxFailures
    /\ pc' = "loop" /\ failures' = failures + 1
    /\ UNCHANGED <<tcpVars, ssh, table, crc, shim, cand, running, status>>

----------------------------------------------------------------------------
\* A session.

\* SshNew, which may fail: the connection is closed.
NewSession ==
    /\ pc = "accept" /\ at = "idle" /\ ret = "ok"
    /\ failures' = 0
    /\ \/ pc' = "login" /\ ssh' = "open" /\ UNCHANGED tcpVars
       \/ pc' = "disconnect" /\ CloseConn /\ UNCHANGED ssh
    /\ UNCHANGED <<table, crc, shim, cand, running, status>>

\* ssh.c still works: no state closed, no read or write lost.
SshUsable == ssh = "open" /\ ret # "lost"

\* Where ssh.c may be running.  ShimInstall flushes before the first candidate.
SshRuns == \/ pc \in {"login", "removing", "message", "closing"}
           \/ pc = "shell" /\ (running \/ cand = 1)

SshReads ==
    /\ SshRuns /\ SshUsable
    /\ \E max \in 1..RxSize : NetRead(max)
    /\ UNCHANGED main

SshWrites ==
    /\ SshRuns /\ SshUsable
    /\ \E n \in 1..(MaxOut - asked) : NetWrite(n)
    /\ UNCHANGED main

\* A protocol error, a timeout or a DISCONNECT: ST_CLOSED.
SshEnds ==
    /\ SshRuns /\ SshUsable /\ at = "idle"
    /\ ssh' = "closed"
    /\ UNCHANGED <<tcpVars, pc, failures, table, crc, shim, cand, running, status>>

\* SshAccept returns 0 only for a connection that works, -1 for any.
LoggedIn ==
    /\ pc = "login" /\ at = "idle"
    /\ \/ SshUsable /\ pc' = "install"
       \/ pc' = "closing"
    /\ UNCHANGED <<tcpVars, failures, ssh, table, crc, shim, cand, running, status>>

\* An event or the protocols cannot be had: what was made is undone.
InstallFails ==
    /\ pc = "install" /\ pc' = "closing"
    /\ shim' = [Installed |-> FALSE, Old |-> Local, Protocols |-> FALSE]
    /\ UNCHANGED <<tcpVars, failures, ssh, table, crc, cand, running, status>>

ShimInstall ==
    /\ pc = "install" /\ pc' = "shell"
    /\ events' = events \cup WaitEvents
    /\ shim' = [Installed |-> TRUE, Old |-> table, Protocols |-> TRUE]
    /\ table' = [f \in Fields |-> "shim"] /\ crc' = table'
    /\ cand' = 1 /\ running' = FALSE /\ status' = "ok"
    /\ UNCHANGED <<call, listen, conn, driver, quitKey, stream, failures, ssh>>

\* LaunchShell returns r.
Launched(r) == pc' = "removing" /\ status' = r /\ running' = FALSE /\ UNCHANGED cand

NextCandidate == cand' = cand + 1 /\ running' = FALSE /\ UNCHANGED <<pc, status>>

\* One candidate is looked for.  The search ends with the list, or before it begins
\* when the program cannot find its own image; and at a file that is there but cannot
\* be loaded.
TryImage ==
    /\ pc = "shell" /\ ~running /\ at = "idle"
    /\ \/ cand \in {1, Len(Candidates) + 1} /\ Launched("error")
       \/ /\ cand <= Len(Candidates)
          /\ \/ NextCandidate
             \/ Candidates[cand] = "file" /\ Launched("error")
             \/ running' = TRUE /\ UNCHANGED <<pc, cand, status>>
    /\ UNCHANGED <<tcpVars, failures, ssh, table, crc, shim>>

\* The Shell's exit status goes through the same test as the search's: EFI_NOT_FOUND
\* moves on to the next image.
ShellExits ==
    /\ pc = "shell" /\ running /\ at = "idle"
    /\ NextCandidate \/ \E r \in {"ok", "error"} : Launched(r)
    /\ UNCHANGED <<tcpVars, failures, ssh, table, crc, shim>>

\* Mutant: one field is not given back.
ShimRemove_KeepsStdErr ==
    /\ pc = "removing" /\ at = "idle"
    /\ table' = [shim.Old EXCEPT !["StdErr"] = "shim"] /\ crc' = table'
    /\ shim' = [shim EXCEPT !.Installed = FALSE, !.Protocols = FALSE]
    /\ events' = events \ WaitEvents
    /\ pc' = IF status = "error" THEN "message" ELSE "closing"
    /\ UNCHANGED <<call, listen, conn, driver, quitKey, stream, failures, ssh, cand,
                   running, status>>

\* ShimRemove, after its flush; then the message for a Shell that did not start.
ShimRemove ==
    /\ pc = "removing" /\ at = "idle"
    /\ table' = shim.Old /\ crc' = table'
    /\ shim' = [shim EXCEPT !.Installed = FALSE, !.Protocols = FALSE]
    /\ events' = events \ WaitEvents
    /\ pc' = IF status = "error" THEN "message" ELSE "closing"
    /\ UNCHANGED <<call, listen, conn, driver, quitKey, stream, failures, ssh, cand,
                   running, status>>

MessageSent ==
    /\ pc = "message" /\ at = "idle" /\ pc' = "closing"
    /\ UNCHANGED <<tcpVars, failures, ssh, table, crc, shim, cand, running, status>>

\* SshClose returns, SshFree, NetCloseConn.
SessionEnds ==
    /\ pc = "closing" /\ pc' = "disconnect"
    /\ ssh' = "none" /\ CloseConn
    /\ UNCHANGED <<failures, table, crc, shim, cand, running, status>>

Disconnected ==
    /\ pc = "disconnect" /\ at = "idle" /\ pc' = "loop"
    /\ UNCHANGED <<tcpVars, failures, ssh, table, crc, shim, cand, running, status>>

MainLoop ==
    \/ Start \/ Listening \/ CallAccept \/ StopServer \/ AcceptAgain \/ NewSession
    \/ LoggedIn \/ InstallFails \/ ShimInstall \/ TryImage \/ ShimRemove
    \/ MessageSent \/ SessionEnds \/ Disconnected

Next ==
    \/ MainLoop \/ SshReads \/ SshWrites \/ SshEnds \/ ShellExits
    \/ (Waiting \/ Driver) /\ UNCHANGED main

Spec == Init /\ [][Next]_vars

(***************************************************************************)
(* A call that waits with a limit goes on some day, because RtTimedOut     *)
(* counts its own spins; the main loop goes on; and a Shell whose client   *)
(* has gone ends, because the shim types exit for it (ShellExits of        *)
(* ConsoleInput.tla).  Nothing is assumed of the driver or the client.     *)
(***************************************************************************)
Fairness ==
    /\ WF_vars(Waiting /\ UNCHANGED main)
    /\ WF_vars(MainLoop)
    /\ WF_vars(ShellExits /\ ~SshUsable)

FairSpec == Spec /\ Fairness

----------------------------------------------------------------------------
\* State and types: no accept failure is counted past the limit, no read goes past
\* what the driver delivered.
MainTypeOK ==
    /\ pc \in {"start", "listen", "loop", "accept", "login", "install", "shell", "removing",
               "message", "closing", "disconnect", "stopped"}
    /\ failures \in 0..MaxFailures
    /\ ssh \in {"none", "open", "closed"}
    /\ table \in [Fields -> {"local", "shim"}] /\ crc \in [Fields -> {"local", "shim"}]
    /\ shim \in [Installed : BOOLEAN, Old : [Fields -> {"local", "shim"}], Protocols : BOOLEAN]
    /\ cand \in 1..(Len(Candidates) + 1) /\ running \in BOOLEAN /\ status \in {"ok", "error"}
    /\ events \subseteq Tokens \cup WaitEvents

TypeOK == CallTypeOK /\ DriverTypeOK /\ ConnTypeOK /\ StreamTypeOK /\ MainTypeOK

\* Where the memory of a token is alive: the frame of its call, or the NET_CONN while
\* it remembers that the token is posted.
InUse(k) ==
    \/ k = "accept" /\ at \in {"accepting", "aborting"}
    \/ k = "tx" /\ at \in {"writing", "cancelling"}
    \/ k = "close" /\ at = "closing"
    \/ k = "rx" /\ conn.RxPosted

\* The driver never holds a token whose frame has returned or whose event is closed:
\* NetAccept, NetWrite and NetCloseConn keep their tokens on the stack.  There are two
\* exceptions: a token whose Cancel it has ignored for as long as the code waits, and
\* the close token, which nobody cancels: when Close is not answered within 3 s the
\* driver holds it, its event closed (net.c:324), until DestroyChild (net.c:333).
NoDanglingToken == \A k \in Tokens : tok[k] = "held" =>
    \/ k \in events /\ InUse(k)
    \/ k \in stuck
    \/ k = "close" /\ at = "destroying"

\* Every child of the driver is the listener, the connection or the one an accept token
\* still reports.  Only a connection that comes while NetAccept is being aborted stays
\* behind, and then the server stops.
NoChildLost ==
    children \subseteq {listen, conn.Handle}
        \cup (IF tok["accept"] = "done" \/ ret = "aborted" THEN {newChild} ELSE {})

\* When the server waits for a client or has stopped, nothing of the last session is
\* left: no connection, event, token or protocol, and the machine has its console.
CleanBetweenClients ==
    pc \in {"loop", "stopped"} \/ at = "accepting" =>
        /\ ~conn.Tcp /\ ssh = "none" /\ ~shim.Protocols
        /\ events \subseteq {"accept"} /\ table = Local
        /\ \A k \in Tokens \ {"accept"} : tok[k] = "free"

\* A field of the system table names the shim only while there is everything the shim
\* works on: its protocols and events, the SSH connection and TCP under it; and the
\* checksum is that of the table.
ConsoleBacked ==
    /\ crc = table
    /\ (\E f \in Fields : table[f] = "shim") =>
         shim.Protocols /\ WaitEvents \subseteq events /\ ssh # "none" /\ conn.Tcp

\* The promise of Service.tla, with the phase read off the server's state: one client at
\* a time, the console its own while it is served, its bytes in order and without a gap
\* also over timeouts, failed writes and the next client.
Phase ==
    IF pc = "stopped" THEN "stopped"
    ELSE IF \E f \in Fields : table[f] = "shim" THEN "redirected"
    ELSE IF conn.Tcp THEN "serving" ELSE "waiting"

Promise == INSTANCE Service WITH
    MaxStep <- RxSize + ChunkSize, phase <- Phase, received <- got, sent <- out

ImplementsService == Promise!Spec

\* The waits of net.c end, whatever the driver does, also NetAccept's once a key asks
\* for the end of the server.
WaitsEnd == at \in Timed \/ (at = "accepting" /\ quitKey) ~> at = "idle"

\* A client that is lost makes room for the next: the session is taken down to its
\* last piece.
MakesRoom == ssh # "none" /\ ~SshUsable ~> ssh = "none" /\ ~conn.Tcp
=============================================================================
