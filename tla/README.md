# TLA+ models and proofs for the UEFI SSH Shell server

The program (`src/files`) is an SSH server that runs before an operating system
does: a UEFI application that accepts one client at a time, logs it in with a
password and hands it a nested UEFI Shell whose console is the SSH channel. There
are no threads. What makes it hard is that every blocking call (`SshAccept`,
`SshWrite`, `SshClose`) runs the protocol itself while it waits, that the Shell and
the client each do what they like in between, and that the client may start a key
exchange, close, or vanish at any point of this.

## The system

| part | state it keeps | operations | interacts with |
| --- | --- | --- | --- |
| SSH connection (`ssh.c`) | `SSH_CONN`: connection and key exchange states, keys and sequence numbers of both directions, log-in, channel, input ring, windows | `SshAccept`, `SshPoll`, `SshRead`, `SshWrite`, `SshClose`; one handler per message in `HandlePacket` | the client through `NetRead`/`NetWrite`; called by the main loop and the console shim |
| TCP connection (`net.c`) | listener and connection handles, one pending receive token, its buffer | `NetListenStart`, `NetAccept`, `NetRead`, `NetWrite`, `NetCloseConn` | firmware TCP4 driver (tokens and events) |
| Console shim (`ConsoleShim.c`) | key ring, escape/UTF-8 decoder, notifications, `Disconnected`, count of injected exits; cursor, size, output buffer; saved console pointers | `SimpleTextIn(Ex)` and `SimpleTextOut` calls, `ShimInstall`, `ShimRemove` | the Shell calls it; it calls `SshRead`, `SshWrite`, `SshPoll`, and the old console |
| Main loop (`SshShellServer.c`) | configuration, accept failures | `EfiMain`, `CheckPassword`, `LaunchShell` | all of the above; starts the Shell image |
| Runtime (`uefirt.c`) | globals, random number state | `RtAlloc`, `RtTimedOut`, `Print`, entropy, C library | firmware |

The rest is declarations (`uefi.h`, `include/`), configuration (`config.h`,
`user_settings.h`, `hostkey.h`), build files and a desktop test harness (`test/`).

What makes each part correct, and what is hard about it:

* **Input of the SSH connection.** However TCP cuts the stream, every packet is handled
  once and whole, and none waits for bytes that do not fit the buffer. Hard: two packets
  in one read with other keys from the second on; the block that is decrypted early.
* **SSH connection.** Keys of both directions change at the right packet, over any
  number of exchanges, while the session goes on. Nothing of log-in or session
  happens in the clear or before a password. The credit given to the client never
  exceeds the room in the ring, and none is lost. After a close nothing more is sent.
  Calls return. Hard: a rekey at any moment, also inside `SshWrite` and `SshClose`; a
  guessed key exchange; a send that fails half-way through a handler.
* **TCP connection.** A token is never reused or left behind while it is pending; an
  accepted child handle is never lost. Hard: an accept that completes while it is
  being cancelled; a driver that does not answer a cancel.
* **Console shim.** Keys come out as typed; a Ctrl-C is heard; the cursor the Shell
  reads is the user's; when the client vanishes the Shell ends and the machine gets
  its keyboard back. Hard: the vanishing is noticed by whichever of input and output
  comes first, and the Shell may be anywhere.
* **Main loop.** The console pointers are restored on every path; one session's
  failure does not end the server. Hard: errors at each step of a session.
* **Runtime.** Timeouts happen with or without a working clock, and not before their time.

`PROJECT.json` lists the hazards of this code one by one, with the line of each and
the property that covers it, or why none does.

## Modules

| module | models | uses |
| --- | --- | --- |
| `SshConn` | `ssh.c`: every handler and call, against a client that may send anything | instantiates `RemoteLogin` |
| `RemoteLogin` | what a connection promises its caller (abstract) | |
| `SshSession` | the connection, a conformant client and the TCP stream between them | extends `SshConn` |
| `MCSshSession` | a bound on the packets under way, for one run | extends `SshSession` |
| `SshRx` | `ProcessInput` and `TryProcessOne`: lines and packets out of bytes | instantiates `PacketStream` |
| `PacketStream` | units handled once, whole and in order (abstract); what `SshConn` and `SshSession` take for granted | |
| `MCSshRx` | the MAC lengths of the run | extends `SshRx` |
| `TcpConn` | `net.c`: listener, accept, read, write and close, against a TCP4 driver | |
| `Server` | `EfiMain`, `LaunchShell`, `ShimInstall`, `ShimRemove` around `net.c` | extends `TcpConn`, instantiates `Service` |
| `Service` | what the server promises its clients and the machine (abstract) | |
| `Clock` | `RtNow` and `RtTimedOut` of `uefirt.c` | |
| `KeyDecoder` | `FeedByte`, `HandleCsi`, `HandleSs3`, `FlushEsc` as pure operators | |
| `ConsoleInput` | the input side of the shim, the Shell around it, the client's vanishing | extends `KeyDecoder` |
| `ConsoleOutput` | the cursor of the shim beside that of the terminal | |
| `MCConsoleOutput` | the terminal sizes of the run | extends `ConsoleOutput` |
| `SshConn_proofs`, `SshRx_proofs`, `Server_proofs`, `ConsoleInput_proofs`, `ConsoleOutput_proofs`, `Clock_proofs` | theorems about the module of that name, and that it implements its abstract one | extends it |
| `SshSession_proofs` | theorems about both ends of a connection and the packets between them | extends `SshSession`, `SshConn_proofs` |
| `SshExchange_proofs` | theorems about the key exchange between both ends | extends `SshSession_proofs` |

### SshConn

Variables have the names of the fields of `SSH_CONN`. `pc` says which API call is
under way and `unsent` what `SshWrite` still has to send. Each `Recv...` action is the
handling of one packet, with everything the handler sends (`tx`, the packets the last
step put on the wire) and every error path. A handler gives up where the code does:
the parameter `o` says what becomes of its sends, which are sent, fail locally (random
generator or MAC: the connection stays open) or fail on the network (it closes).
`ProcessInput` is entered from `SshAccept`, `SshRead`, `SshPoll`, `SshWrite` and
`SshClose`; `Reading` says in which `pc` that is, so a packet is handled only where the
code can handle one. `Acceptable` and `KexExpected` are the guards of the dispatch.

Data is abstracted to what matters: keys are generation numbers (`inKeys`, `outKeys`,
`pendKeys`, made by `kexNo`), a packet records the key it is sealed with, a string of
terminal data its length. The client of `SshConn` is unconstrained: any message with any
argument, at any time.

### SshSession

Adds two queues of packets and a client that does what RFC 4253, 4252 and 4254 allow and
the README supports: it may guess the key exchange rightly or wrongly, try wrong
passwords, type within its window, grant window, rekey, send EOF, close, or leave.
A server step is a step of `SshConn` on the packet at the head of the queue (`Handle`).

### SshRx and PacketStream

`rx` is `c->rx` up to `rxLen`, as a sequence of bytes, each of which knows the unit (line or
packet) it belongs to, its place there, and whether it is still as it came, rightly
deciphered, or spoilt. `Deciphered` is AES-CTR: a byte comes out right if it is deciphered
once, with the keys it was sealed with, at the position of their key stream where it was
enciphered. So a packet whose first block was deciphered twice, or before a change of keys
took effect, is spoilt and fails its MAC. `Read` is the `NetRead` of `ProcessInput`;
`PartialLine`, `WholeLine`, `NoHeader`, `Header`, `NotAll` and `Packet` are the ways
`TryProcessOne` ends, and `work` says whether the inner loop goes on. The client sends
good and bad units and the network delivers any prefix of what is under way.

The code asks for the length of a line only while the line is incomplete (`ssh.c:1139`). So a
line of more than `LineMax` bytes ends the connection (`PartialLine`) if a read ends behind
its 255th byte and before its line feed, and is otherwise handled however long it is (`WholeLine`); a
version longer than `clientVersion` is copied over what stands behind it (1155-1157), state
`SPOILT`. `PacketStream` calls such a line good and bad, and promises nothing after it has
gone badly; for all other units the answer does not depend on the cut.

### TcpConn

`conn` is the `NET_CONN`, `listen` is `mListenHandle`, `at` and `ret` say in which wait the
running call is and what the last call returned. A call is split at its waits only:
`NetListenStart` (`configuring`), `NetAccept` (`accepting`, `aborting`), `NetWrite`
(`writing`, `cancelling`), `NetCloseConn` (`cancelRx`, `closing`, and `destroying` between the
closing of its events and `DestroyChild`, where the driver may still run); `NetRead` does not wait.
The driver is external: `tok` holds each completion token as the driver sees it, `children`
the TCP4 children, `newChild` the handle it has put in the accept token. It completes a token
well or badly at any time, or never. `stuck` remembers tokens whose `Cancel` the driver did
not answer within the time the code waits. The close token has no `Cancel`: after 3 s its event
is closed (`net.c:324`) and the driver keeps the token until `DestroyChild` (333). These are the two
cases in which the code gives up on a token, and `NoDanglingToken` names both. The bytes of both directions are
numbers, so that order, gaps and repetition show.

### Server and Service

`pc` is where `EfiMain` is. `table` says whose console each of the six fields of the system
table names, `shim.Old` what `ShimInstall` saved, `crc` the table `FixCrc` last summed. `ssh`
abstracts the connection of `SshConn` to what the main loop sees of it: it works, it is
`ST_CLOSED`, or there is none; `SshReads`, `SshWrites` and `SshEnds` may happen wherever
`ssh.c` or the shim's flush runs, and once `net.c` has answered "lost" nothing more is
asked of it, as `ClosedIsFinal` of `SshConn` says. `TryImage` is one round of
`LaunchShell`'s search. Failures of every call that can fail are alternatives of its action.
`Service` is the flow in the comment at the head of `SshShellServer.c`, with the client's
bytes; `Phase` reads its state off the server's.

### Clock

One wait: the calendar goes on by seconds, `Spin` is one `Stall` with the test of
`RtTimedOut`, whose reading of the clock may fail each time. `Seconds` is `RtNow`'s
arithmetic. `sameMonth` is a history variable.

### ConsoleInput and KeyDecoder

A byte is a representative of its class (ESC, `[`, `O`, a final byte, a digit, Ctrl-C, CR,
LF, DEL, the UTF-8 leads, a continuation). `PumpInput` is one step, because nothing
interrupts it: it feeds every byte that has arrived, notices that the client has gone,
or flushes an escape that timed out. `Pumped(full, late)` is what it leaves. Its callers
`WaitKeyNotify`, `ReadKey` and `CommandReadsKey` differ in who takes a key afterwards.
The Shell is external: it waits for `WaitForKey`, reads one key, gathers a line, leaves on
`exit`, and runs commands that may read keys, flush the input (`InReset`) and end.
`OutputFails` is any output call that finds the connection gone or timed out.

Three history variables say what should have been heard. `decoder.unended` counts the lines the
client's characters have ended (a CR, or an LF whose last character before it was no CR, after
`decoder.last`) less the Enters delivered. `unheard` counts the Ctrl-C keys decoded while a handler is
registered less those it heard; a Ctrl-C byte inside an open CSI is part of the sequence and no key.
`breakDue` is set when a command with a handler registered prints to a client that has
vanished, and output is the first to notice.

### ConsoleOutput

`cur` is `Mode.CursorColumn`, `Mode.CursorRow` and `PendingWrap`; `size` is `Cols`, `Rows`.
One action per kind of character of `ShimOutputString` and per call of the protocol. The
terminal (`term`) is xterm, after the comment at the head of `ConsoleShim.c`, written
separately from the shim's rules. `agreed` is a history variable: false since the last
event after which the two may differ by nature (a resize, a vertical tab, a tab in the
last column), true again once the screen is cleared or the cursor placed with both sides
of one size.

## Runs

| run | question | bounds |
| --- | --- | --- |
| `conn` | do the connection's safety properties hold against any client? | 2 password tries, window 2, ring 3, reads and chunks of 1 byte, data and grants of 2, arithmetic mod 4, 2 exchanges |
| `session` | do both ends stay consistent? | window 4, ring 7, 5 bytes typed, 3 written, 1 rekey, every guess, failed writes, timeouts |
| `login` | does log-in finish, do calls return, does input go on without a rekey? | as `session` with 4 bytes typed, no faults or timeouts, fairness |
| `starve` | does input go on with a rekey? violated | 1 rekey |
| `exit` | does a rekey stay undisturbed by `SshClose`? violated | 1 rekey |
| `zeropkt` | does `SshWrite` return when packets may hold 0 bytes? violated | 3 packets under way |
| `rx` | does every cut of the stream give the same lines and packets, overlong lines apart? | 5 lines and packets, lines of 3 and 5 bytes (limit 3, room for a version 4), packets of 2, 4 and 6 (limit 4), header 1 in the clear and 2 enciphered, MACs of 0, 1 and 2 |
| `server` | do sessions follow each other with nothing left over or lost? | 2 child handles, 2 accept failures end the server, 2 attempts to configure, a receive of 2 bytes, chunks of 1, 2 bytes each way per client, 2 images |
| `clock` | is a wait never told too early that it has timed out? violated | a day of 12 s, 2 spins a second, limit 3 s, 4 years |
| `shim_input` | keys, breaks, and the end of a session whose client vanished | 4 bytes typed, ring 4, 4 exits injected, escape buffer 4 |
| `shim_break` | does a break come before the injected exit? violated | as `shim_input` |
| `shim_output` | is the Shell's cursor the user's? | three terminal sizes, the smallest below what the shim believes |

Why the bounds are enough. Rings, windows and limits are reached and passed in each run:
4 bytes typed use up a window of 4 and need an adjustment (due at half the window, as in
the code); a ring of 4 is full with 3 keys and receives a fourth; window arithmetic wraps
at the modulus (4, 8) within a few grants; the second key exchange is where every key
variable has an old and a new value, and a third repeats the second. In `conn` the calls
and handlers interleave freely. The decoder's longest interesting input is an escape
that is cut short, replayed and opens another, which 4 bytes show. `shim_output` has no
bound but the sizes. In `rx` five units are a line, the version, a packet and two NEWKEYS,
or the version and three NEWKEYS with a packet among them, all of which may lie in the
buffer at once; a packet length lies on each side of the limit. A line of 3 bytes is never refused; one
of 5 is refused, handled or spoils the memory behind `clientVersion`, by its cut and by whether a CR stands before its LF. In `server` two handles let a child
be lost while another is used; there is no bound on the number of clients, since nothing
counts them; a write of two chunks, a read in two pieces and a limit of two failures each
have a first, a last and a one-too-many. What these bounds leave open the theorems of
`SshRx_proofs` and `Server_proofs` close.
`e` and `t` stand for the letters of `exit`; the code's ring (256) and count (40) are
constants of the model. `MaxEaten` stops a counter, not the Shell: a command may go on
reading keys.

What the runs show:

* `KeysInStep`, `SecuredFirst`, `ShellNeedsPassword`, `SealedSession`, `KeepsPromise`:
  however a client orders its messages, keys, log-in and session come in their order,
  and wrong passwords are limited.
* `ClosedIsFinal`, `SilentAfterClose`, `DataWaitsForKeys`: handlers and calls that go on
  after a failed send or a handled CLOSE change and send nothing they should not.
* `KeysMatchStream`: each packet under way is sealed with the keys its receiver will
  have when its turn comes. `InputCreditConserved`, `NoInputLost`,
  `OutputCreditConserved`: window credit and bytes are conserved across both ends.
  `NeverRejected`: a conformant client is not thrown out.
* `ShellStarts`, `WritesReturn`, `CloseReturns`, `InputResumesUnlessRekeyed`: progress.
* `RoomLeft`, `ImplementsStream`, `AllHandled`: the buffer is never full of a packet that is
  not whole, packets are handled once and in order under the right keys, and whatever has
  been sent is handled, unless a bad unit comes first. What becomes of a line over the limit
  the cut decides; the properties allow each outcome.
* `NoDanglingToken`: the driver never holds a token on a frame that has returned, but for two
  cases the property names: a driver that ignores a `Cancel`, and a close token not answered within
  3 s, until `DestroyChild`. That `DestroyChild` gives tokens back is taken for granted.
* `NoChildLost`: no TCP child is forgotten, but for one the property excepts: a connection that
  comes while the accept is being aborted (`net.c:152`) stays with the driver as the program ends.
* `CleanBetweenClients`, `ConsoleBacked`, `ImplementsService`: after any failure of a session
  the next client finds nothing of the last, and the machine its own console.
  `WaitsEnd`, `MakesRoom`: the waits of `net.c` end and a lost client makes room.
* `LineEndsKept`: CR, LF and CR LF give one Enter each, over reads, timeouts of an escape and
  resets. It allows one loss, since `LastWasCr` outlives escapes and UTF-8 characters: after a CR
  and an arrow key, an LF typed for its own sake is swallowed (`ConsoleShim.c:519`).
* `CtrlCHeard`, `EscapeResolves`: a decoded Ctrl-C is heard though the ring is full, whichever form
  (`Forms`: the letter in the run, either in the theorem) its handler is registered in, and an
  open escape does not stay open. `ExitLineIntact`, `ShellExits`,
  `NeverWithoutKeyboard`: the end of a session whose client has vanished.
* `CursorAgrees`: the shim's rules for wrap, tab and backspace are the terminal's.

Five runs find the code at odds with what it says of itself:

* `starve`: `SshRead` returns before its window-adjust check when the ring is empty
  (`ssh.c:1439`). An adjustment that was due while a client's rekey was running is then
  never sent, and a client that has used up its window can never type again.
* `exit`: `SshClose` (`ssh.c:1516`) does not look at the key exchange and sends exit status,
  EOF and CLOSE in the middle of one, though it is called safe in any state.
* `zeropkt`: with a maximum packet size of 0 `SshWrite` (`ssh.c:1491`) sends empty
  packets without end.
* `shim_break`: a command registers a handler for Ctrl-C, the client vanishes, and the command's
  output is the first to notice: `Disconnected` is set without `FireBreak` (`ConsoleShim.c:27`,
  118), the command's next read has `exit` typed (539), and its break never comes (against the
  comment at 336).
* `clock`: `RtNow` counts every month as 31 days (`uefirt.c:37`). At the end of a shorter month
  it goes ahead by one to three days within a second, and a wait in progress times out
  at once (against `uefirt.h:28` and `31`).

The runs with `CHECK_DEADLOCK FALSE`: `ConsoleInput` may stop when the Shell has left and the
session is over; `Server` stops by design (quit key, accept failures); `SshRx` stops when the
client has sent its `MaxUnits` or the connection is closed; `Clock`'s one wait ends.

## Fairness

`SshSession`: the client finishes what it has begun and reads its socket, but need not
type, rekey or close. The server's caller keeps reading (the Shell polls its keyboard) and
its calls go on. `ServerReceives` is strongly fair: a packet that has arrived is handled by
the next `ProcessInput`, though no call is inside `ProcessInput` all the time.
`ConsoleInput`: the Shell at its prompt goes on waiting and reading, a command ends, an open
escape is found late some day (the clock moves), and somebody presses a key once the
screen says that the keyboard is live. `SshRx`: the caller goes on polling; the client need not send.
`Server`: a wait with a limit goes on some day, because `RtTimedOut` counts its own spins and
so ends with a clock that is broken, too; the main loop goes on; a Shell whose client is lost
ends, which is what `ShellExits` of `ConsoleInput` shows of the exit the shim types for it.
Nothing is assumed of the driver or the client of `Server`.
No fairness is assumed of `SshSession`'s timeouts,
of the client's window in `conn`, or of the client of `ConsoleInput`.

## Proofs

Each module of theorems assumes what the `ASSUME` of its module says of the constants, and
nothing else (`Clock_proofs`: that day, pace and limit are positive, stated with each lemma).

`SshConn_proofs`, for all windows, ring and packet sizes, numbers of tries and sets of
requests, and any number of key exchanges:

| theorem | states |
| --- | --- |
| `TypeCorrect` | `Spec => []TypeOK` |
| `KeysAlwaysInStep`, `AlwaysSecuredFirst`, `ShellAlwaysNeedsPassword`, `SessionAlwaysSealed` | the four safety invariants |
| `ClosedStaysFinal`, `ChannelSilentAfterClose`, `DataAlwaysWaitsForKeys` | the three action properties |
| `PromiseKept` | `Spec => KeepsPromise`: `SshConn` implements `RemoteLogin` under the mapping `stage <- Stage`, `refused <- authTries`, `over <- (state = "CLOSED")` |

The inductive invariant is `Safe`, the conjunction of `TypeOK`, `Fresh`, `KeysInStep`,
`SecuredFirst` and `ShellNeedsPassword`. None of its safety parts is inductive alone:
that a channel is opened only after a password needs the state to be `CONN`, which is only
reached under keys, which are only switched when the exchange is in step; `Fresh` says
that before `SshAccept` starts nothing has happened yet. The proof has one step per
handler and call; a handler's step is first split by what becomes of its sends. The
refinement follows from `Safe` in the same way: each step of `SshConn` is one step of
`RemoteLogin` or a stutter.

`SshSession_proofs`, for all windows, packet sizes, numbers of bytes and of rekeys, every
`Faults` (any send may fail locally or close the connection at any time) and all timeouts:

| theorem | states |
| --- | --- |
| `SessionTypeTheorem` | `SessionSpec => []SessionTypeOK`; the types are where the work is: `cl.win <= Window` says that the server never grants more than was read, `cl.grant >= 0` that `SshWrite` never overruns the client's window |
| `InputCreditTheorem` | `SessionSpec => []InputCreditConserved` |
| `NoInputLostTheorem` | `SessionSpec => []NoInputLost`: `RingPush` never drops a byte |
| `OutputCreditTheorem` | `SessionSpec => []OutputCreditConserved`; `remoteWindow` does not wrap |

Two assumptions on the constants are needed and are in `SessionAssumption`:
`SSH_LOCAL_WINDOW` is no larger than the ring (`Window <= RingCap`) and below 2^32, as
`ssh.c:61-62` has it. The inductive invariant is `Sound`: the types, `Queued` (what kinds of packets
a conformant client and this server put in the queues) and `Flow`, the conjunction of five
parts. `CreditIn` and `CreditOut` say what the two credits add up to before the channel opens, while
it is open, and after the connection has closed, when packets may vanish; alone they are not
inductive, since a second CHANNEL_OPEN would start the credit anew and data before the
channel would have none. `Conversing` therefore bounds requests and replies under way by what
the client waits for (one CHANNEL_OPEN or its confirmation, and only in `open-wait`), and
`Progressing` ties how far the server is to how far the client is (the Shell's calls run only
once the channel is open). The sums over a queue are functions defined by recursion on its
length; what appending and taking a packet does to them is proved by the least counterexample
(`LeastOf`, from `WFMin`), since an induction theorem cannot be instantiated. A step of the
client or the server then is one of a few kinds: it moves no packet of interest (`FlowAside`,
`IdleFlows`), answers a request (`ServerReplies`), or moves credit from one term of the sum to
another.

`SshExchange_proofs`, for the same constants as long as `"local" \notin Faults`:

| theorem | states |
| --- | --- |
| `KeysMatchTheorem` | `SessionSpec => []KeysMatchStream` |
| `NeverRejectedTheorem` | `SessionSpec => NeverRejected` |

The hypothesis is needed: a `SendPacket` that fails inside the server (the random generator,
the HMAC or AES) returns -1 and leaves the connection open. After the KEXDH_REPLY of `DoKexDh`
it leaves half an exchange on the wire: the client switches its keys, the server does not and
rejects the client's NEWKEYS. TLC finds both properties violated within two dozen
steps once `"local"` is in `Faults`. A send that closes the connection is allowed.

The inductive invariant is `Agreed`, `Sound` with `Exchange`. `Exchange` reads the progress of the
running exchange at both ends as numbers (`AskedUp`: the client's KEXINIT is sent and not yet
used up, `Waiting`: the server awaits KEXDH_INIT, `Skips`: it drops the packet a wrong guess
announced, ...), so that an equation each can say that what one end has sent the
other has used or will receive (`Upstream`, `Downstream`): two rekeys that cross and a
guess that races the server's KEXINIT are then the same case as the rest. That is not enough for the
packets' keys: `InOrderUp` and `InOrderDown` add that within a queue an exchange's packets stand
in their order and every packet is sealed with its receiver's keys plus the NEWKEYS before
it (`Ordered`, with lemmas on what taking the first packet and appending keep of it). `NeverRejected`
follows because the packet at the head of the queue forces the server's state: a KEXINIT there
means that no NEWKEYS is under way and none is awaited, a KEXDH_INIT that every guess is
settled, a request that the client is in the step that sends it (`TakesAcceptable`).

`Server_proofs`, for any set of handles, buffer, chunk, number of attempts, failures and
candidate images, and any number of clients (`MaxIn` and `MaxOut`, the bounds of the bytes
per connection, may be any numbers):

| theorem | states |
| --- | --- |
| `TypeTheorem` | `Spec => []TypeOK`, which bounds the failures counted and what `NetRead` takes |
| `TokenTheorem` | `Spec => []NoDanglingToken` |
| `ChildTheorem` | `Spec => []NoChildLost` |
| `CleanTheorem` | `Spec => []CleanBetweenClients` |
| `ConsoleTheorem` | `Spec => []ConsoleBacked` |
| `ServiceTheorem` | `Spec => ImplementsService`: `Server` implements `Service` |

The inductive invariant is `IInv`: `TypeOK`, `NoDanglingToken` and four parts the properties
need beneath them. `Control` says in which waits of `net.c` each place of `EfiMain` can be,
so that `StopServer` cannot meet a session's token. `Owned` says when there are a
connection, an SSH connection and the shim, and that what the shim has saved is the
machine's own console: without it `ShimRemove` would give back anything. `Wired` ties events
and tokens to the connection's fields: a receive token is held only while no bytes are
left, an event exists only in the frame that closes it. `Accounted` follows the accept token
from the driver to the child it reports. The actions of `net.c` that share a piece
(`EventsClosed`, `CloseStart`, `Transmits`, `Taken`) share a lemma on what it leaves behind.

For the refinement `Counted` joins `IInv`: the bytes received are `1..n` in order, and what the buffer or the driver's token still holds
are the numbers that come next (`CountedIn`); the bytes that went out likewise, with the
chunk of the running `NetWrite` next (`CountedOut`); and outside a connection all
counts are 0 (`CountedAnew`). Each step is then one step of `Service` or leaves `Phase`, `got`
and `out` alone.

`ConsoleInput_proofs`, for every size of the ring, of the escape buffer and of the table of
notifications, all classes of bytes and any number of them: `InputTypeTheorem`,
`LineEndsTheorem`, `CtrlCTheorem` and `ExitLineTheorem` (`Spec => []TypeOK`, `[]LineEndsKept`,
`[]CtrlCHeard`, `[]ExitLineIntact`). The invariant `IInv` adds two things to them. `Sane`: the
decoder remembers a carriage return (`LastWasCr`) exactly while it is the last character
(`Paired`), so that a line feed is swallowed there and nowhere else. `Alone`: the line is typed only once `Disconnected` is set, and the ring then holds
one of its `Rests`; without the first half, keys of the client could follow the line. The
decoder and the ring work through sequences, so the argument rests on `RanKeeps`: what the
start satisfies and each element keeps, the end of a run satisfies (by a least
counterexample, as induction is out of reach). With it `FeedBytesSane` says that any bytes
leave a sane decoder, and `PushKeysRing` that a ring which drops keys still tells every
handler of every Ctrl-C.

`ConsoleOutput_proofs`, for all sets of terminal sizes, all sizes the shim believes or falls
back to and every tab width: `CursorTypeTheorem` (`Spec => []TypeOK`) and `CursorTheorem`
(`Spec => []CursorAgrees`). `CursorAgrees` is inductive only with the rest of `Together`: while
the cursors agree the sizes do, too, and a wrap is due only in the last column. `Fits`, that
the shim's size has its last cell among those it may believe in, keeps the cursor in its type
after a resize has made it stale. The lemmas `TabStopsAgree`, `SameLinefeed`, `SamePrintable`
state what the shim's arithmetic and the terminal's own rules have in common.

`SshRx_proofs`, for all lengths of lines, packets, MACs, blocks and buffer, and any number of
units and changes of keys:

| theorem | states |
| --- | --- |
| `RxTypeTheorem` | `Spec => []TypeOK`: no read writes behind `c->rx` |
| `RoomTheorem` | `Spec => []RoomLeft` |
| `StreamTheorem` | `Spec => ImplementsStream`: `SshRx` implements `PacketStream` |

`RxAssumption` says of the lengths what the code does: the limit of a line is within a packet's room
(255 and `SSH_MAX_PACKET`) and within `clientVersion` (256), while a line may be of any length; a length can be read from the block that is deciphered first, and no packet is
shorter than that block, since `rxPktLen` is at least 5 and with its four bytes a multiple of 8
or 16 (`ssh.c:1182`). The invariant `IInv` looks at the buffer and the socket as one sequence of
bytes, `rx \o tcp`. `Streamed` says that it consists of the units sent and not yet handled, each
byte with its unit whole around it (`Framed`) and each unit followed by the next (`Joined`); put in
terms of places and neighbours it needs no sum of lengths, which would take an induction. The
client adds a unit (`UnitAdded`), a read moves the border between buffer and socket (`Moved`), a
handled unit is taken from the front (`UnitTaken`), deciphering moves nothing (`StreamedStays`).
`Spelled` says which bytes have been deciphered: the first block once its length is read,
and none else. `Keyed` ties the keys, the place in their stream and the sequence number to the
last unit handled, so that they fit the one that is due (`DueUnit`). It follows that a first line
feed ends the line that is due (`LineEnds`), that a length is always readable (`HeaderInv`) and
that a whole packet always passes its MAC (`Intact`), also when it lies behind a NEWKEYS in the
same read; what closes the connection is then a bad unit and nothing else. A line within the
limit is never refused, since all the bytes of an incomplete line belong to it (`PartialLineInv`), and
always fits `clientVersion` (`WholeLineInv`).

`Clock_proofs`: `NeverEarlyTheorem`, `Spec => []NeverEarlyInMonth`, for every limit, pace and length
of day. Within a month `RtNow` counts exactly the seconds that have begun (`InStep`), and
spins are no more than those seconds allow (`Paced`). Run `clock` shows why the month matters.

Every safety invariant, action property and refinement a passing run checks is also a theorem.
Only model-checked are the liveness properties, which are out of the proof system's reach,
and the violations of the runs that expect one.

## Not modelled

* The cryptography itself: a packet is sealed with a key or it is not, and a spoilt one fails
  its MAC.
* How long a timeout takes, outside `Clock`: it may fire whenever its call waits. That
  `SshAccept`'s idle time starts again with each byte is therefore not visible.
* What a version line that overruns `clientVersion` overwrites: `SshRx` stops there (`SPOILT`).
* UTF-8 sequences longer than they need be, in `KeyDecoder`: the code makes a key of a four-byte
  one that stands for less than U+10000, and a control key of one that stands for a control
  character; in the model the first is no key and the second the class `utf8`.
* Two ends that disagree after a `SendPacket` that failed before it sent anything
  (`ssh.c:432`): `SshConn` models the failure and keeps its own properties; those of both ends
  are checked and proved without it.
* The cursor between a resize and the next time screen or cursor is set: `CursorAgrees`
  says nothing of it, `TypeOK` bounds it.
* `ParseArgs`, `CheckPassword`'s comparison and the making of device paths: sequential functions
  of their input, none of which keeps state. What they can fail with is modelled.
* What `EfiMain` leaves allocated when one of its first allocations fails, as the
  program ends there.
* A quit key that is typed on the machine's keyboard during a session stays in the
  keyboard's buffer and stops the server at the next accept: modelled (`quitKey` of `TcpConn`),
  but no property says whether it should.
* An exit status `EFI_NOT_FOUND` of the Shell, which starts the next image: modelled likewise
  (`ShellExits` of `Server`).
* The shim's output buffer and what is mirrored on the local screen; the width of characters
  other than one column.
* Printing, allocation, entropy and the C library of `uefirt.c`, the declarations, the build
  files and the test harness, which hold no protocol state.

## Plan

Done: every part of the system with state of its own, from bytes to console, with the two
compositions that matter (`SshSession`: both ends of a connection; `Server`: sessions one after
the other) and proofs of `SshConn`, `SshSession`, `SshRx`, `Server` with `TcpConn`, `ConsoleInput`, `ConsoleOutput` and
`Clock`. What could follow:

1. `Server` with the whole of `SshConn` in place of `ssh`, to check the one assumption `Server`
   makes of it where both run; the state space of the product is the obstacle.
2. The shim's output buffer with `Flush` at each of its callers.
