---------------------------- MODULE ConsoleInput ----------------------------
(***************************************************************************)
(* The input side of the console shim (ConsoleShim.c): the key ring, the   *)
(* key notifications, the WaitForKey event, and what happens to the Shell  *)
(* when its SSH client vanishes.                                           *)
(*                                                                         *)
(* The Shell is external.  It waits on WaitForKey, reads one key, gathers  *)
(* a line, runs it, and leaves on "exit"; a command it runs may read keys  *)
(* of its own, and ends.  It runs at application level, so no operation of *)
(* the shim interrupts another: WaitForKey's notify function runs only     *)
(* when somebody checks the event.                                         *)
(***************************************************************************)
EXTENDS KeyDecoder, FiniteSets

CONSTANTS
    KeyRing,        \* SHIM_KEY_RING, 256: one slot always stays free
    MaxNotify,      \* SHIM_MAX_NOTIFY, 16
    MaxInjects,     \* SHIM_EXIT_INJECT_MAX, 40
    Forms,          \* the forms of Ctrl-C the Shell registers, a subset of BreakForms
    TypedBytes,     \* the classes of bytes the client types
    MaxTyped,       \* BOUND: bytes the client types
    MaxEaten        \* BOUND: keys a command reads are counted up to here

\* The two forms of Ctrl-C a notification may be registered for: the control
\* code and the letter with the Control key.
BreakForms == {"^C", "^c"}

\* What InjectExit types: "e" and "t" stand for the letters of "exit".
ExitLine == <<"e", "t", "CR">>

ASSUME InputAssumption ==
    /\ KeyRing \in Nat /\ KeyRing > Len(ExitLine)   \* the line fits in the ring
    /\ MaxNotify \in Nat \ {0} /\ MaxInjects \in Nat \ {0}
    /\ Forms \subseteq BreakForms
    /\ TypedBytes \subseteq Bytes /\ MaxTyped \in Nat /\ MaxEaten \in Nat


VARIABLES
    typed,          \* how many bytes the client has typed
    wire,           \* bytes SshRead has for the shim
    gone,           \* SshRead fails once they are read: the client has left
    decoder,        \* Esc, EscLen, Utf8Acc, Utf8Need, LastWasCr
    keys,           \* Keys[KeyTail..KeyHead-1]
    notify,         \* Notify[]: the key registered, or "free"
    disconnected, exitInjects,
    breakDue,       \* history: a command printed to a vanished client, and the
                    \* handler it registered has not been given a break since
    unheard,        \* history: Ctrl-C typed for a registered handler that missed it
    signalled,      \* WaitForKey has been signalled
    shell,          \* the Shell: "prompt", "command", "exited"
    line,           \* what it has gathered of the next line
    eaten,          \* keys its commands have read
    local           \* a key of the machine's own keyboard: "none", "pressed", "read"

shim == <<decoder, keys, disconnected, exitInjects, breakDue, unheard>>
vars == <<typed, wire, gone, shim, notify, signalled, shell, line, eaten, local>>

Init ==
    /\ typed = 0 /\ wire = <<>> /\ gone = FALSE
    /\ decoder = NewDecoder
    /\ keys = <<>>
    /\ notify = [i \in 1..MaxNotify |-> "free"]
    /\ disconnected = FALSE /\ exitInjects = 0
    /\ breakDue = FALSE /\ unheard = 0
    /\ signalled = FALSE
    /\ shell = "prompt" /\ line = <<>> /\ eaten = 0 /\ local = "none"
-----------------------------------------------------------------------------
(* Keys and notifications *)

Registered(forms) == \E i \in DOMAIN notify : notify[i] \in forms

\* A key that finds the ring full is dropped before anybody hears of it.
PushKey_RingFirst(r, k) ==
    IF Len(r.keys) = KeyRing - 1 THEN r
    ELSE [keys |-> Append(r.keys, k),
          heard |-> r.heard + IF k = "^C" /\ Registered(BreakForms) THEN 1 ELSE 0]

\* The ring is never found full.
PushKey_Unbounded(r, k) ==
    [keys |-> Append(r.keys, k),
     heard |-> r.heard + IF k = "^C" /\ Registered(BreakForms) THEN 1 ELSE 0]

\* PushKey and PushKeyData: notifications first, both forms of a control
\* character, then the ring, which drops the key when it is full.
PushKey(r, k) ==
    [keys |-> IF Len(r.keys) < KeyRing - 1 THEN Append(r.keys, k) ELSE r.keys,
     heard |-> r.heard + IF k = "^C" /\ Registered(BreakForms) THEN 1 ELSE 0]

PushKeys(r, ks) ==
    LET push == [x \in [keys : Seq(Keys), heard : Nat] \X Keys |-> PushKey(x[1], x[2])]
        pushed[i \in 0..Len(ks)] == IF i = 0 THEN r ELSE push[<<pushed[i - 1], ks[i]>>]
    IN  pushed[Len(ks)]

\* Without the look at the ring, the line is typed into the middle of another.
MayInject_Busy(ks) == exitInjects < MaxInjects

MayInject(ks) == ks = <<>> /\ exitInjects < MaxInjects

\* The counter is never advanced.
Injected_Uncounted(ks) ==
    IF MayInject(ks)
    THEN [keys |-> PushKeys([keys |-> ks, heard |-> 0], ExitLine).keys, n |-> exitInjects]
    ELSE [keys |-> ks, n |-> exitInjects]

\* The Enter is forgotten.
Injected_NoEnter(ks) ==
    IF MayInject(ks)
    THEN [keys |-> ks \o Front(ExitLine), n |-> exitInjects + 1]
    ELSE [keys |-> ks, n |-> exitInjects]

\* The keys and the count of InjectExit, from a ring that holds ks.
Injected(ks) ==
    IF MayInject(ks)
    THEN [keys |-> PushKeys([keys |-> ks, heard |-> 0], ExitLine).keys, n |-> exitInjects + 1]
    ELSE [keys |-> ks, n |-> exitInjects]
-----------------------------------------------------------------------------
(* PumpInput *)

\* The escape that timed out is never delivered.
LateFlush_Never(d, late) == d

LateFlush(d, late) == IF late /\ d.esc # <<>> THEN FlushEsc(d) ELSE d

\* What PumpInput leaves of the shim's state.  full says that the last SshRead
\* filled its buffer, so that another follows at once; late that the open
\* escape has timed out.
StillInjecting ==
    LET inj == Injected(keys)
    IN  [wire |-> wire, decoder |-> decoder, keys |-> inj.keys, n |-> inj.n,
         unheard |-> unheard, disconnected |-> TRUE, due |-> breakDue]

Reading(full, late) ==
    LET read == FeedBytes(decoder, wire)
        vanished == gone /\ (wire = <<>> \/ full)
        \* That the client has left is noticed before an escape's timeout.
        d == IF vanished THEN read ELSE LateFlush(read, late)
        r == PushKeys([keys |-> keys, heard |-> 0], d.out)
        inj == IF vanished THEN Injected(r.keys) ELSE [keys |-> r.keys, n |-> exitInjects]
        typedBreaks == Cardinality({i \in DOMAIN d.out : d.out[i] = "^C"})
    IN  [wire |-> <<>>, decoder |-> [d EXCEPT !.out = <<>>], keys |-> inj.keys, n |-> inj.n,
         unheard |-> unheard + (IF Registered(BreakForms) THEN typedBreaks ELSE 0) - r.heard,
         disconnected |-> vanished, due |-> breakDue /\ ~vanished]

Pumped(full, late) == IF disconnected THEN StillInjecting ELSE Reading(full, late)

\* p is what PumpInput left; ks are the keys still in the ring after its caller.
PumpInput(p, ks) ==
    /\ wire' = p.wire
    /\ decoder' = p.decoder
    /\ keys' = ks
    /\ disconnected' = p.disconnected
    /\ exitInjects' = p.n
    /\ breakDue' = p.due
    /\ unheard' = p.unheard
    /\ UNCHANGED <<typed, gone, notify>>

\* ShimWaitKeyNotify, while the Shell waits at its prompt: it looks at the
\* machine's own keyboard once the client has gone.
WaitKeyNotify(full, late) ==
    /\ shell = "prompt" /\ ~signalled
    /\ \E p \in {Pumped(full, late)} :
           /\ PumpInput(p, p.keys)
           /\ signalled' = (p.keys # <<>> \/ (p.disconnected /\ local = "pressed"))
    /\ UNCHANGED <<shell, line, eaten, local>>
-----------------------------------------------------------------------------
(* The Shell reads: ShimReadKey, ShimReadKeyEx *)

\* The line after key k: a beginning of "exit", or one that is not.  Keys that
\* edit the line are not used by this Shell.
Extended(k) ==
    CASE k \in {"SCAN_ESC", "UP", "HOME", "F1", "BS", "^C"} -> line
      [] IsStrictPrefix(Append(line, k), ExitLine) -> Append(line, k)
      [] OTHER -> <<"other">>

\* What the Shell does with key k at its prompt.
Gather(k) ==
    \/ /\ k # "CR"
       /\ line' = Extended(k)
       /\ UNCHANGED shell
    \/ /\ k = "CR"
       /\ line' = <<>>
       /\ shell' = CASE line = Front(ExitLine) -> "exited"
                     [] line = <<>> -> "prompt"
                     [] OTHER -> "command"

\* ReadCommon finds the ring empty: OldConIn is read if the client has gone.
LocalRead(p) == local' = IF p.disconnected /\ local = "pressed" THEN "read" ELSE local

\* ReadCommon at the prompt: a key of the ring, else one of the machine's own
\* keyboard if the client has gone, else EFI_NOT_READY.
ReadKey(full, late) ==
    /\ shell = "prompt" /\ signalled
    /\ signalled' = FALSE
    /\ \E p \in {Pumped(full, late)} :
           \/ /\ p.keys # <<>>
              /\ PumpInput(p, Tail(p.keys))
              /\ Gather(Head(p.keys))
              /\ UNCHANGED local
           \/ /\ p.keys = <<>>
              /\ PumpInput(p, p.keys)
              /\ LocalRead(p)
              /\ UNCHANGED <<shell, line>>
    /\ UNCHANGED eaten

\* ReadCommon called by the command that runs.
CommandReadsKey(full, late) ==
    /\ shell = "command"
    /\ \E p \in {Pumped(full, late)} :
           \/ /\ p.keys # <<>>
              /\ PumpInput(p, Tail(p.keys))
              /\ eaten' = IF eaten < MaxEaten THEN eaten + 1 ELSE eaten
              /\ UNCHANGED local
           \/ /\ p.keys = <<>>
              /\ PumpInput(p, p.keys)
              /\ LocalRead(p)
              /\ UNCHANGED eaten
    /\ UNCHANGED <<signalled, shell, line>>

CommandEnds ==
    /\ shell = "command"
    /\ shell' = "prompt"
    /\ UNCHANGED <<typed, wire, gone, shim, notify, signalled, line, eaten, local>>
-----------------------------------------------------------------------------
(* The other calls of the Shell *)

\* ShimInReset, by a command, or by the Shell before it waits for the first key
\* of a line.  The keys of the ring count as read by whoever resets.
InReset ==
    /\ shell = "command" \/ (shell = "prompt" /\ line = <<>> /\ ~signalled)
    /\ keys' = <<>>
    /\ decoder' = ResetDecoder(decoder)
    /\ eaten' = IF keys = <<>> \/ eaten = MaxEaten THEN eaten ELSE eaten + 1
    /\ UNCHANGED <<typed, wire, gone, disconnected, exitInjects, breakDue, unheard,
                   notify, signalled, shell, line, local>>

\* ShimRegisterNotify takes the first free entry, or is refused.
RegisterNotify(k) ==
    /\ shell # "exited"
    /\ \E i \in DOMAIN notify :
          /\ notify[i] = "free"
          /\ \A j \in DOMAIN notify : notify[j] = "free" => i <= j
          /\ notify' = [notify EXCEPT ![i] = k]
    /\ UNCHANGED <<typed, wire, gone, shim, signalled, shell, line, eaten, local>>

UnregisterNotify(i) ==
    /\ shell # "exited"
    /\ notify[i] # "free"
    /\ notify' = [notify EXCEPT ![i] = "free"]
    /\ UNCHANGED <<typed, wire, gone, shim, signalled, shell, line, eaten, local>>

\* ShimOutputString and the other output calls: SshPoll or SshWrite fails, on
\* a connection that is gone or on one that only timed out.
OutputFails ==
    /\ shell # "exited"
    /\ ~disconnected
    /\ disconnected' = TRUE
    /\ breakDue' = (gone /\ shell = "command" /\ Registered(BreakForms))
    /\ UNCHANGED <<typed, wire, gone, decoder, keys, exitInjects, unheard, notify,
                   signalled, shell, line, eaten, local>>
-----------------------------------------------------------------------------
(* The client *)

ClientTypes(b) ==
    /\ ~gone
    /\ typed < MaxTyped
    /\ typed' = typed + 1
    /\ wire' = Append(wire, b)
    /\ UNCHANGED <<gone, shim, notify, signalled, shell, line, eaten, local>>

\* It closes the channel, sends EOF or its connection is lost.
ClientVanishes ==
    /\ ~gone
    /\ gone' = TRUE
    /\ UNCHANGED <<typed, wire, shim, notify, signalled, shell, line, eaten, local>>

\* Somebody presses a key on the machine itself, told that its keyboard is live.
LocalKeyPressed ==
    /\ disconnected
    /\ local = "none"
    /\ local' = "pressed"
    /\ UNCHANGED <<typed, wire, gone, shim, notify, signalled, shell, line, eaten>>
-----------------------------------------------------------------------------
Next ==
    \/ \E full, late \in BOOLEAN :
          \/ WaitKeyNotify(full, late)
          \/ ReadKey(full, late)
          \/ CommandReadsKey(full, late)
    \/ CommandEnds
    \/ InReset
    \/ \E k \in Forms : RegisterNotify(k)
    \/ \E i \in DOMAIN notify : UnregisterNotify(i)
    \/ OutputFails
    \/ \E b \in TypedBytes : ClientTypes(b)
    \/ ClientVanishes
    \/ LocalKeyPressed

Spec == Init /\ [][Next]_vars

\* The Shell goes on reading at its prompt, and its commands end.  Time passes,
\* so that an open escape is found late some day, and whoever stands at the
\* machine presses a key.
FairSpec ==
    /\ Spec
    /\ WF_vars(\E full \in BOOLEAN : WaitKeyNotify(full, TRUE))
    /\ WF_vars(\E full, late \in BOOLEAN : ReadKey(full, late))
    /\ WF_vars(CommandEnds)
    /\ WF_vars(LocalKeyPressed)
-----------------------------------------------------------------------------
(* Properties *)

\* The ring never fills its last slot, an escape never outgrows its buffer, and
\* the decoder hands over every key it makes.
TypeOK ==
    /\ typed \in 0..MaxTyped
    /\ wire \in Seq(TypedBytes) /\ Len(wire) <= typed
    /\ gone \in BOOLEAN /\ disconnected \in BOOLEAN /\ breakDue \in BOOLEAN
    /\ decoder.esc \in Seq(Bytes) /\ Len(decoder.esc) < EscMax
    /\ decoder.need \in 0..3 /\ decoder.astral \in BOOLEAN /\ decoder.lastWasCr \in BOOLEAN
    /\ decoder.out = <<>>
    /\ decoder.last \in Bytes \cup {"none"} /\ decoder.unended \in Int
    /\ keys \in Seq(Keys) /\ Len(keys) < KeyRing
    /\ notify \in [1..MaxNotify -> Forms \cup {"free"}]
    /\ exitInjects \in 0..MaxInjects
    /\ unheard \in Int
    /\ signalled \in BOOLEAN /\ local \in {"none", "pressed", "read"}
    /\ shell \in {"prompt", "command", "exited"}
    /\ line \in Seq(Keys \cup {"other"}) /\ eaten \in 0..MaxEaten

\* Each line the client ends gives the Shell one Enter, whether its terminal sends
\* CR, LF or CR LF, and whichever reads, timeouts of an escape and resets come
\* between the two: no line feed is swallowed but one whose last character before
\* it was a carriage return, and every such one is (FeedByte).
\* Escapes and UTF-8 sequences are not characters here, for LastWasCr outlives
\* them: after CR and an arrow key a line feed typed for its own sake is lost, and
\* this property allows it.
LineEndsKept == decoder.unended = 0

\* A Ctrl-C reaches a handler registered in either of its two forms even when
\* the ring is full of keys nobody reads (PushKey, PushKeyData).
CtrlCHeard == unheard = 0

\* Once "exit" has been typed for the Shell, the ring holds what is left of one
\* such line and nothing else: neither the client's keys nor a second line can
\* spoil it (InjectExit).
ExitLineIntact == exitInjects > 0 => IsSuffix(keys, ExitLine)

\* When the client has vanished the Shell leaves, whatever half a line it had
\* gathered, unless its commands go on eating the keys typed for it.
ShellExits == disconnected ~> (shell = "exited" \/ eaten = MaxEaten)

\* The machine is never left without a keyboard: after the client has vanished
\* the Shell leaves or the local keyboard is read (the header comment of
\* ConsoleShim.c, ReadCommon, SHIM_EXIT_INJECT_MAX).
NeverWithoutKeyboard == disconnected ~> (shell = "exited" \/ local = "read")

\* An ESC pressed alone, or a sequence cut short, is delivered in the end: the
\* user's escape key is not kept waiting for bytes that never come.
EscapeResolves ==
    decoder.esc # <<>> ~> (decoder.esc = <<>> \/ disconnected \/ shell = "exited")

\* A running command gets a break when the client vanishes (the comment on
\* FireBreak): a command that has a handler registered, and whose output is the
\* first to meet the vanished client, hears it before the Shell is told to exit.
BreakBeforeExit == exitInjects > 0 => ~breakDue
=============================================================================
