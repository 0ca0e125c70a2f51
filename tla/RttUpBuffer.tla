---------------------------- MODULE RttUpBuffer ----------------------------
(***************************************************************************)
(* Up-buffer 0 of RTT, a ring in memory that the program writes and the    *)
(* debugger reads at any moment, without stopping the processor.  Every    *)
(* printf of the program takes this way: SEGGER_RTT_printf collects        *)
(* characters in a buffer on the stack and hands them to SEGGER_RTT_Write. *)
(* The other operations on the ring write single characters, or text for   *)
(* one of the terminals the debugger shows: an escape character and the    *)
(* identifier of a terminal in the stream say whose text follows.          *)
(*                                                                         *)
(* Interrupts are locked out during a write, so the two actors are the     *)
(* program and the debugger.  Each step of the program reads the offset    *)
(* the debugger writes at most once, copies one piece of memory, or        *)
(* publishes its own offset.                                               *)
(***************************************************************************)
EXTENDS Integers, Sequences, FiniteSets, SequencesExt

CONSTANTS
    SizeOfBuffer,        \* BUFFER_SIZE_UP
    PRINTF_BUFFER_SIZE,  \* SEGGER_RTT_PRINTF_BUFFER_SIZE
    TERMINALS,           \* terminals, at most the elements of _aTerminalId
    MAX_LENGTH,          \* bound: characters of a printf
    MAX_TEXT,            \* bound: characters of a SEGGER_RTT_TerminalOut
    MAX_WRITES,          \* bound: calls that write
    MAX_MODE_CHANGES     \* bound: calls of SEGGER_RTT_SetFlagsUpBuffer

ASSUME RttAssumption ==
    /\ SizeOfBuffer \in Nat \ {0}
    /\ PRINTF_BUFFER_SIZE \in Nat \ {0}
    /\ TERMINALS \in 1 .. 16
    /\ MAX_LENGTH \in Nat
    /\ MAX_TEXT \in Nat
    /\ MAX_WRITES \in Nat
    /\ MAX_MODE_CHANGES \in Nat

\* The operating modes that exist: those that SEGGER_RTT.h names.
Modes == {"NO_BLOCK_SKIP", "NO_BLOCK_TRIM", "BLOCK_IF_FIFO_FULL"}

Offsets == 0 .. SizeOfBuffer - 1

Terminals == 0 .. TERMINALS - 1

VARIABLES
    pBuffer, WrOff, RdOff, Flags,   \* the ring
    ActiveTerminal,   \* the terminal of what is written without naming one
    pc,            \* what the program does next
    rest,          \* characters of the printf not yet collected
    acBuffer,      \* the characters collected
    todo,          \* the characters of the write not yet copied
    pieces,        \* what _WriteBlocking is called with after that
    status,        \* what the write will return
    wr,            \* the offset to be published
    writes,        \* writes begun
    changes,       \* mode changes left
    host,          \* the debugger: what it does next, and up to which offset
    received       \* the characters it has read

ring    == <<pBuffer, WrOff, RdOff, Flags>>
program == <<ActiveTerminal, pc, rest, acBuffer, todo, pieces, status, wr,
             writes>>
vars    == <<ring, program, changes, host, received>>

Text(n, terminal) == [k \in 1 .. n |-> [what |-> "text", to |-> terminal]]

\* The escape character 0xFF and the identifier of a terminal.
Switch(terminal) ==
    <<[what |-> "escape", to |-> terminal], [what |-> "id", to |-> terminal]>>

\* The characters of a write: its number, their place in it, the mode.
Chars(write, s, mode) ==
    [k \in DOMAIN s |-> [chunk |-> write, i |-> k, of |-> Len(s),
                         mode |-> mode, what |-> s[k].what, to |-> s[k].to]]

\* Memory that no one has written.
NoChar == [Chars(0, Text(1, 0), "NO_BLOCK_SKIP")[1] EXCEPT !.i = 0]

\* _DoInit
Init ==
    /\ pBuffer = [o \in Offsets |-> NoChar]
    /\ WrOff = 0
    /\ RdOff = 0
    /\ Flags = "NO_BLOCK_SKIP"
    /\ ActiveTerminal = 0
    /\ pc = "idle"
    /\ rest = 0
    /\ acBuffer = <<>>
    /\ todo = <<>>
    /\ pieces = <<>>
    /\ status = 0
    /\ wr = 0
    /\ writes = 0
    /\ changes = MAX_MODE_CHANGES
    /\ host = [pc |-> "idle", upto |-> 0]
    /\ received = <<>>
---------------------------------------------------------------------------
(***************************************************************************)
(* The program.                                                            *)
(***************************************************************************)

SEGGER_RTT_SetFlagsUpBuffer(mode) ==
    /\ pc = "idle"
    /\ changes > 0
    /\ changes' = changes - 1
    /\ Flags' = mode
    /\ UNCHANGED <<pBuffer, WrOff, RdOff, program, host, received>>

SEGGER_RTT_vprintf(length) ==
    /\ pc = "idle"
    /\ length <= (MAX_WRITES - writes) * PRINTF_BUFFER_SIZE
    /\ rest' = length
    /\ pc' = "store"
    /\ UNCHANGED <<ring, ActiveTerminal, acBuffer, todo, pieces, status, wr,
                   writes, changes, host, received>>

\* Characters are collected until the buffer is full or the printf ends.
StoreChar ==
    /\ pc = "store"
    /\ LET n == Min({rest, PRINTF_BUFFER_SIZE})
       IN  /\ acBuffer' = Chars(writes + 1, Text(n, ActiveTerminal), Flags)
           /\ rest' = rest - n
    /\ writes' = writes + 1
    /\ pc' = "write"
    /\ UNCHANGED <<ring, ActiveTerminal, todo, pieces, status, wr, changes,
                   host, received>>

\* After a number the spaces that pad it to its width are stored, even if the
\* buffer, filled by a digit, was not: the first of them finds it full and has
\* it written once more.
WriteAgain ==
    /\ acBuffer' =
          Chars(writes + 1, Text(Len(acBuffer), ActiveTerminal), Flags)
    /\ writes' = writes + 1
    /\ pc' = "write"

\* The locals of a call end with it.
Return == acBuffer' = <<>> /\ pc' = "idle" /\ UNCHANGED writes

\* SEGGER_RTT_Write has stored n characters: a printf whose full buffer was
\* not stored ends early, after a second attempt at most.
Written(n) ==
    /\ IF rest > 0 /\ n = Len(acBuffer)
       THEN acBuffer' = <<>> /\ pc' = "store" /\ UNCHANGED <<rest, writes>>
       ELSE rest' = 0 /\ (Return \/ (rest > 0 /\ WriteAgain))
    /\ status' = 0

\* Mutant of AvailWriteSpace: no element is left unused.
AvailWriteSpaceAll ==
    IF RdOff <= WrOff THEN SizeOfBuffer - WrOff + RdOff ELSE RdOff - WrOff

\* _GetAvailWriteSpace
AvailWriteSpace ==
    IF RdOff <= WrOff THEN SizeOfBuffer - 1 - WrOff + RdOff
    ELSE RdOff - WrOff - 1

\* Mutant of Accepted: what does not fit is trimmed in every mode.
AcceptedTrimmed(n) == Min({AvailWriteSpace, n})

\* How many of n characters the mode lets in.
Accepted(n) ==
    CASE Flags = "NO_BLOCK_SKIP" -> IF AvailWriteSpace < n THEN 0 ELSE n
      [] Flags = "NO_BLOCK_TRIM" -> Min({AvailWriteSpace, n})
      [] OTHER                   -> n

SEGGER_RTT_WriteNoLock ==
    LET n == Accepted(Len(acBuffer))
    IN  /\ pc = "write"
        /\ IF Flags = "NO_BLOCK_SKIP" /\ n = 0
           THEN Written(0) /\ UNCHANGED todo
           ELSE /\ todo' = SubSeq(acBuffer, 1, n)
                /\ status' = n
                /\ pc' = IF Flags = "BLOCK_IF_FIFO_FULL" THEN "block" ELSE "copy"
                /\ UNCHANGED <<rest, acBuffer, writes>>
        /\ UNCHANGED <<ring, ActiveTerminal, pieces, wr, changes, host,
                       received>>

\* What a copy leaves alone.
Untouched ==
    UNCHANGED <<WrOff, RdOff, Flags, ActiveTerminal, rest, acBuffer, pieces,
                status, writes, changes, host, received>>

\* Copies the first n characters of todo to offset at, the rest is to follow.
Memcpy(at, n) ==
    /\ pBuffer' = [o \in Offsets |->
                     IF o \in at .. at + n - 1 THEN todo[o - at + 1]
                     ELSE pBuffer[o]]
    /\ todo' = SubSeq(todo, n + 1, Len(todo))

\* _WriteNoCheck, up to the end of the ring.
WriteNoCheck ==
    LET Rem == SizeOfBuffer - WrOff
    IN  /\ pc = "copy"
        /\ Memcpy(WrOff, Min({Rem, Len(todo)}))
        /\ wr' = WrOff + Len(todo)
        /\ pc' = IF Rem > Len(todo) THEN "publish" ELSE "wrap"
        /\ Untouched

\* _WriteNoCheck, from the start of the ring.
WriteNoCheckWraps ==
    /\ pc = "wrap"
    /\ Memcpy(0, Len(todo))
    /\ wr' = Len(todo)
    /\ pc' = "publish"
    /\ Untouched

\* Mutant of NumBytesToWrite: the last element of the ring is left out.
NumBytesToWriteShort ==
    Min({AvailWriteSpace, SizeOfBuffer - 1 - WrOff, Len(todo)})

\* How much one turn of _WriteBlocking can copy: what fits before the
\* debugger's offset and the end of the ring.
NumBytesToWrite == Min({AvailWriteSpace, SizeOfBuffer - WrOff, Len(todo)})

\* Mutant of WrOffAfter: the offset is left at the end of the ring.
WrOffAfterEnd(n) == WrOff + n

\* The offset after a turn of n characters.
WrOffAfter(n) == IF WrOff + n = SizeOfBuffer THEN 0 ELSE WrOff + n

\* One turn of the loop of _WriteBlocking.
WriteBlocking ==
    /\ pc = "block"
    /\ Memcpy(WrOff, NumBytesToWrite)
    /\ wr' = WrOffAfter(NumBytesToWrite)
    /\ pc' = "publish"
    /\ Untouched

\* The debugger learns of the characters that were copied.
Publish ==
    /\ pc = "publish"
    /\ WrOff' = wr
    /\ IF todo = <<>> /\ pieces = <<>>
       THEN Written(status) /\ UNCHANGED <<todo, pieces>>
       ELSE /\ pc' = "block"
            /\ IF todo = <<>>
               THEN todo' = Head(pieces) /\ pieces' = Tail(pieces)
               ELSE UNCHANGED <<todo, pieces>>
            /\ UNCHANGED <<rest, acBuffer, status, writes>>
    /\ UNCHANGED <<pBuffer, RdOff, Flags, ActiveTerminal, wr, changes, host,
                   received>>
---------------------------------------------------------------------------
(***************************************************************************)
(* Single characters.                                                      *)
(***************************************************************************)

NextWrOff == IF WrOff + 1 = SizeOfBuffer THEN 0 ELSE WrOff + 1

StartPut(next) ==
    /\ pc = "idle"
    /\ writes < MAX_WRITES
    /\ writes' = writes + 1
    /\ todo' = Chars(writes + 1, Text(1, ActiveTerminal), Flags)
    /\ pc' = next
    /\ UNCHANGED <<ring, ActiveTerminal, rest, acBuffer, pieces, status, wr,
                   changes, host, received>>

\* In blocking mode it waits first.
SEGGER_RTT_PutChar ==
    StartPut(IF Flags = "BLOCK_IF_FIFO_FULL" THEN "wait" ELSE "put")

\* Never waits; SEGGER_RTT_PutCharSkipNoLock does the same without the lock.
SEGGER_RTT_PutCharSkip == StartPut("put")

WaitForSpace ==
    /\ pc = "wait"
    /\ NextWrOff # RdOff
    /\ pc' = "put"
    /\ UNCHANGED <<ring, ActiveTerminal, rest, acBuffer, todo, pieces, status,
                   wr, writes, changes, host, received>>

\* The character is stored if there is space.
PutOrSkip ==
    /\ pc = "put"
    /\ IF NextWrOff # RdOff
       THEN Memcpy(WrOff, 1) /\ wr' = NextWrOff /\ pc' = "publish"
       ELSE todo' = <<>> /\ pc' = "idle" /\ UNCHANGED <<pBuffer, wr>>
    /\ Untouched
---------------------------------------------------------------------------
(***************************************************************************)
(* Terminals.                                                              *)
(***************************************************************************)

StartTerminalCall ==
    /\ pc = "idle"
    /\ writes < MAX_WRITES
    /\ writes' = writes + 1
    /\ UNCHANGED <<ring, rest, acBuffer, status, wr, changes, host, received>>

\* Mutant of SwitchTo: the terminal counts as active without the switch.
SwitchToAlways(terminal) ==
    /\ ActiveTerminal' = terminal
    /\ IF Flags = "BLOCK_IF_FIFO_FULL" \/ AvailWriteSpace >= 2
       THEN /\ todo' = Chars(writes + 1, Switch(terminal), Flags)
            /\ pc' = IF Flags = "BLOCK_IF_FIFO_FULL" THEN "block" ELSE "copy"
       ELSE UNCHANGED <<todo, pc>>

\* Writes the switch to a terminal and makes it the active one, where the
\* mode lets it; the switch is never trimmed.
SwitchTo(terminal) ==
    IF Flags = "BLOCK_IF_FIFO_FULL" \/ AvailWriteSpace >= 2
    THEN /\ ActiveTerminal' = terminal
         /\ todo' = Chars(writes + 1, Switch(terminal), Flags)
         /\ pc' = IF Flags = "BLOCK_IF_FIFO_FULL" THEN "block" ELSE "copy"
    ELSE UNCHANGED <<ActiveTerminal, todo, pc>>

SEGGER_RTT_SetTerminal(terminal) ==
    /\ StartTerminalCall
    /\ SwitchTo(terminal)
    /\ UNCHANGED pieces

\* Mutant of TextAccepted: no space is kept for the two switches.
TextAcceptedAlone(n) ==
    CASE Flags = "NO_BLOCK_SKIP" -> IF AvailWriteSpace < n THEN -1 ELSE n
      [] Flags = "NO_BLOCK_TRIM" -> Min({AvailWriteSpace, n})
      [] OTHER                   -> n

\* How many of n characters SEGGER_RTT_TerminalOut writes between two switches
\* of two characters, and -1 if nothing is written.
TextAccepted(n) ==
    CASE Flags = "NO_BLOCK_SKIP" -> IF AvailWriteSpace < n + 4 THEN -1 ELSE n
      [] Flags = "NO_BLOCK_TRIM" -> IF AvailWriteSpace < 4 THEN -1
                                    ELSE Min({AvailWriteSpace - 4, n})
      [] OTHER                   -> n

\* The switch to the terminal, the text, the switch back: three calls of
\* _WriteBlocking, whatever the mode.
SEGGER_RTT_TerminalOut(terminal, length) ==
    LET n == TextAccepted(length)
        s == Chars(writes + 1, Switch(terminal) \o Text(n, terminal)
                                 \o Switch(ActiveTerminal), Flags)
    IN  /\ StartTerminalCall
        /\ IF n < 0 THEN UNCHANGED <<pc, todo, pieces>>
           ELSE /\ pc' = "block"
                /\ todo' = SubSeq(s, 1, 2)
                /\ pieces' = <<SubSeq(s, 3, n + 2), SubSeq(s, n + 3, n + 4)>>
        /\ UNCHANGED ActiveTerminal
---------------------------------------------------------------------------
(***************************************************************************)
(* The debugger.                                                           *)
(***************************************************************************)

\* The number of characters from offset a up to offset b.
Between(a, b) == IF a <= b THEN b - a ELSE b - a + SizeOfBuffer

CharsBetween(a, b) ==
    [k \in 1 .. Between(a, b) |-> pBuffer[(a + k - 1) % SizeOfBuffer]]

\* It reads the program's offset, and may stop short of it.
HostLooks ==
    /\ host.pc = "idle"
    /\ \E n \in 1 .. Between(RdOff, WrOff) :
          host' = [pc |-> "copy", upto |-> (RdOff + n) % SizeOfBuffer]
    /\ UNCHANGED <<ring, program, changes, received>>

HostCopies ==
    /\ host.pc = "copy"
    /\ received' = received \o CharsBetween(RdOff, host.upto)
    /\ host' = [host EXCEPT !.pc = "publish"]
    /\ UNCHANGED <<ring, program, changes>>

HostPublishes ==
    /\ host.pc = "publish"
    /\ RdOff' = host.upto
    /\ host' = [host EXCEPT !.pc = "idle"]
    /\ UNCHANGED <<pBuffer, WrOff, Flags, program, changes, received>>
---------------------------------------------------------------------------
Program ==
    \/ StoreChar
    \/ SEGGER_RTT_WriteNoLock
    \/ WriteNoCheck
    \/ WriteNoCheckWraps
    \/ WriteBlocking
    \/ Publish
    \/ WaitForSpace
    \/ PutOrSkip

Host == HostLooks \/ HostCopies \/ HostPublishes

Next ==
    \/ \E mode \in Modes : SEGGER_RTT_SetFlagsUpBuffer(mode)
    \/ \E length \in 1 .. MAX_LENGTH : SEGGER_RTT_vprintf(length)
    \/ SEGGER_RTT_PutChar
    \/ SEGGER_RTT_PutCharSkip
    \/ \E terminal \in Terminals :
          \/ SEGGER_RTT_SetTerminal(terminal)
          \/ \E n \in 1 .. MAX_TEXT : SEGGER_RTT_TerminalOut(terminal, n)
    \/ Program
    \/ Host

Spec == Init /\ [][Next]_vars

\* The program runs on, and the debugger polls the ring.
FairSpec == Spec /\ WF_vars(Program) /\ WF_vars(Host)
---------------------------------------------------------------------------
(***************************************************************************)
(* Properties.                                                             *)
(***************************************************************************)

Char == [chunk : 0 .. MAX_WRITES, i : Nat, of : Nat, mode : Modes,
         what : {"text", "escape", "id"}, to : Terminals]

\* Every variable keeps its type; the offsets stay within the ring.
TypeOK ==
    /\ pBuffer \in [Offsets -> Char]
    /\ WrOff \in Offsets
    /\ RdOff \in Offsets
    /\ Flags \in Modes
    /\ ActiveTerminal \in Terminals
    /\ pc \in {"idle", "store", "write", "copy", "wrap", "block", "publish",
               "wait", "put"}
    /\ rest \in 0 .. MAX_LENGTH
    /\ acBuffer \in Seq(Char) /\ Len(acBuffer) <= PRINTF_BUFFER_SIZE
    /\ todo \in Seq(Char)
    /\ pieces \in Seq(Seq(Char)) /\ Len(pieces) <= 2
    /\ status \in 0 .. PRINTF_BUFFER_SIZE
    /\ wr \in 0 .. SizeOfBuffer + PRINTF_BUFFER_SIZE
    /\ writes \in 0 .. MAX_WRITES
    /\ changes \in 0 .. MAX_MODE_CHANGES
    /\ host \in [pc : {"idle", "copy", "publish"}, upto : Offsets]
    /\ received \in Seq(Char)

\* What the debugger has not copied yet.
InTransit ==
    CharsBetween(IF host.pc = "publish" THEN host.upto ELSE RdOff, WrOff)

Stream == INSTANCE RttStream
          WITH CAPACITY <- SizeOfBuffer - 1, inTransit <- InTransit

\* The ring implements the stream: no character is overwritten before the
\* debugger has copied it, none is read twice or before it was written, and a
\* full ring is never taken for an empty one.
ImplementsStream == Stream!Spec

Follows(d, c) == d.chunk = c.chunk /\ d.i = c.i + 1

\* What enters the ring of a write: its beginning, without a hole; in skipping
\* mode all of it or nothing; in blocking mode all of it, as soon as the
\* program has gone on.
WritesStayWhole ==
    LET s == received \o InTransit
    IN  \A k \in DOMAIN s :
           /\ s[k].i > 1 => k > 1 /\ Follows(s[k], s[k - 1])
           /\ s[k].i < s[k].of /\ s[k].mode # "NO_BLOCK_TRIM" =>
                 \/ k < Len(s) /\ Follows(s[k + 1], s[k])
                 \/ k = Len(s) /\ s[k].chunk = writes /\ pc # "idle"

\* The terminal that the switches before place k of the stream have selected.
Selected(s, k) ==
    LET ids == {j \in 2 .. k - 1 : s[j].what = "id" /\ s[j - 1].what = "escape"}
    IN  IF ids = {} THEN 0 ELSE s[Max(ids)].to

\* The debugger shows every text on the terminal it was written for, from the
\* switches it finds in the stream: those of SEGGER_RTT_SetTerminal that found
\* no space, and those that put the active terminal back after a
\* SEGGER_RTT_TerminalOut whose text was trimmed or skipped, included.
EachTerminalItsText ==
    LET s == received \o InTransit
    IN  \A k \in DOMAIN s : s[k].what = "text" => Selected(s, k) = s[k].to

\* "trim to what we can output without blocking" (SEGGER_RTT_WriteNoLock): in
\* the modes that do not block nothing waits for the debugger, although
\* SEGGER_RTT_TerminalOut writes with _WriteBlocking in every mode.
WaitsOnlyWhenBlocking ==
    Flags # "BLOCK_IF_FIFO_FULL" =>
        /\ pc # "wait"
        /\ pc = "block" /\ todo # <<>> => NumBytesToWrite > 0

\* A call that writes ends, in blocking mode too, and what it wrote gets to the
\* debugger, which polls.
CallsEnd == []<>(pc = "idle" /\ InTransit = <<>>)
===========================================================================
