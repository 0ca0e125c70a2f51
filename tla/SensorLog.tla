----------------------------- MODULE SensorLog -----------------------------
(***************************************************************************)
(* SDcardProcess, which logs the readings of the beacons in files of the   *)
(* SD card, and EnviromentSensingServer, which serves the files it found   *)
(* at its start to the gateway, a chunk per read of a characteristic.      *)
(*                                                                         *)
(* Both run in callbacks of the event queue, one after the other:          *)
(* record_beacon when the client has read a round of sensors,              *)
(* reformat_sd_card for a press of the erase button, and                   *)
(* when_data_read_by_client for a read of the gateway.  A press or a read  *)
(* comes at any moment, so the order of these callbacks is any.            *)
(*                                                                         *)
(* A file is the sequence of its lines, and a line the number of the round *)
(* it was written in; a line is the unit of offsets and of reads.  The     *)
(* value of a characteristic has a fixed length: what a shorter chunk does *)
(* not cover, it keeps, and a read returns all of it.                      *)
(***************************************************************************)
EXTENDS Integers, Sequences, FiniteSets, SequencesExt

CONSTANTS
    Beacons,                  \* the first bytes of the beacons' addresses
    SlotTypes,                \* SlotTypes[b]: the type of each slot of b
    MAX_READ_BYTES,           \* lines in a chunk, and in a characteristic
    MAX_CHARACTERISTIC_NUM,   \* elements of file_buff and file_chars_buff
    MAX_UNHANDLED,            \* bound: reads answered ahead of their handler
    MAX_ROUNDS,               \* bound: rounds of readings
    MAX_ERASES,               \* bound: presses of the erase button
    MAX_RESTARTS,             \* bound: losses of power
    MAX_FAULTS                \* bound: operations that fail

\* "/<file system name>/<sensor type>_<first byte of address>"
FilesOf(b) == {<<SlotTypes[b][i], b>> : i \in DOMAIN SlotTypes[b]}

FilePaths == UNION {FilesOf(b) : b \in Beacons}

ASSUME SensorLogAssumption ==
    /\ \A b \in Beacons : SlotTypes[b] \in Seq({1, 2})
    /\ MAX_READ_BYTES \in Nat \ {0}
    /\ MAX_CHARACTERISTIC_NUM \in Nat
    /\ MAX_UNHANDLED \in Nat
    /\ MAX_ROUNDS \in Nat
    /\ MAX_ERASES \in Nat
    /\ MAX_RESTARTS \in Nat
    /\ MAX_FAULTS \in Nat

VARIABLES
    phase,            \* "power_on", "dispatch" (card set up), "run" (serving)
    failed,           \* why nothing is known of what follows, if so
    ready_to_write,
    mounted,          \* the file system is
    formatted,        \* the card holds a file system
    files,            \* the log files on the card
    file_buff,        \* the files that are served, with the offset of each
    value,            \* the lines in each characteristic, 0: never written
    missed,           \* history: lines whose write to it failed
    unhandled,        \* reads that are answered, their handler not yet called
    answers_first,    \* the stack answers a read before it calls the handler
    delivered,        \* history: the lines the gateway got of each file
    hasty,            \* history: it read a file whose last read is unhandled
    erased,           \* history: the card was reformatted since the start
    rounds, erases, restarts, faults

card    == <<ready_to_write, mounted, formatted, files>>
server  == <<file_buff, value, missed, unhandled>>
gateway == <<answers_first, delivered, hasty>>
bounds  == <<rounds, erases, restarts, faults>>
vars    == <<phase, failed, card, server, gateway, erased, bounds>>

NoFiles == [f \in {} |-> <<>>]

Init ==
    /\ phase = "power_on"
    /\ failed = "no"
    /\ ready_to_write = FALSE
    /\ mounted = FALSE
    /\ formatted \in BOOLEAN
    /\ files = NoFiles
    /\ file_buff = <<>>
    /\ value = <<>>
    /\ missed = <<>>
    /\ unhandled = <<>>
    /\ answers_first \in BOOLEAN
    /\ delivered = <<>>
    /\ hasty = FALSE
    /\ erased = FALSE
    /\ rounds = MAX_ROUNDS
    /\ erases = MAX_ERASES
    /\ restarts = MAX_RESTARTS
    /\ faults = MAX_FAULTS
---------------------------------------------------------------------------
(***************************************************************************)
(* The card.                                                               *)
(***************************************************************************)

\* Mutant of Reformat: its error is not looked at.
ReformatUnchecked(n) ==
    /\ mounted' \in BOOLEAN
    /\ ready_to_write' = TRUE
    /\ formatted' = mounted'
    /\ files' = NoFiles
    /\ faults' = n

\* _file_system.reformat, with n faults left, and what is made of its result:
\* one that fails unmounts the card and may destroy what is on it.
Reformat(n) ==
    \/ /\ mounted' = TRUE
       /\ ready_to_write' = TRUE
       /\ formatted' = TRUE
       /\ files' = NoFiles
       /\ faults' = n
    \/ /\ n > 0
       /\ mounted' = FALSE
       /\ ready_to_write' = FALSE
       /\ \/ formatted' = FALSE /\ files' = NoFiles
          \/ UNCHANGED <<formatted, files>>
       /\ faults' = n - 1

Mount ==
    /\ formatted
    /\ mounted' = TRUE
    /\ ready_to_write' = TRUE
    /\ UNCHANGED <<formatted, files, faults>>

\* A card that cannot be mounted is reformatted, whatever the reason.
init_sd_card ==
    /\ phase = "power_on"
    /\ phase' = "dispatch"
    /\ \/ Mount
       \/ ~formatted /\ Reformat(faults)
       \/ formatted /\ faults > 0 /\ Reformat(faults - 1)
    /\ UNCHANGED <<failed, server, gateway, erased, rounds, erases, restarts>>

reformat_sd_card ==
    /\ phase # "power_on"
    /\ failed = "no"
    /\ erases > 0
    /\ erases' = erases - 1
    /\ Reformat(faults)
    /\ erased' = TRUE
    /\ UNCHANGED <<phase, failed, server, gateway, rounds, restarts>>

Path(b, i) == <<SlotTypes[b][i], b>>

\* Mutant of Appended: the files are opened with "w".
AppendedAnew(b, opened, written) ==
    [f \in DOMAIN files \cup {Path(b, i) : i \in opened} |->
        IF \E i \in written : f = Path(b, i)
        THEN <<MAX_ROUNDS - rounds + 1>>
        ELSE IF \E i \in opened : f = Path(b, i) THEN <<>> ELSE files[f]]

\* The files of b once the slots in opened were opened for appending and the
\* line has reached those in written.
Appended(b, opened, written) ==
    [f \in DOMAIN files \cup {Path(b, i) : i \in opened} |->
        LET old == IF f \in DOMAIN files THEN files[f] ELSE <<>>
        IN  IF \E i \in written : f = Path(b, i)
            THEN Append(old, MAX_ROUNDS - rounds + 1) ELSE old]

\* A file that cannot be opened or closed ends the round after the first n
\* slots; a line that cannot be written does not.
record_beacon(b) ==
    /\ phase = "run"
    /\ failed = "no"
    /\ rounds > 0
    /\ rounds' = rounds - 1
    /\ IF ready_to_write
       THEN \E n \in 0 .. Len(SlotTypes[b]) : \E lost \in SUBSET (1 .. n) :
               LET cost == Cardinality(lost)
                             + (IF n < Len(SlotTypes[b]) THEN 1 ELSE 0)
               IN  /\ cost <= faults
                   /\ faults' = faults - cost
                   /\ files' = Appended(b, 1 .. n, (1 .. n) \ lost)
       ELSE UNCHANGED <<files, faults>>
    /\ UNCHANGED <<phase, failed, ready_to_write, mounted, formatted, server,
                   gateway, erased, erases, restarts>>
---------------------------------------------------------------------------
(***************************************************************************)
(* The file server.                                                        *)
(***************************************************************************)

Serve(paths) ==
    /\ file_buff' = [i \in DOMAIN paths |-> [path |-> paths[i], offset |-> 0]]
    /\ value' = [i \in DOMAIN paths |-> [k \in 1 .. MAX_READ_BYTES |-> 0]]
    /\ missed' = [i \in DOMAIN paths |-> <<>>]
    /\ delivered' = [i \in DOMAIN paths |-> <<>>]

\* Every file found takes the next element of file_buff and file_chars_buff,
\* also when there is none left.
FilesFound ==
    /\ mounted
    /\ IF Cardinality(DOMAIN files) <= MAX_CHARACTERISTIC_NUM
       THEN Serve(SetToSeq(DOMAIN files)) /\ UNCHANGED failed
       ELSE Serve(<<>>) /\ failed' = "array_end"

\* Nothing is served when the directory cannot be opened or a service cannot
\* be added.
NothingServed ==
    /\ Serve(<<>>)
    /\ UNCHANGED failed

start ==
    /\ phase = "dispatch"
    /\ failed = "no"
    /\ phase' = "run"
    /\ \/ FilesFound /\ UNCHANGED faults
       \/ ~mounted /\ NothingServed /\ UNCHANGED faults
       \/ faults > 0 /\ NothingServed /\ faults' = faults - 1
    /\ erased' = FALSE
    /\ UNCHANGED <<card, unhandled, answers_first, hasty, rounds, erases,
                   restarts>>

\* Mutant of Chunk: a line more than the buffer holds.
ChunkTooLong(i) ==
    LET log  == files[file_buff[i].path]
        from == file_buff[i].offset
    IN  SubSeq(log, from + 1, Min({Len(log), from + MAX_READ_BYTES + 1}))

\* The next lines of the file, from its offset.
Chunk(i) ==
    LET log  == files[file_buff[i].path]
        from == file_buff[i].offset
    IN  SubSeq(log, from + 1, Min({Len(log), from + MAX_READ_BYTES}))

\* The characteristic has no variable length: a short write leaves its rest.
Overwritten(cells, lines) ==
    [k \in 1 .. MAX_READ_BYTES |->
        IF k <= Len(lines) THEN lines[k] ELSE cells[k]]

\* Mutants of WriteChunk: the offset moves by the size of the buffer; a chunk
\* that does not fill the buffer is not written.
WriteChunkFull(i, lines) ==
    /\ file_buff' = [file_buff EXCEPT ![i].offset = @ + MAX_READ_BYTES]
    /\ value' = [value EXCEPT ![i] = Overwritten(@, lines)]
    /\ UNCHANGED missed

WriteChunkIfFull(i, lines) ==
    IF Len(lines) < MAX_READ_BYTES THEN UNCHANGED <<value, file_buff, missed>>
    ELSE WriteChunkFull(i, lines)

\* The error of _gattServer->write is not looked at: the offset moves on.
WriteChunk(i, lines) ==
    /\ file_buff' = [file_buff EXCEPT ![i].offset = @ + Len(lines)]
    /\ \/ /\ value' = [value EXCEPT ![i] = Overwritten(@, lines)]
          /\ UNCHANGED missed
       \/ /\ missed' = [missed EXCEPT ![i] = @ \o lines]
          /\ UNCHANGED value

\* The body of when_data_read_by_client: fopen returns NULL when the file or
\* the file system is gone, and the pointer is used; fread may fall short.
HandleRead(i) ==
    IF ~mounted \/ file_buff[i].path \notin DOMAIN files
    THEN /\ failed' = "null_file"
         /\ UNCHANGED <<value, missed, file_buff, faults>>
    ELSE \/ WriteChunk(i, Chunk(i)) /\ UNCHANGED <<failed, faults>>
         \/ /\ faults > 0
            /\ faults' = faults - 1
            /\ \/ /\ \E n \in 0 .. Len(Chunk(i)) - 1 :
                        WriteChunk(i, SubSeq(Chunk(i), 1, n))
                  /\ UNCHANGED failed
               \/ /\ failed' = "null_file"
                  /\ UNCHANGED <<value, missed, file_buff>>

when_data_read_by_client ==
    /\ failed = "no"
    /\ unhandled # <<>>
    /\ unhandled' = Tail(unhandled)
    /\ HandleRead(Head(unhandled))
    /\ UNCHANGED <<phase, card, gateway, erased, rounds, erases, restarts>>

IsNew(i, line) == line # 0 /\ line \notin ToSet(delivered[i])

\* A read returns the whole characteristic.  It counts as far as the last line
\* that the gateway did not have: what follows was left there by older chunks.
Deliver(i, cells) ==
    \E n \in 0 .. MAX_READ_BYTES :
       /\ n > 0 => IsNew(i, cells[n])
       /\ \A k \in n + 1 .. MAX_READ_BYTES : ~IsNew(i, cells[k])
       /\ delivered' = [delivered EXCEPT ![i] = @ \o SubSeq(cells, 1, n)]

\* The gateway reads characteristic i.
GatewayReads(i) ==
    /\ phase = "run"
    /\ failed = "no"
    /\ i \in DOMAIN file_buff
    /\ IF answers_first
       THEN /\ Len(unhandled) < MAX_UNHANDLED
            /\ Deliver(i, value[i])
            /\ unhandled' = Append(unhandled, i)
            /\ hasty' = (hasty \/ \E k \in DOMAIN unhandled : unhandled[k] = i)
            /\ UNCHANGED <<failed, value, missed, file_buff, faults>>
       ELSE /\ HandleRead(i)
            /\ IF failed' # "no" THEN UNCHANGED delivered
               ELSE Deliver(i, value'[i])
            /\ UNCHANGED <<unhandled, hasty>>
    /\ UNCHANGED <<phase, card, answers_first, erased, rounds, erases,
                   restarts>>
---------------------------------------------------------------------------
\* The power goes during a round: the file of slot n is there, with its line
\* if it could be closed, and those behind it are as they were.
HalfRound(b) ==
    /\ phase = "run" /\ failed = "no" /\ ready_to_write
    /\ rounds > 0
    /\ rounds' = rounds - 1
    /\ \E n \in 1 .. Len(SlotTypes[b]) : \E closed \in {n - 1, n} :
          files' = Appended(b, 1 .. n, 1 .. closed)

\* The power goes, or a fault resets the processor: the card is what stays.
Restart ==
    /\ restarts > 0
    /\ restarts' = restarts - 1
    /\ phase' = "power_on"
    /\ failed' = "no"
    /\ ready_to_write' = FALSE
    /\ mounted' = FALSE
    /\ unhandled' = <<>>
    /\ Serve(<<>>)
    /\ hasty' = FALSE
    /\ \/ UNCHANGED <<files, rounds>>
       \/ \E b \in Beacons : HalfRound(b)
    /\ UNCHANGED <<formatted, answers_first, erased, erases, faults>>

Next ==
    \/ init_sd_card
    \/ start
    \/ reformat_sd_card
    \/ \E b \in Beacons : record_beacon(b)
    \/ when_data_read_by_client
    \/ \E i \in 1 .. MAX_CHARACTERISTIC_NUM : GatewayReads(i)
    \/ Restart

Spec == Init /\ [][Next]_vars

\* The program starts and handles what is posted; the gateway reads every
\* file again and again (strongly fair, as a read waits for MAX_UNHANDLED).
FairSpec ==
    /\ Spec
    /\ WF_vars(init_sd_card)
    /\ WF_vars(start)
    /\ WF_vars(when_data_read_by_client)
    /\ \A i \in 1 .. MAX_CHARACTERISTIC_NUM : SF_vars(GatewayReads(i))
---------------------------------------------------------------------------
(***************************************************************************)
(* Properties.                                                             *)
(***************************************************************************)

Lines == Seq(1 .. MAX_ROUNDS)

Cells == [1 .. MAX_READ_BYTES -> 0 .. MAX_ROUNDS]

\* Every variable keeps its type, and the card is written only when mounted.
TypeOK ==
    /\ phase \in {"power_on", "dispatch", "run"}
    /\ failed \in {"no", "null_file", "array_end"}
    /\ ready_to_write \in BOOLEAN
    /\ mounted \in BOOLEAN
    /\ ready_to_write => mounted
    /\ mounted => formatted
    /\ formatted \in BOOLEAN
    /\ DOMAIN files \subseteq FilePaths
    /\ \A f \in DOMAIN files : files[f] \in Lines
    /\ file_buff \in Seq([path : FilePaths, offset : Nat])
    /\ Len(file_buff) <= MAX_CHARACTERISTIC_NUM
    /\ value \in Seq(Cells) /\ Len(value) = Len(file_buff)
    /\ missed \in Seq(Lines) /\ Len(missed) = Len(file_buff)
    /\ unhandled \in Seq(DOMAIN file_buff)
    /\ answers_first \in BOOLEAN
    /\ delivered \in Seq(Seq(0 .. MAX_ROUNDS))
    /\ Len(delivered) = Len(file_buff)
    /\ hasty \in BOOLEAN
    /\ erased \in BOOLEAN
    /\ rounds \in 0 .. MAX_ROUNDS
    /\ erases \in 0 .. MAX_ERASES
    /\ restarts \in 0 .. MAX_RESTARTS
    /\ faults \in 0 .. MAX_FAULTS

Log(i) == files[file_buff[i].path]

Ascending(s) == \A j, k \in DOMAIN s : j < k => s[j] < s[k]

\* How many lines of file i were given to the gateway, or missed.
Passed(i) == Len(delivered[i]) + Len(missed[i])

\* What a service says of its files, until the card is erased, and unless the
\* gateway reads a file again while a read of it is not handled.
Counts == ~erased /\ ~hasty

\* What the gateway has got of a file is the beginning of that file, in order
\* and none of it twice, without the chunks whose write failed, but for these
\* without a hole, while rounds are appended to it, whether the stack answers a
\* read before or after when_data_read_by_client writes the next chunk.
ServedInOrder ==
    Counts =>
        \A i \in DOMAIN file_buff :
            /\ Passed(i) <= Len(Log(i))
            /\ ToSet(delivered[i]) \cup ToSet(missed[i])
                  = {Log(i)[k] : k \in 1 .. Passed(i)}
            /\ Ascending(delivered[i])

\* A gateway that reads on gets every line of the files that are served, but
\* for those whose write failed.
EverythingServed ==
    <>[]\/ failed # "no" \/ ~Counts
        \/ \A i \in DOMAIN file_buff :
              ToSet(delivered[i]) \cup ToSet(missed[i]) = ToSet(Log(i))

\* What is in the log stays there, in order, over restarts too, until the
\* erase button is pressed or the card fails to mount: record_beacon appends.
LogOnlyGrows ==
    [][\/ erases' # erases
       \/ init_sd_card /\ faults' # faults
       \/ \A f \in DOMAIN files :
             f \in DOMAIN files' /\ IsPrefix(files[f], files'[f])]_vars

\* What the program is to LogService.
ServedPaths ==
    IF Counts THEN [i \in DOMAIN file_buff |-> file_buff[i].path] ELSE <<>>

GivenLines == IF Counts THEN delivered ELSE <<>>

SkippedLines == IF Counts THEN missed ELSE <<>>

Service == INSTANCE LogService WITH
    Files     <- [b \in Beacons |-> FilesOf(b)],
    ChunkSize <- MAX_READ_BYTES,
    log       <- files,
    round     <- MAX_ROUNDS - rounds,
    served    <- ServedPaths,
    given     <- GivenLines,
    skipped   <- SkippedLines

\* The callbacks of SDcardProcess and EnviromentSensingServer amount to what
\* LogService promises: record_beacon writes one line, to files of its beacon
\* only, also when the power goes; start serves each file once; a read gives
\* the next lines, no more than the buffer holds, whatever is appended to the
\* files meanwhile, and only a chunk that cannot be written is skipped.
ImplementsService == Service!Spec

\* "find respond file for this characteristic and open it"
\* (when_data_read_by_client): the files that are served can be opened.
ServedFilesOpen == failed # "null_file"

\* "MAX_CHARACTERISTIC_NUM = 10" (EnviromentSensingServer.h), the number of
\* elements of file_buff and file_chars_buff, which the scan of the directory
\* tests: it stays within the arrays, whatever files the beacons have left.
FilesFitArrays == failed # "array_end"
===========================================================================
