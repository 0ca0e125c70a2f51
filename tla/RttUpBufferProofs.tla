------------------------- MODULE RttUpBufferProofs -------------------------
(***************************************************************************)
(* RttUpBuffer, for rings, buffers and texts of any size: the offsets stay *)
(* within the ring, the program never copies over a character that the     *)
(* debugger has not read, and the modes that do not block never wait.      *)
(***************************************************************************)
EXTENDS RttUpBuffer, SequenceTheorems, TLAPS

\* The assumption on the constants, as numbers.
LEMMA Sizes ==
    /\ SizeOfBuffer \in Nat \ {0} /\ PRINTF_BUFFER_SIZE \in Nat \ {0}
    /\ TERMINALS \in Nat \ {0}
    /\ MAX_LENGTH \in Nat /\ MAX_TEXT \in Nat /\ MAX_WRITES \in Nat
    /\ MAX_MODE_CHANGES \in Nat
BY RttAssumption DEF RttAssumption

\* The smaller of two.
LEMMA MinOfTwo ==
    ASSUME NEW a \in Int, NEW b \in Int
    PROVE  Min({a, b}) = IF a <= b THEN a ELSE b
<1>1. \E x \in {a, b} : \A y \in {a, b} : x <= y
  OBVIOUS
<1>2. Min({a, b}) \in {a, b} /\ \A y \in {a, b} : Min({a, b}) <= y
  BY <1>1 DEF Min
<1> QED
  BY <1>2

\* The smallest of three.
LEMMA MinOfThree ==
    ASSUME NEW a \in Int, NEW b \in Int, NEW c \in Int
    PROVE  /\ Min({a, b, c}) \in {a, b, c}
           /\ Min({a, b, c}) <= a /\ Min({a, b, c}) <= b
           /\ Min({a, b, c}) <= c
<1>1. \E x \in {a, b, c} : \A y \in {a, b, c} : x <= y
  <2>1. CASE a <= b /\ a <= c
    BY <2>1
  <2>2. CASE b <= a /\ b <= c
    BY <2>2
  <2>3. CASE c <= a /\ c <= b
    BY <2>3
  <2> QED
    BY <2>1, <2>2, <2>3
<1>2. Min({a, b, c}) \in {a, b, c}
      /\ \A y \in {a, b, c} : Min({a, b, c}) <= y
  BY <1>1 DEF Min
<1> QED
  BY <1>2

\* The front of a sequence and what follows it.
LEMMA FrontAndRest ==
    ASSUME NEW S, NEW s \in Seq(S), NEW n \in 0 .. Len(s)
    PROVE  /\ Len(s) \in Nat
           /\ SubSeq(s, 1, n) \in Seq(S) /\ Len(SubSeq(s, 1, n)) = n
           /\ \A k \in 1 .. n : SubSeq(s, 1, n)[k] = s[k]
           /\ SubSeq(s, n + 1, Len(s)) \in Seq(S)
           /\ Len(SubSeq(s, n + 1, Len(s))) = Len(s) - n
           /\ \A k \in 1 .. Len(s) - n :
                 SubSeq(s, n + 1, Len(s))[k] = s[n + k]
<1>1. Len(s) \in Nat
  BY LenProperties
<1>2. \A k \in 1 .. Len(s) : s[k] \in S
  BY ElementOfSeq
<1>3. /\ SubSeq(s, 1, n) \in Seq(S) /\ Len(SubSeq(s, 1, n)) = n
      /\ \A k \in 1 .. n : SubSeq(s, 1, n)[k] = s[k]
  <2>1. \A k \in 1 .. n : s[k] \in S
    BY <1>1, <1>2
  <2> QED
    BY <1>1, <2>1, SubSeqProperties
<1>4. /\ SubSeq(s, n + 1, Len(s)) \in Seq(S)
      /\ Len(SubSeq(s, n + 1, Len(s))) = Len(s) - n
      /\ \A k \in 1 .. Len(s) - n : SubSeq(s, n + 1, Len(s))[k] = s[n + k]
  <2>1. \A k \in n + 1 .. Len(s) : s[k] \in S
    BY <1>1, <1>2
  <2>2. /\ SubSeq(s, n + 1, Len(s)) \in Seq(S)
        /\ Len(SubSeq(s, n + 1, Len(s))) =
              IF n + 1 <= Len(s) THEN Len(s) - (n + 1) + 1 ELSE 0
        /\ \A k \in 1 .. Len(s) - (n + 1) + 1 :
              SubSeq(s, n + 1, Len(s))[k] = s[n + 1 + k - 1]
    BY <1>1, <2>1, SubSeqProperties
  <2> QED
    BY <1>1, <2>2
<1> QED
  BY <1>1, <1>3, <1>4
---------------------------------------------------------------------------
(***************************************************************************)
(* What the program writes.                                                *)
(***************************************************************************)

\* A character before it belongs to a write.
Sign == [what : {"text", "escape", "id"}, to : Terminals]

\* A text of n characters.
LEMMA TextTypes ==
    ASSUME NEW n \in Nat, NEW t \in Terminals
    PROVE  Text(n, t) \in Seq(Sign) /\ Len(Text(n, t)) = n
BY DEF Text, Sign

\* A switch has two.
LEMMA SwitchTypes ==
    ASSUME NEW t \in Terminals
    PROVE  Switch(t) \in Seq(Sign) /\ Len(Switch(t)) = 2
BY DEF Switch, Sign

\* The characters of a write know its number, their place, and the mode.
LEMMA CharsTypes ==
    ASSUME NEW w \in 0 .. MAX_WRITES, NEW s \in Seq(Sign), NEW mode \in Modes
    PROVE  /\ Chars(w, s, mode) \in Seq(Char)
           /\ Len(Chars(w, s, mode)) = Len(s)
           /\ \A k \in 1 .. Len(s) :
                 /\ Chars(w, s, mode)[k].chunk = w
                 /\ Chars(w, s, mode)[k].i = k
                 /\ Chars(w, s, mode)[k].of = Len(s)
                 /\ Chars(w, s, mode)[k].mode = mode
<1>1. Len(s) \in Nat /\ DOMAIN s = 1 .. Len(s)
  BY LenProperties
<1>2. \A k \in 1 .. Len(s) : s[k] \in Sign
  BY ElementOfSeq
<1>3. \A k \in 1 .. Len(s) :
         [chunk |-> w, i |-> k, of |-> Len(s), mode |-> mode,
          what |-> s[k].what, to |-> s[k].to] \in Char
  BY <1>1, <1>2 DEF Char, Sign
<1>4. Chars(w, s, mode) \in [1 .. Len(s) -> Char]
  BY <1>1, <1>3 DEF Chars
<1>5. Chars(w, s, mode) \in Seq(Char) /\ Len(Chars(w, s, mode)) = Len(s)
  <2> HIDE DEF Char
  <2> QED
    BY <1>1, <1>4
<1> QED
  BY <1>1, <1>5 DEF Chars

\* A sequence of two.
LEMMA PairOf ==
    ASSUME NEW S, NEW a \in S, NEW b \in S
    PROVE  /\ <<a, b>> \in Seq(S) /\ Len(<<a, b>>) = 2
           /\ <<a, b>>[1] = a /\ <<a, b>>[2] = b
OBVIOUS

\* Three sequences in a row.
LEMMA ThreeInARow ==
    ASSUME NEW S, NEW s1 \in Seq(S), NEW s2 \in Seq(S), NEW s3 \in Seq(S)
    PROVE  /\ s1 \o s2 \o s3 \in Seq(S)
           /\ Len(s1 \o s2 \o s3) = Len(s1) + Len(s2) + Len(s3)
<1>1. s1 \o s2 \in Seq(S) /\ Len(s1 \o s2) = Len(s1) + Len(s2)
  BY ConcatProperties
<1> QED
  BY <1>1, ConcatProperties

\* A TerminalOut: two characters, the text, two characters.
LEMMA TerminalOutTypes ==
    ASSUME NEW n \in Nat, NEW t \in Terminals, NEW u \in Terminals
    PROVE  LET s == Switch(t) \o Text(n, t) \o Switch(u)
           IN  s \in Seq(Sign) /\ Len(s) = n + 4
<1>1. /\ Len(Switch(t)) = 2 /\ Len(Switch(u)) = 2 /\ Len(Text(n, t)) = n
  BY SwitchTypes, TextTypes
<1>2. PICK s1 \in Seq(Sign) : s1 = Switch(t)
  BY SwitchTypes
<1>3. PICK s2 \in Seq(Sign) : s2 = Text(n, t)
  BY TextTypes
<1>4. PICK s3 \in Seq(Sign) : s3 = Switch(u)
  BY SwitchTypes
<1>5. s1 \o s2 \o s3 \in Seq(Sign)
      /\ Len(s1 \o s2 \o s3) = Len(s1) + Len(s2) + Len(s3)
  BY ThreeInARow
<1>6. s1 \o s2 \o s3 \in Seq(Sign) /\ Len(s1 \o s2 \o s3) = n + 4
  BY <1>1, <1>2, <1>3, <1>4, <1>5
<1> QED
  BY <1>2, <1>3, <1>4, <1>6
---------------------------------------------------------------------------
(***************************************************************************)
(* Distances in the ring.                                                  *)
(***************************************************************************)

\* The distance to b leads to b.
LEMMA BetweenRange ==
    ASSUME NEW a \in Offsets, NEW b \in Offsets
    PROVE  /\ Between(a, b) \in 0 .. SizeOfBuffer - 1
           /\ Between(a, a) = 0
           /\ (a + Between(a, b)) % SizeOfBuffer = b
BY Sizes DEF Between, Offsets

\* A step of n from a.
LEMMA StepInRing ==
    ASSUME NEW a \in Offsets, NEW n \in 0 .. SizeOfBuffer - 1
    PROVE  /\ (a + n) % SizeOfBuffer \in Offsets
           /\ Between(a, (a + n) % SizeOfBuffer) = n
BY Sizes DEF Between, Offsets

\* From a to c by way of b, where that is not once around.
LEMMA ByWayOf ==
    ASSUME NEW a \in Offsets, NEW b \in Offsets, NEW c \in Offsets
    PROVE  /\ Between(a, b) + Between(b, c) <= SizeOfBuffer - 1 =>
                 Between(a, c) = Between(a, b) + Between(b, c)
           /\ Between(a, b) <= Between(a, c) =>
                 Between(b, c) = Between(a, c) - Between(a, b)
BY Sizes DEF Between, Offsets

\* The space is what is not in use, but for one element.
LEMMA Space ==
    ASSUME RdOff \in Offsets, WrOff \in Offsets
    PROVE  AvailWriteSpace = SizeOfBuffer - 1 - Between(RdOff, WrOff)
BY Sizes DEF AvailWriteSpace, Between, Offsets
---------------------------------------------------------------------------
(***************************************************************************)
(* The invariant of the ring.                                              *)
(***************************************************************************)

\* The parts of TypeOK, by the actors that change them.
RingOK ==
    /\ pBuffer \in [Offsets -> Char]
    /\ WrOff \in Offsets
    /\ RdOff \in Offsets
    /\ Flags \in Modes

\* What is being written.
WriteOK ==
    /\ pc \in {"idle", "store", "write", "copy", "wrap", "block", "publish",
               "wait", "put"}
    /\ todo \in Seq(Char)
    /\ pieces \in Seq(Seq(Char)) /\ Len(pieces) <= 2
    /\ wr \in 0 .. SizeOfBuffer + PRINTF_BUFFER_SIZE

\* The printf, and the counters of calls.
CallOK ==
    /\ ActiveTerminal \in Terminals
    /\ rest \in 0 .. MAX_LENGTH
    /\ acBuffer \in Seq(Char) /\ Len(acBuffer) <= PRINTF_BUFFER_SIZE
    /\ status \in 0 .. PRINTF_BUFFER_SIZE
    /\ writes \in 0 .. MAX_WRITES
    /\ changes \in 0 .. MAX_MODE_CHANGES

\* The debugger.
HostOK ==
    /\ host \in [pc : {"idle", "copy", "publish"}, upto : Offsets]
    /\ received \in Seq(Char)

\* How many characters are copied and not published.
Copied ==
    CASE pc = "publish" -> Between(WrOff, wr)
      [] pc = "wrap"    -> SizeOfBuffer - WrOff
      [] OTHER          -> 0

\* The characters of piece j.
PieceLen(j) == IF j <= Len(pieces) THEN Len(pieces[j]) ELSE 0

\* How many characters of the write are still to be copied.
LeftOver == Len(todo) + PieceLen(1) + PieceLen(2)

\* What each place in the program knows of the write under way.
Control ==
    /\ pc \in {"idle", "store", "write"} => todo = <<>> /\ pieces = <<>>
    /\ pc \in {"copy", "wrap", "wait", "put"} => pieces = <<>>
    /\ pc \in {"wait", "put"} => Len(todo) = 1
    /\ pc = "wait" => Flags = "BLOCK_IF_FIFO_FULL"
    /\ pc = "copy" => Len(todo) <= PRINTF_BUFFER_SIZE + 1
    /\ pc \in {"idle", "wait", "put"} => rest = 0
    /\ pc = "store" => rest > 0
    /\ rest <= (MAX_WRITES - writes) * PRINTF_BUFFER_SIZE

\* The debugger does not pass the program, and the program leaves one element
\* free between what it has copied and the debugger; where it does not wait
\* for the debugger, there is room for the rest of the write too.
Room ==
    /\ host.pc # "idle" => Between(RdOff, host.upto) <= Between(RdOff, WrOff)
    /\ pc = "publish" => wr \in Offsets
    /\ Between(RdOff, WrOff) + Copied <= SizeOfBuffer - 1
    /\ \/ pc \in {"copy", "wrap"}
       \/ pc \in {"block", "publish"} /\ Flags # "BLOCK_IF_FIFO_FULL"
       => Between(RdOff, WrOff) + Copied + LeftOver <= SizeOfBuffer - 1

\* n characters of the write enter the ring, behind those copied before.
Enters(n) ==
    /\ n <= Len(todo)
    /\ ((WrOff + Copied) % SizeOfBuffer) + n <= SizeOfBuffer
    /\ Memcpy((WrOff + Copied) % SizeOfBuffer, n)
    /\ Copied' = Copied + n
    /\ Untouched

\* The whole of it.
RingInv == RingOK /\ WriteOK /\ CallOK /\ HostOK /\ Control /\ Room

\* Together the parts are TypeOK.
LEMMA TypeParts ==
    TypeOK <=> RingOK /\ WriteOK /\ CallOK /\ HostOK
BY Zenon DEF TypeOK, RingOK, WriteOK, CallOK, HostOK

\* The counts are numbers.
LEMMA Counts ==
    ASSUME RingOK, WriteOK, pc = "publish" => wr \in Offsets
    PROVE  /\ Between(RdOff, WrOff) \in 0 .. SizeOfBuffer - 1
           /\ Copied \in 0 .. SizeOfBuffer
           /\ Len(todo) \in Nat
           /\ PieceLen(1) \in Nat /\ PieceLen(2) \in Nat /\ LeftOver \in Nat
           /\ pieces = <<>> => LeftOver = Len(todo)
<1>1. /\ Len(todo) \in Nat /\ Len(pieces) \in Nat
      /\ \A j \in 1 .. Len(pieces) : pieces[j] \in Seq(Char)
  BY LenProperties, ElementOfSeq DEF WriteOK
<1>2. \A j \in 1 .. Len(pieces) : Len(pieces[j]) \in Nat
  BY <1>1, LenProperties
<1>3. PieceLen(1) \in Nat /\ PieceLen(2) \in Nat
  BY <1>1, <1>2 DEF PieceLen
<1>4. Between(RdOff, WrOff) \in 0 .. SizeOfBuffer - 1
  BY BetweenRange DEF RingOK
<1>5. Copied \in 0 .. SizeOfBuffer
  <2>1. CASE pc = "publish"
    BY <2>1, Sizes, BetweenRange DEF Copied, RingOK
  <2>2. CASE pc = "wrap"
    BY <2>2, Sizes DEF Copied, RingOK, Offsets
  <2>3. CASE pc # "publish" /\ pc # "wrap"
    BY <2>3, Sizes DEF Copied
  <2> QED
    BY <2>1, <2>2, <2>3
<1>6. pieces = <<>> => PieceLen(1) = 0 /\ PieceLen(2) = 0
  BY DEF PieceLen
<1> QED
  BY <1>1, <1>3, <1>4, <1>5, <1>6 DEF LeftOver

\* Nothing but the sizes of the ring and of the sequences matters to Room.
LEMMA SameRoom ==
    ASSUME Room, UNCHANGED <<WrOff, RdOff, Flags, pc, todo, pieces, wr, host>>
    PROVE  Room'
BY DEF Room, Copied, LeftOver, PieceLen, Between

\* What remains to be shown of Room where the offsets stay.
LEMMA SameOffsets ==
    ASSUME RingInv, UNCHANGED <<WrOff, RdOff, host>>,
           pc' = "publish" => wr' \in Offsets,
           Between(RdOff, WrOff) + Copied' <= SizeOfBuffer - 1,
           \/ pc' \in {"copy", "wrap"}
           \/ pc' \in {"block", "publish"} /\ Flags' # "BLOCK_IF_FIFO_FULL"
           => Between(RdOff, WrOff) + Copied' + LeftOver' <= SizeOfBuffer - 1
    PROVE  Room'
<1>1. /\ Between(RdOff, WrOff)' = Between(RdOff, WrOff)
      /\ Between(RdOff, host.upto)' = Between(RdOff, host.upto)
  BY DEF Between
<1> QED
  BY <1>1 DEF RingInv, Room

\* Places in the program where nothing is being copied.
LEMMA NoCopyRoom ==
    ASSUME RingInv, UNCHANGED <<WrOff, RdOff, host>>,
           pc' \in {"idle", "store", "write", "wait", "put"},
           pc # "publish", pc # "wrap"
    PROVE  Room'
<1>1. Copied' = 0 /\ Copied = 0
  BY DEF Copied
<1> QED
  BY <1>1, SameOffsets DEF RingInv, Room
---------------------------------------------------------------------------
(***************************************************************************)
(* One lemma per action of the program.                                    *)
(***************************************************************************)

\* SEGGER_RTT_SetFlagsUpBuffer, between two writes.
LEMMA ModeSet ==
    ASSUME RingInv, NEW mode \in Modes, SEGGER_RTT_SetFlagsUpBuffer(mode)
    PROVE  RingInv'
<1>1. /\ pc = "idle" /\ changes > 0 /\ changes' = changes - 1
      /\ Flags' = mode
      /\ UNCHANGED <<pBuffer, WrOff, RdOff, ActiveTerminal, pc, rest, acBuffer,
                     todo, pieces, status, wr, writes, host, received>>
  BY DEF SEGGER_RTT_SetFlagsUpBuffer, program
<1>2. Room'
  BY <1>1, NoCopyRoom
<1>3. changes' \in 0 .. MAX_MODE_CHANGES
  BY <1>1, Sizes DEF RingInv, CallOK
<1> QED
  BY <1>1, <1>2, <1>3 DEF RingInv, RingOK, WriteOK, CallOK, HostOK, Control

\* The first steps of a printf.
LEMMA PrintfStarts ==
    ASSUME RingInv, NEW length \in 1 .. MAX_LENGTH, SEGGER_RTT_vprintf(length)
    PROVE  RingInv'
<1>1. /\ pc = "idle" /\ rest' = length /\ pc' = "store"
      /\ length <= (MAX_WRITES - writes) * PRINTF_BUFFER_SIZE
      /\ UNCHANGED <<pBuffer, WrOff, RdOff, Flags, ActiveTerminal, acBuffer,
                     todo, pieces, status, wr, writes, changes, host, received>>
  BY DEF SEGGER_RTT_vprintf, ring
<1>2. Room'
  BY <1>1, NoCopyRoom
<1>3. rest' \in 0 .. MAX_LENGTH /\ rest' > 0
  BY <1>1, Sizes
<1> QED
  BY <1>1, <1>2, <1>3 DEF RingInv, RingOK, WriteOK, CallOK, HostOK, Control

\* The characters left are at most those of the writes left.
LEMMA WritesLeft ==
    ASSUME NEW w \in 0 .. MAX_WRITES, NEW r \in Nat,
           r <= (MAX_WRITES - w) * PRINTF_BUFFER_SIZE
    PROVE  r > 0 =>
             /\ w < MAX_WRITES
             /\ r - Min({r, PRINTF_BUFFER_SIZE}) \in 0 .. r
             /\ r - Min({r, PRINTF_BUFFER_SIZE})
                   <= (MAX_WRITES - (w + 1)) * PRINTF_BUFFER_SIZE
<1> DEFINE m == MAX_WRITES - w
           P == PRINTF_BUFFER_SIZE
<1>1. m \in Nat /\ P \in Nat \ {0} /\ r <= m * P
  BY Sizes
<1>2. MAX_WRITES - (w + 1) = m - 1
  BY Sizes
<1>3. w < MAX_WRITES <=> m > 0
  BY Sizes
<1>4. Min({r, P}) = IF r <= P THEN r ELSE P
  BY <1>1, MinOfTwo
<1> HIDE DEF m, P
<1>5. ASSUME r > 0
      PROVE  m > 0
  <2>1. m = 0 => m * P = 0
    BY <1>1
  <2> QED
    BY <1>1, <1>5, <2>1
<1>6. ASSUME m > 0
      PROVE  (m - 1) * P \in Nat /\ m * P = (m - 1) * P + P
  BY <1>1, <1>6
<1>7. ASSUME r > 0
      PROVE  r - Min({r, P}) \in 0 .. r /\ r - Min({r, P}) <= (m - 1) * P
  <2>1. (m - 1) * P \in Nat /\ m * P = (m - 1) * P + P
    BY <1>5, <1>6, <1>7
  <2> QED
    BY <1>1, <1>4, <2>1
<1> QED
  BY <1>2, <1>3, <1>5, <1>7 DEF P

\* StoreChar fills acBuffer.
LEMMA CharsStored ==
    ASSUME RingInv, StoreChar
    PROVE  RingInv' /\ Len(acBuffer') \in Nat
<1> DEFINE n == Min({rest, PRINTF_BUFFER_SIZE})
<1>1. /\ pc = "store" /\ pc' = "write" /\ writes' = writes + 1
      /\ acBuffer' = Chars(writes + 1, Text(n, ActiveTerminal), Flags)
      /\ rest' = rest - n
      /\ UNCHANGED <<pBuffer, WrOff, RdOff, Flags, ActiveTerminal, todo, pieces,
                     status, wr, changes, host, received>>
  BY DEF StoreChar, ring
<1>2. /\ rest > 0 /\ rest \in Nat /\ writes \in 0 .. MAX_WRITES
      /\ rest <= (MAX_WRITES - writes) * PRINTF_BUFFER_SIZE
      /\ rest <= MAX_LENGTH
  BY <1>1, Sizes DEF RingInv, CallOK, Control
<1>3. n \in Nat /\ n <= PRINTF_BUFFER_SIZE
  BY <1>2, Sizes, MinOfTwo
<1>4. /\ writes < MAX_WRITES /\ rest' \in 0 .. rest
      /\ rest' <= (MAX_WRITES - writes') * PRINTF_BUFFER_SIZE
  BY <1>1, <1>2, WritesLeft
<1> HIDE DEF n
<1>5. acBuffer' \in Seq(Char) /\ Len(acBuffer') = n
  <2>1. PICK s \in Seq(Sign) : s = Text(n, ActiveTerminal) /\ Len(s) = n
    BY <1>3, TextTypes DEF RingInv, CallOK
  <2>2. writes + 1 \in 0 .. MAX_WRITES
    BY <1>2, <1>4, Sizes
  <2>3. Chars(writes + 1, s, Flags) \in Seq(Char)
        /\ Len(Chars(writes + 1, s, Flags)) = Len(s)
    BY <2>2, CharsTypes DEF RingInv, RingOK
  <2> QED
    BY <1>1, <2>1, <2>3
<1>6. CallOK'
  <2>1. rest' \in 0 .. MAX_LENGTH
    BY <1>2, <1>4, Sizes
  <2>2. writes' \in 0 .. MAX_WRITES
    BY <1>1, <1>2, <1>4, Sizes
  <2> QED
    BY <1>1, <1>3, <1>5, <2>1, <2>2 DEF RingInv, CallOK
<1>7. Room'
  BY <1>1, NoCopyRoom
<1>8. Control'
  BY <1>1, <1>4 DEF RingInv, Control
<1> QED
  BY <1>1, <1>3, <1>5, <1>6, <1>7, <1>8 DEF RingInv, RingOK, WriteOK, HostOK

\* What the mode lets in is a front of the buffer.  Where it does not wait,
\* there is space for it.
LEMMA AcceptedFits ==
    ASSUME RingInv, NEW n \in Nat
    PROVE  /\ Accepted(n) \in 0 .. n
           /\ Flags # "BLOCK_IF_FIFO_FULL" =>
                 Between(RdOff, WrOff) + Accepted(n) <= SizeOfBuffer - 1
<1>1. AvailWriteSpace = SizeOfBuffer - 1 - Between(RdOff, WrOff)
      /\ Between(RdOff, WrOff) \in 0 .. SizeOfBuffer - 1
  BY Space, BetweenRange DEF RingInv, RingOK
<1>2. AvailWriteSpace \in Nat
  BY <1>1, Sizes
<1>3. Min({AvailWriteSpace, n}) =
         IF AvailWriteSpace <= n THEN AvailWriteSpace ELSE n
  BY <1>2, MinOfTwo
<1>4. /\ Flags = "NO_BLOCK_SKIP" =>
            Accepted(n) = IF AvailWriteSpace < n THEN 0 ELSE n
      /\ Flags = "NO_BLOCK_TRIM" => Accepted(n) = Min({AvailWriteSpace, n})
      /\ Flags = "BLOCK_IF_FIFO_FULL" => Accepted(n) = n
  BY DEF Accepted
<1>5. Flags \in {"NO_BLOCK_SKIP", "NO_BLOCK_TRIM", "BLOCK_IF_FIFO_FULL"}
  BY DEF RingInv, RingOK, Modes
<1> HIDE DEF RingInv
<1> QED
  BY <1>1, <1>2, <1>3, <1>4, <1>5, Sizes

\* A full buffer is written a second time under a number of its own.
LEMMA WrittenAgain ==
    ASSUME RingInv, rest > 0, WriteAgain
    PROVE  /\ writes' = writes + 1 /\ writes' \in 0 .. MAX_WRITES
           /\ acBuffer' \in Seq(Char) /\ Len(acBuffer') = Len(acBuffer)
           /\ \A k \in 1 .. Len(acBuffer') :
                 /\ acBuffer'[k].chunk = writes' /\ acBuffer'[k].i = k
                 /\ acBuffer'[k].of = Len(acBuffer')
                 /\ acBuffer'[k].mode = Flags
<1> DEFINE n == Len(acBuffer)
<1>1. /\ writes' = writes + 1
      /\ acBuffer' = Chars(writes + 1, Text(n, ActiveTerminal), Flags)
  BY DEF WriteAgain
<1>2. n \in Nat
  BY LenProperties DEF RingInv, CallOK
<1>3. writes \in 0 .. MAX_WRITES /\ rest \in Nat
      /\ rest <= (MAX_WRITES - writes) * PRINTF_BUFFER_SIZE
  BY Sizes DEF RingInv, CallOK, Control
<1>4. writes + 1 \in 0 .. MAX_WRITES
  BY <1>3, WritesLeft, Sizes
<1> HIDE DEF n
<1>5. PICK s \in Seq(Sign) : s = Text(n, ActiveTerminal) /\ Len(s) = n
  BY <1>2, TextTypes DEF RingInv, CallOK
<1>6. /\ Chars(writes + 1, s, Flags) \in Seq(Char)
      /\ Len(Chars(writes + 1, s, Flags)) = Len(s)
      /\ \A k \in 1 .. Len(s) :
            /\ Chars(writes + 1, s, Flags)[k].chunk = writes + 1
            /\ Chars(writes + 1, s, Flags)[k].i = k
            /\ Chars(writes + 1, s, Flags)[k].of = Len(s)
            /\ Chars(writes + 1, s, Flags)[k].mode = Flags
  BY <1>4, CharsTypes DEF RingInv, RingOK
<1>7. Chars(writes + 1, s, Flags) = acBuffer' /\ Len(s) = n
  BY <1>1, <1>5
<1>8. /\ acBuffer' \in Seq(Char) /\ Len(acBuffer') = n
      /\ \A k \in 1 .. n :
            /\ acBuffer'[k].chunk = writes' /\ acBuffer'[k].i = k
            /\ acBuffer'[k].of = n /\ acBuffer'[k].mode = Flags
  BY <1>1, <1>6, <1>7, Zenon
<1> QED
  BY <1>1, <1>4, <1>8 DEF n

\* What Written makes of the call.
LEMMA CallReturns ==
    ASSUME RingInv, NEW n, Written(n),
           UNCHANGED <<ActiveTerminal, changes, Flags>>,
           todo' = <<>>, pieces' = <<>>
    PROVE  /\ CallOK' /\ Control' /\ pc' \in {"idle", "store", "write"}
           /\ rest' \in {0, rest}
<1>1. /\ \/ /\ pc' = "store" /\ rest' = rest /\ rest > 0
            /\ acBuffer' = <<>> /\ writes' = writes
         \/ pc' = "idle" /\ rest' = 0 /\ acBuffer' = <<>> /\ writes' = writes
         \/ pc' = "write" /\ rest' = 0 /\ rest > 0 /\ WriteAgain
      /\ status' = 0
  BY DEF Written, Return, WriteAgain
<1>2. rest \in 0 .. MAX_LENGTH
      /\ rest <= (MAX_WRITES - writes) * PRINTF_BUFFER_SIZE
      /\ writes \in 0 .. MAX_WRITES
  BY DEF RingInv, CallOK, Control
<1>3. /\ acBuffer' \in Seq(Char) /\ Len(acBuffer') <= PRINTF_BUFFER_SIZE
      /\ writes' \in 0 .. MAX_WRITES
      /\ status' \in 0 .. PRINTF_BUFFER_SIZE
  <2>1. CASE acBuffer' = <<>> /\ writes' = writes
    BY <1>1, <1>2, <2>1, EmptySeq, Sizes
  <2>2. CASE rest > 0 /\ WriteAgain
    BY <1>1, <2>2, WrittenAgain, Sizes DEF RingInv, CallOK
  <2> QED
    BY <1>1, <2>1, <2>2
<1>4. /\ rest' \in 0 .. MAX_LENGTH
      /\ rest' <= (MAX_WRITES - writes') * PRINTF_BUFFER_SIZE
  <2>1. (MAX_WRITES - writes) * PRINTF_BUFFER_SIZE \in Int
    BY <1>2, Sizes
  <2>2. CASE rest' \in {0, rest} /\ writes' = writes
    BY <1>2, <2>1, <2>2, Sizes
  <2>3. CASE rest' = 0 /\ rest > 0 /\ WriteAgain
    <3>1. writes' = writes + 1 /\ MAX_WRITES - (writes + 1) \in Int
      BY <1>2, <2>3, Sizes, WrittenAgain
    <3>2. (MAX_WRITES - (writes + 1)) * PRINTF_BUFFER_SIZE \in Int
      BY <3>1, Sizes
    <3>3. /\ rest - Min({rest, PRINTF_BUFFER_SIZE}) \in 0 .. rest
          /\ rest - Min({rest, PRINTF_BUFFER_SIZE})
                <= (MAX_WRITES - (writes + 1)) * PRINTF_BUFFER_SIZE
      <4>1. rest \in Nat
        BY <1>2, Sizes
      <4> QED
        BY <1>2, <2>3, <4>1, WritesLeft
    <3>4. 0 <= (MAX_WRITES - (writes + 1)) * PRINTF_BUFFER_SIZE
      <4>1. PICK r \in 0 .. rest :
               r <= (MAX_WRITES - (writes + 1)) * PRINTF_BUFFER_SIZE
        BY <3>3
      <4> QED
        BY <1>2, <3>2, <4>1, Sizes
    <3> QED
      BY <2>3, <3>1, <3>4, Sizes
  <2> QED
    BY <1>1, <2>2, <2>3
<1> QED
  BY <1>1, <1>3, <1>4 DEF RingInv, CallOK, Control

\* SEGGER_RTT_WriteNoLock chooses how much to copy.
LEMMA WriteStarts ==
    ASSUME RingInv, SEGGER_RTT_WriteNoLock
    PROVE  RingInv'
<1> DEFINE n == Accepted(Len(acBuffer))
<1>1. Len(acBuffer) \in Nat /\ acBuffer \in Seq(Char)
      /\ Len(acBuffer) <= PRINTF_BUFFER_SIZE
  BY LenProperties DEF RingInv, CallOK
<1>2. /\ n \in 0 .. Len(acBuffer)
      /\ Flags # "BLOCK_IF_FIFO_FULL" =>
            Between(RdOff, WrOff) + n <= SizeOfBuffer - 1
  BY <1>1, AcceptedFits
<1>3. /\ pc = "write"
      /\ UNCHANGED <<pBuffer, WrOff, RdOff, Flags, ActiveTerminal, pieces, wr,
                     changes, host, received>>
      /\ \/ Written(0) /\ UNCHANGED todo
         \/ /\ todo' = SubSeq(acBuffer, 1, n) /\ status' = n
            /\ pc' = IF Flags = "BLOCK_IF_FIFO_FULL" THEN "block" ELSE "copy"
            /\ UNCHANGED <<rest, acBuffer, writes>>
  BY DEF SEGGER_RTT_WriteNoLock, ring
<1>4. todo = <<>> /\ pieces = <<>>
  BY <1>3 DEF RingInv, Control
<1> HIDE DEF n
<1>5. CASE Written(0) /\ UNCHANGED todo
  <2>1. CallOK' /\ Control' /\ pc' \in {"idle", "store", "write"}
    BY <1>3, <1>4, <1>5, CallReturns
  <2>2. Room'
    BY <1>3, <2>1, NoCopyRoom
  <2> QED
    BY <1>3, <1>5, <2>1, <2>2 DEF RingInv, RingOK, WriteOK, HostOK
<1>6. CASE /\ todo' = SubSeq(acBuffer, 1, n) /\ status' = n
           /\ pc' = IF Flags = "BLOCK_IF_FIFO_FULL" THEN "block" ELSE "copy"
           /\ UNCHANGED <<rest, acBuffer, writes>>
  <2>1. todo' \in Seq(Char) /\ Len(todo') = n
    BY <1>1, <1>2, <1>6, FrontAndRest
  <2>2. RingOK' /\ WriteOK' /\ CallOK' /\ HostOK'
    BY <1>1, <1>2, <1>3, <1>6, <2>1, Sizes
       DEF RingInv, RingOK, WriteOK, CallOK, HostOK
  <2>3. Control'
    BY <1>1, <1>2, <1>3, <1>4, <1>6, <2>1, Sizes DEF RingInv, Control
  <2>4. Copied' = 0 /\ Copied = 0 /\ LeftOver' = n
    <3>1. LeftOver' = Len(todo')
      BY <1>3, <1>4, <2>1, <1>2 DEF LeftOver, PieceLen
    <3> QED
      BY <1>3, <1>6, <2>1, <3>1 DEF Copied
  <2>5. Room'
    <3>1. Flags' # "BLOCK_IF_FIFO_FULL" =>
             Between(RdOff, WrOff) + 0 + n <= SizeOfBuffer - 1
      BY <1>2, <1>3, BetweenRange, Sizes DEF RingInv, RingOK
    <3>2. Between(RdOff, WrOff) + 0 <= SizeOfBuffer - 1
      BY BetweenRange, Sizes DEF RingInv, RingOK
    <3>3. pc' \in {"block", "copy"}
          /\ (pc' = "copy" => Flags' # "BLOCK_IF_FIFO_FULL")
      BY <1>3, <1>6
    <3> QED
      BY <1>3, <2>4, <3>1, <3>2, <3>3, SameOffsets
  <2> QED
    BY <2>2, <2>3, <2>5 DEF RingInv
<1> QED
  BY <1>3, <1>5, <1>6

\* memcpy to a place from which n elements do not reach beyond the ring.
LEMMA Copy ==
    ASSUME RingInv, NEW at \in Offsets, NEW n \in 0 .. Len(todo),
           at + n <= SizeOfBuffer, Memcpy(at, n)
    PROVE  /\ pBuffer' \in [Offsets -> Char]
           /\ todo' \in Seq(Char) /\ Len(todo') = Len(todo) - n
           /\ n = Len(todo) => todo' = <<>>
<1>1. todo \in Seq(Char) /\ Len(todo) \in Nat
  BY LenProperties DEF RingInv, WriteOK
<1>2. \A k \in 1 .. Len(todo) : todo[k] \in Char
  BY <1>1, ElementOfSeq
<1>3. todo' \in Seq(Char) /\ Len(todo') = Len(todo) - n
  BY <1>1, FrontAndRest DEF Memcpy
<1>4. n = Len(todo) => todo' = <<>>
  BY <1>1, SubSeqEmpty DEF Memcpy
<1>5. \A o \in Offsets : o \in at .. at + n - 1 => o - at + 1 \in 1 .. Len(todo)
  BY <1>1, Sizes DEF Offsets
<1>6. pBuffer' \in [Offsets -> Char]
  BY <1>2, <1>5, Zenon DEF Memcpy, RingInv, RingOK
<1> QED
  BY <1>3, <1>4, <1>6

\* What a copy leaves alone stays within its types.
LEMMA CopyTypes ==
    ASSUME RingInv, Untouched, pBuffer' \in [Offsets -> Char],
           todo' \in Seq(Char), wr' \in 0 .. SizeOfBuffer + PRINTF_BUFFER_SIZE,
           pc' \in {"idle", "wrap", "publish"}
    PROVE  RingOK' /\ WriteOK' /\ CallOK' /\ HostOK'
BY DEF RingInv, RingOK, WriteOK, CallOK, HostOK, Untouched

\* _WriteNoCheck, up to the end of the ring.
LEMMA CopiesToEnd ==
    ASSUME RingInv, WriteNoCheck
    PROVE  RingInv' /\ \E n \in Nat : Enters(n)
<1> DEFINE Rem == SizeOfBuffer - WrOff
           n   == Min({Rem, Len(todo)})
<1>1. /\ pc = "copy" /\ Memcpy(WrOff, n) /\ wr' = WrOff + Len(todo)
      /\ pc' = IF Rem > Len(todo) THEN "publish" ELSE "wrap"
      /\ Untouched
  BY DEF WriteNoCheck
<1>2. /\ Len(todo) \in Nat /\ WrOff \in 0 .. SizeOfBuffer - 1
      /\ WrOff \in Offsets /\ RdOff \in Offsets
      /\ Len(todo) <= PRINTF_BUFFER_SIZE + 1 /\ pieces = <<>>
      /\ LeftOver = Len(todo) /\ Copied = 0
      /\ Between(RdOff, WrOff) \in 0 .. SizeOfBuffer - 1
      /\ Between(RdOff, WrOff) + Len(todo) <= SizeOfBuffer - 1
  <2>1. pieces = <<>> /\ Len(todo) <= PRINTF_BUFFER_SIZE + 1
    BY <1>1 DEF RingInv, Control
  <2>2. Len(todo) \in Nat /\ LeftOver = Len(todo)
        /\ Between(RdOff, WrOff) \in 0 .. SizeOfBuffer - 1
    BY <1>1, <2>1, Counts DEF RingInv, Room
  <2>3. Copied = 0
    BY <1>1 DEF Copied
  <2> QED
    BY <1>1, <2>1, <2>2, <2>3 DEF RingInv, RingOK, Room, Offsets
<1>3. n = IF Rem <= Len(todo) THEN Rem ELSE Len(todo)
  <2>1. Rem \in Int /\ Len(todo) \in Int
    BY <1>2, Sizes
  <2> HIDE DEF Rem
  <2> QED
    BY <2>1, MinOfTwo
<1>4. n \in 0 .. Len(todo) /\ WrOff + n <= SizeOfBuffer
  BY <1>2, <1>3, Sizes
<1> HIDE DEF n
<1>5. /\ pBuffer' \in [Offsets -> Char]
      /\ todo' \in Seq(Char) /\ Len(todo') = Len(todo) - n
      /\ n = Len(todo) => todo' = <<>>
  BY <1>1, <1>2, <1>4, Copy
<1>6. RingOK' /\ WriteOK' /\ CallOK' /\ HostOK'
  <2>1. wr' \in 0 .. SizeOfBuffer + PRINTF_BUFFER_SIZE
    BY <1>1, <1>2, Sizes
  <2> QED
    BY <1>1, <1>5, <2>1, CopyTypes
<1>7. Control'
  BY <1>1, <1>2 DEF RingInv, Control, Untouched
<1>8. LeftOver' = Len(todo) - n
  BY <1>1, <1>2, <1>5 DEF LeftOver, PieceLen, Untouched
<1>9. Copied' = n /\ (pc' = "publish" => wr' \in Offsets)
  <2>1. CASE Rem > Len(todo)
    <3>1. pc' = "publish" /\ wr' = WrOff + Len(todo) /\ n = Len(todo)
          /\ wr' \in Offsets
      BY <1>1, <1>2, <1>3, <2>1, Sizes DEF Offsets
    <3>2. Between(WrOff, WrOff + Len(todo)) = Len(todo)
      BY <1>2 DEF Between
    <3> QED
      BY <1>1, <3>1, <3>2 DEF Copied, Untouched, Between
  <2>2. CASE ~(Rem > Len(todo))
    BY <1>1, <1>2, <1>3, <2>2, Sizes DEF Copied, Untouched
  <2> QED
    BY <2>1, <2>2
<1>10. Room'
  <2>1. UNCHANGED <<WrOff, RdOff, host, Flags>>
    BY <1>1 DEF Untouched
  <2>2. Between(RdOff, WrOff) + Copied' + LeftOver' <= SizeOfBuffer - 1
        /\ Between(RdOff, WrOff) + Copied' <= SizeOfBuffer - 1
    BY <1>2, <1>4, <1>8, <1>9, Sizes
  <2> QED
    BY <1>9, <2>1, <2>2, SameOffsets
<1>11. Enters(n) /\ n \in Nat
  <2>1. (WrOff + Copied) % SizeOfBuffer = WrOff
    BY <1>2, Sizes
  <2>2. Copied' = Copied + n
    BY <1>2, <1>4, <1>9
  <2> QED
    BY <1>1, <1>2, <1>4, <2>1, <2>2 DEF Enters
<1> QED
  BY <1>6, <1>7, <1>10, <1>11 DEF RingInv

\* _WriteNoCheck, from the start of the ring.
LEMMA CopiesFromStart ==
    ASSUME RingInv, WriteNoCheckWraps
    PROVE  RingInv' /\ \E n \in Nat : Enters(n)
<1>1. /\ pc = "wrap" /\ Memcpy(0, Len(todo)) /\ wr' = Len(todo)
      /\ pc' = "publish" /\ Untouched
  BY DEF WriteNoCheckWraps
<1>2. /\ Len(todo) \in Nat /\ WrOff \in 0 .. SizeOfBuffer - 1
      /\ pieces = <<>> /\ LeftOver = Len(todo)
      /\ Copied = SizeOfBuffer - WrOff
      /\ Between(RdOff, WrOff) \in 0 .. SizeOfBuffer - 1
      /\ Between(RdOff, WrOff) + Copied + Len(todo) <= SizeOfBuffer - 1
  <2>1. pieces = <<>>
    BY <1>1 DEF RingInv, Control
  <2>2. Len(todo) \in Nat /\ LeftOver = Len(todo)
        /\ Between(RdOff, WrOff) \in 0 .. SizeOfBuffer - 1
    BY <1>1, <2>1, Counts DEF RingInv, Room
  <2>3. Copied = SizeOfBuffer - WrOff
    BY <1>1 DEF Copied
  <2> QED
    BY <1>1, <2>1, <2>2, <2>3 DEF RingInv, RingOK, Room, Offsets
<1>3. Len(todo) < WrOff
  BY <1>2, Sizes
<1>4. /\ pBuffer' \in [Offsets -> Char]
      /\ todo' \in Seq(Char) /\ todo' = <<>>
  <2>1. 0 \in Offsets /\ Len(todo) \in 0 .. Len(todo)
        /\ 0 + Len(todo) <= SizeOfBuffer
    BY <1>2, <1>3, Sizes DEF Offsets
  <2> QED
    BY <1>1, <2>1, Copy
<1>5. wr' \in Offsets /\ wr' \in 0 .. SizeOfBuffer + PRINTF_BUFFER_SIZE
  BY <1>1, <1>2, <1>3, Sizes DEF Offsets
<1>6. RingOK' /\ WriteOK' /\ CallOK' /\ HostOK'
  BY <1>1, <1>4, <1>5, CopyTypes
<1>7. Control'
  BY <1>1, <1>2 DEF RingInv, Control, Untouched
<1>8. Copied' = Copied + Len(todo) /\ LeftOver' = 0
  <2>1. WrOff' = WrOff /\ pieces' = <<>>
    BY <1>1, <1>2 DEF Untouched
  <2>2. Copied' = Between(WrOff, Len(todo))
    BY <1>1, <2>1 DEF Copied, Between
  <2>3. Between(WrOff, Len(todo)) = Copied + Len(todo)
    BY <1>2, <1>3, Sizes DEF Between
  <2> QED
    BY <1>4, <2>1, <2>2, <2>3 DEF LeftOver, PieceLen
<1>9. Room'
  <2>1. UNCHANGED <<WrOff, RdOff, host, Flags>>
    BY <1>1 DEF Untouched
  <2>2. Between(RdOff, WrOff) + Copied' + LeftOver' <= SizeOfBuffer - 1
        /\ Between(RdOff, WrOff) + Copied' <= SizeOfBuffer - 1
    BY <1>2, <1>8, Sizes
  <2> QED
    BY <1>5, <2>1, <2>2, SameOffsets
<1>10. Enters(Len(todo)) /\ Len(todo) \in Nat
  <2>1. (WrOff + Copied) % SizeOfBuffer = 0
    BY <1>2, Sizes
  <2>2. 0 + Len(todo) <= SizeOfBuffer
    BY <1>2, <1>3, Sizes
  <2> QED
    BY <1>1, <1>2, <1>8, <2>1, <2>2 DEF Enters
<1> QED
  BY <1>6, <1>7, <1>9, <1>10 DEF RingInv

\* A turn of _WriteBlocking copies no more than fits before the debugger and
\* before the end of the ring.
LEMMA TurnFits ==
    ASSUME RingInv, pc = "block"
    PROVE  LET n == NumBytesToWrite
           IN  /\ n \in 0 .. Len(todo)
               /\ WrOff + n <= SizeOfBuffer
               /\ Between(RdOff, WrOff) + n <= SizeOfBuffer - 1
               /\ WrOffAfter(n) \in Offsets
               /\ Between(WrOff, WrOffAfter(n)) = n
<1>1. /\ Len(todo) \in Nat /\ WrOff \in 0 .. SizeOfBuffer - 1
      /\ WrOff \in Offsets /\ RdOff \in Offsets
      /\ Between(RdOff, WrOff) \in 0 .. SizeOfBuffer - 1
  BY Counts DEF RingInv, RingOK, Room, Offsets
<1>2. AvailWriteSpace = SizeOfBuffer - 1 - Between(RdOff, WrOff)
  BY <1>1, Space
<1> DEFINE n == NumBytesToWrite
           a == AvailWriteSpace
           r == SizeOfBuffer - WrOff
<1>3. a \in Nat /\ r \in Nat \ {0}
  BY <1>1, <1>2, Sizes
<1>4. n = Min({a, r, Len(todo)})
  BY DEF NumBytesToWrite
<1>5. n \in Nat /\ n <= a /\ n <= r /\ n <= Len(todo)
  <2> HIDE DEF n, a, r
  <2>1. /\ Min({a, r, Len(todo)}) \in {a, r, Len(todo)}
        /\ Min({a, r, Len(todo)}) <= a /\ Min({a, r, Len(todo)}) <= r
        /\ Min({a, r, Len(todo)}) <= Len(todo)
    <3>1. a \in Int /\ r \in Int /\ Len(todo) \in Int
      BY <1>1, <1>3
    <3> QED
      BY <3>1, MinOfThree, Zenon
  <2> QED
    BY <1>1, <1>3, <1>4, <2>1
<1> HIDE DEF n
<1>6. /\ n \in 0 .. Len(todo) /\ WrOff + n <= SizeOfBuffer
      /\ Between(RdOff, WrOff) + n <= SizeOfBuffer - 1
  BY <1>1, <1>2, <1>5, Sizes
<1>7. WrOffAfter(n) \in Offsets /\ Between(WrOff, WrOffAfter(n)) = n
  BY <1>1, <1>6, Sizes DEF WrOffAfter, Offsets, Between
<1> QED
  BY <1>6, <1>7 DEF n

\* One turn of _WriteBlocking.
LEMMA CopiesATurn ==
    ASSUME RingInv, WriteBlocking
    PROVE  RingInv' /\ \E n \in Nat : Enters(n)
<1> DEFINE n == NumBytesToWrite
<1>1. /\ pc = "block" /\ Memcpy(WrOff, n) /\ wr' = WrOffAfter(n)
      /\ pc' = "publish" /\ Untouched
  BY DEF WriteBlocking
<1>2. /\ n \in 0 .. Len(todo) /\ WrOff + n <= SizeOfBuffer
      /\ Between(RdOff, WrOff) + n <= SizeOfBuffer - 1
      /\ WrOffAfter(n) \in Offsets
      /\ Between(WrOff, WrOffAfter(n)) = n
  BY <1>1, TurnFits
<1> HIDE DEF n
<1>3. /\ Len(todo) \in Nat /\ WrOff \in Offsets
      /\ PieceLen(1) \in Nat /\ PieceLen(2) \in Nat
      /\ Between(RdOff, WrOff) \in 0 .. SizeOfBuffer - 1
      /\ Copied = 0
  <2>1. Copied = 0
    BY <1>1 DEF Copied
  <2> QED
    BY <2>1, Counts DEF RingInv, RingOK, Room
<1>4. /\ pBuffer' \in [Offsets -> Char]
      /\ todo' \in Seq(Char) /\ Len(todo') = Len(todo) - n
  BY <1>1, <1>2, <1>3, Copy
<1>5. wr' \in Offsets /\ wr' \in 0 .. SizeOfBuffer + PRINTF_BUFFER_SIZE
  BY <1>1, <1>2, Sizes DEF Offsets
<1>6. RingOK' /\ WriteOK' /\ CallOK' /\ HostOK'
  BY <1>1, <1>4, <1>5, CopyTypes
<1>7. Control'
  BY <1>1 DEF RingInv, Control, Untouched
<1>8. Copied' = n /\ LeftOver' = LeftOver - n
  <2>1. WrOff' = WrOff /\ pieces' = pieces
    BY <1>1 DEF Untouched
  <2>2. Copied' = Between(WrOff, WrOffAfter(n))
    BY <1>1, <2>1 DEF Copied, Between
  <2>3. PieceLen(1)' = PieceLen(1) /\ PieceLen(2)' = PieceLen(2)
    BY <2>1 DEF PieceLen
  <2> QED
    BY <1>2, <1>3, <1>4, <2>2, <2>3 DEF LeftOver
<1>9. Room'
  <2>1. UNCHANGED <<WrOff, RdOff, host, Flags>>
    BY <1>1 DEF Untouched
  <2>2. Between(RdOff, WrOff) + Copied' <= SizeOfBuffer - 1
    BY <1>2, <1>8
  <2>3. LeftOver \in Nat
    BY <1>3 DEF LeftOver
  <2>4. Flags # "BLOCK_IF_FIFO_FULL" =>
           Between(RdOff, WrOff) + Copied' + LeftOver' <= SizeOfBuffer - 1
    <3>1. Flags # "BLOCK_IF_FIFO_FULL" =>
             Between(RdOff, WrOff) + Copied + LeftOver <= SizeOfBuffer - 1
      BY <1>1 DEF RingInv, Room
    <3> QED
      BY <1>2, <1>3, <1>8, <2>3, <3>1, Sizes
  <2> QED
    BY <1>1, <1>5, <2>1, <2>2, <2>4, SameOffsets
<1>10. Enters(n) /\ n \in Nat
  <2>1. (WrOff + Copied) % SizeOfBuffer = WrOff
    BY <1>3, Sizes DEF Offsets
  <2>2. Copied' = Copied + n
    BY <1>2, <1>3, <1>8
  <2> QED
    BY <1>1, <1>2, <1>3, <2>1, <2>2 DEF Enters
<1> QED
  BY <1>6, <1>7, <1>9, <1>10 DEF RingInv

\* One of at most two pieces is taken.
LEMMA FirstOfTwo ==
    ASSUME NEW S, NEW s \in Seq(S), Len(s) <= 2, s # <<>>
    PROVE  /\ Head(s) \in S /\ Head(s) = s[1] /\ Tail(s) \in Seq(S)
           /\ Len(s) \in {1, 2} /\ Len(Tail(s)) = Len(s) - 1
           /\ Len(s) = 2 => Tail(s)[1] = s[2]
           /\ Len(Tail(s)) <= 2
<1>1. Len(s) \in Nat /\ Len(s) # 0
  BY LenProperties, EmptySeq
<1>2. Len(s) \in {1, 2}
  <2>1. \A n \in Nat : n <= 2 /\ n # 0 => n \in {1, 2}
    OBVIOUS
  <2> QED
    BY <1>1, <2>1, Zenon
<1>3. /\ Head(s) \in S /\ Tail(s) \in Seq(S) /\ Len(Tail(s)) = Len(s) - 1
      /\ \A j \in 1 .. Len(Tail(s)) : Tail(s)[j] = s[j + 1]
  BY HeadTailProperties
<1>4. Head(s) = s[1]
  OBVIOUS
<1>5. Len(s) = 2 => Tail(s)[1] = s[2]
  <2>1. 2 - 1 = 1 /\ 1 + 1 = 2 /\ 1 \in 1 .. 1
    OBVIOUS
  <2> QED
    BY <1>3, <2>1, Zenon
<1>6. Len(Tail(s)) <= 2
  BY <1>2, <1>3
<1> QED
  BY <1>2, <1>3, <1>4, <1>5, <1>6

\* A turn of _WriteBlocking that has copied its piece goes on to the next.
TakesPiece ==
    /\ todo = <<>> /\ pieces # <<>>
    /\ todo' = Head(pieces) /\ pieces' = Tail(pieces)

\* The next piece of a write is nearer by one place.
LEMMA NextPiece ==
    ASSUME RingInv, TakesPiece
    PROVE  /\ todo' \in Seq(Char) /\ pieces' \in Seq(Seq(Char))
           /\ Len(pieces') <= 2
           /\ Len(todo) = 0 /\ todo' = pieces[1] /\ Len(todo') = PieceLen(1)
           /\ PieceLen(1)' = PieceLen(2) /\ PieceLen(2)' = 0
           /\ PieceLen(2) # 0 => pieces'[1] = pieces[2]
           /\ LeftOver' = LeftOver
<1>1. pieces \in Seq(Seq(Char)) /\ Len(pieces) <= 2
  BY DEF RingInv, WriteOK
<1>2. /\ Head(pieces) \in Seq(Char) /\ Head(pieces) = pieces[1]
      /\ Tail(pieces) \in Seq(Seq(Char))
      /\ Len(pieces) \in {1, 2} /\ Len(Tail(pieces)) = Len(pieces) - 1
      /\ Len(pieces) = 2 => Tail(pieces)[1] = pieces[2]
      /\ Len(Tail(pieces)) <= 2
  BY <1>1, FirstOfTwo DEF TakesPiece
<1>3. Len(todo) = 0 /\ todo' = Head(pieces) /\ pieces' = Tail(pieces)
  BY DEF TakesPiece
<1>4. /\ Len(todo') = PieceLen(1) /\ PieceLen(1)' = PieceLen(2)
      /\ PieceLen(2)' = 0
      /\ PieceLen(2) # 0 => pieces'[1] = pieces[2]
  <2>1. CASE Len(pieces) = 1
    BY <1>2, <1>3, <2>1 DEF PieceLen
  <2>2. CASE Len(pieces) = 2
    <3>1. /\ PieceLen(1) = Len(pieces[1]) /\ PieceLen(2) = Len(pieces[2])
          /\ todo' = pieces[1]
      BY <1>2, <1>3, <2>2 DEF PieceLen
    <3>2. Len(pieces') = 1 /\ pieces'[1] = pieces[2]
      <4>1. Len(Tail(pieces)) = 1
        BY <1>2, <2>2
      <4> QED
        BY <1>2, <1>3, <2>2, <4>1, Zenon
    <3>3. PieceLen(1)' = Len(pieces[2]) /\ PieceLen(2)' = 0
      BY <3>2 DEF PieceLen
    <3> QED
      BY <3>1, <3>2, <3>3
  <2> QED
    BY <1>2, <2>1, <2>2
<1>5. PieceLen(1) \in Nat /\ PieceLen(2) \in Nat
  BY Counts DEF RingInv, Room
<1>6. LeftOver' = LeftOver
  BY <1>3, <1>4, <1>5 DEF LeftOver
<1> QED
  BY <1>2, <1>3, <1>4, <1>6

\* The debugger learns of what was copied, and the write goes on or ends.
LEMMA Published ==
    ASSUME RingInv, Publish
    PROVE  RingInv'
<1>1. /\ pc = "publish" /\ WrOff' = wr
      /\ \/ /\ todo = <<>> /\ pieces = <<>> /\ Written(status)
            /\ UNCHANGED <<todo, pieces>>
         \/ /\ pc' = "block"
            /\ \/ /\ todo = <<>> /\ pieces # <<>>
                  /\ todo' = Head(pieces) /\ pieces' = Tail(pieces)
               \/ UNCHANGED <<todo, pieces>>
            /\ UNCHANGED <<rest, acBuffer, status, writes>>
      /\ UNCHANGED <<pBuffer, RdOff, Flags, ActiveTerminal, wr, changes, host,
                     received>>
  BY DEF Publish
<1>2. /\ wr \in Offsets /\ WrOff \in Offsets /\ RdOff \in Offsets
      /\ Copied = Between(WrOff, wr)
      /\ Between(RdOff, WrOff) + Copied <= SizeOfBuffer - 1
      /\ Flags # "BLOCK_IF_FIFO_FULL" =>
            Between(RdOff, WrOff) + Copied + LeftOver <= SizeOfBuffer - 1
  BY <1>1 DEF RingInv, RingOK, Room, Copied
<1>3. Between(RdOff, wr) = Between(RdOff, WrOff) + Copied
  BY <1>2, ByWayOf
<1>4. RingOK' /\ HostOK'
  BY <1>1, <1>2 DEF RingInv, RingOK, HostOK
<1>5. /\ Between(RdOff, WrOff)' = Between(RdOff, wr)
      /\ Between(RdOff, host.upto)' = Between(RdOff, host.upto)
  BY <1>1 DEF Between
<1>6. Copied' = 0
  <2>1. pc' \in {"idle", "store", "write", "block"}
    BY <1>1 DEF Written, Return, WriteAgain
  <2> QED
    BY <2>1 DEF Copied
<1>7. host.pc # "idle" =>
         Between(RdOff, host.upto)' <= Between(RdOff, WrOff)'
  <2>1. host.pc # "idle" =>
           Between(RdOff, host.upto) <= Between(RdOff, WrOff)
    BY DEF RingInv, Room
  <2>2. /\ Between(RdOff, WrOff) \in Nat /\ Copied \in Nat
        /\ Between(RdOff, host.upto) \in Nat
    BY <1>2, BetweenRange, Sizes DEF RingInv, HostOK
  <2> QED
    BY <1>3, <1>5, <2>1, <2>2
<1>8. CASE todo = <<>> /\ pieces = <<>> /\ Written(status)
           /\ UNCHANGED <<todo, pieces>>
  <2>1. CallOK' /\ Control' /\ pc' \in {"idle", "store", "write"}
    BY <1>1, <1>8, CallReturns DEF RingInv, CallOK
  <2>2. WriteOK'
    BY <1>1, <1>8, <2>1 DEF RingInv, WriteOK
  <2>3. Room'
    <3>1. Between(RdOff, WrOff)' + Copied' <= SizeOfBuffer - 1
      BY <1>2, <1>3, <1>5, <1>6, BetweenRange, Sizes
    <3>2. pc' \notin {"copy", "wrap", "block", "publish"}
      BY <2>1
    <3> QED
      BY <1>1, <1>7, <3>1, <3>2 DEF Room
  <2> QED
    BY <1>4, <2>1, <2>2, <2>3 DEF RingInv
<1>9. ASSUME pc' = "block", UNCHANGED <<rest, acBuffer, status, writes>>,
             \/ /\ todo = <<>> /\ pieces # <<>>
                /\ todo' = Head(pieces) /\ pieces' = Tail(pieces)
             \/ UNCHANGED <<todo, pieces>>
      PROVE  RingInv'
  <2>1. /\ todo' \in Seq(Char) /\ pieces' \in Seq(Seq(Char))
        /\ Len(pieces') <= 2 /\ LeftOver' = LeftOver
    <3>1. CASE UNCHANGED <<todo, pieces>>
      BY <3>1 DEF RingInv, WriteOK, LeftOver, PieceLen
    <3>2. CASE todo = <<>> /\ pieces # <<>>
               /\ todo' = Head(pieces) /\ pieces' = Tail(pieces)
      BY <3>2, NextPiece DEF TakesPiece
    <3> QED
      BY <1>9, <3>1, <3>2
  <2>2. WriteOK' /\ CallOK'
    BY <1>1, <1>9, <2>1 DEF RingInv, WriteOK, CallOK
  <2>3. Control'
    BY <1>1, <1>9 DEF RingInv, Control
  <2>4. Room'
    <3>1. /\ Between(RdOff, WrOff) \in Nat /\ Copied \in Nat
          /\ LeftOver \in Nat
      BY <1>2, BetweenRange, Sizes, Counts DEF RingInv, Room
    <3> QED
      BY <1>1, <1>2, <1>3, <1>5, <1>6, <1>7, <1>9, <2>1, <3>1, Sizes DEF Room
  <2> QED
    BY <1>4, <2>2, <2>3, <2>4 DEF RingInv
<1> QED
  BY <1>1, <1>8, <1>9

\* The offset behind that of the program is the debugger's if and only if the
\* ring is full.
LEMMA NextPlace ==
    ASSUME RingInv
    PROVE  /\ NextWrOff \in Offsets
           /\ NextWrOff # RdOff =>
                 /\ Between(RdOff, WrOff) + 1 <= SizeOfBuffer - 1
                 /\ Between(WrOff, NextWrOff) = 1
BY Sizes DEF RingInv, RingOK, NextWrOff, Offsets, Between

\* SEGGER_RTT_PutChar and SEGGER_RTT_PutCharSkip.
LEMMA PutStarts ==
    ASSUME RingInv, NEW next \in {"wait", "put"}, StartPut(next),
           next = "wait" => Flags = "BLOCK_IF_FIFO_FULL"
    PROVE  RingInv'
<1>1. /\ pc = "idle" /\ writes < MAX_WRITES /\ writes' = writes + 1
      /\ todo' = Chars(writes + 1, Text(1, ActiveTerminal), Flags)
      /\ pc' = next
      /\ UNCHANGED <<pBuffer, WrOff, RdOff, Flags, ActiveTerminal, rest,
                     acBuffer, pieces, status, wr, changes, host, received>>
  BY DEF StartPut, ring
<1>2. writes \in 0 .. MAX_WRITES /\ rest = 0 /\ pieces = <<>>
  BY <1>1 DEF RingInv, CallOK, Control
<1>3. writes' \in 0 .. MAX_WRITES
  BY <1>1, <1>2, Sizes
<1>4. todo' \in Seq(Char) /\ Len(todo') = 1
  <2>1. PICK s \in Seq(Sign) : s = Text(1, ActiveTerminal) /\ Len(s) = 1
    BY TextTypes DEF RingInv, CallOK
  <2>2. Chars(writes + 1, s, Flags) \in Seq(Char)
        /\ Len(Chars(writes + 1, s, Flags)) = Len(s)
    BY <1>1, <1>3, CharsTypes DEF RingInv, RingOK
  <2> QED
    BY <1>1, <2>1, <2>2
<1>5. 0 <= (MAX_WRITES - writes') * PRINTF_BUFFER_SIZE
  <2>1. \A w \in 0 .. MAX_WRITES : 0 <= (MAX_WRITES - w) * PRINTF_BUFFER_SIZE
    <3>1. \A w \in 0 .. MAX_WRITES : MAX_WRITES - w \in Nat
      BY Sizes
    <3> QED
      BY <3>1, Sizes
  <2> QED
    BY <1>3, <2>1
<1>6. Room'
  BY <1>1, NoCopyRoom
<1>7. Control'
  BY <1>1, <1>2, <1>4, <1>5 DEF RingInv, Control
<1> QED
  BY <1>1, <1>3, <1>4, <1>6, <1>7
     DEF RingInv, RingOK, WriteOK, CallOK, HostOK

\* The wait of SEGGER_RTT_PutChar ends.
LEMMA WaitEnds ==
    ASSUME RingInv, WaitForSpace
    PROVE  RingInv'
<1>1. /\ pc = "wait" /\ pc' = "put"
      /\ UNCHANGED <<pBuffer, WrOff, RdOff, Flags, ActiveTerminal, rest,
                     acBuffer, todo, pieces, status, wr, writes, changes, host,
                     received>>
  BY DEF WaitForSpace, ring
<1>2. Room'
  BY <1>1, NoCopyRoom
<1> QED
  BY <1>1, <1>2 DEF RingInv, RingOK, WriteOK, CallOK, HostOK, Control

\* The character of SEGGER_RTT_PutChar is stored or dropped.
LEMMA CharPut ==
    ASSUME RingInv, PutOrSkip
    PROVE  /\ RingInv'
           /\ \/ Enters(1)
              \/ todo' = <<>> /\ pc' = "idle" /\ pBuffer' = pBuffer /\ Untouched
<1>1. /\ pc = "put" /\ Untouched
      /\ \/ /\ NextWrOff # RdOff /\ Memcpy(WrOff, 1) /\ wr' = NextWrOff
            /\ pc' = "publish"
         \/ todo' = <<>> /\ pc' = "idle" /\ UNCHANGED <<pBuffer, wr>>
  BY DEF PutOrSkip
<1>2. /\ Len(todo) = 1 /\ pieces = <<>> /\ rest = 0
      /\ rest <= (MAX_WRITES - writes) * PRINTF_BUFFER_SIZE
  BY <1>1 DEF RingInv, Control
<1>3. UNCHANGED <<WrOff, RdOff, Flags, rest, pieces, writes, host>>
  BY <1>1 DEF Untouched
<1>4. CASE NextWrOff # RdOff /\ Memcpy(WrOff, 1) /\ wr' = NextWrOff
           /\ pc' = "publish"
  <2>1. WrOff \in Offsets /\ WrOff + 1 <= SizeOfBuffer /\ 1 \in 0 .. Len(todo)
    BY <1>2, Sizes DEF RingInv, RingOK, Offsets
  <2>2. pBuffer' \in [Offsets -> Char] /\ todo' \in Seq(Char) /\ todo' = <<>>
    BY <1>2, <1>4, <2>1, Copy
  <2>3. wr' \in Offsets /\ wr' \in 0 .. SizeOfBuffer + PRINTF_BUFFER_SIZE
    BY <1>4, NextPlace, Sizes DEF Offsets
  <2>4. RingOK' /\ WriteOK' /\ CallOK' /\ HostOK'
    BY <1>1, <1>4, <2>2, <2>3, CopyTypes
  <2>5. Control'
    BY <1>2, <1>3, <1>4 DEF RingInv, Control
  <2>6. Copied' = 1 /\ LeftOver' = 0
    <3>1. Copied' = Between(WrOff, NextWrOff)
      BY <1>3, <1>4 DEF Copied, Between
    <3>2. Between(WrOff, NextWrOff) = 1
      BY <1>4, NextPlace
    <3> QED
      BY <1>2, <1>3, <2>2, <3>1, <3>2 DEF LeftOver, PieceLen
  <2>7. Between(RdOff, WrOff) + 1 <= SizeOfBuffer - 1
        /\ Between(RdOff, WrOff) + 1 + 0 <= SizeOfBuffer - 1
    BY <1>4, NextPlace, BetweenRange, Sizes DEF RingInv, RingOK
  <2>8. Room'
    BY <1>3, <2>3, <2>6, <2>7, SameOffsets
  <2>9. Enters(1)
    <3>1. Copied = 0
      BY <1>1 DEF Copied
    <3>2. (WrOff + Copied) % SizeOfBuffer = WrOff
      BY <2>1, <3>1, Sizes DEF Offsets
    <3> QED
      BY <1>1, <1>2, <1>4, <2>1, <2>6, <3>1, <3>2 DEF Enters
  <2> QED
    BY <2>4, <2>5, <2>8, <2>9 DEF RingInv
<1>5. CASE todo' = <<>> /\ pc' = "idle" /\ UNCHANGED <<pBuffer, wr>>
  <2>1. RingOK' /\ WriteOK' /\ CallOK' /\ HostOK'
    BY <1>1, <1>5, EmptySeq, CopyTypes DEF RingInv, RingOK, WriteOK
  <2>2. Room'
    BY <1>1, <1>3, <1>5, NoCopyRoom
  <2>3. Control'
    BY <1>2, <1>3, <1>5 DEF RingInv, Control
  <2> QED
    BY <1>1, <1>5, <2>1, <2>2, <2>3 DEF RingInv
<1> QED
  BY <1>1, <1>4, <1>5

\* A call that writes for a terminal takes the next number.
LEMMA NextWrite ==
    ASSUME RingInv, StartTerminalCall
    PROVE  /\ writes' \in 0 .. MAX_WRITES /\ writes' = writes + 1
           /\ 0 <= (MAX_WRITES - writes') * PRINTF_BUFFER_SIZE
           /\ rest = 0 /\ pieces = <<>> /\ todo = <<>> /\ pc = "idle"
           /\ UNCHANGED <<pBuffer, WrOff, RdOff, Flags, rest, acBuffer, status,
                          wr, changes, host, received>>
<1>1. writes \in 0 .. MAX_WRITES /\ writes < MAX_WRITES
      /\ writes' = writes + 1 /\ pc = "idle"
  BY DEF RingInv, CallOK, StartTerminalCall
<1>2. writes' \in 0 .. MAX_WRITES
  BY <1>1, Sizes
<1>3. \A w \in 0 .. MAX_WRITES : 0 <= (MAX_WRITES - w) * PRINTF_BUFFER_SIZE
  <2>1. \A w \in 0 .. MAX_WRITES : MAX_WRITES - w \in Nat
    BY Sizes
  <2> QED
    BY <2>1, Sizes
<1>4. UNCHANGED <<pBuffer, WrOff, RdOff, Flags, rest, acBuffer, status, wr,
                  changes, host, received>>
  BY DEF StartTerminalCall, ring
<1> QED
  BY <1>1, <1>2, <1>3, <1>4 DEF RingInv, Control

\* Two characters, for SEGGER_RTT_SetTerminal.
LEMMA SwitchChars ==
    ASSUME NEW w \in 0 .. MAX_WRITES, NEW t \in Terminals, NEW mode \in Modes
    PROVE  Chars(w, Switch(t), mode) \in Seq(Char)
           /\ Len(Chars(w, Switch(t), mode)) = 2
<1>1. PICK s \in Seq(Sign) : s = Switch(t) /\ Len(s) = 2
  BY SwitchTypes
<1>2. Chars(w, s, mode) \in Seq(Char) /\ Len(Chars(w, s, mode)) = Len(s)
  BY CharsTypes
<1> QED
  BY <1>1, <1>2

\* SEGGER_RTT_SetTerminal.
LEMMA TerminalSet ==
    ASSUME RingInv, NEW t \in Terminals, SEGGER_RTT_SetTerminal(t)
    PROVE  RingInv'
<1>1. /\ writes' \in 0 .. MAX_WRITES /\ writes' = writes + 1
      /\ 0 <= (MAX_WRITES - writes') * PRINTF_BUFFER_SIZE
      /\ rest = 0 /\ pieces = <<>> /\ todo = <<>> /\ pc = "idle"
      /\ UNCHANGED <<pBuffer, WrOff, RdOff, Flags, rest, acBuffer, status,
                     wr, changes, host, received>>
  BY NextWrite DEF SEGGER_RTT_SetTerminal
<1>2. pieces' = pieces /\ SwitchTo(t)
  BY DEF SEGGER_RTT_SetTerminal
<1>3. CASE /\ Flags = "BLOCK_IF_FIFO_FULL" \/ AvailWriteSpace >= 2
           /\ ActiveTerminal' = t
           /\ todo' = Chars(writes + 1, Switch(t), Flags)
           /\ pc' = IF Flags = "BLOCK_IF_FIFO_FULL" THEN "block" ELSE "copy"
  <2>1. todo' \in Seq(Char) /\ Len(todo') = 2
    BY <1>1, <1>3, SwitchChars DEF RingInv, RingOK
  <2>2. RingOK' /\ WriteOK' /\ CallOK' /\ HostOK'
    BY <1>1, <1>2, <1>3, <2>1 DEF RingInv, RingOK, WriteOK, CallOK, HostOK
  <2>3. Control'
    <3>1. /\ pc' \in {"block", "copy"} /\ pieces' = <<>> /\ rest' = 0
          /\ todo' # <<>>
      <4>1. todo' # <<>>
        <5>1. Len(<<>>) = 0
          OBVIOUS
        <5> QED
          BY <2>1, <5>1
      <4>2. pc' \in {"block", "copy"}
        BY <1>3
      <4> QED
        BY <1>1, <1>2, <4>1, <4>2
    <3>2. rest' <= (MAX_WRITES - writes') * PRINTF_BUFFER_SIZE
      BY <1>1, <3>1
    <3>3. Len(todo') <= PRINTF_BUFFER_SIZE + 1
      BY <2>1, Sizes
    <3> QED
      BY <1>1, <1>3, <2>1, <3>1, <3>2, <3>3 DEF RingInv, Control
  <2>4. Copied' = 0 /\ LeftOver' = 2
    <3>1. pc' \in {"block", "copy"} /\ pieces' = <<>>
      BY <1>1, <1>2, <1>3
    <3> QED
      BY <2>1, <3>1 DEF Copied, LeftOver, PieceLen
  <2>5. Between(RdOff, WrOff) \in 0 .. SizeOfBuffer - 1
        /\ AvailWriteSpace = SizeOfBuffer - 1 - Between(RdOff, WrOff)
    BY Space, BetweenRange DEF RingInv, RingOK
  <2>6. pc' = "copy" => Between(RdOff, WrOff) + Copied' + LeftOver'
                           <= SizeOfBuffer - 1
    BY <1>3, <2>4, <2>5, Sizes
  <2>7. Between(RdOff, WrOff) + Copied' <= SizeOfBuffer - 1
    BY <2>4, <2>5, Sizes
  <2>8. Room'
    <3>1. pc' = "copy" \/ (pc' = "block" /\ Flags' = "BLOCK_IF_FIFO_FULL")
      BY <1>1, <1>3
    <3> QED
      BY <1>1, <2>6, <2>7, <3>1, SameOffsets
  <2> QED
    BY <2>2, <2>3, <2>8 DEF RingInv
<1>4. CASE UNCHANGED <<ActiveTerminal, todo, pc>>
  <2>1. Room'
    BY <1>1, <1>4, NoCopyRoom
  <2>2. RingOK' /\ WriteOK' /\ CallOK' /\ HostOK' /\ Control'
    BY <1>1, <1>2, <1>4
       DEF RingInv, RingOK, WriteOK, CallOK, HostOK, Control
  <2> QED
    BY <2>1, <2>2 DEF RingInv
<1> QED
  BY <1>2, <1>3, <1>4 DEF SwitchTo

\* The text of a SEGGER_RTT_TerminalOut that is written, and its two switches,
\* fit where it is not to wait.
LEMMA TextFits ==
    ASSUME RingInv, NEW n \in Nat, TextAccepted(n) >= 0
    PROVE  /\ TextAccepted(n) \in Nat
           /\ Flags # "BLOCK_IF_FIFO_FULL" =>
                 Between(RdOff, WrOff) + TextAccepted(n) + 4
                    <= SizeOfBuffer - 1
<1>1. AvailWriteSpace = SizeOfBuffer - 1 - Between(RdOff, WrOff)
      /\ Between(RdOff, WrOff) \in 0 .. SizeOfBuffer - 1
  BY Space, BetweenRange DEF RingInv, RingOK
<1>2. AvailWriteSpace \in Nat
  BY <1>1, Sizes
<1>3. Min({AvailWriteSpace - 4, n}) =
         IF AvailWriteSpace - 4 <= n THEN AvailWriteSpace - 4 ELSE n
  <2>1. AvailWriteSpace - 4 \in Int
    BY <1>2
  <2> QED
    BY <2>1, MinOfTwo
<1>4. /\ Flags = "NO_BLOCK_SKIP" =>
            TextAccepted(n) = IF AvailWriteSpace < n + 4 THEN -1 ELSE n
      /\ Flags = "NO_BLOCK_TRIM" =>
            TextAccepted(n) = IF AvailWriteSpace < 4 THEN -1
                              ELSE Min({AvailWriteSpace - 4, n})
      /\ Flags = "BLOCK_IF_FIFO_FULL" => TextAccepted(n) = n
  BY DEF TextAccepted
<1>5. Flags \in {"NO_BLOCK_SKIP", "NO_BLOCK_TRIM", "BLOCK_IF_FIFO_FULL"}
  BY DEF RingInv, RingOK, Modes
<1> HIDE DEF RingInv
<1> QED
  BY <1>1, <1>2, <1>3, <1>4, <1>5, Sizes

\* The pieces of a sequence of n + 4 characters.
LEMMA ThreePieces ==
    ASSUME NEW S, NEW s \in Seq(S), NEW n \in Nat, Len(s) = n + 4
    PROVE  /\ SubSeq(s, 1, 2) \in Seq(S) /\ Len(SubSeq(s, 1, 2)) = 2
           /\ SubSeq(s, 3, n + 2) \in Seq(S) /\ Len(SubSeq(s, 3, n + 2)) = n
           /\ SubSeq(s, n + 3, n + 4) \in Seq(S)
           /\ Len(SubSeq(s, n + 3, n + 4)) = 2
           /\ \A k \in 1 .. 2 : SubSeq(s, 1, 2)[k] = s[k]
           /\ \A k \in 1 .. n : SubSeq(s, 3, n + 2)[k] = s[2 + k]
           /\ \A k \in 1 .. 2 : SubSeq(s, n + 3, n + 4)[k] = s[n + 2 + k]
<1>1. \A k \in 1 .. n + 4 : s[k] \in S
  BY ElementOfSeq
<1>2. /\ SubSeq(s, 1, 2) \in Seq(S) /\ Len(SubSeq(s, 1, 2)) = 2
      /\ \A k \in 1 .. 2 : SubSeq(s, 1, 2)[k] = s[k]
  <2>1. \A k \in 1 .. 2 : s[k] \in S
    BY <1>1
  <2> QED
    BY <2>1, SubSeqProperties
<1>3. /\ SubSeq(s, 3, n + 2) \in Seq(S) /\ Len(SubSeq(s, 3, n + 2)) = n
      /\ \A k \in 1 .. n : SubSeq(s, 3, n + 2)[k] = s[2 + k]
  <2>1. \A k \in 3 .. n + 2 : s[k] \in S
    BY <1>1
  <2>2. /\ SubSeq(s, 3, n + 2) \in Seq(S)
        /\ Len(SubSeq(s, 3, n + 2)) = IF 3 <= n + 2 THEN n + 2 - 3 + 1 ELSE 0
        /\ \A k \in 1 .. n + 2 - 3 + 1 : SubSeq(s, 3, n + 2)[k] = s[3 + k - 1]
    BY <2>1, SubSeqProperties
  <2> QED
    BY <2>2
<1>4. /\ SubSeq(s, n + 3, n + 4) \in Seq(S)
      /\ Len(SubSeq(s, n + 3, n + 4)) = 2
      /\ \A k \in 1 .. 2 : SubSeq(s, n + 3, n + 4)[k] = s[n + 2 + k]
  <2>1. \A k \in n + 3 .. n + 4 : s[k] \in S
    BY <1>1
  <2>2. /\ SubSeq(s, n + 3, n + 4) \in Seq(S)
        /\ Len(SubSeq(s, n + 3, n + 4)) =
              IF n + 3 <= n + 4 THEN n + 4 - (n + 3) + 1 ELSE 0
        /\ \A k \in 1 .. n + 4 - (n + 3) + 1 :
              SubSeq(s, n + 3, n + 4)[k] = s[n + 3 + k - 1]
    BY <2>1, SubSeqProperties
  <2> QED
    BY <2>2
<1> QED
  BY <1>2, <1>3, <1>4

\* What SEGGER_RTT_TerminalOut is to write.
LEMMA TerminalOutStarts ==
    ASSUME RingInv, NEW t \in Terminals, NEW length \in 1 .. MAX_TEXT,
           SEGGER_RTT_TerminalOut(t, length), TextAccepted(length) >= 0
    PROVE  LET n == TextAccepted(length)
           IN  \E s \in Seq(Char) :
                  /\ n \in Nat /\ Len(s) = n + 4
                  /\ s = Chars(writes + 1, Switch(t) \o Text(n, t)
                                             \o Switch(ActiveTerminal), Flags)
                  /\ todo' = SubSeq(s, 1, 2)
                  /\ pieces' = <<SubSeq(s, 3, n + 2), SubSeq(s, n + 3, n + 4)>>
                  /\ pc' = "block" /\ UNCHANGED ActiveTerminal
<1> DEFINE n == TextAccepted(length)
<1>1. n \in Nat
  BY TextFits, Sizes
<1>2. writes + 1 \in 0 .. MAX_WRITES
  BY NextWrite DEF SEGGER_RTT_TerminalOut
<1>3. PICK signs \in Seq(Sign) :
         /\ signs = Switch(t) \o Text(n, t) \o Switch(ActiveTerminal)
         /\ Len(signs) = n + 4
  BY <1>1, TerminalOutTypes DEF RingInv, CallOK
<1>4. Chars(writes + 1, signs, Flags) \in Seq(Char)
      /\ Len(Chars(writes + 1, signs, Flags)) = Len(signs)
  BY <1>2, CharsTypes DEF RingInv, RingOK
<1>5. PICK s \in Seq(Char) :
         s = Chars(writes + 1, signs, Flags) /\ Len(s) = n + 4
  BY <1>3, <1>4
<1>6. s = Chars(writes + 1, Switch(t) \o Text(n, t) \o Switch(ActiveTerminal),
                Flags)
  BY <1>3, <1>5
<1>7. /\ pc' = "block" /\ todo' = SubSeq(s, 1, 2)
      /\ pieces' = <<SubSeq(s, 3, n + 2), SubSeq(s, n + 3, n + 4)>>
      /\ UNCHANGED ActiveTerminal
  <2>1. ~(n < 0)
    BY <1>1
  <2> QED
    BY <1>6, <2>1 DEF SEGGER_RTT_TerminalOut
<1> QED
  BY <1>1, <1>5, <1>6, <1>7

\* SEGGER_RTT_TerminalOut.
LEMMA TextWritten ==
    ASSUME RingInv, NEW t \in Terminals, NEW length \in 1 .. MAX_TEXT,
           SEGGER_RTT_TerminalOut(t, length)
    PROVE  RingInv'
<1> DEFINE n == TextAccepted(length)
<1>1. /\ writes' \in 0 .. MAX_WRITES /\ writes' = writes + 1
      /\ 0 <= (MAX_WRITES - writes') * PRINTF_BUFFER_SIZE
      /\ rest = 0 /\ pieces = <<>> /\ todo = <<>> /\ pc = "idle"
      /\ UNCHANGED <<pBuffer, WrOff, RdOff, Flags, rest, acBuffer, status,
                     wr, changes, host, received>>
  BY NextWrite DEF SEGGER_RTT_TerminalOut
<1>2. CASE n < 0
  <2>1. UNCHANGED <<ActiveTerminal, pc, todo, pieces>>
    BY <1>2 DEF SEGGER_RTT_TerminalOut
  <2>2. Room'
    BY <1>1, <2>1, NoCopyRoom
  <2>3. RingOK' /\ WriteOK' /\ CallOK' /\ HostOK' /\ Control'
    BY <1>1, <2>1 DEF RingInv, RingOK, WriteOK, CallOK, HostOK, Control
  <2> QED
    BY <2>2, <2>3 DEF RingInv
<1>3. CASE n >= 0
  <2>1. n \in Nat
        /\ (Flags # "BLOCK_IF_FIFO_FULL" =>
              Between(RdOff, WrOff) + n + 4 <= SizeOfBuffer - 1)
    BY <1>3, TextFits, Sizes
  <2>2. PICK s \in Seq(Char) :
           /\ Len(s) = n + 4
           /\ todo' = SubSeq(s, 1, 2)
           /\ pieces' = <<SubSeq(s, 3, n + 2), SubSeq(s, n + 3, n + 4)>>
           /\ pc' = "block" /\ UNCHANGED ActiveTerminal
    BY <1>3, TerminalOutStarts
  <2> HIDE DEF n
  <2>3. /\ SubSeq(s, 1, 2) \in Seq(Char) /\ Len(SubSeq(s, 1, 2)) = 2
        /\ SubSeq(s, 3, n + 2) \in Seq(Char) /\ Len(SubSeq(s, 3, n + 2)) = n
        /\ SubSeq(s, n + 3, n + 4) \in Seq(Char)
        /\ Len(SubSeq(s, n + 3, n + 4)) = 2
    BY <2>1, <2>2, ThreePieces
  <2>4. /\ todo' \in Seq(Char) /\ Len(todo') = 2
        /\ pieces' \in Seq(Seq(Char)) /\ Len(pieces') = 2
        /\ PieceLen(1)' = n /\ PieceLen(2)' = 2
    <3>1. PICK p1 \in Seq(Char) : p1 = SubSeq(s, 3, n + 2) /\ Len(p1) = n
      BY <2>3
    <3>2. PICK p2 \in Seq(Char) : p2 = SubSeq(s, n + 3, n + 4) /\ Len(p2) = 2
      BY <2>3
    <3>3. /\ <<p1, p2>> \in Seq(Seq(Char)) /\ Len(<<p1, p2>>) = 2
          /\ <<p1, p2>>[1] = p1 /\ <<p1, p2>>[2] = p2
      BY PairOf
    <3>4. pieces' = <<p1, p2>>
      BY <2>2, <3>1, <3>2
    <3>5. /\ pieces' \in Seq(Seq(Char)) /\ Len(pieces') = 2
          /\ pieces'[1] = p1 /\ pieces'[2] = p2
      BY <3>3, <3>4, Zenon
    <3>6. PieceLen(1)' = n /\ PieceLen(2)' = 2
      <4>1. 1 <= Len(pieces') /\ 2 <= Len(pieces')
        <5>1. 1 <= 2 /\ 2 <= 2
          OBVIOUS
        <5> QED
          BY <3>5, <5>1, Zenon
      <4> QED
        BY <3>1, <3>2, <3>5, <4>1, Zenon DEF PieceLen
    <3> QED
      BY <2>2, <2>3, <3>5, <3>6
  <2>5. LeftOver' = n + 4 /\ Copied' = 0
    <3>1. LeftOver' = 2 + n + 2
      BY <2>4, Zenon DEF LeftOver
    <3>2. 2 + n + 2 = n + 4
      BY <2>1
    <3>3. Copied' = 0
      BY <2>2 DEF Copied
    <3> QED
      BY <3>1, <3>2, <3>3
  <2>6. RingOK' /\ WriteOK' /\ CallOK' /\ HostOK'
    <3>1. RingOK' /\ HostOK'
      BY <1>1 DEF RingInv, RingOK, HostOK
    <3>2. WriteOK'
      BY <1>1, <2>2, <2>4 DEF RingInv, WriteOK
    <3>3. CallOK'
      BY <1>1, <2>2 DEF RingInv, CallOK
    <3> QED
      BY <3>1, <3>2, <3>3
  <2>7. Control'
    BY <1>1, <2>2 DEF RingInv, Control
  <2>8. Room'
    <3>1. Between(RdOff, WrOff) \in 0 .. SizeOfBuffer - 1
      BY BetweenRange DEF RingInv, RingOK
    <3>2. Between(RdOff, WrOff) + Copied' <= SizeOfBuffer - 1
      BY <2>5, <3>1, Sizes
    <3>3. Flags' # "BLOCK_IF_FIFO_FULL" =>
             Between(RdOff, WrOff) + Copied' + LeftOver' <= SizeOfBuffer - 1
      BY <1>1, <2>1, <2>5, <3>1
    <3> QED
      BY <1>1, <2>2, <3>2, <3>3, SameOffsets
  <2> QED
    BY <2>6, <2>7, <2>8 DEF RingInv
<1> QED
  <2>1. n \in Int
    <3>1. AvailWriteSpace \in Int
      BY Space, BetweenRange, Sizes DEF RingInv, RingOK
    <3>2. length \in Int /\ AvailWriteSpace - 4 \in Int
      BY <3>1, Sizes
    <3>3. Min({AvailWriteSpace - 4, length}) \in Int
      BY <3>2, MinOfTwo
    <3>4. n \in {-1, length, Min({AvailWriteSpace - 4, length})}
      BY Zenon DEF TextAccepted
    <3> QED
      BY <3>2, <3>3, <3>4
  <2> QED
    BY <1>2, <1>3, <2>1
---------------------------------------------------------------------------
(***************************************************************************)
(* What the debugger does.                                                 *)
(***************************************************************************)

\* The debugger reads characters of the ring.
LEMMA CharsOfRing ==
    ASSUME pBuffer \in [Offsets -> Char], NEW a \in Offsets, NEW b \in Offsets
    PROVE  /\ CharsBetween(a, b) \in Seq(Char)
           /\ Len(CharsBetween(a, b)) = Between(a, b)
<1>1. Between(a, b) \in 0 .. SizeOfBuffer - 1
  BY BetweenRange
<1>2. \A k \in 1 .. Between(a, b) : (a + k - 1) % SizeOfBuffer \in Offsets
  BY <1>1, Sizes DEF Offsets
<1>3. PICK m \in Nat : m = Between(a, b)
  BY <1>1, Sizes
<1>4. CharsBetween(a, b) \in [1 .. m -> Char]
  <2> HIDE DEF Char
  <2> QED
    BY <1>2, <1>3 DEF CharsBetween
<1> QED
  <2> HIDE DEF Char
  <2> QED
    BY <1>3, <1>4

\* It looks no further than what is published.
LEMMA Looked ==
    ASSUME RingInv, HostLooks
    PROVE  RingInv'
<1>1. Between(RdOff, WrOff) \in 0 .. SizeOfBuffer - 1
  BY BetweenRange DEF RingInv, RingOK
<1>2. PICK n \in 1 .. Between(RdOff, WrOff) :
         host' = [pc |-> "copy", upto |-> (RdOff + n) % SizeOfBuffer]
  BY DEF HostLooks
<1>3. n \in 0 .. SizeOfBuffer - 1 /\ n <= Between(RdOff, WrOff)
  BY <1>1, <1>2, Sizes
<1>4. PICK o \in Offsets : /\ o = (RdOff + n) % SizeOfBuffer
                           /\ Between(RdOff, o) = n
  BY <1>3, StepInRing DEF RingInv, RingOK
<1>5. host' = [pc |-> "copy", upto |-> o]
  BY <1>2, <1>4
<1>6. UNCHANGED <<ring, program, changes, received>>
  BY DEF HostLooks
<1>7. RingOK' /\ WriteOK' /\ CallOK' /\ HostOK' /\ Control'
  <2>1. HostOK'
    BY <1>5, <1>6 DEF RingInv, HostOK
  <2>2. RingOK' /\ WriteOK' /\ CallOK' /\ Control'
    BY <1>6 DEF RingInv, RingOK, WriteOK, CallOK, Control, ring, program
  <2> QED
    BY <2>1, <2>2
<1>8. Room'
  <2>1. /\ Between(RdOff, WrOff)' = Between(RdOff, WrOff)
        /\ Between(RdOff, host.upto)' = n
    BY <1>4, <1>5, <1>6 DEF Between, ring
  <2>2. Copied' = Copied /\ LeftOver' = LeftOver
    BY <1>6 DEF Copied, LeftOver, PieceLen, Between, ring, program
  <2> QED
    BY <1>3, <1>6, <2>1, <2>2 DEF RingInv, Room, ring, program
<1> QED
  BY <1>7, <1>8 DEF RingInv

\* It copies what it has seen.
LEMMA HostCopied ==
    ASSUME RingInv, HostCopies
    PROVE  RingInv'
<1>1. /\ host.pc = "copy"
      /\ received' = received \o CharsBetween(RdOff, host.upto)
      /\ host' = [host EXCEPT !.pc = "publish"]
      /\ UNCHANGED <<ring, program, changes>>
  BY DEF HostCopies
<1>2. host.upto \in Offsets
  BY DEF RingInv, HostOK
<1>3. received' \in Seq(Char)
  <2>1. PICK s \in Seq(Char) : s = CharsBetween(RdOff, host.upto)
    BY <1>2, CharsOfRing DEF RingInv, RingOK
  <2>2. received \in Seq(Char)
    BY DEF RingInv, HostOK
  <2>3. received \o s \in Seq(Char)
    BY <2>1, <2>2, ConcatProperties
  <2> QED
    BY <1>1, <2>1, <2>3
<1>4. HostOK'
  BY <1>1, <1>3 DEF RingInv, HostOK
<1>5. RingOK' /\ WriteOK' /\ CallOK' /\ Control'
  BY <1>1 DEF RingInv, RingOK, WriteOK, CallOK, Control, ring, program
<1>6. Room'
  <2>1. /\ Between(RdOff, WrOff)' = Between(RdOff, WrOff)
        /\ Between(RdOff, host.upto)' = Between(RdOff, host.upto)
    BY <1>1 DEF RingInv, HostOK, Between, ring
  <2>2. Copied' = Copied /\ LeftOver' = LeftOver
    BY <1>1 DEF Copied, LeftOver, PieceLen, Between, ring, program
  <2> QED
    BY <1>1, <2>1, <2>2 DEF RingInv, Room, ring, program
<1> QED
  BY <1>4, <1>5, <1>6 DEF RingInv

\* It gives the space of what it has copied back.
LEMMA HostPublished ==
    ASSUME RingInv, HostPublishes
    PROVE  RingInv'
<1>1. /\ host.pc = "publish" /\ RdOff' = host.upto
      /\ host' = [host EXCEPT !.pc = "idle"]
      /\ UNCHANGED <<pBuffer, WrOff, Flags, program, changes, received>>
  BY DEF HostPublishes
<1>2. host.upto \in Offsets
  BY DEF RingInv, HostOK
<1>3. RingOK' /\ HostOK'
  BY <1>1, <1>2 DEF RingInv, RingOK, HostOK
<1>4. WriteOK' /\ CallOK' /\ Control'
  BY <1>1 DEF RingInv, WriteOK, CallOK, Control, program
<1>5. Room'
  <2>1. Between(RdOff, host.upto) <= Between(RdOff, WrOff)
    BY <1>1 DEF RingInv, Room
  <2>2. /\ Between(RdOff, WrOff) \in Int /\ Between(RdOff, host.upto) \in Nat
        /\ Between(host.upto, WrOff)
             = Between(RdOff, WrOff) - Between(RdOff, host.upto)
    BY <1>2, <2>1, Sizes, ByWayOf, BetweenRange DEF RingInv, RingOK
  <2>3. Between(RdOff, WrOff)' = Between(host.upto, WrOff)
    BY <1>1 DEF Between
  <2>4. Copied' = Copied /\ LeftOver' = LeftOver
    BY <1>1 DEF Copied, LeftOver, PieceLen, Between, program
  <2>5. Copied \in Int /\ LeftOver \in Int
    BY Counts, Sizes DEF RingInv, Room
  <2>6. Between(RdOff, WrOff)' <= Between(RdOff, WrOff)
    BY <2>2, <2>3
  <2>7. host'.pc = "idle"
    BY <1>1 DEF RingInv, HostOK
  <2>8. /\ Between(RdOff, WrOff)' \in Int
        /\ Between(RdOff, WrOff)' + Copied <= Between(RdOff, WrOff) + Copied
        /\ Between(RdOff, WrOff)' + Copied + LeftOver
             <= Between(RdOff, WrOff) + Copied + LeftOver
    BY <2>2, <2>3, <2>5
  <2>9. Between(RdOff, WrOff)' + Copied' <= SizeOfBuffer - 1
    BY <2>2, <2>4, <2>5, <2>8, Sizes DEF RingInv, Room
  <2>10. \/ pc' \in {"copy", "wrap"}
         \/ pc' \in {"block", "publish"} /\ Flags' # "BLOCK_IF_FIFO_FULL"
         => Between(RdOff, WrOff)' + Copied' + LeftOver' <= SizeOfBuffer - 1
    BY <1>1, <2>2, <2>4, <2>5, <2>8, Sizes DEF RingInv, Room, program
  <2>11. pc' = "publish" => wr' \in Offsets
    BY <1>1 DEF RingInv, Room, program
  <2> QED
    BY <2>7, <2>9, <2>10, <2>11 DEF Room
<1> QED
  BY <1>3, <1>4, <1>5 DEF RingInv
---------------------------------------------------------------------------
(***************************************************************************)
(* The invariant holds.                                                    *)
(***************************************************************************)

\* _DoInit.
LEMMA Started ==
    ASSUME Init
    PROVE  RingInv
<1>1. NoChar \in Char
  BY Sizes DEF NoChar, Chars, Text, Char, Modes, Terminals
<1>2. RingOK
  BY <1>1, Sizes DEF Init, RingOK, Offsets, Modes
<1>3. WriteOK /\ CallOK /\ HostOK
  BY Sizes DEF Init, WriteOK, CallOK, HostOK, Terminals, Offsets
<1>4. Control
  <2>1. 0 <= MAX_WRITES * PRINTF_BUFFER_SIZE
    BY Sizes
  <2> QED
    BY <2>1, Sizes DEF Init, Control
<1>5. Room
  BY Sizes DEF Init, Room, Copied, Between, Offsets
<1> QED
  BY <1>2, <1>3, <1>4, <1>5 DEF RingInv

\* Every step of the program and of the debugger keeps it.
LEMMA InductiveStep ==
    ASSUME RingInv, [Next]_vars
    PROVE  RingInv'
<1>1. CASE \E mode \in Modes : SEGGER_RTT_SetFlagsUpBuffer(mode)
  BY <1>1, ModeSet
<1>2. CASE \E length \in 1 .. MAX_LENGTH : SEGGER_RTT_vprintf(length)
  BY <1>2, PrintfStarts
<1>3. CASE SEGGER_RTT_PutChar
  BY <1>3, PutStarts DEF SEGGER_RTT_PutChar
<1>4. CASE SEGGER_RTT_PutCharSkip
  BY <1>4, PutStarts DEF SEGGER_RTT_PutCharSkip
<1>5. CASE \E terminal \in Terminals : SEGGER_RTT_SetTerminal(terminal)
  BY <1>5, TerminalSet
<1>6. CASE \E terminal \in Terminals : \E n \in 1 .. MAX_TEXT :
              SEGGER_RTT_TerminalOut(terminal, n)
  BY <1>6, TextWritten
<1>7. CASE Program
  BY <1>7, CharsStored, WriteStarts, CopiesToEnd, CopiesFromStart,
     CopiesATurn, Published, WaitEnds, CharPut DEF Program
<1>8. CASE Host
  BY <1>8, Looked, HostCopied, HostPublished DEF Host
<1>9. CASE UNCHANGED vars
  <2>1. RingOK' /\ WriteOK' /\ CallOK' /\ HostOK' /\ Control'
    BY <1>9 DEF RingInv, RingOK, WriteOK, CallOK, HostOK, Control, vars, ring,
                program
  <2>2. Room'
    BY <1>9, SameRoom DEF RingInv, vars, ring, program
  <2> QED
    BY <2>1, <2>2 DEF RingInv
<1> QED
  BY <1>1, <1>2, <1>3, <1>4, <1>5, <1>6, <1>7, <1>8, <1>9 DEF Next

\* The invariant of the ring holds in every state.
THEOREM RingInvHolds == Spec => []RingInv
<1>1. Init => RingInv
  BY Started
<1>2. RingInv /\ [Next]_vars => RingInv'
  BY InductiveStep
<1> QED
  BY <1>1, <1>2, PTL DEF Spec

\* Every variable keeps its type, and the offsets stay within the ring.
THEOREM TypeCorrect == Spec => []TypeOK
<1>1. RingInv => TypeOK
  BY TypeParts DEF RingInv
<1> QED
  BY <1>1, RingInvHolds, PTL

\* In the modes that do not block nothing waits for the debugger: what
\* _WriteBlocking is called with fits then.
THEOREM NeverWaits == Spec => []WaitsOnlyWhenBlocking
<1>1. ASSUME RingInv
      PROVE  WaitsOnlyWhenBlocking
  <2>1. SUFFICES ASSUME Flags # "BLOCK_IF_FIFO_FULL", pc = "block", todo # <<>>
                 PROVE  NumBytesToWrite > 0
    BY <1>1 DEF WaitsOnlyWhenBlocking, RingInv, Control
  <2>2. /\ Between(RdOff, WrOff) \in Nat /\ Copied = 0
        /\ Len(todo) \in Nat /\ LeftOver >= Len(todo) /\ LeftOver \in Nat
    <3>1. /\ Between(RdOff, WrOff) \in Nat /\ Len(todo) \in Nat
          /\ LeftOver \in Nat /\ PieceLen(1) \in Nat /\ PieceLen(2) \in Nat
      BY <1>1, Counts, Sizes DEF RingInv, Room
    <3>2. Copied = 0
      BY <2>1 DEF Copied
    <3> QED
      BY <3>1, <3>2 DEF LeftOver
  <2>3. Len(todo) > 0
    BY <1>1, <2>1, <2>2, EmptySeq DEF RingInv, WriteOK
  <2>4. Between(RdOff, WrOff) + LeftOver <= SizeOfBuffer - 1
    BY <1>1, <2>1, <2>2, Sizes DEF RingInv, Room
  <2>5. AvailWriteSpace \in Nat \ {0}
    <3>1. AvailWriteSpace = SizeOfBuffer - 1 - Between(RdOff, WrOff)
      BY <1>1, Space DEF RingInv, RingOK
    <3> QED
      BY <2>2, <2>3, <2>4, <3>1, Sizes
  <2>6. SizeOfBuffer - WrOff \in Nat \ {0}
    BY <1>1, Sizes DEF RingInv, RingOK, Offsets
  <2>7. NumBytesToWrite \in {AvailWriteSpace, SizeOfBuffer - WrOff, Len(todo)}
    <3>1. PICK a \in Int : a = AvailWriteSpace
      BY <2>5
    <3>2. PICK b \in Int : b = SizeOfBuffer - WrOff
      BY <2>6
    <3>3. PICK c \in Int : c = Len(todo)
      BY <2>2
    <3>4. Min({a, b, c}) \in {a, b, c}
      BY MinOfThree
    <3> QED
      BY <3>1, <3>2, <3>3, <3>4, Zenon DEF NumBytesToWrite
  <2> QED
    BY <2>2, <2>3, <2>5, <2>6, <2>7
<1> QED
  BY <1>1, RingInvHolds, PTL
===========================================================================
