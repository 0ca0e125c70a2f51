-------------------------- MODULE RttStreamProofs --------------------------
(***************************************************************************)
(* The ring of RttUpBuffer implements the stream of RttStream, and writes  *)
(* stay whole in it, for rings, buffers and texts of any size.             *)
(*                                                                         *)
(* The argument is about one sequence: what the debugger has read, what    *)
(* the ring holds behind that, published or only copied, and what the      *)
(* write under way has still to copy.  Copies, publications and reads move *)
(* the borders between these parts; they change no character.             *)
(*                                                                         *)
(* The terminals, at the end, are an invariant of the same sequence.       *)
(***************************************************************************)
EXTENDS RttUpBufferProofs

\* Where the debugger will go on copying.
NextRead == IF host.pc = "publish" THEN host.upto ELSE RdOff

\* How many characters the ring holds for it.
Visible == Between(NextRead, WrOff)

\* And with those that are only copied.
InRing == Visible + Copied

\* Character j of what the write has still to copy.
Ahead(j) ==
    IF j <= Len(todo) THEN todo[j]
    ELSE IF j <= Len(todo) + PieceLen(1) THEN pieces[1][j - Len(todo)]
    ELSE pieces[2][j - Len(todo) - PieceLen(1)]

\* All the characters, in their order.
Whole ==
    [k \in 1 .. Len(received) + InRing + LeftOver |->
       IF k <= Len(received) THEN received[k]
       ELSE IF k <= Len(received) + InRing
       THEN pBuffer[(NextRead + (k - Len(received) - 1)) % SizeOfBuffer]
       ELSE Ahead(k - Len(received) - InRing)]

\* Writes come one after the other, each with its characters in order and
\* without a hole; but for trimmed ones they are complete.
Regular(w) ==
    /\ \A k \in 1 .. Len(w) : w[k].i >= 1
    /\ \A k \in 1 .. Len(w) - 1 : Stream!Before(w[k], w[k + 1])
    /\ \A k \in 1 .. Len(w) : w[k].i > 1 => k > 1 /\ Follows(w[k], w[k - 1])
    /\ \A k \in 1 .. Len(w) : w[k].i < w[k].of /\ w[k].mode # "NO_BLOCK_TRIM" =>
          k < Len(w) /\ Follows(w[k + 1], w[k])

\* The characters of the last write are the only ones not yet visible, and
\* those to be written are none of them.
Latest ==
    /\ \A k \in 1 .. Len(Whole) : Whole[k].chunk <= writes
    /\ \A k \in Len(received) + Visible + 1 .. Len(Whole) :
          Whole[k].chunk = writes
    /\ pc = "write" =>
          /\ \A k \in 1 .. Len(Whole) : Whole[k].chunk < writes
          /\ \A k \in 1 .. Len(acBuffer) :
                /\ acBuffer[k].chunk = writes
                /\ acBuffer[k].i = k
                /\ acBuffer[k].of = Len(acBuffer)
                /\ acBuffer[k].mode = Flags
    /\ pc \in {"wait", "put"} => todo[1].i = 1

\* The invariant of the characters.
StreamInv == Regular(Whole) /\ Latest
---------------------------------------------------------------------------
(***************************************************************************)
(* The parts of the sequence.                                              *)
(***************************************************************************)

\* A step of m from a, once around at most.
LEMMA Around ==
    ASSUME NEW a \in Offsets, NEW m \in 0 .. SizeOfBuffer - 1
    PROVE  /\ (a + m) % SizeOfBuffer
                = IF a + m < SizeOfBuffer THEN a + m ELSE a + m - SizeOfBuffer
           /\ (a + m) % SizeOfBuffer \in Offsets
BY Sizes DEF Offsets

\* What the write has still to copy are characters.
LEMMA AheadTypes ==
    ASSUME RingInv
    PROVE  \A j \in 1 .. LeftOver : Ahead(j) \in Char
<1>1. /\ todo \in Seq(Char) /\ Len(todo) \in Nat
      /\ pieces \in Seq(Seq(Char)) /\ Len(pieces) \in Nat
      /\ PieceLen(1) \in Nat /\ PieceLen(2) \in Nat
  BY LenProperties, Counts DEF RingInv, WriteOK, Room
<1>2. \A j \in 1 .. Len(todo) : todo[j] \in Char
  BY <1>1, ElementOfSeq
<1>3. ASSUME NEW p \in {1, 2}
      PROVE  \A j \in 1 .. PieceLen(p) : pieces[p][j] \in Char
  <2>1. CASE p <= Len(pieces)
    <3>1. pieces[p] \in Seq(Char) /\ PieceLen(p) = Len(pieces[p])
      BY <1>1, <2>1, ElementOfSeq DEF PieceLen
    <3> QED
      BY <3>1, ElementOfSeq
  <2>2. CASE ~(p <= Len(pieces))
    BY <2>2 DEF PieceLen
  <2> QED
    BY <2>1, <2>2
<1>4. TAKE j \in 1 .. LeftOver
<1>5. /\ j \in Nat \ {0}
      /\ j <= Len(todo) \/ j - Len(todo) \in 1 .. PieceLen(1)
         \/ j - Len(todo) - PieceLen(1) \in 1 .. PieceLen(2)
  BY <1>1 DEF LeftOver
<1>6. CASE j <= Len(todo)
  BY <1>1, <1>2, <1>5, <1>6 DEF Ahead
<1>7. CASE ~(j <= Len(todo)) /\ j <= Len(todo) + PieceLen(1)
  <2>1. j - Len(todo) \in 1 .. PieceLen(1)
    BY <1>1, <1>5, <1>7
  <2> QED
    BY <1>3, <1>7, <2>1 DEF Ahead
<1>8. CASE ~(j <= Len(todo)) /\ ~(j <= Len(todo) + PieceLen(1))
  <2>1. j - Len(todo) - PieceLen(1) \in 1 .. PieceLen(2)
    BY <1>1, <1>5, <1>8
  <2> QED
    BY <1>3, <1>8, <2>1 DEF Ahead
<1> QED
  BY <1>6, <1>7, <1>8

\* The parts of Whole, by number and place.
Parts ==
    /\ Len(received) \in Nat /\ NextRead \in Offsets
    /\ Visible \in 0 .. SizeOfBuffer - 1 /\ Visible <= Between(RdOff, WrOff)
    /\ Copied \in Nat /\ InRing \in 0 .. SizeOfBuffer - 1 /\ LeftOver \in Nat
    /\ Whole \in Seq(Char) /\ Len(Whole) = Len(received) + InRing + LeftOver
    /\ \A k \in 1 .. Len(received) : Whole[k] = received[k]
    /\ \A k \in 1 .. InRing :
          Whole[Len(received) + k]
            = pBuffer[(NextRead + (k - 1)) % SizeOfBuffer]
    /\ \A k \in 1 .. LeftOver : Whole[Len(received) + InRing + k] = Ahead(k)

\* The debugger is at most as far as the program has published.
LEMMA ReadUpTo ==
    ASSUME RingInv
    PROVE  /\ NextRead \in Offsets /\ Visible \in 0 .. SizeOfBuffer - 1
           /\ Visible <= Between(RdOff, WrOff)
           /\ Copied \in Nat /\ InRing \in 0 .. SizeOfBuffer - 1
<1>1. /\ RdOff \in Offsets /\ WrOff \in Offsets /\ host.upto \in Offsets
      /\ Between(RdOff, WrOff) \in 0 .. SizeOfBuffer - 1
      /\ Copied \in Nat /\ Between(RdOff, WrOff) + Copied <= SizeOfBuffer - 1
  BY Counts, Sizes DEF RingInv, RingOK, HostOK, Room
<1>2. NextRead \in Offsets
  BY <1>1 DEF NextRead
<1>3. Visible \in 0 .. SizeOfBuffer - 1
  BY <1>1, <1>2, BetweenRange DEF Visible
<1>4. Visible <= Between(RdOff, WrOff)
  <2>1. CASE host.pc = "publish"
    <3>1. /\ Between(RdOff, host.upto) <= Between(RdOff, WrOff)
          /\ Between(RdOff, host.upto) \in 0 .. SizeOfBuffer - 1
      BY <1>1, <2>1, BetweenRange DEF RingInv, Room
    <3>2. Visible = Between(RdOff, WrOff) - Between(RdOff, host.upto)
      BY <1>1, <2>1, <3>1, ByWayOf DEF Visible, NextRead
    <3> QED
      BY <1>1, <3>1, <3>2, Sizes
  <2>2. CASE host.pc # "publish"
    BY <1>1, <2>2 DEF Visible, NextRead
  <2> QED
    BY <2>1, <2>2
<1> QED
  BY <1>1, <1>2, <1>3, <1>4, Sizes DEF InRing

\* Every character of Whole is one of them.
LEMMA WholeParts == RingInv => Parts
<1> SUFFICES ASSUME RingInv PROVE Parts
  OBVIOUS
<1>1. /\ NextRead \in Offsets /\ Visible \in 0 .. SizeOfBuffer - 1
      /\ Visible <= Between(RdOff, WrOff)
      /\ Copied \in Nat /\ InRing \in 0 .. SizeOfBuffer - 1
  BY ReadUpTo
<1>2. /\ received \in Seq(Char) /\ Len(received) \in Nat /\ LeftOver \in Nat
      /\ InRing \in Nat
  BY <1>1, LenProperties, Counts, Sizes DEF RingInv, HostOK, Room
<1>3. PICK r \in Nat, n \in Nat, l \in Nat :
         r = Len(received) /\ n = InRing /\ l = LeftOver
  BY <1>2
<1>4. Whole = [k \in 1 .. r + n + l |->
                 IF k <= r THEN received[k]
                 ELSE IF k <= r + n
                 THEN pBuffer[(NextRead + (k - r - 1)) % SizeOfBuffer]
                 ELSE Ahead(k - r - n)]
  BY <1>3 DEF Whole
<1>5. \A k \in 1 .. r : received[k] \in Char
  BY <1>2, <1>3, ElementOfSeq
<1>6. \A m \in 0 .. SizeOfBuffer - 1 : pBuffer[(NextRead + m) % SizeOfBuffer] \in Char
  BY <1>1, Around DEF RingInv, RingOK
<1>7. \A j \in 1 .. l : Ahead(j) \in Char
  BY <1>3, AheadTypes
<1>8. \A k \in 1 .. r + n + l : Whole[k] \in Char
  <2> TAKE k \in 1 .. r + n + l
  <2>1. CASE k <= r
    BY <1>4, <1>5, <2>1
  <2>2. CASE k > r /\ k <= r + n
    <3>1. k - r - 1 \in 0 .. SizeOfBuffer - 1
      BY <1>1, <1>3, <2>2, Sizes
    <3> QED
      BY <1>4, <1>6, <2>2, <3>1
  <2>3. CASE k > r + n
    <3>1. k - r - n \in 1 .. l
      BY <2>3
    <3> QED
      BY <1>4, <1>7, <2>3, <3>1
  <2> QED
    BY <2>1, <2>2, <2>3
<1>9. Whole \in Seq(Char) /\ Len(Whole) = r + n + l
  <2> HIDE DEF Char
  <2>1. Whole \in [1 .. r + n + l -> Char]
    BY <1>4, <1>8
  <2> QED
    BY <2>1
<1>10. \A k \in 1 .. r : Whole[k] = received[k]
  BY <1>4
<1>11. \A k \in 1 .. n :
          Whole[r + k] = pBuffer[(NextRead + (k - 1)) % SizeOfBuffer]
  <2> TAKE k \in 1 .. n
  <2>1. r + k \in 1 .. r + n + l /\ r + k > r /\ r + k <= r + n
        /\ r + k - r - 1 = k - 1
    OBVIOUS
  <2> QED
    BY <1>4, <2>1
<1>12. \A k \in 1 .. l : Whole[r + n + k] = Ahead(k)
  <2> TAKE k \in 1 .. l
  <2>1. r + n + k \in 1 .. r + n + l /\ r + n + k > r /\ r + n + k > r + n
        /\ r + n + k - r - n = k
    OBVIOUS
  <2> QED
    BY <1>4, <2>1
<1> QED
  BY <1>1, <1>2, <1>3, <1>9, <1>10, <1>11, <1>12 DEF Parts

\* The same of the next state.
LEMMA NextParts == RingInv' => Parts'
BY WholeParts, PTL
---------------------------------------------------------------------------
(***************************************************************************)
(* Copies, publications and reads change no character.                     *)
(***************************************************************************)

\* The place behind the last character that was copied.
LEMMA NextFree ==
    ASSUME RingInv
    PROVE  (WrOff + Copied) % SizeOfBuffer = (NextRead + InRing) % SizeOfBuffer
<1>1. /\ NextRead \in Offsets /\ Visible \in 0 .. SizeOfBuffer - 1
      /\ Copied \in Nat /\ InRing \in 0 .. SizeOfBuffer - 1
      /\ InRing = Visible + Copied
  BY ReadUpTo DEF InRing
<1>2. WrOff \in Offsets /\ Copied \in 0 .. SizeOfBuffer - 1
  BY <1>1, Sizes DEF RingInv, RingOK
<1>3. (NextRead + Visible) % SizeOfBuffer = WrOff
  BY <1>1, <1>2, BetweenRange DEF Visible
<1>4. WrOff = IF NextRead + Visible < SizeOfBuffer THEN NextRead + Visible
              ELSE NextRead + Visible - SizeOfBuffer
  BY <1>1, <1>3, Around
<1>5. /\ (WrOff + Copied) % SizeOfBuffer
           = IF WrOff + Copied < SizeOfBuffer THEN WrOff + Copied
             ELSE WrOff + Copied - SizeOfBuffer
      /\ (NextRead + InRing) % SizeOfBuffer
           = IF NextRead + InRing < SizeOfBuffer THEN NextRead + InRing
             ELSE NextRead + InRing - SizeOfBuffer
  BY <1>1, <1>2, Around
<1> QED
  BY <1>1, <1>2, <1>4, <1>5, Sizes DEF Offsets

\* A copy behind them reaches none of the characters in the ring.
LEMMA CopyIsBehind ==
    ASSUME NEW F \in Offsets, NEW I \in Nat, NEW n \in Nat,
           I + n <= SizeOfBuffer - 1,
           ((F + I) % SizeOfBuffer) + n <= SizeOfBuffer,
           NEW m \in 0 .. I - 1
    PROVE  (F + m) % SizeOfBuffer
             \notin (F + I) % SizeOfBuffer .. ((F + I) % SizeOfBuffer) + n - 1
<1>1. /\ I \in 0 .. SizeOfBuffer - 1 /\ m \in 0 .. SizeOfBuffer - 1
      /\ F \in 0 .. SizeOfBuffer - 1
  BY Sizes DEF Offsets
<1>2. /\ (F + I) % SizeOfBuffer
           = IF F + I < SizeOfBuffer THEN F + I ELSE F + I - SizeOfBuffer
      /\ (F + m) % SizeOfBuffer
           = IF F + m < SizeOfBuffer THEN F + m ELSE F + m - SizeOfBuffer
  BY <1>1, Around
<1> QED
  BY <1>1, <1>2, Sizes

\* It goes on where they end.
LEMMA CopyGoesOn ==
    ASSUME NEW F \in Offsets, NEW I \in Nat, NEW n \in Nat,
           I + n <= SizeOfBuffer - 1,
           ((F + I) % SizeOfBuffer) + n <= SizeOfBuffer,
           NEW j \in 0 .. n - 1
    PROVE  (F + (I + j)) % SizeOfBuffer = ((F + I) % SizeOfBuffer) + j
<1>1. /\ I \in 0 .. SizeOfBuffer - 1 /\ I + j \in 0 .. SizeOfBuffer - 1
      /\ F \in 0 .. SizeOfBuffer - 1
  BY Sizes DEF Offsets
<1>2. /\ (F + I) % SizeOfBuffer
           = IF F + I < SizeOfBuffer THEN F + I ELSE F + I - SizeOfBuffer
      /\ (F + (I + j)) % SizeOfBuffer
           = IF F + (I + j) < SizeOfBuffer THEN F + (I + j)
             ELSE F + (I + j) - SizeOfBuffer
  BY <1>1, Around
<1> QED
  BY <1>1, <1>2, Sizes

\* Characters that enter the ring leave the write.
LEMMA EntersAhead ==
    ASSUME RingInv, NEW n \in Nat, Enters(n)
    PROVE  /\ LeftOver' = LeftOver - n
           /\ \A j \in 1 .. n : Ahead(j) = todo[j]
           /\ \A j \in 1 .. LeftOver - n : Ahead(j)' = Ahead(n + j)
<1>1. /\ todo \in Seq(Char) /\ Len(todo) \in Nat
      /\ PieceLen(1) \in Nat /\ PieceLen(2) \in Nat
  BY LenProperties, Counts DEF RingInv, WriteOK, Room
<1>2. n \in 0 .. Len(todo) /\ todo' = SubSeq(todo, n + 1, Len(todo))
      /\ UNCHANGED pieces
  BY <1>1 DEF Enters, Memcpy, Untouched
<1>3. /\ Len(todo') = Len(todo) - n
      /\ \A k \in 1 .. Len(todo) - n : todo'[k] = todo[n + k]
  BY <1>1, <1>2, FrontAndRest
<1>4. PieceLen(1)' = PieceLen(1) /\ PieceLen(2)' = PieceLen(2)
  BY <1>2 DEF PieceLen
<1>5. LeftOver' = LeftOver - n
  BY <1>1, <1>2, <1>3, <1>4 DEF LeftOver
<1>6. \A j \in 1 .. n : Ahead(j) = todo[j]
  BY <1>1, <1>2 DEF Ahead
<1>7. ASSUME NEW j \in 1 .. LeftOver - n
      PROVE  Ahead(j)' = Ahead(n + j)
  <2>1. LeftOver \in Nat
    BY <1>1 DEF LeftOver
  <2>2. CASE j <= Len(todo) - n
    <3>1. Ahead(j)' = todo'[j] /\ Ahead(n + j) = todo[n + j]
      BY <1>1, <1>2, <1>3, <2>1, <2>2 DEF Ahead
    <3> QED
      BY <1>1, <1>3, <2>1, <2>2, <3>1
  <2>3. CASE ~(j <= Len(todo) - n)
    <3>1. j - Len(todo') = n + j - Len(todo)
      <4>1. \A a \in Nat : j - (a - n) = n + j - a
        OBVIOUS
      <4> QED
        BY <1>1, <1>3, <4>1, Zenon
    <3>2. ~(j <= Len(todo')) /\ ~(n + j <= Len(todo))
      BY <1>1, <1>2, <1>3, <2>1, <2>3
    <3>3. (j <= Len(todo') + PieceLen(1)') <=> (n + j <= Len(todo) + PieceLen(1))
      BY <1>1, <1>2, <1>3, <1>4, <2>1
    <3>4. PICK m \in Nat, a \in Nat, b \in Nat, c \in Int :
             m = n + j /\ a = Len(todo) /\ b = PieceLen(1) /\ c = Len(todo')
      <4>1. n + j \in Nat /\ Len(todo') \in Int
        BY <1>1, <1>3, <2>1
      <4> QED
        BY <1>1, <4>1, Zenon
    <3>5. /\ Ahead(m) = IF m <= a THEN todo[m]
                        ELSE IF m <= a + b THEN pieces[1][m - a]
                        ELSE pieces[2][m - a - b]
          /\ Ahead(j)' = IF j <= c THEN todo'[j]
                         ELSE IF j <= c + b THEN pieces[1][j - c]
                         ELSE pieces[2][j - c - b]
      BY <1>2, <1>4, <3>4, Zenon DEF Ahead
    <3>6. j - c = m - a /\ ~(m <= a) /\ ~(j <= c)
          /\ (m <= a + b <=> j <= c + b)
      <4>1. c = a - n
        BY <1>3, <3>4, Zenon
      <4>2. j \in Int /\ ~(j <= c)
        BY <3>2, <3>4
      <4> QED
        BY <3>4, <4>1, <4>2
    <3> QED
      BY <3>4, <3>5, <3>6, Zenon
  <2> QED
    BY <2>2, <2>3
<1> QED
  BY <1>5, <1>6, <1>7

\* Nothing changes but where the characters are.
LEMMA EntersKeeps ==
    ASSUME RingInv, RingInv', NEW n \in Nat, Enters(n)
    PROVE  Whole' = Whole /\ Visible' = Visible /\ received' = received
<1>1. Parts /\ Parts'
  BY WholeParts, NextParts
<1>2. PICK F \in Offsets, R \in Nat, I \in Nat, L \in Nat :
         F = NextRead /\ R = Len(received) /\ I = InRing /\ L = LeftOver
  <2>1. /\ NextRead \in Offsets /\ Len(received) \in Nat
        /\ InRing \in Nat /\ LeftOver \in Nat
    BY <1>1, Sizes DEF Parts
  <2> QED
    BY <2>1, Zenon
<1>3. /\ UNCHANGED <<WrOff, RdOff, host, received, pieces>>
      /\ Copied' = Copied + n /\ n <= Len(todo)
  BY DEF Enters, Untouched
<1>4. NextRead' = F /\ Visible' = Visible
  BY <1>2, <1>3 DEF NextRead, Visible, Between
<1>5. Len(received') = R /\ InRing' = I + n /\ I + n <= SizeOfBuffer - 1
  <2>1. InRing' = Visible + (Copied + n) /\ I = Visible + Copied
    BY <1>2, <1>3, <1>4 DEF InRing
  <2>2. Visible \in Nat /\ Copied \in Nat /\ InRing' \in 0 .. SizeOfBuffer - 1
    BY <1>1, Sizes DEF Parts
  <2> QED
    BY <1>2, <1>3, <2>1, <2>2, Sizes
<1>6. PICK at \in Offsets : at = (F + I) % SizeOfBuffer
  <2>1. I \in 0 .. SizeOfBuffer - 1
    BY <1>1, <1>2 DEF Parts
  <2> QED
    BY <1>2, <2>1, Around
<1>7. Memcpy(at, n) /\ at + n <= SizeOfBuffer
  BY <1>2, <1>6, NextFree DEF Enters
<1>8. /\ LeftOver' = L - n
      /\ \A j \in 1 .. n : Ahead(j) = todo[j]
      /\ \A j \in 1 .. L - n : Ahead(j)' = Ahead(n + j)
  BY <1>2, EntersAhead
<1>9. ((F + I) % SizeOfBuffer) + n <= SizeOfBuffer
  BY <1>6, <1>7
<1>10. n <= L
  <2>1. LeftOver' \in Nat
    BY <1>1 DEF Parts
  <2> QED
    BY <1>8, <2>1
<1>11. Len(Whole') = Len(Whole) /\ Len(Whole) = R + I + L
  BY <1>1, <1>2, <1>5, <1>8, <1>10 DEF Parts
<1>12. \A k \in 1 .. R : Whole'[k] = Whole[k]
  BY <1>1, <1>2, <1>3, <1>5 DEF Parts
<1>13. \A k \in 1 .. I : Whole'[R + k] = Whole[R + k]
  <2> TAKE k \in 1 .. I
  <2>1. /\ k \in 1 .. I + n /\ k - 1 \in 0 .. I - 1
        /\ k - 1 \in 0 .. SizeOfBuffer - 1
    BY <1>5, Sizes
  <2>2. /\ Whole'[R + k] = pBuffer'[(F + (k - 1)) % SizeOfBuffer]
        /\ Whole[R + k] = pBuffer[(F + (k - 1)) % SizeOfBuffer]
    BY <1>1, <1>2, <1>4, <1>5, <2>1 DEF Parts
  <2>3. PICK o \in Offsets : o = (F + (k - 1)) % SizeOfBuffer
    BY <2>1, Around
  <2>4. o \notin at .. at + n - 1
    BY <1>5, <1>6, <1>9, <2>1, <2>3, CopyIsBehind
  <2>5. pBuffer'[o] = pBuffer[o]
    BY <1>7, <2>4 DEF Memcpy
  <2> QED
    BY <2>2, <2>3, <2>5
<1>14. \A k \in 1 .. n : Whole'[R + I + k] = Whole[R + I + k]
  <2> TAKE k \in 1 .. n
  <2>1. /\ I + k \in 1 .. I + n /\ k - 1 \in 0 .. n - 1 /\ k \in 1 .. L
        /\ R + (I + k) = R + I + k /\ (I + k) - 1 = I + (k - 1)
    BY <1>10
  <2>2. Whole'[R + (I + k)] = pBuffer'[(F + ((I + k) - 1)) % SizeOfBuffer]
    BY <1>1, <1>4, <1>5, <2>1 DEF Parts
  <2>3. Whole[R + I + k] = todo[k]
    <3>1. Whole[R + I + k] = Ahead(k)
      BY <1>1, <1>2, <2>1, Zenon DEF Parts
    <3> QED
      BY <1>8, <3>1
  <2>4. (F + (I + (k - 1))) % SizeOfBuffer = at + (k - 1)
    <3>1. PICK j \in 0 .. n - 1 : j = k - 1
      BY <2>1
    <3>2. (F + (I + j)) % SizeOfBuffer = ((F + I) % SizeOfBuffer) + j
      BY <1>5, <1>9, CopyGoesOn
    <3> QED
      BY <1>6, <3>1, <3>2, Zenon
  <2>5. PICK o \in Offsets : o = at + (k - 1) /\ o \in at .. at + n - 1
                             /\ o - at + 1 = k
    BY <1>7, Sizes DEF Offsets
  <2>6. pBuffer'[o] = todo[k]
    BY <1>7, <2>5 DEF Memcpy
  <2> QED
    BY <2>1, <2>2, <2>3, <2>4, <2>5, <2>6
<1>15. \A k \in 1 .. L - n : Whole'[R + I + n + k] = Whole[R + I + n + k]
  <2> TAKE k \in 1 .. L - n
  <2>1. /\ n + k \in 1 .. L
        /\ R + (I + n) + k = R + I + n + k /\ R + I + (n + k) = R + I + n + k
    BY <1>10
  <2>2. Whole'[R + (I + n) + k] = Ahead(k)'
    BY <1>1, <1>5, <1>8 DEF Parts
  <2>3. Whole[R + I + (n + k)] = Ahead(n + k)
    BY <1>1, <1>2, <2>1 DEF Parts
  <2> QED
    BY <1>8, <2>1, <2>2, <2>3
<1>16. \A k \in 1 .. Len(Whole) : Whole'[k] = Whole[k]
  <2> TAKE k \in 1 .. Len(Whole)
  <2>1. k \in 1 .. R + I + L
    BY <1>11
  <2>2. CASE k <= R
    BY <1>12, <2>1, <2>2
  <2>3. CASE k > R /\ k <= R + I
    <3>1. k - R \in 1 .. I /\ R + (k - R) = k
      BY <2>1, <2>3
    <3> QED
      BY <1>13, <3>1
  <2>4. CASE k > R + I /\ k <= R + I + n
    <3>1. k - R - I \in 1 .. n /\ R + I + (k - R - I) = k
      BY <2>1, <2>4
    <3> QED
      BY <1>14, <3>1
  <2>5. CASE k > R + I + n
    <3>1. k - R - I - n \in 1 .. L - n /\ R + I + n + (k - R - I - n) = k
      BY <2>1, <2>5
    <3> QED
      BY <1>15, <3>1
  <2> QED
    BY <2>1, <2>2, <2>3, <2>4, <2>5
<1>17. Whole' = Whole
  <2>1. Whole \in Seq(Char) /\ Whole' \in Seq(Char)
    BY <1>1 DEF Parts, Char
  <2> QED
    BY <1>11, <1>16, <2>1, SeqEqual
<1> QED
  BY <1>3, <1>4, <1>17

\* The places of the characters may be counted from elsewhere.
LEMMA SamePlaces ==
    ASSUME RingInv, RingInv', UNCHANGED <<pBuffer, received>>,
           NextRead' = NextRead, InRing' = InRing, LeftOver' = LeftOver,
           \A j \in 1 .. LeftOver : Ahead(j)' = Ahead(j)
    PROVE  Whole' = Whole
<1>1. Parts /\ Parts'
  BY WholeParts, NextParts
<1>2. PICK F \in Offsets, R \in Nat, I \in Nat, L \in Nat :
         F = NextRead /\ R = Len(received) /\ I = InRing /\ L = LeftOver
  <2>1. /\ NextRead \in Offsets /\ Len(received) \in Nat
        /\ InRing \in Nat /\ LeftOver \in Nat
    BY <1>1, Sizes DEF Parts
  <2> QED
    BY <2>1, Zenon
<1>3. Len(Whole') = R + I + L /\ Len(Whole) = R + I + L
  BY <1>1, <1>2 DEF Parts
<1>4. \A k \in 1 .. R : Whole'[k] = Whole[k]
  BY <1>1, <1>2 DEF Parts
<1>5. \A k \in 1 .. I : Whole'[R + k] = Whole[R + k]
  <2> TAKE k \in 1 .. I
  <2>1. Whole[R + k] = pBuffer[(F + (k - 1)) % SizeOfBuffer]
    BY <1>1, <1>2, Zenon DEF Parts
  <2>2. Whole'[R + k] = pBuffer'[(F + (k - 1)) % SizeOfBuffer]
    BY <1>1, <1>2, Zenon DEF Parts
  <2> QED
    BY <2>1, <2>2
<1>6. \A k \in 1 .. L : Whole'[R + I + k] = Whole[R + I + k]
  <2> TAKE k \in 1 .. L
  <2>1. Whole[R + I + k] = Ahead(k)
    BY <1>1, <1>2, Zenon DEF Parts
  <2>2. Whole'[R + I + k] = Ahead(k)'
    BY <1>1, <1>2, Zenon DEF Parts
  <2> QED
    BY <1>2, <2>1, <2>2, Zenon
<1>7. \A k \in 1 .. Len(Whole) : Whole'[k] = Whole[k]
  <2> TAKE k \in 1 .. Len(Whole)
  <2>1. k \in 1 .. R + I + L
    BY <1>3
  <2>2. CASE k <= R
    BY <1>4, <2>1, <2>2
  <2>3. CASE k > R /\ k <= R + I
    <3>1. k - R \in 1 .. I /\ R + (k - R) = k
      BY <2>1, <2>3
    <3> QED
      BY <1>5, <3>1
  <2>4. CASE k > R + I
    <3>1. k - R - I \in 1 .. L /\ R + I + (k - R - I) = k
      BY <2>1, <2>4
    <3> QED
      BY <1>6, <3>1
  <2> QED
    BY <2>1, <2>2, <2>3, <2>4
<1>8. Whole \in Seq(Char) /\ Whole' \in Seq(Char)
  BY <1>1 DEF Parts, Char
<1> QED
  BY <1>3, <1>7, <1>8, SeqEqual

\* What is copied becomes visible.
LEMMA PublishKeeps ==
    ASSUME RingInv, RingInv', Publish
    PROVE  /\ Whole' = Whole /\ received' = received
           /\ NextRead' = NextRead /\ Visible' = InRing
<1>1. /\ pc = "publish" /\ WrOff' = wr
      /\ UNCHANGED <<pBuffer, RdOff, host, received>>
  BY DEF Publish
<1>2. NextRead' = NextRead
  BY <1>1 DEF NextRead
<1>3. /\ NextRead \in Offsets /\ WrOff \in Offsets /\ wr \in Offsets
      /\ Copied = Between(WrOff, wr) /\ InRing <= SizeOfBuffer - 1
  BY <1>1, ReadUpTo, Sizes DEF RingInv, RingOK, Room, Copied
<1>4. Visible' = InRing
  <2>1. Visible' = Between(NextRead, wr)
    BY <1>1, <1>2 DEF Visible, Between
  <2> QED
    BY <1>3, <2>1, ByWayOf DEF InRing, Visible
<1>5. InRing' = InRing
  <2>1. pc' \in {"idle", "store", "write", "block"}
    BY DEF Publish, Written, Return, WriteAgain
  <2>2. Copied' = 0
    BY <2>1 DEF Copied
  <2>3. InRing \in Int
    BY ReadUpTo
  <2> QED
    BY <1>4, <2>2, <2>3 DEF InRing
<1>6. LeftOver' = LeftOver /\ \A j \in 1 .. LeftOver : Ahead(j)' = Ahead(j)
  <2>1. CASE UNCHANGED <<todo, pieces>>
    BY <2>1 DEF LeftOver, PieceLen, Ahead
  <2>2. CASE /\ todo = <<>> /\ pieces # <<>>
             /\ todo' = Head(pieces) /\ pieces' = Tail(pieces)
    <3>1. /\ Len(todo) = 0 /\ todo' = pieces[1] /\ Len(todo') = PieceLen(1)
          /\ PieceLen(1)' = PieceLen(2) /\ PieceLen(2)' = 0
          /\ PieceLen(2) # 0 => pieces'[1] = pieces[2]
          /\ LeftOver' = LeftOver
      BY <2>2, NextPiece DEF TakesPiece
    <3>2. PICK p \in Nat, q \in Nat : p = PieceLen(1) /\ q = PieceLen(2)
      <4>1. PieceLen(1) \in Nat /\ PieceLen(2) \in Nat
        BY Counts DEF RingInv, Room
      <4> QED
        BY <4>1, Zenon
    <3>3. LeftOver = p + q
      BY <3>1, <3>2 DEF LeftOver
    <3>4. ASSUME NEW j \in 1 .. LeftOver
          PROVE  Ahead(j)' = Ahead(j)
      <4>1. /\ j \in 1 .. p + q /\ ~(j <= 0) /\ j - 0 = j
            /\ (j <= 0 + p <=> j <= p) /\ j <= p + q
        BY <3>2, <3>3
      <4>2. CASE j <= p
        <5>1. Ahead(j)' = todo'[j]
          BY <3>1, <3>2, <4>2 DEF Ahead
        <5>2. Ahead(j) = pieces[1][j]
          BY <3>1, <3>2, <4>1, <4>2 DEF Ahead
        <5> QED
          BY <3>1, <5>1, <5>2
      <4>3. CASE ~(j <= p)
        <5>1. q # 0 /\ j - p \in 1 .. q
          BY <4>1, <4>3
        <5>2. Ahead(j)' = pieces'[1][j - p]
          BY <3>1, <3>2, <4>1, <4>3 DEF Ahead
        <5>3. Ahead(j) = pieces[2][j - p]
          BY <3>1, <3>2, <4>1, <4>3 DEF Ahead
        <5> QED
          BY <3>1, <3>2, <5>1, <5>2, <5>3
      <4> QED
        BY <4>2, <4>3
    <3> QED
      BY <3>1, <3>4
  <2> QED
    BY <2>1, <2>2 DEF Publish
<1>7. Whole' = Whole
  BY <1>1, <1>2, <1>5, <1>6, SamePlaces
<1> QED
  BY <1>1, <1>2, <1>4, <1>7

\* A step that leaves the ring and the write alone.
LEMMA NothingMoves ==
    ASSUME RingInv, RingInv', UNCHANGED <<pBuffer, WrOff, received, todo, pieces>>,
           NextRead' = NextRead, Copied' = Copied
    PROVE  Whole' = Whole /\ Visible' = Visible
<1>1. Visible' = Visible
  BY DEF Visible, Between
<1>2. InRing' = InRing
  BY <1>1 DEF InRing
<1>3. LeftOver' = LeftOver /\ \A j \in 1 .. LeftOver : Ahead(j)' = Ahead(j)
  BY DEF LeftOver, PieceLen, Ahead
<1> QED
  BY <1>1, <1>2, <1>3, SamePlaces

\* What the debugger copies is what comes next.
LEMMA HostCopyKeeps ==
    ASSUME RingInv, RingInv', HostCopies
    PROVE  /\ Whole' = Whole
           /\ \E m \in 0 .. Visible :
                 /\ Len(received') = Len(received) + m
                 /\ Visible' = Visible - m
<1>1. Parts /\ Parts'
  BY WholeParts, NextParts
<1>2. /\ host.pc = "copy" /\ host'.pc = "publish" /\ host'.upto = host.upto
      /\ received' = received \o CharsBetween(RdOff, host.upto)
      /\ UNCHANGED <<ring, program>>
      /\ RdOff \in Offsets /\ WrOff \in Offsets /\ host.upto \in Offsets
      /\ received \in Seq(Char)
  BY DEF HostCopies, RingInv, RingOK, HostOK
<1>3. PICK F \in Offsets, R \in Nat, I \in Nat, L \in Nat :
         F = NextRead /\ R = Len(received) /\ I = InRing /\ L = LeftOver
  <2>1. /\ NextRead \in Offsets /\ Len(received) \in Nat
        /\ InRing \in Nat /\ LeftOver \in Nat
    BY <1>1, Sizes DEF Parts
  <2> QED
    BY <2>1, Zenon
<1>4. PICK U \in Offsets, m \in Nat :
         U = host.upto /\ m = Between(RdOff, host.upto)
  <2>1. Between(RdOff, host.upto) \in Nat
    BY <1>2, BetweenRange, Sizes
  <2> QED
    BY <1>2, <2>1, Zenon
<1>5. F = RdOff /\ NextRead' = U
  BY <1>2, <1>3, <1>4 DEF NextRead
<1>6. m \in 0 .. Visible /\ Visible' = Visible - m
  <2>1. Between(RdOff, host.upto) <= Between(RdOff, WrOff)
    BY <1>2 DEF RingInv, Room
  <2>2. Visible = Between(RdOff, WrOff) /\ Visible' = Between(U, WrOff)
    BY <1>2, <1>3, <1>5 DEF Visible, Between, ring
  <2>3. Between(U, WrOff) = Between(RdOff, WrOff) - m
    BY <1>2, <1>4, <2>1, ByWayOf
  <2>4. Visible \in Nat
    BY <1>1, Sizes DEF Parts
  <2> QED
    BY <1>4, <2>1, <2>2, <2>3, <2>4
<1>7. m <= I /\ InRing' = I - m /\ I <= SizeOfBuffer - 1
  <2>1. Copied' = Copied
    BY <1>2 DEF Copied, Between, ring, program
  <2>2. /\ InRing = Visible + Copied /\ InRing' = Visible' + Copied'
        /\ Visible \in Nat /\ Copied \in Nat /\ InRing <= SizeOfBuffer - 1
    BY <1>1, Sizes DEF Parts, InRing
  <2> QED
    BY <1>3, <1>6, <2>1, <2>2
<1>8. /\ LeftOver' = L /\ \A j \in 1 .. L : Ahead(j)' = Ahead(j)
  BY <1>2, <1>3 DEF LeftOver, PieceLen, Ahead, program
<1>9. PICK s \in Seq(Char) :
         /\ s = CharsBetween(RdOff, host.upto) /\ Len(s) = m
         /\ \A k \in 1 .. m : s[k] = pBuffer[(F + k - 1) % SizeOfBuffer]
  <2>1. /\ CharsBetween(RdOff, host.upto) \in Seq(Char)
        /\ Len(CharsBetween(RdOff, host.upto)) = m
    BY <1>2, <1>4, CharsOfRing DEF RingInv, RingOK
  <2>2. \A k \in 1 .. m : CharsBetween(RdOff, host.upto)[k]
                            = pBuffer[(F + k - 1) % SizeOfBuffer]
    BY <1>4, <1>5 DEF CharsBetween
  <2> QED
    BY <2>1, <2>2, Zenon
<1>10. /\ Len(received') = R + m
       /\ \A k \in 1 .. R + m :
             received'[k] = IF k <= R THEN received[k] ELSE s[k - R]
  <2>1. /\ Len(received \o s) = R + m
        /\ \A k \in 1 .. R + m :
              (received \o s)[k] = IF k <= R THEN received[k] ELSE s[k - R]
    <3>1. Len(received) = R /\ Len(s) = m
      BY <1>3, <1>9
    <3>2. /\ Len(received \o s) = Len(received) + Len(s)
          /\ \A k \in 1 .. Len(received) + Len(s) :
                (received \o s)[k] = IF k <= Len(received) THEN received[k]
                                     ELSE s[k - Len(received)]
      BY <1>2, ConcatProperties
    <3> QED
      BY <3>1, <3>2, Zenon
  <2> QED
    BY <1>2, <1>9, <2>1
<1>11. Len(Whole') = Len(Whole) /\ Len(Whole) = R + I + L
  BY <1>1, <1>3, <1>7, <1>8, <1>10 DEF Parts
<1>12. \A k \in 1 .. R : Whole'[k] = Whole[k]
  <2> TAKE k \in 1 .. R
  <2>1. Whole[k] = received[k]
    BY <1>1, <1>3, Zenon DEF Parts
  <2>2. Whole'[k] = received'[k]
    <3>1. k \in 1 .. Len(received')
      BY <1>10
    <3> QED
      BY <1>1, <3>1, Zenon DEF Parts
  <2> QED
    BY <1>10, <2>1, <2>2
<1>13. \A k \in 1 .. m : Whole'[R + k] = Whole[R + k]
  <2> TAKE k \in 1 .. m
  <2>1. /\ R + k \in 1 .. R + m /\ ~(R + k <= R) /\ R + k - R = k
        /\ k \in 1 .. I /\ k - 1 \in 0 .. SizeOfBuffer - 1
    BY <1>7, Sizes
  <2>2. Whole'[R + k] = received'[R + k]
    BY <1>1, <1>10, <2>1 DEF Parts
  <2>3. received'[R + k] = s[k]
    BY <1>10, <2>1
  <2>4. Whole[R + k] = pBuffer[(F + (k - 1)) % SizeOfBuffer]
    BY <1>1, <1>3, <2>1 DEF Parts
  <2>5. F + k - 1 = F + (k - 1)
    BY Sizes DEF Offsets
  <2>6. s[k] = pBuffer[(F + (k - 1)) % SizeOfBuffer]
    BY <1>9, <2>5
  <2> QED
    BY <2>2, <2>3, <2>4, <2>6
<1>14. \A k \in 1 .. I - m : Whole'[R + m + k] = Whole[R + m + k]
  <2> TAKE k \in 1 .. I - m
  <2>1. /\ m + k \in 1 .. I /\ R + (m + k) = R + m + k
        /\ m \in 0 .. SizeOfBuffer - 1 /\ k - 1 \in 0 .. SizeOfBuffer - 1
        /\ (m + k) - 1 \in 0 .. SizeOfBuffer - 1
    BY <1>7, Sizes
  <2>2. Whole'[R + m + k] = pBuffer[(U + (k - 1)) % SizeOfBuffer]
    BY <1>1, <1>2, <1>5, <1>7, <1>10 DEF Parts, ring
  <2>3. Whole[R + (m + k)] = pBuffer[(F + ((m + k) - 1)) % SizeOfBuffer]
    BY <1>1, <1>3, <2>1 DEF Parts
  <2>4. (F + m) % SizeOfBuffer = U
    BY <1>2, <1>4, <1>5, BetweenRange
  <2>5. /\ U = IF F + m < SizeOfBuffer THEN F + m ELSE F + m - SizeOfBuffer
        /\ (U + (k - 1)) % SizeOfBuffer
             = IF U + (k - 1) < SizeOfBuffer THEN U + (k - 1)
               ELSE U + (k - 1) - SizeOfBuffer
        /\ (F + ((m + k) - 1)) % SizeOfBuffer
             = IF F + ((m + k) - 1) < SizeOfBuffer THEN F + ((m + k) - 1)
               ELSE F + ((m + k) - 1) - SizeOfBuffer
    BY <2>1, <2>4, Around
  <2>6. (U + (k - 1)) % SizeOfBuffer = (F + ((m + k) - 1)) % SizeOfBuffer
    BY <2>1, <2>5, Sizes DEF Offsets
  <2> QED
    BY <2>1, <2>2, <2>3, <2>6
<1>15. \A k \in 1 .. L : Whole'[R + I + k] = Whole[R + I + k]
  <2> TAKE k \in 1 .. L
  <2>1. (R + m) + (I - m) + k = R + I + k
    OBVIOUS
  <2>2. Whole'[(R + m) + (I - m) + k] = Ahead(k)'
    BY <1>1, <1>7, <1>8, <1>10 DEF Parts
  <2>3. Whole[R + I + k] = Ahead(k)
    BY <1>1, <1>3 DEF Parts
  <2> QED
    BY <1>8, <2>1, <2>2, <2>3
<1>16. \A k \in 1 .. Len(Whole) : Whole'[k] = Whole[k]
  <2> TAKE k \in 1 .. Len(Whole)
  <2>1. k \in 1 .. R + I + L
    BY <1>11
  <2>2. CASE k <= R
    BY <1>12, <2>1, <2>2
  <2>3. CASE k > R /\ k <= R + m
    <3>1. k - R \in 1 .. m /\ R + (k - R) = k
      BY <2>1, <2>3
    <3> QED
      BY <1>13, <3>1
  <2>4. CASE k > R + m /\ k <= R + I
    <3>1. k - R - m \in 1 .. I - m /\ R + m + (k - R - m) = k
      BY <1>7, <2>1, <2>4
    <3> QED
      BY <1>14, <3>1
  <2>5. CASE k > R + I
    <3>1. k - R - I \in 1 .. L /\ R + I + (k - R - I) = k
      BY <2>1, <2>5
    <3> QED
      BY <1>15, <3>1
  <2> QED
    BY <2>1, <2>2, <2>3, <2>4, <2>5
<1>17. Whole' = Whole
  <2>1. Whole \in Seq(Char) /\ Whole' \in Seq(Char)
    BY <1>1 DEF Parts, Char
  <2> QED
    BY <1>11, <1>16, <2>1, SeqEqual
<1> QED
  BY <1>3, <1>6, <1>10, <1>17
---------------------------------------------------------------------------
(***************************************************************************)
(* Calls add writes that are regular.                                      *)
(***************************************************************************)

\* n characters of write c, from its first on.
Begun(v, from, n, c, of, mode) ==
    \A k \in 1 .. n : /\ v[from + k].chunk = c /\ v[from + k].i = k
                      /\ v[from + k].of = of /\ v[from + k].mode = mode

\* The numbers of a character.
LEMMA CharNumbers ==
    ASSUME NEW c \in Char
    PROVE  c.chunk \in Int /\ c.i \in Int /\ c.of \in Int
BY Sizes DEF Char

\* A write after all the others: whole, unless it is trimmed.
LEMMA RegularExtends ==
    ASSUME NEW w \in Seq(Char), NEW v \in Seq(Char), NEW n \in Nat,
           NEW c \in Nat, NEW of \in Nat, NEW mode \in Modes,
           Regular(w), Len(v) = Len(w) + n,
           \A k \in 1 .. Len(w) : v[k] = w[k] /\ w[k].chunk < c,
           Begun(v, Len(w), n, c, of, mode),
           mode = "NO_BLOCK_TRIM" \/ n = of
    PROVE  Regular(v)
<1>1. PICK N \in Nat : N = Len(w)
  BY LenProperties
<1>2. /\ Len(v) = N + n
      /\ \A k \in 1 .. N : v[k] = w[k] /\ v[k].chunk < c
      /\ \A k \in 1 .. n : /\ v[N + k].chunk = c /\ v[N + k].i = k
                           /\ v[N + k].of = of /\ v[N + k].mode = mode
  BY <1>1 DEF Begun
<1>3. \A k \in 1 .. N + n : /\ v[k].chunk \in Int /\ v[k].i \in Int
                            /\ v[k].of \in Int
  <2> TAKE k \in 1 .. N + n
  <2>1. v[k] \in Char
    BY <1>2, ElementOfSeq
  <2> QED
    BY <2>1, CharNumbers
<1>4. ASSUME NEW k \in N + 1 .. N + n
      PROVE  v[k].chunk = c /\ v[k].i = k - N /\ v[k].of = of /\ v[k].mode = mode
  <2>1. k - N \in 1 .. n /\ N + (k - N) = k
    OBVIOUS
  <2> QED
    BY <1>2, <2>1
<1>5. ASSUME NEW k \in 1 .. N + n
      PROVE  k \in 1 .. N \/ k \in N + 1 .. N + n
  OBVIOUS
<1>6. \A k \in 1 .. N + n : v[k].i >= 1
  BY <1>1, <1>2, <1>4, <1>5 DEF Regular
<1>7. \A k \in 1 .. N + n - 1 : Stream!Before(v[k], v[k + 1])
  <2> TAKE k \in 1 .. N + n - 1
  <2>1. CASE k + 1 <= N
    <3>1. k \in 1 .. N - 1 /\ k + 1 \in 1 .. N /\ k \in 1 .. N
      BY <2>1
    <3> QED
      BY <1>1, <1>2, <3>1 DEF Regular
  <2>2. CASE k = N
    <3>1. k \in 1 .. N /\ k + 1 \in N + 1 .. N + n
      BY <2>2
    <3> QED
      BY <1>2, <1>4, <3>1 DEF Stream!Before
  <2>3. CASE k > N
    <3>1. k \in N + 1 .. N + n /\ k + 1 \in N + 1 .. N + n
      BY <2>3
    <3>2. v[k].chunk = c /\ v[k + 1].chunk = c /\ v[k].i = k - N
          /\ v[k + 1].i = k + 1 - N
      BY <1>4, <3>1
    <3> QED
      BY <3>1, <3>2 DEF Stream!Before
  <2> QED
    BY <2>1, <2>2, <2>3
<1>8. \A k \in 1 .. N + n : v[k].i > 1 => k > 1 /\ Follows(v[k], v[k - 1])
  <2> TAKE k \in 1 .. N + n
  <2> SUFFICES ASSUME v[k].i > 1 PROVE k > 1 /\ Follows(v[k], v[k - 1])
    OBVIOUS
  <2>1. CASE k \in 1 .. N
    <3>1. k > 1 /\ Follows(w[k], w[k - 1])
      BY <1>1, <1>2, <2>1 DEF Regular
    <3>2. k - 1 \in 1 .. N
      BY <2>1, <3>1
    <3> QED
      BY <1>2, <2>1, <3>1, <3>2
  <2>2. CASE k \in N + 1 .. N + n
    <3>1. k - N > 1
      BY <1>4, <2>2
    <3>2. k > 1 /\ k - 1 \in N + 1 .. N + n
      BY <2>2, <3>1
    <3>3. v[k].chunk = c /\ v[k - 1].chunk = c /\ v[k].i = k - N
          /\ v[k - 1].i = k - 1 - N
      BY <1>4, <2>2, <3>2
    <3>4. k - N = k - 1 - N + 1
      BY <2>2
    <3>5. v[k].i = v[k - 1].i + 1
      BY <3>3, <3>4
    <3> QED
      BY <3>2, <3>3, <3>5 DEF Follows
  <2> QED
    BY <1>5, <2>1, <2>2
<1>9. \A k \in 1 .. N + n : v[k].i < v[k].of /\ v[k].mode # "NO_BLOCK_TRIM" =>
         k < N + n /\ Follows(v[k + 1], v[k])
  <2> TAKE k \in 1 .. N + n
  <2> SUFFICES ASSUME v[k].i < v[k].of, v[k].mode # "NO_BLOCK_TRIM"
               PROVE  k < N + n /\ Follows(v[k + 1], v[k])
    OBVIOUS
  <2>1. CASE k \in 1 .. N
    <3>1. k < N /\ Follows(w[k + 1], w[k])
      BY <1>1, <1>2, <2>1 DEF Regular
    <3>2. k + 1 \in 1 .. N
      BY <2>1, <3>1
    <3> QED
      BY <1>2, <2>1, <3>1, <3>2
  <2>2. CASE k \in N + 1 .. N + n
    <3>1. k - N < of /\ n = of
      BY <1>4, <2>2
    <3>2. k < N + n /\ k + 1 \in N + 1 .. N + n
      BY <2>2, <3>1
    <3>3. v[k].chunk = c /\ v[k + 1].chunk = c /\ v[k].i = k - N
          /\ v[k + 1].i = k + 1 - N
      BY <1>4, <2>2, <3>2
    <3> QED
      BY <3>2, <3>3 DEF Follows
  <2> QED
    BY <1>5, <2>1, <2>2
<1> QED
  BY <1>2, <1>6, <1>7, <1>8, <1>9 DEF Regular

\* The last character may be dropped where it is the first of its write.
LEMMA RegularFront ==
    ASSUME NEW w \in Seq(Char), NEW v \in Seq(Char), Regular(w),
           Len(w) = Len(v) + 1, \A k \in 1 .. Len(v) : v[k] = w[k],
           w[Len(w)].i = 1
    PROVE  Regular(v)
<1>1. PICK N \in Nat : N = Len(v)
  BY LenProperties
<1>2. Len(w) = N + 1 /\ w[N + 1].i = 1
      /\ \A k \in 1 .. N : v[k] = w[k]
  BY <1>1
<1>3. \A k \in 1 .. N : v[k].i >= 1
  BY <1>2 DEF Regular
<1>4. \A k \in 1 .. N - 1 : Stream!Before(v[k], v[k + 1])
  BY <1>2 DEF Regular
<1>5. \A k \in 1 .. N : v[k].i > 1 => k > 1 /\ Follows(v[k], v[k - 1])
  BY <1>2 DEF Regular
<1>6. \A k \in 1 .. N : v[k].i < v[k].of /\ v[k].mode # "NO_BLOCK_TRIM" =>
         k < N /\ Follows(v[k + 1], v[k])
  <2> TAKE k \in 1 .. N
  <2> SUFFICES ASSUME v[k].i < v[k].of, v[k].mode # "NO_BLOCK_TRIM"
               PROVE  k < N /\ Follows(v[k + 1], v[k])
    OBVIOUS
  <2>1. Follows(w[k + 1], w[k])
    BY <1>2 DEF Regular
  <2>2. k # N
    <3>1. v[k] \in Char
      BY <1>1, ElementOfSeq
    <3>2. v[k].i \in Int /\ v[k].i >= 1
      BY <1>3, <3>1 DEF Char
    <3> QED
      BY <1>2, <2>1, <3>2 DEF Follows
  <2>3. k < N /\ k + 1 \in 1 .. N
    BY <2>2
  <2> QED
    BY <1>2, <2>1, <2>3
<1> QED
  BY <1>1, <1>3, <1>4, <1>5, <1>6 DEF Regular

\* A call adds its characters behind all the others.
LEMMA CallAdds ==
    ASSUME RingInv, RingInv', UNCHANGED <<pBuffer, received>>,
           NextRead' = NextRead, InRing' = InRing, LeftOver = 0
    PROVE  /\ Len(Whole') = Len(Whole) + LeftOver'
           /\ \A k \in 1 .. Len(Whole) : Whole'[k] = Whole[k]
           /\ \A k \in 1 .. LeftOver' : Whole'[Len(Whole) + k] = Ahead(k)'
<1>1. Parts /\ Parts'
  BY WholeParts, NextParts
<1>2. PICK F \in Offsets, R \in Nat, I \in Nat, L \in Nat :
         F = NextRead /\ R = Len(received) /\ I = InRing /\ L = LeftOver'
  <2>1. /\ NextRead \in Offsets /\ Len(received) \in Nat
        /\ InRing \in Nat /\ LeftOver' \in Nat
    BY <1>1, Sizes DEF Parts
  <2> QED
    BY <2>1, Zenon
<1>3. Len(Whole') = R + I + L /\ Len(Whole) = R + I
  BY <1>1, <1>2 DEF Parts
<1>4. \A k \in 1 .. R : Whole'[k] = Whole[k]
  BY <1>1, <1>2 DEF Parts
<1>5. \A k \in 1 .. I : Whole'[R + k] = Whole[R + k]
  BY <1>1, <1>2, Zenon DEF Parts
<1>6. \A k \in 1 .. L : Whole'[R + I + k] = Ahead(k)'
  BY <1>1, <1>2, Zenon DEF Parts
<1>7. \A k \in 1 .. R + I : Whole'[k] = Whole[k]
  <2> TAKE k \in 1 .. R + I
  <2>1. CASE k <= R
    BY <1>4, <2>1
  <2>2. CASE k > R
    <3>1. k - R \in 1 .. I /\ R + (k - R) = k
      BY <2>2
    <3> QED
      BY <1>5, <3>1
  <2> QED
    BY <2>1, <2>2
<1> QED
  BY <1>2, <1>3, <1>6, <1>7
---------------------------------------------------------------------------
(***************************************************************************)
(* The invariant of the characters.                                        *)
(***************************************************************************)

\* A step that moves characters only, none of them back.
LEMMA CharsStay ==
    ASSUME RingInv, RingInv', StreamInv, Whole' = Whole, writes' = writes,
           Len(received') + Visible' >= Len(received) + Visible,
           pc' = "write" => pc = "write" /\ UNCHANGED <<acBuffer, Flags>>,
           pc' \in {"wait", "put"} => pc \in {"wait", "put"} /\ UNCHANGED todo
    PROVE  StreamInv'
<1>1. Regular(Whole')
  BY DEF StreamInv
<1>2. /\ Len(received) + Visible \in Int /\ Len(received') + Visible' \in Int
      /\ Len(Whole) \in Int
  <2>1. Parts /\ Parts'
    BY WholeParts, NextParts
  <2> QED
    BY <2>1, Sizes, LenProperties DEF Parts
<1>3. \A k \in Len(received') + Visible' + 1 .. Len(Whole') :
         Whole'[k].chunk = writes'
  <2> TAKE k \in Len(received') + Visible' + 1 .. Len(Whole')
  <2>1. k \in Len(received) + Visible + 1 .. Len(Whole)
    BY <1>2
  <2>2. Whole[k].chunk = writes
    BY <2>1 DEF StreamInv, Latest
  <2> QED
    BY <2>2
<1>4. \A k \in 1 .. Len(Whole') : Whole'[k].chunk <= writes'
  BY DEF StreamInv, Latest
<1>5. pc' = "write" =>
         /\ \A k \in 1 .. Len(Whole') : Whole'[k].chunk < writes'
         /\ \A k \in 1 .. Len(acBuffer') :
               /\ acBuffer'[k].chunk = writes'
               /\ acBuffer'[k].i = k
               /\ acBuffer'[k].of = Len(acBuffer')
               /\ acBuffer'[k].mode = Flags'
  BY DEF StreamInv, Latest
<1>6. pc' \in {"wait", "put"} => todo'[1].i = 1
  BY DEF StreamInv, Latest
<1>7. Latest'
  BY <1>3, <1>4, <1>5, <1>6, Zenon DEF Latest
<1> QED
  BY <1>1, <1>7, Zenon DEF StreamInv

\* Between two writes everything is visible.
LEMMA AllVisible ==
    ASSUME RingInv, pc \in {"idle", "store", "write"}
    PROVE  /\ Copied = 0 /\ InRing = Visible /\ LeftOver = 0
           /\ Len(Whole) = Len(received) + Visible
<1>1. Copied = 0
  BY DEF Copied
<1>2. LeftOver = 0
  <2>1. todo = <<>> /\ pieces = <<>>
    BY DEF RingInv, Control
  <2>2. Len(todo) = 0 /\ PieceLen(1) = 0 /\ PieceLen(2) = 0
    BY <2>1 DEF PieceLen
  <2> QED
    BY <2>2 DEF LeftOver
<1>3. Visible \in Int /\ Len(received) \in Int
      /\ Len(Whole) = Len(received) + InRing + LeftOver
  BY WholeParts, Sizes DEF Parts
<1> QED
  BY <1>1, <1>2, <1>3 DEF InRing

\* Where nothing is being copied.
BetweenCopies == pc \in {"idle", "store", "write"}

\* The debugger may read all the characters.
ReadableToEnd == Len(Whole) = Len(received) + Visible

\* The same of the next state.
LEMMA AllVisibleNext == RingInv' /\ BetweenCopies' => ReadableToEnd'
<1>1. RingInv /\ BetweenCopies => ReadableToEnd
  BY AllVisible DEF BetweenCopies, ReadableToEnd
<1> QED
  BY <1>1, PTL

\* A step from one such place to another that leaves the ring alone.
LEMMA NothingCopied ==
    ASSUME RingInv, RingInv', BetweenCopies, BetweenCopies',
           UNCHANGED <<pBuffer, WrOff, RdOff, host, received, todo, pieces>>
    PROVE  Whole' = Whole
BY NothingMoves DEF BetweenCopies, NextRead, Copied

\* A step that takes the next number and leaves the characters alone.
LEMMA NumberTaken ==
    ASSUME RingInv, RingInv', StreamInv, Whole' = Whole,
           writes' = writes + 1, pc' \in {"idle", "store", "write"},
           pc' = "write" => Begun(acBuffer', 0, Len(acBuffer'), writes',
                                  Len(acBuffer'), Flags')
    PROVE  StreamInv'
<1>1. Parts /\ Parts' /\ writes \in Int
  BY WholeParts, NextParts, Sizes DEF RingInv, CallOK
<1>2. Whole \in Seq(Char) /\ Len(Whole) \in Int
  BY <1>1, LenProperties DEF Parts, Char
<1>3. \A k \in 1 .. Len(Whole) : Whole[k].chunk \in Int
  <2>1. \A k \in 1 .. Len(Whole) : Whole[k] \in Char
    BY <1>2, ElementOfSeq
  <2> QED
    BY <2>1, Sizes DEF Char
<1>4. \A k \in 1 .. Len(Whole') : Whole'[k].chunk < writes'
  <2>1. \A k \in 1 .. Len(Whole) : Whole[k].chunk <= writes
    BY DEF StreamInv, Latest
  <2> QED
    BY <1>1, <1>3, <2>1
<1>5. \A k \in Len(received') + Visible' + 1 .. Len(Whole') :
         Whole'[k].chunk = writes'
  <2>1. Len(Whole') = Len(received') + Visible' /\ Len(Whole') \in Int
    BY <1>2, AllVisibleNext DEF BetweenCopies, ReadableToEnd
  <2> QED
    BY <2>1
<1>6. pc' = "write" =>
         \A k \in 1 .. Len(acBuffer') :
            /\ acBuffer'[k].chunk = writes'
            /\ acBuffer'[k].i = k
            /\ acBuffer'[k].of = Len(acBuffer')
            /\ acBuffer'[k].mode = Flags'
  BY DEF Begun
<1>7. \A k \in 1 .. Len(Whole') : Whole'[k].chunk <= writes'
  BY <1>1, <1>3, <1>4
<1>8. Latest'
  BY <1>4, <1>5, <1>6, <1>7 DEF Latest
<1> QED
  BY <1>8 DEF StreamInv

\* A full buffer is to be written once more.
LEMMA KeptByWriteAgain ==
    ASSUME RingInv, RingInv', StreamInv, Whole' = Whole, Flags' = Flags,
           rest > 0, WriteAgain
    PROVE  StreamInv'
<1>1. writes' = writes + 1 /\ pc' = "write"
  BY DEF WriteAgain
<1>2. \A k \in 1 .. Len(acBuffer') :
         /\ acBuffer'[k].chunk = writes' /\ acBuffer'[k].i = k
         /\ acBuffer'[k].of = Len(acBuffer') /\ acBuffer'[k].mode = Flags'
  BY WrittenAgain
<1>3. Begun(acBuffer', 0, Len(acBuffer'), writes', Len(acBuffer'), Flags')
  <2>1. \A k \in 1 .. Len(acBuffer') : 0 + k = k
    BY WrittenAgain, LenProperties
  <2> QED
    BY <1>2, <2>1, Zenon DEF Begun
<1> QED
  BY <1>1, <1>3, NumberTaken

\* A call whose characters are to be copied.
LEMMA WriteBegins ==
    ASSUME RingInv, RingInv', StreamInv, pc \in {"idle", "write"},
           UNCHANGED <<pBuffer, WrOff, RdOff, host, received>>,
           pc' \in {"block", "copy", "wait", "put"},
           writes' \in Nat,
           \A k \in 1 .. Len(Whole) : Whole[k].chunk < writes',
           NEW of \in Nat, NEW mode \in Modes,
           \A k \in 1 .. LeftOver' :
              /\ Ahead(k)'.chunk = writes' /\ Ahead(k)'.i = k
              /\ Ahead(k)'.of = of /\ Ahead(k)'.mode = mode,
           mode = "NO_BLOCK_TRIM" \/ LeftOver' = of,
           pc' \in {"wait", "put"} => todo'[1].i = 1
    PROVE  StreamInv'
<1>1. /\ Len(Whole) = Len(received) + Visible
      /\ Copied = 0 /\ InRing = Visible /\ LeftOver = 0
  BY AllVisible
<1>2. Copied' = 0 /\ NextRead' = NextRead
  BY DEF Copied, NextRead
<1>3. Visible' = Visible /\ InRing' = InRing
  <2>1. Visible' = Visible
    BY <1>2 DEF Visible, Between
  <2> QED
    BY <1>1, <1>2, <2>1 DEF InRing
<1>4. /\ Len(Whole') = Len(Whole) + LeftOver'
      /\ \A k \in 1 .. Len(Whole) : Whole'[k] = Whole[k]
      /\ \A k \in 1 .. LeftOver' : Whole'[Len(Whole) + k] = Ahead(k)'
  BY <1>1, <1>2, <1>3, CallAdds
<1>5. Parts /\ Parts'
  BY WholeParts, NextParts
<1>6. PICK w \in Seq(Char), v \in Seq(Char), n \in Nat, c \in Nat :
         w = Whole /\ v = Whole' /\ n = LeftOver' /\ c = writes'
  <2>1. Whole \in Seq(Char) /\ Whole' \in Seq(Char) /\ LeftOver' \in Nat
    BY <1>5 DEF Parts, Char
  <2> QED
    BY <2>1, Zenon
<1>7. PICK N \in Nat : N = Len(w)
  BY LenProperties
<1>8. /\ Len(v) = N + n
      /\ \A k \in 1 .. N : v[k] = w[k] /\ w[k].chunk < c
      /\ \A k \in 1 .. n : /\ v[N + k].chunk = c /\ v[N + k].i = k
                           /\ v[N + k].of = of /\ v[N + k].mode = mode
      /\ mode = "NO_BLOCK_TRIM" \/ n = of
  BY <1>4, <1>6, <1>7, Zenon
<1>9. Begun(v, N, n, c, of, mode)
  BY <1>8 DEF Begun
<1>10. Regular(v)
  <2>1. Regular(w)
    BY <1>6 DEF StreamInv
  <2>2. /\ Len(v) = Len(w) + n /\ Begun(v, Len(w), n, c, of, mode)
        /\ \A k \in 1 .. Len(w) : v[k] = w[k] /\ w[k].chunk < c
    BY <1>7, <1>8, <1>9
  <2>3. mode = "NO_BLOCK_TRIM" \/ n = of
    BY <1>8
  <2> QED
    BY <2>1, <2>2, <2>3, RegularExtends, Zenon
<1>11. \A k \in N + 1 .. N + n : v[k].chunk = c
  <2> TAKE k \in N + 1 .. N + n
  <2>1. k - N \in 1 .. n /\ N + (k - N) = k
    OBVIOUS
  <2> QED
    BY <1>8, <2>1
<1>12. \A k \in 1 .. N + n : v[k].chunk <= c
  <2> TAKE k \in 1 .. N + n
  <2>1. CASE k \in 1 .. N
    <3>1. w[k] \in Char
      BY <1>7, <2>1, ElementOfSeq
    <3>2. w[k].chunk \in Int
      BY <3>1, Sizes DEF Char
    <3> QED
      BY <1>8, <2>1, <3>2
  <2>2. CASE k \in N + 1 .. N + n
    BY <1>11, <2>2
  <2> QED
    BY <2>1, <2>2
<1>13. /\ \A k \in 1 .. Len(Whole') : Whole'[k].chunk <= writes'
       /\ \A k \in Len(received') + Visible' + 1 .. Len(Whole') :
             Whole'[k].chunk = writes'
  <2>1. Len(received') + Visible' = N /\ Len(Whole') = N + n
    BY <1>1, <1>3, <1>6, <1>7, <1>8
  <2> QED
    BY <1>6, <1>11, <1>12, <2>1
<1>14. Latest'
  BY <1>13 DEF Latest
<1> QED
  BY <1>6, <1>10, <1>14 DEF StreamInv

\* A step that leaves the ring and the write alone.
LEMMA RingAlone ==
    ASSUME RingInv, RingInv', StreamInv,
           UNCHANGED <<pBuffer, WrOff, received, todo, pieces, writes>>,
           NextRead' = NextRead, Copied' = Copied, pc' # "write",
           pc' \in {"wait", "put"} => pc \in {"wait", "put"}
    PROVE  StreamInv'
<1>1. Whole' = Whole /\ Visible' = Visible
  BY NothingMoves
<1>2. Len(received') + Visible' >= Len(received) + Visible
  <2>1. Len(received) + Visible \in Int
    BY WholeParts, Sizes DEF Parts
  <2> QED
    BY <1>1, <2>1
<1> QED
  BY <1>1, <1>2, CharsStay

\* Those that write no character.
LEMMA KeptWithoutCharacters ==
    ASSUME RingInv, RingInv', StreamInv,
           \/ \E mode \in Modes : SEGGER_RTT_SetFlagsUpBuffer(mode)
           \/ \E length \in 1 .. MAX_LENGTH : SEGGER_RTT_vprintf(length)
           \/ WaitForSpace
           \/ HostLooks
           \/ HostPublishes
    PROVE  StreamInv'
<1>1. CASE \E mode \in Modes : SEGGER_RTT_SetFlagsUpBuffer(mode)
  <2>1. /\ pc = "idle"
        /\ UNCHANGED <<pBuffer, WrOff, RdOff, host, received, todo, pieces,
                       writes, pc>>
    BY <1>1 DEF SEGGER_RTT_SetFlagsUpBuffer, program
  <2> QED
    BY <2>1, RingAlone DEF NextRead, Copied
<1>2. CASE \E length \in 1 .. MAX_LENGTH : SEGGER_RTT_vprintf(length)
  <2>1. /\ pc = "idle" /\ pc' = "store"
        /\ UNCHANGED <<pBuffer, WrOff, RdOff, host, received, todo, pieces,
                       writes>>
    BY <1>2 DEF SEGGER_RTT_vprintf, ring
  <2> QED
    BY <2>1, RingAlone DEF NextRead, Copied
<1>3. CASE WaitForSpace
  <2>1. /\ pc = "wait" /\ pc' = "put"
        /\ UNCHANGED <<pBuffer, WrOff, RdOff, host, received, todo, pieces,
                       writes>>
    BY <1>3 DEF WaitForSpace, ring
  <2> QED
    BY <2>1, RingAlone DEF NextRead, Copied
<1>4. ASSUME HostLooks \/ HostPublishes
      PROVE  StreamInv'
  <2>1. /\ NextRead' = NextRead /\ Copied' = Copied
        /\ UNCHANGED <<pBuffer, WrOff, received, todo, pieces, writes, pc,
                       acBuffer, Flags>>
    <3>1. CASE HostLooks
      BY <3>1 DEF HostLooks, ring, program, NextRead, Copied, Between
    <3>2. CASE HostPublishes
      BY <3>2 DEF HostPublishes, ring, program, NextRead, Copied, Between,
                  RingInv, HostOK
    <3> QED
      BY <1>4, <3>1, <3>2
  <2>2. Whole' = Whole /\ Visible' = Visible
    BY <2>1, NothingMoves
  <2>3. Len(received') + Visible' >= Len(received) + Visible
    <3>1. Len(received) + Visible \in Int
      BY WholeParts, Sizes DEF Parts
    <3> QED
      BY <2>1, <2>2, <3>1
  <2> QED
    BY <2>1, <2>2, <2>3, CharsStay
<1> QED
  BY <1>1, <1>2, <1>3, <1>4

\* Characters that enter the ring, those it holds when the debugger copies
\* them, and those the program publishes.
LEMMA KeptWhereCharactersMove ==
    ASSUME RingInv, RingInv', StreamInv,
           \/ WriteNoCheck
           \/ WriteNoCheckWraps
           \/ WriteBlocking
           \/ Publish
           \/ HostCopies
    PROVE  StreamInv'
<1>1. Parts /\ Parts'
  BY WholeParts, NextParts
<1>2. CASE WriteNoCheck \/ WriteNoCheckWraps \/ WriteBlocking
  <2>1. PICK n \in Nat : Enters(n)
    BY <1>2, CopiesToEnd, CopiesFromStart, CopiesATurn
  <2>2. Whole' = Whole /\ Visible' = Visible /\ received' = received
    BY <2>1, EntersKeeps
  <2>3. writes' = writes /\ pc' \in {"publish", "wrap"}
    BY <1>2, <2>1 DEF Enters, Untouched, WriteNoCheck, WriteNoCheckWraps,
                      WriteBlocking
  <2>4. Len(received') + Visible' >= Len(received) + Visible
    <3>1. Len(received) + Visible \in Int
      BY <1>1, Sizes DEF Parts
    <3> QED
      BY <2>2, <3>1
  <2> QED
    BY <2>2, <2>3, <2>4, CharsStay
<1>3. CASE Publish
  <2>1. Whole' = Whole /\ received' = received /\ Visible' = InRing
    BY <1>3, PublishKeeps
  <2>2. Len(received') + Visible' >= Len(received) + Visible
    BY <1>1, <2>1, Sizes DEF Parts, InRing
  <2>3. CASE pc' \in {"idle", "store", "block"} /\ writes' = writes
    BY <2>1, <2>2, <2>3, CharsStay
  <2>4. CASE rest > 0 /\ WriteAgain
    <3>1. Flags' = Flags
      BY <1>3 DEF Publish
    <3> QED
      BY <2>1, <2>4, <3>1, KeptByWriteAgain
  <2> QED
    BY <1>3, <2>3, <2>4 DEF Publish, Written, Return
<1>4. CASE HostCopies
  <2>1. PICK m \in 0 .. Visible : /\ Len(received') = Len(received) + m
                                  /\ Visible' = Visible - m
    BY <1>4, HostCopyKeeps
  <2>2. Whole' = Whole
    BY <1>4, HostCopyKeeps
  <2>3. Len(received') + Visible' >= Len(received) + Visible
    <3>1. \A a \in Int, b \in Int, c \in Int : (a + c) + (b - c) >= a + b
      OBVIOUS
    <3>2. Len(received) \in Int /\ Visible \in Int /\ m \in Int
      BY <1>1, <2>1, Sizes DEF Parts
    <3> QED
      BY <2>1, <3>1, <3>2, Zenon
  <2>4. UNCHANGED <<writes, pc, acBuffer, Flags, todo>>
    BY <1>4 DEF HostCopies, ring, program
  <2> QED
    BY <2>2, <2>3, <2>4, CharsStay
<1> QED
  BY <1>2, <1>3, <1>4

\* SEGGER_RTT_Write collects the characters of the next write.
LEMMA KeptByStoreChar ==
    ASSUME RingInv, RingInv', StreamInv, StoreChar
    PROVE  StreamInv'
<1> DEFINE n == Min({rest, PRINTF_BUFFER_SIZE})
<1>1. /\ pc = "store" /\ pc' = "write" /\ writes' = writes + 1
      /\ acBuffer' = Chars(writes + 1, Text(n, ActiveTerminal), Flags)
      /\ UNCHANGED <<pBuffer, WrOff, RdOff, Flags, todo, pieces, host, received>>
  BY DEF StoreChar, ring
<1>2. n \in Nat
  <2>1. rest \in Nat /\ PRINTF_BUFFER_SIZE \in Nat
    BY Sizes DEF RingInv, CallOK
  <2> QED
    BY <2>1, MinOfTwo
<1>3. PICK w \in 0 .. MAX_WRITES : w = writes + 1
  BY <1>1 DEF RingInv, CallOK
<1>4. PICK t \in Seq(Sign) : t = Text(n, ActiveTerminal)
  BY <1>2, TextTypes DEF RingInv, CallOK
<1>5. /\ Len(Chars(w, t, Flags)) = Len(t)
      /\ \A k \in 1 .. Len(t) :
            /\ Chars(w, t, Flags)[k].chunk = w
            /\ Chars(w, t, Flags)[k].i = k
            /\ Chars(w, t, Flags)[k].of = Len(t)
            /\ Chars(w, t, Flags)[k].mode = Flags
  BY CharsTypes DEF RingInv, RingOK
<1>6. acBuffer' = Chars(w, t, Flags) /\ writes' = w /\ Flags' = Flags
  BY <1>1, <1>3, <1>4
<1>7. /\ Len(acBuffer') = Len(t)
      /\ \A k \in 1 .. Len(acBuffer') :
            /\ acBuffer'[k].chunk = writes' /\ acBuffer'[k].i = k
            /\ acBuffer'[k].of = Len(acBuffer') /\ acBuffer'[k].mode = Flags'
  BY <1>5, <1>6, Zenon
<1>8. Begun(acBuffer', 0, Len(acBuffer'), writes', Len(acBuffer'), Flags')
  <2>1. \A k \in 1 .. Len(acBuffer') : 0 + k = k
    BY <1>7, LenProperties
  <2> QED
    BY <1>7, <2>1, Zenon DEF Begun
<1>9. Whole' = Whole
  BY <1>1, NothingCopied DEF BetweenCopies
<1> QED
  BY <1>1, <1>8, <1>9, NumberTaken

\* What the mode lets in is the whole buffer, unless it is trimmed or nothing.
LEMMA AcceptedWhole ==
    ASSUME RingInv, NEW n \in Nat
    PROVE  \/ Accepted(n) = n
           \/ Flags = "NO_BLOCK_TRIM"
           \/ Flags = "NO_BLOCK_SKIP" /\ Accepted(n) = 0
BY DEF Accepted, RingInv, RingOK, Modes

\* SEGGER_RTT_WriteNoLock chooses how many of them are to be copied.
LEMMA KeptByWriteNoLock ==
    ASSUME RingInv, RingInv', StreamInv, SEGGER_RTT_WriteNoLock
    PROVE  StreamInv'
<1>1. acBuffer \in Seq(Char) /\ Len(acBuffer) \in Nat
  BY LenProperties DEF RingInv, CallOK
<1>2. PICK b \in Nat, n \in Nat : b = Len(acBuffer) /\ n = Accepted(b)
  BY <1>1, AcceptedFits
<1>3. /\ n \in 0 .. b
      /\ \/ n = b
         \/ Flags = "NO_BLOCK_TRIM"
         \/ Flags = "NO_BLOCK_SKIP" /\ n = 0
  BY <1>2, AcceptedFits, AcceptedWhole
<1>4. /\ pc = "write"
      /\ UNCHANGED <<pBuffer, WrOff, RdOff, Flags, pieces, host, received>>
      /\ \/ Written(0) /\ UNCHANGED todo
         \/ /\ ~(Flags = "NO_BLOCK_SKIP" /\ n = 0)
            /\ todo' = SubSeq(acBuffer, 1, n)
            /\ pc' = IF Flags = "BLOCK_IF_FIFO_FULL" THEN "block" ELSE "copy"
            /\ writes' = writes
  BY <1>2 DEF SEGGER_RTT_WriteNoLock, ring
<1>5. CASE Written(0) /\ UNCHANGED todo
  <2>1. CASE pc' \in {"idle", "store"} /\ writes' = writes
    BY <1>4, <1>5, <2>1, RingAlone DEF NextRead, Copied
  <2>2. CASE rest > 0 /\ WriteAgain
    <3>1. pc' = "write"
      BY <2>2 DEF WriteAgain
    <3>2. Whole' = Whole
      BY <1>4, <1>5, <3>1, NothingCopied DEF BetweenCopies
    <3> QED
      BY <1>4, <2>2, <3>2, KeptByWriteAgain
  <2> QED
    BY <1>5, <2>1, <2>2 DEF Written, Return
<1>6. CASE /\ ~(Flags = "NO_BLOCK_SKIP" /\ n = 0)
           /\ todo' = SubSeq(acBuffer, 1, n)
           /\ pc' = IF Flags = "BLOCK_IF_FIFO_FULL" THEN "block" ELSE "copy"
           /\ writes' = writes
  <2>1. /\ Len(todo') = n /\ \A k \in 1 .. n : todo'[k] = acBuffer[k]
    BY <1>1, <1>2, <1>3, <1>6, FrontAndRest
  <2>2. LeftOver' = n
    <3>1. pieces' = <<>>
      BY <1>4 DEF RingInv, Control
    <3> QED
      BY <2>1, <3>1 DEF LeftOver, PieceLen
  <2>3. \A k \in 1 .. n : Ahead(k)' = acBuffer[k]
    BY <2>1 DEF Ahead
  <2>4. /\ \A k \in 1 .. Len(Whole) : Whole[k].chunk < writes
        /\ \A k \in 1 .. b : /\ acBuffer[k].chunk = writes
                             /\ acBuffer[k].i = k
                             /\ acBuffer[k].of = b
                             /\ acBuffer[k].mode = Flags
    BY <1>2, <1>4 DEF StreamInv, Latest
  <2>5. \A k \in 1 .. n : k \in 1 .. b
    BY <1>3
  <2>6. \A k \in 1 .. LeftOver' :
           /\ Ahead(k)'.chunk = writes' /\ Ahead(k)'.i = k
           /\ Ahead(k)'.of = b /\ Ahead(k)'.mode = Flags
    <3> TAKE k \in 1 .. LeftOver'
    <3>1. k \in 1 .. n /\ k \in 1 .. b
      BY <2>2, <2>5
    <3>2. Ahead(k)' = acBuffer[k] /\ writes' = writes
      BY <1>6, <2>3, <3>1, Zenon
    <3>3. /\ acBuffer[k].chunk = writes /\ acBuffer[k].i = k
          /\ acBuffer[k].of = b /\ acBuffer[k].mode = Flags
      BY <2>4, <3>1, Zenon
    <3> QED
      BY <3>2, <3>3, Zenon
  <2>7. Flags = "NO_BLOCK_TRIM" \/ LeftOver' = b
    BY <1>3, <1>6, <2>2
  <2>8. writes' \in Nat /\ Flags \in Modes /\ pc' \in {"block", "copy"}
    BY <1>4, <1>6, Sizes DEF RingInv, CallOK, RingOK
  <2>9. \A k \in 1 .. Len(Whole) : Whole[k].chunk < writes'
    BY <1>6, <2>4
  <2> QED
    BY <1>4, <2>6, <2>7, <2>8, <2>9, WriteBegins
<1> QED
  BY <1>4, <1>5, <1>6

\* The characters of a call come after all the others.
LEMMA CharsBefore ==
    ASSUME RingInv, StreamInv, writes' = writes + 1
    PROVE  \A k \in 1 .. Len(Whole) : Whole[k].chunk < writes'
<1>1. Whole \in Seq(Char) /\ writes \in Int
  BY WholeParts, Sizes DEF Parts, RingInv, CallOK, Char
<1>2. \A k \in 1 .. Len(Whole) : Whole[k].chunk \in Int
  <2>1. \A k \in 1 .. Len(Whole) : Whole[k] \in Char
    BY <1>1, ElementOfSeq
  <2> QED
    BY <2>1, Sizes DEF Char
<1>3. \A k \in 1 .. Len(Whole) : Whole[k].chunk <= writes
  BY DEF StreamInv, Latest
<1> QED
  BY <1>1, <1>2, <1>3

\* SEGGER_RTT_PutChar and SEGGER_RTT_PutCharSkip take a character.
LEMMA KeptByStartPut ==
    ASSUME RingInv, RingInv', StreamInv, NEW next \in {"wait", "put"},
           StartPut(next)
    PROVE  StreamInv'
<1>1. /\ pc = "idle" /\ pc' = next /\ writes' = writes + 1
      /\ todo' = Chars(writes + 1, Text(1, ActiveTerminal), Flags)
      /\ UNCHANGED <<pBuffer, WrOff, RdOff, Flags, pieces, host, received>>
  BY DEF StartPut, ring
<1>2. PICK w \in 0 .. MAX_WRITES : w = writes + 1
  BY <1>1 DEF RingInv, CallOK
<1>3. PICK t \in Seq(Sign) : t = Text(1, ActiveTerminal) /\ Len(t) = 1
  BY TextTypes DEF RingInv, CallOK
<1>4. /\ Len(Chars(w, t, Flags)) = Len(t)
      /\ \A k \in 1 .. Len(t) :
            /\ Chars(w, t, Flags)[k].chunk = w
            /\ Chars(w, t, Flags)[k].i = k
            /\ Chars(w, t, Flags)[k].of = Len(t)
            /\ Chars(w, t, Flags)[k].mode = Flags
  BY CharsTypes DEF RingInv, RingOK
<1>5. todo' = Chars(w, t, Flags) /\ writes' = w
  BY <1>1, <1>2, <1>3
<1>6. /\ Len(todo') = 1
      /\ todo'[1].chunk = writes' /\ todo'[1].i = 1
      /\ todo'[1].of = 1 /\ todo'[1].mode = Flags
  <2>1. 1 \in 1 .. Len(t)
    <3>1. 1 \in 1 .. 1
      OBVIOUS
    <3> QED
      BY <1>3, <3>1, Zenon
  <2> QED
    BY <1>3, <1>4, <1>5, <2>1, Zenon
<1>7. LeftOver' = 1 /\ Ahead(1)' = todo'[1]
  <2>1. pieces' = <<>>
    BY <1>1 DEF RingInv, Control
  <2> QED
    BY <1>6, <2>1 DEF LeftOver, PieceLen, Ahead
<1>8. \A k \in 1 .. LeftOver' :
         /\ Ahead(k)'.chunk = writes' /\ Ahead(k)'.i = k
         /\ Ahead(k)'.of = 1 /\ Ahead(k)'.mode = Flags
  <2> TAKE k \in 1 .. LeftOver'
  <2>1. k = 1
    BY <1>7
  <2> QED
    BY <1>6, <1>7, <2>1, Zenon
<1>9. \A k \in 1 .. Len(Whole) : Whole[k].chunk < writes'
  BY <1>1, CharsBefore
<1>10. writes' \in Nat /\ Flags \in Modes
  BY <1>5, Sizes DEF RingInv, RingOK
<1> QED
  BY <1>1, <1>6, <1>7, <1>8, <1>9, <1>10, WriteBegins

\* A character that is skipped was the last one.
LEMMA SkipTakesLast ==
    ASSUME RingInv, RingInv', pc = "put", pc' = "idle",
           todo' = <<>>, pBuffer' = pBuffer, Untouched
    PROVE  \E w \in Seq(Char), v \in Seq(Char) :
              /\ w = Whole /\ v = Whole' /\ Len(w) = Len(v) + 1
              /\ \A k \in 1 .. Len(v) : v[k] = w[k]
              /\ w[Len(w)] = todo[1]
              /\ Len(v) = Len(received') + Visible'
<1>1. Parts /\ Parts'
  BY WholeParts, NextParts
<1>2. /\ UNCHANGED <<WrOff, RdOff, host, received, pieces, writes>>
      /\ pieces = <<>> /\ Len(todo) = 1
  BY DEF Untouched, RingInv, Control
<1>3. /\ Copied = 0 /\ Copied' = 0 /\ NextRead' = NextRead
  BY <1>2 DEF Copied, NextRead
<1>4. Visible' = Visible /\ InRing' = InRing
  BY <1>2, <1>3 DEF Visible, InRing, Between
<1>5. LeftOver = 1 /\ LeftOver' = 0 /\ Ahead(1) = todo[1]
  BY <1>2 DEF LeftOver, PieceLen, Ahead
<1>6. PICK F \in Offsets, R \in Nat, I \in Nat :
         F = NextRead /\ R = Len(received) /\ I = InRing
  <2>1. NextRead \in Offsets /\ Len(received) \in Nat /\ InRing \in Nat
    BY <1>1, Sizes DEF Parts
  <2> QED
    BY <2>1, Zenon
<1>7. PICK w \in Seq(Char), v \in Seq(Char) : w = Whole /\ v = Whole'
  <2>1. Whole \in Seq(Char) /\ Whole' \in Seq(Char)
    BY <1>1 DEF Parts, Char
  <2> QED
    BY <2>1, Zenon
<1>8. Len(w) = R + I + 1 /\ Len(v) = R + I
  BY <1>1, <1>2, <1>4, <1>5, <1>6, <1>7 DEF Parts
<1>9. \A k \in 1 .. R : v[k] = received[k] /\ w[k] = received[k]
  BY <1>1, <1>2, <1>6, <1>7, Zenon DEF Parts
<1>10. \A k \in 1 .. I : v[R + k] = w[R + k]
  BY <1>1, <1>2, <1>3, <1>4, <1>6, <1>7, Zenon DEF Parts
<1>11. \A k \in 1 .. R + I : v[k] = w[k]
  <2> TAKE k \in 1 .. R + I
  <2>1. CASE k <= R
    BY <1>9, <2>1
  <2>2. CASE k > R
    <3>1. k - R \in 1 .. I /\ R + (k - R) = k
      BY <2>2
    <3> QED
      BY <1>10, <3>1
  <2> QED
    BY <2>1, <2>2
<1>12. w[R + I + 1] = todo[1]
  BY <1>1, <1>5, <1>6, <1>7 DEF Parts
<1>13. Len(received') + Visible' = R + I
  <2>1. InRing = Visible
    BY <1>1, <1>3, Sizes DEF InRing, Parts
  <2> QED
    BY <1>2, <1>4, <1>6, <2>1
<1>14. /\ Len(w) = Len(v) + 1 /\ \A k \in 1 .. Len(v) : v[k] = w[k]
       /\ w[Len(w)] = todo[1] /\ Len(v) = Len(received') + Visible'
  BY <1>8, <1>11, <1>12, <1>13
<1> QED
  BY <1>7, <1>14, Zenon

\* And a write of its own.
LEMMA SkipDrops ==
    ASSUME RingInv, RingInv', StreamInv, pc = "put", pc' = "idle",
           todo' = <<>>, pBuffer' = pBuffer, Untouched
    PROVE  StreamInv'
<1>1. PICK w \in Seq(Char), v \in Seq(Char) :
         /\ w = Whole /\ v = Whole' /\ Len(w) = Len(v) + 1
         /\ \A k \in 1 .. Len(v) : v[k] = w[k]
         /\ w[Len(w)] = todo[1]
         /\ Len(v) = Len(received') + Visible'
  BY SkipTakesLast
<1>2. PICK N \in Nat : N = Len(v)
  BY LenProperties
<1>3. writes' = writes
  BY DEF Untouched
<1>4. Regular(v)
  <2>1. Regular(w)
    BY <1>1 DEF StreamInv
  <2>2. w[Len(w)].i = 1
    BY <1>1 DEF StreamInv, Latest
  <2> QED
    BY <1>1, <2>1, <2>2, RegularFront
<1>5. \A k \in 1 .. Len(Whole') : Whole'[k].chunk <= writes'
  <2>1. \A k \in 1 .. N + 1 : w[k].chunk <= writes
    BY <1>1, <1>2 DEF StreamInv, Latest
  <2> QED
    BY <1>1, <1>2, <1>3, <2>1
<1>6. \A k \in Len(received') + Visible' + 1 .. Len(Whole') :
         Whole'[k].chunk = writes'
  <2>1. Len(received') + Visible' = N /\ Len(Whole') = N
    BY <1>1, <1>2
  <2> QED
    BY <2>1
<1>7. Latest'
  BY <1>5, <1>6 DEF Latest
<1> QED
  BY <1>1, <1>4, <1>7 DEF StreamInv

\* The character is stored or skipped.
LEMMA KeptByPutOrSkip ==
    ASSUME RingInv, RingInv', StreamInv, PutOrSkip
    PROVE  StreamInv'
<1>1. pc = "put" /\ pc' \in {"publish", "idle"}
  BY DEF PutOrSkip
<1>2. CASE Enters(1)
  <2>1. Whole' = Whole /\ Visible' = Visible /\ received' = received
    BY <1>2, EntersKeeps
  <2>2. writes' = writes
    BY <1>2 DEF Enters, Untouched
  <2>3. Len(received') + Visible' >= Len(received) + Visible
    <3>1. Len(received) + Visible \in Int
      BY WholeParts, Sizes DEF Parts
    <3> QED
      BY <2>1, <3>1
  <2> QED
    BY <1>1, <2>1, <2>2, <2>3, CharsStay
<1>3. CASE todo' = <<>> /\ pc' = "idle" /\ pBuffer' = pBuffer /\ Untouched
  BY <1>1, <1>3, SkipDrops
<1> QED
  BY <1>2, <1>3, CharPut

\* SEGGER_RTT_SetTerminal writes a switch or nothing.
LEMMA KeptBySetTerminal ==
    ASSUME RingInv, RingInv', StreamInv, NEW t \in Terminals,
           SEGGER_RTT_SetTerminal(t)
    PROVE  StreamInv'
<1>1. /\ writes' \in 0 .. MAX_WRITES /\ writes' = writes + 1
      /\ pieces = <<>> /\ todo = <<>> /\ pc = "idle"
      /\ UNCHANGED <<pBuffer, WrOff, RdOff, Flags, host, received>>
  BY NextWrite DEF SEGGER_RTT_SetTerminal
<1>2. pieces' = pieces /\ SwitchTo(t)
  BY DEF SEGGER_RTT_SetTerminal
<1>3. CASE UNCHANGED <<ActiveTerminal, todo, pc>>
  <2>1. Whole' = Whole
    BY <1>1, <1>2, <1>3, NothingCopied DEF BetweenCopies
  <2> QED
    BY <1>1, <1>3, <2>1, NumberTaken
<1>4. CASE /\ todo' = Chars(writes + 1, Switch(t), Flags)
           /\ pc' = IF Flags = "BLOCK_IF_FIFO_FULL" THEN "block" ELSE "copy"
  <2>1. PICK w \in 0 .. MAX_WRITES : w = writes + 1
    BY <1>1
  <2>2. PICK s \in Seq(Sign) : s = Switch(t) /\ Len(s) = 2
    BY SwitchTypes
  <2>3. /\ Len(Chars(w, s, Flags)) = Len(s)
        /\ \A k \in 1 .. Len(s) :
              /\ Chars(w, s, Flags)[k].chunk = w
              /\ Chars(w, s, Flags)[k].i = k
              /\ Chars(w, s, Flags)[k].of = Len(s)
              /\ Chars(w, s, Flags)[k].mode = Flags
    BY CharsTypes DEF RingInv, RingOK
  <2>4. todo' = Chars(w, s, Flags) /\ writes' = w
    BY <1>1, <1>4, <2>1, <2>2
  <2>5. /\ Len(todo') = 2
        /\ \A k \in 1 .. 2 :
              /\ todo'[k].chunk = writes' /\ todo'[k].i = k
              /\ todo'[k].of = 2 /\ todo'[k].mode = Flags
    BY <2>2, <2>3, <2>4, Zenon
  <2>6. LeftOver' = 2 /\ \A k \in 1 .. 2 : Ahead(k)' = todo'[k]
    <3>1. pieces' = <<>>
      BY <1>1, <1>2
    <3>2. LeftOver' = 2
      BY <2>5, <3>1 DEF LeftOver, PieceLen
    <3>3. \A k \in 1 .. 2 : Ahead(k)' = todo'[k]
      BY <2>5, <3>1 DEF Ahead
    <3> QED
      BY <3>2, <3>3
  <2>7. \A k \in 1 .. LeftOver' :
           /\ Ahead(k)'.chunk = writes' /\ Ahead(k)'.i = k
           /\ Ahead(k)'.of = 2 /\ Ahead(k)'.mode = Flags
    <3> TAKE k \in 1 .. LeftOver'
    <3>1. k \in 1 .. 2
      BY <2>6
    <3>2. Ahead(k)' = todo'[k]
      BY <2>6, <3>1, Zenon
    <3> QED
      BY <2>5, <3>1, <3>2, Zenon
  <2>8. \A k \in 1 .. Len(Whole) : Whole[k].chunk < writes'
    BY <1>1, CharsBefore
  <2>9. writes' \in Nat /\ Flags \in Modes /\ pc' \in {"block", "copy"}
    BY <1>1, <1>4, Sizes DEF RingInv, RingOK
  <2> QED
    BY <1>1, <2>6, <2>7, <2>8, <2>9, WriteBegins
<1> QED
  BY <1>2, <1>3, <1>4 DEF SwitchTo

\* The three pieces of a SEGGER_RTT_TerminalOut are one write.
LEMMA PiecesInARow ==
    ASSUME NEW s \in Seq(Char), NEW n \in Nat, Len(s) = n + 4,
           todo' = SubSeq(s, 1, 2),
           pieces' = <<SubSeq(s, 3, n + 2), SubSeq(s, n + 3, n + 4)>>
    PROVE  LeftOver' = n + 4 /\ \A k \in 1 .. n + 4 : Ahead(k)' = s[k]
<1>1. PICK p0 \in Seq(Char), p1 \in Seq(Char), p2 \in Seq(Char) :
         /\ p0 = SubSeq(s, 1, 2) /\ p1 = SubSeq(s, 3, n + 2)
         /\ p2 = SubSeq(s, n + 3, n + 4)
  BY ThreePieces, Zenon
<1>2. /\ Len(p0) = 2 /\ Len(p1) = n /\ Len(p2) = 2
      /\ \A k \in 1 .. 2 : p0[k] = s[k]
      /\ \A k \in 1 .. n : p1[k] = s[2 + k]
      /\ \A k \in 1 .. 2 : p2[k] = s[n + 2 + k]
  <2>1. /\ Len(SubSeq(s, 1, 2)) = 2
        /\ \A k \in 1 .. 2 : SubSeq(s, 1, 2)[k] = s[k]
    BY ThreePieces
  <2>2. /\ Len(SubSeq(s, 3, n + 2)) = n
        /\ \A k \in 1 .. n : SubSeq(s, 3, n + 2)[k] = s[2 + k]
    BY ThreePieces
  <2>3. /\ Len(SubSeq(s, n + 3, n + 4)) = 2
        /\ \A k \in 1 .. 2 : SubSeq(s, n + 3, n + 4)[k] = s[n + 2 + k]
    BY ThreePieces
  <2>4. Len(p0) = 2 /\ \A k \in 1 .. 2 : p0[k] = s[k]
    BY <1>1, <2>1, Zenon
  <2>5. Len(p1) = n /\ \A k \in 1 .. n : p1[k] = s[2 + k]
    BY <1>1, <2>2, Zenon
  <2>6. Len(p2) = 2 /\ \A k \in 1 .. 2 : p2[k] = s[n + 2 + k]
    BY <1>1, <2>3, Zenon
  <2> QED
    BY <2>4, <2>5, <2>6
<1>3. /\ <<p1, p2>> \in Seq(Seq(Char)) /\ Len(<<p1, p2>>) = 2
      /\ <<p1, p2>>[1] = p1 /\ <<p1, p2>>[2] = p2
  BY PairOf
<1>4. todo' = p0 /\ pieces' = <<p1, p2>>
  BY <1>1
<1>5. /\ Len(todo') = 2 /\ Len(pieces') = 2
      /\ pieces'[1] = p1 /\ pieces'[2] = p2
  BY <1>2, <1>3, <1>4, Zenon
<1>6. PieceLen(1)' = n /\ PieceLen(2)' = 2
  <2>1. 1 <= Len(pieces') /\ 2 <= Len(pieces')
    <3>1. 1 <= 2 /\ 2 <= 2
      OBVIOUS
    <3> QED
      BY <1>5, <3>1, Zenon
  <2> QED
    BY <1>2, <1>5, <2>1, Zenon DEF PieceLen
<1>7. LeftOver' = n + 4
  BY <1>5, <1>6 DEF LeftOver
<1>8. \A k \in Int : Ahead(k)' = IF k <= 2 THEN p0[k]
                                 ELSE IF k <= 2 + n THEN p1[k - 2]
                                 ELSE p2[k - 2 - n]
  BY <1>4, <1>5, <1>6, Zenon DEF Ahead
<1>9. \A k \in 1 .. n + 4 : Ahead(k)' = s[k]
  <2> TAKE k \in 1 .. n + 4
  <2>1. CASE k <= 2
    <3>1. k \in 1 .. 2 /\ k \in Int
      BY <2>1
    <3> QED
      BY <1>2, <1>8, <2>1, <3>1, Zenon
  <2>2. CASE k > 2 /\ k <= 2 + n
    <3>1. k - 2 \in 1 .. n /\ 2 + (k - 2) = k
      BY <2>2
    <3> QED
      BY <1>2, <1>8, <2>2, <3>1
  <2>3. CASE k > 2 + n
    <3>1. k - 2 - n \in 1 .. 2 /\ n + 2 + (k - 2 - n) = k
      BY <2>3
    <3>2. ~(k <= 2) /\ ~(k <= 2 + n)
      BY <2>3
    <3> QED
      BY <1>2, <1>8, <2>3, <3>1, <3>2
  <2> QED
    BY <2>1, <2>2, <2>3
<1> QED
  BY <1>7, <1>9

\* How much of its text is written is a number.
LEMMA TextCount ==
    ASSUME RingInv, NEW length \in 1 .. MAX_TEXT
    PROVE  TextAccepted(length) \in Int
<1>1. AvailWriteSpace \in Int
  BY Space, BetweenRange, Sizes DEF RingInv, RingOK
<1>2. length \in Int /\ AvailWriteSpace - 4 \in Int
  BY <1>1, Sizes
<1>3. Min({AvailWriteSpace - 4, length}) \in Int
  BY <1>2, MinOfTwo
<1>4. TextAccepted(length) \in {-1, length, Min({AvailWriteSpace - 4, length})}
  BY Zenon DEF TextAccepted
<1> QED
  BY <1>2, <1>3, <1>4

\* SEGGER_RTT_TerminalOut writes a text between two switches, or nothing.
LEMMA KeptByTerminalOut ==
    ASSUME RingInv, RingInv', StreamInv, NEW t \in Terminals,
           NEW length \in 1 .. MAX_TEXT, SEGGER_RTT_TerminalOut(t, length)
    PROVE  StreamInv'
<1> DEFINE n == TextAccepted(length)
<1>1. /\ writes' \in 0 .. MAX_WRITES /\ writes' = writes + 1
      /\ pieces = <<>> /\ todo = <<>> /\ pc = "idle"
      /\ UNCHANGED <<pBuffer, WrOff, RdOff, Flags, host, received>>
  BY NextWrite DEF SEGGER_RTT_TerminalOut
<1>2. CASE n < 0
  <2>1. UNCHANGED <<pc, todo, pieces>>
    BY <1>2 DEF SEGGER_RTT_TerminalOut
  <2>2. Whole' = Whole
    BY <1>1, <2>1, NothingCopied DEF BetweenCopies
  <2> QED
    BY <1>1, <2>1, <2>2, NumberTaken
<1>3. CASE n >= 0
  <2>1. PICK s \in Seq(Char) :
           /\ n \in Nat /\ Len(s) = n + 4
           /\ s = Chars(writes + 1, Switch(t) \o Text(n, t)
                                      \o Switch(ActiveTerminal), Flags)
           /\ todo' = SubSeq(s, 1, 2)
           /\ pieces' = <<SubSeq(s, 3, n + 2), SubSeq(s, n + 3, n + 4)>>
           /\ pc' = "block"
    BY <1>3, TerminalOutStarts
  <2> HIDE DEF n
  <2>3. PICK u \in Seq(Sign) : /\ u = Switch(t) \o Text(n, t)
                                        \o Switch(ActiveTerminal)
                               /\ Len(u) = n + 4
    BY <2>1, TerminalOutTypes DEF RingInv, CallOK
  <2>4. PICK w \in 0 .. MAX_WRITES : w = writes + 1
    BY <1>1
  <2>5. \A k \in 1 .. Len(u) :
           /\ Chars(w, u, Flags)[k].chunk = w
           /\ Chars(w, u, Flags)[k].i = k
           /\ Chars(w, u, Flags)[k].of = Len(u)
           /\ Chars(w, u, Flags)[k].mode = Flags
    BY CharsTypes DEF RingInv, RingOK
  <2>6. s = Chars(w, u, Flags) /\ writes' = w
    BY <1>1, <2>1, <2>3, <2>4
  <2>7. \A k \in 1 .. n + 4 :
           /\ s[k].chunk = writes' /\ s[k].i = k
           /\ s[k].of = n + 4 /\ s[k].mode = Flags
    BY <2>3, <2>5, <2>6, Zenon
  <2>8. LeftOver' = n + 4 /\ \A k \in 1 .. n + 4 : Ahead(k)' = s[k]
    BY <2>1, PiecesInARow
  <2>9. PICK of \in Nat : of = n + 4
    BY <2>1
  <2>10. \A k \in 1 .. LeftOver' :
            /\ Ahead(k)'.chunk = writes' /\ Ahead(k)'.i = k
            /\ Ahead(k)'.of = of /\ Ahead(k)'.mode = Flags
    <3> TAKE k \in 1 .. LeftOver'
    <3>1. k \in 1 .. n + 4
      BY <2>8
    <3>2. Ahead(k)' = s[k]
      BY <2>8, <3>1, Zenon
    <3> QED
      BY <2>7, <2>9, <3>1, <3>2, Zenon
  <2>11. \A k \in 1 .. Len(Whole) : Whole[k].chunk < writes'
    BY <1>1, CharsBefore
  <2>12. writes' \in Nat /\ Flags \in Modes
    BY <1>1, Sizes DEF RingInv, RingOK
  <2>13. LeftOver' = of /\ pc' = "block"
    BY <2>1, <2>8, <2>9
  <2> QED
    BY <1>1, <2>10, <2>11, <2>12, <2>13, WriteBegins
<1> QED
  <2>1. n \in Int
    BY TextCount
  <2> QED
    BY <1>2, <1>3, <2>1
---------------------------------------------------------------------------
(***************************************************************************)
(* The theorems.                                                           *)
(***************************************************************************)

\* Every step keeps the invariant of the characters.
LEMMA StreamStep ==
    ASSUME RingInv, RingInv', StreamInv, [Next]_vars
    PROVE  StreamInv'
<1>1. CASE \/ \E mode \in Modes : SEGGER_RTT_SetFlagsUpBuffer(mode)
           \/ \E length \in 1 .. MAX_LENGTH : SEGGER_RTT_vprintf(length)
           \/ WaitForSpace
           \/ HostLooks
           \/ HostPublishes
  BY <1>1, KeptWithoutCharacters
<1>2. CASE SEGGER_RTT_PutChar
  BY <1>2, KeptByStartPut DEF SEGGER_RTT_PutChar
<1>3. CASE SEGGER_RTT_PutCharSkip
  BY <1>3, KeptByStartPut DEF SEGGER_RTT_PutCharSkip
<1>4. CASE \E terminal \in Terminals : SEGGER_RTT_SetTerminal(terminal)
  BY <1>4, KeptBySetTerminal
<1>5. CASE \E terminal \in Terminals, n \in 1 .. MAX_TEXT :
              SEGGER_RTT_TerminalOut(terminal, n)
  BY <1>5, KeptByTerminalOut
<1>6. CASE StoreChar
  BY <1>6, KeptByStoreChar
<1>7. CASE SEGGER_RTT_WriteNoLock
  BY <1>7, KeptByWriteNoLock
<1>8. CASE \/ WriteNoCheck
           \/ WriteNoCheckWraps
           \/ WriteBlocking
           \/ Publish
           \/ HostCopies
  BY <1>8, KeptWhereCharactersMove
<1>9. CASE PutOrSkip
  BY <1>9, KeptByPutOrSkip
<1>10. CASE UNCHANGED vars
  <2>1. UNCHANGED <<pBuffer, WrOff, RdOff, Flags, pc, acBuffer, todo, pieces,
                    wr, writes, host, received>>
    BY <1>10 DEF vars, ring, program
  <2>2. NextRead' = NextRead /\ Copied' = Copied
    BY <2>1 DEF NextRead, Copied, Between
  <2>3. Whole' = Whole /\ Visible' = Visible
    BY <2>1, <2>2, NothingMoves
  <2>4. Len(received') + Visible' >= Len(received) + Visible
    <3>1. Len(received) + Visible \in Int
      BY WholeParts, Sizes DEF Parts
    <3> QED
      BY <2>1, <2>3, <3>1
  <2> QED
    BY <2>1, <2>3, <2>4, CharsStay
<1> QED
  BY <1>1, <1>2, <1>3, <1>4, <1>5, <1>6, <1>7, <1>8, <1>9, <1>10
     DEF Next, Program, Host

\* In the beginning there is no character.
LEMMA NoCharacters ==
    ASSUME Init
    PROVE  StreamInv
<1>1. RingInv
  BY Started
<1>2. pc = "idle" /\ received = <<>> /\ RdOff = 0 /\ WrOff = 0
      /\ host.pc = "idle"
  BY DEF Init
<1>3. Visible = 0
  BY <1>2 DEF Visible, NextRead, Between
<1>4. Len(Whole) = 0
  BY <1>1, <1>2, <1>3, AllVisible
<1>5. PICK w : w = Whole
  OBVIOUS
<1>6. Len(w) = 0
  BY <1>4, <1>5
<1>7. Regular(w)
  BY <1>6 DEF Regular
<1>8. Latest
  <2>1. /\ \A k \in 1 .. Len(w) : w[k].chunk <= writes
        /\ \A k \in Len(received) + Visible + 1 .. Len(w) : w[k].chunk = writes
    <3>1. Len(received) + Visible + 1 = 1
      BY <1>2, <1>3
    <3> QED
      BY <1>6, <3>1
  <2> QED
    BY <1>2, <1>5, <2>1, Zenon DEF Latest
<1> QED
  BY <1>5, <1>7, <1>8, Zenon DEF StreamInv

\* The ring and its characters stay as they should be.
THEOREM StreamInvHolds == Spec => [](RingInv /\ StreamInv)
<1>1. Init => RingInv /\ StreamInv
  BY Started, NoCharacters
<1>2. RingInv /\ StreamInv /\ [Next]_vars => (RingInv /\ StreamInv)'
  BY InductiveStep, StreamStep
<1> QED
  BY <1>1, <1>2, PTL DEF Spec

\* What the debugger has read and will find is the front of the sequence.
StreamView ==
    /\ received \in Seq(Char) /\ InTransit \in Seq(Char)
    /\ Len(received) \in Nat /\ Len(InTransit) = Visible
    /\ Visible \in 0 .. SizeOfBuffer - 1
    /\ \A k \in 1 .. Len(received) : received[k] = Whole[k]
    /\ \A k \in 1 .. Visible : InTransit[k] = Whole[Len(received) + k]
    /\ received \o InTransit \in Seq(Char)
    /\ Len(received \o InTransit) = Len(received) + Visible
    /\ \A k \in 1 .. Len(received) + Visible :
          (received \o InTransit)[k] = Whole[k]
    /\ Len(received) + Visible <= Len(Whole)
    /\ Len(Whole) \in Nat

\* It is, wherever the invariant of the ring holds.
LEMMA StreamViewHolds == RingInv => StreamView
<1> SUFFICES ASSUME RingInv PROVE StreamView
  OBVIOUS
<1>1. Parts
  BY WholeParts
<1>2. InTransit = CharsBetween(NextRead, WrOff)
  BY DEF InTransit, NextRead
<1>3. InTransit \in Seq(Char) /\ Len(InTransit) = Visible
  BY <1>1, <1>2, CharsOfRing DEF Parts, Visible, RingInv, RingOK
<1>4. PICK F \in Offsets, R \in Nat, V \in Nat :
         F = NextRead /\ R = Len(received) /\ V = Visible
  <2>1. NextRead \in Offsets /\ Len(received) \in Nat /\ Visible \in Nat
    BY <1>1, Sizes DEF Parts
  <2> QED
    BY <2>1, Zenon
<1>5. V <= InRing /\ V \in 0 .. SizeOfBuffer - 1
      /\ R + V <= Len(Whole) /\ Len(Whole) \in Nat
  BY <1>1, <1>4, Sizes, LenProperties DEF Parts, InRing
<1>6. \A k \in 1 .. V : InTransit[k] = pBuffer[(F + k - 1) % SizeOfBuffer]
  <2>1. InTransit = [k \in 1 .. V |-> pBuffer[(F + k - 1) % SizeOfBuffer]]
    BY <1>2, <1>4 DEF CharsBetween, Visible
  <2> QED
    BY <2>1
<1>7. \A k \in 1 .. V : InTransit[k] = Whole[R + k]
  <2> TAKE k \in 1 .. V
  <2>1. k \in 1 .. InRing
    BY <1>1, <1>4, <1>5 DEF Parts
  <2>2. Whole[R + k] = pBuffer[(F + (k - 1)) % SizeOfBuffer]
    BY <1>1, <1>4, <2>1, Zenon DEF Parts
  <2>3. F + k - 1 = F + (k - 1)
    BY Sizes DEF Offsets
  <2> QED
    BY <1>6, <2>2, <2>3, Zenon
<1>8. PICK a \in Seq(Char), b \in Seq(Char) :
         a = received /\ b = InTransit /\ Len(a) = R /\ Len(b) = V
  <2>1. received \in Seq(Char)
    BY DEF RingInv, HostOK
  <2> QED
    BY <1>3, <1>4, <2>1, Zenon
<1>9. \A k \in 1 .. R : a[k] = Whole[k]
  BY <1>1, <1>4, <1>8, Zenon DEF Parts
<1>10. a \o b \in Seq(Char) /\ Len(a \o b) = R + V
       /\ \A k \in 1 .. R + V : (a \o b)[k] = IF k <= R THEN a[k] ELSE b[k - R]
  <2>1. /\ a \o b \in Seq(Char) /\ Len(a \o b) = Len(a) + Len(b)
        /\ \A k \in 1 .. Len(a) + Len(b) :
              (a \o b)[k] = IF k <= Len(a) THEN a[k] ELSE b[k - Len(a)]
    BY ConcatProperties
  <2>2. Len(a) = R /\ Len(b) = V
    BY <1>8
  <2> QED
    BY <2>1, <2>2
<1>11. \A k \in 1 .. R + V : (a \o b)[k] = Whole[k]
  <2> TAKE k \in 1 .. R + V
  <2>1. CASE k <= R
    BY <1>9, <1>10, <2>1
  <2>2. CASE k > R
    <3>1. k - R \in 1 .. V /\ R + (k - R) = k
      BY <2>2
    <3>2. b[k - R] = Whole[R + (k - R)]
      BY <1>7, <1>8, <3>1, Zenon
    <3>3. ~(k <= R)
      BY <2>2
    <3>4. (a \o b)[k] = b[k - R]
      BY <1>10, <3>3, Zenon
    <3> QED
      BY <3>1, <3>2, <3>4, Zenon
  <2>3. k <= R \/ k > R
    OBVIOUS
  <2> QED
    BY <2>1, <2>2, <2>3, Zenon
<1> QED
  BY <1>3, <1>4, <1>5, <1>7, <1>8, <1>9, <1>10, <1>11, Zenon DEF StreamView

\* The same of the next state.
LEMMA NextStreamView == RingInv' => StreamView'
BY StreamViewHolds, PTL

\* What enters the ring of a write is its beginning, without a hole; all of it
\* or nothing where the mode does not trim.
THEOREM WritesWhole == Spec => []WritesStayWhole
<1>1. ASSUME RingInv, StreamInv
      PROVE  WritesStayWhole
  <2>1. StreamView
    BY <1>1, StreamViewHolds
  <2>2. PICK s \in Seq(Char), w \in Seq(Char), n \in Nat, m \in Nat :
           /\ s = received \o InTransit /\ w = Whole
           /\ n = Len(received) + Visible /\ m = Len(Whole)
    <3>1. /\ received \o InTransit \in Seq(Char) /\ Whole \in Seq(Char)
          /\ Len(received) + Visible \in Nat /\ Len(Whole) \in Nat
      BY <1>1, <2>1, WholeParts, Sizes DEF StreamView, Parts
    <3> QED
      BY <3>1, Zenon
  <2>3. /\ Len(s) = n /\ Len(w) = m /\ n <= m
        /\ \A k \in 1 .. n : s[k] = w[k]
        /\ DOMAIN s = 1 .. n
    <3>1. /\ Len(s) = n /\ Len(w) = m /\ n <= m
          /\ \A k \in 1 .. n : s[k] = w[k]
      BY <2>1, <2>2, Zenon DEF StreamView
    <3> QED
      BY <3>1, LenProperties
  <2>4. Regular(w) /\ \A k \in n + 1 .. m : w[k].chunk = writes
    BY <1>1, <2>2 DEF StreamInv, Latest
  <2>5. pc = "idle" => n = m
    BY <1>1, <2>2, AllVisible
  <2>6. ASSUME NEW k \in 1 .. n, s[k].i > 1
        PROVE  k > 1 /\ Follows(s[k], s[k - 1])
    <3>1. k \in 1 .. m /\ s[k] = w[k]
      BY <2>3
    <3>2. k > 1 /\ Follows(w[k], w[k - 1])
      BY <2>3, <2>4, <2>6, <3>1 DEF Regular
    <3>3. k - 1 \in 1 .. n
      BY <3>2
    <3> QED
      BY <2>3, <3>1, <3>2, <3>3
  <2>7. ASSUME NEW k \in 1 .. n, s[k].i < s[k].of,
               s[k].mode # "NO_BLOCK_TRIM"
        PROVE  \/ k < Len(s) /\ Follows(s[k + 1], s[k])
               \/ k = Len(s) /\ s[k].chunk = writes /\ pc # "idle"
    <3>1. k \in 1 .. m /\ s[k] = w[k]
      BY <2>3
    <3>2. k < m /\ Follows(w[k + 1], w[k])
      BY <2>3, <2>4, <2>7, <3>1 DEF Regular
    <3>3. CASE k < n
      <4>1. k + 1 \in 1 .. n
        BY <3>3
      <4> QED
        BY <2>3, <3>1, <3>2, <3>3, <4>1
    <3>4. CASE k = n
      <4>1. k + 1 \in n + 1 .. m
        BY <3>2, <3>4
      <4>2. w[k].chunk = writes
        BY <2>4, <3>2, <4>1 DEF Follows
      <4>3. pc # "idle"
        BY <2>5, <3>2, <3>4
      <4> QED
        BY <2>3, <3>1, <3>4, <4>2, <4>3
    <3> QED
      BY <3>3, <3>4
  <2> QED
    BY <2>2, <2>3, <2>6, <2>7 DEF WritesStayWhole
<1> QED
  BY <1>1, StreamInvHolds, PTL

\* Nothing the debugger can see changes where neither the ring nor the offsets
\* do, but for its own.
LEMMA SameTransit ==
    ASSUME UNCHANGED <<pBuffer, WrOff>>, NextRead' = NextRead
    PROVE  InTransit' = InTransit
<1>1. InTransit = CharsBetween(NextRead, WrOff)
      /\ InTransit' = CharsBetween(NextRead, WrOff)'
  BY DEF InTransit, NextRead
<1>2. CharsBetween(NextRead, WrOff)' = CharsBetween(NextRead, WrOff)
  BY DEF CharsBetween, Between
<1> QED
  BY <1>1, <1>2

\* Nor where characters are copied to the ring.
LEMMA CopiesHidden ==
    ASSUME RingInv, RingInv', NEW n \in Nat, Enters(n)
    PROVE  UNCHANGED <<InTransit, received>>
<1>1. Whole' = Whole /\ Visible' = Visible /\ received' = received
  BY EntersKeeps
<1>2. StreamView /\ StreamView'
  BY StreamViewHolds, NextStreamView
<1>3. PICK s \in Seq(Char), t \in Seq(Char) : s = InTransit /\ t = InTransit'
  <2>1. InTransit \in Seq(Char) /\ InTransit' \in Seq(Char)
    BY <1>2 DEF StreamView, Char
  <2> QED
    BY <2>1, Zenon
<1>4. Len(s) = Len(t) /\ \A k \in 1 .. Len(s) : s[k] = t[k]
  BY <1>1, <1>2, <1>3, Zenon DEF StreamView
<1>5. s = t
  BY <1>4, SeqEqual
<1> QED
  BY <1>1, <1>3, <1>5

\* The steps that the stream does not see.
LEMMA Hidden ==
    ASSUME RingInv, RingInv', [Next]_vars, ~Publish, ~HostCopies
    PROVE  UNCHANGED <<InTransit, received>>
<1>1. CASE WriteNoCheck \/ WriteNoCheckWraps \/ WriteBlocking
  <2>1. PICK n \in Nat : Enters(n)
    BY <1>1, CopiesToEnd, CopiesFromStart, CopiesATurn
  <2> QED
    BY <2>1, CopiesHidden
<1>2. CASE PutOrSkip
  <2>1. CASE Enters(1)
    BY <2>1, CopiesHidden
  <2>2. CASE todo' = <<>> /\ pc' = "idle" /\ pBuffer' = pBuffer /\ Untouched
    BY <2>2, SameTransit DEF Untouched, NextRead
  <2> QED
    BY <1>2, <2>1, <2>2, CharPut
<1>3. CASE HostLooks \/ HostPublishes
  <2>1. UNCHANGED <<pBuffer, WrOff, received>>
    BY <1>3 DEF HostLooks, HostPublishes, ring
  <2>2. NextRead' = NextRead
    <3>1. CASE HostLooks
      BY <3>1 DEF HostLooks, ring, NextRead
    <3>2. CASE HostPublishes
      BY <3>2 DEF HostPublishes, NextRead, RingInv, HostOK
    <3> QED
      BY <1>3, <3>1, <3>2
  <2> QED
    BY <2>1, <2>2, SameTransit
<1>4. CASE \/ \E mode \in Modes : SEGGER_RTT_SetFlagsUpBuffer(mode)
           \/ \E length \in 1 .. MAX_LENGTH : SEGGER_RTT_vprintf(length)
           \/ SEGGER_RTT_PutChar
           \/ SEGGER_RTT_PutCharSkip
           \/ \E terminal \in Terminals :
                 \/ SEGGER_RTT_SetTerminal(terminal)
                 \/ \E n \in 1 .. MAX_TEXT :
                       SEGGER_RTT_TerminalOut(terminal, n)
           \/ StoreChar
           \/ SEGGER_RTT_WriteNoLock
           \/ WaitForSpace
           \/ UNCHANGED vars
  <2>1. UNCHANGED <<pBuffer, WrOff, RdOff, host, received>>
    BY <1>4 DEF SEGGER_RTT_SetFlagsUpBuffer, SEGGER_RTT_vprintf,
                SEGGER_RTT_PutChar, SEGGER_RTT_PutCharSkip, StartPut,
                SEGGER_RTT_SetTerminal, SEGGER_RTT_TerminalOut,
                StartTerminalCall, StoreChar, SEGGER_RTT_WriteNoLock,
                WaitForSpace, vars, ring
  <2> QED
    BY <2>1, SameTransit DEF NextRead
<1> QED
  BY <1>1, <1>2, <1>3, <1>4 DEF Next, Program, Host

\* A publication puts characters into the stream, or none.
LEMMA PublishPuts ==
    ASSUME RingInv, RingInv', StreamInv', Publish
    PROVE  Stream!Put \/ UNCHANGED <<InTransit, received>>
<1>1. Whole' = Whole /\ received' = received /\ Visible' = InRing
  BY PublishKeeps
<1>2. StreamView /\ StreamView' /\ Parts
  BY StreamViewHolds, NextStreamView, WholeParts
<1>3. PICK s \in Seq(Char), t \in Seq(Char), m \in Nat, n \in Nat :
         s = InTransit /\ t = InTransit' /\ m = Visible /\ n = Visible'
  <2>1. /\ InTransit \in Seq(Char) /\ InTransit' \in Seq(Char)
        /\ Visible \in Nat /\ Visible' \in Nat
    BY <1>2, Sizes DEF StreamView, Char
  <2> QED
    BY <2>1, Zenon
<1>4. /\ Len(s) = m /\ Len(t) = n /\ m <= n /\ n <= SizeOfBuffer - 1
      /\ \A k \in 1 .. m : s[k] = Whole[Len(received) + k]
      /\ \A k \in 1 .. n : t[k] = Whole[Len(received) + k]
  <2>1. m <= n /\ n <= SizeOfBuffer - 1
    BY <1>1, <1>2, <1>3, Sizes DEF Parts, InRing
  <2>2. /\ Len(s) = m /\ \A k \in 1 .. m : s[k] = Whole[Len(received) + k]
    BY <1>2, <1>3, Zenon DEF StreamView
  <2>3. /\ Len(t) = n /\ \A k \in 1 .. n : t[k] = Whole[Len(received) + k]
    BY <1>1, <1>2, <1>3, Zenon DEF StreamView
  <2> QED
    BY <2>1, <2>2, <2>3
<1>5. \A k \in 1 .. m : s[k] = t[k]
  <2> TAKE k \in 1 .. m
  <2>1. k \in 1 .. n
    BY <1>4
  <2> QED
    BY <1>4, <2>1, Zenon
<1>6. s = SubSeq(t, 1, m)
  <2>1. PICK u \in Seq(Char) : /\ u = SubSeq(t, 1, m) /\ Len(u) = m
                               /\ \A k \in 1 .. m : u[k] = t[k]
    <3>1. m \in 0 .. Len(t)
      BY <1>4
    <3>2. /\ SubSeq(t, 1, m) \in Seq(Char) /\ Len(SubSeq(t, 1, m)) = m
          /\ \A k \in 1 .. m : SubSeq(t, 1, m)[k] = t[k]
      BY <3>1, FrontAndRest
    <3> QED
      BY <3>2, Zenon
  <2>2. Len(s) = Len(u) /\ \A k \in 1 .. Len(s) : s[k] = u[k]
    BY <1>4, <1>5, <2>1, Zenon
  <2> QED
    BY <2>1, <2>2, SeqEqual
<1>7. CASE m = n
  <2>1. s = t
    BY <1>4, <1>5, <1>7, SeqEqual
  <2> QED
    BY <1>1, <1>3, <2>1
<1>8. CASE m < n
  <2>1. Stream!InOrder(received \o InTransit')
    <3>1. PICK v \in Seq(Char), w \in Seq(Char), l \in Nat :
             v = received' \o InTransit' /\ w = Whole' /\ l = Len(v)
      <4>1. received' \o InTransit' \in Seq(Char) /\ Whole' \in Seq(Char)
        BY <1>2, NextParts DEF StreamView, Parts, Char
      <4> QED
        BY <4>1, LenProperties
    <3>2. l <= Len(w) /\ Len(w) \in Nat /\ \A k \in 1 .. l : v[k] = w[k]
      <4>1. l = Len(received') + Visible'
        BY <1>2, <3>1, Zenon DEF StreamView
      <4> QED
        BY <1>2, <3>1, <4>1, Zenon DEF StreamView
    <3>3. Regular(w)
      BY <3>1, Zenon DEF StreamInv
    <3>4. \A k \in 1 .. l - 1 : Stream!Before(v[k], v[k + 1])
      <4> TAKE k \in 1 .. l - 1
      <4>1. k \in 1 .. l /\ k + 1 \in 1 .. l /\ k \in 1 .. Len(w) - 1
        BY <3>2
      <4>2. Stream!Before(w[k], w[k + 1])
        BY <3>3, <4>1, Zenon DEF Regular
      <4> QED
        BY <3>2, <4>1, <4>2, Zenon
    <3>5. Stream!InOrder(v)
      BY <3>1, <3>4, Zenon DEF Stream!InOrder
    <3> QED
      BY <1>1, <3>1, <3>5, Zenon
  <2>2. Len(InTransit) < Len(InTransit') /\ Len(InTransit') <= SizeOfBuffer - 1
    BY <1>3, <1>4, <1>8
  <2>3. InTransit = SubSeq(InTransit', 1, Len(InTransit))
    BY <1>3, <1>4, <1>6, Zenon
  <2> QED
    BY <1>1, <2>1, <2>2, <2>3, Zenon DEF Stream!Put
<1> QED
  BY <1>4, <1>7, <1>8

\* A copy of the debugger gets the oldest characters from it, or none.
LEMMA HostCopyGets ==
    ASSUME RingInv, RingInv', HostCopies
    PROVE  Stream!Get \/ UNCHANGED <<InTransit, received>>
<1>1. Whole' = Whole
  BY HostCopyKeeps
<1>2. PICK m \in 0 .. Visible : /\ Len(received') = Len(received) + m
                                /\ Visible' = Visible - m
  BY HostCopyKeeps
<1>3. StreamView /\ StreamView'
  BY StreamViewHolds, NextStreamView
<1>4. PICK s \in Seq(Char), t \in Seq(Char), a \in Seq(Char), b \in Seq(Char),
           R \in Nat, V \in Nat :
         /\ s = InTransit /\ t = InTransit' /\ a = received /\ b = received'
         /\ R = Len(received) /\ V = Visible
  <2>1. /\ InTransit \in Seq(Char) /\ InTransit' \in Seq(Char)
        /\ received \in Seq(Char) /\ received' \in Seq(Char)
        /\ Len(received) \in Nat /\ Visible \in Nat
    BY <1>3, Sizes DEF StreamView, Char
  <2> QED
    BY <2>1, Zenon
<1>5. PICK w : w = Whole
  OBVIOUS
<1>6. m \in 0 .. V /\ m \in Nat
  BY <1>2, <1>4
<1>7. /\ Len(a) = R /\ \A k \in 1 .. R : a[k] = w[k]
      /\ Len(s) = V /\ \A k \in 1 .. V : s[k] = w[R + k]
  BY <1>3, <1>4, <1>5, Zenon DEF StreamView
<1>8. /\ Len(b) = R + m /\ \A k \in 1 .. R + m : b[k] = w[k]
      /\ Len(t) = V - m /\ \A k \in 1 .. V - m : t[k] = w[R + m + k]
  <2>1. Len(received') = R + m /\ Visible' = V - m
    BY <1>2, <1>4
  <2>2. Len(b) = R + m /\ Len(t) = V - m
    BY <1>3, <1>4, <2>1, Zenon DEF StreamView
  <2>3. \A k \in 1 .. R + m : b[k] = w[k]
    BY <1>1, <1>3, <1>4, <1>5, <2>1, Zenon DEF StreamView
  <2>4. \A k \in 1 .. V - m : t[k] = w[R + m + k]
    <3> TAKE k \in 1 .. V - m
    <3>1. InTransit'[k] = Whole'[Len(received') + k]
      BY <1>3, <2>1, Zenon DEF StreamView
    <3> QED
      BY <1>1, <1>4, <1>5, <2>1, <3>1, Zenon
  <2> QED
    BY <2>2, <2>3, <2>4
<1>9. PICK u \in Seq(Char), v \in Seq(Char) :
         /\ u = SubSeq(s, 1, m) /\ Len(u) = m
         /\ \A k \in 1 .. m : u[k] = s[k]
         /\ v = SubSeq(s, m + 1, Len(s)) /\ Len(v) = V - m
         /\ \A k \in 1 .. V - m : v[k] = s[m + k]
  <2>1. m \in 0 .. Len(s)
    BY <1>6, <1>7
  <2>2. /\ SubSeq(s, 1, m) \in Seq(Char) /\ Len(SubSeq(s, 1, m)) = m
        /\ \A k \in 1 .. m : SubSeq(s, 1, m)[k] = s[k]
        /\ SubSeq(s, m + 1, Len(s)) \in Seq(Char)
        /\ Len(SubSeq(s, m + 1, Len(s))) = Len(s) - m
        /\ \A k \in 1 .. Len(s) - m : SubSeq(s, m + 1, Len(s))[k] = s[m + k]
    BY <2>1, FrontAndRest
  <2> QED
    BY <1>7, <2>2, Zenon
<1>10. b = a \o u
  <2>1. PICK c \in Seq(Char) :
           /\ c = a \o u /\ Len(c) = R + m
           /\ \A k \in 1 .. R + m : c[k] = IF k <= R THEN a[k] ELSE u[k - R]
    <3>1. /\ a \o u \in Seq(Char) /\ Len(a \o u) = Len(a) + Len(u)
          /\ \A k \in 1 .. Len(a) + Len(u) :
                (a \o u)[k] = IF k <= Len(a) THEN a[k] ELSE u[k - Len(a)]
      BY ConcatProperties
    <3>2. Len(a) = R /\ Len(u) = m
      BY <1>7, <1>9
    <3>3. /\ a \o u \in Seq(Char) /\ Len(a \o u) = R + m
          /\ \A k \in 1 .. R + m :
                (a \o u)[k] = IF k <= R THEN a[k] ELSE u[k - R]
      BY <3>1, <3>2
    <3> QED
      BY <3>3, Zenon
  <2>2. \A k \in 1 .. R + m : b[k] = c[k]
    <3> TAKE k \in 1 .. R + m
    <3>1. CASE k <= R
      <4>1. k \in 1 .. R
        BY <3>1
      <4> QED
        BY <1>7, <1>8, <2>1, <3>1, <4>1, Zenon
    <3>2. CASE k > R
      <4>1. /\ k - R \in 1 .. m /\ k - R \in 1 .. V /\ R + (k - R) = k
            /\ ~(k <= R)
        BY <1>6, <3>2
      <4>2. u[k - R] = w[R + (k - R)]
        BY <1>7, <1>9, <4>1, Zenon
      <4> QED
        BY <1>8, <2>1, <4>1, <4>2, Zenon
    <3>3. k <= R \/ k > R
      OBVIOUS
    <3> QED
      BY <3>1, <3>2, <3>3, Zenon
  <2>3. Len(b) = Len(c) /\ \A k \in 1 .. Len(b) : b[k] = c[k]
    BY <1>8, <2>1, <2>2, Zenon
  <2>4. b = c
    BY <2>3, SeqEqual
  <2> QED
    BY <2>1, <2>4
<1>11. t = v
  <2>1. \A k \in 1 .. V - m : t[k] = v[k]
    <3> TAKE k \in 1 .. V - m
    <3>1. m + k \in 1 .. V /\ R + m + k = R + (m + k)
      BY <1>6
    <3>2. t[k] = w[R + m + k] /\ v[k] = s[m + k]
      BY <1>8, <1>9
    <3>3. s[m + k] = w[R + (m + k)]
      BY <1>7, <3>1, Zenon
    <3> QED
      BY <3>1, <3>2, <3>3, Zenon
  <2>2. Len(t) = Len(v) /\ \A k \in 1 .. Len(t) : t[k] = v[k]
    BY <1>8, <1>9, <2>1, Zenon
  <2> QED
    BY <2>2, SeqEqual
<1>12. CASE m = 0
  <2>1. b = a
    <3>1. Len(b) = Len(a) /\ \A k \in 1 .. Len(b) : b[k] = a[k]
      <4>1. R + m = R
        BY <1>12
      <4> QED
        BY <1>7, <1>8, <4>1, Zenon
    <3> QED
      BY <3>1, SeqEqual
  <2>2. t = s
    <3>1. V - m = V /\ \A k \in 1 .. V : R + m + k = R + k
      BY <1>12
    <3>2. Len(t) = V /\ \A k \in 1 .. V : t[k] = w[R + m + k]
      BY <1>8, <3>1, Zenon
    <3>3. Len(t) = Len(s) /\ \A k \in 1 .. Len(t) : t[k] = s[k]
      BY <1>7, <3>1, <3>2, Zenon
    <3> QED
      BY <3>3, SeqEqual
  <2> QED
    BY <1>4, <2>1, <2>2
<1>13. CASE m # 0
  <2>1. m \in 1 .. Len(InTransit)
    BY <1>4, <1>6, <1>7, <1>13
  <2>2. /\ received' = received \o SubSeq(InTransit, 1, m)
        /\ InTransit' = SubSeq(InTransit, m + 1, Len(InTransit))
    BY <1>4, <1>9, <1>10, <1>11, Zenon
  <2> QED
    BY <2>1, <2>2, Zenon DEF Stream!Get
<1> QED
  BY <1>12, <1>13

\* The ring implements the stream: no character is overwritten before the
\* debugger has copied it, none is read twice or before it was written, and a
\* full ring is never taken for an empty one.
THEOREM RingImplementsStream == Spec => ImplementsStream
<1>1. Init => Stream!Init
  <2> SUFFICES ASSUME Init PROVE Stream!Init
    OBVIOUS
  <2>1. received = <<>> /\ Visible = 0
    BY DEF Init, Visible, NextRead, Between
  <2>2. InTransit \in Seq(Char) /\ Len(InTransit) = 0
    BY <2>1, Started, StreamViewHolds DEF StreamView
  <2>3. InTransit = <<>>
    BY <2>2, EmptySeq
  <2> QED
    BY <2>1, <2>3 DEF Stream!Init
<1>2. RingInv /\ RingInv' /\ StreamInv' /\ [Next]_vars =>
         [Stream!Put \/ Stream!Get]_<<InTransit, received>>
  BY Hidden, PublishPuts, HostCopyGets
<1> QED
  BY <1>1, <1>2, StreamInvHolds, PTL DEF Spec, ImplementsStream, Stream!Spec
---------------------------------------------------------------------------
(***************************************************************************)
(* The terminal of each text.                                              *)
(***************************************************************************)

\* The last switch before place k is to terminal t, or there is none.
Shown(w, k, t) ==
    \/ t = 0 /\ \A j \in 1 .. k - 1 : w[j].what # "id"
    \/ \E j \in 1 .. k - 1 :
          /\ w[j].what = "id" /\ w[j].to = t
          /\ \A m \in j + 1 .. k - 1 : w[m].what # "id"

\* Every text comes when its terminal is shown, and an identifier behind an
\* escape character.
Assigned(w) ==
    /\ \A k \in 1 .. Len(w) : w[k].what = "text" => Shown(w, k, w[k].to)
    /\ \A k \in 1 .. Len(w) :
          w[k].what = "id" => k > 1 /\ w[k - 1].what = "escape"

\* The active terminal is the one the debugger will show when it has read all
\* the characters; what a printf has collected, and the single character that
\* waits, are text.
TerminalInv ==
    /\ Assigned(Whole)
    /\ Shown(Whole, Len(Whole) + 1, ActiveTerminal)
    /\ pc = "write" =>
          \A k \in 1 .. Len(acBuffer) :
             acBuffer[k].what = "text" /\ acBuffer[k].to = ActiveTerminal
    /\ pc \in {"wait", "put"} => todo[1].what = "text"

\* What is shown at a place depends on what is before it.
LEMMA ShownBefore ==
    ASSUME NEW w, NEW v, NEW k \in Nat, NEW t, Shown(w, k, t),
           \A j \in 1 .. k - 1 : v[j] = w[j]
    PROVE  Shown(v, k, t)
<1>1. CASE t = 0 /\ \A j \in 1 .. k - 1 : w[j].what # "id"
  BY <1>1 DEF Shown
<1>2. CASE \E j \in 1 .. k - 1 :
              /\ w[j].what = "id" /\ w[j].to = t
              /\ \A m \in j + 1 .. k - 1 : w[m].what # "id"
  <2>1. PICK j \in 1 .. k - 1 :
           /\ w[j].what = "id" /\ w[j].to = t
           /\ \A m \in j + 1 .. k - 1 : w[m].what # "id"
    BY <1>2
  <2>2. \A m \in j + 1 .. k - 1 : m \in 1 .. k - 1
    OBVIOUS
  <2>3. \A m \in j + 1 .. k - 1 : v[m].what # "id"
    BY <2>1, <2>2
  <2>4. v[j].what = "id" /\ v[j].to = t
    BY <2>1
  <2> QED
    BY <2>3, <2>4 DEF Shown
<1> QED
  BY <1>1, <1>2 DEF Shown

\* A terminal stays shown as long as no identifier comes.
LEMMA ShownOn ==
    ASSUME NEW w, NEW k \in Nat, NEW l \in Nat, NEW t, k <= l, Shown(w, k, t),
           \A j \in k .. l - 1 : w[j].what # "id"
    PROVE  Shown(w, l, t)
<1>1. CASE t = 0 /\ \A j \in 1 .. k - 1 : w[j].what # "id"
  <2>1. \A j \in 1 .. l - 1 : j \in 1 .. k - 1 \/ j \in k .. l - 1
    OBVIOUS
  <2>2. \A j \in 1 .. l - 1 : w[j].what # "id"
    BY <1>1, <2>1
  <2> QED
    BY <1>1, <2>2 DEF Shown
<1>2. CASE \E j \in 1 .. k - 1 :
              /\ w[j].what = "id" /\ w[j].to = t
              /\ \A m \in j + 1 .. k - 1 : w[m].what # "id"
  <2>1. PICK j \in 1 .. k - 1 :
           /\ w[j].what = "id" /\ w[j].to = t
           /\ \A m \in j + 1 .. k - 1 : w[m].what # "id"
    BY <1>2
  <2>2. j \in 1 .. l - 1
    OBVIOUS
  <2>3. \A m \in j + 1 .. l - 1 : m \in j + 1 .. k - 1 \/ m \in k .. l - 1
    OBVIOUS
  <2>4. \A m \in j + 1 .. l - 1 : w[m].what # "id"
    BY <2>1, <2>3
  <2> QED
    BY <2>1, <2>2, <2>4 DEF Shown
<1> QED
  BY <1>1, <1>2 DEF Shown

\* Behind an identifier its terminal is shown.
LEMMA ShownBehindId ==
    ASSUME NEW w, NEW k \in Nat \ {0}, w[k].what = "id"
    PROVE  Shown(w, k + 1, w[k].to)
<1>1. k \in 1 .. k + 1 - 1 /\ \A m \in k + 1 .. k + 1 - 1 : FALSE
  OBVIOUS
<1> QED
  BY <1>1 DEF Shown

\* What is selected is the terminal that is shown.
LEMMA ShownIsSelected ==
    ASSUME NEW w, NEW k \in Nat, NEW t, Shown(w, k, t),
           \A j \in 1 .. k - 1 :
              w[j].what = "id" => j > 1 /\ w[j - 1].what = "escape"
    PROVE  Selected(w, k) = t
<1> DEFINE ids == {j \in 2 .. k - 1 : w[j].what = "id" /\ w[j - 1].what = "escape"}
<1>1. Selected(w, k) = IF ids = {} THEN 0 ELSE w[Max(ids)].to
  BY DEF Selected
<1>2. CASE t = 0 /\ \A j \in 1 .. k - 1 : w[j].what # "id"
  <2>1. \A j \in 2 .. k - 1 : j \in 1 .. k - 1
    OBVIOUS
  <2>2. ids = {}
    BY <1>2, <2>1
  <2> QED
    BY <1>1, <1>2, <2>2
<1>3. CASE \E j \in 1 .. k - 1 :
              /\ w[j].what = "id" /\ w[j].to = t
              /\ \A m \in j + 1 .. k - 1 : w[m].what # "id"
  <2>1. PICK j \in 1 .. k - 1 :
           /\ w[j].what = "id" /\ w[j].to = t
           /\ \A m \in j + 1 .. k - 1 : w[m].what # "id"
    BY <1>3
  <2>2. j \in ids
    <3>1. j > 1 /\ w[j - 1].what = "escape"
      BY <2>1
    <3>2. j \in 2 .. k - 1
      BY <3>1
    <3> QED
      BY <2>1, <3>1, <3>2
  <2>3. \A i \in ids : i \in Int /\ j >= i
    <3> TAKE i \in ids
    <3>1. i \in 2 .. k - 1 /\ w[i].what = "id"
      OBVIOUS
    <3>2. i \notin j + 1 .. k - 1
      BY <2>1, <3>1
    <3> QED
      BY <3>1, <3>2
  <2> HIDE DEF ids
  <2>4. Max(ids) \in ids /\ \A i \in ids : Max(ids) >= i
    <3>1. \E m \in ids : \A i \in ids : m >= i
      BY <2>2, <2>3
    <3> QED
      BY <3>1 DEF Max
  <2>5. Max(ids) = j
    BY <2>2, <2>3, <2>4
  <2> QED
    BY <1>1, <2>1, <2>2, <2>5
<1> QED
  BY <1>2, <1>3 DEF Shown

\* The first l characters of a sequence are one.
LEMMA FirstChars ==
    ASSUME NEW v \in Seq(Char), NEW l \in 0 .. Len(v)
    PROVE  \E u \in Seq(Char) : /\ Len(u) = l
                                /\ \A k \in 1 .. l : u[k] = v[k]
<1>1. /\ SubSeq(v, 1, l) \in Seq(Char) /\ Len(SubSeq(v, 1, l)) = l
      /\ \A k \in 1 .. l : SubSeq(v, 1, l)[k] = v[k]
  BY FrontAndRest
<1> QED
  BY <1>1

\* v is w and n characters of text for the terminal t.
TextBehind(w, v, n, t) ==
    /\ Len(v) = Len(w) + n
    /\ \A k \in 1 .. Len(w) : v[k] = w[k]
    /\ \A k \in 1 .. n : v[Len(w) + k].what = "text" /\ v[Len(w) + k].to = t

\* Texts for the terminal that is shown may follow.
LEMMA TextsAdded ==
    ASSUME NEW w \in Seq(Char), NEW v \in Seq(Char), NEW n \in Nat, NEW t,
           Assigned(w), Shown(w, Len(w) + 1, t), TextBehind(w, v, n, t)
    PROVE  Assigned(v) /\ Shown(v, Len(v) + 1, t)
<1>1. PICK N \in Nat : N = Len(w)
  BY LenProperties
<1>2. /\ Len(v) = N + n /\ \A k \in 1 .. N : v[k] = w[k]
      /\ \A k \in 1 .. n : v[N + k].what = "text" /\ v[N + k].to = t
  BY <1>1 DEF TextBehind
<1>3. \A k \in N + 1 .. N + n : v[k].what = "text" /\ v[k].to = t
  <2> TAKE k \in N + 1 .. N + n
  <2>1. k - N \in 1 .. n /\ N + (k - N) = k
    OBVIOUS
  <2> QED
    BY <1>2, <2>1
<1>4. Shown(v, N + 1, t)
  <2>1. \A j \in 1 .. N + 1 - 1 : v[j] = w[j]
    BY <1>2
  <2> QED
    BY <1>1, <2>1, ShownBefore
<1>5. \A l \in N + 1 .. N + n + 1 : Shown(v, l, t)
  <2> TAKE l \in N + 1 .. N + n + 1
  <2>1. N + 1 \in Nat /\ l \in Nat /\ N + 1 <= l
        /\ \A j \in N + 1 .. l - 1 : j \in N + 1 .. N + n
    OBVIOUS
  <2>2. \A j \in N + 1 .. l - 1 : v[j].what # "id"
    BY <1>3, <2>1
  <2> QED
    BY <1>4, <2>1, <2>2, ShownOn
<1>6. \A k \in 1 .. N + n : k \in 1 .. N \/ k \in N + 1 .. N + n
  OBVIOUS
<1>7. ASSUME NEW k \in 1 .. N + n, v[k].what = "text"
      PROVE  Shown(v, k, v[k].to)
  <2>1. CASE k \in 1 .. N
    <3>1. Shown(w, k, w[k].to) /\ v[k] = w[k]
      BY <1>1, <1>2, <1>7, <2>1 DEF Assigned
    <3>2. \A j \in 1 .. k - 1 : v[j] = w[j]
      BY <1>2, <2>1
    <3> QED
      BY <2>1, <3>1, <3>2, ShownBefore
  <2>2. CASE k \in N + 1 .. N + n
    <3>1. k \in N + 1 .. N + n + 1
      BY <2>2
    <3> QED
      BY <1>3, <1>5, <2>2, <3>1
  <2> QED
    BY <1>6, <2>1, <2>2
<1>8. ASSUME NEW k \in 1 .. N + n, v[k].what = "id"
      PROVE  k > 1 /\ v[k - 1].what = "escape"
  <2>1. k \in 1 .. N
    BY <1>3, <1>6, <1>8
  <2>2. k > 1 /\ w[k - 1].what = "escape"
    BY <1>1, <1>2, <1>8, <2>1 DEF Assigned
  <2>3. k - 1 \in 1 .. N
    BY <2>1, <2>2
  <2> QED
    BY <1>2, <2>2, <2>3
<1>9. Assigned(v)
  BY <1>2, <1>7, <1>8 DEF Assigned
<1>10. Shown(v, N + n + 1, t)
  BY <1>5
<1> QED
  BY <1>2, <1>9, <1>10

\* v is w with a switch to t behind it.
Switched(w, v, t) ==
    /\ Len(v) = Len(w) + 2
    /\ \A k \in 1 .. Len(w) : v[k] = w[k]
    /\ v[Len(w) + 1].what = "escape"
    /\ v[Len(w) + 2].what = "id" /\ v[Len(w) + 2].to = t

\* So may a switch, and its terminal is shown from then on.
LEMMA SwitchAdded ==
    ASSUME NEW w \in Seq(Char), NEW v \in Seq(Char), NEW t,
           Assigned(w), Switched(w, v, t)
    PROVE  Assigned(v) /\ Shown(v, Len(v) + 1, t)
<1>1. PICK N \in Nat : N = Len(w)
  BY LenProperties
<1>2. /\ Len(v) = N + 2 /\ \A k \in 1 .. N : v[k] = w[k]
      /\ v[N + 1].what = "escape" /\ v[N + 2].what = "id" /\ v[N + 2].to = t
  BY <1>1 DEF Switched
<1>3. \A k \in 1 .. N + 2 : k \in 1 .. N \/ k = N + 1 \/ k = N + 2
  OBVIOUS
<1>4. ASSUME NEW k \in 1 .. N + 2, v[k].what = "text"
      PROVE  Shown(v, k, v[k].to)
  <2>1. k \in 1 .. N
    BY <1>2, <1>3, <1>4
  <2>2. Shown(w, k, w[k].to) /\ v[k] = w[k]
    BY <1>1, <1>2, <1>4, <2>1 DEF Assigned
  <2>3. \A j \in 1 .. k - 1 : v[j] = w[j]
    BY <1>2, <2>1
  <2> QED
    BY <2>1, <2>2, <2>3, ShownBefore
<1>5. ASSUME NEW k \in 1 .. N + 2, v[k].what = "id"
      PROVE  k > 1 /\ v[k - 1].what = "escape"
  <2>1. CASE k \in 1 .. N
    <3>1. k > 1 /\ w[k - 1].what = "escape"
      BY <1>1, <1>2, <1>5, <2>1 DEF Assigned
    <3>2. k - 1 \in 1 .. N
      BY <2>1, <3>1
    <3> QED
      BY <1>2, <3>1, <3>2
  <2>2. CASE k = N + 1
    BY <1>2, <1>5, <2>2
  <2>3. CASE k = N + 2
    <3>1. k > 1 /\ k - 1 = N + 1
      BY <2>3
    <3> QED
      BY <1>2, <3>1
  <2> QED
    BY <1>3, <2>1, <2>2, <2>3
<1>6. Assigned(v)
  BY <1>2, <1>4, <1>5 DEF Assigned
<1>7. Shown(v, N + 2 + 1, t)
  <2>1. N + 2 \in Nat \ {0}
    OBVIOUS
  <2> QED
    BY <1>2, <2>1, ShownBehindId
<1> QED
  BY <1>2, <1>6, <1>7

\* A character of the text may be dropped where it is the last one.
LEMMA TextDropped ==
    ASSUME NEW w \in Seq(Char), NEW v \in Seq(Char), NEW t,
           Assigned(w), Shown(w, Len(w) + 1, t), Len(w) = Len(v) + 1,
           \A k \in 1 .. Len(v) : v[k] = w[k], w[Len(w)].what = "text"
    PROVE  Assigned(v) /\ Shown(v, Len(v) + 1, t)
<1>1. PICK N \in Nat : N = Len(v)
  BY LenProperties
<1>2. Len(w) = N + 1 /\ w[N + 1].what = "text"
      /\ \A k \in 1 .. N : v[k] = w[k]
  BY <1>1
<1>3. ASSUME NEW k \in 1 .. N, v[k].what = "text"
      PROVE  Shown(v, k, v[k].to)
  <2>1. Shown(w, k, w[k].to) /\ v[k] = w[k]
    BY <1>2, <1>3 DEF Assigned
  <2>2. \A j \in 1 .. k - 1 : v[j] = w[j]
    BY <1>2
  <2> QED
    BY <2>1, <2>2, ShownBefore
<1>4. ASSUME NEW k \in 1 .. N, v[k].what = "id"
      PROVE  k > 1 /\ v[k - 1].what = "escape"
  <2>1. k > 1 /\ w[k - 1].what = "escape"
    BY <1>2, <1>4 DEF Assigned
  <2>2. k - 1 \in 1 .. N
    BY <2>1
  <2> QED
    BY <1>2, <2>1, <2>2
<1>5. Shown(w, N + 2, t)
  <2>1. Len(w) + 1 = N + 2
    BY <1>2
  <2> QED
    BY <2>1
<1>6. Shown(w, N + 1, t)
  <2>1. CASE t = 0 /\ \A j \in 1 .. N + 2 - 1 : w[j].what # "id"
    BY <2>1 DEF Shown
  <2>2. CASE \E j \in 1 .. N + 2 - 1 :
                /\ w[j].what = "id" /\ w[j].to = t
                /\ \A m \in j + 1 .. N + 2 - 1 : w[m].what # "id"
    <3>1. PICK j \in 1 .. N + 2 - 1 :
             /\ w[j].what = "id" /\ w[j].to = t
             /\ \A m \in j + 1 .. N + 2 - 1 : w[m].what # "id"
      BY <2>2
    <3>2. j # N + 1
      BY <1>2, <3>1
    <3>3. j \in 1 .. N + 1 - 1
      BY <3>2
    <3>4. \A m \in j + 1 .. N + 1 - 1 : w[m].what # "id"
      BY <3>1
    <3> QED
      BY <3>1, <3>3, <3>4 DEF Shown
  <2> QED
    BY <1>5, <2>1, <2>2 DEF Shown
<1>7. Shown(v, N + 1, t)
  <2>1. \A j \in 1 .. N + 1 - 1 : v[j] = w[j]
    BY <1>2
  <2> QED
    BY <1>6, <2>1, ShownBefore
<1> QED
  BY <1>1, <1>3, <1>4, <1>7 DEF Assigned

\* A step that leaves the characters alone.
LEMMA TerminalStays ==
    ASSUME TerminalInv, Whole' = Whole, ActiveTerminal' = ActiveTerminal,
           pc' = "write" => pc = "write" /\ UNCHANGED acBuffer,
           pc' \in {"wait", "put"} => pc \in {"wait", "put"} /\ UNCHANGED todo
    PROVE  TerminalInv'
<1>1. PICK w : w = Whole
  OBVIOUS
<1>2. Assigned(w) /\ Shown(w, Len(w) + 1, ActiveTerminal) /\ Whole' = w
  BY <1>1 DEF TerminalInv
<1>3. (Assigned(Whole))' /\ (Shown(Whole, Len(Whole) + 1, ActiveTerminal))'
  BY <1>2 DEF Assigned, Shown
<1>4. pc' = "write" =>
         \A k \in 1 .. Len(acBuffer') :
            acBuffer'[k].what = "text" /\ acBuffer'[k].to = ActiveTerminal'
  BY DEF TerminalInv
<1>5. pc' \in {"wait", "put"} => todo'[1].what = "text"
  BY DEF TerminalInv
<1> QED
  BY <1>3, <1>4, <1>5 DEF TerminalInv

\* A call whose characters are to be copied adds them to the others.
LEMMA CallAppends ==
    ASSUME RingInv, RingInv', pc \in {"idle", "write"},
           UNCHANGED <<pBuffer, WrOff, RdOff, host, received>>,
           pc' \in {"block", "copy", "wait", "put"}
    PROVE  \E w \in Seq(Char), v \in Seq(Char), n \in Nat :
              /\ w = Whole /\ v = Whole' /\ n = LeftOver'
              /\ Len(v) = Len(w) + n
              /\ \A k \in 1 .. Len(w) : v[k] = w[k]
              /\ \A k \in 1 .. n : v[Len(w) + k] = Ahead(k)'
<1>1. Copied = 0 /\ InRing = Visible /\ LeftOver = 0
  BY AllVisible
<1>2. Copied' = 0 /\ NextRead' = NextRead
  BY DEF Copied, NextRead
<1>3. InRing' = InRing
  <2>1. Visible' = Visible
    BY <1>2 DEF Visible, Between
  <2> QED
    BY <1>1, <1>2, <2>1 DEF InRing
<1>4. /\ Len(Whole') = Len(Whole) + LeftOver'
      /\ \A k \in 1 .. Len(Whole) : Whole'[k] = Whole[k]
      /\ \A k \in 1 .. LeftOver' : Whole'[Len(Whole) + k] = Ahead(k)'
  BY <1>1, <1>2, <1>3, CallAdds
<1>5. Whole \in Seq(Char) /\ Whole' \in Seq(Char) /\ LeftOver' \in Nat
  BY WholeParts, NextParts DEF Parts, Char
<1> QED
  BY <1>4, <1>5, Zenon

\* The characters of a write say what was to be written.
LEMMA CharsSay ==
    ASSUME NEW w, NEW s \in Seq(Sign), NEW mode
    PROVE  \A k \in 1 .. Len(s) : /\ Chars(w, s, mode)[k].what = s[k].what
                                  /\ Chars(w, s, mode)[k].to = s[k].to
<1>1. DOMAIN s = 1 .. Len(s)
  BY LenProperties
<1> QED
  BY <1>1 DEF Chars

\* A text is text for its terminal.
LEMMA TextSays ==
    ASSUME NEW n \in Nat, NEW t
    PROVE  \A k \in 1 .. n : Text(n, t)[k].what = "text" /\ Text(n, t)[k].to = t
BY DEF Text

\* A switch is an escape character and an identifier.
LEMMA SwitchSays ==
    ASSUME NEW t
    PROVE  /\ Switch(t)[1].what = "escape"
           /\ Switch(t)[2].what = "id" /\ Switch(t)[2].to = t
BY DEF Switch

\* c is a with b behind it.
Behind(c, a, b) ==
    /\ c \in Seq(Sign) /\ Len(c) = Len(a) + Len(b)
    /\ \A k \in 1 .. Len(a) : c[k] = a[k]
    /\ \A k \in 1 .. Len(b) : c[Len(a) + k] = b[k]

\* Two sequences, one behind the other.
LEMMA Joined ==
    ASSUME NEW a \in Seq(Sign), NEW b \in Seq(Sign)
    PROVE  Behind(a \o b, a, b)
<1>1. PICK c : c = a \o b
  OBVIOUS
<1>2. /\ c \in Seq(Sign) /\ Len(c) = Len(a) + Len(b)
      /\ \A k \in 1 .. Len(a) + Len(b) :
            c[k] = IF k <= Len(a) THEN a[k] ELSE b[k - Len(a)]
  BY <1>1, ConcatProperties, Zenon
<1>3. PICK m \in Nat, n \in Nat : m = Len(a) /\ n = Len(b)
  BY LenProperties
<1>4. \A k \in 1 .. m + n : c[k] = IF k <= m THEN a[k] ELSE b[k - m]
  BY <1>2, <1>3
<1>5. \A k \in 1 .. m : c[k] = a[k]
  BY <1>4
<1>6. \A k \in 1 .. n : c[m + k] = b[k]
  <2> TAKE k \in 1 .. n
  <2>1. m + k \in 1 .. m + n /\ ~(m + k <= m) /\ m + k - m = k
    OBVIOUS
  <2> QED
    BY <1>4, <2>1
<1> QED
  BY <1>1, <1>2, <1>3, <1>5, <1>6, Zenon DEF Behind

\* A switch, n characters of text, and a switch back.
OutAndBack(u, n, t, a) ==
    /\ u[1].what = "escape" /\ u[2].what = "id" /\ u[2].to = t
    /\ \A k \in 1 .. n : u[2 + k].what = "text" /\ u[2 + k].to = t
    /\ u[n + 3].what = "escape"
    /\ u[n + 4].what = "id" /\ u[n + 4].to = a

\* This is what SEGGER_RTT_TerminalOut writes.
LEMMA TerminalOutSays ==
    ASSUME NEW n \in Nat, NEW t \in Terminals, NEW a \in Terminals,
           NEW u, u = Switch(t) \o Text(n, t) \o Switch(a)
    PROVE  OutAndBack(u, n, t, a)
<1>1. PICK s1 \in Seq(Sign) : s1 = Switch(t) /\ Len(s1) = 2
  BY SwitchTypes
<1>2. PICK s2 \in Seq(Sign) : s2 = Text(n, t) /\ Len(s2) = n
  BY TextTypes
<1>3. PICK s3 \in Seq(Sign) : s3 = Switch(a) /\ Len(s3) = 2
  BY SwitchTypes
<1>4. /\ s1[1].what = "escape" /\ s1[2].what = "id" /\ s1[2].to = t
      /\ \A k \in 1 .. n : s2[k].what = "text" /\ s2[k].to = t
      /\ s3[1].what = "escape" /\ s3[2].what = "id" /\ s3[2].to = a
  BY <1>1, <1>2, <1>3, SwitchSays, TextSays
<1>5. PICK s \in Seq(Sign), m \in Nat :
         /\ s = s1 \o s2 /\ m = 2 + n /\ Len(s) = m
         /\ \A k \in 1 .. 2 : s[k] = s1[k]
         /\ \A k \in 1 .. n : s[2 + k] = s2[k]
  <2>1. 2 + n \in Nat
    OBVIOUS
  <2>2. PICK d : d = s1 \o s2
    OBVIOUS
  <2>3. Behind(d, s1, s2)
    BY <2>2, Joined, Zenon
  <2>4. /\ d \in Seq(Sign) /\ Len(d) = 2 + n
        /\ \A k \in 1 .. 2 : d[k] = s1[k]
        /\ \A k \in 1 .. n : d[2 + k] = s2[k]
    BY <1>1, <1>2, <2>3 DEF Behind
  <2> QED
    BY <2>1, <2>2, <2>4, Zenon
<1>6. PICK c : /\ c = s \o s3 /\ \A k \in 1 .. m : c[k] = s[k]
               /\ \A k \in 1 .. 2 : c[m + k] = s3[k]
  <2>1. PICK d : d = s \o s3
    OBVIOUS
  <2>2. Behind(d, s, s3)
    BY <2>1, Joined, Zenon
  <2>3. /\ \A k \in 1 .. m : d[k] = s[k]
        /\ \A k \in 1 .. 2 : d[m + k] = s3[k]
    <3>1. Len(s) = m
      BY <1>5
    <3> QED
      BY <1>3, <2>2, <3>1 DEF Behind
  <2> QED
    BY <2>1, <2>3, Zenon
<1>7. u = c
  BY <1>1, <1>2, <1>3, <1>5, <1>6, Zenon
<1>8. 1 \in 1 .. m /\ 2 \in 1 .. m /\ 1 \in 1 .. 2 /\ 2 \in 1 .. 2
      /\ m + 1 = n + 3 /\ m + 2 = n + 4
      /\ \A k \in 1 .. n : 2 + k \in 1 .. m
  BY <1>5
<1>9. u[1] = s1[1] /\ u[2] = s1[2] /\ u[n + 3] = s3[1] /\ u[n + 4] = s3[2]
  <2>1. u[1] = s[1] /\ u[2] = s[2] /\ s[1] = s1[1] /\ s[2] = s1[2]
    BY <1>5, <1>6, <1>7, <1>8, Zenon
  <2>2. u[m + 1] = s3[1] /\ u[m + 2] = s3[2]
    BY <1>6, <1>7, <1>8, Zenon
  <2> QED
    BY <1>8, <2>1, <2>2, Zenon
<1>10. \A k \in 1 .. n : u[2 + k] = s2[k]
  BY <1>5, <1>6, <1>7, <1>8, Zenon
<1>11. /\ u[1].what = "escape" /\ u[2].what = "id" /\ u[2].to = t
       /\ u[n + 3].what = "escape" /\ u[n + 4].what = "id" /\ u[n + 4].to = a
  BY <1>4, <1>9
<1>12. \A k \in 1 .. n : u[2 + k].what = "text" /\ u[2 + k].to = t
  BY <1>4, <1>10
<1> QED
  BY <1>11, <1>12, Zenon DEF OutAndBack

\* SEGGER_RTT_WriteNoLock writes to the active terminal, a single character
\* too.
LEMMA TextsBegin ==
    ASSUME RingInv, RingInv', TerminalInv, pc \in {"idle", "write"},
           UNCHANGED <<pBuffer, WrOff, RdOff, host, received, ActiveTerminal>>,
           pc' \in {"block", "copy", "wait", "put"},
           \A k \in 1 .. LeftOver' :
              Ahead(k)'.what = "text" /\ Ahead(k)'.to = ActiveTerminal,
           pc' \in {"wait", "put"} => todo'[1].what = "text"
    PROVE  TerminalInv'
<1>1. PICK w \in Seq(Char), v \in Seq(Char), n \in Nat :
         /\ w = Whole /\ v = Whole' /\ n = LeftOver'
         /\ Len(v) = Len(w) + n
         /\ \A k \in 1 .. Len(w) : v[k] = w[k]
         /\ \A k \in 1 .. n : v[Len(w) + k] = Ahead(k)'
  BY CallAppends
<1>2. Assigned(w) /\ Shown(w, Len(w) + 1, ActiveTerminal)
  BY <1>1, Zenon DEF TerminalInv
<1>3. \A k \in 1 .. n : /\ v[Len(w) + k].what = "text"
                        /\ v[Len(w) + k].to = ActiveTerminal
  BY <1>1, Zenon
<1>4. Assigned(v) /\ Shown(v, Len(v) + 1, ActiveTerminal)
  <2>1. PICK t : t = ActiveTerminal
    OBVIOUS
  <2>2. /\ Shown(w, Len(w) + 1, t)
        /\ \A k \in 1 .. n : v[Len(w) + k].what = "text" /\ v[Len(w) + k].to = t
    BY <1>2, <1>3, <2>1, Zenon
  <2>3. TextBehind(w, v, n, t)
    BY <1>1, <2>2 DEF TextBehind
  <2>4. Assigned(v) /\ Shown(v, Len(v) + 1, t)
    BY <1>1, <1>2, <2>2, <2>3, TextsAdded, Zenon
  <2> QED
    BY <2>1, <2>4, Zenon
<1>5. (Assigned(Whole))' /\ (Shown(Whole, Len(Whole) + 1, ActiveTerminal))'
  <2>1. v = Whole' /\ ActiveTerminal' = ActiveTerminal
    BY <1>1
  <2> QED
    BY <1>4, <2>1 DEF Assigned, Shown
<1> QED
  BY <1>5 DEF TerminalInv

\* A step that leaves the characters alone and collects n of a text for the
\* active terminal.
LEMMA TextTaken ==
    ASSUME RingInv, RingInv', TerminalInv, NEW n \in Nat,
           Whole' = Whole, ActiveTerminal' = ActiveTerminal, pc' = "write",
           writes' = writes + 1,
           acBuffer' = Chars(writes + 1, Text(n, ActiveTerminal), Flags)
    PROVE  TerminalInv'
<1>1. PICK w \in 0 .. MAX_WRITES : w = writes + 1
  BY DEF RingInv, CallOK
<1>2. PICK t \in Seq(Sign) : t = Text(n, ActiveTerminal) /\ Len(t) = n
  BY TextTypes DEF RingInv, CallOK
<1>3. \A k \in 1 .. n : t[k].what = "text" /\ t[k].to = ActiveTerminal
  BY <1>2, TextSays
<1>4. PICK a : a = Chars(w, t, Flags) /\ Len(a) = n
  BY <1>1, <1>2, CharsTypes DEF RingInv, RingOK
<1>5. \A k \in 1 .. n : a[k].what = t[k].what /\ a[k].to = t[k].to
  BY <1>2, <1>4, CharsSay
<1>6. acBuffer' = a
  BY <1>1, <1>2, <1>4
<1>7. \A k \in 1 .. Len(acBuffer') :
         acBuffer'[k].what = "text" /\ acBuffer'[k].to = ActiveTerminal'
  BY <1>3, <1>4, <1>5, <1>6
<1>8. (Assigned(Whole))' /\ (Shown(Whole, Len(Whole) + 1, ActiveTerminal))'
  <2>1. PICK w1 : w1 = Whole
    OBVIOUS
  <2>2. Assigned(w1) /\ Shown(w1, Len(w1) + 1, ActiveTerminal) /\ Whole' = w1
        /\ ActiveTerminal' = ActiveTerminal
    BY <2>1 DEF TerminalInv
  <2> QED
    BY <2>2 DEF Assigned, Shown
<1> QED
  BY <1>7, <1>8 DEF TerminalInv

\* A full buffer is to be written once more.
LEMMA TerminalKeptByWriteAgain ==
    ASSUME RingInv, RingInv', TerminalInv, Whole' = Whole,
           ActiveTerminal' = ActiveTerminal, WriteAgain
    PROVE  TerminalInv'
<1>1. Len(acBuffer) \in Nat
  BY LenProperties DEF RingInv, CallOK
<1>2. /\ pc' = "write" /\ writes' = writes + 1
      /\ acBuffer' =
            Chars(writes + 1, Text(Len(acBuffer), ActiveTerminal), Flags)
  BY DEF WriteAgain
<1> QED
  BY <1>1, <1>2, TextTaken

\* Copies, publications, reads and the calls that write no character keep the
\* terminals.
LEMMA TerminalKept ==
    ASSUME RingInv, RingInv', TerminalInv,
           \/ \E mode \in Modes : SEGGER_RTT_SetFlagsUpBuffer(mode)
           \/ \E length \in 1 .. MAX_LENGTH : SEGGER_RTT_vprintf(length)
           \/ WaitForSpace
           \/ HostLooks
           \/ HostPublishes
           \/ WriteNoCheck
           \/ WriteNoCheckWraps
           \/ WriteBlocking
           \/ Publish
           \/ HostCopies
           \/ UNCHANGED vars
    PROVE  TerminalInv'
<1>1. CASE \E mode \in Modes : SEGGER_RTT_SetFlagsUpBuffer(mode)
  <2>1. /\ pc = "idle"
        /\ UNCHANGED <<pBuffer, WrOff, RdOff, host, received, todo, pieces, pc,
                       ActiveTerminal>>
    BY <1>1 DEF SEGGER_RTT_SetFlagsUpBuffer, program
  <2>2. Whole' = Whole
    BY <2>1, NothingMoves DEF NextRead, Copied
  <2> QED
    BY <2>1, <2>2, TerminalStays
<1>2. CASE \E length \in 1 .. MAX_LENGTH : SEGGER_RTT_vprintf(length)
  <2>1. /\ pc = "idle" /\ pc' = "store"
        /\ UNCHANGED <<pBuffer, WrOff, RdOff, host, received, todo, pieces,
                       ActiveTerminal>>
    BY <1>2 DEF SEGGER_RTT_vprintf, ring
  <2>2. Whole' = Whole
    BY <2>1, NothingMoves DEF NextRead, Copied
  <2> QED
    BY <2>1, <2>2, TerminalStays
<1>3. CASE WaitForSpace
  <2>1. /\ pc = "wait" /\ pc' = "put"
        /\ UNCHANGED <<pBuffer, WrOff, RdOff, host, received, todo, pieces,
                       ActiveTerminal>>
    BY <1>3 DEF WaitForSpace, ring
  <2>2. Whole' = Whole
    BY <2>1, NothingMoves DEF NextRead, Copied
  <2> QED
    BY <2>1, <2>2, TerminalStays
<1>4. CASE HostLooks \/ HostPublishes \/ UNCHANGED vars
  <2>1. /\ NextRead' = NextRead /\ Copied' = Copied
        /\ UNCHANGED <<pBuffer, WrOff, received, todo, pieces, pc, acBuffer,
                       ActiveTerminal>>
    <3>1. CASE HostLooks
      BY <3>1 DEF HostLooks, ring, program, NextRead, Copied, Between
    <3>2. CASE HostPublishes
      BY <3>2 DEF HostPublishes, ring, program, NextRead, Copied, Between,
                  RingInv, HostOK
    <3>3. CASE UNCHANGED vars
      BY <3>3 DEF vars, ring, program, NextRead, Copied, Between
    <3> QED
      BY <1>4, <3>1, <3>2, <3>3
  <2>2. Whole' = Whole
    BY <2>1, NothingMoves
  <2> QED
    BY <2>1, <2>2, TerminalStays
<1>5. CASE WriteNoCheck \/ WriteNoCheckWraps \/ WriteBlocking
  <2>1. PICK n \in Nat : Enters(n)
    BY <1>5, CopiesToEnd, CopiesFromStart, CopiesATurn
  <2>2. Whole' = Whole
    BY <2>1, EntersKeeps
  <2>3. ActiveTerminal' = ActiveTerminal /\ pc' \in {"publish", "wrap"}
    BY <1>5, <2>1 DEF Enters, Untouched, WriteNoCheck, WriteNoCheckWraps,
                      WriteBlocking
  <2> QED
    BY <2>2, <2>3, TerminalStays
<1>6. CASE Publish
  <2>1. Whole' = Whole
    BY <1>6, PublishKeeps
  <2>2. ActiveTerminal' = ActiveTerminal
    BY <1>6 DEF Publish
  <2>3. CASE pc' \in {"idle", "store", "block"}
    BY <2>1, <2>2, <2>3, TerminalStays
  <2>4. CASE rest > 0 /\ WriteAgain
    BY <2>1, <2>2, <2>4, TerminalKeptByWriteAgain
  <2> QED
    BY <1>6, <2>3, <2>4 DEF Publish, Written, Return
<1>7. CASE HostCopies
  <2>1. Whole' = Whole
    BY <1>7, HostCopyKeeps
  <2>2. UNCHANGED <<pc, acBuffer, todo, ActiveTerminal>>
    BY <1>7 DEF HostCopies, ring, program
  <2> QED
    BY <2>1, <2>2, TerminalStays
<1> QED
  BY <1>1, <1>2, <1>3, <1>4, <1>5, <1>6, <1>7

\* A printf collects text for the active terminal.
LEMMA TerminalKeptByStoreChar ==
    ASSUME RingInv, RingInv', TerminalInv, StoreChar
    PROVE  TerminalInv'
<1> DEFINE n == Min({rest, PRINTF_BUFFER_SIZE})
<1>1. /\ pc = "store" /\ pc' = "write" /\ writes' = writes + 1
      /\ acBuffer' = Chars(writes + 1, Text(n, ActiveTerminal), Flags)
      /\ UNCHANGED <<pBuffer, WrOff, RdOff, todo, pieces, host, received,
                     ActiveTerminal>>
  BY DEF StoreChar, ring
<1>2. n \in Nat
  <2>1. rest \in Nat /\ PRINTF_BUFFER_SIZE \in Nat
    BY Sizes DEF RingInv, CallOK
  <2> QED
    BY <2>1, MinOfTwo
<1> HIDE DEF n
<1>3. Whole' = Whole
  BY <1>1, NothingCopied DEF BetweenCopies
<1> QED
  BY <1>1, <1>2, <1>3, TextTaken

\* SEGGER_RTT_WriteNoLock copies a front of it.
LEMMA TerminalKeptByWriteNoLock ==
    ASSUME RingInv, RingInv', TerminalInv, SEGGER_RTT_WriteNoLock
    PROVE  TerminalInv'
<1>1. acBuffer \in Seq(Char) /\ Len(acBuffer) \in Nat
  BY LenProperties DEF RingInv, CallOK
<1>2. PICK b \in Nat, n \in Nat : b = Len(acBuffer) /\ n = Accepted(b)
  BY <1>1, AcceptedFits
<1>3. n \in 0 .. b
  BY <1>2, AcceptedFits
<1>4. /\ pc = "write"
      /\ UNCHANGED <<pBuffer, WrOff, RdOff, Flags, pieces, host, received,
                     ActiveTerminal>>
      /\ \/ Written(0) /\ UNCHANGED todo
         \/ /\ todo' = SubSeq(acBuffer, 1, n)
            /\ pc' = IF Flags = "BLOCK_IF_FIFO_FULL" THEN "block" ELSE "copy"
  BY <1>2 DEF SEGGER_RTT_WriteNoLock, ring
<1>5. CASE Written(0) /\ UNCHANGED todo
  <2>1. pc' \in {"idle", "store", "write"}
    BY <1>5 DEF Written, Return, WriteAgain
  <2>2. Whole' = Whole
    BY <1>4, <1>5, <2>1, NothingMoves DEF NextRead, Copied
  <2>3. CASE pc' \in {"idle", "store"}
    BY <1>4, <2>2, <2>3, TerminalStays
  <2>4. CASE rest > 0 /\ WriteAgain
    BY <1>4, <2>2, <2>4, TerminalKeptByWriteAgain
  <2> QED
    BY <1>5, <2>3, <2>4 DEF Written, Return
<1>6. CASE /\ todo' = SubSeq(acBuffer, 1, n)
           /\ pc' = IF Flags = "BLOCK_IF_FIFO_FULL" THEN "block" ELSE "copy"
  <2>1. /\ Len(todo') = n /\ \A k \in 1 .. n : todo'[k] = acBuffer[k]
    BY <1>1, <1>2, <1>3, <1>6, FrontAndRest
  <2>2. LeftOver' = n
    <3>1. pieces' = <<>>
      BY <1>4 DEF RingInv, Control
    <3> QED
      BY <2>1, <3>1 DEF LeftOver, PieceLen
  <2>3. \A k \in 1 .. n : Ahead(k)' = acBuffer[k]
    BY <2>1 DEF Ahead
  <2>4. \A k \in 1 .. b : /\ acBuffer[k].what = "text"
                          /\ acBuffer[k].to = ActiveTerminal
    BY <1>2, <1>4 DEF TerminalInv
  <2>5. \A k \in 1 .. n : k \in 1 .. b
    BY <1>3
  <2>6. \A k \in 1 .. LeftOver' :
           Ahead(k)'.what = "text" /\ Ahead(k)'.to = ActiveTerminal
    BY <2>2, <2>3, <2>4, <2>5, Zenon
  <2>7. pc' \in {"block", "copy"}
    BY <1>6
  <2> QED
    BY <1>4, <2>6, <2>7, TextsBegin
<1> QED
  BY <1>4, <1>5, <1>6

\* SEGGER_RTT_PutChar and SEGGER_RTT_PutCharSkip take a character of the text.
LEMMA TerminalKeptByStartPut ==
    ASSUME RingInv, RingInv', TerminalInv, NEW next \in {"wait", "put"},
           StartPut(next)
    PROVE  TerminalInv'
<1>1. /\ pc = "idle" /\ pc' = next /\ writes' = writes + 1
      /\ todo' = Chars(writes + 1, Text(1, ActiveTerminal), Flags)
      /\ UNCHANGED <<pBuffer, WrOff, RdOff, Flags, pieces, host, received,
                     ActiveTerminal>>
  BY DEF StartPut, ring
<1>2. PICK w \in 0 .. MAX_WRITES : w = writes + 1
  BY <1>1 DEF RingInv, CallOK
<1>3. PICK t \in Seq(Sign) : t = Text(1, ActiveTerminal) /\ Len(t) = 1
  BY TextTypes DEF RingInv, CallOK
<1>4. 1 \in Nat /\ 1 \in 1 .. 1
  OBVIOUS
<1>5. t[1].what = "text" /\ t[1].to = ActiveTerminal
  BY <1>3, <1>4, TextSays
<1>6. PICK a : a = Chars(w, t, Flags) /\ Len(a) = 1
  BY <1>2, <1>3, CharsTypes DEF RingInv, RingOK
<1>7. a[1].what = t[1].what /\ a[1].to = t[1].to
  BY <1>3, <1>4, <1>6, CharsSay
<1>8. todo' = a
  BY <1>1, <1>2, <1>3, <1>6
<1>9. LeftOver' = 1 /\ Ahead(1)' = todo'[1]
  <2>1. pieces' = <<>>
    BY <1>1 DEF RingInv, Control
  <2> QED
    BY <1>6, <1>8, <2>1 DEF LeftOver, PieceLen, Ahead
<1>10. \A k \in 1 .. LeftOver' :
          Ahead(k)'.what = "text" /\ Ahead(k)'.to = ActiveTerminal
  <2> TAKE k \in 1 .. LeftOver'
  <2>1. k = 1
    BY <1>9
  <2> QED
    BY <1>5, <1>7, <1>8, <1>9, <2>1, Zenon
<1>11. todo'[1].what = "text"
  BY <1>5, <1>7, <1>8
<1> QED
  BY <1>1, <1>10, <1>11, TextsBegin

\* The character is stored, or skipped and never shown.
LEMMA TerminalKeptByPutOrSkip ==
    ASSUME RingInv, RingInv', TerminalInv, PutOrSkip
    PROVE  TerminalInv'
<1>1. pc = "put" /\ pc' \in {"publish", "idle"}
  BY DEF PutOrSkip
<1>2. CASE Enters(1)
  <2>1. Whole' = Whole
    BY <1>2, EntersKeeps
  <2>2. ActiveTerminal' = ActiveTerminal
    BY <1>2 DEF Enters, Untouched
  <2> QED
    BY <1>1, <2>1, <2>2, TerminalStays
<1>3. CASE todo' = <<>> /\ pc' = "idle" /\ pBuffer' = pBuffer /\ Untouched
  <2>1. PICK w \in Seq(Char), v \in Seq(Char) :
           /\ w = Whole /\ v = Whole' /\ Len(w) = Len(v) + 1
           /\ \A k \in 1 .. Len(v) : v[k] = w[k]
           /\ w[Len(w)] = todo[1]
    BY <1>1, <1>3, SkipTakesLast
  <2>2. ActiveTerminal' = ActiveTerminal
    BY <1>3 DEF Untouched
  <2>3. PICK t : t = ActiveTerminal
    OBVIOUS
  <2>4. Assigned(w) /\ Shown(w, Len(w) + 1, t)
    BY <2>1, <2>3, Zenon DEF TerminalInv
  <2>5. w[Len(w)].what = "text"
    BY <1>1, <2>1 DEF TerminalInv
  <2>6. Assigned(v) /\ Shown(v, Len(v) + 1, t)
    BY <2>1, <2>4, <2>5, TextDropped
  <2>7. (Assigned(Whole))' /\ (Shown(Whole, Len(Whole) + 1, ActiveTerminal))'
    BY <2>1, <2>2, <2>3, <2>6 DEF Assigned, Shown
  <2> QED
    BY <1>3, <2>7 DEF TerminalInv
<1> QED
  BY <1>2, <1>3, CharPut

\* SEGGER_RTT_SetTerminal makes a terminal the active one with its switch.
LEMMA TerminalKeptBySetTerminal ==
    ASSUME RingInv, RingInv', TerminalInv, NEW t \in Terminals,
           SEGGER_RTT_SetTerminal(t)
    PROVE  TerminalInv'
<1>1. /\ writes' \in 0 .. MAX_WRITES /\ writes' = writes + 1
      /\ pieces = <<>> /\ todo = <<>> /\ pc = "idle"
      /\ UNCHANGED <<pBuffer, WrOff, RdOff, Flags, acBuffer, host, received>>
  BY NextWrite DEF SEGGER_RTT_SetTerminal
<1>2. pieces' = pieces /\ SwitchTo(t)
  BY DEF SEGGER_RTT_SetTerminal
<1>3. CASE UNCHANGED <<ActiveTerminal, todo, pc>>
  <2>1. Whole' = Whole
    BY <1>1, <1>2, <1>3, NothingMoves DEF NextRead, Copied
  <2> QED
    BY <1>1, <1>3, <2>1, TerminalStays
<1>4. CASE /\ ActiveTerminal' = t
           /\ todo' = Chars(writes + 1, Switch(t), Flags)
           /\ pc' = IF Flags = "BLOCK_IF_FIFO_FULL" THEN "block" ELSE "copy"
  <2>1. PICK c \in 0 .. MAX_WRITES : c = writes + 1
    BY <1>1
  <2>2. PICK s \in Seq(Sign) : s = Switch(t) /\ Len(s) = 2
    BY SwitchTypes
  <2>3. s[1].what = "escape" /\ s[2].what = "id" /\ s[2].to = t
    BY <2>2, SwitchSays
  <2>4. PICK a : a = Chars(c, s, Flags) /\ Len(a) = 2
    BY <2>2, CharsTypes DEF RingInv, RingOK
  <2>5. \A k \in 1 .. 2 : a[k].what = s[k].what /\ a[k].to = s[k].to
    <3>1. \A k \in 1 .. Len(s) : a[k].what = s[k].what /\ a[k].to = s[k].to
      BY <2>4, CharsSay
    <3> QED
      BY <2>2, <3>1, Zenon
  <2>6. a[1].what = "escape" /\ a[2].what = "id" /\ a[2].to = t
    BY <2>3, <2>5
  <2>7. todo' = a /\ pieces' = <<>>
    BY <1>1, <1>2, <1>4, <2>1, <2>2, <2>4
  <2>8. LeftOver' = 2 /\ \A k \in 1 .. 2 : Ahead(k)' = a[k]
    <3>1. Len(todo') = 2
      BY <2>4, <2>7, Zenon
    <3>2. LeftOver' = 2
      BY <2>7, <3>1 DEF LeftOver, PieceLen
    <3>3. \A k \in 1 .. 2 : Ahead(k)' = todo'[k]
      BY <3>1 DEF Ahead
    <3> QED
      BY <2>7, <3>2, <3>3, Zenon
  <2>9. PICK w \in Seq(Char), v \in Seq(Char), n \in Nat :
           /\ w = Whole /\ v = Whole' /\ n = LeftOver'
           /\ Len(v) = Len(w) + n
           /\ \A k \in 1 .. Len(w) : v[k] = w[k]
           /\ \A k \in 1 .. n : v[Len(w) + k] = Ahead(k)'
    <3>1. pc' \in {"block", "copy"}
      BY <1>4
    <3> QED
      BY <1>1, <3>1, CallAppends
  <2>10. Assigned(w)
    BY <2>9, Zenon DEF TerminalInv
  <2>11. /\ Len(v) = Len(w) + 2
         /\ v[Len(w) + 1] = a[1] /\ v[Len(w) + 2] = a[2]
    <3>1. n = 2
      BY <2>8, <2>9
    <3>2. 1 \in 1 .. 2 /\ 2 \in 1 .. 2
      OBVIOUS
    <3> QED
      BY <2>8, <2>9, <3>1, <3>2, Zenon
  <2>12. Assigned(v) /\ Shown(v, Len(v) + 1, t)
    <3>1. Switched(w, v, t)
      BY <2>6, <2>9, <2>11, Zenon DEF Switched
    <3> QED
      BY <2>10, <3>1, SwitchAdded, Zenon
  <2>13. (Assigned(Whole))' /\ (Shown(Whole, Len(Whole) + 1, ActiveTerminal))'
    BY <1>4, <2>9, <2>12 DEF Assigned, Shown
  <2> QED
    BY <1>4, <2>13 DEF TerminalInv
<1> QED
  BY <1>2, <1>3, <1>4 DEF SwitchTo

\* SEGGER_RTT_TerminalOut leaves the terminal shown that was shown before.
LEMMA TerminalKeptByTerminalOut ==
    ASSUME RingInv, RingInv', TerminalInv, NEW t \in Terminals,
           NEW length \in 1 .. MAX_TEXT, SEGGER_RTT_TerminalOut(t, length)
    PROVE  TerminalInv'
<1> DEFINE n == TextAccepted(length)
<1>1. /\ writes' \in 0 .. MAX_WRITES /\ writes' = writes + 1
      /\ pieces = <<>> /\ todo = <<>> /\ pc = "idle"
      /\ UNCHANGED <<pBuffer, WrOff, RdOff, Flags, host, received>>
      /\ UNCHANGED ActiveTerminal
  BY NextWrite DEF SEGGER_RTT_TerminalOut
<1>2. CASE n < 0
  <2>1. UNCHANGED <<pc, todo, pieces>>
    BY <1>2 DEF SEGGER_RTT_TerminalOut
  <2>2. Whole' = Whole
    BY <1>1, <2>1, NothingMoves DEF NextRead, Copied
  <2> QED
    BY <1>1, <2>1, <2>2, TerminalStays
<1>3. CASE n >= 0
  <2>1. PICK s \in Seq(Char) :
           /\ n \in Nat /\ Len(s) = n + 4
           /\ s = Chars(writes + 1, Switch(t) \o Text(n, t)
                                      \o Switch(ActiveTerminal), Flags)
           /\ todo' = SubSeq(s, 1, 2)
           /\ pieces' = <<SubSeq(s, 3, n + 2), SubSeq(s, n + 3, n + 4)>>
           /\ pc' = "block"
    BY <1>3, TerminalOutStarts
  <2>2. LeftOver' = n + 4 /\ \A k \in 1 .. n + 4 : Ahead(k)' = s[k]
    BY <2>1, PiecesInARow
  <2> HIDE DEF n
  <2>3. PICK a \in Terminals : a = ActiveTerminal
    BY DEF RingInv, CallOK
  <2>4. PICK u \in Seq(Sign) : /\ u = Switch(t) \o Text(n, t) \o Switch(a)
                               /\ Len(u) = n + 4
    BY <2>1, <2>3, TerminalOutTypes
  <2>5. /\ u[1].what = "escape" /\ u[2].what = "id" /\ u[2].to = t
        /\ \A k \in 1 .. n : u[2 + k].what = "text" /\ u[2 + k].to = t
        /\ u[n + 3].what = "escape"
        /\ u[n + 4].what = "id" /\ u[n + 4].to = a
    <3>1. n \in Nat /\ u = Switch(t) \o Text(n, t) \o Switch(a)
      BY <2>1, <2>4
    <3>2. OutAndBack(u, n, t, a)
      BY <3>1, TerminalOutSays, Zenon
    <3> QED
      BY <3>2 DEF OutAndBack
  <2>6. \A k \in 1 .. n + 4 : s[k].what = u[k].what /\ s[k].to = u[k].to
    <3>1. PICK c : c = writes + 1
      OBVIOUS
    <3>2. s = Chars(c, u, Flags)
      BY <2>1, <2>3, <2>4, <3>1, Zenon
    <3>3. \A k \in 1 .. Len(u) : s[k].what = u[k].what /\ s[k].to = u[k].to
      BY <3>2, CharsSay
    <3> QED
      BY <2>4, <3>3, Zenon
  <2>7. PICK w \in Seq(Char), v \in Seq(Char), m \in Nat :
           /\ w = Whole /\ v = Whole' /\ m = LeftOver'
           /\ Len(v) = Len(w) + m
           /\ \A k \in 1 .. Len(w) : v[k] = w[k]
           /\ \A k \in 1 .. m : v[Len(w) + k] = Ahead(k)'
    BY <1>1, <2>1, CallAppends
  <2>8. PICK N \in Nat : N = Len(w)
    BY LenProperties
  <2>9. /\ Len(v) = N + n + 4 /\ \A k \in 1 .. N : v[k] = w[k]
        /\ \A k \in 1 .. n + 4 : v[N + k].what = u[k].what
                                 /\ v[N + k].to = u[k].to
    <3>1. m = n + 4
      BY <2>2, <2>7
    <3>2. \A k \in 1 .. n + 4 : v[N + k] = s[k]
      BY <2>2, <2>7, <2>8, <3>1, Zenon
    <3>3. Len(v) = N + n + 4
      BY <2>1, <2>7, <2>8, <3>1
    <3> QED
      BY <2>6, <2>7, <2>8, <3>2, <3>3
  <2>10. Assigned(w)
    BY <2>7, Zenon DEF TerminalInv
  <2>11. PICK w1 \in Seq(Char) : /\ Len(w1) = N + 2
                                 /\ \A k \in 1 .. N + 2 : w1[k] = v[k]
    <3>1. N + 2 \in 0 .. Len(v)
      BY <2>1, <2>9
    <3> QED
      BY <3>1, FirstChars, Zenon
  <2>12. PICK w2 \in Seq(Char) : /\ Len(w2) = N + 2 + n
                                 /\ \A k \in 1 .. N + 2 + n : w2[k] = v[k]
    <3>1. N + 2 + n \in 0 .. Len(v)
      BY <2>1, <2>9
    <3> QED
      BY <3>1, FirstChars, Zenon
  <2>13. Assigned(w1) /\ Shown(w1, Len(w1) + 1, t)
    <3>1. /\ 1 \in 1 .. n + 4 /\ 2 \in 1 .. n + 4
          /\ N + 1 \in 1 .. N + 2 /\ N + 2 \in 1 .. N + 2
          /\ \A k \in 1 .. N : k \in 1 .. N + 2
      BY <2>1
    <3>2. /\ w1[N + 1].what = "escape"
          /\ w1[N + 2].what = "id" /\ w1[N + 2].to = t
      <4>1. w1[N + 1] = v[N + 1] /\ w1[N + 2] = v[N + 2]
        BY <2>11, <3>1
      <4>2. /\ v[N + 1].what = u[1].what
            /\ v[N + 2].what = u[2].what /\ v[N + 2].to = u[2].to
        BY <2>9, <3>1
      <4> QED
        BY <2>5, <4>1, <4>2
    <3>3. \A k \in 1 .. N : w1[k] = w[k]
      BY <2>9, <2>11, <3>1
    <3>4. Switched(w, w1, t)
      BY <2>8, <2>11, <3>2, <3>3, Zenon DEF Switched
    <3> QED
      BY <2>10, <3>4, SwitchAdded, Zenon
  <2>14. Assigned(w2) /\ Shown(w2, Len(w2) + 1, t)
    <3>1. \A k \in 1 .. N + 2 : w2[k] = w1[k]
      <4>1. \A k \in 1 .. N + 2 : k \in 1 .. N + 2 + n
        BY <2>1
      <4> QED
        BY <2>11, <2>12, <4>1
    <3>2. \A k \in 1 .. n : w2[N + 2 + k].what = "text"
                            /\ w2[N + 2 + k].to = t
      <4> TAKE k \in 1 .. n
      <4>1. /\ N + 2 + k \in 1 .. N + 2 + n /\ N + 2 + k = N + (2 + k)
            /\ 2 + k \in 1 .. n + 4
        BY <2>1
      <4>2. v[N + (2 + k)].what = u[2 + k].what /\ v[N + (2 + k)].to = u[2 + k].to
        BY <2>9, <4>1
      <4>3. w2[N + 2 + k] = v[N + (2 + k)]
        BY <2>12, <4>1, Zenon
      <4> QED
        BY <2>5, <4>2, <4>3
    <3>3. /\ Len(w2) = Len(w1) + n
          /\ \A k \in 1 .. Len(w1) : w2[k] = w1[k]
          /\ \A k \in 1 .. n : /\ w2[Len(w1) + k].what = "text"
                                /\ w2[Len(w1) + k].to = t
      BY <2>11, <2>12, <3>1, <3>2, Zenon
    <3>4. n \in Nat
      BY <2>1
    <3>5. TextBehind(w1, w2, n, t)
      BY <3>3 DEF TextBehind
    <3> QED
      BY <2>13, <3>4, <3>5, TextsAdded, Zenon
  <2>15. Assigned(v) /\ Shown(v, Len(v) + 1, a)
    <3>1. /\ N + 2 + n + 1 = N + (n + 3) /\ N + 2 + n + 2 = N + (n + 4)
          /\ n + 3 \in 1 .. n + 4 /\ n + 4 \in 1 .. n + 4
          /\ N + n + 4 = N + 2 + n + 2
      BY <2>1
    <3>2. /\ v[N + 2 + n + 1].what = "escape"
          /\ v[N + 2 + n + 2].what = "id" /\ v[N + 2 + n + 2].to = a
      <4>1. /\ v[N + (n + 3)].what = u[n + 3].what
            /\ v[N + (n + 4)].what = u[n + 4].what
            /\ v[N + (n + 4)].to = u[n + 4].to
        BY <2>9, <3>1
      <4> QED
        BY <2>5, <3>1, <4>1
    <3>3. Switched(w2, v, a)
      BY <2>9, <2>12, <3>1, <3>2 DEF Switched
    <3> QED
      BY <2>14, <3>3, SwitchAdded, Zenon
  <2>16. (Assigned(Whole))' /\ (Shown(Whole, Len(Whole) + 1, ActiveTerminal))'
    BY <1>1, <2>3, <2>7, <2>15 DEF Assigned, Shown
  <2> QED
    BY <2>1, <2>16 DEF TerminalInv
<1> QED
  <2>1. n \in Int
    BY TextCount
  <2> QED
    BY <1>2, <1>3, <2>1

\* Every step keeps the terminals.
LEMMA TerminalStep ==
    ASSUME RingInv, RingInv', TerminalInv, [Next]_vars
    PROVE  TerminalInv'
<1>1. CASE SEGGER_RTT_PutChar
  BY <1>1, TerminalKeptByStartPut DEF SEGGER_RTT_PutChar
<1>2. CASE SEGGER_RTT_PutCharSkip
  BY <1>2, TerminalKeptByStartPut DEF SEGGER_RTT_PutCharSkip
<1>3. CASE \E terminal \in Terminals : SEGGER_RTT_SetTerminal(terminal)
  BY <1>3, TerminalKeptBySetTerminal
<1>4. CASE \E terminal \in Terminals, n \in 1 .. MAX_TEXT :
              SEGGER_RTT_TerminalOut(terminal, n)
  BY <1>4, TerminalKeptByTerminalOut
<1>5. CASE StoreChar
  BY <1>5, TerminalKeptByStoreChar
<1>6. CASE SEGGER_RTT_WriteNoLock
  BY <1>6, TerminalKeptByWriteNoLock
<1>7. CASE PutOrSkip
  BY <1>7, TerminalKeptByPutOrSkip
<1> QED
  BY <1>1, <1>2, <1>3, <1>4, <1>5, <1>6, <1>7, TerminalKept
     DEF Next, Program, Host

\* In the beginning terminal 0 is shown.
LEMMA TerminalStart ==
    ASSUME Init
    PROVE  TerminalInv
<1>1. RingInv
  BY Started
<1>2. pc = "idle" /\ received = <<>> /\ RdOff = 0 /\ WrOff = 0
      /\ host.pc = "idle" /\ ActiveTerminal = 0
  BY DEF Init
<1>3. Visible = 0
  BY <1>2 DEF Visible, NextRead, Between
<1>4. PICK w : w = Whole /\ Len(w) = 0
  BY <1>1, <1>2, <1>3, AllVisible
<1>5. Assigned(w) /\ Shown(w, Len(w) + 1, 0)
  BY <1>4 DEF Assigned, Shown
<1> QED
  BY <1>2, <1>4, <1>5, Zenon DEF TerminalInv

\* The debugger shows every text on the terminal it was written for.
THEOREM EachTerminalItsTextHolds == Spec => []EachTerminalItsText
<1>1. Init => TerminalInv
  BY TerminalStart
<1>2. RingInv /\ RingInv' /\ TerminalInv /\ [Next]_vars => TerminalInv'
  BY TerminalStep
<1>3. ASSUME RingInv, TerminalInv
      PROVE  EachTerminalItsText
  <2>1. StreamView
    BY <1>3, StreamViewHolds
  <2>2. PICK s \in Seq(Char), w \in Seq(Char), n \in Nat, m \in Nat :
           /\ s = received \o InTransit /\ w = Whole
           /\ n = Len(received) + Visible /\ m = Len(Whole)
    <3>1. /\ received \o InTransit \in Seq(Char) /\ Whole \in Seq(Char)
          /\ Len(received) + Visible \in Nat /\ Len(Whole) \in Nat
      BY <1>3, <2>1, WholeParts, Sizes DEF StreamView, Parts
    <3> QED
      BY <3>1, Zenon
  <2>3. /\ Len(s) = n /\ Len(w) = m /\ n <= m
        /\ \A k \in 1 .. n : s[k] = w[k]
        /\ DOMAIN s = 1 .. n
    <3>1. /\ Len(s) = n /\ Len(w) = m /\ n <= m
          /\ \A k \in 1 .. n : s[k] = w[k]
      BY <2>1, <2>2, Zenon DEF StreamView
    <3> QED
      BY <3>1, LenProperties
  <2>4. Assigned(w)
    BY <1>3, <2>2, Zenon DEF TerminalInv
  <2>5. ASSUME NEW k \in 1 .. n, s[k].what = "text"
        PROVE  Selected(s, k) = s[k].to
    <3>1. k \in 1 .. m /\ s[k] = w[k]
      BY <2>3
    <3>2. Shown(w, k, s[k].to)
      BY <2>3, <2>4, <2>5, <3>1 DEF Assigned
    <3>3. \A j \in 1 .. k - 1 : j \in 1 .. n /\ j \in 1 .. m
      BY <2>3
    <3>4. \A j \in 1 .. k - 1 : s[j] = w[j]
      BY <2>3, <3>3
    <3>5. Shown(s, k, s[k].to)
      BY <3>2, <3>4, ShownBefore
    <3>6. \A j \in 1 .. k - 1 :
             s[j].what = "id" => j > 1 /\ s[j - 1].what = "escape"
      <4> TAKE j \in 1 .. k - 1
      <4> SUFFICES ASSUME s[j].what = "id"
                   PROVE  j > 1 /\ s[j - 1].what = "escape"
        OBVIOUS
      <4>1. j > 1 /\ w[j - 1].what = "escape"
        BY <2>3, <2>4, <3>3, <3>4 DEF Assigned
      <4>2. j - 1 \in 1 .. k - 1
        BY <4>1
      <4> QED
        BY <3>4, <4>1, <4>2
    <3> QED
      BY <3>5, <3>6, ShownIsSelected
  <2> QED
    BY <2>2, <2>3, <2>5 DEF EachTerminalItsText
<1> QED
  BY <1>1, <1>2, <1>3, RingInvHolds, PTL DEF Spec
===========================================================================
