-------------------------- MODULE SensorLogProofs --------------------------
(***************************************************************************)
(* SensorLog, for all beacons with any slots, and any number of rounds,    *)
(* reads, erasures, restarts and faults: the log only grows, each file     *)
(* reaches the gateway from its beginning, in order, but for the chunks    *)
(* whose write fails, and log and file server implement LogService.        *)
(***************************************************************************)
EXTENDS SensorLog, SequenceTheorems, FiniteSetTheorems, TLAPS

\* The smaller of two.
LEMMA MinOfTwo ==
    ASSUME NEW a \in Int, NEW b \in Int
    PROVE  Min({a, b}) = IF a <= b THEN a ELSE b
<1>1. \E x \in {a, b} : \A y \in {a, b} : x <= y
  OBVIOUS
<1>2. Min({a, b}) \in {a, b} /\ \A y \in {a, b} : Min({a, b}) <= y
  BY <1>1 DEF Min
<1> QED
  BY <1>2

\* What lies within a log stays there when lines are appended.
LEMMA PrefixKeepsSubSeq ==
    ASSUME NEW S, NEW s \in Seq(S), NEW t \in Seq(S), IsPrefix(s, t),
           NEW m \in Nat \ {0}, NEW n \in 0 .. Len(s)
    PROVE  SubSeq(t, m, n) = SubSeq(s, m, n)
<1>1. Len(s) \in Nat /\ Len(t) \in Nat /\ Len(s) <= Len(t)
  BY LenProperties DEF IsPrefix
<1>2. \A i \in 1 .. Len(s) : s[i] \in S /\ t[i] \in S
  BY <1>1, ElementOfSeq
<1>3. \A i \in 1 .. Len(s) : SubSeq(s, 1, Len(s))[i] = s[i]
  BY <1>1, <1>2, SubSeqProperties
<1>4. \A i \in 1 .. Len(s) : SubSeq(t, 1, Len(s))[i] = t[i]
  BY <1>1, <1>2, SubSeqProperties
<1>5. \A i \in 1 .. Len(s) : s[i] = t[i]
  BY <1>3, <1>4 DEF IsPrefix
<1>6. /\ SubSeq(s, m, n) \in Seq(S)
      /\ Len(SubSeq(s, m, n)) = IF m <= n THEN n - m + 1 ELSE 0
      /\ \A i \in 1 .. n - m + 1 : SubSeq(s, m, n)[i] = s[m + i - 1]
  <2>1. \A i \in m .. n : s[i] \in S
    BY <1>1, <1>2
  <2> QED
    BY <2>1, SubSeqProperties
<1>7. /\ SubSeq(t, m, n) \in Seq(S)
      /\ Len(SubSeq(t, m, n)) = IF m <= n THEN n - m + 1 ELSE 0
      /\ \A i \in 1 .. n - m + 1 : SubSeq(t, m, n)[i] = t[m + i - 1]
  <2>1. \A i \in m .. n : t[i] \in S
    BY <1>1, <1>2
  <2> QED
    BY <2>1, SubSeqProperties
<1>8. ASSUME NEW i \in 1 .. Len(SubSeq(s, m, n))
      PROVE  SubSeq(s, m, n)[i] = SubSeq(t, m, n)[i]
  <2>1. i \in 1 .. n - m + 1 /\ m + i - 1 \in 1 .. Len(s)
    BY <1>1, <1>6
  <2> QED
    BY <1>5, <1>6, <1>7, <2>1
<1> QED
  BY <1>6, <1>7, <1>8, SeqEqual

\* A log is a prefix of itself, and of itself with a line appended.
LEMMA PrefixOfAppend ==
    ASSUME NEW S, NEW s \in Seq(S)
    PROVE  /\ IsPrefix(s, s)
           /\ IsPrefix(<<>>, s)
           /\ \A e \in S : IsPrefix(s, Append(s, e))
<1>1. Len(s) \in Nat
  BY LenProperties
<1>2. IsPrefix(s, s)
  BY <1>1 DEF IsPrefix
<1>3. IsPrefix(<<>>, s)
  <2>1. SubSeq(<<>>, 1, 0) = SubSeq(s, 1, 0)
    BY SubSeqEmpty
  <2> QED
    BY <1>1, <2>1 DEF IsPrefix
<1>4. ASSUME NEW e \in S
      PROVE  IsPrefix(s, Append(s, e))
  <2>1. /\ Append(s, e) \in Seq(S)
        /\ Len(Append(s, e)) = Len(s) + 1
        /\ \A i \in 1 .. Len(s) : Append(s, e)[i] = s[i]
    BY AppendProperties
  <2>2. \A i \in 1 .. Len(s) : s[i] \in S
    BY <1>1, ElementOfSeq
  <2>3. /\ SubSeq(Append(s, e), 1, Len(s)) \in Seq(S)
        /\ Len(SubSeq(Append(s, e), 1, Len(s))) = Len(s)
        /\ \A i \in 1 .. Len(s) : SubSeq(Append(s, e), 1, Len(s))[i] = s[i]
    BY <1>1, <2>1, <2>2, SubSeqProperties
  <2>4. SubSeq(Append(s, e), 1, Len(s)) = s
    BY <2>3, SeqEqual
  <2>5. SubSeq(s, 1, Len(s)) = s
    BY SubSeqFull
  <2> QED
    BY <1>1, <2>1, <2>4, <2>5 DEF IsPrefix
<1> QED
  BY <1>2, <1>3, <1>4
---------------------------------------------------------------------------
(***************************************************************************)
(* Lines of a log, and the characteristic that holds some of them.         *)
(***************************************************************************)

\* What is written in the first n rounds: each line is newer than those
\* before it.
Written(n) == {s \in Seq(1 .. n) : Ascending(s)}

FirstOf(log, n) == {log[k] : k \in 1 .. n}

\* The gateway has, and the failed writes had, the first lines of the log
\* between them; what the gateway has is in order.
InOrder(log, got, lost) ==
    /\ Len(got) + Len(lost) <= Len(log)
    /\ ToSet(got) \cup ToSet(lost) = FirstOf(log, Len(got) + Len(lost))
    /\ Ascending(got)

\* The characteristic begins with the lines of the log behind from, up to to;
\* its rest was not written yet, or the gateway has it.
Holds(log, from, to, cells, got) ==
    /\ from <= to
    /\ to <= Len(log)
    /\ to <= from + MAX_READ_BYTES
    /\ \A j \in 1 .. MAX_READ_BYTES :
          IF j <= to - from THEN cells[j] = log[from + j]
          ELSE cells[j] = 0 \/ cells[j] \in ToSet(got)

\* All that was read of the log was given or missed, up to the offset to.
InPlace(log, got, lost, to, cells) ==
    /\ InOrder(log, got, lost)
    /\ Len(got) + Len(lost) = to
    /\ Holds(log, to, to, cells, got)

\* What is written is a sequence of lines.
LEMMA WrittenAreLines ==
    ASSUME SensorLogAssumption, NEW n \in 0 .. MAX_ROUNDS, NEW s \in Written(n)
    PROVE  s \in Lines /\ Ascending(s)
<1>1. s \in Seq(1 .. n) /\ 1 .. n \subseteq 1 .. MAX_ROUNDS
  BY DEF Written, SensorLogAssumption
<1> QED
  BY <1>1, SeqMonotonic DEF Lines, Written

\* The line of the next round is newer than all.
LEMMA WrittenGrows ==
    ASSUME NEW n \in Nat, NEW s \in Written(n)
    PROVE  s \in Written(n + 1) /\ Append(s, n + 1) \in Written(n + 1)
<1> DEFINE t == Append(s, n + 1)
<1>1. s \in Seq(1 .. n) /\ Ascending(s) /\ 1 .. n \subseteq 1 .. n + 1
  BY DEF Written
<1>2. s \in Seq(1 .. n + 1)
  BY <1>1, SeqMonotonic
<1>3. /\ t \in Seq(1 .. n + 1) /\ Len(t) = Len(s) + 1
      /\ \A i \in 1 .. Len(s) : t[i] = s[i]
      /\ t[Len(s) + 1] = n + 1
  BY <1>2, AppendProperties
<1>4. Len(s) \in Nat /\ DOMAIN s = 1 .. Len(s) /\ DOMAIN t = 1 .. Len(s) + 1
  BY <1>2, <1>3, LenProperties
<1>5. \A i \in 1 .. Len(s) : s[i] \in 1 .. n
  BY <1>1, ElementOfSeq
<1> HIDE DEF t
<1>6. ASSUME NEW j \in DOMAIN t, NEW k \in DOMAIN t, j < k
      PROVE  t[j] < t[k]
  <2>1. j \in 1 .. Len(s)
    BY <1>4, <1>6
  <2>2. t[j] = s[j] /\ s[j] \in 1 .. n
    BY <1>3, <1>5, <2>1
  <2>3. CASE k = Len(s) + 1
    BY <1>3, <2>2, <2>3
  <2>4. CASE k # Len(s) + 1
    <3>1. k \in 1 .. Len(s) /\ k \in DOMAIN s /\ j \in DOMAIN s
      BY <1>4, <2>1, <2>4
    <3> QED
      BY <1>1, <1>3, <1>6, <2>2, <3>1 DEF Ascending
  <2> QED
    BY <2>3, <2>4
<1>7. Ascending(t)
  BY <1>6 DEF Ascending
<1> QED
  BY <1>1, <1>2, <1>3, <1>7 DEF Written, t

\* The elements of two sequences on end are those of each.
LEMMA ElementsOfConcat ==
    ASSUME NEW S, NEW s \in Seq(S), NEW t \in Seq(S)
    PROVE  ToSet(s \o t) = ToSet(s) \cup ToSet(t)
<1>1. /\ s \o t \in Seq(S) /\ Len(s \o t) = Len(s) + Len(t)
      /\ \A i \in 1 .. Len(s) + Len(t) :
            (s \o t)[i] = IF i <= Len(s) THEN s[i] ELSE t[i - Len(s)]
  BY ConcatProperties
<1>2. /\ Len(s) \in Nat /\ DOMAIN s = 1 .. Len(s)
      /\ Len(t) \in Nat /\ DOMAIN t = 1 .. Len(t)
      /\ DOMAIN (s \o t) = 1 .. Len(s) + Len(t)
  BY <1>1, LenProperties
<1>3. ASSUME NEW i \in DOMAIN (s \o t)
      PROVE  (s \o t)[i] \in ToSet(s) \cup ToSet(t)
  <2>1. CASE i <= Len(s)
    BY <1>1, <1>2, <2>1 DEF ToSet
  <2>2. CASE ~(i <= Len(s))
    <3>1. i - Len(s) \in DOMAIN t
      BY <1>2, <2>2
    <3> QED
      BY <1>1, <1>2, <2>2, <3>1 DEF ToSet
  <2> QED
    BY <2>1, <2>2
<1>4. ASSUME NEW i \in DOMAIN s
      PROVE  s[i] \in ToSet(s \o t)
  <2>1. i \in DOMAIN (s \o t) /\ (s \o t)[i] = s[i]
    BY <1>1, <1>2
  <2> QED
    BY <2>1 DEF ToSet
<1>5. ASSUME NEW i \in DOMAIN t
      PROVE  t[i] \in ToSet(s \o t)
  <2>1. /\ i + Len(s) \in DOMAIN (s \o t) /\ ~(i + Len(s) <= Len(s))
        /\ i + Len(s) - Len(s) = i
    BY <1>2
  <2>2. (s \o t)[i + Len(s)] = t[i]
    BY <1>1, <1>2, <2>1
  <2> QED
    BY <2>1, <2>2 DEF ToSet
<1> QED
  BY <1>3, <1>4, <1>5 DEF ToSet

\* Lines from the middle of a log.
LEMMA MiddleOfLog ==
    ASSUME NEW log \in Lines, NEW from \in Nat, NEW to \in Nat,
           from <= to, to <= Len(log)
    PROVE  /\ SubSeq(log, from + 1, to) \in Lines
           /\ Len(SubSeq(log, from + 1, to)) = to - from
           /\ \A j \in 1 .. to - from :
                 SubSeq(log, from + 1, to)[j] = log[from + j]
<1> DEFINE new == SubSeq(log, from + 1, to)
<1>1. Len(log) \in Nat
  BY LenProperties DEF Lines
<1>2. \A k \in from + 1 .. to : log[k] \in 1 .. MAX_ROUNDS
  <2>1. \A k \in 1 .. Len(log) : log[k] \in 1 .. MAX_ROUNDS
    BY ElementOfSeq DEF Lines
  <2> QED
    BY <1>1, <2>1
<1>3. /\ new \in Lines
      /\ Len(new) = IF from + 1 <= to THEN to - (from + 1) + 1 ELSE 0
      /\ \A i \in 1 .. to - (from + 1) + 1 : new[i] = log[from + 1 + i - 1]
  BY <1>2, SubSeqProperties DEF Lines
<1> HIDE DEF new
<1>4. Len(new) = to - from
  BY <1>3
<1>5. ASSUME NEW j \in 1 .. to - from
      PROVE  new[j] = log[from + j]
  <2>1. j \in 1 .. to - (from + 1) + 1 /\ from + 1 + j - 1 = from + j
    OBVIOUS
  <2> QED
    BY <1>3, <2>1
<1> QED
  BY <1>3, <1>4, <1>5 DEF new

\* With those before them they are the first lines of the log.
LEMMA FirstLines ==
    ASSUME NEW log \in Lines, NEW from \in Nat, NEW to \in Nat,
           from <= to, to <= Len(log)
    PROVE  FirstOf(log, from) \cup ToSet(SubSeq(log, from + 1, to)) =
           FirstOf(log, to)
<1> DEFINE new == SubSeq(log, from + 1, to)
<1>1. new \in Lines /\ Len(new) = to - from
  BY MiddleOfLog
<1>2. \A j \in 1 .. to - from : new[j] = log[from + j]
  BY MiddleOfLog
<1> HIDE DEF new
<1>3. DOMAIN new = 1 .. to - from
  BY <1>1, LenProperties DEF Lines
<1>4. ASSUME NEW x \in FirstOf(log, from) \cup ToSet(new)
      PROVE  x \in FirstOf(log, to)
  <2>1. CASE x \in FirstOf(log, from)
    BY <2>1 DEF FirstOf
  <2>2. CASE x \in ToSet(new)
    <3>1. PICK j \in 1 .. to - from : x = new[j]
      BY <1>3, <2>2 DEF ToSet
    <3>2. x = log[from + j] /\ from + j \in 1 .. to
      BY <1>2, <3>1
    <3> QED
      BY <3>2 DEF FirstOf
  <2> QED
    BY <1>4, <2>1, <2>2
<1>5. ASSUME NEW x \in FirstOf(log, to)
      PROVE  x \in FirstOf(log, from) \cup ToSet(new)
  <2>1. PICK k \in 1 .. to : x = log[k]
    BY DEF FirstOf
  <2>2. CASE k <= from
    <3>1. k \in 1 .. from
      BY <2>2
    <3> QED
      BY <2>1, <3>1 DEF FirstOf
  <2>3. CASE ~(k <= from)
    <3>1. k - from \in 1 .. to - from /\ from + (k - from) = k
      BY <2>3
    <3>2. new[k - from] = log[k]
      BY <1>2, <3>1
    <3> QED
      BY <1>3, <2>1, <3>1, <3>2 DEF ToSet
  <2> QED
    BY <2>2, <2>3
<1>6. FirstOf(log, from) \cup ToSet(new) = FirstOf(log, to)
  BY <1>4, <1>5
<1> QED
  BY <1>6 DEF new

\* A log that grows keeps the lines that were there.
LEMMA PrefixElements ==
    ASSUME NEW s \in Lines, NEW t \in Lines, IsPrefix(s, t)
    PROVE  /\ Len(s) \in Nat /\ Len(t) \in Nat /\ Len(s) <= Len(t)
           /\ \A k \in 1 .. Len(s) : t[k] = s[k]
<1>1. Len(s) \in Nat /\ Len(t) \in Nat /\ Len(s) <= Len(t)
  BY LenProperties DEF IsPrefix, Lines
<1>2. \A i \in 1 .. Len(t) : t[i] \in 1 .. MAX_ROUNDS
  BY ElementOfSeq DEF Lines
<1>3. \A i \in 1 .. Len(s) : t[i] \in 1 .. MAX_ROUNDS
  BY <1>1, <1>2
<1>4. ASSUME NEW k \in 1 .. Len(s)
      PROVE  t[k] = s[k]
  <2>1. SubSeq(t, 1, Len(s)) = s
    BY SubSeqFull DEF IsPrefix, Lines
  <2>2. SubSeq(t, 1, Len(s))[k] = t[1 + k - 1]
    BY <1>1, <1>3, SubSeqProperties
  <2>3. 1 + k - 1 = k
    BY <1>1
  <2> QED
    BY <2>1, <2>2, <2>3
<1> QED
  BY <1>1, <1>4

\* What is appended to a file changes nothing of what was served of it.
LEMMA GrowingKeeps ==
    ASSUME SensorLogAssumption, NEW s \in Lines, NEW t \in Lines,
           IsPrefix(s, t), NEW got \in Seq(0 .. MAX_ROUNDS),
           NEW lost \in Lines, NEW to \in Nat, NEW cells \in Cells,
           InOrder(s, got, lost)
    PROVE  /\ InOrder(t, got, lost)
           /\ Holds(s, Len(got) + Len(lost), to, cells, got) =>
                 Holds(t, Len(got) + Len(lost), to, cells, got)
<1> DEFINE from == Len(got) + Len(lost)
<1>1. /\ Len(s) \in Nat /\ Len(t) \in Nat /\ Len(s) <= Len(t)
      /\ \A k \in 1 .. Len(s) : t[k] = s[k]
  BY PrefixElements
<1>2. from \in Nat /\ MAX_READ_BYTES \in Nat
  BY LenProperties DEF Lines, SensorLogAssumption
<1>3. from <= Len(s)
  BY DEF InOrder
<1> HIDE DEF from
<1>4. FirstOf(t, from) = FirstOf(s, from)
  <2>1. \A k \in 1 .. from : t[k] = s[k]
    BY <1>1, <1>2, <1>3
  <2> QED
    BY <2>1 DEF FirstOf
<1>5. InOrder(t, got, lost)
  BY <1>1, <1>2, <1>3, <1>4 DEF InOrder, from
<1>6. ASSUME Holds(s, from, to, cells, got)
      PROVE  Holds(t, from, to, cells, got)
  <2>1. from <= to /\ to <= Len(s) /\ to <= from + MAX_READ_BYTES
    BY <1>6 DEF Holds
  <2>2. ASSUME NEW j \in 1 .. MAX_READ_BYTES
        PROVE  IF j <= to - from THEN cells[j] = t[from + j]
               ELSE cells[j] = 0 \/ cells[j] \in ToSet(got)
    <3>1. IF j <= to - from THEN cells[j] = s[from + j]
          ELSE cells[j] = 0 \/ cells[j] \in ToSet(got)
      BY <1>6 DEF Holds
    <3>2. CASE j <= to - from
      <4>1. from + j \in 1 .. Len(s)
        BY <1>1, <1>2, <2>1, <3>2
      <4> QED
        BY <1>1, <3>1, <3>2, <4>1
    <3> QED
      BY <3>1, <3>2
  <2> QED
    BY <1>1, <2>1, <2>2 DEF Holds
<1> QED
  BY <1>5, <1>6 DEF from

\* A write puts the next lines in the characteristic, when the gateway has or
\* has missed what was in it.
LEMMA WriteHolds ==
    ASSUME SensorLogAssumption, NEW log \in Lines,
           NEW got \in Seq(0 .. MAX_ROUNDS), NEW from \in Nat,
           NEW cells \in Cells, Holds(log, from, from, cells, got),
           NEW to \in Nat, from <= to, to <= Len(log),
           to <= from + MAX_READ_BYTES
    PROVE  Holds(log, from, to,
                 Overwritten(cells, SubSeq(log, from + 1, to)), got)
<1> DEFINE lines == SubSeq(log, from + 1, to)
<1>1. /\ Len(lines) = to - from
      /\ \A j \in 1 .. to - from : lines[j] = log[from + j]
  BY MiddleOfLog
<1> HIDE DEF lines
<1>2. ASSUME NEW j \in 1 .. MAX_READ_BYTES
      PROVE  IF j <= to - from
             THEN Overwritten(cells, lines)[j] = log[from + j]
             ELSE \/ Overwritten(cells, lines)[j] = 0
                  \/ Overwritten(cells, lines)[j] \in ToSet(got)
  <2>1. Overwritten(cells, lines)[j] =
           IF j <= to - from THEN lines[j] ELSE cells[j]
    BY <1>1 DEF Overwritten
  <2>2. CASE j <= to - from
    <3>1. j \in 1 .. to - from
      BY <2>2
    <3> QED
      BY <1>1, <2>1, <2>2, <3>1
  <2>3. CASE ~(j <= to - from)
    <3>1. ~(j <= from - from)
      OBVIOUS
    <3>2. cells[j] = 0 \/ cells[j] \in ToSet(got)
      BY <3>1 DEF Holds
    <3> QED
      BY <2>1, <2>3, <3>2
  <2> QED
    BY <2>2, <2>3
<1> QED
  BY <1>2 DEF Holds, lines

\* A write that fails: its lines are missed, and the characteristic holds
\* what it held.
LEMMA MissHolds ==
    ASSUME SensorLogAssumption, NEW log \in Lines,
           NEW got \in Seq(0 .. MAX_ROUNDS), NEW lost \in Lines,
           NEW cells \in Cells, InOrder(log, got, lost), NEW from \in Nat,
           from = Len(got) + Len(lost), Holds(log, from, from, cells, got),
           NEW to \in Nat, from <= to, to <= Len(log),
           NEW all, all = lost \o SubSeq(log, from + 1, to)
    PROVE  InPlace(log, got, all, to, cells)
<1> DEFINE lines == SubSeq(log, from + 1, to)
<1>1. /\ lines \in Lines /\ Len(lines) = to - from
      /\ FirstOf(log, from) \cup ToSet(lines) = FirstOf(log, to)
  <2>1. lines \in Lines /\ Len(lines) = to - from
    BY MiddleOfLog
  <2>2. FirstOf(log, from) \cup ToSet(lines) = FirstOf(log, to)
    BY FirstLines
  <2> QED
    BY <2>1, <2>2
<1>2. Len(all) = Len(lost) + Len(lines)
      /\ ToSet(all) = ToSet(lost) \cup ToSet(lines)
  <2>1. all = lost \o lines
    OBVIOUS
  <2> HIDE DEF lines
  <2>2. lines \in Seq(1 .. MAX_ROUNDS) /\ lost \in Seq(1 .. MAX_ROUNDS)
    BY <1>1 DEF Lines
  <2>3. Len(lost \o lines) = Len(lost) + Len(lines)
    BY <2>2, ConcatProperties
  <2>4. ToSet(lost \o lines) = ToSet(lost) \cup ToSet(lines)
    BY <2>2, ElementsOfConcat
  <2> QED
    BY <2>1, <2>3, <2>4
<1> HIDE DEF lines
<1>3. Len(got) \in Nat /\ Len(lost) \in Nat /\ Len(lines) \in Nat
  BY <1>1, LenProperties DEF Lines
<1>4. Len(got) + Len(all) = to
  BY <1>1, <1>2, <1>3
<1>5. InOrder(log, got, all)
  <2>1. ToSet(got) \cup ToSet(lost) = FirstOf(log, from)
        /\ Ascending(got)
    BY DEF InOrder
  <2>2. ToSet(got) \cup ToSet(all) = FirstOf(log, to)
    BY <1>1, <1>2, <2>1
  <2> QED
    BY <1>4, <2>1, <2>2 DEF InOrder
<1>6. Holds(log, to, to, cells, got)
  <2>1. ASSUME NEW j \in 1 .. MAX_READ_BYTES
        PROVE  ~(j <= to - to) /\ (cells[j] = 0 \/ cells[j] \in ToSet(got))
    <3>1. ~(j <= from - from) /\ ~(j <= to - to)
      OBVIOUS
    <3> QED
      BY <3>1 DEF Holds
  <2>2. to <= to + MAX_READ_BYTES
    BY DEF SensorLogAssumption
  <2> QED
    BY <2>1, <2>2 DEF Holds
<1> QED
  BY <1>4, <1>5, <1>6 DEF InPlace

\* cells[n] is the last of them that the gateway does not have.
NewUpTo(cells, got, n) ==
    /\ n \in 0 .. MAX_READ_BYTES
    /\ n > 0 => cells[n] # 0 /\ cells[n] \notin ToSet(got)
    /\ \A k \in n + 1 .. MAX_READ_BYTES :
          cells[k] = 0 \/ cells[k] \in ToSet(got)

\* The first n cells are the lines of the log behind from, up to to.
Shows(cells, n, log, from, to) ==
    SubSeq(cells, 1, n) = SubSeq(log, from + 1, to)

\* What a read adds to the lines of the gateway is what was written last: the
\* lines of a log are all different, so what it has not is new.
LEMMA ReadGivesNext ==
    ASSUME SensorLogAssumption, NEW log \in Lines, Ascending(log),
           NEW got \in Seq(0 .. MAX_ROUNDS), NEW lost \in Lines,
           NEW cells \in Cells, InOrder(log, got, lost), NEW from \in Nat,
           from = Len(got) + Len(lost), NEW to \in Nat,
           Holds(log, from, to, cells, got), NEW n, NewUpTo(cells, got, n)
    PROVE  Shows(cells, n, log, from, to)
<1>1. /\ from <= to /\ to <= Len(log) /\ to <= from + MAX_READ_BYTES
      /\ Len(log) \in Nat /\ MAX_READ_BYTES \in Nat
      /\ n \in 0 .. MAX_READ_BYTES
  BY LenProperties DEF Holds, Lines, SensorLogAssumption, NewUpTo
<1>2. \A k \in 1 .. Len(log) : log[k] \in 1 .. MAX_ROUNDS
  BY ElementOfSeq DEF Lines
<1>3. DOMAIN log = 1 .. Len(log)
  BY LenProperties DEF Lines
<1>4. ASSUME NEW k \in from + 1 .. to
      PROVE  log[k] # 0 /\ log[k] \notin ToSet(got)
  <2>1. k \in 1 .. Len(log) /\ log[k] \in 1 .. MAX_ROUNDS
    BY <1>1, <1>2
  <2>2. ASSUME NEW m \in 1 .. from
        PROVE  log[m] # log[k]
    <3>1. m \in 1 .. Len(log) /\ m < k
      BY <1>1
    <3>2. log[m] \in 1 .. MAX_ROUNDS /\ log[m] < log[k]
      BY <1>2, <1>3, <2>1, <3>1 DEF Ascending
    <3> QED
      BY <2>1, <3>2
  <2>3. ToSet(got) \subseteq FirstOf(log, from)
    BY DEF InOrder
  <2> QED
    BY <2>1, <2>2, <2>3 DEF FirstOf
<1>5. ASSUME NEW j \in 1 .. MAX_READ_BYTES
      PROVE  IF j <= to - from THEN cells[j] = log[from + j]
             ELSE cells[j] = 0 \/ cells[j] \in ToSet(got)
  BY DEF Holds
<1>6. n = to - from
  <2>1. CASE n > to - from
    <3>1. n \in 1 .. MAX_READ_BYTES /\ ~(n <= to - from) /\ n > 0
      BY <1>1, <2>1
    <3> QED
      BY <1>5, <3>1 DEF NewUpTo
  <2>2. CASE n < to - from
    <3> DEFINE k == to - from
    <3>1. /\ k \in 1 .. MAX_READ_BYTES /\ k <= to - from
          /\ k \in n + 1 .. MAX_READ_BYTES /\ from + k \in from + 1 .. to
      BY <1>1, <2>2
    <3>2. cells[k] = log[from + k]
      BY <1>5, <3>1
    <3>3. cells[k] = 0 \/ cells[k] \in ToSet(got)
      BY <3>1 DEF NewUpTo
    <3>4. log[from + k] # 0 /\ log[from + k] \notin ToSet(got)
      BY <1>4, <3>1
    <3> QED
      BY <3>2, <3>3, <3>4
  <2> QED
    BY <1>1, <2>1, <2>2
<1>7. /\ SubSeq(log, from + 1, to) \in Lines
      /\ Len(SubSeq(log, from + 1, to)) = n
      /\ \A j \in 1 .. n : SubSeq(log, from + 1, to)[j] = log[from + j]
  <2>1. from <= to /\ to <= Len(log)
    BY <1>1
  <2>2. SubSeq(log, from + 1, to) \in Lines
        /\ Len(SubSeq(log, from + 1, to)) = to - from
    BY <2>1, MiddleOfLog
  <2>3. \A j \in 1 .. to - from :
           SubSeq(log, from + 1, to)[j] = log[from + j]
    BY <2>1, MiddleOfLog
  <2> QED
    BY <1>6, <2>2, <2>3, Zenon
<1>8. SubSeq(log, from + 1, to) \in Seq(0 .. MAX_ROUNDS)
  <2>1. 1 .. MAX_ROUNDS \subseteq 0 .. MAX_ROUNDS
    OBVIOUS
  <2> QED
    BY <1>7, <2>1, SeqMonotonic DEF Lines
<1>9. /\ SubSeq(cells, 1, n) \in Seq(0 .. MAX_ROUNDS)
      /\ Len(SubSeq(cells, 1, n)) = n
      /\ \A j \in 1 .. n : SubSeq(cells, 1, n)[j] = cells[j]
  <2>1. \A j \in 1 .. n : cells[j] \in 0 .. MAX_ROUNDS
    BY <1>1 DEF Cells
  <2>2. /\ SubSeq(cells, 1, n) \in Seq(0 .. MAX_ROUNDS)
        /\ Len(SubSeq(cells, 1, n)) = IF 1 <= n THEN n - 1 + 1 ELSE 0
        /\ \A j \in 1 .. n - 1 + 1 :
              SubSeq(cells, 1, n)[j] = cells[1 + j - 1]
    BY <1>1, <2>1, SubSeqProperties
  <2>3. n - 1 + 1 = n /\ \A j \in 1 .. n : 1 + j - 1 = j
    BY <1>1
  <2> QED
    BY <1>1, <2>2, <2>3
<1>10. ASSUME NEW j \in 1 .. n
       PROVE  SubSeq(cells, 1, n)[j] = SubSeq(log, from + 1, to)[j]
  <2>1. j \in 1 .. MAX_READ_BYTES /\ j <= to - from
    BY <1>1, <1>6
  <2> QED
    BY <1>5, <1>7, <1>9, <2>1
<1> QED
  BY <1>7, <1>8, <1>9, <1>10, SeqEqual DEF Shows

\* Where lines stand that come before the k-th of two sequences on end.
LEMMA EarlierPlace ==
    /\ \A from, n, len \in Nat :
          \A j, k \in 1 .. len + n :
             ~(j <= len) /\ j < k =>
                /\ j - len \in 1 .. n
                /\ from + (j - len) \in 1 .. from + (k - len) - 1
    /\ \A from \in Nat : \A m \in Nat \ {0} :
          \A i \in 1 .. from : i \in 1 .. from + m - 1
    /\ \A from, to, top, len \in Nat :
          \A k \in 1 .. len + (to - from) :
             ~(k <= len) /\ from <= to /\ to <= top =>
                /\ k - len \in 1 .. to - from /\ k - len \in Nat \ {0}
                /\ from + (k - len) \in 1 .. top
OBVIOUS

\* A gateway with the lines got has the lines all then, and all up to to.
Gets(log, got, lost, all, from, to, cells) ==
    /\ all = got \o SubSeq(log, from + 1, to)
    /\ InPlace(log, all, lost, to, cells)

\* The gateway, which gets these lines, has its lines in order then.
LEMMA ReadKeepsOrder ==
    ASSUME SensorLogAssumption, NEW log \in Lines, Ascending(log),
           NEW got \in Seq(0 .. MAX_ROUNDS), NEW lost \in Lines,
           NEW cells \in Cells, InOrder(log, got, lost), NEW from \in Nat,
           from = Len(got) + Len(lost), NEW to \in Nat,
           Holds(log, from, to, cells, got), NEW n, NewUpTo(cells, got, n),
           NEW all, all = got \o SubSeq(cells, 1, n)
    PROVE  Gets(log, got, lost, all, from, to, cells)
<1> DEFINE new == SubSeq(log, from + 1, to)
<1>1. /\ from <= to /\ to <= Len(log) /\ to <= from + MAX_READ_BYTES
      /\ Len(log) \in Nat /\ MAX_READ_BYTES \in Nat
      /\ DOMAIN log = 1 .. Len(log)
  BY LenProperties DEF Holds, Lines, SensorLogAssumption
<1>2. /\ new \in Lines /\ Len(new) = to - from
      /\ \A j \in 1 .. to - from : new[j] = log[from + j]
      /\ FirstOf(log, from) \cup ToSet(new) = FirstOf(log, to)
  <2>1. from <= to /\ to <= Len(log)
    BY <1>1
  <2>2. new \in Lines /\ Len(new) = to - from
    BY <2>1, MiddleOfLog
  <2>3. \A j \in 1 .. to - from : new[j] = log[from + j]
    BY <2>1, MiddleOfLog
  <2>4. FirstOf(log, from) \cup ToSet(new) = FirstOf(log, to)
    BY <2>1, FirstLines
  <2> QED
    BY <2>2, <2>3, <2>4, Zenon
<1>3. all = got \o new
  <2>1. Shows(cells, n, log, from, to)
    BY ReadGivesNext
  <2> QED
    BY <2>1 DEF Shows
<1> HIDE DEF new
<1>4. new \in Seq(0 .. MAX_ROUNDS)
  <2>1. 1 .. MAX_ROUNDS \subseteq 0 .. MAX_ROUNDS
    OBVIOUS
  <2> QED
    BY <1>2, <2>1, SeqMonotonic DEF Lines
<1>5. /\ all \in Seq(0 .. MAX_ROUNDS) /\ Len(all) = Len(got) + Len(new)
      /\ \A i \in 1 .. Len(got) + Len(new) :
            all[i] = IF i <= Len(got) THEN got[i] ELSE new[i - Len(got)]
      /\ ToSet(all) = ToSet(got) \cup ToSet(new)
  <2>1. /\ all \in Seq(0 .. MAX_ROUNDS) /\ Len(all) = Len(got) + Len(new)
        /\ \A i \in 1 .. Len(got) + Len(new) :
              all[i] = IF i <= Len(got) THEN got[i] ELSE new[i - Len(got)]
    <3>1. /\ got \o new \in Seq(0 .. MAX_ROUNDS)
          /\ Len(got \o new) = Len(got) + Len(new)
          /\ \A i \in 1 .. Len(got) + Len(new) :
                (got \o new)[i] =
                   IF i <= Len(got) THEN got[i] ELSE new[i - Len(got)]
      BY <1>4, ConcatProperties
    <3> QED
      BY <1>3, <3>1, Zenon
  <2>2. ToSet(got \o new) = ToSet(got) \cup ToSet(new)
    BY <1>4, ElementsOfConcat
  <2>3. ToSet(all) = ToSet(got) \cup ToSet(new)
    BY <1>3, <2>2, Zenon
  <2> QED
    BY <2>1, <2>3, Zenon
<1>6. Len(got) \in Nat /\ Len(lost) \in Nat /\ Len(new) \in Nat
      /\ DOMAIN got = 1 .. Len(got) /\ DOMAIN all = 1 .. Len(got) + Len(new)
  BY <1>4, <1>5, LenProperties DEF Lines
<1>7. Len(all) + Len(lost) = to
  BY <1>2, <1>5, <1>6
<1>8. /\ ToSet(got) \cup ToSet(lost) = FirstOf(log, from)
      /\ Ascending(got)
  BY DEF InOrder
<1>9. ToSet(all) \cup ToSet(lost) = FirstOf(log, to)
  BY <1>2, <1>5, <1>8
<1>10. ASSUME NEW j \in DOMAIN all, NEW k \in DOMAIN all, j < k
       PROVE  all[j] < all[k]
  <2>1. CASE k <= Len(got)
    <3>1. j \in DOMAIN got /\ k \in DOMAIN got /\ j <= Len(got)
      BY <1>6, <1>10, <2>1
    <3>2. all[j] = got[j] /\ all[k] = got[k]
      BY <1>5, <1>6, <2>1, <3>1
    <3> QED
      BY <1>8, <1>10, <3>1, <3>2 DEF Ascending
  <2>2. CASE ~(k <= Len(got))
    <3> DEFINE m == k - Len(got)
    <3>1. /\ Len(new) = to - from /\ to \in Nat /\ from \in Nat
          /\ from <= to /\ to <= Len(log) /\ DOMAIN log = 1 .. Len(log)
          /\ k \in 1 .. Len(got) + Len(new) /\ j \in 1 .. Len(got) + Len(new)
          /\ Len(got) \in Nat /\ Len(log) \in Nat
      BY <1>1, <1>2, <1>6
    <3>2. k \in 1 .. Len(got) + (to - from)
      BY <3>1
    <3>3. m \in 1 .. to - from /\ from + m \in DOMAIN log /\ m \in Nat \ {0}
      BY <2>2, <3>1, <3>2, EarlierPlace, Zenon
    <3>4. all[k] = log[from + m]
      BY <1>2, <1>5, <2>2, <3>1, <3>3
    <3>5. PICK i \in 1 .. from + m - 1 : all[j] = log[i]
      <4>1. CASE j <= Len(got)
        <5>1. j \in DOMAIN got /\ all[j] = got[j]
          BY <1>5, <1>6, <4>1
        <5>2. got[j] \in FirstOf(log, from)
          BY <1>8, <5>1 DEF ToSet
        <5>3. PICK i \in 1 .. from : got[j] = log[i]
          BY <5>2 DEF FirstOf
        <5>4. i \in 1 .. from + m - 1
          BY <3>3, EarlierPlace, Zenon
        <5> QED
          BY <5>1, <5>3, <5>4
      <4>2. CASE ~(j <= Len(got))
        <5>1. /\ j - Len(got) \in 1 .. to - from
              /\ from + (j - Len(got)) \in 1 .. from + m - 1
          <6>1. j < k /\ Len(new) \in Nat
            BY <1>6, <1>10
          <6>2. /\ j - Len(got) \in 1 .. Len(new)
                /\ from + (j - Len(got)) \in 1 .. from + (k - Len(got)) - 1
            BY <3>1, <4>2, <6>1, EarlierPlace, Zenon
          <6> QED
            BY <3>1, <6>2
        <5>2. all[j] = log[from + (j - Len(got))]
          BY <1>2, <1>5, <1>6, <4>2, <5>1
        <5> QED
          BY <5>1, <5>2
      <4> QED
        BY <4>1, <4>2
    <3> HIDE DEF m
    <3>6. i \in DOMAIN log /\ i < from + m
      <4>1. /\ from \in Nat /\ m \in Nat /\ Len(log) \in Nat
            /\ from + m <= Len(log) /\ i \in 1 .. from + m - 1
        BY <3>1, <3>3, <3>5
      <4>2. i \in 1 .. Len(log) /\ i < from + m
        BY <4>1
      <4> QED
        BY <3>1, <4>2
    <3> QED
      BY <3>3, <3>4, <3>5, <3>6 DEF Ascending
  <2> QED
    BY <2>1, <2>2
<1>11. InOrder(log, all, lost)
  <2>1. Ascending(all)
    BY <1>10 DEF Ascending
  <2> QED
    BY <1>1, <1>7, <1>9, <2>1 DEF InOrder
<1>12. Holds(log, to, to, cells, all)
  <2>1. ASSUME NEW j \in 1 .. MAX_READ_BYTES
        PROVE  cells[j] = 0 \/ cells[j] \in ToSet(all)
    <3>1. IF j <= to - from THEN cells[j] = log[from + j]
          ELSE cells[j] = 0 \/ cells[j] \in ToSet(got)
      BY DEF Holds
    <3>2. CASE j <= to - from
      <4>1. j \in 1 .. to - from /\ j \in DOMAIN new
        BY <1>2, <3>2, LenProperties DEF Lines
      <4>2. cells[j] = new[j]
        BY <1>2, <3>1, <3>2, <4>1
      <4> QED
        BY <1>5, <4>1, <4>2 DEF ToSet
    <3> QED
      BY <1>5, <3>1, <3>2
  <2>2. \A j \in 1 .. MAX_READ_BYTES : ~(j <= to - to)
    OBVIOUS
  <2>3. to <= to + MAX_READ_BYTES
    BY <1>1
  <2> QED
    BY <1>1, <2>1, <2>2, <2>3 DEF Holds
<1> QED
  BY <1>3, <1>7, <1>11, <1>12 DEF InPlace, Gets, new
---------------------------------------------------------------------------
(***************************************************************************)
(* The card.                                                               *)
(***************************************************************************)

\* There are finitely many files, and none on a card without a file system;
\* the lines of each were written in rounds that were, in their order.
CardInv ==
    /\ IsFiniteSet(DOMAIN files)
    /\ formatted \/ DOMAIN files = {}
    /\ \A f \in DOMAIN files : files[f] \in Written(MAX_ROUNDS - rounds)

\* Finitely many log files of the beacons, each with contents in S.
CardTypes(Files, S) ==
    /\ DOMAIN Files \subseteq FilePaths
    /\ \A f \in DOMAIN Files : Files[f] \in S
    /\ IsFiniteSet(DOMAIN Files)

\* No file is shorter than it was.
Extends(Files, Old) ==
    \A f \in DOMAIN Old : f \in DOMAIN Files /\ IsPrefix(Old[f], Files[f])

\* An empty card has the types of CardTypes.
LEMMA NoFilesTypes ==
    ASSUME NEW S
    PROVE  CardTypes(NoFiles, S)
BY FS_EmptySet DEF CardTypes, NoFiles

\* The slots of a beacon, some or all of them, name finitely many files.
LEMMA PathsOfSlots ==
    ASSUME SensorLogAssumption, NEW b \in Beacons,
           NEW n \in 0 .. Len(SlotTypes[b])
    PROVE  /\ {Path(b, i) : i \in 1 .. n} \subseteq FilePaths
           /\ IsFiniteSet({Path(b, i) : i \in 1 .. n})
<1> DEFINE T == {Path(b, i) : i \in 1 .. n}
           f == [i \in 1 .. n |-> Path(b, i)]
<1>1. SlotTypes[b] \in Seq({1, 2})
  BY DEF SensorLogAssumption
<1>2. Len(SlotTypes[b]) \in Nat /\ DOMAIN SlotTypes[b] = 1 .. Len(SlotTypes[b])
  BY <1>1, LenProperties
<1>3. T \subseteq FilesOf(b)
  BY <1>2 DEF Path, FilesOf
<1>4. T \subseteq FilePaths
  BY <1>3 DEF FilePaths
<1>5. f \in Surjection(1 .. n, T)
  BY DEF Surjection
<1>6. IsFiniteSet(1 .. n)
  BY <1>2, FS_Interval
<1> QED
  BY <1>4, <1>5, <1>6, FS_Surjection

\* A round appends: it shortens no file, and its line is newer than all.
LEMMA AppendedExtends ==
    ASSUME SensorLogAssumption, NEW b \in Beacons, rounds \in 1 .. MAX_ROUNDS,
           CardTypes(files, Written(MAX_ROUNDS - rounds)),
           NEW n \in 0 .. Len(SlotTypes[b]), NEW written \in SUBSET (1 .. n),
           NEW new, new = Appended(b, 1 .. n, written)
    PROVE  /\ CardTypes(new, Written(MAX_ROUNDS - rounds + 1))
           /\ Extends(new, files)
<1> DEFINE paths == {Path(b, i) : i \in 1 .. n}
           last == MAX_ROUNDS - rounds
<1>1. paths \subseteq FilePaths /\ IsFiniteSet(paths)
  BY PathsOfSlots
<1>2. DOMAIN new = DOMAIN files \cup paths
  BY DEF Appended
<1>3. IsFiniteSet(DOMAIN new) /\ DOMAIN new \subseteq FilePaths
  <2>1. IsFiniteSet(DOMAIN files) /\ DOMAIN files \subseteq FilePaths
    BY DEF CardTypes
  <2> HIDE DEF paths
  <2>2. IsFiniteSet(DOMAIN files \cup paths)
    BY <1>1, <2>1, FS_Union
  <2> QED
    BY <1>1, <1>2, <2>1, <2>2
<1>4. last \in Nat /\ last + 1 \in 1 .. MAX_ROUNDS
  BY DEF SensorLogAssumption
<1>5. ASSUME NEW f \in DOMAIN new
      PROVE  /\ new[f] \in Written(last + 1)
             /\ f \in DOMAIN files => IsPrefix(files[f], new[f])
  <2> DEFINE old == IF f \in DOMAIN files THEN files[f] ELSE <<>>
  <2>1. <<>> \in Written(last)
    <3>1. DOMAIN <<>> = {} /\ <<>> \in Seq(1 .. last)
      BY EmptySeq
    <3> QED
      BY <3>1 DEF Written, Ascending
  <2>2. old \in Written(last)
    BY <2>1 DEF CardTypes
  <2>3. new[f] = Append(old, last + 1) \/ new[f] = old
    BY <1>2 DEF Appended
  <2>4. f \in DOMAIN files => old = files[f]
    OBVIOUS
  <2> HIDE DEF old, last
  <2>5. /\ old \in Written(last + 1)
        /\ Append(old, last + 1) \in Written(last + 1)
    BY <1>4, <2>2, WrittenGrows
  <2>6. old \in Seq(1 .. last + 1)
    BY <2>5 DEF Written
  <2>7. last + 1 \in 1 .. last + 1
    BY <1>4
  <2>8. IsPrefix(old, Append(old, last + 1)) /\ IsPrefix(old, old)
    BY <2>6, <2>7, PrefixOfAppend
  <2> QED
    BY <2>3, <2>4, <2>5, <2>8
<1>6. Extends(new, files)
  BY <1>2, <1>5 DEF Extends
<1>7. CardTypes(new, Written(last + 1))
  BY <1>3, <1>5 DEF CardTypes
<1> QED
  BY <1>6, <1>7

\* The files after some steps of the program: none is shorter, and the lines
\* of each are those of rounds that were.
CardGrows ==
    /\ CardTypes(files', Written(MAX_ROUNDS - rounds'))
    /\ Extends(files', files)
    /\ DOMAIN files' = {} \/ formatted

\* The card as it is, in the terms of the lemmas above.
LEMMA CardIsTyped ==
    ASSUME TypeOK, CardInv
    PROVE  CardTypes(files, Written(MAX_ROUNDS - rounds))
BY DEF TypeOK, CardInv, CardTypes

\* A card that is not written grows by nothing, a round before or behind.
LEMMA NothingAppended ==
    ASSUME SensorLogAssumption, TypeOK, CardInv, files' = files,
           rounds' = rounds \/ (rounds > 0 /\ rounds' = rounds - 1)
    PROVE  CardGrows
<1> DEFINE last == MAX_ROUNDS - rounds
<1>1. /\ last \in 0 .. MAX_ROUNDS
      /\ MAX_ROUNDS - rounds' = last \/ MAX_ROUNDS - rounds' = last + 1
  BY DEF TypeOK, SensorLogAssumption
<1>2. CardTypes(files, Written(last))
  BY CardIsTyped
<1> HIDE DEF last
<1>3. last \in Nat
  BY <1>1
<1>4. \A f \in DOMAIN files :
         files[f] \in Written(last) /\ files[f] \in Written(last + 1)
  BY <1>2, <1>3, WrittenGrows DEF CardTypes
<1>5. CardTypes(files', Written(MAX_ROUNDS - rounds'))
  BY <1>1, <1>2, <1>4 DEF CardTypes
<1>6. Extends(files', files)
  <2>1. \A f \in DOMAIN files : files[f] \in Seq(1 .. MAX_ROUNDS)
    BY DEF TypeOK, Lines
  <2> QED
    BY <2>1, PrefixOfAppend DEF Extends
<1> QED
  BY <1>5, <1>6 DEF CardGrows, CardInv

\* What was appended in a round, by which the card grows.
LEMMA SomeAppended ==
    ASSUME SensorLogAssumption, TypeOK, CardInv, NEW b \in Beacons,
           ready_to_write, rounds > 0, rounds' = rounds - 1,
           NEW n \in 0 .. Len(SlotTypes[b]), NEW written \in SUBSET (1 .. n),
           files' = Appended(b, 1 .. n, written)
    PROVE  CardGrows
<1>1. rounds \in 1 .. MAX_ROUNDS /\ MAX_ROUNDS \in Nat
  BY DEF TypeOK, SensorLogAssumption
<1>2. CardTypes(files, Written(MAX_ROUNDS - rounds))
  BY CardIsTyped
<1>3. /\ CardTypes(files', Written(MAX_ROUNDS - rounds + 1))
      /\ Extends(files', files)
  BY <1>1, <1>2, AppendedExtends
<1>4. MAX_ROUNDS - rounds' = MAX_ROUNDS - rounds + 1
  BY <1>1
<1>5. formatted
  BY Zenon DEF TypeOK
<1> QED
  BY <1>3, <1>4, <1>5 DEF CardGrows

\* The same for record_beacon, whatever fails in it.
LEMMA RoundExtends ==
    ASSUME SensorLogAssumption, TypeOK, CardInv, NEW b \in Beacons,
           record_beacon(b)
    PROVE  CardGrows /\ faults' \in 0 .. MAX_FAULTS
<1>1. faults \in 0 .. MAX_FAULTS /\ rounds > 0 /\ rounds' = rounds - 1
  BY DEF record_beacon, TypeOK
<1>2. CASE ~ready_to_write
  <2>1. files' = files /\ faults' = faults
    BY <1>2 DEF record_beacon
  <2> QED
    BY <1>1, <2>1, NothingAppended
<1>3. CASE ready_to_write
  <2>1. PICK n \in 0 .. Len(SlotTypes[b]) : \E lost \in SUBSET (1 .. n) :
               LET cost == Cardinality(lost)
                             + (IF n < Len(SlotTypes[b]) THEN 1 ELSE 0)
               IN  /\ cost <= faults
                   /\ faults' = faults - cost
                   /\ files' = Appended(b, 1 .. n, (1 .. n) \ lost)
    BY <1>3 DEF record_beacon
  <2>2. PICK lost \in SUBSET (1 .. n) :
               LET cost == Cardinality(lost)
                             + (IF n < Len(SlotTypes[b]) THEN 1 ELSE 0)
               IN  /\ cost <= faults
                   /\ faults' = faults - cost
                   /\ files' = Appended(b, 1 .. n, (1 .. n) \ lost)
    BY <2>1
  <2>3. CardGrows
    <3>1. (1 .. n) \ lost \in SUBSET (1 .. n)
      OBVIOUS
    <3>2. files' = Appended(b, 1 .. n, (1 .. n) \ lost)
      BY <2>2
    <3> QED
      BY <1>1, <1>3, <3>1, <3>2, SomeAppended
  <2>4. n \in Nat
    BY LenProperties DEF SensorLogAssumption
  <2>5. IsFiniteSet(lost)
    <3>1. IsFiniteSet(1 .. n)
      BY <2>4, FS_Interval
    <3> QED
      BY <3>1, FS_Subset
  <2>6. Cardinality(lost) \in Nat
    BY <2>5, FS_CardinalityType
  <2>7. faults' \in 0 .. MAX_FAULTS
    BY <1>1, <2>2, <2>6 DEF SensorLogAssumption
  <2> QED
    BY <2>3, <2>7
<1> QED
  BY <1>2, <1>3

\* And for a restart, also one that ends a round.
LEMMA RestartExtends ==
    ASSUME SensorLogAssumption, TypeOK, CardInv, Restart
    PROVE  CardGrows /\ rounds' \in 0 .. MAX_ROUNDS
<1>1. rounds \in 0 .. MAX_ROUNDS /\ MAX_ROUNDS \in Nat
  BY DEF TypeOK, SensorLogAssumption
<1>2. CASE UNCHANGED <<files, rounds>>
  BY <1>1, <1>2, NothingAppended
<1>3. ASSUME NEW b \in Beacons, HalfRound(b)
      PROVE  CardGrows /\ rounds' \in 0 .. MAX_ROUNDS
  <2>1. ready_to_write /\ rounds > 0 /\ rounds' = rounds - 1
    BY <1>3 DEF HalfRound
  <2>2. PICK n \in 1 .. Len(SlotTypes[b]) : \E closed \in {n - 1, n} :
           files' = Appended(b, 1 .. n, 1 .. closed)
    BY <1>3 DEF HalfRound
  <2>3. PICK closed \in {n - 1, n} : files' = Appended(b, 1 .. n, 1 .. closed)
    BY <2>2
  <2>4. Len(SlotTypes[b]) \in Nat
    BY LenProperties DEF SensorLogAssumption
  <2>5. n \in 0 .. Len(SlotTypes[b]) /\ 1 .. closed \in SUBSET (1 .. n)
    BY <2>4
  <2>6. CardGrows
    BY <2>1, <2>3, <2>5, SomeAppended
  <2> QED
    BY <1>1, <2>1, <2>6
<1> QED
  BY <1>2, <1>3 DEF Restart

\* What the card of CardGrows is in the terms of the invariant.
LEMMA GrownCard ==
    ASSUME SensorLogAssumption, CardGrows, formatted' = formatted,
           rounds' \in 0 .. MAX_ROUNDS
    PROVE  /\ CardInv'
           /\ DOMAIN files' \subseteq FilePaths
           /\ \A f \in DOMAIN files' : files'[f] \in Lines
<1>1. CardTypes(files', Written(MAX_ROUNDS - rounds'))
      /\ (DOMAIN files' = {} \/ formatted)
  BY DEF CardGrows
<1>2. CardInv'
  BY <1>1 DEF CardInv, CardTypes
<1> DEFINE last == MAX_ROUNDS - rounds'
<1>3. last \in 0 .. MAX_ROUNDS
  <2>1. MAX_ROUNDS \in Nat
    BY DEF SensorLogAssumption
  <2>2. \A r \in 0 .. MAX_ROUNDS : MAX_ROUNDS - r \in 0 .. MAX_ROUNDS
    BY <2>1
  <2> QED
    BY <2>2
<1> HIDE DEF last
<1>4. \A s \in Written(last) : s \in Lines
  BY <1>3, WrittenAreLines
<1>5. \A f \in DOMAIN files' : files'[f] \in Written(last)
  BY <1>1 DEF CardTypes, last
<1> QED
  BY <1>1, <1>2, <1>4, <1>5 DEF CardTypes

\* A reformat, that of init_sd_card or that of the button, leaves the card
\* empty or as it was.
LEMMA ReformatKeeps ==
    ASSUME SensorLogAssumption, TypeOK, CardInv, NEW n \in 0 .. MAX_FAULTS,
           Reformat(n), rounds' = rounds
    PROVE  /\ mounted' \in BOOLEAN /\ ready_to_write' \in BOOLEAN
           /\ formatted' \in BOOLEAN
           /\ ready_to_write' => mounted'
           /\ mounted' => formatted'
           /\ CardTypes(files', Lines) /\ CardInv'
           /\ faults' \in 0 .. MAX_FAULTS
<1>1. /\ CardTypes(NoFiles, Lines) /\ DOMAIN NoFiles = {}
      /\ IsFiniteSet(DOMAIN NoFiles)
  BY NoFilesTypes, FS_EmptySet DEF NoFiles
<1>2. CardTypes(files, Lines)
  BY DEF TypeOK, CardInv, CardTypes
<1>3. /\ mounted' \in BOOLEAN /\ ready_to_write' \in BOOLEAN
      /\ formatted' \in BOOLEAN
      /\ ready_to_write' => mounted'
      /\ mounted' => formatted'
  BY Zenon DEF Reformat, TypeOK
<1>4. faults' \in 0 .. MAX_FAULTS
  BY DEF Reformat, SensorLogAssumption
<1>5. files' = NoFiles \/ (files' = files /\ formatted' = formatted)
  BY DEF Reformat
<1>6. CardTypes(files', Lines) /\ CardInv'
  <2>1. CASE files' = NoFiles
    BY <1>1, <2>1 DEF CardInv
  <2>2. CASE files' = files /\ formatted' = formatted
    BY <1>2, <2>2 DEF CardInv
  <2> QED
    BY <1>5, <2>1, <2>2
<1> QED
  BY <1>3, <1>4, <1>6
---------------------------------------------------------------------------
(***************************************************************************)
(* The file server.                                                        *)
(***************************************************************************)

\* What start makes of the files it found.
LEMMA SetToSeqIsSeq ==
    ASSUME NEW S, IsFiniteSet(S)
    PROVE  SetToSeq(S) \in Seq(S) /\ Len(SetToSeq(S)) = Cardinality(S)
<1>1. Cardinality(S) \in Nat /\ ExistsBijection(1 .. Cardinality(S), S)
  BY FS_CardinalityType
<1>2. \E f \in [1 .. Cardinality(S) -> S] : IsInjective(f)
  BY <1>1 DEF ExistsBijection, Bijection, Injection
<1>3. SetToSeq(S) \in [1 .. Cardinality(S) -> S]
  BY <1>2 DEF SetToSeq
<1> QED
  BY <1>1, <1>3

\* An element of file_buff.
ServedFile == [path : FilePaths, offset : Nat]

\* A function on 1 .. n is a sequence of n elements.
LEMMA FunctionIsSeq ==
    ASSUME NEW S, NEW n \in Nat, NEW f \in [1 .. n -> S]
    PROVE  f \in Seq(S) /\ Len(f) = n
OBVIOUS

\* What the gateway got of a file.
Got == Seq(0 .. MAX_ROUNDS)

\* Serve gives each path one element of file_buff, one value and histories.
LEMMA ServeTypes ==
    ASSUME NEW paths \in Seq(FilePaths), Serve(paths),
           Len(paths) <= MAX_CHARACTERISTIC_NUM, SensorLogAssumption
    PROVE  /\ file_buff' \in Seq(ServedFile)
           /\ Len(file_buff') <= MAX_CHARACTERISTIC_NUM
           /\ value' \in Seq(Cells) /\ Len(value') = Len(file_buff')
           /\ missed' \in Seq(Lines) /\ Len(missed') = Len(file_buff')
           /\ delivered' \in Seq(Got) /\ Len(delivered') = Len(file_buff')
           /\ DOMAIN file_buff' = DOMAIN paths
<1>1. Len(paths) \in Nat /\ DOMAIN paths = 1 .. Len(paths)
  BY LenProperties
<1>2. \A i \in 1 .. Len(paths) : paths[i] \in FilePaths
  BY ElementOfSeq
<1>3. file_buff' \in [1 .. Len(paths) -> ServedFile]
  BY <1>1, <1>2 DEF Serve, ServedFile
<1>4. <<>> \in Lines /\ <<>> \in Got
  BY EmptySeq DEF Lines, Got
<1>5. [k \in 1 .. MAX_READ_BYTES |-> 0] \in Cells
  <2>1. 0 \in 0 .. MAX_ROUNDS
    BY DEF SensorLogAssumption
  <2> QED
    BY <2>1 DEF Cells
<1>6. /\ value' \in [1 .. Len(paths) -> Cells]
      /\ missed' \in [1 .. Len(paths) -> Lines]
      /\ delivered' \in [1 .. Len(paths) -> Got]
  BY <1>1, <1>4, <1>5 DEF Serve
<1>7. /\ file_buff' \in Seq(ServedFile) /\ Len(file_buff') = Len(paths)
      /\ value' \in Seq(Cells) /\ Len(value') = Len(paths)
      /\ missed' \in Seq(Lines) /\ Len(missed') = Len(paths)
      /\ delivered' \in Seq(Got) /\ Len(delivered') = Len(paths)
  BY <1>1, <1>3, <1>6, FunctionIsSeq
<1>8. DOMAIN file_buff' = DOMAIN paths
  BY <1>1, <1>3
<1> QED
  BY <1>7, <1>8

\* The lines of a log from an offset on, as many as a chunk holds: no more
\* than are there.
LEMMA NextLines ==
    ASSUME SensorLogAssumption, NEW log \in Lines, NEW from \in Nat,
           NEW chunk, chunk = SubSeq(log, from + 1,
                                     Min({Len(log), from + MAX_READ_BYTES}))
    PROVE  /\ chunk \in Lines
           /\ Len(chunk) \in 0 .. MAX_READ_BYTES
           /\ from <= Len(log) =>
                 /\ from + Len(chunk) <= Len(log)
                 /\ chunk = SubSeq(log, from + 1, from + Len(chunk))
<1> DEFINE S  == 1 .. MAX_ROUNDS
           n  == MAX_READ_BYTES
           to == IF Len(log) <= from + n THEN Len(log) ELSE from + n
<1>1. log \in Seq(S) /\ Len(log) \in Nat /\ n \in Nat
  BY LenProperties DEF Lines, SensorLogAssumption
<1> HIDE DEF S, n
<1>2. /\ to \in Nat /\ to <= Len(log) /\ to <= from + n
      /\ from <= Len(log) => from <= to
  BY <1>1
<1>3. Min({Len(log), from + n}) = to
  BY <1>1, MinOfTwo
<1> HIDE DEF to
<1>4. \A k \in from + 1 .. to : log[k] \in S
  BY <1>1, <1>2, ElementOfSeq
<1>5. chunk = SubSeq(log, from + 1, to)
  BY <1>3 DEF n
<1>6. /\ chunk \in Seq(S)
      /\ Len(chunk) = IF from + 1 <= to THEN to - (from + 1) + 1 ELSE 0
  <2>1. from + 1 \in Int /\ to \in Int
    BY <1>2
  <2>2. /\ SubSeq(log, from + 1, to) \in Seq(S)
        /\ Len(SubSeq(log, from + 1, to)) =
              IF from + 1 <= to THEN to - (from + 1) + 1 ELSE 0
    BY <1>4, <2>1, SubSeqProperties
  <2> QED
    BY <1>5, <2>2, Zenon
<1>7. from <= Len(log) => to = from + Len(chunk)
  BY <1>2, <1>6
<1>8. Len(chunk) \in 0 .. n
  BY <1>1, <1>2, <1>6
<1> QED
  BY <1>2, <1>5, <1>6, <1>7, <1>8 DEF Lines, S, n

\* What is known of a file that is served.
LEMMA ServedFileTypes ==
    ASSUME SensorLogAssumption, TypeOK, NEW i \in DOMAIN file_buff
    PROVE  /\ file_buff[i] \in ServedFile
           /\ file_buff[i].path \in FilePaths /\ file_buff[i].offset \in Nat
           /\ value[i] \in Cells /\ delivered[i] \in Got /\ missed[i] \in Lines
           /\ i \in DOMAIN value /\ i \in DOMAIN delivered
           /\ i \in DOMAIN missed
           /\ Len(delivered[i]) \in Nat /\ Len(missed[i]) \in Nat
           /\ Passed(i) \in Nat
           /\ file_buff[i].path \in DOMAIN files =>
                 Log(i) \in Lines /\ Len(Log(i)) \in Nat
<1>1. /\ file_buff \in Seq(ServedFile) /\ Len(value) = Len(file_buff)
      /\ Len(delivered) = Len(file_buff) /\ Len(missed) = Len(file_buff)
      /\ value \in Seq(Cells) /\ delivered \in Seq(Got)
      /\ missed \in Seq(Lines)
  BY DEF TypeOK, ServedFile, Got
<1>2. i \in 1 .. Len(file_buff)
  BY <1>1, LenProperties
<1>3. file_buff[i] \in ServedFile
  BY <1>1, <1>2, ElementOfSeq
<1>4. value[i] \in Cells /\ delivered[i] \in Got /\ missed[i] \in Lines
  BY <1>1, <1>2, ElementOfSeq
<1>5. i \in DOMAIN value /\ i \in DOMAIN delivered /\ i \in DOMAIN missed
  BY <1>1, <1>2, LenProperties
<1>6. Len(delivered[i]) \in Nat /\ Len(missed[i]) \in Nat
  BY <1>4, LenProperties DEF Lines, Got
<1>7. Passed(i) \in Nat
  <2>1. \A a, b \in Nat : a + b \in Nat
    OBVIOUS
  <2> QED
    BY <1>6, <2>1, Zenon DEF Passed
<1>8. ASSUME file_buff[i].path \in DOMAIN files
      PROVE  Log(i) \in Lines /\ Len(Log(i)) \in Nat
  <2>1. Log(i) \in Lines
    BY <1>8 DEF TypeOK, Log
  <2> QED
    BY <2>1, LenProperties DEF Lines
<1> QED
  BY <1>3, <1>4, <1>5, <1>6, <1>7, <1>8 DEF ServedFile

\* lines are the next ones of file i, as many as a chunk holds at most.
NextOf(i, lines) ==
    /\ lines \in Lines
    /\ Len(lines) \in 0 .. MAX_READ_BYTES
    /\ file_buff[i].offset <= Len(Log(i)) =>
          /\ file_buff[i].offset + Len(lines) <= Len(Log(i))
          /\ lines = SubSeq(Log(i), file_buff[i].offset + 1,
                            file_buff[i].offset + Len(lines))

\* A chunk is the next lines of the log.
LEMMA ChunkIsNext ==
    ASSUME SensorLogAssumption, TypeOK, NEW i \in DOMAIN file_buff,
           file_buff[i].path \in DOMAIN files
    PROVE  NextOf(i, Chunk(i))
<1>1. Log(i) \in Lines /\ file_buff[i].offset \in Nat
  BY ServedFileTypes
<1>2. Chunk(i) =
         SubSeq(Log(i), file_buff[i].offset + 1,
                Min({Len(Log(i)), file_buff[i].offset + MAX_READ_BYTES}))
  BY DEF Chunk, Log
<1> QED
  BY <1>1, <1>2, NextLines, Zenon DEF NextOf

\* And so is what fread gives of it when it falls short.
LEMMA ShortChunkIsNext ==
    ASSUME SensorLogAssumption, TypeOK, NEW i \in DOMAIN file_buff,
           file_buff[i].path \in DOMAIN files,
           NEW n \in 0 .. Len(Chunk(i)) - 1
    PROVE  NextOf(i, SubSeq(Chunk(i), 1, n))
<1> DEFINE chunk == Chunk(i)
           lines == SubSeq(chunk, 1, n)
           log   == Log(i)
           from  == file_buff[i].offset
<1>1. log \in Lines /\ Len(log) \in Nat /\ from \in Nat
  BY ServedFileTypes
<1>2. NextOf(i, chunk)
  BY ChunkIsNext
<1>3. /\ chunk \in Lines /\ Len(chunk) \in 0 .. MAX_READ_BYTES
      /\ from <= Len(log) =>
            /\ from + Len(chunk) <= Len(log)
            /\ chunk = SubSeq(log, from + 1, from + Len(chunk))
  BY <1>2 DEF NextOf
<1> HIDE DEF chunk, log, from
<1>4. /\ n \in Nat /\ n < Len(chunk) /\ Len(chunk) \in Nat
      /\ MAX_READ_BYTES \in Nat
  <2>1. MAX_READ_BYTES \in Nat
    BY DEF SensorLogAssumption
  <2> QED
    BY <1>3, <2>1 DEF chunk
<1>5. /\ lines \in Lines /\ Len(lines) = n
      /\ \A j \in 1 .. n : lines[j] = chunk[j]
  <2>1. \A j \in 1 .. Len(chunk) : chunk[j] \in 1 .. MAX_ROUNDS
    BY <1>3, ElementOfSeq DEF Lines
  <2>2. \A j \in 1 .. n : chunk[j] \in 1 .. MAX_ROUNDS
    BY <1>4, <2>1
  <2>3. /\ lines \in Seq(1 .. MAX_ROUNDS)
        /\ Len(lines) = IF 1 <= n THEN n - 1 + 1 ELSE 0
        /\ \A j \in 1 .. n - 1 + 1 : lines[j] = chunk[1 + j - 1]
    BY <1>4, <2>2, SubSeqProperties
  <2>4. n - 1 + 1 = n /\ \A j \in 1 .. n : 1 + j - 1 = j
    BY <1>4
  <2> QED
    BY <1>4, <2>3, <2>4 DEF Lines
<1>6. ASSUME from <= Len(log)
      PROVE  from + n <= Len(log) /\ lines = SubSeq(log, from + 1, from + n)
  <2> DEFINE part == SubSeq(log, from + 1, from + n)
             all  == SubSeq(log, from + 1, from + Len(chunk))
  <2>1. /\ from <= from + n /\ from + n <= Len(log) /\ from + n \in Nat
        /\ from + n - from = n
        /\ from <= from + Len(chunk) /\ from + Len(chunk) <= Len(log)
        /\ from + Len(chunk) \in Nat /\ from + Len(chunk) - from = Len(chunk)
    BY <1>1, <1>3, <1>4, <1>6
  <2>2. part \in Lines /\ Len(part) = n
    BY <1>1, <2>1, MiddleOfLog
  <2>3. \A j \in 1 .. n : part[j] = log[from + j]
    BY <1>1, <2>1, MiddleOfLog
  <2>4. \A j \in 1 .. Len(chunk) : all[j] = log[from + j]
    BY <1>1, <2>1, MiddleOfLog
  <2>5. \A j \in 1 .. n : lines[j] = part[j]
    <3>1. chunk = all /\ \A j \in 1 .. n : j \in 1 .. Len(chunk)
      BY <1>3, <1>4, <1>6
    <3> HIDE DEF part, all, lines
    <3> QED
      BY <1>5, <2>3, <2>4, <3>1
  <2> HIDE DEF part, lines
  <2>6. lines = part
    BY <1>5, <2>2, <2>5, SeqEqual DEF Lines
  <2> QED
    BY <2>1, <2>6 DEF part
<1> HIDE DEF lines
<1>7. Len(lines) \in 0 .. MAX_READ_BYTES
  BY <1>3, <1>4, <1>5
<1>8. NextOf(i, lines)
  BY <1>5, <1>6, <1>7 DEF NextOf, log, from
<1> QED
  BY <1>8 DEF lines, chunk

\* The offset moves behind lines, which are in the characteristic then or
\* missed; the other files are as they were.
WriteOf(i, lines) ==
    /\ file_buff'[i] = [path   |-> file_buff[i].path,
                        offset |-> file_buff[i].offset + Len(lines)]
    /\ \/ value'[i] = Overwritten(value[i], lines) /\ missed'[i] = missed[i]
       \/ value'[i] = value[i] /\ missed'[i] = missed[i] \o lines

\* The types of what the handler changes, and that it changes no other file.
HandlerKeeps(i) ==
    /\ file_buff' \in Seq(ServedFile) /\ Len(file_buff') = Len(file_buff)
    /\ value' \in Seq(Cells) /\ Len(value') = Len(value)
    /\ missed' \in Seq(Lines) /\ Len(missed') = Len(missed)
    /\ DOMAIN file_buff' = DOMAIN file_buff
    /\ \A j \in DOMAIN file_buff \ {i} :
          /\ value'[j] = value[j] /\ missed'[j] = missed[j]
          /\ file_buff'[j] = file_buff[j]

\* A short write leaves cells with lines, or not written.
LEMMA OverwrittenType ==
    ASSUME SensorLogAssumption, NEW cells \in Cells, NEW lines \in Lines
    PROVE  Overwritten(cells, lines) \in Cells
<1>1. \A k \in 1 .. Len(lines) : lines[k] \in 1 .. MAX_ROUNDS
  BY ElementOfSeq DEF Lines
<1>2. Len(lines) \in Nat
  BY LenProperties DEF Lines
<1>3. ASSUME NEW k \in 1 .. MAX_READ_BYTES
      PROVE  (IF k <= Len(lines) THEN lines[k] ELSE cells[k])
                \in 0 .. MAX_ROUNDS
  <2>1. CASE k <= Len(lines)
    <3>1. k \in 1 .. Len(lines)
      BY <1>2, <2>1
    <3>2. lines[k] \in 1 .. MAX_ROUNDS
      BY <1>1, <3>1
    <3> QED
      BY <2>1, <3>2
  <2>2. CASE ~(k <= Len(lines))
    BY <2>2 DEF Cells
  <2> QED
    BY <2>1, <2>2
<1> QED
  BY <1>3 DEF Overwritten, Cells

\* Lines are written, or missed, and the offset moves behind them.
LEMMA WriteChunkTypes ==
    ASSUME SensorLogAssumption, TypeOK, NEW i \in DOMAIN file_buff,
           NEW lines \in Lines, WriteChunk(i, lines)
    PROVE  HandlerKeeps(i) /\ WriteOf(i, lines)
<1> DEFINE file == [path   |-> file_buff[i].path,
                    offset |-> file_buff[i].offset + Len(lines)]
           over == Overwritten(value[i], lines)
           more == missed[i] \o lines
<1>1. /\ file_buff \in Seq(ServedFile) /\ value \in Seq(Cells)
      /\ missed \in Seq(Lines)
      /\ Len(value) = Len(file_buff) /\ Len(missed) = Len(file_buff)
      /\ Len(file_buff) \in Nat
      /\ DOMAIN file_buff = 1 .. Len(file_buff)
      /\ DOMAIN value = 1 .. Len(file_buff)
      /\ DOMAIN missed = 1 .. Len(file_buff)
  BY LenProperties DEF TypeOK, ServedFile
<1>2. /\ file_buff[i] \in ServedFile /\ value[i] \in Cells
      /\ missed[i] \in Lines /\ Len(lines) \in Nat
  BY ServedFileTypes, LenProperties DEF Lines
<1>3. file \in ServedFile
  BY <1>2 DEF ServedFile
<1>4. over \in Cells
  BY <1>2, OverwrittenType
<1>5. more \in Lines
  BY <1>2, ConcatProperties DEF Lines
<1>6. file_buff' = [file_buff EXCEPT ![i] = file]
  <2>1. [file_buff[i] EXCEPT !.offset = file_buff[i].offset + Len(lines)]
           = file
    BY <1>2 DEF ServedFile
  <2> QED
    BY <2>1 DEF WriteChunk
<1>7. \/ value' = [value EXCEPT ![i] = over] /\ missed' = missed
      \/ missed' = [missed EXCEPT ![i] = more] /\ value' = value
  BY DEF WriteChunk
<1>8. i \in 1 .. Len(file_buff)
  BY <1>1
<1> HIDE DEF file, over, more
<1>9. file_buff' \in Seq(ServedFile) /\ Len(file_buff') = Len(file_buff)
      /\ \A j \in 1 .. Len(file_buff) :
            file_buff'[j] = IF j = i THEN file ELSE file_buff[j]
  BY <1>1, <1>3, <1>6, <1>8, ExceptSeq
<1>10. DOMAIN file_buff' = DOMAIN file_buff
  BY <1>6
<1>11. ASSUME value' = [value EXCEPT ![i] = over]
       PROVE  /\ value' \in Seq(Cells) /\ Len(value') = Len(value)
              /\ \A j \in 1 .. Len(file_buff) :
                    value'[j] = IF j = i THEN over ELSE value[j]
  BY <1>1, <1>4, <1>8, <1>11, ExceptSeq
<1>12. ASSUME missed' = [missed EXCEPT ![i] = more]
       PROVE  /\ missed' \in Seq(Lines) /\ Len(missed') = Len(missed)
              /\ \A j \in 1 .. Len(file_buff) :
                    missed'[j] = IF j = i THEN more ELSE missed[j]
  BY <1>1, <1>5, <1>8, <1>12, ExceptSeq
<1>13. HandlerKeeps(i)
  BY <1>1, <1>7, <1>9, <1>10, <1>11, <1>12 DEF HandlerKeeps
<1>14. WriteOf(i, lines)
  <2>1. file_buff'[i] = file
    BY <1>8, <1>9
  <2>2. \/ value'[i] = over /\ missed'[i] = missed[i]
        \/ value'[i] = value[i] /\ missed'[i] = more
    BY <1>7, <1>8, <1>11, <1>12
  <2> QED
    BY <2>1, <2>2 DEF WriteOf, file, over, more
<1> QED
  BY <1>13, <1>14

\* What the handler of a read does: it fails and leaves everything as it was,
\* or it writes the next lines, possibly none, or misses them.
NextWritten(i) == \E lines \in Lines : NextOf(i, lines) /\ WriteOf(i, lines)

\* The body of when_data_read_by_client ends in one of the two ways above.
LEMMA HandleReadCases ==
    ASSUME SensorLogAssumption, TypeOK, NEW i \in DOMAIN file_buff,
           HandleRead(i)
    PROVE  /\ faults' \in 0 .. MAX_FAULTS
           /\ HandlerKeeps(i)
           /\ \/ /\ failed' = "null_file"
                 /\ UNCHANGED <<value, missed, file_buff>>
              \/ failed' = failed /\ NextWritten(i)
<1>1. faults \in 0 .. MAX_FAULTS
  BY DEF TypeOK
<1>2. faults' = faults \/ (faults > 0 /\ faults' = faults - 1)
  BY DEF HandleRead
<1>3. faults' \in 0 .. MAX_FAULTS
  BY <1>1, <1>2 DEF SensorLogAssumption
<1>4. CASE failed' = "null_file" /\ UNCHANGED <<value, missed, file_buff>>
  <2>1. HandlerKeeps(i)
    BY <1>4 DEF HandlerKeeps, TypeOK, ServedFile
  <2> QED
    BY <1>3, <1>4, <2>1
<1>5. ASSUME NEW lines, NextOf(i, lines), WriteChunk(i, lines),
             failed' = failed
      PROVE  HandlerKeeps(i) /\ NextWritten(i)
  <2>1. lines \in Lines
    BY <1>5 DEF NextOf
  <2> QED
    BY <1>5, <2>1, WriteChunkTypes DEF NextWritten
<1>6. \/ failed' = "null_file" /\ UNCHANGED <<value, missed, file_buff>>
      \/ /\ file_buff[i].path \in DOMAIN files /\ failed' = failed
         /\ \/ WriteChunk(i, Chunk(i))
            \/ \E n \in 0 .. Len(Chunk(i)) - 1 :
                  WriteChunk(i, SubSeq(Chunk(i), 1, n))
  BY Zenon DEF HandleRead
<1> QED
  BY <1>3, <1>4, <1>5, <1>6, ChunkIsNext, ShortChunkIsNext
---------------------------------------------------------------------------
(***************************************************************************)
(* The inductive invariant.                                                *)
(***************************************************************************)

\* No file is read again before its last read is handled.
Distinct(s) == \A j, k \in DOMAIN s : s[j] = s[k] => j = k

\* A read of file i is answered, and not handled yet.
Waiting(i) == \E k \in DOMAIN unhandled : unhandled[k] = i

\* The characteristic begins with the lines up to the offset that the gateway
\* has not yet; there are none when a read waits, or is answered last.
AtOffset(i) ==
    /\ Holds(Log(i), Passed(i), file_buff[i].offset, value[i], delivered[i])
    /\ ~answers_first \/ Waiting(i) => Passed(i) = file_buff[i].offset

\* File i is there; unless the program failed, it is served at its offset.
Served(i) ==
    /\ file_buff[i].path \in DOMAIN files
    /\ InOrder(Log(i), delivered[i], missed[i])
    /\ failed = "no" => AtOffset(i)

\* Nothing is read before the server runs, and what is served is in order.
ServerInv ==
    /\ phase # "run" => unhandled = <<>> /\ file_buff = <<>> /\ ~hasty
    /\ ~answers_first => unhandled = <<>>
    /\ ~hasty => Distinct(unhandled)
    /\ ~erased /\ ~hasty => \A i \in DOMAIN file_buff : Served(i)

\* The whole of it.
Inv == TypeOK /\ CardInv /\ ServerInv

\* The lines of a file that is served rise.
LEMMA LogRises ==
    ASSUME SensorLogAssumption, TypeOK, CardInv, NEW i \in DOMAIN file_buff,
           file_buff[i].path \in DOMAIN files
    PROVE  Log(i) \in Lines /\ Len(Log(i)) \in Nat /\ Ascending(Log(i))
<1>1. Log(i) \in Written(MAX_ROUNDS - rounds)
  BY DEF CardInv, Log
<1> QED
  BY <1>1, ServedFileTypes DEF Written

\* A round of readings, or a part of one, leaves what is served at its place
\* in the files.
LEMMA RoundKeepsServed ==
    ASSUME SensorLogAssumption, TypeOK, CardInv, CardGrows,
           \A f \in DOMAIN files' : files'[f] \in Lines,
           UNCHANGED <<failed, server, gateway>>,
           NEW i \in DOMAIN file_buff, Served(i)
    PROVE  Served(i)'
<1>1. /\ UNCHANGED <<failed, file_buff, value, missed, unhandled>>
      /\ UNCHANGED <<answers_first, delivered>>
  BY DEF server, gateway
<1>2. /\ file_buff[i].path \in DOMAIN files
      /\ InOrder(Log(i), delivered[i], missed[i])
      /\ failed = "no" => AtOffset(i)
  BY DEF Served
<1>3. /\ file_buff'[i].path \in DOMAIN files' /\ IsPrefix(Log(i), Log(i)')
      /\ Log(i)' \in Lines
  BY <1>1, <1>2 DEF CardGrows, Extends, Log
<1>4. /\ Log(i) \in Lines /\ delivered[i] \in Got /\ missed[i] \in Lines
      /\ file_buff[i].offset \in Nat /\ value[i] \in Cells
  BY <1>2, ServedFileTypes
<1>5. /\ InOrder(Log(i)', delivered[i], missed[i])
      /\ Holds(Log(i), Passed(i), file_buff[i].offset, value[i], delivered[i])
            => Holds(Log(i)', Passed(i), file_buff[i].offset, value[i],
                     delivered[i])
  BY <1>2, <1>3, <1>4, GrowingKeeps DEF Passed, Got
<1>6. Passed(i)' = Passed(i) /\ (Waiting(i)' <=> Waiting(i))
  BY <1>1 DEF Passed, Waiting
<1>7. failed' = "no" => AtOffset(i)'
  BY <1>1, <1>2, <1>5, <1>6 DEF AtOffset
<1> QED
  BY <1>1, <1>3, <1>5, <1>7 DEF Served

\* File i after the handler, for the gateway with the lines it had before.
Advanced(i) ==
    /\ file_buff'[i].path = file_buff[i].path /\ Log(i)' = Log(i)
    /\ file_buff'[i].offset \in Nat
    /\ value'[i] \in Cells /\ missed'[i] \in Lines
    /\ InOrder(Log(i), delivered[i], missed'[i])
    /\ Holds(Log(i), Len(delivered[i]) + Len(missed'[i]),
             file_buff'[i].offset, value'[i], delivered[i])

\* n lines behind those that were given or missed are missed as well.
MissedMore(i, n) ==
    /\ missed'[i] = missed[i] \o SubSeq(Log(i), Passed(i) + 1, Passed(i) + n)
    /\ Passed(i) + n <= Len(Log(i))
    /\ file_buff'[i].offset = Len(delivered[i]) + Len(missed'[i])

\* The handler has written the next chunk of the file that is read, or has
\* missed it.
LEMMA HandlerHolds ==
    ASSUME SensorLogAssumption, TypeOK, CardInv, NEW i \in DOMAIN file_buff,
           Served(i), failed = "no", NextWritten(i), files' = files,
           ~answers_first \/ Waiting(i)
    PROVE  /\ Advanced(i)
           /\ \/ missed'[i] = missed[i]
              \/ \E n \in 0 .. MAX_READ_BYTES : MissedMore(i, n)
<1> DEFINE log  == Log(i)
           from == Passed(i)
           got  == delivered[i]
           lost == missed[i]
<1>1. /\ file_buff[i].path \in DOMAIN files /\ InOrder(log, got, lost)
      /\ AtOffset(i)
  BY DEF Served
<1>2. from = file_buff[i].offset /\ Holds(log, from, from, value[i], got)
  BY <1>1 DEF AtOffset
<1>3. /\ log \in Lines /\ got \in Seq(0 .. MAX_ROUNDS) /\ lost \in Lines
      /\ value[i] \in Cells /\ from \in Nat /\ Len(log) \in Nat
  BY <1>1, ServedFileTypes DEF Got
<1>4. PICK lines \in Lines : NextOf(i, lines) /\ WriteOf(i, lines)
  BY DEF NextWritten
<1> DEFINE n  == Len(lines)
           to == from + n
<1>5. from <= Len(log) /\ from = Len(got) + Len(lost)
  BY <1>2, <1>3 DEF Holds, Passed
<1>6. /\ n \in 0 .. MAX_READ_BYTES /\ to <= Len(log)
      /\ lines = SubSeq(log, from + 1, to)
  BY <1>2, <1>4, <1>5 DEF NextOf
<1>7. file_buff'[i] = [path |-> file_buff[i].path, offset |-> to]
  BY <1>2, <1>4 DEF WriteOf
<1>8. /\ file_buff'[i].path = file_buff[i].path /\ file_buff'[i].offset = to
      /\ Log(i)' = log
  BY <1>7 DEF Log
<1>9. MAX_READ_BYTES \in Nat /\ n \in Nat
  BY <1>6 DEF SensorLogAssumption
<1> HIDE DEF log, from, got, lost, n
<1>10. to \in Nat /\ from <= to /\ to <= from + MAX_READ_BYTES
  BY <1>3, <1>6, <1>9
<1> HIDE DEF to
<1>11. CASE value'[i] = Overwritten(value[i], lines) /\ missed'[i] = lost
  <2>1. value'[i] \in Cells
    BY <1>3, <1>11, OverwrittenType
  <2>2. Holds(log, from, to,
              Overwritten(value[i], SubSeq(log, from + 1, to)), got)
    BY <1>2, <1>3, <1>6, <1>10, WriteHolds
  <2>3. Holds(log, Len(got) + Len(missed'[i]), to, value'[i], got)
    BY <1>5, <1>6, <1>11, <2>2
  <2>4. Advanced(i)
    BY <1>1, <1>3, <1>8, <1>10, <1>11, <2>1, <2>3
       DEF Advanced, log, from, got, lost
  <2> QED
    BY <1>11, <2>4 DEF lost
<1>12. CASE value'[i] = value[i] /\ missed'[i] = lost \o lines
  <2> DEFINE all   == missed'[i]
             cells == value[i]
  <2>1. all = lost \o SubSeq(log, from + 1, to) /\ all = lost \o lines
    BY <1>6, <1>12
  <2>2. /\ cells \in Cells /\ Holds(log, from, from, cells, got)
        /\ InOrder(log, got, lost)
    BY <1>1, <1>2, <1>3
  <2> HIDE DEF all, cells
  <2>3. all \in Lines
    <3>1. lost \o lines \in Lines
      BY <1>3, ConcatProperties DEF Lines
    <3> QED
      BY <2>1, <3>1, Zenon
  <2>4. InPlace(log, got, all, to, cells)
    BY <1>3, <1>5, <1>6, <1>10, <2>1, <2>2, MissHolds
  <2>5. /\ InOrder(log, got, all) /\ Len(got) + Len(all) = to
        /\ Holds(log, Len(got) + Len(all), to, value'[i], got)
    BY <1>12, <2>4 DEF InPlace, cells
  <2>6. Advanced(i)
    BY <1>3, <1>8, <1>10, <1>12, <2>3, <2>5
       DEF Advanced, log, from, got, lost, all
  <2>7. MissedMore(i, n)
    <3>1. from + n <= Len(log)
          /\ all = lost \o SubSeq(log, from + 1, from + n)
      BY <1>6, <2>1 DEF to
    <3>2. file_buff'[i].offset = Len(got) + Len(all)
      BY <1>8, <2>5
    <3> QED
      BY <3>1, <3>2, Zenon DEF MissedMore, log, from, lost, all, got
  <2> QED
    BY <1>6, <2>6, <2>7
<1> QED
  BY <1>4, <1>11, <1>12 DEF WriteOf, lost

\* A file that is not read stays as it was served.
LEMMA OthersKeepServed ==
    ASSUME NEW i \in DOMAIN file_buff, Served(i), failed = "no",
           UNCHANGED <<files, answers_first>>,
           file_buff'[i] = file_buff[i], value'[i] = value[i],
           missed'[i] = missed[i], delivered'[i] = delivered[i],
           failed' = "no" => (Waiting(i)' <=> Waiting(i))
    PROVE  Served(i)'
<1>1. Log(i)' = Log(i) /\ Passed(i)' = Passed(i)
  BY DEF Log, Passed
<1> QED
  BY <1>1, Zenon DEF Served, AtOffset

\* The lines that reach the gateway are those in front of the characteristic
\* that it does not have.
LEMMA DeliverTypes ==
    ASSUME SensorLogAssumption, TypeOK, NEW i \in DOMAIN file_buff,
           NEW cells \in Cells, Deliver(i, cells)
    PROVE  /\ delivered' \in Seq(Got) /\ Len(delivered') = Len(delivered)
           /\ \A j \in DOMAIN file_buff \ {i} : delivered'[j] = delivered[j]
           /\ \E n : /\ NewUpTo(cells, delivered[i], n)
                    /\ delivered'[i] = delivered[i] \o SubSeq(cells, 1, n)
<1>1. PICK n \in 0 .. MAX_READ_BYTES :
         /\ n > 0 => IsNew(i, cells[n])
         /\ \A k \in n + 1 .. MAX_READ_BYTES : ~IsNew(i, cells[k])
         /\ delivered' =
               [delivered EXCEPT ![i] = delivered[i] \o SubSeq(cells, 1, n)]
  BY DEF Deliver
<1> DEFINE all == delivered[i] \o SubSeq(cells, 1, n)
<1>2. /\ delivered \in Seq(Got) /\ Len(delivered) \in Nat
      /\ DOMAIN delivered = 1 .. Len(delivered)
      /\ DOMAIN file_buff = DOMAIN delivered
  BY LenProperties DEF TypeOK, Got
<1>3. all \in Got
  <2>1. MAX_READ_BYTES \in Nat
    BY DEF SensorLogAssumption
  <2>2. \A j \in 1 .. n : cells[j] \in 0 .. MAX_ROUNDS
    BY <2>1 DEF Cells
  <2>3. SubSeq(cells, 1, n) \in Seq(0 .. MAX_ROUNDS)
    BY <2>1, <2>2, SubSeqProperties
  <2> QED
    BY <2>3, ServedFileTypes, ConcatProperties DEF Got
<1>4. delivered' = [delivered EXCEPT ![i] = all]
  BY <1>1
<1> HIDE DEF all
<1>5. delivered' \in Seq(Got) /\ Len(delivered') = Len(delivered)
      /\ \A j \in 1 .. Len(delivered) :
            delivered'[j] = IF j = i THEN all ELSE delivered[j]
  BY <1>2, <1>3, <1>4, ExceptSeq
<1>6. NewUpTo(cells, delivered[i], n)
  BY <1>1 DEF NewUpTo, IsNew
<1> QED
  BY <1>2, <1>5, <1>6 DEF all

\* When the characteristic holds the next lines, a read gives these.
LEMMA DeliverHolds ==
    ASSUME SensorLogAssumption, TypeOK, NEW i \in DOMAIN file_buff,
           NEW cells \in Cells, Deliver(i, cells), NEW log \in Lines,
           Ascending(log), NEW lost \in Lines, NEW to \in Nat,
           NEW from \in Nat, from = Len(delivered[i]) + Len(lost),
           InOrder(log, delivered[i], lost),
           Holds(log, from, to, cells, delivered[i])
    PROVE  Gets(log, delivered[i], lost, delivered'[i], from, to, cells)
<1> DEFINE got == delivered[i]
           all == delivered'[i]
<1>1. got \in Seq(0 .. MAX_ROUNDS)
  BY ServedFileTypes DEF Got
<1>2. PICK n : NewUpTo(cells, got, n) /\ all = got \o SubSeq(cells, 1, n)
  BY DeliverTypes
<1>3. /\ from = Len(got) + Len(lost) /\ InOrder(log, got, lost)
      /\ Holds(log, from, to, cells, got)
  OBVIOUS
<1> HIDE DEF got, all
<1>4. Gets(log, got, lost, all, from, to, cells)
  BY <1>1, <1>2, <1>3, ReadKeepsOrder
<1> QED
  BY <1>4 DEF got, all
---------------------------------------------------------------------------
(***************************************************************************)
(* One lemma per action.                                                   *)
(***************************************************************************)

\* The parts of TypeOK, by the actions that change them.
CardOK ==
    /\ ready_to_write \in BOOLEAN
    /\ mounted \in BOOLEAN
    /\ ready_to_write => mounted
    /\ mounted => formatted
    /\ formatted \in BOOLEAN
    /\ DOMAIN files \subseteq FilePaths
    /\ \A f \in DOMAIN files : files[f] \in Lines

ServerOK ==
    /\ file_buff \in Seq(ServedFile)
    /\ Len(file_buff) <= MAX_CHARACTERISTIC_NUM
    /\ value \in Seq(Cells) /\ Len(value) = Len(file_buff)
    /\ missed \in Seq(Lines) /\ Len(missed) = Len(file_buff)
    /\ unhandled \in Seq(DOMAIN file_buff)
    /\ delivered \in Seq(Got)
    /\ Len(delivered) = Len(file_buff)

OthersOK ==
    /\ phase \in {"power_on", "dispatch", "run"}
    /\ failed \in {"no", "null_file", "array_end"}
    /\ answers_first \in BOOLEAN
    /\ hasty \in BOOLEAN
    /\ erased \in BOOLEAN
    /\ rounds \in 0 .. MAX_ROUNDS
    /\ erases \in 0 .. MAX_ERASES
    /\ restarts \in 0 .. MAX_RESTARTS
    /\ faults \in 0 .. MAX_FAULTS

\* Together the parts are TypeOK.
LEMMA TypeParts ==
    TypeOK <=> CardOK /\ ServerOK /\ OthersOK
BY Zenon DEF TypeOK, CardOK, ServerOK, OthersOK, ServedFile, Got

\* The same in the next state.
LEMMA TypePartsNext ==
    TypeOK' <=> CardOK' /\ ServerOK' /\ OthersOK'
BY Zenon DEF TypeOK, CardOK, ServerOK, OthersOK, ServedFile, Got

\* The bounds are natural numbers.
LEMMA Counting ==
    ASSUME SensorLogAssumption
    PROVE  /\ MAX_ROUNDS \in Nat /\ MAX_ERASES \in Nat /\ MAX_RESTARTS \in Nat
           /\ MAX_FAULTS \in Nat /\ MAX_CHARACTERISTIC_NUM \in Nat
BY DEF SensorLogAssumption

\* A server that serves nothing has its types.
LEMMA EmptyServer ==
    ASSUME SensorLogAssumption, Serve(<<>>), unhandled' = <<>>
    PROVE  ServerOK' /\ file_buff' = <<>>
<1>1. <<>> \in Seq(FilePaths) /\ Len(<<>>) = 0 /\ 0 <= MAX_CHARACTERISTIC_NUM
  BY EmptySeq, Counting
<1>2. /\ file_buff' \in Seq(ServedFile)
      /\ Len(file_buff') <= MAX_CHARACTERISTIC_NUM
      /\ value' \in Seq(Cells) /\ Len(value') = Len(file_buff')
      /\ missed' \in Seq(Lines) /\ Len(missed') = Len(file_buff')
      /\ delivered' \in Seq(Got) /\ Len(delivered') = Len(file_buff')
      /\ DOMAIN file_buff' = DOMAIN <<>>
  BY <1>1, ServeTypes
<1>3. unhandled' \in Seq(DOMAIN file_buff')
  BY EmptySeq
<1>4. file_buff' = <<>>
  BY <1>2, LenProperties, EmptySeq DEF Serve
<1> QED
  BY <1>2, <1>3, <1>4 DEF ServerOK

\* init_sd_card: nothing is served yet, the card is mounted or made anew.
LEMMA InitCard ==
    ASSUME SensorLogAssumption, Inv, init_sd_card
    PROVE  Inv'
<1>1. CardOK /\ ServerOK /\ OthersOK /\ CardInv /\ ServerInv /\ TypeOK
  BY TypeParts DEF Inv
<1>2. /\ UNCHANGED <<failed, server, gateway, erased, rounds, erases,
                     restarts>>
      /\ phase' = "dispatch" /\ phase = "power_on"
  BY DEF init_sd_card
<1>3. /\ CardOK' /\ CardInv' /\ faults' \in 0 .. MAX_FAULTS
  <2>1. CASE Mount
    <3>1. CardOK' /\ faults' \in 0 .. MAX_FAULTS
      BY <1>1, <2>1, Zenon DEF Mount, CardOK, OthersOK
    <3>2. CardInv'
      BY <1>1, <1>2, <2>1 DEF Mount, CardInv
    <3> QED
      BY <3>1, <3>2
  <2>2. ASSUME NEW n \in 0 .. MAX_FAULTS, Reformat(n)
        PROVE  CardOK' /\ CardInv' /\ faults' \in 0 .. MAX_FAULTS
    <3>1. /\ mounted' \in BOOLEAN /\ ready_to_write' \in BOOLEAN
          /\ formatted' \in BOOLEAN
          /\ ready_to_write' => mounted'
          /\ mounted' => formatted'
          /\ CardTypes(files', Lines) /\ CardInv'
          /\ faults' \in 0 .. MAX_FAULTS
      BY <1>1, <1>2, <2>2, ReformatKeeps
    <3> QED
      BY <3>1, Zenon DEF CardOK, CardTypes
  <2>3. Mount \/ Reformat(faults) \/ (faults > 0 /\ Reformat(faults - 1))
    BY DEF init_sd_card
  <2>4. /\ faults \in 0 .. MAX_FAULTS
        /\ faults > 0 => faults - 1 \in 0 .. MAX_FAULTS
    BY <1>1, Counting DEF OthersOK
  <2> QED
    BY <2>1, <2>2, <2>3, <2>4
<1>4. OthersOK'
  BY <1>1, <1>2, <1>3 DEF OthersOK, gateway
<1>5. ServerOK'
  BY <1>1, <1>2 DEF ServerOK, server, gateway
<1>6. ServerInv'
  <2>1. unhandled = <<>> /\ file_buff = <<>> /\ ~hasty
    BY <1>1, <1>2 DEF ServerInv
  <2>2. unhandled' = <<>> /\ file_buff' = <<>> /\ ~hasty' /\ DOMAIN <<>> = {}
    BY <1>2, <2>1 DEF server, gateway
  <2> QED
    BY <2>2 DEF ServerInv, Distinct
<1> QED
  BY <1>3, <1>4, <1>5, <1>6, TypePartsNext DEF Inv

\* reformat_sd_card: what is served no longer counts once the card is erased.
LEMMA EraseButton ==
    ASSUME SensorLogAssumption, Inv, reformat_sd_card
    PROVE  Inv'
<1>1. CardOK /\ ServerOK /\ OthersOK /\ CardInv /\ ServerInv /\ TypeOK
  BY TypeParts DEF Inv
<1>2. /\ UNCHANGED <<phase, failed, server, gateway, rounds, restarts>>
      /\ erased' = TRUE /\ erases > 0 /\ erases' = erases - 1
      /\ Reformat(faults)
  BY DEF reformat_sd_card
<1>3. /\ mounted' \in BOOLEAN /\ ready_to_write' \in BOOLEAN
      /\ formatted' \in BOOLEAN
      /\ ready_to_write' => mounted'
      /\ mounted' => formatted'
      /\ CardTypes(files', Lines) /\ CardInv'
      /\ faults' \in 0 .. MAX_FAULTS
  BY <1>1, <1>2, ReformatKeeps DEF OthersOK
<1>4. CardOK'
  BY <1>3, Zenon DEF CardOK, CardTypes
<1>5. OthersOK'
  <2>1. erases' \in 0 .. MAX_ERASES
    BY <1>1, <1>2, Counting DEF OthersOK
  <2> QED
    BY <1>1, <1>2, <1>3, <2>1 DEF OthersOK, gateway
<1>6. ServerOK'
  BY <1>1, <1>2 DEF ServerOK, server, gateway
<1>7. ServerInv'
  BY <1>1, <1>2 DEF ServerInv, server, gateway, Distinct
<1> QED
  BY <1>3, <1>4, <1>5, <1>6, <1>7, TypePartsNext DEF Inv

\* record_beacon: the files that are served grow behind their offsets.
LEMMA Round ==
    ASSUME SensorLogAssumption, Inv, NEW b \in Beacons, record_beacon(b)
    PROVE  Inv'
<1>1. CardOK /\ ServerOK /\ OthersOK /\ CardInv /\ ServerInv /\ TypeOK
  BY TypeParts DEF Inv
<1>2. /\ UNCHANGED <<phase, failed, ready_to_write, mounted, formatted, server,
                     gateway, erased, erases, restarts>>
      /\ rounds > 0 /\ rounds' = rounds - 1
  BY DEF record_beacon
<1>3. CardGrows /\ faults' \in 0 .. MAX_FAULTS /\ rounds' \in 0 .. MAX_ROUNDS
  BY <1>1, <1>2, RoundExtends, Counting DEF OthersOK
<1>4. CardOK' /\ CardInv' /\ \A f \in DOMAIN files' : files'[f] \in Lines
  <2>1. /\ CardInv'
        /\ DOMAIN files' \subseteq FilePaths
        /\ \A f \in DOMAIN files' : files'[f] \in Lines
    BY <1>2, <1>3, GrownCard
  <2> QED
    BY <1>1, <1>2, <2>1, Zenon DEF CardOK
<1>5. OthersOK'
  BY <1>1, <1>2, <1>3 DEF OthersOK, gateway
<1>6. ServerOK'
  BY <1>1, <1>2 DEF ServerOK, server, gateway
<1>7. ServerInv'
  <2>1. \A i \in DOMAIN file_buff : Served(i) => Served(i)'
    BY <1>1, <1>2, <1>3, <1>4, RoundKeepsServed
  <2>2. UNCHANGED <<phase, file_buff, unhandled, answers_first, hasty, erased>>
    BY <1>2 DEF server, gateway
  <2> QED
    BY <1>1, <2>1, <2>2, Zenon DEF ServerInv, Distinct
<1> QED
  BY <1>4, <1>5, <1>6, <1>7, TypePartsNext DEF Inv

\* Before the first read of a log the gateway has none of its lines.
LEMMA BeforeAnyRead ==
    ASSUME SensorLogAssumption, NEW log \in Lines, NEW cells,
           cells = [k \in 1 .. MAX_READ_BYTES |-> 0]
    PROVE  InPlace(log, <<>>, <<>>, 0, cells)
<1>1. Len(log) \in Nat /\ MAX_READ_BYTES \in Nat /\ Len(<<>>) = 0
  BY LenProperties DEF Lines, SensorLogAssumption
<1>2. FirstOf(log, 0) = {} /\ ToSet(<<>>) = {} /\ Ascending(<<>>)
  BY EmptySeq DEF FirstOf, ToSet, Ascending
<1>3. InOrder(log, <<>>, <<>>)
  BY <1>1, <1>2 DEF InOrder
<1>4. Holds(log, 0, 0, cells, <<>>)
  BY <1>1 DEF Holds
<1> QED
  BY <1>1, <1>3, <1>4 DEF InPlace

\* Files that are served from their beginning.
LEMMA ServeAnew ==
    ASSUME SensorLogAssumption, TypeOK, NEW paths \in Seq(DOMAIN files),
           Len(paths) <= MAX_CHARACTERISTIC_NUM, Serve(paths),
           unhandled = <<>>, UNCHANGED <<files, unhandled>>
    PROVE  ServerOK' /\ \A i \in DOMAIN file_buff' : Served(i)'
<1>1. paths \in Seq(FilePaths)
  BY SeqMonotonic DEF TypeOK
<1>2. /\ file_buff' \in Seq(ServedFile)
      /\ Len(file_buff') <= MAX_CHARACTERISTIC_NUM
      /\ value' \in Seq(Cells) /\ Len(value') = Len(file_buff')
      /\ missed' \in Seq(Lines) /\ Len(missed') = Len(file_buff')
      /\ delivered' \in Seq(Got) /\ Len(delivered') = Len(file_buff')
      /\ DOMAIN file_buff' = DOMAIN paths
  BY <1>1, ServeTypes
<1>3. ServerOK'
  BY <1>2, EmptySeq DEF ServerOK
<1>4. ASSUME NEW i \in DOMAIN file_buff'
      PROVE  Served(i)'
  <2>1. i \in DOMAIN paths /\ paths[i] \in DOMAIN files
    BY <1>2, <1>4, LenProperties, ElementOfSeq
  <2>2. /\ file_buff'[i] = [path |-> paths[i], offset |-> 0]
        /\ value'[i] = [k \in 1 .. MAX_READ_BYTES |-> 0]
        /\ missed'[i] = <<>> /\ delivered'[i] = <<>>
    BY <2>1 DEF Serve
  <2>3. /\ file_buff'[i].path = paths[i] /\ file_buff'[i].offset = 0
        /\ Log(i)' = files[paths[i]] /\ Passed(i)' = 0
    BY <2>2, EmptySeq DEF Log, Passed
  <2>4. Log(i)' \in Lines
    BY <2>1, <2>3 DEF TypeOK
  <2>5. InPlace(Log(i)', delivered'[i], missed'[i], 0, value'[i])
    BY <2>2, <2>4, BeforeAnyRead
  <2>6. AtOffset(i)'
    BY <2>3, <2>5 DEF AtOffset, InPlace
  <2> QED
    BY <2>1, <2>3, <2>5, <2>6 DEF Served, InPlace
<1> QED
  BY <1>3, <1>4

\* start: each file found is served from its first line.
LEMMA ServerStarts ==
    ASSUME SensorLogAssumption, Inv, start
    PROVE  Inv'
<1>1. CardOK /\ ServerOK /\ OthersOK /\ CardInv /\ ServerInv /\ TypeOK
  BY TypeParts DEF Inv
<1>2. /\ phase = "dispatch" /\ phase' = "run" /\ failed = "no"
      /\ erased' = FALSE
      /\ UNCHANGED <<card, unhandled, answers_first, hasty, rounds, erases,
                     restarts>>
  BY DEF start
<1>3. unhandled = <<>> /\ unhandled' = <<>> /\ UNCHANGED files
  BY <1>1, <1>2 DEF ServerInv, card
<1>4. \E paths \in Seq(DOMAIN files) :
         Len(paths) <= MAX_CHARACTERISTIC_NUM /\ Serve(paths)
  <2>1. <<>> \in Seq(DOMAIN files) /\ Len(<<>>) <= MAX_CHARACTERISTIC_NUM
    BY EmptySeq, Counting
  <2>2. SetToSeq(DOMAIN files) \in Seq(DOMAIN files)
        /\ Len(SetToSeq(DOMAIN files)) = Cardinality(DOMAIN files)
    BY <1>1, SetToSeqIsSeq DEF CardInv
  <2>3. \/ Serve(<<>>)
        \/ /\ Serve(SetToSeq(DOMAIN files))
           /\ Cardinality(DOMAIN files) <= MAX_CHARACTERISTIC_NUM
    BY DEF start, FilesFound, NothingServed
  <2> QED
    BY <2>1, <2>2, <2>3
<1>5. ServerOK' /\ \A i \in DOMAIN file_buff' : Served(i)'
  BY <1>1, <1>3, <1>4, ServeAnew
<1>6. failed' \in {"no", "array_end"} /\ faults' \in 0 .. MAX_FAULTS
  <2>1. failed' \in {"no", "array_end"}
    BY <1>2 DEF start, FilesFound, NothingServed
  <2>2. faults' = faults \/ (faults > 0 /\ faults' = faults - 1)
    BY DEF start
  <2> QED
    BY <1>1, <2>1, <2>2, Counting DEF OthersOK
<1>7. OthersOK'
  BY <1>1, <1>2, <1>6 DEF OthersOK
<1>8. CardOK' /\ CardInv'
  BY <1>1, <1>2 DEF CardOK, CardInv, card
<1>9. ServerInv'
  BY <1>2, <1>3, <1>5 DEF ServerInv, Distinct
<1> QED
  BY <1>5, <1>7, <1>8, <1>9, TypePartsNext DEF Inv

\* A restart: nothing is served, and the card stays, or a round is cut short.
LEMMA PowerLost ==
    ASSUME SensorLogAssumption, Inv, Restart
    PROVE  Inv'
<1>1. CardOK /\ ServerOK /\ OthersOK /\ CardInv /\ ServerInv /\ TypeOK
  BY TypeParts DEF Inv
<1>2. ServerOK' /\ file_buff' = <<>> /\ unhandled' = <<>>
  BY EmptyServer DEF Restart
<1>3. CardGrows /\ rounds' \in 0 .. MAX_ROUNDS
  BY <1>1, RestartExtends
<1>4. OthersOK'
  <2>1. restarts' \in 0 .. MAX_RESTARTS
    BY <1>1, Counting DEF OthersOK, Restart
  <2> QED
    BY <1>1, <1>3, <2>1 DEF OthersOK, Restart
<1>5. CardOK' /\ CardInv'
  <2>1. /\ CardInv'
        /\ DOMAIN files' \subseteq FilePaths
        /\ \A f \in DOMAIN files' : files'[f] \in Lines
    BY <1>3, GrownCard DEF Restart
  <2> QED
    BY <1>1, <2>1 DEF CardOK, Restart
<1>6. ServerInv'
  <2>1. ~hasty' /\ DOMAIN <<>> = {}
    BY DEF Restart
  <2> QED
    BY <1>2, <2>1 DEF ServerInv, Distinct
<1> QED
  BY <1>2, <1>4, <1>5, <1>6, TypePartsNext DEF Inv

\* j is one of the elements of s.
In(s, j) == \E k \in DOMAIN s : s[k] = j

\* What remains of the reads when the handler takes the first.
LEMMA TailOfReads ==
    ASSUME NEW S, NEW s \in Seq(S), s # <<>>
    PROVE  /\ Head(s) \in S /\ Tail(s) \in Seq(S) /\ In(s, Head(s))
           /\ \A j \in S : j # Head(s) => (In(Tail(s), j) <=> In(s, j))
           /\ Distinct(s) => Distinct(Tail(s)) /\ ~In(Tail(s), Head(s))
<1>1. /\ Head(s) \in S /\ Tail(s) \in Seq(S)
      /\ Len(Tail(s)) = Len(s) - 1
      /\ \A i \in 1 .. Len(Tail(s)) : Tail(s)[i] = s[i + 1]
  BY HeadTailProperties
<1>2. /\ Len(s) \in Nat \ {0} /\ DOMAIN s = 1 .. Len(s)
      /\ DOMAIN Tail(s) = 1 .. Len(s) - 1
  BY <1>1, LenProperties, EmptySeq
<1>3. Head(s) = s[1]
  OBVIOUS
<1>4. In(s, Head(s))
  BY <1>2, <1>3 DEF In
<1>5. ASSUME NEW j \in S, j # Head(s)
      PROVE  In(Tail(s), j) <=> In(s, j)
  <2>1. ASSUME NEW k \in DOMAIN s, s[k] = j
        PROVE  In(Tail(s), j)
    <3>1. k - 1 \in DOMAIN Tail(s) /\ Tail(s)[k - 1] = j
      BY <1>1, <1>2, <1>3, <1>5, <2>1
    <3> QED
      BY <3>1 DEF In
  <2>2. ASSUME NEW k \in DOMAIN Tail(s), Tail(s)[k] = j
        PROVE  In(s, j)
    <3>1. k + 1 \in DOMAIN s /\ s[k + 1] = j
      BY <1>1, <1>2, <2>2
    <3> QED
      BY <3>1 DEF In
  <2> QED
    BY <2>1, <2>2 DEF In
<1>6. ASSUME Distinct(s)
      PROVE  Distinct(Tail(s)) /\ ~In(Tail(s), Head(s))
  <2>1. \A k \in DOMAIN Tail(s) : k + 1 \in DOMAIN s /\ Tail(s)[k] = s[k + 1]
    BY <1>1, <1>2
  <2>2. Distinct(Tail(s))
    BY <1>2, <1>6, <2>1 DEF Distinct
  <2>3. ~In(Tail(s), Head(s))
    BY <1>2, <1>3, <1>6, <2>1 DEF Distinct, In
  <2> QED
    BY <2>2, <2>3
<1> QED
  BY <1>1, <1>4, <1>5, <1>6

\* The reads when the gateway adds one.
LEMMA AppendToReads ==
    ASSUME NEW S, NEW s \in Seq(S), NEW i \in S
    PROVE  /\ Append(s, i) \in Seq(S) /\ In(Append(s, i), i)
           /\ \A j \in S : j # i => (In(Append(s, i), j) <=> In(s, j))
           /\ Distinct(s) /\ ~In(s, i) => Distinct(Append(s, i))
<1>1. /\ Append(s, i) \in Seq(S) /\ Len(Append(s, i)) = Len(s) + 1
      /\ \A k \in 1 .. Len(s) : Append(s, i)[k] = s[k]
      /\ Append(s, i)[Len(s) + 1] = i
  BY AppendProperties
<1>2. Len(s) \in Nat /\ DOMAIN s = 1 .. Len(s)
      /\ DOMAIN Append(s, i) = 1 .. Len(s) + 1
  BY <1>1, LenProperties
<1>3. \A k \in DOMAIN Append(s, i) :
         \/ k \in DOMAIN s /\ Append(s, i)[k] = s[k]
         \/ k = Len(s) + 1 /\ Append(s, i)[k] = i
  BY <1>1, <1>2
<1>4. /\ DOMAIN s \subseteq DOMAIN Append(s, i)
      /\ Len(s) + 1 \in DOMAIN Append(s, i)
  BY <1>2
<1>5. \A k \in DOMAIN s : Append(s, i)[k] = s[k]
  BY <1>1, <1>2
<1>6. In(Append(s, i), i)
  BY <1>1, <1>4 DEF In
<1>7. \A j \in S : j # i => (In(Append(s, i), j) <=> In(s, j))
  BY <1>3, <1>4, <1>5, Zenon DEF In
<1>8. Distinct(s) /\ ~In(s, i) => Distinct(Append(s, i))
  BY <1>3, Zenon DEF In, Distinct
<1> QED
  BY <1>1, <1>6, <1>7, <1>8

\* A file that was read is served, at its place in the next state.
LEMMA StillServed ==
    ASSUME NEW i, file_buff'[i].path \in DOMAIN files',
           InOrder(Log(i)', delivered'[i], missed'[i]),
           Holds(Log(i)', Passed(i)', file_buff'[i].offset, value'[i],
                 delivered'[i]),
           ~answers_first' \/ Waiting(i)' => Passed(i)' = file_buff'[i].offset
    PROVE  Served(i)'
BY DEF Served, AtOffset

\* when_data_read_by_client, for a read that was answered before: the chunk
\* that the gateway has is now behind the offset of the one that is written.
LEMMA ReadHandled ==
    ASSUME SensorLogAssumption, Inv, when_data_read_by_client
    PROVE  Inv'
<1>1. CardOK /\ ServerOK /\ OthersOK /\ CardInv /\ ServerInv /\ TypeOK
  BY TypeParts DEF Inv
<1>2. /\ Head(unhandled) \in DOMAIN file_buff
      /\ Tail(unhandled) \in Seq(DOMAIN file_buff)
      /\ In(unhandled, Head(unhandled))
      /\ \A j \in DOMAIN file_buff : j # Head(unhandled) =>
            (In(Tail(unhandled), j) <=> In(unhandled, j))
      /\ Distinct(unhandled) =>
            Distinct(Tail(unhandled)) /\ ~In(Tail(unhandled), Head(unhandled))
  BY <1>1, TailOfReads DEF ServerOK, when_data_read_by_client
<1>3. PICK i \in DOMAIN file_buff : i = Head(unhandled)
  BY <1>2
<1>4. /\ failed = "no" /\ unhandled # <<>> /\ unhandled' = Tail(unhandled)
      /\ HandleRead(i)
      /\ UNCHANGED <<phase, card, gateway, erased, rounds, erases, restarts>>
  BY <1>3 DEF when_data_read_by_client
<1>5. /\ i \in DOMAIN file_buff /\ Tail(unhandled) \in Seq(DOMAIN file_buff)
      /\ In(unhandled, i)
      /\ \A j \in DOMAIN file_buff :
            j # i => (In(Tail(unhandled), j) <=> In(unhandled, j))
      /\ Distinct(unhandled) =>
            Distinct(Tail(unhandled)) /\ ~In(Tail(unhandled), i)
  BY <1>3, <1>2
<1>6. HandlerKeeps(i)
  BY <1>1, <1>4, <1>5, HandleReadCases
<1>7. /\ faults' \in 0 .. MAX_FAULTS
      /\ \/ failed' = "null_file" /\ UNCHANGED <<value, missed, file_buff>>
         \/ failed' = "no" /\ NextWritten(i)
  BY <1>1, <1>4, <1>5, HandleReadCases
<1>8. UNCHANGED <<files, answers_first, delivered, hasty, erased, phase>>
  BY <1>4 DEF card, gateway
<1>9. CardOK' /\ CardInv'
  BY <1>1, <1>4 DEF CardOK, CardInv, card
<1>10. OthersOK'
  BY <1>1, <1>4, <1>7 DEF OthersOK, gateway
<1>11. ServerOK'
  BY <1>1, <1>4, <1>5, <1>6, <1>8 DEF ServerOK, HandlerKeeps
<1>12. phase = "run" /\ answers_first
  BY <1>1, <1>4 DEF ServerInv
<1>13. ASSUME ~erased', ~hasty', NEW j \in DOMAIN file_buff'
       PROVE  Served(j)'
  <2>1. j \in DOMAIN file_buff /\ Served(j) /\ Distinct(unhandled)
    BY <1>1, <1>6, <1>8, <1>13 DEF ServerInv, HandlerKeeps
  <2>2. CASE j # i
    <3>1. In(unhandled', j) <=> In(unhandled, j)
      BY <1>4, <1>5, <2>1, <2>2
    <3>2. Waiting(j)' <=> Waiting(j)
      BY <3>1, Zenon DEF Waiting, In
    <3>3. file_buff'[j] = file_buff[j] /\ value'[j] = value[j]
          /\ missed'[j] = missed[j] /\ delivered'[j] = delivered[j]
      BY <1>6, <1>8, <2>1, <2>2 DEF HandlerKeeps
    <3> QED
      BY <1>4, <1>8, <2>1, <3>2, <3>3, OthersKeepServed
  <2>3. CASE failed' = "null_file" /\ UNCHANGED <<value, missed, file_buff>>
    BY <1>8, <2>1, <2>3 DEF Served, Log
  <2>4. CASE j = i /\ NextWritten(i)
    <3>1. In(unhandled, i) /\ ~In(unhandled', i)
      BY <1>4, <1>5, <2>1
    <3>2. Waiting(i) /\ ~Waiting(i)'
      BY <3>1, Zenon DEF Waiting, In
    <3>3. Advanced(i)
      BY <1>1, <1>4, <1>8, <2>1, <2>4, <3>2, HandlerHolds
    <3>4. /\ file_buff'[i].path \in DOMAIN files'
          /\ delivered'[i] = delivered[i]
      BY <1>8, <2>1, <2>4, <3>3 DEF Served, Advanced
    <3>5. Passed(i)' = Len(delivered[i]) + Len(missed'[i])
      BY <3>4 DEF Passed
    <3>6. Served(i)'
      BY <1>8, <1>12, <3>2, <3>3, <3>4, <3>5, StillServed DEF Advanced
    <3> QED
      BY <2>4, <3>6
  <2> QED
    BY <1>7, <2>2, <2>3, <2>4
<1>14. ServerInv'
  BY <1>1, <1>4, <1>5, <1>8, <1>12, <1>13 DEF ServerInv
<1> QED
  BY <1>9, <1>10, <1>11, <1>14, TypePartsNext DEF Inv

\* What the characteristic holds is given: that is all up to the offset.
LEMMA AnswerHolds ==
    ASSUME SensorLogAssumption, TypeOK, CardInv, NEW i \in DOMAIN file_buff,
           Served(i), failed = "no", Deliver(i, value[i])
    PROVE  Gets(Log(i), delivered[i], missed[i], delivered'[i], Passed(i),
                file_buff[i].offset, value[i])
<1>1. /\ file_buff[i].path \in DOMAIN files
      /\ InOrder(Log(i), delivered[i], missed[i])
      /\ Holds(Log(i), Passed(i), file_buff[i].offset, value[i], delivered[i])
  BY DEF Served, AtOffset
<1>2. Log(i) \in Lines /\ Ascending(Log(i))
  BY <1>1, LogRises
<1>3. /\ missed[i] \in Lines /\ file_buff[i].offset \in Nat
      /\ Passed(i) \in Nat /\ value[i] \in Cells
      /\ Passed(i) = Len(delivered[i]) + Len(missed[i])
  BY ServedFileTypes, Zenon DEF Passed
<1> QED
  BY <1>1, <1>2, <1>3, DeliverHolds

\* A read that is answered ahead of its handler.
LEMMA AnsweredFirst ==
    ASSUME SensorLogAssumption, Inv, NEW i \in DOMAIN file_buff,
           answers_first, GatewayReads(i)
    PROVE  Inv'
<1>1. CardOK /\ ServerOK /\ OthersOK /\ CardInv /\ ServerInv /\ TypeOK
  BY TypeParts DEF Inv
<1>2. /\ phase = "run" /\ failed = "no" /\ Deliver(i, value[i])
      /\ unhandled' = Append(unhandled, i)
      /\ hasty' = (hasty \/ In(unhandled, i))
      /\ UNCHANGED <<failed, value, missed, file_buff, faults>>
      /\ UNCHANGED <<phase, card, answers_first, erased, rounds, erases,
                     restarts>>
  BY DEF GatewayReads, In
<1>3. CardOK' /\ CardInv' /\ UNCHANGED files
  BY <1>1, <1>2 DEF CardOK, CardInv, card
<1>4. OthersOK'
  <2>1. hasty' \in BOOLEAN
    BY <1>1, <1>2, Zenon DEF OthersOK, In
  <2> QED
    BY <1>1, <1>2, <2>1 DEF OthersOK
<1>5. /\ Append(unhandled, i) \in Seq(DOMAIN file_buff)
      /\ In(Append(unhandled, i), i)
      /\ \A j \in DOMAIN file_buff :
            j # i => (In(Append(unhandled, i), j) <=> In(unhandled, j))
      /\ Distinct(unhandled) /\ ~In(unhandled, i) =>
            Distinct(Append(unhandled, i))
  BY <1>1, AppendToReads DEF ServerOK
<1>6. /\ delivered' \in Seq(Got) /\ Len(delivered') = Len(delivered)
      /\ \A j \in DOMAIN file_buff \ {i} : delivered'[j] = delivered[j]
  BY <1>1, <1>2, DeliverTypes, ServedFileTypes
<1>7. ServerOK'
  BY <1>1, <1>2, <1>5, <1>6 DEF ServerOK
<1>8. ASSUME ~erased', ~hasty', NEW j \in DOMAIN file_buff'
      PROVE  Served(j)'
  <2>1. j \in DOMAIN file_buff /\ Served(j) /\ ~In(unhandled, i)
    BY <1>1, <1>2, <1>8 DEF ServerInv
  <2>2. CASE j # i
    <3>1. In(unhandled', j) <=> In(unhandled, j)
      BY <1>2, <1>5, <2>1, <2>2
    <3>2. Waiting(j)' <=> Waiting(j)
      BY <3>1, Zenon DEF Waiting, In
    <3>3. file_buff'[j] = file_buff[j] /\ value'[j] = value[j]
          /\ missed'[j] = missed[j] /\ delivered'[j] = delivered[j]
      BY <1>2, <1>6, <2>1, <2>2
    <3> QED
      BY <1>2, <1>3, <2>1, <3>2, <3>3, OthersKeepServed
  <2>3. CASE j = i
    <3>1. ~In(unhandled, i) /\ In(unhandled', i)
      BY <1>2, <1>5, <2>1
    <3>2. ~Waiting(i) /\ Waiting(i)'
      BY <3>1, Zenon DEF Waiting, In
    <3>3. InPlace(Log(i), delivered'[i], missed[i], file_buff[i].offset,
                  value[i])
      BY <1>1, <1>2, <2>1, <2>3, AnswerHolds DEF Gets
    <3>4. /\ file_buff'[i].path \in DOMAIN files' /\ Log(i)' = Log(i)
          /\ Passed(i)' = file_buff[i].offset
      BY <1>2, <1>3, <2>1, <2>3, <3>3 DEF Served, Log, Passed, InPlace
    <3>5. Served(i)'
      BY <1>2, <3>3, <3>4, StillServed DEF InPlace
    <3> QED
      BY <2>3, <3>5
  <2> QED
    BY <2>2, <2>3
<1>9. ServerInv'
  <2>1. ~hasty' => Distinct(unhandled')
    BY <1>1, <1>2, <1>5 DEF ServerInv
  <2>2. answers_first' /\ phase' = "run"
    BY <1>2
  <2> QED
    BY <1>8, <2>1, <2>2, Zenon DEF ServerInv
<1> QED
  BY <1>3, <1>4, <1>7, <1>9, TypePartsNext DEF Inv

\* What the handler writes has its type.
LEMMA HandledTypes ==
    ASSUME TypeOK, NEW i \in DOMAIN file_buff, HandlerKeeps(i)
    PROVE  value'[i] \in Cells
<1>1. value' \in Seq(Cells) /\ Len(value') = Len(file_buff)
  BY DEF HandlerKeeps, TypeOK
<1>2. i \in 1 .. Len(file_buff)
  BY LenProperties DEF TypeOK
<1> QED
  BY <1>1, <1>2, ElementOfSeq

\* What the handler has just written is given, too, or missed.
LEMMA HandledHolds ==
    ASSUME SensorLogAssumption, TypeOK, CardInv, NEW i \in DOMAIN file_buff,
           Served(i), failed = "no", NextWritten(i), files' = files,
           ~answers_first, Deliver(i, value'[i])
    PROVE  /\ Advanced(i)
           /\ Gets(Log(i), delivered[i], missed'[i], delivered'[i],
                   Len(delivered[i]) + Len(missed'[i]), file_buff'[i].offset,
                   value'[i])
<1>1. Advanced(i)
  BY HandlerHolds
<1>2. Log(i) \in Lines /\ Ascending(Log(i))
  BY LogRises DEF Served
<1> DEFINE cells == value'[i]
           lost  == missed'[i]
           to    == file_buff'[i].offset
           from  == Len(delivered[i]) + Len(lost)
<1>3. /\ cells \in Cells /\ lost \in Lines /\ to \in Nat
      /\ Deliver(i, cells)
      /\ InOrder(Log(i), delivered[i], lost)
      /\ Holds(Log(i), from, to, cells, delivered[i])
  BY <1>1 DEF Advanced
<1>4. from \in Nat
  <2>1. Len(delivered[i]) \in Nat
    BY ServedFileTypes
  <2>2. Len(lost) \in Nat
    BY <1>3, LenProperties DEF Lines
  <2> HIDE DEF lost
  <2> QED
    BY <2>1, <2>2
<1>5. from = Len(delivered[i]) + Len(lost)
  OBVIOUS
<1> HIDE DEF cells, lost, to, from
<1>6. Gets(Log(i), delivered[i], lost, delivered'[i], from, to, cells)
  BY <1>2, <1>3, <1>4, <1>5, DeliverHolds
<1> QED
  BY <1>1, <1>6 DEF cells, lost, to, from

\* A read that is answered behind its handler.
LEMMA AnsweredLast ==
    ASSUME SensorLogAssumption, Inv, NEW i \in DOMAIN file_buff,
           ~answers_first, GatewayReads(i)
    PROVE  Inv'
<1>1. CardOK /\ ServerOK /\ OthersOK /\ CardInv /\ ServerInv /\ TypeOK
  BY TypeParts DEF Inv
<1>2. /\ phase = "run" /\ failed = "no" /\ HandleRead(i)
      /\ IF failed' # "no" THEN UNCHANGED delivered ELSE Deliver(i, value'[i])
      /\ UNCHANGED <<unhandled, hasty>>
      /\ UNCHANGED <<phase, card, answers_first, erased, rounds, erases,
                     restarts>>
  BY DEF GatewayReads
<1>3. CardOK' /\ CardInv' /\ UNCHANGED files
  BY <1>1, <1>2 DEF CardOK, CardInv, card
<1>4. HandlerKeeps(i)
  BY <1>1, <1>2, HandleReadCases
<1>5. /\ faults' \in 0 .. MAX_FAULTS
      /\ \/ failed' = "null_file" /\ UNCHANGED <<value, missed, file_buff>>
         \/ failed' = "no" /\ NextWritten(i)
  BY <1>1, <1>2, HandleReadCases
<1>6. OthersOK'
  BY <1>1, <1>2, <1>5 DEF OthersOK
<1>7. /\ delivered' \in Seq(Got) /\ Len(delivered') = Len(delivered)
      /\ \A j \in DOMAIN file_buff \ {i} : delivered'[j] = delivered[j]
  <2>1. CASE failed' # "no"
    BY <1>1, <1>2, <2>1 DEF ServerOK
  <2>2. CASE failed' = "no"
    <3>1. value'[i] \in Cells
      BY <1>1, <1>4, HandledTypes
    <3> QED
      BY <1>1, <1>2, <2>2, <3>1, DeliverTypes
  <2> QED
    BY <2>1, <2>2
<1>8. ServerOK'
  BY <1>1, <1>2, <1>4, <1>7 DEF ServerOK, HandlerKeeps
<1>9. ASSUME ~erased', ~hasty', NEW j \in DOMAIN file_buff'
      PROVE  Served(j)'
  <2>1. j \in DOMAIN file_buff /\ Served(j)
    BY <1>1, <1>2, <1>4, <1>9 DEF ServerInv, HandlerKeeps
  <2>2. CASE j # i
    <3>1. Waiting(j)' <=> Waiting(j)
      BY <1>2 DEF Waiting
    <3>2. file_buff'[j] = file_buff[j] /\ value'[j] = value[j]
          /\ missed'[j] = missed[j] /\ delivered'[j] = delivered[j]
      BY <1>4, <1>7, <2>1, <2>2 DEF HandlerKeeps
    <3> QED
      BY <1>2, <1>3, <2>1, <3>1, <3>2, OthersKeepServed
  <2>3. CASE failed' = "null_file" /\ UNCHANGED <<value, missed, file_buff>>
    <3>1. UNCHANGED delivered
      BY <1>2, <2>3
    <3> QED
      BY <1>3, <2>1, <2>3, <3>1 DEF Served, Log
  <2>4. CASE j = i /\ failed' = "no" /\ NextWritten(i)
    <3>1. /\ InPlace(Log(i), delivered'[i], missed'[i], file_buff'[i].offset,
                     value'[i])
          /\ Advanced(i)
      BY <1>1, <1>2, <1>3, <2>1, <2>4, HandledHolds DEF Gets
    <3>2. /\ file_buff'[i].path \in DOMAIN files' /\ Log(i)' = Log(i)
          /\ Passed(i)' = file_buff'[i].offset
      BY <1>3, <2>1, <2>4, <3>1 DEF Served, Passed, InPlace, Advanced
    <3>3. Served(i)'
      BY <3>1, <3>2, StillServed DEF InPlace
    <3> QED
      BY <2>4, <3>3
  <2> QED
    BY <1>5, <2>2, <2>3, <2>4
<1>10. ServerInv'
  <2>1. unhandled' = <<>> /\ phase' = "run"
    BY <1>1, <1>2 DEF ServerInv
  <2>2. DOMAIN <<>> = {}
    OBVIOUS
  <2> QED
    BY <1>9, <2>1, <2>2 DEF ServerInv, Distinct
<1> QED
  BY <1>3, <1>6, <1>8, <1>10, TypePartsNext DEF Inv
---------------------------------------------------------------------------
(***************************************************************************)
(* The theorems.                                                           *)
(***************************************************************************)

\* A state without files, served files or reads is a start of the invariant.
LEMMA InitialState ==
    ASSUME SensorLogAssumption, Init
    PROVE  Inv
<1>1. DOMAIN files = {} /\ DOMAIN <<>> = {} /\ Len(<<>>) = 0
  BY DEF Init, NoFiles
<1>2. /\ <<>> \in Seq(ServedFile) /\ <<>> \in Seq(Cells) /\ <<>> \in Seq(Lines)
      /\ <<>> \in Seq(DOMAIN <<>>) /\ <<>> \in Seq(Got)
  BY EmptySeq
<1>3. CardOK /\ OthersOK
  <2>1. CardOK
    BY <1>1, Zenon DEF Init, CardOK
  <2>2. \A n \in Nat : n \in 0 .. n
    OBVIOUS
  <2>3. OthersOK
    BY <2>2, Counting, Zenon DEF Init, OthersOK
  <2> QED
    BY <2>1, <2>3
<1>4. ServerOK
  <2>1. 0 <= MAX_CHARACTERISTIC_NUM
    BY Counting
  <2> QED
    BY <1>1, <1>2, <2>1 DEF Init, ServerOK
<1>5. CardInv
  BY <1>1, FS_EmptySet DEF CardInv
<1>6. ServerInv
  BY <1>1 DEF Init, ServerInv, Distinct
<1> QED
  BY <1>3, <1>4, <1>5, <1>6, TypeParts DEF Inv

\* Each step keeps the invariant.
LEMMA InvIsInductive ==
    ASSUME SensorLogAssumption, Inv, [Next]_vars
    PROVE  Inv'
<1>1. CASE init_sd_card
  BY <1>1, InitCard
<1>2. CASE start
  BY <1>2, ServerStarts
<1>3. CASE reformat_sd_card
  BY <1>3, EraseButton
<1>4. ASSUME NEW b \in Beacons, record_beacon(b)
      PROVE  Inv'
  BY <1>4, Round
<1>5. CASE when_data_read_by_client
  BY <1>5, ReadHandled
<1>6. ASSUME NEW i \in 1 .. MAX_CHARACTERISTIC_NUM, GatewayReads(i)
      PROVE  Inv'
  <2>1. i \in DOMAIN file_buff
    BY <1>6 DEF GatewayReads
  <2> QED
    BY <1>6, <2>1, AnsweredFirst, AnsweredLast
<1>7. CASE Restart
  BY <1>7, PowerLost
<1>8. CASE UNCHANGED vars
  <2>1. UNCHANGED <<phase, failed, ready_to_write, mounted, formatted, files,
                    file_buff, value, missed, unhandled, answers_first,
                    delivered, hasty, erased, rounds, erases, restarts,
                    faults>>
    BY <1>8 DEF vars, card, server, gateway, bounds
  <2>2. CardOK' /\ ServerOK' /\ OthersOK'
    BY <2>1, TypeParts DEF Inv, CardOK, ServerOK, OthersOK
  <2>3. CardInv'
    BY <2>1 DEF Inv, CardInv
  <2>4. \A i \in DOMAIN file_buff : Served(i) => Served(i)'
    BY <2>1 DEF Served, AtOffset, Passed, Waiting, Log
  <2>5. ServerInv'
    BY <2>1, <2>4, Zenon DEF Inv, ServerInv, Distinct
  <2> QED
    BY <2>2, <2>3, <2>5, TypePartsNext DEF Inv
<1> QED
  BY <1>1, <1>2, <1>3, <1>4, <1>5, <1>6, <1>7, <1>8 DEF Next

\* The invariant holds of every state the program reaches.
THEOREM InvHolds == Spec => []Inv
<1>1. Init => Inv
  BY SensorLogAssumption, InitialState
<1>2. Inv /\ [Next]_vars => Inv'
  BY SensorLogAssumption, InvIsInductive
<1> QED
  BY <1>1, <1>2, PTL DEF Spec

\* The types, and that the card is written only when it is mounted.
THEOREM TypeCorrect == Spec => []TypeOK
<1>1. Inv => TypeOK
  BY DEF Inv
<1> QED
  BY <1>1, InvHolds, PTL

\* What the gateway has read of a file through when_data_read_by_client is, in
\* order and none of it twice, the beginning of that file without the chunks
\* whose write failed, although the characteristic keeps old lines: whatever
\* record_beacon appends, whatever fails and whenever the stack answers, until
\* the card is erased or the gateway reads a file again before its last read is
\* handled.
THEOREM ServedInOrderHolds == Spec => []ServedInOrder
<1>1. Inv => ServedInOrder
  BY DEF Inv, ServerInv, Served, ServedInOrder, Counts, InOrder, Passed,
         FirstOf
<1> QED
  BY <1>1, InvHolds, PTL

\* No step but a press of the erase button, or a card that fails to mount,
\* takes a line from the log or changes one: record_beacon appends, also when
\* the power goes during it, and the server writes no file.
THEOREM LogOnlyGrowsHolds == Spec => LogOnlyGrows
<1> DEFINE Grows ==
             \/ erases' # erases
             \/ init_sd_card /\ faults' # faults
             \/ \A f \in DOMAIN files :
                   f \in DOMAIN files' /\ IsPrefix(files[f], files'[f])
<1>1. ASSUME Inv, Next
      PROVE  Grows
  <2>1. TypeOK /\ CardInv /\ erases \in Nat /\ faults \in Nat
    BY <1>1, SensorLogAssumption, Counting DEF Inv, TypeOK
  <2>2. CASE UNCHANGED files
    <3>1. \A f \in DOMAIN files : files[f] \in Seq(1 .. MAX_ROUNDS)
      BY <2>1 DEF TypeOK, Lines
    <3> QED
      BY <2>2, <3>1, PrefixOfAppend
  <2>3. CASE init_sd_card
    <3>1. CASE Mount
      BY <2>2, <3>1 DEF Mount
    <3>2. CASE ~formatted
      BY <2>1, <3>2 DEF CardInv
    <3>3. CASE formatted /\ faults > 0 /\ Reformat(faults - 1)
      <4>1. faults' = faults - 1 \/ faults' = (faults - 1) - 1
        BY <3>3, Zenon DEF Reformat
      <4>2. faults' # faults
        BY <2>1, <4>1
      <4> QED
        BY <2>3, <4>2
    <3> QED
      BY <2>3, <3>1, <3>2, <3>3 DEF init_sd_card
  <2>4. CASE reformat_sd_card
    BY <2>1, <2>4 DEF reformat_sd_card
  <2>5. ASSUME NEW b \in Beacons, record_beacon(b)
        PROVE  Grows
    BY <2>1, <2>5, SensorLogAssumption, RoundExtends DEF CardGrows, Extends
  <2>6. CASE Restart
    BY <2>1, <2>6, SensorLogAssumption, RestartExtends DEF CardGrows, Extends
  <2>7. CASE start \/ when_data_read_by_client
    BY <2>2, <2>7 DEF start, when_data_read_by_client, card
  <2>8. ASSUME NEW i \in 1 .. MAX_CHARACTERISTIC_NUM, GatewayReads(i)
        PROVE  Grows
    BY <2>2, <2>8 DEF GatewayReads, card
  <2> QED
    BY <1>1, <2>3, <2>4, <2>5, <2>6, <2>7, <2>8 DEF Next
<1>2. Inv /\ [Next]_vars => [Grows]_vars
  BY <1>1
<1> QED
  BY <1>2, InvHolds, PTL DEF Spec, LogOnlyGrows
---------------------------------------------------------------------------
(***************************************************************************)
(* The service that LogService describes.                                  *)
(***************************************************************************)

\* A server that serves nothing, before it starts or for want of a file, is
\* a service that is over.
LEMMA NoService ==
    ASSUME NEW buff, NEW sent, NEW S, sent \in Seq(S), Len(sent) = Len(buff),
           buff = <<>>
    PROVE  sent = <<>> /\ [i \in DOMAIN buff |-> buff[i].path] = <<>>
<1>1. Len(<<>>) = 0
  BY EmptySeq
<1>2. sent = <<>>
  BY <1>1, EmptySeq
<1>3. [i \in DOMAIN buff |-> buff[i].path] = <<>>
  OBVIOUS
<1> QED
  BY <1>2, <1>3

\* Before the server runs there is no service.
LEMMA NoServiceYet ==
    ASSUME Inv, file_buff = <<>>
    PROVE  ServedPaths = <<>> /\ GivenLines = <<>> /\ SkippedLines = <<>>
<1>1. /\ delivered \in Seq(Got) /\ Len(delivered) = Len(file_buff)
      /\ missed \in Seq(Lines) /\ Len(missed) = Len(file_buff)
  BY DEF Inv, TypeOK, Got
<1> QED
  BY <1>1, NoService DEF ServedPaths, GivenLines, SkippedLines

\* The same in the next state.
LEMMA NoServiceNext ==
    ASSUME Inv', file_buff' = <<>>
    PROVE  ServedPaths' = <<>> /\ GivenLines' = <<>> /\ SkippedLines' = <<>>
<1>1. /\ delivered' \in Seq(Got) /\ Len(delivered') = Len(file_buff')
      /\ missed' \in Seq(Lines) /\ Len(missed') = Len(file_buff')
  BY DEF Inv, TypeOK, Got
<1>2. /\ delivered' = <<>> /\ missed' = <<>>
      /\ [i \in DOMAIN file_buff' |-> file_buff'[i].path] = <<>>
  BY <1>1, NoService
<1> QED
  BY <1>2 DEF ServedPaths, GivenLines, SkippedLines

\* A state of the service that shows nothing of a step.
SameService ==
    /\ UNCHANGED <<files, rounds>>
    /\ UNCHANGED <<ServedPaths, GivenLines, SkippedLines>>

\* SetToSeq puts each element of a finite set at one place.
LEMMA SetToSeqTakesEachOnce ==
    ASSUME NEW S, IsFiniteSet(S)
    PROVE  LET s == SetToSeq(S)
           IN  /\ DOMAIN s = 1 .. Cardinality(S)
               /\ \A k \in DOMAIN s : s[k] \in S
               /\ \A f \in S : \E k \in DOMAIN s : s[k] = f
               /\ \A j, k \in DOMAIN s : s[j] = s[k] => j = k
<1> DEFINE n == Cardinality(S)
<1>1. n \in Nat /\ ExistsBijection(1 .. n, S)
  BY FS_CardinalityType
<1>2. \E f \in [1 .. n -> S] : IsInjective(f)
  BY <1>1 DEF ExistsBijection, Bijection, Injection
<1>3. SetToSeq(S) \in [1 .. n -> S] /\ IsInjective(SetToSeq(S))
  BY <1>2 DEF SetToSeq
<1>4. SetToSeq(S) \in Injection(1 .. n, S)
  BY <1>3 DEF Injection
<1>5. Cardinality(1 .. n) = Cardinality(S)
  BY <1>1, FS_Interval
<1>6. SetToSeq(S) \in Surjection(1 .. n, S)
  BY <1>4, <1>5, FS_Injection
<1> QED
  BY <1>3, <1>6 DEF Surjection, IsInjective

\* Every line that is written in a round is the number of this round, in a
\* file of its beacon.
LEMMA AppendedIsRecorded ==
    ASSUME SensorLogAssumption, NEW b \in Beacons,
           rounds \in Nat, rounds' = rounds - 1,
           NEW n \in 0 .. Len(SlotTypes[b]), NEW written \in SUBSET (1 .. n),
           files' = Appended(b, 1 .. n, written)
    PROVE  Service!Recorded(b)
<1> DEFINE mine == FilesOf(b)
           line == MAX_ROUNDS - rounds + 1
           old(f) == IF f \in DOMAIN files THEN files[f] ELSE <<>>
<1>1. MAX_ROUNDS - rounds' = line
  BY Counting
<1>2. \A i \in 1 .. n : Path(b, i) \in mine
  <2>1. DOMAIN SlotTypes[b] = 1 .. Len(SlotTypes[b])
        /\ Len(SlotTypes[b]) \in Nat
    BY LenProperties DEF SensorLogAssumption
  <2> QED
    BY <2>1 DEF Path, FilesOf
<1>3. DOMAIN files' = DOMAIN files \cup {Path(b, i) : i \in 1 .. n}
  BY DEF Appended
<1>4. ASSUME NEW f \in DOMAIN files'
      PROVE  files'[f] = old(f)
             \/ (f \in mine /\ files'[f] = Append(old(f), line))
  <2>1. files'[f] = IF \E i \in written : f = Path(b, i)
                    THEN Append(old(f), line) ELSE old(f)
    BY <1>3 DEF Appended
  <2> QED
    BY <1>2, <2>1
<1>5. [x \in Beacons |-> FilesOf(x)][b] = mine
  OBVIOUS
<1> QED
  BY <1>1, <1>2, <1>3, <1>4, <1>5 DEF Service!Recorded, Service!OldLines

\* A round of which no line reaches the card is a round, too.
LEMMA NothingIsRecorded ==
    ASSUME SensorLogAssumption, NEW b \in Beacons,
           rounds \in Nat, rounds' = rounds - 1, files' = files
    PROVE  Service!Recorded(b)
<1>1. MAX_ROUNDS - rounds' = (MAX_ROUNDS - rounds) + 1
  BY Counting
<1> QED
  BY <1>1 DEF Service!Recorded, Service!OldLines

\* record_beacon is Round.
LEMMA RecordIsRound ==
    ASSUME SensorLogAssumption, Inv, NEW b \in Beacons, record_beacon(b)
    PROVE  Service!Round(b)
<1>1. /\ UNCHANGED <<file_buff, delivered, missed, erased, hasty>>
      /\ rounds' = rounds - 1 /\ rounds \in Nat
  BY Counting DEF record_beacon, server, gateway, Inv, TypeOK
<1>2. UNCHANGED <<ServedPaths, GivenLines, SkippedLines>>
  BY <1>1 DEF ServedPaths, GivenLines, SkippedLines, Counts
<1>3. CASE ~ready_to_write
  <2>1. files' = files
    BY <1>3 DEF record_beacon
  <2>2. Service!Recorded(b)
    BY <1>1, <2>1, NothingIsRecorded
  <2> QED
    BY <1>2, <2>2 DEF Service!Round
<1>4. CASE ready_to_write
  <2>1. PICK n \in 0 .. Len(SlotTypes[b]) : \E lost \in SUBSET (1 .. n) :
           files' = Appended(b, 1 .. n, (1 .. n) \ lost)
    BY <1>4 DEF record_beacon
  <2>2. PICK lost \in SUBSET (1 .. n) :
           files' = Appended(b, 1 .. n, (1 .. n) \ lost)
    BY <2>1
  <2>3. (1 .. n) \ lost \in SUBSET (1 .. n)
    OBVIOUS
  <2>4. Service!Recorded(b)
    BY <1>1, <2>2, <2>3, AppendedIsRecorded
  <2> QED
    BY <1>2, <2>4 DEF Service!Round
<1> QED
  BY <1>3, <1>4

\* And so is what a restart leaves of one.
LEMMA HalfRoundIsRecorded ==
    ASSUME SensorLogAssumption, TypeOK, NEW b \in Beacons, HalfRound(b)
    PROVE  Service!Recorded(b)
<1>1. rounds \in Nat /\ rounds' = rounds - 1
  BY Counting DEF HalfRound, TypeOK
<1>2. PICK n \in 1 .. Len(SlotTypes[b]) : \E closed \in {n - 1, n} :
         files' = Appended(b, 1 .. n, 1 .. closed)
  BY DEF HalfRound
<1>3. PICK closed \in {n - 1, n} : files' = Appended(b, 1 .. n, 1 .. closed)
  BY <1>2
<1>4. Len(SlotTypes[b]) \in Nat
  BY LenProperties DEF SensorLogAssumption
<1>5. n \in 0 .. Len(SlotTypes[b]) /\ 1 .. closed \in SUBSET (1 .. n)
  BY <1>4
<1> QED
  BY <1>1, <1>3, <1>5, AppendedIsRecorded

\* start is Open, if it finds files and has room for them: SetToSeq takes each
\* file once.
LEMMA StartIsOpen ==
    ASSUME SensorLogAssumption, Inv, Inv', start
    PROVE  Service!Open \/ SameService
<1>1. /\ phase = "dispatch" /\ file_buff = <<>> /\ ~hasty /\ hasty' = hasty
      /\ erased' = FALSE /\ UNCHANGED <<files, rounds>>
  BY DEF start, Inv, ServerInv, card
<1>2. ServedPaths = <<>> /\ GivenLines = <<>> /\ SkippedLines = <<>>
  BY <1>1, NoServiceYet
<1>3. CASE Serve(<<>>)
  <2>1. file_buff' = <<>>
    BY <1>3 DEF Serve
  <2> QED
    BY <1>1, <1>2, <2>1, NoServiceNext DEF SameService
<1>4. CASE Serve(SetToSeq(DOMAIN files))
  <2> DEFINE S == DOMAIN files
             paths == SetToSeq(S)
  <2>1. IsFiniteSet(S)
    BY DEF Inv, CardInv
  <2>2. /\ DOMAIN paths = 1 .. Cardinality(S)
        /\ \A k \in DOMAIN paths : paths[k] \in S
        /\ \A f \in S : \E k \in DOMAIN paths : paths[k] = f
        /\ \A j, k \in DOMAIN paths : paths[j] = paths[k] => j = k
    BY <2>1, SetToSeqTakesEachOnce
  <2> HIDE DEF paths
  <2>3. file_buff' = [i \in DOMAIN paths |-> [path |-> paths[i], offset |-> 0]]
        /\ delivered' = [i \in DOMAIN paths |-> <<>>]
        /\ missed' = [i \in DOMAIN paths |-> <<>>]
    BY <1>4 DEF Serve, paths
  <2>4. ServedPaths' = [i \in DOMAIN paths |-> paths[i]]
    BY <1>1, <2>3 DEF ServedPaths, Counts
  <2>5. GivenLines' = [k \in DOMAIN ServedPaths' |-> <<>>]
    BY <1>1, <2>3, <2>4 DEF GivenLines, Counts
  <2>6. SkippedLines' = GivenLines'
    BY <1>1, <2>3 DEF GivenLines, SkippedLines, Counts
  <2>7. Service!Open
    BY <1>1, <1>2, <2>2, <2>4, <2>5, <2>6 DEF Service!Open
  <2> QED
    BY <2>7
<1> QED
  BY <1>3, <1>4 DEF start, FilesFound, NothingServed

\* The end of a service, by which nothing of the log is lost but all of it.
LEMMA ServiceOver ==
    ASSUME ServedPaths' = <<>>, GivenLines' = <<>>, SkippedLines' = <<>>,
           files' = files \/ files' = NoFiles, UNCHANGED rounds
    PROVE  Service!Close
BY DEF Service!Close

\* Or in the middle of a round.
LEMMA ServiceCut ==
    ASSUME ServedPaths' = <<>>, GivenLines' = <<>>, SkippedLines' = <<>>,
           NEW b \in Beacons, Service!Recorded(b)
    PROVE  Service!Close
BY DEF Service!Close

\* A reformat erases the log or leaves it.
LEMMA ReformatErases ==
    ASSUME NEW n, Reformat(n)
    PROVE  files' = files \/ files' = NoFiles
BY DEF Reformat

\* init_sd_card is Close, which erases the log when the card must be made anew.
LEMMA InitIsClose ==
    ASSUME Inv, Inv', init_sd_card
    PROVE  Service!Close
<1>1. file_buff = <<>> /\ UNCHANGED <<file_buff, rounds>>
  BY DEF init_sd_card, server, Inv, ServerInv
<1>2. files' = files \/ files' = NoFiles
  BY ReformatErases DEF init_sd_card, Mount
<1> QED
  BY <1>1, <1>2, NoServiceNext, ServiceOver

\* reformat_sd_card is Close: the files served are gone, or may be.
LEMMA EraseIsClose ==
    ASSUME reformat_sd_card
    PROVE  Service!Close
<1>1. ServedPaths' = <<>> /\ GivenLines' = <<>> /\ SkippedLines' = <<>>
  BY DEF reformat_sd_card, ServedPaths, GivenLines, SkippedLines, Counts
<1>2. (files' = files \/ files' = NoFiles) /\ UNCHANGED rounds
  BY ReformatErases DEF reformat_sd_card
<1> QED
  BY <1>1, <1>2, ServiceOver

\* Restart is Close: the log stays, or has a part of a round more.
LEMMA RestartIsClose ==
    ASSUME SensorLogAssumption, Inv, Inv', Restart
    PROVE  Service!Close
<1>1. file_buff' = <<>>
  BY DEF Restart, Serve
<1>2. ServedPaths' = <<>> /\ GivenLines' = <<>> /\ SkippedLines' = <<>>
  BY <1>1, NoServiceNext
<1>3. CASE UNCHANGED <<files, rounds>>
  BY <1>2, <1>3, ServiceOver
<1>4. ASSUME NEW b \in Beacons, HalfRound(b)
      PROVE  Service!Close
  <2>1. Service!Recorded(b)
    BY <1>4, HalfRoundIsRecorded DEF Inv
  <2> QED
    BY <1>2, <2>1, ServiceCut
<1> QED
  BY <1>3, <1>4 DEF Restart

\* A handler that moves offsets only leaves the files that are served.
LEMMA HandlerKeepsPaths ==
    ASSUME SensorLogAssumption, TypeOK, NEW i \in DOMAIN file_buff,
           HandleRead(i)
    PROVE  [j \in DOMAIN file_buff' |-> file_buff'[j].path] =
           [j \in DOMAIN file_buff |-> file_buff[j].path]
<1>1. DOMAIN file_buff' = DOMAIN file_buff
      /\ \A j \in DOMAIN file_buff \ {i} : file_buff'[j] = file_buff[j]
  BY HandleReadCases DEF HandlerKeeps
<1>2. file_buff'[i].path = file_buff[i].path
  <2>1. CASE UNCHANGED file_buff
    BY <2>1
  <2>2. CASE NextWritten(i)
    <3>1. PICK lines \in Lines : WriteOf(i, lines)
      BY <2>2 DEF NextWritten
    <3>2. file_buff'[i] = [path   |-> file_buff[i].path,
                           offset |-> file_buff[i].offset + Len(lines)]
      BY <3>1 DEF WriteOf
    <3> QED
      BY <3>2
  <2> QED
    BY <2>1, <2>2, HandleReadCases
<1> QED
  BY <1>1, <1>2

\* What the service shows of a program that counts.
LEMMA ShownAsIs ==
    ASSUME Counts
    PROVE  /\ GivenLines = delivered /\ SkippedLines = missed
           /\ ServedPaths = [j \in DOMAIN file_buff |-> file_buff[j].path]
BY DEF GivenLines, SkippedLines, ServedPaths

\* The same in the next state.
LEMMA ShownAsIsNext ==
    ASSUME Counts'
    PROVE  /\ GivenLines' = delivered' /\ SkippedLines' = missed'
           /\ ServedPaths' = [j \in DOMAIN file_buff' |-> file_buff'[j].path]
BY DEF GivenLines, SkippedLines, ServedPaths

\* Lines behind those given or missed, up to a chunk, are a Read.
LEMMA LinesAreRead ==
    ASSUME SensorLogAssumption, TypeOK, NEW i \in DOMAIN file_buff,
           Counts, Counts', UNCHANGED <<files, rounds, missed>>,
           UNCHANGED ServedPaths, Len(Log(i)) \in Nat,
           delivered' \in Seq(Got), Len(delivered') = Len(delivered),
           \A j \in DOMAIN file_buff \ {i} : delivered'[j] = delivered[j],
           NEW to \in Nat, Passed(i) <= to, to <= Len(Log(i)),
           to <= Passed(i) + MAX_READ_BYTES,
           delivered'[i] = delivered[i] \o SubSeq(Log(i), Passed(i) + 1, to)
    PROVE  Service!Read(i)
<1>1. /\ GivenLines = delivered /\ GivenLines' = delivered'
      /\ SkippedLines = missed /\ SkippedLines' = missed
      /\ files[ServedPaths[i]] = Log(i)
  BY ShownAsIs, ShownAsIsNext DEF Log
<1>2. /\ Passed(i) \in Nat /\ MAX_READ_BYTES \in Nat
      /\ Passed(i) = Len(delivered[i]) + Len(missed[i])
  BY ServedFileTypes, Zenon DEF SensorLogAssumption, Passed
<1> DEFINE n    == to - Passed(i)
           more == delivered[i] \o SubSeq(Log(i), Passed(i) + 1, to)
<1>3. n \in 0 .. MAX_READ_BYTES /\ Passed(i) + n = to
  <2>1. \A k, l, m \in Nat :
           k <= l /\ l <= k + m => l - k \in 0 .. m /\ k + (l - k) = l
    OBVIOUS
  <2> QED
    BY <1>2, <2>1, Zenon
<1>4. /\ DOMAIN delivered = DOMAIN file_buff
      /\ DOMAIN delivered' = DOMAIN delivered
  BY LenProperties DEF TypeOK
<1>5. delivered' = [delivered EXCEPT ![i] = more]
  BY <1>4, LenProperties
<1> HIDE DEF n
<1>6. Service!Available(i, n)
  BY <1>1, <1>2, <1>3 DEF Service!Available
<1>7. delivered[i] \o Service!Following(i, n) = more
  BY <1>1, <1>2, <1>3 DEF Service!Following
<1> QED
  BY <1>1, <1>3, <1>5, <1>6, <1>7 DEF Service!Read

\* Lines that are missed are a Skip.
LEMMA LinesAreSkipped ==
    ASSUME SensorLogAssumption, TypeOK, NEW i \in DOMAIN file_buff,
           Counts, Counts', UNCHANGED <<files, rounds, delivered>>,
           UNCHANGED ServedPaths, HandlerKeeps(i),
           NEW n \in 0 .. MAX_READ_BYTES, MissedMore(i, n)
    PROVE  Service!Skip(i)
<1>1. /\ GivenLines = delivered /\ GivenLines' = delivered
      /\ SkippedLines = missed /\ SkippedLines' = missed'
      /\ files[ServedPaths[i]] = Log(i)
  BY ShownAsIs, ShownAsIsNext DEF Log
<1>2. Passed(i) = Len(delivered[i]) + Len(missed[i])
  BY Zenon DEF Passed
<1> DEFINE more == missed[i] \o SubSeq(Log(i), Passed(i) + 1, Passed(i) + n)
<1>3. missed'[i] = more /\ Passed(i) + n <= Len(Log(i))
  BY DEF MissedMore
<1>4. /\ DOMAIN missed = DOMAIN file_buff /\ DOMAIN missed' = DOMAIN missed
      /\ \A j \in DOMAIN file_buff \ {i} : missed'[j] = missed[j]
  BY LenProperties DEF TypeOK, HandlerKeeps
<1>5. missed' = [missed EXCEPT ![i] = more]
  <2>1. missed' \in Seq(Lines)
    BY DEF HandlerKeeps
  <2> QED
    BY <1>3, <1>4, <2>1, LenProperties
<1>6. Service!Available(i, n)
  BY <1>1, <1>2, <1>3 DEF Service!Available
<1>7. missed[i] \o Service!Following(i, n) = more
  BY <1>1, <1>2 DEF Service!Following
<1> QED
  BY <1>1, <1>5, <1>6, <1>7 DEF Service!Skip

\* A handler whose write succeeds leaves what was missed.
LEMMA NothingMissed ==
    ASSUME TypeOK, NEW i \in DOMAIN file_buff, HandlerKeeps(i),
           missed'[i] = missed[i]
    PROVE  missed' = missed
<1>1. /\ missed \in Seq(Lines) /\ missed' \in Seq(Lines)
      /\ Len(missed') = Len(missed) /\ DOMAIN file_buff = 1 .. Len(missed)
  BY LenProperties DEF TypeOK, HandlerKeeps
<1>2. \A j \in 1 .. Len(missed) : missed'[j] = missed[j]
  BY <1>1 DEF HandlerKeeps
<1> QED
  BY <1>1, <1>2, SeqEqual

\* when_data_read_by_client prepares the next answer: no line is given yet,
\* and those are skipped that cannot be written.
LEMMA HandlerSkips ==
    ASSUME SensorLogAssumption, Inv, when_data_read_by_client
    PROVE  \/ SameService
           \/ Counts /\ \E i \in DOMAIN file_buff : Service!Skip(i)
<1>1. TypeOK /\ ServerOK /\ CardInv /\ ServerInv
  BY TypeParts DEF Inv
<1>2. /\ Head(unhandled) \in DOMAIN file_buff
      /\ In(unhandled, Head(unhandled))
  BY <1>1, TailOfReads DEF ServerOK, when_data_read_by_client
<1>3. PICK i \in DOMAIN file_buff : i = Head(unhandled)
  BY <1>2
<1>4. /\ HandleRead(i) /\ failed = "no"
      /\ UNCHANGED <<files, rounds, delivered, erased, hasty>>
  BY <1>3 DEF when_data_read_by_client, card, gateway
<1>5. /\ HandlerKeeps(i)
      /\ \/ failed' = "null_file" /\ UNCHANGED <<value, missed, file_buff>>
         \/ NextWritten(i)
  BY <1>1, <1>4, HandleReadCases
<1>6. UNCHANGED ServedPaths
  BY <1>1, <1>4, HandlerKeepsPaths DEF ServedPaths, Counts
<1>7. UNCHANGED GivenLines
  BY <1>4 DEF GivenLines, Counts
<1>8. CASE missed' = missed \/ ~Counts
  <2>1. UNCHANGED SkippedLines
    BY <1>4, <1>8 DEF SkippedLines, Counts
  <2> QED
    BY <1>4, <1>6, <1>7, <2>1 DEF SameService
<1>9. CASE Counts /\ NextWritten(i)
  <2>1. Served(i) /\ Waiting(i) /\ Counts'
    BY <1>1, <1>2, <1>3, <1>4, <1>9 DEF ServerInv, Counts, Waiting, In
  <2>2. \/ missed'[i] = missed[i]
        \/ \E n \in 0 .. MAX_READ_BYTES : MissedMore(i, n)
    BY <1>1, <1>4, <1>9, <2>1, HandlerHolds
  <2>3. CASE missed'[i] = missed[i]
    BY <1>1, <1>5, <1>8, <2>3, NothingMissed
  <2>4. ASSUME NEW n \in 0 .. MAX_READ_BYTES, MissedMore(i, n)
        PROVE  Service!Skip(i)
    BY <1>1, <1>4, <1>5, <1>6, <1>9, <2>1, <2>4, LinesAreSkipped
  <2> QED
    BY <1>9, <2>2, <2>3, <2>4
<1> QED
  BY <1>5, <1>8, <1>9

\* A service that no longer counts does not count again for a read.
LEMMA OverStaysOver ==
    ASSUME NEW i, GatewayReads(i), ~Counts
    PROVE  ~Counts'
<1>1. UNCHANGED erased /\ (hasty' = hasty \/ (hasty => hasty'))
  BY Zenon DEF GatewayReads
<1> QED
  BY <1>1, Zenon DEF Counts

\* A read that is answered ahead of its handler is a Read.
LEMMA FirstAnswerIsRead ==
    ASSUME SensorLogAssumption, Inv, NEW i \in DOMAIN file_buff,
           answers_first, GatewayReads(i), Counts, Counts'
    PROVE  Service!Read(i)
<1>1. /\ TypeOK /\ CardInv /\ Served(i) /\ failed = "no"
      /\ Deliver(i, value[i])
      /\ UNCHANGED <<files, rounds, missed, file_buff>>
  BY DEF Inv, ServerInv, Counts, GatewayReads, card
<1>2. UNCHANGED ServedPaths
  BY <1>1 DEF ServedPaths
<1>3. /\ delivered' \in Seq(Got) /\ Len(delivered') = Len(delivered)
      /\ \A j \in DOMAIN file_buff \ {i} : delivered'[j] = delivered[j]
  BY <1>1, DeliverTypes, ServedFileTypes
<1>4. /\ Passed(i) <= file_buff[i].offset
      /\ file_buff[i].offset <= Len(Log(i))
      /\ file_buff[i].offset <= Passed(i) + MAX_READ_BYTES
      /\ file_buff[i].offset \in Nat /\ Len(Log(i)) \in Nat
  BY <1>1, ServedFileTypes DEF Served, AtOffset, Holds
<1>5. delivered'[i] = delivered[i] \o SubSeq(Log(i), Passed(i) + 1,
                                             file_buff[i].offset)
  BY <1>1, AnswerHolds DEF Gets
<1> QED
  BY <1>1, <1>2, <1>3, <1>4, <1>5, LinesAreRead

\* One that is answered behind it is a Read, or a Skip if it cannot be
\* written.
LEMMA LastAnswerIsRead ==
    ASSUME SensorLogAssumption, Inv, NEW i \in DOMAIN file_buff,
           ~answers_first, GatewayReads(i), Counts, Counts'
    PROVE  Service!Read(i) \/ Service!Skip(i) \/ SameService
<1>1. /\ TypeOK /\ CardInv /\ Served(i) /\ failed = "no"
      /\ HandleRead(i)
      /\ IF failed' # "no" THEN UNCHANGED delivered ELSE Deliver(i, value'[i])
      /\ UNCHANGED <<files, rounds>>
  BY DEF Inv, ServerInv, Counts, GatewayReads, card
<1>2. UNCHANGED ServedPaths
  BY <1>1, HandlerKeepsPaths DEF ServedPaths
<1>3. /\ HandlerKeeps(i)
      /\ \/ failed' = "null_file" /\ UNCHANGED <<value, missed, file_buff>>
         \/ failed' = "no" /\ NextWritten(i)
  BY <1>1, HandleReadCases
<1>4. CASE failed' = "null_file" /\ UNCHANGED <<value, missed, file_buff>>
  <2>1. UNCHANGED <<delivered, missed>>
    BY <1>1, <1>4
  <2> QED
    BY <1>1, <1>2, <2>1 DEF SameService, GivenLines, SkippedLines
<1>5. CASE failed' = "no" /\ NextWritten(i)
  <2> DEFINE to   == file_buff'[i].offset
             from == Len(delivered[i]) + Len(missed'[i])
  <2>1. Deliver(i, value'[i]) /\ value'[i] \in Cells
    BY <1>1, <1>3, <1>5, HandledTypes
  <2>2. /\ delivered' \in Seq(Got) /\ Len(delivered') = Len(delivered)
        /\ \A j \in DOMAIN file_buff \ {i} : delivered'[j] = delivered[j]
    BY <1>1, <2>1, DeliverTypes
  <2>3. /\ Advanced(i)
        /\ delivered'[i] = delivered[i] \o SubSeq(Log(i), from + 1, to)
    BY <1>1, <1>5, <2>1, HandledHolds DEF Gets
  <2>4. /\ from <= to /\ to <= Len(Log(i)) /\ to <= from + MAX_READ_BYTES
        /\ to \in Nat
    BY <2>3 DEF Advanced, Holds
  <2>5. Len(Log(i)) \in Nat
    BY <1>1, ServedFileTypes DEF Served
  <2> HIDE DEF to
  <2>6. CASE missed'[i] = missed[i]
    <3>1. from = Passed(i)
      BY <2>6 DEF Passed
    <3> HIDE DEF from
    <3>2. missed' = missed
      BY <1>1, <1>3, <2>6, NothingMissed
    <3>3. /\ Passed(i) <= to /\ to <= Len(Log(i))
          /\ to <= Passed(i) + MAX_READ_BYTES
          /\ delivered'[i] = delivered[i] \o SubSeq(Log(i), Passed(i) + 1, to)
      BY <2>3, <2>4, <3>1
    <3> QED
      BY <1>1, <1>2, <2>2, <2>4, <2>5, <3>2, <3>3, LinesAreRead
  <2>7. ASSUME NEW n \in 0 .. MAX_READ_BYTES, MissedMore(i, n)
        PROVE  Service!Skip(i)
    <3>1. to = from
      BY <2>7 DEF MissedMore, to
    <3> HIDE DEF from
    <3>2. SubSeq(Log(i), from + 1, to) = <<>>
      BY <2>4, <3>1, SubSeqEmpty
    <3>3. delivered'[i] = delivered[i]
      <4>1. delivered[i] \in Got
        BY <1>1, ServedFileTypes
      <4>2. delivered[i] \o <<>> = delivered[i]
        BY <4>1, ConcatEmptySeq DEF Got
      <4> QED
        BY <2>3, <3>2, <4>2
    <3>4. delivered' = delivered
      <4>1. /\ delivered \in Seq(Got) /\ DOMAIN file_buff = 1 .. Len(delivered)
        BY <1>1, LenProperties DEF TypeOK, Got
      <4>2. \A j \in 1 .. Len(delivered) : delivered'[j] = delivered[j]
        BY <2>2, <3>3, <4>1
      <4> QED
        BY <2>2, <4>1, <4>2, SeqEqual
    <3> QED
      BY <1>1, <1>2, <1>3, <2>7, <3>4, LinesAreSkipped
  <2>8. \/ missed'[i] = missed[i]
        \/ \E n \in 0 .. MAX_READ_BYTES : MissedMore(i, n)
    BY <1>1, <1>5, HandlerHolds
  <2> QED
    BY <2>6, <2>7, <2>8
<1> QED
  BY <1>3, <1>4, <1>5

\* GatewayReads is Read or Skip, whether the value is the last chunk or the
\* next one; a read of a hasty gateway is Close.
LEMMA AnswerIsRead ==
    ASSUME SensorLogAssumption, Inv, NEW i \in DOMAIN file_buff,
           GatewayReads(i)
    PROVE  \/ Counts /\ (Service!Read(i) \/ Service!Skip(i))
           \/ Service!Close \/ SameService
<1>1. UNCHANGED <<files, rounds, erased>>
  BY DEF GatewayReads, card
<1>2. CASE ~Counts
  <2>1. ~Counts'
    BY <1>2, OverStaysOver
  <2> QED
    BY <1>1, <1>2, <2>1
       DEF SameService, ServedPaths, GivenLines, SkippedLines
<1>3. CASE ~Counts'
  BY <1>1, <1>3, ServiceOver DEF ServedPaths, GivenLines, SkippedLines
<1>4. CASE Counts /\ Counts'
  BY <1>4, FirstAnswerIsRead, LastAnswerIsRead
<1> QED
  BY <1>2, <1>3, <1>4

\* At power on there is no log that is known of, and no service.
LEMMA InitService ==
    ASSUME SensorLogAssumption, Init
    PROVE  Service!Init
<1>1. /\ ServedPaths = <<>> /\ GivenLines = <<>> /\ SkippedLines = <<>>
      /\ MAX_ROUNDS - rounds = 0
  <2>1. [i \in DOMAIN file_buff |-> file_buff[i].path] = <<>>
    BY DEF Init
  <2> QED
    BY <2>1, Counting DEF Init, ServedPaths, GivenLines, SkippedLines
<1> QED
  BY <1>1 DEF Init, Service!Init

\* Each step of the program is one of the service, or shows nothing of it.
LEMMA NextService ==
    ASSUME SensorLogAssumption, Inv, Inv', [Next]_vars
    PROVE  [Service!Next]_(Service!vars)
<1>1. SameService => UNCHANGED Service!vars
  BY DEF SameService, Service!vars
<1>2. CASE init_sd_card \/ reformat_sd_card \/ Restart
  BY <1>2, InitIsClose, EraseIsClose, RestartIsClose DEF Service!Next
<1>3. CASE start
  BY <1>1, <1>3, StartIsOpen DEF Service!Next
<1>4. ASSUME NEW b \in Beacons, record_beacon(b)
      PROVE  Service!Next
  BY <1>4, RecordIsRound DEF Service!Next
<1>5. CASE when_data_read_by_client
  <2>1. Counts => DOMAIN ServedPaths = DOMAIN file_buff
    BY DEF ServedPaths
  <2> QED
    BY <1>1, <1>5, <2>1, HandlerSkips DEF Service!Next
<1>6. ASSUME NEW i \in 1 .. MAX_CHARACTERISTIC_NUM, GatewayReads(i)
      PROVE  [Service!Next]_(Service!vars)
  <2>1. i \in DOMAIN file_buff
    BY <1>6 DEF GatewayReads
  <2>2. Counts => i \in DOMAIN ServedPaths
    BY <2>1 DEF ServedPaths
  <2> QED
    BY <1>1, <1>6, <2>1, <2>2, AnswerIsRead DEF Service!Next
<1>7. CASE UNCHANGED vars
  <2>1. UNCHANGED <<files, rounds, file_buff, delivered, missed, erased,
                    hasty>>
    BY <1>7 DEF vars, card, server, gateway, bounds
  <2>2. SameService
    BY <2>1 DEF SameService, ServedPaths, GivenLines, SkippedLines, Counts
  <2> QED
    BY <1>1, <2>2
<1> QED
  BY <1>2, <1>3, <1>4, <1>5, <1>6, <1>7 DEF Next

\* SDcardProcess and EnviromentSensingServer implement LogService: the log
\* gains a line per round, in files of the round's beacon, and the gateway gets
\* each file from its beginning, in chunks, none of it twice and nothing left
\* out but the chunks whose write failed, whatever is appended meanwhile and
\* whatever fails.
THEOREM ServiceIsImplemented == Spec => ImplementsService
<1>1. Init => Inv /\ Service!Init
  BY SensorLogAssumption, InitialState, InitService
<1>2. Inv /\ [Next]_vars => Inv'
  BY SensorLogAssumption, InvIsInductive
<1>3. Inv /\ Inv' /\ [Next]_vars => [Service!Next]_(Service!vars)
  BY SensorLogAssumption, NextService
<1> QED
  BY <1>1, <1>2, <1>3, PTL DEF Spec, ImplementsService, Service!Spec
---------------------------------------------------------------------------
(***************************************************************************)
(* What the two findings on the file server rest on.                       *)
(***************************************************************************)

\* The server serves files that are there, from a card that is mounted.
OpenInv ==
    /\ failed # "null_file"
    /\ \A i \in DOMAIN file_buff : file_buff[i].path \in DOMAIN files
    /\ file_buff # <<>> => mounted

\* While the button is not pressed and nothing fails, each step keeps it:
\* start takes the files there are, and a round removes none.
LEMMA NextOpen ==
    ASSUME SensorLogAssumption, MAX_ERASES = 0, MAX_FAULTS = 0,
           Inv, OpenInv, [Next]_vars
    PROVE  OpenInv'
<1>1. /\ TypeOK /\ ServerOK /\ (phase # "run" => file_buff = <<>>)
      /\ ~(faults > 0) /\ ~(erases > 0)
  BY TypeParts DEF Inv, ServerInv, TypeOK
<1>2. ASSUME UNCHANGED <<failed, file_buff, mounted>>,
             DOMAIN files \subseteq DOMAIN files'
      PROVE  OpenInv'
  BY <1>2 DEF OpenInv
<1>3. ASSUME NEW i \in DOMAIN file_buff, HandleRead(i), failed = "no",
             UNCHANGED <<mounted, files>>
      PROVE  OpenInv'
  <2>1. failed' = "no"
    <3>1. mounted /\ file_buff[i].path \in DOMAIN files
      BY <1>3 DEF OpenInv
    <3> QED
      BY <1>1, <1>3, <3>1 DEF HandleRead
  <2>2. /\ DOMAIN file_buff' = DOMAIN file_buff
        /\ [j \in DOMAIN file_buff' |-> file_buff'[j].path] =
           [j \in DOMAIN file_buff |-> file_buff[j].path]
    BY <1>1, <1>3, HandleReadCases, HandlerKeepsPaths DEF HandlerKeeps
  <2>3. \A j \in DOMAIN file_buff' : file_buff'[j].path = file_buff[j].path
    BY <2>2
  <2>4. mounted
    BY <1>3 DEF OpenInv
  <2> QED
    BY <1>3, <2>1, <2>2, <2>3, <2>4 DEF OpenInv
<1>4. CASE init_sd_card
  <2>1. file_buff' = <<>> /\ failed' = failed
    BY <1>1, <1>4 DEF init_sd_card, server
  <2> QED
    BY <2>1 DEF OpenInv
<1>5. CASE start
  <2>1. /\ failed' # "null_file" /\ UNCHANGED <<files, mounted>>
        /\ Serve(<<>>) \/ (mounted /\ Serve(SetToSeq(DOMAIN files)))
    BY <1>1, <1>5 DEF start, FilesFound, NothingServed, card
  <2>2. CASE Serve(<<>>)
    BY <2>1, <2>2 DEF OpenInv, Serve
  <2>3. CASE mounted /\ Serve(SetToSeq(DOMAIN files))
    <3> DEFINE paths == SetToSeq(DOMAIN files)
    <3>1. \A k \in DOMAIN paths : paths[k] \in DOMAIN files
      BY SetToSeqTakesEachOnce DEF Inv, CardInv
    <3>2. file_buff' =
             [k \in DOMAIN paths |-> [path |-> paths[k], offset |-> 0]]
      BY <2>3 DEF Serve
    <3> HIDE DEF paths
    <3> QED
      BY <2>1, <2>3, <3>1, <3>2 DEF OpenInv
  <2> QED
    BY <2>1, <2>2, <2>3
<1>6. ~reformat_sd_card
  BY <1>1 DEF reformat_sd_card
<1>7. ASSUME NEW b \in Beacons, record_beacon(b)
      PROVE  OpenInv'
  <2>1. DOMAIN files \subseteq DOMAIN files'
    BY <1>7, RoundExtends DEF CardGrows, Extends, Inv
  <2> QED
    BY <1>2, <1>7, <2>1 DEF record_beacon, server
<1>8. CASE when_data_read_by_client
  <2>1. Head(unhandled) \in DOMAIN file_buff
    BY <1>1, <1>8, TailOfReads DEF ServerOK, when_data_read_by_client
  <2> QED
    BY <1>3, <1>8, <2>1 DEF when_data_read_by_client, card
<1>9. ASSUME NEW i \in 1 .. MAX_CHARACTERISTIC_NUM, GatewayReads(i)
      PROVE  OpenInv'
  <2>1. CASE answers_first
    BY <1>2, <1>9, <2>1 DEF GatewayReads, card
  <2>2. CASE ~answers_first
    BY <1>3, <1>9, <2>2 DEF GatewayReads, card
  <2> QED
    BY <2>1, <2>2
<1>10. CASE Restart
  BY <1>10 DEF Restart, Serve, OpenInv
<1>11. CASE UNCHANGED vars
  BY <1>2, <1>11 DEF vars, card, server
<1> QED
  BY <1>4, <1>5, <1>6, <1>7, <1>8, <1>9, <1>10, <1>11 DEF Next

\* The erase button and failing operations are all that takes a file from
\* under when_data_read_by_client: without them no read, whatever the rounds,
\* the restarts and the order of reads and handlers, uses a NULL file.
THEOREM ServedFilesOpenUndisturbed ==
    ASSUME MAX_ERASES = 0, MAX_FAULTS = 0
    PROVE  Spec => []ServedFilesOpen
<1>1. Init => Inv /\ OpenInv
  <2>1. Init => OpenInv
    BY DEF Init, OpenInv
  <2> QED
    BY <2>1, SensorLogAssumption, InitialState
<1>2. Inv /\ OpenInv /\ [Next]_vars => Inv' /\ OpenInv'
  BY SensorLogAssumption, InvIsInductive, NextOpen
<1>3. OpenInv => ServedFilesOpen
  BY DEF OpenInv, ServedFilesOpen
<1> QED
  BY <1>1, <1>2, <1>3, PTL DEF Spec

\* The arrays of the server are not left as long as they have an element for
\* each file that the beacons may ever have, over all restarts: ten elements
\* are enough for five beacons with two sensors, and start need not look at
\* the number of files then.
THEOREM FilesFitWhenThereIsRoom ==
    ASSUME IsFiniteSet(FilePaths),
           Cardinality(FilePaths) <= MAX_CHARACTERISTIC_NUM
    PROVE  Spec => []FilesFitArrays
<1>1. Init => Inv /\ FilesFitArrays
  <2>1. Init => FilesFitArrays
    BY DEF Init, FilesFitArrays
  <2> QED
    BY <2>1, SensorLogAssumption, InitialState
<1>2. ASSUME Inv, start
      PROVE  failed' # "array_end"
  <2>1. DOMAIN files \subseteq FilePaths
    BY <1>2 DEF Inv, TypeOK
  <2>2. Cardinality(DOMAIN files) <= MAX_CHARACTERISTIC_NUM
    <3>1. /\ Cardinality(DOMAIN files) \in Nat
          /\ Cardinality(FilePaths) \in Nat
          /\ Cardinality(DOMAIN files) <= Cardinality(FilePaths)
      BY <2>1, FS_Subset, FS_CardinalityType
    <3> QED
      BY <3>1, SensorLogAssumption, Counting
  <2> QED
    BY <1>2, <2>2 DEF start, FilesFound, NothingServed
<1>3. ASSUME Inv, FilesFitArrays, [Next]_vars
      PROVE  FilesFitArrays'
  <2>1. ASSUME NEW i, HandleRead(i)
        PROVE  failed' \in {failed, "null_file"}
    BY <2>1 DEF HandleRead
  <2>2. failed' \in {failed, "null_file", "no"} \/ start
    BY <1>3, <2>1
       DEF Next, init_sd_card, reformat_sd_card, record_beacon, Restart,
           when_data_read_by_client, GatewayReads, vars
  <2> QED
    BY <1>2, <1>3, <2>2 DEF FilesFitArrays
<1>4. Inv /\ FilesFitArrays /\ [Next]_vars => Inv' /\ FilesFitArrays'
  BY <1>3, SensorLogAssumption, InvIsInductive
<1> QED
  BY <1>1, <1>4, PTL DEF Spec
===========================================================================
