--------------------------- MODULE FileLog_proofs ---------------------------
(***************************************************************************)
(* Theorems about the file log, for any cap, event sizes, times and number *)
(* of appends.                                                             *)
(***************************************************************************)
EXTENDS FileLog, WellFoundedInduction, TLAPS

-----------------------------------------------------------------------------
(* Timestamps *)

\* A time that is written is read back as it was, before the epoch or after it, to
\* the nanosecond; only the very last seconds of the past are refused (log.rs,
\* encode_timestamp, decode_timestamp).
THEOREM StampsRoundTrip ==
    ASSUME NEW time \in SystemTime
    PROVE  /\ Encodes(time) => Encode(time) \in Stamp /\ DecodeStamp(Encode(time)) = time
           /\ ~Encodes(time) => time.secs = -MaxSecs - 1
  <1> USE FrameTimeAssumption
  <1>1. /\ time.secs \in -MaxSecs - 1..MaxSecs /\ time.nanos \in 0..NanosPerSec - 1
        /\ time = [secs |-> time.secs, nanos |-> time.nanos]
    BY DEF SystemTime
  <1>2. CASE AfterEpoch(time)
    BY <1>1, <1>2 DEF AfterEpoch, Encodes, Encode, DecodeStamp, Stamp
  <1>3. CASE ~AfterEpoch(time) /\ time.nanos = 0
    <2>1. BeforeEpoch(time) = [secs |-> -time.secs, nanos |-> 0]
      BY <1>3 DEF BeforeEpoch
    <2>2. Encode(time) = [secs |-> time.secs, nanos |-> 0]
      BY <1>1, <1>3, <2>1 DEF Encode
    <2>3. DecodeStamp(Encode(time)) = time
      BY <1>1, <1>3, <2>2 DEF AfterEpoch, DecodeStamp, EpochMinus
    <2> QED
      BY <1>1, <1>3, <2>1, <2>2, <2>3 DEF AfterEpoch, Encodes, Stamp
  <1>4. CASE ~AfterEpoch(time) /\ time.nanos # 0
    <2>1. BeforeEpoch(time) = [secs |-> -time.secs - 1, nanos |-> NanosPerSec - time.nanos]
      BY <1>4 DEF BeforeEpoch
    <2>2. Encode(time) = [secs |-> time.secs, nanos |-> time.nanos]
      BY <1>1, <1>4, <2>1 DEF Encode
    <2>3. DecodeStamp(Encode(time)) = time
      BY <1>1, <1>4, <2>2 DEF AfterEpoch, DecodeStamp, EpochMinus
    <2> QED
      BY <1>1, <1>4, <2>1, <2>2, <2>3 DEF AfterEpoch, Encodes, Stamp
  <1> QED
    BY <1>2, <1>3, <1>4

-----------------------------------------------------------------------------
(* Sequences *)

\* Two sequences that agree everywhere are one.
LEMMA SameSeq ==
    ASSUME NEW S, NEW a \in Seq(S), NEW b \in Seq(S), NEW N \in Nat,
           Len(a) = N, Len(b) = N, \A k \in 1..N : a[k] = b[k]
    PROVE  a = b
  OBVIOUS

\* Where the elements of two sequences are, when one is put behind the other.
LEMMA Joined ==
    ASSUME NEW S, NEW a \in Seq(S), NEW b \in Seq(S), NEW N \in Nat, NEW M \in Nat,
           Len(a) = N, Len(b) = M
    PROVE  /\ a \o b \in Seq(S) /\ Len(a \o b) = N + M
           /\ \A k \in 1..N : (a \o b)[k] = a[k]
           /\ \A k \in 1..M : (a \o b)[N + k] = b[k]
  OBVIOUS

LEMMA JoinedEvents ==
    ASSUME NEW a \in Seq(Event), NEW b \in Seq(Event)
    PROVE  /\ a \o b \in Seq(Event) /\ Len(a \o b) = Len(a) + Len(b)
           /\ \A k \in 1..Len(a) : (a \o b)[k] = a[k]
           /\ \A k \in 1..Len(b) : (a \o b)[Len(a) + k] = b[k]
  OBVIOUS

LEMMA JoinedCells ==
    ASSUME NEW a \in Seq(Cell), NEW b \in Seq(Cell)
    PROVE  /\ a \o b \in Seq(Cell) /\ Len(a \o b) = Len(a) + Len(b)
           /\ \A k \in 1..Len(a) : (a \o b)[k] = a[k]
           /\ \A k \in 1..Len(b) : (a \o b)[Len(a) + k] = b[k]
  OBVIOUS

\* Where they are in a part of a sequence.
LEMMA Part ==
    ASSUME NEW S, NEW a \in Seq(S), NEW N \in Nat, Len(a) = N,
           NEW from \in 1..N + 1, NEW n \in Nat, from + n <= N + 1
    PROVE  /\ SubSeq(a, from, from + n - 1) \in Seq(S)
           /\ Len(SubSeq(a, from, from + n - 1)) = n
           /\ \A k \in 1..n : SubSeq(a, from, from + n - 1)[k] = a[from + k - 1]
  OBVIOUS

\* The cells that follow one of them.
LEMMA CellsAfter ==
    ASSUME NEW a \in Seq(Cell), NEW i \in DOMAIN a, NEW n \in Nat, i + n <= Len(a)
    PROVE  /\ SubSeq(a, i + 1, i + n) \in Seq(Cell)
           /\ Len(SubSeq(a, i + 1, i + n)) = n
           /\ \A k \in 1..n : SubSeq(a, i + 1, i + n)[k] = a[i + k]
  <1>1. PICK N \in Nat : Len(a) = N /\ i \in 1..N /\ i + n <= N
    OBVIOUS
  <1>2. PICK from \in 1..N + 1, to \in Nat : from = i + 1 /\ to = i + n
    BY <1>1
  <1>3. /\ to <= N /\ from <= to + 1 /\ to - from + 1 = n
        /\ \A k \in 1..n : from + k - 1 = i + k
    BY <1>1, <1>2
  <1>4. /\ SubSeq(a, from, to) \in Seq(Cell)
        /\ Len(SubSeq(a, from, to)) = n
        /\ \A k \in 1..n : SubSeq(a, from, to)[k] = a[from + k - 1]
    BY <1>1, <1>3
  <1> QED
    BY <1>2, <1>3, <1>4

\* One element more.
LEMMA Longer ==
    ASSUME NEW S, NEW a \in Seq(S), NEW N \in Nat, Len(a) = N, NEW x \in S
    PROVE  /\ Append(a, x) \in Seq(S) /\ Len(Append(a, x)) = N + 1
           /\ Append(a, x)[N + 1] = x
           /\ \A k \in 1..N : Append(a, x)[k] = a[k]
  OBVIOUS

-----------------------------------------------------------------------------
(* Counting *)

\* A set of numbers that is not empty has a least one.
LEMMA LeastNumber ==
    ASSUME NEW S \in SUBSET Nat, S # {}
    PROVE  \E n \in S : \A m \in S : n <= m
  <1> DEFINE R == OpToRel(<, Nat)
  <1>1. IsWellFoundedOn(R, Nat)
    BY NatLessThanWellFounded
  <1>2. \A x, y \in Nat : y < x => <<y, x>> \in R
    BY DEF OpToRel
  <1> HIDE DEF R
  <1>3. PICK n \in S : \A m \in S : ~(<<m, n>> \in R)
    BY <1>1, WFMin
  <1>4. \A m \in S : ~(m < n)
    BY <1>2, <1>3
  <1> QED
    BY <1>4

\* What holds of 0, and of n + 1 below N if it holds of n, holds up to N.
LEMMA CountUp ==
    ASSUME NEW N \in Nat, NEW S, 0 \in S, \A n \in 0..N - 1 : n \in S => n + 1 \in S
    PROVE  \A n \in 0..N : n \in S
  <1> DEFINE T == {n \in 0..N : n \notin S}
  <1> SUFFICES ASSUME T # {} PROVE FALSE
    OBVIOUS
  <1>1. T \in SUBSET Nat /\ \A n \in 0..N : n \in T <=> n \notin S
    OBVIOUS
  <1> HIDE DEF T
  <1>2. PICK n \in T : \A m \in T : n <= m
    BY <1>1, LeastNumber
  <1>3. n \in 0..N /\ n \notin S /\ n # 0
    BY <1>1 DEF T
  <1>4. n - 1 \in 0..N - 1 /\ n - 1 \in S
    BY <1>1, <1>2, <1>3
  <1> QED
    BY <1>3, <1>4

-----------------------------------------------------------------------------
(* What the decoder reads *)

\* The sum of the sizes of the first n events.
IsSum(log, f) == f = [n \in 0..Len(log) |-> IF n = 0 THEN 0 ELSE f[n - 1] + Len(log[n].data)]

\* Bytes adds up.
LEMMA BytesSum ==
    ASSUME NEW log \in Seq(Event)
    PROVE  \E f : IsSum(log, f) /\ Bytes(log) = f[Len(log)]
  <1> DEFINE Sum(n, f) == /\ f \in [0..n -> Nat]
                          /\ f[0] = 0
                          /\ \A i \in 1..n : f[i] = f[i - 1] + Len(log[i].data)
             S == {n \in Nat : \E f : Sum(n, f)}
  <1>1. \A i \in 1..Len(log) : Len(log[i].data) \in Nat
    BY DEF Event
  <1>2. 0 \in S
    <2>1. Sum(0, [i \in 0..0 |-> 0])
      OBVIOUS
    <2> QED
      BY <2>1
  <1>3. ASSUME NEW n \in 0..Len(log) - 1, n \in S PROVE n + 1 \in S
    <2>1. PICK f : Sum(n, f)
      BY <1>3
    <2> DEFINE g == [i \in 0..n + 1 |-> IF i = n + 1 THEN f[n] + Len(log[n + 1].data) ELSE f[i]]
    <2>2. \A i \in 0..n + 1 : g[i] = IF i = n + 1 THEN f[n] + Len(log[n + 1].data) ELSE f[i]
      OBVIOUS
    <2>3. g \in [0..n + 1 -> Nat]
      <3>1. f[n] + Len(log[n + 1].data) \in Nat
        BY <1>1, <2>1
      <3> QED
        BY <2>1, <3>1
    <2> HIDE DEF g
    <2>4. Sum(n + 1, g)
      <3>1. g[0] = 0
        BY <2>1, <2>2
      <3>2. ASSUME NEW i \in 1..n + 1 PROVE g[i] = g[i - 1] + Len(log[i].data)
        <4>1. g[i - 1] = f[i - 1]
          BY <2>2
        <4>2. CASE i = n + 1
          BY <2>2, <4>1, <4>2
        <4>3. CASE i # n + 1
          BY <2>1, <2>2, <4>1, <4>3
        <4> QED
          BY <4>2, <4>3
      <3> QED
        BY <2>3, <3>1, <3>2
    <2> HIDE DEF Sum
    <2> QED
      BY <2>4
  <1> HIDE DEF S
  <1>4. Len(log) \in Nat
    OBVIOUS
  <1>5. \A n \in 0..Len(log) : n \in S
    BY <1>2, <1>3, <1>4, CountUp
  <1>6. Len(log) \in S
    BY <1>4, <1>5
  <1>7. PICK f : Sum(Len(log), f)
    BY <1>6 DEF S
  <1>8. IsSum(log, f)
    BY <1>7 DEF IsSum
  <1> QED
    BY <1>8 DEF IsSum, Bytes

\* The bytes of any events, and of one.
LEMMA BytesOf ==
    /\ \A log \in Seq(Event) : Bytes(log) \in Nat
    /\ \A event \in Event : Bytes(<<event>>) = Len(event.data)
  <1>1. ASSUME NEW log \in Seq(Event) PROVE Bytes(log) \in Nat
    <2>1. PICK f : IsSum(log, f) /\ Bytes(log) = f[Len(log)]
      BY BytesSum
    <2> DEFINE S == {n \in 0..Len(log) : f[n] \in Nat}
    <2>2. 0 \in S
      BY <2>1 DEF IsSum
    <2>3. ASSUME NEW n \in 0..Len(log) - 1, n \in S PROVE n + 1 \in S
      <3>1. f[n + 1] = f[n] + Len(log[n + 1].data) /\ Len(log[n + 1].data) \in Nat
        BY <2>1 DEF IsSum, Event
      <3> QED
        BY <2>3, <3>1
    <2> HIDE DEF S
    <2>4. Len(log) \in Nat
      OBVIOUS
    <2>5. \A n \in 0..Len(log) : n \in S
      BY <2>2, <2>3, <2>4, CountUp
    <2> QED
      BY <2>1, <2>4, <2>5 DEF S
  <1>2. ASSUME NEW event \in Event PROVE Bytes(<<event>>) = Len(event.data)
    <2>0. <<event>> \in Seq(Event) /\ Len(<<event>>) = 1 /\ <<event>>[1] = event
      OBVIOUS
    <2>1. PICK f : IsSum(<<event>>, f) /\ Bytes(<<event>>) = f[1]
      BY <2>0, BytesSum
    <2>2. f[0] = 0 /\ f[1] = f[0] + Len(event.data)
      BY <2>0, <2>1 DEF IsSum
    <2>3. Len(event.data) \in Nat
      BY DEF Event
    <2> QED
      BY <2>1, <2>2, <2>3
  <1> QED
    BY <1>1, <1>2

\* A complete frame ends after it starts, within the file, and is an event.
LEMMA CompleteFrame ==
    ASSUME NEW cells \in Seq(Cell), NEW i \in DOMAIN cells, Complete(cells, i)
    PROVE  /\ FrameEnd(cells, i) \in i + 1..Len(cells)
           /\ EventAt(cells, i) \in Event
           /\ EventAt(cells, i).seq = cells[i].seq
           /\ Len(EventAt(cells, i).data) = cells[i].len
           /\ \A k \in 1..cells[i].len : EventAt(cells, i).data[k] = cells[i + k]
  <1>1. cells[i] \in [kind : {"head"}, seq : 0..MaxAttempts, stamp : Stamp, len : 1..MaxLen]
    BY DEF Complete, Cell, Magic, Torn
  <1>2. FrameEnd(cells, i) \in i + 1..Len(cells)
    BY <1>1, FileLogAssumption DEF Complete, FrameEnd
  <1>3. DecodeStamp(cells[i].stamp) \in SystemTime
    BY <1>1, FrameTimeAssumption DEF DecodeStamp, EpochMinus, Stamp, SystemTime
  <1>4. /\ SubSeq(cells, i + 1, FrameEnd(cells, i)) \in Seq(Cell)
        /\ Len(SubSeq(cells, i + 1, FrameEnd(cells, i))) = cells[i].len
        /\ \A k \in 1..cells[i].len : SubSeq(cells, i + 1, FrameEnd(cells, i))[k] = cells[i + k]
    <2>1. PICK n \in Nat : n = cells[i].len
      BY <1>1, FileLogAssumption
    <2>2. FrameEnd(cells, i) = i + n
      BY <2>1 DEF FrameEnd
    <2>3. i + n <= Len(cells)
      BY <1>2, <2>2
    <2>4. /\ SubSeq(cells, i + 1, i + n) \in Seq(Cell) /\ Len(SubSeq(cells, i + 1, i + n)) = n
          /\ \A k \in 1..n : SubSeq(cells, i + 1, i + n)[k] = cells[i + k]
      BY <2>3, CellsAfter
    <2> QED
      BY <2>1, <2>2, <2>4
  <1> QED
    BY <1>1, <1>2, <1>3, <1>4 DEF EventAt, Event

\* One turn of the loop of decode_file_log.
Step(cells, f, i) ==
    IF i = Len(cells) + 1 THEN [ok |-> TRUE, events |-> <<>>]
    ELSE IF ~Complete(cells, i) THEN [ok |-> FALSE, events |-> <<>>]
    ELSE [ok |-> f[FrameEnd(cells, i) + 1].ok,
          events |-> <<EventAt(cells, i)>> \o f[FrameEnd(cells, i) + 1].events]

Loop(cells, f) == f = [i \in 1..Len(cells) + 1 |-> Step(cells, f, i)]

\* The loop goes through to the end.
LEMMA FramesLoop ==
    ASSUME NEW cells \in Seq(Cell)
    PROVE  \E f : Loop(cells, f) /\ Frames(cells) = f[2]
  <1> DEFINE L == Len(cells)
             Suffix(n, f) == f = [i \in L + 1 - n..L + 1 |-> Step(cells, f, i)]
             S == {n \in Nat : \E f : Suffix(n, f)}
  <1>1. 0 \in S
    <2> DEFINE f == [i \in L + 1..L + 1 |-> [ok |-> TRUE, events |-> <<>>]]
    <2>1. Suffix(0, f)
      BY DEF Step
    <2> QED
      BY <2>1
  <1>2. ASSUME NEW n \in 0..L - 1, n \in S PROVE n + 1 \in S
    <2>1. PICK f : Suffix(n, f)
      BY <1>2
    <2> DEFINE g == [i \in L - n..L + 1 |-> IF i = L - n THEN Step(cells, f, i) ELSE f[i]]
    <2>2. ASSUME NEW i \in L - n..L + 1 PROVE g[i] = Step(cells, g, i)
      <3>1. \A k \in i + 1..L + 1 : g[k] = f[k]
        BY <2>2
      <3>2. ASSUME i # L + 1, Complete(cells, i) PROVE FrameEnd(cells, i) + 1 \in i + 1..L + 1
        BY <2>2, <3>2, CompleteFrame
      <3>3. Step(cells, g, i) = Step(cells, f, i)
        <4> HIDE DEF g
        <4> QED
          BY <3>1, <3>2 DEF Step
      <3>4. g[i] = Step(cells, f, i)
        <4>1. CASE i = L - n
          BY <4>1
        <4>2. CASE i # L - n
          <5>1. i \in L + 1 - n..L + 1
            BY <2>2, <4>2
          <5>2. f[i] = Step(cells, f, i)
            <6> HIDE DEF L, g
            <6> QED
              BY <2>1, <5>1
          <5> QED
            BY <4>2, <5>2
        <4> QED
          BY <4>1, <4>2
      <3> QED
        BY <3>3, <3>4
    <2>3. Suffix(n + 1, g)
      <3>1. L + 1 - (n + 1) = L - n
        OBVIOUS
      <3>2. g = [i \in L - n..L + 1 |-> Step(cells, g, i)]
        <4>1. g = [i \in L - n..L + 1 |-> g[i]]
          OBVIOUS
        <4> HIDE DEF g
        <4> QED
          BY <2>2, <4>1
      <3> QED
        BY <3>1, <3>2
    <2> HIDE DEF g, Suffix
    <2> QED
      BY <2>3
  <1> HIDE DEF S
  <1>3. L \in Nat
    OBVIOUS
  <1> HIDE DEF L
  <1>4. \A n \in 0..L : n \in S
    BY <1>1, <1>2, <1>3, CountUp
  <1>5. \E f : Loop(cells, f)
    BY <1>3, <1>4 DEF Loop, S, L
  <1> QED
    BY <1>5 DEF Loop, Step, Frames

\* What is read so far, of any file: events that stand in frames of the file.
FromFrames(cells, read) ==
    /\ read \in [ok : BOOLEAN, events : Seq(Event)]
    /\ \A k \in DOMAIN read.events :
          \E i \in DOMAIN cells : Complete(cells, i) /\ read.events[k] = EventAt(cells, i)

\* The loop, a turn at a time.
LEMMA LoopStep ==
    ASSUME NEW cells \in Seq(Cell), NEW f, Loop(cells, f), NEW i \in 1..Len(cells) + 1
    PROVE  f[i] = Step(cells, f, i)
  BY DEF Loop

\* To begin with, and of a frame that is refused, nothing is read.
LEMMA NothingRead ==
    ASSUME NEW cells
    PROVE  /\ FromFrames(cells, [ok |-> TRUE, events |-> <<>>])
           /\ FromFrames(cells, [ok |-> FALSE, events |-> <<>>])
  <1>1. ASSUME NEW ok \in BOOLEAN PROVE FromFrames(cells, [ok |-> ok, events |-> <<>>])
    BY DEF FromFrames
  <1>2. TRUE \in BOOLEAN /\ FALSE \in BOOLEAN
    OBVIOUS
  <1> QED
    BY <1>1, <1>2, Zenon

\* The decoder makes events of frames, and of nothing else.
LEMMA DecodedEvents ==
    ASSUME NEW cells \in Seq(Cell), cells # <<>>
    PROVE  FromFrames(cells, Frames(cells))
  <1>1. PICK f : Loop(cells, f) /\ Frames(cells) = f[2]
    BY FramesLoop
  <1>2. PICK L \in Nat : L = Len(cells) /\ L # 0 /\ DOMAIN cells = 1..L
    OBVIOUS
  <1>3. \A i \in 1..L + 1 : f[i] = Step(cells, f, i)
    BY <1>1, <1>2, LoopStep
  <1> DEFINE S == {n \in 0..L : \A i \in L + 1 - n..L + 1 : FromFrames(cells, f[i])}
  <1>4. FromFrames(cells, f[L + 1])
    <2>1. Step(cells, f, L + 1) = [ok |-> TRUE, events |-> <<>>]
      BY <1>2 DEF Step
    <2>2. f[L + 1] = Step(cells, f, L + 1)
      BY <1>2, <1>3
    <2> QED
      BY <2>1, <2>2, NothingRead, Zenon
  <1>5. 0 \in S
    BY <1>2, <1>4
  <1>6. ASSUME NEW n \in 0..L - 1, n \in S PROVE n + 1 \in S
    <2> DEFINE i == L - n
    <2>1. i \in 1..L /\ i \in DOMAIN cells /\ i # L + 1 /\ f[i] = Step(cells, f, i)
      BY <1>2, <1>3
    <2>2. FromFrames(cells, f[i])
      <3>1. CASE ~Complete(cells, i)
        <4>1. Step(cells, f, i) = [ok |-> FALSE, events |-> <<>>]
          BY <1>2, <2>1, <3>1 DEF Step
        <4> QED
          BY <2>1, <4>1, NothingRead, Zenon
      <3>2. CASE Complete(cells, i)
        <4> DEFINE rest == f[FrameEnd(cells, i) + 1]
        <4>1. FrameEnd(cells, i) + 1 \in L + 1 - n..L + 1 /\ EventAt(cells, i) \in Event
          BY <1>2, <2>1, <3>2, CompleteFrame
        <4>2. FromFrames(cells, rest)
          BY <1>6, <4>1
        <4>3. f[i] = [ok |-> rest.ok, events |-> <<EventAt(cells, i)>> \o rest.events]
          BY <1>2, <2>1, <3>2 DEF Step
        <4> HIDE DEF rest, i
        <4>4. f[i].events = <<EventAt(cells, i)>> \o rest.events
          BY <4>3
        <4>5. f[i] \in [ok : BOOLEAN, events : Seq(Event)]
          BY <4>1, <4>2, <4>3 DEF FromFrames
        <4>6. ASSUME NEW k \in DOMAIN f[i].events
              PROVE  f[i].events[k] = EventAt(cells, i) \/ \E m \in DOMAIN rest.events : f[i].events[k] = rest.events[m]
          <5>1. rest.events \in Seq(Event)
            BY <4>2 DEF FromFrames
          <5>2. k \in 1..Len(rest.events) + 1
            BY <4>1, <4>4, <5>1
          <5>3. CASE k = 1
            BY <4>1, <4>4, <5>1, <5>3
          <5>4. CASE k # 1
            <6>1. k - 1 \in DOMAIN rest.events
              BY <5>1, <5>2, <5>4
            <6>2. f[i].events[k] = rest.events[k - 1]
              BY <4>1, <4>4, <5>1, <5>2, <5>4
            <6> QED
              BY <6>1, <6>2
          <5> QED
            BY <5>3, <5>4
        <4> QED
          BY <2>1, <3>2, <4>2, <4>4, <4>5, <4>6 DEF FromFrames
      <3> QED
        BY <3>1, <3>2
    <2>3. ASSUME NEW k \in L + 1 - (n + 1)..L + 1 PROVE FromFrames(cells, f[k])
      <3>1. k = i \/ k \in L + 1 - n..L + 1
        BY <1>2
      <3> HIDE DEF i
      <3> QED
        BY <1>6, <2>2, <3>1
    <2> QED
      BY <1>2, <2>3
  <1> HIDE DEF S
  <1>7. L \in S
    <2>1. \A n \in 0..L : n \in S
      BY <1>2, <1>5, <1>6, CountUp
    <2> QED
      BY <1>2, <2>1
  <1>8. 2 \in L + 1 - L..L + 1
    BY <1>2
  <1> QED
    BY <1>1, <1>7, <1>8 DEF S

\* What is asked of the events that were read.
InOrder(log) == (\A i \in DOMAIN log : log[i].seq = i - 1) /\ Bytes(log) <= ByteCap

\* What Decode makes of what was read.
LEMMA DecodeFields ==
    ASSUME NEW cells, cells # <<>>, Head(cells) = Magic,
           Frames(cells) \in [ok : BOOLEAN, events : Seq(Event)]
    PROVE  /\ Decode(cells).events = Frames(cells).events
           /\ Decode(cells).ok <=> Frames(cells).ok /\ InOrder(Frames(cells).events)
  <1> DEFINE read == Frames(cells)
             ok == /\ read.ok
                   /\ \A i \in DOMAIN read.events : read.events[i].seq = i - 1
                   /\ Bytes(read.events) <= ByteCap
  <1>1. Decode(cells) = [read EXCEPT !.ok = ok]
    BY DEF Decode
  <1>2. ASSUME NEW z PROVE [read EXCEPT !.ok = z].ok = z /\ [read EXCEPT !.ok = z].events = read.events
    BY Zenon
  <1>3. Decode(cells).ok = ok /\ Decode(cells).events = read.events
    <2> HIDE DEF ok, read
    <2> QED
      BY <1>1, <1>2, Zenon
  <1> QED
    BY <1>3, Zenon DEF InOrder

\* The events of a file that decodes: their seqs tell how many they are.
LEMMA DecodedTypes ==
    ASSUME NEW cells \in Seq(Cell), Decode(cells).ok
    PROVE  /\ Decode(cells).events \in Seq(Event)
           /\ Bytes(Decode(cells).events) \in 0..ByteCap
           /\ \A k \in DOMAIN Decode(cells).events :
                 /\ Decode(cells).events[k].seq = k - 1
                 /\ \E i \in DOMAIN cells : cells[i].kind = "head" /\ cells[i].seq = k - 1
  <1> DEFINE read == Frames(cells)
  <1>1. cells # <<>> /\ Head(cells) = Magic
    <2>1. CASE cells = <<>> \/ Head(cells) # Magic
      <3>1. Decode(cells) = [ok |-> FALSE, events |-> <<>>]
        BY <2>1 DEF Decode
      <3> QED
        BY <3>1
    <2> QED
      BY <2>1
  <1>2. FromFrames(cells, read)
    BY <1>1, DecodedEvents
  <1>3. /\ Decode(cells).events = read.events
        /\ \A i \in DOMAIN read.events : read.events[i].seq = i - 1
        /\ Bytes(read.events) <= ByteCap
    BY <1>1, <1>2, DecodeFields DEF FromFrames, InOrder
  <1> HIDE DEF read
  <1>4. /\ \A i \in DOMAIN read.events : read.events[i].seq = i - 1
        /\ Bytes(read.events) <= ByteCap
    BY <1>3
  <1>5. read.events \in Seq(Event)
    BY <1>2 DEF FromFrames
  <1>6. Bytes(read.events) \in 0..ByteCap
    BY <1>4, <1>5, BytesOf, FileLogAssumption
  <1>7. ASSUME NEW k \in DOMAIN read.events
        PROVE  \E i \in DOMAIN cells : cells[i].kind = "head" /\ cells[i].seq = k - 1
    <2>1. PICK i \in DOMAIN cells : Complete(cells, i) /\ read.events[k] = EventAt(cells, i)
      BY <1>2 DEF FromFrames
    <2> QED
      BY <1>4, <2>1, CompleteFrame DEF Complete
  <1> QED
    BY <1>3, <1>4, <1>5, <1>6, <1>7

-----------------------------------------------------------------------------
(* A file that was written in order *)

\* The magic header, and frames of genuine events, in order: each starts where starts
\* says, the last one ends before the last of these.
Chain(cells, starts) ==
    /\ cells # <<>> /\ cells[1] = Magic
    /\ starts \in Seq(Nat) /\ starts # <<>> /\ starts[1] = 2
    /\ \A k \in 1..Len(starts) - 1 :
          /\ starts[k] \in DOMAIN cells
          /\ Complete(cells, starts[k])
          /\ starts[k + 1] = FrameEnd(cells, starts[k]) + 1
          /\ cells[starts[k]].seq = k - 1
          /\ Genuine(EventAt(cells, starts[k]))

End(starts) == starts[Len(starts)]

Whole(cells, starts) == End(starts) = Len(cells) + 1

Ragged(cells, starts) == End(starts) \in DOMAIN cells /\ ~Complete(cells, End(starts))

\* The events in the frames.
EventsAt(cells, starts) == [k \in 1..Len(starts) - 1 |-> EventAt(cells, starts[k])]

\* One event more.
LEMMA OneLonger ==
    ASSUME NEW S, NEW seq \in Seq(S), NEW e \in S
    PROVE  /\ seq \o <<e>> \in Seq(S) /\ Len(seq \o <<e>>) = Len(seq) + 1
           /\ \A k \in 1..Len(seq) : (seq \o <<e>>)[k] = seq[k]
           /\ (seq \o <<e>>)[Len(seq) + 1] = e
  OBVIOUS

\* Frames stand one behind the other.
LEMMA StartsGoUp ==
    ASSUME NEW cells \in Seq(Cell), NEW starts, Chain(cells, starts),
           NEW k \in 1..Len(starts), NEW n \in k..Len(starts)
    PROVE  starts[k] <= starts[n] /\ starts[k] \in 2..Len(cells) + 1
  <1>0. starts \in Seq(Nat) /\ starts # <<>> /\ starts[1] = 2 /\ cells # <<>>
    BY DEF Chain
  <1>1. PICK N \in Nat : Len(starts) = N /\ N # 0
    BY <1>0
  <1>2. PICK L \in Nat : Len(cells) = L /\ L # 0 /\ DOMAIN cells = 1..L
    BY <1>0
  <1>3. starts[1] = 2 /\ \A i \in 1..N : starts[i] \in Nat
    BY <1>0, <1>1
  <1>4. ASSUME NEW i \in 1..N - 1
        PROVE  starts[i] < starts[i + 1] /\ starts[i + 1] <= L + 1
    <2>1. /\ starts[i] \in DOMAIN cells /\ Complete(cells, starts[i])
          /\ starts[i + 1] = FrameEnd(cells, starts[i]) + 1
      BY <1>1 DEF Chain
    <2>2. FrameEnd(cells, starts[i]) \in starts[i] + 1..L
      BY <1>2, <2>1, CompleteFrame
    <2>3. starts[i] \in Nat
      BY <1>3
    <2>4. PICK from \in Nat : from = starts[i]
      BY <2>3
    <2>5. PICK to \in from + 1..L : to = FrameEnd(cells, starts[i])
      BY <2>2, <2>4
    <2>6. from < to + 1 /\ to + 1 <= L + 1
      BY <1>2, <2>4, <2>5
    <2>7. starts[i + 1] = to + 1
      BY <2>1, <2>5
    <2> QED
      BY <2>4, <2>6, <2>7
  <1> DEFINE S == {d \in 0..N - k : starts[k] <= starts[k + d]}
             T == {d \in 0..N - 1 : starts[d + 1] \in 2..L + 1}
  <1>5. starts[k] <= starts[n]
    <2>1. 0 \in S
      BY <1>1, <1>3
    <2>2. ASSUME NEW d \in 0..N - k - 1, d \in S PROVE d + 1 \in S
      <3>1. k + d \in 1..N - 1 /\ k + d \in 1..N /\ k + d + 1 \in 1..N /\ d + 1 \in 0..N - k
            /\ k \in 1..N /\ k + (d + 1) = k + d + 1
        BY <1>1
      <3>2. starts[k + d] < starts[k + d + 1]
        BY <1>4, <3>1
      <3>3. starts[k] \in Nat /\ starts[k + d] \in Nat /\ starts[k + d + 1] \in Nat
        BY <1>3, <3>1
      <3>4. starts[k] <= starts[k + (d + 1)]
        BY <2>2, <3>1, <3>2, <3>3
      <3> QED
        BY <3>1, <3>4
    <2>3. N - k \in Nat
      BY <1>1
    <2> HIDE DEF S
    <2>4. \A d \in 0..N - k : d \in S
      BY <2>1, <2>2, <2>3, CountUp
    <2>5. n - k \in S /\ k + (n - k) = n
      BY <1>1, <2>4
    <2> QED
      BY <2>5 DEF S
  <1>6. starts[k] \in 2..L + 1
    <2>1. 0 \in T
      BY <1>1, <1>2, <1>3
    <2>2. ASSUME NEW d \in 0..N - 1 - 1, d \in T PROVE d + 1 \in T
      <3>1. d + 1 \in 1..N - 1 /\ d + 1 \in 0..N - 1 /\ d + 1 + 1 \in 1..N
        BY <1>1
      <3>2. /\ starts[d + 1] < starts[d + 1 + 1] /\ starts[d + 1 + 1] <= L + 1
            /\ starts[d + 1 + 1] \in Nat
        BY <1>3, <1>4, <3>1
      <3> QED
        BY <2>2, <3>1, <3>2
    <2>3. N - 1 \in Nat
      BY <1>1
    <2> HIDE DEF T
    <2>4. \A d \in 0..N - 1 : d \in T
      BY <2>1, <2>2, <2>3, CountUp
    <2>5. k - 1 \in T /\ k - 1 + 1 = k
      BY <1>1, <2>4
    <2> QED
      BY <2>5 DEF T
  <1> QED
    BY <1>2, <1>5, <1>6

\* The decoder reads the whole frames of such a file, and refuses what is left of one.
LEMMA ChainIsRead ==
    ASSUME NEW cells \in Seq(Cell), NEW starts, Chain(cells, starts),
           Whole(cells, starts) \/ Ragged(cells, starts)
    PROVE  /\ Frames(cells).events = EventsAt(cells, starts)
           /\ Frames(cells).ok <=> Whole(cells, starts)
  <1>1. PICK f : Loop(cells, f) /\ Frames(cells) = f[2]
    BY FramesLoop
  <1>2. PICK L \in Nat : Len(cells) = L /\ L # 0 /\ DOMAIN cells = 1..L
    BY DEF Chain
  <1>3. PICK N \in Nat : Len(starts) = N + 1
    <2>1. Len(starts) \in Nat /\ Len(starts) # 0
      BY DEF Chain
    <2>2. Len(starts) - 1 \in Nat /\ Len(starts) = (Len(starts) - 1) + 1
      BY <2>1
    <2> QED
      BY <2>2
  <1>4. starts[1] = 2 /\ \A k \in 1..N + 1 : starts[k] \in 2..L + 1
    <2>1. \A k \in 1..Len(starts) : starts[k] \in 2..L + 1
      <3>1. ASSUME NEW k \in 1..Len(starts) PROVE starts[k] \in 2..L + 1
        <4>1. k \in k..Len(starts)
          BY <1>3
        <4> QED
          BY <1>2, <4>1, StartsGoUp
      <3> QED
        BY <3>1
    <2> QED
      BY <1>3, <2>1 DEF Chain
  <1>5. \A i \in 1..L + 1 : f[i] = Step(cells, f, i)
    BY <1>1, <1>2, LoopStep
  \* One turn of the loop.
  <1>6. ASSUME NEW k \in 1..N
        PROVE  /\ f[starts[k]].ok = f[starts[k + 1]].ok
               /\ f[starts[k]].events = <<EventAt(cells, starts[k])>> \o f[starts[k + 1]].events
               /\ EventAt(cells, starts[k]) \in Event
    <2>1. /\ starts[k] \in 1..L /\ starts[k] \in DOMAIN cells /\ Complete(cells, starts[k])
          /\ starts[k + 1] = FrameEnd(cells, starts[k]) + 1
      <3>1. k \in 1..Len(starts) - 1
        BY <1>3
      <3>2. /\ starts[k] \in DOMAIN cells /\ Complete(cells, starts[k])
            /\ starts[k + 1] = FrameEnd(cells, starts[k]) + 1
        BY <3>1, Zenon DEF Chain
      <3> QED
        BY <1>2, <3>2
    <2>2. f[starts[k]] = Step(cells, f, starts[k]) /\ starts[k] # Len(cells) + 1
      BY <1>2, <1>5, <2>1
    <2>3. f[starts[k]] = [ok |-> f[starts[k + 1]].ok,
                         events |-> <<EventAt(cells, starts[k])>> \o f[starts[k + 1]].events]
      BY <2>1, <2>2 DEF Step
    <2> QED
      BY <2>1, <2>3, CompleteFrame
  <1> DEFINE From(k) == [m \in 1..N + 1 - k |-> EventAt(cells, starts[k + m - 1])]
  <1>7. ASSUME NEW k \in 1..N PROVE <<EventAt(cells, starts[k])>> \o From(k + 1) = From(k)
    <2>1. PICK n \in Nat : n = N - k
      OBVIOUS
    <2>2. N + 1 - (k + 1) = n /\ N + 1 - k = n + 1
      BY <2>1
    <2>3. ASSUME NEW m \in 1..n + 1 PROVE EventAt(cells, starts[k + m - 1]) \in Event
      <3>1. k + m - 1 \in 1..N
        BY <2>1
      <3> QED
        BY <1>6, <3>1
    <2>4. /\ From(k) = [m \in 1..n + 1 |-> EventAt(cells, starts[k + m - 1])]
          /\ From(k + 1) = [m \in 1..n |-> EventAt(cells, starts[k + m])]
      <3>1. \A m \in 1..n : k + 1 + m - 1 = k + m
        OBVIOUS
      <3> QED
        BY <2>2, <3>1
    <2> HIDE DEF From
    <2>5. From(k) \in Seq(Event) /\ Len(From(k)) = n + 1
      BY <2>3, <2>4
    <2>6. From(k + 1) \in Seq(Event) /\ Len(From(k + 1)) = n
      <3>1. \A m \in 1..n : m + 1 \in 1..n + 1 /\ k + (m + 1) - 1 = k + m
        OBVIOUS
      <3>2. \A m \in 1..n : EventAt(cells, starts[k + m]) \in Event
        BY <2>3, <3>1
      <3>3. \A m \in 1..n : From(k + 1)[m] \in Event
        BY <2>4, <3>2
      <3> QED
        BY <2>4, <3>3
    <2>7. From(k)[1] = EventAt(cells, starts[k]) /\ EventAt(cells, starts[k]) \in Event
      <3>1. 1 \in 1..n + 1 /\ k + 1 - 1 = k
        OBVIOUS
      <3> QED
        BY <1>6, <2>4, <3>1
    <2>8. ASSUME NEW m \in 1..n PROVE From(k)[m + 1] = From(k + 1)[m]
      <3>1. m + 1 \in 1..n + 1 /\ k + (m + 1) - 1 = k + m
        OBVIOUS
      <3> QED
        BY <2>4, <3>1
    <2> QED
      BY <2>5, <2>6, <2>7, <2>8
  \* The last turn.
  <1>8. /\ f[starts[N + 1]].events = <<>>
        /\ f[starts[N + 1]].ok <=> Whole(cells, starts)
    <2>1. CASE Whole(cells, starts)
      <3>1. starts[N + 1] = L + 1
        BY <1>2, <1>3, <2>1 DEF Whole, End
      <3>2. f[L + 1] = Step(cells, f, L + 1)
        BY <1>5
      <3>3. f[L + 1] = [ok |-> TRUE, events |-> <<>>]
        BY <1>2, <3>2 DEF Step
      <3>4. f[L + 1].ok /\ f[L + 1].events = <<>>
        BY <3>3
      <3> QED
        BY <2>1, <3>1, <3>4
    <2>2. CASE Ragged(cells, starts)
      <3>1. PICK i \in 1..L : i = starts[N + 1] /\ ~Complete(cells, i)
        BY <1>2, <1>3, <2>2 DEF Ragged, End
      <3>2. f[i] = Step(cells, f, i) /\ i # Len(cells) + 1
        BY <1>2, <1>5
      <3>3. f[i] = [ok |-> FALSE, events |-> <<>>]
        BY <3>1, <3>2 DEF Step
      <3>4. ~f[i].ok /\ f[i].events = <<>>
        BY <3>3
      <3>5. ~Whole(cells, starts)
        BY <1>2, <1>3, <3>1 DEF Whole, End
      <3> QED
        BY <3>1, <3>4, <3>5
    <2> QED
      BY <2>1, <2>2
  <1> DEFINE S == {d \in 0..N : /\ f[starts[N + 1 - d]].ok <=> Whole(cells, starts)
                               /\ f[starts[N + 1 - d]].events = From(N + 1 - d)}
  <1>9. 0 \in S
    <2>1. From(N + 1) = <<>> /\ N + 1 - 0 = N + 1
      OBVIOUS
    <2> HIDE DEF From
    <2> QED
      BY <1>8, <2>1
  <1>10. ASSUME NEW d \in 0..N - 1, d \in S PROVE d + 1 \in S
    <2>1. PICK k \in 1..N : k = N - d
      OBVIOUS
    <2>2. k + 1 = N + 1 - d /\ k = N + 1 - (d + 1) /\ d + 1 \in 0..N
      BY <2>1
    <2> HIDE DEF From
    <2>3. /\ f[starts[k + 1]].ok <=> Whole(cells, starts)
          /\ f[starts[k + 1]].events = From(k + 1)
      BY <1>10, <2>2
    <2>4. f[starts[k]].ok <=> Whole(cells, starts)
      <3>1. f[starts[k]].ok = f[starts[k + 1]].ok
        BY <1>6
      <3> QED
        BY <2>3, <3>1
    <2>5. f[starts[k]].events = From(k)
      <3>1. f[starts[k]].events = <<EventAt(cells, starts[k])>> \o f[starts[k + 1]].events
        BY <1>6
      <3>2. <<EventAt(cells, starts[k])>> \o From(k + 1) = From(k)
        BY <1>7
      <3> QED
        BY <2>3, <3>1, <3>2
    <2> QED
      BY <2>2, <2>4, <2>5
  <1> HIDE DEF S
  <1>11. N \in S
    <2>1. \A d \in 0..N : d \in S
      BY <1>9, <1>10, CountUp
    <2> QED
      BY <2>1
  <1>12. (f[2].ok <=> Whole(cells, starts)) /\ f[2].events = From(1)
    <2>1. N + 1 - N = 1
      OBVIOUS
    <2> QED
      BY <1>4, <1>11, <2>1 DEF S
  <1>13. From(1) = EventsAt(cells, starts)
    <2>1. Len(starts) - 1 = N /\ N + 1 - 1 = N /\ \A m \in 1..N : 1 + m - 1 = m
      BY <1>3
    <2> QED
      BY <2>1 DEF EventsAt
  <1> HIDE DEF From
  <1> QED
    BY <1>1, <1>12, <1>13

\* A frame stays what it is while its cells do.
LEMMA FrameStays ==
    ASSUME NEW cells \in Seq(Cell), NEW more \in Seq(Cell), NEW M \in 0..Len(cells),
           M <= Len(more), \A k \in 1..M : more[k] = cells[k],
           NEW i \in DOMAIN cells, Complete(cells, i), FrameEnd(cells, i) <= M
    PROVE  /\ i \in DOMAIN more /\ Complete(more, i)
           /\ FrameEnd(more, i) = FrameEnd(cells, i)
           /\ EventAt(more, i) = EventAt(cells, i)
           /\ more[i].seq = cells[i].seq
  <1>1. FrameEnd(cells, i) \in i + 1..M /\ i \in 1..M
    BY CompleteFrame
  <1>2. more[i] = cells[i] /\ FrameEnd(more, i) = FrameEnd(cells, i)
    BY <1>1 DEF FrameEnd
  <1>3. i \in DOMAIN more /\ Complete(more, i)
    BY <1>1, <1>2 DEF Complete
  <1>4. SubSeq(more, i + 1, FrameEnd(more, i)) = SubSeq(cells, i + 1, FrameEnd(cells, i))
    <2>1. PICK n \in Nat : n = FrameEnd(cells, i) - i
      BY <1>1
    <2>2. FrameEnd(cells, i) = i + n /\ i + n <= M
      BY <1>1, <2>1
    <2>3. i + n <= Len(cells) /\ i + n <= Len(more) /\ i \in DOMAIN more
      BY <1>3, <2>2
    <2> DEFINE a == SubSeq(cells, i + 1, i + n)
               b == SubSeq(more, i + 1, i + n)
    <2>4. a \in Seq(Cell) /\ Len(a) = n /\ \A k \in 1..n : a[k] = cells[i + k]
      BY <2>3, CellsAfter
    <2>5. b \in Seq(Cell) /\ Len(b) = n /\ \A k \in 1..n : b[k] = more[i + k]
      BY <2>3, CellsAfter
    <2>6. \A k \in 1..n : more[i + k] = cells[i + k]
      <3>1. i + n <= M /\ i \in Nat /\ M \in Nat
        BY <2>2
      <3>2. \A k \in 1..n : i + k \in 1..M
        BY <3>1
      <3> QED
        BY <3>2
    <2> HIDE DEF a, b
    <2>7. a = b
      <3>1. \A k \in 1..n : a[k] = b[k]
        BY <2>4, <2>5, <2>6
      <3> QED
        BY <2>4, <2>5, <3>1, SameSeq
    <2> QED
      BY <1>2, <2>2, <2>7 DEF a, b
  <1> QED
    BY <1>2, <1>3, <1>4 DEF EventAt

\* A chain stays what it is, as far as the cells do.
LEMMA ChainStays ==
    ASSUME NEW cells \in Seq(Cell), NEW starts, Chain(cells, starts),
           NEW more \in Seq(Cell), NEW M \in 1..Len(cells),
           M <= Len(more), \A k \in 1..M : more[k] = cells[k],
           NEW n \in 1..Len(starts), starts[n] <= M + 1
    PROVE  /\ Chain(more, SubSeq(starts, 1, n)) /\ Len(SubSeq(starts, 1, n)) = n
           /\ \A k \in 1..n : SubSeq(starts, 1, n)[k] = starts[k]
           /\ \A k \in 1..n - 1 : EventAt(more, starts[k]) = EventAt(cells, starts[k])
  <1> DEFINE front == SubSeq(starts, 1, n)
  <1>1. starts \in Seq(Nat) /\ starts[1] = 2 /\ cells[1] = Magic /\ Len(starts) \in Nat
    BY DEF Chain
  <1>2. /\ front \in Seq(Nat) /\ Len(front) = n /\ front # <<>>
        /\ \A k \in 1..n : front[k] = starts[k]
    <2>1. PICK K \in Nat : Len(starts) = K
      BY <1>1
    <2>2. 1 \in 1..K + 1 /\ n \in Nat /\ 1 + n <= K + 1 /\ 1 + n - 1 = n /\ n # 0
      BY <2>1
    <2>3. /\ SubSeq(starts, 1, 1 + n - 1) \in Seq(Nat)
          /\ Len(SubSeq(starts, 1, 1 + n - 1)) = n
          /\ \A k \in 1..n : SubSeq(starts, 1, 1 + n - 1)[k] = starts[1 + k - 1]
      BY <1>1, <2>1, <2>2, Part
    <2>4. \A k \in 1..n : 1 + k - 1 = k
      OBVIOUS
    <2>5. front \in Seq(Nat) /\ Len(front) = n /\ \A k \in 1..n : front[k] = starts[k]
      BY <2>2, <2>3, <2>4
    <2> HIDE DEF front
    <2>6. front # <<>>
      BY <2>2, <2>5
    <2> QED
      BY <2>5, <2>6
  <1>0. n \in Nat /\ 1 \in 1..n
    BY <1>1
  <1>3. more # <<>> /\ more[1] = Magic
    BY <1>1
  <1>4. ASSUME NEW k \in 1..n - 1
        PROVE  /\ starts[k] \in DOMAIN cells /\ Complete(cells, starts[k])
               /\ starts[k + 1] = FrameEnd(cells, starts[k]) + 1
               /\ cells[starts[k]].seq = k - 1
               /\ Genuine(EventAt(cells, starts[k]))
               /\ FrameEnd(cells, starts[k]) <= M
    <2>1. /\ starts[k] \in DOMAIN cells /\ Complete(cells, starts[k])
          /\ starts[k + 1] = FrameEnd(cells, starts[k]) + 1
          /\ cells[starts[k]].seq = k - 1
          /\ Genuine(EventAt(cells, starts[k]))
      BY <1>1 DEF Chain
    <2>2. starts[k + 1] <= starts[n]
      <3>1. k + 1 \in 1..Len(starts) /\ n \in k + 1..Len(starts)
        BY <1>1
      <3> QED
        BY <3>1, StartsGoUp
    <2>3. FrameEnd(cells, starts[k]) \in Nat /\ starts[n] \in Nat
      <3>1. PICK i \in Nat : i = starts[k] /\ i \in DOMAIN cells /\ Complete(cells, i)
        BY <2>1
      <3>2. FrameEnd(cells, i) \in i + 1..Len(cells)
        BY <3>1, CompleteFrame
      <3>3. FrameEnd(cells, i) \in Nat
        BY <3>2
      <3>4. n \in 1..Len(starts)
        OBVIOUS
      <3>5. starts[n] \in Nat
        BY <1>1, <3>4
      <3> QED
        BY <3>1, <3>3, <3>5
    <2>4. FrameEnd(cells, starts[k]) <= M
      <3>1. M \in Nat /\ starts[n] <= M + 1
        OBVIOUS
      <3>2. FrameEnd(cells, starts[k]) + 1 <= starts[n]
        BY <2>1, <2>2
      <3> QED
        BY <2>3, <3>1, <3>2
    <2> QED
      BY <2>1, <2>4
  <1>5. ASSUME NEW k \in 1..n - 1
        PROVE  /\ starts[k] \in DOMAIN more /\ Complete(more, starts[k])
               /\ starts[k + 1] = FrameEnd(more, starts[k]) + 1
               /\ EventAt(more, starts[k]) = EventAt(cells, starts[k])
               /\ more[starts[k]].seq = k - 1
               /\ Genuine(EventAt(more, starts[k]))
    <2>1. M \in 0..Len(cells)
      OBVIOUS
    <2>2. /\ starts[k] \in DOMAIN more /\ Complete(more, starts[k])
          /\ FrameEnd(more, starts[k]) = FrameEnd(cells, starts[k])
          /\ EventAt(more, starts[k]) = EventAt(cells, starts[k])
          /\ more[starts[k]].seq = cells[starts[k]].seq
      BY <1>4, <2>1, FrameStays
    <2> QED
      BY <1>4, <2>2
  <1>6. ASSUME NEW k \in 1..n - 1 PROVE front[k] = starts[k] /\ front[k + 1] = starts[k + 1]
    BY <1>2
  <1> HIDE DEF front
  <1>7. Chain(more, front)
    <2>1. front[1] = 2
      BY <1>0, <1>1, <1>2
    <2>2. ASSUME NEW k \in 1..Len(front) - 1
          PROVE  /\ front[k] \in DOMAIN more /\ Complete(more, front[k])
                 /\ front[k + 1] = FrameEnd(more, front[k]) + 1
                 /\ more[front[k]].seq = k - 1
                 /\ Genuine(EventAt(more, front[k]))
      <3>1. k \in 1..n - 1
        BY <1>2
      <3> QED
        BY <1>5, <1>6, <3>1
    <2> QED
      BY <1>2, <1>3, <2>1, <2>2 DEF Chain
  <1> QED
    BY <1>2, <1>5, <1>7 DEF front

\* The cells of the frame of a new event.
LEMMA NewFrame ==
    ASSUME NEW event, NEW id \in 1..MaxAttempts, NEW n \in 1..MaxLen, NEW time \in SystemTime,
           Encodes(time), NEW seq \in 0..MaxAttempts,
           event = [seq |-> seq, time |-> time, data |-> DataOf(id, n)]
    PROVE  /\ event \in Event /\ Len(event.data) = n /\ Genuine(event)
           /\ Frame(event) \in Seq(Cell) /\ Len(Frame(event)) = n + 1
           /\ Frame(event)[1].kind = "head" /\ Frame(event)[1].seq = seq
           /\ Frame(event)[1].len = n /\ DecodeStamp(Frame(event)[1].stamp) = time
           /\ \A k \in 1..n : Frame(event)[k + 1] = event.data[k] /\ event.data[k].kind = "data"
  <1> DEFINE head == [kind |-> "head", seq |-> seq, stamp |-> Encode(time), len |-> n]
  <1>1. n \in Nat /\ id \in Nat /\ n \in 1..MaxLen
    BY FileLogAssumption
  <1>2. \A i \in 1..n : Byte(id, i) \in Cell /\ Byte(id, i).kind = "data"
    <2>1. ASSUME NEW i \in 1..n PROVE Byte(id, i) \in Cell /\ Byte(id, i).kind = "data"
      <3>1. i \in 1..MaxLen
        BY FileLogAssumption
      <3> QED
        BY <3>1 DEF Byte, Cell
    <2> QED
      BY <2>1
  <1>3. /\ event.data = DataOf(id, n) /\ event.seq = seq /\ event.time = time
        /\ DataOf(id, n) \in Seq(Cell) /\ Len(DataOf(id, n)) = n
        /\ \A i \in 1..n : DataOf(id, n)[i] = Byte(id, i)
    BY <1>1, <1>2 DEF DataOf
  <1>4. head \in Cell /\ DecodeStamp(head.stamp) = time
    <2>1. Encode(time) \in Stamp /\ DecodeStamp(Encode(time)) = time
      BY StampsRoundTrip
    <2> QED
      BY <2>1 DEF Cell
  <1>5. Frame(event) = <<head>> \o DataOf(id, n)
    BY <1>3 DEF Frame
  <1>6. event \in Event /\ Genuine(event)
    BY <1>3 DEF Event, Genuine
  <1>7. /\ head.kind = "head" /\ head.seq = seq /\ head.len = n
    OBVIOUS
  <1> HIDE DEF head
  <1>8. /\ Frame(event) \in Seq(Cell) /\ Len(Frame(event)) = n + 1 /\ Frame(event)[1] = head
        /\ \A k \in 1..n : Frame(event)[k + 1] = DataOf(id, n)[k]
    <2>1. <<head>> \in Seq(Cell) /\ Len(<<head>>) = 1 /\ <<head>>[1] = head
      BY <1>4
    <2>2. /\ <<head>> \o DataOf(id, n) \in Seq(Cell) /\ Len(<<head>> \o DataOf(id, n)) = 1 + n
          /\ \A k \in 1..1 : (<<head>> \o DataOf(id, n))[k] = <<head>>[k]
          /\ \A k \in 1..n : (<<head>> \o DataOf(id, n))[1 + k] = DataOf(id, n)[k]
      BY <1>1, <1>3, <2>1, Joined
    <2>3. \A k \in 1..n : k + 1 = 1 + k
      BY <1>1
    <2>4. 1 \in 1..1 /\ 1 + n = n + 1
      BY <1>1
    <2>5. PICK F : F = <<head>> \o DataOf(id, n)
      OBVIOUS
    <2>6. F \in Seq(Cell) /\ Len(F) = n + 1 /\ F[1] = head
      BY <2>1, <2>2, <2>4, <2>5
    <2>7. \A k \in 1..n : F[k + 1] = DataOf(id, n)[k]
      BY <2>2, <2>3, <2>5
    <2> QED
      BY <1>5, <2>5, <2>6, <2>7
  <1> QED
    BY <1>2, <1>3, <1>4, <1>6, <1>7, <1>8

\* More is cells, and a frame of event at the end.
OneMore(cells, starts, event, more, new) ==
    /\ more \in Seq(Cell)
    /\ Chain(more, new) /\ Whole(more, new)
    /\ Len(new) = Len(starts) + 1
    /\ \A k \in 1..Len(starts) : new[k] = starts[k]
    /\ \A k \in 1..Len(starts) - 1 : EventAt(more, new[k]) = EventAt(cells, starts[k])
    /\ EventAt(more, new[Len(starts)]) = event

\* One more frame, at the end.
LEMMA OneMoreFrame ==
    ASSUME NEW cells \in Seq(Cell), NEW starts, Chain(cells, starts), Whole(cells, starts),
           NEW event, NEW id \in 1..MaxAttempts, NEW n \in 1..MaxLen, NEW time \in SystemTime,
           Encodes(time), NEW N \in 0..MaxAttempts, Len(starts) = N + 1,
           event = [seq |-> N, time |-> time, data |-> DataOf(id, n)]
    PROVE  \E new : OneMore(cells, starts, event, cells \o Frame(event), new)
  <1> DEFINE more == cells \o Frame(event)
             new == Append(starts, Len(more) + 1)
  <1>1. N \in Nat /\ Len(starts) - 1 = N /\ Len(starts) = N + 1
    BY FileLogAssumption
  <1>2. PICK L \in Nat : Len(cells) = L /\ L # 0 /\ DOMAIN cells = 1..L
    BY DEF Chain
  <1>3. /\ starts \in Seq(Nat) /\ starts[1] = 2 /\ starts[N + 1] = L + 1
    BY <1>1, <1>2 DEF Chain, Whole, End
  <1>4. /\ event \in Event /\ Len(event.data) = n /\ Genuine(event)
        /\ Frame(event) \in Seq(Cell) /\ Len(Frame(event)) = n + 1
        /\ Frame(event)[1].kind = "head" /\ Frame(event)[1].seq = N
        /\ Frame(event)[1].len = n /\ DecodeStamp(Frame(event)[1].stamp) = time
        /\ \A k \in 1..n : Frame(event)[k + 1] = event.data[k]
    BY NewFrame
  <1>5. n \in Nat /\ n # 0
    BY FileLogAssumption
  <1>6. /\ more \in Seq(Cell) /\ Len(more) = L + n + 1
        /\ \A k \in 1..L : more[k] = cells[k]
        /\ \A k \in 1..n + 1 : more[L + k] = Frame(event)[k]
    <2>1. PICK F \in Seq(Cell) : F = Frame(event) /\ Len(F) = n + 1
      BY <1>4
    <2>2. PICK m \in Nat : m = n + 1 /\ L + m = L + n + 1
      BY <1>5
    <2>3. /\ cells \o F \in Seq(Cell) /\ Len(cells \o F) = L + m
          /\ \A k \in 1..L : (cells \o F)[k] = cells[k]
          /\ \A k \in 1..m : (cells \o F)[L + k] = F[k]
      <3>1. F \in Seq(Cell) /\ Len(F) = m /\ Len(cells) = L
        BY <1>2, <2>1, <2>2
      <3>2. PICK a \in Seq(Cell), b \in Seq(Cell) : a = cells /\ b = F
        OBVIOUS
      <3>3. L \in Nat /\ m \in Nat /\ Len(a) = L /\ Len(b) = m
        BY <1>2, <2>2, <3>1, <3>2
      <3>4. /\ a \o b \in Seq(Cell) /\ Len(a \o b) = L + m
            /\ \A k \in 1..L : (a \o b)[k] = a[k]
            /\ \A k \in 1..m : (a \o b)[L + k] = b[k]
        BY <3>3, JoinedCells
      <3> QED
        BY <3>2, <3>4
    <2> QED
      BY <2>1, <2>2, <2>3
  <1> HIDE DEF more
  <1>7. /\ new \in Seq(Nat) /\ Len(new) = N + 2 /\ new[N + 2] = L + n + 2
        /\ \A k \in 1..N + 1 : new[k] = starts[k]
    <2>1. Len(more) + 1 \in Nat /\ Len(more) + 1 = L + n + 2 /\ N + 1 \in Nat /\ N + 1 + 1 = N + 2
      BY <1>5, <1>6
    <2>2. /\ new \in Seq(Nat) /\ Len(new) = N + 1 + 1 /\ new[N + 1 + 1] = Len(more) + 1
          /\ \A k \in 1..N + 1 : new[k] = starts[k]
      BY <1>1, <1>3, <2>1, Longer
    <2> QED
      BY <2>1, <2>2
  <1> HIDE DEF new
  \* The frames that were there.
  <1>8. ASSUME NEW k \in 1..N
        PROVE  /\ starts[k] \in DOMAIN more /\ Complete(more, starts[k])
               /\ starts[k + 1] = FrameEnd(more, starts[k]) + 1
               /\ EventAt(more, starts[k]) = EventAt(cells, starts[k])
               /\ more[starts[k]].seq = k - 1
               /\ Genuine(EventAt(more, starts[k]))
    <2>1. /\ starts[k] \in DOMAIN cells /\ Complete(cells, starts[k])
          /\ starts[k + 1] = FrameEnd(cells, starts[k]) + 1
          /\ cells[starts[k]].seq = k - 1
          /\ Genuine(EventAt(cells, starts[k]))
      BY <1>1 DEF Chain
    <2>2. FrameEnd(cells, starts[k]) <= L
      BY <1>2, <2>1, CompleteFrame
    <2>3. L \in 0..Len(cells) /\ L <= Len(more)
      BY <1>2, <1>5, <1>6
    <2>4. starts[k] \in DOMAIN more
      BY <1>2, <1>6, <2>1, <2>3
    <2> HIDE DEF more
    <2>5. /\ Complete(more, starts[k])
          /\ FrameEnd(more, starts[k]) = FrameEnd(cells, starts[k])
          /\ EventAt(more, starts[k]) = EventAt(cells, starts[k])
          /\ more[starts[k]].seq = cells[starts[k]].seq
      <3>1. PICK i \in DOMAIN cells :
               i = starts[k] /\ Complete(cells, i) /\ FrameEnd(cells, i) <= L
        BY <2>1, <2>2
      <3>2. more \in Seq(Cell) /\ \A j \in 1..L : more[j] = cells[j]
        BY <1>6
      <3>3. /\ Complete(more, i) /\ FrameEnd(more, i) = FrameEnd(cells, i)
            /\ EventAt(more, i) = EventAt(cells, i) /\ more[i].seq = cells[i].seq
        BY <2>3, <3>1, <3>2, FrameStays
      <3> QED
        BY <3>1, <3>3
    <2> QED
      BY <2>1, <2>4, <2>5
  \* The new one.
  <1>9. /\ L + 1 \in DOMAIN more /\ Complete(more, L + 1)
        /\ L + n + 2 = FrameEnd(more, L + 1) + 1
        /\ EventAt(more, L + 1) = event
        /\ more[L + 1].seq = N
        /\ Genuine(EventAt(more, L + 1))
    <2>1. more[L + 1] = Frame(event)[1] /\ L + 1 \in DOMAIN more
      <3>1. 1 \in 1..n + 1 /\ L + 1 \in 1..L + n + 1
        BY <1>5
      <3> QED
        BY <1>6, <3>1
    <2>2. FrameEnd(more, L + 1) = L + 1 + n /\ Complete(more, L + 1)
      BY <1>4, <1>5, <1>6, <2>1 DEF FrameEnd, Complete
    <2>3. SubSeq(more, L + 1 + 1, L + 1 + n) = event.data
      <3>1. event.data \in Seq(Cell)
        BY <1>4 DEF Event
      <3>2. /\ L + 1 + 1 \in 1..L + n + 1 + 1 /\ L + 1 + 1 + n <= L + n + 1 + 1
            /\ L + n + 1 \in Nat /\ L + 1 + 1 + n - 1 = L + 1 + n
        BY <1>5
      <3>3. /\ SubSeq(more, L + 1 + 1, L + 1 + 1 + n - 1) \in Seq(Cell)
            /\ Len(SubSeq(more, L + 1 + 1, L + 1 + 1 + n - 1)) = n
            /\ \A k \in 1..n : SubSeq(more, L + 1 + 1, L + 1 + 1 + n - 1)[k] = more[L + 1 + 1 + k - 1]
        BY <1>5, <1>6, <3>2, Part
      <3>4. ASSUME NEW k \in 1..n PROVE more[L + 1 + 1 + k - 1] = event.data[k]
        <4>1. k + 1 \in 1..n + 1 /\ L + (k + 1) = L + 1 + 1 + k - 1
          BY <1>5
        <4> QED
          BY <1>4, <1>6, <4>1
      <3>5. SubSeq(more, L + 1 + 1, L + 1 + 1 + n - 1) = event.data
        BY <1>4, <1>5, <3>1, <3>3, <3>4, SameSeq
      <3> QED
        BY <3>2, <3>5
    <2>4. EventAt(more, L + 1) = event
      <3>1. EventAt(more, L + 1) = [seq |-> N, time |-> time, data |-> event.data]
        BY <1>4, <2>1, <2>2, <2>3 DEF EventAt
      <3> QED
        BY <1>3, <3>1
    <2> QED
      BY <1>4, <2>1, <2>2, <2>4
  <1>10. ASSUME NEW k \in 1..N + 1
         PROVE  /\ new[k] \in DOMAIN more /\ Complete(more, new[k])
                /\ new[k + 1] = FrameEnd(more, new[k]) + 1
                /\ more[new[k]].seq = k - 1
                /\ Genuine(EventAt(more, new[k]))
    <2>1. CASE k \in 1..N
      <3>1. new[k] = starts[k] /\ new[k + 1] = starts[k + 1]
        BY <1>7, <2>1
      <3> QED
        BY <1>8, <2>1, <3>1
    <2>2. CASE k = N + 1
      <3>1. new[k] = L + 1 /\ new[k + 1] = L + n + 2 /\ k - 1 = N
        BY <1>3, <1>7, <2>2
      <3> QED
        BY <1>9, <3>1
    <2> QED
      BY <2>1, <2>2
  <1>11. Chain(more, new)
    <2>1. more # <<>> /\ more[1] = Magic /\ new # <<>> /\ new[1] = 2
      <3>1. cells[1] = Magic /\ 1 \in 1..L /\ 1 \in 1..N + 1 /\ Len(more) # 0
        BY <1>2, <1>5, <1>6 DEF Chain
      <3>2. more[1] = cells[1] /\ new[1] = starts[1]
        BY <1>6, <1>7, <3>1
      <3> QED
        BY <1>3, <1>6, <1>7, <3>1, <3>2
    <2>2. Len(new) - 1 = N + 1
      BY <1>7
    <2> QED
      BY <1>7, <1>10, <2>1, <2>2 DEF Chain
  <1>12. Whole(more, new)
    BY <1>5, <1>6, <1>7 DEF Whole, End
  <1>13. /\ Len(new) = Len(starts) + 1
         /\ \A k \in 1..Len(starts) : new[k] = starts[k]
         /\ \A k \in 1..Len(starts) - 1 : EventAt(more, new[k]) = EventAt(cells, starts[k])
         /\ EventAt(more, new[Len(starts)]) = event
    <2>1. \A k \in 1..N : k \in 1..N + 1
      OBVIOUS
    <2>2. Len(starts) - 1 = N
      BY <1>1
    <2> QED
      BY <1>1, <1>3, <1>7, <1>8, <1>9, <2>1, <2>2
  <1>14. OneMore(cells, starts, event, more, new)
    BY <1>6, <1>11, <1>12, <1>13 DEF OneMore
  <1> QED
    BY <1>14 DEF more

\* Left is the first M of some cells, and a torn one at most, where there was no byte
\* of data.
CutAt(cells, left, M) ==
    /\ \A k \in 1..M : left[k] = cells[k]
    /\ \/ Len(left) = M
       \/ /\ Len(left) = M + 1 /\ M + 1 <= Len(cells)
          /\ left[M + 1] = Torn /\ cells[M + 1].kind # "data"

\* What is left of some cells: the first of them, and a torn one, if any, where there
\* was no byte of data.
LEMMA WhatIsLeft ==
    ASSUME NEW cells \in Seq(Cell), NEW left \in Cut(cells) \cup {cells}
    PROVE  /\ left \in Seq(Cell)
           /\ \E K \in 0..Len(cells) : CutAt(cells, left, K)
  <1>1. PICK L \in Nat : Len(cells) = L /\ DOMAIN cells = 1..L
    OBVIOUS
  <1>2. ASSUME NEW K \in 0..L
        PROVE  /\ SubSeq(cells, 1, K) \in Seq(Cell) /\ Len(SubSeq(cells, 1, K)) = K
               /\ \A k \in 1..K : SubSeq(cells, 1, K)[k] = cells[k]
    BY <1>1
  <1>3. CASE left = cells
    <2>1. L \in 0..Len(cells) /\ CutAt(cells, left, L)
      BY <1>1, <1>3 DEF CutAt
    <2> QED
      BY <1>3, <2>1
  <1>4. ASSUME NEW K \in 0..L - 1, left = SubSeq(cells, 1, K)
        PROVE  left \in Seq(Cell) /\ K \in 0..Len(cells) /\ CutAt(cells, left, K)
    <2>1. K \in 0..L
      BY <1>1
    <2>2. left \in Seq(Cell) /\ Len(left) = K /\ \A k \in 1..K : left[k] = cells[k]
      BY <1>2, <1>4, <2>1
    <2> QED
      BY <1>1, <2>1, <2>2 DEF CutAt
  <1>5. ASSUME NEW i \in 1..L, cells[i].kind # "data", left = Append(SubSeq(cells, 1, i - 1), Torn)
        PROVE  left \in Seq(Cell) /\ \E K \in 0..Len(cells) : CutAt(cells, left, K)
    <2>1. PICK K \in 0..L : K = i - 1 /\ K + 1 = i /\ K + 1 <= L
      OBVIOUS
    <2>2. Torn \in Cell
      BY DEF Cell
    <2>3. /\ left \in Seq(Cell) /\ Len(left) = K + 1 /\ left[K + 1] = Torn
          /\ \A k \in 1..K : left[k] = cells[k]
      BY <1>2, <1>5, <2>1, <2>2
    <2>4. CutAt(cells, left, K)
      BY <1>1, <1>5, <2>1, <2>3 DEF CutAt
    <2> QED
      BY <1>1, <2>3, <2>4
  <1>6. CASE left \in Cut(cells)
    <2>1. \/ \E K \in 0..L - 1 : left = SubSeq(cells, 1, K)
          \/ \E i \in 1..L : cells[i].kind # "data" /\ left = Append(SubSeq(cells, 1, i - 1), Torn)
      BY <1>1, <1>6 DEF Cut
    <2> QED
      BY <1>4, <1>5, <2>1
  <1> QED
    BY <1>3, <1>6

\* The frames of left, of which front says where they start, are those of cells that
\* end at M or before.
Shortened(cells, starts, left, M, front) ==
    /\ Chain(left, front)
    /\ Whole(left, front) \/ Ragged(left, front)
    /\ Len(front) <= Len(starts)
    /\ \A k \in 1..Len(front) : front[k] = starts[k]
    /\ \A k \in 1..Len(front) - 1 : EventAt(left, starts[k]) = EventAt(cells, starts[k])
    /\ \A k \in 1..Len(starts) : starts[k] <= M + 1 => k <= Len(front)

\* What is left of a file that was written in order is one, with a ragged end at most.
LEMMA ChainShortened ==
    ASSUME NEW cells \in Seq(Cell), NEW starts, Chain(cells, starts),
           Whole(cells, starts) \/ Ragged(cells, starts),
           NEW left \in Seq(Cell), NEW M \in 1..Len(cells), CutAt(cells, left, M)
    PROVE  \E front : Shortened(cells, starts, left, M, front)
  <1> USE DEF CutAt
  <1>1. PICK N \in Nat : Len(starts) = N /\ N # 0
    BY DEF Chain
  <1>2. PICK L \in Nat : Len(cells) = L /\ L # 0 /\ DOMAIN cells = 1..L
    BY DEF Chain
  <1>3. starts[1] = 2 /\ \A k \in 1..N : starts[k] \in 2..L + 1
    <2>1. ASSUME NEW k \in 1..N PROVE starts[k] \in 2..L + 1
      <3>1. k \in k..Len(starts)
        BY <1>1
      <3> QED
        BY <1>1, <1>2, <3>1, StartsGoUp
    <2> QED
      BY <2>1 DEF Chain
  <1>4. M \in Nat /\ M # 0 /\ M <= L /\ Len(left) \in Nat /\ M <= Len(left) /\ Len(left) <= L
    BY <1>2
  \* The first frame that is not all there, or the end.
  <1>5. PICK n \in 1..N : /\ n = N \/ starts[n + 1] > M + 1
                          /\ n = 1 \/ starts[n] <= M + 1
    <2> DEFINE T == {k \in 1..N : k = N \/ starts[k + 1] > M + 1}
    <2>1. T \in SUBSET Nat /\ T # {}
      BY <1>1
    <2>2. PICK n \in T : \A m \in T : n <= m
      BY <2>1, LeastNumber
    <2>3. n \in 1..N /\ (n = N \/ starts[n + 1] > M + 1)
      OBVIOUS
    <2>4. ASSUME n # 1 PROVE starts[n] <= M + 1
      <3>1. n - 1 \in 1..N /\ n - 1 + 1 = n /\ n - 1 # N
        BY <2>3, <2>4
      <3>2. n - 1 \notin T
        BY <2>2, <2>3, <3>1
      <3>3. ~(starts[n] > M + 1)
        BY <3>1, <3>2
      <3> QED
        BY <1>3, <1>4, <2>3, <3>3
    <2> QED
      BY <2>3, <2>4
  <1>6. starts[n] <= M + 1 /\ starts[n] \in 2..L + 1
    BY <1>3, <1>4, <1>5
  <1> DEFINE front == SubSeq(starts, 1, n)
  <1>7. /\ Chain(left, front) /\ Len(front) = n
        /\ \A k \in 1..n : front[k] = starts[k]
        /\ \A k \in 1..n - 1 : EventAt(left, starts[k]) = EventAt(cells, starts[k])
    <2>1. /\ M \in 1..Len(cells) /\ M <= Len(left) /\ n \in 1..Len(starts)
          /\ starts[n] <= M + 1 /\ \A k \in 1..M : left[k] = cells[k]
      BY <1>1, <1>4, <1>6
    <2> HIDE DEF CutAt
    <2> QED
      BY <2>1, ChainStays
  <1>8. ASSUME NEW k \in 1..N, starts[k] <= M + 1 PROVE k <= n
    <2>1. CASE n = N
      BY <2>1
    <2>2. CASE n # N
      <3>1. starts[n + 1] > M + 1 /\ n + 1 \in 1..N
        BY <1>5, <2>2
      <3>2. ASSUME k > n PROVE FALSE
        <4>1. k \in n + 1..Len(starts) /\ n + 1 \in 1..Len(starts)
          BY <1>1, <3>1, <3>2
        <4>2. starts[n + 1] <= starts[k]
          BY <4>1, StartsGoUp
        <4> QED
          BY <1>3, <1>4, <1>8, <3>1, <4>2
      <3> QED
        BY <3>2
    <2> QED
      BY <2>1, <2>2
  <1> HIDE DEF front
  <1>9. Whole(left, front) \/ Ragged(left, front)
    <2>1. End(front) = starts[n]
      BY <1>7 DEF End
    <2>2. CASE starts[n] = M + 1
      <3>1. CASE Len(left) = M
        BY <2>1, <2>2, <3>1 DEF Whole
      <3>2. CASE Len(left) = M + 1 /\ left[M + 1] = Torn
        <4>1. M + 1 \in DOMAIN left
          BY <1>4, <3>2
        <4>2. ~Complete(left, M + 1)
          BY <3>2 DEF Complete, Torn
        <4> QED
          BY <2>1, <2>2, <4>1, <4>2 DEF Ragged
      <3> QED
        BY <3>1, <3>2
    <2>3. CASE starts[n] # M + 1 /\ n # N
      <3>1. starts[n] \in 1..M /\ starts[n] \in DOMAIN left
        BY <1>4, <1>6, <2>3
      <3>2. /\ starts[n] \in DOMAIN cells /\ Complete(cells, starts[n])
            /\ starts[n + 1] = FrameEnd(cells, starts[n]) + 1
            /\ Genuine(EventAt(cells, starts[n]))
            /\ starts[n + 1] > M + 1
        BY <1>1, <1>5, <2>3 DEF Chain
      <3>3. FrameEnd(cells, starts[n]) \in starts[n] + 1..L /\ FrameEnd(cells, starts[n]) > M
        BY <1>2, <1>4, <3>2, CompleteFrame
      <3>4. left[starts[n]] = cells[starts[n]] /\ FrameEnd(left, starts[n]) = FrameEnd(cells, starts[n])
        BY <3>1 DEF FrameEnd
      <3>5. CASE Len(left) = M
        <4>1. FrameEnd(left, starts[n]) > Len(left)
          BY <3>3, <3>4, <3>5
        <4>2. FrameEnd(left, starts[n]) \in Nat
          <5>1. PICK from \in Nat : from = starts[n]
            BY <3>1
          <5> QED
            BY <1>2, <3>3, <3>4, <5>1
        <4>3. ~Complete(left, starts[n])
          BY <1>4, <4>1, <4>2 DEF Complete
        <4> QED
          BY <2>1, <3>1, <4>3 DEF Ragged
      <3>6. CASE cells[M + 1].kind # "data"
        <4>1. PICK k \in 1..cells[starts[n]].len : starts[n] + k = M + 1
          <5>1. M + 1 - starts[n] \in 1..cells[starts[n]].len
            <6>1. FrameEnd(cells, starts[n]) = starts[n] + cells[starts[n]].len
              BY DEF FrameEnd
            <6>2. cells[starts[n]].len \in Nat
              BY <3>2, CompleteFrame DEF Event
            <6> QED
              <7>1. PICK from \in Nat, len \in Nat : from = starts[n] /\ len = cells[starts[n]].len
                BY <3>1, <6>2
              <7>2. from <= M /\ from + len > M
                BY <3>1, <3>3, <6>1, <7>1
              <7>3. M + 1 - from \in 1..len
                BY <1>4, <7>2
              <7> QED
                BY <7>1, <7>3
          <5>2. starts[n] + (M + 1 - starts[n]) = M + 1
            <6>1. PICK from \in Nat : from = starts[n]
              BY <3>1
            <6> QED
              BY <1>4, <6>1
          <5> QED
            BY <5>1, <5>2
        <4>2. /\ EventAt(cells, starts[n]).data[k] = cells[M + 1]
              /\ Len(EventAt(cells, starts[n]).data) = cells[starts[n]].len
          BY <3>2, <4>1, CompleteFrame
        <4>3. cells[M + 1].kind = "data"
          <5>1. PICK id \in 1..MaxAttempts :
                   EventAt(cells, starts[n]).data = DataOf(id, cells[starts[n]].len)
            BY <3>2, <4>2 DEF Genuine
          <5>2. DataOf(id, cells[starts[n]].len)[k] = Byte(id, k)
            BY <4>1 DEF DataOf
          <5>3. Byte(id, k).kind = "data"
            BY DEF Byte
          <5> QED
            BY <4>2, <5>1, <5>2, <5>3
        <4> QED
          BY <3>6, <4>3
      <3> QED
        BY <3>5, <3>6
    <2>4. CASE starts[n] # M + 1 /\ n = N
      <3>1. starts[n] \in 1..M /\ starts[n] \in DOMAIN left
        BY <1>4, <1>6, <2>4
      <3>2. End(starts) = starts[n] /\ ~Whole(cells, starts)
        BY <1>1, <1>2, <1>4, <2>4, <3>1 DEF End, Whole
      <3>3. starts[n] \in DOMAIN cells /\ ~Complete(cells, starts[n])
        BY <3>2 DEF Ragged
      <3>4. left[starts[n]] = cells[starts[n]] /\ FrameEnd(left, starts[n]) = FrameEnd(cells, starts[n])
        BY <3>1 DEF FrameEnd
      <3>5. ~Complete(left, starts[n])
        <4>1. CASE cells[starts[n]].kind # "head"
          BY <3>4, <4>1 DEF Complete
        <4>2. CASE cells[starts[n]].kind = "head"
          <5>1. cells[starts[n]] \in [kind : {"head"}, seq : 0..MaxAttempts, stamp : Stamp, len : 1..MaxLen]
            BY <3>3, <4>2 DEF Cell, Magic, Torn
          <5>2. FrameEnd(cells, starts[n]) \in Nat
            <6>1. PICK from \in Nat, len \in Nat : from = starts[n] /\ len = cells[starts[n]].len
              BY <3>1, <5>1
            <6>2. FrameEnd(cells, starts[n]) = from + len
              BY <6>1 DEF FrameEnd
            <6> QED
              BY <6>2
          <5>3. ~(FrameEnd(cells, starts[n]) <= L)
            BY <1>2, <3>3, <4>2 DEF Complete
          <5>4. PICK end \in Nat, last \in Nat : end = FrameEnd(cells, starts[n]) /\ last = Len(left)
            BY <1>4, <5>2
          <5>5. last <= L /\ ~(end <= L)
            BY <1>4, <5>3, <5>4
          <5>6. ~(end <= last)
            BY <5>5
          <5> QED
            BY <3>4, <5>4, <5>6 DEF Complete
        <4> QED
          BY <4>1, <4>2
      <3> QED
        BY <2>1, <3>1, <3>5 DEF Ragged
    <2> QED
      BY <2>2, <2>3, <2>4
  <1>10. n <= N
    OBVIOUS
  <1>11. Shortened(cells, starts, left, M, front)
    BY <1>1, <1>7, <1>8, <1>9, <1>10 DEF Shortened
  <1> QED
    BY <1>11

-----------------------------------------------------------------------------
(* The inductive invariant *)

\* No frame has a seq that could still be given out.
Heads == \A i \in DOMAIN file : file[i].kind = "head" => file[i].seq < attempts

\* What holds whatever fails.
Typed ==
    /\ TypeOK
    /\ Heads
    /\ handle = "closed" => events = <<>>
    /\ Len(events) + Len(pending) <= attempts
    /\ handle = "syncing" => byteTotal + Len(pending[1].data) <= ByteCap

\* Acknowledged events stand in the file, in frames that are synced.
Kept(starts) ==
    \A event \in acked :
        /\ event.seq + 2 \in DOMAIN starts
        /\ EventAt(file, starts[event.seq + 1]) = event
        /\ starts[event.seq + 2] <= durable + 1

\* The file was written in order; while it is open it is whole, and memory, with the
\* event that is being appended, is what it holds.
Written(starts) ==
    /\ Chain(file, starts)
    /\ Kept(starts)
    /\ Whole(file, starts) \/ (Ragged(file, starts) /\ handle = "closed")
    /\ handle # "closed" => events \o pending = EventsAt(file, starts)

\* No header was ever written in full and synced.
Blank == file \in {<<>>, <<Torn>>} /\ handle = "closed" /\ acked = {}

\* What holds as long as no append failed.
Sound ==
    /\ Blank \/ \E starts : Written(starts)
    /\ handle # "closed" => \A event \in acked : event.seq < Len(events)

FileInv == Typed /\ (~failed => Sound)

\* Memory and the frames, one by one.
LEMMA InMemory ==
    ASSUME TypeOK, NEW starts, Written(starts), handle # "closed"
    PROVE  /\ Len(starts) = Len(events) + Len(pending) + 1
           /\ \A i \in DOMAIN events : events[i] = EventAt(file, starts[i])
           /\ pending # <<>> => pending[1] = EventAt(file, starts[Len(events) + 1])
  <1>1. PICK N \in Nat : Len(events) = N /\ events \in Seq(Event)
    BY DEF TypeOK
  <1>2. PICK M \in Nat : Len(pending) = M /\ pending \in Seq(Event)
    BY DEF TypeOK
  <1>3. /\ events \o pending \in Seq(Event) /\ Len(events \o pending) = N + M
        /\ \A k \in 1..N : (events \o pending)[k] = events[k]
        /\ \A k \in 1..M : (events \o pending)[N + k] = pending[k]
    <2>1. PICK a \in Seq(Event) : a = events
      BY <1>1
    <2>2. PICK b \in Seq(Event) : b = pending
      BY <1>2
    <2>3. /\ a \o b \in Seq(Event) /\ Len(a \o b) = N + M
          /\ \A k \in 1..N : (a \o b)[k] = a[k]
          /\ \A k \in 1..M : (a \o b)[N + k] = b[k]
      <3>1. Len(a) = N /\ Len(b) = M
        BY <1>1, <1>2, <2>1, <2>2
      <3> QED
        BY <3>1, JoinedEvents
    <2> QED
      BY <2>1, <2>2, <2>3
  <1>4. PICK K \in Nat : Len(starts) - 1 = K /\ Len(starts) = K + 1
    <2>1. Len(starts) \in Nat /\ Len(starts) # 0
      BY DEF Written, Chain
    <2>2. Len(starts) - 1 \in Nat /\ Len(starts) = (Len(starts) - 1) + 1
      BY <2>1
    <2> QED
      BY <2>2
  <1>5. PICK all \in Seq(Event) : all = events \o pending /\ Len(all) = N + M
    BY <1>3
  <1>6. all = [k \in 1..K |-> EventAt(file, starts[k])]
    BY <1>4, <1>5 DEF Written, EventsAt
  <1>7. N + M = K /\ \A k \in 1..K : all[k] = EventAt(file, starts[k])
    BY <1>5, <1>6
  <1>8. \A k \in 1..N : events[k] = EventAt(file, starts[k])
    <2>1. ASSUME NEW k \in 1..N PROVE events[k] = EventAt(file, starts[k])
      <3>1. k \in 1..K
        BY <1>7
      <3>2. all[k] = events[k]
        BY <1>3, <1>5
      <3> QED
        BY <1>7, <3>1, <3>2
    <2> QED
      BY <2>1
  <1>9. ASSUME M # 0 PROVE pending[1] = EventAt(file, starts[N + 1])
    <2>1. 1 \in 1..M /\ N + 1 \in 1..K
      BY <1>7, <1>9
    <2> QED
      BY <1>3, <1>5, <1>7, <2>1
  <1> QED
    BY <1>1, <1>2, <1>4, <1>7, <1>8, <1>9

\* A file of which only the header is there.
LEMMA OnlyMagic ==
    /\ Magic \in Cell /\ <<Magic>> \in Seq(Cell) /\ Torn \in Cell /\ <<Torn>> \in Seq(Cell)
    /\ Magic # Torn /\ Magic.kind = "magic" /\ Torn.kind = "torn"
    /\ Chain(<<Magic>>, <<2>>) /\ Whole(<<Magic>>, <<2>>)
    /\ EventsAt(<<Magic>>, <<2>>) = <<>>
  <1>1. Magic \in Cell /\ Torn \in Cell /\ Magic.kind = "magic" /\ Torn.kind = "torn"
    BY DEF Cell, Magic, Torn
  <1>2. Len(<<2>>) = 1 /\ 1..Len(<<2>>) - 1 = {} /\ <<2>> \in Seq(Nat) /\ <<2>>[1] = 2
        /\ <<2>> # <<>>
    OBVIOUS
  <1>3. <<Magic>> # <<>> /\ <<Magic>>[1] = Magic /\ Len(<<Magic>>) = 1
    OBVIOUS
  <1>4. Chain(<<Magic>>, <<2>>)
    BY <1>2, <1>3 DEF Chain
  <1>5. Whole(<<Magic>>, <<2>>)
    BY <1>2, <1>3 DEF Whole, End
  <1>6. EventsAt(<<Magic>>, <<2>>) = <<>>
    BY <1>2 DEF EventsAt
  <1> QED
    BY <1>1, <1>4, <1>5, <1>6

LEMMA Start == Init => FileInv
  <1> SUFFICES ASSUME Init PROVE FileInv
    OBVIOUS
  <1>1. TypeOK
    <2>1. file \in Seq(Cell) /\ Len(file) = 0 /\ pending \in Seq(Event) /\ Len(pending) = 0
      BY DEF Init
    <2>2. events \in Seq(Event) /\ acked \subseteq Event /\ durable \in 0..0
      BY DEF Init
    <2>3. /\ handle \in {"closed", "open", "syncing"} /\ handle # "syncing"
          /\ byteTotal \in 0..ByteCap /\ attempts \in 0..MaxAttempts
      BY FileLogAssumption DEF Init
    <2>4. failed \in BOOLEAN
      BY DEF Init
    <2>5. durable \in 0..Len(file)
      BY <2>1, <2>2
    <2> QED
      BY <2>1, <2>2, <2>3, <2>4, <2>5 DEF TypeOK
  <1>2. Typed
    BY <1>1, FileLogAssumption DEF Init, Typed, Heads
  <1>3. Sound
    BY DEF Init, Sound, Blank
  <1> QED
    BY <1>2, <1>3 DEF FileInv

-----------------------------------------------------------------------------
(* The steps *)

\* A new file, or what an attempt at one leaves.
LEMMA NewFileStep ==
    ASSUME FileInv, OpenNew \/ OpenNewFails
    PROVE  FileInv'
  <1>1. /\ handle = "closed" /\ file = <<>> /\ events = <<>> /\ pending = <<>>
        /\ events' = events /\ pending' = pending /\ byteTotal' = byteTotal
        /\ attempts' = attempts /\ acked' = acked /\ failed' = failed
        /\ file' \in {<<Torn>>, <<Magic>>} /\ handle' \in {"closed", "open"}
        /\ durable' \in {0, 1}
        /\ handle' = "open" => file' = <<Magic>>
    BY DEF FileInv, Typed, TypeOK, OpenNew, OpenNewFails
  <1>2. TypeOK'
    <2>1. file' \in Seq(Cell) /\ Len(file') = 1 /\ durable' \in 0..1
      <3>1. Len(<<Magic>>) = 1 /\ Len(<<Torn>>) = 1 /\ durable' \in 0..1
        BY <1>1
      <3> QED
        BY <1>1, <3>1, OnlyMagic
    <2> QED
      BY <1>1, <2>1 DEF FileInv, Typed, TypeOK
  <1>3. Typed'
    <2>1. Heads'
      BY <1>1, OnlyMagic DEF Heads
    <2> QED
      BY <1>1, <1>2, <2>1 DEF FileInv, Typed
  <1>4. ASSUME ~failed' PROVE Sound'
    <2>1. acked = {}
      BY <1>1, <1>4 DEF FileInv, Sound, Blank, Written, Chain
    <2>2. CASE file' = <<Magic>>
      <3>1. Written(<<2>>)'
        BY <1>1, <2>1, <2>2, OnlyMagic DEF Written, Kept
      <3> QED
        BY <1>1, <2>1, <3>1 DEF Sound
    <2>3. CASE file' = <<Torn>>
      <3>1. handle' = "closed"
        BY <1>1, <2>3, OnlyMagic
      <3> QED
        BY <1>1, <2>1, <2>3, <3>1 DEF Sound, Blank
    <2> QED
      BY <1>1, <2>2, <2>3
  <1> QED
    BY <1>3, <1>4 DEF FileInv

\* A file that is opened again.
LEMMA OpenStep ==
    ASSUME FileInv, OpenExisting
    PROVE  FileInv'
  <1>1. /\ handle = "closed" /\ handle' = "open" /\ pending = <<>>
        /\ file' = file /\ durable' = durable /\ pending' = pending
        /\ attempts' = attempts /\ acked' = acked /\ failed' = failed
        /\ Decode(file).ok
        /\ events' = Decode(file).events /\ byteTotal' = Bytes(events')
        /\ file \in Seq(Cell)
    BY DEF FileInv, Typed, TypeOK, OpenExisting
  <1>2. /\ events' \in Seq(Event) /\ byteTotal' \in 0..ByteCap
        /\ \A k \in DOMAIN events' :
              \E i \in DOMAIN file : file[i].kind = "head" /\ file[i].seq = k - 1
    BY <1>1, DecodedTypes
  <1>3. TypeOK'
    BY <1>1, <1>2 DEF FileInv, Typed, TypeOK
  <1>4. Len(events') <= attempts
    <2>1. attempts \in Nat /\ Len(events') \in Nat
      BY <1>2 DEF FileInv, Typed, TypeOK
    <2>2. CASE Len(events') # 0
      <3>1. Len(events') \in DOMAIN events'
        BY <1>2, <2>1, <2>2
      <3>2. PICK i \in DOMAIN file : file[i].kind = "head" /\ file[i].seq = Len(events') - 1
        BY <1>2, <3>1
      <3>3. file[i].seq < attempts
        BY <3>2 DEF FileInv, Typed, Heads
      <3> QED
        BY <2>1, <3>2, <3>3
    <2> QED
      BY <2>1, <2>2
  <1>5. Typed'
    <2>1. Heads' /\ Len(pending') = 0 /\ handle' # "closed" /\ handle' # "syncing"
      BY <1>1 DEF FileInv, Typed, Heads
    <2>2. Len(events') + Len(pending') <= attempts'
      BY <1>1, <1>2, <1>4, <2>1
    <2> QED
      BY <1>3, <2>1, <2>2 DEF Typed
  <1>6. ASSUME ~failed' PROVE Sound'
    <2>1. ~Blank
      <3>1. ASSUME file = <<>> \/ file = <<Torn>> PROVE FALSE
        <4>1. file = <<>> \/ Head(file) # Magic
          BY <3>1, OnlyMagic
        <4>2. Decode(file) = [ok |-> FALSE, events |-> <<>>]
          BY <4>1 DEF Decode
        <4> QED
          BY <1>1, <4>2
      <3> QED
        BY <3>1 DEF Blank
    <2>2. PICK starts : Written(starts)
      BY <1>1, <1>6, <2>1 DEF FileInv, Sound
    <2>3. file # <<>> /\ Head(file) = Magic /\ Chain(file, starts)
      BY <2>2 DEF Written, Chain
    <2>4. Frames(file).ok /\ events' = Frames(file).events
      <3>1. Frames(file) \in [ok : BOOLEAN, events : Seq(Event)]
        BY <1>1, <2>3, DecodedEvents DEF FromFrames
      <3> QED
        BY <1>1, <2>3, <3>1, DecodeFields
    <2>5. Whole(file, starts) /\ events' = EventsAt(file, starts)
      <3>1. Whole(file, starts) \/ Ragged(file, starts)
        BY <2>2 DEF Written
      <3> QED
        BY <1>1, <2>3, <2>4, <3>1, ChainIsRead
    <2>6. events' \o pending' = events'
      BY <1>1, <1>2
    <2>7. Written(starts)'
      BY <1>1, <2>2, <2>5, <2>6 DEF Written, Kept
    <2>8. ASSUME NEW event \in acked' PROVE event.seq < Len(events')
      <3>1. Len(starts) = Len(events') + Len(pending') + 1
        <4>1. Len(starts) \in Nat /\ Len(starts) # 0
          BY <2>3 DEF Chain
        <4>2. Len(events') = Len(starts) - 1
          BY <2>5, <4>1 DEF EventsAt
        <4> QED
          BY <1>1, <4>1, <4>2
      <3>2. event.seq + 2 \in DOMAIN starts /\ starts \in Seq(Nat) /\ event.seq \in Nat
        BY <1>1, <2>2, <2>8 DEF Written, Kept, Chain, FileInv, Typed, TypeOK, Event
      <3> QED
        BY <1>1, <1>2, <3>1, <3>2
    <2> QED
      BY <2>7, <2>8 DEF Sound
  <1> QED
    BY <1>5, <1>6 DEF FileInv

\* What an append tries to write.
LEMMA TriedEvent ==
    ASSUME FileInv, NEW n \in 1..MaxLen, NEW time \in Time, MayAppend(n), Encodes(time)
    PROVE  /\ attempts + 1 \in 1..MaxAttempts /\ Len(events) \in 0..attempts
           /\ n \in Nat /\ byteTotal + n <= ByteCap /\ handle = "open" /\ pending = <<>>
           /\ NewEvent(n, time) \in Event /\ NewEvent(n, time).seq = Len(events)
           /\ Len(NewEvent(n, time).data) = n
           /\ Frame(NewEvent(n, time)) \in Seq(Cell) /\ Len(Frame(NewEvent(n, time))) = n + 1
           /\ \A k \in 1..n + 1 : Frame(NewEvent(n, time))[k].kind = "head" =>
                 Frame(NewEvent(n, time))[k].seq = Len(events)
  <1>1. /\ handle = "open" /\ pending = <<>> /\ attempts + 1 \in 1..MaxAttempts
        /\ Len(events) \in 0..attempts /\ byteTotal + n <= ByteCap /\ attempts \in Nat
    <2>1. /\ attempts \in Nat /\ Len(events) \in Nat /\ Len(events) <= attempts
          /\ attempts < MaxAttempts /\ MaxAttempts \in Nat
      BY FileLogAssumption DEF FileInv, Typed, TypeOK, MayAppend
    <2> QED
      BY <2>1 DEF FileInv, Typed, TypeOK, MayAppend
  <1>2. n \in Nat /\ time \in SystemTime /\ Len(events) \in 0..MaxAttempts
    BY <1>1, FileLogAssumption
  <1> DEFINE event == NewEvent(n, time)
  <1>3. event = [seq |-> Len(events), time |-> time, data |-> DataOf(attempts + 1, n)]
    BY DEF NewEvent
  <1>4. event.seq = Len(events)
    BY <1>3
  <1> HIDE DEF event
  <1>5. /\ event \in Event /\ Len(event.data) = n
        /\ Frame(event) \in Seq(Cell) /\ Len(Frame(event)) = n + 1
        /\ Frame(event)[1].seq = Len(events)
        /\ \A k \in 1..n : Frame(event)[k + 1] = event.data[k] /\ event.data[k].kind = "data"
    <2>0. PICK id \in 1..MaxAttempts, seq \in 0..MaxAttempts : id = attempts + 1 /\ seq = Len(events)
      BY <1>1, <1>2
    <2>1. PICK ev : ev = event
      OBVIOUS
    <2>3. ev = [seq |-> seq, time |-> time, data |-> DataOf(id, n)]
      BY <1>3, <2>0, <2>1
    <2>2. /\ ev \in Event /\ Len(ev.data) = n
          /\ Frame(ev) \in Seq(Cell) /\ Len(Frame(ev)) = n + 1
          /\ Frame(ev)[1].seq = seq
          /\ \A k \in 1..n : Frame(ev)[k + 1] = ev.data[k] /\ ev.data[k].kind = "data"
      BY <1>1, <1>2, <2>0, <2>3, NewFrame
    <2> QED
      BY <2>0, <2>1, <2>2
  <1>6. ASSUME NEW k \in 1..n + 1, Frame(event)[k].kind = "head"
        PROVE  Frame(event)[k].seq = Len(events)
    <2>1. CASE k = 1
      BY <1>5, <2>1
    <2>2. CASE k # 1
      <3>1. k - 1 \in 1..n /\ k - 1 + 1 = k
        BY <1>2, <2>2
      <3> QED
        BY <1>5, <1>6, <3>1
    <2> QED
      BY <2>1, <2>2
  <1> QED
    BY <1>1, <1>2, <1>4, <1>5, <1>6 DEF event

\* Cells at the end of the file that are no frame, or one with the next seq.
LEMMA MoreCells ==
    ASSUME TypeOK, Heads, Len(events) <= attempts, attempts' = attempts + 1,
           NEW part \in Seq(Cell), file' = file \o part,
           \A k \in DOMAIN part : part[k].kind = "head" => part[k].seq = Len(events)
    PROVE  file' \in Seq(Cell) /\ Len(file') = Len(file) + Len(part) /\ Heads'
  <1>1. PICK L \in Nat : Len(file) = L /\ file \in Seq(Cell) /\ DOMAIN file = 1..L
    BY DEF TypeOK
  <1>2. PICK M \in Nat : Len(part) = M /\ DOMAIN part = 1..M
    OBVIOUS
  <1>3. PICK cells \in Seq(Cell) : cells = file
    BY <1>1
  <1>4. /\ cells \o part \in Seq(Cell) /\ Len(cells \o part) = L + M
        /\ \A k \in 1..L : (cells \o part)[k] = cells[k]
        /\ \A k \in 1..M : (cells \o part)[L + k] = part[k]
    <2>1. Len(cells) = L /\ Len(part) = M
      BY <1>1, <1>2, <1>3
    <2>2. PICK a \in Seq(Cell), b \in Seq(Cell) : a = cells /\ b = part
      OBVIOUS
    <2>3. /\ a \o b \in Seq(Cell) /\ Len(a \o b) = Len(a) + Len(b)
          /\ \A k \in 1..Len(a) : (a \o b)[k] = a[k]
          /\ \A k \in 1..Len(b) : (a \o b)[Len(a) + k] = b[k]
      OBVIOUS
    <2> QED
      BY <2>1, <2>2, <2>3
  <1>5. /\ file' \in Seq(Cell) /\ Len(file') = L + M
        /\ \A k \in 1..L : file'[k] = file[k]
        /\ \A k \in 1..M : file'[L + k] = part[k]
    BY <1>3, <1>4
  <1>6. ASSUME NEW i \in DOMAIN file', file'[i].kind = "head" PROVE file'[i].seq < attempts'
    <2>1. attempts \in Nat /\ Len(events) \in Nat
      BY DEF TypeOK
    <2>2. i \in 1..L + M
      BY <1>1, <1>2, <1>5
    <2>3. CASE i \in 1..L
      <3>1. file'[i] = file[i] /\ file[i].seq < attempts
        BY <1>1, <1>5, <1>6, <2>3 DEF Heads
      <3>2. file[i] \in [kind : {"head"}, seq : 0..MaxAttempts, stamp : Stamp, len : 1..MaxLen]
        BY <1>1, <1>6, <2>3, <3>1 DEF Cell, Magic, Torn
      <3>3. file[i].seq \in Nat
        BY <3>2, FileLogAssumption
      <3> QED
        BY <2>1, <3>1, <3>3
    <2>4. CASE i \notin 1..L
      <3>1. i - L \in 1..M /\ L + (i - L) = i
        BY <2>2, <2>4
      <3>2. file'[i] = part[i - L]
        BY <1>5, <3>1
      <3>3. part[i - L].seq = Len(events)
        BY <1>2, <1>6, <3>1, <3>2
      <3> QED
        BY <2>1, <3>2, <3>3
    <2> QED
      BY <2>3, <2>4
  <1> QED
    BY <1>1, <1>2, <1>5, <1>6 DEF Heads

\* A frame is written.
LEMMA WriteStep ==
    ASSUME FileInv, NEW n \in 1..MaxLen, NEW time \in Time, AppendWrite(n, time)
    PROVE  FileInv'
  <1> DEFINE event == NewEvent(n, time)
  <1>1. /\ MayAppend(n) /\ Encodes(time) /\ handle' = "syncing"
        /\ file' = file \o Frame(event) /\ pending' = <<event>> /\ attempts' = attempts + 1
        /\ durable' = durable /\ events' = events /\ byteTotal' = byteTotal
        /\ acked' = acked /\ failed' = failed
    BY DEF AppendWrite
  <1>2. /\ attempts + 1 \in 1..MaxAttempts /\ Len(events) \in 0..attempts
        /\ n \in Nat /\ byteTotal + n <= ByteCap /\ handle = "open" /\ pending = <<>>
        /\ event \in Event /\ event.seq = Len(events) /\ Len(event.data) = n
        /\ Frame(event) \in Seq(Cell) /\ Len(Frame(event)) = n + 1
        /\ \A k \in 1..n + 1 : Frame(event)[k].kind = "head" => Frame(event)[k].seq = Len(events)
    BY <1>1, TriedEvent
  <1>3. event = [seq |-> Len(events), time |-> time, data |-> DataOf(attempts + 1, n)]
    BY DEF NewEvent
  <1> HIDE DEF event
  <1>4. TypeOK /\ Heads /\ Len(events) <= attempts /\ attempts \in Nat /\ Len(events) \in Nat
    BY <1>2 DEF FileInv, Typed, TypeOK
  <1>5. file' \in Seq(Cell) /\ Len(file') = Len(file) + (n + 1) /\ Heads'
    <2>1. DOMAIN Frame(event) = 1..n + 1
      BY <1>2
    <2>2. \A k \in DOMAIN Frame(event) : Frame(event)[k].kind = "head" =>
             Frame(event)[k].seq = Len(events)
      BY <1>2, <2>1
    <2> QED
      BY <1>1, <1>2, <1>4, <2>2, MoreCells
  <1>6. pending' \in Seq(Event) /\ Len(pending') = 1 /\ pending'[1] = event
    BY <1>1, <1>2
  <1>7. TypeOK'
    <2>1. durable' \in 0..Len(file')
      <3>1. durable \in 0..Len(file) /\ Len(file) \in Nat
        BY <1>4 DEF TypeOK
      <3> QED
        BY <1>1, <1>2, <1>5, <3>1
    <2>2. attempts' \in 0..MaxAttempts /\ events' \in Seq(Event) /\ acked' \subseteq Event
          /\ byteTotal' \in 0..ByteCap /\ failed' \in BOOLEAN
      BY <1>1, <1>2, <1>4 DEF TypeOK
    <2> QED
      BY <1>1, <1>5, <1>6, <2>1, <2>2 DEF TypeOK
  <1>8. Typed'
    BY <1>1, <1>2, <1>4, <1>5, <1>6, <1>7 DEF Typed
  <1>9. ASSUME ~failed' PROVE Sound'
    <2>1. Sound /\ ~Blank
      BY <1>1, <1>2, <1>9 DEF FileInv, Blank
    <2>2. PICK starts : Written(starts)
      BY <2>1 DEF Sound
    <2>3. Chain(file, starts) /\ Whole(file, starts)
      BY <1>2, <2>2 DEF Written
    <2>4. /\ Len(starts) = Len(events) + 1
          /\ \A i \in DOMAIN events : events[i] = EventAt(file, starts[i])
      BY <1>2, <1>4, <2>2, InMemory
    <2>5. PICK N \in Nat : Len(events) = N /\ Len(starts) = N + 1 /\ Len(starts) - 1 = N
      BY <1>4, <2>4
    <2>6. PICK new : OneMore(file, starts, event, file', new)
      <3>1. PICK cells \in Seq(Cell) : cells = file
        BY <1>4 DEF TypeOK
      <3>2. PICK id \in 1..MaxAttempts : id = attempts + 1
        BY <1>2
      <3>3. PICK ev : ev = event
        OBVIOUS
      <3>4. ev = [seq |-> N, time |-> time, data |-> DataOf(id, n)]
        BY <1>3, <2>5, <3>2, <3>3
      <3>5. Chain(cells, starts) /\ Whole(cells, starts) /\ time \in SystemTime
            /\ N \in 0..MaxAttempts /\ Encodes(time)
        BY <1>1, <1>2, <1>4, <2>3, <2>5, <3>1, FileLogAssumption
      <3>6. PICK new : OneMore(cells, starts, ev, cells \o Frame(ev), new)
        BY <2>5, <3>4, <3>5, OneMoreFrame
      <3> QED
        BY <1>1, <3>1, <3>3, <3>6
    <2>10. /\ Chain(file', new) /\ Whole(file', new)
           /\ Len(new) = Len(starts) + 1
           /\ \A k \in 1..Len(starts) : new[k] = starts[k]
           /\ \A k \in 1..Len(starts) - 1 : EventAt(file', new[k]) = EventAt(file, starts[k])
           /\ EventAt(file', new[Len(starts)]) = event
      BY <2>6 DEF OneMore
    <2>7. Kept(new)'
      <3>1. ASSUME NEW e \in acked
            PROVE  /\ e.seq + 2 \in DOMAIN new
                   /\ EventAt(file', new[e.seq + 1]) = e
                   /\ new[e.seq + 2] <= durable + 1
        <4>1. /\ e.seq + 2 \in DOMAIN starts /\ EventAt(file, starts[e.seq + 1]) = e
              /\ starts[e.seq + 2] <= durable + 1 /\ e.seq \in Nat
          BY <1>4, <2>2, FileLogAssumption DEF Written, Kept, TypeOK, Event
        <4>2. starts \in Seq(Nat) /\ new \in Seq(Nat)
          BY <2>3, <2>10 DEF Chain
        <4>3. e.seq + 2 \in 1..N + 1 /\ e.seq + 1 \in 1..N /\ e.seq + 2 \in DOMAIN new
          <5>1. e.seq + 2 \in 1..N + 1
            BY <2>5, <4>1, <4>2
          <5>2. Len(new) = N + 2 /\ DOMAIN new = 1..Len(new)
            BY <2>5, <2>10, <4>2
          <5> QED
            BY <4>1, <5>1, <5>2
        <4> QED
          BY <2>5, <2>10, <4>1, <4>3
      <3> QED
        BY <1>1, <3>1 DEF Kept
    <2>8. events' \o pending' = EventsAt(file', new)
      <3>1. /\ events \o <<event>> \in Seq(Event) /\ Len(events \o <<event>>) = N + 1
            /\ \A k \in 1..N : (events \o <<event>>)[k] = events[k]
            /\ (events \o <<event>>)[N + 1] = event
        <4>1. events \in Seq(Event) /\ Len(events) = N /\ event \in Event
          BY <1>2, <1>4, <2>5 DEF TypeOK
        <4> HIDE DEF event
        <4> QED
          BY <4>1, OneLonger
      <3>2. EventsAt(file', new) = [k \in 1..N + 1 |-> EventAt(file', new[k])]
        <4>1. Len(new) - 1 = N + 1
          BY <2>5, <2>10
        <4> QED
          BY <4>1 DEF EventsAt
      <3>3. ASSUME NEW k \in 1..N + 1 PROVE EventAt(file', new[k]) = (events \o <<event>>)[k]
        <4>1. CASE k \in 1..N
          <5>1. k \in DOMAIN events /\ k \in 1..Len(starts) - 1
            BY <1>4, <2>5, <4>1 DEF TypeOK
          <5> QED
            BY <2>4, <2>10, <3>1, <4>1, <5>1
        <4>2. CASE k = N + 1
          BY <2>5, <2>10, <3>1, <4>2
        <4>3. k \in 1..N \/ k = N + 1
          OBVIOUS
        <4> QED
          BY <4>1, <4>2, <4>3
      <3>4. PICK all \in Seq(Event) : all = events \o <<event>> /\ Len(all) = N + 1
        BY <3>1
      <3>5. all = [k \in 1..N + 1 |-> all[k]]
        BY <3>4
      <3>6. \A k \in 1..N + 1 : EventAt(file', new[k]) = all[k]
        BY <3>3, <3>4
      <3>7. [k \in 1..N + 1 |-> EventAt(file', new[k])] = [k \in 1..N + 1 |-> all[k]]
        BY <3>6, Zenon
      <3> QED
        BY <1>1, <3>2, <3>4, <3>5, <3>7
    <2>9. Written(new)'
      BY <2>10, <2>7, <2>8 DEF Written
    <2> QED
      BY <1>1, <1>2, <2>1, <2>9 DEF Sound
  <1> QED
    BY <1>8, <1>9 DEF FileInv

\* A frame is written in part.
LEMMA WriteFailsStep ==
    ASSUME FileInv, NEW n \in 1..MaxLen, NEW time \in Time, AppendWriteFails(n, time)
    PROVE  FileInv'
  <1> DEFINE event == NewEvent(n, time)
  <1>1. /\ MayAppend(n) /\ Encodes(time) /\ attempts' = attempts + 1 /\ failed' = TRUE
        /\ handle' = handle /\ pending' = pending /\ durable' = durable /\ events' = events
        /\ byteTotal' = byteTotal /\ acked' = acked
    BY DEF AppendWriteFails
  <1>2. PICK part \in Cut(Frame(event)) : file' = file \o part
    BY DEF AppendWriteFails
  <1>3. /\ attempts + 1 \in 1..MaxAttempts /\ Len(events) \in 0..attempts
        /\ n \in Nat /\ handle = "open" /\ pending = <<>>
        /\ Frame(event) \in Seq(Cell) /\ Len(Frame(event)) = n + 1
        /\ \A k \in 1..n + 1 : Frame(event)[k].kind = "head" => Frame(event)[k].seq = Len(events)
    BY <1>1, TriedEvent
  <1> HIDE DEF event
  <1>4. TypeOK /\ Heads /\ Len(events) <= attempts /\ attempts \in Nat /\ Len(events) \in Nat
    BY <1>3 DEF FileInv, Typed, TypeOK
  <1>5. /\ part \in Seq(Cell)
        /\ \A k \in DOMAIN part : part[k].kind = "head" => part[k].seq = Len(events)
    <2>1. part \in Seq(Cell)
      BY <1>3, WhatIsLeft
    <2>2. PICK K \in 0..n + 1 :
             /\ \A k \in 1..K : part[k] = Frame(event)[k]
             /\ Len(part) = K \/ (Len(part) = K + 1 /\ part[K + 1] = Torn)
      <3>1. PICK cells \in Seq(Cell) : cells = Frame(event)
        BY <1>3
      <3>2. PICK K \in 0..Len(cells) : CutAt(cells, part, K)
        BY <3>1, WhatIsLeft
      <3>3. Len(cells) = n + 1
        BY <1>3, <3>1
      <3> QED
        BY <3>1, <3>2, <3>3 DEF CutAt
    <2>3. ASSUME NEW k \in DOMAIN part, part[k].kind = "head" PROVE part[k].seq = Len(events)
      <3>1. k \in 1..K \/ (k = K + 1 /\ part[k] = Torn)
        BY <2>1, <2>2
      <3>2. k \in 1..K
        BY <2>3, <3>1, OnlyMagic
      <3>3. k \in 1..n + 1
        BY <1>3, <3>2
      <3> QED
        BY <1>3, <2>2, <2>3, <3>2, <3>3
    <2> QED
      BY <2>1, <2>3
  <1>6. file' \in Seq(Cell) /\ Len(file') = Len(file) + Len(part) /\ Heads'
    BY <1>1, <1>2, <1>4, <1>5, MoreCells
  <1>7. durable' \in 0..Len(file')
    <2>1. durable \in 0..Len(file) /\ Len(file) \in Nat /\ Len(part) \in Nat
      BY <1>4, <1>5 DEF TypeOK
    <2> QED
      BY <1>1, <1>6, <2>1
  <1>8. attempts' \in 0..MaxAttempts /\ failed' \in BOOLEAN
    BY <1>1, <1>3
  <1>9. TypeOK'
    BY <1>1, <1>4, <1>6, <1>7, <1>8 DEF TypeOK
  <1>10. Typed'
    <2>1. Len(events') + Len(pending') <= attempts'
      BY <1>1, <1>3, <1>4
    <2> QED
      BY <1>1, <1>3, <1>6, <1>9, <2>1 DEF Typed
  <1> QED
    BY <1>1, <1>10 DEF FileInv

\* The frame is synced, and the event is counted.
LEMMA SyncStep ==
    ASSUME FileInv, AppendSync
    PROVE  FileInv'
  <1>1. /\ handle = "syncing" /\ handle' = "open" /\ pending' = <<>>
        /\ events' = events \o pending /\ byteTotal' = byteTotal + Bytes(pending)
        /\ acked' = acked \cup {pending[1]} /\ durable' = Len(file)
        /\ file' = file /\ attempts' = attempts /\ failed' = failed
    BY DEF AppendSync, Acknowledge
  <1>2. TypeOK /\ Heads
    BY DEF FileInv, Typed
  <1>3. PICK n \in Nat : Len(events) = n /\ n + 1 <= attempts /\ attempts \in 0..MaxAttempts
    <2>1. Len(events) \in Nat /\ Len(pending) = 1 /\ attempts \in 0..MaxAttempts
      BY <1>1, <1>2 DEF TypeOK
    <2> QED
      BY <2>1 DEF FileInv, Typed
  <1>4. PICK event \in Event : pending = <<event>> /\ pending[1] = event
    <2>1. pending \in Seq(Event) /\ Len(pending) = 1
      BY <1>1, <1>2 DEF TypeOK
    <2>2. pending[1] \in Event /\ pending = <<pending[1]>>
      BY <2>1
    <2> QED
      BY <2>2
  <1>5. /\ events' \in Seq(Event) /\ Len(events') = n + 1
        /\ \A k \in 1..n : events'[k] = events[k]
        /\ events'[n + 1] = event
    <2>1. PICK log \in Seq(Event) : log = events /\ Len(log) = n
      BY <1>2, <1>3 DEF TypeOK
    <2>2. /\ log \o <<event>> \in Seq(Event) /\ Len(log \o <<event>>) = n + 1
          /\ \A k \in 1..n : (log \o <<event>>)[k] = log[k]
          /\ (log \o <<event>>)[n + 1] = event
      BY <2>1
    <2> QED
      BY <1>1, <1>4, <2>1, <2>2
  <1>6. byteTotal' \in 0..ByteCap
    <2>1. Bytes(pending) = Len(event.data) /\ Len(event.data) \in Nat
      BY <1>4, BytesOf DEF Event
    <2>2. byteTotal + Len(event.data) <= ByteCap /\ byteTotal \in 0..ByteCap
      BY <1>1, <1>2, <1>4 DEF FileInv, Typed, TypeOK
    <2> QED
      BY <1>1, <2>1, <2>2, FileLogAssumption
  <1>7. TypeOK'
    <2>1. durable' \in 0..Len(file') /\ file' \in Seq(Cell) /\ acked' \subseteq Event
      BY <1>1, <1>2, <1>4 DEF TypeOK
    <2>2. pending' \in Seq(Event) /\ Len(pending') = 0 /\ handle' \in {"closed", "open", "syncing"}
      BY <1>1
    <2>3. failed' \in BOOLEAN
      BY <1>1, <1>2 DEF TypeOK
    <2> QED
      BY <1>1, <1>3, <1>5, <1>6, <2>1, <2>2, <2>3 DEF TypeOK
  <1>8. Typed'
    <2>1. Heads'
      BY <1>1, <1>2 DEF Heads
    <2>2. Len(events') + Len(pending') <= attempts'
      BY <1>1, <1>3, <1>5
    <2> QED
      BY <1>1, <1>7, <2>1, <2>2 DEF Typed
  <1>9. ASSUME ~failed' PROVE Sound'
    <2>1. Sound /\ ~Blank
      BY <1>1, <1>9 DEF FileInv, Blank
    <2>2. PICK starts : Written(starts)
      BY <2>1 DEF Sound
    <2>3. Chain(file, starts) /\ Whole(file, starts) /\ events \o pending = EventsAt(file, starts)
      BY <1>1, <2>2 DEF Written
    <2>4. Len(starts) = n + 2 /\ event = EventAt(file, starts[n + 1])
      <3>1. Len(pending) = 1 /\ pending # <<>>
        BY <1>4
      <3>2. /\ Len(starts) = Len(events) + Len(pending) + 1
            /\ pending[1] = EventAt(file, starts[Len(events) + 1])
        BY <1>1, <1>2, <2>2, <3>1, InMemory
      <3> QED
        BY <1>3, <1>4, <3>1, <3>2
    <2>5. event.seq = n
      <3>1. n + 1 \in 1..Len(starts) - 1
        BY <2>4
      <3>2. /\ starts[n + 1] \in DOMAIN file /\ Complete(file, starts[n + 1])
            /\ file[starts[n + 1]].seq = n + 1 - 1
        BY <2>3, <3>1 DEF Chain
      <3>3. file \in Seq(Cell) /\ n + 1 - 1 = n
        BY <1>2 DEF TypeOK
      <3> QED
        BY <2>4, <3>2, <3>3, CompleteFrame
    <2>6. ASSUME NEW e \in acked'
          PROVE  /\ e.seq + 2 \in DOMAIN starts
                 /\ EventAt(file, starts[e.seq + 1]) = e
                 /\ starts[e.seq + 2] <= Len(file) + 1
      <3>1. starts \in Seq(Nat) /\ starts[n + 2] = Len(file) + 1 /\ Len(file) \in Nat
        BY <1>2, <2>3, <2>4 DEF Chain, Whole, End, TypeOK
      <3>2. CASE e = event
        <4>1. e.seq + 2 = n + 2 /\ e.seq + 1 = n + 1 /\ n + 2 \in DOMAIN starts
          BY <2>4, <2>5, <3>1, <3>2
        <4> QED
          BY <2>4, <3>1, <3>2, <4>1
      <3>3. CASE e \in acked
        <4>1. /\ e.seq + 2 \in DOMAIN starts /\ EventAt(file, starts[e.seq + 1]) = e
              /\ starts[e.seq + 2] <= durable + 1 /\ starts[e.seq + 2] \in Nat
          BY <2>2, <3>1, <3>3 DEF Written, Kept
        <4>2. durable \in 0..Len(file)
          BY <1>2 DEF TypeOK
        <4> QED
          BY <3>1, <4>1, <4>2
      <3> QED
        BY <1>1, <1>4, <2>6, <3>2, <3>3
    <2>7. events' \o pending' = EventsAt(file, starts)
      BY <1>1, <1>5, <2>3
    <2>8. Written(starts)'
      BY <1>1, <2>3, <2>6, <2>7 DEF Written, Kept
    <2>9. ASSUME NEW e \in acked' PROVE e.seq < Len(events')
      <3>1. CASE e = event
        BY <1>5, <2>5, <3>1
      <3>2. CASE e \in acked
        <4>1. e.seq < n /\ e.seq \in 0..MaxAttempts
          BY <1>1, <1>2, <1>3, <2>1, <3>2 DEF Sound, TypeOK, Event
        <4> QED
          BY <1>5, <4>1
      <3> QED
        BY <1>1, <1>4, <2>9, <3>1, <3>2
    <2> QED
      BY <2>8, <2>9 DEF Sound
  <1> QED
    BY <1>8, <1>9 DEF FileInv

\* The sync fails.
LEMMA SyncFailsStep ==
    ASSUME FileInv, AppendSyncFails
    PROVE  FileInv'
  <1>1. /\ handle = "syncing" /\ handle' = "open" /\ pending' = <<>> /\ failed' = TRUE
        /\ file' = file /\ durable' = durable /\ events' = events /\ byteTotal' = byteTotal
        /\ attempts' = attempts /\ acked' = acked
    BY DEF AppendSyncFails
  <1>2. TypeOK /\ Heads /\ Len(events) \in Nat /\ attempts \in Nat /\ Len(events) <= attempts
    <2>1. Len(events) \in Nat /\ Len(pending) \in Nat /\ attempts \in Nat
      BY FileLogAssumption DEF FileInv, Typed, TypeOK
    <2> QED
      BY <2>1 DEF FileInv, Typed
  <1>3. pending' \in Seq(Event) /\ Len(pending') = 0 /\ failed' \in BOOLEAN
    BY <1>1
  <1>4. TypeOK'
    BY <1>1, <1>2, <1>3 DEF TypeOK
  <1>5. Typed'
    BY <1>1, <1>2, <1>3, <1>4 DEF Typed, Heads
  <1> QED
    BY <1>1, <1>5 DEF FileInv

\* The handle is dropped.
LEMMA CloseStep ==
    ASSUME FileInv, Close
    PROVE  FileInv'
  <1>1. /\ handle # "closed" /\ handle' = "closed" /\ pending' = <<>> /\ events' = <<>>
        /\ byteTotal' = 0 /\ file' = file /\ durable' = durable /\ attempts' = attempts
        /\ acked' = acked /\ failed' = failed
    BY DEF Close
  <1>2. TypeOK /\ Heads /\ attempts \in Nat
    BY FileLogAssumption DEF FileInv, Typed, TypeOK
  <1>3. /\ pending' \in Seq(Event) /\ Len(pending') = 0
        /\ events' \in Seq(Event) /\ Len(events') = 0 /\ byteTotal' \in 0..ByteCap
    BY <1>1, FileLogAssumption
  <1>4. TypeOK'
    BY <1>1, <1>2, <1>3 DEF TypeOK
  <1>5. Typed'
    BY <1>1, <1>2, <1>3, <1>4 DEF Typed, Heads
  <1>6. ASSUME ~failed' PROVE Sound'
    <2>1. PICK starts : Written(starts)
      BY <1>1, <1>6 DEF FileInv, Sound, Blank
    <2>2. Written(starts)'
      BY <1>1, <2>1 DEF Written, Kept
    <2> QED
      BY <1>1, <2>2 DEF Sound
  <1> QED
    BY <1>5, <1>6 DEF FileInv

\* What a stop of the machine leaves: everything that was synced, and some of the rest.
LEMMA WhatSurvives ==
    ASSUME TypeOK, PowerLoss
    PROVE  /\ file' \in Seq(Cell) /\ durable' = Len(file')
           /\ \E M \in durable..Len(file) : CutAt(file, file', M)
  <1>1. PICK cells \in Seq(Cell), D \in Nat, n \in Nat :
           cells = file /\ D = durable /\ Len(cells) = D + n
    <2>1. file \in Seq(Cell) /\ durable \in 0..Len(file) /\ Len(file) \in Nat
      BY DEF TypeOK
    <2>2. durable \in Nat /\ Len(file) - durable \in Nat
          /\ Len(file) = durable + (Len(file) - durable)
      BY <2>1
    <2> QED
      BY <2>1, <2>2
  <1> DEFINE kept == SubSeq(cells, 1, D)
             unsynced == SubSeq(cells, D + 1, Len(cells))
  <1>2. kept \in Seq(Cell) /\ Len(kept) = D /\ \A k \in 1..D : kept[k] = cells[k]
    BY <1>1
  <1>3. /\ unsynced \in Seq(Cell) /\ Len(unsynced) = n
        /\ \A k \in 1..n : unsynced[k] = cells[D + k]
    BY <1>1
  <1>4. PICK left \in Cut(unsynced) \cup {unsynced} :
           file' = kept \o left /\ durable' = D + Len(left)
    BY <1>1 DEF PowerLoss
  <1> HIDE DEF kept, unsynced
  <1>5. left \in Seq(Cell)
    BY <1>3, <1>4, WhatIsLeft
  <1>6. PICK K \in 0..n :
           /\ \A k \in 1..K : left[k] = unsynced[k]
           /\ \/ Len(left) = K
              \/ /\ Len(left) = K + 1 /\ K + 1 <= n
                 /\ left[K + 1] = Torn /\ unsynced[K + 1].kind # "data"
    BY <1>3, <1>4, WhatIsLeft DEF CutAt
  <1>7. /\ kept \o left \in Seq(Cell) /\ Len(kept \o left) = D + Len(left)
        /\ \A k \in 1..D : (kept \o left)[k] = kept[k]
        /\ \A k \in 1..Len(left) : (kept \o left)[D + k] = left[k]
    <2>1. PICK a \in Seq(Cell), b \in Seq(Cell) : a = kept /\ b = left
      BY <1>2, <1>5
    <2>2. /\ a \o b \in Seq(Cell) /\ Len(a \o b) = Len(a) + Len(b)
          /\ \A k \in 1..Len(a) : (a \o b)[k] = a[k]
          /\ \A k \in 1..Len(b) : (a \o b)[Len(a) + k] = b[k]
      OBVIOUS
    <2> QED
      BY <1>2, <2>1, <2>2
  <1>8. ASSUME NEW k \in 1..D + K PROVE file'[k] = file[k]
    <2>1. CASE k \in 1..D
      BY <1>1, <1>2, <1>4, <1>7, <2>1
    <2>2. CASE k \notin 1..D
      <3>1. k - D \in 1..K /\ D + (k - D) = k /\ k - D \in 1..n /\ k - D \in 1..Len(left)
        BY <1>5, <1>6, <2>2
      <3>2. file'[k] = left[k - D]
        BY <1>4, <1>7, <3>1
      <3>3. left[k - D] = cells[k]
        BY <1>3, <1>6, <3>1
      <3> QED
        BY <1>1, <3>2, <3>3
    <2> QED
      BY <2>1, <2>2
  <1>9. Len(file') = D + Len(left)
    BY <1>4, <1>7
  <1>10. D + K \in durable..Len(file)
    BY <1>1
  <1>11. CASE Len(left) = K
    <2>1. CutAt(file, file', D + K)
      BY <1>8, <1>9, <1>11 DEF CutAt
    <2> QED
      BY <1>4, <1>7, <1>9, <1>10, <2>1
  <1>12. CASE /\ Len(left) = K + 1 /\ K + 1 <= n
              /\ left[K + 1] = Torn /\ unsynced[K + 1].kind # "data"
    <2>1. K + 1 \in 1..Len(left) /\ K + 1 \in 1..n /\ D + (K + 1) = D + K + 1
      BY <1>12
    <2>2. file'[D + K + 1] = Torn
      BY <1>4, <1>7, <1>12, <2>1
    <2>3. file[D + K + 1].kind # "data"
      BY <1>1, <1>3, <1>12, <2>1
    <2>4. Len(file') = D + K + 1 /\ D + K + 1 <= Len(file)
      BY <1>1, <1>9, <1>12
    <2>5. CutAt(file, file', D + K)
      BY <1>8, <2>2, <2>3, <2>4 DEF CutAt
    <2> QED
      BY <1>4, <1>7, <1>9, <1>10, <2>5
  <1> QED
    BY <1>6, <1>11, <1>12

\* The machine stops.
LEMMA PowerLossStep ==
    ASSUME FileInv, PowerLoss
    PROVE  FileInv'
  <1>1. /\ handle' = "closed" /\ pending' = <<>> /\ events' = <<>> /\ byteTotal' = 0
        /\ attempts' = attempts /\ acked' = acked /\ failed' = failed
    BY DEF PowerLoss
  <1>2. TypeOK /\ Heads /\ attempts \in Nat
    BY FileLogAssumption DEF FileInv, Typed, TypeOK
  <1>3. file' \in Seq(Cell) /\ durable' = Len(file') /\ Len(file') \in Nat
    BY <1>2, WhatSurvives
  <1>0. PICK M \in durable..Len(file) : CutAt(file, file', M)
    BY <1>2, WhatSurvives
  <1>4. /\ \A k \in 1..M : file'[k] = file[k]
        /\ \/ Len(file') = M
           \/ /\ Len(file') = M + 1 /\ M + 1 <= Len(file)
              /\ file'[M + 1] = Torn /\ file[M + 1].kind # "data"
    BY <1>0 DEF CutAt
  <1>5. PICK L \in Nat : Len(file) = L /\ DOMAIN file = 1..L /\ file \in Seq(Cell)
                         /\ durable \in 0..L /\ M \in 0..L
    BY <1>2, <1>4 DEF TypeOK
  <1>6. TypeOK'
    <2>1. /\ pending' \in Seq(Event) /\ Len(pending') = 0
          /\ events' \in Seq(Event) /\ Len(events') = 0 /\ byteTotal' \in 0..ByteCap
      BY <1>1, FileLogAssumption
    <2> QED
      BY <1>1, <1>2, <1>3, <2>1 DEF TypeOK
  <1>7. Heads'
    <2>1. ASSUME NEW i \in DOMAIN file', file'[i].kind = "head" PROVE file'[i].seq < attempts'
      <3>1. i \in 1..M \/ (i = M + 1 /\ file'[i] = Torn)
        BY <1>3, <1>4, <1>5
      <3>2. i \in 1..M /\ i \in DOMAIN file
        BY <1>5, <2>1, <3>1, OnlyMagic
      <3> QED
        BY <1>1, <1>2, <1>4, <2>1, <3>2 DEF Heads
    <2> QED
      BY <2>1 DEF Heads
  <1>8. Typed'
    <2>1. Len(events') + Len(pending') <= attempts'
      BY <1>1, <1>2
    <2> QED
      BY <1>1, <1>6, <1>7, <2>1 DEF Typed
  <1>9. ASSUME ~failed' PROVE Sound'
    <2>1. Sound
      BY <1>1, <1>9 DEF FileInv
    <2>2. ASSUME M = 0, acked = {} PROVE Sound'
      <3>1. file' = <<>> \/ file' = <<Torn>>
        BY <1>3, <1>4, <2>2
      <3> QED
        BY <1>1, <2>2, <3>1 DEF Sound, Blank
    <2>3. CASE Blank
      <3>1. M = 0 \/ (M = 1 /\ file = <<Torn>>)
        BY <1>5, <2>3 DEF Blank
      <3>2. CASE M = 1 /\ file = <<Torn>>
        <4>1. file' = <<Torn>>
          <5>1. Len(file) = 1 /\ file[1] = Torn
            BY <3>2
          <5>2. Len(file') = 1 /\ file'[1] = file[1]
            BY <1>4, <3>2, <5>1
          <5> QED
            BY <1>3, <5>1, <5>2
        <4> QED
          BY <1>1, <2>3, <4>1 DEF Sound, Blank
      <3> QED
        BY <2>2, <2>3, <3>1, <3>2 DEF Blank
    <2>4. ASSUME NEW starts, Written(starts) PROVE Sound'
      <3>1. /\ Chain(file, starts)
            /\ Whole(file, starts) \/ Ragged(file, starts)
            /\ starts \in Seq(Nat)
        BY <2>4 DEF Written, Chain
      <3>2. ASSUME NEW e \in acked
            PROVE  /\ e.seq \in Nat /\ e.seq + 2 \in 1..Len(starts)
                   /\ EventAt(file, starts[e.seq + 1]) = e
                   /\ starts[e.seq + 2] <= durable + 1
                   /\ starts[e.seq + 2] \in Nat /\ 2 <= starts[e.seq + 2]
        <4>1. /\ e.seq \in Nat /\ e.seq + 2 \in 1..Len(starts)
              /\ EventAt(file, starts[e.seq + 1]) = e
              /\ starts[e.seq + 2] <= durable + 1
          <5>1. e \in Event
            BY <1>2 DEF TypeOK
          <5>2. e.seq \in Nat
            BY <5>1, FileLogAssumption DEF Event
          <5>3. /\ e.seq + 2 \in DOMAIN starts
                /\ EventAt(file, starts[e.seq + 1]) = e
                /\ starts[e.seq + 2] <= durable + 1
            BY <2>4 DEF Written, Kept
          <5>4. DOMAIN starts = 1..Len(starts)
            BY <3>1
          <5> QED
            BY <5>2, <5>3, <5>4
        <4>2. e.seq + 2 \in e.seq + 2..Len(starts)
          BY <3>1, <4>1
        <4>3. starts[e.seq + 2] \in 2..Len(file) + 1
          <5>1. PICK cells \in Seq(Cell), k \in 1..Len(starts) : cells = file /\ k = e.seq + 2
            BY <1>5, <4>1
          <5>2. k \in k..Len(starts)
            BY <3>1
          <5>4. Chain(cells, starts)
            BY <3>1, <5>1
          <5>3. starts[k] \in 2..Len(cells) + 1
            BY <5>2, <5>4, StartsGoUp
          <5> QED
            BY <5>1, <5>3
        <4> QED
          BY <1>5, <4>1, <4>3
      <3>3. CASE M = 0
        <4>1. acked = {}
          BY <1>4, <1>5, <3>2, <3>3
        <4> QED
          BY <2>2, <3>3, <4>1
      <3>4. CASE M # 0
        <4>1. PICK front : Shortened(file, starts, file', M, front)
          <5>1. PICK cells \in Seq(Cell), left \in Seq(Cell) : cells = file /\ left = file'
            BY <1>3, <1>5
          <5>2. PICK m \in 1..Len(cells) : m = M
            BY <1>5, <3>4, <5>1
          <5>3. /\ Chain(cells, starts)
                /\ Whole(cells, starts) \/ Ragged(cells, starts)
                /\ CutAt(cells, left, m)
            BY <1>0, <3>1, <5>1, <5>2
          <5>4. \E front : Shortened(cells, starts, left, m, front)
            BY <5>3, ChainShortened
          <5> QED
            BY <5>1, <5>2, <5>4
        <4>2. PICK n \in Nat : n = Len(front)
          BY <4>1 DEF Shortened, Chain
        <4>3. /\ Chain(file', front) /\ front \in Seq(Nat) /\ Len(front) = n
              /\ Whole(file', front) \/ Ragged(file', front)
              /\ \A k \in 1..n : front[k] = starts[k]
              /\ \A k \in 1..n - 1 : EventAt(file', starts[k]) = EventAt(file, starts[k])
              /\ \A k \in 1..Len(starts) : starts[k] <= M + 1 => k <= n
          BY <4>1, <4>2 DEF Shortened, Chain
        <4>4. ASSUME NEW e \in acked
              PROVE  /\ e.seq + 2 \in DOMAIN front
                     /\ EventAt(file', front[e.seq + 1]) = e
                     /\ front[e.seq + 2] <= durable' + 1
          <5>1. /\ e.seq \in Nat /\ e.seq + 2 \in 1..Len(starts)
                /\ EventAt(file, starts[e.seq + 1]) = e
                /\ starts[e.seq + 2] <= durable + 1 /\ starts[e.seq + 2] \in Nat
            BY <3>2
          <5>2. starts[e.seq + 2] <= M + 1 /\ M <= Len(file')
            BY <1>3, <1>4, <1>5, <5>1
          <5>3. e.seq + 2 <= n
            BY <4>3, <5>1, <5>2
          <5>4. e.seq + 2 \in 1..n /\ e.seq + 1 \in 1..n /\ e.seq + 1 \in 1..n - 1
            <6>1. PICK q \in Nat : q = e.seq
              BY <5>1
            <6>2. q + 2 \in 1..n /\ q + 1 \in 1..n /\ q + 1 \in 1..n - 1
              BY <5>3, <6>1
            <6> QED
              BY <6>1, <6>2
          <5>5. front[e.seq + 2] = starts[e.seq + 2] /\ front[e.seq + 1] = starts[e.seq + 1]
            BY <4>3, <5>4
          <5>6. EventAt(file', starts[e.seq + 1]) = EventAt(file, starts[e.seq + 1])
            BY <4>3, <5>4
          <5>7. front[e.seq + 2] <= durable' + 1
            <6>1. PICK at \in Nat : at = starts[e.seq + 2]
              BY <5>1
            <6>2. at <= durable + 1 /\ at <= M + 1 /\ M <= Len(file')
              BY <5>1, <5>2, <6>1
            <6>3. at <= durable' + 1
              BY <1>3, <1>5, <6>2
            <6> QED
              BY <5>5, <6>1, <6>3
          <5> QED
            BY <4>3, <5>1, <5>4, <5>5, <5>6, <5>7
        <4>5. Kept(front)'
          BY <1>1, <4>4 DEF Kept
        <4>6. Written(front)'
          BY <1>1, <4>3, <4>5 DEF Written
        <4> QED
          BY <1>1, <4>6 DEF Sound
      <3> QED
        BY <3>3, <3>4
    <2> QED
      BY <2>1, <2>3, <2>4 DEF Sound
  <1> QED
    BY <1>8, <1>9 DEF FileInv

-----------------------------------------------------------------------------

LEMMA FileInvStep == FileInv /\ [Next]_vars => FileInv'
  <1> SUFFICES ASSUME FileInv, [Next]_vars PROVE FileInv'
    OBVIOUS
  <1>1. CASE UNCHANGED vars
    BY <1>1 DEF vars, FileInv, Typed, TypeOK, Heads, Sound, Blank, Written, Kept
  <1>2. CASE OpenNew \/ OpenNewFails
    BY <1>2, NewFileStep
  <1>3. CASE OpenExisting
    BY <1>3, OpenStep
  <1>4. ASSUME NEW n \in 1..MaxLen, NEW time \in Time, AppendWrite(n, time) PROVE FileInv'
    BY <1>4, WriteStep
  <1>5. ASSUME NEW n \in 1..MaxLen, NEW time \in Time, AppendWriteFails(n, time) PROVE FileInv'
    BY <1>5, WriteFailsStep
  <1>6. CASE AppendSync
    BY <1>6, SyncStep
  <1>7. CASE AppendSyncFails
    BY <1>7, SyncFailsStep
  <1>8. CASE Close
    BY <1>8, CloseStep
  <1>9. CASE PowerLoss
    BY <1>9, PowerLossStep
  <1> QED
    BY <1>1, <1>2, <1>3, <1>4, <1>5, <1>6, <1>7, <1>8, <1>9 DEF Next

THEOREM FileInvHolds == Spec => []FileInv
  BY Start, FileInvStep, PTL DEF Spec

\* The types, whatever fails: no seq is given out beyond the appends tried, and the
\* bytes of the log never exceed its cap, also when it is read back (log.rs, open,
\* append).
THEOREM TypeCorrect == Spec => []TypeOK
  <1>1. FileInv => TypeOK
    BY DEF FileInv, Typed
  <1> QED
    BY <1>1, FileInvHolds, PTL

\* What append has returned Ok for is read back, at its seq, with its time and data,
\* after any crash, if no append ever failed (log.rs, sync_data, decode_file_log).
THEOREM AckedAlwaysSurvives == Spec => []AckedSurvives
  <1>1. ASSUME FileInv, handle # "closed", ~failed, NEW event \in acked
        PROVE  event.seq < Len(events) /\ events[event.seq + 1] = event
    <2>1. TypeOK /\ Sound
      BY <1>1 DEF FileInv, Typed
    <2>2. PICK starts : Written(starts)
      BY <1>1, <2>1 DEF Sound, Blank
    <2>3. event.seq < Len(events) /\ event.seq \in Nat /\ Len(events) \in Nat
          /\ DOMAIN events = 1..Len(events)
      BY <1>1, <2>1, FileLogAssumption DEF Sound, TypeOK, Event
    <2>4. event.seq + 1 \in DOMAIN events
      BY <2>3
    <2>5. events[event.seq + 1] = EventAt(file, starts[event.seq + 1])
      BY <1>1, <2>1, <2>2, <2>4, InMemory
    <2> QED
      BY <1>1, <2>2, <2>3, <2>5 DEF Written, Kept
  <1>2. FileInv => AckedSurvives
    BY <1>1 DEF AckedSurvives
  <1> QED
    BY <1>2, FileInvHolds, PTL

\* A file that is read back gives nothing but what was appended, each event whole, if
\* no append ever failed (log.rs, decode_file_log, "truncated frame").
THEOREM OpensAlwaysWhole == Spec => []OpensWhole
  <1>1. ASSUME FileInv, handle # "closed", ~failed, NEW i \in DOMAIN events
        PROVE  Genuine(events[i])
    <2>1. TypeOK /\ Sound
      BY <1>1 DEF FileInv, Typed
    <2>2. PICK starts : Written(starts)
      BY <1>1, <2>1 DEF Sound, Blank
    <2>3. events[i] = EventAt(file, starts[i]) /\ Len(starts) = Len(events) + Len(pending) + 1
      BY <1>1, <2>1, <2>2, InMemory
    <2>4. i \in 1..Len(starts) - 1
      <3>1. Len(events) \in Nat /\ Len(pending) \in Nat /\ DOMAIN events = 1..Len(events)
        BY <2>1 DEF TypeOK
      <3> QED
        BY <2>3, <3>1
    <2> QED
      BY <2>2, <2>3, <2>4 DEF Written, Chain
  <1>2. FileInv => OpensWhole
    BY <1>1 DEF OpensWhole
  <1> QED
    BY <1>2, FileInvHolds, PTL

-----------------------------------------------------------------------------
(* What memory counts *)

\* No events have no bytes; one event more has as many more as its data.
LEMMA BytesOfNone == Bytes(<<>>) = 0
  <1>1. <<>> \in Seq(Event) /\ Len(<<>>) = 0
    OBVIOUS
  <1>2. PICK f : IsSum(<<>>, f) /\ Bytes(<<>>) = f[0]
    BY <1>1, BytesSum
  <1>3. f[0] = 0
    BY <1>1, <1>2 DEF IsSum
  <1> QED
    BY <1>2, <1>3

LEMMA BytesOfOneMore ==
    ASSUME NEW log \in Seq(Event), NEW event \in Event
    PROVE  Bytes(log \o <<event>>) = Bytes(log) + Len(event.data)
  <1>1. PICK N \in Nat : Len(log) = N
    OBVIOUS
  <1>2. PICK more \in Seq(Event) :
            /\ more = log \o <<event>>
            /\ Len(more) = N + 1
            /\ \A k \in 1..N : more[k] = log[k]
            /\ more[N + 1] = event
    <2>1. /\ log \o <<event>> \in Seq(Event) /\ Len(log \o <<event>>) = Len(log) + 1
          /\ \A k \in 1..Len(log) : (log \o <<event>>)[k] = log[k]
          /\ (log \o <<event>>)[Len(log) + 1] = event
      BY OneLonger
    <2> QED
      BY <1>1, <2>1
  <1>3. PICK f : IsSum(log, f) /\ Bytes(log) = f[N]
    BY <1>1, BytesSum
  <1>4. PICK g : IsSum(more, g) /\ Bytes(more) = g[N + 1]
    BY <1>2, BytesSum
  <1>5. f[0] = 0 /\ \A n \in 0..N - 1 : f[n + 1] = f[n] + Len(log[n + 1].data)
    BY <1>1, <1>3 DEF IsSum
  <1>6. g[0] = 0 /\ \A n \in 0..N : g[n + 1] = g[n] + Len(more[n + 1].data)
    BY <1>2, <1>4 DEF IsSum
  <1> DEFINE S == {n \in 0..N : g[n] = f[n]}
  <1>7. 0 \in S
    BY <1>5, <1>6
  <1>8. ASSUME NEW n \in 0..N - 1, n \in S PROVE n + 1 \in S
    <2>1. n \in 0..N /\ n + 1 \in 1..N /\ n + 1 \in 0..N
      OBVIOUS
    <2>2. more[n + 1] = log[n + 1]
      BY <1>2, <2>1
    <2>3. g[n + 1] = f[n + 1]
      BY <1>5, <1>6, <1>8, <2>1, <2>2
    <2> QED
      BY <2>1, <2>3
  <1> HIDE DEF S
  <1>9. \A n \in 0..N : n \in S
    BY <1>7, <1>8, CountUp
  <1>10. g[N] = f[N]
    BY <1>9 DEF S
  <1>11. g[N + 1] = g[N] + Len(event.data)
    BY <1>2, <1>6
  <1> QED
    BY <1>2, <1>3, <1>4, <1>10, <1>11

\* Memory counts the bytes of its events.
Counted == byteTotal = Bytes(events)

LEMMA CountedStep ==
    ASSUME FileInv, Counted, [Next]_vars
    PROVE  Counted'
  <1>1. ASSUME events' = <<>>, byteTotal' = 0 PROVE Counted'
    BY <1>1, BytesOfNone DEF Counted
  <1>2. ASSUME events' = events, byteTotal' = byteTotal PROVE Counted'
    BY <1>2 DEF Counted
  <1>3. CASE vars' = vars
    BY <1>2, <1>3 DEF vars
  <1>4. CASE OpenNew \/ OpenNewFails
    BY <1>2, <1>4 DEF OpenNew, OpenNewFails
  <1>5. CASE OpenExisting
    BY <1>5 DEF OpenExisting, Counted
  <1>6. ASSUME NEW n \in 1..MaxLen, NEW time \in Time,
               AppendWrite(n, time) \/ AppendWriteFails(n, time)
        PROVE  Counted'
    BY <1>2, <1>6 DEF AppendWrite, AppendWriteFails
  <1>7. CASE AppendSync
    <2>1. /\ handle = "syncing" /\ events' = events \o pending
          /\ byteTotal' = byteTotal + Bytes(pending)
      BY <1>7 DEF AppendSync, Acknowledge
    <2>2. events \in Seq(Event) /\ pending \in Seq(Event) /\ Len(pending) = 1
      BY <2>1 DEF FileInv, Typed, TypeOK
    <2>3. PICK event \in Event : pending = <<event>>
      <3>1. pending[1] \in Event /\ pending = <<pending[1]>>
        BY <2>2
      <3> QED
        BY <3>1
    <2>4. Bytes(pending) = Len(event.data)
      BY <2>3, BytesOf
    <2>5. Bytes(events \o pending) = Bytes(events) + Len(event.data)
      BY <2>2, <2>3, BytesOfOneMore
    <2> QED
      BY <2>1, <2>4, <2>5 DEF Counted
  <1>8. CASE AppendSyncFails
    BY <1>2, <1>8 DEF AppendSyncFails
  <1>9. CASE Close
    BY <1>1, <1>9 DEF Close
  <1>10. CASE PowerLoss
    BY <1>1, <1>10 DEF PowerLoss
  <1> QED
    BY <1>3, <1>4, <1>5, <1>6, <1>7, <1>8, <1>9, <1>10 DEF Next

\* What the decoder returns of a file that it accepts.
LEMMA DecodeAccepts ==
    ASSUME NEW cells \in Seq(Cell), cells # <<>>, Head(cells) = Magic
    PROVE  \A log : Decode(cells).ok /\ Decode(cells).events = log
                         => Decode(cells) = [ok |-> TRUE, events |-> log]
  <1> DEFINE read == Frames(cells)
             ok == /\ read.ok
                   /\ \A i \in DOMAIN read.events : read.events[i].seq = i - 1
                   /\ Bytes(read.events) <= ByteCap
  <1>1. Decode(cells) = [read EXCEPT !.ok = ok]
    BY DEF Decode
  <1>2. read \in [ok : BOOLEAN, events : Seq(Event)]
    BY DecodedEvents DEF FromFrames
  <1>3. ok \in BOOLEAN
    BY <1>2
  <1> HIDE DEF read, ok
  <1>4. [read EXCEPT !.ok = ok] \in [ok : BOOLEAN, events : Seq(Event)]
    BY <1>2, <1>3
  <1>5. PICK r \in [ok : BOOLEAN, events : Seq(Event)] : r = Decode(cells)
    BY <1>1, <1>4
  <1>6. ASSUME r.ok PROVE r = [ok |-> TRUE, events |-> r.events]
    BY <1>5, <1>6
  <1> QED
    BY <1>5, <1>6

\* The file would be accepted, and gives what is in memory.
LEMMA MemoryAccepted ==
    ASSUME FileInv, Counted
    PROVE  MemoryIsFile
  <1> SUFFICES ASSUME ~failed, handle = "open"
               PROVE  Decode(file) = [ok |-> TRUE, events |-> events]
    BY DEF Counted, MemoryIsFile, FileHoldsEvents
  <1>1. PICK starts : Written(starts)
    BY DEF FileInv, Sound, Blank
  <1>2. /\ file \in Seq(Cell) /\ Chain(file, starts) /\ Whole(file, starts)
        /\ events \o pending = EventsAt(file, starts)
        /\ file # <<>> /\ Head(file) = Magic
    BY <1>1 DEF FileInv, Typed, TypeOK, Written, Chain
  <1>3. /\ events \in Seq(Event) /\ pending = <<>> /\ byteTotal <= ByteCap
        /\ pending \in Seq(Event) /\ TypeOK
    BY FileLogAssumption DEF FileInv, Typed, TypeOK
  <1>4. Frames(file) \in [ok : BOOLEAN, events : Seq(Event)]
    BY <1>2, DecodedEvents DEF FromFrames
  <1>5. events \o pending = events
    BY <1>3
  <1>6. Frames(file).ok /\ Frames(file).events = events
    BY <1>2, <1>5, ChainIsRead
  <1>7. \A i \in DOMAIN events : events[i].seq = i - 1
    <2>1. ASSUME NEW i \in DOMAIN events PROVE events[i].seq = i - 1
      <3>1. events[i] = EventAt(file, starts[i]) /\ Len(starts) = Len(events) + Len(pending) + 1
        BY <1>1, <1>3, InMemory
      <3>2. i \in 1..Len(starts) - 1
        BY <1>3, <3>1
      <3>3. /\ starts[i] \in DOMAIN file /\ Complete(file, starts[i])
            /\ file[starts[i]].seq = i - 1
        BY <1>2, <3>2 DEF Chain
      <3> QED
        BY <1>2, <3>1, <3>3, CompleteFrame
    <2> QED
      BY <2>1
  <1>8. InOrder(events)
    BY <1>3, <1>7 DEF InOrder, Counted
  <1>9. Decode(file).ok /\ Decode(file).events = events
    BY <1>2, <1>4, <1>6, <1>8, DecodeFields
  <1> QED
    BY <1>2, <1>9, DecodeAccepts

\* The bytes counted are those of the events in memory, and, until an append fails, the
\* file would be accepted and gives these events: the cap that append enforces is the one
\* that open checks (log.rs, append, decode_file_log).
THEOREM MemoryAlwaysFile == Spec => []MemoryIsFile
  <1>1. Init => Counted
    BY BytesOfNone DEF Init, Counted
  <1>2. FileInv /\ Counted /\ [Next]_vars => Counted'
    BY CountedStep
  <1>3. FileInv /\ Counted => MemoryIsFile
    BY MemoryAccepted
  <1> QED
    BY <1>1, <1>2, <1>3, FileInvHolds, PTL DEF Spec

-----------------------------------------------------------------------------
(* The durable log *)

\* The first elements of a sequence.
LEMMA FirstOf ==
    ASSUME NEW S, NEW a \in Seq(S), NEW N \in Nat, Len(a) = N, NEW n \in 0..N
    PROVE  /\ SubSeq(a, 1, n) \in Seq(S) /\ Len(SubSeq(a, 1, n)) = n
           /\ \A k \in 1..n : SubSeq(a, 1, n)[k] = a[k]
  OBVIOUS

\* Nothing is read without the header.
LEMMA NoHeader ==
    ASSUME NEW cells, cells = <<>> \/ Head(cells) # Magic
    PROVE  Decode(cells).events = <<>>
  <1>1. Decode(cells) = [ok |-> FALSE, events |-> <<>>]
    BY DEF Decode
  <1> QED
    BY <1>1

\* What is decoded of a file that was written in order, whether it is accepted or not.
LEMMA ChainDecoded ==
    ASSUME NEW cells \in Seq(Cell), NEW starts, Chain(cells, starts),
           Whole(cells, starts) \/ Ragged(cells, starts)
    PROVE  /\ Decode(cells).events = EventsAt(cells, starts)
           /\ Decode(cells).events \in Seq(Event)
           /\ Len(Decode(cells).events) = Len(starts) - 1
           /\ Len(starts) \in Nat /\ Len(starts) # 0
  <1>1. cells # <<>> /\ Head(cells) = Magic
    BY DEF Chain
  <1>2. Frames(cells) \in [ok : BOOLEAN, events : Seq(Event)]
    BY <1>1, DecodedEvents DEF FromFrames
  <1>3. Decode(cells).events = Frames(cells).events
    BY <1>1, <1>2, DecodeFields
  <1>4. Frames(cells).events = EventsAt(cells, starts)
    BY ChainIsRead
  <1>5. Frames(cells).events \in Seq(Event)
    BY <1>2
  <1>6. PICK N \in Nat : Len(starts) = N /\ N # 0
    BY DEF Chain
  <1>7. Len(EventsAt(cells, starts)) = Len(starts) - 1
    <2>1. PICK n \in Nat : n = Len(starts) - 1
      BY <1>6
    <2>2. EventsAt(cells, starts) = [k \in 1..n |-> EventAt(cells, starts[k])]
      BY <2>1 DEF EventsAt
    <2>3. Len([k \in 1..n |-> EventAt(cells, starts[k])]) = n
      OBVIOUS
    <2> QED
      BY <2>1, <2>2, <2>3
  <1> QED
    BY <1>3, <1>4, <1>5, <1>6, <1>7

\* What memory and the append under way hold is what the file holds.
InFile == ~failed /\ handle # "closed" => Decode(file).events = events \o pending

LEMMA MemoryDecoded == FileInv => InFile
  <1> SUFFICES ASSUME FileInv, ~failed, handle # "closed"
               PROVE  Decode(file).events = events \o pending
    BY DEF InFile
  <1>1. PICK starts : Written(starts)
    BY DEF FileInv, Sound, Blank
  <1>2. /\ file \in Seq(Cell) /\ Chain(file, starts) /\ Whole(file, starts)
        /\ events \o pending = EventsAt(file, starts)
    BY <1>1 DEF FileInv, Typed, TypeOK, Written
  <1> QED
    BY <1>2, ChainDecoded

\* What is decoded of a part of a file that was written in order: the events of the
\* frames that are in the part.
PartOfLog(cells, starts, left, M, n) ==
    /\ Decode(left).events = SubSeq(Decode(cells).events, 1, n)
    /\ Len(Decode(left).events) = n
    /\ \A k \in 1..Len(starts) : starts[k] <= M + 1 => k <= n + 1
    /\ n # 0 => starts[n + 1] <= Len(left) + 1

LEMMA PartDecoded ==
    ASSUME NEW cells \in Seq(Cell), NEW starts, Chain(cells, starts),
           Whole(cells, starts) \/ Ragged(cells, starts),
           NEW left \in Seq(Cell), NEW M \in 0..Len(cells), CutAt(cells, left, M)
    PROVE  \E n \in 0..Len(starts) - 1 : PartOfLog(cells, starts, left, M, n)
  <1>1. PICK N \in Nat : Len(starts) = N + 1
    <2>1. PICK K \in Nat : Len(starts) = K /\ K # 0
      BY DEF Chain
    <2>2. K - 1 \in Nat /\ (K - 1) + 1 = K
      BY <2>1
    <2> QED
      BY <2>1, <2>2
  <1>2. PICK all \in Seq(Event) : all = Decode(cells).events /\ Len(all) = N
    BY <1>1, ChainDecoded
  <1>3. \A k \in 1..N + 1 : starts[k] \in Nat /\ 2 <= starts[k]
    <2>1. ASSUME NEW k \in 1..Len(starts) PROVE starts[k] \in Nat /\ 2 <= starts[k]
      <3>1. k \in k..Len(starts)
        BY <1>1
      <3>2. starts[k] \in 2..Len(cells) + 1
        BY <3>1, StartsGoUp
      <3> QED
        BY <3>2
    <2> QED
      BY <1>1, <2>1
  <1>4. CASE M = 0
    <2>1. left = <<>> \/ Head(left) # Magic
      <3>1. Len(left) = 0 \/ (Len(left) = 1 /\ left[1] = Torn)
        BY <1>4 DEF CutAt
      <3> QED
        BY <3>1, OnlyMagic
    <2>2. Decode(left).events = <<>>
      BY <2>1, NoHeader
    <2>3. SubSeq(all, 1, 0) = <<>> /\ Len(<<>>) = 0 /\ 0 \in 0..Len(starts) - 1
      BY <1>1
    <2>4. PartOfLog(cells, starts, left, M, 0)
      BY <1>1, <1>2, <1>3, <1>4, <2>2, <2>3 DEF PartOfLog
    <2> QED
      BY <2>3, <2>4
  <1>5. CASE M # 0
    <2>1. PICK front : Shortened(cells, starts, left, M, front)
      BY <1>5, ChainShortened
    <2>2. /\ Chain(left, front)
          /\ Whole(left, front) \/ Ragged(left, front)
          /\ Len(front) <= Len(starts)
          /\ \A k \in 1..Len(front) : front[k] = starts[k]
          /\ \A k \in 1..Len(front) - 1 : EventAt(left, starts[k]) = EventAt(cells, starts[k])
          /\ \A k \in 1..Len(starts) : starts[k] <= M + 1 => k <= Len(front)
      BY <2>1 DEF Shortened
    <2>3. /\ Decode(left).events = EventsAt(left, front)
          /\ Decode(left).events \in Seq(Event)
          /\ Len(Decode(left).events) = Len(front) - 1
          /\ Len(front) \in Nat /\ Len(front) # 0
      BY <2>2, ChainDecoded
    <2>4. PICK n \in Nat : Len(front) = n + 1 /\ Len(front) - 1 = n /\ n <= N
      <3>1. PICK K \in Nat : K = Len(front) /\ K # 0 /\ K <= N + 1
        BY <1>1, <2>2, <2>3
      <3>2. K - 1 \in Nat /\ (K - 1) + 1 = K /\ K - 1 <= N
        BY <3>1
      <3> QED
        BY <3>1, <3>2
    <2>5. PICK few \in Seq(Event) : few = Decode(left).events /\ Len(few) = n
      BY <2>3, <2>4
    <2>6. ASSUME NEW k \in 1..n PROVE few[k] = all[k]
      <3>1. k \in 1..N /\ k \in 1..Len(front) - 1 /\ k \in 1..Len(front)
            /\ k \in 1..Len(starts) - 1
        BY <1>1, <2>4
      <3>2. few[k] = EventAt(left, front[k])
        BY <2>3, <2>5, <3>1 DEF EventsAt
      <3>3. all[k] = EventAt(cells, starts[k])
        <4>1. all = EventsAt(cells, starts)
          BY <1>2, ChainDecoded
        <4> QED
          BY <3>1, <4>1 DEF EventsAt
      <3> QED
        BY <2>2, <3>1, <3>2, <3>3
    <2>7. few = SubSeq(all, 1, n)
      <3>1. n \in 0..N
        BY <2>4
      <3>2. PICK part : part = SubSeq(all, 1, n)
        OBVIOUS
      <3>3. /\ part \in Seq(Event) /\ Len(part) = n
            /\ \A k \in 1..n : part[k] = all[k]
        BY <1>2, <3>1, <3>2, FirstOf
      <3>4. \A k \in 1..n : few[k] = part[k]
        BY <2>6, <3>3
      <3> QED
        BY <2>5, <3>2, <3>3, <3>4, SameSeq
    <2>8. starts[n + 1] <= Len(left) + 1
      <3>1. PICK L \in Nat : L = Len(left)
        OBVIOUS
      <3>2. n + 1 \in 1..Len(front)
        BY <2>4
      <3>3. front[n + 1] = L + 1 \/ front[n + 1] \in 1..L
        BY <2>2, <2>4, <3>1 DEF Whole, Ragged, End
      <3> QED
        BY <2>2, <3>1, <3>2, <3>3
    <2>9. n \in 0..Len(starts) - 1
      BY <1>1, <2>4
    <2>10. PartOfLog(cells, starts, left, M, n)
      BY <1>2, <2>2, <2>4, <2>5, <2>7, <2>8 DEF PartOfLog
    <2> QED
      BY <2>9, <2>10
  <1> QED
    BY <1>4, <1>5

\* ... and of a file without a header, nothing.
LEMMA BlankDecoded ==
    ASSUME NEW cells, cells \in {<<>>, <<Torn>>},
           NEW left \in Seq(Cell), NEW M \in 0..Len(cells), CutAt(cells, left, M)
    PROVE  Decode(left).events = <<>>
  <1>1. Len(left) = 0 \/ left[1] = Torn
    <2>1. CASE M = 0
      BY <2>1 DEF CutAt
    <2>2. CASE M # 0
      <3>1. Len(<<>>) = 0 /\ Len(<<Torn>>) = 1 /\ <<Torn>>[1] = Torn
        OBVIOUS
      <3>2. M = 1 /\ cells[1] = Torn
        <4>1. CASE cells = <<>>
          <5>1. M \in 0..0
            BY <3>1, <4>1
          <5> QED
            BY <2>2, <5>1
        <4>2. CASE cells = <<Torn>>
          <5>1. M \in 0..1 /\ cells[1] = Torn
            BY <3>1, <4>2
          <5> QED
            BY <2>2, <5>1
        <4> QED
          BY <4>1, <4>2
      <3> QED
        BY <3>2 DEF CutAt
    <2> QED
      BY <2>1, <2>2
  <1>2. left = <<>> \/ Head(left) # Magic
    BY <1>1, OnlyMagic
  <1> QED
    BY <1>2, NoHeader

\* The log, and how much of it is safe, as ImplementsDurableLog has them.
Log == Decode(file).events
Safe == Len(Decode(SubSeq(file, 1, durable)).events)

\* The durable part is one of the file.
LEMMA DurablePart ==
    ASSUME TypeOK
    PROVE  /\ SubSeq(file, 1, durable) \in Seq(Cell) /\ Len(SubSeq(file, 1, durable)) = durable
           /\ CutAt(file, SubSeq(file, 1, durable), durable)
  <1>1. PICK L \in Nat : L = Len(file) /\ file \in Seq(Cell) /\ durable \in 0..L
    BY DEF TypeOK
  <1>2. /\ SubSeq(file, 1, durable) \in Seq(Cell) /\ Len(SubSeq(file, 1, durable)) = durable
        /\ \A k \in 1..durable : SubSeq(file, 1, durable)[k] = file[k]
    BY <1>1, FirstOf
  <1> QED
    BY <1>2 DEF CutAt

\* A stop of the machine takes events from the end, and none that is safe.
LEMMA LosesTheEnd ==
    ASSUME FileInv, ~failed, PowerLoss
    PROVE  \E n \in Safe..Len(Log) : Log' = SubSeq(Log, 1, n) /\ Safe' = n
  <1>1. TypeOK
    BY DEF FileInv, Typed
  <1>2. PICK L \in Nat : L = Len(file) /\ file \in Seq(Cell) /\ durable \in 0..L
    BY <1>1 DEF TypeOK
  <1>3. file' \in Seq(Cell) /\ durable' = Len(file')
    BY <1>1, WhatSurvives
  <1>4. PICK M \in durable..Len(file) : CutAt(file, file', M)
    BY <1>1, WhatSurvives
  <1>5. Safe' = Len(Log')
    <2>1. SubSeq(file', 1, Len(file')) = file'
      BY <1>3
    <2> QED
      BY <1>3, <2>1 DEF Safe, Log
  <1>6. M \in 0..Len(file) /\ durable \in 0..Len(file) /\ durable <= M
    BY <1>2
  <1> DEFINE safe == SubSeq(file, 1, durable)
  <1>7. safe \in Seq(Cell) /\ Len(safe) = durable /\ CutAt(file, safe, durable)
    BY <1>1, DurablePart
  <1>8. Safe = Len(Decode(safe).events)
    BY DEF Safe
  <1> HIDE DEF safe
  <1>9. CASE Blank
    <2>1. file \in {<<>>, <<Torn>>}
      BY <1>9 DEF Blank
    <2>2. Decode(safe).events = <<>>
      BY <1>6, <1>7, <2>1, BlankDecoded
    <2>3. Log' = <<>>
      <3>1. Decode(file').events = <<>>
        BY <1>3, <1>4, <1>6, <2>1, BlankDecoded
      <3> QED
        BY <3>1 DEF Log
    <2>4. Log = <<>>
      <3>1. file = <<>> \/ Head(file) # Magic
        BY <2>1, OnlyMagic
      <3> QED
        BY <3>1, NoHeader DEF Log
    <2>5. Len(<<>>) = 0 /\ SubSeq(Log, 1, 0) = <<>> /\ 0 \in 0..0
      BY <2>4
    <2> QED
      BY <1>5, <1>8, <2>2, <2>3, <2>4, <2>5
  <1>10. ASSUME NEW starts, Written(starts)
         PROVE  \E n \in Safe..Len(Log) : Log' = SubSeq(Log, 1, n) /\ Safe' = n
    <2>1. Chain(file, starts) /\ (Whole(file, starts) \/ Ragged(file, starts))
      BY <1>10 DEF Written
    <2>2. PICK N \in Nat : Len(Log) = N /\ Len(starts) = N + 1
      <3>1. Len(Log) = Len(starts) - 1 /\ Len(starts) \in Nat /\ Log \in Seq(Event)
        BY <1>2, <2>1, ChainDecoded DEF Log
      <3>2. PICK K \in Nat, m \in Nat : K = Len(starts) /\ m = Len(Log) /\ m = K - 1
        BY <3>1
      <3>3. K = m + 1
        BY <3>2
      <3> QED
        BY <3>2, <3>3
    <2>3. PICK s \in 0..Len(starts) - 1 : PartOfLog(file, starts, safe, durable, s)
      BY <1>2, <1>6, <1>7, <2>1, PartDecoded
    <2>4. PICK n \in 0..Len(starts) - 1 : PartOfLog(file, starts, file', M, n)
      BY <1>2, <1>3, <1>4, <1>6, <2>1, PartDecoded
    <2>5. s \in 0..N /\ n \in 0..N
      BY <2>2
    <2>6. s <= n
      <3>1. CASE s = 0
        BY <2>5, <3>1
      <3>2. CASE s # 0
        <4>1. starts[s + 1] <= durable + 1 /\ s + 1 \in 1..Len(starts)
          BY <1>7, <2>2, <2>3, <2>5, <3>2 DEF PartOfLog
        <4>2. starts[s + 1] \in Nat
          BY <2>1, <4>1 DEF Chain
        <4>3. starts[s + 1] <= M + 1
          BY <1>2, <1>6, <4>1, <4>2
        <4>4. s + 1 <= n + 1
          BY <2>4, <4>1, <4>3 DEF PartOfLog
        <4> QED
          BY <2>5, <4>4
      <3> QED
        BY <3>1, <3>2
    <2>7. Safe = s
      BY <1>8, <2>3 DEF PartOfLog
    <2>8. Log' = SubSeq(Log, 1, n) /\ Len(Log') = n
      BY <2>4 DEF PartOfLog, Log
    <2>9. n \in Safe..Len(Log)
      BY <2>2, <2>5, <2>6, <2>7
    <2> QED
      BY <1>5, <2>8, <2>9
  <1> QED
    BY <1>9, <1>10 DEF FileInv, Sound

\* The file keeps what it has when something is written behind it.
LEMMA SafeStays ==
    ASSUME TypeOK, NEW more \in Seq(Cell), file' = file \o more, durable' = durable
    PROVE  Safe' = Safe
  <1>1. PICK a \in Seq(Cell), N \in Nat, M \in Nat, d \in Nat :
           a = file /\ N = Len(a) /\ M = Len(more) /\ d = durable /\ d \in 0..N
    BY DEF TypeOK
  <1>2. PICK b : b = a \o more
    OBVIOUS
  <1>3. b \in Seq(Cell) /\ Len(b) = N + M /\ \A k \in 1..N : b[k] = a[k]
    BY <1>1, <1>2, Joined
  <1>4. d \in 0..N + M
    BY <1>1
  <1>5. PICK x, y : x = SubSeq(a, 1, d) /\ y = SubSeq(b, 1, d)
    OBVIOUS
  <1>6. x \in Seq(Cell) /\ Len(x) = d /\ \A k \in 1..d : x[k] = a[k]
    BY <1>1, <1>5, FirstOf
  <1>7. y \in Seq(Cell) /\ Len(y) = d /\ \A k \in 1..d : y[k] = b[k]
    BY <1>3, <1>4, <1>5, FirstOf
  <1>8. \A k \in 1..d : x[k] = y[k]
    <2>1. \A k \in 1..d : k \in 1..N
      BY <1>1
    <2>2. \A k \in 1..d : b[k] = a[k]
      BY <1>3, <2>1
    <2> QED
      BY <1>6, <1>7, <2>2
  <1>9. x = y /\ d \in Nat
    BY <1>1, <1>6, <1>7, <1>8, SameSeq
  <1>10. SubSeq(file', 1, durable') = SubSeq(file, 1, durable)
    BY <1>1, <1>2, <1>5, <1>9
  <1> QED
    BY <1>10 DEF Safe

\* A step of the file log is one of the durable log.
LEMMA DurableStep ==
    ASSUME FileInv, [Next]_vars
    PROVE  [Durable!Next]_Durable!vars
  <1> USE DEF Log, Safe
  <1>1. CASE UNCHANGED vars
    BY <1>1 DEF vars, Durable!vars
  <1>2. CASE failed'
    BY <1>2 DEF Durable!Next
  <1>3. CASE ~failed' /\ Next
    <2>1. ~failed /\ failed' = failed /\ TypeOK
      <3>1. failed \in BOOLEAN /\ TypeOK
        BY DEF FileInv, Typed, TypeOK
      <3>2. failed' = failed
        BY <1>3 DEF Next, OpenNew, OpenNewFails, OpenExisting, AppendWrite, AppendWriteFails,
                    AppendSync, Acknowledge, AppendSyncFails, Close, PowerLoss
      <3> QED
        BY <1>3, <3>1, <3>2
    <2>2. FileInv'
      BY <1>3, FileInvStep
    <2>3. CASE OpenNew
      <3>1. /\ handle = "closed" /\ handle' = "open" /\ file = <<>> /\ file' = <<Magic>>
            /\ durable' = 1 /\ events' = events /\ events = <<>>
        BY <2>3 DEF OpenNew, FileInv, Typed
      <3>2. Log = <<>> /\ Safe = 0
        <4>1. SubSeq(file, 1, durable) = <<>>
          <5>1. Len(file) = 0 /\ durable \in 0..Len(file)
            BY <2>1, <3>1 DEF TypeOK
          <5>2. SubSeq(<<>>, 1, 0) = <<>> /\ durable = 0
            BY <5>1
          <5> QED
            BY <3>1, <5>2
        <4>2. Decode(<<>>).events = <<>> /\ Len(<<>>) = 0
          BY NoHeader
        <4> QED
          BY <3>1, <4>1, <4>2
      <3>3. Log' = <<>> /\ Safe' = 0
        <4>1. SubSeq(file', 1, durable') = file'
          <5>1. PICK cells \in Seq(Cell) : cells = <<Magic>>
            BY OnlyMagic
          <5>2. SubSeq(cells, 1, Len(cells)) = cells
            OBVIOUS
          <5>3. Len(<<Magic>>) = 1
            OBVIOUS
          <5> QED
            BY <3>1, <5>1, <5>2, <5>3
        <4>2. Decode(<<Magic>>).events = <<>> /\ Len(<<>>) = 0
          BY OnlyMagic, ChainDecoded
        <4> QED
          BY <3>1, <4>1, <4>2
      <3>4. Durable!Open
        BY <3>1, <3>2, <3>3 DEF Durable!Open
      <3> QED
        BY <2>1, <3>4 DEF Durable!Next
    <2>4. CASE OpenNewFails
      <3>1. /\ handle' = handle /\ file = <<>> /\ file' \in {<<Torn>>, <<Magic>>}
            /\ durable' = durable /\ events' = events
        BY <2>4 DEF OpenNewFails
      <3>2. durable = 0
        <4>1. Len(file) = 0 /\ durable \in 0..Len(file)
          BY <2>1, <3>1 DEF TypeOK
        <4> QED
          BY <4>1
      <3>3. SubSeq(file, 1, 0) = <<>> /\ SubSeq(file', 1, 0) = <<>>
        BY <3>1
      <3>4. Log = <<>> /\ Safe = Len(Decode(<<>>).events)
        BY <3>1, <3>2, <3>3, NoHeader
      <3>5. Safe' = Len(Decode(<<>>).events)
        BY <3>1, <3>2, <3>3
      <3>6. Log' = <<>>
        <4>1. Decode(<<Magic>>).events = <<>>
          BY OnlyMagic, ChainDecoded
        <4>2. Decode(<<Torn>>).events = <<>>
          <5>1. Head(<<Torn>>) # Magic
            BY OnlyMagic
          <5> QED
            BY <5>1, NoHeader
        <4> QED
          BY <3>1, <4>1, <4>2
      <3> QED
        BY <2>1, <3>1, <3>4, <3>5, <3>6 DEF Durable!vars
    <2>5. CASE OpenExisting
      <3>1. /\ handle = "closed" /\ handle' = "open" /\ file' = file /\ durable' = durable
            /\ events' = Log
        BY <2>5 DEF OpenExisting
      <3>2. Durable!Open
        BY <3>1 DEF Durable!Open
      <3> QED
        BY <2>1, <3>2 DEF Durable!Next
    <2>6. ASSUME NEW n \in 1..MaxLen, NEW time \in Time, AppendWrite(n, time)
          PROVE  Durable!Next
      <3> DEFINE event == NewEvent(n, time)
      <3>1. /\ handle' = "syncing" /\ pending' = <<event>> /\ file' = file \o Frame(event)
            /\ durable' = durable /\ events' = events /\ MayAppend(n) /\ Encodes(time)
        BY <2>6 DEF AppendWrite
      <3>2. /\ handle = "open" /\ pending = <<>> /\ event.seq = Len(events)
            /\ Frame(event) \in Seq(Cell) /\ attempts + 1 \in 1..MaxAttempts
            /\ Len(events) \in 0..attempts /\ events \in Seq(Event)
        BY <2>1, <3>1, TriedEvent DEF TypeOK
      <3>3. event \in Submitted
        <4>1. event = [seq |-> Len(events), time |-> time, data |-> DataOf(attempts + 1, n)]
          BY DEF NewEvent
        <4>2. PICK d : d = DataOf(attempts + 1, n)
          OBVIOUS
        <4>3. d \in {DataOf(id, len) : id \in 1..MaxAttempts, len \in 1..MaxLen}
          BY <3>2, <4>2
        <4>4. Len(events) \in 0..MaxAttempts
          BY <2>1, <3>2, FileLogAssumption DEF TypeOK
        <4>5. event.time = time
          BY <4>1
        <4> QED
          BY <3>1, <4>1, <4>2, <4>3, <4>4, <4>5 DEF Submitted
      <3> HIDE DEF event
      <3>4. Log = events
        <4>1. Log = events \o pending
          BY <2>1, <3>2, MemoryDecoded DEF InFile
        <4> QED
          BY <3>2, <4>1
      <3>5. Log' = Append(Log, event)
        <4>1. Decode(file').events = events' \o pending'
          <5>1. InFile'
            BY <2>2, MemoryDecoded, PTL
          <5> QED
            BY <1>3, <3>1, <5>1 DEF InFile
        <4>2. events \o <<event>> = Append(events, event)
          BY <3>2
        <4> QED
          BY <3>1, <3>4, <4>1, <4>2
      <3>6. Safe' = Safe
        BY <2>1, <3>1, <3>2, SafeStays
      <3>7. Durable!Write(event)
        BY <3>1, <3>2, <3>4, <3>5, <3>6 DEF Durable!Write
      <3> QED
        BY <2>1, <3>3, <3>7 DEF Durable!Next
    <2>7. CASE AppendSync
      <3>1. /\ handle = "syncing" /\ handle' = "open" /\ events' = events \o pending
            /\ file' = file /\ durable' = Len(file)
        BY <2>7 DEF AppendSync, Acknowledge
      <3>2. /\ file \in Seq(Cell) /\ events \in Seq(Event) /\ pending \in Seq(Event)
            /\ Len(pending) = 1
        BY <2>1, <3>1 DEF TypeOK
      <3>3. Log = events \o pending
        BY <2>1, <3>1, MemoryDecoded DEF InFile
      <3>4. Len(events) < Len(Log)
        <4>1. Len(events \o pending) = Len(events) + Len(pending)
          BY <3>2, JoinedEvents
        <4>2. Len(events) \in Nat
          BY <3>2
        <4> QED
          BY <3>2, <3>3, <4>1, <4>2
      <3>5. Safe' = Len(Log)
        <4>1. SubSeq(file, 1, Len(file)) = file
          BY <3>2
        <4> QED
          BY <3>1, <4>1
      <3>6. Durable!Accept
        BY <3>1, <3>3, <3>4, <3>5 DEF Durable!Accept
      <3> QED
        BY <2>1, <3>6 DEF Durable!Next
    <2>8. CASE Close
      <3>1. Durable!Close
        BY <2>8 DEF Close, Durable!Close
      <3> QED
        BY <2>1, <3>1 DEF Durable!Next
    <2>9. CASE PowerLoss
      <3>1. handle' = "closed" /\ events' = <<>>
        BY <2>9 DEF PowerLoss
      <3>2. \E n \in Safe..Len(Log) : Log' = SubSeq(Log, 1, n) /\ Safe' = n
        BY <2>1, <2>9, LosesTheEnd
      <3>3. Durable!Lose
        BY <3>1, <3>2 DEF Durable!Lose
      <3> QED
        BY <2>1, <3>3 DEF Durable!Next
    <2>10. ASSUME \/ AppendSyncFails
                  \/ \E n \in 1..MaxLen, time \in Time : AppendWriteFails(n, time)
           PROVE  FALSE
      BY <1>3, <2>10 DEF AppendSyncFails, AppendWriteFails
    <2> QED
      BY <1>3, <2>3, <2>4, <2>5, <2>6, <2>7, <2>8, <2>9, <2>10 DEF Next
  <1> QED
    BY <1>1, <1>2, <1>3

\* Until an append fails, the file is a durable log, whatever crashes in between: an
\* accepted append cannot be lost, an open sees exactly what is there, and a stop of the
\* machine takes events from the end only (log.rs, append, open, decode_file_log).
THEOREM FileLogImplementsDurableLog == Spec => ImplementsDurableLog
  <1>1. Init => Durable!Init
    <2>1. SubSeq(<<>>, 1, 0) = <<>> /\ Len(<<>>) = 0
      OBVIOUS
    <2>2. Decode(<<>>).events = <<>>
      BY NoHeader
    <2> QED
      BY <2>1, <2>2 DEF Init, Durable!Init
  <1>2. FileInv /\ [Next]_vars => [Durable!Next]_Durable!vars
    BY DurableStep
  <1> QED
    BY <1>1, <1>2, FileInvHolds, PTL DEF Spec, ImplementsDurableLog, Durable!Spec

=============================================================================
