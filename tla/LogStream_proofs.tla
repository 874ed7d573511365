-------------------------- MODULE LogStream_proofs --------------------------
(***************************************************************************)
(* Theorems about LogStream, for every set of clients, byte cap, chunk     *)
(* size and set of offsets.                                                *)
(***************************************************************************)
EXTENDS LogStream, SequenceTheorems, TLAPS

-----------------------------------------------------------------------------
(* Sequences *)

\* A suffix is a sequence of the same elements, as long as what remains.
LEMMA SuffixProperties ==
    ASSUME NEW S, NEW q \in Seq(S), NEW k \in Nat
    PROVE  LET suffix == SubSeq(q, k + 1, Len(q)) IN
           /\ suffix \in Seq(S)
           /\ suffix = <<>> <=> Len(q) <= k
           /\ k <= Len(q) => Len(suffix) = Len(q) - k
           /\ \A i \in 1..Len(suffix) : suffix[i] = q[k + i]
  <1> DEFINE suffix == SubSeq(q, k + 1, Len(q))
  <1>1. suffix \in Seq(S)
    OBVIOUS
  <1>2. Len(suffix) = IF k + 1 <= Len(q) THEN Len(q) - k ELSE 0
    OBVIOUS
  <1>3. \A i \in 1..Len(suffix) : suffix[i] = q[k + i]
    BY <1>2
  <1>4. suffix = <<>> <=> Len(suffix) = 0
    BY <1>1, EmptySeq
  <1> QED
    BY <1>1, <1>2, <1>3, <1>4

-----------------------------------------------------------------------------
(* Types *)

\* Every event holds at least a byte, so the log is no longer than its bytes;
\* this bounds the seq of the next event.
LenBound == Len(log) <= byteTotal

TypeInv == TypeOK /\ LenBound

\* A sequence that is not empty has a last element.
LEMMA LastOne ==
    ASSUME NEW seq \in Seq(Event), seq # <<>>
    PROVE  Len(seq) \in 1..Len(seq)
  OBVIOUS

LEMMA TypeInvInit == Init => TypeInv
  <1> SUFFICES ASSUME Init
               PROVE  TypeInv
    OBVIOUS
  <1> USE LogStreamAssumption DEF Init
  <1>1. log \in Seq(Event) /\ byteTotal \in 0..ByteCap /\ LenBound
    BY DEF LenBound
  <1>2. writer \in Writer /\ phase \in [Client -> Phase]
    BY DEF Writer, Phase
  <1>3. /\ pending \in [Client -> Seq(Event)]
        /\ sent \in [Client -> Seq(Event)]
    OBVIOUS
  <1>4. /\ start \in [Client -> Nat]
        /\ cursor \in [Client -> Nat]
        /\ received \in [Client -> Nat]
        /\ attaches \in [Client -> 0..MaxAttach]
    OBVIOUS
  <1>5. origin \in [Client -> Nat]
    OBVIOUS
  <1>6. /\ lastId \in [Client -> (0..ByteCap) \cup {NoId}]
        /\ resumed \in [Client -> (0..ByteCap) \cup {NoId}]
        /\ have \in [Client -> SUBSET Event]
        /\ woken \in [Client -> BOOLEAN]
    OBVIOUS
  <1> QED
    BY <1>1, <1>2, <1>3, <1>4, <1>5, <1>6 DEF TypeInv, TypeOK

LEMMA TypeInvStep == TypeInv /\ [Next]_vars => TypeInv'
  <1> SUFFICES ASSUME TypeInv, [Next]_vars
               PROVE  TypeInv'
    OBVIOUS
  <1> USE LogStreamAssumption DEF TypeInv, LenBound, TypeOK, Writer, Phase
  <1>1. ASSUME NEW n \in 1..MaxChunk, NEW stream \in Stream, Push(stream, n)
        PROVE  TypeInv'
    <2>1. byteTotal' \in 0..ByteCap
      BY <1>1 DEF Push, Fits
    <2>2. [seq |-> NextSeq, stream |-> stream, bytes |-> n] \in Event
      BY <1>1 DEF Push, Fits, NextSeq, Event
    <2>3. log' \in Seq(Event) /\ Len(log') = Len(log) + 1
      BY <1>1, <2>2 DEF Push
    <2>4. woken' \in [Client -> BOOLEAN]
      BY <1>1 DEF Push, NotifyWaiters, Registered
    <2>5. LenBound'
      <3>1. byteTotal' = byteTotal + n /\ n >= 1
        BY <1>1 DEF Push
      <3>2. Len(log) \in Nat /\ byteTotal \in Nat /\ n \in Nat /\ Len(log) <= byteTotal
        OBVIOUS
      <3>3. Len(log) + 1 <= byteTotal + n
        BY <3>1, <3>2
      <3> QED
        BY <2>3, <3>1, <3>3 DEF LenBound
    <2>6. UNCHANGED <<writer, requestVars, clientVars, phase, cursor, pending, sent>>
      BY <1>1 DEF Push
    <2>7. TypeOK'
      BY <2>1, <2>3, <2>4, <2>6 DEF requestVars, clientVars
    <2> QED
      BY <2>5, <2>7
  <1>2. ASSUME NEW n \in 1..MaxChunk, PushOverflow(n)
        PROVE  TypeInv'
    BY <1>2 DEF PushOverflow, streamVars, requestVars, clientVars
  <1>3. CASE MarkTerminal
    BY <1>3 DEF MarkTerminal, streamVars, requestVars, clientVars
  <1>4. CASE NotifyTerminal
    BY <1>4 DEF NotifyTerminal, NotifyWaiters, Registered, requestVars, clientVars
  <1>5. ASSUME NEW c \in Client, Attach(c)
        PROVE  TypeInv'
    <2>1. ResumeOffset(lastId[c], origin[c]) \in Nat
      BY DEF ResumeOffset
    <2>2. attaches' \in [Client -> 0..MaxAttach]
      BY <1>5 DEF Attach
    <2>3. cursor' \in [Client -> Nat] /\ start' \in [Client -> Nat]
      BY <1>5, <2>1 DEF Attach
    <2>4. /\ pending' \in [Client -> Seq(Event)]
          /\ sent' \in [Client -> Seq(Event)]
          /\ received' \in [Client -> Nat]
      BY <1>5 DEF Attach
    <2>5. /\ phase' \in [Client -> Phase]
          /\ woken' \in [Client -> BOOLEAN]
          /\ resumed' \in [Client -> (0..ByteCap) \cup {NoId}]
      BY <1>5 DEF Attach
    <2> QED
      BY <1>5, <2>2, <2>3, <2>4, <2>5 DEF Attach, writerVars
  <1>6. ASSUME NEW c \in Client, Yield(c)
        PROVE  TypeInv'
    <2>1. Head(pending[c]) \in Event /\ Tail(pending[c]) \in Seq(Event)
      BY <1>6 DEF Yield
    <2>2. pending' \in [Client -> Seq(Event)] /\ sent' \in [Client -> Seq(Event)]
      BY <1>6, <2>1 DEF Yield
    <2> QED
      BY <1>6, <2>2 DEF Yield, writerVars, requestVars, clientVars
  <1>7. ASSUME NEW c \in Client, Arm(c)
        PROVE  TypeInv'
    BY <1>7 DEF Arm, writerVars, requestVars, clientVars
  <1>8. ASSUME NEW c \in Client, Read(c)
        PROVE  TypeInv'
    <2> DEFINE fresh == ReplayFrom(cursor[c])
    <2>1. fresh \in Seq(Event)
      BY SuffixProperties DEF ReplayFrom
    <2>2. ASSUME fresh # <<>>
          PROVE  fresh[Len(fresh)].seq + 1 \in Nat
      <3>1. Len(fresh) \in 1..Len(fresh)
        BY <2>1, <2>2, LastOne
      <3>2. PICK event \in Event : event = fresh[Len(fresh)]
        BY <2>1, <3>1
      <3>3. event.seq \in Nat
        BY DEF Event
      <3>4. event.seq + 1 \in Nat
        BY <3>3
      <3> QED
        BY <3>2, <3>4
    <2>3. CursorAfter(cursor[c], fresh) \in Nat
      BY <2>2 DEF CursorAfter
    <2>4. /\ pending' = [pending EXCEPT ![c] = fresh]
          /\ cursor' = [cursor EXCEPT ![c] = CursorAfter(cursor[c], fresh)]
          /\ \E p \in Phase : phase' = [phase EXCEPT ![c] = p]
          /\ UNCHANGED <<writerVars, woken, sent, requestVars, clientVars>>
      BY <1>8 DEF Read
    <2> HIDE DEF fresh
    <2>5. pending' \in [Client -> Seq(Event)] /\ cursor' \in [Client -> Nat]
      BY <2>1, <2>3, <2>4
    <2>6. phase' \in [Client -> Phase]
      BY <2>4
    <2> QED
      BY <2>4, <2>5, <2>6 DEF writerVars, requestVars, clientVars
  <1>9. ASSUME NEW c \in Client, Wake(c)
        PROVE  TypeInv'
    BY <1>9 DEF Wake, writerVars, requestVars, clientVars
  <1>10. ASSUME NEW c \in Client, Receive(c)
         PROVE  TypeInv'
    <2>1. sent[c][received[c] + 1] \in Event
      BY <1>10 DEF Receive
    <2>2. sent[c][received[c] + 1].seq \in 0..ByteCap
      BY <2>1 DEF Event
    <2>3. received' \in [Client -> Nat]
      BY <1>10 DEF Receive
    <2>4. lastId' \in [Client -> (0..ByteCap) \cup {NoId}]
      BY <1>10, <2>2 DEF Receive
    <2>5. have' \in [Client -> SUBSET Event]
      BY <1>10, <2>1 DEF Receive
    <2> QED
      BY <1>10, <2>3, <2>4, <2>5 DEF Receive, writerVars, streamVars, requestVars
  <1>11. ASSUME NEW c \in Client, Detach(c)
         PROVE  TypeInv'
    BY <1>11 DEF Detach, writerVars, requestVars, clientVars
  <1>12. CASE UNCHANGED vars
    BY <1>12 DEF vars, writerVars, streamVars, requestVars, clientVars
  <1> QED
    BY <1>1, <1>2, <1>3, <1>4, <1>5, <1>6, <1>7, <1>8, <1>9, <1>10, <1>11, <1>12
       DEF Next, Write, Serve

\* Type correctness, with the bounds it contains: the replay log never exceeds
\* its byte cap, and seqs and SSE ids stay within it (log.rs, append).
THEOREM TypeCorrect == Spec => []TypeOK
  <1>1. TypeInv => TypeOK
    BY DEF TypeInv
  <1> QED
    BY TypeInvInit, TypeInvStep, <1>1, PTL DEF Spec

-----------------------------------------------------------------------------
(* Wake-ups *)

LEMMA WakeupStep == TypeInv /\ NoLostWakeup /\ [Next]_vars => NoLostWakeup'
  <1> SUFFICES ASSUME TypeInv, NoLostWakeup, [Next]_vars,
                      NEW d \in Client, phase'[d] = "parked", ~woken'[d]
               PROVE  Len(log') <= cursor'[d] /\ writer' # "notified"
    BY DEF NoLostWakeup
  <1> USE DEF TypeInv, TypeOK, NoLostWakeup
  <1>1. ASSUME NEW n \in 1..MaxChunk, NEW stream \in Stream, Push(stream, n)
        PROVE  FALSE
    BY <1>1 DEF Push, NotifyWaiters, Registered
  <1>2. ASSUME NEW n \in 1..MaxChunk, PushOverflow(n)
        PROVE  Len(log') <= cursor'[d] /\ writer' # "notified"
    BY <1>2 DEF PushOverflow, streamVars
  <1>3. CASE MarkTerminal
    BY <1>3 DEF MarkTerminal, streamVars
  <1>4. ASSUME NotifyTerminal
        PROVE  FALSE
    BY <1>4 DEF NotifyTerminal, NotifyWaiters, Registered
  <1>5. ASSUME NEW c \in Client, Attach(c)
        PROVE  Len(log') <= cursor'[d] /\ writer' # "notified"
    BY <1>5 DEF Attach, writerVars
  <1>6. ASSUME NEW c \in Client, Yield(c) \/ Arm(c) \/ Wake(c) \/ Receive(c) \/ Detach(c)
        PROVE  Len(log') <= cursor'[d] /\ writer' # "notified"
    BY <1>6 DEF Yield, Arm, Wake, Receive, Detach, writerVars, streamVars
  <1>7. ASSUME NEW c \in Client, Read(c)
        PROVE  Len(log') <= cursor'[d] /\ writer' # "notified"
    <2>1. CASE c = d
      <3>1. ReplayFrom(cursor[d]) = <<>> /\ ~Terminal
        BY <1>7, <2>1 DEF Read, CursorAfter
      <3>2. Len(log) <= cursor[d]
        BY <3>1, SuffixProperties DEF ReplayFrom
      <3>3. cursor'[d] = cursor[d] /\ log' = log /\ writer' = writer
        BY <1>7, <2>1, <3>1 DEF Read, CursorAfter, writerVars
      <3> QED
        BY <3>1, <3>2, <3>3 DEF Terminal
    <2>2. CASE c # d
      BY <1>7, <2>2 DEF Read, CursorAfter, writerVars
    <2> QED
      BY <2>1, <2>2
  <1>8. CASE UNCHANGED vars
    BY <1>8 DEF vars, writerVars, streamVars
  <1> QED
    BY <1>1, <1>2, <1>3, <1>4, <1>5, <1>6, <1>7, <1>8 DEF Next, Write, Serve

\* No wake-up is lost, for any number of subscribers: whoever sleeps unwoken has
\* seen the whole log, and the announcement of the end is still to come.
THEOREM WakeupsAreNotLost == Spec => []NoLostWakeup
  <1>1. Init => NoLostWakeup
    BY DEF Init, NoLostWakeup
  <1> QED
    BY TypeInvInit, TypeInvStep, <1>1, WakeupStep, PTL DEF Spec

-----------------------------------------------------------------------------
(* Delivery *)

\* The connection of c holds, in order, the events of the log from its start on:
\* first those it has yielded, then those it has buffered, and the cursor stands
\* behind them.  A start past the end of the log holds nothing.
InStep(c) ==
    LET seen == start[c] + Len(sent[c]) IN
    /\ cursor[c] = seen + Len(pending[c])
    /\ sent[c] # <<>> => seen <= Len(log)
    /\ pending[c] # <<>> => cursor[c] <= Len(log)
    /\ \A i \in 1..Len(sent[c]) : sent[c][i] = log[start[c] + i]
    /\ \A i \in 1..Len(pending[c]) : pending[c][i] = log[seen + i]
    /\ phase[c] \in {"armed", "parked", "ended"} => pending[c] = <<>>
    /\ phase[c] = "ended" => Terminal /\ Len(log) <= seen

\* seq == offset for every event, as the contract of JobReplayLog::append has it.
SeqIsOffset == \A i \in 1..Len(log) : log[i].seq = i - 1

DeliveryInv == SeqIsOffset /\ \A c \in Client : InStep(c)

LEMMA SeqIsOffsetStep == TypeInv /\ SeqIsOffset /\ [Next]_vars => SeqIsOffset'
  <1> SUFFICES ASSUME TypeInv, SeqIsOffset, [Next]_vars
               PROVE  SeqIsOffset'
    OBVIOUS
  <1>1. ASSUME NEW n \in 1..MaxChunk, NEW stream \in Stream, Push(stream, n)
        PROVE  SeqIsOffset'
    <2> DEFINE event == [seq |-> NextSeq, stream |-> stream, bytes |-> n]
    <2>1. log \in Seq(Event) /\ log' = Append(log, event) /\ event.seq = Len(log)
      BY <1>1 DEF Push, NextSeq, TypeInv, TypeOK
    <2> HIDE DEF event
    <2>2. Len(log') = Len(log) + 1 /\ log'[Len(log) + 1] = event
      BY <2>1
    <2>3. \A i \in 1..Len(log) : log'[i] = log[i]
      BY <2>1
    <2> QED
      BY <2>1, <2>2, <2>3 DEF SeqIsOffset
  <1>2. CASE log' = log
    BY <1>2 DEF SeqIsOffset
  <1> QED
    BY <1>1, <1>2
       DEF Next, Write, Serve, PushOverflow, MarkTerminal, NotifyTerminal, Attach, Yield, Arm,
           Read, Wake, Receive, Detach, vars, writerVars

\* An append leaves what every connection holds in place.
LEMMA InStepPush ==
    ASSUME TypeInv, NEW c \in Client, InStep(c),
           NEW n \in 1..MaxChunk, NEW stream \in Stream, Push(stream, n)
    PROVE  InStep(c)'
  <1> DEFINE event == [seq |-> NextSeq, stream |-> stream, bytes |-> n]
  <1>1. /\ log \in Seq(Event)
        /\ log' = Append(log, event)
        /\ start[c] \in Nat /\ cursor[c] \in Nat
        /\ sent[c] \in Seq(Event) /\ pending[c] \in Seq(Event)
        /\ UNCHANGED <<phase, cursor, pending, sent, start>>
        /\ ~Terminal
    BY DEF Push, TypeInv, TypeOK, requestVars, Terminal
  <1> HIDE DEF event
  <1>2. Len(log') = Len(log) + 1 /\ \A i \in 1..Len(log) : log'[i] = log[i]
    BY <1>1
  <1>3. \A i \in 1..Len(sent[c]) : start[c] + i \in 1..Len(log)
    <2> SUFFICES ASSUME NEW i \in 1..Len(sent[c])
                 PROVE  start[c] + i \in 1..Len(log)
      OBVIOUS
    <2>1. PICK a \in Nat, m \in Nat, L \in Nat :
             a = start[c] /\ m = Len(sent[c]) /\ L = Len(log)
      BY <1>1
    <2>2. i \in 1..m /\ sent[c] # <<>>
      BY <1>1, <2>1
    <2>3. a + m <= L
      BY <2>1, <2>2 DEF InStep
    <2>4. a + i \in 1..L
      BY <2>2, <2>3
    <2> QED
      BY <2>1, <2>4
  <1>4. \A i \in 1..Len(pending[c]) : start[c] + Len(sent[c]) + i \in 1..Len(log)
    <2> SUFFICES ASSUME NEW i \in 1..Len(pending[c])
                 PROVE  start[c] + Len(sent[c]) + i \in 1..Len(log)
      OBVIOUS
    <2>1. pending[c] # <<>> /\ Len(sent[c]) \in Nat /\ Len(pending[c]) \in Nat
      BY <1>1
    <2>2. start[c] + Len(sent[c]) + Len(pending[c]) <= Len(log)
      BY <2>1 DEF InStep
    <2>3. PICK a \in Nat, b \in Nat, m \in Nat, L \in Nat :
             a = start[c] /\ b = Len(sent[c]) /\ m = Len(pending[c]) /\ L = Len(log)
      BY <1>1, <2>1
    <2>4. i \in 1..m /\ a + b + m <= L
      BY <2>2, <2>3
    <2>5. a + b + i \in 1..L
      BY <2>4
    <2> QED
      BY <2>3, <2>5
  <1>5. phase[c] # "ended"
    BY <1>1 DEF InStep
  <1>6. /\ \A i \in 1..Len(sent'[c]) : sent'[c][i] = log'[start'[c] + i]
        /\ \A i \in 1..Len(pending'[c]) :
              pending'[c][i] = log'[start'[c] + Len(sent'[c]) + i]
    BY <1>1, <1>2, <1>3, <1>4 DEF InStep
  <1>7. /\ cursor'[c] = start'[c] + Len(sent'[c]) + Len(pending'[c])
        /\ sent'[c] # <<>> => start'[c] + Len(sent'[c]) <= Len(log')
        /\ pending'[c] # <<>> => cursor'[c] <= Len(log')
        /\ phase'[c] \in {"armed", "parked", "ended"} => pending'[c] = <<>>
    BY <1>1, <1>2 DEF InStep
  <1> QED
    BY <1>1, <1>5, <1>6, <1>7 DEF InStep

\* A popped frame moves from the buffer to what was yielded.
LEMMA InStepYield ==
    ASSUME TypeInv, NEW c \in Client, InStep(c), Yield(c)
    PROVE  InStep(c)'
  <1>1. /\ pending[c] \in Seq(Event) /\ pending[c] # <<>>
        /\ sent[c] \in Seq(Event)
        /\ sent'[c] = Append(sent[c], Head(pending[c]))
        /\ pending'[c] = Tail(pending[c])
        /\ UNCHANGED <<log, writer, phase, cursor, start>>
        /\ phase[c] = "poll"
        /\ start[c] \in Nat /\ cursor[c] \in Nat /\ log \in Seq(Event)
    BY DEF Yield, TypeInv, TypeOK, writerVars, requestVars
  <1>u. /\ start[c] \in Nat /\ Len(sent[c]) \in Nat /\ Len(pending[c]) \in Nat
        /\ log' = log /\ start'[c] = start[c]
    BY <1>1
  <1>s. \A i \in 1..Len(sent[c]) : sent[c][i] = log[start[c] + i]
    BY DEF InStep
  <1>p. \A i \in 1..Len(pending[c]) : pending[c][i] = log[start[c] + Len(sent[c]) + i]
    BY DEF InStep
  <1>2. Len(pending[c]) >= 1
    BY <1>1, EmptySeq
  <1>3. /\ Len(pending'[c]) = Len(pending[c]) - 1
        /\ \A i \in 1..Len(pending'[c]) : pending'[c][i] = pending[c][i + 1]
    BY <1>1
  <1>4. /\ Len(sent'[c]) = Len(sent[c]) + 1
        /\ \A i \in 1..Len(sent[c]) : sent'[c][i] = sent[c][i]
        /\ sent'[c][Len(sent[c]) + 1] = pending[c][1]
    BY <1>1
  <1>5. pending[c][1] = log[start[c] + Len(sent[c]) + 1]
    BY <1>2, <1>u, <1>p
  <1>6. \A i \in 1..Len(sent'[c]) : sent'[c][i] = log'[start'[c] + i]
    <2> SUFFICES ASSUME NEW i \in 1..Len(sent'[c])
                 PROVE  sent'[c][i] = log'[start'[c] + i]
      OBVIOUS
    <2>1. CASE i \in 1..Len(sent[c])
      BY <2>1, <1>u, <1>s, <1>4
    <2>2. CASE i = Len(sent[c]) + 1
      <3>1. start[c] + Len(sent[c]) + 1 = start[c] + i
        BY <2>2, <1>u
      <3> QED
        BY <2>2, <3>1, <1>u, <1>4, <1>5
    <2> QED
      BY <2>1, <2>2, <1>u, <1>4
  <1>7. \A i \in 1..Len(pending'[c]) : pending'[c][i] = log'[start'[c] + Len(sent'[c]) + i]
    <2> SUFFICES ASSUME NEW i \in 1..Len(pending'[c])
                 PROVE  pending'[c][i] = log'[start'[c] + Len(sent'[c]) + i]
      OBVIOUS
    <2>1. pending'[c][i] = pending[c][i + 1] /\ i + 1 \in 1..Len(pending[c])
      BY <1>1, <1>2, <1>3
    <2>2. pending[c][i + 1] = log[start[c] + Len(sent[c]) + (i + 1)]
      BY <2>1, <1>p
    <2>3. start[c] + Len(sent[c]) + (i + 1) = start'[c] + Len(sent'[c]) + i
      <3>1. start[c] \in Nat /\ Len(sent[c]) \in Nat /\ i \in Nat
        BY <1>u, <1>3
      <3>2. start'[c] = start[c] /\ Len(sent'[c]) = Len(sent[c]) + 1
        BY <1>u, <1>4
      <3>3. PICK a \in Nat, b \in Nat, j \in Nat : a = start[c] /\ b = Len(sent[c]) /\ j = i
        BY <3>1
      <3>4. a + b + (j + 1) = a + (b + 1) + j
        OBVIOUS
      <3> QED
        BY <3>2, <3>3, <3>4
    <2> QED
      BY <2>1, <2>2, <2>3, <1>u
  <1>8. /\ cursor'[c] = start'[c] + Len(sent'[c]) + Len(pending'[c])
        /\ start'[c] + Len(sent'[c]) <= Len(log')
        /\ cursor'[c] <= Len(log')
    <2>1. /\ start[c] \in Nat /\ Len(sent[c]) \in Nat /\ Len(pending[c]) \in Nat
          /\ Len(log) \in Nat
      BY <1>1
    <2>2. cursor[c] = start[c] + Len(sent[c]) + Len(pending[c]) /\ cursor[c] <= Len(log)
      BY <1>1 DEF InStep
    <2>3. start' = start /\ cursor' = cursor /\ log' = log
      BY <1>1
    <2>4. Len(pending'[c]) = Len(pending[c]) - 1 /\ Len(sent'[c]) = Len(sent[c]) + 1
      BY <1>3, <1>4
    <2>5. Len(pending[c]) >= 1
      BY <1>2
    <2> DEFINE at == start[c]
               n == Len(sent[c])
               p == Len(pending[c])
               L == Len(log)
    <2>6. /\ at \in Nat /\ n \in Nat /\ p \in Nat /\ L \in Nat
          /\ cursor[c] = at + n + p /\ cursor[c] <= L /\ p >= 1
      BY <2>1, <2>2, <2>5
    <2> HIDE DEF at, n, p, L
    <2>7. at + (n + 1) + (p - 1) = cursor[c] /\ at + (n + 1) <= L
      BY <2>6
    <2>8. start[c] + (Len(sent[c]) + 1) + (Len(pending[c]) - 1) = cursor[c]
      BY <2>7 DEF at, n, p
    <2>9. start[c] + (Len(sent[c]) + 1) <= Len(log)
      BY <2>7 DEF at, n, L
    <2>10. Len(log') = Len(log) /\ start'[c] = start[c] /\ cursor'[c] = cursor[c]
      BY <2>3
    <2> QED
      BY <2>2, <2>4, <2>8, <2>9, <2>10
  <1> QED
    BY <1>1, <1>6, <1>7, <1>8 DEF InStep

\* What is read is exactly what the connection has not seen yet.
LEMMA InStepRead ==
    ASSUME TypeInv, SeqIsOffset, NEW c \in Client, InStep(c), Read(c)
    PROVE  InStep(c)'
  <1> DEFINE fresh == ReplayFrom(cursor[c])
  <1>1. /\ log \in Seq(Event) /\ start[c] \in Nat /\ cursor[c] \in Nat
        /\ sent[c] \in Seq(Event)
        /\ UNCHANGED <<log, writer, start, sent>>
        /\ phase[c] = "armed"
        /\ pending'[c] = fresh
        /\ cursor'[c] = IF fresh = <<>> THEN cursor[c] ELSE fresh[Len(fresh)].seq + 1
        /\ phase'[c] = IF fresh # <<>> THEN "poll" ELSE IF Terminal THEN "ended" ELSE "parked"
    BY DEF Read, CursorAfter, TypeInv, TypeOK, writerVars, requestVars
  <1>2. pending[c] = <<>> /\ cursor[c] = start[c] + Len(sent[c])
    BY <1>1 DEF InStep
  <1>3. /\ fresh \in Seq(Event)
        /\ fresh = <<>> <=> Len(log) <= cursor[c]
        /\ cursor[c] <= Len(log) => Len(fresh) = Len(log) - cursor[c]
        /\ \A i \in 1..Len(fresh) : fresh[i] = log[cursor[c] + i]
    BY <1>1, SuffixProperties DEF ReplayFrom
  <1> HIDE DEF fresh
  <1>4. CASE fresh = <<>>
    BY <1>1, <1>2, <1>3, <1>4 DEF InStep, Terminal
  <1>5. CASE fresh # <<>>
    <2>1. Len(log) > cursor[c] /\ Len(fresh) = Len(log) - cursor[c]
      BY <1>1, <1>3, <1>5
    <2>2. fresh[Len(fresh)] = log[Len(log)]
      BY <1>1, <1>3, <2>1
    <2>3. log[Len(log)].seq = Len(log) - 1
      BY <1>1, <2>1 DEF SeqIsOffset
    <2>4. cursor'[c] = Len(log)
      BY <1>1, <1>5, <2>2, <2>3
    <2>5. \A i \in 1..Len(pending'[c]) : pending'[c][i] = log'[start'[c] + Len(sent'[c]) + i]
      BY <1>1, <1>2, <1>3
    <2>6. cursor'[c] = start'[c] + Len(sent'[c]) + Len(pending'[c])
      BY <1>1, <1>2, <2>1, <2>4
    <2>7. /\ start'[c] + Len(sent'[c]) <= Len(log') /\ cursor'[c] <= Len(log')
          /\ \A i \in 1..Len(sent'[c]) : sent'[c][i] = log'[start'[c] + i]
      <3>1. start[c] + Len(sent[c]) <= Len(log)
        BY <1>1, <1>2, <2>1
      <3>2. \A i \in 1..Len(sent[c]) : sent[c][i] = log[start[c] + i]
        BY DEF InStep
      <3>3. log' = log /\ start' = start /\ sent' = sent
        BY <1>1
      <3>4. Len(log) <= Len(log)
        BY <1>1
      <3> QED
        BY <2>4, <3>1, <3>2, <3>3, <3>4
    <2>8. phase'[c] = "poll"
      BY <1>1, <1>5
    <2> QED
      BY <2>5, <2>6, <2>7, <2>8 DEF InStep
  <1> QED
    BY <1>4, <1>5

\* A step of another client does not touch the connection of c.
LEMMA InStepUntouched ==
    ASSUME NEW c \in Client, InStep(c), Terminal => Terminal',
           log' = log, cursor'[c] = cursor[c], start'[c] = start[c], sent'[c] = sent[c],
           pending'[c] = pending[c],
           phase'[c] = phase[c] \/ phase'[c] \in {"idle", "poll"}
                                \/ (phase'[c] = "armed" /\ pending[c] = <<>>)
    PROVE  InStep(c)'
  BY DEF InStep

LEMMA DeliveryStep == TypeInv /\ DeliveryInv /\ [Next]_vars => DeliveryInv'
  <1> SUFFICES ASSUME TypeInv, DeliveryInv, [Next]_vars, NEW c \in Client
               PROVE  InStep(c)'
    BY SeqIsOffsetStep DEF DeliveryInv
  <1>0. InStep(c) /\ SeqIsOffset
    BY DEF DeliveryInv
  <1>1. ASSUME NEW n \in 1..MaxChunk, NEW stream \in Stream, Push(stream, n)
        PROVE  InStep(c)'
    BY <1>0, <1>1, InStepPush
  <1>2. ASSUME NEW n \in 1..MaxChunk, PushOverflow(n)
        PROVE  InStep(c)'
    BY <1>0, <1>2, InStepUntouched DEF PushOverflow, Terminal, streamVars, requestVars
  <1>3. CASE MarkTerminal \/ NotifyTerminal \/ UNCHANGED vars
    BY <1>0, <1>3, InStepUntouched
       DEF MarkTerminal, NotifyTerminal, Terminal, vars, writerVars, streamVars, requestVars
  <1>4. ASSUME NEW d \in Client, Attach(d)
        PROVE  InStep(c)'
    <2>1. CASE c = d
      <3>1. ResumeOffset(lastId[c], origin[c]) \in Nat
        BY DEF ResumeOffset, TypeInv, TypeOK
      <3>2. /\ cursor'[c] = start'[c] /\ start'[c] \in Nat
            /\ sent'[c] = <<>> /\ pending'[c] = <<>> /\ phase'[c] = "poll"
        BY <1>4, <2>1, <3>1 DEF Attach, TypeInv, TypeOK
      <3> QED
        BY <3>2 DEF InStep
    <2>2. CASE c # d
      BY <1>0, <1>4, <2>2, InStepUntouched
         DEF Attach, Terminal, writerVars, TypeInv, TypeOK
    <2> QED
      BY <2>1, <2>2
  <1>5. ASSUME NEW d \in Client, Yield(d)
        PROVE  InStep(c)'
    <2>1. CASE c = d
      BY <1>0, <1>5, <2>1, InStepYield
    <2>2. CASE c # d
      BY <1>0, <1>5, <2>2, InStepUntouched
         DEF Yield, Terminal, writerVars, requestVars, TypeInv, TypeOK
    <2> QED
      BY <2>1, <2>2
  <1>6. ASSUME NEW d \in Client, Arm(d)
        PROVE  InStep(c)'
    BY <1>0, <1>6, InStepUntouched
       DEF Arm, Terminal, writerVars, requestVars, TypeInv, TypeOK
  <1>7. ASSUME NEW d \in Client, Read(d)
        PROVE  InStep(c)'
    <2>1. CASE c = d
      BY <1>0, <1>7, <2>1, InStepRead
    <2>2. CASE c # d
      BY <1>0, <1>7, <2>2, InStepUntouched
         DEF Read, CursorAfter, Terminal, writerVars, requestVars, TypeInv, TypeOK
    <2> QED
      BY <2>1, <2>2
  <1>8. ASSUME NEW d \in Client, Wake(d) \/ Detach(d)
        PROVE  InStep(c)'
    BY <1>0, <1>8, InStepUntouched
       DEF Wake, Detach, Terminal, writerVars, requestVars, TypeInv, TypeOK
  <1>9. ASSUME NEW d \in Client, Receive(d)
        PROVE  InStep(c)'
    BY <1>0, <1>9, InStepUntouched
       DEF Receive, Terminal, writerVars, streamVars, requestVars
  <1> QED
    BY <1>1, <1>2, <1>3, <1>4, <1>5, <1>6, <1>7, <1>8, <1>9 DEF Next, Write, Serve

LEMMA DeliveryInvariant == Spec => [](TypeInv /\ DeliveryInv)
  <1>1. Init => DeliveryInv
    BY DEF Init, DeliveryInv, SeqIsOffset, InStep
  <1> QED
    BY TypeInvInit, TypeInvStep, <1>1, DeliveryStep, PTL DEF Spec

\* A stream that ended by itself has delivered the complete final log from its
\* start offset, for every cap and every interleaving.
THEOREM EndedStreamsAreComplete == Spec => []EndedIsComplete
  <1>1. TypeInv /\ DeliveryInv => EndedIsComplete
    <2> SUFFICES ASSUME TypeInv, DeliveryInv, NEW c \in Client, phase[c] = "ended"
                 PROVE  Terminal /\ sent[c] = SubSeq(log, start[c] + 1, Len(log))
      BY DEF EndedIsComplete
    <2> DEFINE rest == SubSeq(log, start[c] + 1, Len(log))
    <2>1. /\ log \in Seq(Event) /\ start[c] \in Nat /\ sent[c] \in Seq(Event)
          /\ InStep(c)
      BY DEF TypeInv, TypeOK, DeliveryInv
    <2>2. /\ Terminal
          /\ Len(log) <= start[c] + Len(sent[c])
          /\ sent[c] # <<>> => start[c] + Len(sent[c]) = Len(log)
      BY <2>1 DEF InStep
    <2>3. /\ rest \in Seq(Event)
          /\ rest = <<>> <=> Len(log) <= start[c]
          /\ start[c] <= Len(log) => Len(rest) = Len(log) - start[c]
          /\ \A i \in 1..Len(rest) : rest[i] = log[start[c] + i]
      BY <2>1, SuffixProperties
    <2> HIDE DEF rest
    <2>4. CASE sent[c] = <<>>
      BY <2>1, <2>2, <2>3, <2>4
    <2>5. CASE sent[c] # <<>>
      <3>1. Len(rest) = Len(sent[c])
        BY <2>1, <2>2, <2>3, <2>5
      <3>2. \A i \in 1..Len(sent[c]) : sent[c][i] = rest[i]
        BY <2>1, <2>3, <3>1 DEF InStep
      <3>3. sent[c] = rest
        BY <2>1, <2>3, <3>1, <3>2, SeqEqual
      <3> QED
        BY <2>2, <3>3 DEF rest
    <2> QED
      BY <2>4, <2>5
  <1> QED
    BY DeliveryInvariant, <1>1, PTL

-----------------------------------------------------------------------------
(* Resumption *)

\* What client c has received from its current connection, and how its last id
\* ties this connection to the ones before it.
ResumeStep(c) ==
    /\ received[c] <= Len(sent[c])
    /\ received[c] = 0 /\ phase[c] # "idle" => start[c] = ResumeOffset(lastId[c], origin[c])
    /\ received[c] > 0 => lastId[c] # NoId /\ lastId[c] = start[c] + received[c] - 1
    /\ lastId[c] # NoId => origin[c] <= lastId[c] /\ lastId[c] < Len(log)

ResumeInv == NoGapOnResume /\ \A c \in Client : ResumeStep(c)

\* What an append leaves in place for a client that has received up to lastId.
LEMMA ResumePush ==
    ASSUME TypeInv, ResumeInv, NEW c \in Client,
           NEW n \in 1..MaxChunk, NEW stream \in Stream, Push(stream, n)
    PROVE  ResumeStep(c)' /\ have'[c] = IF lastId'[c] = NoId THEN {}
                                        ELSE {log'[i + 1] : i \in origin'[c]..lastId'[c]}
  <1> DEFINE event == [seq |-> NextSeq, stream |-> stream, bytes |-> n]
  <1>1. /\ log \in Seq(Event) /\ log' = Append(log, event)
        /\ origin[c] \in Nat
        /\ lastId[c] # NoId => lastId[c] \in Nat
        /\ UNCHANGED <<phase, sent, start, received, origin, lastId, have>>
    BY DEF Push, TypeInv, TypeOK, requestVars, clientVars
  <1> HIDE DEF event
  <1>2. Len(log') = Len(log) + 1 /\ \A i \in 1..Len(log) : log'[i] = log[i]
    BY <1>1
  <1>3. ResumeStep(c)'
    BY <1>1, <1>2 DEF ResumeInv, ResumeStep, ResumeOffset
  <1>4. CASE lastId[c] = NoId
    BY <1>1, <1>3, <1>4 DEF ResumeInv, NoGapOnResume
  <1>5. CASE lastId[c] # NoId
    <2>1. lastId[c] < Len(log) /\ have[c] = {log[i + 1] : i \in origin[c]..lastId[c]}
      BY <1>5 DEF ResumeInv, ResumeStep, NoGapOnResume
    <2>2. \A i \in origin[c]..lastId[c] : i + 1 \in 1..Len(log)
      BY <1>1, <1>5, <2>1
    <2>3. \A i \in origin[c]..lastId[c] : log'[i + 1] = log[i + 1]
      BY <1>2, <2>2
    <2> QED
      BY <1>1, <1>3, <1>5, <2>1, <2>3
  <1> QED
    BY <1>4, <1>5

\* A received frame is the next one after lastId, or the one at lastId again when
\* it is the first of a resumed connection.
LEMMA ResumeReceive ==
    ASSUME TypeInv, DeliveryInv, ResumeInv, NEW c \in Client, Receive(c)
    PROVE  ResumeStep(c)' /\ have'[c] = IF lastId'[c] = NoId THEN {}
                                        ELSE {log'[i + 1] : i \in origin'[c]..lastId'[c]}
  <1> DEFINE k == start[c] + received[c]
             frame == sent[c][received[c] + 1]
  <1>1. /\ received[c] \in Nat /\ start[c] \in Nat /\ origin[c] \in Nat
        /\ sent[c] \in Seq(Event) /\ log \in Seq(Event)
        /\ lastId[c] # NoId => lastId[c] \in Nat
        /\ phase[c] # "idle" /\ received[c] < Len(sent[c])
        /\ UNCHANGED <<log, phase, start, origin, sent>>
        /\ received'[c] = received[c] + 1
        /\ lastId'[c] = frame.seq
        /\ have'[c] = have[c] \cup {frame}
    BY DEF Receive, TypeInv, TypeOK, writerVars, streamVars, requestVars
  <1>2. Len(sent[c]) \in Nat /\ Len(log) \in Nat /\ NoId \notin Nat
    BY <1>1, LogStreamAssumption
  <1>3. k \in Nat /\ k < Len(log)
    <2>1. sent[c] # <<>>
      BY <1>1
    <2>2. start[c] + Len(sent[c]) <= Len(log)
      BY <2>1 DEF DeliveryInv, InStep
    <2>3. PICK a \in Nat, b \in Nat, m \in Nat, L \in Nat :
             a = start[c] /\ b = received[c] /\ m = Len(sent[c]) /\ L = Len(log)
      BY <1>1, <1>2
    <2>4. b < m /\ a + m <= L
      BY <1>1, <2>2, <2>3
    <2>5. a + b \in Nat /\ a + b < L
      BY <2>4
    <2> QED
      BY <2>3, <2>5
  <1>4. frame = log[k + 1] /\ frame.seq = k
    <2>1. received[c] + 1 \in 1..Len(sent[c])
      BY <1>1
    <2>2. frame = log[start[c] + (received[c] + 1)]
      BY <2>1 DEF DeliveryInv, InStep
    <2>3. start[c] + (received[c] + 1) = k + 1 /\ k + 1 \in 1..Len(log)
      BY <1>1, <1>3
    <2>4. log[k + 1].seq = (k + 1) - 1
      BY <2>3 DEF DeliveryInv, SeqIsOffset
    <2> QED
      BY <1>3, <2>2, <2>3, <2>4
  <1>5. ResumeStep(c)
    BY DEF ResumeInv
  <1>6. have[c] = IF lastId[c] = NoId THEN {} ELSE {log[i + 1] : i \in origin[c]..lastId[c]}
    BY DEF ResumeInv, NoGapOnResume
  <1>7. origin[c] <= k
    BY <1>1, <1>5 DEF ResumeStep, ResumeOffset
  <1>8. ResumeStep(c)'
    <2>1. received'[c] <= Len(sent'[c]) /\ received'[c] > 0
      BY <1>1, <1>2
    <2>2. lastId'[c] # NoId /\ lastId'[c] = start'[c] + received'[c] - 1
      BY <1>1, <1>2, <1>3, <1>4
    <2>3. origin'[c] <= lastId'[c] /\ lastId'[c] < Len(log')
      BY <1>1, <1>3, <1>4, <1>7
    <2> QED
      BY <2>1, <2>2, <2>3 DEF ResumeStep
  <1>9. have[c] \cup {log[k + 1]} = {log[i + 1] : i \in origin[c]..k}
    <2>1. CASE lastId[c] = NoId
      <3>1. received[c] = 0 /\ k = origin[c]
        BY <1>1, <1>5, <2>1 DEF ResumeStep, ResumeOffset
      <3>2. origin[c]..k = {k}
        BY <1>3, <3>1
      <3> QED
        BY <1>6, <2>1, <3>2
    <2>2. CASE lastId[c] # NoId /\ received[c] = 0
      <3>1. k = lastId[c]
        BY <1>1, <1>5, <2>2 DEF ResumeStep, ResumeOffset
      <3>2. k \in origin[c]..k
        BY <1>1, <1>3, <1>7
      <3> QED
        BY <1>6, <2>2, <3>1, <3>2
    <2>3. CASE lastId[c] # NoId /\ received[c] > 0
      <3>1. lastId[c] = k - 1 /\ origin[c] <= lastId[c]
        BY <1>1, <1>5, <2>3 DEF ResumeStep
      <3>2. origin[c]..k = (origin[c]..lastId[c]) \cup {k}
        BY <1>1, <1>3, <3>1
      <3> QED
        BY <1>6, <2>3, <3>2
    <2>4. received[c] = 0 \/ received[c] > 0
      BY <1>1
    <2> QED
      BY <2>1, <2>2, <2>3, <2>4
  <1>10. lastId'[c] = k /\ k # NoId /\ have'[c] = have[c] \cup {log[k + 1]}
    BY <1>1, <1>2, <1>3, <1>4
  <1>11. log' = log /\ origin'[c] = origin[c]
    BY <1>1
  <1> HIDE DEF k, frame
  <1> QED
    BY <1>8, <1>9, <1>10, <1>11

LEMMA ResumeStepByStep ==
    TypeInv /\ DeliveryInv /\ ResumeInv /\ [Next]_vars => ResumeInv'
  <1> DEFINE Gapless(c) == have[c] = IF lastId[c] = NoId THEN {}
                                     ELSE {log[i + 1] : i \in origin[c]..lastId[c]}
  <1> SUFFICES ASSUME TypeInv, DeliveryInv, ResumeInv, [Next]_vars, NEW c \in Client
               PROVE  ResumeStep(c)' /\ Gapless(c)'
    BY DEF ResumeInv, NoGapOnResume
  <1>0. ResumeStep(c) /\ Gapless(c)
    BY DEF ResumeInv, NoGapOnResume
  <1>1. ASSUME NEW n \in 1..MaxChunk, NEW stream \in Stream, Push(stream, n)
        PROVE  ResumeStep(c)' /\ Gapless(c)'
    BY <1>1, ResumePush
  <1>2. CASE /\ UNCHANGED <<log, origin>>
             /\ lastId'[c] = lastId[c] /\ have'[c] = have[c] /\ received'[c] = received[c]
             /\ start'[c] = start[c] /\ sent'[c] = sent[c]
             /\ phase'[c] = "idle" \/ phase[c] # "idle" \/ phase'[c] = phase[c]
    BY <1>0, <1>2 DEF ResumeStep, ResumeOffset
  <1>3. ASSUME NEW n \in 1..MaxChunk, PushOverflow(n)
        PROVE  ResumeStep(c)' /\ Gapless(c)'
    BY <1>2, <1>3 DEF PushOverflow, streamVars, requestVars, clientVars
  <1>4. CASE MarkTerminal \/ NotifyTerminal \/ UNCHANGED vars
    BY <1>2, <1>4 DEF MarkTerminal, NotifyTerminal, vars, writerVars, streamVars, requestVars,
                      clientVars
  <1>5. ASSUME NEW d \in Client, Attach(d)
        PROVE  ResumeStep(c)' /\ Gapless(c)'
    <2>1. CASE c = d
      <3>1. /\ received'[c] = 0 /\ sent'[c] = <<>>
            /\ start'[c] = ResumeOffset(lastId'[c], origin'[c])
            /\ UNCHANGED <<log, origin, lastId, have>>
        BY <1>5, <2>1 DEF Attach, writerVars, TypeInv, TypeOK
      <3> QED
        BY <1>0, <3>1 DEF ResumeStep
    <2>2. CASE c # d
      BY <1>2, <1>5, <2>2 DEF Attach, writerVars, TypeInv, TypeOK
    <2> QED
      BY <2>1, <2>2
  <1>6. ASSUME NEW d \in Client, Yield(d)
        PROVE  ResumeStep(c)' /\ Gapless(c)'
    <2>1. CASE c = d
      <3>1. /\ sent[c] \in Seq(Event) /\ received[c] \in Nat
            /\ sent'[c] = Append(sent[c], Head(pending[c]))
            /\ UNCHANGED <<log, phase, start, origin, received, lastId, have>>
        BY <1>6, <2>1 DEF Yield, writerVars, requestVars, clientVars, TypeInv, TypeOK
      <3>2. Len(sent'[c]) = Len(sent[c]) + 1
        BY <3>1
      <3> QED
        BY <1>0, <3>1, <3>2 DEF ResumeStep, ResumeOffset
    <2>2. CASE c # d
      BY <1>2, <1>6, <2>2 DEF Yield, writerVars, requestVars, clientVars, TypeInv, TypeOK
    <2> QED
      BY <2>1, <2>2
  <1>7. ASSUME NEW d \in Client, Arm(d) \/ Read(d) \/ Wake(d) \/ Detach(d)
        PROVE  ResumeStep(c)' /\ Gapless(c)'
    BY <1>2, <1>7 DEF Arm, Read, Wake, Detach, writerVars, requestVars, clientVars, TypeInv, TypeOK
  <1>8. ASSUME NEW d \in Client, Receive(d)
        PROVE  ResumeStep(c)' /\ Gapless(c)'
    <2>1. CASE c = d
      BY <1>8, <2>1, ResumeReceive
    <2>2. CASE c # d
      BY <1>2, <1>8, <2>2 DEF Receive, writerVars, streamVars, requestVars, TypeInv, TypeOK
    <2> QED
      BY <2>1, <2>2
  <1> QED
    BY <1>1, <1>3, <1>4, <1>5, <1>6, <1>7, <1>8 DEF Next, Write, Serve

\* However often a client's connection breaks, and whatever was buffered or in
\* flight when it did, reattaching with the last id leaves no gap.
THEOREM ResumptionLeavesNoGap == Spec => []NoGapOnResume
  <1>1. Init => ResumeInv
    BY DEF Init, ResumeInv, NoGapOnResume, ResumeStep
  <1>2. ResumeInv => NoGapOnResume
    BY DEF ResumeInv
  <1> QED
    BY TypeInvInit, TypeInvStep, DeliveryInvariant, <1>1, <1>2, ResumeStepByStep, PTL DEF Spec

-----------------------------------------------------------------------------
(* Refinement *)

\* The links of the abstract specification.
LinkOf == [c \in Client |-> Link(c)]

LEMMA OriginIsOffset == Spec => [](origin \in [Client -> Offset])
  <1>1. Init => origin \in [Client -> Offset]
    BY DEF Init
  <1>2. origin \in [Client -> Offset] /\ [Next]_vars => (origin \in [Client -> Offset])'
    BY DEF Next, Write, Serve, Push, PushOverflow, MarkTerminal, NotifyTerminal, Attach, Yield,
           Arm, Read, Wake, Receive, Detach, vars, requestVars
  <1> QED
    BY <1>1, <1>2, PTL DEF Spec

\* A phase change of one client changes that client's link and no other.
LEMMA LinkChange ==
    ASSUME NEW c \in Client, phase \in [Client -> Phase], NEW p \in Phase,
           phase' = [phase EXCEPT ![c] = p]
    PROVE  LinkOf' = [LinkOf EXCEPT ![c] = IF p = "idle" THEN "idle"
                                           ELSE IF p = "ended" THEN "ended" ELSE "live"]
  <1>1. Link(c)' = IF p = "idle" THEN "idle" ELSE IF p = "ended" THEN "ended" ELSE "live"
    BY DEF Link
  <1>2. \A d \in Client : d # c => Link(d)' = Link(d)
    BY DEF Link
  <1> QED
    BY <1>1, <1>2 DEF LinkOf

LEMMA DeliverySimulation ==
    TypeInv /\ DeliveryInv /\ origin \in [Client -> Offset] /\ [Next]_vars
        => [Delivery!Next]_(Delivery!vars)
  <1> SUFFICES ASSUME TypeInv, DeliveryInv, origin \in [Client -> Offset], [Next]_vars
               PROVE  Delivery!Next \/ UNCHANGED Delivery!vars
    OBVIOUS
  <1>0. phase \in [Client -> Phase]
    BY DEF TypeInv, TypeOK
  <1>a. UNCHANGED <<log, Terminal, LinkOf, start, sent>> => UNCHANGED Delivery!vars
    BY DEF Delivery!vars, LinkOf
  <1>b. ASSUME UNCHANGED <<log, writer, phase, start, sent>>
        PROVE  UNCHANGED Delivery!vars
    BY <1>a, <1>b DEF LinkOf, Link, Terminal
  <1>1. ASSUME NEW n \in 1..MaxChunk, NEW stream \in Stream, Push(stream, n)
        PROVE  Delivery!Next
    <2> DEFINE event == [seq |-> NextSeq, stream |-> stream, bytes |-> n]
    <2>1. /\ log' = Append(log, event) /\ ~Terminal
          /\ UNCHANGED <<writer, phase, start, sent>>
      BY <1>1 DEF Push, Terminal, requestVars
    <2>2. event \in Event
      <3>1. /\ log' \in Seq(Event) /\ log \in Seq(Event)
        BY TypeInvStep DEF TypeInv, TypeOK
      <3>2. Len(log') = Len(log) + 1 /\ log'[Len(log) + 1] = event
        BY <2>1, <3>1
      <3> QED
        BY <3>1, <3>2
    <2>3. Terminal' = Terminal /\ LinkOf' = LinkOf
      BY <2>1 DEF Terminal, LinkOf, Link
    <2>4. Delivery!Extend(event)
      BY <2>1, <2>3 DEF Delivery!Extend, LinkOf
    <2> QED
      BY <2>2, <2>4 DEF Delivery!Next
  <1>2. ASSUME NEW n \in 1..MaxChunk, PushOverflow(n)
        PROVE  UNCHANGED Delivery!vars
    BY <1>2, <1>a DEF PushOverflow, Terminal, LinkOf, Link, streamVars, requestVars
  <1>3. CASE MarkTerminal
    <2>1. Delivery!Close
      BY <1>3 DEF MarkTerminal, Delivery!Close, Terminal, Link, streamVars, requestVars
    <2> QED
      BY <2>1 DEF Delivery!Next
  <1>4. CASE NotifyTerminal
    BY <1>4, <1>a DEF NotifyTerminal, Terminal, LinkOf, Link, requestVars
  <1>5. ASSUME NEW c \in Client, Attach(c)
        PROVE  Delivery!Next
    <2> DEFINE offset == ResumeOffset(lastId[c], origin[c])
    <2>1. offset \in Offset \cup 0..ByteCap
      BY DEF ResumeOffset, TypeInv, TypeOK
    <2>2. LinkOf' = [LinkOf EXCEPT ![c] = "live"]
      BY <1>0, <1>5, LinkChange DEF Attach, Phase
    <2>3. LinkOf[c] # "live"
      BY <1>5 DEF Attach, LinkOf, Link
    <2>4. Delivery!Connect(c, offset)
      BY <1>5, <2>2, <2>3 DEF Delivery!Connect, Attach, LinkOf, Terminal, writerVars
    <2> QED
      BY <2>1, <2>4 DEF Delivery!Next
  <1>6. ASSUME NEW c \in Client, Yield(c)
        PROVE  Delivery!Next
    <2>1. /\ pending[c] \in Seq(Event) /\ pending[c] # <<>>
          /\ start[c] \in Nat /\ sent[c] \in Seq(Event) /\ log \in Seq(Event)
          /\ sent' = [sent EXCEPT ![c] = Append(@, Head(pending[c]))]
          /\ UNCHANGED <<log, writer, phase, start>>
          /\ phase[c] = "poll"
      BY <1>6 DEF Yield, TypeInv, TypeOK, writerVars, requestVars
    <2>2. Len(pending[c]) >= 1
      BY <2>1, EmptySeq
    <2>3. /\ start[c] + Len(sent[c]) + Len(pending[c]) <= Len(log)
          /\ pending[c][1] = log[start[c] + Len(sent[c]) + 1]
      BY <2>1, <2>2 DEF DeliveryInv, InStep
    <2>4. start[c] + Len(sent[c]) < Len(log) /\ Head(pending[c]) = pending[c][1]
      BY <2>1, <2>2, <2>3
    <2>5. Terminal' = Terminal /\ LinkOf' = LinkOf /\ LinkOf[c] = "live"
      BY <2>1 DEF Terminal, LinkOf, Link
    <2>6. Delivery!Deliver(c)
      BY <2>1, <2>3, <2>4, <2>5 DEF Delivery!Deliver, Delivery!NextOffset, LinkOf
    <2> QED
      BY <2>6 DEF Delivery!Next
  <1>7. ASSUME NEW c \in Client, Read(c)
        PROVE  Delivery!Next \/ UNCHANGED Delivery!vars
    <2> DEFINE p == IF ReplayFrom(cursor[c]) # <<>> THEN "poll"
                    ELSE IF Terminal THEN "ended" ELSE "parked"
    <2>1. /\ phase[c] = "armed" /\ p \in Phase
          /\ phase' = [phase EXCEPT ![c] = p]
          /\ UNCHANGED <<log, writer, start, sent>>
      BY <1>7 DEF Read, CursorAfter, Phase, writerVars, requestVars
    <2>2. LinkOf[c] = "live" /\ Terminal' = Terminal
      BY <2>1 DEF LinkOf, Link, Terminal
    <2>3. CASE p = "ended"
      <3>1. LinkOf' = [LinkOf EXCEPT ![c] = "ended"]
        BY <1>0, <2>1, <2>3, LinkChange
      <3>2. Terminal /\ ReplayFrom(cursor[c]) = <<>>
        BY <2>3
      <3>3. cursor[c] = start[c] + Len(sent[c]) /\ Len(log) <= cursor[c]
        <4>1. log \in Seq(Event) /\ cursor[c] \in Nat /\ pending[c] = <<>>
          BY <2>1 DEF TypeInv, TypeOK, DeliveryInv, InStep
        <4>2. Len(log) <= cursor[c]
          BY <3>2, <4>1, SuffixProperties DEF ReplayFrom
        <4> QED
          BY <4>1, <4>2 DEF DeliveryInv, InStep, TypeInv, TypeOK
      <3>4. Delivery!End(c)
        BY <2>1, <2>2, <3>1, <3>2, <3>3 DEF Delivery!End, Delivery!NextOffset, LinkOf
      <3> QED
        BY <3>4 DEF Delivery!Next
    <2>4. CASE p # "ended"
      <3>1. LinkOf' = [LinkOf EXCEPT ![c] = "live"]
        BY <1>0, <2>1, <2>4, LinkChange
      <3>2. LinkOf' = LinkOf
        BY <2>2, <3>1 DEF LinkOf
      <3> QED
        BY <1>a, <2>1, <2>2, <3>2
    <2> QED
      BY <2>3, <2>4
  <1>8. ASSUME NEW c \in Client, Arm(c) \/ Wake(c)
        PROVE  UNCHANGED Delivery!vars
    <2>1. PICK p \in {"armed", "poll"} : phase' = [phase EXCEPT ![c] = p]
      BY <1>8 DEF Arm, Wake
    <2>2. LinkOf' = [LinkOf EXCEPT ![c] = "live"] /\ LinkOf[c] = "live"
      BY <1>0, <1>8, <2>1, LinkChange DEF Phase, Arm, Wake, LinkOf, Link
    <2>3. LinkOf' = LinkOf
      BY <2>2 DEF LinkOf
    <2> QED
      BY <1>a, <1>8, <2>3 DEF Arm, Wake, Terminal, writerVars, requestVars
  <1>9. ASSUME NEW c \in Client, Receive(c)
        PROVE  UNCHANGED Delivery!vars
    BY <1>b, <1>9 DEF Receive, writerVars, streamVars, requestVars
  <1>10. ASSUME NEW c \in Client, Detach(c)
         PROVE  Delivery!Next
    <2>1. LinkOf' = [LinkOf EXCEPT ![c] = "idle"] /\ LinkOf[c] # "idle"
      BY <1>0, <1>10, LinkChange DEF Phase, Detach, LinkOf, Link
    <2>2. Delivery!Disconnect(c)
      BY <1>10, <2>1 DEF Delivery!Disconnect, Detach, LinkOf, Terminal, writerVars, requestVars
    <2> QED
      BY <2>2 DEF Delivery!Next
  <1>11. CASE UNCHANGED vars
    BY <1>b, <1>11 DEF vars, writerVars, streamVars, requestVars
  <1> QED
    BY <1>1, <1>2, <1>3, <1>4, <1>5, <1>6, <1>7, <1>8, <1>9, <1>10, <1>11
       DEF Next, Write, Serve

\* The replay log, tokio's Notify and the stream's cursor deliver what
\* LogDelivery promises, for any number of clients and any cap: each connection
\* is sent the events from its offset on, in order, without a gap or a duplicate,
\* and ends by itself only when the closed log holds nothing more for it.
THEOREM StreamImplementsDelivery == Spec => ImplementsDelivery
  <1>1. Init => Delivery!Init
    BY DEF Init, Delivery!Init, Link, Terminal
  <1> QED
    BY <1>1, TypeInvInit, TypeInvStep, DeliveryInvariant, OriginIsOffset, DeliverySimulation, PTL
       DEF Spec, ImplementsDelivery, Delivery!Spec

=============================================================================
