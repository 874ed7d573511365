----------------------------- MODULE LogStream -----------------------------
(***************************************************************************)
(* One job's replay log, the task that writes it, and the subscribers that *)
(* attach to it: InMemoryJobReplayLog (axp-core/src/job/log.rs), the two   *)
(* halves of JobEngine::finish_job that subscribers can see, JobLogStream  *)
(* (axp-core/src/job/engine.rs), and the resume offset of the SSE handler  *)
(* (axp-transport/src/attach.rs).                                          *)
(*                                                                         *)
(* The job's RwLock makes each locked section one step.  What happens      *)
(* outside it is interleaved: registering with tokio's Notify, reading the *)
(* log, going to sleep and the wake-ups of the writer are separate steps,  *)
(* and so are writing the terminal status and notifying about it.          *)
(***************************************************************************)
EXTENDS Naturals, Sequences

CONSTANTS
    Client,     \* subscribers (one SSE connection each at a time)
    ByteCap,    \* byte_cap of the replay log
    MaxChunk,   \* largest chunk one append carries (DRAIN_BUF_SIZE)
    Offset,     \* the from_offset values clients ask for
    MaxAttach,  \* bound: connections one client makes
    NoId        \* no SSE event id received yet

ASSUME LogStreamAssumption ==
    /\ ByteCap \in Nat
    /\ MaxChunk \in Nat
    /\ Offset \subseteq Nat
    /\ MaxAttach \in Nat
    /\ NoId \notin Nat

VARIABLES
    log,        \* InMemoryJobReplayLog.events
    byteTotal,  \* InMemoryJobReplayLog.byte_total
    writer,     \* where the drainer stands, see Writer
    phase,      \* where the connection of a client stands, see Phase
    woken,      \* the Notified future of a client was woken
    cursor,     \* JobLogStream.cursor
    pending,    \* JobLogStream.pending
    start,      \* the offset the current connection was made with
    resumed,    \* the Last-Event-ID it was made with, or NoId
    sent,       \* the frames the current connection has yielded
    received,   \* how many of them have reached the client
    origin,     \* the from_offset of the client's subscription
    lastId,     \* the last SSE id the client received
    have,       \* every frame the client received, over all connections
    attaches    \* number of connections made (bounded by MaxAttach)

writerVars == <<log, byteTotal, writer>>
streamVars == <<phase, woken, cursor, pending, sent>>
requestVars == <<start, resumed, origin, attaches>>
clientVars == <<received, lastId, have>>
vars == <<writerVars, streamVars, requestVars, clientVars>>

-----------------------------------------------------------------------------
(* Types *)

Stream == {"stdout", "stderr"}

\* A LogEvent: an append carries 1..MaxChunk bytes, so at most ByteCap fit.
Event == [seq : 0..ByteCap, stream : Stream, bytes : 1..MaxChunk]

\* "running": appending; "overflowed": an append failed, nothing more is read;
\* "marked": the terminal status is written; "notified": and announced.
Writer == {"running", "overflowed", "marked", "notified"}

\* "idle": no connection; "poll": about to look at pending; "armed": registered
\* with Notify, log not read yet; "parked": read, found nothing, awaiting;
\* "ended": next() returned None.
Phase == {"idle", "poll", "armed", "parked", "ended"}

TypeOK ==
    /\ log \in Seq(Event)
    /\ byteTotal \in 0..ByteCap
    /\ writer \in Writer
    /\ phase \in [Client -> Phase]
    /\ woken \in [Client -> BOOLEAN]
    /\ cursor \in [Client -> Nat]
    /\ pending \in [Client -> Seq(Event)]
    /\ start \in [Client -> Nat]
    /\ resumed \in [Client -> (0..ByteCap) \cup {NoId}]
    /\ sent \in [Client -> Seq(Event)]
    /\ received \in [Client -> Nat]
    /\ origin \in [Client -> Nat]
    /\ lastId \in [Client -> (0..ByteCap) \cup {NoId}]
    /\ have \in [Client -> SUBSET Event]
    /\ attaches \in [Client -> 0..MaxAttach]

Init ==
    /\ log = <<>>
    /\ byteTotal = 0
    /\ writer = "running"
    /\ phase = [c \in Client |-> "idle"]
    /\ woken = [c \in Client |-> FALSE]
    /\ cursor = [c \in Client |-> 0]
    /\ pending = [c \in Client |-> <<>>]
    /\ start = [c \in Client |-> 0]
    /\ resumed = [c \in Client |-> NoId]
    /\ sent = [c \in Client |-> <<>>]
    /\ received = [c \in Client |-> 0]
    /\ origin \in [Client -> Offset]
    /\ lastId = [c \in Client |-> NoId]
    /\ have = [c \in Client |-> {}]
    /\ attaches = [c \in Client |-> 0]

-----------------------------------------------------------------------------
(* The writer: the job's drainer task *)

\* JobStatus::is_terminal of the job the log belongs to.
Terminal == writer \in {"marked", "notified"}

\* The clients whose Notified future is enabled, hence woken by notify_waiters.
Registered(c) == phase[c] \in {"armed", "parked"}

NotifyWaiters == woken' = [c \in Client |-> woken[c] \/ Registered(c)]

\* The cap test of InMemoryJobReplayLog::append.
Fits(n) == byteTotal + n <= ByteCap

\* JobReplayLog::next_seq.
NextSeq == Len(log)

\* Mutant of Push: the waiters are not notified.
PushSilently(stream, n) ==
    /\ writer = "running"
    /\ Fits(n)
    /\ log' = Append(log, [seq |-> NextSeq, stream |-> stream, bytes |-> n])
    /\ byteTotal' = byteTotal + n
    /\ UNCHANGED <<writer, streamVars, requestVars, clientVars>>

\* append succeeds: the event gets the next seq and the waiters are notified,
\* all under the job's write lock.
Push(stream, n) ==
    /\ writer = "running"
    /\ Fits(n)
    /\ log' = Append(log, [seq |-> NextSeq, stream |-> stream, bytes |-> n])
    /\ byteTotal' = byteTotal + n
    /\ NotifyWaiters
    /\ UNCHANGED <<writer, phase, cursor, pending, sent, requestVars, clientVars>>

\* append fails with LogBufferOverflow: the log keeps what it has, the chunk is
\* dropped and the drainer stops reading.
PushOverflow(n) ==
    /\ writer = "running"
    /\ ~Fits(n)
    /\ writer' = "overflowed"
    /\ UNCHANGED <<log, byteTotal, streamVars, requestVars, clientVars>>

\* finish_job, first half: the terminal status is written under the lock.
MarkTerminal ==
    /\ writer \in {"running", "overflowed"}
    /\ writer' = "marked"
    /\ UNCHANGED <<log, byteTotal, streamVars, requestVars, clientVars>>

\* Mutant of NotifyTerminal: nobody is told of the terminal status.
NotifyNobody ==
    /\ writer = "marked"
    /\ writer' = "notified"
    /\ UNCHANGED <<log, byteTotal, streamVars, requestVars, clientVars>>

\* finish_job, second half: notify_waiters after the lock is released.
NotifyTerminal ==
    /\ writer = "marked"
    /\ writer' = "notified"
    /\ NotifyWaiters
    /\ UNCHANGED <<log, byteTotal, phase, cursor, pending, sent, requestVars, clientVars>>

-----------------------------------------------------------------------------
(* The subscribers *)

\* Mutant of ReplayFrom: events with seq > from.
ReplayAfter(from) == SubSeq(log, from + 2, Len(log))

\* InMemoryJobReplayLog::replay_from: events with seq >= from, nothing when from
\* is past the end.
ReplayFrom(from) == SubSeq(log, from + 1, Len(log))

\* The offset attach_sse picks: a Last-Event-ID header wins over from_offset.
ResumeOffset(header, from) == IF header = NoId THEN from ELSE header

\* GET /job/attach, then JobEngine::attach: a client that has received something
\* resumes with the last id, otherwise it asks from its origin.
Attach(c) ==
    LET offset == ResumeOffset(lastId[c], origin[c]) IN
    /\ phase[c] \in {"idle", "ended"}
    /\ attaches[c] < MaxAttach
    /\ attaches' = [attaches EXCEPT ![c] = @ + 1]
    /\ phase' = [phase EXCEPT ![c] = "poll"]
    /\ woken' = [woken EXCEPT ![c] = FALSE]
    /\ cursor' = [cursor EXCEPT ![c] = offset]
    /\ pending' = [pending EXCEPT ![c] = <<>>]
    /\ start' = [start EXCEPT ![c] = offset]
    /\ resumed' = [resumed EXCEPT ![c] = lastId[c]]
    /\ sent' = [sent EXCEPT ![c] = <<>>]
    /\ received' = [received EXCEPT ![c] = 0]
    /\ UNCHANGED <<writerVars, origin, lastId, have>>

\* next(): a buffered frame is popped and handed to the SSE body.
Yield(c) ==
    /\ phase[c] = "poll"
    /\ pending[c] # <<>>
    /\ sent' = [sent EXCEPT ![c] = Append(@, Head(pending[c]))]
    /\ pending' = [pending EXCEPT ![c] = Tail(@)]
    /\ UNCHANGED <<writerVars, phase, woken, cursor, requestVars, clientVars>>

\* next(): nothing buffered, so register with Notify BEFORE reading the log.
Arm(c) ==
    /\ phase[c] = "poll"
    /\ pending[c] = <<>>
    /\ phase' = [phase EXCEPT ![c] = "armed"]
    /\ woken' = [woken EXCEPT ![c] = FALSE]
    /\ UNCHANGED <<writerVars, cursor, pending, sent, requestVars, clientVars>>

\* Mutant of CursorAfter: the cursor stays on the last event read.
CursorOnLast(from, fresh) == IF fresh = <<>> THEN from ELSE fresh[Len(fresh)].seq

\* Past the last event read.
CursorAfter(from, fresh) == IF fresh = <<>> THEN from ELSE fresh[Len(fresh)].seq + 1

\* Mutant of Read: a terminal status ends the stream before what was read is yielded.
ReadStatusFirst(c) ==
    LET fresh == ReplayFrom(cursor[c]) IN
    /\ phase[c] = "armed"
    /\ pending' = [pending EXCEPT ![c] = fresh]
    /\ cursor' = [cursor EXCEPT ![c] = CursorAfter(@, fresh)]
    /\ phase' = [phase EXCEPT ![c] =
                    IF Terminal THEN "ended"
                    ELSE IF fresh # <<>> THEN "poll" ELSE "parked"]
    /\ UNCHANGED <<writerVars, woken, sent, requestVars, clientVars>>

\* next(): under the read lock, copy the unseen events, advance the cursor past
\* the last of them and read the status; then loop, end, or go to sleep.
Read(c) ==
    LET fresh == ReplayFrom(cursor[c]) IN
    /\ phase[c] = "armed"
    /\ pending' = [pending EXCEPT ![c] = fresh]
    /\ cursor' = [cursor EXCEPT ![c] = CursorAfter(@, fresh)]
    /\ phase' = [phase EXCEPT ![c] =
                    IF fresh # <<>> THEN "poll"
                    ELSE IF Terminal THEN "ended" ELSE "parked"]
    /\ UNCHANGED <<writerVars, woken, sent, requestVars, clientVars>>

\* next(): notified.await completes and the loop starts over.
Wake(c) ==
    /\ phase[c] = "parked"
    /\ woken[c]
    /\ phase' = [phase EXCEPT ![c] = "poll"]
    /\ woken' = [woken EXCEPT ![c] = FALSE]
    /\ UNCHANGED <<writerVars, cursor, pending, sent, requestVars, clientVars>>

\* A frame crosses the network.
Receive(c) ==
    LET frame == sent[c][received[c] + 1] IN
    /\ phase[c] # "idle"
    /\ received[c] < Len(sent[c])
    /\ received' = [received EXCEPT ![c] = @ + 1]
    /\ lastId' = [lastId EXCEPT ![c] = frame.seq]
    /\ have' = [have EXCEPT ![c] = @ \cup {frame}]
    /\ UNCHANGED <<writerVars, streamVars, requestVars>>

\* The connection drops; buffered and in-flight frames are lost with it.
Detach(c) ==
    /\ phase[c] # "idle"
    /\ phase' = [phase EXCEPT ![c] = "idle"]
    /\ UNCHANGED <<writerVars, woken, cursor, pending, sent, requestVars, clientVars>>

-----------------------------------------------------------------------------

Write == \E n \in 1..MaxChunk : PushOverflow(n) \/ \E stream \in Stream : Push(stream, n)

\* What the server does for one connection.
Serve(c) == Yield(c) \/ Arm(c) \/ Read(c) \/ Wake(c)

Next ==
    \/ Write
    \/ MarkTerminal
    \/ NotifyTerminal
    \/ \E c \in Client : Attach(c) \/ Serve(c) \/ Receive(c) \/ Detach(c)

Spec == Init /\ [][Next]_vars

\* The runtime polls every ready task: a connection whose client keeps reading is
\* served, and finish_job runs to its end.  Nothing forces output, the end of
\* the job, or a client to attach or leave.
FairSpec ==
    /\ Spec
    /\ WF_vars(NotifyTerminal)
    /\ \A c \in Client : WF_vars(Serve(c))

-----------------------------------------------------------------------------
(* Properties *)

\* No wake-up is lost: a subscriber that went to sleep and was not woken has
\* seen every event of the log, and if the job is already terminal the
\* notification of finish_job is still to come (engine.rs, JobLogStream::next
\* registers before it reads; finish_job notifies after it writes).
NoLostWakeup ==
    \A c \in Client :
        phase[c] = "parked" /\ ~woken[c] =>
            /\ Len(log) <= cursor[c]
            /\ writer # "notified"

\* A stream that ended has yielded the whole final log from its start offset,
\* and the log can no longer grow (engine.rs, "terminal AND nothing buffered").
EndedIsComplete ==
    \A c \in Client :
        phase[c] = "ended" =>
            /\ Terminal
            /\ sent[c] = SubSeq(log, start[c] + 1, Len(log))

\* A client that reattaches with the last id it received, however often its
\* connection breaks and whatever was in flight, has every event from its origin
\* up to that id (docs/RUNTIME-API.md, "Reattach with the job id and the last
\* id value received").
NoGapOnResume ==
    \A c \in Client :
        have[c] = IF lastId[c] = NoId
                  THEN {}
                  ELSE {log[i + 1] : i \in origin[c]..lastId[c]}

\* A connection to a job that became terminal ends or is dropped: it never hangs
\* on a quiet job (engine.rs, the comment on the notify in finish_job).
StreamEnds ==
    \A c \in Client :
        (Terminal /\ phase[c] \in {"poll", "armed", "parked"}) ~> phase[c] \in {"ended", "idle"}

\* What standard SSE resumption means for the handler: the first frame of a
\* connection made with Last-Event-ID comes after that id (attach.rs, "Resumption
\* follows standard SSE semantics").
ResumeAfterLastEventId ==
    \A c \in Client :
        resumed[c] # NoId /\ sent[c] # <<>> => sent[c][1].seq > resumed[c]

-----------------------------------------------------------------------------
(* Refinement *)

Link(c) == IF phase[c] \in {"idle", "ended"} THEN phase[c] ELSE "live"

Delivery == INSTANCE LogDelivery WITH
    Offset <- Offset \cup 0..ByteCap,
    closed <- Terminal,
    link <- [c \in Client |-> Link(c)]

\* The replay log, Notify and the cursor together deliver what LogDelivery
\* promises: every step is an abstract step or invisible, and a live connection
\* is never starved.
ImplementsDelivery == Delivery!Spec
ImplementsFairDelivery == Delivery!FairSpec

=============================================================================
