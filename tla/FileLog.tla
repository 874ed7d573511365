------------------------------ MODULE FileLog ------------------------------
(***************************************************************************)
(* FileJobReplayLog (axp-core/src/job/log.rs): a replay log in a file of   *)
(* frames, over crashes of the process and of the machine, and over writes *)
(* and syncs that fail.                                                    *)
(*                                                                         *)
(* The file is a sequence of cells: one for the magic header, one for the  *)
(* fixed part of a frame, one for each byte of its data, and a "torn" cell *)
(* for a header or a fixed part of which only some bytes were written.     *)
(* What the decoder does with a fixed part that starts in the wrong place  *)
(* is taken to be a rejection.  A fixed part that ends up inside the data  *)
(* of another frame counts for one byte where it is 29.  The fixed part of *)
(* a frame has its timestamp as FrameTime encodes it; stream tags are left *)
(* out.                                                                    *)
(***************************************************************************)
EXTENDS FrameTime, Sequences

CONSTANTS
    ByteCap,        \* byte_cap of the log
    MaxLen,         \* bound: bytes of one event
    Time,           \* the times at which appends are tried
    MaxAttempts     \* bound: appends tried in all

ASSUME FileLogAssumption ==
    /\ ByteCap \in Nat
    /\ MaxLen \in Nat
    /\ Time \subseteq SystemTime
    /\ MaxAttempts \in Nat

VARIABLES
    file,       \* the file as a process reads it
    durable,    \* how many of its cells survive a crash of the machine
    handle,     \* "closed", "open", or "syncing": open, a frame written, not synced
    pending,    \* the event in that frame
    events,     \* FileJobReplayLog.events
    byteTotal,  \* FileJobReplayLog.byte_total
    attempts,   \* appends tried so far
    acked,      \* the events whose append returned Ok
    failed      \* some append returned an I/O error

vars == <<file, durable, handle, pending, events, byteTotal, attempts, acked, failed>>

-----------------------------------------------------------------------------
(* The format *)

Magic == [kind |-> "magic"]
Torn == [kind |-> "torn"]

\* Byte i of the data of append number id.
Byte(id, i) == [kind |-> "data", id |-> id, at |-> i]
DataOf(id, n) == [i \in 1..n |-> Byte(id, i)]

\* encode_frame.
Frame(event) ==
    <<[kind |-> "head", seq |-> event.seq, stamp |-> Encode(event.time), len |-> Len(event.data)]>>
    \o event.data

\* What is left of some cells that were written in part only.
Cut(cells) ==
    {SubSeq(cells, 1, k) : k \in 0..Len(cells) - 1}
    \cup {Append(SubSeq(cells, 1, k - 1), Torn) : k \in {i \in DOMAIN cells : cells[i].kind # "data"}}

\* Mutant of FrameEnd: a frame whose data is cut off ends where the file does.
FrameEndClipped(cells, i) ==
    IF i + cells[i].len > Len(cells) THEN Len(cells) ELSE i + cells[i].len

\* The last cell of the frame that starts at cell i.
FrameEnd(cells, i) == i + cells[i].len

\* A frame starts at cell i and its data is all there.
Complete(cells, i) == cells[i].kind = "head" /\ FrameEnd(cells, i) <= Len(cells)

\* The event that decode_file_log makes of the frame that starts at cell i.
EventAt(cells, i) ==
    [seq |-> cells[i].seq, time |-> DecodeStamp(cells[i].stamp),
     data |-> SubSeq(cells, i + 1, FrameEnd(cells, i))]

\* The loop of decode_file_log: the data of the frames from cell i on, or a refusal.
Frames(cells) ==
    LET from[i \in 1..Len(cells) + 1] ==
            IF i = Len(cells) + 1 THEN [ok |-> TRUE, events |-> <<>>]
            ELSE IF ~Complete(cells, i) THEN [ok |-> FALSE, events |-> <<>>]
            ELSE LET rest == from[FrameEnd(cells, i) + 1]
                 IN [ok |-> rest.ok, events |-> <<EventAt(cells, i)>> \o rest.events]
    IN from[2]

\* The bytes of a sequence of events.
Bytes(log) ==
    LET sum[n \in 0..Len(log)] == IF n = 0 THEN 0 ELSE sum[n - 1] + Len(log[n].data)
    IN sum[Len(log)]

\* decode_file_log: the magic header, complete frames, consecutive seqs, the cap.
Decode(cells) ==
    IF cells = <<>> \/ Head(cells) # Magic
    THEN [ok |-> FALSE, events |-> <<>>]
    ELSE LET read == Frames(cells)
         IN [read EXCEPT !.ok = /\ @
                                /\ \A i \in DOMAIN read.events : read.events[i].seq = i - 1
                                /\ Bytes(read.events) <= ByteCap]

-----------------------------------------------------------------------------

Cell == {Magic, Torn}
        \cup [kind : {"data"}, id : 1..MaxAttempts, at : 1..MaxLen]
        \cup [kind : {"head"}, seq : 0..MaxAttempts, stamp : Stamp, len : 1..MaxLen]
Event == [seq : 0..MaxAttempts, time : SystemTime, data : Seq(Cell)]

TypeOK ==
    /\ file \in Seq(Cell)
    /\ durable \in 0..Len(file)
    /\ handle \in {"closed", "open", "syncing"}
    /\ pending \in Seq(Event)
    /\ Len(pending) = IF handle = "syncing" THEN 1 ELSE 0
    /\ events \in Seq(Event)
    /\ byteTotal \in 0..ByteCap
    /\ attempts \in 0..MaxAttempts
    /\ acked \subseteq Event
    /\ failed \in BOOLEAN

Init ==
    /\ file = <<>>
    /\ durable = 0
    /\ handle = "closed"
    /\ pending = <<>>
    /\ events = <<>>
    /\ byteTotal = 0
    /\ attempts = 0
    /\ acked = {}
    /\ failed = FALSE

-----------------------------------------------------------------------------
(* open: a new file gets its header, synced; any other is decoded.  An open     *)
(* that is refused changes nothing.                                             *)

\* Mutant of OpenNew: a file that does not decode is begun anew.
OpenNewOverwrites ==
    /\ handle = "closed"
    /\ ~Decode(file).ok
    /\ file' = <<Magic>>
    /\ durable' = 1
    /\ handle' = "open"
    /\ UNCHANGED <<pending, events, byteTotal, attempts, acked, failed>>

OpenNew ==
    /\ handle = "closed"
    /\ file = <<>>
    /\ file' = <<Magic>>
    /\ durable' = 1
    /\ handle' = "open"
    /\ UNCHANGED <<pending, events, byteTotal, attempts, acked, failed>>

\* The header is not written in full, or not synced: an error, or the end of the
\* process.
OpenNewFails ==
    /\ handle = "closed"
    /\ file = <<>>
    /\ file' \in {<<Torn>>, <<Magic>>}
    /\ UNCHANGED <<durable, handle, pending, events, byteTotal, attempts, acked, failed>>

OpenExisting ==
    /\ handle = "closed"
    /\ Decode(file).ok
    /\ events' = Decode(file).events
    /\ byteTotal' = Bytes(events')
    /\ handle' = "open"
    /\ UNCHANGED <<file, durable, pending, attempts, acked, failed>>

-----------------------------------------------------------------------------
(* append: write_all, sync_data, then the tables in memory.  An overflow, or a  *)
(* time that cannot be encoded, changes nothing.                                *)

\* The event that is being appended.
NewEvent(n, time) == [seq |-> Len(events), time |-> time, data |-> DataOf(attempts + 1, n)]

\* Mutant of MayAppend: the cap is compared before the event is counted.
MayAppendLate(n) ==
    /\ handle = "open"
    /\ attempts < MaxAttempts
    /\ byteTotal < ByteCap

MayAppend(n) ==
    /\ handle = "open"
    /\ attempts < MaxAttempts
    /\ byteTotal + n <= ByteCap

\* write_all succeeds.
AppendWrite(n, time) ==
    /\ MayAppend(n)
    /\ Encodes(time)
    /\ file' = file \o Frame(NewEvent(n, time))
    /\ handle' = "syncing"
    /\ pending' = <<NewEvent(n, time)>>
    /\ attempts' = attempts + 1
    /\ UNCHANGED <<durable, events, byteTotal, acked, failed>>

\* write_all fails and may have written a part of the frame, which stays.
AppendWriteFails(n, time) ==
    /\ MayAppend(n)
    /\ Encodes(time)
    /\ \E part \in Cut(Frame(NewEvent(n, time))) : file' = file \o part
    /\ attempts' = attempts + 1
    /\ failed' = TRUE
    /\ UNCHANGED <<durable, handle, pending, events, byteTotal, acked>>

\* The event is in memory, and its seq is returned.
Acknowledge ==
    /\ handle' = "open"
    /\ pending' = <<>>
    /\ events' = events \o pending
    /\ byteTotal' = byteTotal + Bytes(pending)
    /\ acked' = acked \cup {pending[1]}

\* Mutant of AppendSync: the data is acknowledged but not synced.
AppendNoSync ==
    /\ handle = "syncing"
    /\ Acknowledge
    /\ UNCHANGED <<file, durable, attempts, failed>>

\* sync_data succeeds: everything written so far is durable.
AppendSync ==
    /\ handle = "syncing"
    /\ durable' = Len(file)
    /\ Acknowledge
    /\ UNCHANGED <<file, attempts, failed>>

\* sync_data fails: the frame stays in the file, not in memory.
AppendSyncFails ==
    /\ handle = "syncing"
    /\ handle' = "open"
    /\ pending' = <<>>
    /\ failed' = TRUE
    /\ UNCHANGED <<file, durable, events, byteTotal, attempts, acked>>

-----------------------------------------------------------------------------

\* The handle is dropped, or the process ends, at any point.
Close ==
    /\ handle # "closed"
    /\ handle' = "closed"
    /\ pending' = <<>>
    /\ events' = <<>>
    /\ byteTotal' = 0
    /\ UNCHANGED <<file, durable, attempts, acked, failed>>

\* The machine stops: what was not synced may be lost, or in part.
PowerLoss ==
    LET unsynced == SubSeq(file, durable + 1, Len(file)) IN
    /\ \E left \in Cut(unsynced) \cup {unsynced} :
          /\ file' = SubSeq(file, 1, durable) \o left
          /\ durable' = durable + Len(left)
    /\ handle' = "closed"
    /\ pending' = <<>>
    /\ events' = <<>>
    /\ byteTotal' = 0
    /\ UNCHANGED <<attempts, acked, failed>>

Next ==
    \/ OpenNew
    \/ OpenNewFails
    \/ OpenExisting
    \/ \E n \in 1..MaxLen, time \in Time : AppendWrite(n, time) \/ AppendWriteFails(n, time)
    \/ AppendSync
    \/ AppendSyncFails
    \/ Close
    \/ PowerLoss

Spec == Init /\ [][Next]_vars

-----------------------------------------------------------------------------
(* Properties *)

\* An acknowledged event is there, at its seq and with its data, whenever the log
\* can be opened again, whatever the machine did in between, as long as no append
\* failed (log.rs, sync_data before the event is counted; decode_file_log).
AckedSurvives ==
    handle # "closed" /\ ~failed =>
        \A event \in acked : event.seq < Len(events) /\ events[event.seq + 1] = event

\* The data of one append, whole.
Genuine(event) ==
    \E id \in 1..MaxAttempts : event.data = DataOf(id, Len(event.data))

\* A log that opens holds nothing but whole events, as long as no append failed:
\* what a crash left of a frame is not taken for data (log.rs, "truncated frame").
OpensWhole == handle # "closed" /\ ~failed => \A i \in DOMAIN events : Genuine(events[i])

\* After an append, failed or not, the file holds what memory holds (log.rs,
\* JobReplayLog: "must leave existing data unchanged when an append fails").
FileHoldsEvents == handle = "open" => Decode(file) = [ok |-> TRUE, events |-> events]

\* Between appends the bytes counted are those of the events in memory, and, as long as
\* no append failed, the file would be accepted and gives these events: the cap that
\* append enforces is the one that open checks (log.rs, append, decode_file_log).
MemoryIsFile ==
    /\ byteTotal = Bytes(events)
    /\ ~failed => FileHoldsEvents

-----------------------------------------------------------------------------
(* What the log promises *)

\* What append tries to write, at any seq.
Submitted ==
    {event \in [seq : 0..MaxAttempts, time : Time,
               data : {DataOf(id, n) : id \in 1..MaxAttempts, n \in 1..MaxLen}] :
        Encodes(event.time)}

\* The log is what decode_file_log makes of the file, up to where it gives up; safe is
\* what it would make of the durable part.
Durable == INSTANCE DurableLog WITH
    Event  <- Submitted,
    log    <- Decode(file).events,
    kept   <- Len(Decode(SubSeq(file, 1, durable)).events),
    open   <- handle # "closed",
    view   <- events,
    broken <- failed

\* Until an append fails, the file is a durable log: an append adds one event at the end
\* and is accepted when it is safe, an open sees exactly what is there, and a crash takes
\* away events from the end that were not safe, and no others (log.rs, append, open,
\* decode_file_log).
ImplementsDurableLog == Durable!Spec

=============================================================================
