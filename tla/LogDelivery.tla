---------------------------- MODULE LogDelivery ----------------------------
(***************************************************************************)
(* What job.attach promises its subscribers, with none of the machinery:   *)
(* an append-only log that is closed once, and connections that each       *)
(* receive the events from their start offset on, in order and without     *)
(* gaps, and that end only when the log is closed and nothing is left.     *)
(*                                                                         *)
(* Abstract specification; LogStream implements it.                        *)
(***************************************************************************)
EXTENDS Naturals, Sequences

CONSTANTS
    Client,     \* the subscribers
    Event,      \* what one log entry may be
    Offset      \* the offsets a connection may start from

VARIABLES
    log,        \* the events appended so far
    closed,     \* the job reached a terminal status
    link,       \* per client: "idle", "live" or "ended"
    start,      \* per client: the offset its connection started from
    sent        \* per client: the events its connection has yielded

vars == <<log, closed, link, start, sent>>

\* The offset of the next event the connection of c has to yield.
NextOffset(c) == start[c] + Len(sent[c])

TypeOK ==
    /\ log \in Seq(Event)
    /\ closed \in BOOLEAN
    /\ link \in [Client -> {"idle", "live", "ended"}]
    /\ start \in [Client -> Nat]
    /\ sent \in [Client -> Seq(Event)]

Init ==
    /\ log = <<>>
    /\ closed = FALSE
    /\ link = [c \in Client |-> "idle"]
    /\ start = [c \in Client |-> 0]
    /\ sent = [c \in Client |-> <<>>]

-----------------------------------------------------------------------------

Extend(e) ==
    /\ ~closed
    /\ log' = Append(log, e)
    /\ UNCHANGED <<closed, link, start, sent>>

Close ==
    /\ ~closed
    /\ closed' = TRUE
    /\ UNCHANGED <<log, link, start, sent>>

Connect(c, offset) ==
    /\ link[c] # "live"
    /\ link' = [link EXCEPT ![c] = "live"]
    /\ start' = [start EXCEPT ![c] = offset]
    /\ sent' = [sent EXCEPT ![c] = <<>>]
    /\ UNCHANGED <<log, closed>>

\* The next event in log order, and only that one.
Deliver(c) ==
    /\ link[c] = "live"
    /\ NextOffset(c) < Len(log)
    /\ sent' = [sent EXCEPT ![c] = Append(@, log[NextOffset(c) + 1])]
    /\ UNCHANGED <<log, closed, link, start>>

\* A stream ends by itself only when no event can be missing from it.
End(c) ==
    /\ link[c] = "live"
    /\ closed
    /\ NextOffset(c) >= Len(log)
    /\ link' = [link EXCEPT ![c] = "ended"]
    /\ UNCHANGED <<log, closed, start, sent>>

Disconnect(c) ==
    /\ link[c] # "idle"
    /\ link' = [link EXCEPT ![c] = "idle"]
    /\ UNCHANGED <<log, closed, start, sent>>

Next ==
    \/ \E e \in Event : Extend(e)
    \/ Close
    \/ \E c \in Client :
          \/ \E offset \in Offset : Connect(c, offset)
          \/ Deliver(c)
          \/ End(c)
          \/ Disconnect(c)

Spec == Init /\ [][Next]_vars

\* A connection that stays live is served: no event is withheld for ever and a
\* finished stream does not hang.
FairSpec ==
    /\ Spec
    /\ \A c \in Client : WF_vars(Deliver(c)) /\ WF_vars(End(c))

=============================================================================
