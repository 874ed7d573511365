---------------------------- MODULE DurableLog ----------------------------
(***************************************************************************)
(* What a replay log in a file promises, with none of the machinery: a     *)
(* sequence of events of which a first part can no longer be lost, and a   *)
(* handle through which the whole of it is seen.  An append is accepted    *)
(* only when nothing up to it can be lost any more; a stop of the machine  *)
(* takes events from the end only, and none of those that are safe.  Once  *)
(* an append has failed nothing is promised.                               *)
(*                                                                         *)
(* Abstract specification; FileLog implements it.                          *)
(***************************************************************************)
EXTENDS Naturals, Sequences

CONSTANT Event      \* what may be appended, each with the seq it is to have

VARIABLES
    log,        \* the events of the log
    kept,       \* how many of them cannot be lost
    open,       \* somebody has a handle
    view,       \* the events seen through it
    broken      \* an append has failed

vars == <<log, kept, open, view, broken>>

Init ==
    /\ log = <<>>
    /\ kept = 0
    /\ open = FALSE
    /\ view = <<>>
    /\ broken = FALSE

-----------------------------------------------------------------------------

\* A new handle sees the log as it is, with what is not safe yet.
Open ==
    /\ ~open
    /\ open' = TRUE
    /\ view' = log
    /\ UNCHANGED <<log, kept>>

\* An append that is not accepted yet: one at a time, at the end.
Write(event) ==
    /\ open
    /\ view = log
    /\ event.seq = Len(log)
    /\ log' = Append(log, event)
    /\ UNCHANGED <<kept, open, view>>

\* It is accepted: everything up to it is safe, and seen.
Accept ==
    /\ open
    /\ Len(view) < Len(log)
    /\ view' = log
    /\ kept' = Len(log)
    /\ UNCHANGED <<log, open>>

\* The handle is gone; an append that was not accepted may have happened.
Close ==
    /\ open
    /\ open' = FALSE
    /\ view' = <<>>
    /\ UNCHANGED <<log, kept>>

\* The machine stops: what is left of the log is safe from then on.
Lose ==
    /\ \E n \in kept..Len(log) : log' = SubSeq(log, 1, n) /\ kept' = n
    /\ open' = FALSE
    /\ view' = <<>>

Next ==
    \/ /\ ~broken
       /\ UNCHANGED broken
       /\ \/ Open
          \/ \E event \in Event : Write(event)
          \/ Accept
          \/ Close
          \/ Lose
    \/ broken' = TRUE

Spec == Init /\ [][Next]_vars

=============================================================================
