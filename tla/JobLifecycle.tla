---------------------------- MODULE JobLifecycle ----------------------------
(***************************************************************************)
(* What the job engine promises about each job, whatever runs inside it: a *)
(* job is started at most once, produces output only while it runs, takes  *)
(* at most one cancellation, and reaches one terminal status, after which  *)
(* nothing about it changes.                                               *)
(*                                                                         *)
(* Abstract specification; JobEngine and CodeJob implement it.             *)
(***************************************************************************)
EXTENDS Naturals

CONSTANTS
    Job,        \* job ids
    Stream,     \* the output streams of a job
    MaxChunk    \* most bytes that become available at once

VARIABLES
    status,     \* per job: "absent", "running" or a terminal status
    output,     \* per job and stream: bytes available for replay
    cancelled   \* jobs whose cancellation was accepted

vars == <<status, output, cancelled>>

TerminalStatus == {"exited", "killed", "failed"}

TypeOK ==
    /\ status \in [Job -> {"absent", "running"} \cup TerminalStatus]
    /\ output \in [Job -> [Stream -> Nat]]
    /\ cancelled \subseteq Job

Init ==
    /\ status = [j \in Job |-> "absent"]
    /\ output = [j \in Job |-> [s \in Stream |-> 0]]
    /\ cancelled = {}

-----------------------------------------------------------------------------

Start(j) ==
    /\ status[j] = "absent"
    /\ status' = [status EXCEPT ![j] = "running"]
    /\ UNCHANGED <<output, cancelled>>

Produce(j, s, n) ==
    /\ status[j] = "running"
    /\ output' = [output EXCEPT ![j][s] = @ + n]
    /\ UNCHANGED <<status, cancelled>>

\* Accepted in any state of an existing job, once.
Cancel(j) ==
    /\ status[j] # "absent"
    /\ j \notin cancelled
    /\ cancelled' = cancelled \cup {j}
    /\ UNCHANGED <<status, output>>

Finish(j, final) ==
    /\ status[j] = "running"
    /\ status' = [status EXCEPT ![j] = final]
    /\ UNCHANGED <<output, cancelled>>

Next ==
    \E j \in Job :
        \/ Start(j)
        \/ \E s \in Stream, n \in 1..MaxChunk : Produce(j, s, n)
        \/ Cancel(j)
        \/ \E final \in TerminalStatus : Finish(j, final)

Spec == Init /\ [][Next]_vars

=============================================================================
