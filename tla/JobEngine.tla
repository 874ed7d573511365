----------------------------- MODULE JobEngine -----------------------------
(***************************************************************************)
(* The job engine (axp-core/src/job/engine.rs) running command and         *)
(* capability jobs, with the session store it audits into                  *)
(* (axp-core/src/session.rs) and the job index (axp-core/src/job/store.rs).*)
(*                                                                         *)
(* Request handlers (start, cancel, cancel_for_session, session open and   *)
(* close), one drainer task per job, the child process and a descendant    *)
(* that may inherit its pipes all run concurrently.  A step is one locked  *)
(* section (the session map, the job's RwLock, the cancels mutex) or one   *)
(* select! arm; between two of them anything else may happen.              *)
(*                                                                         *)
(* Abstracted: what a command is, its working directory, the capability    *)
(* and policy checks (a start may be refused after admission), and the     *)
(* content of the output, of which the number of bytes is kept.            *)
(***************************************************************************)
EXTENDS Naturals, Sequences

CONSTANTS
    Session,        \* session ids
    Job,            \* job ids next_job_id hands out, bounding the jobs started
    NoSession,      \* owner of a job id not handed out yet
    LogByteCap,     \* log_byte_cap of the engine
    DrainBufSize,   \* most bytes one read takes from a pipe
    MaxWritten,     \* bound: bytes a job writes to one of its streams
    MayClosePipes,  \* programs may close stdout or stderr before they exit
    MayFork,        \* programs may leave a descendant holding their pipes
    MaySystemFail   \* a read from a pipe or the wait for a child may return an error

ASSUME JobEngineAssumption ==
    /\ NoSession \notin Session
    /\ LogByteCap \in Nat
    /\ DrainBufSize \in Nat
    /\ MaxWritten \in Nat
    /\ MayClosePipes \in BOOLEAN
    /\ MayFork \in BOOLEAN
    /\ MaySystemFail \in BOOLEAN

VARIABLES
    \* SessionStore
    session,    \* per session: "unopened", "open" (in the map) or "closed"
    audit,      \* per session: its audit_events
    \* JobStore and the engine's tables
    stage,      \* per job: how far start() has come, see Stage
    owner,      \* Job.session_id
    status,     \* Job.status, "absent" until the job is in the store
    cancels,    \* keys of the engine's cancels table
    signal,     \* per job: its oneshot cancellation was sent
    sweep,      \* per session: jobs a running cancel_for_session has left
    \* the drainer task (run_to_completion, finish_job)
    task,       \* per job: where the drainer stands, see Task
    cancelled,  \* its local `cancelled`
    overflowed, \* its local `overflowed`
    eof,        \* per job: streams it is done with (out_done, err_done)
    broken,     \* history, per job: streams a read of which failed
    waitFailed, \* per job: its local `status` is an error
    logged,     \* per job and stream: bytes in the replay log
    \* the operating system
    proc,       \* per job: the child process, see Proc
    writers,    \* per job and stream: who holds the write end of the pipe
    written,    \* per job and stream: bytes written into the pipe
    consumed    \* per job and stream: bytes the drainer took from the pipe

sessionVars == <<session, audit>>
tableVars == <<stage, owner, cancels, signal, sweep>>
taskVars == <<task, cancelled, overflowed, eof, broken, waitFailed>>
outputVars == <<logged, consumed>>
osVars == <<proc, writers, written>>
vars == <<sessionVars, tableVars, status, taskVars, outputVars, osVars>>

-----------------------------------------------------------------------------
(* Types *)

Stream == {"stdout", "stderr"}

\* "admitted": start() holds a clone of the session's grants, the child is not
\* spawned yet; "inserted": spawned and in the job store; "registered": in the
\* cancels table; "started": audited, drainer launched.
Stage == {"free", "admitted", "inserted", "registered", "started"}

TerminalStatus == {"exited", "killed", "failed"}
Status == {"absent", "running"} \cup TerminalStatus

\* "drain": in the select loop; "reap": in child.wait(); "audit" and
\* "unregister": in finish_job after the status is written; "done": returned.
Task == {"none", "drain", "reap", "audit", "unregister", "done"}

\* How the child ended: by itself ("exited"), by a signal of its own making
\* ("crashed"), or by the drainer's SIGKILL ("sigkilled").
Proc == {"none", "running", "exited", "crashed", "sigkilled"}
Dead == {"exited", "crashed", "sigkilled"}

Holder == {"child", "descendant"}

AuditEvent == [kind : {"SessionOpened", "SessionClosed"}]
              \cup [kind : {"JobStarted"}, job : Job]
              \cup [kind : {"JobFinished"}, job : Job, status : TerminalStatus]

TypeOK ==
    /\ session \in [Session -> {"unopened", "open", "closed"}]
    /\ audit \in [Session -> Seq(AuditEvent)]
    /\ stage \in [Job -> Stage]
    /\ owner \in [Job -> Session \cup {NoSession}]
    /\ status \in [Job -> Status]
    /\ cancels \subseteq Job
    /\ signal \in [Job -> BOOLEAN]
    /\ sweep \in [Session -> SUBSET Job]
    /\ task \in [Job -> Task]
    /\ cancelled \in [Job -> BOOLEAN]
    /\ overflowed \in [Job -> BOOLEAN]
    /\ eof \in [Job -> SUBSET Stream]
    /\ broken \in [Job -> SUBSET Stream]
    /\ waitFailed \in [Job -> BOOLEAN]
    /\ logged \in [Job -> [Stream -> 0..LogByteCap]]
    /\ proc \in [Job -> Proc]
    /\ writers \in [Job -> [Stream -> SUBSET Holder]]
    /\ written \in [Job -> [Stream -> 0..MaxWritten]]
    /\ consumed \in [Job -> [Stream -> Nat]]

Init ==
    /\ session = [s \in Session |-> "unopened"]
    /\ audit = [s \in Session |-> <<>>]
    /\ stage = [j \in Job |-> "free"]
    /\ owner = [j \in Job |-> NoSession]
    /\ status = [j \in Job |-> "absent"]
    /\ cancels = {}
    /\ signal = [j \in Job |-> FALSE]
    /\ sweep = [s \in Session |-> {}]
    /\ task = [j \in Job |-> "none"]
    /\ cancelled = [j \in Job |-> FALSE]
    /\ overflowed = [j \in Job |-> FALSE]
    /\ eof = [j \in Job |-> {}]
    /\ broken = [j \in Job |-> {}]
    /\ waitFailed = [j \in Job |-> FALSE]
    /\ logged = [j \in Job |-> [p \in Stream |-> 0]]
    /\ proc = [j \in Job |-> "none"]
    /\ writers = [j \in Job |-> [p \in Stream |-> {}]]
    /\ written = [j \in Job |-> [p \in Stream |-> 0]]
    /\ consumed = [j \in Job |-> [p \in Stream |-> 0]]

-----------------------------------------------------------------------------
(* Sessions *)

\* record_session_audit: a session that is gone is skipped silently.
RecordSessionAudit(s, event) ==
    audit' = IF session[s] = "open" THEN [audit EXCEPT ![s] = Append(@, event)] ELSE audit

\* SessionStore::open; ids are minted by the transport and never reused.
OpenSession(s) ==
    /\ session[s] = "unopened"
    /\ session' = [session EXCEPT ![s] = "open"]
    /\ audit' = [audit EXCEPT ![s] = Append(@, [kind |-> "SessionOpened"])]
    /\ UNCHANGED <<tableVars, status, taskVars, outputVars, osVars>>

\* SessionStore::close: out of the map, then the event on the removed handle.  What
\* a holder of the handle does between the two is in Requests.
CloseSession(s) ==
    /\ session[s] = "open"
    /\ session' = [session EXCEPT ![s] = "closed"]
    /\ audit' = [audit EXCEPT ![s] = Append(@, [kind |-> "SessionClosed"])]
    /\ UNCHANGED <<tableVars, status, taskVars, outputVars, osVars>>

-----------------------------------------------------------------------------
(* JobEngine::start, in the handler of one request *)

\* Mutant of StartAdmit: a job id is handed out twice.
StartAdmitReusedId(j, s) ==
    /\ stage[j] \in {"free", "started"}
    /\ session[s] = "open"
    /\ stage' = [stage EXCEPT ![j] = "admitted"]
    /\ owner' = [owner EXCEPT ![j] = s]
    /\ UNCHANGED <<sessionVars, cancels, signal, sweep, status, taskVars, outputVars, osVars>>

\* The session lookup: grants, workspace and tier are cloned here and every later
\* check of start() uses the clone, whatever becomes of the session.
StartAdmit(j, s) ==
    /\ stage[j] = "free"
    /\ session[s] = "open"
    /\ stage' = [stage EXCEPT ![j] = "admitted"]
    /\ owner' = [owner EXCEPT ![j] = s]
    /\ UNCHANGED <<sessionVars, cancels, signal, sweep, status, taskVars, outputVars, osVars>>

\* A capability, payload, working directory, policy or spawn error: no job is
\* created and no id is used.
StartRefuse(j) ==
    /\ stage[j] = "admitted"
    /\ stage' = [stage EXCEPT ![j] = "free"]
    /\ owner' = [owner EXCEPT ![j] = NoSession]
    /\ UNCHANGED <<sessionVars, cancels, signal, sweep, status, taskVars, outputVars, osVars>>

\* The child is spawned with both pipes, then insert_running_job.
StartSpawn(j) ==
    /\ stage[j] = "admitted"
    /\ stage' = [stage EXCEPT ![j] = "inserted"]
    /\ status' = [status EXCEPT ![j] = "running"]
    /\ proc' = [proc EXCEPT ![j] = "running"]
    /\ writers' = [writers EXCEPT ![j] = [p \in Stream |-> {"child"}]]
    /\ UNCHANGED <<sessionVars, owner, cancels, signal, sweep, taskVars, outputVars, written>>

\* The cancellation channel is registered.
StartRegister(j) ==
    /\ stage[j] = "inserted"
    /\ stage' = [stage EXCEPT ![j] = "registered"]
    /\ cancels' = cancels \cup {j}
    /\ UNCHANGED <<sessionVars, owner, signal, sweep, status, taskVars, outputVars, osVars>>

\* Mutant of StartLaunch: the drainer is launched and overtakes the JobStarted event.
StartLaunchUnaudited(j) ==
    /\ stage[j] = "registered"
    /\ stage' = [stage EXCEPT ![j] = "started"]
    /\ task' = [task EXCEPT ![j] = "drain"]
    /\ UNCHANGED <<sessionVars, owner, cancels, signal, sweep, status, cancelled, overflowed,
                   eof, broken, waitFailed, outputVars, osVars>>

\* JobStarted is recorded, the drainer is launched and the id returned.
StartLaunch(j) ==
    /\ stage[j] = "registered"
    /\ stage' = [stage EXCEPT ![j] = "started"]
    /\ RecordSessionAudit(owner[j], [kind |-> "JobStarted", job |-> j])
    /\ task' = [task EXCEPT ![j] = "drain"]
    /\ UNCHANGED <<session, owner, cancels, signal, sweep, status, cancelled, overflowed,
                   eof, broken, waitFailed, outputVars, osVars>>

-----------------------------------------------------------------------------
(* Cancellation *)

\* kill_job takes the entry out of the table and sends, under the table's lock.
KillJob(j) ==
    /\ j \in cancels
    /\ cancels' = cancels \ {j}
    /\ signal' = [signal EXCEPT ![j] = TRUE]

\* JobStore::get: the job is in the store.
Stored(j) == status[j] # "absent"

\* cancel answered ok: true.  The ownership check reads what never changes, so it
\* is one step with kill_job; ok: false and JobNotFound change nothing.
Cancel(j, s) ==
    /\ Stored(j)
    /\ owner[j] = s
    /\ KillJob(j)
    /\ UNCHANGED <<sessionVars, stage, owner, sweep, status, taskVars, outputVars, osVars>>

\* cancel_for_session takes its list of jobs ...
CancelForSession(s) ==
    /\ sweep[s] = {}
    /\ sweep' = [sweep EXCEPT ![s] = {j \in Job : Stored(j) /\ owner[j] = s}]
    /\ UNCHANGED <<sessionVars, stage, owner, cancels, signal, status, taskVars, outputVars,
                   osVars>>

\* ... and calls kill_job on each of them, ignoring those that have no entry.
SweepJob(s, j) ==
    /\ j \in sweep[s]
    /\ sweep' = [sweep EXCEPT ![s] = @ \ {j}]
    /\ KillJob(j) \/ (j \notin cancels /\ UNCHANGED <<cancels, signal>>)
    /\ UNCHANGED <<sessionVars, stage, owner, status, taskVars, outputVars, osVars>>

-----------------------------------------------------------------------------
(* The drainer: run_to_completion.  The arms of the biased select! are polled   *)
(* one after the other, not at once, so a later arm may be taken although an    *)
(* earlier one has just become ready: every ready arm is a possible step.       *)

\* Child::start_kill: SIGKILL reaches the child alone, not its descendants.
StartKill(j) ==
    IF proc[j] = "running"
    THEN /\ proc' = [proc EXCEPT ![j] = "sigkilled"]
         /\ writers' = [writers EXCEPT ![j] = [p \in Stream |-> @[p] \ {"child"}]]
    ELSE UNCHANGED <<proc, writers>>

\* The loop is left when both streams are done.
AfterArm(done) == IF done = Stream THEN "reap" ELSE "drain"

\* Mutant of DrainCancel: cancellation stops the draining at once.
DrainCancelAbandons(j) ==
    /\ task[j] = "drain"
    /\ signal[j]
    /\ ~cancelled[j]
    /\ cancelled' = [cancelled EXCEPT ![j] = TRUE]
    /\ StartKill(j)
    /\ eof' = [eof EXCEPT ![j] = Stream]
    /\ task' = [task EXCEPT ![j] = AfterArm(Stream)]
    /\ UNCHANGED <<sessionVars, tableVars, status, overflowed, broken, waitFailed, outputVars,
                   written>>

\* Mutant of DrainCancel: the flag is set but the child is left alone.
DrainCancelNoKill(j) ==
    /\ task[j] = "drain"
    /\ signal[j]
    /\ ~cancelled[j]
    /\ cancelled' = [cancelled EXCEPT ![j] = TRUE]
    /\ UNCHANGED <<sessionVars, tableVars, status, task, overflowed, eof, broken, waitFailed,
                   outputVars, osVars>>

\* The cancellation arm, tried first and taken once.
DrainCancel(j) ==
    /\ task[j] = "drain"
    /\ signal[j]
    /\ ~cancelled[j]
    /\ cancelled' = [cancelled EXCEPT ![j] = TRUE]
    /\ StartKill(j)
    /\ UNCHANGED <<sessionVars, tableVars, status, task, overflowed, eof, broken, waitFailed,
                   outputVars, written>>

Unread(j, p) == written[j][p] - consumed[j][p]

Reading(j, p) == task[j] = "drain" /\ p \notin eof[j]

\* InMemoryJobReplayLog::append, the cap test.
Fits(j, n) == logged[j]["stdout"] + logged[j]["stderr"] + n <= LogByteCap

\* A chunk is read and pushed into the replay log.
DrainRead(j, p, n) ==
    /\ Reading(j, p)
    /\ n <= Unread(j, p)
    /\ Fits(j, n)
    /\ consumed' = [consumed EXCEPT ![j][p] = @ + n]
    /\ logged' = [logged EXCEPT ![j][p] = @ + n]
    /\ UNCHANGED <<sessionVars, tableVars, status, taskVars, osVars>>

\* A chunk is read and does not fit: it is dropped, the child is killed and
\* neither stream is read any further.
DrainOverflow(j, p, n) ==
    /\ Reading(j, p)
    /\ n <= Unread(j, p)
    /\ ~Fits(j, n)
    /\ consumed' = [consumed EXCEPT ![j][p] = @ + n]
    /\ overflowed' = [overflowed EXCEPT ![j] = TRUE]
    /\ StartKill(j)
    /\ eof' = [eof EXCEPT ![j] = Stream]
    /\ task' = [task EXCEPT ![j] = AfterArm(Stream)]
    /\ UNCHANGED <<sessionVars, tableVars, status, cancelled, broken, waitFailed, logged,
                   written>>

\* End of file (Ok(0)): the pipe is empty and nobody holds its write end.
DrainEof(j, p) ==
    /\ Reading(j, p)
    /\ Unread(j, p) = 0
    /\ writers[j][p] = {}
    /\ eof' = [eof EXCEPT ![j] = @ \cup {p}]
    /\ task' = [task EXCEPT ![j] = AfterArm(eof[j] \cup {p})]
    /\ UNCHANGED <<sessionVars, tableVars, status, cancelled, overflowed, broken, waitFailed,
                   outputVars, osVars>>

\* A failing read (Err(_)) is taken for the end of the stream as well, whatever the
\* pipe still holds.
DrainReadFails(j, p) ==
    /\ MaySystemFail
    /\ Reading(j, p)
    /\ eof' = [eof EXCEPT ![j] = @ \cup {p}]
    /\ broken' = [broken EXCEPT ![j] = @ \cup {p}]
    /\ task' = [task EXCEPT ![j] = AfterArm(eof[j] \cup {p})]
    /\ UNCHANGED <<sessionVars, tableVars, status, cancelled, overflowed, waitFailed, outputVars,
                   osVars>>

-----------------------------------------------------------------------------
(* The drainer: child.wait() and finish_job *)

\* Mutant of FinalStatus: cancellation hides an overflow.
FinalStatusCancelFirst(j, waited) ==
    IF cancelled[j] THEN "killed"
    ELSE IF overflowed[j] \/ ~waited THEN "failed"
    ELSE IF proc[j] = "exited" THEN "exited" ELSE "killed"

\* The terminal status: overflow first, then cancellation, then what wait() returned,
\* an exit status or (~waited) an error.
FinalStatus(j, waited) ==
    IF overflowed[j] THEN "failed"
    ELSE IF cancelled[j] THEN "killed"
    ELSE IF ~waited THEN "failed"
    ELSE IF proc[j] = "exited" THEN "exited" ELSE "killed"

\* Mutant of FinishStatus: the cancels entry goes before the status is written.
FinishCleanupFirst(j, waited) ==
    /\ task[j] = "reap"
    /\ IF waited THEN proc[j] \in Dead ELSE MaySystemFail
    /\ cancels' = cancels \ {j}
    /\ task' = [task EXCEPT ![j] = "audit"]
    /\ UNCHANGED <<sessionVars, stage, owner, signal, sweep, status, cancelled, overflowed,
                   eof, broken, waitFailed, outputVars, osVars>>

\* Mutant of FinishStatus: a child that died of a signal is never reaped.
FinishStatusOnExit(j, waited) ==
    /\ task[j] = "reap"
    /\ IF waited THEN proc[j] = "exited" ELSE MaySystemFail
    /\ waitFailed' = [waitFailed EXCEPT ![j] = ~waited]
    /\ status' = [status EXCEPT ![j] = FinalStatus(j, waited)]
    /\ task' = [task EXCEPT ![j] = "audit"]
    /\ UNCHANGED <<sessionVars, tableVars, cancelled, overflowed, eof, broken, outputVars,
                   osVars>>

\* wait() returns once the child is dead, or fails (~waited); the cancellation
\* channel is not polled here.  finish_job then writes the terminal status under the
\* job's lock.
FinishStatus(j, waited) ==
    /\ task[j] = "reap"
    /\ IF waited THEN proc[j] \in Dead ELSE MaySystemFail
    /\ waitFailed' = [waitFailed EXCEPT ![j] = ~waited]
    /\ status' = [status EXCEPT ![j] = FinalStatus(j, waited)]
    /\ task' = [task EXCEPT ![j] = "audit"]
    /\ UNCHANGED <<sessionVars, tableVars, cancelled, overflowed, eof, broken, outputVars,
                   osVars>>

FinishAudit(j) ==
    /\ task[j] = "audit"
    /\ RecordSessionAudit(owner[j], [kind |-> "JobFinished", job |-> j, status |-> status[j]])
    /\ task' = [task EXCEPT ![j] = "unregister"]
    /\ UNCHANGED <<session, tableVars, status, cancelled, overflowed, eof, broken, waitFailed,
                   outputVars, osVars>>

\* Mutant of FinishUnregister: only a cancelled job is cleaned up.
FinishUnregisterCancelled(j) ==
    /\ task[j] = "unregister"
    /\ cancels' = IF cancelled[j] THEN cancels \ {j} ELSE cancels
    /\ StartKill(j)
    /\ task' = [task EXCEPT ![j] = "done"]
    /\ UNCHANGED <<sessionVars, stage, owner, signal, sweep, status, cancelled, overflowed, eof,
                   broken, waitFailed, outputVars, written>>

\* The cancels entry goes last; the drainer returns and drops the child, killing one
\* that a failed wait left alive (kill_on_drop).
FinishUnregister(j) ==
    /\ task[j] = "unregister"
    /\ cancels' = cancels \ {j}
    /\ StartKill(j)
    /\ task' = [task EXCEPT ![j] = "done"]
    /\ UNCHANGED <<sessionVars, stage, owner, signal, sweep, status, cancelled, overflowed, eof,
                   broken, waitFailed, outputVars, written>>

-----------------------------------------------------------------------------
(* The child and its descendants *)

Alive(j, h) == IF h = "child" THEN proc[j] = "running"
               ELSE \E p \in Stream : "descendant" \in writers[j][p]

ProgWrite(j, p, h) ==
    /\ Alive(j, h)
    /\ h \in writers[j][p]
    /\ written[j][p] < MaxWritten
    /\ written' = [written EXCEPT ![j][p] = @ + 1]
    /\ UNCHANGED <<sessionVars, tableVars, status, taskVars, outputVars, proc, writers>>

\* `exec 1>&-`, a daemon detaching from its terminal, ...
ProgClosePipe(j, p) ==
    /\ MayClosePipes
    /\ proc[j] = "running"
    /\ "child" \in writers[j][p]
    /\ writers' = [writers EXCEPT ![j][p] = @ \ {"child"}]
    /\ UNCHANGED <<sessionVars, tableVars, status, taskVars, outputVars, proc, written>>

\* `cmd &`: a descendant inherits the pipes the child still holds.
ProgFork(j) ==
    /\ MayFork
    /\ proc[j] = "running"
    /\ writers' = [writers EXCEPT ![j] =
                      [p \in Stream |-> IF "child" \in @[p] THEN Holder ELSE @[p]]]
    /\ UNCHANGED <<sessionVars, tableVars, status, taskVars, outputVars, proc, written>>

ProgEnd(j, how) ==
    /\ proc[j] = "running"
    /\ proc' = [proc EXCEPT ![j] = how]
    /\ writers' = [writers EXCEPT ![j] = [p \in Stream |-> @[p] \ {"child"}]]
    /\ UNCHANGED <<sessionVars, tableVars, status, taskVars, outputVars, written>>

DescendantEnd(j) ==
    /\ Alive(j, "descendant")
    /\ writers' = [writers EXCEPT ![j] = [p \in Stream |-> @[p] \ {"descendant"}]]
    /\ UNCHANGED <<sessionVars, tableVars, status, taskVars, outputVars, proc, written>>

-----------------------------------------------------------------------------

SessionStep(s) == OpenSession(s) \/ CloseSession(s)

StartStep(j) ==
    \/ \E s \in Session : StartAdmit(j, s)
    \/ StartRefuse(j)
    \/ StartSpawn(j)
    \/ StartRegister(j)
    \/ StartLaunch(j)

CancelStep(s) ==
    \/ \E j \in Job : Cancel(j, s)
    \/ CancelForSession(s)
    \/ \E j \in Job : SweepJob(s, j)

DrainStep(j) ==
    \/ DrainCancel(j)
    \/ \E p \in Stream :
          \/ \E n \in 1..DrainBufSize : DrainRead(j, p, n) \/ DrainOverflow(j, p, n)
          \/ DrainEof(j, p)

FinishStep(j) == FinishStatus(j, TRUE) \/ FinishAudit(j) \/ FinishUnregister(j)

SystemFails(j) == FinishStatus(j, FALSE) \/ \E p \in Stream : DrainReadFails(j, p)

ProgStep(j) ==
    \/ \E p \in Stream, h \in Holder : ProgWrite(j, p, h)
    \/ \E p \in Stream : ProgClosePipe(j, p)
    \/ ProgFork(j)
    \/ \E how \in {"exited", "crashed"} : ProgEnd(j, how)
    \/ DescendantEnd(j)

Next ==
    \/ \E s \in Session : SessionStep(s) \/ CancelStep(s)
    \/ \E j \in Job :
          StartStep(j) \/ DrainStep(j) \/ FinishStep(j) \/ SystemFails(j) \/ ProgStep(j)

Spec == Init /\ [][Next]_vars

\* The runtime polls every ready task: a started request handler runs to its end
\* (start() has no await after admission), and so does a drainer.  The select! is
\* biased towards cancellation, which no stream of output can starve.  Nothing
\* is assumed of the program, of its descendants, of the clients or of failing calls.
FairSpec ==
    /\ Spec
    /\ \A j \in Job :
          /\ WF_vars(StartRegister(j))
          /\ WF_vars(StartLaunch(j))
          /\ WF_vars(DrainCancel(j))
          /\ WF_vars(DrainStep(j))
          /\ WF_vars(FinishStep(j))

-----------------------------------------------------------------------------
(* Properties *)

\* Nothing but a failing read loses output silently: a job that is not failed has in
\* its log every byte it and its descendants wrote to a pipe no read of which failed,
\* also when it was cancelled (engine.rs, run_to_completion: "keeps draining until
\* both pipes hit EOF so no buffered output is lost").
NoSilentLoss ==
    \A j \in Job : \A p \in Stream \ broken[j] :
        status[j] \in {"exited", "killed"} => logged[j][p] = written[j][p]

\* The status tells what happened: "exited" only for a child that ended by itself
\* and was not cancelled, "killed" only with a cause, "failed" exactly on overflow or
\* when waiting for an uncancelled child failed.  Only a failed wait lets a job
\* become terminal before its child is dead, and the drainer never leaves a child
\* behind (engine.rs, the terminal status in run_to_completion; kill_on_drop).
StatusHasCause ==
    \A j \in Job :
        /\ status[j] = "exited" => proc[j] = "exited" /\ ~cancelled[j]
        /\ status[j] = "killed" => proc[j] = "crashed" \/ signal[j]
        /\ status[j] \in TerminalStatus =>
              /\ status[j] = "failed" <=> overflowed[j] \/ (waitFailed[j] /\ ~cancelled[j])
              /\ proc[j] \in Dead \/ waitFailed[j]
        /\ task[j] = "done" => proc[j] \in Dead

\* A running job that start() has registered can be cancelled or has been: at no
\* point of the drainer's life is it running with neither a cancels entry nor a
\* signal under way (engine.rs, start registers before it launches, finish_job
\* unregisters after the status is written).
RunningIsCancellable ==
    \A j \in Job :
        status[j] = "running" /\ stage[j] \in {"registered", "started"}
            => j \in cancels \/ signal[j]

\* The cancels table does not leak: a job whose drainer has returned has no entry,
\* and an entry belongs to a stored job (engine.rs, finish_job).
NoLeakedCancelEntry ==
    \A j \in cancels : Stored(j) /\ task[j] # "done"

\* Positions of the events of one kind about one job in an audit log.
IsAbout(event, kind, j) == event.kind = kind /\ event.job = j

Positions(events, kind, j) == {i \in DOMAIN events : IsAbout(events[i], kind, j)}

\* The audit log of a session is a history of its jobs: each event once, about a
\* job of that session, JobFinished after JobStarted and with the status the job
\* really has (engine.rs, start records before it launches the drainer).
AuditIsHistory ==
    \A s \in Session, j \in Job :
        LET started == Positions(audit[s], "JobStarted", j)
            finished == Positions(audit[s], "JobFinished", j)
        IN /\ \A i, k \in started : i = k
           /\ \A i, k \in finished : i = k
           /\ started \cup finished # {} => owner[j] = s
           /\ \A k \in finished : /\ audit[s][k].status = status[j]
                                  /\ \E i \in started : i < k

\* A cancellation that found the program running kills it, unless the drainer is done
\* with both its pipes first, because they are closed or a read failed (engine.rs,
\* kill_job: "best-effort SIGKILL via the drainer", and the first arm of the drain
\* loop).
CancelledProcessDies ==
    \A j \in Job :
        (signal[j] /\ proc[j] = "running")
            ~> \/ proc[j] # "running"
               \/ \A p \in Stream : writers[j][p] = {} \/ p \in broken[j]

\* Once the child is dead and nobody holds its pipes, the job reaches a terminal
\* status and its drainer returns (engine.rs, run_to_completion and finish_job).
DeadJobFinishes ==
    \A j \in Job :
        (proc[j] \in Dead /\ \A p \in Stream : writers[j][p] = {})
            ~> status[j] \in TerminalStatus /\ task[j] = "done"

\* The same without the exception (engine.rs, cancel: "Returns ok: true if a
\* running job was signalled").
CancelKills ==
    \A j \in Job : (signal[j] /\ proc[j] = "running") ~> proc[j] # "running"

\* Closing a session leaves none of its jobs running unsignalled (engine.rs,
\* cancel_for_session: "Intended to be called by the session-close path BEFORE
\* SessionStore::close removes the session").
CloseLeavesNoLiveJob ==
    [][\A j \in Job :
          owner[j] # NoSession /\ session[owner[j]] = "open" /\ session'[owner[j]] = "closed"
              => status[j] # "running" \/ signal[j]]_vars

-----------------------------------------------------------------------------
(* Refinement *)

Lifecycle == INSTANCE JobLifecycle WITH
    MaxChunk <- DrainBufSize,
    output <- logged,
    cancelled <- {j \in Job : signal[j]}

\* Whatever the interleaving, a job starts once, has its output appended only
\* while it runs, takes one cancellation and changes no more once terminal.
ImplementsLifecycle == Lifecycle!Spec

=============================================================================
