-------------------------- MODULE JobEngine_proofs --------------------------
(***************************************************************************)
(* Theorems about the job engine, for any set of sessions and jobs, any    *)
(* log cap and drain buffer, and any program.                              *)
(*                                                                         *)
(* One inductive invariant carries them.  Control ties the tables of the   *)
(* engine to how far start() and the drainer have come, Cause ties the     *)
(* status to what happened to the child, and Output ties the log to the    *)
(* pipes.                                                                  *)
(***************************************************************************)
EXTENDS JobEngine, TLAPS

\* The status, the cancels table and the cancellation signal of j, by the stage of
\* start() and the position of the drainer.
Control(j) ==
    /\ stage[j] \in {"free", "admitted"} <=> status[j] = "absent"
    /\ stage[j] = "started" <=> task[j] # "none"
    /\ status[j] = "running" <=> \/ stage[j] \in {"inserted", "registered"}
                                 \/ task[j] \in {"drain", "reap"}
    /\ j \in cancels => /\ stage[j] \in {"registered", "started"}
                        /\ ~signal[j]
                        /\ task[j] # "done"
    /\ signal[j] => stage[j] \in {"registered", "started"}
    /\ stage[j] = "registered" \/ task[j] \in {"drain", "reap"} => j \in cancels \/ signal[j]

\* Why the child of j died, and that the status says so.
Cause(j) ==
    /\ status[j] = "absent" <=> proc[j] = "none"
    /\ cancelled[j] => signal[j]
    /\ proc[j] = "sigkilled" => cancelled[j] \/ overflowed[j] \/ waitFailed[j]
    /\ waitFailed[j] => status[j] \in TerminalStatus
    /\ status[j] \in TerminalStatus =>
          /\ proc[j] \in Dead \/ waitFailed[j]
          /\ status[j] = FinalStatus(j, ~waitFailed[j])
    /\ task[j] = "done" => proc[j] \in Dead

\* As long as nothing overflowed, the log holds what was taken from the pipes, and a
\* stream is done only when a read failed or its pipe is empty and closed for ever.
Output(j) ==
    /\ task[j] = "none" => eof[j] = {}
    /\ ~overflowed[j] =>
          /\ \A p \in Stream : logged[j][p] = consumed[j][p]
          /\ \A p \in eof[j] \ broken[j] :
                writers[j][p] = {} /\ consumed[j][p] = written[j][p]
          /\ task[j] \notin {"none", "drain"} => eof[j] = Stream

JobInv == \A j \in Job : Control(j) /\ Cause(j) /\ Output(j)

-----------------------------------------------------------------------------
(* Type correctness *)

\* What an audited event has to be for the audit logs to stay well typed.
LEMMA RecordKeepsType ==
    ASSUME TypeOK, NEW s, NEW event \in AuditEvent, RecordSessionAudit(s, event)
    PROVE  audit' \in [Session -> Seq(AuditEvent)]
  <1>1. audit \in [Session -> Seq(AuditEvent)]
    BY DEF TypeOK
  <1>2. s \in Session => Append(audit[s], event) \in Seq(AuditEvent)
    BY <1>1
  <1>3. s \in Session => [audit EXCEPT ![s] = Append(@, event)] \in [Session -> Seq(AuditEvent)]
    BY <1>1, <1>2
  <1>4. s \notin Session => [audit EXCEPT ![s] = Append(@, event)] = audit
    BY <1>1
  <1> QED
    BY <1>1, <1>3, <1>4 DEF RecordSessionAudit

\* Killing the child leaves the process tables well typed.
LEMMA StartKillKeepsType ==
    ASSUME TypeOK, NEW j \in Job, StartKill(j)
    PROVE  /\ proc' \in [Job -> Proc]
           /\ writers' \in [Job -> [Stream -> SUBSET Holder]]
  <1>1. CASE proc[j] = "running"
    <2> DEFINE left == [p \in Stream |-> writers[j][p] \ {"child"}]
    <2>1. left \in [Stream -> SUBSET Holder]
      BY DEF TypeOK
    <2>2. writers' = [writers EXCEPT ![j] = left] /\ proc' = [proc EXCEPT ![j] = "sigkilled"]
      BY <1>1 DEF StartKill
    <2> HIDE DEF left
    <2> QED
      BY <2>1, <2>2 DEF TypeOK, Proc
  <1>2. CASE proc[j] # "running"
    BY <1>2 DEF TypeOK, StartKill
  <1> QED
    BY <1>1, <1>2

\* The bytes of one stream, bounded by those of both.
LEMMA FitsOneStream ==
    ASSUME TypeOK, NEW j \in Job, NEW p \in Stream, NEW n \in 1..DrainBufSize, Fits(j, n)
    PROVE  logged[j][p] + n \in 0..LogByteCap
  <1>1. logged[j]["stdout"] \in 0..LogByteCap /\ logged[j]["stderr"] \in 0..LogByteCap
    BY DEF TypeOK, Stream
  <1>2. p = "stdout" \/ p = "stderr"
    BY DEF Stream
  <1>3. DrainBufSize \in Nat /\ LogByteCap \in Nat
    BY JobEngineAssumption
  <1> QED
    BY <1>1, <1>2, <1>3 DEF Fits

LEMMA TypeInit == Init => TypeOK
  BY JobEngineAssumption
     DEF Init, TypeOK, Stage, Status, Task, Proc, Stream, Holder, TerminalStatus

LEMMA SessionType ==
    ASSUME TypeOK, NEW s \in Session, SessionStep(s) \/ CancelStep(s)
    PROVE  TypeOK'
  <1>1. CASE OpenSession(s) \/ CloseSession(s)
    <2>1. [kind |-> "SessionOpened"] \in AuditEvent /\ [kind |-> "SessionClosed"] \in AuditEvent
      BY DEF AuditEvent
    <2>2. PICK event \in AuditEvent : audit' = [audit EXCEPT ![s] = Append(@, event)]
      BY <1>1, <2>1 DEF OpenSession, CloseSession
    <2>3. Append(audit[s], event) \in Seq(AuditEvent)
      BY DEF TypeOK
    <2>4. audit' \in [Session -> Seq(AuditEvent)]
      BY <2>2, <2>3 DEF TypeOK
    <2> QED
      BY <1>1, <2>4 DEF OpenSession, CloseSession, TypeOK, tableVars, taskVars, outputVars, osVars
  <1>2. ASSUME NEW j \in Job, Cancel(j, s)
        PROVE  TypeOK'
    BY <1>2 DEF Cancel, KillJob, TypeOK, sessionVars, taskVars, outputVars, osVars
  <1>3. CASE CancelForSession(s)
    BY <1>3 DEF CancelForSession, TypeOK, sessionVars, taskVars, outputVars, osVars
  <1>4. ASSUME NEW j \in Job, SweepJob(s, j)
        PROVE  TypeOK'
    BY <1>4 DEF SweepJob, KillJob, TypeOK, sessionVars, taskVars, outputVars, osVars
  <1> QED
    BY <1>1, <1>2, <1>3, <1>4 DEF SessionStep, CancelStep

LEMMA StartType ==
    ASSUME TypeOK, NEW j \in Job, StartStep(j)
    PROVE  TypeOK'
  <1>1. ASSUME NEW s \in Session, StartAdmit(j, s)
        PROVE  TypeOK'
    BY <1>1 DEF StartAdmit, TypeOK, Stage, sessionVars, taskVars, outputVars, osVars
  <1>2. CASE StartRefuse(j)
    BY <1>2 DEF StartRefuse, TypeOK, Stage, sessionVars, taskVars, outputVars, osVars
  <1>3. CASE StartSpawn(j)
    BY <1>3 DEF StartSpawn, TypeOK, Stage, Status, Proc, Holder, sessionVars, taskVars, outputVars
  <1>4. CASE StartRegister(j)
    BY <1>4 DEF StartRegister, TypeOK, Stage, sessionVars, taskVars, outputVars, osVars
  <1>5. CASE StartLaunch(j)
    <2>1. [kind |-> "JobStarted", job |-> j] \in AuditEvent
      BY DEF AuditEvent
    <2>2. audit' \in [Session -> Seq(AuditEvent)]
      BY <1>5, <2>1, RecordKeepsType DEF StartLaunch
    <2> QED
      BY <1>5, <2>2 DEF StartLaunch, TypeOK, Stage, Task, outputVars, osVars
  <1> QED
    BY <1>1, <1>2, <1>3, <1>4, <1>5 DEF StartStep

LEMMA DrainType ==
    ASSUME TypeOK, NEW j \in Job, DrainStep(j)
    PROVE  TypeOK'
  <1>1. CASE DrainCancel(j)
    <2>1. StartKill(j)
      BY <1>1 DEF DrainCancel
    <2> QED
      BY <1>1, <2>1, StartKillKeepsType
         DEF DrainCancel, TypeOK, sessionVars, tableVars, outputVars
  <1>2. ASSUME NEW p \in Stream, NEW n \in 1..DrainBufSize, DrainRead(j, p, n)
        PROVE  TypeOK'
    <2>1. logged[j][p] + n \in 0..LogByteCap
      BY <1>2, FitsOneStream DEF DrainRead
    <2>2. consumed[j][p] + n \in Nat
      BY <1>2, JobEngineAssumption DEF TypeOK
    <2> QED
      BY <1>2, <2>1, <2>2 DEF DrainRead, TypeOK, sessionVars, tableVars, taskVars, osVars
  <1>3. ASSUME NEW p \in Stream, NEW n \in 1..DrainBufSize, DrainOverflow(j, p, n)
        PROVE  TypeOK'
    <2>1. StartKill(j)
      BY <1>3 DEF DrainOverflow
    <2>2. consumed[j][p] + n \in Nat
      BY <1>3, JobEngineAssumption DEF TypeOK
    <2> QED
      BY <1>3, <2>1, <2>2, StartKillKeepsType
         DEF DrainOverflow, TypeOK, AfterArm, Task, sessionVars, tableVars
  <1>4. ASSUME NEW p \in Stream, DrainEof(j, p)
        PROVE  TypeOK'
    BY <1>4 DEF DrainEof, TypeOK, AfterArm, Task, sessionVars, tableVars, outputVars, osVars
  <1> QED
    BY <1>1, <1>2, <1>3, <1>4 DEF DrainStep

LEMMA FinishStatusType ==
    ASSUME TypeOK, NEW j \in Job, NEW waited \in BOOLEAN, FinishStatus(j, waited)
    PROVE  TypeOK'
  BY DEF FinishStatus, FinalStatus, TypeOK, Status, TerminalStatus, Task,
         sessionVars, tableVars, outputVars, osVars

LEMMA FinishType ==
    ASSUME TypeOK, JobInv, NEW j \in Job, FinishStep(j)
    PROVE  TypeOK'
  <1>1. CASE FinishStatus(j, TRUE)
    BY <1>1, FinishStatusType
  <1>2. CASE FinishAudit(j)
    <2>1. status[j] \in TerminalStatus
      BY <1>2 DEF FinishAudit, TypeOK, Status, Stage, JobInv, Control
    <2>2. [kind |-> "JobFinished", job |-> j, status |-> status[j]] \in AuditEvent
      BY <2>1 DEF AuditEvent
    <2>3. audit' \in [Session -> Seq(AuditEvent)]
      BY <1>2, <2>2, RecordKeepsType DEF FinishAudit
    <2> QED
      BY <1>2, <2>3 DEF FinishAudit, TypeOK, Task, tableVars, outputVars, osVars
  <1>3. CASE FinishUnregister(j)
    <2>1. StartKill(j)
      BY <1>3 DEF FinishUnregister
    <2> QED
      BY <1>3, <2>1, StartKillKeepsType
         DEF FinishUnregister, TypeOK, Task, sessionVars, outputVars
  <1> QED
    BY <1>1, <1>2, <1>3 DEF FinishStep

LEMMA SystemType ==
    ASSUME TypeOK, NEW j \in Job, SystemFails(j)
    PROVE  TypeOK'
  <1>1. CASE FinishStatus(j, FALSE)
    BY <1>1, FinishStatusType
  <1>2. ASSUME NEW p \in Stream, DrainReadFails(j, p)
        PROVE  TypeOK'
    BY <1>2 DEF DrainReadFails, TypeOK, AfterArm, Task, sessionVars, tableVars, outputVars, osVars
  <1> QED
    BY <1>1, <1>2 DEF SystemFails

LEMMA ProgType ==
    ASSUME TypeOK, NEW j \in Job, ProgStep(j)
    PROVE  TypeOK'
  <1>1. ASSUME NEW p \in Stream, NEW h \in Holder, ProgWrite(j, p, h)
        PROVE  TypeOK'
    <2>1. written[j][p] + 1 \in 0..MaxWritten
      BY <1>1, JobEngineAssumption DEF ProgWrite, TypeOK
    <2> QED
      BY <1>1, <2>1 DEF ProgWrite, TypeOK, sessionVars, tableVars, taskVars, outputVars
  <1>2. ASSUME NEW p \in Stream, ProgClosePipe(j, p)
        PROVE  TypeOK'
    BY <1>2 DEF ProgClosePipe, TypeOK, sessionVars, tableVars, taskVars, outputVars
  <1>3. CASE ProgFork(j)
    BY <1>3 DEF ProgFork, TypeOK, sessionVars, tableVars, taskVars, outputVars
  <1>4. ASSUME NEW how \in {"exited", "crashed"}, ProgEnd(j, how)
        PROVE  TypeOK'
    BY <1>4 DEF ProgEnd, TypeOK, Proc, sessionVars, tableVars, taskVars, outputVars
  <1>5. CASE DescendantEnd(j)
    BY <1>5 DEF DescendantEnd, TypeOK, sessionVars, tableVars, taskVars, outputVars
  <1> QED
    BY <1>1, <1>2, <1>3, <1>4, <1>5 DEF ProgStep

LEMMA TypeStep == TypeOK /\ JobInv /\ [Next]_vars => TypeOK'
  <1>1. CASE UNCHANGED vars
    BY <1>1 DEF vars, sessionVars, tableVars, taskVars, outputVars, osVars, TypeOK
  <1> QED
    BY <1>1, SessionType, StartType, DrainType, FinishType, SystemType, ProgType DEF Next

-----------------------------------------------------------------------------
(* The invariant *)

\* Nothing JobInv speaks of changes for job k.
Untouched(k) ==
    /\ stage'[k] = stage[k] /\ status'[k] = status[k] /\ task'[k] = task[k]
    /\ k \in cancels' <=> k \in cancels
    /\ signal'[k] = signal[k]
    /\ cancelled'[k] = cancelled[k] /\ overflowed'[k] = overflowed[k] /\ eof'[k] = eof[k]
    /\ broken'[k] = broken[k] /\ waitFailed'[k] = waitFailed[k]
    /\ logged'[k] = logged[k] /\ consumed'[k] = consumed[k]
    /\ proc'[k] = proc[k] /\ writers'[k] = writers[k] /\ written'[k] = written[k]

JobInvOf(k) == Control(k) /\ Cause(k) /\ Output(k)

LEMMA UntouchedKeeps ==
    ASSUME NEW k \in Job, JobInvOf(k), Untouched(k)
    PROVE  JobInvOf(k)'
  <1>1. Control(k)'
    BY DEF JobInvOf, Untouched, Control
  <1>2. Cause(k)'
    BY DEF JobInvOf, Untouched, Cause, FinalStatus
  <1>3. Output(k)'
    BY DEF JobInvOf, Untouched, Output
  <1> QED
    BY <1>1, <1>2, <1>3 DEF JobInvOf

\* A step of one job leaves the others alone.
LEMMA OthersUntouched ==
    ASSUME TypeOK, NEW j \in Job, NEW k \in Job, k # j,
           StartStep(j) \/ DrainStep(j) \/ FinishStep(j) \/ SystemFails(j) \/ ProgStep(j)
    PROVE  Untouched(k)
  <1> USE DEF TypeOK
  <1>1. CASE StartStep(j)
    BY <1>1 DEF StartStep, StartAdmit, StartRefuse, StartSpawn, StartRegister, StartLaunch,
                Untouched, sessionVars, taskVars, outputVars, osVars
  <1>2. CASE DrainCancel(j)
    BY <1>2 DEF DrainCancel, StartKill, Untouched, tableVars, outputVars
  <1>3. ASSUME NEW p \in Stream, NEW n \in 1..DrainBufSize,
               DrainRead(j, p, n) \/ DrainOverflow(j, p, n)
        PROVE  Untouched(k)
    BY <1>3 DEF DrainRead, DrainOverflow, StartKill, Untouched, tableVars, taskVars, osVars
  <1>4. ASSUME NEW p \in Stream, DrainEof(j, p) \/ DrainReadFails(j, p)
        PROVE  Untouched(k)
    BY <1>4 DEF DrainEof, DrainReadFails, Untouched, tableVars, outputVars, osVars
  <1>5. CASE FinishStep(j) \/ FinishStatus(j, FALSE)
    <2>1. ASSUME NEW waited \in BOOLEAN, FinishStatus(j, waited)
          PROVE  Untouched(k)
      BY <2>1 DEF FinishStatus, Untouched, tableVars, outputVars, osVars
    <2>2. CASE FinishAudit(j)
      BY <2>2 DEF FinishAudit, Untouched, tableVars, outputVars, osVars
    <2>3. CASE FinishUnregister(j)
      BY <2>3 DEF FinishUnregister, StartKill, Untouched, outputVars
    <2> HIDE DEF TypeOK
    <2> QED
      BY <1>5, <2>1, <2>2, <2>3 DEF FinishStep
  <1>6. CASE ProgStep(j)
    BY <1>6 DEF ProgStep, ProgWrite, ProgClosePipe, ProgFork, ProgEnd, DescendantEnd, Untouched,
                tableVars, taskVars, outputVars
  <1>7. CASE DrainStep(j)
    BY <1>2, <1>3, <1>4, <1>7, Zenon DEF DrainStep
  <1>8. CASE SystemFails(j)
    BY <1>4, <1>5, <1>8, Zenon DEF SystemFails
  <1> HIDE DEF TypeOK
  <1> QED
    BY <1>1, <1>5, <1>6, <1>7, <1>8

\* Sessions and cancellations: an entry taken becomes a signal, in one step.
LEMMA CancelKeeps ==
    ASSUME TypeOK, NEW s \in Session, SessionStep(s) \/ CancelStep(s),
           NEW k \in Job, JobInvOf(k)
    PROVE  JobInvOf(k)'
  <1>1. CASE Untouched(k)
    BY <1>1, UntouchedKeeps
  <1>2. ASSUME NEW j \in Job, KillJob(j),
               UNCHANGED <<stage, status, taskVars, outputVars, osVars>>
        PROVE  JobInvOf(k)'
    <2>1. CASE j = k
      <3>1. k \in cancels /\ k \notin cancels' /\ signal'[k]
        BY <1>2, <2>1 DEF KillJob, TypeOK
      <3>2. Control(k)'
        BY <1>2, <3>1 DEF JobInvOf, Control, taskVars
      <3>3. Cause(k)'
        BY <1>2, <3>1 DEF JobInvOf, Cause, FinalStatus, taskVars, osVars
      <3>4. Output(k)'
        BY <1>2 DEF JobInvOf, Output, taskVars, outputVars, osVars
      <3> QED
        BY <3>2, <3>3, <3>4 DEF JobInvOf
    <2>2. CASE j # k
      BY <1>1, <1>2, <2>2 DEF KillJob, Untouched, TypeOK, taskVars, outputVars, osVars
    <2> QED
      BY <2>1, <2>2
  <1>3. CASE SessionStep(s) \/ CancelForSession(s)
    BY <1>1, <1>3 DEF SessionStep, OpenSession, CloseSession, CancelForSession, Untouched,
                      tableVars, taskVars, outputVars, osVars
  <1>4. ASSUME NEW j \in Job, Cancel(j, s) \/ SweepJob(s, j)
        PROVE  JobInvOf(k)'
    BY <1>1, <1>2, <1>4 DEF Cancel, SweepJob, Untouched, taskVars, outputVars, osVars
  <1> QED
    BY <1>3, <1>4 DEF CancelStep

LEMMA StartKeeps ==
    ASSUME TypeOK, NEW j \in Job, StartStep(j), JobInvOf(j)
    PROVE  JobInvOf(j)'
  <1>1. Control(j)'
    BY DEF StartStep, StartAdmit, StartRefuse, StartSpawn, StartRegister, StartLaunch, JobInvOf,
           Control, TypeOK, Task, taskVars
  <1>2. Cause(j)'
    BY DEF StartStep, StartAdmit, StartRefuse, StartSpawn, StartRegister, StartLaunch, JobInvOf,
           Control, Cause, FinalStatus, TypeOK, TerminalStatus, Dead, taskVars, osVars
  <1>3. Output(j)'
    <2>1. CASE StartSpawn(j)
      <3>1. task[j] = "none"
        BY <2>1 DEF StartSpawn, JobInvOf, Control, TypeOK
      <3>2. eof[j] = {}
        BY <3>1 DEF JobInvOf, Output
      <3> QED
        BY <2>1, <3>1, <3>2 DEF StartSpawn, JobInvOf, Output, taskVars, outputVars
    <2>2. CASE ~StartSpawn(j)
      BY <2>2 DEF StartStep, StartAdmit, StartRefuse, StartRegister, StartLaunch, JobInvOf,
                  Output, TypeOK, taskVars, outputVars, osVars
    <2> QED
      BY <2>1, <2>2
  <1> QED
    BY <1>1, <1>2, <1>3 DEF JobInvOf

\* The drainer is done with stream p of job j.
DoneWith(j, p) ==
    /\ eof'[j] = eof[j] \cup {p}
    /\ task'[j] = AfterArm(eof[j] \cup {p})
    /\ UNCHANGED <<tableVars, status, cancelled, overflowed, waitFailed, outputVars, osVars>>

LEMMA DoneWithKeeps ==
    ASSUME TypeOK, NEW j \in Job, NEW p \in Stream, JobInvOf(j), Reading(j, p), DoneWith(j, p),
           broken[j] \subseteq broken'[j],
           p \in broken'[j] \/ (writers[j][p] = {} /\ consumed[j][p] = written[j][p])
    PROVE  JobInvOf(j)'
  <1>1. task[j] = "drain" /\ task'[j] \in {"drain", "reap"}
    BY DEF Reading, DoneWith, AfterArm
  <1>2. Control(j)'
    BY <1>1 DEF DoneWith, JobInvOf, Control, tableVars
  <1>3. Cause(j)'
    BY <1>1 DEF DoneWith, JobInvOf, Cause, FinalStatus, tableVars, osVars
  <1>4. Output(j)'
    BY <1>1 DEF DoneWith, JobInvOf, Output, AfterArm, outputVars, osVars
  <1> QED
    BY <1>2, <1>3, <1>4 DEF JobInvOf

LEMMA DrainKeeps ==
    ASSUME TypeOK, NEW j \in Job, DrainStep(j), JobInvOf(j)
    PROVE  JobInvOf(j)'
  <1>1. CASE DrainCancel(j)
    <2>1. /\ task[j] = "drain" /\ signal[j] /\ cancelled'[j]
          /\ UNCHANGED <<tableVars, status, task, overflowed, eof, broken, waitFailed, outputVars,
                         written>>
          /\ \/ proc[j] = "running" /\ proc'[j] = "sigkilled"
             \/ proc[j] # "running" /\ proc'[j] = proc[j]
          /\ \A p \in Stream : writers[j][p] = {} => writers'[j][p] = {}
      BY <1>1 DEF DrainCancel, StartKill, TypeOK
    <2>2. Control(j)'
      BY <2>1 DEF JobInvOf, Control, tableVars
    <2>3. status[j] = "running"
      BY <2>1 DEF JobInvOf, Control
    <2>4. Cause(j)'
      BY <2>1, <2>3 DEF JobInvOf, Cause, TerminalStatus, tableVars
    <2>5. Output(j)'
      BY <2>1 DEF JobInvOf, Output, TypeOK, outputVars
    <2> QED
      BY <2>2, <2>4, <2>5 DEF JobInvOf
  <1>2. ASSUME NEW p \in Stream, NEW n \in 1..DrainBufSize, DrainRead(j, p, n)
        PROVE  JobInvOf(j)'
    <2>1. Control(j)'
      BY <1>2 DEF DrainRead, JobInvOf, Control, tableVars, taskVars
    <2>2. Cause(j)'
      BY <1>2 DEF DrainRead, JobInvOf, Cause, FinalStatus, tableVars, taskVars, osVars
    <2>3. \A q \in Stream : logged[j][q] = consumed[j][q] => logged'[j][q] = consumed'[j][q]
      BY <1>2 DEF DrainRead, TypeOK
    <2>4. \A q \in eof[j] : consumed'[j][q] = consumed[j][q]
      BY <1>2 DEF DrainRead, Reading, TypeOK
    <2>5. Output(j)'
      BY <1>2, <2>3, <2>4 DEF DrainRead, JobInvOf, Output, TypeOK, taskVars, osVars
    <2> QED
      BY <2>1, <2>2, <2>5 DEF JobInvOf
  <1>3. ASSUME NEW p \in Stream, NEW n \in 1..DrainBufSize, DrainOverflow(j, p, n)
        PROVE  JobInvOf(j)'
    <2>1. /\ task[j] = "drain" /\ overflowed'[j] /\ task'[j] = "reap"
          /\ UNCHANGED <<tableVars, status, cancelled, waitFailed>>
          /\ \/ proc[j] = "running" /\ proc'[j] = "sigkilled"
             \/ proc[j] # "running" /\ proc'[j] = proc[j]
      BY <1>3 DEF DrainOverflow, Reading, AfterArm, StartKill, TypeOK
    <2>2. Control(j)'
      BY <2>1 DEF JobInvOf, Control, tableVars
    <2>3. status[j] = "running"
      BY <2>1 DEF JobInvOf, Control
    <2>4. Cause(j)'
      BY <2>1, <2>3 DEF JobInvOf, Cause, TerminalStatus, tableVars
    <2> QED
      BY <2>1, <2>2, <2>4 DEF JobInvOf, Output
  <1>4. ASSUME NEW p \in Stream, DrainEof(j, p)
        PROVE  JobInvOf(j)'
    <2>1. /\ Reading(j, p) /\ DoneWith(j, p)
          /\ Unread(j, p) = 0 /\ writers[j][p] = {} /\ broken' = broken
      BY <1>4 DEF DrainEof, DoneWith, TypeOK
    <2>2. consumed[j][p] = written[j][p]
      BY <2>1 DEF Unread, TypeOK
    <2> QED
      BY <2>1, <2>2, DoneWithKeeps
  <1> QED
    BY <1>1, <1>2, <1>3, <1>4 DEF DrainStep

LEMMA FinishStatusKeeps ==
    ASSUME TypeOK, NEW j \in Job, NEW waited \in BOOLEAN, FinishStatus(j, waited), JobInvOf(j)
    PROVE  JobInvOf(j)'
  <1>1. /\ task[j] = "reap" /\ task'[j] = "audit"
        /\ waitFailed'[j] = ~waited
        /\ waited => proc[j] \in Dead
        /\ status'[j] = FinalStatus(j, waited) /\ status'[j] \in TerminalStatus
        /\ UNCHANGED <<tableVars, cancelled, overflowed, eof, broken, outputVars, osVars>>
    BY DEF FinishStatus, FinalStatus, TypeOK, TerminalStatus
  <1>2. Control(j)'
    BY <1>1 DEF JobInvOf, Control, TerminalStatus, tableVars
  <1>3. ~waitFailed[j]
    BY <1>1 DEF JobInvOf, Control, Cause, TerminalStatus
  <1>4. FinalStatus(j, ~waitFailed[j])' = FinalStatus(j, waited) /\ status'[j] # "absent"
    BY <1>1 DEF FinalStatus, TerminalStatus, osVars
  <1>5. Cause(j)'
    BY <1>1, <1>3, <1>4 DEF JobInvOf, Control, Cause, tableVars, osVars
  <1>6. Output(j)'
    BY <1>1 DEF JobInvOf, Output, outputVars, osVars
  <1> QED
    BY <1>2, <1>5, <1>6 DEF JobInvOf

LEMMA FinishKeeps ==
    ASSUME TypeOK, NEW j \in Job, FinishStep(j), JobInvOf(j)
    PROVE  JobInvOf(j)'
  <1>1. CASE FinishStatus(j, TRUE)
    BY <1>1, FinishStatusKeeps
  <1>2. CASE FinishAudit(j)
    <2>1. Control(j)'
      BY <1>2 DEF FinishAudit, JobInvOf, Control, TypeOK, tableVars
    <2>2. Cause(j)'
      BY <1>2 DEF FinishAudit, JobInvOf, Cause, FinalStatus, TypeOK, tableVars, osVars
    <2>3. Output(j)'
      BY <1>2 DEF FinishAudit, JobInvOf, Output, TypeOK, outputVars, osVars
    <2> QED
      BY <2>1, <2>2, <2>3 DEF JobInvOf
  <1>3. CASE FinishUnregister(j)
    <2>1. /\ task[j] = "unregister" /\ task'[j] = "done"
          /\ \/ proc[j] = "running" /\ proc'[j] = "sigkilled"
             \/ proc[j] # "running" /\ proc'[j] = proc[j]
          /\ \A p \in Stream : writers[j][p] = {} => writers'[j][p] = {}
          /\ UNCHANGED <<stage, signal, status, cancelled, overflowed, eof, broken, waitFailed,
                         outputVars, written>>
      BY <1>3 DEF FinishUnregister, StartKill, TypeOK
    <2>2. Control(j)'
      BY <1>3, <2>1 DEF FinishUnregister, JobInvOf, Control, TypeOK
    <2>3. status[j] \in TerminalStatus /\ proc[j] \in Proc
      BY <2>1 DEF JobInvOf, Control, TypeOK, Status, Stage
    <2>4. proc[j] \in Dead \cup {"running"} /\ proc'[j] \in Dead
      BY <2>1, <2>3 DEF JobInvOf, Cause, Proc, Dead, TerminalStatus
    <2>5. Cause(j)'
      BY <2>1, <2>3, <2>4 DEF JobInvOf, Cause, FinalStatus, Dead, TerminalStatus
    <2>6. Output(j)'
      BY <2>1 DEF JobInvOf, Output, TypeOK, outputVars
    <2> QED
      BY <2>2, <2>5, <2>6 DEF JobInvOf
  <1> QED
    BY <1>1, <1>2, <1>3 DEF FinishStep

LEMMA SystemFailsKeeps ==
    ASSUME TypeOK, NEW j \in Job, SystemFails(j), JobInvOf(j)
    PROVE  JobInvOf(j)'
  <1>1. CASE FinishStatus(j, FALSE)
    BY <1>1, FinishStatusKeeps
  <1>2. ASSUME NEW p \in Stream, DrainReadFails(j, p)
        PROVE  JobInvOf(j)'
    <2>1. /\ Reading(j, p) /\ DoneWith(j, p)
          /\ broken'[j] = broken[j] \cup {p}
      BY <1>2 DEF DrainReadFails, DoneWith, TypeOK
    <2> QED
      BY <2>1, DoneWithKeeps
  <1> QED
    BY <1>1, <1>2 DEF SystemFails

LEMMA ProgKeeps ==
    ASSUME TypeOK, NEW j \in Job, ProgStep(j), JobInvOf(j)
    PROVE  JobInvOf(j)'
  <1>1. UNCHANGED <<tableVars, status, taskVars, outputVars>>
    BY DEF ProgStep, ProgWrite, ProgClosePipe, ProgFork, ProgEnd, DescendantEnd
  <1>2. Control(j)'
    BY <1>1 DEF JobInvOf, Control, tableVars, taskVars
  <1>3. proc'[j] = proc[j] \/ (proc[j] = "running" /\ proc'[j] \in {"exited", "crashed"})
    BY DEF ProgStep, ProgWrite, ProgClosePipe, ProgFork, ProgEnd, DescendantEnd, TypeOK
  <1>4. Cause(j)'
    BY <1>1, <1>3 DEF JobInvOf, Cause, FinalStatus, Dead, tableVars, taskVars
  <1>5. \A p \in Stream : writers[j][p] = {} => writers'[j][p] = {} /\ written'[j][p] = written[j][p]
    BY DEF ProgStep, ProgWrite, ProgClosePipe, ProgFork, ProgEnd, DescendantEnd, TypeOK
  <1>6. Output(j)'
    BY <1>1, <1>5 DEF JobInvOf, Output, TypeOK, taskVars, outputVars
  <1> QED
    BY <1>2, <1>4, <1>6 DEF JobInvOf

LEMMA JobInvStep == TypeOK /\ JobInv /\ [Next]_vars => JobInv'
  <1> SUFFICES ASSUME TypeOK, JobInv, [Next]_vars, NEW k \in Job
               PROVE  JobInvOf(k)'
    BY DEF JobInv, JobInvOf
  <1>1. JobInvOf(k)
    BY DEF JobInv, JobInvOf
  <1>2. CASE UNCHANGED vars
    BY <1>1, <1>2, UntouchedKeeps
       DEF Untouched, vars, tableVars, taskVars, outputVars, osVars
  <1>3. ASSUME NEW s \in Session, SessionStep(s) \/ CancelStep(s)
        PROVE  JobInvOf(k)'
    BY <1>1, <1>3, CancelKeeps
  <1>4. ASSUME NEW j \in Job,
               StartStep(j) \/ DrainStep(j) \/ FinishStep(j) \/ SystemFails(j) \/ ProgStep(j)
        PROVE  JobInvOf(k)'
    <2>1. CASE j = k
      BY <1>1, <1>4, <2>1, StartKeeps, DrainKeeps, FinishKeeps, SystemFailsKeeps, ProgKeeps
    <2>2. CASE j # k
      BY <1>1, <1>4, <2>2, OthersUntouched, UntouchedKeeps
    <2> QED
      BY <2>1, <2>2
  <1> QED
    BY <1>2, <1>3, <1>4 DEF Next

LEMMA EngineInvariant == Spec => [](TypeOK /\ JobInv)
  <1>1. Init => JobInv
    BY DEF Init, JobInv, Control, Cause, Output, TerminalStatus
  <1> QED
    BY TypeInit, TypeStep, <1>1, JobInvStep, PTL DEF Spec

-----------------------------------------------------------------------------
(* Theorems *)

\* Type correctness: among the rest, the log of a job never exceeds its cap and
\* the audit log holds nothing but the events of session.rs and engine.rs.
THEOREM TypeCorrect == Spec => []TypeOK
  BY EngineInvariant, PTL

\* A registered running job always has its cancels entry or its signal: at no
\* point between start() and finish_job can a cancellation get lost.
THEOREM RunningJobsAreCancellable == Spec => []RunningIsCancellable
  <1>1. JobInv => RunningIsCancellable
    BY DEF JobInv, Control, RunningIsCancellable
  <1> QED
    BY EngineInvariant, <1>1, PTL

\* Every entry of the cancels table belongs to a stored job whose drainer has
\* not returned.
THEOREM CancelEntriesDoNotLeak == Spec => []NoLeakedCancelEntry
  <1>1. TypeOK /\ JobInv => NoLeakedCancelEntry
    BY DEF TypeOK, JobInv, Control, NoLeakedCancelEntry, Stored
  <1> QED
    BY EngineInvariant, <1>1, PTL

\* The terminal status tells what happened to the child, for every interleaving
\* of cancellation, overflow, exit and failing calls.
THEOREM StatusTellsTheCause == Spec => []StatusHasCause
  <1>1. TypeOK /\ JobInv => StatusHasCause
    BY DEF TypeOK, JobInv, Cause, FinalStatus, StatusHasCause, Dead, TerminalStatus
  <1> QED
    BY EngineInvariant, <1>1, PTL

\* A job that did not fail has in its log every byte written to a pipe that could be
\* read to its end.
THEOREM OutputIsNotLost == Spec => []NoSilentLoss
  <1>1. TypeOK /\ JobInv => NoSilentLoss
    <2> SUFFICES ASSUME TypeOK, JobInv, NEW j \in Job, NEW p \in Stream \ broken[j],
                        status[j] \in {"exited", "killed"}
                 PROVE  logged[j][p] = written[j][p]
      BY DEF NoSilentLoss
    <2>1. ~overflowed[j]
      BY DEF JobInv, Cause, FinalStatus, TerminalStatus
    <2>2. task[j] \notin {"none", "drain"}
      BY DEF JobInv, Control, TypeOK, Stage
    <2> QED
      BY <2>1, <2>2 DEF JobInv, Output
  <1> QED
    BY EngineInvariant, <1>1, PTL

-----------------------------------------------------------------------------
(* The audit log *)

\* An admitted job belongs to a session that was opened.
OwnedInv ==
    \A j \in Job :
        stage[j] # "free" => owner[j] \in Session /\ session[owner[j]] # "unopened"

\* What the audit log of s says of j, and how far j has come when it says so.
Audited(s, j) ==
    LET started == Positions(audit[s], "JobStarted", j)
        finished == Positions(audit[s], "JobFinished", j)
    IN /\ \A i, k \in started : i = k
       /\ \A i, k \in finished : i = k
       /\ started # {} => owner[j] = s /\ stage[j] = "started"
       /\ finished # {} => task[j] \in {"unregister", "done"}
       /\ \A k \in finished : audit[s][k].status = status[j] /\ \E i \in started : i < k
       /\ owner[j] = s /\ stage[j] = "started" /\ session[s] = "open" => started # {}

AuditInv == \A s \in Session, j \in Job : Audited(s, j)

LEMMA OwnedInvStep == TypeOK /\ OwnedInv /\ [Next]_vars => OwnedInv'
  <1> SUFFICES ASSUME TypeOK, OwnedInv, [Next]_vars
               PROVE  OwnedInv'
    OBVIOUS
  <1> USE DEF TypeOK, OwnedInv
  <1>1. ASSUME NEW s \in Session, SessionStep(s) \/ CancelStep(s)
        PROVE  OwnedInv'
    BY <1>1 DEF SessionStep, OpenSession, CloseSession, CancelStep, Cancel, CancelForSession,
                SweepJob, sessionVars, tableVars
  <1>2. ASSUME NEW j \in Job, StartStep(j)
        PROVE  OwnedInv'
    <2>1. CASE \E s \in Session : StartAdmit(j, s)
      <3>1. PICK s \in Session : StartAdmit(j, s)
        BY <2>1
      <3>2. /\ session[s] = "open" /\ UNCHANGED session
            /\ stage' = [stage EXCEPT ![j] = "admitted"] /\ owner' = [owner EXCEPT ![j] = s]
        BY <3>1 DEF StartAdmit, sessionVars
      <3>3. ASSUME NEW k \in Job, stage'[k] # "free"
            PROVE  owner'[k] \in Session /\ session'[owner'[k]] # "unopened"
        BY <3>2, <3>3
      <3> QED
        BY <3>3
    <2>2. CASE ~\E s \in Session : StartAdmit(j, s)
      BY <1>2, <2>2 DEF StartStep, StartRefuse, StartSpawn, StartRegister, StartLaunch,
                        sessionVars
    <2> QED
      BY <2>1, <2>2
  <1>3. ASSUME NEW j \in Job, DrainStep(j)
        PROVE  OwnedInv'
    BY <1>3 DEF DrainStep, DrainCancel, DrainRead, DrainOverflow, DrainEof, sessionVars, tableVars
  <1>4. ASSUME NEW j \in Job, FinishStep(j) \/ SystemFails(j)
        PROVE  OwnedInv'
    BY <1>4 DEF FinishStep, SystemFails, FinishStatus, FinishAudit, FinishUnregister,
                DrainReadFails, sessionVars, tableVars
  <1>5. ASSUME NEW j \in Job, ProgStep(j)
        PROVE  OwnedInv'
    BY <1>5 DEF ProgStep, ProgWrite, ProgClosePipe, ProgFork, ProgEnd, DescendantEnd,
                sessionVars, tableVars
  <1>6. CASE UNCHANGED vars
    BY <1>6 DEF vars, sessionVars, tableVars
  <1> QED
    BY <1>1, <1>2, <1>3, <1>4, <1>5, <1>6 DEF Next

IsAppend(longer, events, event) == longer = Append(events, event)

\* An append keeps what was there and puts the event behind it.
LEMMA AppendKeeps ==
    ASSUME NEW events \in Seq(AuditEvent), NEW event \in AuditEvent,
           NEW longer, IsAppend(longer, events, event)
    PROVE  /\ \A k \in 1..Len(events) : longer[k] = events[k] /\ k < Len(events) + 1
           /\ longer[Len(events) + 1] = event
  BY DEF IsAppend

\* An appended event adds its own position to those of its kind and job.
LEMMA PositionsAppend ==
    ASSUME NEW events \in Seq(AuditEvent), NEW event \in AuditEvent, NEW kind, NEW j,
           NEW longer, IsAppend(longer, events, event)
    PROVE  /\ IsAbout(event, kind, j) =>
                 Positions(longer, kind, j) = Positions(events, kind, j) \cup {Len(events) + 1}
           /\ ~IsAbout(event, kind, j) => Positions(longer, kind, j) = Positions(events, kind, j)
           /\ \A k \in Positions(events, kind, j) : k \in 1..Len(events)
  <1>1. /\ DOMAIN longer = 1..(Len(events) + 1) /\ DOMAIN events = 1..Len(events)
        /\ Len(events) \in Nat
        /\ longer[Len(events) + 1] = event
        /\ \A k \in 1..Len(events) : longer[k] = events[k]
    BY DEF IsAppend
  <1>2. 1..(Len(events) + 1) = (1..Len(events)) \cup {Len(events) + 1}
    BY <1>1
  <1>3. \A k \in Positions(events, kind, j) : k \in 1..Len(events)
    BY <1>1 DEF Positions
  <1>4. Len(events) + 1 \notin 1..Len(events)
    BY <1>1
  <1>5. ASSUME IsAbout(event, kind, j)
        PROVE  Positions(longer, kind, j) = Positions(events, kind, j) \cup {Len(events) + 1}
    BY <1>1, <1>2, <1>5 DEF Positions
  <1>6. ASSUME ~IsAbout(event, kind, j)
        PROVE  Positions(longer, kind, j) = Positions(events, kind, j)
    BY <1>1, <1>2, <1>6 DEF Positions
  <1> QED
    BY <1>1, <1>3, <1>5, <1>6

\* A step that adds nothing about j to the log of s.
LEMMA AuditedKept ==
    ASSUME NEW s \in Session, NEW j \in Job, Audited(s, j),
           Positions(audit'[s], "JobStarted", j) = Positions(audit[s], "JobStarted", j),
           Positions(audit'[s], "JobFinished", j) = Positions(audit[s], "JobFinished", j),
           \A k \in Positions(audit[s], "JobFinished", j) : audit'[s][k] = audit[s][k],
           owner'[j] = owner[j] \/ (stage[j] # "started" /\ stage'[j] # "started"),
           stage'[j] = stage[j] \/ (stage[j] # "started" /\ stage'[j] # "started"),
           status'[j] = status[j] \/ task[j] \notin {"unregister", "done"},
           task'[j] = task[j] \/ task[j] \notin {"unregister", "done"} \/ task'[j] = "done",
           owner[j] = s /\ stage[j] = "started" =>
               session'[s] = session[s] \/ session'[s] # "open"
    PROVE  Audited(s, j)'
  BY DEF Audited

\* Opening and closing a session add an event about no job.
LEMMA SessionAudited ==
    ASSUME TypeOK, OwnedInv, NEW t \in Session, SessionStep(t),
           NEW s \in Session, NEW j \in Job, Audited(s, j)
    PROVE  Audited(s, j)'
  <1>1. PICK event \in AuditEvent :
            /\ audit' = [audit EXCEPT ![t] = Append(@, event)]
            /\ event.kind \notin {"JobStarted", "JobFinished"}
    BY DEF SessionStep, OpenSession, CloseSession, AuditEvent
  <1>2. /\ UNCHANGED <<stage, owner, task, status>>
        /\ owner[j] = s /\ stage[j] = "started" =>
              session'[s] = session[s] \/ session'[s] # "open"
    BY DEF SessionStep, OpenSession, CloseSession, OwnedInv, TypeOK, tableVars, taskVars
  <1>3. audit[s] \in Seq(AuditEvent) /\ audit \in [Session -> Seq(AuditEvent)]
    BY DEF TypeOK
  <1>4. /\ Positions(audit'[s], "JobStarted", j) = Positions(audit[s], "JobStarted", j)
        /\ Positions(audit'[s], "JobFinished", j) = Positions(audit[s], "JobFinished", j)
        /\ \A k \in Positions(audit[s], "JobFinished", j) : audit'[s][k] = audit[s][k]
    <2>1. CASE s = t
      <3>1. IsAppend(audit'[s], audit[s], event)
        BY <1>1, <1>3, <2>1 DEF IsAppend
      <3>2. ~IsAbout(event, "JobStarted", j) /\ ~IsAbout(event, "JobFinished", j)
        BY <1>1 DEF IsAbout
      <3>3. \A kind \in {"JobStarted", "JobFinished"} :
               /\ Positions(audit'[s], kind, j) = Positions(audit[s], kind, j)
               /\ Positions(audit[s], kind, j) \subseteq 1..Len(audit[s])
        BY <1>3, <3>1, <3>2, PositionsAppend
      <3>4. \A k \in 1..Len(audit[s]) : audit'[s][k] = audit[s][k]
        BY <1>3, <3>1, AppendKeeps
      <3> QED
        BY <3>3, <3>4
    <2>2. CASE s # t
      BY <1>1, <1>3, <2>2
    <2> QED
      BY <2>1, <2>2
  <1> QED
    BY <1>2, <1>4, AuditedKept

\* Recording an event about job i in the log of i's session.
LEMMA RecordAudited ==
    ASSUME TypeOK, NEW i \in Job, NEW event \in AuditEvent, event.job = i,
           owner[i] \in Session, RecordSessionAudit(owner[i], event),
           NEW s \in Session, NEW j \in Job
    PROVE  IF j = i /\ s = owner[i] /\ session[s] = "open"
           THEN IsAppend(audit'[s], audit[s], event)
           ELSE \A kind \in {"JobStarted", "JobFinished"} :
                   /\ Positions(audit'[s], kind, j) = Positions(audit[s], kind, j)
                   /\ \A k \in Positions(audit[s], kind, j) : audit'[s][k] = audit[s][k]
  <1>1. audit[s] \in Seq(AuditEvent) /\ audit \in [Session -> Seq(AuditEvent)]
    BY DEF TypeOK
  <1>2. CASE s = owner[i] /\ session[s] = "open"
    <2>1. IsAppend(audit'[s], audit[s], event)
      BY <1>1, <1>2 DEF RecordSessionAudit, IsAppend
    <2>2. CASE j = i
      BY <1>2, <2>1, <2>2, Zenon
    <2>3. CASE j # i
      <3>0. \A kind : ~IsAbout(event, kind, j)
        BY <2>3 DEF IsAbout
      <3>1. \A kind : /\ Positions(audit'[s], kind, j) = Positions(audit[s], kind, j)
                       /\ Positions(audit[s], kind, j) \subseteq 1..Len(audit[s])
        BY <1>1, <2>1, <3>0, PositionsAppend
      <3>2. \A k \in 1..Len(audit[s]) : audit'[s][k] = audit[s][k]
        BY <1>1, <2>1, AppendKeeps
      <3> QED
        BY <2>3, <3>1, <3>2
    <2> QED
      BY <2>2, <2>3
  <1>3. CASE ~(s = owner[i] /\ session[s] = "open")
    <2>1. audit'[s] = audit[s]
      BY <1>1, <1>3 DEF RecordSessionAudit
    <2> QED
      BY <1>3, <2>1
  <1> QED
    BY <1>2, <1>3

LEMMA LaunchAudited ==
    ASSUME TypeOK, JobInv, OwnedInv, NEW i \in Job, StartLaunch(i),
           NEW s \in Session, NEW j \in Job, Audited(s, j)
    PROVE  Audited(s, j)'
  <1> DEFINE event == [kind |-> "JobStarted", job |-> i]
  <1>1. /\ owner[i] \in Session /\ stage[i] = "registered" /\ task[i] = "none"
        /\ stage' = [stage EXCEPT ![i] = "started"] /\ task' = [task EXCEPT ![i] = "drain"]
        /\ UNCHANGED <<session, owner, status>>
        /\ RecordSessionAudit(owner[i], event)
    BY DEF StartLaunch, OwnedInv, JobInv, Control
  <1>2. event \in AuditEvent /\ event.kind = "JobStarted" /\ event.job = i
    BY DEF AuditEvent
  <1> HIDE DEF event
  <1>3. CASE j = i
    <2>1. Positions(audit[s], "JobStarted", j) = {} /\ Positions(audit[s], "JobFinished", j) = {}
      BY <1>1, <1>3 DEF Audited
    <2>2. stage'[j] = "started" /\ owner'[j] = owner[j] /\ session'[s] = session[s]
      BY <1>1, <1>3 DEF TypeOK
    <2>3. CASE s = owner[i] /\ session[s] = "open"
      <3>1. IsAppend(audit'[s], audit[s], event) /\ audit[s] \in Seq(AuditEvent)
        BY <1>1, <1>2, <1>3, <2>3, RecordAudited DEF TypeOK
      <3>2. IsAbout(event, "JobStarted", j) /\ ~IsAbout(event, "JobFinished", j)
        BY <1>2, <1>3 DEF IsAbout
      <3>3. /\ Positions(audit'[s], "JobStarted", j) = {Len(audit[s]) + 1}
            /\ Positions(audit'[s], "JobFinished", j) = {}
        BY <1>2, <2>1, <3>1, <3>2, PositionsAppend
      <3> QED
        BY <1>3, <2>2, <2>3, <3>3 DEF Audited
    <2>4. CASE ~(s = owner[i] /\ session[s] = "open")
      <3>1. /\ Positions(audit'[s], "JobStarted", j) = {}
            /\ Positions(audit'[s], "JobFinished", j) = {}
        BY <1>1, <1>2, <1>3, <2>1, <2>4, RecordAudited
      <3> QED
        BY <1>3, <2>2, <2>4, <3>1 DEF Audited
    <2> QED
      BY <2>3, <2>4
  <1>4. CASE j # i
    <2>1. \A kind \in {"JobStarted", "JobFinished"} :
             /\ Positions(audit'[s], kind, j) = Positions(audit[s], kind, j)
             /\ \A k \in Positions(audit[s], kind, j) : audit'[s][k] = audit[s][k]
      BY <1>1, <1>2, <1>4, RecordAudited
    <2>2. stage'[j] = stage[j] /\ task'[j] = task[j]
      BY <1>1, <1>4 DEF TypeOK
    <2> QED
      BY <1>1, <2>1, <2>2, AuditedKept
  <1> QED
    BY <1>3, <1>4

LEMMA FinishAudited ==
    ASSUME TypeOK, JobInv, OwnedInv, NEW i \in Job, FinishAudit(i),
           NEW s \in Session, NEW j \in Job, Audited(s, j)
    PROVE  Audited(s, j)'
  <1> DEFINE event == [kind |-> "JobFinished", job |-> i, status |-> status[i]]
  <1>1. /\ owner[i] \in Session /\ stage[i] = "started" /\ task[i] = "audit"
        /\ status[i] \in TerminalStatus
        /\ task' = [task EXCEPT ![i] = "unregister"]
        /\ UNCHANGED <<session, owner, stage, status>>
        /\ RecordSessionAudit(owner[i], event)
    BY DEF FinishAudit, OwnedInv, JobInv, Control, TypeOK, Status, tableVars
  <1>2. /\ event \in AuditEvent /\ event.kind = "JobFinished" /\ event.job = i
        /\ event.status = status[i]
    BY <1>1 DEF AuditEvent
  <1> HIDE DEF event
  <1>3. CASE j = i /\ s = owner[i] /\ session[s] = "open"
    <2>1. Positions(audit[s], "JobFinished", j) = {} /\ Positions(audit[s], "JobStarted", j) # {}
      BY <1>1, <1>3 DEF Audited
    <2>2. IsAppend(audit'[s], audit[s], event) /\ audit[s] \in Seq(AuditEvent)
      BY <1>1, <1>2, <1>3, RecordAudited DEF TypeOK
    <2>3. /\ Positions(audit'[s], "JobFinished", j) = {Len(audit[s]) + 1}
          /\ Positions(audit'[s], "JobStarted", j) = Positions(audit[s], "JobStarted", j)
          /\ \A k \in Positions(audit[s], "JobStarted", j) : k < Len(audit[s]) + 1
          /\ audit'[s][Len(audit[s]) + 1] = event
      <3>1. IsAbout(event, "JobFinished", j) /\ ~IsAbout(event, "JobStarted", j)
        BY <1>2, <1>3 DEF IsAbout
      <3>2. /\ Positions(audit'[s], "JobFinished", j) = {Len(audit[s]) + 1}
            /\ Positions(audit'[s], "JobStarted", j) = Positions(audit[s], "JobStarted", j)
            /\ Positions(audit[s], "JobStarted", j) \subseteq 1..Len(audit[s])
        BY <1>2, <2>1, <2>2, <3>1, PositionsAppend
      <3>3. /\ \A k \in 1..Len(audit[s]) : k < Len(audit[s]) + 1
            /\ audit'[s][Len(audit[s]) + 1] = event
        BY <1>2, <2>2, AppendKeeps
      <3> QED
        BY <3>2, <3>3
    <2>4. task'[j] = "unregister"
      BY <1>1, <1>3 DEF TypeOK
    <2> QED
      BY <1>1, <1>2, <1>3, <2>1, <2>3, <2>4 DEF Audited
  <1>4. CASE ~(j = i /\ s = owner[i] /\ session[s] = "open")
    <2>1. \A kind \in {"JobStarted", "JobFinished"} :
             /\ Positions(audit'[s], kind, j) = Positions(audit[s], kind, j)
             /\ \A k \in Positions(audit[s], kind, j) : audit'[s][k] = audit[s][k]
      BY <1>1, <1>2, <1>4, RecordAudited
    <2>2. task'[j] = task[j] \/ task[j] \notin {"unregister", "done"}
      BY <1>1 DEF TypeOK
    <2> QED
      BY <1>1, <2>1, <2>2, AuditedKept
  <1> QED
    BY <1>3, <1>4

LEMMA AuditInvStep == TypeOK /\ JobInv /\ OwnedInv /\ AuditInv /\ [Next]_vars => AuditInv'
  <1> SUFFICES ASSUME TypeOK, JobInv, OwnedInv, AuditInv, [Next]_vars,
                      NEW s \in Session, NEW j \in Job
               PROVE  Audited(s, j)'
    BY DEF AuditInv
  <1>1. Audited(s, j)
    BY DEF AuditInv
  <1>2. ASSUME NEW t \in Session, SessionStep(t)
        PROVE  Audited(s, j)'
    BY <1>1, <1>2, SessionAudited
  <1>3. ASSUME UNCHANGED sessionVars,
               owner'[j] = owner[j] \/ (stage[j] # "started" /\ stage'[j] # "started"),
               stage'[j] = stage[j] \/ (stage[j] # "started" /\ stage'[j] # "started"),
               status'[j] = status[j] \/ task[j] \notin {"unregister", "done"},
               task'[j] = task[j] \/ task[j] \notin {"unregister", "done"} \/ task'[j] = "done"
        PROVE  Audited(s, j)'
    BY <1>1, <1>3, AuditedKept DEF sessionVars
  <1>4. ASSUME NEW t \in Session, CancelStep(t)
        PROVE  Audited(s, j)'
    BY <1>3, <1>4 DEF CancelStep, Cancel, CancelForSession, SweepJob, taskVars
  <1>5. ASSUME NEW i \in Job, StartStep(i), ~StartLaunch(i)
        PROVE  Audited(s, j)'
    <2>1. stage[i] # "started" /\ stage'[i] # "started" /\ task[i] = "none"
      BY <1>5 DEF StartStep, StartAdmit, StartRefuse, StartSpawn, StartRegister, TypeOK, JobInv,
                  Control
    <2>2. i # j => stage'[j] = stage[j] /\ owner'[j] = owner[j] /\ status'[j] = status[j]
      BY <1>5 DEF StartStep, StartAdmit, StartRefuse, StartSpawn, StartRegister, TypeOK
    <2>3. UNCHANGED <<sessionVars, task>>
      BY <1>5 DEF StartStep, StartAdmit, StartRefuse, StartSpawn, StartRegister, taskVars
    <2> QED
      BY <1>3, <2>1, <2>2, <2>3
  <1>6. ASSUME NEW i \in Job, StartLaunch(i)
        PROVE  Audited(s, j)'
    BY <1>1, <1>6, LaunchAudited
  <1>7. ASSUME NEW i \in Job, DrainStep(i) \/ \E p \in Stream : DrainReadFails(i, p)
        PROVE  Audited(s, j)'
    <2>1. UNCHANGED <<sessionVars, stage, owner, status>>
      BY <1>7 DEF DrainStep, DrainCancel, DrainRead, DrainOverflow, DrainEof, DrainReadFails,
                  tableVars
    <2>2. task[i] = "drain" /\ \E where : task' = [task EXCEPT ![i] = where] \/ task' = task
      BY <1>7 DEF DrainStep, DrainCancel, DrainRead, DrainOverflow, DrainEof, DrainReadFails,
                  Reading, taskVars
    <2>3. task'[j] = task[j] \/ task[j] \notin {"unregister", "done"}
      BY <2>2 DEF TypeOK
    <2> QED
      BY <1>3, <2>1, <2>3
  <1>8. ASSUME NEW i \in Job, NEW waited \in BOOLEAN, FinishStatus(i, waited)
        PROVE  Audited(s, j)'
    BY <1>3, <1>8 DEF FinishStatus, tableVars, TypeOK
  <1>9. ASSUME NEW i \in Job, FinishUnregister(i)
        PROVE  Audited(s, j)'
    BY <1>3, <1>9 DEF FinishUnregister, TypeOK
  <1>10. ASSUME NEW i \in Job, FinishAudit(i)
         PROVE  Audited(s, j)'
    BY <1>1, <1>10, FinishAudited
  <1>11. ASSUME NEW i \in Job, ProgStep(i)
         PROVE  Audited(s, j)'
    BY <1>3, <1>11 DEF ProgStep, ProgWrite, ProgClosePipe, ProgFork, ProgEnd, DescendantEnd,
                       tableVars, taskVars
  <1>12. CASE UNCHANGED vars
    BY <1>3, <1>12 DEF vars, tableVars, taskVars
  <1> QED
    BY <1>2, <1>4, <1>5, <1>6, <1>7, <1>8, <1>9, <1>10, <1>11, <1>12
       DEF Next, FinishStep, SystemFails

\* The audit log of a session is a faithful history of its jobs, whatever the
\* order in which starts, drainers and the close of the session run.
THEOREM AuditLogIsHistory == Spec => []AuditIsHistory
  <1>1. Init => OwnedInv /\ AuditInv
    BY DEF Init, OwnedInv, AuditInv, Audited, Positions
  <1>2. AuditInv => AuditIsHistory
    BY DEF AuditInv, Audited, AuditIsHistory
  <1> QED
    BY EngineInvariant, <1>1, <1>2, OwnedInvStep, AuditInvStep, PTL DEF Spec

-----------------------------------------------------------------------------
(* Refinement *)

LEMMA LifecycleSimulation ==
    TypeOK /\ JobInv /\ [Next]_vars => [Lifecycle!Next]_(Lifecycle!vars)
  <1> DEFINE Cancelled == {j \in Job : signal[j]}
  <1> SUFFICES ASSUME TypeOK, JobInv, [Next]_vars
               PROVE  Lifecycle!Next \/ UNCHANGED Lifecycle!vars
    OBVIOUS
  <1>1. ASSUME UNCHANGED <<status, logged, signal>>
        PROVE  UNCHANGED Lifecycle!vars
    BY <1>1 DEF Lifecycle!vars
  <1>2. ASSUME NEW j \in Job, KillJob(j), UNCHANGED <<status, outputVars>>
        PROVE  Lifecycle!Next
    <2>1. j \notin Cancelled /\ status[j] # "absent"
      BY <1>2 DEF KillJob, JobInv, Control
    <2>2. Cancelled' = Cancelled \cup {j}
      BY <1>2 DEF KillJob, TypeOK
    <2>3. Lifecycle!Cancel(j)
      BY <1>2, <2>1, <2>2 DEF Lifecycle!Cancel, outputVars
    <2> QED
      BY <2>3 DEF Lifecycle!Next
  <1>3. ASSUME NEW s \in Session, SessionStep(s) \/ CancelForSession(s)
        PROVE  UNCHANGED Lifecycle!vars
    BY <1>1, <1>3 DEF SessionStep, OpenSession, CloseSession, CancelForSession, tableVars,
                      outputVars
  <1>4. ASSUME NEW s \in Session, NEW j \in Job, Cancel(j, s) \/ SweepJob(s, j)
        PROVE  Lifecycle!Next \/ UNCHANGED Lifecycle!vars
    BY <1>1, <1>2, <1>4 DEF Cancel, SweepJob, outputVars
  <1>5. ASSUME NEW j \in Job, StartStep(j)
        PROVE  Lifecycle!Next \/ UNCHANGED Lifecycle!vars
    <2>1. CASE StartSpawn(j)
      <3>1. status[j] = "absent"
        BY <2>1 DEF StartSpawn, JobInv, Control
      <3>2. Lifecycle!Start(j)
        BY <2>1, <3>1 DEF StartSpawn, Lifecycle!Start, outputVars
      <3> QED
        BY <3>2 DEF Lifecycle!Next
    <2>2. CASE ~StartSpawn(j)
      BY <1>1, <1>5, <2>2 DEF StartStep, StartAdmit, StartRefuse, StartRegister, StartLaunch,
                              outputVars
    <2> QED
      BY <2>1, <2>2
  <1>6. ASSUME NEW j \in Job, NEW p \in Stream, NEW n \in 1..DrainBufSize, DrainRead(j, p, n)
        PROVE  Lifecycle!Next
    <2>1. status[j] = "running"
      BY <1>6 DEF DrainRead, Reading, JobInv, Control
    <2>2. Lifecycle!Produce(j, p, n)
      BY <1>6, <2>1 DEF DrainRead, Lifecycle!Produce, tableVars
    <2> QED
      BY <1>6, <2>2 DEF Lifecycle!Next
  <1>7. ASSUME NEW j \in Job, NEW p \in Stream, NEW n \in 1..DrainBufSize,
               DrainOverflow(j, p, n)
        PROVE  UNCHANGED Lifecycle!vars
    BY <1>1, <1>7 DEF DrainOverflow, tableVars
  <1>8. ASSUME NEW j \in Job, NEW waited \in BOOLEAN, FinishStatus(j, waited)
        PROVE  Lifecycle!Next
    <2>1. status[j] = "running" /\ FinalStatus(j, waited) \in {"exited", "killed", "failed"}
      BY <1>8 DEF FinishStatus, FinalStatus, JobInv, Control
    <2>2. Lifecycle!Finish(j, FinalStatus(j, waited))
      BY <1>8, <2>1 DEF FinishStatus, Lifecycle!Finish, tableVars, outputVars
    <2> QED
      BY <2>1, <2>2 DEF Lifecycle!Next, Lifecycle!TerminalStatus
  <1>9. ASSUME NEW j \in Job, ProgStep(j)
        PROVE  UNCHANGED Lifecycle!vars
    BY <1>1, <1>9 DEF ProgStep, ProgWrite, ProgClosePipe, ProgFork, ProgEnd, DescendantEnd,
                      tableVars, outputVars
  <1>10. CASE UNCHANGED vars
    BY <1>1, <1>10 DEF vars, tableVars, outputVars
  <1>11. ASSUME NEW j \in Job, DrainCancel(j) \/ FinishAudit(j) \/ FinishUnregister(j)
         PROVE  UNCHANGED Lifecycle!vars
    BY <1>1, <1>11 DEF DrainCancel, FinishAudit, FinishUnregister, tableVars, outputVars
  <1>12. ASSUME NEW j \in Job, NEW p \in Stream, DrainEof(j, p) \/ DrainReadFails(j, p)
         PROVE  UNCHANGED Lifecycle!vars
    BY <1>1, <1>12 DEF DrainEof, DrainReadFails, tableVars, outputVars
  <1> QED
    BY <1>3, <1>4, <1>5, <1>6, <1>7, <1>8, <1>9, <1>10, <1>11, <1>12
       DEF Next, CancelStep, DrainStep, FinishStep, SystemFails

\* A job starts once, has output only while it runs, takes one cancellation and
\* changes no more once it is terminal, whatever the engine's tasks, requests and
\* programs do.
THEOREM EngineImplementsLifecycle == Spec => ImplementsLifecycle
  <1>1. Init => Lifecycle!Init
    BY DEF Init, Lifecycle!Init
  <1> QED
    BY <1>1, EngineInvariant, LifecycleSimulation, PTL
       DEF Spec, ImplementsLifecycle, Lifecycle!Spec

=============================================================================
