--------------------------- MODULE CodeJob_proofs ---------------------------
(***************************************************************************)
(* Theorems about one code job, for any caps, texts and programs.          *)
(*                                                                         *)
(* The invariant has four parts: Tables ties the engine's tables to the    *)
(* task, Interrupts follows an interrupt from kill_job into the flag, the  *)
(* epoch and the deadline, Run ties the child process to the host call,    *)
(* and Verdict ties the status and the log to the outcome of the run.      *)
(***************************************************************************)
EXTENDS CodeJob, TLAPS

Finishing == drainer \in {"finish", "unregister", "done"}

Tables ==
    /\ status = "absent" <=> stage = "free"
    /\ status \in TerminalStatus <=> drainer \in {"unregister", "done"}
    /\ drainer = "none" <=> stage # "started"
    /\ runner = "none" <=> stage # "started"
    /\ entry => ~signal
    /\ entry \/ signal => stage \in {"registered", "started"}
    /\ killer # "idle" => signal
    /\ drainer \in {"flag", "epoch", "await"} \/ final = "killed" => signal

\* kill_job and the cancelled branch each increment the epoch once.
KillBumped == signal /\ killer \in {"host", "idle"}
BranchBumped == drainer = "await" \/ final = "killed"

Interrupts ==
    /\ epoch = (IF KillBumped THEN 1 ELSE 0) + (IF BranchBumped THEN 1 ELSE 0)
    /\ epoch > 0 \/ (signal /\ killer # "flag") \/ drainer = "epoch" => flag
    /\ runner = "armed" \/ PastArming => deadline <= epoch + 1
    /\ PastArming /\ KillBumped => epoch >= deadline

Run ==
    /\ runner = "done" <=> outcome # "none"
    /\ child = "running" => runner = "loop"
    /\ runner = "loop" /\ reaped => child \in Dead

Verdict ==
    /\ final # "none" <=> Finishing
    /\ Finishing => runner = "done"
    /\ status \in TerminalStatus => status = final
    /\ ~Finishing \/ final = "killed" => \A p \in Stream : logged[p] = 0
    /\ final = "exited" => /\ outcome \in {"result", "unit"}
                           /\ logged["stdout"] = text
                           /\ logged["stderr"] = 0
    /\ final = "failed" => \/ outcome \in {"error", "interrupted"}
                           \/ outcome = "result" /\ text > LogByteCap
    /\ outcome = "unit" => text = 0
    /\ outcome \in {"result", "error", "interrupted"} => text > 0

CodeInv == Tables /\ Interrupts /\ Run /\ Verdict
-----------------------------------------------------------------------------
(* The initial state *)

\* Nothing has happened yet.
LEMMA InitInv == Init => TypeOK /\ CodeInv
  <1> SUFFICES ASSUME Init PROVE TypeOK /\ CodeInv
    OBVIOUS
  <1>1. TypeOK
    <2>1. 0 \in 0..LogByteCap /\ 0 \in 0..MaxText
      BY CodeJobAssumption
    <2>2. logged \in [Stream -> 0..LogByteCap]
      BY <2>1 DEF Init
    <2>3. /\ stage \in Stage /\ killer \in Killer /\ drainer \in Drainer
          /\ runner \in Runner /\ outcome \in Outcome /\ child \in Child
      BY DEF Init, Stage, Killer, Drainer, Runner, Outcome, Child
    <2>4. text \in 0..MaxText /\ taken \in 0..LogByteCap /\ holders \in SUBSET Holder
      BY <2>1 DEF Init
    <2>5. epoch \in 0..2 /\ deadline \in 0..3
      BY DEF Init
    <2> QED
      BY <2>2, <2>3, <2>4, <2>5 DEF Init, TypeOK
  <1>2. Tables
    BY DEF Init, Tables, TerminalStatus
  <1>3. Interrupts
    BY DEF Init, Interrupts, KillBumped, BranchBumped, PastArming
  <1>4. Run
    BY DEF Init, Run
  <1>5. Verdict
    BY DEF Init, Verdict, Finishing, TerminalStatus
  <1> QED
    BY <1>1, <1>2, <1>3, <1>4, <1>5 DEF CodeInv

-----------------------------------------------------------------------------
(* One lemma per part: every step keeps it *)

\* Every step keeps the tables of the engine in line with the task.
LEMMA TablesStep ==
    ASSUME TypeOK, CodeInv, [Next]_vars
    PROVE  Tables'
  <1>1. CASE StartStep
    <2>1. CASE StartInsert
      BY <2>1 DEF StartInsert, CodeInv, Tables, TerminalStatus, cancelVars, taskVars, runVars
    <2>2. CASE StartRegister
      BY <2>2 DEF StartRegister, CodeInv, Tables, TerminalStatus, cancelVars, taskVars, runVars
    <2>3. CASE StartLaunch
      BY <2>3 DEF StartLaunch, CodeInv, Tables, TerminalStatus, cancelVars, taskVars, runVars
    <2> QED
      BY <1>1, <2>1, <2>2, <2>3 DEF StartStep
  <1>2. CASE KillSend
    BY <1>2 DEF KillSend, CodeInv, Tables, Verdict, Finishing, TerminalStatus, TypeOK,
          tableVars, cancelVars, taskVars, runVars, callVars, childVars
  <1>3. CASE KillRest
    BY <1>3 DEF KillRest, KillFlag, KillEpoch, KillHost, CodeInv, Tables, Verdict,
          Finishing, TerminalStatus, TypeOK, tableVars, cancelVars, taskVars, runVars,
          callVars, childVars
  <1>4. CASE DrainerStep
    BY <1>4 DEF DrainerStep, PollCancel, BranchFlag, BranchEpoch, BranchAwait,
          PollRunPending, TakeResult, TakeError, FinishStatus, FinishUnregister,
          PushText, Fits, CodeInv, Tables, Verdict, Finishing, TerminalStatus, TypeOK,
          tableVars, cancelVars, taskVars, runVars, callVars, childVars
  <1>5. CASE RunStep
    BY <1>5 DEF RunStep, RunCompile, RunArm, RunRecheck, RunOn, RunLoop, RunCallsHost,
          RunReturns, RunFails, RunInterrupted, RunEnds, CodeInv, Tables, Verdict,
          Finishing, TerminalStatus, TypeOK, tableVars, cancelVars, taskVars, runVars,
          callVars, childVars
  <1>6. CASE CallStep
    BY <1>6 DEF CallStep, HostChecks, HostSpawns, HostRefuses, HostCannotSpawn,
          HostFails, HostReturns, RunEnds, CodeInv, Tables, Verdict, Finishing,
          TerminalStatus, TypeOK, tableVars, cancelVars, taskVars, runVars, callVars,
          childVars
  <1>7. CASE HostTick
    BY <1>7 DEF HostTick, StartKill, CodeInv, Tables, Verdict, Finishing,
          TerminalStatus, TypeOK, tableVars, cancelVars, taskVars, runVars, callVars,
          childVars
  <1>8. CASE ReadStep
    BY <1>8 DEF ReadStep, HostEof, HostReads, HostOverflows, StartKill, RunEnds,
          CallOver, CodeInv, Tables, Verdict, Finishing, TerminalStatus, TypeOK,
          tableVars, cancelVars, taskVars, runVars, callVars, childVars
  <1>9. CASE ProgStep
    BY <1>9 DEF ProgStep, ProgEnds, ProgClosesStdout, ProgForks, DescendantEnds,
          CodeInv, Tables, Verdict, Finishing, TerminalStatus, TypeOK, tableVars,
          cancelVars, taskVars, runVars, callVars, childVars
  <1>10. CASE UNCHANGED vars
    BY <1>10 DEF CodeInv, Tables, Verdict, Finishing, TerminalStatus, TypeOK, vars,
          tableVars, cancelVars, taskVars, runVars, callVars, childVars
  <1> QED
    BY <1>1, <1>2, <1>3, <1>4, <1>5, <1>6, <1>7, <1>8, <1>9, <1>10 DEF Next

\* An interrupt is never lost on its way to the deadline.
LEMMA InterruptsStep ==
    ASSUME TypeOK, CodeInv, [Next]_vars
    PROVE  Interrupts'
  <1>1. CASE StartStep
    BY <1>1 DEF StartStep, StartInsert, StartRegister, StartLaunch, CodeInv, Tables,
          Interrupts, Verdict, Finishing, KillBumped, BranchBumped, PastArming, TypeOK,
          TerminalStatus, tableVars, cancelVars, taskVars, runVars, callVars, childVars
  <1>2. CASE KillSend
    BY <1>2 DEF KillSend, CodeInv, Tables, Interrupts, Verdict, Finishing, KillBumped,
          BranchBumped, PastArming, TypeOK, TerminalStatus, tableVars, cancelVars,
          taskVars, runVars, callVars, childVars
  <1>3. CASE KillRest
    BY <1>3 DEF KillRest, KillFlag, KillEpoch, KillHost, CodeInv, Tables, Interrupts,
          Verdict, Finishing, KillBumped, BranchBumped, PastArming, TypeOK,
          TerminalStatus, tableVars, cancelVars, taskVars, runVars, callVars, childVars
  <1>4. CASE DrainerStep
    BY <1>4 DEF DrainerStep, PollCancel, BranchFlag, BranchEpoch, BranchAwait,
          PollRunPending, TakeResult, TakeError, FinishStatus, FinishUnregister,
          PushText, Fits, CodeInv, Tables, Interrupts, Verdict, Finishing, KillBumped,
          BranchBumped, PastArming, TypeOK, TerminalStatus, tableVars, cancelVars,
          taskVars, runVars, callVars, childVars
  <1>5. CASE RunStep
    BY <1>5 DEF RunStep, RunCompile, RunArm, RunRecheck, RunOn, RunLoop, RunCallsHost,
          RunReturns, RunFails, RunInterrupted, RunEnds, CodeInv, Tables, Interrupts,
          Verdict, Finishing, KillBumped, BranchBumped, PastArming, TypeOK,
          TerminalStatus, tableVars, cancelVars, taskVars, runVars, callVars, childVars
  <1>6. CASE CallStep
    BY <1>6 DEF CallStep, HostChecks, HostSpawns, HostRefuses, HostCannotSpawn,
          HostFails, HostReturns, RunEnds, CodeInv, Tables, Interrupts, Verdict,
          Finishing, KillBumped, BranchBumped, PastArming, TypeOK, TerminalStatus,
          tableVars, cancelVars, taskVars, runVars, callVars, childVars
  <1>7. CASE HostTick
    BY <1>7 DEF HostTick, StartKill, CodeInv, Tables, Interrupts, Verdict, Finishing,
          KillBumped, BranchBumped, PastArming, TypeOK, TerminalStatus, tableVars,
          cancelVars, taskVars, runVars, callVars, childVars
  <1>8. CASE ReadStep
    BY <1>8 DEF ReadStep, HostEof, HostReads, HostOverflows, StartKill, RunEnds,
          CallOver, CodeInv, Tables, Interrupts, Verdict, Finishing, KillBumped,
          BranchBumped, PastArming, TypeOK, TerminalStatus, tableVars, cancelVars,
          taskVars, runVars, callVars, childVars
  <1>9. CASE ProgStep
    BY <1>9 DEF ProgStep, ProgEnds, ProgClosesStdout, ProgForks, DescendantEnds,
          CodeInv, Tables, Interrupts, Verdict, Finishing, KillBumped, BranchBumped,
          PastArming, TypeOK, TerminalStatus, tableVars, cancelVars, taskVars, runVars,
          callVars, childVars
  <1>10. CASE UNCHANGED vars
    BY <1>10 DEF CodeInv, Tables, Interrupts, Verdict, Finishing, KillBumped,
          BranchBumped, PastArming, TypeOK, TerminalStatus, vars, tableVars, cancelVars,
          taskVars, runVars, callVars, childVars
  <1> QED
    BY <1>1, <1>2, <1>3, <1>4, <1>5, <1>6, <1>7, <1>8, <1>9, <1>10 DEF Next

\* A child process runs only within the host call that waits for it.
LEMMA ChildStep ==
    ASSUME TypeOK, CodeInv, [Next]_vars
    PROVE  Run'
  <1>1. CASE StartStep
    BY <1>1 DEF StartStep, StartInsert, StartRegister, StartLaunch, CodeInv, Tables,
          Run, Dead, TypeOK, tableVars, cancelVars, taskVars, runVars, callVars,
          childVars
  <1>2. CASE KillSend
    BY <1>2 DEF KillSend, CodeInv, Tables, Run, Dead, TypeOK, tableVars, cancelVars,
          taskVars, runVars, callVars, childVars
  <1>3. CASE KillRest
    BY <1>3 DEF KillRest, KillFlag, KillEpoch, KillHost, CodeInv, Tables, Run, Dead,
          TypeOK, tableVars, cancelVars, taskVars, runVars, callVars, childVars
  <1>4. CASE DrainerStep
    BY <1>4 DEF DrainerStep, PollCancel, BranchFlag, BranchEpoch, BranchAwait,
          PollRunPending, TakeResult, TakeError, FinishStatus, FinishUnregister,
          PushText, Fits, CodeInv, Tables, Run, Dead, TypeOK, tableVars, cancelVars,
          taskVars, runVars, callVars, childVars
  <1>5. CASE RunStep
    BY <1>5 DEF RunStep, RunCompile, RunArm, RunRecheck, RunOn, RunLoop, RunCallsHost,
          RunReturns, RunFails, RunInterrupted, RunEnds, CodeInv, Tables, Run, Dead,
          TypeOK, tableVars, cancelVars, taskVars, runVars, callVars, childVars
  <1>6. CASE CallStep
    BY <1>6 DEF CallStep, HostChecks, HostSpawns, HostRefuses, HostCannotSpawn,
          HostFails, HostReturns, RunEnds, CallOver, CodeInv, Tables, Run, Dead, TypeOK,
          tableVars, cancelVars, taskVars, runVars, callVars, childVars
  <1>7. CASE HostTick
    BY <1>7 DEF HostTick, StartKill, CodeInv, Tables, Run, Dead, TypeOK, tableVars,
          cancelVars, taskVars, runVars, callVars, childVars
  <1>8. CASE ReadStep
    BY <1>8 DEF ReadStep, HostEof, HostReads, HostOverflows, StartKill, RunEnds,
          CallOver, CodeInv, Tables, Run, Dead, TypeOK, tableVars, cancelVars, taskVars,
          runVars, callVars, childVars
  <1>9. CASE ProgStep
    BY <1>9 DEF ProgStep, ProgEnds, ProgClosesStdout, ProgForks, DescendantEnds,
          CodeInv, Tables, Run, Dead, TypeOK, tableVars, cancelVars, taskVars, runVars,
          callVars, childVars
  <1>10. CASE UNCHANGED vars
    BY <1>10 DEF CodeInv, Tables, Run, Dead, TypeOK, vars, tableVars, cancelVars,
          taskVars, runVars, callVars, childVars
  <1> QED
    BY <1>1, <1>2, <1>3, <1>4, <1>5, <1>6, <1>7, <1>8, <1>9, <1>10 DEF Next

\* The verdict of a job is that of its run.
LEMMA VerdictStep ==
    ASSUME TypeOK, CodeInv, [Next]_vars
    PROVE  Verdict'
  <1>1. CASE StartStep
    BY <1>1 DEF StartStep, StartInsert, StartRegister, StartLaunch, CodeInv, Tables,
          Run, Verdict, Finishing, TerminalStatus, Stream, TypeOK, tableVars,
          cancelVars, taskVars, runVars, callVars, childVars
  <1>2. CASE KillSend
    BY <1>2 DEF KillSend, CodeInv, Tables, Run, Verdict, Finishing, TerminalStatus,
          Stream, TypeOK, tableVars, cancelVars, taskVars, runVars, callVars, childVars
  <1>3. CASE KillRest
    BY <1>3 DEF KillRest, KillFlag, KillEpoch, KillHost, CodeInv, Tables, Run, Verdict,
          Finishing, TerminalStatus, Stream, TypeOK, tableVars, cancelVars, taskVars,
          runVars, callVars, childVars
  <1>4. CASE DrainerStep
    <2>1. CASE PollCancel
      BY <2>1 DEF PollCancel, TypeOK, Run, CodeInv, Tables, Verdict,
             Finishing, TerminalStatus, Stream, tableVars, cancelVars, runVars
    <2>2. CASE BranchFlag
      BY <2>2 DEF BranchFlag, TypeOK, Run, CodeInv, Tables, Verdict,
             Finishing, TerminalStatus, Stream, tableVars, cancelVars, runVars
    <2>3. CASE BranchEpoch
      BY <2>3 DEF BranchEpoch, TypeOK, Run, CodeInv, Tables, Verdict,
             Finishing, TerminalStatus, Stream, tableVars, cancelVars, runVars
    <2>4. CASE BranchAwait
      BY <2>4 DEF BranchAwait, TypeOK, Run, CodeInv, Tables, Verdict,
             Finishing, TerminalStatus, Stream, tableVars, cancelVars, runVars
    <2>5. CASE PollRunPending
      BY <2>5 DEF PollRunPending, TypeOK, Run, CodeInv, Tables, Verdict,
             Finishing, TerminalStatus, Stream, tableVars, cancelVars, runVars
    <2>6. CASE TakeResult
      <3>1. /\ logged["stdout"] = 0 /\ logged["stderr"] = 0
            /\ text \in Nat /\ LogByteCap \in Nat
            /\ final = "none" /\ status \notin TerminalStatus
        BY <2>6, CodeJobAssumption
           DEF TakeResult, TypeOK, CodeInv, Tables, Verdict, Finishing, Stream
      <3>2. CASE outcome = "result" /\ Fits(text)
        <4>1. logged' = [logged EXCEPT !["stdout"] = text]
          BY <2>6, <3>1, <3>2 DEF TakeResult, PushText
        <4>2. logged'["stdout"] = text /\ logged'["stderr"] = 0
          BY <3>1, <4>1 DEF TypeOK, Stream
        <4> QED
          BY <2>6, <3>1, <3>2, <4>2
             DEF TakeResult, CodeInv, Run, Verdict, Finishing, TerminalStatus, runVars
      <3>3. CASE outcome = "result" /\ ~Fits(text)
        BY <2>6, <3>1, <3>3
           DEF TakeResult, PushText, Fits, CodeInv, Run, Verdict, Finishing, TerminalStatus,
               runVars
      <3>4. CASE outcome = "unit"
        BY <2>6, <3>1, <3>4
           DEF TakeResult, CodeInv, Run, Verdict, Finishing, TerminalStatus, runVars
      <3> QED
        BY <2>6, <3>2, <3>3, <3>4 DEF TakeResult
    <2>7. CASE TakeError
      BY <2>7 DEF TakeError, PushText, Fits, TypeOK, Run, CodeInv, Tables, Verdict,
             Finishing, TerminalStatus, Stream, tableVars, cancelVars, runVars
    <2>8. CASE FinishStatus
      BY <2>8 DEF FinishStatus, TypeOK, Run, CodeInv, Tables, Verdict,
             Finishing, TerminalStatus, Stream, tableVars, cancelVars, runVars
    <2>9. CASE FinishUnregister
      BY <2>9 DEF FinishUnregister, TypeOK, Run, CodeInv, Tables, Verdict,
             Finishing, TerminalStatus, Stream, tableVars, cancelVars, runVars
    <2> QED
      BY <1>4, <2>1, <2>2, <2>3, <2>4, <2>5, <2>6, <2>7, <2>8, <2>9 DEF DrainerStep
  <1>5. CASE RunStep
    BY <1>5 DEF RunStep, RunCompile, RunArm, RunRecheck, RunOn, RunLoop, RunCallsHost,
          RunReturns, RunFails, RunInterrupted, RunEnds, CodeInv, Tables, Run, Verdict,
          Finishing, TerminalStatus, Stream, TypeOK, tableVars, cancelVars, taskVars,
          runVars, callVars, childVars
  <1>6. CASE CallStep
    BY <1>6 DEF CallStep, HostChecks, HostSpawns, HostRefuses, HostCannotSpawn,
          HostFails, HostReturns, RunEnds, CodeInv, Tables, Run, Verdict, Finishing,
          TerminalStatus, Stream, TypeOK, tableVars, cancelVars, taskVars, runVars,
          callVars, childVars
  <1>7. CASE HostTick
    BY <1>7 DEF HostTick, StartKill, CodeInv, Tables, Run, Verdict, Finishing,
          TerminalStatus, Stream, TypeOK, tableVars, cancelVars, taskVars, runVars,
          callVars, childVars
  <1>8. CASE ReadStep
    BY <1>8 DEF ReadStep, HostEof, HostReads, HostOverflows, StartKill, RunEnds,
          CallOver, CodeInv, Tables, Run, Verdict, Finishing, TerminalStatus, Stream,
          TypeOK, tableVars, cancelVars, taskVars, runVars, callVars, childVars
  <1>9. CASE ProgStep
    BY <1>9 DEF ProgStep, ProgEnds, ProgClosesStdout, ProgForks, DescendantEnds,
          CodeInv, Tables, Run, Verdict, Finishing, TerminalStatus, Stream, TypeOK,
          tableVars, cancelVars, taskVars, runVars, callVars, childVars
  <1>10. CASE UNCHANGED vars
    BY <1>10 DEF CodeInv, Tables, Run, Verdict, Finishing, TerminalStatus, Stream,
          TypeOK, vars, tableVars, cancelVars, taskVars, runVars, callVars, childVars
  <1> QED
    BY <1>1, <1>2, <1>3, <1>4, <1>5, <1>6, <1>7, <1>8, <1>9, <1>10 DEF Next

-----------------------------------------------------------------------------
(* Type correctness *)

\* A text that is pushed fits into the log, or leaves it alone.
LEMMA PushTextKeepsType ==
    ASSUME TypeOK, NEW p \in Stream, PushText(p, text)
    PROVE  logged' \in [Stream -> 0..LogByteCap]
  <1>1. CASE Fits(text)
    <2>1. /\ logged["stdout"] \in 0..LogByteCap /\ logged["stderr"] \in 0..LogByteCap
          /\ text \in Nat /\ LogByteCap \in Nat
      BY CodeJobAssumption DEF TypeOK, Stream
    <2>2. logged[p] + text \in 0..LogByteCap
      BY <1>1, <2>1 DEF Fits, Stream
    <2>3. logged' = [logged EXCEPT ![p] = logged[p] + text]
      BY <1>1 DEF PushText
    <2> QED
      BY <2>2, <2>3 DEF TypeOK
  <1>2. CASE ~Fits(text)
    BY <1>2 DEF PushText, TypeOK
  <1> QED
    BY <1>1, <1>2

\* Every step keeps the types; those of the epoch follow from Interrupts.
LEMMA TypeStep ==
    ASSUME TypeOK, CodeInv, [Next]_vars
    PROVE  TypeOK'
  <1>1. epoch' \in 0..2
    <2>1. Interrupts'
      BY InterruptsStep
    <2> QED
      BY <2>1 DEF Interrupts
  <1>2. LogByteCap \in Nat /\ DrainBufSize \in Nat /\ MaxText \in Nat \ {0}
    BY CodeJobAssumption
  <1>3. CASE StartStep
    <2>1. stage' \in Stage /\ drainer' \in Drainer /\ runner' \in Runner
      BY <1>3 DEF StartStep, StartInsert, StartRegister, StartLaunch, Stage, Drainer, Runner,
            TypeOK, taskVars, runVars
    <2>2. status' \in {"absent", "running"} \cup TerminalStatus /\ entry' \in BOOLEAN
      BY <1>3 DEF StartStep, StartInsert, StartRegister, StartLaunch, TypeOK
    <2>3. UNCHANGED <<logged, cancelVars, final, deadline, outcome, text, callVars, childVars>>
      BY <1>3 DEF StartStep, StartInsert, StartRegister, StartLaunch, taskVars, runVars
    <2> QED
      BY <2>1, <2>2, <2>3 DEF TypeOK, cancelVars, callVars, childVars
  <1>4. CASE KillSend
    BY <1>1, <1>4 DEF KillSend, Killer, TypeOK, tableVars, cancelVars, taskVars,
          runVars, callVars, childVars
  <1>5. CASE KillRest
    BY <1>1, <1>5 DEF KillRest, KillFlag, KillEpoch, KillHost, Killer, TypeOK,
          tableVars, cancelVars, taskVars, runVars, callVars, childVars
  <1>6. CASE DrainerStep
    <2>1. CASE PollCancel
      BY <1>1, <2>1 DEF PollCancel, TypeOK, Drainer, TerminalStatus, tableVars,
            cancelVars, taskVars, runVars, callVars, childVars
    <2>2. CASE BranchFlag
      BY <1>1, <2>2 DEF BranchFlag, TypeOK, Drainer, TerminalStatus, tableVars,
            cancelVars, taskVars, runVars, callVars, childVars
    <2>3. CASE BranchEpoch
      BY <1>1, <2>3 DEF BranchEpoch, TypeOK, Drainer, TerminalStatus, tableVars,
            cancelVars, taskVars, runVars, callVars, childVars
    <2>4. CASE BranchAwait
      BY <1>1, <2>4 DEF BranchAwait, TypeOK, Drainer, TerminalStatus, tableVars,
            cancelVars, taskVars, runVars, callVars, childVars
    <2>5. CASE PollRunPending
      BY <1>1, <2>5 DEF PollRunPending, TypeOK, Drainer, TerminalStatus, tableVars,
            cancelVars, taskVars, runVars, callVars, childVars
    <2>6. CASE TakeResult
      <3>1. logged' \in [Stream -> 0..LogByteCap]
        BY <2>6, PushTextKeepsType DEF TakeResult, TypeOK, Stream
      <3> QED
        BY <2>6, <3>1 DEF TakeResult, TypeOK, Drainer, TerminalStatus, tableVars,
              cancelVars, taskVars, runVars, callVars, childVars
    <2>7. CASE TakeError
      <3>1. logged' \in [Stream -> 0..LogByteCap]
        BY <2>7, PushTextKeepsType DEF TakeError, TypeOK, Stream
      <3> QED
        BY <2>7, <3>1 DEF TakeError, TypeOK, Drainer, TerminalStatus, tableVars,
              cancelVars, taskVars, runVars, callVars, childVars
    <2>8. CASE FinishStatus
      <3>1. final \in TerminalStatus
        BY <2>8 DEF FinishStatus, TypeOK, CodeInv, Verdict, Finishing
      <3> QED
        BY <2>8, <3>1 DEF FinishStatus, TypeOK, Drainer, tableVars, cancelVars,
              taskVars, runVars, callVars, childVars
    <2>9. CASE FinishUnregister
      <3>1. /\ entry' = FALSE /\ drainer' = "done"
            /\ UNCHANGED <<stage, status, logged, cancelVars, final, runVars, callVars, childVars>>
        BY <2>9 DEF FinishUnregister
      <3> QED
        BY <3>1 DEF TypeOK, Drainer, cancelVars, runVars, callVars, childVars
    <2> QED
      BY <1>6, <2>1, <2>2, <2>3, <2>4, <2>5, <2>6, <2>7, <2>8, <2>9 DEF DrainerStep
  <1>7. CASE RunStep
    <2>1. runner' \in Runner /\ outcome' \in Outcome /\ text' \in 0..MaxText
      BY <1>2, <1>7
         DEF RunStep, RunCompile, RunArm, RunRecheck, RunOn, RunLoop, RunCallsHost, RunReturns,
             RunFails, RunInterrupted, RunEnds, Runner, Outcome, TypeOK
    <2>2. deadline' \in 0..3
      BY <1>7
         DEF RunStep, RunCompile, RunArm, RunRecheck, RunOn, RunLoop, RunCallsHost, RunReturns,
             RunFails, RunInterrupted, TypeOK
    <2>3. UNCHANGED <<tableVars, cancelVars, taskVars, callVars, childVars>>
      BY <1>7
         DEF RunStep, RunCompile, RunArm, RunRecheck, RunOn, RunLoop, RunCallsHost, RunReturns,
             RunFails, RunInterrupted
    <2> QED
      BY <2>1, <2>2, <2>3 DEF TypeOK, tableVars, cancelVars, taskVars, callVars, childVars
  <1>8. CASE CallStep
    <2>1. runner' \in Runner /\ outcome' \in Outcome /\ text' \in 0..MaxText
      BY <1>2, <1>8
         DEF CallStep, HostChecks, HostSpawns, HostRefuses, HostCannotSpawn, HostFails,
             HostReturns, RunEnds, Runner, Outcome, TypeOK
    <2>2. /\ killed' \in BOOLEAN /\ reaped' \in BOOLEAN /\ outDone' \in BOOLEAN
          /\ child' \in Child /\ holders' \in SUBSET Holder
      BY <1>8
         DEF CallStep, HostChecks, HostSpawns, HostRefuses, HostCannotSpawn, HostFails,
             HostReturns, Child, Holder, TypeOK, callVars, childVars
    <2>3. taken' \in 0..LogByteCap
      BY <1>2, <1>8
         DEF CallStep, HostChecks, HostSpawns, HostRefuses, HostCannotSpawn, HostFails,
             HostReturns, TypeOK, callVars
    <2>4. UNCHANGED <<tableVars, cancelVars, taskVars, deadline>>
      BY <1>8
         DEF CallStep, HostChecks, HostSpawns, HostRefuses, HostCannotSpawn, HostFails,
             HostReturns
    <2> QED
      BY <2>1, <2>2, <2>3, <2>4 DEF TypeOK, tableVars, cancelVars, taskVars
  <1>9. CASE HostTick
    <2>1. child' \in Child /\ holders' \in SUBSET Holder /\ killed' \in BOOLEAN
      BY <1>9 DEF HostTick, StartKill, Child, TypeOK, childVars
    <2>2. reaped' \in BOOLEAN
      BY <1>9 DEF HostTick
    <2>3. UNCHANGED <<tableVars, cancelVars, taskVars, runVars, outDone, taken>>
      BY <1>9 DEF HostTick
    <2> QED
      BY <2>1, <2>2, <2>3 DEF TypeOK, tableVars, cancelVars, taskVars, runVars
  <1>10. CASE ReadStep
    <2>1. runner' \in Runner /\ outcome' \in Outcome /\ text' \in 0..MaxText
      BY <1>2, <1>10
         DEF ReadStep, HostEof, HostReads, HostOverflows, RunEnds, Runner, Outcome, TypeOK,
             runVars
    <2>2. outDone' \in BOOLEAN
      BY <1>10 DEF ReadStep, HostEof, HostReads, HostOverflows, TypeOK, callVars
    <2>3. taken' \in 0..LogByteCap
      <3>1. taken \in 0..LogByteCap
        BY DEF TypeOK
      <3>2. taken' = taken \/ \E n \in 1..DrainBufSize : taken' = taken + n /\ taken' <= LogByteCap
        BY <1>10 DEF ReadStep, HostEof, HostReads, HostOverflows, callVars
      <3> QED
        BY <1>2, <3>1, <3>2
    <2>4. child' \in Child /\ holders' \in SUBSET Holder
      BY <1>10 DEF ReadStep, HostEof, HostReads, HostOverflows, StartKill, Child, TypeOK,
            childVars
    <2>5. UNCHANGED <<tableVars, cancelVars, taskVars, deadline, killed, reaped>>
      BY <1>10 DEF ReadStep, HostEof, HostReads, HostOverflows, runVars, callVars
    <2> QED
      BY <2>1, <2>2, <2>3, <2>4, <2>5 DEF TypeOK, tableVars, cancelVars, taskVars
  <1>11. CASE ProgStep
    <2>1. child \in Child /\ holders \in SUBSET Holder
      BY DEF TypeOK
    <2>2. child' \in Child /\ holders' \in SUBSET Holder
      <3>1. CASE \E how \in {"success", "failure"} : ProgEnds(how)
        BY <2>1, <3>1 DEF ProgEnds, Child
      <3>2. CASE ProgClosesStdout
        BY <2>1, <3>2 DEF ProgClosesStdout
      <3>3. CASE ProgForks
        BY <2>1, <3>3 DEF ProgForks
      <3>4. CASE DescendantEnds
        BY <2>1, <3>4 DEF DescendantEnds
      <3> QED
        BY <1>11, <3>1, <3>2, <3>3, <3>4 DEF ProgStep
    <2>3. UNCHANGED <<tableVars, cancelVars, taskVars, runVars, callVars>>
      BY <1>11 DEF ProgStep, ProgEnds, ProgClosesStdout, ProgForks, DescendantEnds
    <2> QED
      BY <2>2, <2>3 DEF TypeOK, tableVars, cancelVars, taskVars, runVars, callVars
  <1>12. CASE UNCHANGED vars
    BY <1>12 DEF TypeOK, vars, tableVars, cancelVars, taskVars, runVars, callVars,
          childVars
  <1> QED
    BY <1>3, <1>4, <1>5, <1>6, <1>7, <1>8, <1>9, <1>10, <1>11, <1>12 DEF Next

-----------------------------------------------------------------------------
(* The theorems *)

\* The inductive invariant holds in every reachable state (run_code_to_completion,
\* kill_job and run_component_with_interrupt, under any interleaving).
THEOREM CodeInvariant == Spec => [](TypeOK /\ CodeInv)
  <1>1. Init => TypeOK /\ CodeInv
    BY InitInv
  <1>2. TypeOK /\ CodeInv /\ [Next]_vars => (TypeOK /\ CodeInv)'
    <2> SUFFICES ASSUME TypeOK, CodeInv, [Next]_vars
                 PROVE  TypeOK' /\ CodeInv'
      OBVIOUS
    <2>1. TypeOK'
      BY TypeStep
    <2>2. Tables' /\ Interrupts' /\ Run' /\ Verdict'
      BY TablesStep, InterruptsStep, ChildStep, VerdictStep
    <2> QED
      BY <2>1, <2>2 DEF CodeInv
  <1> QED
    BY <1>1, <1>2, PTL DEF Spec

\* Types: the log of the job and the output of a host call stay within their cap
\* (InMemoryJobReplayLog::append, run_resolved_command).
THEOREM TypeCorrect == Spec => []TypeOK
  BY CodeInvariant, PTL

\* An interrupt is never lost: wherever the start of the component stood when it
\* came, the component passes no checkpoint after the answer to the cancellation
\* (runner.rs, interrupt and run_component_with_interrupt).
THEOREM InterruptsAreNotLost == Spec => []InterruptIsNotLost
  <1>1. TypeOK /\ CodeInv => InterruptIsNotLost
    BY DEF CodeInv, Interrupts, InterruptIsNotLost, KillReturned, KillBumped
  <1> QED
    BY <1>1, CodeInvariant, PTL

\* A job with a terminal status has neither a thread nor a process left
\* (run_code_to_completion, run_resolved_command).
THEOREM JobsCleanUp == Spec => []NothingOutlivesTheJob
  <1>1. TypeOK /\ CodeInv => NothingOutlivesTheJob
    BY DEF CodeInv, Tables, Run, Verdict, Finishing, NothingOutlivesTheJob
  <1> QED
    BY <1>1, CodeInvariant, PTL

\* The status and the log of a job tell what its run did, or that it was cancelled
\* (the arms of run_code_to_completion).
THEOREM StatusTellsRun == Spec => []StatusTellsTheRun
  <1>1. TypeOK /\ CodeInv => StatusTellsTheRun
    BY DEF CodeInv, Tables, Verdict, Finishing, TerminalStatus, StatusTellsTheRun
  <1> QED
    BY <1>1, CodeInvariant, PTL

-----------------------------------------------------------------------------
(* Refinement *)

\* A push makes the bytes of one text available, or changes nothing.
LEMMA PushSimulation ==
    ASSUME TypeOK, CodeInv, NEW p \in Stream, PushText(p, text),
           drainer = "polled", outcome \in {"result", "error", "interrupted"},
           UNCHANGED <<status, signal>>
    PROVE  [Lifecycle!Next]_Lifecycle!vars
  <1>1. text \in 1..MaxText
    BY CodeJobAssumption DEF TypeOK, CodeInv, Verdict
  <1>2. status = "running"
    BY DEF CodeInv, Tables, TypeOK
  <1>3. CASE Fits(text)
    <2>1. logged' = [logged EXCEPT ![p] = @ + text]
      BY <1>3 DEF PushText
    <2>2. Lifecycle!Produce(JobId, p, text)
      BY <1>2, <2>1 DEF Lifecycle!Produce
    <2> QED
      BY <1>1, <2>2 DEF Lifecycle!Next
  <1>4. CASE ~Fits(text)
    BY <1>4 DEF PushText, Lifecycle!vars
  <1> QED
    BY <1>3, <1>4

\* Every step of a code job is a step of the abstract lifecycle, or invisible.
LEMMA LifecycleSimulation ==
    ASSUME TypeOK, CodeInv, [Next]_vars
    PROVE  [Lifecycle!Next]_Lifecycle!vars
  <1> DEFINE Invisible == UNCHANGED <<status, logged, signal>>
  <1>1. Invisible => UNCHANGED Lifecycle!vars
    BY DEF Lifecycle!vars
  <1>2. CASE StartStep
    <2>1. CASE StartInsert
      <3>1. status = "absent" /\ status' = "running"
        BY <2>1 DEF StartInsert, CodeInv, Tables
      <3>2. Lifecycle!Start(JobId)
        BY <2>1, <3>1 DEF StartInsert, cancelVars, Lifecycle!Start
      <3> QED
        BY <3>2 DEF Lifecycle!Next
    <2>2. CASE StartRegister \/ StartLaunch
      BY <1>1, <2>2 DEF StartRegister, StartLaunch, cancelVars
    <2> QED
      BY <1>2, <2>1, <2>2 DEF StartStep
  <1>3. CASE KillSend
    <2>1. status # "absent" /\ ~signal /\ signal'
      BY <1>3 DEF KillSend, CodeInv, Tables
    <2>2. Lifecycle!Cancel(JobId)
      BY <1>3, <2>1 DEF KillSend, Lifecycle!Cancel
    <2> QED
      BY <2>2 DEF Lifecycle!Next
  <1>4. CASE KillRest
    BY <1>1, <1>4 DEF KillRest, KillFlag, KillEpoch, KillHost, tableVars
  <1>5. CASE DrainerStep
    <2>1. CASE TakeResult
      <3>1. CASE outcome = "result"
        BY <2>1, <3>1, PushSimulation DEF TakeResult, Stream, cancelVars
      <3>2. CASE outcome = "unit"
        BY <1>1, <2>1, <3>2 DEF TakeResult, cancelVars
      <3> QED
        BY <2>1, <3>1, <3>2 DEF TakeResult
    <2>2. CASE TakeError
      BY <2>2, PushSimulation DEF TakeError, Stream, cancelVars
    <2>3. CASE FinishStatus
      <3>1. status = "running" /\ final \in Lifecycle!TerminalStatus
        BY <2>3 DEF FinishStatus, CodeInv, Tables, Verdict, Finishing, TypeOK, TerminalStatus,
              Lifecycle!TerminalStatus
      <3>2. Lifecycle!Finish(JobId, final)
        BY <2>3, <3>1 DEF FinishStatus, cancelVars, Lifecycle!Finish
      <3> QED
        BY <3>1, <3>2 DEF Lifecycle!Next
    <2>4. CASE \/ PollCancel \/ BranchFlag \/ BranchEpoch \/ BranchAwait \/ PollRunPending
               \/ FinishUnregister
      BY <1>1, <2>4
         DEF PollCancel, BranchFlag, BranchEpoch, BranchAwait, PollRunPending, FinishUnregister,
             tableVars, cancelVars
    <2> QED
      BY <1>5, <2>1, <2>2, <2>3, <2>4 DEF DrainerStep
  <1>6. CASE RunStep
    BY <1>1, <1>6
       DEF RunStep, RunCompile, RunArm, RunRecheck, RunOn, RunLoop, RunCallsHost, RunReturns,
           RunFails, RunInterrupted, tableVars, cancelVars
  <1>7. CASE CallStep
    BY <1>1, <1>7
       DEF CallStep, HostChecks, HostSpawns, HostRefuses, HostCannotSpawn, HostFails,
           HostReturns, tableVars, cancelVars
  <1>8. CASE HostTick \/ ReadStep
    BY <1>1, <1>8 DEF HostTick, ReadStep, HostEof, HostReads, HostOverflows, tableVars, cancelVars
  <1>9. CASE ProgStep
    BY <1>1, <1>9
       DEF ProgStep, ProgEnds, ProgClosesStdout, ProgForks, DescendantEnds, tableVars, cancelVars
  <1>10. CASE UNCHANGED vars
    BY <1>1, <1>10 DEF vars, tableVars, cancelVars
  <1> QED
    BY <1>2, <1>3, <1>4, <1>5, <1>6, <1>7, <1>8, <1>9, <1>10 DEF Next

\* A code job keeps the lifecycle of JobLifecycle: one start, output only while it
\* runs, at most one cancellation, one terminal status (start_code_job,
\* run_code_to_completion, kill_job).
THEOREM CodeJobImplementsLifecycle == Spec => ImplementsLifecycle
  <1>1. Init => Lifecycle!Init
    BY DEF Init, Lifecycle!Init
  <1>2. TypeOK /\ CodeInv /\ [Next]_vars => [Lifecycle!Next]_Lifecycle!vars
    BY LifecycleSimulation
  <1> QED
    BY <1>1, <1>2, CodeInvariant, PTL DEF Spec, ImplementsLifecycle, Lifecycle!Spec

=============================================================================
