------------------------------ MODULE CodeJob ------------------------------
(***************************************************************************)
(* One code job: JobEngine::start_code_job and run_code_to_completion      *)
(* (axp-core/src/job/engine.rs), the WebAssembly runner on its blocking    *)
(* thread (axp-codemode/src/runner.rs), the host capability calls it makes *)
(* (run_resolved_command) and the child process of such a call.            *)
(*                                                                         *)
(* Cancellation has to reach three places: the drainer through a oneshot   *)
(* channel, the component through an interrupt flag and wasmtime's epoch,  *)
(* and a host call through a flag it polls.  kill_job writes them one      *)
(* after the other while the other threads run.                            *)
(*                                                                         *)
(* Abstracted: what the component computes, the fuel it has left (it may   *)
(* run out at any checkpoint), the checks of a host call before its        *)
(* command is run, and content: bytes are counted.  Sessions and audit     *)
(* events are in JobEngine.                                                *)
(***************************************************************************)
EXTENDS Naturals

CONSTANTS
    JobId,          \* the id of the job
    LogByteCap,     \* log_byte_cap of the engine, also the cap of a host call's stdout
    DrainBufSize,   \* most bytes one read takes from a pipe
    MaxText,        \* bound: bytes of a result or error text with its newline
    MayFork         \* programs may leave a descendant holding their stdout

ASSUME CodeJobAssumption ==
    /\ LogByteCap \in Nat
    /\ DrainBufSize \in Nat
    /\ MaxText \in Nat \ {0}
    /\ MayFork \in BOOLEAN

VARIABLES
    \* the engine's tables
    stage,      \* how far start_code_job has come, see Stage
    status,     \* Job.status
    logged,     \* per stream: bytes in the replay log
    entry,      \* the cancels table has an entry for the job
    \* the three ways to cancel, and kill_job, which holds the cancels lock
    signal,     \* the oneshot was sent
    flag,       \* CodeModeInterruptHandle.interrupted
    epoch,      \* epoch of the wasmtime engine
    hostCancel, \* HostCapabilityCancelState.cancelled
    killer,     \* what kill_job has still to do, see Killer
    \* the task run_code_to_completion
    drainer,    \* where it stands, see Drainer
    final,      \* its local `final_status`
    \* the blocking thread run_component_with_interrupt
    runner,     \* where it stands, see Runner
    deadline,   \* epoch deadline of the store
    outcome,    \* how the run ended, see Outcome
    text,       \* bytes of its result or error text
    \* the host call it is in, and the child process
    killed,     \* run_resolved_command's local `killed`
    reaped,     \* its `status` is known
    outDone,    \* its `stdout_done`
    taken,      \* bytes.len()
    child,      \* the process, see Child
    holders     \* who holds the write end of its stdout

tableVars == <<stage, status, logged, entry>>
cancelVars == <<signal, flag, epoch, hostCancel, killer>>
runVars == <<runner, deadline, outcome, text>>
callVars == <<killed, reaped, outDone, taken>>
childVars == <<child, holders>>
taskVars == <<drainer, final>>
vars == <<tableVars, cancelVars, taskVars, runVars, callVars, childVars>>

-----------------------------------------------------------------------------
(* Types *)

Stream == {"stdout", "stderr"}
TerminalStatus == {"exited", "killed", "failed"}

\* "inserted": in the job store; "registered": in the cancels table; "started":
\* the task is spawned.
Stage == {"free", "inserted", "registered", "started"}

\* kill_job: the next of its writes, "idle" when it does not run.
Killer == {"idle", "flag", "epoch", "host"}

\* "poll": about to poll the cancellation channel; "polled": found nothing, about
\* to poll the run; "flag", "epoch": cancelled, in interrupt(); "await": in
\* run.await; "finish": `final` decided; "unregister", "done": in finish_job.
Drainer == {"none", "poll", "polled", "flag", "epoch", "await", "finish", "unregister",
            "done"}

\* "queued": not run yet; "compiled": before set_epoch_deadline; "armed": after
\* it, the flag not looked at; "checkpoint": about to compare epoch and deadline;
\* "code": between two checkpoints; "host": entered a host call, the cancel flag
\* not looked at; "spawn": looked at; "loop": in the select loop; "done".
Runner == {"none", "queued", "compiled", "armed", "checkpoint", "code", "host", "spawn",
           "loop", "done"}

Outcome == {"none", "result", "unit", "error", "interrupted"}

Child == {"none", "running", "success", "failure", "sigkilled"}
Dead == {"success", "failure", "sigkilled"}
Holder == {"child", "descendant"}

TypeOK ==
    /\ stage \in Stage
    /\ status \in {"absent", "running"} \cup TerminalStatus
    /\ logged \in [Stream -> 0..LogByteCap]
    /\ entry \in BOOLEAN
    /\ signal \in BOOLEAN
    /\ flag \in BOOLEAN
    /\ epoch \in 0..2
    /\ hostCancel \in BOOLEAN
    /\ killer \in Killer
    /\ drainer \in Drainer
    /\ final \in {"none"} \cup TerminalStatus
    /\ runner \in Runner
    /\ deadline \in 0..3
    /\ outcome \in Outcome
    /\ text \in 0..MaxText
    /\ killed \in BOOLEAN
    /\ reaped \in BOOLEAN
    /\ outDone \in BOOLEAN
    /\ taken \in 0..LogByteCap
    /\ child \in Child
    /\ holders \in SUBSET Holder

Init ==
    /\ stage = "free"
    /\ status = "absent"
    /\ logged = [p \in Stream |-> 0]
    /\ entry = FALSE
    /\ signal = FALSE
    /\ flag = FALSE
    /\ epoch = 0
    /\ hostCancel = FALSE
    /\ killer = "idle"
    /\ drainer = "none"
    /\ final = "none"
    /\ runner = "none"
    /\ deadline = 0
    /\ outcome = "none"
    /\ text = 0
    /\ killed = FALSE
    /\ reaped = FALSE
    /\ outDone = FALSE
    /\ taken = 0
    /\ child = "none"
    /\ holders = {}

-----------------------------------------------------------------------------
(* start_code_job *)

\* The runner and the flags are built; insert_running_job.
StartInsert ==
    /\ stage = "free"
    /\ stage' = "inserted"
    /\ status' = "running"
    /\ UNCHANGED <<logged, entry, cancelVars, taskVars, runVars, callVars, childVars>>

StartRegister ==
    /\ stage = "inserted"
    /\ stage' = "registered"
    /\ entry' = TRUE
    /\ UNCHANGED <<status, logged, cancelVars, taskVars, runVars, callVars, childVars>>

\* The task is spawned and puts the run on a blocking thread.
StartLaunch ==
    /\ stage = "registered"
    /\ stage' = "started"
    /\ drainer' = "poll"
    /\ runner' = "queued"
    /\ UNCHANGED <<status, logged, entry, cancelVars, final, deadline, outcome, text, callVars,
                   childVars>>

-----------------------------------------------------------------------------
(* kill_job, under the lock of the cancels table.  CodeModeInterruptHandle::    *)
(* interrupt stores the flag and then increments the epoch.                     *)

\* The entry is taken and the oneshot sent.
KillSend ==
    /\ killer = "idle"
    /\ entry
    /\ entry' = FALSE
    /\ signal' = TRUE
    /\ killer' = "flag"
    /\ UNCHANGED <<stage, status, logged, flag, epoch, hostCancel, taskVars, runVars, callVars,
                   childVars>>

KillFlag ==
    /\ killer = "flag"
    /\ flag' = TRUE
    /\ killer' = "epoch"
    /\ UNCHANGED <<tableVars, signal, epoch, hostCancel, taskVars, runVars, callVars, childVars>>

KillEpoch ==
    /\ killer = "epoch"
    /\ epoch' = epoch + 1
    /\ killer' = "host"
    /\ UNCHANGED <<tableVars, signal, flag, hostCancel, taskVars, runVars, callVars, childVars>>

\* Mutant of KillHost: only the component is interrupted.
KillNoHost ==
    /\ killer = "host"
    /\ killer' = "idle"
    /\ UNCHANGED <<tableVars, signal, flag, epoch, hostCancel, taskVars, runVars, callVars,
                   childVars>>

\* Mutant of KillHost: kill_job marks a running job killed itself, although its task
\* may be about to write the result of a run that ended before.
KillHostMarksKilled ==
    /\ killer = "host"
    /\ hostCancel' = TRUE
    /\ status' = IF status = "running" THEN "killed" ELSE status
    /\ killer' = "idle"
    /\ UNCHANGED <<stage, logged, entry, signal, flag, epoch, taskVars, runVars, callVars,
                   childVars>>

\* The host flag last; the lock is released and ok: true answered.
KillHost ==
    /\ killer = "host"
    /\ hostCancel' = TRUE
    /\ killer' = "idle"
    /\ UNCHANGED <<tableVars, signal, flag, epoch, taskVars, runVars, callVars, childVars>>

\* A cancellation was accepted and its request answered.
KillReturned == signal /\ killer = "idle"

-----------------------------------------------------------------------------
(* run_code_to_completion.  One poll of its biased select! looks at the channel *)
(* first and at the run second; other threads run between the two looks.        *)

PollCancel ==
    /\ drainer = "poll"
    /\ drainer' = IF signal THEN "flag" ELSE "polled"
    /\ UNCHANGED <<tableVars, cancelVars, final, runVars, callVars, childVars>>

\* The cancelled branch interrupts once more ...
BranchFlag ==
    /\ drainer = "flag"
    /\ flag' = TRUE
    /\ drainer' = "epoch"
    /\ UNCHANGED <<tableVars, signal, epoch, hostCancel, killer, final, runVars, callVars,
                   childVars>>

\* Mutant of BranchEpoch: the status is decided without waiting for the run.
BranchEpochNoAwait ==
    /\ drainer = "epoch"
    /\ epoch' = epoch + 1
    /\ drainer' = "finish"
    /\ final' = "killed"
    /\ UNCHANGED <<tableVars, signal, flag, hostCancel, killer, runVars, callVars, childVars>>

BranchEpoch ==
    /\ drainer = "epoch"
    /\ epoch' = epoch + 1
    /\ drainer' = "await"
    /\ UNCHANGED <<tableVars, signal, flag, hostCancel, killer, final, runVars, callVars,
                   childVars>>

\* ... and waits for the run, whose outcome is discarded.
BranchAwait ==
    /\ drainer = "await"
    /\ runner = "done"
    /\ drainer' = "finish"
    /\ final' = "killed"
    /\ UNCHANGED <<tableVars, cancelVars, runVars, callVars, childVars>>

\* The run is not done: the task sleeps until the channel or the run wakes it.
PollRunPending ==
    /\ drainer = "polled"
    /\ runner # "done"
    /\ drainer' = "poll"
    /\ UNCHANGED <<tableVars, cancelVars, final, runVars, callVars, childVars>>

\* InMemoryJobReplayLog::append, the cap test.
Fits(n) == logged["stdout"] + logged["stderr"] + n <= LogByteCap

\* push_text_result; an overflow leaves the log as it is.
PushText(p, n) == logged' = IF Fits(n) THEN [logged EXCEPT ![p] = @ + n] ELSE logged

\* Mutant of TakeResult: a result that does not fit is ignored.
TakeResultUnchecked ==
    /\ drainer = "polled"
    /\ outcome \in {"result", "unit"}
    /\ IF outcome = "result" THEN PushText("stdout", text) ELSE UNCHANGED logged
    /\ final' = "exited"
    /\ drainer' = "finish"
    /\ UNCHANGED <<stage, status, entry, cancelVars, runVars, callVars, childVars>>

\* The component returned: its string, if it has one, goes to stdout.
TakeResult ==
    /\ drainer = "polled"
    /\ outcome \in {"result", "unit"}
    /\ IF outcome = "result" THEN PushText("stdout", text) ELSE UNCHANGED logged
    /\ final' = IF outcome = "result" /\ ~Fits(text) THEN "failed" ELSE "exited"
    /\ drainer' = "finish"
    /\ UNCHANGED <<stage, status, entry, cancelVars, runVars, callVars, childVars>>

\* It failed: the reason goes to stderr, if it fits.
TakeError ==
    /\ drainer = "polled"
    /\ outcome \in {"error", "interrupted"}
    /\ PushText("stderr", text)
    /\ final' = "failed"
    /\ drainer' = "finish"
    /\ UNCHANGED <<stage, status, entry, cancelVars, runVars, callVars, childVars>>

\* finish_job: the terminal status ...
FinishStatus ==
    /\ drainer = "finish"
    /\ status' = final
    /\ drainer' = "unregister"
    /\ UNCHANGED <<stage, logged, entry, cancelVars, final, runVars, callVars, childVars>>

\* ... and the cancels entry, when no kill_job holds the lock.
FinishUnregister ==
    /\ drainer = "unregister"
    /\ killer = "idle"
    /\ entry' = FALSE
    /\ drainer' = "done"
    /\ UNCHANGED <<stage, status, logged, cancelVars, final, runVars, callVars, childVars>>

-----------------------------------------------------------------------------
(* run_component_with_interrupt.  A checkpoint is where wasmtime compares the   *)
(* epoch with the deadline: on entry of a function and in every loop.           *)

\* The run is over; its outcome is what the join handle yields.
RunEnds(how, n) ==
    /\ runner' = "done"
    /\ outcome' = how
    /\ text' = n

RunCompile ==
    /\ runner = "queued"
    /\ runner' = "compiled"
    /\ UNCHANGED <<tableVars, cancelVars, taskVars, deadline, outcome, text, callVars, childVars>>

\* set_epoch_deadline(DEFAULT_EPOCH_DEADLINE) is relative to the current epoch.
RunArm ==
    /\ runner = "compiled"
    /\ deadline' = epoch + 1
    /\ runner' = "armed"
    /\ UNCHANGED <<tableVars, cancelVars, taskVars, outcome, text, callVars, childVars>>

\* Mutant of RunRecheck: the flag is not looked at.
RunNoRecheck ==
    /\ runner = "armed"
    /\ UNCHANGED deadline
    /\ runner' = "checkpoint"
    /\ UNCHANGED <<tableVars, cancelVars, taskVars, outcome, text, callVars, childVars>>

\* An interrupt that came before the deadline was armed is in the flag.
RunRecheck ==
    /\ runner = "armed"
    /\ deadline' = IF flag THEN epoch ELSE deadline
    /\ runner' = "checkpoint"
    /\ UNCHANGED <<tableVars, cancelVars, taskVars, outcome, text, callVars, childVars>>

\* A component that does not compile, link or export the entry point, traps, or
\* runs out of fuel.
RunFails(n) ==
    /\ runner \in {"queued", "compiled", "checkpoint", "code"}
    /\ RunEnds("error", n)
    /\ UNCHANGED <<tableVars, cancelVars, taskVars, deadline, callVars, childVars>>

\* epoch_deadline_trap.
RunInterrupted(n) ==
    /\ runner = "checkpoint"
    /\ epoch >= deadline
    /\ RunEnds("interrupted", n)
    /\ UNCHANGED <<tableVars, cancelVars, taskVars, deadline, callVars, childVars>>

RunOn ==
    /\ runner = "checkpoint"
    /\ epoch < deadline
    /\ runner' = "code"
    /\ UNCHANGED <<tableVars, cancelVars, taskVars, deadline, outcome, text, callVars, childVars>>

\* From one checkpoint to the next, to a host call, or to the end.
RunLoop ==
    /\ runner = "code"
    /\ runner' = "checkpoint"
    /\ UNCHANGED <<tableVars, cancelVars, taskVars, deadline, outcome, text, callVars, childVars>>

RunReturns(how, n) ==
    /\ runner = "code"
    /\ RunEnds(how, n)
    /\ UNCHANGED <<tableVars, cancelVars, taskVars, deadline, callVars, childVars>>

RunCallsHost ==
    /\ runner = "code"
    /\ runner' = "host"
    /\ UNCHANGED <<tableVars, cancelVars, taskVars, deadline, outcome, text, callVars, childVars>>

-----------------------------------------------------------------------------
(* invoke_code_capability and run_resolved_command.  An error of the host call  *)
(* traps the component.                                                         *)

\* Not granted, bad parameters, unknown name; or already cancelled.
HostRefuses(n) ==
    /\ runner = "host"
    /\ RunEnds("error", n)
    /\ UNCHANGED <<tableVars, cancelVars, taskVars, deadline, callVars, childVars>>

HostChecks ==
    /\ runner = "host"
    /\ ~hostCancel
    /\ runner' = "spawn"
    /\ UNCHANGED <<tableVars, cancelVars, taskVars, deadline, outcome, text, callVars, childVars>>

\* The command is spawned with its stdout piped, whatever the flag says by now.
HostSpawns ==
    /\ runner = "spawn"
    /\ runner' = "loop"
    /\ killed' = FALSE
    /\ reaped' = FALSE
    /\ outDone' = FALSE
    /\ taken' = 0
    /\ child' = "running"
    /\ holders' = {"child"}
    /\ UNCHANGED <<tableVars, cancelVars, taskVars, deadline, outcome, text>>

HostCannotSpawn(n) ==
    /\ runner = "spawn"
    /\ RunEnds("error", n)
    /\ UNCHANGED <<tableVars, cancelVars, taskVars, deadline, callVars, childVars>>

\* The select loop is left when the exit status is known and stdout at its end.
CallOver == reaped /\ outDone

\* start_kill: SIGKILL reaches the child alone.
StartKill ==
    IF child = "running"
    THEN child' = "sigkilled" /\ holders' = holders \ {"child"}
    ELSE UNCHANGED childVars

\* Mutant of HostTick: the tick only reaps.
HostTickReaps ==
    /\ runner = "loop"
    /\ ~CallOver
    /\ reaped' = (child \in Dead)
    /\ UNCHANGED <<tableVars, cancelVars, taskVars, runVars, killed, outDone, taken, childVars>>

\* The tick: kill once if cancelled, then try_wait.  A child killed by this very
\* tick is reaped by the next one.
HostTick ==
    /\ runner = "loop"
    /\ ~CallOver
    /\ IF hostCancel /\ ~killed
       THEN killed' = TRUE /\ StartKill
       ELSE UNCHANGED <<killed, childVars>>
    /\ reaped' = (child \in Dead)
    /\ UNCHANGED <<tableVars, cancelVars, taskVars, runVars, outDone, taken>>

\* A chunk of stdout, written before the read by whoever held the pipe.
HostReads(n) ==
    /\ runner = "loop"
    /\ ~CallOver
    /\ ~outDone
    /\ taken + n <= LogByteCap
    /\ taken' = taken + n
    /\ UNCHANGED <<tableVars, cancelVars, taskVars, runVars, killed, reaped, outDone, childVars>>

\* A chunk beyond the cap: the child is killed and the call fails at once.
HostOverflows(n, reason) ==
    /\ runner = "loop"
    /\ ~CallOver
    /\ ~outDone
    /\ taken + n > LogByteCap
    /\ StartKill
    /\ RunEnds("error", reason)
    /\ UNCHANGED <<tableVars, cancelVars, taskVars, deadline, callVars>>

HostEof ==
    /\ runner = "loop"
    /\ ~CallOver
    /\ ~outDone
    /\ holders = {}
    /\ outDone' = TRUE
    /\ UNCHANGED <<tableVars, cancelVars, taskVars, runVars, killed, reaped, taken, childVars>>

\* Killed, cancelled meanwhile, not successful, or not UTF-8.
HostFails(n) ==
    /\ runner = "loop"
    /\ CallOver
    /\ RunEnds("error", n)
    /\ UNCHANGED <<tableVars, cancelVars, taskVars, deadline, callVars, childVars>>

\* The output is handed to the component, which goes on.
HostReturns ==
    /\ runner = "loop"
    /\ CallOver
    /\ ~killed
    /\ ~hostCancel
    /\ child = "success"
    /\ runner' = "code"
    /\ UNCHANGED <<tableVars, cancelVars, taskVars, deadline, outcome, text, callVars, childVars>>

-----------------------------------------------------------------------------
(* The child process of a host call *)

ProgEnds(how) ==
    /\ child = "running"
    /\ child' = how
    /\ holders' = holders \ {"child"}
    /\ UNCHANGED <<tableVars, cancelVars, taskVars, runVars, callVars>>

ProgClosesStdout ==
    /\ child = "running"
    /\ "child" \in holders
    /\ holders' = holders \ {"child"}
    /\ UNCHANGED <<tableVars, cancelVars, taskVars, runVars, callVars, child>>

ProgForks ==
    /\ MayFork
    /\ child = "running"
    /\ "child" \in holders
    /\ holders' = Holder
    /\ UNCHANGED <<tableVars, cancelVars, taskVars, runVars, callVars, child>>

DescendantEnds ==
    /\ "descendant" \in holders
    /\ holders' = holders \ {"descendant"}
    /\ UNCHANGED <<tableVars, cancelVars, taskVars, runVars, callVars, child>>

-----------------------------------------------------------------------------

StartStep == StartInsert \/ StartRegister \/ StartLaunch

\* What kill_job does once it holds the entry.
KillRest == KillFlag \/ KillEpoch \/ KillHost

DrainerStep ==
    \/ PollCancel
    \/ BranchFlag
    \/ BranchEpoch
    \/ BranchAwait
    \/ PollRunPending
    \/ TakeResult
    \/ TakeError
    \/ FinishStatus
    \/ FinishUnregister

RunStep ==
    \/ RunCompile
    \/ RunArm
    \/ RunRecheck
    \/ RunOn
    \/ RunLoop
    \/ RunCallsHost
    \/ RunReturns("unit", 0)
    \/ \E n \in 1..MaxText : RunFails(n) \/ RunInterrupted(n) \/ RunReturns("result", n)

CallStep ==
    \/ HostChecks
    \/ HostSpawns
    \/ \E n \in 1..MaxText : HostRefuses(n) \/ HostCannotSpawn(n) \/ HostFails(n)
    \/ HostReturns

\* The arms of the select! in run_resolved_command.
ReadStep ==
    \/ HostEof
    \/ \E n \in 1..DrainBufSize :
          HostReads(n) \/ \E reason \in 1..MaxText : HostOverflows(n, reason)

ProgStep ==
    \/ \E how \in {"success", "failure"} : ProgEnds(how)
    \/ ProgClosesStdout
    \/ ProgForks
    \/ DescendantEnds

Next == StartStep \/ KillSend \/ KillRest \/ DrainerStep \/ RunStep \/ CallStep \/ HostTick
        \/ ReadStep \/ ProgStep

Spec == Init /\ [][Next]_vars

\* The runtime polls every ready task and arm (the select! of a host call picks
\* a ready arm at random), the blocking thread and a kill_job under way run on.
\* Nothing is assumed of the host's programs, and a component may loop for ever:
\* that its fuel ends is not used.
FairSpec ==
    /\ Spec
    /\ WF_vars(StartRegister)
    /\ WF_vars(StartLaunch)
    /\ WF_vars(KillRest)
    /\ WF_vars(DrainerStep)
    /\ WF_vars(RunStep)
    /\ WF_vars(CallStep)
    /\ WF_vars(HostTick)
    /\ WF_vars(HostEof)

-----------------------------------------------------------------------------
(* Properties *)

\* The component has its deadline and can only be stopped by it.
PastArming == runner \in {"checkpoint", "code", "host", "spawn", "loop"}

\* Once a cancellation is answered the component will not pass another checkpoint,
\* wherever its start stood when the interrupt came: the interrupt is in the epoch,
\* or in the flag that is read after the deadline is armed (runner.rs,
\* run_component_with_interrupt and interrupt).
InterruptIsNotLost == KillReturned /\ PastArming => epoch >= deadline

\* A job in a terminal status has no thread and no process left: the run is over
\* and the child of its last host call is dead (engine.rs, `run.await` in the
\* cancelled branch, start_kill in run_resolved_command).
NothingOutlivesTheJob == status \in TerminalStatus => runner = "done" /\ child # "running"

\* The status and the log tell what the run did: an exited job's result is in the
\* log in full, a killed job logs nothing, and a failed one either failed or had a
\* result that does not fit (engine.rs, the arms of run_code_to_completion).
StatusTellsTheRun ==
    /\ status = "exited" => /\ outcome \in {"result", "unit"}
                            /\ logged["stdout"] = text
                            /\ logged["stderr"] = 0
    /\ status = "killed" => signal /\ \A p \in Stream : logged[p] = 0
    /\ status = "failed" => \/ outcome \in {"error", "interrupted"}
                            \/ outcome = "result" /\ text > LogByteCap

\* A cancelled job reaches its terminal status, whatever its component and the
\* host's programs do, unless a descendant keeps a stdout open for ever (engine.rs,
\* run_code_to_completion and the ticks of run_resolved_command).
CancelledJobEnds ==
    <>[]("descendant" \notin holders) => (signal ~> status \in TerminalStatus)

\* The child of a cancelled job's host call dies, also when it has closed its
\* stdout or a descendant holds it (engine.rs, the tick of run_resolved_command).
CancelledChildDies == (signal /\ child = "running") ~> child # "running"

-----------------------------------------------------------------------------
(* Refinement *)

Lifecycle == INSTANCE JobLifecycle WITH
    Job <- {JobId},
    MaxChunk <- MaxText,
    status <- [j \in {JobId} |-> status],
    output <- [j \in {JobId} |-> logged],
    cancelled <- {j \in {JobId} : signal}

\* A code job and a command job keep the same promise to their clients.
ImplementsLifecycle == Lifecycle!Spec

=============================================================================
