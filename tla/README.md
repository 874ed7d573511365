# A verification project for AXP

AXP runs jobs on behalf of agents: a session holds capabilities and a workspace,
a job is a sandboxed command, a provider call or a WebAssembly component, and its
output is kept in a replay log that clients attach to over SSE, as often as their
connections break.  This directory holds TLA+ specifications of that program, the
configurations that check them with TLC, and proofs checked by TLAPS.
`PROJECT.json` lists components, runs, mutants, theorems, findings and hazards and
maps every definition to the lines it models.  Paths below are relative to the
repository's `crates/`; `core/` stands for `axp-core/src/`.

    tlc -config MCRegistry_registry.cfg MCRegistry   # one run
    tlapm Registry_proofs.tla                        # one module of proofs

## 1. Inventory

| Component | State | Operations | Talks to |
|---|---|---|---|
| Job engine (`core/job/engine.rs`, `store.rs`, `status.rs`) | job index (`RwLock<HashMap>`), one `RwLock<Job>` per job, `cancels: Mutex<HashMap>`, id counter | `start`, `status`, `attach`, `cancel`, `cancel_for_session`, the drainer task `run_to_completion` / `finish_job` | sessions (grants, audit), replay log, sandbox, registry, code mode |
| Code jobs (`engine.rs` `start_code_job`, `run_code_to_completion`; `axp-codemode/src/runner.rs`) | an interrupt flag shared by engine and component, fuel, the epoch | run, interrupt, host capability call with its own cancel flag | engine, registry, wasmtime |
| In-memory replay log (`core/job/log.rs`) | events, byte total, cap, a `Notify` | `append`, `replay_from`, `subscribe` | engine, attach stream |
| File replay log (`core/job/log.rs`) | a framed file and the same tables in memory | `open` (decoding), `append` | nothing: exported, the engine does not use it |
| Attach stream (`engine.rs` `JobLogStream`, `axp-transport/src/attach.rs`) | cursor, pending frames, a `Notified` future | `next`, SSE body, resume offset | log, client |
| Sessions and tokens (`core/session.rs`, `core/auth.rs`) | map from ids to `Arc<RwLock<Session>>`, audit events and token per session | `open`, `authorize`, `get`, `record_audit`, `close` | engine, transport |
| Capabilities and workspace (`core/capability.rs`, `workspace.rs`) | none (values) | parse, `permits`, path containment | sessions, engine, providers |
| Provider registry (`core/registry.rs`, `provider.rs`, `builtins.rs`, `mcp.rs`) | providers by id, catalog by exposed name, owners counted per local name | `register`, `index_for_capabilities`, `describe`, `resolve` | engine, transport |
| Transport (`axp-transport/src/*`) | shared handles, the session id counter | JSON-RPC dispatch, authorization, one handler per method | everything above |
| Client (`axp-client/src/*`) | session token, SSE decoder buffer | open, start, attach with resume, cancel | transport |
| Sandbox (`axp-sandbox/src/*`) | none (a policy value, then kernel state) | tier decision, landlock, seccomp | engine |
| CLI and wire types (`axp-cli`, `axp-proto`) | none | argument and configuration reading, serde records | transport |

A request enters through `dispatch`, is authorized against the session store, and
acts on the job engine, the registry or the session.  `start` leaves a drainer
task behind that reads the child's pipes (or awaits the component), appends to
the replay log and ends in `finish_job`, which writes the status, wakes the
subscribers, audits and removes the cancellation entry.  An attach stream and the
drainer share the job's lock and a `Notify`.  No lock is held across an `await`,
so requests, drainers and streams interleave between any two locked sections.

What is hard in it, and what would make it right:

| Component | Hard behaviour | Correct means |
|---|---|---|
| Job engine | `start`, `cancel`, the sweep, `close` and the three locked sections of `finish_job` interleave; cancellation meets buffered output; pipes that close early or that a descendant keeps open; reads and waits that fail; the log cap | a job lives through one start, one accepted cancellation and one terminal status; its status has its cause; no output is lost silently; tables neither leak nor lose a running job; the audit log is its history; a cancelled process dies |
| Code jobs | one cancellation written to three places while the runner compiles, arms its deadline, runs, and waits inside a host call | an answered cancellation stops the component wherever it stood; nothing is left running behind a terminal status; status and log agree |
| Replay log, attach stream | `Notify` wakes only who has registered; status and log are read together; connections break with frames in flight | no lost wake-up, no truncated or hanging stream, no gap after any number of reconnections |
| File log | crash between write and sync, partial writes, failing syncs | acknowledged events survive, whatever stops; what is left of a frame is never taken for data; memory is what the file would be opened with |
| Sessions, transport | authorization and use are separate look-ups; handles outlive the map entry; concurrent closes and opens | after an answered close nothing is authorized, before a close nothing is refused, and objects and jobs are those of the token |
| Registry | a second owner renames the first; listings come in any order; names with colons meet qualified ones; clients hold old names | one canonical name and one entry per capability; an old name never reaches another capability; what is visible is what can be started |
| Capabilities, workspace | path prefixes, domain suffixes, attenuation | `permits` is a preorder, and a set of permitted grants permits nothing its origin does not |
| Launch, sandbox | checks, policy and spawn look at the file system at different times; tiers a kernel does not have; names that depend on what else is mounted | a child has what was granted for it or is not made; it is the command its name was mounted with; a job exists exactly if it started |
| Client decoder | chunks split anywhere, CRLF, multi-line data, comments, cut bodies | the frames given out are those that have arrived, in order, and all of them when the stream ended cleanly |
| `axp demo runtime` | every call may break before or after it took effect; polling against a timeout | success is only reported of what happened; what is left behind was lost on the way; it ends |
| Command line | built-ins meet mounted names; a mount refused half-way | a server comes up with its whole mount or not at all, and a name stands for what was mounted under it |

## 2. Modules

    LogDelivery   <--implements--  LogStream      MCLogStream   LogStream_proofs
    JobLifecycle  <--implements--  JobEngine      MCJobEngine   JobEngine_proofs
                  <--implements--  CodeJob        MCCodeJob     CodeJob_proofs
    DurableLog    <--implements--  FileLog        MCFileLog     FileLog_proofs
    FrameTime     <--extends-----  FileLog
                                   Registry       MCRegistry    Registry_proofs
                                   Requests       MCRequests    Requests_proofs
    Capability    <--extends-----  Sandbox, Mount
    Sandbox, Mount <--extended by-- Launch        MCLaunch      Launch_proofs
    SseFrames     <--extends-----  Demo           MCDemo        Demo_proofs

Three questions cut the system.  What happens to a job and its log: JobEngine,
CodeJob, LogStream, FileLog.  Who may do what: Requests, Registry, Capability,
Launch.  What a program at the other end of the connection can rely on:
LogStream's client, SseFrames, Demo.

**JobLifecycle** (abstract): what a client is promised of any job.  One start,
output only while running, at most one accepted cancellation, one terminal status
and no change after it.

**JobEngine**: command and capability jobs.  `StartAdmit` to `StartLaunch` are the
locked sections of `start`; `Cancel`, `CancelForSession` and `SweepJob` the request
paths; `DrainCancel`, `DrainRead`, `DrainOverflow`, `DrainEof`, `DrainReadFails` the
arms of the drain loop; `FinishStatus`, `FinishAudit`, `FinishUnregister` the sections of
`finish_job`; the `Prog...` actions the child and its descendant.
The capability, policy, payload and working-directory checks, which change
nothing, are one refusal (`StartRefuse`) that may happen after admission.
Merged into one step, because nothing can come between that is visible:
`next_job_id` and the insertion of the job; `lookup_owned` and `kill_job` (the
owner of a job never changes).  `record_session_audit` is one step here and two
in Requests.  The select! is biased, but each arm may or may not be ready when it
is polled, so any ready arm may be taken.  `SystemFails` has a read from a pipe fail,
which the code takes for the end of the pipe, or `child.wait` fail, after which the
status is written with the child alive; it is killed when the drainer returns and
drops it (`kill_on_drop`).  `broken` is history, what a failed read has hidden.

**CodeJob**: one code job.  `KillSend`, `KillFlag`, `KillEpoch`, `KillHost` are the
writes of `kill_job` in their order; the `Poll...`/`Branch...`/`Take...` actions
the task `run_code_to_completion`, whose select! makes two looks in one poll; the
`Run...` actions the blocking thread of `runner.rs` with the arming of its epoch
deadline and the second look at the flag; the `Host...` actions
`run_resolved_command`.  Atomics are sequentially consistent; what the component
computes is nondeterministic, and it may run out of fuel at any checkpoint, which
no liveness property uses; compilation and instantiation are one step, a failed
join is an error like any other; a child that got SIGKILL is reaped by the next
tick.  Audit events are in JobEngine.

**LogDelivery** (abstract): an append-only log, closed once, and connections that
each receive their suffix in order and end only when nothing is missing.

**LogStream**: the in-memory log, `Notify`, `JobLogStream::next` in its four steps
(`Yield`, `Arm`, `Read`, `Wake`), `attach_sse` with the `Last-Event-ID` header, and
a client that resumes.  `Notified` is modelled from tokio's documentation of
`enable`: registered means that the next `notify_waiters` wakes it.

**FrameTime**: `encode_timestamp` and `decode_timestamp`, with the borrow below the
epoch; a second has `NanosPerSec` nanoseconds and an i64 reaches `MaxSecs`.

**DurableLog** (abstract): a sequence of events of which a first part is safe, and a
handle through which all of it is seen.  An append is written, then accepted; accepting
makes everything up to it safe; a stop of the machine takes away events from the end that
were not safe.  After a failed append nothing is promised.

**FileLog**: the file as a sequence of cells, `open` in its three cases, `append`
as write, sync and publication, each able to fail, a process that ends and a
machine that loses what was not synced; an event carries its time as FrameTime
encodes it, and one that cannot be encoded is refused.  A fixed part that is torn or
starts in the wrong place is rejected (the code rejects all but freak byte patterns);
one that is swallowed as data counts as one byte where it is 29.  The directory of a new
file is taken to be synced with its header, which the code leaves to the file system.  Its log, as
DurableLog sees it, is what `decode_file_log` makes of the file up to where it gives
up, and the safe part what it would make of the cells that were synced.  Two things
follow from the mapping that the code does not say: an append that was written and never
answered may be there after the next open, and it is seen then, but is not safe before
the next append is accepted, because `open` syncs only a header it has just written.

**Registry**: `register` with the promotion of a colliding name, one listing per
step in any order; `index_for_capabilities`, `describe`, `resolve` and what
`start` makes of a capability payload; a client keeps the last index it saw.
Descriptions, parameter binding and commands are in Mount, signatures are left out.

**Requests**: every handler as its look-ups and locked sections over the session
store and the job store, with a drainer that audits late.  A session object is
named by its token and outlives its map entry for whoever holds a handle.
`job.status`, `job.cancel` and attach are one `QueryJob`: they reach their job in
the same way, and what they do to it is in JobEngine and LogStream.  `told` and
`heard` are history: what had been answered when a request was sent.

**Capability**: `RuntimeCapability::parse_str`, `Display`, `permits`, and
`CapabilitySet`.  A path is its components, a domain its labels, a wire string the
prefix `parse_str` looks for and what its checks look at; `Narrows` says what it means
to hold no more authority, without looking at how `permits` decides.

**Sandbox**: `build_sandbox_policy`, `apply` with each of its errors (a tier that is
not built, a kernel without Landlock, a machine seccompiler does not know, a path
that cannot be opened), the rules of a policy and what they allow.  The kernel is
taken to enforce the rules it accepted; landlock and seccomp run as one hook between
fork and exec.

**Mount**: `axp serve`'s two ways to configure a mount with every refusal, the
description checks, the three built-ins, the catalogs the two providers may come to
(`Catalogs`: of two entries put under one name the last stays), and `resolve` down to
program and arguments.

**Launch** composes the last three: `Serve`; `Open` with the errors of
`session_open`; `Start` with the checks of `start` in its order (`PayloadError`,
`CwdOk`, `CapabilitiesError`), `HostCalls` with those of `invoke_code_capability`;
`Apply` and `Spawn` with their failures; and `Vanish`, a directory that is removed
between any two of these.  Sessions stay open and jobs are not cancelled here:
JobEngine and Requests have that.

**SseFrames**: what the attach handler writes for a frame, keep-alive comments
included, in the layouts an SSE server may choose, and `SseFrameDecoder` (`push`,
`finish`) over tokens; a body may be cut between any two.  `Scan` is the loop of `push`,
one token at a time.  Of the lines of an unfinished event (`current`) the model keeps
what `decode_sse_event` will take from them, in `sawData` and `data`.

**Demo**: programs written with the client.  A call is asked, executed and answered
in separate steps (`Ask`, `Execute`, `Accept...`); `Break` loses it before or after
the server executed it, `Straggle` executes later what was asked on a broken
connection.  `axp demo runtime` is the sequence of its calls with `wait_terminal` in
ticks; the watch is `attach_job_stream` with `next_frame` over a body that arrives in
any chunks (`ReadChunk`), ends (`ReadEnd`) or is cut (`Cut`).

## 3. Runs

`CHECK_DEADLOCK FALSE` stands where the system may stop: all clients gone and all
jobs finished, all appends tried, all providers registered.  Requests never stops.
Symmetry is used in safety runs only.

| Run | Question | Instance | Distinct states |
|---|---|---|---|
| `stream` | Is a wake-up ever lost, an ended stream incomplete, an event missed on resumption; does the log keep LogDelivery's promise and does every stream end? | one client, three connections, offsets 0 and 2, cap 4, chunks up to 2; fairness | 222,160 |
| `resume_header` | Does a resumed connection begin behind its `Last-Event-ID`? | one client, two connections, cap 2, chunks of 1 | violated |
| `engine` | Is output lost, has a status its cause, do the tables and audit logs agree with the job, is JobLifecycle kept, do cancelled processes die and dead jobs finish? | two sessions, one job, cap 2, buffer 2, up to two bytes written to each stream, early closed pipes, a descendant, failing reads and a failing wait; fairness | 1,037,709 |
| `close_leaves_jobs` | Does closing a session stop its jobs? | one session, one job | violated |
| `closed_pipes` | Does an accepted cancellation kill the program? | one job that may close its pipes; fairness | violated |
| `code` | Is an interrupt lost, does anything outlive a job, does a cancelled component end? | one job, cap 2, texts up to 3, a descendant; fairness | 7,338 |
| `file_safety` | Do acknowledged events survive, time and all, is what opens whole, does memory agree with the file, and is DurableLog kept? | cap 3, payloads up to 2, three attempts, four times on both sides of the epoch and at the end of the range | 66,502 |
| `file_failed_append` | Does a failed append leave the data unchanged? | cap 3, payloads of 1, two attempts | violated |
| `registry` | Are catalog names canonical and lasting, is what is visible what can be started? | three providers `a`, `b` and `a:b`, two local names `x` and `b:x`, one session | 311,929 |
| `requests` | Do sessions stay apart, and do close and the other requests keep their order? | two requests at a time, two session ids, one job | 1,133,256 |
| `launch` | Does a child have what was granted and run what was granted, and does a job exist exactly if it started? | 40 command lines, two sessions, one job, all tiers and kernels, a tree of eleven paths that vanish; symmetry | 903,733 |
| `demo` | Do the frames not depend on the chunking, is success true, is anything left behind, does the demo end? | three frames, timeout 5 and interval 2 ticks, three faults, one keep-alive; fairness | 98,980 |

Why the bounds are enough to be interesting.  *LogStream*: chunks of one and two bytes
against a cap of four fill it exactly, pass it and stay below it; offset 2 is past the
end of a log at first; three connections allow two resumptions in the middle of a log.
Clients share only the log and the `Notify`, and the safety theorems hold for any number
of them.  *JobEngine*: up to two bytes on each of two streams against a cap of two,
pipes that close early, a descendant, calls that fail, and two sessions of which one
does not own the job.  Jobs share the two tables, in which each has its own entries;
that they do not disturb one another is what the theorems say for any number of jobs.
*CodeJob*: texts of up to three bytes against a cap of two.  *FileLog*: three attempts
of up to two bytes against a cap of three: a torn frame, one behind it and one that does
not fit; a second of three nanoseconds has a first, an inner and a last one on both
sides of the epoch.  *Registry*: three providers and two names meet all three cases of
`register`, a bare name that is the qualified name of another capability (`b:x`), and
two equal qualified names (`a:b:x`).  *Requests*: two requests at a time and two session
ids: a close between the two look-ups of another request, two closes at a time, two
opens at a time.  *Launch*: grants on a directory, on a directory beneath it and on a
file; a workspace, a program outside the baseline, a baseline path the host lacks; a
mounted tool that collides with a built-in, and one that is called as the built-in then
is (`native:git_log`); descriptions of 9, 10, 40 and 121 characters, blank, broken and
echoing.  *Demo*: one frame that has been read, one that is being read and one on its
way; an interval that does not divide the timeout.

**Fairness.**  LogStream: the runtime polls every ready task (`Serve`), and a status
that was written is notified (`NotifyTerminal` follows in the same function); nothing is
assumed of the client's reading.  JobEngine: `StartRegister` and `StartLaunch` (no await
in between), `DrainCancel` (the biased arm: output cannot starve it), `DrainStep`,
`FinishStep`; nothing makes a call of the system fail.  CodeJob: `KillRest`,
`DrainerStep`, `RunStep`, `CallStep`, `HostTick` (the 10 ms interval) and `HostEof`.
Demo: a server that was asked answers unless the connection breaks (`Server`), the
program goes on (`Calls`, `FinishBody`) and time passes (`Tick`); without the first,
`axp-client` hangs, as it sets no timeout.  All are weak.  Nothing is assumed of
programs, descendants, components, fuel or clients, and in Demo nothing of the job.

**Mutants.**  Every property of a passing run has a mutant: a plausible mistake in
one definition, next to it in the module ("Mutant of ..."), under which TLC finds
the property violated.

## 4. Findings

| Run | What the code does | What is said of it |
|---|---|---|
| `resume_header` | `Last-Event-ID` is taken as the first seq to replay, so a reconnecting client gets its last frame twice | "Resumption follows standard SSE semantics" (`axp-transport/src/attach.rs:7`) |
| `close_leaves_jobs` | `session.close` leaves running jobs unsignalled, and nobody can cancel them any more | `cancel_for_session` is "Intended to be called by the session-close path" (`core/job/engine.rs:765`) |
| `closed_pipes` | once both pipes are at EOF the drainer no longer listens for a cancellation; the program is never killed | "Returns `ok: true` if a running job was signalled" (`core/job/engine.rs:746`) |
| `file_failed_append` | a failed append leaves its bytes in the file, and later ones go behind them | implementations "must leave existing data unchanged when an append fails" (`core/job/log.rs:106`) |

Three more disagreements with the documents have no run: the properties of the passing
runs state what the code does keep, and leave out exactly these cases.

- An error of a read from a pipe is taken for its end (`core/job/engine.rs:584`, `:605`),
  so a job can exit with output missing and nothing that says so, though "output is
  never silently dropped" (`engine.rs:126`).  `NoSilentLoss` excepts the pipes a read of
  which failed (`broken`); nothing else loses output.
- The entry of a capability is put over that of another when its name, with a colon, is
  the qualified name of that one (`core/registry.rs:126`), though "every occurrence is
  qualified as" `<provider_id>:<local_name>` (`registry.rs:13`) and "AXP exposes both
  entries" (`docs/MCP-MOUNTS.md:86`).  `CatalogIsCanonical` and `NamesKeepTheirMeaning`
  except the names that are those of two capabilities (`Ambiguous`).
- The policy of a job is built from all grants of its session (`engine.rs:308`); its own
  capabilities are checked against these and then not used, though they are "Capability
  grants scoped to this job (a subset/attenuation of the session's grants)"
  (`axp-proto/src/job.rs:55`).  `ChildIsConfined` holds every child to its session's
  grants, and asks that it has all of them only of jobs that asked for none of their own.

Seen while modelling, left open by the code, and not contradicted by a document:
a cancel between the sections of `finish_job` answers `ok: true` for a finished
job; a terminal status is visible before `JobFinished` is audited; a start that
was admitted before a close spawns after it, and its `JobStarted` or `JobFinished`
may stand behind `SessionClosed`; a code job cancelled between the two looks of
one poll is reported failed; a truncated file frame can swallow the frames behind
it; `open` does not sync the directory of a file it creates; a code payload
that does not decode is an internal error on the wire where other bad parameters are
invalid params, and an envelope without `method` is a parse error; a description is
judged trimmed and listed untrimmed; the flags form of a mount accepts empty strings
that the file form refuses; the paths of grants are used as written, not resolved, though
`axp-sandbox/src/policy.rs:17` calls them canonical; a file passes as a working directory
until the spawn fails; under `kernel-lsm` a bridge outside the baseline paths runs
only with a grant to read it; a lost answer to `job.start` leaves a job that nobody
cancels; when an SSE event is malformed, the frames before it in the same chunk are
lost with it.

## 5. Proofs

Each theorem holds for every value of the constants that satisfies the module's
named assumptions (`LogStreamAssumption`, ... in the module that declares the
constants).

*LogStream_proofs.*  `TypeInv` adds to `TypeOK` that the log's length is bounded by
its bytes, without which seqs and cursors are not bounded.  `NoLostWakeup` is
inductive with it.  For the rest, `DeliveryInv`: the seq of an event is its offset,
and each connection is in step, that is, what it has yielded followed by what is
pending is the log from its start to its cursor.  From it `EndedIsComplete` and the
simulation of LogDelivery follow; `ResumeInv` adds what the client has and what is
in flight, for `NoGapOnResume`.

*JobEngine_proofs.*  `JobInv` has three parts per job: `Control` ties status,
cancels entry and signal to the positions of `start` and the drainer; `Cause` ties
the status to the child's end; `Output` ties the log to the pipes.
The five safety theorems follow.  `AuditInv` says where each job's events stand in
the logs for each position of the drainer; `OwnedInv` that ownership does not
change.  `EngineImplementsLifecycle` maps each step to a step of JobLifecycle or a
stutter.

*CodeJob_proofs.*  `CodeInv`: `Tables`; `Interrupts`, which follows an interrupt from
the flag to the epoch and compares it with the deadline for every position of
killer and runner; `Run`, which ties the child to the host call; `Verdict`, which
ties status and log to the outcome.

*Registry_proofs.*  `Book` needs no assumption about names: the counters count the
owners.  `Canonical` adds `Routes`, the catalog as a relation between owners and
names, and `SeenIsOffered`, that what a session saw is still offered and was seen
under one of its two names.  `FirstOwner`, `SecondOwner` and `LaterOwner` are the
three cases of `register` as lemmas about functions.  Names and ids are any values, and
`qualified` any function of them: what `format!("{id}:{n}")` makes equal may be equal.
`Ambiguous` names are those that are the qualified name of one capability and a name of
another.  An entry is put over another only under such a name (`PlacedStill`,
`PromoteMoves`), and a name once ambiguous stays so (`ClashGrows`); so the three theorems
hold without an assumption about names.

*Requests_proofs.*  `RequestsInv` has eight parts.  `Names`: ids lie below the counter
and each was handed out once, so that an id belongs to one session object at most,
and to none while its open is under way.  `Handlers`: past the check, the token of a
request is that of its id for good, hence a handle fetched later is that of the token,
although authorization and look-up are separate.  `Jobs` ties a job to the session
that started it, and the handle of its drainer to that session.  `Closes`: a session
that is not in the map has `SessionClosed` in its log or somebody about to write it,
which is what a refusal means; one whose close was answered is out of the map and no
handler with its token is past the check.  `Starts`: the `JobStarted` of an answered
start is in the log of its session, unless the session is out of the map, when no
audit can be asked for any more.  The last three are there for `LogIsOrdered`: `Logs`
is the order of the events in a log; `ClosesOnce`, that of two closes under way at most
one will write `SessionClosed`, so that it is always new to the log; `JobsInLog`, which
events of a job are in its session's log for each position of its start and its drainer,
so that the drainer's two late events cannot both come behind a close.  None of the
properties is inductive by itself.

*FileLog_proofs.*  `StampsRoundTrip` is integer arithmetic over the four cases of sign
and borrow.  `FileInv` is `Typed`, which holds whatever fails (no frame has a seq that
could still be given out, so that a log that was read back is shorter than the number of
attempts), and, as long as no append failed, `Sound`: the file was written in order, that
is, there are the `starts` of a `Chain` of frames, of which the last may be `Ragged`
while the log is closed; the acknowledged events stand in frames that are synced
(`Kept`); memory, with the event that is being appended, is what the frames hold.  The
lemmas are about the decoder and about what is left of a file: `DecodedTypes`, that
whatever it reads is typed; `ChainIsRead`, that it reads a chain to its end and refuses
a ragged one; `OneMoreFrame`, that what append writes extends the chain; `WhatIsLeft`
and `ChainShortened`, that every state a crash can leave is a shorter chain, whole or
ragged; `WhatSurvives`, that the synced frames are in it.  `MemoryIsFile` needs beside it
that memory counts the bytes of its events (`Counted`), for which `BytesOfOneMore` adds
up; it says that the cap which append enforces is the one that `open` checks.  For
`FileLogImplementsDurableLog` the decoder must be understood on parts of a chain too:
`PartDecoded`, that a cut chain decodes to its first events; with it `LosesTheEnd`, that
a crash takes away events from the end and no safe one, and `SafeStays`, that what is
appended does not change what the synced part decodes to.  `Decode` and `Bytes` are
recursive functions, unfolded at one argument at a time; where an induction over the
file is needed it is made with the least counterexample (`LeastNumber`, from the
library's well-founded orders).

*Launch_proofs.*  First the laws of grants: `StartsWith` (components) and `Under` (labels
from the end) are shown transitive index by index; the laws of `permits` follow by cases
over the verbs.  `PermitsIffNarrows` says that a grant permits a child exactly when
everything the child permits is permitted by the grant; `AttenuationNarrows` lifts this
to sets, which is what the check of a job's capabilities is for.  `DisplayParses` and
`ParseIsTyped` are the two directions of the grammar.

`LaunchInv` adds to `JobExistsIffItStarted` that a session is as it was opened, that an
accepted job passed `CapabilitiesError` against that very session, and that only
accepted jobs have a launch under way.  `OneJob` reduces every step to the job it is
about, `JobStep` and `LaunchStep` say conversely by which steps a job or its launch
changes.  `JobGrantsStayWithin` then needs `AttenuationNarrows`, of which it is the use:
the check is made with `permits` on each grant, the theorem speaks of everything the
grants let one do.

`Commands` says that whatever is on its way to a child is `Rightful`: the shell under a
grant to spawn, or, under a name that was granted, the command of the capability exposed
as that name.  It needs `ResolvedIsConfigured` (whatever entry `resolve` picks among those
of a name, its command is one that was configured under that name, so that the theorem
needs no assumption about names) and `ServingHolds` (nobody is served before the mount
was registered).  `Confinements` says that the file system stays a tree of which paths
only vanish, that the working directory of an accepted job was inside its workspace, and
that a confinement is that of some earlier tree in which every granted path could be
opened.  A rule on a path then gives exactly its rights on what is there now
(`RuleGives`): what is beneath a path that was there shows that it was a directory, and
at the path itself the rights that the rule dropped are rights that a file does not
have.  For a job that asked for capabilities of its own `ChildIsConfined` says no more
than that what its child may do was granted to the session (section 4).

Launch's assumption types the requests (`Wire`) and the file system (`Path`, and that
only directories have something beneath them), has `HostCall` contain what the requests
invoke, has the paths that sessions name among those of the file system, takes the tools
of a configuration for a list, and keeps `NoSession`, `NoJob` and `NoCommand` apart from
what they are not.

*Demo_proofs.*  `DemoInv` holds of the demo, for any timeout, interval, number of frames
and of broken connections.  `Losses` is its core: a call that breaks ends the
measurement, so that as long as no error is known nothing was lost but the call under
way, and a request that is executed late finds a demo that has given up or is about to.
`OnServer` says what the server holds at each position of the program, and `Result`
what the outcome stands for.  Nothing needs to be known of the decoder for this: the demo
looks at the number of frames.

The second half of the module is about the decoder.  `FeedAhead` says that the frames
given out before make no difference to the next token, and `ScanAlong` that two scans
which come to the same place go on alike while the tokens are the same; so a body may
grow behind what was read (`ScanBefore`), and a piece of it is read from where the text
before it leads to (`ScanBehind`).  `QuietEvent` and `QuietKeepAlive` follow the decoder
through an event and a comment in every layout; `TailAt` says where in an event the frame
is.  With these, a body the server has written stays `Laid` (`LaidEvent`,
`LaidKeepAlive`): wherever one stops in it, the decoder has read exactly the frames that
have arrived.  `PushChunk` is the point of the decoder's state: what is kept between two
chunks holds no line end, so a decoder that is given the next chunk ends where one that
never stopped would.  `FramesInv` says with it that what a program has is in step with
what it read (`InStep`), or is the whole log (`AtEnd`), and `FramesAreAlwaysThoseSent`
follows for any number of frames, any layout, any comments and any cuts.

Only model-checked: liveness (`StreamEnds`, `DeadJobFinishes`,
`CancelledProcessDies`, `CancelledJobEnds`, `CancelledChildDies`, `DemoEnds` and the
fair half of `ImplementsFairDelivery`), which the prover cannot treat.  Every invariant
and action property of the passing runs is proved.
The type invariants of LogStream, JobEngine, CodeJob, FileLog, Registry and Requests are
proved (`TypeCorrect`) and therefore not part of the runs.

## 6. Not modelled

The texts of descriptions, signatures and errors; JSON and HTTP, of which only what
changes state or is answered with an error of the runtime is here (a JSON-RPC envelope
that is refused changes nothing); the kernel's side of the sandbox, which is an
assumption, and builds for other systems; random bytes and the constant-time
comparison of tokens, which are fresh names and equality; what clap does with a command
line, and the measurements the demo prints; wire records without behaviour; a second
opener of a log file.  Of a poisoned lock nothing is modelled: no locked section
panics.  The composition of Requests with JobEngine's cancellation would only repeat,
in a state space neither fits in, that the owner of a job never changes, which both
prove or check.

## 7. Plan

Done, in this order: LogDelivery and LogStream (what clients see), JobLifecycle
and JobEngine, CodeJob, FileLog, Registry, Requests, Capability, Sandbox, Mount and
Launch, SseFrames and Demo, FrameTime, DurableLog, and the proofs about all of them.

What could follow: the laws of the client's decoder on bodies no server of this kind
writes, where an event that does not parse ends the reading.
