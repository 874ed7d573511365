-------------------------------- MODULE Demo --------------------------------
(***************************************************************************)
(* Programs written with the client (axp-client/src/lib.rs, rpc.rs) against *)
(* a server, over connections that can break: `axp demo runtime`           *)
(* (axp-cli/src/demo.rs), which opens a session, runs a job, polls it with *)
(* a timeout, replays its log and closes the session; and a program that   *)
(* follows a running job with attach_job_stream.                           *)
(*                                                                         *)
(* A call is asked, executed and answered in separate steps.  A connection *)
(* may break before or after the server has executed the call; a request   *)
(* whose connection broke may still be executed later.  The server is      *)
(* reduced to its session, its job and the job's log: JobEngine, Requests  *)
(* and LogStream have the rest.                                            *)
(***************************************************************************)
EXTENDS SseFrames, FiniteSets

CONSTANTS
    PollTimeout,    \* --poll-timeout-ms, in ticks
    PollInterval,   \* --poll-interval-ms, in ticks
    MaxFaults,      \* bound: connections that break
    MaxKeepAlives   \* bound: keep-alive comments in a body

ASSUME DemoAssumption ==
    {FrameCount, PollTimeout, PollInterval, MaxFaults, MaxKeepAlives} \subseteq Nat

VARIABLES
    program,    \* "demo" or "watch"
    style,      \* how the server lays out a body
    session,    \* the server's session: "none", "open" or "closed"
    job,        \* the server's job: "none", "running" or how it ended
    cancelled,  \* the job was told to stop
    log,        \* number of frames in the job's log
    strays,     \* requests without a connection, still to be executed
    pc,         \* the call, or the sleep, the program is in
    call,       \* where that call stands: "none", "asked" or its answer
    lost,       \* methods of which a call broke
    elapsed,    \* ticks since wait_terminal started
    wake,       \* when its sleep ends
    outcome,    \* what the program returns: "none" while it runs
    stream,     \* the SSE connection: "none", "live", "ended" or "cut"
    body,       \* what the server wrote to it
    emitted,    \* how many frames that is
    keepAlives, \* and how many comments
    got,        \* how much of it the program has read
    decoder,    \* AttachedJob.decoder
    pending,    \* AttachedJob.pending
    frames      \* the frames the program was given

serverVars == <<session, job, cancelled, log>>
callVars == <<pc, call, outcome>>
netVars == <<lost, strays>>
pollVars == <<elapsed, wake>>
sendVars == <<stream, body, emitted, keepAlives>>
readVars == <<got, decoder, pending, frames>>
configVars == <<program, style>>
vars == <<configVars, serverVars, callVars, netVars, pollVars, sendVars, readVars>>

Ended == {"exited0", "exited1", "killed", "failed"}
Method == {"open", "index", "describe", "start", "status", "attach", "cancel", "close"}
Answer == {"ok", "refused", "broken", "running"} \cup Ended

\* The demo is run against this server; the watch, against any.
InitDemo == style = OwnStyle /\ pc = "open" /\ session = "none" /\ job = "none"
InitWatch == style \in Style /\ pc = "attach" /\ session = "open" /\ job = "running"

Init ==
    /\ program \in {"demo", "watch"}
    /\ IF program = "demo" THEN InitDemo ELSE InitWatch
    /\ cancelled = FALSE
    /\ log = 0
    /\ strays = {}
    /\ call = "none"
    /\ lost = {}
    /\ elapsed = 0
    /\ wake = 0
    /\ outcome = "none"
    /\ stream = "none"
    /\ body = <<>>
    /\ emitted = 0
    /\ keepAlives = 0
    /\ got = 0
    /\ decoder = EmptyDecoder
    /\ pending = <<>>
    /\ frames = <<>>

-----------------------------------------------------------------------------
(* The server *)

\* What a call does to the session and the job, and its answer.  A request for
\* a session that is not open is UNAUTHORIZED.
Handle(method, answer) ==
    CASE method = "open" ->
            /\ answer \in {"ok", "refused"}
            /\ session' = IF answer = "ok" THEN "open" ELSE session
            /\ UNCHANGED <<job, cancelled>>
      [] method # "open" /\ session # "open" ->
            answer = "refused" /\ UNCHANGED <<session, job, cancelled>>
      [] method = "start" /\ session = "open" ->
            /\ answer \in {"ok", "refused"}
            /\ job' = IF answer = "ok" THEN "running" ELSE job
            /\ UNCHANGED <<session, cancelled>>
      [] method = "cancel" /\ session = "open" ->
            answer = "ok" /\ cancelled' = TRUE /\ UNCHANGED <<session, job>>
      [] method = "close" /\ session = "open" ->
            answer = "ok" /\ session' = "closed" /\ UNCHANGED <<job, cancelled>>
      [] method = "status" /\ session = "open" ->
            answer = job /\ UNCHANGED <<session, job, cancelled>>
      [] OTHER -> answer = "ok" /\ UNCHANGED <<session, job, cancelled>>

\* The request arrives and is answered; an attach is answered by a stream.
Execute ==
    /\ call = "asked"
    /\ \E answer \in Answer \ {"broken"} :
           /\ Handle(pc, answer)
           /\ call' = answer
           /\ stream' = IF pc = "attach" /\ answer = "ok" THEN "live" ELSE stream
    /\ UNCHANGED <<configVars, log, pc, outcome, netVars, pollVars, body, emitted, keepAlives,
                   readVars>>

\* A request nobody waits for any more arrives.
Straggle(method) ==
    /\ method \in strays
    /\ \E answer \in Answer : Handle(method, answer)
    /\ strays' = strays \ {method}
    /\ UNCHANGED <<configVars, log, callVars, lost, pollVars, sendVars, readVars>>

\* The job writes; when it ends by itself with success it has written everything.
JobWrites ==
    /\ job = "running"
    /\ log < FrameCount
    /\ log' = log + 1
    /\ UNCHANGED <<configVars, session, job, cancelled, callVars, netVars, pollVars, sendVars,
                   readVars>>

JobEnds ==
    /\ job = "running"
    /\ job' \in {"exited1", "failed"} \cup (IF cancelled THEN {"killed"} ELSE {})
                \cup (IF log = FrameCount THEN {"exited0"} ELSE {})
    /\ UNCHANGED <<configVars, session, cancelled, log, callVars, netVars, pollVars, sendVars,
                   readVars>>

\* attach_sse: the next frame of the log goes out as an event.
Emit ==
    /\ stream = "live"
    /\ emitted < log
    /\ body' = body \o EventOf(style, emitted + 1)
    /\ emitted' = emitted + 1
    /\ UNCHANGED <<configVars, serverVars, callVars, netVars, pollVars, stream, keepAlives, readVars>>

\* attach_sse: nothing to send for a while.
EmitKeepAlive ==
    /\ stream = "live"
    /\ keepAlives < MaxKeepAlives
    /\ emitted < FrameCount
    /\ body' = body \o KeepAliveOf(style)
    /\ keepAlives' = keepAlives + 1
    /\ UNCHANGED <<configVars, serverVars, callVars, netVars, pollVars, stream, emitted, readVars>>

\* attach_sse: the stream of a job that has ended ends when its log is sent.
EndBody ==
    /\ stream = "live"
    /\ job \in Ended
    /\ emitted = log
    /\ stream' = "ended"
    /\ UNCHANGED <<configVars, serverVars, callVars, netVars, pollVars, body, emitted, keepAlives,
                   readVars>>

Faults == Cardinality(lost) + IF stream = "cut" THEN 1 ELSE 0

\* The connection of a call breaks; if the server has not answered yet, the
\* request may be on its way.
Break ==
    /\ call # "none" /\ call # "broken"
    /\ pc = "attach" => stream = "none"
    /\ Faults < MaxFaults
    /\ call' = "broken"
    /\ lost' = lost \cup {pc}
    /\ strays' \in IF call = "asked" THEN {strays, strays \cup {pc}} ELSE {strays}
    /\ UNCHANGED <<configVars, serverVars, pc, outcome, pollVars, sendVars, readVars>>

\* The connection of the stream breaks; what was received may still be read.
Cut ==
    /\ stream = "live"
    /\ Faults < MaxFaults
    /\ stream' = "cut"
    /\ UNCHANGED <<configVars, serverVars, callVars, netVars, pollVars, body, emitted, keepAlives,
                   readVars>>

-----------------------------------------------------------------------------
(* The calls of the program *)

\* Client::rpc and send_attach_request: the request is sent.
Ask ==
    /\ pc \in Method
    /\ call = "none"
    /\ call' = "asked"
    /\ UNCHANGED <<configVars, serverVars, pc, outcome, netVars, pollVars, sendVars, readVars>>

Answered(method) == pc = method /\ call \in Answer

\* The program goes on with another call, with this result so far.
Goto(next, result) ==
    /\ pc' = next
    /\ call' = "none"
    /\ outcome' = result

\* Nothing was opened if the first call fails.
AcceptOpen ==
    /\ Answered("open")
    /\ IF call = "ok" THEN Goto("index", outcome) ELSE Goto("done", "err")
    /\ UNCHANGED <<configVars, serverVars, netVars, pollVars, sendVars, readVars>>

\* Any other failure ends the measurement, and the session is closed.
Continue(method, next) ==
    /\ Answered(method)
    /\ IF call = "ok" THEN Goto(next, outcome) ELSE Goto("close", "err")
    /\ UNCHANGED <<configVars, serverVars, netVars, pollVars, sendVars, readVars>>

\* Mutant of TimedOut: the timeout is not consulted.
NeverTimedOut == FALSE

\* wait_terminal: no time is left.
TimedOut == elapsed >= PollTimeout

\* wait_terminal: how long it sleeps, never past the timeout.
SleepFor ==
    LET remaining == PollTimeout - elapsed
    IN IF PollInterval <= remaining THEN PollInterval ELSE remaining

\* Mutant of AcceptStatus: a job that did not end in time is left alone.
AcceptStatusNoCancel ==
    /\ Answered("status")
    /\ CASE call = "exited0" -> Goto("attach", outcome) /\ UNCHANGED wake
         [] call # "running" \/ TimedOut -> Goto("close", "err") /\ UNCHANGED wake
         [] OTHER -> Goto("sleep", outcome) /\ wake' = elapsed + SleepFor
    /\ UNCHANGED <<configVars, serverVars, netVars, elapsed, sendVars, readVars>>

\* wait_terminal and what runtime makes of its result: the job is cancelled when
\* the status call fails or time is up, and only a job that exited with 0 is
\* attached to.
AcceptStatus ==
    /\ Answered("status")
    /\ CASE call = "exited0" -> Goto("attach", outcome) /\ UNCHANGED wake
         [] call \in Ended \ {"exited0"} -> Goto("close", "err") /\ UNCHANGED wake
         [] call \in {"refused", "broken"} \/ (call = "running" /\ TimedOut) ->
                Goto("cancel", "err") /\ UNCHANGED wake
         [] OTHER -> Goto("sleep", outcome) /\ wake' = elapsed + SleepFor
    /\ UNCHANGED <<configVars, serverVars, netVars, elapsed, sendVars, readVars>>

\* wait_terminal: the sleep is over, the next poll begins.
WakeUp ==
    /\ pc = "sleep"
    /\ elapsed >= wake
    /\ Goto("status", outcome)
    /\ UNCHANGED <<configVars, serverVars, netVars, pollVars, sendVars, readVars>>

\* Time passes while the program waits for the job.
Tick ==
    /\ pc \in {"status", "sleep"}
    /\ elapsed < PollTimeout
    /\ elapsed' = elapsed + 1
    /\ UNCHANGED <<configVars, serverVars, callVars, netVars, wake, sendVars, readVars>>

\* The answer to cancel is not looked at.
AcceptCancel ==
    /\ Answered("cancel")
    /\ Goto("close", outcome)
    /\ UNCHANGED <<configVars, serverVars, netVars, pollVars, sendVars, readVars>>

\* Mutant of AcceptClose: the answer to close is not looked at.
AcceptCloseBlindly ==
    /\ Answered("close")
    /\ Goto("done", IF outcome = "none" THEN "ok" ELSE outcome)
    /\ UNCHANGED <<configVars, serverVars, netVars, pollVars, sendVars, readVars>>

\* The demo succeeds only if its session could be closed.
AcceptClose ==
    /\ Answered("close")
    /\ Goto("done", IF outcome = "none" /\ call = "ok" THEN "ok" ELSE "err")
    /\ UNCHANGED <<configVars, serverVars, netVars, pollVars, sendVars, readVars>>

-----------------------------------------------------------------------------
(* The stream *)

\* The attach request failed: the demo closes its session, the watch is over.
AttachFails ==
    /\ Answered("attach")
    /\ call # "ok"
    /\ Goto(IF program = "demo" THEN "close" ELSE "done", "err")
    /\ UNCHANGED <<configVars, serverVars, netVars, pollVars, sendVars, readVars>>

\* attach_job of a complete body gives some frames, or an error; then the
\* measurement is printed, which may fail.
FinishBody ==
    /\ program = "demo"
    /\ pc = "attach"
    /\ stream = "ended"
    /\ frames' \in {[k \in 1..n |-> k] : n \in 0..FrameCount}
    /\ \E result \in {outcome, "err"} : Goto("close", result)
    /\ UNCHANGED <<configVars, serverVars, netVars, pollVars, sendVars, got, decoder, pending>>

\* Which frames: those the body parses as, and every one must be there for the
\* marker to be found.
Collect ==
    /\ FinishBody
    /\ LET parsed == ParseFrames(body)
       IN frames' = IF parsed.failed THEN <<>> ELSE parsed.frames
    /\ Len(frames') # FrameCount => outcome' = "err"

\* attach_job and next_frame: the body could not be read to its end.
ReadFails ==
    /\ pc = "attach"
    /\ stream = "cut"
    /\ pending = <<>>
    /\ Goto(IF program = "demo" THEN "close" ELSE "done", "err")
    /\ UNCHANGED <<configVars, serverVars, netVars, pollVars, sendVars, readVars>>

Following == program = "watch" /\ pc = "attach" /\ stream # "none"

\* next_frame: a frame that was decoded before.
PopFrame ==
    /\ Following
    /\ pending # <<>>
    /\ frames' = Append(frames, Head(pending))
    /\ pending' = Tail(pending)
    /\ UNCHANGED <<configVars, serverVars, callVars, netVars, pollVars, sendVars, got, decoder>>

\* next_frame: a chunk arrives, which may be any part of what was sent.
ReadChunk(upto) ==
    LET pushed == Push(decoder, SubSeq(body, got + 1, upto)) IN
    /\ Following
    /\ pending = <<>>
    /\ got' = upto
    /\ decoder' = pushed.decoder
    /\ IF pushed.failed
       THEN Goto("done", "err") /\ UNCHANGED pending
       ELSE pending' = pushed.frames /\ UNCHANGED callVars
    /\ UNCHANGED <<configVars, serverVars, netVars, pollVars, sendVars, frames>>

\* next_frame: the body is over; what is left of it may be one more frame.
ReadEnd ==
    LET left == Finish(decoder) IN
    /\ Following
    /\ stream = "ended"
    /\ pending = <<>>
    /\ got = Len(body)
    /\ decoder' = EmptyDecoder
    /\ pending' = left.frames
    /\ IF left.failed THEN Goto("done", "err")
       ELSE IF left.frames = <<>> THEN Goto("done", "ok") ELSE UNCHANGED callVars
    /\ UNCHANGED <<configVars, serverVars, netVars, pollVars, sendVars, got, frames>>

-----------------------------------------------------------------------------

Server == Execute \/ Emit \/ EndBody

\* The calls the programs make.
Calls ==
    \/ Ask
    \/ AcceptOpen
    \/ Continue("index", "describe")
    \/ Continue("describe", "start")
    \/ Continue("start", "status")
    \/ AcceptStatus
    \/ WakeUp
    \/ AcceptCancel
    \/ AcceptClose
    \/ AttachFails
    \/ ReadFails

\* next_frame.
Reads ==
    \/ PopFrame
    \/ \E upto \in (got + 1)..Len(body) : ReadChunk(upto)
    \/ ReadEnd

Next ==
    \/ Server
    \/ Calls
    \/ Collect
    \/ Reads
    \/ Tick
    \/ JobWrites
    \/ JobEnds
    \/ EmitKeepAlive
    \/ Break
    \/ Cut
    \/ \E method \in Method : Straggle(method)

Spec == Init /\ [][Next]_vars

\* The demo runs, time passes, and a server that was asked answers, unless the
\* connection breaks: the client has no timeout of its own, so without this every
\* call could hang.  The only steps like FinishBody are those of Collect.  A job
\* need not do anything.
FairSpec == Spec /\ WF_vars(Server) /\ WF_vars(Calls) /\ WF_vars(FinishBody) /\ WF_vars(Tick)

-----------------------------------------------------------------------------
(* Properties *)

\* A frame has arrived when the blank line behind it has been read.
Arrived ==
    {k \in Frame :
        \E i \in 1..got : body[i] = Half("tail", k) /\ i + 2 * Len(Newline(style)) <= got}

\* However a body is cut into chunks, whatever its line ends, comments and data
\* lines, the frames given out are those of the log in order; while the stream
\* is followed they are exactly those that have arrived; and when it ended
\* cleanly they are all of them (rpc.rs, SseFrameDecoder; lib.rs, next_frame).
FramesAreThoseSent ==
    LET seen == frames \o pending IN
    /\ seen = [k \in 1..Len(seen) |-> k]
    /\ Following =>
          \/ Len(seen) = Cardinality(Arrived)
          \/ Len(seen) = log /\ stream = "ended" /\ got = Len(body)
    /\ outcome = "ok" => job \in Ended /\ Len(seen) = log

\* The demo reports success only of a job that exited with 0, whose whole log was
\* replayed, in a session that is closed: no broken call, late answer or timeout
\* makes it say so otherwise (demo.rs, runtime).
SuccessIsTrue ==
    program = "demo" /\ outcome = "ok" =>
        /\ job = "exited0"
        /\ Len(frames) = FrameCount
        /\ session = "closed"

\* What the demo leaves behind, it could not know of or could not reach: an open
\* session, only if an open or a close was lost; a job that runs on untold, only
\* if a start or a cancel was lost (demo.rs, cancel_job on a failed wait and
\* close_session on every path).
NothingLeftBehind ==
    program = "demo" /\ pc = "done" =>
        /\ session = "open" => lost \cap {"open", "close"} # {}
        /\ job = "running" /\ ~cancelled => lost \cap {"start", "cancel"} # {}

\* The demo ends, whether or not its job does (demo.rs, wait_terminal).
DemoEnds == (program = "demo") ~> (program = "demo" /\ pc = "done")

=============================================================================
