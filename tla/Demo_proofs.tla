---------------------------- MODULE Demo_proofs ----------------------------
(***************************************************************************)
(* Theorems about programs written with the client: about `axp demo        *)
(* runtime`, for any timeout and interval, number of frames, and number of *)
(* connections that break; and about the frames any program is given, for  *)
(* any kind of body and any cut into chunks.                               *)
(*                                                                         *)
(* Progress says how far the demo is and what it knows; Losses, that a     *)
(* call that broke ends the measurement, so that a request which arrives   *)
(* late finds nothing left to spoil; OnServer, what the server holds       *)
(* meanwhile; Result, what the outcome stands for.                         *)
(*                                                                         *)
(* Sent says what a body is: a text which the decoder, wherever it stops,  *)
(* has read as the frames that have arrived by then.  InStep and AtEnd say *)
(* that a program which follows a job is at such a place of it: a decoder  *)
(* that goes on after a chunk is where one that never stopped would be.    *)
(***************************************************************************)
EXTENDS Demo, NaturalsInduction, FiniteSetTheorems, TLAPS

Progress ==
    /\ pc \in Method \cup {"sleep", "done"}
    /\ call \in {"none", "asked"} \cup Answer
    /\ outcome \in {"none", "ok", "err"}
    /\ outcome = "err" => pc \in {"cancel", "close", "done"}
    /\ pc = "cancel" => outcome = "err"
    /\ outcome = "ok" => pc = "done"
    /\ pc = "done" => outcome # "none" /\ call = "none"
    /\ pc = "sleep" => call = "none"
    /\ stream # "none" => pc \in {"close", "done"} \/ (pc = "attach" /\ call = "ok")

Losses ==
    /\ strays \subseteq lost
    /\ call = "broken" => pc \in lost
    /\ outcome # "err" => lost \subseteq IF call = "broken" THEN {pc} ELSE {}
    /\ "open" \in lost => pc = "done" \/ (pc = "open" /\ call = "broken")
    /\ "close" \in lost => pc = "done" \/ (pc = "close" /\ call = "broken")

OnServer ==
    /\ pc = "open" => job = "none" /\ (session = "none" \/ call \in {"ok", "broken"})
    /\ pc = "open" /\ call = "ok" => session = "open"
    /\ pc \in (Method \cup {"sleep"}) \ {"open", "close"} => session = "open"
    /\ pc \in {"index", "describe"} => job = "none"
    /\ pc = "start" => job = "none" \/ call \in {"ok", "broken"}
    /\ pc = "status" /\ call \in Ended => job = call
    /\ pc = "attach" => job = "exited0"
    /\ pc = "cancel" => call \in {"none", "asked", "ok", "broken"}
    /\ pc = "cancel" /\ call = "ok" => cancelled
    /\ pc = "close" => call \in {"none", "asked", "ok", "refused", "broken"}
    /\ pc = "close" /\ call = "ok" => session = "closed"
    /\ pc = "close" /\ call = "refused" => session # "open"
    /\ pc = "done" => session # "open" \/ lost \cap {"open", "close"} # {}
    /\ pc \in {"close", "done"} =>
          job # "running" \/ cancelled \/ lost \cap {"start", "cancel"} # {}

Result ==
    /\ (pc = "close" /\ outcome = "none") \/ outcome = "ok" =>
          job = "exited0" /\ Len(frames) = FrameCount
    /\ outcome = "ok" => session = "closed"

DemoInv == program = "demo" => Progress /\ Losses /\ OnServer /\ Result

-----------------------------------------------------------------------------
(* The server *)

\* What a request does, one method at a time.
LEMMA Handled ==
    ASSUME NEW method \in Method, NEW answer, Handle(method, answer)
    PROVE  /\ method # "open" => session' = session \/ (method = "close" /\ session' = "closed")
           /\ method # "start" => job' = job
           /\ cancelled => cancelled'
           /\ answer # "broken" \/ (method = "status" /\ job = "broken")
           /\ method = "open" =>
                 \/ answer = "ok" /\ session' = "open"
                 \/ answer = "refused" /\ session' = session
           /\ method # "open" /\ session # "open" =>
                 answer = "refused" /\ session' = session /\ job' = job
           /\ method = "start" /\ session = "open" =>
                 answer = "ok" \/ (answer = "refused" /\ job' = job)
           /\ method = "status" /\ session = "open" => answer = job
           /\ method = "cancel" /\ session = "open" => answer = "ok" /\ cancelled'
           /\ method = "close" /\ session = "open" => answer = "ok" /\ session' = "closed"
           /\ method \in {"index", "describe", "attach"} /\ session = "open" => answer = "ok"
  <1>1. CASE method = "open"
    <2>1. /\ answer \in {"ok", "refused"}
          /\ session' = IF answer = "ok" THEN "open" ELSE session
          /\ job' = job /\ cancelled' = cancelled
      BY <1>1 DEF Handle
    <2> QED
      BY <1>1, <2>1
  <1>2. CASE method # "open" /\ session # "open"
    BY <1>2 DEF Handle
  <1>3. CASE method = "start" /\ session = "open"
    BY <1>3 DEF Handle
  <1>4. CASE method = "cancel" /\ session = "open"
    BY <1>4 DEF Handle
  <1>5. CASE method = "close" /\ session = "open"
    BY <1>5 DEF Handle
  <1>6. CASE method = "status" /\ session = "open"
    BY <1>6 DEF Handle
  <1>7. CASE method \in {"index", "describe", "attach"} /\ session = "open"
    BY <1>7 DEF Handle
  <1> QED
    BY <1>1, <1>2, <1>3, <1>4, <1>5, <1>6, <1>7 DEF Method

\* An answer is true when it is given.
LEMMA ExecuteInv ==
    ASSUME Progress, Losses, OnServer, Result, Execute
    PROVE  Progress' /\ Losses' /\ OnServer' /\ Result'
  <1>1. PICK answer \in Answer \ {"broken"} : Handle(pc, answer) /\ call' = answer
    BY DEF Execute
  <1>2. pc \in Method
    BY DEF Execute, Progress
  <1>3. /\ call = "asked" /\ pc' = pc /\ outcome' = outcome /\ frames' = frames
        /\ lost' = lost /\ strays' = strays
        /\ stream' = IF pc = "attach" /\ call' = "ok" THEN "live" ELSE stream
    BY DEF Execute, netVars, readVars
  <1>4. Progress'
    BY <1>1, <1>2, <1>3 DEF Progress, Method, Answer
  <1>5. Losses'
    BY <1>1, <1>3 DEF Losses
  <1>6. OnServer'
    BY <1>1, <1>2, <1>3, Handled DEF OnServer, Progress, Method, Answer, Ended
  <1>7. Result'
    BY <1>1, <1>2, <1>3, Handled DEF Result, Progress
  <1> QED
    BY <1>4, <1>5, <1>6, <1>7

\* A request that arrives late finds a demo that has given up, or is about to.
LEMMA StraggleInv ==
    ASSUME Progress, Losses, OnServer, Result, NEW method \in Method, Straggle(method)
    PROVE  Progress' /\ Losses' /\ OnServer' /\ Result'
  <1>1. PICK answer \in Answer : Handle(method, answer)
    BY DEF Straggle
  <1>2. /\ method \in strays /\ strays' \subseteq strays /\ lost' = lost
        /\ pc' = pc /\ call' = call /\ outcome' = outcome /\ frames' = frames
        /\ stream' = stream
    BY DEF Straggle, callVars, readVars, sendVars
  <1>3. method \in lost
    BY <1>2 DEF Losses
  <1>4. Progress' /\ Losses'
    BY <1>2 DEF Progress, Losses
  <1>5. OnServer'
    BY <1>1, <1>2, <1>3, Handled DEF OnServer, Progress, Losses, Method, Answer, Ended
  <1>6. Result'
    BY <1>1, <1>2, <1>3, Handled DEF Result, Progress, Losses, Method
  <1> QED
    BY <1>4, <1>5, <1>6

-----------------------------------------------------------------------------
(* The network and the job *)

\* A connection that breaks leaves the program at its call.
LEMMA BreakInv ==
    ASSUME Progress, Losses, OnServer, Result, Break
    PROVE  Progress' /\ Losses' /\ OnServer' /\ Result'
  <1>1. /\ call \notin {"none", "broken"} /\ call' = "broken" /\ lost' = lost \cup {pc}
        /\ strays' \subseteq strays \cup {pc} /\ pc' = pc /\ outcome' = outcome
        /\ session' = session /\ job' = job /\ cancelled' = cancelled /\ frames' = frames
        /\ stream' = stream /\ (pc = "attach" => stream = "none")
    BY DEF Break, sendVars, serverVars, readVars
  <1>2. Progress'
    BY <1>1 DEF Progress, Answer
  <1>3. Losses'
    BY <1>1 DEF Losses, Progress
  <1>4. OnServer'
    BY <1>1 DEF OnServer, Progress, Ended
  <1>5. Result'
    BY <1>1 DEF Result
  <1> QED
    BY <1>2, <1>3, <1>4, <1>5

\* The job ends once.
LEMMA JobEndsInv ==
    ASSUME Progress, Losses, OnServer, Result, JobEnds
    PROVE  Progress' /\ Losses' /\ OnServer' /\ Result'
  <1>1. /\ job = "running" /\ job' \in Ended
        /\ session' = session /\ cancelled' = cancelled
        /\ pc' = pc /\ call' = call /\ outcome' = outcome
        /\ lost' = lost /\ strays' = strays /\ frames' = frames /\ stream' = stream
    BY DEF JobEnds, callVars, netVars, sendVars, readVars, Ended
  <1> QED
    BY <1>1 DEF Progress, Losses, OnServer, Result, Ended

\* What leaves the program, its calls and the session alone leaves all this alone.
LEMMA Untouched ==
    ASSUME Progress, Losses, OnServer, Result,
           UNCHANGED <<session, job, cancelled, pc, call, outcome, lost, strays, frames>>,
           stream' # "none" => stream # "none"
    PROVE  Progress' /\ Losses' /\ OnServer' /\ Result'
  BY DEF Progress, Losses, OnServer, Result

-----------------------------------------------------------------------------
(* The program *)

\* A call is made only where none is.
LEMMA AskInv ==
    ASSUME Progress, Losses, OnServer, Result, Ask
    PROVE  Progress' /\ Losses' /\ OnServer' /\ Result'
  <1>1. /\ pc \in Method /\ call = "none" /\ call' = "asked"
        /\ pc' = pc /\ outcome' = outcome
        /\ session' = session /\ job' = job /\ cancelled' = cancelled
        /\ lost' = lost /\ strays' = strays /\ frames' = frames /\ stream' = stream
    BY DEF Ask, serverVars, netVars, sendVars, readVars
  <1> QED
    BY <1>1 DEF Progress, Losses, OnServer, Result, Method, Ended

\* The demo has a session, or nothing.
LEMMA AcceptOpenInv ==
    ASSUME Progress, Losses, OnServer, Result, AcceptOpen
    PROVE  Progress' /\ Losses' /\ OnServer' /\ Result'
  <1>1. /\ pc = "open" /\ call \in Answer /\ call' = "none"
        /\ session' = session /\ job' = job /\ cancelled' = cancelled
        /\ lost' = lost /\ strays' = strays /\ frames' = frames /\ stream' = stream
        /\ \/ call = "ok" /\ pc' = "index" /\ outcome' = outcome
           \/ call # "ok" /\ pc' = "done" /\ outcome' = "err"
    BY DEF AcceptOpen, Answered, Goto, serverVars, netVars, sendVars, readVars
  <1> QED
    BY <1>1 DEF Progress, Losses, OnServer, Result, Method, Ended

\* The next step follows a success; any failure is followed by the close.
LEMMA ContinueInv ==
    ASSUME Progress, Losses, OnServer, Result, NEW method, NEW next,
           \/ method = "index" /\ next = "describe"
           \/ method = "describe" /\ next = "start"
           \/ method = "start" /\ next = "status",
           Continue(method, next)
    PROVE  Progress' /\ Losses' /\ OnServer' /\ Result'
  <1>1. /\ pc = method /\ call \in Answer /\ call' = "none"
        /\ session' = session /\ job' = job /\ cancelled' = cancelled
        /\ lost' = lost /\ strays' = strays /\ frames' = frames /\ stream' = stream
        /\ \/ call = "ok" /\ pc' = next /\ outcome' = outcome
           \/ call # "ok" /\ pc' = "close" /\ outcome' = "err"
    BY DEF Continue, Answered, Goto, serverVars, netVars, sendVars, readVars
  <1> QED
    BY <1>1 DEF Progress, Losses, OnServer, Result, Method, Ended

\* Only a job that exited with 0 is attached to, and one that runs on is cancelled.
LEMMA AcceptStatusInv ==
    ASSUME Progress, Losses, OnServer, Result, AcceptStatus
    PROVE  Progress' /\ Losses' /\ OnServer' /\ Result'
  <1>1. /\ pc = "status" /\ call \in Answer /\ call' = "none"
        /\ session' = session /\ job' = job /\ cancelled' = cancelled
        /\ lost' = lost /\ strays' = strays /\ frames' = frames /\ stream' = stream
    BY DEF AcceptStatus, Answered, Goto, serverVars, netVars, sendVars, readVars
  <1>2. \/ call = "exited0" /\ pc' = "attach" /\ outcome' = outcome
        \/ call \in Ended /\ pc' = "close" /\ outcome' = "err"
        \/ pc' = "cancel" /\ outcome' = "err"
        \/ call # "broken" /\ pc' = "sleep" /\ outcome' = outcome
    BY DEF AcceptStatus, Goto
  <1> QED
    BY <1>1, <1>2 DEF Progress, Losses, OnServer, Result, Method, Ended

\* A job that runs on is asked for again.
LEMMA WakeUpInv ==
    ASSUME Progress, Losses, OnServer, Result, WakeUp
    PROVE  Progress' /\ Losses' /\ OnServer' /\ Result'
  <1>1. /\ pc = "sleep" /\ pc' = "status" /\ call' = "none" /\ outcome' = outcome
        /\ session' = session /\ job' = job /\ cancelled' = cancelled
        /\ lost' = lost /\ strays' = strays /\ frames' = frames /\ stream' = stream
    BY DEF WakeUp, Goto, serverVars, netVars, sendVars, readVars
  <1> QED
    BY <1>1 DEF Progress, Losses, OnServer, Result, Method, Ended

\* A job that was cancelled has been told, or the call was lost.
LEMMA AcceptCancelInv ==
    ASSUME Progress, Losses, OnServer, Result, AcceptCancel
    PROVE  Progress' /\ Losses' /\ OnServer' /\ Result'
  <1>1. /\ pc = "cancel" /\ call \in Answer /\ pc' = "close" /\ call' = "none"
        /\ outcome' = outcome
        /\ session' = session /\ job' = job /\ cancelled' = cancelled
        /\ lost' = lost /\ strays' = strays /\ frames' = frames /\ stream' = stream
    BY DEF AcceptCancel, Answered, Goto, serverVars, netVars, sendVars, readVars
  <1> QED
    BY <1>1 DEF Progress, Losses, OnServer, Result, Method, Answer, Ended

\* The demo succeeds only if its session was closed.
LEMMA AcceptCloseInv ==
    ASSUME Progress, Losses, OnServer, Result, AcceptClose
    PROVE  Progress' /\ Losses' /\ OnServer' /\ Result'
  <1>1. /\ pc = "close" /\ call \in Answer /\ pc' = "done" /\ call' = "none"
        /\ outcome' = IF outcome = "none" /\ call = "ok" THEN "ok" ELSE "err"
        /\ session' = session /\ job' = job /\ cancelled' = cancelled
        /\ lost' = lost /\ strays' = strays /\ frames' = frames /\ stream' = stream
    BY DEF AcceptClose, Answered, Goto, serverVars, netVars, sendVars, readVars
  <1> QED
    BY <1>1 DEF Progress, Losses, OnServer, Result, Method, Answer, Ended

\* A replay that failed is a failure.
LEMMA AttachEndsInv ==
    ASSUME Progress, Losses, OnServer, Result, program = "demo",
           AttachFails \/ ReadFails
    PROVE  Progress' /\ Losses' /\ OnServer' /\ Result'
  <1>1. /\ pc = "attach" /\ pc' = "close" /\ call' = "none" /\ outcome' = "err"
        /\ session' = session /\ job' = job /\ cancelled' = cancelled
        /\ lost' = lost /\ strays' = strays /\ frames' = frames /\ stream' = stream
    BY DEF AttachFails, ReadFails, Answered, Goto, serverVars, netVars, sendVars, readVars
  <1> QED
    BY <1>1 DEF Progress, Losses, OnServer, Result, Method, Ended

\* What was replayed is the whole log, or the demo fails.
LEMMA CollectInv ==
    ASSUME Progress, Losses, OnServer, Result, Collect
    PROVE  Progress' /\ Losses' /\ OnServer' /\ Result'
  <1>1. /\ pc = "attach" /\ pc' = "close" /\ call' = "none" /\ outcome' \in {outcome, "err"}
        /\ session' = session /\ job' = job /\ cancelled' = cancelled
        /\ lost' = lost /\ strays' = strays /\ stream' = stream /\ stream = "ended"
    BY DEF Collect, FinishBody, Goto, serverVars, netVars, sendVars
  <1>2. outcome' = "err" \/ Len(frames') = FrameCount
    BY DEF Collect
  <1> QED
    BY <1>1, <1>2 DEF Progress, Losses, OnServer, Result, Method, Ended

-----------------------------------------------------------------------------
(* The theorems about the demo *)

\* The program that runs stays what it is.
LEMMA ProgramStays == [Next]_vars => program' = program
  <1>1. CASE Server
    BY <1>1 DEF Server, Execute, Emit, EndBody, configVars
  <1>2. CASE Calls
    BY <1>2 DEF Calls, Ask, AcceptOpen, Continue, AcceptStatus, WakeUp, AcceptCancel,
       AcceptClose, AttachFails, ReadFails, configVars
  <1>3. CASE Reads
    BY <1>3 DEF Reads, PopFrame, ReadChunk, ReadEnd, configVars
  <1>4. CASE Collect \/ \E method \in Method : Straggle(method)
    BY <1>4 DEF Collect, FinishBody, Straggle, configVars
  <1>5. CASE Tick \/ JobWrites \/ JobEnds \/ EmitKeepAlive \/ Break \/ Cut
    BY <1>5 DEF Tick, JobWrites, JobEnds, EmitKeepAlive, Break, Cut, configVars
  <1>6. CASE UNCHANGED vars
    BY <1>6 DEF vars, configVars
  <1> QED
    BY <1>1, <1>2, <1>3, <1>4, <1>5, <1>6 DEF Next

\* The invariant is inductive.
LEMMA DemoStep == DemoInv /\ [Next]_vars => DemoInv'
  <1> SUFFICES ASSUME program = "demo", Progress, Losses, OnServer, Result, [Next]_vars
               PROVE  Progress' /\ Losses' /\ OnServer' /\ Result'
    <2>1. [Next]_vars => program' = program
      BY ProgramStays
    <2> QED
      BY <2>1 DEF DemoInv
  <1>1. CASE Server
    <2>1. CASE Emit \/ EndBody
      BY <2>1, Untouched
         DEF Emit, EndBody, serverVars, callVars, netVars, sendVars, readVars
    <2> QED
      BY <1>1, <2>1, ExecuteInv DEF Server
  <1>2. CASE Calls
    BY <1>2, AskInv, AcceptOpenInv, ContinueInv, AcceptStatusInv, WakeUpInv, AcceptCancelInv,
       AcceptCloseInv, AttachEndsInv DEF Calls
  <1>3. CASE Reads
    BY <1>3 DEF Reads, PopFrame, ReadChunk, ReadEnd, Following
  <1>4. CASE Tick \/ JobWrites \/ EmitKeepAlive \/ Cut
    BY <1>4, Untouched
       DEF Tick, JobWrites, EmitKeepAlive, Cut, serverVars, callVars, netVars, sendVars, readVars
  <1>5. CASE UNCHANGED vars
    BY <1>5, Untouched DEF vars, serverVars, callVars, netVars, sendVars, readVars
  <1> QED
    BY <1>1, <1>2, <1>3, <1>4, <1>5, CollectInv, JobEndsInv, BreakInv, StraggleInv DEF Next

\* The demo is never outside the invariant.
THEOREM DemoInvHolds == Spec => []DemoInv
  <1>1. Init => DemoInv
    BY DEF Init, InitDemo, DemoInv, Progress, Losses, OnServer, Result, Method, Ended
  <1> QED
    BY <1>1, DemoStep, PTL DEF Spec

\* The demo reports success only of a job that exited with 0, whose whole log was
\* replayed, in a session that is closed, whatever breaks and whatever arrives late
\* (demo.rs, runtime).
THEOREM SuccessIsAlwaysTrue == Spec => []SuccessIsTrue
  <1>1. DemoInv => SuccessIsTrue
    BY DEF DemoInv, Result, SuccessIsTrue
  <1> QED
    BY <1>1, DemoInvHolds, PTL

\* An open session is left behind only if an open or a close was lost, and a job that
\* runs on untold only if a start or a cancel was (demo.rs, runtime).
THEOREM NothingIsLeftBehind == Spec => []NothingLeftBehind
  <1>1. DemoInv => NothingLeftBehind
    BY DEF DemoInv, OnServer, NothingLeftBehind
  <1> QED
    BY <1>1, DemoInvHolds, PTL

-----------------------------------------------------------------------------
(* Counting *)

\* A set of numbers that is not empty has a least one.
LEMMA LeastNumber ==
    ASSUME NEW S \in SUBSET Nat, S # {}
    PROVE  \E n \in S : \A m \in S : n <= m
  <1> DEFINE R == OpToRel(<, Nat)
  <1>1. IsWellFoundedOn(R, Nat)
    BY NatLessThanWellFounded
  <1>2. \A x, y \in Nat : y < x => <<y, x>> \in R
    BY DEF OpToRel
  <1> HIDE DEF R
  <1>3. PICK n \in S : \A m \in S : ~(<<m, n>> \in R)
    BY <1>1, WFMin
  <1>4. \A m \in S : ~(m < n)
    BY <1>2, <1>3
  <1> QED
    BY <1>4

\* What holds of 0, and of n + 1 below N if it holds of n, holds up to N.
LEMMA CountUp ==
    ASSUME NEW N \in Nat, NEW S, 0 \in S, \A n \in 0..N - 1 : n \in S => n + 1 \in S
    PROVE  \A n \in 0..N : n \in S
  <1> DEFINE T == {n \in 0..N : n \notin S}
  <1> SUFFICES ASSUME T # {} PROVE FALSE
    OBVIOUS
  <1>1. T \in SUBSET Nat /\ \A n \in 0..N : n \in T <=> n \notin S
    OBVIOUS
  <1> HIDE DEF T
  <1>2. PICK n \in T : \A m \in T : n <= m
    BY <1>1, LeastNumber
  <1>3. n \in 0..N /\ n \notin S /\ n # 0
    BY <1>1 DEF T
  <1>4. n - 1 \in 0..N - 1 /\ n - 1 \in S
    BY <1>1, <1>2, <1>3
  <1> QED
    BY <1>3, <1>4

-----------------------------------------------------------------------------
(* The decoder, a byte at a time *)

\* The states the decoder can be in while it scans.
Reading ==
    [line : Seq(Token), sawData : BOOLEAN, data : Seq(Token), frames : Seq(Frame),
     failed : BOOLEAN]

\* The same state, with the frames F given out before.
Ahead(F, a, b) ==
    /\ a \in Reading /\ b \in Reading
    /\ a.line = b.line /\ a.sawData = b.sawData /\ a.data = b.data /\ a.failed = b.failed
    /\ a.frames = F \o b.frames

\* A line is still one without its CR.
LEMMA StripTypes ==
    ASSUME NEW line \in Seq(Token)
    PROVE  StripCR(line) \in Seq(Token)
  <1>1. CASE line # <<>> /\ Last(line) = CR
    <2>1. PICK N \in Nat : Len(line) = N /\ N # 0
      BY <1>1
    <2>2. SubSeq(line, 1, N - 1) \in Seq(Token)
      BY <2>1
    <2> QED
      BY <1>1, <2>1, <2>2 DEF StripCR, Front
  <1>2. CASE ~(line # <<>> /\ Last(line) = CR)
    BY <1>2 DEF StripCR
  <1> QED
    BY <1>1, <1>2

\* What was given out before makes no difference to a line, ...
LEMMA AddLineAhead ==
    ASSUME NEW F \in Seq(Frame), NEW a, NEW b, Ahead(F, a, b), NEW line \in Seq(Token)
    PROVE  Ahead(F, AddLine(a, line), AddLine(b, line))
  <1> DEFINE kept == StripCR(line)
  <1>1. kept \in Seq(Token)
    BY StripTypes
  <1>2. /\ AddLine(a, line) = IF IsData(kept)
              THEN [a EXCEPT !.sawData = TRUE, !.data = @ \o Tail(kept)] ELSE a
        /\ AddLine(b, line) = IF IsData(kept)
              THEN [b EXCEPT !.sawData = TRUE, !.data = @ \o Tail(kept)] ELSE b
    BY DEF AddLine
  <1> HIDE DEF kept
  <1>3. CASE IsData(kept)
    <2>1. Tail(kept) \in Seq(Token)
      BY <1>1, <1>3 DEF IsData
    <2>2. a.data \in Seq(Token) /\ b.data = a.data
      BY DEF Ahead, Reading
    <2>3. PICK d \in Seq(Token) : d = a.data \o Tail(kept)
      <3>1. PICK x \in Seq(Token), y \in Seq(Token) : x = a.data /\ y = Tail(kept)
        BY <2>1, <2>2
      <3>2. x \o y \in Seq(Token)
        OBVIOUS
      <3> QED
        BY <3>1, <3>2
    <2> HIDE DEF IsData
    <2>4. /\ AddLine(a, line) = [a EXCEPT !.sawData = TRUE, !.data = d]
          /\ AddLine(b, line) = [b EXCEPT !.sawData = TRUE, !.data = d]
      BY <1>2, <1>3, <2>2, <2>3
    <2> QED
      BY <2>4 DEF Ahead, Reading
  <1>4. CASE ~IsData(kept)
    BY <1>2, <1>4
  <1> QED
    BY <1>3, <1>4

\* ... to the end of an event, ...
LEMMA EndEventAhead ==
    ASSUME NEW F \in Seq(Frame), NEW a, NEW b, Ahead(F, a, b)
    PROVE  Ahead(F, EndEvent(a), EndEvent(b))
  <1> DEFINE parsed == {k \in Frame : a.data = FrameJson(k)}
             k == CHOOSE k \in parsed : TRUE
  <1>1. <<>> \in Seq(Token)
    OBVIOUS
  <1>2. CASE ~a.sawData
    BY <1>1, <1>2 DEF Ahead, Reading, EndEvent
  <1>3. CASE a.sawData /\ parsed = {}
    BY <1>1, <1>3 DEF Ahead, Reading, EndEvent
  <1>4. CASE a.sawData /\ parsed # {}
    <2>1. k \in Frame
      BY <1>4
    <2>2. parsed = {m \in Frame : b.data = FrameJson(m)}
      BY DEF Ahead
    <2>3. /\ EndEvent(a) = [a EXCEPT !.sawData = FALSE, !.data = <<>>, !.frames = Append(@, k)]
          /\ EndEvent(b) = [b EXCEPT !.sawData = FALSE, !.data = <<>>, !.frames = Append(@, k)]
      BY <1>4, <2>2 DEF EndEvent, Ahead, Reading
    <2> HIDE DEF k
    <2>4. /\ Append(a.frames, k) \in Seq(Frame) /\ Append(b.frames, k) \in Seq(Frame)
          /\ Append(a.frames, k) = F \o Append(b.frames, k)
      BY <2>1 DEF Ahead, Reading
    <2> QED
      BY <1>1, <2>3, <2>4 DEF Ahead, Reading
  <1> QED
    BY <1>2, <1>3, <1>4

\* ... or to the end of a line.
LEMMA EndLineAhead ==
    ASSUME NEW F \in Seq(Frame), NEW a, NEW b, Ahead(F, a, b)
    PROVE  Ahead(F, EndLine(a), EndLine(b))
  <1> DEFINE line == StripCR(a.line)
             nextA == [a EXCEPT !.line = <<>>]
             nextB == [b EXCEPT !.line = <<>>]
  <1>1. a.line \in Seq(Token) /\ b.line = a.line
    BY DEF Ahead, Reading
  <1>2. line \in Seq(Token)
    BY <1>1, StripTypes
  <1>3. Ahead(F, nextA, nextB)
    <2>1. <<>> \in Seq(Token)
      OBVIOUS
    <2> QED
      BY <2>1 DEF Ahead, Reading
  <1>4. /\ EndLine(a) = IF line = <<>> THEN EndEvent(nextA) ELSE AddLine(nextA, line)
        /\ EndLine(b) = IF line = <<>> THEN EndEvent(nextB) ELSE AddLine(nextB, line)
    BY <1>1 DEF EndLine
  <1> HIDE DEF line, nextA, nextB
  <1> QED
    BY <1>2, <1>3, <1>4, AddLineAhead, EndEventAhead

\* What was given out before makes no difference to the next byte.
LEMMA FeedAhead ==
    ASSUME NEW F \in Seq(Frame), NEW a, NEW b, Ahead(F, a, b), NEW token \in Token
    PROVE  Ahead(F, Feed(a, token), Feed(b, token))
  <1>1. CASE a.failed
    BY <1>1 DEF Ahead, Feed
  <1>2. CASE ~a.failed /\ token = LF
    <2>1. Feed(a, token) = EndLine(a) /\ Feed(b, token) = EndLine(b)
      BY <1>2 DEF Ahead, Feed
    <2> QED
      BY <2>1, EndLineAhead
  <1>3. CASE ~a.failed /\ token # LF
    <2>1. /\ Feed(a, token) = [a EXCEPT !.line = Append(@, token)]
          /\ Feed(b, token) = [b EXCEPT !.line = Append(@, token)]
      BY <1>3 DEF Ahead, Feed
    <2>2. a.line \in Seq(Token) /\ b.line = a.line
      BY DEF Ahead, Reading
    <2>3. PICK l \in Seq(Token) : l = Append(a.line, token)
      <3>1. PICK x \in Seq(Token) : x = a.line
        BY <2>2
      <3>2. Append(x, token) \in Seq(Token)
        OBVIOUS
      <3> QED
        BY <3>1, <3>2
    <2>4. Feed(a, token) = [a EXCEPT !.line = l] /\ Feed(b, token) = [b EXCEPT !.line = l]
      BY <2>1, <2>2, <2>3
    <2> QED
      BY <2>4 DEF Ahead, Reading
  <1> QED
    BY <1>1, <1>2, <1>3

-----------------------------------------------------------------------------
(* The decoder, over a text *)

\* f is the scan of the first n bytes.
ScanRun(start, text, n, f) ==
    f = [i \in 0..n |-> IF i = 0 THEN start ELSE Feed(f[i - 1], text[i])]

\* The scan, a byte at a time.
LEMMA ScanSteps ==
    ASSUME NEW start, NEW text \in Seq(Token)
    PROVE  /\ Scan(start, text)[0] = start
           /\ \A n \in 1..Len(text) :
                 Scan(start, text)[n] = Feed(Scan(start, text)[n - 1], text[n])
  <1> DEFINE S == {n \in Nat : \E f : ScanRun(start, text, n, f)}
  <1>1. 0 \in S
    <2> DEFINE f == [i \in 0..0 |-> start]
    <2>1. f = [i \in 0..0 |-> IF i = 0 THEN start ELSE Feed(f[i - 1], text[i])]
      OBVIOUS
    <2> QED
      BY <2>1 DEF ScanRun
  <1>2. ASSUME NEW n \in 0..Len(text) - 1, n \in S PROVE n + 1 \in S
    <2>1. PICK f : ScanRun(start, text, n, f)
      BY <1>2
    <2> DEFINE g == [i \in 0..n + 1 |-> IF i = n + 1 THEN Feed(f[n], text[n + 1]) ELSE f[i]]
    <2>2. ASSUME NEW i \in 0..n + 1
          PROVE  g[i] = IF i = 0 THEN start ELSE Feed(g[i - 1], text[i])
      <3>1. CASE i = n + 1
        BY <3>1
      <3>2. CASE i # n + 1
        <4>1. i \in 0..n /\ g[i] = f[i] /\ (i # 0 => g[i - 1] = f[i - 1])
          BY <3>2
        <4>2. f[i] = IF i = 0 THEN start ELSE Feed(f[i - 1], text[i])
          BY <2>1, <4>1 DEF ScanRun
        <4> QED
          BY <4>1, <4>2
      <3> QED
        BY <3>1, <3>2
    <2>3. g = [i \in 0..n + 1 |-> g[i]]
      OBVIOUS
    <2> HIDE DEF g
    <2>4. ScanRun(start, text, n + 1, g)
      BY <2>2, <2>3 DEF ScanRun
    <2> QED
      BY <2>4
  <1>3. Len(text) \in Nat
    OBVIOUS
  <1> HIDE DEF S
  <1>4. \A n \in 0..Len(text) : n \in S
    BY <1>1, <1>2, <1>3, CountUp
  <1>5. \E f : ScanRun(start, text, Len(text), f)
    BY <1>3, <1>4 DEF S
  <1>6. ScanRun(start, text, Len(text), Scan(start, text))
    BY <1>5 DEF ScanRun, Scan
  <1> DEFINE g == Scan(start, text)
  <1>7. \A i \in 0..Len(text) : g[i] = IF i = 0 THEN start ELSE Feed(g[i - 1], text[i])
    BY <1>6 DEF ScanRun
  <1> HIDE DEF g
  <1>8. g[0] = start /\ \A n \in 1..Len(text) : g[n] = Feed(g[n - 1], text[n])
    BY <1>3, <1>7
  <1> QED
    BY <1>8 DEF g

\* The elements of a sequence.
LEMMA ElementOf ==
    ASSUME NEW S, NEW seq \in Seq(S), NEW i \in 1..Len(seq)
    PROVE  seq[i] \in S
  OBVIOUS

\* Two scans that come to the same place go on alike while the bytes are the same.
LEMMA ScanAlong ==
    ASSUME NEW F \in Seq(Frame), NEW t \in Seq(Token), NEW u \in Seq(Token), NEW s, NEW r,
           NEW m \in Nat, NEW q \in Nat, NEW k \in Nat, m + k <= Len(t), q + k <= Len(u),
           \A j \in 1..k : t[m + j] = u[q + j],
           Ahead(F, Scan(s, t)[m], Scan(r, u)[q])
    PROVE  \A j \in 0..k : Ahead(F, Scan(s, t)[m + j], Scan(r, u)[q + j])
  <1> DEFINE S == {j \in Nat : Ahead(F, Scan(s, t)[m + j], Scan(r, u)[q + j])}
  <1>1. 0 \in S
    <2>1. m + 0 = m /\ q + 0 = q
      OBVIOUS
    <2> QED
      BY <2>1
  <1>2. ASSUME NEW j \in 0..k - 1, j \in S PROVE j + 1 \in S
    <2>1. /\ m + j + 1 \in 1..Len(t) /\ q + j + 1 \in 1..Len(u) /\ j + 1 \in 1..k
          /\ m + j + 1 - 1 = m + j /\ q + j + 1 - 1 = q + j
          /\ m + (j + 1) = m + j + 1 /\ q + (j + 1) = q + j + 1
      OBVIOUS
    <2>2. t[m + j + 1] = u[q + j + 1] /\ t[m + j + 1] \in Token
      <3>1. t[m + (j + 1)] = u[q + (j + 1)]
        BY <2>1
      <3>2. t[m + j + 1] \in Token
        BY <2>1, ElementOf
      <3> QED
        BY <2>1, <3>1, <3>2
    <2>3. /\ Scan(s, t)[m + j + 1] = Feed(Scan(s, t)[m + j], t[m + j + 1])
          /\ Scan(r, u)[q + j + 1] = Feed(Scan(r, u)[q + j], u[q + j + 1])
      BY <2>1, ScanSteps
    <2>4. Ahead(F, Scan(s, t)[m + j], Scan(r, u)[q + j])
      BY <1>2
    <2>5. Ahead(F, Scan(s, t)[m + j + 1], Scan(r, u)[q + j + 1])
      BY <2>2, <2>3, <2>4, FeedAhead
    <2> QED
      BY <2>1, <2>5
  <1> HIDE DEF S
  <1>3. \A j \in 0..k : j \in S
    BY <1>1, <1>2, CountUp
  <1> QED
    BY <1>3 DEF S

\* With nothing given out before, it is the same state.
LEMMA AheadSame ==
    ASSUME NEW a, NEW b
    PROVE  /\ Ahead(<<>>, a, b) => a = b
           /\ a \in Reading => Ahead(<<>>, a, a)
  <1>1. ASSUME Ahead(<<>>, a, b) PROVE a = b
    <2>1. a.frames = b.frames
      BY <1>1 DEF Ahead, Reading
    <2> QED
      BY <1>1, <2>1 DEF Ahead, Reading
  <1>2. ASSUME a \in Reading PROVE Ahead(<<>>, a, a)
    <2>1. a.frames = <<>> \o a.frames
      BY <1>2 DEF Reading
    <2> QED
      BY <1>2, <2>1 DEF Ahead
  <1> QED
    BY <1>1, <1>2

\* Bytes without a line end are all of one line.
LEMMA ScanLine ==
    ASSUME NEW s \in Reading, ~s.failed, s.line = <<>>, NEW text \in Seq(Token),
           \A i \in 1..Len(text) : text[i] # LF
    PROVE  Scan(s, text)[Len(text)] = [s EXCEPT !.line = text]
  <1> DEFINE S == {n \in Nat : Scan(s, text)[n] = [s EXCEPT !.line = SubSeq(text, 1, n)]}
  <1>1. 0 \in S
    <2>1. SubSeq(text, 1, 0) = <<>> /\ s = [s EXCEPT !.line = <<>>]
      BY DEF Reading
    <2> QED
      BY <2>1, ScanSteps
  <1>2. ASSUME NEW n \in 0..Len(text) - 1, n \in S PROVE n + 1 \in S
    <2>1. n + 1 \in 1..Len(text) /\ n + 1 - 1 = n
      OBVIOUS
    <2>2. Scan(s, text)[n + 1] = Feed(Scan(s, text)[n], text[n + 1])
      BY <2>1, ScanSteps
    <2>3. Append(SubSeq(text, 1, n), text[n + 1]) = SubSeq(text, 1, n + 1)
      BY <2>1
    <2>4. Scan(s, text)[n] = [s EXCEPT !.line = SubSeq(text, 1, n)]
      BY <1>2
    <2>5. Feed([s EXCEPT !.line = SubSeq(text, 1, n)], text[n + 1])
             = [s EXCEPT !.line = Append(SubSeq(text, 1, n), text[n + 1])]
      <3>1. text[n + 1] # LF
        BY <2>1
      <3> QED
        BY <3>1 DEF Feed, Reading
    <2>6. Scan(s, text)[n + 1] = [s EXCEPT !.line = SubSeq(text, 1, n + 1)]
      BY <2>2, <2>3, <2>4, <2>5
    <2> QED
      BY <2>1, <2>6
  <1>3. Len(text) \in Nat /\ SubSeq(text, 1, Len(text)) = text
    OBVIOUS
  <1> HIDE DEF S
  <1>4. \A n \in 0..Len(text) : n \in S
    BY <1>1, <1>2, <1>3, CountUp
  <1>5. Len(text) \in S
    BY <1>3, <1>4
  <1> QED
    BY <1>3, <1>5 DEF S

\* The bytes of a piece lead from s to e, and no frame is given out before the last.
Quiet(s, piece, e) ==
    /\ s \in Reading /\ e \in Reading /\ piece \in Seq(Token)
    /\ Scan(s, piece)[Len(piece)] = e
    /\ \A n \in 0..Len(piece) - 1 :
          ~Scan(s, piece)[n].failed /\ Scan(s, piece)[n].frames = s.frames

\* One piece after another.
LEMMA QuietJoin ==
    ASSUME NEW s, NEW a, NEW m, NEW b, NEW e,
           Quiet(s, a, m), Quiet(m, b, e), m.frames = s.frames, ~m.failed
    PROVE  Quiet(s, a \o b, e)
  <1> DEFINE t == a \o b
  <1>1. PICK A \in Nat : Len(a) = A
    BY DEF Quiet
  <1>2. PICK B \in Nat : Len(b) = B
    BY DEF Quiet
  <1>3. /\ t \in Seq(Token) /\ Len(t) = A + B
        /\ \A j \in 1..A : t[0 + j] = a[0 + j]
        /\ \A j \in 1..B : t[A + j] = b[0 + j]
    <2>1. a \in Seq(Token) /\ b \in Seq(Token)
      BY DEF Quiet
    <2>2. t \in Seq(Token) /\ Len(t) = A + B
      BY <1>1, <1>2, <2>1
    <2>3. \A j \in 1..A : t[j] = a[j] /\ 0 + j = j
      BY <1>1, <1>2, <2>1
    <2>4. \A j \in 1..B : t[A + j] = b[j] /\ 0 + j = j
      BY <1>1, <1>2, <2>1
    <2> HIDE DEF t
    <2> QED
      BY <2>2, <2>3, <2>4
  <1> HIDE DEF t
  <1>4. <<>> \in Seq(Frame)
    OBVIOUS
  <1>5. \A j \in 0..A : Scan(s, t)[j] = Scan(s, a)[j]
    <2>1. Ahead(<<>>, Scan(s, t)[0], Scan(s, a)[0])
      <3>1. Scan(s, t)[0] = s /\ Scan(s, a)[0] = s
        BY <1>3, ScanSteps DEF Quiet
      <3> QED
        BY <3>1, AheadSame DEF Quiet
    <2>2. \A j \in 0..A : Ahead(<<>>, Scan(s, t)[0 + j], Scan(s, a)[0 + j])
      <3>1. /\ a \in Seq(Token) /\ 0 + A <= Len(t) /\ 0 + A <= Len(a) /\ 0 \in Nat
            /\ \A j \in 1..A : t[0 + j] = a[0 + j]
        BY <1>1, <1>3 DEF Quiet
      <3> QED
        BY <1>3, <1>4, <2>1, <3>1, ScanAlong
    <2> QED
      BY <2>2, AheadSame
  <1>6. \A j \in 0..B : Scan(s, t)[A + j] = Scan(m, b)[j]
    <2>1. Ahead(<<>>, Scan(s, t)[A], Scan(m, b)[0])
      <3>1. Scan(s, t)[A] = m /\ Scan(m, b)[0] = m
        BY <1>1, <1>5, ScanSteps DEF Quiet
      <3> QED
        BY <3>1, AheadSame DEF Quiet
    <2>2. \A j \in 0..B : Ahead(<<>>, Scan(s, t)[A + j], Scan(m, b)[0 + j])
      <3>1. b \in Seq(Token) /\ 0 \in Nat
        BY DEF Quiet
      <3>2. A + B <= Len(t) /\ 0 + B <= Len(b)
        BY <1>2, <1>3
      <3> QED
        BY <1>3, <1>4, <2>1, <3>1, <3>2, ScanAlong
    <2> QED
      BY <2>2, AheadSame
  <1>7. ASSUME NEW n \in 0..A + B - 1
        PROVE  ~Scan(s, t)[n].failed /\ Scan(s, t)[n].frames = s.frames
    <2>1. CASE n \in 0..A - 1
      BY <1>1, <1>5, <2>1 DEF Quiet
    <2>2. CASE n \in A..A + B - 1
      <3>1. n - A \in 0..B - 1 /\ A + (n - A) = n /\ n - A \in 0..B
        BY <2>2
      <3>2. Scan(s, t)[n] = Scan(m, b)[n - A]
        BY <1>6, <3>1
      <3> QED
        BY <1>2, <3>1, <3>2 DEF Quiet
    <2> QED
      BY <2>1, <2>2
  <1>8. Scan(s, t)[A + B] = e
    BY <1>2, <1>6 DEF Quiet
  <1> QED
    BY <1>3, <1>7, <1>8 DEF Quiet, t

-----------------------------------------------------------------------------
(* What a server writes, read by the decoder *)

\* In the middle of a line, with the frames 1..n given out.
Amid(line, sawData, data, n) ==
    [line |-> line, sawData |-> sawData, data |-> data, frames |-> [k \in 1..n |-> k],
     failed |-> FALSE]

\* Between two events.
Fresh(n) == Amid(<<>>, FALSE, <<>>, n)

\* Before the blank line of event n + 1.
Waiting(n) == Amid(<<>>, TRUE, FrameJson(n + 1), n)

\* What a server writes is made of tokens.
LEMMA Tokens ==
    /\ \A t \in {"id", "data", "comment", "cr", "lf"} : Mark(t) \in Token
    /\ \A t \in {"head", "tail"}, k \in Frame : Half(t, k) \in Token
    /\ LF \in Token /\ CR \in Token /\ LF # CR
  BY DEF Mark, Half, Token, CR, LF

\* Those are states of the decoder.
LEMMA AmidIsReading ==
    ASSUME NEW line \in Seq(Token), NEW sawData \in BOOLEAN, NEW data \in Seq(Token),
           NEW n \in 0..FrameCount
    PROVE  Amid(line, sawData, data, n) \in Reading
  <1>1. [k \in 1..n |-> k] \in Seq(Frame)
    <2>1. [k \in 1..n |-> k] \in [1..n -> Frame] /\ n \in Nat
      BY DemoAssumption DEF Frame
    <2> QED
      BY <2>1
  <1> QED
    BY <1>1 DEF Amid, Reading

\* A sequence with one element more.
LEMMA Longer ==
    ASSUME NEW S, NEW seq \in Seq(S), NEW x \in S
    PROVE  /\ Append(seq, x) \in Seq(S) /\ Len(Append(seq, x)) = Len(seq) + 1
           /\ Append(seq, x)[Len(seq) + 1] = x
           /\ \A i \in 1..Len(seq) : Append(seq, x)[i] = seq[i]
  OBVIOUS

\* A byte of a line.
LEMMA QuietToken ==
    ASSUME NEW s \in Reading, ~s.failed, NEW token \in Token, token # LF
    PROVE  Quiet(s, <<token>>, [s EXCEPT !.line = Append(@, token)])
  <1> DEFINE piece == <<token>>
             e == [s EXCEPT !.line = Append(@, token)]
  <1>1. piece \in Seq(Token) /\ Len(piece) = 1 /\ piece[1] = token
    OBVIOUS
  <1>2. e \in Reading
    <2>1. s.line \in Seq(Token)
      BY DEF Reading
    <2>2. Append(s.line, token) \in Seq(Token)
      BY <2>1
    <2> QED
      BY <2>2 DEF Reading
  <1>3. Feed(s, token) = e
    BY DEF Feed
  <1> HIDE DEF piece, e
  <1>4. Scan(s, piece)[0] = s /\ Scan(s, piece)[1] = e
    BY <1>1, <1>3, ScanSteps
  <1>5. \A n \in 0..Len(piece) - 1 : n = 0
    BY <1>1
  <1>6. Quiet(s, piece, e)
    BY <1>1, <1>2, <1>4, <1>5 DEF Quiet
  <1> QED
    BY <1>6 DEF piece, e

\* A CR is taken off a line once.
LEMMA StripTail ==
    ASSUME NEW line \in Seq(Token)
    PROVE  /\ StripCR(Append(line, CR)) = line
           /\ line = <<>> \/ line[Len(line)] # CR => StripCR(line) = line
  <1>1. PICK N \in Nat : Len(line) = N
    OBVIOUS
  <1>2. /\ Append(line, CR) # <<>> /\ Len(Append(line, CR)) = N + 1
        /\ Append(line, CR)[N + 1] = CR
    <2>1. /\ Len(Append(line, CR)) = Len(line) + 1
          /\ Append(line, CR)[Len(line) + 1] = CR
      BY Tokens, Longer
    <2>2. Len(Append(line, CR)) # Len(<<>>)
      BY <1>1, <2>1
    <2> QED
      BY <1>1, <2>1, <2>2
  <1>3. SubSeq(Append(line, CR), 1, N) = line
    BY <1>1, Tokens
  <1>4. StripCR(Append(line, CR)) = line
    BY <1>2, <1>3 DEF StripCR, Last, Front
  <1> QED
    BY <1>4 DEF StripCR, Last

\* A line end, of either kind.
LEMMA QuietNewline ==
    ASSUME NEW kind \in Style, NEW s \in Reading, ~s.failed,
           s.line = <<>> \/ s.line[Len(s.line)] # CR, NEW e \in Reading, EndLine(s) = e
    PROVE  Quiet(s, Newline(kind), e)
  <1> DEFINE piece == Newline(kind)
             more == [s EXCEPT !.line = Append(@, CR)]
  <1>1. CASE kind.crlf
    <2>1. piece \in Seq(Token) /\ Len(piece) = 2 /\ piece[1] = CR /\ piece[2] = LF
      BY <1>1, Tokens DEF Newline
    <2>2. Feed(s, CR) = more /\ more.frames = s.frames /\ ~more.failed
      BY Tokens DEF Feed, Reading
    <2>3. Feed(more, LF) = e
      <3>1. s.line \in Seq(Token)
        BY DEF Reading
      <3>2. /\ more.line = Append(s.line, CR)
            /\ [more EXCEPT !.line = <<>>] = [s EXCEPT !.line = <<>>]
        BY DEF Reading
      <3>3. StripCR(more.line) = StripCR(s.line)
        BY <3>1, <3>2, StripTail
      <3>4. EndLine(more) = EndLine(s)
        BY <3>2, <3>3 DEF EndLine
      <3> QED
        BY <2>2, <3>4 DEF Feed
    <2> HIDE DEF piece, more
    <2>4. Scan(s, piece)[0] = s /\ Scan(s, piece)[1] = more /\ Scan(s, piece)[2] = e
      <3>1. 1 \in 1..Len(piece) /\ 2 \in 1..Len(piece) /\ 1 - 1 = 0 /\ 2 - 1 = 1
        BY <2>1
      <3>2. /\ Scan(s, piece)[0] = s
            /\ Scan(s, piece)[1] = Feed(Scan(s, piece)[0], piece[1])
            /\ Scan(s, piece)[2] = Feed(Scan(s, piece)[1], piece[2])
        BY <2>1, <3>1, ScanSteps
      <3> QED
        BY <2>1, <2>2, <2>3, <3>2
    <2>5. \A n \in 0..Len(piece) - 1 : n = 0 \/ n = 1
      BY <2>1
    <2>6. Quiet(s, piece, e)
      BY <2>1, <2>2, <2>4, <2>5 DEF Quiet
    <2> QED
      BY <2>6 DEF piece
  <1>2. CASE ~kind.crlf
    <2>1. piece \in Seq(Token) /\ Len(piece) = 1 /\ piece[1] = LF
      BY <1>2, Tokens DEF Newline
    <2>2. Feed(s, LF) = e
      BY DEF Feed
    <2> HIDE DEF piece
    <2>3. Scan(s, piece)[0] = s /\ Scan(s, piece)[1] = e
      BY <2>1, <2>2, ScanSteps
    <2>4. \A n \in 0..Len(piece) - 1 : n = 0
      BY <2>1
    <2>5. Quiet(s, piece, e)
      BY <2>1, <2>3, <2>4 DEF Quiet
    <2> QED
      BY <2>5 DEF piece
  <1> QED
    BY <1>1, <1>2

\* Lines that are not data leave the event as it is.
LEMMA SkippedLine ==
    ASSUME NEW t \in {"id", "comment"}, NEW n \in 0..FrameCount
    PROVE  EndLine(Amid(<<Mark(t)>>, FALSE, <<>>, n)) = Fresh(n)
  <1> DEFINE line == <<Mark(t)>>
  <1>1. line \in Seq(Token) /\ line # <<>> /\ Len(line) = 1 /\ line[1] = Mark(t)
    BY Tokens
  <1>2. Mark(t) # CR /\ Mark(t) # Mark("data")
    BY DEF Mark, CR
  <1>3. StripCR(line) = line /\ ~IsData(line)
    <2>1. line[Len(line)] # CR
      BY <1>1, <1>2
    <2>2. StripCR(line) = line
      BY <1>1, <2>1, StripTail
    <2> QED
      BY <1>1, <1>2, <2>2 DEF IsData
  <1> HIDE DEF line
  <1>4. EndLine(Amid(line, FALSE, <<>>, n)) = Amid(<<>>, FALSE, <<>>, n)
    BY <1>1, <1>3 DEF EndLine, AddLine, Amid
  <1> QED
    BY <1>4 DEF line, Fresh

\* Data lines add to it.
LEMMA DataLine ==
    ASSUME NEW line \in Seq(Token), line # <<>>, Head(line) = Mark("data"),
           line[Len(line)] # CR, NEW sawData \in BOOLEAN, NEW data \in Seq(Token), NEW n
    PROVE  EndLine(Amid(line, sawData, data, n)) = Amid(<<>>, TRUE, data \o Tail(line), n)
  <1>1. StripCR(line) = line /\ IsData(line)
    BY StripTail DEF IsData
  <1> QED
    BY <1>1 DEF EndLine, AddLine, Amid

\* No two frames have the same JSON.
LEMMA OneFrame ==
    ASSUME NEW n \in Frame
    PROVE  {k \in Frame : FrameJson(n) = FrameJson(k)} = {n}
  <1>1. ASSUME NEW k \in Frame, FrameJson(n) = FrameJson(k) PROVE k = n
    <2>1. FrameJson(n)[1].k = FrameJson(k)[1].k
      BY <1>1
    <2>2. \A m : FrameJson(m)[1].k = m
      BY DEF FrameJson, Half
    <2> QED
      BY <2>1, <2>2
  <1> QED
    BY <1>1

\* A blank line ends it.
LEMMA BlankLine ==
    ASSUME NEW n \in 0..FrameCount
    PROVE  /\ EndLine(Fresh(n)) = Fresh(n)
           /\ n # FrameCount => EndLine(Waiting(n)) = Fresh(n + 1)
  <1>1. StripCR(<<>>) = <<>>
    BY DEF StripCR
  <1>2. EndLine(Fresh(n)) = Fresh(n)
    BY <1>1 DEF EndLine, EndEvent, Fresh, Amid
  <1>3. ASSUME n # FrameCount PROVE EndLine(Waiting(n)) = Fresh(n + 1)
    <2>1. n + 1 \in Frame /\ n \in Nat
      BY <1>3, DemoAssumption DEF Frame
    <2>2. {k \in Frame : FrameJson(n + 1) = FrameJson(k)} = {n + 1}
      BY <2>1, OneFrame
    <2>3. Append([k \in 1..n |-> k], n + 1) = [k \in 1..n + 1 |-> k]
      BY <2>1
    <2>4. (CHOOSE k \in {n + 1} : TRUE) = n + 1
      OBVIOUS
    <2> DEFINE json == FrameJson(n + 1)
               parsed == {k \in Frame : json = FrameJson(k)}
    <2> HIDE DEF json, parsed
    <2>5. EndEvent(Amid(<<>>, TRUE, json, n)) =
             IF parsed = {} THEN [Amid(<<>>, FALSE, <<>>, n) EXCEPT !.failed = TRUE]
             ELSE [Amid(<<>>, FALSE, <<>>, n) EXCEPT
                      !.frames = Append(@, CHOOSE k \in parsed : TRUE)]
      <3> DEFINE s == Amid(<<>>, TRUE, json, n)
      <3>1. /\ s.sawData /\ s.data = json
            /\ [s EXCEPT !.sawData = FALSE, !.data = <<>>] = Amid(<<>>, FALSE, <<>>, n)
        <4>1. PICK next : next = [s EXCEPT !.sawData = FALSE, !.data = <<>>]
          OBVIOUS
        <4>2. next = Amid(<<>>, FALSE, <<>>, n)
          BY <4>1 DEF Amid
        <4>3. s.sawData /\ s.data = json
          BY DEF Amid
        <4> QED
          BY <4>1, <4>2, <4>3
      <3> HIDE DEF s
      <3>2. EndEvent(s) =
               IF parsed = {} THEN [Amid(<<>>, FALSE, <<>>, n) EXCEPT !.failed = TRUE]
               ELSE [Amid(<<>>, FALSE, <<>>, n) EXCEPT
                        !.frames = Append(@, CHOOSE k \in parsed : TRUE)]
        BY <3>1 DEF EndEvent, parsed
      <3> QED
        BY <3>2 DEF s
    <2>6. parsed = {n + 1}
      BY <2>2 DEF parsed, json
    <2>7. EndEvent(Amid(<<>>, TRUE, json, n)) = Amid(<<>>, FALSE, <<>>, n + 1)
      BY <2>3, <2>4, <2>5, <2>6 DEF Amid
    <2>8. EndLine(Amid(<<>>, TRUE, json, n)) = EndEvent(Amid(<<>>, TRUE, json, n))
      BY <1>1 DEF EndLine, Amid
    <2> QED
      BY <2>7, <2>8 DEF Waiting, Fresh, json
  <1> QED
    BY <1>2, <1>3

\* Bytes of a line, put together.
LEMMA Tuples ==
    ASSUME NEW a \in Token, NEW b \in Token, NEW c \in Token
    PROVE  /\ Append(<<>>, a) = <<a>> /\ Append(<<a>>, b) = <<a, b>>
           /\ Append(<<a, b>>, c) = <<a, b, c>> /\ <<a>> \o <<b>> = <<a, b>>
           /\ <<>> \o Tail(<<a, b>>) = <<b>> /\ <<>> \o Tail(<<a, b, c>>) = <<b, c>>
           /\ <<a>> \o Tail(<<b, c>>) = <<a, c>>
  <1>1. ASSUME NEW x \in Token, NEW y \in Token, NEW s \in Seq(Token), Len(s) = 2,
               s[1] = x, s[2] = y
        PROVE  s = <<x, y>>
    BY <1>1
  <1>2. ASSUME NEW s \in Seq(Token), Len(s) = 3, s[1] = a, s[2] = b, s[3] = c
        PROVE  s = <<a, b, c>>
    BY <1>2
  <1>3. Append(<<>>, a) = <<a>>
    OBVIOUS
  <1>4. \A s : s = Append(<<a>>, b) => s \in Seq(Token) /\ Len(s) = 2 /\ s[1] = a /\ s[2] = b
    OBVIOUS
  <1>5. \A s : s = Append(<<a, b>>, c) =>
           s \in Seq(Token) /\ Len(s) = 3 /\ s[1] = a /\ s[2] = b /\ s[3] = c
    OBVIOUS
  <1>6. \A s : s = <<a>> \o <<b>> => s \in Seq(Token) /\ Len(s) = 2 /\ s[1] = a /\ s[2] = b
    OBVIOUS
  <1>7. \A s : s = <<a>> \o Tail(<<b, c>>) =>
           s \in Seq(Token) /\ Len(s) = 2 /\ s[1] = a /\ s[2] = c
    OBVIOUS
  <1>8. <<>> \o Tail(<<a, b>>) = <<b>>
    OBVIOUS
  <1>9. <<>> \o Tail(<<a, b, c>>) = <<b, c>>
    OBVIOUS
  <1>10. Append(<<a>>, b) = <<a, b>>
    BY <1>1, <1>4
  <1>11. Append(<<a, b>>, c) = <<a, b, c>>
    BY <1>2, <1>5
  <1>12. <<a>> \o <<b>> = <<a, b>>
    BY <1>1, <1>6
  <1>13. <<a>> \o Tail(<<b, c>>) = <<a, c>>
    BY <1>1, <1>7
  <1> QED
    BY <1>3, <1>8, <1>9, <1>10, <1>11, <1>12, <1>13

\* The same two steps, in the middle of a line: a byte, ...
LEMMA AmidToken ==
    ASSUME NEW line \in Seq(Token), NEW sawData \in BOOLEAN, NEW data \in Seq(Token),
           NEW n \in 0..FrameCount, NEW token \in Token, token # LF
    PROVE  Quiet(Amid(line, sawData, data, n), <<token>>,
                 Amid(Append(line, token), sawData, data, n))
  <1>1. PICK s : s = Amid(line, sawData, data, n)
    OBVIOUS
  <1>2. PICK e : e = [s EXCEPT !.line = Append(@, token)]
    OBVIOUS
  <1>3. e = Amid(Append(line, token), sawData, data, n)
    BY <1>1, <1>2 DEF Amid
  <1>4. s \in Reading
    BY <1>1, AmidIsReading
  <1>5. ~s.failed
    BY <1>1 DEF Amid
  <1>6. Quiet(s, <<token>>, [s EXCEPT !.line = Append(@, token)])
    BY <1>4, <1>5, QuietToken
  <1> QED
    BY <1>1, <1>2, <1>3, <1>6

\* ... and a line end.
LEMMA AmidNewline ==
    ASSUME NEW kind \in Style, NEW line \in Seq(Token), NEW sawData \in BOOLEAN,
           NEW data \in Seq(Token), NEW n \in 0..FrameCount,
           line = <<>> \/ line[Len(line)] # CR, NEW e \in Reading,
           EndLine(Amid(line, sawData, data, n)) = e
    PROVE  Quiet(Amid(line, sawData, data, n), Newline(kind), e)
  <1>1. PICK s \in Reading : s = Amid(line, sawData, data, n)
    BY AmidIsReading
  <1>2. ~s.failed /\ s.line = line
    BY <1>1 DEF Amid
  <1> QED
    BY <1>1, <1>2, QuietNewline

\* One piece after another, while n frames are given out.
LEMMA AmidJoin ==
    ASSUME NEW n, NEW l, NEW w, NEW d, NEW m, NEW x, NEW y, NEW a, NEW b, NEW e,
           Quiet(Amid(l, w, d, n), a, Amid(m, x, y, n)), Quiet(Amid(m, x, y, n), b, e)
    PROVE  Quiet(Amid(l, w, d, n), a \o b, e)
  <1>1. Amid(m, x, y, n).frames = Amid(l, w, d, n).frames /\ ~Amid(m, x, y, n).failed
    BY DEF Amid
  <1> QED
    BY <1>1, QuietJoin

\* The states around an event are states of the decoder.
LEMMA FreshIsReading ==
    ASSUME NEW n \in 0..FrameCount
    PROVE  Fresh(n) \in Reading /\ (n # FrameCount => Waiting(n) \in Reading)
  <1>1. Fresh(n) \in Reading
    <2>1. <<>> \in Seq(Token) /\ FALSE \in BOOLEAN
      OBVIOUS
    <2> QED
      BY <2>1, AmidIsReading DEF Fresh
  <1>2. ASSUME n # FrameCount PROVE Waiting(n) \in Reading
    <2>1. n + 1 \in Frame
      BY <1>2, DemoAssumption DEF Frame
    <2>2. FrameJson(n + 1) \in Seq(Token)
      BY <2>1, Tokens DEF FrameJson
    <2>3. <<>> \in Seq(Token) /\ TRUE \in BOOLEAN
      OBVIOUS
    <2> QED
      BY <2>2, <2>3, AmidIsReading DEF Waiting
  <1> QED
    BY <1>1, <1>2

\* A comment is passed over.
LEMMA QuietKeepAlive ==
    ASSUME NEW kind \in Style, NEW n \in 0..FrameCount
    PROVE  Quiet(Fresh(n), KeepAliveOf(kind), Fresh(n))
  <1> DEFINE comment == Mark("comment")
             nl == Newline(kind)
  <1>1. /\ comment \in Token /\ comment # LF /\ comment # CR /\ <<>> \in Seq(Token)
        /\ Append(<<>>, comment) = <<comment>> /\ <<comment>> \in Seq(Token)
        /\ <<comment>>[Len(<<comment>>)] = comment
    BY Tokens DEF Mark, LF, CR
  <1>2. EndLine(Amid(<<comment>>, FALSE, <<>>, n)) = Fresh(n) /\ Fresh(n) \in Reading
    BY SkippedLine, FreshIsReading
  <1> HIDE DEF comment, nl
  <1>3. Quiet(Amid(<<>>, FALSE, <<>>, n), <<comment>>, Amid(<<comment>>, FALSE, <<>>, n))
    BY <1>1, AmidToken
  <1>4. Quiet(Amid(<<comment>>, FALSE, <<>>, n), nl, Fresh(n))
    BY <1>1, <1>2, AmidNewline DEF nl
  <1>5. Quiet(Amid(<<>>, FALSE, <<>>, n), nl, Fresh(n))
    <2>1. EndLine(Amid(<<>>, FALSE, <<>>, n)) = Fresh(n)
      BY BlankLine DEF Fresh
    <2> QED
      BY <1>1, <1>2, <2>1, AmidNewline DEF nl
  <1>6. Quiet(Amid(<<>>, FALSE, <<>>, n), <<comment>> \o nl, Amid(<<>>, FALSE, <<>>, n))
    BY <1>3, <1>4, AmidJoin DEF Fresh
  <1>7. Quiet(Amid(<<>>, FALSE, <<>>, n), (<<comment>> \o nl) \o nl, Fresh(n))
    BY <1>5, <1>6, AmidJoin
  <1> QED
    BY <1>7 DEF Fresh, KeepAliveOf, comment, nl

\* The blank line behind event n is missing.
Cutoff(kind, n) == kind.unfinished /\ n = FrameCount

\* An event gives its frame out at its last byte, if it is complete.
LEMMA QuietEvent ==
    ASSUME NEW kind \in Style, NEW n \in 0..FrameCount - 1
    PROVE  Quiet(Fresh(n), EventOf(kind, n + 1),
                 IF Cutoff(kind, n + 1) THEN Waiting(n) ELSE Fresh(n + 1))
  <1> DEFINE id == Mark("id")
             data == Mark("data")
             head == Half("head", n + 1)
             tail == Half("tail", n + 1)
             nl == Newline(kind)
             second == IF kind.split THEN nl \o <<data>> ELSE <<>>
             last == IF Cutoff(kind, n + 1) THEN <<>> ELSE nl
             upTo1 == <<id>> \o nl
             upTo2 == upTo1 \o <<data, head>>
             upTo3 == upTo2 \o second
             upTo4 == upTo3 \o <<tail>>
             upTo5 == upTo4 \o nl
  <1>1. n + 1 \in Frame /\ n \in 0..FrameCount /\ n # FrameCount /\ n + 1 \in 0..FrameCount
    BY DemoAssumption DEF Frame
  <1>2. /\ id \in Token /\ data \in Token /\ head \in Token /\ tail \in Token
        /\ id \notin {LF, CR} /\ data \notin {LF, CR} /\ head \notin {LF, CR}
        /\ tail \notin {LF, CR}
    BY <1>1, Tokens DEF Mark, Half, LF, CR
  <1>3. EventOf(kind, n + 1) = upTo5 \o last
    BY DEF EventOf, Cutoff
  <1>4. EndLine(Amid(<<id>>, FALSE, <<>>, n)) = Fresh(n) /\ Fresh(n) \in Reading
    BY <1>1, SkippedLine, FreshIsReading
  <1>5. EndLine(Waiting(n)) = Fresh(n + 1) /\ Waiting(n) \in Reading /\ Fresh(n + 1) \in Reading
    BY <1>1, BlankLine, FreshIsReading
  <1>6. FrameJson(n + 1) = <<head, tail>>
    BY DEF FrameJson
  <1> HIDE DEF id, data, head, tail, nl, second, last, upTo1, upTo2, upTo3, upTo4, upTo5
  <1>7. /\ <<>> \in Seq(Token) /\ <<id>> \in Seq(Token) /\ <<data>> \in Seq(Token)
        /\ <<head>> \in Seq(Token) /\ <<data, head>> \in Seq(Token)
        /\ <<data, tail>> \in Seq(Token)
        /\ <<head, tail>> \in Seq(Token) /\ <<data, head, tail>> \in Seq(Token)
    BY <1>2
  <1>8. /\ Append(<<>>, id) = <<id>> /\ Append(<<>>, data) = <<data>>
        /\ Append(<<data>>, head) = <<data, head>> /\ Append(<<data>>, tail) = <<data, tail>>
        /\ Append(<<data, head>>, tail) = <<data, head, tail>>
        /\ <<data>> \o <<head>> = <<data, head>>
        /\ <<>> \o Tail(<<data, head>>) = <<head>>
        /\ <<>> \o Tail(<<data, head, tail>>) = <<head, tail>>
        /\ <<head>> \o Tail(<<data, tail>>) = <<head, tail>>
    <2>1. id \in Token /\ data \in Token /\ head \in Token /\ tail \in Token
      BY <1>2
    <2>2. /\ Append(<<>>, id) = <<id>> /\ Append(<<>>, data) = <<data>>
          /\ Append(<<data>>, head) = <<data, head>> /\ Append(<<data>>, tail) = <<data, tail>>
          /\ <<data>> \o <<head>> = <<data, head>>
      BY <2>1, Tuples, Zenon
    <2>3. Append(<<data, head>>, tail) = <<data, head, tail>>
      BY <2>1, Tuples
    <2>4. <<>> \o Tail(<<data, head>>) = <<head>>
      BY <2>1, Tuples
    <2>5. <<>> \o Tail(<<data, head, tail>>) = <<head, tail>>
      BY <2>1, Tuples
    <2>6. <<head>> \o Tail(<<data, tail>>) = <<head, tail>>
      BY <2>1, Tuples
    <2> QED
      BY <2>2, <2>3, <2>4, <2>5, <2>6
  <1>9. Quiet(Amid(<<>>, FALSE, <<>>, n), upTo1, Amid(<<>>, FALSE, <<>>, n))
    <2>1. Quiet(Amid(<<>>, FALSE, <<>>, n), <<id>>, Amid(<<id>>, FALSE, <<>>, n))
      BY <1>1, <1>2, <1>7, <1>8, AmidToken
    <2>2. Quiet(Amid(<<id>>, FALSE, <<>>, n), nl, Fresh(n))
      <3>1. <<id>>[Len(<<id>>)] = id
        OBVIOUS
      <3> QED
        BY <1>1, <1>2, <1>4, <1>7, <3>1, AmidNewline DEF nl
    <2> QED
      BY <2>1, <2>2, AmidJoin DEF Fresh, upTo1
  <1>10. Quiet(Amid(<<>>, FALSE, <<>>, n), upTo2, Amid(<<data, head>>, FALSE, <<>>, n))
    <2>1. Quiet(Amid(<<>>, FALSE, <<>>, n), <<data>>, Amid(<<data>>, FALSE, <<>>, n))
      BY <1>1, <1>2, <1>7, <1>8, AmidToken
    <2>2. Quiet(Amid(<<data>>, FALSE, <<>>, n), <<head>>, Amid(<<data, head>>, FALSE, <<>>, n))
      BY <1>1, <1>2, <1>7, <1>8, AmidToken
    <2>3. Quiet(Amid(<<>>, FALSE, <<>>, n), <<data, head>>, Amid(<<data, head>>, FALSE, <<>>, n))
      BY <1>8, <2>1, <2>2, AmidJoin
    <2> QED
      BY <1>9, <2>3, AmidJoin DEF upTo2
  <1>11. Quiet(Amid(<<>>, FALSE, <<>>, n), upTo5, Waiting(n))
    <2>1. CASE kind.split
      <3>1. Quiet(Amid(<<data, head>>, FALSE, <<>>, n), nl, Amid(<<>>, TRUE, <<head>>, n))
        <4>1. /\ <<data, head>> # <<>> /\ Head(<<data, head>>) = Mark("data")
              /\ <<data, head>>[Len(<<data, head>>)] = head
          BY DEF data
        <4>2. EndLine(Amid(<<data, head>>, FALSE, <<>>, n)) = Amid(<<>>, TRUE, <<head>>, n)
          <5>1. /\ <<data, head>> \in Seq(Token) /\ <<>> \in Seq(Token) /\ FALSE \in BOOLEAN
                /\ <<data, head>>[Len(<<data, head>>)] # CR
            BY <1>2, <1>7, <4>1
          <5>2. EndLine(Amid(<<data, head>>, FALSE, <<>>, n))
                   = Amid(<<>>, TRUE, <<>> \o Tail(<<data, head>>), n)
            BY <4>1, <5>1, DataLine, Zenon
          <5> QED
            BY <1>6, <1>8, <5>2
        <4>3. Amid(<<>>, TRUE, <<head>>, n) \in Reading
          BY <1>1, <1>7, AmidIsReading
        <4> QED
          BY <1>1, <1>2, <1>7, <4>1, <4>2, <4>3, AmidNewline DEF nl
      <3>2. Quiet(Amid(<<>>, TRUE, <<head>>, n), <<data>>, Amid(<<data>>, TRUE, <<head>>, n))
        BY <1>1, <1>2, <1>7, <1>8, AmidToken
      <3>3. Quiet(Amid(<<data, head>>, FALSE, <<>>, n), second, Amid(<<data>>, TRUE, <<head>>, n))
        BY <2>1, <3>1, <3>2, AmidJoin DEF second
      <3>4. Quiet(Amid(<<data>>, TRUE, <<head>>, n), <<tail>>,
                  Amid(<<data, tail>>, TRUE, <<head>>, n))
        BY <1>1, <1>2, <1>7, <1>8, AmidToken
      <3>5. Quiet(Amid(<<data, tail>>, TRUE, <<head>>, n), nl, Waiting(n))
        <4>1. /\ <<data, tail>> # <<>> /\ Head(<<data, tail>>) = Mark("data")
              /\ <<data, tail>>[Len(<<data, tail>>)] = tail
          BY DEF data
        <4>2. EndLine(Amid(<<data, tail>>, TRUE, <<head>>, n)) = Waiting(n)
          <5>1. /\ <<data, tail>> \in Seq(Token) /\ <<head>> \in Seq(Token) /\ TRUE \in BOOLEAN
                /\ <<data, tail>>[Len(<<data, tail>>)] # CR
            BY <1>2, <1>7, <4>1
          <5>2. EndLine(Amid(<<data, tail>>, TRUE, <<head>>, n))
                   = Amid(<<>>, TRUE, <<head>> \o Tail(<<data, tail>>), n)
            BY <4>1, <5>1, DataLine, Zenon
          <5> QED
            BY <1>6, <1>8, <5>2 DEF Waiting
        <4> QED
          BY <1>1, <1>2, <1>5, <1>7, <4>1, <4>2, AmidNewline DEF nl
      <3>6. Quiet(Amid(<<>>, FALSE, <<>>, n), upTo3, Amid(<<data>>, TRUE, <<head>>, n))
        BY <1>10, <3>3, AmidJoin DEF upTo3
      <3>7. Quiet(Amid(<<>>, FALSE, <<>>, n), upTo4, Amid(<<data, tail>>, TRUE, <<head>>, n))
        BY <3>4, <3>6, AmidJoin DEF upTo4
      <3> QED
        BY <3>5, <3>7, AmidJoin DEF upTo5
    <2>2. CASE ~kind.split
      <3>1. upTo3 = upTo2
        <4>1. upTo2 \in Seq(Token)
          BY <1>10 DEF Quiet
        <4>2. upTo3 = upTo2 \o <<>>
          BY <2>2 DEF upTo3, second
        <4> QED
          BY <4>1, <4>2
      <3>2. Quiet(Amid(<<data, head>>, FALSE, <<>>, n), <<tail>>,
                  Amid(<<data, head, tail>>, FALSE, <<>>, n))
        BY <1>1, <1>2, <1>7, <1>8, AmidToken
      <3>3. Quiet(Amid(<<data, head, tail>>, FALSE, <<>>, n), nl, Waiting(n))
        <4>1. /\ <<data, head, tail>> # <<>> /\ Head(<<data, head, tail>>) = Mark("data")
              /\ <<data, head, tail>>[Len(<<data, head, tail>>)] = tail
          BY DEF data
        <4>2. EndLine(Amid(<<data, head, tail>>, FALSE, <<>>, n)) = Waiting(n)
          <5>1. /\ <<data, head, tail>> \in Seq(Token) /\ <<>> \in Seq(Token) /\ FALSE \in BOOLEAN
                /\ <<data, head, tail>>[Len(<<data, head, tail>>)] # CR
            BY <1>2, <1>7, <4>1
          <5>2. EndLine(Amid(<<data, head, tail>>, FALSE, <<>>, n))
                   = Amid(<<>>, TRUE, <<>> \o Tail(<<data, head, tail>>), n)
            BY <4>1, <5>1, DataLine, Zenon
          <5> QED
            BY <1>6, <1>8, <5>2 DEF Waiting
        <4> QED
          BY <1>1, <1>2, <1>5, <1>7, <4>1, <4>2, AmidNewline DEF nl
      <3>4. Quiet(Amid(<<>>, FALSE, <<>>, n), upTo4, Amid(<<data, head, tail>>, FALSE, <<>>, n))
        BY <1>10, <3>1, <3>2, AmidJoin DEF upTo4
      <3> QED
        BY <3>3, <3>4, AmidJoin DEF upTo5
    <2> QED
      BY <2>1, <2>2
  <1>12. CASE Cutoff(kind, n + 1)
    <2>1. upTo5 \in Seq(Token)
      BY <1>11 DEF Quiet
    <2>2. EventOf(kind, n + 1) = upTo5
      BY <1>3, <1>12, <2>1 DEF last
    <2> QED
      BY <1>11, <1>12, <2>2 DEF Fresh
  <1>13. CASE ~Cutoff(kind, n + 1)
    <2>1. Quiet(Waiting(n), nl, Fresh(n + 1))
      <3>1. <<head, tail>> \in Seq(Token) /\ Waiting(n) = Amid(<<>>, TRUE, <<head, tail>>, n)
        BY <1>6, <1>7 DEF Waiting
      <3> QED
        BY <1>1, <1>5, <1>7, <3>1, AmidNewline DEF nl
    <2>2. Quiet(Amid(<<>>, FALSE, <<>>, n), upTo5 \o nl, Fresh(n + 1))
      BY <1>11, <2>1, AmidJoin DEF Waiting
    <2>3. EventOf(kind, n + 1) = upTo5 \o nl
      BY <1>3, <1>13 DEF last
    <2> QED
      BY <1>13, <2>2, <2>3 DEF Fresh
  <1> QED
    BY <1>12, <1>13

-----------------------------------------------------------------------------
(* Where the frames of a body end *)

\* Where the elements of two sequences are in their concatenation.
LEMMA Joined ==
    ASSUME NEW S, NEW a \in Seq(S), NEW b \in Seq(S)
    PROVE  /\ a \o b \in Seq(S) /\ Len(a \o b) = Len(a) + Len(b)
           /\ \A i \in 1..Len(a) : (a \o b)[i] = a[i]
           /\ \A i \in 1..Len(b) : (a \o b)[Len(a) + i] = b[i]
           /\ \A i \in 1..Len(a \o b) :
                 \/ i \in 1..Len(a)
                 \/ i - Len(a) \in 1..Len(b) /\ (a \o b)[i] = b[i - Len(a)]
  OBVIOUS

\* Joining is associative.
LEMMA TokensRegroup ==
    ASSUME NEW a \in Seq(Token), NEW b \in Seq(Token), NEW c \in Seq(Token)
    PROVE  (a \o b) \o c = a \o (b \o c)
  OBVIOUS

Tailless(text) == text \in Seq(Token) /\ \A i \in 1..Len(text) : text[i].t # "tail"

\* Two pieces without the tail of a frame make one without it.
LEMMA TaillessJoin ==
    ASSUME NEW a, NEW b, Tailless(a), Tailless(b)
    PROVE  Tailless(a \o b)
  <1>1. a \in Seq(Token) /\ b \in Seq(Token)
    BY DEF Tailless
  <1>2. ASSUME NEW i \in 1..Len(a \o b) PROVE (a \o b)[i].t # "tail"
    <2>1. CASE i \in 1..Len(a)
      <3>1. (a \o b)[i] = a[i]
        BY <1>1, <2>1, Joined
      <3> QED
        BY <2>1, <3>1 DEF Tailless
    <2>2. CASE i - Len(a) \in 1..Len(b) /\ (a \o b)[i] = b[i - Len(a)]
      BY <2>2 DEF Tailless
    <2> QED
      BY <1>1, <2>1, <2>2, Joined
  <1> QED
    BY <1>1, <1>2, Joined DEF Tailless

\* A line end has no tail of a frame.
LEMMA NewlineTailless ==
    ASSUME NEW kind \in Style
    PROVE  Tailless(Newline(kind)) /\ Len(Newline(kind)) \in {1, 2}
  <1>1. CR \in Token /\ LF \in Token /\ CR.t # "tail" /\ LF.t # "tail"
    BY Tokens DEF CR, LF, Mark
  <1> QED
    BY <1>1 DEF Newline, Tailless

\* The tail of a frame stands once in its event, one or two line ends from the end.
TailAt(e, kind, k, p) ==
    /\ e \in Seq(Token) /\ p \in 1..Len(e) /\ e[p] = Half("tail", k)
    /\ \A i \in 1..Len(e) : e[i].t = "tail" => i = p
    /\ Len(e) = p + Len(Newline(kind)) + (IF Cutoff(kind, k) THEN 0 ELSE Len(Newline(kind)))

\* An event holds the tail of its frame as TailAt says.
LEMMA TailOfEvent ==
    ASSUME NEW kind \in Style, NEW k \in Frame
    PROVE  \E p : TailAt(EventOf(kind, k), kind, k, p)
  <1> DEFINE nl == Newline(kind)
             first == <<Mark("id")>> \o nl \o <<Mark("data"), Half("head", k)>>
             second == IF kind.split THEN nl \o <<Mark("data")>> ELSE <<>>
             before == first \o second
             last == IF Cutoff(kind, k) THEN <<>> ELSE nl
             behind == nl \o last
             tail == Half("tail", k)
             e == EventOf(kind, k)
  <1>1. Tailless(nl) /\ Len(nl) \in {1, 2}
    BY NewlineTailless
  <1>2. /\ Tailless(<<Mark("id")>>) /\ Tailless(<<Mark("data")>>)
        /\ Tailless(<<Mark("data"), Half("head", k)>>) /\ Tailless(<<>>)
    BY Tokens DEF Tailless, Mark, Half
  <1>3. tail \in Token /\ tail.t = "tail"
    BY Tokens DEF Half
  <1>4. e = before \o <<tail>> \o nl \o last
    BY DEF EventOf, Cutoff
  <1> HIDE DEF nl, e, tail
  <1>5. Tailless(before)
    <2>1. Tailless(<<Mark("id")>> \o nl)
      BY <1>1, <1>2, TaillessJoin
    <2>2. Tailless(first)
      BY <1>2, <2>1, TaillessJoin
    <2>3. Tailless(nl \o <<Mark("data")>>)
      BY <1>1, <1>2, TaillessJoin
    <2>4. Tailless(second)
      BY <1>2, <2>3
    <2> HIDE DEF first, second
    <2> QED
      BY <2>2, <2>4, TaillessJoin
  <1>6. Tailless(last)
    BY <1>1, <1>2
  <1>7. Tailless(behind)
    <2> HIDE DEF last
    <2> QED
      BY <1>1, <1>6, TaillessJoin
  <1>8. Len(last) = IF Cutoff(kind, k) THEN 0 ELSE Len(nl)
    OBVIOUS
  <1> HIDE DEF before, last
  <1>9. /\ nl \in Seq(Token) /\ last \in Seq(Token) /\ before \in Seq(Token)
        /\ Len(before) \in Nat /\ Len(last) \in Nat /\ Len(nl) \in Nat
    BY <1>1, <1>5, <1>6 DEF Tailless
  <1>10. behind \in Seq(Token) /\ Len(behind) = Len(nl) + Len(last)
    BY <1>9, Joined
  <1>11. e = (before \o <<tail>>) \o behind
    <2>1. e = before \o <<tail>> \o (nl \o last)
      <3>1. before \o <<tail>> \in Seq(Token)
        <4>1. <<tail>> \in Seq(Token)
          BY <1>3
        <4>2. before \in Seq(Token)
          BY <1>9
        <4> QED
          BY <4>1, <4>2, Joined
      <3>2. (before \o <<tail>> \o nl) \o last = (before \o <<tail>>) \o (nl \o last)
        BY <1>9, <3>1, TokensRegroup
      <3> QED
        BY <1>4, <3>2, Zenon
    <2> QED
      BY <2>1
  <1> HIDE DEF behind
  <1> DEFINE start == before \o <<tail>>
             p == Len(before) + 1
  <1>12. /\ start \in Seq(Token) /\ Len(start) = p /\ start[p] = tail
         /\ \A i \in 1..p : start[i].t = "tail" => i = p
    <2>1. /\ start \in Seq(Token) /\ Len(start) = p /\ start[p] = tail
          /\ \A i \in 1..Len(before) : start[i] = before[i]
      BY <1>3, <1>9
    <2>2. ASSUME NEW i \in 1..p, i # p PROVE start[i].t # "tail"
      <3>1. i \in 1..Len(before)
        BY <1>9, <2>2
      <3> QED
        BY <1>5, <2>1, <3>1 DEF Tailless
    <2> QED
      BY <2>1, <2>2
  <1>13. p \in Nat /\ p # 0 /\ Len(behind) \in Nat
    BY <1>9, <1>10
  <1>0. e = start \o behind
    BY <1>11
  <1> HIDE DEF start, p, first, second
  <1>14. /\ e \in Seq(Token) /\ Len(e) = p + Len(behind) /\ e[p] = tail
         /\ \A i \in 1..p : e[i] = start[i]
    <2>1. /\ e \in Seq(Token) /\ Len(e) = Len(start) + Len(behind)
          /\ \A i \in 1..Len(start) : e[i] = start[i]
      <3>1. start \in Seq(Token) /\ behind \in Seq(Token)
        BY <1>10, <1>12
      <3> QED
        BY <1>0, <3>1, Joined
    <2>2. p \in 1..p
      BY <1>13
    <2> QED
      BY <1>12, <2>1, <2>2
  <1>15. ASSUME NEW i \in 1..Len(e), e[i].t = "tail" PROVE i = p
    <2>1. CASE i \in 1..p
      BY <1>12, <1>14, <1>15, <2>1
    <2>2. CASE i - p \in 1..Len(behind) /\ e[i] = behind[i - p]
      BY <1>7, <1>15, <2>2 DEF Tailless
    <2>3. \/ i \in 1..Len(start)
          \/ i - Len(start) \in 1..Len(behind) /\ e[i] = behind[i - Len(start)]
      <3>1. e = start \o behind /\ i \in 1..Len(start \o behind)
        BY <1>0
      <3> QED
        BY <1>10, <1>12, <3>1, Joined
    <2> QED
      BY <1>12, <2>1, <2>2, <2>3
  <1>16. p \in 1..Len(e)
    BY <1>13, <1>14
  <1>17. TailAt(e, kind, k, p)
    <2>1. Len(e) = p + Len(nl) + (IF Cutoff(kind, k) THEN 0 ELSE Len(nl))
      <3>1. Len(e) = p + Len(behind) /\ Len(behind) = Len(nl) + Len(last)
        BY <1>10, <1>14
      <3>2. p \in Nat /\ Len(nl) \in Nat /\ Len(last) \in Nat
        BY <1>9, <1>13
      <3> HIDE DEF nl, last
      <3>3. Len(e) = p + Len(nl) + Len(last)
        BY <3>1, <3>2
      <3> QED
        BY <1>8, <3>3
    <2> QED
      BY <1>14, <1>15, <1>16, <2>1 DEF TailAt, nl, tail
  <1> QED
    BY <1>17 DEF e

\* A comment has no tail of a frame.
LEMMA KeepAliveTailless ==
    ASSUME NEW kind \in Style
    PROVE  Tailless(KeepAliveOf(kind))
  <1>1. Tailless(<<Mark("comment")>>)
    BY Tokens DEF Tailless, Mark
  <1>2. Tailless(Newline(kind))
    BY NewlineTailless
  <1>3. Tailless(<<Mark("comment")>> \o Newline(kind))
    BY <1>1, <1>2, TaillessJoin
  <1> QED
    BY <1>2, <1>3, TaillessJoin DEF KeepAliveOf

-----------------------------------------------------------------------------
(* Bodies *)

\* The frames that have arrived with the first p bytes of a text.
ArrivedBy(text, kind, p) ==
    {k \in Frame :
        \E i \in 1..p : text[i] = Half("tail", k) /\ i + 2 * Len(Newline(kind)) <= p}

\* Scanned so far, the text gives the n frames that have arrived.
Gives(text, kind, p, n) ==
    LET s == Scan(Fresh(0), text)[p]
    IN /\ s \in Reading /\ ~s.failed
       /\ s.frames = [k \in 1..n |-> k]
       /\ ArrivedBy(text, kind, p) = 1..n

\* Where the decoder is behind count events.
Rest(kind, count) ==
    IF count # 0 /\ Cutoff(kind, count) THEN Waiting(count - 1) ELSE Fresh(count)

\* A text of count events, and comments.
Laid(text, kind, count) ==
    /\ text \in Seq(Token)
    /\ \A p \in 0..Len(text) : \E n \in 0..count : Gives(text, kind, p, n)
    /\ Scan(Fresh(0), text)[Len(text)] = Rest(kind, count)
    /\ count # FrameCount =>
          \A i \in 1..Len(text) :
              text[i].t = "tail" => i + 2 * Len(Newline(kind)) <= Len(text)

\* An empty body has none.
LEMMA LaidEmpty ==
    ASSUME NEW kind \in Style
    PROVE  Laid(<<>>, kind, 0)
  <1>1. <<>> \in Seq(Token) /\ Len(<<>>) = 0 /\ 0 \in 0..FrameCount
    BY DemoAssumption
  <1>2. Scan(Fresh(0), <<>>)[0] = Fresh(0)
    BY <1>1, ScanSteps
  <1>3. /\ Fresh(0) \in Reading /\ ~Fresh(0).failed
        /\ Fresh(0).frames = [k \in 1..0 |-> k]
    BY <1>1, FreshIsReading DEF Fresh, Amid
  <1>4. ArrivedBy(<<>>, kind, 0) = 1..0
    BY DEF ArrivedBy
  <1>5. Gives(<<>>, kind, 0, 0)
    BY <1>2, <1>3, <1>4 DEF Gives
  <1>6. Rest(kind, 0) = Fresh(0)
    BY DEF Rest
  <1> QED
    BY <1>1, <1>2, <1>5, <1>6 DEF Laid

\* A scan stays within the states.
LEMMA ScanReading ==
    ASSUME NEW s \in Reading, NEW text \in Seq(Token), NEW p \in 0..Len(text)
    PROVE  Scan(s, text)[p] \in Reading
  <1>1. Ahead(<<>>, Scan(s, text)[0], Scan(s, text)[0])
    BY ScanSteps, AheadSame
  <1>2. \A j \in 0..Len(text) : Ahead(<<>>, Scan(s, text)[0 + j], Scan(s, text)[0 + j])
    <2>1. <<>> \in Seq(Frame) /\ 0 \in Nat /\ Len(text) \in Nat /\ 0 + Len(text) <= Len(text)
          /\ \A j \in 1..Len(text) : text[0 + j] = text[0 + j]
      OBVIOUS
    <2> QED
      BY <1>1, <2>1, ScanAlong
  <1>3. 0 + p = p
    OBVIOUS
  <1> QED
    BY <1>2, <1>3 DEF Ahead

\* What is behind a text does not change how it is read.
LEMMA ScanBefore ==
    ASSUME NEW s \in Reading, NEW text \in Seq(Token), NEW piece \in Seq(Token),
           NEW p \in 0..Len(text)
    PROVE  Scan(s, text \o piece)[p] = Scan(s, text)[p]
  <1> DEFINE all == text \o piece
  <1>1. /\ all \in Seq(Token) /\ Len(text) \in Nat /\ Len(text) <= Len(all)
        /\ \A j \in 1..Len(text) : all[0 + j] = text[0 + j]
    OBVIOUS
  <1> HIDE DEF all
  <1>2. Ahead(<<>>, Scan(s, all)[0], Scan(s, text)[0])
    <2>1. Scan(s, all)[0] = s /\ Scan(s, text)[0] = s
      BY <1>1, ScanSteps
    <2> QED
      BY <2>1, AheadSame
  <1>3. \A j \in 0..Len(text) : Ahead(<<>>, Scan(s, all)[0 + j], Scan(s, text)[0 + j])
    <2>1. <<>> \in Seq(Frame) /\ 0 \in Nat /\ 0 + Len(text) <= Len(all)
          /\ 0 + Len(text) <= Len(text)
      BY <1>1
    <2> QED
      BY <1>1, <1>2, <2>1, ScanAlong
  <1>4. 0 + p = p
    OBVIOUS
  <1> QED
    BY <1>3, <1>4, AheadSame DEF all

\* What is behind it is read from where it leads to.
LEMMA ScanBehind ==
    ASSUME NEW s \in Reading, NEW text \in Seq(Token), NEW piece \in Seq(Token),
           NEW m \in Reading, Scan(s, text)[Len(text)] = m, NEW j \in 0..Len(piece)
    PROVE  Scan(s, text \o piece)[Len(text) + j] = Scan(m, piece)[j]
  <1> DEFINE all == text \o piece
  <1>1. /\ all \in Seq(Token) /\ Len(text) \in Nat /\ Len(piece) \in Nat
        /\ Len(all) = Len(text) + Len(piece)
        /\ \A i \in 1..Len(piece) : all[Len(text) + i] = piece[0 + i]
    OBVIOUS
  <1>2. Scan(s, all)[Len(text)] = m
    <2>1. Len(text) \in 0..Len(text)
      BY <1>1
    <2> QED
      BY <2>1, ScanBefore
  <1> HIDE DEF all
  <1>3. Ahead(<<>>, Scan(s, all)[Len(text)], Scan(m, piece)[0])
    BY <1>2, ScanSteps, AheadSame
  <1>4. \A i \in 0..Len(piece) : Ahead(<<>>, Scan(s, all)[Len(text) + i], Scan(m, piece)[0 + i])
    <2>1. <<>> \in Seq(Frame) /\ 0 \in Nat /\ Len(text) + Len(piece) <= Len(all)
          /\ 0 + Len(piece) <= Len(piece)
      BY <1>1
    <2> QED
      BY <1>1, <1>3, <2>1, ScanAlong
  <1>5. 0 + j = j
    OBVIOUS
  <1> QED
    BY <1>4, <1>5, AheadSame DEF all

\* Two runs of frames from 1 that are the same are as long.
LEMMA SameCount ==
    ASSUME NEW m \in Nat, NEW n \in Nat, [k \in 1..m |-> k] = [k \in 1..n |-> k]
    PROVE  m = n
  <1>1. DOMAIN [k \in 1..m |-> k] = 1..m /\ DOMAIN [k \in 1..n |-> k] = 1..n
    OBVIOUS
  <1>2. 1..m = 1..n
    BY <1>1
  <1>3. ASSUME m < n PROVE FALSE
    <2>1. n \in 1..n /\ n \notin 1..m
      BY <1>3
    <2> QED
      BY <1>2, <2>1
  <1>4. ASSUME n < m PROVE FALSE
    <2>1. m \in 1..m /\ m \notin 1..n
      BY <1>4
    <2> QED
      BY <1>2, <2>1
  <1> QED
    BY <1>3, <1>4

\* A piece more: what was read before stays; and within the piece no frame
\* arrives before its last byte.
LEMMA LaidMore ==
    ASSUME NEW kind \in Style, NEW n \in 0..FrameCount - 1, NEW text, Laid(text, kind, n),
           NEW piece, NEW e, Quiet(Fresh(n), piece, e), piece # <<>>,
           \A i \in 1..Len(piece) :
               piece[i].t = "tail" => i + 2 * Len(Newline(kind)) >= Len(piece)
    PROVE  /\ text \o piece \in Seq(Token)
           /\ Len(text \o piece) = Len(text) + Len(piece)
           /\ Scan(Fresh(0), text \o piece)[Len(text \o piece)] = e
           /\ \A p \in 0..Len(text \o piece) - 1 :
                 \E m \in 0..n : Gives(text \o piece, kind, p, m)
           /\ ArrivedBy(text \o piece, kind, Len(text \o piece)) =
                 1..n \cup {k \in Frame :
                               \E i \in 1..Len(piece) :
                                  /\ piece[i] = Half("tail", k)
                                  /\ i + 2 * Len(Newline(kind)) = Len(piece)}
  <1> DEFINE all == text \o piece
             w == 2 * Len(Newline(kind))
             start == Fresh(0)
  <1>1. PICK L \in Nat : Len(text) = L
    BY DEF Laid
  <1>2. PICK M \in Nat : Len(piece) = M /\ M # 0
    BY DEF Quiet
  <1>3. /\ text \in Seq(Token) /\ piece \in Seq(Token)
        /\ all \in Seq(Token) /\ Len(all) = L + M
        /\ \A i \in 1..L : all[i] = text[i]
        /\ \A i \in 1..M : all[L + i] = piece[i]
    <2>1. text \in Seq(Token) /\ piece \in Seq(Token)
      BY DEF Laid, Quiet
    <2> QED
      BY <1>1, <1>2, <2>1
  <1>4. /\ n \in 0..FrameCount /\ n # FrameCount /\ n \in Nat /\ 0 \in 0..FrameCount
        /\ ~Cutoff(kind, n)
    BY DemoAssumption DEF Cutoff
  <1>5. w \in Nat
    BY NewlineTailless
  <1>6. Fresh(n) \in Reading /\ start \in Reading /\ ~Fresh(n).failed
        /\ Fresh(n).frames = [k \in 1..n |-> k]
    BY <1>4, FreshIsReading DEF Fresh, Amid
  <1>7. Scan(start, text)[L] = Fresh(n)
    BY <1>1, <1>4 DEF Laid, Rest
  <1> HIDE DEF all, w, start
  <1>8. \A j \in 0..M : Scan(start, all)[L + j] = Scan(Fresh(n), piece)[j]
    <2>1. text \in Seq(Token) /\ piece \in Seq(Token) /\ Scan(start, text)[Len(text)] = Fresh(n)
      BY <1>1, <1>3, <1>7
    <2>2. \A j \in 0..Len(piece) :
             Scan(start, text \o piece)[Len(text) + j] = Scan(Fresh(n), piece)[j]
      BY <1>6, <2>1, ScanBehind
    <2> QED
      BY <1>1, <1>2, <2>2 DEF all
  <1>9. \A k : \A i \in 1..L : text[i] = Half("tail", k) => i + w <= L
    <2>1. \A i \in 1..Len(text) :
              text[i].t = "tail" => i + 2 * Len(Newline(kind)) <= Len(text)
      BY <1>4 DEF Laid
    <2>2. \A k : Half("tail", k).t = "tail"
      BY DEF Half
    <2> QED
      BY <1>1, <2>1, <2>2 DEF w
  <1>10. \A k : \A i \in 1..M : piece[i] = Half("tail", k) => i + w >= M
    <2>1. \A k : Half("tail", k).t = "tail"
      BY DEF Half
    <2> QED
      BY <1>2, <2>1 DEF w
  <1>11. ASSUME NEW p \in 0..L PROVE ArrivedBy(all, kind, p) = ArrivedBy(text, kind, p)
    BY <1>1, <1>3 DEF ArrivedBy
  <1>12. ArrivedBy(text, kind, L) = 1..n
    <2>1. PICK m \in 0..n : Gives(text, kind, L, m)
      <3>1. L \in 0..Len(text)
        BY <1>1
      <3> QED
        BY <3>1 DEF Laid
    <2>2. m = n
      BY <1>4, <1>6, <1>7, <2>1, SameCount DEF Gives, start
    <2> QED
      BY <2>1, <2>2 DEF Gives
  <1>13. ASSUME NEW p \in L + 1..L + M, NEW k
         PROVE  k \in ArrivedBy(all, kind, p) <=>
                   \/ k \in 1..n
                   \/ /\ k \in Frame /\ p = L + M
                      /\ \E i \in 1..M : piece[i] = Half("tail", k) /\ i + w = M
    <2>1. k \in ArrivedBy(all, kind, p) <=>
             k \in Frame /\ \E i \in 1..p : all[i] = Half("tail", k) /\ i + w <= p
      BY DEF ArrivedBy, w
    <2>2. k \in 1..n <=>
             k \in Frame /\ \E i \in 1..L : text[i] = Half("tail", k) /\ i + w <= L
      BY <1>12 DEF ArrivedBy, w
    <2>3. ASSUME k \in 1..n PROVE k \in ArrivedBy(all, kind, p)
      <3>1. PICK i \in 1..L : text[i] = Half("tail", k) /\ i + w <= L
        BY <2>2, <2>3
      <3>2. i \in 1..p /\ all[i] = Half("tail", k) /\ i + w <= p
        BY <1>3, <1>5, <3>1
      <3> QED
        BY <2>1, <2>2, <2>3, <3>2
    <2>4. ASSUME k \in Frame, p = L + M,
                 NEW i \in 1..M, piece[i] = Half("tail", k), i + w = M
          PROVE  k \in ArrivedBy(all, kind, p)
      <3>1. L + i \in 1..p /\ all[L + i] = Half("tail", k) /\ L + i + w <= p
        BY <1>3, <1>5, <2>4
      <3> QED
        BY <2>1, <2>4, <3>1
    <2>5. ASSUME k \in Frame, NEW i \in 1..p, all[i] = Half("tail", k), i + w <= p
          PROVE  \/ k \in 1..n
                 \/ p = L + M /\ \E j \in 1..M : piece[j] = Half("tail", k) /\ j + w = M
      <3>1. CASE i \in 1..L
        <4>1. text[i] = Half("tail", k)
          BY <1>3, <2>5, <3>1
        <4>2. i + w <= L
          BY <1>9, <3>1, <4>1
        <4> QED
          BY <2>2, <2>5, <3>1, <4>1, <4>2
      <3>2. CASE i \in L + 1..L + M
        <4>1. i - L \in 1..M /\ L + (i - L) = i
          BY <3>2
        <4>2. piece[i - L] = Half("tail", k)
          BY <1>3, <2>5, <4>1
        <4>3. (i - L) + w >= M
          BY <1>10, <4>1, <4>2
        <4>4. p = L + M /\ (i - L) + w = M
          BY <1>5, <2>5, <4>1, <4>3
        <4> QED
          BY <4>1, <4>2, <4>4
      <3> QED
        BY <3>1, <3>2
    <2> QED
      BY <2>1, <2>3, <2>4, <2>5
  <1>14. ASSUME NEW p \in 0..L + M - 1 PROVE \E m \in 0..n : Gives(all, kind, p, m)
    <2>1. CASE p \in 0..L
      <3>1. PICK m \in 0..n : Gives(text, kind, p, m)
        BY <1>1, <2>1 DEF Laid
      <3>2. Scan(start, all)[p] = Scan(start, text)[p]
        BY <1>1, <1>3, <1>6, <2>1, <3>1, ScanBefore DEF Gives, all, start
      <3>3. Gives(all, kind, p, m)
        BY <1>11, <2>1, <3>1, <3>2 DEF Gives, start
      <3> QED
        BY <3>3
    <2>2. CASE p \in L + 1..L + M - 1
      <3>1. p - L \in 0..M - 1 /\ L + (p - L) = p /\ p - L \in 0..M /\ p \in L + 1..L + M
            /\ p # L + M
        BY <2>2
      <3>2. Scan(start, all)[p] = Scan(Fresh(n), piece)[p - L]
        BY <1>8, <3>1
      <3>3. ~Scan(start, all)[p].failed /\ Scan(start, all)[p].frames = [k \in 1..n |-> k]
        BY <1>2, <1>6, <3>1, <3>2 DEF Quiet
      <3>4. Scan(start, all)[p] \in Reading
        BY <1>3, <1>6, <3>1, ScanReading
      <3>5. ArrivedBy(all, kind, p) = 1..n
        BY <1>13, <3>1
      <3>6. n \in 0..n
        BY <1>4
      <3> QED
        BY <3>3, <3>4, <3>5, <3>6 DEF Gives, start
    <2> QED
      BY <2>1, <2>2
  <1>15. Scan(start, all)[L + M] = e
    BY <1>2, <1>8 DEF Quiet
  <1>16. ArrivedBy(all, kind, L + M) =
            1..n \cup {k \in Frame :
                          \E i \in 1..M : piece[i] = Half("tail", k) /\ i + w = M}
    <2>1. L + M \in L + 1..L + M
      BY <1>2
    <2> QED
      BY <1>13, <2>1
  <1> QED
    BY <1>1, <1>2, <1>3, <1>14, <1>15, <1>16 DEF all, w, start

\* Where the tails are when a piece is added.
LEMMA SettledMore ==
    ASSUME NEW w \in Nat, NEW text \in Seq(Token), NEW piece \in Seq(Token),
           \A i \in 1..Len(text) : text[i].t = "tail" => i + w <= Len(text),
           \A i \in 1..Len(piece) : piece[i].t = "tail" => i + w <= Len(piece)
    PROVE  \A i \in 1..Len(text \o piece) :
               (text \o piece)[i].t = "tail" => i + w <= Len(text \o piece)
  <1> DEFINE all == text \o piece
  <1>1. Len(all) = Len(text) + Len(piece) /\ Len(text) \in Nat /\ Len(piece) \in Nat
    OBVIOUS
  <1>2. ASSUME NEW i \in 1..Len(all), all[i].t = "tail" PROVE i + w <= Len(all)
    <2>1. CASE i \in 1..Len(text)
      <3>1. all[i] = text[i]
        BY <2>1, Joined
      <3>2. i + w <= Len(text)
        BY <1>2, <2>1, <3>1
      <3> QED
        BY <1>1, <2>1, <3>2
    <2>2. CASE i - Len(text) \in 1..Len(piece) /\ all[i] = piece[i - Len(text)]
      <3>1. (i - Len(text)) + w <= Len(piece)
        BY <1>2, <2>2
      <3> QED
        BY <1>1, <3>1
    <2> QED
      BY <2>1, <2>2, Joined
  <1> QED
    BY <1>2

\* A comment more.
LEMMA LaidKeepAlive ==
    ASSUME NEW kind \in Style, NEW n \in 0..FrameCount - 1, NEW text, Laid(text, kind, n)
    PROVE  Laid(text \o KeepAliveOf(kind), kind, n)
  <1> DEFINE piece == KeepAliveOf(kind)
             all == text \o piece
             w == 2 * Len(Newline(kind))
  <1>1. /\ n \in 0..FrameCount /\ n # FrameCount /\ n \in Nat /\ ~Cutoff(kind, n)
        /\ w \in Nat
    BY DemoAssumption, NewlineTailless DEF Cutoff
  <1>2. Quiet(Fresh(n), piece, Fresh(n))
    BY <1>1, QuietKeepAlive
  <1>3. Tailless(piece) /\ piece # <<>>
    <2>1. Len(piece) # 0
      BY NewlineTailless DEF KeepAliveOf, Tailless
    <2> QED
      BY <2>1, KeepAliveTailless
  <1>4. text \in Seq(Token) /\ piece \in Seq(Token)
    BY <1>3 DEF Laid, Tailless
  <1> HIDE DEF piece
  <1>5. /\ all \in Seq(Token) /\ Len(all) = Len(text) + Len(piece)
        /\ Scan(Fresh(0), all)[Len(all)] = Fresh(n)
        /\ \A p \in 0..Len(all) - 1 : \E m \in 0..n : Gives(all, kind, p, m)
        /\ ArrivedBy(all, kind, Len(all)) =
              1..n \cup {k \in Frame : \E i \in 1..Len(piece) :
                                          piece[i] = Half("tail", k) /\ i + w = Len(piece)}
    <2>1. \A i \in 1..Len(piece) : piece[i].t = "tail" => i + w >= Len(piece)
      BY <1>3 DEF Tailless
    <2> QED
      BY <1>2, <1>3, <2>1, LaidMore
  <1>6. ArrivedBy(all, kind, Len(all)) = 1..n
    <2>1. \A k : Half("tail", k).t = "tail"
      BY DEF Half
    <2> QED
      BY <1>3, <1>5, <2>1 DEF Tailless
  <1>7. Fresh(n) \in Reading /\ ~Fresh(n).failed /\ Fresh(n).frames = [k \in 1..n |-> k]
    BY <1>1, FreshIsReading DEF Fresh, Amid
  <1>8. Gives(all, kind, Len(all), n)
    BY <1>5, <1>6, <1>7 DEF Gives
  <1>9. \A i \in 1..Len(all) : all[i].t = "tail" => i + w <= Len(all)
    <2>1. \A i \in 1..Len(text) : text[i].t = "tail" => i + w <= Len(text)
      BY <1>1 DEF Laid
    <2>2. \A i \in 1..Len(piece) : piece[i].t = "tail" => i + w <= Len(piece)
      BY <1>3 DEF Tailless
    <2> HIDE DEF w
    <2> QED
      BY <1>1, <1>4, <2>1, <2>2, SettledMore
  <1>10. \A p \in 0..Len(all) : \E m \in 0..n : Gives(all, kind, p, m)
    <2>1. \A p \in 0..Len(all) : p \in 0..Len(all) - 1 \/ p = Len(all)
      BY <1>5
    <2>2. n \in 0..n
      BY <1>1
    <2> QED
      BY <1>5, <1>8, <2>1, <2>2
  <1>11. Rest(kind, n) = Fresh(n)
    BY <1>1 DEF Rest
  <1>12. Laid(all, kind, n)
    BY <1>5, <1>9, <1>10, <1>11 DEF Laid
  <1> QED
    BY <1>12 DEF piece

\* An event more.
LEMMA LaidEvent ==
    ASSUME NEW kind \in Style, NEW n \in 0..FrameCount - 1, NEW text, Laid(text, kind, n)
    PROVE  Laid(text \o EventOf(kind, n + 1), kind, n + 1)
  <1> DEFINE piece == EventOf(kind, n + 1)
             all == text \o piece
             l == Len(Newline(kind))
             w == 2 * l
             e == IF Cutoff(kind, n + 1) THEN Waiting(n) ELSE Fresh(n + 1)
  <1>1. /\ n \in 0..FrameCount /\ n # FrameCount /\ n \in Nat /\ ~Cutoff(kind, n)
        /\ n + 1 \in Frame /\ n + 1 \in 0..FrameCount /\ n + 1 # 0 /\ n + 1 - 1 = n
        /\ l \in {1, 2} /\ w \in Nat /\ w = 2 * l
    BY DemoAssumption, NewlineTailless DEF Cutoff, Frame
  <1>2. Quiet(Fresh(n), piece, e)
    BY QuietEvent
  <1>3. PICK q : TailAt(piece, kind, n + 1, q)
    BY <1>1, TailOfEvent
  <1>4. Rest(kind, n + 1) = e
    BY <1>1 DEF Rest
  <1>5. /\ piece \in Seq(Token) /\ q \in 1..Len(piece) /\ piece[q] = Half("tail", n + 1)
        /\ \A i \in 1..Len(piece) : piece[i].t = "tail" => i = q
        /\ Len(piece) = q + l + IF Cutoff(kind, n + 1) THEN 0 ELSE l
        /\ piece # <<>>
    <2> HIDE DEF piece, e
    <2>1. /\ piece \in Seq(Token) /\ q \in 1..Len(piece) /\ piece[q] = Half("tail", n + 1)
          /\ \A i \in 1..Len(piece) : piece[i].t = "tail" => i = q
          /\ Len(piece) = q + l + IF Cutoff(kind, n + 1) THEN 0 ELSE l
      BY <1>3 DEF TailAt
    <2>2. Len(piece) # Len(<<>>)
      <3>1. piece \in Seq(Token) /\ q \in 1..Len(piece)
        BY <1>3 DEF TailAt
      <3> HIDE DEF l, w, all
      <3> QED
        BY <3>1
    <2> QED
      BY <2>1, <2>2
  <1>6. text \in Seq(Token)
    BY DEF Laid
  <1> HIDE DEF piece, l, w, e
  <1>7. /\ all \in Seq(Token) /\ Len(all) = Len(text) + Len(piece)
        /\ Scan(Fresh(0), all)[Len(all)] = e
        /\ \A p \in 0..Len(all) - 1 : \E m \in 0..n : Gives(all, kind, p, m)
        /\ ArrivedBy(all, kind, Len(all)) =
              1..n \cup {k \in Frame : \E i \in 1..Len(piece) :
                                          piece[i] = Half("tail", k) /\ i + w = Len(piece)}
    <2>1. \A i \in 1..Len(piece) : piece[i].t = "tail" => i + w >= Len(piece)
      BY <1>1, <1>5
    <2>2. /\ Quiet(Fresh(n), piece, e) /\ piece # <<>>
          /\ \A i \in 1..Len(piece) :
                piece[i].t = "tail" => i + 2 * Len(Newline(kind)) >= Len(piece)
      BY <1>2, <1>5, <2>1 DEF w, l
    <2>3. w = 2 * Len(Newline(kind))
      BY DEF w, l
    <2> QED
      BY <2>2, <2>3, LaidMore
  <1>8. \A k : \A i \in 1..Len(piece) : piece[i] = Half("tail", k) => i = q /\ k = n + 1
    <2>1. \A k : Half("tail", k).t = "tail" /\ Half("tail", k).k = k
      BY DEF Half
    <2>2. piece[q].k = n + 1
      BY <1>5, <2>1
    <2> QED
      BY <1>5, <2>1, <2>2
  <1>9. \E m \in 0..n + 1 : Gives(all, kind, Len(all), m)
    <2>1. CASE Cutoff(kind, n + 1)
      <3>1. q + w # Len(piece)
        BY <1>1, <1>5, <2>1
      <3>2. ArrivedBy(all, kind, Len(all)) = 1..n
        BY <1>7, <1>8, <3>1
      <3>3. e \in Reading /\ ~e.failed /\ e.frames = [k \in 1..n |-> k]
        BY <1>1, <2>1, FreshIsReading DEF e, Waiting, Amid
      <3>4. Gives(all, kind, Len(all), n) /\ n \in 0..n + 1
        BY <1>1, <1>7, <3>2, <3>3 DEF Gives
      <3> QED
        BY <3>4
    <2>2. CASE ~Cutoff(kind, n + 1)
      <3>1. q + w = Len(piece)
        BY <1>1, <1>5, <2>2
      <3>2. {k \in Frame : \E i \in 1..Len(piece) :
                piece[i] = Half("tail", k) /\ i + w = Len(piece)} = {n + 1}
        BY <1>1, <1>5, <1>8, <3>1
      <3>3. ArrivedBy(all, kind, Len(all)) = 1..n + 1
        <4>1. ArrivedBy(all, kind, Len(all)) = 1..n \cup {n + 1}
          BY <1>7, <3>2
        <4>2. 1..n \cup {n + 1} = 1..n + 1
          BY <1>1
        <4> QED
          BY <4>1, <4>2
      <3>4. e \in Reading /\ ~e.failed /\ e.frames = [k \in 1..n + 1 |-> k]
        BY <1>1, <2>2, FreshIsReading DEF e, Fresh, Amid
      <3>5. Gives(all, kind, Len(all), n + 1) /\ n + 1 \in 0..n + 1
        BY <1>1, <1>7, <3>3, <3>4 DEF Gives
      <3> QED
        BY <3>5
    <2> QED
      BY <2>1, <2>2
  <1>10. ASSUME n + 1 # FrameCount
         PROVE  \A i \in 1..Len(all) : all[i].t = "tail" => i + w <= Len(all)
    <2>1. \A i \in 1..Len(text) : text[i].t = "tail" => i + w <= Len(text)
      BY <1>1 DEF Laid, w, l
    <2>2. \A i \in 1..Len(piece) : piece[i].t = "tail" => i + w <= Len(piece)
      BY <1>1, <1>5, <1>10 DEF Cutoff
    <2> QED
      BY <1>1, <1>5, <1>6, <2>1, <2>2, SettledMore
  <1>11. \A p \in 0..Len(all) : \E m \in 0..n + 1 : Gives(all, kind, p, m)
    <2>1. \A p \in 0..Len(all) : p \in 0..Len(all) - 1 \/ p = Len(all)
      BY <1>7
    <2>2. \A m \in 0..n : m \in 0..n + 1
      BY <1>1
    <2> QED
      BY <1>7, <1>9, <2>1, <2>2
  <1>12. Laid(all, kind, n + 1)
    <2> HIDE DEF all
    <2> QED
      BY <1>4, <1>7, <1>10, <1>11 DEF Laid, w, l
  <1> QED
    BY <1>12 DEF piece

-----------------------------------------------------------------------------
(* Chunks *)

\* No line end within the line.
Unended(line) == \A i \in 1..Len(line) : line[i] # LF

\* What is kept of an unfinished line has no line end, whatever is read.
LEMMA FeedUnended ==
    ASSUME NEW s \in Reading, Unended(s.line), NEW token \in Token
    PROVE  Unended(Feed(s, token).line)
  <1>1. Unended(<<>>)
    BY DEF Unended
  <1>2. CASE s.failed
    BY <1>2 DEF Feed
  <1>3. CASE ~s.failed /\ token = LF
    <2> DEFINE next == [s EXCEPT !.line = <<>>]
    <2>1. next.line = <<>>
      BY DEF Reading
    <2>2. Feed(s, token) = IF StripCR(s.line) = <<>> THEN EndEvent(next)
                           ELSE AddLine(next, StripCR(s.line))
      BY <1>3 DEF Feed, EndLine
    <2>3. next \in [line : {<<>>}, sawData : BOOLEAN, data : Seq(Token), frames : Seq(Frame),
                    failed : BOOLEAN]
      BY DEF Reading
    <2> HIDE DEF next
    <2>4. EndEvent(next).line = <<>>
      BY <2>3 DEF EndEvent
    <2>5. AddLine(next, StripCR(s.line)).line = <<>>
      BY <2>3 DEF AddLine
    <2> QED
      BY <1>1, <2>2, <2>4, <2>5
  <1>4. CASE ~s.failed /\ token # LF
    <2>1. Feed(s, token).line = Append(s.line, token) /\ s.line \in Seq(Token)
      BY <1>4 DEF Feed, Reading
    <2>2. Unended(Append(s.line, token))
      BY <1>4, <2>1 DEF Unended
    <2> QED
      BY <2>1, <2>2
  <1> QED
    BY <1>2, <1>3, <1>4

\* So it is at every byte of a text.
LEMMA ScanUnended ==
    ASSUME NEW s \in Reading, Unended(s.line), NEW text \in Seq(Token), NEW p \in 0..Len(text)
    PROVE  Unended(Scan(s, text)[p].line)
  <1> DEFINE S == {n \in Nat : Unended(Scan(s, text)[n].line)}
  <1>1. 0 \in S
    BY ScanSteps
  <1>2. ASSUME NEW n \in 0..Len(text) - 1, n \in S PROVE n + 1 \in S
    <2>1. n + 1 \in 1..Len(text) /\ n + 1 - 1 = n /\ n \in 0..Len(text) /\ n + 1 \in Nat
      OBVIOUS
    <2>2. Scan(s, text)[n + 1] = Feed(Scan(s, text)[n], text[n + 1])
      BY <2>1, ScanSteps
    <2>3. Scan(s, text)[n] \in Reading /\ text[n + 1] \in Token
      BY <2>1, ScanReading, ElementOf
    <2>4. Unended(Scan(s, text)[n].line)
      BY <1>2
    <2>5. Unended(Scan(s, text)[n + 1].line)
      BY <2>2, <2>3, <2>4, FeedUnended
    <2> QED
      BY <2>1, <2>5
  <1>3. Len(text) \in Nat
    OBVIOUS
  <1> HIDE DEF S
  <1>4. \A n \in 0..Len(text) : n \in S
    BY <1>1, <1>2, <1>3, CountUp
  <1> QED
    BY <1>4 DEF S

\* A decoder that stopped after g bytes goes on as if it had never stopped.
LEMMA PushChunk ==
    ASSUME NEW start \in Reading, start.line = <<>>, NEW text \in Seq(Token),
           NEW g \in 0..Len(text), NEW u \in g + 1..Len(text),
           ~Scan(start, text)[g].failed
    PROVE  LET w == Scan(start, text)[g]
               v == Scan(start, text)[u]
               pushed == Push(DecoderOf(w), SubSeq(text, g + 1, u))
           IN /\ pushed.decoder = DecoderOf(v) /\ pushed.failed = v.failed
              /\ pushed.frames \in Seq(Frame) /\ v.frames = w.frames \o pushed.frames
  <1> DEFINE w == Scan(start, text)[g]
             v == Scan(start, text)[u]
             chunk == SubSeq(text, g + 1, u)
             own == StartOf(DecoderOf(w))
             all == w.line \o chunk
             r == Scan(own, all)[Len(all)]
  <1>1. /\ g \in Nat /\ u \in Nat /\ u - g \in Nat /\ g + (u - g) = u /\ u \in 0..Len(text)
        /\ g + (u - g) <= Len(text)
    OBVIOUS
  <1>2. w \in Reading /\ ~w.failed
    BY ScanReading
  <1>3. Unended(w.line)
    <2>1. Unended(start.line)
      BY DEF Unended
    <2> QED
      BY <2>1, ScanUnended
  <1>4. /\ chunk \in Seq(Token) /\ Len(chunk) = u - g
        /\ \A j \in 1..u - g : chunk[j] = text[g + j]
    OBVIOUS
  <1> HIDE DEF w, chunk
  <1>5. w.line \in Seq(Token) /\ w.frames \in Seq(Frame)
    BY <1>2 DEF Reading
  <1>6. /\ all \in Seq(Token) /\ Len(w.line) \in Nat
        /\ Len(all) = Len(w.line) + (u - g)
        /\ \A j \in 1..u - g : all[Len(w.line) + j] = chunk[j]
    <2> HIDE DEF all
    <2>1. /\ all \in Seq(Token) /\ Len(all) = Len(w.line) + Len(chunk)
          /\ \A j \in 1..Len(chunk) : all[Len(w.line) + j] = chunk[j]
      <3>1. w.line \in Seq(Token) /\ chunk \in Seq(Token)
        BY <1>4, <1>5
      <3> QED
        BY <3>1, Joined DEF all
    <2>2. Len(w.line) \in Nat
      BY <1>5
    <2> QED
      BY <1>4, <2>1, <2>2
  <1>7. own \in Reading /\ ~own.failed /\ own.line = <<>> /\ own.frames = <<>>
    <2>1. <<>> \in Seq(Token) /\ <<>> \in Seq(Frame)
      OBVIOUS
    <2> QED
      BY <1>2, <2>1 DEF StartOf, DecoderOf, Reading
  <1>8. Scan(own, all)[Len(w.line)] = [own EXCEPT !.line = w.line]
    <2>1. Scan(own, w.line)[Len(w.line)] = [own EXCEPT !.line = w.line]
      BY <1>3, <1>5, <1>7, ScanLine DEF Unended
    <2>2. Len(w.line) \in 0..Len(w.line)
      BY <1>6
    <2>3. Scan(own, all)[Len(w.line)] = Scan(own, w.line)[Len(w.line)]
      BY <1>4, <1>5, <1>7, <2>2, ScanBefore
    <2> QED
      BY <2>1, <2>3
  <1>9. Ahead(w.frames, w, Scan(own, all)[Len(w.line)])
    <2>1. [own EXCEPT !.line = w.line] =
             [line |-> w.line, sawData |-> w.sawData, data |-> w.data, frames |-> <<>>,
              failed |-> FALSE]
      <3>1. own = [line |-> <<>>, sawData |-> w.sawData, data |-> w.data, frames |-> <<>>,
                   failed |-> FALSE]
        BY DEF StartOf, DecoderOf
      <3>2. PICK x : x = [own EXCEPT !.line = w.line]
        OBVIOUS
      <3> HIDE DEF own
      <3>3. x = [line |-> w.line, sawData |-> w.sawData, data |-> w.data, frames |-> <<>>,
                 failed |-> FALSE]
        BY <3>1, <3>2
      <3> QED
        BY <3>2, <3>3
    <2>2. <<>> \in Seq(Frame) /\ w.frames = w.frames \o <<>>
      BY <1>5
    <2> QED
      BY <1>2, <1>8, <2>1, <2>2 DEF Ahead, Reading
  <1> HIDE DEF own, all
  <1>10. \A j \in 0..u - g : Ahead(w.frames, Scan(start, text)[g + j],
                                   Scan(own, all)[Len(w.line) + j])
    <2>1. Ahead(w.frames, Scan(start, text)[g], Scan(own, all)[Len(w.line)])
      BY <1>9 DEF w
    <2>2. \A j \in 1..u - g : text[g + j] = all[Len(w.line) + j]
      BY <1>4, <1>6
    <2>3. Len(w.line) + (u - g) <= Len(all)
      BY <1>1, <1>6
    <2> QED
      BY <1>1, <1>5, <1>6, <2>1, <2>2, <2>3, ScanAlong
  <1>11. Ahead(w.frames, v, r)
    <2>1. u - g \in 0..u - g
      BY <1>1
    <2> QED
      BY <1>1, <1>6, <1>10, <2>1
  <1>12. Push(DecoderOf(w), chunk) =
            [decoder |-> DecoderOf(r), failed |-> r.failed, frames |-> r.frames]
    <2>1. DecoderOf(w).pending \o chunk = all
      BY DEF DecoderOf, all
    <2> QED
      BY <2>1 DEF Push, Consume, own
  <1> HIDE DEF v, r
  <1>13. /\ Push(DecoderOf(w), chunk).decoder = DecoderOf(v)
         /\ Push(DecoderOf(w), chunk).failed = v.failed
         /\ Push(DecoderOf(w), chunk).frames = r.frames
    BY <1>11, <1>12 DEF Ahead, DecoderOf
  <1> QED
    BY <1>11, <1>13 DEF Ahead, Reading, w, v, chunk

\* After a whole event nothing is left at the end.
LEMMA FinishQuiet ==
    ASSUME NEW d, d.pending = <<>>, ~d.sawData
    PROVE  ~Finish(d).failed /\ Finish(d).frames = <<>>
  <1>1. StripCR(<<>>) = <<>> /\ ~IsData(<<>>)
    BY DEF StripCR, IsData
  <1>2. AddLine(StartOf(d), <<>>) = StartOf(d)
    BY <1>1 DEF AddLine
  <1> QED
    BY <1>2 DEF Finish, EndEvent, StartOf

\* What is left at the end is the event whose blank line is missing.
LEMMA FinishWaiting ==
    ASSUME NEW n \in 0..FrameCount - 1
    PROVE  LET left == Finish(DecoderOf(Waiting(n)))
           IN ~left.failed /\ left.frames = <<n + 1>>
  <1> DEFINE json == FrameJson(n + 1)
             s == StartOf(DecoderOf(Waiting(n)))
             parsed == {k \in Frame : s.data = FrameJson(k)}
  <1>1. StripCR(<<>>) = <<>> /\ ~IsData(<<>>)
    BY DEF StripCR, IsData
  <1>2. n + 1 \in Frame
    BY DemoAssumption DEF Frame
  <1>3. s = [line |-> <<>>, sawData |-> TRUE, data |-> json, frames |-> <<>>, failed |-> FALSE]
    BY DEF StartOf, DecoderOf, Waiting, Amid
  <1>4. DecoderOf(Waiting(n)).pending = <<>>
    BY DEF DecoderOf, Waiting, Amid
  <1>5. Finish(DecoderOf(Waiting(n))) = EndEvent(s)
    BY <1>1, <1>4 DEF Finish, AddLine
  <1> HIDE DEF s, json
  <1>6. s.data = json /\ s.sawData
    BY <1>3
  <1>7. parsed = {n + 1} /\ (CHOOSE k \in {n + 1} : TRUE) = n + 1
    BY <1>2, <1>6, OneFrame DEF json
  <1> HIDE DEF parsed
  <1>8. EndEvent(s) = [[s EXCEPT !.sawData = FALSE, !.data = <<>>] EXCEPT
                           !.frames = Append(@, n + 1)]
    BY <1>6, <1>7 DEF EndEvent, parsed
  <1>9. Append(<<>>, n + 1) = <<n + 1>>
    OBVIOUS
  <1>10. ~EndEvent(s).failed /\ EndEvent(s).frames = Append(<<>>, n + 1)
    BY <1>3, <1>8
  <1> QED
    BY <1>5, <1>9, <1>10

-----------------------------------------------------------------------------
(* What is sent is what arrives *)

\* The body is the first frames of the log, and comments.
Sent ==
    /\ style \in Style
    /\ log \in 0..FrameCount /\ emitted \in 0..log
    /\ Laid(body, style, emitted)
    /\ job = "exited0" => log = FrameCount

\* Where a program that follows a job is.
Followed ==
    /\ pc \in {"attach", "done"} /\ strays \subseteq {"attach"}
    /\ call = "asked" => stream = "none"
    /\ stream # "none" => pc = "done" \/ call = "ok"
    /\ pc = "done" => call = "none"
    /\ stream = "ended" => job \in Ended /\ emitted = log

\* It has read got bytes, and was or will be given the frames that end there.
InStep ==
    LET s == Scan(Fresh(0), body)[got]
    IN decoder = DecoderOf(s) /\ frames \o pending = s.frames

\* It has read the whole body, and what was left of it.
AtEnd ==
    /\ stream = "ended" /\ got = Len(body)
    /\ decoder = EmptyDecoder /\ frames \o pending = [k \in 1..log |-> k]

Received ==
    /\ got \in 0..Len(body)
    /\ frames \in Seq(Frame) /\ pending \in Seq(Frame)
    /\ InStep \/ AtEnd
    /\ outcome = "ok" => AtEnd

\* The demo's frames are those of a whole body.
Replayed == pending = <<>> /\ \E n \in 0..FrameCount : frames = [k \in 1..n |-> k]

FramesInv == Sent /\ IF program = "demo" THEN Replayed ELSE Followed /\ Received

\* A request leaves a job as it is, or starts one.
LEMMA HandledJob ==
    ASSUME NEW method, NEW answer, Handle(method, answer)
    PROVE  job' = job \/ job' = "running"
  <1>1. CASE method = "open" \/ session # "open"
    BY <1>1 DEF Handle
  <1>2. CASE method = "start" /\ session = "open"
    <2>1. job' = IF answer = "ok" THEN "running" ELSE job
      BY <1>2 DEF Handle
    <2> QED
      BY <2>1
  <1>3. CASE method \in {"cancel", "close", "status"} /\ session = "open"
    BY <1>3 DEF Handle
  <1>4. CASE method \notin {"open", "start", "cancel", "close", "status"} /\ session = "open"
    BY <1>4 DEF Handle
  <1> QED
    BY <1>1, <1>2, <1>3, <1>4

\* What the server sends stays well laid out.
LEMMA SentMore ==
    ASSUME Sent, Emit \/ EmitKeepAlive
    PROVE  Sent'
  <1>1. /\ log' = log /\ style' = style /\ job' = job /\ log \in Nat /\ emitted \in Nat
        /\ FrameCount \in Nat
    BY DemoAssumption DEF Emit, EmitKeepAlive, Sent, serverVars, configVars
  <1>2. CASE Emit
    <2>1. body' = body \o EventOf(style, emitted + 1) /\ emitted' = emitted + 1 /\ emitted < log
      BY <1>2 DEF Emit
    <2>2. emitted \in 0..FrameCount - 1 /\ emitted + 1 \in 0..log
      BY <1>1, <2>1 DEF Sent
    <2>3. Laid(body \o EventOf(style, emitted + 1), style, emitted + 1)
      BY <2>2, LaidEvent DEF Sent
    <2> QED
      BY <1>1, <2>1, <2>2, <2>3 DEF Sent
  <1>3. CASE EmitKeepAlive
    <2>1. body' = body \o KeepAliveOf(style) /\ emitted' = emitted /\ emitted < FrameCount
      BY <1>3 DEF EmitKeepAlive
    <2>2. emitted \in 0..FrameCount - 1
      BY <1>1, <2>1 DEF Sent
    <2>3. Laid(body \o KeepAliveOf(style), style, emitted)
      BY <2>2, LaidKeepAlive DEF Sent
    <2> QED
      BY <1>1, <2>1, <2>3 DEF Sent
  <1> QED
    BY <1>2, <1>3

\* No step but those two touches the body, and the log only grows while the job runs.
LEMMA SentStep == Sent /\ [Next]_vars => Sent'
  <1> SUFFICES ASSUME Sent, [Next]_vars PROVE Sent'
    OBVIOUS
  <1>1. ASSUME UNCHANGED <<style, log, emitted, body>>, job' = job \/ job' = "running"
        PROVE  Sent'
    BY <1>1 DEF Sent
  <1>2. CASE Execute
    BY <1>1, <1>2, HandledJob DEF Execute, configVars
  <1>3. CASE \E method \in Method : Straggle(method)
    BY <1>1, <1>3, HandledJob DEF Straggle, configVars, sendVars
  <1>4. CASE JobWrites
    <2>1. /\ job = "running" /\ log < FrameCount /\ log' = log + 1
          /\ style' = style /\ emitted' = emitted /\ body' = body /\ job' = job
      BY <1>4 DEF JobWrites, configVars, sendVars
    <2>2. log' \in 0..FrameCount /\ emitted \in 0..log'
      BY <2>1, DemoAssumption DEF Sent
    <2> QED
      BY <2>1, <2>2 DEF Sent
  <1>5. CASE JobEnds
    <2>1. /\ job' = "exited0" => log = FrameCount
          /\ log' = log /\ style' = style /\ emitted' = emitted /\ body' = body
      BY <1>5 DEF JobEnds, configVars, sendVars
    <2> QED
      BY <2>1 DEF Sent
  <1>6. CASE EndBody \/ Tick \/ Break \/ Cut
    BY <1>1, <1>6 DEF EndBody, Tick, Break, Cut, configVars, serverVars, sendVars
  <1>7. CASE Calls
    BY <1>1, <1>7 DEF Calls, Ask, AcceptOpen, Continue, AcceptStatus, WakeUp, AcceptCancel,
       AcceptClose, AttachFails, ReadFails, configVars, serverVars, sendVars
  <1>8. CASE Collect \/ Reads
    BY <1>1, <1>8 DEF Collect, FinishBody, Reads, PopFrame, ReadChunk, ReadEnd, configVars,
       serverVars, sendVars
  <1>9. CASE UNCHANGED vars
    BY <1>1, <1>9 DEF vars, configVars, serverVars, sendVars
  <1> QED
    BY <1>2, <1>3, <1>4, <1>5, <1>6, <1>7, <1>8, <1>9, SentMore DEF Next, Server

\* A program that follows a job only attaches, and nothing it asks for restarts the job.
LEMMA FollowedStep ==
    ASSUME Sent, Followed, program # "demo", [Next]_vars
    PROVE  Followed'
  <1>1. CASE Execute
    <2>1. PICK answer \in Answer \ {"broken"} : Handle(pc, answer) /\ call' = answer
      BY <1>1 DEF Execute
    <2>2. /\ call = "asked" /\ pc' = pc /\ strays' = strays /\ emitted' = emitted /\ log' = log
          /\ stream' = IF pc = "attach" /\ call' = "ok" THEN "live" ELSE stream
      BY <1>1, <2>1 DEF Execute, netVars
    <2>3. pc = "attach" /\ job' = job
      BY <2>1, <2>2, Handled DEF Followed, Method
    <2> QED
      BY <2>1, <2>2, <2>3 DEF Followed, Answer, Ended
  <1>2. CASE \E method \in Method : Straggle(method)
    <2>1. PICK method \in Method : Straggle(method)
      BY <1>2
    <2>2. /\ method = "attach" /\ strays' \subseteq strays /\ pc' = pc /\ call' = call
          /\ stream' = stream /\ emitted' = emitted /\ log' = log
      BY <2>1 DEF Straggle, Followed, callVars, sendVars
    <2>3. job' = job
      BY <2>1, <2>2, Handled DEF Straggle
    <2> QED
      BY <2>2, <2>3 DEF Followed
  <1>3. CASE JobWrites \/ JobEnds
    BY <1>3 DEF JobWrites, JobEnds, Followed, callVars, netVars, sendVars, Ended
  <1>4. CASE Emit \/ EmitKeepAlive \/ EndBody \/ Cut \/ Tick
    BY <1>4 DEF Emit, EmitKeepAlive, EndBody, Cut, Tick, Followed, serverVars, callVars, netVars,
       sendVars
  <1>5. CASE Break
    <2>1. /\ call # "none" /\ (pc = "attach" => stream = "none") /\ call' = "broken"
          /\ strays' \subseteq strays \cup {pc} /\ pc' = pc /\ stream' = stream
          /\ job' = job /\ emitted' = emitted /\ log' = log
      BY <1>5 DEF Break, serverVars, sendVars
    <2> QED
      BY <2>1 DEF Followed
  <1>6. CASE Calls
    <2>1. /\ strays' = strays /\ stream' = stream /\ job' = job /\ emitted' = emitted
          /\ log' = log
      BY <1>6 DEF Calls, Ask, AcceptOpen, Continue, AcceptStatus, WakeUp, AcceptCancel,
         AcceptClose, AttachFails, ReadFails, serverVars, netVars, sendVars
    <2>2. \/ pc = "attach" /\ call = "none" /\ pc' = pc /\ call' = "asked"
          \/ pc' = "done" /\ call' = "none"
      BY <1>6 DEF Calls, Ask, AcceptOpen, Continue, AcceptStatus, WakeUp, AcceptCancel,
         AcceptClose, AttachFails, ReadFails, Answered, Goto, Followed, callVars, Method
    <2> QED
      BY <2>1, <2>2 DEF Followed
  <1>7. CASE Reads
    <2>1. /\ strays' = strays /\ stream' = stream /\ job' = job /\ emitted' = emitted
          /\ log' = log
      BY <1>7 DEF Reads, PopFrame, ReadChunk, ReadEnd, serverVars, netVars, sendVars
    <2>2. (pc' = pc /\ call' = call) \/ (pc' = "done" /\ call' = "none")
      BY <1>7 DEF Reads, PopFrame, ReadChunk, ReadEnd, Goto, callVars
    <2> QED
      BY <2>1, <2>2 DEF Followed
  <1>8. CASE UNCHANGED vars
    BY <1>8 DEF vars, Followed, serverVars, callVars, netVars, sendVars
  <1> QED
    BY <1>1, <1>2, <1>3, <1>4, <1>5, <1>6, <1>7, <1>8 DEF Next, Server, Collect, FinishBody

\* More of the body makes no difference to what was read.
LEMMA ReceivedMore ==
    ASSUME Sent, Received, Emit \/ EmitKeepAlive
    PROVE  Received'
  <1>1. PICK piece \in Seq(Token) : body' = body \o piece
    <2>1. Laid(body', style, emitted') /\ Laid(body, style, emitted)
      <3>1. Sent' /\ style' = style
        BY SentMore DEF Emit, EmitKeepAlive, configVars
      <3> QED
        BY <3>1 DEF Sent
    <2>2. CASE Emit
      <3>1. emitted \in 0..FrameCount - 1
        BY <2>2, DemoAssumption DEF Emit, Sent
      <3>2. Quiet(Fresh(emitted), EventOf(style, emitted + 1),
                  IF Cutoff(style, emitted + 1) THEN Waiting(emitted) ELSE Fresh(emitted + 1))
        BY <3>1, QuietEvent DEF Sent
      <3> QED
        BY <2>2, <3>2 DEF Emit, Quiet
    <2>3. CASE EmitKeepAlive
      <3>1. Tailless(KeepAliveOf(style))
        BY KeepAliveTailless DEF Sent
      <3> QED
        BY <2>3, <3>1 DEF EmitKeepAlive, Tailless
    <2> QED
      BY <2>2, <2>3
  <1>2. /\ stream = "live" /\ stream' = stream /\ log' = log /\ outcome' = outcome
        /\ got' = got /\ decoder' = decoder /\ pending' = pending /\ frames' = frames
    BY DEF Emit, EmitKeepAlive, serverVars, callVars, readVars
  <1>3. InStep /\ outcome # "ok"
    BY <1>2 DEF Received, AtEnd
  <1>4. body \in Seq(Token) /\ got \in 0..Len(body)
    BY DEF Sent, Laid, Received
  <1>5. got \in 0..Len(body')
    BY <1>1, <1>4
  <1>6. Scan(Fresh(0), body')[got] = Scan(Fresh(0), body)[got]
    <2>1. Fresh(0) \in Reading
      BY DemoAssumption, FreshIsReading
    <2> QED
      BY <1>1, <1>4, <2>1, ScanBefore
  <1>7. InStep'
    BY <1>2, <1>3, <1>6 DEF InStep
  <1> QED
    BY <1>2, <1>3, <1>5, <1>7 DEF Received

\* A frame that is given out was decoded before.
LEMMA ReceivedPop ==
    ASSUME Sent, Received, PopFrame
    PROVE  Received'
  <1>1. /\ pending # <<>> /\ frames' = Append(frames, Head(pending)) /\ pending' = Tail(pending)
        /\ stream' = stream /\ log' = log /\ outcome' = outcome /\ body' = body
        /\ got' = got /\ decoder' = decoder
    BY DEF PopFrame, serverVars, callVars, sendVars
  <1>2. frames \in Seq(Frame) /\ pending \in Seq(Frame)
    BY DEF Received
  <1>3. /\ frames' \in Seq(Frame) /\ pending' \in Seq(Frame)
        /\ frames' \o pending' = frames \o pending
    BY <1>1, <1>2
  <1> QED
    BY <1>1, <1>3 DEF Received, InStep, AtEnd

\* A chunk gives the frames that end in it.
LEMMA ReceivedChunk ==
    ASSUME Sent, Received, NEW upto \in got + 1..Len(body), ReadChunk(upto)
    PROVE  Received'
  <1> DEFINE w == Scan(Fresh(0), body)[got]
             v == Scan(Fresh(0), body)[upto]
             pushed == Push(decoder, SubSeq(body, got + 1, upto))
  <1>1. /\ pending = <<>> /\ got' = upto /\ decoder' = pushed.decoder /\ frames' = frames
        /\ IF pushed.failed THEN outcome' = "err" /\ pending' = pending
           ELSE pending' = pushed.frames /\ outcome' = outcome
        /\ stream' = stream /\ log' = log /\ body' = body
    BY DEF ReadChunk, Goto, serverVars, callVars, sendVars
  <1>2. /\ body \in Seq(Token) /\ got \in 0..Len(body) /\ frames \in Seq(Frame)
        /\ upto \in 0..Len(body) /\ got # Len(body)
    BY DEF Sent, Laid, Received
  <1>3. InStep /\ outcome # "ok"
    BY <1>2 DEF Received, AtEnd
  <1>4. /\ Fresh(0) \in Reading /\ Fresh(0).line = <<>>
        /\ w \in Reading /\ ~w.failed /\ ~v.failed
    <2>1. Fresh(0) \in Reading
      BY DemoAssumption, FreshIsReading
    <2>2. Fresh(0).line = <<>>
      BY DEF Fresh, Amid
    <2>3. \A p \in 0..Len(body) : Scan(Fresh(0), body)[p] \in Reading
                                  /\ ~Scan(Fresh(0), body)[p].failed
      BY DEF Sent, Laid, Gives
    <2> QED
      BY <1>2, <2>1, <2>2, <2>3
  <1>5. decoder = DecoderOf(w) /\ frames \o <<>> = w.frames
    BY <1>1, <1>3 DEF InStep
  <1>6. /\ pushed.decoder = DecoderOf(v) /\ pushed.failed = v.failed
        /\ pushed.frames \in Seq(Frame) /\ v.frames = w.frames \o pushed.frames
    BY <1>2, <1>4, <1>5, PushChunk
  <1>7. frames = w.frames
    BY <1>2, <1>5
  <1> HIDE DEF w, v, pushed
  <1>8. /\ pending' = pushed.frames /\ outcome' = outcome /\ decoder' = DecoderOf(v)
        /\ frames' \o pending' = v.frames
    BY <1>1, <1>4, <1>6, <1>7
  <1>9. InStep'
    BY <1>1, <1>8 DEF InStep, v
  <1> QED
    BY <1>1, <1>2, <1>3, <1>6, <1>8, <1>9 DEF Received

\* The end of the body gives the last frame, if its event was not complete.
LEMMA ReceivedEnd ==
    ASSUME Sent, Followed, Received, ReadEnd
    PROVE  Received'
  <1> DEFINE left == Finish(decoder)
  <1>1. /\ stream = "ended" /\ pending = <<>> /\ got = Len(body) /\ decoder' = EmptyDecoder
        /\ pending' = left.frames /\ outcome' \in {"err", "ok", outcome}
        /\ frames' = frames /\ stream' = stream /\ got' = got /\ body' = body /\ log' = log
    BY DEF ReadEnd, Goto, serverVars, callVars, sendVars
  <1>2. frames \in Seq(Frame) /\ frames \o pending = frames /\ log \in 0..FrameCount
        /\ style \in Style /\ emitted = log
    BY <1>1 DEF Sent, Received, Followed
  <1> HIDE DEF left
  <1>3. left.frames \in Seq(Frame) /\ frames \o left.frames = [k \in 1..log |-> k]
    <2>1. CASE AtEnd
      <3>1. left.frames = <<>>
        <4>1. EmptyDecoder.pending = <<>> /\ ~EmptyDecoder.sawData /\ decoder = EmptyDecoder
          BY <2>1 DEF EmptyDecoder, AtEnd
        <4> QED
          BY <4>1, FinishQuiet DEF left
      <3> QED
        BY <1>1, <1>2, <2>1, <3>1 DEF AtEnd
    <2>2. CASE InStep /\ ~(log # 0 /\ Cutoff(style, log))
      <3>1. Scan(Fresh(0), body)[got] = Fresh(log)
        BY <1>1, <1>2, <2>2 DEF Sent, Laid, Rest
      <3>2. decoder = DecoderOf(Fresh(log)) /\ frames = Fresh(log).frames
        BY <1>2, <2>2, <3>1 DEF InStep
      <3>3. left.frames = <<>>
        <4>1. decoder.pending = <<>> /\ ~decoder.sawData
          BY <3>2 DEF DecoderOf, Fresh, Amid
        <4> QED
          BY <4>1, FinishQuiet DEF left
      <3>4. Fresh(log).frames = [k \in 1..log |-> k]
        BY DEF Fresh, Amid
      <3>5. frames \o <<>> = frames /\ <<>> \in Seq(Frame)
        BY <1>2
      <3> QED
        BY <3>2, <3>3, <3>4, <3>5
    <2>3. CASE InStep /\ log # 0 /\ Cutoff(style, log)
      <3> DEFINE n == log - 1
      <3>1. n \in 0..FrameCount - 1 /\ n + 1 = log /\ log \in Frame
        BY <1>2, <2>3, DemoAssumption DEF Frame
      <3>2. Scan(Fresh(0), body)[got] = Waiting(n)
        BY <1>1, <1>2, <2>3 DEF Sent, Laid, Rest
      <3> HIDE DEF n
      <3>3. decoder = DecoderOf(Waiting(n)) /\ frames = Waiting(n).frames
        BY <1>2, <2>3, <3>2 DEF InStep
      <3>4. left.frames = <<log>>
        BY <3>1, <3>3, FinishWaiting DEF left
      <3>5. frames = [k \in 1..n |-> k]
        BY <3>3 DEF Waiting, Amid
      <3>6. <<log>> \in Seq(Frame) /\ [k \in 1..n |-> k] \o <<log>> = [k \in 1..log |-> k]
        <4>1. [k \in 1..n |-> k] \o <<n + 1>> = [k \in 1..n + 1 |-> k]
          BY <3>1
        <4>2. <<log>> \in Seq(Frame)
          BY <3>1
        <4> QED
          BY <3>1, <4>1, <4>2
      <3> QED
        BY <3>4, <3>5, <3>6
    <2> QED
      BY <2>1, <2>2, <2>3 DEF Received
  <1>4. frames' \o pending' = [k \in 1..log' |-> k]
    BY <1>1, <1>3
  <1>5. AtEnd'
    BY <1>1, <1>4 DEF AtEnd
  <1>6. got' \in 0..Len(body') /\ frames' \in Seq(Frame) /\ pending' \in Seq(Frame)
    BY <1>1, <1>2, <1>3 DEF Received
  <1> QED
    BY <1>5, <1>6 DEF Received

\* What a program that follows a job has received stays in step with what was sent.
LEMMA ReceivedStep ==
    ASSUME Sent, Followed, Received, program # "demo", [Next]_vars
    PROVE  Received'
  <1>1. ASSUME UNCHANGED <<body, got, decoder, pending, frames, log>>,
               stream = "ended" => stream' = "ended", outcome' = outcome \/ outcome' = "err"
        PROVE  Received'
    BY <1>1 DEF Received, InStep, AtEnd
  <1>2. CASE Execute
    BY <1>1, <1>2 DEF Execute, Followed, readVars
  <1>3. CASE \E method \in Method : Straggle(method)
    BY <1>1, <1>3 DEF Straggle, callVars, sendVars, readVars
  <1>4. CASE JobWrites
    <2>1. /\ UNCHANGED <<stream, body, got, decoder, pending, frames, outcome>>
          /\ job = "running"
      BY <1>4 DEF JobWrites, callVars, sendVars, readVars
    <2>2. ~AtEnd
      BY <2>1 DEF AtEnd, Followed, Ended
    <2> QED
      BY <2>1, <2>2 DEF Received, InStep
  <1>5. CASE JobEnds \/ EndBody \/ Cut \/ Tick \/ Break
    BY <1>1, <1>5 DEF JobEnds, EndBody, Cut, Tick, Break, serverVars, callVars, sendVars, readVars
  <1>6. CASE Calls
    BY <1>1, <1>6 DEF Calls, Ask, AcceptOpen, Continue, AcceptStatus, WakeUp, AcceptCancel,
       AcceptClose, AttachFails, ReadFails, Answered, Goto, Followed, serverVars, callVars,
       sendVars, readVars
  <1>7. CASE Reads
    BY <1>7, ReceivedPop, ReceivedChunk, ReceivedEnd DEF Reads
  <1>8. CASE UNCHANGED vars
    BY <1>1, <1>8 DEF vars, serverVars, callVars, sendVars, readVars
  <1> QED
    BY <1>2, <1>3, <1>4, <1>5, <1>6, <1>7, <1>8, ReceivedMore
       DEF Next, Server, Collect, FinishBody

\* The demo reads a body as a whole, once.
LEMMA ReplayedStep ==
    ASSUME Replayed, program = "demo", [Next]_vars
    PROVE  Replayed'
  <1>1. ASSUME pending' = pending /\ frames' = frames PROVE Replayed'
    BY <1>1 DEF Replayed
  <1>2. CASE Server
    BY <1>1, <1>2 DEF Server, Execute, Emit, EndBody, readVars
  <1>3. CASE Calls
    BY <1>1, <1>3 DEF Calls, Ask, AcceptOpen, Continue, AcceptStatus, WakeUp, AcceptCancel,
       AcceptClose, AttachFails, ReadFails, readVars
  <1>4. CASE Collect
    BY <1>4 DEF Collect, FinishBody, Replayed
  <1>5. CASE Tick \/ JobWrites \/ JobEnds \/ EmitKeepAlive \/ Break \/ Cut
    BY <1>1, <1>5 DEF Tick, JobWrites, JobEnds, EmitKeepAlive, Break, Cut, readVars
  <1>6. CASE \E method \in Method : Straggle(method)
    BY <1>1, <1>6 DEF Straggle, readVars
  <1>7. CASE UNCHANGED vars
    BY <1>1, <1>7 DEF vars, readVars
  <1> QED
    BY <1>2, <1>3, <1>4, <1>5, <1>6, <1>7
       DEF Next, Reads, PopFrame, ReadChunk, ReadEnd, Following

\* At first nothing was sent or received.
LEMMA FramesInit == Init => FramesInv
  <1> SUFFICES ASSUME Init PROVE FramesInv
    OBVIOUS
  <1>1. /\ log = 0 /\ emitted = 0 /\ body = <<>> /\ job \in {"none", "running"}
        /\ strays = {} /\ call = "none" /\ outcome = "none" /\ stream = "none" /\ got = 0
        /\ decoder = EmptyDecoder /\ pending = <<>> /\ frames = <<>>
        /\ program # "demo" => pc = "attach"
    BY DEF Init, InitDemo, InitWatch
  <1>2. style \in Style /\ 0 \in 0..FrameCount
    <2>1. OwnStyle \in Style
      BY DEF OwnStyle, Style
    <2>2. style = OwnStyle \/ style \in Style
      BY DEF Init, InitDemo, InitWatch
    <2>3. 0 \in 0..FrameCount
      BY DemoAssumption
    <2> QED
      BY <2>1, <2>2, <2>3
  <1>3. Sent
    BY <1>1, <1>2, LaidEmpty DEF Sent
  <1>4. Replayed
    <2>1. [k \in 1..0 |-> k] = <<>>
      OBVIOUS
    <2> QED
      BY <1>1, <1>2, <2>1 DEF Replayed
  <1>5. ASSUME program # "demo" PROVE Followed /\ Received
    <2>1. Followed
      BY <1>1, <1>5 DEF Followed
    <2>2. Scan(Fresh(0), <<>>)[0] = Fresh(0)
      <3>1. <<>> \in Seq(Token)
        OBVIOUS
      <3> QED
        BY <3>1, ScanSteps
    <2>3. DecoderOf(Fresh(0)) = EmptyDecoder /\ Fresh(0).frames = <<>>
      <3>1. Fresh(0).frames = [k \in 1..0 |-> k] /\ [k \in 1..0 |-> k] = <<>>
        BY DEF Fresh, Amid
      <3> QED
        BY <3>1 DEF DecoderOf, EmptyDecoder, Fresh, Amid
    <2>4. InStep
      <3>1. <<>> \o <<>> = <<>>
        OBVIOUS
      <3> QED
        BY <1>1, <2>2, <2>3, <3>1 DEF InStep
    <2>5. got \in 0..Len(body) /\ <<>> \in Seq(Frame)
      BY <1>1
    <2> QED
      BY <1>1, <2>1, <2>4, <2>5 DEF Received
  <1> QED
    BY <1>3, <1>4, <1>5 DEF FramesInv

\* The invariant is inductive.
LEMMA FramesStep == FramesInv /\ [Next]_vars => FramesInv'
  BY ProgramStays, SentStep, FollowedStep, ReceivedStep, ReplayedStep DEF FramesInv

\* While a program follows the stream, it has the frames that have arrived.
LEMMA FollowedFrames ==
    ASSUME Sent, Followed, Received
    PROVE  FramesAreThoseSent
  <1> DEFINE seen == frames \o pending
  <1>1. body \in Seq(Token) /\ got \in 0..Len(body) /\ log \in Nat
    BY DEF Sent, Laid, Received
  <1>2. \A n \in Nat : Len([k \in 1..n |-> k]) = n
    OBVIOUS
  <1>3. CASE AtEnd
    <2>1. seen = [k \in 1..log |-> k] /\ stream = "ended" /\ got = Len(body)
      BY <1>3 DEF AtEnd
    <2>2. Len(seen) = log /\ job \in Ended
      BY <1>1, <1>2, <2>1 DEF Followed
    <2> HIDE DEF seen
    <2>3. seen = [k \in 1..Len(seen) |-> k]
      BY <2>1, <2>2
    <2> QED
      BY <2>1, <2>2, <2>3 DEF FramesAreThoseSent, seen
  <1>4. CASE InStep /\ ~AtEnd
    <2>1. PICK n \in 0..emitted : Gives(body, style, got, n)
      BY <1>1 DEF Sent, Laid
    <2>2. n \in Nat
      BY <1>1 DEF Sent
    <2>3. seen = [k \in 1..n |-> k] /\ ArrivedBy(body, style, got) = 1..n
      BY <1>4, <2>1 DEF InStep, Gives
    <2>4. Len(seen) = n
      BY <1>2, <2>2, <2>3
    <2>5. Arrived = 1..n
      BY <2>3 DEF Arrived, ArrivedBy
    <2>6. Cardinality(1..n) = n
      BY <2>2, FS_Interval
    <2>7. outcome # "ok"
      BY <1>4 DEF Received
    <2> HIDE DEF seen
    <2>8. seen = [k \in 1..Len(seen) |-> k] /\ Len(seen) = Cardinality(Arrived)
      BY <2>3, <2>4, <2>5, <2>6
    <2> QED
      BY <2>7, <2>8 DEF FramesAreThoseSent, seen
  <1> QED
    BY <1>3, <1>4 DEF Received

\* The demo has the frames of the body, and all of the log when it succeeds.
LEMMA ReplayedFrames ==
    ASSUME program = "demo", Sent, Replayed, DemoInv
    PROVE  FramesAreThoseSent
  <1>1. PICK n \in 0..FrameCount : frames = [k \in 1..n |-> k]
    BY DEF Replayed
  <1>2. n \in Nat /\ Len(frames) = n /\ frames \in Seq(Nat)
    BY <1>1, DemoAssumption
  <1>3. frames \o pending = frames
    BY <1>2 DEF Replayed
  <1>4. frames = [k \in 1..Len(frames) |-> k] /\ ~Following
    BY <1>1, <1>2 DEF Following
  <1>5. outcome = "ok" => job \in Ended /\ Len(frames) = log
    BY DEF DemoInv, Result, Sent, Ended
  <1> QED
    BY <1>3, <1>4, <1>5 DEF FramesAreThoseSent

\* What a program is given of a job's log are its frames in order, no fewer and no more
\* than have arrived, and all of them when the stream ended well: for any number of
\* frames, kind of body, comments between them and cut into chunks (rpc.rs,
\* SseFrameDecoder; lib.rs, next_frame).
THEOREM FramesAreAlwaysThoseSent == Spec => []FramesAreThoseSent
  <1>1. Init => FramesInv
    BY FramesInit
  <1>2. FramesInv /\ [Next]_vars => FramesInv'
    BY FramesStep
  <1>3. Spec => []FramesInv
    BY <1>1, <1>2, PTL DEF Spec
  <1>4. FramesInv /\ DemoInv => FramesAreThoseSent
    BY FollowedFrames, ReplayedFrames DEF FramesInv
  <1> QED
    BY <1>3, <1>4, DemoInvHolds, PTL

=============================================================================
