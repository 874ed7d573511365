--------------------------- MODULE Launch_proofs ---------------------------
(***************************************************************************)
(* Theorems about starts, for any grammar of grants, file system, mount,   *)
(* requests, sessions and jobs.                                            *)
(*                                                                         *)
(* Sessions says that a session is as it was opened, for ever; Jobs what   *)
(* the checks have left of a job's request; Launches where a child, and    *)
(* what is to become one, comes from.  On these rest Commands, that what   *)
(* is on its way to a child was granted and is what its name stands for,   *)
(* and Confinements, that a child is confined by what was granted, as the  *)
(* file system was when the confinement was made.                          *)
(***************************************************************************)
EXTENDS Launch, TLAPS

-----------------------------------------------------------------------------
(* The laws of grants *)

\* A grant permits itself (capability.rs, permits).
THEOREM PermitsReflexive ==
    ASSUME NEW cap \in RuntimeCapability
    PROVE  Permits(cap, cap)
  BY DEF RuntimeCapability, Permits, StartsWith, Under, Path, Domain

\* What is beneath something beneath a path is beneath the path.
LEMMA StartsWithTransitive ==
    ASSUME NEW a \in Path, NEW b \in Path, NEW c \in Path,
           StartsWith(b, a), StartsWith(c, b)
    PROVE  StartsWith(c, a)
  <1>1. Len(a) \in Nat /\ Len(b) \in Nat /\ Len(c) \in Nat
    BY DEF Path
  <1>2. ASSUME NEW i \in 1..Len(a) PROVE c[i] = a[i]
    <2>1. i \in 1..Len(b)
      BY <1>1 DEF StartsWith
    <2> QED
      BY <2>1 DEF StartsWith
  <1> QED
    BY <1>1, <1>2 DEF StartsWith

\* A subdomain of a subdomain is a subdomain.
LEMMA UnderTransitive ==
    ASSUME NEW a \in Domain, NEW b \in Domain, NEW c \in Domain,
           Under(b, a), Under(c, b)
    PROVE  Under(c, a)
  <1>1. Len(a) \in Nat /\ Len(b) \in Nat /\ Len(c) \in Nat
    BY DEF Domain
  <1>2. Len(a) <= Len(b) /\ Len(b) <= Len(c)
    BY DEF Under
  <1>3. ASSUME NEW i \in 1..Len(a) PROVE c[Len(c) - Len(a) + i] = a[i]
    <2> DEFINE j == Len(b) - Len(a) + i
    <2>1. j \in 1..Len(b)
      BY <1>1, <1>2
    <2>2. b[j] = a[i]
      BY DEF Under
    <2>3. c[Len(c) - Len(b) + j] = b[j]
      BY <2>1 DEF Under
    <2>4. Len(c) - Len(b) + j = Len(c) - Len(a) + i
      BY <1>1
    <2> QED
      BY <2>2, <2>3, <2>4
  <1> QED
    BY <1>1, <1>2, <1>3 DEF Under

\* A grant permits what the grants it permits permit (capability.rs, "Attenuation
\* only narrows, never broadens").
THEOREM PermitsTransitive ==
    ASSUME NEW a \in RuntimeCapability, NEW b \in RuntimeCapability,
           NEW c \in RuntimeCapability, Permits(a, b), Permits(b, c)
    PROVE  Permits(a, c)
  <1>1. a.verb = b.verb /\ b.verb = c.verb
    BY DEF Permits
  <1>2. CASE a.verb \in {"fs.read", "fs.write"}
    <2>1. a.arg \in Path /\ b.arg \in Path /\ c.arg \in Path
      BY <1>1, <1>2 DEF RuntimeCapability
    <2>2. StartsWith(c.arg, a.arg)
      BY <1>1, <1>2, <2>1, StartsWithTransitive DEF Permits
    <2> QED
      BY <1>1, <1>2, <2>2 DEF Permits
  <1>3. CASE a.verb = "net.connect"
    <2>1. a.arg \in Domain /\ b.arg \in Domain /\ c.arg \in Domain
      BY <1>1, <1>3 DEF RuntimeCapability
    <2>2. Under(c.arg, a.arg)
      BY <1>1, <1>3, <2>1, UnderTransitive DEF Permits
    <2> QED
      BY <1>1, <1>3, <2>2 DEF Permits
  <1>4. CASE a.verb \notin {"fs.read", "fs.write", "net.connect"}
    BY <1>1, <1>4 DEF Permits
  <1> QED
    BY <1>2, <1>3, <1>4

\* A grant permits a child exactly when the child holds no more authority
\* (capability.rs, permits: "The child holds no more authority than the parent").
THEOREM PermitsIffNarrows ==
    ASSUME NEW grant \in RuntimeCapability, NEW child \in RuntimeCapability
    PROVE  Permits(grant, child) <=> Narrows(grant, child)
  <1>1. Permits(grant, child) => Narrows(grant, child)
    BY PermitsTransitive DEF Narrows
  <1>2. Narrows(grant, child) => Permits(grant, child)
    BY PermitsReflexive DEF Narrows
  <1> QED
    BY <1>1, <1>2

\* If each of a job's grants is permitted by the session's, they give it no more
\* than the session has (engine.rs, validate_job_capabilities).
THEOREM AttenuationNarrows ==
    ASSUME NEW grants \in SUBSET RuntimeCapability,
           NEW children \in SUBSET RuntimeCapability,
           \A child \in children : SetPermits(grants, child)
    PROVE  SetNarrows(grants, children)
  <1> SUFFICES ASSUME NEW use \in RuntimeCapability, SetPermits(children, use)
               PROVE  SetPermits(grants, use)
    BY DEF SetNarrows
  <1>1. PICK child \in children : Permits(child, use)
    BY DEF SetPermits
  <1>2. PICK grant \in grants : Permits(grant, child)
    BY DEF SetPermits
  <1>3. Permits(grant, use)
    BY <1>1, <1>2, PermitsTransitive
  <1> QED
    BY <1>3 DEF SetPermits

\* What is written is read back as it was (capability.rs, "parse(display(x)) == x").
THEOREM DisplayParses ==
    ASSUME NEW cap \in RuntimeCapability
    PROVE  ToWire(cap) \in Wire /\ Parses(ToWire(cap)) /\ Parse(ToWire(cap)) = cap
  <1>1. CASE cap \in [verb : {"fs.read", "fs.write"}, arg : Path]
    <2>1. DotDot \notin {cap.arg[i] : i \in DOMAIN cap.arg}
      BY <1>1, CapabilityAssumption DEF Path
    <2>2. cap.arg \in Seq(Component \cup {DotDot})
      BY <1>1 DEF Path
    <2> QED
      BY <1>1, <2>1, <2>2 DEF ToWire, Wire, Parses, Parse, GoodPath
  <1>2. CASE cap \in [verb : {"net.connect"}, arg : Domain \ {<<>>}]
    BY <1>2 DEF ToWire, Wire, Parses, Parse, GoodDomain
  <1>3. CASE cap \in [verb : {"proc.spawn", "pty.open"}, arg : {NoArg}]
    BY <1>3 DEF ToWire, Wire, Parses, Parse
  <1>4. CASE cap \in [verb : {"tool"}, arg : Tool]
    BY <1>4, CapabilityAssumption DEF ToWire, Wire, Parses, Parse
  <1> QED
    BY <1>1, <1>2, <1>3, <1>4 DEF RuntimeCapability

\* Every string that is accepted becomes a grant, one that begins like a verb a
\* grant of that verb (capability.rs, parse_str, "Strict verb-prefix rule").
THEOREM ParseIsTyped ==
    ASSUME NEW wire \in Wire, Parses(wire)
    PROVE  /\ Parse(wire) \in RuntimeCapability
           /\ wire.form # "bare" => Parse(wire).verb = wire.form
  <1>1. CASE wire.form \in {"fs.read", "fs.write"}
    <2>1. /\ wire.arg \in Seq(Component \cup {DotDot})
          /\ DotDot \notin {wire.arg[i] : i \in DOMAIN wire.arg}
      BY <1>1 DEF Wire, Parses, GoodPath
    <2>2. wire.arg \in Path
      BY <2>1 DEF Path
    <2> QED
      BY <1>1, <2>2 DEF Parse, RuntimeCapability
  <1>2. CASE wire.form \notin {"fs.read", "fs.write"}
    BY <1>2 DEF Wire, Parses, GoodDomain, Parse, RuntimeCapability
  <1> QED
    BY <1>1, <1>2

-----------------------------------------------------------------------------
(* The parts of the invariant *)

IsOpen(s) == session[s] # NoSession /\ session[s].answer = "ok"

Sessions ==
    /\ DOMAIN session = Session
    /\ \A s \in Session : IsOpen(s) =>
          \E request \in OpenRequest :
              session[s] = Opened(request) /\ FromWireOk(request.capabilities)

Accepted(j) == job[j] # NoJob /\ job[j].answer \in {"none", "ok"}

Jobs ==
    /\ DOMAIN job = Job
    /\ \A j \in Job : Accepted(j) =>
          /\ job[j] \in [session : Session, request : StartRequest, answer : {"none", "ok"}]
          /\ IsOpen(job[j].session)
          /\ CapabilitiesError(job[j].request.capabilities, Owner(j).grants) = "ok"

Launches ==
    /\ DOMAIN launch = Job
    /\ store \subseteq Job
    /\ \A j \in Job :
          /\ "step" \in DOMAIN launch[j]
          /\ launch[j].step = "idle" => launch[j] = Idle
          /\ launch[j].step # "idle" => Accepted(j)

LaunchInv ==
    /\ DOMAIN fs = DOMAIN Files
    /\ Sessions /\ Jobs /\ Launches /\ JobExistsIffItStarted

-----------------------------------------------------------------------------
(* The invariant *)

\* An error has a code that is neither that of a success nor no answer.
LEMMA CodeIsError ==
    ASSUME NEW error PROVE Code(error) \notin {"none", "ok"}
  BY DEF Code

\* A server that has just been asked to start has neither sessions nor jobs.
LEMMA InitInv == Init => LaunchInv
  BY DEF Init, LaunchInv, Sessions, IsOpen, Jobs, Accepted, Launches, Idle,
     JobExistsIffItStarted, Child

\* What is under way for a job stays within the invariant if only that job changes.
LEMMA OneJob ==
    ASSUME LaunchInv, NEW j \in Job, session' = session, fs' = fs,
           DOMAIN job' = Job, DOMAIN launch' = Job,
           \A k \in Job \ {j} : job'[k] = job[k] /\ launch'[k] = launch[k],
           store' \subseteq Job, \A k \in Job \ {j} : k \in store' <=> k \in store,
           Accepted(j)' =>
              /\ job'[j] \in [session : Session, request : StartRequest,
                              answer : {"none", "ok"}]
              /\ IsOpen(job'[j].session)
              /\ CapabilitiesError(job'[j].request.capabilities,
                                   session[job'[j].session].grants) = "ok",
           "step" \in DOMAIN launch'[j],
           launch'[j].step = "idle" => launch'[j] = Idle,
           launch'[j].step # "idle" => Accepted(j)',
           j \in store' <=> job'[j] # NoJob /\ job'[j].answer = "ok",
           launch'[j].step = "runs" => j \in store'
    PROVE  LaunchInv'
  <1>1. DOMAIN fs' = DOMAIN Files /\ Sessions'
    BY DEF LaunchInv, Sessions, IsOpen
  <1>2. Jobs'
    <2> SUFFICES ASSUME NEW k \in Job, Accepted(k)'
                 PROVE  /\ job'[k] \in [session : Session, request : StartRequest,
                                        answer : {"none", "ok"}]
                        /\ IsOpen(job[k].session)'
                        /\ CapabilitiesError(job'[k].request.capabilities,
                                             Owner(k)'.grants) = "ok"
      BY DEF Jobs
    <2>1. CASE k = j
      BY <2>1 DEF Owner, IsOpen
    <2>2. CASE k # j
      BY <2>2 DEF LaunchInv, Jobs, Accepted, Owner, IsOpen
    <2> QED
      BY <2>1, <2>2
  <1>3. Launches'
    BY DEF LaunchInv, Launches, Accepted
  <1>4. JobExistsIffItStarted'
    <2> SUFFICES ASSUME NEW k \in Job
                 PROVE  /\ k \in store' <=> job'[k] # NoJob /\ job'[k].answer = "ok"
                        /\ launch'[k].step = "runs" => k \in store'
                        /\ job'[k] # NoJob /\ job'[k].answer \notin {"none", "ok"}
                              => launch'[k] = Idle
      BY DEF JobExistsIffItStarted, Child
    <2>1. CASE k = j
      BY <2>1 DEF Accepted
    <2>2. CASE k # j
      BY <2>2 DEF LaunchInv, JobExistsIffItStarted, Child
    <2> QED
      BY <2>1, <2>2
  <1> QED
    BY <1>1, <1>2, <1>3, <1>4 DEF LaunchInv

\* A refusal leaves nothing behind, an admission what the checks accepted.
LEMMA StartInv ==
    ASSUME LaunchInv, NEW j \in Job, NEW s \in Session, NEW request \in StartRequest,
           Start(j, s, request)
    PROVE  LaunchInv'
  <1>1. /\ IsOpen(s) /\ job[j] = NoJob
        /\ session' = session /\ fs' = fs
        /\ DOMAIN job = Job /\ DOMAIN launch = Job /\ store \subseteq Job
    BY DEF Start, IsOpen, LaunchInv, Jobs, Launches
  <1>2. launch[j] = Idle /\ j \notin store
    BY <1>1 DEF LaunchInv, Launches, Accepted, JobExistsIffItStarted
  <1>3. CASE StartRefuses(j, s, request)
    <2>1. job' = [job EXCEPT ![j] = Refused(s, request, StartError(s, request))]
      BY <1>3 DEF StartRefuses
    <2>2. job'[j].answer \notin {"none", "ok"}
      BY <1>1, <2>1, CodeIsError DEF Refused
    <2>3. store' = store /\ launch' = launch /\ ~Accepted(j)'
      BY <1>3, <2>2 DEF StartRefuses, Accepted
    <2> QED
      BY <1>1, <1>2, <2>1, <2>2, <2>3, OneJob DEF Idle
  <1>4. CASE StartCode(j, s, request) \/ StartCommand(j, s, request)
    <2>1. CapabilitiesError(request.capabilities, session[s].grants) = "ok"
      BY <1>4 DEF StartCode, StartCommand, StartError
    <2>2. CASE StartCode(j, s, request) /\ store' = store \cup {j}
      <3>1. /\ job' = [job EXCEPT ![j] =
                         [session |-> s, request |-> request, answer |-> "ok"]]
            /\ store' = store \cup {j} /\ launch' = launch
        BY <1>2, <2>2 DEF StartCode
      <3>2. job'[j] \in [session : Session, request : StartRequest, answer : {"none", "ok"}]
        BY <1>1, <3>1
      <3>3. job'[j] # NoJob
        BY <3>2, LaunchAssumption
      <3> QED
        BY <1>1, <1>2, <2>1, <3>1, <3>2, <3>3, OneJob DEF Idle
    <2>3. CASE StartCommand(j, s, request)
      <3>1. /\ job' = [job EXCEPT ![j] =
                         [session |-> s, request |-> request, answer |-> "none"]]
            /\ launch' = [launch EXCEPT ![j] = Runnable(request.payload)]
            /\ store' = store
        BY <2>3 DEF StartCommand
      <3>2. job'[j] \in [session : Session, request : StartRequest, answer : {"none", "ok"}]
        BY <1>1, <3>1
      <3>3. job'[j] # NoJob
        BY <3>2, LaunchAssumption
      <3>4. "step" \in DOMAIN launch'[j] /\ launch'[j].step = "apply"
        BY <1>1, <3>1 DEF Runnable, Invocation
      <3>5. Accepted(j)'
        BY <1>1, <3>1, <3>3 DEF Accepted
      <3> QED
        BY <1>1, <1>2, <2>1, <3>1, <3>2, <3>3, <3>4, <3>5, OneJob
    <2>4. CASE StartCode(j, s, request) /\ store' # store \cup {j}
      <3>1. /\ job' = [job EXCEPT ![j] = Refused(s, request, "JobSpawn")]
            /\ store' = store /\ launch' = launch
        BY <2>4 DEF StartCode
      <3>2. job'[j].answer \notin {"none", "ok"}
        BY <1>1, <3>1, CodeIsError DEF Refused
      <3>3. ~Accepted(j)'
        BY <3>2 DEF Accepted
      <3> QED
        BY <1>1, <1>2, <3>1, <3>2, <3>3, OneJob DEF Idle
    <2> QED
      BY <1>4, <2>2, <2>3, <2>4
  <1> QED
    BY <1>3, <1>4 DEF Start

\* What is known of a job on its way to a child.
LEMMA UnderWay ==
    ASSUME LaunchInv, NEW j \in Job, launch[j].step # "idle" \/ j \in store
    PROVE  /\ job[j] # NoJob /\ Accepted(j)
           /\ job[j] \in [session : Session, request : StartRequest, answer : {"none", "ok"}]
           /\ IsOpen(job[j].session)
           /\ CapabilitiesError(job[j].request.capabilities,
                                session[job[j].session].grants) = "ok"
           /\ j \in store <=> job[j].answer = "ok"
           /\ "step" \in DOMAIN launch[j]
           /\ DOMAIN job = Job /\ DOMAIN launch = Job /\ store \subseteq Job
  <1>1. Accepted(j)
    BY DEF LaunchInv, Launches, JobExistsIffItStarted, Accepted
  <1> QED
    BY <1>1 DEF LaunchInv, Jobs, Launches, JobExistsIffItStarted, Accepted, Owner

\* A component's call concerns a job that is there.
LEMMA HostCallsInv ==
    ASSUME LaunchInv, NEW j \in Job, NEW call \in HostCall, HostCalls(j, call)
    PROVE  LaunchInv'
  <1>1. /\ j \in store
        /\ launch' = [launch EXCEPT ![j] = Invocation(call.name, call.params)]
        /\ session' = session /\ fs' = fs /\ job' = job /\ store' = store
    BY DEF HostCalls
  <1>2. "step" \in DOMAIN launch'[j] /\ launch'[j].step = "apply"
    BY <1>1, UnderWay DEF Invocation
  <1>3. Accepted(j)'
    BY <1>1, UnderWay DEF Accepted
  <1> QED
    BY <1>1, <1>2, <1>3, UnderWay, OneJob

\* A launch that fails leaves no job, unless there was one that called the host.
LEMMA FailInv ==
    ASSUME LaunchInv, NEW j \in Job, NEW error, launch[j].step # "idle", Fail(j, error),
           session' = session, fs' = fs
    PROVE  LaunchInv'
  <1>1. launch' = [launch EXCEPT ![j] = Idle] /\ store' = store
    BY DEF Fail
  <1>2. launch'[j] = Idle /\ DOMAIN launch' = Job
    BY <1>1, UnderWay
  <1>3. CASE job[j].answer = "none"
    <2>1. job' = [job EXCEPT ![j].answer = Code(error)]
      BY <1>3 DEF Fail
    <2>2. job'[j].answer = Code(error) /\ DOMAIN job' = Job
      BY <2>1, UnderWay
    <2>3. job'[j].answer \notin {"none", "ok"}
      BY <2>2, CodeIsError
    <2>4. ~Accepted(j)'
      BY <2>3 DEF Accepted
    <2>5. \A k \in Job \ {j} : job'[k] = job[k] /\ launch'[k] = launch[k]
      BY <1>1, <2>1, UnderWay
    <2> QED
      BY <1>1, <1>2, <1>3, <2>2, <2>3, <2>4, <2>5, UnderWay, OneJob DEF Idle
  <1>4. CASE job[j].answer = "ok"
    <2>1. job' = job
      BY <1>4 DEF Fail
    <2> QED
      BY <1>1, <1>2, <1>4, <2>1, UnderWay, OneJob DEF Idle
  <1> QED
    BY <1>3, <1>4, UnderWay

\* The checks of the sandbox are passed or the launch fails.
LEMMA ApplyInv ==
    ASSUME LaunchInv, NEW j \in Job, Apply(j)
    PROVE  LaunchInv'
  <1> DEFINE error == ApplyError(PolicyOf(j), kernel, fs)
  <1>1. launch[j].step = "apply" /\ session' = session /\ fs' = fs
    BY DEF Apply
  <1>2. CASE Fail(j, error)
    BY <1>1, <1>2, FailInv
  <1>3. CASE ~Fail(j, error)
    <2>1. /\ launch' = [launch EXCEPT ![j] =
               [step |-> "spawn", command |-> @.command, name |-> @.name,
                confinement |-> Confinement(PolicyOf(j), kernel, fs)]]
          /\ job' = job /\ store' = store
      BY <1>3 DEF Apply
    <2>2. "step" \in DOMAIN launch'[j] /\ launch'[j].step = "spawn" /\ DOMAIN launch' = Job
      BY <1>1, <2>1, UnderWay
    <2>3. Accepted(j)'
      BY <1>1, <2>1, UnderWay DEF Accepted
    <2>4. \A k \in Job \ {j} : launch'[k] = launch[k]
      BY <1>1, <2>1, UnderWay
    <2> QED
      BY <1>1, <2>1, <2>2, <2>3, <2>4, UnderWay, OneJob
  <1> QED
    BY <1>2, <1>3

\* With the child comes the job.
LEMMA SpawnInv ==
    ASSUME LaunchInv, NEW j \in Job, Spawn(j)
    PROVE  LaunchInv'
  <1>1. launch[j].step = "spawn" /\ session' = session /\ fs' = fs
    BY DEF Spawn
  <1>2. CASE Fail(j, "JobSpawn")
    BY <1>1, <1>2, FailInv
  <1>3. CASE ~Fail(j, "JobSpawn")
    <2>1. /\ launch' = [launch EXCEPT ![j].step = "runs"]
          /\ job' = [job EXCEPT ![j].answer = "ok"]
          /\ store' = store \cup {j}
      BY <1>3 DEF Spawn
    <2>2. "step" \in DOMAIN launch'[j] /\ launch'[j].step = "runs" /\ DOMAIN launch' = Job
      BY <1>1, <2>1, UnderWay
    <2>3. /\ job'[j] = [job[j] EXCEPT !.answer = "ok"]
          /\ DOMAIN job' = Job
      BY <1>1, <2>1, UnderWay
    <2>4. /\ job'[j] \in [session : Session, request : StartRequest, answer : {"none", "ok"}]
          /\ job'[j].session = job[j].session /\ job'[j].request = job[j].request
          /\ job'[j].answer = "ok"
      BY <1>1, <2>3, UnderWay
    <2>5. job'[j] # NoJob
      BY <2>4, LaunchAssumption
    <2>6. Accepted(j)'
      BY <2>4, <2>5 DEF Accepted
    <2>7. \A k \in Job \ {j} : job'[k] = job[k] /\ launch'[k] = launch[k]
      BY <1>1, <2>1, UnderWay
    <2> QED
      BY <1>1, <2>1, <2>2, <2>3, <2>4, <2>5, <2>6, <2>7, UnderWay, OneJob
  <1> QED
    BY <1>2, <1>3

\* The end of a child leaves the job of the component.
LEMMA ChildEndsInv ==
    ASSUME LaunchInv, NEW j \in Job, ChildEnds(j)
    PROVE  LaunchInv'
  <1>1. /\ launch[j].step = "runs"
        /\ launch' = [launch EXCEPT ![j] = Idle]
        /\ session' = session /\ fs' = fs /\ job' = job /\ store' = store
    BY DEF ChildEnds
  <1>2. launch'[j] = Idle /\ DOMAIN launch' = Job
    BY <1>1, UnderWay
  <1> QED
    BY <1>1, <1>2, UnderWay, OneJob DEF Idle

\* A session is opened once.
LEMMA OpenInv ==
    ASSUME LaunchInv, NEW s \in Session, NEW request \in OpenRequest, Open(s, request)
    PROVE  LaunchInv'
  <1>1. /\ session[s] = NoSession
        /\ fs' = fs /\ job' = job /\ store' = store /\ launch' = launch
    BY DEF Open
  <1>2. \A t \in Session \ {s} : session'[t] = session[t]
    BY DEF Open, LaunchInv, Sessions
  <1>3. Sessions'
    <2>1. IsOpen(s)' => session'[s] = Opened(request) /\ FromWireOk(request.capabilities)
      <3>1. CASE OpenError(request) = "ok"
        BY <3>1 DEF Open, OpenError, LaunchInv, Sessions
      <3>2. CASE OpenError(request) # "ok"
        <4>1. session'[s].answer = Code(OpenError(request))
          BY <3>2 DEF Open, LaunchInv, Sessions
        <4> QED
          BY <4>1, CodeIsError DEF IsOpen
      <3> QED
        BY <3>1, <3>2
    <2> QED
      BY <1>2, <2>1 DEF Open, LaunchInv, Sessions, IsOpen
  <1>4. Jobs'
    <2> SUFFICES ASSUME NEW j \in Job, Accepted(j)
                 PROVE  /\ job[j] \in [session : Session, request : StartRequest,
                                       answer : {"none", "ok"}]
                        /\ IsOpen(job[j].session)'
                        /\ CapabilitiesError(job[j].request.capabilities,
                                             session'[job[j].session].grants) = "ok"
      BY <1>1 DEF LaunchInv, Jobs, Accepted, Owner
    <2>1. job[j].session \in Session \ {s}
      BY <1>1 DEF LaunchInv, Jobs, IsOpen
    <2> QED
      BY <1>1, <1>2, <2>1 DEF LaunchInv, Jobs, Owner, IsOpen
  <1> QED
    BY <1>1, <1>3, <1>4 DEF LaunchInv, Launches, Accepted, JobExistsIffItStarted, Child

-----------------------------------------------------------------------------
(* The theorems *)

\* The invariant is inductive.
LEMMA NextInv == LaunchInv /\ [Next]_vars => LaunchInv'
  <1> SUFFICES ASSUME LaunchInv, [Next]_vars PROVE LaunchInv'
    OBVIOUS
  <1> USE DEF LaunchInv, Sessions, IsOpen, Jobs, Accepted, Owner, Launches,
          JobExistsIffItStarted, Child
  <1>1. CASE Serve
    BY <1>1 DEF Serve
  <1>2. CASE \E path \in MayVanish : Vanish(path)
    BY <1>2 DEF Vanish
  <1>3. CASE UNCHANGED vars
    BY <1>3 DEF vars
  <1> QED
    BY <1>1, <1>2, <1>3, OpenInv, StartInv, HostCallsInv, ApplyInv, SpawnInv, ChildEndsInv
       DEF Next

\* Nothing that is reachable is outside the invariant.
THEOREM Invariant == Spec => []LaunchInv
  BY InitInv, NextInv, PTL DEF Spec

\* A job is in the store exactly if its client was told that it started, whatever
\* fails or vanishes between the checks and the child (engine.rs, start).
THEOREM JobsExistIffTheyStarted == Spec => []JobExistsIffItStarted
  <1>1. LaunchInv => JobExistsIffItStarted
    BY DEF LaunchInv
  <1> QED
    BY <1>1, Invariant, PTL

\* The grants of a session that was opened, and of what it may start, are typed.
LEMMA Typed ==
    ASSUME LaunchInv, NEW j \in store
    PROVE  /\ FromWire(job[j].request.capabilities) \in SUBSET RuntimeCapability
           /\ session[job[j].session].grants \in SUBSET RuntimeCapability
           /\ \A child \in FromWire(job[j].request.capabilities) :
                 SetPermits(session[job[j].session].grants, child)
  <1>1. j \in Job
    BY DEF LaunchInv, Launches
  <1>2. /\ job[j].request \in StartRequest /\ job[j].session \in Session
        /\ IsOpen(job[j].session)
        /\ CapabilitiesError(job[j].request.capabilities,
                             session[job[j].session].grants) = "ok"
    BY <1>1, UnderWay
  <1>3. \A wire \in job[j].request.capabilities :
           Parses(wire) /\ SetPermits(session[job[j].session].grants, Parse(wire))
    BY <1>2 DEF CapabilitiesError
  <1>4. \A wire \in job[j].request.capabilities : wire \in Wire
    BY <1>2, LaunchAssumption
  <1>5. PICK request \in OpenRequest : /\ session[job[j].session] = Opened(request)
                                       /\ FromWireOk(request.capabilities)
    BY <1>2 DEF LaunchInv, Sessions
  <1>6. session[job[j].session].grants = FromWire(request.capabilities)
    BY <1>5 DEF Opened
  <1>7. \A wire \in request.capabilities : wire \in Wire /\ Parses(wire)
    BY <1>5, LaunchAssumption DEF FromWireOk
  <1> QED
    BY <1>3, <1>4, <1>6, <1>7, ParseIsTyped DEF FromWire

\* What a started job asked for is within what its session has, for any grammar of
\* paths, domains and names (engine.rs, validate_job_capabilities).
THEOREM JobGrantsStayWithin == Spec => []JobGrantsAreWithin
  <1>1. LaunchInv => JobGrantsAreWithin
    <2> SUFFICES ASSUME LaunchInv, NEW j \in store, NEW use \in Use,
                        SetPermits(FromWire(job[j].request.capabilities), use)
                 PROVE  SetPermits(session[job[j].session].grants, use)
      BY DEF JobGrantsAreWithin
    <2>1. use \in RuntimeCapability
      BY LaunchAssumption
         DEF Use, LaunchInv, FsRead, FsWrite, ProcSpawn, PtyOpen, ToolGrant, RuntimeCapability
    <2> QED
      BY <2>1, Typed, AttenuationNarrows DEF SetNarrows
  <1> QED
    BY <1>1, Invariant, PTL

-----------------------------------------------------------------------------
(* What a step does to the sessions and to one job *)

\* What is open stays as it is.
LEMMA SessionStays ==
    ASSUME LaunchInv, [Next]_vars, NEW s \in Session, IsOpen(s)
    PROVE  session'[s] = session[s]
  <1>1. ASSUME NEW t \in Session, NEW request \in OpenRequest, Open(t, request)
        PROVE  session'[s] = session[s]
    BY <1>1 DEF Open, IsOpen, LaunchInv, Sessions
  <1>2. CASE UNCHANGED session
    BY <1>2
  <1> QED
    BY <1>1, <1>2 DEF Next, vars, Serve, Start, HostCalls, Apply, Spawn, ChildEnds, Vanish

\* A job changes by an action that is about it.
LEMMA JobStep ==
    ASSUME LaunchInv, [Next]_vars, NEW j \in Job
    PROVE  \/ job'[j] = job[j] /\ launch'[j] = launch[j]
           \/ \E s \in Session, request \in StartRequest : Start(j, s, request)
           \/ \E call \in HostCall : HostCalls(j, call)
           \/ Apply(j) \/ Spawn(j) \/ ChildEnds(j)
  <1> DEFINE Same == job'[j] = job[j] /\ launch'[j] = launch[j]
  <1>1. DOMAIN job = Job /\ DOMAIN launch = Job
    BY DEF LaunchInv, Jobs, Launches
  <1>2. ASSUME NEW k \in Job \ {j}, NEW s \in Session, NEW request \in StartRequest,
               Start(k, s, request)
        PROVE  Same
    BY <1>1, <1>2 DEF Start, StartRefuses, StartCode, StartCommand
  <1>3. ASSUME NEW k \in Job \ {j}, NEW call \in HostCall, HostCalls(k, call) PROVE Same
    BY <1>1, <1>3 DEF HostCalls
  <1>4. ASSUME NEW k \in Job \ {j}, NEW error, Fail(k, error) PROVE Same
    BY <1>1, <1>4 DEF Fail
  <1>5. ASSUME NEW k \in Job \ {j}, Apply(k) PROVE Same
    <2>1. CASE Fail(k, ApplyError(PolicyOf(k), kernel, fs))
      BY <1>4, <2>1
    <2>2. CASE ~Fail(k, ApplyError(PolicyOf(k), kernel, fs))
      BY <1>1, <1>5, <2>2 DEF Apply
    <2> QED
      BY <2>1, <2>2
  <1>6. ASSUME NEW k \in Job \ {j}, Spawn(k) PROVE Same
    <2>1. CASE Fail(k, "JobSpawn")
      BY <1>4, <2>1
    <2>2. CASE ~Fail(k, "JobSpawn")
      BY <1>1, <1>6, <2>2 DEF Spawn
    <2> QED
      BY <2>1, <2>2
  <1>7. ASSUME NEW k \in Job \ {j}, ChildEnds(k) PROVE Same
    BY <1>1, <1>7 DEF ChildEnds
  <1>8. ASSUME UNCHANGED <<job, launch>> PROVE Same
    BY <1>8
  <1> HIDE DEF Same
  <1> DEFINE Changes == \/ \E s \in Session, request \in StartRequest : Start(j, s, request)
                        \/ \E call \in HostCall : HostCalls(j, call)
                        \/ Apply(j) \/ Spawn(j) \/ ChildEnds(j)
  <1>9. ASSUME NEW k \in Job, NEW s \in Session, NEW request \in StartRequest,
               Start(k, s, request)
        PROVE  Same \/ Changes
    BY <1>2, <1>9
  <1>10. ASSUME NEW k \in Job, NEW call \in HostCall, HostCalls(k, call) PROVE Same \/ Changes
    BY <1>3, <1>10
  <1>11. ASSUME NEW k \in Job, Apply(k) \/ Spawn(k) \/ ChildEnds(k) PROVE Same \/ Changes
    BY <1>5, <1>6, <1>7, <1>11
  <1> HIDE DEF Changes
  <1>12. Same \/ Changes
    BY <1>8, <1>9, <1>10, <1>11 DEF Next, vars, Serve, Open, Vanish
  <1> QED
    BY <1>12 DEF Same, Changes

\* What was accepted for a job stays what it was accepted for.
LEMMA RequestStays ==
    ASSUME LaunchInv, [Next]_vars, NEW j \in Job, Accepted(j)
    PROVE  /\ job'[j].session = job[j].session /\ job'[j].request = job[j].request
           /\ Owner(j)' = Owner(j)
  <1>1. /\ job[j] # NoJob /\ IsOpen(job[j].session) /\ DOMAIN job = Job
        /\ job[j] \in [session : Session, request : StartRequest, answer : {"none", "ok"}]
    BY DEF LaunchInv, Jobs, Accepted
  <1>2. ASSUME NEW error, Fail(j, error)
        PROVE  job'[j].session = job[j].session /\ job'[j].request = job[j].request
    BY <1>1, <1>2 DEF Fail
  <1>3. job'[j].session = job[j].session /\ job'[j].request = job[j].request
    <2>1. CASE job'[j] = job[j]
      BY <2>1
    <2>2. CASE \E s \in Session, request \in StartRequest : Start(j, s, request)
      BY <1>1, <2>2 DEF Start
    <2>3. CASE \E call \in HostCall : HostCalls(j, call)
      BY <2>3 DEF HostCalls
    <2>4. CASE Apply(j)
      BY <1>2, <2>4 DEF Apply
    <2>5. CASE Spawn(j)
      <3>1. CASE Fail(j, "JobSpawn")
        BY <1>2, <3>1
      <3>2. CASE ~Fail(j, "JobSpawn")
        <4>1. job' = [job EXCEPT ![j].answer = "ok"]
          BY <2>5, <3>2 DEF Spawn
        <4> QED
          BY <1>1, <4>1
      <3> QED
        BY <3>1, <3>2
    <2>6. CASE ChildEnds(j)
      BY <2>6 DEF ChildEnds
    <2> QED
      BY <2>1, <2>2, <2>3, <2>4, <2>5, <2>6, JobStep
  <1>4. session'[job[j].session] = session[job[j].session]
    BY <1>1, SessionStays
  <1> QED
    BY <1>3, <1>4 DEF Owner

\* Where what is on its way to a child comes from: from where it was, or from a start
\* or a call that passed its checks.
LEMMA LaunchStep ==
    ASSUME LaunchInv, [Next]_vars, NEW j \in Job, launch'[j].step # "idle"
    PROVE  \/ /\ launch[j].step # "idle"
              /\ launch'[j].command = launch[j].command /\ launch'[j].name = launch[j].name
           \/ \E s \in Session, request \in StartRequest :
                 /\ StartError(s, request) = "ok" /\ request.payload.kind # "code"
                 /\ job'[j].session = s /\ IsOpen(s)
                 /\ launch'[j] = Runnable(request.payload)
           \/ \E call \in HostCall :
                 /\ InvokeError(Owner(j).grants, call.name, call.params) = "ok"
                 /\ j \in store
                 /\ launch'[j] = Invocation(call.name, call.params)
  <1>1. DOMAIN job = Job /\ DOMAIN launch = Job
    BY DEF LaunchInv, Jobs, Launches
  <1>2. ~\E error : Fail(j, error)
    BY <1>1 DEF Fail, Idle
  <1>3. CASE launch'[j] = launch[j]
    BY <1>3
  <1>4. ASSUME NEW s \in Session, NEW request \in StartRequest, Start(j, s, request)
        PROVE  \/ launch'[j] = launch[j]
               \/ /\ StartError(s, request) = "ok" /\ request.payload.kind # "code"
                  /\ job'[j].session = s /\ IsOpen(s)
                  /\ launch'[j] = Runnable(request.payload)
    BY <1>1, <1>4 DEF Start, StartRefuses, StartCode, StartCommand, IsOpen
  <1>5. ASSUME NEW call \in HostCall, HostCalls(j, call)
        PROVE  /\ InvokeError(Owner(j).grants, call.name, call.params) = "ok" /\ j \in store
               /\ launch'[j] = Invocation(call.name, call.params)
    BY <1>1, <1>5 DEF HostCalls, Owner
  <1>6. CASE Apply(j)
    <2>1. /\ launch[j].step = "apply"
          /\ launch' = [launch EXCEPT ![j] =
               [step |-> "spawn", command |-> @.command, name |-> @.name,
                confinement |-> Confinement(PolicyOf(j), kernel, fs)]]
      BY <1>2, <1>6 DEF Apply
    <2> QED
      BY <1>1, <2>1
  <1>7. CASE Spawn(j)
    <2>1. launch[j].step = "spawn" /\ launch' = [launch EXCEPT ![j].step = "runs"]
      BY <1>2, <1>7 DEF Spawn
    <2> QED
      BY <1>1, <2>1
  <1>8. CASE ChildEnds(j)
    <2>1. launch'[j] = Idle
      BY <1>1, <1>8 DEF ChildEnds
    <2> QED
      BY <2>1 DEF Idle
  <1> QED
    BY <1>3, <1>4, <1>5, <1>6, <1>7, <1>8, JobStep

\* The grants of the session of an accepted job are typed.
LEMMA OwnerTyped ==
    ASSUME LaunchInv, NEW s \in Session, IsOpen(s)
    PROVE  /\ session[s].grants \in SUBSET RuntimeCapability
           /\ session[s].root \in DOMAIN Files
           /\ \A grant \in session[s].grants :
                 grant.verb \in {"fs.read", "fs.write"} => grant.arg \in DOMAIN Files
           /\ session[s].grantedTier = session[s].tier
  <1>1. PICK request \in OpenRequest :
           session[s] = Opened(request) /\ FromWireOk(request.capabilities)
    BY DEF LaunchInv, Sessions
  <1>2. \A wire \in request.capabilities : wire \in Wire /\ Parses(wire)
    BY <1>1, LaunchAssumption DEF FromWireOk
  <1>3. /\ session[s].grants = FromWire(request.capabilities)
        /\ session[s].root = request.workspace /\ session[s].grantedTier = session[s].tier
    BY <1>1 DEF Opened
  <1>4. PathsOf(request) \subseteq DOMAIN Files
    BY LaunchAssumption
  <1>5. ASSUME NEW wire \in request.capabilities, Parse(wire).verb \in {"fs.read", "fs.write"}
        PROVE  Parse(wire).arg \in DOMAIN Files
    BY <1>2, <1>4, <1>5 DEF Parse, PathsOf
  <1> QED
    BY <1>2, <1>3, <1>4, <1>5, ParseIsTyped DEF FromWire, PathsOf

-----------------------------------------------------------------------------
(* What runs was granted *)

\* What is served was configured well, and nobody is served before that.
Serving ==
    /\ args \in ServeArgs
    /\ server = "serving" =>
          GoodArgs(args) /\ Registers(Mounted) /\ catalog \in Catalogs(Mounted)
    /\ \A s \in Session : IsOpen(s) => server = "serving"

\* Serve is the only way to a server that serves.
LEMMA ServingHolds == Spec => []Serving
  <1>1. Init => Serving
    BY DEF Init, Serving, IsOpen
  <1>2. LaunchInv /\ Serving /\ [Next]_vars => Serving'
    <2> SUFFICES ASSUME LaunchInv, Serving, [Next]_vars PROVE Serving'
      OBVIOUS
    <2>1. CASE Serve
      BY <2>1 DEF Serve, Serving, IsOpen, Mounted
    <2>2. ASSUME NEW s \in Session, NEW request \in OpenRequest, Open(s, request) PROVE Serving'
      BY <2>2 DEF Open, Serving, IsOpen, Mounted
    <2>3. CASE UNCHANGED <<args, server, catalog, session>>
      BY <2>3 DEF Serving, IsOpen, Mounted
    <2> QED
      BY <2>1, <2>2, <2>3 DEF Next, vars, Start, HostCalls, Apply, Spawn, ChildEnds, Vanish
  <1> QED
    BY <1>1, <1>2, Invariant, PTL DEF Spec

\* The command is that of a capability exposed as name.
IsCommandOf(command, name) ==
    \/ \E i \in DOMAIN BuiltinCommand :
          /\ IsExposedAs(Builtin, BuiltinCommand[i].name, name)
          /\ command.program = BuiltinCommand[i].program
    \/ \E i \in DOMAIN Mounted.tools :
          /\ IsExposedAs(Mounted.provider, Mounted.tools[i].name, name)
          /\ command.program = Mounted.program
          /\ \E params \in {call.params : call \in HostCall} :
                command.args = Mounted.args \o
                    <<"--provider", Mounted.provider, "--tool",
                      Mounted.tools[i].name, "--params", params>>

\* The grants let one run the command under that name.
Rightful(grants, command, name) ==
    \/ name = NoCommand /\ ProcSpawn \in grants /\ command = ShellCommand
    \/ /\ name # NoCommand
       /\ ProcSpawn \in grants \/ ToolGrant(name) \in grants
       /\ IsCommandOf(command, name)

\* A grant that permits to spawn, or to invoke a name, is that grant.
LEMMA ExactGrants ==
    ASSUME NEW grants \in SUBSET RuntimeCapability
    PROVE  /\ SetPermits(grants, ProcSpawn) => ProcSpawn \in grants
           /\ \A name : SetPermits(grants, ToolGrant(name)) => ToolGrant(name) \in grants
  <1>1. ASSUME NEW grant \in grants, Permits(grant, ProcSpawn) PROVE grant = ProcSpawn
    BY <1>1 DEF Permits, ProcSpawn, RuntimeCapability
  <1>2. ASSUME NEW name, NEW grant \in grants, Permits(grant, ToolGrant(name))
        PROVE  grant = ToolGrant(name)
    BY <1>2 DEF Permits, ToolGrant, RuntimeCapability
  <1> QED
    BY <1>1, <1>2 DEF SetPermits

\* Whatever an exposed name resolves to is what was configured under it.
LEMMA ResolvedIsConfigured ==
    ASSUME Registers(Mounted), catalog \in Catalogs(Mounted), NEW call \in HostCall,
           ResolveError(catalog, call.name, call.params) = "ok"
    PROVE  IsCommandOf(Resolved(Mounted, catalog, call.name, call.params), call.name)
  <1> DEFINE shared == MountedName(Mounted) \cap BuiltinName
             command == Resolved(Mounted, catalog, call.name, call.params)
  <1>1. Entries(catalog, call.name) # {} /\ catalog \subseteq Claims(Mounted)
    BY DEF ResolveError, Catalogs
  <1>2. PICK entry \in Claims(Mounted) :
           /\ entry.exposed = call.name
           /\ command = IF entry.provider = Builtin
                        THEN NativeCommand(entry.local, call.params)
                        ELSE BridgeCommand(Mounted, entry.local, call.params)
    BY <1>1 DEF Resolved, Entries
  <1>3. /\ entry.exposed = IF entry.local \in shared
                           THEN <<entry.provider>> \o entry.local ELSE entry.local
        /\ \/ entry.provider = Builtin /\ entry.local \in BuiltinName
           \/ entry.provider = Mounted.provider /\ entry.local \in MountedName(Mounted)
    <2>1. \/ entry \in Builtins(BuiltinName \ shared)
          \/ entry \in Qualified(Builtin, shared)
          \/ \E n \in MountedName(Mounted) \ shared :
                entry = [exposed |-> n, provider |-> Mounted.provider, local |-> n]
          \/ entry \in Qualified(Mounted.provider, shared)
      BY DEF Claims
    <2> HIDE DEF command
    <2>2. CASE entry \in Builtins(BuiltinName \ shared)
      <3>1. PICK n \in BuiltinName \ shared :
               entry = [exposed |-> n, provider |-> Builtin, local |-> n]
        BY <2>2 DEF Builtins
      <3> QED
        BY <3>1
    <2>3. CASE entry \in Qualified(Builtin, shared)
      <3>1. PICK n \in shared :
               entry = [exposed |-> <<Builtin>> \o n, provider |-> Builtin, local |-> n]
        BY <2>3 DEF Qualified
      <3> QED
        BY <3>1
    <2>4. CASE entry \in Qualified(Mounted.provider, shared)
      <3>1. PICK n \in shared :
               entry = [exposed |-> <<Mounted.provider>> \o n,
                        provider |-> Mounted.provider, local |-> n]
        BY <2>4 DEF Qualified
      <3> QED
        BY <3>1
    <2>5. ASSUME NEW n \in MountedName(Mounted) \ shared,
                 entry = [exposed |-> n, provider |-> Mounted.provider, local |-> n]
          PROVE  /\ entry.exposed = n /\ entry.local = n /\ n \notin shared
                 /\ entry.provider = Mounted.provider /\ n \in MountedName(Mounted)
      BY <2>5
    <2> HIDE DEF shared
    <2> QED
      BY <2>1, <2>2, <2>3, <2>4, <2>5
  <1>4. CASE entry.provider = Builtin /\ entry.local \in BuiltinName
    <2>1. PICK i \in DOMAIN BuiltinCommand : BuiltinCommand[i].name = entry.local
      BY <1>4 DEF BuiltinName
    <2>2. PICK k \in DOMAIN BuiltinCommand :
             /\ BuiltinCommand[k].name = entry.local
             /\ NativeCommand(entry.local, call.params).program = BuiltinCommand[k].program
      <3> DEFINE k == CHOOSE j \in DOMAIN BuiltinCommand : BuiltinCommand[j].name = entry.local
      <3>1. k \in DOMAIN BuiltinCommand /\ BuiltinCommand[k].name = entry.local
        BY <2>1
      <3>2. NativeCommand(entry.local, call.params).program = BuiltinCommand[k].program
        BY DEF NativeCommand
      <3> QED
        BY <3>1, <3>2
    <2>3. command.program = BuiltinCommand[k].program
      BY <1>2, <1>4, <2>2
    <2>4. IsExposedAs(Builtin, BuiltinCommand[k].name, call.name)
      BY <1>2, <1>3, <1>4, <2>2 DEF IsExposedAs
    <2> HIDE DEF command
    <2>5. IsCommandOf(command, call.name)
      BY <2>3, <2>4 DEF IsCommandOf
    <2> QED
      BY <2>5 DEF command
  <1>5. CASE entry.provider = Mounted.provider /\ entry.local \in MountedName(Mounted)
    <2>1. PICK i \in DOMAIN Mounted.tools : Mounted.tools[i].name = entry.local
      BY <1>5 DEF MountedName
    <2>2. Mounted # NoMount
      BY <2>1 DEF NoMount
    <2>3. entry.provider # Builtin
      BY <1>5, <2>2 DEF Registers
    <2>4. command = BridgeCommand(Mounted, entry.local, call.params)
      BY <1>2, <2>3
    <2>5. IsExposedAs(Mounted.provider, Mounted.tools[i].name, call.name)
      <3>1. IsExposedAs(entry.provider, entry.local, call.name)
        BY <1>2, <1>3 DEF IsExposedAs
      <3> QED
        BY <1>5, <2>1, <3>1
    <2>6. /\ command.program = Mounted.program
          /\ command.args = Mounted.args \o
                <<"--provider", Mounted.provider, "--tool",
                  Mounted.tools[i].name, "--params", call.params>>
      <3>1. command = BridgeCommand(Mounted, Mounted.tools[i].name, call.params)
        BY <2>1, <2>4, Zenon
      <3> HIDE DEF command
      <3> QED
        BY <3>1 DEF BridgeCommand
    <2> HIDE DEF command
    <2>7. IsCommandOf(command, call.name)
      BY <2>5, <2>6 DEF IsCommandOf
    <2> QED
      BY <2>7 DEF command
  <1> QED
    BY <1>3, <1>4, <1>5

\* A call that passed its checks is rightful.
LEMMA InvokedIsRightful ==
    ASSUME Registers(Mounted), catalog \in Catalogs(Mounted),
           NEW grants \in SUBSET RuntimeCapability, NEW call \in HostCall,
           InvokeError(grants, call.name, call.params) = "ok"
    PROVE  Rightful(grants, Resolved(Mounted, catalog, call.name, call.params), call.name)
  <1>1. /\ MayInvoke(grants, call.name)
        /\ ResolveError(catalog, call.name, call.params) = "ok"
    BY DEF InvokeError
  <1>2. ProcSpawn \in grants \/ ToolGrant(call.name) \in grants
    BY <1>1, ExactGrants DEF MayInvoke
  <1>3. call.name # NoCommand
    BY LaunchAssumption
  <1> QED
    BY <1>1, <1>2, <1>3, ResolvedIsConfigured DEF Rightful

\* What is on its way to a child is rightful.
Commands ==
    \A j \in Job : launch[j].step # "idle" =>
        Rightful(Owner(j).grants, launch[j].command, launch[j].name)

\* What gets on its way to a child passed the checks that make it rightful.
LEMMA CommandsStep ==
    ASSUME LaunchInv, LaunchInv', Serving, Commands, [Next]_vars
    PROVE  Commands'
  <1> SUFFICES ASSUME NEW j \in Job, launch'[j].step # "idle"
               PROVE  Rightful(Owner(j).grants, launch[j].command, launch[j].name)'
    BY DEF Commands
  <1>0. ASSUME NEW grants, NEW command, NEW name, Rightful(grants, command, name)
        PROVE  Rightful(grants, command, name)'
    <2>1. args' = args
      BY DEF Next, vars, Serve, Open, Start, HostCalls, Apply, Spawn, ChildEnds, Vanish
    <2> QED
      BY <1>0, <2>1 DEF Rightful, IsCommandOf, IsExposedAs, Mounted
  <1>1. CASE /\ launch[j].step # "idle"
             /\ launch'[j].command = launch[j].command /\ launch'[j].name = launch[j].name
    <2>1. Accepted(j) /\ Rightful(Owner(j).grants, launch[j].command, launch[j].name)
      BY <1>1 DEF Commands, LaunchInv, Launches
    <2>2. Owner(j)' = Owner(j)
      BY <2>1, RequestStays
    <2>3. PICK grants, command, name :
             grants = Owner(j).grants /\ command = launch[j].command /\ name = launch[j].name
      OBVIOUS
    <2>4. Rightful(grants, command, name)'
      BY <1>0, <2>1, <2>3
    <2>5. grants = Owner(j)'.grants /\ command = launch'[j].command /\ name = launch'[j].name
      BY <1>1, <2>2, <2>3
    <2> QED
      BY <2>4, <2>5
  <1>2. ASSUME NEW s \in Session, NEW request \in StartRequest,
               StartError(s, request) = "ok", request.payload.kind # "code",
               job'[j].session = s, IsOpen(s),
               launch'[j] = Runnable(request.payload)
        PROVE  Rightful(Owner(j).grants, launch[j].command, launch[j].name)'
    <2>1. /\ Registers(Mounted) /\ catalog \in Catalogs(Mounted)
          /\ session[s].grants \in SUBSET RuntimeCapability
      BY <1>2, OwnerTyped DEF Serving
    <2>2. Owner(j)' = session[s]
      BY <1>2, SessionStays DEF Owner
    <2>3. PayloadError(request.payload, session[s].grants) = "ok"
      BY <1>2 DEF StartError
    <2>4. Rightful(session[s].grants, Runnable(request.payload).command,
                   Runnable(request.payload).name)
      <3>1. CASE request.payload.kind = "command"
        <4>1. ProcSpawn \in session[s].grants
          BY <2>1, <2>3, <3>1, ExactGrants DEF PayloadError
        <4> QED
          BY <3>1, <4>1 DEF Runnable, Rightful
      <3>2. CASE request.payload.kind # "command"
        <4>1. PICK call \in HostCall :
                 call.name = request.payload.name /\ call.params = request.payload.params
          BY <1>2, <3>2, LaunchAssumption
        <4>2. InvokeError(session[s].grants, call.name, call.params) = "ok"
          BY <1>2, <2>3, <3>2, <4>1 DEF PayloadError
        <4>3. /\ Runnable(request.payload).command =
                    Resolved(Mounted, catalog, call.name, call.params)
              /\ Runnable(request.payload).name = call.name
          BY <3>2, <4>1 DEF Runnable, Invocation
        <4> QED
          BY <2>1, <4>2, <4>3, InvokedIsRightful
      <3> QED
        BY <3>1, <3>2
    <2>5. PICK grants, command, name :
             /\ grants = session[s].grants
             /\ command = Runnable(request.payload).command
             /\ name = Runnable(request.payload).name
      OBVIOUS
    <2>6. Rightful(grants, command, name)'
      BY <1>0, <2>4, <2>5
    <2>7. grants = Owner(j)'.grants /\ command = launch'[j].command /\ name = launch'[j].name
      BY <1>2, <2>2, <2>5
    <2> QED
      BY <2>6, <2>7
  <1>3. ASSUME NEW call \in HostCall, j \in store,
               InvokeError(Owner(j).grants, call.name, call.params) = "ok",
               launch'[j] = Invocation(call.name, call.params)
        PROVE  Rightful(Owner(j).grants, launch[j].command, launch[j].name)'
    <2>1. Accepted(j) /\ IsOpen(job[j].session) /\ job[j].session \in Session
      BY <1>3, UnderWay
    <2>2. /\ Registers(Mounted) /\ catalog \in Catalogs(Mounted)
          /\ Owner(j).grants \in SUBSET RuntimeCapability
      BY <2>1, OwnerTyped DEF Serving, Owner
    <2>3. Owner(j)' = Owner(j)
      BY <2>1, RequestStays
    <2>4. Rightful(Owner(j).grants, Resolved(Mounted, catalog, call.name, call.params),
                   call.name)
      BY <1>3, <2>2, InvokedIsRightful
    <2>5. PICK grants, command, name :
             /\ grants = Owner(j).grants /\ name = call.name
             /\ command = Resolved(Mounted, catalog, call.name, call.params)
      OBVIOUS
    <2>6. Rightful(grants, command, name)'
      BY <1>0, <2>4, <2>5
    <2>7. grants = Owner(j)'.grants /\ command = launch'[j].command /\ name = launch'[j].name
      BY <1>3, <2>3, <2>5 DEF Invocation
    <2> QED
      BY <2>6, <2>7
  <1> QED
    BY <1>1, <1>2, <1>3, LaunchStep

\* What runs was granted, by proc.spawn or by the name it was invoked by, and is the
\* shell, or the built-in or the bridge that this name stands for (engine.rs, start,
\* step 2, and invoke_code_capability).
THEOREM RunsOnlyWhatWasGranted == Spec => []RunsWhatWasGranted
  <1>1. Init => Commands
    BY DEF Init, Commands, Idle
  <1>2. LaunchInv /\ LaunchInv' /\ Serving /\ Commands /\ [Next]_vars => Commands'
    BY CommandsStep
  <1>3. Commands => RunsWhatWasGranted
    <2> SUFFICES ASSUME Commands, NEW j \in Job, launch[j].step = "runs"
                 PROVE  Rightful(session[job[j].session].grants, launch[j].command,
                                 launch[j].name)
      BY DEF RunsWhatWasGranted, Child, Rightful, IsCommandOf
    <2> QED
      BY DEF Commands, Owner
  <1> QED
    BY <1>1, <1>2, <1>3, Invariant, ServingHolds, PTL DEF Spec

-----------------------------------------------------------------------------
(* How a child is confined *)

\* A file system of these paths.
IsFileSystem(files) ==
    /\ DOMAIN files = DOMAIN Files
    /\ \A path \in DOMAIN Files : files[path] \in Object
    /\ IsTree(files)

\* What is there now may have been there then, and there is nothing new.
Earlier(old) ==
    /\ IsFileSystem(old)
    /\ \A path \in DOMAIN Files : fs[path] \in {old[path], "absent"}

\* The child is confined as the file system was when the confinement was made.
Confined(j) ==
    \E old : /\ Earlier(old)
             /\ ApplyError(PolicyOf(j), kernel, old) = "ok"
             /\ launch[j].confinement = Confinement(PolicyOf(j), kernel, old)

\* What is known of the file system, of the directory that a job was accepted for,
\* and of the confinement of what is about to be a child.
Confinements ==
    /\ IsFileSystem(fs)
    /\ \A j \in Job :
          /\ Accepted(j) => StartsWith(job[j].request.cwd, Owner(j).root)
          /\ launch[j].step \in {"spawn", "runs"} => Confined(j)

\* What vanishes leaves a tree, and nothing appears.
LEMMA FileSystemStep ==
    ASSUME IsFileSystem(fs), [Next]_vars
    PROVE  /\ IsFileSystem(fs)'
           /\ \A path \in DOMAIN Files : fs'[path] \in {fs[path], "absent"}
           /\ kernel' = kernel
  <1>1. CASE fs' = fs /\ kernel' = kernel
    BY <1>1 DEF IsFileSystem, IsTree
  <1>2. ASSUME NEW gone \in MayVanish, Vanish(gone)
        PROVE  /\ IsFileSystem(fs)'
               /\ \A path \in DOMAIN Files : fs'[path] \in {fs[path], "absent"}
               /\ kernel' = kernel
    <2>1. /\ fs' = [p \in DOMAIN Files |-> IF StartsWith(p, gone) THEN "absent" ELSE fs[p]]
          /\ kernel' = kernel
      BY <1>2 DEF Vanish, IsFileSystem
    <2>2. /\ DOMAIN fs' = DOMAIN Files
          /\ \A path \in DOMAIN Files : fs'[path] \in {fs[path], "absent"}
          /\ \A path \in DOMAIN Files : fs'[path] \in Object
      BY <2>1 DEF IsFileSystem, Object
    <2>3. ASSUME NEW path \in DOMAIN Files, NEW base \in DOMAIN Files,
                 StartsWith(path, base), path # base, fs'[path] # "absent"
          PROVE  fs'[base] = "dir"
      <3>1. ~StartsWith(path, gone) /\ fs[path] # "absent"
        BY <2>1, <2>3
      <3>2. fs[base] = "dir"
        BY <2>3, <3>1 DEF IsFileSystem, IsTree
      <3>3. ~StartsWith(base, gone)
        BY <2>3, <3>1, LaunchAssumption, StartsWithTransitive
      <3> QED
        BY <2>1, <3>2, <3>3
    <2>4. IsTree(fs)'
      BY <2>2, <2>3 DEF IsTree
    <2> QED
      BY <2>1, <2>2, <2>4 DEF IsFileSystem
  <1> QED
    BY <1>1, <1>2 DEF Next, vars, Serve, Open, Start, HostCalls, Apply, Spawn, ChildEnds

\* A rule on what was there gives its rights on what is there now beneath it.
LEMMA RuleGives ==
    ASSUME NEW old, Earlier(old), NEW base \in DOMAIN Files, NEW path \in DOMAIN Files,
           StartsWith(path, base), NEW rights, NEW right \in Rights(path)
    PROVE  old[base] # "absent" /\ (right \in Rule(old, base, rights).rights <=> right \in rights)
  <1>1. old[path] = fs[path] /\ fs[path] # "absent"
    BY DEF Earlier, Rights
  <1>2. CASE base = path
    BY <1>1, <1>2 DEF Rule, Rights, Earlier, IsFileSystem, Object
  <1>3. CASE base # path
    <2>1. old[base] = "dir"
      BY <1>1, <1>3 DEF Earlier, IsFileSystem, IsTree
    <2> QED
      BY <2>1 DEF Rule
  <1> QED
    BY <1>2, <1>3

\* What a child that is confined may do is what its session was granted.
LEMMA ConfinedAsGranted ==
    ASSUME LaunchInv, Confinements, NEW s \in Session, IsOpen(s),
           NEW old, Earlier(old),
           session[s].tier = "kernel-lsm",
           ApplyError(SandboxPolicy(session[s].tier, session[s].root, session[s].grants),
                      kernel, old) = "ok",
           NEW confinement,
           confinement = Confinement(SandboxPolicy(session[s].tier, session[s].root,
                                                   session[s].grants), kernel, old)
    PROVE  /\ confinement.landlock /\ confinement.denied = SyscallFilter
           /\ \A path \in DOMAIN fs, right \in AccessFs :
                 right \in Rights(path) =>
                     (Allows(confinement, right, path) <=> Granted(s, right, path))
  <1> DEFINE grants == session[s].grants
             root == session[s].root
             readable == {root} \cup {g.arg : g \in {h \in grants : h.verb = "fs.read"}}
             writable == {g.arg : g \in {h \in grants : h.verb = "fs.write"}}
             policy == SandboxPolicy(session[s].tier, root, grants)
  <1>1. policy.tier = "kernel-lsm" /\ policy.fsRead = readable /\ policy.fsWrite = writable
    BY DEF SandboxPolicy
  <1>2. kernel.landlock
    BY <1>1 DEF ApplyError
  <1>3. /\ confinement.landlock /\ confinement.denied = SyscallFilter
        /\ confinement.rules = Ruleset(policy, old)
    BY <1>1, <1>2 DEF Confinement
  <1>4. readable \subseteq DOMAIN Files /\ writable \subseteq DOMAIN Files
    BY OwnerTyped
  <1>5. BaselineReadPath \subseteq DOMAIN Files /\ DOMAIN fs = DOMAIN Files
    BY LaunchAssumption DEF LaunchInv
  <1>6. ASSUME NEW path \in DOMAIN fs, NEW right \in AccessFs, right \in Rights(path)
        PROVE  Allows(confinement, right, path) <=> Granted(s, right, path)
    <2>1. SetPermits(grants \cup {FsRead(root)}, FsRead(path))
              <=> \E base \in readable : StartsWith(path, base)
      <3>1. SetPermits(grants, FsRead(path)) <=>
               \E g \in grants : g.verb = "fs.read" /\ StartsWith(path, g.arg)
        BY DEF SetPermits, Permits, FsRead
      <3>2. Permits(FsRead(root), FsRead(path)) <=> StartsWith(path, root)
        BY DEF Permits, FsRead
      <3>3. SetPermits(grants \cup {FsRead(root)}, FsRead(path)) <=>
               SetPermits(grants, FsRead(path)) \/ Permits(FsRead(root), FsRead(path))
        BY DEF SetPermits
      <3>4. (\E base \in readable : StartsWith(path, base)) <=>
               \/ StartsWith(path, root)
               \/ \E g \in grants : g.verb = "fs.read" /\ StartsWith(path, g.arg)
        OBVIOUS
      <3> QED
        BY <3>1, <3>2, <3>3, <3>4
    <2>2. SetPermits(grants, FsWrite(path)) <=> \E base \in writable : StartsWith(path, base)
      BY DEF SetPermits, Permits, FsWrite
    <2>3. Granted(s, right, path) <=>
             \/ right \in ReadRights /\ \E base \in readable : StartsWith(path, base)
             \/ right \in ReadRights /\ \E base \in BaselineReadPath : StartsWith(path, base)
             \/ right \in WriteRights /\ \E base \in writable : StartsWith(path, base)
      BY <2>1, <2>2 DEF Granted
    <2>4. Allows(confinement, right, path) <=>
             \E rule \in Ruleset(policy, old) :
                 right \in rule.rights /\ StartsWith(path, rule.path)
      BY <1>3 DEF Allows
    <2>5. \A base, rights : Rule(old, base, rights).path = base
      BY DEF Rule
    <2>6. \A rights : \A base \in DOMAIN Files : StartsWith(path, base) =>
             /\ old[base] # "absent"
             /\ right \in Rule(old, base, rights).rights <=> right \in rights
      BY <1>5, <1>6, RuleGives
    <2> HIDE DEF grants, root, readable, writable, policy
    <2>7. Ruleset(policy, old) =
             {Rule(old, p, ReadRights) : p \in {q \in BaselineReadPath : old[q] # "absent"}}
             \cup {Rule(old, p, ReadRights) : p \in readable}
             \cup {Rule(old, p, WriteRights) : p \in writable}
      BY <1>1 DEF Ruleset
    <2>8. ASSUME Granted(s, right, path) PROVE Allows(confinement, right, path)
      <3>1. CASE right \in ReadRights /\ \E base \in readable : StartsWith(path, base)
        BY <1>4, <2>4, <2>5, <2>6, <2>7, <3>1
      <3>2. CASE right \in ReadRights /\ \E base \in BaselineReadPath : StartsWith(path, base)
        BY <1>5, <2>4, <2>5, <2>6, <2>7, <3>2
      <3>3. CASE right \in WriteRights /\ \E base \in writable : StartsWith(path, base)
        BY <1>4, <2>4, <2>5, <2>6, <2>7, <3>3
      <3> QED
        BY <2>3, <2>8, <3>1, <3>2, <3>3
    <2>9. ASSUME Allows(confinement, right, path) PROVE Granted(s, right, path)
      <3>1. PICK rule \in Ruleset(policy, old) :
               right \in rule.rights /\ StartsWith(path, rule.path)
        BY <2>4, <2>9
      <3>2. PICK base, rights :
               /\ rule = Rule(old, base, rights)
               /\ \/ base \in BaselineReadPath \cup readable /\ rights = ReadRights
                  \/ base \in writable /\ rights = WriteRights
        BY <2>7
      <3>3. StartsWith(path, base) /\ right \in rights
        BY <1>4, <1>5, <2>5, <2>6, <3>1, <3>2
      <3> QED
        BY <2>3, <3>2, <3>3
    <2> QED
      BY <2>8, <2>9
  <1> QED
    BY <1>3, <1>6

\* The parts of the invariant hold at first, and from step to step.
LEMMA ConfinementsInit == Init => Confinements
  BY LaunchAssumption DEF Init, Confinements, IsFileSystem, Accepted, Idle

\* A confinement stays what it was made from.
LEMMA ConfinedStays ==
    ASSUME LaunchInv, Confinements, [Next]_vars, NEW j \in Job, Accepted(j), Confined(j),
           launch'[j].confinement = launch[j].confinement
    PROVE  Confined(j)'
  <1>1. PICK old : /\ Earlier(old)
                   /\ ApplyError(PolicyOf(j), kernel, old) = "ok"
                   /\ launch[j].confinement = Confinement(PolicyOf(j), kernel, old)
    BY DEF Confined
  <1>2. IsFileSystem(fs) /\ Owner(j)' = Owner(j)
    BY RequestStays DEF Confinements
  <1>3. kernel' = kernel /\ \A path \in DOMAIN Files : fs'[path] \in {fs[path], "absent"}
    BY <1>2, FileSystemStep
  <1>4. Earlier(old)'
    BY <1>1, <1>3 DEF Earlier
  <1>5. PolicyOf(j)' = PolicyOf(j)
    BY <1>2 DEF PolicyOf
  <1> QED
    BY <1>1, <1>3, <1>4, <1>5 DEF Confined

\* What a step leaves confined was confined, or is confined by it.
LEMMA ConfinementsStep ==
    ASSUME LaunchInv, Confinements, [Next]_vars
    PROVE  Confinements'
  <1>1. IsFileSystem(fs)'
    BY FileSystemStep DEF Confinements
  <1>2. ASSUME NEW j \in Job, Accepted(j)'
        PROVE  StartsWith(job[j].request.cwd, Owner(j).root)'
    <2>1. CASE Accepted(j)
      <3>1. StartsWith(job[j].request.cwd, Owner(j).root)
        BY <2>1 DEF Confinements
      <3>2. job'[j].request = job[j].request /\ Owner(j)' = Owner(j)
        BY <2>1, RequestStays
      <3> QED
        BY <3>1, <3>2
    <2>2. CASE ~Accepted(j)
      <3>1. PICK s \in Session, request \in StartRequest : Start(j, s, request)
        <4>1. job'[j] # job[j]
          BY <1>2, <2>2 DEF Accepted
        <4>2. launch[j] = Idle /\ j \notin store
          BY <2>2, UnderWay DEF LaunchInv, Launches
        <4> QED
          BY <4>1, <4>2, JobStep DEF HostCalls, Apply, Spawn, ChildEnds, Idle
      <3>2. ~StartRefuses(j, s, request)
        <4>1. SUFFICES ASSUME StartRefuses(j, s, request) PROVE FALSE
          OBVIOUS
        <4>2. job'[j].answer = Code(StartError(s, request))
          BY <4>1 DEF StartRefuses, Refused, LaunchInv, Jobs
        <4> QED
          BY <1>2, <4>2, CodeIsError DEF Accepted
      <3>3. job'[j] # Refused(s, request, "JobSpawn")
        BY <1>2, CodeIsError DEF Accepted, Refused
      <3>4. DOMAIN job = Job
        BY DEF LaunchInv, Jobs
      <3>5. /\ StartError(s, request) = "ok" /\ IsOpen(s)
            /\ job'[j].session = s /\ job'[j].request = request
        BY <3>1, <3>2, <3>3, <3>4 DEF Start, StartCode, StartCommand, IsOpen
      <3>6. StartsWith(request.cwd, session[s].root)
        BY <3>5 DEF StartError, CwdOk
      <3>7. Owner(j)' = session[s]
        BY <3>5, SessionStays DEF Owner
      <3> QED
        BY <3>5, <3>6, <3>7
    <2> QED
      BY <2>1, <2>2
  <1>3. ASSUME NEW j \in Job, launch'[j].step \in {"spawn", "runs"} PROVE Confined(j)'
    <2>1. DOMAIN launch = Job
      BY DEF LaunchInv, Launches
    <2>2. CASE /\ launch[j].step \in {"spawn", "runs"}
               /\ launch'[j].confinement = launch[j].confinement
      <3>1. Accepted(j) /\ Confined(j)
        BY <2>2, UnderWay DEF Confinements
      <3> QED
        BY <2>2, <3>1, ConfinedStays
    <2>3. ~\E error : Fail(j, error)
      BY <1>3, <2>1 DEF Fail, Idle
    <2>4. CASE Apply(j)
      <3>1. /\ ApplyError(PolicyOf(j), kernel, fs) = "ok" /\ launch[j].step = "apply"
            /\ launch' = [launch EXCEPT ![j] =
                 [step |-> "spawn", command |-> @.command, name |-> @.name,
                  confinement |-> Confinement(PolicyOf(j), kernel, fs)]]
            /\ fs' = fs /\ kernel' = kernel /\ session' = session /\ job' = job
        BY <2>3, <2>4 DEF Apply
      <3>2. launch'[j].confinement = Confinement(PolicyOf(j), kernel, fs)
        BY <2>1, <3>1
      <3>3. Earlier(fs)'
        BY <1>1 DEF Earlier
      <3>4. PolicyOf(j)' = PolicyOf(j)
        BY <3>1 DEF PolicyOf, Owner
      <3> QED
        BY <3>1, <3>2, <3>3, <3>4 DEF Confined
    <2>5. CASE Spawn(j)
      <3>1. launch[j].step = "spawn" /\ launch' = [launch EXCEPT ![j].step = "runs"]
        BY <2>3, <2>5 DEF Spawn
      <3>2. launch'[j].confinement = launch[j].confinement
        BY <2>1, <3>1
      <3> QED
        BY <2>2, <3>1, <3>2
    <2>6. CASE launch'[j] = launch[j]
      BY <1>3, <2>2, <2>6
    <2>7. CASE ChildEnds(j)
      BY <1>3, <2>1, <2>7 DEF ChildEnds, Idle
    <2>8. ASSUME NEW call \in HostCall, HostCalls(j, call) PROVE FALSE
      BY <1>3, <2>1, <2>8 DEF HostCalls, Invocation
    <2>9. ASSUME NEW s \in Session, NEW request \in StartRequest, Start(j, s, request)
          PROVE  launch'[j] = launch[j]
      BY <1>3, <2>1, <2>9 DEF Start, StartRefuses, StartCode, StartCommand, Runnable, Invocation
    <2> QED
      BY <2>4, <2>5, <2>6, <2>7, <2>8, <2>9, JobStep
  <1> QED
    BY <1>1, <1>2, <1>3 DEF Confinements

\* A child, of a job or of a host call, runs under the tier its client was told, in the
\* workspace, with no confinement or with what the session's grants permit: no more, and
\* no less if its job did not ask for capabilities of its own, whatever vanished since it
\* was confined (policy.rs, apply; engine.rs, build_sandbox_policy).
THEOREM ChildrenAreConfined == Spec => []ChildIsConfined
  <1>1. LaunchInv /\ Confinements => ChildIsConfined
    <2> SUFFICES ASSUME LaunchInv, Confinements, NEW j \in Job, launch[j].step = "runs"
                 PROVE  LET s == job[j].session
                            confinement == launch[j].confinement
                        IN /\ StartsWith(job[j].request.cwd, session[s].root)
                           /\ \/ /\ session[s].grantedTier = "dev-none"
                                 /\ ~confinement.landlock
                              \/ /\ session[s].grantedTier = "kernel-lsm"
                                 /\ confinement.landlock
                                 /\ confinement.denied = SyscallFilter
                                 /\ \A path \in DOMAIN fs, right \in AccessFs :
                                       right \in Rights(path) =>
                                           (Allows(confinement, right, path)
                                                <=> Granted(s, right, path))
      BY DEF ChildIsConfined, Child
    <2>1. Accepted(j) /\ IsOpen(job[j].session) /\ job[j].session \in Session
      BY UnderWay
    <2>2. PICK s \in Session : s = job[j].session
      BY <2>1
    <2>3. StartsWith(job[j].request.cwd, session[s].root) /\ Confined(j)
      BY <2>1, <2>2 DEF Confinements, Owner
    <2>4. PICK old : /\ Earlier(old)
                     /\ ApplyError(PolicyOf(j), kernel, old) = "ok"
                     /\ launch[j].confinement = Confinement(PolicyOf(j), kernel, old)
      BY <2>3 DEF Confined
    <2>5. PolicyOf(j) = SandboxPolicy(session[s].tier, session[s].root, session[s].grants)
      BY <2>2 DEF PolicyOf, Owner
    <2>6. PolicyOf(j).tier = session[s].tier /\ session[s].grantedTier = session[s].tier
      BY <2>1, <2>2, <2>5, OwnerTyped DEF SandboxPolicy
    <2>7. CASE session[s].tier = "dev-none"
      <3>1. ~launch[j].confinement.landlock
        BY <2>4, <2>6, <2>7 DEF Confinement
      <3> QED
        BY <2>2, <2>3, <2>6, <2>7, <3>1
    <2>8. CASE session[s].tier # "dev-none"
      <3>1. session[s].tier = "kernel-lsm"
        BY <2>4, <2>6, <2>8 DEF ApplyError
      <3>2. PICK confinement : confinement = launch[j].confinement
        OBVIOUS
      <3>3. /\ confinement.landlock /\ confinement.denied = SyscallFilter
            /\ \A path \in DOMAIN fs, right \in AccessFs :
                  right \in Rights(path) =>
                      (Allows(confinement, right, path) <=> Granted(s, right, path))
        BY <2>1, <2>2, <2>4, <2>5, <3>1, <3>2, ConfinedAsGranted
      <3> QED
        BY <2>2, <2>3, <2>6, <3>1, <3>2, <3>3
    <2> QED
      BY <2>7, <2>8
  <1> QED
    BY <1>1, ConfinementsInit, ConfinementsStep, Invariant, PTL DEF Spec

=============================================================================
