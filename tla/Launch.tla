------------------------------- MODULE Launch -------------------------------
(***************************************************************************)
(* From the command line of `axp serve` to a child process: what is        *)
(* mounted, what a session is granted, and every check and every failure   *)
(* between job.start (or a host call of a code job) and the running child  *)
(* (axp-core/src/job/engine.rs, start, start_code_job,                     *)
(* invoke_code_capability; store.rs, resolve_cwd; workspace.rs;            *)
(* axp-transport/src/handlers.rs, session_open, job_start).                *)
(*                                                                         *)
(* Directories may vanish at any time, so that what resolve_cwd, apply and *)
(* spawn look at differs.  They do not come back, and nothing is moved.    *)
(* Sessions stay open here, and jobs are not cancelled: Requests and       *)
(* JobEngine have that.                                                    *)
(***************************************************************************)
EXTENDS Sandbox, Mount

CONSTANTS
    Session, Job,
    ServeArgs,      \* command lines of axp serve
    OpenRequest,    \* [workspace, capabilities, tier], a path and a set of Wire
    StartRequest,   \* [payload, cwd, capabilities]
    HostCall,       \* [name, params], what can be invoked
    Files,          \* the file system at first: a function from paths to objects
    MayVanish,      \* the paths that may vanish, with all beneath
    located,        \* where each program is
    NoSession, NoJob, NoCommand

\* What session_open stores for a request that it accepts: the tier asked for is the
\* tier granted.
Opened(request) ==
    [answer |-> "ok", root |-> request.workspace, tier |-> request.tier,
     grants |-> FromWire(request.capabilities), grantedTier |-> request.tier]

\* What is beneath a path is there only while the path is a directory.
IsTree(files) ==
    \A path, base \in DOMAIN files :
        StartsWith(path, base) /\ path # base /\ files[path] # "absent" => files[base] = "dir"

\* The paths that a request to open a session names.
PathsOf(request) ==
    {request.workspace}
    \cup {wire.arg : wire \in {w \in request.capabilities :
                                w.form \in {"fs.read", "fs.write"} /\ Parses(w)}}

ASSUME LaunchAssumption ==
    /\ BaselineReadPath \cup MayVanish \subseteq DOMAIN Files
    /\ DOMAIN Files \subseteq Path
    /\ \A path \in DOMAIN Files : Files[path] \in Object
    /\ IsTree(Files)
    /\ BuiltinName \subseteq Tool
    /\ \A request \in OpenRequest \cup StartRequest : request.capabilities \subseteq Wire
    /\ \A request \in OpenRequest :
          Opened(request) # NoSession /\ PathsOf(request) \subseteq DOMAIN Files
    /\ \A request \in StartRequest : request.payload.kind \notin {"command", "code"} =>
          [name |-> request.payload.name, params |-> request.payload.params] \in HostCall
    /\ \A call \in HostCall : call.name # NoCommand
    /\ \A line \in ServeArgs : line.config \notin {NotGiven, Unreadable} =>
          line.config.tools \in Seq({line.config.tools[i] : i \in DOMAIN line.config.tools})
    /\ NoJob \notin [session : Session, request : StartRequest, answer : {"none", "ok"}]

VARIABLES
    args,       \* the arguments of axp serve
    server,     \* "starting", "serving", or "failed"
    catalog,    \* the registry's catalog, what a server offers
    kernel,
    fs,
    session,    \* what session.open stored, and the answer
    job,        \* the request of each job.start and its answer
    store,      \* the ids in the JobStore
    launch      \* per job: the command on its way to a child, and the child

vars == <<args, server, catalog, kernel, fs, session, job, store, launch>>

Mounted == MountOf(args)

Idle == [step |-> "idle"]

Init ==
    /\ args \in ServeArgs
    /\ server = "starting"
    /\ catalog = {}
    /\ kernel \in Kernel
    /\ fs = Files
    /\ session = [s \in Session |-> NoSession]
    /\ job = [j \in Job |-> NoJob]
    /\ store = {}
    /\ launch = [j \in Job |-> Idle]

\* to_jsonrpc_error.
Code(error) ==
    IF error \in {"SessionNotFound", "JobNotFound", "CapabilityNotFound"} THEN "NOT_FOUND"
    ELSE IF error = "CapabilityDenied" THEN "DENIED"
    ELSE IF error \in {"InvalidWorkspace", "CapabilityParse", "WorkspaceViolation"}
    THEN "INVALID_PARAMS"
    ELSE "INTERNAL_ERROR"

\* serve: a bad command line, file or description ends the process, as does an
\* address that is taken.
Serve ==
    /\ server = "starting"
    /\ \/ /\ GoodArgs(args) /\ Registers(Mounted)
          /\ server' = "serving"
          /\ catalog' \in Catalogs(Mounted)
       \/ server' = "failed" /\ UNCHANGED catalog
    /\ UNCHANGED <<args, kernel, fs, session, job, store, launch>>

-----------------------------------------------------------------------------
(* session.open *)

\* Workspace::new and CapabilitySet::from_wire: the error, if there is one.
OpenError(request) ==
    IF fs[request.workspace] = "absent" THEN "InvalidWorkspace"
    ELSE IF ~FromWireOk(request.capabilities) THEN "CapabilityParse"
    ELSE "ok"

\* session_open.
Open(s, request) ==
    /\ server = "serving"
    /\ session[s] = NoSession
    /\ session' = [session EXCEPT ![s] =
         IF OpenError(request) = "ok" THEN Opened(request)
         ELSE [answer |-> Code(OpenError(request))]]
    /\ UNCHANGED <<args, server, catalog, kernel, fs, job, store, launch>>

-----------------------------------------------------------------------------
(* start *)

ShellCommand == [program |-> "sh", args |-> <<"-c", "command">>]

\* The grant that lets one invoke name: its own, or that to spawn anything.
MayInvoke(grants, name) ==
    SetPermits(grants, ToolGrant(name)) \/ SetPermits(grants, ProcSpawn)

\* Mutant of InvokeError: a name that resolves may be invoked.
InvokeErrorUnchecked(grants, name, params) == ResolveError(catalog, name, params)

\* The checks on a capability, of start and of invoke_code_capability.
InvokeError(grants, name, params) ==
    IF ~MayInvoke(grants, name) THEN "CapabilityDenied"
    ELSE ResolveError(catalog, name, params)

\* Step 2 of start: what the payload needs.
PayloadError(payload, grants) ==
    IF payload.kind = "command"
    THEN IF SetPermits(grants, ProcSpawn) THEN "ok" ELSE "CapabilityDenied"
    ELSE IF payload.kind = "code"
    THEN IF payload.good THEN "ok" ELSE "InvalidCodePayload"
    ELSE InvokeError(grants, payload.name, payload.params)

\* resolve_cwd: cwd is the path with links and ".." resolved.
CwdOk(cwd, root) == fs[cwd] # "absent" /\ StartsWith(cwd, root)

\* Mutant of CapabilitiesError: it is enough to have a grant of that verb.
CapabilitiesErrorVerbOnly(wires, grants) ==
    IF \E wire \in wires : ~Parses(wire) THEN "CapabilityParse"
    ELSE IF \E wire \in wires : \A grant \in grants : grant.verb # Parse(wire).verb
    THEN "CapabilityDenied" ELSE "ok"

\* validate_job_capabilities; which of two bad ones it meets first is left out.
CapabilitiesError(wires, grants) ==
    IF \E wire \in wires : ~Parses(wire) THEN "CapabilityParse"
    ELSE IF \E wire \in wires : ~SetPermits(grants, Parse(wire)) THEN "CapabilityDenied"
    ELSE "ok"

\* All that start checks before it touches the system, in its order.
StartError(s, request) ==
    LET payload == PayloadError(request.payload, session[s].grants)
    IN IF payload # "ok" THEN payload
       ELSE IF ~CwdOk(request.cwd, session[s].root) THEN "WorkspaceViolation"
       ELSE CapabilitiesError(request.capabilities, session[s].grants)

Refused(s, request, error) ==
    [session |-> s, request |-> request, answer |-> Code(error)]

StartRefuses(j, s, request) ==
    /\ StartError(s, request) # "ok"
    /\ job' = [job EXCEPT ![j] = Refused(s, request, StartError(s, request))]
    /\ UNCHANGED <<store, launch>>

\* start_code_job: the runner is built and the job is there, or building it fails.
StartCode(j, s, request) ==
    /\ StartError(s, request) = "ok"
    /\ request.payload.kind = "code"
    /\ \/ /\ job' = [job EXCEPT ![j] = [session |-> s, request |-> request, answer |-> "ok"]]
          /\ store' = store \cup {j}
       \/ /\ job' = [job EXCEPT ![j] = Refused(s, request, "JobSpawn")]
          /\ UNCHANGED store
    /\ UNCHANGED launch

\* A command to be launched for a capability, called by that name.
Invocation(name, params) ==
    [step |-> "apply", command |-> Resolved(Mounted, catalog, name, params), name |-> name]

Runnable(payload) ==
    IF payload.kind = "command"
    THEN [step |-> "apply", command |-> ShellCommand, name |-> NoCommand]
    ELSE Invocation(payload.name, payload.params)

\* Mutant of StartCommand: the job is inserted with the request.
StartCommandInserts(j, s, request) ==
    /\ StartError(s, request) = "ok"
    /\ request.payload.kind # "code"
    /\ job' = [job EXCEPT ![j] = [session |-> s, request |-> request, answer |-> "none"]]
    /\ launch' = [launch EXCEPT ![j] = Runnable(request.payload)]
    /\ store' = store \cup {j}

\* Steps 2 to 5 of start, for a command or a capability.
StartCommand(j, s, request) ==
    /\ StartError(s, request) = "ok"
    /\ request.payload.kind # "code"
    /\ job' = [job EXCEPT ![j] = [session |-> s, request |-> request, answer |-> "none"]]
    /\ launch' = [launch EXCEPT ![j] = Runnable(request.payload)]
    /\ UNCHANGED store

\* job.start.
Start(j, s, request) ==
    /\ session[s] # NoSession /\ session[s].answer = "ok"
    /\ job[j] = NoJob
    /\ \/ StartRefuses(j, s, request)
       \/ StartCode(j, s, request)
       \/ StartCommand(j, s, request)
    /\ UNCHANGED <<args, server, catalog, kernel, fs, session>>

\* A component of a running code job invokes a capability.  A refusal is an error
\* for the component, and leaves nothing.
HostCalls(j, call) ==
    /\ j \in store
    /\ job[j].request.payload.kind = "code"
    /\ launch[j] = Idle
    /\ InvokeError(session[job[j].session].grants, call.name, call.params) = "ok"
    /\ launch' = [launch EXCEPT ![j] = Invocation(call.name, call.params)]
    /\ UNCHANGED <<args, server, catalog, kernel, fs, session, job, store>>

-----------------------------------------------------------------------------
(* apply and spawn *)

\* The snapshot of the session that start and the host calls work with.
Owner(j) == session[job[j].session]
PolicyOf(j) == SandboxPolicy(Owner(j).tier, Owner(j).root, Owner(j).grants)

\* start returns an error; a host call returns it to the component.
Fail(j, error) ==
    /\ launch' = [launch EXCEPT ![j] = Idle]
    /\ job' = IF job[j].answer = "none"
              THEN [job EXCEPT ![j].answer = Code(error)] ELSE job
    /\ UNCHANGED store

\* Step 6 of start, and its like in run_resolved_command.
Apply(j) ==
    LET error == ApplyError(PolicyOf(j), kernel, fs)
    IN /\ launch[j].step = "apply"
       /\ \/ error # "ok" /\ Fail(j, error)
          \/ /\ error = "ok"
             /\ launch' = [launch EXCEPT ![j] =
                  [step |-> "spawn", command |-> @.command, name |-> @.name,
                   confinement |-> Confinement(PolicyOf(j), kernel, fs)]]
             /\ UNCHANGED <<job, store>>
       /\ UNCHANGED <<args, server, catalog, kernel, fs, session>>

\* chdir, the hooks, exec: exec itself needs the right to execute the program.
CanSpawn(j) ==
    LET program == located[launch[j].command.program]
    IN /\ fs[job[j].request.cwd] = "dir"
       /\ fs[program] = "file"
       /\ Allows(launch[j].confinement, "execute", program)

\* Step 7 to 9 of start: the job is made only for a child that runs.
Spawn(j) ==
    /\ launch[j].step = "spawn"
    /\ \/ ~CanSpawn(j) /\ Fail(j, "JobSpawn")
       \/ /\ CanSpawn(j)
          /\ launch' = [launch EXCEPT ![j].step = "runs"]
          /\ job' = [job EXCEPT ![j].answer = "ok"]
          /\ store' = store \cup {j}
    /\ UNCHANGED <<args, server, catalog, kernel, fs, session>>

\* The child of a host call ends, and the component goes on.
ChildEnds(j) ==
    /\ launch[j].step = "runs"
    /\ job[j].request.payload.kind = "code"
    /\ launch' = [launch EXCEPT ![j] = Idle]
    /\ UNCHANGED <<args, server, catalog, kernel, fs, session, job, store>>

\* A directory is removed, with what it holds.
Vanish(path) ==
    /\ fs[path] # "absent"
    /\ fs' = [p \in DOMAIN fs |-> IF StartsWith(p, path) THEN "absent" ELSE fs[p]]
    /\ UNCHANGED <<args, server, catalog, kernel, session, job, store, launch>>

Next ==
    \/ Serve
    \/ \E s \in Session, request \in OpenRequest : Open(s, request)
    \/ \E j \in Job, s \in Session, request \in StartRequest : Start(j, s, request)
    \/ \E j \in Job, call \in HostCall : HostCalls(j, call)
    \/ \E j \in Job : Apply(j) \/ Spawn(j) \/ ChildEnds(j)
    \/ \E path \in MayVanish : Vanish(path)

Spec == Init /\ [][Next]_vars

-----------------------------------------------------------------------------
(* Properties *)

Child(j) == launch[j].step = "runs"

\* What can be done with what is at the path.
Rights(path) ==
    IF fs[path] = "dir" THEN {"read_dir", "make"}
    ELSE IF fs[path] = "file" THEN FileRights ELSE {}

\* The grants of a session say that its children may do this.
Granted(s, right, path) ==
    \/ right \in ReadRights /\ SetPermits(session[s].grants \cup {FsRead(session[s].root)},
                                          FsRead(path))
    \/ right \in ReadRights /\ \E base \in BaselineReadPath : StartsWith(path, base)
    \/ right \in WriteRights /\ SetPermits(session[s].grants, FsWrite(path))

\* A child, of a job or of a host call, runs under the tier its client was told, in
\* the workspace: with no confinement, or with what the session's grants permit and no
\* more, and no less if its job did not ask for capabilities of its own (policy.rs,
\* apply: "it does NOT silently no-op, which would be false security"; engine.rs,
\* build_sandbox_policy).
ChildIsConfined ==
    \A j \in Job : Child(j) =>
        LET s == job[j].session
            confinement == launch[j].confinement
        IN /\ StartsWith(job[j].request.cwd, session[s].root)
           /\ \/ session[s].grantedTier = "dev-none" /\ ~confinement.landlock
              \/ /\ session[s].grantedTier = "kernel-lsm" /\ confinement.landlock
                 /\ confinement.denied = SyscallFilter
                 /\ \A path \in DOMAIN fs, right \in AccessFs :
                       right \in Rights(path) =>
                           /\ Allows(confinement, right, path) => Granted(s, right, path)
                           /\ job[j].request.capabilities = {} /\ Granted(s, right, path)
                                 => Allows(confinement, right, path)

\* The provider's local name is exposed as name (docs/MCP-MOUNTS.md, "Name
\* collisions").
IsExposedAs(provider, local, name) ==
    name = IF local \in BuiltinName \cap MountedName(Mounted)
           THEN <<provider>> \o local ELSE local

\* What runs was granted, by proc.spawn or by the very name it was invoked by, and is
\* the shell, the built-in of that name, or the bridge with the provider and the tool
\* that were mounted under it (engine.rs, start, step 2; docs/MCP-MOUNTS.md, "How a
\* call runs").
RunsWhatWasGranted ==
    \A j \in Job : Child(j) =>
        LET grants == session[job[j].session].grants
            command == launch[j].command
            name == launch[j].name
        IN \/ name = NoCommand /\ ProcSpawn \in grants /\ command = ShellCommand
           \/ /\ name # NoCommand
              /\ ProcSpawn \in grants \/ ToolGrant(name) \in grants
              /\ \/ \E i \in DOMAIN BuiltinCommand :
                       /\ IsExposedAs(Builtin, BuiltinCommand[i].name, name)
                       /\ command.program = BuiltinCommand[i].program
                 \/ \E i \in DOMAIN Mounted.tools :
                       /\ IsExposedAs(Mounted.provider, Mounted.tools[i].name, name)
                       /\ command.program = Mounted.program
                       /\ \E params \in {call.params : call \in HostCall} :
                             command.args = Mounted.args \o
                                 <<"--provider", Mounted.provider, "--tool",
                                   Mounted.tools[i].name, "--params", params>>

\* A job is in the store exactly if its client was told that it started, and nothing
\* runs for one that is not (engine.rs, start: "a job exists iff it started").
JobExistsIffItStarted ==
    \A j \in Job :
        /\ j \in store <=> job[j] # NoJob /\ job[j].answer = "ok"
        /\ Child(j) => j \in store
        /\ job[j] # NoJob /\ job[j].answer \notin {"none", "ok"} => launch[j] = Idle

\* What can be asked of grants about the paths, names and verbs of this system.
Use ==
    {FsRead(path) : path \in DOMAIN fs} \cup {FsWrite(path) : path \in DOMAIN fs}
    \cup {ProcSpawn, PtyOpen} \cup {ToolGrant(name) : name \in BuiltinName}

\* What a started job asked for is within what its session has (engine.rs,
\* validate_job_capabilities).
JobGrantsAreWithin ==
    \A j \in store : \A use \in Use :
        SetPermits(FromWire(job[j].request.capabilities), use)
            => SetPermits(session[job[j].session].grants, use)

=============================================================================
