------------------------------ MODULE Sandbox ------------------------------
(***************************************************************************)
(* What a child process may do: the policy the runtime makes of a          *)
(* session's grants (axp-core/src/job/engine.rs, build_sandbox_policy), and *)
(* what applying it installs (axp-sandbox/src/policy.rs, linux.rs,         *)
(* seccomp.rs, probe.rs).                                                  *)
(*                                                                         *)
(* The file system is a function from paths to what is there; the kernel   *)
(* says whether it has Landlock and whether seccompiler knows the machine. *)
(* A Landlock rule is a path with the rights it gives on everything        *)
(* beneath; the rule names the object that was opened, and objects only    *)
(* vanish here, so the path stands for it.  The network and spawn flags of *)
(* a policy are advisory: neither hook reads them.                         *)
(***************************************************************************)
EXTENDS Capability, FiniteSets

CONSTANT BaselineReadPath   \* /usr, /bin, ...: BASELINE_READ_PATHS

EnforcementTier == {"dev-none", "kernel-lsm", "container", "process-token"}
Kernel == [landlock : BOOLEAN, knownArch : BOOLEAN]

\* What can be at a path, and what can be done there.
Object == {"dir", "file", "absent"}
AccessFs == {"execute", "read_file", "read_dir", "write_file", "make"}

ReadRights == {"execute", "read_file", "read_dir"}
WriteRights == {"write_file", "make"}
FileRights == {"execute", "read_file", "write_file"}

SyscallFilter == {"ptrace", "process_vm", "io_uring"}

-----------------------------------------------------------------------------
(* The policy *)

\* build_sandbox_policy: the workspace is always readable.
SandboxPolicy(tier, root, grants) ==
    [tier |-> tier,
     fsRead |-> {root} \cup {g.arg : g \in {h \in grants : h.verb = "fs.read"}},
     fsWrite |-> {g.arg : g \in {h \in grants : h.verb = "fs.write"}}]

-----------------------------------------------------------------------------
(* apply *)

\* add_path_rule: rights on directories are dropped where there is none.
Rule(fs, path, rights) ==
    [path |-> path, rights |-> IF fs[path] = "dir" THEN rights ELSE rights \cap FileRights]

\* The ruleset of enforce: a baseline path that is missing is skipped.
Ruleset(policy, fs) ==
    {Rule(fs, path, ReadRights) : path \in {p \in BaselineReadPath : fs[p] # "absent"}}
    \cup {Rule(fs, path, ReadRights) : path \in policy.fsRead}
    \cup {Rule(fs, path, WriteRights) : path \in policy.fsWrite}

\* A policy path that cannot be opened makes enforce fail.
CanOpen(policy, fs) == \A path \in policy.fsRead \cup policy.fsWrite : fs[path] # "absent"

\* Mutant of ApplyError: a kernel without Landlock runs the child as it is.
ApplyErrorDowngrades(policy, kernel, fs) ==
    IF policy.tier \in {"container", "process-token"} THEN "SandboxUnavailable"
    ELSE IF policy.tier = "kernel-lsm" /\ kernel.landlock
            /\ (~CanOpen(policy, fs) \/ ~kernel.knownArch)
    THEN "SandboxApply" ELSE "ok"

\* SandboxPolicy::apply, enforce and seccomp::apply: the error, if there is one.
ApplyError(policy, kernel, fs) ==
    IF policy.tier = "dev-none" THEN "ok"
    ELSE IF policy.tier # "kernel-lsm" \/ ~kernel.landlock THEN "SandboxUnavailable"
    ELSE IF ~CanOpen(policy, fs) \/ ~kernel.knownArch THEN "SandboxApply"
    ELSE "ok"

\* What the hooks install in the child: no rule and no filter without a hook.
Confinement(policy, kernel, fs) ==
    IF policy.tier = "kernel-lsm" /\ kernel.landlock
    THEN [landlock |-> TRUE, rules |-> Ruleset(policy, fs), denied |-> SyscallFilter]
    ELSE [landlock |-> FALSE, rules |-> {}, denied |-> {}]

\* What the kernel lets a confined process do.
Allows(confinement, right, path) ==
    confinement.landlock =>
        \E rule \in confinement.rules : right \in rule.rights /\ StartsWith(path, rule.path)

=============================================================================
