------------------------------- MODULE Mount -------------------------------
(***************************************************************************)
(* What `axp serve` offers: the mount its arguments ask for                *)
(* (axp-cli/src/lib.rs, mcp_config.rs), the two providers it registers     *)
(* (axp-transport/src/state.rs, axp-core/src/builtins.rs, mcp.rs), and the *)
(* command an invocation resolves to (provider.rs, mcp.rs, registry.rs).   *)
(*                                                                         *)
(* A name is the sequence of its parts between colons, so that             *)
(* <provider>:<local> is <<provider>> \o local.  A description is its      *)
(* trimmed length, the name it echoes if it is nothing else, and whether   *)
(* the trimmed text has a line break.  Parameters are a function from the  *)
(* fields with a string value to that value.  Registry has registration    *)
(* step by step and for any number of providers.                           *)
(***************************************************************************)
EXTENDS Capability

CONSTANTS
    NotGiven,   \* an argument that was not given
    Unreadable, \* a file that is missing or is not JSON of the right shape
    Blank       \* texts that are empty when trimmed

DescMinLen == 10
DescMaxLen == 120

Builtin == "native"

NoMount == [tools |-> <<>>]

-----------------------------------------------------------------------------
(* mcp_mount *)

BlankName(name) == Len(name) = 1 /\ name[1] \in Blank

DistinctNames(tools) ==
    \A i, j \in DOMAIN tools : tools[i].name = tools[j].name => i = j

\* load and McpConfigFile::into_mount accept the file.
GoodConfig(file) ==
    /\ file # Unreadable
    /\ {file.provider, file.program} \cap Blank = {}
    /\ file.tools # <<>>
    /\ \A i \in DOMAIN file.tools :
          ~BlankName(file.tools[i].name) /\ file.tools[i].desc.length > 0
    /\ DistinctNames(file.tools)

Flag == {"provider", "tool", "desc", "bridge"}
FlagsOf(args) == {flag \in Flag : args[flag] # NotGiven}

\* mcp_mount does not return an error.
GoodArgs(args) ==
    IF args.config # NotGiven
    THEN FlagsOf(args) = {} /\ GoodConfig(args.config)
    ELSE FlagsOf(args) \in {{}, Flag}

\* The mount of arguments it accepts; the flags name one tool, called by "call".
MountOf(args) ==
    IF args.config # NotGiven THEN args.config
    ELSE IF args.provider = NotGiven THEN NoMount
    ELSE [provider |-> args.provider, program |-> args.bridge, args |-> <<"call">>,
          tools |-> <<[name |-> args.tool, desc |-> args.desc]>>]

-----------------------------------------------------------------------------
(* with_mcp_tools: two providers and their registration *)

\* native_provider.
BuiltinCommand ==
    << [name |-> <<"git_diff">>, program |-> "git", template |-> <<"diff">>, param |-> {}],
       [name |-> <<"git_log">>, program |-> "git", template |-> <<"log", "--oneline", "-20">>,
        param |-> {}],
       [name |-> <<"read_file">>, program |-> "cat", template |-> <<>>, param |-> {"path"}] >>

BuiltinName == {BuiltinCommand[i].name : i \in DOMAIN BuiltinCommand}

MountedName(mount) == {mount.tools[i].name : i \in DOMAIN mount.tools}

\* check_description_quality.
GoodDescription(tool) ==
    /\ tool.desc.length \in DescMinLen..DescMaxLen
    /\ tool.desc.echoes # tool.name
    /\ ~tool.desc.broken

\* McpToolProvider::new and register succeed after builtin_registry.
Registers(mount) ==
    mount # NoMount =>
        /\ DistinctNames(mount.tools)
        /\ mount.provider # Builtin
        /\ \A i \in DOMAIN mount.tools : GoodDescription(mount.tools[i])

\* The owner and the local name of each exposed name.
Builtins(names) == {[exposed |-> n, provider |-> Builtin, local |-> n] : n \in names}
Qualified(provider, names) ==
    {[exposed |-> <<provider>> \o n, provider |-> provider, local |-> n] : n \in names}

\* What is put into the catalog: a name both have is qualified for both.
Claims(mount) ==
    LET mounted == MountedName(mount)
        shared == mounted \cap BuiltinName
    IN Builtins(BuiltinName \ shared)
       \cup Qualified(Builtin, shared)
       \cup {[exposed |-> n, provider |-> mount.provider, local |-> n] : n \in mounted \ shared}
       \cup Qualified(mount.provider, shared)

\* The registry's catalogs: of two entries put under one name (a tool may be called
\* native:git_log, beside git_log) the last stays, and the tools come in any order.
Catalogs(mount) ==
    {entries \in SUBSET Claims(mount) :
        /\ \A e, f \in entries : e.exposed = f.exposed => e = f
        /\ \A e \in Claims(mount) : \E f \in entries : f.exposed = e.exposed}

-----------------------------------------------------------------------------
(* resolve *)

\* McpToolProvider::resolve.
BridgeCommand(mount, local, params) ==
    [program |-> mount.program,
     args |-> mount.args \o <<"--provider", mount.provider, "--tool", local, "--params", params>>]

\* NativeProvider::resolve.
NativeCommand(local, params) ==
    LET command == CHOOSE i \in DOMAIN BuiltinCommand : BuiltinCommand[i].name = local
        spec == BuiltinCommand[command]
    IN [program |-> spec.program,
        args |-> IF spec.param = {} THEN spec.template ELSE <<params["path"]>>]

Entries(catalog, name) == {e \in catalog : e.exposed = name}

\* Binding needs a string for each parameter of the template.
Binds(entry, params) ==
    entry.provider = Builtin /\ entry.local = <<"read_file">> => "path" \in DOMAIN params

\* ProviderRegistry::resolve: the error, if there is one.
ResolveError(catalog, name, params) ==
    IF Entries(catalog, name) = {} THEN "CapabilityNotFound"
    ELSE IF \E e \in Entries(catalog, name) : Binds(e, params) THEN "ok"
    ELSE "CapabilityParse"

Resolved(mount, catalog, name, params) ==
    LET entry == CHOOSE e \in Entries(catalog, name) : TRUE
    IN IF entry.provider = Builtin THEN NativeCommand(entry.local, params)
       ELSE BridgeCommand(mount, entry.local, params)

=============================================================================
