----------------------------- MODULE Capability -----------------------------
(***************************************************************************)
(* RuntimeCapability and CapabilitySet (axp-core/src/capability.rs): the   *)
(* grammar of grants, and which grant permits which.                       *)
(*                                                                         *)
(* A path is the sequence of its components, a domain the sequence of its  *)
(* labels.  Comparing components and labels is what Path::starts_with and  *)
(* the suffix test on ".<domain>" do; "." components and repeated slashes, *)
(* which Path drops, do not occur.  A wire string is a record: the prefix  *)
(* that parse_str looks for, and what the checks behind it look at.        *)
(***************************************************************************)
EXTENDS Naturals, Sequences

CONSTANTS
    Component,  \* components of paths
    DotDot,     \* the component ".."
    Label,      \* labels of domain names
    Tool,       \* names of tools
    EmptyTool,  \* the empty name
    NoArg       \* the argument of a verb that has none

ASSUME CapabilityAssumption == DotDot \notin Component /\ EmptyTool \notin Tool

Path == Seq(Component)
Domain == Seq(Label)

RuntimeCapability ==
    [verb : {"fs.read", "fs.write"}, arg : Path]
    \cup [verb : {"net.connect"}, arg : Domain \ {<<>>}]
    \cup [verb : {"proc.spawn", "pty.open"}, arg : {NoArg}]
    \cup [verb : {"tool"}, arg : Tool]

FsRead(path) == [verb |-> "fs.read", arg |-> path]
FsWrite(path) == [verb |-> "fs.write", arg |-> path]
NetConnect(domain) == [verb |-> "net.connect", arg |-> domain]
ProcSpawn == [verb |-> "proc.spawn", arg |-> NoArg]
PtyOpen == [verb |-> "pty.open", arg |-> NoArg]
ToolGrant(name) == [verb |-> "tool", arg |-> name]

-----------------------------------------------------------------------------
(* permits *)

\* Path::starts_with.
StartsWith(path, base) ==
    /\ Len(base) <= Len(path)
    /\ \A i \in 1..Len(base) : path[i] = base[i]

\* domain is base, or ends with "." and base.
Under(domain, base) ==
    /\ Len(base) <= Len(domain)
    /\ \A i \in 1..Len(base) : domain[Len(domain) - Len(base) + i] = base[i]

\* RuntimeCapability::permits.
Permits(grant, child) ==
    /\ grant.verb = child.verb
    /\ grant.verb \in {"fs.read", "fs.write"} => StartsWith(child.arg, grant.arg)
    /\ grant.verb = "net.connect" => Under(child.arg, grant.arg)
    /\ grant.verb = "tool" => child.arg = grant.arg

\* CapabilitySet::permits.
SetPermits(grants, child) == \E grant \in grants : Permits(grant, child)

-----------------------------------------------------------------------------
(* parse_str and Display *)

\* A string of the grammar.  For the verbs with parentheses: it ends with ")", a
\* path begins with "/", a domain has none of the characters "/", ":" and white
\* space.  For a name without prefix: it has no white space.
Wire ==
    [form : {"fs.read", "fs.write"}, closed : BOOLEAN, absolute : BOOLEAN,
        arg : Seq(Component \cup {DotDot})]
    \cup [form : {"net.connect"}, closed : BOOLEAN, plain : BOOLEAN, arg : Domain]
    \cup [form : {"proc.spawn", "pty.open"}, arg : {NoArg}]
    \cup [form : {"tool"}, arg : Tool \cup {EmptyTool}]
    \cup [form : {"bare"}, spaced : BOOLEAN, arg : Tool \cup {EmptyTool}]

\* parse_abs_path, behind extract_paren_inner.
GoodPath(wire) == wire.closed /\ wire.absolute /\ DotDot \notin {wire.arg[i] : i \in DOMAIN wire.arg}

\* parse_domain, behind extract_paren_inner.
GoodDomain(wire) == wire.closed /\ wire.plain /\ wire.arg # <<>>

\* parse_str accepts the string.  One that begins like a verb never falls through
\* to the names.
Parses(wire) ==
    /\ wire.form \in {"fs.read", "fs.write"} => GoodPath(wire)
    /\ wire.form = "net.connect" => GoodDomain(wire)
    /\ wire.form \in {"tool", "bare"} => wire.arg # EmptyTool
    /\ wire.form = "bare" => ~wire.spaced

\* What it makes of a string it accepts.
Parse(wire) == [verb |-> IF wire.form = "bare" THEN "tool" ELSE wire.form, arg |-> wire.arg]

\* Display and to_wire.
ToWire(cap) ==
    IF cap.verb \in {"fs.read", "fs.write"}
    THEN [form |-> cap.verb, closed |-> TRUE, absolute |-> TRUE, arg |-> cap.arg]
    ELSE IF cap.verb = "net.connect"
    THEN [form |-> cap.verb, closed |-> TRUE, plain |-> TRUE, arg |-> cap.arg]
    ELSE [form |-> cap.verb, arg |-> cap.arg]

\* CapabilitySet::from_wire: all or nothing.
FromWireOk(wires) == \A wire \in wires : Parses(wire)
FromWire(wires) == {Parse(wire) : wire \in wires}

-----------------------------------------------------------------------------
(* What is proved of them *)

\* Whatever the child lets one do, the grant lets one do.
Narrows(grant, child) ==
    \A use \in RuntimeCapability : Permits(child, use) => Permits(grant, use)

\* All that the children let one do, the grants let one do.
SetNarrows(grants, children) ==
    \A use \in RuntimeCapability : SetPermits(children, use) => SetPermits(grants, use)

=============================================================================
