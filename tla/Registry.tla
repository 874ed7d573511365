------------------------------ MODULE Registry ------------------------------
(***************************************************************************)
(* ProviderRegistry (axp-core/src/registry.rs), the catalog of what        *)
(* providers offer, and what a session discovers of it and may start       *)
(* (registry.rs, index_for_capabilities; axp-core/src/job/engine.rs, the   *)
(* capability payload).                                                    *)
(*                                                                         *)
(* A capability is a provider with one of its local names.  The catalog    *)
(* gives it an exposed name: the local one while no other provider has it, *)
(* <provider>:<local> after that.  Neither ids nor names are kept free of  *)
(* ':', so an exposed name may be that of two capabilities: the entry that *)
(* is put last wins.  Registration holds the write lock; it adds the       *)
(* listings one by one in an order nobody chooses (they come out of a      *)
(* HashMap).  A refused registration changes nothing and is left out, *)
(* as are descriptions, signatures and the binding of parameters.          *)
(***************************************************************************)
EXTENDS Naturals, FiniteSets

CONSTANTS
    Provider,   \* provider ids
    Name,       \* local names
    Exposed,    \* names in the catalog
    qualified,  \* the exposed name <provider>:<local>, not injective
    Session,
    NoProvider, \* nobody registers
    NoEntry     \* the catalog has no such name

ASSUME RegistryAssumption ==
    /\ Name \subseteq Exposed
    /\ qualified \in [Provider -> [Name -> Exposed]]
    /\ NoProvider \notin Provider
    /\ IsFiniteSet(Provider)

Capability == [provider : Provider, local : Name]

ASSUME NoEntryAssumption == NoEntry \notin Capability

VARIABLES
    offers,     \* the listings of each provider, by local name
    providers,  \* ProviderRegistry.providers
    catalog,    \* ProviderRegistry.catalog
    nameCounts, \* ProviderRegistry.name_counts
    adding,     \* the provider whose registration holds the write lock
    todo,       \* its listings that are not in the catalog yet
    grants,     \* per session: proc.spawn, and the names of its tool grants
    seen        \* per session: the catalog as its last index showed it

vars == <<offers, providers, catalog, nameCounts, adding, todo, grants, seen>>

Catalog == [Exposed -> Capability \cup {NoEntry}]

TypeOK ==
    /\ offers \in [Provider -> SUBSET Name]
    /\ providers \subseteq Provider
    /\ catalog \in Catalog
    /\ nameCounts \in [Name -> 0..Cardinality(Provider)]
    /\ adding \in Provider \cup {NoProvider}
    /\ todo \subseteq Name
    /\ grants \in [Session -> [spawn : BOOLEAN, tools : SUBSET Exposed]]
    /\ seen \in [Session -> Catalog]

Init ==
    /\ offers = [p \in Provider |-> {}]
    /\ providers = {}
    /\ catalog = [e \in Exposed |-> NoEntry]
    /\ nameCounts = [n \in Name |-> 0]
    /\ adding = NoProvider
    /\ todo = {}
    /\ grants \in [Session -> [spawn : BOOLEAN, tools : SUBSET Exposed]]
    /\ seen = [s \in Session |-> [e \in Exposed |-> NoEntry]]

-----------------------------------------------------------------------------
(* register *)

\* The lock is free and the id is not taken.
NewProvider(p) == adding = NoProvider /\ p \notin providers

\* Steps 1 to 4 passed: the id is new, the local names differ, the descriptions
\* are good.
Register(p, names) ==
    /\ NewProvider(p)
    /\ adding' = p
    /\ todo' = names
    /\ offers' = [offers EXCEPT ![p] = names]
    /\ UNCHANGED <<providers, catalog, nameCounts, grants, seen>>

Put(table, e, capability) == [table EXCEPT ![e] = capability]

\* Mutant of Promote: the first owner keeps the bare name.
PromoteNobody(table, n) == table

\* The capability that has the bare name n moves to its qualified name.
Promote(table, n) ==
    LET prev == table[n]
    IN IF prev = NoEntry
       THEN table
       ELSE Put(Put(table, n, NoEntry), qualified[prev.provider][prev.local], prev)

\* Mutant of Placed: the last provider takes the bare name over.
PlacedBare(n, new) ==
    IF nameCounts[n] = 1 THEN Put(Promote(catalog, n), n, new)
    ELSE Put(catalog, n, new)

\* Where a new owner of the local name n goes, by how many there were.
Placed(n, new) ==
    IF nameCounts[n] = 0 THEN Put(catalog, n, new)
    ELSE IF nameCounts[n] = 1
    THEN Put(Promote(catalog, n), qualified[new.provider][n], new)
    ELSE Put(catalog, qualified[new.provider][n], new)

\* Step 5, for one listing.
AddListing(n) ==
    /\ adding # NoProvider
    /\ n \in todo
    /\ catalog' = Placed(n, [provider |-> adding, local |-> n])
    /\ nameCounts' = [nameCounts EXCEPT ![n] = @ + 1]
    /\ todo' = todo \ {n}
    /\ UNCHANGED <<offers, providers, adding, grants, seen>>

RegisterEnds ==
    /\ adding # NoProvider
    /\ todo = {}
    /\ providers' = providers \cup {adding}
    /\ adding' = NoProvider
    /\ UNCHANGED <<offers, catalog, nameCounts, todo, grants, seen>>

-----------------------------------------------------------------------------
(* Discovery and execution *)

\* Mutant of DiscoveryPermitted: a tool grant for a local name shows it under
\* every name it has.
DiscoveryPermittedLocal(s, e) ==
    \/ grants[s].spawn
    \/ e \in grants[s].tools
    \/ catalog[e] # NoEntry /\ catalog[e].local \in grants[s].tools

\* discovery_permitted.
DiscoveryPermitted(s, e) == grants[s].spawn \/ e \in grants[s].tools

\* index_for_capabilities: the part of the catalog a session sees.
Visible(s) ==
    [e \in Exposed |-> IF DiscoveryPermitted(s, e) THEN catalog[e] ELSE NoEntry]

\* axp.index: the client keeps the answer.
Index(s) ==
    /\ adding = NoProvider
    /\ seen' = [seen EXCEPT ![s] = Visible(s)]
    /\ UNCHANGED <<offers, providers, catalog, nameCounts, adding, todo, grants>>

\* describe and resolve: the catalog names the provider, the provider knows the
\* local name.
Resolve(e) ==
    IF catalog[e] # NoEntry /\ catalog[e].provider \in providers
            /\ catalog[e].local \in offers[catalog[e].provider]
    THEN catalog[e]
    ELSE NoEntry

\* describe_for_capabilities.
Describes(s, e) == IF DiscoveryPermitted(s, e) THEN Resolve(e) ELSE NoEntry

\* JobEngine::start with a capability payload: what an invocation of e would run.
Starts(s, e) == IF e \in grants[s].tools \/ grants[s].spawn THEN Resolve(e) ELSE NoEntry

Next ==
    \/ \E p \in Provider, names \in SUBSET Name : Register(p, names)
    \/ \E n \in Name : AddListing(n)
    \/ RegisterEnds
    \/ \E s \in Session : Index(s)

Spec == Init /\ [][Next]_vars

-----------------------------------------------------------------------------
(* Properties *)

\* Provider p is in the catalog with its local name n.
Exposes(p, n) ==
    /\ n \in offers[p]
    /\ p \in providers \/ (p = adding /\ n \notin todo)

Owners(n) == {p \in Provider : Exposes(p, n)}

\* The name the documentation gives to a capability (docs/MCP-MOUNTS.md, "Name
\* collisions"; registry.rs, "Collision-correct exposure").
NameOf(p, n) == IF Owners(n) = {p} THEN n ELSE qualified[p][n]

\* e is the qualified name of one capability and a name of another, too: "b:x" is
\* the x of b and the "b:x" of a, "a:b:x" is the "b:x" of a and the x of "a:b".
Ambiguous(e) ==
    \E p, q \in Provider, m, n \in Name :
        /\ Exposes(p, m) /\ Exposes(q, n)
        /\ p # q \/ m # n
        /\ e = qualified[p][m]
        /\ e \in {n, qualified[q][n]}

\* Every entry of the catalog is a capability under that name, and every capability
\* whose names are its own has its entry, whatever the order in which providers and
\* listings came (registry.rs, register, step 5).
CatalogIsCanonical ==
    /\ \A p \in Provider, n \in Name :
          Exposes(p, n) => \/ catalog[NameOf(p, n)] = [provider |-> p, local |-> n]
                          \/ Ambiguous(n)
                          \/ Ambiguous(qualified[p][n])
    /\ \A e \in Exposed :
          catalog[e] # NoEntry =>
              /\ Exposes(catalog[e].provider, catalog[e].local)
              /\ e = NameOf(catalog[e].provider, catalog[e].local)

\* A name a client has discovered comes to mean another capability only when it is
\* ambiguous; it means the same or is gone otherwise (registry.rs, a bare name that
\* was promoted stays free).
NamesKeepTheirMeaning ==
    \A s \in Session, e \in Exposed :
        seen[s][e] # NoEntry => catalog[e] \in {seen[s][e], NoEntry} \/ Ambiguous(e)

\* A session can describe and start exactly what it sees, and that is what it starts
\* (registry.rs, index_for_capabilities: "Discovery follows the same authorization
\* model as capability execution").
SeesWhatItStarts ==
    adding = NoProvider =>
        \A s \in Session, e \in Exposed :
            Starts(s, e) = Visible(s)[e] /\ Describes(s, e) = Visible(s)[e]

=============================================================================
