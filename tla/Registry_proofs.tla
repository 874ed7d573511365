-------------------------- MODULE Registry_proofs --------------------------
(***************************************************************************)
(* Proofs about Registry for any providers, names and sessions.            *)
(*                                                                         *)
(* Book states that the counters count the owners of a name and that the   *)
(* lock protects a registration.  With it the catalog is canonical, and    *)
(* from that a name keeps its meaning.  Nothing is assumed of the names: a *)
(* qualified one may be that of another capability.                        *)
(***************************************************************************)
EXTENDS Registry, FiniteSetTheorems, TLAPS

\* TypeOK but for the bound of the counters.
Types ==
    /\ offers \in [Provider -> SUBSET Name]
    /\ providers \subseteq Provider
    /\ catalog \in Catalog
    /\ nameCounts \in [Name -> Nat]
    /\ adding \in Provider \cup {NoProvider}
    /\ todo \subseteq Name
    /\ grants \in [Session -> [spawn : BOOLEAN, tools : SUBSET Exposed]]
    /\ seen \in [Session -> Catalog]

\* A registration is of a new provider, and adds what it offers.
Lock ==
    /\ adding = NoProvider => todo = {}
    /\ adding # NoProvider => adding \notin providers /\ todo \subseteq offers[adding]

Counts == \A n \in Name : nameCounts[n] = Cardinality(Owners(n))

Book == Types /\ Lock /\ Counts

-----------------------------------------------------------------------------
(* Owners *)

\* The new owner of a name is the provider that is being added, nobody else.
LEMMA ExposesAfterAdd ==
    ASSUME Types, Lock, NEW k \in Name, AddListing(k)
    PROVE  /\ adding \in Provider
           /\ ~Exposes(adding, k)
           /\ \A p \in Provider, n \in Name :
                 Exposes(p, n)' <=> Exposes(p, n) \/ (p = adding /\ n = k)
  BY RegistryAssumption DEF Types, Lock, AddListing, Exposes

\* No other step makes or ends an owner.
LEMMA ExposesOtherwise ==
    ASSUME Types, Lock,
           \/ \E p \in Provider, names \in SUBSET Name : Register(p, names)
           \/ RegisterEnds
           \/ \E s \in Session : Index(s)
           \/ UNCHANGED vars
    PROVE  \A p \in Provider, n \in Name : Exposes(p, n)' <=> Exposes(p, n)
<1>1. CASE \E p \in Provider, names \in SUBSET Name : Register(p, names)
  BY <1>1, RegistryAssumption DEF Types, Lock, Register, NewProvider, Exposes
<1>2. CASE RegisterEnds
  BY <1>2, RegistryAssumption DEF Types, Lock, RegisterEnds, Exposes
<1>3. CASE \E s \in Session : Index(s)
  BY <1>3 DEF Index, Exposes
<1>4. CASE UNCHANGED vars
  BY <1>4 DEF vars, Exposes
<1> QED BY <1>1, <1>2, <1>3, <1>4

LEMMA OwnersAreFinite ==
    ASSUME NEW n
    PROVE  /\ IsFiniteSet(Owners(n))
           /\ Cardinality(Owners(n)) \in 0..Cardinality(Provider)
<1>1. Owners(n) \in SUBSET Provider
  BY DEF Owners
<1>2. IsFiniteSet(Owners(n)) /\ Cardinality(Owners(n)) <= Cardinality(Provider)
  BY <1>1, FS_Subset, RegistryAssumption
<1>3. Cardinality(Owners(n)) \in Nat /\ Cardinality(Provider) \in Nat
  BY <1>2, FS_CardinalityType, RegistryAssumption
<1> QED BY <1>2, <1>3

\* What the three cases of register say of the owners.
LEMMA CountsTell ==
    ASSUME Counts, NEW n \in Name
    PROVE  /\ nameCounts[n] = 0 <=> Owners(n) = {}
           /\ nameCounts[n] = 1 <=> \E p : Owners(n) = {p}
  BY OwnersAreFinite, FS_EmptySet, FS_Singleton DEF Counts

-----------------------------------------------------------------------------
(* Counters and lock *)

LEMMA PutIsCatalog ==
    ASSUME NEW table \in Catalog, NEW e \in Exposed, NEW c \in Capability \cup {NoEntry}
    PROVE  Put(table, e, c) \in Catalog
  BY DEF Put, Catalog

LEMMA PlacedIsCatalog ==
    ASSUME Types, NEW n \in Name, NEW new \in Capability
    PROVE  Placed(n, new) \in Catalog
<1>1. n \in Exposed /\ qualified[new.provider][n] \in Exposed
  BY RegistryAssumption DEF Capability
<1>2. catalog \in Catalog
  BY DEF Types
<1>3. Promote(catalog, n) \in Catalog
  <2>1. CASE catalog[n] = NoEntry
    BY <1>2, <2>1 DEF Promote
  <2>2. CASE catalog[n] # NoEntry
    <3>1. catalog[n] \in Capability
      BY <1>1, <1>2, <2>2 DEF Catalog
    <3>2. qualified[catalog[n].provider][catalog[n].local] \in Exposed
      BY <3>1, RegistryAssumption DEF Capability
    <3>3. Put(catalog, n, NoEntry) \in Catalog
      BY <1>1, <1>2, PutIsCatalog
    <3>4. Put(Put(catalog, n, NoEntry),
              qualified[catalog[n].provider][catalog[n].local], catalog[n]) \in Catalog
      BY <3>1, <3>2, <3>3, PutIsCatalog
    <3> QED BY <2>2, <3>4 DEF Promote
  <2> QED BY <2>1, <2>2
<1> QED BY <1>1, <1>2, <1>3, PutIsCatalog DEF Placed

LEMMA BookInit == Init => Book
<1> SUFFICES ASSUME Init PROVE Book
  OBVIOUS
<1>1. Types
  BY DEF Init, Types, Catalog
<1>2. Lock
  BY DEF Init, Lock
<1>3. \A n \in Name : Owners(n) = {}
  BY RegistryAssumption DEF Init, Owners, Exposes
<1>4. Counts
  BY <1>3, FS_EmptySet DEF Init, Counts
<1> QED BY <1>1, <1>2, <1>4 DEF Book

LEMMA BookNext == Book /\ [Next]_vars => Book'
<1> SUFFICES ASSUME Types, Lock, Counts, [Next]_vars
             PROVE  Types' /\ Lock' /\ Counts'
  BY DEF Book
<1> DEFINE Quiet == \/ \E p \in Provider, names \in SUBSET Name : Register(p, names)
                    \/ RegisterEnds
                    \/ \E s \in Session : Index(s)
                    \/ UNCHANGED vars
<1>1. ASSUME NEW k \in Name, AddListing(k)
      PROVE  Types' /\ Lock' /\ Counts'
  <2>1. adding \in Provider
    BY <1>1, ExposesAfterAdd
  <2>2. catalog' \in Catalog
    BY <1>1, <2>1, PlacedIsCatalog DEF AddListing, Capability
  <2>3. Types'
    BY <1>1, <2>2 DEF Types, AddListing
  <2>4. Lock'
    BY <1>1 DEF Types, Lock, AddListing
  <2>5. Owners(k)' = Owners(k) \cup {adding} /\ adding \notin Owners(k)
    BY <1>1, <2>1, ExposesAfterAdd DEF Owners
  <2>6. \A n \in Name : n # k => Owners(n)' = Owners(n)
    BY <1>1, ExposesAfterAdd DEF Owners
  <2>7. Cardinality(Owners(k)') = nameCounts[k] + 1
    BY <2>5, FS_AddElement, OwnersAreFinite DEF Counts
  <2>8. Counts'
    BY <1>1, <2>6, <2>7 DEF Counts, Types, AddListing
  <2> QED BY <2>3, <2>4, <2>8
<1>2. ASSUME Quiet PROVE Types' /\ Lock' /\ Counts'
  <2>1. \A n \in Name : Owners(n)' = Owners(n)
    BY <1>2, ExposesOtherwise DEF Owners
  <2>2. nameCounts' = nameCounts
    BY <1>2 DEF Register, RegisterEnds, Index, vars
  <2>3. Counts'
    BY <2>1, <2>2 DEF Counts
  <2>4. Types' /\ Lock'
    <3>1. CASE \E p \in Provider, names \in SUBSET Name : Register(p, names)
      BY <3>1, RegistryAssumption DEF Types, Lock, Register, NewProvider
    <3>2. CASE RegisterEnds
      BY <3>2 DEF Types, Lock, RegisterEnds
    <3>3. CASE \E s \in Session : Index(s)
      <4> PICK s \in Session : Index(s)
        BY <3>3
      <4>1. Visible(s) \in Catalog
        BY DEF Visible, Types, Catalog
      <4> QED BY <4>1 DEF Types, Lock, Index
    <3>4. CASE UNCHANGED vars
      BY <3>4 DEF Types, Lock, vars
    <3> QED BY <1>2, <3>1, <3>2, <3>3, <3>4
  <2> QED BY <2>3, <2>4
<1> QED BY <1>1, <1>2 DEF Next

\* The counters count the providers that offer a name, and a registration is that
\* of one new provider (registry.rs, register).
THEOREM BookInvariant == Spec => []Book
  BY BookInit, BookNext, PTL DEF Spec

\* Type correctness: a counter never exceeds the number of providers (registry.rs,
\* name_counts).
THEOREM TypeCorrect == Spec => []TypeOK
<1>1. Book => TypeOK
  <2> SUFFICES ASSUME Types, Counts PROVE TypeOK
    BY DEF Book
  <2>1. nameCounts \in [Name -> 0..Cardinality(Provider)]
    BY OwnersAreFinite DEF Types, Counts
  <2> QED BY <2>1 DEF Types, TypeOK
<1> QED BY <1>1, BookInvariant, PTL

-----------------------------------------------------------------------------
(* The catalog and the owners of each name *)

At(p, n) == [provider |-> p, local |-> n]

\* The name of one of the owners of n.
NameIn(owners, p, n) == IF owners = {p} THEN n ELSE qualified[p][n]

\* Ambiguous, CatalogIsCanonical as relations of a catalog and the owners of names: an
\* owner is where it belongs unless its names are ambiguous, an entry is an owner's.
Clash(own, e) ==
    \E n \in Name : \E q \in own[n] : \E m \in Name : \E p \in own[m] :
        /\ p # q \/ m # n
        /\ e = qualified[p][m]
        /\ e \in {n, qualified[q][n]}

Placement(table, own) ==
    \A n \in Name : \A p \in own[n] :
        \/ table[NameIn(own[n], p, n)] = At(p, n)
        \/ Clash(own, n)
        \/ Clash(own, qualified[p][n])

Origin(table, own) ==
    \A e \in Exposed : table[e] # NoEntry =>
        \E n \in Name : \E p \in own[n] : table[e] = At(p, n) /\ e = NameIn(own[n], p, n)

Routes(table, own) == Placement(table, own) /\ Origin(table, own)

LEMMA AtIsCapability ==
    ASSUME NEW p \in Provider, NEW n \in Name
    PROVE  /\ At(p, n) \in Capability /\ At(p, n) # NoEntry
           /\ At(p, n).provider = p /\ At(p, n).local = n
  BY NoEntryAssumption DEF Capability, At

LEMMA NamesAreExposed ==
    ASSUME NEW p \in Provider, NEW n \in Name, NEW O
    PROVE  n \in Exposed /\ qualified[p][n] \in Exposed /\ NameIn(O, p, n) \in Exposed
  BY RegistryAssumption DEF NameIn

\* Two owners with a name in common, a qualified one of one of them.
LEMMA ClashOf ==
    ASSUME NEW own, NEW n \in Name, NEW q \in own[n], NEW m \in Name, NEW p \in own[m],
           p # q \/ m # n, qualified[p][m] \in {n, qualified[q][n]}
    PROVE  Clash(own, qualified[p][m])
  BY DEF Clash

\* More owners: what was ambiguous stays so.
LEMMA ClashGrows ==
    ASSUME NEW own, NEW more, \A n \in Name : own[n] \subseteq more[n], NEW e, Clash(own, e)
    PROVE  Clash(more, e)
<1>1. PICK n \in Name : \E q \in own[n] : \E m \in Name : \E p \in own[m] :
        /\ p # q \/ m # n
        /\ e = qualified[p][m]
        /\ e \in {n, qualified[q][n]}
  BY DEF Clash
<1>2. PICK q \in own[n] : \E m \in Name : \E p \in own[m] :
        /\ p # q \/ m # n
        /\ e = qualified[p][m]
        /\ e \in {n, qualified[q][n]}
  BY <1>1
<1>3. PICK m \in Name : \E p \in own[m] :
        /\ p # q \/ m # n
        /\ e = qualified[p][m]
        /\ e \in {n, qualified[q][n]}
  BY <1>2
<1>4. PICK p \in own[m] :
        /\ p # q \/ m # n
        /\ e = qualified[p][m]
        /\ e \in {n, qualified[q][n]}
  BY <1>3
<1> QED BY <1>4 DEF Clash

\* An owner of another name whose position is untouched keeps it.
LEMMA PlacedStill ==
    ASSUME NEW table, NEW t2, NEW own, NEW own2, Placement(table, own),
           \A n \in Name : own[n] \subseteq own2[n],
           NEW n \in Name, NEW p \in own[n],
           \/ t2[NameIn(own2[n], p, n)] = table[NameIn(own[n], p, n)]
           \/ Clash(own2, qualified[p][n])
    PROVE  \/ t2[NameIn(own2[n], p, n)] = At(p, n)
           \/ Clash(own2, n)
           \/ Clash(own2, qualified[p][n])
  BY ClashGrows DEF Placement

LEMMA FirstOwner ==
    ASSUME NEW table \in Catalog, NEW own \in [Name -> SUBSET Provider],
           NEW k \in Name, NEW a \in Provider, own[k] = {}, Routes(table, own)
    PROVE  Routes(Put(table, k, At(a, k)), [own EXCEPT ![k] = @ \cup {a}])
<1> DEFINE t2 == Put(table, k, At(a, k))
           own2 == [own EXCEPT ![k] = @ \cup {a}]
<1>1. own2[k] = {a} /\ \A n \in Name : n # k => own2[n] = own[n]
  OBVIOUS
<1>2. \A e \in Exposed : t2[e] = IF e = k THEN At(a, k) ELSE table[e]
  BY NamesAreExposed DEF Put, Catalog
<1>3. NameIn(own2[k], a, k) = k
  BY <1>1 DEF NameIn
<1>4. own \in [Name -> SUBSET Provider] /\ \A n \in Name : own[n] \subseteq own2[n]
  OBVIOUS
<1> HIDE DEF t2, own2
<1>5. Placement(t2, own2)
  <2> SUFFICES ASSUME NEW n \in Name, NEW p \in own2[n]
               PROVE  \/ t2[NameIn(own2[n], p, n)] = At(p, n)
                      \/ Clash(own2, n)
                      \/ Clash(own2, qualified[p][n])
    BY DEF Placement
  <2>1. CASE n = k
    BY <1>1, <1>2, <1>3, <2>1, NamesAreExposed
  <2>2. CASE n # k
    <3>1. own2[n] = own[n] /\ p \in own[n] /\ p \in Provider
      BY <1>1, <1>4, <2>2
    <3>2. CASE NameIn(own[n], p, n) = k
      <4>1. qualified[p][n] = k
        BY <2>2, <3>2 DEF NameIn
      <4>2. a \in own2[k]
        BY <1>1
      <4> QED BY <2>2, <4>1, <4>2, ClashOf
    <3>3. CASE NameIn(own[n], p, n) # k
      <4>1. t2[NameIn(own2[n], p, n)] = table[NameIn(own[n], p, n)]
        BY <1>2, <3>1, <3>3, NamesAreExposed
      <4>2. Placement(table, own)
        BY DEF Routes
      <4> QED BY <1>4, <3>1, <4>1, <4>2, PlacedStill
    <3> QED BY <3>2, <3>3
  <2> QED BY <2>1, <2>2
<1>6. Origin(t2, own2)
  <2> SUFFICES ASSUME NEW e \in Exposed, t2[e] # NoEntry
               PROVE  \E n \in Name : \E p \in own2[n] :
                         t2[e] = At(p, n) /\ e = NameIn(own2[n], p, n)
    BY DEF Origin
  <2>1. CASE e = k
    BY <1>1, <1>2, <1>3, <2>1
  <2>2. CASE e # k
    <3>1. PICK n \in Name : \E p \in own[n] : table[e] = At(p, n) /\ e = NameIn(own[n], p, n)
      BY <1>2, <2>2 DEF Routes, Origin
    <3>2. n # k
      BY <3>1
    <3> QED BY <1>1, <1>2, <2>2, <3>1, <3>2
  <2> QED BY <2>1, <2>2
<1> QED BY <1>5, <1>6 DEF Routes, t2, own2

\* The bare entry is the first owner's, or that of a capability whose qualified name
\* it is: that one is put back where it was.
LEMMA PromoteMoves ==
    ASSUME NEW table \in Catalog, NEW own \in [Name -> SUBSET Provider],
           NEW k \in Name, NEW q \in Provider, own[k] = {q}, Origin(table, own)
    PROVE  /\ table[k] = At(q, k) =>
                 \A e \in Exposed :
                    Promote(table, k)[e] = IF e = qualified[q][k] THEN At(q, k)
                                           ELSE IF e = k THEN NoEntry ELSE table[e]
           /\ table[k] # At(q, k) => Promote(table, k) = table
           /\ Promote(table, k) \in Catalog
<1>1. k \in Exposed /\ qualified[q][k] \in Exposed
  BY NamesAreExposed
<1>2. CASE table[k] = At(q, k)
  <2>1. Promote(table, k) = Put(Put(table, k, NoEntry), qualified[q][k], At(q, k))
    BY <1>2, AtIsCapability DEF Promote
  <2>2. \A e \in Exposed :
           Promote(table, k)[e] = IF e = qualified[q][k] THEN At(q, k)
                                  ELSE IF e = k THEN NoEntry ELSE table[e]
    BY <1>1, <2>1 DEF Put, Catalog
  <2>3. At(q, k) \in Capability
    BY AtIsCapability
  <2>4. Put(table, k, NoEntry) \in Catalog
    BY <1>1, PutIsCatalog
  <2>5. Promote(table, k) \in Catalog
    BY <1>1, <2>1, <2>3, <2>4, PutIsCatalog
  <2> QED BY <1>2, <2>2, <2>5
<1>3. CASE table[k] = NoEntry
  BY <1>3, AtIsCapability DEF Promote
<1>4. CASE table[k] # NoEntry /\ table[k] # At(q, k)
  <2>1. PICK m \in Name : \E p \in own[m] : table[k] = At(p, m) /\ k = NameIn(own[m], p, m)
    BY <1>1, <1>4 DEF Origin
  <2>2. PICK p \in own[m] : table[k] = At(p, m) /\ k = NameIn(own[m], p, m)
    BY <2>1
  <2>3. m # k /\ p \in Provider
    BY <1>4, <2>2
  <2>4. k = qualified[p][m]
    BY <2>2, <2>3 DEF NameIn
  <2>5. Promote(table, k) = Put(Put(table, k, NoEntry), k, table[k])
    BY <1>4, <2>2, <2>3, <2>4, AtIsCapability DEF Promote
  <2>6. Promote(table, k) = table
    BY <2>5 DEF Put, Catalog
  <2> QED BY <1>4, <2>6
<1> QED BY <1>2, <1>3, <1>4

LEMMA SecondOwner ==
    ASSUME NEW table \in Catalog, NEW own \in [Name -> SUBSET Provider],
           NEW k \in Name, NEW a \in Provider, NEW q \in Provider,
           own[k] = {q}, q # a, Routes(table, own)
    PROVE  Routes(Put(Promote(table, k), qualified[a][k], At(a, k)),
                  [own EXCEPT ![k] = @ \cup {a}])
<1> DEFINE t1 == Promote(table, k)
           t2 == Put(t1, qualified[a][k], At(a, k))
           own2 == [own EXCEPT ![k] = @ \cup {a}]
<1>1. own2[k] = {q, a} /\ \A n \in Name : n # k => own2[n] = own[n]
  OBVIOUS
<1>2. own \in [Name -> SUBSET Provider] /\ \A n \in Name : own[n] \subseteq own2[n]
  OBVIOUS
<1>3. /\ table[k] = At(q, k) =>
            \A e \in Exposed : t1[e] = IF e = qualified[q][k] THEN At(q, k)
                                       ELSE IF e = k THEN NoEntry ELSE table[e]
      /\ table[k] # At(q, k) => t1 = table
      /\ t1 \in Catalog
  BY PromoteMoves DEF Routes
<1>4. \A e \in Exposed : t2[e] = IF e = qualified[a][k] THEN At(a, k) ELSE t1[e]
  BY <1>3, NamesAreExposed DEF Put, Catalog
<1>5. NameIn(own2[k], a, k) = qualified[a][k] /\ NameIn(own2[k], q, k) = qualified[q][k]
  BY <1>1 DEF NameIn
<1>6. NameIn(own[k], q, k) = k
  BY DEF NameIn
<1>7. Placement(table, own) /\ Origin(table, own)
  BY DEF Routes
<1> HIDE DEF t1, t2, own2
<1>8. Placement(t2, own2)
  <2> SUFFICES ASSUME NEW n \in Name, NEW p \in own2[n]
               PROVE  \/ t2[NameIn(own2[n], p, n)] = At(p, n)
                      \/ Clash(own2, n)
                      \/ Clash(own2, qualified[p][n])
    BY DEF Placement
  <2>1. CASE n = k /\ p = a
    BY <1>4, <1>5, <2>1, NamesAreExposed
  <2>2. CASE n = k /\ p = q
    <3>1. CASE table[k] # At(q, k)
      <4>1. Clash(own, k) \/ Clash(own, qualified[q][k])
        BY <1>6, <1>7, <3>1 DEF Placement
      <4> QED BY <1>2, <2>2, <4>1, ClashGrows
    <3>2. CASE table[k] = At(q, k) /\ qualified[q][k] # qualified[a][k]
      BY <1>3, <1>4, <1>5, <2>2, <3>2, NamesAreExposed
    <3>3. CASE qualified[q][k] = qualified[a][k]
      BY <1>1, <2>2, <3>3, ClashOf
    <3> QED BY <3>1, <3>2, <3>3
  <2>3. CASE n # k
    <3> DEFINE e == NameIn(own[n], p, n)
    <3>1. own2[n] = own[n] /\ p \in own[n] /\ p \in Provider /\ e \in Exposed
      BY <1>1, <1>2, <2>3, NamesAreExposed
    <3>2. e \in {n, qualified[p][n]}
      BY DEF NameIn
    <3>3. ASSUME NEW b \in own2[k], e = qualified[b][k]
          PROVE  Clash(own2, n) \/ Clash(own2, qualified[p][n])
      <4>1. Clash(own2, qualified[b][k])
        BY <2>3, <3>2, <3>3, ClashOf
      <4> QED BY <3>2, <3>3, <4>1
    <3>4. CASE table[e] # At(p, n)
      <4>1. Clash(own, n) \/ Clash(own, qualified[p][n])
        BY <1>7, <3>1, <3>4 DEF Placement
      <4> QED BY <1>2, <4>1, ClashGrows
    <3>5. CASE table[e] = At(p, n) /\ e \notin {qualified[a][k], qualified[q][k]}
      <4>1. At(p, n) # At(q, k)
        BY <2>3 DEF At
      <4>2. t1[e] = table[e]
        BY <1>3, <3>1, <3>5, <4>1
      <4> QED BY <1>4, <3>1, <3>5, <4>2
    <3> QED BY <1>1, <3>3, <3>4, <3>5
  <2> QED BY <1>1, <2>1, <2>2, <2>3
<1>9. Origin(t2, own2)
  <2> SUFFICES ASSUME NEW e \in Exposed, t2[e] # NoEntry
               PROVE  \E n \in Name : \E p \in own2[n] :
                         t2[e] = At(p, n) /\ e = NameIn(own2[n], p, n)
    BY DEF Origin
  <2>1. CASE e = qualified[a][k]
    BY <1>1, <1>4, <1>5, <2>1
  <2>2. CASE t2[e] = At(q, k) /\ e = qualified[q][k]
    BY <1>1, <1>5, <2>2
  <2>3. CASE e # qualified[a][k] /\ ~(t2[e] = At(q, k) /\ e = qualified[q][k])
    <3>1. t2[e] = table[e] /\ (e = k => table[k] # At(q, k))
      BY <1>3, <1>4, <2>3
    <3>2. PICK n \in Name : \E p \in own[n] : table[e] = At(p, n) /\ e = NameIn(own[n], p, n)
      BY <1>7, <3>1 DEF Origin
    <3>3. n # k
      BY <1>6, <3>1, <3>2
    <3> QED BY <1>1, <3>1, <3>2, <3>3
  <2> QED BY <2>1, <2>2, <2>3
<1> QED BY <1>8, <1>9 DEF Routes, t1, t2, own2

LEMMA LaterOwner ==
    ASSUME NEW table \in Catalog, NEW own \in [Name -> SUBSET Provider],
           NEW k \in Name, NEW a \in Provider, a \notin own[k],
           own[k] # {}, \A q : own[k] # {q}, Routes(table, own)
    PROVE  Routes(Put(table, qualified[a][k], At(a, k)), [own EXCEPT ![k] = @ \cup {a}])
<1> DEFINE t2 == Put(table, qualified[a][k], At(a, k))
           own2 == [own EXCEPT ![k] = @ \cup {a}]
<1>1. own2[k] = own[k] \cup {a} /\ \A n \in Name : n # k => own2[n] = own[n]
  OBVIOUS
<1>2. \A e \in Exposed : t2[e] = IF e = qualified[a][k] THEN At(a, k) ELSE table[e]
  BY NamesAreExposed DEF Put, Catalog
<1>3. \A p : own2[k] # {p}
  BY <1>1
<1>4. /\ NameIn(own2[k], a, k) = qualified[a][k]
      /\ \A n \in Name : \A p \in own[n] : NameIn(own2[n], p, n) = NameIn(own[n], p, n)
  BY <1>1, <1>3 DEF NameIn
<1>5. own \in [Name -> SUBSET Provider] /\ \A n \in Name : own[n] \subseteq own2[n]
  OBVIOUS
<1>6. Placement(table, own) /\ Origin(table, own)
  BY DEF Routes
<1> HIDE DEF t2, own2
<1>7. Placement(t2, own2)
  <2> SUFFICES ASSUME NEW n \in Name, NEW p \in own2[n]
               PROVE  \/ t2[NameIn(own2[n], p, n)] = At(p, n)
                      \/ Clash(own2, n)
                      \/ Clash(own2, qualified[p][n])
    BY DEF Placement
  <2>1. CASE n = k /\ p = a
    BY <1>2, <1>4, <2>1, NamesAreExposed
  <2>2. CASE n # k \/ p # a
    <3> DEFINE e == NameIn(own[n], p, n)
    <3>1. p \in own[n] /\ p \in Provider /\ e \in Exposed /\ e \in {n, qualified[p][n]}
      BY <1>1, <1>5, <2>2, NamesAreExposed DEF NameIn
    <3>2. CASE e = qualified[a][k]
      <4>1. Clash(own2, qualified[a][k])
        BY <1>1, <2>2, <3>1, <3>2, ClashOf
      <4> QED BY <3>1, <3>2, <4>1
    <3>3. CASE e # qualified[a][k]
      <4>1. t2[NameIn(own2[n], p, n)] = table[NameIn(own[n], p, n)]
        BY <1>2, <1>4, <3>1, <3>3
      <4> QED BY <1>5, <1>6, <3>1, <4>1, PlacedStill
    <3> QED BY <3>2, <3>3
  <2> QED BY <2>1, <2>2
<1>8. Origin(t2, own2)
  <2> SUFFICES ASSUME NEW e \in Exposed, t2[e] # NoEntry
               PROVE  \E n \in Name : \E p \in own2[n] :
                         t2[e] = At(p, n) /\ e = NameIn(own2[n], p, n)
    BY DEF Origin
  <2>1. CASE e = qualified[a][k]
    BY <1>1, <1>2, <1>4, <2>1
  <2>2. CASE e # qualified[a][k]
    <3>1. t2[e] = table[e]
      BY <1>2, <2>2
    <3>2. PICK n \in Name : \E p \in own[n] : table[e] = At(p, n) /\ e = NameIn(own[n], p, n)
      BY <1>6, <3>1 DEF Origin
    <3>3. PICK p \in own[n] : table[e] = At(p, n) /\ e = NameIn(own[n], p, n)
      BY <3>2
    <3>4. p \in own2[n] /\ NameIn(own2[n], p, n) = NameIn(own[n], p, n)
      BY <1>4, <1>5
    <3> QED BY <3>1, <3>3, <3>4
  <2> QED BY <2>1, <2>2
<1> QED BY <1>7, <1>8 DEF Routes, t2, own2

-----------------------------------------------------------------------------
(* The invariant *)

OwnersOf == [n \in Name |-> Owners(n)]

\* What a session has seen is still offered, and was seen under one of its names.
SeenIsOffered ==
    \A s \in Session, e \in Exposed : seen[s][e] # NoEntry =>
        \E n \in Name : \E p \in Owners(n) :
            seen[s][e] = At(p, n) /\ e \in {n, qualified[p][n]}

Canonical == Book /\ Routes(catalog, OwnersOf) /\ SeenIsOffered

LEMMA OwnersAreProviders ==
    /\ OwnersOf \in [Name -> SUBSET Provider]
    /\ \A n \in Name : OwnersOf[n] = Owners(n)
  BY DEF OwnersOf, Owners

LEMMA CanonicalInit == Init => Canonical
<1> SUFFICES ASSUME Init PROVE Canonical
  OBVIOUS
<1>1. \A n \in Name : OwnersOf[n] = {}
  BY RegistryAssumption DEF Init, Owners, Exposes, OwnersOf
<1>2. Routes(catalog, OwnersOf)
  BY <1>1 DEF Init, Routes, Placement, Origin
<1>3. SeenIsOffered
  BY DEF Init, SeenIsOffered
<1> QED BY <1>2, <1>3, BookInit DEF Canonical

\* The owners and the catalog after a listing was added.
LEMMA AddKeepsRoutes ==
    ASSUME Book, Routes(catalog, OwnersOf), NEW k \in Name, AddListing(k)
    PROVE  Routes(catalog, OwnersOf)' /\ \A n \in Name : Owners(n) \subseteq Owners(n)'
<1>1. adding \in Provider /\ Types /\ Lock /\ Counts
  BY ExposesAfterAdd DEF Book
<1>2. Owners(k)' = Owners(k) \cup {adding} /\ adding \notin Owners(k)
  BY <1>1, ExposesAfterAdd DEF Owners
<1>3. \A n \in Name : n # k => Owners(n)' = Owners(n)
  BY <1>1, ExposesAfterAdd DEF Owners
<1>4. OwnersOf' = [OwnersOf EXCEPT ![k] = @ \cup {adding}]
  BY <1>2, <1>3 DEF OwnersOf
<1>5. OwnersOf \in [Name -> SUBSET Provider] /\ OwnersOf[k] = Owners(k)
  BY OwnersAreProviders
<1>6. catalog \in Catalog /\ catalog' = Placed(k, At(adding, k)) /\ At(adding, k).provider = adding
  BY <1>1 DEF Types, AddListing, At
<1>7. Routes(catalog', OwnersOf')
  <2>1. CASE nameCounts[k] = 0
    <3>1. OwnersOf[k] = {}
      BY <1>1, <1>5, <2>1, CountsTell
    <3>2. Routes(Put(catalog, k, At(adding, k)), OwnersOf')
      BY <1>1, <1>4, <1>5, <1>6, <3>1, FirstOwner
    <3> QED BY <1>6, <2>1, <3>2 DEF Placed
  <2>2. CASE nameCounts[k] = 1
    <3>1. PICK q : Owners(k) = {q}
      BY <1>1, <2>2, CountsTell
    <3>2. OwnersOf[k] = {q} /\ q \in Provider /\ q # adding
      BY <1>2, <1>5, <3>1
    <3>3. Routes(Put(Promote(catalog, k), qualified[adding][k], At(adding, k)), OwnersOf')
      BY <1>1, <1>4, <1>5, <1>6, <3>2, SecondOwner
    <3> QED BY <1>6, <2>2, <3>3 DEF Placed
  <2>3. CASE nameCounts[k] \notin {0, 1}
    <3>1. OwnersOf[k] # {} /\ (\A q : OwnersOf[k] # {q}) /\ adding \notin OwnersOf[k]
      BY <1>1, <1>2, <1>5, <2>3, CountsTell
    <3>2. Routes(Put(catalog, qualified[adding][k], At(adding, k)), OwnersOf')
      BY <1>1, <1>4, <1>5, <1>6, <3>1, LaterOwner
    <3> QED BY <1>6, <2>3, <3>2 DEF Placed
  <2> QED BY <2>1, <2>2, <2>3
<1>8. Routes(catalog, OwnersOf)'
  BY <1>7 DEF Routes, Placement, Origin, Clash
<1> QED BY <1>2, <1>3, <1>8

LEMMA CanonicalNext == Canonical /\ [Next]_vars => Canonical'
<1> SUFFICES ASSUME Book, Routes(catalog, OwnersOf), SeenIsOffered, [Next]_vars
             PROVE  Routes(catalog, OwnersOf)' /\ SeenIsOffered'
  BY BookNext DEF Canonical
<1>1. ASSUME NEW k \in Name, AddListing(k)
      PROVE  Routes(catalog, OwnersOf)' /\ SeenIsOffered'
  <2>1. Routes(catalog, OwnersOf)' /\ \A n \in Name : Owners(n) \subseteq Owners(n)'
    BY <1>1, AddKeepsRoutes
  <2>2. seen' = seen
    BY <1>1 DEF AddListing
  <2> QED BY <2>1, <2>2 DEF SeenIsOffered
<1> DEFINE Quiet == \/ \E p \in Provider, names \in SUBSET Name : Register(p, names)
                    \/ RegisterEnds
                    \/ \E s \in Session : Index(s)
                    \/ UNCHANGED vars
<1>2. ASSUME Quiet PROVE Routes(catalog, OwnersOf)' /\ SeenIsOffered'
  <2>1. Types /\ Lock
    BY DEF Book
  <2>2. \A n \in Name : Owners(n)' = Owners(n)
    BY <1>2, <2>1, ExposesOtherwise DEF Owners
  <2>3. catalog' = catalog /\ OwnersOf' = OwnersOf
    BY <1>2, <2>2 DEF OwnersOf, Register, RegisterEnds, Index, vars
  <2>4. Routes(catalog, OwnersOf)'
    BY <2>3 DEF Routes, Placement, Origin, Clash
  <2>5. SeenIsOffered'
    <3>1. CASE seen' = seen
      BY <2>2, <3>1 DEF SeenIsOffered
    <3>2. ASSUME NEW s \in Session, Index(s) PROVE SeenIsOffered'
      <4> SUFFICES ASSUME NEW t \in Session, NEW e \in Exposed, seen'[t][e] # NoEntry
                   PROVE  \E n \in Name : \E p \in Owners(n) :
                             seen'[t][e] = At(p, n) /\ e \in {n, qualified[p][n]}
        BY <2>2 DEF SeenIsOffered
      <4>1. CASE t = s
        <5>1. seen'[t][e] = catalog[e] /\ catalog[e] # NoEntry
          BY <2>1, <3>2, <4>1 DEF Index, Visible, Types
        <5>2. PICK n \in Name : \E p \in Owners(n) :
                      catalog[e] = At(p, n) /\ e = NameIn(Owners(n), p, n)
          BY <5>1, OwnersAreProviders DEF Routes, Origin
        <5> QED BY <5>1, <5>2 DEF NameIn
      <4>2. CASE t # s
        BY <2>1, <3>2, <4>2 DEF Index, Types, SeenIsOffered
      <4> QED BY <4>1, <4>2
    <3> QED BY <1>2, <3>1, <3>2 DEF Register, RegisterEnds, vars
  <2> QED BY <2>4, <2>5
<1> QED BY <1>1, <1>2 DEF Next

\* A clash of owners is an ambiguous name.
LEMMA ClashIsAmbiguous ==
    ASSUME NEW e, Clash(OwnersOf, e)
    PROVE  Ambiguous(e)
<1>1. \A n \in Name : \A p : p \in OwnersOf[n] <=> p \in Provider /\ Exposes(p, n)
  BY DEF OwnersOf, Owners
<1>2. PICK n \in Name : \E q \in OwnersOf[n] : \E m \in Name : \E p \in OwnersOf[m] :
        /\ p # q \/ m # n
        /\ e = qualified[p][m]
        /\ e \in {n, qualified[q][n]}
  BY DEF Clash
<1>3. PICK q \in OwnersOf[n] : \E m \in Name : \E p \in OwnersOf[m] :
        /\ p # q \/ m # n
        /\ e = qualified[p][m]
        /\ e \in {n, qualified[q][n]}
  BY <1>2
<1>4. PICK m \in Name : \E p \in OwnersOf[m] :
        /\ p # q \/ m # n
        /\ e = qualified[p][m]
        /\ e \in {n, qualified[q][n]}
  BY <1>3
<1>5. PICK p \in OwnersOf[m] :
        /\ p # q \/ m # n
        /\ e = qualified[p][m]
        /\ e \in {n, qualified[q][n]}
  BY <1>4
<1>6. p \in Provider /\ q \in Provider /\ Exposes(p, m) /\ Exposes(q, n)
  BY <1>1
<1> QED BY <1>5, <1>6 DEF Ambiguous

\* Every entry is a capability under the name the documentation gives it, and every
\* capability whose names are not ambiguous has its entry, whatever the order of
\* registrations and of their listings (registry.rs, step 5).
THEOREM CatalogTheorem == Spec => []CatalogIsCanonical
<1>1. ASSUME Canonical PROVE CatalogIsCanonical
  <2>1. \A p \in Provider, n \in Name : Exposes(p, n) <=> p \in Owners(n)
    BY DEF Owners
  <2>2. \A p, n : NameOf(p, n) = NameIn(Owners(n), p, n)
    BY DEF NameOf, NameIn
  <2>3. ASSUME NEW p \in Provider, NEW n \in Name, Exposes(p, n)
        PROVE  \/ catalog[NameOf(p, n)] = [provider |-> p, local |-> n]
               \/ Ambiguous(n)
               \/ Ambiguous(qualified[p][n])
    <3>1. \/ catalog[NameIn(Owners(n), p, n)] = At(p, n)
          \/ Clash(OwnersOf, n)
          \/ Clash(OwnersOf, qualified[p][n])
      BY <1>1, <2>1, <2>3, OwnersAreProviders DEF Canonical, Routes, Placement
    <3> QED BY <2>2, <3>1, ClashIsAmbiguous DEF At
  <2>4. ASSUME NEW e \in Exposed, catalog[e] # NoEntry
        PROVE  /\ Exposes(catalog[e].provider, catalog[e].local)
               /\ e = NameOf(catalog[e].provider, catalog[e].local)
    <3>1. PICK n \in Name : \E p \in Owners(n) :
                  catalog[e] = At(p, n) /\ e = NameIn(Owners(n), p, n)
      BY <1>1, <2>4, OwnersAreProviders DEF Canonical, Routes, Origin
    <3>2. PICK p \in Owners(n) : catalog[e] = At(p, n) /\ e = NameIn(Owners(n), p, n)
      BY <3>1
    <3>3. p \in Provider /\ catalog[e].provider = p /\ catalog[e].local = n
      BY <3>2 DEF At, Owners
    <3> QED BY <2>1, <2>2, <3>2, <3>3
  <2> QED BY <2>3, <2>4 DEF CatalogIsCanonical
<1> QED BY <1>1, CanonicalInit, CanonicalNext, PTL DEF Spec

\* A name that is not ambiguous never comes to mean another capability than the one a
\* client has seen under it (registry.rs, promotion leaves the bare name free).
THEOREM MeaningTheorem == Spec => []NamesKeepTheirMeaning
<1>1. ASSUME Canonical PROVE NamesKeepTheirMeaning
  <2> SUFFICES ASSUME NEW s \in Session, NEW e \in Exposed,
                      seen[s][e] # NoEntry, catalog[e] # NoEntry
               PROVE  catalog[e] = seen[s][e] \/ Ambiguous(e)
    BY DEF NamesKeepTheirMeaning
  <2>1. PICK m \in Name : \E q \in Owners(m) :
                seen[s][e] = At(q, m) /\ e \in {m, qualified[q][m]}
    BY <1>1 DEF Canonical, SeenIsOffered
  <2>2. PICK q \in Owners(m) : seen[s][e] = At(q, m) /\ e \in {m, qualified[q][m]}
    BY <2>1
  <2>3. PICK n \in Name : \E p \in Owners(n) :
                catalog[e] = At(p, n) /\ e = NameIn(Owners(n), p, n)
    BY <1>1, OwnersAreProviders DEF Canonical, Routes, Origin
  <2>4. PICK p \in Owners(n) : catalog[e] = At(p, n) /\ e = NameIn(Owners(n), p, n)
    BY <2>3
  <2>5. p \in OwnersOf[n] /\ q \in OwnersOf[m]
    BY OwnersAreProviders
  <2>6. CASE p = q /\ m = n
    BY <2>2, <2>4, <2>6
  <2>7. CASE (p # q \/ m # n) /\ e = qualified[p][n]
    <3>1. Clash(OwnersOf, e)
      BY <2>2, <2>5, <2>7, ClashOf
    <3> QED BY <3>1, ClashIsAmbiguous
  <2>8. CASE (p # q \/ m # n) /\ e = n /\ e = qualified[q][m]
    <3>1. Clash(OwnersOf, e)
      BY <2>5, <2>8, ClashOf
    <3> QED BY <3>1, ClashIsAmbiguous
  <2>9. CASE Owners(n) = {p} /\ e = n /\ e = m
    BY <2>2, <2>4, <2>9
  <2> QED BY <2>2, <2>4, <2>6, <2>7, <2>8, <2>9 DEF NameIn
<1> QED BY <1>1, CanonicalInit, CanonicalNext, PTL DEF Spec

\* A session starts under a name what its index shows there, and nothing under the
\* others (registry.rs, index_for_capabilities; engine.rs, capability payload).
THEOREM DiscoveryTheorem == Spec => []SeesWhatItStarts
<1>1. ASSUME Canonical PROVE SeesWhatItStarts
  <2> SUFFICES ASSUME adding = NoProvider, NEW s \in Session, NEW e \in Exposed
               PROVE  Starts(s, e) = Visible(s)[e] /\ Describes(s, e) = Visible(s)[e]
    BY DEF SeesWhatItStarts
  <2>1. Visible(s)[e] = IF DiscoveryPermitted(s, e) THEN catalog[e] ELSE NoEntry
    BY DEF Visible
  <2>2. Resolve(e) = catalog[e]
    <3>1. CASE catalog[e] = NoEntry
      BY <3>1 DEF Resolve
    <3>2. CASE catalog[e] # NoEntry
      <4>1. PICK n \in Name : \E p \in Owners(n) :
                    catalog[e] = At(p, n) /\ e = NameIn(Owners(n), p, n)
        BY <1>1, <3>2, OwnersAreProviders DEF Canonical, Routes, Origin
      <4>2. PICK p \in Owners(n) : catalog[e] = At(p, n)
        BY <4>1
      <4>3. p \in providers /\ n \in offers[p]
        BY <4>2, RegistryAssumption DEF Owners, Exposes
      <4>4. catalog[e].provider = p /\ catalog[e].local = n
        BY <4>2 DEF At
      <4> QED BY <3>2, <4>3, <4>4 DEF Resolve
    <3> QED BY <3>1, <3>2
  <2> QED BY <2>1, <2>2 DEF Starts, Describes, DiscoveryPermitted
<1> QED BY <1>1, CanonicalInit, CanonicalNext, PTL DEF Spec

=============================================================================
