----------------------------- MODULE MCRegistry -----------------------------
(***************************************************************************)
(* Instances of Registry for TLC.  Ids and names are sequences of the      *)
(* parts between their colons.  Three providers "a", "b" and "a:b" and two *)
(* local names "x" and "b:x": a name is offered by one, two and three of   *)
(* them, the qualified name of one capability is the bare name of another, *)
(* and two capabilities have the same qualified name.                      *)
(***************************************************************************)
EXTENDS Registry, Sequences

CONSTANTS a, b, x, s

ThreeProviders == {<<a>>, <<b>>, <<a, b>>}
TwoNames == {<<x>>, <<b, x>>}
OneSession == {s}

\* format!("{id}:{n}")
QualifiedNames == [p \in Provider |-> [n \in Name |-> p \o n]]
AllNames == TwoNames \cup {p \o n : p \in Provider, n \in Name}

=============================================================================
