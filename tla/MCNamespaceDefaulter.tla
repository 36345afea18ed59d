------------------------ MODULE MCNamespaceDefaulter ------------------------
(* TLC instances of NamespaceDefaulter.                                    *)
EXTENDS NamespaceDefaulter, TLC

CONSTANTS n1, l1, s1

MCNamespace == {n1}
MCLabel == {l1}
MCPrecedence == {0, 1}
MCInstant == {1, 2}
MCSpecs == {s1}
NoDotted == {}

(* Nothing but the dot in its name tells one profile key from another.     *)
ProfileSymmetry == Permutations(Profile \ Dotted)
=============================================================================
