-------------------------- MODULE MCQuotaOperator --------------------------
(* TLC instances of QuotaOperator.                                         *)
EXTENDS QuotaOperator

CONSTANTS p1, n1, l1, l2, s1, s2

MCPrecedence == {0, 1}
MCInstant == {1, 2}
MCSpecs == {s1, s2}

Made(selector, precedence, specs, created) ==
  [selector |-> selector, precedence |-> precedence, specs |-> specs,
   created |-> created, deleting |-> FALSE]

Named(specs) == Made([kind |-> "matchName", name |-> n1], 0, specs, 1)
ByLabel(l, precedence, created) ==
  Made([kind |-> "matchLabels", labels |-> {l}], precedence, s1, created)

ForNothing(created) ==
  Made([kind |-> "matchLabels", labels |-> {}], 0, s1, created)

(* One profile names the Namespace and changes its quotas; the other asks  *)
(* for it by a label, or has an empty map.                                 *)
NameLabelOrEmpty ==
  [p \in Profile |-> IF p = p1 THEN {Named(s1), Named(s2)}
                               ELSE {ByLabel(l2, 0, 2), ForNothing(2)}]

AllLabelled == {{l1, l2}}
=============================================================================
