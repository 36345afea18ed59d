------------------------ MODULE MCProfileAssignment ------------------------
(* TLC instances of ProfileAssignment.                                     *)
EXTENDS ProfileAssignment

CONSTANTS p1, n1, n2, l1, l2, s1

MCPrecedence == {0, 1}
MCInstant == {1, 2}
MCSpecs == {s1}

Made(selector, precedence, created) ==
  [selector |-> selector, precedence |-> precedence, specs |-> s1,
   created |-> created, deleting |-> FALSE]

ByName(n) == [kind |-> "matchName", name |-> n]
ByLabel(l) == [kind |-> "matchLabels", labels |-> {l}]

Named(created) == Made(ByName(n1), 0, created)

(* The profile p1 may be made to be one of these, the others one of those. *)
Menu(these, those) == [p \in Profile |-> IF p = p1 THEN these ELSE those]

(* One asks for a Namespace by name, one for any by a label.               *)
NameAndLabel == {Named(1), Made(ByLabel(l1), 1, 1)}
EitherNameOrLabel == Menu(NameAndLabel, NameAndLabel)

(* And one by another label, or with an empty map.                         *)
ForNothing(created) == Made([kind |-> "matchLabels", labels |-> {}], 0, created)
NamesLabelsOrEmpty == Menu(NameAndLabel, {Named(1), Made(ByLabel(l2), 1, 1), ForNothing(1)})

(* The elder has the higher precedence; or it has the name, or the younger *)
(* an empty map.                                                           *)
Elder == Made(ByLabel(l1), 1, 1)
Younger == Made(ByLabel(l2), 0, 2)
TwoLabels == Menu({Elder}, {Younger})
NameTwoLabelsOrEmpty == Menu({Elder, Named(1)}, {Younger, ForNothing(2)})

NoneOrBoth == {{}, {l1}}
NoneOrAll == {{}, {l1, l2}}
AllLabelled == {{l1, l2}}
=============================================================================
