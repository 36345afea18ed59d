----------------------- MODULE MCNamespaceReconciler -----------------------
(* TLC instances of NamespaceReconciler.                                   *)
EXTENDS NamespaceReconciler

CONSTANTS p1, s1, s2, x, y

OwnStems == [p \in Profile |-> p]
SharedStem == [p \in Profile |-> "stem"]

Contains(rq, lr) == [rq |-> rq, lr |-> lr]

(* The profile p1 may have these, the other one those.                     *)
Menu(these, those) == [p \in Profile |-> IF p = p1 THEN these ELSE those]

(* A quota is added, dropped or changed, a LimitRange added or dropped; in *)
(* between, the LimitRanges are fewer than the quotas.                     *)
GrowingContents ==
  Menu({Contains(<<>>, <<>>), Contains(<<s1>>, <<>>), Contains(<<s2>>, <<s1>>)},
       {Contains(<<s2>>, <<s1>>)})

(* Quotas and LimitRanges come and go, and the latter may be fewer.        *)
PairContents ==
  LET few == Contains(<<s1>>, <<s1>>)
      many == Contains(<<s2, s1>>, <<s2, s1>>)
      fewer == Contains(<<s2, s1>>, <<s2>>)
  IN Menu({few, many, fewer}, {many})

(* As many quotas as LimitRanges.                                          *)
SteadyRangeContents == Menu({Contains(<<s1>>, <<s1>>)}, {})

(* A profile with a LimitRange and no ResourceQuota.                       *)
RangeOnlyContents == Menu({Contains(<<>>, <<s1>>)}, {})

(* Names of users: one without an index; one that nothing can be read from *)
(* and one with an index by chance; none.                                  *)
Unnumbered == [n \in {x} |-> NoIndex]
PanicOrNumber == [n \in {x, y} |-> IF n = x THEN Panics ELSE 1]
NoForeign == [n \in {} |-> NoIndex]

With(labels) == [label : labels, spec : {s1}]
Nobodys == {}
Plain == With({NoLabel})
PlainOrOwn == With({NoLabel, p1})
PlainEmptyOrOwn == With({NoLabel, EmptyLabel, p1})
=============================================================================
