-------------------- MODULE NamespaceDefaulterRefinement --------------------
(***************************************************************************)
(* A review by the Namespace defaulter implements the assignment policy:   *)
(* what the loop computes item by item, over a list in one of many orders  *)
(* and a cache that may move, is one decision of AssignmentPolicy.  The    *)
(* refusals it knows are the only ones.                                    *)
(***************************************************************************)
EXTENDS NamespaceDefaulterProofs

-----------------------------------------------------------------------------
(* The policy's operators under the mapping.                               *)

LEMMA PolicyReads ==
  /\ \A id : Policy!SplitProfileID(id) = SplitProfileID(id)
  /\ \A objects, id : Policy!Found(objects, id) <=> Found(objects, id)
  /\ Policy!Request = Request
BY DEF Policy!SplitProfileID, SplitProfileID, Policy!Found, Found, Policy!Request,
       Request, Policy!ProfileLabel, ProfileLabel

LEMMA PolicySets ==
  /\ Policy!Live = Live
  /\ Policy!Naming = NameMatches
  /\ Policy!Labelling = LabelMatches
  /\ Policy!Holder = SplitProfileID(request.profile)
  /\ Policy!Dangling <=> request.profile # NoLabel /\ ~Found(listed, request.profile)
  /\ \A p, q : Policy!Outranks(p, q) <=> Outranks(p, q)
  /\ \A p : Policy!EmptySelector(p) <=> HasNoKey(listed[p])
<1>1. Policy!Live = Live
  BY DEF Policy!Live, Live, Stored
<1>2. Policy!Naming = NameMatches
  BY <1>1 DEF Policy!Naming, NameMatches, NamedBy
<1>3. Policy!Labelling = LabelMatches
  BY <1>1 DEF Policy!Labelling, LabelMatches, LabelledBy
<1>4. Policy!Holder = SplitProfileID(request.profile)
  BY PolicyReads DEF Policy!Holder
<1>5. Policy!Dangling <=> request.profile # NoLabel /\ ~Found(listed, request.profile)
  BY PolicyReads DEF Policy!Dangling
<1>6. \A p, q : Policy!Outranks(p, q) <=> Outranks(p, q)
  BY DEF Policy!Outranks, Outranks
<1>7. \A p : Policy!EmptySelector(p) <=> HasNoKey(listed[p])
  BY DEF Policy!EmptySelector, HasNoKey
<1> QED BY <1>1, <1>2, <1>3, <1>4, <1>5, <1>6, <1>7

(* A label that reads back names a stored profile, and is its key.         *)
LEMMA FoundReads ==
  ASSUME NEW objects, NEW id, Found(objects, id)
  PROVE  /\ SplitProfileID(id) = id
         /\ id \in Profile \ Dotted
         /\ id \in Stored(objects)
BY ProfileAssumption DEF Found, SplitProfileID, Stored

(* No profile comes twice in the sorted list: it has as many items as      *)
(* there are profiles, and every one of them.                              *)
LEMMA SortedIsInjective ==
  ASSUME NEW objects, NEW s \in Sorted(objects)
  PROVE  \A j, k \in 1..Len(s) : s[j] = s[k] => j = k
<1> DEFINE n == Cardinality(Stored(objects))
<1>1. n \in Nat
  BY StoredFinite
<1>2. s \in Surjection(1..n, Stored(objects))
  BY DEF Sorted, Surjection
<1>3. IsFiniteSet(1..n) /\ Cardinality(1..n) = n
  BY <1>1, FS_Interval
<1>4. s \in Injection(1..n, Stored(objects))
  BY <1>2, <1>3, FS_SurjSameCardinalityImpliesInj
<1>5. Len(s) = n /\ DOMAIN s = 1..n
  BY <1>2, SortedIsSeq DEF Surjection
<1> QED BY <1>4, <1>5 DEF Injection, IsInjective

-----------------------------------------------------------------------------
(* The invariant: what the loop has decided so far is what the policy      *)
(* would decide of the items it has passed.                                *)

(* The label submitted names no stored profile; or one that has more       *)
(* precedence than all matches, though it is none itself.                  *)
Dangles == request.profile # NoLabel /\ ~Found(listed, request.profile)

Stays ==
  /\ Found(listed, request.profile)
  /\ request.profile \notin LabelMatches
  /\ \A q \in LabelMatches :
       listed[request.profile].precedence > listed[q].precedence

PassedMatches == {p \in LabelMatches : \E j \in 1..(i - 1) : items[j] = p}

(* The label still is the one submitted, and beats every match passed so   *)
(* far; or it is a match that outranks them, and the one submitted cannot  *)
(* stay.                                                                   *)
Holds ==
  /\ label = request.profile
  /\ Found(listed, request.profile)
  /\ \A q \in PassedMatches : listed[label].precedence > listed[q].precedence

Leads ==
  /\ label \in LabelMatches
  /\ \A q \in PassedMatches : Outranks(label, q)
  /\ ~Stays

DecidedInv ==
  pc = "loop" =>
    /\ \A j, k \in 1..Len(items) : items[j] = items[k] => j = k
    /\ IF matched THEN label \in {request.profile} \cup PassedMatches
                  ELSE label = request.profile
    /\ matched => label # NoLabel
    /\ drift = 0 /\ matched => ~Dangles /\ (Holds \/ Leads)

RefusalInv == pc = "denied" => Policy!Refusable

RInv == TypeOK /\ IInv /\ DecidedInv /\ RefusalInv

(* These are about the list and the request, which the loop leaves alone.  *)
LEMMA DecisionFrame ==
  ASSUME UNCHANGED <<listed, request>>
  PROVE  (Dangles' <=> Dangles) /\ (Stays' <=> Stays)
<1>1. LabelMatches' = LabelMatches
  BY Frame
<1> QED BY <1>1 DEF Dangles, Stays, Found

(* An iteration that goes on has passed its item, too.                     *)
LEMMA PassingOne ==
  ASSUME TypeOK, pc = "loop", i \in 1..Len(items), Continue
  PROVE  /\ PassedMatches' = PassedMatches \cup ({items[i]} \cap LabelMatches)
         /\ LabelMatches' = LabelMatches
         /\ UNCHANGED <<listed, request, items, drift, store>>
         /\ pc' = "loop"
         /\ (Dangles' <=> Dangles) /\ (Stays' <=> Stays)
<1>1. /\ i' = i + 1 /\ pc' = "loop"
      /\ UNCHANGED <<store, request, listed, items, drift>>
  BY DEF Continue
<1>2. LabelMatches' = LabelMatches /\ (Dangles' <=> Dangles) /\ (Stays' <=> Stays)
  BY <1>1, Frame, DecisionFrame
<1>3. i \in Nat
  OBVIOUS
<1>4. 1..(i' - 1) = 1..(i - 1) \cup {i}
  BY <1>1, <1>3
<1>5. PassedMatches' = {p \in LabelMatches : \E j \in 1..(i - 1) \cup {i} : items[j] = p}
  BY <1>1, <1>2, <1>4 DEF PassedMatches
<1> QED BY <1>1, <1>2, <1>5 DEF PassedMatches

(* Passing an item whose selector does not match decides nothing.          *)
LEMMA SkipDecides ==
  ASSUME RInv, SkipDeleting \/ \E p \in Profile : SkipUnmatched(p)
  PROVE  DecidedInv'
<1>1. pc = "loop" /\ i \in 1..Len(items) /\ items[i] \notin LabelMatches
  <2>1. CASE SkipDeleting
    BY <2>1 DEF SkipDeleting, RInv, TypeOK, LabelMatches, Live
  <2>2. CASE \E p \in Profile : SkipUnmatched(p)
    BY <2>2, VisitingFacts DEF SkipUnmatched, RInv, IInv
  <2> QED BY <2>1, <2>2
<1>2. Continue /\ UNCHANGED <<label, matched>>
  BY DEF SkipDeleting, SkipUnmatched
<1>3. /\ PassedMatches' = PassedMatches /\ LabelMatches' = LabelMatches
      /\ UNCHANGED <<listed, request, items, drift>>
      /\ (Dangles' <=> Dangles) /\ (Stays' <=> Stays)
  BY <1>1, <1>2, PassingOne DEF RInv
<1>4. (Holds' <=> Holds) /\ (Leads' <=> Leads)
  BY <1>2, <1>3 DEF Holds, Leads, Outranks, Found
<1> QED BY <1>1, <1>2, <1>3, <1>4 DEF DecidedInv, RInv

(* The item at hand matches: it gets the label, or the holder keeps it.    *)
LEMMA MatchDecides ==
  ASSUME RInv, NEW p \in Profile, Visiting(p), LabelledBy(listed[p]),
         Continue, matched' = TRUE,
         \/ label' = p /\ (label = NoLabel \/ SplitProfileID(label) = p)
         \/ /\ label' = label
            /\ Found(store, label)
            /\ KeepsExisting(store[label], listed[p])
         \/ /\ label' = p
            /\ Found(store, label)
            /\ ~KeepsExisting(store[label], listed[p])
  PROVE  DecidedInv'
<1> USE DEF RInv
<1>1. /\ pc = "loop" /\ i \in 1..Len(items) /\ items[i] = p
      /\ p \in LabelMatches /\ p \in Stored(listed)
      /\ LoopInv /\ ListInv /\ PassedInv /\ RankInv
  BY VisitingFacts DEF IInv, Live
<1>2. /\ PassedMatches' = PassedMatches \cup {p}
      /\ LabelMatches' = LabelMatches
      /\ UNCHANGED <<listed, request, items, drift, store>>
      /\ (Dangles' <=> Dangles) /\ (Stays' <=> Stays)
  BY <1>1, PassingOne
<1>3. NoLabel \notin Profile /\ LabelMatches \subseteq Stored(listed)
  BY ProfileAssumption DEF LabelMatches, Live
<1>4. label \in {request.profile} \cup PassedMatches
  BY <1>1 DEF DecidedInv
<1>5. label' \in {request.profile} \cup PassedMatches'
  BY <1>2, <1>4
<1>6. label' # NoLabel
  BY <1>3, FoundReads
<1>7. ASSUME drift = 0 PROVE ~Dangles /\ (Holds' \/ Leads')
  <2>1. store = listed
    BY <1>1, <1>7 DEF RankInv
  <2>2. matched \/ label = request.profile
    BY <1>1 DEF DecidedInv
  <2>3. matched => ~Dangles /\ (Holds \/ Leads)
    BY <1>1, <1>7 DEF DecidedInv
  <2>4. ~matched => PassedMatches = {}
    BY <1>1 DEF PassedInv, PassedMatches
  <2>5. \A q \in LabelMatches :
          listed[q].precedence \in Nat /\ listed[q].created \in Nat
    BY <1>3, ListedObject
  <2>6. \A q \in PassedMatches : listed[q].created <= listed[p].created
    <3> SUFFICES ASSUME NEW j \in 1..(i - 1)
                 PROVE  listed[items[j]].created <= listed[p].created
      BY DEF PassedMatches
    <3>1. j \in 1..Len(items) /\ j < i
      BY <1>1 DEF TypeOK
    <3> QED BY <1>1, <3>1 DEF ListInv
  <2>7. PassedMatches \subseteq LabelMatches
    BY DEF PassedMatches
  <2>8. Outranks(p, p)
    BY <1>1, OutranksOrder
  <2>9. ASSUME label' = p, ~Stays, \A q \in PassedMatches : Outranks(p, q)
        PROVE  Leads'
    BY <1>1, <1>2, <2>8, <2>9 DEF Leads, Outranks
  <2>10. CASE label = NoLabel
    <3>1. label' = p /\ ~matched /\ request.profile = NoLabel
      BY <1>1, <1>3, <2>2, <2>10, FoundReads DEF DecidedInv
    <3>2. ~Found(listed, request.profile)
      BY <1>3, <3>1, FoundReads
    <3> QED BY <2>4, <2>9, <3>1, <3>2 DEF Stays, Dangles
  <2>11. CASE label = p
    <3>1. label' = p
      BY <2>11
    <3>2. CASE matched
      <4>1. CASE Leads
        BY <2>3, <2>9, <2>11, <3>1, <3>2, <4>1 DEF Leads
      <4>2. CASE Holds
        <5>1. request.profile = p /\ ~Stays
          BY <1>1, <2>11, <4>2 DEF Holds, Stays
        <5>2. \A q \in PassedMatches : Outranks(p, q)
          BY <2>11, <4>2 DEF Holds, Outranks
        <5> QED BY <2>3, <2>9, <3>1, <3>2, <5>1, <5>2
      <4> QED BY <2>3, <3>2, <4>1, <4>2
    <3>3. CASE ~matched
      <4>1. request.profile = p /\ ~Stays
        BY <1>1, <2>2, <2>11, <3>3 DEF Stays
      <4>2. SplitProfileID(p) = p
        BY <1>3, <2>11, FoundReads
      <4>3. Found(listed, p)
        BY <1>1, <4>2 DEF Found, Stored
      <4> QED BY <2>4, <2>9, <3>1, <3>3, <4>1, <4>3 DEF Dangles
    <3> QED BY <3>2, <3>3
  <2>12. CASE label \notin {NoLabel, p}
    <3>1. Found(listed, label) /\ label \in Stored(listed)
      BY <1>3, <2>1, <2>12, SplitProfileIDReads, FoundReads
    <3>2. listed[label].precedence \in Nat /\ listed[label].created \in Nat
      BY <3>1, ListedObject
    <3>3. ~Dangles
      BY <2>2, <2>3, <3>1 DEF Dangles
    <3>4. Holds \/ Leads
      BY <2>2, <2>3, <2>4, <3>1 DEF Holds
    <3>5. CASE label' = label /\ KeepsExisting(listed[label], listed[p])
      <4>1. listed[label].precedence > listed[p].precedence
        BY <3>5 DEF KeepsExisting
      <4>2. CASE Holds
        BY <1>2, <3>3, <3>5, <4>1, <4>2 DEF Holds, Found
      <4>3. CASE Leads
        BY <1>1, <1>2, <3>3, <3>5, <4>1, <4>3 DEF Leads, Outranks
      <4> QED BY <3>3, <3>4, <4>2, <4>3
    <3>6. CASE label' = p /\ ~KeepsExisting(listed[label], listed[p])
      <4>1. listed[label].precedence <= listed[p].precedence
        BY <1>1, <2>5, <3>2, <3>6 DEF KeepsExisting
      <4>2. \A q \in PassedMatches : listed[q].precedence <= listed[label].precedence
        BY <2>5, <2>7, <3>2, <3>4 DEF Holds, Leads, Outranks
      <4>3. \A q \in PassedMatches : Outranks(p, q)
        BY <1>1, <2>5, <2>6, <2>7, <3>2, <4>1, <4>2 DEF Outranks
      <4>4. ~Stays
        BY <1>1, <2>5, <3>2, <3>4, <4>1 DEF Holds, Leads, Stays
      <4> QED BY <2>9, <3>3, <3>6, <4>3, <4>4
    <3>7. SplitProfileID(label) # p
      BY <1>3, <2>12, SplitProfileIDReads
    <3> QED BY <2>1, <2>12, <3>5, <3>6, <3>7
  <2> QED BY <2>10, <2>11, <2>12
<1> QED BY <1>1, <1>2, <1>5, <1>6, <1>7, PassingOne DEF DecidedInv

(* A cache event ends what holds over a still cache only.                  *)
LEMMA InformerDecides ==
  ASSUME RInv, Informer
  PROVE  DecidedInv'
<1>1. UNCHANGED ReviewState /\ (pc = "loop" => drift' = drift + 1)
  BY DEF Informer, CacheAdd, CacheUpdate, CacheDelete, Drift
<1>2. UNCHANGED <<pc, request, listed, items, i, label, matched>>
  BY <1>1 DEF ReviewState
<1>3. LabelMatches' = LabelMatches
  BY <1>2, Frame
<1>4. PassedMatches' = PassedMatches
  BY <1>2, <1>3 DEF PassedMatches
<1>5. pc = "loop" => drift' # 0
  BY <1>1, DriftAssumption DEF RInv, TypeOK
<1> QED BY <1>2, <1>4, <1>5 DEF DecidedInv, RInv

LEMMA BeginDecides ==
  ASSUME RInv, Begin
  PROVE  DecidedInv'
<1>1. PICK s \in Sorted(store) : items' = s
  BY DEF Begin
<1>2. matched' = FALSE /\ \E r \in Request : request' = r /\ label' = r.profile
  BY DEF Begin
<1> QED BY <1>1, <1>2, SortedIsInjective DEF DecidedInv

(* A refusal has a reason the policy knows.                                *)
LEMMA RefusalKnown ==
  ASSUME RInv, NEW p \in Profile, ConflictError(p) \/ Panic(p)
  PROVE  Policy!Refusable
<1> USE DEF RInv
<1>1. Visiting(p) /\ LoopInv
  BY DEF ConflictError, Panic, IInv
<1>2. /\ pc = "loop" /\ i \in 1..Len(items) /\ items[i] = p
      /\ p \in Live
      /\ ListInv /\ PassedInv /\ RankInv
      /\ p \in NameMatches <=> NamedBy(listed[p])
      /\ p \in LabelMatches <=> LabelledBy(listed[p])
  BY <1>1, VisitingFacts
<1>3. CASE HasNoKey(listed[p])
  BY <1>2, <1>3, PolicySets DEF Policy!Refusable
<1>4. CASE NamedBy(listed[p]) /\ request.bare
  BY <1>2, <1>4, PolicySets DEF Policy!Refusable
<1>5. CASE ConflictError(p)
  <2>1. /\ p \in LabelMatches /\ label # NoLabel
        /\ SplitProfileID(label) # p /\ ~Found(store, label)
    BY <1>2, <1>5 DEF ConflictError
  <2>2. ASSUME drift = 0
        PROVE  Dangles \/ \E q \in LabelMatches \cap Dotted : LabelMatches # {q}
    <3>1. store = listed
      BY <1>2, <2>2 DEF RankInv
    <3>2. CASE label = request.profile
      BY <2>1, <3>1, <3>2 DEF Dangles
    <3>3. CASE label # request.profile
      <4>1. matched /\ label \in PassedMatches
        BY <1>2, <3>3 DEF DecidedInv
      <4>2. PICK j \in 1..(i - 1) : items[j] = label
        BY <4>1 DEF PassedMatches
      <4>3. label # p
        BY <1>2, <4>2 DEF DecidedInv, TypeOK
      <4>4. label \in LabelMatches /\ label \in Stored(listed)
        BY <4>1 DEF PassedMatches, LabelMatches, Live
      <4>5. label \in Dotted
        BY <2>1, <3>1, <4>4 DEF Found, SplitProfileID, Stored
      <4> QED BY <2>1, <4>3, <4>4, <4>5
    <3> QED BY <3>2, <3>3
  <2> QED BY <2>1, <2>2, PolicySets DEF Policy!Refusable, Dangles
<1> QED BY <1>3, <1>4, <1>5 DEF Panic

LEMMA RefusableFrame ==
  ASSUME UNCHANGED <<listed, request, drift>>
  PROVE  Policy!Refusable' <=> Policy!Refusable
BY DEF Policy!Refusable, Policy!Live, Policy!EmptySelector, Policy!Naming,
       Policy!Labelling, Policy!Dangling, Policy!Found

(* What the loop knows and what the policy would decide hold together.     *)
LEMMA Decision == Spec => []RInv
<1>1. Init => DecidedInv /\ RefusalInv
  BY DEF Init, DecidedInv, RefusalInv
<1>2. RInv /\ [Next]_vars => DecidedInv' /\ RefusalInv'
  <2> SUFFICES ASSUME RInv, [Next]_vars PROVE DecidedInv' /\ RefusalInv'
    OBVIOUS
  <2>1. CASE Informer
    <3>1. UNCHANGED <<pc, request, listed>>
      BY <2>1 DEF Informer, CacheAdd, CacheUpdate, CacheDelete, ReviewState
    <3>2. pc # "denied"
      BY <2>1 DEF Informer, CacheAdd, CacheUpdate, CacheDelete, Drift
    <3> QED BY <2>1, <3>1, <3>2, InformerDecides DEF RefusalInv
  <2>2. CASE Begin
    <3>1. pc' = "loop"
      BY <2>2 DEF Begin
    <3> QED BY <2>2, <3>1, BeginDecides DEF RefusalInv
  <2>3. CASE SkipDeleting \/ \E p \in Profile : SkipUnmatched(p)
    <3>1. pc' = "loop"
      BY <2>3 DEF SkipDeleting, SkipUnmatched, Visiting, Continue
    <3> QED BY <2>3, <3>1, SkipDecides DEF RefusalInv
  <2>4. CASE \E p \in Profile : MatchLabels(p) \/ ResolveConflict(p)
    <3>1. PICK p \in Profile : MatchLabels(p) \/ ResolveConflict(p)
      BY <2>4
    <3>2. Visiting(p) /\ LabelledBy(listed[p]) /\ Continue /\ matched' = TRUE
      BY <3>1 DEF MatchLabels, ResolveConflict
    <3>3. pc' = "loop"
      BY <3>2 DEF Visiting, Continue
    <3>4. CASE MatchLabels(p)
      <4>1. label' = p /\ (label = NoLabel \/ SplitProfileID(label) = p)
        BY <3>4 DEF MatchLabels, SetQuotaProfileLabels
      <4> QED BY <3>2, <3>3, <4>1, MatchDecides DEF RefusalInv
    <3>5. CASE ResolveConflict(p)
      <4>1. Found(store, label) /\ SplitProfileID(label) = label
        BY <3>5, FoundReads DEF ResolveConflict
      <4>2. \/ label' = label /\ KeepsExisting(store[label], listed[p])
            \/ label' = p /\ ~KeepsExisting(store[label], listed[p])
        BY <3>5, <4>1 DEF ResolveConflict, SetQuotaProfileLabels
      <4> QED BY <3>2, <3>3, <4>1, <4>2, MatchDecides DEF RefusalInv
    <3> QED BY <3>1, <3>4, <3>5
  <2>5. CASE \E p \in Profile : ConflictError(p) \/ Panic(p)
    <3>1. PICK p \in Profile : ConflictError(p) \/ Panic(p)
      BY <2>5
    <3>2. pc' = "denied" /\ UNCHANGED <<request, listed, drift>>
      BY <3>1 DEF ConflictError, Panic, Answer
    <3>3. Policy!Refusable'
      BY <3>1, <3>2, RefusalKnown, RefusableFrame
    <3> QED BY <3>2, <3>3 DEF DecidedInv, RefusalInv
  <2>6. CASE (\E p \in Profile : MatchName(p)) \/ Finish \/ Respond
    BY <2>6 DEF MatchName, Finish, Respond, Answer, DecidedInv, RefusalInv
  <2>7. CASE UNCHANGED vars
    BY <2>7 DEF vars, RInv, DecidedInv, RefusalInv, Holds, Leads, Stays, Dangles, Outranks,
                PassedMatches, LabelMatches, Live, Stored, LabelledBy, Found,
                Policy!Refusable, Policy!Live, Policy!EmptySelector, Policy!Naming,
                Policy!Labelling, Policy!Dangling, Policy!Found
  <2> QED BY <2>1, <2>2, <2>3, <2>4, <2>5, <2>6, <2>7 DEF Next, Default
<1> QED BY <1>1, <1>2, TypeCorrect, Invariance, PTL DEF Spec, RInv

(* A review over a still cache refuses only a Namespace without a label    *)
(* map, one whose label names no stored profile, and any Namespace while a *)
(* selector is empty or a profile with a dotted name competes for it.      *)
THEOREM RefusalsHaveReasons == Spec => []CleanReviewAdmitted
<1>1. RInv => CleanReviewAdmitted
  BY PolicySets DEF RInv, RefusalInv, CleanReviewAdmitted, Policy!Refusable
<1> QED BY <1>1, Decision, PTL

-----------------------------------------------------------------------------
(* The refinement.                                                         *)

(* The first name match is the oldest.                                     *)
LEMMA NameGranted ==
  ASSUME RInv, NEW p \in Profile, MatchName(p)
  PROVE  label' \in Policy!Granted
<1>1. /\ Visiting(p) /\ NamedBy(listed[p]) /\ LoopInv
      /\ label' = p /\ pc' = "admitted"
      /\ UNCHANGED <<listed, request>>
  BY DEF MatchName, RInv, IInv, Answer, SetQuotaProfileLabels
<1>2. p \in NameMatches
  BY <1>1, VisitingFacts DEF RInv
<1>3. NameMatches' = NameMatches
  BY <1>1, Frame
<1>4. IInv'
  BY MatchNameKeeps DEF RInv
<1>5. \A q \in NameMatches : listed[p].created <= listed[q].created
  BY <1>1, <1>2, <1>3, <1>4 DEF IInv, Promises, NameSelectorWins, Admitted
<1> QED BY <1>1, <1>2, <1>5, PolicySets DEF Policy!Granted

(* At the end of the loop all matches have been passed.                    *)
LEMMA FinishGranted ==
  ASSUME RInv, Finish
  PROVE  label' \in Policy!Granted
<1> USE DEF RInv
<1>1. /\ pc = "loop" /\ i > Len(items)
      /\ label' = IF matched THEN label ELSE NoLabel
  BY DEF Finish
<1>2. ListInv /\ PassedInv
  BY <1>1 DEF IInv, LoopInv
<1>3. \A p \in Stored(listed) : \E j \in 1..(i - 1) : items[j] = p
  <2>1. 1..Len(items) \subseteq 1..(i - 1)
    BY <1>1 DEF TypeOK
  <2> QED BY <1>2, <2>1 DEF ListInv
<1>4. NameMatches = {} /\ PassedMatches = LabelMatches
  BY <1>2, <1>3 DEF PassedInv, NameMatches, LabelMatches, PassedMatches, Live
<1>5. matched <=> LabelMatches # {}
  BY <1>2, <1>4 DEF PassedInv, PassedMatches
<1>6. CASE LabelMatches = {}
  BY <1>1, <1>4, <1>5, <1>6, PolicySets DEF Policy!Granted
<1>7. CASE LabelMatches # {}
  <2>1. matched /\ label' = label
    BY <1>1, <1>5, <1>7
  <2>2. label \in (LabelMatches \cup {request.profile}) \ {NoLabel}
    BY <1>1, <1>4, <2>1 DEF DecidedInv
  <2>3. CASE drift # 0
    BY <1>4, <1>7, <2>1, <2>2, <2>3, PolicySets DEF Policy!Granted
  <2>4. CASE drift = 0
    <3>1. ~Dangles /\ (Holds \/ Leads)
      BY <1>1, <2>1, <2>4 DEF DecidedInv
    <3>2. Policy!HolderStays <=> Stays
      BY PolicyReads, PolicySets, FoundReads DEF Policy!HolderStays, Stays
    <3>3. LabelMatches \subseteq Stored(listed)
      BY DEF LabelMatches, Live
    <3>4. CASE Stays
      BY <1>4, <1>7, <2>1, <2>4, <3>1, <3>2, <3>4, PolicySets, FoundReads
      DEF Policy!Granted, Dangles, Holds, Leads, Stays
    <3>5. CASE ~Stays
      <4>1. Leads
        <5>1. CASE Holds
          <6>1. request.profile \in LabelMatches
            BY <1>4, <3>5, <5>1 DEF Holds, Stays
          <6>2. listed[request.profile].precedence \in Nat
            BY <3>3, <6>1, ListedObject
          <6> QED BY <1>4, <5>1, <6>1, <6>2 DEF Holds
        <5> QED BY <3>1, <5>1
      <4>2. label \in Policy!Best
        BY <1>4, <4>1, PolicySets DEF Leads, Policy!Best
      <4> QED BY <1>4, <1>7, <2>1, <2>4, <3>1, <3>2, <3>5, <4>2, PolicySets
              DEF Policy!Granted, Dangles
    <3> QED BY <3>4, <3>5
  <2> QED BY <2>3, <2>4
<1> QED BY <1>6, <1>7

(* Every step of the webhook and of the informer is one of the policy, or  *)
(* none: the loop decides nothing before it ends.                          *)
LEMMA StepRefines ==
  ASSUME RInv, [Next]_vars
  PROVE  [Policy!Next]_Policy!vars
<1> USE DEF Policy!vars
<1>1. CASE Informer
  <2>1. PICK p \in Profile : CacheAdd(p) \/ CacheUpdate(p) \/ CacheDelete(p)
    BY <1>1 DEF Informer
  <2>2. PICK o : store' = [store EXCEPT ![p] = o]
    BY <2>1 DEF CacheAdd, CacheUpdate, CacheDelete
  <2>3. store' = [store EXCEPT ![p] = store'[p]]
    BY <2>2 DEF RInv, TypeOK
  <2>4. Drift /\ UNCHANGED <<pc, request, listed, label>>
    BY <2>1 DEF CacheAdd, CacheUpdate, CacheDelete, ReviewState
  <2>5. (drift' = 0) = ((drift = 0) /\ pc = "idle")
    BY <2>4, DriftAssumption DEF Drift, RInv, TypeOK
  <2>6. pc \in {"idle", "loop"}
    BY <2>4 DEF Drift
  <2>7. Policy!Deliver
    BY <2>3, <2>4, <2>5, <2>6 DEF Policy!Deliver
  <2> QED BY <2>7 DEF Policy!Next
<1>2. CASE Begin
  <2>1. Policy!Receive
    BY <1>2, PolicyReads DEF Begin, Policy!Receive
  <2> QED BY <2>1 DEF Policy!Next
<1>3. CASE \/ SkipDeleting
           \/ \E p \in Profile : SkipUnmatched(p) \/ MatchLabels(p) \/ ResolveConflict(p)
  BY <1>3 DEF SkipDeleting, SkipUnmatched, MatchLabels, ResolveConflict, Visiting, Continue
<1>4. CASE (\E p \in Profile : MatchName(p)) \/ Finish
  <2>1. label' \in Policy!Granted
    BY <1>4, NameGranted, FinishGranted
  <2>2. /\ pc = "loop" /\ pc' = "admitted"
        /\ UNCHANGED <<store, request, listed, drift>>
    BY <1>4 DEF MatchName, Finish, Visiting, Answer
  <2>3. Policy!Grant
    BY <2>1, <2>2 DEF Policy!Grant
  <2> QED BY <2>3 DEF Policy!Next
<1>5. CASE \E p \in Profile : ConflictError(p) \/ Panic(p)
  <2>1. Policy!Refusable
    BY <1>5, RefusalKnown
  <2>2. /\ pc = "loop" /\ pc' = "denied"
        /\ UNCHANGED <<store, request, listed, drift>>
    BY <1>5 DEF ConflictError, Panic, Visiting, Answer
  <2>3. Policy!Refuse
    BY <2>1, <2>2 DEF Policy!Refuse
  <2> QED BY <2>3 DEF Policy!Next
<1>6. CASE Respond
  <2>1. Policy!Respond
    BY <1>6 DEF Respond, Policy!Respond
  <2> QED BY <2>1 DEF Policy!Next
<1>7. CASE UNCHANGED vars
  BY <1>7 DEF vars
<1> QED BY <1>1, <1>2, <1>3, <1>4, <1>5, <1>6, <1>7 DEF Next, Default

(* The webhook, with its sort, its loop and its second read of the cache,  *)
(* implements the assignment policy.                                       *)
THEOREM DefaulterImplementsPolicy == Spec => ImplementsPolicy
<1>1. Init => Policy!Init
  BY DEF Init, Policy!Init
<1>2. RInv /\ [Next]_vars => [Policy!Next]_Policy!vars
  BY StepRefines
<1> QED BY <1>1, <1>2, Decision, PTL DEF Spec, ImplementsPolicy, Policy!Spec
=============================================================================
