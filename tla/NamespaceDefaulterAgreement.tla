-------------------- MODULE NamespaceDefaulterAgreement --------------------
(***************************************************************************)
(* The loop of the Namespace defaulter, one step per item, arrives where   *)
(* the review in one step does.  The one-step review stands for the        *)
(* webhook in the models of the controllers, so what they show rests on    *)
(* this.                                                                   *)
(***************************************************************************)
EXTENDS NamespaceDefaulterProofs, NamespaceReviewProofs

LEMMA SameReview ==
  ASSUME NEW objects, NEW name, NEW labels, NEW profile
  PROVE  Atomic!Reviews(objects, name, labels, profile)
           = Reviews(objects, name, labels, profile)
<1>1. Atomic!Orders(objects) = Orders(objects)
  <2>1. Atomic!StoredIn(objects) = StoredIn(objects)
    BY DEF Atomic!StoredIn, StoredIn
  <2>2. \A S : Atomic!Cardinality(S) = Cardinality(S)
    BY DEF Atomic!Cardinality, Cardinality
  <2> QED BY <2>1, <2>2 DEF Atomic!Orders, Orders
<1>2. \A s : Atomic!Loop(objects, name, labels, profile, s)
             = Loop(objects, name, labels, profile, s)
  BY DEF Atomic!Loop, Loop, Atomic!Start, Start, Atomic!Iterate, Iterate,
         Atomic!Names, Names, Atomic!Labels, Labels, Atomic!EmptySelector, EmptySelector,
         Atomic!Conflicts, Conflicts, Atomic!HolderStays, HolderStays,
         Atomic!Found, Found, Atomic!SplitProfileID, SplitProfileID
<1>3. \A at : Atomic!Reply(at) = Reply(at)
  BY DEF Atomic!Reply, Reply
<1> QED BY <1>1, <1>2, <1>3 DEF Atomic!Reviews, Reviews
(* Once the loop has a verdict, further items change nothing.              *)
LEMMA VerdictStays ==
  ASSUME NEW objects, NEW name, NEW labels, NEW profile, NEW s, Len(s) \in Nat,
         NEW j \in 0..Len(s),
         Loop(objects, name, labels, profile, s)[j].verdict # "loop"
  PROVE  Loop(objects, name, labels, profile, s)[Len(s)]
           = Loop(objects, name, labels, profile, s)[j]
<1> DEFINE L == Loop(objects, name, labels, profile, s)
           T == {k \in 0..Len(s) : k < j \/ L[k] = L[j]}
<1>1. 0 \in T
  OBVIOUS
<1>2. ASSUME NEW k \in 0..Len(s), k \in T, k < Len(s) PROVE k + 1 \in T
  <2>1. CASE k + 1 <= j
    BY <1>2, <2>1
  <2>2. CASE ~(k + 1 <= j)
    <3>1. k + 1 \in 1..Len(s) /\ (k + 1) - 1 = k
      BY <1>2
    <3>2. L[k] = L[j]
      BY <1>2, <2>2
    <3>3. L[k + 1] = Iterate(objects, name, labels, L[k], s[k + 1])
      BY <3>1, LoopIs
    <3>4. L[k + 1] = L[k]
      BY <3>2, <3>3 DEF Iterate
    <3> QED BY <3>1, <3>2, <3>4
  <2> QED BY <2>1, <2>2
<1> HIDE DEF T
<1>3. 0..Len(s) \subseteq T
  BY <1>1, <1>2, Induction
<1> QED BY <1>3 DEF T

-----------------------------------------------------------------------------
(* The invariant: while the cache keeps still, label and matched are what  *)
(* the one-step loop has after as many items.                              *)

InOneStep ==
  Loop(listed, request.name, request.labels, request.profile, items)

AgreementInv ==
  /\ pc = "loop" => items \in Sorted(listed)
  /\ pc = "loop" /\ drift = 0 /\ ~request.bare =>
       InOneStep[i - 1] = [label |-> label, matched |-> matched, verdict |-> "loop"]

(* An iteration whose effect is that of the one-step loop keeps it.        *)
LEMMA IterationAgrees ==
  ASSUME TypeOK, AgreementInv, pc = "loop", i \in 1..Len(items), Continue,
         drift = 0 /\ ~request.bare =>
           Iterate(listed, request.name, request.labels,
                   [label |-> label, matched |-> matched, verdict |-> "loop"], items[i])
             = [label |-> label', matched |-> matched', verdict |-> "loop"]
  PROVE  AgreementInv'
<1>1. /\ i' = i + 1 /\ pc' = "loop"
      /\ UNCHANGED <<store, request, listed, items, drift>>
  BY DEF Continue
<1>2. i \in Nat /\ Len(items) \in Nat /\ i' - 1 = i
  BY <1>1 DEF TypeOK
<1>3. InOneStep' = InOneStep
  BY <1>1 DEF InOneStep
<1>4. Sorted(listed)' = Sorted(listed)
  BY <1>1
<1>5. InOneStep[i] = Iterate(listed, request.name, request.labels, InOneStep[i - 1], items[i])
  BY <1>2, LoopIs DEF InOneStep
<1> QED BY <1>1, <1>2, <1>3, <1>4, <1>5 DEF AgreementInv

(* A verdict at item i is the verdict of the review in one step.           *)
LEMMA VerdictAgrees ==
  ASSUME TypeOK, AgreementInv, pc = "loop", i \in 1..Len(items), drift = 0, ~request.bare,
         NEW at, at.verdict # "loop",
         Iterate(listed, request.name, request.labels,
                 [label |-> label, matched |-> matched, verdict |-> "loop"], items[i]) = at
  PROVE  Reply(at) \in Atomic!Reviews(listed, request.name, request.labels, request.profile)
<1>1. i \in Nat /\ Len(items) \in Nat
  BY DEF TypeOK
<1>2. InOneStep[i] = at
  BY <1>1, LoopIs DEF InOneStep, AgreementInv
<1>3. InOneStep[Len(items)] = at
  BY <1>1, <1>2, VerdictStays DEF InOneStep
<1>4. items \in Orders(listed)
  BY DEF AgreementInv, Sorted, Orders, Stored, StoredIn
<1> QED BY <1>3, <1>4, SameReview DEF Reviews, InOneStep

(* One lemma for the iterations that go on, one for those that do not.     *)
LEMMA GoesOnAgrees ==
  ASSUME TypeOK, IInv, AgreementInv,
         \/ SkipDeleting
         \/ \E p \in Profile : SkipUnmatched(p) \/ MatchLabels(p) \/ ResolveConflict(p)
  PROVE  AgreementInv' /\ pc' = "loop"
<1> DEFINE at == [label |-> label, matched |-> matched, verdict |-> "loop"]
           next == [label |-> label', matched |-> matched', verdict |-> "loop"]
<1>1. pc = "loop" /\ i \in 1..Len(items) /\ Continue
  BY DEF SkipDeleting, SkipUnmatched, MatchLabels, ResolveConflict, Visiting, TypeOK
<1>2. drift = 0 => store = listed
  BY <1>1 DEF IInv, LoopInv, RankInv
<1>3. SUFFICES ASSUME drift = 0, ~request.bare
               PROVE  Iterate(listed, request.name, request.labels, at, items[i]) = next
  BY <1>1, IterationAgrees DEF Continue
<1> USE DEF Iterate, Names, Labels, EmptySelector, NamedBy, LabelledBy, HasNoKey
<1>4. CASE SkipDeleting
  BY <1>4 DEF SkipDeleting
<1>5. CASE \E p \in Profile : SkipUnmatched(p)
  BY <1>5 DEF SkipUnmatched, Visiting
<1>6. CASE \E p \in Profile : MatchLabels(p)
  BY <1>6 DEF MatchLabels, Visiting, SetQuotaProfileLabels, Conflicts
<1>7. CASE \E p \in Profile : ResolveConflict(p)
  <2>1. PICK p \in Profile : ResolveConflict(p)
    BY <1>7
  <2>2. label' = IF HolderStays(listed, label, p) THEN SplitProfileID(label) ELSE p
    BY <1>2, <1>3, <2>1 DEF ResolveConflict, SetQuotaProfileLabels, KeepsExisting, HolderStays
  <2>3. Found(listed, label) /\ Conflicts(label, p) /\ matched' = TRUE
    BY <1>2, <1>3, <2>1 DEF ResolveConflict, Conflicts
  <2> QED BY <2>1, <2>2, <2>3 DEF ResolveConflict, Visiting
<1> QED BY <1>4, <1>5, <1>6, <1>7

LEMMA VerdictsAgree ==
  ASSUME TypeOK, IInv, AgreementInv,
         \/ \E p \in Profile : MatchName(p) \/ ConflictError(p) \/ Panic(p)
         \/ Finish
  PROVE  AgreementInv' /\ AgreesWithReview'
<1> DEFINE at == [label |-> label, matched |-> matched, verdict |-> "loop"]
           Given == Atomic!Reviews(listed, request.name, request.labels, request.profile)
<1>1. /\ pc = "loop" /\ pc' \in {"admitted", "denied"}
      /\ UNCHANGED <<store, request, listed, items, i, drift>>
  BY DEF MatchName, ConflictError, Panic, Visiting, Answer, Finish
<1>2. drift = 0 => store = listed
  BY <1>1 DEF IInv, LoopInv, RankInv
<1>3. AgreementInv'
  BY <1>1 DEF AgreementInv
<1>4. Atomic!Reviews(listed, request.name, request.labels, request.profile)' = Given
  BY <1>1, SameReview
<1>5. SUFFICES ASSUME drift = 0, ~request.bare
               PROVE  (IF pc' = "denied" THEN Absent ELSE label') \in Given
  BY <1>1, <1>3, <1>4 DEF AgreesWithReview
<1> USE DEF Names, Labels, EmptySelector, NamedBy, LabelledBy, HasNoKey
<1>6. ASSUME NEW p \in Profile, MatchName(p) PROVE label' \in Given /\ pc' = "admitted"
  <2> DEFINE end == [label |-> p, matched |-> TRUE, verdict |-> "admitted"]
  <2>1. i \in 1..Len(items) /\ items[i] = p /\ label' = p /\ pc' = "admitted"
    BY <1>6 DEF MatchName, Visiting, SetQuotaProfileLabels, Answer, TypeOK
  <2>2. Iterate(listed, request.name, request.labels, at, items[i]) = end
    BY <1>6, <2>1 DEF MatchName, Visiting, Iterate
  <2>3. Reply(end) \in Given
    BY <1>1, <1>5, <2>1, <2>2, VerdictAgrees
  <2> QED BY <2>1, <2>3 DEF Reply
<1>7. ASSUME NEW p \in Profile, ConflictError(p) \/ Panic(p)
      PROVE  Absent \in Given /\ pc' = "denied"
  <2> DEFINE end == [label |-> label, matched |-> matched, verdict |-> "denied"]
  <2>1. i \in 1..Len(items) /\ items[i] = p /\ pc' = "denied"
    BY <1>7 DEF ConflictError, Panic, Visiting, Answer, TypeOK
  <2>2. Iterate(listed, request.name, request.labels, at, items[i]) = end
    <3>1. CASE ConflictError(p)
      <4>1. ~Found(listed, label) /\ Conflicts(label, p)
        BY <1>2, <1>5, <3>1 DEF ConflictError, Conflicts
      <4> QED BY <2>1, <3>1, <4>1 DEF ConflictError, Visiting, Iterate
    <3>2. CASE Panic(p)
      BY <1>5, <2>1, <3>2 DEF Panic, Visiting, Iterate
    <3> QED BY <1>7, <3>1, <3>2
  <2>3. Reply(end) \in Given
    BY <1>1, <1>5, <2>1, <2>2, VerdictAgrees
  <2> QED BY <2>1, <2>3 DEF Reply
<1>8. CASE Finish
  <2>1. i = Len(items) + 1 /\ Len(items) \in Nat
    BY <1>8 DEF Finish, TypeOK
  <2>2. InOneStep[Len(items)] = at
    BY <1>1, <1>5, <2>1 DEF AgreementInv
  <2>3. items \in Orders(listed)
    BY <1>1 DEF AgreementInv, Sorted, Orders, Stored, StoredIn
  <2>4. Reply(at) \in Given
    BY <2>2, <2>3, SameReview DEF Reviews, InOneStep
  <2> QED BY <1>8, <2>4 DEF Finish, Answer, Reply
<1> QED BY <1>6, <1>7, <1>8

(* Over a cache that keeps still, the webhook answers what the review in   *)
(* one step may answer: the controllers' models take it for the webhook.   *)
THEOREM ReviewInOneStep == Spec => []AgreesWithReview
<1> DEFINE Inv == AgreementInv /\ AgreesWithReview
<1>1. Init => Inv
  BY DEF Init, AgreementInv, AgreesWithReview
<1>2. TypeOK /\ IInv /\ Inv /\ [Next]_vars => Inv'
  <2> SUFFICES ASSUME TypeOK, IInv, Inv, [Next]_vars PROVE Inv'
    OBVIOUS
  <2>1. CASE Informer
    <3>1. /\ UNCHANGED <<pc, request, listed, items, i, label, matched>>
          /\ pc \in {"idle", "loop"}
          /\ pc = "loop" => drift' # 0
      BY <2>1, DriftAssumption
      DEF Informer, CacheAdd, CacheUpdate, CacheDelete, Drift, ReviewState, TypeOK
    <3>2. Sorted(listed)' = Sorted(listed)
      BY <3>1
    <3> QED BY <3>1, <3>2 DEF AgreementInv, AgreesWithReview
  <2>2. CASE Begin
    <3>1. PICK s \in Sorted(store) : items' = s
      BY <2>2 DEF Begin
    <3>2. PICK r \in Request : request' = r /\ label' = r.profile
      BY <2>2 DEF Begin
    <3>3. pc' = "loop" /\ i' = 1 /\ matched' = FALSE /\ listed' = store
      BY <2>2 DEF Begin
    <3>4. Sorted(listed)' = Sorted(store) /\ Len(s) \in Nat
      BY <3>1, <3>3, SortedIsSeq
    <3>5. InOneStep' = Loop(store, r.name, r.labels, r.profile, s)
      BY <3>1, <3>2, <3>3 DEF InOneStep
    <3>6. InOneStep'[0] = Start(r.profile)
      BY <3>4, <3>5, LoopIs
    <3>7. Start(r.profile) = [label |-> label', matched |-> matched', verdict |-> "loop"]
      BY <3>2, <3>3 DEF Start
    <3>8. i' - 1 = 0
      BY <3>3
    <3>9. AgreementInv'
      BY <3>1, <3>3, <3>4, <3>6, <3>7, <3>8 DEF AgreementInv
    <3> QED BY <3>3, <3>9 DEF AgreesWithReview
  <2>3. CASE \/ SkipDeleting
             \/ \E p \in Profile : SkipUnmatched(p) \/ MatchLabels(p) \/ ResolveConflict(p)
    BY <2>3, GoesOnAgrees DEF AgreesWithReview
  <2>4. CASE \/ \E p \in Profile : MatchName(p) \/ ConflictError(p) \/ Panic(p)
             \/ Finish
    BY <2>4, VerdictsAgree
  <2>5. CASE Respond
    BY <2>5 DEF Respond, AgreementInv, AgreesWithReview
  <2>6. CASE UNCHANGED vars
    <3>1. UNCHANGED <<pc, request, listed, items, i, label, matched, drift>>
      BY <2>6 DEF vars
    <3>2. /\ Sorted(listed)' = Sorted(listed) /\ InOneStep' = InOneStep
          /\ Atomic!Reviews(listed, request.name, request.labels, request.profile)'
               = Atomic!Reviews(listed, request.name, request.labels, request.profile)
      BY <3>1, SameReview DEF InOneStep
    <3> QED BY <3>1, <3>2 DEF AgreementInv, AgreesWithReview
  <2> QED BY <2>1, <2>2, <2>3, <2>4, <2>5, <2>6 DEF Next, Default
<1> QED BY <1>1, <1>2, TypeCorrect, Invariance, PTL DEF Spec
=============================================================================
