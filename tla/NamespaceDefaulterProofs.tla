---------------------- MODULE NamespaceDefaulterProofs ----------------------
(***************************************************************************)
(* What TLAPS proves of the Namespace defaulter, for any set of profiles,  *)
(* namespaces, labels and any number of cache events during a review.      *)
(***************************************************************************)
EXTENDS NamespaceDefaulter, FiniteSetTheorems, TLAPS

-----------------------------------------------------------------------------
(* Facts about the operators.                                              *)

(* The profiles in a store are finitely many, and so is the list of them.  *)
LEMMA StoredFinite ==
  ASSUME NEW objects
  PROVE  /\ IsFiniteSet(Stored(objects))
         /\ Cardinality(Stored(objects)) \in Nat
<1>1. Stored(objects) \subseteq Profile
  BY DEF Stored
<1>2. IsFiniteSet(Stored(objects))
  BY <1>1, ProfileAssumption, FS_Subset
<1> QED BY <1>2, FS_CardinalityType

(* The sorted list is a sequence of stored keys, holds every one of them,  *)
(* and is in the order of creation.                                        *)
LEMMA SortedIsSeq ==
  ASSUME NEW objects, NEW s \in Sorted(objects)
  PROVE  /\ s \in Seq(Profile)
         /\ Len(s) = Cardinality(Stored(objects))
         /\ \A j \in 1..Len(s) : s[j] \in Stored(objects)
         /\ \A p \in Stored(objects) : \E j \in 1..Len(s) : s[j] = p
         /\ \A j, k \in 1..Len(s) :
              j < k => objects[s[j]].created <= objects[s[k]].created
<1> DEFINE n == Cardinality(Stored(objects))
<1>1. n \in Nat
  BY StoredFinite
<1>2. Stored(objects) \subseteq Profile
  BY DEF Stored
<1>3. s \in [1..n -> Stored(objects)]
  BY DEF Sorted
<1>4. s \in Seq(Profile) /\ Len(s) = n /\ DOMAIN s = 1..n
  BY <1>1, <1>2, <1>3
<1>5. \A p \in Stored(objects) : \E j \in DOMAIN s : s[j] = p
  BY DEF Sorted
<1>6. \A j, k \in DOMAIN s :
        j < k => objects[s[j]].created <= objects[s[k]].created
  BY DEF Sorted
<1> QED BY <1>3, <1>4, <1>5, <1>6

(* A label value never reads back as anything but itself or no key.        *)
LEMMA SplitProfileIDReads ==
  ASSUME NEW id
  PROVE  SplitProfileID(id) = id \/ SplitProfileID(id) = NoLabel
BY DEF SplitProfileID

-----------------------------------------------------------------------------
(* Type correctness.                                                       *)

(* Every step of the informer and of the handler keeps the types: the      *)
(* index stays within the list and the label stays a label value.          *)
THEOREM TypeCorrect == Spec => []TypeOK
<1>1. Init => TypeOK
  <2> SUFFICES ASSUME Init PROVE TypeOK
    OBVIOUS
  <2>1. items \in Seq(Profile) /\ Len(items) = 0
    BY DEF Init
  <2>2. store \in [Profile -> Object \cup {Absent}]
        /\ listed \in [Profile -> Object \cup {Absent}]
    BY DEF Init
  <2>3. pc = "idle" /\ request \in {Absent}
    BY DEF Init
  <2>4. i \in 1..Len(items) + 1 /\ drift \in 0..MaxDrift
    BY <2>1, DriftAssumption DEF Init
  <2>5. label \in ProfileLabel /\ matched \in BOOLEAN
    BY DEF Init, ProfileLabel
  <2> QED BY <2>1, <2>2, <2>3, <2>4, <2>5 DEF TypeOK
<1>2. TypeOK /\ [Next]_vars => TypeOK'
  <2> SUFFICES ASSUME TypeOK, [Next]_vars PROVE TypeOK'
    OBVIOUS
  <2> USE DEF TypeOK
  <2>0. Len(items) \in Nat
    OBVIOUS
  <2>1. CASE Informer
    <3>1. PICK p \in Profile : CacheAdd(p) \/ CacheUpdate(p) \/ CacheDelete(p)
      BY <2>1 DEF Informer
    <3>2. store' \in [Profile -> Object \cup {Absent}]
      BY <3>1 DEF CacheAdd, CacheUpdate, CacheDelete
    <3>3. drift' \in 0..MaxDrift
      BY <3>1, DriftAssumption DEF CacheAdd, CacheUpdate, CacheDelete, Drift
    <3>4. UNCHANGED ReviewState
      BY <3>1 DEF CacheAdd, CacheUpdate, CacheDelete
    <3> QED BY <3>2, <3>3, <3>4 DEF ReviewState
  <2>2. CASE Begin
    <3>1. PICK s \in Sorted(store) : items' = s
      BY <2>2 DEF Begin
    <3>2. items' \in Seq(Profile) /\ Len(items') \in Nat
      BY <3>1, SortedIsSeq
    <3>3. \E r \in Request : request' = r /\ label' = r.profile
      BY <2>2 DEF Begin
    <3>4. request' \in Request /\ label' \in ProfileLabel
      BY <3>3 DEF Request
    <3>5. pc' = "loop" /\ i' = 1 /\ matched' = FALSE /\ drift' = 0
          /\ listed' = store /\ store' = store
      BY <2>2 DEF Begin
    <3>6. i' \in 1..Len(items') + 1 /\ drift' \in 0..MaxDrift
      BY <3>2, <3>5, DriftAssumption
    <3> QED BY <3>2, <3>4, <3>5, <3>6
  <2>3. CASE SkipDeleting
    BY <2>0, <2>3 DEF SkipDeleting, Continue
  <2>4. CASE \E p \in Profile : SkipUnmatched(p)
    BY <2>0, <2>4 DEF SkipUnmatched, Visiting, Continue
  <2>5. CASE \E p \in Profile : MatchName(p)
    BY <2>0, <2>5 DEF MatchName, Visiting, Answer, SetQuotaProfileLabels, ProfileLabel
  <2>6. CASE \E p \in Profile : MatchLabels(p)
    BY <2>0, <2>6 DEF MatchLabels, Visiting, Continue, SetQuotaProfileLabels, ProfileLabel
  <2>7. CASE \E p \in Profile : ResolveConflict(p)
    <3>1. PICK p \in Profile : ResolveConflict(p)
      BY <2>7
    <3>2. SplitProfileID(label) \in ProfileLabel
      BY SplitProfileIDReads DEF ProfileLabel
    <3>3. label' \in ProfileLabel
      BY <3>1, <3>2 DEF ResolveConflict, SetQuotaProfileLabels, ProfileLabel
    <3> QED BY <2>0, <3>1, <3>3 DEF ResolveConflict, Visiting, Continue
  <2>8. CASE \E p \in Profile : ConflictError(p) \/ Panic(p)
    BY <2>0, <2>8 DEF ConflictError, Panic, Visiting, Answer
  <2>9. CASE Finish
    BY <2>0, <2>9 DEF Finish, Answer, ProfileLabel
  <2>10. CASE Respond
    <3>1. items' \in Seq(Profile) /\ Len(items') = 0
      BY <2>10 DEF Respond
    <3>2. pc' = "idle" /\ request' = Absent /\ store' = store
          /\ matched' = FALSE /\ i' = 1 /\ drift' = 0
      BY <2>10 DEF Respond
    <3>3. i' \in 1..Len(items') + 1 /\ drift' \in 0..MaxDrift
      BY <3>1, <3>2, DriftAssumption
    <3>4. listed' \in [Profile -> Object \cup {Absent}]
      BY <2>10 DEF Respond
    <3>5. label' \in ProfileLabel
      BY <2>10 DEF Respond, ProfileLabel
    <3> QED BY <3>1, <3>2, <3>3, <3>4, <3>5
  <2>11. CASE UNCHANGED vars
    BY <2>11 DEF vars
  <2> QED
    BY <2>1, <2>2, <2>3, <2>4, <2>5, <2>6, <2>7, <2>8, <2>9, <2>10, <2>11
    DEF Next, Default
<1> QED BY <1>1, <1>2, PTL DEF Spec

-----------------------------------------------------------------------------
(* The invariant of the loop.  The three promises of an admitted review    *)
(* are not inductive: they need what the loop has established so far.      *)

(* items is the list of the stored profiles, by creation time.             *)
ListInv ==
  /\ \A j \in 1..Len(items) : items[j] \in Stored(listed)
  /\ \A p \in Stored(listed) : \E j \in 1..Len(items) : items[j] = p
  /\ \A j, k \in 1..Len(items) :
       j < k => listed[items[j]].created <= listed[items[k]].created

(* No item passed so far names the Namespace; the label is the submitted   *)
(* one or a match; matched says whether a passed item matched by label.    *)
PassedInv ==
  /\ \A j \in 1..(i - 1) : items[j] \notin NameMatches
  /\ \A j \in 1..(i - 1) : items[j] \in LabelMatches => matched
  /\ matched => LabelMatches # {}
  /\ label \in {NoLabel, request.profile} \cup LabelMatches

(* Over a still cache, and from no label or a matching one: the label is a *)
(* match that outranks every match passed so far.                          *)
CleanStart == drift = 0 /\ request.profile \in {NoLabel} \cup LabelMatches

RankInv ==
  /\ drift = 0 => store = listed
  /\ CleanStart =>
       /\ label \in {NoLabel} \cup LabelMatches
       /\ \A j \in 1..(i - 1) :
            items[j] \in LabelMatches => label \in LabelMatches /\ Outranks(label, items[j])

LoopInv == pc = "loop" => ListInv /\ PassedInv /\ RankInv

Promises == NameSelectorWins /\ OnlyMatchingOrHeld /\ HighestPrecedenceWins

IInv == LoopInv /\ Promises

(* The step leaves the list and the request alone, so the sets of matches  *)
(* and their order stay what they were.                                    *)
LEMMA Frame ==
  ASSUME UNCHANGED <<listed, request>>
  PROVE  /\ NameMatches' = NameMatches
         /\ LabelMatches' = LabelMatches
         /\ \A p, q : Outranks(p, q)' <=> Outranks(p, q)
BY DEF NameMatches, LabelMatches, Live, Stored, NamedBy, LabelledBy, Outranks

(* What TypeOK says of a profile that is in the list.                      *)
LEMMA ListedObject ==
  ASSUME TypeOK, NEW p \in Stored(listed)
  PROVE  /\ listed[p] \in Object
         /\ listed[p].precedence \in Nat
         /\ listed[p].created \in Nat
<1>1. listed[p] \in Object
  BY DEF TypeOK, Stored
<1> QED BY <1>1, ProfileAssumption DEF Object

(* Outranks is reflexive and transitive on the listed profiles.            *)
LEMMA OutranksOrder ==
  ASSUME TypeOK, NEW p \in Stored(listed), NEW q \in Stored(listed),
         NEW r \in Stored(listed)
  PROVE  /\ Outranks(p, p)
         /\ Outranks(p, q) /\ Outranks(q, r) => Outranks(p, r)
<1>1. /\ listed[p].precedence \in Nat /\ listed[p].created \in Nat
      /\ listed[q].precedence \in Nat /\ listed[q].created \in Nat
      /\ listed[r].precedence \in Nat /\ listed[r].created \in Nat
  BY ListedObject
<1> QED BY <1>1 DEF Outranks

(* The item of the iteration, when it is p and live.                       *)
LEMMA VisitingFacts ==
  ASSUME TypeOK, LoopInv, NEW p \in Profile, Visiting(p)
  PROVE  /\ pc = "loop" /\ i \in 1..Len(items) /\ items[i] = p
         /\ p \in Live
         /\ ListInv /\ PassedInv /\ RankInv
         /\ p \in NameMatches <=> NamedBy(listed[p])
         /\ p \in LabelMatches <=> LabelledBy(listed[p])
<1>1. pc = "loop" /\ i \in 1..Len(items) /\ items[i] = p
  BY DEF Visiting, TypeOK
<1>2. ListInv /\ PassedInv /\ RankInv
  BY <1>1 DEF LoopInv
<1>3. p \in Live
  BY <1>1, <1>2 DEF ListInv, Live, Visiting
<1> QED BY <1>1, <1>2, <1>3 DEF NameMatches, LabelMatches

(* An iteration that goes on keeps the loop's invariant, if its item names *)
(* nobody and the label and the flag are right for it.                     *)
LEMMA Iteration ==
  ASSUME TypeOK, LoopInv, pc = "loop", i \in 1..Len(items), Continue,
         items[i] \notin NameMatches,
         items[i] \in LabelMatches => matched',
         matched' => LabelMatches # {},
         label' \in {NoLabel, request.profile} \cup LabelMatches,
         CleanStart =>
           /\ label' \in {NoLabel} \cup LabelMatches
           /\ \A j \in 1..i : items[j] \in LabelMatches
                => label' \in LabelMatches /\ Outranks(label', items[j]),
         matched => matched'
  PROVE  LoopInv' /\ pc' = "loop"
<1>1. /\ i' = i + 1 /\ pc' = "loop"
      /\ UNCHANGED <<store, request, listed, items, drift>>
  BY DEF Continue
<1>2. /\ NameMatches' = NameMatches /\ LabelMatches' = LabelMatches
      /\ \A p, q : Outranks(p, q)' <=> Outranks(p, q)
  BY <1>1, Frame
<1>3. ListInv /\ PassedInv /\ RankInv
  BY DEF LoopInv
<1>4. i \in Nat /\ Len(items) \in Nat
  BY DEF TypeOK
<1>5. 1..(i' - 1) = 1..i /\ \A j \in 1..i : j \in 1..(i - 1) \/ j = i
  BY <1>1, <1>4
<1>6. ListInv'
  BY <1>1, <1>3 DEF ListInv, Stored
<1>7. PassedInv'
  BY <1>1, <1>2, <1>3, <1>5 DEF PassedInv
<1>8. CleanStart' <=> CleanStart
  BY <1>1, <1>2 DEF CleanStart
<1>9. RankInv'
  <2>1. drift' = 0 => store' = listed'
    BY <1>1, <1>3 DEF RankInv
  <2>2. ASSUME CleanStart'
        PROVE  /\ label' \in {NoLabel} \cup LabelMatches'
               /\ \A j \in 1..(i' - 1) : items'[j] \in LabelMatches'
                    => label' \in LabelMatches' /\ Outranks(label, items[j])'
    <3>1. ASSUME NEW j \in 1..i
          PROVE  Outranks(label, items[j])' <=> Outranks(label', items[j])
      BY <1>1 DEF Outranks
    <3> QED BY <2>2, <3>1, <1>1, <1>2, <1>5, <1>8
  <2> QED BY <2>1, <2>2 DEF RankInv
<1> QED BY <1>1, <1>6, <1>7, <1>9 DEF LoopInv

-----------------------------------------------------------------------------
(* One lemma per group of actions: the invariant survives it.              *)

(* A verdict other than "admitted", or none, promises nothing.             *)
LEMMA NoVerdict ==
  ASSUME pc' # "admitted"
  PROVE  Promises'
BY DEF Promises, NameSelectorWins, OnlyMatchingOrHeld, HighestPrecedenceWins, Admitted

(* A cache event disturbs only what holds over a still cache.              *)
LEMMA InformerKeeps ==
  ASSUME TypeOK, IInv, Informer
  PROVE  IInv'
<1>1. UNCHANGED ReviewState /\ (pc # "idle" => drift' = drift + 1)
  BY DEF Informer, CacheAdd, CacheUpdate, CacheDelete, Drift
<1>2. UNCHANGED <<pc, request, listed, items, i, label, matched>>
  BY <1>1 DEF ReviewState
<1>3. /\ NameMatches' = NameMatches /\ LabelMatches' = LabelMatches
      /\ \A p, q : Outranks(p, q)' <=> Outranks(p, q)
  BY <1>2, Frame
<1>4. pc # "idle" => drift' # 0
  BY <1>1, DriftAssumption DEF TypeOK
<1>5. LoopInv'
  <2>1. ASSUME pc = "loop" PROVE ListInv' /\ PassedInv' /\ RankInv'
    <3>1. ListInv'
      BY <2>1, <1>2 DEF IInv, LoopInv, ListInv, Stored
    <3>2. PassedInv'
      BY <2>1, <1>2, <1>3 DEF IInv, LoopInv, PassedInv
    <3>3. RankInv'
      BY <2>1, <1>4 DEF RankInv, CleanStart
    <3> QED BY <3>1, <3>2, <3>3
  <2> QED BY <2>1, <1>2 DEF LoopInv
<1>6. NameSelectorWins' /\ OnlyMatchingOrHeld'
  BY <1>2, <1>3 DEF IInv, Promises, NameSelectorWins, OnlyMatchingOrHeld, Admitted
<1>7. HighestPrecedenceWins'
  BY <1>2, <1>4 DEF HighestPrecedenceWins, Admitted
<1> QED BY <1>5, <1>6, <1>7 DEF IInv, Promises

(* The List call and the sort establish the invariant of the loop.         *)
LEMMA BeginKeeps ==
  ASSUME TypeOK, IInv, Begin
  PROVE  IInv'
<1>1. PICK s \in Sorted(store) : items' = s
  BY DEF Begin
<1>2. PICK r \in Request : request' = r /\ label' = r.profile
  BY DEF Begin
<1>3. /\ pc' = "loop" /\ i' = 1 /\ matched' = FALSE /\ drift' = 0
      /\ listed' = store /\ store' = store
  BY DEF Begin
<1>4. Stored(listed') = Stored(listed)' /\ Stored(listed') = Stored(store)
  BY <1>3 DEF Stored
<1>5. ListInv'
  BY <1>1, <1>3, <1>4, SortedIsSeq DEF ListInv
<1>6. 1..(i' - 1) = {}
  BY <1>3
<1>7. PassedInv'
  BY <1>2, <1>3, <1>6 DEF PassedInv
<1>8. RankInv'
  BY <1>2, <1>3, <1>6 DEF RankInv, CleanStart
<1> QED BY <1>3, <1>5, <1>7, <1>8, NoVerdict DEF IInv, LoopInv

(* An item that is being deleted, or selects another Namespace, is passed. *)
LEMMA SkipKeeps ==
  ASSUME TypeOK, IInv, SkipDeleting \/ \E p \in Profile : SkipUnmatched(p)
  PROVE  IInv'
<1>1. /\ pc = "loop" /\ i \in 1..Len(items)
      /\ items[i] \notin NameMatches /\ items[i] \notin LabelMatches
  <2>1. CASE SkipDeleting
    BY <2>1 DEF SkipDeleting, TypeOK, NameMatches, LabelMatches, Live
  <2>2. CASE \E p \in Profile : SkipUnmatched(p)
    BY <2>2, VisitingFacts DEF SkipUnmatched, IInv
  <2> QED BY <2>1, <2>2
<1>2. Continue /\ UNCHANGED <<label, matched>>
  BY DEF SkipDeleting, SkipUnmatched
<1>3. PassedInv /\ RankInv
  BY <1>1 DEF IInv, LoopInv
<1>4. ASSUME CleanStart
      PROVE  /\ label' \in {NoLabel} \cup LabelMatches
             /\ \A j \in 1..i : items[j] \in LabelMatches
                  => label' \in LabelMatches /\ Outranks(label', items[j])
  <2>1. \A j \in 1..i : j \in 1..(i - 1) \/ j = i
    BY DEF TypeOK
  <2>2. label' = label
    BY <1>2
  <2>3. \A j \in 1..(i - 1) : items[j] \in LabelMatches
          => label \in LabelMatches /\ Outranks(label, items[j])
    BY <1>3, <1>4 DEF RankInv
  <2>4. label \in {NoLabel} \cup LabelMatches
    BY <1>3, <1>4 DEF RankInv
  <2> QED BY <1>1, <2>1, <2>2, <2>3, <2>4
<1>5. LoopInv' /\ pc' = "loop"
  BY <1>1, <1>2, <1>3, <1>4, Iteration DEF PassedInv, IInv
<1> QED BY <1>5, NoVerdict DEF IInv

(* The first item that names the Namespace is the oldest that does.        *)
LEMMA MatchNameKeeps ==
  ASSUME TypeOK, IInv, NEW p \in Profile, MatchName(p)
  PROVE  IInv'
<1>1. Visiting(p) /\ NamedBy(listed[p]) /\ LoopInv
  BY DEF MatchName, IInv
<1>2. /\ pc = "loop" /\ i \in 1..Len(items) /\ items[i] = p
      /\ p \in NameMatches /\ ListInv /\ PassedInv
  BY <1>1, VisitingFacts
<1>3. /\ pc' = "admitted" /\ label' = p
      /\ UNCHANGED <<store, request, listed, items, i, drift>>
  BY DEF MatchName, Answer, SetQuotaProfileLabels
<1>4. NameMatches' = NameMatches /\ LabelMatches' = LabelMatches
  BY <1>3, Frame
<1>5. ASSUME NEW q \in NameMatches
      PROVE  listed[p].created <= listed[q].created
  <2>1. q \in Stored(listed)
    BY DEF NameMatches, Live
  <2>2. PICK k \in 1..Len(items) : items[k] = q
    BY <1>2, <2>1 DEF ListInv
  <2>3. k \notin 1..(i - 1)
    BY <1>2, <2>2 DEF PassedInv
  <2>4. k = i \/ i < k
    BY <2>3, <1>2 DEF TypeOK
  <2>5. CASE i < k
    BY <1>2, <2>2, <2>5 DEF ListInv
  <2>6. CASE k = i
    BY <1>2, <2>1, <2>2, <2>6, ListedObject
  <2> QED BY <2>4, <2>5, <2>6
<1>6. NameSelectorWins'
  BY <1>2, <1>3, <1>4, <1>5 DEF NameSelectorWins
<1>7. OnlyMatchingOrHeld'
  BY <1>2, <1>3, <1>4 DEF OnlyMatchingOrHeld
<1>8. HighestPrecedenceWins'
  BY <1>2, <1>4 DEF HighestPrecedenceWins
<1> QED BY <1>3, <1>6, <1>7, <1>8 DEF IInv, LoopInv, Promises

(* What an item whose label selector matches finds, and what is left to    *)
(* show of the label it writes.                                            *)
LEMMA LabelMatchKeeps ==
  ASSUME TypeOK, IInv, NEW p \in Profile, Visiting(p), LabelledBy(listed[p]),
         Continue, matched' = TRUE,
         label' \in {p, label},
         label' = label =>
           \/ label = p
           \/ label \in Profile /\ KeepsExisting(store[label], listed[p]),
         label' = p => \/ label = NoLabel
                       \/ label = p
                       \/ ~KeepsExisting(store[label], listed[p])
  PROVE  IInv'
<1>1. /\ pc = "loop" /\ i \in 1..Len(items) /\ items[i] = p
      /\ p \in LabelMatches /\ p \notin NameMatches /\ p \in Stored(listed)
      /\ ListInv /\ PassedInv /\ RankInv
  BY VisitingFacts DEF IInv, LabelledBy, NamedBy, Live
<1>2. label' \in {NoLabel, request.profile} \cup LabelMatches
  BY <1>1 DEF PassedInv
<1>3. ASSUME CleanStart
      PROVE  /\ label' \in LabelMatches
             /\ \A j \in 1..i : items[j] \in LabelMatches => Outranks(label', items[j])
  <2>1. /\ store = listed
        /\ label \in {NoLabel} \cup LabelMatches
        /\ \A j \in 1..(i - 1) : items[j] \in LabelMatches
             => label \in LabelMatches /\ Outranks(label, items[j])
    BY <1>1, <1>3 DEF RankInv, CleanStart
  <2>2. \A j \in 1..i : j \in 1..(i - 1) \/ j = i
    BY <1>1 DEF TypeOK
  <2>3. LabelMatches \subseteq Stored(listed) /\ NoLabel \notin LabelMatches
    BY ProfileAssumption DEF LabelMatches, Live, Stored
  <2>4. CASE label = p
    <3>1. label' = p
      BY <2>4
    <3>2. Outranks(p, p)
      BY <1>1, OutranksOrder
    <3> QED BY <1>1, <2>1, <2>2, <2>4, <3>1, <3>2
  <2>5. CASE label = NoLabel /\ label' = p
    <3>1. Outranks(p, p)
      BY <1>1, OutranksOrder
    <3> QED BY <1>1, <2>1, <2>2, <2>3, <2>5, <3>1
  <2>6. CASE label \notin {NoLabel, p} /\ label' = p
    <3>1. label \in LabelMatches /\ label \in Stored(listed)
      BY <2>1, <2>3, <2>6
    <3>2. ~(listed[label].precedence > listed[p].precedence)
      BY <2>1, <2>6 DEF KeepsExisting
    <3>3. ASSUME NEW j \in 1..(i - 1), items[j] \in LabelMatches
          PROVE  Outranks(p, items[j])
      <4>1. items[j] \in Stored(listed) /\ Outranks(label, items[j])
        BY <2>1, <2>3, <3>3
      <4>2. listed[items[j]].created <= listed[p].created
        <5>1. j \in 1..Len(items) /\ j < i
          BY <1>1, <3>3 DEF TypeOK
        <5> QED BY <1>1, <5>1 DEF ListInv
      <4>3. /\ listed[p].precedence \in Nat /\ listed[p].created \in Nat
            /\ listed[label].precedence \in Nat
            /\ listed[items[j]].precedence \in Nat
            /\ listed[items[j]].created \in Nat
        BY <1>1, <3>1, <4>1, ListedObject
      <4> QED BY <3>2, <4>1, <4>2, <4>3 DEF Outranks
    <3>4. Outranks(p, p)
      BY <1>1, OutranksOrder
    <3> QED BY <1>1, <2>2, <2>6, <3>3, <3>4
  <2>7. CASE label # p /\ label' = label
    <3>1. label \in Profile /\ KeepsExisting(store[label], listed[p])
      BY <2>7
    <3>2. label \in LabelMatches
      BY <2>1, <3>1, ProfileAssumption
    <3>3. Outranks(label, p)
      BY <2>1, <3>1 DEF KeepsExisting, Outranks
    <3> QED BY <1>1, <2>1, <2>2, <2>7, <3>2, <3>3
  <2> QED BY <2>4, <2>5, <2>6, <2>7
<1>4. LoopInv' /\ pc' = "loop"
  BY <1>1, <1>2, <1>3, Iteration DEF IInv
<1> QED BY <1>4, NoVerdict DEF IInv

LEMMA MatchLabelsKeeps ==
  ASSUME TypeOK, IInv, NEW p \in Profile, MatchLabels(p)
  PROVE  IInv'
<1>1. /\ Visiting(p) /\ LabelledBy(listed[p]) /\ Continue
      /\ matched' = TRUE /\ label' = p
  BY DEF MatchLabels, SetQuotaProfileLabels
<1>2. label = NoLabel \/ label = p
  BY SplitProfileIDReads, ProfileAssumption DEF MatchLabels
<1> QED BY <1>1, <1>2, LabelMatchKeeps, ProfileAssumption

LEMMA ResolveConflictKeeps ==
  ASSUME TypeOK, IInv, NEW p \in Profile, ResolveConflict(p)
  PROVE  IInv'
<1>1. /\ Visiting(p) /\ LabelledBy(listed[p]) /\ Continue
      /\ matched' = TRUE /\ SplitProfileID(label) \in Profile
      /\ SplitProfileID(label) # p
  BY DEF ResolveConflict, Found
<1>2. SplitProfileID(label) = label /\ label \in Profile /\ label # p
  BY <1>1, SplitProfileIDReads, ProfileAssumption
<1>3. CASE KeepsExisting(store[label], listed[p])
  <2>1. label' = label
    BY <1>2, <1>3 DEF ResolveConflict, SetQuotaProfileLabels
  <2> QED BY <1>1, <1>2, <1>3, <2>1, LabelMatchKeeps
<1>4. CASE ~KeepsExisting(store[label], listed[p])
  <2>1. label' = p
    BY <1>2, <1>4 DEF ResolveConflict, SetQuotaProfileLabels
  <2> QED BY <1>1, <1>2, <1>4, <2>1, LabelMatchKeeps
<1> QED BY <1>3, <1>4

(* At the end every profile has been passed.                               *)
LEMMA FinishKeeps ==
  ASSUME TypeOK, IInv, Finish
  PROVE  IInv'
<1>1. /\ pc = "loop" /\ i > Len(items) /\ pc' = "admitted"
      /\ label' = IF matched THEN label ELSE NoLabel
      /\ UNCHANGED <<store, request, listed, items, i, drift>>
  BY DEF Finish, Answer
<1>2. ListInv /\ PassedInv /\ RankInv
  BY <1>1 DEF IInv, LoopInv
<1>3. /\ NameMatches' = NameMatches /\ LabelMatches' = LabelMatches
      /\ \A p, q : Outranks(p, q)' <=> Outranks(p, q)
  BY <1>1, Frame
<1>4. \A p \in Stored(listed) : \E j \in 1..(i - 1) : items[j] = p
  <2>1. 1..Len(items) \subseteq 1..(i - 1)
    BY <1>1 DEF TypeOK
  <2> QED BY <1>2, <2>1 DEF ListInv
<1>5. NameMatches = {}
  BY <1>2, <1>4 DEF PassedInv, NameMatches, Live
<1>6. \A p \in LabelMatches : \E j \in 1..(i - 1) : items[j] = p
  BY <1>4 DEF LabelMatches, Live
<1>7. matched <=> LabelMatches # {}
  BY <1>2, <1>6 DEF PassedInv
<1>8. NameSelectorWins'
  BY <1>3, <1>5 DEF NameSelectorWins
<1>9. OnlyMatchingOrHeld'
  BY <1>1, <1>2, <1>3, <1>7 DEF OnlyMatchingOrHeld, PassedInv
<1>10. HighestPrecedenceWins'
  <2> SUFFICES ASSUME CleanStart, LabelMatches # {}
               PROVE  label \in LabelMatches
                      /\ \A q \in LabelMatches : Outranks(label, q)
    <3>1. \A q : Outranks(label, q)' <=> Outranks(label', q)
      BY <1>1 DEF Outranks
    <3>2. LabelMatches # {} => label' = label
      BY <1>1, <1>7
    <3>3. \A q : Outranks(label', q) <=> Outranks(label, q)'
      BY <3>1
    <3> QED BY <1>1, <1>3, <3>2, <3>3 DEF HighestPrecedenceWins, CleanStart
  <2>1. \A j \in 1..(i - 1) : items[j] \in LabelMatches
          => label \in LabelMatches /\ Outranks(label, items[j])
    BY <1>2 DEF RankInv
  <2> QED BY <1>6, <2>1
<1> QED BY <1>1, <1>8, <1>9, <1>10 DEF IInv, LoopInv, Promises

-----------------------------------------------------------------------------
(* The invariant of the loop and the promises hold in every state.         *)
LEMMA Invariance == Spec => []IInv
<1>1. Init => IInv
  BY DEF Init, IInv, LoopInv, Promises, NameSelectorWins, OnlyMatchingOrHeld,
         HighestPrecedenceWins, Admitted
<1>2. TypeOK /\ IInv /\ [Next]_vars => IInv'
  <2> SUFFICES ASSUME TypeOK, IInv, [Next]_vars PROVE IInv'
    OBVIOUS
  <2>1. CASE Informer
    BY <2>1, InformerKeeps
  <2>2. CASE Begin
    BY <2>2, BeginKeeps
  <2>3. CASE SkipDeleting \/ \E p \in Profile : SkipUnmatched(p)
    BY <2>3, SkipKeeps
  <2>4. CASE \E p \in Profile : MatchName(p)
    BY <2>4, MatchNameKeeps
  <2>5. CASE \E p \in Profile : MatchLabels(p)
    BY <2>5, MatchLabelsKeeps
  <2>6. CASE \E p \in Profile : ResolveConflict(p)
    BY <2>6, ResolveConflictKeeps
  <2>7. CASE \E p \in Profile : ConflictError(p) \/ Panic(p)
    <3>1. pc' = "denied"
      BY <2>7 DEF ConflictError, Panic, Answer
    <3> QED BY <3>1, NoVerdict DEF IInv, LoopInv
  <2>8. CASE Finish
    BY <2>8, FinishKeeps
  <2>9. CASE Respond
    <3>1. pc' = "idle"
      BY <2>9 DEF Respond
    <3> QED BY <3>1, NoVerdict DEF IInv, LoopInv
  <2>10. CASE UNCHANGED vars
    BY <2>10 DEF vars, IInv, LoopInv, ListInv, PassedInv, RankInv, CleanStart, Promises,
                 NameSelectorWins, OnlyMatchingOrHeld, HighestPrecedenceWins, Admitted,
                 NameMatches, LabelMatches, Live, Stored, NamedBy, LabelledBy, Outranks
  <2> QED BY <2>1, <2>2, <2>3, <2>4, <2>5, <2>6, <2>7, <2>8, <2>9, <2>10
          DEF Next, Default
<1> QED BY <1>1, <1>2, TypeCorrect, PTL DEF Spec

(* An admitted Namespace that a live profile names is labelled with the    *)
(* oldest profile that names it, however the cache moved meanwhile.        *)
THEOREM NameSelectorAlwaysWins == Spec => []NameSelectorWins
BY Invariance, PTL DEF IInv, Promises

(* The label of an admitted Namespace is the submitted one or a match; one *)
(* that matches nothing is left without.                                   *)
THEOREM NoForeignProfile == Spec => []OnlyMatchingOrHeld
BY Invariance, PTL DEF IInv, Promises

(* Over a still cache, a Namespace that starts from no label or a matching *)
(* one ends with the highest precedence, the youngest among equals.        *)
THEOREM PrecedenceDecides == Spec => []HighestPrecedenceWins
BY Invariance, PTL DEF IInv, Promises
=============================================================================
