------------------------- MODULE NamespaceDefaulter -------------------------
(***************************************************************************)
(* The mutating admission webhook for Namespaces: one review of a create   *)
(* or update request by NamespaceCustomDefaulter.Default, one step per     *)
(* iteration of its loop over the QuotaProfiles.                           *)
(*                                                                         *)
(* The profiles are listed once, from the informer cache, and sorted; but  *)
(* resolveConflict reads the cache again, so the cache may have moved      *)
(* between the two.  The cache is the variable store, and the informer     *)
(* changes it at any time.  A panic in the handler is recovered by         *)
(* controller-runtime and refuses the request, as an error does            *)
(* (failurePolicy=fail).                                                   *)
(***************************************************************************)
EXTENDS QuotaProfiles, Sequences

CONSTANTS
  MaxDrift,   \* bound: cache events delivered during one review
  DriftSize   \* bound: and only among so many profiles

ASSUME DriftAssumption == MaxDrift \in Nat /\ DriftSize \in Nat

VARIABLES
  store,    \* the informer cache: [Profile -> Object or Absent]
  pc,       \* "idle", "loop", "admitted" or "denied"
  request,  \* the Namespace under review, as submitted; Absent when idle
  listed,   \* the objects the List call returned
  items,    \* their keys, sorted by creation time
  i,        \* index of the next item
  label,    \* the profile label on the Namespace, as mutated so far
  matched,  \* a label selector has matched
  drift     \* history: cache events since the List call

vars == <<store, pc, request, listed, items, i, label, matched, drift>>

Stored(objects) == {p \in Profile : objects[p] # Absent}

(* sort.Slice by CreationTimestamp.Before: not stable, and the list itself *)
(* comes in no particular order, so profiles of one second come anyhow.    *)
Sorted(objects) ==
  {s \in [1..Cardinality(Stored(objects)) -> Stored(objects)] :
     /\ \A p \in Stored(objects) : \E j \in DOMAIN s : s[j] = p
     /\ \A j, k \in DOMAIN s :
          j < k => objects[s[j]].created <= objects[s[k]].created}

TypeOK ==
  /\ store \in [Profile -> Object \cup {Absent}]
  /\ pc \in {"idle", "loop", "admitted", "denied"}
  /\ request \in IF pc = "idle" THEN {Absent} ELSE Request
  /\ listed \in [Profile -> Object \cup {Absent}]
  /\ items \in Seq(Profile)
  /\ i \in 1..Len(items) + 1
  /\ label \in ProfileLabel
  /\ matched \in BOOLEAN
  /\ drift \in 0..MaxDrift

-----------------------------------------------------------------------------
(* What the informer delivers.                                             *)

(* An event after the handler has returned would commute with the          *)
(* response, and is left to come after it.                                 *)
Drift ==
  IF pc = "idle"
  THEN UNCHANGED drift
  ELSE /\ pc = "loop"
       /\ drift < MaxDrift
       /\ Cardinality(Stored(listed) \cup Stored(store')) <= DriftSize
       /\ drift' = drift + 1

ReviewState == <<pc, request, listed, items, i, label, matched>>

CacheAdd(p) ==
  /\ store[p] = Absent
  /\ \E o \in Object : store' = [store EXCEPT ![p] = o]
  /\ Drift
  /\ UNCHANGED ReviewState

(* An edit of the spec, or the mark that a finalizer holds a deletion up.  *)
CacheUpdate(p) ==
  /\ store[p] # Absent
  /\ \E o \in Object :
       /\ o.created = store[p].created
       /\ store[p].deleting => o.deleting
       /\ store' = [store EXCEPT ![p] = o]
  /\ Drift
  /\ UNCHANGED ReviewState

CacheDelete(p) ==
  /\ store[p] # Absent
  /\ store' = [store EXCEPT ![p] = Absent]
  /\ Drift
  /\ UNCHANGED ReviewState

-----------------------------------------------------------------------------
(* Default: the List call, the sort, and matched := false.                 *)
Begin ==
  /\ pc = "idle"
  /\ \E r \in Request : request' = r /\ label' = r.profile
  /\ listed' = store
  /\ \E s \in Sorted(store) : items' = s
  /\ i' = 1
  /\ matched' = FALSE
  /\ drift' = 0
  /\ pc' = "loop"
  /\ UNCHANGED store

(* The item of this iteration is p, and it is not being deleted.           *)
Visiting(p) ==
  /\ pc = "loop"
  /\ i <= Len(items)
  /\ items[i] = p
  /\ ~listed[p].deleting

NamedBy(o) ==
  o.selector.kind = "matchName" /\ o.selector.name = request.name

(* keys[0] is on the Namespace, with the value the selector asks for.      *)
LabelledBy(o) ==
  /\ o.selector.kind = "matchLabels"
  /\ o.selector.labels # {}
  /\ o.selector.labels \subseteq request.labels

(* lo.Keys(matchLabels)[0] of an empty map: index out of range.            *)
HasNoKey(o) == o.selector.kind = "matchLabels" /\ o.selector.labels = {}

(* Mutant: the index advances twice.                                       *)
ContinueTwice ==
  i' = i + 2 /\ UNCHANGED <<store, pc, request, listed, items, drift>>

Continue == i' = i + 1 /\ UNCHANGED <<store, pc, request, listed, items, drift>>

Answer(verdict) ==
  /\ pc' = verdict
  /\ UNCHANGED <<store, request, listed, items, i, drift>>

(* setQuotaProfileLabels writes to the label map: a nil map panics.        *)
SetQuotaProfileLabels(p) == ~request.bare /\ label' = p

SkipDeleting ==
  /\ pc = "loop"
  /\ i <= Len(items)
  /\ listed[items[i]].deleting
  /\ Continue
  /\ UNCHANGED <<label, matched>>

SkipUnmatched(p) ==
  /\ Visiting(p)
  /\ ~NamedBy(listed[p])
  /\ ~LabelledBy(listed[p])
  /\ ~HasNoKey(listed[p])
  /\ Continue
  /\ UNCHANGED <<label, matched>>

(* Mutant: break of the inner block only, the loop goes on.                *)
MatchNameGoesOn(p) ==
  /\ Visiting(p)
  /\ NamedBy(listed[p])
  /\ SetQuotaProfileLabels(p)
  /\ matched' = TRUE
  /\ Continue

(* A name selector ends the loop at once.                                  *)
MatchName(p) ==
  /\ Visiting(p)
  /\ NamedBy(listed[p])
  /\ SetQuotaProfileLabels(p)
  /\ Answer("admitted")
  /\ UNCHANGED matched

(* The Namespace has no profile label yet, or has this profile's already.  *)
MatchLabels(p) ==
  /\ Visiting(p)
  /\ LabelledBy(listed[p])
  /\ label = NoLabel \/ SplitProfileID(label) = p
  /\ SetQuotaProfileLabels(p)
  /\ matched' = TRUE
  /\ Continue

(* Mutant: an equal precedence keeps the existing profile too.             *)
KeepsExistingOnTie(existing, new) == existing.precedence >= new.precedence

KeepsExisting(existing, new) == existing.precedence > new.precedence

(* resolveConflict with the profile the label names, as the cache has it   *)
(* now: it stays only when its precedence is higher.                       *)
ResolveConflict(p) ==
  /\ Visiting(p)
  /\ LabelledBy(listed[p])
  /\ label # NoLabel
  /\ SplitProfileID(label) # p
  /\ Found(store, label)
  /\ IF KeepsExisting(store[SplitProfileID(label)], listed[p])
     THEN SetQuotaProfileLabels(SplitProfileID(label))
     ELSE SetQuotaProfileLabels(p)
  /\ matched' = TRUE
  /\ Continue

(* The existing profile cannot be read: its error is the answer.           *)
ConflictError(p) ==
  /\ Visiting(p)
  /\ LabelledBy(listed[p])
  /\ label # NoLabel
  /\ SplitProfileID(label) # p
  /\ ~Found(store, label)
  /\ Answer("denied")
  /\ UNCHANGED <<label, matched>>

Panic(p) ==
  /\ Visiting(p)
  /\ HasNoKey(listed[p]) \/ (NamedBy(listed[p]) /\ request.bare)
  /\ Answer("denied")
  /\ UNCHANGED <<label, matched>>

(* Mutant: removeLabel is forgotten.                                       *)
FinishKeepsLabel ==
  /\ pc = "loop"
  /\ i > Len(items)
  /\ Answer("admitted")
  /\ UNCHANGED <<label, matched>>

(* After the loop: removeLabel unless a label selector matched.            *)
Finish ==
  /\ pc = "loop"
  /\ i > Len(items)
  /\ label' = IF matched THEN label ELSE NoLabel
  /\ Answer("admitted")
  /\ UNCHANGED matched

(* The response is sent; the next review starts from scratch.              *)
Respond ==
  /\ pc \in {"admitted", "denied"}
  /\ pc' = "idle"
  /\ request' = Absent
  /\ listed' = [p \in Profile |-> Absent]
  /\ items' = <<>>
  /\ i' = 1
  /\ label' = NoLabel
  /\ matched' = FALSE
  /\ drift' = 0
  /\ UNCHANGED store

-----------------------------------------------------------------------------
Init ==
  /\ store = [p \in Profile |-> Absent]
  /\ pc = "idle"
  /\ request = Absent
  /\ listed = [p \in Profile |-> Absent]
  /\ items = <<>>
  /\ i = 1
  /\ label = NoLabel
  /\ matched = FALSE
  /\ drift = 0

Informer == \E p \in Profile : CacheAdd(p) \/ CacheUpdate(p) \/ CacheDelete(p)

Default ==
  \/ Begin
  \/ SkipDeleting
  \/ \E p \in Profile :
       \/ SkipUnmatched(p)
       \/ MatchName(p)
       \/ MatchLabels(p)
       \/ ResolveConflict(p)
       \/ ConflictError(p)
       \/ Panic(p)
  \/ Finish
  \/ Respond

Next == Informer \/ Default

Spec == Init /\ [][Next]_vars

-----------------------------------------------------------------------------
(* What a review promises.  The promises speak of the listed profiles that *)
(* are not being deleted, and of the verdict "admitted" with its label.    *)

Live == {p \in Stored(listed) : ~listed[p].deleting}

NameMatches == {p \in Live : NamedBy(listed[p])}

LabelMatches == {p \in Live : LabelledBy(listed[p])}

Admitted == pc = "admitted"

(* p beats q: a higher precedence, or the same and not older.              *)
Outranks(p, q) ==
  \/ listed[p].precedence > listed[q].precedence
  \/ /\ listed[p].precedence = listed[q].precedence
     /\ listed[p].created >= listed[q].created

(* A profile that names the Namespace gets it whatever the precedences and *)
(* whatever label selectors the loop met first, and the oldest such one    *)
(* (to the second) does; a cache that moves during the review changes      *)
(* nothing.                                                                *)
NameSelectorWins ==
  Admitted /\ NameMatches # {} =>
    /\ label \in NameMatches
    /\ \A p \in NameMatches : listed[label].created <= listed[p].created

(* The label written for the request is the submitted one, none, or that   *)
(* of a live profile which selects the Namespace: a review never hands a   *)
(* Namespace to a profile that does not ask for it.  Without any matching  *)
(* profile even the submitted label is removed.                            *)
OnlyMatchingOrHeld ==
  Admitted =>
    /\ label \in {NoLabel, request.profile} \cup NameMatches \cup LabelMatches
    /\ NameMatches \cup LabelMatches = {} => label = NoLabel

(* A Namespace that no name selector asks for goes to the highest          *)
(* precedence among the profiles whose label selector it matches, and      *)
(* among equals to the youngest, whether it held none of them or one of    *)
(* them before, in whatever order the list came.                           *)
HighestPrecedenceWins ==
  /\ Admitted
  /\ drift = 0
  /\ NameMatches = {}
  /\ LabelMatches # {}
  /\ request.profile \in {NoLabel} \cup LabelMatches
  => /\ label \in LabelMatches
     /\ \A q \in LabelMatches : Outranks(label, q)

(* A review over a still cache refuses nothing that is well formed: the    *)
(* label submitted names a stored profile or is absent, the Namespace has  *)
(* a label map, no selector is empty, and no profile with a dotted name    *)
(* competes with another for the Namespace.                                *)
CleanReviewAdmitted ==
  /\ pc = "denied"
  /\ drift = 0
  => \/ request.bare
     \/ request.profile # NoLabel /\ ~Found(listed, request.profile)
     \/ \E p \in Live : HasNoKey(listed[p])
     \/ \E p \in LabelMatches \cap Dotted : LabelMatches # {p}

(* The review implements the assignment policy: a step of the loop is no   *)
(* step of the policy until the handler returns, and what it returns is    *)
(* one of the answers the policy grants, or a refusal it knows.            *)
Policy == INSTANCE AssignmentPolicy WITH
  seen <- listed,
  still <- drift = 0,
  verdict <- CASE pc = "idle" -> "none"
               [] pc = "loop" -> "pending"
               [] OTHER -> pc,
  answer <- IF pc = "admitted" THEN label ELSE NoLabel

ImplementsPolicy == Policy!Spec

(* The loop in one step, as other modules use it.                          *)
Atomic == INSTANCE NamespaceReview

(* Over a cache that keeps still, the answer the loop arrives at step by   *)
(* step is one the review in one step may give, whatever the label held at *)
(* the start.                                                              *)
AgreesWithReview ==
  /\ pc \in {"admitted", "denied"}
  /\ drift = 0
  /\ ~request.bare
  => (IF pc = "denied" THEN Absent ELSE label)
       \in Atomic!Reviews(listed, request.name, request.labels, request.profile)

(* The README (line 133): a single match is applied.  The webhook lets the *)
(* label of a stored profile with a higher precedence stay, without asking *)
(* whether that profile still selects the Namespace.                       *)
SingleMatchApplies ==
  /\ Admitted
  /\ drift = 0
  /\ Cardinality(NameMatches \cup LabelMatches) = 1
  => label \in NameMatches \cup LabelMatches

(* namespace_webhook.go:155, "existing profile not found, using new        *)
(* profile": a label whose profile is gone gives way to a matching one.    *)
DanglingLabelReplaced ==
  /\ pc = "denied"
  /\ drift = 0
  => \/ request.bare
     \/ request.profile \notin Profile \ Dotted
     \/ Found(listed, request.profile)
     \/ \E p \in Live : HasNoKey(listed[p])
     \/ LabelMatches \cap Dotted # {}
=============================================================================
