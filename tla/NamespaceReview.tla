-------------------------- MODULE NamespaceReview --------------------------
(***************************************************************************)
(* A review by the Namespace defaulter in one step: the loop of Default as *)
(* a recursive function, for a cache that does not move meanwhile and for  *)
(* a Namespace that has a label map.  NamespaceDefaulter is the same loop  *)
(* step by step.                                                           *)
(***************************************************************************)
EXTENDS QuotaProfiles, Sequences

StoredIn(store) == {p \in Profile : store[p] # Absent}

(* Every order sort.Slice may leave, by CreationTimestamp.                 *)
Orders(store) ==
  {s \in [1..Cardinality(StoredIn(store)) -> StoredIn(store)] :
     /\ \A p \in StoredIn(store) : \E j \in DOMAIN s : s[j] = p
     /\ \A j, k \in DOMAIN s :
          j < k => store[s[j]].created <= store[s[k]].created}

Names(o, name) == o.selector.kind = "matchName" /\ o.selector.name = name

EmptySelector(o) == o.selector.kind = "matchLabels" /\ o.selector.labels = {}

Labels(o, labels) ==
  /\ o.selector.kind = "matchLabels"
  /\ o.selector.labels # {}
  /\ o.selector.labels \subseteq labels

(* Mutant: the item always wins over the label found on the Namespace.     *)
HolderLoses(store, label, p) == FALSE

(* resolveConflict: the profile the Namespace is labelled with stays.      *)
HolderStays(store, label, p) ==
  store[SplitProfileID(label)].precedence > store[p].precedence

(* The Namespace has the label of another profile.                         *)
Conflicts(label, p) == label # NoLabel /\ SplitProfileID(label) # p

(* Before the loop: the label submitted, and no match yet.                 *)
Start(profile) == [label |-> profile, matched |-> FALSE, verdict |-> "loop"]

(* One iteration, on the label, the flag matched and the verdict so far.   *)
Iterate(store, name, labels, at, p) ==
  LET o == store[p]
      Set(label) == [at EXCEPT !.label = label, !.matched = TRUE]
      Refuse == [at EXCEPT !.verdict = "denied"]
  IN IF \/ at.verdict # "loop"
        \/ o.deleting
        \/ ~(Names(o, name) \/ Labels(o, labels) \/ EmptySelector(o))
     THEN at
     ELSE IF Names(o, name) THEN [Set(p) EXCEPT !.verdict = "admitted"]
     ELSE IF EmptySelector(o) THEN Refuse
     ELSE IF ~Conflicts(at.label, p) THEN Set(p)
     ELSE IF ~Found(store, at.label) THEN Refuse
     ELSE Set(IF HolderStays(store, at.label, p)
              THEN SplitProfileID(at.label) ELSE p)

(* The loop over the list s: where it is after each number of items.       *)
Loop(store, name, labels, profile, s) ==
  LET at[j \in 0..Len(s)] ==
        IF j = 0 THEN Start(profile)
        ELSE Iterate(store, name, labels, at[j - 1], s[j])
  IN at

(* After the loop: removeLabel unless a label selector matched.            *)
Reply(at) ==
  IF at.verdict = "denied" THEN Absent
  ELSE IF at.matched THEN at.label
  ELSE NoLabel

(* The answers a review of a Namespace may give: the profile label it is   *)
(* admitted with, or Absent for a refusal.                                 *)
Reviews(store, name, labels, profile) ==
  {Reply(Loop(store, name, labels, profile, s)[Len(s)]) : s \in Orders(store)}
=============================================================================
