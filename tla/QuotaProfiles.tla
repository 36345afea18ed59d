--------------------------- MODULE QuotaProfiles ---------------------------
(***************************************************************************)
(* The QuotaProfile custom resource as the rest of the operator sees it:   *)
(* the API object, its namespace selector, and the label value             *)
(* "<namespace>.<name>" that records on a Namespace, a ResourceQuota or a  *)
(* LimitRange which profile it belongs to.                                 *)
(*                                                                         *)
(* A profile key (its namespace and name) is an element of Profile, a      *)
(* key=value label pair an element of Label; no two pairs share a key, so  *)
(* that every set of them is a label map.  The profile label value of      *)
(* profile p is modelled by p itself: "<namespace>.<name>" is injective,   *)
(* because a Kubernetes namespace name holds no dot.  Reading the value    *)
(* back is not injective, and SplitProfileID models that.                  *)
(***************************************************************************)
EXTENDS Naturals, FiniteSets

CONSTANTS
  Profile,     \* keys of QuotaProfile objects
  Dotted,      \* the keys whose object name contains a dot
  Namespace,   \* names of Namespace objects
  Label,       \* key=value pairs a selector may ask for, of distinct keys
  Precedence,  \* values of spec.precedence (a uint16; it is only compared)
  Instant,     \* creation timestamps, in whole seconds
  Specs,       \* values of the ResourceQuota and LimitRange specs, as a whole
  NoLabel,     \* the profile label is not set
  Malformed,   \* a profile label value that names no profile key
  Absent       \* no object is stored under a key

ASSUME ProfileAssumption ==
  /\ IsFiniteSet(Profile)
  /\ Dotted \subseteq Profile
  /\ Precedence \subseteq Nat
  /\ Instant \subseteq Nat
  /\ NoLabel \notin Profile \cup {Malformed}
  /\ Malformed \notin Profile

(***************************************************************************)
(* spec.namespaceSelector.  Validation refuses a selector with both fields *)
(* or with two labels, but it accepts an empty, non-nil matchLabels map.   *)
(***************************************************************************)
Selector ==
  [kind : {"matchName"}, name : Namespace]
    \cup [kind : {"matchLabels"}, labels : {{}} \cup {{l} : l \in Label}]

(* A stored QuotaProfile.                                                  *)
Object ==
  [selector : Selector, precedence : Precedence, specs : Specs,
   created : Instant, deleting : BOOLEAN]

ASSUME AbsentAssumption == Absent \notin Object

(* Values of the label quota.dev.operator/profile.                         *)
ProfileLabel == Profile \cup {NoLabel, Malformed}

(***************************************************************************)
(* A Namespace as it is submitted for review.  "bare" says that its label  *)
(* map is nil, which API servers before 1.21 (no                           *)
(* kubernetes.io/metadata.name label) allow.                               *)
(***************************************************************************)
Request ==
  {r \in [name : Namespace, labels : SUBSET Label,
          profile : ProfileLabel, bare : BOOLEAN] :
     r.bare => r.labels = {} /\ r.profile = NoLabel}

(* Mutant: the value is split at ":", the separator the README documents.   *)
SplitAtColon(id) == NoLabel

(* splitProfileID: the key a label value reads back as.  A value that does *)
(* not have exactly one dot reads as the empty key, which names no object. *)
SplitProfileID(id) == IF id \in Profile \ Dotted THEN id ELSE NoLabel

(* Get by the key read from a label value, in a store of objects.          *)
Found(store, id) ==
  SplitProfileID(id) \in Profile /\ store[SplitProfileID(id)] # Absent
=============================================================================
