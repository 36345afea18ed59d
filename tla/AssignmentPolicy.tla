-------------------------- MODULE AssignmentPolicy --------------------------
(***************************************************************************)
(* Which profile a Namespace gets: the decision flow chart of the          *)
(* repository's README (lines 124-134) as the code has it, with one        *)
(* decision per review and no loop.  It is what a user of the operator     *)
(* needs to know of the Namespace webhook; NamespaceDefaulter implements   *)
(* it.                                                                     *)
(***************************************************************************)
EXTENDS QuotaProfiles

VARIABLES
  store,    \* the cached QuotaProfiles
  request,  \* the Namespace under review; Absent between reviews
  seen,     \* the profiles when the request came
  still,    \* the store has not changed since
  verdict,  \* "none", "pending", "admitted" or "denied"
  answer    \* the profile label it is admitted with

vars == <<store, request, seen, still, verdict, answer>>

(* The profiles that take part in the decision.                            *)
Live == {p \in Profile : seen[p] # Absent /\ ~seen[p].deleting}

Naming ==
  {p \in Live : seen[p].selector.kind = "matchName"
                  /\ seen[p].selector.name = request.name}

Labelling ==
  {p \in Live : /\ seen[p].selector.kind = "matchLabels"
                /\ seen[p].selector.labels # {}
                /\ seen[p].selector.labels \subseteq request.labels}

EmptySelector(p) ==
  seen[p].selector.kind = "matchLabels" /\ seen[p].selector.labels = {}

(* Line 119 of the README: precedence first, then the youngest.            *)
Outranks(p, q) ==
  \/ seen[p].precedence > seen[q].precedence
  \/ /\ seen[p].precedence = seen[q].precedence
     /\ seen[p].created >= seen[q].created

Best == {p \in Labelling : \A q \in Labelling : Outranks(p, q)}

(* The profile in the submitted label, and whether it names any.           *)
Holder == SplitProfileID(request.profile)
Dangling == request.profile # NoLabel /\ ~Found(seen, request.profile)

(* A holder that does not ask for the Namespace, or not any more, yields   *)
(* to a match unless it has more precedence than every one of them.        *)
HolderStays ==
  /\ Found(seen, request.profile)
  /\ Holder \notin Labelling
  /\ \A q \in Labelling : seen[Holder].precedence > seen[q].precedence

(* The labels a Namespace may be admitted with.                            *)
Granted ==
  IF Naming # {}
  THEN {p \in Naming : \A q \in Naming : seen[p].created <= seen[q].created}
  ELSE IF Labelling = {} THEN {NoLabel}
  ELSE IF ~still THEN (Labelling \cup {request.profile}) \ {NoLabel}
  ELSE IF Dangling THEN {}
  ELSE IF HolderStays THEN {Holder}
  ELSE Best

(* What may cost the Namespace its admission.                              *)
Refusable ==
  \/ \E p \in Live : EmptySelector(p)
  \/ request.bare /\ Naming # {}
  \/ /\ Labelling # {}
     /\ still => Dangling \/ \E p \in Labelling \cap Dotted : Labelling # {p}

-----------------------------------------------------------------------------
Init ==
  /\ store = [p \in Profile |-> Absent]
  /\ request = Absent
  /\ seen = [p \in Profile |-> Absent]
  /\ still = TRUE
  /\ verdict = "none"
  /\ answer = NoLabel

(* A QuotaProfile is added, updated or removed.                            *)
Deliver ==
  /\ \E p \in Profile : store' = [store EXCEPT ![p] = store'[p]]
  /\ still' = (still /\ verdict = "none")
  /\ UNCHANGED <<request, seen, verdict, answer>>

Receive ==
  /\ verdict = "none"
  /\ verdict' = "pending"
  /\ request' \in Request
  /\ seen' = store
  /\ still' = TRUE
  /\ UNCHANGED <<store, answer>>

Grant ==
  /\ verdict = "pending"
  /\ verdict' = "admitted"
  /\ answer' \in Granted
  /\ UNCHANGED <<store, request, seen, still>>

Refuse ==
  /\ verdict = "pending"
  /\ verdict' = "denied"
  /\ Refusable
  /\ UNCHANGED <<store, request, seen, still, answer>>

Respond ==
  /\ verdict \in {"admitted", "denied"}
  /\ verdict' = "none"
  /\ request' = Absent
  /\ seen' = [p \in Profile |-> Absent]
  /\ still' = TRUE
  /\ answer' = NoLabel
  /\ UNCHANGED store

Next == Deliver \/ Receive \/ Grant \/ Refuse \/ Respond

Spec == Init /\ [][Next]_vars
=============================================================================
