------------------------ MODULE QuotaOperatorProofs ------------------------
(***************************************************************************)
(* The Namespace controller takes nothing from the assignment of profiles: *)
(* the operator as a whole implements ProfileAssignment, and what is       *)
(* proved of that holds of the whole.                                      *)
(***************************************************************************)
EXTENDS QuotaOperator, ProfileAssignmentProofs

(* A step of the operator is one of the assignment, or one of the          *)
(* Namespace controller alone.                                             *)
LEMMA StepAssigns ==
  ASSUME [OperatorNext]_operatorVars
  PROVE  [Next]_vars
BY DEF OperatorNext, Assign, Inform, StartAgain, ComeBack, TakeUp, Pursue, CleanUp,
       Enforce, LeaveUnfound, SetOut, LeaveAlone, Next, operatorVars

(* The operator, with both controllers, the webhooks and the caches they   *)
(* share, behaves as ProfileAssignment says.                               *)
THEOREM OperatorAssigns == OperatorSpec => Spec
<1>1. OperatorInit => Init
  BY DEF OperatorInit
<1> QED BY <1>1, StepAssigns, PTL DEF OperatorSpec, Spec

(* So its finalizer goes only when the labels are gone, too.               *)
THEOREM OperatorCleansUp == OperatorSpec => CleanupLeavesNoLabel
BY OperatorAssigns, NoLabelLeftBehind, PTL

-----------------------------------------------------------------------------
(* Type correctness.                                                       *)

(* What the Namespace controller adds is of its types.                     *)
OwnTypes ==
  /\ events \subseteq Namespace
  /\ worker \in [ns : Namespace, label : ProfileLabel] \cup {Absent}
  /\ aims \in [Namespace -> Aim \cup {Absent}]

LEMMA TakeUpTypes ==
  ASSUME TInv, OwnTypes, NEW n \in Namespace, TakeUp(n)
  PROVE  OwnTypes'
<1>1. CASE n \in Exists(cache)
  <2>1. cache.ns[n] \in Record
    BY <1>1, WorldParts DEF Exists, TInv, TypeOK
  <2>2. cache.ns[n].profile \in ProfileLabel
    BY <2>1 DEF Record
  <2> QED BY <1>1, <2>2 DEF TakeUp, OwnTypes
<1>2. CASE n \notin Exists(cache)
  BY <1>2 DEF TakeUp, OwnTypes
<1> QED BY <1>1, <1>2

(* A profile that is found has specs.                                      *)
LEMMA PursueTypes ==
  ASSUME TInv, OwnTypes, Pursue
  PROVE  OwnTypes'
<1>1. ASSUME NEW aim \in Aim, SetOut(aim)
      PROVE  OwnTypes'
  BY <1>1 DEF SetOut, OwnTypes
<1>2. CASE CleanUp
  BY <1>1, <1>2 DEF CleanUp, Aim
<1>3. CASE Enforce
  <2> DEFINE p == SplitProfileID(worker.label)
  <2>1. p \in Profile /\ cache.profiles[p] # Absent
    BY <1>3 DEF Enforce, Found
  <2>2. cache.profiles[p] \in Object
    BY <2>1, WorldParts DEF TInv, TypeOK
  <2>3. [owner |-> p, specs |-> cache.profiles[p].specs] \in Aim
    BY <2>1, <2>2 DEF Object, Aim
  <2>4. SetOut([owner |-> p, specs |-> cache.profiles[p].specs])
    BY <1>3 DEF Enforce
  <2> HIDE DEF p
  <2> QED BY <1>1, <2>3, <2>4
<1>4. CASE LeaveUnfound
  BY <1>4 DEF LeaveUnfound, LeaveAlone, OwnTypes
<1> QED BY <1>2, <1>3, <1>4 DEF Pursue

(* What the Namespace controller sets out to enforce are the specs of a    *)
(* profile, also when the one its label named has gone since the label was *)
(* read; and its events are Namespaces.                                    *)
THEOREM OperatorTypesCorrect == OperatorSpec => []OperatorTypeOK
<1>1. OperatorInit => OwnTypes
  BY DEF OperatorInit, Exists, OwnTypes
<1>2. TInv /\ OwnTypes /\ [OperatorNext]_operatorVars => OwnTypes'
  <2> SUFFICES ASSUME TInv, OwnTypes, [OperatorNext]_operatorVars
               PROVE  OwnTypes'
    OBVIOUS
  <2>1. CASE Assign
    BY <2>1 DEF Assign, OwnTypes
  <2>2. CASE Inform
    BY <2>2 DEF Inform, OwnTypes, TInv, TypeOK
  <2>3. CASE StartAgain
    BY <2>3 DEF StartAgain, Exists, OwnTypes
  <2>4. ASSUME NEW n \in Namespace, TakeUp(n) \/ ComeBack(n)
        PROVE  OwnTypes'
    BY <2>4, TakeUpTypes DEF ComeBack, OwnTypes
  <2>5. CASE Pursue
    BY <2>5, PursueTypes
  <2>6. CASE UNCHANGED operatorVars
    BY <2>6 DEF operatorVars, OwnTypes
  <2> QED BY <2>1, <2>2, <2>3, <2>4, <2>5, <2>6 DEF OperatorNext
<1>3. OperatorSpec => []TInv
  BY OperatorAssigns, Types, PTL
<1>4. TInv /\ OwnTypes => OperatorTypeOK
  BY DEF TInv, OwnTypes, OperatorTypeOK
<1> QED BY <1>1, <1>2, <1>3, <1>4, PTL DEF OperatorSpec
=============================================================================
