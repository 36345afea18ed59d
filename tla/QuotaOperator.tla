--------------------------- MODULE QuotaOperator ---------------------------
(***************************************************************************)
(* The operator as a whole: the assignment of profiles to Namespaces with  *)
(* the Namespace controller behind it.  The two share the caches and meet  *)
(* in the profile label: each label that is stored is an event for the     *)
(* Namespace controller, and nothing else tells it that a profile has      *)
(* changed.                                                                *)
(*                                                                         *)
(* Of a pass of the Namespace controller there is here what it reads, the  *)
(* label and then the profile, and with it what it sets out to enforce.    *)
(* The rest of the pass, and what becomes of the objects, the controller   *)
(* does without telling anybody: that is NamespaceReconciler.              *)
(***************************************************************************)
EXTENDS ProfileAssignment

VARIABLES
  events,  \* the workqueue of the Namespace controller
  worker,  \* the Namespace its worker has read, [ns, label], or Absent
  aims     \* [Namespace -> the Aim of the last pass that had one, or Absent]

operatorVars == <<vars, events, worker, aims>>

(* A pass is for the specs of a profile, or for no managed objects at all. *)
CleanedUp == [owner |-> NoLabel]

Aim == [owner : Profile, specs : Specs] \cup {CleanedUp}

OperatorTypeOK ==
  /\ TypeOK
  /\ events \subseteq Namespace
  /\ worker \in [ns : Namespace, label : ProfileLabel] \cup {Absent}
  /\ aims \in [Namespace -> Aim \cup {Absent}]

Exists(world) == {n \in Namespace : world.ns[n] # Absent}

-----------------------------------------------------------------------------
(* The Namespace controller: Reconcile.                                    *)

TakeUp(n) ==
  /\ worker = Absent
  /\ n \in events
  /\ events' = events \ {n}
  /\ worker' = IF n \in Exists(cache) THEN [ns |-> n, label |-> cache.ns[n].profile]
                                      ELSE Absent
  /\ UNCHANGED <<vars, aims>>

(* The pass goes on with all it needs; in a Namespace that is gone, in     *)
(* vain.                                                                   *)
SetOut(aim) ==
  /\ aims' = IF worker.ns \in Exists(api) THEN [aims EXCEPT ![worker.ns] = aim] ELSE aims
  /\ worker' = Absent
  /\ UNCHANGED <<vars, events>>

LeaveAlone ==
  /\ worker' = Absent
  /\ UNCHANGED <<vars, events, aims>>

(* Mutant: a Namespace without the label is left as it is.                 *)
CleanUpNothing == worker # Absent /\ worker.label = NoLabel /\ LeaveAlone

CleanUp == worker # Absent /\ worker.label = NoLabel /\ SetOut(CleanedUp)

(* Mutant: the profile is enforced though there is none, with no specs.    *)
EnforceMissing ==
  /\ worker # Absent
  /\ worker.label # NoLabel
  /\ SetOut([owner |-> SplitProfileID(worker.label),
             specs |-> IF Found(cache.profiles, worker.label)
                       THEN cache.profiles[SplitProfileID(worker.label)].specs
                       ELSE Absent])

(* The profile of the label, as it is by now.                              *)
Enforce ==
  /\ worker # Absent
  /\ worker.label # NoLabel
  /\ Found(cache.profiles, worker.label)
  /\ LET p == SplitProfileID(worker.label)
     IN SetOut([owner |-> p, specs |-> cache.profiles[p].specs])

(* The profile is not found: what there is in the Namespace stays.         *)
LeaveUnfound ==
  /\ worker # Absent
  /\ worker.label # NoLabel
  /\ ~Found(cache.profiles, worker.label)
  /\ LeaveAlone

Pursue == CleanUp \/ Enforce \/ LeaveUnfound

-----------------------------------------------------------------------------
OperatorInit ==
  /\ Init
  /\ events = Exists(api)
  /\ worker = Absent
  /\ aims = [n \in Namespace |-> Absent]

(* The objects of a Namespace go with it.                                  *)
Assign ==
  /\ \/ Controller
     \/ Users
     \/ UserStore
     \/ UserConflict
     \/ SyncProfiles
     \/ Resync
  /\ aims' = [n \in Namespace |-> IF n \in Exists(api') THEN aims[n] ELSE Absent]
  /\ UNCHANGED <<events, worker>>

(* What has changed of a Namespace is an event for its controller.         *)
Inform ==
  /\ SyncNamespaces
  /\ events' = events \cup behind.ns
  /\ UNCHANGED <<worker, aims>>

(* After a restart all Namespaces are queued.                              *)
StartAgain ==
  /\ Restart
  /\ events' = Exists(api)
  /\ worker' = Absent
  /\ UNCHANGED aims

(* The resync of the Namespaces, or the retry of a pass that has panicked. *)
ComeBack(n) ==
  /\ n \in Exists(cache) \ events
  /\ events' = events \cup {n}
  /\ UNCHANGED <<vars, worker, aims>>

OperatorNext ==
  \/ Assign
  \/ Inform
  \/ StartAgain
  \/ \E n \in Namespace : TakeUp(n) \/ ComeBack(n)
  \/ Pursue

(* Both workers go on.  Neither resync is relied upon.                     *)
OperatorSpec ==
  /\ OperatorInit
  /\ [][OperatorNext]_operatorVars
  /\ Fairness
  /\ WF_operatorVars(Pursue)
  /\ \A n \in Namespace : SF_operatorVars(TakeUp(n))

-----------------------------------------------------------------------------
(* Properties.                                                             *)

(* Once users stop, the last pass over each Namespace with the label of a  *)
(* profile that selects it was for what that profile lists by now, and the *)
(* last over one without a label was a cleanup.  An edit of a profile      *)
(* reaches the Namespace controller only over the timestamp which the pass *)
(* of the other controller writes anew into every Namespace, a deletion    *)
(* only over the label it removes, and both while label and profile are    *)
(* read one after the other from caches that move; no resync helps.        *)
(* Excepted are profiles the validator would not let pass again, labels    *)
(* that cannot be read back, and Namespaces the webhook refuses.  Of what  *)
(* the pass then leaves nothing is said.                                   *)
AimsFollow ==
  <>[]\A n \in Exists(api) :
        LET p == api.ns[n].profile
        IN /\ p = NoLabel => aims[n] = CleanedUp
           /\ /\ p \in Profile \ Dotted
              /\ Active(p)
              /\ Selects(api.profiles[p], n, api.ns[n])
              /\ ~Duplicate(p)
              /\ ~MayRefuse(n, p)
              => aims[n] = [owner |-> p, specs |-> api.profiles[p].specs]

(* Once users stop, no Namespace is left to what a pass for a profile that *)
(* is gone by now set out to enforce: another one has come, for a cleanup  *)
(* or for another profile, except where the label names a profile that is  *)
(* gone, this one or the next: then passes leave all as it is.             *)
AimsGoWithProfile ==
  <>[]\A n \in Exists(api) :
        /\ aims[n] \notin {Absent, CleanedUp}
        /\ api.profiles[aims[n].owner] = Absent
        => /\ api.ns[n].profile # NoLabel
           /\ ~Found(api.profiles, api.ns[n].profile)
=============================================================================
