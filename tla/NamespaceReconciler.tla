------------------------ MODULE NamespaceReconciler ------------------------
(***************************************************************************)
(* How the ResourceQuotas and LimitRanges of one namespace follow the      *)
(* profile label of the Namespace, one step per API call of a reconcile    *)
(* pass, while users and other service accounts write objects of the same  *)
(* kinds.                                                                  *)
(*                                                                         *)
(* Reads come from informer caches, writes go to the API server, and the   *)
(* cache of a kind lags behind what is live.  behind and outdated stand    *)
(* for resource versions.  Every failed write is logged and swallowed, so  *)
(* the pass goes on and ends without an error; the next event or resync is *)
(* its only retry.                                                         *)
(***************************************************************************)
EXTENDS Naturals, Sequences, FiniteSets, ObjectValidators

CONSTANTS
  Profile,     \* keys of QuotaProfile objects
  Stem,        \* [Profile -> a prefix]: "<namespace>-<name>", not injective
  Foreign,     \* [names no profile generates -> the index read off them]
  NoIndex,     \* ... or an error: no number is there
  Panics,      \* ... or a panic: the name has no "-"
  Value,       \* values of one ResourceQuotaSpec or LimitRangeSpec
  Contents,    \* [Profile -> the spec lists it may have: [rq |-> .., lr |-> ..]]
  UserObject,  \* the objects others write: [label |-> .., spec |-> ..]
  Others,      \* who writes them: of Requesters
  MaxSpecs,    \* bound: specs of a kind in one profile
  MaxChanges,  \* bound: changes of the label, of profiles, and by users
  MaxFaults    \* bound: failed calls, status updates and restarts

ObjectLabel == Profile \cup {NoLabel, EmptyLabel}

(* A stored ResourceQuota or LimitRange.                                   *)
Object == [label : ObjectLabel, spec : Value]

Specs == {specs \in Seq(Value) : Len(specs) <= MaxSpecs}

ASSUME ReconcilerAssumption ==
  /\ MaxSpecs \in Nat /\ MaxChanges \in Nat /\ MaxFaults \in Nat
  /\ DOMAIN Stem = Profile
  /\ Contents \in [Profile -> SUBSET [rq : Specs, lr : Specs]]
  /\ UserObject \subseteq Object
  /\ Others \subseteq Requesters
  /\ NoLabel \notin Profile /\ EmptyLabel \notin Profile
  /\ Absent \notin Object

Kind == {"rq", "lr"}

(* "<namespace>-<name>-<index>-rq" and "...-lr": the two kinds are stored  *)
(* apart.  The index is read back from the last part but one.              *)
Generated == {Stem[p] : p \in Profile} \X (0..(MaxSpecs - 1))
Name == Generated \cup DOMAIN Foreign
NameOf(p, k) == <<Stem[p], k>>
IndexOf(n) == IF n \in Generated THEN n[2] ELSE Foreign[n]

Store == [Name -> Object \cup {Absent}]

VARIABLES
  live,      \* [Kind -> Store]: what the API server holds
  cache,     \* [Kind -> Store]: what the informer has delivered
  behind,    \* [Kind -> SUBSET Name]: written since the cache caught up
  profiles,  \* the cached QuotaProfiles: their contents, or Absent
  assigned,  \* the profile label on the cached Namespace
  closing,   \* the Namespace is being deleted, or gone
  dirty,     \* the workqueue holds the Namespace's key
  pass,      \* the pass of the worker: a Pass
  changes, faults  \* history: what the bounds count

objects == <<live, cache, behind>>
namespace == <<assigned, closing>>
history == <<changes, faults>>
vars == <<objects, profiles, namespace, dirty, pass, history>>

(* target and content are the profile that is enforced and its contents,   *)
(* todo has the managed items of the list still to be handled, outdated    *)
(* those of them written since the List call, blank says that it was       *)
(* empty; k is the index of the next spec.  clean is a history variable:   *)
(* nothing has disturbed this pass.                                        *)
Pass ==
  [pc : {"idle", "quotas", "ranges", "dropQuotas", "dropRanges"},
   target : Profile \cup {NoLabel}, content : [rq : Specs, lr : Specs] \cup {Absent},
   todo : Store, blank : BOOLEAN, outdated : SUBSET Name, k : 0..MaxSpecs,
   clean : BOOLEAN]

TypeOK ==
  /\ live \in [Kind -> Store]
  /\ cache \in [Kind -> Store]
  /\ behind \in [Kind -> SUBSET Name]
  /\ DOMAIN profiles = Profile
  /\ \A p \in Profile : profiles[p] \in Contents[p] \cup {Absent}
  /\ assigned \in Profile \cup {NoLabel}
  /\ closing \in BOOLEAN
  /\ dirty \in BOOLEAN
  /\ pass \in Pass
  /\ pass.pc \in {"quotas", "ranges"} => pass.target # NoLabel /\ pass.content # Absent
  /\ \A n \in Name : pass.todo[n] # Absent => pass.todo[n].label # NoLabel
  /\ changes \in 0..MaxChanges
  /\ faults \in 0..MaxFaults

Empty == [n \in Name |-> Absent]

(* The objects with the profile label, whatever its value: the pass skips  *)
(* the others.                                                             *)
Managed(store) == {n \in Name : store[n] # Absent /\ store[n].label # NoLabel}

Fault == faults < MaxFaults /\ faults' = faults + 1

-----------------------------------------------------------------------------
(* Calls to the API server.                                                *)

KindAt(pc) == IF pc \in {"quotas", "dropQuotas"} THEN "rq" ELSE "lr"

(* In the state p of a pass, an item of its list is written.               *)
Outdate(p, kind, n) ==
  IF p.pc # "idle" /\ KindAt(p.pc) = kind /\ p.todo[n] # Absent
  THEN [p EXCEPT !.outdated = @ \cup {n}]
  ELSE p

(* A call after which o is stored under n, and the pass is at next; or it  *)
(* fails, and that is forgotten.                                           *)
Call(kind, n, o, next) ==
  /\ \/ /\ live' = [live EXCEPT ![kind][n] = o]
        /\ behind' = IF o = live[kind][n] THEN behind
                     ELSE [behind EXCEPT ![kind] = @ \cup {n}]
        /\ pass' = next
        /\ UNCHANGED faults
     \/ /\ Fault
        /\ pass' = [next EXCEPT !.clean = FALSE]
        /\ UNCHANGED <<live, behind>>
  /\ UNCHANGED <<cache, profiles, namespace, dirty, changes>>

(* By name and without a precondition: a stale list may delete whatever    *)
(* has the name now.                                                       *)
Delete(kind, n, next) == Call(kind, n, Absent, next)

(* A copy of another version is refused, and so is one of a deleted        *)
(* object.  Only the spec differs from the copy that was read.             *)
Update(kind, n, spec, old, next) ==
  LET o == live[kind][n]
  IN Call(kind, n, IF o = Absent \/ old THEN o ELSE [o EXCEPT !.spec = spec], next)

Create(kind, n, spec, next) ==
  LET o == live[kind][n]
  IN Call(kind, n, IF o = Absent THEN [label |-> next.target, spec |-> spec] ELSE o, next)

-----------------------------------------------------------------------------
(* Reconcile.                                                              *)

Rest ==
  [pc |-> "idle", target |-> NoLabel, content |-> Absent, todo |-> Empty,
   blank |-> FALSE, outdated |-> {}, k |-> 0, clean |-> FALSE]

(* Mutant: the items without the label are not skipped.                    *)
ListAll(kind, p) ==
  [p EXCEPT !.todo = cache[kind], !.blank = (cache[kind] = Empty),
            !.outdated = behind[kind], !.k = 0]

(* The pass p after a List call.                                           *)
List(kind, p) ==
  LET items == Managed(cache[kind])
  IN [p EXCEPT
        !.todo = [n \in Name |-> IF n \in items THEN cache[kind][n] ELSE Absent],
        !.blank = (cache[kind] = Empty),
        !.outdated = behind[kind] \cap items,
        !.k = 0]

(* The key leaves the queue; an event during the pass puts it back.        *)
Dequeue ==
  /\ pass = Rest
  /\ dirty
  /\ dirty' = FALSE
  /\ UNCHANGED <<objects, profiles, namespace, history>>

(* History: a pass for p starts from caches that have caught up, and its   *)
(* names hold no quota with another label.                                 *)
Undisturbed(p) ==
  /\ \A kind \in Kind : behind[kind] = {}
  /\ \A n \in Managed(cache["rq"]) \cap Generated :
       p # NoLabel /\ n[1] = Stem[p] => cache["rq"][n].label = p

(* The Namespace is being deleted or gone, or its profile is not found.    *)
ReturnEarly ==
  /\ Dequeue
  /\ closing \/ (assigned # NoLabel /\ profiles[assigned] = Absent)
  /\ UNCHANGED pass

BeginCleanup ==
  /\ Dequeue
  /\ ~closing
  /\ assigned = NoLabel
  /\ pass' = List("rq", [Rest EXCEPT !.pc = "dropQuotas", !.clean = Undisturbed(NoLabel)])

(* Mutant: any error of the profile's Get is ignored.                      *)
BeginEnforceUnchecked ==
  /\ Dequeue
  /\ ~closing
  /\ assigned # NoLabel
  /\ pass' = List("rq", [Rest EXCEPT !.pc = "quotas", !.target = assigned,
                                     !.content = profiles[assigned]])

BeginEnforce ==
  /\ Dequeue
  /\ ~closing
  /\ assigned # NoLabel
  /\ profiles[assigned] # Absent
  /\ pass' = List("rq", [Rest EXCEPT !.pc = "quotas", !.target = assigned,
                                     !.content = profiles[assigned],
                                     !.clean = Undisturbed(assigned)])

(* The item n of the list is at hand; the next state of the pass.          *)
AtItem(pc, n) == pass.pc = pc /\ pass.todo[n] # Absent

Past(n) == [pass EXCEPT !.todo[n] = Absent, !.outdated = @ \ {n}]

Own(n) == pass.todo[n].label = pass.target

Skip(n) ==
  /\ pass' = Past(n)
  /\ UNCHANGED <<objects, profiles, namespace, dirty, history>>

(* An item of another profile goes, one without an index is skipped, and   *)
(* so is none with an index in bounds.                                     *)
QuotaItem(n) ==
  /\ AtItem("quotas", n)
  /\ \/ ~Own(n) /\ Delete("rq", n, Past(n))
     \/ Own(n) /\ IndexOf(n) = NoIndex /\ Skip(n)
     \/ /\ Own(n)
        /\ IndexOf(n) \in Nat
        /\ IF IndexOf(n) >= Len(pass.content.rq)
           THEN Delete("rq", n, Past(n))
           ELSE Update("rq", n, pass.content.rq[IndexOf(n) + 1],
                       n \in pass.outdated, Past(n))

(* Mutant: quotas are created only where the namespace had none, as        *)
(* reconcileLimitRanges does.                                              *)
NotFoundInEmptyList(n) == pass.blank

(* Get of the name, from the cache.                                        *)
NotFound(n) == cache["rq"][n] = Absent

NoItems(pc) == pass.pc = pc /\ pass.todo = Empty

(* reconcileResourceQuotas, second loop: a spec of the profile.            *)
QuotaSpec ==
  LET n == NameOf(pass.target, pass.k)
      spec == pass.content.rq[pass.k + 1]
      next == [pass EXCEPT !.k = @ + 1]
  IN /\ NoItems("quotas")
     /\ pass.k < Len(pass.content.rq)
     /\ IF NotFound(n) THEN Create("rq", n, spec, next)
                       ELSE Update("rq", n, spec, n \in behind["rq"], next)

(* The pass moves on to the LimitRanges.                                   *)
Proceed(pc) ==
  /\ pass' = List("lr", [pass EXCEPT !.pc = pc])
  /\ UNCHANGED <<objects, profiles, namespace, dirty, history>>

ListRanges ==
  /\ NoItems("quotas")
  /\ pass.k = Len(pass.content.rq)
  /\ Proceed("ranges")

(* Mutant: ">" for ">=" the other way round, one index too few.            *)
RangeBoundOffByOne == Len(pass.content.rq) - 1

(* The bound is the number of ResourceQuota specs.                         *)
RangeBound == Len(pass.content.rq)

(* reconcileLimitRanges, when the list is not empty: an item of it.        *)
RangeItem(n) ==
  /\ AtItem("ranges", n)
  /\ \/ ~Own(n) /\ Delete("lr", n, Past(n))
     \/ Own(n) /\ IndexOf(n) = NoIndex /\ Skip(n)
     \/ /\ Own(n)
        /\ IndexOf(n) \in Nat
        /\ \/ /\ IndexOf(n) >= RangeBound
              /\ Delete("lr", n, Past(n))
           \/ /\ IndexOf(n) < RangeBound
              /\ IndexOf(n) < Len(pass.content.lr)
              /\ Update("lr", n, pass.content.lr[IndexOf(n) + 1],
                        n \in pass.outdated, Past(n))

(* A panic is recovered, and the key is queued again.                      *)
Requeue ==
  /\ pass' = Rest
  /\ dirty' = TRUE
  /\ UNCHANGED <<objects, profiles, namespace, history>>

(* parts[len(parts)-2] of a name without a "-".                            *)
NamePanic(n) ==
  /\ AtItem("quotas", n) \/ AtItem("ranges", n)
  /\ Own(n)
  /\ IndexOf(n) = Panics
  /\ Requeue

(* An item within RangeBound that has no LimitRange spec.                  *)
RangePanic(n) ==
  /\ AtItem("ranges", n)
  /\ Own(n)
  /\ IndexOf(n) \in Nat
  /\ IndexOf(n) < RangeBound
  /\ IndexOf(n) >= Len(pass.content.lr)
  /\ Requeue

(* Mutant: the loop stops before the last spec.                            *)
RangeSpecsButLast ==
  IF pass.content.lr = <<>> THEN 0 ELSE Len(pass.content.lr) - 1

RangeSpecs == Len(pass.content.lr)

(* reconcileLimitRanges, when the list is empty: a spec of the profile.    *)
RangeSpec ==
  /\ NoItems("ranges")
  /\ pass.blank
  /\ pass.k < RangeSpecs
  /\ Create("lr", NameOf(pass.target, pass.k), pass.content.lr[pass.k + 1],
            [pass EXCEPT !.k = @ + 1])

Return ==
  /\ pass' = Rest
  /\ UNCHANGED <<objects, profiles, namespace, dirty, history>>

EndEnforce ==
  /\ NoItems("ranges")
  /\ pass.blank => pass.k = RangeSpecs
  /\ Return

(* deleteManagedResourceQuotas and deleteManagedLimitRanges: an item.      *)
DropItem(n) ==
  \/ AtItem("dropQuotas", n) /\ Delete("rq", n, Past(n))
  \/ AtItem("dropRanges", n) /\ Delete("lr", n, Past(n))

DropRanges == NoItems("dropQuotas") /\ Proceed("dropRanges")

(* Mutant: the LimitRanges are forgotten.                                  *)
EndCleanupEarly == NoItems("dropQuotas") /\ Return

EndCleanup == NoItems("dropRanges") /\ Return

Reconcile ==
  \/ ReturnEarly
  \/ BeginCleanup
  \/ BeginEnforce
  \/ \E n \in Name :
       QuotaItem(n) \/ RangeItem(n) \/ NamePanic(n) \/ RangePanic(n) \/ DropItem(n)
  \/ QuotaSpec
  \/ ListRanges
  \/ RangeSpec
  \/ EndEnforce
  \/ DropRanges
  \/ EndCleanup

-----------------------------------------------------------------------------
(* The rest of the cluster, and of the operator, as this controller sees   *)
(* them.                                                                   *)

Change == changes < MaxChanges /\ changes' = changes + 1

(* An update of the Namespace, its label now l, reaches the informer.      *)
Assign(l) ==
  /\ ~closing
  /\ l # assigned
  /\ assigned' = l
  /\ dirty' = TRUE
  /\ Change
  /\ UNCHANGED <<objects, profiles, closing, pass, faults>>

CloseNamespace ==
  /\ ~closing
  /\ closing' = TRUE
  /\ dirty' = TRUE
  /\ Change
  /\ UNCHANGED <<objects, profiles, assigned, pass, faults>>

(* A QuotaProfile is created, edited or deleted.  No event of this         *)
(* controller: the QuotaProfile controller touches the Namespace later.    *)
SetProfile(p, c) ==
  /\ c # profiles[p]
  /\ profiles' = [profiles EXCEPT ![p] = c]
  /\ Change
  /\ UNCHANGED <<objects, namespace, dirty, pass, faults>>

(* Somebody else's write, which may change the version only.               *)
Interfere(kind, n, o) ==
  /\ live' = [live EXCEPT ![kind][n] = o]
  /\ behind' = [behind EXCEPT ![kind] = @ \cup {n}]
  /\ pass' = [Outdate(pass, kind, n) EXCEPT !.clean = FALSE]
  /\ UNCHANGED <<cache, profiles, namespace, dirty>>

(* Users and others create, update and delete objects of any name, as far  *)
(* as the validators admit it.                                             *)
OthersWrite(kind, n, o) ==
  /\ o # live[kind][n]
  /\ \E requester \in Others : Admitted(requester, live[kind][n], o)
  /\ Interfere(kind, n, o)
  /\ Change
  /\ UNCHANGED faults

(* The quota controller of Kubernetes writes the status of a quota.        *)
StatusUpdate(n) ==
  /\ live["rq"][n] # Absent
  /\ Interfere("rq", n, live["rq"][n])
  /\ Fault
  /\ UNCHANGED changes

(* The informer of a kind catches up.                                      *)
Sync(kind) ==
  /\ behind[kind] # {}
  /\ cache' = [cache EXCEPT ![kind] = live[kind]]
  /\ behind' = [behind EXCEPT ![kind] = {}]
  /\ UNCHANGED <<live, profiles, namespace, dirty, pass, history>>

(* Any event for the Namespace: a new timestamp label, or the periodic     *)
(* resync of the informer.                                                 *)
Resync ==
  /\ ~dirty
  /\ dirty' = TRUE
  /\ UNCHANGED <<objects, profiles, namespace, pass, history>>

(* The manager dies and starts again: caches are filled before a worker    *)
(* runs, and every Namespace is queued.                                    *)
Restart ==
  /\ Fault
  /\ pass' = Rest
  /\ cache' = live
  /\ behind' = [kind \in Kind |-> {}]
  /\ dirty' = TRUE
  /\ UNCHANGED <<live, profiles, namespace, changes>>

Environment ==
  \/ \E l \in Profile \cup {NoLabel} : Assign(l)
  \/ CloseNamespace
  \/ \E p \in Profile : \E c \in Contents[p] \cup {Absent} : SetProfile(p, c)
  \/ \E kind \in Kind, n \in Name, o \in UserObject \cup {Absent} :
       OthersWrite(kind, n, o)
  \/ \E n \in Name : StatusUpdate(n)
  \/ Restart

-----------------------------------------------------------------------------
Init ==
  /\ live = [kind \in Kind |-> Empty]
  /\ cache = live
  /\ behind = [kind \in Kind |-> {}]
  /\ profiles \in {f \in [Profile -> UNION {Contents[p] : p \in Profile} \cup {Absent}] :
                    \A p \in Profile : f[p] \in Contents[p] \cup {Absent}}
  /\ assigned \in Profile \cup {NoLabel}
  /\ closing = FALSE
  /\ dirty = TRUE
  /\ pass = Rest
  /\ changes = 0
  /\ faults = 0

Next == Reconcile \/ Environment \/ Resync \/ \E kind \in Kind : Sync(kind)

Spec == Init /\ [][Next]_vars

(* The worker runs, watches are served, and the informer resyncs.          *)
Fairness ==
  /\ WF_vars(Reconcile)
  /\ WF_vars(Resync)
  /\ \A kind \in Kind : WF_vars(Sync(kind))

FairSpec == Spec /\ Fairness

-----------------------------------------------------------------------------
(* Properties.                                                             *)

(* What is managed is labelled for p, and what has an index in its name    *)
(* has the spec of that index, whoever generated the name.  An object      *)
(* somebody labelled under a name without an index may have any spec.      *)
Orderly(store, p, specs) ==
  \A n \in Managed(store) :
    /\ store[n].label = p
    /\ IndexOf(n) # NoIndex =>
         /\ IndexOf(n) \in 0..(Len(specs) - 1)
         /\ store[n].spec = specs[IndexOf(n) + 1]

(* And every spec of p is there under its name.                            *)
Match(store, p, specs) ==
  /\ \A j \in 0..(Len(specs) - 1) :
       /\ store[NameOf(p, j)] # Absent
       /\ store[NameOf(p, j)].spec = specs[j + 1]
  /\ Orderly(store, p, specs)

(* A pass that nothing disturbed, over a namespace in which no quota of    *)
(* another label has a name of the profile, leaves every ResourceQuota the *)
(* profile lists, none of another profile, and none with an index beyond   *)
(* the list; a labelled quota with an index that the profile did not       *)
(* generate stays, but has the spec of that index, and only one without    *)
(* stays as it is.  This in one pass, in which the first loop's deletions  *)
(* and updates are not in the cache the second loop reads.                 *)
CleanPassEnforces ==
  [][EndEnforce /\ pass.clean
     => Match(live["rq"], pass.target, pass.content.rq)]_vars

(* A pass over a Namespace without the label removes every managed object  *)
(* of both kinds.                                                          *)
CleanPassCleans ==
  [][EndCleanup /\ pass.clean => \A kind \in Kind : Managed(live[kind]) = {}]_vars

(* Objects the validators call unmanaged stay as their owners made them,   *)
(* but for three cases: the ResourceQuota that has the name of the spec at *)
(* hand gets its values; an object is deleted for the managed one it       *)
(* replaced, or was, after the pass had listed it; and one with an empty   *)
(* label value is another profile's for the controller.                    *)
UnmanagedKept ==
  [][\A kind \in Kind, n \in Name :
       /\ live[kind][n] # Absent
       /\ ~IsManagedByQuotaProfile(live[kind][n])
       /\ live'[kind][n] # live[kind][n]
       /\ Reconcile
       => \/ /\ QuotaSpec
             /\ n = NameOf(pass.target, pass.k)
             /\ live'[kind][n] # Absent
          \/ /\ live'[kind][n] = Absent
             /\ n \in pass.outdated \/ live[kind][n].label = EmptyLabel]_vars

(* A ResourceQuota with the label of the assigned profile has a name that  *)
(* makes every pass over the namespace panic.                              *)
Unreadable ==
  \E n \in Managed(live["rq"]) :
    live["rq"][n].label = assigned /\ IndexOf(n) = Panics

(* The ResourceQuotas are those of the assigned profile, or none.          *)
QuotasEnforced ==
  IF assigned = NoLabel
  THEN \A kind \in Kind : Managed(live[kind]) = {}
  ELSE \/ profiles[assigned] = Absent
       \/ Unreadable
       \/ Match(live["rq"], assigned, profiles[assigned].rq)

(* Once changes and failures stop, the ResourceQuotas reach what the label *)
(* asks for and stay, although passes swallow every failed write, names    *)
(* may collide, users may have taken the label off a managed quota or have *)
(* quotas of those names themselves, and the operator may have crashed in  *)
(* the middle; unless a quota makes every pass panic.                      *)
Convergence == <>[](closing \/ QuotasEnforced)

RangesEnforced ==
  \/ assigned = NoLabel
  \/ profiles[assigned] = Absent
  \/ Match(live["lr"], assigned, profiles[assigned].lr)

(* README.md:203: LimitRanges are created, updated and deleted as the      *)
(* assigned profile has them.                                              *)
RangesConverge == <>[](closing \/ RangesEnforced)

(* A LimitRange with the label of the assigned profile makes every pass    *)
(* panic: its name has no "-", or an index that is beyond the LimitRange   *)
(* specs and not beyond the ResourceQuota specs.                           *)
RangePanics ==
  LET c == profiles[assigned]
  IN \E n \in Managed(live["lr"]) :
       /\ live["lr"][n].label = assigned
       /\ \/ IndexOf(n) = Panics
          \/ IndexOf(n) \in Len(c.lr)..(Len(c.rq) - 1)

(* LimitRanges of other profiles are gone, those of the assigned one have  *)
(* its specs, and it is not without any: not said is that all it lists are *)
(* there.  The bound of line 242 makes a profile without ResourceQuota     *)
(* specs delete and create its LimitRanges by turns.                       *)
RangesOrderly ==
  LET c == profiles[assigned]
  IN /\ Orderly(live["lr"], assigned, c.lr)
     /\ c.rq # <<>> /\ c.lr # <<>> => live["lr"] # Empty

(* Once changes and failures stop, this holds of the LimitRanges whatever  *)
(* failed: some of the creations after which there are no further ones,    *)
(* updates, and the deletions a handover or a creation waits for; unless   *)
(* an object makes every pass panic.                                       *)
RangesFollow ==
  <>[](\/ closing
       \/ assigned = NoLabel
       \/ profiles[assigned] = Absent
       \/ Unreadable
       \/ RangePanics
       \/ RangesOrderly)

(* A clean pass that found no LimitRange in the namespace leaves those of  *)
(* its profile, whatever the number of its ResourceQuota specs.            *)
CleanPassCreatesRanges ==
  [][EndEnforce /\ pass.clean /\ pass.blank
     => Match(live["lr"], pass.target, pass.content.lr)]_vars

(* namespace_controller.go:243, "deleting limit range with out of bounds   *)
(* index": of the profile's own LimitRanges a pass deletes only those      *)
(* beyond its LimitRange specs.                                            *)
WantedRangesKept ==
  [][\A n \in Generated :
       /\ RangeItem(n)
       /\ pass.clean
       /\ Own(n)
       /\ IndexOf(n) < Len(pass.content.lr)
       /\ live["lr"][n] # Absent
       => live'["lr"][n] # Absent]_vars
=============================================================================
