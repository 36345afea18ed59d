------------------------- MODULE ProfileAssignment -------------------------
(***************************************************************************)
(* How Namespaces get and lose their profile label: the QuotaProfile       *)
(* controller with its finalizer, the Namespace defaulter that every write *)
(* of a Namespace passes, the QuotaProfile validator that every write of a *)
(* profile passes, and users who change both kinds of object.              *)
(*                                                                         *)
(* Controller and webhooks read one informer cache per kind, which lags    *)
(* behind the API server.  A write of a Namespace takes two steps, the     *)
(* review and the store, and in between others write; behind, outdated,    *)
(* stale and fresh stand for the resource versions that tell the API       *)
(* server so.                                                              *)
(***************************************************************************)
EXTENDS NamespaceReview

CONSTANTS
  Blank,        \* the pairs of Label whose value is the empty string
  Objects,      \* [Profile -> what users create or edit it to, not deleting]
  Labellings,   \* the label sets users give a Namespace
  UserOps,      \* of {"create", "edit", "delete", "relabel", "open", "close"}
  Deployments,  \* of BOOLEAN: with the webhooks, or ENABLE_WEBHOOKS=false
  MaxChanges,   \* bound: what users do
  MaxFaults     \* bound: failed calls and restarts

ASSUME AssignmentAssumption ==
  /\ Blank \subseteq Label
  /\ Objects \in [Profile -> SUBSET {o \in Object : ~o.deleting}]
  /\ Labellings \subseteq SUBSET Label
  /\ Deployments \subseteq BOOLEAN
  /\ MaxChanges \in Nat /\ MaxFaults \in Nat

VARIABLES
  webhooks,  \* the webhooks are on
  api,       \* what the API server holds: a World
  cache,     \* what the informers have delivered of it: a World
  behind,    \* the keys written since, per kind: [profiles |-> .., ns |-> ..]
  queue,     \* the workqueue of the QuotaProfile controller
  pass,      \* the pass its worker is in: a Pass
  pending,   \* [Actor -> a reviewed Namespace not stored yet, or Absent]
  changes, faults  \* history: what the bounds count

system == <<webhooks, api, cache, behind>>
history == <<changes, faults>>
vars == <<system, queue, pass, pending, history>>

(* A stored Namespace.  It always has a label map: API servers from 1.21   *)
(* on label every Namespace with its name.                                 *)
Record == [labels : SUBSET Label, profile : ProfileLabel]

(* held: the profiles that carry the finalizer.                            *)
World ==
  {w \in [profiles : [Profile -> Object \cup {Absent}], held : SUBSET Profile,
          ns : [Namespace -> Record \cup {Absent}]] :
     w.held \subseteq StoredIn(w.profiles)}

(* cur and q are the key reconciled and the object read for it, stale that *)
(* this object is not the stored version; todo has the items of the list   *)
(* of Namespaces still to be handled, outdated the Namespaces written      *)
(* since the informer delivered that list, but by the pass itself.         *)
Pass ==
  [pc : {"idle", "finalize", "list", "label", "unlabel"},
   cur : Profile \cup {NoLabel}, q : Object \cup {Absent}, stale : BOOLEAN,
   todo : [Namespace -> Record \cup {Absent}], outdated : SUBSET Namespace]

Actor == {"operator", "user"}

Submission == [ns : Namespace, to : Record, fresh : BOOLEAN]

TypeOK ==
  /\ webhooks \in Deployments
  /\ api \in World /\ cache \in World
  /\ behind \in [profiles : SUBSET Profile, ns : SUBSET Namespace]
  /\ queue \subseteq Profile
  /\ pass \in Pass
  /\ pass.pc \in {"label", "unlabel"} => pass.q # Absent
  /\ pending \in [Actor -> Submission \cup {Absent}]
  /\ changes \in 0..MaxChanges
  /\ faults \in 0..MaxFaults

Fault == faults < MaxFaults /\ faults' = faults + 1

-----------------------------------------------------------------------------
(* The QuotaProfile validator.                                             *)

(* Another profile in the store has the name or label key that o asks for. *)
(* lo.Keys(..)[0] of an empty map panics, which refuses the request too.   *)
Duplicates(store, p, o) ==
  \E r \in StoredIn(store) \ {p} :
    /\ store[r].selector.kind = o.selector.kind
    /\ IF o.selector.kind = "matchName"
       THEN store[r].selector.name = o.selector.name
       ELSE \/ store[r].selector.labels = {}
            \/ o.selector.labels = {}
            \/ store[r].selector.labels = o.selector.labels

(* validate, for creates and updates, against the cached profiles.         *)
Valid(p, o) == webhooks => ~Duplicates(cache.profiles, p, o)

(* The validator sees the operator's updates too.  They are encoded by the *)
(* Go types, where omitempty drops an empty selector.                      *)
ValidUpdate == Valid(pass.cur, pass.q) /\ ~EmptySelector(pass.q)

-----------------------------------------------------------------------------
(* Writes of Namespaces.                                                   *)

(* What the mutating webhook may answer: a label, or Absent for a refusal. *)
Answers(n, to) ==
  IF webhooks THEN Reviews(cache.profiles, n, to.labels, to.profile)
              ELSE {to.profile}

(* A write is reviewed, and pends if it is admitted.                       *)
Submit(actor, n, to, fresh) ==
  \E answer \in Answers(n, to) \ {Absent} :
    pending' = [pending EXCEPT ![actor] =
                  [ns |-> n, to |-> [to EXCEPT !.profile = answer], fresh |-> fresh]]

(* The Namespace is stored or gone, and copies others have are outdated.   *)
WriteNamespace(n, record) ==
  /\ api' = [api EXCEPT !.ns[n] = record]
  /\ behind' = [behind EXCEPT !.ns = @ \cup {n}]

Outdate(n, requests) ==
  [a \in Actor |-> IF requests[a] # Absent /\ requests[a].ns = n
                   THEN [requests[a] EXCEPT !.fresh = FALSE]
                   ELSE requests[a]]

(* What the loop of a pass has listed of n is not what is stored.          *)
Missed(n) ==
  IF pass.pc \in {"label", "unlabel"}
  THEN [pass EXCEPT !.outdated = @ \cup {n}]
  ELSE pass

Withdraw(actor) == [pending EXCEPT ![actor] = Absent]

Store(actor) ==
  LET r == pending[actor]
  IN /\ r # Absent
     /\ r.fresh
     /\ WriteNamespace(r.ns, r.to)
     /\ pending' = Outdate(r.ns, Withdraw(actor))

-----------------------------------------------------------------------------
(* The QuotaProfile controller: Reconcile.                                 *)

NoItems == [n \in Namespace |-> Absent]

Rest ==
  [pc |-> "idle", cur |-> NoLabel, q |-> Absent, stale |-> FALSE,
   todo |-> NoItems, outdated |-> {}]

Dequeue(p) == pass.pc = "idle" /\ p \in queue /\ queue' = queue \ {p}

(* An error, or a recovered panic: the key comes back with backoff.        *)
Requeue == pass' = Rest /\ queue' = queue \cup {pass.cur}

(* The call at hand is refused, or fails for no reason of its own.         *)
Fail(refused) ==
  /\ \/ refused /\ UNCHANGED faults
     \/ Fault
  /\ Requeue
  /\ UNCHANGED <<system, pending, changes>>

(* Mutant: the finalizer of a deleted profile is not looked for.           *)
ReturnWhenDeleting(p) ==
  /\ Dequeue(p)
  /\ cache.profiles[p] # Absent => cache.profiles[p].deleting
  /\ UNCHANGED <<system, pass, pending, history>>

(* The profile is gone, or about to go without our finalizer.              *)
ReturnEarly(p) ==
  /\ Dequeue(p)
  /\ cache.profiles[p] # Absent => cache.profiles[p].deleting /\ p \notin cache.held
  /\ UNCHANGED <<system, pass, pending, history>>

(* The pass for p starts, at pc and with these items.                      *)
Begin(p, pc, items) ==
  /\ pass' = [pc |-> pc, cur |-> p, q |-> cache.profiles[p],
              stale |-> p \in behind.profiles, todo |-> items,
              outdated |-> IF pc = "unlabel" THEN behind.ns ELSE {}]
  /\ UNCHANGED <<system, pending, history>>

(* Mutant: a profile that has the finalizer is taken for done.             *)
BeginOnce(p) ==
  /\ Dequeue(p)
  /\ cache.profiles[p] # Absent
  /\ ~cache.profiles[p].deleting
  /\ \/ p \notin cache.held /\ Begin(p, "finalize", NoItems)
     \/ p \in cache.held /\ UNCHANGED <<system, pass, pending, history>>

BeginEnforce(p) ==
  /\ Dequeue(p)
  /\ cache.profiles[p] # Absent
  /\ ~cache.profiles[p].deleting
  /\ Begin(p, IF p \in cache.held THEN "list" ELSE "finalize", NoItems)

(* Mutant: the finalizer is applied to whatever version there is, or none. *)
FinalizeBlindly ==
  /\ pass.pc = "finalize"
  /\ ValidUpdate
  /\ api' = [api EXCEPT !.held = @ \cup {pass.cur}]
  /\ behind' = [behind EXCEPT !.profiles = @ \cup {pass.cur}]
  /\ pass' = [pass EXCEPT !.pc = "list", !.stale = TRUE]
  /\ UNCHANGED <<webhooks, cache, queue, pending, history>>

Writable == ~pass.stale /\ api.profiles[pass.cur] # Absent /\ ValidUpdate

(* AddFinalizer and Update.                                                *)
Finalize ==
  /\ pass.pc = "finalize"
  /\ Writable
  /\ api' = [api EXCEPT !.held = @ \cup {pass.cur}]
  /\ behind' = [behind EXCEPT !.profiles = @ \cup {pass.cur}]
  /\ pass' = [pass EXCEPT !.pc = "list", !.stale = TRUE]
  /\ UNCHANGED <<webhooks, cache, queue, pending, history>>

FinalizeError == pass.pc = "finalize" /\ Fail(~Writable)

(* The cached Namespaces, and those of them that are items of a loop.      *)
Cached == {n \in Namespace : cache.ns[n] # Absent}

Items(picked) ==
  [n \in Namespace |-> IF n \in picked THEN cache.ns[n] ELSE Absent]

(* ns.Labels[key] == value, which holds of an empty value also where the   *)
(* Namespace lacks the key; the webhook looks for the key first.           *)
LabelEquals(o, record) ==
  /\ o.selector.kind = "matchLabels"
  /\ o.selector.labels # {}
  /\ o.selector.labels \ Blank \subseteq record.labels

(* Mutant: the branch of name selectors is missing.                        *)
SelectsByLabel(o, n, record) == LabelEquals(o, record)

Selects(o, n, record) == Names(o, n) \/ LabelEquals(o, record)

(* Mutant: a Namespace that has the label of the profile is passed over.   *)
ListUnlabelled ==
  LET o == cache.profiles[pass.cur]
      Selected == {n \in Cached : /\ Selects(o, n, cache.ns[n])
                                  /\ cache.ns[n].profile # pass.cur}
  IN /\ pass.pc = "list"
     /\ o # Absent
     /\ ~EmptySelector(o) \/ Cached = {}
     /\ pass' = [pass EXCEPT !.pc = "label", !.q = o, !.todo = Items(Selected),
                             !.outdated = behind.ns]
     /\ UNCHANGED <<system, queue, pending, history>>

(* reconcileNamespace: List the Namespaces and Get the profile again.      *)
ListNamespaces ==
  LET o == cache.profiles[pass.cur]
      Selected == {n \in Cached : Selects(o, n, cache.ns[n])}
  IN /\ pass.pc = "list"
     /\ o # Absent
     /\ ~EmptySelector(o) \/ Cached = {}
     /\ pass' = [pass EXCEPT !.pc = "label", !.q = o, !.todo = Items(Selected),
                             !.outdated = behind.ns]
     /\ UNCHANGED <<system, queue, pending, history>>

(* Not found, or keys[0] of an empty map, once there is a Namespace.       *)
ListError ==
  LET o == cache.profiles[pass.cur]
  IN /\ pass.pc = "list"
     /\ o # Absent => EmptySelector(o) /\ Cached # {}
     /\ Requeue
     /\ UNCHANGED <<system, pending, history>>

(* resolveConflict: the profile of the label stays if it names the         *)
(* Namespace, has the higher precedence, or is younger.  One that is not   *)
(* found is an object of zeros, which does none of that.                   *)
Keeps(o, n, label) ==
  /\ Found(cache.profiles, label)
  /\ LET e == cache.profiles[SplitProfileID(label)]
     IN Names(e, n) \/ e.precedence > o.precedence \/ e.created > o.created

(* addLabelToNamespace, or the branch of name selectors.                   *)
Chosen(n, label) ==
  IF /\ pass.q.selector.kind = "matchLabels"
     /\ Conflicts(label, pass.cur)
     /\ Keeps(pass.q, n, label)
  THEN SplitProfileID(label)
  ELSE pass.cur

(* What the controller submits for an item: its label, or none any more.   *)
Target(n) ==
  [pass.todo[n] EXCEPT !.profile = IF pass.pc = "label" THEN Chosen(n, @) ELSE NoLabel]

(* The item at hand: the loops handle one after the other.                 *)
AtItem(n) ==
  /\ pass.pc \in {"label", "unlabel"}
  /\ pending["operator"] = Absent
  /\ pass.todo[n] # Absent

SubmitUpdate(n) ==
  /\ AtItem(n)
  /\ Submit("operator", n, Target(n), n \notin pass.outdated)
  /\ UNCHANGED <<system, queue, pass, history>>

(* The review refuses the update, or the call fails: the pass is over.     *)
SubmitError(n) == AtItem(n) /\ Fail(Absent \in Answers(n, Target(n)))

StoreUpdate ==
  /\ Store("operator")
  /\ pass' = [pass EXCEPT !.todo[pending["operator"].ns] = Absent]
  /\ UNCHANGED <<webhooks, cache, queue, history>>

Conflict ==
  /\ pending["operator"] # Absent
  /\ ~pending["operator"].fresh
  /\ pending' = Withdraw("operator")
  /\ Requeue
  /\ UNCHANGED <<system, history>>

EndEnforce ==
  /\ pass.pc = "label"
  /\ pass.todo = NoItems
  /\ pass' = Rest
  /\ UNCHANGED <<system, queue, pending, history>>

(* Mutant: the Namespaces the profile selects now, not those it labelled.  *)
SelectedNow(p, n) == Selects(cache.profiles[p], n, cache.ns[n])

Holds(p, n) == SplitProfileID(cache.ns[n].profile) = p

(* handleDeletion: the finalizer is there, the Namespaces are listed.      *)
BeginDeletion(p) ==
  LET Labelled == {n \in Cached : Holds(p, n)}
  IN /\ Dequeue(p)
     /\ cache.profiles[p] # Absent
     /\ cache.profiles[p].deleting
     /\ p \in cache.held
     /\ Begin(p, "unlabel", Items(Labelled))

AllUnlabelled == pass.pc = "unlabel" /\ pass.todo = NoItems

(* The last finalizer goes, and the profile with it.                       *)
RemoveFinalizer ==
  /\ AllUnlabelled
  /\ Writable
  /\ api' = [api EXCEPT !.profiles[pass.cur] = Absent, !.held = @ \ {pass.cur}]
  /\ behind' = [behind EXCEPT !.profiles = @ \cup {pass.cur}]
  /\ pass' = Rest
  /\ UNCHANGED <<webhooks, cache, queue, pending, history>>

RemoveFinalizerError == AllUnlabelled /\ Fail(~Writable)

(* A worker takes up the key p.                                            *)
Dispatch(p) == ReturnEarly(p) \/ BeginEnforce(p) \/ BeginDeletion(p)

Controller ==
  \/ \E p \in Profile : Dispatch(p)
  \/ Finalize
  \/ FinalizeError
  \/ ListNamespaces
  \/ ListError
  \/ \E n \in Namespace : SubmitUpdate(n) \/ SubmitError(n)
  \/ StoreUpdate
  \/ Conflict
  \/ EndEnforce
  \/ RemoveFinalizer
  \/ RemoveFinalizerError

-----------------------------------------------------------------------------
(* Users.                                                                  *)

May(op) == op \in UserOps /\ changes < MaxChanges /\ changes' = changes + 1

(* The profile p is written by a user.                                     *)
WriteProfile(p, o) ==
  /\ api' = [api EXCEPT !.profiles[p] = o]
  /\ behind' = [behind EXCEPT !.profiles = @ \cup {p}]
  /\ pass' = [pass EXCEPT !.stale = @ \/ pass.cur = p]
  /\ UNCHANGED <<webhooks, cache, queue, pending, faults>>

(* Without the validator a profile may have any selector, also one that    *)
(* another has.  The model has no empty ones there: the encoding of the    *)
(* operator's update drops the empty map, and nobody would refuse that.    *)
Usual(o) == webhooks \/ ~EmptySelector(o)

CreateProfile(p, o) ==
  /\ May("create")
  /\ Usual(o)
  /\ api.profiles[p] = Absent
  /\ \A r \in StoredIn(api.profiles) : api.profiles[r].created <= o.created
  /\ Valid(p, o)
  /\ WriteProfile(p, o)

EditProfile(p, o) ==
  /\ May("edit")
  /\ Usual(o)
  /\ api.profiles[p] # Absent
  /\ o.created = api.profiles[p].created
  /\ Valid(p, o)
  /\ LET new == [o EXCEPT !.deleting = api.profiles[p].deleting]
     IN new # api.profiles[p] /\ WriteProfile(p, new)

(* A finalizer keeps the object until it is removed.                       *)
DeleteProfile(p) ==
  /\ May("delete")
  /\ api.profiles[p] # Absent
  /\ ~api.profiles[p].deleting
  /\ WriteProfile(p, IF p \in api.held
                     THEN [api.profiles[p] EXCEPT !.deleting = TRUE]
                     ELSE Absent)

(* A user's write of a Namespace goes to the webhook.                      *)
UserSubmit(n, to) ==
  /\ pending["user"] = Absent
  /\ Submit("user", n, to, TRUE)
  /\ UNCHANGED <<system, queue, pass, faults>>

OpenNamespace(n, labels) ==
  /\ May("open")
  /\ api.ns[n] = Absent
  /\ UserSubmit(n, [labels |-> labels, profile |-> NoLabel])

(* A Namespace gets other labels; the profile label is left as it was.     *)
Relabel(n, labels) ==
  /\ May("relabel")
  /\ api.ns[n] # Absent
  /\ labels # api.ns[n].labels
  /\ UserSubmit(n, [api.ns[n] EXCEPT !.labels = labels])

CloseNamespace(n) ==
  /\ May("close")
  /\ api.ns[n] # Absent
  /\ WriteNamespace(n, Absent)
  /\ pending' = Outdate(n, pending)
  /\ pass' = Missed(n)
  /\ UNCHANGED <<webhooks, cache, queue, faults>>

UserStore ==
  /\ Store("user")
  /\ pass' = Missed(pending["user"].ns)
  /\ UNCHANGED <<webhooks, cache, queue, history>>

UserConflict ==
  /\ pending["user"] # Absent
  /\ ~pending["user"].fresh
  /\ pending' = Withdraw("user")
  /\ UNCHANGED <<system, queue, pass, history>>

Users ==
  \/ \E p \in Profile :
       \/ DeleteProfile(p)
       \/ \E o \in Objects[p] : CreateProfile(p, o) \/ EditProfile(p, o)
  \/ \E n \in Namespace :
       \/ CloseNamespace(n)
       \/ \E labels \in Labellings : OpenNamespace(n, labels) \/ Relabel(n, labels)

-----------------------------------------------------------------------------
(* The manager.                                                            *)

(* The informer catches up, and queues the profiles that have changed.     *)
SyncProfiles ==
  /\ behind.profiles # {}
  /\ cache' = [api EXCEPT !.ns = cache.ns]
  /\ behind' = [behind EXCEPT !.profiles = {}]
  /\ queue' = queue \cup behind.profiles
  /\ UNCHANGED <<webhooks, api, pass, pending, history>>

SyncNamespaces ==
  /\ behind.ns # {}
  /\ cache' = [cache EXCEPT !.ns = api.ns]
  /\ behind' = [behind EXCEPT !.ns = {}]
  /\ UNCHANGED <<webhooks, api, queue, pass, pending, history>>

Nothing == [profiles |-> {}, ns |-> {}]

(* As the caches are, the pass over p may be refused each time.            *)
Refusable(p) ==
  LET o == cache.profiles[p]
  IN /\ webhooks
     /\ o # Absent
     /\ \/ EmptySelector(o)
        \/ Duplicates(cache.profiles, p, o)
        \/ \E n \in Cached, label \in {p, NoLabel} :
             Absent \in Answers(n, [cache.ns[n] EXCEPT !.profile = label])

(* The periodic resync queues every profile.  It comes after ten hours or  *)
(* so, when all has been done but what is refused and retried for ever.    *)
Resync ==
  /\ behind = Nothing
  /\ \A p \in queue \cup {pass.cur} : p # NoLabel => Refusable(p)
  /\ ~(StoredIn(cache.profiles) \subseteq queue)
  /\ queue' = queue \cup StoredIn(cache.profiles)
  /\ UNCHANGED <<system, pass, pending, history>>

(* The manager dies and starts again: the caches are filled before a       *)
(* worker runs, and every profile is queued.                               *)
Restart ==
  /\ Fault
  /\ pass' = Rest
  /\ pending' = Withdraw("operator")
  /\ cache' = api
  /\ behind' = Nothing
  /\ queue' = StoredIn(api.profiles)
  /\ UNCHANGED <<webhooks, api, changes>>

-----------------------------------------------------------------------------
Init ==
  /\ webhooks \in Deployments
  /\ \E ns \in [Namespace -> {Absent} \cup
                  {[labels |-> labels, profile |-> NoLabel] : labels \in Labellings}] :
       api = [profiles |-> [p \in Profile |-> Absent], held |-> {}, ns |-> ns]
  /\ cache = api
  /\ behind = Nothing
  /\ queue = {}
  /\ pass = Rest
  /\ pending = [a \in Actor |-> Absent]
  /\ changes = 0
  /\ faults = 0

Next ==
  \/ Controller
  \/ Users
  \/ UserStore
  \/ UserConflict
  \/ SyncProfiles
  \/ SyncNamespaces
  \/ Resync
  \/ Restart

Spec == Init /\ [][Next]_vars

(* The delay of a retry doubles each time, so in the end it outlasts the   *)
(* lag of the informers.                                                   *)
Backoff(p) ==
  ([]<><<Dispatch(p)>>_vars) => ([]<><<Dispatch(p) /\ behind = Nothing>>_vars)

(* The worker and the API server go on, watches are served, and no key of  *)
(* the first-in, first-out workqueue is passed over for ever.              *)
Fairness ==
  /\ WF_vars(Controller)
  /\ WF_vars(UserStore \/ UserConflict)
  /\ WF_vars(SyncProfiles)
  /\ WF_vars(SyncNamespaces)
  /\ \A p \in Profile : SF_vars(Dispatch(p)) /\ Backoff(p)

(* And the informer resyncs.                                               *)
FairSpec == Spec /\ Fairness /\ WF_vars(Resync)

-----------------------------------------------------------------------------
(* Properties.                                                             *)

Active(p) == api.profiles[p] # Absent /\ ~api.profiles[p].deleting

Duplicate(p) == Duplicates(api.profiles, p, api.profiles[p])

(* The webhook may refuse n with this label, were it submitted now.        *)
(* CleanReviewAdmitted has the reasons: another profile has an empty       *)
(* selector, or a dotted name that cannot be read back in a conflict, or   *)
(* the label submitted is such a one.                                      *)
MayRefuse(n, label) ==
  webhooks /\ Absent \in Reviews(api.profiles, n, api.ns[n].labels, label)

(* When the finalizer goes, no Namespace has the label of the profile any  *)
(* more, except one that others stored behind the back of the list the     *)
(* pass worked through: each the list has shown is done, and what the pass *)
(* submits for it, its review does not give that label back.  The labels   *)
(* of a profile whose name has a dot stay: line 258 does not know them.    *)
CleanupLeavesNoLabel ==
  [][RemoveFinalizer =>
       \A n \in Namespace :
         api.ns[n] # Absent /\ api.ns[n].profile = pass.cur /\ pass.cur \notin Dotted
           => n \in pass.outdated]_vars

(* Once users stop, a profile goes on being deleted only because a write   *)
(* of the pass is refused: the update that removes the finalizer by the    *)
(* validator, for another profile's selector or an empty one of its own;   *)
(* or by the webhook that of a Namespace with the label, for what other    *)
(* profiles there are.  No conflict, crash or failed call holds it up, in  *)
(* the middle of the Namespaces or after the last.                         *)
DeletionCompletes ==
  <>[]\A p \in Profile :
        api.profiles[p] # Absent /\ api.profiles[p].deleting
          => /\ webhooks
             /\ \/ EmptySelector(api.profiles[p])
                \/ Duplicate(p)
                \/ \E n \in Namespace :
                     api.ns[n] # Absent /\ api.ns[n].profile = p /\ MayRefuse(n, NoLabel)

(* Once users stop, a Namespace that a profile names has the label of that *)
(* profile, whatever had it labelled before, whether it or the profile is  *)
(* older, whatever failed meanwhile, and though passes of other profiles   *)
(* panic; with the webhooks and without.  Excepted are profiles the        *)
(* validator would not let pass again, and a Namespace the webhook refuses *)
(* for an empty selector that it meets before the name.                    *)
NamedGetTheirProfile ==
  <>[]\A p \in Profile, n \in Namespace :
        /\ Active(p)
        /\ api.ns[n] # Absent
        /\ Names(api.profiles[p], n)
        /\ ~Duplicate(p)
        /\ ~MayRefuse(n, p)
        => api.ns[n].profile = p

Matches(n) == {p \in Profile : Active(p) /\ Labels(api.profiles[p], api.ns[n].labels)}

(* The profile of the label on n outranks q.                               *)
HolderOutranks(n, q) ==
  LET p == api.ns[n].profile
  IN \/ api.profiles[p].precedence > api.profiles[q].precedence
     \/ /\ p \in Matches(n)
        /\ api.profiles[p].precedence = api.profiles[q].precedence
        /\ api.profiles[p].created >= api.profiles[q].created

(* A Namespace that is selected by label only, by profiles that validator  *)
(* and webhook let through, has the label of one of them that outranks the *)
(* others, or of a stored profile with more precedence than all of them.   *)
BestHolds(n) ==
  /\ api.ns[n] # Absent
  /\ Matches(n) # {}
  /\ \A p \in Matches(n) : ~Duplicate(p) /\ ~MayRefuse(n, p)
  /\ ~\E p \in Profile : Active(p) /\ Names(api.profiles[p], n)
  => /\ api.ns[n].profile \in StoredIn(api.profiles)
     /\ \A q \in Matches(n) : HolderOutranks(n, q)

(* With the webhooks, once users stop, every Namespace ends with the       *)
(* profile of the highest precedence among those whose label it has, also  *)
(* when the one that named it is deleted, when its label named a profile   *)
(* that is gone, and when it was created while neither the webhook nor the *)
(* pass of the controller had seen the other.                              *)
BestHoldsInTheEnd == <>[](webhooks => \A n \in Namespace : BestHolds(n))

(* quotaprofile_controller.go:172-174, "If the existing profile has higher *)
(* precedence, no change is made. Otherwise, the namespace is updated":    *)
(* the controller by itself arrives at the highest precedence too.         *)
BestHoldsAnyhow == <>[]\A n \in Namespace : BestHolds(n)

(* README.md:48: the finalizer sees to the cleanup of the labels: none     *)
(* names for ever a profile that is gone.                                  *)
NoDanglingLabel ==
  <>[]\A n \in Namespace :
        api.ns[n] # Absent /\ api.ns[n].profile \in Profile
          => api.profiles[api.ns[n].profile] # Absent
=============================================================================
