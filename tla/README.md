# Formal models of the Namespace Quota Operator

TLA+ modules of the operator's core logic, TLC configurations that check them
on small instances, and TLAPS proofs about them. Line numbers refer to the Go
files of this repository, and `README.md:<line>` to its README.

## The system

A **QuotaProfile** selects Namespaces, by name or by one label, and lists
ResourceQuota and LimitRange specs. The operator labels each Namespace with
the one profile that applies (`quota.dev.operator/profile`, in the form
`<namespace>.<name>`), and keeps the quotas and ranges of that profile in it.

| component | code | state | operations |
|---|---|---|---|
| Namespace defaulter (mutating webhook) | `internal/webhook/v1/namespace_webhook.go` | none of its own; reads the cached profiles, twice; mutates the Namespace under review | `Default`: list, sort, loop with `resolveConflict`, `removeLabel` |
| QuotaProfile controller | `internal/controller/quotaprofile_controller.go` | its workqueue; the finalizer on profiles; the label on Namespaces | `Reconcile`: finalizer, `reconcileNamespace`, `addLabelToNamespace`, `resolveConflict`, `handleDeletion` |
| QuotaProfile validator | `internal/webhook/v1alpha1/quotaprofile_webhook.go` | none; reads the cached profiles | `validate` on create and update |
| Namespace controller | `internal/controller/namespace_controller.go` | its workqueue; the labelled quotas and ranges | `Reconcile`: enforce (`reconcileResourceQuotas`, `reconcileLimitRanges`) or clean up (`deleteManaged...`) |
| ResourceQuota and LimitRange validators | `internal/webhook/v1/resourcequota_webhook.go`, `limitrange_webhook.go` | none | `ValidateCreate`, `ValidateUpdate`, `ValidateDelete`: only service accounts write labelled objects |
| API type | `api/v1alpha1/quotaprofile_types.go` | the profile: selector, precedence, spec lists | |
| manager | `cmd/main.go` | one client with one informer cache per kind | start; with the webhooks, or without (`ENABLE_WEBHOOKS=false`) |

They interact through the API server only. The QuotaProfile controller labels
Namespaces; each of its updates passes the defaulter, which has the last word on
the label; the stored label is an event for the Namespace controller, which
writes quotas and ranges. The controller's updates of a profile (its finalizer)
pass the validator. Nobody watches quotas or ranges, and the
QuotaProfile controller does not watch Namespaces.

What makes it hard:

* All reads, in controllers and webhooks, come from informer caches that lag;
  all writes go to the API server, which refuses an update of an outdated copy.
* A webhook reviews a write before it is stored; others write in between, and
  the profiles it judged by may be gone when the write lands.
* The Namespace controller logs and forgets every failed write. The QuotaProfile
  controller stops at the first one and retries the whole pass.
* A crash may come between any two calls. A panic is recovered: the controller
  queues the key again, the webhook refuses the request.
* The sort by creation time is not stable and has a grain of one second.
* The generated names `ns-name-index-rq` are not injective; a label value with
  two dots cannot be read back; a name without a `-` makes its reader panic.
* The validators judge an update by the new object alone, and take an empty
  label value for none, where the controller takes it for a label.
* Nothing but the label of a Namespace tells the Namespace controller that a
  profile has changed: a new timestamp on it, written by the other controller.

What makes each component correct, in short: the defaulter picks the profile
the README promises, whatever order the list has and whatever the label held
before; the controller's finalizer goes only after its cleanup, does go, and
Namespaces end with the profile that names them, or the best of those whose label
they have; an undisturbed pass of the Namespace controller leaves every quota the
profile lists and none of another profile or of an index beyond the list, passes
touch users' objects in three known cases only, and they converge over failures;
and, of the whole, edits and deletions of profiles reach a pass of the Namespace
controller. `PROJECT.json` lists, under
`hazards`, each line where this can go wrong.

## The modules

| module | models |
|---|---|
| `QuotaProfiles` | the vocabulary: profile keys, selectors, stored profiles, label values and how they read back, requests |
| `AssignmentPolicy` | abstract specification: which label a review may give, or that it may refuse, in one decision |
| `NamespaceDefaulter` | one review by the webhook, a step per iteration of its loop, while the informer changes the cache; implements `AssignmentPolicy` |
| `NamespaceReview` | the same review in one step, as a recursive function over the sorted list; used wherever a Namespace is written |
| `ProfileAssignment` | the QuotaProfile controller, with validator, defaulter, caches, API server and users |
| `ObjectValidators` | the two validators of quotas and ranges |
| `NamespaceReconciler` | the Namespace controller on one namespace, a step per API call, among other writers |
| `QuotaOperator` | both controllers and the webhooks: behind `ProfileAssignment` the Namespace controller's events, and what its passes read |
| `MC...` | the instances TLC checks |
| `NamespaceDefaulterProofs` | theorems: types and the three promises of a review |
| `NamespaceDefaulterRefinement` | theorems: refusals have reasons, the review implements the policy |
| `NamespaceReviewProofs` | lemmas on `NamespaceReview`, by induction over the list |
| `NamespaceDefaulterAgreement` | theorem: the review step by step is the review in one step |
| `ProfileAssignmentProofs` | theorems: types, and the finalizer goes after the labels |
| `NamespaceReconcilerProofs` | theorems: types, what an undisturbed pass leaves, what no pass touches |
| `QuotaOperatorProofs` | theorems: the whole implements `ProfileAssignment` |

```
QuotaProfiles <- NamespaceDefaulter <- NamespaceDefaulterProofs <- NamespaceDefaulterRefinement
              <- AssignmentPolicy      (INSTANCE in NamespaceDefaulter)
              <- NamespaceReview       (INSTANCE in NamespaceDefaulter)
                   <- NamespaceReviewProofs
                   <- ProfileAssignment <- QuotaOperator

NamespaceDefaulterProofs, NamespaceReviewProofs   <- NamespaceDefaulterAgreement
ProfileAssignment <- ProfileAssignmentProofs,
                     with QuotaOperator           <- QuotaOperatorProofs

ObjectValidators <- NamespaceReconciler <- NamespaceReconcilerProofs
```

`ProfileAssignment` takes a review as one step; that it is the loop is itself
checked and proved (`AgreesWithReview`, through `Atomic == INSTANCE NamespaceReview`).
Between the other two the Namespace controller is divided. `QuotaOperator` has which
pass comes when, and what it reads: the label, then the profile. `NamespaceReconciler`
has what a pass, given these, makes of the objects, call by call, over lagging
caches and forgotten failures. `QuotaOperator` claims nothing about objects: that a
pass set out for a spec does not mean that the quota is there. For that it takes
further passes, and `Convergence` and `RangesFollow` say so under a fair resync.

### NamespaceDefaulter and AssignmentPolicy

`store` is the informer cache, `listed` and `items` are `quotaProfiles.Items`
before and after `sort.Slice`, `i` is the loop index, `label` is the label on
`namespace.Labels`, `matched` the flag of the same name. `Begin` lists and sorts
in any order that the timestamps allow. One action stands for each way through
the loop body: `SkipDeleting`, `SkipUnmatched`, `MatchName` (which returns),
`MatchLabels`, `ResolveConflict`, `ConflictError`, `Panic`; `Finish` is the code
after the loop. `ResolveConflict` reads `store`, not `listed`, as the code does.
A profile key is a model value that also stands for its label value; a key in
`Dotted` has a name with a dot, and `SplitProfileID` cannot read it back. `bare`
requests have a nil label map. The timestamp label is left out: it only makes
each write of a label a change of the Namespace.

`AssignmentPolicy` is the flow chart of README.md:124-134 as the code decides it.
It knows no list, no order and no loop: `Granted` is the set of labels a Namespace
may be admitted with, `Refusable` what may cost it the admission. `Holder` is the
profile of the label the request comes with; it takes part with its precedence
though it may not select the Namespace. While the store moves the policy promises
less (`still`). `NamespaceDefaulter` implements it (`ImplementsPolicy`); the mapping
is the identity on the store and the request, and takes the loop for `"pending"`.

### ProfileAssignment

`api` is what the API server holds: the profiles, those that carry the finalizer
(`held`), the Namespaces; `cache` what the informers have delivered of it. Instead
of resource versions there are sets of what has been written since: `behind`
(since the informer caught up), `outdated` (since the list of the pass was
delivered), and the flags `stale` and `fresh`. `pass.pc` is where the worker is:
`finalize` (line 81), `list` (line 100), `label` (the loops of
`reconcileNamespace`), `unlabel` (`handleDeletion`). A write of a Namespace, by
controller or user, is `Submit` (the review gives one of the `Answers`) and then
`Store`, or a conflict; `pending` is the write in between. Any error requeues the
key. The list is worked through in any order. The dead branch of
`resolveConflict` (line 194) has no action; a profile that is not found is an
object of zeros to it, as in the code.

`webhooks` is chosen at the start, from `Deployments`: without them the defaulter
answers with the label submitted and the validator lets everything pass. Users then
do not write empty selectors (`Usual`). A Namespace always has a label map, so
lines 119 and 229 never write into a nil one: API servers since 1.21 label every
Namespace with its name. The labels in `Blank` have an empty value, which line 138
finds also in a Namespace that lacks the key (`LabelEquals`), unlike the webhook
(`namespace_webhook.go:99`). An empty selector panics at line 135 only over a list
with a Namespace in it (`ListError`).

Users create, edit and delete profiles, relabel Namespaces, open and close them;
`UserOps` says which of it a run has. `Resync` comes only when all else has been
done but what may be refused and is retried for ever (`Refusable`): it is ten hours
away by default.

### ObjectValidators and NamespaceReconciler

`live` and `cache` hold the objects per kind, `behind` and `outdated` again stand
for resource versions. `pass` is the worker: `todo` has the labelled items of the
list that are still to be handled, `blank` says that the list was empty, `k` is
the index of the second loop. `QuotaItem` and `QuotaSpec` are the two loops of
`reconcileResourceQuotas`; `RangeItem`, `RangePanic` and `RangeSpec` those of
`reconcileLimitRanges`, with the bound of line 242 as the code has it
(`RangeBound`); `NamePanic` is line 345 on a name without a `-`; `DropItem` the two
cleanup loops. A `Call` takes effect, or fails and is forgotten. The label of the
Namespace and the profiles are inputs from the cache (`Assign`, `SetProfile`);
a malformed label is, to this controller, that of a profile not found.

A name is a pair of stem and index; profiles whose names collide share a stem.
`Foreign` holds the names no profile generates, with what `getResourceIndex` makes
of each: an index, an error, a panic. Users and other service accounts write any
object under any name (`OthersWrite`) as far as `ObjectValidators` admits it,
so a managed quota may lose its label or be taken under an empty one.

`clean` is a history variable: no write of others, no fault and no cache lag has
touched the pass, except the lag of its own writes.

### QuotaOperator

It adds the Namespace controller's workqueue (`events`), the Namespace its worker has
read (`worker`), and per Namespace what the last pass set out for (`aims`): the specs
of a profile, or a cleanup. A stored Namespace queues itself when the informer
delivers it (`Inform`). `TakeUp` is the Get of the Namespace
(`namespace_controller.go:64`), and after it, over caches that may have moved,
the pass cleans up (`CleanUp`), enforces the profile it gets (`Enforce`), or leaves
all as it is when there is none of that name (`LeaveUnfound`). An edit of a profile
is no event here, as in the code. The Namespace comes back by the resync or the
retry of a panic (`ComeBack`), and after a restart (`StartAgain`). `OperatorSpec` has
no fairness for either resync: what reaches a pass, reaches it on events alone.

## The runs

| run | instance | shows |
|---|---|---|
| `Defaulter` | 3 profiles (one dotted), 1 name, 1 label, 2 precedences, 2 instants, 1 cache event during the review where 2 profiles are stored; 1.65 M states | the policy is implemented; `NameSelectorWins`, `OnlyMatchingOrHeld`, `HighestPrecedenceWins`, `CleanReviewAdmitted`; the review in one step agrees with the loop |
| `DefaulterSingleMatch` | 2 profiles | violation, see below |
| `DefaulterDangling` | 2 profiles | violation |
| `ReconcilerPass` | 2 profiles, 0 or 1 specs, users' and service accounts' objects under generated names and one without an index, 2 changes; 1.03 M | what an undisturbed pass leaves; what a pass may do to objects of others |
| `ReconcilerConverges` | 2 profiles with colliding names, 1 or 2 quotas and ranges, a name that panics and a foreign one with an index, 1 change, 1 fault; 607 k | the quotas converge; the ranges follow, though not all need be there |
| `ReconcilerForeignRange` | 1 profile, 1 user's range | violation |
| `ReconcilerRangeOnly` | 1 profile with a range and no quota | violation |
| `AssignmentSettles` | 2 profiles, one of them possibly with an empty selector, 2 Namespaces, 3 changes (profiles created, edited and deleted, Namespaces opened), webhooks on or off, 1 fault; 382 k | deletions complete; named Namespaces get their profile, labelled ones the best |
| `AssignmentCleanup` | 2 profiles, 2 Namespaces, all user actions, an empty selector, a label with an empty value, 1 fault; 2.35 M | no label is left at the removal of a finalizer, but behind the list |
| `AssignmentDangling` | 2 profiles, 1 Namespace | violation |
| `AssignmentNoWebhooks` | 2 profiles, webhooks off | violation |
| `OperatorDelivers` | 2 profiles, one of them possibly with an empty selector, 1 Namespace, 3 changes, webhooks on, 1 fault; 292 k | edits and deletions of profiles, and labels of new Namespaces, reach a pass of the Namespace controller without a resync |

Why the bounds are enough. A conflict in the defaulter is between a holder and
one item, and the third profile lets a result of one conflict enter the next; the
proofs then cover any number. Precedences and instants are only compared, so two
of each give all the orders of a pair; one Namespace suffices because reviews
share nothing. `DriftSize` limits the stores over which the cache moves in the
middle of a review to those of two profiles: one to be held, one to be met. In
the reconciler two profiles give "mine" and "another's", and
two specs give lists that grow and shrink by one, and a creation that fails
half-way; the names of users show each kind of index that `getResourceIndex`
returns; two changes are enough for one
to come before the list of a pass and one in its middle, and one fault can hit
any of its calls. In the assignment one deletion, one
creation and one write in between is the longest race between review and cleanup,
hence three changes; the second Namespace makes a pass stop half-way, and its
retry conflict with what the pass itself has written. In the
operator an assignment, its change, and the deletion of one of the two profiles
are three. Both properties also held in a run with four changes, without
faults and empty selectors (460 k states), where a label can be handed from a profile
that goes to one that goes too: that is why `AimsGoWithProfile` excuses any label of a
profile that is gone.
`MaxDrift`, `DriftSize`, `MaxSpecs`, `MaxChanges` and `MaxFaults` are the only
bounds. Only keys without a dot are symmetric, and only there, in a run of
safety properties that treat all keys alike, is symmetry used. `CHECK_DEADLOCK` is off for the runs of
`ProfileAssignment` and `QuotaOperator`, which start without profiles and may end
without them: then nothing is queued and the system rests.

Fairness. `WF` of the workers: controller-runtime's worker goroutines go on
while there is a key, and a failing call is retried. `WF` of the API server's
answer to a user's write. `WF` of each informer: watches are re-established. `SF`
of each key's dequeue: the workqueue is first in, first out, so a key is not passed
over for ever while others come back. `Backoff`: the delay of a retry grows
exponentially, so in the end it outlasts the lag of the informers. Without it a pass
over two Namespaces can fail for ever, as each retry writes one of them and
is in conflict over the other with the write before, not delivered yet. `WF` of the
resync, in the runs of the
reconciler and the assignment but not of the operator: the informers deliver every
object again periodically. Users, faults and crashes are never fair, and their
number is bounded, so the liveness properties say what happens once they stop.

## What the violations show

* `SingleMatchApplies`: a label whose profile no longer selects the Namespace is
  kept when that profile has the higher precedence (`namespace_webhook.go:160`),
  against README.md:133.
* `DanglingLabelReplaced`: a label whose profile is gone makes the webhook refuse
  the Namespace (`:149`), where the branch at `:154` meant to use the new profile.
* `RangesConverge`: any LimitRange in the namespace keeps missing ones from being
  created (`namespace_controller.go:260`).
* `WantedRangesKept`: ranges are bounded by the number of quotas (`:242`).
* `NoDanglingLabel`: the webhook labels Namespaces before the finalizer is set,
  and a review may be stored after the cleanup; that label is never removed.
* `BestHoldsAnyhow`: without the webhooks the controller's own `resolveConflict`
  (`quotaprofile_controller.go:208`) keeps a younger profile of lower precedence.

The passing properties name these cases where they exclude them:

* `CleanReviewAdmitted` lists every reason for a refusal.
* `DeletionCompletes`, `NamedGetTheirProfile` and `BestHoldsInTheEnd` excuse profiles
  the validator refuses to update (`Duplicate`, `EmptySelector`) and Namespaces the
  webhook may refuse (`MayRefuse`). A single profile with an empty selector makes it
  refuse every Namespace whose review comes to that profile
  (`namespace_webhook.go:96`), and then no label can be taken away either.
* `CleanupLeavesNoLabel` exempts profiles whose name has a dot: line 258 does not
  find their labels, which stay.
* `CleanPassEnforces` speaks of profiles whose names do not collide with those in use;
  `Convergence` of all of them. Both let stay what a service account has labelled
  for the profile under a name that is not the profile's: with an index within the list
  it gets the spec of that index (lines 146-168), with none it stays as it is.
* `UnmanagedKept` names the three ways an object of somebody else's is touched.
* `Convergence` and `RangesFollow` excuse `Unreadable`, a labelled quota
  under a name on which every pass panics; the second also `RangePanics`, a range
  whose name or index does that (line 252). And it does not say that all ranges are
  there: those whose creation failed, or that the profile has got since, are not
  created while there is any other range (line 260). Nor does it ask for any of a
  profile without quotas, which creates and deletes them by turns (line 242).
* `BestHoldsInTheEnd` is about the webhooks being on, and allows a holder of higher
  precedence that no longer selects the Namespace.
* `AimsFollow` excuses the same refusals, labels that cannot be read back, and
  profiles that no longer select the Namespace, whose edits no pass takes there.
* `AimsGoWithProfile` excuses labels of profiles that are gone: on those a pass stops.

## What is proved

Every safety property that a passing run checks, and the refinements, are theorems:
they hold for any profiles, Namespaces, names, lags, writers, and any number of
changes, failures and restarts. Each inductive invariant was also checked with TLC,
on the instance of the run named.

| theorem | property | inductive invariant, run |
|---|---|---|
| `TypeCorrect` | `TypeOK` (defaulter) | itself |
| `NameSelectorAlwaysWins`, `NoForeignProfile`, `PrecedenceDecides` | `NameSelectorWins`, `OnlyMatchingOrHeld`, `HighestPrecedenceWins` | `IInv`, `Defaulter` |
| `RefusalsHaveReasons` | `CleanReviewAdmitted` | `RInv`, `Defaulter` |
| `DefaulterImplementsPolicy` | `ImplementsPolicy` | `RInv` |
| `ReviewInOneStep` | `AgreesWithReview` | `IInv` and `AgreementInv`, `Defaulter` |
| `TypesCorrect` | `TypeOK` (assignment) | `TInv`, `AssignmentCleanup` |
| `NoLabelLeftBehind` | `CleanupLeavesNoLabel` | `TInv`, `CachesFollow`, `CleanupInv`, `AssignmentCleanup` |
| `OperatorAssigns` | `OperatorSpec => Spec` | none needed |
| `OperatorCleansUp`, `OperatorTypesCorrect` | `CleanupLeavesNoLabel`, `OperatorTypeOK` | from the two above |
| `ReconcilerTypes` | `TypeOK` (reconciler) | itself |
| `UnmanagedObjectsKept` | `UnmanagedKept` | `Follows`, `ReconcilerPass` |
| `CleanPassesEnforce`, `CleanPassesClean`, `CleanPassesCreateRanges` | `CleanPassEnforces`, `CleanPassCleans`, `CleanPassCreatesRanges` | `CInv`, `ReconcilerPass` and the constants of `ReconcilerConverges` |

The assumptions are those of the modules. `ProfileAssumption`, `DriftAssumption`
and `AssignmentAssumption` say that the constants are of their kinds;
`AbsentAssumption` and the last conjunct of `ReconcilerAssumption`, that no object
is the absence of one, which TLC has for granted and a prover has not.

**The review.** The promises speak of the verdict and say nothing about the middle
of the loop, so they are not inductive. `IInv` adds `LoopInv`, what holds before
iteration `i`: `items` is a complete, creation-ordered list of `listed` (`ListInv`);
no profile before `i` names the Namespace, and the label and `matched` are explained
by those before `i` (`PassedInv`); and, over a cache that has kept still, the label
outranks every match before `i` if it started from none or a match (`RankInv`).
`Iteration` states once what a further iteration must add; each action is a step
that supplies it.

For the refinement that is not enough: a label that is no match may stay, beaten by
nobody. `DecidedInv` follows it. Either the label still is the one submitted and has
more precedence than every match passed (`Holds`), or it is a match that outranks
them and the submitted one can no longer stay (`Leads`); past the last item these
are `HolderStays` and `Best` of the policy. With it goes that no item is
listed twice, so a lone match cannot lose to itself, and `RefusalInv`, that a refusal
is one the policy may give. `StepRefines` then maps each step: `Begin` to `Receive`,
the two ways to admit to `Grant`, the two to refuse to `Refuse`, the informer to
`Deliver`, and every other iteration to a stutter.

**The review in one step.** `Loop` is a recursive function, so what it computes
needs an induction over the list. The provers cannot instantiate an induction theorem
for a predicate; `NamespaceReviewProofs` derives one for sets of numbers
(`Induction`) from the least element of a set, and with it that the function exists
(`LoopExists`), unfolds (`LoopIs`) and keeps its types. `AgreementInv` says
that the state of the loop before item `i` is `Loop[i - 1]`; the rest is that a
verdict, once given, stays to the end of the list.

**The cleanup.** That no Namespace has the label when the finalizer goes is no
invariant of the steps before. What is, during a pass over a deletion whose object
is not stale: the reviews see the profile as deleting, since the cache has it so and
nobody has written it since (`DeletionSeen`, which rests on `CachesFollow`); so the
write that pends does not give the label back (`WriteUnlabels`), which is a fact of
the review, proved as `DeletedGetsNone`; and each Namespace with the label is still
to do or was written behind the list's back (`LabelledAreItems`). All this is about
profiles without a dot in their name; of the others nothing is claimed.

**The whole.** Both controllers meet in the label and the caches only. A step of
`QuotaOperator` is a step of `ProfileAssignment` or leaves its variables alone, so
the theorems of the assignment hold of the whole, `OperatorCleansUp` with the same
exemption of dotted names.

**The pass over a namespace.** `CachesFollow`: a cache differs from the API server
only where the informer is behind. `ItemsFollow`: an item of the list that has not
been written since the List call is live as listed. These two make `Follows`, and
`UnmanagedKept` follows call by call. What an undisturbed pass has
brought about so far is `Cleanly`. In `QuotasSoFar`: a managed quota is still to do
or wanted; the specs before `k` are in place (`Done`); and for the others the lag of
the cache, which is the pass's own, does no harm (`Ahead`): the Get of the spec
tells whether the quota is there, and where the update would be refused as outdated
the values are right already, because the first loop wrote them. That is what makes
the second loop correct under the first one's lag. `RangesSoFar` says that the
quotas are done and that, where there was no LimitRange, there are those created so
far; `DropsSoFar`, that what is managed is still to be deleted. `CleanPassesEnforce`
is about names that do not collide and says of labelled quotas under other names only
what `Match` does (see above).

**Only model-checked.** All liveness (`Convergence`, `RangesFollow`,
`DeletionCompletes`, `NamedGetTheirProfile`, `BestHoldsInTheEnd`, `AimsFollow`,
`AimsGoWithProfile`): it takes fairness and `ENABLED`, which the prover does not
do. The violations are counterexamples and need no proof. What `QuotaOperator` and
`NamespaceReconciler` have in common, the label and the profile a pass reads, is input
of the second and result of the first; there is no theorem that joins the two.

## Not modelled

Flags, certificates, metrics and probes (`cmd/main.go`), generated code, manifests,
the content of specs, Kubernetes' own enforcement of quotas, the wording of logs.
Leader election is assumed to leave one worker per controller. Cached reads and the
conversion of objects in webhooks do not fail. Steps are joined in `ProfileAssignment`
in three places: the store of a profile with its review (a review some time before
the store is one by an older cache, and the cache lags as long as it likes; what
comes of it are duplicates, which the properties name); `ListNamespaces`, whose
two reads go to different caches and commute with what comes between; and the Get
in the controller's `resolveConflict` with the review of the update that follows,
which reads the same cache a moment later (the loop of the review itself meets a
moving cache in `Defaulter`). Without the webhooks no profile has an
empty selector (`Usual`): the operator's update would drop the empty map in encoding it,
and nobody refuse that. `OperatorDelivers` has the webhooks on. `QuotaOperator` ends a pass of the
Namespace controller with the Get of the profile; its calls, and what they make of
the objects, are those of `NamespaceReconciler`, where in turn the label and the
profiles are inputs that change at any time.

## Plan

Done: all modules of the table above; the refinement of the review; both
controllers with their webhooks, on and off; their composition; a theorem for
every safety property of the passing runs.

Next, in this order:

1. `NamespaceReconciler` behind `QuotaOperator`, with the label and the profile of
   the worker in place of its inputs: that objects end as the profiles have them,
   under a fair resync of the Namespaces.
2. `AssignmentPolicy`: what it decides, as theorems of the policy alone: that it has
   an answer for every request it may not refuse, and one only where creation times
   differ.
3. Safety under the liveness of the assignment: what a stored label names, between
   a review and the end of a pass.
