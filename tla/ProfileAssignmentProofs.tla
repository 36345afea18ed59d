---------------------- MODULE ProfileAssignmentProofs ----------------------
(***************************************************************************)
(* What TLAPS proves of the assignment of profiles to Namespaces: the      *)
(* finalizer of a deleted profile goes only when its labels are gone, for  *)
(* any sets of profiles and Namespaces, any number of changes by users,    *)
(* failed calls and restarts, with the webhooks and without.               *)
(***************************************************************************)
EXTENDS ProfileAssignment, NamespaceReviewProofs

-----------------------------------------------------------------------------
(* Facts about the operators.                                              *)

(* A world after a write of a profile, of a finalizer, of a Namespace.     *)
LEMMA ProfileWritten ==
  ASSUME NEW w \in World, NEW p \in Profile, NEW o \in Object \cup {Absent},
         p \in w.held => o # Absent
  PROVE  /\ [w EXCEPT !.profiles[p] = o] \in World
         /\ [w EXCEPT !.profiles[p] = o].ns = w.ns
         /\ [w EXCEPT !.profiles[p] = o].profiles = [w.profiles EXCEPT ![p] = o]
BY DEF World, StoredIn

LEMMA FinalizerAdded ==
  ASSUME NEW w \in World, NEW p \in Profile, w.profiles[p] # Absent
  PROVE  /\ [w EXCEPT !.held = @ \cup {p}] \in World
         /\ [w EXCEPT !.held = @ \cup {p}].ns = w.ns
         /\ [w EXCEPT !.held = @ \cup {p}].profiles = w.profiles
BY DEF World, StoredIn

LEMMA FinalizerRemoved ==
  ASSUME NEW w \in World, NEW p \in Profile
  PROVE  [w EXCEPT !.profiles[p] = Absent, !.held = @ \ {p}] \in World
BY DEF World, StoredIn

LEMMA NamespaceWritten ==
  ASSUME NEW w \in World, NEW n \in Namespace, NEW r \in Record \cup {Absent}
  PROVE  /\ [w EXCEPT !.ns[n] = r] \in World
         /\ [w EXCEPT !.ns[n] = r].profiles = w.profiles
         /\ [w EXCEPT !.ns[n] = r].ns = [w.ns EXCEPT ![n] = r]
BY DEF World, StoredIn

LEMMA WorldParts ==
  ASSUME NEW w \in World
  PROVE  /\ w.profiles \in [Profile -> Object \cup {Absent}]
         /\ w.ns \in [Namespace -> Record \cup {Absent}]
         /\ w.held \subseteq StoredIn(w.profiles)
         /\ StoredIn(w.profiles) \subseteq Profile
BY DEF World, StoredIn

(* Marking the copies of a Namespace as outdated changes nothing else.     *)
LEMMA OutdateKeeps ==
  ASSUME NEW n, NEW requests \in [Actor -> Submission \cup {Absent}]
  PROVE  /\ Outdate(n, requests) \in [Actor -> Submission \cup {Absent}]
         /\ \A a \in Actor : Outdate(n, requests)[a] # Absent =>
              /\ requests[a] # Absent
              /\ Outdate(n, requests)[a].ns = requests[a].ns
              /\ Outdate(n, requests)[a].to = requests[a].to
BY DEF Outdate, Submission

LEMMA AnswersAre ==
  ASSUME NEW n, NEW to \in Record
  PROVE  Answers(n, to) \subseteq ProfileLabel \cup {Absent}
BY AnswersAreLabels DEF Answers, Record

LEMMA TargetIsRecord ==
  ASSUME TypeOK, NEW n \in Namespace, pass.todo[n] # Absent, pass.cur \in Profile
  PROVE  Target(n) \in Record /\ pass.todo[n] \in Record
<1>1. pass.todo[n] \in Record
  BY DEF TypeOK, Pass
<1>2. \A label : Chosen(n, label) \in ProfileLabel
  BY DEF Chosen, SplitProfileID, ProfileLabel
<1>3. NoLabel \in ProfileLabel
  BY DEF ProfileLabel
<1> QED BY <1>1, <1>2, <1>3 DEF Target, Record

-----------------------------------------------------------------------------
(* Type correctness.  A requeued key must be one, so it takes what is true *)
(* of a worker that is at work: the pass has a profile, and a write of the *)
(* operator that pends is for an item of the loop that is still to do.     *)

WorkerInv ==
  /\ pass.pc # "idle" => pass.cur \in Profile
  /\ pending["operator"] # Absent =>
       /\ pass.pc \in {"label", "unlabel"}
       /\ pass.todo[pending["operator"].ns] # Absent

TInv == TypeOK /\ WorkerInv

LEMMA RestTypes ==
  /\ Rest \in Pass
  /\ Rest.pc = "idle"
BY DEF Rest, Pass, NoItems

LEMMA RequeueTypes ==
  ASSUME TInv, pass.pc # "idle", Requeue
  PROVE  /\ pass' = Rest /\ pass' \in Pass
         /\ queue' \subseteq Profile
BY RestTypes DEF TInv, TypeOK, WorkerInv, Requeue

LEMMA SubmitTypes ==
  ASSUME TypeOK, NEW actor \in Actor, NEW n \in Namespace, NEW to \in Record,
         NEW fresh \in BOOLEAN, Submit(actor, n, to, fresh)
  PROVE  /\ pending' \in [Actor -> Submission \cup {Absent}]
         /\ \A a \in Actor \ {actor} : pending'[a] = pending[a]
         /\ pending'[actor].ns = n
         /\ pending'[actor].to.profile \in Answers(n, to) \ {Absent}
<1>1. PICK answer \in Answers(n, to) \ {Absent} :
        pending' = [pending EXCEPT ![actor] =
                     [ns |-> n, to |-> [to EXCEPT !.profile = answer], fresh |-> fresh]]
  BY DEF Submit
<1>2. answer \in ProfileLabel
  BY AnswersAre
<1>3. [ns |-> n, to |-> [to EXCEPT !.profile = answer], fresh |-> fresh] \in Submission
  BY <1>2 DEF Submission, Record
<1>4. [to EXCEPT !.profile = answer].profile = answer
  BY DEF Record
<1> QED BY <1>1, <1>3, <1>4 DEF TypeOK

LEMMA StoreTypes ==
  ASSUME TypeOK, NEW actor \in Actor, Store(actor)
  PROVE  LET r == pending[actor]
         IN /\ r \in Submission
            /\ api' = [api EXCEPT !.ns[r.ns] = r.to] /\ api' \in World
            /\ behind' = [behind EXCEPT !.ns = @ \cup {r.ns}]
            /\ behind' \in [profiles : SUBSET Profile, ns : SUBSET Namespace]
            /\ pending' \in [Actor -> Submission \cup {Absent}]
            /\ pending'[actor] = Absent
            /\ \A a \in Actor : pending'[a] # Absent =>
                 /\ pending[a] # Absent
                 /\ pending'[a].ns = pending[a].ns
                 /\ pending'[a].to = pending[a].to
<1> DEFINE r == pending[actor]
<1>1. r \in Submission /\ r.ns \in Namespace /\ r.to \in Record
  BY DEF TypeOK, Store, Submission
<1>2. api' = [api EXCEPT !.ns[r.ns] = r.to] /\ api' \in World
  BY <1>1, NamespaceWritten DEF Store, WriteNamespace, TypeOK
<1>3. /\ behind' = [behind EXCEPT !.ns = @ \cup {r.ns}]
      /\ behind' \in [profiles : SUBSET Profile, ns : SUBSET Namespace]
  BY <1>1 DEF Store, WriteNamespace, TypeOK
<1>4. Withdraw(actor) \in [Actor -> Submission \cup {Absent}] /\ Withdraw(actor)[actor] = Absent
      /\ \A a \in Actor : Withdraw(actor)[a] # Absent => Withdraw(actor)[a] = pending[a]
  BY DEF Withdraw, TypeOK
<1>5. pending' = Outdate(r.ns, Withdraw(actor))
  BY DEF Store
<1> HIDE DEF r
<1>6. /\ pending' \in [Actor -> Submission \cup {Absent}]
      /\ \A a \in Actor : pending'[a] # Absent =>
           /\ Withdraw(actor)[a] # Absent
           /\ pending'[a].ns = Withdraw(actor)[a].ns
           /\ pending'[a].to = Withdraw(actor)[a].to
  BY <1>4, <1>5, OutdateKeeps
<1> QED BY <1>1, <1>2, <1>3, <1>4, <1>6 DEF r

LEMMA MissedTypes ==
  ASSUME TypeOK, NEW n \in Namespace
  PROVE  /\ Missed(n) \in Pass
         /\ Missed(n).pc = pass.pc /\ Missed(n).cur = pass.cur
         /\ Missed(n).q = pass.q /\ Missed(n).todo = pass.todo
         /\ Missed(n).stale = pass.stale
         /\ pass.outdated \subseteq Missed(n).outdated
         /\ pass.pc \in {"label", "unlabel"} => n \in Missed(n).outdated
BY DEF Missed, Pass, TypeOK

LEMMA ItemsTypes ==
  ASSUME TypeOK, NEW picked \in SUBSET Cached
  PROVE  /\ Items(picked) \in [Namespace -> Record \cup {Absent}]
         /\ \A n \in picked : Items(picked)[n] = cache.ns[n] /\ cache.ns[n] # Absent
         /\ NoItems \in [Namespace -> Record \cup {Absent}]
<1>1. cache.ns \in [Namespace -> Record \cup {Absent}]
  BY WorldParts DEF TypeOK
<1> QED BY <1>1 DEF Items, NoItems, Cached

LEMMA FailTypes ==
  ASSUME TInv, pass.pc # "idle", pending["operator"] = Absent, NEW refused, Fail(refused)
  PROVE  TInv'
<1>1. pass' = Rest /\ pass' \in Pass /\ queue' \subseteq Profile /\ pass'.pc = "idle"
  BY RequeueTypes, RestTypes DEF Fail
<1>2. UNCHANGED <<webhooks, api, cache, behind, pending, changes>>
  BY DEF Fail, system
<1>3. faults' \in 0..MaxFaults
  BY AssignmentAssumption DEF Fail, Fault, TInv, TypeOK
<1> QED BY <1>1, <1>2, <1>3 DEF TInv, TypeOK, WorkerInv

LEMMA BeginTypes ==
  ASSUME TInv, NEW p \in Profile,
         ReturnEarly(p) \/ BeginEnforce(p) \/ BeginDeletion(p)
  PROVE  TInv'
<1>1. Dequeue(p) /\ pass.pc = "idle" /\ queue' \subseteq Profile
  BY DEF ReturnEarly, BeginEnforce, BeginDeletion, Dequeue, TInv, TypeOK
<1>2. UNCHANGED <<webhooks, api, cache, behind, pending, changes, faults>>
  BY DEF ReturnEarly, BeginEnforce, BeginDeletion, Begin, system, history
<1>3. pending["operator"] = Absent
  BY <1>1 DEF TInv, WorkerInv
<1>4. CASE ReturnEarly(p)
  BY <1>1, <1>2, <1>4 DEF ReturnEarly, TInv, TypeOK, WorkerInv
<1>5. CASE BeginEnforce(p) \/ BeginDeletion(p)
  <2>1. cache.profiles[p] \in Object
    BY <1>5, WorldParts DEF BeginEnforce, BeginDeletion, TInv, TypeOK
  <2>2. PICK pc \in {"list", "finalize", "unlabel"},
             items \in [Namespace -> Record \cup {Absent}] : Begin(p, pc, items)
    <3>1. CASE BeginEnforce(p)
      BY <3>1, ItemsTypes DEF BeginEnforce, TInv
    <3>2. CASE BeginDeletion(p)
      <4>1. {n \in Cached : Holds(p, n)} \in SUBSET Cached
        OBVIOUS
      <4>2. Items({n \in Cached : Holds(p, n)}) \in [Namespace -> Record \cup {Absent}]
        BY <4>1, ItemsTypes DEF TInv
      <4> QED BY <3>2, <4>2 DEF BeginDeletion
    <3> QED BY <1>5, <3>1, <3>2
  <2>3. behind.ns \subseteq Namespace
    BY DEF TInv, TypeOK
  <2>4. pass' \in Pass /\ pass'.cur = p /\ pass'.q = cache.profiles[p]
    BY <2>1, <2>2, <2>3 DEF Begin, Pass
  <2>5. pass'.q # Absent
    BY <2>1, <2>4, AbsentAssumption
  <2> QED BY <1>1, <1>2, <1>3, <2>4, <2>5 DEF TInv, TypeOK, WorkerInv
<1> QED BY <1>4, <1>5

LEMMA FinalizeTypes ==
  ASSUME TInv, Finalize
  PROVE  TInv'
<1>1. pass.pc = "finalize" /\ pass.cur \in Profile /\ pending["operator"] = Absent
  BY DEF Finalize, TInv, WorkerInv
<1>2. api' \in World
  BY <1>1, FinalizerAdded DEF Finalize, Writable, TInv, TypeOK
<1>3. behind' \in [profiles : SUBSET Profile, ns : SUBSET Namespace]
  BY <1>1 DEF Finalize, TInv, TypeOK
<1>4. pass' \in Pass /\ pass'.pc = "list" /\ pass'.cur = pass.cur
  BY DEF Finalize, TInv, TypeOK, Pass
<1>5. UNCHANGED <<webhooks, cache, queue, pending, changes, faults>>
  BY DEF Finalize, history
<1> QED BY <1>1, <1>2, <1>3, <1>4, <1>5 DEF TInv, TypeOK, WorkerInv

LEMMA ListTypes ==
  ASSUME TInv, ListNamespaces \/ ListError
  PROVE  TInv'
<1>1. pass.pc = "list" /\ pass.cur \in Profile /\ pending["operator"] = Absent
  BY DEF ListNamespaces, ListError, TInv, WorkerInv
<1>2. UNCHANGED <<webhooks, api, cache, behind, pending, changes, faults>>
  BY DEF ListNamespaces, ListError, system, history
<1>3. CASE ListNamespaces
  <2> DEFINE o == cache.profiles[pass.cur]
             Selected == {n \in Cached : Selects(o, n, cache.ns[n])}
  <2>1. Items(Selected) \in [Namespace -> Record \cup {Absent}]
    BY ItemsTypes DEF TInv
  <2>2. o \in Object /\ o # Absent
    BY <1>1, <1>3, WorldParts DEF ListNamespaces, TInv, TypeOK
  <2>3. behind.ns \subseteq Namespace
    BY DEF TInv, TypeOK
  <2>4. /\ pass' = [pass EXCEPT !.pc = "label", !.q = o, !.todo = Items(Selected),
                                !.outdated = behind.ns]
        /\ queue' = queue
    BY <1>3 DEF ListNamespaces
  <2> HIDE DEF o, Selected
  <2>5. pass' \in Pass /\ pass'.q # Absent /\ pass'.cur = pass.cur /\ pass'.pc = "label"
    BY <2>1, <2>2, <2>3, <2>4 DEF TInv, TypeOK, Pass
  <2> QED BY <1>1, <1>2, <2>4, <2>5 DEF TInv, TypeOK, WorkerInv
<1>4. CASE ListError
  <2>1. pass' = Rest /\ pass' \in Pass /\ queue' \subseteq Profile /\ pass'.pc = "idle"
    BY <1>1, <1>4, RequeueTypes, RestTypes DEF ListError
  <2> QED BY <1>1, <1>2, <2>1 DEF TInv, TypeOK, WorkerInv
<1> QED BY <1>3, <1>4

LEMMA ItemTypes ==
  ASSUME TInv, NEW n \in Namespace, SubmitUpdate(n) \/ SubmitError(n)
  PROVE  TInv'
<1>1. /\ pass.pc \in {"label", "unlabel"} /\ pass.cur \in Profile
      /\ pending["operator"] = Absent /\ pass.todo[n] # Absent
  BY DEF SubmitUpdate, SubmitError, AtItem, TInv, WorkerInv
<1>2. CASE SubmitUpdate(n)
  <2>1. Target(n) \in Record
    BY <1>1, TargetIsRecord DEF TInv
  <2> DEFINE fresh == n \notin pass.outdated
  <2>2. Submit("operator", n, Target(n), fresh) /\ fresh \in BOOLEAN
    BY <1>2 DEF SubmitUpdate
  <2>3. "operator" \in Actor
    BY DEF Actor
  <2> HIDE DEF fresh
  <2>4. pending' \in [Actor -> Submission \cup {Absent}] /\ pending'["operator"].ns = n
    BY <2>1, <2>2, <2>3, SubmitTypes DEF TInv
  <2>5. UNCHANGED <<webhooks, api, cache, behind, queue, pass, changes, faults>>
    BY <1>2 DEF SubmitUpdate, system, history
  <2> QED BY <1>1, <2>4, <2>5 DEF TInv, TypeOK, WorkerInv
<1>3. CASE SubmitError(n)
  BY <1>1, <1>3, FailTypes DEF SubmitError
<1> QED BY <1>2, <1>3

LEMMA WriteTypes ==
  ASSUME TInv, StoreUpdate \/ Conflict
  PROVE  TInv'
<1> USE DEF Actor
<1>1. CASE StoreUpdate
  <2>1. Store("operator")
    BY <1>1 DEF StoreUpdate
  <2>2. /\ api' \in World /\ behind' \in [profiles : SUBSET Profile, ns : SUBSET Namespace]
        /\ pending' \in [Actor -> Submission \cup {Absent}]
        /\ pending'["operator"] = Absent
    BY <2>1, StoreTypes DEF TInv
  <2>3. pass' = [pass EXCEPT !.todo[pending["operator"].ns] = Absent]
    BY <1>1 DEF StoreUpdate
  <2>4. /\ pass' \in Pass /\ pass'.pc = pass.pc /\ pass'.cur = pass.cur
        /\ pass'.q = pass.q
    BY <2>3 DEF TInv, TypeOK, Pass
  <2>5. UNCHANGED <<webhooks, cache, queue, changes, faults>>
    BY <1>1 DEF StoreUpdate, history
  <2> QED BY <2>2, <2>4, <2>5 DEF TInv, TypeOK, WorkerInv
<1>2. CASE Conflict
  <2>1. pass.pc # "idle"
    BY <1>2 DEF Conflict, TInv, WorkerInv
  <2>2. pass' = Rest /\ pass' \in Pass /\ queue' \subseteq Profile /\ pass'.pc = "idle"
    BY <1>2, <2>1, RequeueTypes, RestTypes DEF Conflict
  <2>3. /\ pending' \in [Actor -> Submission \cup {Absent}]
        /\ pending'["operator"] = Absent
    BY <1>2 DEF Conflict, Withdraw, TInv, TypeOK
  <2>4. UNCHANGED <<webhooks, api, cache, behind, changes, faults>>
    BY <1>2 DEF Conflict, system, history
  <2> QED BY <2>2, <2>3, <2>4 DEF TInv, TypeOK, WorkerInv
<1> QED BY <1>1, <1>2

LEMMA EndTypes ==
  ASSUME TInv, EndEnforce \/ RemoveFinalizer \/ RemoveFinalizerError
  PROVE  TInv'
<1>1. pass.pc \in {"label", "unlabel"} /\ pass.todo = NoItems /\ pass.cur \in Profile
  BY DEF EndEnforce, RemoveFinalizer, RemoveFinalizerError, AllUnlabelled, TInv, WorkerInv
<1>2. pending["operator"] = Absent
  <2>1. SUFFICES ASSUME pending["operator"] # Absent PROVE FALSE
    OBVIOUS
  <2>2. pending["operator"].ns \in Namespace
    BY <2>1 DEF TInv, TypeOK, Actor, Submission
  <2> QED BY <1>1, <2>1, <2>2 DEF TInv, WorkerInv, NoItems
<1>3. CASE EndEnforce
  BY <1>2, <1>3, RestTypes DEF EndEnforce, system, history, TInv, TypeOK, WorkerInv
<1>4. CASE RemoveFinalizer
  <2>1. api' \in World
    BY <1>1, <1>4, FinalizerRemoved DEF RemoveFinalizer, TInv, TypeOK
  <2>2. behind' \in [profiles : SUBSET Profile, ns : SUBSET Namespace]
    BY <1>1, <1>4 DEF RemoveFinalizer, TInv, TypeOK
  <2>3. pass' = Rest /\ UNCHANGED <<webhooks, cache, queue, pending, changes, faults>>
    BY <1>4 DEF RemoveFinalizer, history
  <2> QED BY <1>2, <2>1, <2>2, <2>3, RestTypes DEF TInv, TypeOK, WorkerInv
<1>5. CASE RemoveFinalizerError
  BY <1>1, <1>2, <1>5, FailTypes DEF RemoveFinalizerError
<1> QED BY <1>3, <1>4, <1>5

LEMMA ControllerTypes ==
  ASSUME TInv, Controller
  PROVE  TInv'
<1>1. CASE FinalizeError
  <2>1. pass.pc = "finalize" /\ pending["operator"] = Absent
    BY <1>1 DEF FinalizeError, TInv, WorkerInv
  <2> QED BY <1>1, <2>1, FailTypes DEF FinalizeError
<1> QED BY <1>1, BeginTypes, FinalizeTypes, ListTypes, ItemTypes, WriteTypes, EndTypes
        DEF Controller, Dispatch

(* What users write.                                                       *)
LEMMA MayTypes ==
  ASSUME TypeOK, NEW op, May(op)
  PROVE  changes' \in 0..MaxChanges
BY AssignmentAssumption DEF May, TypeOK

LEMMA WriteProfileTypes ==
  ASSUME TInv, NEW p \in Profile, NEW o \in Object \cup {Absent},
         p \in api.held => o # Absent,
         WriteProfile(p, o), changes' \in 0..MaxChanges
  PROVE  TInv'
<1>1. api' \in World
  BY ProfileWritten DEF WriteProfile, TInv, TypeOK
<1>2. behind' \in [profiles : SUBSET Profile, ns : SUBSET Namespace]
  BY DEF WriteProfile, TInv, TypeOK
<1>3. /\ pass' = [pass EXCEPT !.stale = @ \/ pass.cur = p]
      /\ UNCHANGED <<webhooks, cache, queue, pending, faults>>
  BY DEF WriteProfile
<1>4. /\ pass' \in Pass /\ pass'.pc = pass.pc /\ pass'.cur = pass.cur
      /\ pass'.q = pass.q /\ pass'.todo = pass.todo
  <2> DEFINE stale == pass.stale \/ pass.cur = p
  <2>1. pass' = [pass EXCEPT !.stale = stale] /\ stale \in BOOLEAN
    BY <1>3
  <2> HIDE DEF stale
  <2> QED BY <2>1 DEF TInv, TypeOK, Pass
<1> QED BY <1>1, <1>2, <1>3, <1>4 DEF TInv, TypeOK, WorkerInv

LEMMA UserProfileTypes ==
  ASSUME TInv, NEW p \in Profile,
         \/ DeleteProfile(p)
         \/ \E o \in Objects[p] : CreateProfile(p, o) \/ EditProfile(p, o)
  PROVE  TInv'
<1>1. changes' \in 0..MaxChanges
  BY MayTypes DEF DeleteProfile, CreateProfile, EditProfile, TInv
<1>2. api.profiles[p] \in Object \cup {Absent}
  BY WorldParts DEF TInv, TypeOK
<1>3. Objects[p] \subseteq Object
  BY AssignmentAssumption
<1>4. CASE DeleteProfile(p)
  <2> DEFINE o == IF p \in api.held THEN [api.profiles[p] EXCEPT !.deleting = TRUE]
                                    ELSE Absent
  <2>1. api.profiles[p] \in Object
    BY <1>2, <1>4 DEF DeleteProfile
  <2>2. [api.profiles[p] EXCEPT !.deleting = TRUE] \in Object
    BY <2>1 DEF Object
  <2>3. o \in Object \cup {Absent} /\ (p \in api.held => o # Absent)
    BY <2>2, AbsentAssumption
  <2>4. WriteProfile(p, o)
    BY <1>4 DEF DeleteProfile
  <2> HIDE DEF o
  <2> QED BY <1>1, <2>3, <2>4, WriteProfileTypes
<1>5. ASSUME NEW o \in Objects[p], CreateProfile(p, o)
      PROVE  TInv'
  <2>1. o \in Object /\ o # Absent
    BY <1>3, AbsentAssumption
  <2> QED BY <1>1, <1>5, <2>1, WriteProfileTypes DEF CreateProfile
<1>6. ASSUME NEW o \in Objects[p], EditProfile(p, o)
      PROVE  TInv'
  <2> DEFINE new == [o EXCEPT !.deleting = api.profiles[p].deleting]
  <2>1. api.profiles[p] \in Object /\ o \in Object
    BY <1>2, <1>3, <1>6 DEF EditProfile
  <2>2. new \in Object
    BY <2>1 DEF Object
  <2>3. new # Absent
    BY <2>2, AbsentAssumption
  <2>4. WriteProfile(p, new)
    BY <1>6 DEF EditProfile
  <2> HIDE DEF new
  <2> QED BY <1>1, <2>2, <2>3, <2>4, WriteProfileTypes
<1> QED BY <1>4, <1>5, <1>6

LEMMA UserSubmitTypes ==
  ASSUME TInv, NEW n \in Namespace, NEW to \in Record, UserSubmit(n, to),
         changes' \in 0..MaxChanges
  PROVE  TInv'
<1>1. "user" \in Actor /\ "operator" \in Actor \ {"user"}
  BY DEF Actor
<1>2. Submit("user", n, to, TRUE)
  BY DEF UserSubmit
<1>3. /\ pending' \in [Actor -> Submission \cup {Absent}]
      /\ pending'["operator"] = pending["operator"]
  BY <1>1, <1>2, SubmitTypes DEF TInv
<1>4. UNCHANGED <<webhooks, api, cache, behind, queue, pass, faults>>
  BY DEF UserSubmit, system
<1> QED BY <1>3, <1>4 DEF TInv, TypeOK, WorkerInv

LEMMA UserNamespaceTypes ==
  ASSUME TInv, NEW n \in Namespace,
         \/ CloseNamespace(n)
         \/ \E labels \in Labellings : OpenNamespace(n, labels) \/ Relabel(n, labels)
  PROVE  TInv'
<1>1. changes' \in 0..MaxChanges
  BY MayTypes DEF CloseNamespace, OpenNamespace, Relabel, TInv
<1>2. CASE CloseNamespace(n)
  <2>1. api' \in World
    BY <1>2, NamespaceWritten DEF CloseNamespace, WriteNamespace, TInv, TypeOK
  <2>2. behind' \in [profiles : SUBSET Profile, ns : SUBSET Namespace]
    BY <1>2 DEF CloseNamespace, WriteNamespace, TInv, TypeOK
  <2>3. pending' = Outdate(n, pending) /\ pass' = Missed(n)
        /\ UNCHANGED <<webhooks, cache, queue, faults>>
    BY <1>2 DEF CloseNamespace
  <2>4. /\ pending' \in [Actor -> Submission \cup {Absent}]
        /\ pending'["operator"] # Absent =>
             pending["operator"] # Absent /\ pending'["operator"].ns = pending["operator"].ns
    BY <2>3, OutdateKeeps DEF TInv, TypeOK, Actor
  <2>5. /\ pass' \in Pass /\ pass'.pc = pass.pc /\ pass'.cur = pass.cur
        /\ pass'.q = pass.q /\ pass'.todo = pass.todo
    BY <2>3, MissedTypes DEF TInv
  <2> QED BY <1>1, <2>1, <2>2, <2>3, <2>4, <2>5 DEF TInv, TypeOK, WorkerInv
<1>3. ASSUME NEW labels \in Labellings, OpenNamespace(n, labels)
      PROVE  TInv'
  <2> DEFINE to == [labels |-> labels, profile |-> NoLabel]
  <2>1. to \in Record
    BY AssignmentAssumption DEF Record, ProfileLabel
  <2>2. UserSubmit(n, to)
    BY <1>3 DEF OpenNamespace
  <2> QED BY <1>1, <2>1, <2>2, UserSubmitTypes
<1>4. ASSUME NEW labels \in Labellings, Relabel(n, labels)
      PROVE  TInv'
  <2> DEFINE to == [api.ns[n] EXCEPT !.labels = labels]
  <2>1. api.ns[n] \in Record
    BY <1>4, WorldParts DEF Relabel, TInv, TypeOK
  <2>2. to \in Record
    BY <2>1, AssignmentAssumption DEF Record
  <2>3. UserSubmit(n, to)
    BY <1>4 DEF Relabel
  <2> HIDE DEF to
  <2> QED BY <1>1, <2>2, <2>3, UserSubmitTypes
<1> QED BY <1>2, <1>3, <1>4

LEMMA UserWriteTypes ==
  ASSUME TInv, UserStore \/ UserConflict
  PROVE  TInv'
<1>1. CASE UserStore
  <2>1. Store("user") /\ "user" \in Actor /\ "operator" \in Actor
    BY <1>1 DEF UserStore, Actor
  <2>2. pending["user"].ns \in Namespace
    BY <2>1, StoreTypes DEF TInv, Submission
  <2>3. /\ api' \in World /\ behind' \in [profiles : SUBSET Profile, ns : SUBSET Namespace]
        /\ pending' \in [Actor -> Submission \cup {Absent}]
        /\ pending'["operator"] # Absent =>
             pending["operator"] # Absent /\ pending'["operator"].ns = pending["operator"].ns
    BY <2>1, StoreTypes DEF TInv
  <2>4. pass' = Missed(pending["user"].ns) /\ UNCHANGED <<webhooks, cache, queue, changes, faults>>
    BY <1>1 DEF UserStore, history
  <2>5. /\ pass' \in Pass /\ pass'.pc = pass.pc /\ pass'.cur = pass.cur
        /\ pass'.q = pass.q /\ pass'.todo = pass.todo
    BY <2>2, <2>4, MissedTypes DEF TInv
  <2> QED BY <2>3, <2>4, <2>5 DEF TInv, TypeOK, WorkerInv
<1>2. CASE UserConflict
  BY <1>2 DEF UserConflict, Withdraw, system, history, TInv, TypeOK, WorkerInv, Actor
<1> QED BY <1>1, <1>2

(* What the manager does.                                                  *)
LEMMA ManagerTypes ==
  ASSUME TInv, SyncProfiles \/ SyncNamespaces \/ Resync \/ Restart
  PROVE  TInv'
<1>0. Nothing \in [profiles : SUBSET Profile, ns : SUBSET Namespace]
  BY DEF Nothing
<1>1. CASE SyncProfiles
  <2>1. cache' \in World
    BY <1>1 DEF SyncProfiles, TInv, TypeOK, World, StoredIn
  <2>2. behind' \in [profiles : SUBSET Profile, ns : SUBSET Namespace]
    BY <1>1 DEF SyncProfiles, TInv, TypeOK
  <2>3. queue' \subseteq Profile
    BY <1>1 DEF SyncProfiles, TInv, TypeOK
  <2>4. UNCHANGED <<webhooks, api, pass, pending, changes, faults>>
    BY <1>1 DEF SyncProfiles, history
  <2> QED BY <2>1, <2>2, <2>3, <2>4 DEF TInv, TypeOK, WorkerInv
<1>2. CASE SyncNamespaces
  <2>1. cache' \in World
    BY <1>2 DEF SyncNamespaces, TInv, TypeOK, World, StoredIn
  <2>2. behind' \in [profiles : SUBSET Profile, ns : SUBSET Namespace]
    BY <1>2 DEF SyncNamespaces, TInv, TypeOK
  <2>3. UNCHANGED <<webhooks, api, queue, pass, pending, changes, faults>>
    BY <1>2 DEF SyncNamespaces, history
  <2> QED BY <2>1, <2>2, <2>3 DEF TInv, TypeOK, WorkerInv
<1>3. CASE Resync
  <2>1. queue' \subseteq Profile
    BY <1>3, WorldParts DEF Resync, TInv, TypeOK
  <2>2. UNCHANGED <<webhooks, api, cache, behind, pass, pending, changes, faults>>
    BY <1>3 DEF Resync, system, history
  <2> QED BY <2>1, <2>2 DEF TInv, TypeOK, WorkerInv
<1>4. CASE Restart
  <2>1. faults' \in 0..MaxFaults
    BY <1>4, AssignmentAssumption DEF Restart, Fault, TInv, TypeOK
  <2>2. queue' \subseteq Profile
    BY <1>4, WorldParts DEF Restart, TInv, TypeOK
  <2>3. /\ pending' \in [Actor -> Submission \cup {Absent}]
        /\ pending'["operator"] = Absent
    BY <1>4 DEF Restart, Withdraw, TInv, TypeOK, Actor
  <2>4. pass' = Rest /\ cache' = api /\ behind' = Nothing /\ UNCHANGED <<webhooks, api, changes>>
    BY <1>4 DEF Restart
  <2> QED BY <1>0, <2>1, <2>2, <2>3, <2>4, RestTypes DEF TInv, TypeOK, WorkerInv
<1> QED BY <1>1, <1>2, <1>3, <1>4

LEMMA Types == Spec => []TInv
<1>1. Init => TInv
  <2> SUFFICES ASSUME Init PROVE TInv
    OBVIOUS
  <2>1. api \in World
    <3>1. PICK ns \in [Namespace -> {Absent} \cup
                  {[labels |-> labels, profile |-> NoLabel] : labels \in Labellings}] :
            api = [profiles |-> [p \in Profile |-> Absent], held |-> {}, ns |-> ns]
      BY DEF Init
    <3>2. \A labels \in Labellings : [labels |-> labels, profile |-> NoLabel] \in Record
      BY AssignmentAssumption DEF Record, ProfileLabel
    <3>3. ns \in [Namespace -> Record \cup {Absent}]
      BY <3>2
    <3> QED BY <3>1, <3>3 DEF World
  <2> QED BY <2>1, RestTypes, AssignmentAssumption
          DEF Init, TInv, TypeOK, WorkerInv, Nothing, Actor
<1>2. TInv /\ [Next]_vars => TInv'
  <2> SUFFICES ASSUME TInv, [Next]_vars PROVE TInv'
    OBVIOUS
  <2>1. CASE Controller
    BY <2>1, ControllerTypes
  <2>2. CASE Users
    BY <2>2, UserProfileTypes, UserNamespaceTypes DEF Users
  <2>3. CASE UserStore \/ UserConflict
    BY <2>3, UserWriteTypes
  <2>4. CASE SyncProfiles \/ SyncNamespaces \/ Resync \/ Restart
    BY <2>4, ManagerTypes
  <2>5. CASE UNCHANGED vars
    BY <2>5 DEF vars, system, history, TInv, TypeOK, WorkerInv
  <2> QED BY <2>1, <2>2, <2>3, <2>4, <2>5 DEF Next
<1> QED BY <1>1, <1>2, PTL DEF Spec

(* Every step of the controller, of users and of the manager keeps the     *)
(* types: keys that are requeued are keys, and a profile with a finalizer  *)
(* is stored.                                                              *)
THEOREM TypesCorrect == Spec => []TypeOK
BY Types, PTL DEF TInv

-----------------------------------------------------------------------------
(* The cleanup.  That no label is left when the finalizer goes is not      *)
(* inductive.  Throughout a pass over a deletion, unless its object turns  *)
(* out stale: the object is deleting in the cache the reviews read, so the *)
(* write that pends does not give the label back; and each Namespace with  *)
(* the label is still to do, or has been written behind the list's back.   *)

CachesFollow ==
  /\ \A n \in Namespace \ behind.ns : cache.ns[n] = api.ns[n]
  /\ \A p \in Profile \ behind.profiles : cache.profiles[p] = api.profiles[p]

Labelled(n) == api.ns[n] # Absent /\ SplitProfileID(api.ns[n].profile) = pass.cur

Cleaning == pass.pc = "unlabel" /\ ~pass.stale

DeletionSeen ==
  /\ pass.cur \notin behind.profiles
  /\ cache.profiles[pass.cur] # Absent /\ cache.profiles[pass.cur].deleting

WriteUnlabels ==
  pending["operator"] # Absent =>
    SplitProfileID(pending["operator"].to.profile) # pass.cur

LabelledAreItems ==
  \A n \in Namespace : Labelled(n) => n \in pass.outdated \/ pass.todo[n] # Absent

CleanupInv == Cleaning => DeletionSeen /\ WriteUnlabels /\ LabelledAreItems

(* A Namespace is written, by one who submitted it or who deletes it.      *)
NamespaceWrite(n, r) ==
  /\ api' = [api EXCEPT !.ns[n] = r]
  /\ behind' = [behind EXCEPT !.ns = @ \cup {n}]
  /\ cache' = cache

(* A profile or its finalizer is written.                                  *)
ProfileWrite(p) ==
  /\ api'.ns = api.ns
  /\ \A q \in Profile \ {p} : api'.profiles[q] = api.profiles[q]
  /\ behind' = [behind EXCEPT !.profiles = @ \cup {p}]
  /\ cache' = cache

(* Every step that touches what is stored or cached, by what it writes.    *)
LEMMA StepWrites ==
  ASSUME TInv, [Next]_vars
  PROVE  \/ UNCHANGED <<api, cache, behind>>
         \/ \E n \in Namespace : \E r : NamespaceWrite(n, r)
         \/ \E p \in Profile : ProfileWrite(p)
         \/ SyncProfiles \/ SyncNamespaces \/ Restart
<1>1. CASE StoreUpdate \/ UserStore
  <2>1. PICK a \in Actor : Store(a) /\ cache' = cache
    BY <1>1 DEF StoreUpdate, UserStore, Actor
  <2>2. pending[a].ns \in Namespace /\ NamespaceWrite(pending[a].ns, pending[a].to)
    BY <2>1, StoreTypes DEF TInv, Submission, NamespaceWrite
  <2> QED BY <2>2
<1>2. ASSUME NEW n \in Namespace, CloseNamespace(n)
      PROVE  NamespaceWrite(n, Absent)
  BY <1>2 DEF CloseNamespace, WriteNamespace, NamespaceWrite
<1>3. CASE Finalize \/ RemoveFinalizer
  <2>1. pass.cur \in Profile
    BY <1>3 DEF Finalize, RemoveFinalizer, AllUnlabelled, TInv, WorkerInv
  <2>2. ProfileWrite(pass.cur)
    BY <1>3, <2>1 DEF Finalize, RemoveFinalizer, ProfileWrite, TInv, TypeOK, World
  <2> QED BY <2>1, <2>2
<1>4. ASSUME NEW p \in Profile,
             \/ DeleteProfile(p)
             \/ \E o \in Objects[p] : CreateProfile(p, o) \/ EditProfile(p, o)
      PROVE  ProfileWrite(p)
  <2>1. PICK o : WriteProfile(p, o)
    BY <1>4 DEF DeleteProfile, CreateProfile, EditProfile
  <2> QED BY <2>1 DEF WriteProfile, ProfileWrite, TInv, TypeOK, World
<1>5. CASE \/ \E p \in Profile : ReturnEarly(p) \/ BeginEnforce(p) \/ BeginDeletion(p)
           \/ FinalizeError \/ ListNamespaces \/ ListError
           \/ \E n \in Namespace : SubmitUpdate(n) \/ SubmitError(n)
           \/ Conflict \/ EndEnforce \/ RemoveFinalizerError
           \/ \E n \in Namespace, labels \in Labellings :
                 OpenNamespace(n, labels) \/ Relabel(n, labels)
           \/ UserConflict \/ Resync \/ UNCHANGED vars
  BY <1>5 DEF ReturnEarly, BeginEnforce, BeginDeletion, Begin, FinalizeError,
              ListNamespaces, ListError, SubmitUpdate, SubmitError, Fail, Conflict,
              EndEnforce, RemoveFinalizerError, OpenNamespace, Relabel, UserSubmit,
              UserConflict, Resync, system, vars
<1> QED BY <1>1, <1>2, <1>3, <1>4, <1>5 DEF Next, Controller, Dispatch, Users

LEMMA CachesKeepFollowing ==
  ASSUME TInv, CachesFollow, [Next]_vars
  PROVE  CachesFollow'
<1>0. /\ api \in World /\ cache \in World
      /\ behind \in [profiles : SUBSET Profile, ns : SUBSET Namespace]
  BY DEF TInv, TypeOK
<1>1. CASE UNCHANGED <<api, cache, behind>>
  BY <1>1 DEF CachesFollow
<1>2. ASSUME NEW n \in Namespace, NEW r, NamespaceWrite(n, r)
      PROVE  CachesFollow'
  BY <1>0, <1>2 DEF CachesFollow, World, NamespaceWrite
<1>3. ASSUME NEW p \in Profile, ProfileWrite(p)
      PROVE  CachesFollow'
  BY <1>0, <1>3 DEF CachesFollow, ProfileWrite
<1>4. CASE SyncProfiles
  BY <1>0, <1>4 DEF CachesFollow, SyncProfiles, World
<1>5. CASE SyncNamespaces
  BY <1>0, <1>5 DEF CachesFollow, SyncNamespaces, World
<1>6. CASE Restart
  BY <1>6 DEF CachesFollow, Restart
<1> QED BY <1>1, <1>2, <1>3, <1>4, <1>5, <1>6, StepWrites

-----------------------------------------------------------------------------
(* The steps that keep the cleanup on its way.                             *)

(* The pass starts: what the list misses the informer has not delivered.   *)
LEMMA BeginDeletionCleans ==
  ASSUME TInv, CachesFollow, NEW p \in Profile, BeginDeletion(p)
  PROVE  CleanupInv'
<1> SUFFICES ASSUME Cleaning'
             PROVE  DeletionSeen' /\ WriteUnlabels' /\ LabelledAreItems'
  BY DEF CleanupInv
<1> DEFINE L == {n \in Cached : Holds(p, n)}
<1>1. /\ pass' = [pc |-> "unlabel", cur |-> p, q |-> cache.profiles[p],
                  stale |-> p \in behind.profiles, todo |-> Items(L),
                  outdated |-> behind.ns]
      /\ UNCHANGED <<api, cache, behind, pending>>
  BY DEF BeginDeletion, Begin, system
<1>2. pass'.cur = p /\ pass'.todo = Items(L) /\ pass'.outdated = behind.ns
  BY <1>1
<1>3. p \notin behind.profiles
  BY <1>1 DEF Cleaning
<1>4. DeletionSeen'
  BY <1>1, <1>2, <1>3 DEF DeletionSeen, BeginDeletion
<1>5. WriteUnlabels'
  BY <1>1 DEF WriteUnlabels, TInv, WorkerInv, BeginDeletion, Dequeue
<1>6. ASSUME NEW n \in Namespace, Labelled(n)', n \notin behind.ns
      PROVE  pass'.todo[n] # Absent
  <2>1. cache.ns[n] = api.ns[n] /\ cache.ns[n] # Absent /\ Holds(p, n)
    BY <1>1, <1>2, <1>6 DEF CachesFollow, Labelled, Holds
  <2>2. n \in L /\ L \in SUBSET Cached
    BY <2>1 DEF Cached
  <2> HIDE DEF L
  <2> QED BY <1>2, <2>2, ItemsTypes DEF TInv
<1> QED BY <1>2, <1>4, <1>5, <1>6 DEF LabelledAreItems

(* The operator submits a Namespace without the label: neither what it     *)
(* sends nor what the review makes of it names the profile.                *)
LEMMA SubmitCleans ==
  ASSUME TInv, CleanupInv, NEW n \in Namespace, SubmitUpdate(n)
  PROVE  CleanupInv'
<1>1. /\ UNCHANGED <<api, cache, behind, pass>>
      /\ pass.pc \in {"label", "unlabel"} /\ pass.cur \in Profile
      /\ pending["operator"] = Absent /\ pass.todo[n] # Absent
  BY DEF SubmitUpdate, AtItem, system, TInv, WorkerInv
<1> SUFFICES ASSUME Cleaning
             PROVE  WriteUnlabels'
  BY <1>1 DEF CleanupInv, Cleaning, DeletionSeen, LabelledAreItems, Labelled
<1>2. Target(n) \in Record
  BY <1>1, TargetIsRecord DEF TInv
<1>3. Target(n).profile = NoLabel
  BY <1>1, TargetIsRecord DEF Target, Cleaning, TInv, Record
<1> DEFINE fresh == n \notin pass.outdated
<1>4. Submit("operator", n, Target(n), fresh) /\ fresh \in BOOLEAN /\ "operator" \in Actor
  BY DEF SubmitUpdate, Actor
<1> HIDE DEF fresh
<1>5. PICK answer \in Answers(n, Target(n)) \ {Absent} :
        pending'["operator"].to.profile = answer
  BY <1>2, <1>4, SubmitTypes DEF TInv
<1>6. SplitProfileID(NoLabel) # pass.cur
  BY <1>1, ProfileAssumption DEF SplitProfileID
<1>7. SplitProfileID(answer) # pass.cur
  <2>1. CASE webhooks
    <3>1. answer \in Reviews(cache.profiles, n, Target(n).labels, NoLabel)
      BY <1>3, <1>5, <2>1 DEF Answers
    <3>2. cache.profiles[pass.cur].deleting
      BY DEF CleanupInv, DeletionSeen
    <3>3. answer # Absent
      BY <1>5
    <3> QED BY <1>1, <1>6, <3>1, <3>2, <3>3, DeletedGetsNone
  <2>2. CASE ~webhooks
    BY <1>3, <1>5, <1>6, <2>2 DEF Answers
  <2> QED BY <2>1, <2>2
<1> QED BY <1>1, <1>5, <1>7 DEF WriteUnlabels

(* The item that is stored is done, and has no label of the profile.       *)
LEMMA StoreCleans ==
  ASSUME TInv, CleanupInv, StoreUpdate
  PROVE  CleanupInv'
<1> DEFINE r == pending["operator"]
<1>1. Store("operator") /\ "operator" \in Actor /\ r # Absent
  BY DEF StoreUpdate, Store, Actor
<1>2. r.ns \in Namespace /\ r \in Submission
  BY <1>1, StoreTypes DEF TInv, Submission
<1>3. /\ api'.ns = [api.ns EXCEPT ![r.ns] = r.to]
      /\ behind'.profiles = behind.profiles
      /\ pending'["operator"] = Absent
  BY <1>1, <1>2, StoreTypes DEF TInv, TypeOK, World
<1>4. pass' = [pass EXCEPT !.todo[r.ns] = Absent] /\ cache' = cache
  BY DEF StoreUpdate
<1>5. /\ pass'.pc = pass.pc /\ pass'.cur = pass.cur /\ pass'.stale = pass.stale
      /\ pass'.outdated = pass.outdated
      /\ \A n \in Namespace \ {r.ns} : pass'.todo[n] = pass.todo[n]
  BY <1>4 DEF TInv, TypeOK, Pass
<1> SUFFICES ASSUME Cleaning
             PROVE  DeletionSeen' /\ WriteUnlabels' /\ LabelledAreItems'
  BY <1>5 DEF CleanupInv, Cleaning
<1>6. DeletionSeen' /\ WriteUnlabels'
  BY <1>3, <1>4, <1>5 DEF CleanupInv, DeletionSeen, WriteUnlabels
<1>7. SplitProfileID(r.to.profile) # pass.cur
  BY <1>1 DEF CleanupInv, WriteUnlabels
<1>8. ASSUME NEW n \in Namespace, Labelled(n)'
      PROVE  n \in pass'.outdated \/ pass'.todo[n] # Absent
  <2>1. api'.ns[r.ns] = r.to
    BY <1>2, <1>3, WorldParts DEF TInv, TypeOK
  <2>2. n # r.ns
    BY <1>5, <1>7, <1>8, <2>1 DEF Labelled
  <2>3. api'.ns[n] = api.ns[n]
    BY <1>2, <1>3, <2>2, WorldParts DEF TInv, TypeOK
  <2>4. Labelled(n)
    BY <1>5, <1>8, <2>3 DEF Labelled
  <2> QED BY <1>5, <2>2, <2>4 DEF CleanupInv, LabelledAreItems
<1> QED BY <1>6, <1>8 DEF LabelledAreItems

(* What users write to a Namespace meanwhile the pass has missed.          *)
LEMMA UserWriteCleans ==
  ASSUME TInv, CleanupInv, UserStore \/ \E n \in Namespace : CloseNamespace(n)
  PROVE  CleanupInv'
<1>1. PICK n \in Namespace : \E r : NamespaceWrite(n, r) /\ pass' = Missed(n)
  <2>1. CASE UserStore
    <3>1. Store("user") /\ "user" \in Actor /\ cache' = cache
          /\ pass' = Missed(pending["user"].ns)
      BY <2>1 DEF UserStore, Actor
    <3> QED BY <3>1, StoreTypes DEF TInv, Submission, NamespaceWrite
  <2>2. ASSUME NEW n \in Namespace, CloseNamespace(n)
        PROVE  NamespaceWrite(n, Absent) /\ pass' = Missed(n)
    BY <2>2 DEF CloseNamespace, WriteNamespace, NamespaceWrite
  <2> QED BY <2>1, <2>2
<1>2. pending'["operator"] # Absent =>
        pending["operator"] # Absent /\ pending'["operator"].to = pending["operator"].to
  <2>1. "user" \in Actor /\ "operator" \in Actor
    BY DEF Actor
  <2>2. CASE UserStore
    BY <2>1, <2>2, StoreTypes DEF TInv, UserStore
  <2>3. CASE \E k \in Namespace : CloseNamespace(k)
    BY <2>1, <2>3, OutdateKeeps DEF TInv, TypeOK, CloseNamespace
  <2> QED BY <2>2, <2>3
<1>3. /\ pass'.pc = pass.pc /\ pass'.cur = pass.cur /\ pass'.stale = pass.stale
      /\ pass'.todo = pass.todo /\ pass.outdated \subseteq pass'.outdated
      /\ pass.pc = "unlabel" => n \in pass'.outdated
  BY <1>1, MissedTypes DEF TInv
<1> SUFFICES ASSUME Cleaning
             PROVE  DeletionSeen' /\ WriteUnlabels' /\ LabelledAreItems'
  BY <1>3 DEF CleanupInv, Cleaning
<1>4. behind'.profiles = behind.profiles /\ cache' = cache
  BY <1>1 DEF NamespaceWrite, TInv, TypeOK
<1>5. DeletionSeen' /\ WriteUnlabels'
  BY <1>2, <1>3, <1>4 DEF CleanupInv, DeletionSeen, WriteUnlabels
<1>6. \A k \in Namespace \ {n} : api'.ns[k] = api.ns[k]
  BY <1>1 DEF NamespaceWrite, TInv, TypeOK, World
<1>7. LabelledAreItems'
  BY <1>3, <1>6 DEF CleanupInv, LabelledAreItems, Labelled, Cleaning
<1> QED BY <1>5, <1>7

(* A user's write of the profile itself makes the pass stale.              *)
LEMMA ProfileWriteCleans ==
  ASSUME TInv, CleanupInv, NEW p \in Profile, NEW o, WriteProfile(p, o)
  PROVE  CleanupInv'
<1> DEFINE stale == pass.stale \/ pass.cur = p
<1>1. /\ pass' = [pass EXCEPT !.stale = stale] /\ stale \in BOOLEAN
      /\ UNCHANGED <<cache, pending>>
      /\ behind' = [behind EXCEPT !.profiles = @ \cup {p}]
      /\ api' = [api EXCEPT !.profiles[p] = o]
  BY DEF WriteProfile
<1> HIDE DEF stale
<1>2. /\ pass'.pc = pass.pc /\ pass'.cur = pass.cur /\ pass'.stale = stale
      /\ pass'.todo = pass.todo /\ pass'.outdated = pass.outdated
  BY <1>1 DEF TInv, TypeOK, Pass
<1>3. api'.ns = api.ns /\ behind'.profiles = behind.profiles \cup {p}
  BY <1>1 DEF TInv, TypeOK, World
<1> SUFFICES ASSUME Cleaning'
             PROVE  DeletionSeen' /\ WriteUnlabels' /\ LabelledAreItems'
  BY DEF CleanupInv
<1>4. Cleaning /\ pass.cur # p
  BY <1>2 DEF Cleaning, stale
<1> QED BY <1>1, <1>2, <1>3, <1>4
        DEF CleanupInv, DeletionSeen, WriteUnlabels, LabelledAreItems, Labelled

(* The informer catches up, but the object of the pass is the same.        *)
LEMMA SyncCleans ==
  ASSUME TInv, CachesFollow, CleanupInv, SyncProfiles \/ SyncNamespaces
  PROVE  CleanupInv'
<1>1. UNCHANGED <<api, pass, pending>>
  BY DEF SyncProfiles, SyncNamespaces
<1> SUFFICES ASSUME Cleaning
             PROVE  DeletionSeen'
  BY <1>1 DEF CleanupInv, Cleaning, WriteUnlabels, LabelledAreItems, Labelled
<1>2. pass.cur \in Profile /\ DeletionSeen
  BY DEF CleanupInv, Cleaning, TInv, WorkerInv
<1>3. cache.profiles[pass.cur] = api.profiles[pass.cur]
  BY <1>2 DEF CachesFollow, DeletionSeen
<1>4. cache'.profiles[pass.cur] = cache.profiles[pass.cur]
  BY <1>3 DEF SyncProfiles, SyncNamespaces, TInv, TypeOK, World
<1>5. pass.cur \notin behind'.profiles
  BY <1>2 DEF SyncProfiles, SyncNamespaces, DeletionSeen, TInv, TypeOK
<1> QED BY <1>1, <1>2, <1>4, <1>5 DEF DeletionSeen

LEMMA CleanupGoesOn ==
  ASSUME TInv, CachesFollow, CleanupInv, [Next]_vars
  PROVE  CleanupInv'
<1>1. CASE \E p \in Profile : BeginDeletion(p)
  BY <1>1, BeginDeletionCleans
<1>2. CASE \E n \in Namespace : SubmitUpdate(n)
  BY <1>2, SubmitCleans
<1>3. CASE StoreUpdate
  BY <1>3, StoreCleans
<1>4. CASE UserStore \/ \E n \in Namespace : CloseNamespace(n)
  BY <1>4, UserWriteCleans
<1>5. CASE \E p \in Profile : \/ DeleteProfile(p)
                              \/ \E o \in Objects[p] : CreateProfile(p, o) \/ EditProfile(p, o)
  <2>1. PICK p \in Profile : \E o : WriteProfile(p, o)
    BY <1>5 DEF DeleteProfile, CreateProfile, EditProfile
  <2> QED BY <2>1, ProfileWriteCleans
<1>6. CASE SyncProfiles \/ SyncNamespaces
  BY <1>6, SyncCleans
<1>7. CASE \/ \E p \in Profile : ReturnEarly(p) \/ BeginEnforce(p)
           \/ Finalize \/ FinalizeError \/ ListNamespaces \/ ListError
           \/ \E n \in Namespace : SubmitError(n)
           \/ Conflict \/ EndEnforce \/ RemoveFinalizer \/ RemoveFinalizerError
           \/ Restart
  <2>1. pass'.pc # "unlabel"
    <3>1. CASE \E p \in Profile : ReturnEarly(p)
      BY <3>1 DEF ReturnEarly, Dequeue
    <3>2. CASE \E p \in Profile : BeginEnforce(p)
      BY <3>2 DEF BeginEnforce, Begin
    <3>3. CASE Finalize \/ ListNamespaces
      BY <3>3 DEF Finalize, ListNamespaces, TInv, TypeOK, Pass
    <3>4. CASE \/ FinalizeError \/ ListError \/ Conflict \/ EndEnforce \/ RemoveFinalizer
               \/ RemoveFinalizerError \/ Restart \/ \E n \in Namespace : SubmitError(n)
      BY <3>4, RestTypes DEF FinalizeError, ListError, Conflict, EndEnforce, RemoveFinalizer,
         RemoveFinalizerError, Restart, SubmitError, Fail, Requeue
    <3> QED BY <1>7, <3>1, <3>2, <3>3, <3>4
  <2> QED BY <2>1 DEF CleanupInv, Cleaning
<1>8. CASE \/ \E n \in Namespace, labels \in Labellings :
                OpenNamespace(n, labels) \/ Relabel(n, labels)
           \/ UserConflict \/ Resync \/ UNCHANGED vars
  <2>1. UNCHANGED <<api, cache, behind, pass>>
    BY <1>8 DEF OpenNamespace, Relabel, UserSubmit, UserConflict, Resync, system, vars
  <2>2. pending'["operator"] = pending["operator"]
    <3>1. CASE UserConflict \/ Resync \/ UNCHANGED vars
      BY <3>1 DEF UserConflict, Withdraw, Resync, vars, TInv, TypeOK, Actor
    <3>2. ASSUME NEW n \in Namespace, NEW to, UserSubmit(n, to)
          PROVE  pending'["operator"] = pending["operator"]
      BY <3>2 DEF UserSubmit, Submit, TInv, TypeOK, Actor
    <3> QED BY <1>8, <3>1, <3>2 DEF OpenNamespace, Relabel
  <2> QED BY <2>1, <2>2 DEF CleanupInv, Cleaning, DeletionSeen, WriteUnlabels,
          LabelledAreItems, Labelled
<1> QED BY <1>1, <1>2, <1>3, <1>4, <1>5, <1>6, <1>7, <1>8
        DEF Next, Controller, Dispatch, Users

LEMMA Cleanup == Spec => [](CachesFollow /\ CleanupInv)
<1>1. Init => CachesFollow /\ CleanupInv
  BY RestTypes DEF Init, CachesFollow, CleanupInv, Cleaning
<1>2. TInv /\ CachesFollow /\ CleanupInv /\ [Next]_vars => (CachesFollow /\ CleanupInv)'
  BY CachesKeepFollowing, CleanupGoesOn
<1> QED BY <1>1, <1>2, Types, PTL DEF Spec

(* When the operator removes its finalizer from a deleted profile, and the *)
(* profile with it, no stored Namespace names that profile any more, but   *)
(* for those others have written since the pass listed them, and for all   *)
(* if the name of the profile has a dot.                                   *)
THEOREM NoLabelLeftBehind == Spec => CleanupLeavesNoLabel
<1>1. TInv /\ CleanupInv /\ RemoveFinalizer =>
        \A n \in Namespace :
          api.ns[n] # Absent /\ api.ns[n].profile = pass.cur /\ pass.cur \notin Dotted
            => n \in pass.outdated
  <2> SUFFICES ASSUME TInv, CleanupInv, RemoveFinalizer, NEW n \in Namespace, Labelled(n)
               PROVE  n \in pass.outdated
    BY DEF Labelled, SplitProfileID, RemoveFinalizer, AllUnlabelled, TInv, WorkerInv
  <2>1. Cleaning /\ pass.todo = NoItems
    BY DEF RemoveFinalizer, AllUnlabelled, Writable, Cleaning
  <2> QED BY <2>1 DEF CleanupInv, LabelledAreItems, NoItems
<1> QED BY <1>1, Types, Cleanup, PTL DEF CleanupLeavesNoLabel
=============================================================================
