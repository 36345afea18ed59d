--------------------- MODULE NamespaceReconcilerProofs ---------------------
(***************************************************************************)
(* What TLAPS proves of the Namespace controller, for any profiles, names, *)
(* spec lists and objects of others, and any number of changes, failed     *)
(* calls and restarts.                                                     *)
(***************************************************************************)
EXTENDS NamespaceReconciler, TLAPS

-----------------------------------------------------------------------------
(* Facts about the operators.                                              *)

(* Names of specs are names, and no two specs of a profile share one.      *)
LEMMA NamesOfSpecs ==
  ASSUME NEW p \in Profile, NEW k \in 0..(MaxSpecs - 1)
  PROVE  /\ NameOf(p, k) \in Generated
         /\ NameOf(p, k) \in Name
         /\ IndexOf(NameOf(p, k)) = k
         /\ NameOf(p, k)[1] = Stem[p]
         /\ \A j : NameOf(p, j) = NameOf(p, k) => j = k
BY DEF NameOf, Generated, Name, IndexOf

LEMMA SpecsAre ==
  ASSUME NEW specs \in Specs
  PROVE  /\ Len(specs) \in 0..MaxSpecs
         /\ \A k \in 0..(Len(specs) - 1) : specs[k + 1] \in Value
BY ReconcilerAssumption DEF Specs

LEMMA ContentsAre ==
  ASSUME TypeOK, NEW p \in Profile, profiles[p] # Absent
  PROVE  profiles[p] \in [rq : Specs, lr : Specs]
BY ReconcilerAssumption DEF TypeOK

(* The pass of an enforcement has a profile and its contents.              *)
LEMMA Enforcing ==
  ASSUME TypeOK, pass.pc \in {"quotas", "ranges"}
  PROVE  /\ pass.target \in Profile
         /\ pass.content.rq \in Specs /\ pass.content.lr \in Specs
BY DEF TypeOK, Pass

-----------------------------------------------------------------------------
(* Type correctness.                                                       *)

PassOK(p) ==
  /\ p \in Pass
  /\ p.pc \in {"quotas", "ranges"} => p.target # NoLabel /\ p.content # Absent
  /\ \A n \in Name : p.todo[n] # Absent => p.todo[n].label # NoLabel

LEMMA RestOK == PassOK(Rest)
BY ReconcilerAssumption DEF PassOK, Rest, Pass, Store, Empty

(* The fields a List call sets, and those it leaves alone.                 *)
LEMMA Listed ==
  ASSUME cache \in [Kind -> Store], behind \in [Kind -> SUBSET Name],
         NEW kind \in Kind, NEW p \in Pass,
         p.pc \in {"quotas", "ranges"} => p.target # NoLabel /\ p.content # Absent
  PROVE  /\ PassOK(List(kind, p))
         /\ \A n \in Name : List(kind, p).todo[n] =
              IF n \in Managed(cache[kind]) THEN cache[kind][n] ELSE Absent
         /\ List(kind, p).outdated = behind[kind] \cap Managed(cache[kind])
         /\ List(kind, p).blank <=> cache[kind] = Empty
         /\ List(kind, p).k = 0
         /\ List(kind, p).pc = p.pc /\ List(kind, p).target = p.target
         /\ List(kind, p).content = p.content /\ List(kind, p).clean = p.clean
<1> DEFINE items == Managed(cache[kind])
           todo == [n \in Name |-> IF n \in items THEN cache[kind][n] ELSE Absent]
           blank == cache[kind] = Empty
<1>1. List(kind, p) = [p EXCEPT !.todo = todo, !.blank = blank,
                                !.outdated = behind[kind] \cap items, !.k = 0]
  BY DEF List
<1>2. todo \in Store
  BY DEF Store
<1>3. blank \in BOOLEAN
  OBVIOUS
<1>4. \A n \in Name : todo[n] # Absent => todo[n].label # NoLabel
  BY DEF Managed
<1>5. \A n \in Name : todo[n] = IF n \in items THEN cache[kind][n] ELSE Absent
  OBVIOUS
<1>6. behind[kind] \cap items \in SUBSET Name /\ 0 \in 0..MaxSpecs
  BY ReconcilerAssumption
<1>7. blank <=> cache[kind] = Empty
  OBVIOUS
<1> HIDE DEF items, todo, blank
<1>8. /\ List(kind, p).todo = todo /\ List(kind, p).blank = blank
      /\ List(kind, p).outdated = behind[kind] \cap items /\ List(kind, p).k = 0
      /\ List(kind, p).pc = p.pc /\ List(kind, p).target = p.target
      /\ List(kind, p).content = p.content /\ List(kind, p).clean = p.clean
  BY <1>1 DEF Pass
<1>9. List(kind, p) \in Pass
  BY <1>1, <1>2, <1>3, <1>6 DEF Pass
<1>10. PassOK(List(kind, p))
  BY <1>4, <1>8, <1>9 DEF PassOK
<1> QED BY <1>5, <1>7, <1>8, <1>10 DEF items

(* The pass after an item, and after a spec.                               *)
LEMMA PastOK ==
  ASSUME PassOK(pass), NEW n \in Name
  PROVE  /\ PassOK(Past(n))
         /\ Past(n).todo[n] = Absent
         /\ \A m \in Name \ {n} : Past(n).todo[m] = pass.todo[m]
         /\ Past(n).outdated = pass.outdated \ {n}
         /\ Past(n).pc = pass.pc /\ Past(n).target = pass.target
         /\ Past(n).content = pass.content /\ Past(n).blank = pass.blank
         /\ Past(n).k = pass.k /\ Past(n).clean = pass.clean
BY DEF PassOK, Past, Pass, Store

NextSpec == [pass EXCEPT !.k = @ + 1]

LEMMA NextSpecOK ==
  ASSUME PassOK(pass), pass.k < MaxSpecs
  PROVE  /\ PassOK(NextSpec)
         /\ NextSpec.todo = pass.todo /\ NextSpec.outdated = pass.outdated
         /\ NextSpec.pc = pass.pc /\ NextSpec.target = pass.target
         /\ NextSpec.content = pass.content /\ NextSpec.blank = pass.blank
         /\ NextSpec.k = pass.k + 1 /\ NextSpec.clean = pass.clean
BY ReconcilerAssumption DEF PassOK, NextSpec, Pass

(* What a call may do: it is done, or it has failed.                       *)
LEMMA CallDoes ==
  ASSUME TypeOK, NEW kind \in Kind, NEW n \in Name, NEW o \in Object \cup {Absent},
         NEW next, PassOK(next), Call(kind, n, o, next)
  PROVE  /\ live' \in [Kind -> Store] /\ behind' \in [Kind -> SUBSET Name]
         /\ PassOK(pass') /\ faults' \in 0..MaxFaults
         /\ UNCHANGED <<cache, profiles, assigned, closing, dirty, changes>>
         /\ pass'.pc = next.pc /\ pass'.target = next.target
         /\ pass'.content = next.content /\ pass'.todo = next.todo
         /\ pass'.blank = next.blank /\ pass'.outdated = next.outdated
         /\ pass'.k = next.k
         /\ \A kd \in Kind, m \in Name :
              live'[kd][m] # live[kd][m] => kd = kind /\ m = n /\ live'[kind][n] = o
         /\ \A kd \in Kind : behind[kd] \subseteq behind'[kd]
         /\ \A kd \in Kind, m \in Name :
              m \in behind'[kd] \ behind[kd] => kd = kind /\ m = n /\ live'[kind][n] = o
         /\ live'[kind][n] # live[kind][n] => n \in behind'[kind]
         /\ pass'.clean => next.clean /\ live'[kind][n] = o
<1>1. CASE /\ live' = [live EXCEPT ![kind][n] = o]
           /\ behind' = IF o = live[kind][n] THEN behind
                        ELSE [behind EXCEPT ![kind] = @ \cup {n}]
           /\ pass' = next
           /\ UNCHANGED faults
           /\ UNCHANGED <<cache, profiles, namespace, dirty, changes>>
  <2>1. live' \in [Kind -> Store]
    BY <1>1 DEF TypeOK, Store
  <2>2. /\ \A kd \in Kind, m \in Name :
             live'[kd][m] = IF kd = kind /\ m = n THEN o ELSE live[kd][m]
    BY <1>1 DEF TypeOK, Store
  <2>3. \A kd \in Kind : behind'[kd] = IF kd = kind /\ o # live[kind][n]
                                      THEN behind[kd] \cup {n} ELSE behind[kd]
    BY <1>1 DEF TypeOK
  <2>4. behind' \in [Kind -> SUBSET Name]
    BY <1>1 DEF TypeOK
  <2> QED BY <1>1, <2>1, <2>2, <2>3, <2>4 DEF TypeOK, namespace
<1>2. CASE /\ Fault
           /\ pass' = [next EXCEPT !.clean = FALSE]
           /\ UNCHANGED <<live, behind>>
           /\ UNCHANGED <<cache, profiles, namespace, dirty, changes>>
  <2>1. /\ PassOK(pass') /\ ~pass'.clean
        /\ pass'.pc = next.pc /\ pass'.target = next.target
        /\ pass'.content = next.content /\ pass'.todo = next.todo
        /\ pass'.blank = next.blank /\ pass'.outdated = next.outdated
        /\ pass'.k = next.k
    BY <1>2 DEF PassOK, Pass
  <2>2. faults' \in 0..MaxFaults
    BY <1>2, ReconcilerAssumption DEF Fault, TypeOK
  <2> QED BY <1>2, <2>1, <2>2 DEF TypeOK, namespace
<1> QED BY <1>1, <1>2 DEF Call

(* What each call stores.                                                  *)
Updated(o, spec, old) == IF o = Absent \/ old THEN o ELSE [o EXCEPT !.spec = spec]

Created(o, spec) == IF o = Absent THEN [label |-> pass.target, spec |-> spec] ELSE o

LEMMA StoredObject ==
  ASSUME TypeOK, NEW kind \in Kind, NEW n \in Name
  PROVE  live[kind][n] \in Object \cup {Absent}
BY DEF TypeOK, Store

LEMMA UpdatedIs ==
  ASSUME NEW o \in Object \cup {Absent}, NEW spec \in Value, NEW old \in BOOLEAN
  PROVE  /\ Updated(o, spec, old) \in Object \cup {Absent}
         /\ Updated(o, spec, old) = Absent <=> o = Absent
         /\ o # Absent => Updated(o, spec, old).label = o.label
         /\ o # Absent /\ ~old => Updated(o, spec, old).spec = spec
         /\ old => Updated(o, spec, old) = o
BY ReconcilerAssumption DEF Updated, Object

LEMMA CreatedIs ==
  ASSUME NEW o \in Object \cup {Absent}, NEW spec \in Value, pass.target \in Profile
  PROVE  /\ Created(o, spec) \in Object
         /\ o # Absent => Created(o, spec) = o
         /\ o = Absent => Created(o, spec).label = pass.target /\ Created(o, spec).spec = spec
BY ReconcilerAssumption DEF Created, Object, ObjectLabel

(* The item actions, each as the one call it makes, or none.               *)
QuotaItemCall(n, o) ==
  \/ ~Own(n) /\ o = Absent
  \/ /\ Own(n) /\ IndexOf(n) \in Nat
     /\ IndexOf(n) >= Len(pass.content.rq) /\ o = Absent
  \/ /\ Own(n) /\ IndexOf(n) \in Nat
     /\ IndexOf(n) < Len(pass.content.rq)
     /\ o = Updated(live["rq"][n], pass.content.rq[IndexOf(n) + 1], n \in pass.outdated)

LEMMA QuotaItemCalls ==
  ASSUME TypeOK, NEW n \in Name, QuotaItem(n)
  PROVE  /\ AtItem("quotas", n)
         /\ \/ Own(n) /\ IndexOf(n) = NoIndex /\ Skip(n)
            \/ \E o \in Object \cup {Absent} :
                 QuotaItemCall(n, o) /\ Call("rq", n, o, Past(n))
<1>1. AtItem("quotas", n) /\ pass.content.rq \in Specs
  BY Enforcing DEF QuotaItem, AtItem
<1>2. CASE ~Own(n)
  BY <1>1, <1>2 DEF QuotaItem, Delete, QuotaItemCall
<1>3. CASE Own(n) /\ IndexOf(n) = NoIndex /\ Skip(n)
  BY <1>1, <1>3
<1>4. CASE Own(n) /\ IndexOf(n) \in Nat /\ IndexOf(n) >= Len(pass.content.rq)
           /\ Delete("rq", n, Past(n))
  BY <1>1, <1>4 DEF Delete, QuotaItemCall
<1>5. CASE Own(n) /\ IndexOf(n) \in Nat /\ ~(IndexOf(n) >= Len(pass.content.rq))
           /\ Update("rq", n, pass.content.rq[IndexOf(n) + 1], n \in pass.outdated, Past(n))
  <2> DEFINE old == n \in pass.outdated
             spec == pass.content.rq[IndexOf(n) + 1]
             o == Updated(live["rq"][n], spec, old)
  <2>1. IndexOf(n) \in 0..(Len(pass.content.rq) - 1) /\ IndexOf(n) < Len(pass.content.rq)
    BY <1>1, <1>5, SpecsAre
  <2>2. spec \in Value /\ "rq" \in Kind /\ old \in BOOLEAN
    BY <1>1, <2>1, SpecsAre DEF Kind
  <2>3. Call("rq", n, o, Past(n))
    BY <1>5 DEF Update, Updated
  <2>4. QuotaItemCall(n, o)
    BY <1>5, <2>1 DEF QuotaItemCall
  <2> HIDE DEF old, spec
  <2>5. o \in Object \cup {Absent}
    BY <2>2, StoredObject, UpdatedIs
  <2> QED BY <1>1, <2>3, <2>4, <2>5
<1> QED BY <1>2, <1>3, <1>4, <1>5 DEF QuotaItem

(* The other actions that call the API server.                             *)
QuotaSpecCall(o) ==
  LET n == NameOf(pass.target, pass.k)
      spec == pass.content.rq[pass.k + 1]
  IN IF NotFound(n) THEN o = Created(live["rq"][n], spec)
     ELSE o = Updated(live["rq"][n], spec, n \in behind["rq"])

LEMMA QuotaSpecCalls ==
  ASSUME TypeOK, QuotaSpec
  PROVE  /\ NoItems("quotas")
         /\ pass.target \in Profile /\ pass.content.rq \in Specs
         /\ pass.k \in 0..(Len(pass.content.rq) - 1)
         /\ pass.k \in 0..(MaxSpecs - 1) /\ pass.k < MaxSpecs
         /\ pass.content.rq[pass.k + 1] \in Value
         /\ \E o \in Object \cup {Absent} :
              /\ QuotaSpecCall(o)
              /\ Call("rq", NameOf(pass.target, pass.k), o, NextSpec)
<1> DEFINE n == NameOf(pass.target, pass.k)
           spec == pass.content.rq[pass.k + 1]
           old == n \in behind["rq"]
<1>1. /\ NoItems("quotas") /\ pass.k < Len(pass.content.rq)
      /\ IF NotFound(n) THEN Create("rq", n, spec, NextSpec)
                        ELSE Update("rq", n, spec, old, NextSpec)
  BY DEF QuotaSpec, NextSpec
<1>2. pass.target \in Profile /\ pass.content.rq \in Specs
  BY <1>1, Enforcing DEF NoItems
<1>3. /\ pass.k \in 0..(Len(pass.content.rq) - 1)
      /\ pass.k \in 0..(MaxSpecs - 1) /\ pass.k < MaxSpecs
  BY <1>1, <1>2, SpecsAre, ReconcilerAssumption DEF TypeOK, Pass
<1>4. spec \in Value /\ "rq" \in Kind /\ n \in Name /\ old \in BOOLEAN
  BY <1>2, <1>3, SpecsAre, NamesOfSpecs DEF Kind
<1>5. live["rq"][n] \in Object \cup {Absent}
  BY <1>4, StoredObject
<1>6. CASE NotFound(n)
  <2> DEFINE o == Created(live["rq"][n], spec)
  <2>1. Call("rq", n, o, NextSpec)
    BY <1>1, <1>6 DEF Create, Created, NextSpec, TypeOK, Pass
  <2>2. QuotaSpecCall(o)
    BY <1>6 DEF QuotaSpecCall
  <2>3. o \in Object \cup {Absent}
    BY <1>2, <1>4, <1>5, CreatedIs
  <2> QED BY <1>1, <1>2, <1>3, <1>4, <2>1, <2>2, <2>3
<1>7. CASE ~NotFound(n)
  <2> DEFINE o == Updated(live["rq"][n], spec, old)
  <2>1. Call("rq", n, o, NextSpec)
    BY <1>1, <1>7 DEF Update, Updated
  <2>2. QuotaSpecCall(o)
    BY <1>7 DEF QuotaSpecCall
  <2> HIDE DEF old
  <2>3. o \in Object \cup {Absent}
    BY <1>4, <1>5, UpdatedIs
  <2> QED BY <1>1, <1>2, <1>3, <1>4, <2>1, <2>2, <2>3
<1> QED BY <1>6, <1>7

RangeItemCall(n, o) ==
  \/ ~Own(n) /\ o = Absent
  \/ Own(n) /\ o = Absent
  \/ /\ Own(n)
     /\ \E spec \in Value : o = Updated(live["lr"][n], spec, n \in pass.outdated)

LEMMA RangeItemCalls ==
  ASSUME TypeOK, NEW n \in Name, RangeItem(n)
  PROVE  /\ AtItem("ranges", n)
         /\ \/ Skip(n)
            \/ \E o \in Object \cup {Absent} :
                 RangeItemCall(n, o) /\ Call("lr", n, o, Past(n))
<1>1. /\ AtItem("ranges", n)
      /\ pass.content.rq \in Specs /\ pass.content.lr \in Specs
  BY Enforcing DEF RangeItem, AtItem
<1>2. CASE ~Own(n) /\ Delete("lr", n, Past(n))
  BY <1>1, <1>2 DEF Delete, RangeItemCall
<1>3. CASE Own(n) /\ IndexOf(n) = NoIndex /\ Skip(n)
  BY <1>1, <1>3
<1>4. CASE Own(n) /\ IndexOf(n) \in Nat /\ IndexOf(n) >= RangeBound
           /\ Delete("lr", n, Past(n))
  BY <1>1, <1>4 DEF Delete, RangeItemCall
<1>5. CASE Own(n) /\ IndexOf(n) \in Nat /\ IndexOf(n) < Len(pass.content.lr)
           /\ Update("lr", n, pass.content.lr[IndexOf(n) + 1], n \in pass.outdated, Past(n))
  <2> DEFINE old == n \in pass.outdated
             spec == pass.content.lr[IndexOf(n) + 1]
             o == Updated(live["lr"][n], spec, old)
  <2>1. IndexOf(n) \in 0..(Len(pass.content.lr) - 1)
    BY <1>1, <1>5, SpecsAre
  <2>2. spec \in Value /\ "lr" \in Kind /\ old \in BOOLEAN
    BY <1>1, <2>1, SpecsAre DEF Kind
  <2>3. Call("lr", n, o, Past(n))
    BY <1>5 DEF Update, Updated
  <2>4. RangeItemCall(n, o)
    BY <1>5, <2>2 DEF RangeItemCall
  <2> HIDE DEF old, spec
  <2>5. o \in Object \cup {Absent}
    BY <2>2, StoredObject, UpdatedIs
  <2> QED BY <1>1, <2>3, <2>4, <2>5
<1> QED BY <1>2, <1>3, <1>4, <1>5 DEF RangeItem

LEMMA RangeSpecCalls ==
  ASSUME TypeOK, RangeSpec
  PROVE  /\ NoItems("ranges") /\ pass.blank
         /\ pass.target \in Profile /\ pass.content.lr \in Specs
         /\ pass.k \in 0..(Len(pass.content.lr) - 1)
         /\ pass.k \in 0..(MaxSpecs - 1) /\ pass.k < MaxSpecs
         /\ pass.content.lr[pass.k + 1] \in Value
         /\ \E o \in Object \cup {Absent} :
              /\ o = Created(live["lr"][NameOf(pass.target, pass.k)],
                             pass.content.lr[pass.k + 1])
              /\ Call("lr", NameOf(pass.target, pass.k), o, NextSpec)
<1> DEFINE n == NameOf(pass.target, pass.k)
           spec == pass.content.lr[pass.k + 1]
           o == Created(live["lr"][n], spec)
<1>1. /\ NoItems("ranges") /\ pass.blank /\ pass.k < Len(pass.content.lr)
      /\ Create("lr", n, spec, NextSpec)
  BY DEF RangeSpec, NextSpec, RangeSpecs
<1>2. pass.target \in Profile /\ pass.content.lr \in Specs
  BY <1>1, Enforcing DEF NoItems
<1>3. /\ pass.k \in 0..(Len(pass.content.lr) - 1)
      /\ pass.k \in 0..(MaxSpecs - 1) /\ pass.k < MaxSpecs
  BY <1>1, <1>2, SpecsAre, ReconcilerAssumption DEF TypeOK, Pass
<1>4. spec \in Value /\ "lr" \in Kind /\ n \in Name
  BY <1>2, <1>3, SpecsAre, NamesOfSpecs DEF Kind
<1>5. live["lr"][n] \in Object \cup {Absent}
  BY <1>4, StoredObject
<1>6. Call("lr", n, o, NextSpec)
  BY <1>1 DEF Create, Created, NextSpec, TypeOK, Pass
<1>7. o \in Object \cup {Absent}
  BY <1>2, <1>4, <1>5, CreatedIs
<1> QED BY <1>1, <1>2, <1>3, <1>4, <1>6, <1>7

LEMMA DropItemCalls ==
  ASSUME NEW n \in Name, DropItem(n)
  PROVE  /\ pass.pc \in {"dropQuotas", "dropRanges"}
         /\ pass.todo[n] # Absent
         /\ Call(KindAt(pass.pc), n, Absent, Past(n))
BY DEF DropItem, AtItem, Delete, KindAt

(* Where a pass starts, its List call has read the cache.                  *)
LEMMA DequeueIs ==
  ASSUME TypeOK, Dequeue
  PROVE  /\ UNCHANGED <<live, cache, behind, profiles, assigned, closing, changes, faults>>
         /\ dirty' \in BOOLEAN
BY DEF Dequeue, objects, namespace, history

(* The steps that only touch the pass and the queue.                       *)
LEMMA TypeOfPass ==
  ASSUME TypeOK, PassOK(pass'), dirty' \in BOOLEAN,
         UNCHANGED <<live, cache, behind, profiles, assigned, closing, changes, faults>>
  PROVE  TypeOK'
BY DEF TypeOK, PassOK

LEMMA PassIsOK == TypeOK => PassOK(pass)
BY DEF TypeOK, PassOK

LEMMA TypeOfCall ==
  ASSUME TypeOK, NEW kind \in Kind, NEW n \in Name, NEW o \in Object \cup {Absent},
         NEW next, PassOK(next), Call(kind, n, o, next)
  PROVE  TypeOK'
BY CallDoes DEF TypeOK, PassOK

(* The passes BeginCleanup and BeginEnforce start.                         *)
LEMMA CleanupBegins ==
  ASSUME TypeOK, BeginCleanup
  PROVE  LET p == [Rest EXCEPT !.pc = "dropQuotas", !.clean = Undisturbed(NoLabel)]
         IN /\ UNCHANGED <<live, cache, behind, profiles, assigned, closing, changes, faults>>
            /\ dirty' \in BOOLEAN
            /\ pass' = List("rq", p)
            /\ p \in Pass /\ p.pc = "dropQuotas"
            /\ p.clean <=> Undisturbed(NoLabel)
<1> DEFINE clean == Undisturbed(NoLabel)
<1>1. clean \in BOOLEAN
  BY DEF Undisturbed
<1>2. pass' = List("rq", [Rest EXCEPT !.pc = "dropQuotas", !.clean = clean])
  BY DEF BeginCleanup
<1> HIDE DEF clean
<1>3. LET p == [Rest EXCEPT !.pc = "dropQuotas", !.clean = clean]
      IN p \in Pass /\ p.pc = "dropQuotas" /\ p.clean = clean
  BY <1>1, RestOK DEF PassOK, Pass
<1>4. /\ UNCHANGED <<live, cache, behind, profiles, assigned, closing, changes, faults>>
      /\ dirty' \in BOOLEAN
  BY DequeueIs DEF BeginCleanup
<1> QED BY <1>2, <1>3, <1>4 DEF clean

LEMMA EnforceBegins ==
  ASSUME TypeOK, BeginEnforce
  PROVE  LET p == [Rest EXCEPT !.pc = "quotas", !.target = assigned,
                               !.content = profiles[assigned],
                               !.clean = Undisturbed(assigned)]
         IN /\ UNCHANGED <<live, cache, behind, profiles, assigned, closing, changes, faults>>
            /\ dirty' \in BOOLEAN
            /\ assigned \in Profile /\ assigned # NoLabel
            /\ profiles[assigned] \in [rq : Specs, lr : Specs] /\ profiles[assigned] # Absent
            /\ pass' = List("rq", p)
            /\ p \in Pass /\ p.pc = "quotas"
            /\ p.target = assigned /\ p.content = profiles[assigned]
            /\ p.clean <=> Undisturbed(assigned)
<1> DEFINE clean == Undisturbed(assigned)
<1>1. clean \in BOOLEAN
  BY DEF Undisturbed
<1>2. pass' = List("rq", [Rest EXCEPT !.pc = "quotas", !.target = assigned,
                                      !.content = profiles[assigned], !.clean = clean])
  BY DEF BeginEnforce
<1>3. /\ assigned # NoLabel /\ profiles[assigned] # Absent /\ assigned \in Profile
  BY DEF BeginEnforce, TypeOK
<1>4. profiles[assigned] \in [rq : Specs, lr : Specs]
  BY <1>3, ContentsAre
<1> HIDE DEF clean
<1>5. LET p == [Rest EXCEPT !.pc = "quotas", !.target = assigned,
                            !.content = profiles[assigned], !.clean = clean]
      IN /\ p \in Pass /\ p.pc = "quotas" /\ p.clean = clean
         /\ p.target = assigned /\ p.content = profiles[assigned]
  BY <1>1, <1>3, <1>4, RestOK DEF PassOK, Pass
<1>6. /\ UNCHANGED <<live, cache, behind, profiles, assigned, closing, changes, faults>>
      /\ dirty' \in BOOLEAN
  BY DequeueIs DEF BeginEnforce
<1> QED BY <1>2, <1>3, <1>4, <1>5, <1>6 DEF clean

(* The pass that moves on to the LimitRanges.                              *)
LEMMA ProceedIs ==
  ASSUME TypeOK, NEW pc \in {"ranges", "dropRanges"}, Proceed(pc),
         pc = "ranges" => pass.pc = "quotas"
  PROVE  LET p == [pass EXCEPT !.pc = pc]
         IN /\ UNCHANGED <<live, cache, behind, profiles, assigned, closing, changes, faults>>
            /\ dirty' \in BOOLEAN
            /\ pass' = List("lr", p)
            /\ p \in Pass /\ p.pc = pc
            /\ p.target = pass.target /\ p.content = pass.content /\ p.clean = pass.clean
            /\ p.pc \in {"quotas", "ranges"} => p.target # NoLabel /\ p.content # Absent
BY DEF Proceed, TypeOK, Pass, objects, namespace, history

(* Somebody else's write: no step of the pass.                             *)
LEMMA InterfereIs ==
  ASSUME TypeOK, NEW kind \in Kind, NEW n \in Name, NEW o \in Object \cup {Absent},
         Interfere(kind, n, o)
  PROVE  /\ live' \in [Kind -> Store] /\ behind' \in [Kind -> SUBSET Name]
         /\ PassOK(pass') /\ ~pass'.clean
         /\ pass'.pc = pass.pc /\ pass'.todo = pass.todo
         /\ pass.outdated \subseteq pass'.outdated
         /\ pass.pc # "idle" /\ KindAt(pass.pc) = kind /\ pass.todo[n] # Absent
              => n \in pass'.outdated
         /\ n \in behind'[kind] /\ \A kd \in Kind : behind[kd] \subseteq behind'[kd]
         /\ \A kd \in Kind, m \in Name :
              live'[kd][m] # live[kd][m] => kd = kind /\ m = n
         /\ UNCHANGED <<cache, profiles, assigned, closing, dirty>>
<1>1. live' \in [Kind -> Store] /\ behind' \in [Kind -> SUBSET Name]
  BY DEF Interfere, TypeOK, Store
<1>2. /\ n \in behind'[kind] /\ \A kd \in Kind : behind[kd] \subseteq behind'[kd]
      /\ \A kd \in Kind, m \in Name : live'[kd][m] # live[kd][m] => kd = kind /\ m = n
  BY DEF Interfere, TypeOK, Store
<1>3. /\ PassOK(pass') /\ ~pass'.clean
      /\ pass'.pc = pass.pc /\ pass'.todo = pass.todo
      /\ pass.outdated \subseteq pass'.outdated
      /\ pass.pc # "idle" /\ KindAt(pass.pc) = kind /\ pass.todo[n] # Absent
           => n \in pass'.outdated
  <2>1. PassOK(pass)
    BY PassIsOK
  <2>2. CASE pass.pc # "idle" /\ KindAt(pass.pc) = kind /\ pass.todo[n] # Absent
    <3>1. pass' = [[pass EXCEPT !.outdated = @ \cup {n}] EXCEPT !.clean = FALSE]
      BY <2>2 DEF Interfere, Outdate
    <3> QED BY <2>1, <3>1 DEF PassOK, Pass
  <2>3. CASE ~(pass.pc # "idle" /\ KindAt(pass.pc) = kind /\ pass.todo[n] # Absent)
    <3>1. pass' = [pass EXCEPT !.clean = FALSE]
      BY <2>3 DEF Interfere, Outdate
    <3> QED BY <2>1, <2>3, <3>1 DEF PassOK, Pass
  <2> QED BY <2>2, <2>3
<1> QED BY <1>1, <1>2, <1>3 DEF Interfere, namespace

(* Others' writes, and updates of the status, are interference.            *)
LEMMA OthersInterfere ==
  ASSUME TypeOK
  PROVE  /\ \A kind \in Kind, n \in Name, o \in UserObject \cup {Absent} :
              OthersWrite(kind, n, o)
                => /\ o \in Object \cup {Absent} /\ Interfere(kind, n, o)
                   /\ changes' \in 0..MaxChanges /\ faults' = faults
         /\ \A n \in Name :
              StatusUpdate(n)
                => /\ live["rq"][n] \in Object \cup {Absent}
                   /\ "rq" \in Kind /\ Interfere("rq", n, live["rq"][n])
                   /\ faults' \in 0..MaxFaults /\ changes' = changes
BY ReconcilerAssumption, StoredObject
   DEF OthersWrite, StatusUpdate, Change, Fault, TypeOK, Kind

LEMMA TypeInit == Init => TypeOK
<1> SUFFICES ASSUME Init
             PROVE  TypeOK
  OBVIOUS
<1>1. PassOK(pass)
  BY RestOK DEF Init
<1>2. [kind \in Kind |-> Empty] \in [Kind -> Store]
  BY DEF Empty, Store
<1>3. /\ live \in [Kind -> Store] /\ cache \in [Kind -> Store]
      /\ behind \in [Kind -> SUBSET Name]
  BY <1>2 DEF Init
<1>4. /\ DOMAIN profiles = Profile
      /\ \A p \in Profile : profiles[p] \in Contents[p] \cup {Absent}
  BY DEF Init
<1>5. /\ assigned \in Profile \cup {NoLabel} /\ closing \in BOOLEAN /\ dirty \in BOOLEAN
      /\ changes \in 0..MaxChanges /\ faults \in 0..MaxFaults
  <2>1. /\ assigned \in Profile \cup {NoLabel} /\ closing = FALSE /\ dirty = TRUE
        /\ changes = 0 /\ faults = 0
    BY Zenon DEF Init
  <2>2. MaxChanges \in Nat /\ MaxFaults \in Nat
    BY ReconcilerAssumption
  <2>3. changes \in 0..MaxChanges /\ faults \in 0..MaxFaults
    BY <2>1, <2>2
  <2>4. closing \in BOOLEAN /\ dirty \in BOOLEAN
    BY <2>1, Zenon
  <2> QED BY <2>1, <2>3, <2>4
<1> QED BY <1>1, <1>3, <1>4, <1>5 DEF TypeOK, PassOK

LEMMA TypeOfList ==
  ASSUME TypeOK, NEW kind \in Kind, NEW p \in Pass,
         p.pc \in {"quotas", "ranges"} => p.target # NoLabel /\ p.content # Absent,
         pass' = List(kind, p), dirty' \in BOOLEAN,
         UNCHANGED <<live, cache, behind, profiles, assigned, closing, changes, faults>>
  PROVE  TypeOK'
<1>1. PassOK(pass')
  BY Listed DEF TypeOK
<1> QED BY <1>1, TypeOfPass

(* Each step of the pass, and each of the rest.                            *)
LEMMA TypeReconcile ==
  ASSUME TypeOK, Reconcile
  PROVE  TypeOK'
<1>1. PassOK(pass)
  BY PassIsOK
<1>2. CASE ReturnEarly
  BY <1>1, <1>2, DequeueIs, TypeOfPass DEF ReturnEarly, PassOK
<1>3. CASE BeginCleanup
  BY <1>3, CleanupBegins, TypeOfList DEF Kind
<1>4. CASE BeginEnforce
  BY <1>4, EnforceBegins, TypeOfList DEF Kind
<1>5. ASSUME NEW n \in Name, Skip(n)
      PROVE  TypeOK'
  BY <1>1, <1>5, PastOK, TypeOfPass DEF Skip, objects, namespace, history, TypeOK
<1>6. ASSUME NEW n \in Name, QuotaItem(n)
      PROVE  TypeOK'
  BY <1>1, <1>5, <1>6, QuotaItemCalls, PastOK, TypeOfCall DEF Kind
<1>7. ASSUME NEW n \in Name, RangeItem(n)
      PROVE  TypeOK'
  BY <1>1, <1>5, <1>7, RangeItemCalls, PastOK, TypeOfCall DEF Kind
<1>8. CASE Requeue
  BY <1>8, RestOK, TypeOfPass DEF Requeue, objects, namespace, history, PassOK
<1>9. ASSUME NEW n \in Name, DropItem(n)
      PROVE  TypeOK'
  BY <1>1, <1>9, DropItemCalls, PastOK, TypeOfCall DEF Kind, KindAt
<1>10. CASE QuotaSpec
  BY <1>1, <1>10, QuotaSpecCalls, NamesOfSpecs, NextSpecOK, TypeOfCall DEF Kind
<1>11. CASE ListRanges
  BY <1>11, ProceedIs, TypeOfList DEF ListRanges, NoItems, Kind
<1>12. CASE RangeSpec
  BY <1>1, <1>12, RangeSpecCalls, NamesOfSpecs, NextSpecOK, TypeOfCall DEF Kind
<1>13. CASE Return
  BY <1>13, RestOK, TypeOfPass DEF Return, objects, namespace, history, PassOK, TypeOK
<1>14. CASE DropRanges
  BY <1>14, ProceedIs, TypeOfList DEF DropRanges, NoItems, Kind
<1> QED
  BY <1>2, <1>3, <1>4, <1>6, <1>7, <1>8, <1>9, <1>10, <1>11, <1>12, <1>13, <1>14
     DEF Reconcile, NamePanic, RangePanic, EndEnforce, EndCleanup

LEMMA TypeOthers ==
  ASSUME TypeOK, Environment \/ Resync \/ \E kind \in Kind : Sync(kind)
  PROVE  TypeOK'
<1>1. PassOK(pass)
  BY PassIsOK
<1>2. ASSUME NEW l \in Profile \cup {NoLabel}, Assign(l)
      PROVE  TypeOK'
  BY <1>2, ReconcilerAssumption DEF Assign, Change, TypeOK, objects
<1>3. CASE CloseNamespace
  BY <1>3, ReconcilerAssumption DEF CloseNamespace, Change, TypeOK, objects
<1>4. ASSUME NEW p \in Profile, NEW c \in Contents[p] \cup {Absent}, SetProfile(p, c)
      PROVE  TypeOK'
  <2>1. /\ profiles' = [profiles EXCEPT ![p] = c]
        /\ UNCHANGED <<live, cache, behind, assigned, closing, dirty, pass, faults>>
        /\ changes' \in 0..MaxChanges
    BY <1>4, ReconcilerAssumption DEF SetProfile, Change, TypeOK, objects, namespace
  <2>2. DOMAIN profiles' = Profile /\ \A q \in Profile : profiles'[q] \in Contents[q] \cup {Absent}
    BY <2>1 DEF TypeOK
  <2> QED BY <2>1, <2>2 DEF TypeOK
<1>5. ASSUME NEW kind \in Kind, NEW n \in Name, NEW o \in Object \cup {Absent},
             Interfere(kind, n, o), changes' \in 0..MaxChanges, faults' \in 0..MaxFaults
      PROVE  TypeOK'
  BY <1>5, InterfereIs DEF TypeOK, PassOK
<1>6. CASE Restart
  BY <1>6, RestOK, ReconcilerAssumption DEF Restart, Fault, TypeOK, PassOK, namespace
<1>7. CASE Resync
  BY <1>7 DEF Resync, TypeOK, objects, namespace, history
<1>8. ASSUME NEW kind \in Kind, Sync(kind)
      PROVE  TypeOK'
  BY <1>8 DEF Sync, TypeOK, namespace, history
<1>9. ASSUME NEW kind \in Kind, NEW n \in Name, NEW o \in UserObject \cup {Absent},
             OthersWrite(kind, n, o)
      PROVE  TypeOK'
  BY <1>5, <1>9, OthersInterfere DEF TypeOK
<1>10. ASSUME NEW n \in Name, StatusUpdate(n)
       PROVE  TypeOK'
  BY <1>5, <1>10, OthersInterfere DEF TypeOK
<1> QED
  BY <1>2, <1>3, <1>4, <1>6, <1>7, <1>8, <1>9, <1>10 DEF Environment

LEMMA TypeNext == TypeOK /\ [Next]_vars => TypeOK'
<1> SUFFICES ASSUME TypeOK, [Next]_vars
             PROVE  TypeOK'
  OBVIOUS
<1>1. CASE UNCHANGED vars
  BY <1>1 DEF vars, objects, namespace, history, TypeOK
<1> QED BY <1>1, TypeReconcile, TypeOthers DEF Next

(* The variables of the controller keep their types: what a pass enforces  *)
(* is a profile and the contents it had, and its list holds objects with   *)
(* the profile label only.                                                 *)
THEOREM ReconcilerTypes == Spec => []TypeOK
<1> QED BY TypeInit, TypeNext, PTL DEF Spec

-----------------------------------------------------------------------------
(* What a pass knows of the API server: a cache differs from it only where *)
(* the informer is behind, and an item of the list only where it has been  *)
(* written since the List call.                                            *)

CachesFollow ==
  \A kind \in Kind : \A n \in Name \ behind[kind] : cache[kind][n] = live[kind][n]

ItemsFollow ==
  \A n \in Name :
    pass.todo[n] # Absent /\ n \notin pass.outdated
      => pass.pc # "idle" /\ live[KindAt(pass.pc)][n] = pass.todo[n]

Follows == TypeOK /\ CachesFollow /\ ItemsFollow

LEMMA RestIs ==
  /\ Rest.pc = "idle" /\ ~Rest.clean
  /\ \A n \in Name : Rest.todo[n] = Absent
BY DEF Rest, Empty

(* A List call, the cache and the API server unchanged.                    *)
LEMMA ListFollows ==
  ASSUME Follows, NEW kind \in Kind, NEW p \in Pass,
         p.pc \in {"quotas", "ranges"} => p.target # NoLabel /\ p.content # Absent,
         p.pc # "idle", KindAt(p.pc) = kind, pass' = List(kind, p),
         UNCHANGED <<live, cache, behind>>
  PROVE  CachesFollow' /\ ItemsFollow'
<1>1. /\ \A n \in Name : pass'.todo[n] =
              IF n \in Managed(cache[kind]) THEN cache[kind][n] ELSE Absent
      /\ pass'.outdated = behind[kind] \cap Managed(cache[kind])
      /\ pass'.pc = p.pc
  BY Listed DEF Follows, TypeOK
<1>2. CachesFollow'
  BY DEF Follows, CachesFollow
<1>3. ItemsFollow'
  BY <1>1 DEF Follows, CachesFollow, ItemsFollow
<1> QED BY <1>2, <1>3

LEMMA CallFollows ==
  ASSUME Follows, NEW kind \in Kind, NEW n \in Name, NEW o \in Object \cup {Absent},
         NEW next, PassOK(next), Call(kind, n, o, next),
         \/ /\ kind = KindAt(pass.pc) /\ next = Past(n)
         \/ \A m \in Name : next.todo[m] = Absent
  PROVE  CachesFollow' /\ ItemsFollow'
<1>1. TypeOK /\ PassOK(pass)
  BY PassIsOK DEF Follows
<1>2. CachesFollow'
  BY <1>1, CallDoes DEF Follows, CachesFollow
<1>3. CASE kind = KindAt(pass.pc) /\ next = Past(n)
  <2> SUFFICES ASSUME NEW m \in Name, pass'.todo[m] # Absent, m \notin pass'.outdated
               PROVE  pass'.pc # "idle" /\ live'[KindAt(pass'.pc)][m] = pass'.todo[m]
    BY <1>2 DEF ItemsFollow
  <2>1. /\ pass'.todo = next.todo /\ pass'.outdated = next.outdated /\ pass'.pc = next.pc
        /\ live'[kind][m] # live[kind][m] => m = n
    BY <1>1, CallDoes
  <2>2. m # n /\ pass'.todo[m] = pass.todo[m] /\ m \notin pass.outdated /\ pass'.pc = pass.pc
    BY <1>1, <1>3, <2>1, PastOK
  <2> QED BY <1>3, <2>1, <2>2 DEF Follows, ItemsFollow
<1>4. CASE \A m \in Name : next.todo[m] = Absent
  <2>1. pass'.todo = next.todo
    BY <1>1, CallDoes
  <2> QED BY <1>2, <1>4, <2>1 DEF ItemsFollow
<1> QED BY <1>3, <1>4

(* The steps of the pass that leave the caches and the API server alone.   *)
LEMMA PassFollows ==
  ASSUME Follows, UNCHANGED <<live, cache, behind>>,
         \/ UNCHANGED pass
         \/ pass' = Rest
         \/ \E n \in Name : pass' = Past(n)
  PROVE  CachesFollow' /\ ItemsFollow'
<1>1. CachesFollow'
  BY DEF Follows, CachesFollow
<1>2. CASE UNCHANGED pass
  BY <1>1, <1>2 DEF Follows, ItemsFollow
<1>3. CASE pass' = Rest
  BY <1>1, <1>3, RestIs DEF ItemsFollow
<1>4. ASSUME NEW n \in Name, pass' = Past(n)
      PROVE  ItemsFollow'
  <2> SUFFICES ASSUME NEW m \in Name, pass'.todo[m] # Absent, m \notin pass'.outdated
               PROVE  pass'.pc # "idle" /\ live'[KindAt(pass'.pc)][m] = pass'.todo[m]
    BY DEF ItemsFollow
  <2>1. m # n /\ pass'.todo[m] = pass.todo[m] /\ m \notin pass.outdated /\ pass'.pc = pass.pc
    BY <1>4, PassIsOK, PastOK DEF Follows
  <2> QED BY <2>1 DEF Follows, ItemsFollow
<1> QED BY <1>1, <1>2, <1>3, <1>4

LEMMA FollowsReconcile ==
  ASSUME Follows, Reconcile
  PROVE  CachesFollow' /\ ItemsFollow'
<1>1. TypeOK /\ PassOK(pass)
  BY PassIsOK DEF Follows
<1>2. CASE ReturnEarly
  BY <1>1, <1>2, DequeueIs, PassFollows DEF ReturnEarly
<1>3. CASE BeginCleanup
  BY <1>1, <1>3, CleanupBegins, ListFollows DEF Kind, KindAt
<1>4. CASE BeginEnforce
  BY <1>1, <1>4, EnforceBegins, ListFollows DEF Kind, KindAt
<1>5. ASSUME NEW n \in Name, Skip(n)
      PROVE  CachesFollow' /\ ItemsFollow'
  BY <1>5, PassFollows DEF Skip, objects
<1>6. ASSUME NEW n \in Name, QuotaItem(n)
      PROVE  CachesFollow' /\ ItemsFollow'
  BY <1>1, <1>5, <1>6, QuotaItemCalls, PastOK, CallFollows DEF Kind, KindAt, AtItem
<1>7. ASSUME NEW n \in Name, RangeItem(n)
      PROVE  CachesFollow' /\ ItemsFollow'
  BY <1>1, <1>5, <1>7, RangeItemCalls, PastOK, CallFollows DEF Kind, KindAt, AtItem
<1>8. CASE Requeue \/ Return
  BY <1>8, PassFollows DEF Requeue, Return, objects
<1>9. ASSUME NEW n \in Name, DropItem(n)
      PROVE  CachesFollow' /\ ItemsFollow'
  BY <1>1, <1>9, DropItemCalls, PastOK, CallFollows DEF Kind, KindAt
<1>10. CASE QuotaSpec
  <2>1. \A m \in Name : NextSpec.todo[m] = Absent
    BY <1>1, <1>10, QuotaSpecCalls, NextSpecOK DEF NoItems, Empty
  <2> QED BY <1>1, <1>10, <2>1, QuotaSpecCalls, NamesOfSpecs, NextSpecOK, CallFollows DEF Kind
<1>11. CASE ListRanges
  BY <1>1, <1>11, ProceedIs, ListFollows DEF ListRanges, NoItems, Kind, KindAt
<1>12. CASE RangeSpec
  <2>1. \A m \in Name : NextSpec.todo[m] = Absent
    BY <1>1, <1>12, RangeSpecCalls, NextSpecOK DEF NoItems, Empty
  <2> QED BY <1>1, <1>12, <2>1, RangeSpecCalls, NamesOfSpecs, NextSpecOK, CallFollows DEF Kind
<1>13. CASE DropRanges
  BY <1>1, <1>13, ProceedIs, ListFollows DEF DropRanges, NoItems, Kind, KindAt
<1> QED
  BY <1>2, <1>3, <1>4, <1>6, <1>7, <1>8, <1>9, <1>10, <1>11, <1>12, <1>13
     DEF Reconcile, NamePanic, RangePanic, EndEnforce, EndCleanup

LEMMA FollowsOthers ==
  ASSUME Follows, Environment \/ Resync \/ \E kind \in Kind : Sync(kind)
  PROVE  CachesFollow' /\ ItemsFollow'
<1>1. TypeOK /\ PassOK(pass)
  BY PassIsOK DEF Follows
<1>2. CASE \/ \E l \in Profile \cup {NoLabel} : Assign(l)
           \/ CloseNamespace
           \/ \E p \in Profile : \E c \in Contents[p] \cup {Absent} : SetProfile(p, c)
           \/ Resync
  BY <1>2, PassFollows DEF Assign, CloseNamespace, SetProfile, Resync, objects
<1>3. ASSUME NEW kind \in Kind, NEW n \in Name, NEW o \in Object \cup {Absent},
             Interfere(kind, n, o)
      PROVE  CachesFollow' /\ ItemsFollow'
  <2>1. CachesFollow'
    BY <1>1, <1>3, InterfereIs DEF Follows, CachesFollow
  <2>2. ASSUME NEW m \in Name, pass'.todo[m] # Absent, m \notin pass'.outdated
        PROVE  pass'.pc # "idle" /\ live'[KindAt(pass'.pc)][m] = pass'.todo[m]
    <3>1. /\ pass'.pc = pass.pc /\ pass.todo[m] = pass'.todo[m] /\ m \notin pass.outdated
          /\ ~(pass.pc # "idle" /\ KindAt(pass.pc) = kind /\ m = n)
          /\ \A kd \in Kind : live'[kd][m] # live[kd][m] => kd = kind /\ m = n
      BY <1>1, <1>3, <2>2, InterfereIs
    <3>2. pass.pc # "idle" /\ live[KindAt(pass.pc)][m] = pass.todo[m]
      BY <2>2, <3>1 DEF Follows, ItemsFollow
    <3> QED BY <3>1, <3>2 DEF KindAt, Kind
  <2> QED BY <2>1, <2>2 DEF ItemsFollow
<1>4. CASE Restart
  <2>1. CachesFollow'
    BY <1>4 DEF Restart, CachesFollow
  <2> QED BY <1>4, <2>1, RestIs DEF Restart, ItemsFollow
<1>5. ASSUME NEW kind \in Kind, Sync(kind)
      PROVE  CachesFollow' /\ ItemsFollow'
  <2>1. CachesFollow'
    BY <1>1, <1>5 DEF Sync, Follows, CachesFollow, TypeOK
  <2> QED BY <1>5, <2>1 DEF Sync, Follows, ItemsFollow
<1>6. ASSUME NEW kind \in Kind, NEW n \in Name, NEW o \in UserObject \cup {Absent},
             OthersWrite(kind, n, o)
      PROVE  CachesFollow' /\ ItemsFollow'
  BY <1>1, <1>3, <1>6, OthersInterfere
<1>7. ASSUME NEW n \in Name, StatusUpdate(n)
      PROVE  CachesFollow' /\ ItemsFollow'
  BY <1>1, <1>3, <1>7, OthersInterfere
<1> QED BY <1>2, <1>4, <1>5, <1>6, <1>7 DEF Environment

LEMMA FollowsInit == Init => Follows
BY TypeInit, RestIs DEF Init, Follows, CachesFollow, ItemsFollow

LEMMA FollowsNext == Follows /\ [Next]_vars => Follows'
<1> SUFFICES ASSUME Follows, [Next]_vars
             PROVE  Follows'
  OBVIOUS
<1>1. TypeOK'
  BY TypeNext DEF Follows
<1>2. CASE UNCHANGED vars
  BY <1>1, <1>2, PassFollows DEF Follows, vars, objects
<1>3. CASE Next
  BY <1>1, <1>3, FollowsReconcile, FollowsOthers DEF Next, Follows
<1> QED BY <1>2, <1>3

LEMMA AlwaysFollows == Spec => []Follows
<1> QED BY FollowsInit, FollowsNext, PTL DEF Spec

-----------------------------------------------------------------------------
(* What a pass does to objects that are not managed.                       *)

(* The item at hand is the listed object, unless it has been written since *)
(* the List call; then only a delete without a precondition touches it.    *)
LEMMA ItemIsListed ==
  ASSUME Follows, NEW n \in Name, pass.todo[n] # Absent
  PROVE  \/ n \in pass.outdated
         \/ /\ live[KindAt(pass.pc)][n] = pass.todo[n]
            /\ pass.todo[n].label # NoLabel
            /\ Own(n) /\ pass.target \in Profile
                 => IsManagedByQuotaProfile(live[KindAt(pass.pc)][n])
            /\ ~IsManagedByQuotaProfile(live[KindAt(pass.pc)][n])
                 => live[KindAt(pass.pc)][n].label = EmptyLabel
BY ReconcilerAssumption DEF Follows, ItemsFollow, TypeOK, Own, IsManagedByQuotaProfile

Spared(kind, n) ==
  \/ QuotaSpec /\ n = NameOf(pass.target, pass.k) /\ live'[kind][n] # Absent
  \/ /\ live'[kind][n] = Absent
     /\ n \in pass.outdated \/ live[kind][n].label = EmptyLabel

LEMMA ReconcileSpares ==
  ASSUME Follows, Reconcile, NEW kind \in Kind, NEW n \in Name,
         live[kind][n] # Absent, ~IsManagedByQuotaProfile(live[kind][n]),
         live'[kind][n] # live[kind][n]
  PROVE  Spared(kind, n)
<1>1. TypeOK /\ PassOK(pass) /\ live[kind][n] \in Object \cup {Absent}
  BY PassIsOK, StoredObject DEF Follows
<1>2. ASSUME NEW m \in Name, NEW o \in Object \cup {Absent}, pass.todo[m] # Absent,
             pass.pc # "idle", Call(KindAt(pass.pc), m, o, Past(m)),
             \/ o = Absent
             \/ /\ Own(m) /\ pass.target \in Profile
                /\ \E spec \in Value :
                     o = Updated(live[KindAt(pass.pc)][m], spec, m \in pass.outdated)
      PROVE  Spared(kind, n)
  <2>1. kind = KindAt(pass.pc) /\ m = n /\ live'[kind][n] = o
    BY <1>1, <1>2, PastOK, CallDoes DEF KindAt, Kind
  <2>2. CASE o = Absent
    BY <1>2, <2>1, <2>2, ItemIsListed DEF Spared
  <2>3. ASSUME Own(m), pass.target \in Profile, NEW spec \in Value,
               o = Updated(live[KindAt(pass.pc)][m], spec, m \in pass.outdated)
        PROVE  FALSE
    <3> DEFINE old == m \in pass.outdated
    <3>1. old
      BY <1>2, <2>1, <2>3, ItemIsListed
    <3>2. o = Updated(live[kind][n], spec, old) /\ old \in BOOLEAN
      BY <2>1, <2>3
    <3> HIDE DEF old
    <3> QED BY <1>1, <2>1, <3>1, <3>2, UpdatedIs
  <2> QED BY <1>2, <2>2, <2>3
<1>3. ASSUME NEW m \in Name, QuotaItem(m)
      PROVE  Spared(kind, n)
  <2>1. /\ AtItem("quotas", m)
        /\ pass.target \in Profile /\ pass.content.rq \in Specs
    BY <1>1, <1>3, QuotaItemCalls, Enforcing DEF AtItem
  <2>2. \/ Skip(m)
        \/ \E o \in Object \cup {Absent} : QuotaItemCall(m, o) /\ Call("rq", m, o, Past(m))
    BY <1>1, <1>3, QuotaItemCalls
  <2>3. ASSUME NEW o \in Object \cup {Absent}, QuotaItemCall(m, o), Call("rq", m, o, Past(m))
        PROVE  Spared(kind, n)
    <3>1. \/ o = Absent
          \/ /\ Own(m)
             /\ \E spec \in Value : o = Updated(live["rq"][m], spec, m \in pass.outdated)
      <4>1. CASE IndexOf(m) \in Nat /\ IndexOf(m) < Len(pass.content.rq)
        <5>1. IndexOf(m) \in 0..(Len(pass.content.rq) - 1)
          BY <2>1, <4>1, SpecsAre
        <5>2. pass.content.rq[IndexOf(m) + 1] \in Value
          BY <2>1, <5>1, SpecsAre
        <5> QED BY <2>3, <5>2 DEF QuotaItemCall
      <4> QED BY <2>3, <4>1 DEF QuotaItemCall
    <3> QED BY <1>2, <2>1, <2>3, <3>1 DEF AtItem, KindAt
  <2> QED BY <2>2, <2>3 DEF Skip, objects
<1>4. ASSUME NEW m \in Name, RangeItem(m)
      PROVE  Spared(kind, n)
  <2>1. AtItem("ranges", m) /\ pass.target \in Profile
    BY <1>1, <1>4, RangeItemCalls, Enforcing DEF AtItem
  <2>2. \/ Skip(m)
        \/ \E o \in Object \cup {Absent} : RangeItemCall(m, o) /\ Call("lr", m, o, Past(m))
    BY <1>1, <1>4, RangeItemCalls
  <2>3. ASSUME NEW o \in Object \cup {Absent}, RangeItemCall(m, o), Call("lr", m, o, Past(m))
        PROVE  Spared(kind, n)
    BY <1>2, <2>1, <2>3 DEF AtItem, KindAt, RangeItemCall
  <2> QED BY <2>2, <2>3 DEF Skip, objects
<1>5. ASSUME NEW m \in Name, DropItem(m)
      PROVE  Spared(kind, n)
  BY <1>2, <1>5, DropItemCalls
<1>6. CASE QuotaSpec
  <2> DEFINE m == NameOf(pass.target, pass.k)
             spec == pass.content.rq[pass.k + 1]
             old == m \in behind["rq"]
  <2>1. m \in Name /\ spec \in Value /\ pass.target \in Profile /\ old \in BOOLEAN
    BY <1>1, <1>6, QuotaSpecCalls, NamesOfSpecs
  <2>2. PICK o \in Object \cup {Absent} : QuotaSpecCall(o) /\ Call("rq", m, o, NextSpec)
    BY <1>1, <1>6, QuotaSpecCalls
  <2>3. PassOK(NextSpec) /\ "rq" \in Kind
    BY <1>1, <1>6, QuotaSpecCalls, NextSpecOK DEF Kind
  <2>4. kind = "rq" /\ n = m /\ live'[kind][n] = o
    BY <1>1, <2>1, <2>2, <2>3, CallDoes
  <2>5. o = Created(live["rq"][m], spec) \/ o = Updated(live["rq"][m], spec, old)
    BY <2>2 DEF QuotaSpecCall
  <2> HIDE DEF m, old, spec
  <2>6. o # Absent
    BY <1>1, <2>1, <2>4, <2>5, CreatedIs, UpdatedIs
  <2> QED BY <1>6, <2>4, <2>6 DEF Spared, m
<1>7. CASE RangeSpec
  <2> DEFINE m == NameOf(pass.target, pass.k)
             spec == pass.content.lr[pass.k + 1]
  <2>1. m \in Name /\ spec \in Value /\ pass.target \in Profile
    BY <1>1, <1>7, RangeSpecCalls, NamesOfSpecs
  <2>2. PICK o \in Object \cup {Absent} :
          o = Created(live["lr"][m], spec) /\ Call("lr", m, o, NextSpec)
    BY <1>1, <1>7, RangeSpecCalls
  <2>3. PassOK(NextSpec) /\ "lr" \in Kind
    BY <1>1, <1>7, RangeSpecCalls, NextSpecOK DEF Kind
  <2>4. kind = "lr" /\ n = m /\ live'[kind][n] = o
    BY <1>1, <2>1, <2>2, <2>3, CallDoes
  <2> QED BY <1>1, <2>1, <2>2, <2>4, CreatedIs
<1>8. CASE UNCHANGED live
  BY <1>8
<1> QED
  BY <1>3, <1>4, <1>5, <1>6, <1>7, <1>8
     DEF Reconcile, ReturnEarly, BeginCleanup, BeginEnforce, Dequeue, NamePanic, RangePanic,
         Requeue, ListRanges, DropRanges, Proceed, EndEnforce, EndCleanup, Return, objects

(* Nothing a pass does changes or deletes an object that users own, unless *)
(* it has the name of the spec at hand, took the place of a listed one, or *)
(* has the label with an empty value.                                      *)
THEOREM UnmanagedObjectsKept == Spec => UnmanagedKept
<1>1. Follows /\ [Next]_vars
        => [\A kind \in Kind, n \in Name :
              /\ live[kind][n] # Absent
              /\ ~IsManagedByQuotaProfile(live[kind][n])
              /\ live'[kind][n] # live[kind][n]
              /\ Reconcile
              => \/ /\ QuotaSpec
                    /\ n = NameOf(pass.target, pass.k)
                    /\ live'[kind][n] # Absent
                 \/ /\ live'[kind][n] = Absent
                    /\ n \in pass.outdated \/ live[kind][n].label = EmptyLabel]_vars
  BY ReconcileSpares DEF Spared
<1> QED BY <1>1, AlwaysFollows, PTL DEF Spec, UnmanagedKept

-----------------------------------------------------------------------------
(* What a pass that nothing disturbs has brought about so far.             *)

(* A quota the profile of the pass may have.                               *)
Wanted(n) ==
  /\ live["rq"][n].label = pass.target
  /\ IndexOf(n) # NoIndex =>
       /\ IndexOf(n) \in 0..(Len(pass.content.rq) - 1)
       /\ live["rq"][n].spec = pass.content.rq[IndexOf(n) + 1]

Done(j) ==
  LET o == live["rq"][NameOf(pass.target, j)]
  IN o # Absent /\ o.spec = pass.content.rq[j + 1]

(* The lag of the cache is the pass's own, and does it no harm: the Get of *)
(* a spec tells if its quota is there, and where its update is refused, it *)
(* has the values already.                                                 *)
Ahead(j) ==
  LET n == NameOf(pass.target, j)
  IN /\ cache["rq"][n] = Absent <=> live["rq"][n] = Absent
     /\ n \in behind["rq"] => Done(j)

QuotasSoFar ==
  /\ pass.outdated = {}
  /\ behind["lr"] = {}
  /\ pass.k > 0 => pass.todo = Empty
  /\ \A n \in Managed(live["rq"]) : pass.todo[n] # Absent \/ Wanted(n)
  /\ \A n \in Managed(live["rq"]) \cap Generated :
       n[1] = Stem[pass.target] => live["rq"][n].label = pass.target
  /\ \A j \in 0..(Len(pass.content.rq) - 1) : IF j < pass.k THEN Done(j) ELSE Ahead(j)

(* Where there was no LimitRange, there are those created so far.          *)
RangesSoFar ==
  /\ Match(live["rq"], pass.target, pass.content.rq)
  /\ pass.blank =>
       /\ pass.todo = Empty
       /\ pass.k <= Len(pass.content.lr)
       /\ \A j \in 0..(pass.k - 1) :
            live["lr"][NameOf(pass.target, j)]
              = [label |-> pass.target, spec |-> pass.content.lr[j + 1]]
       /\ \A n \in Name :
            live["lr"][n] # Absent => \E j \in 0..(pass.k - 1) : n = NameOf(pass.target, j)

DropsSoFar ==
  /\ pass.pc = "dropQuotas"
       => /\ behind["lr"] = {}
          /\ \A n \in Managed(live["rq"]) : pass.todo[n] # Absent
  /\ pass.pc = "dropRanges"
       => /\ Managed(live["rq"]) = {}
          /\ \A n \in Managed(live["lr"]) : pass.todo[n] # Absent

Cleanly ==
  pass.clean => /\ pass.pc = "quotas" => QuotasSoFar
                /\ pass.pc = "ranges" => RangesSoFar
                /\ DropsSoFar

CInv == Follows /\ Cleanly

LEMMA EnforceBeginsCleanly ==
  ASSUME CInv, BeginEnforce, pass'.clean
  PROVE  Cleanly'
<1> DEFINE p == [Rest EXCEPT !.pc = "quotas", !.target = assigned,
                             !.content = profiles[assigned],
                             !.clean = Undisturbed(assigned)]
<1>1. TypeOK /\ CachesFollow /\ "rq" \in Kind /\ "lr" \in Kind
  BY DEF CInv, Follows, Kind
<1>2. /\ UNCHANGED <<live, cache, behind>>
      /\ assigned \in Profile /\ assigned # NoLabel
      /\ profiles[assigned] \in [rq : Specs, lr : Specs] /\ profiles[assigned] # Absent
      /\ p \in Pass /\ p.pc = "quotas" /\ p.target = assigned
      /\ p.content = profiles[assigned]
      /\ p.clean <=> Undisturbed(assigned)
      /\ pass' = List("rq", p)
  BY <1>1, EnforceBegins
<1> HIDE DEF p
<1>3. cache \in [Kind -> Store] /\ behind \in [Kind -> SUBSET Name]
  BY <1>1 DEF TypeOK
<1>4. /\ Undisturbed(assigned)
      /\ pass'.pc = "quotas" /\ pass'.target = assigned /\ pass'.k = 0
      /\ pass'.content = profiles[assigned]
      /\ pass'.outdated = behind["rq"] \cap Managed(cache["rq"])
      /\ \A n \in Name : pass'.todo[n] =
           IF n \in Managed(cache["rq"]) THEN cache["rq"][n] ELSE Absent
  BY <1>1, <1>2, <1>3, Listed
<1>5. /\ behind["rq"] = {} /\ behind["lr"] = {}
      /\ \A n \in Name : cache["rq"][n] = live["rq"][n]
      /\ \A n \in Managed(cache["rq"]) \cap Generated :
           n[1] = Stem[assigned] => cache["rq"][n].label = assigned
  BY <1>1, <1>2, <1>4 DEF Undisturbed, CachesFollow
<1>6. \A n \in Managed(live'["rq"]) : pass'.todo[n] # Absent
  BY <1>2, <1>4, <1>5 DEF Managed
<1>7. \A n \in Managed(live'["rq"]) \cap Generated :
        n[1] = Stem[pass'.target] => live'["rq"][n].label = pass'.target
  BY <1>2, <1>4, <1>5 DEF Managed
<1>8. \A j \in 0..(Len(pass'.content.rq) - 1) : Ahead(j)' /\ ~(j < pass'.k)
  <2> SUFFICES ASSUME NEW j \in 0..(Len(pass'.content.rq) - 1)
               PROVE  Ahead(j)' /\ ~(j < pass'.k)
    OBVIOUS
  <2>1. j \in 0..(MaxSpecs - 1) /\ NameOf(assigned, j) \in Name
    BY <1>2, <1>4, SpecsAre, NamesOfSpecs, ReconcilerAssumption
  <2> QED BY <1>2, <1>4, <1>5, <2>1 DEF Ahead
<1>9. QuotasSoFar'
  BY <1>2, <1>4, <1>5, <1>6, <1>7, <1>8 DEF QuotasSoFar
<1> QED BY <1>4, <1>9 DEF Cleanly, DropsSoFar

LEMMA CleanupBeginsCleanly ==
  ASSUME CInv, BeginCleanup, pass'.clean
  PROVE  Cleanly'
<1> DEFINE p == [Rest EXCEPT !.pc = "dropQuotas", !.clean = Undisturbed(NoLabel)]
<1>1. TypeOK /\ CachesFollow /\ "rq" \in Kind /\ "lr" \in Kind
  BY DEF CInv, Follows, Kind
<1>2. /\ UNCHANGED <<live, cache, behind>>
      /\ p \in Pass /\ p.pc = "dropQuotas"
      /\ p.clean <=> Undisturbed(NoLabel)
      /\ pass' = List("rq", p)
  BY <1>1, CleanupBegins
<1> HIDE DEF p
<1>3. cache \in [Kind -> Store] /\ behind \in [Kind -> SUBSET Name]
  BY <1>1 DEF TypeOK
<1>4. /\ Undisturbed(NoLabel)
      /\ pass'.pc = "dropQuotas"
      /\ \A n \in Name : pass'.todo[n] =
           IF n \in Managed(cache["rq"]) THEN cache["rq"][n] ELSE Absent
  BY <1>1, <1>2, <1>3, Listed
<1>5. behind["lr"] = {} /\ \A n \in Name : cache["rq"][n] = live["rq"][n]
  BY <1>1, <1>4 DEF Undisturbed, CachesFollow
<1>6. \A n \in Managed(live'["rq"]) : pass'.todo[n] # Absent
  BY <1>2, <1>4, <1>5 DEF Managed
<1>7. DropsSoFar'
  BY <1>2, <1>4, <1>5, <1>6 DEF DropsSoFar
<1> QED BY <1>4, <1>7 DEF Cleanly

(* An item of the list of quotas.                                          *)
LEMMA QuotaItemCleanly ==
  ASSUME CInv, NEW n \in Name, QuotaItem(n), pass'.clean
  PROVE  Cleanly'
<1> DEFINE specs == pass.content.rq
<1>1. TypeOK /\ PassOK(pass) /\ Follows /\ "rq" \in Kind /\ "lr" \in Kind
  BY PassIsOK DEF CInv, Follows, Kind
<1>2. /\ pass.pc = "quotas" /\ pass.todo[n] # Absent
      /\ pass.target \in Profile /\ specs \in Specs
      /\ Len(specs) \in 0..MaxSpecs
  BY <1>1, QuotaItemCalls, Enforcing, SpecsAre DEF AtItem
<1>3. \/ Own(n) /\ IndexOf(n) = NoIndex /\ Skip(n)
      \/ \E o \in Object \cup {Absent} : QuotaItemCall(n, o) /\ Call("rq", n, o, Past(n))
  BY <1>1, QuotaItemCalls
<1>4. /\ pass.clean /\ UNCHANGED cache
      /\ pass'.pc = "quotas" /\ pass'.target = pass.target
      /\ pass'.content = pass.content /\ pass'.k = pass.k
      /\ pass'.outdated = pass.outdated \ {n}
      /\ \A m \in Name \ {n} : pass'.todo[m] = pass.todo[m]
      /\ \A m \in Name \ {n} : live'["rq"][m] = live["rq"][m]
      /\ behind'["lr"] = behind["lr"]
      /\ behind["rq"] \subseteq behind'["rq"]
      /\ \A m \in Name \ {n} : m \in behind'["rq"] => m \in behind["rq"]
  <2>1. CASE Skip(n)
    BY <1>1, <1>2, <2>1, PastOK DEF Skip, objects
  <2>2. ASSUME NEW o \in Object \cup {Absent}, Call("rq", n, o, Past(n))
        PROVE  <1>4!:
    <3>1. /\ PassOK(Past(n))
          /\ Past(n).outdated = pass.outdated \ {n}
          /\ \A m \in Name \ {n} : Past(n).todo[m] = pass.todo[m]
          /\ Past(n).pc = pass.pc /\ Past(n).target = pass.target
          /\ Past(n).content = pass.content
          /\ Past(n).k = pass.k /\ Past(n).clean = pass.clean
      BY <1>1, PastOK
    <3>2. /\ behind' \in [Kind -> SUBSET Name]
          /\ \A kd \in Kind : behind[kd] \subseteq behind'[kd]
          /\ \A kd \in Kind, m \in Name :
               m \in behind'[kd] \ behind[kd] => kd = "rq" /\ m = n
          /\ \A kd \in Kind, m \in Name :
               live'[kd][m] # live[kd][m] => kd = "rq" /\ m = n
      BY <1>1, <2>2, <3>1, CallDoes
    <3>3. behind'["lr"] = behind["lr"]
      <4>1. behind["lr"] \in SUBSET Name /\ behind'["lr"] \in SUBSET Name
        BY <1>1, <3>2 DEF TypeOK
      <4> QED BY <1>1, <3>2, <4>1
    <3>4. /\ pass.clean /\ UNCHANGED cache
          /\ pass'.pc = "quotas" /\ pass'.target = pass.target
          /\ pass'.content = pass.content /\ pass'.k = pass.k
          /\ pass'.outdated = pass.outdated \ {n}
          /\ \A m \in Name \ {n} : pass'.todo[m] = pass.todo[m]
      <4>1. /\ pass'.clean => Past(n).clean
            /\ UNCHANGED cache
            /\ pass'.pc = Past(n).pc /\ pass'.target = Past(n).target
            /\ pass'.content = Past(n).content /\ pass'.todo = Past(n).todo
            /\ pass'.outdated = Past(n).outdated /\ pass'.k = Past(n).k
        BY <1>1, <2>2, <3>1, CallDoes
      <4> QED BY <1>2, <3>1, <4>1
    <3> QED BY <1>1, <3>2, <3>3, <3>4
  <2> QED BY <1>3, <2>1, <2>2
<1>5. /\ QuotasSoFar /\ pass.k = 0 /\ pass.outdated = {}
      /\ live["rq"][n] = pass.todo[n] /\ n \in Managed(live["rq"])
      /\ Own(n) <=> live["rq"][n].label = pass.target
  <2>1. QuotasSoFar /\ pass.outdated = {} /\ (pass.k > 0 => pass.todo = Empty)
    BY <1>2, <1>4 DEF CInv, Cleanly, QuotasSoFar
  <2>2. live["rq"][n] = pass.todo[n] /\ pass.todo[n].label # NoLabel
    BY <1>1, <1>2, <2>1 DEF Follows, ItemsFollow, KindAt, TypeOK
  <2>3. pass.k = 0
    BY <1>1, <1>2, <2>1, ReconcilerAssumption DEF Empty, TypeOK, Pass
  <2> QED BY <1>2, <2>1, <2>2, <2>3 DEF Managed, Own
<1>6. \/ /\ live'["rq"][n] = Absent
         /\ ~Own(n) \/ (IndexOf(n) \in Nat /\ IndexOf(n) >= Len(specs))
      \/ /\ live'["rq"][n] = live["rq"][n] /\ behind'["rq"] = behind["rq"]
         /\ Own(n) /\ IndexOf(n) = NoIndex
      \/ /\ live'["rq"][n] # Absent /\ live'["rq"][n].label = pass.target
         /\ IndexOf(n) \in 0..(Len(specs) - 1)
         /\ live'["rq"][n].spec = specs[IndexOf(n) + 1]
  <2>1. CASE Own(n) /\ IndexOf(n) = NoIndex /\ Skip(n)
    BY <2>1 DEF Skip, objects
  <2>2. ASSUME NEW o \in Object \cup {Absent}, QuotaItemCall(n, o), Call("rq", n, o, Past(n))
        PROVE  <1>6!:
    <3>1. live'["rq"][n] = o
      BY <1>1, <2>2, PastOK, CallDoes
    <3>2. CASE /\ Own(n) /\ IndexOf(n) \in Nat /\ IndexOf(n) < Len(specs)
               /\ o = Updated(live["rq"][n], specs[IndexOf(n) + 1], n \in pass.outdated)
      <4> DEFINE old == n \in pass.outdated
      <4>1. IndexOf(n) \in 0..(Len(specs) - 1)
        BY <1>2, <3>2
      <4>2. specs[IndexOf(n) + 1] \in Value
        BY <1>2, <4>1, SpecsAre
      <4>3. old \in BOOLEAN /\ ~old /\ live["rq"][n] # Absent
        BY <1>5 DEF Managed
      <4>4. o = Updated(live["rq"][n], specs[IndexOf(n) + 1], old)
        BY <3>2
      <4> HIDE DEF old
      <4>5. /\ o # Absent /\ o.label = live["rq"][n].label
            /\ o.spec = specs[IndexOf(n) + 1]
        BY <1>1, <4>2, <4>3, <4>4, StoredObject, UpdatedIs
      <4> QED BY <1>5, <3>1, <3>2, <4>1, <4>5
    <3> QED BY <2>2, <3>1, <3>2 DEF QuotaItemCall
  <2> QED BY <1>3, <2>1, <2>2
<1>7. \A m \in Managed(live'["rq"]) : pass'.todo[m] # Absent \/ Wanted(m)'
  <2> SUFFICES ASSUME NEW m \in Name, live'["rq"][m] # Absent, live'["rq"][m].label # NoLabel,
                      pass'.todo[m] = Absent
               PROVE  Wanted(m)'
    BY DEF Managed
  <2>1. CASE m = n
    BY <1>4, <1>5, <1>6, <2>1 DEF Wanted
  <2>2. CASE m # n
    BY <1>4, <1>5, <2>2 DEF Wanted, QuotasSoFar, Managed
  <2> QED BY <2>1, <2>2
<1>8. \A m \in Managed(live'["rq"]) \cap Generated :
        m[1] = Stem[pass'.target] => live'["rq"][m].label = pass'.target
  <2> SUFFICES ASSUME NEW m \in Name \cap Generated, live'["rq"][m] # Absent,
                      live'["rq"][m].label # NoLabel, m[1] = Stem[pass.target]
               PROVE  live'["rq"][m].label = pass.target
    BY <1>4 DEF Managed
  <2> QED BY <1>4, <1>5, <1>6 DEF QuotasSoFar, Managed
<1>9. ASSUME NEW j \in 0..(Len(specs) - 1)
      PROVE  Ahead(j)'
  <2> DEFINE m == NameOf(pass.target, j)
  <2>1. /\ m \in Name /\ m \in Generated /\ IndexOf(m) = j /\ m[1] = Stem[pass.target]
        /\ j \in Nat /\ j < Len(specs) /\ ~(j < pass.k)
    BY <1>2, <1>5, <1>9, NamesOfSpecs, ReconcilerAssumption
  <2>2. /\ cache["rq"][m] = Absent <=> live["rq"][m] = Absent
        /\ m \in behind["rq"] => live["rq"][m] # Absent /\ live["rq"][m].spec = specs[j + 1]
    BY <1>5, <1>9, <2>1 DEF QuotasSoFar, Ahead, Done
  <2> HIDE DEF m
  <2>3. /\ cache'["rq"][m] = Absent <=> live'["rq"][m] = Absent
        /\ m \in behind'["rq"] => live'["rq"][m] # Absent /\ live'["rq"][m].spec = specs[j + 1]
    <3>1. CASE m # n
      BY <1>4, <2>1, <2>2, <3>1
    <3>2. CASE m = n
      <4>1. Own(n) /\ live["rq"][n] # Absent
        BY <1>5, <2>1, <3>2 DEF QuotasSoFar, Managed
      <4>2. ~(IndexOf(n) \in Nat /\ IndexOf(n) >= Len(specs))
        BY <1>2, <2>1, <3>2
      <4> QED BY <1>4, <1>6, <2>1, <2>2, <3>2, <4>1, <4>2
    <3> QED BY <3>1, <3>2
  <2> QED BY <1>4, <2>3 DEF Ahead, Done, m
<1>10. QuotasSoFar'
  <2>1. \A j \in 0..(Len(pass'.content.rq) - 1) : Ahead(j)' /\ ~(j < pass'.k)
    BY <1>2, <1>4, <1>5, <1>9
  <2> QED BY <1>4, <1>5, <1>7, <1>8, <2>1 DEF QuotasSoFar
<1> QED BY <1>4, <1>10 DEF Cleanly, DropsSoFar

(* A spec of the profile.                                                  *)
LEMMA QuotaSpecCleanly ==
  ASSUME CInv, QuotaSpec, pass'.clean
  PROVE  Cleanly'
<1> DEFINE specs == pass.content.rq
           n == NameOf(pass.target, pass.k)
           spec == specs[pass.k + 1]
           old == n \in behind["rq"]
<1>1. TypeOK /\ PassOK(pass) /\ "rq" \in Kind /\ "lr" \in Kind
  BY PassIsOK DEF CInv, Follows, Kind
<1>2. /\ pass.pc = "quotas" /\ pass.todo = Empty
      /\ pass.target \in Profile /\ specs \in Specs /\ Len(specs) \in 0..MaxSpecs
      /\ pass.k \in 0..(Len(specs) - 1) /\ pass.k \in 0..(MaxSpecs - 1) /\ pass.k < MaxSpecs
      /\ spec \in Value
      /\ \E o \in Object \cup {Absent} : QuotaSpecCall(o) /\ Call("rq", n, o, NextSpec)
  BY <1>1, QuotaSpecCalls, SpecsAre DEF NoItems
<1>3. /\ n \in Name /\ n \in Generated /\ IndexOf(n) = pass.k /\ n[1] = Stem[pass.target]
      /\ \A j : NameOf(pass.target, j) = n => j = pass.k
  BY <1>2, NamesOfSpecs
<1>4. PICK o \in Object \cup {Absent} : QuotaSpecCall(o) /\ Call("rq", n, o, NextSpec)
  BY <1>2
<1>5. /\ PassOK(NextSpec)
      /\ NextSpec.todo = pass.todo /\ NextSpec.outdated = pass.outdated
      /\ NextSpec.pc = pass.pc /\ NextSpec.target = pass.target
      /\ NextSpec.content = pass.content
      /\ NextSpec.k = pass.k + 1 /\ NextSpec.clean = pass.clean
  BY <1>1, <1>2, NextSpecOK
<1> HIDE DEF n
<1>6. /\ pass'.clean => NextSpec.clean /\ live'["rq"][n] = o
      /\ UNCHANGED cache
      /\ pass'.pc = NextSpec.pc /\ pass'.target = NextSpec.target
      /\ pass'.content = NextSpec.content /\ pass'.todo = NextSpec.todo
      /\ pass'.outdated = NextSpec.outdated /\ pass'.k = NextSpec.k
      /\ behind' \in [Kind -> SUBSET Name]
      /\ \A kd \in Kind : behind[kd] \subseteq behind'[kd]
      /\ \A kd \in Kind, m \in Name :
           m \in behind'[kd] \ behind[kd] => kd = "rq" /\ m = n
      /\ \A kd \in Kind, m \in Name :
           live'[kd][m] # live[kd][m] => kd = "rq" /\ m = n
  <2>1. Call("rq", n, o, NextSpec) /\ PassOK(NextSpec)
    BY <1>4, <1>5
  <2> QED BY <1>1, <1>3, <2>1, CallDoes
<1>7. behind'["lr"] = behind["lr"]
  BY <1>1, <1>6 DEF TypeOK
<1>8. QuotasSoFar /\ live'["rq"][n] = o
  BY <1>2, <1>5, <1>6 DEF CInv, Cleanly
<1>9. /\ o # Absent /\ o.spec = spec
      /\ live["rq"][n] = Absent => o.label = pass.target
      /\ live["rq"][n] # Absent => o.label = live["rq"][n].label
  <2>1. /\ cache["rq"][n] = Absent <=> live["rq"][n] = Absent
        /\ old => live["rq"][n] # Absent /\ live["rq"][n].spec = spec
    BY <1>2, <1>8 DEF QuotasSoFar, Ahead, Done, n
  <2>2. live["rq"][n] \in Object \cup {Absent}
    BY <1>1, <1>3, StoredObject
  <2>3. CASE NotFound(n)
    <3>1. o = Created(live["rq"][n], spec) /\ live["rq"][n] = Absent
      BY <1>4, <2>1, <2>3 DEF QuotaSpecCall, NotFound, n
    <3>2. o \in Object /\ o.label = pass.target /\ o.spec = spec
      BY <1>2, <2>2, <3>1, CreatedIs
    <3> QED BY <3>1, <3>2, ReconcilerAssumption
  <2>4. CASE ~NotFound(n)
    <3>1. o = Updated(live["rq"][n], spec, old) /\ live["rq"][n] # Absent
      BY <1>4, <2>1, <2>4 DEF QuotaSpecCall, NotFound, n
    <3>2. old \in BOOLEAN
      OBVIOUS
    <3> HIDE DEF old
    <3> QED BY <1>2, <2>1, <2>2, <3>1, <3>2, UpdatedIs
  <2> QED BY <2>3, <2>4
<1>10. \A m \in Managed(live'["rq"]) : pass'.todo[m] # Absent \/ Wanted(m)'
  <2> SUFFICES ASSUME NEW m \in Name, live'["rq"][m] # Absent, live'["rq"][m].label # NoLabel
               PROVE  Wanted(m)'
    BY DEF Managed
  <2>1. \A l \in Managed(live["rq"]) : Wanted(l)
    BY <1>2, <1>8 DEF QuotasSoFar, Empty, Managed
  <2>2. CASE m # n
    BY <1>1, <1>5, <1>6, <2>1, <2>2 DEF Wanted, Managed
  <2>3. CASE m = n
    <3>1. live'["rq"][m].label = pass.target
      BY <1>3, <1>8, <1>9, <2>1, <2>3 DEF Wanted, Managed
    <3>2. live'["rq"][m].spec = pass.content.rq[IndexOf(m) + 1]
      BY <1>3, <1>8, <1>9, <2>3
    <3> QED BY <1>2, <1>3, <1>5, <1>6, <2>3, <3>1, <3>2 DEF Wanted
  <2> QED BY <2>2, <2>3
<1>11. \A m \in Managed(live'["rq"]) \cap Generated :
         m[1] = Stem[pass'.target] => live'["rq"][m].label = pass'.target
  <2> SUFFICES ASSUME NEW m \in Managed(live'["rq"])
               PROVE  live'["rq"][m].label = pass'.target
    OBVIOUS
  <2>1. pass'.todo[m] = Absent
    BY <1>2, <1>5, <1>6 DEF Empty, Managed
  <2> QED BY <1>10, <2>1 DEF Wanted
<1>12. ASSUME NEW j \in 0..(Len(specs) - 1)
       PROVE  IF j < pass.k + 1 THEN Done(j)' ELSE Ahead(j)'
  <2> DEFINE m == NameOf(pass.target, j)
  <2>1. m \in Name /\ (m = n => j = pass.k) /\ (j = pass.k => m = n)
    BY <1>2, <1>3, <1>12, NamesOfSpecs, ReconcilerAssumption DEF n
  <2>2. IF j < pass.k THEN Done(j) ELSE Ahead(j)
    BY <1>8, <1>12 DEF QuotasSoFar
  <2>3. CASE j = pass.k
    BY <1>2, <1>5, <1>6, <1>8, <1>9, <2>1, <2>3 DEF Done
  <2>4. CASE j # pass.k
    <3>1. /\ live'["rq"][m] = live["rq"][m] /\ cache'["rq"][m] = cache["rq"][m]
          /\ m \in behind'["rq"] => m \in behind["rq"]
          /\ pass'.target = pass.target /\ pass'.content = pass.content
      BY <1>1, <1>5, <1>6, <2>1, <2>4
    <3>2. Done(j)' <=> Done(j)
      BY <3>1 DEF Done
    <3>3. Ahead(j) => Ahead(j)'
      BY <3>1, <3>2 DEF Ahead
    <3> QED BY <1>2, <1>12, <2>2, <2>4, <3>2, <3>3
  <2> QED BY <2>3, <2>4
<1>13. QuotasSoFar'
  <2>1. \A j \in 0..(Len(pass'.content.rq) - 1) :
          IF j < pass'.k THEN Done(j)' ELSE Ahead(j)'
    BY <1>5, <1>6, <1>12
  <2>2. pass'.outdated = {} /\ behind'["lr"] = {} /\ pass'.todo = Empty'
    BY <1>2, <1>5, <1>6, <1>7, <1>8 DEF QuotasSoFar, Empty
  <2> QED BY <1>10, <1>11, <2>1, <2>2 DEF QuotasSoFar
<1> QED BY <1>2, <1>5, <1>6, <1>13 DEF Cleanly, DropsSoFar

(* The pass moves on to the LimitRanges: the ResourceQuotas are done.      *)
LEMMA ListRangesCleanly ==
  ASSUME CInv, ListRanges, pass'.clean
  PROVE  Cleanly'
<1> DEFINE p == [pass EXCEPT !.pc = "ranges"]
           specs == pass.content.rq
<1>1. TypeOK /\ PassOK(pass) /\ CachesFollow /\ "rq" \in Kind /\ "lr" \in Kind
  BY PassIsOK DEF CInv, Follows, Kind
<1>2. /\ pass.pc = "quotas" /\ pass.todo = Empty /\ pass.k = Len(specs)
      /\ Proceed("ranges")
  BY DEF ListRanges, NoItems
<1>3. /\ UNCHANGED <<live, cache, behind>>
      /\ p \in Pass /\ p.pc = "ranges"
      /\ p.target = pass.target /\ p.content = pass.content /\ p.clean = pass.clean
      /\ p.target # NoLabel /\ p.content # Absent
      /\ pass' = List("lr", p)
  BY <1>1, <1>2, ProceedIs
<1> HIDE DEF p
<1>4. cache \in [Kind -> Store] /\ behind \in [Kind -> SUBSET Name]
      /\ live \in [Kind -> Store]
  BY <1>1 DEF TypeOK
<1>5. /\ PassOK(pass') /\ pass'.k = 0
      /\ pass'.pc = "ranges" /\ pass'.target = pass.target
      /\ pass'.content = pass.content /\ pass'.clean = pass.clean
      /\ \A n \in Name : pass'.todo[n] =
           IF n \in Managed(cache["lr"]) THEN cache["lr"][n] ELSE Absent
      /\ pass'.blank => cache["lr"] = Empty
  <2>1. /\ PassOK(List("lr", p)) /\ List("lr", p).k = 0
        /\ List("lr", p).pc = p.pc /\ List("lr", p).target = p.target
        /\ List("lr", p).content = p.content /\ List("lr", p).clean = p.clean
        /\ \A n \in Name : List("lr", p).todo[n] =
             IF n \in Managed(cache["lr"]) THEN cache["lr"][n] ELSE Absent
    BY <1>1, <1>3, <1>4, Listed
  <2>2. List("lr", p).blank <=> cache["lr"] = Empty
    BY <1>1, <1>3, <1>4, Listed
  <2>3. pass'.blank => cache["lr"] = Empty
    BY <1>3, <2>2
  <2> QED BY <1>3, <2>1, <2>3
<1>6. /\ QuotasSoFar /\ behind["lr"] = {}
      /\ pass.target \in Profile /\ specs \in Specs /\ Len(specs) \in 0..MaxSpecs
      /\ pass.content.lr \in Specs /\ Len(pass.content.lr) \in Nat
  BY <1>1, <1>2, <1>5, Enforcing, SpecsAre DEF CInv, Cleanly, QuotasSoFar
<1>7. Match(live["rq"], pass.target, specs)
  <2>1. \A j \in 0..(Len(specs) - 1) : Done(j)
    BY <1>2, <1>6 DEF QuotasSoFar
  <2>2. \A n \in Managed(live["rq"]) : Wanted(n)
    BY <1>2, <1>6 DEF QuotasSoFar, Empty, Managed
  <2> QED BY <2>1, <2>2 DEF Match, Orderly, Done, Wanted
<1>8. ASSUME pass'.blank
      PROVE  /\ pass'.todo = Empty
             /\ \A n \in Name : live'["lr"][n] = Absent
  <2>1. \A n \in Name : pass'.todo[n] = Absent /\ cache["lr"][n] = Absent
    BY <1>5, <1>8 DEF Empty, Managed
  <2>2. pass'.todo \in Store
    BY <1>5 DEF PassOK, Pass
  <2> QED BY <1>1, <1>3, <1>6, <2>1, <2>2 DEF CachesFollow, Empty, Store
<1>9. RangesSoFar'
  <2>1. Match(live'["rq"], pass'.target, pass'.content.rq)
    BY <1>3, <1>5, <1>7
  <2>2. 0..(pass'.k - 1) = {}
    BY <1>5
  <2>3. pass'.k <= Len(pass'.content.lr)
    BY <1>5, <1>6
  <2>4. pass'.blank => pass'.todo = Empty'
    BY <1>8 DEF Empty
  <2> QED BY <1>8, <2>1, <2>2, <2>3, <2>4 DEF RangesSoFar, Match, Orderly, Managed
<1> QED BY <1>5, <1>9 DEF Cleanly, DropsSoFar

(* An item of the list of LimitRanges: there was one, then.                *)
LEMMA RangeItemCleanly ==
  ASSUME CInv, NEW n \in Name, RangeItem(n), pass'.clean
  PROVE  Cleanly'
<1>1. TypeOK /\ PassOK(pass) /\ "rq" \in Kind /\ "lr" \in Kind
  BY PassIsOK DEF CInv, Follows, Kind
<1>2. /\ pass.pc = "ranges" /\ pass.todo[n] # Absent
      /\ \/ Skip(n)
         \/ \E o \in Object \cup {Absent} : Call("lr", n, o, Past(n))
  BY <1>1, RangeItemCalls DEF AtItem
<1>3. /\ PassOK(Past(n))
      /\ Past(n).pc = pass.pc /\ Past(n).target = pass.target
      /\ Past(n).content = pass.content /\ Past(n).blank = pass.blank
      /\ Past(n).clean = pass.clean
  BY <1>1, PastOK
<1>4. /\ pass.clean /\ live'["rq"] = live["rq"]
      /\ pass'.pc = "ranges" /\ pass'.target = pass.target
      /\ pass'.content = pass.content /\ pass'.blank = pass.blank
  <2>1. CASE Skip(n)
    BY <1>2, <1>3, <2>1 DEF Skip, objects
  <2>2. ASSUME NEW o \in Object \cup {Absent}, Call("lr", n, o, Past(n))
        PROVE  <1>4!:
    <3>1. /\ pass'.clean => Past(n).clean
          /\ pass'.pc = Past(n).pc /\ pass'.target = Past(n).target
          /\ pass'.content = Past(n).content /\ pass'.blank = Past(n).blank
          /\ live' \in [Kind -> Store]
          /\ \A kd \in Kind, m \in Name :
               live'[kd][m] # live[kd][m] => kd = "lr" /\ m = n
      BY <1>1, <1>3, <2>2, CallDoes
    <3>2. live'["rq"] = live["rq"]
      BY <1>1, <3>1 DEF TypeOK, Store
    <3> QED BY <1>2, <1>3, <3>1, <3>2
  <2> QED BY <1>2, <2>1, <2>2
<1>5. RangesSoFar /\ ~pass.blank
  BY <1>2, <1>4 DEF CInv, Cleanly, RangesSoFar, Empty
<1>6. RangesSoFar'
  BY <1>4, <1>5 DEF RangesSoFar, Match, Orderly, Managed
<1> QED BY <1>4, <1>6 DEF Cleanly, DropsSoFar

(* A LimitRange of the profile, where there was none.                      *)
LEMMA RangeSpecCleanly ==
  ASSUME CInv, RangeSpec, pass'.clean
  PROVE  Cleanly'
<1> DEFINE n == NameOf(pass.target, pass.k)
           spec == pass.content.lr[pass.k + 1]
<1>1. TypeOK /\ PassOK(pass) /\ "rq" \in Kind /\ "lr" \in Kind
  BY PassIsOK DEF CInv, Follows, Kind
<1>2. /\ pass.pc = "ranges" /\ pass.todo = Empty /\ pass.blank
      /\ pass.target \in Profile /\ pass.content.lr \in Specs
      /\ Len(pass.content.lr) \in 0..MaxSpecs
      /\ pass.k \in 0..(Len(pass.content.lr) - 1) /\ pass.k < MaxSpecs
      /\ pass.k \in 0..(MaxSpecs - 1)
      /\ spec \in Value
  BY <1>1, RangeSpecCalls, SpecsAre DEF NoItems
<1>3. /\ n \in Name /\ \A j : NameOf(pass.target, j) = n => j = pass.k
  BY <1>2, NamesOfSpecs
<1>4. PICK o \in Object \cup {Absent} :
        o = Created(live["lr"][n], spec) /\ Call("lr", n, o, NextSpec)
  BY <1>1, RangeSpecCalls
<1>5. /\ PassOK(NextSpec)
      /\ NextSpec.todo = pass.todo /\ NextSpec.blank = pass.blank
      /\ NextSpec.pc = pass.pc /\ NextSpec.target = pass.target
      /\ NextSpec.content = pass.content
      /\ NextSpec.k = pass.k + 1 /\ NextSpec.clean = pass.clean
  BY <1>1, <1>2, NextSpecOK
<1> HIDE DEF n
<1>6. /\ pass'.clean => NextSpec.clean /\ live'["lr"][n] = o
      /\ pass'.pc = NextSpec.pc /\ pass'.target = NextSpec.target
      /\ pass'.content = NextSpec.content /\ pass'.todo = NextSpec.todo
      /\ pass'.blank = NextSpec.blank /\ pass'.k = NextSpec.k
      /\ live' \in [Kind -> Store]
      /\ \A kd \in Kind, m \in Name :
           live'[kd][m] # live[kd][m] => kd = "lr" /\ m = n
  <2>1. Call("lr", n, o, NextSpec) /\ PassOK(NextSpec)
    BY <1>4, <1>5
  <2> QED BY <1>1, <1>3, <2>1, CallDoes
<1>7. live'["rq"] = live["rq"]
  BY <1>1, <1>6 DEF TypeOK, Store
<1>8. RangesSoFar /\ live'["lr"][n] = o
  BY <1>2, <1>5, <1>6 DEF CInv, Cleanly
<1>9. live["lr"][n] = Absent
  <2> SUFFICES ASSUME live["lr"][n] # Absent
               PROVE  FALSE
    OBVIOUS
  <2>1. PICK j \in 0..(pass.k - 1) : n = NameOf(pass.target, j)
    BY <1>2, <1>3, <1>8 DEF RangesSoFar
  <2>2. j = pass.k
    BY <1>3, <2>1
  <2> QED BY <1>2, <2>1, <2>2
<1>10. o = [label |-> pass.target, spec |-> spec]
  BY <1>4, <1>9 DEF Created
<1>11. ASSUME NEW j \in 0..pass.k
       PROVE  live'["lr"][NameOf(pass.target, j)]
                = [label |-> pass.target, spec |-> pass.content.lr[j + 1]]
  <2>1. j \in 0..(MaxSpecs - 1) /\ NameOf(pass.target, j) \in Name
    BY <1>2, <1>11, NamesOfSpecs, ReconcilerAssumption
  <2>2. CASE j = pass.k
    BY <1>8, <1>10, <2>2 DEF n
  <2>3. CASE j # pass.k
    <3>1. j \in 0..(pass.k - 1)
      BY <1>2, <1>11, <2>3
    <3>2. live["lr"][NameOf(pass.target, j)]
            = [label |-> pass.target, spec |-> pass.content.lr[j + 1]]
      BY <1>2, <1>8, <3>1 DEF RangesSoFar
    <3>3. NameOf(pass.target, j) # n
      BY <1>3, <2>3
    <3> QED BY <1>1, <1>6, <2>1, <3>2, <3>3
  <2> QED BY <2>2, <2>3
<1>12. ASSUME NEW m \in Name, live'["lr"][m] # Absent
       PROVE  \E j \in 0..pass.k : m = NameOf(pass.target, j)
  <2>1. CASE m = n
    BY <1>2, <2>1 DEF n
  <2>2. CASE m # n
    <3>1. live["lr"][m] # Absent
      BY <1>1, <1>6, <1>12, <2>2
    <3>2. PICK j \in 0..(pass.k - 1) : m = NameOf(pass.target, j)
      BY <1>2, <1>8, <3>1 DEF RangesSoFar
    <3>3. j \in 0..pass.k
      BY <1>2
    <3> QED BY <3>2, <3>3
  <2> QED BY <2>1, <2>2
<1>13. RangesSoFar'
  <2>1. Match(live'["rq"], pass'.target, pass'.content.rq)
    BY <1>5, <1>6, <1>7, <1>8 DEF RangesSoFar
  <2>2. 0..(pass'.k - 1) = 0..pass.k /\ pass'.k <= Len(pass'.content.lr)
    BY <1>2, <1>5, <1>6
  <2>3. pass'.todo = Empty' /\ pass'.target = pass.target /\ pass'.content = pass.content
    BY <1>2, <1>5, <1>6 DEF Empty
  <2> QED BY <1>11, <1>12, <2>1, <2>2, <2>3 DEF RangesSoFar, Match, Orderly, Managed
<1> QED BY <1>2, <1>5, <1>6, <1>13 DEF Cleanly, DropsSoFar

(* An item of a list to be removed.                                        *)
LEMMA DropItemCleanly ==
  ASSUME CInv, NEW n \in Name, DropItem(n), pass'.clean
  PROVE  Cleanly'
<1>1. TypeOK /\ PassOK(pass) /\ "rq" \in Kind /\ "lr" \in Kind
  BY PassIsOK DEF CInv, Follows, Kind
<1>2. /\ pass.pc \in {"dropQuotas", "dropRanges"}
      /\ Call(KindAt(pass.pc), n, Absent, Past(n)) /\ KindAt(pass.pc) \in Kind
  BY <1>1, DropItemCalls DEF KindAt
<1>3. /\ PassOK(Past(n))
      /\ Past(n).pc = pass.pc /\ Past(n).clean = pass.clean
      /\ \A m \in Name \ {n} : Past(n).todo[m] = pass.todo[m]
  BY <1>1, PastOK
<1>4. /\ pass'.clean => Past(n).clean /\ live'[KindAt(pass.pc)][n] = Absent
      /\ pass'.pc = Past(n).pc /\ pass'.todo = Past(n).todo
      /\ behind' \in [Kind -> SUBSET Name]
      /\ \A kd \in Kind : behind[kd] \subseteq behind'[kd]
      /\ \A kd \in Kind, m \in Name :
           m \in behind'[kd] \ behind[kd] => kd = KindAt(pass.pc) /\ m = n
      /\ \A kd \in Kind, m \in Name :
           live'[kd][m] # live[kd][m] => kd = KindAt(pass.pc) /\ m = n
  BY <1>1, <1>2, <1>3, CallDoes
<1>5. /\ pass.clean /\ pass'.pc = pass.pc /\ live'[KindAt(pass.pc)][n] = Absent
      /\ \A m \in Name \ {n} : pass'.todo[m] = pass.todo[m]
      /\ DropsSoFar
  BY <1>3, <1>4 DEF CInv, Cleanly
<1>6. CASE pass.pc = "dropQuotas"
  <2>1. behind'["lr"] = {}
    BY <1>1, <1>4, <1>5, <1>6 DEF DropsSoFar, KindAt
  <2>2. \A m \in Managed(live'["rq"]) : pass'.todo[m] # Absent
    BY <1>1, <1>4, <1>5, <1>6 DEF DropsSoFar, KindAt, Managed
  <2> QED BY <1>5, <1>6, <2>1, <2>2 DEF Cleanly, DropsSoFar
<1>7. CASE pass.pc = "dropRanges"
  <2>1. Managed(live'["rq"]) = {}
    BY <1>1, <1>4, <1>5, <1>7 DEF DropsSoFar, KindAt, Managed
  <2>2. \A m \in Managed(live'["lr"]) : pass'.todo[m] # Absent
    BY <1>1, <1>4, <1>5, <1>7 DEF DropsSoFar, KindAt, Managed
  <2> QED BY <1>5, <1>7, <2>1, <2>2 DEF Cleanly, DropsSoFar
<1> QED BY <1>2, <1>6, <1>7

LEMMA DropRangesCleanly ==
  ASSUME CInv, DropRanges, pass'.clean
  PROVE  Cleanly'
<1> DEFINE p == [pass EXCEPT !.pc = "dropRanges"]
<1>1. TypeOK /\ CachesFollow /\ "rq" \in Kind /\ "lr" \in Kind
  BY DEF CInv, Follows, Kind
<1>2. pass.pc = "dropQuotas" /\ pass.todo = Empty /\ Proceed("dropRanges")
  BY DEF DropRanges, NoItems
<1>3. /\ UNCHANGED <<live, cache, behind>>
      /\ p \in Pass /\ p.pc = "dropRanges" /\ p.clean = pass.clean
      /\ pass' = List("lr", p)
  BY <1>1, <1>2, ProceedIs
<1> HIDE DEF p
<1>4. cache \in [Kind -> Store] /\ behind \in [Kind -> SUBSET Name]
  BY <1>1 DEF TypeOK
<1>5. /\ pass'.pc = "dropRanges" /\ pass'.clean = pass.clean
      /\ \A n \in Name : pass'.todo[n] =
           IF n \in Managed(cache["lr"]) THEN cache["lr"][n] ELSE Absent
  <2>1. /\ List("lr", p).pc = p.pc /\ List("lr", p).clean = p.clean
        /\ \A n \in Name : List("lr", p).todo[n] =
             IF n \in Managed(cache["lr"]) THEN cache["lr"][n] ELSE Absent
    BY <1>1, <1>3, <1>4, Listed
  <2> QED BY <1>3, <2>1
<1>6. DropsSoFar
  BY <1>5 DEF CInv, Cleanly
<1>7. Managed(live'["rq"]) = {}
  BY <1>2, <1>3, <1>6 DEF DropsSoFar, Empty, Managed
<1>8. \A n \in Managed(live'["lr"]) : pass'.todo[n] # Absent
  BY <1>1, <1>2, <1>3, <1>5, <1>6 DEF DropsSoFar, CachesFollow, Managed
<1> QED BY <1>5, <1>7, <1>8 DEF Cleanly, DropsSoFar

(* The informer catches up in the middle of the pass.                      *)
LEMMA SyncCleanly ==
  ASSUME CInv, NEW kind \in Kind, Sync(kind)
  PROVE  Cleanly'
<1>1. TypeOK /\ "rq" \in Kind /\ "lr" \in Kind
  BY DEF CInv, Follows, Kind
<1>2. /\ UNCHANGED <<live, pass>>
      /\ \A kd \in Kind : \/ cache'[kd] = cache[kd] /\ behind'[kd] = behind[kd]
                          \/ cache'[kd] = live[kd] /\ behind'[kd] = {}
  BY <1>1 DEF Sync, TypeOK
<1>3. ASSUME NEW j, Ahead(j)
      PROVE  Ahead(j)'
  BY <1>1, <1>2, <1>3 DEF Ahead, Done
<1>4. QuotasSoFar => QuotasSoFar'
  <2> SUFFICES ASSUME QuotasSoFar
               PROVE  QuotasSoFar'
    OBVIOUS
  <2>1. behind'["lr"] = {}
    BY <1>1, <1>2 DEF QuotasSoFar
  <2>2. \A j \in 0..(Len(pass'.content.rq) - 1) :
          IF j < pass'.k THEN Done(j)' ELSE Ahead(j)'
    BY <1>2, <1>3 DEF QuotasSoFar, Done
  <2> QED BY <1>2, <2>1, <2>2 DEF QuotasSoFar, Managed, Wanted, Empty
<1>5. RangesSoFar => RangesSoFar'
  BY <1>2 DEF RangesSoFar, Match, Orderly, Managed, Empty
<1>6. DropsSoFar => DropsSoFar'
  BY <1>1, <1>2 DEF DropsSoFar, Managed
<1> QED BY <1>2, <1>4, <1>5, <1>6 DEF CInv, Cleanly

(* The other steps of the pass end it.                                     *)
LEMMA CleanlyReconcile ==
  ASSUME CInv, Reconcile
  PROVE  Cleanly'
<1>1. CASE ~pass'.clean
  BY <1>1 DEF Cleanly
<1>2. CASE pass'.clean
  <2>1. ~ReturnEarly
    BY <1>2, RestIs DEF ReturnEarly, Dequeue
  <2>2. ~Requeue /\ ~Return
    BY <1>2, RestIs DEF Requeue, Return
  <2> QED
    BY <1>2, <2>1, <2>2, CleanupBeginsCleanly, EnforceBeginsCleanly, QuotaItemCleanly,
       RangeItemCleanly, DropItemCleanly, QuotaSpecCleanly, ListRangesCleanly,
       RangeSpecCleanly, DropRangesCleanly
       DEF Reconcile, NamePanic, RangePanic, EndEnforce, EndCleanup
<1> QED BY <1>1, <1>2

LEMMA CleanlyUnchanged ==
  ASSUME CInv, UNCHANGED <<live, cache, behind, pass>>
  PROVE  Cleanly'
BY DEF CInv, Cleanly, QuotasSoFar, RangesSoFar, DropsSoFar, Done, Ahead, Wanted, Match,
       Orderly, Managed, Empty

LEMMA CleanlyOthers ==
  ASSUME CInv, Environment \/ Resync \/ \E kind \in Kind : Sync(kind)
  PROVE  Cleanly'
<1>1. TypeOK
  BY DEF CInv, Follows
<1>2. CASE \/ \E l \in Profile \cup {NoLabel} : Assign(l)
           \/ CloseNamespace
           \/ \E p \in Profile : \E c \in Contents[p] \cup {Absent} : SetProfile(p, c)
           \/ Resync
  BY <1>2, CleanlyUnchanged DEF Assign, CloseNamespace, SetProfile, Resync, objects
<1>3. ASSUME NEW kind \in Kind, NEW n \in Name, NEW o \in UserObject \cup {Absent},
             OthersWrite(kind, n, o)
      PROVE  Cleanly'
  BY <1>1, <1>3, OthersInterfere, InterfereIs DEF Cleanly
<1>4. ASSUME NEW n \in Name, StatusUpdate(n)
      PROVE  Cleanly'
  BY <1>1, <1>4, OthersInterfere, InterfereIs DEF Cleanly
<1>5. CASE Restart
  BY <1>5, RestIs DEF Restart, Cleanly
<1> QED BY <1>2, <1>3, <1>4, <1>5, SyncCleanly DEF Environment

LEMMA CleanlyInit == Init => CInv
BY FollowsInit, RestIs DEF Init, CInv, Cleanly

LEMMA CleanlyNext == CInv /\ [Next]_vars => CInv'
<1> SUFFICES ASSUME CInv, [Next]_vars
             PROVE  CInv'
  OBVIOUS
<1>1. Follows'
  BY FollowsNext DEF CInv
<1>2. CASE UNCHANGED vars
  BY <1>1, <1>2, CleanlyUnchanged DEF CInv, vars, objects
<1>3. CASE Next
  BY <1>1, <1>3, CleanlyReconcile, CleanlyOthers DEF Next, CInv
<1> QED BY <1>2, <1>3

LEMMA AlwaysCleanly == Spec => []CInv
<1> QED BY CleanlyInit, CleanlyNext, PTL DEF Spec

(* A pass that nothing disturbed, over a namespace in which the names of   *)
(* the profile hold no quota of another label, leaves the ResourceQuotas   *)
(* of the profile under the names of their specs, none of another profile  *)
(* and none with an index beyond the list; other labelled ones have the    *)
(* spec of their index, or no index.                                       *)
THEOREM CleanPassesEnforce == Spec => CleanPassEnforces
<1>1. CInv /\ [Next]_vars
        => [EndEnforce /\ pass.clean
            => Match(live["rq"], pass.target, pass.content.rq)]_vars
  BY DEF CInv, Cleanly, RangesSoFar, EndEnforce, NoItems
<1> QED BY <1>1, AlwaysCleanly, PTL DEF Spec, CleanPassEnforces

(* A pass over a Namespace without the profile label that nothing          *)
(* disturbed leaves no managed object of either kind in it.                *)
THEOREM CleanPassesClean == Spec => CleanPassCleans
<1>1. ASSUME CInv, EndCleanup, pass.clean
      PROVE  \A kind \in Kind : Managed(live[kind]) = {}
  <2>1. pass.pc = "dropRanges" /\ \A n \in Name : pass.todo[n] = Absent
    BY <1>1 DEF EndCleanup, NoItems, Empty
  <2> QED BY <1>1, <2>1 DEF CInv, Cleanly, DropsSoFar, Managed, Kind
<1>2. CInv /\ [Next]_vars
        => [EndCleanup /\ pass.clean => \A kind \in Kind : Managed(live[kind]) = {}]_vars
  BY <1>1
<1> QED BY <1>2, AlwaysCleanly, PTL DEF Spec, CleanPassCleans

(* A pass that nothing disturbed and that found no LimitRange leaves       *)
(* exactly those of its profile, whatever the number of its ResourceQuota  *)
(* specs, which bounds the loop over the listed LimitRanges.               *)
THEOREM CleanPassesCreateRanges == Spec => CleanPassCreatesRanges
<1>1. ASSUME CInv, EndEnforce, pass.clean, pass.blank
      PROVE  Match(live["lr"], pass.target, pass.content.lr)
  <2>1. /\ TypeOK /\ RangesSoFar /\ pass.target \in Profile /\ pass.content.lr \in Specs
        /\ Len(pass.content.lr) \in 0..MaxSpecs /\ pass.k = Len(pass.content.lr)
    BY <1>1, Enforcing, SpecsAre
       DEF CInv, Follows, Cleanly, EndEnforce, NoItems, RangeSpecs
  <2>2. \A j \in 0..(Len(pass.content.lr) - 1) :
          live["lr"][NameOf(pass.target, j)]
            = [label |-> pass.target, spec |-> pass.content.lr[j + 1]]
    BY <1>1, <2>1 DEF RangesSoFar
  <2>3. ASSUME NEW j \in 0..(Len(pass.content.lr) - 1)
        PROVE  /\ live["lr"][NameOf(pass.target, j)] # Absent
               /\ live["lr"][NameOf(pass.target, j)].spec = pass.content.lr[j + 1]
    <3>1. pass.content.lr[j + 1] \in Value
      BY <2>1, <2>3, SpecsAre
    <3>2. live["lr"][NameOf(pass.target, j)]
            = [label |-> pass.target, spec |-> pass.content.lr[j + 1]]
      BY <2>2, <2>3
    <3>3. [label |-> pass.target, spec |-> pass.content.lr[j + 1]] \in Object
      BY <2>1, <3>1 DEF Object, ObjectLabel
    <3> QED BY <3>2, <3>3, ReconcilerAssumption
  <2>4. ASSUME NEW n \in Managed(live["lr"])
        PROVE  /\ live["lr"][n].label = pass.target
               /\ IndexOf(n) \in 0..(Len(pass.content.lr) - 1)
               /\ live["lr"][n].spec = pass.content.lr[IndexOf(n) + 1]
    <3>1. PICK j \in 0..(Len(pass.content.lr) - 1) : n = NameOf(pass.target, j)
      BY <1>1, <2>1 DEF RangesSoFar, Managed
    <3>2. j \in 0..(MaxSpecs - 1)
      BY <2>1, ReconcilerAssumption
    <3>3. IndexOf(NameOf(pass.target, j)) = j
      BY <2>1, <3>2, NamesOfSpecs
    <3>4. live["lr"][n] = [label |-> pass.target, spec |-> pass.content.lr[j + 1]]
      BY <2>2, <3>1
    <3>5. IndexOf(n) = j
      BY <3>1, <3>3
    <3> QED BY <3>4, <3>5
  <2> QED BY <2>3, <2>4 DEF Match, Orderly
<1>2. CInv /\ [Next]_vars
        => [EndEnforce /\ pass.clean /\ pass.blank
            => Match(live["lr"], pass.target, pass.content.lr)]_vars
  BY <1>1
<1> QED BY <1>2, AlwaysCleanly, PTL DEF Spec, CleanPassCreatesRanges
=============================================================================
