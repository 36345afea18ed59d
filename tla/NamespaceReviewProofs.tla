----------------------- MODULE NamespaceReviewProofs -----------------------
(***************************************************************************)
(* Facts about a review in one step.  The loop is a recursive function, so *)
(* they rest on an induction over the items it has handled.  The induction *)
(* is by the least number of a set, for a set and not for a predicate.     *)
(***************************************************************************)
EXTENDS NamespaceReview, FiniteSetTheorems, WellFoundedInduction, TLAPS

-----------------------------------------------------------------------------
(* Induction.                                                              *)

(* A set of natural numbers that is not empty has a least element.         *)
LEMMA Least ==
  ASSUME NEW S, S \subseteq Nat, S # {}
  PROVE  \E m \in S : \A k \in S : m <= k
<1> DEFINE R == {ss \in Nat \X Nat : ss[1] < ss[2]}
<1>1. OpToRel(<, Nat) = R
  BY Zenon DEF OpToRel
<1>2. IsWellFoundedOn(R, Nat)
  BY Zenon, <1>1, NatLessThanWellFounded
<1> HIDE DEF R
<1>3. PICK x \in S : \A y \in S : ~(<<y, x>> \in R)
  BY <1>2, WFMin
<1>4. ASSUME NEW y \in S, y < x PROVE FALSE
  <2>1. <<y, x>> \in Nat \X Nat /\ <<y, x>>[1] = y /\ <<y, x>>[2] = x
    OBVIOUS
  <2>2. <<y, x>> \in R
    BY Zenon, <1>4, <2>1 DEF R
  <2> QED BY <1>3, <2>2
<1> QED BY <1>4

(* A set that has 0, and the next number with every one below n, has all   *)
(* numbers up to n.                                                        *)
LEMMA Induction ==
  ASSUME NEW n \in Nat, NEW T,
         0 \in T, \A j \in 0..n : j \in T /\ j < n => j + 1 \in T
  PROVE  0..n \subseteq T
<1> DEFINE S == 0..n \ T
<1>1. SUFFICES ASSUME S # {} PROVE FALSE
  OBVIOUS
<1>2. S \subseteq 0..n /\ S \subseteq Nat
  OBVIOUS
<1> HIDE DEF S
<1>3. PICK m \in S : \A k \in S : m <= k
  BY <1>1, <1>2, Least
<1>4. m \in 0..n /\ m # 0 /\ m \notin T
  BY <1>2 DEF S
<1>5. m - 1 \in 0..n /\ m - 1 \notin S
  BY <1>3, <1>4
<1>6. m - 1 \in T
  BY <1>5 DEF S
<1> QED BY <1>4, <1>5, <1>6

-----------------------------------------------------------------------------
(* The loop.                                                               *)

(* f is where the loop is after each of the first n items of s.            *)
IsLoop(f, n, store, name, labels, profile, s) ==
  f = [j \in 0..n |-> IF j = 0 THEN Start(profile)
                      ELSE Iterate(store, name, labels, f[j - 1], s[j])]

(* There is such a function, so that Loop is one.                          *)
LEMMA LoopExists ==
  ASSUME NEW n \in Nat, NEW store, NEW name, NEW labels, NEW profile, NEW s
  PROVE  \E f : IsLoop(f, n, store, name, labels, profile, s)
<1> DEFINE P(f, k) == IsLoop(f, k, store, name, labels, profile, s)
           T == {k \in 0..n : \E f : P(f, k)}
<1>1. 0 \in T
  <2> DEFINE f == [j \in 0..0 |-> Start(profile)]
  <2>1. P(f, 0)
    BY DEF IsLoop
  <2> QED BY <2>1
<1>2. ASSUME NEW k \in 0..n, k \in T, k < n PROVE k + 1 \in T
  <2>1. PICK g : P(g, k)
    BY <1>2
  <2> DEFINE f == [j \in 0..k + 1 |->
                     IF j <= k THEN g[j]
                     ELSE Iterate(store, name, labels, g[k], s[k + 1])]
  <2>2. \A j \in 0..k : f[j] = g[j]
    OBVIOUS
  <2>3. \A j \in 0..k : g[j] = IF j = 0 THEN Start(profile)
                               ELSE Iterate(store, name, labels, g[j - 1], s[j])
    BY <2>1 DEF IsLoop
  <2>4. \A j \in 0..k + 1 : f[j] = IF j = 0 THEN Start(profile)
                               ELSE Iterate(store, name, labels, f[j - 1], s[j])
    <3> TAKE j \in 0..k + 1
    <3>1. CASE j \in 0..k
      BY <2>2, <2>3, <3>1
    <3>2. CASE j = k + 1
      BY <2>2, <3>2
    <3> QED BY <3>1, <3>2
  <2> HIDE DEF f
  <2>5. f = [j \in 0..k + 1 |-> f[j]]
    BY DEF f
  <2>6. f = [j \in 0..k + 1 |-> IF j = 0 THEN Start(profile)
                               ELSE Iterate(store, name, labels, f[j - 1], s[j])]
    BY <2>4, <2>5
  <2>7. P(f, k + 1)
    BY <2>6 DEF IsLoop
  <2>8. k + 1 \in 0..n
    BY <1>2
  <2> QED BY <2>7, <2>8
<1> HIDE DEF T
<1>3. n \in T
  BY <1>1, <1>2, Induction
<1> QED BY <1>3 DEF T

LEMMA LoopIs ==
  ASSUME NEW store, NEW name, NEW labels, NEW profile, NEW s, Len(s) \in Nat
  PROVE  LET L == Loop(store, name, labels, profile, s)
         IN /\ L[0] = Start(profile)
            /\ \A j \in 1..Len(s) :
                 L[j] = Iterate(store, name, labels, L[j - 1], s[j])
<1> DEFINE L == Loop(store, name, labels, profile, s)
<1>1. L = CHOOSE f : IsLoop(f, Len(s), store, name, labels, profile, s)
  BY DEF Loop, IsLoop
<1>2. IsLoop(L, Len(s), store, name, labels, profile, s)
  BY <1>1, LoopExists
<1> HIDE DEF L
<1>3. L = [j \in 0..Len(s) |-> IF j = 0 THEN Start(profile)
                      ELSE Iterate(store, name, labels, L[j - 1], s[j])]
  BY <1>2 DEF IsLoop
<1>4. L[0] = Start(profile)
  BY <1>3
<1>5. ASSUME NEW j \in 1..Len(s)
      PROVE  L[j] = Iterate(store, name, labels, L[j - 1], s[j])
  BY <1>3
<1> QED BY <1>4, <1>5 DEF L

(* What holds before the loop, and after an iteration when it held before, *)
(* holds after it.                                                         *)
LEMMA LoopKeeps ==
  ASSUME NEW store, NEW name, NEW labels, NEW profile, NEW s, Len(s) \in Nat,
         NEW T, Start(profile) \in T,
         \A j \in 1..Len(s) : \A at \in T :
           Iterate(store, name, labels, at, s[j]) \in T
  PROVE  Loop(store, name, labels, profile, s)[Len(s)] \in T
<1> DEFINE L == Loop(store, name, labels, profile, s)
           S == {j \in 0..Len(s) : L[j] \in T}
<1>1. 0 \in S
  BY LoopIs
<1>2. ASSUME NEW j \in 0..Len(s), j \in S, j < Len(s) PROVE j + 1 \in S
  <2>1. j + 1 \in 1..Len(s) /\ (j + 1) - 1 = j
    BY <1>2
  <2>2. L[j + 1] = Iterate(store, name, labels, L[j], s[j + 1])
    BY <2>1, LoopIs
  <2> QED BY <1>2, <2>1, <2>2
<1> HIDE DEF S
<1>3. 0..Len(s) \subseteq S
  BY <1>1, <1>2, Induction
<1> QED BY <1>3 DEF S
-----------------------------------------------------------------------------
(* The lists a review may work through.                                    *)

LEMMA OrdersAreSeqs ==
  ASSUME NEW store, NEW s \in Orders(store)
  PROVE  /\ Len(s) \in Nat
         /\ s \in [1..Len(s) -> StoredIn(store)]
<1>1. StoredIn(store) \subseteq Profile
  BY DEF StoredIn
<1>2. IsFiniteSet(StoredIn(store))
  BY <1>1, ProfileAssumption, FS_Subset
<1>3. Cardinality(StoredIn(store)) \in Nat
  BY <1>2, FS_CardinalityType
<1>4. s \in [1..Cardinality(StoredIn(store)) -> StoredIn(store)]
  BY DEF Orders
<1>5. Len(s) = Cardinality(StoredIn(store))
  BY <1>3, <1>4
<1> QED BY <1>3, <1>4, <1>5

(* A label that reads back is its own key.                                 *)
LEMMA FoundHolder ==
  ASSUME NEW store, NEW id, Found(store, id)
  PROVE  SplitProfileID(id) = id /\ id \in Profile
BY ProfileAssumption DEF Found, SplitProfileID

-----------------------------------------------------------------------------
(* What a review answers.                                                  *)

(* Whatever can be said of the submitted label and of every stored profile *)
(* that is not being deleted can be said of the label while the loop runs, *)
(* for none is written that is not one of these.                           *)
LEMMA AnswersWithin ==
  ASSUME NEW store, NEW name, NEW labels, NEW profile, NEW V,
         NoLabel \in V, profile \in V,
         \A p \in StoredIn(store) : ~store[p].deleting => p \in V
  PROVE  Reviews(store, name, labels, profile) \subseteq V \cup {Absent}
<1> DEFINE T == [label : V, matched : BOOLEAN,
                 verdict : {"loop", "admitted", "denied"}]
<1>1. Start(profile) \in T
  BY DEF Start
<1>2. ASSUME NEW p \in StoredIn(store), NEW at \in T
      PROVE  Iterate(store, name, labels, at, p) \in T
  <2>1. CASE \/ at.verdict # "loop"
             \/ store[p].deleting
             \/ ~(\/ Names(store[p], name) \/ Labels(store[p], labels)
                  \/ EmptySelector(store[p]))
    BY <2>1 DEF Iterate
  <2>2. CASE ~store[p].deleting
    <3>1. p \in V
      BY <2>2
    <3>2. Found(store, at.label) => SplitProfileID(at.label) \in V
      BY FoundHolder
    <3> QED BY <3>1, <3>2 DEF Iterate
  <2> QED BY <2>1, <2>2
<1> HIDE DEF T
<1>3. ASSUME NEW s \in Orders(store)
      PROVE  Reply(Loop(store, name, labels, profile, s)[Len(s)]) \in V \cup {Absent}
  <2>1. Len(s) \in Nat /\ \A j \in 1..Len(s) : s[j] \in StoredIn(store)
    BY OrdersAreSeqs
  <2>2. Loop(store, name, labels, profile, s)[Len(s)] \in T
    BY <1>1, <1>2, <2>1, LoopKeeps
  <2> QED BY <2>2 DEF Reply, T
<1> QED BY <1>3 DEF Reviews

(* A review answers with a label, or it refuses.                           *)
LEMMA AnswersAreLabels ==
  ASSUME NEW store, NEW name, NEW labels, NEW profile \in ProfileLabel
  PROVE  Reviews(store, name, labels, profile) \subseteq ProfileLabel \cup {Absent}
BY AnswersWithin DEF ProfileLabel, StoredIn

(* A profile that is being deleted, or gone, gets no Namespace that has    *)
(* not submitted its label.                                                *)
LEMMA DeletedGetsNone ==
  ASSUME NEW store, NEW name, NEW labels, NEW profile, NEW p \in Profile,
         store[p] = Absent \/ store[p].deleting,
         SplitProfileID(profile) # p,
         NEW answer \in Reviews(store, name, labels, profile), answer # Absent
  PROVE  SplitProfileID(answer) # p
<1> DEFINE V == {id \in {profile, NoLabel} \cup StoredIn(store) :
                   SplitProfileID(id) # p}
<1>1. NoLabel \in V
  BY ProfileAssumption DEF SplitProfileID
<1>2. ASSUME NEW q \in StoredIn(store), ~store[q].deleting PROVE q \in V
  <2>1. q # p
    BY <1>2 DEF StoredIn
  <2> QED BY <1>1, <2>1 DEF SplitProfileID
<1> HIDE DEF V
<1>3. profile \in V
  BY DEF V
<1>4. answer \in V
  BY <1>1, <1>2, <1>3, AnswersWithin
<1> QED BY <1>4 DEF V
=============================================================================
