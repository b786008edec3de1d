-------------------------- MODULE DerivationProofs --------------------------
(***************************************************************************)
(* What the conclusions of Derivations are for every input: the latest of  *)
(* any finite number of observations, a history of any length, a support   *)
(* of any size, the flags of any number of assertions.                     *)
(*                                                                         *)
(* The theorems of the library about finite sets and least elements stand  *)
(* in for induction: a counterexample of least size is one element larger  *)
(* than one that is none.                                                  *)
(***************************************************************************)
EXTENDS Derivations, FiniteSetTheorems, TLAPS

-----------------------------------------------------------------------------
(* Numbers *)

LEMMA Least ==
  ASSUME NEW S \in SUBSET Nat, S # {}
  PROVE  \E m \in S : \A k \in S : m <= k
<1>1. PICK R : R = OpToRel(<, Nat)
  OBVIOUS
<1>2. \A x, y \in Nat : <<x, y>> \in R <=> x < y
  BY <1>1 DEF OpToRel
<1>3. IsWellFoundedOn(R, Nat)
  BY <1>1, NatLessThanWellFounded
<1>4. PICK m \in S : \A k \in S : ~ (<<k, m>> \in R)
  BY <1>3, WFMin
<1>5. \A k \in S : ~ (k < m)
  BY <1>2, <1>4
<1> QED
  BY <1>5

LEMMA Greatest ==
  ASSUME NEW n \in Nat, NEW S \in SUBSET (0 .. n), S # {}
  PROVE  \E m \in S : \A k \in S : m >= k
<1> DEFINE Bounds == {b \in Nat : \A k \in S : k <= b}
<1>1. Bounds # {}
  BY DEF Bounds
<1>2. PICK m \in Bounds : \A b \in Bounds : m <= b
  BY <1>1, Least
<1>3. m \in S
  <2> SUFFICES ASSUME m \notin S PROVE FALSE
    OBVIOUS
  <2>1. m \in Nat /\ \A k \in S : k \in Nat /\ k <= m - 1
    OBVIOUS
  <2>2. m - 1 \in Nat
    <3>1. PICK k \in S : TRUE
      OBVIOUS
    <3> HIDE DEF Bounds
    <3> QED
      BY <2>1, <3>1
  <2>3. m - 1 \in Bounds
    BY <2>1, <2>2
  <2> HIDE DEF Bounds
  <2> QED
    BY <1>2, <2>1, <2>3
<1> QED
  BY <1>2, <1>3
-----------------------------------------------------------------------------
(* Observations *)

\* One more observation leaves a latest one.
LEMMA LatestOfMore ==
  ASSUME NEW S, NEW x \in S, NEW o \in S,
         \A p \in S : p.at \in Nat /\ p.id \in Nat,
         \A p \in S \ {x} : Later(o, p)
  PROVE  \E l \in S : \A p \in S : Later(l, p)
<1>1. CASE Later(o, x)
  BY <1>1
<1>2. CASE ~Later(o, x)
  <2>1. \A p \in S : Later(x, p)
    BY <1>2 DEF Later
  <2> QED
    BY <2>1
<1> QED
  BY <1>1, <1>2

\* derive_current_scope has an observation to take the scope of.
LEMMA FiniteHasLatest ==
  ASSUME NEW S, IsFiniteSet(S), S # {}, \A o \in S : o.at \in Nat /\ o.id \in Nat
  PROVE  \E o \in S : \A p \in S : Later(o, p)
<1> DEFINE Bad == {T \in SUBSET S : T # {} /\ \A o \in T : \E p \in T : ~Later(o, p)}
           Sizes == {Cardinality(T) : T \in Bad}
<1>1. \A T \in SUBSET S : IsFiniteSet(T) /\ Cardinality(T) \in Nat
  BY FS_Subset, FS_CardinalityType
<1>2. CASE Bad = {}
  BY <1>2
<1>3. CASE Bad # {}
  <2>1. Sizes \in SUBSET Nat /\ Sizes # {}
    BY <1>1, <1>3
  <2>2. PICK T \in Bad : \A U \in Bad : Cardinality(T) <= Cardinality(U)
    <3>1. PICK n \in Sizes : \A k \in Sizes : n <= k
      <4> HIDE DEF Sizes
      <4> QED
        BY <2>1, Least
    <3>2. PICK T \in Bad : n = Cardinality(T)
      OBVIOUS
    <3> HIDE DEF Bad
    <3>3. \A U \in Bad : Cardinality(T) <= Cardinality(U)
      BY <3>1, <3>2
    <3> QED
      BY <3>3
  <2>3. PICK x \in T : TRUE
    OBVIOUS
  <2>4. Cardinality(T \ {x}) = Cardinality(T) - 1
    BY <1>1, <2>3, FS_RemoveElement
  <2>5. T \ {x} \notin Bad
    <3>1. Cardinality(T) \in Nat
      BY <1>1
    <3> HIDE DEF Bad
    <3> QED
      BY <2>2, <2>4, <3>1
  <2>6. PICK o \in T : \A p \in T \ {x} : Later(o, p)
    BY <2>3, <2>5
  <2>7. \A p \in T : p.at \in Nat /\ p.id \in Nat
    OBVIOUS
  <2> HIDE DEF Bad
  <2>8. \E l \in T : \A p \in T : Later(l, p)
    BY <2>3, <2>6, <2>7, LatestOfMore
  <2> QED
    BY <2>8 DEF Bad
<1> QED
  BY <1>2, <1>3

\* derive_current_scope: the scope of the latest observation, in whatever order they came.
THEOREM CurrentIsLatest ==
  ASSUME NEW S, IsFiniteSet(S), S # {}, \A o \in S : o.at \in Nat /\ o.id \in Nat
  PROVE  \E o \in S : o.scope = Current(S) /\ \A p \in S : Later(o, p)
<1> DEFINE latest == CHOOSE o \in S : \A p \in S : Later(o, p)
<1>1. latest \in S /\ \A p \in S : Later(latest, p)
  BY FiniteHasLatest
<1>2. Current(S) = latest.scope
  BY DEF Current
<1> HIDE DEF latest
<1> QED
  BY <1>1, <1>2
-----------------------------------------------------------------------------
(* Support *)

Rank(confidence) == CASE confidence = "LOW" -> 0 [] confidence = "MEDIUM" -> 1 [] OTHER -> 2

\* derive_support_confidence: with first-hand evidence, nothing raises confidence but a new look.
THEOREM SupportDecays ==
  ASSUME NEW items, NEW contested \in BOOLEAN, NEW old \in Nat, NEW new \in Nat, new < old,
         \E e \in items : Primary(e) \/ Secondary(e)
  PROVE  Rank(Support(items, Freshness(old), contested))
           <= Rank(Support(items, Freshness(new), contested))
<1>1. items # {}
  OBVIOUS
<1>2. CASE contested
  BY <1>2 DEF Support, Rank
<1>3. CASE ~contested /\ old > 90
  <2>1. Support(items, Freshness(old), contested) = "LOW"
    BY <1>3 DEF Support, Freshness
  <2> QED
    BY <2>1 DEF Support, Rank
<1>4. CASE ~contested /\ old <= 90 /\ old > 30
  <2>1. Support(items, Freshness(old), contested) = "MEDIUM"
    BY <1>1, <1>4 DEF Support, Freshness
  <2>2. Support(items, Freshness(new), contested) \in {"MEDIUM", "HIGH"}
    BY <1>1, <1>4 DEF Support, Freshness
  <2> QED
    BY <2>1, <2>2 DEF Rank
<1>5. CASE ~contested /\ old <= 30
  BY <1>5 DEF Support, Freshness, Rank
<1> QED
  BY <1>2, <1>3, <1>4, <1>5

-----------------------------------------------------------------------------
(* Lifecycle *)

\* How far an availability has come; UNKNOWN is the only state that an event may repeat.
Stage(state) ==
  CASE state = "UNKNOWN" -> 0 [] state = "PRIVATE_PREVIEW" -> 1
    [] state = "LIMITED_PUBLIC_PREVIEW" -> 2 [] state = "PUBLIC_PREVIEW" -> 3
    [] state = "GA" -> 4 [] OTHER -> 5

\* What two events of one entity are to each other, however many came between them.
Succeeds(event, previous) ==
  /\ previous.retrieved <= event.retrieved
  /\ Stage(previous.state) <= Stage(event.state)
  /\ previous.state # "DEPRECATED"
  /\ previous.state = event.state => event.state = "UNKNOWN"

IsDatedState(event) == event.state \in AvailabilityState /\ event.retrieved \in Nat

LEMMA FollowsIsSucceeds ==
  ASSUME NEW a, NEW b, IsDatedState(a), IsDatedState(b), Follows(b, a)
  PROVE  Succeeds(b, a)
BY DEF IsDatedState, AvailabilityState, Follows, Allowed, Succeeds, Stage

LEMMA SucceedsIsTransitive ==
  ASSUME NEW a, NEW b, NEW c, IsDatedState(a), IsDatedState(b), IsDatedState(c),
         Succeeds(b, a), Succeeds(c, b)
  PROVE  Succeeds(c, a)
BY DEF IsDatedState, AvailabilityState, Succeeds, Stage

Chronological(history) ==
  \A i, j \in DOMAIN history : i < j => Succeeds(history[j], history[i])

\* validate_transition compares an event with the last one only: that is enough for all.
THEOREM TransitionsAreChronological ==
  ASSUME NEW n \in Nat, NEW history, DOMAIN history \subseteq 1 .. n, Chronological(history),
         \A i \in DOMAIN history : IsDatedState(history[i]),
         NEW event, IsDatedState(event), ValidTransition(history, event)
  PROVE  \A i \in DOMAIN history : Succeeds(event, history[i])
<1> SUFFICES ASSUME NEW i \in DOMAIN history PROVE Succeeds(event, history[i])
  OBVIOUS
<1> DEFINE l == CHOOSE k \in DOMAIN history : \A j \in DOMAIN history : k >= j
<1>1. l \in DOMAIN history /\ \A j \in DOMAIN history : l >= j
  <2>1. \E k \in DOMAIN history : \A j \in DOMAIN history : k >= j
    <3>1. DOMAIN history \in SUBSET (0 .. n)
      OBVIOUS
    <3> QED
      BY <3>1, Greatest
  <2> QED
    BY <2>1
<1>2. Follows(event, history[l])
  BY DEF ValidTransition, LastEvent
<1> HIDE DEF l
<1>3. Succeeds(event, history[l])
  BY <1>1, <1>2, FollowsIsSucceeds
<1>4. CASE i = l
  BY <1>3, <1>4
<1>5. CASE i # l
  <2>1. i < l
    BY <1>1, <1>5
  <2>2. Succeeds(history[l], history[i])
    BY <1>1, <2>1 DEF Chronological
  <2> QED
    BY <1>1, <1>3, <2>2, SucceedsIsTransitive
<1> QED
  BY <1>4, <1>5

\* preview_to_ga_velocity subtracts the first preview from the only GA, which is later.
THEOREM VelocityIsPositive ==
  ASSUME NEW n \in Nat, NEW history, DOMAIN history \subseteq 1 .. n, Chronological(history),
         HasVelocity(history)
  PROVE  Dated(history, {"GA"}) = {LastGa(history)} /\ FirstPreview(history) < LastGa(history)
<1> DEFINE gas == Dated(history, {"GA"})
           previews == Dated(history, Preview)
<1>1. gas # {} /\ previews # {}
  BY DEF HasVelocity
<1>2. gas \in SUBSET (1 .. n) /\ previews \in SUBSET (1 .. n)
      /\ gas \subseteq DOMAIN history /\ previews \subseteq DOMAIN history
  BY DEF Dated
<1>3. \A i \in gas : history[i].state = "GA"
  BY DEF Dated
<1>4. \A i \in previews : history[i].state \in Preview
  BY DEF Dated
<1> HIDE DEF gas, previews
<1>5. PICK g \in gas : TRUE
  BY <1>1
<1>6. gas = {g}
  <2> SUFFICES ASSUME NEW i \in gas, i # g PROVE FALSE
    BY <1>5
  <2>1. i < g \/ g < i
    BY <1>2, <1>5
  <2>2. Succeeds(history[g], history[i]) \/ Succeeds(history[i], history[g])
    BY <1>2, <1>5, <2>1 DEF Chronological
  <2> QED
    BY <1>3, <1>5, <2>2 DEF Succeeds
<1>7. LastGa(history) = g
  <2>1. LastGa(history) = CHOOSE i \in gas : \A j \in gas : i >= j
    BY DEF LastGa, gas
  <2>2. g >= g
    BY <1>2, <1>5
  <2> QED
    BY <1>6, <2>1, <2>2
<1>8. FirstPreview(history) \in previews
  <2>1. FirstPreview(history) = CHOOSE i \in previews : \A j \in previews : i <= j
    BY DEF FirstPreview, previews
  <2>2. previews \in SUBSET Nat
    BY <1>2
  <2>3. \E i \in previews : \A j \in previews : i <= j
    BY <1>1, <2>2, Least
  <2> QED
    BY <2>1, <2>3
<1>9. FirstPreview(history) < g
  <2> DEFINE f == FirstPreview(history)
  <2>1. f \in previews
    BY <1>8
  <2> HIDE DEF f
  <2>2. history[f].state \in Preview /\ history[g].state = "GA"
    BY <1>3, <1>4, <1>5, <2>1
  <2>3. f # g
    BY <2>2 DEF Preview
  <2>4. ~ (g < f)
    <3> SUFFICES ASSUME g < f PROVE FALSE
      OBVIOUS
    <3>1. Succeeds(history[f], history[g])
      BY <1>2, <1>5, <2>1 DEF Chronological
    <3> QED
      BY <2>2, <3>1 DEF Succeeds, Stage, Preview
  <2>5. f < g
    BY <1>2, <1>5, <2>1, <2>3, <2>4
  <2> QED
    BY <2>5 DEF f
<1> QED
  BY <1>6, <1>7, <1>9 DEF gas
-----------------------------------------------------------------------------
(* Contradictions *)

Rules == {"STATE", "AVAILABILITY", "BENCHMARK", "AUTONOMY"}

IsPlace(f) ==
  /\ f.rule \in Rules /\ f.left \in Nat /\ f.right \in Nat
  /\ f.right = 0 <=> f.rule = "AUTONOMY"

LEMMA FoundArePlaces ==
  ASSUME NEW T, NEW items \in Seq(T)
  PROVE  /\ \A f \in Found(items) : IsPlace(f)
         /\ Found(items) \subseteq
              [rule : Rules, left : 1 .. Len(items), right : 0 .. Len(items)]
<1>1. DOMAIN items = 1 .. Len(items) /\ Len(items) \in Nat
  OBVIOUS
<1>2. \A f \in Found(items) :
        /\ f \in [rule : Rules, left : 1 .. Len(items), right : 0 .. Len(items)]
        /\ f.right = 0 <=> f.rule = "AUTONOMY"
  BY <1>1 DEF Found, Rules
<1> QED
  BY <1>1, <1>2 DEF IsPlace

\* The loops of flag_contradictions come to their flags in a strict order.
LEMMA EarlierIsStrictOrder ==
  ASSUME NEW f, NEW g, NEW h, IsPlace(f), IsPlace(g), IsPlace(h)
  PROVE  /\ ~Earlier(f, f)
         /\ Earlier(f, g) /\ Earlier(g, h) => Earlier(f, h)
<1>1. RuleRank(f) \in Nat /\ RuleRank(g) \in Nat /\ RuleRank(h) \in Nat
  BY DEF IsPlace, Rules, RuleRank
<1>2. ~Earlier(f, f)
  BY <1>1 DEF IsPlace, Earlier
<1>3. ASSUME Earlier(f, g), Earlier(g, h) PROVE Earlier(f, h)
  BY <1>1, <1>3 DEF IsPlace, Earlier
<1> QED
  BY <1>2, <1>3

LEMMA EarlierIsTotal ==
  ASSUME NEW f, NEW g, IsPlace(f), IsPlace(g),
         f.rule # g.rule \/ f.left # g.left \/ f.right # g.right
  PROVE  Earlier(f, g) \/ Earlier(g, f)
<1>1. f.left = g.left /\ f.right = g.right => RuleRank(f) < RuleRank(g) \/ RuleRank(g) < RuleRank(f)
  BY DEF IsPlace, Rules, RuleRank
<1> QED
  BY <1>1 DEF IsPlace, Earlier

LEMMA FoundIsFinite ==
  ASSUME NEW T, NEW items \in Seq(T)
  PROVE  IsFiniteSet(Found(items))
<1> DEFINE n == Len(items)
           lefts == 1 .. n
           rights == 0 .. n
           places == [rule : Rules, left : lefts, right : rights]
           grid == Rules \X (lefts \X rights)
           place == [t \in grid |-> [rule |-> t[1], left |-> t[2][1], right |-> t[2][2]]]
<1>1. n \in Nat
  OBVIOUS
<1>2. IsFiniteSet(Rules)
  <2>1. Rules = ((({} \cup {"STATE"}) \cup {"AVAILABILITY"}) \cup {"BENCHMARK"}) \cup {"AUTONOMY"}
    BY DEF Rules
  <2> QED
    BY <2>1, FS_EmptySet, FS_AddElement
<1>3. IsFiniteSet(lefts) /\ IsFiniteSet(rights)
  BY <1>1, FS_Interval
<1> HIDE DEF lefts, rights
<1>4. IsFiniteSet(grid)
  BY <1>2, <1>3, FS_Product
<1>5. place \in Surjection(grid, places)
  <2>1. place \in [grid -> places]
    OBVIOUS
  <2>2. \A f \in places : \E t \in grid : place[t] = f
    <3> TAKE f \in places
    <3>1. <<f.rule, <<f.left, f.right>>>> \in grid
      OBVIOUS
    <3>2. place[<<f.rule, <<f.left, f.right>>>>] = f
      BY <3>1
    <3> QED
      BY <3>1, <3>2
  <2> QED
    BY <2>1, <2>2 DEF Surjection
<1> HIDE DEF grid, place, places
<1>6. IsFiniteSet(places)
  BY <1>4, <1>5, FS_Surjection
<1>7. Found(items) \in SUBSET places
  BY FoundArePlaces DEF places, lefts, rights
<1> QED
  BY <1>6, <1>7, FS_Subset

\* A flag has more flags before it than a flag before it has.
LEMMA EarlierIsFewer ==
  ASSUME NEW T, NEW items \in Seq(T), NEW f \in Found(items), NEW h \in Found(items), Earlier(f, h)
  PROVE  Cardinality({g \in Found(items) : Earlier(g, f)})
           # Cardinality({g \in Found(items) : Earlier(g, h)})
<1> DEFINE before == {g \in Found(items) : Earlier(g, f)}
           later == {g \in Found(items) : Earlier(g, h)}
<1>1. \A g \in Found(items) : IsPlace(g)
  BY FoundArePlaces
<1>2. before \in SUBSET later
  BY <1>1, EarlierIsStrictOrder
<1>3. f \in later /\ f \notin before
  BY <1>1, EarlierIsStrictOrder
<1>4. IsFiniteSet(later)
  BY FoundIsFinite, FS_Subset
<1> HIDE DEF before, later
<1>5. Cardinality(before) # Cardinality(later)
  BY <1>2, <1>3, <1>4, FS_Subset
<1> QED
  BY <1>5 DEF before, later

\* flag_contradictions numbers its flags as it finds them: in one run no two have one id.
THEOREM FlagIdsDiffer ==
  ASSUME NEW T, NEW items \in Seq(T), NEW f \in Found(items), NEW h \in Found(items), f # h
  PROVE  FlagId(items, f) # FlagId(items, h)
<1> DEFINE n(g) == Cardinality({x \in Found(items) : Earlier(x, g)})
<1>1. \A g \in Found(items) : n(g) \in Nat
  BY FoundIsFinite, FS_Subset, FS_CardinalityType
<1>2. IsPlace(f) /\ IsPlace(h)
  BY FoundArePlaces
<1>3. f.rule # h.rule \/ f.left # h.left \/ f.right # h.right
  <2>1. \A x, y \in [rule : Rules, left : 1 .. Len(items), right : 0 .. Len(items)] :
          x.rule = y.rule /\ x.left = y.left /\ x.right = y.right => x = y
    OBVIOUS
  <2> QED
    BY <2>1, FoundArePlaces
<1>4. n(f) # n(h)
  BY <1>2, <1>3, EarlierIsTotal, EarlierIsFewer
<1>5. FlagId(items, f) = <<f.rule, 1 + n(f)>> /\ FlagId(items, h) = <<h.rule, 1 + n(h)>>
  BY DEF FlagId
<1> HIDE DEF n
<1>6. 1 + n(f) # 1 + n(h)
  BY <1>1, <1>4
<1> QED
  BY <1>5, <1>6
=============================================================================
