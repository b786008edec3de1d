---------------------------- MODULE Derivations ----------------------------
(***************************************************************************)
(* What the program concludes from the facts of its ledger, as operators:  *)
(* derivations.py, lifecycle/state_machine.py, contradictions/rules.py,    *)
(* evidence/validation.py and trend_primitives/queries.py.  Dates are day  *)
(* numbers; an enumeration of models.py is a set of strings.               *)
(***************************************************************************)
EXTENDS Integers, Sequences, FiniteSets

CONSTANT None

SourceClass == {"P1", "P2", "R1", "R2", "O1", "I1", "C1", "S1", "U"}
\* EvidenceMaturity: 0 for E0 to 5 for E5
Maturity == 0 .. 5
ClaimPurpose ==
  {"DOCUMENTATION", "DEMONSTRATION", "BENCHMARK_RESULT", "INDEPENDENT_VALIDATION", "EFFECTIVENESS"}
Facets ==
  [funding : {"NONE", "UNRESTRICTED_GRANT", "COMMISSIONED", "EMPLOYMENT", "UNDISCLOSED"},
   commercial : {"NONE", "CUSTOMER", "PARTNER", "VENDOR_SELF", "UNDISCLOSED"},
   selected : BOOLEAN, operated : BOOLEAN, reviewed : BOOLEAN,
   reproducible : BOOLEAN, public : BOOLEAN]
AvailabilityState ==
  {"UNKNOWN", "PRIVATE_PREVIEW", "LIMITED_PUBLIC_PREVIEW", "PUBLIC_PREVIEW", "GA", "DEPRECATED"}
-----------------------------------------------------------------------------
(* Evidence *)

\* derive_independence
Independence(f) ==
  IF "UNDISCLOSED" \in {f.funding, f.commercial} THEN "UNDETERMINED"
  ELSE IF f.commercial = "VENDOR_SELF" \/ f.funding \in {"COMMISSIONED", "EMPLOYMENT"}
    THEN "VENDOR_SELF"
  ELSE IF f.selected \/ f.operated \/ f.reviewed THEN "VENDOR_INFLUENCED"
  ELSE IF f.reproducible THEN "INDEPENDENT" ELSE "UNDETERMINED"

IsIndependent(e) == e.facets # None /\ Independence(e.facets) = "INDEPENDENT"

MutantClassified(e) ==
  /\ e.facets # None /\ e.facets.commercial = "VENDOR_SELF" => e.maturity < 4
  /\ e.class = "S1" => e.maturity <= 1

\* validate_evidence_classification
Classified(e) ==
  /\ e.facets # None /\ e.facets.commercial = "VENDOR_SELF" => e.maturity < 4
  /\ e.parent # None => e.maturity <= 1
  /\ e.class = "S1" => e.maturity <= 1

\* the rows of derive_capability_evidence_panel
VendorDocumented(e) ==
  e.purpose = "DOCUMENTATION" /\ e.maturity >= 1 /\ e.class \in {"P1", "P2"}
Demonstrated(e) == e.purpose = "DEMONSTRATION" /\ e.maturity >= 2
Validated(e) == e.purpose = "INDEPENDENT_VALIDATION" /\ e.maturity >= 3 /\ IsIndependent(e)
Effective(e) ==
  e.purpose = "EFFECTIVENESS" /\ e.maturity >= 4 /\ IsIndependent(e) /\ e.facets.public

Panel(items) ==
  [documentation |-> IF \E e \in items : VendorDocumented(e) THEN "HIGH" ELSE "NONE_FOUND",
   demonstration |-> IF \E e \in items : Demonstrated(e) THEN "MEDIUM" ELSE "NONE_FOUND",
   validation |-> IF \E e \in items : Validated(e) THEN "HIGH" ELSE "NONE_FOUND",
   effectiveness |-> IF \E e \in items : Effective(e) THEN "MEDIUM" ELSE "UNKNOWN"]
-----------------------------------------------------------------------------
(* Freshness and support *)

\* derive_freshness
Freshness(age) ==
  IF age <= 30 THEN "FRESH" ELSE IF age <= 90 THEN "AGING"
  ELSE IF age <= 180 THEN "STALE" ELSE "REVALIDATION_REQUIRED"

\* non-derivative evidence that is first-hand enough for a rating of its own
Primary(e) == e.parent = None /\ e.class = "P1" /\ e.maturity # 0
Secondary(e) == e.parent = None /\ e.class \in {"P2", "R1", "R2", "O1", "I1"}

\* derive_support_confidence
Support(items, freshness, contested) ==
  IF contested \/ freshness \in {"STALE", "REVALIDATION_REQUIRED"} \/ items = {} THEN "LOW"
  ELSE IF freshness = "FRESH" /\ (\E e \in items : Primary(e)) THEN "HIGH"
  ELSE IF freshness = "AGING" \/ (\E e \in items : Secondary(e)) THEN "MEDIUM"
  ELSE "LOW"

\* derive_current_scope: of an assertion's accepted observations the one with the largest
\* (observed_at, id), or none
MutantLater(o, p) == o.id > p.id \/ (o.id = p.id /\ o.at >= p.at)
Later(o, p) == o.at > p.at \/ (o.at = p.at /\ o.id >= p.id)
Current(observed) ==
  IF observed = {} THEN None
  ELSE (CHOOSE o \in observed : \A p \in observed : Later(o, p)).scope
-----------------------------------------------------------------------------
(* Lifecycle *)

Preview == {"PRIVATE_PREVIEW", "LIMITED_PUBLIC_PREVIEW", "PUBLIC_PREVIEW"}

\* _ALLOWED
Allowed(state) ==
  CASE state = "UNKNOWN" -> AvailabilityState
    [] state = "PRIVATE_PREVIEW" -> {"LIMITED_PUBLIC_PREVIEW", "PUBLIC_PREVIEW", "GA", "DEPRECATED"}
    [] state = "LIMITED_PUBLIC_PREVIEW" -> {"PUBLIC_PREVIEW", "GA", "DEPRECATED"}
    [] state = "PUBLIC_PREVIEW" -> {"GA", "DEPRECATED"}
    [] state = "GA" -> {"DEPRECATED"}
    [] OTHER -> {}

\* validate_transition between two events of one entity
Follows(event, previous) ==
  event.state \in Allowed(previous.state) /\ event.retrieved >= previous.retrieved

\* a history: the events of one entity by their number in lifecycle_events
LastEvent(history) == history[CHOOSE i \in DOMAIN history : \A j \in DOMAIN history : i >= j]
ValidTransition(history, event) ==
  DOMAIN history # {} => Follows(event, LastEvent(history))

\* preview_to_ga_velocity of one system: its first dated preview, its last dated GA
Dated(history, states) ==
  {i \in DOMAIN history : history[i].state \in states /\ history[i].effective # None}
FirstPreview(history) ==
  CHOOSE i \in Dated(history, Preview) : \A j \in Dated(history, Preview) : i <= j
LastGa(history) == CHOOSE i \in Dated(history, {"GA"}) : \A j \in Dated(history, {"GA"}) : i >= j
HasVelocity(history) == Dated(history, Preview) # {} /\ Dated(history, {"GA"}) # {}
-----------------------------------------------------------------------------
(* Contradictions *)

SameSubject(a, b) == a.about = b.about

\* flag_contradictions: the rules that two assertions meet, left before right
PairRules(a, b) ==
  {rule \in {"STATE", "AVAILABILITY", "BENCHMARK"} :
     /\ SameSubject(a, b)
     /\ rule = "STATE" => {a.state, b.state} = {"AFFIRMED", "EXPLICITLY_UNSUPPORTED"}
     /\ rule = "AVAILABILITY" => a.statement # b.statement /\ a.type = "availability"
     /\ rule = "BENCHMARK" =>
          /\ a.statement # b.statement /\ a.type = "benchmark_result"
          /\ \E e \in a.support \cup b.support : e.class = "P2"
          /\ \E e \in a.support \cup b.support : e.class \in {"R2", "I1"}}

\* its last loop: a claim (remediation, autonomous-investigation) by marketing against
\* primary documentation of its gates
Overclaims(a) ==
  /\ a.gated
  /\ \E e \in a.support : e.class = "P2"
  /\ \E e \in a.contrary : e.class = "P1"

\* a flag: a rule and the positions of its assertions, the last 0 if there is one
Found(items) ==
  {f \in [rule : {"STATE", "AVAILABILITY", "BENCHMARK"},
         left : DOMAIN items, right : DOMAIN items] :
     f.left < f.right /\ f.rule \in PairRules(items[f.left], items[f.right])}
  \cup {f \in [rule : {"AUTONOMY"}, left : DOMAIN items, right : {0}] : Overclaims(items[f.left])}

\* the order of their discovery: pairs first, the rules of one pair as they are tested
RuleRank(f) == CASE f.rule = "STATE" -> 1 [] f.rule = "AVAILABILITY" -> 2
                 [] f.rule = "BENCHMARK" -> 3 [] OTHER -> 4
Earlier(f, g) ==
  \/ f.right # 0 /\ g.right = 0
  \/ /\ f.right = 0 <=> g.right = 0
     /\ \/ f.left < g.left
        \/ f.left = g.left /\ f.right < g.right
        \/ f.left = g.left /\ f.right = g.right /\ RuleRank(f) < RuleRank(g)

\* the id of a flag: its rule, and one more than the flags found before it
FlagId(items, f) == <<f.rule, 1 + Cardinality({g \in Found(items) : Earlier(g, f)})>>
=============================================================================
