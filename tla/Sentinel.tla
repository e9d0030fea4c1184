------------------------------- MODULE Sentinel -------------------------------
(***************************************************************************)
(* The rules of the Sentinel agent: a trip is ruled on by every clause of  *)
(* the policy book and by the entry rules of its destination.              *)
(*                                                                         *)
(* A handler returns a set of findings.  Of a finding's prose only the cap *)
(* is kept, which the Concierge reads back out of it; money is in cents,   *)
(* so that printing with two decimals and reading it back loses nothing.   *)
(* An id of the book stands for its clause, Book[id] for the clause's rule.*)
(***************************************************************************)
EXTENDS Integers

CONSTANTS
    Book,       \* policies.json: clause id to rule
    VisaRules,  \* visa_rules.json: <<passport, country>> to processing days
    None        \* an optional part that is not there

Finding(id, severity, approval, cap) ==
    [clause |-> id, severity |-> severity, approval |-> approval, cap |-> cap]

Violation(id) == Finding(id, "violation", TRUE, None)
Info(id) == Finding(id, "info", FALSE, None)

Legs(q) == IF q.flights = None THEN {} ELSE {q.flights.outbound, q.flights.inbound}
DaysAhead(q) == q.depart - q.as_of

(* dict.get with a default. *)
Lookup(f, key, default) == IF key \in DOMAIN f THEN f[key] ELSE default

-------------------------------------------------------------------------------
Entitled(rule, grade, leg) ==
    IF leg.minutes >= rule.long_haul_minutes
      THEN Lookup(rule.long_haul_entitlement, grade, rule.default_cabin)
      ELSE rule.default_cabin

_cabin_entitlement(id, rule, q) ==
    LET rank(cabin) == Lookup(rule.cabin_rank, cabin, 0)
        entitled(leg) == rank(Entitled(rule, q.grade, leg))
    IN  {Violation(id) : leg \in {l \in Legs(q) : rank(l.cabin) > entitled(l)}}
          \cup
        {Info(id) : leg \in {l \in Legs(q) : rank(l.cabin) < entitled(l)}}

_preferred_carrier(id, rule, q) ==
    IF \E leg \in Legs(q) : leg.carrier \notin rule.carriers
      THEN {Finding(id, "warning", FALSE, None)} ELSE {}

Cap(rule, city) == Lookup(rule.caps, city, rule.default_cap)

(* Mutant of _lodging_cap: a room at the cap breaks it. *)
_lodging_cap_Strict(id, rule, q) ==
    IF q.stay = None \/ q.stay.rate < Cap(rule, q.stay.city) THEN {}
    ELSE {Finding(id, "violation", TRUE, Cap(rule, q.stay.city))}

(* The cap of the city is stated in the finding. *)
_lodging_cap(id, rule, q) ==
    IF q.stay = None \/ q.stay.rate <= Cap(rule, q.stay.city) THEN {}
    ELSE {Finding(id, "violation", TRUE, Cap(rule, q.stay.city))}

_advance_purchase(id, rule, q) ==
    IF DaysAhead(q) >= rule.minimum_days THEN {} ELSE {Violation(id)}

_trip_total(q) ==
    q.ground + (IF q.flights = None THEN 0 ELSE q.flights.total)
             + (IF q.stay = None THEN 0 ELSE q.stay.total)

(* Mutant of _spend_threshold: exactly the threshold passes. *)
_spend_threshold_Above(id, rule, q) ==
    IF _trip_total(q) <= rule.auto_approve_below THEN {}
    ELSE {Finding(id, "warning", TRUE, None)}

_spend_threshold(id, rule, q) ==
    IF _trip_total(q) < rule.auto_approve_below THEN {}
    ELSE {Finding(id, "warning", TRUE, None)}

_refundable_window(id, rule, q) ==
    IF /\ DaysAhead(q) <= rule.days_before_departure
       /\ \E leg \in Legs(q) : ~leg.refundable
      THEN {Finding(id, "warning", FALSE, None)} ELSE {}

_ground_cap(id, rule, q) == IF q.ground <= rule.cap THEN {} ELSE {Violation(id)}

_carbon_ceiling(id, rule, q) ==
    IF q.flights = None THEN {}
    ELSE IF q.flights.outbound.co2 + q.flights.inbound.co2 <= rule.round_trip
      THEN {Info(id)} ELSE {Finding(id, "warning", FALSE, None)}

(* _HANDLERS; a rule of another type is skipped. *)
Handler(id, q) ==
    LET rule == Book[id] IN
    CASE rule.type = "cabin_entitlement" -> _cabin_entitlement(id, rule, q)
      [] rule.type = "preferred_carrier" -> _preferred_carrier(id, rule, q)
      [] rule.type = "lodging_cap" -> _lodging_cap(id, rule, q)
      [] rule.type = "advance_purchase" -> _advance_purchase(id, rule, q)
      [] rule.type = "spend_threshold" -> _spend_threshold(id, rule, q)
      [] rule.type = "refundable_window" -> _refundable_window(id, rule, q)
      [] rule.type = "ground_cap" -> _ground_cap(id, rule, q)
      [] rule.type = "carbon_ceiling" -> _carbon_ceiling(id, rule, q)
      [] OTHER -> {}

(* A passport and country with no rule on file have to be checked by hand. *)
_entry_findings(q) ==
    LET days == Lookup(VisaRules, <<q.passport, q.country>>, None) IN
    IF days = None THEN {Finding("TRV-010", "warning", TRUE, None)}
    ELSE IF days > DaysAhead(q) THEN {Violation("TRV-010")}
    ELSE {Info("TRV-010")}

evaluate(q) ==
    LET findings == _entry_findings(q)
                      \cup (UNION {Handler(id, q) : id \in DOMAIN Book})
    IN  [findings |-> findings,
         compliant |-> \A f \in findings : f.severity # "violation",
         requires_manager_approval |-> \E f \in findings : f.approval]
===============================================================================
