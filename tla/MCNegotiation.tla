----------------------------- MODULE MCNegotiation -----------------------------
(***************************************************************************)
(* An instance of Negotiation for TLC.  The cap of 140 meets rooms below   *)
(* it, at it, half a cent above it and well above it; the search cuts off  *)
(* the farthest of five hotels and the shortlist the worst of three; the   *)
(* second date is inside the advance purchase window; the total of 600 is  *)
(* the threshold: it and both sides of it can be reached.                  *)
(***************************************************************************)
EXTENDS Negotiation, TLC

CONSTANTS pod, near, twin, grand, inn,
          saver, wide, front, outsider, back

MCFacts ==
    (pod :> [city |-> "Tokyo", km |-> 1, stars |-> 2, amenities |-> {"wifi"}]) @@
    (near :> [city |-> "Tokyo", km |-> 2, stars |-> 4,
              amenities |-> {"wifi", "desk", "gym"}]) @@
    (twin :> [city |-> "Tokyo", km |-> 2, stars |-> 3,
              amenities |-> {"wifi", "desk"}]) @@
    (grand :> [city |-> "Tokyo", km |-> 3, stars |-> 5,
               amenities |-> {"wifi", "desk"}]) @@
    (inn :> [city |-> "Tokyo", km |-> 5, stars |-> 3,
             amenities |-> {"wifi", "desk"}])

MCPrices ==
    (pod :> {200}) @@ (near :> {281, 360}) @@
    (twin :> {280, 360}) @@ (grand :> {420}) @@
    (inn :> {200})

Fare(direction, cabin, carrier, stops, refundable, co2) ==
    [direction |-> direction, cabin |-> cabin, carrier |-> carrier,
     stops |-> stops, minutes |-> 480, refundable |-> refundable, co2 |-> co2]

MCFlightFacts ==
    (saver :> Fare("outbound", "economy", "UA", 1, TRUE, 9)) @@
    (wide :> Fare("outbound", "premium_economy", "XX", 0, FALSE, 20)) @@
    (front :> Fare("outbound", "business", "UA", 0, TRUE, 9)) @@
    (outsider :> Fare("outbound", "economy", "ZZ", 0, TRUE, 9)) @@
    (back :> Fare("return", "economy", "UA", 0, TRUE, 9))

MCFares ==
    (saver :> {100}) @@ (wide :> {180, 190}) @@
    (front :> {200}) @@ (outsider :> {110}) @@ (back :> {100})

MCBook ==
    ("TRV-001" :> [type |-> "cabin_entitlement", default_cabin |-> "economy",
                   long_haul_minutes |-> 480,
                   long_haul_entitlement |-> [IC5 |-> "premium_economy"],
                   cabin_rank |-> [economy |-> 0, premium_economy |-> 1,
                                   business |-> 2]]) @@
    ("TRV-002" :> [type |-> "preferred_carrier", carriers |-> {"UA"}]) @@
    ("TRV-003" :> [type |-> "lodging_cap", caps |-> [Tokyo |-> 140],
                   default_cap |-> 110]) @@
    ("TRV-004" :> [type |-> "advance_purchase", minimum_days |-> 14]) @@
    ("TRV-005" :> [type |-> "spend_threshold", auto_approve_below |-> 600]) @@
    ("TRV-006" :> [type |-> "refundable_window", days_before_departure |-> 13]) @@
    ("TRV-007" :> [type |-> "ground_cap", cap |-> 150]) @@
    ("TRV-008" :> [type |-> "carbon_ceiling", round_trip |-> 25]) @@
    ("TRV-009" :> [type |-> "informational"])

MCVisaRules == <<"United States", "Japan">> :> 0
MCTraveller == [grade |-> "IC5", passport |-> "United States"]
================================================================================
