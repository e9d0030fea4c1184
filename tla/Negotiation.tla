------------------------------ MODULE Negotiation ------------------------------
(***************************************************************************)
(* The Concierge with the real Skyline, Hearth and Sentinel: it sources a  *)
(* room with the cap as a hint and flights, Sentinel rules, the Concierge  *)
(* reads the broken cap out of the ruling and has Hearth enforce it, and   *)
(* Sentinel rules again, while seats and rooms sell out or change their    *)
(* price and days pass.  Ledger is open as in Concierge.                   *)
(***************************************************************************)
EXTENDS Hearth, Skyline

CONSTANTS
    Trip, Token, MaxRestarts,         \* see Concierge
    Book, VisaRules,                  \* see Sentinel
    Prices,        \* what each hotel can ask for the stay
    Fares,         \* what each flight can cost
    Traveller,     \* grade and passport
    City, Country, \* of the destination
    Ground,        \* ground_usd
    Depart,        \* the day of departure
    AtVenue,       \* whether the trip has a venue
    CapHint,       \* TOKYO_TIER_CAP_HINT
    MaxDistance,   \* MAX_VENUE_DISTANCE_KM
    PreferredCarriers,  \* PREFERRED_CARRIERS
    MaxMoves,      \* bound: changes of the market
    MaxDays        \* bound: days that pass

ASSUME PricesAssumption == Prices \in [Hotel -> SUBSET Nat]
ASSUME FaresAssumption == Fares \in [Flight -> SUBSET Nat]
ASSUME BoundsAssumption == Ground \in Nat /\ MaxRestarts \in Nat
ASSUME VenueAssumption == AtVenue \in BOOLEAN

(* policies.json: the lodging clause, which the Concierge reads back by    *)
(* name, and the threshold clause are there; caps (above 0) and thresholds *)
(* are amounts.                                                            *)
ASSUME BookAssumption ==
    /\ {"TRV-003", "TRV-005"} \subseteq DOMAIN Book
    /\ Book["TRV-003"].type = "lodging_cap"
    /\ Book["TRV-005"].type = "spend_threshold"
    /\ \A id \in DOMAIN Book :
          /\ Book[id].type = "spend_threshold" => Book[id].auto_approve_below \in Nat
          /\ Book[id].type = "lodging_cap" =>
                /\ Book[id].default_cap \in Nat \ {0}
                /\ \A city \in DOMAIN Book[id].caps :
                      Book[id].caps[city] \in Nat \ {0}

VARIABLES
    task, live, node, trip, asked, reported, told, said, restarts,
    market,     \* the price of each hotel for the stay, or SoldOut
    fares,      \* the fare of each flight, or SoldOut
    today,      \* the date
    moves,      \* changes of the market so far
    findings    \* the findings of the last ruling of each trip

concierge == <<task, live, node, trip, asked, reported, told, said, restarts>>
world == <<market, fares, today, moves>>
vars == <<concierge, world, findings>>

(* What the Concierge holds of a stay: the flights it goes with, the hotel *)
(* and the nightly rate it was offered at.                                 *)
FlightPair ==
    LET fare == UNION {Fares[f] : f \in Flight} IN
    [outbound : {f \in Flight : FlightFacts[f].direction = "outbound"},
     inbound : {f \in Flight : FlightFacts[f].direction = "return"},
     total : {p + q : p, q \in fare}]
Offer == [flights : FlightPair, hotel : Hotel,
          rate : {NightlyRate(p) : p \in UNION {Prices[h] : h \in Hotel}}]

Sentinel == INSTANCE Sentinel

LodgingTotal(o) == o.rate * Nights
SpendTotal(o) == o.flights.total + LodgingTotal(o) + Ground
OverCap ==
    {o \in Offer : o.rate > Sentinel!Cap(Book["TRV-003"], Facts[o.hotel].city)}

(* The two proposals as Sentinel is sent them. *)
FlightsOf(o) ==
    [outbound |-> FlightFacts[o.flights.outbound],
     inbound |-> FlightFacts[o.flights.inbound], total |-> o.flights.total]
StayOf(o) ==
    [city |-> Facts[o.hotel].city, rate |-> o.rate, total |-> LodgingTotal(o)]

C == INSTANCE Concierge
       WITH Stay <- Offer, Usd <- [o \in Offer |-> SpendTotal(o)]

ASSUME NoneAssumption ==
    /\ None \notin Nat
    /\ None \notin Offer \cup Token \cup C!Ruling \cup C!Verdict \cup C!TripState
                  \cup C!Error \cup C!Message
    /\ \A o \in Offer : None \notin {FlightsOf(o), StayOf(o)}

Init ==
    /\ C!Init
    /\ market \in [Hotel -> UNION {Prices[h] : h \in Hotel}]
    /\ \A h \in Hotel : market[h] \in Prices[h]
    /\ fares \in [Flight -> UNION {Fares[f] : f \in Flight}]
    /\ \A f \in Flight : fares[f] \in Fares[f]
    /\ today = 0
    /\ moves = 0
    /\ findings = [t \in Trip |-> {}]

-------------------------------------------------------------------------------
(* The brief of node_source, with the cap as a hint. *)
GuidedBrief ==
    [city |-> City, venue |-> AtVenue, enforce_cap |-> FALSE,
     nightly_cap |-> CapHint, max_distance |-> MaxDistance]

(* The flight brief of node_source: neither cabin nor stops restricted. *)
FlightBrief == [cabin |-> None, max_stops |-> None, carriers |-> PreferredCarriers]

(* The cap stated by a lodging violation, None when there is none. *)
_breached_lodging_cap(fs) ==
    LET broken == {f \in fs : /\ f.clause = "TRV-003"
                              /\ f.severity = "violation"
                              /\ f.cap # None}
    IN  IF broken = {} THEN None ELSE (CHOOSE f \in broken : TRUE).cap

(* Mutant of EnforcedBrief: the hint is enforced, not the broken cap. *)
EnforcedBrief_Hint(t) ==
    [GuidedBrief EXCEPT !.enforce_cap = TRUE,
                        !.city = Facts[trip[t].stay.hotel].city]

(* The brief of node_renegotiate: the stated cap is enforced, or the hint  *)
(* when the stated cap is missing or zero.                                 *)
EnforcedBrief(t) ==
    LET cap == _breached_lodging_cap(findings[t]) IN
    [city |-> Facts[trip[t].stay.hotel].city, venue |-> AtVenue,
     enforce_cap |-> TRUE,
     nightly_cap |-> IF cap = None \/ cap = 0 THEN CapHint ELSE cap,
     max_distance |-> MaxDistance]

Source(t) ==
    /\ C!At(t, "source")
    /\ \E f \in FlightProposals(fares, FlightBrief), h \in Proposable(market, GuidedBrief) :
          C!node_source(t, [flights |-> f, hotel |-> h, rate |-> Rate(market, h)])
    /\ UNCHANGED <<world, findings>>

Renegotiate(t) ==
    /\ C!At(t, "renegotiate")
    /\ \E h \in Proposable(market, EnforcedBrief(t)) :
          C!node_renegotiate(t, [flights |-> trip[t].stay.flights,
                                 hotel |-> h, rate |-> Rate(market, h)])
    /\ UNCHANGED <<world, findings>>

(* The screening request of a stay on some day. *)
ScreeningRequest(o, day) ==
    [grade |-> Traveller.grade, passport |-> Traveller.passport,
     country |-> Country, ground |-> Ground,
     flights |-> FlightsOf(o), stay |-> StayOf(o),
     depart |-> Depart, as_of |-> day]

Screen(t) ==
    /\ C!At(t, "screen")
    /\ LET verdict == Sentinel!evaluate(ScreeningRequest(trip[t].stay, today)) IN
       /\ C!node_screen(t,
             [stay |-> trip[t].stay, compliant |-> verdict.compliant,
              cap |-> _breached_lodging_cap(verdict.findings) # None,
              approval |-> verdict.requires_manager_approval])
       /\ findings' = [findings EXCEPT ![t] = verdict.findings]
    /\ UNCHANGED world

(* The rest of the Concierge: failures of the peers, money, the end. *)
Proceed(t) ==
    /\ live[t]
    /\ \/ C!node_intake(t)
       \/ C!SourceFails(t)
       \/ C!ScreenFails(t)
       \/ C!RenegotiateFails(t)
       \/ C!Settle(t)
       \/ C!Pause(t)
       \/ C!node_assemble(t)
       \/ C!Finish(t)
       \/ C!Raise(t)
    /\ UNCHANGED <<world, findings>>

(* Somebody else books or cancels, or a hotel or an airline changes its    *)
(* prices.                                                                 *)
RoomMoves ==
    \E h \in Hotel : \E p \in Prices[h] \cup {SoldOut} :
        /\ p # market[h]
        /\ market' = [market EXCEPT ![h] = p]
        /\ UNCHANGED fares

FareMoves ==
    \E f \in Flight : \E p \in Fares[f] \cup {SoldOut} :
        /\ p # fares[f]
        /\ fares' = [fares EXCEPT ![f] = p]
        /\ UNCHANGED market

MarketMoves ==
    /\ moves < MaxMoves
    /\ moves' = moves + 1
    /\ RoomMoves \/ FareMoves
    /\ UNCHANGED <<concierge, today, findings>>

Midnight ==
    /\ today < MaxDays
    /\ today' = today + 1
    /\ UNCHANGED <<concierge, market, fares, moves, findings>>

Disturb == C!Disturb /\ UNCHANGED <<world, findings>>

Next ==
    \/ \E t \in Trip : Source(t) \/ Renegotiate(t) \/ Screen(t) \/ Proceed(t)
    \/ Disturb
    \/ MarketMoves
    \/ Midnight

Spec == Init /\ [][Next]_vars

-------------------------------------------------------------------------------
(* "Hearth never exceeds the cap when told to enforce it", all the way     *)
(* round: the cap Sentinel prints, the Concierge reads back and the search *)
(* filters on is the one Sentinel judges the re-offered room by, although  *)
(* one compares the average and the other its rounding, and rooms change.  *)
RenegotiationRepairs ==
    \A t \in Trip :
        trip[t] # None /\ trip[t].renegotiated /\ trip[t].error = None =>
            trip[t].stay \notin OverCap

(* A clause that looks at the calendar. *)
Calendar(id) ==
    \/ id = "TRV-010"
    \/ /\ id \in DOMAIN Book
       /\ Book[id].type \in {"advance_purchase", "refundable_window"}

(* Renegotiating only helps: what Sentinel objects to the second time it   *)
(* objected to the first, but for what the passing of days has added; and  *)
(* the trip has become cheaper, whatever the market did meanwhile.         *)
RenegotiationOnlyHelps ==
    [][\A t \in Trip :
        /\ C!At(t, "screen") /\ node'[t] = "authorise" /\ trip[t].renegotiated =>
              \A f \in findings'[t] \ findings[t] :
                  f.severity = "info" \/ Calendar(f.clause)
        /\ C!At(t, "renegotiate") /\ node'[t] = "screen" =>
              SpendTotal(trip'[t].stay) < SpendTotal(trip[t].stay)]_vars

(* At or above the threshold nothing is confirmed without the approver's   *)
(* answer: the total Sentinel screens is the total Ledger is asked for.    *)
ThresholdIsSigned ==
    \A t \in Trip :
        C!Confirmed(t)
          /\ SpendTotal(trip[t].stay) >= Book["TRV-005"].auto_approve_below =>
            said[t] \in {"approve", "unclear"}

(* The briefs of a first search and of a re-ask, with a venue and without. *)
Briefs ==
    {[GuidedBrief EXCEPT !.enforce_cap = e, !.venue = v] : e, v \in BOOLEAN}

(* However the cuts fall, each in its own order, the room at the top of    *)
(* the ranking is not one for which the traveller pays as much and gets    *)
(* less, measured against every usable room of the market.                 *)
NoBetterRoomLeftOut ==
    \A b \in Briefs : \A h \in TopPicks(market, b) :
        ~\E g \in Usable(b, Matches(market, b)) : Dominates(market, b, g, h)

(* The briefs Skyline can be given, the Concierge's among them. *)
FlightBriefs ==
    {FlightBrief} \cup
    [cabin : {None, "economy", "business"}, max_stops : {None, 0}, carriers : {{}}]

(* The cut of the search, the choice of the cabin and the ranking come one *)
(* after the other, each on what the last one left: still the flight at    *)
(* the top is the cheapest of its cabin in the whole timetable.            *)
CheapestInItsCabin ==
    \A b \in FlightBriefs, dir \in Directions : \A f \in TopFares(fares, b, dir) :
        \A g \in OfCabin(OnOffer(fares, b, dir), FlightFacts[f].cabin) :
            fares[f] <= fares[g]

(* "premium economy is offered when it is within a defensible multiple of  *)
(* the cheapest economy fare": left to itself, Skyline never puts a flight *)
(* at the top that costs more than 1.8 times an economy seat on sale, also *)
(* when the rows it saw hold no economy seat.                              *)
UpgradeIsDefensible ==
    \A b \in {x \in FlightBriefs : x.cabin = None}, dir \in Directions :
        \A f \in TopFares(fares, b, dir) :
            \A g \in OfCabin(OnOffer(fares, b, dir), "economy") :
                5 * fares[f] <= 9 * fares[g]

(* What module Concierge takes for granted of Sentinel, the rules deliver: *)
(* the composition behaves as the Concierge with open peers does.          *)
SentinelKeepsItsPromise == C!Spec

-------------------------------------------------------------------------------
(* "Relaxing the cap never moves the traveller further from the venue."    *)
RelaxingStaysNear ==
    \A g \in TopPicks(market, [GuidedBrief EXCEPT !.enforce_cap = TRUE]),
       h \in TopPicks(market, GuidedBrief) :
        Facts[h].km <= Facts[g].km
================================================================================
