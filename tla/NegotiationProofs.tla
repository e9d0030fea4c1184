--------------------------- MODULE NegotiationProofs ---------------------------
(***************************************************************************)
(* What holds of the negotiation for every market, trip and policy book.   *)
(* First the rules of Sentinel, of which no more is used of most clauses   *)
(* than what each kind of finding carries; then what the searches offer;   *)
(* then the Concierge between the two: it is a Concierge as in module      *)
(* Concierge, whose invariant it inherits, and its re-ask repairs.         *)
(***************************************************************************)
EXTENDS Negotiation, SearchProofs, TLAPS

(* The Concierge with its proofs. *)
CP == INSTANCE ConciergeProofs
        WITH Stay <- Offer, Usd <- [o \in Offer |-> SpendTotal(o)]

(* A violation needs a manager, whatever clause it is of. *)
NeedsManager(f) == f.severity = "violation" => f.approval

USE DEF Sentinel!Finding, Sentinel!Violation, Sentinel!Info

LEMMA HandlerNeedsManager ==
  ASSUME NEW id, NEW q, NEW f \in Sentinel!Handler(id, q)
  PROVE  NeedsManager(f)
<1> DEFINE rule == Book[id]
<1> USE DEF NeedsManager
<1>1. CASE f \in Sentinel!_cabin_entitlement(id, rule, q)
  BY <1>1 DEF Sentinel!_cabin_entitlement
<1>2. CASE f \in Sentinel!_preferred_carrier(id, rule, q)
  BY <1>2 DEF Sentinel!_preferred_carrier
<1>3. CASE f \in Sentinel!_lodging_cap(id, rule, q)
  BY <1>3 DEF Sentinel!_lodging_cap
<1>4. CASE f \in Sentinel!_advance_purchase(id, rule, q)
  BY <1>4 DEF Sentinel!_advance_purchase
<1>5. CASE f \in Sentinel!_spend_threshold(id, rule, q)
  BY <1>5 DEF Sentinel!_spend_threshold
<1>6. CASE f \in Sentinel!_refundable_window(id, rule, q)
  BY <1>6 DEF Sentinel!_refundable_window
<1>7. CASE f \in Sentinel!_ground_cap(id, rule, q)
  BY <1>7 DEF Sentinel!_ground_cap
<1>8. CASE f \in Sentinel!_carbon_ceiling(id, rule, q)
  BY <1>8 DEF Sentinel!_carbon_ceiling
<1> QED
  BY <1>1, <1>2, <1>3, <1>4, <1>5, <1>6, <1>7, <1>8 DEF Sentinel!Handler

LEMMA EntryNeedsManager ==
  ASSUME NEW q, NEW f \in Sentinel!_entry_findings(q)
  PROVE  NeedsManager(f) /\ f.cap = None
BY DEF Sentinel!_entry_findings, NeedsManager

(* A trip that is not compliant needs a manager (rules.evaluate): no       *)
(* violation of any clause, for any book, can reach Ledger unapproved.     *)
THEOREM ViolationNeedsManager ==
  ASSUME NEW q, ~Sentinel!evaluate(q).compliant
  PROVE  Sentinel!evaluate(q).requires_manager_approval
<1> DEFINE fs == Sentinel!evaluate(q).findings
<1>1. PICK f \in fs : f.severity = "violation"
  BY DEF Sentinel!evaluate
<1>2. f.approval
  BY <1>1, HandlerNeedsManager, EntryNeedsManager DEF Sentinel!evaluate, NeedsManager
<1> QED BY <1>1, <1>2 DEF Sentinel!evaluate

-------------------------------------------------------------------------------
(* What a lodging clause says of a room that breaks its cap.               *)
CapBroken(id, q) ==
    Sentinel!Finding(id, "violation", TRUE, Sentinel!Cap(Book[id], q.stay.city))

(* A finding that states a cap is a violation by the lodging clause, and   *)
(* the cap is the one the room breaks.                                     *)
StatesCap(f, id, q) ==
    f.cap # None =>
        /\ Book[id].type = "lodging_cap"
        /\ f = CapBroken(id, q)
        /\ ~(q.stay.rate <= f.cap)

LEMMA HandlerStatesCap ==
  ASSUME NEW id, NEW q, NEW f \in Sentinel!Handler(id, q)
  PROVE  StatesCap(f, id, q)
<1> DEFINE rule == Book[id]
<1> USE DEF StatesCap, CapBroken
<1>1. CASE f \in Sentinel!_cabin_entitlement(id, rule, q)
  BY <1>1 DEF Sentinel!_cabin_entitlement
<1>2. CASE f \in Sentinel!_preferred_carrier(id, rule, q)
  BY <1>2 DEF Sentinel!_preferred_carrier
<1>3. CASE f \in Sentinel!_lodging_cap(id, rule, q) /\ rule.type = "lodging_cap"
  BY <1>3 DEF Sentinel!_lodging_cap
<1>4. CASE f \in Sentinel!_advance_purchase(id, rule, q)
  BY <1>4 DEF Sentinel!_advance_purchase
<1>5. CASE f \in Sentinel!_spend_threshold(id, rule, q)
  BY <1>5 DEF Sentinel!_spend_threshold
<1>6. CASE f \in Sentinel!_refundable_window(id, rule, q)
  BY <1>6 DEF Sentinel!_refundable_window
<1>7. CASE f \in Sentinel!_ground_cap(id, rule, q)
  BY <1>7 DEF Sentinel!_ground_cap
<1>8. CASE f \in Sentinel!_carbon_ceiling(id, rule, q)
  BY <1>8 DEF Sentinel!_carbon_ceiling
<1> QED
  BY <1>1, <1>2, <1>3, <1>4, <1>5, <1>6, <1>7, <1>8 DEF Sentinel!Handler

(* The cap the Concierge reads out of a ruling is the one the room breaks  *)
(* (_lodging_cap in rules.py, _breached_lodging_cap in graph.py): it is    *)
(* stated by a violation of a lodging clause and by no other finding.      *)
THEOREM StatedCapIsBroken ==
  ASSUME NEW q, NEW f \in Sentinel!evaluate(q).findings, f.cap # None
  PROVE  \E id \in DOMAIN Book :
            /\ Book[id].type = "lodging_cap"
            /\ f = CapBroken(id, q)
            /\ ~(q.stay.rate <= f.cap)
BY HandlerStatesCap, EntryNeedsManager DEF Sentinel!evaluate, StatesCap

(* And none is passed over: a room over the cap of a lodging clause always *)
(* leaves a violation that states that cap.                                *)
THEOREM BrokenCapIsStated ==
  ASSUME NEW q, NEW id \in DOMAIN Book, Book[id].type = "lodging_cap",
         q.stay # None, ~(q.stay.rate <= Sentinel!Cap(Book[id], q.stay.city))
  PROVE  CapBroken(id, q) \in Sentinel!evaluate(q).findings
<1>1. CapBroken(id, q) \in Sentinel!Handler(id, q)
  BY DEF Sentinel!Handler, Sentinel!_lodging_cap, CapBroken
<1> QED BY <1>1 DEF Sentinel!evaluate

-------------------------------------------------------------------------------
(* What is offered has one of its prices, and the date is a date.          *)
MarketIsPriced ==
    /\ market \in [Hotel -> Nat \cup {SoldOut}]
    /\ fares \in [Flight -> Nat \cup {SoldOut}]
    /\ \A h \in Hotel : market[h] # SoldOut => market[h] \in Prices[h]
    /\ \A f \in Flight : fares[f] # SoldOut => fares[f] \in Fares[f]
    /\ today \in Int

LEMMA InitPriced ==
  Init => MarketIsPriced
<1> SUFFICES ASSUME Init PROVE MarketIsPriced
  OBVIOUS
<1>1. \A h \in Hotel : market[h] \in Nat /\ market[h] \in Prices[h]
  BY PricesAssumption DEF Init
<1>2. \A f \in Flight : fares[f] \in Nat /\ fares[f] \in Fares[f]
  BY FaresAssumption DEF Init
<1> QED BY <1>1, <1>2 DEF Init, MarketIsPriced

(* Only MarketMoves touches the market and the fares, only Midnight the    *)
(* date.                                                                   *)
LEMMA StepPriced ==
  MarketIsPriced /\ [Next]_vars => MarketIsPriced'
<1> SUFFICES ASSUME MarketIsPriced, [Next]_vars PROVE MarketIsPriced'
  OBVIOUS
<1> USE DEF world
<1>1. CASE RoomMoves /\ today' = today
  <2>1. PICK h \in Hotel : \E p \in Prices[h] \cup {SoldOut} :
          market' = [market EXCEPT ![h] = p] /\ fares' = fares
    BY <1>1 DEF RoomMoves
  <2>2. PICK p \in Prices[h] \cup {SoldOut} : market' = [market EXCEPT ![h] = p]
    BY <2>1
  <2>3. p \in Nat \cup {SoldOut}
    BY <2>2, PricesAssumption
  <2> QED BY <1>1, <2>1, <2>2, <2>3 DEF MarketIsPriced
<1>6. CASE FareMoves /\ today' = today
  <2>1. PICK f \in Flight : \E p \in Fares[f] \cup {SoldOut} :
          fares' = [fares EXCEPT ![f] = p] /\ market' = market
    BY <1>6 DEF FareMoves
  <2>2. PICK p \in Fares[f] \cup {SoldOut} : fares' = [fares EXCEPT ![f] = p]
    BY <2>1
  <2>3. p \in Nat \cup {SoldOut}
    BY <2>2, FaresAssumption
  <2> QED BY <1>6, <2>1, <2>2, <2>3 DEF MarketIsPriced
<1>2. ASSUME NEW t \in Trip, Source(t) \/ Renegotiate(t) \/ Screen(t) \/ Proceed(t)
      PROVE  MarketIsPriced'
  BY <1>2 DEF Source, Renegotiate, Screen, Proceed, MarketIsPriced
<1>3. CASE Disturb
  BY <1>3 DEF Disturb, MarketIsPriced
<1>4. CASE Midnight
  BY <1>4 DEF Midnight, MarketIsPriced
<1>5. CASE UNCHANGED vars
  BY <1>5 DEF vars, MarketIsPriced
<1> QED BY <1>1, <1>2, <1>3, <1>4, <1>5, <1>6 DEF Next, MarketMoves

(* An offer is made of amounts.                                            *)
LEMMA OfferIsTyped ==
  ASSUME NEW o \in Offer
  PROVE  /\ o.flights \in FlightPair /\ o.flights.total \in Nat
         /\ o.hotel \in Hotel /\ o.rate \in Nat
         /\ LodgingTotal(o) \in Nat /\ SpendTotal(o) \in Nat
<1>1. o.flights \in FlightPair /\ o.hotel \in Hotel
  BY DEF Offer
<1>2. PICK h \in Hotel : \E p \in Prices[h] : o.rate = NightlyRate(p)
  BY DEF Offer
<1>3. PICK p \in Prices[h] : o.rate = NightlyRate(p)
  BY <1>2
<1>4. p \in Nat
  BY <1>3, PricesAssumption
<1>5. o.rate \in Nat
  BY <1>3, <1>4, RateIsNatural
<1>6. UNION {Fares[f] : f \in Flight} \subseteq Nat
  BY FaresAssumption
<1>7. o.flights.total \in {x + y : x, y \in UNION {Fares[f] : f \in Flight}}
  BY <1>1 DEF FlightPair
<1>8. o.flights.total \in Nat
  <2> DEFINE fare == UNION {Fares[f] : f \in Flight}
  <2> HIDE DEF fare
  <2>1. fare \subseteq Nat /\ o.flights.total \in {x + y : x, y \in fare}
    BY <1>6, <1>7 DEF fare
  <2>2. PICK x \in fare, y \in fare : o.flights.total = x + y
    BY <2>1
  <2> QED BY <2>1, <2>2
<1>9. LodgingTotal(o) \in Nat
  BY <1>5, NightsAssumption DEF LodgingTotal
<1> QED BY <1>1, <1>5, <1>8, <1>9, BoundsAssumption DEF SpendTotal

(* A room that can be proposed has a price, is in the city of the brief,   *)
(* and is offered at a rate of its own.                                    *)
LEMMA ProposableIsPriced ==
  ASSUME MarketIsPriced, NEW b, NEW h \in Proposable(market, b)
  PROVE  /\ h \in Hotel /\ Facts[h].city = b.city
         /\ Rate(market, h) \in {NightlyRate(p) : p \in UNION {Prices[g] : g \in Hotel}}
<1>1. h \in Matches(market, b)
  BY DEF Proposable, shortlists, Candidates, search_hotels, FirstRows, Usable
<1>2. h \in Hotel /\ Facts[h].city = b.city /\ market[h] # SoldOut
  BY <1>1 DEF Matches
<1>3. market[h] \in Prices[h]
  BY <1>2 DEF MarketIsPriced
<1> QED BY <1>2, <1>3 DEF Rate

(* A flight that can be booked is of its direction and has a fare.         *)
LEMMA BookableIsPriced ==
  ASSUME MarketIsPriced, NEW b, NEW dir, NEW f \in Bookable(fares, b, dir)
  PROVE  /\ f \in {g \in Flight : FlightFacts[g].direction = dir}
         /\ fares[f] \in UNION {Fares[g] : g \in Flight}
<1>1. f \in OnOffer(fares, b, dir)
  BY DEF Bookable, _trim, FirstRows, FareCandidates, InCabin, search_flights, OfCabin
<1>2. f \in Flight /\ FlightFacts[f].direction = dir /\ fares[f] # SoldOut
  BY <1>1 DEF OnOffer
<1>3. fares[f] \in Fares[f]
  BY <1>2 DEF MarketIsPriced
<1> QED BY <1>2, <1>3

LEMMA ProposalIsAnOffer ==
  ASSUME MarketIsPriced, NEW f \in FlightProposals(fares, FlightBrief),
         NEW b, NEW h \in Proposable(market, b)
  PROVE  [flights |-> f, hotel |-> h, rate |-> Rate(market, h)] \in Offer
<1>1. f \in FlightPair
  BY BookableIsPriced DEF FlightProposals, FlightPair
<1> QED BY <1>1, ProposableIsPriced DEF Offer

LEMMA ReOfferIsAnOffer ==
  ASSUME MarketIsPriced, NEW o \in Offer, NEW b, NEW h \in Proposable(market, b)
  PROVE  [flights |-> o.flights, hotel |-> h, rate |-> Rate(market, h)] \in Offer
BY OfferIsTyped, ProposableIsPriced DEF Offer

-------------------------------------------------------------------------------
(* The cap of an offer's city, as the lodging clause has it.               *)
CityCap(o) == Sentinel!Cap(Book["TRV-003"], Facts[o.hotel].city)

LEMMA CapIsAnAmount ==
  ASSUME NEW id \in DOMAIN Book, Book[id].type = "lodging_cap", NEW city
  PROVE  Sentinel!Cap(Book[id], city) \in Nat \ {0}
BY BookAssumption DEF Sentinel!Cap, Sentinel!Lookup

(* The findings of a ruling on an offer, on some day.                      *)
Objections(o, day) == Sentinel!evaluate(ScreeningRequest(o, day)).findings

LEMMA RequestParts ==
  ASSUME NEW o \in Offer, NEW day
  PROVE  LET q == ScreeningRequest(o, day) IN
         /\ q.stay # None /\ q.flights # None
         /\ q.stay = StayOf(o) /\ q.flights = FlightsOf(o) /\ q.ground = Ground
         /\ q.stay.city = Facts[o.hotel].city /\ q.stay.rate = o.rate
         /\ q.stay.total = LodgingTotal(o) /\ q.flights.total = o.flights.total
BY NoneAssumption DEF ScreeningRequest, StayOf, FlightsOf

(* The Concierge reads back exactly the cap that was broken, and reads one *)
(* whenever one was (_breached_lodging_cap).                               *)
THEOREM CapIsReadBack ==
  ASSUME NEW o \in Offer, NEW day
  PROVE  _breached_lodging_cap(Objections(o, day)) =
            IF o \in OverCap THEN CityCap(o) ELSE None
<1> DEFINE q == ScreeningRequest(o, day)
           fs == Objections(o, day)
           broken == {f \in fs : /\ f.clause = "TRV-003"
                                 /\ f.severity = "violation"
                                 /\ f.cap # None}
<1>1. q.stay # None /\ q.stay.city = Facts[o.hotel].city /\ q.stay.rate = o.rate
  BY RequestParts
<1>2. fs = Sentinel!evaluate(q).findings
  BY DEF Objections
<1>3. CityCap(o) \in Nat /\ o.rate \in Nat
  BY OfferIsTyped, CapIsAnAmount, BookAssumption DEF CityCap
<1>4. o \in OverCap <=> ~(o.rate <= CityCap(o))
  BY <1>3 DEF OverCap, CityCap
<1>5. _breached_lodging_cap(fs) =
         IF broken = {} THEN None ELSE (CHOOSE f \in broken : TRUE).cap
  BY DEF _breached_lodging_cap
<1> HIDE DEF q, fs
<1>6. ASSUME NEW f \in broken PROVE f.cap = CityCap(o) /\ ~(o.rate <= CityCap(o))
  <2>1. PICK id \in DOMAIN Book : f = CapBroken(id, q) /\ ~(q.stay.rate <= f.cap)
    BY <1>2, <1>6, StatedCapIsBroken
  <2>2. id = "TRV-003" /\ f.cap = Sentinel!Cap(Book[id], q.stay.city)
    BY <1>6, <2>1 DEF CapBroken
  <2> QED BY <1>1, <2>1, <2>2 DEF CityCap
<1>7. CASE o \in OverCap
  <2>1. CapBroken("TRV-003", q) \in fs
    BY <1>1, <1>2, <1>4, <1>7, BookAssumption, BrokenCapIsStated DEF CityCap
  <2>2. CapBroken("TRV-003", q).cap # None
    BY <1>1, <1>3, NoneAssumption DEF CapBroken, CityCap
  <2>3. CapBroken("TRV-003", q) \in broken
    BY <2>1, <2>2 DEF CapBroken
  <2>4. (CHOOSE f \in broken : TRUE) \in broken
    BY <2>3
  <2> QED BY <1>5, <1>6, <1>7, <2>4 DEF fs
<1>8. CASE o \notin OverCap
  <2>1. broken = {}
    BY <1>4, <1>6, <1>8
  <2> QED BY <1>5, <1>8, <2>1 DEF fs
<1> QED BY <1>7, <1>8

Threshold == Book["TRV-005"].auto_approve_below

(* A trip that costs the threshold or more needs an approval               *)
(* (_spend_threshold): Sentinel adds up what Ledger is asked for.          *)
LEMMA ThresholdNeedsApproval ==
  ASSUME NEW o \in Offer, NEW day, SpendTotal(o) >= Threshold
  PROVE  Sentinel!evaluate(ScreeningRequest(o, day)).requires_manager_approval
<1> DEFINE q == ScreeningRequest(o, day)
           warning == Sentinel!Finding("TRV-005", "warning", TRUE, None)
<1>1. Sentinel!_trip_total(q) = Ground + o.flights.total + LodgingTotal(o)
  BY RequestParts DEF Sentinel!_trip_total
<1>2. Sentinel!_trip_total(q) = SpendTotal(o) /\ SpendTotal(o) \in Nat
  BY <1>1, OfferIsTyped, BoundsAssumption DEF SpendTotal
<1>3. Threshold \in Nat
  BY BookAssumption DEF Threshold
<1>4. ~(Sentinel!_trip_total(q) < Threshold)
  BY <1>2, <1>3
<1> HIDE DEF q
<1>5. warning \in Sentinel!Handler("TRV-005", q)
  BY <1>4, BookAssumption DEF Sentinel!Handler, Sentinel!_spend_threshold, Threshold
<1>6. warning \in Sentinel!evaluate(q).findings /\ warning.approval
  BY <1>5, BookAssumption DEF Sentinel!evaluate
<1>7. Sentinel!evaluate(q).requires_manager_approval
  BY <1>6 DEF Sentinel!evaluate
<1> QED BY <1>7 DEF q

(* What the Concierge makes of a ruling on an offer.                       *)
RulingOn(o, day) ==
    LET verdict == Sentinel!evaluate(ScreeningRequest(o, day)) IN
    [stay |-> o, compliant |-> verdict.compliant,
     cap |-> _breached_lodging_cap(verdict.findings) # None,
     approval |-> verdict.requires_manager_approval]

(* The promise module Concierge takes for granted, kept by the rules for   *)
(* every policy book and every offer (rules.evaluate, node_screen).        *)
THEOREM RulingIsPromised ==
  ASSUME NEW o \in Offer, NEW day
  PROVE  /\ RulingOn(o, day) \in C!Rulings(o)
         /\ SpendTotal(o) >= Threshold => RulingOn(o, day).approval
<1> DEFINE q == ScreeningRequest(o, day)
           verdict == Sentinel!evaluate(q)
           r == RulingOn(o, day)
<1>1. verdict.compliant \in BOOLEAN /\ verdict.requires_manager_approval \in BOOLEAN
  BY DEF Sentinel!evaluate
<1>2. /\ r.stay = o /\ r.compliant = verdict.compliant
      /\ r.cap = (_breached_lodging_cap(Objections(o, day)) # None)
      /\ r.approval = verdict.requires_manager_approval
      /\ r \in [stay : Offer, compliant : BOOLEAN, cap : BOOLEAN, approval : BOOLEAN]
  BY <1>1 DEF RulingOn, Objections
<1>3. CityCap(o) # None
  BY CapIsAnAmount, BookAssumption, NoneAssumption DEF CityCap
<1>4. r.cap = (o \in OverCap)
  BY <1>2, <1>3, CapIsReadBack
<1>5. r.cap => ~r.compliant
  <2> SUFFICES ASSUME o \in OverCap PROVE ~verdict.compliant
    BY <1>2, <1>4
  <2>1. CityCap(o) \in Nat /\ o.rate \in Nat
    BY OfferIsTyped, CapIsAnAmount, BookAssumption DEF CityCap
  <2>2. ~(q.stay.rate <= Sentinel!Cap(Book["TRV-003"], q.stay.city)) /\ q.stay # None
    BY <2>1, RequestParts DEF OverCap, CityCap
  <2>3. CapBroken("TRV-003", q) \in verdict.findings
    BY <2>2, BookAssumption, BrokenCapIsStated
  <2>4. CapBroken("TRV-003", q).severity = "violation"
    BY DEF CapBroken
  <2> QED BY <2>3, <2>4 DEF Sentinel!evaluate
<1>6. ~r.compliant => r.approval
  BY <1>2, ViolationNeedsManager
<1>7. SpendTotal(o) >= Threshold => r.approval
  BY <1>2, ThresholdNeedsApproval
<1>8. r \in C!Rulings(o)
  BY <1>2, <1>4, <1>5, <1>6 DEF C!Rulings, C!Ruling
<1> QED BY <1>7, <1>8

-------------------------------------------------------------------------------
(* The assumptions of module Concierge are those of this one.              *)
LEMMA ConciergeAssumptions ==
    /\ CP!OverCapAssumption /\ CP!UsdAssumption /\ CP!MaxRestartsAssumption
    /\ CP!NoneAssumption
<1>1. CP!OverCapAssumption /\ CP!UsdAssumption /\ CP!MaxRestartsAssumption
  BY OfferIsTyped, BoundsAssumption
     DEF CP!OverCapAssumption, CP!UsdAssumption, CP!MaxRestartsAssumption, OverCap
<1>2. CP!NoneAssumption
  BY NoneAssumption
     DEF CP!NoneAssumption, C!Ruling, C!Verdict, C!TripState, C!Error, C!Message,
         CP!Ruling, CP!Verdict, CP!TripState, CP!Error, CP!Message
<1> QED BY <1>1, <1>2

(* C and CP are the same specification. *)
LEMMA SameConcierge ==
    /\ C!Init <=> CP!Init
    /\ [C!Next]_(C!vars) <=> [CP!Next]_(CP!vars)
<1>1. (UNCHANGED C!vars) <=> (UNCHANGED CP!vars)
  BY DEF C!vars, CP!vars
<1>2. C!Init <=> CP!Init
  BY DEF C!Init, CP!Init
<1>3. ASSUME NEW t \in Trip PROVE C!Plan(t) <=> CP!Plan(t)
  BY DEF C!Plan, CP!Plan, C!node_intake, CP!node_intake, C!At, CP!At,
         C!Leave, CP!Leave, C!node_source, CP!node_source,
         C!SourceFails, CP!SourceFails, C!node_screen, CP!node_screen,
         C!after_screen, CP!after_screen, C!Rulings, CP!Rulings,
         C!Ruling, CP!Ruling, C!ScreenFails, CP!ScreenFails,
         C!node_renegotiate, CP!node_renegotiate,
         C!RenegotiateFails, CP!RenegotiateFails, C!Pause, CP!Pause,
         C!node_assemble, CP!node_assemble, C!ItineraryStatus, CP!ItineraryStatus,
         C!Finish, CP!Finish, C!Raise, CP!Raise, C!CanRaise, CP!CanRaise
<1>4. ASSUME NEW t \in Trip PROVE C!Settle(t) <=> CP!Settle(t)
  BY DEF C!Settle, CP!Settle, C!AskLedger, CP!AskLedger, C!At, CP!At,
         C!LedgerReplies, CP!LedgerReplies, C!SpendRequest, CP!SpendRequest,
         C!node_authorise, CP!node_authorise, C!after_authorise,
         CP!after_authorise, C!node_confirm, CP!node_confirm,
         C!LedgerSilent, CP!LedgerSilent, C!Leave, CP!Leave
<1>5. C!Disturb <=> CP!Disturb
  BY DEF C!Disturb, CP!Disturb, C!Start, CP!Start, C!NewTrip, CP!NewTrip,
         C!Resume, CP!Resume, C!Message, CP!Message, C!_read_decision,
         CP!_read_decision, C!existing, CP!existing, C!ResumeLost,
         CP!ResumeLost, C!Cancel, CP!Cancel, C!Restart, CP!Restart,
         C!StartUnrecorded, CP!StartUnrecorded
<1>6. C!Next <=> CP!Next
  BY <1>3, <1>4, <1>5 DEF C!Next, CP!Next
<1> QED BY <1>1, <1>2, <1>6

-------------------------------------------------------------------------------
(* One offer is the other with a cheaper room in the same city. *)
Cheaper(new, old) ==
    /\ new.flights = old.flights
    /\ Facts[new.hotel].city = Facts[old.hotel].city
    /\ new.rate < old.rate

(* The findings are those of a ruling on the offer. *)
RuledOn(o, fs) == \E day \in Int : fs = Objections(o, day)

(* What a thread at node n with trip state tr has behind it when the last  *)
(* ruling left the findings fs: before the re-ask they are of the stay it  *)
(* holds, which breaks the cap; after it, of a dearer one; and a stay it   *)
(* holds after a re-ask keeps to the cap.                                  *)
Negotiated(n, tr, fs) ==
    /\ n \in {"intake", "source"} => ~tr.renegotiated
    /\ tr.renegotiated /\ tr.error = None => tr.stay \notin OverCap
    /\ n = "renegotiate" => tr.stay \in OverCap /\ RuledOn(tr.stay, fs)
    /\ n = "screen" /\ tr.renegotiated =>
          \E o \in Offer : RuledOn(o, fs) /\ Cheaper(tr.stay, o)
    /\ CP!Ruled(n, tr) /\ SpendTotal(tr.stay) >= Threshold => tr.ruling.approval

Deal(t) == trip[t] # None => Negotiated(node[t], trip[t], findings[t])

NInv ==
    /\ MarketIsPriced
    /\ CP!IInv
    /\ DOMAIN findings = Trip
    /\ \A t \in Trip : Deal(t)

LEMMA InitNInv == Init => NInv
<1> SUFFICES ASSUME Init PROVE NInv
  OBVIOUS
<1>1. CP!IInv
  BY SameConcierge, ConciergeAssumptions, CP!InitIInv DEF Init
<1>2. \A t \in Trip : Deal(t)
  BY DEF Init, C!Init, Deal
<1> QED BY <1>1, <1>2, InitPriced DEF NInv, Init

LEMMA Thread ==
  ASSUME NInv, NEW t \in Trip, live[t]
  PROVE  /\ trip[t] \in CP!TripState /\ trip[t] # None /\ task[t] = "working"
         /\ CP!ThreadInv(node[t], trip[t], said[t])
         /\ Negotiated(node[t], trip[t], findings[t])
BY ConciergeAssumptions, CP!LiveThread DEF NInv, Deal

(* The stay that is screened or re-asked for is an offer. *)
LEMMA HeldStay ==
  ASSUME NInv, NEW t \in Trip, live[t], node[t] \in {"screen", "renegotiate"}
  PROVE  trip[t].stay \in Offer
BY Thread DEF CP!ThreadInv, CP!Ruled

(* What the re-ask brings: a cheaper room that keeps to the cap, because   *)
(* the cap that was read back is the one that was broken, is enforced by   *)
(* the search, and judges the new room.                                    *)
LEMMA ReOfferRepairs ==
  ASSUME NInv, NEW t \in Trip, C!At(t, "renegotiate"),
         NEW h \in Proposable(market, EnforcedBrief(t)), NEW o,
         o = [flights |-> trip[t].stay.flights, hotel |-> h, rate |-> Rate(market, h)]
  PROVE  /\ trip[t].stay \in Offer /\ RuledOn(trip[t].stay, findings[t])
         /\ o \in Offer /\ o \notin OverCap /\ Cheaper(o, trip[t].stay)
<1> DEFINE old == trip[t].stay
           b == EnforcedBrief(t)
<1>1. live[t] /\ node[t] = "renegotiate"
  BY DEF C!At
<1>2. old \in Offer /\ old \in OverCap /\ RuledOn(old, findings[t])
  BY <1>1, Thread, HeldStay DEF Negotiated
<1>3. _breached_lodging_cap(findings[t]) = CityCap(old)
  BY <1>2, CapIsReadBack DEF RuledOn
<1>4. CityCap(old) \in Nat \ {0} /\ CityCap(old) # None
  BY CapIsAnAmount, BookAssumption, NoneAssumption DEF CityCap
<1>5. /\ b.enforce_cap /\ b.nightly_cap = CityCap(old)
      /\ b.city = Facts[old.hotel].city
  BY <1>3, <1>4 DEF EnforcedBrief
<1> HIDE DEF b
<1>6. MarketIsPriced /\ h \in Proposable(market, b)
  BY DEF NInv, b
<1>7. o \in Offer /\ o.flights = old.flights /\ o.hotel = h /\ o.rate = Rate(market, h)
  BY <1>2, <1>6, ReOfferIsAnOffer
<1>8. Rate(market, h) <= CityCap(old)
  BY <1>4, <1>5, <1>6, SoldOutAssumption, EnforcedCapHolds DEF MarketIsPriced
<1>9. Facts[h].city = Facts[old.hotel].city
  BY <1>5, <1>6, ProposableIsPriced
<1>10. CityCap(o) = CityCap(old)
  BY <1>7, <1>9 DEF CityCap
<1>11. o.rate \in Nat /\ old.rate \in Nat /\ o.rate <= CityCap(old) /\ old.rate > CityCap(old)
  BY <1>2, <1>7, <1>8, OfferIsTyped DEF OverCap, CityCap
<1>12. o \notin OverCap
  BY <1>4, <1>10, <1>11 DEF OverCap, CityCap
<1>13. Cheaper(o, old)
  BY <1>4, <1>7, <1>9, <1>11 DEF Cheaper
<1> QED BY <1>2, <1>7, <1>12, <1>13

-------------------------------------------------------------------------------
(* Every step of the composition is one the Concierge with open peers may  *)
(* take, or none of its own.                                               *)
LEMMA StepIsConcierge ==
  NInv /\ [Next]_vars => [C!Next]_(C!vars)
<1> SUFFICES ASSUME NInv, [Next]_vars PROVE [C!Next]_(C!vars)
  OBVIOUS
<1>1. ASSUME NEW t \in Trip, C!At(t, "source"), Source(t) PROVE C!Next
  <2>1. PICK o \in Offer : C!node_source(t, o)
    BY <1>1, ProposalIsAnOffer DEF Source, NInv
  <2> QED BY <1>1, <2>1 DEF C!Next, C!Plan, C!At
<1>2. ASSUME NEW t \in Trip, C!At(t, "renegotiate"), Renegotiate(t) PROVE C!Next
  <2>1. PICK o \in Offer : C!node_renegotiate(t, o)
    BY <1>2, ReOfferRepairs DEF Renegotiate
  <2> QED BY <1>2, <2>1 DEF C!Next, C!Plan, C!At
<1>3. ASSUME NEW t \in Trip, C!At(t, "screen"), Screen(t) PROVE C!Next
  <2>1. trip[t].stay \in Offer
    BY <1>3, HeldStay DEF C!At
  <2>2. C!node_screen(t, RulingOn(trip[t].stay, today))
    BY <1>3 DEF Screen, RulingOn
  <2>3. RulingOn(trip[t].stay, today) \in C!Rulings(trip[t].stay)
    BY <2>1, RulingIsPromised
  <2> QED BY <1>3, <2>2, <2>3 DEF C!Next, C!Plan, C!At
<1>4. ASSUME NEW t \in Trip, Proceed(t) PROVE C!Next
  BY <1>4 DEF Proceed, C!Next, C!Plan
<1>5. CASE Disturb
  BY <1>5 DEF Disturb, C!Next
<1>6. CASE MarketMoves \/ Midnight \/ UNCHANGED vars
  BY <1>6 DEF MarketMoves, Midnight, vars, concierge, C!vars
<1>7. \A t \in Trip : /\ Source(t) => C!At(t, "source")
                      /\ Renegotiate(t) => C!At(t, "renegotiate")
                      /\ Screen(t) => C!At(t, "screen")
  BY DEF Source, Renegotiate, Screen
<1> QED BY <1>1, <1>2, <1>3, <1>4, <1>5, <1>6, <1>7 DEF Next

-------------------------------------------------------------------------------
(* Negotiated says nothing of the journal. *)
LEMMA JournalAside ==
  ASSUME NEW n, NEW tr \in CP!TripState, NEW fs, NEW j, Negotiated(n, tr, fs)
  PROVE  Negotiated(n, [tr EXCEPT !.journal = j], fs)
<1> DEFINE new == [tr EXCEPT !.journal = j]
<1>1. /\ new.stay = tr.stay /\ new.ruling = tr.ruling
      /\ new.renegotiated = tr.renegotiated /\ new.error = tr.error
  BY DEF CP!TripState
<1> HIDE DEF new
<1>2. Negotiated(n, new, fs)
  BY <1>1 DEF Negotiated, CP!Ruled, CP!Clean
<1> QED BY <1>2 DEF new

(* A thread that carries an error is at the end, and owes nothing. *)
LEMMA ErrorOwesNothing ==
  ASSUME NEW tr, tr.error # None, NEW fs
  PROVE  Negotiated("end", tr, fs)
BY DEF Negotiated, CP!Ruled, CP!Clean

(* What is carried on from a node that had a ruling to one behind it. *)
LEMMA RulingCarriedOn ==
  ASSUME NEW n, NEW tr, NEW fs, Negotiated(n, tr, fs), CP!Ruled(n, tr),
         NEW m \in {"await_approval", "confirm", "assemble", "end"}, NEW new,
         new.stay = tr.stay, new.ruling = tr.ruling,
         new.renegotiated = tr.renegotiated, new.error = tr.error
  PROVE  Negotiated(m, new, fs)
BY DEF Negotiated

(* A node that leaves its thread as the next node expects it. *)
LEMMA LeaveDeals ==
  ASSUME NInv, NEW t \in Trip, live[t], NEW lines, NEW next,
         NEW update \in CP!TripState, C!Leave(t, update, lines, next),
         \A u \in Trip : u # t => findings'[u] = findings[u],
         Negotiated(next, update, findings'[t])
  PROVE  \A u \in Trip : Deal(u)'
<1> DEFINE new == [update EXCEPT !.journal = trip[t].journal + lines]
<1>1. /\ trip' = [trip EXCEPT ![t] = new]
      /\ node' = [node EXCEPT ![t] = next]
  BY DEF C!Leave
<1>2. Negotiated(next, new, findings'[t])
  BY JournalAside
<1> HIDE DEF new
<1>3. DOMAIN trip = Trip /\ DOMAIN node = Trip
  BY DEF NInv, CP!IInv, CP!TypeOK
<1>4. ASSUME NEW u \in Trip PROVE Deal(u)'
  <2>1. CASE u = t
    BY <1>1, <1>2, <1>3, <2>1 DEF Deal
  <2>2. CASE u # t
    BY <1>1, <1>3, <2>2 DEF Deal, NInv
  <2> QED BY <2>1, <2>2
<1> QED BY <1>4

(* A step that leaves every thread where it is, or takes it away. *)
LEMMA StandingDeals ==
  ASSUME NInv, findings' = findings,
         \A u \in Trip : trip'[u] = None \/ (trip'[u] = trip[u] /\ node'[u] = node[u])
  PROVE  \A u \in Trip : Deal(u)'
BY DEF NInv, Deal

LEMMA SourceDeals ==
  ASSUME NInv, NEW t \in Trip, Source(t)
  PROVE  DOMAIN findings' = Trip /\ \A u \in Trip : Deal(u)'
<1>1. PICK o \in Offer : C!node_source(t, o)
  BY ProposalIsAnOffer DEF Source, NInv
<1> DEFINE update == [trip[t] EXCEPT !.stay = o]
<1>2. /\ live[t] /\ node[t] = "source" /\ C!Leave(t, update, 1, "screen")
      /\ findings' = findings
  BY <1>1 DEF Source, C!node_source, C!At
<1>3. trip[t] \in CP!TripState /\ Negotiated("source", trip[t], findings[t])
  BY <1>2, Thread
<1>4. update \in CP!TripState /\ update.renegotiated = trip[t].renegotiated
  BY <1>3 DEF CP!TripState
<1>5. Negotiated("screen", update, findings[t])
  BY <1>3, <1>4 DEF Negotiated, CP!Ruled, CP!Clean
<1> QED BY <1>2, <1>4, <1>5, LeaveDeals DEF NInv

LEMMA RenegotiateDeals ==
  ASSUME NInv, NEW t \in Trip, Renegotiate(t)
  PROVE  DOMAIN findings' = Trip /\ \A u \in Trip : Deal(u)'
<1>1. PICK o \in Offer :
        /\ C!node_renegotiate(t, o) /\ o \notin OverCap
        /\ trip[t].stay \in Offer /\ RuledOn(trip[t].stay, findings[t])
        /\ Cheaper(o, trip[t].stay)
  BY ReOfferRepairs DEF Renegotiate
<1> DEFINE update == [trip[t] EXCEPT !.stay = o, !.renegotiated = TRUE]
<1>2. /\ live[t] /\ C!Leave(t, update, 1, "screen") /\ findings' = findings
  BY <1>1 DEF Renegotiate, C!node_renegotiate, C!At
<1>3. trip[t] \in CP!TripState
  BY <1>2, Thread
<1>4. update \in CP!TripState /\ update.stay = o
  BY <1>3 DEF CP!TripState
<1>5. Negotiated("screen", update, findings[t])
  BY <1>1, <1>4 DEF Negotiated, CP!Ruled, CP!Clean
<1> QED BY <1>2, <1>4, <1>5, LeaveDeals DEF NInv

LEMMA ScreenDeals ==
  ASSUME NInv, NEW t \in Trip, Screen(t)
  PROVE  DOMAIN findings' = Trip /\ \A u \in Trip : Deal(u)'
<1> DEFINE o == trip[t].stay
           r == RulingOn(o, today)
           update == [trip[t] EXCEPT !.ruling = r]
           next == C!after_screen(update)
<1>1. /\ live[t] /\ node[t] = "screen" /\ C!Leave(t, update, 1, next)
      /\ findings' = [findings EXCEPT ![t] = Objections(o, today)]
  BY DEF Screen, RulingOn, Objections, C!node_screen, C!At
<1>2. /\ trip[t] \in CP!TripState /\ Negotiated("screen", trip[t], findings[t])
      /\ trip[t].error = None
  BY <1>1, Thread DEF CP!ThreadInv
<1>3. o \in Offer
  BY <1>1, HeldStay
<1>4. /\ r \in C!Rulings(o)
      /\ SpendTotal(o) >= Threshold => r.approval
  BY <1>3, RulingIsPromised
<1>5. r \in CP!Ruling
  BY <1>4 DEF C!Rulings, C!Ruling, CP!Ruling
<1>6. /\ update \in CP!TripState /\ update.ruling = r /\ update.stay = o
      /\ update.renegotiated = trip[t].renegotiated /\ update.error = None
  BY <1>2, <1>5 DEF CP!TripState
<1>7. findings'[t] = Objections(o, today) /\ DOMAIN findings' = Trip
      /\ \A u \in Trip : u # t => findings'[u] = findings[u]
  BY <1>1 DEF NInv
<1>8. RuledOn(o, findings'[t])
  BY <1>7 DEF RuledOn, NInv, MarketIsPriced
<1>9. r.cap => o \in OverCap
  BY <1>4 DEF C!Rulings
<1> HIDE DEF update, r
<1>10. next \in {"renegotiate", "authorise"}
       /\ (next = "renegotiate" => r.cap)
  BY <1>6 DEF C!after_screen
<1>11. Negotiated(next, update, findings'[t])
  BY <1>2, <1>4, <1>6, <1>8, <1>9, <1>10 DEF Negotiated
<1> QED BY <1>1, <1>6, <1>7, <1>11, LeaveDeals

(* The nodes between a ruling and the end keep the stay and its ruling. *)
LEMMA SettleDeals ==
  ASSUME NInv, NEW t \in Trip, C!Settle(t) \/ C!node_assemble(t), findings' = findings
  PROVE  \A u \in Trip : Deal(u)'
<1> DEFINE Goal == \A u \in Trip : Deal(u)'
<1>1. CASE C!AskLedger(t)
  BY <1>1, StandingDeals DEF C!AskLedger
<1>2. ASSUME NEW update \in CP!TripState, live[t],
             node[t] \in {"authorise", "confirm", "assemble"},
             update.stay = trip[t].stay, update.ruling = trip[t].ruling,
             update.renegotiated = trip[t].renegotiated, update.error = trip[t].error,
             NEW next \in {"await_approval", "assemble", "end"}, NEW lines,
             C!Leave(t, update, lines, next)
      PROVE  Goal
  <2>1. Negotiated(next, update, findings[t])
    BY <1>2, Thread, RulingCarriedOn DEF CP!Ruled
  <2> QED BY <1>2, <2>1, LeaveDeals
<1>3. ASSUME NEW v \in C!LedgerReplies(C!SpendRequest(t)), NEW m \in {"authorise", "confirm"},
             live[t], node[t] = m,
             NEW next \in {"await_approval", "assemble", "end"},
             C!Leave(t, [trip[t] EXCEPT !.budget = v], 1, next)
      PROVE  Goal
  <2> DEFINE update == [trip[t] EXCEPT !.budget = v]
  <2>1. /\ trip[t] \in CP!TripState /\ trip[t].stay \in Offer
    BY <1>3, Thread DEF CP!ThreadInv, CP!Ruled
  <2>2. v \in CP!Verdict
    BY <2>1, OfferIsTyped
       DEF C!LedgerReplies, C!SpendRequest, CP!Verdict
  <2>3. /\ update \in CP!TripState /\ update.stay = trip[t].stay
        /\ update.ruling = trip[t].ruling /\ update.error = trip[t].error
        /\ update.renegotiated = trip[t].renegotiated
    BY <2>1, <2>2 DEF CP!TripState
  <2> HIDE DEF update
  <2> QED BY <1>2, <1>3, <2>3 DEF update
<1>4. ASSUME NEW v \in C!LedgerReplies(C!SpendRequest(t)),
             C!node_authorise(t, v) \/ C!node_confirm(t, v)
      PROVE  Goal
  <2>1. CASE C!node_authorise(t, v)
    BY <1>3, <2>1 DEF C!node_authorise, C!after_authorise, C!At
  <2>2. CASE C!node_confirm(t, v)
    BY <1>3, <2>2 DEF C!node_confirm, C!At
  <2> QED BY <1>4, <2>1, <2>2
<1>5. CASE C!node_assemble(t)
  <2> DEFINE update == [trip[t] EXCEPT !.status = C!ItineraryStatus(trip[t])]
  <2>1. live[t] /\ node[t] = "assemble" /\ C!Leave(t, update, 1, "end")
    BY <1>5 DEF C!node_assemble, C!At
  <2>2. trip[t] \in CP!TripState
    BY <2>1, Thread
  <2>3. C!ItineraryStatus(trip[t]) \in {"confirmed", "rejected", "awaiting_approval"}
    BY DEF C!ItineraryStatus
  <2>4. /\ update \in CP!TripState /\ update.stay = trip[t].stay
        /\ update.ruling = trip[t].ruling /\ update.error = trip[t].error
        /\ update.renegotiated = trip[t].renegotiated
    BY <2>2, <2>3 DEF CP!TripState
  <2> HIDE DEF update
  <2> QED BY <1>2, <2>1, <2>4
<1>6. CASE C!LedgerSilent(t)
  <2> DEFINE update == [trip[t] EXCEPT !.error = "no verdict"]
  <2>1. live[t] /\ C!Leave(t, update, 0, "end")
    BY <1>6 DEF C!LedgerSilent, C!At
  <2>2. trip[t] \in CP!TripState
    BY <2>1, Thread
  <2>3. "no verdict" \in CP!Error /\ "no verdict" # None
    BY ConciergeAssumptions DEF CP!Error, CP!NoneAssumption
  <2>4. update \in CP!TripState /\ update.error # None
    BY <2>2, <2>3 DEF CP!TripState
  <2> HIDE DEF update
  <2> QED BY <2>1, <2>4, ErrorOwesNothing, LeaveDeals
<1> QED BY <1>1, <1>4, <1>5, <1>6 DEF C!Settle

LEMMA ProceedDeals ==
  ASSUME NInv, NEW t \in Trip, Proceed(t)
  PROVE  \A u \in Trip : Deal(u)'
<1> DEFINE Goal == \A u \in Trip : Deal(u)'
<1>1. live[t] /\ findings' = findings
  BY DEF Proceed
<1>2. trip[t] \in CP!TripState /\ Negotiated(node[t], trip[t], findings[t])
  BY <1>1, Thread
<1>3. CASE C!node_intake(t)
  <2>1. node[t] = "intake" /\ C!Leave(t, trip[t], 1, "source")
    BY <1>3 DEF C!node_intake, C!At
  <2>2. Negotiated("source", trip[t], findings[t])
    BY <1>2, <2>1 DEF Negotiated, CP!Ruled, CP!Clean
  <2> QED BY <1>1, <1>2, <2>1, <2>2, LeaveDeals
<1>4. ASSUME NEW e \in CP!Error, NEW lines, NEW update \in CP!TripState,
             update.error = e, C!Leave(t, update, lines, "end")
      PROVE  Goal
  <2>1. update.error # None
    BY <1>4, ConciergeAssumptions DEF CP!NoneAssumption
  <2> QED BY <1>1, <1>4, <2>1, ErrorOwesNothing, LeaveDeals
<1>5. CASE C!SourceFails(t) \/ C!ScreenFails(t) \/ C!RenegotiateFails(t)
  <2>1. \A e \in CP!Error : /\ [trip[t] EXCEPT !.error = e] \in CP!TripState
                           /\ [trip[t] EXCEPT !.error = e].error = e
    BY <1>2 DEF CP!TripState
  <2>2. /\ "sourcing" \in CP!Error /\ "screening" \in CP!Error
        /\ "no stay" \in CP!Error
    BY DEF CP!Error
  <2>3. CASE C!SourceFails(t)
    BY <1>4, <2>1, <2>2, <2>3 DEF C!SourceFails
  <2>4. CASE C!ScreenFails(t)
    BY <1>4, <2>1, <2>2, <2>4 DEF C!ScreenFails
  <2>5. CASE C!RenegotiateFails(t)
    <3> DEFINE update == [trip[t] EXCEPT !.error = "no stay", !.renegotiated = TRUE]
    <3>1. C!Leave(t, update, 0, "end")
      BY <2>5 DEF C!RenegotiateFails
    <3>2. update \in CP!TripState /\ update.error = "no stay"
      BY <1>2, <2>2 DEF CP!TripState
    <3> HIDE DEF update
    <3> QED BY <1>4, <2>2, <3>1, <3>2
  <2> QED BY <1>5, <2>3, <2>4, <2>5
<1>6. CASE C!Settle(t) \/ C!node_assemble(t)
  BY <1>1, <1>6, SettleDeals
<1>7. CASE C!Pause(t) \/ C!Finish(t) \/ C!Raise(t)
  BY <1>1, <1>7, StandingDeals DEF C!Pause, C!Finish, C!Raise
<1> QED BY <1>3, <1>5, <1>6, <1>7 DEF Proceed

(* A new thread has everything before it; a resumed one keeps its stay and *)
(* its ruling, or is declined.                                             *)
LEMMA DisturbDeals ==
  ASSUME NInv, Disturb
  PROVE  \A u \in Trip : Deal(u)'
<1> DEFINE Goal == \A u \in Trip : Deal(u)'
<1>1. findings' = findings /\ DOMAIN trip = Trip /\ DOMAIN node = Trip
  BY DEF Disturb, NInv, CP!IInv, CP!TypeOK
<1>2. ASSUME NEW t \in Trip, C!Start(t) PROVE Goal
  <2>1. /\ trip' = [trip EXCEPT ![t] = C!NewTrip]
        /\ node' = [node EXCEPT ![t] = "intake"]
    BY <1>2 DEF C!Start
  <2>2. ASSUME NEW fs PROVE Negotiated("intake", C!NewTrip, fs)
    BY DEF C!NewTrip, Negotiated, CP!Ruled, CP!Clean
  <2>3. ASSUME NEW u \in Trip PROVE Deal(u)'
    <3>1. CASE u = t
      BY <1>1, <2>1, <2>2, <3>1 DEF Deal
    <3>2. CASE u # t
      BY <1>1, <2>1, <3>2 DEF Deal, NInv
    <3> QED BY <3>1, <3>2
  <2> QED BY <2>3
<1>3. ASSUME NEW t \in Trip, NEW m \in C!Message, C!Resume(t, m) PROVE Goal
  <2>1. /\ task[t] = "input_required" /\ trip[t] # None
        /\ \A u \in Trip : u # t => trip'[u] = trip[u] /\ node'[u] = node[u]
    BY <1>1, <1>3 DEF C!Resume
  <2>2. /\ trip[t] \in CP!TripState /\ node[t] = "await_approval"
        /\ Negotiated(node[t], trip[t], findings[t])
        /\ trip[t].error = None
    <3>1. CP!TypeOK /\ CP!TripInv(t) /\ Negotiated(node[t], trip[t], findings[t])
      BY <2>1 DEF NInv, Deal, CP!IInv
    <3>2. node[t] = "await_approval" /\ CP!ThreadInv(node[t], trip[t], said[t])
      BY <2>1, <3>1 DEF CP!TripInv, CP!TaskInv
    <3>3. trip[t].error = None
      BY <3>2 DEF CP!ThreadInv
    <3>4. trip[t] \in CP!TripState
      BY <2>1, <3>1, ConciergeAssumptions, CP!TripFields
    <3> QED BY <3>1, <3>2, <3>3, <3>4
  <2>3. /\ trip'[t].stay = trip[t].stay /\ trip'[t].ruling = trip[t].ruling
        /\ trip'[t].renegotiated = trip[t].renegotiated
        /\ trip'[t].error = IF m = "decline" THEN "declined" ELSE trip[t].error
        /\ node'[t] = IF m = "decline" THEN "end" ELSE "confirm"
    BY <1>1, <1>3, <2>2 DEF C!Resume, C!_read_decision, CP!TripState
  <2>4. Negotiated(node'[t], trip'[t], findings[t])
    <3>1. CASE m = "decline"
      <4>1. trip'[t].error # None
        BY <2>3, <3>1, ConciergeAssumptions DEF CP!NoneAssumption, CP!Error
      <4> QED BY <2>3, <3>1, <4>1, ErrorOwesNothing
    <3>2. CASE m # "decline"
      BY <2>2, <2>3, <3>2, RulingCarriedOn DEF CP!Ruled
    <3> QED BY <3>1, <3>2
  <2> QED BY <1>1, <2>1, <2>4 DEF Deal, NInv
<1>4. CASE \E t \in Trip : C!StartUnrecorded(t) \/ C!ResumeLost(t) \/ C!Cancel(t)
  BY <1>1, <1>4, StandingDeals DEF C!StartUnrecorded, C!ResumeLost, C!Cancel
<1>5. CASE C!Restart
  BY <1>1, <1>5, StandingDeals DEF C!Restart
<1> QED BY <1>2, <1>3, <1>4, <1>5 DEF Disturb, C!Disturb

LEMMA StepNInv ==
  NInv /\ [Next]_vars => NInv'
<1> SUFFICES ASSUME NInv, [Next]_vars PROVE NInv'
  OBVIOUS
<1>1. MarketIsPriced'
  BY StepPriced DEF NInv
<1>2. CP!IInv'
  BY StepIsConcierge, SameConcierge, ConciergeAssumptions, CP!StepPreserves DEF NInv
<1>3. DOMAIN findings' = Trip /\ \A t \in Trip : Deal(t)'
  <2>1. CASE MarketMoves \/ Midnight \/ UNCHANGED vars
    <3>1. findings' = findings /\ trip' = trip /\ node' = node
      BY <2>1 DEF MarketMoves, Midnight, vars, concierge
    <3> QED BY <3>1, StandingDeals DEF NInv
  <2>2. CASE (\E t \in Trip : Proceed(t)) \/ Disturb
    <3>1. DOMAIN findings' = Trip
      BY <2>2 DEF Proceed, Disturb, NInv
    <3> QED BY <2>2, <3>1, ProceedDeals, DisturbDeals
  <2> QED BY <2>1, <2>2, SourceDeals, RenegotiateDeals, ScreenDeals DEF Next
<1> QED BY <1>1, <1>2, <1>3 DEF NInv

LEMMA Inductive == Spec => []NInv
<1> QED BY InitNInv, StepNInv, PTL DEF Spec

-------------------------------------------------------------------------------
(* "Hearth never exceeds the cap when told to enforce it", all the way     *)
(* round (node_renegotiate, _breached_lodging_cap, Hearth's _filter): a    *)
(* stay that was re-asked for keeps to the cap Sentinel judges it by,      *)
(* whatever the market did and whichever policy book is in force.          *)
THEOREM NegotiationRepairs ==
  Spec => []RenegotiationRepairs
<1>1. NInv => RenegotiationRepairs
  BY DEF NInv, Deal, Negotiated, RenegotiationRepairs
<1> QED BY <1>1, Inductive, PTL

(* At or above the threshold nothing is confirmed without the approver's   *)
(* answer (_spend_threshold, node_authorise, node_confirm): the total that *)
(* Sentinel screens is the one Ledger is asked for, for every book.        *)
THEOREM NegotiationThresholdIsSigned ==
  Spec => []ThresholdIsSigned
<1>1. ASSUME NInv, NEW t \in Trip, C!Confirmed(t),
             SpendTotal(trip[t].stay) >= Book["TRV-005"].auto_approve_below
      PROVE  said[t] \in {"approve", "unclear"}
  <2>1. CP!IInv /\ Deal(t) /\ CP!Confirmed(t)
    BY <1>1 DEF NInv, C!Confirmed, CP!Confirmed
  <2>2. trip[t].ruling.approval => CP!LetPass(said[t])
    BY <2>1, ConciergeAssumptions, CP!ConfirmedThread
  <2>3. trip[t] # None /\ task[t] = "completed"
    BY <1>1 DEF C!Confirmed
  <2>4. CP!Clean(node[t], trip[t])
    BY <2>1, <2>3 DEF CP!IInv, CP!TripInv, CP!TaskInv
  <2>5. trip[t].ruling.approval
    BY <1>1, <2>1, <2>3, <2>4 DEF Deal, Negotiated, CP!Ruled, Threshold
  <2> QED BY <2>2, <2>5 DEF CP!LetPass
<1>2. NInv => ThresholdIsSigned
  BY <1>1 DEF ThresholdIsSigned
<1> QED BY <1>2, Inductive, PTL

(* What module Concierge takes for granted of Hearth and Sentinel, the     *)
(* searches and the rules deliver (node_source, node_screen,               *)
(* node_renegotiate): the composition implements the Concierge with open   *)
(* peers, for every market, timetable and policy book.                     *)
THEOREM NegotiationImplementsConcierge ==
  Spec => SentinelKeepsItsPromise
<1>1. Init => C!Init
  BY DEF Init
<1> QED BY <1>1, StepIsConcierge, Inductive, PTL
        DEF Spec, C!Spec, SentinelKeepsItsPromise

(* The confirmed itinerary is the one Sentinel ruled on and Ledger         *)
(* approved the total of (node_screen, node_authorise, node_confirm): the  *)
(* promise of the Concierge, with the real searches and rules in place.    *)
THEOREM NegotiationConfirmsWhatWasRuled ==
  Spec => []C!ConfirmedAsRuledAndFunded
<1>1. ASSUME NInv, NEW t \in Trip, C!Confirmed(t)
      PROVE  /\ trip[t].ruling.stay = trip[t].stay
             /\ trip[t].budget.decision = "approved"
             /\ trip[t].stay \in Offer
             /\ trip[t].budget.usd = SpendTotal(trip[t].stay)
  <2>1. CP!IInv /\ CP!Confirmed(t)
    BY <1>1 DEF NInv, C!Confirmed, CP!Confirmed
  <2>2. /\ trip[t].stay \in Offer /\ trip[t].ruling \in CP!Rulings(trip[t].stay)
        /\ trip[t].budget.decision = "approved"
        /\ trip[t].budget.usd
             = [o \in Offer |-> SpendTotal(o)][trip[t].stay]
    BY <2>1, ConciergeAssumptions, CP!ConfirmedThread
  <2> QED BY <2>2 DEF CP!Rulings
<1>2. NInv => C!ConfirmedAsRuledAndFunded
  BY <1>1 DEF C!ConfirmedAsRuledAndFunded
<1> QED BY <1>2, Inductive, PTL

(* With the real Hearth no room over the cap is ever confirmed, signed or  *)
(* not: module Concierge lets such a room pass once it was re-asked for    *)
(* and a human agreed (after_screen), but the re-ask never brings one.     *)
THEOREM NegotiationConfirmsNothingOverCap ==
  Spec => [](\A t \in Trip : C!Confirmed(t) => trip[t].stay \notin OverCap)
<1>1. ASSUME NInv, NEW t \in Trip, C!Confirmed(t)
      PROVE  trip[t].stay \notin OverCap
  <2>1. CP!IInv /\ Deal(t) /\ CP!Confirmed(t)
    BY <1>1 DEF NInv, C!Confirmed, CP!Confirmed
  <2>2. /\ trip[t].ruling \in CP!Rulings(trip[t].stay)
        /\ trip[t].ruling.cap => trip[t].renegotiated
    BY <2>1, ConciergeAssumptions, CP!ConfirmedThread
  <2>3. trip[t].ruling.cap = (trip[t].stay \in OverCap)
    BY <2>2 DEF CP!Rulings
  <2>4. trip[t] # None /\ task[t] = "completed"
    BY <1>1 DEF C!Confirmed
  <2>5. trip[t].error = None
    BY <2>1, <2>4 DEF CP!IInv, CP!TripInv, CP!TaskInv, CP!Clean
  <2> QED BY <2>1, <2>2, <2>3, <2>4, <2>5 DEF Deal, Negotiated
<1>2. NInv => \A t \in Trip : C!Confirmed(t) => trip[t].stay \notin OverCap
  BY <1>1
<1> QED BY <1>2, Inductive, PTL

-------------------------------------------------------------------------------
(* With a cheaper room in the same city and the same flights, Sentinel     *)
(* finds nothing new but what it reads off the calendar.                   *)
LEMMA NothingNew ==
  ASSUME NEW o \in Offer, NEW old \in Offer, Cheaper(o, old),
         NEW day, NEW before, NEW f \in Objections(o, day),
         f \notin Objections(old, before)
  PROVE  f.severity = "info" \/ Calendar(f.clause)
<1> DEFINE q == ScreeningRequest(o, day)
           p == ScreeningRequest(old, before)
<1>1. /\ p.grade = q.grade /\ p.flights = q.flights /\ p.ground = q.ground
      /\ q.stay # None /\ p.stay # None /\ p.stay.city = q.stay.city
      /\ q.stay.rate = o.rate /\ p.stay.rate = old.rate
  BY RequestParts DEF Cheaper, ScreeningRequest, FlightsOf
<1>2. o.rate \in Nat /\ old.rate \in Nat /\ o.rate < old.rate
  BY OfferIsTyped DEF Cheaper
<1>3. Sentinel!_trip_total(q) \in Nat /\ Sentinel!_trip_total(p) \in Nat
      /\ Sentinel!_trip_total(q) < Sentinel!_trip_total(p)
  <2>1. /\ Sentinel!_trip_total(q) = Ground + o.flights.total + LodgingTotal(o)
        /\ Sentinel!_trip_total(p) = Ground + old.flights.total + LodgingTotal(old)
    BY RequestParts DEF Sentinel!_trip_total
  <2>2. LodgingTotal(o) < LodgingTotal(old)
    BY <1>2, NightsAssumption DEF LodgingTotal
  <2>3. /\ o.flights.total \in Nat /\ old.flights.total = o.flights.total
        /\ LodgingTotal(o) \in Nat /\ LodgingTotal(old) \in Nat
    BY OfferIsTyped DEF Cheaper
  <2> QED BY <2>1, <2>2, <2>3, BoundsAssumption
<1>4. /\ f \in Sentinel!_entry_findings(q)
               \cup UNION {Sentinel!Handler(id, q) : id \in DOMAIN Book}
      /\ f \notin UNION {Sentinel!Handler(id, p) : id \in DOMAIN Book}
  BY DEF Objections, Sentinel!evaluate
<1> HIDE DEF q, p
<1>5. CASE f \in Sentinel!_entry_findings(q)
  BY <1>5 DEF Sentinel!_entry_findings, Calendar
<1>6. ASSUME NEW id \in DOMAIN Book, f \in Sentinel!Handler(id, q),
             f \notin Sentinel!Handler(id, p)
      PROVE  f.severity = "info" \/ Calendar(f.clause)
  <2> DEFINE rule == Book[id]
  <2>1. CASE rule.type = "cabin_entitlement"
    <3>1. Sentinel!_cabin_entitlement(id, rule, q)
            = Sentinel!_cabin_entitlement(id, rule, p)
      BY <1>1 DEF Sentinel!_cabin_entitlement, Sentinel!Legs
    <3> QED BY <1>6, <2>1, <3>1 DEF Sentinel!Handler
  <2>2. CASE rule.type = "preferred_carrier"
    BY <1>1, <1>6, <2>2
       DEF Sentinel!Handler, Sentinel!_preferred_carrier, Sentinel!Legs
  <2>3. CASE rule.type = "lodging_cap"
    <3> DEFINE cap == Sentinel!Cap(rule, q.stay.city)
    <3>1. cap \in Nat /\ Sentinel!Cap(rule, p.stay.city) = cap
      BY <1>1, <2>3, CapIsAnAmount
    <3>2. Sentinel!Handler(id, q) = Sentinel!_lodging_cap(id, rule, q)
          /\ Sentinel!Handler(id, p) = Sentinel!_lodging_cap(id, rule, p)
      BY <2>3 DEF Sentinel!Handler
    <3> HIDE DEF cap, rule
    <3>3. CASE q.stay.rate <= cap
      BY <1>1, <1>6, <3>2, <3>3 DEF Sentinel!_lodging_cap, cap
    <3>4. CASE ~(q.stay.rate <= cap)
      <4>1. ~(p.stay.rate <= cap)
        BY <1>1, <1>2, <3>1, <3>4
      <4> QED BY <1>1, <1>6, <3>1, <3>2, <3>4, <4>1
              DEF Sentinel!_lodging_cap, cap
    <3> QED BY <3>3, <3>4
  <2>4. CASE rule.type \in {"advance_purchase", "refundable_window"}
    BY <1>6, <2>4 DEF Sentinel!Handler, Sentinel!_advance_purchase,
                      Sentinel!_refundable_window, Calendar
  <2>5. CASE rule.type = "spend_threshold"
    <3>1. rule.auto_approve_below \in Nat
      BY <2>5, BookAssumption
    <3>2. Sentinel!Handler(id, q) = Sentinel!_spend_threshold(id, rule, q)
          /\ Sentinel!Handler(id, p) = Sentinel!_spend_threshold(id, rule, p)
      BY <2>5 DEF Sentinel!Handler
    <3> HIDE DEF rule
    <3>3. CASE Sentinel!_trip_total(q) < rule.auto_approve_below
      BY <1>6, <3>2, <3>3 DEF Sentinel!_spend_threshold
    <3>4. CASE ~(Sentinel!_trip_total(q) < rule.auto_approve_below)
      <4>1. ~(Sentinel!_trip_total(p) < rule.auto_approve_below)
        BY <1>3, <3>1, <3>4
      <4> QED BY <1>6, <3>2, <3>4, <4>1 DEF Sentinel!_spend_threshold
    <3> QED BY <3>3, <3>4
  <2>6. CASE rule.type = "ground_cap"
    BY <1>1, <1>6, <2>6 DEF Sentinel!Handler, Sentinel!_ground_cap
  <2>7. CASE rule.type = "carbon_ceiling"
    BY <1>1, <1>6, <2>7 DEF Sentinel!Handler, Sentinel!_carbon_ceiling
  <2>8. CASE rule.type \notin {"cabin_entitlement", "preferred_carrier",
               "lodging_cap", "advance_purchase", "refundable_window",
               "spend_threshold", "ground_cap", "carbon_ceiling"}
    BY <1>6, <2>8 DEF Sentinel!Handler
  <2> QED BY <2>1, <2>2, <2>3, <2>4, <2>5, <2>6, <2>7, <2>8
<1> QED BY <1>4, <1>5, <1>6

(* A step that goes on from a screening or a re-ask is that trip's own.    *)
LEMMA OwnMove ==
  ASSUME NInv, [Next]_vars, NEW t \in Trip, NEW n \in {"screen", "renegotiate"},
         C!At(t, n), node'[t] \notin {n, "end"}
  PROVE  /\ n = "screen" => Screen(t)
         /\ n = "renegotiate" => Renegotiate(t)
<1> DEFINE Goal == (n = "screen" => Screen(t)) /\ (n = "renegotiate" => Renegotiate(t))
<1>1. live[t] /\ node[t] = n /\ task[t] = "working" /\ DOMAIN node = Trip
  BY Thread DEF C!At, NInv, CP!IInv, CP!TypeOK
<1>2. node' # node
  BY <1>1
<1>3. ASSUME NEW u \in Trip, NEW m, node' = [node EXCEPT ![u] = m]
      PROVE  u = t /\ m \notin {n, "end"}
  BY <1>1, <1>3
<1>4. ASSUME NEW u \in Trip, Source(u) \/ Renegotiate(u) \/ Screen(u) PROVE Goal
  <2>1. u = t
    BY <1>3, <1>4 DEF Source, Renegotiate, Screen, C!node_source,
                      C!node_renegotiate, C!node_screen, C!Leave
  <2> QED BY <1>1, <1>4, <2>1 DEF Source, Renegotiate, Screen, C!At
<1>5. ASSUME NEW u \in Trip, Proceed(u) PROVE FALSE
  <2>1. CASE C!AskLedger(u) \/ C!Pause(u) \/ C!Finish(u) \/ C!Raise(u)
    BY <1>2, <2>1 DEF C!AskLedger, C!Pause, C!Finish, C!Raise
  <2>2. CASE C!SourceFails(u) \/ C!ScreenFails(u) \/ C!RenegotiateFails(u)
             \/ C!LedgerSilent(u) \/ C!node_assemble(u)
    BY <1>3, <2>2 DEF C!SourceFails, C!ScreenFails, C!RenegotiateFails,
                      C!LedgerSilent, C!node_assemble, C!Leave
  <2>3. CASE \/ C!node_intake(u)
             \/ \E v : C!node_authorise(u, v) \/ C!node_confirm(u, v)
    <3>1. u = t
      BY <1>3, <2>3 DEF C!node_intake, C!node_authorise, C!node_confirm, C!Leave
    <3> QED BY <1>1, <2>3, <3>1
            DEF C!node_intake, C!node_authorise, C!node_confirm, C!At
  <2> QED BY <1>5, <2>1, <2>2, <2>3 DEF Proceed, C!Settle
<1>6. CASE Disturb
  <2>1. ASSUME NEW u \in Trip, C!Start(u) PROVE FALSE
    BY <1>1, <1>3, <2>1 DEF C!Start
  <2>2. ASSUME NEW u \in Trip, NEW m \in C!Message, C!Resume(u, m) PROVE FALSE
    BY <1>1, <1>3, <2>2 DEF C!Resume
  <2>3. CASE C!Restart \/ \E u \in Trip :
               C!StartUnrecorded(u) \/ C!ResumeLost(u) \/ C!Cancel(u)
    BY <1>2, <2>3 DEF C!Restart, C!StartUnrecorded, C!ResumeLost, C!Cancel
  <2> QED BY <1>6, <2>1, <2>2, <2>3 DEF Disturb, C!Disturb
<1>7. CASE MarketMoves \/ Midnight \/ UNCHANGED vars
  BY <1>2, <1>7 DEF MarketMoves, Midnight, vars, concierge
<1> QED BY <1>4, <1>5, <1>6, <1>7 DEF Next

(* Renegotiating only helps (node_renegotiate and the second node_screen): *)
(* what Sentinel objects to the second time it objected to the first, but  *)
(* for what it reads off the calendar, and the trip has become cheaper,    *)
(* whatever the market did in between and whatever the clauses say.        *)
THEOREM NegotiationOnlyHelps ==
  Spec => RenegotiationOnlyHelps
<1>1. ASSUME NInv, [Next]_vars, NEW t \in Trip, C!At(t, "screen"),
             node'[t] = "authorise", trip[t].renegotiated,
             NEW f \in findings'[t] \ findings[t]
      PROVE  f.severity = "info" \/ Calendar(f.clause)
  <2>1. Screen(t)
    BY <1>1, OwnMove
  <2>2. findings'[t] = Objections(trip[t].stay, today)
    BY <1>1, <2>1 DEF Screen, Objections, NInv
  <2>3. trip[t].stay \in Offer /\ Negotiated("screen", trip[t], findings[t])
    BY <1>1, HeldStay, Thread DEF C!At
  <2>4. PICK old \in Offer : RuledOn(old, findings[t]) /\ Cheaper(trip[t].stay, old)
    BY <1>1, <2>3 DEF Negotiated
  <2>5. PICK before \in Int : findings[t] = Objections(old, before)
    BY <2>4 DEF RuledOn
  <2> QED BY <1>1, <2>2, <2>3, <2>4, <2>5, NothingNew
<1>2. ASSUME NInv, [Next]_vars, NEW t \in Trip, C!At(t, "renegotiate"),
             node'[t] = "screen"
      PROVE  SpendTotal(trip'[t].stay) < SpendTotal(trip[t].stay)
  <2>1. Renegotiate(t)
    BY <1>2, OwnMove
  <2>2. PICK o \in Offer : /\ C!node_renegotiate(t, o) /\ trip[t].stay \in Offer
                           /\ Cheaper(o, trip[t].stay)
    BY <1>2, <2>1, ReOfferRepairs DEF Renegotiate
  <2>3. trip[t] \in CP!TripState /\ DOMAIN trip = Trip
    BY <1>2, Thread DEF C!At, NInv, CP!IInv, CP!TypeOK
  <2>4. trip'[t].stay = o
    BY <2>2, <2>3 DEF C!node_renegotiate, C!Leave, CP!TripState
  <2>5. /\ o.rate \in Nat /\ trip[t].stay.rate \in Nat
        /\ o.rate < trip[t].stay.rate
        /\ o.flights.total \in Nat /\ trip[t].stay.flights.total = o.flights.total
        /\ LodgingTotal(o) \in Nat /\ LodgingTotal(trip[t].stay) \in Nat
    BY <2>2, OfferIsTyped DEF Cheaper
  <2>6. LodgingTotal(o) < LodgingTotal(trip[t].stay)
    BY <2>5, NightsAssumption DEF LodgingTotal
  <2> QED BY <2>4, <2>5, <2>6, BoundsAssumption DEF SpendTotal
<1>3. NInv /\ [Next]_vars =>
        \A t \in Trip :
          /\ C!At(t, "screen") /\ node'[t] = "authorise" /\ trip[t].renegotiated =>
                \A f \in findings'[t] \ findings[t] :
                    f.severity = "info" \/ Calendar(f.clause)
          /\ C!At(t, "renegotiate") /\ node'[t] = "screen" =>
                SpendTotal(trip'[t].stay) < SpendTotal(trip[t].stay)
  BY <1>1, <1>2
<1> QED BY <1>3, Inductive, PTL DEF Spec, RenegotiationOnlyHelps

-------------------------------------------------------------------------------
(* Whatever sells out or changes its price, Hearth's own choice (the top   *)
(* of rank over the rows of search_hotels) is never a room for which the   *)
(* traveller pays as much and gets less than for another usable room.      *)
THEOREM NegotiationNoBetterRoom ==
  Spec => []NoBetterRoomLeftOut
<1>1. MarketIsPriced => NoBetterRoomLeftOut
  BY TopPickUndominated DEF MarketIsPriced, NoBetterRoomLeftOut
<1> QED BY <1>1, InitPriced, StepPriced, PTL DEF Spec

(* Whatever sells out or changes its fare, the flight Skyline puts at the  *)
(* top (search_flights, _trim) is the cheapest of its cabin on offer.      *)
THEOREM NegotiationCheapestInCabin ==
  Spec => []CheapestInItsCabin
<1>1. MarketIsPriced => CheapestInItsCabin
  BY TopFareCheapestInCabin DEF MarketIsPriced, CheapestInItsCabin
<1> QED BY <1>1, InitPriced, StepPriced, PTL DEF Spec

(* Nor does it ever put one there that costs more than 1.8 times an        *)
(* economy fare on sale, unless that cabin was asked for.                  *)
THEOREM NegotiationDefensible ==
  Spec => []UpgradeIsDefensible
<1>1. MarketIsPriced => UpgradeIsDefensible
  BY TopFareDefensible DEF MarketIsPriced, UpgradeIsDefensible
<1> QED BY <1>1, InitPriced, StepPriced, PTL DEF Spec
================================================================================
