----------------------------- MODULE IntakeProofs -----------------------------
(***************************************************************************)
(* What is sourced is one trip, near the site it names, for every sentence *)
(* and every reading of it, every timetable, directory and inventory, and  *)
(* whatever sells out meanwhile.                                           *)
(*                                                                         *)
(* Nothing is assumed of the request but that its dates are dates.  That   *)
(* the three answers fit together follows from each of them fitting the    *)
(* request, and from the one request that sells nobody a room: a stay of   *)
(* no night.                                                               *)
(***************************************************************************)
EXTENDS Intake, FiniteSetTheorems, TLAPS

Dated(r) == r.depart \in Int /\ r.return \in Int

(* A room for the days and the place of the request. *)
Fits(s, r) ==
    /\ s.hotel \in Hotel
    /\ HotelFacts[s.hotel].city =
          IF r.dest \in DOMAIN Airports THEN Airports[r.dest].city ELSE r.dest
    /\ r.venue \in DOMAIN Venues => Distance[s.hotel][r.venue] <= MaxDistance
    /\ r.depart < r.return
    /\ s.nights = r.return - r.depart

(* The run has a request and has not failed. *)
Open == step \in {"traveller", "ground", "source", "sourced"}

IInv ==
    /\ utterance \in DOMAIN Utterances
    /\ step = "parse" => outbound = None /\ inbound = None /\ stay = None
    /\ Open => Dated(request)
    /\ Open /\ outbound # None =>
          outbound \in Flight
          /\ Leaves(outbound, request.origin, request.dest, request.depart)
    /\ Open /\ inbound # None =>
          /\ outbound # None /\ inbound \in Flight
          /\ Leaves(inbound, request.dest, request.origin, request.return)
    /\ Open /\ stay # None => Fits(stay, request)
    /\ IsSourced => inbound # None /\ stay # None

-------------------------------------------------------------------------------
(* A flight of a shortlist is on the route and the day of its search       *)
(* (search_flights, _trim, _pick).                                         *)
LEMMA BookableLeaves ==
  ASSUME NEW r, NEW dir, NEW f \in Skyline(r)!Bookable(fares, FlightBrief, dir)
  PROVE  f \in Flight /\ Direction(r, f) = dir
<1>1. f \in Skyline(r)!OnOffer(fares, FlightBrief, dir)
  BY DEF Skyline!Bookable, Skyline!_trim, Skyline!FirstRows, Skyline!FareCandidates,
         Skyline!InCabin, Skyline!search_flights, Skyline!OfCabin
<1>2. f \in Flight /\ FlightFactsFor(r)[f].direction = dir
  BY <1>1 DEF Skyline!OnOffer
<1> QED BY <1>2 DEF FlightFactsFor

(* A stay of no night is priced for no hotel: BETWEEN is empty and HAVING  *)
(* wants one row at least (search_hotels).                                 *)
LEMMA NoNightsNoRoom ==
  ASSUME NEW r, Dated(r), r.return <= r.depart, NEW h \in Hotel
  PROVE  Market(r)[h] = SoldOut
<1>1. NightsPriced(r) = {}
  BY DEF NightsPriced, Dated
<1>2. StayNights(r) = 1
  BY DEF StayNights, Dated
<1>3. Cardinality({}) = 0
  BY FS_EmptySet
<1>4. Cardinality(NightsPriced(r) \cap Day) # StayNights(r)
  <2>1. NightsPriced(r) \cap Day = {}
    BY <1>1
  <2> QED BY <1>2, <1>3, <2>1
<1> QED BY <1>4 DEF Market

(* A room of a shortlist is in the city of the destination, within the     *)
(* limit of a site on file, and for the nights of the request (shortlist,  *)
(* assemble).                                                              *)
LEMMA ProposableFits ==
  ASSUME Dated(request),
         NEW h \in Hearth(request)!Proposable(Market(request), StayBrief(request))
  PROVE  Fits([hotel |-> h, nights |-> StayNights(request)], request)
<1> DEFINE b == StayBrief(request)
<1>1. /\ h \in Hearth(request)!Matches(Market(request), b)
      /\ Hearth(request)!Km(b, h) <= b.max_distance
  BY DEF Hearth!Proposable, Hearth!shortlists, Hearth!FirstRows, Hearth!Candidates,
         Hearth!search_hotels, Hearth!Usable
<1>2. /\ h \in Hotel /\ Market(request)[h] # SoldOut
      /\ FactsFor(request)[h].city = DestinationCity
  BY <1>1 DEF Hearth!Matches, StayBrief
<1>3. HotelFacts[h].city = DestinationCity
  BY <1>2 DEF FactsFor
<1>4. ASSUME request.venue \in DOMAIN Venues
      PROVE  Distance[h][request.venue] <= MaxDistance
  BY <1>1, <1>2, <1>4 DEF Hearth!Km, StayBrief, FactsFor
<1>5. request.depart < request.return
  BY <1>2, NoNightsNoRoom DEF Dated
<1>6. StayNights(request) = request.return - request.depart
  BY <1>5 DEF StayNights, Dated
<1> QED BY <1>2, <1>3, <1>4, <1>5, <1>6 DEF Fits, DestinationCity

-------------------------------------------------------------------------------
LEMMA InitIInv == Init => IInv
BY DEF Init, IInv, Open, IsSourced

(* Whichever way the request is read, its dates are dates. *)
LEMMA ReadPreserves ==
  ASSUME IInv, NEW parsed, Dated(parsed), Read(parsed) PROVE IInv'
BY DEF IInv, Read, Open, IsSourced, Dated, inventory

LEMMA StepPreserves == IInv /\ [Next]_vars => IInv'
<1> SUFFICES ASSUME IInv, [Next]_vars PROVE IInv'
  OBVIOUS
<1> USE DEF inventory, trip
<1>1. CASE ParseWithModel
  <2>1. PICK parsed \in Utterances[utterance].parses : Read(parsed)
    BY <1>1 DEF ParseWithModel, Said
  <2>2. Dated(parsed)
    BY DatesAssumption DEF IInv, Dated
  <2> QED BY <2>1, <2>2, ReadPreserves
<1>2. CASE ParseByHand
  <2>1. PICK parsed : /\ Read(parsed) /\ parsed.depart = Today + LeadDays
                      /\ parsed.return = Today + LeadDays + StayDays
    BY <1>2 DEF ParseByHand
  <2>2. Dated(parsed)
    BY <2>1, DatesAssumption, LeadAssumption DEF Dated
  <2> QED BY <2>1, <2>2, ReadPreserves
<1>3. CASE LookupTraveller \/ CheapestGround \/ Fails \/ RoomSellsOut \/ FlightSellsOut
  BY <1>3 DEF LookupTraveller, CheapestGround, Fails, RoomSellsOut, FlightSellsOut,
              IInv, Open, IsSourced, Leaves, DepartureDay
<1>4. CASE FindOutbound
  <2>1. outbound' \in Flight /\ Direction(request, outbound') = "outbound"
    BY <1>4, BookableLeaves DEF FindOutbound
  <2>2. Leaves(outbound', request.origin, request.dest, request.depart)
    BY <2>1 DEF Direction
  <2> QED BY <1>4, <2>1, <2>2 DEF FindOutbound, IInv, Open, IsSourced, Leaves, DepartureDay
<1>5. CASE FindInbound
  <2>1. inbound' \in Flight /\ Direction(request, inbound') = "return"
    BY <1>5, BookableLeaves DEF FindInbound
  <2>2. Leaves(inbound', request.dest, request.origin, request.return)
    BY <2>1 DEF Direction
  <2> QED BY <1>5, <2>1, <2>2 DEF FindInbound, IInv, Open, IsSourced, Leaves, DepartureDay
<1>6. CASE FindStay
  <2>1. Dated(request)
    BY <1>6 DEF FindStay, IInv, Open
  <2>2. Fits(stay', request)
    BY <1>6, <2>1, ProposableFits DEF FindStay
  <2> QED BY <1>6, <2>2 DEF FindStay, IInv, Open, IsSourced, Fits, Leaves, DepartureDay
<1>7. CASE Sourced
  BY <1>7 DEF Sourced, IInv, Open, IsSourced, Leaves, DepartureDay
<1>8. CASE UNCHANGED vars
  BY <1>8 DEF vars, IInv, Open, IsSourced, Leaves, DepartureDay
<1> QED BY <1>1, <1>2, <1>3, <1>4, <1>5, <1>6, <1>7, <1>8 DEF Next, Run

LEMMA Inductive == Spec => []IInv
<1> QED BY InitIInv, StepPreserves, PTL DEF Spec

-------------------------------------------------------------------------------
(* What the gather of node_source puts together is one trip, whatever the  *)
(* model made of the sentence: there and back, a bed where the traveller   *)
(* lands, as many nights as lie between the two departure boards.          *)
THEOREM SourcedIsOneTrip == Spec => []OneTrip
<1>1. ASSUME IInv, IsSourced PROVE OneTrip
  <2>1. /\ outbound \in Flight /\ inbound \in Flight /\ Fits(stay, request)
        /\ Leaves(outbound, request.origin, request.dest, request.depart)
        /\ Leaves(inbound, request.dest, request.origin, request.return)
    BY <1>1 DEF IInv, Open, IsSourced
  <2>2. /\ Timetable[outbound].dest \in DOMAIN Airports
        /\ Timetable[outbound].origin # Timetable[outbound].dest
    BY <2>1, TimetableAssumption
  <2> QED BY <2>1, <2>2 DEF OneTrip, Fits, Leaves
<1>2. IInv => OneTrip
  BY <1>1 DEF OneTrip
<1> QED BY <1>2, Inductive, PTL

(* Whoever names a site on file sleeps within the limit of it, also when   *)
(* the model sent the flights somewhere else (search_hotels, shortlist).   *)
THEOREM SourcedNearTheVenue == Spec => []SleepsNearTheVenue
<1>1. IInv => SleepsNearTheVenue
  BY DEF IInv, Open, IsSourced, SleepsNearTheVenue, Fits
<1> QED BY <1>1, Inductive, PTL

(* A trip that comes back on the day it leaves, or before it, is never     *)
(* sourced, although no code of the Concierge compares the two dates.      *)
THEOREM SourcedSpendsANight ==
  Spec => [](IsSourced => request.depart < request.return)
<1>1. IInv => (IsSourced => request.depart < request.return)
  BY DEF IInv, Open, IsSourced, Fits
<1> QED BY <1>1, Inductive, PTL
===============================================================================
