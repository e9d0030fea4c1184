-------------------------------- MODULE Intake --------------------------------
(***************************************************************************)
(* From a sentence to a sourced trip: the Concierge reads a request out of *)
(* it, with a language model or, when that is off or raises, by hand,      *)
(* looks up the traveller and the ground transport, and has Skyline and    *)
(* Hearth search the inventory for what the request says.  No step checks  *)
(* the dates, the airports or the venue of the request: what becomes of a  *)
(* wrong one depends on what the searches make of it.                      *)
(*                                                                         *)
(* Days are numbered, times are hours of UTC, distances tenths of a        *)
(* kilometre.  Airport codes are in upper case, as parse makes them; venue *)
(* ids are left as they are, so one in another spelling is another id.     *)
(***************************************************************************)
EXTENDS Integers, FiniteSetsExt

CONSTANTS
    None, SoldOut,
    Airports,         \* city and offset from UTC of each airport on file
    Venues,           \* nearest airport of each customer site on file
    VenueIds,         \* _VENUE_IDS, in order
    Employee,         \* addresses in the directory
    Ground,           \* mode and price of the transport on file for a city
    Hotel, HotelFacts,   \* city, stars, amenities
    Distance,         \* of each hotel from each venue on file
    Flight, Timetable,   \* origin, dest, departs, minutes, cabin, stops, carrier
    Day,              \* the nights that are priced
    Rates, Fares,     \* what a night and a flight cost
    Utterances,       \* what each says: see Said
    UsesLLM,          \* settings().uses_llm
    Today, LeadDays, StayDays,        \* date.today(), 28 and 3 in the code
    DefaultTraveller, DefaultOrigin,  \* of a request read by hand
    CapHint, MaxDistance, PreferredCarriers,
    InventoryLimit, FareLimit, ShortlistSize,
    MaxMoves          \* bound: rooms and flights that sell out

ASSUME LeadAssumption == LeadDays \in Nat /\ StayDays \in Nat \ {0}
(* A date that was read is a date. *)
ASSUME DatesAssumption ==
    /\ Today \in Int
    /\ \A u \in DOMAIN Utterances : \A parsed \in Utterances[u].parses :
          parsed.depart \in Int /\ parsed.return \in Int

(* A flight goes from one airport on file to another (routes.json). *)
ASSUME TimetableAssumption ==
    \A f \in Flight :
        /\ {Timetable[f].origin, Timetable[f].dest} \subseteq DOMAIN Airports
        /\ Timetable[f].origin # Timetable[f].dest

ASSUME VenuesAssumption == \A v \in DOMAIN Venues : Venues[v] \in DOMAIN Airports
ASSUME NoneAssumption ==
    None \notin DOMAIN Venues \cup Flight \cup Hotel \cup DOMAIN Airports

VARIABLES
    utterance,        \* the traveller's sentence
    step,             \* where the run is
    request,          \* the TripRequest, or None
    ground,           \* ground_usd, or None
    outbound, inbound,   \* the flights Skyline settles on, or None
    stay,             \* the room Hearth settles on, or None
    rates, fares,     \* the inventory
    moves             \* what has sold out so far

trip == <<utterance, step, request, ground, outbound, inbound, stay>>
inventory == <<rates, fares, moves>>
vars == <<trip, inventory>>

(* What a sentence is: the answers (parses) the model may give to it, and  *)
(* the sites it mentions by their id or their city.                        *)
Said == Utterances[utterance]

Init ==
    /\ utterance \in DOMAIN Utterances
    /\ step = "parse"
    /\ request = None /\ ground = None
    /\ outbound = None /\ inbound = None /\ stay = None
    /\ rates = Rates /\ fares = Fares
    /\ moves = 0

-------------------------------------------------------------------------------
Read(parsed) ==
    /\ step = "parse"
    /\ request' = parsed
    /\ step' = "traveller"
    /\ UNCHANGED <<utterance, ground, outbound, inbound, stay, inventory>>

(* The structured answer of the model is taken as it is. *)
ParseWithModel ==
    UsesLLM /\ \E parsed \in Said.parses : Read(parsed)

(* Positions of the sites on file that the sentence mentions. *)
Mentioned ==
    {i \in DOMAIN VenueIds : VenueIds[i] \in DOMAIN Venues \cap Said.mentions}

(* The model is off or raised: the first of those sites, and for the rest  *)
(* what is assumed of everybody.  None mentioned: ValueError, see Fails.   *)
ParseByHand ==
    /\ Mentioned # {}
    /\ LET venue == VenueIds[Min(Mentioned)] IN
       Read([employee |-> DefaultTraveller, origin |-> DefaultOrigin,
             dest |-> Venues[venue], venue |-> venue,
             depart |-> Today + LeadDays,
             return |-> Today + LeadDays + StayDays])

LookupTraveller ==
    /\ step = "traveller"
    /\ request.employee \in Employee
    /\ step' = "ground"
    /\ UNCHANGED <<utterance, request, ground, outbound, inbound, stay, inventory>>

(* The city of an airport on file; of another, its code stands for one. *)
DestinationCity ==
    IF request.dest \in DOMAIN Airports THEN Airports[request.dest].city
                                        ELSE request.dest

OnFile == IF DestinationCity \in DOMAIN Ground THEN Ground[DestinationCity] ELSE {}
Preferred == {o \in OnFile : o.mode \in {"train", "transit_pass", "shared_ride"}}

(* Both ways by the cheapest preferred option, else by the cheapest. *)
CheapestGround ==
    /\ step = "ground"
    /\ LET options == IF Preferred = {} THEN OnFile ELSE Preferred IN
       ground' = IF options = {} THEN 0 ELSE 2 * Min({o.price : o \in options})
    /\ step' = "source"
    /\ UNCHANGED <<utterance, request, outbound, inbound, stay, inventory>>

-------------------------------------------------------------------------------
(* The date on the departure board: the day in the airport's own zone. *)
DepartureDay(f) ==
    (Timetable[f].departs + Airports[Timetable[f].origin].offset) \div 24

Leaves(f, from, to, day) ==
    Timetable[f].origin = from /\ Timetable[f].dest = to /\ DepartureDay(f) = day

(* What the two searches of the brief of r make of a flight. *)
Direction(r, f) ==
    CASE Leaves(f, r.origin, r.dest, r.depart) -> "outbound"
      [] Leaves(f, r.dest, r.origin, r.return) -> "return"
      [] OTHER -> "neither"

FlightFactsFor(r) ==
    [f \in Flight |->
        [direction |-> Direction(r, f), cabin |-> Timetable[f].cabin,
         stops |-> Timetable[f].stops, minutes |-> Timetable[f].minutes,
         carrier |-> Timetable[f].carrier]]

Skyline(r) == INSTANCE Skyline WITH FlightFacts <- FlightFactsFor(r)

FlightBrief == [cabin |-> None, max_stops |-> None, carriers |-> PreferredCarriers]

(* Skyline's branch of the gather: two searches, one after the other, and  *)
(* a flight from the shortlist of each.                                    *)
FindOutbound ==
    /\ step = "source" /\ outbound = None
    /\ outbound' \in Skyline(request)!Bookable(fares, FlightBrief, "outbound")
    /\ UNCHANGED <<utterance, step, request, ground, inbound, stay, inventory>>

FindInbound ==
    /\ step = "source" /\ outbound # None /\ inbound = None
    /\ inbound' \in Skyline(request)!Bookable(fares, FlightBrief, "return")
    /\ UNCHANGED <<utterance, step, request, ground, outbound, stay, inventory>>

-------------------------------------------------------------------------------
StayNights(r) == IF r.return > r.depart THEN r.return - r.depart ELSE 1

(* Mutant of NightsPriced: the departure morning is priced too. *)
NightsPriced_WithLast(r) == r.depart .. r.return

(* stay_date BETWEEN first_night AND last_night. *)
NightsPriced(r) == r.depart .. r.return - 1

(* HAVING: as many nights as the stay has, and a room in each of them. *)
Market(r) ==
    [h \in Hotel |->
        LET rows == NightsPriced(r) \cap Day IN
        IF Cardinality(rows) = StayNights(r) /\ \A d \in rows : rates[h][d] # SoldOut
        THEN MapThenSumSet(LAMBDA d : rates[h][d], rows)
        ELSE SoldOut]

(* Distances are measured from a venue that is on file only. *)
FactsFor(r) ==
    [h \in Hotel |->
        [city |-> HotelFacts[h].city, stars |-> HotelFacts[h].stars,
         amenities |-> HotelFacts[h].amenities,
         km |-> IF r.venue \in DOMAIN Venues THEN Distance[h][r.venue] ELSE 0]]

Hearth(r) == INSTANCE Hearth WITH Facts <- FactsFor(r), Nights <- StayNights(r)

(* Mutant of StayBrief: max_distance_km is left out. *)
StayBrief_Anywhere(r) ==
    [city |-> DestinationCity, venue |-> r.venue \in DOMAIN Venues,
     enforce_cap |-> FALSE, nightly_cap |-> CapHint, max_distance |-> 1000000]

StayBrief(r) ==
    [city |-> DestinationCity, venue |-> r.venue \in DOMAIN Venues,
     enforce_cap |-> FALSE, nightly_cap |-> CapHint, max_distance |-> MaxDistance]

(* Hearth's branch: a room for the days of the brief. *)
FindStay ==
    /\ step = "source" /\ stay = None
    /\ \E h \in Hearth(request)!Proposable(Market(request), StayBrief(request)) :
          stay' = [hotel |-> h, nights |-> StayNights(request)]
    /\ UNCHANGED <<utterance, step, request, ground, outbound, inbound, inventory>>

-------------------------------------------------------------------------------
(* Both replies of the gather are in and completed. *)
Sourced ==
    /\ step = "source"
    /\ inbound # None /\ stay # None
    /\ step' = "sourced"
    /\ UNCHANGED <<utterance, request, ground, outbound, inbound, stay, inventory>>

(* Any step may raise: a tool, a model or a peer that fails, and whatever  *)
(* finds nothing, for which there is no other step.                        *)
Fails ==
    /\ step \in {"parse", "traveller", "ground", "source"}
    /\ step' = "failed"
    /\ UNCHANGED <<utterance, request, ground, outbound, inbound, stay, inventory>>

RoomSellsOut ==
    /\ moves < MaxMoves
    /\ \E h \in Hotel, d \in Day : rates' = [rates EXCEPT ![h][d] = SoldOut]
    /\ moves' = moves + 1
    /\ UNCHANGED <<trip, fares>>

FlightSellsOut ==
    /\ moves < MaxMoves
    /\ \E f \in Flight : fares' = [fares EXCEPT ![f] = SoldOut]
    /\ moves' = moves + 1
    /\ UNCHANGED <<trip, rates>>

Run ==
    \/ ParseWithModel \/ ParseByHand \/ LookupTraveller \/ CheapestGround
    \/ FindOutbound \/ FindInbound \/ FindStay \/ Sourced \/ Fails

Next == Run \/ RoomSellsOut \/ FlightSellsOut

Spec == Init /\ [][Next]_vars

-------------------------------------------------------------------------------
IsSourced == step = "sourced"

(* The two desks never see each other's answer, and nobody compares them   *)
(* with the request or checks its dates: yet what is sourced is one trip.  *)
(* It goes somewhere else, to the city of the hotel, and the room is paid  *)
(* for as many nights as lie between the dates on the two departure        *)
(* boards, so at least one (search_flights' local date, search_hotels'     *)
(* last_night, node_source's two briefs).                                  *)
OneTrip ==
    IsSourced =>
        /\ Timetable[inbound].origin = Timetable[outbound].dest
        /\ Timetable[inbound].dest = Timetable[outbound].origin
        /\ Timetable[outbound].origin # Timetable[outbound].dest
        /\ Airports[Timetable[outbound].dest].city = HotelFacts[stay.hotel].city
        /\ stay.nights = DepartureDay(inbound) - DepartureDay(outbound)

(* Whoever names a site on file sleeps near it, even when the model put    *)
(* the site and the destination in different cities: such a request fails  *)
(* (node_source's max_distance_km, shortlist's filter).                    *)
SleepsNearTheVenue ==
    IsSourced /\ request.venue \in DOMAIN Venues =>
        Distance[stay.hotel][request.venue] <= MaxDistance
===============================================================================
