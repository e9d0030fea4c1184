-------------------------------- MODULE Skyline --------------------------------
(***************************************************************************)
(* The Skyline agent and the fare search under it: which flights it can    *)
(* propose for a brief.                                                    *)
(*                                                                         *)
(* A flight is one fare product of one service; the fares give for each    *)
(* what it costs with taxes, in cents, or SoldOut.  The search returns the *)
(* cheapest rows, the first of them decides whether the trip counts as     *)
(* long haul, the fares of two cabins decide which cabin is kept, and the  *)
(* shortlist keeps the best of it.  Rows of equal price come in any order. *)
(***************************************************************************)
EXTENDS Inventory

CONSTANTS
    Flight,
    FlightFacts,      \* direction, cabin, stops, minutes, carrier of each flight
    FareLimit         \* 24 in the code

ASSUME FlightFactsAssumption ==
    \A f \in Flight : FlightFacts[f].stops \in Nat /\ FlightFacts[f].minutes \in Nat

Directions == {"outbound", "return"}
LONG_HAUL_MINUTES == 480

OfCabin(rows, cabin) == {f \in rows : FlightFacts[f].cabin = cabin}

(* The WHERE of the search: seats, and what the brief restricts. *)
OnOffer(fares, b, dir) ==
    {f \in Flight : /\ FlightFacts[f].direction = dir
                    /\ fares[f] # SoldOut
                    /\ b.cabin \in {None, FlightFacts[f].cabin}
                    /\ b.max_stops = None \/ FlightFacts[f].stops <= b.max_stops
                    /\ b.carriers = {} \/ FlightFacts[f].carrier \in b.carriers}

search_flights(fares, b, dir) ==
    FirstRows(OnOffer(fares, b, dir), FareLimit,
              LAMBDA f, g : fares[f] < fares[g])

-------------------------------------------------------------------------------
Lowest(fares, rows) == Least({fares[f] : f \in rows})

(* Mutant of WorthIt: measured against the fare products one would not buy. *)
WorthIt_AnyFare(fares, rows) ==
    \E p \in OfCabin(rows, "premium_economy"), e \in OfCabin(rows, "economy") :
        5 * fares[p] <= 9 * fares[e]

(* The cheapest premium economy fare is at most PREMIUM_PREMIUM_LIMIT, 1.8, *)
(* times the cheapest economy fare; a fare of nothing counts as no fare.    *)
WorthIt(fares, rows) ==
    LET economy == OfCabin(rows, "economy")
        premium == OfCabin(rows, "premium_economy")
    IN  /\ economy # {} /\ premium # {}
        /\ Lowest(fares, economy) > 0 /\ Lowest(fares, premium) > 0
        /\ 5 * Lowest(fares, premium) <= 9 * Lowest(fares, economy)

(* The cabin _trim chooses when row `first` came first. *)
ChosenCabin(fares, b, rows, first) ==
    IF b.cabin # None THEN b.cabin
    ELSE IF FlightFacts[first].minutes >= LONG_HAUL_MINUTES /\ WorthIt(fares, rows)
         THEN "premium_economy"
         ELSE "economy"

(* The rows of that cabin, or all rows when there are none of it. *)
InCabin(fares, b, rows, first) ==
    LET kept == OfCabin(rows, ChosenCabin(fares, b, rows, first)) IN
    IF kept = {} THEN rows ELSE kept

(* Everything the search may return, with every row that may come first. *)
FareCandidates(fares, b, dir) ==
    UNION {{InCabin(fares, b, rows, first) :
              first \in {f \in rows : fares[f] = Lowest(fares, rows)}} :
           rows \in search_flights(fares, b, dir)}

(* Mutant of _score: a non-stop flight first, whatever it costs. *)
_score_StopsFirst(fares, f, g) ==
    \/ FlightFacts[f].stops < FlightFacts[g].stops
    \/ /\ FlightFacts[f].stops = FlightFacts[g].stops
       /\ fares[f] < fares[g]

(* f ranks before g: cheapest, then fewest stops, then shortest. *)
_score(fares, f, g) ==
    \/ fares[f] < fares[g]
    \/ fares[f] = fares[g] /\ FlightFacts[f].stops < FlightFacts[g].stops
    \/ /\ fares[f] = fares[g]
       /\ FlightFacts[f].stops = FlightFacts[g].stops
       /\ FlightFacts[f].minutes < FlightFacts[g].minutes

_trim(fares, rows) ==
    FirstRows(rows, ShortlistSize, LAMBDA f, g : _score(fares, f, g))

(* The top of the ranking, proposed when the model is off, fails, or names *)
(* a flight that is not on the shortlist.                                  *)
TopFares(fares, b, dir) ==
    UNION {{f \in rows : \A g \in rows : ~_score(fares, g, f)} :
           rows \in FareCandidates(fares, b, dir)}

(* _pick: any flight of a shortlist, since the model may choose any. *)
Bookable(fares, b, dir) ==
    UNION {UNION _trim(fares, rows) : rows \in FareCandidates(fares, b, dir)}

(* The proposals: none when a direction has nothing to offer. *)
FlightProposals(fares, b) ==
    {[outbound |-> f, inbound |-> g, total |-> fares[f] + fares[g]] :
        f \in Bookable(fares, b, "outbound"), g \in Bookable(fares, b, "return")}
===============================================================================
