-------------------------------- MODULE Hearth --------------------------------
(***************************************************************************)
(* The Hearth agent and the inventory search under it: which rooms it can  *)
(* propose for a brief.                                                    *)
(*                                                                         *)
(* The market gives for every hotel what the nights of the stay cost       *)
(* together, in cents, or SoldOut when a night has no room or no price.    *)
(* Distances are in tenths of a kilometre.  Three cuts follow each other,  *)
(* each with its own order: the search returns the nearest rows, the       *)
(* shortlist keeps the best scores, the proposal takes one of them.  Rows  *)
(* that an order does not tell apart come in any order.                    *)
(***************************************************************************)
EXTENDS Inventory

CONSTANTS
    Hotel,
    Facts,            \* city, km, stars, amenities of each hotel
    Nights,           \* nights of the stay
    InventoryLimit    \* 20 in the code

ASSUME NightsAssumption == Nights \in Nat \ {0}
ASSUME FactsAssumption ==
    \A h \in Hotel : Facts[h].km \in Nat /\ Facts[h].stars \in Nat

(* ROUND(AVG(nightly_rate_usd), 2), half a cent up. *)
NightlyRate(sum) == (2 * sum + Nights) \div (2 * Nights)
Rate(market, h) == NightlyRate(market[h])

Km(b, h) == IF b.venue THEN Facts[h].km ELSE 0

(* Mutant of Affordable: the average is cut off before it is compared. *)
Affordable_Floor(market, b, h) ==
    b.enforce_cap => market[h] \div Nights <= b.nightly_cap

(* HAVING AVG(...) <= max_nightly_rate, which only a re-ask sends. *)
Affordable(market, b, h) ==
    b.enforce_cap => market[h] <= b.nightly_cap * Nights

Matches(market, b) ==
    {h \in Hotel : /\ Facts[h].city = b.city
                   /\ market[h] # SoldOut
                   /\ Affordable(market, b, h)}

(* Nearest first when there is a venue, cheapest first otherwise. *)
Listed(market, b, g, h) ==
    \/ Km(b, g) < Km(b, h)
    \/ Km(b, g) = Km(b, h) /\ Rate(market, g) < Rate(market, h)

search_hotels(market, b) ==
    FirstRows(Matches(market, b), InventoryLimit,
              LAMBDA g, h : Listed(market, b, g, h))

-------------------------------------------------------------------------------
Usable(b, rows) ==
    {h \in rows : /\ {"wifi", "desk"} \subseteq Facts[h].amenities
                  /\ Km(b, h) <= b.max_distance}

(* Mutant of Score: a star counts against a hotel. *)
Score_Swapped(market, b, rows, h) ==
    LET cheapest == Least({Rate(market, g) : g \in rows})
        unit == IF cheapest = 0 THEN 100 ELSE cheapest
    IN  60 * (Rate(market, h) - unit)
          + unit * (12 * Km(b, h) + 35 * Facts[h].stars)

(* The score of rank, times 100 and the cheapest rate: 0.60 for the price  *)
(* premium, 1.20 a kilometre, -0.35 a star.  What the code subtracts for   *)
(* the nearest and the worst row is the same for all and left out.         *)
Score(market, b, rows, h) ==
    LET cheapest == Least({Rate(market, g) : g \in rows})
        unit == IF cheapest = 0 THEN 100 ELSE cheapest
    IN  60 * (Rate(market, h) - unit)
          + unit * (12 * Km(b, h) - 35 * Facts[h].stars)

(* A lower score is better.  The code compares floating-point numbers, so  *)
(* equal scores may come either way round.                                 *)
Better(market, b, rows, g, h) ==
    Score(market, b, rows, g) < Score(market, b, rows, h)

(* The rows the search may return, less what is unusable. *)
Candidates(market, b) == {Usable(b, rows) : rows \in search_hotels(market, b)}

shortlists(market, b, usable) ==
    FirstRows(usable, ShortlistSize,
              LAMBDA g, h : Better(market, b, usable, g, h))

(* The room at the top of the ranking, which is proposed when the crew is  *)
(* off, fails, or names a room that is not on the list.                    *)
TopPicks(market, b) ==
    UNION {{h \in rows : \A g \in rows : ~Better(market, b, rows, g, h)} :
           rows \in Candidates(market, b)}

(* For g the traveller pays no more than for h and gets no less, and g is  *)
(* nearer or cheaper.                                                      *)
Dominates(market, b, g, h) ==
    /\ Km(b, g) <= Km(b, h)
    /\ Rate(market, g) <= Rate(market, h)
    /\ Facts[g].stars >= Facts[h].stars
    /\ Km(b, g) < Km(b, h) \/ Rate(market, g) < Rate(market, h)

(* assemble: any room of a shortlist, since the crew may choose any.       *)
Proposable(market, b) ==
    UNION {UNION shortlists(market, b, rows) : rows \in Candidates(market, b)}
===============================================================================
