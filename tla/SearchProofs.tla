------------------------------ MODULE SearchProofs ------------------------------
(***************************************************************************)
(* What the searches of Hearth and Skyline preserve, proved for every      *)
(* market, every brief, every set of hotels, flights and nights, and every *)
(* limit on the number of rows.                                            *)
(***************************************************************************)
EXTENDS Hearth, Skyline, WellFoundedInduction, TLAPS

(* The least of a set of natural numbers is one of them and below the      *)
(* others: the cheapest rate of rank and the cheapest fare of _trim exist. *)
LEMMA LeastNatural ==
  ASSUME NEW S \in SUBSET Nat, S # {}
  PROVE  Least(S) \in S /\ \A y \in S : Least(S) <= y
<1> DEFINE less == {p \in Nat \X Nat : p[1] < p[2]}
<1>1. IsWellFoundedOn(less, Nat)
  BY NatLessThanWellFounded, Zenon DEF OpToRel
<1> HIDE DEF less
<1>2. PICK x \in S : \A y \in S : ~(<<y, x>> \in less)
  BY <1>1, WFMin
<1>3. \A y \in S : x <= y
  <2> SUFFICES ASSUME NEW y \in S PROVE x <= y
    OBVIOUS
  <2>1. x \in Nat /\ y \in Nat
    OBVIOUS
  <2>2. <<y, x>> \in less <=> y < x
    BY <2>1 DEF less
  <2> QED BY <1>2, <2>1, <2>2
<1> QED BY <1>2, <1>3 DEF Least


(* Rounding the average to a cent does not lift it over a cap that is a    *)
(* whole number of cents.                                                  *)
LEMMA RoundingStaysUnderCap ==
  ASSUME NEW sum \in Nat, NEW cap \in Nat, sum <= cap * Nights
  PROVE  NightlyRate(sum) <= cap
<1> DEFINE q == (2 * sum + Nights) \div (2 * Nights)
<1>1. Nights \in Nat /\ Nights >= 1
  BY NightsAssumption
<1>2. 2 * sum + Nights \in Nat /\ 2 * Nights \in Nat \ {0}
  BY <1>1
<1>3. q \in Int /\ (2 * Nights) * q <= 2 * sum + Nights
  BY <1>2, SMTT(30)
<1>4. 2 * sum + Nights <= 2 * (cap * Nights) + Nights
  BY <1>1
<1>5. ASSUME q >= cap + 1 PROVE FALSE
  <2>1. (2 * Nights) * q >= (2 * Nights) * (cap + 1)
    BY <1>1, <1>3, <1>5, SMTT(30)
  <2>2. (2 * Nights) * (cap + 1) = 2 * (cap * Nights) + 2 * Nights
    BY <1>1, SMTT(30)
  <2> QED BY <1>1, <1>3, <1>4, <2>1, <2>2
<1> QED BY <1>3, <1>5 DEF NightlyRate

(* "Hearth never exceeds the cap when told to enforce it" (search_hotels,  *)
(* shortlist, assemble): whatever the ranking and the crew prefer, a room  *)
(* that can be proposed is at or below the cap at the rate it is quoted.   *)
THEOREM EnforcedCapHolds ==
  ASSUME NEW market \in [Hotel -> Nat \cup {SoldOut}], SoldOut \notin Nat,
         NEW b, b.enforce_cap, b.nightly_cap \in Nat,
         NEW h \in Proposable(market, b)
  PROVE  Rate(market, h) <= b.nightly_cap
<1>1. h \in Matches(market, b)
  BY DEF Proposable, shortlists, Candidates, search_hotels, FirstRows, Usable
<1>2. market[h] \in Nat /\ market[h] <= b.nightly_cap * Nights
  BY <1>1 DEF Matches, Affordable
<1> QED BY <1>2, RoundingStaysUnderCap DEF Rate

LEMMA RateIsNatural ==
  ASSUME NEW sum \in Nat
  PROVE  NightlyRate(sum) \in Nat
<1>1. Nights \in Nat /\ Nights >= 1
  BY NightsAssumption
<1> QED BY <1>1, SMTT(30) DEF NightlyRate

(* A dominating room has the better score, whatever else is on the list.   *)
LEMMA DominatingScoresBetter ==
  ASSUME NEW market, NEW b, NEW rows \in SUBSET Hotel,
         \A x \in rows : Rate(market, x) \in Nat,
         NEW g \in rows, NEW h \in rows, Dominates(market, b, g, h)
  PROVE  Better(market, b, rows, g, h)
<1> DEFINE cheapest == Least({Rate(market, x) : x \in rows})
           unit == IF cheapest = 0 THEN 100 ELSE cheapest
           merit(x) == 12 * Km(b, x) - 35 * Facts[x].stars
<1>1. unit \in Nat /\ unit > 0
  <2> DEFINE rates == {Rate(market, x) : x \in rows}
  <2>1. rates \in SUBSET Nat /\ rates # {}
    OBVIOUS
  <2>2. Least(rates) \in rates
    BY <2>1, LeastNatural
  <2> QED BY <2>1, <2>2
<1>2. \A x \in rows : Km(b, x) \in Nat /\ Facts[x].stars \in Nat
  BY FactsAssumption DEF Km
<1>3. merit(g) \in Int /\ merit(h) \in Int
  BY <1>2
<1>4. merit(g) <= merit(h) /\ (Km(b, g) < Km(b, h) => merit(g) < merit(h))
  BY <1>2 DEF Dominates
<1>5. Rate(market, g) \in Nat /\ Rate(market, h) \in Nat
  OBVIOUS
<1> HIDE DEF unit, merit
<1>6. unit * merit(g) <= unit * merit(h)
  BY <1>1, <1>3, <1>4, SMTT(30)
<1>7. merit(g) < merit(h) => unit * merit(g) < unit * merit(h)
  BY <1>1, <1>3, SMTT(30)
<1>8. unit * merit(g) \in Int /\ unit * merit(h) \in Int
  BY <1>1, <1>3
<1>9. 60 * (Rate(market, g) - unit) + unit * merit(g)
        < 60 * (Rate(market, h) - unit) + unit * merit(h)
  BY <1>1, <1>4, <1>5, <1>6, <1>7, <1>8 DEF Dominates
<1> QED BY <1>9 DEF Better, Score, unit, merit

(* Hearth's deterministic choice (search_hotels, shortlist, rank, _pick)   *)
(* is on the frontier of the whole market: neither the row limit nor the   *)
(* weights can make it pass over a usable room that is nearer or cheaper   *)
(* and otherwise at least as good.                                         *)
THEOREM TopPickUndominated ==
  ASSUME NEW market \in [Hotel -> Nat \cup {SoldOut}], NEW b,
         NEW h \in TopPicks(market, b),
         NEW g \in Usable(b, Matches(market, b))
  PROVE  ~Dominates(market, b, g, h)
<1> SUFFICES ASSUME Dominates(market, b, g, h) PROVE FALSE
  OBVIOUS
<1>1. PICK R \in search_hotels(market, b) :
        /\ h \in Usable(b, R)
        /\ \A x \in Usable(b, R) : ~Better(market, b, Usable(b, R), x, h)
  BY DEF TopPicks, Candidates
<1>2. /\ R \subseteq Matches(market, b)
      /\ \A x \in R, y \in Matches(market, b) \ R : ~Listed(market, b, y, x)
  BY DEF search_hotels, FirstRows
<1>3. /\ h \in R
      /\ g \in Matches(market, b)
      /\ g \in Hotel /\ h \in Hotel
  BY <1>1, <1>2 DEF Usable, Matches
<1>4. \A x \in Matches(market, b) : Rate(market, x) \in Nat
  BY RateIsNatural DEF Matches, Rate
<1>5. Km(b, g) \in Nat /\ Km(b, h) \in Nat
  BY <1>3, FactsAssumption DEF Km
<1>6. Listed(market, b, g, h)
  BY <1>2, <1>3, <1>4, <1>5 DEF Listed, Dominates
<1>7. g \in Usable(b, R)
  BY <1>2, <1>3, <1>6 DEF Usable
<1>8. Usable(b, R) \in SUBSET Hotel
      /\ \A x \in Usable(b, R) : Rate(market, x) \in Nat
  BY <1>2, <1>4 DEF Usable, Matches
<1> QED BY <1>1, <1>7, <1>8, DominatingScoresBetter


(* A row of a candidate set was on offer, and what is on offer but not     *)
(* among the rows of the search costs at least as much.                    *)
LEMMA CandidatesAreCheapest ==
  ASSUME NEW fares \in [Flight -> Nat \cup {SoldOut}], NEW b, NEW dir,
         NEW rows \in FareCandidates(fares, b, dir), NEW f \in rows
  PROVE  \E R \in search_flights(fares, b, dir) :
            /\ \E first \in R : rows = InCabin(fares, b, R, first)
            /\ f \in R /\ R \subseteq OnOffer(fares, b, dir)
            /\ \A g \in OnOffer(fares, b, dir) \ R, x \in R : fares[x] <= fares[g]
<1>1. PICK R \in search_flights(fares, b, dir) :
         \E first \in R : rows = InCabin(fares, b, R, first)
  BY DEF FareCandidates
<1>2. /\ R \subseteq OnOffer(fares, b, dir)
      /\ \A x \in R, g \in OnOffer(fares, b, dir) \ R : ~(fares[g] < fares[x])
  BY DEF search_flights, FirstRows
<1>3. \A g \in OnOffer(fares, b, dir) : fares[g] \in Nat
  BY DEF OnOffer
<1>4. f \in R
  BY <1>1 DEF InCabin, OfCabin
<1>5. \A g \in OnOffer(fares, b, dir) \ R, x \in R : fares[x] <= fares[g]
  BY <1>2, <1>3
<1> QED BY <1>1, <1>2, <1>4, <1>5

(* The flight at the top of Skyline's ranking (search_flights, _trim,      *)
(* _score, _pick) is the cheapest of its cabin of all that match the       *)
(* brief: the row limit cannot cut off a cheaper one.                      *)
THEOREM TopFareCheapestInCabin ==
  ASSUME NEW fares \in [Flight -> Nat \cup {SoldOut}], NEW b, NEW dir,
         NEW f \in TopFares(fares, b, dir),
         NEW g \in OfCabin(OnOffer(fares, b, dir), FlightFacts[f].cabin)
  PROVE  fares[f] <= fares[g]
<1>1. PICK rows \in FareCandidates(fares, b, dir) :
         f \in rows /\ \A x \in rows : ~_score(fares, x, f)
  BY DEF TopFares
<1>2. PICK R \in search_flights(fares, b, dir) :
         /\ \E first \in R : rows = InCabin(fares, b, R, first)
         /\ f \in R /\ R \subseteq OnOffer(fares, b, dir)
         /\ \A y \in OnOffer(fares, b, dir) \ R, x \in R : fares[x] <= fares[y]
  BY <1>1, CandidatesAreCheapest
<1>3. g \in OnOffer(fares, b, dir) /\ FlightFacts[g].cabin = FlightFacts[f].cabin
  BY DEF OfCabin
<1>4. fares[f] \in Nat /\ fares[g] \in Nat
  BY <1>2, <1>3 DEF OnOffer
<1>5. CASE g \notin R
  BY <1>2, <1>3, <1>5
<1>6. CASE g \in R
  <2>1. g \in rows
    BY <1>1, <1>2, <1>3, <1>6 DEF InCabin, OfCabin
  <2> QED BY <1>1, <1>4, <2>1 DEF _score
<1> QED BY <1>5, <1>6

(* "premium economy is offered when it is within a defensible multiple of  *)
(* the cheapest economy fare" (_trim): when no cabin is asked for, the top *)
(* flight costs at most 1.8 times any economy fare on sale.                *)
THEOREM TopFareDefensible ==
  ASSUME NEW fares \in [Flight -> Nat \cup {SoldOut}], NEW b, b.cabin = None, NEW dir,
         NEW f \in TopFares(fares, b, dir),
         NEW g \in OfCabin(OnOffer(fares, b, dir), "economy")
  PROVE  5 * fares[f] <= 9 * fares[g]
<1>1. PICK rows \in FareCandidates(fares, b, dir) :
         f \in rows /\ \A x \in rows : ~_score(fares, x, f)
  BY DEF TopFares
<1>2. PICK R \in search_flights(fares, b, dir) :
         /\ \E first \in R : rows = InCabin(fares, b, R, first)
         /\ f \in R /\ R \subseteq OnOffer(fares, b, dir)
         /\ \A y \in OnOffer(fares, b, dir) \ R, x \in R : fares[x] <= fares[y]
  BY <1>1, CandidatesAreCheapest
<1>3. g \in OnOffer(fares, b, dir) /\ FlightFacts[g].cabin = "economy"
  BY DEF OfCabin
<1>4. /\ fares[f] \in Nat /\ fares[g] \in Nat
      /\ \A x \in R : fares[x] \in Nat
  BY <1>2, <1>3 DEF OnOffer
<1>5. CASE g \notin R
  <2>1. fares[f] <= fares[g]
    BY <1>2, <1>3, <1>5
  <2> QED BY <1>4, <2>1
<1>6. CASE g \in R
  <2> DEFINE economy == OfCabin(R, "economy")
             premium == OfCabin(R, "premium_economy")
  <2>0. PICK first \in R : rows = InCabin(fares, b, R, first)
    BY <1>2
  <2>1. g \in economy
    BY <1>3, <1>6 DEF OfCabin
  <2>2. CASE ChosenCabin(fares, b, R, first) = "economy"
    <3>1. g \in rows
      BY <2>0, <2>1, <2>2 DEF InCabin
    <3>2. fares[f] <= fares[g]
      BY <1>1, <1>4, <3>1 DEF _score
    <3> QED BY <1>4, <3>2
  <2>3. CASE ChosenCabin(fares, b, R, first) # "economy"
    <3>1. ChosenCabin(fares, b, R, first) = "premium_economy" /\ WorthIt(fares, R)
      BY <2>3 DEF ChosenCabin
    <3>2. /\ premium # {} /\ rows = premium
          /\ 5 * Lowest(fares, premium) <= 9 * Lowest(fares, economy)
      BY <2>0, <3>1 DEF WorthIt, InCabin
    <3>3. /\ economy \subseteq R /\ premium \subseteq R
      BY DEF OfCabin
    <3>4. /\ Lowest(fares, economy) \in Nat
          /\ Lowest(fares, economy) <= fares[g]
      <4>1. {fares[x] : x \in economy} \in SUBSET Nat
        BY <1>4, <3>3
      <4>2. fares[g] \in {fares[x] : x \in economy}
        BY <2>1
      <4> QED BY <4>1, <4>2, LeastNatural DEF Lowest
    <3>5. PICK p \in premium : fares[p] = Lowest(fares, premium)
      <4>1. {fares[x] : x \in premium} \in SUBSET Nat
            /\ {fares[x] : x \in premium} # {}
        BY <1>4, <3>2, <3>3
      <4> QED BY <4>1, LeastNatural DEF Lowest
    <3>6. fares[p] \in Nat /\ fares[f] <= fares[p]
      BY <1>1, <1>4, <3>2, <3>3, <3>5 DEF _score
    <3> QED BY <1>4, <3>2, <3>4, <3>5, <3>6
  <2> QED BY <2>2, <2>3
<1> QED BY <1>5, <1>6
================================================================================
