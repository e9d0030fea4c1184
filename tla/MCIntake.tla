------------------------------- MODULE MCIntake -------------------------------
(***************************************************************************)
(* An instance of Intake for TLC: two cities and a home airport, flights   *)
(* on either side of midnight and of the date line, a hotel near the site, *)
(* one too far from it and one without a desk; and a model whose answers   *)
(* go wrong in each field in turn.                                         *)
(***************************************************************************)
EXTENDS Intake, TLC

MCAirports ==
    ("SFO" :> [city |-> "San Francisco", offset |-> -8]) @@
    ("HND" :> [city |-> "Tokyo", offset |-> 9]) @@
    ("LHR" :> [city |-> "London", offset |-> 0])

MCVenues ==
    ("KAISEI-HQ" :> "HND") @@ ("THAMESIDE-DC" :> "LHR") @@ ("NIMBUS-HQ" :> "SFO")

MCVenueIds == <<"KAISEI-HQ", "GONE", "THAMESIDE-DC", "NIMBUS-HQ">>

MCGround ==
    ("Tokyo" :> {[mode |-> "taxi", price |-> 3], [mode |-> "train", price |-> 4]}) @@
    ("London" :> {[mode |-> "taxi", price |-> 9]})

Room(city, amenities) == [city |-> city, stars |-> 3, amenities |-> amenities]
MCHotelFacts ==
    [bay |-> Room("Tokyo", {"wifi", "desk"}),
     lodge |-> Room("Tokyo", {"wifi", "desk"}),
     pod |-> Room("Tokyo", {"wifi"}),
     docks |-> Room("London", {"wifi", "desk"})]

Elsewhere == 90000
MCDistance ==
    LET From(kaisei, thameside) ==
            ("KAISEI-HQ" :> kaisei) @@ ("THAMESIDE-DC" :> thameside) @@
            ("NIMBUS-HQ" :> Elsewhere)
    IN  [bay |-> From(2, Elsewhere), lodge |-> From(40, Elsewhere),
         pod |-> From(1, Elsewhere), docks |-> From(Elsewhere, 10)]

(* A flight that leaves at an hour of a day in the zone it leaves from. *)
On(day, hour, origin, dest, minutes) ==
    [origin |-> origin, dest |-> dest,
     departs |-> 24 * day + hour - MCAirports[origin].offset,
     minutes |-> minutes, cabin |-> "economy", stops |-> 0, carrier |-> "NH"]
MCTimetable ==
    [out1 |-> On(1, 11, "SFO", "HND", 675), late1 |-> On(1, 18, "SFO", "HND", 675),
     out3 |-> On(3, 11, "SFO", "HND", 675),
     back1 |-> On(1, 5, "HND", "SFO", 560), back2 |-> On(2, 15, "HND", "SFO", 560),
     back3 |-> On(3, 5, "HND", "SFO", 560),
     west1 |-> On(1, 16, "SFO", "LHR", 620), east3 |-> On(3, 10, "LHR", "SFO", 660)]

MCRates == [h \in DOMAIN MCHotelFacts |-> [d \in 0 .. 3 |-> 150]]
MCFares == [f \in DOMAIN MCTimetable |-> 100]

Trip(employee, dest, depart, return, venue) ==
    [employee |-> employee, origin |-> "SFO", dest |-> dest,
     depart |-> depart, return |-> return, venue |-> venue]

ToTokyo == Trip("mira", "HND", 1, 3, "KAISEI-HQ")
ToLondon == Trip("yusuf", "LHR", 1, 3, "THAMESIDE-DC")
Overnight == [ToTokyo EXCEPT !.return = 2]

Misread ==
    {ToTokyo,
     [ToTokyo EXCEPT !.employee = "nobody"],
     [ToTokyo EXCEPT !.origin = "HND"],
     [ToTokyo EXCEPT !.dest = "LHR"],
     [ToTokyo EXCEPT !.dest = "XXX"],
     [ToTokyo EXCEPT !.venue = "THAMESIDE-DC"],
     [ToTokyo EXCEPT !.venue = "kaisei-hq"],
     [ToTokyo EXCEPT !.venue = None],
     [ToTokyo EXCEPT !.return = 1],
     [ToTokyo EXCEPT !.depart = 3, !.return = 1],
     Overnight}

MCUtterances ==
    [tokyo |-> [parses |-> Misread, mentions |-> {"KAISEI-HQ"}],
     london |-> [parses |-> {ToLondon}, mentions |-> {"THAMESIDE-DC", "NIMBUS-HQ"}],
     vague |-> [parses |-> {ToLondon}, mentions |-> {"GONE"}]]
===============================================================================
