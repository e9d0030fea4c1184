SPECIFICATION Spec
CONSTANTS
    None = None
    SoldOut = SoldOut
    Airports <- MCAirports
    Venues <- MCVenues
    VenueIds <- MCVenueIds
    Employee = {"mira", "yusuf"}
    Ground <- MCGround
    Hotel = {"bay", "lodge", "pod", "docks"}
    HotelFacts <- MCHotelFacts
    Distance <- MCDistance
    Flight = {"out1", "late1", "out3", "back1", "back2", "back3", "west1", "east3"}
    Timetable <- MCTimetable
    Day = {0, 1, 2, 3}
    Rates <- MCRates
    Fares <- MCFares
    Utterances <- MCUtterances
    UsesLLM = TRUE
    Today = 0
    LeadDays = 1
    StayDays = 2
    DefaultTraveller = "mira"
    DefaultOrigin = "SFO"
    CapHint = 280
    MaxDistance = 30
    PreferredCarriers = {"NH"}
    InventoryLimit = 3
    FareLimit = 3
    ShortlistSize = 2
    MaxMoves = 1
INVARIANTS
    OneTrip
    SleepsNearTheVenue
CHECK_DEADLOCK FALSE
