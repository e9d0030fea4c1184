SPECIFICATION Spec
CONSTANTS
    pod = pod
    near = near
    twin = twin
    grand = grand
    inn = inn
    saver = saver
    wide = wide
    front = front
    outsider = outsider
    back = back
    Hotel = {pod, near, twin, grand, inn}
    Facts <- MCFacts
    Prices <- MCPrices
    Nights = 2
    SoldOut = SoldOut
    InventoryLimit = 4
    ShortlistSize = 2
    Trip = {t1}
    Token = {tok}
    None = None
    MaxRestarts = 0
    Book <- MCBook
    VisaRules <- MCVisaRules
    Fares <- MCFares
    Flight = {saver, wide, front, outsider, back}
    FlightFacts <- MCFlightFacts
    FareLimit = 3
    PreferredCarriers = {"UA", "XX"}
    Traveller <- MCTraveller
    City = "Tokyo"
    Country = "Japan"
    Ground = 40
    AtVenue = TRUE
    Depart = 14
    CapHint = 150
    MaxDistance = 30
    MaxMoves = 1
    MaxDays = 1
INVARIANTS
    RenegotiationRepairs
    ThresholdIsSigned
    NoBetterRoomLeftOut
    CheapestInItsCabin
    UpgradeIsDefensible
PROPERTIES
    RenegotiationOnlyHelps
    SentinelKeepsItsPromise
CHECK_DEADLOCK FALSE
