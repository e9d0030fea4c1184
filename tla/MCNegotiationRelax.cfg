SPECIFICATION Spec
CONSTANTS
    pod = pod
    near = near
    twin = twin
    grand = grand
    inn = inn
    saver = saver
    wide = wide
    front = front
    outsider = outsider
    back = back
    Hotel = {pod, near, twin, grand, inn}
    Facts <- MCFacts
    Prices <- MCPrices
    Nights = 2
    SoldOut = SoldOut
    InventoryLimit = 20
    ShortlistSize = 6
    Trip = {t1}
    Token = {tok}
    None = None
    MaxRestarts = 0
    Book <- MCBook
    VisaRules <- MCVisaRules
    Fares <- MCFares
    Flight = {saver, wide, front, outsider, back}
    FlightFacts <- MCFlightFacts
    FareLimit = 3
    PreferredCarriers = {"UA", "XX"}
    Traveller <- MCTraveller
    City = "Tokyo"
    Country = "Japan"
    Ground = 40
    AtVenue = TRUE
    Depart = 14
    CapHint = 150
    MaxDistance = 30
    MaxMoves = 0
    MaxDays = 0
INVARIANT
    RelaxingStaysNear
CHECK_DEADLOCK FALSE
