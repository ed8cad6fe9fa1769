SPECIFICATION Spec
CONSTANTS
    anna = anna bruno = bruno carla = carla dora = dora
    bar = bar gym = gym well = well
    m1 = m1 m2 = m2 m3 = m3 m4 = m4 c1 = c1 c2 = c2
    w1 = w1 w2 = w2
    Memories <- Entries Consolidations <- Twice Brains <- Tempers
    Archives <- Depots PageSize = 2
    Folk <- Two Settings <- Villages
    People <- Two Casts <- Troupes
    Agents <- Two Venues <- Resorts Stock <- Wells Roads <- Streets
    CellSize = 2 WalkingRadius = 3 NearbyRadius = 2 MaxHistory = 2
    Unknown = Unknown Absent = Absent Nowhere = Nowhere Unparsable = Unparsable Nobody = Nobody
INVARIANTS
    NeedsAreMet TiesAreTrue  MemoryIsKept ReportIsExact
    PersonsAreThemselves StoreIsTrue
CHECK_DEADLOCK FALSE
