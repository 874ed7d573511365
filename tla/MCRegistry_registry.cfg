SPECIFICATION Spec
CONSTANTS
    a = a
    b = b
    x = x
    s = s
    Provider <- ThreeProviders
    Name <- TwoNames
    Exposed <- AllNames
    qualified <- QualifiedNames
    Session <- OneSession
    NoProvider = NoProvider
    NoEntry = NoEntry
CHECK_DEADLOCK FALSE
INVARIANTS
    CatalogIsCanonical
    NamesKeepTheirMeaning
    SeesWhatItStarts
