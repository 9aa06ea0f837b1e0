SPECIFICATION Spec
CONSTANTS
    Rates <- MCRates
    AskedFormats <- MCFormats
    Lengths <- MCLengths
INVARIANTS
    TypeOK
    EndpointsAsAdvertised
    BuffersDisjoint
    ConfigDescriptorParses
    NearestDivider
    CodingRoundTrip
