SPECIFICATION Spec
CONSTANTS
    Rates <- MCRates
    AskedFormats <- MCFormats
    Lengths <- MCLengths
INVARIANTS
    FlowControlUsable
