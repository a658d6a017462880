SPECIFICATION Spec
CONSTANTS
    None = None
    Marker <- MCMarker
    Letters <- MCLetters
    Digits <- MCDigits
    Token <- MCToken
    Lower <- MCLower
    Detectable <- MCDetectable
    TypeOrder <- MCTypeOrder
    KeyText <- MCKeyText
    PlainNames <- MCPlainNames
    Ids <- MCIds
    NotObjects <- MCNotObjects
    CallIds <- MCCallIds
    ProviderIds <- MCProviderIds
    Tools <- MCTools
    OddLines <- MCOddLines
    Results <- MCResults
    Anonymize <- AnonymizeJSON
    Cases <- MCCases
    MaxMappings = 3
    MaxScanDepth = 2
    MaxChoices = 2
    MaxTools = 2
    MaxToolsTotal = 3
    MaxToolBlocks = 2
INVARIANTS
    ForwardedClean
    DeliveredRestored
    HonestEnd
    WithheldForCause
    ConversationGoesOn
CHECK_DEADLOCK FALSE
