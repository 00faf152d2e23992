SPECIFICATION Spec
CHECK_DEADLOCK FALSE
CONSTANTS
    ChatIDs = {1, 2, 3}
    g1 = g1
    Guests = {g1, g2}
    GuestSessionTTL = 2
    Grace = 2
    Turns = {1, 2}
    Orders = {1, 2}
    Account = u1
    Shop = shop
    Payloads <- MCPayloads
    Contact = contact
    MaxToolCallRounds = 2
    Workloads <- MCWorkloads
    NULL = NULL
INVARIANTS
    ClaimsAreTrue
    GateTellsTheLedger
    OneOrderPerConversation
    NoRecommendationAfterSelection
    PartialAnswerIsFinal
    LiveChatsSurvive
    GuestOrdersAreTheCallers
    ContextKeepsTheTurn
