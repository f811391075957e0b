SPECIFICATION ProviderSpec
CONSTANTS
    Reports <- SomeReports
    MaxRestarts = 2
    MaxTicks = 2
    NoNode = NoNode
    Null = Null
INVARIANTS AnsweredAsAsked EndpointsAgree AnswersAreCautious
CHECK_DEADLOCK FALSE
