\* Eight packets and a report in every order, two at a time; one
\* transaction is cut off.
SPECIFICATION IngestSpec
CONSTANTS
    lily = "lily"  nekro = "nekro"  Null = Null
    CommandBot = "lily"  TalkBot = "nekro"
    Events <- AllEvents  Answers <- AllAnswers  Told <- Delivered  Order <- InOrder
    Window = 2
    Mode = "full"
    Requests <- Sent
    Connections = 2
    MaxAborts = 1
INVARIANTS DecisionsCurrent ReferencesMeet SourceIsMessage
CHECK_DEADLOCK FALSE
