CONSTANTS
    Snowflakes <- MCSnowflakes
    Tokens     <- MCTokens
    Paths      <- MCPaths
    Webhook    <- MCWebhook
    DMChannel  <- MCDMChannel
    Usual      <- MCUsual
    Sample     <- MCSample
    MaxChanges = 3
SPECIFICATION Spec
INVARIANTS
    SchemaGaps
    RefusedUnsent
    ActsAsAsked
    RoutesHold
CHECK_DEADLOCK FALSE
