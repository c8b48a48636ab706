SPECIFICATION Spec
CONSTANTS
    Resolvers <- TwoResolvers
    ResolvConfs <- NoneOrOne
    Servers <- OneServer
    Answers <- SomeAnswers
    Streams <- SomeStreams
    SshSays <- Prompt
    Expect <- StatusLine
    BUFFER = 2
    ROOM = 1
    MaxRounds = 1
INVARIANTS
    TypeOK
    NoFrameEaten
    LeaksOnlyServed
PROPERTIES
    GoneIsNoticed
    BytesAreForwarded
CHECK_DEADLOCK FALSE
