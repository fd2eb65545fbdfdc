SPECIFICATION FairSpec
CONSTANTS
    N = 3
    Responses <- AnyShape
    Greetings <- SilentOrPrompt
INVARIANTS TypeOK ReplyIsOwnUnlessLate LinesDeliveredOnce LeakOnlyByTimeout
PROPERTY CloseFreesReaders
CHECK_DEADLOCK FALSE
