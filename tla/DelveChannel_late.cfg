SPECIFICATION Spec
CONSTANTS
    N = 2
    Responses <- PromptLast
    Greetings <- Silent
INVARIANT ReplyIsOwn
CHECK_DEADLOCK FALSE
