CONSTANTS
    Tab = {a, b}
    MaxTokens = 2
    MaxAsked = 2
    Key = {"new", "reply"}
    Replies = {"reply"}
    Written <- Contents
    MaxSends = 1
    NoDraft = NoDraft
    NoDrawer = NoDrawer
SPECIFICATION ComposeSpec
SYMMETRY Symmetry
INVARIANT AnyContentIsKept
CONSTRAINT OneStory
CHECK_DEADLOCK FALSE
