\* The agent repeats a capture after an empty reply, and the admin acts in between.
CONSTANTS
    c1 = c1
    c2 = c2
    c3 = c3
    k1 = k1
    k2 = k2
    Captures = {c1, c2}
    Conversations = {k1}
    NoCapture = NoCapture
    NoConversation = NoConversation
    NoOrder = NoOrder
    Torn = Torn
    RetryOf <- OneRetry
SPECIFICATION Spec
INVARIANTS
    RetryNeverDoubleWrites
