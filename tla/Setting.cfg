CONSTANTS
    Default <- MCDefault
    Typed <- MCTyped
    Sent <- MCSent
SPECIFICATION Spec
INVARIANTS TypeOK Kept ReplyIsGet OneStaleChar
