SPECIFICATION MCSpec
CONSTANTS
    Objects = {x, y}
    Values = {v}
    MaxFields = 3
    FieldTypes <- MCFieldTypes
    Limits <- MCLimits
INVARIANTS
    LayoutIsSound NoJunkIsSent ActiveMemberIsThere
PROPERTY
    FreshIsZero
CHECK_DEADLOCK FALSE
