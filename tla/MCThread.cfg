\* Three threads that one owner starts, joins or lets go.
CONSTANTS
    c1 = c1  c2 = c2  c3 = c3
    Children = {c1, c2, c3}
    Owner = Owner  Nobody = Nobody
    MaxSpurious = 2
SPECIFICATION Spec
INVARIANTS TypeOK IdsPublished ObjectOutlivesUse ReclaimedOnce
PROPERTIES StartReturns
CHECK_DEADLOCK FALSE
