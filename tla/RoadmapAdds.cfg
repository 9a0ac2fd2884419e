SPECIFICATION RoadmapSpec
CONSTANTS
    Item = {i1, i2}
    Editor = {e1, e2}
    MaxOrder = 3
INVARIANT OrdersAreDistinct
CHECK_DEADLOCK FALSE
