CONSTANTS
    a = a
    b = b
    c = c
    RouteId = {main}
    Shapes <- MCShapes
    CursorPeriod = 6
    Request = {q1, q2}
    MaxGen = 3
SPECIFICATION Spec
PROPERTIES
    LiveRotationSurvivesStale
CHECK_DEADLOCK FALSE
