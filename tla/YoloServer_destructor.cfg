SPECIFICATION YoloServerSpec
CONSTANTS
    Detections = {"r1", "r2"}
    HttpThreads = 2
    PreThreads = {"p1", "p2"}
    PreMax = 1
    YoloWorkers = {"w1"}
PROPERTY DestructorEnds
CHECK_DEADLOCK FALSE
