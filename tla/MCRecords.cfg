SPECIFICATION Spec
CONSTANTS
    p1 = p1
    p2 = p2
    w1 = w1
    ann = ann
    ben = ben
    Nobody = Nobody
PROPERTIES NothingBehindTheBatchIsLost DocumentsSettle HandedOnWorkGoesOn ScansSeeThrough
CHECK_DEADLOCK FALSE
