SPECIFICATION FairSpec
CONSTANTS
    s1 = s1
    s2 = s2
    s3 = s3
    Sockets = {s1, s2, s3}
    Maps = {"m1", "m2"}
PROPERTIES
    PassesUndisturbed
    PassesEnd
