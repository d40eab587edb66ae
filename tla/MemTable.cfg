SPECIFICATION Spec
CONSTANTS
    Doc = {1, 2, 3, 4}
    Similarity <- MCSimilarity
    Team = 2
    K = 2
INVARIANTS
    FindsTheBest
CHECK_DEADLOCK FALSE
