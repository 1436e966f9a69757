SPECIFICATION Spec
CONSTANTS
    Files = 2
    Contents = {"x", "y"}
    Commits = {"c1", "c2"}
    First <- MC_First
    MaxEdits = 1
    MaxAnchors = 2
INVARIANTS
    TypeOK
    VerifiedIsUnchanged
    GreenIsReproduced
    GreenIsVerified
