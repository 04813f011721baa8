\* Ann owns a publisher's workspace, Bob may register; three requests at any time.
SPECIFICATION Spec
CONSTANTS
    ann = ann
    bob = bob
    anns = anns
    anns2 = anns2
    anns3 = anns3
    bobs = bobs
    bobs2 = bobs2
    None = None
    Emails = {ann, bob}
    Names = {"Ann", "Ann2"}
    Slugs = {anns, anns2, anns3, bobs, bobs2}
    Candidates <- MCCandidates
    Founders <- MCFounders
    FoundedAs <- MCFoundedAs
    Requests <- MCRequests
    Calls = {1, 2, 3}
    Crashable = {1}
CHECK_DEADLOCK FALSE
INVARIANTS
    TypeOK
    OwnedByOne
    RegistrationIsWhole
    CollisionsAreRaces
    AnswersStand
    PublishedByEntitled
PROPERTIES
    CallsEnd
