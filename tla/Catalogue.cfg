CONSTANTS
    s1 = s1
    Content = {1, 2, 3}
    Series = {s1}
    Document <- Documents
    Shelf <- Shelves
    History <- Histories
    Writer = {1, 2}
    PageLimit = 2
    ListLimit = 2
    CandidateLimit = 3
    Unclassified = 9
    ContinueLimit = 1
    ForYouLimit = 1
    LatestLimit = 1
    MaxNow = 2
    MaxStudies = 1
    Done = Done
    None = None
SPECIFICATION FairSpec
INVARIANTS ListsAreStable CopiesAreFaithful WithdrawnContentsAreNotShown HomeIsSound
PROPERTIES TraversalsEnd
CHECK_DEADLOCK FALSE
