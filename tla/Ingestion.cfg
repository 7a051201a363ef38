CONSTANTS
    Item = {i1}
    LastPage = 3
    Verified = {1}
    Broken = {2}
    Discovery = {full, latest}
    Sitemap <- OverlappingSitemaps
    CrawlRetries = 1
    IngestRetries = 1
    Concurrency = 2
    MaxCommands = 1
    MaxFaults = 1
SPECIFICATION FairSpec
INVARIANTS RevisionsNeverGoBack RevisionsAreArchived FetchedMeansTaken
PROPERTIES DiscoveredItemsAreAttempted
