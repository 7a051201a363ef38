CONSTANTS
    Item = {i1}
    LastPage = 1
    Verified = {1}
    Broken = {}
    Discovery = {full}
    Sitemap <- OverlappingSitemaps
    CrawlRetries = 3
    IngestRetries = 5
    Concurrency = 1
    MaxCommands = 0
    MaxFaults = 1
SPECIFICATION Spec
INVARIANTS OneRevisionPerChange
