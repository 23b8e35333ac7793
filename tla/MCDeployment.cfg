SPECIFICATION Spec
CONSTANTS
    Appliers = {p1}
    TaskOrder <- TwoTasks
    Revs = {"user", "block", "file", "script", "draft"}
    Words <- AllWords
    NoRev = "none"
    Deploys <- Places
    Undigested = {"draft"}
    Crontabs <- UserCrontab
    Directories <- CronD
    Copies = {"copy"}
    PageSize = 1
    Estates <- SomeEstates
    Hosts <- SomeHosts
    MaxApplies = 2
    MaxChanges = 1
    Mishaps <- Mishap
CHECK_DEADLOCK FALSE
INVARIANTS
    TypeOK
    
    RolledBackRestores
    ManifestFirst
PROPERTIES
    OthersAreLeftAlone
