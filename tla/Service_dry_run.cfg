SPECIFICATION Spec
CHECK_DEADLOCK FALSE
CONSTANTS
    Client = {"ui", "cli", "cron"}
    Schedules = {"nightly", "hourly"}
    DefaultSchedule = "nightly"
    NoRow = NoRow
    NoCall = NoCall
    MinutesPerHour = 3
    HoursPerDay = 2
    MonthDays = 3
    YearMonths = 2
    WeekDays = 2
    Calendar <- MCCalendar
    SearchDays = 20
    MinuteTicks = 2
    Horizon = 48
    Crons <- MCCrons
    Browser = {"ui", "tab"}
    Typed = {"typed"}
    Pin = {"pin1", "pin2"}
    Identifier = {"id1", "id2"}
    Unset = Unset
    NoName = ""
    NoInstance = "none"
    Item = {"film", "show"}
    PlexFiles <- MCPlexFiles
    MappingLists <- MCMappings
    LocalName <- MCLocalName
    NoClient = NoClient
    Instance = {"radarr", "sonarr"}
    Radarr = {"radarr"}
    RootPath <- MCRootPath
    File <- MCPromoted
    Reported <- MCReported
    Unmapped = Unmapped
    NoInstanceRow = NoInstanceRow
    NoRootRow = NoRootRow
    MaxEdits = 2
    Media = {1, 2, 3, 4}
    PageSize = 2
    Selections = {{}, {2, 4}}
    MaxChanges = 2
    Segment = {1}
    Sweep = {"ui"}
    Worker = "worker"
    Leftover = "leftover"
    Absent = "nothing"
    MaxKills = 0
    Total = 2
    Interval = 2
    RingSize = 2
    NotANumber = NotANumber
    Never = Never
    MaxBlocks = 0
    MaxLines = 0
    MaxTicks = 0
    Sender = {"films", "shows"}
    Folder <- MCFolder
    LocalFolder <- MCLocalFolder
    Named <- MCNamed
    ExtrasDir = {"Trailers"}
    NotVideo = {"sample"}
    MappingsOf <- MCMappingsOf
    Blank = Blank
    Relative = Relative
    MaxEvents = 0
INVARIANT
    DryRunQueuesNothing
