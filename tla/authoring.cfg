\* Documents two changes away from an acceptable one.
SPECIFICATION FairAuthoringSpec
CONSTANTS
    Choices <- MCChoices
    Documents <- MCDocuments
    ClockTexts = {"08:30"}
    CronTexts = {"0 8 * * *"}
    ZoneTexts = {"utc"}
    MaxEdits = 2
INVARIANTS
    AcceptedHasOneReading
    AcceptedIsASchedule
    CatalogDescribesTheValidator
    
PROPERTIES
    RepairsConverge
CHECK_DEADLOCK FALSE
