SPECIFICATION TriggerSpec
CONSTANTS
    Interval = 12
    StartRetries = 3
    MaxFailures = 6
PROPERTY OnlyFatalStops
