SPECIFICATION Spec
CONSTANTS
    Values = {0, 1}
    Default = 0
    Absent = Absent
    Traces = {x}
    Ui = Ui
    Worker = Worker
    Other = Other
    Nobody = Nobody
    MaxJobs = 2
    MaxMishaps = 2
    Threads = {Ui, Worker, Other}
    InstanceOf <- Processes
    Choices <- AllAlike
    Config <- SettingsConfig
    Empty <- NoSettings
    Mutators <- SettingsMutators
    Effect <- SettingsEffect
INVARIANT EngineAsChosen
PROPERTIES NoLostUpdate ProfileWasChosen
CHECK_DEADLOCK FALSE
