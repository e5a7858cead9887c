SPECIFICATION CooldownSpec
CONSTANTS
    h1 = h1
    h2 = h2
    CoolHomes <- TwoHomes
    CoolWorkers <- CoolingWorkers
    ResultKinds = {"ok", "quota", "transient"}
    HintDelays = {0}
    MaxBackoff = 4
    MaxCoolTime = 2
    MaxReports = 2
    MaxControls = 1
    MaxErrors = 1
CONSTRAINT ErrorsAreEarly
SYMMETRY HomeSymmetry
PROPERTY SwitchFencesSaves
PROPERTY QuotaWindowsHold
CHECK_DEADLOCK FALSE
