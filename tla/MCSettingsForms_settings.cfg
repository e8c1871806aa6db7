\* Four steps of the administrator, any late answers, one fault or save elsewhere.
SPECIFICATION Spec
CONSTANTS
    SniLength <- MCSniLength
    Addresses = {"10.9.0.1/24"}
    Paddings = {"12", "12.5"}
    Wide = {"12", "12.5"}
    WideToServer = {"12"}
    Keys = {"key"}
    BadKeys = {"bad"}
    Stored <- MCStored
    Elsewhere = {"address", "random_trailers"}
    MaxSteps = 4
    MaxOthers = 1
INVARIANTS
    SettingsTypeOK
    GeneratedExact
    GeneratedNamed
PROPERTIES
    SavesTheEdits
    DefaultsValid
