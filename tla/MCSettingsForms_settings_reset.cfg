\* A dialog is opened and submitted before the first poll has been answered.
SPECIFICATION Spec
CONSTANTS
    SniLength <- MCSniLength
    Addresses = {"10.9.0.1/24"}
    Paddings = {"12", "12.5"}
    Wide = {"12", "12.5"}
    WideToServer = {"12"}
    Keys = {"key"}
    BadKeys = {"bad"}
    Stored <- MCStored
    Elsewhere = {"address", "random_trailers"}
    MaxSteps = 2
    MaxOthers = 0
PROPERTY PortReadOnly
