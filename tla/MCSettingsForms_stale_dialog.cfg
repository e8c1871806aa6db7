\* A dialog that is open while another browser turns a 3.1 setting off.
SPECIFICATION Spec
CONSTANTS
    SniLength <- MCSniLength
    Addresses = {"10.9.0.1/24"}
    Paddings = {"12", "12.5"}
    Wide = {"12", "12.5"}
    WideToServer = {"12"}
    Keys = {"key"}
    BadKeys = {"bad"}
    Stored <- MCStored
    Elsewhere = {"random_trailers"}
    MaxSteps = 2
    MaxOthers = 1
PROPERTY Awg3StayEmpty
