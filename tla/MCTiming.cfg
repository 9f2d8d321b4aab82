CONSTANTS
    MaxTicksWithoutDatagrams = 40
    MaxTicksWithoutSteps = 15
    GiveUpAfter = 60
    MaxUpdates = 90
SPECIFICATION TimingSpec
INVARIANTS
    QualityTypeOK
    StepSilenceDominates
    SilenceIsCounted
    GivesUpAtTheLimit
    SilenceIsBounded
    NotGivenUpEarly
