SPECIFICATION Spec
CONSTANTS
    Units = {"app", "lib", "out"}
    Data = {"data"}
    Config = "config"
    Outside = {"out"}
    Texts = {"old", "new"}
    Typed = {"new"}
    NoText = NoText
    OnDisk <- MCOnDisk
    Requires <- MCRequires
    Excluded <- MCExcluded
    MaxEdits = 3
    MaxAsks = 1
    Sessions = {{"configuration", "refresh"}, {"loose", "refresh"}, {}}
INVARIANTS QuietMeansCurrent QuietMeansRefreshed
PROPERTIES Settles
