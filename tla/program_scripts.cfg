SPECIFICATION Spec
CONSTANTS
    Paths = {"root", "lib", "leaf"}
    Root = "root"
    Texts = {"root", "root direct", "lib", "lib new", "lib takes", "lib bad", "lib stops", "leaf", "leaf new", "a script"}
    NoText = NoText
    OnDisk <- MCOnDisk
    Versions <- MCVersions
    Requires <- MCRequires
    Broken = {"lib bad"}
    Clashes <- MCClashes
    Stopping = {"lib stops"}
    Under <- MCUnder
    Publishes <- MCPublishes
    Scripts = {"a script"}
    Machines = {"m1", "m2"}
    MaxEdits = 3
    MaxLoads = 1
    Sessions = {{"scripts", "whole"}}
CHECK_DEADLOCK FALSE
INVARIANTS NothingFreedIsNamed
