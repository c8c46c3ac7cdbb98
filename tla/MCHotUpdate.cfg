SPECIFICATION ConfigSpec
CONSTANTS
    v0 = v0
    v1 = v1
    bad = bad
    Good = {v0, v1}
    Repairable = {bad}
    Hopeless = {}
    Broken = {}
    Default = v0
    Absent = Absent
    RepairOf <- ClaimRepairOf
    MaxChanges = 2
INVARIANT ModulesCurrent
CHECK_DEADLOCK FALSE
