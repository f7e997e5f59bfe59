SPECIFICATION Spec
CONSTANTS
    Clients = {c1, c2}
    NoClient = NoClient
    Dbs <- TwoDbs
    x = x
    a = a
    Keys = {x}
    Values = {a}
    Absent = Absent
    Commands <- CasCommands
    MaxQueue = 1
    MaxDirty = 1
    Roles = {"master"}
    Snapshots = {}
SYMMETRY ClientSymmetry
INVARIANTS TypeOK IndexesAgree NoStaleFlag
PROPERTIES ExecSeesWatched
