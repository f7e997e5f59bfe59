SPECIFICATION Spec
CONSTANTS
    Clients = {c1}
    NoClient = NoClient
    Dbs <- TwoDbs
    x = x
    a = a
    Keys = {x}
    Values = {a}
    Absent = Absent
    Commands <- StreamCommands
    MaxQueue = 2
    MaxDirty = 2
    Roles = {"master", "slave"}
    Snapshots <- TwoSnapshots
INVARIANTS ReplicaAgrees
PROPERTIES NoTornView ExecSeesPresent 
