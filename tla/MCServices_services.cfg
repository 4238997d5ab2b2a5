SPECIFICATION ServicesSpec
CONSTANTS
    Host = {h1, h2}
    EntryID = {1}
    Period = {2, 3}
    Invalid = 99
    Absent = Absent
    UniqueTTL = 3
    MaxTime = 4
    MaxChanges = 1
    MaxFaults = 1
    MaxMoves = 1
CHECK_DEADLOCK FALSE
PROPERTIES
    CommittedEnds EveryNodeServes  
    DueFires NeverStranded DeliveriesProgress SessionsClose
