SPECIFICATION BackupSpec
CONSTANTS
    Backups = {b1}
    MaxCommits = 2
    Absent = Absent
    Empty = Empty
    Torn = Torn
    Foreign = Foreign
PROPERTIES
    ForeignKept
