CONSTANTS
    s1 = s1
    s2 = s2
    c1 = c1
    c2 = c2
    v0 = v0
    v1 = v1
    v2 = v2
    Servers <- MCServers
    Loads <- MCLoads
    ServerOf <- MCServerOf
    Versions <- MCVersions
    Image = v0
    Chars <- MCChars
    Bytes <- MCBytes
    Broken = {v1}
    DiskFaults = TRUE
    Empty = Empty
    None = None
SPECIFICATION Spec
INVARIANTS TypeOK LengthTracksFile
PROPERTIES LoadedFileFits ScriptTextFits
CHECK_DEADLOCK FALSE
