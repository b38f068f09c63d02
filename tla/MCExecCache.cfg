CONSTANTS
    s1 = s1
    s2 = s2
    c1 = c1
    c2 = c2
    v0 = v0
    v1 = v1
    v2 = v2
    Servers <- MCServers
    Calls <- MCCalls
    ServerOf <- MCServerOf
    Versions <- MCVersions
    Image = v0
    Chars <- MCChars
    Bytes <- MCBytes
    None = None
    Empty = Empty
SPECIFICATION Spec
INVARIANTS TypeOK LengthTracksFunction RunsTextOfRedisLength
PROPERTY OnlyUploadsReplace
CHECK_DEADLOCK FALSE
