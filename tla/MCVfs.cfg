\* Fds are never reissued while open, with clients sending and calling.
CONSTANTS
    VfsId = 1118
    Clients <- MCClients
    ClientPaths <- MCPaths
    Fds = {1, 2}
    ReadLens = {2, 4096}
    WriteLens = {0, 3}
    MaxQueue = 2
    MaxReqs = 3
SPECIFICATION Spec
PROPERTY OpenNeverReplaces
