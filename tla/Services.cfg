SPECIFICATION Spec
CONSTANTS
    Started = 2
    Runs = 2
    Asked = {m}
    MaxCalls = 2
    Steps = {1}
    Indexes = {0, 1}
    Models = {m1, m2}
    NoModel = NoModel
    MaxLines = 4
    Writers = {handler, worker, proxy}
    Handling = handler
    MaxRecords = 3
    Pids = {p1, p2}
    Workspaces = {w1, w2}
    NoPid = NoPid
    MaxLives = 2
    Jobs = {j1, j2}
    Hashes = {h1, h2}
    NoHash = NoHash
    Clients = {c1, c2}
    Hosts = {ha, hb}
    NoHost = NoHost
    Folders = 2
    MaxTime = 1
    FileCount = 2
    Texts = {x, y}
    Absent = Absent
    NoText = NoText
    Hook = hook
    Command = command
    Limits = {1, 2}
    MaxWrites = 2
    MaxEdits = 1
    Filed = {d1, d2}
INVARIANTS
  TypeOK
  CountsHold
  TracesAreFaithful
  OneServes
  CollectionSpares
  HostsApart
  IndexIsSound
PROPERTIES
  
  StartsBehave
CHECK_DEADLOCK FALSE
