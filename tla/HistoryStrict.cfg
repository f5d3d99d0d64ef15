SPECIFICATION Spec

CONSTANTS
  server = server
  cli = cli
  inside = inside
  outside = outside
  red = red
  blue = blue
  Absent = Absent
  Procs <- OneServer
  Servers <- OneServer
  Paths <- TwoPaths
  Scope <- TheScope
  Contents <- OneColour
  Strict = TRUE
  MaxDelegations = 1
  MaxRuns = 3
  MaxCrashes = 2
  Interruptions <- All
  HostEdits = TRUE

INVARIANTS
  TypeOK
  NoLimbo
  ScopeHolds

PROPERTIES
  FirstRunStands

\* The host may stop calling: a behaviour may end with every process idle.
CHECK_DEADLOCK FALSE
