SPECIFICATION Spec

CONSTANTS
  server = server
  cli = cli
  inside = inside
  outside = outside
  red = red
  blue = blue
  Absent = Absent
  Procs <- OneServer
  Servers <- OneServer
  Paths <- TwoPaths
  Scope <- TheScope
  Contents <- Colours
  Strict = FALSE
  MaxDelegations = 2
  MaxRuns = 1
  MaxCrashes = 2
  Interruptions <- AllInTime
  HostEdits = FALSE

INVARIANTS
  HistoryExplains

SYMMETRY ColourSymmetry

\* The host may stop calling: a behaviour may end with every process idle.
CHECK_DEADLOCK FALSE
