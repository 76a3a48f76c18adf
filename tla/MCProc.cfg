CONSTANTS
  h0 = h0
  h1 = h1
  p0 = p0
  p1 = p1
  p2 = p2
  c0 = c0
  c1 = c1
  Harts = {h0, h1}
  Procs = {p0, p1, p2}
  Chans = {c0, c1}
  Boot = p0
  NONE = NONE
  Server <- ServerOf
  Clients <- ClientsOf
  Senders <- SendersOf
  Mode <- ModeOf
  Monitors <- Watched
  Suspends <- Paused
  Builds = {{h0}, {h0, h1}}
SPECIFICATION Spec
INVARIANTS
  OneHart
  WaitingServerReady
  ClientNotForgotten
CHECK_DEADLOCK FALSE
