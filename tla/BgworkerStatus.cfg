\* Two backends, one exit of the worker and the probe; the durations of the
\* source scaled down: a delay below the cap and one at it, a longer deadline,
\* and a restart time longer than that.
SPECIFICATION StatusSpec
CONSTANTS
  Backends = {b1, b2}
  EnableBgworker = TRUE
  FirstDelay = 1
  MaxDelay = 2
  Deadline = 3
  RestartTime = 4
  MaxStartup = 1
  MaxExits = 1
INVARIANTS TypeOK BoundedConnect FirstCallNeverPoisons StatusIsEvidence
PROPERTIES CreateTableKeepsLock OnlyReconnectRepairs ListeningInTimeConnects EveryCallEnds StatusEnds
