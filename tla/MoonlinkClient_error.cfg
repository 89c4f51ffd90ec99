\* Two backends; the constants of the source scaled down, the deadline still
\* shorter than the restart time and several delays long.
SPECIFICATION Spec
CONSTANTS
  Backends = {b1, b2}
  EnableBgworker = TRUE
  FirstDelay = 1
  MaxDelay = 2
  Deadline = 5
  RestartTime = 7
  MaxStartup = 2
  MaxExits = 0
PROPERTIES ErrorKeepsLock
