\* Every log of up to four events of either executor, two checks, every
\* final message and setting.  A decided run is done.
SPECIFICATION Spec
CONSTANTS
  Checks = {c1, c2}
  Resets = {1, 2}
  FinalErrors = {"none", "plain", "limit", "auth"}
  StderrTexts = {"none", "limit", "auth"}
  MaxEvents = 4
SYMMETRY Symmetry
INVARIANTS TypeOK SuccessIsVerified DeservedSucceeds LimitWins BlockedHasCategory ResetIsStanding
CHECK_DEADLOCK FALSE
