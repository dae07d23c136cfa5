\* Two repositories, updates, failed commands and changes of the user.
CONSTANTS
  Repos = {r1, r2}
  MaxVersion = 2
  MaxEdits = 1
  MaxFailures = 1
SPECIFICATION Spec
SYMMETRY Symmetry
INVARIANTS TypeOK BackupIsOriginal NoFalseDrift
PROPERTIES EditSurvives UninstallRestores
