CONSTANTS
  N = 3
  Commands = 3
  Layouts <- Small
SPECIFICATION Spec
INVARIANTS
  TypeOK
  ReportedExists
  MatchesConfig
PROPERTY
  KeepsConfigured
\* The commands are over.
CHECK_DEADLOCK FALSE
