SPECIFICATION Spec
CONSTANTS
  Themes <- MCThemes
  LEN8 = 16
INVARIANT FieldsLegal
PROPERTY PrivilegeRespected
PROPERTY WritesAreLocal
CHECK_DEADLOCK FALSE
