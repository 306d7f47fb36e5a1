SPECIFICATION Spec
CONSTANTS
  Names <- MCNames
  Autos <- MCAutos
  Hash <- MCHash
  Order <- MCOrder
  Values = {v}
  MaxBuilds = 3
  MaxMain = 3
  MaxInf = 2
INVARIANTS FieldsAreNames NumbersAgree ValuesUnderNames OneMainBase
CHECK_DEADLOCK FALSE
