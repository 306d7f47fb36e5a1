CONSTANTS
  Keys = {1, 2}
  Indices = {7, 8}
SPECIFICATION Spec
INVARIANTS RegionsInside
PROPERTIES FlagsApart
