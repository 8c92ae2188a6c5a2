SPECIFICATION Spec
CONSTANTS
  A = A
  B = B
  C = C
  u1 = u1
  u2 = u2
  u3 = u3
  Units <- MCUnits
  Declarations <- MCDeclarations
  UnitOf <- MCUnitOf
  Base <- MCBase
  Asked <- MCAsked
  Dependents <- MCDependents
  NoCid = NoCid
  MaxCid = 7
INVARIANT IsTellsDerived
CHECK_DEADLOCK FALSE
