CONSTANTS
  k1 = k1  k2 = k2  k3 = k3  release = release  backup = backup  p1 = p1  p2 = p2
  Keys = {k1, k2}
  Roles = {release, backup}
  RoleOf <- MCRoleOf
  BackendOf <- MCBackendOf
  Ceremonies = {{p1}, {p1, p2}}
  MaxGeneration = 2
  MaxCommands = 4
  Operators = {o1, o2}
  Verifiers = {v1}
  Updates = {u1}
  InitialRegisters <- MCInitialRegisters
  Torn = Torn
  Null = Null
SPECIFICATION Spec
SYMMETRY Symmetry
INVARIANTS SomeoneVerifies RevocationHolds KeepsVerifying
PROPERTIES StagedFirst
