CONSTANTS
  c1 = c1  c2 = c2
  a1 = a1  a2 = a2  a3 = a3  a4 = a4
  NULL = NULL
  Clients = {c1, c2}
  Addr = {a1, a2, a3, a4}
  Trajectories = {"constant", "sine"}
  Controllers = {"passthrough", "pid_position"}
  MaxGen = 4
SPECIFICATION Spec
SYMMETRY Symmetric
INVARIANTS OneOwner FlagFollows ParametersFollow SeenIsCurrent
