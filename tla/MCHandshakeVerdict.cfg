SPECIFICATION Spec
CONSTANTS
  Process = {1, 2, 3}
  Pipe = {"p2c", "c2p", "p2c2", "c2p2", "p_c1", "c1_c2", "c2_p"}
  Args <- MCArgs
  Junk = {0, 66, 75, 255}
  MaxFaults = 1
INVARIANTS VerdictFromChild
CHECK_DEADLOCK FALSE
