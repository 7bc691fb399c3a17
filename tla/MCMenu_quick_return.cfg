SPECIFICATION Spec
CONSTANTS
  Period = 4
  MaxCheck = 2
  Chains = {c1, c2, c3}
  Outputs <- Printed
SYMMETRY Permuted
INVARIANT OneTickPerPeriod
