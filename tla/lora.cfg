CONSTANTS
  Things = {t1, t2}
  Chans = {c1}
  Euis = {e1}
  Apps = {a1}
  None = None
  BatchSize = 2
  MaxStream = 2
SPECIFICATION Spec
SYMMETRY Symmetry
INVARIANTS ForwardedWasDeclared LiveIsRouted
