SPECIFICATION Spec
CONSTANTS
  h1 = h1  h2 = h2
  None = None
  Sessions = {h1, h2}
  Given = {"critical", "medium"}
  Instants <- Boundaries
SYMMETRY AnyOrder
INVARIANTS MetMeansInTime
PROPERTIES WarnedFirst ReportsAreFinal CountsDown
