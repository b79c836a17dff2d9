CONSTANTS
  MaxNodes = 3
  MaxUptime = 2
SPECIFICATION Spec
INVARIANT ElectsHealthiest
