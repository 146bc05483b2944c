SPECIFICATION Spec
CONSTANTS
  render = render
  loader = loader
  Threads = {render, loader}
  Surfacers = {render}
  NoThread = nobody
  Spares = 1
INVARIANTS DriverUnderLock DriverHasContext OwnerIsServed
PROPERTY ImportsReturn
CHECK_DEADLOCK FALSE
