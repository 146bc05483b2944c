SPECIFICATION Spec
CONSTANTS
  render = render
  loader = loader
  v1 = v1
  i1 = i1
  Threads = {render, loader}
  VertexBuffers = {v1}
  IndexBuffers = {i1}
  NoBuffer = none
  HudBuffer = hud
  Attribs = {0}
  HudAttrib = 0
  Sizes = {1, 2}
  IndexLists <- Lists
  Unit = 2
  Offsets = {0, 1}
  Counts = {2}
  Vertices = {1}
  MaxDeletes = 1
  Loaders = {loader}
  FewCalls = 1
INVARIANT CopiesAgree
PROPERTIES DrawsStayInside NothingCorrectIsLost
CHECK_DEADLOCK FALSE
