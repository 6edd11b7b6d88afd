SPECIFICATION FairSpec
CONSTANTS
  r1 = r1
  r2 = r2
  r3 = r3
  c1 = c1
  c2 = c2
  i1 = i1
  res1 = res1
  NoTask = NoTask
  NoResource = NoResource
  Unbounded = Unbounded
  RootTask = {r1, r2}
  ChildTask = {c1}
  Idler = {i1}
  Resource = {res1}
  Kind <- CappedNeedsResource
  Cap <- MCCap
  RetainedRoots = 1
  Together <- RootAndOneMore
PROPERTIES EverythingSettles
