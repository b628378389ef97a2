SPECIFICATION HFairSpec
CONSTANTS
  c1 = c1
  Containers = {c1}
  Objects = {o1, o2}
  Digests = {d1}
  Handlers = {h1, h2}
  Collectors = {g1}
  Ticker = g1
  ConflictIds = {1}
  NoDigest = NoDigest
  home <- Home
  RequestKinds = {"save", "preview", "attachment"}
  MaxFaults = 1
INVARIANTS
  NeededHasFile
  RetentionRestarts
PROPERTIES
  Reclaimed
