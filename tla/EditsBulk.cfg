CONSTANTS
  c1 = c1
  c2 = c2
  c3 = c3
  i1 = i1
  i2 = i2
  app = app
  proxy = proxy
  client = client
  note = note
  profile = profile
  filter = filter
  host = host
  first = first
  new = new
  other = other
  Calls <- MCPair
  Started <- MCStarted
  ResourceOf <- MCResourceOf
  Labels <- MCLabels
  MaxTag <- MCMaxTag
  Jobs <- BulkJobs
  FirstLabel = first
  Keep = Keep
  Gone = Gone
  NoLabel = NoLabel
  tagsLock = tagsLock
SPECIFICATION Spec
PROPERTY
  EditUndoesNothing
