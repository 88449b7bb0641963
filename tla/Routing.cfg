\* One pool thread, two kinds of file, two plugins, one client.
CONSTANTS
  None = None
  file = file
  m1 = m1
  m2 = m2
  s = s
  p = p
  q = q
  c = c
  t1 = t1
  Scheme = {file}
  Mime = {m1, m2}
  Client = {c}
  Service = {s}
  Slot = {1, 2, 3}
  Plugin = {p, q}
  Thread = {t1}
  Contents <- MCContents
  Types <- MCTypes
  Priority <- MCPriority
  MaxFiles = 3
  MaxChanges = 3
SPECIFICATION Spec
INVARIANTS
  ProxyHeld
  NoHandlerOfTheDead
  NoDanglingRegistration
  RegistrationsFollowFiles
  SupportedIsComplete
