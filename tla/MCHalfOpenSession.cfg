SPECIFICATION HealthySpec
CONSTANTS
  h1 = h1
  loop = loop
  c1 = c1
  c2 = c2
  c3 = c3
  x1 = x1
  x2 = x2
  x3 = x3
  x4 = x4
  None = None
  Handlers = {h1}
  Loop = loop
  Clients = {c1, c2, c3}
  HttpClients = {x1, x2, x3, x4}
PROPERTIES
  KeepsReconciling
