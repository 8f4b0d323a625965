SPECIFICATION TypesSpec
CONSTANTS
  o1 = o1
  o2 = o2
  o3 = o3
  Object = {o1, o2, o3}
  Unused = Unused
  TypeCount = 3
  ListMax = 8
  Width = 8
  Registrations = 8
PROPERTIES
  NobodyPushedOut
