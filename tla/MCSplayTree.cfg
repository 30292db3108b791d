SPECIFICATION Spec
CONSTANTS
  Keys <- MCKeys
  Records = {r1, r2}
  NoRecord = none
  NoNode = freed
INVARIANTS TypeOK ParentsMatch Ordered HalfwayFreesOnce
PROPERTIES InsertedIsRoot IsOrderedMap
