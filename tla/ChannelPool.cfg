\* Two shards competing for two objects, two publishers.
CONSTANTS
  Objs = {o1, o2}
  Shards = {s1, s2}
  Readers = {r1, r2}
  MaxGen = 3
  NoObj = NoObj
SPECIFICATION Spec
INVARIANTS ReaderKeepsItsChannel LiveChannelIsOwned NoLeak
CHECK_DEADLOCK FALSE
