SPECIFICATION ServiceSpec
CONSTANTS
  Nothing = Nothing
  Half = Half
  Sessions = {s1, s2}
  Savers = {p1, p2}
  StoreChanges = 2
  StoreFaults = 1
  NoSnapshot = NoSnapshot
  Publishers = {o1, o2}
  MaxKnowledge = 4
  KnowledgeFaults = 2
  Nobody = Nobody
  ScriptCalls = {c1, c2}
  ActionCalls = {a1, a2}
  RunFaults = 1
INVARIANTS
  SavedStaysSaved
  OneRunnerPerSession
PROPERTIES
  KnowledgeNeverOlder
  ChangesReachFile
  RecordSettles
CHECK_DEADLOCK FALSE
