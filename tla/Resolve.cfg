\* Two queries and a reload of a snapshot or of the lists.
SPECIFICATION Spec
CONSTANTS
  None = None
  Global = Global
  r1 = r1
  i1 = i1
  sub = sub
  top = top
  a1 = a1
  a2 = a2
  Queries = {q1, q2}
  Routes <- MCRoutes
  IPs <- MCIPs
  Names <- MCNames
  Asked <- OnlySub
  Suffixes <- MCSuffixes
  Answers <- MCAnswers
  Kinds = {"address", "record", "probe", "malformed"}
  Snapshots <- Published
  Lists <- MCLists
  MaxClock = 1
  MaxReloads = 1
SYMMETRY Symmetry
INVARIANTS CountedOnce AnsweredOnlyIfActive AnswersAsDecided
CHECK_DEADLOCK FALSE
