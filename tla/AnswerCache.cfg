\* Two clients, three questions, every kind of reply.
SPECIFICATION FairSpec
CONSTANTS
  Nothing = Nothing
  home = home
  web = web
  A = A
  X = X
  Clients = {c1, c2}
  Questions <- MCQuestions
  NamedTypes <- MCNamedTypes
  Exempt <- MCExempt
  Messages <- MCMessages
  MinTTL = 1
  NegTTL = 2
  MaxTTL = 2
INVARIANTS AnswerFitsQuestion ServedFresh NoPrivateServed
PROPERTY IdleCacheEmpties
