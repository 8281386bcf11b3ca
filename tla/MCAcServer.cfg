\* The times of the sources, in seconds.
CONSTANTS
  Answer <- ServerAnswers
  Text <- Say
  ParserMakes <- Parse
  Period = 15
  ConnectTime = 10
  HTTP_TIMEOUT = 3
  CardTime = 2
  DhcpTime = 60
  MqttTime = 2
  Beat = 5
  HasMirror = TRUE
  MaxFaults = 2
SPECIFICATION FairSpec
INVARIANTS
  AnswerWholeOrNone
  StartsInTime
PROPERTIES
  StatusIsAccountedFor
  ComesBack
