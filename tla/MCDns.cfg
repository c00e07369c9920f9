SPECIFICATION DnsSpec
CONSTANTS
  Clients = {c1, c2}
  Letters = 2
  RawNames = {3, 4}
  Blocks = 4
  MaxTime = 1
  Reuse = FALSE
  Files <- MCFiles
  Sought <- MCSought
  Rooms = {1, 3}
  MaxFqdn = 2
  BufSize = 9
  MaxOctet = 4
  Mark = 4
  MaxLabel = 2
  MaxName = 5
  Messages <- MCMessages
  Starts = {0, 1, 2}
  NameLists <- MCNameLists
  Responses <- MCResponses
  Wants <- MCWants
  Sizes = {1, 2}
INVARIANTS IndexesAgree HostsExact NamesAgree EchoDecodes AnswerExact
PROPERTIES KeepsFacts LookupEnds
CHECK_DEADLOCK FALSE
