SPECIFICATION FairSpec
CONSTANTS
  s1 = s1
  s2 = s2
  a = a
  b = b
  c = c
  Server = {s1, s2}
  Present = {s1}
  Home <- MCHome
  Ip = {a, b, c}
  Place <- MCPlace
  Grpc = {8100}
  AgentPort <- MCAgentPort
  Port = {1, 2}
  Type = {"xray", "naiveproxy"}
  Detailed = {"xray"}
  MaxId = 2
  First <- MCFirst
  MaxConcurrent = 2
  None = None
  MaxRequests = 3
  MaxFaults = 1
CHECK_DEADLOCK FALSE
INVARIANT DetailsExist
INVARIANT ServedAsRegistered
PROPERTY NothingStartsDuringRemoval
PROPERTY NobodyWaitsForever
