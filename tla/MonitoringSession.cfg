SPECIFICATION FairSpec
CONSTANTS
  w1 = w1
  Instances <- OneInstance
  Packets <- PacketsOfOne
  MaxSessions = 3
  MaxEvents = 3
  NoEndpoint = NoEndpoint
  NoPacket = NoPacket
INVARIANTS OneListener StopForgets ListeningIsHeard
PROPERTIES ListenerStops
