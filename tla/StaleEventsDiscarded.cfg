SPECIFICATION Spec
CONSTANTS
  w1 = w1
  Instances <- OneInstance
  Packets <- PacketsOfOne
  MaxSessions = 3
  MaxEvents = 3
  NoEndpoint = NoEndpoint
  NoPacket = NoPacket
PROPERTIES
  StaleEventsDiscarded
