SPECIFICATION FairSpec
CONSTANTS
  Receivers = {r1, r2}
  Characteristics = {ch1}
  OwnChannels = {"service_discovery", "ready_to_send", "services_changed"}
  ValueCap = 2
  NoChannel = NoChannel
  MaxEvents = 2
INVARIANTS TypeOK OnceBacked NoLostReady
PROPERTIES LaggedOnlyIfOverrun EndsComplete StreamsSpec OnceReturns
CHECK_DEADLOCK FALSE
