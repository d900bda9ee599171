CONSTANTS
  phoneMain = phoneMain
  phoneMessages = phoneMessages
  phone = phone
  Sockets = {phoneMain, phoneMessages}
  MessageSockets = {phoneMessages}
  Devices = {phone}
  DeviceOf <- MCDeviceOf
  Nobody = nobody
  MaxJobs = 2
  MaxQueries = 1
  MaxMishaps = 1
SPECIFICATION FairSpec
CHECK_DEADLOCK FALSE
INVARIANTS
  ToldIsTrue
PROPERTIES
  PresenceSettles
