CONSTANTS
  d1 = d1
  d2 = d2
  a1 = a1
  a2 = a2
  ssh_port = ssh_port
  Device = {d1, d2}
  Addr = {a1, a2}
  Port = {ssh_port}
  Stale = 1
  NoMac = NoMac
  Service <- Services
  ServiceOf <- ServiceOnPort
  Ssh = "ssh"
  Phrase = {}
  Users = 2
  SshInterval = 2
  NoHost = NoHost
  Hidden = {d2}
  Home <- HomeOf
  Stride = 2
  MaxTime = 2
  MaxScans = 3
  MaxRestarts = 1
SPECIFICATION FairSpec
INVARIANTS AccessIsBacked FoundIsShown
PROPERTIES SpentIntervalTriedAll NothingAddedTwice FirstPassComes
