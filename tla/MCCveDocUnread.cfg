CONSTANTS
  chrome = chrome
  kernel = kernel
  ios = ios
  c1 = c1
  c2 = c2
  kiosk = kiosk
  unifi = unifi
  mobile = mobile
  Absent = Absent
  Junk = Junk
  AnyOwner = AnyOwner
  Product <- Products
  Version <- Versions
  Rules <- TheRules
  Domain <- Domains
  Cve <- Cves
  NvdTables <- MixedTables
  Registries <- TheRegistries
  MaxRefreshes = 1
  MaxReloads = 0
SPECIFICATION Spec
INVARIANTS CountMeansRead
CHECK_DEADLOCK FALSE
