CONSTANTS
  chrome = chrome
  kernel = kernel
  ios = ios
  c1 = c1
  c2 = c2
  kiosk = kiosk
  unifi = unifi
  mobile = mobile
  Absent = Absent
  Junk = Junk
  AnyOwner = AnyOwner
  Product <- Products
  Version <- Versions
  Rules <- TheRules
  Domain <- Domains
  Cve <- Cves
  NvdTables <- TheTables
  Registries <- TheRegistries
  MaxRefreshes = 1
  MaxReloads = 1
SPECIFICATION Spec
INVARIANTS VerdictsAreSound EveryCveIsAccountedFor CountIsOfOneMoment WindowCountIsWhole
CHECK_DEADLOCK FALSE
