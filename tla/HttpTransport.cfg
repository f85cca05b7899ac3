CONSTANTS
  None = None
  Blank = Blank
  managed = managed
  ownT = ownT
  fleetT = fleetT
  fleetLogin = fleetLogin
  ownLogin = ownLogin
  envLogin = envLogin
  Instance = {managed}
  Target <- MCTarget
  Login = {ownLogin, fleetLogin, envLogin}
  CredTarget <- MCCredTarget
  FleetTarget = fleetT
  Literal <- MCLiteral
  Entry <- MCEntry
  Nameless = {}
  EnvUser = envLogin
  EnvPassword = envLogin
  Request = {r1, r2}
  Address = {ip}
  Session = {id}
  Headers <- MCHeaders
  Max = 2
  Window = 2
  AuthRequired = TRUE
SPECIFICATION HFairSpec
INVARIANTS
  RunsAsItself
  WithinTwice
PROPERTIES
  RefusedForAReason
  NoDriftOnceRead
  MissesAreRetried
