\* Two requests, one of the two accounts typed in two ways.  One row of sessions
\* is enough for each account to hold it in turn and for both to be served.
CONSTANTS
  Requests = {r1, r2}
  root = root
  bob = bob
  typed_root = typed_root
  typed_bob = typed_bob
  padded_bob = padded_bob
  Users = {root, bob}
  Spellings = {typed_root, typed_bob, padded_bob}
  AccountOf <- MCAccountOf
  Role <- MCRole
  Bootstrap = root
  IPs = {ip}
  Tokens = {t1}
  MaxFailures = 1
  IPFactor = 2
  Window = 1
  TTL = 1
  None = None
SPECIFICATION Spec
INVARIANTS TypeOK EvictionComplete DisabledSignedOut SignInsLimited
PROPERTIES SessionsEndForAReason ExpiredLeave LockoutEnds
