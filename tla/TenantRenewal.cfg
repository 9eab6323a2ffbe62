\* Two renewals of one tenant, one after the other, at any two programs.
SPECIFICATION Spec
CONSTANTS
  Routes = {t1}
  Customers = {c1}
  Resellers = {v1, v2}
  Admins = {adm}
  Resolver = Resolver
  Backend = Backend
  Dashboard = Dashboard
  Portal = Portal
  Requests = {q1}
  IPs = {ip}
  Durations = {1, 2}
  Adjustments = {}
  Dates = {}
  PauseCap = 2
  Global = Global
  None = None
  MaxClock = 1
  MaxRequests = 2
  MaxFaults = 0

PROPERTY RenewalNeverShortens
CHECK_DEADLOCK FALSE
