\* Two requests at a time at any of the four programs, one failure.
SPECIFICATION Spec
CONSTANTS
  Routes = {t1}
  Customers = {c1}
  Resellers = {v1, v2}
  Admins = {adm}
  Resolver = Resolver
  Backend = Backend
  Dashboard = Dashboard
  Portal = Portal
  Requests = {q1, q2}
  IPs = {ip}
  Durations = {2}
  Adjustments <- AnyDays
  Dates = {1}
  PauseCap = 1
  Global = Global
  None = None
  MaxClock = 1
  MaxRequests = 2
  MaxFaults = 1
SYMMETRY Symmetry
INVARIANTS PaidTimeKept 
PROPERTY Isolation
CHECK_DEADLOCK FALSE
