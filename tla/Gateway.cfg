CONSTANTS
  i1 = i1  i2 = i2  suspend = suspend  notify = notify
  k1 = k1  trusted = trusted  untrusted = untrusted
  Any = Any
  Callers = {c1, c2}
  Ids = {i1, i2}
  ActionTypes = {suspend, notify}
  Connectors <- MCConnectors
  ClaimKeys = {k1}
  Labels = {trusted, untrusted}
  Policies <- MCPolicies
  Offers <- MCOffers
  Actor = agent
  Purpose = authorize
  MaxLosses = 1
  Null = Null
SPECIFICATION Spec
INVARIANTS TypeOK AtMostOnce Authorized DisableHolds RecallNames
PROPERTIES Released
