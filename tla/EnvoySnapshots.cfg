SPECIFICATION FairSpec
CONSTANTS
  a = a  b = b
  Roots = {a, b}  Workers = {w1, w2}
  LoadBalancers <- OneLB  RulesOf <- AnyRules  InitialRules <- FirstThere  DomainHosts <- InDomain
  MaxChanges = 2  Cost <- SecondCostsTwo  MaxFaults = 1
  Gone = Gone  NoEntry = NoEntry  NoSnapshot = NoSnapshot  Nobody = Nobody  NoKey = NoKey
  NoStatus = NoStatus  NoHost = NoHost  NoHTTP = NoHTTP  NoAddress = NoAddress
INVARIANTS TypeOK CacheCurrent StatusHostCurrent RequestsRouted OnlyOwnHosts
PROPERTIES ImplementsEnvoyStore EnvoyHeals
CHECK_DEADLOCK FALSE
