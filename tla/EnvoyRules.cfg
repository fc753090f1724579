SPECIFICATION Spec
CONSTANTS
  a = a  b = b
  Roots = {a, b}  Workers = {w1, w2}
  LoadBalancers <- TwoLBs  RulesOf <- AnyRules  InitialRules <- FirstThere  DomainHosts <- InDomain
  MaxChanges = 1  Cost <- EachCostsOne  MaxFaults = 0
  Gone = Gone  NoEntry = NoEntry  NoSnapshot = NoSnapshot  Nobody = Nobody  NoKey = NoKey
  NoStatus = NoStatus  NoHost = NoHost  NoHTTP = NoHTTP  NoAddress = NoAddress
INVARIANT HostlessRuleIgnored
CHECK_DEADLOCK FALSE
