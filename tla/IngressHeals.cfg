SPECIFICATION ResyncSpec
CONSTANTS
  a = a  b = b  s1 = s1  s2 = s2  east = east  west = west
  Roots = {a}  Clusters = {east}  Services = {s1}
  NameOf <- OwnName  RulesOf <- FirstOnly  Placement <- OneCluster
  LoadBalancers = {lb1}  Unaddressed = {}  Workers = {w1}  MaxRetries = 0
  UserActions = {"createRoot", "placeService", "reportStatus", "pin", "unpin", "changeAddress", "resync"}
  MaxChanges = 3  MaxFaults = 0  MaxRestarts = 1
  NoHost = NoHost  NoCluster = NoCluster  Missing = Missing  NoKey = NoKey  NoRecord = NoRecord  NoService = NoService
INVARIANTS LeavesConverged NoLeftovers DnsConverged StatusConverged
PROPERTIES SelfHealing AddressesHeal
CHECK_DEADLOCK FALSE
