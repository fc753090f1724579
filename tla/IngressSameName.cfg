SPECIFICATION Spec
CONSTANTS
  a = a  b = b  s1 = s1  s2 = s2  east = east  west = west
  Roots = {a, b}  Clusters = {east, west}  Services = {s1, s2}
  NameOf <- SameName  RulesOf <- OneEach  Placement <- TwoClusters
  LoadBalancers = {lb1}  Unaddressed = {}  Workers = {w1, w2}  MaxRetries = 1
  UserActions = {"createRoot"}
  MaxChanges = 2  MaxFaults = 0  MaxRestarts = 0
  NoHost = NoHost  NoCluster = NoCluster  Missing = Missing  NoKey = NoKey  NoRecord = NoRecord  NoService = NoService
PROPERTIES OnlyOwnLeavesDeleted
CHECK_DEADLOCK FALSE
