SPECIFICATION Spec
CONSTANTS
  a = a  b = b  s1 = s1  s2 = s2  east = east  west = west
  Roots = {a}  Clusters = {east, west}  Services = {s1, s2}
  NameOf <- OwnName  RulesOf <- FirstOrBoth  Placement <- TwoClusters
  LoadBalancers = {lb1}  Unaddressed = {}  Workers = {w1, w2}  MaxRetries = 1
  UserActions = {"createRoot", "updateRoot", "removeService"}
  MaxChanges = 2  MaxFaults = 1  MaxRestarts = 1
  NoHost = NoHost  NoCluster = NoCluster  Missing = Missing  NoKey = NoKey  NoRecord = NoRecord  NoService = NoService
INVARIANTS TypeOK LeavesConverged NoLeftovers RootsTracked
SYMMETRY Symmetry
CHECK_DEADLOCK FALSE
