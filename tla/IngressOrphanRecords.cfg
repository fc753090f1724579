SPECIFICATION Spec
CONSTANTS
  a = a  b = b  s1 = s1  s2 = s2  east = east  west = west
  Roots = {a}  Clusters = {east}  Services = {s1}
  NameOf <- OwnName  RulesOf <- FirstOnly  Placement <- OneCluster
  LoadBalancers = {lb1}  Unaddressed = {}  Workers = {w1, w2}  MaxRetries = 1
  UserActions = {"createRoot", "reportStatus", "placeService"}
  MaxChanges = 3  MaxFaults = 0  MaxRestarts = 0
  NoHost = NoHost  NoCluster = NoCluster  Missing = Missing  NoKey = NoKey  NoRecord = NoRecord  NoService = NoService
INVARIANTS NoOrphanRecords
CHECK_DEADLOCK FALSE
