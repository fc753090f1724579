SPECIFICATION FairSpec
CONSTANTS
  a = a  b = b  s1 = s1  s2 = s2  east = east  west = west
  Roots = {a}  Clusters = {east}  Services = {s1}
  NameOf <- OwnName  RulesOf <- FirstOnly  Placement <- OneCluster
  LoadBalancers = {lb1, lb2}  Unaddressed = {lb2}  Workers = {w1, w2}  MaxRetries = 1
  UserActions = {"createRoot", "deleteRoot", "reportStatus"}
  MaxChanges = 3  MaxFaults = 1  MaxRestarts = 1
  NoHost = NoHost  NoCluster = NoCluster  Missing = Missing  NoKey = NoKey  NoRecord = NoRecord  NoService = NoService
INVARIANTS DnsConverged StatusConverged
PROPERTIES Settles
CHECK_DEADLOCK FALSE
