SPECIFICATION Spec
CONSTANTS
  Reports <- MCReports
  Requests <- MCRequests
  Bundles <- MCBundles
  Targets = {"docker", "k3s_kata"}
  Hosts <- MCHosts
  MaxReports = 2
  MaxRequests = 1
INVARIANT ExecutedIsProven
INVARIANT BlockAsProven
INVARIANT MatrixIsBacked
