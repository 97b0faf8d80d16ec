CONSTANTS
  FlowWindow = 18
  BeamWidth = 6
  MaxCandidates = 5
  MaxMerged = 3
  Seoul = 40
  Home = 2
  Area = 5
  Places <- MCPlaces
  PlaceAt <- MCPlaceAt
  KindsOf <- MCKindsOf
  Chains = {"chain1"}
  Requests <- MCRequests
SPECIFICATION Spec
INVARIANTS  SelectionSound RouteSound TimetableSound
CHECK_DEADLOCK FALSE
