SPECIFICATION Spec
CONSTANTS
  None = None
  Raised = Raised
  Refused = Refused
  Garbled = Garbled
  Nothing = Nothing
  Fault = Fault
  Malformed = Malformed
  NULL = NULL
  Threshold = 0
  Numbers = {2, 3, 9}
  Languages = {"ar", "en"}
  Inside = {}
  Aliases <- MCAliases
  Statuses <- MCStatuses
  Numerals <- MCNumerals
  Required = {"unit_id", "property_type", "price", "availability"}
  Available = "available"
  DefaultLimit = 2
  MaxLimit = 3
  Sheets <- MCSheets
  Snapshots <- MCSnapshots
  Projects = {NULL, "noor"}
  Script <- MCScript
  Specs <- MCSpecs
  Documents <- MCDocuments
  Teams <- MCTeams
  PerYear <- MCPerYear
  UnitOrder <- MCOrder
  MaxTurns = 3
INVARIANTS
    OffersAreReal
    
    LeadReachesItsTeam
