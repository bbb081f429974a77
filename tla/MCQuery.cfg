SPECIFICATION SpecWithQueries
CONSTANTS
 Keys = {1,2,3,4,5,6}
 Hashes = {1,2,3}
 HashOf <- TheHashOf
 Digits <- TheDigits
 BoundsOf <- TheBounds
 Splittable <- TheSplittable
 Promotable = {1,2}
 InitialTopologies <- TheTopologies
 FalsePositives = {2}
 ListsPromotions = FALSE
 InitialViews <- TheViews
 maxForwardRetries = 8
 MAX_TOPOLOGY_FALLBACKS = 16
 rangeHierarchyMaxRows = 3
 Requests <- TheRequests
 MaxRequests = 2
 MaxEvents = 2
 Queries <- TheQueries
 Matches = {1,2,3,5,6}
 Weight <- TheWeight
 MAX_EVALUATED_BYTES_PER_PAGE = 100
 MAX_PARTITION_VISITS_PER_PAGE = 2
INVARIANTS ReadsSeeEveryWrite EveryMissIsResolved ForwardsGoDown PagesAreTheScan PagesFitTheirBudget
CHECK_DEADLOCK FALSE
