CONSTANTS
  ip1 = ip1
  ip2 = ip2
  ip3 = ip3
  c1 = c1
  c2 = c2
  c3 = c3
  None = None
  Ips <- MCIps
  Categories <- MCCategories
  UserBucket <- MCUserBucket
  CategoryBucket <- MCCategoryBucket
  MaxEntries <- MCMaxEntries
SPECIFICATION Spec
INVARIANTS NoRowLeftBehind
CHECK_DEADLOCK FALSE
