SPECIFICATION Spec
CONSTANTS
  Projects <- MCProjects
  Kids <- MCKids
  Share <- MCShare
  NMonths = 1
  ThisMonth = 1
  FreeMonths = {1}
  Planned <- MCPlanned
  PopupRows = 2
  MaxRows = 3
  Amounts <- MCAmounts
  Totals <- MCTotals
  Brands = {"c"}
  KidTotal <- MCKidTotal
  MaxPosts = 2
  MaxNew = 2
  MaxEdits = 5
  Sessions <- MCSessions
INVARIANTS
  TypeOK AmountsAddUp TotalsCurrent SavedIsShown OneRequest Usable PopupSound
PROPERTIES
  DivisionPosted SavingEnds
