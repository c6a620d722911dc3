SPECIFICATION MCSpec
CONSTANTS
  NCols = 5
  Frozen = 1
  ViewRows = 2
  ViewCols = 1
  MinBuffer = 1
  EditCols <- MCEditCols
  Loaded <- MCLoaded
  NewItem <- MCNewItem
  Values = {0, 1}
  Typed = {1, 9}
  TopStops <- MCTopStops
  LeftStops <- MCLeftStops
  Sessions <- MCSessions
  MinWidth <- MCMinWidth
  MaxWidth <- MCMaxWidth
  Resizable = {"a", "b", "d"}
  Sortable = {"a", "b"}
  Rerendered = {"d"}
  Lists <- MCLists
  FirstList = "few"
  AbsMin = 2
  Bar = 3
  Slack = 10
  Windows = {8, 17}
  Pulls <- MCPulls
  MaxSort = 2
  MaxTotal = 14
  ColumnJobs <- MCColumnJobs
  RowLists <- MCRowLists
  Headings = {"h"}
  LastCell = 1
  EditedCells = {1}
  DrawnRows = 3
  SelectionJobs <- MCSelectionJobs
  Facts <- MCFacts
  NumberText <- MCNumberText
  Escape <- MCEscape
  Unescape <- MCUnescape
  NaN <- MCNaN
  Greatest = 9999990
  RefusedTexts = {"<"}
  TypedIn <- MCTypedIn
  CellPairs <- MCCellPairs
  Asynchronous = {TRUE, FALSE}
INVARIANTS
  TypesOK
  ScreenCurrent ViewRight EditorOnItsItem
  ColumnsOnScreen WidthsRight
  SelectionShown
  OneEditor
PROPERTIES
  TypedKept EditorOnScreen
  DragGivesAndTakes
  SelectionKept
  StoredAsTyped RejectedKept
