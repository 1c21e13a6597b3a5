SPECIFICATION PolygonSpec

CONSTANTS
  Columns <- MCColumns
  Files <- MCFiles
  Rows <- MCRows
  TypeSize <- MCTypeSize
  BlockSize = 12
  NoColumn = NoColumn
  Zero = Zero
  MaxCrashes = 1
  NumColumn = "layerNumPoints"
  XColumn = "layerXs"
  YColumn = "layerYs"
  Polygons <- MCPolygons
  GridXs = 3
  GridYs = 2
  Buffer = 3
  Unread = Unread
  NoFile = NoFile
  NoGrid = NoGrid

INVARIANTS
  PolygonTypeOK
  IdsNameAPolygon
  PolygonsAsLoaded
  PolygonsNeverMixed
  GridAnswersAsBruteForce
