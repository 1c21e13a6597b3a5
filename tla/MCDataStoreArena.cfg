CONSTANTS
  day = day
  spacetime = spacetime
  xs = xs
  short = short
  long = long
  poly = poly
  Columns = {day, spacetime, xs}
  Files = {short, long, poly}
  Rows <- MCRows
  TypeSize <- MCTypeSize
  BlockSize = 4
  NoColumn = NoColumn
  Zero = Zero
  MaxCrashes = 2
SPECIFICATION Spec
INVARIANTS
  TypeOK
  TuplesMatchIds
  BlocksFit
  DiskMirrorsMemory
  LoadedRowsSurvive
  OnlyTornFilesLoseCells
