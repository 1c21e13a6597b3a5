SPECIFICATION Spec

CONSTANTS
  Vectors <- MCVectors
  Turns <- MCTurns
  Quaternions <- MCQuaternions
  Matrices <- MCMatrices
  Windows <- MCWindows
  Views <- MCViews
  Eyes <- MCEyes
  Rects <- MCRects
  Points <- MCPoints
  Numbers <- MCNumbers
  Places <- MCPlaces
  MaxCalls = 2

INVARIANTS
  TypeOK
  FlagsSound
  ElementsExact
  InverseExact
  MapsExact
  MapRectExact

CHECK_DEADLOCK FALSE
