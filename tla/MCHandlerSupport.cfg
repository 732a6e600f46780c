CONSTANTS
  Names <- MCNames
  Bounds <- MCBounds
  Values <- MCValues
  One = 10
  None = None
  Infinity = Infinity
  MaxMetrics = 2
  MaxDeclared = 2
  MaxLines = 4
SPECIFICATION Spec
INVARIANTS
  TypeOK
  SampledOnce
  RendersCheckedSeries
  HistogramsCumulate
  DeclaredKeysOnce
  OwnSamples
CHECK_DEADLOCK FALSE
