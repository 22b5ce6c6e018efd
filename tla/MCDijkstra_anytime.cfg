CONSTANTS
  NODE_CNT = 8
  MaxHop = 911
  Maps <- FewMaps
  Starts = {0, 5}
  Unknown = Unknown
SPECIFICATION Spec
INVARIANTS
  PipelineAligned
PROPERTIES
  FinalLabels
  ResultsHold
  Terminates
  ImplementsGreedySearch
