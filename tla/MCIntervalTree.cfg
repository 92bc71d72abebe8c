SPECIFICATION Spec
CONSTANTS
  Intervals <- MCIntervals
  QueryPoints <- MCQueryPoints
INVARIANTS
  LimitsAreTight
  Balanced
  SearchesAreExact
PROPERTY
  ImplementsSet
