SPECIFICATION Spec
CONSTANTS
  t1 = t1  t2 = t2  v0 = v0  v1 = v1
  Provider = Provider  NoValue = NoValue  DefaultValue = v0
  Threads <- TwoThreads
  Values <- TwoValues
  Predicates <- OnePredicate
  StoreBuffers = TRUE
  MaxVersion = 3  MaxSources = 2  MaxValidators = 1  MaxRevision = 2
CHECK_DEADLOCK FALSE
INVARIANT YesMeansReloaded
PROPERTY AllOrNothing
