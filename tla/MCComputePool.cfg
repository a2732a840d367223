CONSTANTS
  t1 = t1
  t2 = t2
  t3 = t3
  t4 = t4
  NoTask = NoTask
  Tasks <- FourTasks
  Small = {t4}
  MaxPoolSize = 2
SPECIFICATION FairSpec
INVARIANTS
  LateResultsAreHarmless
PROPERTIES
  ImplementsTaskPool
  EveryTaskIsSettled
