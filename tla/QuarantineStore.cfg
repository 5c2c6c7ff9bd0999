SPECIFICATION QFairSpec
CONSTANTS
  t1 = t1
  t2 = t2
  t3 = t3
  i1 = i1
  i2 = i2
  NoTask = NoTask
  NoItem = NoItem
  Tasks <- MCTasks
  Items <- MCItems
INVARIANT RecordHasContent
PROPERTIES NoErrorFromConcurrentWrite ImplementsCustody CallsReturn
