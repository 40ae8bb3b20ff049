SPECIFICATION Spec
CONSTANTS
  w1 = w1
  w2 = w2
  f1 = f1
  f2 = f2
  f3 = f3
  Owner = Owner
  Nobody = Nobody
  NoTask = NoTask
  Workers <- MCWorkers
  Tasks <- MCFiles
  FileList <- MCFileList
INVARIANTS
  ResultsInFileOrder
  NeverAllWait
PROPERTIES
  ReportSpec
