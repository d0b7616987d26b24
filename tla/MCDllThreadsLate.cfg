CONSTANTS
  Main = Main
  t1 = t1
  t2 = t2
  NoThread = NoThread
  Others <- MCOthers
  MaxThreads = 3
  MaxGC = 2
SPECIFICATION Spec
PROPERTY MarkSawEveryThread
