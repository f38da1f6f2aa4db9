CONSTANTS
  a = a
  b = b
  s1 = s1
  NoWork = NoWork
  Sessions = {s1}
  Npcs = {a, b}
  Keys <- MCKeys
  Works <- MCWorks
  Answering <- MCAnswering
  FocusedLimit = 1
  ReactiveLimit = 1
  TotalLimit = 2
  MaxArrivals = 3
SPECIFICATION SchedulerSpec
INVARIANT AwaitingHasAnswerer
PROPERTIES ImplementsQueue EveryWorkSettles DrainReturns
