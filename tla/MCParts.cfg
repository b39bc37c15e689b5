SPECIFICATION Spec
CONSTANTS
  Keys = {1, 2, 3}
  HEAPSIZE = 7
  SIZE = 16
  number_size_limit = 5
  Width = 8
  TextLengths = {0, 3, 4, 7}
  TimeLength = 2
  NameLength = 2
  LineNumber = 42
  MaxItems = 3
  MaxNumbers = 1
  minus = minus
  ch = ch
  Words <- TheWords
  Methods = {"GET", "FORGET", "POST", "PUT"}
  Uris <- TheUris
  Versions = {"0", "1", "15", "2"}
  Known = {"0", "1", "15"}
  Inside <- TheInside
  Files <- TheFiles
  MaxPages = 2
  NPOS = 255
CHECK_DEADLOCK FALSE
INVARIANTS
  HeapOrdered
  LineIsSound
  AnswersTheRequest
  NoThrow
PROPERTY
  TakesTheLeast
