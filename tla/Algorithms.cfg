\* Every input within these bounds; FirstSize and LastSize stand for 50000 and 100000.
SPECIFICATION AlgorithmsSpec
CONSTANTS
  MaxCommands = 3
  MaxPieces = 3
  MaxPiece = 2
  MAXLINE = 24
  Separators = {2}
  MaxTotal = 12
  MaxRead = 2
  MaxReads = 3
  FirstSize = 3
  LastSize = 6
  MaxLimit = 8
  MaxReadings = 4
  Temps = {0, 1, 2, 60, 70}
INVARIANTS EchoAnswers BulkTransfer OneTooMany Extremes
