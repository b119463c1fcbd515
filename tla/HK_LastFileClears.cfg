CONSTANTS
  Total = 6
  PermSizes = {1, 2}
  TempSizes = {1, 2}
  MaxLost = 2
SPECIFICATION HunkSpec
PROPERTIES LastFileClears
