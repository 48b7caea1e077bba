\* A list of two rows that share their Views; the icon of one is in a block.
SPECIFICATION Spec
CONSTANTS
  Elements = {"page", "row1", "row2", "icon1", "icon2"}
  Root = "page"
  Children <- Rows
  InBlock = {"icon2"}
  OwnKey <- RowKeys
  Views = {1, 2, 3, 4, 5, 6}
  MaxLevel <- RowLevels
INVARIANTS Exclusive Attached InSight NoStrangers
