\* Bins of 2, 2.5, 1.5 and 2.4 Hz, 8, 4 or 5 of them, rows of 2.5 to 4 a second,
\* every band there is in whole Hz; two rows; an error in any call of the library.
CONSTANTS
  Configs <- TheConfigs
  Magnitudes = {0, 1}
  MaxLength = 2
SPECIFICATION FileSpec
INVARIANTS FilesWhole ColumnsNamed ReadsInsideRow
CHECK_DEADLOCK FALSE
