CONSTANTS
  Jobs = {j1, j2}
  Names <- MCNames
  Files <- MCFiles
  MaxSuffix = 6
  Manual <- MCManual
  NoJob = NoJob
SPECIFICATION FairSpec
CHECK_DEADLOCK FALSE
INVARIANTS TypeOK SkuOnce RowsAreAccounted RefusedSkuIsTaken
PROPERTIES ImportsEnd
