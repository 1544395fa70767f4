CONSTANTS
  Web = {a, b}
  Workers = {u, v}
  Keys = {k1}
  MaxRetries = 5
  NoKey = NoKey
SPECIFICATION FairSpec
INVARIANTS TypeOK DuplicatesAreExplained
PROPERTIES SentIsTrue RetriesDeliver
