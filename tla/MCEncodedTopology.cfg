\* Two hash trees, three promotable hashes and a tree of range splits above the size limit.
SPECIFICATION MCSpec
CONSTANTS
  RankBlock = 2
  KeyMax = 8
  BloomMinCapacity = 2
  BloomBits <- MCBloomBits
  RangeBodyMax = 4
  PromotedListMax = 1
  RootTreesN = 2
  HashSplitN = 2
  Nodes <- UnevenNodes
  Hashes <- Hashes16
  Promotable = {1, 2, 3, 4, 5}
  Digits <- AllDigits
  RangeSplits <- TreeSplits
  None = None
INVARIANTS MergeIsTheFullBuild HashesAreFound IntervalsAreFound
\* Every fact is known and built.
CHECK_DEADLOCK FALSE
