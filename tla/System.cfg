SPECIFICATION SystemSpec
CONSTANTS
  Nil = Nil
  Panicked = Panicked
  PfnStart = 8
  PfnLimit = 15
  NoTags = NoTags
  Tags <- MCTags
  MaxOrder = 2
  Counts = {1, 2}
  PageSize = 18
  BucketSize = 6
  MagicSize = 2
  Align = 2
  Sizes <- MCSizes
  BlockCount = 2
  Requests = {3, 10}
  MaxStructs = 3
CHECK_DEADLOCK FALSE
INVARIANTS
  PagesExact StructsExact ResolvesRight   PageTableExact
    IdsExact SmpSafe ArithExact TlbExact HeapExact 
