SPECIFICATION Spec
CONSTANTS
  Cpus = {c1, c2}
  Blocks = {b1}
  Pages = {p1, p2}
  MaxSeq = 2
  NoPage = NoPage
  NoBlock = NoBlock
  AsidModes = {TRUE, FALSE}
  LateFill = TRUE
INVARIANT NoStaleTranslation
