SPECIFICATION MachineSpec
CONSTANTS
  Cpus = {c1, c2}
  Blocks = {b1, b2}
  Pages = {p1, p2, p3}
  MaxSeq = 3
  NoPage = NoPage
  NoBlock = NoBlock
  AsidModes = {TRUE, FALSE}
  LateFill = FALSE
INVARIANTS
  NoStaleTranslation ActiveCoversBlocks AcksExact QueueOrdered
  FirmwareFaithful BootReady IntsExact TrapExact
PROPERTY ShootdownPromise
SYMMETRY Symmetry
CHECK_DEADLOCK FALSE
