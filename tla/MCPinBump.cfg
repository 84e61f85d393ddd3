\* One tag that moves; developers make up to three commits.
SPECIFICATION Spec
CONSTANTS
  d0 = d0
  d1 = d1
  d2 = d2
  v1 = v1
  v2 = v2
  Tags = {v1}
  Digests <- AllDigests
  Published <- NewDigests
  Starts <- PinStarts
  MaxCommits = 3
  MaxPulls = 1
INVARIANTS PinTypeOK BranchSitsOnItsBase HandledPullTellsThePin
PROPERTIES RerunsRepair
