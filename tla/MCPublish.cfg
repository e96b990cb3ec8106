SPECIFICATION FairSpec
CONSTANTS
  Crates <- CratesInOrder
  Deps <- DepsInManifests
  Released <- ReleasedBefore
INVARIANTS PublishInv DoneMeansPublished NeverTooEarly
PROPERTY EventuallyPublished
