SPECIFICATION Spec
CONSTANTS
  Names <- AllNames
  Root <- Project
  Rank <- AllRank
  Layers <- AllLayers
  Domains = {"imagines", "D"}
  None = None
  Manifests <- AllManifests
INVARIANTS
  Closed
  CodecsListed
  RefusedForCause
  LinkedOnce
