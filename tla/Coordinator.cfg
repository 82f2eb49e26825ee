\* Packages of three objects whose declarations mention up to three, in the same
\* or in several declarations: loops of one to three objects and ways into them.
SPECIFICATION Spec
CONSTANTS
  N = 3
  MaxUses = 3
INVARIANTS
  PrerequisitesFirst
  LoopIsReal
  EverythingProcessed
PROPERTY
  LoopMembersExplained
