SPECIFICATION FairSpec
CONSTANTS
  seed = seed
  spring = spring
  autumn = autumn
  us = us
  eu = eu
  Packs = {seed, spring, autumn}
  Jurisdictions = {us, eu}
  JurisdictionOf <- MCJurisdictionOf
  Passes <- MCPasses
  Seeded = {seed}
  Sessions = {s1, s2, s3}
  NoPack = NoPack
  NoSession = NoSession
INVARIANTS OneActivePerJurisdiction ActiveIsCertified
PROPERTIES NeverUncovered ImplementsActivePack ActivationsEnd
