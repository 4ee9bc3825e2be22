\* Every command; two hosts with one name on the first and the last of four
\* radios, a resolver beside the router's and one that cannot be asked.
SPECIFICATION FairSpec
CONSTANTS
  near = near
  far = far
  fritz = fritz
  adguard = adguard
  local = local
  Devices = {near, far}
  Named = {near, far}
  Band <- MCBand
  Radios = {1, 2, 3, 4}
  MaxChanges = 2
  Router = fritz
  Resolvers = {fritz, adguard, local}
  Scoped = {local}
  MaxResolvers = 1
  Budget = 2
  QueryTime = 1
  Ids = {1}
  Ports = {1}
  Commands <- AllCommands
INVARIANT TypeOK
INVARIANT ListedOrFailed
INVARIANT LookupsSound
INVARIANT ExitTellsTruth
INVARIANT EchoRestored
PROPERTY CancelEnds
CHECK_DEADLOCK FALSE
