SPECIFICATION Spec
CONSTANTS
  home = home branch = branch ann = ann bob = bob
  k1 = k1 k2 = k2 p1 = p1 p2 = p2
  noKey = noKey
  NoKey = noKey
  NoCaller = nobody
  Permits <- WorkPermits
  InitialGrants <- BothForAnn
  Callers = {ann, bob}
  Entities = {home, branch}
  DefaultEntity = home
  Proc = {p1, p2}
  Keys = {k1, k2}
  Asked <- AnyBesideGrants
  Managed <- AnnsHome
  MaxEntries = 2
INVARIANTS EffectsWithinGrants AnswersWithinGrants RefusedChangesNothing InternalMeansFault RetryIsSafe
PROPERTY ListsCoverGrants
