SPECIFICATION Spec
CONSTANTS
  ann = ann bob = bob home = home branch = branch w1 = w1 r1 = r1
  Orders <- ThreeOrders
  Customers = {ann, bob}
  Entities = {home, branch}
  Scopes = {{home}, {home, branch}}
  Poster = {w1}
  Reader = {r1}
  NoOrder = NoOrder
  Everyone = Everyone
  Steps = {30, 31}
  MaxDay = 91
  MaxEntries = 3
  MaxAnswers = 2
INVARIANTS AgingAddsUp AnswersAreOneMoment ClaimStandsOrIsCancelled
