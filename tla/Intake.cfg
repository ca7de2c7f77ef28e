SPECIFICATION FairSpec
CONSTANTS
  r1 = r1 r2 = r2 ann = ann
  Replica = {r1, r2}
  Customers = {ann}
  Messages <- Events
  NoMessage = NoMessage
  Carried <- FromRelease1
  Frail = {r1}
  MaxSends = 1
  MaxFaults = 1
INVARIANTS TypeOK BookedOnce NothingVanishes
PROPERTIES DocumentsGetBooked LoopsEndTogether
CHECK_DEADLOCK FALSE
