CONSTANTS
  Guests = {g1, g2}
  Rooms = {1, 2}
  Dials = {1, 2}
  MaxRooms = 1
  MaxGuests = 2
  MaxSent = 1
  Asks = {a1}
  MaxReqs = 1
  MaxLog = 1
  MaxFaults = 1
SYMMETRY MCGuestSymmetry
SPECIFICATION Spec
INVARIANTS
  TypeOK
  NoGap
  DialogsMatch
  WelcomedReadersDoNotPrompt
  RoomsAreHeld
CHECK_DEADLOCK FALSE
