SPECIFICATION Spec
CONSTANTS
  Services = {"cut"}
  Team = {"ann"}
  Photos = {}
  Pictured = {}
  Redeemers = {}
  Place = said
  Texts = {said}
  Editors = {e1}
  Editable = {"cut"}
  Elsewhere = {}
  MaxRows = 3
  GoogleCover = TRUE
  None = None
INVARIANTS
  StaffServe
CHECK_DEADLOCK FALSE
