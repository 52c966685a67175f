SPECIFICATION Spec
CONSTANTS
  guest = guest
  ann = ann
  ben = ben
  People = {guest}
  Founders = {guest}
  Admins = {ann, ben}
  Bans = {1}
  MaxNow = 2
  MaxLives = 2
SYMMETRY MCSymmetry
INVARIANTS
  MailsAgree
PROPERTIES
  ServedOnlyTheAdmitted
  ApprovalStands
  OwnAddressStays
CHECK_DEADLOCK FALSE
