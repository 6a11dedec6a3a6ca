SPECIFICATION Spec
CONSTANTS
  Groups = {ga, gb}
  NoGroup = NoGroup
  Self = self
  Others = {other}
  MaxLogins = 2
  MaxUp = 3
  MaxDown = 2
  MaxEvents = 2
INVARIANTS MembershipAgrees OneLoginPerMac
PROPERTIES JoinIsSettled LossIsSettled
CHECK_DEADLOCK FALSE
