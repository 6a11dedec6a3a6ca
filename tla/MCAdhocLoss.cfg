SPECIFICATION Spec
CONSTANTS
  Groups = {ga, gb}
  NoGroup = NoGroup
  Self = self
  Others = {other}
  MaxLogins = 2
  MaxUp = 3
  MaxDown = 2
  MaxEvents = 2
CHECK_DEADLOCK FALSE
PROPERTY LossIsTold
