SPECIFICATION Spec
CONSTANTS
  ann = ann
  ben = ben
  Admin = admin
  Key1 = k1
  Key2 = k2
  Collection = coll
  None = None
  User = {ann, ben}
  Receiver = {admin}
  Price = {0, 1}
  Margin = 1
  Lifetime = 1
  Skew = {0, 1}
  Epoch = 1
  MaxTime = 2
  MaxOrders = 2
  MaxBroadcasts = 2
  MaxIndex = 2
SYMMETRY Symmetry
INVARIANTS
  OnlyReleasedSold
  ReleasedRedeemable
  ReportedMeansBought
CHECK_DEADLOCK FALSE
