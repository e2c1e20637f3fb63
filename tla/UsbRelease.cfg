SPECIFICATION Spec
CONSTANTS
  beta2 = beta2
  beta4 = beta4
  patch = patch
  odd = odd
  beta = beta
  Releases = {beta2, patch, odd}
  Version <- Numbers
  First = beta2
  None = None
  Bad = Bad
  Orders <- BothOrders
  MaxDamage = 1
CHECK_DEADLOCK FALSE
INVARIANTS PackageKept StickNotMixed StickKept OneRelease VersionsDecide
