SPECIFICATION Spec
CONSTANTS
  t1 = t1
  t2 = t2
  Tab = {t1, t2}
  AutoLock = 2
  LockOnHide = {t1}
  MaxInbox = 1
INVARIANTS TypeOK StaleStatusIsLazyExpiry ArmedKeyIsTimed LogoutIsUnderWay
PROPERTIES AutoLockStaysLocal OverdueKeyNeverExtended IdleKeyIsDropped LogoutReachesEveryTab
CHECK_DEADLOCK FALSE
