SPECIFICATION MCSpec
CONSTANTS
  s1 = s1
  s2 = s2
  s3 = s3
  w1 = w1
  w2 = w2
  w3 = w3
  NoSlot = NoSlot
  NoTenant = NoTenant
  Never = Never
  Slots <- MCSlots
  Workers <- MCWorkers
  Limits <- MCLimits
  Tenants <- MCSlots
  Posts <- MCPosts
  Expiries <- MCExpiries
  MaxGrants = 3
  MaxTime = 1
SYMMETRY Alike
INVARIANTS
  LatestPromotionWins
  OnePrimaryAtRest
  OnlyTogglesOvershoot
  WaitingBounded
PROPERTY ImplementsQuota
