SPECIFICATION MCSpec
CONSTANTS
  t1 = t1
  t2 = t2
  r1 = r1
  r2 = r2
  NoRole = NoRole
  NoTenant = NoTenant
  Tenants <- MCTenants
  Requests <- MCRequests
  GroupRoles <- MCGroupRoles
  TenantRoles <- MCTenantRoles
  WorkRoles <- MCWorkRoles
  FirstRoles <- MCFirstRoles
  MaxWrites = 2
SYMMETRY Alike
INVARIANTS
  EffectiveModeIsLeast
  DecisionsAreSnapshots
  ContextIsEarned
  MirrorAtRest
PROPERTIES
  OnlySwitchesChangeScope
  ImplementsContract
  TighteningNeverOpens
