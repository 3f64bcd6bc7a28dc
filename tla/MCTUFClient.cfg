SPECIFICATION CSpec
CONSTANTS
  MaxRootRotations = 2
  Boot <- MCBoot
  Packages <- MCPackages
  Instants <- MCInstants
INVARIANTS
  RolesAuthorized
  RefreshIdempotent
  RolesMonotone
