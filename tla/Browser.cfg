SPECIFICATION Spec
CONSTANTS
  Users <- MCUsers
  Admins <- MCAdmins
  MaxEvents = 4
INVARIANTS
  UserOfToken
  AdminPageByAdmin
  RedirectNotNested
  SurvivesReload
  ThemeApplied
PROPERTIES
  GuardDecides
CHECK_DEADLOCK FALSE
