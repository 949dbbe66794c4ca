SPECIFICATION SweptSpec
CONSTANTS
  MaxBegun = 4
  MaxFailures = 2
  Nobody = Nobody
INVARIANTS CredentialsTypeOK
PROPERTIES CredentialIsLeft ConnectionsFollow
CHECK_DEADLOCK FALSE
