SPECIFICATION FrontendSpec
CONSTANT Features <- MCFeatures
INVARIANT DeclaredIsInstalled
CHECK_DEADLOCK FALSE
