SPECIFICATION NormalizeSpec
CONSTANTS
  Manifests <- MCManifests
  Omitted = Omitted
  Null = Null
  MaxInt = 32767
  MaxSafe = 20000
  MaxNumber = 60000
  Text <- MCText
INVARIANT ServedIsAccepted
