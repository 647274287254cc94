SPECIFICATION Spec
CONSTANTS
  Installations = {i1, i2}
  Margin = 5
  IssuedBefore = 1
  JWTLife = 9
  Call = 1
  TokenLife = 12
  MaxJWTLife = 10
  Ahead = 1
  Behind = 3
  NoInstallation = NoInstallation
INVARIANTS TokenOutlivesCall JWTAccepted
