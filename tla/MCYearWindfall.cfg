SPECIFICATION Spec
CONSTANTS
  Deduction = 1
  TaxDivisor = 16
  FirstBase = 4
  SecondBase = 8
  AcaCliff = 4
  AcaContribution = 0
  AcaPremium = 2
  IrmaaThreshold = 6
  Surcharge = 1
  MedicarePremium = 0
  MagiBuffer = 1
  MaxAnnualConversion = 3
  MinAnnualConversion = 1
  BracketFill = 2
  HsaCap = 1
  HsaMagiThreshold = 2
  Horizon = 3
  Profile <- MCProfile
  Strategies <- MCStrategies
  Balances <- MCBalances
  HsaBalances = {2}
  Markets <- MCMarkets
  Windfalls <- MCWindfalls
  Elections <- MCElections
  Inflations = {1}
  Essential = 3
  Optional = 2
  CutOptional = 1
  FloorYears = 2
  CeilingYears = 3
  AcaBuffer = 1
  ConversionCaps = {2, 8}
  MaxPasses = 4
  MaxFundingPasses = 12
  LookBack = 2
INVARIANT
  WindfallCountedOnce
CHECK_DEADLOCK FALSE
