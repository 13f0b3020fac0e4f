SPECIFICATION Spec
CONSTANTS
  None = None
  v1 = v1
  v2 = v2
  kr = kr
  ks = ks
  zs = zs
  kx = kx
  odd = odd
  Validators = {v1, v2}
  Keys = {kr, ks, zs, kx}
  Unsupported = odd
  Names <- MCNames
  KeysOf <- MCKeysOf
  Anchors <- MCAnchors
  NoDs <- MCNoDs
  Jobs <- Wildcards
  DsReplies <- MCDsReplies
  KeyReplies <- MCKeyReplies
  WholeDs <- MCWholeDs
  WholeKeys <- MCWholeKeys
  Apexes <- MCApexes
  ApexOf <- MCApexOf
  Due <- DueOf
  MaxChecks = 8
  Apex <- Shop
  Contents <- MCContents
  Asked <- MCAsked
  Hash <- MCHash
  EncloserSteps = 16
INVARIANT
  WildcardNodataSupported
