CONSTANTS
  Nothing = Nothing
  AnyVersion = AnyVersion
  Version <- MCVersion
  Place <- MCPlace
  FileOf <- MCFileOf
  Changelog = "CHANGELOG.md"
  Readme = "README.md"
  HeadingOf <- MCHeadingOf
  Manifests <- MCManifests
  StartTrees <- MCStartTrees
  Metadata = {"package", "plugin"}
  PackageAt = "package"
  ExtraAt = "extra"
  Rewritable = {"package", "install"}
  MaxCommits = 4
  MaxDeaths = 1
  MaxErrands = 4
SPECIFICATION Spec
INVARIANTS VersionsNameOneTree ShippedWentThroughTheGate CutsMoveEverySite
CHECK_DEADLOCK FALSE
