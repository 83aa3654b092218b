\* Two map files; nothing is bounded.
CONSTANTS
  Maps = {"alps", "hike"}
SPECIFICATION Spec
INVARIANTS TypeOK SettingsAgree
PROPERTIES ReloadRestores ChangesAreSaved
