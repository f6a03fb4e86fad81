CONSTANTS
  Platforms = {"linux", "macos", "windows"}
  Labels = {"main", "aux"}
  Initial <- OneInitial
  MaxSlots <- Slots
  MaxCalls <- Calls
  MenuPayloads <- Payloads
  MaxCommands = 5
  MaxKeys = 1
  Understood <- Keys
  TrayPayloads <- TrayMenus
  MaxTray = 2
  MaxPosted = 1

SPECIFICATION DesktopSpec
INVARIANTS DesktopTypeOK AppMenuShown ShortcutsMatchMenu ClicksMeanWhatWasShown TrayRowsHonest FullscreenAsSaid
CHECK_DEADLOCK FALSE
