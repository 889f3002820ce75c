SPECIFICATION Spec
CONSTANTS
  sample = sample  slice = slice  pasted = pasted  blank = blank
  NoImport = NoImport  NoRun = NoRun  NotParsed = NotParsed  NoPreview = NoPreview
  HasAccounts = {sample, slice}
  DeviceRows <- MCDeviceRows
  MaxVersion = 3
  Samples <- MCSamples
  DemoSlice <- MCDemoSlice
  Typed = {pasted}
  Blank = blank
  RowsOf <- MCRowsOf
PROPERTIES
  ResetRestoresDefaults
