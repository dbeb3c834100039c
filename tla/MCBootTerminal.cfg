SPECIFICATION Spec
CONSTANTS
  MAX_ACPI_TABLES = 2
  GIB = 512
  None = None
  BUSES = 2
  DEVS = 1
  FUNCS = 2
  MAX_INVENTORY_PCI = 2
  Header <- Headers
  Cpuid <- CpuAnswers
  Drv <- Drivers
  NoDriver = NoDriver
  HasInit <- WithInit
  Firmware <- FirmwareMemories
  BuiltIn <- Registered
  LeftOver = {3}
PROPERTY BootsIntoTerminal
CHECK_DEADLOCK FALSE
