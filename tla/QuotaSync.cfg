CONSTANTS
  Devices = {phone, pad}
  FreeRequests = 2
  NoStamp = NoStamp
  MaxDay = 2
SYMMETRY DeviceSymmetry
SPECIFICATION Spec
INVARIANTS TypeOK PackagePerDevice
