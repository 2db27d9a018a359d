\* One shipment, whose figures those of many add up to; a day of three hours, and a range
\* of more than two days for the interval to change.
CONSTANTS
  s1 = s1
  Unset = Unset
  Shipments = {s1}
  Escrow = {s1}
  Hour = 1
  Day = 3
  Grace = 1
  MonthStart = 2
  Dues = {Unset, 2, 5, 8}
  Horizon = 7
SPECIFICATION ViewsSpec
INVARIANTS ListsCover LaterIsNotActive WidgetsAgree
\* Time ends at the horizon.
CHECK_DEADLOCK FALSE
