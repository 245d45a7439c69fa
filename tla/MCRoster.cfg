SPECIFICATION RosterSpec
CONSTANTS
    ga = ga
    gb = gb
    Guests <- TwoGuests
    Names <- AllNames
    NameOf <- SharedName
    HostName = "h"
    Codes = {"c"}
    Wants <- AllWant
    SlotsOf <- ThreadSlots
    MaxCommands = 5
    MaxFaults = 1
CHECK_DEADLOCK FALSE
PROPERTIES  RosterSettles
