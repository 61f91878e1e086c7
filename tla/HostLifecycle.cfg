SPECIFICATION FairHostSpec
CONSTANTS
    Daemons = {d1, d2}
    Supervisors = {s1, s2}
    ReusesInodes = TRUE
    Prober = prober
    NoOne = noone
    MaxFaults = 1
INVARIANTS ClaimKept
PROPERTIES SocketGoesByReuse OrphansStop Converges
CHECK_DEADLOCK FALSE
