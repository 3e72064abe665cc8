SPECIFICATION Spec
CONSTANTS
    Addresses = {a1, a2}
    Threads = {t1, t2}
    MaxFailures = 2
    AccountMaxFailures = 3
    Window = 2
    TicksPerSecond = 2
    MaxRequests = 5
SYMMETRY Symmetry
INVARIANTS OneAdministrator ApifyHasAToken GuessesAreLimited RetryAfterIsRight
