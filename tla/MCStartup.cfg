CONSTANTS
    None = None
    NoSuchFile = NoSuchFile
    p1 = p1
    p2 = p2
    home = home
    etc = etc
    localhost = localhost
    Paths = {p1, p2, home, etc}
    Hosts = {localhost}
    Secrets = {"", "secret"}
    Candidates <- MCCandidates
    CommandLines <- MCCommandLines
SPECIFICATION Spec
INVARIANTS
    HandledIsAuthorized
    ConfigAsNamed
CHECK_DEADLOCK FALSE
