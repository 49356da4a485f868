\* One store of a wallet, a retried publication and two interruptions.
SPECIFICATION RetrySpec
CONSTANTS
  alice = alice  bob = bob  home = home  other = other
  c1 = c1  c2 = c2
  h1 = h1  h2 = h2  n1 = n1  n2 = n2
  Dirs = {dir}
  Openers = {o1, o2}
  Process <- TwoProcesses
  Callers = {caller}
  Headers = {h1, h2}
  Payloads <- WalletPayloads
  Backups = {}
  MaxGenerations = 2
  MaxFaults = 2
  None = None
  Torn = Torn
SYMMETRY Interchangeable
\* A full tree, and a ledger without drafts that fit, are ends.
CHECK_DEADLOCK FALSE
INVARIANT ReportedKept
