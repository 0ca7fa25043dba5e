SPECIFICATION Spec
CONSTANTS
    Clients = {c1, c2}
    IpOf <- MCIpOf
    Names = {"ann"}
    Emails = {"e", "f"}
    Passwords = {"good1", "weak"}
    Strong = {"good1"}
    MaxFailures = 2
    LockTime = 2
    Rate <- MCRate
    Window <- MCWindow
    MaxTime = 2
    MaxTries = 4
    MaxRestarts = 1
INVARIANTS GuessBound WindowBurst AccountsUnique KeysAgree
CHECK_DEADLOCK FALSE
