\* One user, one key: the bot answers after the account is gone.
CONSTANTS
    Users = {u1}
    Phones = {n1}
    Telegrams = {t1}
    Devices = {d1}
    Keys = {k1}
    Handlers = {h1}
    None = None
SPECIFICATION Spec
INVARIANT
    DeletedIsWiped
CHECK_DEADLOCK FALSE
