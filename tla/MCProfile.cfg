\* Two users compete for a device and one Telegram account; two numbers, so
\* that one can be changed; a key for each; two handlers in flight.
CONSTANTS
    Users = {u1, u2}
    Phones = {n1, n2}
    Telegrams = {t1}
    Devices = {d1, d2}
    Keys = {k1, k2}
    Handlers = {h1, h2}
    None = None
SYMMETRY Symmetry
SPECIFICATION Spec
INVARIANTS
    VerifiedMeansConfirmed
    OneOwnerPerDevice
    CleanStaysWiped
\* Once every account is deleted and no key is left, nothing can come any more.
CHECK_DEADLOCK FALSE
