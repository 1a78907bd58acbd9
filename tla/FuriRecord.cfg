\* Two names and three users: a user can wait for a record that another one
\* holds, while a third record is created in a reused entry.
CONSTANTS
    Threads = {t1}
    Users = {u1, u2, u3}
    Names = {gui, storage}
    Data = {d1, d2}
    Addr = {a1, a2}
    NULL = NULL
    SizeMax = 4
    ForeignDestroy = FALSE
SPECIFICATION Spec
INVARIANTS NoDanglingRecord HoldersExact
PROPERTIES ImplementsRegistry OpenReturns
