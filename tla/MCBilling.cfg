SPECIFICATION Spec
CONSTANTS
    t1 = t1
    Tenants = {t1}
    Orders = {o1, o2}
    TenantOf <- MCOneTenant
    Calls = {c1, c2}
    Hooks = {h1, h2}
    Unreferenced = {c2}
    Divergent = {c2}
    NoOrder = NoOrder
    NoCheckout = NoCheckout
    NoEvent = NoEvent
SYMMETRY HookSymmetry
INVARIANTS
    TypeOK
    SlotSafety
    PaymentSafety
PROPERTIES
    OverIsOver
    ImplementsSlot
CHECK_DEADLOCK FALSE
