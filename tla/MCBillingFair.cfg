SPECIFICATION FairSpec
CONSTANTS
    t1 = t1
    Tenants = {t1}
    Orders = {o1}
    TenantOf <- MCOneTenant
    Calls = {c1, c2}
    Hooks = {h1, h2}
    Unreferenced = {}
    Divergent = {}
    NoOrder = NoOrder
    NoCheckout = NoCheckout
    NoEvent = NoEvent
PROPERTIES
    OrdersSettle
CHECK_DEADLOCK FALSE
