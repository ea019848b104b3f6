SPECIFICATION ParserSpec
CONSTANTS
    customers = customers
    Oid = {customers}
    Layout <- NamedOnly
    Unreadable = {}
    Val = {1, 2}
    None = None
    MaxTx = 1
    MaxAlters = 0
INVARIANT RowComplete
