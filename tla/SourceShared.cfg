SPECIFICATION EngineSpec
CONSTANTS
    Handles = {orders}
    Actors = {t1, t2}
    Closers = {}
    Provided = {}
    Tabled = {orders}
    Inspected = {orders}
    SelfClosing = {}
    Urls = {db}
    UrlOf <- OneDatabase
    MaxEngines = 4
    Nothing = Nothing
INVARIANT
    InitializedIsUsable
