SPECIFICATION DecoratedSpec
CONSTANTS
    Params = {a, b, c, req, context}
    Reserved = {req, context}
    Context = context
    Handles = {source, input, reader, writer, o1, o2}
    Actors = {main, w1, w2}
    Closers = {main}
    Provided = {source, writer, o1, o2}
    Tabled = {source, reader, writer, o1, o2}
    Inspected = {source}
    SelfClosing = {input, o1, o2}
    Urls = {db}
    UrlOf <- OneDatabase
    MaxEngines = 6
    Nothing = Nothing
    Main = main
    Source = source
    InputReader = input
    Reader = reader
    Writer = writer
    OutWriters = {o1, o2}
CONSTRAINT Explored
SYMMETRY Alike
VIEW Relevant
INVARIANTS
    DecoratedTypeOK EveryArgumentOnce ResolversServed
    NothingLeaks BindingsUsable EnginesShared
PROPERTY
    SharedEngineSurvives
CHECK_DEADLOCK FALSE
