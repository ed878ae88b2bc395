----------------------------- MODULE MCHandler -----------------------------
(***************************************************************************)
(* An instance of Handler for TLC: attribute lists that collide with each  *)
(* other, with the ambient attributes and with the reserved keys.          *)
(***************************************************************************)
EXTENDS Handler

Static(x) == Value("static", x, <<>>)
Group(attrs) == Value("group", "", attrs)
Valuer == Value("valuer", "", <<>>)

\* A LogValuer answers with a scalar, a group, or a group with nothing in it.
MCAnswers == <<Static("now"), Group(<<Attr("a", Static("in"))>>), Group(<<>>)>>

MCAttrLists ==
    {<<Attr("a", Static("1")), Attr("b", Valuer),
       Attr("g", Group(<<Attr("a", Valuer), Attr("e", Value("error", "", <<>>))>>)),
       Attr("", Valuer)>>,
     <<Attr("", Group(<<Attr("a", Static("2")), ZeroAttr, Attr("g", Group(<<>>))>>)),
       Attr("source", Static("3"))>>}

MCLogRecords ==
    {[time |-> TRUE, pc |-> TRUE, attrs |-> <<>>],
     [time |-> FALSE, pc |-> TRUE, attrs |-> <<Attr("a", Valuer), Attr("dt", Static("4"))>>],
     [time |-> TRUE, pc |-> FALSE, attrs |-> <<Attr("g", Group(<<Attr("g", Valuer)>>)),
                                               Attr("level", Static("5"))>>]}

MCContexts ==
    {<< <<Attr("a", Static("6")), Attr("source", Valuer)>>, <<Attr("a", Valuer)>> >>,
     << <<>>, <<Attr("", Group(<<Attr("b", Static("7"))>>)), Attr("g", Static("8"))>> >>}

Fields == <<Attr("a", Static("9")), Attr("b", Valuer)>>
Setup(replace, fields, source, key, filtered) ==
    [replace |-> replace, extraFields |-> fields, addSource |-> source,
     contextKey |-> key, filtered |-> filtered]
MCSetups ==
    {Setup("none", Fields, TRUE, "context", {}),
     Setup("none", Fields, TRUE, "", {}),
     Setup("none", <<>>, FALSE, "level", {[time |-> TRUE, pc |-> TRUE, attrs |-> <<>>]}),
     Setup("discard", Fields, TRUE, "", {}),
     Setup("mark", Fields, TRUE, "context", {})}
=============================================================================
