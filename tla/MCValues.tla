------------------------------ MODULE MCValues ------------------------------
(* Values for the constants of Values.                                      *)
EXTENDS Values

CONSTANTS main, other

TwoNames == {"a", "b"}
TwoClasses == {"lower", "special"}
FewBounds == {-1, 0, 1, 2}
FewLengths == {-1, 0, 2, 4}
TwoThreads == {main, other}

\* Words on the command line; what comes before "--" is not a parameter.
SomeCommandLines ==
    LET sep == <<"--">>
    IN {<<>>, <<<<"set">>>>, <<sep, <<"set">>>>,
        <<<<"vol">>, sep>>,
        <<<<"vol">>, sep, <<"set", "number">>>>,
        <<<<"vol">>, sep, <<"set", "text">>>>,
        <<<<"vol">>, sep, <<"set">>, <<"set", "number">>>>,
        <<<<"vol">>, sep, <<"mute">>>>,
        <<<<"vol">>, sep, <<"set", "number">>, <<"mute">>>>,
        <<sep, <<"vol">>, sep, <<"mute", "text">>, <<"name", "number">>>>,
        <<<<"vol">>, sep, <<"name">>, sep>>}

\* One key, none, or two for a parameter, the limits the actions use, others
\* they might, and two that are invalid.
SomeDeclarations ==
    {[call |-> "param", name |-> "set", type |-> "int", keys |-> {"op"}],
     [call |-> "param", name |-> "mute", type |-> "none", keys |-> {"op"}],
     [call |-> "param", name |-> "name", type |-> "string",
      keys |-> {"op", ""}],
     [call |-> "key", key |-> "op", min |-> 1, max |-> 1],
     [call |-> "key", key |-> "op", min |-> 0, max |-> -1],
     [call |-> "key", key |-> "", min |-> 0, max |-> 0],
     [call |-> "key", key |-> "op", min |-> 2, max |-> 1],
     [call |-> "key", key |-> "op", min |-> -1, max |-> 1]}
=============================================================================
