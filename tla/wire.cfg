\* Every short command line over nine symbols, lines that are not Redis',
\* several lines after one another and every kind of INFO reply, arriving in
\* any pieces and breaking off anywhere.
CONSTANTS
    Sessions <- MCSessions
    CommandsWithSubcommand <- MCSubcommands
SPECIFICATION Spec
INVARIANTS
    DeliveredExactly
    RoleIsExact
    RenderedFaithfully
PROPERTY
    LoopAdvances
