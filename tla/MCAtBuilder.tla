---------------------------- MODULE MCAtBuilder -----------------------------
EXTENDS AtBuilder

MCTitles == {"x", "y", "Y", "z"}
MCFileOf == [x |-> "x.sh", y |-> "y.sh", Y |-> "y.sh", z |-> "z.sh"]
MCKept == << [title |-> "x", cmd |-> << <<"tab", "w", "@">>, <<"b", "f">>, <<"a">> >>, sel |-> TRUE],
             [title |-> "y", cmd |-> << <<"b">> >>, sel |-> FALSE] >>
MCFilters == {"x", "a"}
MCTyped == {"a"}
MCTemplates == {<<"a">>, <<"b", "b", "b">>}
MCKeys == {"a", "enter", "esc", "back", "tab", "up", "down", "left", "right", "home", "end",
           "i", "v", "V", ":", "/", "u", "p", "P", "x", "o", "d", "y", "g", "G", "n", "N", "2"}
MCBudgets == {[ops |-> 5, keys |-> 1], [ops |-> 2, keys |-> 4]}
=============================================================================
