------------------------------ MODULE MCHost  ------------------------------
EXTENDS HostPrograms
MCId == <<"maker", "type", "size">>
MCCages == <<"cage0", "cage1">>
MCPage == <<"p0", "p1", "p2">>
Good == [identity |-> "BM, startup over", flash |-> TRUE, control |-> "good",
         modprs |-> {"cage0"}, seated |-> {"cage0"}, held |-> {}]
MCBoards == {Good,
    [Good EXCEPT !.identity = "another design"],
    [Good EXCEPT !.flash = FALSE],
    [Good EXCEPT !.control = "module in reset"],
    [Good EXCEPT !.seated = {}],
    [Good EXCEPT !.modprs = {}],
    [Good EXCEPT !.modprs = {"cage0", "cage1"}, !.seated = @ \cup {"cage1"}],
    [Good EXCEPT !.held = {"cage0"}],
    [Good EXCEPT !.held = {"cage1"}]}
MCTest == [t \in {"t1", "t2"} |->
             IF t = "t1" THEN [addr |-> 0, data |-> <<"a", "b", "a">>]
                         ELSE [addr |-> 3, data |-> <<"b", "a">>]]
MCSizes == <<1, 3, 3>>
=============================================================================
