------------------------------- MODULE Tools -------------------------------
(***************************************************************************)
(* The tools a maintainer runs on the repository, one at a time: the pin   *)
(* generator and the pin checks (PinFiles), the release tool (Release).    *)
(***************************************************************************)
EXTENDS PinFiles, Release

VARIABLE tool   \* which; never changes
toolvars == <<tool, pinvars, relvars>>

NoScene == [vendor |-> [ch \in Channels |-> <<>>],
            xdc |-> [ch \in Channels |-> <<>>], generates |-> FALSE]

ToolInit ==
    /\ RelInit
    /\ \/ tool = "pins" /\ PinInit
       \/ tool = "release" /\ PinStart(NoScene)

ToolNext ==
    /\ UNCHANGED tool
    /\ \/ tool = "pins" /\ PinNext /\ UNCHANGED relvars
       \/ tool = "release" /\ RelNext /\ UNCHANGED pinvars

ToolSpec == ToolInit /\ [][ToolNext]_toolvars
=============================================================================
