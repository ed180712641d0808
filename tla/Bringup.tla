------------------------------ MODULE Bringup ------------------------------
(***************************************************************************)
(* The bring-up script (host/pcie_bringup.sh): the endpoint in the host's  *)
(* PCI tree, the driver and its device nodes, the programs that hold a     *)
(* node open, and the commands that take the card in and let go of it so   *)
(* that it can be reprogrammed.  Under set -e a step that fails ends the   *)
(* script.                                                                 *)
(***************************************************************************)
EXTENDS Naturals, Sequences

CONSTANTS Holder,     \* programs that may have a node open
          MaxScripts  \* bound on the runs of the script

VARIABLES pci,     \* the card is configured, its endpoint is there, the
                   \* driver is loaded and bound to it, its nodes are ours
          held,    \* the programs with a node open
          script   \* the command, the steps to go, how it goes, runs so far
bringvars == <<pci, held, script>>

rescan == <<"rescan">>
load   == <<"make", "unload", "insmod", "chown">>
detach == <<"unload", "remove", "look">>
test   == <<"test">>
Steps(command) ==
    CASE command = "rescan" -> rescan
      [] command = "load"   -> load
      [] command = "test"   -> test
      [] command = "all"    -> rescan \o load \o test
      [] command = "detach" -> detach
      [] command = "attach" -> rescan \o load
Commands == {"rescan", "load", "test", "all", "detach", "attach"}

Script(command, todo, is, runs) ==
    [command |-> command, todo |-> todo, is |-> is, runs |-> runs]

BringupInit ==
    /\ pci = [configured |-> FALSE, endpoint |-> FALSE, loaded |-> FALSE,
              bound |-> FALSE, ours |-> FALSE]
    /\ held = {}
    /\ script = Script("", <<>>, "over", 0)

Invoke ==
    /\ script.is # "running" /\ script.runs < MaxScripts
    /\ \E command \in Commands :
          script' = Script(command, Steps(command), "running", script.runs + 1)
    /\ UNCHANGED <<pci, held>>

(* The next step succeeds, or fails and ends the script.                   *)
Step(name) == script.is = "running" /\ Head(script.todo) = name
Goes ==
    script' = [script EXCEPT !.todo = Tail(@),
                             !.is = IF Tail(script.todo) = <<>> THEN "ok" ELSE @]
Fails == script' = [script EXCEPT !.todo = <<>>, !.is = "failed"]

(* The card is configured and its endpoint appears; a loaded driver may    *)
(* bind to it, and the nodes are root's.                                   *)
Appears ==
    /\ pci.configured /\ ~pci.endpoint
    /\ \E binds \in {FALSE, pci.loaded} :
          pci' = [pci EXCEPT !.endpoint = TRUE, !.bound = binds]

(* The scan may fail, or not find a card that needs a reboot.              *)
do_rescan ==
    /\ Step("rescan")
    /\ \/ Appears /\ Goes
       \/ pci.endpoint /\ Goes /\ UNCHANGED pci
       \/ Fails /\ UNCHANGED pci
    /\ UNCHANGED held

(* A build that fails leaves the driver of before where it is.             *)
make_driver ==
    /\ Step("make")
    /\ Goes \/ Fails
    /\ UNCHANGED <<pci, held>>

Unloaded == [pci EXCEPT !.loaded = FALSE, !.bound = FALSE, !.ours = FALSE]
(* rmmod refuses while a node is open, and may fail by itself.             *)
(* Mutant: the script goes on all the same.                                *)
rmmod_regardless ==
    /\ Step("unload") /\ Goes
    /\ pci' = IF held = {} THEN Unloaded ELSE pci
    /\ UNCHANGED held
rmmod ==
    /\ Step("unload")
    /\ \/ ~pci.loaded /\ Goes /\ UNCHANGED pci
       \/ pci.loaded /\ held = {} /\ Goes /\ pci' = Unloaded
       \/ pci.loaded /\ Fails /\ UNCHANGED pci
    /\ UNCHANGED held

(* A driver that is inserted may still fail to take the endpoint.          *)
insmod ==
    /\ Step("insmod")
    /\ \/ /\ Goes
          /\ \E binds \in {FALSE, pci.endpoint} :
                pci' = [pci EXCEPT !.loaded = TRUE, !.bound = binds]
       \/ Fails /\ UNCHANGED pci
    /\ UNCHANGED held

(* Without nodes the pattern matches nothing and chown fails.              *)
chown ==
    /\ Step("chown")
    /\ \/ pci.bound /\ Goes /\ pci' = [pci EXCEPT !.ours = TRUE]
       \/ Fails /\ UNCHANGED pci
    /\ UNCHANGED held

(* Without an endpoint there is nothing to remove.  The write may fail, or *)
(* succeed and leave the device where it is.                               *)
remove ==
    /\ Step("remove")
    /\ \/ Goes /\ pci' = [pci EXCEPT !.endpoint = FALSE, !.bound = FALSE,
                                     !.ours = FALSE]
       \/ pci.endpoint /\ (Goes \/ Fails) /\ UNCHANGED pci
    /\ UNCHANGED held

(* Mutant: the script does not look again after the removal.               *)
look_blind ==
    /\ Step("look") /\ Goes
    /\ UNCHANGED <<pci, held>>
look ==
    /\ Step("look")
    /\ IF pci.endpoint THEN Fails ELSE Goes
    /\ UNCHANGED <<pci, held>>

(* do_test needs the nodes, and may find the card at fault.                *)
do_test ==
    /\ Step("test")
    /\ \/ pci.bound /\ pci.ours /\ Goes
       \/ Fails
    /\ UNCHANGED <<pci, held>>

Kill ==
    /\ script.is = "running"
    /\ script' = [script EXCEPT !.todo = <<>>, !.is = "killed"]
    /\ UNCHANGED <<pci, held>>

-----------------------------------------------------------------------------
Open ==
    /\ pci.bound /\ pci.ours
    /\ \E h \in Holder \ held : held' = held \cup {h}
    /\ UNCHANGED <<pci, script>>

Close ==
    /\ \E h \in held : held' = held \ {h}
    /\ UNCHANGED <<pci, script>>

(* The card is programmed at the bench: the first time, or when the script *)
(* has said that it is safe.                                               *)
SaidSafe == script.is = "ok" /\ script.command = "detach"
Program ==
    /\ SaidSafe \/ (~pci.configured /\ script.is # "running")
    /\ pci' = [pci EXCEPT !.configured = TRUE]
    /\ UNCHANGED <<held, script>>

Reboot ==
    /\ pci' = [pci EXCEPT !.endpoint = pci.configured, !.loaded = FALSE,
                          !.bound = FALSE, !.ours = FALSE]
    /\ held' = {}
    /\ script' = [script EXCEPT !.todo = <<>>, !.is = "over"]

(* Hotplug, or a bus scan that is not the script's, at any moment: between *)
(* the removal and the look after it, too.                                 *)
ComesBack == Appears /\ UNCHANGED <<held, script>>

BringupNext == \/ Invoke \/ do_rescan \/ make_driver \/ rmmod \/ insmod
               \/ chown \/ remove \/ look \/ do_test \/ Kill \/ Open \/ Close
               \/ Program \/ Reboot \/ ComesBack

-----------------------------------------------------------------------------
(* A command ends well: the moment the script says so.                     *)
Says(commands) == /\ script.is = "running" /\ script'.is = "ok"
                  /\ script.command \in commands

(* "OK: no Xilinx endpoint. Safe to reprogram." (pcie_bringup.sh): when it *)
(* is said, nothing on the host holds the device that is about to stop     *)
(* existing, neither the bus nor the driver nor a program, whatever was    *)
(* killed or failed before, though the removal left the device there or it *)
(* came back.  A load or test that ends well has the nodes there and open  *)
(* to the user, and a rescan that does has an endpoint.                    *)
BringupTrue ==
    [][ /\ Says({"detach"}) => ~pci'.loaded /\ ~pci'.endpoint /\ held' = {}
        /\ Says({"load", "attach", "all", "test"}) =>
               pci'.loaded /\ pci'.bound /\ pci'.ours
        /\ Says({"rescan"}) => pci'.endpoint ]_bringvars
=============================================================================
