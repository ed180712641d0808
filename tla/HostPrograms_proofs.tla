------------------------ MODULE HostPrograms_proofs ------------------------
(***************************************************************************)
(* The programs of the host library, each for every value of its           *)
(* constants, and the host that runs one of them.                          *)
(***************************************************************************)
EXTENDS HostPrograms, MemMap, SequenceTheorems, TLAPS

(***************************************************************************)
(* The bring-up script.  Before each step something has been established   *)
(* that the step relies on: BeforeStep.  What is left to do is always an   *)
(* end of the command's list, Ends.                                        *)
(***************************************************************************)
LoadEnds == {<<"make", "unload", "insmod", "chown">>,
             <<"unload", "insmod", "chown">>, <<"insmod", "chown">>, <<"chown">>}
AllEnds == {<<"rescan", "make", "unload", "insmod", "chown", "test">>,
            <<"make", "unload", "insmod", "chown", "test">>,
            <<"unload", "insmod", "chown", "test">>,
            <<"insmod", "chown", "test">>, <<"chown", "test">>, <<"test">>}
DetachEnds == {<<"unload", "remove", "look">>, <<"remove", "look">>, <<"look">>}
Ends(command, todo) ==
    \/ command = "rescan" /\ todo = <<"rescan">>
    \/ command = "test" /\ todo = <<"test">>
    \/ command \in {"load", "attach"} /\ todo \in LoadEnds
    \/ command = "attach" /\ todo = <<"rescan", "make", "unload", "insmod", "chown">>
    \/ command = "all" /\ todo \in AllEnds
    \/ command = "detach" /\ todo \in DetachEnds

Running ==
    script.is = "running" =>
        /\ Ends(script.command, script.todo)
        /\ Head(script.todo) \in {"insmod", "remove", "look"} => ~pci.loaded
        /\ Head(script.todo) = "chown" => pci.loaded
        /\ Head(script.todo) = "test" /\ script.command = "all" =>
              pci.loaded /\ pci.bound /\ pci.ours

(* What a step must have made true when the script ends well with it.      *)
Told ==
    /\ Card!Says({"detach"}) => ~pci'.loaded /\ ~pci'.endpoint /\ held' = {}
    /\ Card!Says({"load", "attach", "all", "test"}) =>
           pci'.loaded /\ pci'.bound /\ pci'.ours
    /\ Card!Says({"rescan"}) => pci'.endpoint

PciTypes == [configured : BOOLEAN, endpoint : BOOLEAN, loaded : BOOLEAN,
             bound : BOOLEAN, ours : BOOLEAN]
CardTypes ==
    /\ pci \in PciTypes
    /\ script.is \in {"running", "ok", "failed", "killed", "over"}
    /\ DOMAIN script = {"command", "todo", "is", "runs"}

CardInv ==
    /\ CardTypes
    /\ held # {} => pci.loaded
    /\ pci.bound => pci.loaded /\ pci.endpoint
    /\ Running

(* Two sequences joined, element by element.                               *)
LEMMA Joined ==
    ASSUME NEW S, NEW s \in Seq(S), NEW t \in Seq(S), NEW u \in Seq(S),
           Len(u) = Len(s) + Len(t),
           \A i \in 1 .. Len(u) :
              u[i] = IF i <= Len(s) THEN s[i] ELSE t[i - Len(s)]
    PROVE  s \o t = u
<1>1. /\ s \o t \in Seq(S) /\ Len(s \o t) = Len(s) + Len(t)
      /\ \A i \in 1 .. Len(s) + Len(t) :
            (s \o t)[i] = IF i <= Len(s) THEN s[i] ELSE t[i - Len(s)]
    BY ConcatProperties, Zenon
<1>2. \A i \in 1 .. Len(s \o t) : (s \o t)[i] = u[i]
    BY <1>1
<1> QED
    BY <1>1, <1>2, SeqEqual

LEMMA JoinedOneFour ==
    ASSUME NEW a, NEW b, NEW c, NEW d, NEW e
    PROVE  <<a>> \o <<b, c, d, e>> = <<a, b, c, d, e>>
<1> DEFINE S == {a, b, c, d, e}
           s == <<a>>  t == <<b, c, d, e>>  u == <<a, b, c, d, e>>
<1>1. /\ s \in Seq(S) /\ t \in Seq(S) /\ u \in Seq(S)
      /\ Len(u) = Len(s) + Len(t)
      /\ \A i \in 1 .. Len(u) :
            u[i] = IF i <= Len(s) THEN s[i] ELSE t[i - Len(s)]
    OBVIOUS
<1> QED
    BY <1>1, Joined, Zenon

LEMMA JoinedFiveOne ==
    ASSUME NEW a, NEW b, NEW c, NEW d, NEW e, NEW f
    PROVE  <<a, b, c, d, e>> \o <<f>> = <<a, b, c, d, e, f>>
<1> DEFINE S == {a, b, c, d, e, f}
           s == <<a, b, c, d, e>>  t == <<f>>  u == <<a, b, c, d, e, f>>
<1>1. /\ s \in Seq(S) /\ t \in Seq(S) /\ u \in Seq(S)
      /\ Len(u) = Len(s) + Len(t)
      /\ \A i \in 1 .. Len(u) :
            u[i] = IF i <= Len(s) THEN s[i] ELSE t[i - Len(s)]
    OBVIOUS
<1> QED
    BY <1>1, Joined, Zenon

LEMMA AttachSteps ==
    Card!rescan \o Card!load = <<"rescan", "make", "unload", "insmod", "chown">>
BY JoinedOneFour, Zenon DEF Card!rescan, Card!load

LEMMA AllSteps ==
    Card!rescan \o Card!load \o Card!test
        = <<"rescan", "make", "unload", "insmod", "chown", "test">>
BY AttachSteps, JoinedFiveOne, Zenon DEF Card!test

(* Every command begins with its whole list.                               *)
LEMMA WholeList ==
    ASSUME NEW command \in Card!Commands
    PROVE  /\ Ends(command, Card!Steps(command))
           /\ Head(Card!Steps(command)) \in {"rescan", "make", "unload", "test"}
           /\ command = "all" => Head(Card!Steps(command)) # "test"
<1>1. Card!Steps("rescan") = <<"rescan">> /\ Card!Steps("test") = <<"test">>
    BY DEF Card!Steps, Card!rescan, Card!test
<1>2. /\ Card!Steps("load") = <<"make", "unload", "insmod", "chown">>
      /\ Card!Steps("detach") = <<"unload", "remove", "look">>
    BY DEF Card!Steps, Card!load, Card!detach
<1>3. Card!Steps("attach") = <<"rescan", "make", "unload", "insmod", "chown">>
    BY AttachSteps DEF Card!Steps
<1>4. Card!Steps("all") = <<"rescan", "make", "unload", "insmod", "chown", "test">>
    BY AllSteps DEF Card!Steps
<1> QED
    BY <1>1, <1>2, <1>3, <1>4
    DEF Card!Commands, Ends, LoadEnds, AllEnds, DetachEnds

(* What follows a step, by the name of the step.                           *)
LEMMA WhatFollows ==
    ASSUME NEW command, NEW todo, Ends(command, todo)
    PROVE  /\ Tail(todo) # <<>> => Ends(command, Tail(todo))
           /\ Head(todo) = "rescan" =>
                 (Tail(todo) # <<>> => Head(Tail(todo)) = "make")
           /\ Head(todo) = "rescan" /\ Tail(todo) = <<>> => command = "rescan"
           /\ Head(todo) = "make" =>
                 Tail(todo) # <<>> /\ Head(Tail(todo)) = "unload"
           /\ Head(todo) = "unload" =>
                 Tail(todo) # <<>> /\ Head(Tail(todo)) \in {"insmod", "remove"}
           /\ Head(todo) = "insmod" =>
                 Tail(todo) # <<>> /\ Head(Tail(todo)) = "chown"
           /\ Head(todo) = "chown" => command # "detach"
           /\ Head(todo) = "chown" /\ Tail(todo) # <<>> =>
                 Head(Tail(todo)) = "test"
           /\ Head(todo) = "remove" =>
                 Tail(todo) # <<>> /\ Head(Tail(todo)) = "look"
           /\ Head(todo) = "look" => Tail(todo) = <<>> /\ command = "detach"
           /\ Head(todo) = "test" =>
                 Tail(todo) = <<>> /\ command \in {"test", "all"}
<1>1. CASE todo \in LoadEnds /\ command \in {"load", "attach"}
    <2>1. CASE todo = <<"make", "unload", "insmod", "chown">>
        BY <1>1, <2>1 DEF Ends, LoadEnds
    <2>2. CASE todo = <<"unload", "insmod", "chown">>
        BY <1>1, <2>2 DEF Ends, LoadEnds
    <2>3. CASE todo = <<"insmod", "chown">>
        BY <1>1, <2>3 DEF Ends, LoadEnds
    <2>4. CASE todo = <<"chown">>
        BY <1>1, <2>4 DEF Ends, LoadEnds
    <2> QED
        BY <1>1, <2>1, <2>2, <2>3, <2>4, Zenon DEF LoadEnds
<1>2. CASE todo \in AllEnds /\ command = "all"
    <2>1. CASE todo = <<"rescan", "make", "unload", "insmod", "chown", "test">>
        BY <1>2, <2>1 DEF Ends, AllEnds
    <2>2. CASE todo = <<"make", "unload", "insmod", "chown", "test">>
        BY <1>2, <2>2 DEF Ends, AllEnds
    <2>3. CASE todo = <<"unload", "insmod", "chown", "test">>
        BY <1>2, <2>3 DEF Ends, AllEnds
    <2>4. CASE todo = <<"insmod", "chown", "test">>
        BY <1>2, <2>4 DEF Ends, AllEnds
    <2>5. CASE todo = <<"chown", "test">>
        BY <1>2, <2>5 DEF Ends, AllEnds
    <2>6. CASE todo = <<"test">>
        BY <1>2, <2>6 DEF Ends, AllEnds
    <2> QED
        BY <1>2, <2>1, <2>2, <2>3, <2>4, <2>5, <2>6, Zenon DEF AllEnds
<1>3. CASE todo \in DetachEnds /\ command = "detach"
    <2>1. CASE todo = <<"unload", "remove", "look">>
        BY <1>3, <2>1 DEF Ends, DetachEnds
    <2>2. CASE todo = <<"remove", "look">>
        BY <1>3, <2>2 DEF Ends, DetachEnds
    <2>3. CASE todo = <<"look">>
        BY <1>3, <2>3 DEF Ends, DetachEnds
    <2> QED
        BY <1>3, <2>1, <2>2, <2>3, Zenon DEF DetachEnds
<1>4. CASE /\ command = "attach"
           /\ todo = <<"rescan", "make", "unload", "insmod", "chown">>
    BY <1>4 DEF Ends, LoadEnds
<1>5. CASE command = "rescan" /\ todo = <<"rescan">>
    BY <1>5
<1>6. CASE command = "test" /\ todo = <<"test">>
    BY <1>6
<1> QED
    BY <1>1, <1>2, <1>3, <1>4, <1>5, <1>6, Zenon DEF Ends

LEMMA CardInit == Card!BringupInit => CardInv
<1> SUFFICES ASSUME Card!BringupInit PROVE CardInv
    OBVIOUS
<1>1. script.is = "over"
    BY DEF Card!BringupInit, Card!Script
<1>2. CardTypes /\ held = {} /\ ~pci.bound
    BY DEF Card!BringupInit, Card!Script, CardTypes, PciTypes
<1> QED
    BY <1>1, <1>2 DEF CardInv, Running

LEMMA CardInvoke == CardInv /\ Card!Invoke => CardInv' /\ Told
<1> SUFFICES ASSUME CardInv, Card!Invoke PROVE CardInv' /\ Told
    OBVIOUS
<1>1. PICK command \in Card!Commands :
        script' = Card!Script(command, Card!Steps(command), "running",
                              script.runs + 1)
    BY DEF Card!Invoke
<1>2. /\ script'.command = command /\ script'.is = "running"
      /\ script'.todo = Card!Steps(command)
      /\ DOMAIN script' = {"command", "todo", "is", "runs"}
    BY <1>1 DEF Card!Script
<1>3. pci' = pci /\ held' = held
    BY DEF Card!Invoke
<1>4. Running'
    BY <1>2, WholeList DEF Running
<1> QED
    BY <1>2, <1>3, <1>4 DEF CardInv, CardTypes, Told, Card!Says

(* A step that fails, or a kill, promises nothing.                         *)
LEMMA CardStops ==
    ASSUME CardInv, pci' = pci, held' = held, Card!Fails \/ Card!Kill
    PROVE  CardInv' /\ Told
BY DEF CardInv, CardTypes, Running, Told, Card!Says, Card!Fails, Card!Kill

(* A step that succeeds makes true what the next one relies on, and the    *)
(* last one what the script says.                                          *)
LEMMA CardGoes ==
    ASSUME CardInv, script.is = "running", Card!Goes
    PROVE  /\ script'.is = IF Tail(script.todo) = <<>> THEN "ok" ELSE "running"
           /\ script'.command = script.command
           /\ script'.todo = Tail(script.todo)
           /\ DOMAIN script' = {"command", "todo", "is", "runs"}
           /\ script'.is \in {"ok", "running"}
BY DEF CardInv, CardTypes, Card!Goes

LEMMA AfterGoes ==
    ASSUME CardInv, script.is = "running", Card!Goes,
           pci' \in PciTypes, held' = held,
           held # {} => pci'.loaded,
           pci'.bound => pci'.loaded /\ pci'.endpoint,
           NEW rest, rest = Tail(script.todo),
           rest # <<>> =>
              /\ Head(rest) \in {"insmod", "remove", "look"} => ~pci'.loaded
              /\ Head(rest) = "chown" => pci'.loaded
              /\ Head(rest) = "test" /\ script.command = "all" =>
                    pci'.loaded /\ pci'.bound /\ pci'.ours,
           rest = <<>> =>
              /\ script.command = "detach" => ~pci'.loaded /\ ~pci'.endpoint
              /\ script.command \in {"load", "attach", "all", "test"} =>
                    pci'.loaded /\ pci'.bound /\ pci'.ours
              /\ script.command = "rescan" => pci'.endpoint
    PROVE  CardInv' /\ Told
<1>1. /\ script'.is = IF rest = <<>> THEN "ok" ELSE "running"
      /\ script'.command = script.command /\ script'.todo = rest
      /\ CardTypes'
    BY CardGoes DEF CardTypes
<1>2. rest # <<>> => Ends(script.command, rest)
    BY WhatFollows DEF CardInv, Running
<1>3. Running'
    BY <1>1, <1>2 DEF Running
<1>4. Told
    BY <1>1 DEF Told, Card!Says
<1> QED
    BY <1>1, <1>3, <1>4 DEF CardInv

(* An endpoint that appears was not there, so no node was open.            *)
LEMMA CardAppears ==
    ASSUME CardInv, Card!Appears
    PROVE  /\ pci' \in PciTypes /\ pci'.endpoint /\ ~pci.bound
           /\ pci'.loaded = pci.loaded
           /\ pci'.bound => pci'.loaded
<1>1. PICK binds \in {FALSE, pci.loaded} :
        pci' = [pci EXCEPT !.endpoint = TRUE, !.bound = binds]
    BY DEF Card!Appears
<1>2. pci \in PciTypes /\ ~pci.endpoint /\ ~pci.bound
    BY DEF Card!Appears, CardInv, CardTypes
<1>3. binds \in BOOLEAN /\ (binds => pci.loaded)
    BY <1>1, <1>2 DEF PciTypes
<1>4. /\ pci' \in PciTypes /\ pci'.endpoint = TRUE
      /\ pci'.loaded = pci.loaded /\ pci'.bound = binds
    BY <1>1, <1>2, <1>3 DEF PciTypes
<1> QED
    BY <1>2, <1>3, <1>4

LEMMA CardStep ==
    ASSUME CardInv,
           \/ Card!do_rescan \/ Card!make_driver \/ Card!rmmod \/ Card!insmod
           \/ Card!chown \/ Card!remove \/ Card!look \/ Card!do_test
    PROVE  CardInv' /\ Told
<1> DEFINE rest == Tail(script.todo)
<1>0. pci \in PciTypes
    BY DEF CardInv, CardTypes
<1>1. CASE Card!do_rescan
    <2>1. /\ script.is = "running" /\ Head(script.todo) = "rescan"
          /\ held' = held
        BY <1>1 DEF Card!do_rescan, Card!Step
    <2>2. CASE Card!Fails /\ pci' = pci
        BY <2>1, <2>2, CardStops
    <2>3. CASE Card!Goes /\ (Card!Appears \/ (pci.endpoint /\ pci' = pci))
        <3>1. /\ pci' \in PciTypes /\ pci'.endpoint
              /\ pci'.loaded = pci.loaded /\ (pci'.bound => pci'.loaded)
            BY <1>0, <2>3, CardAppears DEF CardInv
        <3>2. /\ rest # <<>> => Head(rest) = "make"
              /\ rest = <<>> => script.command = "rescan"
            BY <2>1, WhatFollows, ZenonT(60) DEF CardInv, Running
        <3> HIDE DEF rest
        <3> QED
            BY <2>1, <2>3, <3>1, <3>2, AfterGoes DEF rest, CardInv
    <2> QED
        BY <1>1, <2>2, <2>3 DEF Card!do_rescan
<1>2. CASE Card!make_driver
    <2>1. /\ script.is = "running" /\ Head(script.todo) = "make"
          /\ held' = held /\ pci' = pci /\ (Card!Goes \/ Card!Fails)
        BY <1>2 DEF Card!make_driver, Card!Step
    <2>2. CASE Card!Goes
        <3>1. rest # <<>> /\ Head(rest) = "unload"
            BY <2>1, WhatFollows, ZenonT(60) DEF CardInv, Running
        <3> QED
            BY <1>0, <2>1, <2>2, <3>1, AfterGoes DEF CardInv
    <2> QED
        BY <2>1, <2>2, CardStops
<1>3. CASE Card!rmmod
    <2>1. script.is = "running" /\ Head(script.todo) = "unload" /\ held' = held
        BY <1>3 DEF Card!rmmod, Card!Step
    <2>2. CASE pci.loaded /\ Card!Fails /\ pci' = pci
        BY <2>1, <2>2, CardStops
    <2>3. CASE /\ Card!Goes
               /\ \/ ~pci.loaded /\ pci' = pci
                  \/ pci.loaded /\ held = {} /\ pci' = Card!Unloaded
        <3>1. /\ pci' \in PciTypes /\ held = {} /\ ~pci'.loaded /\ ~pci'.bound
            <4>1. CASE ~pci.loaded /\ pci' = pci
                BY <1>0, <4>1 DEF CardInv
            <4>2. CASE pci.loaded /\ held = {} /\ pci' = Card!Unloaded
                <5>1. pci' = [pci EXCEPT !.loaded = FALSE, !.bound = FALSE,
                                         !.ours = FALSE]
                    BY <4>2 DEF Card!Unloaded
                <5> QED
                    BY <1>0, <4>2, <5>1 DEF PciTypes
            <4> QED
                BY <2>3, <4>1, <4>2
        <3>2. rest # <<>> /\ Head(rest) \in {"insmod", "remove"}
            BY <2>1, WhatFollows, ZenonT(60) DEF CardInv, Running
        <3>3. /\ ~pci'.bound /\ rest = Tail(script.todo)
              /\ Head(rest) # "chown" /\ Head(rest) # "test"
            BY <3>1, <3>2
        <3> HIDE DEF rest
        <3> QED
            BY <2>1, <2>3, <3>1, <3>2, <3>3, AfterGoes
    <2> QED
        BY <1>3, <2>2, <2>3 DEF Card!rmmod
<1>4. CASE Card!insmod
    <2>1. /\ script.is = "running" /\ Head(script.todo) = "insmod"
          /\ held' = held
        BY <1>4 DEF Card!insmod, Card!Step
    <2>2. CASE Card!Fails /\ pci' = pci
        BY <2>1, <2>2, CardStops
    <2>3. CASE /\ Card!Goes
               /\ \E binds \in {FALSE, pci.endpoint} :
                     pci' = [pci EXCEPT !.loaded = TRUE, !.bound = binds]
        <3>1. PICK binds \in {FALSE, pci.endpoint} :
                pci' = [pci EXCEPT !.loaded = TRUE, !.bound = binds]
            BY <2>3
        <3>2. binds \in BOOLEAN /\ (binds => pci.endpoint)
            BY <1>0, <3>1 DEF PciTypes
        <3>3. /\ pci' \in PciTypes /\ pci'.loaded = TRUE
              /\ pci'.endpoint = pci.endpoint /\ pci'.bound = binds
            BY <1>0, <3>1, <3>2 DEF PciTypes
        <3>4. rest # <<>> /\ Head(rest) = "chown"
            BY <2>1, WhatFollows, ZenonT(60) DEF CardInv, Running
        <3>5. /\ pci' \in PciTypes /\ pci'.loaded
              /\ pci'.bound => pci'.endpoint
            BY <3>2, <3>3
        <3> QED
            BY <2>1, <2>3, <3>4, <3>5, AfterGoes
    <2> QED
        BY <1>4, <2>2, <2>3 DEF Card!insmod
<1>5. CASE Card!chown
    <2>1. script.is = "running" /\ Head(script.todo) = "chown" /\ held' = held
        BY <1>5 DEF Card!chown, Card!Step
    <2>2. CASE Card!Fails /\ pci' = pci
        BY <2>1, <2>2, CardStops
    <2>3. CASE pci.bound /\ Card!Goes /\ pci' = [pci EXCEPT !.ours = TRUE]
        <3>1. /\ pci' \in PciTypes /\ pci'.endpoint
              /\ pci'.loaded /\ pci'.bound /\ pci'.ours
            BY <1>0, <2>3 DEF PciTypes, CardInv
        <3>2. /\ script.command \notin {"detach", "rescan"}
              /\ rest # <<>> => Head(rest) = "test"
            <4>1. Ends(script.command, script.todo)
                BY <2>1 DEF CardInv, Running
            <4>2. script.command # "detach"
                BY <2>1, <4>1, WhatFollows, Zenon
            <4>3. rest # <<>> => Head(rest) = "test"
                BY <2>1, <4>1, WhatFollows, ZenonT(60)
            <4>4. script.command # "rescan"
                BY <2>1, <4>1 DEF Ends
            <4> QED
                BY <4>2, <4>3, <4>4
        <3> QED
            BY <2>1, <2>3, <3>1, <3>2, AfterGoes
    <2> QED
        BY <1>5, <2>2, <2>3 DEF Card!chown
<1>6. CASE Card!remove
    <2>1. /\ script.is = "running" /\ Head(script.todo) = "remove"
          /\ held' = held
        BY <1>6 DEF Card!remove, Card!Step
    <2>2. ~pci.loaded /\ held = {} /\ ~pci.bound
        BY <2>1 DEF CardInv, Running
    <2>3. CASE Card!Fails /\ pci' = pci
        BY <2>1, <2>3, CardStops
    <2>4. CASE /\ Card!Goes
               /\ \/ pci' = pci
                  \/ pci' = [pci EXCEPT !.endpoint = FALSE, !.bound = FALSE,
                                        !.ours = FALSE]
        <3>1. pci' \in PciTypes /\ ~pci'.loaded /\ ~pci'.bound
            BY <1>0, <2>2, <2>4 DEF PciTypes
        <3>2. rest # <<>> /\ Head(rest) = "look"
            BY <2>1, WhatFollows, ZenonT(60) DEF CardInv, Running
        <3> QED
            BY <2>1, <2>2, <2>4, <3>1, <3>2, AfterGoes
    <2> QED
        BY <1>6, <2>3, <2>4 DEF Card!remove
<1>7. CASE Card!look
    <2>1. /\ script.is = "running" /\ Head(script.todo) = "look"
          /\ pci' = pci /\ held' = held
        BY <1>7 DEF Card!look, Card!Step
    <2>2. CASE pci.endpoint
        BY <1>7, <2>1, <2>2, CardStops DEF Card!look
    <2>3. CASE ~pci.endpoint
        <3>1. /\ Card!Goes /\ held = {} /\ ~pci.loaded /\ ~pci.bound
            BY <1>7, <2>1, <2>3 DEF Card!look, CardInv, Running
        <3>2. rest = <<>> /\ script.command = "detach"
            BY <2>1, WhatFollows, ZenonT(60) DEF CardInv, Running
        <3> QED
            BY <1>0, <2>1, <2>3, <3>1, <3>2, AfterGoes
    <2> QED
        BY <2>2, <2>3
<1>8. CASE Card!do_test
    <2>1. /\ script.is = "running" /\ Head(script.todo) = "test"
          /\ pci' = pci /\ held' = held
          /\ (pci.bound /\ pci.ours /\ Card!Goes) \/ Card!Fails
        BY <1>8 DEF Card!do_test, Card!Step
    <2>2. rest = <<>> /\ script.command \in {"test", "all"}
        <3>1. Ends(script.command, script.todo)
            BY <2>1 DEF CardInv, Running
        <3> QED
            BY <2>1, <3>1, WhatFollows, Zenon
    <2>3. CASE pci.bound /\ pci.ours /\ Card!Goes
        BY <1>0, <2>1, <2>2, <2>3, AfterGoes DEF CardInv
    <2> QED
        BY <2>1, <2>3, CardStops
<1> QED
    BY <1>1, <1>2, <1>3, <1>4, <1>5, <1>6, <1>7, <1>8

(* Programs that open or close a node, the bench, a reboot, and an         *)
(* endpoint that comes back by itself.                                     *)
LEMMA CardWorld ==
    ASSUME CardInv,
           \/ Card!Open \/ Card!Close \/ Card!Program \/ Card!Reboot
           \/ Card!ComesBack
    PROVE  CardInv' /\ Told
<1>1. CASE Card!Open
    <2>1. pci.bound /\ pci.loaded /\ pci' = pci /\ script' = script
        BY <1>1 DEF CardInv, Card!Open
    <2> QED
        BY <2>1 DEF CardInv, CardTypes, Running, Told, Card!Says
<1>2. CASE Card!Close
    BY <1>2 DEF CardInv, CardTypes, Running, Told, Card!Says, Card!Close
<1>3. CASE Card!Program
    <2>1. /\ pci \in PciTypes /\ held' = held /\ script' = script
          /\ pci' = [pci EXCEPT !.configured = TRUE]
        BY <1>3 DEF CardInv, CardTypes, Card!Program
    <2>2. /\ pci' \in PciTypes /\ pci'.loaded = pci.loaded
          /\ pci'.bound = pci.bound /\ pci'.ours = pci.ours
          /\ pci'.endpoint = pci.endpoint
        BY <2>1 DEF PciTypes
    <2> QED
        BY <2>1, <2>2 DEF CardInv, CardTypes, Running, Told, Card!Says
<1>4. CASE Card!Reboot
    <2>1. /\ pci \in PciTypes /\ held' = {}
          /\ pci' = [pci EXCEPT !.endpoint = pci.configured, !.loaded = FALSE,
                                !.bound = FALSE, !.ours = FALSE]
        BY <1>4 DEF CardInv, CardTypes, Card!Reboot
    <2>2. pci' \in PciTypes /\ ~pci'.bound
        BY <2>1 DEF PciTypes
    <2>3. script'.is = "over" /\ DOMAIN script' = {"command", "todo", "is", "runs"}
        BY <1>4 DEF CardInv, CardTypes, Card!Reboot
    <2> QED
        BY <2>1, <2>2, <2>3 DEF CardInv, CardTypes, Running, Told, Card!Says
<1>5. CASE Card!ComesBack
    <2>1. /\ script' = script /\ held' = held
          /\ pci' \in PciTypes /\ pci'.endpoint /\ ~pci.bound
          /\ pci'.loaded = pci.loaded /\ (pci'.bound => pci'.loaded)
        BY <1>5, CardAppears DEF Card!ComesBack
    <2> QED
        BY <2>1 DEF CardInv, CardTypes, Running, Told, Card!Says
<1> QED
    BY <1>1, <1>2, <1>3, <1>4, <1>5

LEMMA CardKept ==
    CardInv /\ [Card!BringupNext]_bringvars => CardInv' /\ [Told]_bringvars
<1>1. ASSUME CardInv, UNCHANGED bringvars PROVE CardInv'
    BY <1>1 DEF CardInv, CardTypes, Running, bringvars
<1>2. ASSUME CardInv, Card!Kill PROVE CardInv' /\ Told
    BY <1>2, CardStops DEF Card!Kill
<1> QED
    BY <1>1, <1>2, CardInvoke, CardStep, CardWorld, Zenon DEF Card!BringupNext

(* Whatever was killed or failed before, whether the removal failed, left  *)
(* the device there or saw it come back: when the script says that it is   *)
(* safe to reprogram, nothing on the host holds the device.  A load or a   *)
(* test that ends well has the nodes there and open to the user, whichever *)
(* of its steps may fail, and a rescan that does has an endpoint.          *)
THEOREM ScriptIsTrue == HostSpec => BringupTrue
<1>1. HostInit => CardInv
    BY CardInit DEF HostInit
<1>2. [HostNext]_allvars => [Card!BringupNext]_bringvars
    BY DEF HostNext, allvars
<1>3. [Told]_bringvars =>
        [ /\ Card!Says({"detach"}) =>
                 ~pci'.loaded /\ ~pci'.endpoint /\ held' = {}
          /\ Card!Says({"load", "attach", "all", "test"}) =>
                 pci'.loaded /\ pci'.bound /\ pci'.ours
          /\ Card!Says({"rescan"}) => pci'.endpoint ]_(Card!bringvars)
    BY DEF Told, bringvars, Card!bringvars
<1> QED
    BY <1>1, <1>2, <1>3, CardKept, PTL
    DEF HostSpec, BringupTrue, Card!BringupTrue

(***************************************************************************)
(* The packet loopback.  Where a run's packets come from is told by the    *)
(* number of beats: e that were there before, those that were sent, d that *)
(* were lost (Lag).  A packet that comes back right had nothing before it, *)
(* unless what was there is a whole packet of its size, which the longest  *)
(* packet rules out (LagWhole); from then on the FIFO is empty between     *)
(* packets.  A run that found it empty has either met no fault, and every  *)
(* beat is in its place (Clean), or the fault shows for good (Doomed).     *)
(***************************************************************************)
Mid == {"delay", "reading", "await"}
SZ == Sizes[main.number]
Long == CHOOSE n \in 1 .. Len(Sizes) : Sizes[n] > Depth
Beats == [packet : Nat, place : Nat, last : BOOLEAN]

MainType ==
    [at : {"submit", "leaving", "passed", "failed", "killed"} \cup Mid,
     number : 1 .. Len(Sizes), got : Seq(Nat \X Nat), run : Nat,
     empty : BOOLEAN, upset : BOOLEAN]
WriterType == [is : {"idle", "writing", "done", "raised"}, sent : Nat]
Writes ==
    main.at \in Mid =>
        /\ writer.is # "idle" /\ writer.sent <= SZ
        /\ writer.is = "done" => writer.sent = SZ
AtRest == main.at \in {"submit", "passed"} => writer.is # "writing"
StreamTypes ==
    /\ fifo \in Seq(Beats) /\ Len(fifo) <= Depth
    /\ writer \in WriterType /\ main \in MainType /\ Writes /\ AtRest

(* What a read has got and what is in the FIFO, when e beats were there    *)
(* before the packet, of which sent beats followed, and d of those or of   *)
(* these was lost: no beat that followed is further on than it was sent.   *)
Lag(got, beats, sent, e, d) ==
    /\ Len(got) + Len(beats) + d = e + sent
    /\ \A q \in 1 .. Len(got) : q > e => got[q][2] <= q - e + d
    /\ \A k \in 1 .. Len(beats) : Len(got) + k > e =>
          beats[k].place <= Len(got) + k - e + d
Fresh == main.number > Long \/ main.empty
LagInv ==
    /\ main.at = "submit" /\ Fresh => fifo = <<>>
    /\ main.at = "passed" => fifo = <<>>
    /\ main.at \in Mid =>
          \E e \in 0 .. Depth, d \in 0 .. 1 :
             /\ Lag(main.got, fifo, writer.sent, e, d)
             /\ d = 1 => main.upset
             /\ Fresh => e = 0

(* The beats of packet n, as far as they were sent, and nothing else.      *)
Right(got, beats, n, size, sent) ==
    /\ \A q \in 1 .. Len(got) : got[q] = <<n, q>>
    /\ \A k \in 1 .. Len(beats) :
          /\ beats[k].packet = n /\ beats[k].place = Len(got) + k
          /\ beats[k].last = (Len(got) + k = size)
    /\ Len(got) + Len(beats) = sent

(* What shows already, or will: a beat out of place, a mark that is not    *)
(* where the packet ends, a beat that is missing.                          *)
Misplaced(got, beats, n) ==
    \/ \E q \in 1 .. Len(got) : got[q] # <<n, q>>
    \/ \E k \in 1 .. Len(beats) : \/ beats[k].packet # n
                                  \/ beats[k].place # Len(got) + k
Mismarked(got, beats, size) ==
    \E k \in 1 .. Len(beats) : beats[k].last # (Len(got) + k = size)
Wrong(got, beats, n, size, sent) ==
    \/ Misplaced(got, beats, n)
    \/ Mismarked(got, beats, size)
    \/ Len(got) + Len(beats) < sent

(* No fault so far, in a run that found the FIFO empty.                    *)
Clean ==
    /\ main.at \in {"submit", "passed", "killed"} \cup Mid
    /\ main.at \in Mid =>
          /\ Right(main.got, fifo, main.number, SZ, writer.sent)
          /\ writer.is # "raised"
          /\ Len(main.got) <= SZ /\ (Len(main.got) = SZ <=> main.at = "await")

(* A fault, in such a run: it does not pass.                               *)
Doomed ==
    /\ main.at \in {"leaving", "failed", "killed"} \cup Mid
    /\ main.at \in Mid =>
          \/ Wrong(main.got, fifo, main.number, SZ, writer.sent)
          \/ main.at = "await" /\ Len(main.got) # SZ
          \/ /\ main.at = "reading" /\ Len(main.got) = SZ
             /\ fifo = <<>> /\ writer.sent = SZ

FaultShows ==
    main.empty => IF main.upset THEN Doomed ELSE Clean

LEMMA TheSizes ==
    /\ Depth \in Nat \ {0} /\ Capacity \in Nat /\ Len(Sizes) \in Nat
    /\ Long \in 1 .. Len(Sizes) /\ Sizes[Long] > Depth
    /\ \A n \in 1 .. Len(Sizes) : Sizes[n] \in Nat \ {0} /\ Sizes[n] < Capacity
<1>1. Long \in 1 .. Len(Sizes) /\ Sizes[Long] > Depth
    BY StreamAssumption, Zenon DEF Loop!Packets, Long
<1>2. Len(Sizes) \in Nat /\ \A n \in 1 .. Len(Sizes) : Sizes[n] \in Nat \ {0}
    BY StreamAssumption DEF Loop!Packets
<1> QED
    BY <1>1, <1>2, StreamAssumption DEF Loop!Packets

LEMMA Pushed ==
    ASSUME NEW S, NEW s \in Seq(S), NEW x \in S
    PROVE  /\ Append(s, x) \in Seq(S) /\ Len(Append(s, x)) = Len(s) + 1
           /\ Append(s, x)[Len(s) + 1] = x /\ Len(s) \in Nat
           /\ \A i \in 1 .. Len(s) : Append(s, x)[i] = s[i]
OBVIOUS

LEMMA Pulled ==
    ASSUME NEW S, NEW s \in Seq(S), s # <<>>
    PROVE  /\ Tail(s) \in Seq(S) /\ Len(Tail(s)) = Len(s) - 1
           /\ Len(s) \in Nat \ {0}
           /\ Head(s) = s[1] /\ Head(s) \in S
           /\ \A i \in 1 .. Len(s) - 1 : Tail(s)[i] = s[i + 1]
OBVIOUS

LEMMA Lost ==
    ASSUME NEW S, NEW s \in Seq(S), NEW i \in 1 .. Len(s)
    PROVE  /\ Loop!Without(s, i) \in Seq(S) /\ Len(Loop!Without(s, i)) = Len(s) - 1
           /\ \A j \in 1 .. Len(s) - 1 :
                 Loop!Without(s, i)[j] = IF j < i THEN s[j] ELSE s[j + 1]
<1> DEFINE a == SubSeq(s, 1, i - 1)
           b == SubSeq(s, i + 1, Len(s))
<1>1. Len(s) \in Nat /\ \A j \in 1 .. Len(s) : s[j] \in S
    OBVIOUS
<1>2. /\ a \in Seq(S) /\ Len(a) = i - 1
      /\ \A j \in 1 .. i - 1 : a[j] = s[j]
    BY <1>1, SubSeqProperties
<1>3. /\ b \in Seq(S) /\ Len(b) = Len(s) - i
      /\ \A j \in 1 .. Len(s) - i : b[j] = s[i + j]
    <2>1. /\ b \in Seq(S) /\ Len(b) = Len(s) - i
          /\ \A j \in 1 .. Len(s) - (i + 1) + 1 : b[j] = s[i + 1 + j - 1]
        <3>1. \A j \in i + 1 .. Len(s) : s[j] \in S
            BY <1>1
        <3> QED
            BY <1>1, <3>1, SubSeqProperties
    <2> QED
        BY <1>1, <2>1
<1> HIDE DEF a, b
<1>4. /\ a \o b \in Seq(S) /\ Len(a \o b) = Len(s) - 1
      /\ \A j \in 1 .. Len(s) - 1 :
            (a \o b)[j] = IF j < i THEN a[j] ELSE b[j - i + 1]
    <2>1. /\ a \o b \in Seq(S) /\ Len(a \o b) = Len(a) + Len(b)
          /\ \A j \in 1 .. Len(a) + Len(b) :
                (a \o b)[j] = IF j <= Len(a) THEN a[j] ELSE b[j - Len(a)]
        BY <1>2, <1>3, ConcatProperties
    <2> QED
        BY <1>1, <1>2, <1>3, <2>1, SMTT(30)
<1>5. \A j \in 1 .. Len(s) - 1 : (a \o b)[j] = IF j < i THEN s[j] ELSE s[j + 1]
    <2> TAKE j \in 1 .. Len(s) - 1
    <2>1. PICK n \in Nat : n = Len(s)
        BY <1>1
    <2>2. (a \o b)[j] = IF j < i THEN a[j] ELSE b[j - i + 1]
        BY <1>4, Zenon
    <2>3. CASE j < i
        <3>1. j \in 1 .. i - 1
            BY <1>1, <2>1, <2>3
        <3>2. a[j] = s[j]
            BY <1>2, <3>1, Zenon
        <3> QED
            BY <2>2, <2>3, <3>2, Zenon
    <2>4. CASE ~(j < i)
        <3>1. /\ j - i + 1 \in 1 .. n - i
              /\ i + (j - i + 1) = j + 1
            BY <1>1, <2>1, <2>4
        <3>2. b[j - i + 1] = s[i + (j - i + 1)]
            BY <1>3, <2>1, <3>1, Zenon
        <3> QED
            BY <2>2, <2>4, <3>1, <3>2, Zenon
    <2> QED
        BY <2>3, <2>4
<1> QED
    BY <1>4, <1>5 DEF Loop!Without, a, b

LEMMA ABeat ==
    ASSUME NEW n \in Nat, NEW i \in Nat, NEW last \in BOOLEAN
    PROVE  Loop!Beat(n, i, last) \in Beats
BY DEF Loop!Beat, Beats

(* A fault that spoils a beat changes the one beat.                        *)
Spoilt(x, y) ==
    /\ x.packet = y.packet
    /\ \/ x.place = 0 /\ x.last = y.last
       \/ x.place = y.place /\ x.last = ~y.last

LEMMA PlaceSpoilt ==
    ASSUME NEW s \in Seq(Beats), NEW i \in 1 .. Len(s)
    PROVE  \E x \in Beats : /\ [s EXCEPT ![i].place = 0] = [s EXCEPT ![i] = x]
                            /\ Spoilt(x, s[i])
<1>1. s[i] \in Beats
    BY ElementOfSeq
<1>2. /\ [s[i] EXCEPT !.place = 0] \in Beats
      /\ Spoilt([s[i] EXCEPT !.place = 0], s[i])
    BY <1>1 DEF Beats, Spoilt
<1>3. [s EXCEPT ![i].place = 0] = [s EXCEPT ![i] = [s[i] EXCEPT !.place = 0]]
    BY Zenon
<1> QED
    BY <1>2, <1>3, Zenon

LEMMA LastSpoilt ==
    ASSUME NEW s \in Seq(Beats), NEW i \in 1 .. Len(s)
    PROVE  \E x \in Beats : /\ [s EXCEPT ![i].last = ~@] = [s EXCEPT ![i] = x]
                            /\ Spoilt(x, s[i])
<1>1. s[i] \in Beats
    BY ElementOfSeq
<1>2. PICK last \in BOOLEAN : last = ~s[i].last
    OBVIOUS
<1>3. /\ [s[i] EXCEPT !.last = last] \in Beats
      /\ Spoilt([s[i] EXCEPT !.last = last], s[i])
    BY <1>1, <1>2 DEF Beats, Spoilt
<1>4. [s EXCEPT ![i].last = ~@] = [s EXCEPT ![i] = [s[i] EXCEPT !.last = last]]
    BY <1>2, Zenon
<1> QED
    BY <1>3, <1>4, Zenon

LEMMA FaultIs ==
    ASSUME StreamTypes, Loop!Fault
    PROVE  /\ ~main.upset /\ main'.upset = TRUE /\ writer' = writer
           /\ main' \in MainType /\ main'.number = main.number
           /\ main'.got = main.got /\ main'.empty = main.empty
           /\ main.at \notin {"passed", "failed", "killed"}
           /\ \/ main'.at = "leaving" /\ fifo' = fifo
              \/ /\ main'.at = main.at
                 /\ \E i \in 1 .. Len(fifo) :
                       \/ fifo' = Loop!Without(fifo, i)
                       \/ \E x \in Beats : /\ fifo' = [fifo EXCEPT ![i] = x]
                                            /\ Spoilt(x, fifo[i])
<1>1. \/ /\ main' = [main EXCEPT !.upset = TRUE]
         /\ \E i \in 1 .. Len(fifo) :
                \/ fifo' = Loop!Without(fifo, i)
                \/ \E x \in Beats : /\ fifo' = [fifo EXCEPT ![i] = x]
                                     /\ Spoilt(x, fifo[i])
      \/ /\ main' = [main EXCEPT !.upset = TRUE, !.at = "leaving"]
         /\ fifo' = fifo
    <2>1. CASE \E i \in 1 .. Len(fifo) :
             /\ fifo' \in {Loop!Without(fifo, i), [fifo EXCEPT ![i].place = 0],
                           [fifo EXCEPT ![i].last = ~@]}
             /\ main' = [main EXCEPT !.upset = TRUE]
        <3>1. PICK i \in 1 .. Len(fifo) :
             /\ fifo' \in {Loop!Without(fifo, i), [fifo EXCEPT ![i].place = 0],
                           [fifo EXCEPT ![i].last = ~@]}
             /\ main' = [main EXCEPT !.upset = TRUE]
            BY <2>1
        <3>2. \/ fifo' = Loop!Without(fifo, i)
              \/ fifo' = [fifo EXCEPT ![i].place = 0]
              \/ fifo' = [fifo EXCEPT ![i].last = ~@]
            BY <3>1, Zenon
        <3>3. \/ fifo' = Loop!Without(fifo, i)
              \/ \E x \in Beats : /\ fifo' = [fifo EXCEPT ![i] = x]
                                   /\ Spoilt(x, fifo[i])
            BY <3>2, PlaceSpoilt, LastSpoilt, Zenon DEF StreamTypes
        <3> QED
            BY <3>1, <3>3
    <2> QED
        BY <2>1 DEF Loop!Fault
<1>2. /\ ~main.upset /\ writer' = writer
      /\ main.at \notin {"passed", "failed", "killed"}
    BY DEF Loop!Fault, Loop!StreamEnded
<1> QED
    BY <1>1, <1>2 DEF StreamTypes, MainType

LEMMA TypesInit == Loop!StreamInit => StreamTypes
BY TheSizes
DEF Loop!StreamInit, StreamTypes, WriterType, MainType, Writes, AtRest,
    Loop!NoWriter, Loop!Main, Mid

LEMMA TypesKept == StreamTypes /\ [Loop!StreamNext]_strmvars => StreamTypes'
<1> SUFFICES ASSUME StreamTypes, [Loop!StreamNext]_strmvars PROVE StreamTypes'
    OBVIOUS
<1> USE DEF StreamTypes, WriterType, MainType, Mid, AtRest
<1>1. CASE Loop!submit
    <2>1. writer' \in WriterType /\ main' \in MainType /\ fifo' = fifo
        BY <1>1, EmptySeq DEF Loop!submit
    <2>2. writer'.sent = 0 /\ writer'.is = "writing"
          /\ main'.number \in 1 .. Len(Sizes) /\ main'.at = "delay"
        BY <1>1, <2>1 DEF Loop!submit
    <2>3. Writes'
        BY <2>2, TheSizes DEF Writes, SZ
    <2> QED
        BY <2>1, <2>2, <2>3
<1>2. CASE Loop!read_begins
    BY <1>2 DEF Loop!read_begins, Writes, SZ
<1>3. CASE Loop!Push
    <2>1. PICK last \in BOOLEAN :
             fifo' = Append(fifo, Loop!Beat(main.number, writer.sent + 1, last))
        BY <1>3 DEF Loop!Push
    <2>2. Loop!Beat(main.number, writer.sent + 1, last) \in Beats
        BY ABeat, TheSizes
    <2>3. fifo' \in Seq(Beats) /\ Len(fifo') <= Depth
        BY <1>3, <2>1, <2>2, Pushed, TheSizes DEF Loop!Push
    <2>4. /\ writer' = [writer EXCEPT !.sent = writer.sent + 1]
          /\ writer.sent + 1 <= SZ /\ writer.is = "writing" /\ main' = main
        BY <1>3 DEF Loop!Push, SZ
    <2>5. writer' \in WriterType /\ main' \in MainType /\ AtRest'
        BY <2>4
    <2>6. Writes'
        BY <2>4 DEF Writes, SZ
    <2> QED
        BY <2>3, <2>5, <2>6
<1>4. CASE Loop!write_returns
    BY <1>4 DEF Loop!write_returns, Writes, SZ
<1>5. CASE Loop!Pull
    <2>1. /\ fifo' \in Seq(Beats) /\ Len(fifo') <= Depth
          /\ Head(fifo) \in Beats
        BY <1>5, Pulled, TheSizes DEF Loop!Pull
    <2>2. Append(main.got, <<Head(fifo).packet, Head(fifo).place>>)
            \in Seq(Nat \X Nat)
        BY <2>1 DEF Beats
    <2>3. PICK at \in {"await", "reading"} :
             main' = [main EXCEPT !.got = Append(main.got,
                            <<Head(fifo).packet, Head(fifo).place>>),
                                  !.at = at]
        BY <1>5 DEF Loop!Pull
    <2>4. main' \in MainType
        BY <2>2, <2>3
    <2>5. /\ main.at = "reading" /\ main'.number = main.number
          /\ writer' = writer /\ main'.at \in Mid
        BY <1>5, <2>3 DEF Loop!Pull
    <2> QED
        BY <2>1, <2>4, <2>5 DEF Writes, SZ
<1>6. CASE Loop!write_times_out
    BY <1>6 DEF Loop!write_times_out, Writes, SZ
<1>7. CASE Loop!read_times_out
    BY <1>7 DEF Loop!read_times_out, Writes, SZ
<1>8. CASE Loop!await
    <2>1. \/ main' = [main EXCEPT !.at = "leaving"]
          \/ main' = [main EXCEPT !.at = "passed"]
          \/ /\ main' = [main EXCEPT !.at = "submit", !.number = @ + 1]
             /\ main.number < Len(Sizes)
        BY <1>8 DEF Loop!await
    <2>2. main' \in MainType /\ main'.at \notin Mid
        <3>1. CASE main' = [main EXCEPT !.at = "leaving"]
            BY <3>1
        <3>2. CASE main' = [main EXCEPT !.at = "passed"]
            BY <3>2
        <3>3. CASE /\ main' = [main EXCEPT !.at = "submit", !.number = @ + 1]
                   /\ main.number < Len(Sizes)
            <4>1. PICK m \in 1 .. Len(Sizes) : m = main.number + 1
                BY <3>3, TheSizes
            <4>2. main' = [main EXCEPT !.at = "submit", !.number = m]
                BY <3>3, <4>1
            <4> QED
                BY <4>2
        <3> QED
            BY <2>1, <3>1, <3>2, <3>3
    <2> QED
        BY <1>8, <2>2 DEF Loop!await, Writes
<1>9. CASE Loop!leave
    BY <1>9 DEF Loop!leave, Writes, SZ
<1>10. CASE Loop!kill
    BY <1>10 DEF Loop!kill, Loop!NoWriter, Writes, SZ
<1>11. CASE Loop!rerun
    <2>1. PICK empty \in BOOLEAN : main' = Loop!Main(main.run + 1, empty)
        BY <1>11 DEF Loop!rerun
    <2> QED
        BY <1>11, <2>1, TheSizes DEF Loop!rerun, Loop!Main, Loop!NoWriter, Writes
<1>12. CASE Loop!Fault
    <2>1. /\ main' \in MainType /\ main'.number = main.number
          /\ writer' = writer
          /\ main'.at = main.at \/ main'.at = "leaving"
        BY <1>12, FaultIs
    <2>2. fifo' \in Seq(Beats) /\ Len(fifo') <= Depth
        <3>1. CASE fifo' = fifo
            BY <3>1
        <3>2. ASSUME NEW i \in 1 .. Len(fifo), fifo' = Loop!Without(fifo, i)
              PROVE  fifo' \in Seq(Beats) /\ Len(fifo') <= Depth
            BY <3>2, Lost, TheSizes
        <3>3. ASSUME NEW i \in 1 .. Len(fifo), NEW x \in Beats,
                     fifo' = [fifo EXCEPT ![i] = x]
              PROVE  fifo' \in Seq(Beats) /\ Len(fifo') <= Depth
            BY <3>3, ExceptSeq
        <3> HIDE DEF StreamTypes
        <3> QED
            BY <1>12, <3>1, <3>2, <3>3, FaultIs, Zenon
    <2> QED
        BY <2>1, <2>2 DEF Writes, SZ
<1>13. CASE UNCHANGED strmvars
    BY <1>13 DEF strmvars, Writes, SZ
<1> QED
    BY <1>1, <1>2, <1>3, <1>4, <1>5, <1>6, <1>7, <1>8, <1>9, <1>10, <1>11,
       <1>12, <1>13 DEF Loop!StreamNext

-----------------------------------------------------------------------------
LEMMA Flat ==
    ASSUME StreamTypes
    PROVE  /\ fifo \in Seq(Beats) /\ Len(fifo) \in 0 .. Depth
           /\ main.got \in Seq(Nat \X Nat) /\ Len(main.got) \in Nat
           /\ writer.sent \in Nat /\ main.number \in 1 .. Len(Sizes)
           /\ SZ \in Nat \ {0} /\ SZ < Capacity
           /\ \A q \in 1 .. Len(main.got) : main.got[q][2] \in Nat
           /\ \A k \in 1 .. Len(fifo) :
                 fifo[k].place \in Nat /\ fifo[k].last \in BOOLEAN
<1>1. /\ main.got \in Seq(Nat \X Nat) /\ Len(main.got) \in Nat
      /\ writer.sent \in Nat /\ main.number \in 1 .. Len(Sizes)
      /\ fifo \in Seq(Beats) /\ Len(fifo) \in 0 .. Depth
    BY TheSizes DEF StreamTypes, MainType, WriterType
<1>2. \A q \in 1 .. Len(main.got) : main.got[q] \in Nat \X Nat
    BY <1>1, ElementOfSeq
<1>3. \A k \in 1 .. Len(fifo) : fifo[k] \in Beats
    BY <1>1, ElementOfSeq
<1> QED
    BY <1>1, <1>2, <1>3, TheSizes DEF SZ, Beats

LEMMA PushIs ==
    ASSUME StreamTypes, Loop!Push
    PROVE  /\ \E x \in Beats :
                 /\ fifo' = Append(fifo, x)
                 /\ x = Loop!Beat(main.number, writer.sent + 1, writer.sent + 1 = SZ)
           /\ main' = main /\ writer'.sent = writer.sent + 1
           /\ writer.sent < SZ
           /\ writer'.is = "writing" /\ main.at \notin {"submit", "passed"}
<1>1. fifo' = Append(fifo, Loop!Beat(main.number, writer.sent + 1,
                                    writer.sent + 1 = SZ))
    BY Zenon DEF Loop!Push, SZ
<1>2. PICK last \in BOOLEAN : last = (writer.sent + 1 = SZ)
    OBVIOUS
<1>3. Loop!Beat(main.number, writer.sent + 1, last) \in Beats
    BY ABeat, Flat
<1>4. /\ main' = main /\ writer'.sent = writer.sent + 1
      /\ writer'.is = "writing" /\ main.at \notin {"submit", "passed"}
    BY DEF Loop!Push, StreamTypes, WriterType, AtRest
<1>5. writer.sent < SZ
    BY Flat DEF Loop!Push, SZ
<1> QED
    BY <1>1, <1>2, <1>3, <1>4, <1>5, Zenon

LEMMA PullIs ==
    ASSUME StreamTypes, Loop!Pull
    PROVE  /\ fifo # <<>> /\ fifo' = Tail(fifo) /\ writer' = writer
           /\ main'.got =
                 Append(main.got, <<Head(fifo).packet, Head(fifo).place>>)
           /\ main.at = "reading" /\ main'.number = main.number
           /\ main'.empty = main.empty /\ main'.upset = main.upset
           /\ main'.at = IF Head(fifo).last \/ Len(main'.got) = Capacity
                         THEN "await" ELSE "reading"
<1>1. PICK got : got = Append(main.got, <<Head(fifo).packet, Head(fifo).place>>)
    OBVIOUS
<1>2. PICK at : at = IF Head(fifo).last \/ Len(got) = Capacity
                     THEN "await" ELSE "reading"
    OBVIOUS
<1>3. main' = [main EXCEPT !.got = got, !.at = at]
    BY <1>1, <1>2, Zenon DEF Loop!Pull, Loop!Whole
<1>4. main \in MainType
    BY DEF StreamTypes
<1>5. /\ main'.got = got /\ main'.at = at /\ main'.number = main.number
      /\ main'.empty = main.empty /\ main'.upset = main.upset
    BY <1>3, <1>4 DEF MainType
<1>6. /\ fifo # <<>> /\ fifo' = Tail(fifo) /\ writer' = writer
      /\ main.at = "reading"
    BY DEF Loop!Pull
<1> QED
    BY <1>1, <1>2, <1>5, <1>6, Zenon

(* A packet that is accepted, whole and right.                             *)
LEMMA AwaitIs ==
    ASSUME StreamTypes, Loop!await
    PROVE  /\ main.at = "await" /\ fifo' = fifo /\ writer' = writer
           /\ main'.empty = main.empty /\ main'.upset = main.upset
           /\ \/ /\ main'.at = "leaving"
                 /\ \/ writer.is = "raised" \/ Len(fifo) = Depth
                    \/ main.got # Loop!Packet(main.number)
              \/ /\ main.got = Loop!Packet(main.number)
                 /\ writer.sent = SZ
                 /\ \/ main'.at = "submit" /\ main'.number = main.number + 1
                    \/ /\ main'.at = "passed" /\ main'.number = main.number
                       /\ main.number = Len(Sizes)
<1>1. /\ main \in MainType
      /\ main.at = "await" /\ writer.is = "done" => writer.sent = SZ
    BY DEF StreamTypes, Writes, Mid
<1>2. main.at = "await" /\ fifo' = fifo /\ writer' = writer
    BY DEF Loop!await
<1>3. CASE /\ main' = [main EXCEPT !.at = "leaving"]
           /\ \/ writer.is = "raised" \/ Len(fifo) = Depth
              \/ main.got # Loop!Packet(main.number)
    BY <1>1, <1>2, <1>3 DEF MainType
<1>4. CASE /\ main.got = Loop!Packet(main.number) /\ writer.is = "done"
           /\ main' = [main EXCEPT !.at = "submit", !.number = @ + 1]
    BY <1>1, <1>2, <1>4 DEF MainType
<1>5. CASE /\ main.got = Loop!Packet(main.number) /\ writer.is = "done"
           /\ main' = [main EXCEPT !.at = "passed"]
           /\ ~(main.number < Len(Sizes))
    BY <1>1, <1>2, <1>5, TheSizes DEF MainType
<1> QED
    BY <1>3, <1>4, <1>5, Zenon DEF Loop!await, Loop!Came_back

LEMMA WholePacket ==
    ASSUME NEW got \in Seq(Nat \X Nat), NEW n, Sizes[n] \in Nat,
           got = Loop!Packet(n)
    PROVE  /\ Len(got) = Sizes[n]
           /\ \A q \in 1 .. Len(got) : got[q] = <<n, q>>
<1>1. /\ DOMAIN got = 1 .. Sizes[n] /\ DOMAIN got = 1 .. Len(got)
      /\ Len(got) \in Nat
    BY LenProperties DEF Loop!Packet
<1>2. Len(got) = Sizes[n]
    BY <1>1
<1> QED
    BY <1>2 DEF Loop!Packet

-----------------------------------------------------------------------------
LEMMA LagPushed ==
    ASSUME NEW got \in Seq(Nat \X Nat), NEW s \in Seq(Beats), NEW sent \in Nat,
           NEW x \in Beats, x.place = sent + 1, NEW e \in Nat, NEW d \in 0 .. 1,
           Lag(got, s, sent, e, d)
    PROVE  Lag(got, Append(s, x), sent + 1, e, d)
<1>1. /\ Len(Append(s, x)) = Len(s) + 1 /\ Len(s) \in Nat /\ Len(got) \in Nat
      /\ Append(s, x)[Len(s) + 1] = x
      /\ \A i \in 1 .. Len(s) : Append(s, x)[i] = s[i]
    BY Pushed
<1>2. ASSUME NEW k \in 1 .. Len(s) + 1, Len(got) + k > e
      PROVE  Append(s, x)[k].place <= Len(got) + k - e + d
    <2>1. CASE k \in 1 .. Len(s)
        BY <1>1, <1>2, <2>1 DEF Lag
    <2>2. CASE k = Len(s) + 1
        BY <1>1, <2>2 DEF Lag
    <2> QED
        BY <1>1, <2>1, <2>2
<1> QED
    BY <1>1, <1>2, SMTT(30) DEF Lag

LEMMA LagPulled ==
    ASSUME NEW got \in Seq(Nat \X Nat), NEW s \in Seq(Beats), NEW sent \in Nat,
           s # <<>>, NEW e \in Nat, NEW d \in 0 .. 1, Lag(got, s, sent, e, d)
    PROVE  Lag(Append(got, <<Head(s).packet, Head(s).place>>), Tail(s), sent,
               e, d)
<1> DEFINE x == <<Head(s).packet, Head(s).place>>
<1>1. /\ Len(Tail(s)) = Len(s) - 1 /\ Len(s) \in Nat \ {0}
      /\ \A i \in 1 .. Len(s) - 1 : Tail(s)[i] = s[i + 1]
      /\ Head(s) = s[1] /\ Head(s) \in Beats
    BY Pulled
<1>2. x \in Nat \X Nat /\ x[2] = s[1].place
    BY <1>1 DEF Beats
<1> HIDE DEF x
<1>3. /\ Len(Append(got, x)) = Len(got) + 1 /\ Len(got) \in Nat
      /\ Append(got, x)[Len(got) + 1] = x
      /\ \A i \in 1 .. Len(got) : Append(got, x)[i] = got[i]
    BY <1>2, Pushed
<1>4. ASSUME NEW q \in 1 .. Len(got) + 1, q > e
      PROVE  Append(got, x)[q][2] <= q - e + d
    <2>1. CASE q \in 1 .. Len(got)
        BY <1>3, <1>4, <2>1 DEF Lag
    <2>2. CASE q = Len(got) + 1
        BY <1>1, <1>2, <1>3, <1>4, <2>2 DEF Lag
    <2> QED
        BY <1>3, <2>1, <2>2
<1>5. ASSUME NEW k \in 1 .. Len(s) - 1, Len(got) + 1 + k > e
      PROVE  Tail(s)[k].place <= Len(got) + 1 + k - e + d
    BY <1>1, <1>3, <1>5 DEF Lag
<1> QED
    BY <1>1, <1>3, <1>4, <1>5 DEF Lag, x

LEMMA LagSpoilt ==
    ASSUME NEW got \in Seq(Nat \X Nat), NEW s \in Seq(Beats), NEW sent \in Nat,
           NEW i \in 1 .. Len(s), NEW x \in Beats, Spoilt(x, s[i]),
           NEW e \in Nat, NEW d \in 0 .. 1, Lag(got, s, sent, e, d)
    PROVE  Lag(got, [s EXCEPT ![i] = x], sent, e, d)
<1> DEFINE r == [s EXCEPT ![i] = x]
<1>1. /\ Len(r) = Len(s) /\ Len(s) \in Nat /\ Len(got) \in Nat
      /\ \A j \in 1 .. Len(s) : r[j] = IF j = i THEN x ELSE s[j]
    BY ExceptSeq
<1>2. x.place = 0 \/ x.place = s[i].place
    BY DEF Spoilt
<1> HIDE DEF r
<1>3. ASSUME NEW k \in 1 .. Len(s), Len(got) + k > e
      PROVE  r[k].place <= Len(got) + k - e + d
    <2>1. CASE k = i /\ x.place = 0
        BY <1>1, <1>3, <2>1
    <2>2. CASE k = i /\ x.place = s[i].place
        BY <1>1, <1>3, <2>2 DEF Lag
    <2>3. CASE k # i
        BY <1>1, <1>3, <2>3 DEF Lag
    <2> QED
        BY <1>2, <2>1, <2>2, <2>3
<1> QED
    BY <1>1, <1>3 DEF Lag, r

LEMMA LagLost ==
    ASSUME NEW got \in Seq(Nat \X Nat), NEW s \in Seq(Beats), NEW sent \in Nat,
           NEW i \in 1 .. Len(s), NEW e \in Nat, Lag(got, s, sent, e, 0)
    PROVE  Lag(got, Loop!Without(s, i), sent, e, 1)
<1> DEFINE r == Loop!Without(s, i)
<1>1. /\ Len(r) = Len(s) - 1 /\ Len(s) \in Nat /\ Len(got) \in Nat
      /\ \A j \in 1 .. Len(s) - 1 : r[j] = IF j < i THEN s[j] ELSE s[j + 1]
    BY Lost
<1>2. ASSUME NEW k \in 1 .. Len(s) PROVE s[k].place \in Nat
    <2>1. s[k] \in Beats
        BY ElementOfSeq
    <2> QED
        BY <2>1 DEF Beats
<1>3. ASSUME NEW q \in 1 .. Len(got) PROVE got[q][2] \in Nat
    <2>1. got[q] \in Nat \X Nat
        BY ElementOfSeq
    <2> QED
        BY <2>1
<1> HIDE DEF r
<1>4. ASSUME NEW q \in 1 .. Len(got), q > e PROVE got[q][2] <= q - e + 1
    <2>1. got[q][2] <= q - e + 0
        BY <1>4, Zenon DEF Lag
    <2> QED
        BY <1>1, <1>3, <2>1, SMTT(30)
<1>5. ASSUME NEW k \in 1 .. Len(s) - 1, Len(got) + k > e
      PROVE  r[k].place <= Len(got) + k - e + 1
    <2>1. CASE k < i /\ r[k] = s[k]
        <3>1. s[k].place <= Len(got) + k - e + 0
            BY <1>1, <1>5 DEF Lag
        <3> QED
            BY <1>1, <1>2, <1>5, <2>1, <3>1
    <2>2. CASE k >= i /\ r[k] = s[k + 1]
        <3>1. k + 1 \in 1 .. Len(s) /\ Len(got) + (k + 1) > e
            BY <1>1, <1>5
        <3>2. s[k + 1].place <= Len(got) + (k + 1) - e + 0
            BY <3>1, Zenon DEF Lag
        <3>3. s[k + 1].place \in Nat
            BY <1>2, <3>1, Zenon
        <3> QED
            BY <1>1, <1>5, <2>2, <3>2, <3>3
    <2> QED
        BY <1>1, <2>1, <2>2
<1> QED
    BY <1>1, <1>4, <1>5 DEF Lag, r

(* A packet that came back right after all of it was sent left nothing     *)
(* behind, if what was there before it could not be a packet of its size.  *)
LEMMA LagWhole ==
    ASSUME NEW got \in Seq(Nat \X Nat), NEW s \in Seq(Beats), NEW sent \in Nat,
           NEW e \in Nat, NEW d \in 0 .. 1, Lag(got, s, sent, e, d),
           NEW n, Len(got) = sent, e < sent, sent # 0,
           \A q \in 1 .. Len(got) : got[q] = <<n, q>>
    PROVE  s = <<>>
<1>1. Len(s) \in Nat /\ (Len(s) = 0 => s = <<>>)
    OBVIOUS
<1>2. e + 1 \in 1 .. Len(got) /\ got[e + 1] = <<n, e + 1>>
    <2>1. e + 1 \in 1 .. Len(got)
        OBVIOUS
    <2> QED
        BY <2>1
<1>3. got[e + 1][2] <= (e + 1) - e + d /\ got[e + 1][2] = e + 1
    BY <1>2 DEF Lag
<1>4. e <= d
    BY <1>3
<1>5. Len(s) + d = e
    BY <1>1 DEF Lag
<1> QED
    BY <1>1, <1>4, <1>5

LEMMA LagKept ==
    ASSUME StreamTypes, LagInv, [Loop!StreamNext]_strmvars PROVE LagInv'
<1>1. CASE Loop!submit
    <2>1. /\ main'.at = "delay" /\ fifo' = fifo /\ Fresh' = Fresh
          /\ main.at = "submit"
        BY <1>1 DEF Loop!submit, StreamTypes, MainType, Fresh
    <2>2. main'.got = <<>> /\ writer'.sent = 0
        BY <1>1 DEF Loop!submit, StreamTypes, MainType
    <2>3. PICK e \in 0 .. Depth : e = Len(fifo)
        BY Flat
    <2>4. Lag(<<>>, fifo, 0, e, 0)
        BY <2>3, Flat, TheSizes DEF Lag
    <2>5. Fresh' => e = 0
        BY <2>1, <2>3 DEF LagInv
    <2> QED
        BY <2>1, <2>2, <2>4, <2>5 DEF LagInv
<1>2. CASE /\ main'.got = main.got /\ writer'.sent = writer.sent /\ fifo' = fifo
           /\ main'.upset = main.upset /\ main'.at # "submit"
           /\ Fresh' = Fresh
           /\ main'.at \in Mid => main.at \in Mid
           /\ main'.at = "passed" => main.at = "passed"
    BY <1>2 DEF LagInv
<1>3. CASE main'.at \notin Mid \cup {"submit", "passed"}
    BY <1>3 DEF LagInv
<1>4. ASSUME main.at \in Mid, main'.at \in Mid,
             Fresh' = Fresh, main.upset => main'.upset,
             NEW e \in 0 .. Depth, NEW d \in 0 .. 1,
             Lag(main'.got, fifo', writer'.sent, e, d),
             d = 1 => main'.upset, Fresh => e = 0
      PROVE  LagInv'
    BY <1>4 DEF LagInv, Mid
<1>5. ASSUME main.at \in Mid
      PROVE  \E e \in 0 .. Depth, d \in 0 .. 1 :
                /\ Lag(main.got, fifo, writer.sent, e, d)
                /\ d = 1 => main.upset
                /\ Fresh => e = 0
    BY <1>5 DEF LagInv
<1>15. \A e \in 0 .. Depth : e \in Nat
    BY TheSizes
<1>6. CASE Loop!Push
    <2>1. CASE main.at \in Mid
        <3>1. PICK e \in 0 .. Depth, d \in 0 .. 1 :
                 /\ Lag(main.got, fifo, writer.sent, e, d)
                 /\ d = 1 => main.upset
                 /\ Fresh => e = 0
            BY <1>5, <2>1
        <3>2. Lag(main'.got, fifo', writer'.sent, e, d)
            <4>1. PICK x \in Beats :
                     /\ fifo' = Append(fifo, x) /\ main' = main
                     /\ writer'.sent = writer.sent + 1
                     /\ x = Loop!Beat(main.number, writer.sent + 1,
                                 writer.sent + 1 = SZ)
                BY <1>6, PushIs, Zenon
            <4>2. x.place = writer.sent + 1
                BY <4>1, Zenon DEF Loop!Beat
            <4>3. Lag(main.got, Append(fifo, x), writer.sent + 1, e, d)
                BY <1>15, <3>1, <4>2, LagPushed, Flat, Zenon
            <4> QED
                BY <4>1, <4>3, Zenon
        <3> QED
            BY <1>4, <1>6, <2>1, <3>1, <3>2, PushIs DEF Fresh
    <2> QED
        BY <1>3, <1>6, <2>1, PushIs
<1>7. CASE Loop!Pull
    <2>1. main.at \in Mid /\ main'.at \in Mid /\ Fresh' = Fresh
        BY <1>7, PullIs DEF Mid, Fresh
    <2>2. PICK e \in 0 .. Depth, d \in 0 .. 1 :
             /\ Lag(main.got, fifo, writer.sent, e, d)
             /\ d = 1 => main.upset
             /\ Fresh => e = 0
        BY <1>5, <2>1
    <2>3. Lag(main'.got, fifo', writer'.sent, e, d)
        <3>1. Lag(Append(main.got, <<Head(fifo).packet, Head(fifo).place>>),
                  Tail(fifo), writer.sent, e, d)
            BY <1>7, <1>15, <2>2, LagPulled, PullIs, Flat, Zenon
        <3> QED
            BY <1>7, <3>1, PullIs, Zenon
    <2> QED
        BY <1>4, <1>7, <2>1, <2>2, <2>3, PullIs
<1>8. CASE Loop!Fault
    <2>1. CASE main'.at = "leaving"
        BY <1>3, <2>1 DEF Mid
    <2>2. CASE main'.at = main.at /\ main.at \in Mid
        <3>1. PICK e \in 0 .. Depth, d \in 0 .. 1 :
                 /\ Lag(main.got, fifo, writer.sent, e, d)
                 /\ d = 1 => main.upset
                 /\ Fresh => e = 0
            BY <1>5, <2>2
        <3>2. d = 0
            BY <1>8, <3>1, FaultIs
        <3>6. /\ main'.upset /\ main'.got = main.got /\ writer' = writer
              /\ Fresh' = Fresh
            BY <1>8, FaultIs, Zenon DEF Fresh
        <3>3. PICK i \in 1 .. Len(fifo) :
                 \/ fifo' = Loop!Without(fifo, i)
                 \/ \E x \in Beats : /\ fifo' = [fifo EXCEPT ![i] = x]
                                      /\ Spoilt(x, fifo[i])
            BY <1>8, <2>2, FaultIs DEF Mid
        <3>4. CASE fifo' = Loop!Without(fifo, i)
            <4>1. Lag(main.got, fifo', writer.sent, e, 1)
                BY <1>15, <3>1, <3>2, <3>4, LagLost, Flat, Zenon
            <4>2. 1 \in 0 .. 1
                OBVIOUS
            <4> QED
                BY <1>4, <2>2, <3>1, <3>6, <4>1, <4>2, Zenon
        <3>5. CASE \E x \in Beats : /\ fifo' = [fifo EXCEPT ![i] = x]
                                    /\ Spoilt(x, fifo[i])
            <4>1. Lag(main.got, fifo', writer.sent, e, d)
                <5>1. PICK x \in Beats : /\ fifo' = [fifo EXCEPT ![i] = x]
                                        /\ Spoilt(x, fifo[i])
                    BY <3>5
                <5>2. Lag(main.got, [fifo EXCEPT ![i] = x], writer.sent, e, d)
                    BY <1>15, <3>1, <5>1, LagSpoilt, Flat, Zenon
                <5> QED
                    BY <5>1, <5>2, Zenon
            <4> QED
                BY <1>4, <2>2, <3>1, <3>6, <4>1, Zenon
        <3> QED
            BY <3>3, <3>4, <3>5
    <2>3. CASE main'.at = "submit" /\ main.at = "submit"
        BY <1>8, <2>3, FaultIs, Flat DEF LagInv, Fresh, Mid
    <2> QED
        BY <1>3, <1>8, <2>1, <2>2, <2>3, FaultIs DEF Mid
<1>9. CASE Loop!await
    <2>1. CASE main'.at = "leaving"
        BY <1>3, <2>1 DEF Mid
    <2>2. CASE /\ main.got = Loop!Packet(main.number) /\ writer.sent = SZ
               /\ \/ main'.at = "submit" /\ main'.number = main.number + 1
                  \/ /\ main'.at = "passed" /\ main'.number = main.number
                     /\ main.number = Len(Sizes)
        <3>1. PICK e \in 0 .. Depth, d \in 0 .. 1 :
                 /\ Lag(main.got, fifo, writer.sent, e, d)
                 /\ d = 1 => main.upset
                 /\ Fresh => e = 0
            BY <1>5, <1>9, AwaitIs DEF Mid
        <3>2. CASE e < SZ
            <4>1. /\ Len(main.got) = SZ
                  /\ \A q \in 1 .. Len(main.got) :
                        main.got[q] = <<main.number, q>>
                <5>1. main.got \in Seq(Nat \X Nat) /\ Sizes[main.number] \in Nat
                    BY Flat DEF SZ
                <5> QED
                    BY <2>2, <5>1, WholePacket, Zenon DEF SZ
            <4>2. fifo = <<>>
                <5>1. e < writer.sent /\ writer.sent # 0 /\ writer.sent \in Nat
                    BY <2>2, <3>2, Flat
                <5>2. Len(main.got) = writer.sent
                    BY <2>2, <4>1, Zenon
                <5> QED
                    BY <1>15, <3>1, <4>1, <5>1, <5>2, LagWhole, Flat, Zenon
            <4> QED
                BY <1>9, <2>2, <4>2, AwaitIs DEF LagInv, Mid
        <3>3. CASE SZ <= e
            <4>1. ~Fresh /\ main.number # Long
                BY <3>1, <3>3, Flat, TheSizes DEF SZ
            <4>2. main.number < Long /\ ~main.empty
                BY <4>1, Flat, TheSizes DEF Fresh
            <4>3. main'.at = "submit" /\ ~Fresh'
                BY <1>9, <2>2, <4>2, AwaitIs, Flat, TheSizes DEF Fresh
            <4> QED
                BY <4>3 DEF LagInv, Mid
        <3> QED
            BY <3>1, <3>2, <3>3, Flat, TheSizes
    <2> QED
        BY <1>9, <2>1, <2>2, AwaitIs
<1>10. CASE Loop!rerun
    <2>1. /\ main'.at = "submit" /\ main'.number = 1 /\ fifo' = fifo
          /\ main'.empty = (fifo = <<>>)
        BY <1>10, Zenon DEF Loop!rerun, Loop!Main
    <2>2. ~(main'.number > Long)
        BY <2>1, TheSizes
    <2>3. Fresh' => fifo' = <<>>
        BY <2>1, <2>2, Zenon DEF Fresh
    <2> QED
        BY <2>1, <2>3 DEF LagInv, Mid
<1>11. CASE \/ Loop!read_begins \/ Loop!write_returns \/ Loop!write_times_out
            \/ UNCHANGED strmvars
    <2>1. main \in MainType /\ writer \in WriterType
        BY DEF StreamTypes
    <2>2. CASE Loop!read_begins
        BY <1>2, <2>1, <2>2 DEF Loop!read_begins, MainType, Mid, Fresh
    <2>3. CASE Loop!write_returns
        BY <1>2, <2>1, <2>3 DEF Loop!write_returns, WriterType, LagInv, Fresh
    <2>4. CASE Loop!write_times_out
        BY <1>2, <2>1, <2>4 DEF Loop!write_times_out, WriterType, LagInv, Fresh
    <2>5. CASE UNCHANGED strmvars
        BY <2>5 DEF strmvars, LagInv, Fresh
    <2> QED
        BY <1>11, <2>2, <2>3, <2>4, <2>5
<1>12. CASE Loop!read_times_out \/ Loop!leave \/ Loop!kill
    BY <1>3, <1>12
    DEF Loop!read_times_out, Loop!leave, Loop!kill, StreamTypes, MainType, Mid
<1> QED
    BY <1>1, <1>6, <1>7, <1>8, <1>9, <1>10, <1>11, <1>12 DEF Loop!StreamNext

-----------------------------------------------------------------------------
LEMMA RightPushed ==
    ASSUME NEW got \in Seq(Nat \X Nat), NEW s \in Seq(Beats), NEW n \in Nat,
           NEW size \in Nat, NEW sent \in Nat, NEW x \in Beats,
           x = Loop!Beat(n, sent + 1, sent + 1 = size), Right(got, s, n, size, sent)
    PROVE  Right(got, Append(s, x), n, size, sent + 1)
<1>1. /\ Len(Append(s, x)) = Len(s) + 1 /\ Len(s) \in Nat /\ Len(got) \in Nat
      /\ Append(s, x)[Len(s) + 1] = x
      /\ \A i \in 1 .. Len(s) : Append(s, x)[i] = s[i]
    BY Pushed
<1>2. Len(got) + (Len(s) + 1) = sent + 1
    <2>1. Len(got) + Len(s) = sent
        BY Zenon DEF Right
    <2>2. Len(got) \in Nat /\ Len(s) \in Nat
        OBVIOUS
    <2> QED
        BY <2>1, <2>2
<1>3. /\ x.packet = n /\ x.place = Len(got) + (Len(s) + 1)
      /\ x.last = (Len(got) + (Len(s) + 1) = size)
    BY <1>2, Zenon DEF Loop!Beat
<1>4. ASSUME NEW k \in 1 .. Len(s) + 1
      PROVE  /\ Append(s, x)[k].packet = n /\ Append(s, x)[k].place = Len(got) + k
             /\ Append(s, x)[k].last = (Len(got) + k = size)
    <2>1. CASE k \in 1 .. Len(s)
        BY <1>1, <2>1, Zenon DEF Right
    <2>2. CASE k = Len(s) + 1
        BY <1>1, <1>3, <2>2, Zenon
    <2> QED
        BY <1>1, <2>1, <2>2
<1> QED
    BY <1>1, <1>2, <1>4, Zenon DEF Right

LEMMA WrongPushed ==
    ASSUME NEW got \in Seq(Nat \X Nat), NEW s \in Seq(Beats), NEW n, NEW size,
           NEW sent \in Nat, NEW x \in Beats, Wrong(got, s, n, size, sent)
    PROVE  Wrong(got, Append(s, x), n, size, sent + 1)
<1>1. /\ Len(Append(s, x)) = Len(s) + 1 /\ Len(s) \in Nat /\ Len(got) \in Nat
      /\ \A i \in 1 .. Len(s) : Append(s, x)[i] = s[i]
    BY Pushed
<1>2. \A k \in 1 .. Len(s) : k \in 1 .. Len(Append(s, x))
    BY <1>1
<1>3. Misplaced(got, s, n) => Misplaced(got, Append(s, x), n)
    BY <1>1, <1>2, Zenon DEF Misplaced
<1>4. Mismarked(got, s, size) => Mismarked(got, Append(s, x), size)
    BY <1>1, <1>2, Zenon DEF Mismarked
<1>5. Len(got) + Len(s) < sent => Len(got) + Len(Append(s, x)) < sent + 1
    BY <1>1
<1> QED
    BY <1>3, <1>4, <1>5, Zenon DEF Wrong

LEMMA PulledBoth ==
    ASSUME NEW got \in Seq(Nat \X Nat), NEW s \in Seq(Beats), s # <<>>,
           NEW g, g = Append(got, <<Head(s).packet, Head(s).place>>)
    PROVE  /\ Len(got) \in Nat /\ Len(s) \in Nat \ {0}
           /\ Len(g) = Len(got) + 1 /\ Len(Tail(s)) = Len(s) - 1
           /\ Head(s) = s[1] /\ s[1] \in Beats
           /\ g[Len(got) + 1] = <<s[1].packet, s[1].place>>
           /\ \A q \in 1 .. Len(got) : g[q] = got[q]
           /\ \A k \in 1 .. Len(s) - 1 : Tail(s)[k] = s[k + 1]
<1>1. /\ Len(Tail(s)) = Len(s) - 1 /\ Len(s) \in Nat \ {0}
      /\ \A i \in 1 .. Len(s) - 1 : Tail(s)[i] = s[i + 1]
      /\ Head(s) = s[1] /\ Head(s) \in Beats
    BY Pulled
<1>2. <<Head(s).packet, Head(s).place>> \in Nat \X Nat
    BY <1>1 DEF Beats
<1>3. /\ Len(g) = Len(got) + 1 /\ Len(got) \in Nat
      /\ g[Len(got) + 1] = <<Head(s).packet, Head(s).place>>
      /\ \A i \in 1 .. Len(got) : g[i] = got[i]
    BY <1>2, Pushed
<1> QED
    BY <1>1, <1>3

LEMMA RightPulled ==
    ASSUME NEW got \in Seq(Nat \X Nat), NEW s \in Seq(Beats), NEW n, NEW size,
           NEW sent, s # <<>>, Right(got, s, n, size, sent)
    PROVE  Right(Append(got, <<Head(s).packet, Head(s).place>>), Tail(s), n,
                 size, sent)
<1> DEFINE g == Append(got, <<Head(s).packet, Head(s).place>>)
<1>1. /\ Len(got) \in Nat /\ Len(s) \in Nat \ {0}
      /\ Len(g) = Len(got) + 1 /\ Len(Tail(s)) = Len(s) - 1
      /\ Head(s) = s[1] /\ g[Len(g)] = <<s[1].packet, s[1].place>>
      /\ \A q \in 1 .. Len(got) : g[q] = got[q]
      /\ \A k \in 1 .. Len(s) - 1 : Tail(s)[k] = s[k + 1]
    BY PulledBoth
<1> HIDE DEF g
<1>2. s[1].packet = n /\ s[1].place = Len(g) /\ s[1].last = (Len(g) = size)
    <2>1. 1 \in 1 .. Len(s)
        BY <1>1
    <2> QED
        BY <1>1, <2>1, Zenon DEF Right
<1>3. ASSUME NEW q \in 1 .. Len(g) PROVE g[q] = <<n, q>>
    <2>1. CASE q \in 1 .. Len(got)
        <3>1. got[q] = <<n, q>> /\ g[q] = got[q]
            BY <1>1, <2>1, Zenon DEF Right
        <3> QED
            BY <3>1
    <2>2. CASE q = Len(g)
        <3>1. g[Len(g)] = <<n, Len(g)>>
            BY <1>1, <1>2
        <3> QED
            BY <2>2, <3>1, Zenon
    <2> QED
        BY <1>1, <2>1, <2>2
<1>4. ASSUME NEW k \in 1 .. Len(Tail(s))
      PROVE  /\ Tail(s)[k].packet = n /\ Tail(s)[k].place = Len(g) + k
             /\ Tail(s)[k].last = (Len(g) + k = size)
    <2>1. /\ k \in 1 .. Len(s) - 1 /\ k + 1 \in 1 .. Len(s)
          /\ Len(got) + (k + 1) = Len(g) + k
        BY <1>1
    <2>2. Tail(s)[k] = s[k + 1]
        BY <1>1, <2>1
    <2>3. /\ s[k + 1].packet = n /\ s[k + 1].place = Len(got) + (k + 1)
          /\ s[k + 1].last = (Len(got) + (k + 1) = size)
        BY <2>1, Zenon DEF Right
    <2> QED
        BY <2>1, <2>2, <2>3, Zenon
<1>5. Len(g) + Len(Tail(s)) = sent
    <2>1. Len(got) + Len(s) = sent
        BY Zenon DEF Right
    <2> QED
        BY <1>1, <2>1
<1> QED
    BY <1>1, <1>2, <1>3, <1>4, <1>5, Zenon DEF Right, g

(* A wrong stream stays wrong, but for a mark that has just been read.     *)
LEMMA WrongPulled ==
    ASSUME NEW got \in Seq(Nat \X Nat), NEW s \in Seq(Beats), NEW n, NEW size,
           NEW sent, s # <<>>, Wrong(got, s, n, size, sent)
    PROVE  LET g == Append(got, <<Head(s).packet, Head(s).place>>)
           IN  \/ Wrong(g, Tail(s), n, size, sent)
               \/ Head(s).last # (Len(g) = size)
<1> DEFINE g == Append(got, <<Head(s).packet, Head(s).place>>)
<1>0. /\ Len(got) \in Nat /\ Len(s) \in Nat \ {0}
      /\ Len(g) = Len(got) + 1 /\ Len(Tail(s)) = Len(s) - 1
      /\ Head(s) = s[1] /\ g[Len(g)] = <<s[1].packet, s[1].place>>
      /\ \A q \in 1 .. Len(got) : g[q] = got[q]
      /\ \A k \in 1 .. Len(s) - 1 : Tail(s)[k] = s[k + 1]
    BY PulledBoth
<1> HIDE DEF g
<1>1. ASSUME NEW q \in 1 .. Len(got), got[q] # <<n, q>>
      PROVE  Misplaced(g, Tail(s), n)
    <2>1. q \in 1 .. Len(g) /\ g[q] = got[q]
        BY <1>0
    <2> QED
        BY <1>1, <2>1, Zenon DEF Misplaced
<1>2. ASSUME NEW k \in 1 .. Len(s), s[k].packet # n \/ s[k].place # Len(got) + k
      PROVE  Misplaced(g, Tail(s), n)
    <2>1. CASE k = 1
        <3>1. Len(g) \in 1 .. Len(g) /\ g[Len(g)] = <<s[1].packet, s[1].place>>
            BY <1>0
        <3>2. g[Len(g)] # <<n, Len(g)>>
            BY <1>2, <2>1, <3>1, <1>0
        <3> QED
            BY <3>1, <3>2, Zenon DEF Misplaced
    <2>2. CASE k # 1
        <3>1. PICK j \in 1 .. Len(Tail(s)) : k = j + 1
            BY <2>2, <1>0
        <3>2. Tail(s)[j] = s[k] /\ Len(got) + k = Len(g) + j
            BY <3>1, <1>0
        <3> QED
            BY <1>2, <3>1, <3>2, Zenon DEF Misplaced
    <2> QED
        BY <2>1, <2>2
<1>3. ASSUME NEW k \in 1 .. Len(s), s[k].last # (Len(got) + k = size)
      PROVE  Mismarked(g, Tail(s), size) \/ Head(s).last # (Len(g) = size)
    <2>1. CASE k = 1
        <3>1. Head(s) = s[k] /\ Len(g) = Len(got) + k
            BY <2>1, <1>0
        <3> QED
            BY <1>3, <3>1, Zenon
    <2>2. CASE k # 1
        <3>1. PICK j \in 1 .. Len(Tail(s)) : k = j + 1
            BY <2>2, <1>0
        <3>2. Tail(s)[j] = s[k] /\ Len(got) + k = Len(g) + j
            BY <3>1, <1>0
        <3> QED
            BY <1>3, <3>1, <3>2, Zenon DEF Mismarked
    <2> QED
        BY <2>1, <2>2
<1>4. Len(got) + Len(s) < sent => Len(g) + Len(Tail(s)) < sent
    <2>1. Len(g) + Len(Tail(s)) = Len(got) + Len(s)
        BY <1>0
    <2> QED
        BY <2>1, Zenon
<1> QED
    BY <1>1, <1>2, <1>3, <1>4, Zenon DEF Wrong, Misplaced, Mismarked, g

LEMMA RightLost ==
    ASSUME NEW got \in Seq(Nat \X Nat), NEW s \in Seq(Beats), NEW n, NEW size,
           NEW sent, NEW i \in 1 .. Len(s), Right(got, s, n, size, sent)
    PROVE  Wrong(got, Loop!Without(s, i), n, size, sent)
BY Lost DEF Right, Wrong

LEMMA RightSpoilt ==
    ASSUME NEW got \in Seq(Nat \X Nat), NEW s \in Seq(Beats), NEW n, NEW size,
           NEW sent, NEW i \in 1 .. Len(s), NEW x \in Beats, Spoilt(x, s[i]),
           Right(got, s, n, size, sent)
    PROVE  Wrong(got, [s EXCEPT ![i] = x], n, size, sent)
<1> DEFINE r == [s EXCEPT ![i] = x]
<1>1. i \in 1 .. Len(r) /\ r[i] = x /\ s[i] \in Beats
    BY ExceptSeq, ElementOfSeq
<1>2. s[i].place = Len(got) + i /\ s[i].last = (Len(got) + i = size)
    BY Zenon DEF Right
<1>3. x.place # Len(got) + i \/ x.last # (Len(got) + i = size)
    <2>1. CASE x.place = 0
        BY <1>1, <1>2, <2>1
    <2>2. CASE x.last = ~s[i].last
        BY <1>1, <1>2, <2>2, Zenon DEF Beats
    <2> QED
        BY <2>1, <2>2 DEF Spoilt
<1> HIDE DEF r
<1>4. Misplaced(got, r, n) \/ Mismarked(got, r, size)
    BY <1>1, <1>3, Zenon DEF Misplaced, Mismarked
<1> QED
    BY <1>4 DEF r, Wrong

(* The beats of a run that found the FIFO empty are all its own packet's.  *)
LEMMA OwnBeats ==
    ASSUME StreamTypes, LagInv, main.empty, main.at \in Mid
    PROVE  /\ Len(main.got) + Len(fifo) <= writer.sent
           /\ writer.sent <= SZ
<1>1. PICK d \in 0 .. 1 : Lag(main.got, fifo, writer.sent, 0, d)
    BY TheSizes DEF LagInv, Fresh
<1>2. PICK g \in Seq(Nat \X Nat) : g = main.got
    BY Flat
<1>3. PICK sent \in Nat : sent = writer.sent
    BY Flat
<1>4. Len(g) + Len(fifo) + d = 0 + sent
    BY <1>1, <1>2, <1>3, Zenon DEF Lag
<1>5. Len(g) + Len(fifo) <= sent
    BY <1>4, Flat
<1>6. writer.sent <= SZ
    BY DEF StreamTypes, Writes
<1> QED
    BY <1>2, <1>3, <1>5, <1>6, Zenon

LEMMA ShowsPush ==
    ASSUME StreamTypes, LagInv, FaultShows, Loop!Push PROVE FaultShows'
<1>1. PICK x \in Beats : /\ fifo' = Append(fifo, x)
                        /\ x = Loop!Beat(main.number, writer.sent + 1,
                                    writer.sent + 1 = SZ)
    BY PushIs, Zenon
<1>2. /\ main' = main /\ writer'.sent = writer.sent + 1 /\ SZ' = SZ
      /\ writer'.is = "writing" /\ writer.sent < SZ
    BY PushIs, Zenon DEF SZ
<1>3. /\ main.got \in Seq(Nat \X Nat) /\ fifo \in Seq(Beats)
      /\ writer.sent \in Nat /\ main.number \in Nat /\ SZ \in Nat
    BY Flat, TheSizes
<1>4. Clean => Clean'
    <2>1. ASSUME Right(main.got, fifo, main.number, SZ, writer.sent)
          PROVE  Right(main'.got, fifo', main'.number, SZ', writer'.sent)
        <3>1. Right(main.got, Append(fifo, x), main.number, SZ, writer.sent + 1)
            BY <1>1, <1>3, <2>1, RightPushed, Zenon
        <3> QED
            BY <1>1, <1>2, <3>1, Zenon
    <2>2. writer'.is # "raised"
        BY <1>2
    <2> QED
        BY <1>2, <2>1, <2>2, Zenon DEF Clean
<1>5. Doomed => Doomed'
    <2>1. ASSUME Wrong(main.got, fifo, main.number, SZ, writer.sent)
          PROVE  Wrong(main'.got, fifo', main'.number, SZ', writer'.sent)
        <3>1. Wrong(main.got, Append(fifo, x), main.number, SZ, writer.sent + 1)
            BY <1>1, <1>3, <2>1, WrongPushed, Zenon
        <3> QED
            BY <1>1, <1>2, <3>1, Zenon
    <2>2. writer.sent # SZ
        BY <1>2, <1>3
    <2> QED
        BY <1>2, <2>1, <2>2, Zenon DEF Doomed
<1> QED
    BY <1>2, <1>4, <1>5, Zenon DEF FaultShows

LEMMA ShowsPull ==
    ASSUME StreamTypes, LagInv, FaultShows, Loop!Pull PROVE FaultShows'
<1>0. PICK g : g = main'.got
    OBVIOUS
<1>1. /\ fifo # <<>> /\ fifo' = Tail(fifo) /\ writer' = writer /\ SZ' = SZ
      /\ g = Append(main.got, <<Head(fifo).packet, Head(fifo).place>>)
      /\ main.at = "reading" /\ main'.number = main.number
      /\ main'.empty = main.empty /\ main'.upset = main.upset
      /\ main'.at = IF Head(fifo).last \/ Len(g) = Capacity
                    THEN "await" ELSE "reading"
    BY <1>0, PullIs, Zenon DEF SZ
<1>2. /\ main.got \in Seq(Nat \X Nat) /\ fifo \in Seq(Beats)
      /\ writer.sent \in Nat /\ main.number \in Nat /\ SZ \in Nat
      /\ SZ < Capacity /\ Capacity \in Nat
    BY Flat, TheSizes
<1>3. /\ Len(g) = Len(main.got) + 1 /\ Len(fifo') = Len(fifo) - 1
      /\ Len(main.got) \in Nat /\ Len(fifo) \in Nat \ {0} /\ Len(g) \in Nat
    BY <1>1, <1>2, PulledBoth
<1>8. /\ main.got \in Seq(Nat \X Nat) /\ fifo \in Seq(Beats) /\ fifo # <<>>
      /\ g = Append(main.got, <<Head(fifo).packet, Head(fifo).place>>)
    BY <1>1, <1>2, Zenon
<1>4. main'.at \in Mid /\ main.at \in Mid
    BY <1>1 DEF Mid
<1>5. ASSUME main.empty, ~main.upset PROVE Clean'
    <2>1. /\ Right(main.got, fifo, main.number, SZ, writer.sent)
          /\ writer.is # "raised" /\ Len(main.got) < SZ
        <3>1. /\ Right(main.got, fifo, main.number, SZ, writer.sent)
              /\ writer.is # "raised" /\ Len(main.got) <= SZ
              /\ Len(main.got) # SZ
            BY <1>0, <1>1, <1>4, <1>5 DEF FaultShows, Clean
        <3> QED
            BY <1>2, <1>3, <3>1
    <2>2. /\ Right(g, fifo', main.number, SZ, writer.sent)
          /\ Head(fifo).last = (Len(g) = SZ)
        <3>1. Right(g, Tail(fifo), main.number, SZ, writer.sent)
            BY <1>8, <2>1, RightPulled, Zenon
        <3>2. Head(fifo).last = (Len(main.got) + 1 = SZ)
            <4>1. Head(fifo) = fifo[1] /\ 1 \in 1 .. Len(fifo)
                BY <1>3, <1>8, Pulled
            <4> QED
                BY <2>1, <4>1, Zenon DEF Right
        <3> QED
            BY <1>1, <1>3, <3>1, <3>2, Zenon
    <2>3. Len(g) <= SZ /\ Len(g) # Capacity
        BY <1>2, <1>3, <2>1
    <2>4. Len(g) = SZ <=> main'.at = "await"
        BY <1>1, <2>2, <2>3
    <2> QED
        BY <1>0, <1>1, <1>4, <2>1, <2>2, <2>3, <2>4, Zenon DEF Clean
<1>6. ASSUME main.empty, main.upset PROVE Doomed'
    <2>1. Wrong(main.got, fifo, main.number, SZ, writer.sent)
        BY <1>0, <1>1, <1>4, <1>6 DEF FaultShows, Doomed
    <2>2. CASE Wrong(g, fifo', main.number, SZ, writer.sent)
        BY <1>0, <1>1, <1>4, <2>2, Zenon DEF Doomed
    <2>3. CASE Head(fifo).last # (Len(g) = SZ)
        <3>1. Head(fifo).last \in BOOLEAN
            <4>1. Head(fifo) \in Beats
                BY <1>1, <1>2, Pulled, Zenon
            <4> QED
                BY <4>1, Zenon DEF Beats
        <3>2. CASE Head(fifo).last /\ Len(g) # SZ
            <4>1. main'.at = "await"
                BY <1>1, <3>2, Zenon
            <4> QED
                BY <1>0, <1>1, <1>4, <3>2, <4>1, Zenon DEF Doomed
        <3>3. CASE ~Head(fifo).last /\ Len(g) = SZ
            <4>1. main'.at = "reading"
                BY <1>1, <1>2, <3>3
            <4>2. fifo' = <<>> /\ writer.sent = SZ
                <5>1. PICK n \in Nat : n = Len(main.got)
                    BY <1>3
                <5>2. n + Len(fifo) <= writer.sent /\ writer.sent <= SZ
                    BY <1>4, <1>6, <5>1, OwnBeats, Zenon
                <5>3. n + 1 = SZ
                    BY <1>3, <3>3, <5>1
                <5>4. Len(fifo) = 1 /\ writer.sent = SZ
                    BY <1>2, <1>3, <5>2, <5>3
                <5>5. Tail(fifo) = <<>>
                    <6>1. /\ Tail(fifo) \in Seq(Beats)
                          /\ Len(Tail(fifo)) = Len(fifo) - 1
                        BY <1>1, <1>2, Pulled, Zenon
                    <6>2. Len(Tail(fifo)) = 0
                        BY <5>4, <6>1
                    <6> QED
                        BY <6>1, <6>2, EmptySeq
                <5> QED
                    BY <1>1, <5>4, <5>5
            <4> QED
                BY <1>0, <1>1, <1>4, <3>3, <4>1, <4>2, Zenon DEF Doomed
        <3> QED
            BY <2>3, <3>1, <3>2, <3>3, Zenon
    <2> QED
        <3>1. \/ Wrong(g, Tail(fifo), main.number, SZ, writer.sent)
              \/ Head(fifo).last # (Len(g) = SZ)
            BY <1>8, <2>1, WrongPulled
        <3> QED
            BY <1>1, <2>2, <2>3, <3>1, Zenon
<1> QED
    BY <1>1, <1>5, <1>6, Zenon DEF FaultShows

LEMMA ShowsFault ==
    ASSUME StreamTypes, LagInv, FaultShows, Loop!Fault PROVE FaultShows'
<1> SUFFICES ASSUME main.empty PROVE Doomed'
    BY FaultIs, Zenon DEF FaultShows
<1>1. Clean
    BY FaultIs, Zenon DEF FaultShows
<1>2. CASE main'.at = "leaving"
    BY <1>2 DEF Doomed, Mid
<1>3. CASE /\ main'.at = main.at
           /\ \E i \in 1 .. Len(fifo) :
                 \/ fifo' = Loop!Without(fifo, i)
                 \/ \E x \in Beats : /\ fifo' = [fifo EXCEPT ![i] = x]
                                      /\ Spoilt(x, fifo[i])
    <2>1. PICK i \in 1 .. Len(fifo) :
             \/ fifo' = Loop!Without(fifo, i)
             \/ \E x \in Beats : /\ fifo' = [fifo EXCEPT ![i] = x]
                                  /\ Spoilt(x, fifo[i])
        BY <1>3
    <2>2. main.at \in Mid
        <3>1. main.at # "submit"
            BY <2>1, Flat DEF LagInv, Fresh
        <3> QED
            BY <1>1, <3>1, FaultIs DEF Clean
    <2>3. Right(main.got, fifo, main.number, SZ, writer.sent)
        BY <1>1, <2>2, Zenon DEF Clean
    <2>4. Wrong(main.got, fifo', main.number, SZ, writer.sent)
        <3>1. CASE fifo' = Loop!Without(fifo, i)
            BY <2>3, <3>1, RightLost, Flat, Zenon
        <3>2. ASSUME NEW x \in Beats, fifo' = [fifo EXCEPT ![i] = x],
                     Spoilt(x, fifo[i])
              PROVE  Wrong(main.got, fifo', main.number, SZ, writer.sent)
            BY <2>3, <3>2, RightSpoilt, Flat, Zenon
        <3> QED
            BY <2>1, <3>1, <3>2
    <2> QED
        BY <1>3, <2>2, <2>4, FaultIs, Zenon DEF Doomed, SZ
<1> QED
    BY <1>2, <1>3, FaultIs, Zenon

(* What the main thread has accepted was right, whatever happened before.  *)
LEMMA ShowsAwait ==
    ASSUME StreamTypes, LagInv, FaultShows, Loop!await PROVE FaultShows'
<1> SUFFICES ASSUME main.empty
             PROVE  IF main.upset THEN Doomed' ELSE Clean'
    BY AwaitIs, Zenon DEF FaultShows
<1>1. PICK g \in Seq(Nat \X Nat) : g = main.got
    BY Flat
<1>2. /\ Len(g) + Len(fifo) <= writer.sent /\ writer.sent <= SZ
      /\ Len(g) \in Nat /\ Len(fifo) \in Nat /\ writer.sent \in Nat /\ SZ \in Nat
    <2>1. main.at \in Mid
        BY AwaitIs DEF Mid
    <2> QED
        BY <1>1, <2>1, OwnBeats, Flat
<1>3. ASSUME main.got = Loop!Packet(main.number)
      PROVE  /\ Len(g) = SZ
             /\ \A q \in 1 .. Len(g) : g[q] = <<main.number, q>>
    <2>1. Sizes[main.number] \in Nat /\ g = Loop!Packet(main.number)
        BY <1>1, <1>2, <1>3, Zenon DEF SZ
    <2> QED
        BY <2>1, WholePacket, Zenon DEF SZ
<1>4. ASSUME main.upset PROVE Doomed'
    <2>1. \/ Wrong(g, fifo, main.number, SZ, writer.sent)
          \/ Len(g) # SZ
        BY <1>1, <1>4, AwaitIs, Zenon DEF FaultShows, Doomed, Mid
    <2>2. ASSUME main.got = Loop!Packet(main.number), writer.sent = SZ PROVE FALSE
        <3>1. Len(fifo) = 0 /\ ~(Len(g) + Len(fifo) < writer.sent)
            BY <1>2, <1>3, <2>2
        <3>2. ~Misplaced(g, fifo, main.number) /\ ~Mismarked(g, fifo, SZ)
            BY <1>3, <2>2, <3>1 DEF Misplaced, Mismarked
        <3> QED
            BY <1>3, <2>1, <2>2, <3>1, <3>2, Zenon DEF Wrong
    <2>3. main'.at = "leaving"
        BY <2>2, AwaitIs, Zenon
    <2> QED
        BY <2>3 DEF Doomed, Mid
<1>5. ASSUME ~main.upset PROVE Clean'
    <2>1. /\ Right(g, fifo, main.number, SZ, writer.sent)
          /\ writer.is # "raised" /\ Len(g) = SZ
        BY <1>1, <1>5, AwaitIs, Zenon DEF FaultShows, Clean, Mid
    <2>2. Len(fifo) # Depth
        BY <1>2, <2>1, TheSizes
    <2>3. g = Loop!Packet(main.number)
        <3>1. \A q \in 1 .. SZ : g[q] = <<main.number, q>>
            BY <2>1, Zenon DEF Right
        <3>2. g = [q \in 1 .. SZ |-> g[q]]
            BY <2>1
        <3> QED
            BY <3>1, <3>2, Zenon DEF Loop!Packet, SZ
    <2>4. main'.at \in {"submit", "passed"}
        BY <1>1, <2>1, <2>2, <2>3, AwaitIs
    <2> QED
        BY <2>4 DEF Clean, Mid
<1> QED
    BY <1>4, <1>5

LEMMA ShowsKept ==
    ASSUME StreamTypes, LagInv, FaultShows, [Loop!StreamNext]_strmvars
    PROVE  FaultShows'
<1>0. main \in MainType /\ writer \in WriterType
    BY DEF StreamTypes
(* A step that neither moves a beat nor the main thread on.                *)
<1>1. ASSUME /\ main'.got = main.got /\ writer'.sent = writer.sent
             /\ fifo' = fifo /\ main'.number = main.number
             /\ main'.upset = main.upset /\ main'.empty = main.empty,
             \/ main'.at = main.at
             \/ main.at = "delay" /\ main'.at = "reading",
             writer'.is = "raised" => writer.is = "raised" \/ main.upset
      PROVE  FaultShows'
    <2>1. /\ main'.at \in Mid <=> main.at \in Mid
          /\ main'.at = "await" <=> main.at = "await"
          /\ main.at = "reading" => main'.at = "reading"
          /\ main'.at \notin Mid => main'.at = main.at
        BY <1>1 DEF Mid
    <2>2. SZ' = SZ
        BY <1>1 DEF SZ
    <2>3. main.empty /\ ~main.upset => Clean'
        <3>1. ASSUME main.empty, ~main.upset, main.at \in Mid PROVE Clean'
            BY <1>1, <2>1, <2>2, <3>1, Zenon DEF FaultShows, Clean
        <3>2. ASSUME main.empty, ~main.upset, main.at \notin Mid PROVE Clean'
            BY <2>1, <3>2 DEF FaultShows, Clean
        <3> QED
            BY <3>1, <3>2
    <2>4. main.empty /\ main.upset => Doomed'
        <3>1. ASSUME main.empty, main.upset, main.at \in Mid PROVE Doomed'
            BY <1>1, <2>1, <2>2, <3>1, Zenon DEF FaultShows, Doomed
        <3>2. ASSUME main.empty, main.upset, main.at \notin Mid PROVE Doomed'
            BY <2>1, <3>2 DEF FaultShows, Doomed
        <3> QED
            BY <3>1, <3>2
    <2> QED
        BY <1>1, <2>3, <2>4, Zenon DEF FaultShows
<1>2. CASE Loop!submit
    <2>1. /\ main.at = "submit" /\ main'.at = "delay" /\ fifo' = fifo
          /\ main'.got = <<>> /\ writer'.sent = 0 /\ writer'.is = "writing"
          /\ main'.number = main.number /\ main'.empty = main.empty
          /\ main'.upset = main.upset /\ SZ' = SZ
        BY <1>0, <1>2 DEF Loop!submit, MainType, SZ
    <2>2. ASSUME main.empty PROVE ~main.upset /\ fifo = <<>>
        BY <2>1, <2>2 DEF FaultShows, Doomed, LagInv, Fresh, Mid
    <2>3. ASSUME fifo = <<>>
          PROVE  Right(<<>>, fifo, main.number, SZ, 0)
        BY <2>3 DEF Right
    <2>4. SZ \in Nat \ {0} /\ Len(<<>>) = 0
        BY Flat
    <2>5. ASSUME main.empty PROVE Clean'
        BY <2>1, <2>2, <2>3, <2>4, <2>5 DEF Clean, Mid
    <2> QED
        BY <2>1, <2>2, <2>5, Zenon DEF FaultShows
<1>3. CASE Loop!read_begins
    BY <1>0, <1>1, <1>3 DEF Loop!read_begins, MainType
<1>4. CASE Loop!write_returns
    BY <1>0, <1>1, <1>4 DEF Loop!write_returns, WriterType
<1>5. CASE UNCHANGED strmvars
    BY <1>1, <1>5, Zenon DEF strmvars
(* A write waits in vain only for a reader that has given up.              *)
<1>6. CASE Loop!write_times_out
    <2>1. /\ writer.is = "writing" /\ Len(fifo) = Depth /\ main' = main
          /\ fifo' = fifo /\ writer'.sent = writer.sent
          /\ main.at \notin {"delay", "reading"}
        BY <1>0, <1>6 DEF Loop!write_times_out, WriterType
    <2>2. ASSUME main.empty, ~main.upset PROVE main.at = "killed"
        <3>1. main.at # "await"
            <4>1. SUFFICES ASSUME main.at = "await" PROVE FALSE
                OBVIOUS
            <4>2. PICK g \in Seq(Nat \X Nat) : g = main.got
                BY Flat
            <4>3. Len(g) = SZ
                BY <2>2, <4>1, <4>2, Zenon DEF FaultShows, Clean, Mid
            <4>4. Len(g) + Len(fifo) <= SZ
                <5>1. main.at \in Mid
                    BY <4>1 DEF Mid
                <5>2. /\ Len(g) + Len(fifo) <= writer.sent /\ writer.sent <= SZ
                    BY <2>2, <4>2, <5>1, OwnBeats, Zenon
                <5> QED
                    BY <5>2, Flat
            <4> QED
                BY <2>1, <4>3, <4>4, Flat, TheSizes
        <3> QED
            BY <2>1, <2>2, <3>1 DEF FaultShows, Clean, StreamTypes, AtRest, Mid
    <2>3. ASSUME main.empty, ~main.upset PROVE Clean'
        BY <2>1, <2>2, <2>3 DEF Clean, Mid
    <2>4. ASSUME main.empty, main.upset PROVE Doomed'
        <3>1. SZ' = SZ
            BY <2>1 DEF SZ
        <3> QED
            BY <2>1, <2>4, <3>1, Zenon DEF FaultShows, Doomed
    <2> QED
        BY <2>1, <2>3, <2>4, Zenon DEF FaultShows
(* Nothing comes only when a beat was lost.                                *)
<1>7. CASE Loop!read_times_out
    <2>1. /\ main.at = "reading" /\ fifo = <<>> /\ writer.is # "writing"
          /\ main'.at = "leaving" /\ main'.empty = main.empty
          /\ main'.upset = main.upset
        BY <1>0, <1>7 DEF Loop!read_times_out, MainType
    <2>2. ASSUME main.empty, ~main.upset PROVE FALSE
        <3>1. PICK g \in Seq(Nat \X Nat) : g = main.got
            BY Flat
        <3>2. main.at \in Mid
            BY <2>1 DEF Mid
        <3>3. /\ Right(g, fifo, main.number, SZ, writer.sent)
              /\ writer.is # "raised" /\ Len(g) # SZ
            BY <2>1, <2>2, <3>1, <3>2 DEF FaultShows, Clean
        <3>4. writer.sent = SZ
            BY <1>0, <2>1, <3>2, <3>3 DEF StreamTypes, Writes, WriterType
        <3>5. Len(g) + Len(fifo) = writer.sent
            BY <3>3, Zenon DEF Right
        <3> QED
            BY <2>1, <3>3, <3>4, <3>5
    <2>3. Doomed'
        BY <2>1 DEF Doomed, Mid
    <2> QED
        BY <2>1, <2>2, <2>3, Zenon DEF FaultShows
<1>8. CASE Loop!leave
    <2>1. /\ main.at = "leaving" /\ main'.at = "failed"
          /\ main'.empty = main.empty /\ main'.upset = main.upset
        BY <1>0, <1>8 DEF Loop!leave, MainType
    <2>2. main.empty => main.upset
        BY <2>1 DEF FaultShows, Clean, Mid
    <2>3. Doomed'
        BY <2>1 DEF Doomed, Mid
    <2> QED
        BY <2>1, <2>2, <2>3, Zenon DEF FaultShows
<1>9. CASE Loop!kill
    <2>1. main'.at = "killed"
        BY <1>0, <1>9 DEF Loop!kill, MainType
    <2> QED
        BY <2>1 DEF FaultShows, Clean, Doomed, Mid
<1>10. CASE Loop!rerun
    <2>1. main'.at = "submit" /\ main'.upset = FALSE
        BY <1>10, Zenon DEF Loop!rerun, Loop!Main
    <2> QED
        BY <2>1 DEF FaultShows, Clean, Mid
<1> QED
    BY <1>2, <1>3, <1>4, <1>5, <1>6, <1>7, <1>8, <1>9, <1>10, ShowsPush,
       ShowsPull, ShowsFault, ShowsAwait DEF Loop!StreamNext

LoopInv == StreamTypes /\ LagInv /\ FaultShows

LEMMA LoopStarts == Loop!StreamInit => LoopInv
<1> SUFFICES ASSUME Loop!StreamInit PROVE LoopInv
    OBVIOUS
<1>1. main.at = "submit" /\ ~main.upset /\ fifo = <<>>
    BY DEF Loop!StreamInit, Loop!Main
<1> QED
    BY <1>1, TypesInit DEF LoopInv, LagInv, FaultShows, Clean, Mid

LEMMA LoopGoes == LoopInv /\ [Loop!StreamNext]_strmvars => LoopInv'
BY TypesKept, LagKept, ShowsKept DEF LoopInv

LEMMA LoopShows == LoopInv => Loop!PassMeansLossless /\ Loop!FailMeansFault
BY DEF LoopInv, LagInv, FaultShows, Clean, Doomed, Mid, Loop!PassMeansLossless,
       Loop!FailMeansFault

(* What is left of earlier runs in the FIFO, or a fault, is never taken    *)
(* for a loss-free run: when the last packet has come back right the FIFO  *)
(* is empty, and no beat was lost or changed if it was empty at the start. *)
THEOREM LosslessPass == HostSpec => []PassMeansLossless
<1>1. HostInit => LoopInv
    BY LoopStarts DEF HostInit
<1>2. [HostNext]_allvars => [Loop!StreamNext]_strmvars
    BY Zenon DEF HostNext, allvars
<1>3. LoopInv => PassMeansLossless
    BY LoopShows DEF PassMeansLossless
<1> QED
    BY <1>1, <1>2, <1>3, LoopGoes, PTL DEF HostSpec

(* The packets longer than the FIFO do not get stuck in it and none runs   *)
(* into the next: a run that found the FIFO empty fails only on a fault.   *)
THEOREM FaultyFail == HostSpec => []FailMeansFault
<1>1. HostInit => LoopInv
    BY LoopStarts DEF HostInit
<1>2. [HostNext]_allvars => [Loop!StreamNext]_strmvars
    BY Zenon DEF HostNext, allvars
<1>3. LoopInv => FailMeansFault
    BY LoopShows DEF FailMeansFault
<1> QED
    BY <1>1, <1>2, <1>3, LoopGoes, PTL DEF HostSpec

(***************************************************************************)
(* The transfers are proved about in a module of their own, which the host *)
(* instantiates.  Its definitions are those of the host's own instance,    *)
(* and the host only adds what stands still.                               *)
(***************************************************************************)
DmaP == INSTANCE Dma_proofs

LEMMA TransferSteps == Xdma!Next = DmaP!Next
BY Zenon
DEF Xdma!Next, DmaP!Next, Xdma!pwrite, DmaP!pwrite, Xdma!write_returns,
    DmaP!write_returns, Xdma!pwrite_fails, DmaP!pwrite_fails, Xdma!pread,
    DmaP!pread, Xdma!pread_fails, DmaP!pread_fails, Xdma!compare,
    DmaP!compare, Xdma!Upset, DmaP!Upset, Xdma!Stored, DmaP!Stored,
    Xdma!Fetched, DmaP!Fetched, Xdma!first_difference,
    DmaP!first_difference, Xdma!Least, DmaP!Least, Xdma!Transfer,
    DmaP!Transfer, Xdma!None, DmaP!None, Xdma!Size, DmaP!Size, Xdma!data,
    DmaP!data, Xdma!addr, DmaP!addr

LEMMA TransfersRun == HostSpec => DmaP!Spec
<1>1. HostInit => DmaP!Init
    BY DEF HostInit, NoDma, Xdma!Init, DmaP!Init, Xdma!Transfer,
           DmaP!Transfer, Xdma!None, DmaP!None
<1>2. [HostNext]_allvars => [DmaP!Next]_(DmaP!dmavars)
    BY TransferSteps, Zenon DEF HostNext, allvars, dmavars, DmaP!dmavars
<1> QED
    BY <1>1, <1>2, PTL DEF HostSpec, DmaP!Spec

LEMMA TheAddresses == DmaP!Placed
BY DmaAssumption, Zenon DEF Xdma!Placed, DmaP!Placed

(* Whatever the driver does, and however many threads use the handle, the  *)
(* host's transfers are those of a memory of independent bytes.            *)
THEOREM HostMemory == HostSpec => ImplementsMemory
<1>1. Xdma!Memory!Init <=> DmaP!Memory!Init
    BY Zenon
    DEF Xdma!Memory!Init, Xdma!Memory!Offsets, Xdma!Memory!None,
        DmaP!Memory!Init, DmaP!Memory!Offsets, DmaP!Memory!None, Xdma!addr,
        Xdma!data, Xdma!Size, DmaP!addr, DmaP!data, DmaP!Size
<1>2. Xdma!Memory!Next <=> DmaP!Memory!Next
    BY Zenon
    DEF Xdma!Memory!Next, Xdma!Memory!Store, Xdma!Memory!WriteReturns,
        Xdma!Memory!Fetch, Xdma!Memory!Compared, Xdma!Memory!Raise,
        Xdma!Memory!Upset, Xdma!Memory!StoredAt, Xdma!Memory!Offsets,
        Xdma!Memory!None, DmaP!Memory!Next, DmaP!Memory!Store,
        DmaP!Memory!WriteReturns, DmaP!Memory!Fetch, DmaP!Memory!Compared,
        DmaP!Memory!Raise, DmaP!Memory!Upset, DmaP!Memory!StoredAt,
        DmaP!Memory!Offsets, DmaP!Memory!None, Xdma!addr, Xdma!data,
        Xdma!Size, DmaP!addr, DmaP!data, DmaP!Size
<1>3. Xdma!Memory!bmvars = DmaP!Memory!bmvars
    BY Zenon
    DEF Xdma!Memory!bmvars, DmaP!Memory!bmvars, Xdma!addr, Xdma!data,
        Xdma!Size, DmaP!addr, DmaP!data, DmaP!Size
<1>4. [Xdma!Memory!Next]_(Xdma!Memory!bmvars)
        <=> [DmaP!Memory!Next]_(DmaP!Memory!bmvars)
    <2>1. Xdma!Memory!bmvars' = DmaP!Memory!bmvars'
        BY Zenon
        DEF Xdma!Memory!bmvars, DmaP!Memory!bmvars, Xdma!addr, Xdma!data,
            Xdma!Size, DmaP!addr, DmaP!data, DmaP!Size
    <2> QED
        BY <1>2, <1>3, <2>1, Zenon
<1>5. HostSpec => DmaP!ImplementsMemory
    BY TransfersRun, TheAddresses, DmaP!MemoryImplemented, PTL
<1> QED
    BY <1>1, <1>4, <1>5, PTL
    DEF ImplementsMemory, Xdma!ImplementsMemory, Xdma!Memory!Spec,
        DmaP!ImplementsMemory, DmaP!Memory!Spec

(* A round trip of the host's names a byte that failed, or has left its    *)
(* buffer in the memory.                                                   *)
THEOREM HostRoundTrips == HostSpec => []RoundTrip
<1>1. DmaP!RoundTrip => RoundTrip
    BY Zenon
    DEF Xdma!Apart, DmaP!Apart, Xdma!Size, DmaP!Size, Xdma!data,
        DmaP!data, Xdma!addr, DmaP!addr, Xdma!None, DmaP!None,
        DmaP!RoundTrip, RoundTrip, Xdma!RoundTrip
<1>2. HostSpec => []DmaP!RoundTrip
    BY TransfersRun, TheAddresses, DmaP!TripsAreRight, PTL
<1> QED
    BY <1>1, <1>2, PTL

(***************************************************************************)
(* The interrupt test: each message that arrived is worth one pass.  It is *)
(* spent by the pass it gave, by the test that is about to pass, or it is  *)
(* still in the driver's flag; a test that has polled the flag but not yet *)
(* read it holds it together with the flag.                                *)
(***************************************************************************)
TestTypes ==
    /\ msi \in Nat /\ arrived \in Nat /\ pending \in BOOLEAN
    /\ test \in [pc : {"start", "raise", "poll", "read", "lower", "over"},
                 begun : Nat, passed : Nat, good : BOOLEAN]

InFlag == IF pending THEN 1 ELSE 0
InTest == IF test.pc = "lower" /\ test.good THEN 1 ELSE 0

TestsInv == /\ TestTypes
            /\ test.pc = "read" => pending
            /\ test.passed + InTest + InFlag <= arrived

(* A test with its fields replaced is a test.                              *)
LEMMA TestStays ==
    ASSUME NEW t \in [pc : {"start", "raise", "poll", "read", "lower", "over"},
                      begun : Nat, passed : Nat, good : BOOLEAN],
           NEW b \in Nat, NEW g \in BOOLEAN
    PROVE  [t EXCEPT !.pc = "start", !.begun = b, !.good = g]
           \in [pc : {"start", "raise", "poll", "read", "lower", "over"},
                begun : Nat, passed : Nat, good : BOOLEAN]
<1>1. [t EXCEPT !.good = g]
      \in [pc : {"start", "raise", "poll", "read", "lower", "over"},
           begun : Nat, passed : Nat, good : BOOLEAN]
    OBVIOUS
<1> QED
    BY <1>1

LEMMA TestsStart == Irq!Init => TestsInv
<1> SUFFICES ASSUME Irq!Init PROVE TestsInv
    OBVIOUS
<1>1. TestTypes
    BY DEF Irq!Init, TestTypes
<1>2. InFlag = 0
    BY DEF Irq!Init, InFlag
<1>3. test.pc = "start" /\ test.passed = 0
    BY DEF Irq!Init
<1>4. InTest = 0
    BY <1>3 DEF InTest
<1> QED
    BY <1>1, <1>2, <1>3, <1>4 DEF Irq!Init, TestsInv

LEMMA TestsGo ==
    ASSUME TestsInv, \/ Irq!Start \/ Irq!Raise \/ Irq!poll \/ Irq!read
                     \/ Irq!Lower \/ Irq!Kill \/ Irq!Again
    PROVE  TestsInv'
<1>1. CASE Irq!Start
    BY <1>1 DEF TestsInv, TestTypes, InFlag, InTest, Irq!Start, Irq!Write
<1>2. CASE Irq!Raise
    BY <1>2 DEF TestsInv, TestTypes, InFlag, InTest, Irq!Raise, Irq!Write
<1>3. CASE Irq!poll
    BY <1>3 DEF TestsInv, TestTypes, InFlag, InTest, Irq!poll
<1>4. CASE Irq!read
    <2>1. /\ test \in [pc : {"start", "raise", "poll", "read", "lower", "over"},
                       begun : Nat, passed : Nat, good : BOOLEAN]
          /\ test.pc = "read" /\ pending /\ arrived \in Nat
        BY <1>4 DEF TestsInv, TestTypes, Irq!read
    <2>2. test' = [test EXCEPT !.pc = "lower"]
        BY <1>4 DEF Irq!read
    <2>3. /\ (test.pc)' = "lower" /\ (test.passed)' = test.passed
          /\ (test.good)' = test.good /\ arrived' = arrived
        BY <1>4, <2>1, <2>2 DEF Irq!read
    <2>4. InFlag = 1 /\ InTest = 0
        BY <2>1 DEF InFlag, InTest
    <2>5. pending' = FALSE
        BY <1>4 DEF Irq!read
    <2>6. InFlag' = 0
        BY <2>5, Zenon DEF InFlag
    <2>7. InTest' \in {0, 1}
        BY Zenon DEF InTest
    <2>8. TestTypes'
        BY <1>4, <2>1, <2>2, <2>5 DEF TestsInv, TestTypes, Irq!read
    <2>9. test.passed + InTest + InFlag <= arrived /\ test.passed \in Nat
        BY <2>1 DEF TestsInv
    <2>10. (test.passed + InTest + InFlag <= arrived)'
        BY <2>1, <2>3, <2>4, <2>6, <2>7, <2>9
    <2> QED
        BY <2>3, <2>8, <2>10 DEF TestsInv
<1>5. CASE Irq!Lower
    <2>1. /\ test \in [pc : {"start", "raise", "poll", "read", "lower", "over"},
                       begun : Nat, passed : Nat, good : BOOLEAN]
          /\ test.pc = "lower" /\ arrived \in Nat /\ arrived' = arrived
          /\ pending' = pending
        BY <1>5 DEF TestsInv, TestTypes, Irq!Lower
    <2>2. test.passed + InTest + InFlag <= arrived /\ test.passed \in Nat
        BY <2>1 DEF TestsInv
    <2>3. InFlag' = InFlag /\ InFlag \in {0, 1}
        BY <2>1, Zenon DEF InFlag
    <2>4. (test.pc)' = "over"
        BY <1>5, <2>1 DEF Irq!Lower
    <2>5. InTest' = 0
        BY <2>4 DEF InTest
    <2>6. TestTypes'
        <3> DEFINE passed == IF test.good THEN test.passed + 1 ELSE test.passed
        <3>1. passed \in Nat
            BY <2>2
        <3>2. test' = [test EXCEPT !.pc = "over", !.passed = passed]
            BY <1>5 DEF Irq!Lower
        <3> HIDE DEF passed
        <3>3. test' \in [pc : {"start", "raise", "poll", "read", "lower", "over"},
                         begun : Nat, passed : Nat, good : BOOLEAN]
            BY <2>1, <3>1, <3>2
        <3>4. msi' \in Nat
            BY <1>5 DEF TestsInv, TestTypes, Irq!Lower, Irq!Write
        <3> QED
            BY <2>1, <3>3, <3>4 DEF TestsInv, TestTypes
    <2>7. CASE test.good
        <3>1. InTest = 1
            BY <2>1, <2>7 DEF InTest
        <3>2. (test.passed)' = test.passed + 1
            BY <1>5, <2>1, <2>7 DEF Irq!Lower
        <3> QED
            BY <2>1, <2>2, <2>3, <2>4, <2>5, <2>6, <3>1, <3>2 DEF TestsInv
    <2>8. CASE ~test.good
        <3>1. InTest = 0
            BY <2>8 DEF InTest
        <3>2. (test.passed)' = test.passed
            BY <1>5, <2>1, <2>8 DEF Irq!Lower
        <3> QED
            BY <2>1, <2>2, <2>3, <2>4, <2>5, <2>6, <3>1, <3>2 DEF TestsInv
    <2> QED
        BY <2>7, <2>8
<1>6. CASE Irq!Kill
    BY <1>6 DEF TestsInv, TestTypes, InFlag, InTest, Irq!Kill
<1>7. CASE Irq!Again
    <2>1. /\ test \in [pc : {"start", "raise", "poll", "read", "lower", "over"},
                       begun : Nat, passed : Nat, good : BOOLEAN]
          /\ arrived \in Nat /\ arrived' = arrived /\ pending' = pending
        BY <1>7 DEF TestsInv, TestTypes, Irq!Again
    <2>2. test' = [test EXCEPT !.pc = "start", !.begun = @ + 1, !.good = FALSE]
        BY <1>7 DEF Irq!Again
    <2>3. (test.pc)' = "start" /\ (test.passed)' = test.passed
        BY <2>1, <2>2
    <2>4. InTest' = 0 /\ InTest \in {0, 1}
        BY <2>3 DEF InTest
    <2>5. InFlag' = InFlag /\ InFlag \in {0, 1}
        BY <2>1, Zenon DEF InFlag
    <2>6. TestTypes'
        <3>1. test.begun + 1 \in Nat
            BY <2>1
        <3>2. [test EXCEPT !.pc = "start", !.begun = test.begun + 1, !.good = FALSE]
              \in [pc : {"start", "raise", "poll", "read", "lower", "over"},
                   begun : Nat, passed : Nat, good : BOOLEAN]
            BY <2>1, <3>1, TestStays, Zenon
        <3>3. test' \in [pc : {"start", "raise", "poll", "read", "lower", "over"},
                         begun : Nat, passed : Nat, good : BOOLEAN]
            BY <2>2, <3>2, Zenon
        <3> QED
            BY <1>7, <2>1, <3>3 DEF TestsInv, TestTypes, Irq!Again
    <2>7. test.passed + InTest + InFlag <= arrived /\ test.passed \in Nat
        BY <2>1 DEF TestsInv
    <2> QED
        BY <2>1, <2>3, <2>4, <2>5, <2>6, <2>7 DEF TestsInv
<1> QED
    BY <1>1, <1>2, <1>3, <1>4, <1>5, <1>6, <1>7

LEMMA MessagesGo == ASSUME TestsInv, Irq!Arrive \/ Irq!Lose PROVE TestsInv'
<1>1. CASE Irq!Arrive
    BY <1>1 DEF TestsInv, TestTypes, InFlag, InTest, Irq!Arrive
<1>2. CASE Irq!Lose
    BY <1>2 DEF TestsInv, TestTypes, InFlag, InTest, Irq!Lose
<1> QED
    BY <1>1, <1>2

(* However late a message is, and whatever was killed, no interrupt makes  *)
(* two tests pass: each that passes has one of its own to show for it.     *)
THEOREM HostInterrupts == HostSpec => []PassNeedsInterrupt
<1>1. HostInit => TestsInv
    BY TestsStart DEF HostInit, NoIrq, Irq!Init
<1>2. TestsInv /\ [HostNext]_allvars => TestsInv'
    <2>1. [HostNext]_allvars => [Irq!Next]_irqvars
        BY Zenon DEF HostNext, allvars
    <2>2. TestsInv /\ UNCHANGED irqvars => TestsInv'
        BY DEF TestsInv, TestTypes, InFlag, InTest, irqvars
    <2> QED
        BY <2>1, <2>2, TestsGo, MessagesGo, Zenon DEF Irq!Next
<1>3. TestsInv => PassNeedsInterrupt
    BY DEF TestsInv, TestTypes, InFlag, InTest, PassNeedsInterrupt, Irq!PassNeedsInterrupt
<1> QED
    BY <1>1, <1>2, <1>3, PTL DEF HostSpec

-----------------------------------------------------------------------------
(***************************************************************************)
(* The address maps that every register access goes through agree with the *)
(* designs.  Nothing is assumed.                                           *)
(***************************************************************************)
(* An address names one window, in the map of either design.               *)
THEOREM MapsApart == WindowsApart(GOLDEN_PCIE) /\ WindowsApart(BOARD_MGMT)
<1>1. WindowsApart(GOLDEN_PCIE)
    BY DEF WindowsApart, GOLDEN_PCIE, Window, Contains, KB64
<1>2. WindowsApart(BOARD_MGMT)
    BY DEF WindowsApart, BOARD_MGMT, Window, Contains, KB64
<1> QED
    BY <1>1, <1>2

(* The slave at the window's base is the only one an offset below 64 KB    *)
(* selects, and it sees the offset when its wires are enough for it.       *)
LEMMA Routed ==
    ASSUME NEW slaves, NEW k \in 0 .. 7, NEW reach \in {32, 128, 512},
           Slave(k, reach) \in slaves,
           \A s \in slaves : s.base = k * KB64 => s = Slave(k, reach),
           \A s \in slaves : \E j \in 0 .. 7 : s.base = j * KB64,
           NEW name, NEW offset \in Nat, offset < reach, offset % 4 = 0
    PROVE  Reaches(Window(name, k * KB64, "reg"), offset, slaves)
<1> DEFINE w == Window(name, k * KB64, "reg")
           addr == k * KB64 + offset
<1>1. w.base = k * KB64 /\ w.size = KB64
    BY DEF Window
<1>2. Contains(w, w.base + offset)
    BY <1>1 DEF Contains, KB64
<1>3. Check(w.base + offset)
    BY <1>1 DEF Check, KB64, BarSize
<1>4. Selected(slaves, addr) = {Slave(k, reach)}
    <2>1. Slave(k, reach).base = k * KB64
        BY DEF Slave
    <2>2. Slave(k, reach) \in Selected(slaves, addr)
        BY <2>1 DEF Selected, KB64
    <2>3. ASSUME NEW s \in Selected(slaves, addr) PROVE s = Slave(k, reach)
        <3>1. PICK j \in 0 .. 7 : s.base = j * KB64
            BY DEF Selected
        <3>2. j = k
            BY <3>1 DEF Selected, KB64
        <3> QED
            BY <3>1, <3>2 DEF Selected
    <2> QED
        BY <2>2, <2>3
<1>5. addr % reach = offset
    BY DEF KB64
<1> QED
    <2>1. Slave(k, reach).base = w.base /\ Slave(k, reach).reach = reach
        BY <1>1 DEF Slave
    <2> QED
        BY <1>1, <1>2, <1>3, <1>4, <1>5, <2>1 DEF Reaches

(* Routed, for the slaves of each design.                                  *)
LEMMA BoardRouted ==
    ASSUME NEW k \in 0 .. 7, NEW reach \in {32, 128, 512},
           Slave(k, reach) \in BoardSlaves,
           NEW name, NEW offset \in Nat, offset < reach, offset % 4 = 0
    PROVE  Reaches(Window(name, k * KB64, "reg"), offset, BoardSlaves)
<1>1. \A s \in BoardSlaves : \E j \in 0 .. 7 : s.base = j * KB64
    BY DEF BoardSlaves, Slave
<1>2. \A s \in BoardSlaves : s.base = k * KB64 => s = Slave(k, reach)
    BY DEF BoardSlaves, Slave, KB64
<1> QED
    BY <1>1, <1>2, Routed

LEMMA GoldenRouted ==
    ASSUME NEW k \in 0 .. 7, NEW reach \in {32, 128, 512},
           Slave(k, reach) \in GoldenSlaves,
           NEW name, NEW offset \in Nat, offset < reach, offset % 4 = 0
    PROVE  Reaches(Window(name, k * KB64, "reg"), offset, GoldenSlaves)
<1>1. \A s \in GoldenSlaves : \E j \in 0 .. 7 : s.base = j * KB64
    BY DEF GoldenSlaves, Slave
<1>2. \A s \in GoldenSlaves : s.base = k * KB64 => s = Slave(k, reach)
    BY DEF GoldenSlaves, Slave, KB64
<1> QED
    BY <1>1, <1>2, Routed

(* Every register access the drivers make on the board management design   *)
(* passes the check and reaches the register it means, and no other.       *)
THEOREM BoardReached == AllReached(BOARD_MGMT, BoardSlaves)
<1> DEFINE Reg(name, k) == Window(name, k * KB64, "reg")
<1>1. ASSUME NEW w \in BOARD_MGMT, w.kind = "reg", NEW offset \in Registers(w.name)
      PROVE  \/ w = Reg("qspi", 1) /\ offset \in QuadSpiRegisters
             \/ w = Reg("gpio", 3) /\ offset \in GpioRegisters
             \/ w = Reg("iic0", 5) /\ offset \in IicRegisters
             \/ w = Reg("iic1", 6) /\ offset \in IicRegisters
             \/ w = Reg("qsfp", 7) /\ offset \in GpioRegisters
    BY <1>1 DEF BOARD_MGMT, Window, Registers
<1>2. /\ Slave(1, 128) \in BoardSlaves
      /\ \A k \in {3, 5, 6, 7} : Slave(k, 512) \in BoardSlaves
    BY DEF BoardSlaves
<1>3. \A offset \in QuadSpiRegisters : Reaches(Reg("qspi", 1), offset, BoardSlaves)
    <2>1. \A offset \in QuadSpiRegisters : offset \in Nat /\ offset < 128 /\ offset % 4 = 0
        BY DEF QuadSpiRegisters
    <2> QED
        BY <1>2, <2>1, BoardRouted
<1>4. \A offset \in GpioRegisters : /\ Reaches(Reg("gpio", 3), offset, BoardSlaves)
                                    /\ Reaches(Reg("qsfp", 7), offset, BoardSlaves)
    <2>1. \A offset \in GpioRegisters : offset \in Nat /\ offset < 512 /\ offset % 4 = 0
        BY DEF GpioRegisters
    <2> QED
        BY <1>2, <2>1, BoardRouted
<1>5. \A offset \in IicRegisters : /\ Reaches(Reg("iic0", 5), offset, BoardSlaves)
                                   /\ Reaches(Reg("iic1", 6), offset, BoardSlaves)
    <2>1. \A offset \in IicRegisters : offset \in Nat /\ offset < 512 /\ offset % 4 = 0
        BY DEF IicRegisters
    <2> QED
        BY <1>2, <2>1, BoardRouted
<1> QED
    BY <1>1, <1>3, <1>4, <1>5 DEF AllReached

(* The same on the golden design, whose registers are one GPIO block.      *)
THEOREM GoldenReached == AllReached(GOLDEN_PCIE, GoldenSlaves)
<1>1. ASSUME NEW w \in GOLDEN_PCIE, w.kind = "reg", NEW offset \in Registers(w.name)
      PROVE  w = Window("gpio", 3 * KB64, "reg") /\ offset \in GpioRegisters
    BY <1>1 DEF GOLDEN_PCIE, Window, Registers
<1>2. Slave(3, 512) \in GoldenSlaves
    BY DEF GoldenSlaves
<1>3. \A offset \in GpioRegisters :
        Reaches(Window("gpio", 3 * KB64, "reg"), offset, GoldenSlaves)
    <2>1. \A offset \in GpioRegisters : offset \in Nat /\ offset < 512 /\ offset % 4 = 0
        BY DEF GpioRegisters
    <2> QED
        BY <1>2, <2>1, GoldenRouted
<1> QED
    BY <1>1, <1>3 DEF AllReached
=============================================================================
