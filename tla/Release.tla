------------------------------ MODULE Release ------------------------------
(***************************************************************************)
(* The release tool (tools/release.py) over a working tree in which people *)
(* edit sources and builds run.  A build reads its sources when it begins  *)
(* and leaves its timing report, then its probes, then its bitstream in    *)
(* its output directory, or stops after the report: either a directory of  *)
(* its own, named by the time (designs 00 to 03), or the one directory of  *)
(* the design (04 to 06).  The tool asks each design in turn whether its   *)
(* bitstream is older than a file it depends on, then copies bitstreams    *)
(* and probes into a staging directory, sums them and publishes them.      *)
(***************************************************************************)
EXTENDS Naturals, Sequences, FiniteSets

CONSTANTS Design,    \* the designs, in the order of their names
          Dated,     \* those whose builds each have a directory of their own
          File,      \* the build inputs in the tree
          Own,       \* design -> the files in its directory
          Names,     \* file -> the shared files it names, if it is a script
          Script,    \* the shared scripts, those under common/
          MaxTime    \* bound on what happens in the tree

Designs == {Design[i] : i \in 1 .. Len(Design)}

(* A design has one directory.  A shared file that names others is a       *)
(* script, and one that a shared script names leads to nothing that the    *)
(* first does not name itself: there are two, and the second names none.   *)
ASSUME ReleaseAssumption ==
    /\ Design \in Seq(Designs)
    /\ \A i, j \in 1 .. Len(Design) : Design[i] = Design[j] => i = j
ASSUME NamingAssumption ==
    /\ \A f \in File : \A g \in Names[f] : Names[g] # {} => g \in Script
    /\ \A f \in Script : \A g \in Names[f] \cap Script : Names[g] \subseteq Names[f]
    /\ \A d \in Designs : Own[d] \subseteq File
    /\ \A f \in File : Names[f] \subseteq File

VARIABLES now,       \* the time of the next event
          edits,     \* the edits: pairs of file and time
          outs,      \* design -> its output directories, by name
          build,     \* the build under way
          rel        \* the run of the tool
relvars == <<now, edits, outs, build, rel>>

Absent == [id |-> 0, at |-> 0]
NoDir == [rpt |-> 0, ltx |-> Absent, bit |-> Absent]
NoBuild == [design |-> "", dir |-> 0, id |-> 0, stage |-> "none"]
NoRun == [pc |-> "idle", at |-> 1, allow |-> FALSE, entries |-> <<>>, assets |-> {}]

RelInit ==
    /\ now = 1 /\ edits = {}
    /\ outs = [d \in Designs |-> <<>>]
    /\ build = NoBuild
    /\ rel = NoRun

Tick == now < MaxTime /\ now' = now + 1

Edit ==
    /\ Tick
    /\ \E f \in File : edits' = edits \cup {<<f, now>>}
    /\ UNCHANGED <<outs, build, rel>>

(* compile.sh and the build it starts, known by the time it began.         *)
BuildBegins ==
    /\ build = NoBuild /\ Tick
    /\ \E d \in Designs :
          LET fresh == outs[d] = <<>> \/ d \in Dated
          IN  /\ outs' = IF fresh THEN [outs EXCEPT ![d] = Append(@, NoDir)]
                                  ELSE outs
              /\ build' = [design |-> d, id |-> now, stage |-> "report",
                           dir |-> IF fresh THEN Len(outs[d]) + 1 ELSE 1]
    /\ UNCHANGED <<edits, rel>>

Report ==
    /\ build.stage = "report"
    /\ outs' = [outs EXCEPT ![build.design][build.dir].rpt = build.id]
    /\ \/ build' = [build EXCEPT !.stage = "probes"]
       \/ build' = NoBuild
    /\ UNCHANGED <<now, edits, rel>>

Probes ==
    /\ build.stage = "probes"
    /\ outs' = [outs EXCEPT ![build.design][build.dir].ltx.id = build.id]
    /\ build' = [build EXCEPT !.stage = "bitstream"]
    /\ UNCHANGED <<now, edits, rel>>

Bitstream ==
    /\ build.stage = "bitstream" /\ Tick
    /\ outs' = [outs EXCEPT ![build.design][build.dir].bit =
                    [id |-> build.id, at |-> now]]
    /\ build' = NoBuild
    /\ UNCHANGED <<edits, rel>>

-----------------------------------------------------------------------------
(* The files a design depends on: its own, the shared ones its scripts     *)
(* name, and those that the shared scripts among these name.               *)
NamedBy(files) == UNION {Names[f] : f \in files}
(* Mutant: the files that the shared scripts name are left out.            *)
dependencies_direct(d) == Own[d] \cup NamedBy(Own[d])
dependencies(d) ==
    LET deps == Own[d] \cup NamedBy(Own[d])
    IN  deps \cup NamedBy(deps \cap Script)

newest_source(files) ==
    LET times == {0} \cup {e[2] : e \in {e \in edits : e[1] \in files}}
    IN  CHOOSE t \in times : \A u \in times : u <= t

With(d, kind) == {k \in 1 .. Len(outs[d]) : outs[d][k][kind].id # 0}
First(S) == CHOOSE k \in S : \A l \in S : k <= l

(* The reports are taken in the order in which the directory lists them.   *)
timing(d) ==
    LET rpts == {outs[d][k].rpt : k \in 1 .. Len(outs[d])} \ {0}
    IN  IF rpts = {} THEN {0} ELSE rpts

Begin ==
    /\ rel.pc = "idle"
    /\ \E allow \in BOOLEAN :
          rel' = [NoRun EXCEPT !.pc = "collecting", !.allow = allow]
    /\ UNCHANGED <<now, edits, outs, build>>

(* collect, for one design: one without a bitstream is passed over.        *)
Collect ==
    /\ rel.pc = "collecting" /\ rel.at <= Len(Design)
    /\ LET d == Design[rel.at]
           k == First(With(d, "bit"))
           edited == newest_source(dependencies(d))
           stale == outs[d][k].bit.at < edited
       IN  IF With(d, "bit") = {} THEN rel' = [rel EXCEPT !.at = @ + 1]
           ELSE IF stale /\ ~rel.allow THEN rel' = [rel EXCEPT !.pc = "refused"]
           ELSE \E t \in timing(d) :
                   rel' = [rel EXCEPT !.at = @ + 1, !.entries = Append(@,
                     [design |-> d, checked |-> now, stale |-> stale,
                      bit |-> k, timing |-> t,
                      ltx |-> IF With(d, "ltx") = {} THEN 0
                              ELSE First(With(d, "ltx"))])]
    /\ UNCHANGED <<now, edits, outs, build>>

Collected ==
    /\ rel.pc = "collecting" /\ rel.at > Len(Design)
    /\ rel' = [rel EXCEPT !.pc = IF rel.entries = <<>> THEN "refused"
                                                      ELSE "staging"]
    /\ UNCHANGED <<now, edits, outs, build>>

Asset(e, kind) == [design |-> e.design, kind |-> kind,
                   content |-> outs[e.design][e[kind]][kind]]

(* One bitstream or probe file is copied and summed.                       *)
Copy ==
    /\ rel.pc = "staging"
    /\ \E i \in 1 .. Len(rel.entries), kind \in {"bit", "ltx"} :
          LET e == rel.entries[i]
          IN  /\ e[kind] # 0
              /\ ~\E a \in rel.assets : a.design = e.design /\ a.kind = kind
              /\ rel' = [rel EXCEPT !.assets = @ \cup {Asset(e, kind)}]
    /\ UNCHANGED <<now, edits, outs, build>>

Publish(dry) ==
    /\ rel.pc = "staging"
    /\ \A i \in 1 .. Len(rel.entries), kind \in {"bit", "ltx"} :
          rel.entries[i][kind] # 0 =>
            \E a \in rel.assets : /\ a.design = rel.entries[i].design
                                  /\ a.kind = kind
    /\ rel' = [rel EXCEPT !.pc = IF dry THEN "dry run" ELSE "published"]
    /\ UNCHANGED <<now, edits, outs, build>>

Tree == Edit \/ BuildBegins \/ Report \/ Probes \/ Bitstream
RelNext == Tree \/ Begin \/ Collect \/ Collected \/ Copy
           \/ \E dry \in BOOLEAN : Publish(dry)

-----------------------------------------------------------------------------
Published(e) ==
    CHOOSE a \in rel.assets : a.design = e.design /\ a.kind = "bit"

(* The files a build of the design reads, however deep they are named.     *)
Read(d) ==
    LET Grow(S) == S \cup NamedBy(S)
    IN  Grow(Grow(Grow(Own[d])))

(* "It refuses to publish a bitstream older than a file it was built from  *)
(* ... --allow-stale overrides that and marks the affected designs in the  *)
(* notes" (tools/README.md): nothing that the build of a published         *)
(* bitstream reads had been edited since it was written when it was looked *)
(* at, unless the notes mark it.                                           *)
PublishedFresh ==
    rel.pc = "published" =>
        \A i \in 1 .. Len(rel.entries) :
            LET e == rel.entries[i]
            IN  ~e.stale =>
                  ~\E x \in edits : /\ x[1] \in Read(e.design)
                                    /\ x[2] < e.checked
                                    /\ Published(e).content.at < x[2]

(* "The timing numbers come from that build's own report" (release.py:14). *)
TimingOfThisBuild ==
    rel.pc = "published" =>
        \A i \in 1 .. Len(rel.entries) :
            LET e == rel.entries[i]
            IN  e.timing \in {0, Published(e).content.id}
=============================================================================
