---------------------------- MODULE Tools_proofs ----------------------------
(***************************************************************************)
(* What the release tool publishes is as fresh as its check has found it,  *)
(* whatever is edited and built meanwhile, for any tree and any designs.   *)
(* The files of the pin generator are whole, and the verdict of the pin    *)
(* checks is exact, for any part, any vendor's files and any lines.        *)
(***************************************************************************)
EXTENDS Tools, FiniteSetTheorems, SequenceTheorems, WellFoundedInduction, TLAPS

(***************************************************************************)
(* The least and the greatest of a set of numbers.                         *)
(***************************************************************************)
LEMMA FirstIs ==
    ASSUME NEW S \in SUBSET Nat, S # {}
    PROVE  First(S) \in S /\ \A j \in S : First(S) <= j
<1> DEFINE R == {ss \in Nat \X Nat : ss[1] < ss[2]}
<1>1. IsWellFoundedOn(R, Nat)
    BY NatLessThanWellFounded DEF OpToRel
<1>2. \A i, j \in Nat : j < i => <<j, i>> \in R
    OBVIOUS
<1> HIDE DEF R
<1>3. PICK i \in S : \A j \in S : ~(<<j, i>> \in R)
    BY <1>1, WFMin, Zenon
<1>4. ASSUME NEW j \in S PROVE i <= j
    <2>1. i \in Nat /\ j \in Nat
        OBVIOUS
    <2>2. ~(j < i)
        BY <1>2, <1>3, <2>1, Zenon
    <2> QED
        BY <2>1, <2>2
<1> QED
    BY <1>4, Zenon DEF First

LEMMA GreatestExists ==
    ASSUME NEW S \in SUBSET Nat, S # {}, NEW b \in Nat, \A t \in S : t < b
    PROVE  \E t \in S : \A u \in S : u <= t
<1> DEFINE U == {n \in Nat : \A t \in S : t <= n}
<1>1. b \in U
    OBVIOUS
<1>2. First(U) \in U /\ \A n \in U : First(U) <= n
    BY <1>1, FirstIs
<1>3. PICK m \in Nat : m = First(U)
    BY <1>2
<1>4. (\A t \in S : t <= m) /\ \A n \in U : m <= n
    BY <1>2, <1>3
<1>5. CASE m \in S
    BY <1>4, <1>5
<1>6. CASE m \notin S
  <2>1. PICK t \in S : TRUE
      OBVIOUS
  <2>2. m > 0
      BY <1>4, <1>6, <2>1
  <2>3. \A u \in S : u <= m - 1
      BY <1>4, <1>6
  <2>4. m - 1 \in U
      BY <2>2, <2>3
  <2> QED
      BY <1>4, <2>4
<1> QED
    BY <1>5, <1>6

-----------------------------------------------------------------------------
(***************************************************************************)
(* The tree.  Bitstreams are written and files edited in the past, and a   *)
(* bitstream is only ever replaced by a later one.                         *)
(***************************************************************************)
Stamp == [id : Nat, at : Nat]
Dir == [rpt : Nat, ltx : Stamp, bit : Stamp]
Stages == {"none", "report", "probes", "bitstream"}
Builds == [design : Designs \cup {""}, dir : Nat, id : Nat, stage : Stages]

Dirs(o, d) == 1 .. Len(o[d])
When(o, d, k) == o[d][k].bit.at

Written(o, t) == \A d \in Designs : \A k \in Dirs(o, d) :
                     When(o, d, k) \in Nat /\ When(o, d, k) < t

TreeInv ==
    /\ now \in Nat
    /\ \A x \in edits : x[2] \in Nat /\ x[2] < now
    /\ outs \in [Designs -> Seq(Dir)]
    /\ Written(outs, now)
    /\ build \in Builds
    /\ build.stage # "none" => /\ build.design \in Designs
                               /\ build.dir \in Dirs(outs, build.design)

(* The directories stay, each with the bitstream it had or a later one.    *)
Grown(o, p) ==
    \A d \in Designs : \A k \in Dirs(o, d) :
        k \in Dirs(p, d) /\ When(o, d, k) <= When(p, d, k)

Later == /\ now' >= now
         /\ \A x \in edits' : x \in edits \/ x[2] >= now

LEMMA NoDirIs == NoDir \in Dir /\ NoDir.bit.at = 0
BY DEF NoDir, Absent, Dir, Stamp

LEMMA GrownSame == ASSUME NEW o, NEW t, Written(o, t) PROVE Grown(o, o)
BY DEF Written, Grown

LEMMA DirsPositive ==
    ASSUME NEW o \in [Designs -> Seq(Dir)], NEW d \in Designs, NEW k \in Dirs(o, d)
    PROVE  k \in Nat \ {0}
<1>1. PICK s \in Seq(Dir) : s = o[d]
    OBVIOUS
<1> QED
    BY <1>1 DEF Dirs

LEMMA StillWritten ==
    ASSUME NEW o, NEW t \in Nat, Written(o, t) PROVE Written(o, t + 1)
<1> SUFFICES ASSUME NEW d \in Designs, NEW k \in Dirs(o, d)
             PROVE  When(o, d, k) \in Nat /\ When(o, d, k) < t + 1
    BY DEF Written
<1>1. PICK m \in Nat : m = When(o, d, k)
    BY DEF Written
<1>2. m < t
    BY <1>1 DEF Written
<1> QED
    BY <1>1, <1>2

(* Files of one output directory are written.                              *)
LEMMA DirWritten ==
    ASSUME NEW o \in [Designs -> Seq(Dir)], NEW p, NEW t \in Nat, NEW u \in Nat,
           Written(o, t), t <= u, NEW d \in Designs, NEW k \in Dirs(o, d),
           NEW v \in Dir, p = [o EXCEPT ![d] = [o[d] EXCEPT ![k] = v]],
           v.bit.at < u, When(o, d, k) <= v.bit.at
    PROVE  /\ p \in [Designs -> Seq(Dir)]
           /\ Written(p, u)
           /\ Grown(o, p)
           /\ \A c \in Designs : Dirs(p, c) = Dirs(o, c)
<1>1. PICK s \in Seq(Dir) : s = o[d]
    OBVIOUS
<1>2. k \in 1 .. Len(s)
    BY <1>1 DEF Dirs
<1>3. PICK r : r = [s EXCEPT ![k] = v]
    OBVIOUS
<1>4. /\ r \in Seq(Dir) /\ Len(r) = Len(s) /\ r[k] = v
      /\ \A l \in 1 .. Len(s) : l # k => r[l] = s[l]
    BY <1>2, <1>3, ExceptSeq
<1>5. p = [o EXCEPT ![d] = r]
    BY <1>1, <1>3
<1>6. /\ p \in [Designs -> Seq(Dir)] /\ p[d] = r
      /\ \A c \in Designs : c # d => p[c] = o[c]
    BY <1>4, <1>5
<1>7. \A c \in Designs : Dirs(p, c) = Dirs(o, c)
    BY <1>1, <1>4, <1>6 DEF Dirs
<1>8. When(p, d, k) = v.bit.at
    BY <1>4, <1>6 DEF When
<1>9. \A c \in Designs : \A l \in Dirs(o, c) :
          ~(c = d /\ l = k) => When(p, c, l) = When(o, c, l)
    BY <1>1, <1>4, <1>6 DEF When, Dirs
<1>10. v.bit.at \in Nat
    BY DEF Dir, Stamp
<1>11. ASSUME NEW c \in Designs, NEW l \in Dirs(o, c)
       PROVE  /\ When(p, c, l) \in Nat /\ When(p, c, l) < u
              /\ When(o, c, l) <= When(p, c, l)
  <2>1. PICK m \in Nat : m = When(o, c, l)
      BY DEF Written
  <2>2. m < t
      BY <2>1 DEF Written
  <2>3. CASE c = d /\ l = k
      BY <1>8, <1>10, <2>3
  <2>4. CASE ~(c = d /\ l = k)
    <3>1. When(p, c, l) = m
        BY <1>9, <2>1, <2>4
    <3> QED
        BY <2>1, <2>2, <3>1
  <2> QED
      BY <2>3, <2>4
<1> QED
    BY <1>6, <1>7, <1>11 DEF Written, Grown

(* An output directory is begun.                                           *)
LEMMA DirAdded ==
    ASSUME NEW o \in [Designs -> Seq(Dir)], NEW p, NEW t \in Nat, NEW u \in Nat,
           Written(o, t), t < u, NEW d \in Designs,
           p = [o EXCEPT ![d] = Append(o[d], NoDir)]
    PROVE  /\ p \in [Designs -> Seq(Dir)]
           /\ Written(p, u)
           /\ Grown(o, p)
           /\ Len(o[d]) + 1 \in Nat /\ Len(o[d]) + 1 \in Dirs(p, d)
<1>1. PICK s \in Seq(Dir) : s = o[d]
    OBVIOUS
<1>2. PICK r : r = Append(s, NoDir)
    OBVIOUS
<1>3. /\ r \in Seq(Dir) /\ Len(r) = Len(s) + 1 /\ Len(s) \in Nat
      /\ r[Len(s) + 1] = NoDir
      /\ \A k \in 1 .. Len(s) : r[k] = s[k]
    BY <1>2, NoDirIs
<1>4. p = [o EXCEPT ![d] = r]
    BY <1>1, <1>2
<1>5. /\ p \in [Designs -> Seq(Dir)] /\ p[d] = r
      /\ \A c \in Designs : c # d => p[c] = o[c]
    BY <1>3, <1>4
<1>6. PICK n \in Nat : n = Len(s)
    BY <1>3
<1>7. /\ Dirs(p, d) = 1 .. n + 1 /\ Dirs(o, d) = 1 .. n
      /\ \A c \in Designs : c # d => Dirs(p, c) = Dirs(o, c)
    BY <1>1, <1>3, <1>5, <1>6 DEF Dirs
<1>8. When(p, d, n + 1) = 0
    BY <1>3, <1>5, <1>6, NoDirIs DEF When
<1>9. ASSUME NEW c \in Designs, NEW l \in Dirs(o, c)
      PROVE  l \in Dirs(p, c) /\ When(p, c, l) = When(o, c, l)
  <2>1. CASE c = d
    <3>1. l \in 1 .. n /\ l \in 1 .. n + 1
        BY <1>7, <2>1
    <3>2. l \in Dirs(p, c)
        BY <1>7, <2>1, <3>1
    <3>3. r[l] = s[l]
        BY <1>3, <1>6, <3>1
    <3>4. p[c] = r /\ o[c] = s
        BY <1>1, <1>5, <2>1
    <3>5. When(p, c, l) = When(o, c, l)
        BY <3>3, <3>4, Zenon DEF When
    <3> QED
        BY <3>2, <3>5
  <2>2. CASE c # d
      BY <1>5, <1>7, <2>2 DEF When
  <2> QED
      BY <2>1, <2>2
<1>10. ASSUME NEW c \in Designs, NEW l \in Dirs(p, c)
       PROVE  When(p, c, l) \in Nat /\ When(p, c, l) < u
  <2>1. CASE c = d /\ l = n + 1
      BY <1>8, <2>1
  <2>2. CASE ~(c = d /\ l = n + 1)
    <3>1. l \in Dirs(o, c)
      <4>1. CASE c = d
        <5>1. l \in 1 .. n + 1 /\ l # n + 1
            BY <1>7, <2>2, <4>1
        <5> QED
            BY <1>7, <4>1, <5>1
      <4>2. CASE c # d
          BY <1>7, <4>2
      <4> QED
          BY <4>1, <4>2
    <3>2. PICK m \in Nat : m = When(o, c, l)
        BY <3>1 DEF Written
    <3>3. m < t
        BY <3>1, <3>2 DEF Written
    <3>4. When(p, c, l) = m
        BY <1>9, <3>1, <3>2
    <3> QED
        BY <3>2, <3>3, <3>4
  <2> QED
      BY <2>1, <2>2
<1>11. ASSUME NEW c \in Designs, NEW l \in Dirs(o, c)
       PROVE  l \in Dirs(p, c) /\ When(o, c, l) <= When(p, c, l)
  <2>1. PICK m \in Nat : m = When(o, c, l)
      BY DEF Written
  <2>2. When(p, c, l) = m /\ l \in Dirs(p, c)
      BY <1>9, <2>1
  <2> QED
      BY <2>1, <2>2
<1>12. Written(p, u)
    BY <1>10 DEF Written
<1> QED
  <2>1. Grown(o, p)
      BY <1>11 DEF Grown
  <2>2. n + 1 \in 1 .. n + 1 /\ n + 1 \in Nat
      OBVIOUS
  <2>3. Len(o[d]) + 1 = n + 1
      BY <1>1, <1>6
  <2> QED
      BY <1>5, <1>7, <1>12, <2>1, <2>2, <2>3

LEMMA EditStep ==
    ASSUME TreeInv, Edit PROVE TreeInv' /\ Grown(outs, outs') /\ Later
<1>1. PICK f \in File : edits' = edits \cup {<<f, now>>}
    BY DEF Edit
<1>2. now' = now + 1 /\ outs' = outs /\ build' = build /\ now \in Nat
    BY DEF Edit, Tick, TreeInv
<1>3. \A x \in edits' : x \in edits \/ x[2] = now
    BY <1>1
<1>4. \A x \in edits' : x[2] \in Nat /\ x[2] < now'
  <2>1. \A x \in edits : x[2] \in Nat /\ x[2] < now
      BY DEF TreeInv
  <2> QED
      BY <1>2, <1>3, <2>1
<1>5. Written(outs, now)
    BY DEF TreeInv
<1>6. Written(outs', now')
    BY <1>2, <1>5, StillWritten
<1>7. TreeInv'
    BY <1>2, <1>4, <1>6 DEF TreeInv
<1>8. Grown(outs, outs')
    BY <1>2, <1>5, GrownSame
<1>9. Later
    BY <1>2, <1>3 DEF Later
<1> QED
    BY <1>7, <1>8, <1>9

LEMMA BuildBeginsStep ==
    ASSUME TreeInv, BuildBegins
    PROVE  TreeInv' /\ Grown(outs, outs') /\ Later
<1>1. now' = now + 1 /\ edits' = edits /\ now \in Nat
    BY DEF BuildBegins, Tick, TreeInv
<1>2. /\ Later
      /\ \A x \in edits' : x[2] \in Nat /\ x[2] < now'
  <2>1. \A x \in edits : x[2] \in Nat /\ x[2] < now
      BY DEF TreeInv
  <2> QED
      BY <1>1, <2>1 DEF Later
<1>3. outs \in [Designs -> Seq(Dir)] /\ Written(outs, now)
    BY DEF TreeInv
<1>4. PICK d \in Designs :
        \/ /\ outs' = [outs EXCEPT ![d] = Append(outs[d], NoDir)]
           /\ build' = [design |-> d, id |-> now, stage |-> "report",
                        dir |-> Len(outs[d]) + 1]
        \/ /\ outs[d] # <<>> /\ outs' = outs
           /\ build' = [design |-> d, id |-> now, stage |-> "report", dir |-> 1]
    BY DEF BuildBegins
<1>5. CASE outs' = [outs EXCEPT ![d] = Append(outs[d], NoDir)]
           /\ build' = [design |-> d, id |-> now, stage |-> "report",
                        dir |-> Len(outs[d]) + 1]
  <2>1. now' \in Nat /\ now < now'
      BY <1>1
  <2>2. /\ outs' \in [Designs -> Seq(Dir)] /\ Written(outs', now')
        /\ Grown(outs, outs')
        /\ Len(outs[d]) + 1 \in Nat /\ Len(outs[d]) + 1 \in Dirs(outs', d)
      BY <1>1, <1>3, <1>5, <2>1, DirAdded
  <2>3. PICK n \in Nat : n = Len(outs[d]) + 1
      BY <2>2
  <2>4. build' \in Builds /\ build'.design = d /\ build'.dir = n
      BY <1>1, <1>5, <2>3 DEF Builds, Stages
  <2>5. TreeInv'
      BY <1>1, <1>2, <2>2, <2>3, <2>4 DEF TreeInv
  <2> QED
      BY <1>2, <2>2, <2>5
<1>6. CASE outs[d] # <<>> /\ outs' = outs
           /\ build' = [design |-> d, id |-> now, stage |-> "report", dir |-> 1]
  <2>1. PICK s \in Seq(Dir) : s = outs[d]
      BY <1>3
  <2>2. 1 \in Dirs(outs', d)
      BY <1>6, <2>1, EmptySeq DEF Dirs
  <2>3. build' \in Builds /\ build'.design = d /\ build'.dir = 1
      BY <1>1, <1>6 DEF Builds, Stages
  <2>4. Written(outs', now')
      BY <1>1, <1>3, <1>6, StillWritten
  <2>5. TreeInv'
      BY <1>1, <1>2, <1>3, <1>6, <2>2, <2>3, <2>4 DEF TreeInv
  <2> QED
      BY <1>2, <1>3, <1>6, <2>5, GrownSame
<1> QED
    BY <1>4, <1>5, <1>6

(* What a build leaves: its report, its probes, then its bitstream.        *)
LEMMA StageStep ==
    ASSUME TreeInv, NEW v \in Dir, NEW b \in Builds,
           build.stage # "none", build' = b, edits' = edits,
           b = NoBuild \/ (b.design = build.design /\ b.dir = build.dir),
           outs' = [outs EXCEPT ![build.design] =
                       [outs[build.design] EXCEPT ![build.dir] = v]],
           now' \in Nat, now <= now', v.bit.at < now',
           When(outs, build.design, build.dir) <= v.bit.at
    PROVE  TreeInv' /\ Grown(outs, outs') /\ Later
<1>0. PICK d \in Designs : d = build.design
    BY DEF TreeInv
<1>1. PICK k \in Dirs(outs, d) : k = build.dir
    BY <1>0 DEF TreeInv
<1>2. outs \in [Designs -> Seq(Dir)] /\ Written(outs, now) /\ now \in Nat
    BY DEF TreeInv
<1>3. outs' = [outs EXCEPT ![d] = [outs[d] EXCEPT ![k] = v]]
    BY <1>0, <1>1
<1>4. When(outs, d, k) <= v.bit.at
    BY <1>0, <1>1
<1>5. /\ outs' \in [Designs -> Seq(Dir)] /\ Written(outs', now')
      /\ Grown(outs, outs')
      /\ \A c \in Designs : Dirs(outs', c) = Dirs(outs, c)
  <2>1. PICK p : p = outs'
      OBVIOUS
  <2>2. PICK u \in Nat : u = now' /\ now <= u /\ v.bit.at < u
      OBVIOUS
  <2>3. p = [outs EXCEPT ![d] = [outs[d] EXCEPT ![k] = v]]
      BY <1>3, <2>1
  <2>4. /\ p \in [Designs -> Seq(Dir)] /\ Written(p, u)
        /\ Grown(outs, p)
        /\ \A c \in Designs : Dirs(p, c) = Dirs(outs, c)
      BY <1>2, <1>4, <2>2, <2>3, DirWritten
  <2> QED
      BY <2>1, <2>2, <2>4
<1>6. /\ Later
      /\ \A x \in edits' : x[2] \in Nat /\ x[2] < now'
  <2>1. \A x \in edits : x[2] \in Nat /\ x[2] < now
      BY DEF TreeInv
  <2> QED
      BY <1>2, <2>1 DEF Later
<1>7. b.stage # "none" => /\ b.design \in Designs
                          /\ b.dir \in Dirs(outs', b.design)
  <2>1. CASE b = NoBuild
      BY <2>1 DEF NoBuild
  <2>2. CASE b.design = build.design /\ b.dir = build.dir
      BY <1>0, <1>1, <1>5, <2>2
  <2> QED
      BY <2>1, <2>2
<1>8. TreeInv'
    BY <1>5, <1>6, <1>7 DEF TreeInv
<1> QED
    BY <1>5, <1>6, <1>8

LEMMA BuildDir ==
    ASSUME TreeInv, build.stage # "none"
    PROVE  /\ outs[build.design][build.dir] \in Dir
           /\ When(outs, build.design, build.dir) \in Nat
           /\ When(outs, build.design, build.dir) < now
<1>0. PICK d \in Designs : d = build.design
    BY DEF TreeInv
<1>1. PICK k \in Dirs(outs, d) : k = build.dir
    BY <1>0 DEF TreeInv
<1>2. PICK s \in Seq(Dir) : s = outs[d]
    BY DEF TreeInv
<1>3. s[k] \in Dir
    BY <1>2 DEF Dirs
<1>4. When(outs, d, k) \in Nat /\ When(outs, d, k) < now
    BY DEF TreeInv, Written
<1> QED
    BY <1>0, <1>1, <1>2, <1>3, <1>4

LEMMA ReportStep ==
    ASSUME TreeInv, Report PROVE TreeInv' /\ Grown(outs, outs') /\ Later
<1>1. PICK w \in Dir : w = outs[build.design][build.dir]
    BY BuildDir DEF Report
<1>2. PICK v : v = [w EXCEPT !.rpt = build.id]
    OBVIOUS
<1>3. build \in Builds /\ now \in Nat
    BY DEF TreeInv
<1>4. v \in Dir /\ v.bit = w.bit
    BY <1>2, <1>3 DEF Dir, Builds
<1>5. PICK b \in Builds : /\ build' = b
                          /\ b = NoBuild \/ (b.design = build.design /\ b.dir = build.dir)
  <2>1. [build EXCEPT !.stage = "probes"] \in Builds
      BY <1>3 DEF Builds, Stages
  <2>2. NoBuild \in Builds
      BY DEF NoBuild, Builds, Stages
  <2>3. CASE build' = [build EXCEPT !.stage = "probes"]
      BY <1>3, <2>1, <2>3 DEF Builds
  <2>4. CASE build' = NoBuild
      BY <2>2, <2>4
  <2> QED
      BY <2>3, <2>4 DEF Report
<1>6. outs' = [outs EXCEPT ![build.design] =
                  [outs[build.design] EXCEPT ![build.dir] = v]]
    BY <1>1, <1>2 DEF Report
<1>7. PICK m \in Nat : m = When(outs, build.design, build.dir) /\ m < now
    BY BuildDir DEF Report
<1>8. v.bit.at = m
    BY <1>1, <1>4, <1>7 DEF When
<1>9. now' = now /\ edits' = edits /\ build.stage # "none"
    BY DEF Report
<1>10. /\ now' \in Nat /\ now <= now' /\ v.bit.at < now'
       /\ When(outs, build.design, build.dir) <= v.bit.at
    BY <1>3, <1>7, <1>8, <1>9
<1> QED
    BY <1>4, <1>5, <1>6, <1>9, <1>10, StageStep

LEMMA ProbesStep ==
    ASSUME TreeInv, Probes PROVE TreeInv' /\ Grown(outs, outs') /\ Later
<1>1. PICK w \in Dir : w = outs[build.design][build.dir]
    BY BuildDir DEF Probes
<1>2. PICK v : v = [w EXCEPT !.ltx.id = build.id]
    OBVIOUS
<1>3. build \in Builds /\ now \in Nat
    BY DEF TreeInv
<1>4. v \in Dir /\ v.bit = w.bit
    BY <1>2, <1>3 DEF Dir, Stamp, Builds
<1>5. PICK b \in Builds : /\ build' = b
                          /\ b = NoBuild \/ (b.design = build.design /\ b.dir = build.dir)
  <2>1. [build EXCEPT !.stage = "bitstream"] \in Builds
      BY <1>3 DEF Builds, Stages
  <2> QED
      BY <1>3, <2>1 DEF Probes, Builds
<1>6. outs' = [outs EXCEPT ![build.design] =
                  [outs[build.design] EXCEPT ![build.dir] = v]]
    BY <1>1, <1>2 DEF Probes
<1>7. PICK m \in Nat : m = When(outs, build.design, build.dir) /\ m < now
    BY BuildDir DEF Probes
<1>8. v.bit.at = m
    BY <1>1, <1>4, <1>7 DEF When
<1>9. now' = now /\ edits' = edits /\ build.stage # "none"
    BY DEF Probes
<1>10. /\ now' \in Nat /\ now <= now' /\ v.bit.at < now'
       /\ When(outs, build.design, build.dir) <= v.bit.at
    BY <1>3, <1>7, <1>8, <1>9
<1> QED
    BY <1>4, <1>5, <1>6, <1>9, <1>10, StageStep

LEMMA BitstreamStep ==
    ASSUME TreeInv, Bitstream PROVE TreeInv' /\ Grown(outs, outs') /\ Later
<1>1. PICK w \in Dir : w = outs[build.design][build.dir]
    BY BuildDir DEF Bitstream
<1>2. PICK v : v = [w EXCEPT !.bit = [id |-> build.id, at |-> now]]
    OBVIOUS
<1>3. build \in Builds /\ now \in Nat
    BY DEF TreeInv
<1>4. v \in Dir /\ v.bit.at = now
    BY <1>2, <1>3 DEF Dir, Stamp, Builds
<1>5. PICK b \in Builds : build' = b /\ b = NoBuild
    BY DEF Bitstream, NoBuild, Builds, Stages
<1>6. outs' = [outs EXCEPT ![build.design] =
                  [outs[build.design] EXCEPT ![build.dir] = v]]
    BY <1>1, <1>2 DEF Bitstream
<1>7. PICK m \in Nat : m = When(outs, build.design, build.dir) /\ m < now
    BY BuildDir DEF Bitstream
<1>8. m <= v.bit.at /\ v.bit.at < now + 1 /\ now + 1 \in Nat /\ now <= now + 1
    BY <1>3, <1>4, <1>7
<1>9. now' = now + 1 /\ edits' = edits /\ build.stage # "none"
    BY DEF Bitstream, Tick
<1> QED
    BY <1>3, <1>4, <1>5, <1>6, <1>7, <1>8, <1>9, StageStep

LEMMA TreeStep ==
    ASSUME TreeInv, Tree PROVE TreeInv' /\ Grown(outs, outs') /\ Later
BY EditStep, BuildBeginsStep, ReportStep, ProbesStep, BitstreamStep DEF Tree

-----------------------------------------------------------------------------
(***************************************************************************)
(* The files a build of a design reads are among those the check dates,    *)
(* and newest_source is not earlier than any edit of the files it is given.*)
(***************************************************************************)
LEMMA DependenciesCover ==
    ASSUME NEW d \in Designs PROVE Read(d) \subseteq dependencies(d)
<1> DEFINE named == NamedBy(Own[d])
           scripts == (Own[d] \cup named) \cap Script
<1>1. Own[d] \subseteq File /\ named \subseteq File
    BY NamingAssumption DEF NamedBy
<1>2. dependencies(d) = Own[d] \cup named \cup NamedBy(scripts)
    BY DEF dependencies
<1>3. \A f \in named : f \in Script \/ Names[f] = {}
    BY <1>1, NamingAssumption DEF NamedBy
<1>4. NamedBy(named) \subseteq NamedBy(scripts)
    BY <1>3 DEF NamedBy
<1>5. NamedBy(NamedBy(named)) \subseteq NamedBy(scripts)
  <2> SUFFICES ASSUME NEW f \in named, NEW g \in Names[f], NEW h \in Names[g]
               PROVE  h \in NamedBy(scripts)
      BY DEF NamedBy
  <2>1. f \in Script /\ f \in scripts
      BY <1>3
  <2>2. g \in Script
      BY <1>1, NamingAssumption
  <2>3. h \in Names[f]
      BY <2>1, <2>2, NamingAssumption
  <2> QED
      BY <2>1, <2>3 DEF NamedBy
<1>6. \A S, T : NamedBy(S \cup T) = NamedBy(S) \cup NamedBy(T)
    BY DEF NamedBy
<1>7. Read(d) \subseteq Own[d] \cup named \cup NamedBy(named) \cup NamedBy(NamedBy(named))
  <2>1. PICK O : O = Own[d]
      OBVIOUS
  <2>2. PICK M : M = NamedBy(O)
      OBVIOUS
  <2>3. PICK N : N = NamedBy(M)
      OBVIOUS
  <2>4. NamedBy(O \cup M) = M \cup N
      BY <1>6, <2>2, <2>3
  <2>5. NamedBy(M \cup N) = N \cup NamedBy(N)
      BY <1>6, <2>3
  <2>6. Read(d) = ((O \cup M) \cup (M \cup N)) \cup NamedBy((O \cup M) \cup (M \cup N))
      BY <2>1, <2>2, <2>4, Zenon DEF Read
  <2>7. NamedBy((O \cup M) \cup (M \cup N)) = (M \cup N) \cup (N \cup NamedBy(N))
      BY <1>6, <2>4, <2>5
  <2> QED
      BY <2>1, <2>2, <2>3, <2>6, <2>7
<1> QED
    BY <1>2, <1>4, <1>5, <1>7

LEMMA NewestIs ==
    ASSUME TreeInv, NEW files
    PROVE  /\ newest_source(files) \in Nat
           /\ \A x \in edits : x[1] \in files => x[2] <= newest_source(files)
<1> DEFINE times == {0} \cup {e[2] : e \in {e \in edits : e[1] \in files}}
<1>1. now \in Nat /\ \A x \in edits : x[2] \in Nat /\ x[2] < now
    BY DEF TreeInv
<1>2. times \in SUBSET Nat /\ times # {} /\ \A t \in times : t < now + 1
    BY <1>1
<1>3. now + 1 \in Nat
    BY <1>1
<1>4. \A x \in edits : x[1] \in files => x[2] \in times
    OBVIOUS
<1>5. newest_source(files) = CHOOSE t \in times : \A u \in times : u <= t
    BY DEF newest_source
<1> HIDE DEF times
<1>6. \E t \in times : \A u \in times : u <= t
    BY <1>2, <1>3, GreatestExists
<1>7. newest_source(files) \in times /\ \A u \in times : u <= newest_source(files)
    BY <1>5, <1>6, Zenon
<1> QED
    BY <1>2, <1>4, <1>7

-----------------------------------------------------------------------------
(***************************************************************************)
(* The tool.  What it has looked at is not older than any edit of a file   *)
(* the build reads that came before the look, and stays so.                *)
(***************************************************************************)
Fresh(ed, d, c, t) ==
    \A x \in ed : x[1] \in Read(d) /\ x[2] < c => x[2] <= t

EntriesOf(r) == {r.entries[i] : i \in 1 .. Len(r.entries)}

EntrySound(o, ed, t, e) ==
    /\ e.design \in Designs
    /\ e.checked \in Nat /\ e.checked <= t
    /\ e.bit \in Dirs(o, e.design)
    /\ ~e.stale => Fresh(ed, e.design, e.checked, When(o, e.design, e.bit))

AssetSound(ed, E, a) ==
    a.kind = "bit" =>
        /\ a.content.at \in Nat
        /\ \A e \in E : e.design = a.design /\ ~e.stale =>
               Fresh(ed, e.design, e.checked, a.content.at)

Pcs == {"idle", "collecting", "refused", "staging", "dry run", "published"}

RelTyped(r) ==
    \E S, A : r \in [pc : Pcs, at : Nat \ {0}, allow : BOOLEAN,
                     entries : Seq(S), assets : SUBSET A]

(* Each design has been asked at most once, and in its turn.               *)
InTurn(r) ==
    /\ \A e \in EntriesOf(r) :
          \E m \in 1 .. Len(Design) : m < r.at /\ e.design = Design[m]
    /\ \A e, f \in EntriesOf(r) : e.design = f.design => e = f

Complete(r) ==
    \A e \in EntriesOf(r) : \E a \in r.assets : a.design = e.design /\ a.kind = "bit"

RelInv ==
    /\ RelTyped(rel)
    /\ InTurn(rel)
    /\ \A e \in EntriesOf(rel) : EntrySound(outs, edits, now, e)
    /\ \A a \in rel.assets : AssetSound(edits, EntriesOf(rel), a)
    /\ rel.pc \in {"idle", "collecting"} => rel.assets = {}
    /\ rel.pc = "published" => Complete(rel)

LEMMA FreshKept ==
    ASSUME TreeInv, TreeInv', Later, NEW d, NEW c \in Nat, c <= now, NEW t \in Nat, NEW u \in Nat,
           t <= u, Fresh(edits, d, c, t)
    PROVE  Fresh(edits', d, c, u)
<1> SUFFICES ASSUME NEW x \in edits', x[1] \in Read(d), x[2] < c
             PROVE  x[2] <= u
    BY DEF Fresh
<1>1. CASE x \in edits
  <2>1. x[2] <= t /\ x[2] \in Nat
      BY <1>1 DEF Fresh, TreeInv
  <2> QED
      BY <2>1
<1>2. CASE x[2] >= now
    BY <1>2 DEF TreeInv
<1> QED
    BY <1>1, <1>2 DEF Later

LEMMA TreeKeeps ==
    ASSUME TreeInv, TreeInv', Grown(outs, outs'), Later, RelInv, rel' = rel
    PROVE  RelInv'
<1>1. ASSUME NEW e \in EntriesOf(rel) PROVE EntrySound(outs', edits', now', e)
  <2>1. EntrySound(outs, edits, now, e)
      BY DEF RelInv
  <2>2. PICK d \in Designs, c \in Nat : d = e.design /\ c = e.checked /\ c <= now
      BY <2>1 DEF EntrySound
  <2>3. PICK k \in Dirs(outs, d) : k = e.bit
      BY <2>1, <2>2 DEF EntrySound
  <2>4. PICK t \in Nat : t = When(outs, d, k)
      BY DEF TreeInv, Written
  <2>5. k \in Dirs(outs', d) /\ t <= When(outs', d, k)
      BY <2>4 DEF Grown
  <2>6. PICK u \in Nat : u = When(outs', d, k)
      BY <2>5 DEF TreeInv, Written
  <2>7. ~e.stale => Fresh(edits', d, c, u)
    <3>1. ~e.stale => Fresh(edits, d, c, t)
        BY <2>1, <2>2, <2>3, <2>4, Zenon DEF EntrySound
    <3> QED
        BY <2>2, <2>5, <2>6, <3>1, FreshKept
  <2>8. c <= now'
      BY <2>2 DEF TreeInv, Later
  <2> QED
      BY <2>2, <2>3, <2>5, <2>6, <2>7, <2>8, Zenon DEF EntrySound
<1>2. ASSUME NEW a \in rel.assets PROVE AssetSound(edits', EntriesOf(rel), a)
  <2> SUFFICES ASSUME a.kind = "bit"
               PROVE  AssetSound(edits', EntriesOf(rel), a)
      BY DEF AssetSound
  <2>1. AssetSound(edits, EntriesOf(rel), a)
      BY DEF RelInv
  <2>2. PICK t \in Nat : t = a.content.at
      BY <2>1 DEF AssetSound
  <2>3. ASSUME NEW e \in EntriesOf(rel), e.design = a.design, ~e.stale
        PROVE  Fresh(edits', e.design, e.checked, t)
    <3>1. EntrySound(outs, edits, now, e)
        BY DEF RelInv
    <3>2. PICK d \in Designs, c \in Nat : d = e.design /\ c = e.checked /\ c <= now
        BY <3>1 DEF EntrySound
    <3>3. Fresh(edits, d, c, t)
        BY <2>1, <2>2, <2>3, <3>2, Zenon DEF AssetSound
    <3>4. t <= t
        OBVIOUS
    <3>5. Fresh(edits', d, c, t)
        BY <3>2, <3>3, <3>4, FreshKept
    <3> QED
        BY <3>2, <3>5
  <2> QED
      BY <2>2, <2>3, Zenon DEF AssetSound
<1> QED
    BY <1>1, <1>2, Zenon DEF RelInv

LEMMA RunKept ==
    ASSUME RelInv, UNCHANGED <<now, edits, outs>>, RelTyped(rel'),
           EntriesOf(rel') = EntriesOf(rel), rel'.at = rel.at,
           \A a \in rel'.assets : AssetSound(edits, EntriesOf(rel), a),
           rel'.pc \in {"idle", "collecting"} => rel'.assets = {},
           rel'.pc = "published" => Complete(rel')
    PROVE  RelInv'
<1>1. InTurn(rel')
    BY DEF RelInv, InTurn
<1> QED
    BY <1>1 DEF RelInv

LEMMA BeginStep == ASSUME RelInv, Begin PROVE RelInv'
<1>1. PICK allow \in BOOLEAN :
          rel' = [NoRun EXCEPT !.pc = "collecting", !.allow = allow]
    BY DEF Begin
<1>2. PICK new : /\ new = [pc |-> "collecting", at |-> 1, allow |-> allow,
                           entries |-> <<>>, assets |-> {}]
                 /\ rel' = new
    BY <1>1 DEF NoRun
<1>3. /\ new \in [pc : Pcs, at : Nat \ {0}, allow : BOOLEAN,
                  entries : Seq({}), assets : SUBSET {}]
      /\ new.entries = <<>> /\ new.assets = {} /\ new.pc = "collecting"
    BY <1>2 DEF Pcs
<1>4. EntriesOf(rel') = {}
    BY <1>2, <1>3 DEF EntriesOf
<1>5. RelTyped(rel')
    BY <1>2, <1>3, Zenon DEF RelTyped
<1> QED
    BY <1>2, <1>3, <1>4, <1>5 DEF RelInv, InTurn

LEMMA CollectedStep == ASSUME RelInv, Collected PROVE RelInv'
<1>1. PICK S, A : rel \in [pc : Pcs, at : Nat \ {0}, allow : BOOLEAN,
                           entries : Seq(S), assets : SUBSET A]
    BY DEF RelInv, RelTyped
<1>2. PICK pc \in {"refused", "staging"} : rel' = [rel EXCEPT !.pc = pc]
    BY DEF Collected
<1>3. /\ rel' \in [pc : Pcs, at : Nat \ {0}, allow : BOOLEAN,
                   entries : Seq(S), assets : SUBSET A]
      /\ rel'.entries = rel.entries /\ rel'.at = rel.at
      /\ rel'.assets = rel.assets /\ rel'.pc = pc
    BY <1>1, <1>2 DEF Pcs
<1>4. RelTyped(rel')
    BY <1>3, Zenon DEF RelTyped
<1>5. EntriesOf(rel') = EntriesOf(rel)
    BY <1>3 DEF EntriesOf
<1>6. UNCHANGED <<now, edits, outs>>
    BY DEF Collected
<1> QED
    BY <1>2, <1>3, <1>4, <1>5, <1>6, RunKept DEF RelInv

LEMMA PublishStep ==
    ASSUME TreeInv, RelInv, NEW dry \in BOOLEAN, Publish(dry) PROVE RelInv'
<1>1. PICK S, A : rel \in [pc : Pcs, at : Nat \ {0}, allow : BOOLEAN,
                           entries : Seq(S), assets : SUBSET A]
    BY DEF RelInv, RelTyped
<1>2. PICK pc \in {"dry run", "published"} : rel' = [rel EXCEPT !.pc = pc]
    BY DEF Publish
<1>3. /\ rel' \in [pc : Pcs, at : Nat \ {0}, allow : BOOLEAN,
                   entries : Seq(S), assets : SUBSET A]
      /\ rel'.entries = rel.entries /\ rel'.at = rel.at
      /\ rel'.assets = rel.assets /\ rel'.pc = pc
    BY <1>1, <1>2 DEF Pcs
<1>4. RelTyped(rel')
    BY <1>3, Zenon DEF RelTyped
<1>5. EntriesOf(rel') = EntriesOf(rel)
    BY <1>3 DEF EntriesOf
<1>6. UNCHANGED <<now, edits, outs>>
    BY DEF Publish
<1>7. Complete(rel)
  <2> SUFFICES ASSUME NEW i \in 1 .. Len(rel.entries)
               PROVE  \E a \in rel.assets : /\ a.design = rel.entries[i].design
                                            /\ a.kind = "bit"
      BY DEF Complete, EntriesOf
  <2>1. PICK e : e = rel.entries[i]
      OBVIOUS
  <2>2. EntrySound(outs, edits, now, e)
      BY <2>1 DEF RelInv, EntriesOf
  <2>3. e["bit"] # 0
      BY <2>2, DirsPositive DEF EntrySound, TreeInv
  <2>4. rel.entries[i]["bit"] # 0
      BY <2>1, <2>3
  <2> QED
      BY <2>4 DEF Publish
<1>8. Complete(rel')
    BY <1>3, <1>5, <1>7 DEF Complete
<1> QED
    BY <1>2, <1>3, <1>4, <1>5, <1>6, <1>8, RunKept DEF RelInv

LEMMA CopyStep == ASSUME TreeInv, RelInv, Copy PROVE RelInv'
<1>1. PICK S, A : rel \in [pc : Pcs, at : Nat \ {0}, allow : BOOLEAN,
                           entries : Seq(S), assets : SUBSET A]
    BY DEF RelInv, RelTyped
<1>2. PICK i \in 1 .. Len(rel.entries), kind \in {"bit", "ltx"} :
          rel' = [rel EXCEPT !.assets = @ \cup {Asset(rel.entries[i], kind)}]
    BY DEF Copy
<1>3. PICK e \in EntriesOf(rel) : e = rel.entries[i]
    BY DEF EntriesOf
<1>4. PICK new : new = Asset(e, kind)
    OBVIOUS
<1>5. /\ rel' \in [pc : Pcs, at : Nat \ {0}, allow : BOOLEAN,
                   entries : Seq(S), assets : SUBSET (A \cup {new})]
      /\ rel'.entries = rel.entries /\ rel'.at = rel.at
      /\ rel'.assets = rel.assets \cup {new} /\ rel'.pc = rel.pc
    BY <1>1, <1>2, <1>3, <1>4
<1>6. RelTyped(rel')
    BY <1>5, Zenon DEF RelTyped
<1>7. EntriesOf(rel') = EntriesOf(rel)
    BY <1>5 DEF EntriesOf
<1>8. UNCHANGED <<now, edits, outs>> /\ rel.pc = "staging"
    BY DEF Copy
<1>9. AssetSound(edits, EntriesOf(rel), new)
  <2> SUFFICES ASSUME new.kind = "bit"
               PROVE  AssetSound(edits, EntriesOf(rel), new)
      BY DEF AssetSound
  <2>1. EntrySound(outs, edits, now, e)
      BY DEF RelInv
  <2>2. PICK d \in Designs : d = e.design
      BY <2>1 DEF EntrySound
  <2>3. PICK k \in Dirs(outs, d) : k = e.bit
      BY <2>1, <2>2 DEF EntrySound
  <2>4. PICK t \in Nat : t = When(outs, d, k)
      BY DEF TreeInv, Written
  <2>5. kind = "bit" /\ new.design = d /\ new.content = outs[d][k].bit
      BY <1>4, <2>2, <2>3 DEF Asset
  <2>6. new.content.at = t
      BY <2>4, <2>5 DEF When
  <2>7. \A f \in EntriesOf(rel) : f.design = d => f = e
      BY <2>2 DEF RelInv, InTurn
  <2>8. ~e.stale => Fresh(edits, e.design, e.checked, t)
      BY <2>1, <2>2, <2>3, <2>4, Zenon DEF EntrySound
  <2> QED
      BY <2>5, <2>6, <2>7, <2>8, Zenon DEF AssetSound
<1>10. \A a \in rel'.assets : AssetSound(edits, EntriesOf(rel), a)
    BY <1>5, <1>9 DEF RelInv
<1> QED
    BY <1>5, <1>6, <1>7, <1>8, <1>10, RunKept DEF RelInv

LEMMA EntriesAppend ==
    ASSUME NEW S, NEW s \in Seq(S), NEW r, NEW q, NEW e,
           r.entries = s, q.entries = Append(s, e)
    PROVE  EntriesOf(q) = EntriesOf(r) \cup {e}
<1>1. PICK t : t = Append(s, e)
    OBVIOUS
<1>2. /\ Len(t) = Len(s) + 1 /\ Len(s) \in Nat /\ t[Len(s) + 1] = e
      /\ \A i \in 1 .. Len(s) : t[i] = s[i]
    BY <1>1
<1>3. PICK n \in Nat : n = Len(s)
    BY <1>2
<1>4. {t[i] : i \in 1 .. n + 1} = {s[i] : i \in 1 .. n} \cup {e}
    BY <1>2, <1>3
<1>5. EntriesOf(q) = {t[i] : i \in 1 .. n + 1}
    BY <1>1, <1>2, <1>3 DEF EntriesOf
<1>6. EntriesOf(r) = {s[i] : i \in 1 .. n}
    BY <1>3 DEF EntriesOf
<1> QED
    BY <1>4, <1>5, <1>6

(* A design that is passed over, or at which the run stops.                *)
LEMMA NotCollected ==
    ASSUME RelInv, UNCHANGED <<now, edits, outs>>, rel.pc = "collecting",
           \/ rel' = [rel EXCEPT !.at = @ + 1]
           \/ rel' = [rel EXCEPT !.pc = "refused"]
    PROVE  RelInv'
<1>1. PICK S, A : rel \in [pc : Pcs, at : Nat \ {0}, allow : BOOLEAN,
                           entries : Seq(S), assets : SUBSET A]
    BY DEF RelInv, RelTyped
<1>2. /\ rel' \in [pc : Pcs, at : Nat \ {0}, allow : BOOLEAN,
                   entries : Seq(S), assets : SUBSET A]
      /\ rel'.entries = rel.entries /\ rel'.at >= rel.at
      /\ rel'.assets = rel.assets /\ rel'.pc # "published"
  <2>1. PICK n \in Nat \ {0} : n = rel.at
      BY <1>1
  <2>2. CASE rel' = [rel EXCEPT !.at = @ + 1]
    <3>1. rel' = [rel EXCEPT !.at = n + 1] /\ n + 1 \in Nat \ {0} /\ n + 1 >= n
        BY <2>1, <2>2
    <3>2. /\ rel' \in [pc : Pcs, at : Nat \ {0}, allow : BOOLEAN,
                        entries : Seq(S), assets : SUBSET A]
          /\ rel'.entries = rel.entries /\ rel'.at = n + 1
          /\ rel'.assets = rel.assets /\ rel'.pc = "collecting"
        BY <1>1, <3>1
    <3> QED
        BY <2>1, <3>1, <3>2
  <2>3. CASE rel' = [rel EXCEPT !.pc = "refused"]
    <3>1. /\ rel' \in [pc : Pcs, at : Nat \ {0}, allow : BOOLEAN,
                        entries : Seq(S), assets : SUBSET A]
          /\ rel'.entries = rel.entries /\ rel'.at = rel.at
          /\ rel'.assets = rel.assets /\ rel'.pc = "refused"
        BY <1>1, <2>3 DEF Pcs
    <3> QED
        BY <2>1, <3>1
  <2> QED
      BY <2>2, <2>3
<1>3. RelTyped(rel')
    BY <1>2, Zenon DEF RelTyped
<1>4. EntriesOf(rel') = EntriesOf(rel)
    BY <1>2 DEF EntriesOf
<1>5. InTurn(rel')
  <2>1. PICK n \in Nat, m \in Nat : n = rel.at /\ m = rel'.at /\ m >= n
      BY <1>1, <1>2
  <2>2. \A e \in EntriesOf(rel) : \E j \in 1 .. Len(Design) : j < n /\ e.design = Design[j]
      BY <2>1 DEF RelInv, InTurn
  <2>3. Len(Design) \in Nat
      BY ReleaseAssumption
  <2>4. \A e \in EntriesOf(rel) : \E j \in 1 .. Len(Design) : j < m /\ e.design = Design[j]
      BY <2>1, <2>2, <2>3
  <2> QED
      BY <1>4, <2>1, <2>4 DEF RelInv, InTurn
<1> QED
    BY <1>2, <1>3, <1>4, <1>5 DEF RelInv

LEMMA CollectStep == ASSUME TreeInv, RelInv, Collect PROVE RelInv'
<1>1. PICK n \in Nat \ {0} : n = rel.at /\ n <= Len(Design)
    BY DEF Collect, RelInv, RelTyped
<1>2. Len(Design) \in Nat /\ n \in 1 .. Len(Design)
    BY <1>1, ReleaseAssumption
<1>3. PICK d \in Designs : d = Design[n]
    BY <1>2 DEF Designs
<1>4. UNCHANGED <<now, edits, outs>> /\ rel.pc = "collecting"
    BY DEF Collect
<1> DEFINE K == First(With(d, "bit"))
           Old == outs[d][K].bit.at < newest_source(dependencies(d))
<1>5. CASE \/ rel' = [rel EXCEPT !.at = @ + 1]
           \/ rel' = [rel EXCEPT !.pc = "refused"]
    BY <1>4, <1>5, NotCollected
<1>6. CASE /\ With(d, "bit") # {}
           /\ \E t \in timing(d) : \E x :
                 rel' = [rel EXCEPT !.at = @ + 1, !.entries = Append(@,
                    [design |-> d, checked |-> now, stale |-> Old, bit |-> K,
                     timing |-> t, ltx |-> x])]
  <2>1. PICK k \in Dirs(outs, d) : k = K
    <3>1. With(d, "bit") \in SUBSET Nat
      <4>1. With(d, "bit") \subseteq Dirs(outs, d)
          BY DEF With, Dirs
      <4>2. outs \in [Designs -> Seq(Dir)]
          BY DEF TreeInv
      <4> QED
          BY <4>1, <4>2, DirsPositive
    <3>2. K \in With(d, "bit")
        BY <1>6, <3>1, FirstIs
    <3> QED
        BY <3>2 DEF With, Dirs
  <2>2. PICK w \in Nat : w = When(outs, d, k)
      BY DEF TreeInv, Written
  <2>3. PICK s \in Nat : s = newest_source(dependencies(d))
      BY NewestIs
  <2>4. Old <=> w < s
      BY <2>1, <2>2, <2>3 DEF When
  <2> HIDE DEF K, Old
  <2>5. PICK e, t, x :
          /\ e = [design |-> d, checked |-> now, stale |-> Old, bit |-> k,
                  timing |-> t, ltx |-> x]
          /\ rel' = [rel EXCEPT !.at = @ + 1, !.entries = Append(@, e)]
      BY <1>6, <2>1, Zenon
  <2>6. e.design = d /\ e.checked = now /\ e.bit = k /\ (e.stale <=> Old)
      BY <2>5, Zenon
  <2>7. Fresh(edits, d, now, w) \/ e.stale
    <3> SUFFICES ASSUME ~(w < s) PROVE Fresh(edits, d, now, w)
        BY <2>4, <2>6, Zenon
    <3>1. SUFFICES ASSUME NEW y \in edits, y[1] \in Read(d) PROVE y[2] <= w
        BY DEF Fresh
    <3>2. y[1] \in dependencies(d)
        BY <3>1, DependenciesCover
    <3>3. y[2] \in Nat /\ y[2] <= s
        BY <2>3, <3>2, NewestIs DEF TreeInv
    <3> QED
        BY <3>3
  <2>8. EntrySound(outs, edits, now, e)
    <3>1. now \in Nat /\ now <= now
        BY DEF TreeInv
    <3>2. ~e.stale => Fresh(edits, e.design, e.checked, When(outs, e.design, e.bit))
        BY <2>2, <2>6, <2>7, Zenon
    <3> QED
        BY <2>6, <3>1, <3>2, Zenon DEF EntrySound
  <2>9. PICK S, A : rel \in [pc : Pcs, at : Nat \ {0}, allow : BOOLEAN,
                             entries : Seq(S), assets : SUBSET A]
      BY DEF RelInv, RelTyped
  <2>10. /\ rel' \in [pc : Pcs, at : Nat \ {0}, allow : BOOLEAN,
                      entries : Seq(S \cup {e}), assets : SUBSET A]
         /\ rel'.entries = Append(rel.entries, e) /\ rel'.at = n + 1
         /\ rel'.assets = rel.assets /\ rel'.pc = "collecting"
    <3>1. PICK q \in Seq(S) : q = rel.entries
        BY <2>9
    <3>2. PICK p : p = Append(q, e)
        OBVIOUS
    <3>3. p \in Seq(S \cup {e})
        BY <3>2
    <3>4. PICK r : r = [rel EXCEPT !.at = n + 1]
        OBVIOUS
    <3>5. /\ r \in [pc : Pcs, at : Nat \ {0}, allow : BOOLEAN,
                    entries : Seq(S), assets : SUBSET A]
          /\ r.at = n + 1 /\ r.assets = rel.assets /\ r.pc = "collecting"
        BY <1>4, <2>9, <3>4
    <3>6. rel' = [r EXCEPT !.entries = p]
        BY <1>1, <2>5, <3>1, <3>2, <3>4
    <3>7. /\ rel' \in [pc : Pcs, at : Nat \ {0}, allow : BOOLEAN,
                        entries : Seq(S \cup {e}), assets : SUBSET A]
          /\ rel'.entries = p /\ rel'.at = n + 1
          /\ rel'.assets = rel.assets /\ rel'.pc = "collecting"
        BY <3>3, <3>5, <3>6
    <3> QED
        BY <3>1, <3>2, <3>7
  <2>11. RelTyped(rel')
      BY <2>10, Zenon DEF RelTyped
  <2>12. EntriesOf(rel') = EntriesOf(rel) \cup {e}
    <3>1. PICK r, q : r = rel /\ q = rel'
        OBVIOUS
    <3>2. rel.entries \in Seq(S)
        BY <2>9
    <3>3. PICK en \in Seq(S) : en = rel.entries
        BY <3>2
    <3>4. q.entries = Append(en, e) /\ r.entries = en
        BY <2>10, <3>1, <3>3
    <3>5. EntriesOf(q) = EntriesOf(r) \cup {e}
        BY <3>4, EntriesAppend
    <3> QED
        BY <3>1, <3>5
  <2>13. InTurn(rel')
    <3>1. \A f \in EntriesOf(rel) : \E m \in 1 .. Len(Design) : m < n /\ f.design = Design[m]
        BY <1>1 DEF RelInv, InTurn
    <3>2. \A f \in EntriesOf(rel) : f.design # d
        BY <1>2, <1>3, <3>1, ReleaseAssumption
    <3>3. \A f, g \in EntriesOf(rel) : f.design = g.design => f = g
        BY DEF RelInv, InTurn
    <3>4. \A f \in EntriesOf(rel') : \E m \in 1 .. Len(Design) : m < n + 1 /\ f.design = Design[m]
        BY <1>2, <1>3, <2>6, <2>12, <3>1
    <3>5. \A f, g \in EntriesOf(rel') : f.design = g.design => f = g
        BY <2>6, <2>12, <3>2, <3>3
    <3> QED
        BY <2>10, <3>4, <3>5 DEF InTurn
  <2>14. rel'.assets = {}
      BY <1>4, <2>10 DEF RelInv
  <2>15. \A f \in EntriesOf(rel') : EntrySound(outs', edits', now', f)
      BY <1>4, <2>8, <2>12 DEF RelInv
  <2> QED
      BY <2>10, <2>11, <2>13, <2>14, <2>15 DEF RelInv
<1> QED
  <2>1. ASSUME NEW t \in timing(d),
               With(d, "bit") # {},
               rel' = [rel EXCEPT !.at = @ + 1, !.entries = Append(@,
                     [design |-> d, checked |-> now, stale |-> Old,
                      bit |-> K, timing |-> t,
                      ltx |-> IF With(d, "ltx") = {} THEN 0
                              ELSE First(With(d, "ltx"))])]
        PROVE  RelInv'
    <3>1. PICK x : x = IF With(d, "ltx") = {} THEN 0 ELSE First(With(d, "ltx"))
        OBVIOUS
    <3> HIDE DEF K, Old
    <3> QED
        BY <1>6, <2>1, <3>1, Zenon
  <2> QED
      BY <1>1, <1>3, <1>5, <2>1, Zenon DEF Collect

LEMMA PublishedIsFresh == ASSUME TreeInv, RelInv PROVE PublishedFresh
<1> SUFFICES ASSUME rel.pc = "published", NEW i \in 1 .. Len(rel.entries),
                    ~rel.entries[i].stale, NEW x \in edits,
                    x[1] \in Read(rel.entries[i].design),
                    x[2] < rel.entries[i].checked,
                    Published(rel.entries[i]).content.at < x[2]
             PROVE  FALSE
    BY Zenon DEF PublishedFresh
<1>1. PICK e \in EntriesOf(rel) : e = rel.entries[i]
    BY DEF EntriesOf
<1>2. \E a \in rel.assets : a.design = e.design /\ a.kind = "bit"
    BY DEF RelInv, Complete
<1>3. PICK a \in rel.assets : a = Published(e) /\ a.design = e.design /\ a.kind = "bit"
    BY <1>2, Zenon DEF Published
<1>4. AssetSound(edits, EntriesOf(rel), a)
    BY DEF RelInv
<1>5. PICK t \in Nat : t = a.content.at
    BY <1>3, <1>4 DEF AssetSound
<1>6. Fresh(edits, e.design, e.checked, t)
    BY <1>1, <1>3, <1>4, <1>5, Zenon DEF AssetSound
<1>7. x[2] <= t /\ x[2] \in Nat
    BY <1>1, <1>6 DEF Fresh, TreeInv
<1>8. t < x[2]
    BY <1>1, <1>3, <1>5
<1> QED
    BY <1>7, <1>8

-----------------------------------------------------------------------------
ToolInv == TreeInv /\ RelInv

LEMMA ToolInitInv == RelInit => ToolInv
<1> SUFFICES ASSUME RelInit PROVE ToolInv
    OBVIOUS
<1>1. PICK o : o = outs /\ o = [d \in Designs |-> <<>>]
    BY DEF RelInit
<1>2. o \in [Designs -> Seq(Dir)] /\ \A d \in Designs : Dirs(o, d) = {}
    BY <1>1 DEF Dirs
<1>3. Written(o, 1)
    BY <1>2 DEF Written
<1>4. NoBuild \in Builds /\ NoBuild.stage = "none"
    BY DEF NoBuild, Builds, Stages
<1>5. TreeInv
    BY <1>1, <1>2, <1>3, <1>4 DEF TreeInv, RelInit
<1>6. /\ NoRun \in [pc : Pcs, at : Nat \ {0}, allow : BOOLEAN,
                    entries : Seq({}), assets : SUBSET {}]
      /\ NoRun.entries = <<>> /\ NoRun.assets = {} /\ NoRun.pc = "idle"
    BY DEF NoRun, Pcs
<1>7. EntriesOf(NoRun) = {}
    BY <1>6 DEF EntriesOf
<1>8. RelTyped(NoRun)
    BY <1>6, Zenon DEF RelTyped
<1>9. rel = NoRun
    BY DEF RelInit
<1>10. RelInv
    BY <1>6, <1>7, <1>8, <1>9 DEF RelInv, InTurn
<1> QED
    BY <1>5, <1>10 DEF ToolInv

LEMMA ToolStep == ToolInv /\ [ToolNext]_toolvars => ToolInv'
<1> SUFFICES ASSUME ToolInv, [ToolNext]_toolvars PROVE ToolInv'
    OBVIOUS
<1> USE DEF ToolInv
<1>1. CASE UNCHANGED relvars
    BY <1>1 DEF relvars, TreeInv, RelInv
<1>2. CASE Tree
  <2>1. TreeInv' /\ Grown(outs, outs') /\ Later
      BY <1>2, TreeStep
  <2>2. rel' = rel
      BY <1>2 DEF Tree, Edit, BuildBegins, Report, Probes, Bitstream
  <2> QED
      BY <2>1, <2>2, TreeKeeps
<1>3. ASSUME UNCHANGED <<now, edits, outs, build>> PROVE TreeInv'
    BY <1>3 DEF TreeInv
<1>4. CASE Begin
    BY <1>3, <1>4, BeginStep DEF Begin
<1>5. CASE Collect
    BY <1>3, <1>5, CollectStep DEF Collect
<1>6. CASE Collected
    BY <1>3, <1>6, CollectedStep DEF Collected
<1>7. CASE Copy
    BY <1>3, <1>7, CopyStep DEF Copy
<1>8. ASSUME NEW dry \in BOOLEAN, Publish(dry) PROVE ToolInv'
    BY <1>3, <1>8, PublishStep DEF Publish
<1> QED
    BY <1>1, <1>2, <1>4, <1>5, <1>6, <1>7, <1>8 DEF ToolNext, RelNext, toolvars, relvars

(* "It refuses to publish a bitstream older than a file it was built from  *)
(* ... --allow-stale overrides that and marks the affected designs in the  *)
(* notes" (tools/README.md): whatever is edited and built while the tool   *)
(* runs, nothing that the build of a published bitstream reads had been    *)
(* edited since it was written when it was looked at, unless it is marked. *)
THEOREM FreshRelease == ToolSpec => []PublishedFresh
<1>1. ToolInit => ToolInv
    BY ToolInitInv DEF ToolInit
<1>2. ToolInv => PublishedFresh
    BY PublishedIsFresh DEF ToolInv
<1> QED
    BY <1>1, <1>2, ToolStep, PTL DEF ToolSpec

-----------------------------------------------------------------------------
(***************************************************************************)
(* A finite set with a strict total order can be listed in that order.     *)
(***************************************************************************)
Total(T, R) ==
    /\ \A a, b \in T : a = b \/ <<a, b>> \in R \/ <<b, a>> \in R
    /\ \A a \in T : <<a, a>> \notin R
    /\ \A a, b, c \in T : <<a, b>> \in R /\ <<b, c>> \in R => <<a, c>> \in R

Lists(S, R, n, s) ==
    /\ s \in [1 .. n -> S]
    /\ \A y \in S : \E i \in 1 .. n : s[i] = y
    /\ \A i, j \in 1 .. n : i < j => <<s[i], s[j]>> \in R

LEMMA Listed ==
    ASSUME NEW T, NEW R, Total(T, R), NEW S \in SUBSET T, NEW n \in Nat \ {0},
           NEW m \in S, \A y \in S : y = m \/ <<y, m>> \in R,
           NEW s, Lists(S \ {m}, R, n - 1, s)
    PROVE  \E t : Lists(S, R, n, t)
<1> DEFINE t == [i \in 1 .. n |-> IF i = n THEN m ELSE s[i]]
<1>1. \A i \in 1 .. n : i # n => i \in 1 .. n - 1
    OBVIOUS
<1>2. t \in [1 .. n -> S]
    BY <1>1 DEF Lists
<1>3. ASSUME NEW y \in S PROVE \E i \in 1 .. n : t[i] = y
  <2>1. CASE y = m
      BY <2>1
  <2>2. CASE y # m
    <3>1. PICK i \in 1 .. n - 1 : s[i] = y
        BY <2>2 DEF Lists
    <3>2. i \in 1 .. n /\ i # n
        BY <3>1
    <3> QED
        BY <3>1, <3>2
  <2> QED
      BY <2>1, <2>2
<1>4. ASSUME NEW i \in 1 .. n, NEW j \in 1 .. n, i < j
      PROVE  <<t[i], t[j]>> \in R
  <2>1. i \in 1 .. n - 1 /\ i # n
      BY <1>4
  <2>2. t[i] = s[i] /\ s[i] \in S \ {m}
      BY <2>1 DEF Lists
  <2>3. CASE j = n
      BY <2>2, <2>3
  <2>4. CASE j # n
      BY <1>1, <1>4, <2>1, <2>2, <2>4 DEF Lists
  <2> QED
      BY <2>3, <2>4
<1> HIDE DEF t
<1>5. Lists(S, R, n, t)
    BY <1>2, <1>3, <1>4 DEF Lists
<1> QED
    BY <1>5

LEMMA ListExists ==
    ASSUME NEW T, NEW R, Total(T, R), NEW S \in SUBSET T, IsFiniteSet(S)
    PROVE  \E s : Lists(S, R, Cardinality(S), s)
<1> DEFINE Good(U) == \E s : Lists(U, R, Cardinality(U), s)
           B == {n \in Nat : \E U \in SUBSET T :
                    IsFiniteSet(U) /\ Cardinality(U) = n /\ ~Good(U)}
<1>1. Cardinality(S) \in Nat
    BY FS_CardinalityType
<1> SUFFICES ASSUME B # {} PROVE FALSE
    BY <1>1
<1>2. B \in SUBSET Nat
    OBVIOUS
<1>3. PICK n \in B : \A k \in B : n <= k
    BY <1>2, FirstIs
<1>4. n \in Nat
    BY <1>2
<1>5. PICK U \in SUBSET T : IsFiniteSet(U) /\ Cardinality(U) = n /\ ~Good(U)
    BY <1>3
<1>6. \A V \in SUBSET T : IsFiniteSet(V) /\ Cardinality(V) = n - 1 /\ n > 0 => Good(V)
  <2> SUFFICES ASSUME NEW V \in SUBSET T, IsFiniteSet(V), Cardinality(V) = n - 1,
                      n > 0, ~Good(V)
               PROVE  FALSE
      OBVIOUS
  <2>1. n - 1 \in Nat /\ ~(n <= n - 1)
      BY <1>4
  <2>2. n - 1 \in B
      BY <2>1
  <2> QED
      BY <1>3, <2>1, <2>2
<1> HIDE DEF B
<1>7. CASE n = 0
  <2>1. U = {}
      BY <1>5, <1>7, FS_EmptySet
  <2>2. Lists(U, R, 0, <<>>)
      BY <2>1 DEF Lists
  <2> QED
      BY <1>5, <1>7, <2>2
<1>8. CASE n > 0
  <2>1. PICK x \in U : TRUE
      BY <1>5, <1>8, FS_EmptySet
  <2>2. \A y \in U : /\ IsFiniteSet(U \ {y}) /\ Cardinality(U \ {y}) = n - 1
                     /\ U \ {y} \in SUBSET T
      BY <1>5, FS_RemoveElement
  <2>3. \A y \in U : \E s : Lists(U \ {y}, R, n - 1, s)
    <3>1. \A y \in U : Good(U \ {y})
        BY <1>6, <1>8, <2>2
    <3> QED
        BY <2>2, <3>1
  <2>4. PICK s : Lists(U \ {x}, R, n - 1, s)
      BY <2>3
  <2>5. \E m \in U : \A y \in U : y = m \/ <<y, m>> \in R
    <3>1. CASE n = 1
      <4>1. U \ {x} = {}
        <5>1. IsFiniteSet(U \ {x}) /\ Cardinality(U \ {x}) = 0
            BY <2>2, <3>1
        <5> QED
            BY <5>1, FS_EmptySet, Zenon
      <4>2. \A y \in U : y = x
          BY <4>1
      <4> QED
          BY <4>2
    <3>2. CASE n # 1
      <4>1. n - 1 \in 1 .. n - 1
          BY <1>4, <1>8, <3>2
      <4>2. PICK l \in U : l = s[n - 1] /\ l # x
          BY <2>4, <4>1 DEF Lists
      <4>3. \A y \in U : y = x \/ y = l \/ <<y, l>> \in R
        <5> SUFFICES ASSUME NEW y \in U, y # x, y # l PROVE <<y, l>> \in R
            OBVIOUS
        <5>1. PICK i \in 1 .. n - 1 : s[i] = y
            BY <2>4 DEF Lists
        <5>2. i # n - 1
            BY <4>2, <5>1
        <5>3. i < n - 1
            BY <1>4, <4>1, <5>1, <5>2
        <5> QED
            BY <2>4, <4>1, <4>2, <5>1, <5>3 DEF Lists
      <4>4. CASE <<l, x>> \in R
        <5>1. \A y \in U : y = x \/ <<y, x>> \in R
            BY <4>3, <4>4 DEF Total
        <5> QED
            BY <5>1
      <4>5. CASE <<x, l>> \in R
        <5>1. \A y \in U : y = l \/ <<y, l>> \in R
            BY <4>3, <4>5
        <5> QED
            BY <5>1
      <4> QED
          BY <4>2, <4>4, <4>5 DEF Total
    <3> QED
        BY <3>1, <3>2
  <2>6. PICK m \in U : \A y \in U : y = m \/ <<y, m>> \in R
      BY <2>5
  <2>7. PICK r : Lists(U \ {m}, R, n - 1, r)
      BY <2>3
  <2>8. \E t : Lists(U, R, n, t)
      BY <1>4, <1>8, <2>6, <2>7, Listed
  <2> QED
      BY <1>5, <2>8
<1> QED
    BY <1>4, <1>7, <1>8

(***************************************************************************)
(* The generator.  The keys it accepts are in a strict total order, so the *)
(* file it writes has every one of them once.                              *)
(***************************************************************************)
Keys(lines) == {key(lines[i]) : i \in Placing(lines)}

LEMMA KeysOrdered ==
    ASSUME NEW K, \A k \in K : k[1] \in ToSet(EMIT_ORDER) /\ k[2] \in Nat,
           \A k, l \in K : k[1] = l[1] /\ k[2] = l[2] => k = l
    PROVE  \E R : /\ Total(K, R)
                  /\ \A k, l \in K : <<k, l>> \in R <=> Earlier(k, l)
<1> DEFINE R == {p \in K \X K : Earlier(p[1], p[2])}
<1>1. \A k, l \in K : <<k, l>> \in R <=> Earlier(k, l)
    OBVIOUS
<1>2. \A g \in ToSet(EMIT_ORDER) : Rank(g) \in Nat /\ EMIT_ORDER[Rank(g)] = g
  <2> SUFFICES ASSUME NEW g \in ToSet(EMIT_ORDER)
               PROVE  Rank(g) \in Nat /\ EMIT_ORDER[Rank(g)] = g
      OBVIOUS
  <2>1. Len(EMIT_ORDER) \in Nat /\ DOMAIN EMIT_ORDER = 1 .. Len(EMIT_ORDER)
      BY PinAssumption
  <2>2. \E i \in 1 .. Len(EMIT_ORDER) : EMIT_ORDER[i] = g
      BY <2>1 DEF ToSet
  <2>3. Rank(g) \in 1 .. Len(EMIT_ORDER) /\ EMIT_ORDER[Rank(g)] = g
      BY <2>2, Zenon DEF Rank
  <2> QED
      BY <2>1, <2>3
<1> HIDE DEF R
<1>3. ASSUME NEW k \in K, NEW l \in K
      PROVE  k = l \/ Earlier(k, l) \/ Earlier(l, k)
  <2>1. PICK a \in Nat, b \in Nat : a = Rank(k[1]) /\ b = Rank(l[1])
      BY <1>2
  <2>2. CASE a = b
    <3>1. k[1] = l[1]
        BY <1>2, <2>1, <2>2
    <3> QED
        BY <3>1 DEF Earlier
  <2>3. CASE a # b
      BY <2>1, <2>3 DEF Earlier
  <2> QED
      BY <2>2, <2>3
<1>4. \A k \in K : ~Earlier(k, k)
    BY <1>2 DEF Earlier
<1>5. ASSUME NEW k \in K, NEW l \in K, NEW m \in K, Earlier(k, l), Earlier(l, m)
      PROVE  Earlier(k, m)
  <2>1. PICK a \in Nat, b \in Nat, c \in Nat :
            a = Rank(k[1]) /\ b = Rank(l[1]) /\ c = Rank(m[1])
      BY <1>2
  <2>2. a < b \/ (k[1] = l[1] /\ k[2] < l[2])
      BY <1>5, <2>1 DEF Earlier
  <2>3. b < c \/ (l[1] = m[1] /\ l[2] < m[2])
      BY <1>5, <2>1 DEF Earlier
  <2>4. a < c \/ (k[1] = m[1] /\ k[2] < m[2])
      BY <2>1, <2>2, <2>3
  <2> QED
      BY <2>1, <2>4 DEF Earlier
<1>6. Total(K, R)
    BY <1>1, <1>3, <1>4, <1>5 DEF Total
<1> QED
    BY <1>1, <1>6

(* SetToSeqs are the lists of a set's elements without repetition.         *)
LEMMA ListsAreSeqs ==
    ASSUME NEW S, IsFiniteSet(S), NEW n \in Nat, n = Cardinality(S),
           NEW s \in SetToSeqs(S)
    PROVE  /\ s \in [1 .. n -> S]
           /\ \A y \in S : \E i \in 1 .. n : s[i] = y
<1>1. s \in [1 .. n -> S] /\ \A i, j \in 1 .. n : i # j => s[i] # s[j]
    BY DEF SetToSeqs
<1>2. s \in Injection(1 .. n, S)
    BY <1>1 DEF Injection, IsInjective
<1>3. IsFiniteSet(1 .. n) /\ Cardinality(1 .. n) = n
    BY FS_Interval
<1>4. s \in Surjection(1 .. n, S)
    BY <1>2, <1>3, FS_Injection
<1> QED
    BY <1>1, <1>4 DEF Surjection

LEMMA EmitFaithful ==
    ASSUME NEW lines, lines \in Seq(ToSet(lines)), NEW ch \in Channels,
           \A i \in 1 .. Len(lines) : lines[i].form = "ddr4" => lines[i].idx \in Nat,
           Accepted(lines), Emittable(parse_vendor_file(lines))
    PROVE  LET file == emit(ch, parse_vendor_file(lines))
           IN  /\ file \in Seq(ToSet(file)) /\ Len(file) = Count
               /\ ToSet(file) = {PackagePin(Port(ch, key(lines[i])), lines[i].pin) :
                                    i \in Placing(lines)}
<1> DEFINE K == Keys(lines)
           P == parse_vendor_file(lines)
           Mine(k) == {i \in Placing(lines) : key(lines[i]) = k}
<1>1. Placing(lines) \subseteq 1 .. Len(lines) /\ Len(lines) \in Nat
    BY DEF Placing
<1>2. IsFiniteSet(K) /\ Cardinality(K) = Count
  <2>1. IsFiniteSet(1 .. Len(lines))
      BY <1>1, FS_Interval
  <2>2. IsFiniteSet(Placing(lines))
      BY <1>1, <2>1, FS_Subset
  <2> DEFINE f == [i \in Placing(lines) |-> key(lines[i])]
  <2>3. f \in Surjection(Placing(lines), K)
      BY DEF Surjection, Keys
  <2>4. IsFiniteSet(K)
      BY <2>2, <2>3, FS_Surjection
  <2> QED
      BY <2>4 DEF Accepted, Keys
<1>3. DOMAIN P = K
    BY DEF parse_vendor_file, Keys
<1>4. \A i \in Placing(lines) : P[key(lines[i])] = lines[i].pin
  <2> SUFFICES ASSUME NEW i \in Placing(lines) PROVE P[key(lines[i])] = lines[i].pin
      OBVIOUS
  <2>1. PICK k : k = key(lines[i])
      OBVIOUS
  <2>2. k \in K
      BY <2>1 DEF Keys
  <2>3. PICK m : m = CHOOSE j \in Placing(lines) :
                        /\ key(lines[j]) = k
                        /\ \A l \in Placing(lines) : key(lines[l]) = k => l <= j
      OBVIOUS
  <2>4. \A l \in Placing(lines) : key(lines[l]) = k => l = i
      BY <2>1 DEF Accepted
  <2>5. i <= i
      BY <1>1
  <2>6. m \in Placing(lines) /\ key(lines[m]) = k
      BY <2>1, <2>3, <2>4, <2>5, Zenon
  <2>7. m = i
      BY <2>4, <2>6
  <2>8. P[k] = lines[m].pin
      BY <2>2, <2>3, Zenon DEF parse_vendor_file, Keys
  <2> QED
      BY <2>1, <2>7, <2>8
<1>5. /\ \A k \in K : k[1] \in ToSet(EMIT_ORDER) /\ k[2] \in Nat
      /\ \A k, l \in K : k[1] = l[1] /\ k[2] = l[2] => k = l
  <2>1. \A k \in K : k[1] \in ToSet(EMIT_ORDER)
      BY <1>3 DEF Emittable
  <2>2. \A k \in K : k[2] \in Nat /\ k = <<k[1], k[2]>>
      BY DEF Keys, key, Placing, NoIndex
  <2> QED
      BY <2>1, <2>2
<1> HIDE DEF K, P
<1>6. PICK R : Total(K, R) /\ \A k, l \in K : <<k, l>> \in R <=> Earlier(k, l)
    BY <1>5, KeysOrdered
<1>7. Count \in Nat
    BY PinAssumption
<1>8. \E s \in SetToSeqs(K) : \A i, j \in DOMAIN s : i < j => Earlier(s[i], s[j])
  <2>1. PICK s : Lists(K, R, Count, s)
      BY <1>2, <1>6, ListExists
  <2>2. s \in [1 .. Count -> K] /\ \A i, j \in 1 .. Count : i < j => <<s[i], s[j]>> \in R
      BY <2>1 DEF Lists
  <2>3. \A i, j \in 1 .. Count : i # j => s[i] # s[j]
    <3> SUFFICES ASSUME NEW i \in 1 .. Count, NEW j \in 1 .. Count, i < j, s[i] = s[j]
                 PROVE  FALSE
        BY <1>7
    <3>1. <<s[i], s[i]>> \in R /\ s[i] \in K
        BY <2>2
    <3> QED
        BY <1>6, <3>1 DEF Total
  <2>4. s \in SetToSeqs(K)
      BY <1>2, <2>2, <2>3 DEF SetToSeqs
  <2>5. \A i, j \in DOMAIN s : i < j => Earlier(s[i], s[j])
      BY <1>6, <2>2
  <2> QED
      BY <2>4, <2>5
<1>9. PICK keys \in SetToSeqs(K) :
          keys = CHOOSE s \in SetToSeqs(K) :
                     \A i, j \in DOMAIN s : i < j => Earlier(s[i], s[j])
    BY <1>8, Zenon
<1>10. /\ keys \in [1 .. Count -> K]
       /\ \A y \in K : \E i \in 1 .. Count : keys[i] = y
    BY <1>2, <1>7, ListsAreSeqs
<1>11. Len(keys) = Count
    BY <1>7, <1>10
<1>12. PICK file : file = [i \in 1 .. Count |-> PackagePin(Port(ch, keys[i]), P[keys[i]])]
    OBVIOUS
<1>13. emit(ch, P) = file
  <2>1. emit(ch, P) = [i \in 1 .. Len(keys) |-> PackagePin(Port(ch, keys[i]), P[keys[i]])]
    <3>1. PICK D : D = K
        OBVIOUS
    <3>2. DOMAIN P = D
        BY <1>3, <3>1
    <3>3. keys = CHOOSE s \in SetToSeqs(DOMAIN P) :
                     \A i, j \in DOMAIN s : i < j => Earlier(s[i], s[j])
        BY <1>3, <1>9
    <3> QED
        BY <3>3 DEF emit
  <2> QED
      BY <1>11, <1>12, <2>1
<1>14. file \in Seq(ToSet(file)) /\ Len(file) = Count
  <2>1. Len(file) = Count /\ DOMAIN file = 1 .. Count
      BY <1>7, <1>12
  <2>2. \A i \in 1 .. Count : file[i] \in ToSet(file)
      BY <2>1 DEF ToSet
  <2>3. file = [i \in 1 .. Count |-> file[i]]
      BY <1>12
  <2> QED
      BY <1>7, <2>1, <2>2, <2>3
<1>15. ToSet(file) = {PackagePin(Port(ch, k), P[k]) : k \in K}
    BY <1>10, <1>12 DEF ToSet
<1>16. {PackagePin(Port(ch, k), P[k]) : k \in K}
          = {PackagePin(Port(ch, key(lines[i])), P[key(lines[i])]) : i \in Placing(lines)}
    BY DEF K, Keys
<1>17. {PackagePin(Port(ch, key(lines[i])), P[key(lines[i])]) : i \in Placing(lines)}
          = {PackagePin(Port(ch, key(lines[i])), lines[i].pin) : i \in Placing(lines)}
    BY <1>4
<1> QED
    BY <1>13, <1>14, <1>15, <1>16, <1>17 DEF P

Whole(f, lines, ch) ==
    /\ Len(f) = Count
    /\ ToSet(f) = {PackagePin(Port(ch, key(lines[i])), lines[i].pin) :
                      i \in Placing(lines)}

GenInv ==
    /\ WellFormed(scene)
    /\ DOMAIN xdc = DOMAIN scene.xdc
    /\ \E S : xdc \in [DOMAIN scene.xdc -> S]
    /\ gen \in [at : Nat \ {0}, is : {"off", "running", "done", "gave up"}]
    /\ gen.is = "running" => gen.at \in Channels /\ scene.generates
    /\ GenFaithful

LEMMA GenInit == ToolInit => GenInv
<1> SUFFICES ASSUME ToolInit PROVE GenInv
    OBVIOUS
<1>1. WellFormed(NoScene)
  <2>1. PICK e : e = [ch \in Channels |-> <<>>]
      OBVIOUS
  <2>2. e \in Seq(ToSet(e)) /\ Channels \subseteq DOMAIN e
      BY <2>1, PinAssumption DEF ToSet
  <2>3. \A ch \in Channels : e[ch] = <<>>
      BY <2>1
  <2>4. <<>> \in Seq(ToSet(<<>>)) /\ Len(<<>>) = 0
      OBVIOUS
  <2>5. PICK s : s = NoScene /\ s.vendor = e /\ s.xdc = e /\ s.generates \in BOOLEAN
    <3>1. PICK s : s = NoScene
        OBVIOUS
    <3>2. s.vendor = e /\ s.xdc = e
        BY <2>1, <3>1 DEF NoScene
    <3>3. s.generates \in BOOLEAN
        BY <3>1, Zenon DEF NoScene
    <3> QED
        BY <3>1, <3>2, <3>3
  <2>6. ASSUME NEW ch \in Channels
        PROVE  LET lines == s.vendor[ch]
               IN  /\ lines \in Seq(ToSet(lines))
                   /\ \A i \in 1 .. Len(lines) :
                         lines[i].form = "ddr4" => lines[i].idx \in Nat
    <3>1. s.vendor[ch] = <<>>
        BY <2>3, <2>5
    <3> QED
        BY <2>4, <3>1
  <2>7. \A i \in 1 .. Len(s.xdc) : s.xdc[i] \in Seq(ToSet(s.xdc[i]))
    <3>1. DOMAIN e = Channels /\ \A i \in 1 .. Len(e) : i \in Channels
        BY <2>1, <2>2, PinAssumption
    <3>2. \A i \in 1 .. Len(e) : e[i] = <<>>
        BY <2>3, <3>1
    <3> QED
        BY <2>4, <2>5, <3>2
  <2>8. WellFormed(s)
      BY <2>2, <2>5, <2>6, <2>7 DEF WellFormed
  <2> QED
      BY <2>5, <2>8
<1>2. PICK s : PinStart(s) /\ WellFormed(s)
    BY <1>1, PinAssumption DEF ToolInit, PinInit
<1>3. /\ scene = s /\ xdc = s.xdc
      /\ gen \in [at : Nat \ {0}, is : {"off", "running", "done", "gave up"}]
      /\ gen.at = 1 /\ (gen.is = "running" => s.generates)
    BY <1>2 DEF PinStart
<1>4. 1 \in Channels /\ \A ch \in Channels : ~(ch < 1)
    BY PinAssumption
<1>5. GenFaithful
    BY <1>3, <1>4 DEF GenFaithful
<1>6. \E S : s.xdc \in [DOMAIN s.xdc -> S]
  <2>1. PICK x \in Seq(ToSet(s.xdc)) : x = s.xdc
      BY <1>2 DEF WellFormed
  <2>2. x \in [DOMAIN x -> ToSet(s.xdc)]
      BY <2>1
  <2> QED
      BY <2>1, <2>2
<1> QED
    BY <1>2, <1>3, <1>4, <1>5, <1>6 DEF GenInv

LEMMA GenerateStep == ASSUME GenInv, Generate PROVE GenInv'
<1>1. PICK n \in Channels : n = gen.at
    BY DEF GenInv, Generate
<1>2. n \in Nat \ {0} /\ n + 1 \in Nat \ {0}
    BY PinAssumption
<1>3. PICK lines : lines = vendor[n]
    OBVIOUS
<1>4. PICK S : xdc \in [DOMAIN scene.xdc -> S]
    BY DEF GenInv
<1>5. n \in DOMAIN scene.xdc
    BY DEF GenInv, WellFormed
<1>6. scene.generates /\ gen.is = "running" /\ scene' = scene
    BY DEF GenInv, Generate
<1>7. CASE /\ Accepted(lines) /\ Emittable(parse_vendor_file(lines))
           /\ xdc' = [xdc EXCEPT ![n] = emit(n, parse_vendor_file(lines))]
           /\ gen' = [at |-> n + 1,
                      is |-> IF n + 1 \in Channels THEN "running" ELSE "done"]
  <2>1. /\ lines \in Seq(ToSet(lines))
        /\ \A i \in 1 .. Len(lines) : lines[i].form = "ddr4" => lines[i].idx \in Nat
      BY <1>3 DEF GenInv, WellFormed, vendor
  <2>2. PICK f : f = emit(n, parse_vendor_file(lines))
      OBVIOUS
  <2>3. Whole(f, lines, n)
      BY <1>7, <2>1, <2>2, EmitFaithful DEF Whole
  <2>4. /\ xdc' \in [DOMAIN scene.xdc -> S \cup {f}] /\ xdc'[n] = f
        /\ \A ch \in Channels : ch # n => xdc'[ch] = xdc[ch]
    <3>1. xdc' = [xdc EXCEPT ![n] = f]
        BY <1>7, <2>2
    <3>2. Channels \subseteq DOMAIN scene.xdc
        BY DEF GenInv, WellFormed
    <3> QED
        BY <1>4, <1>5, <3>1, <3>2
  <2>5. /\ gen' \in [at : Nat \ {0}, is : {"off", "running", "done", "gave up"}]
        /\ gen'.at = n + 1 /\ (gen'.is = "running" => n + 1 \in Channels)
      BY <1>2, <1>7
  <2>6. ASSUME NEW ch \in Channels
        PROVE  IF ch < n + 1 THEN Whole(xdc'[ch], vendor[ch], ch)
                             ELSE xdc'[ch] = scene.xdc[ch]
    <3>1. IF ch < n THEN Whole(xdc[ch], vendor[ch], ch) ELSE xdc[ch] = scene.xdc[ch]
        BY <1>1, <1>6 DEF GenInv, GenFaithful, Faithful, Whole
    <3>2. ch \in Nat
        BY PinAssumption
    <3>3. CASE ch = n
        BY <1>2, <1>3, <2>3, <2>4, <3>3
    <3>4. CASE ch < n
        BY <1>2, <2>4, <3>1, <3>2, <3>4
    <3>5. CASE ch > n
        BY <1>2, <2>4, <3>1, <3>2, <3>5
    <3> QED
        BY <1>2, <3>2, <3>3, <3>4, <3>5
  <2>7. GenFaithful'
      BY <1>6, <2>5, <2>6 DEF GenFaithful, Faithful, Whole, vendor
  <2>8. DOMAIN xdc' = DOMAIN scene.xdc
      BY <2>4
  <2> QED
      BY <1>2, <1>6, <2>4, <2>5, <2>7, <2>8 DEF GenInv
<1>8. CASE gen' = [gen EXCEPT !.is = "gave up"] /\ UNCHANGED xdc
  <2>1. /\ gen' \in [at : Nat \ {0}, is : {"off", "running", "done", "gave up"}]
        /\ gen'.at = gen.at /\ gen'.is # "running"
      BY <1>8 DEF GenInv
  <2>2. GenFaithful'
    <3>1. gen'.at = gen.at /\ xdc' = xdc /\ scene' = scene /\ GenFaithful
        BY <1>6, <1>8, <2>1 DEF GenInv
    <3> QED
        BY <3>1 DEF GenFaithful, Faithful, vendor
  <2> QED
      BY <1>6, <1>8, <2>1, <2>2 DEF GenInv
<1> QED
    BY <1>1, <1>3, <1>7, <1>8 DEF Generate

LEMMA GenStep == GenInv /\ [ToolNext]_toolvars => GenInv'
<1> SUFFICES ASSUME GenInv, [ToolNext]_toolvars PROVE GenInv'
    OBVIOUS
<1>1. CASE UNCHANGED <<scene, xdc, gen>>
    BY <1>1 DEF GenInv, GenFaithful, Faithful, vendor
<1>2. CASE Generate
    BY <1>2, GenerateStep
<1> QED
    BY <1>1, <1>2 DEF ToolNext, PinNext, ReadFile, Validate, toolvars, pinvars

-----------------------------------------------------------------------------
(***************************************************************************)
(* The parser.  A fold is what its steps are: there is one order after     *)
(* every line, and the last of them is the result.                         *)
(***************************************************************************)
LEMMA MaxIs ==
    ASSUME NEW n \in Nat, NEW t \in SUBSET (1 .. n), t # {}
    PROVE  Max(t) \in t /\ \A y \in t : y <= Max(t)
<1>1. t \in SUBSET Nat /\ n + 1 \in Nat /\ \A y \in t : y < n + 1
    OBVIOUS
<1>2. \E x \in t : \A y \in t : y <= x
    BY <1>1, GreatestExists
<1>3. \E x \in t : \A y \in t : x >= y
    BY <1>1, <1>2
<1>4. Max(t) \in t /\ \A y \in t : Max(t) >= y
    BY <1>3, Zenon DEF Max
<1> QED
    BY <1>1, <1>4

Small(n, m) == {t \in SUBSET (1 .. n) : Cardinality(t) <= m}

Folds(g, T, b, s) ==
    g = [t \in T |-> IF t = {} THEN b ELSE Take(g[t \ {Max(t)}], s[Max(t)])]

LEMMA FoldExists ==
    ASSUME NEW n \in Nat, NEW b, NEW s
    PROVE  \E g : Folds(g, SUBSET (1 .. n), b, s)
<1> DEFINE B == {m \in Nat : ~\E g : Folds(g, Small(n, m), b, s)}
<1>1. \A t \in SUBSET (1 .. n) : /\ IsFiniteSet(t) /\ Cardinality(t) \in Nat
                                 /\ Cardinality(t) <= n
  <2>1. IsFiniteSet(1 .. n) /\ Cardinality(1 .. n) = n
      BY FS_Interval
  <2> QED
      BY <2>1, FS_Subset, FS_CardinalityType
<1>2. SUBSET (1 .. n) = Small(n, n)
    BY <1>1 DEF Small
<1> SUFFICES ASSUME B # {} PROVE FALSE
  <2>1. n \notin B => \E g : Folds(g, Small(n, n), b, s)
      OBVIOUS
  <2> QED
      BY <1>2, <2>1, Zenon
<1>3. PICK m \in B : \A k \in B : m <= k
  <2>1. B \in SUBSET Nat
      OBVIOUS
  <2> QED
      BY <2>1, FirstIs
<1>4. m \in Nat /\ ~\E g : Folds(g, Small(n, m), b, s)
    OBVIOUS
<1>5. m > 0 => \E g : Folds(g, Small(n, m - 1), b, s)
  <2> SUFFICES ASSUME m > 0, ~\E g : Folds(g, Small(n, m - 1), b, s) PROVE FALSE
      OBVIOUS
  <2>1. m - 1 \in B /\ ~(m <= m - 1)
      BY <1>4
  <2> QED
      BY <1>3, <2>1
<1> HIDE DEF B
<1>6. CASE m = 0
  <2> DEFINE g == [t \in Small(n, 0) |-> b]
  <2>1. \A t \in Small(n, 0) : t = {}
      BY <1>1, FS_EmptySet DEF Small
  <2>2. Folds(g, Small(n, 0), b, s)
      BY <2>1 DEF Folds
  <2> QED
      BY <1>4, <1>6, <2>2
<1>7. CASE m > 0
  <2>1. PICK g : Folds(g, Small(n, m - 1), b, s)
      BY <1>5, <1>7
  <2> DEFINE h == [t \in Small(n, m) |->
                     IF t = {} THEN b ELSE Take(g[t \ {Max(t)}], s[Max(t)])]
  <2>2. \A u \in Small(n, m - 1) : u \in Small(n, m) /\ h[u] = g[u]
    <3>1. \A u \in Small(n, m - 1) : u \in Small(n, m)
        BY <1>1, <1>4 DEF Small
    <3>2. \A u \in Small(n, m - 1) :
             g[u] = IF u = {} THEN b ELSE Take(g[u \ {Max(u)}], s[Max(u)])
        BY <2>1, Zenon DEF Folds
    <3> QED
        BY <3>1, <3>2
  <2>3. \A t \in Small(n, m) : t # {} => t \ {Max(t)} \in Small(n, m - 1)
    <3> SUFFICES ASSUME NEW t \in Small(n, m), t # {}
                 PROVE  t \ {Max(t)} \in Small(n, m - 1)
        OBVIOUS
    <3>1. t \in SUBSET (1 .. n) /\ Cardinality(t) <= m
        BY DEF Small
    <3>2. Max(t) \in t
        BY <3>1, MaxIs
    <3>3. Cardinality(t \ {Max(t)}) = Cardinality(t) - 1
        BY <1>1, <3>1, <3>2, FS_RemoveElement
    <3>4. PICK c \in Nat : c = Cardinality(t) /\ c <= m
        BY <1>1, <3>1
    <3>5. c - 1 <= m - 1
        BY <1>4, <3>4
    <3>6. t \ {Max(t)} \in SUBSET (1 .. n)
        BY <3>1
    <3> QED
        BY <3>3, <3>4, <3>5, <3>6 DEF Small
  <2>4. \A t \in Small(n, m) : t # {} => h[t \ {Max(t)}] = g[t \ {Max(t)}]
      BY <2>2, <2>3
  <2>5. PICK f : f = h
      OBVIOUS
  <2>6. f = [t \in Small(n, m) |->
               IF t = {} THEN b ELSE Take(f[t \ {Max(t)}], s[Max(t)])]
    <3> HIDE DEF h
    <3>1. \A t \in Small(n, m) :
             (IF t = {} THEN b ELSE Take(f[t \ {Max(t)}], s[Max(t)]))
           = (IF t = {} THEN b ELSE Take(g[t \ {Max(t)}], s[Max(t)]))
        BY <2>4, <2>5
    <3>2. [t \in Small(n, m) |->
               IF t = {} THEN b ELSE Take(f[t \ {Max(t)}], s[Max(t)])]
         = [t \in Small(n, m) |->
               IF t = {} THEN b ELSE Take(g[t \ {Max(t)}], s[Max(t)])]
        BY <3>1
    <3> QED
        BY <2>5, <3>2 DEF h
  <2>7. Folds(f, Small(n, m), b, s)
      BY <2>6 DEF Folds
  <2> QED
      BY <1>4, <2>7
<1> QED
    BY <1>4, <1>6, <1>7

LEMMA ParseSteps ==
    ASSUME NEW S, NEW s \in Seq(S), NEW n \in Nat, n = Len(s)
    PROVE  \A b : \E a : /\ a[0] = b
                         /\ \A k \in 1 .. n : a[k] = Take(a[k - 1], s[k])
                         /\ parse(b, s) = a[n]
<1> TAKE b
<1>1. DOMAIN s = 1 .. n
    OBVIOUS
<1>2. \E g : Folds(g, SUBSET (1 .. n), b, s)
    BY FoldExists
<1> DEFINE it == CHOOSE g : g = [t \in SUBSET (1 .. n) |->
                  IF t = {} THEN b ELSE Take(g[t \ {Max(t)}], s[Max(t)])]
<1>3. parse(b, s) = it[1 .. n]
    BY <1>1 DEF parse, FoldLeft, MapThenFoldSet
<1>4. it = [t \in SUBSET (1 .. n) |->
              IF t = {} THEN b ELSE Take(it[t \ {Max(t)}], s[Max(t)])]
    BY <1>2, Zenon DEF Folds
<1>5. PICK g : g = it
    OBVIOUS
<1> HIDE DEF it
<1>6. \A t \in SUBSET (1 .. n) :
         g[t] = IF t = {} THEN b ELSE Take(g[t \ {Max(t)}], s[Max(t)])
    BY <1>4, <1>5, Zenon
<1> DEFINE a == [k \in 0 .. n |-> g[1 .. k]]
<1>7. a[0] = b
  <2>1. 1 .. 0 = {} /\ 0 \in 0 .. n
      OBVIOUS
  <2>2. g[{}] = b
      BY <1>6
  <2> QED
      BY <2>1, <2>2
<1>8. ASSUME NEW k \in 1 .. n PROVE a[k] = Take(a[k - 1], s[k])
  <2>1. PICK t : t = 1 .. k
      OBVIOUS
  <2>2. t \in SUBSET (1 .. n) /\ t # {} /\ k \in t
    <3>1. k \in 1 .. k /\ \A j \in 1 .. k : j \in 1 .. n
        OBVIOUS
    <3> QED
        BY <2>1, <3>1
  <2>3. Max(t) = k
    <3>1. Max(t) \in t /\ \A y \in t : y <= Max(t)
        BY <2>2, MaxIs
    <3> QED
        BY <2>1, <2>2, <3>1
  <2>4. t \ {k} = 1 .. k - 1
      BY <2>1
  <2>5. g[t] = Take(g[t \ {k}], s[k])
      BY <1>6, <2>2, <2>3
  <2>6. k \in 0 .. n /\ k - 1 \in 0 .. n
      OBVIOUS
  <2>7. a[k] = g[t] /\ a[k - 1] = g[t \ {k}]
      BY <2>1, <2>4, <2>6
  <2> QED
      BY <2>5, <2>7
<1>9. parse(b, s) = a[n]
    BY <1>3, <1>5
<1> QED
    BY <1>7, <1>8, <1>9

-----------------------------------------------------------------------------
(***************************************************************************)
(* What the parser knows.  As long as the lines are of the kind it reads,  *)
(* its assignments are the ports the lines name, with their pins and       *)
(* standards.                                                              *)
(***************************************************************************)
Assignment(a) == a = [port |-> a.port, pin |-> a.pin, iostandard |-> a.iostandard]

Right(order, lines) ==
    /\ \E U : order \in Seq(U)
    /\ {a.port : a \in ToSet(order)} = PortsIn(lines)
    /\ \A a \in ToSet(order) :
          /\ Assignment(a)
          /\ PinsOf(lines, a.port) = {a.pin}
          /\ a.iostandard = StandardOf(lines, a.port)

(* One more line.                                                          *)
LEMMA AppendIs ==
    ASSUME NEW S, NEW s \in Seq(S), NEW x, NEW n \in Nat, n = Len(s),
           NEW t, t = Append(s, x)
    PROVE  /\ Len(t) = n + 1 /\ t[n + 1] = x
           /\ \A i \in 1 .. n : t[i] = s[i]
           /\ \A i \in 1 .. n : i \in 1 .. n + 1 /\ i # n + 1
           /\ \A i \in 1 .. n + 1 : i # n + 1 => i \in 1 .. n
           /\ n + 1 \in 1 .. n + 1
<1>1. Len(t) = n + 1 /\ t[n + 1] = x /\ \A i \in 1 .. n : t[i] = s[i]
    OBVIOUS
<1> QED
    BY <1>1

LEMMA PortsAppend ==
    ASSUME NEW S, NEW s \in Seq(S), NEW x, NEW t, t = Append(s, x)
    PROVE  PortsIn(t) = IF Places(x) THEN PortsIn(s) \cup {x.port} ELSE PortsIn(s)
<1>1. PICK n \in Nat : n = Len(s)
    OBVIOUS
<1>2. /\ Len(t) = n + 1 /\ t[n + 1] = x
      /\ \A i \in 1 .. n : t[i] = s[i]
      /\ \A i \in 1 .. n : i \in 1 .. n + 1 /\ i # n + 1
      /\ \A i \in 1 .. n + 1 : i # n + 1 => i \in 1 .. n
      /\ n + 1 \in 1 .. n + 1
    BY <1>1, AppendIs
<1>3. /\ \A p : p \in PortsIn(s) <=> \E i \in 1 .. n : Places(s[i]) /\ s[i].port = p
      /\ \A p : p \in PortsIn(t) <=> \E i \in 1 .. n + 1 : Places(t[i]) /\ t[i].port = p
    BY <1>1, <1>2 DEF PortsIn
<1>4. \A p : p \in PortsIn(t) <=> p \in PortsIn(s) \/ (Places(x) /\ x.port = p)
    BY <1>2, <1>3
<1> QED
    BY <1>4

LEMMA PinsAppend ==
    ASSUME NEW S, NEW s \in Seq(S), NEW x, NEW p, NEW t, t = Append(s, x)
    PROVE  PinsOf(t, p) = PinsOf(s, p)
                \cup {y \in {x.pin} : Places(x) /\ x.port = p}
<1>1. PICK n \in Nat : n = Len(s)
    OBVIOUS
<1>2. /\ Len(t) = n + 1 /\ t[n + 1] = x
      /\ \A i \in 1 .. n : t[i] = s[i]
      /\ \A i \in 1 .. n : i \in 1 .. n + 1 /\ i # n + 1
      /\ \A i \in 1 .. n + 1 : i # n + 1 => i \in 1 .. n
      /\ n + 1 \in 1 .. n + 1
    BY <1>1, AppendIs
<1>3. /\ \A y : y \in PinsOf(s, p) <=>
            \E i \in 1 .. n : Places(s[i]) /\ s[i].port = p /\ s[i].pin = y
      /\ \A y : y \in PinsOf(t, p) <=>
            \E i \in 1 .. n + 1 : Places(t[i]) /\ t[i].port = p /\ t[i].pin = y
    BY <1>1, <1>2 DEF PinsOf
<1>4. \A y : y \in PinsOf(t, p) <=>
         y \in PinsOf(s, p) \/ (Places(x) /\ x.port = p /\ x.pin = y)
    BY <1>2, <1>3
<1> QED
    BY <1>4

LEMMA PinsFinite ==
    ASSUME NEW s, NEW n \in Nat, n = Len(s), NEW p
    PROVE  IsFiniteSet(PinsOf(s, p))
<1> DEFINE I == {i \in 1 .. n : Places(s[i]) /\ s[i].port = p}
           f == [i \in I |-> s[i].pin]
<1>1. IsFiniteSet(1 .. n)
    BY FS_Interval
<1>2. IsFiniteSet(I)
    BY <1>1, FS_Subset
<1>3. f \in Surjection(I, PinsOf(s, p))
  <2>1. PinsOf(s, p) = {s[i].pin : i \in I}
      BY DEF PinsOf
  <2> QED
      BY <2>1 DEF Surjection
<1> HIDE DEF I, f
<1> QED
    BY <1>2, <1>3, FS_Surjection

LEMMA StandardNone ==
    ASSUME NEW s, NEW p, \A i \in 1 .. Len(s) : ~Asks(s[i], p)
    PROVE  StandardOf(s, p) = None
BY Zenon DEF StandardOf

LEMMA StandardAppend ==
    ASSUME NEW S, NEW s \in Seq(S), NEW x, NEW p, NEW t, t = Append(s, x)
    PROVE  StandardOf(t, p) = IF Asks(x, p) THEN x.std ELSE StandardOf(s, p)
<1>1. PICK n \in Nat : n = Len(s)
    OBVIOUS
<1>2. /\ Len(t) = n + 1 /\ t[n + 1] = x
      /\ \A i \in 1 .. n : t[i] = s[i]
      /\ \A i \in 1 .. n : i \in 1 .. n + 1 /\ i # n + 1
      /\ \A i \in 1 .. n + 1 : i # n + 1 => i \in 1 .. n
      /\ n + 1 \in 1 .. n + 1
    BY <1>1, AppendIs
<1>3. PICK A, B : /\ A = {i \in 1 .. n : Asks(s[i], p)}
                  /\ B = {i \in 1 .. n + 1 : Asks(t[i], p)}
    OBVIOUS
<1>4. /\ StandardOf(s, p) = IF A = {} THEN None
                            ELSE s[CHOOSE i \in A : \A j \in A : j <= i].std
      /\ StandardOf(t, p) = IF B = {} THEN None
                            ELSE t[CHOOSE i \in B : \A j \in B : j <= i].std
    BY <1>1, <1>2, <1>3 DEF StandardOf
<1>5. CASE Asks(x, p)
  <2>1. n + 1 \in B /\ \A j \in B : j <= n + 1
      BY <1>2, <1>3, <1>5
  <2>2. PICK m : m = CHOOSE i \in B : \A j \in B : j <= i
      OBVIOUS
  <2>3. m \in B /\ \A j \in B : j <= m
      BY <2>1, <2>2, Zenon
  <2>4. m \in 1 .. n + 1 /\ n + 1 <= m
      BY <1>3, <2>1, <2>3
  <2>5. m = n + 1
      BY <2>4
  <2> QED
      BY <1>2, <1>4, <1>5, <2>1, <2>2, <2>5
<1>6. CASE ~Asks(x, p)
  <2>1. B = A
      BY <1>2, <1>3, <1>6
  <2>2. CASE A = {}
      BY <1>4, <1>6, <2>1, <2>2
  <2>3. CASE A # {}
    <3>1. A \in SUBSET Nat /\ n + 1 \in Nat /\ \A i \in A : i < n + 1
        BY <1>3
    <3>2. \E i \in A : \A j \in A : j <= i
        BY <2>3, <3>1, GreatestExists
    <3>3. PICK m \in A : m = CHOOSE i \in A : \A j \in A : j <= i
        BY <3>2, Zenon
    <3>4. t[m] = s[m]
        BY <1>2, <1>3, <3>3
    <3> QED
        BY <1>4, <1>6, <2>1, <2>3, <3>3, <3>4
  <2> QED
      BY <2>2, <2>3
<1> QED
    BY <1>5, <1>6

(* The lines before a line are readable if those with it are, and a port   *)
(* the lines do not name yet has no standard.                              *)
LEMMA ReadableBefore ==
    ASSUME NEW S, NEW s \in Seq(S), NEW x, NEW t, t = Append(s, x), Readable(t)
    PROVE  /\ Readable(s)
           /\ \A p \in PortsIn(t) \ PortsIn(s) : StandardOf(s, p) = None
           /\ x.form = "std" =>
                 \A p \in PortsIn(t) : Matches(x.ports, p) <=> Named(x.ports, p)
           /\ \A p \in PortsIn(s) : PinsOf(t, p) = PinsOf(s, p)
<1>1. PICK n \in Nat : n = Len(s)
    OBVIOUS
<1>2. /\ Len(t) = n + 1 /\ t[n + 1] = x
      /\ \A i \in 1 .. n : t[i] = s[i]
      /\ \A i \in 1 .. n : i \in 1 .. n + 1 /\ i # n + 1
      /\ \A i \in 1 .. n + 1 : i # n + 1 => i \in 1 .. n
      /\ n + 1 \in 1 .. n + 1
    BY <1>1, AppendIs
<1>3. /\ PortsIn(s) \subseteq PortsIn(t)
      /\ \A p : PinsOf(s, p) \subseteq PinsOf(t, p)
  <2>1. PortsIn(t) = IF Places(x) THEN PortsIn(s) \cup {x.port} ELSE PortsIn(s)
      BY PortsAppend
  <2>2. ASSUME NEW p PROVE PinsOf(s, p) \subseteq PinsOf(t, p)
    <3>1. \A p0 : PinsOf(t, p0) = PinsOf(s, p0)
                \cup {y \in {x.pin} : Places(x) /\ x.port = p0}
        BY PinsAppend
    <3> QED
        BY <3>1
  <2> QED
      BY <2>1, <2>2
<1>4. \A i \in 1 .. n : \A j \in 1 .. i - 1 : j \in 1 .. n
    OBVIOUS
<1>5. \A i \in 1 .. n : s[i].form = "std" =>
          \A p \in PortsIn(t) :
             /\ Matches(s[i].ports, p) <=> Named(s[i].ports, p)
             /\ Named(s[i].ports, p) =>
                   \E j \in 1 .. i - 1 : Places(s[j]) /\ s[j].port = p
  <2> SUFFICES ASSUME NEW i \in 1 .. n, s[i].form = "std"
               PROVE  \A p \in PortsIn(t) :
                         /\ Matches(s[i].ports, p) <=> Named(s[i].ports, p)
                         /\ Named(s[i].ports, p) =>
                               \E j \in 1 .. i - 1 : Places(s[j]) /\ s[j].port = p
      OBVIOUS
  <2>1. i \in 1 .. Len(t) /\ t[i] = s[i]
      BY <1>2
  <2>2. \A p \in PortsIn(t) :
           /\ Matches(t[i].ports, p) <=> Named(t[i].ports, p)
           /\ Named(t[i].ports, p) =>
                 \E j \in 1 .. i - 1 : Places(t[j]) /\ t[j].port = p
      BY <2>1 DEF Readable
  <2>3. \A j \in 1 .. i - 1 : t[j] = s[j]
      BY <1>2, <1>4
  <2> QED
      BY <2>1, <2>2, <2>3
<1>6. \A p \in PortsIn(s) : /\ Cardinality(PinsOf(s, p)) = 1
                             /\ PinsOf(t, p) = PinsOf(s, p)
  <2> SUFFICES ASSUME NEW p \in PortsIn(s)
               PROVE  Cardinality(PinsOf(s, p)) = 1 /\ PinsOf(t, p) = PinsOf(s, p)
      OBVIOUS
  <2>1. Cardinality(PinsOf(t, p)) = 1 /\ PinsOf(s, p) \in SUBSET PinsOf(t, p)
      BY <1>3 DEF Readable
  <2>2. PinsOf(s, p) # {}
      BY DEF PortsIn, PinsOf
  <2>3. IsFiniteSet(PinsOf(t, p))
    <3>1. n + 1 \in Nat /\ n + 1 = Len(t)
        BY <1>2
    <3> QED
        BY <3>1, PinsFinite
  <2>4. PICK y : PinsOf(t, p) = {y}
      BY <2>1, <2>3, FS_Singleton
  <2>5. PinsOf(s, p) = PinsOf(t, p)
      BY <2>1, <2>2, <2>4
  <2> QED
      BY <2>1, <2>5
<1>7. Readable(s)
    BY <1>1, <1>3, <1>5, <1>6 DEF Readable
<1>8. ASSUME NEW p \in PortsIn(t), p \notin PortsIn(s)
      PROVE  StandardOf(s, p) = None
  <2> SUFFICES ASSUME NEW i \in 1 .. n, Asks(s[i], p) PROVE FALSE
      BY <1>1, StandardNone
  <2>1. CASE s[i].form = "dict" /\ s[i].port = p
      BY <1>1, <1>8, <2>1 DEF PortsIn, Places
  <2>2. CASE s[i].form = "std" /\ Named(s[i].ports, p)
    <3>1. PICK j \in 1 .. i - 1 : Places(s[j]) /\ s[j].port = p
        BY <1>5, <2>2
    <3>2. j \in 1 .. n
        BY <1>4
    <3> QED
        BY <1>1, <1>8, <3>1, <3>2 DEF PortsIn
  <2> QED
      BY <2>1, <2>2 DEF Asks
<1>9. x.form = "std" =>
         \A p \in PortsIn(t) : Matches(x.ports, p) <=> Named(x.ports, p)
    BY <1>2 DEF Readable
<1> QED
    BY <1>6, <1>7, <1>8, <1>9

(* A port that is assigned is one the lines name.                          *)
LEMMA SeenIs ==
    ASSUME NEW U, NEW order \in Seq(U), NEW port
    PROVE  Seen(order, port) <=> port \in {a.port : a \in ToSet(order)}
<1>1. PICK n \in Nat : n = Len(order)
    OBVIOUS
<1>2. \A q : q \in {a.port : a \in ToSet(order)} <=>
          \E i \in 1 .. n : q = order[i].port
    BY <1>1 DEF ToSet
<1>3. Seen(order, port) <=> \E i \in 1 .. n : order[i].port = port
    BY <1>1 DEF Seen
<1> QED
    BY <1>2, <1>3

LEMMA SetAppend ==
    ASSUME NEW U, NEW s \in Seq(U), NEW x, NEW t, t = Append(s, x)
    PROVE  (\E V : t \in Seq(V)) /\ ToSet(t) = ToSet(s) \cup {x}
<1>1. PICK n \in Nat : n = Len(s)
    OBVIOUS
<1>2. /\ Len(t) = n + 1 /\ t[n + 1] = x
      /\ \A i \in 1 .. n : t[i] = s[i]
      /\ \A i \in 1 .. n : i \in 1 .. n + 1 /\ i # n + 1
      /\ \A i \in 1 .. n + 1 : i # n + 1 => i \in 1 .. n
      /\ n + 1 \in 1 .. n + 1
    BY <1>1, AppendIs
<1>3. \A y : y \in ToSet(t) <=> \E i \in 1 .. n + 1 : y = t[i]
    BY <1>2 DEF ToSet
<1>4. \A y : y \in ToSet(s) <=> \E i \in 1 .. n : y = s[i]
    BY <1>1 DEF ToSet
<1>5. \A y : y \in ToSet(t) <=> y \in ToSet(s) \/ y = x
    BY <1>2, <1>3, <1>4
<1>6. s \in Seq(U \cup {x}) /\ x \in U \cup {x}
    <2>1. \A i \in 1 .. n : s[i] \in U
        BY <1>1
    <2> QED
        BY <1>1, <2>1
<1>7. t \in Seq(U \cup {x})
    BY <1>6
<1> QED
    BY <1>5, <1>7

(* What a standard does to one assignment.                                 *)
Standing(a, ports, std) ==
    IF Matches(ports, a.port) THEN [a EXCEPT !.iostandard = std] ELSE a

LEMMA StandingIs ==
    ASSUME NEW a, Assignment(a), NEW ports, NEW std
    PROVE  /\ Assignment(Standing(a, ports, std))
           /\ Standing(a, ports, std).port = a.port
           /\ Standing(a, ports, std).pin = a.pin
           /\ Standing(a, ports, std).iostandard
                = IF Matches(ports, a.port) THEN std ELSE a.iostandard
<1>1. PICK p, q, r : a = [port |-> p, pin |-> q, iostandard |-> r]
    BY DEF Assignment
<1>2. PICK b : b = Standing(a, ports, std)
    OBVIOUS
<1>3. CASE Matches(ports, a.port)
  <2>1. b = [port |-> p, pin |-> q, iostandard |-> std]
      BY <1>1, <1>2, <1>3 DEF Standing
  <2> QED
      BY <1>1, <1>2, <1>3, <2>1 DEF Assignment
<1>4. CASE ~Matches(ports, a.port)
  <2>1. b = a
      BY <1>2, <1>4 DEF Standing
  <2> QED
      BY <1>2, <1>4, <2>1
<1> QED
    BY <1>3, <1>4

LEMMA WithStandardIs ==
    ASSUME NEW U, NEW order \in Seq(U), NEW ports, NEW std,
           NEW w, w = WithStandard(order, ports, std)
    PROVE  /\ \E V : w \in Seq(V)
           /\ ToSet(w) = {Standing(a, ports, std) : a \in ToSet(order)}
<1>1. PICK n \in Nat : n = Len(order)
    OBVIOUS
<1>2. w = [i \in 1 .. n |-> Standing(order[i], ports, std)]
    BY <1>1 DEF WithStandard, Standing
<1>3. Len(w) = n
    BY <1>2
<1>4. \A y : y \in ToSet(w) <=> \E i \in 1 .. n : y = Standing(order[i], ports, std)
    BY <1>2, <1>3 DEF ToSet
<1>5. \A y : y \in ToSet(order) <=> \E i \in 1 .. n : y = order[i]
    BY <1>1 DEF ToSet
<1>6. ToSet(w) = {Standing(a, ports, std) : a \in ToSet(order)}
    BY <1>4, <1>5
<1>7. w \in Seq({Standing(order[i], ports, std) : i \in 1 .. n})
    BY <1>2
<1> QED
    BY <1>6, <1>7

(* The order with the port of a line that places one: every port of the    *)
(* lines with that line, and the standards of the lines before it.         *)
Half(order, lines, t) ==
    /\ \E U : order \in Seq(U)
    /\ {a.port : a \in ToSet(order)} = PortsIn(t)
    /\ \A a \in ToSet(order) :
          /\ Assignment(a)
          /\ PinsOf(t, a.port) = {a.pin}
          /\ a.iostandard = StandardOf(lines, a.port)

LEMMA AssignedHalf ==
    ASSUME NEW S, NEW lines \in Seq(S), NEW line, NEW t, t = Append(lines, line),
           Readable(t), NEW order, Right(order, lines), Places(line)
    PROVE  Half(Assigned(order, line.port, line.pin), lines, t)
<1>1. /\ \A p \in PortsIn(t) \ PortsIn(lines) : StandardOf(lines, p) = None
      /\ \A p \in PortsIn(lines) : PinsOf(t, p) = PinsOf(lines, p)
    BY ReadableBefore
<1>2. PortsIn(t) = PortsIn(lines) \cup {line.port}
  <2>1. PortsIn(t) = IF Places(line) THEN PortsIn(lines) \cup {line.port}
                                     ELSE PortsIn(lines)
      BY PortsAppend
  <2> QED
      BY <2>1
<1>3. PICK U : order \in Seq(U)
    BY DEF Right
<1>4. /\ {a.port : a \in ToSet(order)} = PortsIn(lines)
      /\ \A a \in ToSet(order) :
            /\ Assignment(a)
            /\ PinsOf(lines, a.port) = {a.pin}
            /\ a.iostandard = StandardOf(lines, a.port)
    BY DEF Right
<1>5. \A a \in ToSet(order) : a.port \in PortsIn(lines)
    BY <1>4
<1>6. CASE line.port \in PortsIn(lines)
  <2>1. Assigned(order, line.port, line.pin) = order
      BY <1>3, <1>4, <1>6, SeenIs DEF Assigned
  <2>2. PortsIn(t) = PortsIn(lines)
      BY <1>2, <1>6
  <2>3. \A a \in ToSet(order) : PinsOf(t, a.port) = {a.pin}
      BY <1>1, <1>4, <1>5
  <2>4. Half(order, lines, t)
      BY <1>3, <1>4, <2>2, <2>3 DEF Half
  <2> QED
      BY <2>1, <2>4
<1>7. CASE line.port \notin PortsIn(lines)
  <2> DEFINE new == [port |-> line.port, pin |-> line.pin, iostandard |-> None]
  <2>1. PICK k : k = Append(order, new)
      OBVIOUS
  <2>2. Assigned(order, line.port, line.pin) = k
      BY <1>3, <1>4, <1>7, <2>1, SeenIs DEF Assigned
  <2>3. (\E V : k \in Seq(V)) /\ ToSet(k) = ToSet(order) \cup {new}
      BY <1>3, <2>1, SetAppend
  <2>5. \A a \in ToSet(order) : PinsOf(t, a.port) = {a.pin}
      BY <1>1, <1>4, <1>5
  <2>6. PinsOf(t, line.port) = {line.pin}
    <3>1. \A q : PinsOf(t, q) = PinsOf(lines, q)
                \cup {y \in {line.pin} : Places(line) /\ line.port = q}
        BY PinsAppend
    <3>2. PinsOf(lines, line.port) = {}
        BY <1>7 DEF PortsIn, PinsOf
    <3> QED
        BY <3>1, <3>2
  <2>7. /\ new.port = line.port /\ new.pin = line.pin /\ new.iostandard = None
        /\ Assignment(new)
      BY DEF Assignment
  <2>8. StandardOf(lines, line.port) = None
      BY <1>1, <1>2, <1>7
  <2> HIDE DEF new
  <2>4. {a.port : a \in ToSet(k)} = PortsIn(t)
      BY <1>2, <1>4, <2>3, <2>7
  <2>9. \A a \in ToSet(k) :
          /\ Assignment(a)
          /\ PinsOf(t, a.port) = {a.pin}
          /\ a.iostandard = StandardOf(lines, a.port)
    <3>1. \A a \in ToSet(order) :
          /\ Assignment(a)
          /\ PinsOf(t, a.port) = {a.pin}
          /\ a.iostandard = StandardOf(lines, a.port)
        BY <1>4, <2>5
    <3>2. /\ Assignment(new)
          /\ PinsOf(t, new.port) = {new.pin}
          /\ new.iostandard = StandardOf(lines, new.port)
        BY <2>6, <2>7, <2>8
    <3> QED
        BY <2>3, <3>1, <3>2
  <2>10. Half(k, lines, t)
      BY <2>3, <2>4, <2>9 DEF Half
  <2> QED
      BY <2>2, <2>10
<1> QED
    BY <1>6, <1>7

(* A standard for the ports a line names.                                  *)
LEMMA StandardRight ==
    ASSUME NEW S, NEW lines \in Seq(S), NEW line, NEW t, t = Append(lines, line),
           NEW order, Half(order, lines, t), NEW ports,
           \A p \in PortsIn(t) : Asks(line, p) <=> Matches(ports, p),
           NEW w, w = WithStandard(order, ports, line.std)
    PROVE  Right(w, t)
<1>1. PICK U : order \in Seq(U)
    BY DEF Half
<1>2. /\ \E V : w \in Seq(V)
      /\ ToSet(w) = {Standing(a, ports, line.std) : a \in ToSet(order)}
    BY <1>1, WithStandardIs
<1>3. \A p : StandardOf(t, p) = IF Asks(line, p) THEN line.std
                                ELSE StandardOf(lines, p)
    BY StandardAppend
<1>4. \A a \in ToSet(order) :
         LET b == Standing(a, ports, line.std)
         IN  /\ Assignment(b) /\ b.port = a.port
             /\ PinsOf(t, b.port) = {b.pin}
             /\ b.iostandard = StandardOf(t, b.port)
  <2> SUFFICES ASSUME NEW a \in ToSet(order), NEW b, b = Standing(a, ports, line.std)
               PROVE  /\ Assignment(b) /\ b.port = a.port
                      /\ PinsOf(t, b.port) = {b.pin}
                      /\ b.iostandard = StandardOf(t, b.port)
      OBVIOUS
  <2>1. /\ Assignment(a) /\ PinsOf(t, a.port) = {a.pin}
        /\ a.iostandard = StandardOf(lines, a.port)
      BY DEF Half
  <2>2. /\ Assignment(b) /\ b.port = a.port /\ b.pin = a.pin
        /\ b.iostandard = IF Matches(ports, a.port) THEN line.std ELSE a.iostandard
      BY <2>1, StandingIs
  <2>3. a.port \in PortsIn(t)
      BY DEF Half
  <2>4. Asks(line, a.port) <=> Matches(ports, a.port)
      BY <2>3
  <2>5. b.iostandard = StandardOf(t, a.port)
      BY <1>3, <2>1, <2>2, <2>4
  <2> QED
      BY <2>1, <2>2, <2>5
<1>5. {b.port : b \in ToSet(w)} = {a.port : a \in ToSet(order)}
    BY <1>2, <1>4
<1>6. {a.port : a \in ToSet(order)} = PortsIn(t)
    BY DEF Half
<1>7. \A b \in ToSet(w) : /\ Assignment(b)
                          /\ PinsOf(t, b.port) = {b.pin}
                          /\ b.iostandard = StandardOf(t, b.port)
    BY <1>2, <1>4
<1> QED
    BY <1>2, <1>5, <1>6, <1>7 DEF Right

(* No standard.                                                            *)
LEMMA SilentRight ==
    ASSUME NEW S, NEW lines \in Seq(S), NEW line, NEW t, t = Append(lines, line),
           NEW order, Half(order, lines, t), \A p : ~Asks(line, p)
    PROVE  Right(order, t)
<1>1. \A p : StandardOf(t, p) = IF Asks(line, p) THEN line.std
                                ELSE StandardOf(lines, p)
    BY StandardAppend
<1>2. \A p : StandardOf(t, p) = StandardOf(lines, p)
    BY <1>1
<1> QED
    BY <1>2 DEF Half, Right

LEMMA TakeRight ==
    ASSUME NEW S, NEW lines \in Seq(S), NEW line, NEW t, t = Append(lines, line),
           Readable(t), NEW order, Right(order, lines)
    PROVE  Right(Take(order, line), t)
<1>1. CASE Places(line)
  <2>1. PICK k : k = Assigned(order, line.port, line.pin)
      OBVIOUS
  <2>2. Half(k, lines, t)
      BY <1>1, <2>1, AssignedHalf
  <2>3. CASE line.form = "pin" \/ line.std = None
    <3>1. Take(order, line) = k
        BY <1>1, <2>1, <2>3 DEF Take, Places
    <3>2. \A p : ~Asks(line, p)
        BY <1>1, <2>3 DEF Asks, Places
    <3>3. Right(k, t)
        BY <2>2, <3>2, SilentRight
    <3> QED
        BY <3>1, <3>3
  <2>4. CASE line.form = "dict" /\ line.std # None
    <3>1. PICK w : w = WithStandard(k, One(line.port), line.std)
        OBVIOUS
    <3>2. Take(order, line) = w
        BY <2>1, <2>4, <3>1 DEF Take
    <3>3. \A p \in PortsIn(t) : Asks(line, p) <=> Matches(One(line.port), p)
        BY <2>4 DEF Asks, Matches, One
    <3>4. Right(w, t)
        BY <2>2, <3>1, <3>3, StandardRight
    <3> QED
        BY <3>2, <3>4
  <2> QED
      BY <1>1, <2>3, <2>4 DEF Places
<1>2. CASE ~Places(line)
  <2>1. PortsIn(t) = IF Places(line) THEN PortsIn(lines) \cup {line.port}
                                     ELSE PortsIn(lines)
      BY PortsAppend
  <2>2. \A q : PinsOf(t, q) = PinsOf(lines, q)
                \cup {y \in {line.pin} : Places(line) /\ line.port = q}
      BY PinsAppend
  <2>3. PortsIn(t) = PortsIn(lines) /\ \A q : PinsOf(t, q) = PinsOf(lines, q)
      BY <1>2, <2>1, <2>2
  <2>4. Half(order, lines, t)
      BY <2>3 DEF Half, Right
  <2>5. CASE line.form = "std"
    <3>1. PICK w : w = WithStandard(order, line.ports, line.std)
        OBVIOUS
    <3>2. Take(order, line) = w
        BY <2>5, <3>1 DEF Take
    <3>3. \A p \in PortsIn(t) : Matches(line.ports, p) <=> Named(line.ports, p)
        BY <2>5, ReadableBefore
    <3>4. \A p \in PortsIn(t) : Asks(line, p) <=> Matches(line.ports, p)
        BY <2>5, <3>3 DEF Asks
    <3>5. Right(w, t)
        BY <2>4, <3>1, <3>4, StandardRight
    <3> QED
        BY <3>2, <3>5
  <2>6. CASE line.form # "std"
    <3>1. Take(order, line) = order
        BY <1>2, <2>6 DEF Take, Places
    <3>2. \A p : ~Asks(line, p)
        BY <1>2, <2>6 DEF Asks, Places
    <3>3. Right(order, t)
        BY <2>4, <3>2, SilentRight
    <3> QED
        BY <3>1, <3>3
  <2> QED
      BY <2>5, <2>6
<1> QED
    BY <1>1, <1>2

(* The lines of a file one after the other.                                *)
Upto(all, k) == [i \in 1 .. k |-> all[i]]

LEMMA UptoIs ==
    ASSUME NEW S, NEW all \in Seq(S), NEW k \in Nat, k < Len(all)
    PROVE  /\ Upto(all, k) \in Seq(S)
           /\ Upto(all, k + 1) = Append(Upto(all, k), all[k + 1])
<1>1. PICK n \in Nat : n = Len(all) /\ k < n
    OBVIOUS
<1>2. \A i \in 1 .. k : all[i] \in S
    BY <1>1
<1>3. PICK s : s = Upto(all, k)
    OBVIOUS
<1>4. s \in Seq(S) /\ Len(s) = k /\ \A i \in 1 .. k : s[i] = all[i]
    BY <1>2, <1>3 DEF Upto
<1>5. Append(s, all[k + 1]) = [i \in 1 .. k + 1 |-> all[i]]
    BY <1>4
<1> QED
    BY <1>3, <1>4, <1>5 DEF Upto

(* Every beginning of readable lines is readable: if not, there is a       *)
(* longest one that is not, and with its next line it is.                  *)
LEMMA ReadableUpto ==
    ASSUME NEW S, NEW all \in Seq(S), Readable(all), NEW n \in Nat, n = Len(all)
    PROVE  \A k \in 0 .. n : Readable(Upto(all, k))
<1> DEFINE B == {d \in Nat : d <= n /\ ~Readable(Upto(all, n - d))}
<1>1. Upto(all, n) = all
    BY DEF Upto
<1> SUFFICES ASSUME B # {} PROVE FALSE
  <2>1. \A k \in 0 .. n : n - k \in Nat /\ n - k <= n /\ n - (n - k) = k
      OBVIOUS
  <2>2. \A k \in 0 .. n : n - k \notin B
      BY <2>1
  <2> QED
      BY <2>1, <2>2
<1>2. PICK d \in B : \A e \in B : d <= e
  <2>1. B \in SUBSET Nat
      OBVIOUS
  <2> QED
      BY <2>1, FirstIs
<1>3. d \in Nat /\ d <= n /\ ~Readable(Upto(all, n - d))
    OBVIOUS
<1>4. d # 0
    BY <1>1, <1>3
<1>5. Readable(Upto(all, n - (d - 1)))
  <2>1. d - 1 \in Nat /\ d - 1 <= n /\ ~(d <= d - 1)
      BY <1>3, <1>4
  <2>2. d - 1 \notin B
      BY <1>2, <2>1
  <2> QED
      BY <2>1, <2>2
<1> HIDE DEF B
<1>6. PICK k \in Nat : k = n - d /\ k + 1 = n - (d - 1) /\ k < n
    BY <1>3, <1>4
<1>7. /\ Upto(all, k) \in Seq(S)
      /\ Upto(all, k + 1) = Append(Upto(all, k), all[k + 1])
    BY <1>6, UptoIs
<1>8. PICK s, t, x : s = Upto(all, k) /\ t = Upto(all, k + 1) /\ x = all[k + 1]
    OBVIOUS
<1>9. s \in Seq(S) /\ t = Append(s, x) /\ Readable(t)
    BY <1>5, <1>6, <1>7, <1>8
<1>10. Readable(s)
    BY <1>9, ReadableBefore
<1> QED
    BY <1>3, <1>6, <1>8, <1>10

LEMMA SequenceIs ==
    ASSUME NEW S, NEW s \in Seq(S), NEW n \in Nat, n = Len(s)
    PROVE  s = [i \in 1 .. n |-> s[i]]
OBVIOUS

LEMMA ParseRight ==
    ASSUME NEW S, NEW lines \in Seq(S), NEW V, NEW file \in Seq(V),
           NEW all, all = lines \o file, Readable(all),
           NEW order, Readable(lines) => Right(order, lines)
    PROVE  Right(parse(order, file), all)
<1>1. PICK m \in Nat, n \in Nat : m = Len(lines) /\ n = Len(file)
    OBVIOUS
<1>2. /\ all \in Seq(S \cup V) /\ Len(all) = m + n
      /\ \A k \in 1 .. n : all[m + k] = file[k]
      /\ Upto(all, m) = lines
      /\ Upto(all, m + n) = all
  <2>1. /\ Len(all) = m + n
        /\ \A i \in 1 .. m : all[i] = lines[i]
        /\ \A k \in 1 .. n : all[m + k] = file[k]
      BY <1>1
  <2>2. all \in Seq(S \cup V)
    <3>1. lines \in Seq(S \cup V) /\ file \in Seq(S \cup V)
      <4>1. \A i \in 1 .. m : lines[i] \in S \cup V
          BY <1>1
      <4>2. \A i \in 1 .. n : file[i] \in S \cup V
          BY <1>1
      <4> QED
          BY <1>1, <4>1, <4>2
    <3> QED
        BY <3>1
  <2>3. Upto(all, m) = lines
    <3>1. lines = [i \in 1 .. m |-> lines[i]]
        BY <1>1
    <3> QED
        BY <2>1, <3>1 DEF Upto
  <2>4. Upto(all, m + n) = all
    <3>1. PICK h \in Nat : h = m + n
        OBVIOUS
    <3>2. all = [i \in 1 .. h |-> all[i]]
        BY <2>1, <2>2, <3>1, SequenceIs
    <3> QED
        BY <3>1, <3>2 DEF Upto
  <2> QED
      BY <2>1, <2>2, <2>3, <2>4
<1>3. PICK l \in Nat : l = m + n
    OBVIOUS
<1>4. \A k \in 0 .. l : Readable(Upto(all, k))
    BY <1>2, <1>3, ReadableUpto
<1>5. PICK a : /\ a[0] = order
               /\ \A k \in 1 .. n : a[k] = Take(a[k - 1], file[k])
               /\ parse(order, file) = a[n]
  <2>1. \A b : \E a : /\ a[0] = b
                      /\ \A k \in 1 .. n : a[k] = Take(a[k - 1], file[k])
                      /\ parse(b, file) = a[n]
      BY <1>1, ParseSteps
  <2> QED
      BY <2>1, Zenon
<1> DEFINE B == {k \in Nat : k <= n /\ ~Right(a[k], Upto(all, m + k))}
<1> SUFFICES ASSUME B # {} PROVE FALSE
  <2>1. n \in Nat /\ n <= n
      OBVIOUS
  <2>2. n \notin B => Right(a[n], Upto(all, m + n))
      BY <2>1
  <2> QED
      BY <1>2, <1>5, <2>2
<1>6. PICK k \in B : \A j \in B : k <= j
  <2>1. B \in SUBSET Nat
      OBVIOUS
  <2> QED
      BY <2>1, FirstIs
<1>7. k \in Nat /\ k <= n /\ ~Right(a[k], Upto(all, m + k))
    OBVIOUS
<1>8. k # 0
  <2>1. m \in 0 .. l /\ m + 0 = m
      BY <1>3
  <2> QED
      BY <1>2, <1>4, <1>5, <1>7, <2>1
<1>9. PICK j \in Nat : /\ k = j + 1 /\ j <= n /\ ~(k <= j) /\ k \in 1 .. n /\ j = k - 1
                       /\ m + k = (m + j) + 1 /\ m + j \in Nat /\ m + j < l
                       /\ m + k \in 0 .. l
  <2>1. k - 1 \in Nat
      BY <1>7, <1>8
  <2> QED
      BY <1>3, <1>7, <1>8, <2>1
<1>10. Right(a[j], Upto(all, m + j))
  <2>1. j \notin B
      BY <1>6, <1>9
  <2> QED
      BY <1>9, <2>1
<1> HIDE DEF B
<1>11. PICK s, t, x : s = Upto(all, m + j) /\ t = Upto(all, m + k) /\ x = file[k]
    OBVIOUS
<1>12. PICK i \in Nat : i = m + j /\ m + k = i + 1 /\ i < l
    BY <1>9
<1>13. s \in Seq(S \cup V) /\ t = Append(s, x)
  <2>1. /\ Upto(all, i) \in Seq(S \cup V)
        /\ Upto(all, i + 1) = Append(Upto(all, i), all[i + 1])
      BY <1>2, <1>3, <1>12, UptoIs
  <2>2. all[m + k] = file[k]
      BY <1>2, <1>9
  <2> QED
      BY <1>11, <1>12, <2>1, <2>2
<1>14. Readable(t)
    BY <1>4, <1>9, <1>11
<1>15. PICK o : o = a[j]
    OBVIOUS
<1>16. Right(Take(o, x), t)
    BY <1>10, <1>11, <1>13, <1>14, <1>15, TakeRight
<1>17. a[k] = Take(o, x)
    BY <1>5, <1>9, <1>11, <1>15
<1> QED
    BY <1>7, <1>11, <1>16, <1>17

-----------------------------------------------------------------------------
(***************************************************************************)
(* The verdict.  What it means that a check reports nothing.               *)
(***************************************************************************)
(* Two ports of a pair, two lanes that have to be of one site, a pin whose *)
(* bank needs the supply of its standard.                                  *)
Paired(p, q) == p.pol = "p" /\ q = [p EXCEPT !.pol = "n"]
Mates(p, x, q, y) ==
    /\ dev[x].dir = "RX" /\ dev[y].dir = "TX"
    /\ dev[x].quad = dev[y].quad
    /\ dev[x].pol = dev[y].pol
    /\ [p EXCEPT !.dir = ""] = [q EXCEPT !.dir = ""]
Supplied(x, std) == std \in DOMAIN VCCO_MV /\ ~is_gt(x)
SameSupply(x, std, y, other) ==
    Supplied(x, std) /\ Supplied(y, other) /\ dev[x].bank = dev[y].bank =>
        VCCO_MV[std] = VCCO_MV[other]

LEMMA SilentRole ==
    ASSUME NEW as
    PROVE  role(as) = {} <=> \A a \in as : dev[a.pin].role \in {"gt", "io"}
BY DEF role

LEMMA SilentCollision ==
    ASSUME NEW as
    PROVE  collision(as) = {} <=> \A a, b \in as : b.pin = a.pin => b.port = a.port
BY DEF collision

LEMMA SilentUnknown ==
    ASSUME NEW as
    PROVE  unknown(as) = {} <=>
             \A a \in as : \/ a.iostandard = None \/ is_gt(a.pin)
                           \/ a.iostandard \in DOMAIN VCCO_MV
BY DEF unknown, Standard

LEMMA SilentDiffpair ==
    ASSUME NEW as
    PROVE  diffpair(as) = {} <=>
             \A a, b \in as : Paired(a.port, b.port) => Halves(a.pin, b.pin)
<1> DEFINE P(a) == a.port.pol = "p" /\ \E b \in as :
                    b.port = [a.port EXCEPT !.pol = "n"] /\ ~Halves(a.pin, b.pin)
<1>1. diffpair(as) = {<<"diffpair", a.port>> : a \in {a \in as : P(a)}}
    BY Zenon DEF diffpair
<1>2. \A a \in as : P(a) <=> \E b \in as : Paired(a.port, b.port) /\ ~Halves(a.pin, b.pin)
    BY Zenon DEF Paired
<1> HIDE DEF P
<1>3. diffpair(as) = {} <=> \A a \in as : ~P(a)
    BY <1>1
<1> QED
    BY <1>2, <1>3, Zenon

LEMMA SilentGtlane ==
    ASSUME NEW as
    PROVE  gtlane(as) = {} <=>
             \A a, b \in as : Mates(a.port, a.pin, b.port, b.pin) =>
                dev[b.pin].site = dev[a.pin].site
<1> DEFINE P(a) == dev[a.pin].dir = "RX" /\ \E b \in as :
                    /\ dev[b.pin].dir = "TX"
                    /\ dev[b.pin].quad = dev[a.pin].quad
                    /\ dev[b.pin].pol = dev[a.pin].pol
                    /\ [b.port EXCEPT !.dir = ""] = [a.port EXCEPT !.dir = ""]
                    /\ dev[b.pin].site # dev[a.pin].site
       Split(a, b) == /\ Mates(a.port, a.pin, b.port, b.pin)
                      /\ dev[b.pin].site # dev[a.pin].site
<1>1. gtlane(as) = {<<"gtlane", a.port>> : a \in {a \in as : P(a)}}
    BY Zenon DEF gtlane
<1>2. \A a \in as : P(a) <=> \E b \in as : Split(a, b)
    BY Zenon DEF Mates
<1> HIDE DEF P
<1>3. gtlane(as) = {} <=> \A a \in as : ~P(a)
    BY <1>1
<1>4. (\A a, b \in as : ~Split(a, b)) <=>
         \A a, b \in as : Mates(a.port, a.pin, b.port, b.pin) =>
            dev[b.pin].site = dev[a.pin].site
    BY Zenon
<1> HIDE DEF Split
<1>5. (\A a \in as : ~P(a)) <=> \A a, b \in as : ~Split(a, b)
    BY <1>2, Zenon
<1> QED
    BY <1>3, <1>4, <1>5, Zenon

LEMMA SilentVcco ==
    ASSUME NEW as, None \notin DOMAIN VCCO_MV
    PROVE  vcco(as) = {} <=>
             \A a, b \in as : SameSupply(a.pin, a.iostandard, b.pin, b.iostandard)
<1> DEFINE R(bank, v) == \E a \in as : /\ Supplied(a.pin, a.iostandard)
                                       /\ dev[a.pin].bank = bank
                                       /\ v = VCCO_MV[a.iostandard]
           Q(bank) == \E v, w \in levels(as, bank) : v # w
<1>1. \A bank, v : v \in levels(as, bank) <=> R(bank, v)
    BY DEF levels, Standard, Supplied
<1>2. vcco(as) = {<<"vcco", bank>> : bank \in
                    {bank \in {dev[a.pin].bank : a \in as} : Q(bank)}}
    BY Zenon DEF vcco
<1> HIDE DEF R, Q
<1>3. vcco(as) = {} <=> \A a \in as : ~Q(dev[a.pin].bank)
    BY <1>2
<1>4. ASSUME NEW a \in as, NEW b \in as,
             ~SameSupply(a.pin, a.iostandard, b.pin, b.iostandard)
      PROVE  Q(dev[a.pin].bank)
  <2>1. PICK bank, v, w : /\ bank = dev[a.pin].bank
                          /\ v = VCCO_MV[a.iostandard] /\ w = VCCO_MV[b.iostandard]
      OBVIOUS
  <2>2. v # w /\ R(bank, v) /\ R(bank, w)
      BY <1>4, <2>1 DEF R, SameSupply
  <2>3. v \in levels(as, bank) /\ w \in levels(as, bank)
      BY <1>1, <2>2, Zenon
  <2> QED
      BY <2>1, <2>2, <2>3, Zenon DEF Q
<1>5. ASSUME NEW a \in as, Q(dev[a.pin].bank)
      PROVE  \E c, b \in as : ~SameSupply(c.pin, c.iostandard, b.pin, b.iostandard)
  <2>1. PICK bank : bank = dev[a.pin].bank
      OBVIOUS
  <2>2. PICK v, w : v \in levels(as, bank) /\ w \in levels(as, bank) /\ v # w
      BY <1>5, <2>1, Zenon DEF Q
  <2>3. R(bank, v) /\ R(bank, w)
      BY <1>1, <2>2, Zenon
  <2>4. PICK c \in as : /\ Supplied(c.pin, c.iostandard)
                        /\ dev[c.pin].bank = bank /\ v = VCCO_MV[c.iostandard]
      BY <2>3 DEF R
  <2>5. PICK b \in as : /\ Supplied(b.pin, b.iostandard)
                        /\ dev[b.pin].bank = bank /\ w = VCCO_MV[b.iostandard]
      BY <2>3 DEF R
  <2> QED
      BY <2>2, <2>4, <2>5 DEF SameSupply
<1> QED
    BY <1>3, <1>4, <1>5, Zenon

Claim(a) == [port |-> a.port, pin |-> a.pin, std |-> a.iostandard]

LEMMA ClaimsAre ==
    ASSUME NEW order, NEW lines, Right(order, lines)
    PROVE  /\ Claims(lines) = {Claim(a) : a \in ToSet(order)}
           /\ \A a, b \in ToSet(order) : a.port = b.port => Claim(a) = Claim(b)
<1>1. /\ {a.port : a \in ToSet(order)} = PortsIn(lines)
      /\ \A a \in ToSet(order) : /\ PinsOf(lines, a.port) = {a.pin}
                                 /\ a.iostandard = StandardOf(lines, a.port)
    BY DEF Right
<1> DEFINE Of(p) == [port |-> p, pin |-> CHOOSE x \in PinsOf(lines, p) : TRUE,
                     std |-> StandardOf(lines, p)]
<1>2. ASSUME NEW a \in ToSet(order) PROVE Claim(a) = Of(a.port)
  <2>1. (CHOOSE x \in PinsOf(lines, a.port) : TRUE) \in {a.pin}
      BY <1>1
  <2> QED
      BY <1>1, <2>1 DEF Claim
<1>3. Claims(lines) = {Of(p) : p \in PortsIn(lines)}
    BY Zenon DEF Claims
<1> HIDE DEF Of
<1>4. Claims(lines) = {Claim(a) : a \in ToSet(order)}
    BY <1>1, <1>2, <1>3
<1> QED
    BY <1>2, <1>4

(* The lines are sound exactly if the checks of the assignments report     *)
(* nothing.                                                                *)
LEMMA VerdictIs ==
    ASSUME NEW order, NEW lines, Right(order, lines), None \notin DOMAIN VCCO_MV
    PROVE  validate(order) = {} <=> Sound(Claims(lines))
<1>1. PICK A : A = ToSet(order)
    OBVIOUS
<1>2. /\ Claims(lines) = {Claim(a) : a \in A}
      /\ \A a, b \in A : a.port = b.port => Claim(a) = Claim(b)
    BY <1>1, ClaimsAre
<1>3. \A a : Claim(a).port = a.port /\ Claim(a).pin = a.pin /\ Claim(a).std = a.iostandard
    BY DEF Claim
<1>4. exists(order) = {} <=> \A a \in A : a.pin \in DOMAIN dev
    BY <1>1 DEF exists, live
<1>5. exists(order) = {} => live(order) = A
    BY <1>1, <1>4 DEF live
<1>6. validate(order) = {} <=>
         /\ exists(order) = {}
         /\ role(A) = {} /\ collision(A) = {} /\ unknown(A) = {}
         /\ vcco(A) = {} /\ diffpair(A) = {} /\ gtlane(A) = {}
  <2>1. validate(order) = {} <=>
         /\ exists(order) = {}
         /\ role(live(order)) = {} /\ collision(live(order)) = {}
         /\ unknown(live(order)) = {} /\ vcco(live(order)) = {}
         /\ diffpair(live(order)) = {} /\ gtlane(live(order)) = {}
      BY DEF validate
  <2> QED
      BY <1>5, <2>1
<1>7. PICK C : C = Claims(lines)
    OBVIOUS
<1>8. \A a, b \in A :
        /\ (a.port = b.port <=> Claim(a) = Claim(b))
        /\ Claim(a).port = a.port /\ Claim(a).pin = a.pin /\ Claim(a).std = a.iostandard
    BY <1>2, <1>3
<1>9. OneSupply(C) <=>
        \A a, b \in A : a.pin \in DOMAIN dev /\ b.pin \in DOMAIN dev =>
            SameSupply(a.pin, a.iostandard, b.pin, b.iostandard)
  <2>1. OneSupply(C) <=>
          \A a, b \in C : a.pin \in DOMAIN dev /\ b.pin \in DOMAIN dev =>
              SameSupply(a.pin, a.std, b.pin, b.std)
      BY DEF OneSupply, Powered, SameSupply, Supplied
  <2> QED
      BY <1>2, <1>3, <1>7, <2>1
<1>10. Sound(C) <=>
        /\ \A a \in A : a.pin \in DOMAIN dev
        /\ \A a \in A : dev[a.pin].role \in {"gt", "io"}
        /\ \A a \in A : \/ a.iostandard = None \/ is_gt(a.pin)
                        \/ a.iostandard \in DOMAIN VCCO_MV
        /\ OneSupply(C)
        /\ \A a, b \in A : b.pin = a.pin => b.port = a.port
        /\ \A a, b \in A : Paired(a.port, b.port) => Halves(a.pin, b.pin)
        /\ \A a, b \in A : Mates(a.port, a.pin, b.port, b.pin) =>
                dev[b.pin].site = dev[a.pin].site
  <2>1. Sound(C) <=>
        /\ \A a \in C : a.pin \in DOMAIN dev
        /\ \A a \in C : dev[a.pin].role \in {"gt", "io"}
        /\ \A a \in C : \/ a.std = None \/ is_gt(a.pin)
                        \/ a.std \in DOMAIN VCCO_MV
        /\ OneSupply(C)
        /\ \A a, b \in C : b.pin = a.pin => a = b
        /\ \A a, b \in C : Paired(a.port, b.port) => Halves(a.pin, b.pin)
        /\ \A a, b \in C : Mates(a.port, a.pin, b.port, b.pin) =>
                dev[b.pin].site = dev[a.pin].site
      BY Zenon DEF Sound, Paired, Mates
  <2> QED
      BY <1>2, <1>7, <1>8, <2>1
<1>11. (\A a \in A : a.pin \in DOMAIN dev) => (vcco(A) = {} <=> OneSupply(C))
    BY <1>9, SilentVcco
<1>12. validate(order) = {} <=> Sound(C)
    BY <1>4, <1>6, <1>10, <1>11, SilentRole, SilentUnknown, SilentCollision,
       SilentDiffpair, SilentGtlane
<1> QED
    BY <1>7, <1>12

(***************************************************************************)
(* What the checks have read while files are written: every file there is  *)
(* a sequence of lines, none comes or goes, the assignments are right for  *)
(* the lines read, and the exit status is that of the assignments of all.  *)
(***************************************************************************)
AllFiles(x, n) ==
    /\ n \in Nat /\ n = Len(x) /\ DOMAIN x = 1 .. n
    /\ \A i \in 1 .. n : \E S : x[i] \in Seq(S)

HasRead(v, n) ==
    /\ \E O, L, E : v \in [at : Nat, order : O, lines : L, exit : E]
    /\ \E S : v.lines \in Seq(S)
    /\ Readable(v.lines) => Right(v.order, v.lines)
    /\ v.exit \in {0, 1} => v.exit = exit_status(v.order)
    /\ v.exit # None => v.at = n

CheckInv == \E n : AllFiles(xdc, n) /\ HasRead(val, n)

LEMMA CheckInit == ToolInit /\ GenInv => CheckInv
<1> SUFFICES ASSUME ToolInit, GenInv PROVE CheckInv
    OBVIOUS
<1>1. PICK s : PinStart(s)
    BY DEF ToolInit, PinInit
<1>2. /\ scene = s /\ xdc = s.xdc /\ val = Reading /\ WellFormed(s)
    BY <1>1 DEF PinStart, GenInv
<1>3. \E n : AllFiles(xdc, n)
  <2>1. PICK x : x = s.xdc
      OBVIOUS
  <2>2. x \in Seq(ToSet(x)) /\ \A i \in 1 .. Len(x) : x[i] \in Seq(ToSet(x[i]))
      BY <1>2, <2>1 DEF WellFormed
  <2>3. PICK n \in Nat : n = Len(x)
      BY <2>2
  <2>4. AllFiles(x, n)
      BY <2>2, <2>3 DEF AllFiles
  <2> QED
      BY <1>2, <2>1, <2>4
<1>4. \A n : HasRead(Reading, n)
  <2>1. PICK v : v = [at |-> 0, order |-> <<>>, lines |-> <<>>, exit |-> None]
      OBVIOUS
  <2>2. v \in [at : Nat, order : {<<>>}, lines : {<<>>}, exit : {None}]
      BY <2>1
  <2>3. v.order = <<>> /\ v.lines = <<>> /\ v.exit = None
      BY <2>1
  <2>4. Right(<<>>, <<>>)
    <3>1. ToSet(<<>>) = {} /\ <<>> \in Seq({})
        BY DEF ToSet
    <3>2. PortsIn(<<>>) = {}
        BY DEF PortsIn
    <3> QED
        BY <3>1, <3>2 DEF Right
  <2>5. \A n : HasRead(v, n)
    <3>1. <<>> \in Seq({})
        OBVIOUS
    <3>2. None \notin {0, 1}
        BY NoneAssumption
    <3> QED
        BY <2>2, <2>3, <2>4, <3>1, <3>2 DEF HasRead
  <2> QED
      BY <2>1, <2>5 DEF Reading
<1> QED
    BY <1>2, <1>3, <1>4 DEF CheckInv

LEMMA WrittenFiles ==
    ASSUME NEW n, AllFiles(xdc, n), GenInv, Generate
    PROVE  AllFiles(xdc', n)
<1>1. PICK ch \in Channels : ch = gen.at
    BY DEF GenInv, Generate
<1>2. PICK lines : lines = vendor[ch]
    OBVIOUS
<1>3. CASE /\ Accepted(lines) /\ Emittable(parse_vendor_file(lines))
           /\ xdc' = [xdc EXCEPT ![ch] = emit(ch, parse_vendor_file(lines))]
  <2>1. /\ lines \in Seq(ToSet(lines))
        /\ \A i \in 1 .. Len(lines) : lines[i].form = "ddr4" => lines[i].idx \in Nat
      BY <1>2 DEF GenInv, WellFormed, vendor
  <2>2. PICK f : f = emit(ch, parse_vendor_file(lines))
      OBVIOUS
  <2>3. f \in Seq(ToSet(f))
      BY <1>3, <2>1, <2>2, EmitFaithful
  <2>4. ch \in 1 .. n /\ n \in Nat
      BY DEF GenInv, WellFormed, AllFiles
  <2>5. PICK S : xdc \in [1 .. n -> S]
      BY DEF GenInv, AllFiles
  <2>6. PICK x : x = xdc' /\ x = [xdc EXCEPT ![ch] = f]
      BY <1>3, <2>2
  <2>7. x \in [1 .. n -> S \cup {f}] /\ x[ch] = f
        /\ \A i \in 1 .. n : i # ch => x[i] = xdc[i]
      BY <2>4, <2>5, <2>6
  <2>8. Len(x) = n /\ DOMAIN x = 1 .. n
      BY <2>4, <2>7
  <2>9. \A i \in 1 .. n : \E T : x[i] \in Seq(T)
    <3>1. \A i \in 1 .. n : \E T : xdc[i] \in Seq(T)
        BY DEF AllFiles
    <3> QED
        BY <2>3, <2>7, <3>1
  <2>10. AllFiles(x, n)
      BY <2>4, <2>8, <2>9 DEF AllFiles
  <2> QED
      BY <2>6, <2>10
<1>4. CASE UNCHANGED xdc
    BY <1>4
<1> QED
    BY <1>1, <1>2, <1>3, <1>4 DEF Generate

LEMMA ReadStep ==
    ASSUME NEW n, AllFiles(xdc, n), HasRead(val, n), ReadFile
    PROVE  HasRead(val', n)
<1>1. PICK O, L, E : val \in [at : Nat, order : O, lines : L, exit : E]
    BY DEF HasRead
<1>2. PICK k \in Nat : k = val.at
    BY <1>1
<1>3. n \in Nat /\ n = Len(xdc) /\ k < n
    BY <1>2 DEF AllFiles, ReadFile
<1>4. val.exit = None
    BY <1>2, <1>3 DEF HasRead
<1>5. PICK file : file = xdc[k + 1]
    OBVIOUS
<1>6. PICK V : file \in Seq(V)
    BY <1>2, <1>3, <1>5 DEF AllFiles
<1>7. PICK order, lines, S : order = val.order /\ lines = val.lines /\ lines \in Seq(S)
    BY DEF HasRead
<1>8. PICK all, o : all = lines \o file /\ o = parse(order, file)
    OBVIOUS
<1>9. val' = [val EXCEPT !.at = k + 1, !.order = o, !.lines = all]
    BY <1>2, <1>5, <1>7, <1>8 DEF ReadFile
<1>10. val' = [at |-> k + 1, order |-> o, lines |-> all, exit |-> None]
  <2>1. PICK a, b, c, d : val = [at |-> a, order |-> b, lines |-> c, exit |-> d]
      BY <1>1
  <2> QED
      BY <1>4, <1>9, <2>1
<1>11. PICK v : v = val' /\ v.at = k + 1 /\ v.order = o /\ v.lines = all /\ v.exit = None
    BY <1>10
<1>12. v \in [at : Nat, order : {o}, lines : {all}, exit : {None}]
    BY <1>2, <1>10, <1>11
<1>13. Readable(all) => Right(o, all)
  <2>1. Readable(lines) => Right(order, lines)
      BY <1>7 DEF HasRead
  <2> QED
      BY <1>6, <1>7, <1>8, <2>1, ParseRight
<1>14. all \in Seq(S \cup V)
  <2>1. lines \in Seq(S \cup V) /\ file \in Seq(S \cup V)
      BY <1>6, <1>7, SeqMonotonic
  <2> QED
      BY <1>8, <2>1
<1>15. None \notin {0, 1}
    BY NoneAssumption
<1>16. HasRead(v, n)
    BY <1>11, <1>12, <1>13, <1>14, <1>15 DEF HasRead
<1> QED
    BY <1>11, <1>16

LEMMA ValidateStep ==
    ASSUME NEW n, AllFiles(xdc, n), HasRead(val, n), Validate
    PROVE  HasRead(val', n)
<1>1. PICK O, L, E : val \in [at : Nat, order : O, lines : L, exit : E]
    BY DEF HasRead
<1>2. PICK e : e = IF xdc = <<>> THEN 2 ELSE exit_status(val.order)
    OBVIOUS
<1>3. PICK a, b, c, d : val = [at |-> a, order |-> b, lines |-> c, exit |-> d]
    BY <1>1
<1>4. a \in Nat /\ a = n
    BY <1>1, <1>3 DEF AllFiles, Validate
<1>5. val' = [at |-> a, order |-> b, lines |-> c, exit |-> e]
    BY <1>2, <1>3 DEF Validate
<1>6. PICK v : v = val' /\ v.at = a /\ v.order = b /\ v.lines = c /\ v.exit = e
    BY <1>5
<1>7. v \in [at : Nat, order : {b}, lines : {c}, exit : {e}]
    BY <1>4, <1>5, <1>6
<1>8. e \in {0, 1} => e = exit_status(b)
    BY <1>2, <1>3
<1>9. (\E S : c \in Seq(S)) /\ (Readable(c) => Right(b, c))
    BY <1>3 DEF HasRead
<1>10. HasRead(v, n)
    BY <1>4, <1>6, <1>7, <1>8, <1>9 DEF HasRead
<1> QED
    BY <1>6, <1>10

(* Each generated file is whole and says of its channel what the vendor    *)
(* says, pin for pin, and a run that gives up leaves the files of the      *)
(* later channels as they were: for every vendor's file and every map.     *)
THEOREM FaithfulFiles == ToolSpec => []GenFaithful
<1>1. GenInv => GenFaithful
    BY DEF GenInv
<1> QED
    BY <1>1, GenInit, GenStep, PTL DEF ToolSpec

(* The exit status of the checks is zero exactly if the claims of the      *)
(* lines read are sound, whatever mixture of old and new files was read:   *)
(* for every part, every table of standards and all files of lines the     *)
(* parser takes for what they are.                                         *)
THEOREM ExactVerdict == ToolSpec => []VerdictExact
<1>1. GenInv /\ CheckInv /\ [ToolNext]_toolvars => CheckInv'
  <2> SUFFICES ASSUME GenInv, CheckInv, [ToolNext]_toolvars PROVE CheckInv'
      OBVIOUS
  <2>1. PICK n : AllFiles(xdc, n) /\ HasRead(val, n)
      BY DEF CheckInv
  <2>2. CASE UNCHANGED <<xdc, val>>
      BY <2>1, <2>2 DEF CheckInv
  <2>3. CASE Generate
      BY <2>1, <2>3, WrittenFiles DEF CheckInv, Generate
  <2>4. CASE ReadFile
      BY <2>1, <2>4, ReadStep DEF CheckInv, ReadFile
  <2>5. CASE Validate
      BY <2>1, <2>5, ValidateStep DEF CheckInv, Validate
  <2> QED
      BY <2>2, <2>3, <2>4, <2>5 DEF ToolNext, PinNext, toolvars, pinvars
<1>2. CheckInv => VerdictExact
  <2> SUFFICES ASSUME CheckInv, val.exit \in {0, 1}, Readable(val.lines)
               PROVE  val.exit = 0 <=> Sound(Claims(val.lines))
      BY DEF VerdictExact
  <2>1. val.exit = exit_status(val.order) /\ Right(val.order, val.lines)
      BY DEF CheckInv, HasRead
  <2>2. validate(val.order) = {} <=> Sound(Claims(val.lines))
      BY <2>1, VerdictIs, NoneAssumption
  <2>3. val.exit = 0 <=> validate(val.order) = {}
      BY <2>1 DEF exit_status
  <2> QED
      BY <2>2, <2>3
<1> QED
    BY <1>1, <1>2, CheckInit, GenInit, GenStep, PTL DEF ToolSpec
=============================================================================
