--------------------------- MODULE Ddr4Cal_proofs ---------------------------
(***************************************************************************)
(* Proofs about Ddr4Cal, for any number of channels.  The invariant is a   *)
(* conjunction over the channels: what a channel's test and its history    *)
(* say of one another, and what of it the flops already show, by the       *)
(* number of sysclk edges since the script's last operation took effect.   *)
(***************************************************************************)
EXTENDS Ddr4Cal, TLAPS

(* The flops of a flag once it has stood still for edges sysclk edges.     *)
Shown(c, f) ==
    /\ edges >= 1 => last[c].flags[f]
    /\ edges >= 2 => q[c][1][f]
    /\ edges >= 3 => q[c][2][f]
Hidden(c, f) ==
    /\ edges >= 1 => ~last[c].flags[f]
    /\ edges >= 2 => ~q[c][1][f]
    /\ edges >= 3 => ~q[c][2][f]

Tests == [phase : {"idle", "testing", "over"}, busy : BOOLEAN,
          done : BOOLEAN, pass : BOOLEAN, errors : 0 .. MaxErrors]
Errors == 0 .. MaxErrors

TypeInv ==
    /\ upsets \in UpsetSets
    /\ calib \in [Channel -> BOOLEAN] /\ ecc_latched \in [Channel -> BOOLEAN]
    /\ start_sync \in [Channel -> BOOLEAN]
    /\ bist \in [Channel -> Tests]
    /\ q \in [Channel -> Flags \X Flags]
    /\ last \in [Channel -> [flags : Flags, errors : Errors]]
    /\ errors_cap \in [Channel -> Errors \cup {Torn}]
    /\ vio_start \in BOOLEAN
    /\ pc \in {"off", "calib", "fresh", "poll", "final"}
    /\ edges \in 0 .. JtagEdges
    /\ mark \in [Channel -> {"none", "running", "clean"}]
    /\ disturbed \subseteq UpsetKinds

(* The level while the script runs; and who sets the ECC latch.            *)
ScriptInv ==
    /\ pc \in {"calib", "fresh"} => ~vio_start
    /\ Watching => vio_start
    /\ "ecc" \notin upsets => \A c \in Channel : ~ecc_latched[c]

(* The port of a test, and a channel that is not calibrated has none.      *)
TestInv(c) ==
    /\ ~calib[c] => bist[c].phase = "idle" /\ ~bist[c].done
    /\ bist[c].phase = "testing" => bist[c].busy /\ ~bist[c].done
    /\ bist[c].phase # "testing" => ~bist[c].busy
    /\ bist[c].phase = "over" => bist[c].done
    /\ bist[c].pass => bist[c].done
    /\ bist[c].done => (bist[c].pass <=> bist[c].errors = 0)

(* Before the script raises start a test that is still running shows as    *)
(* busy, and so none is when it goes on.                                   *)
LowInv(c) ==
    /\ pc = "calib" /\ edges >= 1 => ~start_sync[c]
    /\ pc = "calib" /\ bist[c].phase = "testing" => Shown(c, "busy")
    /\ pc = "fresh" => ~start_sync[c] /\ bist[c].phase = "idle"

(* After it, a test that has begun stays on the level, and once the level  *)
(* has arrived no verdict of an earlier test is left.                      *)
Begun == pc = "final" \/ edges >= 1
HighInv(c) ==
    Watching =>
        /\ bist[c].phase # "idle" => start_sync[c]
        /\ Begun => start_sync[c] /\ (bist[c].phase = "idle" => ~bist[c].done)

(* A test without an error is marked, unless the ECC latch tells of it.    *)
MarkInv(c) ==
    /\ ~Watching => mark[c] = "none"
    /\ Watching /\ bist[c].phase = "testing" /\ bist[c].errors = 0 =>
          mark[c] \in {"running", "clean"} \/ ecc_latched[c]
    /\ Watching /\ bist[c].phase = "over" /\ bist[c].pass =>
          mark[c] = "clean" \/ ecc_latched[c]

(* Whether the n-th flop has seen what stands since the level arrived.     *)
Seen(n) == pc = "final" \/ edges >= n

(* Unless a channel is lost, done stays, and no flop is ahead of it.       *)
Lost == "lost" \in upsets /\ "lost" \in disturbed
DoneInv(c) ==
    Watching /\ ~Lost =>
        /\ Seen(1) /\ last[c].flags["done"] => bist[c].done
        /\ Seen(2) /\ q[c][1]["done"] => last[c].flags["done"]
        /\ Seen(3) /\ q[c][2]["done"] => q[c][1]["done"]
        /\ pc = "final" => q[c][2]["done"]

(* A pass that any flop shows is vouched for: by the mark or, until the    *)
(* script looks, by an ECC latch that is still set.                        *)
Apart == ~({"ecc", "lost"} \subseteq upsets)
Vouched(c) == mark[c] = "clean" \/ (bist[c].pass /\ ecc_latched[c])
PassInv(c) ==
    Watching /\ Apart =>
        /\ Seen(1) /\ last[c].flags["pass"] => Vouched(c)
        /\ Seen(2) /\ q[c][1]["pass"] => Vouched(c)
        /\ Seen(3) /\ q[c][2]["pass"] => Vouched(c)
        /\ pc = "final" /\ bist[c].pass /\ mark[c] # "clean" => Shown(c, "ecc")

(* What has not happened since the script raised start.                    *)
CalmInv(c) ==
    Watching =>
        /\ "lost" \notin disturbed => calib[c]
        /\ "ecc" \notin disturbed => ~ecc_latched[c]
        /\ "error" \notin disturbed /\ bist[c].phase # "idle" =>
              bist[c].errors = 0

(* The last refresh: every flop shows the verdict.                         *)
FinalInv(c) ==
    pc = "final" /\ ~Lost =>
        /\ edges >= 1 => last[c].errors = bist[c].errors
        /\ edges >= 2 => errors_cap[c] = bist[c].errors
        /\ bist[c].pass => Shown(c, "pass")
        /\ Hidden(c, "busy")
        /\ "lost" \notin disturbed => Shown(c, "calib")
        /\ "ecc" \notin disturbed => Hidden(c, "ecc")

ChannelInv(c) == /\ TestInv(c) /\ LowInv(c) /\ HighInv(c) /\ MarkInv(c)
                 /\ DoneInv(c) /\ PassInv(c) /\ CalmInv(c) /\ FinalInv(c)

IInv == TypeInv /\ ScriptInv /\ \A c \in Channel : ChannelInv(c)

-----------------------------------------------------------------------------
LEMMA TheFlags == /\ "calib" \in Flag /\ "done" \in Flag /\ "pass" \in Flag
                  /\ "busy" \in Flag /\ "ecc" \in Flag
BY DEF Flag

LEMMA LowIsFlags == Low \in Flags /\ \A f \in Flag : Low[f] = FALSE
BY DEF Low, Flags

LEMMA FreshIsTest ==
    /\ Fresh \in Tests
    /\ Fresh.phase = "idle" /\ Fresh.errors = 0
    /\ ~Fresh.busy /\ ~Fresh.done /\ ~Fresh.pass
<1>1. Fresh \in Tests
    BY CalAssumption DEF CalAssumption, Fresh, Tests
<1>2. Fresh.phase = "idle" /\ Fresh.errors = 0
    BY DEF Fresh
<1>3. ~Fresh.busy /\ ~Fresh.done /\ ~Fresh.pass
    BY DEF Fresh
<1> QED
    BY <1>1, <1>2, <1>3

LEMMA Busied ==
    ASSUME NEW s \in Tests, NEW t,
           t = [s EXCEPT !.phase = "testing", !.busy = TRUE]
    PROVE  /\ t \in Tests /\ t.phase = "testing" /\ t.busy
           /\ t.errors = s.errors /\ t.done = s.done /\ t.pass = s.pass
BY DEF Tests

LEMMA BegunIsTest ==
    ASSUME NEW t, t = [Fresh EXCEPT !.phase = "testing", !.busy = TRUE]
    PROVE  /\ t \in Tests /\ t.phase = "testing" /\ t.errors = 0
           /\ t.busy /\ ~t.done /\ ~t.pass
<1>1. PICK s \in Tests : s = Fresh
    BY FreshIsTest
<1>2. t = [s EXCEPT !.phase = "testing", !.busy = TRUE]
    BY <1>1, Zenon
<1>3. s.errors = 0 /\ ~s.done /\ ~s.pass
    BY <1>1, FreshIsTest, Zenon
<1>4. /\ t \in Tests /\ t.phase = "testing" /\ t.busy
      /\ t.errors = s.errors /\ t.done = s.done /\ t.pass = s.pass
    BY <1>2, Busied
<1> QED
    BY <1>3, <1>4

LEMMA OneErrorMore ==
    ASSUME NEW t \in Tests, t.errors < MaxErrors, NEW u,
           u = [t EXCEPT !.errors = t.errors + 1]
    PROVE  /\ u \in Tests /\ u.phase = t.phase /\ u.errors = t.errors + 1
           /\ u.errors # 0
           /\ u.busy = t.busy /\ u.done = t.done /\ u.pass = t.pass
BY CalAssumption DEF CalAssumption, Tests

LEMMA RearmIsTest ==
    ASSUME NEW t \in Tests, NEW u, u = [t EXCEPT !.phase = "idle"]
    PROVE  /\ u \in Tests /\ u.phase = "idle" /\ u.errors = t.errors
           /\ u.busy = t.busy /\ u.done = t.done /\ u.pass = t.pass
BY DEF Tests

LEMMA StatusIs ==
    ASSUME TypeInv, NEW c \in Channel
    PROVE  /\ status(c) \in Flags
           /\ status(c)["calib"] = calib[c]
           /\ status(c)["done"] = bist[c].done
           /\ status(c)["pass"] = bist[c].pass
           /\ status(c)["busy"] = bist[c].busy
           /\ status(c)["ecc"] = ecc_latched[c]
<1>1. /\ calib[c] \in BOOLEAN /\ ecc_latched[c] \in BOOLEAN
      /\ bist[c].done \in BOOLEAN /\ bist[c].pass \in BOOLEAN
      /\ bist[c].busy \in BOOLEAN
    BY DEF TypeInv, Tests
<1> QED
    BY <1>1 DEF status, Flags, Flag

-----------------------------------------------------------------------------
(* What a step of one channel leaves alone: the flops and the script, and  *)
(* the other channels.                                                     *)
Frame == UNCHANGED <<upsets, read, vio_start, pc, edges>>
Same(d) == /\ calib'[d] = calib[d] /\ ecc_latched'[d] = ecc_latched[d]
           /\ start_sync'[d] = start_sync[d] /\ bist'[d] = bist[d]
           /\ mark'[d] = mark[d]

(* A channel is not touched by the steps of another one.                   *)
LEMMA SameKept ==
    ASSUME Frame, NEW d \in Channel, Same(d), disturbed \subseteq disturbed',
           ChannelInv(d)
    PROVE  ChannelInv(d)'
<1>1. /\ upsets' = upsets /\ q' = q /\ last' = last /\ errors_cap' = errors_cap
      /\ vio_start' = vio_start /\ pc' = pc /\ edges' = edges
    BY DEF Frame, read
<1>2. /\ calib'[d] = calib[d] /\ ecc_latched'[d] = ecc_latched[d]
      /\ start_sync'[d] = start_sync[d] /\ bist'[d] = bist[d]
      /\ mark'[d] = mark[d]
    BY DEF Same
<1>3. ~Lost' => ~Lost
    BY <1>1 DEF Lost
<1>4. /\ (Watching' <=> Watching) /\ (Begun' <=> Begun) /\ (Apart' <=> Apart)
      /\ \A n \in {1, 2, 3} : Seen(n)' <=> Seen(n)
    BY <1>1 DEF Watching, Begun, Apart, Seen
<1>5. \A f \in Flag : /\ Shown(d, f)' <=> Shown(d, f)
                      /\ Hidden(d, f)' <=> Hidden(d, f)
    BY <1>1 DEF Shown, Hidden
<1>6. TestInv(d)' /\ LowInv(d)'
    BY <1>1, <1>2, <1>5, TheFlags DEF ChannelInv, TestInv, LowInv
<1>7. HighInv(d)' /\ MarkInv(d)'
    BY <1>1, <1>2, <1>4 DEF ChannelInv, HighInv, MarkInv
<1>8. DoneInv(d)'
    BY <1>1, <1>2, <1>3, <1>4 DEF ChannelInv, DoneInv
<1>9. PassInv(d)'
    BY <1>1, <1>2, <1>4, <1>5, TheFlags DEF ChannelInv, PassInv, Vouched
<1>10. CalmInv(d)'
    BY <1>1, <1>2, <1>4 DEF ChannelInv, CalmInv
<1>11. FinalInv(d)'
    BY <1>1, <1>2, <1>3, <1>5, TheFlags DEF ChannelInv, FinalInv
<1> QED
    BY <1>6, <1>7, <1>8, <1>9, <1>10, <1>11 DEF ChannelInv

LEMMA Marked ==
    ASSUME TypeInv, NEW c \in Channel, NEW m \in {"none", "running", "clean"},
           Mark(c, m)
    PROVE  /\ mark' \in [Channel -> {"none", "running", "clean"}]
           /\ mark'[c] = IF mark[c] = "clean" THEN "clean" ELSE m
           /\ \A d \in Channel \ {c} : mark'[d] = mark[d]
BY DEF TypeInv, Mark

LEMMA Disturbing ==
    ASSUME TypeInv, NEW kind \in UpsetKinds, Disturb(kind)
    PROVE  /\ disturbed' \subseteq UpsetKinds /\ disturbed \subseteq disturbed'
           /\ Watching => kind \in disturbed'
           /\ disturbed' \subseteq disturbed \cup {kind}
BY DEF TypeInv, Disturb

(* What a step of a channel does to it, action by action.                  *)
Stepped(c) == /\ Frame /\ TypeInv'
              /\ \A d \in Channel \ {c} : Same(d)
              /\ disturbed \subseteq disturbed'

LEMMA BeginStep ==
    ASSUME TypeInv, NEW c \in Channel, Begin(c), upsets' = upsets
    PROVE  /\ Stepped(c) /\ disturbed' = disturbed
           /\ bist[c].phase = "idle" /\ start_sync[c] /\ calib[c]
           /\ bist'[c].phase = "testing" /\ bist'[c].errors = 0
           /\ bist'[c].busy /\ ~bist'[c].done /\ ~bist'[c].pass
           /\ UNCHANGED <<calib, ecc_latched, start_sync>>
           /\ mark[c] = "clean" => mark'[c] = "clean"
           /\ mark[c] # "clean" =>
                mark'[c] = IF Watching THEN "running" ELSE "none"
<1>1. /\ UNCHANGED <<calib, ecc_latched, start_sync, read, vio_start, pc,
                     edges, disturbed>>
      /\ bist[c].phase = "idle" /\ start_sync[c] /\ calib[c]
    BY DEF Begin, bist_start
<1>2. PICK t : t = [Fresh EXCEPT !.phase = "testing", !.busy = TRUE]
    OBVIOUS
<1>3. /\ t \in Tests /\ t.phase = "testing" /\ t.errors = 0
      /\ t.busy /\ ~t.done /\ ~t.pass
    BY <1>2, BegunIsTest
<1>4. bist' = [bist EXCEPT ![c] = t]
    BY <1>2 DEF Begin
<1>5. /\ bist' \in [Channel -> Tests] /\ bist'[c] = t
      /\ \A d \in Channel \ {c} : bist'[d] = bist[d]
    BY <1>3, <1>4 DEF TypeInv
<1>6. /\ mark' \in [Channel -> {"none", "running", "clean"}]
      /\ mark'[c] = IF mark[c] = "clean" THEN "clean"
                    ELSE IF Watching THEN "running" ELSE "none"
      /\ \A d \in Channel \ {c} : mark'[d] = mark[d]
    BY Marked DEF Begin
<1>7. TypeInv'
    BY <1>1, <1>5, <1>6 DEF TypeInv, read
<1>8. Frame /\ \A d \in Channel \ {c} : Same(d)
    BY <1>1, <1>5, <1>6 DEF Frame, Same
<1> QED
    BY <1>1, <1>3, <1>5, <1>6, <1>7, <1>8 DEF Stepped

LEMMA MismatchStep ==
    ASSUME TypeInv, NEW c \in Channel, Mismatch(c), upsets' = upsets
    PROVE  /\ Stepped(c) /\ (Watching => "error" \in disturbed')
           /\ disturbed' \subseteq disturbed \cup {"error"}
           /\ bist[c].phase = "testing" /\ bist'[c].phase = "testing"
           /\ bist'[c].errors # 0
           /\ bist'[c].busy = bist[c].busy /\ bist'[c].done = bist[c].done
           /\ bist'[c].pass = bist[c].pass
           /\ UNCHANGED <<calib, ecc_latched, start_sync>>
           /\ mark'[c] = IF mark[c] = "clean" THEN "clean" ELSE "none"
<1>1. /\ UNCHANGED <<calib, ecc_latched, start_sync, read, vio_start, pc,
                     edges>>
      /\ bist[c].phase = "testing" /\ bist[c].errors < MaxErrors
      /\ bist[c] \in Tests
    BY DEF Mismatch, TypeInv
<1>2. PICK t : t = [bist[c] EXCEPT !.errors = bist[c].errors + 1]
    OBVIOUS
<1>3. /\ t \in Tests /\ t.phase = bist[c].phase /\ t.errors # 0
      /\ t.busy = bist[c].busy /\ t.done = bist[c].done
      /\ t.pass = bist[c].pass
    BY <1>1, <1>2, OneErrorMore
<1>4. bist' = [bist EXCEPT ![c] = t]
    BY <1>2 DEF Mismatch
<1>5. /\ bist' \in [Channel -> Tests] /\ bist'[c] = t
      /\ \A d \in Channel \ {c} : bist'[d] = bist[d]
    BY <1>3, <1>4 DEF TypeInv
<1>6. /\ mark' \in [Channel -> {"none", "running", "clean"}]
      /\ mark'[c] = IF mark[c] = "clean" THEN "clean" ELSE "none"
      /\ \A d \in Channel \ {c} : mark'[d] = mark[d]
    BY Marked DEF Mismatch
<1>7. /\ disturbed' \subseteq UpsetKinds /\ disturbed \subseteq disturbed'
      /\ Watching => "error" \in disturbed'
      /\ disturbed' \subseteq disturbed \cup {"error"}
    BY Disturbing DEF Mismatch, UpsetKinds
<1>8. TypeInv'
    BY <1>1, <1>5, <1>6, <1>7 DEF TypeInv, read
<1>9. Frame /\ \A d \in Channel \ {c} : Same(d)
    BY <1>1, <1>5, <1>6 DEF Frame, Same
<1> QED
    BY <1>1, <1>3, <1>5, <1>6, <1>7, <1>8, <1>9 DEF Stepped

LEMMA VerdictStep ==
    ASSUME TypeInv, NEW c \in Channel, Verdict(c), upsets' = upsets
    PROVE  /\ Stepped(c) /\ disturbed' = disturbed
           /\ bist[c].phase = "testing"
           /\ bist'[c].phase =
                IF start_sync[c] /\ calib[c] THEN "over" ELSE "idle"
           /\ bist'[c].errors = bist[c].errors
           /\ ~bist'[c].busy /\ bist'[c].done
           /\ bist'[c].pass <=> bist[c].errors = 0
           /\ UNCHANGED <<calib, ecc_latched, start_sync>>
           /\ mark'[c] = IF mark[c] \in {"clean", "running"} THEN "clean"
                                                              ELSE "none"
<1>1. /\ UNCHANGED <<calib, ecc_latched, start_sync, read, vio_start, pc,
                     edges, disturbed>>
      /\ bist[c].phase = "testing" /\ bist[c] \in Tests
    BY DEF Verdict, TypeInv
<1>2. PICK phase \in {"over", "idle"} :
         phase = IF bist_start(c) THEN "over" ELSE "idle"
    OBVIOUS
<1>3. PICK ok \in BOOLEAN : ok = (bist[c].errors = 0)
    OBVIOUS
<1>4. PICK t : t = [bist[c] EXCEPT !.busy = FALSE, !.done = TRUE, !.pass = ok,
                                   !.phase = phase]
    OBVIOUS
<1>5. /\ t \in Tests /\ t.phase = phase /\ t.errors = bist[c].errors
      /\ ~t.busy /\ t.done /\ t.pass = ok
    <2>1. PICK old \in Tests : old = bist[c]
        BY <1>1
    <2>2. t = [old EXCEPT !.busy = FALSE, !.done = TRUE, !.pass = ok,
                          !.phase = phase]
        BY <1>4, <2>1, Zenon
    <2>3. /\ t \in Tests /\ t.phase = phase /\ t.errors = old.errors
          /\ ~t.busy /\ t.done /\ t.pass = ok
        BY <2>2 DEF Tests
    <2> QED
        BY <2>1, <2>3
<1>6. bist' = [bist EXCEPT ![c] = t]
    BY <1>2, <1>3, <1>4, Zenon DEF Verdict
<1>7. /\ bist' \in [Channel -> Tests] /\ bist'[c] = t
      /\ \A d \in Channel \ {c} : bist'[d] = bist[d]
    BY <1>5, <1>6 DEF TypeInv
<1>8. /\ mark' \in [Channel -> {"none", "running", "clean"}]
      /\ mark'[c] = IF mark[c] = "clean" THEN "clean"
                    ELSE IF mark[c] = "running" THEN "clean" ELSE "none"
      /\ \A d \in Channel \ {c} : mark'[d] = mark[d]
    BY Marked DEF Verdict
<1>9. TypeInv'
    BY <1>1, <1>7, <1>8 DEF TypeInv, read
<1>10. Frame /\ \A d \in Channel \ {c} : Same(d)
    BY <1>1, <1>7, <1>8 DEF Frame, Same
<1>11. bist'[c].pass <=> bist[c].errors = 0
    BY <1>3, <1>5, <1>7
<1>12. bist'[c].phase = IF start_sync[c] /\ calib[c] THEN "over" ELSE "idle"
    BY <1>2, <1>5, <1>7 DEF bist_start
<1> QED
    BY <1>1, <1>5, <1>7, <1>8, <1>9, <1>10, <1>11, <1>12 DEF Stepped

LEMMA RearmStep ==
    ASSUME TypeInv, NEW c \in Channel, Rearm(c), upsets' = upsets
    PROVE  /\ Stepped(c) /\ disturbed' = disturbed
           /\ bist[c].phase = "over" /\ ~(start_sync[c] /\ calib[c])
           /\ bist'[c].phase = "idle" /\ bist'[c].errors = bist[c].errors
           /\ bist'[c].busy = bist[c].busy /\ bist'[c].done = bist[c].done
           /\ bist'[c].pass = bist[c].pass
           /\ UNCHANGED <<calib, ecc_latched, start_sync, mark>>
<1>1. /\ UNCHANGED <<calib, ecc_latched, start_sync, read, vio_start, pc,
                     edges, mark, disturbed>>
      /\ bist[c].phase = "over" /\ ~(start_sync[c] /\ calib[c])
      /\ bist[c] \in Tests
    BY DEF Rearm, bist_start, TypeInv
<1>2. PICK t : t = [bist[c] EXCEPT !.phase = "idle"]
    OBVIOUS
<1>3. /\ t \in Tests /\ t.phase = "idle" /\ t.errors = bist[c].errors
      /\ t.busy = bist[c].busy /\ t.done = bist[c].done
      /\ t.pass = bist[c].pass
    BY <1>1, <1>2, RearmIsTest
<1>4. bist' = [bist EXCEPT ![c] = t]
    BY <1>2 DEF Rearm
<1>5. /\ bist' \in [Channel -> Tests] /\ bist'[c] = t
      /\ \A d \in Channel \ {c} : bist'[d] = bist[d]
    BY <1>3, <1>4 DEF TypeInv
<1>6. TypeInv'
    BY <1>1, <1>5 DEF TypeInv, read
<1>7. Frame /\ \A d \in Channel \ {c} : Same(d)
    BY <1>1, <1>5 DEF Frame, Same
<1> QED
    BY <1>1, <1>3, <1>5, <1>6, <1>7 DEF Stepped

LEMMA ShiftStep ==
    ASSUME TypeInv, NEW c \in Channel, ShiftStart(c), upsets' = upsets
    PROVE  /\ Stepped(c) /\ disturbed' = disturbed
           /\ start_sync[c] # vio_start /\ start_sync'[c] = vio_start
           /\ UNCHANGED <<calib, bist, ecc_latched, mark>>
<1>1. /\ UNCHANGED <<calib, bist, ecc_latched, read, vio_start, pc, edges,
                     mark, disturbed>>
      /\ start_sync[c] # vio_start
      /\ start_sync' = [start_sync EXCEPT ![c] = vio_start]
    BY DEF ShiftStart
<1>2. /\ start_sync' \in [Channel -> BOOLEAN] /\ start_sync'[c] = vio_start
      /\ \A d \in Channel \ {c} : start_sync'[d] = start_sync[d]
    BY <1>1 DEF TypeInv
<1>3. TypeInv'
    BY <1>1, <1>2 DEF TypeInv, read
<1>4. Frame /\ \A d \in Channel \ {c} : Same(d)
    BY <1>1, <1>2 DEF Frame, Same
<1> QED
    BY <1>1, <1>2, <1>3, <1>4 DEF Stepped

LEMMA CalibrateStep ==
    ASSUME TypeInv, NEW c \in Channel, Calibrate(c), upsets' = upsets
    PROVE  /\ Stepped(c) /\ disturbed' = disturbed
           /\ ~calib[c] /\ calib'[c]
           /\ UNCHANGED <<bist, ecc_latched, start_sync, mark>>
<1>1. /\ UNCHANGED <<bist, ecc_latched, start_sync, read, vio_start, pc, edges,
                     mark, disturbed>>
      /\ ~calib[c] /\ calib' = [calib EXCEPT ![c] = TRUE]
    BY DEF Calibrate
<1>2. /\ calib' \in [Channel -> BOOLEAN] /\ calib'[c] = TRUE
      /\ \A d \in Channel \ {c} : calib'[d] = calib[d]
    BY <1>1 DEF TypeInv
<1>3. TypeInv'
    BY <1>1, <1>2 DEF TypeInv, read
<1>4. Frame /\ \A d \in Channel \ {c} : Same(d)
    BY <1>1, <1>2 DEF Frame, Same
<1> QED
    BY <1>1, <1>2, <1>3, <1>4 DEF Stepped

LEMMA LoseStep ==
    ASSUME TypeInv, NEW c \in Channel, LoseChannel(c), upsets' = upsets
    PROVE  /\ Stepped(c) /\ (Watching => "lost" \in disturbed')
           /\ "lost" \in upsets /\ calib[c] /\ ~calib'[c]
           /\ bist'[c].phase = "idle" /\ ~bist'[c].busy /\ ~bist'[c].done
           /\ ~bist'[c].pass
           /\ ecc_latched'[c] => ecc_latched[c]
           /\ start_sync' = start_sync
           /\ mark'[c] = IF mark[c] = "clean" THEN "clean" ELSE "none"
<1>1. /\ UNCHANGED <<start_sync, read, vio_start, pc, edges>>
      /\ "lost" \in upsets /\ calib[c]
      /\ calib' = [calib EXCEPT ![c] = FALSE]
      /\ \/ ecc_latched' = ecc_latched
         \/ ecc_latched' = [ecc_latched EXCEPT ![c] = FALSE]
    BY DEF LoseChannel
<1>2. /\ calib' \in [Channel -> BOOLEAN] /\ ~calib'[c]
      /\ \A d \in Channel \ {c} : calib'[d] = calib[d]
    BY <1>1 DEF TypeInv
<1>3. /\ ecc_latched' \in [Channel -> BOOLEAN]
      /\ ecc_latched'[c] => ecc_latched[c]
      /\ \A d \in Channel \ {c} : ecc_latched'[d] = ecc_latched[d]
    BY <1>1 DEF TypeInv
<1>4. PICK t \in Tests : t = Fresh
    BY FreshIsTest
<1>5. /\ t.phase = "idle" /\ ~t.busy /\ ~t.done /\ ~t.pass
    BY <1>4, FreshIsTest, Zenon
<1>6. bist' = [bist EXCEPT ![c] = t]
    BY <1>4, Zenon DEF LoseChannel
<1>7. /\ bist' \in [Channel -> Tests] /\ bist'[c] = t
      /\ \A d \in Channel \ {c} : bist'[d] = bist[d]
    BY <1>4, <1>6 DEF TypeInv
<1>8. /\ mark' \in [Channel -> {"none", "running", "clean"}]
      /\ mark'[c] = IF mark[c] = "clean" THEN "clean" ELSE "none"
      /\ \A d \in Channel \ {c} : mark'[d] = mark[d]
    BY Marked DEF LoseChannel
<1>9. /\ disturbed' \subseteq UpsetKinds /\ disturbed \subseteq disturbed'
      /\ Watching => "lost" \in disturbed'
    BY Disturbing DEF LoseChannel, UpsetKinds
<1>10. TypeInv'
    BY <1>1, <1>2, <1>3, <1>7, <1>8, <1>9 DEF TypeInv, read
<1>11. Frame /\ \A d \in Channel \ {c} : Same(d)
    BY <1>1, <1>2, <1>3, <1>7, <1>8 DEF Frame, Same
<1> QED
    BY <1>1, <1>2, <1>3, <1>5, <1>7, <1>8, <1>9, <1>10, <1>11 DEF Stepped

LEMMA EccStep ==
    ASSUME TypeInv, NEW c \in Channel, EccEvent(c), upsets' = upsets
    PROVE  /\ Stepped(c) /\ (Watching => "ecc" \in disturbed')
           /\ disturbed' \subseteq disturbed \cup {"ecc"}
           /\ "ecc" \in upsets /\ ~ecc_latched[c] /\ ecc_latched'[c]
           /\ UNCHANGED <<calib, bist, start_sync>>
           /\ mark'[c] = IF mark[c] = "clean" THEN "clean" ELSE "none"
<1>1. /\ UNCHANGED <<calib, bist, start_sync, read, vio_start, pc, edges>>
      /\ "ecc" \in upsets /\ ~ecc_latched[c]
      /\ ecc_latched' = [ecc_latched EXCEPT ![c] = TRUE]
    BY DEF EccEvent
<1>2. /\ ecc_latched' \in [Channel -> BOOLEAN] /\ ecc_latched'[c] = TRUE
      /\ \A d \in Channel \ {c} : ecc_latched'[d] = ecc_latched[d]
    BY <1>1 DEF TypeInv
<1>3. /\ mark' \in [Channel -> {"none", "running", "clean"}]
      /\ mark'[c] = IF mark[c] = "clean" THEN "clean" ELSE "none"
      /\ \A d \in Channel \ {c} : mark'[d] = mark[d]
    BY Marked DEF EccEvent
<1>4. /\ disturbed' \subseteq UpsetKinds /\ disturbed \subseteq disturbed'
      /\ Watching => "ecc" \in disturbed'
      /\ disturbed' \subseteq disturbed \cup {"ecc"}
    BY Disturbing DEF EccEvent, UpsetKinds
<1>5. TypeInv'
    BY <1>1, <1>2, <1>3, <1>4 DEF TypeInv, read
<1>6. Frame /\ \A d \in Channel \ {c} : Same(d)
    BY <1>1, <1>2, <1>3 DEF Frame, Same
<1> QED
    BY <1>1, <1>2, <1>3, <1>4, <1>5, <1>6 DEF Stepped

-----------------------------------------------------------------------------
LEMMA EdgesType == TypeInv => edges \in Nat
BY CalAssumption DEF CalAssumption, TypeInv

(* The flops and the script while a channel takes a step.                  *)
LEMMA FrameKeeps ==
    ASSUME Frame, NEW c \in Channel
    PROVE  /\ upsets' = upsets /\ q' = q /\ last' = last
           /\ errors_cap' = errors_cap /\ vio_start' = vio_start
           /\ pc' = pc /\ edges' = edges
           /\ (Watching' <=> Watching) /\ (Begun' <=> Begun)
           /\ (Apart' <=> Apart) /\ (Seen(1)' <=> Seen(1))
           /\ (Seen(2)' <=> Seen(2)) /\ (Seen(3)' <=> Seen(3))
           /\ \A f \in Flag : (Shown(c, f)' <=> Shown(c, f))
                              /\ (Hidden(c, f)' <=> Hidden(c, f))
BY DEF Frame, read, Watching, Begun, Apart, Seen, Shown, Hidden

(* The invariant of a channel under each step of its own.                  *)
LEMMA BeginKeeps ==
    ASSUME TypeInv, ScriptInv, NEW c \in Channel, Begin(c), upsets' = upsets,
           ChannelInv(c)
    PROVE  ChannelInv(c)'
<1>1. /\ Frame /\ disturbed' = disturbed
      /\ bist[c].phase = "idle" /\ start_sync[c] /\ calib[c]
      /\ bist'[c].phase = "testing" /\ bist'[c].errors = 0
      /\ bist'[c].busy /\ ~bist'[c].done /\ ~bist'[c].pass
      /\ UNCHANGED <<calib, ecc_latched, start_sync>>
      /\ mark[c] = "clean" => mark'[c] = "clean"
      /\ mark[c] # "clean" =>
           mark'[c] = IF Watching THEN "running" ELSE "none"
    BY BeginStep DEF Stepped
<1>2. /\ upsets' = upsets /\ q' = q /\ last' = last
      /\ errors_cap' = errors_cap /\ vio_start' = vio_start
      /\ pc' = pc /\ edges' = edges
      /\ (Watching' <=> Watching) /\ (Begun' <=> Begun) /\ (Apart' <=> Apart)
      /\ (Seen(1)' <=> Seen(1)) /\ (Seen(2)' <=> Seen(2))
      /\ (Seen(3)' <=> Seen(3))
      /\ \A f \in Flag : (Shown(c, f)' <=> Shown(c, f))
                         /\ (Hidden(c, f)' <=> Hidden(c, f))
    BY <1>1, FrameKeeps
<1>3. /\ edges >= 1 => pc # "calib"
      /\ pc # "fresh"
      /\ Watching /\ Begun => ~bist[c].done /\ ~bist[c].pass
    BY <1>1 DEF ChannelInv, LowInv, HighInv, TestInv
<1>4. TestInv(c)'
    BY <1>1 DEF TestInv
<1>5. LowInv(c)'
    BY <1>1, <1>2, <1>3, EdgesType DEF LowInv, Shown
<1>6. HighInv(c)'
    BY <1>1, <1>2 DEF HighInv, ChannelInv
<1>7. MarkInv(c)'
    BY <1>1, <1>2 DEF MarkInv, ChannelInv
<1>8. DoneInv(c)'
    BY <1>1, <1>2, <1>3, EdgesType DEF DoneInv, ChannelInv, Seen, Begun, Lost
<1>9. PassInv(c)'
    BY <1>1, <1>2, <1>3, EdgesType
       DEF PassInv, ChannelInv, Seen, Begun, Vouched
<1>10. CalmInv(c)'
    BY <1>1, <1>2 DEF CalmInv, ChannelInv
<1>11. FinalInv(c)'
    BY <1>1, <1>2, <1>3, TheFlags
       DEF FinalInv, ChannelInv, Begun, Lost, DoneInv, Seen, Watching
<1> QED
    BY <1>4, <1>5, <1>6, <1>7, <1>8, <1>9, <1>10, <1>11 DEF ChannelInv

LEMMA MismatchKeeps ==
    ASSUME TypeInv, ScriptInv, NEW c \in Channel, Mismatch(c),
           upsets' = upsets,
           ChannelInv(c)
    PROVE  ChannelInv(c)'
<1>1. /\ Frame /\ (Lost' <=> Lost) /\ (Watching => "error" \in disturbed')
      /\ disturbed \subseteq disturbed'
      /\ bist[c].phase = "testing" /\ bist'[c].phase = "testing"
      /\ bist'[c].errors # 0
      /\ bist'[c].busy = bist[c].busy /\ bist'[c].done = bist[c].done
      /\ bist'[c].pass = bist[c].pass
      /\ UNCHANGED <<calib, ecc_latched, start_sync>>
      /\ mark'[c] = IF mark[c] = "clean" THEN "clean" ELSE "none"
  <2>1. /\ Frame /\ (Watching => "error" \in disturbed')
        /\ disturbed \subseteq disturbed'
        /\ disturbed' \subseteq disturbed \cup {"error"}
        /\ bist[c].phase = "testing" /\ bist'[c].phase = "testing"
        /\ bist'[c].errors # 0
        /\ bist'[c].busy = bist[c].busy /\ bist'[c].done = bist[c].done
        /\ bist'[c].pass = bist[c].pass
        /\ UNCHANGED <<calib, ecc_latched, start_sync>>
        /\ mark'[c] = IF mark[c] = "clean" THEN "clean" ELSE "none"
      BY MismatchStep DEF Stepped
  <2>2. Lost' <=> Lost
      BY <2>1 DEF Frame, Lost
  <2> QED
      BY <2>1, <2>2
<1>2. ~bist[c].done /\ ~bist[c].pass /\ (pc = "final" => Lost)
    BY <1>1 DEF ChannelInv, TestInv, DoneInv, Watching, Seen
<1>3. TestInv(c)'
    BY <1>1, <1>2 DEF TestInv, ChannelInv
<1>4. LowInv(c)'
    BY <1>1, <1>2, FrameKeeps, TheFlags DEF LowInv, ChannelInv, Watching
<1>5. HighInv(c)'
    BY <1>1, <1>2, FrameKeeps DEF HighInv, ChannelInv
<1>6. MarkInv(c)'
    BY <1>1, <1>2, FrameKeeps DEF MarkInv, ChannelInv
<1>7. DoneInv(c)'
    BY <1>1, <1>2, FrameKeeps DEF DoneInv, ChannelInv, Lost
<1>8. PassInv(c)'
    BY <1>1, <1>2, FrameKeeps, TheFlags
       DEF PassInv, ChannelInv, Vouched, MarkInv
<1>9. CalmInv(c)'
    BY <1>1, <1>2, FrameKeeps DEF CalmInv, ChannelInv
<1>10. FinalInv(c)'
    BY <1>1, <1>2, FrameKeeps, TheFlags
       DEF FinalInv, ChannelInv, Lost, Watching
<1> QED
    BY <1>3, <1>4, <1>5, <1>6, <1>7, <1>8, <1>9, <1>10 DEF ChannelInv

LEMMA VerdictKeeps ==
    ASSUME TypeInv, ScriptInv, NEW c \in Channel, Verdict(c), upsets' = upsets,
           ChannelInv(c)
    PROVE  ChannelInv(c)'
<1>1. /\ Frame /\ disturbed' = disturbed
      /\ bist[c].phase = "testing"
      /\ bist'[c].phase = IF start_sync[c] /\ calib[c] THEN "over" ELSE "idle"
      /\ bist'[c].errors = bist[c].errors
      /\ ~bist'[c].busy /\ bist'[c].done
      /\ bist'[c].pass <=> bist[c].errors = 0
      /\ UNCHANGED <<calib, ecc_latched, start_sync>>
      /\ mark'[c] = IF mark[c] \in {"clean", "running"} THEN "clean"
                                                         ELSE "none"
    BY VerdictStep DEF Stepped
<1>2. /\ ~bist[c].done /\ ~bist[c].pass /\ (pc = "final" => Lost)
      /\ calib[c] /\ (Watching => start_sync[c])
      /\ Lost /\ Apart => ~ecc_latched[c]
  <2>1. ~bist[c].done /\ ~bist[c].pass /\ calib[c]
      BY <1>1 DEF ChannelInv, TestInv
  <2>2. Watching => start_sync[c]
      BY <1>1 DEF ChannelInv, HighInv
  <2>3. pc = "final" => Lost
      BY <2>1 DEF ChannelInv, DoneInv, Watching, Seen
  <2>4. Lost /\ Apart => ~ecc_latched[c]
      BY DEF Lost, Apart, ScriptInv
  <2> QED
      BY <2>1, <2>2, <2>3, <2>4
<1>3. TestInv(c)'
    BY <1>1, <1>2 DEF TestInv, ChannelInv
<1>4. LowInv(c)'
    BY <1>1, <1>2, FrameKeeps, TheFlags DEF LowInv, ChannelInv, Watching
<1>5. HighInv(c)'
    BY <1>1, <1>2, FrameKeeps DEF HighInv, ChannelInv
<1>6. MarkInv(c)'
    BY <1>1, <1>2, FrameKeeps DEF MarkInv, ChannelInv
<1>7. DoneInv(c)'
    BY <1>1, <1>2, FrameKeeps DEF DoneInv, ChannelInv, Lost
<1>8. PassInv(c)'
    BY <1>1, <1>2, FrameKeeps, TheFlags
       DEF PassInv, ChannelInv, Vouched, MarkInv
<1>9. CalmInv(c)'
    BY <1>1, <1>2, FrameKeeps DEF CalmInv, ChannelInv
<1>10. FinalInv(c)'
    BY <1>1, <1>2, FrameKeeps, TheFlags
       DEF FinalInv, ChannelInv, Lost, Watching
<1> QED
    BY <1>3, <1>4, <1>5, <1>6, <1>7, <1>8, <1>9, <1>10 DEF ChannelInv

LEMMA RearmKeeps ==
    ASSUME TypeInv, ScriptInv, NEW c \in Channel, Rearm(c), upsets' = upsets,
           ChannelInv(c)
    PROVE  ChannelInv(c)'
<1>1. /\ Frame /\ disturbed' = disturbed
      /\ bist[c].phase = "over" /\ ~(start_sync[c] /\ calib[c])
      /\ bist'[c].phase = "idle" /\ bist'[c].errors = bist[c].errors
      /\ bist'[c].busy = bist[c].busy /\ bist'[c].done = bist[c].done
      /\ bist'[c].pass = bist[c].pass
      /\ UNCHANGED <<calib, ecc_latched, start_sync, mark>>
    BY RearmStep DEF Stepped
<1>2. ~Watching
    BY <1>1 DEF ChannelInv, TestInv, HighInv
<1>3. TestInv(c)'
    BY <1>1, <1>2 DEF TestInv, ChannelInv
<1>4. LowInv(c)'
    BY <1>1, <1>2, FrameKeeps, TheFlags DEF LowInv, ChannelInv, Watching
<1>5. HighInv(c)'
    BY <1>1, <1>2, FrameKeeps DEF HighInv, ChannelInv
<1>6. MarkInv(c)'
    BY <1>1, <1>2, FrameKeeps DEF MarkInv, ChannelInv
<1>7. DoneInv(c)'
    BY <1>1, <1>2, FrameKeeps DEF DoneInv, ChannelInv, Lost
<1>8. PassInv(c)'
    BY <1>1, <1>2, FrameKeeps, TheFlags
       DEF PassInv, ChannelInv, Vouched, MarkInv
<1>9. CalmInv(c)'
    BY <1>1, <1>2, FrameKeeps DEF CalmInv, ChannelInv
<1>10. FinalInv(c)'
    BY <1>1, <1>2, FrameKeeps, TheFlags
       DEF FinalInv, ChannelInv, Lost, Watching
<1> QED
    BY <1>3, <1>4, <1>5, <1>6, <1>7, <1>8, <1>9, <1>10 DEF ChannelInv

LEMMA ShiftStartKeeps ==
    ASSUME TypeInv, ScriptInv, NEW c \in Channel, ShiftStart(c),
           upsets' = upsets,
           ChannelInv(c)
    PROVE  ChannelInv(c)'
<1>1. /\ Frame /\ disturbed' = disturbed
      /\ start_sync'[c] = vio_start
      /\ UNCHANGED <<calib, bist, ecc_latched, mark>>
    BY ShiftStep DEF Stepped
<1>2. (pc \in {"calib", "fresh"} => ~vio_start) /\ (Watching => vio_start)
    BY <1>1 DEF ChannelInv, ScriptInv
<1>3. TestInv(c)'
    BY <1>1, <1>2 DEF TestInv, ChannelInv
<1>4. LowInv(c)'
    BY <1>1, <1>2, FrameKeeps, TheFlags DEF LowInv, ChannelInv, Watching
<1>5. HighInv(c)'
    BY <1>1, <1>2, FrameKeeps DEF HighInv, ChannelInv
<1>6. MarkInv(c)'
    BY <1>1, <1>2, FrameKeeps DEF MarkInv, ChannelInv
<1>7. DoneInv(c)'
    BY <1>1, <1>2, FrameKeeps DEF DoneInv, ChannelInv, Lost
<1>8. PassInv(c)'
    BY <1>1, <1>2, FrameKeeps, TheFlags
       DEF PassInv, ChannelInv, Vouched, MarkInv
<1>9. CalmInv(c)'
    BY <1>1, <1>2, FrameKeeps DEF CalmInv, ChannelInv
<1>10. FinalInv(c)'
    BY <1>1, <1>2, FrameKeeps, TheFlags
       DEF FinalInv, ChannelInv, Lost, Watching
<1> QED
    BY <1>3, <1>4, <1>5, <1>6, <1>7, <1>8, <1>9, <1>10 DEF ChannelInv

LEMMA CalibrateKeeps ==
    ASSUME TypeInv, ScriptInv, NEW c \in Channel, Calibrate(c),
           upsets' = upsets,
           ChannelInv(c)
    PROVE  ChannelInv(c)'
<1>1. /\ Frame /\ disturbed' = disturbed
      /\ ~calib[c] /\ calib'[c]
      /\ UNCHANGED <<bist, ecc_latched, start_sync, mark>>
    BY CalibrateStep DEF Stepped
<1>2. bist[c].phase = "idle" /\ ~bist[c].done
    BY <1>1 DEF ChannelInv, TestInv
<1>3. TestInv(c)'
    BY <1>1, <1>2 DEF TestInv, ChannelInv
<1>4. LowInv(c)'
    BY <1>1, <1>2, FrameKeeps, TheFlags DEF LowInv, ChannelInv, Watching
<1>5. HighInv(c)'
    BY <1>1, <1>2, FrameKeeps DEF HighInv, ChannelInv
<1>6. MarkInv(c)'
    BY <1>1, <1>2, FrameKeeps DEF MarkInv, ChannelInv
<1>7. DoneInv(c)'
    BY <1>1, <1>2, FrameKeeps DEF DoneInv, ChannelInv, Lost
<1>8. PassInv(c)'
    BY <1>1, <1>2, FrameKeeps, TheFlags
       DEF PassInv, ChannelInv, Vouched, MarkInv
<1>9. CalmInv(c)'
    BY <1>1, <1>2, FrameKeeps DEF CalmInv, ChannelInv
<1>10. FinalInv(c)'
    BY <1>1, <1>2, FrameKeeps, TheFlags
       DEF FinalInv, ChannelInv, Lost, Watching
<1> QED
    BY <1>3, <1>4, <1>5, <1>6, <1>7, <1>8, <1>9, <1>10 DEF ChannelInv

LEMMA LoseChannelKeeps ==
    ASSUME TypeInv, ScriptInv, NEW c \in Channel, LoseChannel(c),
           upsets' = upsets,
           ChannelInv(c)
    PROVE  ChannelInv(c)'
<1>1. /\ Frame /\ (Watching => Lost') /\ disturbed \subseteq disturbed'
      /\ (Watching => "lost" \in disturbed')
      /\ "lost" \in upsets /\ ~calib'[c]
      /\ bist'[c].phase = "idle" /\ ~bist'[c].busy /\ ~bist'[c].done
      /\ ~bist'[c].pass
      /\ ecc_latched'[c] => ecc_latched[c]
      /\ start_sync' = start_sync
      /\ mark'[c] = IF mark[c] = "clean" THEN "clean" ELSE "none"
    BY LoseStep DEF Stepped, Lost, Frame
<1>2. Apart => ~ecc_latched[c]
    BY <1>1 DEF ChannelInv, Apart, ScriptInv
<1>3. TestInv(c)'
    BY <1>1, <1>2 DEF TestInv, ChannelInv
<1>4. LowInv(c)'
    BY <1>1, <1>2, FrameKeeps, TheFlags DEF LowInv, ChannelInv, Watching
<1>5. HighInv(c)'
    BY <1>1, <1>2, FrameKeeps DEF HighInv, ChannelInv
<1>6. MarkInv(c)'
    BY <1>1, <1>2, FrameKeeps DEF MarkInv, ChannelInv
<1>7. DoneInv(c)'
    BY <1>1, <1>2, FrameKeeps DEF DoneInv, ChannelInv, Lost
<1>8. PassInv(c)'
    BY <1>1, <1>2, FrameKeeps, TheFlags
       DEF PassInv, ChannelInv, Vouched, MarkInv
<1>9. CalmInv(c)'
    BY <1>1, <1>2, FrameKeeps DEF CalmInv, ChannelInv
<1>10. FinalInv(c)'
    BY <1>1, <1>2, FrameKeeps, TheFlags
       DEF FinalInv, ChannelInv, Lost, Watching
<1> QED
    BY <1>3, <1>4, <1>5, <1>6, <1>7, <1>8, <1>9, <1>10 DEF ChannelInv

LEMMA EccEventKeeps ==
    ASSUME TypeInv, ScriptInv, NEW c \in Channel, EccEvent(c),
           upsets' = upsets,
           ChannelInv(c)
    PROVE  ChannelInv(c)'
<1>1. /\ Frame /\ (Lost' <=> Lost) /\ (Watching => "ecc" \in disturbed')
      /\ disturbed \subseteq disturbed'
      /\ ecc_latched'[c]
      /\ UNCHANGED <<calib, bist, start_sync>>
      /\ mark'[c] = IF mark[c] = "clean" THEN "clean" ELSE "none"
    BY EccStep DEF Stepped, Lost, Frame
<1>2. mark'[c] = "clean" <=> mark[c] = "clean"
    BY <1>1 DEF ChannelInv, MarkInv
<1>3. TestInv(c)'
    BY <1>1, <1>2 DEF TestInv, ChannelInv
<1>4. LowInv(c)'
    BY <1>1, <1>2, FrameKeeps, TheFlags DEF LowInv, ChannelInv, Watching
<1>5. HighInv(c)'
    BY <1>1, <1>2, FrameKeeps DEF HighInv, ChannelInv
<1>6. MarkInv(c)'
    BY <1>1, <1>2, FrameKeeps DEF MarkInv, ChannelInv
<1>7. DoneInv(c)'
    BY <1>1, <1>2, FrameKeeps DEF DoneInv, ChannelInv, Lost
<1>8. PassInv(c)'
    BY <1>1, <1>2, FrameKeeps, TheFlags
       DEF PassInv, ChannelInv, Vouched, MarkInv
<1>9. CalmInv(c)'
    BY <1>1, <1>2, FrameKeeps DEF CalmInv, ChannelInv
<1>10. FinalInv(c)'
    BY <1>1, <1>2, FrameKeeps, TheFlags
       DEF FinalInv, ChannelInv, Lost, Watching
<1> QED
    BY <1>3, <1>4, <1>5, <1>6, <1>7, <1>8, <1>9, <1>10 DEF ChannelInv

LEMMA ChannelStepKeeps ==
    ASSUME IInv, NEW c \in Channel, ChannelStep(c), upsets' = upsets
    PROVE  IInv'
<1>1. /\ TypeInv /\ ScriptInv /\ ChannelInv(c)
      /\ \A d \in Channel : ChannelInv(d)
    BY DEF IInv
<1>2. /\ Stepped(c)
      /\ "ecc" \notin upsets => (ecc_latched'[c] => ecc_latched[c])
  <2>1. CASE Begin(c)
      BY <1>1, <2>1, BeginStep
  <2>2. CASE Mismatch(c)
      BY <1>1, <2>2, MismatchStep
  <2>3. CASE Verdict(c)
      BY <1>1, <2>3, VerdictStep
  <2>4. CASE Rearm(c)
      BY <1>1, <2>4, RearmStep
  <2>5. CASE ShiftStart(c)
      BY <1>1, <2>5, ShiftStep
  <2>6. CASE Calibrate(c)
      BY <1>1, <2>6, CalibrateStep
  <2>7. CASE LoseChannel(c)
      BY <1>1, <2>7, LoseStep
  <2>8. CASE EccEvent(c)
      BY <1>1, <2>8, EccStep
  <2> QED
      BY <2>1, <2>2, <2>3, <2>4, <2>5, <2>6, <2>7, <2>8 DEF ChannelStep
<1>3. ChannelInv(c)'
    BY <1>1, BeginKeeps, MismatchKeeps, VerdictKeeps, RearmKeeps,
       ShiftStartKeeps, CalibrateKeeps, LoseChannelKeeps, EccEventKeeps
       DEF ChannelStep
<1>4. ASSUME NEW d \in Channel \ {c} PROVE ChannelInv(d)'
    BY <1>1, <1>2, SameKept DEF Stepped
<1>5. ScriptInv'
    BY <1>1, <1>2, FrameKeeps DEF Stepped, ScriptInv, Same
<1>6. TypeInv'
    BY <1>2 DEF Stepped
<1> QED
    BY <1>3, <1>4, <1>5, <1>6 DEF IInv

-----------------------------------------------------------------------------
(* A sysclk edge: what the flops of one channel catch, and the count of    *)
(* edges, which only moves on once the level has arrived.                  *)
Moved(c) ==
    /\ \A f \in Flag :
          /\ last'[c].flags[f] <=> status(c)[f]
          /\ q'[c][2][f] <=> q[c][1][f]
          /\ \/ q'[c][1][f] <=> status(c)[f]
             \/ q'[c][1][f] <=> last[c].flags[f]
    /\ last'[c].errors = bist[c].errors
    /\ q[c][2]["done"] /\ last[c].errors = bist[c].errors =>
          errors_cap'[c] = bist[c].errors
Counted == /\ edges' = edges \/ edges' = edges + 1
           /\ edges' # edges => LevelArrived
Still == UNCHANGED <<upsets, calib, bist, ecc_latched, start_sync, vio_start,
                     pc, mark, disturbed>>

LEMMA EdgeStep ==
    ASSUME TypeInv, SysEdge, upsets' = upsets
    PROVE  /\ Still /\ Counted /\ TypeInv'
           /\ \A c \in Channel : Moved(c)
<1>1. Still
    BY DEF SysEdge, Still, top
<1>2. Counted /\ edges' \in 0 .. JtagEdges
    BY CalAssumption DEF SysEdge, Counted, TypeInv, CalAssumption
<1>3. PICK caught \in [Channel -> UNION {Catch(c) : c \in Channel}] :
         /\ \A c \in Channel : caught[c] \in Catch(c)
         /\ q' = [c \in Channel |-> <<caught[c], q[c][1]>>]
    BY DEF SysEdge
<1>4. PICK wide \in [Channel -> UNION {CatchWide(c) : c \in Channel}] :
         /\ \A c \in Channel : wide[c] \in CatchWide(c)
         /\ errors_cap' = [c \in Channel |->
                IF q[c][2].done THEN wide[c] ELSE errors_cap[c]]
    BY DEF SysEdge
<1>5. last' = [c \in Channel |->
                 [flags |-> status(c), errors |-> bist[c].errors]]
    BY DEF SysEdge
<1>6. \A c \in Channel : status(c) \in Flags /\ bist[c].errors \in Errors
    BY StatusIs DEF TypeInv, Tests, Errors
<1>7. last' \in [Channel -> [flags : Flags, errors : Errors]]
    BY <1>5, <1>6
<1>8. ASSUME NEW c \in Channel
      PROVE  /\ caught[c] \in Flags
             /\ \A f \in Flag :
                   caught[c][f] \in {status(c)[f], last[c].flags[f]}
    BY <1>3 DEF Catch
<1>9. q' \in [Channel -> Flags \X Flags]
    BY <1>3, <1>8 DEF TypeInv
<1>10. errors_cap' \in [Channel -> Errors \cup {Torn}]
  <2>1. \A c \in Channel : wide[c] \in Errors \cup {Torn}
      BY <1>4, <1>6 DEF CatchWide, TypeInv
  <2> QED
      BY <1>4, <2>1 DEF TypeInv
<1>11. TypeInv'
    BY <1>1, <1>2, <1>7, <1>9, <1>10 DEF TypeInv, Still
<1>12. ASSUME NEW c \in Channel PROVE Moved(c)
  <2>1. /\ last'[c].flags = status(c) /\ last'[c].errors = bist[c].errors
        /\ q'[c][2] = q[c][1] /\ q'[c][1] = caught[c]
      BY <1>3, <1>5
  <2>2. q[c][2]["done"] /\ last[c].errors = bist[c].errors =>
           errors_cap'[c] = bist[c].errors
      BY <1>4 DEF CatchWide
  <2> QED
      BY <1>8, <2>1, <2>2 DEF Moved
<1> QED
    BY <1>1, <1>2, <1>11, <1>12

LEMMA ShownKept ==
    ASSUME TypeInv, NEW c \in Channel, Moved(c), Counted, NEW f \in Flag,
           status(c)[f], Shown(c, f)
    PROVE  Shown(c, f)'
BY EdgesType DEF Moved, Counted, Shown

LEMMA HiddenKept ==
    ASSUME TypeInv, NEW c \in Channel, Moved(c), Counted, NEW f \in Flag,
           ~status(c)[f], Hidden(c, f)
    PROVE  Hidden(c, f)'
BY EdgesType DEF Moved, Counted, Hidden

LEMMA EdgeKeepsChannel ==
    ASSUME TypeInv, ScriptInv, Still, Counted, NEW c \in Channel, Moved(c),
           ChannelInv(c)
    PROVE  ChannelInv(c)'
<1>1. /\ upsets' = upsets /\ calib' = calib /\ bist' = bist
      /\ ecc_latched' = ecc_latched /\ start_sync' = start_sync
      /\ vio_start' = vio_start /\ pc' = pc /\ mark' = mark
      /\ disturbed' = disturbed
      /\ (Watching' <=> Watching) /\ (Lost' <=> Lost) /\ (Apart' <=> Apart)
      /\ (Vouched(c)' <=> Vouched(c))
    BY DEF Still, Watching, Lost, Apart, Vouched
<1>2. /\ edges \in Nat /\ (edges' = edges \/ edges' = edges + 1)
      /\ edges = 0 /\ edges' >= 1 =>
            /\ start_sync[c] <=> vio_start
            /\ bist[c].phase = "idle" => ~(start_sync[c] /\ calib[c])
    BY EdgesType DEF Counted, LevelArrived, bist_start
<1>3. \A f \in Flag : /\ status(c)[f] /\ Shown(c, f) => Shown(c, f)'
                      /\ ~status(c)[f] /\ Hidden(c, f) => Hidden(c, f)'
    BY ShownKept, HiddenKept
<1>4. /\ "calib" \in Flag /\ "done" \in Flag /\ "pass" \in Flag
      /\ "busy" \in Flag /\ "ecc" \in Flag
      /\ status(c)["calib"] = calib[c] /\ status(c)["done"] = bist[c].done
      /\ status(c)["pass"] = bist[c].pass /\ status(c)["busy"] = bist[c].busy
      /\ status(c)["ecc"] = ecc_latched[c]
    BY TheFlags, StatusIs
<1>5. /\ last'[c].flags["done"] <=> bist[c].done
      /\ q'[c][2]["done"] <=> q[c][1]["done"]
      /\ \/ q'[c][1]["done"] <=> bist[c].done
         \/ q'[c][1]["done"] <=> last[c].flags["done"]
      /\ last'[c].flags["pass"] <=> bist[c].pass
      /\ q'[c][2]["pass"] <=> q[c][1]["pass"]
      /\ \/ q'[c][1]["pass"] <=> bist[c].pass
         \/ q'[c][1]["pass"] <=> last[c].flags["pass"]
    BY <1>4 DEF Moved
<1>6. /\ Seen(1)' => pc = "final" \/ edges' >= 1
      /\ Seen(2)' => Seen(1) /\ Seen(1)'
      /\ Seen(3)' => Seen(2) /\ Seen(2)'
    BY <1>1, <1>2 DEF Seen
<1>7. TestInv(c)' /\ MarkInv(c)' /\ CalmInv(c)'
    BY <1>1 DEF ChannelInv, TestInv, MarkInv, CalmInv
<1>8. LowInv(c)'
  <2>1. pc = "calib" /\ edges' >= 1 => ~start_sync[c]
      BY <1>2 DEF ChannelInv, LowInv, ScriptInv
  <2>2. pc = "calib" /\ bist[c].phase = "testing" => Shown(c, "busy")'
      BY <1>3, <1>4 DEF ChannelInv, LowInv, TestInv
  <2> QED
      BY <1>1, <2>1, <2>2 DEF ChannelInv, LowInv
<1>9. HighInv(c)'
  <2>1. Begun' <=> pc = "final" \/ edges' >= 1
      BY <1>1 DEF Begun
  <2>2. Watching /\ Begun' /\ ~Begun =>
           start_sync[c] /\ (bist[c].phase = "idle" => ~bist[c].done)
    <3>1. Begun' /\ ~Begun => edges = 0 /\ edges' >= 1
        BY <1>2, <2>1 DEF Begun
    <3> QED
        BY <1>2, <3>1 DEF ScriptInv, ChannelInv, TestInv
  <2> QED
      BY <1>1, <2>2 DEF ChannelInv, HighInv
<1>10. DoneInv(c)'
    BY <1>1, <1>5, <1>6 DEF ChannelInv, DoneInv, Seen
<1>11. Watching /\ Seen(1)' /\ bist[c].pass =>
          mark[c] = "clean" \/ ecc_latched[c]
  <2>1. Seen(1)' => Begun'
      BY <1>1 DEF Seen, Begun
  <2>2. bist[c].pass => bist[c].done /\ bist[c].phase # "testing"
      BY DEF ChannelInv, TestInv
  <2>3. bist[c].phase \in {"idle", "testing", "over"}
      BY DEF TypeInv, Tests
  <2> QED
      BY <1>1, <1>9, <2>1, <2>2, <2>3 DEF HighInv, ChannelInv, MarkInv
<1>12. PassInv(c)'
  <2>1. Watching /\ Seen(1)' /\ bist[c].pass => Vouched(c)
      BY <1>11 DEF Vouched
  <2>2. pc = "final" /\ bist[c].pass /\ mark[c] # "clean" /\ Watching
        /\ Apart => Shown(c, "ecc")'
      BY <1>1, <1>3, <1>4, <1>11 DEF ChannelInv, PassInv, Seen
  <2> QED
      BY <1>1, <1>5, <1>6, <2>1, <2>2 DEF ChannelInv, PassInv
<1>13. FinalInv(c)'
  <2> SUFFICES ASSUME pc = "final", ~Lost
               PROVE  FinalInv(c)'
      BY <1>1 DEF FinalInv
  <2>1. bist[c].done /\ ~bist[c].busy /\ q[c][2]["done"]
      BY DEF ChannelInv, DoneInv, Watching, Seen, TestInv
  <2>2. /\ edges' >= 1 => last'[c].errors = bist[c].errors
        /\ edges' >= 2 => errors_cap'[c] = bist[c].errors
      BY <1>2, <2>1 DEF Moved, ChannelInv, FinalInv
  <2>3. /\ bist[c].pass => Shown(c, "pass")'
        /\ Hidden(c, "busy")'
      BY <1>3, <1>4, <2>1 DEF ChannelInv, FinalInv
  <2>4. /\ "lost" \notin disturbed => Shown(c, "calib")'
        /\ "ecc" \notin disturbed => Hidden(c, "ecc")'
      BY <1>3, <1>4 DEF ChannelInv, FinalInv, CalmInv, Watching
  <2> QED
      BY <1>1, <2>2, <2>3, <2>4 DEF FinalInv
<1> QED
    BY <1>7, <1>8, <1>9, <1>10, <1>12, <1>13 DEF ChannelInv

LEMMA EdgeKeeps ==
    ASSUME IInv, SysEdge, upsets' = upsets
    PROVE  IInv'
<1>1. TypeInv /\ ScriptInv /\ \A c \in Channel : ChannelInv(c)
    BY DEF IInv
<1>2. Still /\ Counted /\ TypeInv' /\ \A c \in Channel : Moved(c)
    BY <1>1, EdgeStep
<1>3. ScriptInv'
    BY <1>1, <1>2 DEF ScriptInv, Still, Watching
<1>4. ASSUME NEW c \in Channel PROVE ChannelInv(c)'
    BY <1>1, <1>2, EdgeKeepsChannel
<1> QED
    BY <1>2, <1>3, <1>4 DEF IInv

-----------------------------------------------------------------------------
(* An operation of the script: the level has arrived, the flops have had   *)
(* time to show it, and the count of edges begins again.                   *)
LEMMA OperationIs ==
    ASSUME TypeInv, NEW next, Operation(next)
    PROVE  /\ edges \in Nat /\ edges >= 3 /\ edges' = 0 /\ pc' = next
           /\ edges' \in 0 .. JtagEdges
           /\ \A c \in Channel :
                 /\ start_sync[c] = vio_start
                 /\ bist[c].phase = "idle" => ~(start_sync[c] /\ calib[c])
                 /\ bist[c].phase = "over" => start_sync[c] /\ calib[c]
BY CalAssumption DEF CalAssumption, Operation, LevelArrived, bist_start

LEMMA ZeroEdges ==
    ASSUME edges' = 0, NEW c \in Channel
    PROVE  \A f \in Flag : Shown(c, f)' /\ Hidden(c, f)'
BY DEF Shown, Hidden

(* The script stops, or someone at the Hardware Manager sets the level.    *)
LEMMA OffKeeps ==
    ASSUME IInv, UNCHANGED <<upsets, top, read>>, pc' = "off",
           edges' \in 0 .. JtagEdges, vio_start' \in BOOLEAN,
           disturbed' \subseteq UpsetKinds,
           mark' = [c \in Channel |-> "none"]
    PROVE  IInv'
<1>1. /\ TypeInv /\ ScriptInv /\ \A c \in Channel : ChannelInv(c)
    BY DEF IInv
<1>2. /\ upsets' = upsets /\ calib' = calib /\ bist' = bist
      /\ ecc_latched' = ecc_latched /\ start_sync' = start_sync
      /\ q' = q /\ last' = last /\ errors_cap' = errors_cap
      /\ ~Watching'
    BY DEF top, read, Watching
<1>3. TypeInv'
    BY <1>1, <1>2 DEF TypeInv
<1>4. ScriptInv'
    BY <1>1, <1>2 DEF ScriptInv
<1>5. ASSUME NEW c \in Channel PROVE ChannelInv(c)'
  <2>1. TestInv(c)'
      BY <1>1, <1>2 DEF ChannelInv, TestInv
  <2>2. LowInv(c)' /\ HighInv(c)' /\ MarkInv(c)'
      BY <1>2 DEF LowInv, HighInv, MarkInv
  <2>3. DoneInv(c)' /\ PassInv(c)' /\ CalmInv(c)' /\ FinalInv(c)'
      BY <1>2 DEF DoneInv, PassInv, CalmInv, FinalInv
  <2> QED
      BY <2>1, <2>2, <2>3 DEF ChannelInv
<1> QED
    BY <1>3, <1>4, <1>5 DEF IInv

LEMMA QuietMarks ==
    ASSUME IInv, ~Watching
    PROVE  mark = [c \in Channel |-> "none"]
<1>1. \A c \in Channel : mark[c] = "none"
    BY DEF IInv, ChannelInv, MarkInv
<1> QED
    BY <1>1 DEF IInv, TypeInv

LEMMA OperatorKeeps ==
    ASSUME IInv, Operator, upsets' = upsets
    PROVE  IInv'
<1>1. /\ UNCHANGED <<upsets, top, read, mark, disturbed>> /\ pc' = "off"
      /\ edges' \in 0 .. JtagEdges /\ vio_start' \in BOOLEAN /\ ~Watching
      /\ disturbed' \subseteq UpsetKinds
    BY OperationIs DEF Operator, IInv, TypeInv, Watching
<1>2. mark' = [c \in Channel |-> "none"]
    BY <1>1, QuietMarks
<1> QED
    BY <1>1, <1>2, OffKeeps

LEMMA ScriptBeginsKeeps ==
    ASSUME IInv, ScriptBegins, upsets' = upsets
    PROVE  IInv'
<1>1. /\ TypeInv /\ ScriptInv /\ \A c \in Channel : ChannelInv(c)
    BY DEF IInv
<1>2. /\ upsets' = upsets /\ calib' = calib /\ bist' = bist
      /\ ecc_latched' = ecc_latched /\ start_sync' = start_sync
      /\ q' = q /\ last' = last /\ errors_cap' = errors_cap
      /\ mark' = mark /\ disturbed' = disturbed
      /\ pc = "off" /\ vio_start' = FALSE
      /\ Operation("calib") /\ ~Watching
    BY DEF ScriptBegins, top, read, Watching
<1>3. /\ pc' = "calib" /\ edges' = 0 /\ edges' \in 0 .. JtagEdges
    BY <1>1, <1>2, OperationIs
<1>4. ~Watching'
    BY <1>3 DEF Watching
<1>5. TypeInv'
    BY <1>1, <1>2, <1>3 DEF TypeInv
<1>6. ScriptInv'
    BY <1>1, <1>2, <1>4 DEF ScriptInv
<1>7. ASSUME NEW c \in Channel PROVE ChannelInv(c)'
  <2>1. TestInv(c)' /\ MarkInv(c)'
      BY <1>1, <1>2, <1>4 DEF ChannelInv, TestInv, MarkInv
  <2>2. LowInv(c)'
      BY <1>3, ZeroEdges, TheFlags DEF LowInv
  <2>3. HighInv(c)' /\ DoneInv(c)' /\ PassInv(c)' /\ CalmInv(c)'
        /\ FinalInv(c)'
      BY <1>3, <1>4 DEF HighInv, DoneInv, PassInv, CalmInv, FinalInv
  <2> QED
      BY <2>1, <2>2, <2>3 DEF ChannelInv
<1> QED
    BY <1>5, <1>6, <1>7 DEF IInv

(* When the script goes on, no test is running or has its level up.        *)
LEMMA AwaitCalibrationKeeps ==
    ASSUME IInv, AwaitCalibration, upsets' = upsets
    PROVE  IInv'
<1>1. /\ TypeInv /\ ScriptInv /\ \A c \in Channel : ChannelInv(c)
    BY DEF IInv
<1>2. /\ upsets' = upsets /\ calib' = calib /\ bist' = bist
      /\ ecc_latched' = ecc_latched /\ start_sync' = start_sync
      /\ q' = q /\ last' = last /\ errors_cap' = errors_cap
      /\ mark' = mark /\ disturbed' = disturbed /\ vio_start' = vio_start
      /\ pc = "calib" /\ ~Watching
    BY DEF AwaitCalibration, top, read, Watching
<1>3. CASE Operation("off")
  <2>1. pc' = "off" /\ edges' \in 0 .. JtagEdges
      BY <1>1, <1>3, OperationIs
  <2>2. mark' = [c \in Channel |-> "none"]
      BY <1>2, QuietMarks
  <2>3. /\ UNCHANGED <<upsets, top, read>> /\ vio_start' \in BOOLEAN
        /\ disturbed' \subseteq UpsetKinds
      BY <1>1, <1>2 DEF top, read, TypeInv
  <2> QED
      BY <2>1, <2>2, <2>3, OffKeeps
<1>4. CASE Operation("fresh") /\ probe("busy") = {}
  <2>1. /\ pc' = "fresh" /\ edges' = 0 /\ edges >= 3 /\ edges \in Nat
        /\ edges' \in 0 .. JtagEdges
        /\ \A c \in Channel : bist[c].phase = "over" => start_sync[c]
      BY <1>1, <1>4, OperationIs
  <2>2. ~Watching'
      BY <2>1 DEF Watching
  <2>3. TypeInv'
      BY <1>1, <1>2, <2>1 DEF TypeInv
  <2>4. ScriptInv'
      BY <1>1, <1>2, <2>2 DEF ScriptInv
  <2>5. ASSUME NEW c \in Channel PROVE ChannelInv(c)'
    <3>1. TestInv(c)' /\ MarkInv(c)'
        BY <1>1, <1>2, <2>2 DEF ChannelInv, TestInv, MarkInv
    <3>2. ~start_sync[c] /\ bist[c].phase # "testing"
        BY <1>1, <1>2, <1>4, <2>1, TheFlags
           DEF ChannelInv, LowInv, Shown, probe
    <3>3. bist[c].phase = "idle"
        BY <1>1, <2>1, <3>2 DEF TypeInv, Tests
    <3>4. LowInv(c)'
        BY <1>2, <2>1, <3>2, <3>3 DEF LowInv
    <3>5. HighInv(c)' /\ DoneInv(c)' /\ PassInv(c)' /\ CalmInv(c)'
          /\ FinalInv(c)'
        BY <2>1, <2>2 DEF HighInv, DoneInv, PassInv, CalmInv, FinalInv
    <3> QED
        BY <3>1, <3>4, <3>5 DEF ChannelInv
  <2> QED
      BY <2>3, <2>4, <2>5 DEF IInv
<1> QED
    BY <1>3, <1>4 DEF AwaitCalibration

LEMMA RaiseStartKeeps ==
    ASSUME IInv, RaiseStart, upsets' = upsets
    PROVE  IInv'
<1>1. /\ TypeInv /\ ScriptInv /\ \A c \in Channel : ChannelInv(c)
    BY DEF IInv
<1>2. /\ upsets' = upsets /\ calib' = calib /\ bist' = bist
      /\ ecc_latched' = ecc_latched /\ start_sync' = start_sync
      /\ q' = q /\ last' = last /\ errors_cap' = errors_cap
      /\ mark' = mark /\ vio_start' = TRUE
      /\ pc = "fresh" /\ Operation("poll") /\ ~Watching
    BY DEF RaiseStart, top, read, Watching
<1>3. /\ pc' = "poll" /\ edges' = 0 /\ edges' \in 0 .. JtagEdges
    BY <1>1, <1>2, OperationIs
<1>4. /\ disturbed' \subseteq UpsetKinds
      /\ "lost" \notin disturbed' => \A c \in Channel : calib[c]
      /\ "ecc" \notin disturbed' => \A c \in Channel : ~ecc_latched[c]
    BY DEF RaiseStart, UpsetKinds
<1>5. TypeInv'
    BY <1>1, <1>2, <1>3, <1>4 DEF TypeInv
<1>6. ScriptInv'
    BY <1>1, <1>2, <1>3 DEF ScriptInv
<1>7. ASSUME NEW c \in Channel PROVE ChannelInv(c)'
  <2>1. /\ bist[c].phase = "idle" /\ ~Begun'
        /\ ~Seen(1)' /\ ~Seen(2)' /\ ~Seen(3)'
      BY <1>1, <1>2, <1>3 DEF ChannelInv, LowInv, Begun, Seen
  <2>2. TestInv(c)'
      BY <1>1, <1>2 DEF ChannelInv, TestInv
  <2>3. MarkInv(c)'
      BY <1>2, <1>3, <2>1 DEF MarkInv, Watching
  <2>4. LowInv(c)' /\ HighInv(c)' /\ FinalInv(c)'
      BY <1>2, <1>3, <2>1 DEF LowInv, HighInv, FinalInv
  <2>5. DoneInv(c)' /\ PassInv(c)'
      BY <1>3, <2>1 DEF DoneInv, PassInv
  <2>6. CalmInv(c)'
      BY <1>2, <1>4, <2>1 DEF CalmInv
  <2> QED
      BY <2>2, <2>3, <2>4, <2>5, <2>6 DEF ChannelInv
<1> QED
    BY <1>5, <1>6, <1>7 DEF IInv

(* What the flops show when the script has seen done, they show for good.  *)
LEMMA PollDoneKeeps ==
    ASSUME IInv, PollDone, upsets' = upsets
    PROVE  IInv'
<1>1. /\ TypeInv /\ ScriptInv /\ \A c \in Channel : ChannelInv(c)
    BY DEF IInv
<1>2. /\ upsets' = upsets /\ calib' = calib /\ bist' = bist
      /\ ecc_latched' = ecc_latched /\ start_sync' = start_sync
      /\ q' = q /\ last' = last /\ errors_cap' = errors_cap
      /\ mark' = mark /\ disturbed' = disturbed /\ vio_start' = vio_start
      /\ pc = "poll" /\ Operation("final") /\ probe("done") = Channel
    BY DEF PollDone, top, read
<1>3. /\ pc' = "final" /\ edges' = 0 /\ edges >= 3 /\ edges \in Nat
      /\ edges' \in 0 .. JtagEdges
    BY <1>1, <1>2, OperationIs
<1>4. /\ Watching /\ Watching' /\ (Lost' <=> Lost) /\ (Apart' <=> Apart)
      /\ Seen(1) /\ Seen(2) /\ Seen(3) /\ Begun
    BY <1>2, <1>3 DEF Watching, Lost, Apart, Seen, Begun
<1>5. TypeInv'
    BY <1>1, <1>2, <1>3 DEF TypeInv
<1>6. ScriptInv'
    BY <1>1, <1>2, <1>3, <1>4 DEF ScriptInv
<1>7. ASSUME NEW c \in Channel PROVE ChannelInv(c)'
  <2>1. q[c][2]["done"]
      BY <1>2 DEF probe
  <2>2. \A f \in Flag : Shown(c, f)' /\ Hidden(c, f)'
      BY <1>3, ZeroEdges
  <2>3. TestInv(c)' /\ LowInv(c)'
      BY <1>1, <1>2, <1>3 DEF ChannelInv, TestInv, LowInv
  <2>4. HighInv(c)' /\ MarkInv(c)' /\ CalmInv(c)'
      BY <1>1, <1>2, <1>4 DEF ChannelInv, HighInv, MarkInv, CalmInv
  <2>5. DoneInv(c)'
      BY <1>1, <1>2, <1>4, <2>1 DEF ChannelInv, DoneInv
  <2>6. PassInv(c)'
      BY <1>1, <1>2, <1>4, <2>2, TheFlags DEF ChannelInv, PassInv, Vouched
  <2>7. FinalInv(c)'
      BY <1>3, <2>2, TheFlags DEF FinalInv
  <2> QED
      BY <2>3, <2>4, <2>5, <2>6, <2>7 DEF ChannelInv
<1> QED
    BY <1>5, <1>6, <1>7 DEF IInv

LEMMA VerdictGivenKeeps ==
    ASSUME IInv, GiveUp \/ \E good \in BOOLEAN : Judge(good), upsets' = upsets
    PROVE  IInv'
<1>1. /\ UNCHANGED <<top, read>> /\ Operation("off") /\ vio_start' = FALSE
      /\ NoMarks /\ disturbed' = {}
    BY DEF GiveUp, Judge
<1>2. pc' = "off" /\ edges' \in 0 .. JtagEdges
    BY <1>1, OperationIs DEF IInv
<1> QED
    BY <1>1, <1>2, OffKeeps DEF NoMarks

-----------------------------------------------------------------------------
LEMMA InitInv == Init => IInv
<1> SUFFICES ASSUME Init PROVE IInv
    OBVIOUS
<1>1. PICK s \in Tests : s = Fresh
    BY FreshIsTest
<1>2. s.phase = "idle" /\ s.errors = 0 /\ ~s.busy /\ ~s.done /\ ~s.pass
    BY <1>1, FreshIsTest, Zenon
<1>3. bist = [c \in Channel |-> s]
    BY <1>1, Zenon DEF Init
<1>4. TypeInv
  <2>1. calib \in [Channel -> BOOLEAN] /\ ecc_latched \in [Channel -> BOOLEAN]
        /\ start_sync \in [Channel -> BOOLEAN]
      BY DEF Init, Off
  <2>2. q \in [Channel -> Flags \X Flags]
        /\ last \in [Channel -> [flags : Flags, errors : Errors]]
      BY LowIsFlags, CalAssumption DEF Init, Errors, CalAssumption
  <2>3. errors_cap \in [Channel -> Errors \cup {Torn}]
      BY CalAssumption DEF Init, Errors, CalAssumption
  <2>4. bist \in [Channel -> Tests]
      BY <1>3
  <2>5. edges \in 0 .. JtagEdges
      BY CalAssumption DEF Init, CalAssumption
  <2>6. /\ upsets \in UpsetSets /\ vio_start \in BOOLEAN
        /\ pc \in {"off", "calib", "fresh", "poll", "final"}
        /\ mark \in [Channel -> {"none", "running", "clean"}]
        /\ disturbed \subseteq UpsetKinds
      BY DEF Init
  <2> QED
      BY <2>1, <2>2, <2>3, <2>4, <2>5, <2>6 DEF TypeInv
<1>5. ScriptInv
    BY DEF Init, ScriptInv, Watching, Off
<1>6. ASSUME NEW c \in Channel PROVE ChannelInv(c)
  <2>1. /\ bist[c] = s /\ pc = "off" /\ ~Watching /\ mark[c] = "none"
      BY <1>3 DEF Init, Watching
  <2>2. TestInv(c)
      BY <1>2, <2>1 DEF TestInv
  <2>3. LowInv(c) /\ HighInv(c) /\ MarkInv(c) /\ FinalInv(c)
      BY <1>2, <2>1 DEF LowInv, HighInv, MarkInv, FinalInv
  <2>4. DoneInv(c) /\ PassInv(c) /\ CalmInv(c)
      BY <2>1 DEF DoneInv, PassInv, CalmInv
  <2> QED
      BY <2>2, <2>3, <2>4 DEF ChannelInv
<1> QED
    BY <1>4, <1>5, <1>6 DEF IInv

LEMMA StutterKeeps == IInv /\ UNCHANGED vars => IInv'
BY DEF vars, top, read, IInv, TypeInv, ScriptInv, ChannelInv, TestInv, LowInv,
       HighInv, MarkInv, DoneInv, PassInv, CalmInv, FinalInv, Shown, Hidden,
       Begun, Seen, Lost, Vouched, Apart, Watching

LEMMA StepKeeps == IInv /\ [Next]_vars => IInv'
<1> SUFFICES ASSUME IInv, [Next]_vars PROVE IInv'
    OBVIOUS
<1>1. CASE UNCHANGED vars
    BY <1>1, StutterKeeps
<1>2. ASSUME upsets' = upsets, NEW c \in Channel, ChannelStep(c) PROVE IInv'
    BY <1>2, ChannelStepKeeps
<1>3. ASSUME upsets' = upsets, SysEdge PROVE IInv'
    BY <1>3, EdgeKeeps
<1>4. ASSUME upsets' = upsets, Operator PROVE IInv'
    BY <1>4, OperatorKeeps
<1>5. ASSUME upsets' = upsets, Script PROVE IInv'
    BY <1>5, ScriptBeginsKeeps, AwaitCalibrationKeeps, RaiseStartKeeps,
       PollDoneKeeps, VerdictGivenKeeps DEF Script
<1> QED
    BY <1>1, <1>2, <1>3, <1>4, <1>5 DEF Next

(* What every reachable state of the bring-up satisfies.                   *)
THEOREM Inductive == Spec => []IInv
<1> QED
    BY InitInv, StepKeeps, PTL DEF Spec

-----------------------------------------------------------------------------
(* The verdict is given by one step, at the end of the last refresh.       *)
LEMMA JudgedAt ==
    ASSUME IInv, NEW good \in BOOLEAN, Judge(good)
    PROVE  /\ TypeInv /\ pc = "final" /\ edges \in Nat /\ edges >= 3
           /\ good <=> Good
           /\ Watching /\ Seen(3) /\ \A c \in Channel : ChannelInv(c)
<1>1. pc = "final" /\ Operation("off") /\ (good <=> Good)
    BY DEF Judge
<1>2. TypeInv /\ \A c \in Channel : ChannelInv(c)
    BY DEF IInv
<1>3. edges \in Nat /\ edges >= 3
    BY <1>1, <1>2, OperationIs
<1> QED
    BY <1>1, <1>2, <1>3 DEF Watching, Seen

LEMMA GoodIsClean ==
    ASSUME IInv, Apart, Judge(TRUE), NEW c \in Channel
    PROVE  mark[c] = "clean"
<1>1. /\ pc = "final" /\ edges \in Nat /\ edges >= 3 /\ Good
      /\ Watching /\ Seen(3) /\ ChannelInv(c)
    BY JudgedAt
<1>2. q[c][2]["pass"] /\ ~q[c][2]["ecc"]
    BY <1>1 DEF Good, probe
<1>3. Vouched(c)
    BY <1>1, <1>2 DEF ChannelInv, PassInv
<1>4. CASE bist[c].pass /\ mark[c] # "clean"
  <2>1. Shown(c, "ecc")
      BY <1>1, <1>4 DEF ChannelInv, PassInv
  <2> QED
      BY <1>1, <1>2, <2>1 DEF Shown
<1> QED
    BY <1>3, <1>4 DEF Vouched

(* PASS is only said when on every channel a test that was begun after the *)
(* script raised start has ended with no error and no ECC event in it, for *)
(* any number of channels and however the flops caught the flags. In the   *)
(* executions covered a channel is not lost in which an ECC event may come *)
(* as well: a reset clears the latch that tells of the event.              *)
THEOREM CleanPass ==
    ASSUME \A u \in UpsetSets : ~({"ecc", "lost"} \subseteq u)
    PROVE  Spec => PassMeansClean
<1>1. IInv /\ [Next]_vars =>
         [Judge(TRUE) => \A c \in Channel : mark[c] = "clean"]_vars
  <2> SUFFICES ASSUME IInv, Judge(TRUE), NEW c \in Channel
               PROVE  mark[c] = "clean"
      OBVIOUS
  <2>1. Apart
      BY DEF IInv, TypeInv, Apart
  <2> QED
      BY <2>1, GoodIsClean
<1> QED
    BY <1>1, Inductive, PTL DEF Spec, PassMeansClean

LEMMA CalmIsGood ==
    ASSUME IInv, NEW good \in BOOLEAN, Judge(good), disturbed = {}
    PROVE  Good
<1>1. /\ TypeInv /\ pc = "final" /\ edges \in Nat /\ edges >= 3
      /\ Watching /\ Seen(3) /\ \A c \in Channel : ChannelInv(c)
    BY JudgedAt
<1>2. ~Lost /\ Seen(1) /\ Seen(2) /\ Begun
    BY <1>1 DEF Lost, Seen, Begun
<1>3. ASSUME NEW c \in Channel
      PROVE  /\ q[c][2]["calib"] /\ q[c][2]["pass"] /\ ~q[c][2]["busy"]
             /\ ~q[c][2]["ecc"] /\ errors_cap[c] = 0
  <2>1. TestInv(c) /\ HighInv(c) /\ DoneInv(c) /\ CalmInv(c) /\ FinalInv(c)
      BY <1>1 DEF ChannelInv
  <2>2. bist[c].done
      BY <1>1, <1>2, <2>1 DEF DoneInv
  <2>3. bist[c].phase # "idle"
      BY <1>1, <1>2, <2>1, <2>2 DEF HighInv
  <2>4. bist[c].errors = 0 /\ bist[c].pass
      BY <1>1, <2>1, <2>2, <2>3 DEF CalmInv, TestInv
  <2>5. Shown(c, "pass") /\ Hidden(c, "busy") /\ Shown(c, "calib")
        /\ Hidden(c, "ecc") /\ errors_cap[c] = bist[c].errors
      BY <1>1, <1>2, <2>1, <2>4 DEF FinalInv
  <2> QED
      BY <1>1, <2>4, <2>5 DEF Shown, Hidden
<1> QED
    BY <1>3 DEF Good, probe

(* FAIL is never a false alarm: an error, an ECC event or a lost channel   *)
(* has really happened since the script raised start.                      *)
THEOREM NoFalseAlarm == Spec => FailMeansDisturbed
<1>1. IInv /\ [Next]_vars => [Judge(FALSE) => disturbed # {}]_vars
  <2> SUFFICES ASSUME IInv, Judge(FALSE), disturbed = {}
               PROVE  FALSE
      OBVIOUS
  <2>1. Good
      BY CalmIsGood
  <2> QED
      BY <2>1, JudgedAt
<1> QED
    BY <1>1, Inductive, PTL DEF Spec, FailMeansDisturbed

(* The error counts printed with the verdict are those of the tests when   *)
(* no channel was lost: never half-changed, and never an earlier test's.   *)
THEOREM CountsExact == Spec => ReportExact
<1>1. IInv /\ [Next]_vars =>
         [pc = "final" /\ pc' = "off" /\ "lost" \notin disturbed =>
             \A c \in Channel : errors_cap[c] = bist[c].errors]_vars
  <2> SUFFICES ASSUME IInv, Next, pc = "final", pc' = "off",
                      "lost" \notin disturbed, NEW c \in Channel
               PROVE  errors_cap[c] = bist[c].errors
      BY DEF vars
  <2>1. ~(\E d \in Channel : ChannelStep(d))
      BY DEF ChannelStep, Begin, Mismatch, Verdict, Rearm, ShiftStart,
             Calibrate, LoseChannel, EccEvent
  <2>2. ~SysEdge /\ ~Operator
      BY DEF SysEdge, Operator
  <2>3. PICK good \in BOOLEAN : Judge(good)
      BY <2>1, <2>2 DEF Next, Script, ScriptBegins, AwaitCalibration,
         RaiseStart, PollDone, GiveUp
  <2>4. edges \in Nat /\ edges >= 3 /\ ChannelInv(c)
      BY <2>3, JudgedAt
  <2> QED
      BY <2>4 DEF ChannelInv, FinalInv, Lost
<1> QED
    BY <1>1, Inductive, PTL DEF Spec, ReportExact

-----------------------------------------------------------------------------
(* The port of a channel moves only when the channel does, and then as a   *)
(* port may.                                                               *)
LEMMA PortStill ==
    ASSUME NEW c \in Channel, calib'[c] = calib[c],
           start_sync'[c] = start_sync[c], bist'[c] = bist[c]
    PROVE  UNCHANGED Chan(c)!portVars
BY DEF Chan!portVars, bist_start

LEMMA PortStep ==
    ASSUME IInv, NEW c \in Channel, ChannelStep(c), upsets' = upsets
    PROVE  Chan(c)!Next
<1>1. TypeInv /\ bist[c] \in Tests /\ bist_start(c)' \in BOOLEAN
    BY DEF IInv, TypeInv, bist_start
<1>2. Stepped(c)
    BY <1>1, BeginStep, MismatchStep, VerdictStep, RearmStep, ShiftStep,
       CalibrateStep, LoseStep, EccStep DEF ChannelStep
<1>3. bist'[c] \in Tests
    BY <1>2 DEF Stepped, TypeInv
<1>4. \/ Chan(c)!Begin \/ Chan(c)!Mismatch \/ Chan(c)!Verdict \/ Chan(c)!Rearm
      \/ Chan(c)!PortReset \/ Chan(c)!Quiet
  <2>1. ASSUME Begin(c) PROVE Chan(c)!Begin
      BY <1>1, <1>3, <2>1, BeginStep DEF Chan!Begin, bist_start, Tests
  <2>2. ASSUME Mismatch(c) PROVE Chan(c)!Mismatch
    <3>1. PICK t \in Tests : t = bist[c]
        BY <1>1
    <3>2. /\ t.phase = "testing" /\ t.errors < MaxErrors
          /\ bist'[c] = [t EXCEPT !.errors = t.errors + 1]
        BY <1>1, <2>2, <3>1 DEF Mismatch, TypeInv
    <3>3. /\ bist'[c].phase = t.phase /\ bist'[c].errors = t.errors + 1
          /\ bist'[c].busy = t.busy /\ bist'[c].done = t.done
          /\ bist'[c].pass = t.pass
        BY <3>2 DEF Tests
    <3> QED
        BY <3>1, <3>2, <3>3 DEF Chan!Mismatch
  <2>3. ASSUME Verdict(c) PROVE Chan(c)!Verdict
      BY <1>1, <1>3, <2>3, VerdictStep DEF Chan!Verdict, bist_start, Tests
  <2>4. ASSUME Rearm(c) PROVE Chan(c)!Rearm
      BY <1>1, <2>4, RearmStep DEF Chan!Rearm, bist_start
  <2>5. ASSUME ShiftStart(c) \/ Calibrate(c) \/ EccEvent(c) PROVE Chan(c)!Quiet
      BY <1>1, <2>5, ShiftStep, CalibrateStep, EccStep DEF Chan!Quiet
  <2>6. ASSUME LoseChannel(c) PROVE Chan(c)!PortReset
    <3>1. bist'[c] = Fresh
        BY <1>1, <2>6 DEF LoseChannel, TypeInv
    <3> QED
        BY <3>1 DEF Chan!PortReset, Fresh
  <2> QED
      BY <2>1, <2>2, <2>3, <2>4, <2>5, <2>6 DEF ChannelStep
<1> QED
    BY <1>1, <1>4 DEF Chan!Next

(* Every channel's slice of the design behaves as the port of its memory   *)
(* test, whatever the script and the other channels do: the promises that  *)
(* AxiBist keeps are the ones this module relies on.                       *)
THEOREM PortsImplemented == Spec => EveryPort
<1>1. Init => \A c \in Channel : Chan(c)!Init
  <2> SUFFICES ASSUME Init, NEW c \in Channel PROVE Chan(c)!Init
      OBVIOUS
  <2>1. bist[c] = Fresh
      BY DEF Init
  <2> QED
      BY <2>1 DEF Chan!Init, Fresh, bist_start
<1>2. IInv /\ [Next]_vars =>
         [\A c \in Channel : [Chan(c)!Next]_(Chan(c)!portVars)]_vars
  <2> SUFFICES ASSUME IInv, Next, NEW c \in Channel
               PROVE  [Chan(c)!Next]_(Chan(c)!portVars)
      OBVIOUS
  <2>1. ASSUME ChannelStep(c) PROVE Chan(c)!Next
      BY <2>1, PortStep DEF Next
  <2>2. ASSUME NEW d \in Channel \ {c}, ChannelStep(d)
        PROVE  Same(c)
      BY <2>2, BeginStep, MismatchStep, VerdictStep, RearmStep, ShiftStep,
         CalibrateStep, LoseStep, EccStep DEF ChannelStep, Stepped, IInv, Next
  <2>3. ASSUME SysEdge \/ Operator \/ Script PROVE UNCHANGED top
      BY <2>3 DEF SysEdge, Operator, Script, ScriptBegins, AwaitCalibration,
         RaiseStart, PollDone, GiveUp, Judge
  <2>4. Same(c) \/ UNCHANGED top => UNCHANGED Chan(c)!portVars
    <3>1. Same(c) \/ UNCHANGED top =>
             /\ calib'[c] = calib[c] /\ start_sync'[c] = start_sync[c]
             /\ bist'[c] = bist[c]
        BY DEF Same, top
    <3> QED
        BY <3>1, PortStill
  <2> QED
      BY <2>1, <2>2, <2>3, <2>4 DEF Next
<1> QED
    BY <1>1, <1>2, Inductive, PTL DEF Spec, EveryPort
=============================================================================
